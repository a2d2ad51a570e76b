---------------------------- MODULE LoaderProofs ----------------------------
(***************************************************************************)
(* Proofs about the second boot loader, for every number of tries per      *)
(* bank, of retries and of failed transfers.                               *)
(*                                                                         *)
(* The loop counts tries with one variable and derives the bank from it    *)
(* at four fixed numbers.  The inductive invariant says what that means    *)
(* for the banks: how often each has been read after loadretry tries, and  *)
(* which one was read last.                                                *)
(***************************************************************************)
EXTENDS Loader, TLAPS

T == TriesPerBank

\* The type of the state.
LoaderType ==
    /\ flash \in [own : Quality, type : 0 .. 2, bank : [Banks -> Quality]]
    /\ pc \in {"check", "challenge", "load", "cromwell", "halt", "dead"}
    /\ loadretry \in 0 .. Tries
    /\ flashbank \in 0 .. 4
    /\ reads \in [Banks -> Nat]

\* How often the i-th bank of the order has been read after n tries.
Turns(i, n) == IF n <= (i - 1) * T THEN 0 ELSE IF n >= i * T THEN T ELSE n - (i - 1) * T

\* The tries so far in an image over four banks, and in an image of one.
FourBanks ==
    \A i \in 1 .. 4 :
        /\ reads[Order[i]] = Turns(i, loadretry)
        /\ (i - 1) * T < loadretry /\ loadretry <= i * T => flashbank = Order[i]
OneBank == flashbank = 3 /\ reads[3] = loadretry

\* What the loop over loadretry has established.
SearchInv ==
    /\ pc \in {"check", "challenge", "dead"} => loadretry = 0
    /\ pc # "cromwell" =>
        /\ flash.type = 1 => FourBanks
        /\ flash.type # 1 => OneBank
        /\ \A b \in Banks : reads[b] > 0 => flash.bank[b] # "good"
    /\ pc = "halt" => loadretry = Tries

\* The inductive invariant.
LInv == LoaderType /\ SearchInv /\ FirstGoodBankStarts

-----------------------------------------------------------------------------
\* The constants as the provers need them.
LEMMA TriesFact == T \in Nat \ {0} /\ Tries = 4 * T /\ Order = <<1, 2, 0, 3>>
BY LoaderAssumption DEF LoaderAssumption, T, Tries, Order

\* Division with remainder.
LEMMA Divided ==
    ASSUME NEW n \in Nat, NEW q \in Nat, NEW d \in Nat \ {0}, q * d <= n, n < q * d + d
    PROVE  n \div d = q /\ n % d = n - q * d
<1>1. n = (d * (n \div d)) + (n % d) /\ (n % d) \in 0 .. (d - 1) /\ (n \div d) \in Nat
  OBVIOUS
<1> DEFINE p == n \div d
           r == n % d
<1>2. /\ p \in Nat /\ r \in Nat /\ n = d * p + r /\ r < d
  BY <1>1
<1> HIDE DEF p, r
<1>3. ~(p < q)
  <2> SUFFICES ASSUME p < q PROVE FALSE
    OBVIOUS
  <2>1. PICK k \in Nat : q = p + 1 + k
    <3>1. q - p - 1 \in Nat /\ q = p + 1 + (q - p - 1)
      BY <1>2
    <3> QED
      BY <3>1
  <2>2. q * d = p * d + d + k * d /\ k * d >= 0
    BY <2>1, <1>2
  <2> QED
    BY <2>2, <1>2
<1>4. ~(q < p)
  <2> SUFFICES ASSUME q < p PROVE FALSE
    OBVIOUS
  <2>1. PICK k \in Nat : p = q + 1 + k
    <3>1. p - q - 1 \in Nat /\ p = q + 1 + (p - q - 1)
      BY <1>2
    <3> QED
      BY <3>1
  <2>2. p * d = q * d + d + k * d /\ k * d >= 0
    BY <2>1, <1>2
  <2> QED
    BY <2>2, <1>2
<1> QED
  BY <1>2, <1>3, <1>4 DEF p, r

\* In an image over four banks, try n reads the bank whose turn it is.
LEMMA BankOfTurn ==
    ASSUME LoaderType, flash.type = 1, FourBanks, NEW i \in 1 .. 4,
           (i - 1) * T <= loadretry, loadretry < i * T
    PROVE  BankOf(loadretry, flashbank) = Order[i]
<1>1. i * T = (i - 1) * T + T
  BY TriesFact
<1>2. loadretry \div T = i - 1 /\ loadretry % T = loadretry - (i - 1) * T
  <2>1. i - 1 \in Nat /\ loadretry \in Nat /\ loadretry < (i - 1) * T + T
    BY <1>1, TriesFact DEF LoaderType
  <2> QED
    BY <2>1, Divided, TriesFact
<1>3. CASE loadretry = (i - 1) * T
  <2>1. loadretry % TriesPerBank = 0 /\ (loadretry \div TriesPerBank) + 1 = i
    BY <1>2, <1>3, TriesFact DEF T, LoaderType
  <2> QED
    BY <2>1 DEF BankOf
<1>4. CASE loadretry # (i - 1) * T
  <2>1. loadretry % TriesPerBank # 0
    BY <1>2, <1>4, TriesFact DEF T, LoaderType
  <2>2. (i - 1) * T < loadretry /\ loadretry <= i * T
    BY <1>4, TriesFact DEF LoaderType
  <2>3. flashbank = Order[i]
    BY <2>2 DEF FourBanks
  <2> QED
    BY <2>1, <2>3 DEF BankOf
<1> QED
  BY <1>3, <1>4

\* In an image of one bank every try reads bank 3.
LEMMA BankOfOne ==
    ASSUME flash.type # 1, OneBank
    PROVE  BankOf(loadretry, flashbank) = 3
BY DEF BankOf, OneBank

\* Whose turn it is.
LEMMA TurnExists ==
    ASSUME LoaderType, loadretry < Tries
    PROVE  \E i \in 1 .. 4 : (i - 1) * T <= loadretry /\ loadretry < i * T
<1>1. \/ 0 * T <= loadretry /\ loadretry < 1 * T
      \/ 1 * T <= loadretry /\ loadretry < 2 * T
      \/ 2 * T <= loadretry /\ loadretry < 3 * T
      \/ 3 * T <= loadretry /\ loadretry < 4 * T
  BY TriesFact DEF LoaderType
<1> QED
  BY <1>1

\* The order is a permutation of the banks.
LEMMA OrderFact ==
    /\ \A i \in 1 .. 4 : Order[i] \in Banks
    /\ \A i, j \in 1 .. 4 : Order[i] = Order[j] => i = j
    /\ \A b \in Banks : \E i \in 1 .. 4 : b = Order[i]
<1>1. Order[1] = 1 /\ Order[2] = 2 /\ Order[3] = 0 /\ Order[4] = 3
  BY DEF Order
<1>2. \A i \in 1 .. 4 : i = 1 \/ i = 2 \/ i = 3 \/ i = 4
  OBVIOUS
<1>3. \A b \in Banks : b = 0 \/ b = 1 \/ b = 2 \/ b = 3
  BY DEF Banks
<1> QED
  BY <1>1, <1>2, <1>3 DEF Banks

\* The share of each candidate.
LEMMA ShareFact ==
    /\ flash.type = 1 => Candidates = Order /\ Len(Candidates) = 4 /\ Share = T
    /\ flash.type # 1 => Candidates = <<3>> /\ Len(Candidates) = 1 /\ Share = Tries
<1>1. CASE flash.type = 1
  <2>1. Candidates = Order /\ Len(Candidates) = 4
    BY <1>1 DEF Candidates, Order
  <2>2. Tries \in Nat /\ Tries = 4 * T
    BY TriesFact
  <2>3. Tries \div 4 = T
    BY <2>2, TriesFact
  <2> QED
    BY <1>1, <2>1, <2>3 DEF Share
<1>2. CASE flash.type # 1
  <2>1. Candidates = <<3>> /\ Len(Candidates) = 1
    BY <1>2 DEF Candidates
  <2>2. Tries \div 1 = Tries
    BY TriesFact
  <2> QED
    BY <1>2, <2>1, <2>2 DEF Share
<1> QED
  BY <1>1, <1>2

\* A further try of the i-th bank; the other banks keep their turns.
LEMMA TurnsStep ==
    ASSUME NEW n \in Nat, NEW i \in 1 .. 4, (i - 1) * T <= n, n < i * T
    PROVE  /\ Turns(i, n) \in Nat /\ Turns(i, n) < T /\ Turns(i, n + 1) = Turns(i, n) + 1
           /\ \A j \in 1 .. 4 : j # i => Turns(j, n + 1) = Turns(j, n)
           /\ \A j \in 1 .. (i - 1) : Turns(j, n) = T
           /\ \A j \in 1 .. 4 : (j - 1) * T < n + 1 /\ n + 1 <= j * T => j = i
<1>1. i = 1 \/ i = 2 \/ i = 3 \/ i = 4
  OBVIOUS
<1>2. \A j \in 1 .. 4 : j = 1 \/ j = 2 \/ j = 3 \/ j = 4
  OBVIOUS
<1>3. \A j \in 1 .. (i - 1) : j \in 1 .. 3 /\ j < i
  OBVIOUS
<1> QED
  BY <1>1, <1>2, <1>3, TriesFact DEF Turns

-----------------------------------------------------------------------------
\* After a reset, the first one included, nothing has been tried.
LEMMA FreshSearch ==
    ASSUME LoaderType, loadretry = 0, flashbank = 3, reads = [b \in Banks |-> 0]
    PROVE  FourBanks /\ OneBank /\ \A b \in Banks : reads[b] > 0 => flash.bank[b] # "good"
<1>1. \A b \in Banks : reads[b] = 0
  OBVIOUS
<1>2. \A i \in 1 .. 4 : (i - 1) * T \in Nat
  BY TriesFact
<1>3. FourBanks
  BY <1>1, <1>2, OrderFact DEF FourBanks, Turns
<1> QED
  BY <1>1, <1>3 DEF OneBank, Banks

\* Init establishes the invariant.
LEMMA LoaderInit == Init => LInv
<1> SUFFICES ASSUME Init PROVE LInv
  OBVIOUS
<1>1. LoaderType
  BY TriesFact DEF Init, LoaderType, Banks
<1>2. SearchInv
  BY <1>1, FreshSearch DEF Init, SearchInv
<1>3. FirstGoodBankStarts
  BY DEF Init, FirstGoodBankStarts
<1> QED
  BY <1>1, <1>2, <1>3 DEF LInv

\* The image that matches is started, and the banks before it have used up
\* their turns.
LEMMA MatchStarts ==
    ASSUME LInv, LoadMatches
    PROVE  LInv'
<1> DEFINE b == BankOf(loadretry, flashbank)
<1>1. /\ pc = "load" /\ loadretry < Tries /\ MayMatch(flash.bank[b])
      /\ loaded' = b /\ reads' = [reads EXCEPT ![b] = @ + 1]
      /\ flashbank' = b + 1 /\ config'.flashbank = b + 1
      /\ pc' = "cromwell" /\ flash' = flash /\ loadretry' = loadretry
  BY DEF LoadMatches
<1> HIDE DEF b
<1>2. flash.bank[b] # "bad"
  BY <1>1 DEF MayMatch
<1>3. LoaderType
  BY DEF LInv
<1>4. CASE flash.type = 1
  <2>1. FourBanks /\ \A c \in Banks : reads[c] > 0 => flash.bank[c] # "good"
    BY <1>1, <1>4 DEF LInv, SearchInv
  <2>2. PICK i \in 1 .. 4 : (i - 1) * T <= loadretry /\ loadretry < i * T
    BY <1>1, <1>3, TurnExists
  <2>3. b = Order[i]
    BY <2>1, <2>2, <1>3, <1>4, BankOfTurn DEF b
  <2>4. b \in Banks
    BY <2>3, OrderFact
  <2>5. loadretry \in Nat
    BY <1>3, TriesFact DEF LoaderType
  <2>6. reads[b] = Turns(i, loadretry) /\ Turns(i, loadretry) \in Nat /\ Turns(i, loadretry) < T
    BY <2>1, <2>2, <2>3, <2>5, TurnsStep DEF FourBanks
  <2>7. reads'[b] \in 1 .. T
    BY <2>4, <2>6, <1>1, <1>3, TriesFact DEF LoaderType
  <2>8. ASSUME NEW j \in 1 .. (i - 1)
        PROVE  reads'[Order[j]] = T /\ flash.bank[Order[j]] # "good"
    <3>1. j \in 1 .. 4 /\ j # i
      OBVIOUS
    <3>2. Order[j] \in Banks /\ Order[j] # b
      BY <3>1, <2>3, OrderFact
    <3>3. reads[Order[j]] = T
      BY <3>1, <2>1, <2>2, <2>5, TurnsStep DEF FourBanks
    <3> QED
      BY <3>2, <3>3, <2>1, <1>1, <1>3, TriesFact DEF LoaderType
  <2>9. Candidates' = Order /\ Len(Candidates)' = 4 /\ Share' = T
    BY <1>1, <1>4, ShareFact DEF Candidates, Share
  <2>10. FirstGoodBankStarts'
    <3>1. i \in 1 .. Len(Candidates)' /\ loaded' = Candidates'[i]
      BY <2>3, <2>9, <1>1
    <3>2. \A j \in 1 .. (i - 1) : Exhausted(Candidates[j])'
      BY <2>8, <2>9, <1>1 DEF Exhausted
    <3>3. config'.flashbank = loaded' + 1 /\ flash'.bank[loaded'] # "bad" /\ reads'[loaded'] \in 1 .. Share'
      BY <2>7, <2>9, <1>1, <1>2
    <3> QED
      BY <3>1, <3>2, <3>3, <1>1 DEF FirstGoodBankStarts
  <2>11. LoaderType'
    BY <1>1, <1>3, <2>4 DEF LoaderType, Banks
  <2> QED
    BY <2>10, <2>11, <1>1 DEF LInv, SearchInv
<1>5. CASE flash.type # 1
  <2>1. OneBank /\ b = 3
    BY <1>1, <1>5, BankOfOne DEF LInv, SearchInv, b
  <2>2. reads'[3] \in 1 .. Tries
    BY <2>1, <1>1, <1>3, TriesFact DEF OneBank, LoaderType, Banks
  <2>3. Candidates' = <<3>> /\ Len(Candidates)' = 1 /\ Share' = Tries
    BY <1>1, <1>5, ShareFact DEF Candidates, Share
  <2>4. FirstGoodBankStarts'
    <3>1. 1 \in 1 .. Len(Candidates)' /\ loaded' = Candidates'[1]
      BY <2>1, <2>3, <1>1
    <3>2. \A j \in 1 .. (1 - 1) : Exhausted(Candidates[j])'
      OBVIOUS
    <3>3. config'.flashbank = loaded' + 1 /\ flash'.bank[loaded'] # "bad" /\ reads'[loaded'] \in 1 .. Share'
      BY <2>1, <2>2, <2>3, <1>1, <1>2
    <3> QED
      BY <3>1, <3>2, <3>3, <1>1 DEF FirstGoodBankStarts
  <2>5. LoaderType'
    BY <1>1, <1>3, <2>1 DEF LoaderType, Banks
  <2> QED
    BY <2>4, <2>5, <1>1 DEF LInv, SearchInv
<1> QED
  BY <1>4, <1>5

\* A try that failed counts for the bank it read.
LEMMA DifferCounts ==
    ASSUME LInv, LoadDiffers
    PROVE  LInv'
<1> DEFINE b == BankOf(loadretry, flashbank)
<1>1. /\ pc = "load" /\ loadretry < Tries /\ MayDiffer(flash.bank[b])
      /\ flashbank' = b /\ reads' = [reads EXCEPT ![b] = @ + 1]
      /\ loadretry' = loadretry + 1 /\ pc' = pc /\ flash' = flash
  BY DEF LoadDiffers
<1> HIDE DEF b
<1>2. flash.bank[b] # "good"
  BY <1>1 DEF MayDiffer
<1>3. LoaderType
  BY DEF LInv
<1>4. b \in Banks
  <2>1. CASE flash.type = 1
    <3>1. PICK i \in 1 .. 4 : (i - 1) * T <= loadretry /\ loadretry < i * T
      BY <1>1, <1>3, TurnExists
    <3> QED
      BY <3>1, <2>1, <1>1, <1>3, BankOfTurn, OrderFact DEF LInv, SearchInv, b
  <2>2. CASE flash.type # 1
    BY <2>2, <1>1, BankOfOne DEF LInv, SearchInv, b, Banks
  <2> QED
    BY <2>1, <2>2
<1>5. LoaderType'
  BY <1>1, <1>3, <1>4, TriesFact DEF LoaderType, Banks
<1>6. \A c \in Banks : reads'[c] > 0 => flash'.bank[c] # "good"
  BY <1>1, <1>2, <1>3, <1>4 DEF LInv, SearchInv, LoaderType
<1>7. ASSUME flash.type = 1 PROVE FourBanks'
  <2>1. FourBanks
    BY <1>1, <1>7 DEF LInv, SearchInv
  <2>2. PICK i \in 1 .. 4 : (i - 1) * T <= loadretry /\ loadretry < i * T
    BY <1>1, <1>3, TurnExists
  <2>3. b = Order[i]
    BY <2>1, <2>2, <1>3, <1>7, BankOfTurn DEF b
  <2>4. loadretry \in Nat
    BY <1>3, TriesFact DEF LoaderType
  <2> SUFFICES ASSUME NEW j \in 1 .. 4
               PROVE  /\ reads'[Order[j]] = Turns(j, loadretry + 1)
                      /\ (j - 1) * T < loadretry + 1 /\ loadretry + 1 <= j * T
                            => b = Order[j]
    BY <1>1 DEF FourBanks, Turns
  <2>5. reads[Order[j]] = Turns(j, loadretry) /\ Order[j] \in Banks
    BY <2>1, OrderFact DEF FourBanks
  <2>6. CASE j = i
    BY <2>2, <2>3, <2>4, <2>5, <2>6, <1>1, <1>3, TurnsStep DEF LoaderType
  <2>7. CASE j # i
    <3>1. Order[j] # b
      BY <2>3, <2>7, OrderFact
    <3>2. reads'[Order[j]] = reads[Order[j]]
      BY <3>1, <2>5, <1>1, <1>3 DEF LoaderType
    <3> QED
      BY <3>2, <2>2, <2>4, <2>5, <2>7, TurnsStep
  <2> QED
    BY <2>6, <2>7
<1>8. ASSUME flash.type # 1 PROVE OneBank'
  <2>1. OneBank /\ b = 3
    BY <1>1, <1>8, BankOfOne DEF LInv, SearchInv, b
  <2> QED
    BY <2>1, <1>1, <1>3 DEF OneBank, LoaderType, Banks
<1>9. SearchInv'
  BY <1>1, <1>6, <1>7, <1>8 DEF SearchInv
<1>10. FirstGoodBankStarts'
  BY <1>1 DEF FirstGoodBankStarts
<1> QED
  BY <1>5, <1>9, <1>10 DEF LInv

\* After the last try every bank has used up its share.
LEMMA NothingLeft ==
    ASSUME LInv, NoImage
    PROVE  LInv'
<1>1. pc = "load" /\ loadretry = Tries /\ pc' = "halt" /\ UNCHANGED <<flash, loadretry, flashbank, reads>>
  BY DEF NoImage
<1>2. \A b \in Banks : reads[b] > 0 => flash.bank[b] # "good"
  BY <1>1 DEF LInv, SearchInv
<1>3. ASSUME NEW i \in 1 .. Len(Candidates) PROVE Exhausted(Candidates[i])
  <2>1. CASE flash.type = 1
    <3>1. FourBanks /\ i \in 1 .. 4 /\ Candidates = Order /\ Share = T
      BY <1>1, <2>1, ShareFact DEF LInv, SearchInv
    <3>2. Turns(i, Tries) = T
      <4>1. i * T <= Tries /\ (i - 1) * T < Tries
        <5>1. i = 1 \/ i = 2 \/ i = 3 \/ i = 4
          BY <3>1
        <5> QED
          BY <5>1, TriesFact
      <4> QED
        BY <4>1, <3>1, TriesFact DEF Turns
    <3>3. reads[Order[i]] = T /\ Order[i] \in Banks
      BY <3>1, <3>2, <1>1, OrderFact DEF FourBanks
    <3> QED
      BY <3>1, <3>3, <1>2, TriesFact DEF Exhausted
  <2>2. CASE flash.type # 1
    <3>0. Candidates = <<3>> /\ Len(Candidates) = 1 /\ Share = Tries
      BY <2>2, ShareFact
    <3>1. OneBank /\ Candidates[i] = 3 /\ Share = Tries
      <4>1. i = 1
        BY <3>0
      <4> QED
        BY <4>1, <3>0, <1>1, <2>2 DEF LInv, SearchInv
    <3>2. reads[3] = Tries /\ 3 \in Banks
      BY <3>1, <1>1 DEF OneBank, Banks
    <3> QED
      BY <3>1, <3>2, <1>2, TriesFact DEF Exhausted
  <2> QED
    BY <2>1, <2>2
<1>4. FirstGoodBankStarts'
  BY <1>1, <1>3 DEF FirstGoodBankStarts, Candidates, Exhausted, Share
<1>5. LoaderType'
  BY <1>1 DEF LInv, LoaderType
<1>6. SearchInv'
  BY <1>1 DEF LInv, SearchInv, FourBanks, OneBank
<1> QED
  BY <1>4, <1>5, <1>6 DEF LInv

\* Every step keeps the invariant.
LEMMA LoaderNext == LInv /\ [Next]_vars => LInv'
<1> SUFFICES ASSUME LInv, [Next]_vars PROVE LInv'
  OBVIOUS
<1>1. CASE CheckSelf \/ TransferCompletes \/ TransferFails
  <2>1. /\ pc \in {"check", "challenge"} /\ pc' \in {"challenge", "dead", "load"}
        /\ UNCHANGED <<flash, loadretry, flashbank, reads>>
    BY <1>1 DEF CheckSelf, TransferCompletes, TransferFails, ToNext, GiveUp, Return
  <2>2. LoaderType'
    BY <2>1 DEF LInv, LoaderType
  <2>3. SearchInv'
    BY <2>1 DEF LInv, SearchInv, FourBanks, OneBank
  <2>4. FirstGoodBankStarts'
    BY <2>1 DEF FirstGoodBankStarts
  <2> QED
    BY <2>2, <2>3, <2>4 DEF LInv
<1>2. CASE LoadMatches
  BY <1>2, MatchStarts
<1>3. CASE LoadDiffers
  BY <1>3, DifferCounts
<1>4. CASE NoImage
  BY <1>4, NothingLeft
<1>5. CASE PicResets
  <2>1. /\ pc' = "check" /\ loadretry' = 0 /\ flashbank' = 3 /\ reads' = [b \in Banks |-> 0]
        /\ flash' = flash
    BY <1>5 DEF PicResets, Reset
  <2>2. LoaderType'
    BY <2>1, TriesFact DEF LInv, LoaderType
  <2>3. SearchInv'
    <3>1. \A b \in Banks : reads'[b] = 0
      BY <2>1
    <3>2. \A i \in 1 .. 4 : (i - 1) * T \in Nat
      BY TriesFact
    <3>3. FourBanks'
      BY <3>1, <3>2, <2>1, OrderFact DEF FourBanks, Turns
    <3>4. OneBank'
      BY <3>1, <2>1 DEF OneBank, Banks
    <3> QED
      BY <2>1, <3>1, <3>3, <3>4 DEF SearchInv
  <2>4. FirstGoodBankStarts'
    BY <2>1 DEF FirstGoodBankStarts
  <2> QED
    BY <2>2, <2>3, <2>4 DEF LInv
<1>6. CASE UNCHANGED vars
  BY <1>6 DEF vars, LInv, LoaderType, SearchInv, FourBanks, OneBank, FirstGoodBankStarts,
              Candidates, Exhausted, Share
<1> QED
  BY <1>1, <1>2, <1>3, <1>4, <1>5, <1>6 DEF Next, Step

\* The inductive invariant holds throughout.
THEOREM LoaderInvariance == Spec => []LInv
  BY LoaderInit, LoaderNext, PTL DEF Spec

\* The image that is started is the one of the first bank, in the order of
\* preference, that did not fail all its tries, and the loader stops only when
\* every bank has failed all of them: for any number of tries per bank, any
\* number of resets by the PIC and any behaviour of the flash.
THEOREM LoaderStartsFirstGood == Spec => []FirstGoodBankStarts
<1>1. LInv => FirstGoodBankStarts
  BY DEF LInv
<1> QED
  BY <1>1, LoaderInvariance, PTL
=============================================================================
