---------------------------- MODULE SmBusProofs ----------------------------
(***************************************************************************)
(* Proofs about SmBus: the main program and the handler of the PIC share   *)
(* the registers of the controller without a lock, and still no byte of    *)
(* the EEPROM changes that main is not writing, settings and checksums     *)
(* agree as long as nothing went wrong, and the checksum shows what one    *)
(* fault has done to the video standard.                                   *)
(***************************************************************************)
EXTENDS SmBus, TLAPS, NaturalsInduction, WellFoundedInduction, SequenceTheorems

-----------------------------------------------------------------------------
(* The invariant.                                                          *)

\* Main is inside one operation, past the wait for a free bus.
Working == {"addr", "cmd", "data", "status", "clear", "start", "poll", "fetch"}
Ready == {"data", "status", "clear", "start"}

\* What main still has to do is one task: to read, to write a setting, or to
\* switch the console off.
Reads(o, a) == o.rw = "R" /\ o.dev = "eeprom" /\ o.reg = a
Pending == 1 .. Len(todo)
Reading == \A i \in Pending : todo[i].rw = "R" /\ todo[i].dev = "eeprom" /\ todo[i].reg \in Addr
Writing == \A i \in Pending : todo[i].rw = "W" /\ todo[i].dev = "eeprom" /\ todo[i].reg \in Addr
PoweringOff ==
    /\ Len(todo) <= 1
    /\ \A i \in Pending : todo[i].rw = "W" /\ todo[i].dev = "pic" /\ todo[i].reg = PowerReg
TodoInv ==
    /\ Reading \/ Writing \/ PoweringOff
    /\ pc \in {"idle", "halt"} => todo = <<>>

\* The registers: an interrupt may have replaced them, but then it has also
\* replaced the address, and the transfer will not go to the EEPROM.
HwInv ==
    /\ pc = "cmd" /\ hw.dev = "eeprom" => cur.dev = "eeprom" /\ hw.rw = cur.rw
    /\ pc \in Ready =>
          /\ hw.dev = "eeprom" => cur.dev = "eeprom" /\ hw.rw = cur.rw /\ hw.reg = cur.reg
          /\ hw.dev = "pic" /\ hw.reg = PowerReg => cur.dev = "pic"
    /\ pc = "fetch" => cur.rw = "R"

\* A write under way to the EEPROM is of the operation at hand or, when main
\* is between two operations, of the last one; one to the power register is of
\* main's task to switch off.
FlightInv ==
    On =>
      /\ flight.rw = "W" /\ flight.dev = "eeprom" =>
            /\ flight.reg \in Addr
            /\ pc \in Working => Writes(cur, flight.reg)
            /\ pc \notin Working =>
                  Writes(last, flight.reg) /\ (faults = 0 => eeprom[flight.reg] = flight.val)
      /\ flight.rw = "W" /\ flight.dev = "pic" /\ flight.reg = PowerReg =>
            pc = "halt" \/ (pc \in Working /\ cur.dev = "pic")

\* The content e the EEPROM has when all that is pending is done is consistent,
\* and the copy in RAM is this content, as far as it has been read.
Data == Addr \ (Checksum(Checksum2) \union Checksum(Checksum3))
Arrives(e) ==
    /\ VideoConsistent(e) /\ UserConsistent(e)
    /\ \A i \in Pending : todo[i].rw = "W" /\ todo[i].dev = "eeprom" => e[todo[i].reg] = todo[i].val
    /\ \A a \in Addr : (\A i \in Pending : ~Writes(todo[i], a)) => e[a] = eeprom[a]
    /\ \A a \in Data : (\A i \in Pending : ~Reads(todo[i], a)) => e[a] = ram[a]
SettingsInv ==
    faults = 0 =>
        /\ pc # "halt"
        /\ pc = "off" => ~Writing \/ todo = <<>>
        /\ \E e \in [Addr -> Byte] : Arrives(e)

SInv == TypeOK /\ TodoInv /\ HwInv /\ FlightInv /\ SettingsInv

-----------------------------------------------------------------------------
(* Checksums are bytes, and depend on the bytes they cover only.           *)

\* A nonempty set of numbers has a least element.
LEMMA Least ==
    ASSUME NEW S, S \subseteq Nat, S # {}
    PROVE  \E m \in S : \A n \in S : m <= n
<1>1. PICK m \in S : \A n \in S : ~(<<n, m>> \in OpToRel(<, Nat))
  BY WFMin, NatLessThanWellFounded
<1>2. \A n \in S : ~(n < m)
  BY <1>1 DEF OpToRel
<1> QED
  BY <1>2

\* The loop of EepromCRC: one turn, and the values F it runs through when k
\* turns are done.
Word == 0 .. (UShort - 1)
Turn(w, pos, x, l) == IF l % 4 = pos THEN (x - w[l]) % UShort ELSE x
Loop(w, pos, F, k) == [l \in 0 .. k |-> IF l = 0 THEN UShort - 1 ELSE Turn(w, pos, F[l - 1], l - 1)]

\* Bytes are numbers, and the upper half of a word is a byte.
LEMMA ByteFacts ==
    /\ Byte \subseteq Nat
    /\ UShort - 1 \in Word
    /\ \A x \in Word : x \div 256 \in Byte
<1>1. Byte \subseteq Nat
  BY DEF Byte
<1>2. UShort - 1 \in Word
  BY DEF Word, UShort
<1>3. ASSUME NEW x \in Word PROVE x \div 256 \in Byte
  <2>1. x \in Int /\ 0 <= x /\ x < 256 * 256
    <3>1. UShort \in Int
      BY DEF UShort
    <3>2. x \in 0 .. (UShort - 1)
      BY DEF Word
    <3>3. ASSUME NEW n \in Int, NEW y \in 0 .. (n - 1) PROVE y \in Int /\ 0 <= y /\ y < n
      OBVIOUS
    <3>4. x \in Int /\ 0 <= x /\ x < UShort
      BY <3>1, <3>2, <3>3
    <3> QED
      BY <3>4 DEF UShort
  <2>2. ASSUME NEW q \in Int, 256 * q <= x, x < 256 * q + 256 PROVE q \in 0 .. 255
    BY <2>1, <2>2
  <2>3. x \div 256 \in Int /\ 256 * (x \div 256) <= x /\ x < 256 * (x \div 256) + 256
    BY <2>1
  <2> QED
    BY <2>2, <2>3 DEF Byte
<1> QED
  BY <1>1, <1>2, <1>3

\* CRCPosVal stays a 16-bit number.
LEMMA TurnType ==
    ASSUME NEW w, NEW pos, NEW x \in Word, NEW l \in Nat, w[l] \in Int
    PROVE  Turn(w, pos, x, l) \in Word
<1>1. UShort \in Nat \ {0}
  BY DEF UShort
<1>2. \A y \in Int : y % UShort \in Word
  BY <1>1 DEF Word
<1>3. x - w[l] \in Int
  BY <1>1 DEF Word
<1> QED
  BY <1>2, <1>3 DEF Turn

\* One more turn can always be made.
LEMMA LoopExtends ==
    ASSUME NEW w, NEW pos, NEW k \in Nat, w[k] \in Int,
           NEW F \in [0 .. k -> Word], F = Loop(w, pos, F, k)
    PROVE  \E H \in [0 .. (k + 1) -> Word] : H = Loop(w, pos, H, k + 1)
<1> DEFINE v == Turn(w, pos, F[k], k)
           H == [l \in 0 .. (k + 1) |-> IF l = k + 1 THEN v ELSE F[l]]
<1>1. v \in Word
  BY TurnType
<1> HIDE DEF v
<1>2. H \in [0 .. (k + 1) -> Word]
  BY <1>1
<1>3. ASSUME NEW l \in 0 .. (k + 1)
      PROVE  H[l] = IF l = 0 THEN UShort - 1 ELSE Turn(w, pos, H[l - 1], l - 1)
  <2>1. CASE l = k + 1
    <3>1. H[l] = v /\ H[l - 1] = F[k] /\ l - 1 = k /\ l # 0
      BY <2>1
    <3> QED
      BY <3>1 DEF v
  <2>2. CASE l # k + 1
    <3>1. l \in 0 .. k /\ H[l] = F[l] /\ (l # 0 => H[l - 1] = F[l - 1])
      BY <2>2
    <3>2. F[l] = IF l = 0 THEN UShort - 1 ELSE Turn(w, pos, F[l - 1], l - 1)
      BY <3>1 DEF Loop
    <3> QED
      BY <3>1, <3>2
  <2> QED
    BY <2>1, <2>2
<1>4. H = Loop(w, pos, H, k + 1)
  BY <1>3 DEF Loop
<1> QED
  BY <1>2, <1>4

\* The loop can be run to any length.
LEMMA LoopExists ==
    ASSUME NEW n \in Nat, NEW w, NEW pos, \A l \in 0 .. (n - 1) : w[l] \in Int
    PROVE  \E F \in [0 .. n -> Word] : F = Loop(w, pos, F, n)
<1> DEFINE Runs(k) == \E F \in [0 .. k -> Word] : F = Loop(w, pos, F, k)
           Bad == {k \in 0 .. n : ~Runs(k)}
<1>1. Runs(0)
  <2> DEFINE F == [l \in 0 .. 0 |-> UShort - 1]
  <2>1. F \in [0 .. 0 -> Word]
    BY ByteFacts
  <2>2. F = Loop(w, pos, F, 0)
    BY DEF Loop
  <2> QED
    BY <2>1, <2>2
<1>2. ASSUME NEW k \in 0 .. (n - 1), Runs(k) PROVE Runs(k + 1)
  BY <1>2, LoopExtends
<1> HIDE DEF Runs
<1>3. SUFFICES ASSUME Bad # {} PROVE FALSE
  BY DEF Runs
<1>4. PICK m \in Bad : \A k \in Bad : m <= k
  <2>1. Bad \subseteq Nat
    OBVIOUS
  <2> QED
    BY <2>1, <1>3, Least
<1>5. m # 0
  BY <1>1, <1>4
<1>6. m - 1 \in 0 .. (n - 1) /\ Runs(m - 1)
  BY <1>4, <1>5
<1>7. Runs((m - 1) + 1)
  BY <1>6, <1>2
<1> QED
  BY <1>7, <1>4

\* Whatever describes the loop ends with a 16-bit number.
LEMMA LoopType ==
    ASSUME NEW n \in Nat, NEW w, NEW pos, \A l \in 0 .. (n - 1) : w[l] \in Int,
           NEW F, F = Loop(w, pos, F, n)
    PROVE  F[n] \in Word
<1> DEFINE Bad == {k \in 0 .. n : F[k] \notin Word}
<1>1. \A l \in 0 .. n : F[l] = IF l = 0 THEN UShort - 1 ELSE Turn(w, pos, F[l - 1], l - 1)
  BY DEF Loop
<1>2. SUFFICES ASSUME Bad # {} PROVE FALSE
  OBVIOUS
<1>3. PICK m \in Bad : \A k \in Bad : m <= k
  <2>1. Bad \subseteq Nat
    OBVIOUS
  <2> QED
    BY <2>1, <1>2, Least
<1>4. m # 0
  BY <1>1, <1>3, ByteFacts
<1>5. m - 1 \in 0 .. (n - 1) /\ F[m - 1] \in Word
  BY <1>3, <1>4
<1>6. F[m] \in Word
  <2>1. F[m] = Turn(w, pos, F[m - 1], m - 1)
    BY <1>1, <1>3, <1>4
  <2>2. m - 1 \in Nat /\ w[m - 1] \in Int
    BY <1>5
  <2> QED
    BY <2>1, <2>2, <1>5, TurnType
<1> QED
  BY <1>6, <1>3

\* The words that EepromCRC takes from the data d.
Words(d) == [l \in 0 .. (Len(d) - 1) |-> CRCData(d, l) + 256 * CRCData(d, l + 1)]

\* They are numbers.
LEMMA WordsType ==
    ASSUME NEW d \in Seq(Byte), Len(d) > 0, NEW l \in 0 .. (Len(d) - 1)
    PROVE  Words(d)[l] \in Int
<1>1. \A i \in 1 .. Len(d) : d[i] \in Byte
  BY ElementOfSeq
<1>2. ASSUME NEW k \in 0 .. Len(d) PROVE CRCData(d, k) \in Nat
  <2>1. Byte \subseteq Nat
    BY ByteFacts
  <2>2. Len(d) \in 1 .. Len(d)
    OBVIOUS
  <2>3. d[Len(d)] \in Nat
    BY <2>1, <2>2, <1>1
  <2>4. k # 0 => k \in 1 .. Len(d)
    OBVIOUS
  <2>5. k # 0 => d[k] \in Nat
    BY <2>1, <2>4, <1>1, Zenon
  <2> QED
    BY <2>3, <2>5 DEF CRCData
<1>3. ASSUME NEW x \in Nat, NEW y \in Nat PROVE x + 256 * y \in Int
  OBVIOUS
<1>4. CRCData(d, l) \in Nat /\ CRCData(d, l + 1) \in Nat
  BY <1>2
<1>5. CRCData(d, l) + 256 * CRCData(d, l + 1) \in Int
  BY <1>3, <1>4
<1> QED
  BY <1>5 DEF Words

\* EepromCRC returns the upper half of what its loop ends with.
LEMMA CRCByteLoop ==
    ASSUME NEW d \in Seq(Byte), Len(d) > 0, NEW pos
    PROVE  \E F : F = Loop(Words(d), pos, F, Len(d)) /\ CRCByte(d, pos) = F[Len(d)] \div 256
<1> DEFINE word(l) == CRCData(d, l) + 256 * CRCData(d, l + 1)
           w == Words(d)
           B(F) == [l \in 0 .. Len(d) |->
                      IF l = 0 THEN UShort - 1
                      ELSE IF (l - 1) % 4 = pos THEN (F[l - 1] - word(l - 1)) % UShort
                      ELSE F[l - 1]]
           C == CHOOSE F : F = B(F)
<1>1. \A l \in 0 .. (Len(d) - 1) : w[l] = word(l)
  BY DEF Words
<1>2. \A l \in 0 .. (Len(d) - 1) : w[l] \in Int
  BY WordsType
<1> HIDE DEF word, w
<1>3. ASSUME NEW F PROVE B(F) = Loop(w, pos, F, Len(d))
  BY <1>1 DEF Loop, Turn
<1>4. \E F : F = B(F)
  <2>1. PICK F \in [0 .. Len(d) -> Word] : F = Loop(w, pos, F, Len(d))
    <3>1. Len(d) \in Nat /\ \A l \in 0 .. (Len(d) - 1) : w[l] \in Int
      BY <1>2
    <3> QED
      BY <3>1, LoopExists
  <2>2. F = B(F)
    BY <2>1, <1>3
  <2> QED
    BY <2>2
<1>5. C = B(C)
  BY <1>4
<1> HIDE DEF C
<1>6. C = Loop(w, pos, C, Len(d))
  BY <1>5, <1>3, Zenon
<1>7. CRCByte(d, pos) = C[Len(d)] \div 256
  BY DEF CRCByte, C, word
<1> QED
  BY <1>6, <1>7 DEF w

\* EepromCRC returns bytes.
LEMMA CRCByteType ==
    ASSUME NEW d \in Seq(Byte), Len(d) > 0, NEW pos
    PROVE  CRCByte(d, pos) \in Byte
<1>1. PICK F : F = Loop(Words(d), pos, F, Len(d)) /\ CRCByte(d, pos) = F[Len(d)] \div 256
  BY CRCByteLoop
<1>2. F[Len(d)] \in Word
  BY <1>1, WordsType, LoopType
<1> QED
  BY <1>1, <1>2, ByteFacts

-----------------------------------------------------------------------------
(* What a checksum tells apart.                                            *)

\* The remainder differs from a number by a multiple of the divisor.
LEMMA Remainder ==
    ASSUME NEW y \in Int, NEW n \in Int, n > 0
    PROVE  y % n \in Int /\ \E q \in Int : y % n = y + q * n
<1> DEFINE m == y \div n
           r == y - n * m
<1>1. m \in Int /\ n * m <= y /\ y < n * m + n
  OBVIOUS
<1> HIDE DEF m
<1>2. r \in Int /\ y = n * m + r /\ 0 <= r /\ r < n
  BY <1>1
<1>3. y % n = r
  <2> HIDE DEF r
  <2> QED
    BY <1>1, <1>2
<1>4. r = y + (0 - m) * n /\ 0 - m \in Int
  BY <1>1
<1> QED
  BY <1>2, <1>3, <1>4

\* x is y less d, up to multiples of n.
Less(x, y, d, n) == \E q \in Int : x = y - d + q * n

\* One turn changes the difference of two numbers by that of the words, up to
\* multiples of 2^16.
LEMMA TurnDiffers ==
    ASSUME NEW x \in Int, NEW y \in Int, NEW d \in Int, NEW n \in Int, n > 0,
           Less(x, y, d, n), NEW v \in Int, NEW w \in Int
    PROVE  Less((x - v) % n, (y - w) % n, d + (v - w), n)
<1> DEFINE X == (x - v) % n
           Y == (y - w) % n
<1>1. x - v \in Int /\ y - w \in Int
  OBVIOUS
<1>2. PICK a \in Int : X = (x - v) + a * n
  BY <1>1, Remainder, Zenon
<1>3. PICK b \in Int : Y = (y - w) + b * n
  BY <1>1, Remainder, Zenon
<1> HIDE DEF X, Y
<1>4. PICK q \in Int : x = y - d + q * n
  BY DEF Less
<1>5. X = Y - (d + (v - w)) + (q + a - b) * n
  BY <1>4, <1>2, <1>3
<1>6. q + a - b \in Int
  OBVIOUS
<1>7. Less(X, Y, d + (v - w), n)
  BY <1>5, <1>6 DEF Less
<1> QED
  BY <1>7 DEF X, Y

\* Two runs of the loop over words that are the same but at l0.
Apart(F, G, l0, d, k) ==
    /\ F[k] \in Int /\ G[k] \in Int
    /\ Less(F[k], G[k], IF k > l0 THEN d ELSE 0, UShort)

\* They end as far apart as these two words are.
LEMMA LoopDiffers ==
    ASSUME NEW n \in Nat, NEW v, NEW w, NEW pos, NEW l0 \in 0 .. (n - 1), l0 % 4 = pos,
           \A l \in 0 .. (n - 1) : v[l] \in Int /\ w[l] \in Int,
           \A l \in 0 .. (n - 1) : l % 4 = pos /\ l # l0 => v[l] = w[l],
           NEW d \in Int, v[l0] = w[l0] + d,
           NEW F, F = Loop(v, pos, F, n), NEW G, G = Loop(w, pos, G, n)
    PROVE  Less(F[n], G[n], d, UShort)
<1> DEFINE Bad == {k \in 0 .. n : ~Apart(F, G, l0, d, k)}
<1>1. UShort \in Int /\ UShort > 0
  BY DEF UShort
<1>2. /\ \A l \in 0 .. n : F[l] = IF l = 0 THEN UShort - 1 ELSE Turn(v, pos, F[l - 1], l - 1)
      /\ \A l \in 0 .. n : G[l] = IF l = 0 THEN UShort - 1 ELSE Turn(w, pos, G[l - 1], l - 1)
  BY DEF Loop
<1>3. Apart(F, G, l0, d, 0)
  <2>1. F[0] = UShort - 1 /\ G[0] = UShort - 1
    BY <1>2
  <2>2. F[0] = G[0] - 0 + 0 * UShort
    BY <2>1, <1>1
  <2>3. ~(0 > l0)
    OBVIOUS
  <2> QED
    BY <2>1, <2>2, <2>3, <1>1 DEF Apart, Less
<1>4. ASSUME NEW k \in 0 .. (n - 1), Apart(F, G, l0, d, k) PROVE Apart(F, G, l0, d, k + 1)
  <2>1. k + 1 \in 0 .. n /\ k + 1 # 0 /\ (k + 1) - 1 = k
    OBVIOUS
  <2>2. F[k + 1] = Turn(v, pos, F[k], k) /\ G[k + 1] = Turn(w, pos, G[k], k)
    BY <2>1, <1>2
  <2> DEFINE c == IF k > l0 THEN d ELSE 0
             e == IF k + 1 > l0 THEN d ELSE 0
  <2>3. Less(F[k], G[k], c, UShort)
    BY <1>4 DEF Apart
  <2>4. F[k] \in Int /\ G[k] \in Int /\ v[k] \in Int /\ w[k] \in Int /\ c \in Int
    BY <1>4 DEF Apart
  <2>5. CASE k % 4 = pos
    <3>1. F[k + 1] = (F[k] - v[k]) % UShort /\ G[k + 1] = (G[k] - w[k]) % UShort
      BY <2>2, <2>5 DEF Turn
    <3>2. c + (v[k] - w[k]) = e
      BY <2>4, <2>5
    <3> HIDE DEF c, e
    <3>3. Less(F[k + 1], G[k + 1], c + (v[k] - w[k]), UShort)
      <4>1. Less((F[k] - v[k]) % UShort, (G[k] - w[k]) % UShort, c + (v[k] - w[k]), UShort)
        BY <2>3, <2>4, <1>1, TurnDiffers, Zenon
      <4> QED
        BY <4>1, <3>1, Zenon
    <3>4. F[k + 1] \in Int /\ G[k + 1] \in Int
      BY <3>1, <2>4, <1>1, Remainder
    <3>5. Less(F[k + 1], G[k + 1], e, UShort)
      BY <3>2, <3>3
    <3> QED
      BY <3>4, <3>5 DEF Apart, e
  <2>6. CASE k % 4 # pos
    <3>1. F[k + 1] = F[k] /\ G[k + 1] = G[k] /\ k # l0
      BY <2>2, <2>6 DEF Turn
    <3>2. c = e
      BY <3>1
    <3>3. Less(F[k + 1], G[k + 1], e, UShort)
      BY <2>3, <3>1, <3>2
    <3> QED
      BY <3>1, <3>3, <2>4 DEF Apart
  <2> QED
    BY <2>5, <2>6
<1>5. SUFFICES ASSUME Bad # {} PROVE FALSE
  <2>1. n \in 0 .. n /\ n > l0
    OBVIOUS
  <2>2. SUFFICES Apart(F, G, l0, d, n)
    BY <2>1 DEF Apart
  <2> QED
    BY <2>1, <1>5
<1>6. PICK m \in Bad : \A k \in Bad : m <= k
  <2>1. Bad \subseteq Nat
    OBVIOUS
  <2> QED
    BY <2>1, <1>5, Least
<1>7. m # 0 /\ m \in 0 .. n
  BY <1>3, <1>6
<1>8. m - 1 \in 0 .. (n - 1) /\ Apart(F, G, l0, d, m - 1)
  <2>1. m - 1 \in 0 .. n /\ ~(m <= m - 1)
    BY <1>7
  <2> QED
    BY <2>1, <1>6, <1>7
<1>9. Apart(F, G, l0, d, (m - 1) + 1)
  BY <1>8, <1>4
<1>10. (m - 1) + 1 = m
  BY <1>7
<1> QED
  BY <1>9, <1>10, <1>6

\* A byte that enters in the upper half of one word shows in the upper half of
\* the sum.
LEMMA UpperHalf ==
    ASSUME NEW x \in Word, NEW y \in Word, NEW a \in Byte, NEW b \in Byte,
           Less(x, y, 256 * (a - b), UShort), x \div 256 = y \div 256
    PROVE  a = b
<1> DEFINE h == x \div 256
<1>1. UShort \in Int /\ x \in 0 .. (UShort - 1) /\ y \in 0 .. (UShort - 1)
  <2>1. UShort \in Int
    BY DEF UShort
  <2> QED
    BY <2>1 DEF Word
<1>2. x \in Int /\ y \in Int
  BY <1>1
<1>3. a \in Int /\ b \in Int /\ -255 <= a - b /\ a - b <= 255
  BY DEF Byte
<1>4. h \in Int /\ 256 * h <= x /\ x < 256 * h + 256 /\ 256 * h <= y /\ y < 256 * h + 256
  BY <1>2
<1> HIDE DEF h
<1>5. PICK q \in Int : x = y - 256 * (a - b) + q * UShort
  BY DEF Less
<1>6. x = y - 256 * (a - b) + 256 * (256 * q)
  BY <1>5, <1>2, <1>3 DEF UShort
<1> DEFINE t == (256 * q) - (a - b)
<1>7. x - y = 256 * t /\ -256 < x - y /\ x - y < 256 /\ t \in Int
  BY <1>2, <1>3, <1>4, <1>6
<1>8. t = 0
  <2> HIDE DEF t
  <2> QED
    BY <1>7, <1>2
<1> QED
  BY <1>3, <1>8

\* The checksum of data that differ in the upper half of one of its words, and
\* in no other of its words, tells them apart.
LEMMA CRCTells ==
    ASSUME NEW c \in Seq(Byte), NEW d \in Seq(Byte), Len(c) = Len(d), NEW pos,
           NEW l0 \in 0 .. (Len(d) - 2), l0 % 4 = pos,
           \A l \in 0 .. (Len(d) - 1) : l % 4 = pos /\ l # l0 => Words(c)[l] = Words(d)[l],
           CRCData(c, l0) = CRCData(d, l0), CRCByte(c, pos) = CRCByte(d, pos)
    PROVE  c[l0 + 1] = d[l0 + 1]
<1> DEFINE n == Len(d)
           x == CRCData(d, l0)
           a == c[l0 + 1]
           b == d[l0 + 1]
<1>1. n \in Nat /\ n > 0 /\ l0 \in 0 .. (n - 1) /\ l0 + 1 \in 1 .. n /\ l0 + 1 < n /\ l0 + 1 # 0
  OBVIOUS
<1>2. a \in Byte /\ b \in Byte
  BY <1>1, ElementOfSeq
<1>3. Words(c)[l0] = x + 256 * a /\ Words(d)[l0] = x + 256 * b
  BY <1>1 DEF Words, CRCData
<1>4. \A l \in 0 .. (n - 1) : Words(c)[l] \in Int /\ Words(d)[l] \in Int
  BY <1>1, WordsType
<1>5. x \in Int
  <2>1. \A i \in 1 .. Len(d) : d[i] \in Byte
    BY ElementOfSeq
  <2>2. Len(d) \in 1 .. Len(d) /\ (l0 = 0 \/ l0 \in 1 .. Len(d))
    BY <1>1
  <2>3. d[Len(d)] \in Byte /\ (l0 = 0 \/ d[l0] \in Byte)
    BY <2>1, <2>2, Zenon
  <2>4. Byte \subseteq Int
    BY DEF Byte
  <2>5. d[Len(d)] \in Int /\ (l0 = 0 \/ d[l0] \in Int)
    BY <2>3, <2>4, Zenon
  <2> QED
    BY <2>5 DEF CRCData
<1> HIDE DEF n, x, a, b
<1>6. Words(c)[l0] = Words(d)[l0] + 256 * (a - b) /\ 256 * (a - b) \in Int
  <2>1. a \in Int /\ b \in Int
    BY <1>2, ByteFacts
  <2> QED
    BY <2>1, <1>3, <1>5
<1>7. PICK F : F = Loop(Words(c), pos, F, n) /\ CRCByte(c, pos) = F[n] \div 256
  BY <1>1, CRCByteLoop DEF n
<1>8. PICK G : G = Loop(Words(d), pos, G, n) /\ CRCByte(d, pos) = G[n] \div 256
  BY <1>1, CRCByteLoop DEF n
<1>9. F[n] \in Word /\ G[n] \in Word
  BY <1>1, <1>4, <1>7, <1>8, LoopType
<1>10. Less(F[n], G[n], 256 * (a - b), UShort)
  <2>1. \A l \in 0 .. (n - 1) : l % 4 = pos /\ l # l0 => Words(c)[l] = Words(d)[l]
    BY DEF n
  <2> QED
    BY <2>1, <1>1, <1>4, <1>6, <1>7, <1>8, LoopDiffers, ZenonT(40)
<1>11. a = b
  BY <1>2, <1>7, <1>8, <1>9, <1>10, UpperHalf, Zenon
<1> QED
  BY <1>11 DEF a, b

-----------------------------------------------------------------------------
(* The sections of the EEPROM.                                             *)

\* Where the sections are.
LEMMA Layout ==
    /\ Len(Serial) \in Nat /\ Len(UserHead) \in Nat /\ Len(UserHead) > 0
    /\ VideoLen = Len(Serial) + 4 /\ UserLen = Len(UserHead) + 1
    /\ Checksum2 = 3 /\ Video = 7 /\ Standard = 7 + Len(Serial) /\ Checksum3 = 11 + Len(Serial)
    /\ User = 15 + Len(Serial) /\ Widescreen = 15 + Len(Serial) + Len(UserHead)
    /\ Addr = 3 .. (15 + Len(Serial) + Len(UserHead))
    /\ Addr \subseteq Byte
<1>1. Len(Serial) \in Nat /\ Len(UserHead) \in Nat /\ Len(UserHead) > 0
  BY BusAssumption
<1>2. /\ VideoLen = Len(Serial) + 4 /\ UserLen = Len(UserHead) + 1
      /\ Checksum2 = 3 /\ Video = 7
  BY <1>1 DEF VideoLen, UserLen, Checksum2, Video, PowerReg
<1>3. Standard = 7 + Len(Serial) /\ Checksum3 = 11 + Len(Serial)
  BY <1>1, <1>2 DEF Standard, Checksum3
<1>4. User = 15 + Len(Serial) /\ Widescreen = 15 + Len(Serial) + Len(UserHead)
  BY <1>1, <1>2, <1>3 DEF User, Widescreen
<1>5. Addr = 3 .. (15 + Len(Serial) + Len(UserHead))
  BY <1>2, <1>4 DEF Addr
<1>6. Addr \subseteq Byte
  <2>1. 15 + Len(Serial) + Len(UserHead) \in 0 .. 255
    BY <1>4, SizeAssumption DEF Byte
  <2>2. ASSUME NEW n \in 0 .. 255, NEW a \in 3 .. n PROVE a \in 0 .. 255
    OBVIOUS
  <2>3. ASSUME NEW a \in Addr PROVE a \in 0 .. 255
    BY <2>1, <2>2, <1>5
  <2> QED
    BY <2>3 DEF Byte
<1> QED
  BY <1>1, <1>2, <1>3, <1>4, <1>5, <1>6

\* The bytes of a section.
LEMMA PartType ==
    ASSUME NEW e \in [Addr -> Byte], NEW from \in Nat, NEW len \in Nat,
           \A i \in 1 .. len : from + i - 1 \in Addr
    PROVE  Part(e, from, len) \in Seq(Byte) /\ Len(Part(e, from, len)) = len
BY DEF Part

\* A section that is patched holds the bytes it was patched with.
LEMMA PatchType ==
    ASSUME NEW e \in [Addr -> Byte], NEW bytes \in Seq(Byte), NEW from \in Nat
    PROVE  Patch(e, from, bytes) \in [Addr -> Byte]
<1>1. ASSUME NEW a \in Addr, a \in from .. (from + Len(bytes) - 1)
      PROVE  bytes[a - from + 1] \in Byte
  <2>1. a \in Int
    BY <1>1
  <2>2. a - from + 1 \in 1 .. Len(bytes)
    BY <1>1, <2>1
  <2> QED
    BY <2>2, ElementOfSeq
<1> QED
  BY <1>1 DEF Patch

\* A checksum is four bytes.
LEMMA CRCType ==
    ASSUME NEW d \in Seq(Byte), Len(d) > 0
    PROVE  EepromCRC(d) \in Seq(Byte) /\ Len(EepromCRC(d)) = 4
<1>1. \A i \in 1 .. 4 : CRCByte(d, i - 1) \in Byte
  BY CRCByteType
<1> QED
  BY <1>1 DEF EepromCRC

\* The checksums of both sections are four bytes.
LEMMA SumType ==
    ASSUME NEW e \in [Addr -> Byte]
    PROVE  /\ VideoSum(e) \in Seq(Byte) /\ Len(VideoSum(e)) = 4
           /\ UserSum(e) \in Seq(Byte) /\ Len(UserSum(e)) = 4
<1>1. Part(e, Video, VideoLen) \in Seq(Byte) /\ Len(Part(e, Video, VideoLen)) = VideoLen
  <2>1. \A i \in 1 .. VideoLen : Video + i - 1 \in Addr
    BY Layout
  <2> QED
    BY <2>1, Layout, PartType
<1>2. Part(e, User, UserLen) \in Seq(Byte) /\ Len(Part(e, User, UserLen)) = UserLen
  <2>1. \A i \in 1 .. UserLen : User + i - 1 \in Addr
    BY Layout
  <2> QED
    BY <2>1, Layout, PartType
<1>3. VideoLen > 0 /\ UserLen > 0
  BY Layout
<1> QED
  BY <1>1, <1>2, <1>3, CRCType DEF VideoSum, UserSum

\* A checksum depends on the bytes of its section only.
LEMMA SumOfSection ==
    ASSUME NEW e \in [Addr -> Byte], NEW f \in [Addr -> Byte]
    PROVE  /\ (\A a \in Video .. (Video + VideoLen - 1) : e[a] = f[a]) => VideoSum(e) = VideoSum(f)
           /\ (\A a \in User .. Widescreen : e[a] = f[a]) => UserSum(e) = UserSum(f)
<1>1. ASSUME \A a \in Video .. (Video + VideoLen - 1) : e[a] = f[a]
      PROVE  Part(e, Video, VideoLen) = Part(f, Video, VideoLen)
  <2>1. \A i \in 1 .. VideoLen : Video + i - 1 \in Video .. (Video + VideoLen - 1)
    BY Layout
  <2> QED
    BY <1>1, <2>1 DEF Part
<1>2. ASSUME \A a \in User .. Widescreen : e[a] = f[a]
      PROVE  Part(e, User, UserLen) = Part(f, User, UserLen)
  <2>1. \A i \in 1 .. UserLen : User + i - 1 \in User .. Widescreen
    BY Layout
  <2> QED
    BY <1>2, <2>1 DEF Part
<1> QED
  BY <1>1, <1>2 DEF VideoSum, UserSum

\* A section is consistent if the four bytes in front of it are its checksum.
LEMMA ConsistentBytes ==
    ASSUME NEW e \in [Addr -> Byte]
    PROVE  /\ VideoConsistent(e) <=> \A i \in 1 .. 4 : e[Checksum2 + i - 1] = VideoSum(e)[i]
           /\ UserConsistent(e) <=> \A i \in 1 .. 4 : e[Checksum3 + i - 1] = UserSum(e)[i]
<1>1. ASSUME NEW s \in Seq(Byte), Len(s) = 4, NEW from \in Nat
      PROVE  Part(e, from, 4) = s <=> \A i \in 1 .. 4 : e[from + i - 1] = s[i]
  <2>1. s = [i \in 1 .. 4 |-> s[i]]
    BY <1>1
  <2> QED
    BY <2>1 DEF Part
<1>2. Checksum2 \in Nat /\ Checksum3 \in Nat
  BY Layout
<1>3. VideoConsistent(e) <=> \A i \in 1 .. 4 : e[Checksum2 + i - 1] = VideoSum(e)[i]
  BY <1>1, <1>2, SumType DEF VideoConsistent
<1>4. UserConsistent(e) <=> \A i \in 1 .. 4 : e[Checksum3 + i - 1] = UserSum(e)[i]
  BY <1>1, <1>2, SumType DEF UserConsistent
<1> QED
  BY <1>3, <1>4

\* The byte at a of a patched section.
LEMMA PatchAt ==
    ASSUME NEW e, NEW bytes, NEW from, NEW a \in Addr
    PROVE  Patch(e, from, bytes)[a] =
             IF a \in from .. (from + Len(bytes) - 1) THEN bytes[a - from + 1] ELSE e[a]
BY DEF Patch

\* Two contents that differ at most in what the checksums cover by their own
\* bytes: e has f's data, and the checksums s and t of it.
LEMMA SumsMakeConsistent ==
    ASSUME NEW e \in [Addr -> Byte], NEW f \in [Addr -> Byte],
           \A a \in Data : e[a] = f[a]
    PROVE  /\ (\A i \in 1 .. 4 : e[Checksum2 + i - 1] = VideoSum(f)[i]) <=> VideoConsistent(e)
           /\ (\A i \in 1 .. 4 : e[Checksum3 + i - 1] = UserSum(f)[i]) <=> UserConsistent(e)
<1>1. VideoSum(e) = VideoSum(f)
  <2>1. Video .. (Video + VideoLen - 1) \subseteq Data
    BY Layout DEF Data, Checksum
  <2> QED
    BY <2>1, SumOfSection
<1>2. UserSum(e) = UserSum(f)
  <2>1. User .. Widescreen \subseteq Data
    BY Layout DEF Data, Checksum
  <2> QED
    BY <2>1, SumOfSection
<1> QED
  BY <1>1, <1>2, ConsistentBytes

\* A checksum that is patched in is read back.
LEMMA PatchedSum ==
    ASSUME NEW e \in [Addr -> Byte], NEW s \in Seq(Byte), Len(s) = 4, NEW from \in Nat,
           from \in Addr, from + 3 \in Addr
    PROVE  /\ \A i \in 1 .. 4 : Patch(e, from, s)[from + i - 1] = s[i]
           /\ \A a \in Addr \ Checksum(from) : Patch(e, from, s)[a] = e[a]
<1>1. ASSUME NEW i \in 1 .. 4 PROVE Patch(e, from, s)[from + i - 1] = s[i]
  <2> DEFINE a == from + i - 1
  <2>1. \E n \in Nat : Addr = 3 .. n
    BY Layout
  <2>2. a \in Addr
    BY <2>1
  <2>3. a \in from .. (from + Len(s) - 1) /\ a - from + 1 = i
    OBVIOUS
  <2> HIDE DEF a
  <2>4. Patch(e, from, s)[a] = s[a - from + 1]
    BY <2>2, <2>3, PatchAt
  <2> QED
    BY <2>3, <2>4 DEF a
<1>2. ASSUME NEW a \in Addr \ Checksum(from) PROVE Patch(e, from, s)[a] = e[a]
  <2>1. from + Len(s) - 1 = from + 3
    OBVIOUS
  <2>2. a \in Addr /\ a \notin from .. (from + Len(s) - 1)
    BY <2>1 DEF Checksum
  <2>3. Patch(e, from, s)[a] =
          IF a \in from .. (from + Len(s) - 1) THEN s[a - from + 1] ELSE e[a]
    BY <2>2, PatchAt
  <2> QED
    BY <2>2, <2>3, Zenon
<1> QED
  BY <1>1, <1>2

\* The words of a section: byte i of the standard is the upper half of the word
\* at the length of the serial number + i - 1, the last byte in no upper half.
LEMMA SectionBytes ==
    ASSUME NEW e \in [Addr -> Byte]
    PROVE  /\ Part(e, Video, VideoLen) \in Seq(Byte)
           /\ Len(Part(e, Video, VideoLen)) = Len(Serial) + 4
           /\ \A k \in 1 .. Len(Serial) : Part(e, Video, VideoLen)[k] = e[Video + k - 1]
           /\ \A i \in 1 .. 4 : Part(e, Video, VideoLen)[Len(Serial) + i] = e[Standard + i - 1]
<1>1. \A i \in 1 .. VideoLen : Video + i - 1 \in Addr
  BY Layout
<1>2. Part(e, Video, VideoLen) \in Seq(Byte) /\ Len(Part(e, Video, VideoLen)) = VideoLen
  BY <1>1, Layout, PartType
<1>3. \A i \in 1 .. 4 : Len(Serial) + i \in 1 .. VideoLen /\ Video + (Len(Serial) + i) - 1 = Standard + i - 1
  BY Layout
<1>4. \A k \in 1 .. Len(Serial) : k \in 1 .. VideoLen
  BY Layout
<1>5. \A k \in 1 .. VideoLen : Part(e, Video, VideoLen)[k] = e[Video + k - 1]
  BY DEF Part
<1>6. \A i \in 1 .. 4 : Part(e, Video, VideoLen)[Len(Serial) + i] = e[Standard + i - 1]
  BY <1>3, <1>5
<1>7. VideoLen = Len(Serial) + 4
  BY Layout
<1> QED
  BY <1>2, <1>4, <1>5, <1>6, <1>7

\* Of sections with the same serial number, checksum i tells byte i of the
\* standard if the byte in the lower half of its word is the same: the byte in
\* front of it, and for the first sum the last byte.
LEMMA ByteTold ==
    ASSUME NEW n \in Nat, n % 4 = 0, NEW c \in Seq(Byte), NEW d \in Seq(Byte),
           Len(c) = n + 4, Len(d) = n + 4, \A k \in 1 .. n : c[k] = d[k],
           NEW i \in 1 .. 3, CRCByte(c, i - 1) = CRCByte(d, i - 1),
           i = 1 => c[n + 4] = d[n + 4], i > 1 => c[n + (i - 1)] = d[n + (i - 1)]
    PROVE  c[n + i] = d[n + i]
<1> DEFINE l0 == n + (i - 1)
<1>1. l0 \in 0 .. (n + 2) /\ l0 % 4 = i - 1 /\ l0 + 1 = n + i /\ l0 < n + 4 /\ (l0 = 0 => i = 1)
  OBVIOUS
<1>2. CRCData(c, l0) = CRCData(d, l0)
  <2>1. CASE l0 = 0
    BY <1>1, <2>1 DEF CRCData
  <2>2. CASE l0 # 0
    <3>1. i = 1 => l0 \in 1 .. n
      BY <2>2
    <3>2. c[l0] = d[l0]
      BY <3>1
    <3> QED
      BY <3>2, <2>2, <1>1 DEF CRCData
  <2> QED
    BY <2>1, <2>2
<1>3. ASSUME NEW l \in 0 .. (n + 3), l % 4 = i - 1, l # l0 PROVE Words(c)[l] = Words(d)[l]
  <2>1. l + 1 < n /\ l + 1 \in 1 .. n /\ (l = 0 => i = 1) /\ (l # 0 => l \in 1 .. n)
    <3>1. l < l0
      BY <1>3, <1>1
    <3>2. l <= l0 - 4
      BY <3>1, <1>3, <1>1
    <3> QED
      BY <3>2, <1>3
  <2>2. CRCData(c, l) = CRCData(d, l)
    BY <2>1 DEF CRCData
  <2>3. CRCData(c, l + 1) = CRCData(d, l + 1)
    BY <2>1 DEF CRCData
  <2> QED
    BY <2>2, <2>3 DEF Words
<1> HIDE DEF l0
<1>4. c[l0 + 1] = d[l0 + 1]
  <2> DEFINE pos == i - 1
  <2>1. l0 \in 0 .. (Len(d) - 2) /\ Len(c) = Len(d) /\ l0 % 4 = pos /\ CRCByte(c, pos) = CRCByte(d, pos)
    BY <1>1
  <2>2. \A l \in 0 .. (Len(d) - 1) : l % 4 = pos /\ l # l0 => Words(c)[l] = Words(d)[l]
    BY <1>3
  <2> HIDE DEF pos
  <2> QED
    BY <1>2, <2>1, <2>2, CRCTells
<1> QED
  BY <1>4, <1>1

SerialAddr == Video .. (Standard - 1)
StandardAddr == Standard .. (Standard + 3)

\* The checksum tells the first three bytes of the standard, if the first or
\* the last byte is known.
LEMMA SumTells ==
    ASSUME NEW e \in [Addr -> Byte], NEW f \in [Addr -> Byte],
           \A a \in SerialAddr : e[a] = f[a], VideoSum(e) = VideoSum(f),
           e[Standard] = f[Standard] \/ e[Standard + 3] = f[Standard + 3]
    PROVE  \A i \in 1 .. 3 : e[Standard + i - 1] = f[Standard + i - 1]
<1> DEFINE n == Len(Serial)
           c == Part(e, Video, VideoLen)
           d == Part(f, Video, VideoLen)
<1>1. /\ c \in Seq(Byte) /\ d \in Seq(Byte) /\ Len(c) = n + 4 /\ Len(d) = n + 4
      /\ \A k \in 1 .. n : c[k] = e[Video + k - 1] /\ d[k] = f[Video + k - 1]
      /\ \A i \in 1 .. 4 : c[n + i] = e[Standard + i - 1] /\ d[n + i] = f[Standard + i - 1]
  BY SectionBytes
<1>2. n \in Nat /\ n % 4 = 0
  BY BusAssumption
<1>3. \A i \in 1 .. 4 : CRCByte(c, i - 1) = CRCByte(d, i - 1)
  BY DEF VideoSum, EepromCRC
<1> HIDE DEF c, d, n
<1>4. \A k \in 1 .. n : c[k] = d[k]
  <2>1. \A k \in 1 .. n : Video + k - 1 \in SerialAddr
    BY Layout DEF SerialAddr, n
  <2> QED
    BY <2>1, <1>1
<1>5. c[n + 1] = d[n + 1]
  <2>1. CASE e[Standard] = f[Standard]
    <3>1. Standard + 1 - 1 = Standard
      BY Layout
    <3>2. c[n + 1] = e[Standard + 1 - 1] /\ d[n + 1] = f[Standard + 1 - 1]
      BY <1>1
    <3> QED
      BY <2>1, <3>1, <3>2
  <2>2. CASE e[Standard + 3] = f[Standard + 3]
    <3>1. Standard + 4 - 1 = Standard + 3
      BY Layout
    <3>2. c[n + 4] = e[Standard + 4 - 1] /\ d[n + 4] = f[Standard + 4 - 1]
      BY <1>1
    <3>3. c[n + 4] = d[n + 4]
      BY <2>2, <3>1, <3>2
    <3>4. CRCByte(c, 1 - 1) = CRCByte(d, 1 - 1) /\ 1 \in 1 .. 3 /\ ~(1 > 1)
      BY <1>3
    <3> QED
      BY <3>3, <3>4, <1>1, <1>2, <1>4, ByteTold
  <2> QED
    BY <2>1, <2>2
<1>6. c[n + 2] = d[n + 2]
  <2>1. CRCByte(c, 2 - 1) = CRCByte(d, 2 - 1) /\ 2 \in 1 .. 3 /\ 2 # 1 /\ c[n + (2 - 1)] = d[n + (2 - 1)]
    BY <1>3, <1>5
  <2> QED
    BY <2>1, <1>1, <1>2, <1>4, ByteTold
<1>7. c[n + 3] = d[n + 3]
  <2>1. CRCByte(c, 3 - 1) = CRCByte(d, 3 - 1) /\ 3 \in 1 .. 3 /\ 3 # 1 /\ c[n + (3 - 1)] = d[n + (3 - 1)]
    BY <1>3, <1>6
  <2> QED
    BY <2>1, <1>1, <1>2, <1>4, ByteTold
<1>8. \A i \in 1 .. 3 : c[n + i] = d[n + i]
  BY <1>5, <1>6, <1>7
<1>9. \A i \in 1 .. 3 : i \in 1 .. 4
  OBVIOUS
<1> QED
  BY <1>1, <1>8, <1>9

\* The video standards are four bytes each.
LEMMA StandardsType ==
    ASSUME NEW s \in Standards
    PROVE  s \in Seq(Byte) /\ Len(s) = 4
<1>1. /\ 0 \in Byte /\ 1 \in Byte /\ 2 \in Byte /\ 3 \in Byte
      /\ 64 \in Byte /\ 128 \in Byte
  BY DEF Byte
<1>2. CASE s = NTSC_M
  BY <1>1, <1>2 DEF NTSC_M
<1>3. CASE s = NTSC_J
  BY <1>1, <1>3 DEF NTSC_J
<1>4. CASE s = PAL_I
  BY <1>1, <1>4 DEF PAL_I
<1> QED
  BY <1>2, <1>3, <1>4 DEF Standards

\* A console leaves the factory with settings that its checksums cover.
LEMMA FactoryGood ==
    ASSUME NEW s \in Standards, NEW w \in {0, 1}
    PROVE  /\ Factory(s, w) \in [Addr -> Byte]
           /\ VideoConsistent(Factory(s, w)) /\ UserConsistent(Factory(s, w))
<1> DEFINE bare == [a \in Addr |-> 0]
           data == Patch(Patch(bare, Video, Serial \o s), User, Append(UserHead, w))
           half == Patch(data, Checksum2, VideoSum(data))
           e == Patch(half, Checksum3, UserSum(data))
<1>1. data \in [Addr -> Byte]
  <2>1. 0 \in Byte /\ w \in Byte
    BY DEF Byte
  <2>2. s \in Seq(Byte)
    BY StandardsType
  <2>3. bare \in [Addr -> Byte]
    BY <2>1
  <2>4. Serial \o s \in Seq(Byte) /\ Append(UserHead, w) \in Seq(Byte)
    BY <2>1, <2>2, BusAssumption
  <2>5. Video \in Nat /\ User \in Nat
    BY Layout
  <2> HIDE DEF bare
  <2> QED
    BY <2>3, <2>4, <2>5, PatchType
<1> HIDE DEF data
<1>2. Checksum2 \in Nat /\ Checksum3 \in Nat
  BY Layout
<1>3. /\ Checksum2 \in Addr /\ Checksum2 + 3 \in Addr /\ Checksum3 \in Addr /\ Checksum3 + 3 \in Addr
      /\ Checksum(Checksum2) \intersect Checksum(Checksum3) = {}
      /\ \A i \in 1 .. 4 : Checksum2 + i - 1 \in Addr \ Checksum(Checksum3)
  BY Layout DEF Checksum
<1>4. half \in [Addr -> Byte]
  BY <1>1, <1>2, SumType, PatchType
<1>5. e \in [Addr -> Byte]
  BY <1>1, <1>2, <1>4, SumType, PatchType
<1>6. /\ \A i \in 1 .. 4 : half[Checksum2 + i - 1] = VideoSum(data)[i]
      /\ \A a \in Addr \ Checksum(Checksum2) : half[a] = data[a]
  BY <1>1, <1>2, <1>3, SumType, PatchedSum
<1> HIDE DEF half
<1>7. /\ \A i \in 1 .. 4 : e[Checksum3 + i - 1] = UserSum(data)[i]
      /\ \A a \in Addr \ Checksum(Checksum3) : e[a] = half[a]
  BY <1>1, <1>2, <1>3, <1>4, SumType, PatchedSum
<1> HIDE DEF e
<1>8. \A a \in Data : e[a] = data[a]
  BY <1>6, <1>7 DEF Data
<1>9. \A i \in 1 .. 4 : e[Checksum2 + i - 1] = VideoSum(data)[i]
  BY <1>6, <1>7, <1>3
<1>10. VideoConsistent(e) /\ UserConsistent(e)
  BY <1>1, <1>5, <1>7, <1>8, <1>9, SumsMakeConsistent
<1>11. Factory(s, w) = e
  BY DEF Factory, e, half, data
<1> QED
  BY <1>5, <1>10, <1>11

\* What SetVideoStandard and SetWidescreen make of the copy m in RAM and, when
\* all is written, of the content e.
StandardRam(m, b) == Patch(m, Standard, b)
StandardGoal(e, m, b) == Patch(Patch(e, Standard, b), Checksum2, VideoSum(StandardRam(m, b)))
WidescreenRam(m, v) == Patch(m, Widescreen, <<v>>)
WidescreenGoal(e, m, v) == Patch(Patch(e, Widescreen, <<v>>), Checksum3, UserSum(WidescreenRam(m, v)))

\* The standard, the checksums and the second section do not overlap.
LEMMA StandardApart ==
    /\ Standard \in Nat /\ Checksum2 \in Nat /\ Checksum3 \in Nat
    /\ Standard \in Addr /\ Standard + 3 \in Addr /\ Checksum2 \in Addr /\ Checksum2 + 3 \in Addr
    /\ \A i \in 1 .. 4 : Standard + i - 1 \in Addr \ Checksum(Checksum2)
    /\ \A i \in 1 .. 4 : Checksum3 + i - 1 \in Addr \ (Checksum(Standard) \union Checksum(Checksum2))
    /\ User .. Widescreen \subseteq Addr \ (Checksum(Standard) \union Checksum(Checksum2))
<1>1. /\ Standard \in Nat /\ Checksum2 \in Nat /\ Checksum3 \in Nat
      /\ Standard \in Addr /\ Standard + 3 \in Addr /\ Checksum2 \in Addr /\ Checksum2 + 3 \in Addr
  BY Layout
<1>2. ASSUME NEW i \in 1 .. 4 PROVE Standard + i - 1 \in Addr \ Checksum(Checksum2)
  BY Layout DEF Checksum
<1>3. ASSUME NEW i \in 1 .. 4
      PROVE  Checksum3 + i - 1 \in Addr \ (Checksum(Standard) \union Checksum(Checksum2))
  BY Layout DEF Checksum
<1>4. ASSUME NEW a \in User .. Widescreen
      PROVE  a \in Addr \ (Checksum(Standard) \union Checksum(Checksum2))
  BY Layout DEF Checksum
<1> QED
  BY <1>1, <1>2, <1>3, <1>4

\* The same of the widescreen flag and the first section.
LEMMA WidescreenApart ==
    /\ Widescreen \in Nat /\ Checksum2 \in Nat /\ Checksum3 \in Nat
    /\ Widescreen \in Addr \ Checksum(Checksum3) /\ Checksum3 \in Addr /\ Checksum3 + 3 \in Addr
    /\ \A i \in 1 .. 4 : Checksum2 + i - 1 \in Addr \ ({Widescreen} \union Checksum(Checksum3))
    /\ Video .. (Video + VideoLen - 1) \subseteq Addr \ ({Widescreen} \union Checksum(Checksum3))
<1>1. /\ Widescreen \in Nat /\ Checksum2 \in Nat /\ Checksum3 \in Nat
      /\ Checksum3 \in Addr /\ Checksum3 + 3 \in Addr
  BY Layout
<1>2. Widescreen \in Addr \ Checksum(Checksum3)
  BY Layout DEF Checksum
<1>3. ASSUME NEW i \in 1 .. 4
      PROVE  Checksum2 + i - 1 \in Addr \ ({Widescreen} \union Checksum(Checksum3))
  BY Layout DEF Checksum
<1>4. ASSUME NEW a \in Video .. (Video + VideoLen - 1)
      PROVE  a \in Addr \ ({Widescreen} \union Checksum(Checksum3))
  BY Layout DEF Checksum
<1> QED
  BY <1>1, <1>2, <1>3, <1>4

\* What the writes of a setting lead to: f is consistent, holds the setting and
\* its checksum, and is otherwise as e; its data are those in RAM.
StandardReached(f, e, m, b) ==
    /\ f \in [Addr -> Byte]
    /\ VideoConsistent(f) /\ UserConsistent(f)
    /\ \A a \in Data : f[a] = StandardRam(m, b)[a]
    /\ \A i \in 1 .. 4 : f[Standard + i - 1] = b[i]
    /\ \A i \in 1 .. 4 : f[Checksum2 + i - 1] = VideoSum(StandardRam(m, b))[i]
    /\ \A a \in Addr \ (Checksum(Standard) \union Checksum(Checksum2)) : f[a] = e[a]
WidescreenReached(f, e, m, v) ==
    /\ f \in [Addr -> Byte]
    /\ VideoConsistent(f) /\ UserConsistent(f)
    /\ \A a \in Data : f[a] = WidescreenRam(m, v)[a]
    /\ f[Widescreen] = v
    /\ \A i \in 1 .. 4 : f[Checksum3 + i - 1] = UserSum(WidescreenRam(m, v))[i]
    /\ \A a \in Addr \ ({Widescreen} \union Checksum(Checksum3)) : f[a] = e[a]

\* SetVideoStandard: when its eight bytes are written, the EEPROM is consistent
\* and its data are those of the copy in RAM.
LEMMA StandardArrives ==
    ASSUME NEW e \in [Addr -> Byte], NEW m \in [Addr -> Byte], NEW b \in Seq(Byte), Len(b) = 4,
           VideoConsistent(e), UserConsistent(e), \A a \in Data : e[a] = m[a]
    PROVE  StandardReached(StandardGoal(e, m, b), e, m, b)
<1> DEFINE r == Patch(m, Standard, b)
           h == Patch(e, Standard, b)
           f == Patch(h, Checksum2, VideoSum(r))
<1>1. /\ \A i \in 1 .. 4 : Standard + i - 1 \in Addr \ Checksum(Checksum2)
      /\ \A i \in 1 .. 4 : Checksum3 + i - 1 \in Addr \ (Checksum(Standard) \union Checksum(Checksum2))
      /\ User .. Widescreen \subseteq Addr \ (Checksum(Standard) \union Checksum(Checksum2))
  BY StandardApart
<1>0. /\ Standard \in Nat /\ Standard \in Addr /\ Standard + 3 \in Addr
      /\ Checksum2 \in Nat /\ Checksum2 \in Addr /\ Checksum2 + 3 \in Addr
  BY StandardApart
<1>2. r \in [Addr -> Byte] /\ h \in [Addr -> Byte]
  BY <1>0, PatchType
<1>3. \A a \in Addr \ Checksum(Standard) : r[a] = m[a] /\ h[a] = e[a]
  BY <1>0, PatchedSum
<1>4. \A a \in Checksum(Standard) : a \in Addr /\ r[a] = h[a]
  <2>1. ASSUME NEW a \in Checksum(Standard) PROVE a \in Addr /\ r[a] = h[a]
    <3>1. a \in Addr
      BY Layout DEF Checksum
    <3>2. a \in Standard .. (Standard + Len(b) - 1)
      <4>1. Standard + Len(b) - 1 = Standard + 3
        BY <1>0
      <4> QED
        BY <4>1 DEF Checksum
    <3>3. r[a] = b[a - Standard + 1] /\ h[a] = b[a - Standard + 1]
      BY <3>1, <3>2, PatchAt
    <3> QED
      BY <3>1, <3>3
  <2> QED
    BY <2>1
<1>5. \A i \in 1 .. 4 : h[Standard + i - 1] = b[i]
  BY <1>0, PatchedSum
<1> HIDE DEF r, h
<1>6. VideoSum(r) \in Seq(Byte) /\ Len(VideoSum(r)) = 4
  BY <1>2, SumType
<1>7. f \in [Addr -> Byte]
  BY <1>0, <1>2, <1>6, PatchType
<1>8. /\ \A i \in 1 .. 4 : f[Checksum2 + i - 1] = VideoSum(r)[i]
      /\ \A a \in Addr \ Checksum(Checksum2) : f[a] = h[a]
  BY <1>0, <1>2, <1>6, PatchedSum
<1> HIDE DEF f
<1>9. \A a \in Data : f[a] = r[a]
  <2>1. ASSUME NEW a \in Data PROVE f[a] = r[a]
    <3>1. a \in Addr /\ a \notin Checksum(Checksum2) /\ f[a] = h[a]
      BY <1>8 DEF Data
    <3>2. CASE a \in Checksum(Standard)
      BY <3>1, <3>2, <1>4
    <3>3. CASE a \notin Checksum(Standard)
      BY <3>1, <3>3, <1>3
    <3> QED
      BY <3>2, <3>3
  <2> QED
    BY <2>1
<1>10. VideoConsistent(f)
  BY <1>2, <1>7, <1>8, <1>9, SumsMakeConsistent
<1>11. \A a \in Addr \ (Checksum(Standard) \union Checksum(Checksum2)) : f[a] = e[a]
  BY <1>3, <1>8
<1>12. UserConsistent(f)
  <2>1. UserSum(f) = UserSum(e)
    BY <1>1, <1>7, <1>11, SumOfSection
  <2>2. \A i \in 1 .. 4 : f[Checksum3 + i - 1] = e[Checksum3 + i - 1]
    BY <1>1, <1>11
  <2> QED
    BY <2>1, <2>2, <1>7, ConsistentBytes
<1>13. \A i \in 1 .. 4 : f[Standard + i - 1] = b[i]
  BY <1>1, <1>5, <1>8
<1>14. StandardRam(m, b) = r /\ StandardGoal(e, m, b) = f
  BY DEF StandardRam, StandardGoal, r, h, f
<1> QED
  BY <1>14, <1>7, <1>8, <1>9, <1>10, <1>11, <1>12, <1>13 DEF StandardReached

\* SetWidescreen: the same of its five bytes.
LEMMA WidescreenArrives ==
    ASSUME NEW e \in [Addr -> Byte], NEW m \in [Addr -> Byte], NEW v \in Byte,
           VideoConsistent(e), UserConsistent(e), \A a \in Data : e[a] = m[a]
    PROVE  WidescreenReached(WidescreenGoal(e, m, v), e, m, v)
<1> DEFINE b == <<v>>
           r == Patch(m, Widescreen, b)
           h == Patch(e, Widescreen, b)
           f == Patch(h, Checksum3, UserSum(r))
<1>1. /\ Widescreen \in Nat /\ Checksum2 \in Nat /\ Checksum3 \in Nat
      /\ Widescreen \in Addr \ Checksum(Checksum3) /\ Checksum3 \in Addr /\ Checksum3 + 3 \in Addr
      /\ \A i \in 1 .. 4 : Checksum2 + i - 1 \in Addr \ ({Widescreen} \union Checksum(Checksum3))
      /\ Video .. (Video + VideoLen - 1) \subseteq Addr \ ({Widescreen} \union Checksum(Checksum3))
  BY WidescreenApart
<1>0. Checksum3 \in Nat /\ Checksum3 \in Addr /\ Checksum3 + 3 \in Addr
  BY WidescreenApart
<1>2. b \in Seq(Byte) /\ Len(b) = 1 /\ b[1] = v
  OBVIOUS
<1>3. \A a \in Addr : a \in Widescreen .. (Widescreen + Len(b) - 1) <=> a = Widescreen
  <2>1. Widescreen + Len(b) - 1 = Widescreen
    BY <1>1, <1>2
  <2> QED
    BY <2>1, <1>1
<1> HIDE DEF b
<1>4. r \in [Addr -> Byte] /\ h \in [Addr -> Byte]
  BY <1>1, <1>2, PatchType
<1>5. \A a \in Addr \ {Widescreen} : r[a] = m[a] /\ h[a] = e[a]
  BY <1>3, PatchAt
<1>6. r[Widescreen] = v /\ h[Widescreen] = v
  <2>1. Widescreen \in Addr /\ Widescreen - Widescreen + 1 = 1
    BY <1>1
  <2>2. r[Widescreen] = b[Widescreen - Widescreen + 1] /\ h[Widescreen] = b[Widescreen - Widescreen + 1]
    BY <2>1, <1>3, PatchAt
  <2> QED
    BY <2>1, <2>2, <1>2
<1> HIDE DEF r, h
<1>7. UserSum(r) \in Seq(Byte) /\ Len(UserSum(r)) = 4
  BY <1>4, SumType
<1>8. f \in [Addr -> Byte]
  BY <1>0, <1>4, <1>7, PatchType
<1>9. /\ \A i \in 1 .. 4 : f[Checksum3 + i - 1] = UserSum(r)[i]
      /\ \A a \in Addr \ Checksum(Checksum3) : f[a] = h[a]
  BY <1>0, <1>4, <1>7, PatchedSum
<1> HIDE DEF f
<1>10. \A a \in Data : f[a] = r[a]
  <2>1. ASSUME NEW a \in Data PROVE f[a] = r[a]
    <3>1. a \in Addr /\ f[a] = h[a]
      BY <1>9 DEF Data
    <3>2. CASE a = Widescreen
      BY <3>1, <3>2, <1>6
    <3>3. CASE a # Widescreen
      BY <3>1, <3>3, <1>5
    <3> QED
      BY <3>2, <3>3
  <2> QED
    BY <2>1
<1>11. UserConsistent(f)
  BY <1>4, <1>8, <1>9, <1>10, SumsMakeConsistent
<1>12. \A a \in Addr \ ({Widescreen} \union Checksum(Checksum3)) : f[a] = e[a]
  BY <1>5, <1>9
<1>13. VideoConsistent(f)
  <2>1. VideoSum(f) = VideoSum(e)
    BY <1>1, <1>8, <1>12, SumOfSection
  <2>2. \A i \in 1 .. 4 : f[Checksum2 + i - 1] = e[Checksum2 + i - 1]
    BY <1>1, <1>12
  <2> QED
    BY <2>1, <2>2, <1>8, ConsistentBytes
<1>14. f[Widescreen] = v
  BY <1>1, <1>6, <1>9
<1>15. WidescreenRam(m, v) = r /\ WidescreenGoal(e, m, v) = f
  BY DEF WidescreenRam, WidescreenGoal, r, h, f, b
<1> QED
  BY <1>15, <1>8, <1>9, <1>10, <1>11, <1>12, <1>13, <1>14 DEF WidescreenReached

-----------------------------------------------------------------------------
(* What main has to do.                                                    *)

\* The operation at hand, and what is left when it is over.
LEMMA CurFacts ==
    ASSUME todo \in Seq(Transfers), todo # <<>>
    PROVE  /\ 1 \in Pending /\ cur = todo[1] /\ cur \in Transfers
           /\ Tail(todo) \in Seq(Transfers) /\ Len(Tail(todo)) = Len(todo) - 1
           /\ \A i \in 1 .. Len(Tail(todo)) : i + 1 \in Pending /\ Tail(todo)[i] = todo[i + 1]
           /\ (Tail(todo) = <<>>) <=> (Len(todo) = 1)
<1>1. Len(todo) \in Nat /\ Len(todo) > 0
  OBVIOUS
<1>2. 1 \in Pending /\ cur = todo[1] /\ cur \in Transfers
  BY <1>1 DEF cur, Pending
<1>3. Tail(todo) \in Seq(Transfers) /\ Len(Tail(todo)) = Len(todo) - 1
  OBVIOUS
<1>4. \A i \in 1 .. (Len(todo) - 1) : i + 1 \in Pending /\ Tail(todo)[i] = todo[i + 1]
  BY <1>1 DEF Pending
<1>5. (Tail(todo) = <<>>) <=> (Len(todo) = 1)
  BY <1>1, <1>3
<1> QED
  BY <1>2, <1>3, <1>4, <1>5

\* What kind of operation it can be.
LEMMA CurKind ==
    ASSUME TypeOK, TodoInv, todo # <<>>
    PROVE  /\ cur.rw \in {"R", "W"} /\ cur.dev \in {"eeprom", "pic"}
           /\ cur.dev = "eeprom" => cur.reg \in Addr
           /\ cur.dev = "pic" => cur.rw = "W" /\ cur.reg = PowerReg /\ Len(todo) = 1
           /\ cur.dev = "eeprom" /\ cur.rw = "R" => Reading
           /\ cur.dev = "eeprom" /\ cur.rw = "W" => Writing
<1>1. 1 \in Pending /\ cur = todo[1] /\ Len(todo) # 0 /\ Len(todo) \in Nat
  BY CurFacts DEF TypeOK, Pending
<1>2. CASE Reading
  BY <1>1, <1>2 DEF Reading
<1>3. CASE Writing
  BY <1>1, <1>3 DEF Writing
<1>4. CASE PoweringOff
  <2>1. todo[1].rw = "W" /\ todo[1].dev = "pic" /\ todo[1].reg = PowerReg /\ Len(todo) <= 1
    BY <1>1, <1>4 DEF PoweringOff
  <2>2. Len(todo) = 1
    <3>1. Len(todo) \in Nat /\ Len(todo) # 0 /\ Len(todo) <= 1
      BY <1>1, <2>1
    <3>2. \A n \in Nat : n # 0 /\ n <= 1 => n = 1
      OBVIOUS
    <3> QED
      BY <3>1, <3>2
  <2>3. cur.rw = "W" /\ cur.dev = "pic" /\ cur.reg = PowerReg
    BY <1>1, <2>1
  <2>4. cur.dev # "eeprom"
    BY <2>3
  <2> QED
    BY <2>2, <2>3, <2>4
<1> QED
  BY <1>2, <1>3, <1>4 DEF TodoInv

\* The power register is not an address of the EEPROM.
LEMMA PowerRegApart == PowerReg \notin Addr /\ PowerReg \in Byte
<1>1. PowerReg \notin Addr
  BY Layout DEF PowerReg
<1>2. PowerReg \in Byte
  BY DEF PowerReg, Byte
<1> QED
  BY <1>1, <1>2

\* A write to the EEPROM is a transfer.
LEMMA WriteType ==
    ASSUME NEW a \in Addr, NEW v \in Byte
    PROVE  Write("eeprom", a, v) \in Transfers
<1>1. a \in Byte
  BY Layout
<1> QED
  BY <1>1 DEF Write, Transfers, Devices

\* The writes of a sequence of bytes.
LEMMA WriteAllType ==
    ASSUME NEW from \in Nat, NEW b \in Seq(Byte), \A i \in 1 .. Len(b) : from + i - 1 \in Addr
    PROVE  /\ WriteAll(from, b) \in Seq(Transfers) /\ Len(WriteAll(from, b)) = Len(b)
           /\ \A i \in 1 .. Len(b) : WriteAll(from, b)[i] = Write("eeprom", from + i - 1, b[i])
<1>1. \A i \in 1 .. Len(b) : b[i] \in Byte
  BY ElementOfSeq
<1>2. \A i \in 1 .. Len(b) : Write("eeprom", from + i - 1, b[i]) \in Transfers
  BY <1>1, WriteType
<1> QED
  BY <1>2 DEF WriteAll

WriteBoth(p, b, q, c) == WriteAll(p, b) \o WriteAll(q, c)
JustWrites(t, p, b, q, c) ==
    /\ t \in Seq(Transfers) /\ Len(t) = Len(b) + Len(c)
    /\ \A i \in 1 .. Len(t) :
          \/ \E j \in 1 .. Len(b) : t[i] = Write("eeprom", p + j - 1, b[j])
          \/ \E j \in 1 .. Len(c) : t[i] = Write("eeprom", q + j - 1, c[j])
    /\ \A j \in 1 .. Len(b) : \E i \in 1 .. Len(t) : t[i] = Write("eeprom", p + j - 1, b[j])
    /\ \A j \in 1 .. Len(c) : \E i \in 1 .. Len(t) : t[i] = Write("eeprom", q + j - 1, c[j])

\* A setting and its checksum: the writes that are pending are just these.
LEMMA JoinedWrites ==
    ASSUME NEW p \in Nat, NEW b \in Seq(Byte), \A i \in 1 .. Len(b) : p + i - 1 \in Addr,
           NEW q \in Nat, NEW c \in Seq(Byte), \A i \in 1 .. Len(c) : q + i - 1 \in Addr,
           NEW t, t = WriteBoth(p, b, q, c)
    PROVE  JustWrites(t, p, b, q, c)
<1> DEFINE u == WriteAll(p, b)
           w == WriteAll(q, c)
<1>t. t = u \o w
  BY DEF WriteBoth
<1>1. /\ u \in Seq(Transfers) /\ Len(u) = Len(b)
      /\ \A i \in 1 .. Len(b) : u[i] = Write("eeprom", p + i - 1, b[i])
  BY WriteAllType
<1>2. /\ w \in Seq(Transfers) /\ Len(w) = Len(c)
      /\ \A i \in 1 .. Len(c) : w[i] = Write("eeprom", q + i - 1, c[i])
  BY WriteAllType
<1> HIDE DEF u, w
<1>3. t \in Seq(Transfers) /\ Len(t) = Len(b) + Len(c)
  <2>1. t \in Seq(Transfers) /\ Len(t) = Len(u) + Len(w)
    BY <1>t, <1>1, <1>2, ConcatProperties
  <2> QED
    BY <2>1, <1>1, <1>2
<1>4. ASSUME NEW i \in 1 .. Len(t) PROVE t[i] = IF i <= Len(u) THEN u[i] ELSE w[i - Len(u)]
  <2>1. \A k \in 1 .. (Len(u) + Len(w)) : (u \o w)[k] = IF k <= Len(u) THEN u[k] ELSE w[k - Len(u)]
    BY <1>1, <1>2, ConcatProperties
  <2>2. i \in 1 .. (Len(u) + Len(w))
    BY <1>1, <1>2, <1>3
  <2> QED
    BY <2>1, <2>2, <1>t
<1>5. Len(b) \in Nat /\ Len(c) \in Nat
  OBVIOUS
<1>6. ASSUME NEW i \in 1 .. Len(t)
      PROVE  \/ \E j \in 1 .. Len(b) : t[i] = Write("eeprom", p + j - 1, b[j])
             \/ \E j \in 1 .. Len(c) : t[i] = Write("eeprom", q + j - 1, c[j])
  <2>1. CASE i <= Len(u)
    <3>1. t[i] = u[i]
      BY <2>1, <1>4
    <3>2. i \in 1 .. Len(u)
      BY <2>1
    <3> QED
      BY <3>1, <3>2, <1>1
  <2>2. CASE ~(i <= Len(u))
    <3>1. i - Len(u) \in 1 .. Len(c) /\ t[i] = w[i - Len(u)]
      BY <2>2, <1>1, <1>3, <1>4, <1>5
    <3> QED
      BY <3>1, <1>2
  <2> QED
    BY <2>1, <2>2
<1>7. ASSUME NEW j \in 1 .. Len(b)
      PROVE  \E i \in 1 .. Len(t) : t[i] = Write("eeprom", p + j - 1, b[j])
  <2>1. j \in 1 .. Len(t) /\ j <= Len(u)
    BY <1>1, <1>3, <1>5
  <2>2. t[j] = Write("eeprom", p + j - 1, b[j])
    BY <2>1, <1>1, <1>4
  <2> QED
    BY <2>1, <2>2
<1>8. ASSUME NEW j \in 1 .. Len(c)
      PROVE  \E i \in 1 .. Len(t) : t[i] = Write("eeprom", q + j - 1, c[j])
  <2> DEFINE i == j + Len(b)
  <2>1. i \in 1 .. Len(t) /\ ~(i <= Len(u)) /\ i - Len(u) = j
    BY <1>1, <1>3, <1>5
  <2> HIDE DEF i
  <2>2. t[i] = w[i - Len(u)]
    BY <2>1, <1>4
  <2>3. t[i] = Write("eeprom", q + j - 1, c[j])
    BY <2>1, <2>2, <1>2
  <2> QED
    BY <2>1, <2>3
<1> QED
  BY <1>3, <1>6, <1>7, <1>8 DEF JustWrites

\* BootEepromReadEntireEEPROM reads every byte.
LEMMA ReadAllFacts ==
    /\ ReadAll \in Seq(Transfers) /\ ReadAll # <<>>
    /\ \A i \in 1 .. Len(ReadAll) :
          ReadAll[i].rw = "R" /\ ReadAll[i].dev = "eeprom" /\ ReadAll[i].reg \in Addr
    /\ \A a \in Addr : \E i \in 1 .. Len(ReadAll) : Reads(ReadAll[i], a)
<1> DEFINE n == Widescreen - PowerReg
<1>1. n \in Nat /\ n > 0
  BY Layout DEF PowerReg
<1>2. ASSUME NEW i \in 1 .. n
      PROVE  /\ PowerReg + i \in Addr
             /\ Read("eeprom", PowerReg + i) \in Transfers
  <2>1. PowerReg + i \in Addr
    BY Layout DEF PowerReg
  <2>2. PowerReg + i \in Byte /\ 0 \in Byte
    BY <2>1, Layout DEF Byte
  <2> QED
    BY <2>1, <2>2 DEF Read, Transfers, Devices
<1>3. ReadAll = [i \in 1 .. n |-> Read("eeprom", PowerReg + i)]
  BY DEF ReadAll
<1>4. ASSUME NEW a \in Addr PROVE a - PowerReg \in 1 .. n /\ PowerReg + (a - PowerReg) = a
  BY Layout DEF PowerReg
<1> HIDE DEF n
<1>5. ReadAll \in Seq(Transfers) /\ Len(ReadAll) = n
  BY <1>1, <1>2, <1>3
<1>6. \A i \in 1 .. n : ReadAll[i] = Read("eeprom", PowerReg + i)
  BY <1>3
<1>7. ReadAll # <<>>
  BY <1>1, <1>5
<1>8. \A i \in 1 .. n : ReadAll[i].rw = "R" /\ ReadAll[i].dev = "eeprom" /\ ReadAll[i].reg \in Addr
  <2>1. ASSUME NEW i \in 1 .. n
        PROVE  ReadAll[i].rw = "R" /\ ReadAll[i].dev = "eeprom" /\ ReadAll[i].reg \in Addr
    <3>1. ReadAll[i] = [rw |-> "R", dev |-> "eeprom", reg |-> PowerReg + i, val |-> 0]
      BY <1>6 DEF Read
    <3> QED
      BY <3>1, <1>2
  <2> QED
    BY <2>1
<1>9. \A a \in Addr : Reads(ReadAll[a - PowerReg], a)
  <2>1. ASSUME NEW a \in Addr PROVE Reads(ReadAll[a - PowerReg], a)
    <3>1. ReadAll[a - PowerReg] = Read("eeprom", PowerReg + (a - PowerReg))
      BY <1>4, <1>6
    <3>2. ReadAll[a - PowerReg] = [rw |-> "R", dev |-> "eeprom", reg |-> a, val |-> 0]
      BY <3>1, <1>4 DEF Read
    <3> QED
      BY <3>2 DEF Reads
  <2> QED
    BY <2>1
<1> QED
  BY <1>4, <1>5, <1>7, <1>8, <1>9

-----------------------------------------------------------------------------
(* The invariant holds at the start.                                       *)

\* The empty transfer is a transfer, and goes nowhere.
LEMMA NoTransferFacts ==
    NoTransfer \in Transfers /\ NoTransfer.dev = "none" /\ NoTransfer.rw = "R"
<1>1. 0 \in Byte
  BY DEF Byte
<1> QED
  BY <1>1 DEF NoTransfer, Transfers, Devices

\* When main begins to read the EEPROM nothing is pending but reads.
LEMMA ReadingSettings ==
    ASSUME todo = ReadAll, pc = "spin", eeprom \in [Addr -> Byte],
           faults = 0 => VideoConsistent(eeprom) /\ UserConsistent(eeprom)
    PROVE  TodoInv /\ SettingsInv
<1>1. Reading
  BY ReadAllFacts DEF Reading, Pending
<1>2. TodoInv
  BY <1>1 DEF TodoInv
<1>3. SUFFICES ASSUME faults = 0 PROVE Arrives(eeprom)
  BY <1>2, <1>3 DEF SettingsInv
<1>4. VideoConsistent(eeprom) /\ UserConsistent(eeprom)
  BY <1>3
<1>5. \A i \in Pending : todo[i].rw = "R"
  BY <1>1 DEF Reading
<1>6. ASSUME NEW a \in Data PROVE ~(\A i \in Pending : ~Reads(todo[i], a))
  BY ReadAllFacts DEF Pending, Data
<1> QED
  BY <1>4, <1>5, <1>6 DEF Arrives

\* The inductive invariant holds initially.
LEMMA InitInv == Init => SInv
<1> SUFFICES ASSUME Init PROVE SInv
  OBVIOUS
<1>1. PICK s \in Settings : eeprom = Factory(s[1], s[2])
  BY DEF Init
<1>2. s[1] \in Standards /\ s[2] \in {0, 1}
  BY SettingsAssumption
<1>3. eeprom \in [Addr -> Byte] /\ VideoConsistent(eeprom) /\ UserConsistent(eeprom)
  BY <1>1, <1>2, FactoryGood
<1>4. TodoInv /\ SettingsInv
  BY <1>3, ReadingSettings DEF Init
<1>5. ram \in [Addr -> Byte]
  <2>1. 0 \in Byte
    BY DEF Byte
  <2> QED
    BY <2>1 DEF Init
<1>6. Retries \in Nat /\ Retries > 0 /\ {MaxIrqs, MaxErrors, MaxUpdates, MaxLosses} \subseteq Nat
  BY BusAssumption
<1>7. TypeOK
  <2>1. todo \in Seq(Transfers) /\ todo # <<>>
    BY ReadAllFacts DEF Init
  <2>2. hw \in Transfers /\ flight \in Transfers /\ last \in Transfers
    BY NoTransferFacts DEF Init
  <2>3. tries \in 1 .. Retries
    BY <1>6 DEF Init
  <2>4. irqs \in 0 .. MaxIrqs /\ errors \in 0 .. MaxErrors /\ updates \in 0 .. MaxUpdates /\ losses \in 0 .. MaxLosses
    BY <1>6 DEF Init
  <2>5. pc \in PC /\ temp = {} /\ status = {} /\ faults \in 0 .. MaxFaults
    BY DEF Init, PC, MaxFaults
  <2> QED
    BY <1>3, <1>5, <2>1, <2>2, <2>3, <2>4, <2>5 DEF TypeOK
<1>8. HwInv
  BY DEF Init, HwInv, Ready
<1>9. FlightInv
  BY NoTransferFacts DEF Init, FlightInv
<1> QED
  BY <1>4, <1>7, <1>8, <1>9 DEF SInv

-----------------------------------------------------------------------------
(* Steps of main within an operation.                                      *)

\* The order in which main goes through the registers.
LEMMA AfterFacts ==
    /\ After("spin") = "addr" /\ After("addr") = "cmd"
    /\ After("cmd") \in {"data", "status"} /\ After("data") = "status"
    /\ After("status") = "clear" /\ After("clear") = "start" /\ After("start") = "poll"
BY DEF After

\* What concerns the settings does not change while main is busy with the
\* registers.
LEMMA SettingsKept ==
    ASSUME TodoInv, SettingsInv, UNCHANGED <<todo, eeprom, ram, faults>>,
           pc' \notin {"idle", "halt", "off"}
    PROVE  TodoInv' /\ SettingsInv'
<1>1. TodoInv'
  BY DEF TodoInv, Reading, Writing, PoweringOff, Pending
<1>2. SettingsInv'
  BY DEF SettingsInv, Arrives, Pending
<1> QED
  BY <1>1, <1>2

\* The wait in front of an operation ends when nothing is under way.
LEMMA SpinInv == SInv /\ Spin => SInv'
<1> SUFFICES ASSUME SInv, Spin PROVE SInv'
  OBVIOUS
<1> USE DEF SInv, Spin, Goto, KeepsBus, KeepsRest, bus, history, counts
<1>1. pc = "spin" /\ pc' = "addr"
  BY AfterFacts
<1>2. TodoInv' /\ SettingsInv'
  BY <1>1, SettingsKept
<1>3. Retries \in 1 .. Retries
  BY BusAssumption
<1>4. TypeOK'
  BY <1>1, <1>3 DEF TypeOK, PC
<1>5. HwInv'
  BY <1>1 DEF HwInv, Ready
<1>6. FlightInv'
  BY <1>1, NoTransferFacts DEF FlightInv, Busy
<1> QED
  BY <1>2, <1>4, <1>5, <1>6

\* The registers are written: the address first.
LEMMA OutAddressInv == SInv /\ OutAddress => SInv'
<1> SUFFICES ASSUME SInv, OutAddress PROVE SInv'
  OBVIOUS
<1> USE DEF SInv, OutAddress, Goto, KeepsRest, bus, history, counts
<1>1. pc = "addr" /\ pc' = "cmd"
  BY AfterFacts
<1>2. TodoInv' /\ SettingsInv'
  BY <1>1, SettingsKept
<1>3. todo # <<>> /\ cur \in Transfers /\ cur' = cur
  BY <1>1, CurFacts DEF TypeOK, PC, cur
<1>4. hw \in Transfers /\ hw' \in Transfers /\ hw'.dev = cur.dev /\ hw'.rw = cur.rw
  BY <1>3 DEF TypeOK, Transfers
<1>5. TypeOK'
  BY <1>1, <1>3, <1>4 DEF TypeOK, PC
<1>6. HwInv'
  BY <1>1, <1>3, <1>4 DEF HwInv, Ready
<1>7. FlightInv'
  BY <1>1, <1>3 DEF FlightInv, Working, On
<1> QED
  BY <1>2, <1>5, <1>6, <1>7

\* Then the register of the device: if an interrupt replaced the address, the
\* transfer is one to the PIC or the encoder, and not to the power register.
LEMMA OutRegisterInv == SInv /\ OutRegister => SInv'
<1> SUFFICES ASSUME SInv, OutRegister PROVE SInv'
  OBVIOUS
<1> USE DEF SInv, OutRegister, Goto, KeepsRest, bus, history, counts
<1>1. pc = "cmd" /\ pc' \in {"data", "status"}
  BY AfterFacts
<1>2. TodoInv' /\ SettingsInv'
  BY <1>1, SettingsKept
<1>3. todo # <<>> /\ cur \in Transfers /\ cur' = cur
  BY <1>1, CurFacts DEF TypeOK, PC, cur
<1>4. hw \in Transfers /\ hw' \in Transfers /\ hw'.dev = hw.dev /\ hw'.rw = hw.rw /\ hw'.reg = cur.reg
  BY <1>3 DEF TypeOK, Transfers
<1>5. TypeOK'
  BY <1>1, <1>3, <1>4 DEF TypeOK, PC
<1>6. cur.reg = PowerReg => cur.dev = "pic"
  BY <1>3, CurKind, PowerRegApart
<1>7. HwInv'
  BY <1>1, <1>3, <1>4, <1>6 DEF HwInv, Ready
<1>8. FlightInv'
  BY <1>1, <1>3 DEF FlightInv, Working, On
<1> QED
  BY <1>2, <1>5, <1>7, <1>8

\* Then the data.
LEMMA OutDataInv == SInv /\ OutData => SInv'
<1> SUFFICES ASSUME SInv, OutData PROVE SInv'
  OBVIOUS
<1> USE DEF SInv, OutData, Goto, KeepsRest, bus, history, counts
<1>1. pc = "data" /\ pc' = "status"
  BY AfterFacts
<1>2. TodoInv' /\ SettingsInv'
  BY <1>1, SettingsKept
<1>3. todo # <<>> /\ cur \in Transfers /\ cur' = cur
  BY <1>1, CurFacts DEF TypeOK, PC, cur
<1>4. hw \in Transfers /\ hw' \in Transfers /\ hw'.dev = hw.dev /\ hw'.rw = hw.rw /\ hw'.reg = hw.reg
  BY <1>3 DEF TypeOK, Transfers
<1>5. TypeOK'
  BY <1>1, <1>3, <1>4 DEF TypeOK, PC
<1>6. HwInv'
  BY <1>1, <1>3, <1>4 DEF HwInv, Ready
<1>7. FlightInv'
  BY <1>1, <1>3 DEF FlightInv, Working, On
<1> QED
  BY <1>2, <1>5, <1>6, <1>7

\* The status is read and written back.
LEMMA StatusInv == SInv /\ (InStatus \/ ClearStatus) => SInv'
<1> SUFFICES ASSUME SInv, InStatus \/ ClearStatus PROVE SInv'
  OBVIOUS
<1> USE DEF SInv, InStatus, ClearStatus, Goto, KeepsBus, KeepsRest, bus, history, counts
<1>1. pc \in {"status", "clear"} /\ pc' \in {"clear", "start"}
  BY AfterFacts
<1>2. TodoInv' /\ SettingsInv'
  BY <1>1, SettingsKept
<1>3. todo # <<>> /\ cur' = cur /\ hw' = hw /\ flight' = flight
  BY <1>1 DEF TypeOK, PC, cur
<1>4. TypeOK'
  BY <1>1, <1>3 DEF TypeOK, PC
<1>5. HwInv'
  BY <1>1, <1>3 DEF HwInv, Ready
<1>6. FlightInv'
  BY <1>1, <1>3 DEF FlightInv, Working, On
<1> QED
  BY <1>2, <1>4, <1>5, <1>6

\* The controller starts what the registers hold: if that is a write to the
\* EEPROM it is of the byte main is at.
LEMMA StartInv == SInv /\ Start => SInv'
<1> SUFFICES ASSUME SInv, Start PROVE SInv'
  OBVIOUS
<1> USE DEF SInv, Start, Goto, KeepsRest, bus, history, counts
<1>1. pc = "start" /\ pc' = "poll"
  BY AfterFacts
<1>2. TodoInv' /\ SettingsInv'
  BY <1>1, SettingsKept
<1>3. todo # <<>> /\ cur' = cur /\ hw' = hw /\ flight' \in {hw, flight}
  BY <1>1 DEF TypeOK, PC, cur
<1>4. TypeOK'
  BY <1>1, <1>3 DEF TypeOK, PC
<1>5. HwInv'
  BY <1>1, <1>3 DEF HwInv, Ready
<1>6. FlightInv'
  <2>1. cur.dev = "eeprom" => cur.reg \in Addr
    BY <1>3, CurKind
  <2>2. CASE flight' = hw
    BY <1>1, <1>3, <2>1, <2>2 DEF FlightInv, HwInv, Ready, Working, On, Writes
  <2>3. CASE flight' = flight
    BY <1>1, <1>3, <2>3 DEF FlightInv, Working, On
  <2> QED
    BY <1>3, <2>2, <2>3
<1> QED
  BY <1>2, <1>4, <1>5, <1>6

\* The poll ends with a result to fetch, or with another turn.
LEMMA PollInv == SInv /\ (ReadDone \/ Retry) => SInv'
<1> SUFFICES ASSUME SInv, ReadDone \/ Retry PROVE SInv'
  OBVIOUS
<1> USE DEF SInv, ReadDone, Retry, Failed, KeepsBus, KeepsRest, bus, history, counts
<1>1. pc = "poll" /\ pc' \in {"fetch", "addr"} /\ (pc' = "fetch" => cur.rw = "R")
  BY AfterFacts
<1>2. TodoInv' /\ SettingsInv'
  BY <1>1, SettingsKept
<1>3. todo # <<>> /\ cur' = cur /\ hw' = hw /\ flight' = flight
  BY <1>1 DEF TypeOK, PC, cur
<1>4. tries' \in 1 .. Retries
  BY BusAssumption DEF TypeOK, RetriesLeft
<1>5. TypeOK'
  BY <1>1, <1>3, <1>4 DEF TypeOK, PC
<1>6. HwInv'
  BY <1>1, <1>3 DEF HwInv, Ready
<1>7. FlightInv'
  BY <1>1, <1>3 DEF FlightInv, Working, On
<1> QED
  BY <1>2, <1>5, <1>6, <1>7

-----------------------------------------------------------------------------
(* The end of an operation.                                                *)

\* An operation that is over leaves a task of the same kind.
LEMMA AdvanceTodo ==
    ASSUME TypeOK, TodoInv, todo # <<>>, Advance
    PROVE  /\ TodoInv' /\ todo' \in Seq(Transfers) /\ last' \in Transfers
           /\ pc' \in {"spin", "halt", "idle"} /\ (pc' = "spin" => todo' # <<>>)
           /\ pc' = "halt" => cur.dev = "pic"
           /\ cur.dev = "pic" => pc' = "halt"
<1> USE DEF Advance
<1>1. /\ cur \in Transfers /\ todo' \in Seq(Transfers) /\ Len(todo') = Len(todo) - 1
      /\ \A i \in 1 .. Len(todo') : i + 1 \in Pending /\ todo'[i] = todo[i + 1]
      /\ (todo' = <<>>) <=> (Len(todo) = 1)
  BY CurFacts DEF TypeOK
<1>2. Reading => Reading'
  BY <1>1 DEF Reading, Pending
<1>3. Writing => Writing'
  BY <1>1 DEF Writing, Pending
<1>4. Len(todo) \in Nat
  BY DEF TypeOK
<1>5. PoweringOff => PoweringOff'
  BY <1>1, <1>4 DEF PoweringOff, Pending
<1>6. pc' \in {"idle", "halt"} => todo' = <<>>
  OBVIOUS
<1>7. TodoInv'
  BY <1>2, <1>3, <1>5, <1>6 DEF TodoInv
<1>8. cur.dev = "pic" => todo' = <<>>
  BY <1>1, CurKind
<1> QED
  BY <1>1, <1>7, <1>8

\* A write that returned with its effect: what is still pending leads to the
\* same content.
LEMMA WrittenSettings ==
    ASSUME TypeOK, TodoInv, SettingsInv, todo # <<>>, Advance, cur.rw = "W",
           CountFault(~Written), UNCHANGED <<eeprom, ram>>, pc # "off"
    PROVE  SettingsInv'
<1>1. SUFFICES ASSUME faults' = 0 PROVE SettingsInv'
  BY DEF SettingsInv
<1>2. faults = 0 /\ Written
  BY <1>1 DEF CountFault, TypeOK, MaxFaults
<1>3. cur.dev = "eeprom" /\ cur.reg \in Addr /\ eeprom[cur.reg] = cur.val /\ Writing
  BY <1>2, CurKind DEF Written
<1>4. /\ cur = todo[1] /\ 1 \in Pending
      /\ \A i \in 1 .. Len(todo') : i + 1 \in Pending /\ todo'[i] = todo[i + 1]
      /\ Len(todo') = Len(todo) - 1 /\ Len(todo) \in Nat
  BY CurFacts DEF TypeOK, Advance
<1>5. pc' \in {"spin", "idle"}
  BY <1>3, AdvanceTodo
<1>6. PICK e \in [Addr -> Byte] : Arrives(e)
  BY <1>2 DEF SettingsInv
<1>7. ASSUME NEW i \in Pending', todo'[i].rw = "W", todo'[i].dev = "eeprom"
      PROVE  e[todo'[i].reg] = todo'[i].val
  BY <1>4, <1>6, <1>7 DEF Arrives, Pending
<1>8. ASSUME NEW a \in Addr, \A i \in Pending' : ~Writes(todo'[i], a) PROVE e[a] = eeprom'[a]
  <2>1. CASE a = cur.reg
    <3>1. e[todo[1].reg] = todo[1].val
      BY <1>3, <1>4, <1>6 DEF Arrives
    <3> QED
      BY <2>1, <3>1, <1>3, <1>4
  <2>2. CASE a # cur.reg
    <3>1. ASSUME NEW i \in Pending PROVE ~Writes(todo[i], a)
      <4>1. CASE i = 1
        BY <4>1, <2>2, <1>4 DEF Writes
      <4>2. CASE i # 1
        <5>1. i - 1 \in Pending' /\ (i - 1) + 1 = i
          BY <4>2, <1>4 DEF Pending
        <5>2. todo'[i - 1] = todo[i]
          BY <5>1, <1>4 DEF Pending
        <5> QED
          BY <5>1, <5>2, <1>8
      <4> QED
        BY <4>1, <4>2
    <3> QED
      BY <3>1, <1>6 DEF Arrives
  <2> QED
    BY <2>1, <2>2
<1>9. ASSUME NEW a \in Data PROVE e[a] = ram'[a]
  <2>1. \A i \in Pending : ~Reads(todo[i], a)
    BY <1>3 DEF Writing, Reads
  <2> QED
    BY <2>1, <1>6 DEF Arrives
<1>10. Arrives(e)'
  BY <1>6, <1>7, <1>8, <1>9 DEF Arrives
<1> QED
  BY <1>5, <1>6, <1>10 DEF SettingsInv

\* The same of a read that stored what the EEPROM holds.
LEMMA StoredSettings ==
    ASSUME TypeOK, TodoInv, SettingsInv, todo # <<>>, Advance, cur.rw = "R",
           NEW b \in Byte, Store(b), pc # "off"
    PROVE  SettingsInv'
<1> USE DEF Store
<1>1. SUFFICES ASSUME faults' = 0 PROVE SettingsInv'
  BY DEF SettingsInv
<1>2. faults = 0 /\ b = eeprom[cur.reg]
  BY <1>1 DEF CountFault, TypeOK, MaxFaults
<1>3. cur.dev = "eeprom" /\ cur.reg \in Addr /\ Reading
  BY CurKind
<1>4. /\ cur = todo[1] /\ 1 \in Pending
      /\ \A i \in 1 .. Len(todo') : i + 1 \in Pending /\ todo'[i] = todo[i + 1]
      /\ Len(todo') = Len(todo) - 1 /\ Len(todo) \in Nat
  BY CurFacts DEF TypeOK, Advance
<1>5. pc' \in {"spin", "idle"}
  BY <1>3, AdvanceTodo
<1>6. PICK e \in [Addr -> Byte] : Arrives(e)
  BY <1>2 DEF SettingsInv
<1>7. \A i \in Pending : todo[i].rw = "R"
  BY <1>3 DEF Reading
<1>8. \A i \in Pending' : todo'[i].rw = "R"
  BY <1>4, <1>7 DEF Pending
<1>9. \A a \in Addr : e[a] = eeprom[a]
  BY <1>6, <1>7 DEF Arrives, Writes
<1>10. ASSUME NEW a \in Data, \A i \in Pending' : ~Reads(todo'[i], a) PROVE e[a] = ram'[a]
  <2>1. a \in Addr /\ ram \in [Addr -> Byte]
    BY DEF Data, TypeOK
  <2>2. CASE a = cur.reg
    BY <2>1, <2>2, <1>2, <1>9
  <2>3. CASE a # cur.reg
    <3>1. ASSUME NEW i \in Pending PROVE ~Reads(todo[i], a)
      <4>1. CASE i = 1
        BY <4>1, <2>3, <1>4 DEF Reads
      <4>2. CASE i # 1
        <5>1. i - 1 \in Pending' /\ (i - 1) + 1 = i
          BY <4>2, <1>4 DEF Pending
        <5>2. todo'[i - 1] = todo[i]
          BY <5>1, <1>4 DEF Pending
        <5> QED
          BY <5>1, <5>2, <1>10
      <4> QED
        BY <4>1, <4>2
    <3>2. e[a] = ram[a]
      BY <3>1, <1>6 DEF Arrives
    <3> QED
      BY <3>2, <2>1, <2>3
  <2> QED
    BY <2>2, <2>3
<1>11. Arrives(e)'
  BY <1>6, <1>8, <1>9, <1>10 DEF Arrives
<1> QED
  BY <1>5, <1>6, <1>11 DEF SettingsInv

\* After the end of an operation what is under way is of that operation, and
\* it is harmless if no fault was counted.
LEMMA AdvanceFlight ==
    ASSUME TypeOK, TodoInv, FlightInv, pc \in Working, todo # <<>>, Advance,
           UNCHANGED <<eeprom, flight>>,
           faults' = 0 /\ cur.rw = "W" => Written
    PROVE  FlightInv' /\ HwInv'
<1>1. pc' \in {"spin", "halt", "idle"} /\ (cur.dev = "pic" => pc' = "halt") /\ last' = cur
  BY AdvanceTodo DEF Advance
<1>2. HwInv'
  BY <1>1 DEF HwInv, Ready
<1>3. On
  BY DEF Working, On
<1>4. flight.rw = "W" /\ flight.dev = "pic" /\ flight.reg = PowerReg => pc' = "halt"
  BY <1>1, <1>3 DEF FlightInv, Working
<1>5. ASSUME flight.rw = "W", flight.dev = "eeprom"
      PROVE  flight.reg \in Addr /\ Writes(cur, flight.reg) /\ (faults' = 0 => eeprom[flight.reg] = flight.val)
  <2>1. flight.reg \in Addr /\ Writes(cur, flight.reg)
    BY <1>3, <1>5 DEF FlightInv
  <2>2. cur.rw = "W" /\ Writes(flight, cur.reg) /\ cur.reg = flight.reg
    BY <1>5, <2>1 DEF Writes
  <2>3. ASSUME faults' = 0 PROVE eeprom[flight.reg] = flight.val
    <3>1. flight = cur /\ eeprom[cur.reg] = cur.val
      BY <2>2, <2>3 DEF Written
    <3> QED
      BY <3>1
  <2> QED
    BY <2>1, <2>3
<1>6. FlightInv'
  BY <1>1, <1>4, <1>5 DEF FlightInv, Working, Writes
<1> QED
  BY <1>2, <1>6

\* A write returns, with or without its effect.
LEMMA WriteReturnsInv == SInv /\ WriteReturns => SInv'
<1> SUFFICES ASSUME SInv, WriteReturns PROVE SInv'
  OBVIOUS
<1> USE DEF SInv, WriteReturns, KeepsBus, KeepsRest, bus, counts
<1>1. todo # <<>> /\ pc \in Working /\ pc # "off"
  BY DEF TypeOK, PC, Working
<1>2. /\ TodoInv' /\ todo' \in Seq(Transfers) /\ last' \in Transfers
      /\ pc' \in {"spin", "halt", "idle"} /\ (pc' = "spin" => todo' # <<>>)
  BY <1>1, AdvanceTodo
<1>3. SettingsInv'
  BY <1>1, WrittenSettings
<1>4. faults' \in 0 .. MaxFaults /\ (faults' = 0 => Written)
  BY DEF CountFault, TypeOK, MaxFaults
<1>5. TypeOK'
  BY <1>2, <1>4 DEF TypeOK, PC
<1>6. FlightInv' /\ HwInv'
  BY <1>1, <1>4, AdvanceFlight
<1> QED
  BY <1>2, <1>3, <1>5, <1>6

\* A byte that was read, rightly or wrongly, is stored.
LEMMA StoreInv ==
    ASSUME SInv, NEW b \in Byte, Store(b), Advance, pc \in Working, cur.rw = "R", UNCHANGED bus
    PROVE  SInv'
<1> USE DEF SInv, Store, bus, counts
<1>1. todo # <<>> /\ pc # "off"
  BY DEF TypeOK, PC, Working
<1>2. /\ TodoInv' /\ todo' \in Seq(Transfers) /\ last' \in Transfers
      /\ pc' \in {"spin", "halt", "idle"} /\ (pc' = "spin" => todo' # <<>>)
  BY <1>1, AdvanceTodo
<1>3. SettingsInv'
  BY <1>1, StoredSettings
<1>4. faults' \in 0 .. MaxFaults
  BY DEF CountFault, TypeOK, MaxFaults
<1>5. ram' \in [Addr -> Byte]
  BY DEF TypeOK
<1>6. TypeOK'
  BY <1>2, <1>4, <1>5 DEF TypeOK, PC
<1>7. FlightInv' /\ HwInv'
  BY <1>1, AdvanceFlight
<1> QED
  BY <1>2, <1>3, <1>6, <1>7

\* The byte in the data register is fetched, whosever it is.
LEMMA FetchInv == SInv /\ Fetch => SInv'
<1> SUFFICES ASSUME SInv, Fetch PROVE SInv'
  OBVIOUS
<1>1. hw.val \in Byte /\ pc \in Working /\ cur.rw = "R"
  BY DEF SInv, TypeOK, Transfers, Fetch, Working, HwInv
<1> QED
  BY <1>1, StoreInv DEF Fetch, KeepsBus

\* All retries failed: a read stores a part of the error code.
LEMMA GiveUpInv == SInv /\ GiveUp => SInv'
<1> SUFFICES ASSUME SInv, GiveUp PROVE SInv'
  OBVIOUS
<1>1. pc = "poll" /\ pc \in Working /\ pc # "off" /\ todo # <<>>
  BY DEF GiveUp, Failed, SInv, TypeOK, PC, Working
<1>2. CASE cur.rw = "R"
  <2>1. ERR_I2C_ERROR_BUS \in Byte
    BY DEF ERR_I2C_ERROR_BUS, Byte
  <2> QED
    BY <1>1, <1>2, <2>1, StoreInv DEF GiveUp, KeepsBus
<1>3. CASE cur.rw # "R"
  <2> USE DEF SInv, GiveUp, KeepsBus, KeepsRest, bus, counts
  <2>1. cur.rw = "W" /\ CountFault(~Written) /\ UNCHANGED <<tries, temp>> /\ KeepsRest
    BY <1>1, <1>3, CurKind
  <2>2. /\ TodoInv' /\ todo' \in Seq(Transfers) /\ last' \in Transfers
        /\ pc' \in {"spin", "halt", "idle"} /\ (pc' = "spin" => todo' # <<>>)
    BY <1>1, AdvanceTodo
  <2>3. SettingsInv'
    BY <1>1, <2>1, WrittenSettings
  <2>4. faults' \in 0 .. MaxFaults /\ (faults' = 0 => Written)
    BY <2>1 DEF CountFault, TypeOK, MaxFaults
  <2>5. TypeOK'
    BY <2>1, <2>2, <2>4 DEF TypeOK, PC
  <2>6. FlightInv' /\ HwInv'
    BY <1>1, <2>1, <2>4, AdvanceFlight
  <2> QED
    BY <2>2, <2>3, <2>5, <2>6
<1> QED
  BY <1>2, <1>3

\* Every step of main within an operation keeps the invariant.
LEMMA MainInv == SInv /\ MainStep => SInv'
BY SpinInv, OutAddressInv, OutRegisterInv, OutDataInv, StatusInv, StartInv, PollInv,
   WriteReturnsInv, FetchInv, GiveUpInv DEF MainStep

-----------------------------------------------------------------------------
(* The menu.                                                               *)

\* An update begins when nothing is pending: EEPROM and RAM agree if nothing
\* went wrong.
LEMMA IdleSettings ==
    ASSUME TypeOK, TodoInv, SettingsInv, pc = "idle", faults = 0
    PROVE  /\ VideoConsistent(eeprom) /\ UserConsistent(eeprom)
           /\ \A a \in Data : eeprom[a] = ram[a]
<1>1. PICK e \in [Addr -> Byte] : Arrives(e)
  BY DEF SettingsInv
<1>2. Pending = {}
  BY DEF TodoInv, Pending
<1>3. e = eeprom
  BY <1>1, <1>2 DEF Arrives, TypeOK
<1> QED
  BY <1>1, <1>2, <1>3 DEF Arrives

\* An update changes the copy in RAM and what is pending; the rest of the
\* invariant depends on these alone.
LEMMA UpdateInv ==
    ASSUME SInv, NEW r \in [Addr -> Byte], NEW writes \in Seq(Transfers), writes # <<>>,
           Update(r, writes), TodoInv', SettingsInv'
    PROVE  SInv'
<1> USE DEF SInv, Update, KeepsBus, bus, history
<1>1. pc = "idle" /\ pc' = "spin" /\ todo' = writes /\ ram' = r
  OBVIOUS
<1>2. updates' \in 0 .. MaxUpdates
  BY BusAssumption DEF TypeOK
<1>3. TypeOK'
  BY <1>1, <1>2 DEF TypeOK, PC
<1>4. HwInv'
  BY <1>1 DEF HwInv, Ready
<1>5. FlightInv'
  BY <1>1 DEF FlightInv, Working, On, Writes
<1> QED
  BY <1>3, <1>4, <1>5

\* The content f is reached by the writes t, which begin in a state where
\* EEPROM and RAM agree.
LEMMA WritesArrive ==
    ASSUME TypeOK, pc' = "spin", eeprom' = eeprom,
           Writing',
           faults' = 0 =>
             \E f \in [Addr -> Byte] :
               /\ VideoConsistent(f) /\ UserConsistent(f)
               /\ \A i \in Pending' : f[todo'[i].reg] = todo'[i].val
               /\ \A a \in Addr : (\A i \in Pending' : ~Writes(todo'[i], a)) => f[a] = eeprom[a]
               /\ \A a \in Data : f[a] = ram'[a]
    PROVE  TodoInv' /\ SettingsInv'
<1>1. TodoInv'
  BY DEF TodoInv
<1>2. SUFFICES ASSUME faults' = 0 PROVE SettingsInv'
  BY <1>1 DEF SettingsInv
<1>3. PICK f \in [Addr -> Byte] :
               /\ VideoConsistent(f) /\ UserConsistent(f)
               /\ \A i \in Pending' : f[todo'[i].reg] = todo'[i].val
               /\ \A a \in Addr : (\A i \in Pending' : ~Writes(todo'[i], a)) => f[a] = eeprom[a]
               /\ \A a \in Data : f[a] = ram'[a]
  BY <1>2
<1>4. Arrives(f)'
  BY <1>3 DEF Arrives
<1> QED
  BY <1>3, <1>4 DEF SettingsInv

\* SetVideoStandard: four bytes and the four of their checksum.
LEMMA SetVideoStandardInv == SInv /\ SetVideoStandard => SInv'
<1> SUFFICES ASSUME SInv, SetVideoStandard PROVE SInv'
  OBVIOUS
<1> DEFINE b == NextStandard
           r == StandardRam(ram, b)
           c == VideoSum(r)
           t == WriteBoth(Standard, b, Checksum2, c)
<1>1. Update(r, t)
  BY DEF SetVideoStandard, StandardRam, WriteBoth
<1>2. b \in Standards
  BY DEF NextStandard, Standards
<1>3. b \in Seq(Byte) /\ Len(b) = 4
  BY <1>2, StandardsType
<1> HIDE DEF b
<1>4. Standard \in Nat /\ Checksum2 \in Nat
  BY Layout
<1>5. eeprom \in [Addr -> Byte] /\ ram \in [Addr -> Byte]
  BY DEF SInv, TypeOK
<1>6. r \in [Addr -> Byte]
  BY <1>3, <1>4, <1>5, PatchType DEF StandardRam
<1>7. c \in Seq(Byte) /\ Len(c) = 4
  BY <1>6, SumType
<1>8. /\ \A i \in 1 .. 4 : Standard + i - 1 \in Addr /\ Standard + i - 1 \in Checksum(Standard)
      /\ \A i \in 1 .. 4 : Checksum2 + i - 1 \in Addr /\ Checksum2 + i - 1 \in Checksum(Checksum2)
      /\ \A a \in Checksum(Standard) : \E i \in 1 .. 4 : a = Standard + i - 1
      /\ \A a \in Checksum(Checksum2) : \E i \in 1 .. 4 : a = Checksum2 + i - 1
  <2>1. ASSUME NEW x \in Nat
        PROVE  /\ \A i \in 1 .. 4 : x + i - 1 \in Checksum(x)
               /\ \A a \in Checksum(x) : \E i \in 1 .. 4 : a = x + i - 1
    <3>1. \A a \in x .. (x + 3) : a = x + (a - x + 1) - 1 /\ a - x + 1 \in 1 .. 4
      OBVIOUS
    <3> QED
      BY <3>1 DEF Checksum
  <2>2. \A i \in 1 .. 4 : Standard + i - 1 \in Addr /\ Checksum2 + i - 1 \in Addr
    BY Layout
  <2> QED
    BY <2>1, <2>2, <1>4
<1> HIDE DEF r, c
<1>9. /\ t \in Seq(Transfers) /\ Len(t) = 8
      /\ \A i \in 1 .. Len(t) :
            \/ \E j \in 1 .. 4 : t[i] = Write("eeprom", Standard + j - 1, b[j])
            \/ \E j \in 1 .. 4 : t[i] = Write("eeprom", Checksum2 + j - 1, c[j])
      /\ \A j \in 1 .. 4 : \E i \in 1 .. Len(t) : t[i] = Write("eeprom", Standard + j - 1, b[j])
      /\ \A j \in 1 .. 4 : \E i \in 1 .. Len(t) : t[i] = Write("eeprom", Checksum2 + j - 1, c[j])
  <2>1. /\ \A i \in 1 .. Len(b) : Standard + i - 1 \in Addr
        /\ \A i \in 1 .. Len(c) : Checksum2 + i - 1 \in Addr
    BY <1>3, <1>7, <1>8
  <2>2. JustWrites(t, Standard, b, Checksum2, c)
    BY <2>1, <1>3, <1>4, <1>7, JoinedWrites
  <2> HIDE DEF t
  <2> QED
    BY <2>2, <1>3, <1>7 DEF JustWrites
<1> HIDE DEF t
<1>10. pc = "idle" /\ pc' = "spin" /\ eeprom' = eeprom /\ ram' = r /\ todo' = t /\ faults' = faults
  BY <1>1 DEF Update, history
<1>11. Writing'
  <2>1. ASSUME NEW i \in 1 .. Len(t)
        PROVE  t[i].rw = "W" /\ t[i].dev = "eeprom" /\ t[i].reg \in Addr
    BY <1>8, <1>9 DEF Write
  <2> QED
    BY <2>1, <1>10 DEF Writing, Pending
<1>12. ASSUME faults' = 0
       PROVE  \E f \in [Addr -> Byte] :
               /\ VideoConsistent(f) /\ UserConsistent(f)
               /\ \A i \in Pending' : f[todo'[i].reg] = todo'[i].val
               /\ \A a \in Addr : (\A i \in Pending' : ~Writes(todo'[i], a)) => f[a] = eeprom[a]
               /\ \A a \in Data : f[a] = ram'[a]
  <2> DEFINE f == StandardGoal(eeprom, ram, b)
  <2>1. /\ VideoConsistent(eeprom) /\ UserConsistent(eeprom)
        /\ \A a \in Data : eeprom[a] = ram[a]
    BY <1>10, <1>12, IdleSettings DEF SInv
  <2>2. /\ f \in [Addr -> Byte] /\ VideoConsistent(f) /\ UserConsistent(f)
        /\ \A a \in Data : f[a] = r[a]
        /\ \A i \in 1 .. 4 : f[Standard + i - 1] = b[i]
        /\ \A i \in 1 .. 4 : f[Checksum2 + i - 1] = c[i]
        /\ \A a \in Addr \ (Checksum(Standard) \union Checksum(Checksum2)) : f[a] = eeprom[a]
    <3>1. StandardReached(f, eeprom, ram, b)
      BY <2>1, <1>3, <1>5, StandardArrives
    <3>2. r = StandardRam(ram, b) /\ c = VideoSum(StandardRam(ram, b))
      BY DEF r, c
    <3> HIDE DEF f
    <3> QED
      BY <3>1, <3>2 DEF StandardReached
  <2> HIDE DEF f
  <2>3. ASSUME NEW i \in 1 .. Len(t) PROVE f[t[i].reg] = t[i].val
    <3>1. CASE \E j \in 1 .. 4 : t[i] = Write("eeprom", Standard + j - 1, b[j])
      BY <3>1, <2>2 DEF Write
    <3>2. CASE \E j \in 1 .. 4 : t[i] = Write("eeprom", Checksum2 + j - 1, c[j])
      BY <3>2, <2>2 DEF Write
    <3> QED
      BY <3>1, <3>2, <1>9
  <2>4. ASSUME NEW a \in Addr, \A i \in 1 .. Len(t) : ~Writes(t[i], a)
        PROVE  f[a] = eeprom[a]
    <3>1. ASSUME a \in Checksum(Standard) PROVE FALSE
      <4>1. PICK j \in 1 .. 4 : a = Standard + j - 1
        BY <3>1, <1>8
      <4>2. PICK i \in 1 .. Len(t) : t[i] = Write("eeprom", Standard + j - 1, b[j])
        BY <1>9
      <4>3. Writes(t[i], a)
        BY <4>1, <4>2 DEF Write, Writes
      <4> QED
        BY <4>3, <2>4
    <3>2. ASSUME a \in Checksum(Checksum2) PROVE FALSE
      <4>1. PICK j \in 1 .. 4 : a = Checksum2 + j - 1
        BY <3>2, <1>8
      <4>2. PICK i \in 1 .. Len(t) : t[i] = Write("eeprom", Checksum2 + j - 1, c[j])
        BY <1>9
      <4>3. Writes(t[i], a)
        BY <4>1, <4>2 DEF Write, Writes
      <4> QED
        BY <4>3, <2>4
    <3> QED
      BY <3>1, <3>2, <2>2
  <2> QED
    BY <2>2, <2>3, <2>4, <1>10 DEF Pending
<1>13. TodoInv' /\ SettingsInv'
  BY <1>10, <1>11, <1>12, WritesArrive DEF SInv
<1>14. t # <<>>
  <2>1. Len(t) = 8
    BY <1>9
  <2> QED
    BY <2>1
<1> QED
  BY <1>1, <1>6, <1>9, <1>13, <1>14, UpdateInv

\* SetWidescreen: one byte and the four of its checksum.
LEMMA SetWidescreenInv == SInv /\ SetWidescreen => SInv'
<1> SUFFICES ASSUME SInv, SetWidescreen PROVE SInv'
  OBVIOUS
<1> DEFINE v == 1 - (ram[Widescreen] % 2)
           b == <<v>>
           r == WidescreenRam(ram, v)
           c == UserSum(r)
           t == WriteBoth(Widescreen, b, Checksum3, c)
<1>1. Update(r, t)
  BY DEF SetWidescreen, WidescreenRam, WriteBoth
<1>2. Widescreen \in Nat /\ Checksum3 \in Nat /\ Widescreen \in Addr
  BY Layout
<1>3. eeprom \in [Addr -> Byte] /\ ram \in [Addr -> Byte]
  BY DEF SInv, TypeOK
<1>4. v \in Byte
  <2>1. ram[Widescreen] \in Nat
    BY <1>2, <1>3, ByteFacts
  <2>2. \A x \in Nat : 1 - (x % 2) \in {0, 1}
    OBVIOUS
  <2>3. 0 \in Byte /\ 1 \in Byte
    BY DEF Byte
  <2> QED
    BY <2>1, <2>2, <2>3
<1> HIDE DEF v
<1>5. b \in Seq(Byte) /\ Len(b) = 1 /\ b[1] = v
  BY <1>4
<1>6. r \in [Addr -> Byte]
  BY <1>2, <1>3, <1>5, PatchType DEF WidescreenRam
<1>7. c \in Seq(Byte) /\ Len(c) = 4
  BY <1>6, SumType
<1>8. /\ Widescreen + 1 - 1 = Widescreen
      /\ \A i \in 1 .. 4 : Checksum3 + i - 1 \in Addr
      /\ \A a \in Checksum(Checksum3) : \E i \in 1 .. 4 : a = Checksum3 + i - 1
  <2>1. \A a \in Checksum3 .. (Checksum3 + 3) :
           a = Checksum3 + (a - Checksum3 + 1) - 1 /\ a - Checksum3 + 1 \in 1 .. 4
    BY <1>2
  <2>2. \A i \in 1 .. 4 : Checksum3 + i - 1 \in Addr
    BY Layout
  <2> QED
    BY <2>1, <2>2, <1>2 DEF Checksum
<1> HIDE DEF r, c, b
<1>9. /\ t \in Seq(Transfers) /\ Len(t) = 5
      /\ \A i \in 1 .. Len(t) :
            \/ t[i] = Write("eeprom", Widescreen, v)
            \/ \E j \in 1 .. 4 : t[i] = Write("eeprom", Checksum3 + j - 1, c[j])
      /\ \E i \in 1 .. Len(t) : t[i] = Write("eeprom", Widescreen, v)
      /\ \A j \in 1 .. 4 : \E i \in 1 .. Len(t) : t[i] = Write("eeprom", Checksum3 + j - 1, c[j])
  <2>1. /\ \A i \in 1 .. Len(b) : Widescreen + i - 1 \in Addr
        /\ \A i \in 1 .. Len(c) : Checksum3 + i - 1 \in Addr
    BY <1>2, <1>5, <1>7, <1>8
  <2>2. JustWrites(t, Widescreen, b, Checksum3, c)
    BY <2>1, <1>2, <1>5, <1>7, JoinedWrites
  <2> HIDE DEF t
  <2>3. \A j \in 1 .. Len(b) : Write("eeprom", Widescreen + j - 1, b[j]) = Write("eeprom", Widescreen, v)
    <3>1. \A j \in 1 .. Len(b) : j = 1
      BY <1>5
    <3> QED
      BY <3>1, <1>5, <1>8
  <2>4. 1 \in 1 .. Len(b)
    BY <1>5
  <2> QED
    BY <2>2, <2>3, <2>4, <1>5, <1>7 DEF JustWrites
<1> HIDE DEF t
<1>10. pc = "idle" /\ pc' = "spin" /\ eeprom' = eeprom /\ ram' = r /\ todo' = t /\ faults' = faults
  BY <1>1 DEF Update, history
<1>11. Writing'
  <2>1. ASSUME NEW i \in 1 .. Len(t)
        PROVE  t[i].rw = "W" /\ t[i].dev = "eeprom" /\ t[i].reg \in Addr
    BY <1>2, <1>8, <1>9 DEF Write
  <2> QED
    BY <2>1, <1>10 DEF Writing, Pending
<1>12. ASSUME faults' = 0
       PROVE  \E f \in [Addr -> Byte] :
               /\ VideoConsistent(f) /\ UserConsistent(f)
               /\ \A i \in Pending' : f[todo'[i].reg] = todo'[i].val
               /\ \A a \in Addr : (\A i \in Pending' : ~Writes(todo'[i], a)) => f[a] = eeprom[a]
               /\ \A a \in Data : f[a] = ram'[a]
  <2> DEFINE f == WidescreenGoal(eeprom, ram, v)
  <2>1. /\ VideoConsistent(eeprom) /\ UserConsistent(eeprom)
        /\ \A a \in Data : eeprom[a] = ram[a]
    BY <1>10, <1>12, IdleSettings DEF SInv
  <2>2. /\ f \in [Addr -> Byte] /\ VideoConsistent(f) /\ UserConsistent(f)
        /\ \A a \in Data : f[a] = r[a]
        /\ f[Widescreen] = v
        /\ \A i \in 1 .. 4 : f[Checksum3 + i - 1] = c[i]
        /\ \A a \in Addr \ ({Widescreen} \union Checksum(Checksum3)) : f[a] = eeprom[a]
    <3>1. c = UserSum(r) /\ r = WidescreenRam(ram, v)
      BY DEF r, c
    <3>2. WidescreenReached(f, eeprom, ram, v)
      BY <2>1, <1>3, <1>4, WidescreenArrives
    <3> HIDE DEF f
    <3> QED
      BY <3>1, <3>2 DEF WidescreenReached
  <2> HIDE DEF f
  <2>3. ASSUME NEW i \in 1 .. Len(t) PROVE f[t[i].reg] = t[i].val
    <3>1. CASE t[i] = Write("eeprom", Widescreen, v)
      BY <3>1, <2>2 DEF Write
    <3>2. CASE \E j \in 1 .. 4 : t[i] = Write("eeprom", Checksum3 + j - 1, c[j])
      BY <3>2, <2>2 DEF Write
    <3> QED
      BY <3>1, <3>2, <1>9
  <2>4. ASSUME NEW a \in Addr, \A i \in 1 .. Len(t) : ~Writes(t[i], a)
        PROVE  f[a] = eeprom[a]
    <3>1. ASSUME a = Widescreen PROVE FALSE
      <4>1. PICK i \in 1 .. Len(t) : t[i] = Write("eeprom", Widescreen, v)
        BY <1>9
      <4>2. Writes(t[i], a)
        BY <3>1, <4>1 DEF Write, Writes
      <4> QED
        BY <4>2, <2>4
    <3>2. ASSUME a \in Checksum(Checksum3) PROVE FALSE
      <4>1. PICK j \in 1 .. 4 : a = Checksum3 + j - 1
        BY <3>2, <1>8
      <4>2. PICK i \in 1 .. Len(t) : t[i] = Write("eeprom", Checksum3 + j - 1, c[j])
        BY <1>9
      <4>3. Writes(t[i], a)
        BY <4>1, <4>2 DEF Write, Writes
      <4> QED
        BY <4>3, <2>4
    <3> QED
      BY <3>1, <3>2, <2>2
  <2> QED
    BY <2>2, <2>3, <2>4, <1>10 DEF Pending
<1>13. TodoInv' /\ SettingsInv'
  BY <1>10, <1>11, <1>12, WritesArrive DEF SInv
<1>14. t # <<>>
  <2>1. Len(t) = 5
    BY <1>9
  <2> QED
    BY <2>1
<1> QED
  BY <1>1, <1>6, <1>9, <1>13, <1>14, UpdateInv

\* Reboot and power off: one write to the PIC.
LEMMA PowerOffInv == SInv /\ PowerOff => SInv'
<1> SUFFICES ASSUME SInv, PowerOff PROVE SInv'
  OBVIOUS
<1>1. PICK b \in PowerCommands : Update(ram, <<Write("pic", PowerReg, b)>>)
  BY DEF PowerOff
<1> DEFINE o == Write("pic", PowerReg, b)
           t == <<o>>
<1>2. o \in Transfers /\ o.rw = "W" /\ o.dev = "pic" /\ o.reg = PowerReg
  <2>1. b \in Byte /\ PowerReg \in Byte
    BY PowerRegApart DEF PowerCommands, Byte
  <2> QED
    BY <2>1 DEF Write, Transfers, Devices
<1> HIDE DEF o
<1>3. t \in Seq(Transfers) /\ t # <<>> /\ Len(t) = 1 /\ t[1] = o
  BY <1>2
<1>4. Update(ram, t)
  BY <1>1 DEF o
<1> HIDE DEF t
<1>5. pc = "idle" /\ pc' = "spin" /\ eeprom' = eeprom /\ ram' = ram /\ todo' = t /\ faults' = faults
  BY <1>4 DEF Update, history
<1>6. \A i \in Pending' : i = 1 /\ todo'[i] = o
  <2>1. Len(todo') = 1 /\ todo'[1] = o
    BY <1>3, <1>5
  <2>2. \A i \in 1 .. 1 : i = 1
    OBVIOUS
  <2>3. Pending' = 1 .. 1
    BY <2>1 DEF Pending
  <2> QED
    BY <2>1, <2>2, <2>3
<1>7. PoweringOff'
  <2>1. Len(todo') <= 1
    <3>1. Len(todo') = 1
      BY <1>3, <1>5
    <3>2. \A n : n = 1 => n <= 1
      OBVIOUS
    <3> QED
      BY <3>1, <3>2
  <2>2. \A i \in Pending' : todo'[i].rw = "W" /\ todo'[i].dev = "pic" /\ todo'[i].reg = PowerReg
    BY <1>2, <1>6
  <2> QED
    BY <2>1, <2>2 DEF PoweringOff
<1>8. TodoInv'
  BY <1>5, <1>7 DEF TodoInv
<1>9. eeprom \in [Addr -> Byte] /\ ram \in [Addr -> Byte]
  BY DEF SInv, TypeOK
<1>10. SettingsInv'
  <2>1. SUFFICES ASSUME faults' = 0 PROVE SettingsInv'
    BY DEF SettingsInv
  <2>2. /\ VideoConsistent(eeprom) /\ UserConsistent(eeprom)
        /\ \A a \in Data : eeprom[a] = ram[a]
    BY <1>5, <2>1, IdleSettings DEF SInv
  <2>3. \A i \in Pending' : todo'[i].dev # "eeprom"
    BY <1>2, <1>6
  <2>4. \E e \in [Addr -> Byte] : Arrives(e)'
    BY <1>5, <1>9, <2>2, <2>3 DEF Arrives
  <2> QED
    BY <1>5, <2>4 DEF SettingsInv
<1> QED
  BY <1>3, <1>4, <1>8, <1>9, <1>10, UpdateInv

-----------------------------------------------------------------------------
(* The handler, the controller and the power.                              *)

\* What the handler leaves in the registers is a transfer to the PIC or to the
\* video encoder, and not to the power register.
LEMMA LastOpFacts ==
    ASSUME NEW r \in Reasons, NEW mode \in AvModes
    PROVE  /\ LastOp(r, mode) \in Transfers
           /\ LastOp(r, mode).dev \in {"pic", "encoder"} /\ LastOp(r, mode).reg # PowerReg
<1> DEFINE Good(o) == o \in Transfers /\ o.dev \in {"pic", "encoder"} /\ o.reg # PowerReg
<1>1. mode \in Byte
  BY BusAssumption
<1>2. /\ 0 \in Byte /\ 2 \in Byte /\ 4 \in Byte /\ 12 \in Byte /\ 13 \in Byte /\ 17 \in Byte
      /\ 24 \in Byte /\ 140 \in Byte /\ 172 \in Byte
  BY DEF Byte
<1>3. Mask(r) \in Byte
  <2>1. \A b, v : Bit(b, v, r) \in {0, v}
    BY DEF Bit
  <2>2. /\ Bit(0, 1, r) \in {0, 1} /\ Bit(1, 2, r) \in {0, 2} /\ Bit(2, 4, r) \in {0, 4}
        /\ Bit(3, 8, r) \in {0, 8} /\ Bit(4, 16, r) \in {0, 16} /\ Bit(5, 32, r) \in {0, 32}
        /\ Bit(6, 64, r) \in {0, 64}
    BY <2>1
  <2>3. Mask(r) \in 0 .. 127
    BY <2>2 DEF Mask
  <2> QED
    BY <2>3 DEF Byte
<1>4. Good(Write("pic", 12, 0))
  BY <1>2 DEF Write, Transfers, Devices, PowerReg
<1>5. Good(Write("encoder", 172, 140))
  BY <1>2 DEF Write, Transfers, Devices, PowerReg
<1>6. Good([Read("pic", 4) EXCEPT !.val = mode])
  BY <1>1, <1>2 DEF Read, Transfers, Devices, PowerReg
<1>7. Good(Write("pic", 13, 2))
  BY <1>2 DEF Write, Transfers, Devices, PowerReg
<1>8. Good(Write("pic", 24, 4))
  BY <1>2 DEF Write, Transfers, Devices, PowerReg
<1>9. Good([Read("pic", 17) EXCEPT !.val = Mask(r)])
  BY <1>2, <1>3 DEF Read, Transfers, Devices, PowerReg
<1> HIDE DEF Good
<1>10. Good(LastOp(r, mode))
  BY <1>4, <1>5, <1>6, <1>7, <1>8, <1>9 DEF LastOp
<1> QED
  BY <1>10 DEF Good

\* The handler replaces the registers and the status, and nothing of main's.
LEMMA InterruptInv == SInv /\ Interrupt => SInv'
<1> SUFFICES ASSUME SInv, Interrupt PROVE SInv'
  OBVIOUS
<1> USE DEF SInv, Interrupt, main, history
<1>1. hw' \in Transfers /\ hw'.dev \in {"pic", "encoder"} /\ hw'.reg # PowerReg
  <2>1. CASE \E r \in Reasons, mode \in AvModes : hw' = LastOp(r, mode)
    BY <2>1, LastOpFacts
  <2>2. CASE hw' = [Read("pic", 17) EXCEPT !.val = hw.val]
    <3>1. 17 \in Byte /\ 0 \in Byte
      BY DEF Byte
    <3>2. hw.val \in Byte
      BY DEF TypeOK, Transfers
    <3> QED
      BY <2>2, <3>1, <3>2 DEF Read, Transfers, Devices, PowerReg
  <2> QED
    BY <2>1, <2>2
<1>2. status' \subseteq {"done", "err"}
  BY DEF HandlerLeaves
<1>3. irqs' \in 0 .. MaxIrqs
  BY BusAssumption DEF TypeOK
<1>4. /\ UNCHANGED <<pc, todo, tries, temp, flight, eeprom, ram, last, faults>>
      /\ UNCHANGED <<errors, updates, losses>>
  OBVIOUS
<1>5. TypeOK'
  BY <1>1, <1>2, <1>3, <1>4 DEF TypeOK
<1>6. TodoInv' /\ SettingsInv' /\ FlightInv'
  BY <1>4 DEF TodoInv, Reading, Writing, PoweringOff, Pending, SettingsInv, Arrives,
              FlightInv, On, cur
<1>7. HwInv'
  BY <1>1, <1>4 DEF HwInv, cur
<1> QED
  BY <1>5, <1>6, <1>7

\* A transfer ends: a write to the EEPROM puts down what main is writing, or
\* what is there already.
LEMMA CompleteInv == SInv /\ Complete => SInv'
<1> SUFFICES ASSUME SInv, Complete PROVE SInv'
  OBVIOUS
<1> USE DEF SInv, Complete, counts
<1> DEFINE Store1 == flight.rw = "W" /\ flight.dev = "eeprom"
           Down == /\ flight.rw = "W" /\ flight.dev = "pic" /\ flight.reg = PowerReg
                   /\ flight.val \in PowerCommands
<1>1. /\ UNCHANGED <<todo, tries, temp, ram, last, faults, irqs, errors, updates, losses>>
      /\ cur' = cur /\ Pending' = Pending /\ flight' = NoTransfer
  BY DEF cur, Pending
<1>2. hw \in Transfers /\ flight \in Transfers /\ eeprom \in [Addr -> Byte] /\ 0 \in Byte
  BY DEF TypeOK, Byte
<1>3. hw' \in Transfers /\ hw'.dev = hw.dev /\ hw'.rw = hw.rw /\ hw'.reg = hw.reg
  <2>1. Answers(flight) \subseteq Byte
    BY <1>2, BusAssumption DEF Answers
  <2>2. \A v \in Byte : LET h == [hw EXCEPT !.val = v]
                        IN  h \in Transfers /\ h.dev = hw.dev /\ h.rw = hw.rw /\ h.reg = hw.reg
    BY <1>2 DEF Transfers
  <2>3. CASE flight.rw = "R"
    BY <2>1, <2>2, <2>3
  <2>4. CASE flight.rw # "R"
    BY <1>2, <2>4
  <2> QED
    BY <2>3, <2>4
<1>4. eeprom' \in [Addr -> Byte]
  <2>1. flight.val \in Byte
    BY <1>2 DEF Transfers
  <2> QED
    BY <1>2, <2>1
<1>5. pc' = IF Down THEN "off" ELSE pc
  OBVIOUS
<1>6. TypeOK'
  <2>1. pc' \in PC /\ (pc' \in PC \ {"idle", "halt", "off"} => todo' # <<>>)
    BY <1>1, <1>5 DEF TypeOK, PC
  <2>2. status' \subseteq {"done", "err"}
    BY DEF TypeOK
  <2> QED
    BY <1>1, <1>3, <1>4, <2>1, <2>2, NoTransferFacts DEF TypeOK
<1>7. TodoInv'
  <2>1. (Reading \/ Writing \/ PoweringOff)'
    BY <1>1 DEF TodoInv, Reading, Writing, PoweringOff, Pending
  <2> QED
    BY <2>1, <1>1, <1>5 DEF TodoInv
<1>8. HwInv'
  BY <1>1, <1>3, <1>5 DEF HwInv, Ready
<1>9. FlightInv'
  BY <1>1, NoTransferFacts DEF FlightInv
<1>10. SettingsInv'
  <2>1. SUFFICES ASSUME faults = 0 PROVE SettingsInv'
    BY <1>1 DEF SettingsInv
  <2>2. pc # "halt" /\ pc # "off"
    BY <2>1 DEF SettingsInv, On
  <2>3. PICK e \in [Addr -> Byte] : Arrives(e)
    BY <2>1 DEF SettingsInv
  <2>4. CASE Store1
    <3>1. pc' = pc /\ flight.reg \in Addr /\ eeprom' = [eeprom EXCEPT ![flight.reg] = flight.val]
      BY <2>4, <1>5 DEF FlightInv
    <3>2. CASE pc \in Working
      <4>1. Writes(cur, flight.reg) /\ todo # <<>>
        BY <2>4, <3>2 DEF FlightInv, Working, TypeOK, PC
      <4>2. 1 \in Pending /\ Writes(todo[1], flight.reg)
        BY <4>1, CurFacts DEF TypeOK
      <4>3. ASSUME NEW a \in Addr, \A i \in Pending : ~Writes(todo[i], a) PROVE e[a] = eeprom'[a]
        <5>1. a # flight.reg
          BY <4>2, <4>3
        <5> QED
          BY <5>1, <3>1, <1>2, <2>3, <4>3 DEF Arrives
      <4>4. Arrives(e)'
        BY <1>1, <2>3, <4>3 DEF Arrives
      <4> QED
        BY <2>2, <2>3, <3>1, <4>4 DEF SettingsInv
    <3>3. CASE pc \notin Working
      <4>1. eeprom[flight.reg] = flight.val
        BY <2>1, <2>4, <3>3 DEF FlightInv
      <4>2. eeprom' = eeprom
        BY <4>1, <3>1, <1>2
      <4>3. Arrives(e)'
        BY <4>2, <1>1, <2>3 DEF Arrives
      <4> QED
        BY <2>2, <2>3, <3>1, <4>3 DEF SettingsInv
    <3> QED
      BY <3>2, <3>3
  <2>5. CASE ~Store1
    <3>1. eeprom' = eeprom
      BY <2>5
    <3>2. Arrives(e)'
      BY <3>1, <1>1, <2>3 DEF Arrives
    <3>3. CASE Down
      <4>1. pc \in Working /\ cur.dev = "pic" /\ todo # <<>>
        BY <2>2, <3>3 DEF FlightInv, Working, TypeOK, PC
      <4>2. ~Writing
        BY <4>1, CurFacts DEF Writing, TypeOK
      <4>3. ~Writing'
        BY <4>2, <1>1 DEF Writing
      <4> QED
        BY <1>5, <2>3, <3>2, <3>3, <4>3 DEF SettingsInv
    <3>4. CASE ~Down
      BY <1>5, <2>2, <2>3, <3>2, <3>4 DEF SettingsInv
    <3> QED
      BY <3>3, <3>4
  <2> QED
    BY <2>4, <2>5
<1> QED
  BY <1>6, <1>7, <1>8, <1>9, <1>10

\* A transfer fails.
LEMMA ErrorInv == SInv /\ Error => SInv'
<1> SUFFICES ASSUME SInv, Error PROVE SInv'
  OBVIOUS
<1> USE DEF SInv, Error, main, history
<1>1. /\ UNCHANGED <<pc, todo, tries, temp, hw, eeprom, ram, last, faults, irqs, updates, losses>>
      /\ flight' = NoTransfer /\ cur' = cur
  BY DEF cur
<1>2. errors' \in 0 .. MaxErrors
  BY BusAssumption DEF TypeOK
<1>3. TypeOK'
  BY <1>1, <1>2, NoTransferFacts DEF TypeOK
<1>4. TodoInv' /\ SettingsInv' /\ HwInv'
  BY <1>1 DEF TodoInv, Reading, Writing, PoweringOff, Pending, SettingsInv, Arrives, HwInv
<1>5. FlightInv'
  BY <1>1, NoTransferFacts DEF FlightInv
<1> QED
  BY <1>3, <1>4, <1>5

\* Power is lost: in the middle of an update it is counted as a fault.
LEMMA PowerLossInv == SInv /\ PowerLoss => SInv'
<1> SUFFICES ASSUME SInv, PowerLoss PROVE SInv'
  OBVIOUS
<1> USE DEF SInv, PowerLoss, bus
<1>1. pc' = "off" /\ UNCHANGED <<todo, tries, temp, hw, status, flight, eeprom, ram, last, irqs, errors, updates>>
  OBVIOUS
<1>2. losses' \in 0 .. MaxLosses
  BY BusAssumption DEF TypeOK
<1>3. faults' \in 0 .. MaxFaults
  BY DEF CountFault, TypeOK, MaxFaults
<1>4. TypeOK'
  BY <1>1, <1>2, <1>3 DEF TypeOK, PC
<1>5. HwInv' /\ FlightInv'
  BY <1>1 DEF HwInv, Ready, FlightInv, On
<1>6. TodoInv'
  BY <1>1 DEF TodoInv, Reading, Writing, PoweringOff, Pending
<1>7. SettingsInv'
  <2>1. SUFFICES ASSUME faults' = 0 PROVE SettingsInv'
    BY DEF SettingsInv
  <2>2. faults = 0 /\ ~(todo # <<>> /\ cur.rw = "W" /\ cur.dev = "eeprom")
    BY <2>1 DEF CountFault, TypeOK, MaxFaults
  <2>3. PICK e \in [Addr -> Byte] : Arrives(e)
    BY <2>2 DEF SettingsInv
  <2>4. Arrives(e)'
    BY <1>1, <2>3 DEF Arrives, Pending
  <2>5. ASSUME todo # <<>> PROVE ~Writing
    BY <2>2, <2>5, CurFacts DEF Writing, TypeOK
  <2>6. ~Writing' \/ todo' = <<>>
    BY <2>5, <1>1 DEF Writing, Pending
  <2> QED
    BY <1>1, <2>3, <2>4, <2>6 DEF SettingsInv
<1> QED
  BY <1>4, <1>5, <1>6, <1>7

\* After a restart main reads the EEPROM, which holds all that was written.
LEMMA RestartInv == SInv /\ Restart => SInv'
<1> SUFFICES ASSUME SInv, Restart PROVE SInv'
  OBVIOUS
<1> USE DEF SInv, Restart, Boot, counts
<1>1. /\ pc = "off" /\ pc' = "spin" /\ todo' = ReadAll /\ hw' = NoTransfer /\ flight' = NoTransfer
      /\ last' = NoTransfer /\ UNCHANGED <<eeprom, faults, irqs, errors, updates, losses>>
  OBVIOUS
<1>2. ram' \in [Addr -> Byte]
  <2>1. 0 \in Byte
    BY DEF Byte
  <2> QED
    BY <2>1
<1>3. Retries \in 1 .. Retries
  BY BusAssumption
<1>4. TypeOK'
  BY <1>1, <1>2, <1>3, ReadAllFacts, NoTransferFacts DEF TypeOK, PC
<1>5. HwInv' /\ FlightInv'
  BY <1>1, NoTransferFacts DEF HwInv, Ready, FlightInv
<1>6. \A i \in Pending' : todo'[i].rw = "R" /\ todo'[i].dev = "eeprom" /\ todo'[i].reg \in Addr
  BY <1>1, ReadAllFacts DEF Pending
<1>7. TodoInv'
  BY <1>1, <1>6 DEF TodoInv, Reading
<1>8. SettingsInv'
  <2>1. SUFFICES ASSUME faults = 0 PROVE SettingsInv'
    BY <1>1 DEF SettingsInv
  <2>2. PICK e \in [Addr -> Byte] : Arrives(e)
    BY <2>1 DEF SettingsInv
  <2>3. ASSUME NEW i \in Pending, NEW a \in Addr PROVE ~Writes(todo[i], a)
    <3>1. todo # <<>>
      BY <2>3 DEF Pending
    <3>2. ~Writing
      BY <3>1, <1>1, <2>1 DEF SettingsInv
    <3> QED
      BY <3>2, <2>3 DEF TodoInv, Reading, PoweringOff, Writes
  <2>4. \A a \in Addr : e[a] = eeprom[a]
    BY <2>2, <2>3 DEF Arrives
  <2>5. ASSUME NEW a \in Data PROVE ~(\A i \in Pending' : ~Reads(todo'[i], a))
    BY <1>1, ReadAllFacts DEF Pending, Data
  <2>6. Arrives(e)'
    BY <1>1, <1>6, <2>2, <2>4, <2>5 DEF Arrives
  <2> QED
    BY <1>1, <2>2, <2>6 DEF SettingsInv
<1> QED
  BY <1>4, <1>5, <1>7, <1>8

-----------------------------------------------------------------------------
(* Theorems.                                                               *)

\* Every step keeps the invariant.
LEMMA NextInv == SInv /\ [Next]_vars => SInv'
<1> SUFFICES ASSUME SInv, [Next]_vars PROVE SInv'
  OBVIOUS
<1>1. CASE UNCHANGED vars
  <2>1. UNCHANGED <<pc, todo, tries, temp, hw, status, flight, eeprom, ram, last, faults, irqs, errors, updates, losses>>
    BY <1>1 DEF vars, main, bus, history, counts
  <2>2. TypeOK' /\ HwInv' /\ FlightInv'
    BY <2>1 DEF SInv, TypeOK, HwInv, FlightInv, On, cur
  <2>3. TodoInv' /\ SettingsInv'
    BY <2>1 DEF SInv, TodoInv, Reading, Writing, PoweringOff, Pending, SettingsInv, Arrives
  <2> QED
    BY <2>2, <2>3 DEF SInv
<1>2. CASE Next
  BY <1>2, MainInv, SetVideoStandardInv, SetWidescreenInv, PowerOffInv, InterruptInv,
     CompleteInv, ErrorInv, PowerLossInv, RestartInv DEF Next
<1> QED
  BY <1>1, <1>2

\* The invariant of the bus and its users: what each register, the transfer
\* under way and the pending operations can be, and where they lead.
THEOREM BusInvariance == Spec => []SInv
<1>1. Init => SInv
  BY InitInv
<1>2. SInv /\ [Next]_vars => SInv'
  BY NextInv
<1> QED
  BY <1>1, <1>2, PTL DEF Spec

\* Registers, retry counter, EEPROM and RAM keep their types, and main has an
\* operation at hand whenever it is inside one (i2cio.c, BootEEPROM.c).
THEOREM BusTypeCorrect == Spec => []TypeOK
<1>1. SInv => TypeOK
  BY DEF SInv
<1> QED
  BY <1>1, BusInvariance, PTL

\* Without a fault, settings and checksums agree whenever nothing is being
\* written, RAM and EEPROM agree in the menu, and the console has not hung.
THEOREM BusFaultlessConsistent == Spec => []FaultlessIsConsistent
<1>1. SInv => FaultlessIsConsistent
  <2> SUFFICES ASSUME SInv, faults = 0
               PROVE  /\ AtRest => VideoConsistent(eeprom) /\ UserConsistent(eeprom)
                      /\ pc = "idle" => \A a \in Data : ram[a] = eeprom[a]
                      /\ pc # "halt"
    BY DEF FaultlessIsConsistent, Data
  <2>1. PICK e \in [Addr -> Byte] : Arrives(e)
    BY DEF SInv, SettingsInv
  <2>2. pc # "halt"
    BY DEF SInv, SettingsInv
  <2>3. ASSUME AtRest PROVE e = eeprom
    <3>1. ASSUME NEW i \in Pending, NEW a \in Addr PROVE ~Writes(todo[i], a)
      <4>1. pc = "off" /\ todo # <<>>
        BY <2>3, <3>1 DEF AtRest, SInv, TodoInv, Pending
      <4>2. ~Writing
        BY <4>1 DEF SInv, SettingsInv
      <4> QED
        BY <4>2, <3>1 DEF SInv, TodoInv, Reading, PoweringOff, Writes
    <3>2. \A a \in Addr : e[a] = eeprom[a]
      BY <2>1, <3>1 DEF Arrives
    <3> QED
      BY <3>2 DEF SInv, TypeOK
  <2>4. pc = "idle" => \A a \in Data : ram[a] = eeprom[a]
    BY IdleSettings DEF SInv
  <2> QED
    BY <2>1, <2>2, <2>3, <2>4 DEF Arrives
<1> QED
  BY <1>1, BusInvariance, PTL

\* Whatever the interleaving of main and IntHandlerCSmc, a byte of the EEPROM
\* changes only if main is writing that byte, or has just returned from that.
THEOREM BusEepromOnlyIntended == Spec => EepromOnlyIntended
<1> DEFINE Intended == \A a \in Addr : eeprom'[a] # eeprom[a] =>
                          Writes(last, a) \/ (todo # <<>> /\ Writes(cur, a))
<1>1. SInv /\ [Next]_vars => [Intended]_vars
  <2> SUFFICES ASSUME SInv, Next, NEW a \in Addr, eeprom'[a] # eeprom[a]
               PROVE  Writes(last, a) \/ (todo # <<>> /\ Writes(cur, a))
    OBVIOUS
  <2>1. Complete
    <3>1. MainStep => eeprom' = eeprom
      BY DEF MainStep, Spin, OutAddress, OutRegister, OutData, InStatus, ClearStatus, Start,
             WriteReturns, ReadDone, Fetch, Retry, GiveUp, Store, KeepsRest
    <3>2. SetVideoStandard \/ SetWidescreen \/ PowerOff => eeprom' = eeprom
      BY DEF SetVideoStandard, SetWidescreen, PowerOff, Update
    <3>3. Interrupt \/ Error \/ PowerLoss \/ Restart => eeprom' = eeprom
      BY DEF Interrupt, Error, PowerLoss, Restart
    <3> QED
      BY <3>1, <3>2, <3>3 DEF Next
  <2>2. flight.rw = "W" /\ flight.dev = "eeprom" /\ flight.reg = a /\ On
    BY <2>1 DEF Complete, SInv, TypeOK
  <2>3. CASE pc \in Working
    BY <2>2, <2>3 DEF SInv, FlightInv, TypeOK, PC, Working
  <2>4. CASE pc \notin Working
    BY <2>2, <2>4 DEF SInv, FlightInv
  <2> QED
    BY <2>3, <2>4
<1> QED
  BY <1>1, BusInvariance, PTL DEF Spec, EepromOnlyIntended

-----------------------------------------------------------------------------
(* One fault.  SetVideoStandard makes eight writes: the bytes of the       *)
(* standard, then those of the checksum.                                   *)

Place(j) == IF j <= 4 THEN Standard + j - 1 ELSE Checksum2 + j - 5
Goal(m, j) == IF j <= 4 THEN m[Standard + j - 1] ELSE VideoSum(m)[j - 4]
VideoAddr == Checksum2 .. (Standard + 3)

\* How many of them are done, if main is in SetVideoStandard; otherwise it
\* writes nothing of the video section.
Sent == 8 - Len(todo)
InVideo ==
    /\ todo # <<>> /\ Len(todo) <= 8
    /\ \A i \in Pending : todo[i] = Write("eeprom", Place(Sent + i), Goal(ram, Sent + i))
NoVideo == \A i \in Pending, a \in VideoAddr : ~Writes(todo[i], a)

\* A write is still under way although main has returned from it.
Late == On /\ pc \notin Working /\ flight.rw = "W" /\ flight.dev = "eeprom"
TaskInv ==
    /\ InVideo \/ NoVideo
    /\ InVideo => Part(ram, Standard, 4) \in Standards
    /\ Late => flight.reg \notin SerialAddr

\* The content is a standard that is known, or the checksum does not fit.
Safe(e) == VideoConsistent(e) => Known(e)

\* Outside of SetVideoStandard the content is safe, and what is under way will
\* not change that.
RestInv ==
    /\ ~InVideo \/ ~On => Safe(eeprom)
    /\ ~InVideo /\ Late /\ flight.reg \in VideoAddr =>
          eeprom[flight.reg] = flight.val \/ (flight.reg \in Checksum(Checksum2) /\ Known(eeprom))
    /\ faults = 0 /\ ~InVideo => Part(eeprom, Standard, 4) \in Standards

\* Within it, what is done is in the EEPROM, but for the byte x; if x is of the
\* standard, the fault was that of its write, and the copy in RAM is right.
FaultAt(x) ==
    /\ \A j \in 1 .. Sent : Place(j) = x \/ eeprom[Place(j)] = Goal(ram, j)
    /\ x \in StandardAddr => \A a \in SerialAddr : eeprom[a] = ram[a]
    /\ Late => \/ \A j \in 1 .. Sent : flight.reg # Place(j)
               \/ flight.reg = x
               \/ eeprom[flight.reg] = flight.val

\* Before the first fault, while the standard is being written, the checksum is
\* still that of the old standard s.
OldSum(s) ==
    /\ VideoConsistent(Patch(eeprom, Standard, s))
    /\ Sent = 0 => eeprom[Standard + 3] = 0
MidwayInv ==
    On /\ InVideo =>
        /\ \E x \in Addr : FaultAt(x)
        /\ faults = 0 /\ Sent < 4 => \E s \in Standards : OldSum(s)

DInv == TaskInv /\ (faults <= 1 => RestInv /\ MidwayInv)

\* Where the eight writes go.
LEMMA PlaceFacts ==
    /\ \A j \in 1 .. 8 : Place(j) \in Addr /\ Place(j) \in VideoAddr /\ Place(j) \notin SerialAddr
    /\ \A i, j \in 1 .. 8 : Place(i) = Place(j) => i = j
    /\ \A j \in 1 .. 4 : Place(j) = Standard + j - 1 /\ Place(j) \in StandardAddr
    /\ \A j \in 5 .. 8 : Place(j) = Checksum2 + j - 5 /\ Place(j) \in Checksum(Checksum2)
    /\ \A j \in 5 .. 8 : Place(j) \notin StandardAddr
    /\ Place(8) = Checksum2 + 3
    /\ StandardAddr \subseteq Data /\ SerialAddr \subseteq Data
    /\ VideoAddr \subseteq Addr /\ Checksum2 \in Addr \ StandardAddr
<1>1. \A j \in 1 .. 4 : Place(j) = Standard + j - 1
  BY DEF Place
<1>2. \A j \in 5 .. 8 : Place(j) = Checksum2 + j - 5
  BY DEF Place
<1>3. \A j \in 1 .. 8 : j \in 1 .. 4 \/ j \in 5 .. 8
  OBVIOUS
<1>4. PICK n \in Nat : n = Len(Serial)
  BY Layout
<1>5. /\ Standard = 7 + n /\ Checksum2 = 3 /\ Video = 7 /\ Checksum3 = 11 + n
      /\ \E m \in Nat : Addr = 3 .. (15 + n + m)
  BY <1>4, Layout
<1>6. \A j \in 1 .. 4 : Place(j) = 6 + n + j
  BY <1>1, <1>5
<1>7. \A j \in 5 .. 8 : Place(j) = j - 2
  BY <1>2, <1>5
<1>8. VideoAddr = 3 .. (10 + n) /\ SerialAddr = 7 .. (6 + n) /\ StandardAddr = (7 + n) .. (10 + n)
  BY <1>5 DEF VideoAddr, SerialAddr, StandardAddr
<1>9. Checksum(Checksum2) = 3 .. 6 /\ Checksum(Checksum3) = (11 + n) .. (14 + n)
  BY <1>5 DEF Checksum
<1>10. \A j \in 1 .. 8 : Place(j) \in Addr /\ Place(j) \in VideoAddr /\ Place(j) \notin SerialAddr
  BY <1>3, <1>5, <1>6, <1>7, <1>8
<1>11. \A i, j \in 1 .. 8 : Place(i) = Place(j) => i = j
  BY <1>3, <1>6, <1>7
<1>12. \A j \in 1 .. 4 : Place(j) \in StandardAddr
  BY <1>6, <1>8
<1>13. \A j \in 5 .. 8 : Place(j) \in Checksum(Checksum2) /\ Place(j) \notin StandardAddr
  BY <1>7, <1>8, <1>9
<1>14. StandardAddr \subseteq Data /\ SerialAddr \subseteq Data
  BY <1>5, <1>8, <1>9 DEF Data
<1>15. VideoAddr \subseteq Addr /\ Checksum2 \in Addr \ StandardAddr
  BY <1>5, <1>8
<1>16. Place(8) = Checksum2 + 3
  BY <1>5, <1>7
<1> QED
  BY <1>1, <1>2, <1>10, <1>11, <1>12, <1>13, <1>14, <1>15, <1>16

\* In SetVideoStandard the operation at hand is the write behind those done.
LEMMA VideoCur ==
    ASSUME TypeOK, InVideo
    PROVE  /\ Sent \in 0 .. 7 /\ Sent + 1 \in 1 .. 8 /\ Len(todo) = 8 - Sent /\ Len(todo) \in Nat
           /\ cur = Write("eeprom", Place(Sent + 1), Goal(ram, Sent + 1))
           /\ cur.rw = "W" /\ cur.dev = "eeprom" /\ cur.reg = Place(Sent + 1)
           /\ cur.val = Goal(ram, Sent + 1) /\ cur.reg \in Addr
           /\ \A j \in 1 .. Sent : j \in 1 .. 8 /\ Place(j) # cur.reg
           /\ Writing /\ ~NoVideo
<1>1. Len(todo) \in Nat /\ Len(todo) # 0 /\ Len(todo) <= 8
  BY DEF TypeOK, InVideo
<1>2. /\ Sent \in 0 .. 7 /\ Sent + 1 \in 1 .. 8 /\ Len(todo) = 8 - Sent
      /\ \A i \in Pending : Sent + i \in 1 .. 8
      /\ \A j \in 1 .. Sent : j \in 1 .. 8 /\ j # Sent + 1
  <2>1. ASSUME NEW n \in Nat, n # 0, n <= 8
        PROVE  /\ 8 - n \in 0 .. 7 /\ (8 - n) + 1 \in 1 .. 8 /\ n = 8 - (8 - n)
               /\ \A i \in 1 .. n : (8 - n) + i \in 1 .. 8
               /\ \A j \in 1 .. (8 - n) : j \in 1 .. 8 /\ j # (8 - n) + 1
    BY <2>1
  <2> QED
    BY <1>1, <2>1 DEF Sent, Pending
<1>3. 1 \in Pending /\ cur = todo[1]
  BY CurFacts DEF TypeOK, InVideo
<1>4. cur = Write("eeprom", Place(Sent + 1), Goal(ram, Sent + 1))
  BY <1>3 DEF InVideo
<1>5. /\ cur.rw = "W" /\ cur.dev = "eeprom" /\ cur.reg = Place(Sent + 1)
      /\ cur.val = Goal(ram, Sent + 1)
  BY <1>4 DEF Write
<1>6. Place(Sent + 1) \in Addr /\ Place(Sent + 1) \in VideoAddr
  BY <1>2, PlaceFacts
<1>7. \A j \in 1 .. Sent : Place(j) # Place(Sent + 1)
  BY <1>2, PlaceFacts
<1>8. Writing
  <2>1. ASSUME NEW i \in Pending
        PROVE  todo[i].rw = "W" /\ todo[i].dev = "eeprom" /\ todo[i].reg \in Addr
    <3>1. todo[i] = Write("eeprom", Place(Sent + i), Goal(ram, Sent + i))
      BY DEF InVideo
    <3>2. todo[i].rw = "W" /\ todo[i].dev = "eeprom" /\ todo[i].reg = Place(Sent + i)
      BY <3>1 DEF Write
    <3>3. Place(Sent + i) \in Addr
      BY <1>2, PlaceFacts
    <3> QED
      BY <3>2, <3>3
  <2> QED
    BY <2>1 DEF Writing
<1>9. ~NoVideo
  <2>1. Writes(todo[1], Place(Sent + 1))
    BY <1>3, <1>5 DEF Writes
  <2> QED
    BY <2>1, <1>3, <1>6 DEF NoVideo
<1> QED
  BY <1>1, <1>2, <1>4, <1>5, <1>6, <1>7, <1>8, <1>9

\* Without a fault, what is done is in the EEPROM, and RAM holds what is there.
LEMMA VideoDone ==
    ASSUME SInv, InVideo, faults = 0
    PROVE  /\ \A j \in 1 .. Sent : eeprom[Place(j)] = Goal(ram, j)
           /\ \A a \in SerialAddr : eeprom[a] = ram[a]
<1>1. PICK e \in [Addr -> Byte] : Arrives(e)
  BY DEF SInv, SettingsInv
<1>2. TypeOK /\ eeprom \in [Addr -> Byte] /\ ram \in [Addr -> Byte]
  BY DEF SInv, TypeOK
<1>3. /\ Sent \in 0 .. 7 /\ Len(todo) = 8 - Sent /\ Len(todo) \in Nat /\ Writing
      /\ \A j \in 1 .. Sent : j \in 1 .. 8
  BY <1>2, VideoCur
<1>4. \A a \in Data : e[a] = ram[a]
  <2>1. \A i \in Pending, a \in Data : ~Reads(todo[i], a)
    BY <1>3 DEF Writing, Reads
  <2> QED
    BY <2>1, <1>1 DEF Arrives
<1>5. \A i \in Pending : todo[i].reg = Place(Sent + i) /\ Sent + i \in 1 .. 8 /\ Sent + i > Sent
  <2>1. ASSUME NEW i \in Pending PROVE todo[i].reg = Place(Sent + i)
    <3>1. todo[i] = Write("eeprom", Place(Sent + i), Goal(ram, Sent + i))
      BY DEF InVideo
    <3> QED
      BY <3>1 DEF Write
  <2>2. \A i \in Pending : Sent + i \in 1 .. 8 /\ Sent + i > Sent
    BY <1>3 DEF Pending
  <2> QED
    BY <2>1, <2>2
<1>6. ASSUME NEW j \in 1 .. Sent PROVE e[Place(j)] = eeprom[Place(j)]
  <2>1. ASSUME NEW i \in Pending PROVE ~Writes(todo[i], Place(j))
    <3>1. Sent + i # j /\ j \in 1 .. 8
      BY <1>3, <1>5
    <3>2. Place(Sent + i) # Place(j)
      BY <3>1, <1>5, PlaceFacts
    <3> QED
      BY <3>2, <1>5 DEF Writes
  <2>2. Place(j) \in Addr
    BY <1>3, PlaceFacts
  <2> QED
    BY <2>1, <2>2, <1>1 DEF Arrives
<1>7. ASSUME NEW j \in 1 .. Sent PROVE eeprom[Place(j)] = Goal(ram, j)
  <2>1. CASE j <= 4
    <3>1. j \in 1 .. 4
      BY <2>1, <1>3
    <3>2. Place(j) \in Data /\ Goal(ram, j) = ram[Place(j)]
      BY <3>1, <2>1, PlaceFacts DEF Goal
    <3> QED
      BY <3>2, <1>4, <1>6
  <2>2. CASE ~(j <= 4)
    <3>1. j \in 5 .. 8 /\ j - 4 \in 1 .. 4
      BY <2>2, <1>3
    <3>2. Place(j) = Checksum2 + (j - 4) - 1
      <4>1. Place(j) = Checksum2 + j - 5
        BY <3>1, PlaceFacts
      <4>2. Checksum2 = 3
        BY Layout
      <4> QED
        BY <4>1, <4>2, <3>1
    <3>3. \A i \in 1 .. 4 : e[Checksum2 + i - 1] = VideoSum(ram)[i]
      BY <1>1, <1>2, <1>4, SumsMakeConsistent DEF Arrives
    <3>4. e[Place(j)] = VideoSum(ram)[j - 4]
      BY <3>1, <3>2, <3>3
    <3>5. Goal(ram, j) = VideoSum(ram)[j - 4]
      BY <2>2 DEF Goal
    <3> QED
      BY <3>4, <3>5, <1>6
  <2> QED
    BY <2>1, <2>2
<1>8. ASSUME NEW a \in SerialAddr PROVE eeprom[a] = ram[a]
  <2>1. a \in Data /\ a \in Addr
    BY PlaceFacts DEF Data
  <2>2. ASSUME NEW i \in Pending PROVE ~Writes(todo[i], a)
    <3>1. Place(Sent + i) \notin SerialAddr
      BY <1>5, PlaceFacts
    <3> QED
      BY <3>1, <1>5 DEF Writes
  <2>3. e[a] = eeprom[a]
    BY <2>1, <2>2, <1>1 DEF Arrives
  <2> QED
    BY <2>1, <2>3, <1>4
<1> QED
  BY <1>7, <1>8

\* A content with the bytes of a known standard is known.
LEMMA KnownStandard ==
    ASSUME NEW e, NEW m, Part(m, Standard, 4) \in Standards,
           \A i \in 1 .. 3 : e[Standard + i - 1] = m[Standard + i - 1]
    PROVE  Known(e)
<1> DEFINE s == Part(m, Standard, 4)
<1>1. \A i \in 1 .. 3 : i \in 1 .. 4
  OBVIOUS
<1>2. \A i \in 1 .. 4 : s[i] = m[Standard + i - 1]
  BY DEF Part
<1> HIDE DEF s
<1>3. \A i \in 1 .. 3 : e[Standard + i - 1] = s[i]
  BY <1>1, <1>2
<1>4. s \in Standards
  BY DEF s
<1> QED
  BY <1>3, <1>4 DEF Known

\* The first and the last byte of a standard are zero.
LEMMA StandardsZero ==
    ASSUME NEW s \in Standards
    PROVE  s[1] = 0 /\ s[4] = 0
BY DEF Standards, NTSC_M, NTSC_J, PAL_I

\* When all is written, but for the byte x, the content is safe.
LEMMA EndSafe ==
    ASSUME eeprom \in [Addr -> Byte], ram \in [Addr -> Byte], Part(ram, Standard, 4) \in Standards,
           NEW x, \A j \in 1 .. 8 : Place(j) = x \/ eeprom[Place(j)] = Goal(ram, j),
           x \in StandardAddr => \A a \in SerialAddr : eeprom[a] = ram[a]
    PROVE  Safe(eeprom) /\ (x \notin StandardAddr => Known(eeprom))
<1>1. \A j \in 1 .. 4 : j \in 1 .. 8 /\ Place(j) = Standard + j - 1 /\ Goal(ram, j) = ram[Standard + j - 1]
  BY PlaceFacts DEF Goal
<1>2. \A j \in 1 .. 4 : Standard + j - 1 = x \/ eeprom[Standard + j - 1] = ram[Standard + j - 1]
  BY <1>1
<1>3. ASSUME x \notin StandardAddr PROVE Known(eeprom)
  <2>1. \A j \in 1 .. 4 : Standard + j - 1 \in StandardAddr
    BY <1>1, PlaceFacts
  <2>2. \A j \in 1 .. 3 : j \in 1 .. 4
    OBVIOUS
  <2>3. \A j \in 1 .. 3 : eeprom[Standard + j - 1] = ram[Standard + j - 1]
    BY <2>1, <2>2, <1>2, <1>3
  <2> QED
    BY <2>3, KnownStandard
<1>4. ASSUME x \in StandardAddr, VideoConsistent(eeprom) PROVE Known(eeprom)
  <2>1. ASSUME NEW i \in 1 .. 4 PROVE VideoSum(eeprom)[i] = VideoSum(ram)[i]
    <3>1. i + 4 \in 5 .. 8 /\ i + 4 \in 1 .. 8 /\ (i + 4) - 4 = i /\ ~(i + 4 <= 4)
      OBVIOUS
    <3>2. Place(i + 4) = Checksum2 + i - 1
      <4>1. Place(i + 4) = Checksum2 + (i + 4) - 5
        BY <3>1, PlaceFacts
      <4>2. Checksum2 = 3
        BY Layout
      <4> QED
        BY <4>1, <4>2
    <3>3. Place(i + 4) # x
      BY <3>1, <1>4, PlaceFacts
    <3>4. eeprom[Place(i + 4)] = VideoSum(ram)[i]
      BY <3>1, <3>3 DEF Goal
    <3>5. eeprom[Checksum2 + i - 1] = VideoSum(eeprom)[i]
      BY <1>4, ConsistentBytes
    <3> QED
      BY <3>2, <3>4, <3>5
  <2>2. VideoSum(eeprom) = VideoSum(ram)
    BY <2>1 DEF VideoSum, EepromCRC
  <2>3. eeprom[Standard] = ram[Standard] \/ eeprom[Standard + 3] = ram[Standard + 3]
    <3>1. Standard \in Nat
      BY Layout
    <3>2. Standard + 1 - 1 = Standard /\ Standard + 4 - 1 = Standard + 3 /\ Standard # Standard + 3
      BY <3>1
    <3>3. 1 \in 1 .. 4 /\ 4 \in 1 .. 4
      OBVIOUS
    <3>4. /\ Standard + 1 - 1 = x \/ eeprom[Standard + 1 - 1] = ram[Standard + 1 - 1]
          /\ Standard + 4 - 1 = x \/ eeprom[Standard + 4 - 1] = ram[Standard + 4 - 1]
      BY <1>2, <3>3
    <3> QED
      BY <3>2, <3>4
  <2>4. \A i \in 1 .. 3 : eeprom[Standard + i - 1] = ram[Standard + i - 1]
    BY <1>4, <2>2, <2>3, SumTells
  <2> QED
    BY <2>4, KnownStandard
<1> QED
  BY <1>3, <1>4 DEF Safe

\* Before the first fault the content is safe in the middle of the writes.
LEMMA MidwaySafe ==
    ASSUME SInv, TaskInv, MidwayInv, On, InVideo, faults = 0
    PROVE  Safe(eeprom)
<1>1. TypeOK /\ eeprom \in [Addr -> Byte] /\ ram \in [Addr -> Byte]
  BY DEF SInv, TypeOK
<1>2. Part(ram, Standard, 4) \in Standards
  BY DEF TaskInv
<1>3. Sent \in 0 .. 7
  BY <1>1, VideoCur
<1>4. /\ \A j \in 1 .. Sent : eeprom[Place(j)] = Goal(ram, j)
      /\ \A a \in SerialAddr : eeprom[a] = ram[a]
  BY VideoDone
<1>5. \A j \in 1 .. 4 : Place(j) = Standard + j - 1 /\ Goal(ram, j) = ram[Standard + j - 1]
  BY PlaceFacts DEF Goal
<1>6. CASE Sent >= 4
  <2>1. \A j \in 1 .. 3 : j \in 1 .. Sent /\ j \in 1 .. 4
    BY <1>3, <1>6
  <2>2. \A j \in 1 .. 3 : eeprom[Standard + j - 1] = ram[Standard + j - 1]
    BY <2>1, <1>4, <1>5
  <2> QED
    BY <2>2, <1>2, KnownStandard DEF Safe
<1>7. CASE Sent < 4
  <2>1. PICK s \in Standards : OldSum(s)
    BY <1>7 DEF MidwayInv
  <2> DEFINE f == Patch(eeprom, Standard, s)
  <2>2. s \in Seq(Byte) /\ Len(s) = 4 /\ s[1] = 0 /\ s[4] = 0 /\ Standard \in Nat
    BY StandardsType, StandardsZero, Layout
  <2>3. /\ \A i \in 1 .. 4 : f[Standard + i - 1] = s[i]
        /\ \A a \in Addr \ StandardAddr : f[a] = eeprom[a]
    <3>1. Standard \in Addr /\ Standard + 3 \in Addr
      BY Layout
    <3>2. StandardAddr = Checksum(Standard)
      BY DEF StandardAddr, Checksum
    <3> QED
      BY <3>1, <3>2, <2>2, <1>1, PatchedSum
  <2>4. f \in [Addr -> Byte] /\ VideoConsistent(f)
    BY <2>1, <2>2, <1>1, PatchType DEF OldSum
  <2> HIDE DEF f
  <2>5. ASSUME VideoConsistent(eeprom) PROVE Known(eeprom)
    <3>1. \A a \in SerialAddr : a \in Addr \ StandardAddr
      BY Layout DEF SerialAddr, StandardAddr
    <3>2. \A a \in SerialAddr : eeprom[a] = f[a]
      BY <3>1, <2>3
    <3>3. VideoSum(eeprom) = VideoSum(f)
      <4>1. \A i \in 1 .. 4 : Checksum2 + i - 1 \in Addr \ StandardAddr
        BY Layout DEF StandardAddr
      <4>2. Part(eeprom, Checksum2, 4) = Part(f, Checksum2, 4)
        BY <4>1, <2>3 DEF Part
      <4> QED
        BY <4>2, <2>4, <2>5 DEF VideoConsistent
    <3>4. eeprom[Standard] = f[Standard] \/ eeprom[Standard + 3] = f[Standard + 3]
      <4>1. Standard + 1 - 1 = Standard /\ Standard + 4 - 1 = Standard + 3
        BY <2>2
      <4>2. f[Standard + 1 - 1] = s[1] /\ f[Standard + 4 - 1] = s[4]
        BY <2>3
      <4>3. f[Standard] = 0 /\ f[Standard + 3] = 0
        BY <4>1, <4>2, <2>2
      <4>4. CASE Sent = 0
        BY <4>3, <4>4, <2>1 DEF OldSum
      <4>5. CASE Sent # 0
        <5>1. 1 \in 1 .. Sent /\ 1 \in 1 .. 4
          BY <4>5, <1>3
        <5>2. eeprom[Standard + 1 - 1] = ram[Standard + 1 - 1]
          BY <5>1, <1>4, <1>5
        <5>3. Part(ram, Standard, 4)[1] = ram[Standard + 1 - 1]
          BY <5>1 DEF Part
        <5>4. Part(ram, Standard, 4)[1] = 0
          BY <1>2, StandardsZero
        <5> QED
          BY <5>2, <5>3, <5>4, <4>1, <4>3
      <4> QED
        BY <4>4, <4>5
    <3>5. \A i \in 1 .. 3 : eeprom[Standard + i - 1] = f[Standard + i - 1]
      BY <3>2, <3>3, <3>4, <1>1, <2>4, SumTells
    <3>6. \A i \in 1 .. 3 : i \in 1 .. 4
      OBVIOUS
    <3>7. \A i \in 1 .. 3 : eeprom[Standard + i - 1] = s[i]
      BY <3>5, <3>6, <2>3
    <3> QED
      BY <3>7 DEF Known
  <2> QED
    BY <2>5 DEF Safe
<1> QED
  BY <1>3, <1>6, <1>7

\* What concerns the writes does not change while main is busy with the
\* registers, nor with an interrupt or a failed transfer.
LEMMA DamageKept ==
    ASSUME DInv, UNCHANGED <<todo, eeprom, ram, faults>>, On <=> On',
           Late' => Late /\ flight' = flight
    PROVE  DInv'
<1>1. (InVideo' <=> InVideo) /\ (NoVideo' <=> NoVideo) /\ Sent' = Sent
  BY DEF InVideo, NoVideo, Sent, Pending
<1>2. TaskInv'
  BY <1>1 DEF DInv, TaskInv
<1>3. ASSUME faults <= 1 PROVE RestInv' /\ MidwayInv'
  <2>1. RestInv'
    BY <1>1, <1>3 DEF DInv, RestInv
  <2>2. ASSUME NEW x, FaultAt(x) PROVE FaultAt(x)'
    BY <1>1, <2>2 DEF FaultAt
  <2>3. ASSUME NEW s, OldSum(s) PROVE OldSum(s)'
    BY <1>1, <2>3 DEF OldSum
  <2>4. MidwayInv'
    BY <1>1, <1>3, <2>2, <2>3 DEF DInv, MidwayInv
  <2> QED
    BY <2>1, <2>4
<1> QED
  BY <1>2, <1>3 DEF DInv

\* Of the steps that write no byte and end no operation.
LEMMA QuietDamage ==
    ASSUME SInv, DInv,
           \/ Spin \/ OutAddress \/ OutRegister \/ OutData \/ InStatus \/ ClearStatus \/ Start
           \/ ReadDone \/ Retry \/ Interrupt \/ Error
    PROVE  DInv'
<1> USE DEF KeepsBus, KeepsRest, bus, history, main, counts
<1>1. CASE Spin \/ OutAddress \/ OutRegister \/ OutData \/ InStatus \/ ClearStatus \/ Start
  <2>1. /\ UNCHANGED <<todo, eeprom, ram, faults>>
        /\ pc \in {"spin", "addr", "cmd", "data", "status", "clear", "start"}
        /\ pc' = After(pc)
    BY <1>1 DEF Spin, OutAddress, OutRegister, OutData, InStatus, ClearStatus, Start, Goto
  <2>2. pc' \in Working
    BY <2>1, AfterFacts DEF Working
  <2>3. On /\ On' /\ ~Late'
    BY <2>1, <2>2 DEF On, Working, Late
  <2> QED
    BY <2>1, <2>3, DamageKept
<1>2. CASE ReadDone \/ Retry
  <2>1. UNCHANGED <<todo, eeprom, ram, faults>> /\ pc = "poll" /\ pc' \in {"fetch", "addr"}
    BY <1>2, AfterFacts DEF ReadDone, Retry, Failed
  <2>2. On /\ On' /\ ~Late'
    BY <2>1 DEF On, Working, Late
  <2> QED
    BY <2>1, <2>2, DamageKept
<1>3. CASE Interrupt
  <2>1. UNCHANGED <<todo, eeprom, ram, faults, pc, flight>>
    BY <1>3 DEF Interrupt
  <2>2. (On <=> On') /\ (Late' => Late)
    BY <2>1 DEF On, Late
  <2> QED
    BY <2>1, <2>2, DamageKept
<1>4. CASE Error
  <2>1. UNCHANGED <<todo, eeprom, ram, faults, pc>> /\ flight' = NoTransfer
    BY <1>4 DEF Error
  <2>2. (On <=> On') /\ ~Late'
    BY <2>1, NoTransferFacts DEF On, Late
  <2> QED
    BY <2>1, <2>2, DamageKept
<1> QED
  BY <1>1, <1>2, <1>3, <1>4

\* A task of SetVideoStandard has a byte of the video section pending.
LEMMA VideoPending ==
    ASSUME NEW t \in Seq(Transfers), NEW m, t # <<>>, Len(t) <= 8,
           \A i \in 1 .. Len(t) : t[i] = Write("eeprom", Place((8 - Len(t)) + i), Goal(m, (8 - Len(t)) + i))
    PROVE  \E i \in 1 .. Len(t), a \in VideoAddr : Writes(t[i], a)
<1>1. Len(t) \in Nat /\ Len(t) # 0
  OBVIOUS
<1>2. Len(t) \in 1 .. Len(t) /\ (8 - Len(t)) + Len(t) = 8
  BY <1>1
<1>3. t[Len(t)] = Write("eeprom", Place(8), Goal(m, 8))
  BY <1>2
<1>4. Place(8) \in VideoAddr
  BY PlaceFacts
<1>5. Writes(t[Len(t)], Place(8))
  BY <1>3 DEF Write, Writes
<1> QED
  BY <1>2, <1>4, <1>5

\* A step to a state in which no byte of the video section is pending.
LEMMA NoVideoDamage ==
    ASSUME SInv', NoVideo', Late' => flight'.reg \notin SerialAddr,
           faults' <= 1 =>
             /\ Safe(eeprom')
             /\ Late' /\ flight'.reg \in VideoAddr =>
                  \/ eeprom'[flight'.reg] = flight'.val
                  \/ flight'.reg \in Checksum(Checksum2) /\ Known(eeprom')
             /\ faults' = 0 => Part(eeprom', Standard, 4) \in Standards
    PROVE  DInv'
<1>1. ~InVideo'
  <2>1. todo' \in Seq(Transfers)
    BY DEF SInv, TypeOK
  <2> QED
    BY <2>1, VideoPending DEF InVideo, NoVideo, Pending, Sent
<1>2. TaskInv'
  BY <1>1 DEF TaskInv
<1>3. MidwayInv'
  BY <1>1, Zenon DEF MidwayInv
<1>4. ASSUME faults' <= 1 PROVE RestInv'
  <2>1. /\ Safe(eeprom')
        /\ Late' /\ flight'.reg \in VideoAddr =>
             \/ eeprom'[flight'.reg] = flight'.val
             \/ flight'.reg \in Checksum(Checksum2) /\ Known(eeprom')
        /\ faults' = 0 => Part(eeprom', Standard, 4) \in Standards
    BY <1>4, Zenon
  <2> QED
    BY <2>1, Zenon DEF RestInv, Safe, Known
<1> QED
  BY <1>2, <1>3, <1>4 DEF DInv

\* A write is over, with or without its effect.
LEMMA WriteDamage ==
    ASSUME SInv, DInv, SInv', pc \in Working, cur.rw = "W", Advance, CountFault(~Written),
           UNCHANGED <<eeprom, ram, flight>>
    PROVE  DInv'
<1>1. TypeOK /\ todo # <<>> /\ On /\ eeprom \in [Addr -> Byte] /\ ram \in [Addr -> Byte]
  BY DEF SInv, TypeOK, PC, Working, On
<1>2. /\ 1 \in Pending /\ cur = todo[1] /\ Len(todo) \in Nat
      /\ Len(todo') = Len(todo) - 1 /\ (todo' = <<>> <=> Len(todo) = 1)
      /\ \A i \in Pending' : i + 1 \in Pending /\ todo'[i] = todo[i + 1]
  <2>1. todo \in Seq(Transfers) /\ todo' = Tail(todo)
    BY <1>1 DEF Advance, TypeOK
  <2>2. /\ 1 \in Pending /\ cur = todo[1] /\ Len(Tail(todo)) = Len(todo) - 1
        /\ \A i \in 1 .. Len(Tail(todo)) : i + 1 \in Pending /\ Tail(todo)[i] = todo[i + 1]
        /\ (Tail(todo) = <<>>) <=> (Len(todo) = 1)
    BY <1>1, <2>1, CurFacts, Zenon
  <2>3. Len(todo) \in Nat
    BY <2>1
  <2> QED
    BY <2>1, <2>2, <2>3, Zenon DEF Pending
<1>3. ASSUME faults' <= 1
      PROVE  faults <= 1 /\ ((faults' = faults /\ Written) \/ (faults = 0 /\ faults' = 1))
  BY <1>1, <1>3 DEF CountFault, TypeOK, MaxFaults
<1>4. ASSUME flight.rw = "W", flight.dev = "eeprom"
      PROVE  Writes(cur, flight.reg) /\ flight.reg = cur.reg /\ (Written => eeprom[flight.reg] = flight.val)
  <2>1. Writes(cur, flight.reg)
    BY <1>1, <1>4 DEF SInv, FlightInv
  <2>2. flight.reg = cur.reg
    BY <2>1 DEF Writes
  <2>3. Written => flight = cur /\ eeprom[cur.reg] = cur.val
    BY <1>4, <2>2 DEF Written, Writes
  <2> QED
    BY <2>1, <2>2, <2>3
<1>5. CASE NoVideo
  <2>1. ~InVideo
    BY <1>1, <1>5, VideoCur
  <2>2. NoVideo'
    BY <1>2, <1>5 DEF NoVideo
  <2>3. Late' => flight'.reg \notin VideoAddr
    BY <1>2, <1>4, <1>5 DEF Late, NoVideo
  <2>4. SerialAddr \subseteq VideoAddr
    BY Layout DEF SerialAddr, VideoAddr
  <2>5. faults' <= 1 => Safe(eeprom') /\ (faults' = 0 => Part(eeprom', Standard, 4) \in Standards)
    BY <1>3, <2>1 DEF DInv, RestInv
  <2> QED
    BY <2>2, <2>3, <2>4, <2>5, NoVideoDamage
<1>6. CASE InVideo
  <2>1. /\ Sent \in 0 .. 7 /\ Sent + 1 \in 1 .. 8 /\ Len(todo) = 8 - Sent
        /\ cur.dev = "eeprom" /\ cur.reg = Place(Sent + 1)
        /\ cur.val = Goal(ram, Sent + 1) /\ cur.reg \in Addr
        /\ Part(ram, Standard, 4) \in Standards
    BY <1>1, <1>6, VideoCur DEF DInv, TaskInv
  <2> DEFINE Hit(x) == /\ \A j \in 1 .. (Sent + 1) : Place(j) = x \/ eeprom[Place(j)] = Goal(ram, j)
                       /\ x \in StandardAddr => \A a \in SerialAddr : eeprom[a] = ram[a]
                       /\ Late' => flight.reg = x \/ eeprom[flight.reg] = flight.val
  <2>2. ASSUME faults' <= 1 PROVE \E x \in Addr : Hit(x)
    <3>1. \A j \in 1 .. (Sent + 1) : j = Sent + 1 \/ j \in 1 .. Sent
      BY <2>1
    <3>2. CASE Written /\ faults' = faults
      <4>1. PICK x \in Addr : FaultAt(x)
        BY <1>1, <1>3, <1>6, <2>2 DEF DInv, MidwayInv
      <4>2. eeprom[Place(Sent + 1)] = Goal(ram, Sent + 1)
        BY <3>2, <2>1 DEF Written
      <4>3. \A j \in 1 .. (Sent + 1) : Place(j) = x \/ eeprom[Place(j)] = Goal(ram, j)
        BY <3>1, <4>1, <4>2 DEF FaultAt
      <4>4. Late' => eeprom[flight.reg] = flight.val
        BY <3>2, <1>4 DEF Late
      <4> QED
        BY <4>1, <4>3, <4>4 DEF FaultAt
    <3>3. CASE faults = 0 /\ faults' = 1
      <4>1. /\ \A j \in 1 .. Sent : eeprom[Place(j)] = Goal(ram, j)
            /\ \A a \in SerialAddr : eeprom[a] = ram[a]
        BY <3>3, <1>6, VideoDone
      <4>2. Late' => flight.reg = cur.reg
        BY <1>4 DEF Late
      <4> QED
        BY <2>1, <3>1, <4>1, <4>2
    <3> QED
      BY <1>3, <2>2, <3>2, <3>3
  <2>3. Late' => flight'.reg \notin SerialAddr /\ flight.reg = Place(Sent + 1)
    BY <1>4, <2>1, PlaceFacts DEF Late
  <2>4. CASE todo' # <<>>
    <3>1. Sent' = Sent + 1
      BY <1>2, <2>1 DEF Sent
    <3>2. InVideo'
      <4>1. Len(todo') <= 8
        BY <1>2, <2>1
      <4>2. ASSUME NEW i \in Pending'
            PROVE  todo'[i] = Write("eeprom", Place(Sent' + i), Goal(ram', Sent' + i))
        <5>1. i \in Nat /\ Sent + (i + 1) = Sent' + i
          BY <2>1, <3>1 DEF Pending
        <5>2. todo[i + 1] = Write("eeprom", Place(Sent + (i + 1)), Goal(ram, Sent + (i + 1)))
          BY <1>2, <1>6 DEF InVideo
        <5> QED
          BY <5>1, <5>2, <1>2
      <4> QED
        BY <2>4, <4>1, <4>2 DEF InVideo
    <3>3. TaskInv'
      BY <2>1, <2>3, <3>2 DEF TaskInv
    <3>4. pc' = "spin" /\ On'
      BY <2>4 DEF Advance, On
    <3>5. ASSUME faults' <= 1 PROVE RestInv' /\ MidwayInv'
      <4>1. PICK x \in Addr : Hit(x)
        BY <2>2, <3>5
      <4>2. FaultAt(x)'
        BY <3>1, <4>1 DEF FaultAt
      <4>3. ASSUME faults' = 0, Sent' < 4 PROVE \E s \in Standards : OldSum(s)'
        <5>1. faults = 0 /\ Sent < 4 /\ Sent' # 0
          BY <4>3, <3>1, <2>1, <1>3, <3>5
        <5>2. PICK s \in Standards : OldSum(s)
          BY <5>1, <1>1, <1>6 DEF DInv, MidwayInv
        <5>3. OldSum(s)'
          BY <5>1, <5>2 DEF OldSum
        <5> QED
          BY <5>3
      <4> QED
        BY <3>2, <3>4, <4>2, <4>3 DEF RestInv, MidwayInv
    <3> QED
      BY <3>3, <3>5 DEF DInv
  <2>5. CASE todo' = <<>>
    <3>1. Sent = 7 /\ NoVideo'
      BY <1>2, <2>1, <2>5 DEF NoVideo, Pending
    <3>2. Late' => flight'.reg = Place(8)
      BY <2>3, <3>1
    <3>3. ASSUME faults' <= 1
          PROVE  /\ Safe(eeprom)
                 /\ Late' => \/ eeprom[flight.reg] = flight.val
                             \/ flight.reg \in Checksum(Checksum2) /\ Known(eeprom)
      <4>1. PICK x \in Addr : Hit(x)
        BY <2>2, <3>3
      <4>2. Safe(eeprom) /\ (x \notin StandardAddr => Known(eeprom))
        <5>1. Sent + 1 = 8
          BY <3>1
        <5> QED
          BY <4>1, <5>1, <1>1, <2>1, EndSafe
      <4>3. Place(8) \in Checksum(Checksum2) /\ Place(8) \notin StandardAddr
        BY PlaceFacts
      <4> QED
        BY <3>2, <4>1, <4>2, <4>3
    <3>4. ASSUME faults' = 0 PROVE Part(eeprom, Standard, 4) \in Standards
      <4>1. faults = 0
        BY <3>4, <1>3
      <4>2. \A j \in 1 .. 4 : j \in 1 .. Sent /\ Place(j) = Standard + j - 1 /\ Goal(ram, j) = ram[Standard + j - 1]
        BY <3>1, PlaceFacts DEF Goal
      <4>3. \A j \in 1 .. 4 : eeprom[Standard + j - 1] = ram[Standard + j - 1]
        BY <4>1, <4>2, <1>6, VideoDone
      <4>4. Part(eeprom, Standard, 4) = Part(ram, Standard, 4)
        BY <4>3 DEF Part
      <4> QED
        BY <4>4, <2>1
    <3> HIDE DEF Hit
    <3> QED
      BY <2>3, <3>1, <3>3, <3>4, NoVideoDamage
  <2> QED
    BY <2>4, <2>5
<1> QED
  BY <1>5, <1>6 DEF DInv, TaskInv

\* A byte is read and stored.
LEMMA ReadDamage ==
    ASSUME SInv, DInv, SInv', pc \in Working, cur.rw = "R", Advance, NEW b, Store(b),
           UNCHANGED flight
    PROVE  DInv'
<1>1. TypeOK /\ TodoInv /\ todo # <<>> /\ On /\ eeprom' = eeprom
  BY DEF SInv, TypeOK, PC, Working, On, Store
<1>2. \A i \in Pending' : i + 1 \in Pending /\ todo'[i] = todo[i + 1]
  BY <1>1, CurFacts DEF Advance, TypeOK, Pending
<1>3. ~InVideo
  BY <1>1, VideoCur
<1>4. NoVideo'
  BY <1>2, <1>3 DEF DInv, TaskInv, NoVideo
<1>5. ~Late'
  BY <1>1 DEF SInv, FlightInv, Writes, Late
<1>6. (faults' <= 1 => faults <= 1) /\ (faults' = 0 => faults = 0)
  BY <1>1 DEF Store, CountFault, TypeOK, MaxFaults
<1>7. faults' <= 1 => Safe(eeprom') /\ (faults' = 0 => Part(eeprom', Standard, 4) \in Standards)
  BY <1>1, <1>3, <1>6 DEF DInv, RestInv
<1> QED
  BY <1>4, <1>5, <1>7, NoVideoDamage

\* The end of an operation.
LEMMA ReturnDamage ==
    ASSUME SInv, DInv, SInv', WriteReturns \/ Fetch \/ GiveUp
    PROVE  DInv'
<1> USE DEF KeepsBus, KeepsRest, bus
<1>1. todo # <<>> /\ pc \in Working /\ cur.rw \in {"R", "W"}
  <2>1. pc \in {"poll", "fetch"}
    BY DEF WriteReturns, Fetch, GiveUp, Failed
  <2>2. todo # <<>> /\ pc \in Working
    BY <2>1 DEF SInv, TypeOK, PC, Working
  <2> QED
    BY <2>2, CurKind DEF SInv
<1>2. CASE WriteReturns
  BY <1>1, <1>2, WriteDamage DEF WriteReturns
<1>3. CASE Fetch
  <2>1. cur.rw = "R"
    BY <1>3 DEF SInv, HwInv, Fetch
  <2> QED
    BY <1>1, <1>3, <2>1, ReadDamage DEF Fetch
<1>4. CASE GiveUp /\ cur.rw = "R"
  BY <1>1, <1>4, ReadDamage DEF GiveUp
<1>5. CASE GiveUp /\ cur.rw # "R"
  BY <1>1, <1>5, WriteDamage DEF GiveUp
<1> QED
  BY <1>2, <1>3, <1>4, <1>5

\* A task that begins when main is idle and writes nothing of the section.
LEMMA OtherTask ==
    ASSUME SInv, DInv, SInv', NEW r, NEW t, Update(r, t),
           \A i \in 1 .. Len(t) : t[i].dev = "eeprom" => t[i].reg \notin VideoAddr
    PROVE  DInv'
<1> USE DEF KeepsBus, bus, history
<1>1. /\ pc = "idle" /\ pc' = "spin" /\ todo' = t
      /\ UNCHANGED <<eeprom, flight, faults>>
  BY DEF Update
<1>2. ~InVideo
  BY <1>1 DEF SInv, TodoInv, InVideo
<1>3. NoVideo'
  BY <1>1 DEF NoVideo, Pending, Writes
<1>4. Late' => Late
  BY <1>1 DEF Late, On, Working
<1> QED
  BY <1>1, <1>2, <1>3, <1>4, NoVideoDamage DEF DInv, TaskInv, RestInv

\* SetWidescreen and the power commands are such tasks.
LEMMA OtherDamage ==
    ASSUME SInv, DInv, SInv', SetWidescreen \/ PowerOff
    PROVE  DInv'
<1>1. CASE PowerOff
  <2>1. PICK b \in PowerCommands : Update(ram, <<Write("pic", PowerReg, b)>>)
    BY <1>1 DEF PowerOff
  <2> DEFINE o == Write("pic", PowerReg, b)
             t == <<o>>
  <2>2. o.dev = "pic"
    BY DEF Write
  <2> HIDE DEF o
  <2>3. Len(t) = 1 /\ t[1] = o /\ \A i \in 1 .. 1 : i = 1
    OBVIOUS
  <2>4. Update(ram, t)
    BY <2>1 DEF o
  <2> HIDE DEF t
  <2>5. \A i \in 1 .. Len(t) : t[i].dev = "pic"
    BY <2>2, <2>3
  <2> QED
    BY <2>4, <2>5, OtherTask
<1>2. CASE SetWidescreen
  <2> DEFINE v == 1 - (ram[Widescreen] % 2)
             b == <<v>>
             r == Patch(ram, Widescreen, b)
             c == UserSum(r)
             t == WriteBoth(Widescreen, b, Checksum3, c)
  <2>1. Update(r, t)
    BY <1>2 DEF SetWidescreen, WriteBoth
  <2>2. Widescreen \in Nat /\ Checksum3 \in Nat /\ Widescreen \in Addr /\ ram \in [Addr -> Byte]
    <3>1. Widescreen \in Nat /\ Checksum3 \in Nat /\ Widescreen \in Addr
      BY Layout
    <3> QED
      BY <3>1 DEF SInv, TypeOK
  <2>3. v \in Byte
    <3>1. ram[Widescreen] \in Nat
      BY <2>2, ByteFacts
    <3>2. \A x \in Nat : 1 - (x % 2) \in {0, 1}
      OBVIOUS
    <3>3. 0 \in Byte /\ 1 \in Byte
      BY DEF Byte
    <3> QED
      BY <3>1, <3>2, <3>3
  <2> HIDE DEF v
  <2>4. b \in Seq(Byte) /\ Len(b) = 1
    BY <2>3
  <2>5. r \in [Addr -> Byte]
    BY <2>2, <2>4, PatchType
  <2>6. c \in Seq(Byte) /\ Len(c) = 4
    BY <2>5, SumType
  <2>7. \A i \in 1 .. 4 : Checksum3 + i - 1 \in Addr \ VideoAddr
    BY Layout DEF VideoAddr
  <2>8. \A i \in 1 .. 1 : Widescreen + i - 1 \in Addr \ VideoAddr
    BY Layout DEF VideoAddr
  <2> HIDE DEF r, c, b
  <2>9. JustWrites(t, Widescreen, b, Checksum3, c)
    BY <2>2, <2>4, <2>6, <2>7, <2>8, JoinedWrites
  <2> HIDE DEF t
  <2>10. ASSUME NEW i \in 1 .. Len(t) PROVE t[i].reg \notin VideoAddr
    <3>1. CASE \E j \in 1 .. 1 : t[i] = Write("eeprom", Widescreen + j - 1, b[j])
      BY <3>1, <2>8 DEF Write
    <3>2. CASE \E j \in 1 .. 4 : t[i] = Write("eeprom", Checksum3 + j - 1, c[j])
      BY <3>2, <2>7 DEF Write
    <3> QED
      BY <3>1, <3>2, <2>4, <2>6, <2>9 DEF JustWrites
  <2> QED
    BY <2>1, <2>10, OtherTask
<1> QED
  BY <1>1, <1>2

\* SetVideoStandard begins: all eight writes are pending.
LEMMA StandardDamage ==
    ASSUME SInv, DInv, SInv', SetVideoStandard
    PROVE  DInv'
<1> DEFINE b == NextStandard
           r == Patch(ram, Standard, b)
           c == VideoSum(r)
           u == WriteAll(Standard, b)
           w == WriteAll(Checksum2, c)
           t == u \o w
<1>1. Update(r, t)
  BY DEF SetVideoStandard
<1>2. b \in Standards
  BY DEF NextStandard, Standards
<1>3. b \in Seq(Byte) /\ Len(b) = 4
  BY <1>2, StandardsType
<1> HIDE DEF b
<1>4. /\ Standard \in Nat /\ Checksum2 \in Nat /\ Standard \in Addr /\ Standard + 3 \in Addr
      /\ \A i \in 1 .. 4 : Standard + i - 1 \in Addr /\ Checksum2 + i - 1 \in Addr
  BY Layout
<1>5. TypeOK /\ eeprom \in [Addr -> Byte] /\ ram \in [Addr -> Byte]
  BY DEF SInv, TypeOK
<1>6. r \in [Addr -> Byte] /\ \A i \in 1 .. 4 : r[Standard + i - 1] = b[i]
  BY <1>3, <1>4, <1>5, PatchType, PatchedSum
<1> HIDE DEF r
<1>7. c \in Seq(Byte) /\ Len(c) = 4
  BY <1>6, SumType
<1>8. c = VideoSum(r)
  OBVIOUS
<1> HIDE DEF c
<1>9. /\ u \in Seq(Transfers) /\ Len(u) = 4
      /\ \A i \in 1 .. 4 : u[i] = Write("eeprom", Standard + i - 1, b[i])
  BY <1>3, <1>4, WriteAllType
<1>10. /\ w \in Seq(Transfers) /\ Len(w) = 4
       /\ \A i \in 1 .. 4 : w[i] = Write("eeprom", Checksum2 + i - 1, c[i])
  BY <1>4, <1>7, WriteAllType
<1> HIDE DEF u, w
<1>11. /\ t \in Seq(Transfers) /\ Len(t) = 8
       /\ \A i \in 1 .. 8 : t[i] = IF i <= 4 THEN u[i] ELSE w[i - 4]
  <2>1. Len(t) = Len(u) + Len(w) /\ t \in Seq(Transfers)
    BY <1>9, <1>10, ConcatProperties
  <2>2. \A i \in 1 .. (Len(u) + Len(w)) : t[i] = IF i <= Len(u) THEN u[i] ELSE w[i - Len(u)]
    BY <1>9, <1>10, ConcatProperties
  <2>3. Len(u) + Len(w) = 8
    BY <1>9, <1>10
  <2> HIDE DEF t
  <2> QED
    BY <2>1, <2>2, <2>3, <1>9
<1> HIDE DEF t
<1>12. /\ pc = "idle" /\ pc' = "spin" /\ todo' = t /\ ram' = r
       /\ UNCHANGED <<eeprom, flight, faults>>
  BY <1>1 DEF Update, KeepsBus, bus, history
<1>13. Sent' = 0 /\ Len(todo') = 8 /\ Len(todo') <= 8 /\ todo' # <<>>
  <2>1. Len(todo') = 8
    BY <1>11, <1>12
  <2>2. 8 - 8 = 0 /\ 8 <= 8 /\ Len(<<>>) # 8
    OBVIOUS
  <2> QED
    BY <2>1, <2>2 DEF Sent
<1>14. InVideo'
  <2>1. ASSUME NEW i \in 1 .. 8 PROVE t[i] = Write("eeprom", Place(i), Goal(r, i))
    <3>1. CASE i <= 4
      <4>1. i \in 1 .. 4
        BY <3>1
      <4>2. t[i] = Write("eeprom", Standard + i - 1, b[i])
        BY <4>1, <3>1, <1>9, <1>11
      <4>3. Place(i) = Standard + i - 1 /\ Goal(r, i) = b[i]
        BY <4>1, <3>1, <1>6 DEF Place, Goal
      <4> QED
        BY <4>2, <4>3
    <3>2. CASE ~(i <= 4)
      <4>1. i \in 5 .. 8 /\ i - 4 \in 1 .. 4
        BY <3>2
      <4>2. t[i] = Write("eeprom", Checksum2 + (i - 4) - 1, c[i - 4])
        BY <4>1, <3>2, <1>10, <1>11
      <4>3. Checksum2 + (i - 4) - 1 = Checksum2 + i - 5
        BY <1>4, <4>1
      <4>4. Place(i) = Checksum2 + i - 5 /\ Goal(r, i) = c[i - 4]
        BY <3>2, <1>8 DEF Place, Goal
      <4> QED
        BY <4>2, <4>3, <4>4
    <3> QED
      BY <3>1, <3>2
  <2>2. Pending' = 1 .. 8
    BY <1>13 DEF Pending
  <2>3. \A i \in 1 .. 8 : 0 + i = i
    OBVIOUS
  <2>4. \A i \in Pending' : todo'[i] = Write("eeprom", Place(Sent' + i), Goal(ram', Sent' + i))
    BY <2>1, <2>2, <2>3, <1>12, <1>13
  <2> QED
    BY <2>4, <1>13 DEF InVideo
<1>15. ~InVideo
  BY <1>12 DEF SInv, TodoInv, InVideo
<1>16. (Late' => Late) /\ On'
  BY <1>12 DEF Late, On, Working
<1>17. Part(ram', Standard, 4) \in Standards
  <2>1. \A i \in 1 .. 4 : r[Standard + i - 1] = b[i]
    BY <1>6
  <2>2. b = [i \in 1 .. 4 |-> b[i]]
    BY <1>3
  <2>3. Part(r, Standard, 4) = b
    BY <2>1, <2>2 DEF Part
  <2> QED
    BY <2>3, <1>2, <1>12
<1>18. TaskInv'
  BY <1>12, <1>14, <1>16, <1>17 DEF DInv, TaskInv
<1>19. ASSUME faults <= 1 PROVE RestInv' /\ MidwayInv'
  <2>1. Checksum2 \in Addr /\ Checksum2 \notin StandardAddr
    BY PlaceFacts
  <2>2. \A j \in 1 .. 0 : FALSE
    OBVIOUS
  <2>3. FaultAt(Checksum2)'
    BY <2>1, <2>2, <1>13 DEF FaultAt
  <2>4. ASSUME faults = 0 PROVE \E s \in Standards : OldSum(s)'
    <3>1. PICK s \in Standards : s = Part(eeprom, Standard, 4)
      BY <2>4, <1>15, <1>19 DEF DInv, RestInv
    <3>2. s \in Seq(Byte) /\ Len(s) = 4 /\ s[4] = 0
      BY <3>1, StandardsType, StandardsZero
    <3>3. \A i \in 1 .. 4 : s[i] = eeprom[Standard + i - 1]
      BY <3>1 DEF Part
    <3>4. Patch(eeprom, Standard, s) = eeprom
      <4>1. /\ \A i \in 1 .. 4 : Patch(eeprom, Standard, s)[Standard + i - 1] = eeprom[Standard + i - 1]
            /\ \A a \in Addr \ Checksum(Standard) : Patch(eeprom, Standard, s)[a] = eeprom[a]
        BY <3>2, <3>3, <1>4, <1>5, PatchedSum
      <4>2. \A a \in Checksum(Standard) : a - Standard + 1 \in 1 .. 4 /\ a = Standard + (a - Standard + 1) - 1
        BY <1>4 DEF Checksum
      <4>3. \A a \in Addr : Patch(eeprom, Standard, s)[a] = eeprom[a]
        BY <4>1, <4>2
      <4>4. Patch(eeprom, Standard, s) \in [Addr -> Byte]
        BY <3>2, <1>4, <1>5, PatchType
      <4> QED
        BY <4>3, <4>4, <1>5
    <3>5. VideoConsistent(eeprom)
      BY <2>4, <1>12, IdleSettings DEF SInv
    <3>6. eeprom[Standard + 3] = 0
      <4>1. s[4] = eeprom[Standard + 4 - 1] /\ Standard + 4 - 1 = Standard + 3
        BY <3>3, <1>4
      <4> QED
        BY <4>1, <3>2
    <3>7. OldSum(s)'
      BY <3>4, <3>5, <3>6, <1>12 DEF OldSum
    <3> QED
      BY <3>1, <3>7
  <2> QED
    BY <2>1, <2>3, <2>4, <1>12, <1>14, <1>16 DEF RestInv, MidwayInv
<1> QED
  BY <1>12, <1>18, <1>19 DEF DInv

\* A transfer ends.  A write main is in goes to a byte that is pending; a late
\* one goes where the fault was already, or changes nothing.
LEMMA CompleteDamage ==
    ASSUME SInv, DInv, SInv', Complete
    PROVE  DInv'
<1> DEFINE Down == /\ flight.rw = "W" /\ flight.dev = "pic" /\ flight.reg = PowerReg
                   /\ flight.val \in PowerCommands
           Stores == flight.rw = "W" /\ flight.dev = "eeprom"
<1>1. /\ UNCHANGED <<todo, ram, faults>> /\ flight' = NoTransfer /\ On
      /\ pc' = IF Down THEN "off" ELSE pc
      /\ eeprom' = IF Stores /\ flight.reg \in Addr THEN [eeprom EXCEPT ![flight.reg] = flight.val]
                   ELSE eeprom
  BY DEF Complete
<1>2. ~Late' /\ Pending' = Pending /\ Sent' = Sent
  BY <1>1, NoTransferFacts DEF Late, Pending, Sent
<1>3. TypeOK /\ eeprom \in [Addr -> Byte] /\ flight \in Transfers
  BY DEF SInv, TypeOK
<1>4. ASSUME Stores
      PROVE  /\ flight.reg \in Addr /\ eeprom' = [eeprom EXCEPT ![flight.reg] = flight.val]
             /\ pc \in Working => todo # <<>> /\ Writes(cur, flight.reg) /\ flight.reg = cur.reg
             /\ pc \notin Working => Late /\ (faults = 0 => eeprom' = eeprom)
  <2>1. flight.reg \in Addr
    BY <1>1, <1>4 DEF SInv, FlightInv
  <2>2. eeprom' = [eeprom EXCEPT ![flight.reg] = flight.val]
    BY <2>1, <1>1, <1>4
  <2>3. ASSUME pc \in Working PROVE todo # <<>> /\ Writes(cur, flight.reg) /\ flight.reg = cur.reg
    <3>1. Writes(cur, flight.reg)
      BY <2>3, <1>1, <1>4 DEF SInv, FlightInv
    <3> QED
      BY <3>1, <2>3, <1>3 DEF TypeOK, PC, Working, Writes
  <2>4. ASSUME pc \notin Working PROVE Late /\ (faults = 0 => eeprom' = eeprom)
    <3>1. faults = 0 => eeprom[flight.reg] = flight.val
      BY <2>4, <1>1, <1>4 DEF SInv, FlightInv
    <3>2. Late
      BY <2>4, <1>1, <1>4 DEF Late
    <3> QED
      BY <3>1, <3>2, <2>1, <2>2, <1>3
  <2> QED
    BY <2>1, <2>2, <2>3, <2>4
<1>5. ~Stores => eeprom' = eeprom
  BY <1>1
<1>6. CASE NoVideo
  <2>1. ~InVideo /\ NoVideo'
    BY <1>1, <1>2, <1>3, <1>6, VideoCur DEF NoVideo
  <2>2. ASSUME faults <= 1
        PROVE  Safe(eeprom') /\ (faults = 0 => Part(eeprom', Standard, 4) \in Standards)
    <3>1. Safe(eeprom) /\ (faults = 0 => Part(eeprom, Standard, 4) \in Standards)
      BY <2>1, <2>2 DEF DInv, RestInv
    <3>2. CASE eeprom' = eeprom
      BY <3>1, <3>2
    <3>3. CASE Stores /\ flight.reg \notin VideoAddr
      <4>1. \A a \in VideoAddr : eeprom'[a] = eeprom[a]
        BY <3>3, <1>3, <1>4, PlaceFacts
      <4>2. \A i \in 1 .. 4 : Standard + i - 1 \in VideoAddr /\ Checksum2 + i - 1 \in VideoAddr
        BY Layout DEF VideoAddr
      <4>3. Part(eeprom', Standard, 4) = Part(eeprom, Standard, 4)
        BY <4>1, <4>2 DEF Part
      <4>4. Part(eeprom', Checksum2, 4) = Part(eeprom, Checksum2, 4)
        BY <4>1, <4>2 DEF Part
      <4>5. VideoSum(eeprom') = VideoSum(eeprom)
        <5>1. \A a \in Video .. (Video + VideoLen - 1) : a \in VideoAddr
          BY Layout DEF VideoAddr
        <5>2. eeprom' \in [Addr -> Byte]
          BY DEF SInv, TypeOK
        <5> QED
          BY <5>1, <5>2, <4>1, <1>3, SumOfSection
      <4>6. Known(eeprom') <=> Known(eeprom)
        <5>1. \A i \in 1 .. 3 : i \in 1 .. 4
          OBVIOUS
        <5>2. \A i \in 1 .. 3 : eeprom'[Standard + i - 1] = eeprom[Standard + i - 1]
          BY <5>1, <4>1, <4>2
        <5> QED
          BY <5>2 DEF Known
      <4> QED
        BY <3>1, <4>3, <4>4, <4>5, <4>6 DEF Safe, VideoConsistent
    <3>4. CASE Stores /\ flight.reg \in VideoAddr
      <4>1. pc \notin Working
        <5>1. pc \in Working => 1 \in Pending /\ Writes(todo[1], flight.reg)
          BY <3>4, <1>3, <1>4, CurFacts DEF TypeOK
        <5> QED
          BY <5>1, <3>4, <1>6 DEF NoVideo
      <4>2. Late /\ (faults = 0 => eeprom' = eeprom)
        BY <3>4, <4>1, <1>4
      <4>3. CASE eeprom[flight.reg] = flight.val
        <5>1. eeprom' = eeprom
          BY <3>4, <4>3, <1>3, <1>4
        <5> QED
          BY <5>1, <3>1
      <4>4. CASE flight.reg \in Checksum(Checksum2) /\ Known(eeprom)
        <5>1. \A i \in 1 .. 3 : Standard + i - 1 \in Addr /\ Standard + i - 1 \notin Checksum(Checksum2)
          BY Layout DEF Checksum
        <5>2. \A i \in 1 .. 3 : eeprom'[Standard + i - 1] = eeprom[Standard + i - 1]
          BY <5>1, <4>4, <3>4, <1>3, <1>4
        <5>3. Known(eeprom')
          BY <5>2, <4>4 DEF Known
        <5>4. faults = 0 => Part(eeprom', Standard, 4) \in Standards
          BY <4>2, <3>1
        <5> QED
          BY <5>3, <5>4 DEF Safe
      <4> QED
        BY <4>2, <4>3, <4>4, <3>4, <2>1, <2>2 DEF DInv, RestInv
    <3> QED
      BY <1>5, <3>2, <3>3, <3>4
  <2> QED
    BY <1>1, <1>2, <2>1, <2>2, NoVideoDamage
<1>7. CASE InVideo
  <2>1. /\ Sent \in 0 .. 7 /\ cur.dev = "eeprom" /\ cur.reg = Place(Sent + 1) /\ todo # <<>>
        /\ Sent + 1 \in 1 .. 8
        /\ \A j \in 1 .. Sent : j \in 1 .. 8 /\ Place(j) # cur.reg
    BY <1>3, <1>7, VideoCur DEF InVideo
  <2>2. InVideo'
    BY <1>1, <1>2, <1>7 DEF InVideo
  <2>3. pc # "halt" /\ pc' = pc /\ On'
    <3>1. pc # "halt"
      BY <2>1 DEF SInv, TodoInv
    <3>2. ~Down
      BY <3>1, <2>1, <1>1 DEF SInv, FlightInv
    <3> QED
      BY <3>1, <3>2, <1>1 DEF On
  <2>4. TaskInv'
    BY <1>1, <1>2, <1>7, <2>2 DEF DInv, TaskInv
  <2>5. ASSUME Stores PROVE flight.reg \notin SerialAddr
    <3>1. CASE pc \in Working
      BY <3>1, <2>1, <2>5, <1>4, PlaceFacts
    <3>2. CASE pc \notin Working
      BY <3>2, <2>5, <1>4 DEF DInv, TaskInv
    <3> QED
      BY <3>1, <3>2
  <2>6. \A a \in SerialAddr : eeprom'[a] = eeprom[a]
    <3>1. SerialAddr \subseteq Addr
      BY PlaceFacts DEF Data
    <3>2. CASE Stores
      BY <3>1, <3>2, <2>5, <1>3, <1>4
    <3> QED
      BY <3>2, <1>5
  <2>7. ASSUME faults <= 1 PROVE \E x \in Addr : FaultAt(x)'
    <3>1. PICK x \in Addr : FaultAt(x)
      BY <2>7, <1>1, <1>7 DEF DInv, MidwayInv
    <3>2. ASSUME NEW j \in 1 .. Sent, Place(j) # x PROVE eeprom'[Place(j)] = eeprom[Place(j)]
      <4>1. Place(j) \in Addr
        BY <2>1, PlaceFacts
      <4>2. ASSUME Stores PROVE Place(j) # flight.reg \/ eeprom[flight.reg] = flight.val
        <5>1. CASE pc \in Working
          BY <5>1, <4>2, <2>1, <1>4
        <5>2. CASE pc \notin Working
          BY <5>2, <4>2, <3>1, <3>2, <1>4 DEF FaultAt
        <5> QED
          BY <5>1, <5>2
      <4>3. CASE Stores
        BY <4>1, <4>2, <4>3, <1>3, <1>4
      <4> QED
        BY <4>3, <1>5
    <3>3. FaultAt(x)'
      BY <3>1, <3>2, <2>6, <1>1, <1>2 DEF FaultAt
    <3> QED
      BY <3>3
  <2>8. ASSUME faults = 0, Sent < 4 PROVE \E s \in Standards : OldSum(s)'
    <3>1. PICK s \in Standards : OldSum(s)
      BY <2>8, <1>1, <1>7 DEF DInv, MidwayInv
    <3>2. CASE eeprom' = eeprom
      BY <3>1, <3>2, <1>2 DEF OldSum
    <3>3. CASE eeprom' # eeprom
      <4>1. Stores /\ flight.reg = Place(Sent + 1) /\ flight.reg \in Addr
            /\ eeprom' = [eeprom EXCEPT ![flight.reg] = flight.val]
        BY <3>3, <2>1, <2>8, <1>4, <1>5
      <4>2. Sent + 1 \in 1 .. 4
        BY <2>1, <2>8
      <4>3. flight.reg = Standard + (Sent + 1) - 1 /\ flight.reg \in StandardAddr
        BY <4>1, <4>2, PlaceFacts
      <4>4. Patch(eeprom', Standard, s) = Patch(eeprom, Standard, s)
        <5>1. Len(s) = 4 /\ Standard \in Nat
          BY StandardsType, Layout
        <5>2. flight.reg \in Standard .. (Standard + Len(s) - 1)
          BY <4>3, <5>1 DEF StandardAddr
        <5>3. \A a \in Addr : a \notin Standard .. (Standard + Len(s) - 1) => eeprom'[a] = eeprom[a]
          BY <5>2, <4>1, <1>3
        <5> QED
          BY <5>3 DEF Patch
      <4>5. Sent = 0 => eeprom'[Standard + 3] = eeprom[Standard + 3]
        <5>1. Standard \in Nat /\ Standard + 3 \in Addr
          BY Layout
        <5>2. Sent = 0 => flight.reg # Standard + 3
          BY <4>3, <5>1
        <5> QED
          BY <5>1, <5>2, <4>1, <1>3
      <4>6. OldSum(s)'
        BY <3>1, <4>4, <4>5, <1>2 DEF OldSum
      <4> QED
        BY <4>6
    <3> QED
      BY <3>2, <3>3
  <2>9. faults <= 1 => RestInv' /\ MidwayInv'
    BY <1>1, <1>2, <2>2, <2>3, <2>7, <2>8 DEF RestInv, MidwayInv
  <2> QED
    BY <1>1, <2>4, <2>9 DEF DInv
<1> QED
  BY <1>6, <1>7 DEF DInv, TaskInv

\* Power is lost: if this is the first fault, the content is safe.
LEMMA PowerLossDamage ==
    ASSUME SInv, DInv, PowerLoss
    PROVE  DInv'
<1>1. pc' = "off" /\ On /\ ~On' /\ ~Late' /\ UNCHANGED <<todo, eeprom, ram>>
  BY DEF PowerLoss, On, Late
<1>2. (InVideo' <=> InVideo) /\ (NoVideo' <=> NoVideo)
  BY <1>1 DEF InVideo, NoVideo, Sent, Pending
<1>3. TaskInv'
  BY <1>1, <1>2 DEF DInv, TaskInv
<1>4. ASSUME faults' <= 1 PROVE RestInv' /\ MidwayInv'
  <2>1. faults <= 1 /\ (faults' = 0 => faults = 0) /\ (InVideo => faults = 0)
    <3>1. InVideo => todo # <<>> /\ cur.rw = "W" /\ cur.dev = "eeprom"
      BY VideoCur DEF SInv, InVideo
    <3> QED
      BY <3>1, <1>4 DEF PowerLoss, CountFault, SInv, TypeOK, MaxFaults
  <2>2. Safe(eeprom)
    <3>1. CASE InVideo
      BY <3>1, <2>1, <1>1, MidwaySafe DEF DInv
    <3>2. CASE ~InVideo
      BY <3>2, <2>1 DEF DInv, RestInv
    <3> QED
      BY <3>1, <3>2
  <2> QED
    BY <1>1, <1>2, <2>1, <2>2 DEF DInv, RestInv, MidwayInv
<1> QED
  BY <1>3, <1>4 DEF DInv

\* After a restart only reads are pending.
LEMMA RestartDamage ==
    ASSUME SInv, DInv, SInv', Restart
    PROVE  DInv'
<1>1. pc = "off" /\ ~On /\ todo' = ReadAll /\ flight' = NoTransfer /\ UNCHANGED <<eeprom, faults>>
  BY DEF Restart, Boot, On
<1>2. NoVideo'
  BY <1>1, ReadAllFacts DEF NoVideo, Pending, Writes
<1>3. ~Late'
  BY <1>1, NoTransferFacts DEF Late
<1>4. ASSUME faults = 0 PROVE ~InVideo
  <2>1. ~Writing \/ todo = <<>>
    BY <1>1, <1>4 DEF SInv, SettingsInv
  <2> QED
    BY <2>1, VideoCur DEF SInv, InVideo
<1>5. faults <= 1 => Safe(eeprom) /\ (faults = 0 => Part(eeprom, Standard, 4) \in Standards)
  BY <1>1, <1>4 DEF DInv, RestInv
<1> QED
  BY <1>1, <1>2, <1>3, <1>5, NoVideoDamage

\* A console leaves the factory with a known standard.
LEMMA FactoryStandard ==
    ASSUME NEW s \in Standards, NEW w \in {0, 1}
    PROVE  Part(Factory(s, w), Standard, 4) = s
<1> DEFINE bare == [a \in Addr |-> 0]
           first == Patch(bare, Video, Serial \o s)
           data == Patch(first, User, Append(UserHead, w))
           half == Patch(data, Checksum2, VideoSum(data))
           e == Patch(half, Checksum3, UserSum(data))
<1>1. s \in Seq(Byte) /\ Len(s) = 4
  BY StandardsType
<1>2. data \in [Addr -> Byte]
  <2>1. 0 \in Byte /\ w \in Byte
    BY DEF Byte
  <2>2. bare \in [Addr -> Byte]
    BY <2>1
  <2>3. Serial \o s \in Seq(Byte) /\ Append(UserHead, w) \in Seq(Byte)
    BY <2>1, <1>1, BusAssumption
  <2>4. Video \in Nat /\ User \in Nat
    BY Layout
  <2> HIDE DEF bare
  <2> QED
    BY <2>2, <2>3, <2>4, PatchType
<1>3. Len(VideoSum(data)) = 4 /\ Len(UserSum(data)) = 4
  BY <1>2, SumType
<1>4. ASSUME NEW i \in 1 .. 4 PROVE e[Standard + i - 1] = s[i]
  <2> DEFINE a == Standard + i - 1
             n == Len(Serial)
             h == Len(Serial \o s)
             k == Len(Append(UserHead, w))
  <2>1. /\ n \in Nat /\ a = 6 + n + i /\ a \in Addr /\ Video = 7 /\ User = 15 + n /\ Checksum2 = 3
        /\ Checksum3 = 11 + n
    BY Layout
  <2>2. h = n + 4 /\ (Serial \o s)[n + i] = s[i]
    <3>1. Serial \in Seq(Byte)
      BY BusAssumption
    <3>2. h = n + 4
      <4>1. Len(Serial \o s) = Len(Serial) + Len(s)
        BY <3>1, <1>1, ConcatProperties, Zenon
      <4> QED
        BY <4>1, <1>1
    <3>3. \A j \in 1 .. (Len(Serial) + Len(s)) :
             (Serial \o s)[j] = IF j <= Len(Serial) THEN Serial[j] ELSE s[j - Len(Serial)]
      BY <3>1, <1>1, ConcatProperties
    <3>4. n + i \in 1 .. (Len(Serial) + Len(s)) /\ ~(n + i <= Len(Serial)) /\ (n + i) - Len(Serial) = i
      BY <1>1, <2>1
    <3> QED
      BY <3>2, <3>3, <3>4
  <2>3. k \in Nat
    <3>1. UserHead \in Seq(Byte) /\ w \in Byte
      BY BusAssumption DEF Byte
    <3> QED
      BY <3>1
  <2> HIDE DEF a, n, h, k
  <2>4. first[a] = (Serial \o s)[a - Video + 1]
    <3>1. a \in Video .. (Video + h - 1)
      BY <2>1, <2>2
    <3> HIDE DEF bare
    <3> QED
      BY <3>1, <2>1, PatchAt DEF h
  <2>5. a - Video + 1 = n + i
    BY <2>1
  <2> HIDE DEF first
  <2>6. data[a] = first[a]
    <3>1. a \notin User .. (User + k - 1)
      BY <2>1, <2>3
    <3> QED
      BY <3>1, <2>1, PatchAt DEF k
  <2> HIDE DEF data
  <2>7. half[a] = data[a]
    <3>1. a \notin Checksum2 .. (Checksum2 + Len(VideoSum(data)) - 1)
      BY <2>1, <1>3
    <3> QED
      BY <3>1, <2>1, PatchAt
  <2> HIDE DEF half
  <2>8. e[a] = half[a]
    <3>1. a \notin Checksum3 .. (Checksum3 + Len(UserSum(data)) - 1)
      BY <2>1, <1>3
    <3> QED
      BY <3>1, <2>1, PatchAt
  <2> HIDE DEF e
  <2> QED
    BY <2>2, <2>4, <2>5, <2>6, <2>7, <2>8 DEF a
<1> HIDE DEF e
<1>5. Factory(s, w) = e
  BY DEF Factory, e, half, data, first
<1>6. s = [i \in 1 .. 4 |-> s[i]]
  BY <1>1
<1> QED
  BY <1>4, <1>5, <1>6 DEF Part

\* The invariant holds when the console is first switched on.
LEMMA InitDamage == Init => DInv
<1> SUFFICES ASSUME Init PROVE DInv
  OBVIOUS
<1>1. PICK s \in Settings : eeprom = Factory(s[1], s[2])
  BY DEF Init
<1>2. s[1] \in Standards /\ s[2] \in {0, 1}
  BY SettingsAssumption
<1>3. Part(eeprom, Standard, 4) \in Standards
  BY <1>1, <1>2, FactoryStandard
<1>4. todo = ReadAll /\ flight = NoTransfer
  BY DEF Init
<1>5. NoVideo /\ ~Late
  BY <1>4, ReadAllFacts, NoTransferFacts DEF NoVideo, Pending, Writes, Late
<1>6. ~InVideo
  BY <1>5, InitInv, VideoCur DEF SInv
<1>7. Safe(eeprom)
  BY <1>3, KnownStandard DEF Safe
<1> QED
  BY <1>3, <1>5, <1>6, <1>7 DEF DInv, TaskInv, RestInv, MidwayInv

\* Every step keeps it.
LEMMA NextDamage == SInv /\ DInv /\ [Next]_vars => DInv'
<1> SUFFICES ASSUME SInv, DInv, [Next]_vars PROVE DInv'
  OBVIOUS
<1>1. SInv'
  BY NextInv
<1>2. CASE UNCHANGED vars
  <2>1. UNCHANGED <<pc, todo, flight, eeprom, ram, faults>>
    BY <1>2 DEF vars, main, bus, history
  <2>2. (On <=> On') /\ (Late' => Late)
    BY <2>1 DEF On, Late
  <2> QED
    BY <2>1, <2>2, DamageKept
<1>3. CASE MainStep
  BY <1>1, <1>3, QuietDamage, ReturnDamage DEF MainStep
<1>4. CASE SetVideoStandard
  BY <1>1, <1>4, StandardDamage
<1>5. CASE SetWidescreen \/ PowerOff
  BY <1>1, <1>5, OtherDamage
<1>6. CASE Interrupt \/ Error
  BY <1>6, QuietDamage
<1>7. CASE Complete
  BY <1>1, <1>7, CompleteDamage
<1>8. CASE PowerLoss
  BY <1>8, PowerLossDamage
<1>9. CASE Restart
  BY <1>1, <1>9, RestartDamage
<1> QED
  BY <1>2, <1>3, <1>4, <1>5, <1>6, <1>7, <1>8, <1>9 DEF Next

\* Whatever single fault happens - a write lost or spoilt by the handler, a
\* byte misread at boot, power lost in the middle of SetVideoStandard - an
\* unknown video standard is never left behind under a checksum that fits.
THEOREM BusDamageDetected == Spec => []DamageIsDetected
<1>1. Init => DInv
  BY InitDamage
<1>2. SInv /\ DInv /\ [Next]_vars => DInv'
  BY NextDamage
<1>3. SInv /\ DInv => DamageIsDetected
  <2> SUFFICES ASSUME SInv, DInv, AtRest, faults <= 1, VideoConsistent(eeprom)
               PROVE  Known(eeprom)
    BY DEF DamageIsDetected
  <2>1. ~InVideo \/ ~On
    BY DEF AtRest, SInv, TodoInv, InVideo, On
  <2> QED
    BY <2>1 DEF DInv, RestInv, Safe
<1> QED
  BY <1>1, <1>2, <1>3, BusInvariance, PTL DEF Spec
=============================================================================
