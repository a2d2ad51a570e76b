------------------------------- MODULE Loader -------------------------------
(***************************************************************************)
(* The second boot loader (boot_rom/2bBootStartBios.c) and its answer to   *)
(* the PIC's challenge (boot_rom/2bPicResponseAction.c): the loader checks *)
(* itself, answers the PIC, and tries the banks of the flash until one of  *)
(* them holds an image with the right hash, which it starts.               *)
(*                                                                         *)
(* The PIC is the environment: it resets a console that has not been       *)
(* answered.  It leaves enough time for the challenge itself, so it acts   *)
(* only when the loader has passed that point.  A transfer may end without *)
(* completion, MaxErrors times in all.                                     *)
(*                                                                         *)
(* Flash is read over a bus that may be marginal: a bank is "good", "bad"  *)
(* (no image, a damaged one) or "flaky" (some reads of it fail the hash).  *)
(* That two images do not share a hash is assumed.                         *)
(***************************************************************************)
EXTENDS Naturals, Sequences

CONSTANTS
    TriesPerBank,   \* 25
    Retries,        \* nRetriesToLive, 400
    MaxErrors       \* bound of the model: transfers that do not complete

ASSUME LoaderAssumption ==
    /\ TriesPerBank \in Nat \ {0}
    /\ Retries \in Nat \ {0}
    /\ MaxErrors \in Nat

VARIABLES
    flash,      \* [own, type, bank]: the loader's own copy, Biossize_type, the banks
    pc,         \* "check", "challenge", "load", "cromwell", "halt", "dead"
    transfer,   \* the transfer of the challenge under way
    lives,      \* nRetriesToLive
    received,   \* the response bytes the PIC has taken
    loadretry,
    flashbank,
    config,     \* the words left at 0x03A00020 for the image that is started
    loaded,     \* history: the bank whose content has been unpacked
    reads,      \* history: how often each bank has been read since the reset
    errors

vars == <<flash, pc, transfer, lives, received, loadretry, flashbank, config, loaded, reads, errors>>

Banks == 0 .. 3
Quality == {"good", "bad", "flaky"}
Nothing == 99

\* The four bytes of the challenge, and the two of the response.
Challenge == <<"0x1c", "0x1d", "0x1e", "0x1f", "low", "high">>
IsRead(i) == i <= 4
Response == {"low", "high"}
Answered == received = Response

\* What comes up after a reset: the flash is as it was, all else is lost.
Reset ==
    /\ pc' = "check"
    /\ transfer' = 1
    /\ lives' = Retries
    /\ received' = {}
    /\ loadretry' = 0
    /\ flashbank' = 3
    /\ config' = [cromloadtry |-> 0, flashbank |-> 0]
    /\ loaded' = Nothing
    /\ reads' = [b \in Banks |-> 0]

Init ==
    /\ flash \in [own : Quality, type : 0 .. 2, bank : [Banks -> Quality]]
    /\ pc = "check"
    /\ transfer = 1
    /\ lives = Retries
    /\ received = {}
    /\ loadretry = 0
    /\ flashbank = 3
    /\ config = [cromloadtry |-> 0, flashbank |-> 0]
    /\ loaded = Nothing
    /\ reads = [b \in Banks |-> 0]
    /\ errors = 0

\* Whether one reading of content of quality q may give the right hash.
MayMatch(q) == q \in {"good", "flaky"}
MayDiffer(q) == q \in {"bad", "flaky"}

-----------------------------------------------------------------------------
(* The loader checks itself.                                               *)

CheckSelf ==
    /\ pc = "check"
    /\ \/ MayMatch(flash.own) /\ pc' = "challenge"
       \/ MayDiffer(flash.own) /\ pc' = "dead"
    /\ UNCHANGED <<flash, transfer, lives, received, loadretry, flashbank, config, loaded, reads, errors>>

-----------------------------------------------------------------------------
(* BootPerformPicChallengeResponseAction.  A read that fails ends it, a    *)
(* write that fails does not; the caller goes on in any case.              *)

\* Mutant of ToNext: the second byte of the response is not sent.
ToNextShort ==
    /\ transfer' = transfer + 1
    /\ lives' = Retries
    /\ pc' = IF transfer = Len(Challenge) - 1 THEN "load" ELSE "challenge"

ToNext ==
    /\ transfer' = transfer + 1
    /\ lives' = Retries
    /\ pc' = IF transfer = Len(Challenge) THEN "load" ELSE "challenge"

\* After a read that failed the rest of the challenge is left out.
Return == pc' = "load" /\ UNCHANGED <<transfer, lives>>

GiveUp == IF IsRead(transfer) THEN Return ELSE ToNext

TransferCompletes ==
    /\ pc = "challenge"
    /\ ToNext
    /\ received' = IF IsRead(transfer) THEN received ELSE received \union {Challenge[transfer]}
    /\ UNCHANGED <<flash, loadretry, flashbank, config, loaded, reads, errors>>

TransferFails ==
    /\ pc = "challenge"
    /\ errors < MaxErrors
    /\ errors' = errors + 1
    /\ IF lives > 1 THEN lives' = lives - 1 /\ UNCHANGED <<pc, transfer>> ELSE GiveUp
    /\ UNCHANGED <<flash, received, loadretry, flashbank, config, loaded, reads>>

-----------------------------------------------------------------------------
(* The search for an image.                                                *)

Order == <<1, 2, 0, 3>>
Tries == Len(Order) * TriesPerBank

\* Mutant of BankOf: the switch lacks its first case.
BankOfNoFirst(n, b) ==
    CASE flash.type = 0 -> 3
      [] flash.type = 1 /\ n > 0 /\ n % TriesPerBank = 0 -> Order[n \div TriesPerBank + 1]
      [] OTHER -> b

\* The bank of try n, the previous one having read bank b.
BankOf(n, b) ==
    CASE flash.type = 0 -> 3
      [] flash.type = 1 /\ n % TriesPerBank = 0 -> Order[n \div TriesPerBank + 1]
      [] OTHER -> b

LoadMatches ==
    /\ pc = "load"
    /\ loadretry < Tries
    /\ LET b == BankOf(loadretry, flashbank) IN
         /\ MayMatch(flash.bank[b])
         /\ loaded' = b
         /\ reads' = [reads EXCEPT ![b] = @ + 1]
         /\ flashbank' = b + 1
         /\ config' = [cromloadtry |-> 1, flashbank |-> b + 1]
    /\ pc' = "cromwell"
    /\ UNCHANGED <<flash, transfer, lives, received, loadretry, errors>>

LoadDiffers ==
    /\ pc = "load"
    /\ loadretry < Tries
    /\ flashbank' = BankOf(loadretry, flashbank)
    /\ MayDiffer(flash.bank[flashbank'])
    /\ reads' = [reads EXCEPT ![flashbank'] = @ + 1]
    /\ loadretry' = loadretry + 1
    /\ UNCHANGED <<flash, pc, transfer, lives, received, config, loaded, errors>>

NoImage ==
    /\ pc = "load"
    /\ loadretry = Tries
    /\ pc' = "halt"
    /\ UNCHANGED <<flash, transfer, lives, received, loadretry, flashbank, config, loaded, reads, errors>>

-----------------------------------------------------------------------------
(* External.                                                               *)

PicResets ==
    /\ pc \in {"load", "cromwell", "halt", "dead"}
    /\ ~Answered
    /\ Reset
    /\ UNCHANGED <<flash, errors>>

Step == \/ CheckSelf \/ TransferCompletes \/ TransferFails
        \/ LoadMatches \/ LoadDiffers \/ NoImage

Next == Step \/ PicResets

Spec == Init /\ [][Next]_vars /\ WF_vars(Step) /\ WF_vars(PicResets)

-----------------------------------------------------------------------------
(* Properties.                                                             *)

\* The banks an image of this type may be in, the preferred one first.
Candidates == IF flash.type = 1 THEN <<1, 2, 0, 3>> ELSE <<3>>
Share == Tries \div Len(Candidates)
Exhausted(b) == reads[b] = Share /\ flash.bank[b] # "good"

\* The banks are tried fairly and in order (2bBootStartBios.c, the loop over
\* loadretry): what is started is the content of the bank reported to it, not
\* a bad one, and every bank preferred to it had all of its tries and failed
\* them; the loader stops only when that is so of every bank it may use.
FirstGoodBankStarts ==
    /\ pc = "cromwell" =>
         \E i \in 1 .. Len(Candidates) :
            /\ loaded = Candidates[i]
            /\ config.flashbank = loaded + 1
            /\ flash.bank[loaded] # "bad"
            /\ reads[loaded] \in 1 .. Share
            /\ \A j \in 1 .. i - 1 : Exhausted(Candidates[j])
    /\ pc = "halt" => \A i \in 1 .. Len(Candidates) : Exhausted(Candidates[i])

\* A console whose loader is sound and that has a good image in a bank the
\* loader may use comes up and stays up, although a challenge may fail for a
\* noisy bus with nobody looking at the result (the call in
\* BootStartBiosLoader): the PIC's reset is what tries it again.
ComesUp ==
    (flash.own = "good" /\ \E i \in 1 .. Len(Candidates) : flash.bank[Candidates[i]] = "good")
        => <>[](pc = "cromwell" /\ Answered)
=============================================================================
