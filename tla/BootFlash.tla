------------------------------ MODULE BootFlash ------------------------------
(***************************************************************************)
(* The flash engine: BootReflashAndReset (drivers/flash/BootFlashUi.c) and *)
(* the three functions of drivers/flash/BootFlash.c it drives:             *)
(* BootFlashGetDescriptor, BootFlashEraseMinimalRegion, BootFlashProgram.  *)
(*                                                                         *)
(* One step is one turn of one of the C loops: a byte that needs no work,  *)
(* or one command sequence sent to the chip and the wait for it.  The chip *)
(* itself is external.  It is modelled by what the code can observe of it: *)
(* which command set it answers, whether its identity is in the table of   *)
(* known chips, its length, its master lock, and what its content is after *)
(* a command.  A chip that is not `healthy' (no programming voltage, worn  *)
(* cells) may obey a command only in part, report an error, or stay busy:  *)
(* all waits of the code but the one after a 28xxx program command have no *)
(* limit, and turn for as long as the chip is `busy'.                      *)
(*                                                                         *)
(* A byte is the set of its bits that read 1, so that the erased byte 0xff *)
(* is the full set and programming can only remove elements.               *)
(***************************************************************************)
EXTENDS Integers, FiniteSets

CONSTANTS
    Bits,           \* the bits of a byte
    ChipLens,       \* the lengths m_dwLengthInBytes a chip may have
    StartOffset,    \* m_dwStartOffset
    Length,         \* m_dwLengthUsedArea
    BlockSize,      \* bytes in what the code calls a 4K block
    SectorSize      \* bytes the chip's block erase command clears

ASSUME LayoutAssumption ==
    /\ ChipLens \subseteq Nat \ {0}
    /\ StartOffset \in Nat
    /\ Length \in Nat \ {0}
    /\ BlockSize \in Nat \ {0}
    /\ SectorSize \in Nat \ {0}

Byte == SUBSET Bits
Erased == Bits                       \* 0xff
NoAddr == -1                         \* 0xffffffff
MaxTries == 4                        \* MAX_ERASE_RETRIES_IN_4KBLOCK_BEFORE_FAILING
End == StartOffset + Length

VARIABLES
    chip,       \* the external device: [cmds, listed, locked, len]
    healthy,    \* the device obeys every command it supports
    busy,       \* it is still busy with a command the code waits for
    flash,      \* its content
    pba,        \* pbNewData, the new image in RAM
    pc,         \* where BootReflashAndReset is
    f28,        \* m_fDetectedUsing28xxxConventions
    dw,         \* address under work in the erase or the program loop
    last,       \* dwLastEraseAddress, dwLastProgramAddress
    tries,      \* nCountEraseRetryIn4KBlock, nCountProgramRetries
    fMore,      \* no pass has succeeded yet
    rc,         \* result code, 0 while the function has not returned
    orig,       \* history: content of the flash at the call
    sent        \* history: erase commands this pass sent for each 4K block

chipVars == <<chip, healthy, pba, orig>>
loopVars == <<dw, last, tries>>
vars == <<chipVars, busy, flash, pc, f28, loopVars, fMore, rc, sent>>

Addr == 0 .. (chip.len - 1)
Region == StartOffset .. (End - 1)
BlockOf(a) == a \div BlockSize
Sector(a) == {x \in Addr : x \div SectorSize = a \div SectorSize}
Blocks == {BlockOf(a) : a \in Addr}

\* "28": Sharp command set.  "29": toggle-bit command set with a block erase.
\* "29chip": the same without a block erase (Winbond W49F020).
\* "none": no chip answers, the ID reads are plain data.
CommandSets == {"28", "29", "29chip", "none"}
Chips == [cmds : CommandSets, listed : BOOLEAN, locked : BOOLEAN, len : ChipLens]

PC == {"descriptor", "erase", "program", "verify", "failed", "countdown",
       "reset", "returned", "off"}

-----------------------------------------------------------------------------
Init ==
    /\ chip \in Chips
    /\ healthy \in BOOLEAN
    /\ busy = FALSE
    /\ flash \in [Addr -> Byte]
    /\ pba \in [0 .. (Length - 1) -> Byte]
    /\ pc = "descriptor"
    /\ f28 = FALSE
    /\ dw = 0
    /\ last = NoAddr
    /\ tries = 0
    /\ fMore = TRUE
    /\ rc = 0
    /\ orig = flash
    /\ sent = [b \in Blocks |-> 0]

\* The head of the loop of BootReflashAndReset: BootFlashEraseMinimalRegion
\* is called, resets its locals and announces EE_ERASE_START.
EnterErase ==
    /\ pc' = "erase"
    /\ dw' = StartOffset
    /\ last' = NoAddr
    /\ tries' = MaxTries
    /\ sent' = [b \in Blocks |-> 0]

Return(code) ==
    /\ rc' = code
    /\ pc' = "returned"
    /\ UNCHANGED <<loopVars, sent>>

\* The first probe uses the 28xxx commands, the second the 29xxx ones; a
\* chip that answers neither leaves the object marked as 29xxx.
Detected28 == chip.cmds = "28"

\* BootFlashGetDescriptor and the three sanity checks that follow it.
\* The master lock is looked at only on a 28xxx chip.
GetDescriptor ==
    /\ pc = "descriptor"
    /\ f28' = Detected28
    /\ \/ ~chip.listed /\ Return(1)
       \/ chip.listed /\ Detected28 /\ chip.locked /\ Return(2)
       \/ /\ chip.listed /\ ~(Detected28 /\ chip.locked)
          /\ chip.len < End
          /\ Return(3)
       \/ /\ chip.listed /\ ~(Detected28 /\ chip.locked)
          /\ chip.len >= End
          /\ EnterErase
          /\ UNCHANGED rc
    /\ UNCHANGED <<chipVars, busy, flash, fMore>>

-----------------------------------------------------------------------------
(* BootFlashEraseMinimalRegion *)

\* Mutant: the retry counter is tied to the byte, not to the 4K block.
SameByte == last # NoAddr /\ last = dw

\* (dwLastEraseAddress & 0xfffff000) == (dw & 0xfffff000)
SameBlock == last # NoAddr /\ BlockOf(last) = BlockOf(dw)

EraseTriesLeft == IF SameBlock THEN tries - 1 ELSE MaxTries

\* Mutant: the last byte of the region is not looked at.
EraseLoopShort == pc = "erase" /\ ~busy /\ dw < End - 1

\* while(dwLen) of the erase loop, the processor not being in a wait
EraseLoop == pc = "erase" /\ ~busy /\ dw < End

\* The function returns false after EE_ERASE_ERROR and EE_ERASE_END.
EraseReturnsFalse == pc' = "verify"

\* Mutant: an erased byte is taken to mean an erased sector.
EraseSkipSector ==
    /\ EraseLoop
    /\ flash[dw] = Erased
    /\ dw' = dw + SectorSize
    /\ UNCHANGED <<chipVars, busy, flash, pc, f28, last, tries, fMore, rc, sent>>

\* The byte reads 0xff: move on.
EraseSkip ==
    /\ EraseLoop
    /\ flash[dw] = Erased
    /\ dw' = dw + 1
    /\ UNCHANGED <<chipVars, busy, flash, pc, f28, last, tries, fMore, rc, sent>>

\* The 4K block has used up its tries.
EraseGiveUp ==
    /\ EraseLoop
    /\ flash[dw] # Erased
    /\ EraseTriesLeft = 0
    /\ tries' = 0
    /\ EraseReturnsFalse
    /\ UNCHANGED <<chipVars, busy, flash, f28, dw, last, fMore, rc, sent>>

\* What every erase attempt does before it sends its n erase commands.
EraseAttempt(n) ==
    /\ EraseLoop
    /\ flash[dw] # Erased
    /\ EraseTriesLeft # 0
    /\ tries' = EraseTriesLeft
    /\ last' = IF SameBlock THEN last ELSE dw
    /\ sent' = [sent EXCEPT ![BlockOf(dw)] = @ + n]

\* A wait without a limit: until the ready bit is set (28xxx) or bit 6 stops
\* toggling (29xxx).  It is over in the same step, unless the chip has trouble.
Wait == busy' \in {FALSE, ~healthy}

Clear(S) == flash' = [a \in Addr |-> IF a \in S THEN Erased ELSE flash[a]]

\* 28xxx: command 0x20, 0xd0, wait for ready, then b&0x7e of the status says
\* whether to fail at once or to read the byte again.
Erase28 ==
    /\ EraseAttempt(1)
    /\ f28
    /\ \E S \in SUBSET Sector(dw) :
          /\ healthy => S = Sector(dw)
          /\ Clear(S)
    /\ \/ Wait /\ UNCHANGED pc
       \/ ~healthy /\ EraseReturnsFalse /\ UNCHANGED busy
    /\ UNCHANGED <<chipVars, f28, dw, fMore, rc>>

\* 29xxx: block erase 0x50, or the 0x30 sent when 0x50 was not seen to do so,
\* made the chip busy.
Erase29Block ==
    /\ \E n \in 1 .. 2 : EraseAttempt(n)
    /\ ~f28
    /\ chip.cmds = "29"
    /\ \E S \in SUBSET Sector(dw) :
          /\ healthy => S = Sector(dw)
          /\ Clear(S)
    /\ Wait
    /\ UNCHANGED <<chipVars, pc, f28, dw, fMore, rc>>

\* Mutant: whole-chip erase without asking whether the whole chip is reflashed.
AnyChipEraseAllowed == EraseTriesLeft < 2 /\ StartOffset = 0

\* Mutant: whole-chip erase one try too late, when the code has given up.
LateChipEraseAllowed ==
    /\ EraseTriesLeft < 1
    /\ StartOffset = 0
    /\ Length = chip.len

\* The "safety features" in front of the chip erase command.
ChipEraseAllowed ==
    /\ EraseTriesLeft < 2
    /\ StartOffset = 0
    /\ Length = chip.len

\* 29xxx: neither block erase made the chip busy.  In the last try, and only
\* if all of the chip is being reflashed, command 0x10 erases the whole chip.
Erase29Ignored ==
    /\ ~f28
    /\ chip.cmds = "29" => ~healthy
    /\ \/ ~ChipEraseAllowed /\ EraseAttempt(2) /\ UNCHANGED <<flash, busy>>
       \/ /\ ChipEraseAllowed
          /\ EraseAttempt(3)
          /\ \E S \in SUBSET Addr :
                /\ chip.cmds = "none" => S = {}
                /\ chip.cmds = "29chip" /\ healthy => S = Addr
                /\ Clear(S)
          /\ Wait
          /\ chip.cmds = "none" => UNCHANGED busy
    /\ UNCHANGED <<chipVars, pc, f28, dw, fMore, rc>>

\* All bytes read 0xff: EE_ERASE_END, then BootFlashProgram is called and
\* announces EE_PROGRAM_START.
EraseDone ==
    /\ pc = "erase"
    /\ ~busy
    /\ ~EraseLoop
    /\ pc' = "program"
    /\ dw' = StartOffset
    /\ last' = NoAddr
    /\ tries' = MaxTries
    /\ UNCHANGED <<chipVars, busy, flash, f28, fMore, rc, sent>>

-----------------------------------------------------------------------------
(* BootFlashProgram.  dwSrc is dw - StartOffset. *)

Wanted == pba[dw - StartOffset]

\* Mutant: the retry counter starts afresh at every try.
ProgramTriesForever == MaxTries

ProgramTriesLeft == IF last = dw THEN tries - 1 ELSE MaxTries

\* while(dwLen) of the program loop
ProgramLoop == pc = "program" /\ ~busy /\ dw < End

\* The function returns false after EE_PROGRAM_ERROR and EE_PROGRAM_END.
ProgramReturnsFalse == pc' = "verify"

\* Mutant: the comparison that decides whether to advance is lost.
ProgramSkipAlways ==
    /\ ProgramLoop
    /\ dw' = dw + 1
    /\ UNCHANGED <<chipVars, busy, flash, pc, f28, last, tries, fMore, rc, sent>>

ProgramSkip ==
    /\ ProgramLoop
    /\ flash[dw] = Wanted
    /\ dw' = dw + 1
    /\ UNCHANGED <<chipVars, busy, flash, pc, f28, last, tries, fMore, rc, sent>>

ProgramGiveUp ==
    /\ ProgramLoop
    /\ flash[dw] # Wanted
    /\ ProgramTriesLeft = 0
    /\ tries' = 0
    /\ ProgramReturnsFalse
    /\ UNCHANGED <<chipVars, busy, flash, f28, dw, last, fMore, rc, sent>>

\* Programming clears the bits that are 0 in the wanted byte: all of them on
\* a healthy chip, some of them otherwise, none if no chip listens.
ProgramByte ==
    \E kept \in SUBSET (flash[dw] \ Wanted) :
        /\ chip.cmds = "none" => kept = flash[dw] \ Wanted
        /\ healthy /\ chip.cmds # "none" => kept = {}
        /\ flash' = [flash EXCEPT ![dw] = (@ \cap Wanted) \cup kept]

ProgramAttempt ==
    /\ ProgramLoop
    /\ flash[dw] # Wanted
    /\ ProgramTriesLeft # 0
    /\ tries' = ProgramTriesLeft
    /\ last' = dw
    /\ ProgramByte

\* 28xxx: command 0x40, then a status error or a time-out fails at once.
Program28 ==
    /\ ProgramAttempt
    /\ f28
    /\ \/ UNCHANGED pc
       \/ ~healthy /\ ProgramReturnsFalse
    /\ UNCHANGED <<chipVars, busy, f28, dw, fMore, rc, sent>>

\* 29xxx: command 0xa0, wait until bit 6 stops toggling.
Program29 ==
    /\ ProgramAttempt
    /\ ~f28
    /\ Wait
    /\ chip.cmds = "none" => UNCHANGED busy
    /\ UNCHANGED <<chipVars, pc, f28, dw, fMore, rc, sent>>

\* Returns true.  EE_PROGRAM_END is in the part that is commented out.
ProgramDone ==
    /\ pc = "program"
    /\ ~busy
    /\ ~ProgramLoop
    /\ pc' = "verify"
    /\ fMore' = FALSE
    /\ UNCHANGED <<chipVars, busy, flash, f28, loopVars, rc, sent>>

-----------------------------------------------------------------------------
(* The rest of BootReflashAndReset *)

\* The comparison starts at address 0 of the flash whatever StartOffset is.
VerifyMismatch == \E a \in 0 .. (Length - 1) : pba[a] # flash[a]

\* Mutant: every comparison overwrites the verdict, so the last byte decides.
VerifyLastByte ==
    /\ pc = "verify"
    /\ fMore' = (pba[Length - 1] # flash[Length - 1])
    /\ pc' = IF fMore' THEN "failed" ELSE "countdown"
    /\ UNCHANGED <<chipVars, busy, flash, f28, loopVars, rc, sent>>

Verify ==
    /\ pc = "verify"
    /\ fMore' = (fMore \/ VerifyMismatch)
    /\ pc' = IF fMore' THEN "failed" ELSE "countdown"
    /\ UNCHANGED <<chipVars, busy, flash, f28, loopVars, rc, sent>>

\* "Failed! Press A to retry."
PressA ==
    /\ pc = "failed"
    /\ EnterErase
    /\ UNCHANGED <<chipVars, busy, flash, f28, fMore, rc>>

\* Five seconds later the PIC is told to reset the console.
Reboot ==
    /\ pc = "countdown"
    /\ pc' = "reset"
    /\ UNCHANGED <<chipVars, busy, flash, f28, loopVars, fMore, rc, sent>>

\* The wait of the processor is over.  After a 28xxx erase the status may
\* still report an error.
ChipReady ==
    /\ busy
    /\ busy' = FALSE
    /\ \/ pc \in {"erase", "program"} /\ UNCHANGED pc
       \/ pc = "erase" /\ f28 /\ EraseReturnsFalse
    /\ UNCHANGED <<chipVars, flash, f28, loopVars, fMore, rc, sent>>

\* The environment: the power goes, or the chip's trouble ends.
PowerLoss ==
    /\ pc \notin {"reset", "returned", "off"}
    /\ pc' = "off"
    /\ UNCHANGED <<chipVars, busy, flash, f28, loopVars, fMore, rc, sent>>

Heal ==
    /\ ~healthy
    /\ pc \notin {"reset", "returned", "off"}
    /\ healthy' = TRUE
    /\ UNCHANGED <<chip, pba, orig, busy, flash, pc, f28, loopVars, fMore, rc, sent>>

Erase ==
    \/ EraseSkip \/ EraseGiveUp \/ Erase28
    \/ Erase29Block \/ Erase29Ignored \/ EraseDone

Program ==
    \/ ProgramSkip \/ ProgramGiveUp \/ Program28 \/ Program29 \/ ProgramDone

\* Every step the processor takes by itself.
Step == GetDescriptor \/ Erase \/ Program \/ Verify \/ Reboot

Next == Step \/ ChipReady \/ PressA \/ PowerLoss \/ Heal

Spec == Init /\ [][Next]_vars

\* The processor keeps running, a chip that works completes its command, and
\* the user who is asked to press A does.  Nothing is promised of a chip in
\* trouble: it may stay busy for ever.
FairSpec ==
    /\ Spec
    /\ WF_vars(Step)
    /\ WF_vars(healthy /\ ChipReady)
    /\ WF_vars(PressA)

-----------------------------------------------------------------------------
(* Properties *)

DataType ==
    /\ chip \in Chips
    /\ flash \in [Addr -> Byte]
    /\ orig \in [Addr -> Byte]
    /\ pba \in [0 .. (Length - 1) -> Byte]

FlagType ==
    /\ healthy \in BOOLEAN
    /\ busy \in BOOLEAN
    /\ f28 \in BOOLEAN
    /\ fMore \in BOOLEAN

LoopType ==
    /\ pc \in PC
    /\ dw \in 0 .. End
    /\ last \in {NoAddr} \cup Region
    /\ tries \in 0 .. MaxTries
    /\ rc \in 0 .. 3
    /\ sent \in [Blocks -> Nat]

\* All variables keep their types: in particular the address under work never
\* leaves the requested region and no retry counter goes below zero.
TypeOK ==
    /\ DataType
    /\ FlagType
    /\ LoopType

\* The region of the flash that was asked for holds the new image.
Complete ==
    /\ End <= chip.len
    /\ \A a \in 0 .. (Length - 1) : flash[StartOffset + a] = pba[a]

\* When BootFlashProgram has returned true, every byte of the region has the
\* value of the image: the verification that is commented out at the end of
\* BootFlashProgram would never have found anything.
ProgramEstablishesImage == pc = "verify" /\ ~fMore => Complete

\* The console is told to start the new BIOS only when all of the image is in
\* the flash, whatever the chip did to the commands before.
RebootsOnlyComplete == pc \in {"countdown", "reset"} => Complete

\* While bytes are programmed, no byte still to come has lost a bit the image
\* needs: BootFlashProgram never meets a byte that only another erase could
\* repair, because BootFlashEraseMinimalRegion looked at all of them.
ProgrammingCanSucceed ==
    pc = "program" =>
        \A a \in Region : a >= dw => pba[a - StartOffset] \subseteq flash[a]

\* A byte whose erase sector has no byte in the region keeps its value for
\* ever, the whole-chip erase of the last try included.
OutsideUntouched ==
    \A a \in Addr : Sector(a) \cap Region = {} => flash[a] = orig[a]

\* The erase commands one 4K block may cost: one each try on a 28xxx chip.  On
\* a 29xxx chip every try may send both block erases, and the last one the
\* chip erase too if the whole chip is reflashed.
MaxErases ==
    IF f28 THEN MaxTries
    ELSE 2 * MaxTries + (IF StartOffset = 0 /\ Length = chip.len THEN 1 ELSE 0)

\* In one pass no 4K block is sent more erase commands than its
\* MAX_ERASE_RETRIES_IN_4KBLOCK_BEFORE_FAILING tries have room for, however
\* its bytes resist: four on a 28xxx chip, eight or nine on a 29xxx one.
EraseWearBounded == \A b \in Blocks : sent[b] <= MaxErases

Flashing == {"erase", "program", "verify", "failed"}

Loops == pc \in {"erase", "program"}

\* What bounds a pass over the chip.  If the chip never stays busy for ever,
\* every pass comes to its verdict, whatever the chip does to its content.
\* And the wait of a 28xxx program command, the one with a limit, keeps its
\* loop from hanging whether the chip ends its commands or not.
PassEnds ==
    /\ []<>~busy => (Loops ~> ~Loops)
    /\ (pc = "program" /\ f28) ~> (pc # "program")

\* The chip has an erase command the code gets to use for this region.
Reflashable ==
    \/ chip.cmds \in {"28", "29"}
    \/ chip.cmds = "29chip" /\ StartOffset = 0 /\ Length = chip.len

\* Failed passes do no lasting harm: once the chip works and the user answers
\* "Press A to retry", the console reboots into the new image (or loses power).
RebootsOnceChipWorks ==
    (healthy /\ Reflashable /\ pc \in Flashing) ~> (pc \in {"reset", "off"})

\* The phase of Reflash each place in BootReflashAndReset belongs to.
AbsPhase ==
    CASE pc = "descriptor" -> "idle"
      [] pc \in Flashing -> "flashing"
      [] pc \in {"countdown", "reset"} -> "rebooting"
      [] pc = "returned" -> "refused"
      [] pc = "off" -> "off"

Abs == INSTANCE Reflash WITH
    phase <- AbsPhase, intact <- (flash = orig), complete <- Complete

\* Every behaviour of the flash engine is one of the abstract Reflash: it
\* returns only with the flash untouched and reboots only when it is complete.
ImplementsReflash == Abs!Spec
=============================================================================
