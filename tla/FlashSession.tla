----------------------------- MODULE FlashSession -----------------------------
(***************************************************************************)
(* Flashing from a CD: FlashBiosFromCD, FlashBiosFromCD2, UpdateFlashFromCD *)
(* (menu/actions/FlashMenuActions.c), BootLoadFlashCD, BootLoadUpdateFlash *)
(* (boot/LoadLinux.c) and BootIso9660GetFile (fs/cdrom/iso9660.c), on top  *)
(* of BootReflashAndReset as Reflash specifies it.                         *)
(*                                                                         *)
(* The file on a disc is told apart by its size and by `odd': the limit    *)
(* read_file is given is compared with the lowest byte of the size only,   *)
(* and if that is 0x10 or more the length may be read from a stray         *)
(* address.  The user may change the disc at any time before the flash is  *)
(* touched, in the middle of a load too.  Any sector may fail to read: if  *)
(* the drive refuses the command the failure is ignored, if it stays busy  *)
(* or the data do not come BootIdeReadSector waits without limit.          *)
(***************************************************************************)
EXTENDS Integers, FiniteSets

CONSTANTS
    Discs,      \* discs the user has
    File,       \* the file on a disc: [size, odd], or NoFile
    Tries       \* probes before the tray is opened: 16

NoDisc == "empty drive"
NoFile == [size |-> 0, odd |-> FALSE]

\* File sizes in units of 256 KB; a size of 3 stands for every other one.
Sizes == 1 .. 3
Missing == -1

ASSUME SessionAssumption ==
    /\ NoDisc \notin Discs
    /\ File \in [Discs -> [size : 0 .. 3, odd : BOOLEAN]]
    /\ \A d \in Discs : File[d].odd => File[d].size = 3
    /\ Tries \in Nat \ {0}

Jobs == {"bankA", "bankB", "update"}

VARIABLES
    job,        \* the menu entry that was chosen
    disc,       \* what is in the drive
    pc,         \* where BootLoadFlashCD or BootLoadUpdateFlash is
    n,          \* probes so far
    io,         \* the call of BootIso9660GetFile
    whole,      \* the disc was not changed since that call began
    got,        \* dwConfigSize
    image,      \* what is at KERNEL_PM_CODE: [of, sound]
    phase, intact, complete     \* the flash, see Reflash

ioVars == <<io, whole>>
fileVars == <<got, image>>
flashVars == <<phase, intact, complete>>
vars == <<job, disc, pc, n, ioVars, fileVars, flashVars>>

Flash == INSTANCE Reflash

\* ExpectedFileSize; 256*1024 for the update.
Expected == IF job = "bankB" THEN 2 ELSE 1

NoImage == [of |-> NoDisc, sound |-> FALSE]

\* A menu entry is chosen: port 0x1912 selects the bank, the tray is closed.
Init ==
    /\ job \in Jobs
    /\ disc \in Discs \cup {NoDisc}
    /\ pc = "probe"
    /\ n = 0
    /\ io = "idle"
    /\ whole = TRUE
    /\ got = 0
    /\ image = NoImage
    /\ Flash!Init

\* What BootIso9660GetFile returns and leaves in memory.  It returns -1 without
\* touching the memory if the disc cannot be read or has no such file.
NotFound == {[ret |-> Missing, image |-> image]}

\* read_file returns the size; failed sector reads are not noticed.
WholeFile ==
    {[ret |-> File[disc].size, image |-> [of |-> disc, sound |-> ok]] : ok \in BOOLEAN}

\* read_file takes the length from a stray address and returns that.
StrayLength ==
    {[ret |-> s, image |-> [of |-> disc, sound |-> FALSE]] : s \in {Missing} \cup Sizes}

\* The disc was changed on the way: the size and the sectors may be of either.
Mixed ==
    {[ret |-> s, image |-> [of |-> disc, sound |-> FALSE]] : s \in {Missing} \cup Sizes}

Loads ==
    IF ~whole THEN NotFound \cup Mixed
    ELSE IF disc \notin Discs THEN NotFound
    ELSE IF File[disc] = NoFile THEN NotFound
    ELSE IF File[disc].odd THEN NotFound \cup WholeFile \cup StrayLength
    ELSE NotFound \cup WholeFile

\* BootIso9660GetFile is called.
GetFile ==
    /\ pc \in {"probe", "wait", "load"}
    /\ io = "idle"
    /\ io' = "reads"
    /\ whole' = TRUE
    /\ UNCHANGED <<job, disc, pc, n, fileVars, flashVars>>

\* The drive stays busy, or took the command for a sector and does not deliver
\* the data: BootIdeReadSector is in one of its loops without limit.  One stall
\* stands for those of a call.
DriveStalls ==
    /\ io = "reads"
    /\ io' = "again"
    /\ UNCHANGED <<job, disc, pc, n, whole, fileVars, flashVars>>

\* It answers after all.
DriveAnswers ==
    /\ io = "again"
    /\ io' = "rest"
    /\ UNCHANGED <<job, disc, pc, n, whole, fileVars, flashVars>>

\* The call returns.
Return ==
    /\ io \in {"reads", "rest"}
    /\ io' = "idle"
    /\ UNCHANGED whole

LastProbe == n + 1 = Tries

\* The loop that looks for a disc, four times a second.
Probe ==
    /\ pc = "probe"
    /\ Return
    /\ \E l \in Loads :
          /\ image' = l.image
          /\ n' = n + 1
          /\ pc' = IF l.ret # Missing THEN "load"
                   ELSE IF LastProbe THEN "ask" ELSE "probe"
    /\ UNCHANGED <<job, disc, got, flashVars>>

\* The tray is open; "Insert disk and press A".
PressA ==
    /\ pc = "ask"
    /\ pc' = "wait"
    /\ UNCHANGED <<job, disc, n, ioVars, fileVars, flashVars>>

\* "wait until the media is readable"
WaitReadable ==
    /\ pc = "wait"
    /\ Return
    /\ \E l \in Loads :
          /\ image' = l.image
          /\ pc' = IF l.ret # Missing THEN "load" ELSE "wait"
    /\ UNCHANGED <<job, disc, n, got, flashVars>>

Load ==
    /\ pc = "load"
    /\ Return
    /\ \E l \in Loads :
          /\ got' = l.ret
          /\ image' = l.image
    /\ pc' = "check"
    /\ UNCHANGED <<job, disc, n, flashVars>>

\* Mutant: any file that was read is good enough.
AnySizeGiven == got # Missing

\* dwConfigSize is unsigned: 0xffffffff is not less than 0, but it is not the
\* expected size either.
SizeAsExpected == got = Expected

\* Both checks of the size, then SHA1 (its result is not used).
Check ==
    /\ pc = "check"
    /\ pc' = IF SizeAsExpected THEN "flash" ELSE "halt_size"
    /\ UNCHANGED <<job, disc, n, ioVars, fileVars, flashVars>>

\* BootReflashAndReset.  Once it is committed it is not left any more.
Reflash ==
    /\ pc = "flash"
    /\ phase # "refused"
    /\ Flash!Next
    /\ UNCHANGED <<job, disc, pc, n, ioVars, fileVars>>

\* Mutant: the menu action starts the new BIOS whatever happens.
StartAlways ==
    /\ pc = "flash"
    /\ phase \in {"flashing", "refused"}
    /\ pc' = "started"
    /\ UNCHANGED <<job, disc, n, ioVars, fileVars, flashVars>>

\* Mutant: the menu action does not restart the console.
StartNever == pc = "started" /\ UNCHANGED vars

\* It returned a code: the menu action restarts the console all the same.
StartOld ==
    /\ pc = "flash"
    /\ phase = "refused"
    /\ pc' = "started"
    /\ UNCHANGED <<job, disc, n, ioVars, fileVars, flashVars>>

\* BootReflashAndReset has told the PIC to restart the console.
StartNew ==
    /\ pc = "flash"
    /\ phase = "rebooting"
    /\ pc' = "started"
    /\ UNCHANGED <<job, disc, n, ioVars, fileVars, flashVars>>

\* The user changes the disc.
Swap ==
    /\ pc \in {"probe", "ask", "wait", "load"}
    /\ disc' \in (Discs \cup {NoDisc}) \ {disc}
    /\ whole' = FALSE
    /\ UNCHANGED <<job, pc, n, io, fileVars, flashVars>>

Step == GetFile \/ Probe \/ WaitReadable \/ Load \/ Check \/ Reflash \/ StartOld \/ StartNew

Next == Step \/ DriveStalls \/ DriveAnswers \/ PressA \/ Swap

Spec == Init /\ [][Next]_vars

\* The processor keeps running and the user presses A when asked to.  Nothing
\* makes a drive answer that has stalled.
FairSpec == Spec /\ WF_vars(Step) /\ WF_vars(PressA)

-----------------------------------------------------------------------------
(* Properties *)

\* Every variable keeps its type.
TypeOK ==
    /\ job \in Jobs
    /\ disc \in Discs \cup {NoDisc}
    /\ pc \in {"probe", "ask", "wait", "load", "check", "halt_size", "flash", "started"}
    /\ n \in 0 .. Tries
    /\ io \in {"idle", "reads", "again", "rest"}
    /\ whole \in BOOLEAN
    /\ got \in {Missing} \cup (0 .. 3)
    /\ image \in [of : Discs \cup {NoDisc}, sound : BOOLEAN]
    /\ phase \in Flash!Phases
    /\ intact \in BOOLEAN
    /\ complete \in BOOLEAN

\* The console is restarted only with the old BIOS untouched in the selected
\* bank or with the new one complete in it, although the menu actions restart
\* it without looking at the code that BootReflashAndReset returned.
StartsOldOrNew == pc = "started" => intact \/ complete

\* What is flashed is the file of one disc, of the size the bank takes, and
\* not what an earlier probe of another disc left in memory; unless a sector
\* failed to read, the disc was changed in the middle of the last load or the
\* length came from a stray address.
FlashesOneDisc ==
    pc \in {"flash", "started"} /\ image.sound => File[image.of].size = Expected

\* A file that was found is either refused or on its way into the flash, or
\* the console has restarted, whatever the user does to the disc meanwhile:
\* provided that the drive, for which BootIdeReadSector waits without limit,
\* answers in the end.
FileIsDecided ==
    []<>(io # "again") =>
        ((pc = "load") ~>
            (pc \in {"halt_size", "started"} \/ phase \in {"flashing", "off"}))
=============================================================================
