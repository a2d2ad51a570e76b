------------------------------- MODULE HddLock -------------------------------
(***************************************************************************)
(* Locking and unlocking the hard disk from the text menu: how presses on  *)
(* a pad, a keyboard or a remote become menu actions (risefall.c),         *)
(* TextMenu and Confirm, the actions of HddMenuActions.c, the ATA security *)
(* commands of DriveSecurityChange, and the disk they are sent to, with    *)
(* the power failing at any point.                                         *)
(*                                                                         *)
(* One step is a part of risefall_xpad_BUTTON that reads or writes once    *)
(* what the USB interrupts change, one ATA command or one block of data.   *)
(* The interrupts come between any two steps.                              *)
(***************************************************************************)
EXTENDS Integers, Sequences, FiniteSets

CONSTANTS
    Drives,      \* the hard disks present, a subset of {0, 1}
    PadButtons,  \* what the user presses on the pad,
    KbdKeys,     \*   on the keyboard,
    IrKeys,      \*   and on the remote
    MaxPresses,  \* bound: presses in a behaviour
    MaxFaults,   \* bound: commands a disk fails without a reason
    MaxLosses    \* bound: power failures

\* The order in which TextMenu asks for the buttons.
Order == <<"UP", "DOWN", "A", "START", "B", "BACK">>
Buttons == {Order[i] : i \in DOMAIN Order}

ASSUME DrivesAssumption == Drives \subseteq {0, 1} /\ Drives # {}
ASSUME InputAssumption ==
    /\ PadButtons \subseteq Buttons
    /\ KbdKeys \subseteq {"UP", "DOWN", "A", "B"}
    /\ IrKeys \subseteq {"UP", "DOWN", "A", "BACK"}

VARIABLES
    keys,       \* XPAD_current[0]: how far each button is pressed, 0 .. 255
    history,    \* xpad_button_history: 1 while the button counts as pressed
    kbd,        \* current_keyboard_key
    ir,         \* current_remote_key and remotekeyIsRepeat
    rf,         \* where risefall_xpad_BUTTON is, between two of those accesses
    spare,      \* history: presses of each button nothing has used yet (see Devices)
    presses,    \* number of presses so far
    pc,         \* where the program is
    menu,       \* the TextMenu calls in progress, innermost last: <<name, item>>
    ask,        \* which risefall call of the menu's chain comes next
    act,        \* the function chosen in the menu: [fn, d]
    Confirm_Result,
    yes,        \* history: this confirmation was answered with Yes
    hashes,     \* the EEPROM copy has a hash version known to BootHddKey.c
    settings,   \* m_securitySettings & 4 of each drive, read once at the start
    disk,       \* the external device: passwords and lock
    ERR,        \* error bit of the drive's status register
    ours,       \* history: drives whose user password was set here
    silent,     \* history: drives that refused the master password's data
    faults, losses

inputVars == <<keys, history, kbd, ir, rf, spare, presses>>
uiVars == <<menu, ask, act, Confirm_Result, yes>>
diskVars == <<settings, disk, ERR, ours, silent, faults>>
vars == <<inputVars, uiVars, diskVars, pc, hashes, losses>>

-----------------------------------------------------------------------------
(* The disk (external): ATA security feature set.                          *)

\* user: whose password protects the drive; master: factory's or ours.
Fresh == [user : {"none", "own", "foreign"}, master : {"factory"}, locked : {FALSE}]

\* Power on: a drive with a user password comes up locked.
PoweredOn(k) == [k EXCEPT !.locked = k.user # "none"]

\* A drive takes the command word of SET PASSWORD and DISABLE when unlocked,
\* and that of UNLOCK always.
TakesCommand(cmd, k) == cmd = "UNLOCK" \/ ~k.locked

\* It takes the data of UNLOCK and DISABLE if the password is right.
TakesData(cmd, k) == cmd = "SET_PASSWORD" \/ k.user = "own"

AfterData(cmd, k) ==
    CASE cmd = "SET_PASSWORD" -> [k EXCEPT !.user = "own"]
      [] cmd = "DISABLE" -> [k EXCEPT !.user = "none"]
      [] cmd = "UNLOCK" -> [k EXCEPT !.locked = FALSE]

-----------------------------------------------------------------------------
(* Starting the console                                                    *)

\* BootIdeDriveInit: the setting is what IDENTIFY says before the unlocking;
\* a locked drive is then unlocked if its password can be computed.
BootIdeDriveInit(k) ==
    IF k.locked /\ hashes /\ TakesData("UNLOCK", k) THEN AfterData("UNLOCK", k) ELSE k

\* Mutant: the global does not start as 0.
Confirm_StartSet == 1

\* Confirm_Result is not initialised and nothing clears it before a question.
Confirm_Start == 0

\* Memory after a start; the pads have not reported yet.
Cleared ==
    /\ keys = [b \in Buttons |-> 0] /\ history = [b \in Buttons |-> 0]
    /\ kbd = "none" /\ ir = [key |-> "none", repeat |-> FALSE] /\ rf = "call"
    /\ spare = [b \in Buttons |-> 0]
    /\ menu = <<[name |-> "advanced", item |-> 1]>> /\ ask = 1
    /\ act = [fn |-> "none", d |-> 0]
    /\ Confirm_Result = Confirm_Start /\ yes = FALSE

Init ==
    /\ Cleared
    /\ pc = "off" /\ presses = 0
    /\ hashes \in BOOLEAN
    /\ disk \in [Drives -> Fresh]
    /\ settings = [n \in Drives |-> FALSE] /\ ERR = FALSE
    /\ ours = {} /\ silent = {} /\ faults = 0 /\ losses = 0

\* The sector reads that end BootIdeDriveInit leave the error bit set on a
\* drive that is still locked.
PowerOn ==
    LET on == [n \in Drives |-> PoweredOn(disk[n])] IN
    /\ pc = "off" /\ pc' = "menu"
    /\ settings' = [n \in Drives |-> on[n].locked]
    /\ disk' = [n \in Drives |-> BootIdeDriveInit(on[n])]
    /\ ERR' \in {\E n \in Drives : disk'[n].locked, FALSE}
    /\ UNCHANGED <<inputVars, uiVars, hashes, ours, silent, faults, losses>>

\* The power goes off, from the button or by I2CRebootSlow.
Off ==
    /\ pc' = "off"
    /\ keys' = [b \in Buttons |-> 0] /\ history' = [b \in Buttons |-> 0]
    /\ kbd' = "none" /\ ir' = [key |-> "none", repeat |-> FALSE] /\ rf' = "call"
    /\ spare' = [b \in Buttons |-> 0]
    /\ menu' = <<[name |-> "advanced", item |-> 1]>> /\ ask' = 1
    /\ act' = [fn |-> "none", d |-> 0]
    /\ Confirm_Result' = Confirm_Start /\ yes' = FALSE
    /\ UNCHANGED <<presses, diskVars, hashes>>

PowerLoss ==
    /\ pc # "off" /\ losses < MaxLosses
    /\ losses' = losses + 1
    /\ Off

-----------------------------------------------------------------------------
(* Input.  A press is a button leaving 0, a keyboard report that names a   *)
(* key, or the first packet of a key on the remote.                        *)

\* Each device keeps at most one press of a button until it is asked for.
Devices(b) == Cardinality({S \in {<<1, PadButtons>>, <<2, KbdKeys>>, <<3, IrKeys>>} : b \in S[2]})

Pressed(b) ==
    /\ presses < MaxPresses /\ presses' = presses + 1
    /\ spare' = [spare EXCEPT ![b] = IF @ < Devices(b) THEN @ + 1 ELSE @]

\* A and B are analog buttons; 16 is a level below the threshold of 0x30.
Levels(b) == IF b \in {"UP", "DOWN"} THEN {0, 255} ELSE {0, 16, 255}

xpad_irq(b, v) ==
    /\ pc # "off" /\ v \in Levels(b) \ {keys[b]}
    /\ keys' = [keys EXCEPT ![b] = v]
    /\ IF keys[b] = 0 THEN Pressed(b) ELSE UNCHANGED <<presses, spare>>
    /\ UNCHANGED <<history, kbd, ir, rf, uiVars, diskVars, pc, hashes, losses>>

\* A report with no key in its first place clears one nobody asked for.
usb_kbd_irq(k) ==
    /\ pc # "off" /\ kbd # k
    /\ kbd' = k
    /\ IF k # "none" THEN Pressed(k) ELSE UNCHANGED <<presses, spare>>
    /\ UNCHANGED <<keys, history, ir, rf, uiVars, diskVars, pc, hashes, losses>>

\* The button the program asks for.
Asked == IF pc = "menu" THEN Order[ask] ELSE "A"

\* risefall_xpad_BUTTON does not look at the repeat flag of a packet that comes
\* after its test of the flag and before its test of the key, and clears the
\* flag of one that comes between its two last assignments.
FlagUnseen(k) == (rf = "key" /\ k = Asked) \/ rf = "irhalf"

\* The remote repeats the packet while its key is held down.
xremote_irq(k, repeat) ==
    /\ pc # "off"
    /\ ir' = [key |-> k, repeat |-> repeat] /\ ir' # ir
    /\ IF repeat /\ ~FlagUnseen(k) THEN UNCHANGED <<presses, spare>> ELSE Pressed(k)
    /\ UNCHANGED <<keys, history, kbd, rf, uiVars, diskVars, pc, hashes, losses>>

-----------------------------------------------------------------------------
(* risefall_xpad_BUTTON                                                    *)

\* The buttons the switch for the remote knows.
RemoteCases == {"UP", "DOWN", "A", "BACK"}

Used(b) == spare' = [spare EXCEPT ![b] = @ - 1]

\* The keyboard's key is the one asked for.
KbdMatch(b) == rf = "call" /\ kbd = b /\ rf' = "kbdhit" /\ Used(b) /\ UNCHANGED ir

FlagClear(b) ==
    /\ rf = "call" /\ kbd # b /\ b \in RemoteCases /\ ~ir.repeat
    /\ rf' = "key" /\ UNCHANGED <<ir, spare>>

IrMatch(b) == rf = "key" /\ ir.key = b /\ rf' = "irhit" /\ Used(b) /\ UNCHANGED ir

ClearKey == rf = "irhit" /\ rf' = "irhalf" /\ ir' = [ir EXCEPT !.key = "none"] /\ UNCHANGED spare

\* The steps after which the function has still something to do.
AskDevices ==
    /\ pc \in {"menu", "show", "again"}
    /\ KbdMatch(Asked) \/ FlagClear(Asked) \/ IrMatch(Asked) \/ ClearKey
    /\ UNCHANGED <<keys, history, kbd, presses, uiVars, diskVars, pc, hashes, losses>>

\* Neither the keyboard nor the remote has it: the section of the pad.
PadTurn(b) ==
    \/ rf = "call" /\ kbd # b /\ (b \in RemoteCases => ir.repeat)
    \/ rf = "key" /\ ir.key # b

Rising(b) == keys[b] > 48 /\ history[b] = 0

\* Mutant: one threshold for both edges.
FallingAtThreshold(b) == keys[b] <= 48 /\ history[b] = 1

Falling(b) == keys[b] = 0 /\ history[b] = 1

PadHit(b) == PadTurn(b) /\ Rising(b)

\* risefall_xpad_BUTTON(b) returns 1.
Hit(b) == rf \in {"kbdhit", "irhalf"} \/ PadHit(b)

\* The step in which it returns.
risefall_xpad_BUTTON(b) ==
    /\ rf \in {"kbdhit", "irhalf"} \/ PadTurn(b)
    /\ rf' = "call"
    /\ kbd' = IF rf = "kbdhit" THEN "none" ELSE kbd
    /\ ir' = IF rf = "irhalf" THEN [ir EXCEPT !.repeat = FALSE] ELSE ir
    /\ history' = IF PadTurn(b)
                  THEN [history EXCEPT ![b] = IF Rising(b) THEN 1
                                              ELSE IF Falling(b) THEN 0 ELSE @]
                  ELSE history
    /\ IF PadHit(b) THEN Used(b) ELSE UNCHANGED spare
    /\ UNCHANGED <<keys, presses>>

-----------------------------------------------------------------------------
(* TextMenu                                                                *)

\* HddMenuInit: two entries for each drive.
DriveItems(d) ==
    <<[fn |-> IF settings[d] THEN "UnlockHdd" ELSE "LockHdd", d |-> d],
      [fn |-> "DisplayHddPassword", d |-> d]>>

HddItems == (IF 0 \in Drives THEN DriveItems(0) ELSE <<>>)
            \o (IF 1 \in Drives THEN DriveItems(1) ELSE <<>>)

Cur == menu[Len(menu)]
Outer == SubSeq(menu, 1, Len(menu) - 1)

Size == CASE Cur.name = "advanced" -> 1      \* of its entries, only "Hdd Menu"
          [] Cur.name = "hdd" -> Len(HddItems)
          [] Cur.name = "confirm" -> 2

\* What Confirm hands back when its menu returns.
Answered(r) ==
    /\ Confirm_Result' = r
    /\ pc' = IF r = 1 THEN "key" ELSE "menu"
    /\ menu' = Outer

Move(i) ==
    /\ menu' = IF i \in 1 .. Size THEN Append(Outer, [Cur EXCEPT !.item = i]) ELSE menu
    /\ UNCHANGED <<pc, act, Confirm_Result, yes>>

\* Confirm(message, "Yes", "No", 0): No is selected at first, and the result
\* of the last confirmation is still in Confirm_Result.
Confirm ==
    /\ menu' = Append(menu, [name |-> "confirm", item |-> 2])
    /\ yes' = FALSE
    /\ UNCHANGED <<pc, Confirm_Result>>

\* DisplayHddPassword shows the password, if there is one, until A is pressed.
DisplayHddPassword ==
    /\ pc' = IF hashes THEN "show" ELSE "menu"
    /\ UNCHANGED <<menu, Confirm_Result, yes>>

\* DrawChildTextMenu calls TextMenu without its second argument: the item
\* selected at first is whatever the stack holds, taken here to be NULL or
\* one of the menu's own items.
DrawChildTextMenu ==
    /\ \E i \in 1 .. Len(HddItems) :
           menu' = Append(menu, [name |-> "hdd", item |-> i])
    /\ UNCHANGED <<pc, act, Confirm_Result, yes>>

Select ==
    \/ Cur.name = "advanced" /\ DrawChildTextMenu
    \/ /\ Cur.name = "hdd"
       /\ act' = HddItems[Cur.item]
       /\ IF act'.fn = "DisplayHddPassword" THEN DisplayHddPassword ELSE Confirm
    \/ /\ Cur.name = "confirm"
       /\ yes' = (Cur.item = 1)
       /\ Answered(IF Cur.item = 1 THEN 1 ELSE 0)
       /\ UNCHANGED act

\* B: the menu returns.  Confirm then returns the result it finds; leaving
\* the outermost menu leads to the icon menu and back.
Leave ==
    \/ Cur.name = "advanced" /\ UNCHANGED <<pc, menu, act, Confirm_Result, yes>>
    \/ Cur.name = "hdd" /\ menu' = Outer /\ UNCHANGED <<pc, act, Confirm_Result, yes>>
    \/ Cur.name = "confirm" /\ Answered(Confirm_Result) /\ UNCHANGED <<act, yes>>

\* One risefall call of the else-if chain; a hit ends the round.
TextMenu ==
    LET b == Order[ask] IN
    /\ pc = "menu"
    /\ risefall_xpad_BUTTON(b)
    /\ \/ /\ ~Hit(b)
          /\ ask' = (ask % Len(Order)) + 1
          /\ UNCHANGED <<pc, menu, act, Confirm_Result, yes>>
       \/ Hit(b) /\ ask' = 1 /\ b = "UP" /\ Move(Cur.item - 1)
       \/ Hit(b) /\ ask' = 1 /\ b = "DOWN" /\ Move(Cur.item + 1)
       \/ Hit(b) /\ ask' = 1 /\ b \in {"A", "START"} /\ Select
       \/ Hit(b) /\ ask' = 1 /\ b \in {"B", "BACK"} /\ Leave
    /\ UNCHANGED <<diskVars, hashes, losses>>

\* The loop at the end of DisplayHddPassword.
ShowUntilA ==
    /\ pc = "show"
    /\ risefall_xpad_BUTTON("A")
    /\ pc' = IF Hit("A") THEN "menu" ELSE "show"
    /\ UNCHANGED <<uiVars, diskVars, hashes, losses>>

\* The loop at the end of LockHdd and UnlockHdd, and I2CRebootSlow.
RebootOnA ==
    /\ pc = "again"
    /\ \/ Hit("A") /\ Off
       \/ /\ ~Hit("A") /\ risefall_xpad_BUTTON("A")
          /\ UNCHANGED <<pc, uiVars, diskVars, hashes>>
    /\ UNCHANGED losses

-----------------------------------------------------------------------------
(* LockHdd and UnlockHdd, after the confirmation                           *)

d == act.d
Cmd == IF act.fn = "LockHdd" THEN "SET_PASSWORD" ELSE "DISABLE"

\* It fails if no hash version fits the EEPROM, whatever the drive.
CalculateDrivePassword ==
    /\ pc = "key"
    /\ pc' = IF hashes THEN "ready" ELSE "menu"
    /\ UNCHANGED <<inputVars, uiVars, diskVars, hashes, losses>>

\* Mutant: the master password after the user password.
PhasesSwapped ==
    IF Cmd = "SET_PASSWORD" THEN <<"ucmd", "udata", "mcmd", "mdata", "identify">>
                            ELSE <<"ucmd", "udata", "identify">>

\* What DriveSecurityChange sends, command and data: the master password,
\* only when locking, then the user password, and a closing IDENTIFY.
Phases ==
    IF Cmd = "SET_PASSWORD" THEN <<"mcmd", "mdata", "ucmd", "udata", "identify">>
                            ELSE <<"ucmd", "udata", "identify">>

PhaseAfter(p) == Phases[1 + CHOOSE i \in DOMAIN Phases : Phases[i] = p]

\* A drive that reports an error from before is "Not Ready".
WaitNotBusy ==
    /\ pc = "ready"
    /\ pc' = IF ERR THEN "again" ELSE Phases[1]
    /\ UNCHANGED <<inputVars, uiVars, diskVars, hashes, losses>>

\* The drive does what it is asked, or fails.
Outcome(can) ==
    \/ can /\ ERR' = FALSE /\ UNCHANGED faults
    \/ ~can /\ ERR' = TRUE /\ UNCHANGED faults
    \/ can /\ faults < MaxFaults /\ ERR' = TRUE /\ faults' = faults + 1

\* BootIdeIssueAtaCommand: an error ends the function.
IssueAtaCommand ==
    /\ pc \in {"mcmd", "ucmd"}
    /\ Outcome(TakesCommand(Cmd, disk[d]))
    /\ pc' = IF ERR' THEN "again" ELSE PhaseAfter(pc)
    /\ UNCHANGED <<inputVars, uiVars, settings, disk, ours, silent, hashes, losses>>

\* BootIdeWriteData for the master password: nobody looks at the result.
WriteMaster ==
    /\ pc = "mdata"
    /\ Outcome(TRUE)
    /\ disk' = IF ERR' THEN disk ELSE [disk EXCEPT ![d].master = "XBOXLINUX"]
    /\ silent' = IF ERR' THEN silent \cup {d} ELSE silent
    /\ pc' = PhaseAfter(pc)
    /\ UNCHANGED <<inputVars, uiVars, settings, ours, hashes, losses>>

\* BootIdeWriteData for the user password.
WriteUser ==
    /\ pc = "udata"
    /\ Outcome(TakesData(Cmd, disk[d]))
    /\ disk' = IF ERR' THEN disk ELSE [disk EXCEPT ![d] = AfterData(Cmd, disk[d])]
    /\ ours' = IF ERR' \/ Cmd = "DISABLE" THEN ours ELSE ours \cup {d}
    /\ pc' = IF ERR' THEN "again" ELSE PhaseAfter(pc)
    /\ UNCHANGED <<inputVars, uiVars, settings, silent, hashes, losses>>

\* The closing IDENTIFY only decides the message.
Identify ==
    /\ pc = "identify"
    /\ Outcome(TRUE)
    /\ pc' = "again"
    /\ UNCHANGED <<inputVars, uiVars, settings, disk, ours, silent, hashes, losses>>

-----------------------------------------------------------------------------
Step == \/ AskDevices \/ TextMenu \/ ShowUntilA \/ RebootOnA
        \/ CalculateDrivePassword \/ WaitNotBusy \/ IssueAtaCommand
        \/ WriteMaster \/ WriteUser \/ Identify

Next ==
    \/ PowerOn
    \/ PowerLoss
    \/ \E b \in PadButtons : \E v \in Levels(b) : xpad_irq(b, v)
    \/ \E k \in KbdKeys \cup {"none"} : usb_kbd_irq(k)
    \/ \E k \in IrKeys, repeat \in BOOLEAN : xremote_irq(k, repeat)
    \/ Step

Spec == Init /\ [][Next]_vars

-----------------------------------------------------------------------------
(* Properties                                                              *)

\* Every action a menu takes on a button uses up a press of its own: a button
\* of the pad that is held or wavers between two levels never acts twice, nor
\* does a report of the keyboard, nor a key held on the remote; except that a
\* repeated packet of the remote counts as a press if the interrupt comes where
\* risefall_xpad_BUTTON does not see its flag (FlagUnseen), in the middle of
\* the function (the two thresholds and the repeat flag of risefall.c).
OnePressOneAction == \A b \in Buttons : spare[b] >= 0

\* A security command is sent only after Yes in this very confirmation.  The
\* result of an earlier confirmation survives in Confirm_Result and B returns
\* it: it is harmless because after a Yes the console is restarted or no
\* password can be computed for any drive.
SecurityNeedsYes ==
    pc \in {"ready", "mcmd", "mdata", "ucmd", "udata", "identify", "again"} => yes

\* A drive locked by this console opens with the documented master password,
\* also when the power fails or the drive gives up between the two commands,
\* unless the drive refused the master password's data, which is not noticed
\* (DriveSecurityChange).
LockedHasMaster ==
    \A n \in ours \ silent : disk[n].master = "XBOXLINUX"
=============================================================================
