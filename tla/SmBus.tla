------------------------------- MODULE SmBus -------------------------------
(***************************************************************************)
(* The SMBus (drivers/pci/i2cio.c) and its two users: the main program,    *)
(* which reads the EEPROM at start, changes settings in it                 *)
(* (lib/eeprom/BootEEPROM.c, menu/actions/VideoMenuActions.c) and switches *)
(* the console off through the PIC, and IntHandlerCSmc                     *)
(* (drivers/pci/BootInterrupts.c), which talks to the PIC through the same *)
(* controller registers whenever the PIC raises its interrupt.             *)
(*                                                                         *)
(* The main program touches the controller one register at a time and can  *)
(* be interrupted between any two accesses.  The handler runs to its end   *)
(* (interrupt gate), so it is one step, but it waits while a transfer is   *)
(* under way like every other user.  The controller, the EEPROM and the    *)
(* PIC are external: a transfer that has been started takes effect and     *)
(* sets 0x10, or fails and sets an error bit.                              *)
(*                                                                         *)
(* The EEPROM is shortened to the two sections that have a checksum.       *)
(***************************************************************************)
EXTENDS Integers, Sequences

CONSTANTS
    Serial,         \* the bytes that precede VideoStandard in its section
    UserHead,       \* the bytes that precede VideoFlags[2] in its section
    Settings,       \* pairs of a standard and a widescreen flag to begin with
    Retries,        \* nRetriesToLive, 50 in the code
    Reasons,        \* the reasons, sets of bits, the PIC may give
    AvModes,        \* the values the AV register of the PIC may have
    PicBytes,       \* the values its other registers may have
    MaxIrqs, MaxErrors, MaxUpdates, MaxLosses   \* bounds of the model

Byte == 0 .. 255

ASSUME BusAssumption ==
    /\ Serial \in Seq(Byte) /\ Len(Serial) % 4 = 0
    /\ UserHead \in Seq(Byte) /\ Len(UserHead) > 0
    /\ Retries \in Nat \ {0}
    /\ Reasons \subseteq SUBSET (0 .. 6)
    /\ AvModes \subseteq Byte /\ PicBytes \subseteq Byte
    /\ {MaxIrqs, MaxErrors, MaxUpdates, MaxLosses} \subseteq Nat

VARIABLES
    pc,         \* where the main program is in WriteToSMBus, ReadfromSMBus
    todo,       \* the bus operations it still has to do, the current one first
    tries,      \* nRetriesToLive
    temp,       \* the status it has read and will write back
    hw,         \* the registers: slave address, command, data
    status,     \* the status register: "done" is 0x10, "err" any bit of 0x26
    flight,     \* the transfer under way (0x0800 is set), or NoTransfer
    eeprom,     \* content of the EEPROM
    ram,        \* its copy in RAM, the global `eeprom'
    panel,      \* what the handler keeps: tray, DVD state, AV mode, power down
    last,       \* history: the operation the main program finished last
    faults,     \* history: operations that returned without their effect or
                \* with a wrong value, and power lost in the middle of an update
    irqs, errors, updates, losses       \* how often this happened

bus == <<hw, status, flight>>
main == <<pc, todo, tries, temp>>
history == <<last, faults>>
counts == <<irqs, errors, updates, losses>>
vars == <<main, bus, eeprom, ram, panel, history, counts>>

-----------------------------------------------------------------------------
(* The EEPROM: each section follows the four bytes of its checksum.  The   *)
(* addresses begin behind the number of the PIC's power register, as those *)
(* of the settings do in the code (0x30).                                  *)

PowerReg == 2                       \* reset and power register of the PIC
PowerCommands == {1, 64, 128}       \* quick reboot, slow reboot, power off

VideoLen == Len(Serial) + 4
UserLen == Len(UserHead) + 1
Checksum2 == PowerReg + 1
Video == Checksum2 + 4
Standard == Video + Len(Serial)
Checksum3 == Video + VideoLen
User == Checksum3 + 4
Widescreen == User + UserLen - 1
Addr == Checksum2 .. Widescreen
ASSUME SizeAssumption == Widescreen \in Byte       \* the register is a byte

\* The four bytes of a VIDEO_STANDARD as the little-endian program stores it.
NTSC_M == <<0, 1, 64, 0>>
NTSC_J == <<0, 2, 64, 0>>
PAL_I == <<0, 3, 128, 0>>
Standards == {NTSC_M, NTSC_J, PAL_I}
ASSUME SettingsAssumption == Settings \subseteq Standards \X {0, 1}

Part(e, from, len) == [i \in 1 .. len |-> e[from + i - 1]]
Patch(e, from, bytes) ==
    [a \in Addr |-> IF a \in from .. (from + Len(bytes) - 1) THEN bytes[a - from + 1] ELSE e[a]]

\* EepromCRC.  CRC_Data is the data shifted round by one byte, with zeros
\* behind it; each of the four sums takes every fourth 16-bit word.
\* CRCPosVal[l] is the variable of that name when the words below l are done.
CRCData(d, l) == IF l = 0 THEN d[Len(d)] ELSE IF l < Len(d) THEN d[l] ELSE 0
UShort == 256 * 256                 \* the values of an unsigned short
CRCByte(d, pos) ==
    LET word(l) == CRCData(d, l) + 256 * CRCData(d, l + 1)
        CRCPosVal[l \in 0 .. Len(d)] ==
            IF l = 0 THEN UShort - 1
            ELSE IF (l - 1) % 4 = pos THEN (CRCPosVal[l - 1] - word(l - 1)) % UShort
            ELSE CRCPosVal[l - 1]
    IN  CRCPosVal[Len(d)] \div 256
EepromCRCFirst(d) == [i \in 1 .. 4 |-> IF i = 1 THEN CRCByte(d, 0) ELSE 0]     \* mutant
EepromCRC(d) == [i \in 1 .. 4 |-> CRCByte(d, i - 1)]

VideoSum(e) == EepromCRC(Part(e, Video, VideoLen))
UserSum(e) == EepromCRC(Part(e, User, UserLen))
VideoConsistent(e) == Part(e, Checksum2, 4) = VideoSum(e)
UserConsistent(e) == Part(e, Checksum3, 4) = UserSum(e)

\* A console as it left the factory, with standard s and widescreen flag w.
Factory(s, w) ==
    LET bare == [a \in Addr |-> 0]
        data == Patch(Patch(bare, Video, Serial \o s), User, Append(UserHead, w))
    IN  Patch(Patch(data, Checksum2, VideoSum(data)), Checksum3, UserSum(data))

-----------------------------------------------------------------------------
(* Operations on the bus.                                                  *)

Read(dev, reg) == [rw |-> "R", dev |-> dev, reg |-> reg, val |-> 0]
Write(dev, reg, val) == [rw |-> "W", dev |-> dev, reg |-> reg, val |-> val]
NoTransfer == [rw |-> "R", dev |-> "none", reg |-> 0, val |-> 0]
Devices == {"none", "eeprom", "pic", "encoder"}
Transfers == [rw : {"R", "W"}, dev : Devices, reg : Byte, val : Byte]

ERR_I2C_ERROR_BUS == 2              \* 0x80000002 cut to a byte
WriteAll(from, bytes) == [i \in 1 .. Len(bytes) |-> Write("eeprom", from + i - 1, bytes[i])]
ReadAll == [i \in 1 .. (Widescreen - PowerReg) |-> Read("eeprom", PowerReg + i)]

cur == Head(todo)
On == pc # "off"
Busy == flight # NoTransfer
PC == {"idle", "spin", "addr", "cmd", "data", "status", "clear", "start", "poll", "fetch",
       "halt", "off"}
\* BootEepromReadEntireEEPROM is the first thing the main program does here.
Boot ==
    /\ pc' = "spin"
    /\ todo' = ReadAll
    /\ ram' = [a \in Addr |-> 0]

Init ==
    /\ pc = "spin"
    /\ todo = ReadAll
    /\ tries = Retries
    /\ temp = {}
    /\ hw = NoTransfer
    /\ status = {}
    /\ flight = NoTransfer
    /\ eeprom \in {Factory(s[1], s[2]) : s \in Settings}
    /\ ram = [a \in Addr |-> 0]
    /\ panel = [tray |-> "open", dvd |-> "unknown", av |-> CHOOSE m \in AvModes : TRUE,
                down |-> FALSE]
    /\ last = NoTransfer
    /\ faults = 0
    /\ irqs = 0 /\ errors = 0 /\ updates = 0 /\ losses = 0

MaxFaults == 2
CountFault(bad) == faults' = IF bad /\ faults < MaxFaults THEN faults + 1 ELSE faults

-----------------------------------------------------------------------------
(* One transfer of the main program: WriteToSMBus and ReadfromSMBus, which *)
(* differ in the data register.  The registers are written in this order.  *)

AfterSwapped(p) ==                                                     \* mutant
    CASE p = "spin" -> "cmd" [] p = "cmd" -> "addr" [] p = "addr" -> "data"
      [] p = "data" -> "status" [] p = "status" -> "clear" [] p = "clear" -> "start"
      [] p = "start" -> "poll"
After(p) ==
    CASE p = "spin" -> "addr" [] p = "addr" -> "cmd"
      [] p = "cmd" -> (IF cur.rw = "W" THEN "data" ELSE "status")
      [] p = "data" -> "status" [] p = "status" -> "clear" [] p = "clear" -> "start"
      [] p = "start" -> "poll"

Goto(p) == pc = p /\ pc' = After(p)
KeepsBus == UNCHANGED bus
KeepsRest == UNCHANGED <<eeprom, ram, panel, counts>>

\* while(IoInputWord(I2C_IO_BASE+0)&0x0800): only in front of the retries.
Spin ==
    /\ Goto("spin")
    /\ ~Busy
    /\ tries' = Retries
    /\ UNCHANGED <<todo, temp, history>> /\ KeepsBus /\ KeepsRest

OutAddress ==
    /\ Goto("addr")
    /\ hw' = [hw EXCEPT !.dev = cur.dev, !.rw = cur.rw]
    /\ UNCHANGED <<todo, tries, temp, status, flight, history>> /\ KeepsRest

OutRegister ==
    /\ Goto("cmd")
    /\ hw' = [hw EXCEPT !.reg = cur.reg]
    /\ UNCHANGED <<todo, tries, temp, status, flight, history>> /\ KeepsRest

OutData ==
    /\ Goto("data")
    /\ hw' = [hw EXCEPT !.val = cur.val]
    /\ UNCHANGED <<todo, tries, temp, status, flight, history>> /\ KeepsRest

\* The status is read and then written back, which clears the bits that were
\* set in what was read.
InStatus ==
    /\ Goto("status")
    /\ temp' = status
    /\ UNCHANGED <<todo, tries, history>> /\ KeepsBus /\ KeepsRest

ClearStatus ==
    /\ Goto("clear")
    /\ status' = status \ temp
    /\ temp' = {}
    /\ UNCHANGED <<todo, tries, hw, flight, history>> /\ KeepsRest

\* The controller takes what the registers hold, whoever wrote them.  What it
\* does with a start while it is busy is not documented: either it ignores
\* the start or it drops the transfer under way.
Start ==
    /\ Goto("start")
    /\ flight' \in {hw} \union {f \in {flight} : Busy}
    /\ UNCHANGED <<todo, tries, temp, hw, status, history>> /\ KeepsRest

\* The operation at hand is over; the caller looks at no result.
Advance ==
    /\ last' = cur
    /\ todo' = Tail(todo)
    /\ pc' = IF Tail(todo) # <<>> THEN "spin" ELSE IF cur.dev = "pic" THEN "halt" ELSE "idle"

\* The byte is in the EEPROM and nothing under way will replace it.  (Of a
\* write to the PIC: the console would be off.)
Writes(o, a) == o.rw = "W" /\ o.dev = "eeprom" /\ o.reg = a
Written == cur.dev = "eeprom" /\ eeprom[cur.reg] = cur.val /\ (Writes(flight, cur.reg) => flight = cur)

WriteReturns ==
    /\ pc = "poll" /\ cur.rw = "W"
    /\ "done" \in status
    /\ Advance
    /\ CountFault(~Written)
    /\ UNCHANGED <<tries, temp>> /\ KeepsBus /\ KeepsRest

ReadDone ==
    /\ pc = "poll" /\ cur.rw = "R"
    /\ "done" \in status
    /\ pc' = "fetch"
    /\ UNCHANGED <<todo, tries, temp, history>> /\ KeepsBus /\ KeepsRest

\* *pb++ = I2CTransmitByteGetReturn(0x54, i)
Store(b) ==
    /\ ram' = [ram EXCEPT ![cur.reg] = b]
    /\ CountFault(b # eeprom[cur.reg])
    /\ UNCHANGED <<tries, temp, eeprom, panel, counts>>

Fetch ==
    /\ pc = "fetch"
    /\ Store(hw.val)
    /\ Advance
    /\ KeepsBus

RetriesLeftAlways == tries > 0                                         \* mutant
RetriesLeft == tries > 1

Failed == pc = "poll" /\ "err" \in status /\ "done" \notin status

\* An error: the next turn of while(nRetriesToLive--).
Retry ==
    /\ Failed
    /\ RetriesLeft
    /\ pc' = After("spin")
    /\ tries' = tries - 1
    /\ UNCHANGED <<todo, temp, history>> /\ KeepsBus /\ KeepsRest

GiveUp ==
    /\ Failed
    /\ ~RetriesLeft
    /\ Advance
    /\ KeepsBus
    /\ IF cur.rw = "R"
       THEN Store(ERR_I2C_ERROR_BUS)
       ELSE CountFault(~Written) /\ UNCHANGED <<tries, temp>> /\ KeepsRest

MainStep ==
    Spin \/ OutAddress \/ OutRegister \/ OutData \/ InStatus \/ ClearStatus \/ Start
    \/ WriteReturns \/ ReadDone \/ Fetch \/ Retry \/ GiveUp

-----------------------------------------------------------------------------
(* The menu: a setting is changed in RAM, then written, then its checksum. *)

Update(r, writes) ==
    /\ pc = "idle" /\ updates < MaxUpdates
    /\ updates' = updates + 1
    /\ ram' = r
    /\ todo' = writes
    /\ pc' = "spin"
    /\ UNCHANGED <<tries, temp, eeprom, panel, history, irqs, errors, losses>> /\ KeepsBus

\* VideoMenuInit names the standard of the copy in RAM, SetVideoStandard goes
\* on to the next one; a value it does not know is followed by PAL.
NextStandard ==
    LET s == Part(ram, Standard, 4)
    IN  CASE s = PAL_I -> NTSC_M [] s = NTSC_M -> NTSC_J [] OTHER -> PAL_I

SetVideoStandardOldSum ==                                              \* mutant
    LET r == Patch(ram, Standard, NextStandard)
    IN  Update(r, WriteAll(Standard, NextStandard) \o WriteAll(Checksum2, VideoSum(ram)))
SetVideoStandard ==
    LET r == Patch(ram, Standard, NextStandard)
    IN  Update(r, WriteAll(Standard, NextStandard) \o WriteAll(Checksum2, VideoSum(r)))

SetWidescreen ==
    LET w == <<1 - (ram[Widescreen] % 2)>>
        r == Patch(ram, Widescreen, w)
    IN  Update(r, WriteAll(Widescreen, w) \o WriteAll(Checksum3, UserSum(r)))

\* I2CRebootQuick, I2CRebootSlow, I2CPowerOff: one write, then while(1).
PowerOff == \E b \in PowerCommands : Update(ram, <<Write("pic", PowerReg, b)>>)

-----------------------------------------------------------------------------
(* IntHandlerCSmc.                                                         *)

\* A reason as the byte that is read.
Bit(b, v, r) == IF b \in r THEN v ELSE 0
Mask(r) ==
    Bit(0, 1, r) + Bit(1, 2, r) + Bit(2, 4, r) + Bit(3, 8, r) + Bit(4, 16, r) + Bit(5, 32, r)
    + Bit(6, 64, r)

\* The last of the handler's operations on the bus, for the reason r it was
\* given; the bits are looked at in ascending order.  A new AV mode programs
\* the video encoder.
LastOp(r, mode) ==
    CASE 5 \in r -> Write("pic", 12, 0)
      [] 5 \notin r /\ 3 \in r /\ mode # panel.av -> Write("encoder", 172, 140)
      [] 5 \notin r /\ 3 \in r /\ mode = panel.av -> [Read("pic", 4) EXCEPT !.val = mode]
      [] r \intersect {3, 5} = {} /\ 2 \in r -> Write("pic", 13, 2)
      [] r \intersect {2, 3, 5} = {} /\ 0 \in r -> Write("pic", 24, 4)
      [] OTHER -> [Read("pic", 17) EXCEPT !.val = Mask(r)]

\* Bit 5, the button, removes bit 6, a report of closing, from the reason.
Panel(r, mode) ==
    [tray |-> CASE 5 \in r -> "open" [] 5 \notin r /\ 6 \in r -> "closing"
                [] r \intersect {5, 6} = {} /\ 2 \in r -> "open"
                [] r \intersect {2, 5, 6} = {} /\ 1 \in r -> "closed"
                [] OTHER -> panel.tray,
     dvd |-> CASE 5 \notin r /\ 6 \in r -> "closing"
               [] (5 \in r \/ 6 \notin r) /\ 2 \in r -> "opening"
               [] (5 \in r \/ 6 \notin r) /\ 2 \notin r /\ 1 \in r -> "closed"
               [] OTHER -> panel.dvd,
     av |-> IF 4 \in r THEN 255 ELSE IF 3 \in r THEN mode ELSE panel.av,
     down |-> panel.down \/ 0 \in r]

\* Every operation of the handler leaves an end-of-transfer bit in the status.
HandlerClears(s) == {}                                                 \* mutant
HandlerLeaves(s) == s

Interrupt ==
    /\ On /\ irqs < MaxIrqs
    /\ ~Busy
    /\ irqs' = irqs + 1
    /\ \/ \E r \in Reasons, mode \in AvModes, s \in {"done", "err"} :
            \* an error in a read leaves the data register alone
            LET o == LastOp(r, mode)
            IN  /\ s = "err" => o.rw = "W"
                /\ hw' = o
                /\ panel' = Panel(r, mode)
                /\ status' = HandlerLeaves({s})
       \/ \* the reason cannot be read: the error code has bit 1 set
          /\ hw' = [Read("pic", 17) EXCEPT !.val = hw.val]
          /\ panel' = Panel({1}, panel.av)
          /\ status' = HandlerLeaves({"err"})
    /\ UNCHANGED <<main, flight, eeprom, ram, history, errors, updates, losses>>

-----------------------------------------------------------------------------
(* The controller and the devices (external).                              *)

\* What a device may answer to a read; of the PIC's registers main knows nothing.
Answers(f) ==
    IF f.dev = "eeprom" /\ f.reg \in Addr THEN {eeprom[f.reg]} ELSE PicBytes

Complete ==
    /\ On /\ Busy
    /\ status' = status \union {"done"}
    /\ flight' = NoTransfer
    /\ IF flight.rw = "R"
       THEN \E v \in Answers(flight) : hw' = [hw EXCEPT !.val = v]
       ELSE hw' = hw
    /\ eeprom' = IF flight.rw = "W" /\ flight.dev = "eeprom" /\ flight.reg \in Addr
                 THEN [eeprom EXCEPT ![flight.reg] = flight.val] ELSE eeprom
    /\ pc' = IF flight.rw = "W" /\ flight.dev = "pic" /\ flight.reg = PowerReg
                /\ flight.val \in PowerCommands
             THEN "off" ELSE pc
    /\ UNCHANGED <<todo, tries, temp, ram, panel, last, faults, counts>>

Error ==
    /\ On /\ Busy /\ errors < MaxErrors
    /\ errors' = errors + 1
    /\ status' = status \union {"err"}
    /\ flight' = NoTransfer
    /\ UNCHANGED <<main, hw, eeprom, ram, panel, history, irqs, updates, losses>>

\* Power is lost, now or in the middle of what main is doing; RAM and the
\* controller forget everything.
PowerLoss ==
    /\ On /\ losses < MaxLosses
    /\ losses' = losses + 1
    /\ pc' = "off"
    /\ CountFault(todo # <<>> /\ cur.rw = "W" /\ cur.dev = "eeprom")
    /\ UNCHANGED <<todo, tries, temp, bus, eeprom, ram, panel, last, irqs, errors, updates>>

Restart ==
    /\ pc = "off"
    /\ Boot
    /\ temp' = {} /\ tries' = Retries
    /\ hw' = NoTransfer /\ status' = {} /\ flight' = NoTransfer
    /\ last' = NoTransfer
    /\ UNCHANGED <<eeprom, panel, faults, counts>>

Next ==
    \/ MainStep
    \/ SetVideoStandard \/ SetWidescreen \/ PowerOff
    \/ Interrupt
    \/ Complete \/ Error
    \/ PowerLoss \/ Restart

Spec == Init /\ [][Next]_vars /\ WF_vars(MainStep) /\ WF_vars(Complete \/ Error)

-----------------------------------------------------------------------------
(* Properties.                                                             *)

\* The registers, the retry counter and both copies of the settings keep their
\* types; main has an operation at hand exactly while it is inside one.
TypeOK ==
    /\ pc \in PC
    /\ todo \in Seq(Transfers)
    /\ tries \in 1 .. Retries
    /\ temp \subseteq {"done", "err"} /\ status \subseteq {"done", "err"}
    /\ hw \in Transfers /\ flight \in Transfers /\ last \in Transfers
    /\ eeprom \in [Addr -> Byte] /\ ram \in [Addr -> Byte]
    /\ faults \in 0 .. MaxFaults
    /\ irqs \in 0 .. MaxIrqs /\ errors \in 0 .. MaxErrors /\ updates \in 0 .. MaxUpdates /\ losses \in 0 .. MaxLosses
    /\ pc \in PC \ {"idle", "halt", "off"} => todo # <<>>

\* The registers are shared without a lock, and a start may send a mixture of
\* what main and the handler wrote there.  Whatever the interleaving, a byte
\* of the EEPROM changes only if main is writing that very byte, in the
\* operation at hand or in the one before it: a mixture always goes to the
\* PIC, because the address register is written first.  (The value may be
\* wrong: after an error of the handler main starts a transfer of the PIC's,
\* retries without waiting for it, and the PIC's answer replaces the data.)
EepromOnlyIntended ==
    [][\A a \in Addr : eeprom'[a] # eeprom[a] =>
           Writes(last, a) \/ (todo # <<>> /\ Writes(cur, a))]_vars

Checksum(from) == from .. (from + 3)
AtRest == pc \in {"idle", "off"}

\* As long as every bus operation did what it returned for, and power was not
\* lost in an update, the settings at rest are as last chosen and covered by
\* their checksums, and the console has not hung in the wait for power off.
FaultlessIsConsistent ==
    faults = 0 =>
        /\ AtRest => VideoConsistent(eeprom) /\ UserConsistent(eeprom)
        /\ pc = "idle" => \A a \in Addr \ (Checksum(Checksum2) \union Checksum(Checksum3)) :
                              ram[a] = eeprom[a]
        /\ pc # "halt"

\* One lost or spoilt write, one misread byte or one power loss cannot leave a video
\* standard behind that no console knows and that the checksum calls valid.
\* This is said of the first three bytes: EepromCRC takes the last one only as
\* the lower half of a word, and a wrong value there may go unnoticed.
Known(e) == \E s \in Standards : \A i \in 1 .. 3 : e[Standard + i - 1] = s[i]
DamageIsDetected == AtRest /\ faults <= 1 /\ VideoConsistent(eeprom) => Known(eeprom)

\* Neither the wait for a free bus nor the wait for the end of a transfer has
\* a limit in the code.  Both end, and so does every sequence of operations,
\* although the handler may use the controller at any moment of them: it never
\* leaves a transfer under way, and always an end-of-transfer bit.
TransfersEnd == pc = "spin" ~> pc \in {"idle", "halt", "off"}
=============================================================================
