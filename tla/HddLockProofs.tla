--------------------------- MODULE HddLockProofs ---------------------------
(***************************************************************************)
(* Proofs about locking the hard disk, for every set of buttons, keys and  *)
(* drives and any number of presses, faults and power failures.            *)
(*                                                                         *)
(* A press is counted once: each device has at most one press of a button  *)
(* outstanding, and the history of presses nobody has used is never less   *)
(* than what is outstanding.  A stale answer of Confirm can reach LockHdd  *)
(* only on a console that cannot compute a password.  The user password is *)
(* set only after the master password has been sent.                       *)
(***************************************************************************)
EXTENDS HddLock, FiniteSetTheorems, TLAPS

-----------------------------------------------------------------------------
(* The inductive invariant.                                                *)

Places == {"off", "menu", "show", "key", "ready", "mcmd", "mdata", "ucmd", "udata",
           "identify", "again"}

\* Behind the confirmation: the commands are being sent, or have been.
Sending == {"ready", "mcmd", "mdata", "ucmd", "udata", "identify", "again"}

InputType ==
    /\ keys \in [Buttons -> 0 .. 255]
    /\ \A b \in Buttons : keys[b] # 0 => b \in PadButtons
    /\ history \in [Buttons -> {0, 1}]
    /\ kbd \in KbdKeys \cup {"none"}
    /\ ir \in [key : IrKeys \cup {"none"}, repeat : BOOLEAN]
    /\ rf \in {"call", "key", "kbdhit", "irhit", "irhalf"}
    /\ spare \in [Buttons -> Int]

Disk == [user : {"none", "own", "foreign"}, master : {"factory", "XBOXLINUX"}, locked : BOOLEAN]

DiskType ==
    /\ disk \in [Drives -> Disk]
    /\ settings \in [Drives -> BOOLEAN]
    /\ ERR \in BOOLEAN
    /\ ours \subseteq Drives

One(P) == IF P THEN 1 ELSE 0

\* The pad has a press that risefall_xpad_BUTTON has still to see or to take.
PadWaits(b) == keys[b] # 0 /\ history[b] = 0

\* A key that was matched and will be cleared has no press left, whatever the
\* interrupts put there meanwhile.
KbdWaits(b) == kbd = b /\ rf # "kbdhit"
IrWaits(b) == ir.key = b /\ rf # "irhit" /\ (ir.repeat => FlagUnseen(b))

\* The presses of b that the devices have outstanding.
Waiting(b) == One(KbdWaits(b)) + One(IrWaits(b)) + One(PadWaits(b))

\* What is outstanding has been pressed and not been used.
PressInv == \A b \in Buttons : spare[b] >= Waiting(b)

\* risefall_xpad_BUTTON is called in three loops only.
CallInv == rf # "call" => pc \in {"menu", "show", "again"}

Names == <<"advanced", "hdd", "confirm">>
Frame == [name : {"advanced", "hdd", "confirm"}, item : Nat]

\* The menus are nested in one way only, and the selected item exists.
MenuShape ==
    /\ menu \in Seq(Frame)
    /\ Len(menu) \in 1 .. 3
    /\ \A k \in 1 .. Len(menu) : menu[k].name = Names[k]
    /\ Len(menu) >= 2 => menu[2].item \in 1 .. Len(HddItems)

\* Where the program is tells which menus are open; a question, and what
\* follows it, is about a drive that is there.
MenuInv ==
    /\ pc \in Places
    /\ ask \in 1 .. Len(Order)
    /\ MenuShape
    /\ pc = "off" => Len(menu) = 1
    /\ pc \in Sending \cup {"key"} => Len(menu) = 2
    /\ pc \in Sending \cup {"key"} \/ Len(menu) = 3 => act.d \in Drives

\* With a known hash version a Yes leads to the restart: until then the last
\* answer was No.
AnswerInv ==
    /\ hashes \in BOOLEAN
    /\ Confirm_Result \in {0, 1}
    /\ hashes /\ pc \in {"off", "menu", "show"} => Confirm_Result = 0
    /\ hashes /\ pc = "key" => yes
    /\ pc \in Sending => hashes /\ yes

\* The user password comes after the master password.
PhaseInv ==
    /\ pc \in {"mcmd", "mdata"} => act.fn = "LockHdd"
    /\ pc \in {"ucmd", "udata"} /\ act.fn = "LockHdd" =>
           d \in silent \/ disk[d].master = "XBOXLINUX"

HInv == /\ InputType /\ DiskType /\ PressInv /\ CallInv
        /\ MenuInv /\ AnswerInv /\ PhaseInv /\ LockedHasMaster

-----------------------------------------------------------------------------
(* Presses.                                                                *)

\* The buttons TextMenu asks for.
LEMMA ButtonSet == Buttons = {"UP", "DOWN", "A", "START", "B", "BACK"}
BY DEF Buttons, Order

\* A set of one element under a condition.
LEMMA AtMostOne ==
    ASSUME NEW x, NEW b, NEW S
    PROVE  /\ IsFiniteSet({y \in {x} : b \in S})
           /\ Cardinality({y \in {x} : b \in S}) = One(b \in S)
<1>1. CASE b \in S
  <2>1. {y \in {x} : b \in S} = {x}
    BY <1>1
  <2>2. One(b \in S) = 1
    BY <1>1 DEF One
  <2>3. IsFiniteSet({x}) /\ Cardinality({x}) = 1
    BY FS_Singleton
  <2> QED
    BY <2>1, <2>2, <2>3
<1>2. CASE b \notin S
  <2>1. {y \in {x} : b \in S} = {}
    BY <1>2
  <2>2. One(b \in S) = 0
    BY <1>2 DEF One
  <2> QED
    BY <2>1, <2>2, FS_EmptySet
<1> QED
  BY <1>1, <1>2

\* The members of two disjoint sets.
LEMMA DisjointCount ==
    ASSUME NEW S, NEW T, IsFiniteSet(S), IsFiniteSet(T), S \cap T = {}
    PROVE  IsFiniteSet(S \cup T) /\ Cardinality(S \cup T) = Cardinality(S) + Cardinality(T)
<1>1. /\ IsFiniteSet(S \cup T)
      /\ Cardinality(S \cup T) = Cardinality(S) + Cardinality(T) - Cardinality(S \cap T)
  BY FS_Union
<1>2. Cardinality(S \cap T) = 0
  BY FS_EmptySet
<1>3. Cardinality(S) \in Nat /\ Cardinality(T) \in Nat
  BY FS_CardinalityType
<1> QED
  BY <1>1, <1>2, <1>3

\* How many devices have a button.
LEMMA DevicesCount ==
    ASSUME NEW b
    PROVE  Devices(b) = One(b \in PadButtons) + One(b \in KbdKeys) + One(b \in IrKeys)
<1> DEFINE P == {x \in {<<1, PadButtons>>} : b \in PadButtons}
           K == {x \in {<<2, KbdKeys>>} : b \in KbdKeys}
           I == {x \in {<<3, IrKeys>>} : b \in IrKeys}
<1>1. {S \in {<<1, PadButtons>>, <<2, KbdKeys>>, <<3, IrKeys>>} : b \in S[2]} = (P \cup K) \cup I
  OBVIOUS
<1>2. /\ IsFiniteSet(P) /\ Cardinality(P) = One(b \in PadButtons)
      /\ IsFiniteSet(K) /\ Cardinality(K) = One(b \in KbdKeys)
      /\ IsFiniteSet(I) /\ Cardinality(I) = One(b \in IrKeys)
  BY AtMostOne
<1>3. P \cap K = {} /\ (P \cup K) \cap I = {}
  OBVIOUS
<1> HIDE DEF P, K, I
<1>4. IsFiniteSet(P \cup K) /\ Cardinality(P \cup K) = Cardinality(P) + Cardinality(K)
  BY <1>2, <1>3, DisjointCount
<1>5. Cardinality((P \cup K) \cup I) = Cardinality(P \cup K) + Cardinality(I)
  BY <1>2, <1>3, <1>4, DisjointCount
<1> QED
  BY <1>1, <1>2, <1>4, <1>5 DEF Devices

\* No button has more presses outstanding than devices.
WaitingFits == \A b \in Buttons : Waiting(b) \in 0 .. 3 /\ Waiting(b) <= Devices(b)

\* It follows from the types, before a step
LEMMA WaitingBound ==
    InputType => WaitingFits
<1> SUFFICES ASSUME InputType, NEW b \in Buttons
             PROVE  Waiting(b) \in 0 .. 3 /\ Waiting(b) <= Devices(b)
  BY DEF WaitingFits
<1>1. b # "none"
  BY ButtonSet
<1>2. /\ KbdWaits(b) => b \in KbdKeys
      /\ IrWaits(b) => b \in IrKeys
      /\ PadWaits(b) => b \in PadButtons
  BY <1>1 DEF InputType, KbdWaits, IrWaits, PadWaits
<1> QED
  BY <1>2, DevicesCount DEF Waiting, One

\* and after it.
LEMMA WaitingBoundAfter == InputType' => WaitingFits'
BY WaitingBound, PTL

\* What a press adds to the history, for whichever device it was.
LEMMA PressCounted ==
    ASSUME InputType, PressInv, InputType', NEW b \in Buttons, Pressed(b),
           Waiting(b)' <= Waiting(b) + 1,
           \A x \in Buttons \ {b} : Waiting(x)' <= Waiting(x)
    PROVE  PressInv'
<1>1. \A x \in Buttons : Waiting(x) \in 0 .. 3
  BY WaitingBound DEF WaitingFits
<1>2. WaitingFits'
  BY WaitingBoundAfter
<1>3. \A x \in Buttons : Waiting(x)' \in 0 .. 3 /\ Waiting(x)' <= Devices(x)
  BY <1>2 DEF WaitingFits, Devices
<1>4. Devices(b) \in Nat
  BY DevicesCount DEF One
<1>5. spare' = [spare EXCEPT ![b] = IF @ < Devices(b) THEN @ + 1 ELSE @]
  BY DEF Pressed
<1>6. spare'[b] >= Waiting(b)'
  <2>1. spare[b] \in Int /\ spare[b] >= Waiting(b)
    BY DEF InputType, PressInv
  <2>2. spare'[b] = IF spare[b] < Devices(b) THEN spare[b] + 1 ELSE spare[b]
    BY <1>5 DEF InputType
  <2> QED
    BY <1>1, <1>3, <1>4, <2>1, <2>2
<1>7. ASSUME NEW x \in Buttons \ {b} PROVE spare'[x] >= Waiting(x)'
  <2>1. spare[x] \in Int /\ spare[x] >= Waiting(x) /\ spare'[x] = spare[x]
    BY <1>5 DEF InputType, PressInv
  <2> QED
    BY <1>1, <1>3, <2>1
<1> QED
  BY <1>6, <1>7 DEF PressInv

\* Fewer presses outstanding.
LEMMA FewerWaiting ==
    ASSUME InputType, PressInv, InputType', spare' = spare,
           \A x \in Buttons : Waiting(x)' <= Waiting(x)
    PROVE  PressInv'
<1>1. \A x \in Buttons : Waiting(x) \in 0 .. 3
  BY WaitingBound DEF WaitingFits
<1>2. WaitingFits'
  BY WaitingBoundAfter
<1>3. ASSUME NEW x \in Buttons PROVE spare'[x] >= Waiting(x)'
  <2>1. spare[x] \in Int /\ spare[x] >= Waiting(x) /\ Waiting(x)' <= Waiting(x)
    BY DEF InputType, PressInv
  <2>2. Waiting(x)' \in 0 .. 3
    BY <1>2 DEF WaitingFits
  <2> QED
    BY <1>1, <2>1, <2>2
<1> QED
  BY <1>3 DEF PressInv

\* A press that was outstanding is used.
LEMMA OneUsed ==
    ASSUME InputType, PressInv, InputType', NEW b \in Buttons, Used(b),
           Waiting(b)' <= Waiting(b) - 1,
           \A x \in Buttons \ {b} : Waiting(x)' <= Waiting(x)
    PROVE  PressInv'
<1>1. \A x \in Buttons : Waiting(x) \in 0 .. 3
  BY WaitingBound DEF WaitingFits
<1>2. WaitingFits'
  BY WaitingBoundAfter
<1>3. ASSUME NEW x \in Buttons PROVE spare'[x] >= Waiting(x)'
  <2>1. spare[x] \in Int /\ spare[x] >= Waiting(x)
    BY DEF InputType, PressInv
  <2>2. Waiting(x)' \in 0 .. 3 /\ Waiting(x) \in 0 .. 3
    BY <1>1, <1>2 DEF WaitingFits
  <2>3. spare'[x] = IF x = b THEN spare[x] - 1 ELSE spare[x]
    BY DEF Used, InputType
  <2> QED
    BY <2>1, <2>2, <2>3
<1> QED
  BY <1>3 DEF PressInv

\* A step outside of risefall_xpad_BUTTON.
LEMMA NoInput ==
    ASSUME InputType, PressInv, rf = "call", UNCHANGED inputVars
    PROVE  InputType' /\ PressInv'
<1>1. UNCHANGED <<keys, history, kbd, ir, rf, spare>>
  BY DEF inputVars
<1>2. InputType'
  BY <1>1 DEF InputType
<1>3. \A x \in Buttons : Waiting(x)' = Waiting(x)
  BY <1>1 DEF Waiting, One, PadWaits, KbdWaits, IrWaits, FlagUnseen
<1>4. \A x \in Buttons : Waiting(x) \in 0 .. 3
  BY WaitingBound DEF WaitingFits
<1> QED
  BY <1>1, <1>2, <1>3, <1>4, FewerWaiting

\* A report of the pad.
LEMMA PadStep ==
    ASSUME InputType, PressInv, NEW b \in PadButtons, NEW v \in Levels(b), xpad_irq(b, v)
    PROVE  InputType' /\ PressInv'
<1>1. b \in Buttons /\ v \in 0 .. 255 /\ v # keys[b]
  BY InputAssumption DEF Levels, xpad_irq
<1>2. /\ keys' = [keys EXCEPT ![b] = v] /\ history' = history /\ kbd' = kbd /\ ir' = ir
      /\ rf' = rf /\ Asked' = Asked
  BY DEF xpad_irq, uiVars, Asked
<1>3. spare' \in [Buttons -> Int]
  <2>1. Devices(b) \in Nat
    BY DevicesCount DEF One
  <2>2. spare' = spare \/ spare' = [spare EXCEPT ![b] = IF @ < Devices(b) THEN @ + 1 ELSE @]
    BY DEF xpad_irq, Pressed
  <2> QED
    BY <1>1, <2>1, <2>2 DEF InputType
<1>4. InputType'
  BY <1>1, <1>2, <1>3 DEF InputType
<1>5. \A x \in Buttons \ {b} : Waiting(x)' = Waiting(x)
  BY <1>2 DEF Waiting, One, PadWaits, KbdWaits, IrWaits, FlagUnseen, InputType
<1>6. \A x \in Buttons : Waiting(x) \in 0 .. 3
  BY WaitingBound DEF WaitingFits
<1>7. CASE keys[b] = 0
  <2>1. Pressed(b)
    BY <1>7 DEF xpad_irq
  <2>2. Waiting(b)' <= Waiting(b) + 1
    BY <1>1, <1>2 DEF Waiting, One, PadWaits, KbdWaits, IrWaits, FlagUnseen
  <2> QED
    BY <1>1, <1>4, <1>5, <1>6, <2>1, <2>2, PressCounted
<1>8. CASE keys[b] # 0
  <2>1. spare' = spare
    BY <1>8 DEF xpad_irq
  <2>2. Waiting(b)' <= Waiting(b)
    BY <1>1, <1>2, <1>8 DEF Waiting, One, PadWaits, KbdWaits, IrWaits, FlagUnseen
  <2> QED
    BY <1>4, <1>5, <1>6, <2>1, <2>2, FewerWaiting
<1> QED
  BY <1>7, <1>8

\* A report of the keyboard.
LEMMA KbdStep ==
    ASSUME InputType, PressInv, NEW k \in KbdKeys \cup {"none"}, usb_kbd_irq(k)
    PROVE  InputType' /\ PressInv'
<1>1. /\ kbd # k /\ kbd' = k /\ keys' = keys /\ history' = history /\ ir' = ir
      /\ rf' = rf /\ Asked' = Asked
  BY DEF usb_kbd_irq, uiVars, Asked
<1>2. k # "none" => k \in Buttons
  BY ButtonSet, InputAssumption
<1>3. spare' \in [Buttons -> Int]
  <2>1. Devices(k) \in Nat
    BY DevicesCount DEF One
  <2>2. spare' = spare \/ spare' = [spare EXCEPT ![k] = IF @ < Devices(k) THEN @ + 1 ELSE @]
    BY DEF usb_kbd_irq, Pressed
  <2> QED
    BY <2>1, <2>2 DEF InputType
<1>4. InputType'
  BY <1>1, <1>3 DEF InputType
<1>5. \A x \in Buttons : Waiting(x) \in 0 .. 3
  BY WaitingBound DEF WaitingFits
<1>6. \A x \in Buttons \ {k} : Waiting(x)' <= Waiting(x)
  BY <1>1 DEF Waiting, One, PadWaits, KbdWaits, IrWaits, FlagUnseen
<1>7. CASE k # "none"
  <2>1. Pressed(k) /\ k \in Buttons
    BY <1>2, <1>7 DEF usb_kbd_irq
  <2>2. Waiting(k)' <= Waiting(k) + 1
    BY <1>1 DEF Waiting, One, PadWaits, KbdWaits, IrWaits, FlagUnseen
  <2> QED
    BY <1>4, <1>6, <2>1, <2>2, PressCounted
<1>8. CASE k = "none"
  <2>1. spare' = spare /\ k \notin Buttons
    BY <1>8, ButtonSet DEF usb_kbd_irq
  <2> QED
    BY <1>4, <1>6, <2>1, FewerWaiting
<1> QED
  BY <1>7, <1>8

\* A packet of the remote.
LEMMA IrStep ==
    ASSUME InputType, PressInv, NEW k \in IrKeys, NEW repeat \in BOOLEAN, xremote_irq(k, repeat)
    PROVE  InputType' /\ PressInv'
<1>1. /\ ir' = [key |-> k, repeat |-> repeat] /\ ir' # ir
      /\ kbd' = kbd /\ keys' = keys /\ history' = history /\ rf' = rf /\ Asked' = Asked
  BY DEF xremote_irq, uiVars, Asked
<1>2. k \in Buttons
  BY ButtonSet, InputAssumption
<1>3. spare' \in [Buttons -> Int]
  <2>1. Devices(k) \in Nat
    BY DevicesCount DEF One
  <2>2. spare' = spare \/ spare' = [spare EXCEPT ![k] = IF @ < Devices(k) THEN @ + 1 ELSE @]
    BY DEF xremote_irq, Pressed
  <2> QED
    BY <2>1, <2>2 DEF InputType
<1>4. InputType'
  BY <1>1, <1>3 DEF InputType
<1>5. \A x \in Buttons \ {k} : Waiting(x)' <= Waiting(x)
  BY <1>1 DEF Waiting, One, PadWaits, KbdWaits, IrWaits, FlagUnseen
<1>6. CASE repeat /\ ~FlagUnseen(k)
  <2>1. spare' = spare
    BY <1>6 DEF xremote_irq
  <2>2. Waiting(k)' <= Waiting(k)
    BY <1>1, <1>6 DEF Waiting, One, PadWaits, KbdWaits, IrWaits, FlagUnseen
  <2> QED
    BY <1>4, <1>5, <2>1, <2>2, FewerWaiting
<1>7. CASE ~(repeat /\ ~FlagUnseen(k))
  <2>1. Pressed(k)
    BY <1>7 DEF xremote_irq
  <2>2. Waiting(k)' <= Waiting(k) + 1
    BY <1>1 DEF Waiting, One, PadWaits, KbdWaits, IrWaits, FlagUnseen
  <2> QED
    BY <1>2, <1>4, <1>5, <2>1, <2>2, PressCounted
<1> QED
  BY <1>6, <1>7

\* The steps of risefall_xpad_BUTTON before its last: a match uses up a press
\* that was outstanding.
LEMMA DevicesStep ==
    ASSUME InputType, PressInv, AskDevices, ask \in 1 .. Len(Order)
    PROVE  InputType' /\ PressInv'
<1>0. Asked \in Buttons
  BY ButtonSet DEF Asked, Buttons
<1>1. PICK b \in Buttons : b = Asked
  BY <1>0
<1>2. /\ KbdMatch(b) \/ FlagClear(b) \/ IrMatch(b) \/ ClearKey
      /\ UNCHANGED <<keys, history, kbd>> /\ Asked' = b /\ Asked = b
  BY <1>1 DEF AskDevices, uiVars, Asked
<1>3. InputType'
  <2>1. rf' \in {"call", "key", "kbdhit", "irhit", "irhalf"}
    BY <1>2 DEF KbdMatch, FlagClear, IrMatch, ClearKey
  <2>2. ir' \in [key : IrKeys \cup {"none"}, repeat : BOOLEAN]
    BY <1>2 DEF KbdMatch, FlagClear, IrMatch, ClearKey, InputType
  <2>3. spare' \in [Buttons -> Int]
    BY <1>1, <1>2 DEF KbdMatch, FlagClear, IrMatch, ClearKey, Used, InputType
  <2> QED
    BY <1>2, <2>1, <2>2, <2>3 DEF InputType
<1>4. \A x \in Buttons : Waiting(x) \in 0 .. 3 /\ x # "none"
  BY WaitingBound, ButtonSet DEF WaitingFits
<1>5. \A x \in Buttons : PadWaits(x)' <=> PadWaits(x)
  BY <1>2 DEF PadWaits
<1>6. CASE KbdMatch(b)
  <2>1. rf = "call" /\ kbd = b /\ rf' = "kbdhit" /\ Used(b) /\ ir' = ir
    BY <1>6 DEF KbdMatch
  <2>2. \A x \in Buttons : /\ ~KbdWaits(x)' /\ (KbdWaits(x) <=> x = b)
                           /\ IrWaits(x)' <=> IrWaits(x)
    BY <1>2, <2>1 DEF KbdWaits, IrWaits, FlagUnseen
  <2>3. /\ Waiting(b)' <= Waiting(b) - 1
        /\ \A x \in Buttons \ {b} : Waiting(x)' <= Waiting(x)
    BY <1>1, <1>5, <2>2 DEF Waiting, One
  <2> QED
    BY <1>1, <1>3, <2>1, <2>3, OneUsed
<1>7. CASE FlagClear(b)
  <2>1. rf = "call" /\ rf' = "key" /\ ~ir.repeat /\ ir' = ir /\ spare' = spare
    BY <1>7 DEF FlagClear
  <2>2. \A x \in Buttons : (KbdWaits(x)' <=> KbdWaits(x)) /\ (IrWaits(x)' <=> IrWaits(x))
    BY <1>2, <2>1 DEF KbdWaits, IrWaits, FlagUnseen
  <2>3. \A x \in Buttons : Waiting(x)' <= Waiting(x)
    BY <1>5, <2>2 DEF Waiting, One
  <2> QED
    BY <1>3, <2>1, <2>3, FewerWaiting
<1>8. CASE IrMatch(b)
  <2>1. rf = "key" /\ ir.key = b /\ rf' = "irhit" /\ Used(b) /\ ir' = ir
    BY <1>8 DEF IrMatch
  <2>2. \A x \in Buttons : /\ ~IrWaits(x)' /\ (IrWaits(x) <=> x = b)
                           /\ KbdWaits(x)' <=> KbdWaits(x)
    BY <1>2, <2>1 DEF KbdWaits, IrWaits, FlagUnseen
  <2>3. /\ Waiting(b)' <= Waiting(b) - 1
        /\ \A x \in Buttons \ {b} : Waiting(x)' <= Waiting(x)
    BY <1>1, <1>5, <2>2 DEF Waiting, One
  <2> QED
    BY <1>1, <1>3, <2>1, <2>3, OneUsed
<1>9. CASE ClearKey
  <2>1. rf = "irhit" /\ rf' = "irhalf" /\ ir'.key = "none" /\ spare' = spare
    BY <1>9 DEF ClearKey, InputType
  <2>2. \A x \in Buttons : ~IrWaits(x)' /\ (KbdWaits(x)' <=> KbdWaits(x))
    BY <1>2, <1>4, <2>1 DEF KbdWaits, IrWaits
  <2>3. \A x \in Buttons : Waiting(x)' <= Waiting(x)
    BY <1>5, <2>2 DEF Waiting, One
  <2> QED
    BY <1>3, <2>1, <2>3, FewerWaiting
<1> QED
  BY <1>2, <1>3, <1>6, <1>7, <1>8, <1>9

\* The step in which it returns: a rising edge uses up a press of the pad.
LEMMA AskStep ==
    ASSUME InputType, PressInv, NEW b \in Buttons, risefall_xpad_BUTTON(b)
    PROVE  InputType' /\ PressInv' /\ rf' = "call"
<1>1. /\ rf \in {"kbdhit", "irhalf"} \/ PadTurn(b)
      /\ rf' = "call" /\ keys' = keys
      /\ kbd' = IF rf = "kbdhit" THEN "none" ELSE kbd
      /\ ir' = IF rf = "irhalf" THEN [ir EXCEPT !.repeat = FALSE] ELSE ir
      /\ history' = IF PadTurn(b)
                    THEN [history EXCEPT ![b] = IF Rising(b) THEN 1
                                                ELSE IF Falling(b) THEN 0 ELSE @]
                    ELSE history
      /\ IF PadHit(b) THEN Used(b) ELSE spare' = spare
  BY DEF risefall_xpad_BUTTON
<1>2. PadTurn(b) => rf \in {"call", "key"}
  BY DEF PadTurn
<1>3. InputType'
  <2>1. history' \in [Buttons -> {0, 1}]
    BY <1>1 DEF InputType
  <2>2. kbd' \in KbdKeys \cup {"none"} /\ ir' \in [key : IrKeys \cup {"none"}, repeat : BOOLEAN]
    BY <1>1 DEF InputType
  <2>3. spare' \in [Buttons -> Int]
    BY <1>1 DEF InputType, Used
  <2> QED
    BY <1>1, <2>1, <2>2, <2>3 DEF InputType
<1>4. \A x \in Buttons : Waiting(x) \in 0 .. 3 /\ x # "none"
  BY WaitingBound, ButtonSet DEF WaitingFits
<1>5. \A x \in Buttons : (KbdWaits(x)' => KbdWaits(x)) /\ (IrWaits(x)' => IrWaits(x))
  <2>1. ASSUME NEW x \in Buttons PROVE KbdWaits(x)' => KbdWaits(x)
    BY <1>1, <1>4 DEF KbdWaits
  <2>2. ASSUME NEW x \in Buttons PROVE IrWaits(x)' => IrWaits(x)
    <3>1. CASE rf = "irhalf"
      BY <1>1, <3>1 DEF IrWaits, FlagUnseen, InputType
    <3>2. CASE rf # "irhalf"
      BY <1>1, <1>2, <3>2 DEF IrWaits, FlagUnseen
    <3> QED
      BY <3>1, <3>2
  <2> QED
    BY <2>1, <2>2
<1>6. \A x \in Buttons \ {b} : PadWaits(x)' <=> PadWaits(x)
  BY <1>1 DEF PadWaits, InputType
<1>7. \A x \in Buttons \ {b} : Waiting(x)' <= Waiting(x)
  BY <1>5, <1>6 DEF Waiting, One
<1>8. CASE PadHit(b)
  <2>1. PadWaits(b) /\ ~PadWaits(b)'
    BY <1>1, <1>8 DEF PadHit, Rising, PadWaits, InputType
  <2>2. Waiting(b)' <= Waiting(b) - 1
    BY <1>5, <2>1 DEF Waiting, One
  <2> QED
    BY <1>1, <1>3, <1>7, <1>8, <2>2, OneUsed
<1>9. CASE ~PadHit(b)
  <2>1. PadWaits(b)' <=> PadWaits(b)
    BY <1>1, <1>9 DEF PadHit, Rising, Falling, PadWaits, InputType
  <2>2. Waiting(b)' <= Waiting(b)
    BY <1>5, <2>1 DEF Waiting, One
  <2> QED
    BY <1>1, <1>3, <1>7, <1>9, <2>2, FewerWaiting
<1> QED
  BY <1>1, <1>8, <1>9

-----------------------------------------------------------------------------
(* The menus.                                                              *)

Item == [fn : {"UnlockHdd", "LockHdd", "DisplayHddPassword"}, d : Drives]

\* Every entry of the hard disk menu is about a drive.
LEMMA ItemsType ==
    ASSUME DiskType
    PROVE  HddItems \in Seq(Item)
<1>1. ASSUME NEW n \in Drives PROVE DriveItems(n) \in Seq(Item)
  BY <1>1 DEF DriveItems, Item, DiskType
<1>2. /\ (IF 0 \in Drives THEN DriveItems(0) ELSE <<>>) \in Seq(Item)
      /\ (IF 1 \in Drives THEN DriveItems(1) ELSE <<>>) \in Seq(Item)
  BY <1>1
<1> QED
  BY <1>2 DEF HddItems

\* The entries change only when the settings are read again.
LEMMA ItemsStay ==
    ASSUME settings' = settings
    PROVE  HddItems' = HddItems
BY DEF HddItems, DriveItems

\* A menu is opened.
LEMMA PushShape ==
    ASSUME MenuShape, settings' = settings, NEW f \in Frame, Len(menu) \in 1 .. 2,
           f.name = Names[Len(menu) + 1], Len(menu) = 1 => f.item \in 1 .. Len(HddItems),
           menu' = Append(menu, f)
    PROVE  MenuShape' /\ Len(menu') = Len(menu) + 1
<1> DEFINE n == Len(menu)
<1>1. menu \in Seq(Frame) /\ n \in 1 .. 2
  BY DEF MenuShape
<1>2. /\ menu' \in Seq(Frame) /\ Len(menu') = n + 1 /\ menu'[n + 1] = f
      /\ \A k \in 1 .. n : menu'[k] = menu[k]
  BY <1>1
<1>3. HddItems' = HddItems
  BY ItemsStay
<1>4. \A k \in 1 .. n : menu[k].name = Names[k]
  BY DEF MenuShape
<1>5. n = 2 => menu[2].item \in 1 .. Len(HddItems)
  BY DEF MenuShape
<1> HIDE DEF n
<1>6. \A k \in 1 .. (n + 1) : menu'[k].name = Names[k]
  <2> SUFFICES ASSUME NEW k \in 1 .. (n + 1) PROVE menu'[k].name = Names[k]
    OBVIOUS
  <2>1. CASE k = n + 1
    BY <2>1, <1>2 DEF n
  <2>2. CASE k # n + 1
    <3>1. k \in 1 .. n
      BY <1>1, <2>2
    <3> QED
      BY <3>1, <1>2, <1>4
  <2> QED
    BY <2>1, <2>2
<1>7. menu'[2].item \in 1 .. Len(HddItems)
  <2>1. CASE n = 1
    BY <1>2, <2>1 DEF n
  <2>2. CASE n = 2
    BY <1>2, <1>5, <2>2
  <2> QED
    BY <1>1, <2>1, <2>2
<1> QED
  BY <1>1, <1>2, <1>3, <1>6, <1>7 DEF MenuShape, n

\* What is under the innermost menu.
LEMMA OuterFacts ==
    ASSUME MenuShape, Len(menu) \in 1 .. 3
    PROVE  /\ Outer \in Seq(Frame) /\ Len(Outer) = Len(menu) - 1
           /\ \A k \in 1 .. (Len(menu) - 1) : Outer[k] = menu[k]
           /\ Cur \in Frame /\ Cur = menu[Len(menu)] /\ Cur.name = Names[Len(menu)]
<1>1. menu \in Seq(Frame)
  BY DEF MenuShape
<1>2. Cur \in Frame /\ Cur.name = Names[Len(menu)]
  BY <1>1 DEF Cur, MenuShape
<1>3. /\ Outer \in Seq(Frame) /\ Len(Outer) = Len(menu) - 1
      /\ \A k \in 1 .. (Len(menu) - 1) : Outer[k] = menu[k]
  BY <1>1 DEF Outer
<1> QED
  BY <1>2, <1>3 DEF Cur

\* The depth of the nesting tells the menu.
LEMMA Depth ==
    ASSUME MenuShape
    PROVE  /\ Cur.name = "advanced" => Len(menu) = 1
           /\ Cur.name = "hdd" => Len(menu) = 2
           /\ Cur.name = "confirm" => Len(menu) = 3
<1>1. \A n \in 1 .. 3 : /\ Names[n] = "advanced" => n = 1
                        /\ Names[n] = "hdd" => n = 2
                        /\ Names[n] = "confirm" => n = 3
  <2>1. Names[1] = "advanced" /\ Names[2] = "hdd" /\ Names[3] = "confirm"
    BY DEF Names
  <2>2. \A n \in 1 .. 3 : n = 1 \/ n = 2 \/ n = 3
    OBVIOUS
  <2> QED
    BY <2>1, <2>2
<1>2. Len(menu) \in 1 .. 3
  BY DEF MenuShape
<1>3. Cur.name = Names[Len(menu)]
  BY <1>2, OuterFacts
<1> QED
  BY <1>1, <1>2, <1>3

\* The menus are left as they are.
LEMMA SameShape ==
    ASSUME MenuShape, settings' = settings, menu' = menu
    PROVE  MenuShape'
BY ItemsStay DEF MenuShape

\* A menu returns.
LEMMA PopShape ==
    ASSUME MenuShape, settings' = settings, Len(menu) \in 2 .. 3, menu' = Outer
    PROVE  MenuShape' /\ Len(menu') = Len(menu) - 1
<1>1. /\ menu' \in Seq(Frame) /\ Len(menu') = Len(menu) - 1
      /\ \A k \in 1 .. (Len(menu) - 1) : menu'[k] = menu[k]
  BY OuterFacts
<1>2. HddItems' = HddItems
  BY ItemsStay
<1>3. \A k \in 1 .. Len(menu') : menu'[k].name = Names[k]
  <2>1. \A k \in 1 .. Len(menu') : k \in 1 .. Len(menu) /\ k \in 1 .. (Len(menu) - 1)
    BY <1>1
  <2> QED
    BY <1>1, <2>1 DEF MenuShape
<1>4. Len(menu') >= 2 => menu'[2].item \in 1 .. Len(HddItems)
  <2>1. Len(menu') >= 2 => 2 \in 1 .. (Len(menu) - 1)
    BY <1>1
  <2> QED
    BY <1>1, <2>1 DEF MenuShape
<1> QED
  BY <1>1, <1>2, <1>3, <1>4 DEF MenuShape

\* The selection moves to an item of the menu.
LEMMA MoveShape ==
    ASSUME MenuShape, DiskType, settings' = settings, NEW i, Move(i)
    PROVE  MenuShape' /\ Len(menu') = Len(menu)
<1>1. CASE i \in 1 .. Size
  <2>1. /\ Outer \in Seq(Frame) /\ Len(Outer) = Len(menu) - 1 /\ Len(menu) \in 1 .. 3
        /\ \A k \in 1 .. (Len(menu) - 1) : Outer[k] = menu[k]
        /\ Cur \in Frame /\ Cur.name = Names[Len(menu)]
    BY OuterFacts DEF MenuShape
  <2> DEFINE f == [Cur EXCEPT !.item = i]
             n == Len(menu)
  <2>2. f \in Frame /\ f.name = Names[n] /\ f.item = i
    BY <1>1, <2>1 DEF Frame
  <2>3. menu' = Append(Outer, f)
    BY <1>1 DEF Move
  <2>4. n = 2 => i \in 1 .. Len(HddItems)
    <3>1. n = 2 => Cur.name = "hdd"
      BY <2>1 DEF Names
    <3> QED
      BY <1>1, <3>1 DEF Size
  <2>5. \A k \in 1 .. n : menu[k].name = Names[k]
    BY DEF MenuShape
  <2>6. n = 3 => menu[2].item \in 1 .. Len(HddItems)
    BY DEF MenuShape
  <2> HIDE DEF f, n
  <2>7. n \in 1 .. 3 /\ Len(Outer) = n - 1 /\ \A k \in 1 .. (n - 1) : Outer[k] = menu[k]
    BY <2>1 DEF n
  <2>8. /\ menu' \in Seq(Frame) /\ Len(menu') = n /\ menu'[n] = f
        /\ \A k \in 1 .. (n - 1) : menu'[k] = menu[k]
    BY <2>1, <2>2, <2>3, <2>7
  <2>9. \A k \in 1 .. n : menu'[k].name = Names[k]
    <3> SUFFICES ASSUME NEW k \in 1 .. n PROVE menu'[k].name = Names[k]
      OBVIOUS
    <3>1. k = n \/ k \in 1 .. (n - 1)
      BY <2>7
    <3> QED
      BY <3>1, <2>2, <2>5, <2>8
  <2>10. n >= 2 => menu'[2].item \in 1 .. Len(HddItems)
    <3>1. CASE n = 2
      BY <3>1, <2>2, <2>4, <2>8
    <3>2. CASE n = 3
      BY <3>2, <2>6, <2>8
    <3> QED
      BY <2>7, <3>1, <3>2
  <2> QED
    BY <2>7, <2>8, <2>9, <2>10, ItemsStay DEF MenuShape, n
<1>2. CASE i \notin 1 .. Size
  <2>1. menu' = menu
    BY <1>2 DEF Move
  <2> QED
    BY <2>1, ItemsStay DEF MenuShape
<1> QED
  BY <1>1, <1>2

\* What has to be seen to while a menu, or a password, is on the screen.
LEMMA InMenu ==
    ASSUME pc' \in {"menu", "show"}, ask' \in 1 .. Len(Order), MenuShape',
           Len(menu') = 3 => act'.d \in Drives,
           hashes' \in BOOLEAN, Confirm_Result' \in {0, 1}, hashes' => Confirm_Result' = 0
    PROVE  MenuInv' /\ AnswerInv' /\ PhaseInv'
<1>1. MenuInv'
  BY DEF MenuInv, Sending, Places
<1>2. AnswerInv'
  BY DEF AnswerInv, Sending
<1>3. PhaseInv'
  BY DEF PhaseInv
<1> QED
  BY <1>1, <1>2, <1>3

\* The question has been answered with Yes, now or some time ago.
LEMMA AtKey ==
    ASSUME pc' = "key", ask' \in 1 .. Len(Order), MenuShape', Len(menu') = 2,
           act'.d \in Drives, hashes' \in BOOLEAN, Confirm_Result' \in {0, 1}, hashes' => yes'
    PROVE  MenuInv' /\ AnswerInv' /\ PhaseInv'
<1>1. MenuInv'
  BY DEF MenuInv, Sending, Places
<1>2. AnswerInv'
  BY DEF AnswerInv, Sending
<1>3. PhaseInv'
  BY DEF PhaseInv
<1> QED
  BY <1>1, <1>2, <1>3

\* Choosing an entry of a menu.
LEMMA SelectStep ==
    ASSUME HInv, pc = "menu", Select, ask' = 1, UNCHANGED <<settings, disk, silent, hashes>>
    PROVE  MenuInv' /\ AnswerInv' /\ PhaseInv'
<1> USE DEF HInv
<1>1. MenuShape /\ Len(menu) \in 1 .. 3 /\ Cur \in Frame /\ Cur.name = Names[Len(menu)]
      /\ Cur = menu[Len(menu)]
  BY OuterFacts DEF MenuInv, MenuShape
<1>2. ask' \in 1 .. Len(Order)
  BY DEF Order
<1>3. Confirm_Result \in {0, 1} /\ hashes' = hashes /\ hashes \in BOOLEAN /\ (hashes => Confirm_Result = 0)
  BY DEF AnswerInv
<1>4. CASE Cur.name = "advanced" /\ DrawChildTextMenu
  <2>1. Len(menu) = 1
    BY <1>1, <1>4, Depth
  <2>2. PICK i \in 1 .. Len(HddItems) : menu' = Append(menu, [name |-> "hdd", item |-> i])
    BY <1>4 DEF DrawChildTextMenu
  <2>3. MenuShape' /\ Len(menu') = Len(menu) + 1
    <3>1. [name |-> "hdd", item |-> i] \in Frame
      BY DEF Frame
    <3>2. Names[Len(menu) + 1] = "hdd"
      BY <2>1 DEF Names
    <3> QED
      BY <1>1, <2>1, <2>2, <3>1, <3>2, PushShape
  <2>4. pc' = "menu" /\ Confirm_Result' = Confirm_Result
    BY <1>4 DEF DrawChildTextMenu
  <2> QED
    BY <1>2, <1>3, <2>1, <2>3, <2>4, InMenu, AtKey
<1>5. CASE /\ Cur.name = "hdd" /\ act' = HddItems[Cur.item]
           /\ IF act'.fn = "DisplayHddPassword" THEN DisplayHddPassword ELSE Confirm
  <2>1. Len(menu) = 2
    BY <1>1, <1>5, Depth
  <2>2. act'.d \in Drives
    <3>1. Cur.item \in 1 .. Len(HddItems)
      BY <1>1, <2>1 DEF MenuShape
    <3>2. act' \in Item
      BY <1>5, <3>1, ItemsType
    <3> QED
      BY <3>2 DEF Item
  <2>3. CASE DisplayHddPassword
    <3>1. pc' \in {"show", "menu"} /\ menu' = menu /\ Confirm_Result' = Confirm_Result
      BY <2>3 DEF DisplayHddPassword
    <3>2. MenuShape'
      BY <1>1, <3>1, ItemsStay DEF MenuShape
    <3> QED
      BY <1>2, <1>3, <2>1, <2>2, <3>1, <3>2, InMenu, AtKey
  <2>4. CASE Confirm
    <3>1. /\ menu' = Append(menu, [name |-> "confirm", item |-> 2])
          /\ pc' = pc /\ Confirm_Result' = Confirm_Result
      BY <2>4 DEF Confirm
    <3>2. MenuShape' /\ Len(menu') = Len(menu) + 1
      <4>1. [name |-> "confirm", item |-> 2] \in Frame
        BY DEF Frame
      <4>2. Names[Len(menu) + 1] = "confirm"
        BY <2>1 DEF Names
      <4> QED
        BY <1>1, <2>1, <3>1, <4>1, <4>2, PushShape
    <3> QED
      BY <1>2, <1>3, <2>1, <2>2, <3>1, <3>2, InMenu, AtKey
  <2> QED
    BY <1>5, <2>3, <2>4
<1>6. CASE /\ Cur.name = "confirm" /\ yes' = (Cur.item = 1)
           /\ Answered(IF Cur.item = 1 THEN 1 ELSE 0) /\ UNCHANGED act
  <2>1. Len(menu) = 3
    BY <1>1, <1>6, Depth
  <2>2. /\ menu' = Outer /\ act' = act
        /\ \/ Confirm_Result' = 1 /\ pc' = "key" /\ yes' = TRUE
           \/ Confirm_Result' = 0 /\ pc' = "menu"
    <3>1. CASE Cur.item = 1
      BY <1>6, <3>1 DEF Answered
    <3>2. CASE Cur.item # 1
      BY <1>6, <3>2 DEF Answered
    <3> QED
      BY <3>1, <3>2
  <2>3. MenuShape' /\ Len(menu') = Len(menu) - 1
    BY <1>1, <2>1, <2>2, PopShape
  <2>4. act.d \in Drives
    BY <2>1 DEF MenuInv
  <2> QED
    BY <1>2, <1>3, <2>1, <2>2, <2>3, <2>4, InMenu, AtKey
<1> QED
  BY <1>4, <1>5, <1>6 DEF Select

\* Leaving a menu.
LEMMA LeaveStep ==
    ASSUME HInv, pc = "menu", Leave, ask' = 1, UNCHANGED <<settings, disk, silent, hashes>>
    PROVE  MenuInv' /\ AnswerInv' /\ PhaseInv'
<1> USE DEF HInv
<1>1. MenuShape /\ Len(menu) \in 1 .. 3 /\ Cur.name = Names[Len(menu)]
  BY OuterFacts DEF MenuInv, MenuShape
<1>2. ask' \in 1 .. Len(Order)
  BY DEF Order
<1>3. Confirm_Result \in {0, 1} /\ hashes' = hashes /\ hashes \in BOOLEAN /\ (hashes => Confirm_Result = 0)
  BY DEF AnswerInv
<1>4. CASE Cur.name = "advanced" /\ UNCHANGED <<pc, menu, act, Confirm_Result, yes>>
  <2>1. MenuShape' /\ Len(menu) = 1
    BY <1>1, <1>4, Depth, SameShape
  <2> QED
    BY <1>2, <1>3, <1>4, <2>1, InMenu, AtKey
<1>5. CASE Cur.name = "hdd" /\ menu' = Outer /\ UNCHANGED <<pc, act, Confirm_Result, yes>>
  <2>1. Len(menu) = 2
    BY <1>1, <1>5, Depth
  <2>2. MenuShape' /\ Len(menu') = Len(menu) - 1
    BY <1>1, <1>5, <2>1, PopShape
  <2> QED
    BY <1>2, <1>3, <1>5, <2>1, <2>2, InMenu, AtKey
<1>6. CASE Cur.name = "confirm" /\ Answered(Confirm_Result) /\ UNCHANGED <<act, yes>>
  <2>1. Len(menu) = 3
    BY <1>1, <1>6, Depth
  <2>2. /\ menu' = Outer /\ act' = act /\ Confirm_Result' = Confirm_Result
        /\ pc' = IF Confirm_Result = 1 THEN "key" ELSE "menu"
    BY <1>6 DEF Answered
  <2>3. MenuShape' /\ Len(menu') = Len(menu) - 1
    BY <1>1, <2>1, <2>2, PopShape
  <2>4. act.d \in Drives
    BY <2>1 DEF MenuInv
  <2> QED
    BY <1>2, <1>3, <2>1, <2>2, <2>3, <2>4, InMenu, AtKey
<1> QED
  BY <1>4, <1>5, <1>6 DEF Leave

\* One call of the chain in TextMenu.
LEMMA TextMenuStep ==
    ASSUME HInv, TextMenu
    PROVE  HInv'
<1> USE DEF HInv
<1> DEFINE b == Order[ask]
<1>1. b \in Buttons /\ ask \in 1 .. 6
  BY DEF Buttons, Order, MenuInv
<1>2. /\ pc = "menu" /\ risefall_xpad_BUTTON(b)
      /\ UNCHANGED <<settings, disk, ERR, ours, silent, hashes>>
  BY DEF TextMenu, diskVars
<1>3. InputType' /\ PressInv' /\ CallInv'
  BY <1>1, <1>2, AskStep DEF CallInv
<1>4. DiskType' /\ LockedHasMaster'
  BY <1>2 DEF DiskType, LockedHasMaster
<1>5. MenuInv' /\ AnswerInv' /\ PhaseInv'
  <2>1. CASE ask' = (ask % Len(Order)) + 1 /\ UNCHANGED <<pc, menu, act, Confirm_Result, yes>>
    <3>1. ask' \in 1 .. Len(Order)
      <4>1. Len(Order) = 6
        BY DEF Order
      <4> QED
        BY <1>1, <2>1, <4>1
    <3>2. MenuShape'
      BY <1>2, <2>1, ItemsStay DEF MenuInv, MenuShape
    <3> QED
      BY <1>2, <2>1, <3>1, <3>2, InMenu DEF MenuInv, AnswerInv
  <2>2. ASSUME NEW i, ask' = 1, Move(i) PROVE MenuInv' /\ AnswerInv' /\ PhaseInv'
    <3>1. MenuShape' /\ Len(menu') = Len(menu)
      BY <1>2, <2>2, MoveShape DEF MenuInv
    <3>2. UNCHANGED <<pc, act, Confirm_Result, yes>>
      BY <2>2 DEF Move
    <3>3. ask' \in 1 .. Len(Order)
      BY <2>2 DEF Order
    <3> QED
      BY <1>2, <3>1, <3>2, <3>3, InMenu DEF MenuInv, AnswerInv
  <2>3. CASE ask' = 1 /\ Select
    BY <1>2, <2>3, SelectStep
  <2>4. CASE ask' = 1 /\ Leave
    BY <1>2, <2>4, LeaveStep
  <2> QED
    BY <2>1, <2>2, <2>3, <2>4 DEF TextMenu
<1> QED
  BY <1>3, <1>4, <1>5

-----------------------------------------------------------------------------
(* Power and the disk.                                                     *)

\* Nothing has been pressed and no menu is open after a start.
Rest ==
    /\ keys = [b \in Buttons |-> 0] /\ history = [b \in Buttons |-> 0]
    /\ kbd = "none" /\ ir = [key |-> "none", repeat |-> FALSE] /\ rf = "call"
    /\ spare = [b \in Buttons |-> 0]
    /\ menu = <<[name |-> "advanced", item |-> 1]>> /\ ask = 1
    /\ Confirm_Result = 0 /\ pc = "off" /\ hashes \in BOOLEAN

\* That is a state in which the user has done nothing yet.
LEMMA RestIsFine ==
    ASSUME Rest
    PROVE  InputType /\ PressInv /\ CallInv /\ MenuInv /\ AnswerInv /\ PhaseInv
<1> USE DEF Rest
<1>1. InputType
  BY DEF InputType
<1>2. PressInv
  <2> SUFFICES ASSUME NEW b \in Buttons PROVE spare[b] >= Waiting(b)
    BY DEF PressInv
  <2>1. b # "none"
    BY ButtonSet
  <2>2. ~KbdWaits(b) /\ ~IrWaits(b) /\ ~PadWaits(b)
    BY <2>1 DEF KbdWaits, IrWaits, PadWaits
  <2> QED
    BY <2>2 DEF Waiting, One
<1>3. MenuShape
  <2>1. menu \in Seq(Frame) /\ Len(menu) = 1 /\ menu[1].name = "advanced"
    BY DEF Frame
  <2>2. \A k \in 1 .. 1 : k = 1
    OBVIOUS
  <2> QED
    BY <2>1, <2>2 DEF MenuShape, Names
<1>4. MenuInv
  <2>1. Len(menu) = 1 /\ ask \in 1 .. Len(Order)
    BY DEF Order
  <2> QED
    BY <1>3, <2>1 DEF MenuInv, Sending, Places
<1>5. AnswerInv /\ PhaseInv /\ CallInv
  BY DEF AnswerInv, PhaseInv, CallInv, Sending
<1> QED
  BY <1>1, <1>2, <1>4, <1>5

\* The same after a step.
LEMMA RestIsFineAfter ==
    Rest' => (InputType /\ PressInv /\ CallInv /\ MenuInv /\ AnswerInv /\ PhaseInv)'
<1>1. Rest => InputType /\ PressInv /\ CallInv /\ MenuInv /\ AnswerInv /\ PhaseInv
  BY RestIsFine
<1> QED
  BY <1>1, PTL

\* The console starts switched off.
LEMMA HddInit == Init => HInv
<1> SUFFICES ASSUME Init PROVE HInv
  OBVIOUS
<1>1. Rest
  BY DEF Init, Cleared, Rest, Confirm_Start
<1>2. DiskType
  BY DEF Init, DiskType, Disk, Fresh
<1>3. LockedHasMaster
  BY DEF Init, LockedHasMaster
<1> QED
  BY <1>1, <1>2, <1>3, RestIsFine DEF HInv

\* The power goes off.
LEMMA OffStep ==
    ASSUME HInv, Off
    PROVE  HInv'
<1> USE DEF HInv
<1>1. Rest'
  BY DEF Off, Rest, Confirm_Start, AnswerInv
<1>2. DiskType' /\ LockedHasMaster'
  BY DEF Off, diskVars, DiskType, LockedHasMaster
<1> QED
  BY <1>1, <1>2, RestIsFineAfter

\* A drive keeps its master password, whatever it is told.
LEMMA DriveKeeps ==
    ASSUME NEW k \in Disk, NEW cmd \in {"SET_PASSWORD", "DISABLE", "UNLOCK"}
    PROVE  /\ PoweredOn(k) \in Disk /\ PoweredOn(k).master = k.master
           /\ AfterData(cmd, k) \in Disk /\ AfterData(cmd, k).master = k.master
BY DEF Disk, PoweredOn, AfterData

\* Starting the console.
LEMMA PowerOnStep ==
    ASSUME HInv, PowerOn
    PROVE  HInv'
<1> USE DEF HInv
<1> DEFINE on == [n \in Drives |-> PoweredOn(disk[n])]
<1>1. /\ pc = "off" /\ pc' = "menu"
      /\ settings' = [n \in Drives |-> on[n].locked]
      /\ disk' = [n \in Drives |-> BootIdeDriveInit(on[n])]
      /\ ERR' \in BOOLEAN
      /\ UNCHANGED <<inputVars, uiVars, hashes, ours, silent>>
  BY DEF PowerOn
<1>2. ASSUME NEW n \in Drives
      PROVE  /\ on[n] \in Disk /\ on[n].master = disk[n].master
             /\ disk'[n] \in Disk /\ disk'[n].master = disk[n].master
  <2>1. on[n] \in Disk /\ on[n].master = disk[n].master
    BY DriveKeeps DEF DiskType
  <2> HIDE DEF on
  <2>2. AfterData("UNLOCK", on[n]) \in Disk /\ AfterData("UNLOCK", on[n]).master = on[n].master
    BY <2>1, DriveKeeps
  <2>3. disk'[n] = on[n] \/ disk'[n] = AfterData("UNLOCK", on[n])
    BY <1>1 DEF BootIdeDriveInit
  <2> QED
    BY <2>1, <2>2, <2>3
<1> HIDE DEF on
<1>3. DiskType'
  <2>1. \A n \in Drives : on[n].locked \in BOOLEAN
    BY <1>2 DEF Disk
  <2> QED
    BY <1>1, <1>2, <2>1 DEF DiskType
<1>4. LockedHasMaster'
  BY <1>1, <1>2 DEF LockedHasMaster, DiskType
<1>5. InputType' /\ PressInv' /\ CallInv'
  <2>1. rf = "call" /\ rf' = rf
    BY <1>1 DEF CallInv, inputVars
  <2> QED
    BY <1>1, <2>1, NoInput DEF CallInv
<1>6. MenuInv' /\ AnswerInv' /\ PhaseInv'
  <2>1. menu' = menu /\ Len(menu) = 1 /\ ask' = ask /\ Confirm_Result' = Confirm_Result
    BY <1>1 DEF uiVars, MenuInv
  <2>2. MenuShape'
    BY <2>1 DEF MenuInv, MenuShape
  <2>3. ask' \in 1 .. Len(Order) /\ Confirm_Result' \in {0, 1} /\ (hashes' => Confirm_Result' = 0)
        /\ hashes' \in BOOLEAN
    BY <1>1, <2>1 DEF MenuInv, AnswerInv
  <2> QED
    BY <1>1, <2>1, <2>2, <2>3, InMenu
<1> QED
  BY <1>3, <1>4, <1>5, <1>6

\* The order of the commands, when locking and when unlocking.
LEMMA PhaseOrder ==
    /\ act.fn = "LockHdd" =>
        /\ Phases[1] = "mcmd" /\ PhaseAfter("mcmd") = "mdata" /\ PhaseAfter("mdata") = "ucmd"
        /\ PhaseAfter("ucmd") = "udata" /\ PhaseAfter("udata") = "identify"
    /\ act.fn # "LockHdd" =>
        /\ Phases[1] = "ucmd" /\ PhaseAfter("ucmd") = "udata" /\ PhaseAfter("udata") = "identify"
<1>1. CASE act.fn = "LockHdd"
  <2>1. Phases = <<"mcmd", "mdata", "ucmd", "udata", "identify">>
    BY <1>1 DEF Phases, Cmd
  <2>2. /\ (CHOOSE i \in DOMAIN Phases : Phases[i] = "mcmd") = 1
        /\ (CHOOSE i \in DOMAIN Phases : Phases[i] = "mdata") = 2
        /\ (CHOOSE i \in DOMAIN Phases : Phases[i] = "ucmd") = 3
        /\ (CHOOSE i \in DOMAIN Phases : Phases[i] = "udata") = 4
    BY <2>1
  <2> QED
    BY <1>1, <2>1, <2>2 DEF PhaseAfter
<1>2. CASE act.fn # "LockHdd"
  <2>1. Phases = <<"ucmd", "udata", "identify">>
    BY <1>2 DEF Phases, Cmd
  <2>2. /\ (CHOOSE i \in DOMAIN Phases : Phases[i] = "ucmd") = 1
        /\ (CHOOSE i \in DOMAIN Phases : Phases[i] = "udata") = 2
    BY <2>1
  <2> QED
    BY <1>2, <2>1, <2>2 DEF PhaseAfter
<1> QED
  BY <1>1, <1>2

\* Nothing but the program counter and the disk moves behind the confirmation.
LEMMA InSending ==
    ASSUME HInv, pc \in Sending \cup {"key"}, pc # "again", pc' \in Sending, hashes, yes,
           UNCHANGED <<inputVars, uiVars, settings, hashes>>,
           DiskType', PhaseInv', LockedHasMaster'
    PROVE  HInv'
<1> USE DEF HInv
<1>1. InputType' /\ PressInv' /\ CallInv'
  <2>1. rf = "call" /\ rf' = rf
    BY DEF CallInv, Sending, inputVars
  <2> QED
    BY <2>1, NoInput DEF CallInv
<1>2. menu' = menu /\ ask' = ask /\ act' = act /\ yes' = yes /\ Confirm_Result' = Confirm_Result
  BY DEF uiVars
<1>3. MenuShape'
  BY <1>2, SameShape DEF MenuInv
<1>4. Len(menu) = 2 /\ act.d \in Drives /\ ask \in 1 .. Len(Order)
  BY DEF MenuInv
<1>5. MenuInv'
  <2>1. pc' \in Places /\ pc' # "off"
    BY DEF Places, Sending
  <2> QED
    BY <1>2, <1>3, <1>4, <2>1 DEF MenuInv
<1>6. AnswerInv'
  BY <1>2 DEF AnswerInv, Sending
<1> QED
  BY <1>1, <1>5, <1>6

\* What the invariant says of the program behind the confirmation.
LEMMA SendingFacts ==
    ASSUME HInv, pc \in Sending
    PROVE  /\ hashes /\ yes /\ d \in Drives /\ d = act.d
           /\ disk \in [Drives -> Disk] /\ disk[d] \in Disk
BY DEF HInv, AnswerInv, MenuInv, DiskType, d

\* The password, and the wait for the drive.
LEMMA ReadyStep ==
    ASSUME HInv, CalculateDrivePassword \/ WaitNotBusy
    PROVE  HInv'
<1> USE DEF HInv
<1>1. /\ UNCHANGED <<inputVars, uiVars, diskVars, hashes>>
      /\ UNCHANGED <<settings, disk, ERR, ours, silent, act>>
  BY DEF CalculateDrivePassword, WaitNotBusy, diskVars, uiVars
<1>2. DiskType' /\ LockedHasMaster'
  BY <1>1 DEF DiskType, LockedHasMaster
<1>3. CASE CalculateDrivePassword /\ hashes
  <2>1. pc = "key" /\ pc' = "ready" /\ yes
    BY <1>3 DEF CalculateDrivePassword, AnswerInv
  <2>2. PhaseInv' /\ pc' \in Sending
    BY <2>1 DEF PhaseInv, Sending
  <2> QED
    BY <1>1, <1>2, <1>3, <2>1, <2>2, InSending
<1>4. CASE CalculateDrivePassword /\ ~hashes
  <2>1. pc = "key" /\ pc' = "menu"
    BY <1>4 DEF CalculateDrivePassword
  <2>2. menu' = menu /\ ask' = ask /\ Confirm_Result' = Confirm_Result /\ hashes' = hashes
    BY <1>1 DEF uiVars
  <2>3. MenuShape' /\ Len(menu') = 2 /\ ask' \in 1 .. Len(Order)
    BY <1>1, <2>1, <2>2, SameShape DEF MenuInv
  <2>4. MenuInv' /\ AnswerInv' /\ PhaseInv'
    BY <1>4, <2>1, <2>2, <2>3, InMenu DEF AnswerInv
  <2>5. InputType' /\ PressInv' /\ CallInv'
    <3>1. rf = "call" /\ rf' = rf
      BY <1>1, <2>1 DEF CallInv, inputVars
    <3> QED
      BY <1>1, <3>1, NoInput DEF CallInv
  <2> QED
    BY <1>2, <2>4, <2>5
<1>5. CASE WaitNotBusy
  <2>1. pc = "ready" /\ pc \in Sending /\ (pc' = "again" \/ pc' = Phases[1])
    BY <1>5 DEF WaitNotBusy, Sending
  <2>2. pc' = "again" \/ (pc' = "mcmd" /\ act.fn = "LockHdd") \/ (pc' = "ucmd" /\ act.fn # "LockHdd")
    BY <2>1, PhaseOrder
  <2>3. PhaseInv' /\ pc' \in Sending
    BY <1>1, <2>2 DEF PhaseInv, Sending
  <2> QED
    BY <1>1, <1>2, <2>1, <2>3, SendingFacts, InSending
<1> QED
  BY <1>3, <1>4, <1>5

\* A command word.
LEMMA CommandStep ==
    ASSUME HInv, IssueAtaCommand
    PROVE  HInv'
<1> USE DEF HInv
<1>1. /\ pc \in {"mcmd", "ucmd"} /\ pc \in Sending
      /\ UNCHANGED <<inputVars, uiVars, hashes, settings, disk, ours, silent, act>>
      /\ pc' = IF ERR' THEN "again" ELSE PhaseAfter(pc)
      /\ Outcome(TakesCommand(Cmd, disk[d]))
  BY DEF IssueAtaCommand, Sending, uiVars
<1>2. hashes /\ yes /\ disk[d] \in Disk
  BY <1>1, SendingFacts
<1>3. ERR' \in BOOLEAN
  BY <1>1 DEF Outcome
<1>4. DiskType' /\ LockedHasMaster'
  BY <1>1, <1>3 DEF DiskType, LockedHasMaster
<1>5. \/ pc' = "again"
      \/ pc' = "mdata" /\ act.fn = "LockHdd"
      \/ pc' = "udata" /\ pc = "ucmd"
  BY <1>1, <1>3, PhaseOrder DEF PhaseInv
<1>6. d' = d
  BY <1>1 DEF d
<1>7. PhaseInv' /\ pc' \in Sending
  BY <1>1, <1>5, <1>6 DEF PhaseInv, Sending
<1> QED
  BY <1>1, <1>2, <1>4, <1>7, InSending

\* The master password: the drive has it, or is remembered as silent.
LEMMA MasterStep ==
    ASSUME HInv, WriteMaster
    PROVE  HInv'
<1> USE DEF HInv
<1>1. /\ pc = "mdata" /\ pc \in Sending
      /\ UNCHANGED <<inputVars, uiVars, hashes, settings, ours, act>>
      /\ Outcome(TRUE)
      /\ disk' = IF ERR' THEN disk ELSE [disk EXCEPT ![d].master = "XBOXLINUX"]
      /\ silent' = IF ERR' THEN silent \cup {d} ELSE silent
      /\ pc' = PhaseAfter(pc)
  BY DEF WriteMaster, Sending, uiVars
<1>2. hashes /\ yes /\ d \in Drives /\ disk \in [Drives -> Disk] /\ disk[d] \in Disk
  BY <1>1, SendingFacts
<1>3. ERR' \in BOOLEAN
  BY <1>1 DEF Outcome
<1>4. pc' = "ucmd"
  BY <1>1, PhaseOrder DEF PhaseInv
<1>5. d' = d
  BY <1>1 DEF d
<1>6. /\ disk' \in [Drives -> Disk]
      /\ \A n \in Drives : disk[n].master = "XBOXLINUX" => disk'[n].master = "XBOXLINUX"
      /\ d \in silent' \/ disk'[d].master = "XBOXLINUX"
      /\ silent \subseteq silent'
  <2>1. CASE ERR'
    BY <1>1, <1>2, <2>1
  <2>2. CASE ~ERR'
    <3>1. [disk[d] EXCEPT !.master = "XBOXLINUX"] \in Disk
      BY <1>2 DEF Disk
    <3>2. disk' = [disk EXCEPT ![d] = [disk[d] EXCEPT !.master = "XBOXLINUX"]] /\ silent' = silent
      BY <1>1, <1>2, <2>2
    <3>3. [disk[d] EXCEPT !.master = "XBOXLINUX"].master = "XBOXLINUX"
      BY <1>2 DEF Disk
    <3> QED
      BY <1>2, <3>1, <3>2, <3>3
  <2> QED
    BY <1>3, <2>1, <2>2
<1>7. DiskType' /\ LockedHasMaster'
  BY <1>1, <1>3, <1>6 DEF DiskType, LockedHasMaster
<1>8. PhaseInv' /\ pc' \in Sending
  BY <1>4, <1>5, <1>6 DEF PhaseInv, Sending
<1> QED
  BY <1>1, <1>2, <1>7, <1>8, InSending

\* The user password: the drive joins those locked here.
LEMMA UserStep ==
    ASSUME HInv, WriteUser
    PROVE  HInv'
<1> USE DEF HInv
<1>1. /\ pc = "udata" /\ pc \in Sending
      /\ UNCHANGED <<inputVars, uiVars, hashes, settings, silent, act>>
      /\ Outcome(TakesData(Cmd, disk[d]))
      /\ disk' = IF ERR' THEN disk ELSE [disk EXCEPT ![d] = AfterData(Cmd, disk[d])]
      /\ ours' = IF ERR' \/ Cmd = "DISABLE" THEN ours ELSE ours \cup {d}
      /\ pc' = IF ERR' THEN "again" ELSE PhaseAfter(pc)
  BY DEF WriteUser, Sending, uiVars
<1>2. hashes /\ yes /\ d \in Drives /\ disk \in [Drives -> Disk] /\ disk[d] \in Disk
  BY <1>1, SendingFacts
<1>3. ERR' \in BOOLEAN
  BY <1>1 DEF Outcome
<1>4. pc' \in {"again", "identify"}
  BY <1>1, <1>3, PhaseOrder
<1>5. disk' \in [Drives -> Disk] /\ \A n \in Drives : disk'[n].master = disk[n].master
  <2>1. AfterData(Cmd, disk[d]) \in Disk /\ AfterData(Cmd, disk[d]).master = disk[d].master
    <3>1. Cmd \in {"SET_PASSWORD", "DISABLE", "UNLOCK"}
      BY DEF Cmd
    <3> QED
      BY <1>2, <3>1, DriveKeeps
  <2> QED
    BY <1>1, <1>2, <2>1
<1>6. \A n \in ours' \ silent' : n \in ours \/ (n = d /\ Cmd # "DISABLE")
  BY <1>1
<1>7. Cmd # "DISABLE" => d \in silent \/ disk[d].master = "XBOXLINUX"
  BY <1>1 DEF PhaseInv, Cmd
<1>8. LockedHasMaster'
  <2> SUFFICES ASSUME NEW n \in ours' \ silent' PROVE disk'[n].master = "XBOXLINUX"
    BY DEF LockedHasMaster
  <2>1. n \notin silent
    BY <1>1
  <2>2. CASE n \in ours
    BY <1>5, <2>1, <2>2 DEF LockedHasMaster, DiskType
  <2>3. CASE n = d /\ Cmd # "DISABLE"
    BY <1>2, <1>5, <1>7, <2>1, <2>3
  <2> QED
    BY <1>6, <2>2, <2>3
<1>9. DiskType'
  BY <1>1, <1>2, <1>3, <1>5 DEF DiskType
<1>10. PhaseInv' /\ pc' \in Sending
  BY <1>4 DEF PhaseInv, Sending
<1> QED
  BY <1>1, <1>2, <1>8, <1>9, <1>10, InSending

\* The closing IDENTIFY.
LEMMA IdentifyStep ==
    ASSUME HInv, Identify
    PROVE  HInv'
<1> USE DEF HInv
<1>1. /\ pc = "identify" /\ pc \in Sending /\ pc' = "again" /\ ERR' \in BOOLEAN
      /\ UNCHANGED <<inputVars, uiVars, hashes, settings, disk, ours, silent>>
  BY DEF Identify, Outcome, Sending
<1>2. hashes /\ yes
  BY <1>1, SendingFacts
<1>3. DiskType' /\ LockedHasMaster' /\ PhaseInv' /\ pc' \in Sending
  BY <1>1 DEF DiskType, LockedHasMaster, PhaseInv, Sending
<1> QED
  BY <1>1, <1>2, <1>3, InSending

-----------------------------------------------------------------------------
(* All steps together, and the theorems.                                   *)

\* Steps that leave the menus and the disks alone.
LEMMA InputOnly ==
    ASSUME HInv, InputType', PressInv', CallInv', UNCHANGED <<uiVars, diskVars, pc, hashes>>
    PROVE  HInv'
<1> USE DEF HInv
<1>1. UNCHANGED <<menu, ask, act, Confirm_Result, yes, settings, disk, ERR, ours, silent>>
  BY DEF uiVars, diskVars
<1>2. DiskType' /\ LockedHasMaster'
  BY <1>1 DEF DiskType, LockedHasMaster
<1>3. MenuShape'
  BY <1>1, SameShape DEF MenuInv
<1>4. MenuInv'
  BY <1>1, <1>3 DEF MenuInv
<1>5. AnswerInv'
  BY <1>1 DEF AnswerInv
<1>6. d' = d
  BY <1>1 DEF d
<1>7. PhaseInv'
  BY <1>1, <1>6 DEF PhaseInv
<1> QED
  BY <1>2, <1>4, <1>5, <1>7

\* The two loops that wait for A.
LEMMA WaitForAStep ==
    ASSUME HInv, ShowUntilA \/ RebootOnA
    PROVE  HInv'
<1> USE DEF HInv
<1>1. "A" \in Buttons
  BY ButtonSet
<1>2. CASE ShowUntilA
  <2>1. /\ pc = "show" /\ pc' \in {"menu", "show"} /\ risefall_xpad_BUTTON("A")
        /\ UNCHANGED <<uiVars, diskVars, hashes>>
        /\ UNCHANGED <<menu, ask, act, Confirm_Result, settings, disk, ERR, ours, silent>>
    BY <1>2 DEF ShowUntilA, uiVars, diskVars
  <2>2. InputType' /\ PressInv' /\ CallInv'
    BY <1>1, <2>1, AskStep DEF CallInv
  <2>3. MenuShape'
    BY <2>1, SameShape DEF MenuInv
  <2>4. MenuInv' /\ AnswerInv' /\ PhaseInv'
    BY <2>1, <2>3, InMenu DEF MenuInv, AnswerInv
  <2>5. DiskType' /\ LockedHasMaster'
    BY <2>1 DEF DiskType, LockedHasMaster
  <2> QED
    BY <2>2, <2>4, <2>5
<1>3. CASE RebootOnA
  <2>1. CASE Off
    BY <2>1, OffStep
  <2>2. CASE risefall_xpad_BUTTON("A") /\ UNCHANGED <<pc, uiVars, diskVars, hashes>>
    BY <1>1, <2>2, AskStep, InputOnly DEF CallInv
  <2> QED
    BY <1>3, <2>1, <2>2 DEF RebootOnA
<1> QED
  BY <1>2, <1>3

\* The steps of risefall_xpad_BUTTON before its last.
LEMMA AskDevicesStep ==
    ASSUME HInv, AskDevices
    PROVE  HInv'
<1> USE DEF HInv
<1>1. ask \in 1 .. Len(Order)
  BY DEF MenuInv
<1>2. InputType' /\ PressInv'
  BY <1>1, DevicesStep
<1>3. CallInv' /\ UNCHANGED <<uiVars, diskVars, pc, hashes>>
  BY DEF AskDevices, CallInv
<1> QED
  BY <1>2, <1>3, InputOnly

\* Every step keeps the invariant.
LEMMA HddNext == HInv /\ [Next]_vars => HInv'
<1> SUFFICES ASSUME HInv, [Next]_vars PROVE HInv'
  OBVIOUS
<1> USE DEF HInv
<1>1. CASE PowerOn
  BY <1>1, PowerOnStep
<1>2. CASE PowerLoss
  BY <1>2, OffStep DEF PowerLoss
<1>3. ASSUME NEW b \in PadButtons, NEW v \in Levels(b), xpad_irq(b, v) PROVE HInv'
  <2>1. InputType' /\ PressInv'
    BY <1>3, PadStep
  <2> QED
    BY <1>3, <2>1, InputOnly DEF xpad_irq, CallInv
<1>4. ASSUME NEW k \in KbdKeys \cup {"none"}, usb_kbd_irq(k) PROVE HInv'
  <2>1. InputType' /\ PressInv'
    BY <1>4, KbdStep
  <2> QED
    BY <1>4, <2>1, InputOnly DEF usb_kbd_irq, CallInv
<1>5. ASSUME NEW k \in IrKeys, NEW repeat \in BOOLEAN, xremote_irq(k, repeat) PROVE HInv'
  <2>1. InputType' /\ PressInv'
    BY <1>5, IrStep
  <2> QED
    BY <1>5, <2>1, InputOnly DEF xremote_irq, CallInv
<1>6. CASE Step
  BY <1>6, AskDevicesStep, TextMenuStep, WaitForAStep, ReadyStep, CommandStep, MasterStep, UserStep, IdentifyStep
     DEF Step
<1>7. CASE UNCHANGED vars
  <2>1. /\ UNCHANGED <<uiVars, diskVars, pc, hashes>>
        /\ UNCHANGED <<keys, history, kbd, ir, rf, spare>> /\ Asked' = Asked
    BY <1>7 DEF vars, inputVars, uiVars, Asked
  <2>2. InputType' /\ PressInv' /\ CallInv'
    BY <2>1 DEF InputType, PressInv, CallInv, Waiting, One, KbdWaits, IrWaits, FlagUnseen, PadWaits
  <2> QED
    BY <2>1, <2>2, InputOnly
<1> QED
  BY <1>1, <1>2, <1>3, <1>4, <1>5, <1>6, <1>7 DEF Next

\* The invariant holds in every state of the program.
THEOREM HddInvariance == Spec => []HInv
  BY HddInit, HddNext, PTL DEF Spec

\* An action of a menu uses up a press of its own, on every device, where a
\* packet of the remote counts if risefall_xpad_BUTTON does not see its flag.
THEOREM HddOnePressOneAction == Spec => []OnePressOneAction
<1>1. HInv => OnePressOneAction
  <2> SUFFICES ASSUME HInv, NEW b \in Buttons PROVE spare[b] >= 0
    BY DEF OnePressOneAction
  <2>1. Waiting(b) \in 0 .. 3
    BY WaitingBound DEF HInv, WaitingFits
  <2>2. spare[b] \in Int /\ spare[b] >= Waiting(b)
    BY DEF HInv, InputType, PressInv
  <2> QED
    BY <2>1, <2>2
<1> QED
  BY <1>1, HddInvariance, PTL

\* No security command is sent without Yes to the question just asked.
THEOREM HddSecurityNeedsYes == Spec => []SecurityNeedsYes
<1>1. HInv => SecurityNeedsYes
  BY DEF HInv, AnswerInv, Sending, SecurityNeedsYes
<1> QED
  BY <1>1, HddInvariance, PTL

\* A drive locked here opens with the master password unless it refused it.
THEOREM HddLockedHasMaster == Spec => []LockedHasMaster
<1>1. HInv => LockedHasMaster
  BY DEF HInv
<1> QED
  BY <1>1, HddInvariance, PTL
=============================================================================
