--------------------------- MODULE BootFlashProofs ---------------------------
(***************************************************************************)
(* Proofs about the flash engine, for every chip, image, region and        *)
(* geometry.                                                               *)
(*                                                                         *)
(* The inductive invariant says what the two loops have established so     *)
(* far: behind the erase address everything is 0xff, behind the program    *)
(* address everything is the image, ahead of it everything is still 0xff   *)
(* (the byte under work may be half programmed).                           *)
(***************************************************************************)
EXTENDS BootFlash, TLAPS

\* The region fits the chip once the sanity checks are passed.
Fits == pc \notin {"descriptor", "returned", "off"} => End <= chip.len

\* What the loops have done so far.
LoopInv ==
    /\ pc \in {"descriptor", "erase", "program", "failed"} => fMore
    /\ pc \in {"erase", "program"} => dw >= StartOffset /\ tries >= 1
    /\ pc = "erase" => \A a \in Region : a < dw => flash[a] = Erased
    /\ pc = "program" => \A a \in Region :
            /\ a < dw => flash[a] = pba[a - StartOffset]
            /\ a = dw => pba[a - StartOffset] \subseteq flash[a]
            /\ a > dw => flash[a] = Erased

\* The whole chip is to be reflashed: the last try may use the chip erase.
WholeChip == StartOffset = 0 /\ Length = chip.len

\* The erase commands a 4K block can have cost when t tries are left: those
\* of the first try are counted at t = MaxTries.
Cost(t) ==
    IF f28 THEN MaxTries + 1 - t
    ELSE 2 * (MaxTries + 1 - t) + (IF WholeChip /\ t < 2 THEN 1 ELSE 0)

\* Erase commands counted by block agree with the retry counter.
WearInv ==
    /\ EraseWearBounded
    /\ pc = "descriptor" => \A b \in Blocks : sent[b] = 0
    /\ pc = "erase" =>
        /\ last = NoAddr => \A b \in Blocks : sent[b] = 0
        /\ last # NoAddr =>
            /\ last <= dw
            /\ sent[BlockOf(last)] <= Cost(tries)
            /\ \A b \in Blocks : b > BlockOf(last) => sent[b] = 0

\* The inductive invariant.
IInv ==
    /\ TypeOK
    /\ Fits
    /\ LoopInv
    /\ ProgramEstablishesImage
    /\ RebootsOnlyComplete
    /\ OutsideUntouched
    /\ WearInv

-----------------------------------------------------------------------------
\* Rounding down to a block keeps the order of addresses.
LEMMA DivMonotone ==
    ASSUME NEW a \in Nat, NEW b \in Nat, NEW n \in Nat \ {0}, a <= b
    PROVE  a \div n <= b \div n
OBVIOUS

\* The constants as the provers need them.
LEMMA Layout ==
    /\ StartOffset \in Nat /\ Length \in Nat \ {0} /\ End \in Nat
    /\ StartOffset < End
    /\ BlockSize \in Nat \ {0} /\ SectorSize \in Nat \ {0}
BY LayoutAssumption DEF LayoutAssumption, End

\* The length of a chip is a positive number.
LEMMA ChipLen == ASSUME chip \in Chips PROVE chip.len \in Nat \ {0}
BY LayoutAssumption DEF LayoutAssumption, Chips

\* Addresses of the region are addresses of the chip.
LEMMA RegionInChip ==
    ASSUME chip \in Chips, End <= chip.len
    PROVE  Region \subseteq Addr
BY ChipLen, Layout DEF Region, Addr

\* Initially nothing has been done.
LEMMA InitInv == Init => IInv
<1> SUFFICES ASSUME Init PROVE IInv
  OBVIOUS
<1>1. TypeOK
  <2>1. DataType
    BY DEF Init, DataType
  <2>2. FlagType
    BY DEF Init, FlagType
  <2>3. LoopType
    BY Layout DEF Init, LoopType, PC, MaxTries
  <2> QED
    BY <2>1, <2>2, <2>3 DEF TypeOK
<1>2. Fits /\ LoopInv /\ ProgramEstablishesImage /\ RebootsOnlyComplete
  BY DEF Init, Fits, LoopInv, ProgramEstablishesImage, RebootsOnlyComplete
<1>3. OutsideUntouched
  BY DEF Init, OutsideUntouched
<1>4. WearInv
  BY DEF Init, WearInv, EraseWearBounded, MaxErases, MaxTries
<1> QED
  BY <1>1, <1>2, <1>3, <1>4 DEF IInv

-----------------------------------------------------------------------------
\* The names of the steps, to split [Next]_vars.
LEMMA StepCases ==
    ASSUME [Next]_vars
    PROVE  \/ GetDescriptor \/ EraseSkip \/ EraseGiveUp \/ Erase28
           \/ Erase29Block \/ Erase29Ignored \/ EraseDone
           \/ ProgramSkip \/ ProgramGiveUp \/ Program28 \/ Program29 \/ ProgramDone
           \/ Verify \/ ChipReady \/ PressA \/ Reboot \/ PowerLoss \/ Heal
           \/ UNCHANGED vars
BY DEF Next, Step, Erase, Program

\* The image, the chip and the history of its content never change.
LEMMA ConstantParts ==
    ASSUME [Next]_vars
    PROVE  chip' = chip /\ pba' = pba /\ orig' = orig
<1> USE DEF vars, chipVars
<1> QED
  BY StepCases DEF GetDescriptor, EraseSkip, EraseGiveUp, Erase28,
     Erase29Block, Erase29Ignored, EraseDone, ProgramSkip, ProgramGiveUp,
     Program28, Program29, ProgramDone, Verify, ChipReady, PressA, Reboot,
     PowerLoss, Heal

\* An erase attempt works on a byte of the region.
LEMMA EraseInRegion ==
    ASSUME IInv, EraseLoop
    PROVE  /\ dw \in Region /\ dw \in Addr /\ BlockOf(dw) \in Blocks
           /\ dw + 1 \in 0 .. End
<1>1. dw \in Region
  BY Layout DEF IInv, LoopInv, TypeOK, LoopType, EraseLoop, Region
<1>2. dw \in Addr
  BY <1>1, RegionInChip DEF IInv, Fits, TypeOK, DataType, EraseLoop
<1> QED
  BY <1>1, <1>2, Layout DEF Blocks, Region

\* A program attempt works on a byte of the region.
LEMMA ProgramInRegion ==
    ASSUME IInv, ProgramLoop
    PROVE  /\ dw \in Region /\ dw \in Addr /\ dw + 1 \in 0 .. End
           /\ dw - StartOffset \in 0 .. (Length - 1)
<1>1. dw \in Region
  BY Layout DEF IInv, LoopInv, TypeOK, LoopType, ProgramLoop, Region
<1>2. dw \in Addr
  BY <1>1, RegionInChip DEF IInv, Fits, TypeOK, DataType, ProgramLoop
<1> QED
  BY <1>1, <1>2, Layout DEF Region, End

\* What an erase command leaves behind has the type of a flash content.
LEMMA ClearType ==
    ASSUME DataType, chip' = chip, NEW S, Clear(S)
    PROVE  flash' \in [Addr' -> Byte]
BY DEF DataType, Clear, Addr, Byte, Erased

\* So has what a program command leaves behind.
LEMMA ProgramByteType ==
    ASSUME DataType, chip' = chip, ProgramByte
    PROVE  flash' \in [Addr' -> Byte]
BY DEF DataType, ProgramByte, Addr, Byte

-----------------------------------------------------------------------------
\* Every step keeps the types.
LEMMA TypeStep ==
    ASSUME IInv, [Next]_vars
    PROVE  TypeOK'
<1> USE DEF chipVars, loopVars
<1>0. chip' = chip /\ pba' = pba /\ orig' = orig /\ Addr' = Addr
      /\ Blocks' = Blocks /\ TypeOK
  BY ConstantParts DEF Addr, Blocks, IInv
<1>1. CASE GetDescriptor
  <2>1. FlagType'
    BY <1>0, <1>1 DEF TypeOK, FlagType, GetDescriptor, Return, EnterErase, Detected28
  <2>2. DataType'
    BY <1>0, <1>1 DEF TypeOK, DataType, GetDescriptor
  <2>3. LoopType'
    BY <1>0, <1>1, Layout DEF TypeOK, LoopType, GetDescriptor, Return, EnterErase,
       PC, MaxTries, Region
  <2> QED BY <2>1, <2>2, <2>3 DEF TypeOK
<1>2. CASE EraseSkip
  BY <1>0, <1>2, EraseInRegion DEF EraseSkip, TypeOK, DataType, FlagType, LoopType, Region
<1>3. CASE EraseGiveUp
  BY <1>0, <1>3 DEF EraseGiveUp, EraseReturnsFalse, TypeOK, DataType, FlagType,
     LoopType, PC, MaxTries, Region
<1>4. ASSUME NEW n \in Nat, EraseAttempt(n)
      PROVE  /\ last' \in {NoAddr} \cup Region
             /\ tries' \in 0 .. MaxTries
             /\ sent' \in [Blocks -> Nat]
  <2>1. dw \in Region /\ BlockOf(dw) \in Blocks
    BY <1>4, EraseInRegion DEF EraseAttempt
  <2>2. sent' \in [Blocks -> Nat]
    BY <1>0, <1>4, <2>1 DEF EraseAttempt, TypeOK, LoopType
  <2>3. last' \in {NoAddr} \cup Region
    BY <1>0, <1>4, <2>1 DEF EraseAttempt, TypeOK, LoopType
  <2>4. tries' \in 0 .. MaxTries
    BY <1>0, <1>4 DEF EraseAttempt, EraseLoop, EraseTriesLeft, TypeOK, LoopType,
       MaxTries, IInv, LoopInv
  <2> QED BY <2>2, <2>3, <2>4
<1>5. CASE Erase28
  <2>1. DataType'
    BY <1>0, <1>5, ClearType DEF Erase28, TypeOK, DataType
  <2>2. FlagType'
    BY <1>0, <1>5 DEF Erase28, EraseReturnsFalse, Wait, TypeOK, FlagType
  <2>3. LoopType'
    BY <1>0, <1>4, <1>5 DEF Erase28, EraseReturnsFalse, TypeOK, LoopType, PC, Region
  <2> QED BY <2>1, <2>2, <2>3 DEF TypeOK
<1>6. CASE Erase29Block
  <2>1. DataType'
    BY <1>0, <1>6, ClearType DEF Erase29Block, TypeOK, DataType
  <2>2. FlagType'
    BY <1>0, <1>6 DEF Erase29Block, Wait, TypeOK, FlagType
  <2>3. LoopType'
    BY <1>0, <1>4, <1>6 DEF Erase29Block, TypeOK, LoopType, Region
  <2> QED BY <2>1, <2>2, <2>3 DEF TypeOK
<1>7. CASE Erase29Ignored
  <2>1. DataType'
    BY <1>0, <1>7, ClearType DEF Erase29Ignored, TypeOK, DataType
  <2>2. FlagType'
    BY <1>0, <1>7 DEF Erase29Ignored, Wait, TypeOK, FlagType
  <2>3. LoopType'
    BY <1>0, <1>4, <1>7 DEF Erase29Ignored, TypeOK, LoopType, Region
  <2> QED BY <2>1, <2>2, <2>3 DEF TypeOK
<1>8. CASE EraseDone
  <2>1. DataType' /\ FlagType'
    BY <1>0, <1>8 DEF EraseDone, TypeOK, DataType, FlagType
  <2>2. LoopType'
    BY <1>0, <1>8, Layout DEF EraseDone, TypeOK, LoopType, PC, MaxTries, Region
  <2> QED BY <2>1, <2>2 DEF TypeOK
<1>9. CASE ProgramSkip
  BY <1>0, <1>9, ProgramInRegion DEF ProgramSkip, TypeOK, DataType, FlagType, LoopType, Region
<1>10. CASE ProgramGiveUp
  BY <1>0, <1>10 DEF ProgramGiveUp, ProgramReturnsFalse, TypeOK, DataType, FlagType,
     LoopType, PC, MaxTries, Region
<1>11. ASSUME ProgramAttempt
       PROVE  /\ last' \in {NoAddr} \cup Region
              /\ tries' \in 0 .. MaxTries
              /\ flash' \in [Addr' -> Byte]
  <2>1. dw \in Region
    BY <1>11, ProgramInRegion DEF ProgramAttempt
  <2>2. tries' \in 0 .. MaxTries
    BY <1>0, <1>11 DEF ProgramAttempt, ProgramLoop, ProgramTriesLeft, TypeOK, LoopType,
       MaxTries, IInv, LoopInv
  <2>3. flash' \in [Addr' -> Byte]
    BY <1>0, <1>11, ProgramByteType DEF ProgramAttempt, TypeOK
  <2> QED BY <1>11, <2>1, <2>2, <2>3 DEF ProgramAttempt
<1>12. CASE Program28
  <2>1. DataType'
    BY <1>0, <1>11, <1>12 DEF Program28, TypeOK, DataType
  <2>2. FlagType'
    BY <1>0, <1>12 DEF Program28, ProgramReturnsFalse, TypeOK, FlagType
  <2>3. LoopType'
    BY <1>0, <1>11, <1>12 DEF Program28, ProgramReturnsFalse, TypeOK, LoopType, PC, Region
  <2> QED BY <2>1, <2>2, <2>3 DEF TypeOK
<1>13. CASE Program29
  <2>1. DataType'
    BY <1>0, <1>11, <1>13 DEF Program29, TypeOK, DataType
  <2>2. FlagType'
    BY <1>0, <1>13 DEF Program29, Wait, TypeOK, FlagType
  <2>3. LoopType'
    BY <1>0, <1>11, <1>13 DEF Program29, TypeOK, LoopType, Region
  <2> QED BY <2>1, <2>2, <2>3 DEF TypeOK
<1>14. CASE ProgramDone
  BY <1>0, <1>14 DEF ProgramDone, TypeOK, DataType, FlagType, LoopType, PC, Region
<1>15. CASE Verify
  <2>1. DataType' /\ LoopType'
    BY <1>0, <1>15 DEF Verify, TypeOK, DataType, LoopType, PC, Region
  <2>2. FlagType'
    BY <1>0, <1>15 DEF Verify, VerifyMismatch, TypeOK, FlagType
  <2> QED BY <2>1, <2>2 DEF TypeOK
<1>16. CASE PressA
  <2>1. DataType' /\ FlagType'
    BY <1>0, <1>16 DEF PressA, EnterErase, TypeOK, DataType, FlagType
  <2>2. LoopType'
    BY <1>0, <1>16, Layout DEF PressA, EnterErase, TypeOK, LoopType, PC, MaxTries, Region
  <2> QED BY <2>1, <2>2 DEF TypeOK
<1>17. CASE Reboot
  BY <1>0, <1>17 DEF Reboot, TypeOK, DataType, FlagType, LoopType, PC, Region
<1>18. CASE PowerLoss
  BY <1>0, <1>18 DEF PowerLoss, TypeOK, DataType, FlagType, LoopType, PC, Region
<1>19. CASE Heal
  BY <1>0, <1>19 DEF Heal, TypeOK, DataType, FlagType, LoopType, PC, Region
<1>20. CASE UNCHANGED vars
  BY <1>0, <1>20 DEF vars, TypeOK, DataType, FlagType, LoopType, Region
<1>21. CASE ChipReady
  BY <1>0, <1>21 DEF ChipReady, EraseReturnsFalse, TypeOK, DataType, FlagType, LoopType,
     PC, Region
<1> QED
  BY <1>1, <1>2, <1>3, <1>5, <1>6, <1>7, <1>8, <1>9, <1>10, <1>12, <1>13,
     <1>14, <1>15, <1>16, <1>17, <1>18, <1>19, <1>20, <1>21, StepCases

-----------------------------------------------------------------------------
\* An erase command only turns bytes into 0xff.
LEMMA ClearErases ==
    ASSUME DataType, NEW S, Clear(S), NEW a \in Addr
    PROVE  /\ flash'[a] \in {flash[a], Erased}
           /\ a \notin S => flash'[a] = flash[a]
BY DEF DataType, Clear

\* A program command changes the byte under work only, and takes from it only
\* bits the image does not have.
LEMMA ProgramByteEffect ==
    ASSUME DataType, ProgramByte, dw \in Addr, NEW a \in Addr
    PROVE  /\ a # dw => flash'[a] = flash[a]
           /\ a = dw /\ Wanted \subseteq flash[dw] => Wanted \subseteq flash'[dw]
BY DEF DataType, ProgramByte

\* Every step keeps the region inside the chip.
LEMMA FitsStep ==
    ASSUME IInv, [Next]_vars
    PROVE  Fits'
<1>0. chip' = chip
  BY ConstantParts
<1>1. CASE GetDescriptor
  BY <1>0, <1>1, ChipLen, Layout DEF GetDescriptor, Return, EnterErase, Fits, IInv
<1>2. CASE ~GetDescriptor
  BY <1>0, <1>2, StepCases DEF IInv, Fits, vars, EraseSkip, EraseGiveUp, EraseLoop,
     EraseAttempt, EraseReturnsFalse, Erase28, Erase29Block, Erase29Ignored,
     EraseDone, ProgramSkip, ProgramGiveUp, ProgramLoop, ProgramAttempt,
     ProgramReturnsFalse, Program28, Program29, ProgramDone, Verify, ChipReady,
     PressA, EnterErase, Reboot, PowerLoss, Heal
<1> QED
  BY <1>1, <1>2

\* Every step keeps what the loops have established.
LEMMA LoopStep ==
    ASSUME IInv, [Next]_vars
    PROVE  LoopInv'
<1> USE DEF chipVars, loopVars
<1>0. /\ chip' = chip /\ pba' = pba /\ Addr' = Addr /\ Region' = Region
      /\ TypeOK /\ DataType /\ FlagType /\ LoopType /\ LoopInv
  BY ConstantParts DEF Addr, Region, IInv, TypeOK
<1>1. ASSUME EnterErase, fMore'
      PROVE  LoopInv'
  BY <1>0, <1>1, Layout DEF EnterErase, LoopInv, MaxTries, Region
<1>2. ASSUME pc' \notin {"descriptor", "erase", "program", "failed"}
      PROVE  LoopInv'
  BY <1>2 DEF LoopInv
<1>3. CASE GetDescriptor
  <2>1. fMore'
    BY <1>0, <1>3 DEF GetDescriptor, LoopInv
  <2>2. EnterErase \/ pc' = "returned"
    BY <1>3 DEF GetDescriptor, Return
  <2> QED BY <2>1, <2>2, <1>1, <1>2
<1>4. CASE EraseSkip
  <2>1. dw \in Region
    BY <1>4, EraseInRegion DEF EraseSkip
  <2> QED
    BY <1>0, <1>4, <2>1, Layout DEF EraseSkip, EraseLoop, LoopInv, Region, LoopType
<1>5. ASSUME NEW n, EraseAttempt(n), pc' = pc, fMore' = fMore, dw' = dw,
             \A a \in Addr : flash'[a] \in {flash[a], Erased}
      PROVE  LoopInv'
  <2>1. tries' >= 1
    BY <1>0, <1>5 DEF EraseAttempt, EraseLoop, EraseTriesLeft, LoopInv, LoopType, MaxTries
  <2>2. \A a \in Region : a < dw => flash'[a] = Erased
    <3>1. Region \subseteq Addr
      BY <1>0, <1>5, RegionInChip DEF IInv, Fits, DataType, EraseAttempt, EraseLoop
    <3> QED
      BY <1>0, <1>5, <3>1 DEF LoopInv, EraseAttempt, EraseLoop
  <2> QED
    BY <1>0, <1>5, <2>1, <2>2 DEF LoopInv, EraseAttempt, EraseLoop
<1>6. CASE Erase28
  <2>1. \A a \in Addr : flash'[a] \in {flash[a], Erased}
    BY <1>0, <1>6, ClearErases DEF Erase28
  <2>2. pc' = pc \/ pc' = "verify"
    BY <1>6 DEF Erase28, EraseReturnsFalse
  <2> QED
    BY <1>2, <1>5, <1>6, <2>1, <2>2 DEF Erase28
<1>7. CASE Erase29Block
  <2>1. \A a \in Addr : flash'[a] \in {flash[a], Erased}
    BY <1>0, <1>7, ClearErases DEF Erase29Block
  <2> QED
    BY <1>5, <1>7, <2>1 DEF Erase29Block
<1>8. CASE Erase29Ignored
  <2>1. \A a \in Addr : flash'[a] \in {flash[a], Erased}
    BY <1>0, <1>8, ClearErases DEF Erase29Ignored
  <2> QED
    BY <1>5, <1>8, <2>1 DEF Erase29Ignored
<1>9. CASE EraseDone
  <2>1. \A a \in Region : flash'[a] = Erased
    BY <1>0, <1>9, Layout DEF EraseDone, EraseLoop, LoopInv, LoopType, Region
  <2>2. \A a \in Region : pba[a - StartOffset] \subseteq Erased /\ a >= StartOffset
    BY <1>0, Layout DEF DataType, Region, Byte, Erased, End
  <2> QED
    BY <1>0, <1>9, <2>1, <2>2, Layout DEF EraseDone, LoopInv, MaxTries, Region
<1>10. CASE ProgramSkip
  <2>1. dw \in Region
    BY <1>10, ProgramInRegion DEF ProgramSkip
  <2>2. \A a \in Region : a = dw + 1 => pba[a - StartOffset] \subseteq Erased
    BY <1>0, Layout DEF DataType, Region, Byte, Erased, End
  <2>3. flash[dw] = pba[dw - StartOffset] /\ flash' = flash /\ dw' = dw + 1
    BY <1>10 DEF ProgramSkip, Wanted
  <2> QED
    BY <1>0, <1>10, <2>1, <2>2, <2>3, Layout
    DEF ProgramSkip, ProgramLoop, LoopInv, Region, LoopType
<1>11. ASSUME ProgramAttempt, pc' = pc, fMore' = fMore, dw' = dw
       PROVE  LoopInv'
  <2>1. tries' >= 1
    BY <1>0, <1>11 DEF ProgramAttempt, ProgramLoop, ProgramTriesLeft, LoopInv, LoopType,
       MaxTries
  <2>2. dw \in Region /\ dw \in Addr /\ Region \subseteq Addr
    BY <1>0, <1>11, ProgramInRegion, RegionInChip
    DEF IInv, Fits, DataType, ProgramAttempt, ProgramLoop
  <2>3. \A a \in Region :
            /\ a < dw => flash'[a] = pba[a - StartOffset]
            /\ a = dw => pba[a - StartOffset] \subseteq flash'[a]
            /\ a > dw => flash'[a] = Erased
    <3> SUFFICES ASSUME NEW a \in Region
                 PROVE  /\ a < dw => flash'[a] = pba[a - StartOffset]
                        /\ a = dw => pba[a - StartOffset] \subseteq flash'[a]
                        /\ a > dw => flash'[a] = Erased
      OBVIOUS
    <3>1. /\ a # dw => flash'[a] = flash[a]
          /\ a = dw /\ Wanted \subseteq flash[dw] => Wanted \subseteq flash'[dw]
      BY <1>0, <1>11, <2>2, ProgramByteEffect DEF ProgramAttempt
    <3> QED
      BY <1>0, <1>11, <2>2, <3>1, Layout
      DEF LoopInv, LoopType, ProgramAttempt, ProgramLoop, Wanted, Region
  <2> QED
    BY <1>0, <1>11, <2>1, <2>3 DEF LoopInv, ProgramAttempt, ProgramLoop
<1>12. CASE Program28
  BY <1>2, <1>11, <1>12 DEF Program28, ProgramReturnsFalse
<1>13. CASE Program29
  BY <1>11, <1>13 DEF Program29
<1>14. CASE Verify
  BY <1>0, <1>14 DEF Verify, LoopInv
<1>15. CASE PressA
  BY <1>0, <1>1, <1>15 DEF PressA, LoopInv
<1>16. CASE Heal \/ UNCHANGED vars
  BY <1>0, <1>16 DEF Heal, vars, LoopInv
<1>17. CASE EraseGiveUp \/ ProgramGiveUp \/ ProgramDone \/ Reboot \/ PowerLoss
  BY <1>2, <1>17 DEF EraseGiveUp, EraseReturnsFalse, ProgramGiveUp, ProgramReturnsFalse,
     ProgramDone, Reboot, PowerLoss
<1>18. CASE ChipReady
  BY <1>0, <1>2, <1>18 DEF ChipReady, EraseReturnsFalse, LoopInv
<1> QED
  BY <1>3, <1>4, <1>6, <1>7, <1>8, <1>9, <1>10, <1>12, <1>13, <1>14, <1>15,
     <1>16, <1>17, <1>18, StepCases

-----------------------------------------------------------------------------
\* Every step keeps the two promises about a finished pass.
LEMMA ImageStep ==
    ASSUME IInv, [Next]_vars
    PROVE  ProgramEstablishesImage' /\ RebootsOnlyComplete'
<1> USE DEF chipVars, loopVars
<1>0. /\ chip' = chip /\ pba' = pba
      /\ LoopInv /\ LoopType /\ Fits /\ ProgramEstablishesImage /\ RebootsOnlyComplete
  BY ConstantParts DEF IInv, TypeOK
<1>1. ASSUME flash' = flash, Complete PROVE Complete'
  BY <1>0, <1>1 DEF Complete
<1>2. ASSUME fMore', pc' \notin {"countdown", "reset"}
      PROVE  ProgramEstablishesImage' /\ RebootsOnlyComplete'
  BY <1>2 DEF ProgramEstablishesImage, RebootsOnlyComplete
<1>3. ASSUME pc' \notin {"verify", "countdown", "reset"}
      PROVE  ProgramEstablishesImage' /\ RebootsOnlyComplete'
  BY <1>3 DEF ProgramEstablishesImage, RebootsOnlyComplete
<1>4. CASE GetDescriptor \/ EraseSkip \/ Erase29Block \/ Erase29Ignored \/ EraseDone
           \/ ProgramSkip \/ Program29 \/ PressA \/ PowerLoss
  BY <1>3, <1>4 DEF GetDescriptor, Return, EnterErase, EraseSkip, EraseLoop,
     EraseAttempt, Erase29Block, Erase29Ignored, EraseDone, ProgramSkip, ProgramLoop,
     ProgramAttempt, Program29, PressA, PowerLoss
<1>5. CASE EraseGiveUp \/ Erase28 \/ ProgramGiveUp \/ Program28 \/ ChipReady
  BY <1>0, <1>2, <1>5 DEF ChipReady, EraseGiveUp, Erase28, EraseReturnsFalse, EraseAttempt, EraseLoop,
     ProgramGiveUp, Program28, ProgramReturnsFalse, ProgramAttempt, ProgramLoop, LoopInv
<1>6. CASE ProgramDone
  <2>1. dw >= End /\ pc = "program" /\ flash' = flash /\ pc' = "verify"
    BY <1>0, <1>6, Layout DEF ProgramDone, ProgramLoop, LoopType
  <2>2. \A a \in Region : flash[a] = pba[a - StartOffset]
    BY <1>0, <2>1, Layout DEF LoopInv, LoopType, Region
  <2>3. ASSUME NEW i \in 0 .. (Length - 1)
        PROVE  flash[StartOffset + i] = pba[i]
    <3>1. StartOffset + i \in Region /\ (StartOffset + i) - StartOffset = i
      BY Layout DEF Region, End
    <3> QED
      BY <2>2, <3>1
  <2>4. Complete
    BY <1>0, <2>1, <2>3 DEF Complete, Fits
  <2> QED
    BY <1>1, <2>1, <2>4 DEF ProgramEstablishesImage, RebootsOnlyComplete
<1>7. CASE Verify
  <2>1. pc' = "countdown" => Complete
    BY <1>0, <1>7 DEF Verify, ProgramEstablishesImage
  <2>2. pc' \in {"failed", "countdown"} /\ flash' = flash
    BY <1>7 DEF Verify
  <2> QED
    BY <1>1, <2>1, <2>2 DEF ProgramEstablishesImage, RebootsOnlyComplete
<1>8. CASE Reboot \/ Heal \/ UNCHANGED vars
  BY <1>0, <1>1, <1>8 DEF Reboot, Heal, vars, ProgramEstablishesImage, RebootsOnlyComplete
<1> QED
  BY <1>4, <1>5, <1>6, <1>7, <1>8, StepCases

\* Every step leaves the sectors outside the region alone.
LEMMA OutsideStep ==
    ASSUME IInv, [Next]_vars
    PROVE  OutsideUntouched'
<1> USE DEF chipVars, loopVars
<1>0. /\ chip' = chip /\ orig' = orig /\ Addr' = Addr /\ Region' = Region
      /\ DataType /\ OutsideUntouched
      /\ \A a \in Addr : Sector(a)' = Sector(a)
  BY ConstantParts DEF Addr, Region, Sector, IInv, TypeOK
<1>1. ASSUME flash' = flash PROVE OutsideUntouched'
  BY <1>0, <1>1 DEF OutsideUntouched
<1>2. ASSUME NEW T,
             \A a \in Addr : Sector(a) \cap Region = {} => a \notin T,
             \A a \in Addr : a \notin T => flash'[a] = flash[a]
      PROVE  OutsideUntouched'
  BY <1>0, <1>2 DEF OutsideUntouched
<1>3. ASSUME EraseLoop, NEW a \in Addr, Sector(a) \cap Region = {}
      PROVE  a \notin Sector(dw)
  BY <1>3, EraseInRegion DEF Sector
<1>4. ASSUME EraseLoop, NEW S \in SUBSET Sector(dw), Clear(S)
      PROVE  OutsideUntouched'
  <2>1. \A a \in Addr : Sector(a) \cap Region = {} => a \notin Sector(dw)
    BY <1>3, <1>4
  <2>2. \A a \in Addr : a \notin Sector(dw) => flash'[a] = flash[a]
    BY <1>0, <1>4, ClearErases
  <2> QED
    BY <1>2, <2>1, <2>2
<1>5. CASE Erase28
  BY <1>4, <1>5 DEF Erase28, EraseAttempt
<1>6. CASE Erase29Block
  BY <1>4, <1>6 DEF Erase29Block, EraseAttempt
<1>7. CASE Erase29Ignored
  <2>1. CASE ~ChipEraseAllowed
    BY <1>1, <1>7, <2>1 DEF Erase29Ignored
  <2>2. CASE ChipEraseAllowed
    <3>1. Region = Addr
      BY <2>2, Layout DEF ChipEraseAllowed, Region, Addr, End
    <3>2. \A a \in Addr : Sector(a) \cap Region # {}
      BY <3>1 DEF Sector
    <3> QED
      BY <1>0, <3>2 DEF OutsideUntouched
  <2> QED
    BY <2>1, <2>2
<1>8. ASSUME ProgramAttempt PROVE OutsideUntouched'
  <2>1. dw \in Region /\ dw \in Addr
    BY <1>8, ProgramInRegion DEF ProgramAttempt
  <2>2. \A a \in Addr : Sector(a) \cap Region = {} => a \notin {dw}
    BY <2>1 DEF Sector
  <2>3. \A a \in Addr : a \notin {dw} => flash'[a] = flash[a]
    BY <1>0, <1>8, <2>1, ProgramByteEffect DEF ProgramAttempt
  <2> QED
    BY <1>2, <2>2, <2>3
<1>9. CASE Program28 \/ Program29
  BY <1>8, <1>9 DEF Program28, Program29
<1>10. CASE GetDescriptor \/ EraseSkip \/ EraseGiveUp \/ EraseDone \/ ProgramSkip
            \/ ProgramGiveUp \/ ProgramDone \/ Verify \/ PressA \/ Reboot \/ PowerLoss
            \/ Heal \/ ChipReady \/ UNCHANGED vars
  BY <1>1, <1>10 DEF ChipReady, GetDescriptor, EraseSkip, EraseGiveUp, EraseDone, ProgramSkip,
     ProgramGiveUp, ProgramDone, Verify, PressA, Reboot, PowerLoss, Heal, vars
<1> QED
  BY <1>5, <1>6, <1>7, <1>9, <1>10, StepCases

\* Every step keeps the count of erase commands.
LEMMA WearStep ==
    ASSUME IInv, [Next]_vars
    PROVE  WearInv'
<1> USE DEF chipVars, loopVars
<1>0. /\ chip' = chip /\ Blocks' = Blocks
      /\ LoopType /\ LoopInv /\ WearInv
  BY ConstantParts DEF Addr, Blocks, IInv, TypeOK
<1>1. ASSUME sent' = sent, f28' = f28, pc' \notin {"descriptor", "erase"}
      PROVE  WearInv'
  BY <1>0, <1>1 DEF WearInv, EraseWearBounded, MaxErases
<1>2. ASSUME EnterErase
      PROVE  WearInv'
  BY <1>0, <1>2 DEF EnterErase, WearInv, EraseWearBounded, MaxErases, MaxTries
<1>3. CASE GetDescriptor
  <2>1. CASE EnterErase
    BY <1>2, <2>1
  <2>2. CASE pc' = "returned" /\ sent' = sent
    BY <1>0, <1>3, <2>2 DEF GetDescriptor, WearInv, EraseWearBounded, MaxErases, MaxTries
  <2> QED
    BY <1>3, <2>1, <2>2 DEF GetDescriptor, Return
<1>4. CASE EraseSkip
  <2>1. last <= dw => last <= dw + 1
    BY <1>0 DEF LoopType, NoAddr, Region
  <2> QED
    BY <1>0, <1>4, <2>1 DEF EraseSkip, WearInv, EraseWearBounded, EraseLoop, MaxErases,
       Cost, WholeChip
<1>5. ASSUME NEW n \in Nat, EraseAttempt(n), dw' = dw, f28' = f28,
             n <= IF f28 THEN 1 ELSE 2 + (IF ChipEraseAllowed THEN 1 ELSE 0),
             pc' # "descriptor"
      PROVE  WearInv'
  <2>1. /\ dw \in Region /\ BlockOf(dw) \in Blocks /\ dw \in Nat
        /\ pc = "erase" /\ tries \in 1 .. MaxTries
        /\ sent \in [Blocks -> Nat]
        /\ sent' = [sent EXCEPT ![BlockOf(dw)] = @ + n]
    BY <1>0, <1>5, EraseInRegion, Layout
    DEF EraseAttempt, EraseLoop, LoopInv, LoopType, Region, MaxTries
  <2>2. \A b \in Blocks : b \in Int
    BY Layout, ChipLen DEF Blocks, BlockOf, Addr, IInv, TypeOK, DataType
  <2>5. /\ MaxErases' = MaxErases /\ MaxErases \in Nat
        /\ \A t \in 1 .. MaxTries : Cost(t)' = Cost(t) /\ Cost(t) \in Nat /\ Cost(t) <= MaxErases
    BY <1>0, <1>5 DEF MaxErases, Cost, WholeChip, MaxTries
  <2>3. CASE SameBlock
    <3>1. /\ last # NoAddr /\ BlockOf(last) = BlockOf(dw)
          /\ last' = last /\ tries' = tries - 1 /\ tries # 1
      BY <1>5, <2>1, <2>3 DEF SameBlock, EraseAttempt, EraseTriesLeft, MaxTries
    <3>2. /\ sent[BlockOf(last)] <= Cost(tries)
          /\ last <= dw
          /\ \A b \in Blocks : b > BlockOf(last) => sent[b] = 0
      BY <1>0, <2>1, <3>1 DEF WearInv
    <3>5. Cost(tries) + n <= Cost(tries - 1) /\ tries' \in 1 .. MaxTries
      BY <1>5, <2>1, <2>3, <3>1
      DEF Cost, WholeChip, ChipEraseAllowed, EraseTriesLeft, MaxTries
    <3>3. /\ sent'[BlockOf(last)] <= Cost(tries - 1)
          /\ \A b \in Blocks : b > BlockOf(last) => sent'[b] = 0
          /\ \A b \in Blocks : sent'[b] <= MaxErases
      BY <1>0, <2>1, <2>2, <2>5, <3>1, <3>2, <3>5 DEF WearInv, EraseWearBounded
    <3>6. Cost(tries)' = Cost(tries - 1)
      BY <1>0, <1>5, <3>1 DEF Cost, WholeChip
    <3>4. BlockOf(last)' = BlockOf(last)
      BY <3>1 DEF BlockOf
    <3> QED
      BY <1>0, <1>5, <2>5, <3>1, <3>2, <3>3, <3>4, <3>6 DEF WearInv, EraseWearBounded
  <2>4. CASE ~SameBlock
    <3>1. last' = dw /\ tries' = MaxTries
      BY <1>5, <2>4 DEF EraseAttempt, EraseTriesLeft
    <3>2. \A b \in Blocks : b >= BlockOf(dw) => sent[b] = 0
      <4>1. CASE last = NoAddr
        BY <1>0, <2>1, <4>1 DEF WearInv
      <4>2. CASE last # NoAddr
        <5>1. last \in Nat /\ last <= dw
          BY <1>0, <2>1, <4>2, Layout DEF WearInv, LoopType, Region
        <5>2. BlockOf(last) <= BlockOf(dw) /\ BlockOf(last) # BlockOf(dw)
          BY <2>1, <2>4, <4>2, <5>1, DivMonotone, Layout DEF BlockOf, SameBlock
        <5>3. BlockOf(last) \in Int /\ BlockOf(dw) \in Int
          BY <2>1, <5>1, Layout DEF BlockOf
        <5>4. \A b \in Blocks : b > BlockOf(last) => sent[b] = 0
          BY <1>0, <2>1, <4>2 DEF WearInv
        <5> QED
          BY <2>2, <5>2, <5>3, <5>4
      <4> QED
        BY <4>1, <4>2
    <3>3. BlockOf(dw) \in Int
      BY <2>1, <2>2
    <3>6. n <= Cost(MaxTries) /\ MaxTries \in 1 .. MaxTries
      BY <1>5, <2>4 DEF Cost, ChipEraseAllowed, EraseTriesLeft, MaxTries
    <3>4. /\ sent'[BlockOf(dw)] <= Cost(MaxTries)
          /\ \A b \in Blocks : b > BlockOf(dw) => sent'[b] = 0
          /\ \A b \in Blocks : sent'[b] <= MaxErases
      BY <1>0, <2>1, <2>2, <2>5, <3>2, <3>3, <3>6 DEF WearInv, EraseWearBounded
    <3>7. Cost(tries)' = Cost(MaxTries)
      BY <1>0, <1>5, <3>1 DEF Cost, WholeChip
    <3>5. BlockOf(last)' = BlockOf(dw) /\ dw <= dw' /\ last' # NoAddr
      BY <1>5, <2>1, <3>1, Layout DEF BlockOf, NoAddr
    <3> QED
      BY <1>0, <1>5, <2>5, <3>1, <3>4, <3>5, <3>7 DEF WearInv, EraseWearBounded
  <2> QED
    BY <2>3, <2>4
<1>6. CASE Erase28 \/ Erase29Block \/ Erase29Ignored
  <2>1. pc' # "descriptor" /\ dw' = dw /\ f28' = f28
    BY <1>6 DEF Erase28, EraseReturnsFalse, Erase29Block, Erase29Ignored, EraseAttempt,
       EraseLoop
  <2>2. CASE Erase28
    BY <1>5, <2>1, <2>2 DEF Erase28
  <2>3. CASE Erase29Block
    BY <1>5, <2>1, <2>3 DEF Erase29Block
  <2>4. CASE Erase29Ignored
    BY <1>5, <2>1, <2>4 DEF Erase29Ignored
  <2> QED
    BY <1>6, <2>2, <2>3, <2>4
<1>7. CASE PressA
  BY <1>2, <1>7 DEF PressA
<1>8. CASE Heal \/ ChipReady \/ UNCHANGED vars
  BY <1>0, <1>8 DEF Heal, ChipReady, EraseReturnsFalse, vars, WearInv, EraseWearBounded,
     BlockOf, MaxErases, Cost, WholeChip
<1>9. CASE EraseGiveUp \/ EraseDone \/ ProgramSkip \/ ProgramGiveUp \/ Program28
           \/ Program29 \/ ProgramDone \/ Verify \/ Reboot \/ PowerLoss
  BY <1>1, <1>9 DEF EraseGiveUp, EraseReturnsFalse, EraseDone, ProgramSkip, ProgramGiveUp,
     ProgramLoop, ProgramAttempt, ProgramReturnsFalse, Program28, Program29, ProgramDone,
     Verify, Reboot, PowerLoss
<1> QED
  BY <1>3, <1>4, <1>6, <1>7, <1>8, <1>9, StepCases

-----------------------------------------------------------------------------
\* The invariant is inductive.
LEMMA StepInv == IInv /\ [Next]_vars => IInv'
BY TypeStep, FitsStep, LoopStep, ImageStep, OutsideStep, WearStep DEF IInv

\* BootReflashAndReset establishes and keeps the inductive invariant.
THEOREM Invariance == Spec => []IInv
BY InitInv, StepInv, PTL DEF Spec

\* For every chip, image and region the variables keep their types: the
\* loops never leave the region and the retry counters never go below zero.
THEOREM TypeCorrect == Spec => []TypeOK
<1>1. IInv => TypeOK
  BY DEF IInv
<1> QED
  BY Invariance, <1>1, PTL

\* BootFlashProgram returns true only if the region holds the image.
THEOREM ProgramCorrect == Spec => []ProgramEstablishesImage
<1>1. IInv => ProgramEstablishesImage
  BY DEF IInv
<1> QED
  BY Invariance, <1>1, PTL

\* The console reboots only into a complete image.
THEOREM RebootSafe == Spec => []RebootsOnlyComplete
<1>1. IInv => RebootsOnlyComplete
  BY DEF IInv
<1> QED
  BY Invariance, <1>1, PTL

\* The program loop never meets a byte it could not program.
THEOREM ProgrammingPossible == Spec => []ProgrammingCanSucceed
<1>1. IInv => ProgrammingCanSucceed
  <2> SUFFICES ASSUME IInv, pc = "program", NEW a \in Region, a >= dw
               PROVE  pba[a - StartOffset] \subseteq flash[a]
    BY DEF ProgrammingCanSucceed
  <2>1. a = dw \/ a > dw
    BY Layout DEF IInv, TypeOK, LoopType, Region
  <2>2. pba[a - StartOffset] \subseteq Erased
    BY Layout DEF IInv, TypeOK, DataType, Region, Byte, Erased, End
  <2> QED
    BY <2>1, <2>2 DEF IInv, LoopInv
<1> QED
  BY Invariance, <1>1, PTL

\* Sectors outside the region are never touched.
THEOREM Confinement == Spec => []OutsideUntouched
<1>1. IInv => OutsideUntouched
  BY DEF IInv
<1> QED
  BY Invariance, <1>1, PTL

\* However the bytes of a 4K block resist, a pass sends it at most one erase
\* command a try on a 28xxx chip, two on a 29xxx chip, and the chip erase once
\* more if the whole chip is reflashed.
THEOREM WearBound == Spec => []EraseWearBounded
<1>1. IInv => EraseWearBounded
  BY DEF IInv, WearInv
<1> QED
  BY Invariance, <1>1, PTL

-----------------------------------------------------------------------------
\* The values of the refinement mapping.
LEMMA PhaseOf ==
    /\ pc = "descriptor" => AbsPhase = "idle"
    /\ pc \in Flashing => AbsPhase = "flashing"
    /\ pc \in {"countdown", "reset"} => AbsPhase = "rebooting"
    /\ pc = "returned" => AbsPhase = "refused"
    /\ pc = "off" => AbsPhase = "off"
BY DEF AbsPhase, Flashing

LEMMA PhaseOfNext ==
    /\ pc' = "descriptor" => AbsPhase' = "idle"
    /\ pc' \in Flashing => AbsPhase' = "flashing"
    /\ pc' \in {"countdown", "reset"} => AbsPhase' = "rebooting"
    /\ pc' = "returned" => AbsPhase' = "refused"
    /\ pc' = "off" => AbsPhase' = "off"
BY DEF AbsPhase, Flashing

\* The mapped content is a pair of truth values.
LEMMA ContentBoolean ==
    /\ (flash = orig) \in BOOLEAN /\ Complete \in BOOLEAN
    /\ (flash = orig)' \in BOOLEAN /\ Complete' \in BOOLEAN
BY DEF Complete

\* A step that leaves the flash alone leaves the mapped content alone.
LEMMA ContentKept ==
    ASSUME [Next]_vars, flash' = flash
    PROVE  (flash = orig)' = (flash = orig) /\ Complete' = Complete
BY ConstantParts DEF Complete

\* A step of the two loops is a Modify step of Reflash.
LEMMA StepRefines ==
    ASSUME IInv, [Next]_vars
    PROVE  [Abs!Next]_(Abs!vars)
<1> USE DEF chipVars, loopVars, Abs!Next, Abs!vars
<1>1. ASSUME pc \in Flashing, pc' \in Flashing
      PROVE  [Abs!Next]_(Abs!vars)
  BY <1>1, PhaseOf, PhaseOfNext, ContentBoolean DEF Abs!Modify
<1>2. ASSUME AbsPhase' = AbsPhase, flash' = flash
      PROVE  [Abs!Next]_(Abs!vars)
  BY <1>2, ContentKept
<1>3. CASE GetDescriptor
  <2>1. flash' = flash /\ pc = "descriptor" /\ pc' \in {"returned", "erase"}
    BY <1>3 DEF GetDescriptor, Return, EnterErase
  <2> QED
    BY <2>1, ContentKept, PhaseOf, PhaseOfNext DEF Abs!Refuse, Abs!Commit, Flashing
<1>4. CASE EraseSkip \/ EraseGiveUp \/ Erase28 \/ Erase29Block \/ Erase29Ignored
           \/ EraseDone \/ ChipReady
  BY <1>1, <1>4 DEF ChipReady, EraseSkip, EraseGiveUp, Erase28, Erase29Block, Erase29Ignored,
     EraseDone, EraseAttempt, EraseLoop, EraseReturnsFalse, Flashing
<1>5. CASE ProgramSkip \/ ProgramGiveUp \/ Program28 \/ Program29 \/ ProgramDone
  BY <1>1, <1>5 DEF ProgramSkip, ProgramGiveUp, Program28, Program29, ProgramDone,
     ProgramAttempt, ProgramLoop, ProgramReturnsFalse, Flashing
<1>6. CASE PressA
  BY <1>1, <1>6 DEF PressA, EnterErase, Flashing
<1>7. CASE Verify
  <2>1. flash' = flash /\ pc = "verify" /\ pc' \in {"failed", "countdown"}
    BY <1>7 DEF Verify
  <2>2. CASE pc' = "failed"
    BY <1>1, <2>1, <2>2 DEF Flashing
  <2>3. CASE pc' = "countdown"
    <3>1. Complete
      BY <1>7, <2>3 DEF Verify, IInv, ProgramEstablishesImage
    <3> QED
      BY <2>1, <2>3, <3>1, ContentKept, PhaseOf, PhaseOfNext DEF Abs!Reboot, Flashing
  <2> QED
    BY <2>1, <2>2, <2>3
<1>8. CASE Reboot
  BY <1>2, <1>8, PhaseOf, PhaseOfNext DEF Reboot
<1>9. CASE PowerLoss
  <2>1. flash' = flash /\ pc' = "off" /\ pc \in {"descriptor", "countdown"} \cup Flashing
    BY <1>9 DEF PowerLoss, IInv, TypeOK, LoopType, PC, Flashing
  <2> QED
    BY <2>1, ContentKept, PhaseOf, PhaseOfNext DEF Abs!PowerLoss
<1>10. CASE Heal \/ UNCHANGED vars
  <2>1. flash' = flash /\ pc' = pc
    BY <1>10 DEF Heal, vars
  <2> QED
    BY <1>2, <2>1 DEF AbsPhase
<1> QED
  BY <1>3, <1>4, <1>5, <1>6, <1>7, <1>8, <1>9, <1>10, StepCases

\* The flash engine implements Reflash: callers get a return code only with
\* the flash as it was, and a reboot only with the complete image in it.
THEOREM Refinement == Spec => ImplementsReflash
<1>1. Init => Abs!Init
  BY PhaseOf, ContentBoolean DEF Init, Abs!Init
<1>2. IInv /\ [Next]_vars => [Abs!Next]_(Abs!vars)
  BY StepRefines
<1> QED
  BY <1>1, <1>2, Invariance, PTL DEF Spec, Abs!Spec, ImplementsReflash

=============================================================================
