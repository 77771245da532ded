----------------------- MODULE PackageConstructor_proofs -----------------------
(***************************************************************************)
(* Proofs about PackageConstructor, for every data_width and every         *)
(* sequence of inputs.                                                     *)
(***************************************************************************)
EXTENDS PackageConstructor, SequenceTheorems, TLAPS

\* What the states say about the mask and the write request.
StateInv ==
  /\ state_contructor = "c_send_package" => mask_integer > 0 /\ write_request_out = 1
  /\ state_contructor = "c_send_void_package" => mask_integer = 0
  /\ write_request_out = 1 => state_contructor \in {"c_send_package", "c_wait"}

IInv == TypeOK /\ IndexInRange /\ UnusedBitsAreZero /\ StateInv

USE DataWidthAssumption DEF Bit, BitIndex

LEMMA InitIInv == Init => IInv
BY DEF Init, InputsOK, InitRegisters, IInv, TypeOK, States, Zeros, IndexInRange,
       UnusedBitsAreZero, StateInv

\* Each step of the state machine keeps the inductive invariant.
LEMMA StepIInv == IInv /\ [Next]_vars => IInv'
<1> SUFFICES ASSUME IInv, [Next]_vars PROVE IInv'
  OBVIOUS
<1> USE DEF IInv, TypeOK, InputsOK, States, IndexInRange, UnusedBitsAreZero, StateInv
<1> USE DEF AnyInputs, In, Goto
<1>1. CASE Reset /\ AnyInputs
  BY <1>1 DEF Reset, Zeros
<1>2. CASE (WaitBit \/ WaitEop \/ WaitIdle) /\ AnyInputs
  BY <1>2 DEF WaitBit, WaitEop, WaitIdle, WaitClearFlags
<1>3. CASE NewBit /\ AnyInputs
  BY <1>3 DEF NewBit
<1>4. CASE IncMask /\ AnyInputs
  BY <1>4 DEF IncMask
<1>5. CASE MaskOverflow /\ AnyInputs
  BY <1>5 DEF MaskOverflow, SendOpenPackage
<1>6. CASE NoMaskOverflow /\ AnyInputs
  BY <1>6 DEF NoMaskOverflow
<1>7. CASE SendPackage /\ AnyInputs
  BY <1>7 DEF SendPackage
<1>8. CASE Clear /\ AnyInputs
  BY <1>8 DEF Clear, Zeros
<1>9. CASE (EopWithBits \/ EopWithoutBits \/ NoEop) /\ AnyInputs
  BY <1>9 DEF EopWithBits, EopWithoutBits, NoEop, SendOpenPackage
<1>10. CASE SendVoidPackage /\ AnyInputs
  BY <1>10 DEF SendVoidPackage, Zeros
<1>11. CASE UNCHANGED vars
  BY <1>11 DEF vars, inputs, registers
<1>12. QED
  BY <1>1, <1>2, <1>3, <1>4, <1>5, <1>6, <1>7, <1>8, <1>9, <1>10, <1>11 DEF Next, Tick

\* The inductive invariant holds in every state of every run.
THEOREM Invariant == Spec => []IInv
BY InitIInv, StepIInv, PTL DEF Spec

\* Every register of the constructor keeps its type and its range.
THEOREM TypeCorrect == Spec => []TypeOK
BY Invariant, PTL DEF IInv

\* For every package width, no bit is stored outside the data vector.
THEOREM IndexIsInRange == Spec => []IndexInRange
BY Invariant, PTL DEF IInv

\* For every package width, the unused bits of the open package are zero.
THEOREM UnusedBitsStayZero == Spec => []UnusedBitsAreZero
BY Invariant, PTL DEF IInv

\* Out of reset a package is offered to the FIFO for one clock only.
THEOREM WritesArePulses == Spec => WriteIsAPulse
<1>1. IInv /\ [Next]_vars => [rst = 0 /\ write_request_out = 1 => write_request_out' = 0]_vars
  <2> SUFFICES ASSUME IInv, Next, rst = 0, write_request_out = 1
               PROVE  write_request_out' = 0
    OBVIOUS
  <2>1. state_contructor \in {"c_send_package", "c_wait"}
    BY DEF IInv, StateInv
  <2> QED
    BY <2>1 DEF Next, Tick, In, Goto, Reset, WaitBit, WaitEop, WaitIdle, WaitClearFlags, NewBit,
       IncMask, MaskOverflow, NoMaskOverflow, SendPackage, Clear, EopWithBits,
       EopWithoutBits, NoEop, SendVoidPackage
<1>2. QED
  BY Invariant, <1>1, PTL DEF Spec, WriteIsAPulse

-----------------------------------------------------------------------------
(* The constructor implements the Packager.                                *)

LEMMA FirstBitsIsSeq ==
  ASSUME NEW bits \in [BitIndex -> Bit], NEW n \in 0 .. data_width
  PROVE  FirstBits(bits, n) \in Seq(Bit) /\ Len(FirstBits(bits, n)) = n
BY DEF FirstBits

LEMMA FirstBitsGrows ==
  ASSUME NEW bits \in [BitIndex -> Bit], NEW n \in BitIndex, NEW b \in Bit
  PROVE  FirstBits([bits EXCEPT ![n] = b], n + 1) = Append(FirstBits(bits, n), b)
<1> DEFINE grown == [bits EXCEPT ![n] = b]
<1>1. grown \in [BitIndex -> Bit] /\ n \in 0 .. data_width /\ n + 1 \in 0 .. data_width
  OBVIOUS
<1>2. /\ FirstBits(bits, n) \in Seq(Bit) /\ Len(FirstBits(bits, n)) = n
      /\ FirstBits(grown, n + 1) \in Seq(Bit) /\ Len(FirstBits(grown, n + 1)) = n + 1
  BY <1>1, FirstBitsIsSeq
<1>3. /\ Append(FirstBits(bits, n), b) \in Seq(Bit)
      /\ Len(Append(FirstBits(bits, n), b)) = n + 1
      /\ \A k \in 1 .. n : Append(FirstBits(bits, n), b)[k] = FirstBits(bits, n)[k]
      /\ Append(FirstBits(bits, n), b)[n + 1] = b
  BY <1>2, AppendProperties
<1>4. \A k \in 1 .. n + 1 : FirstBits(grown, n + 1)[k] = Append(FirstBits(bits, n), b)[k]
  <2> TAKE k \in 1 .. n + 1
  <2>1. CASE k = n + 1
    BY <2>1, <1>3 DEF FirstBits
  <2>2. CASE k \in 1 .. n
    BY <2>2, <1>3 DEF FirstBits
  <2>3. k = n + 1 \/ k \in 1 .. n
    OBVIOUS
  <2> QED
    BY <2>1, <2>2, <2>3, Zenon
<1> QED
  BY <1>2, <1>3, <1>4, SeqEqual

LEMMA FirstBitsEmpty == ASSUME NEW bits PROVE FirstBits(bits, 0) = <<>>
BY DEF FirstBits

\* The initial state maps to the Packager's.
LEMMA MappedInit == Init => Abstract!Init
BY FirstBitsEmpty
DEF Init, InitRegisters, Abstract!Init, OpenPackage, CountedBits, Port, Phase

\* An accepted bit is appended to the abstract package; every other step
\* writes it out, forgets it or leaves it alone.
LEMMA MappedStep == IInv /\ [Next]_vars => [Abstract!Next]_<<OpenPackage, Port, Phase>>
<1> SUFFICES ASSUME IInv, [Next]_vars
             PROVE  [Abstract!Next]_<<OpenPackage, Port, Phase>>
  OBVIOUS
<1> USE DEF IInv, TypeOK, InputsOK, States, IndexInRange, StateInv, In, Goto,
            OpenPackage, CountedBits, Port, Phase
<1>1. CASE Reset
  <2>1. OpenPackage' = <<>> /\ BitsOf(data_out)' = <<>>
    BY <1>1, FirstBitsEmpty DEF Reset, BitsOf, data_out
  <2> QED
    BY <1>1, <2>1 DEF Reset, Abstract!Next, Abstract!Reset
<1>2. CASE WaitBit
  BY <1>2 DEF WaitBit, WaitClearFlags, Abstract!Next, Abstract!AnnounceBit
<1>3. CASE WaitEop \/ WaitIdle
  BY <1>3 DEF WaitEop, WaitIdle, WaitClearFlags, Abstract!Next, Abstract!EndWrite
<1>4. CASE NewBit
  <2>1. Len(OpenPackage) < data_width
    BY <1>4, FirstBitsIsSeq DEF NewBit
  <2>2. mask_integer \in BitIndex /\ CountedBits = mask_integer /\ CountedBits' = mask_integer + 1
    BY <1>4 DEF NewBit
  <2>3. data' = [data EXCEPT ![mask_integer] = data_in]
    BY <1>4 DEF NewBit
  <2>4. OpenPackage' = FirstBits([data EXCEPT ![mask_integer] = data_in], mask_integer + 1)
    BY <2>2, <2>3 DEF FirstBits
  <2>5. FirstBits([data EXCEPT ![mask_integer] = data_in], mask_integer + 1)
          = Append(FirstBits(data, mask_integer), data_in)
    BY <2>2, FirstBitsGrows
  <2>6. OpenPackage' = Append(OpenPackage, data_in)
    BY <2>2, <2>4, <2>5
  <2> QED
    BY <1>4, <2>1, <2>6 DEF NewBit, Abstract!Next, Abstract!AcceptBit
<1>5. CASE IncMask \/ NoMaskOverflow \/ NoEop
  BY <1>5 DEF IncMask, NoMaskOverflow, NoEop
<1>6. CASE MaskOverflow \/ EopWithBits
  <2>1. OpenPackage = BitsOf(data_out) /\ Len(OpenPackage) = mask_integer /\ mask_integer > 0
    BY <1>6, FirstBitsIsSeq DEF MaskOverflow, EopWithBits, BitsOf, data_out
  <2>2. OpenPackage # <<>>
    BY <2>1
  <2>3. OpenPackage' = <<>> /\ Port' = <<OpenPackage>>
    BY <1>6, <2>1, FirstBitsEmpty DEF MaskOverflow, EopWithBits, SendOpenPackage, BitsOf, data_out
  <2> QED
    BY <1>6, <2>1, <2>2, <2>3
    DEF MaskOverflow, EopWithBits, SendOpenPackage, Abstract!Next, Abstract!WritePackage
<1>7. CASE SendPackage
  BY <1>7 DEF SendPackage, Abstract!Next, Abstract!EndWrite
<1>8. CASE Clear
  BY <1>8, FirstBitsEmpty DEF Clear
<1>9. CASE EopWithoutBits
  BY <1>9, FirstBitsEmpty DEF EopWithoutBits, Abstract!Next, Abstract!NoticeEnd
<1>10. CASE SendVoidPackage
  <2>1. OpenPackage' = <<>> /\ OpenPackage = <<>> /\ BitsOf(data_out)' = <<>>
    BY <1>10, FirstBitsEmpty DEF SendVoidPackage, BitsOf, data_out
  <2> QED
    BY <1>10, <2>1 DEF SendVoidPackage, Abstract!Next, Abstract!WriteVoid
<1>11. CASE UNCHANGED vars
  BY <1>11 DEF vars, inputs, registers, BitsOf, data_out
<1>12. QED
  BY <1>1, <1>2, <1>3, <1>4, <1>5, <1>6, <1>7, <1>8, <1>9, <1>10, <1>11 DEF Next, Tick

\* For every package width and every sequence of inputs, the packages written
\* are the accepted bits, in order, and a void package at the end.
THEOREM Implements == Spec => ImplementsPackager
BY Invariant, MappedInit, MappedStep, PTL DEF Spec, ImplementsPackager, Abstract!Spec
=============================================================================
