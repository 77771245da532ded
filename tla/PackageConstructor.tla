-------------------------- MODULE PackageConstructor --------------------------
(***************************************************************************)
(* package_constructor.vhd: collects the bits of the FM0 decoder into      *)
(* packages and writes them to the receiver's FIFO; at the end of a        *)
(* command it writes the open package, if any, and then a void package.    *)
(* rst, data_ready, data_in and eop are input ports; the other variables   *)
(* are the registers of the entity.  One step is one rising clock edge.    *)
(***************************************************************************)
EXTENDS Package

VARIABLES rst, data_ready, data_in, eop,
          state_contructor, data, mask_integer, write_request_out, clr_eop

inputs == <<rst, data_ready, data_in, eop>>
registers == <<state_contructor, data, mask_integer, write_request_out, clr_eop>>
vars == <<inputs, registers>>

States == {"c_wait", "c_send_package", "c_new_bit", "c_inc_mask", "c_clear",
           "c_send_void_package", "c_check_mask_overflow", "c_check_eop"}

\* data_out: the word on the FIFO's data port.
data_out == [data |-> data, mask |-> mask_integer]

InitRegisters ==
  /\ state_contructor = "c_wait"
  /\ data = Zeros
  /\ mask_integer = 0
  /\ write_request_out = 0
  /\ clr_eop = 0

\* The reset leaves both output flags as they are.
Reset ==
  /\ rst = 1
  /\ state_contructor' = "c_wait"
  /\ mask_integer' = 0
  /\ data' = Zeros
  /\ UNCHANGED <<write_request_out, clr_eop>>

In(state) == rst = 0 /\ state_contructor = state
Goto(state) == state_contructor' = state

WaitClearFlags == clr_eop' = 0 /\ write_request_out' = 0 /\ UNCHANGED <<data, mask_integer>>

WaitBit == In("c_wait") /\ data_ready = 1 /\ Goto("c_new_bit") /\ WaitClearFlags

WaitEop == In("c_wait") /\ data_ready = 0 /\ eop = 1 /\ Goto("c_check_eop") /\ WaitClearFlags

WaitIdle == In("c_wait") /\ data_ready = 0 /\ eop = 0 /\ Goto("c_wait") /\ WaitClearFlags

NewBit ==
  /\ In("c_new_bit") /\ Goto("c_inc_mask")
  /\ data' = [data EXCEPT ![mask_integer] = data_in]
  /\ UNCHANGED <<mask_integer, write_request_out, clr_eop>>

IncMask ==
  /\ In("c_inc_mask") /\ Goto("c_check_mask_overflow")
  /\ mask_integer' = mask_integer + 1
  /\ UNCHANGED <<data, write_request_out, clr_eop>>

SendOpenPackage ==
  /\ Goto("c_send_package")
  /\ write_request_out' = 1
  /\ UNCHANGED <<data, mask_integer, clr_eop>>

MaskOverflow == In("c_check_mask_overflow") /\ mask_integer = data_width /\ SendOpenPackage

NoMaskOverflow ==
  /\ In("c_check_mask_overflow") /\ mask_integer # data_width /\ Goto("c_check_eop")
  /\ UNCHANGED <<data, mask_integer, write_request_out, clr_eop>>

\* Mutant of SendPackage: the write request is never lowered.
SendPackageHoldsRequest ==
  /\ In("c_send_package") /\ Goto("c_clear")
  /\ UNCHANGED <<data, mask_integer, write_request_out, clr_eop>>

SendPackage ==
  /\ In("c_send_package") /\ Goto("c_clear")
  /\ write_request_out' = 0
  /\ UNCHANGED <<data, mask_integer, clr_eop>>

\* Mutants of Clear: one of its two resets is missing.
ClearKeepsMask ==
  /\ In("c_clear") /\ Goto("c_wait")
  /\ data' = Zeros
  /\ UNCHANGED <<mask_integer, write_request_out, clr_eop>>

ClearKeepsData ==
  /\ In("c_clear") /\ Goto("c_wait")
  /\ mask_integer' = 0
  /\ UNCHANGED <<data, write_request_out, clr_eop>>

Clear ==
  /\ In("c_clear") /\ Goto("c_wait")
  /\ mask_integer' = 0
  /\ data' = Zeros
  /\ UNCHANGED <<write_request_out, clr_eop>>

\* Mutant of EopWithBits: the end of the command drops the open package.
EopDropsBits ==
  /\ In("c_check_eop") /\ eop = 1 /\ mask_integer # 0 /\ Goto("c_send_void_package")
  /\ UNCHANGED <<data, mask_integer, write_request_out, clr_eop>>

EopWithBits == In("c_check_eop") /\ eop = 1 /\ mask_integer # 0 /\ SendOpenPackage

EopWithoutBits ==
  /\ In("c_check_eop") /\ eop = 1 /\ mask_integer = 0 /\ Goto("c_send_void_package")
  /\ UNCHANGED <<data, mask_integer, write_request_out, clr_eop>>

NoEop ==
  /\ In("c_check_eop") /\ eop = 0 /\ Goto("c_wait")
  /\ UNCHANGED <<data, mask_integer, write_request_out, clr_eop>>

SendVoidPackage ==
  /\ In("c_send_void_package") /\ Goto("c_wait")
  /\ clr_eop' = 1
  /\ data' = Zeros
  /\ mask_integer' = 0
  /\ write_request_out' = 1

Tick ==
  \/ Reset
  \/ WaitBit \/ WaitEop \/ WaitIdle
  \/ NewBit \/ IncMask \/ MaskOverflow \/ NoMaskOverflow
  \/ SendPackage \/ Clear
  \/ EopWithBits \/ EopWithoutBits \/ NoEop \/ SendVoidPackage

-----------------------------------------------------------------------------
(* The component on its own, driven by any inputs whatever.                *)

InputsOK == rst \in Bit /\ data_ready \in Bit /\ data_in \in Bit /\ eop \in Bit

AnyInputs ==
  rst' \in Bit /\ data_ready' \in Bit /\ data_in' \in Bit /\ eop' \in Bit

Init == InputsOK /\ InitRegisters

Next == Tick /\ AnyInputs

Spec == Init /\ [][Next]_vars

-----------------------------------------------------------------------------
(* Properties.                                                             *)

TypeOK ==
  /\ InputsOK
  /\ state_contructor \in States
  /\ data \in [BitIndex -> Bit]
  /\ mask_integer \in 0 .. data_width
  /\ write_request_out \in Bit
  /\ clr_eop \in Bit

\* No bit is written outside the data vector: a package that reaches
\* data_width bits is always sent and cleared before the next bit is stored,
\* wherever data_ready and eop fall (the index is not checked in c_new_bit).
IndexInRange ==
  state_contructor \in {"c_wait", "c_new_bit", "c_inc_mask", "c_check_eop"} => mask_integer < data_width

\* The bits above the mask are zero, so no bit of an earlier package leaks
\* into a later one and only a package without bits equals the void package.
UnusedBitsAreZero ==
  \A k \in BitIndex :
    data[k] # 0 => k < mask_integer \/ (k = mask_integer /\ state_contructor = "c_inc_mask")

\* Out of reset the write request lasts one clock, so the FIFO stores every
\* package once.  (In reset it keeps its value: see Packager!Reset.)
WriteIsAPulse == [][rst = 0 /\ write_request_out = 1 => write_request_out' = 0]_vars

\* The packages written are the accepted bits, in order, cut into packages of
\* at most data_width bits, each command closed by one void package.
CountedBits ==
  CASE state_contructor \in {"c_send_package", "c_clear"} -> 0
    [] state_contructor = "c_inc_mask" -> mask_integer + 1
    [] OTHER -> mask_integer

OpenPackage == FirstBits(data, CountedBits)

Port == IF write_request_out = 1 THEN <<BitsOf(data_out)>> ELSE <<>>

Phase ==
  CASE state_contructor = "c_new_bit" -> "owed"
    [] state_contructor = "c_send_void_package" -> "ending"
    [] OTHER -> "open"

Abstract == INSTANCE Packager WITH pending <- OpenPackage, port <- Port, phase <- Phase

ImplementsPackager == Abstract!Spec
=============================================================================
