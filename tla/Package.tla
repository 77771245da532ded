------------------------------- MODULE Package -------------------------------
(***************************************************************************)
(* The word that travels through both FIFOs: data_width data bits and a    *)
(* mask that counts how many of them are in use (26 and 6 bits in the      *)
(* hardware; data_width is a VHDL generic and stays a parameter here).     *)
(* std_logic values are the bits 0 and 1.                                  *)
(***************************************************************************)
EXTENDS Integers, Sequences

CONSTANT data_width

ASSUME DataWidthAssumption == data_width \in Nat \ {0}

Bit == {0, 1}

BitIndex == 0 .. data_width - 1

Zeros == [k \in BitIndex |-> 0]

Packages == [data : [BitIndex -> Bit], mask : 0 .. data_width]

\* The package that ends a command: nothing but zeros, mask included.
Void == [data |-> Zeros, mask |-> 0]

\* Bits 0 .. n - 1 of a data vector, as a sequence.
FirstBits(bits, n) == [k \in 1 .. n |-> bits[k - 1]]

\* The bits a package carries, bit 0 first.
BitsOf(p) == FirstBits(p.data, p.mask)

\* A 32-bit word on the bus is a register of flags (the numbers of the bits
\* that are 1), a number, or a package; the views it is not used as are blank.
BlankWord == [flags |-> {}, number |-> 0, package |-> Void]
FlagsWord(flags) == [BlankWord EXCEPT !.flags = flags]
NumberWord(number) == [BlankWord EXCEPT !.number = number]
PackageWord(package) == [BlankWord EXCEPT !.package = package]
=============================================================================
