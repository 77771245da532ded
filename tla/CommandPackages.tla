---------------------------- MODULE CommandPackages ----------------------------
(***************************************************************************)
(* A command, which is a non-empty sequence of bits, and the packages that *)
(* carry it, as sender_add_mask of functions/sender.c and the package      *)
(* constructor cut it: first bits first, bit 0 of a package first, only    *)
(* the last package partly used, and a void package at the end.            *)
(***************************************************************************)
EXTENDS Package, SequencesExt

CommandsUpTo(n) == UNION {[1 .. len -> Bit] : len \in 1 .. n}

PackageOf(bits) ==
  [data |-> [k \in BitIndex |-> IF k < Len(bits) THEN bits[k + 1] ELSE 0], mask |-> Len(bits)]

PackagesOf(bits) ==
  LET whole == Len(bits) \div data_width
      rest == SubSeq(bits, whole * data_width + 1, Len(bits))
  IN [p \in 1 .. whole |-> PackageOf(SubSeq(bits, (p - 1) * data_width + 1, p * data_width))]
       \o (IF rest = <<>> THEN <<>> ELSE <<PackageOf(rest)>>) \o <<Void>>

\* What a receiver makes of a command: the line falls at the end of a last
\* symbol that ends high, and the receiver takes that for the start of a 1.
\* (The validators of helpers/commands let a command be one bit too long.)
HeardAs(bits) == {bits, Append(bits, 1)}
=============================================================================
