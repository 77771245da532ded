-------------------------------- MODULE Words --------------------------------
(***************************************************************************)
(* The unsigned words of the C program.  A word is the set of the positions *)
(* of its 1 bits: | is \cup, & is \cap, a mask of n low bits is Bits(n).    *)
(* Whoever uses a shift cuts the result to the width of its C type.         *)
(***************************************************************************)
EXTENDS Integers

Bits(width) == 0 .. width - 1

Low(w, width) == w \cap Bits(width)
LeftShift(w, n) == {k + n : k \in w}
RightShift(w, n) == {k - n : k \in {j \in w : j >= n}}
\* The low bits of w put at a place, and the bits of w that stand at a place.
Field(w, width, place) == LeftShift(Low(w, width), place)
ExtractField(w, width, place) == Low(RightShift(w, place), width)

ExclusiveOr(v, w) == (v \ w) \cup (w \ v)

\* A 32-bit int that is turned into an unsigned long long.
Widened(w) == IF 31 \in w THEN w \cup 32 .. 63 ELSE w

\* What w << n may be on a 32-bit int.  Shifts by 32 and more are undefined: the
\* processor takes n modulo 32, a compiler that folds constants takes 0.
IntShifts(w, n) ==
  IF n < 32 THEN {Low(LeftShift(w, n), 32)} ELSE {Low(LeftShift(w, n - 32), 32), {}}
=============================================================================
