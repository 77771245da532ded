------------------------------- MODULE Dialogue -------------------------------
(***************************************************************************)
(* What the handshake of docs-src/index.md promises: reader and tag take   *)
(* turns.  Nothing is said before what was said last has been heard, and   *)
(* nothing is heard that was not said.                                     *)
(***************************************************************************)
EXTENDS Naturals

VARIABLES said,  \* commands that either side has sent
          heard  \* commands that either side has received and accepted

Init == said = 0 /\ heard = 0

Say == said = heard /\ said' = said + 1 /\ UNCHANGED heard
Hear == heard < said /\ heard' = heard + 1 /\ UNCHANGED said

Next == Say \/ Hear

Spec == Init /\ [][Next]_<<said, heard>>
=============================================================================
