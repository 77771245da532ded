------------------------------- MODULE Channel -------------------------------
(***************************************************************************)
(* What sender, line and receiver promise together, without clocks: one    *)
(* command at a time goes in; its packages come out one by one, in order,  *)
(* none twice and none that was not sent, the void package last and once;  *)
(* and not before all of it is out is it reported as sent.                  *)
(***************************************************************************)
EXTENDS CommandPackages

CONSTANT Commands

VARIABLES carried,   \* the command on its way, or <<>>
          delivered, \* packages of it that are out
          reported   \* has it been reported as sent?

\* What may come out of the command, the void package included.
Coming == {PackagesOf(bits) : bits \in HeardAs(carried)}
Whole == delivered \in Coming

Init == carried = <<>> /\ delivered = <<>> /\ ~reported

Take ==
  /\ carried = <<>> /\ carried' \in Commands
  /\ UNCHANGED <<delivered, reported>>

NextPackage ==
  /\ carried # <<>> /\ ~Whole
  /\ \E packages \in Coming :
       /\ IsStrictPrefix(delivered, packages)
       /\ delivered' = Append(delivered, packages[Len(delivered) + 1])

Deliver == NextPackage /\ UNCHANGED <<carried, reported>>

Report ==
  /\ carried # <<>> /\ ~reported /\ reported' = TRUE
  /\ (Whole /\ UNCHANGED delivered) \/ (NextPackage /\ Whole')
  /\ UNCHANGED carried

Clear == reported /\ carried' = <<>> /\ delivered' = <<>> /\ reported' = FALSE

\* A reset before anything is out.
Withdraw ==
  /\ delivered = <<>> /\ ~reported
  /\ carried' = <<>> /\ UNCHANGED <<delivered, reported>>

Next == Take \/ Deliver \/ Report \/ Clear \/ Withdraw

Spec == Init /\ [][Next]_<<carried, delivered, reported>>
=============================================================================
