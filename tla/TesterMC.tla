------------------------------- MODULE TesterMC -------------------------------
EXTENDS Tester

\* 40 clocks a Tari, with limits as wide in proportion as the counting is coarse.
MCTiming ==
  [tari |-> 40, tari_101 |-> 44, tari_099 |-> 34, tari_1616 |-> 68, tari_1584 |-> 62,
   pw |-> 20, delimiter |-> 50, RTcal |-> 108, TRcal |-> 108]

\* Commands the link can carry: a last package that is not empty, and a 1 in every package.
Carried(bits) ==
  /\ Len(bits) % data_width # 0
  /\ \A p \in 1 .. Len(PackagesOf(bits)) - 1 : PackagesOf(bits)[p].data # Zeros

\* One package or two, as many as main's array has words; three, too many for it; five, for
\* which the program waits at the full flag of a FIFO of four words.  (Four would leave no
\* room for the void package.  A FIFO of 256 words holds every command of the programs.)
MCCommands ==
  {bits \in CommandsUpTo(4) : Carried(bits)}
  \cup {<<1, 0, 1, 1, 1, 0, 1>>, <<1, 0, 1, 1, 1, 0, 0, 1, 0, 1, 0, 0, 1>>}
MCGaps == {1, 4}
OneGap == {2}

\* Commands of the size of a package.
PackageCommands == {<<1, 0, 1>>}
=============================================================================
