-------------------------------- MODULE LinkMC --------------------------------
EXTENDS Link

\* The limits are registers: with wider ones a link of 20 clocks a Tari works
\* too, and its hand-overs between processes take a larger part of a bit.
SmallTiming == [tari |-> 20, tari_101 |-> 24, tari_099 |-> 14, tari_1616 |-> 36, tari_1584 |-> 30]

\* 10 us at 50 MHz, the Tari of every test program; and the ends of the range
\* of even Taris that the link carries.
MCTimings == {SmallTiming} \cup {TimingOf(t) : t \in {402, 500, 1022}}

\* One package or less, two whole ones, and two and a part.
MCCommands ==
  CommandsUpTo(2) \cup {<<1, 0, 1>>, <<0, 1, 1>>, <<1, 0, 0, 1, 1, 0>>, <<0, 0, 1, 0, 1, 1, 0>>}

MCIdles == {Void}

BetweenCommands == {"choose", "write"}
DuringCommands == {"wait"}

ResetTimings == {SmallTiming}
ResetCommands == CommandsUpTo(2)
=============================================================================
