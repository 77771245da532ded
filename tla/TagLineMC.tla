------------------------------ MODULE TagLineMC ------------------------------
EXTENDS TagLine

\* What the test programs write to the limits for a Tari of 500 clocks.
MCLimits == [tari_101 |-> 505, tari_099 |-> 495, tari_1616 |-> 808, tari_1584 |-> 792]

\* The extremes of the decoder's window (InTimeAssumption): three clocks above the lower
\* limit, two above the upper one.
MCWholes == {498, 500, 507}
MCHalves == {250, 254}
\* Symbols and halves far too short or too long (but not so long that the low
\* line is rightly taken for the end of an answer, 792 clocks after its edge).
MCWrongWholes == {300, 700}
MCWrongHalves == {100, 250}
MCAnswers == CommandsUpTo(2) \cup {<<1, 0, 1>>, <<0, 1, 0, 0, 1>>}
MCHolds == {1, 6}
=============================================================================
