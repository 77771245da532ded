----------------------------- MODULE SenderLineMC -----------------------------
EXTENDS SenderLine

MCCommands == CommandsUpTo(3) \cup {<<0, 1, 1, 0, 0>>}

\* A show-ahead memory may present anything while the FIFO is empty.
OneWord == [data |-> [k \in BitIndex |-> 1], mask |-> data_width]
MCIdles == {Void, OneWord}

\* The proportions of a Tari of 10 us, on a smaller scale; and, with the TRcal that the
\* programs compute (135 us at 50 MHz, reader.c:28), a preamble the counter cannot count.
MCTimings ==
  {[tari |-> 20, pw |-> 10, delimiter |-> 25, RTcal |-> 54, TRcal |-> 60],
   [tari |-> 22, pw |-> 6, delimiter |-> 12, RTcal |-> 60, TRcal |-> 100],
   [tari |-> 20, pw |-> 10, delimiter |-> 25, RTcal |-> 54, TRcal |-> 6750]}
=============================================================================
