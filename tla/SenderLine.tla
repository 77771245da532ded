------------------------------ MODULE SenderLine ------------------------------
(***************************************************************************)
(* sender.vhd on its own, with the line it drives recorded as a sequence   *)
(* of levels and their lengths.  The host fills the FIFO, sets has_gen and *)
(* is_preamble, pulses start and clears finished_sending once it is up, as *)
(* testbench sender_tb.vhd does.                                           *)
(***************************************************************************)
EXTENDS CommandPackages, Scfifo

CONSTANTS Timings,  \* what the timing registers of the sender may hold
          Commands, \* the commands the host may send
          Idles,    \* what the FIFO memory may show while empty
          Early,    \* clocks by which an interval may be too short
          Late,     \* clocks by which an interval may be too long
          MaxClocks \* bound on the recorded length of an interval

VARIABLES
  sc_state, mux, finished_sending, start_encoder, start_generator,
  gen_state, counter, generator_out, signal_generator_ended,
  tx_fifo, tx_idle,
  enc_state, data_sender_start, encoder_ended, request_new_data, tari_CS_start,
  state_sender, data_sender_end, half_tari_start, full_tari_start, encoder_out,
  index_bit, last_state_bit, i, half_tari_end, i2, full_tari_end, i3, tari_CS_end,
  timing, has_gen, is_preamble, stage, command, script,
  wave   \* history: the line since start, as a sequence of [level, clocks]

Pulse(when) == IF stage = when THEN 1 ELSE 0

tx ==
  INSTANCE Sender WITH
    rst <- 0, enable <- 1, clear_fifo <- 0,
    clr_finished_sending <- Pulse("clear"),
    start_controller <- Pulse("start"),
    fifo_write_req <- Pulse("write"),
    fifo_data_in <- IF stage = "write" THEN Head(script) ELSE Void,
    tari <- timing.tari, pw <- timing.pw, delimiter <- timing.delimiter,
    RTcal <- timing.RTcal, TRcal <- timing.TRcal

host_vars == <<timing, has_gen, is_preamble, stage, command, script>>
vars == <<tx!registers, host_vars, wave>>

Init ==
  /\ \E idle \in Idles : tx!InitRegisters(idle)
  /\ timing \in Timings
  /\ has_gen = 0 /\ is_preamble = 0
  /\ stage = "choose" /\ command = <<>> /\ script = <<>> /\ wave = <<>>

Choose ==
  /\ stage = "choose" /\ stage' = "write"
  /\ command' \in Commands
  /\ has_gen' \in Bit
  /\ is_preamble' \in IF has_gen' = 1 THEN Bit ELSE {0}
  /\ script' = PackagesOf(command')

Write ==
  /\ stage = "write"
  /\ script' = Tail(script)
  /\ stage' = IF Len(script) = 1 THEN "start" ELSE "write"
  /\ UNCHANGED <<command, has_gen, is_preamble>>

Start == stage = "start" /\ stage' = "wait" /\ UNCHANGED <<command, script, has_gen, is_preamble>>

Wait ==
  /\ stage = "wait"
  /\ stage' = IF finished_sending = 1 THEN "clear" ELSE "wait"
  /\ UNCHANGED <<command, script, has_gen, is_preamble>>

Clear == stage = "clear" /\ stage' = "choose" /\ UNCHANGED <<command, script, has_gen, is_preamble>>

Host == (Choose \/ Write \/ Start \/ Wait \/ Clear) /\ UNCHANGED timing

\* The wave with one more clock of a level.
Extended(level) ==
  IF wave # <<>> /\ Last(wave).level = level
    THEN [wave EXCEPT ![Len(wave)].clocks = IF @ < MaxClocks THEN @ + 1 ELSE @]
    ELSE Append(wave, [level |-> level, clocks |-> 1])

Record == wave' = IF stage \in {"start", "wait"} THEN Extended(tx!q) ELSE <<>>

Next == Host /\ tx!Tick /\ Record

Spec == Init /\ [][Next]_vars

FairSpec == Spec /\ WF_vars(Next)

-----------------------------------------------------------------------------
(* What should be seen on the line.                                        *)

Interval(level, clocks) == [level |-> level, clocks |-> clocks]

\* High for the rest of the period, then a low pulse of width pw.
Period(clocks) == <<Interval(1, clocks - timing.pw), Interval(0, timing.pw)>>

Lead ==
  IF has_gen = 0 THEN <<Interval(0, 0)>>
  ELSE <<Interval(0, timing.delimiter)>> \o Period(timing.tari) \o Period(timing.RTcal)
         \o (IF is_preamble = 1 THEN Period(timing.TRcal) ELSE <<>>)

\* FM0: the line changes at the start of every bit, and in the middle of a 0.
AddBit(line, bit) ==
  LET last == Last(line).level
  IN IF bit = 1 THEN Append(line, Interval(1 - last, timing.tari))
     ELSE line \o <<Interval(1 - last, timing.tari \div 2), Interval(last, timing.tari \div 2)>>

Expected == FoldLeft(AddBit, Lead, command)

\* The whole command is on the line when it is reported as sent: the preamble
\* or frame-sync that was asked for, every bit of it in FM0, no interval short
\* or long by more than the hand-overs between processes cost (a timer that is
\* stopped one clock late gives that clock back in the next command), and then
\* two tari of low line, on which the end of the command is recognised.
LineCarriesCommand ==
  stage = "clear" =>
    LET bits == Len(Expected)
        rest == IF Last(Expected).level = 0 THEN bits ELSE bits + 1
    IN /\ Len(wave) = rest
       /\ \A k \in 1 .. bits :
            /\ wave[k].level = Expected[k].level
            /\ wave[k].clocks >= Expected[k].clocks - Early
            /\ k < rest => wave[k].clocks <= Expected[k].clocks + Late
       /\ wave[rest].level = 0 /\ wave[rest].clocks >= 2 * timing.tari

\* The generator's counter reaches the limits of the lead that was asked for.
Counted ==
  has_gen = 1 =>
    \A limit \in {timing.delimiter, timing.pw, timing.tari - timing.pw, timing.RTcal - timing.pw}
                   \cup (IF is_preamble = 1 THEN {timing.TRcal - timing.pw} ELSE {}) :
      limit \in 0 .. 2047

\* Every command that is started is reported as sent, whatever precedes it, if the
\* generator can count the preamble or frame-sync that was asked for; if it cannot, the
\* command is never reported (the registers have 16 bits, the counter has 11).
EveryStartFinishes ==
  /\ stage = "start" /\ Counted ~> stage = "clear"
  /\ [](stage = "clear" => Counted)
=============================================================================
