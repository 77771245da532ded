---------------------------- MODULE SignalGenerator ----------------------------
(***************************************************************************)
(* signal_generator.vhd: the preamble (delimiter, data-0, RTcal, TRcal) or *)
(* the frame-sync (the same without TRcal) that may precede a command.     *)
(***************************************************************************)
EXTENDS Integers

VARIABLES
  rst, enable, start_send, is_preamble,
  tari, pw, delimiter, RTcal, TRcal,                     \* input ports
  state_generator, counter, data_out, has_ended

registers == <<state_generator, counter, data_out, has_ended>>

\* counter: integer range 0 to 2000, eleven bits.
CounterSize == 2048

Phases == {"g_delimiter", "g_data0", "g_data0_PW", "g_RTcal", "g_RTcal_PW", "g_TRcal", "g_TRcal_PW"}
States == Phases \cup {"g_wait"}

\* The count at which a phase ends.
Limit(phase) ==
  CASE phase = "g_delimiter" -> delimiter
    [] phase = "g_data0"     -> tari - pw
    [] phase = "g_RTcal"     -> RTcal - pw
    [] phase = "g_TRcal"     -> TRcal - pw
    [] OTHER                 -> pw

\* The line is high except in the delimiter and in the pulses of width pw.
Level(phase) == IF phase \in {"g_data0", "g_RTcal", "g_TRcal"} THEN 1 ELSE 0

\* Mutant of Ends: every lead ends as a frame-sync does.
EndsAtRTcal(phase) == phase \in {"g_RTcal_PW", "g_TRcal_PW"}

Ends(phase) == phase = "g_TRcal_PW" \/ (phase = "g_RTcal_PW" /\ is_preamble = 0)

PhaseAfter(phase) ==
  CASE phase = "g_delimiter" -> "g_data0"
    [] phase = "g_data0"     -> "g_data0_PW"
    [] phase = "g_data0_PW"  -> "g_RTcal"
    [] phase = "g_RTcal"     -> "g_RTcal_PW"
    [] phase = "g_RTcal_PW"  -> "g_TRcal"
    [] phase = "g_TRcal"     -> "g_TRcal_PW"

InitRegisters == state_generator = "g_wait" /\ counter = 0 /\ data_out = 0 /\ has_ended = 0

Reset ==
  /\ rst = 1
  /\ state_generator' = "g_wait" /\ counter' = 0 /\ data_out' = 0 /\ has_ended' = 0

Hold == rst = 0 /\ enable = 0 /\ UNCHANGED registers

Running == rst = 0 /\ enable = 1

Wait ==
  /\ Running /\ state_generator = "g_wait"
  /\ counter' = 0 /\ data_out' = 0 /\ has_ended' = 0
  /\ state_generator' = IF start_send = 1 THEN "g_delimiter" ELSE "g_wait"

InPhase == Running /\ state_generator \in Phases /\ data_out' = Level(state_generator)

Count ==
  /\ InPhase /\ counter # Limit(state_generator)
  /\ counter' = (counter + 1) % CounterSize
  /\ UNCHANGED <<state_generator, has_ended>>

NextPhase ==
  /\ InPhase /\ counter = Limit(state_generator) /\ ~Ends(state_generator)
  /\ counter' = 0 /\ state_generator' = PhaseAfter(state_generator)
  /\ UNCHANGED has_ended

Finish ==
  /\ InPhase /\ counter = Limit(state_generator) /\ Ends(state_generator)
  /\ counter' = 0 /\ state_generator' = "g_wait" /\ has_ended' = 1

Tick == Reset \/ Hold \/ Wait \/ Count \/ NextPhase \/ Finish
=============================================================================
