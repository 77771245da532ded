------------------------------ MODULE FM0Decoder ------------------------------
(***************************************************************************)
(* FM0_decoder.vhd: measures the time between the edges of the line and    *)
(* turns it into bits, an end-of-package flag or an error.  Three          *)
(* processes run on the same clock: decoder_controller, decoder_data and   *)
(* counter.  One step is one rising clock edge of all three.               *)
(***************************************************************************)
EXTENDS Integers

VARIABLES
  rst, enable, clr_err, clr_eop, data_in,               \* input ports
  tari_101, tari_099, tari_1616, tari_1584,             \* limits, in clocks
  state_controller, prev_bit_c, data_receiver_start,    \* decoder_controller
  state_decoder, data_ready, data_receiver_end, clear_counter, eop, prev_bit_d,
  clock_start, was_one, data_out, err,                  \* decoder_data
  clocks_counted                                        \* counter

limits == <<tari_101, tari_099, tari_1616, tari_1584>>
controller_vars == <<state_controller, prev_bit_c, data_receiver_start>>
decoder_vars == <<state_decoder, data_ready, data_receiver_end, clear_counter, eop,
                  prev_bit_d, clock_start, was_one, data_out, err>>
registers == <<controller_vars, decoder_vars, clocks_counted>>
inputs == <<rst, enable, clr_err, clr_eop, data_in>>
vars == <<inputs, limits, registers>>

States == {"d_wait", "d_start_counter", "d_wait_counter", "d_check_counter", "d_wait_counter2",
           "d_check_counter2", "d_error", "d_pass_1_01_tari", "d_counter_cs", "d_end"}

Bit == {0, 1}

\* The limits of half a tari drop the low bit of the limits of a whole one.
tari_0505 == tari_101 \div 2
tari_0495 == tari_099 \div 2

\* Mutant of IsHalfTari: its limits are outside.
IsHalfTariStrict == tari_0495 < clocks_counted /\ clocks_counted < tari_0505

IsHalfTari == tari_0495 <= clocks_counted /\ clocks_counted <= tari_0505
IsTari == tari_099 <= clocks_counted /\ clocks_counted <= tari_101
IsCS == tari_1584 < clocks_counted /\ clocks_counted < tari_1616
Edge == data_in # prev_bit_d

InitRegisters ==
  /\ state_controller = "c_wait" /\ prev_bit_c = 0 /\ data_receiver_start = 0
  /\ state_decoder = "d_wait" /\ data_ready = 0 /\ data_receiver_end = 0
  /\ clear_counter = 0 /\ eop = 0 /\ prev_bit_d = 0 /\ clock_start = 0
  /\ was_one = FALSE /\ data_out = 0 /\ err = 0
  /\ clocks_counted = 0

-----------------------------------------------------------------------------
(* decoder_controller: the first edge of a command starts the decoder.     *)

\* Mutant of ControllerReset: the line is taken to rest at 1.
ResetFromHigh == rst = 1 /\ state_controller' = "c_wait" /\ prev_bit_c' = 1 /\ UNCHANGED data_receiver_start

ControllerReset == rst = 1 /\ state_controller' = "c_wait" /\ UNCHANGED <<prev_bit_c, data_receiver_start>>

ControllerFirstEdge ==
  /\ rst = 0 /\ enable = 1 /\ state_controller = "c_wait" /\ prev_bit_c # data_in
  /\ prev_bit_c' = data_in /\ state_controller' = "c_decode" /\ data_receiver_start' = 1

ControllerDecode ==
  /\ rst = 0 /\ enable = 1 /\ state_controller = "c_decode"
  /\ prev_bit_c' = prev_bit_d
  /\ state_controller' = IF data_receiver_end = 1 THEN "c_wait" ELSE "c_decode"
  /\ data_receiver_start' = IF data_receiver_end = 1 THEN 0 ELSE data_receiver_start

ControllerHold ==
  /\ rst = 0 /\ (enable = 0 \/ (state_controller = "c_wait" /\ prev_bit_c = data_in))
  /\ UNCHANGED controller_vars

Controller == ControllerReset \/ ControllerFirstEdge \/ ControllerDecode \/ ControllerHold

-----------------------------------------------------------------------------
(* decoder_data: one bit between two of its visits to d_wait.              *)

In(state) == rst = 0 /\ enable = 1 /\ state_decoder = state
Goto(state) == state_decoder' = state

DecoderReset ==
  /\ rst = 1 /\ Goto("d_wait")
  /\ UNCHANGED <<data_ready, data_receiver_end, clear_counter, eop, prev_bit_d,
                 clock_start, was_one, data_out, err>>

DecoderHold == rst = 0 /\ enable = 0 /\ UNCHANGED decoder_vars

\* Mutant of Wait: clr_eop is looked at in d_end only.
WaitKeepsEop ==
  /\ In("d_wait")
  /\ data_ready' = 0 /\ data_receiver_end' = 0 /\ clear_counter' = 1
  /\ Goto(IF data_receiver_start = 1 THEN "d_start_counter" ELSE "d_wait")
  /\ prev_bit_d' = IF data_receiver_start = 1 THEN data_in ELSE prev_bit_d
  /\ UNCHANGED <<eop, clock_start, was_one, data_out, err>>

\* Mutant of Wait: data_ready is not lowered.
WaitKeepsReady ==
  /\ In("d_wait")
  /\ data_receiver_end' = 0 /\ clear_counter' = 1
  /\ eop' = IF clr_eop = 1 THEN 0 ELSE eop
  /\ Goto(IF data_receiver_start = 1 THEN "d_start_counter" ELSE "d_wait")
  /\ prev_bit_d' = IF data_receiver_start = 1 THEN data_in ELSE prev_bit_d
  /\ UNCHANGED <<data_ready, clock_start, was_one, data_out, err>>

\* clr_eop is only looked at here and in d_end.
Wait ==
  /\ In("d_wait")
  /\ data_ready' = 0 /\ data_receiver_end' = 0 /\ clear_counter' = 1
  /\ eop' = IF clr_eop = 1 THEN 0 ELSE eop
  /\ Goto(IF data_receiver_start = 1 THEN "d_start_counter" ELSE "d_wait")
  /\ prev_bit_d' = IF data_receiver_start = 1 THEN data_in ELSE prev_bit_d
  /\ UNCHANGED <<clock_start, was_one, data_out, err>>

StartCounter ==
  /\ In("d_start_counter") /\ Goto("d_wait_counter")
  /\ clock_start' = 1 /\ clear_counter' = 0
  /\ UNCHANGED <<data_ready, data_receiver_end, eop, prev_bit_d, was_one, data_out, err>>

\* No edge for more than 1.01 tari: the last bit of the command, or an error.
\* A first half without an edge was a 1, a second half was that of a 0.
PassTari ==
  /\ In("d_wait_counter") \/ In("d_wait_counter2")
  /\ clocks_counted > tari_101
  /\ was_one' = (state_decoder = "d_wait_counter")
  /\ Goto("d_pass_1_01_tari")
  /\ UNCHANGED <<data_ready, data_receiver_end, clear_counter, eop, prev_bit_d,
                 clock_start, data_out, err>>

FirstEdge ==
  /\ In("d_wait_counter") /\ clocks_counted <= tari_101 /\ Edge
  /\ prev_bit_d' = data_in /\ Goto("d_check_counter")
  /\ UNCHANGED <<data_ready, data_receiver_end, clear_counter, eop, clock_start,
                 was_one, data_out, err>>

SecondEdge ==
  /\ In("d_wait_counter2") /\ clocks_counted <= tari_101 /\ Edge
  /\ clock_start' = 0 /\ prev_bit_d' = data_in /\ Goto("d_check_counter2")
  /\ UNCHANGED <<data_ready, data_receiver_end, clear_counter, eop, was_one, data_out, err>>

NoEdge ==
  /\ In("d_wait_counter") \/ In("d_wait_counter2")
  /\ clocks_counted <= tari_101 /\ ~Edge
  /\ UNCHANGED decoder_vars

HalfTari ==
  /\ In("d_check_counter") /\ IsHalfTari
  /\ prev_bit_d' = data_in /\ Goto("d_wait_counter2")
  /\ UNCHANGED <<data_ready, data_receiver_end, clear_counter, eop, clock_start,
                 was_one, data_out, err>>

\* A whole tari gives a 1 without an edge in its middle, a 0 with one.
WholeTari ==
  /\ \/ In("d_check_counter") /\ ~IsHalfTari /\ data_out' = 1
     \/ In("d_check_counter2") /\ data_out' = 0
  /\ IsTari
  /\ clear_counter' = 1 /\ clock_start' = 0 /\ data_ready' = 1 /\ Goto("d_wait")
  /\ UNCHANGED <<data_receiver_end, eop, prev_bit_d, was_one, err>>

BadInterval ==
  /\ \/ In("d_check_counter") /\ ~IsHalfTari
     \/ In("d_check_counter2")
  /\ ~IsTari
  /\ clock_start' = 0 /\ clear_counter' = 1 /\ Goto("d_error")
  /\ UNCHANGED <<data_ready, data_receiver_end, eop, prev_bit_d, was_one, data_out, err>>

\* Mutant of Error: err is not raised.
ErrorUnreported ==
  /\ In("d_error")
  /\ clock_start' = 0
  /\ Goto(IF clr_err = 1 THEN "d_wait" ELSE "d_error")
  /\ UNCHANGED <<data_ready, data_receiver_end, clear_counter, eop, prev_bit_d,
                 was_one, data_out, err>>

Error ==
  /\ In("d_error")
  /\ clock_start' = 0
  /\ err' = 1 - clr_err
  /\ Goto(IF clr_err = 1 THEN "d_wait" ELSE "d_error")
  /\ UNCHANGED <<data_ready, data_receiver_end, clear_counter, eop, prev_bit_d,
                 was_one, data_out>>

\* Mutant of LastBit: the last bit is always a 1.
LastBitIsOne ==
  /\ In("d_pass_1_01_tari") /\ data_in = 0 /\ Goto("d_counter_cs")
  /\ data_out' = 1 /\ data_ready' = 1 /\ clear_counter' = 1
  /\ UNCHANGED <<data_receiver_end, eop, prev_bit_d, clock_start, was_one, err>>

\* A line that rests at 1 after a command is an error; at 0 the bit counts.
LastBit ==
  /\ In("d_pass_1_01_tari") /\ data_in = 0 /\ Goto("d_counter_cs")
  /\ data_out' = IF was_one THEN 1 ELSE 0
  /\ data_ready' = 1 /\ clear_counter' = 1
  /\ UNCHANGED <<data_receiver_end, eop, prev_bit_d, clock_start, was_one, err>>

StuckHigh ==
  /\ In("d_pass_1_01_tari") /\ data_in = 1 /\ Goto("d_error")
  /\ UNCHANGED <<data_ready, data_receiver_end, clear_counter, eop, prev_bit_d,
                 clock_start, was_one, data_out, err>>

CounterCS ==
  /\ In("d_counter_cs")
  /\ data_ready' = 0 /\ clear_counter' = 0
  /\ Goto(IF IsCS THEN "d_end" ELSE IF Edge THEN "d_error" ELSE "d_counter_cs")
  /\ eop' = IF IsCS THEN 1 ELSE eop
  /\ data_receiver_end' = IF IsCS THEN 1 ELSE data_receiver_end
  /\ UNCHANGED <<prev_bit_d, clock_start, was_one, data_out, err>>

End ==
  /\ In("d_end") /\ Goto("d_wait")
  /\ clock_start' = 0 /\ data_receiver_end' = 0
  /\ eop' = IF clr_eop = 1 THEN 0 ELSE eop
  /\ UNCHANGED <<data_ready, clear_counter, prev_bit_d, was_one, data_out, err>>

Decoder ==
  \/ DecoderReset \/ DecoderHold \/ Wait \/ StartCounter
  \/ PassTari \/ FirstEdge \/ SecondEdge \/ NoEdge
  \/ HalfTari \/ WholeTari \/ BadInterval \/ Error
  \/ LastBit \/ StuckHigh \/ CounterCS \/ End

-----------------------------------------------------------------------------
(* counter: counts while clock_start is 1, even when asked to clear.       *)

Counter ==
  clocks_counted' = IF rst = 1 THEN 0
                    ELSE IF clock_start = 1 THEN clocks_counted + 1
                    ELSE IF clear_counter = 1 THEN 0
                    ELSE clocks_counted

Tick == Controller /\ Decoder /\ Counter
=============================================================================
