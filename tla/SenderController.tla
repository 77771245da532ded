--------------------------- MODULE SenderController ---------------------------
(***************************************************************************)
(* sender_controller.vhd: decides whether the line carries the preamble    *)
(* generator or the encoder, and when a command counts as sent.            *)
(***************************************************************************)
EXTENDS Integers

VARIABLES
  rst, enable, start, signal_generator_ended, encoder_ended, has_gen,
  clr_finished_sending,                                              \* input ports
  state_controller, mux, finished_sending, start_encoder, start_generator

registers == <<state_controller, mux, finished_sending, start_encoder, start_generator>>

States == {"c_wait", "c_wait_generator", "c_wait_encoder"}

InitRegisters ==
  /\ state_controller = "c_wait"
  /\ mux = 0 /\ finished_sending = 0 /\ start_encoder = 0 /\ start_generator = 0

Clocked == rst = 0 /\ enable = 1
In(state) == Clocked /\ state_controller = state
Goto(state) == state_controller' = state

\* The clear is outside the clocked part and wins over it.
Finished(value) == finished_sending' = IF clr_finished_sending = 1 THEN 0 ELSE value

Reset ==
  /\ rst = 1 /\ Goto("c_wait") /\ Finished(finished_sending)
  /\ UNCHANGED <<mux, start_encoder, start_generator>>

Hold ==
  /\ rst = 0 /\ enable = 0 /\ Finished(finished_sending)
  /\ UNCHANGED <<state_controller, mux, start_encoder, start_generator>>

WaitIdle ==
  /\ In("c_wait") /\ start = 0
  /\ start_encoder' = 0 /\ start_generator' = 0 /\ Finished(finished_sending)
  /\ UNCHANGED <<state_controller, mux>>

StartGenerator ==
  /\ In("c_wait") /\ start = 1 /\ has_gen = 1 /\ Goto("c_wait_generator")
  /\ start_encoder' = 0 /\ start_generator' = 1 /\ Finished(finished_sending)
  /\ UNCHANGED mux

StartEncoder ==
  /\ In("c_wait") /\ start = 1 /\ has_gen = 0 /\ Goto("c_wait_encoder")
  /\ start_encoder' = 1 /\ start_generator' = 0 /\ Finished(finished_sending)
  /\ UNCHANGED mux

\* Mutant of WaitGenerator: the encoder is not started.
WaitGeneratorOnly ==
  /\ In("c_wait_generator") /\ Finished(finished_sending)
  /\ mux' = 0 /\ start_generator' = 0
  /\ Goto(IF signal_generator_ended = 1 THEN "c_wait_encoder" ELSE "c_wait_generator")
  /\ UNCHANGED start_encoder

WaitGenerator ==
  /\ In("c_wait_generator") /\ Finished(finished_sending)
  /\ mux' = 0 /\ start_generator' = 0
  /\ Goto(IF signal_generator_ended = 1 THEN "c_wait_encoder" ELSE "c_wait_generator")
  /\ start_encoder' = IF signal_generator_ended = 1 THEN 1 ELSE start_encoder

\* start is not looked at here: a start pulse that comes now is lost.
WaitEncoder ==
  /\ In("c_wait_encoder") /\ encoder_ended = 0 /\ Finished(finished_sending)
  /\ mux' = 1
  /\ UNCHANGED <<state_controller, start_encoder, start_generator>>

EncoderEnded ==
  /\ In("c_wait_encoder") /\ encoder_ended = 1 /\ Goto("c_wait")
  /\ mux' = 1 /\ start_encoder' = 0 /\ Finished(1)
  /\ UNCHANGED start_generator

Tick ==
  \/ Reset \/ Hold \/ WaitIdle \/ StartGenerator \/ StartEncoder
  \/ WaitGenerator \/ WaitEncoder \/ EncoderEnded
=============================================================================
