-------------------------------- MODULE Sender --------------------------------
(***************************************************************************)
(* sender.vhd with fifo_fm0.vhd: the controller, the preamble generator,   *)
(* the FIFO and the FM0 encoder wired together.  Every INSTANCE below is a *)
(* port map; Tick is one rising clock edge of the whole sender.            *)
(***************************************************************************)
EXTENDS Package, Scfifo

VARIABLES
  rst, enable, clr_finished_sending, start_controller, has_gen, is_preamble,
  clear_fifo, fifo_write_req, fifo_data_in,
  tari, pw, delimiter, RTcal, TRcal,                               \* input ports
  sc_state, mux, finished_sending, start_encoder, start_generator, \* controller
  gen_state, counter, generator_out, signal_generator_ended,       \* generator
  tx_fifo, tx_idle,                                                \* fifo
  enc_state, data_sender_start, encoder_ended, request_new_data, tari_CS_start,
  state_sender, data_sender_end, half_tari_start, full_tari_start, encoder_out,
  index_bit, last_state_bit,
  i, half_tari_end, i2, full_tari_end, i3, tari_CS_end             \* encoder

\* fifo_out: the word the encoder sees.
fifo_out == Q(tx_fifo, tx_idle)
is_fifo_full == Full(tx_fifo)
usedw == Usedw(tx_fifo)

controller ==
  INSTANCE SenderController WITH
    start <- start_controller, state_controller <- sc_state

generator ==
  INSTANCE SignalGenerator WITH
    start_send <- start_generator, state_generator <- gen_state,
    data_out <- generator_out, has_ended <- signal_generator_ended

fm0 ==
  INSTANCE FM0Encoder WITH
    enable <- start_encoder, is_fifo_empty <- Empty(tx_fifo), data_in <- fifo_out,
    state_controller <- enc_state, finished_sending <- encoder_ended,
    data_out <- encoder_out

\* q: the line, from the encoder or from the generator.
q == IF mux = 1 THEN encoder_out ELSE generator_out

registers ==
  <<controller!registers, generator!registers, tx_fifo, tx_idle, fm0!registers>>

\* idle is what the FIFO's memory shows before anything was written to it.
InitRegisters(idle) ==
  /\ controller!InitRegisters /\ generator!InitRegisters /\ fm0!InitRegisters
  /\ tx_fifo = <<>> /\ tx_idle = idle

Fifo ==
  /\ tx_fifo' = Clocked(tx_fifo, fifo_write_req, fifo_data_in, request_new_data, clear_fifo)
  /\ UNCHANGED tx_idle

Tick == controller!Tick /\ generator!Tick /\ fm0!Tick /\ Fifo
=============================================================================
