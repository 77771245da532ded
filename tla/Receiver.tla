------------------------------- MODULE Receiver -------------------------------
(***************************************************************************)
(* receiver.vhd: the FM0 decoder, the package constructor, the FIFO and    *)
(* the process that turns a read request level into one pulse.  Every      *)
(* INSTANCE is a port map; Tick is one rising clock edge of the receiver.  *)
(***************************************************************************)
EXTENDS Package, Scfifo

VARIABLES
  rst, enable, data_DUT, clr_err_decoder, rdreq, sclr,
  tari_101, tari_099, tari_1616, tari_1584,                          \* input ports
  dec_state_controller, prev_bit_c, data_receiver_start, state_decoder, data_ready,
  data_receiver_end, clear_counter, eop, prev_bit_d, clock_start, was_one,
  data_out_decoder, err_decoder, clocks_counted,                     \* decoder
  state_contructor, pack_data, mask_integer, write_request, clr_eop, \* pack_const
  rdreq_pulse, already_read,                                         \* pulse_generator
  rx_fifo, rx_idle                                                   \* fifo

decoder ==
  INSTANCE FM0Decoder WITH
    data_in <- data_DUT, clr_err <- clr_err_decoder, err <- err_decoder,
    data_out <- data_out_decoder, state_controller <- dec_state_controller

pack_const ==
  INSTANCE PackageConstructor WITH
    data_in <- data_out_decoder, data <- pack_data, write_request_out <- write_request

data_out_fifo == Q(rx_fifo, rx_idle)
empty == Empty(rx_fifo)
full == Full(rx_fifo)
usedw == Usedw(rx_fifo)

registers ==
  <<decoder!registers, pack_const!registers, rdreq_pulse, already_read, rx_fifo, rx_idle>>

InitRegisters(idle) ==
  /\ decoder!InitRegisters /\ pack_const!InitRegisters
  /\ rdreq_pulse = 0 /\ already_read = FALSE
  /\ rx_fifo = <<>> /\ rx_idle = idle

\* Mutant of PulseGenerator: the pulse lasts as long as the request.
PulseWhileRequested ==
  /\ rdreq_pulse' = IF rst = 0 /\ rdreq = 1 THEN 1 ELSE 0
  /\ already_read' = (rst = 0 /\ rdreq = 1)

\* One pulse per rise of rdreq, however long the host holds it.
PulseGenerator ==
  /\ rdreq_pulse' = IF rst = 0 /\ rdreq = 1 /\ ~already_read THEN 1 ELSE 0
  /\ already_read' = (rst = 0 /\ rdreq = 1)

Fifo ==
  /\ rx_fifo' = Clocked(rx_fifo, write_request, pack_const!data_out, rdreq_pulse, sclr)
  /\ UNCHANGED rx_idle

Tick == decoder!Tick /\ pack_const!Tick /\ PulseGenerator /\ Fifo
=============================================================================
