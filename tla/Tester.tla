-------------------------------- MODULE Tester --------------------------------
(***************************************************************************)
(* The conformance tester in loopback: the program on the Nios II, the     *)
(* Avalon bus and the peripheral, on one clock, out of a power-on reset.   *)
(***************************************************************************)
EXTENDS CommandPackages, Scfifo

CONSTANTS Commands, timing, quant_packages, Gaps, PrintClocks

\* main's array has a word (reader.c:64).
ASSUME ArrayAssumption == quant_packages \in Nat \ {0}

VARIABLES
  rst,
  \* firmware
  bus, beats, pause, pc, todo, command, to_send, package, command_vector, command_size,
  \* register bank
  reg_settings, reg_timing, fifo_data_in, fifo_write_req, avs_readdata,
  fifo_write, already_seted,
  \* sender
  sc_state, mux, finished_sending, start_encoder, start_generator,
  gen_state, counter, generator_out, signal_generator_ended, tx_fifo, tx_idle,
  enc_state, data_sender_start, encoder_ended, request_new_data, tari_CS_start,
  state_sender, data_sender_end, half_tari_start, full_tari_start, encoder_out,
  index_bit, last_state_bit, i, half_tari_end, i2, full_tari_end, i3, tari_CS_end,
  \* receiver
  dec_state_controller, prev_bit_c, data_receiver_start, state_decoder, data_ready,
  data_receiver_end, clear_counter, eop, prev_bit_d, clock_start, was_one,
  data_out_decoder, err_decoder, clocks_counted,
  state_contructor, pack_data, mask_integer, write_request, clr_eop,
  rdreq_pulse, already_read, rx_fifo, rx_idle

nios == INSTANCE Firmware

rfid ==
  INSTANCE Rfid WITH
    avs_address <- bus.address,
    avs_write <- IF beats > 0 /\ bus.write THEN 1 ELSE 0,
    avs_read <- IF beats > 0 /\ ~bus.write THEN 1 ELSE 0,
    avs_writedata <- bus.data,
    rfid_rx <- 0

vars == <<rst, nios!registers, rfid!registers>>

Init == rst = 1 /\ nios!InitRegisters /\ rfid!InitRegisters

\* The processor leaves its reset with the peripheral.
PowerOn == rst = 1 /\ rst' = 0 /\ nios!Held

Running == rst = 0 /\ UNCHANGED rst /\ nios!Tick

Next == (PowerOn \/ Running) /\ rfid!Tick

Spec == Init /\ [][Next]_vars

\* The clock does not stop.
FairSpec == Spec /\ WF_vars(Next)

-----------------------------------------------------------------------------

\* What receiver_get_package hands to main is the command that was sent, bit
\* for bit, whatever the interleaving of the polls of both registers with the
\* two FIFOs, save for the 1 that the end of the command may add.
ReceivedIsSent ==
  pc = "received" =>
    /\ FlattenSeq(command_vector) \in HeardAs(command)
    /\ command_size = Len(FlattenSeq(command_vector))

\* The start flag is raised when the sender is looking for it: a start that
\* comes while it still counts the end of the last command would be lost, and
\* nothing in the program waits for that (SendReturnsWhenSent).
StartIsTaken ==
  [][6 \notin reg_settings /\ 6 \in reg_settings' => sc_state' = "c_wait"]_vars

\* A word that the program reads is in the receiver's FIFO: what it polled of
\* the empty flag, some clocks ago, is still true.
WordIsThere == pc = "rdreq" /\ beats = 1 => rx_fifo # <<>>

\* The word that the FIFO gives up is the word that the program has read, though
\* one goes by a register of the bus and the other by a pulse that the program
\* raises and lowers any number of clocks later: none is lost and none read twice.
PoppedIsRead == rdreq_pulse = 1 => rx_fifo # <<>> /\ package = Head(rx_fifo)

\* sender_send_command returns when its command was sent.
SendReturnsWhenSent == pc = "sent" => tx_fifo = <<>> /\ sc_state = "c_wait"

\* receiver_get_package writes main's array before it compares its index with the length,
\* and compares one package late.  What saves the program is that it gives up: no call goes
\* on, or returns to main, with a word stored past the array, and no second one is stored there.
VectorInBounds ==
  /\ pc # "failed" => Len(command_vector) <= quant_packages
  /\ Len(command_vector) <= quant_packages + 1

\* Every command that is sent comes back to main, or main gives it up for its length.
EveryCommandComesBack ==
  pc = "start_ctrl" ~>
    pc = "received" \/ (pc = "failed" /\ Len(PackagesOf(command)) > quant_packages + 1)
=============================================================================
