--------------------------------- MODULE Rfid ---------------------------------
(***************************************************************************)
(* rfid.vhd: the register bank behind the Avalon bus, the sender, the      *)
(* receiver and the loopback switch.  A register of flags is the set of    *)
(* the numbers of the bits that are 1.  Tick is one rising clock edge of   *)
(* the whole peripheral.                                                   *)
(***************************************************************************)
EXTENDS Package, Scfifo

VARIABLES
  rst, avs_address, avs_read, avs_write, avs_writedata, rfid_rx,     \* input ports
  reg_settings, reg_timing, fifo_data_in, fifo_write_req, avs_readdata, \* register bank
  fifo_write, already_seted,                                         \* process aa
  \* sender
  sc_state, mux, finished_sending, start_encoder, start_generator,
  gen_state, counter, generator_out, signal_generator_ended, tx_fifo, tx_idle,
  enc_state, data_sender_start, encoder_ended, request_new_data, tari_CS_start,
  state_sender, data_sender_end, half_tari_start, full_tari_start, encoder_out,
  index_bit, last_state_bit, i, half_tari_end, i2, full_tari_end, i3, tari_CS_end,
  \* receiver
  dec_state_controller, prev_bit_c, data_receiver_start, state_decoder, data_ready,
  data_receiver_end, clear_counter, eop, prev_bit_d, clock_start, was_one,
  data_out_decoder, err_decoder, clocks_counted,
  state_contructor, pack_data, mask_integer, write_request, clr_eop,
  rdreq_pulse, already_read, rx_fifo, rx_idle

\* The addresses of the timing registers, and their names.
TimingAt ==
  [a \in {1} \cup 3 .. 10 |->
     <<"tari", "", "tari_101", "tari_099", "tari_1616", "tari_1584",
       "pw", "delimiter", "RTcal", "TRcal">>[a]]
TimingNames == {TimingAt[a] : a \in DOMAIN TimingAt}

Setting(bit) == IF bit \in reg_settings THEN 1 ELSE 0

rfid_sender ==
  INSTANCE Sender WITH
    rst <- Setting(0), enable <- Setting(1), clear_fifo <- Setting(2),
    has_gen <- Setting(5), start_controller <- Setting(6), is_preamble <- Setting(7),
    clr_finished_sending <- Setting(10), fifo_write_req <- fifo_write,
    tari <- reg_timing.tari, pw <- reg_timing.pw, delimiter <- reg_timing.delimiter,
    RTcal <- reg_timing.RTcal, TRcal <- reg_timing.TRcal

pin_tx == rfid_sender!q
pin_rx == IF Setting(8) = 0 THEN rfid_rx ELSE pin_tx

\* clr_err_decoder and sclr hang on bits of reg_status that nothing drives.
rfid_receiver ==
  INSTANCE Receiver WITH
    rst <- Setting(11), enable <- Setting(4), data_DUT <- pin_rx, rdreq <- Setting(12),
    clr_err_decoder <- 0, sclr <- 0,
    tari_101 <- reg_timing.tari_101, tari_099 <- reg_timing.tari_099,
    tari_1616 <- reg_timing.tari_1616, tari_1584 <- reg_timing.tari_1584

reg_status ==
  {n \in {0, 3, 9, 13, 14} :
     1 = CASE n = 0 -> rfid_sender!is_fifo_full
           [] n = 3 -> finished_sending
           [] n = 9 -> err_decoder
           [] n = 13 -> rfid_receiver!empty
           [] n = 14 -> rfid_receiver!full}

bank_registers == <<reg_settings, reg_timing, fifo_data_in, fifo_write_req, avs_readdata>>
registers ==
  <<bank_registers, fifo_write, already_seted, rfid_sender!registers, rfid_receiver!registers>>

InitRegisters ==
  /\ reg_settings = {} /\ reg_timing = [n \in TimingNames |-> 0]
  /\ fifo_data_in = Void /\ fifo_write_req = 0 /\ avs_readdata = BlankWord
  /\ fifo_write = 0 /\ already_seted = FALSE
  /\ rfid_sender!InitRegisters(Void) /\ rfid_receiver!InitRegisters(Void)

-----------------------------------------------------------------------------
(* The register bank.  A write goes before a read.                         *)

ResetBank ==
  /\ rst = 1
  /\ reg_settings' = {} /\ fifo_write_req' = 0
  /\ UNCHANGED <<reg_timing, fifo_data_in, avs_readdata>>

Write == rst = 0 /\ avs_write = 1 /\ UNCHANGED avs_readdata

WriteSettings ==
  /\ Write /\ avs_address = 0
  /\ reg_settings' = avs_writedata.flags /\ fifo_write_req' = 0
  /\ UNCHANGED <<reg_timing, fifo_data_in>>

WriteFifo ==
  /\ Write /\ avs_address = 2
  /\ fifo_data_in' = avs_writedata.package /\ fifo_write_req' = 1
  /\ UNCHANGED <<reg_settings, reg_timing>>

\* A write to any other address is lost.
WriteTiming ==
  /\ Write /\ avs_address \notin {0, 2}
  /\ reg_timing' = IF avs_address \in DOMAIN TimingAt
                     THEN [reg_timing EXCEPT ![TimingAt[avs_address]] = avs_writedata.number]
                     ELSE reg_timing
  /\ fifo_write_req' = 0
  /\ UNCHANGED <<reg_settings, fifo_data_in>>

\* 0xFF0055FF, as flags.
ID == FlagsWord(0 .. 7 \cup {8, 10, 12, 14} \cup 24 .. 31)

\* (Registers shorter than the bus leave its upper bits as the last read left
\* them; the program masks those away.)
ReadValue ==
  CASE avs_address = 0 -> FlagsWord(reg_settings)
    [] avs_address = 1 -> NumberWord(reg_timing.tari)
    [] avs_address = 3 -> FlagsWord(reg_status)
    [] avs_address = 4 -> PackageWord(rfid_receiver!data_out_fifo)
    [] avs_address = 5 -> NumberWord(rfid_sender!usedw)
    [] avs_address = 6 -> NumberWord(rfid_receiver!usedw)
    [] avs_address = 7 -> ID
    [] OTHER -> avs_readdata

ReadRegister ==
  /\ rst = 0 /\ avs_write = 0 /\ avs_read = 1
  /\ avs_readdata' = ReadValue /\ fifo_write_req' = 0
  /\ UNCHANGED <<reg_settings, reg_timing, fifo_data_in>>

NoAccess ==
  /\ rst = 0 /\ avs_write = 0 /\ avs_read = 0
  /\ fifo_write_req' = 0
  /\ UNCHANGED <<reg_settings, reg_timing, fifo_data_in, avs_readdata>>

Bank == ResetBank \/ WriteSettings \/ WriteFifo \/ WriteTiming \/ ReadRegister \/ NoAccess

\* Process aa: one write to the FIFO for a request, however long it lasts.
OneWrite ==
  /\ fifo_write' = IF fifo_write_req = 1 /\ ~already_seted THEN 1 ELSE 0
  /\ already_seted' = (fifo_write_req = 1)

Tick == Bank /\ OneWrite /\ rfid_sender!Tick /\ rfid_receiver!Tick
=============================================================================
