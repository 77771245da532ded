--------------------------------- MODULE Link ---------------------------------
(***************************************************************************)
(* The sender's line wired to the receiver's input, as rfid.vhd does in    *)
(* loopback, with both entities clocked together and a host that plays the *)
(* part of the register bank: it fills the sender's FIFO, pulses start and *)
(* waits until the command is both reported as sent and received.          *)
(***************************************************************************)
EXTENDS CommandPackages, Scfifo, FiniteSetsExt

CONSTANTS Timings,     \* what the timing registers may hold, see TimingOf
          Commands,    \* the commands the host may send: non-empty bit sequences
          ResetStages, \* the stages in which the host may reset both entities
          Idles        \* what the FIFO memories may show while empty

ASSUME CommandsAssumption ==
  /\ Commands \subseteq Seq(Bit) \ {<<>>}
  /\ \A bits \in Commands : Len(PackagesOf(Append(bits, 1))) <= depth

VARIABLES
  \* sender
  sc_state, mux, finished_sending, start_encoder, start_generator,
  gen_state, counter, generator_out, signal_generator_ended,
  tx_fifo, tx_idle,
  enc_state, data_sender_start, encoder_ended, request_new_data, tari_CS_start,
  state_sender, data_sender_end, half_tari_start, full_tari_start, encoder_out,
  index_bit, last_state_bit, i, half_tari_end, i2, full_tari_end, i3, tari_CS_end,
  \* receiver
  dec_state_controller, prev_bit_c, data_receiver_start, state_decoder, data_ready,
  data_receiver_end, clear_counter, eop, prev_bit_d, clock_start, was_one,
  data_out_decoder, err_decoder, clocks_counted,
  state_contructor, pack_data, mask_integer, write_request, clr_eop,
  rdreq_pulse, already_read, rx_fifo, rx_idle,
  \* host
  timing, stage, command, script

\* The limits the test programs write: 1.01, 0.99, 1.616 and 1.584 tari, truncated.
TimingOf(t) ==
  [tari |-> t, tari_101 |-> (t * 101) \div 100, tari_099 |-> (t * 99) \div 100,
   tari_1616 |-> (t * 1616) \div 1000, tari_1584 |-> (t * 1584) \div 1000]

resetting == IF stage = "reset" THEN 1 ELSE 0

tx ==
  INSTANCE Sender WITH
    rst <- resetting, enable <- 1, has_gen <- 0, is_preamble <- 0, clear_fifo <- resetting,
    clr_finished_sending <- IF stage \in {"accept", "reset"} THEN 1 ELSE 0,
    start_controller <- IF stage = "start" THEN 1 ELSE 0,
    fifo_write_req <- IF stage = "write" THEN 1 ELSE 0,
    fifo_data_in <- IF stage = "write" THEN Head(script) ELSE Void,
    tari <- timing.tari, pw <- 0, delimiter <- 0, RTcal <- 0, TRcal <- 0

rx ==
  INSTANCE Receiver WITH
    rst <- resetting, enable <- 1, data_DUT <- tx!q, clr_err_decoder <- 0, rdreq <- 0,
    sclr <- IF stage \in {"accept", "reset"} THEN 1 ELSE 0,
    tari_101 <- timing.tari_101, tari_099 <- timing.tari_099,
    tari_1616 <- timing.tari_1616, tari_1584 <- timing.tari_1584

host_vars == <<timing, stage, command, script>>
vars == <<tx!registers, rx!registers, host_vars>>

EndReceived == rx_fifo # <<>> /\ rx_fifo[Len(rx_fifo)] = Void

Init ==
  /\ \E idle \in Idles : tx!InitRegisters(idle) /\ rx!InitRegisters(idle)
  /\ timing \in Timings
  /\ stage = "choose" /\ command = <<>> /\ script = <<>>

ChooseCommand ==
  /\ stage = "choose"
  /\ command' \in Commands
  /\ script' = PackagesOf(command') /\ stage' = "write"

WritePackage ==
  /\ stage = "write"
  /\ script' = Tail(script)
  /\ stage' = IF Tail(script) = <<>> THEN "start" ELSE "write"
  /\ UNCHANGED command

StartCtrl == stage = "start" /\ stage' = "wait" /\ UNCHANGED <<command, script>>

\* Both ends of the exchange are over; the answer is taken in this stage.
BothEnded ==
  /\ stage = "wait" /\ finished_sending = 1 /\ EndReceived
  /\ stage' = "accept" /\ UNCHANGED <<command, script>>

KeepWaiting ==
  /\ stage = "wait" /\ ~(finished_sending = 1 /\ EndReceived)
  /\ UNCHANGED <<stage, command, script>>

Accept ==
  /\ stage = "accept"
  /\ stage' = "choose" /\ command' = <<>> /\ UNCHANGED script

\* One clock of reset for both entities; both FIFOs are cleared with it.
BeginReset ==
  /\ stage \in ResetStages
  /\ stage' = "reset" /\ command' = <<>> /\ script' = <<>>

EndReset == stage = "reset" /\ stage' = "quiet" /\ UNCHANGED <<command, script>>

\* After a reset the host leaves the line alone for as long as it likes.
Quiet ==
  /\ stage = "quiet"
  /\ stage' \in {"quiet", "choose"} /\ UNCHANGED <<command, script>>

Host ==
  /\ \/ ChooseCommand \/ WritePackage \/ StartCtrl \/ BothEnded \/ KeepWaiting \/ Accept
     \/ BeginReset \/ EndReset \/ Quiet
  /\ UNCHANGED timing

Next == Host /\ tx!Tick /\ rx!Tick

Spec == Init /\ [][Next]_vars

\* The clock does not stop.
FairSpec == Spec /\ WF_vars(Next)

-----------------------------------------------------------------------------

\* A command comes back whole, in its packages and in order, however it falls into
\* packages, save for the 1 that the end of the command may add to it.
CommandSurvives ==
  EndReceived => \E heard \in HeardAs(command) : rx_fifo = PackagesOf(heard)

C == INSTANCE Channel
       WITH carried <- command, delivered <- rx_fifo, reported <- finished_sending = 1

\* Sender, line and receiver are a channel: packages come out in order and only
\* while a command is on its way, and the sender, whose timers know nothing of the
\* receiver, reports a command only after the receiver has announced its end.
ImplementsChannel == C!Spec

\* The receiver never sees an interval it must refuse.
NoDecodingError == state_decoder # "d_error"

\* The end of a command is announced once: the constructor, which raises
\* clr_eop for a single clock, finds the decoder ready to lower eop.
OneVoidPerCommand ==
  Quantify(DOMAIN rx_fifo, LAMBDA p : rx_fifo[p] = Void) <= 1

\* A reset receiver that sees no edge announces nothing.
ResetSilencesDecoder == stage = "quiet" => state_decoder # "d_end"

\* Every command that was started is delivered and reported as sent.
EveryCommandEnds == stage = "start" ~> stage = "accept"
=============================================================================
