------------------------------ MODULE FM0Encoder ------------------------------
(***************************************************************************)
(* FM0_encoder.vhd: takes packages from the sender's FIFO and drives the   *)
(* line with their FM0 code, bit 0 first; a void package makes it hold the *)
(* line low for two tari and report the command as sent.  Five processes   *)
(* share the clock: fm0_controller, data_sender and three timers.          *)
(***************************************************************************)
EXTENDS Package

VARIABLES
  rst, enable, tari, is_fifo_empty, data_in,                       \* input ports
  state_controller, data_sender_start, finished_sending,
  request_new_data, tari_CS_start,                                 \* fm0_controller
  state_sender, data_sender_end, half_tari_start, full_tari_start,
  data_out, index_bit, last_state_bit,                             \* data_sender
  i, half_tari_end, i2, full_tari_end, i3, tari_CS_end             \* timers

controller_vars ==
  <<state_controller, data_sender_start, finished_sending, request_new_data, tari_CS_start>>
sender_vars ==
  <<state_sender, data_sender_end, half_tari_start, full_tari_start, data_out,
    index_bit, last_state_bit>>
timer_vars == <<i, half_tari_end, i2, full_tari_end, i3, tari_CS_end>>
registers == <<controller_vars, sender_vars, timer_vars>>

\* Mutant of TariTimerSize: nine bits.
NarrowTariTimer == 512

\* integer range 0 to 700 takes 10 bits and 0 to 1600 takes 11: where they wrap.
TariTimerSize == 1024
CSTimerSize == 2048

Symbols == {"s_send_s1", "s_send_s2", "s_send_s3", "s_send_s4"}
SecondHalves == {"s_send_s2_part2", "s_send_s3_part2"}

IsVoid == data_in = Void

InitRegisters ==
  /\ state_controller = "c_wait" /\ data_sender_start = 0 /\ finished_sending = 0
  /\ request_new_data = 0 /\ tari_CS_start = 0
  /\ state_sender = "s_wait" /\ data_sender_end = 0 /\ half_tari_start = 0
  /\ full_tari_start = 0 /\ data_out = 0 /\ index_bit = 0 /\ last_state_bit = "s_send_s2"
  /\ i = 0 /\ half_tari_end = 0 /\ i2 = 0 /\ full_tari_end = 0 /\ i3 = 0 /\ tari_CS_end = 0

-----------------------------------------------------------------------------
(* fm0_controller                                                          *)

ControllerReset ==
  /\ rst = 1
  /\ state_controller' = "c_wait"
  /\ data_sender_start' = 0 /\ finished_sending' = 0 /\ request_new_data' = 0
  /\ UNCHANGED tari_CS_start

ControllerHold == rst = 0 /\ enable = 0 /\ UNCHANGED controller_vars

At(state) == rst = 0 /\ enable = 1 /\ state_controller = state

\* A void package at the head of the FIFO is thrown away before a command.
ControllerWait ==
  /\ At("c_wait")
  /\ data_sender_start' = 0 /\ finished_sending' = 0
  /\ request_new_data' = IF is_fifo_empty = 0 /\ IsVoid THEN 1 ELSE 0
  /\ state_controller' = IF is_fifo_empty = 1 THEN "c_wait"
                         ELSE IF IsVoid THEN "c_wait_request" ELSE "c_start_send"
  /\ UNCHANGED tari_CS_start

StartSend ==
  /\ At("c_start_send")
  /\ data_sender_start' = 1 /\ request_new_data' = 0
  /\ state_controller' = "c_wait_send"
  /\ UNCHANGED <<finished_sending, tari_CS_start>>

WaitSend ==
  /\ At("c_wait_send")
  /\ data_sender_start' = 0 /\ request_new_data' = 0
  /\ state_controller' = IF data_sender_end = 1 THEN "c_request" ELSE "c_wait_send"
  /\ UNCHANGED <<finished_sending, tari_CS_start>>

Request ==
  /\ At("c_request")
  /\ data_sender_start' = 0 /\ request_new_data' = 1
  /\ state_controller' = "c_wait_request"
  /\ UNCHANGED <<finished_sending, tari_CS_start>>

\* The FIFO pops on this very edge: the package seen here is the one just sent.
WaitRequestSent ==
  /\ At("c_wait_request") /\ ~(IsVoid /\ data_sender_end = 1)
  /\ request_new_data' = 0 /\ state_controller' = "c_start_send"
  /\ UNCHANGED <<data_sender_start, finished_sending, tari_CS_start>>

\* Mutant of WaitRequestVoid: the timer of the end of the command never starts.
VoidWithoutTimer ==
  /\ At("c_wait_request") /\ IsVoid /\ data_sender_end = 1
  /\ request_new_data' = 0 /\ state_controller' = "c_wait_tari_CS"
  /\ UNCHANGED <<data_sender_start, finished_sending, tari_CS_start>>

WaitRequestVoid ==
  /\ At("c_wait_request") /\ IsVoid /\ data_sender_end = 1
  /\ request_new_data' = 0 /\ tari_CS_start' = 1 /\ state_controller' = "c_wait_tari_CS"
  /\ UNCHANGED <<data_sender_start, finished_sending>>

\* Mutant of WaitTariCS: a command is sent when its last bit is.
WaitNoTariCS ==
  /\ At("c_wait_tari_CS")
  /\ request_new_data' = 0 /\ tari_CS_start' = 0
  /\ state_controller' = "c_wait" /\ finished_sending' = 1
  /\ UNCHANGED data_sender_start

WaitTariCS ==
  /\ At("c_wait_tari_CS")
  /\ request_new_data' = 0
  /\ IF tari_CS_end = 1
       THEN state_controller' = "c_wait" /\ tari_CS_start' = 0 /\ finished_sending' = 1
       ELSE UNCHANGED <<state_controller, tari_CS_start, finished_sending>>
  /\ UNCHANGED data_sender_start

Controller ==
  \/ ControllerReset \/ ControllerHold
  \/ ControllerWait \/ StartSend \/ WaitSend \/ Request
  \/ WaitRequestSent \/ WaitRequestVoid \/ WaitTariCS

-----------------------------------------------------------------------------
(* data_sender: keeps running while data_sender_end is 1, enabled or not.  *)

SenderReset ==
  /\ rst = 1
  /\ state_sender' = "s_wait" /\ half_tari_start' = 0 /\ full_tari_start' = 0
  /\ data_out' = 0 /\ last_state_bit' = "s_send_s2"
  /\ UNCHANGED <<data_sender_end, index_bit>>

Running == rst = 0 /\ (enable = 1 \/ data_sender_end = 1)
SenderHold == rst = 0 /\ ~(enable = 1 \/ data_sender_end = 1) /\ UNCHANGED sender_vars

\* The symbol that sends bit after the symbol last: s1 and s3 end high.
SymbolAfter(last, bit) ==
  IF last \in {"s_send_s1", "s_send_s3"}
    THEN IF bit = 1 THEN "s_send_s4" ELSE "s_send_s3"
    ELSE IF bit = 1 THEN "s_send_s1" ELSE "s_send_s2"

Level(symbol) ==
  IF symbol \in {"s_send_s1", "s_send_s2", "s_send_s3_part2"} THEN 1 ELSE 0

SenderVoid ==
  /\ Running /\ state_sender = "s_wait" /\ IsVoid
  /\ last_state_bit' = "s_send_s2" /\ data_out' = 0 /\ data_sender_end' = 1
  /\ UNCHANGED <<state_sender, half_tari_start, full_tari_start, index_bit>>

SenderIdle ==
  /\ Running /\ state_sender = "s_wait" /\ ~IsVoid /\ data_sender_start = 0
  /\ data_sender_end' = 0
  /\ UNCHANGED <<state_sender, half_tari_start, full_tari_start, data_out, index_bit,
                 last_state_bit>>

FirstBit ==
  /\ Running /\ state_sender = "s_wait" /\ ~IsVoid /\ data_sender_start = 1
  /\ data_sender_end' = 0 /\ index_bit' = 0
  /\ state_sender' = SymbolAfter(last_state_bit, data_in.data[0])
  /\ full_tari_start' = IF data_in.data[0] = 1 THEN 1 ELSE full_tari_start
  /\ half_tari_start' = IF data_in.data[0] = 0 THEN 1 ELSE half_tari_start
  /\ UNCHANGED <<data_out, last_state_bit>>

\* What every state of a symbol does, whether its time is over or not.
DriveSymbol ==
  /\ Running /\ state_sender \in Symbols \cup SecondHalves
  /\ data_out' = Level(state_sender)
  /\ last_state_bit' = IF state_sender \in Symbols THEN state_sender ELSE last_state_bit
  /\ UNCHANGED data_sender_end

FirstHalf == state_sender \in {"s_send_s2", "s_send_s3"}
WholeSymbol == state_sender \in {"s_send_s1", "s_send_s4"}
TimeIsOver == IF WholeSymbol THEN full_tari_end = 1 ELSE half_tari_end = 1
LastBitSent == index_bit + 1 >= data_in.mask

KeepSymbol ==
  /\ DriveSymbol /\ ~TimeIsOver
  /\ UNCHANGED <<state_sender, half_tari_start, full_tari_start, index_bit>>

SecondHalf ==
  /\ DriveSymbol /\ FirstHalf /\ TimeIsOver
  /\ half_tari_start' = 1
  /\ state_sender' = IF state_sender = "s_send_s2" THEN "s_send_s2_part2" ELSE "s_send_s3_part2"
  /\ UNCHANGED <<full_tari_start, index_bit>>

\* A second half stops the half timer and s4 the full timer; s1 stops neither.
HalfAfter(start) == IF state_sender \in SecondHalves THEN 0 ELSE start
FullAfter(start) == IF state_sender = "s_send_s4" THEN 0 ELSE start

NextBit ==
  /\ DriveSymbol /\ ~FirstHalf /\ TimeIsOver /\ ~LastBitSent
  /\ index_bit' = index_bit + 1
  /\ LET bit == data_in.data[index_bit + 1]
     IN /\ state_sender' = SymbolAfter(last_state_bit', bit)
        /\ full_tari_start' = IF bit = 1 THEN 1 ELSE FullAfter(full_tari_start)
        /\ half_tari_start' = IF bit = 0 THEN 1 ELSE HalfAfter(half_tari_start)

EndOfPackage ==
  /\ DriveSymbol /\ ~FirstHalf /\ TimeIsOver /\ LastBitSent
  /\ index_bit' = index_bit + 1
  /\ state_sender' = "s_end"
  /\ full_tari_start' = FullAfter(full_tari_start)
  /\ half_tari_start' = HalfAfter(half_tari_start)

SenderEnd ==
  /\ Running /\ state_sender = "s_end"
  /\ half_tari_start' = 0 /\ full_tari_start' = 0 /\ index_bit' = 0
  /\ state_sender' = "s_wait" /\ data_sender_end' = 1
  /\ UNCHANGED <<data_out, last_state_bit>>

DataSender ==
  \/ SenderReset \/ SenderHold \/ SenderVoid \/ SenderIdle \/ FirstBit
  \/ KeepSymbol \/ SecondHalf \/ NextBit \/ EndOfPackage \/ SenderEnd

-----------------------------------------------------------------------------
(* half_tari, full_tari, wait_CS_tari: a timer counts while its start flag *)
(* is 1, raises its end flag for one clock at its limit and begins again.  *)

TimerCount(start, count, limit, size) ==
  IF rst = 1 THEN 0
  ELSE IF enable = 0 \/ start = 0 THEN count
  ELSE IF (count + 1) % size = limit THEN 0
  ELSE (count + 1) % size

TimerEnd(start, count, limit, size, end) ==
  IF rst = 1 THEN 0
  ELSE IF enable = 0 THEN end
  ELSE IF start = 1 /\ (count + 1) % size = limit THEN 1
  ELSE 0

Timers ==
  /\ i' = TimerCount(half_tari_start, i, tari \div 2, TariTimerSize)
  /\ half_tari_end' = TimerEnd(half_tari_start, i, tari \div 2, TariTimerSize, half_tari_end)
  /\ i2' = TimerCount(full_tari_start, i2, tari, TariTimerSize)
  /\ full_tari_end' = TimerEnd(full_tari_start, i2, tari, TariTimerSize, full_tari_end)
  /\ i3' = TimerCount(tari_CS_start, i3, tari + tari, CSTimerSize)
  /\ tari_CS_end' = TimerEnd(tari_CS_start, i3, tari + tari, CSTimerSize, tari_CS_end)

Tick == Controller /\ DataSender /\ Timers
=============================================================================
