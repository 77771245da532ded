------------------------------ MODULE Link_proofs ------------------------------
(***************************************************************************)
(* Theorems of Link for every even Tari and all limits that leave time for *)
(* the hand-overs, every package width and FIFO depth and any commands:    *)
(* the sender is a tag that keeps time, as TagLine_proofs knows them, so   *)
(* the receiver hears of a command what it hears of a tag's answer.        *)
(***************************************************************************)
EXTENDS Link, FiniteSetTheorems, SequenceTheorems, TLAPS

\* What the host has written to the timing registers.
CONSTANT setting

T == setting.tari
H == T \div 2
t099 == setting.tari_099
t101 == setting.tari_101
t1584 == setting.tari_1584

\* An even Tari that the encoder's timers can count, and limits about it that are wide
\* enough for its hand-overs: it makes a symbol up to two clocks shorter or seven longer.
KeepsTime ==
  /\ {T, t099, t101, t1584, setting.tari_1616} \subseteq Nat
  /\ T % 2 = 0 /\ T <= 1022
  /\ 4 <= t099 /\ t099 + 5 <= T /\ T + 5 <= t101 /\ t101 \div 2 < t099
  /\ t101 + 7 <= t1584 /\ t1584 + 1 < setting.tari_1616

-----------------------------------------------------------------------------
(* The sender as a tag.                                                    *)

P == PackagesOf(command)
\* Packages that have left the FIFO, and the one the encoder sees.
Popped == Len(P) - Len(tx_fifo)
Word == Head(tx_fifo)

Wholes == {"s_send_s1", "s_send_s4"}
Firsts == {"s_send_s2", "s_send_s3"}
Seconds == {"s_send_s2_part2", "s_send_s3_part2"}
Driving == state_sender \in Wholes \cup Firsts \cup Seconds

Level(state) == IF state \in {"s_send_s1", "s_send_s2", "s_send_s3_part2"} THEN 1 ELSE 0
\* The line does not show the state yet.
Changing == encoder_out # Level(state_sender)

\* Nothing of the command has been driven.
ToBegin ==
  /\ tx_fifo # <<>> /\ Popped = 0
  /\ \/ enc_state \in {"c_wait", "c_start_send"} \/ data_sender_start = 1
     \/ state_sender \in Wholes \cup Firsts /\ index_bit = 0 /\ Changing

Phase ==
  IF stage # "wait" \/ tx_fifo = <<>> \/ ToBegin THEN "silent"
  ELSE IF Word # Void \/ enc_state = "c_start_send" THEN "sending"
  ELSE IF enc_state = "c_wait_send" THEN "resting"
  ELSE "silent"

Answer == IF stage = "accept" \/ (stage = "wait" /\ ~ToBegin) THEN command ELSE <<>>

\* Clocks from the end of a package's last symbol to the next symbol, or to the void
\* package's low line; the line stays as it is.
HandOver == IF tx_fifo[2] = Void THEN 4 ELSE 6
Gap == IF index_bit + 1 >= Word.mask THEN HandOver ELSE 0
Remaining(end, count, limit) == IF end = 1 THEN 0 ELSE limit - count

Left ==
  IF Phase = "silent" THEN 0
  ELSE IF Driving
    THEN IF Changing THEN 1
         ELSE 2 + (IF state_sender \in Wholes THEN Remaining(full_tari_end, i2, T)
                                              ELSE Remaining(half_tari_end, i, H))
                + (IF state_sender \in Firsts THEN 0 ELSE Gap)
  ELSE IF state_sender = "s_end" THEN HandOver + 1
  ELSE IF Word = Void THEN 1
  ELSE CASE enc_state = "c_request" -> HandOver - 1
         [] enc_state = "c_wait_request" -> HandOver - 2
         [] enc_state = "c_start_send" -> 3
         [] OTHER -> IF data_sender_end = 1 THEN HandOver ELSE 2

Second ==
  IF Phase = "sending" /\ ((state_sender \in Firsts /\ ~Changing) \/ (state_sender \in Seconds /\ Changing))
    THEN H + Gap ELSE 0

\* The bits before package n + 1, and those that have begun.
Before(n) == n * data_width
Begun ==
  Before(Popped) +
    (IF Driving THEN IF Changing /\ state_sender \notin Seconds THEN index_bit ELSE index_bit + 1
     ELSE IF state_sender = "s_end" THEN index_bit
     ELSE IF data_sender_end = 1 \/ enc_state \in {"c_request", "c_wait_request"} THEN Word.mask
     ELSE 0)

From(c) == SubSeq(command, c + 1, Len(command))
Unsent == IF Phase = "sending" THEN From(Begun) ELSE <<>>

TL ==
  INSTANCE TagLine_proofs WITH
    tari_limits <- setting, Wholes <- T - 2 .. T + 7, Halves <- H .. H + 1,
    WrongWholes <- {}, WrongHalves <- {}, RestClocks <- 1, Answers <- Commands, Holds <- {},
    line <- encoder_out, left <- Left, second <- Second, bits <- Unsent, phase <- Phase,
    answer <- Answer, in_time <- TRUE, access <- 0, got <- <<>>

-----------------------------------------------------------------------------
(* Places of the sender in a command.                                      *)

\* The timers between symbols.
TimersRest ==
  /\ half_tari_start = 0 /\ i \in 0 .. 1 /\ half_tari_end = 0
  /\ full_tari_start = 0 /\ i2 \in 0 .. 3 /\ full_tari_end = 0

EndLevel(symbol) == IF symbol \in {"s_send_s1", "s_send_s3"} THEN 1 ELSE 0
Symbols == Wholes \cup Firsts

\* Between symbols the line stays where the last one left it.
LineRests == last_state_bit \in Symbols /\ encoder_out = EndLevel(last_state_bit)

\* The preamble generator is not used; data_sender waits.
Still == gen_state = "g_wait" /\ generator_out = 0 /\ start_generator = 0

IsSeq(s) == \E S : s \in Seq(S)

\* Nothing to send, or nothing to send yet.
Off ==
  /\ sc_state = "c_wait" /\ start_encoder = 0
  /\ enc_state = "c_wait" /\ encoder_ended = 0 /\ data_sender_start = 0 /\ request_new_data = 0
  /\ state_sender = "s_wait" /\ encoder_out = 0 /\ LineRests /\ TimersRest
  /\ finished_sending = IF stage \in {"wait", "accept"} THEN 1 ELSE 0
  /\ stage = "write" => IsSeq(tx_fifo) /\ IsSeq(script) /\ script # <<>> /\ tx_fifo \o script = P
  /\ stage = "start" => tx_fifo = P
  /\ stage \notin {"write", "start", "reset"} => tx_fifo = <<>>

\* The encoder is at work.
On ==
  /\ stage = "wait" /\ sc_state = "c_wait_encoder" /\ start_encoder = 1 /\ finished_sending = 0

\* n packages have been popped.
Holds(n) ==
  /\ On /\ encoder_ended = 0
  /\ n \in 0 .. Len(P) - 1 /\ tx_fifo = SubSeq(P, n + 1, Len(P))

Enc(state, start, request) ==
  enc_state = state /\ data_sender_start = start /\ request_new_data = request

\* Between two symbols.
Waits == state_sender = "s_wait" /\ LineRests /\ TimersRest

\* The command is there, and the encoder has not looked yet.
Awaiting == Holds(0) /\ Enc("c_wait", 0, 0) /\ Waits /\ encoder_out = 0

\* It begins with a package, ...
Sends(n) == Holds(n) /\ n < Len(P) - 1 /\ mux = 1
Starting(n) == Sends(n) /\ Enc("c_start_send", 0, 0) /\ Waits /\ data_sender_end = 0
Opening(n) == Sends(n) /\ Enc("c_wait_send", 1, 0) /\ Waits /\ data_sender_end = 0

\* ... is in the symbol of bit k, ...
Symbol(n, k) ==
  /\ Sends(n) /\ Enc("c_wait_send", 0, 0) /\ data_sender_end = 0
  /\ Driving /\ last_state_bit \in Symbols /\ encoder_out \in Bit
  /\ state_sender = "s_send_s2_part2" => last_state_bit = "s_send_s2"
  /\ state_sender = "s_send_s3_part2" => last_state_bit = "s_send_s3"
  /\ index_bit = k /\ k \in 0 .. Word.mask - 1
  /\ Word.data[k] = IF state_sender \in Wholes THEN 1 ELSE 0

\* The full timer may run on from a 1 that a 0 follows, late by what the half timer was ahead.
Age == (IF half_tari_end = 1 THEN H ELSE i) + (IF state_sender \in Seconds THEN H ELSE 0)
FullAt(age) ==
  /\ i2 = IF age < T THEN age ELSE age - T
  /\ full_tari_end = IF age = T THEN 1 ELSE 0
Beside ==
  \/ full_tari_start = 0 /\ i2 \in 0 .. 3 /\ full_tari_end = 0
  \/ /\ full_tari_start = 1 /\ state_sender \in {"s_send_s3", "s_send_s3_part2"}
     /\ \E late \in 0 .. 1 : FullAt(Age + late)

HalfIdle == half_tari_start = 0 /\ i \in 0 .. 1 /\ half_tari_end = 0

\* ... which the line does not show yet, ...
Turning(n, k) ==
  /\ Symbol(n, k) /\ Changing
  /\ state_sender \in Wholes =>
       HalfIdle /\ full_tari_start = 1 /\ i2 \in 0 .. 3 /\ full_tari_end = 0
  /\ state_sender \notin Wholes => half_tari_start = 1 /\ i \in 0 .. 1 /\ half_tari_end = 0 /\ Beside
  /\ state_sender \notin Seconds => encoder_out = EndLevel(last_state_bit)
  /\ state_sender \in Seconds => i = 1

\* ... or shows, ...
Showing(n, k) ==
  /\ Symbol(n, k) /\ ~Changing
  /\ state_sender \in Wholes =>
       /\ HalfIdle /\ full_tari_start = 1
       /\ (full_tari_end = 1 /\ i2 = 0) \/ (full_tari_end = 0 /\ i2 \in 1 .. T - 1)
  /\ state_sender \notin Wholes =>
       /\ half_tari_start = 1 /\ Beside
       /\ (half_tari_end = 1 /\ i = 0) \/ (half_tari_end = 0 /\ i \in 1 .. H - 1)
  /\ state_sender \notin Seconds => last_state_bit = state_sender

\* ... has sent the last, and has the package popped.
Closing(n) ==
  /\ Sends(n) /\ Enc("c_wait_send", 0, 0) /\ data_sender_end = 0
  /\ state_sender = "s_end" /\ LineRests /\ index_bit = Word.mask
  /\ HalfIdle /\ full_tari_end = 0
  /\ (full_tari_start = 0 /\ i2 \in 0 .. 3) \/ (full_tari_start = 1 /\ i2 \in 1 .. 2)
Telling(n) == Sends(n) /\ Enc("c_wait_send", 0, 0) /\ Waits /\ data_sender_end = 1
Asking(n) == Sends(n) /\ Enc("c_request", 0, 0) /\ Waits /\ data_sender_end = 0
Popping(n) == Sends(n) /\ Enc("c_wait_request", 0, 1) /\ Waits /\ data_sender_end = 0

\* With the void package the line falls, and its time begins.
AtVoid == Holds(Len(P) - 1) /\ Waits /\ mux = 1
SeesVoid == AtVoid /\ Enc("c_start_send", 0, 0) /\ data_sender_end = 0
Falling == AtVoid /\ Enc("c_wait_send", 1, 0) /\ data_sender_end = 1 /\ encoder_out = 0
AskingVoid == AtVoid /\ Enc("c_request", 0, 0) /\ data_sender_end = 1 /\ encoder_out = 0
PoppingVoid == AtVoid /\ Enc("c_wait_request", 0, 1) /\ data_sender_end = 1 /\ encoder_out = 0

\* The time passes, and the command counts as sent.
Over == On /\ tx_fifo = <<>> /\ Waits /\ encoder_out = 0
Resting == Over /\ Enc("c_wait_tari_CS", 0, 0) /\ encoder_ended = 0
Reporting == Over /\ Enc("c_wait", 0, 0) /\ encoder_ended = 1

Sending ==
  \E n \in Nat :
    \/ Starting(n) \/ Opening(n) \/ Closing(n) \/ Telling(n) \/ Asking(n) \/ Popping(n)
    \/ \E k \in Nat : Turning(n, k) \/ Showing(n, k)

SenderInv ==
  /\ Still
  /\ \/ Off \/ Awaiting \/ Sending \/ SeesVoid \/ Falling \/ AskingVoid \/ PoppingVoid
     \/ Resting \/ Reporting

-----------------------------------------------------------------------------
(* Timing.                                                                 *)

LEMMA Clocks ==
  ASSUME KeepsTime
  PROVE  /\ {T, H, t099, t101, t1584, setting.tari_1616} \subseteq Nat /\ T = 2 * H
         /\ 5 <= H /\ H <= 511
BY DEF KeepsTime, H

\* The limits that the test programs compute are such limits, from 10 us at 50 MHz on.
THEOREM TestTimingsKeepTime ==
  ASSUME NEW t \in 500 .. 1022, t % 2 = 0, setting = TimingOf(t)
  PROVE  KeepsTime
BY DEF TimingOf, KeepsTime, T, t099, t101, t1584

LEMMA SameDefinitions ==
  /\ TL!Void = Void /\ TL!Zeros = Zeros /\ TL!Bit = Bit
  /\ tx!fm0!Void = Void /\ tx!Void = Void
  /\ \A F : TL!PackagesOf(F) = PackagesOf(F) /\ TL!HeardAs(F) = HeardAs(F)
BY DEF TL!PackagesOf, PackagesOf, TL!PackageOf, PackageOf, TL!Void, Void, TL!Zeros, Zeros,
     TL!BitIndex, BitIndex, TL!Bit, Bit, TL!HeardAs, HeardAs, tx!fm0!Void, tx!fm0!Zeros, tx!fm0!BitIndex,
     tx!Void, tx!Zeros, tx!BitIndex

LEMMA TagAssumptions ==
  ASSUME KeepsTime
  PROVE  /\ TL!LimitsAssumption /\ TL!InTimeAssumption /\ TL!WrongAssumption /\ TL!TagAssumption
         /\ TL!AnswersFit /\ TL!DataWidthAssumption /\ TL!DepthAssumption
<1>1. TL!LimitsAssumption
  BY DEF KeepsTime, TL!LimitsAssumption, t099, t101, t1584
<1>2. TL!InTimeAssumption
  BY DEF KeepsTime, TL!InTimeAssumption, t099, t101, t1584, T, H
<1>3. TL!WrongAssumption
  BY DEF TL!WrongAssumption
<1>4. TL!TagAssumption
  BY CommandsAssumption, SameDefinitions DEF TL!TagAssumption
<1>5. TL!AnswersFit
  BY CommandsAssumption, SameDefinitions DEF TL!AnswersFit
<1>6. TL!DataWidthAssumption /\ TL!DepthAssumption
  BY DataWidthAssumption, DepthAssumption DEF TL!DataWidthAssumption, TL!DepthAssumption
<1> QED
  BY <1>1, <1>2, <1>3, <1>4, <1>5, <1>6

-----------------------------------------------------------------------------
(* One clock of the sender.                                                *)

LEMMA Ticks ==
  ASSUME Next
  PROVE  /\ Host /\ tx!controller!Tick /\ tx!generator!Tick
         /\ tx!fm0!Controller /\ tx!fm0!DataSender /\ tx!fm0!Timers /\ tx!Fifo
         /\ rx!decoder!Controller /\ rx!decoder!Decoder /\ rx!decoder!Counter
         /\ rx!pack_const!Tick /\ rx!PulseGenerator /\ rx!Fifo
BY DEF Next, tx!Tick, tx!fm0!Tick, rx!Tick, rx!decoder!Tick

\* The encoder sees the oldest word of the FIFO.
LEMMA SeesWord ==
  ASSUME tx_fifo # <<>>
  PROVE  tx!fifo_out = Word /\ tx!Empty(tx_fifo) = 0 /\ (tx!fm0!IsVoid <=> Word = Void)
BY SameDefinitions DEF tx!fifo_out, tx!Q, tx!Empty, tx!fm0!IsVoid, Word

\* sender_controller.
LEMMA ClockOfSenderController ==
  ASSUME Next, stage # "reset"
  PROVE  /\ sc_state = "c_wait" /\ stage # "start" =>
              sc_state' = "c_wait" /\ start_encoder' = 0 /\ start_generator' = 0 /\ mux' = mux
         /\ sc_state = "c_wait" /\ stage = "start" =>
              sc_state' = "c_wait_encoder" /\ start_encoder' = 1 /\ start_generator' = 0 /\ mux' = mux
         /\ sc_state = "c_wait_encoder" =>
              /\ mux' = 1 /\ start_generator' = start_generator
              /\ sc_state' = (IF encoder_ended = 1 THEN "c_wait" ELSE "c_wait_encoder")
              /\ start_encoder' = (IF encoder_ended = 1 THEN 0 ELSE start_encoder)
         /\ sc_state \in {"c_wait", "c_wait_encoder"} /\ encoder_ended \in Bit =>
              finished_sending' = IF stage = "accept" THEN 0
                                  ELSE IF sc_state = "c_wait_encoder" /\ encoder_ended = 1 THEN 1
                                  ELSE finished_sending
BY Ticks DEF tx!controller!Tick, tx!controller!Reset, tx!controller!Hold, tx!controller!WaitIdle,
     tx!controller!StartGenerator, tx!controller!StartEncoder, tx!controller!WaitGenerator,
     tx!controller!WaitEncoder, tx!controller!EncoderEnded, tx!controller!In, tx!controller!Clocked,
     tx!controller!Goto, tx!controller!Finished, resetting, Bit

\* signal_generator is never started.
LEMMA StillStays ==
  ASSUME Next, Still
  PROVE  gen_state' = "g_wait" /\ generator_out' = 0
BY Ticks DEF Still, tx!generator!Tick, tx!generator!Reset, tx!generator!Hold, tx!generator!Wait,
     tx!generator!Count, tx!generator!NextPhase, tx!generator!Finish, tx!generator!InPhase,
     tx!generator!Running, tx!generator!Phases, resetting

\* fm0_controller, in each of its states.
USE DEF tx!fm0!Controller, tx!fm0!ControllerReset, tx!fm0!ControllerHold, tx!fm0!ControllerWait,
        tx!fm0!StartSend, tx!fm0!WaitSend, tx!fm0!Request, tx!fm0!WaitRequestSent,
        tx!fm0!WaitRequestVoid, tx!fm0!WaitTariCS, tx!fm0!At, tx!fm0!controller_vars, resetting

LEMMA InEncoderWait ==
  ASSUME Next, stage # "reset", start_encoder = 1, Enc("c_wait", 0, 0)
  PROVE  /\ encoder_ended' = 0
         /\ tx_fifo = <<>> => Enc("c_wait", 0, 0)'
         /\ tx_fifo # <<>> /\ Word # Void => Enc("c_start_send", 0, 0)'
BY Ticks, SeesWord DEF Enc, tx!Empty

LEMMA InStartSend ==
  ASSUME Next, stage # "reset", start_encoder = 1, Enc("c_start_send", 0, 0)
  PROVE  encoder_ended' = encoder_ended /\ Enc("c_wait_send", 1, 0)'
BY Ticks DEF Enc

LEMMA InWaitSend ==
  ASSUME Next, stage # "reset", start_encoder = 1, enc_state = "c_wait_send"
  PROVE  /\ encoder_ended' = encoder_ended
         /\ data_sender_end = 1 => Enc("c_request", 0, 0)'
         /\ data_sender_end # 1 => Enc("c_wait_send", 0, 0)'
BY Ticks DEF Enc

LEMMA InRequest ==
  ASSUME Next, stage # "reset", start_encoder = 1, enc_state = "c_request"
  PROVE  encoder_ended' = encoder_ended /\ Enc("c_wait_request", 0, 1)'
BY Ticks DEF Enc

LEMMA InWaitRequest ==
  ASSUME Next, stage # "reset", start_encoder = 1, Enc("c_wait_request", 0, 1), tx_fifo # <<>>
  PROVE  /\ encoder_ended' = encoder_ended
         /\ Word = Void /\ data_sender_end = 1 => Enc("c_wait_tari_CS", 0, 0)'
         /\ ~(Word = Void /\ data_sender_end = 1) => Enc("c_start_send", 0, 0)'
BY Ticks, SeesWord DEF Enc

LEMMA InWaitTariCS ==
  ASSUME Next, stage # "reset", start_encoder = 1, Enc("c_wait_tari_CS", 0, 0)
  PROVE  \/ encoder_ended' = encoder_ended /\ Enc("c_wait_tari_CS", 0, 0)'
         \/ encoder_ended' = 1 /\ Enc("c_wait", 0, 0)'
BY Ticks DEF Enc

LEMMA EncoderRests ==
  ASSUME Next, start_encoder = 0, enc_state = "c_wait", encoder_ended = 0,
         data_sender_start = 0, request_new_data = 0
  PROVE  /\ enc_state' = "c_wait" /\ encoder_ended' = 0
         /\ data_sender_start' = 0 /\ request_new_data' = 0
BY Ticks

USE DEF tx!fm0!DataSender, tx!fm0!SenderReset, tx!fm0!SenderHold, tx!fm0!SenderVoid,
        tx!fm0!SenderIdle, tx!fm0!FirstBit, tx!fm0!KeepSymbol, tx!fm0!SecondHalf, tx!fm0!NextBit,
        tx!fm0!EndOfPackage, tx!fm0!SenderEnd, tx!fm0!DriveSymbol, tx!fm0!Running,
        tx!fm0!sender_vars, tx!fm0!Symbols, tx!fm0!SecondHalves

\* data_sender, in each of its states.
LEMMA DataSenderRests ==
  ASSUME Next, state_sender = "s_wait", LineRests, data_sender_start = 0
  PROVE  /\ state_sender' = "s_wait" /\ LineRests'
         /\ encoder_out' = 0 \/ encoder_out' = encoder_out
         /\ UNCHANGED <<half_tari_start, full_tari_start>> \/ (half_tari_start' = 0 /\ full_tari_start' = 0)
BY Ticks DEF LineRests, EndLevel, Symbols, Wholes, Firsts

LEMMA InSenderWait ==
  ASSUME Next, stage # "reset", start_encoder = 1, state_sender = "s_wait", tx_fifo # <<>>, Word # Void
  PROVE  /\ UNCHANGED <<encoder_out, last_state_bit>> /\ data_sender_end' = 0
         /\ data_sender_start = 0 => UNCHANGED <<state_sender, half_tari_start, full_tari_start>>
         /\ data_sender_start = 1 =>
              /\ index_bit' = 0
              /\ state_sender' = tx!fm0!SymbolAfter(last_state_bit, Word.data[0])
              /\ full_tari_start' = IF Word.data[0] = 1 THEN 1 ELSE full_tari_start
              /\ half_tari_start' = IF Word.data[0] = 0 THEN 1 ELSE half_tari_start
BY Ticks, SeesWord

LEMMA InSenderWaitVoid ==
  ASSUME Next, stage # "reset", start_encoder = 1, state_sender = "s_wait", tx_fifo # <<>>, Word = Void
  PROVE  /\ encoder_out' = 0 /\ last_state_bit' = "s_send_s2" /\ data_sender_end' = 1
         /\ UNCHANGED <<state_sender, half_tari_start, full_tari_start>>
BY Ticks, SeesWord

\* The time of the symbol, or of its half, is over.
TimeIsOver == IF state_sender \in Wholes THEN full_tari_end = 1 ELSE half_tari_end = 1

LEMMA InSymbol ==
  ASSUME Next, stage # "reset", start_encoder = 1, Driving, tx_fifo # <<>>
  PROVE  /\ encoder_out' = Level(state_sender) /\ data_sender_end' = data_sender_end
         /\ last_state_bit' = IF state_sender \in Seconds THEN last_state_bit ELSE state_sender
         /\ ~TimeIsOver => UNCHANGED <<state_sender, half_tari_start, full_tari_start, index_bit>>
         /\ TimeIsOver /\ state_sender \in Firsts =>
              /\ half_tari_start' = 1 /\ UNCHANGED <<full_tari_start, index_bit>>
              /\ state_sender' = IF state_sender = "s_send_s2" THEN "s_send_s2_part2" ELSE "s_send_s3_part2"
         /\ TimeIsOver /\ state_sender \notin Firsts =>
              LET ended == index_bit + 1 >= Word.mask
                  bit == Word.data[index_bit + 1]
                  half == IF state_sender \in Seconds THEN 0 ELSE half_tari_start
                  full == IF state_sender = "s_send_s4" THEN 0 ELSE full_tari_start
              IN /\ index_bit' = index_bit + 1
                 /\ ended => state_sender' = "s_end" /\ half_tari_start' = half /\ full_tari_start' = full
                 /\ ~ended => /\ state_sender' = tx!fm0!SymbolAfter(last_state_bit', bit)
                              /\ full_tari_start' = IF bit = 1 THEN 1 ELSE full
                              /\ half_tari_start' = IF bit = 0 THEN 1 ELSE half
BY Ticks, SeesWord
   DEF Driving, Wholes, Firsts, Seconds, TimeIsOver, tx!fm0!TimeIsOver, tx!fm0!WholeSymbol, tx!fm0!FirstHalf,
       tx!fm0!LastBitSent, tx!fm0!HalfAfter, tx!fm0!FullAfter, Level, tx!fm0!Level

LEMMA InSenderEnd ==
  ASSUME Next, stage # "reset", start_encoder = 1, state_sender = "s_end"
  PROVE  /\ half_tari_start' = 0 /\ full_tari_start' = 0
         /\ state_sender' = "s_wait" /\ data_sender_end' = 1
         /\ UNCHANGED <<encoder_out, last_state_bit>>
BY Ticks

\* The timers of half a Tari and of a whole one.
LEMMA TimersRun ==
  ASSUME Next, stage # "reset", start_encoder = 1, KeepsTime, timing = setting, i \in 0 .. 1022, i2 \in 0 .. 1022
  PROVE  /\ half_tari_start = 0 => i' = i /\ half_tari_end' = 0
         /\ half_tari_start = 1 =>
              /\ i' = IF i + 1 = H THEN 0 ELSE i + 1
              /\ half_tari_end' = IF i + 1 = H THEN 1 ELSE 0
         /\ full_tari_start = 0 => i2' = i2 /\ full_tari_end' = 0
         /\ full_tari_start = 1 =>
              /\ i2' = IF i2 + 1 = T THEN 0 ELSE i2 + 1
              /\ full_tari_end' = IF i2 + 1 = T THEN 1 ELSE 0
BY Ticks, Clocks DEF tx!fm0!Timers, tx!fm0!TimerCount, tx!fm0!TimerEnd, tx!fm0!TariTimerSize, H, T

LEMMA TimersStop ==
  ASSUME Next, start_encoder = 0, TimersRest, half_tari_start' = 0, full_tari_start' = 0
  PROVE  TimersRest'
BY Ticks DEF tx!fm0!Timers, tx!fm0!TimerCount, tx!fm0!TimerEnd, TimersRest

LEMMA FifoPops ==
  ASSUME Next, stage \notin {"write", "reset"}
  PROVE  tx_fifo' = IF request_new_data = 1 /\ tx_fifo # <<>> THEN Tail(tx_fifo) ELSE tx_fifo
BY Ticks DEF tx!Fifo, tx!Clocked, tx!Pop

HIDE DEF tx!fm0!Controller, tx!fm0!ControllerReset, tx!fm0!ControllerHold, tx!fm0!ControllerWait,
         tx!fm0!StartSend, tx!fm0!WaitSend, tx!fm0!Request, tx!fm0!WaitRequestSent,
         tx!fm0!WaitRequestVoid, tx!fm0!WaitTariCS, tx!fm0!At, tx!fm0!controller_vars, resetting
HIDE DEF tx!fm0!DataSender, tx!fm0!SenderReset, tx!fm0!SenderHold, tx!fm0!SenderVoid,
         tx!fm0!SenderIdle, tx!fm0!FirstBit, tx!fm0!KeepSymbol, tx!fm0!SecondHalf, tx!fm0!NextBit,
         tx!fm0!EndOfPackage, tx!fm0!SenderEnd, tx!fm0!DriveSymbol, tx!fm0!Running,
         tx!fm0!sender_vars, tx!fm0!Symbols, tx!fm0!SecondHalves

-----------------------------------------------------------------------------
(* The packages of the command.                                            *)

LEMMA Products ==
  /\ data_width \in Nat /\ data_width > 0 /\ Before(0) = 0
  /\ \A n \in Nat : Before(n) \in Nat /\ Before(n + 1) = Before(n) + data_width
  /\ \A n : TL!At(n) = Before(n)
BY DataWidthAssumption DEF Before, TL!At

LEMMA InOrder ==
  ASSUME NEW a \in Nat, NEW b \in Nat, a <= b
  PROVE  Before(a) <= Before(b)
<1> DEFINE d == b - a
<1>1. d \in Nat /\ b = a + d /\ data_width \in Nat
  BY DataWidthAssumption
<1> HIDE DEF d
<1>2. d * data_width \in Nat /\ (a + d) * data_width = a * data_width + d * data_width
  BY <1>1
<1>3. a * data_width \in Nat
  BY <1>1
<1> QED
  BY <1>1, <1>2, <1>3 DEF Before

LEMMA CutPackages ==
  ASSUME KeepsTime, command \in Commands
  PROVE  /\ command \in Seq(Bit) /\ Len(command) \in Nat /\ Len(command) > 0
         /\ IsSeq(P) /\ Len(P) \in Nat /\ Len(P) >= 2 /\ Len(P) <= depth /\ P[Len(P)] = Void
         /\ Before(Len(P) - 1) >= Len(command)
         /\ \A n \in 0 .. Len(P) - 2 :
              /\ P[n + 1] # Void /\ P[n + 1].mask \in 1 .. data_width
              /\ \A k \in 0 .. P[n + 1].mask - 1 : P[n + 1].data[k] = command[Before(n) + k + 1]
              /\ Before(n) + P[n + 1].mask <= Len(command)
              /\ IF n = Len(P) - 2 THEN Before(n) + P[n + 1].mask = Len(command)
                                   ELSE P[n + 1].mask = data_width
<1>1. /\ command \in Seq(Bit) /\ command # <<>> /\ Len(command) \in Nat /\ Len(command) > 0
      /\ Len(PackagesOf(Append(command, 1))) <= depth
  BY CommandsAssumption
<1> DEFINE k == Len(command)
           L == Len(P)
           heard == Append(command, 1)
           M == Len(PackagesOf(heard))
<1>2. /\ L \in Nat /\ L >= 1 /\ IsSeq(P) /\ TL!At(L - 1) >= k /\ (L = 1 \/ TL!At(L - 2) < k)
      /\ \A j \in 1 .. L : P[j] = TL!PackageAt(command, j - 1, k)
  BY <1>1, TagAssumptions, SameDefinitions, TL!PackagesFacts DEF P, IsSeq, TL!IsSeq
<1>3. M \in Nat /\ M >= 1 /\ TL!At(M - 1) >= k + 1
  <2>1. heard \in Seq(TL!Bit) /\ Len(heard) = k + 1
    BY <1>1, SameDefinitions DEF Bit
  <2> HIDE DEF heard
  <2> QED
    BY <2>1, TagAssumptions, SameDefinitions, TL!PackagesFacts
<1> HIDE DEF L, M, k
<1>4. k \in Nat /\ k > 0 /\ M <= depth /\ depth \in Nat
  BY <1>1, DepthAssumption DEF k, M
<1>5. L >= 2
  BY <1>2, <1>4, Products
<1>6. /\ L - 1 \in Nat /\ L - 2 \in Nat /\ M - 1 \in Nat
      /\ TL!At(L - 2) = Before(L - 2) /\ Before(L - 2) \in Nat /\ Before(L - 2) < k
      /\ TL!At(L - 1) = Before(L - 1) /\ Before(L - 1) \in Nat /\ Before(L - 1) >= k
  <2>1. L - 1 \in Nat /\ L - 2 \in Nat /\ M - 1 \in Nat
    BY <1>2, <1>3, <1>5
  <2> QED
    BY <1>2, <1>5, <2>1, Products
<1>7. L <= M
  <2>1. TL!At(L - 2) < TL!At(M - 1)
    BY <1>2, <1>3, <1>4, <1>5, <1>6, Products
  <2>2. L - 2 < M - 1
    BY <1>6, <2>1, TagAssumptions, TL!AtOrder
  <2> QED
    BY <1>6, <2>2, <1>2, <1>3
<1>8. P[L] = Void
  <2>1. P[L] = TL!PackageAt(command, L - 1, k) /\ TL!At(L - 1) \in Nat
    BY <1>2, <1>5, <1>6, Products
  <2>2. TL!Over(L - 1, k) = 0
    BY <1>2, <1>4, <2>1 DEF TL!Over
  <2>3. P[L] = [data |-> TL!Vector(command, L - 1, 0), mask |-> 0]
    BY <2>1, <2>2, Products DEF TL!PackageAt
  <2>4. TL!Vector(command, L - 1, 0) = Zeros
    BY DEF TL!Vector, Zeros, TL!BitIndex, BitIndex
  <2> QED
    BY <2>3, <2>4 DEF Void
<1>9. ASSUME NEW n \in 0 .. L - 2
      PROVE  /\ P[n + 1] # Void /\ P[n + 1].mask \in 1 .. data_width
             /\ \A x \in 0 .. P[n + 1].mask - 1 : P[n + 1].data[x] = command[Before(n) + x + 1]
             /\ Before(n) + P[n + 1].mask <= k
             /\ IF n = L - 2 THEN Before(n) + P[n + 1].mask = k ELSE P[n + 1].mask = data_width
  <2>1. n \in Nat /\ n <= L - 2 /\ Before(n) \in Nat /\ TL!At(n) = Before(n) /\ n + 1 \in Nat
        /\ Before(n + 1) = Before(n) + data_width /\ Before(n + 1) \in Nat /\ data_width \in Nat
    <3>1. n \in Nat /\ n <= L - 2 /\ n + 1 \in Nat
      BY <1>2, <1>6
    <3> QED
      BY <3>1, Products
  <2>2. Before(n) < k
    <3>1. CASE n = L - 2
      BY <1>2, <1>5, <2>1, <3>1
    <3>2. CASE n < L - 2
      <4>1. n <= L - 2
        BY <1>2, <2>1, <3>2
      <4>2. Before(n) <= Before(L - 2)
        BY <1>6, <2>1, <4>1, InOrder
      <4> QED
        BY <1>4, <1>6, <2>1, <4>2
    <3> QED
      BY <1>2, <2>1, <3>1, <3>2
  <2> DEFINE s == IF k - Before(n) < data_width THEN k - Before(n) ELSE data_width
  <2>3. P[n + 1] = TL!PackageAt(command, n, k)
    BY <1>2, <1>6, <2>1
  <2>4. TL!Over(n, k) = k - Before(n)
    BY <1>4, <2>1, <2>2 DEF TL!Over
  <2>5. P[n + 1] = [data |-> TL!Vector(command, n, s), mask |-> s]
    BY <2>3, <2>4 DEF TL!PackageAt
  <2>6. s \in 1 .. data_width /\ Before(n) + s <= k
    BY <1>4, <2>1, <2>2, Products
  <2>7. IF n = L - 2 THEN Before(n) + s = k ELSE s = data_width
    <3>1. CASE n = L - 2
      <4>1. Before(n + 1) >= k
        BY <1>2, <1>6, <2>1, <3>1
      <4> QED
        BY <1>4, <2>1, <2>2, <3>1, <4>1
    <3>2. CASE n # L - 2
      <4>1. n + 1 <= L - 2
        BY <1>2, <2>1, <3>2
      <4>2. Before(n + 1) <= Before(L - 2)
        BY <1>6, <2>1, <4>1, InOrder
      <4>3. Before(n + 1) < k
        BY <1>4, <1>6, <2>1, <4>2
      <4> QED
        BY <1>4, <2>1, <3>2, <4>3
    <3> QED
      BY <3>1, <3>2
  <2> HIDE DEF s
  <2>8. ASSUME NEW x \in 0 .. s - 1
        PROVE  TL!Vector(command, n, s)[x] = command[Before(n) + x + 1]
    <3>1. x \in TL!BitIndex /\ x < s
      BY <2>6, Products DEF TL!BitIndex
    <3> QED
      BY <2>1, <3>1 DEF TL!Vector
  <2>9. P[n + 1].mask = s /\ P[n + 1].data = TL!Vector(command, n, s) /\ Void.mask = 0
    BY <2>5 DEF Void
  <2> QED
    BY <2>6, <2>7, <2>8, <2>9
<1>10. \A n \in 0 .. L - 2 :
         /\ P[n + 1] # Void /\ P[n + 1].mask \in 1 .. data_width
         /\ \A x \in 0 .. P[n + 1].mask - 1 : P[n + 1].data[x] = command[Before(n) + x + 1]
         /\ Before(n) + P[n + 1].mask <= k
         /\ IF n = L - 2 THEN Before(n) + P[n + 1].mask = k ELSE P[n + 1].mask = data_width
  BY <1>9
<1>11. L <= depth
  BY <1>2, <1>3, <1>4, <1>7
<1> QED
  BY <1>1, <1>2, <1>5, <1>6, <1>8, <1>10, <1>11 DEF k, L

-----------------------------------------------------------------------------
(* The encoder at work.                                                    *)

\* No command is cut short by a reset.
NoResetInCommand == ResetStages \subseteq {"choose", "write"}

LEMMA OnStays ==
  ASSUME NoResetInCommand, Next, Still, On, encoder_ended \in Bit
  PROVE  /\ stage' = "wait" /\ command' = command /\ P' = P /\ Still' /\ mux' = 1
         /\ encoder_ended = 0 => On'
         /\ encoder_ended = 1 => sc_state' = "c_wait" /\ start_encoder' = 0 /\ finished_sending' = 1
<1>1. stage' = "wait" /\ command' = command
  BY Ticks DEF NoResetInCommand, On, Host, ChooseCommand, WritePackage, StartCtrl, BothEnded,
     KeepWaiting, Accept, BeginReset, EndReset, Quiet
<1> QED
  BY <1>1, ClockOfSenderController, StillStays DEF On, Still, P, Bit

LEMMA SuffixFacts ==
  ASSUME NEW s, NEW t, NEW n, IsSeq(s), n \in 0 .. Len(s) - 1, t = SubSeq(s, n + 1, Len(s))
  PROVE  /\ Len(s) \in Nat /\ IsSeq(t) /\ t # <<>> /\ Len(t) = Len(s) - n /\ Head(t) = s[n + 1]
         /\ n < Len(s) - 1 => t[2] = s[n + 2] /\ Tail(t) = SubSeq(s, n + 2, Len(s))
         /\ n = Len(s) - 1 => Tail(t) = <<>>
<1>1. PICK S : s \in Seq(S)
  BY DEF IsSeq
<1> DEFINE u == SubSeq(s, n + 2, Len(s))
<1>2. n \in Nat /\ Len(s) \in Nat /\ n + 1 <= Len(s) /\ \A x \in 1 .. Len(s) : s[x] \in S
  BY <1>1
<1>3. /\ t \in Seq(S) /\ Len(t) = Len(s) - n
      /\ \A x \in 1 .. Len(s) - n : t[x] = s[n + x]
  <2>1. \A x \in n + 1 .. Len(s) : s[x] \in S
    BY <1>2
  <2> DEFINE v == SubSeq(s, n + 1, Len(s))
  <2>2. /\ v \in Seq(S) /\ Len(v) = (IF n + 1 <= Len(s) THEN Len(s) - (n + 1) + 1 ELSE 0)
        /\ \A x \in 1 .. Len(s) - (n + 1) + 1 : v[x] = s[n + 1 + x - 1]
    BY <1>2, <2>1, SubSeqProperties
  <2>3. v = t
    OBVIOUS
  <2> HIDE DEF v
  <2> QED
    BY <1>2, <2>2, <2>3
<1>4. /\ u \in Seq(S) /\ Len(u) = Len(s) - n - 1
      /\ \A x \in 1 .. Len(s) - n - 1 : u[x] = s[n + 1 + x]
  <2>1. \A x \in n + 2 .. Len(s) : s[x] \in S
    BY <1>2
  <2> DEFINE v == SubSeq(s, n + 2, Len(s))
  <2>2. /\ v \in Seq(S) /\ Len(v) = (IF n + 2 <= Len(s) THEN Len(s) - (n + 2) + 1 ELSE 0)
        /\ \A x \in 1 .. Len(s) - (n + 2) + 1 : v[x] = s[n + 2 + x - 1]
    BY <1>2, <2>1, SubSeqProperties
  <2>3. u = v
    OBVIOUS
  <2> HIDE DEF u, v
  <2>4. Len(u) = Len(s) - n - 1
    BY <1>2, <2>2, <2>3
  <2>5. ASSUME NEW x \in 1 .. Len(s) - n - 1 PROVE u[x] = s[n + 1 + x]
    <3>1. x \in 1 .. Len(s) - (n + 2) + 1 /\ n + 2 + x - 1 = n + 1 + x
      BY <1>2
    <3> QED
      BY <2>2, <2>3, <3>1
  <2> QED
    BY <2>2, <2>3, <2>4, <2>5
<1> HIDE DEF u
<1>5. t # <<>> /\ Head(t) = s[n + 1] /\ (n < Len(s) - 1 => t[2] = s[n + 2])
  <2>1. t # <<>> /\ Head(t) = t[1] /\ 1 \in 1 .. Len(s) - n
    BY <1>2, <1>3
  <2>2. n < Len(s) - 1 => 2 \in 1 .. Len(s) - n
    BY <1>2
  <2> QED
    BY <1>3, <2>1, <2>2
<1>6. Tail(t) \in Seq(S) /\ Len(Tail(t)) = Len(t) - 1 /\ \A x \in 1 .. Len(t) - 1 : Tail(t)[x] = t[x + 1]
  BY <1>3, <1>5
<1>7. Tail(t) = u
  <2>1. Len(Tail(t)) = Len(u) /\ \A x \in 1 .. Len(u) : Tail(t)[x] = u[x]
    BY <1>2, <1>3, <1>4, <1>6
  <2> QED
    BY <1>4, <1>6, <2>1
<1>8. n = Len(s) - 1 => Tail(t) = <<>>
  BY <1>2, <1>3, <1>6
<1>9. IsSeq(t)
  BY <1>3 DEF IsSeq
<1> QED
  BY <1>2, <1>3, <1>5, <1>7, <1>8, <1>9 DEF u

LEMMA HoldsFacts ==
  KeepsTime /\ command \in Commands =>
    \A n : Holds(n) =>
      /\ n \in Nat /\ tx_fifo # <<>> /\ Popped = n /\ Word = P[n + 1]
      /\ n < Len(P) - 1 =>
           /\ Word # Void /\ (tx_fifo[2] = Void <=> n + 2 = Len(P))
           /\ Tail(tx_fifo) = SubSeq(P, n + 2, Len(P))
      /\ n = Len(P) - 1 => Word = Void /\ Tail(tx_fifo) = <<>>
<1> SUFFICES ASSUME KeepsTime, command \in Commands, NEW n, Holds(n)
             PROVE  /\ n \in Nat /\ tx_fifo # <<>> /\ Popped = n /\ Word = P[n + 1]
                    /\ n < Len(P) - 1 =>
                         /\ Word # Void /\ (tx_fifo[2] = Void <=> n + 2 = Len(P))
                         /\ Tail(tx_fifo) = SubSeq(P, n + 2, Len(P))
                    /\ n = Len(P) - 1 => Word = Void /\ Tail(tx_fifo) = <<>>
  OBVIOUS
<1>1. IsSeq(P) /\ Len(P) \in Nat /\ n \in 0 .. Len(P) - 1 /\ tx_fifo = SubSeq(P, n + 1, Len(P))
  BY CutPackages DEF Holds
<1> DEFINE rest == SubSeq(P, n + 2, Len(P))
<1>2. /\ tx_fifo # <<>> /\ Len(tx_fifo) = Len(P) - n /\ Head(tx_fifo) = P[n + 1]
      /\ n < Len(P) - 1 => tx_fifo[2] = P[n + 2] /\ Tail(tx_fifo) = rest
      /\ n = Len(P) - 1 => Tail(tx_fifo) = <<>>
  <2>1. tx_fifo # <<>>
    BY <1>1, SuffixFacts
  <2>2. Len(tx_fifo) = Len(P) - n
    BY <1>1, SuffixFacts
  <2>3. Head(tx_fifo) = P[n + 1]
    BY <1>1, SuffixFacts
  <2>4. n < Len(P) - 1 => tx_fifo[2] = P[n + 2]
    BY <1>1, SuffixFacts
  <2>5. n < Len(P) - 1 => Tail(tx_fifo) = rest
    BY <1>1, SuffixFacts
  <2>6. n = Len(P) - 1 => Tail(tx_fifo) = <<>>
    BY <1>1, SuffixFacts
  <2> QED
    BY <2>1, <2>2, <2>3, <2>4, <2>5, <2>6
<1> HIDE DEF rest
<1>3. /\ n \in Nat /\ Len(P) \in Nat /\ n <= Len(P) - 1
      /\ Popped = n /\ Word = P[n + 1] /\ tx_fifo # <<>>
  <2>1. n \in Nat /\ Len(P) \in Nat /\ n <= Len(P) - 1
    BY <1>1
  <2>2. Len(tx_fifo) = Len(P) - n /\ Head(tx_fifo) = P[n + 1] /\ tx_fifo # <<>>
    BY <1>2
  <2> QED
    BY <2>1, <2>2 DEF Popped, Word
<1>4. n < Len(P) - 1 => P[n + 1] # Void /\ (P[n + 2] = Void <=> n + 2 = Len(P))
  <2> SUFFICES ASSUME n < Len(P) - 1 PROVE P[n + 1] # Void /\ (P[n + 2] = Void <=> n + 2 = Len(P))
    OBVIOUS
  <2>1. n \in 0 .. Len(P) - 2 /\ P[n + 1] # Void
    BY <1>3, CutPackages
  <2>2. n + 2 # Len(P) => n + 1 \in 0 .. Len(P) - 2 /\ (n + 1) + 1 = n + 2
    BY <1>3, <2>1
  <2>3. n + 2 # Len(P) => P[n + 2] # Void
    BY <2>2, CutPackages
  <2> QED
    BY <2>1, <2>3, CutPackages
<1>5. n = Len(P) - 1 => P[n + 1] = Void
  BY <1>3, CutPackages
<1> QED
  BY <1>2, <1>3, <1>4, <1>5 DEF rest

-----------------------------------------------------------------------------
(* What the sender does as a tag, place by place.                          *)

Drives(p, l, s, b, a) == Phase = p /\ Left = l /\ Second = s /\ Unsent = b /\ Answer = a

HandOverOf(n) == IF n + 2 = Len(P) THEN 4 ELSE 6
GapOf(n, k) == IF k + 1 >= P[n + 1].mask THEN HandOverOf(n) ELSE 0
EndOf(n) == Before(n) + P[n + 1].mask

\* The first symbol of a command is there, but the line does not show it.
First(n, k) == n = 0 /\ k = 0 /\ state_sender \notin Seconds

\* The tag's state, in each place.
Values ==
  /\ Awaiting => Drives("silent", 0, 0, <<>>, <<>>)
  /\ \A n :
       /\ Starting(n) => IF n = 0 THEN Drives("silent", 0, 0, <<>>, <<>>)
                         ELSE Drives("sending", 3, 0, From(Before(n)), command)
       /\ Opening(n) => IF n = 0 THEN Drives("silent", 0, 0, <<>>, <<>>)
                        ELSE Drives("sending", 2, 0, From(Before(n)), command)
       /\ Closing(n) => Drives("sending", HandOverOf(n) + 1, 0, From(EndOf(n)), command)
       /\ Telling(n) => Drives("sending", HandOverOf(n), 0, From(EndOf(n)), command)
       /\ Asking(n) => Drives("sending", HandOverOf(n) - 1, 0, From(EndOf(n)), command)
       /\ Popping(n) => Drives("sending", HandOverOf(n) - 2, 0, From(EndOf(n)), command)
  /\ \A n, k :
       /\ Turning(n, k) =>
            IF First(n, k) THEN Drives("silent", 0, 0, <<>>, <<>>)
            ELSE Drives("sending", 1, IF state_sender \in Seconds THEN H + GapOf(n, k) ELSE 0,
                        From(Before(n) + IF state_sender \in Seconds THEN k + 1 ELSE k), command)
       /\ Showing(n, k) =>
            Drives("sending",
                   2 + (IF state_sender \in Wholes THEN Remaining(full_tari_end, i2, T)
                                                   ELSE Remaining(half_tari_end, i, H))
                     + (IF state_sender \in Firsts THEN 0 ELSE GapOf(n, k)),
                   IF state_sender \in Firsts THEN H + GapOf(n, k) ELSE 0,
                   From(Before(n) + (k + 1)), command)
  /\ SeesVoid => Drives("sending", 1, 0, From(Before(Len(P) - 1)), command)
  /\ Falling => Drives("resting", 1, 0, <<>>, command)
  /\ AskingVoid \/ PoppingVoid => Drives("silent", 0, 0, <<>>, command)
  /\ Resting \/ Reporting => Drives("silent", 0, 0, <<>>, command)
  /\ Off => Drives("silent", 0, 0, <<>>, IF stage \in {"wait", "accept"} THEN command ELSE <<>>)

LEMMA SendsFacts ==
  KeepsTime /\ command \in Commands =>
    \A n : Sends(n) =>
      /\ n \in Nat /\ tx_fifo # <<>> /\ Popped = n /\ Word = P[n + 1] /\ Word # Void
      /\ stage = "wait" /\ start_encoder = 1
      /\ HandOver = HandOverOf(n) /\ \A k : index_bit = k => Gap = GapOf(n, k)
<1> SUFFICES ASSUME KeepsTime, command \in Commands, NEW n, Sends(n)
             PROVE  /\ n \in Nat /\ tx_fifo # <<>> /\ Popped = n /\ Word = P[n + 1] /\ Word # Void
                    /\ stage = "wait" /\ start_encoder = 1
                    /\ HandOver = HandOverOf(n) /\ \A k : index_bit = k => Gap = GapOf(n, k)
  OBVIOUS
<1>1. Holds(n) /\ n < Len(P) - 1
  BY DEF Sends
<1>2. /\ n \in Nat /\ tx_fifo # <<>> /\ Popped = n /\ Word = P[n + 1]
      /\ Word # Void /\ (tx_fifo[2] = Void <=> n + 2 = Len(P))
  BY <1>1, HoldsFacts
<1>3. HandOver = HandOverOf(n)
  BY <1>2 DEF HandOver, HandOverOf
<1>4. \A k : index_bit = k => Gap = GapOf(n, k)
  BY <1>2, <1>3 DEF Gap, GapOf
<1>5. stage = "wait" /\ start_encoder = 1
  BY <1>1 DEF Holds, On
<1> QED
  BY <1>2, <1>3, <1>4, <1>5

LEMMA ValuesHold == KeepsTime /\ (stage = "wait" => command \in Commands) => Values
<1> SUFFICES ASSUME KeepsTime, stage = "wait" => command \in Commands PROVE Values
  OBVIOUS
<1> USE DEF Drives, Phase, Left, Second, Unsent, Answer, Begun, ToBegin, Enc, Waits,
            Driving, Wholes, Firsts, Seconds
<1>1. CASE stage # "wait"
  BY <1>1 DEF Values, Awaiting, Starting, Opening, Closing, Telling, Asking, Popping, Turning, Showing, Symbol,
       SeesVoid, Falling, AskingVoid, PoppingVoid, AtVoid, Resting, Reporting, Over, Sends, Holds, On, Off
<1>2. CASE stage = "wait"
  <2> USE <1>2
  <2>1. command \in Commands
    OBVIOUS
  <2>2. Awaiting => Drives("silent", 0, 0, <<>>, <<>>)
    BY <2>1, HoldsFacts DEF Awaiting
  <2>3. ASSUME NEW n
        PROVE  /\ Starting(n) => IF n = 0 THEN Drives("silent", 0, 0, <<>>, <<>>)
                                 ELSE Drives("sending", 3, 0, From(Before(n)), command)
               /\ Opening(n) => IF n = 0 THEN Drives("silent", 0, 0, <<>>, <<>>)
                                ELSE Drives("sending", 2, 0, From(Before(n)), command)
               /\ Closing(n) => Drives("sending", HandOverOf(n) + 1, 0, From(EndOf(n)), command)
               /\ Telling(n) => Drives("sending", HandOverOf(n), 0, From(EndOf(n)), command)
               /\ Asking(n) => Drives("sending", HandOverOf(n) - 1, 0, From(EndOf(n)), command)
               /\ Popping(n) => Drives("sending", HandOverOf(n) - 2, 0, From(EndOf(n)), command)
    <3>1. Starting(n) => IF n = 0 THEN Drives("silent", 0, 0, <<>>, <<>>)
                         ELSE Drives("sending", 3, 0, From(Before(n)), command)
      BY <2>1, SendsFacts, Products DEF Starting
    <3>2. Opening(n) => IF n = 0 THEN Drives("silent", 0, 0, <<>>, <<>>)
                        ELSE Drives("sending", 2, 0, From(Before(n)), command)
      BY <2>1, SendsFacts, Products DEF Opening
    <3>3. Closing(n) => Drives("sending", HandOverOf(n) + 1, 0, From(EndOf(n)), command)
      BY <2>1, SendsFacts DEF Closing, EndOf
    <3>4. Telling(n) => Drives("sending", HandOverOf(n), 0, From(EndOf(n)), command)
      BY <2>1, SendsFacts DEF Telling, EndOf
    <3>5. Asking(n) => Drives("sending", HandOverOf(n) - 1, 0, From(EndOf(n)), command)
      BY <2>1, SendsFacts DEF Asking, EndOf
    <3>6. Popping(n) => Drives("sending", HandOverOf(n) - 2, 0, From(EndOf(n)), command)
      BY <2>1, SendsFacts DEF Popping, EndOf
    <3> HIDE DEF Drives
    <3> QED
      BY <3>1, <3>2, <3>3, <3>4, <3>5, <3>6
  <2>4. ASSUME NEW n, NEW k, Turning(n, k)
        PROVE  IF First(n, k) THEN Drives("silent", 0, 0, <<>>, <<>>)
               ELSE Drives("sending", 1, IF state_sender \in Seconds THEN H + GapOf(n, k) ELSE 0,
                           From(Before(n) + IF state_sender \in Seconds THEN k + 1 ELSE k), command)
    <3>1. Sends(n) /\ Enc("c_wait_send", 0, 0) /\ Driving /\ Changing /\ index_bit = k /\ data_sender_end = 0
      BY <2>4 DEF Turning, Symbol
    <3>2. n \in Nat /\ tx_fifo # <<>> /\ Popped = n /\ Word # Void /\ Gap = GapOf(n, k)
      BY <2>1, <3>1, SendsFacts
    <3> QED
      BY <3>1, <3>2 DEF First
  <2>5. ASSUME NEW n, NEW k, Showing(n, k)
        PROVE  Drives("sending",
                      2 + (IF state_sender \in Wholes THEN Remaining(full_tari_end, i2, T)
                                                      ELSE Remaining(half_tari_end, i, H))
                        + (IF state_sender \in Firsts THEN 0 ELSE GapOf(n, k)),
                      IF state_sender \in Firsts THEN H + GapOf(n, k) ELSE 0,
                      From(Before(n) + (k + 1)), command)
    <3>1. Sends(n) /\ Enc("c_wait_send", 0, 0) /\ Driving /\ ~Changing /\ index_bit = k /\ data_sender_end = 0
      BY <2>5 DEF Showing, Symbol
    <3>2. n \in Nat /\ tx_fifo # <<>> /\ Popped = n /\ Word # Void /\ Gap = GapOf(n, k)
      BY <2>1, <3>1, SendsFacts
    <3> QED
      BY <3>1, <3>2
  <2>6. AtVoid => /\ tx_fifo # <<>> /\ Popped = Len(P) - 1 /\ Popped # 0 /\ Word = Void
                  /\ Before(Len(P) - 1) \in Nat
    <3> SUFFICES ASSUME AtVoid
                 PROVE  /\ tx_fifo # <<>> /\ Popped = Len(P) - 1 /\ Popped # 0 /\ Word = Void
                        /\ Before(Len(P) - 1) \in Nat
      OBVIOUS
    <3>1. Len(P) - 1 \in Nat /\ Len(P) - 1 # 0
      BY <2>1, CutPackages
    <3>2. Holds(Len(P) - 1)
      BY DEF AtVoid
    <3>3. tx_fifo # <<>> /\ Popped = Len(P) - 1 /\ Word = Void
      BY <2>1, <3>2, HoldsFacts
    <3>4. Before(Len(P) - 1) \in Nat
      BY <3>1, Products
    <3> QED
      BY <3>1, <3>3, <3>4
  <2>7. SeesVoid => Drives("sending", 1, 0, From(Before(Len(P) - 1)), command)
    BY <2>6 DEF SeesVoid, AtVoid
  <2>8. Falling => Drives("resting", 1, 0, <<>>, command)
    BY <2>6 DEF Falling, AtVoid
  <2>9. AskingVoid \/ PoppingVoid => Drives("silent", 0, 0, <<>>, command)
    BY <2>6 DEF AskingVoid, PoppingVoid, AtVoid
  <2>10. Resting \/ Reporting => Drives("silent", 0, 0, <<>>, command)
    BY DEF Resting, Reporting, Over
  <2>11. Off => Drives("silent", 0, 0, <<>>, command)
    BY DEF Off
  <2> HIDE DEF Drives
  <2> QED
    BY <2>2, <2>3, <2>4, <2>5, <2>7, <2>8, <2>9, <2>10, <2>11 DEF Values
<1> QED
  BY <1>1, <1>2

\* And one clock later.
LEMMA ValuesHoldNext == (KeepsTime /\ (stage = "wait" => command \in Commands) => Values)'
BY ValuesHold, PTL

-----------------------------------------------------------------------------
(* From place to place.                                                    *)

LEMMA FromFacts ==
  ASSUME KeepsTime, command \in Commands, NEW c \in Nat
  PROVE  /\ From(c) \in Seq(Bit) /\ From(0) = command
         /\ c >= Len(command) => From(c) = <<>>
         /\ c < Len(command) => /\ From(c) # <<>> /\ Head(From(c)) = command[c + 1]
                                /\ Tail(From(c)) = From(c + 1)
<1>1. command \in Seq(Bit) /\ Len(command) \in Nat /\ Len(command) > 0
  BY CutPackages
<1>2. \A x \in c + 1 .. Len(command) : command[x] \in Bit
  BY <1>1
<1>3. From(c) \in Seq(Bit) /\ (c >= Len(command) => From(c) = <<>>)
  BY <1>1, <1>2, SubSeqProperties DEF From
<1>4. From(0) = command
  <2>1. From(0) \in Seq(Bit) /\ Len(From(0)) = Len(command) /\ \A x \in 1 .. Len(command) : From(0)[x] = command[x]
    BY <1>1 DEF From
  <2> QED
    BY <1>1, <2>1
<1>5. CASE c < Len(command)
  <2>1. IsSeq(command) /\ c \in 0 .. Len(command) - 1 /\ From(c) = SubSeq(command, c + 1, Len(command))
    BY <1>1, <1>5 DEF IsSeq, From
  <2>2. From(c) # <<>>
    BY <2>1, SuffixFacts
  <2>3. Head(From(c)) = command[c + 1]
    BY <2>1, SuffixFacts
  <2>4. c < Len(command) - 1 => Tail(From(c)) = From(c + 1)
    <3> SUFFICES ASSUME c < Len(command) - 1 PROVE Tail(From(c)) = From(c + 1)
      OBVIOUS
    <3>1. Tail(From(c)) = SubSeq(command, c + 2, Len(command))
      BY <2>1, SuffixFacts
    <3>2. c + 2 = (c + 1) + 1
      OBVIOUS
    <3> QED
      BY <3>1, <3>2 DEF From
  <2>5. c = Len(command) - 1 => Tail(From(c)) = <<>>
    BY <2>1, SuffixFacts
  <2>6. c = Len(command) - 1 => From(c + 1) = <<>>
    BY <1>1 DEF From
  <2>7. c = Len(command) - 1 \/ c < Len(command) - 1
    BY <1>1, <1>5
  <2>8. Tail(From(c)) = From(c + 1)
    BY <2>4, <2>5, <2>6, <2>7
  <2> QED
    BY <1>1, <1>3, <1>4, <1>5, <2>2, <2>3, <2>8
<1> QED
  BY <1>1, <1>3, <1>4, <1>5

LEMMA MaskFacts ==
  ASSUME KeepsTime, command \in Commands, NEW n, Sends(n)
  PROVE  /\ n \in 0 .. Len(P) - 2 /\ Word = P[n + 1] /\ Len(P) \in Nat
         /\ Word.mask \in Nat /\ 0 < Word.mask /\ Word.mask <= data_width
<1>1. n \in Nat /\ Word = P[n + 1] /\ Len(P) \in Nat
  BY SendsFacts, CutPackages
<1>2. n < Len(P) - 1
  BY DEF Sends
<1>3. n \in 0 .. Len(P) - 2
  BY <1>1, <1>2
<1>4. Word.mask \in 1 .. data_width /\ data_width \in Nat
  BY <1>1, <1>3, CutPackages, Products
<1> QED
  BY <1>1, <1>3, <1>4

\* The bit that the kth symbol of a package sends.
LEMMA BitFacts ==
  ASSUME KeepsTime, command \in Commands, NEW n, Sends(n), NEW k \in Nat, k < Word.mask
  PROVE  /\ Word.data[k] = command[Before(n) + k + 1] /\ Word.data[k] \in Bit
         /\ Before(n) + k \in Nat /\ Before(n) + k < Len(command)
<1>1. Holds(n) /\ n \in Nat /\ n < Len(P) - 1 /\ Word = P[n + 1]
  BY SendsFacts DEF Sends
<1>2. n \in 0 .. Len(P) - 2 /\ Before(n) \in Nat
  BY <1>1, CutPackages, Products
<1>3. /\ Word.mask \in 1 .. data_width /\ Before(n) + Word.mask <= Len(command) /\ Len(command) \in Nat
      /\ \A x \in 0 .. Word.mask - 1 : Word.data[x] = command[Before(n) + x + 1]
  BY <1>1, <1>2, CutPackages
<1>4. data_width \in Nat
  BY Products
<1>5. k \in 0 .. Word.mask - 1 /\ Before(n) + k \in Nat /\ Before(n) + k < Len(command)
  BY <1>2, <1>3, <1>4
<1>6. command \in Seq(Bit) /\ Before(n) + k + 1 \in 1 .. Len(command)
  BY <1>2, <1>3, <1>5, CutPackages
<1> QED
  BY <1>3, <1>5, <1>6

LEMMA Levels ==
  ASSUME NEW last \in Symbols, NEW bit \in Bit, NEW symbol, symbol = tx!fm0!SymbolAfter(last, bit)
  PROVE  /\ symbol \in Wholes \cup Firsts /\ (symbol \in Wholes <=> bit = 1)
         /\ EndLevel(last) \in Bit /\ Level(symbol) = 1 - EndLevel(last)
         /\ symbol = "s_send_s1" \/ symbol = "s_send_s2" <=> EndLevel(last) = 0
BY DEF Symbols, Wholes, Firsts, Bit, tx!fm0!SymbolAfter, EndLevel, Level

\* What a clock of the sender needs to know, and what it always keeps.
Working == Next /\ Still /\ timing = setting /\ command \in Commands

LEMMA SendsNext ==
  ASSUME KeepsTime, NoResetInCommand, Working, NEW n, Sends(n), request_new_data = 0,
         encoder_ended' = encoder_ended
  PROVE  /\ Sends(n)' /\ Still' /\ P' = P /\ command' = command /\ Word' = Word
         /\ stage # "reset" /\ start_encoder = 1 /\ tx_fifo # <<>> /\ Word # Void /\ n \in Nat
<1>1. Holds(n) /\ On /\ n < Len(P) - 1 /\ encoder_ended = 0 /\ Next /\ Still
  BY DEF Sends, Holds, Working
<1>2. On' /\ P' = P /\ command' = command /\ Still' /\ mux' = 1 /\ stage = "wait" /\ start_encoder = 1
  BY <1>1, OnStays DEF Bit, On
<1>3. tx_fifo' = tx_fifo
  BY <1>1, <1>2, FifoPops
<1>4. tx_fifo # <<>> /\ Word # Void /\ n \in Nat
  BY SendsFacts DEF Working
<1> QED
  BY <1>1, <1>2, <1>3, <1>4 DEF Sends, Holds, Word

LEMMA TimersRestNext ==
  ASSUME KeepsTime, Working, stage # "reset", start_encoder = 1, TimersRest,
         half_tari_start' = 0, full_tari_start' = 0
  PROVE  TimersRest'
BY TimersRun DEF Working, TimersRest

LEMMA WaitsNext ==
  ASSUME KeepsTime, Working, stage # "reset", start_encoder = 1, tx_fifo # <<>>, Word # Void,
         Waits, data_sender_start = 0
  PROVE  Waits' /\ encoder_out' = encoder_out /\ data_sender_end' = 0
<1>1. /\ UNCHANGED <<encoder_out, last_state_bit, state_sender, half_tari_start, full_tari_start>>
      /\ data_sender_end' = 0
  BY InSenderWait DEF Waits, Working
<1>2. TimersRest'
  BY <1>1, TimersRestNext DEF Waits, TimersRest
<1> QED
  BY <1>1, <1>2 DEF Waits, LineRests

LEMMA AwaitingStep ==
  ASSUME KeepsTime, NoResetInCommand, Working, Awaiting
  PROVE  Starting(0)' /\ Still' /\ command' = command /\ encoder_out' = encoder_out
<1>1. Holds(0) /\ On /\ Enc("c_wait", 0, 0) /\ Waits /\ encoder_ended = 0 /\ Next /\ Still
  BY DEF Awaiting, Holds, Working
<1>2. /\ stage = "wait" /\ start_encoder = 1 /\ request_new_data = 0 /\ data_sender_start = 0
  BY <1>1 DEF On, Enc
<1>3. 0 < Len(P) - 1 /\ tx_fifo # <<>> /\ Word # Void
  <2>1. 0 < Len(P) - 1
    BY CutPackages DEF Working
  <2> QED
    BY <1>1, <2>1, HoldsFacts DEF Working
<1>4. On' /\ P' = P /\ command' = command /\ Still' /\ mux' = 1
  BY <1>1, OnStays DEF Bit
<1>5. tx_fifo' = tx_fifo
  BY <1>1, <1>2, FifoPops
<1>6. encoder_ended' = 0 /\ Enc("c_start_send", 0, 0)'
  BY <1>1, <1>2, <1>3, InEncoderWait
<1>7. Waits' /\ encoder_out' = encoder_out /\ data_sender_end' = 0
  BY <1>1, <1>2, <1>3, WaitsNext
<1> QED
  BY <1>1, <1>3, <1>4, <1>5, <1>6, <1>7 DEF Starting, Sends, Holds

LEMMA StartingStep ==
  ASSUME KeepsTime, NoResetInCommand, Working, NEW n, Starting(n)
  PROVE  Opening(n)' /\ Still' /\ command' = command /\ encoder_out' = encoder_out
<1>1. Sends(n) /\ Enc("c_start_send", 0, 0) /\ Waits /\ Next
  BY DEF Starting, Working
<1>2. stage # "reset" /\ start_encoder = 1 /\ request_new_data = 0 /\ data_sender_start = 0
  BY <1>1 DEF Enc, Sends, Holds, On
<1>3. encoder_ended' = encoder_ended /\ Enc("c_wait_send", 1, 0)'
  BY <1>1, <1>2, InStartSend
<1>4. Sends(n)' /\ Still' /\ command' = command /\ tx_fifo # <<>> /\ Word # Void
  BY <1>1, <1>2, <1>3, SendsNext
<1>5. Waits' /\ encoder_out' = encoder_out /\ data_sender_end' = 0
  BY <1>1, <1>2, <1>4, WaitsNext
<1> QED
  BY <1>3, <1>4, <1>5 DEF Opening

LEMMA OpeningStep ==
  ASSUME KeepsTime, NoResetInCommand, Working, NEW n, Opening(n)
  PROVE  /\ Turning(n, 0)' /\ state_sender' \notin Seconds
         /\ Still' /\ command' = command /\ encoder_out' = encoder_out
<1>1. Sends(n) /\ Enc("c_wait_send", 1, 0) /\ Waits /\ data_sender_end = 0 /\ Next
  BY DEF Opening, Working
<1>2. stage # "reset" /\ start_encoder = 1 /\ request_new_data = 0 /\ data_sender_start = 1
  BY <1>1 DEF Enc, Sends, Holds, On
<1>3. encoder_ended' = encoder_ended /\ Enc("c_wait_send", 0, 0)'
  BY <1>1, <1>2, InWaitSend DEF Enc
<1>4. Sends(n)' /\ Still' /\ command' = command /\ P' = P /\ Word' = Word /\ tx_fifo # <<>> /\ Word # Void
  BY <1>1, <1>2, <1>3, SendsNext
<1> DEFINE bit == Word.data[0]
<1>5. bit \in Bit /\ Word.mask \in Nat /\ 0 < Word.mask
  <2>1. Word.mask \in Nat /\ 0 < Word.mask
    BY <1>1, MaskFacts DEF Working
  <2> QED
    BY <1>1, <2>1, BitFacts DEF Working
<1>6. /\ UNCHANGED <<encoder_out, last_state_bit>> /\ data_sender_end' = 0 /\ index_bit' = 0
      /\ state_sender' = tx!fm0!SymbolAfter(last_state_bit, bit)
      /\ full_tari_start' = IF bit = 1 THEN 1 ELSE full_tari_start
      /\ half_tari_start' = IF bit = 0 THEN 1 ELSE half_tari_start
  BY <1>1, <1>2, <1>4, InSenderWait DEF Waits
<1>7. /\ last_state_bit \in Symbols /\ encoder_out = EndLevel(last_state_bit)
      /\ half_tari_start = 0 /\ i \in 0 .. 1 /\ half_tari_end = 0
      /\ full_tari_start = 0 /\ i2 \in 0 .. 3 /\ full_tari_end = 0
  BY <1>1 DEF Waits, LineRests, TimersRest
<1>8. i' = i /\ half_tari_end' = 0 /\ i2' = i2 /\ full_tari_end' = 0
  BY <1>1, <1>2, <1>7, TimersRun DEF Working
<1>9. /\ state_sender' \in Wholes \cup Firsts /\ (state_sender' \in Wholes <=> bit = 1)
      /\ Level(state_sender') = 1 - encoder_out /\ encoder_out \in Bit
  BY <1>5, <1>6, <1>7, Levels
<1>10. Symbol(n, 0)' /\ Changing' /\ state_sender' \notin Seconds
  BY <1>3, <1>4, <1>5, <1>6, <1>7, <1>9
     DEF Symbol, Driving, Changing, Wholes, Firsts, Seconds, Bit
<1> HIDE DEF bit
<1>11. /\ state_sender' \in Wholes => HalfIdle' /\ full_tari_start' = 1 /\ i2' \in 0 .. 3 /\ full_tari_end' = 0
       /\ state_sender' \notin Wholes =>
            half_tari_start' = 1 /\ i' \in 0 .. 1 /\ half_tari_end' = 0 /\ Beside'
  BY <1>5, <1>6, <1>7, <1>8, <1>9 DEF HalfIdle, Beside, Bit
<1>12. encoder_out' = EndLevel(last_state_bit')
  BY <1>6, <1>7
<1> QED
  BY <1>4, <1>6, <1>10, <1>11, <1>12 DEF Turning

\* The clocks of a symbol.
LEMMA SymbolNext ==
  ASSUME KeepsTime, NoResetInCommand, Working, NEW n, NEW k, Symbol(n, k)
  PROVE  /\ Sends(n)' /\ Still' /\ P' = P /\ command' = command /\ Word' = Word /\ Word = P[n + 1]
         /\ Next /\ stage # "reset" /\ start_encoder = 1 /\ tx_fifo # <<>> /\ n \in Nat
         /\ Enc("c_wait_send", 0, 0)' /\ Driving /\ data_sender_end' = 0
         /\ k \in Nat /\ k < Word.mask /\ Word.mask \in Nat /\ index_bit = k /\ last_state_bit \in Symbols
<1>1. /\ Sends(n) /\ Enc("c_wait_send", 0, 0) /\ data_sender_end = 0 /\ Driving /\ index_bit = k
      /\ k \in 0 .. Word.mask - 1 /\ last_state_bit \in Symbols /\ Next
  BY DEF Symbol, Working
<1>2. stage # "reset" /\ start_encoder = 1 /\ request_new_data = 0
  BY <1>1 DEF Enc, Sends, Holds, On
<1>3. encoder_ended' = encoder_ended /\ Enc("c_wait_send", 0, 0)'
  BY <1>1, <1>2, InWaitSend DEF Enc
<1>4. Sends(n)' /\ Still' /\ command' = command /\ P' = P /\ Word' = Word /\ tx_fifo # <<>> /\ n \in Nat
  BY <1>1, <1>2, <1>3, SendsNext
<1>5. Word.mask \in Nat /\ Word = P[n + 1]
  BY <1>1, MaskFacts DEF Working
<1>6. k \in Nat /\ k < Word.mask
  BY <1>1, <1>5
<1>7. data_sender_end' = 0
  BY <1>1, <1>2, <1>4, InSymbol
<1> QED
  BY <1>1, <1>2, <1>3, <1>4, <1>5, <1>6, <1>7

\* The line shows the symbol.
LEMMA TurningStep ==
  ASSUME KeepsTime, NoResetInCommand, Working, NEW n, NEW k, Turning(n, k)
  PROVE  /\ Showing(n, k)' /\ Still' /\ P' = P /\ command' = command
         /\ state_sender' = state_sender /\ encoder_out' = 1 - encoder_out
         /\ IF state_sender \in Wholes THEN full_tari_end' = 0 /\ i2' \in 1 .. 4
            ELSE half_tari_end' = 0 /\ i' \in 1 .. 2 /\ (state_sender \in Seconds => i' = 2)
<1>1. Symbol(n, k) /\ Changing
  BY DEF Turning
<1>2. /\ Sends(n)' /\ Still' /\ P' = P /\ command' = command /\ Word' = Word
      /\ Next /\ stage # "reset" /\ start_encoder = 1 /\ tx_fifo # <<>>
      /\ Enc("c_wait_send", 0, 0)' /\ Driving /\ data_sender_end' = 0 /\ last_state_bit \in Symbols
  BY <1>1, SymbolNext
<1>3. H \in Nat /\ T \in Nat /\ T = 2 * H /\ 5 <= H /\ H <= 511 /\ timing = setting
  BY Clocks DEF Working
<1>4. i \in 0 .. 1 /\ ~TimeIsOver
  BY DEF Turning, TimeIsOver, HalfIdle
<1>5. i2 \in 0 .. 1022
  <2>1. CASE state_sender \in Wholes
    BY <2>1, <1>3 DEF Turning
  <2>2. CASE state_sender \notin Wholes
    BY <2>2, <1>3, <1>4 DEF Turning, Beside, FullAt, Age
  <2> QED
    BY <2>1, <2>2
<1>6. /\ encoder_out' = Level(state_sender)
      /\ last_state_bit' = IF state_sender \in Seconds THEN last_state_bit ELSE state_sender
      /\ UNCHANGED <<state_sender, half_tari_start, full_tari_start, index_bit>>
  BY <1>2, <1>4, InSymbol
<1>7. /\ half_tari_start = 0 => i' = i /\ half_tari_end' = 0
      /\ half_tari_start = 1 =>
           /\ i' = IF i + 1 = H THEN 0 ELSE i + 1
           /\ half_tari_end' = IF i + 1 = H THEN 1 ELSE 0
      /\ full_tari_start = 0 => i2' = i2 /\ full_tari_end' = 0
      /\ full_tari_start = 1 =>
           /\ i2' = IF i2 + 1 = T THEN 0 ELSE i2 + 1
           /\ full_tari_end' = IF i2 + 1 = T THEN 1 ELSE 0
  BY <1>2, <1>3, <1>4, <1>5, TimersRun
<1>8. encoder_out \in Bit
  BY <1>1 DEF Symbol
<1>9. Level(state_sender) \in Bit /\ encoder_out' = 1 - encoder_out
  BY <1>1, <1>6, <1>8 DEF Changing, Level, Bit
<1>10. Symbol(n, k)' /\ ~Changing' /\ (state_sender \notin Seconds => last_state_bit' = state_sender')
  <2>1. Driving' /\ last_state_bit' \in Symbols
    BY <1>2, <1>6 DEF Driving, Symbols
  <2>2. /\ state_sender' = "s_send_s2_part2" => last_state_bit' = "s_send_s2"
        /\ state_sender' = "s_send_s3_part2" => last_state_bit' = "s_send_s3"
    BY <1>1, <1>6 DEF Symbol, Seconds
  <2>3. encoder_out' \in Bit /\ ~Changing'
    BY <1>6, <1>9 DEF Changing, Bit
  <2> QED
    BY <1>1, <1>2, <1>6, <2>1, <2>2, <2>3 DEF Symbol, Wholes
<1>11. CASE state_sender \in Wholes
  <2>1. HalfIdle /\ full_tari_start = 1 /\ i2 \in 0 .. 3
    BY <1>11 DEF Turning
  <2>2. i2' = i2 + 1 /\ full_tari_end' = 0 /\ HalfIdle' /\ i2' \in 1 .. 4 /\ i2' \in 1 .. T - 1
    BY <1>3, <1>6, <1>7, <2>1 DEF HalfIdle
  <2> QED
    BY <1>2, <1>6, <1>9, <1>10, <1>11, <2>1, <2>2 DEF Showing, Wholes, Seconds
<1>12. CASE state_sender \notin Wholes
  <2>1. half_tari_start = 1 /\ half_tari_end = 0 /\ Beside /\ (state_sender \in Seconds => i = 1)
    BY <1>12 DEF Turning
  <2>2. i' = i + 1 /\ half_tari_end' = 0 /\ i' \in 1 .. 2 /\ i' \in 1 .. H - 1
    BY <1>3, <1>4, <1>7, <2>1
  <2>3. Beside'
    <3>1. CASE full_tari_start = 0
      BY <1>6, <1>7, <2>1, <3>1 DEF Beside
    <3>2. CASE full_tari_start # 0
      <4> DEFINE base == IF state_sender \in Seconds THEN H ELSE 0
      <4>1. PICK late \in 0 .. 1 : i2 = i + base + late
        BY <1>3, <1>4, <2>1, <3>2 DEF Beside, FullAt, Age
      <4>2. full_tari_start = 1 /\ state_sender \in {"s_send_s3", "s_send_s3_part2"}
        BY <2>1, <3>2 DEF Beside
      <4>3. i2' = i' + base + late /\ full_tari_end' = 0 /\ i' + base + late < T
        BY <1>3, <1>4, <1>7, <2>2, <4>1, <4>2
      <4>4. Age' + late = i' + base + late
        BY <1>6, <2>2 DEF Age
      <4>5. FullAt(Age + late)'
        BY <1>3, <4>3, <4>4 DEF FullAt
      <4> QED
        BY <1>6, <4>2, <4>5 DEF Beside
    <3> QED
      BY <3>1, <3>2
  <2> QED
    BY <1>2, <1>6, <1>9, <1>10, <1>12, <2>1, <2>2, <2>3 DEF Showing
<1> QED
  BY <1>11, <1>12
\* The timers in a symbol that the line shows.
LEMMA ShowingTimers ==
  ASSUME KeepsTime, NoResetInCommand, Working, NEW n, NEW k, Showing(n, k)
  PROVE  /\ Symbol(n, k) /\ ~Changing /\ H \in Nat /\ T = 2 * H /\ 5 <= H
         /\ i \in 0 .. H - 1 /\ i2 \in 0 .. T - 1
         /\ half_tari_start = 0 => i' = i /\ half_tari_end' = 0
         /\ half_tari_start = 1 =>
              /\ i' = IF i + 1 = H THEN 0 ELSE i + 1
              /\ half_tari_end' = IF i + 1 = H THEN 1 ELSE 0
         /\ full_tari_start = 0 => i2' = i2 /\ full_tari_end' = 0
         /\ full_tari_start = 1 =>
              /\ i2' = IF i2 + 1 = T THEN 0 ELSE i2 + 1
              /\ full_tari_end' = IF i2 + 1 = T THEN 1 ELSE 0
<1>1. Symbol(n, k) /\ ~Changing
  BY DEF Showing
<1>2. H \in Nat /\ T \in Nat /\ T = 2 * H /\ 5 <= H /\ H <= 511
  BY Clocks
<1>3. i \in 0 .. H - 1
  BY <1>2 DEF Showing, HalfIdle
<1>4. i2 \in 0 .. T - 1
  <2>1. CASE state_sender \in Wholes
    BY <2>1, <1>2 DEF Showing
  <2>2. CASE state_sender \notin Wholes /\ full_tari_start = 0
    BY <2>2, <1>2 DEF Showing, Beside
  <2>3. CASE state_sender \notin Wholes /\ full_tari_start # 0
    <3>1. PICK late \in 0 .. 1 : FullAt(Age + late)
      BY <2>3 DEF Showing, Beside
    <3>2. Age \in 0 .. 2 * H
      BY <1>2, <1>3 DEF Age
    <3> QED
      BY <1>2, <3>1, <3>2 DEF FullAt
  <2> QED
    BY <2>1, <2>2, <2>3
<1>5. i \in 0 .. 1022 /\ i2 \in 0 .. 1022
  BY <1>2, <1>3, <1>4
<1>6. Next /\ stage # "reset" /\ start_encoder = 1 /\ timing = setting
  BY <1>1, SymbolNext DEF Working
<1>7. /\ half_tari_start = 0 => i' = i /\ half_tari_end' = 0
      /\ half_tari_start = 1 =>
           /\ i' = IF i + 1 = H THEN 0 ELSE i + 1
           /\ half_tari_end' = IF i + 1 = H THEN 1 ELSE 0
      /\ full_tari_start = 0 => i2' = i2 /\ full_tari_end' = 0
      /\ full_tari_start = 1 =>
           /\ i2' = IF i2 + 1 = T THEN 0 ELSE i2 + 1
           /\ full_tari_end' = IF i2 + 1 = T THEN 1 ELSE 0
  BY <1>2, <1>5, <1>6, TimersRun
<1> QED
  BY <1>1, <1>2, <1>3, <1>4, <1>7

\* What the full timer has counted, beside a 0.
FullNext(age) ==
  /\ i2' = IF age < T THEN age ELSE age - T
  /\ full_tari_end' = IF age = T THEN 1 ELSE 0

LEMMA BesideNext ==
  ASSUME KeepsTime, NoResetInCommand, Working, NEW n, NEW k, Showing(n, k), state_sender \notin Wholes
  PROVE  \/ full_tari_start = 0 /\ i2' \in 0 .. 3 /\ full_tari_end' = 0
         \/ /\ full_tari_start = 1 /\ state_sender \in {"s_send_s3", "s_send_s3_part2"}
            /\ \E late \in 0 .. 1 :
                 FullNext(Age + 1 + late)
<1>1. /\ Symbol(n, k) /\ ~Changing /\ H \in Nat /\ T = 2 * H /\ 5 <= H
      /\ i \in 0 .. H - 1 /\ i2 \in 0 .. T - 1
      /\ full_tari_start = 0 => i2' = i2 /\ full_tari_end' = 0
      /\ full_tari_start = 1 =>
           /\ i2' = IF i2 + 1 = T THEN 0 ELSE i2 + 1
           /\ full_tari_end' = IF i2 + 1 = T THEN 1 ELSE 0
  BY ShowingTimers
<1>2. Beside
  BY DEF Showing
<1>3. CASE full_tari_start = 0
  BY <1>1, <1>2, <1>3 DEF Beside
<1>4. CASE full_tari_start # 0
  <2>1. PICK late \in 0 .. 1 : FullAt(Age + late)
    BY <1>2, <1>4 DEF Beside
  <2>2. full_tari_start = 1 /\ state_sender \in {"s_send_s3", "s_send_s3_part2"}
    BY <1>2, <1>4 DEF Beside
  <2>3. Age \in 0 .. 2 * H
    BY <1>1 DEF Age
  <2>4. i2 = (IF Age + late < T THEN Age + late ELSE Age + late - T)
    BY <1>1, <2>1, <2>3 DEF FullAt
  <2>5. FullNext(Age + 1 + late)
    BY <1>1, <2>2, <2>3, <2>4 DEF FullNext
  <2> QED
    BY <2>2, <2>5
<1> QED
  BY <1>3, <1>4

LEMMA SymbolGoesOn ==
  ASSUME KeepsTime, NoResetInCommand, Working, NEW n, NEW k, Showing(n, k), ~TimeIsOver
  PROVE  /\ Showing(n, k)' /\ state_sender' = state_sender /\ encoder_out' = encoder_out
         /\ IF state_sender \in Wholes
              THEN Remaining(full_tari_end, i2, T)' = Remaining(full_tari_end, i2, T) - 1
              ELSE Remaining(half_tari_end, i, H)' = Remaining(half_tari_end, i, H) - 1
         /\ IF state_sender \in Wholes THEN Remaining(full_tari_end, i2, T) \in Nat \ {0}
                                       ELSE Remaining(half_tari_end, i, H) \in Nat \ {0}
<1>1. /\ Symbol(n, k) /\ ~Changing /\ H \in Nat /\ T = 2 * H /\ 5 <= H
      /\ i \in 0 .. H - 1 /\ i2 \in 0 .. T - 1
      /\ half_tari_start = 0 => i' = i /\ half_tari_end' = 0
      /\ half_tari_start = 1 =>
           /\ i' = IF i + 1 = H THEN 0 ELSE i + 1
           /\ half_tari_end' = IF i + 1 = H THEN 1 ELSE 0
      /\ full_tari_start = 1 =>
           /\ i2' = IF i2 + 1 = T THEN 0 ELSE i2 + 1
           /\ full_tari_end' = IF i2 + 1 = T THEN 1 ELSE 0
  BY ShowingTimers
<1>2. /\ Sends(n)' /\ P' = P /\ Word' = Word /\ Next /\ stage # "reset" /\ start_encoder = 1 /\ tx_fifo # <<>>
      /\ Enc("c_wait_send", 0, 0)' /\ Driving /\ data_sender_end' = 0 /\ last_state_bit \in Symbols
  BY <1>1, SymbolNext
<1>3. /\ encoder_out' = Level(state_sender)
      /\ last_state_bit' = IF state_sender \in Seconds THEN last_state_bit ELSE state_sender
      /\ UNCHANGED <<state_sender, half_tari_start, full_tari_start, index_bit>>
  BY <1>2, InSymbol
<1>4. encoder_out' = encoder_out /\ ~Changing'
  BY <1>1, <1>3 DEF Changing
<1>5. Symbol(n, k)' /\ (state_sender \notin Seconds => last_state_bit' = state_sender')
  <2>1. Driving' /\ last_state_bit' \in Symbols
    BY <1>2, <1>3 DEF Driving, Symbols
  <2>2. /\ state_sender' = "s_send_s2_part2" => last_state_bit' = "s_send_s2"
        /\ state_sender' = "s_send_s3_part2" => last_state_bit' = "s_send_s3"
    BY <1>1, <1>3 DEF Symbol, Seconds
  <2> QED
    BY <1>1, <1>2, <1>3, <1>4, <2>1, <2>2 DEF Symbol, Wholes
<1>6. CASE state_sender \in Wholes
  <2>1. HalfIdle /\ full_tari_start = 1 /\ full_tari_end = 0 /\ i2 \in 1 .. T - 1
    BY <1>6 DEF Showing, TimeIsOver
  <2>2. HalfIdle' /\ ((full_tari_end' = 1 /\ i2' = 0) \/ (full_tari_end' = 0 /\ i2' \in 1 .. T - 1))
    BY <1>1, <1>3, <2>1 DEF HalfIdle
  <2>3. /\ Remaining(full_tari_end, i2, T)' = Remaining(full_tari_end, i2, T) - 1
        /\ Remaining(full_tari_end, i2, T) \in Nat \ {0}
    BY <1>1, <2>1 DEF Remaining
  <2> QED
    BY <1>3, <1>4, <1>5, <1>6, <2>1, <2>2, <2>3 DEF Showing, Wholes, Seconds
<1>7. CASE state_sender \notin Wholes
  <2>1. half_tari_start = 1 /\ half_tari_end = 0 /\ i \in 1 .. H - 1
    BY <1>7 DEF Showing, TimeIsOver
  <2>2. /\ (half_tari_end' = 1 /\ i' = 0) \/ (half_tari_end' = 0 /\ i' \in 1 .. H - 1)
        /\ (IF half_tari_end' = 1 THEN H ELSE i') = i + 1
    <3>1. CASE i + 1 = H
      BY <1>1, <2>1, <3>1
    <3>2. CASE i + 1 # H
      BY <1>1, <2>1, <3>2
    <3> QED
      BY <3>1, <3>2
  <2>3. Beside'
    <3>1. CASE full_tari_start = 0
      BY <1>3, <1>7, <3>1, BesideNext DEF Beside
    <3>2. CASE full_tari_start # 0
      <4>1. full_tari_start = 1 /\ state_sender \in {"s_send_s3", "s_send_s3_part2"}
        BY <1>7, <3>2, BesideNext
      <4>2. PICK late \in 0 .. 1 : FullNext(Age + 1 + late)
        BY <1>7, <3>2, BesideNext
      <4>3. Age' = Age + 1
        <5>1. Age = i + (IF state_sender \in Seconds THEN H ELSE 0)
          BY <2>1 DEF Age
        <5>2. Age' = i + 1 + (IF state_sender \in Seconds THEN H ELSE 0)
          BY <1>3, <2>2 DEF Age
        <5> QED
          BY <1>1, <5>1, <5>2
      <4>4. Age + 1 + late = Age' + late
        BY <1>1, <4>3 DEF Age
      <4>5. FullNext(Age' + late)
        BY <4>2, <4>4, Zenon
      <4>6. FullAt(Age + late)'
        BY <4>5, Zenon DEF FullAt, FullNext
      <4> QED
        BY <1>3, <4>1, <4>6 DEF Beside
    <3> QED
      BY <3>1, <3>2
  <2>4. /\ Remaining(half_tari_end, i, H)' = Remaining(half_tari_end, i, H) - 1
        /\ Remaining(half_tari_end, i, H) \in Nat \ {0}
    BY <1>1, <2>1 DEF Remaining
  <2> QED
    BY <1>3, <1>4, <1>5, <1>7, <2>1, <2>2, <2>3, <2>4 DEF Showing
<1> QED
  BY <1>6, <1>7


\* The first half of a 0 is over.
LEMMA HalfOver ==
  ASSUME KeepsTime, NoResetInCommand, Working, NEW n, NEW k, Showing(n, k), TimeIsOver, state_sender \in Firsts
  PROVE  /\ Turning(n, k)' /\ state_sender' \in Seconds /\ encoder_out' = encoder_out
         /\ Remaining(half_tari_end, i, H) = 0
<1>1. /\ Symbol(n, k) /\ ~Changing /\ H \in Nat /\ T = 2 * H /\ 5 <= H
      /\ half_tari_start = 1 =>
           /\ i' = IF i + 1 = H THEN 0 ELSE i + 1
           /\ half_tari_end' = IF i + 1 = H THEN 1 ELSE 0
  BY ShowingTimers
<1>2. /\ Sends(n)' /\ P' = P /\ Word' = Word /\ Next /\ stage # "reset" /\ start_encoder = 1 /\ tx_fifo # <<>>
      /\ Enc("c_wait_send", 0, 0)' /\ Driving /\ data_sender_end' = 0 /\ last_state_bit \in Symbols
  BY <1>1, SymbolNext
<1>3. state_sender \notin Wholes /\ state_sender \notin Seconds
  BY DEF Firsts, Wholes, Seconds
<1>4. half_tari_start = 1 /\ half_tari_end = 1 /\ i = 0 /\ last_state_bit = state_sender
  BY <1>3 DEF Showing, TimeIsOver
<1>5. /\ encoder_out' = Level(state_sender) /\ last_state_bit' = state_sender
      /\ half_tari_start' = 1 /\ UNCHANGED <<full_tari_start, index_bit>>
      /\ state_sender' = IF state_sender = "s_send_s2" THEN "s_send_s2_part2" ELSE "s_send_s3_part2"
  BY <1>2, <1>3, InSymbol
<1>6. i' = 1 /\ half_tari_end' = 0
  BY <1>1, <1>4
<1>7. encoder_out' = encoder_out /\ Changing' /\ encoder_out \in Bit
  BY <1>1, <1>5 DEF Changing, Level, Firsts, Symbol
<1>8. Symbol(n, k)'
  <2>1. Driving' /\ last_state_bit' \in Symbols
    BY <1>5 DEF Driving, Symbols, Seconds
  <2>2. /\ state_sender' = "s_send_s2_part2" => last_state_bit' = "s_send_s2"
        /\ state_sender' = "s_send_s3_part2" => last_state_bit' = "s_send_s3"
        /\ state_sender' \notin Wholes
    BY <1>5 DEF Firsts, Wholes
  <2> QED
    BY <1>1, <1>2, <1>3, <1>5, <1>7, <2>1, <2>2 DEF Symbol
<1>9. Beside'
  <2>1. CASE full_tari_start = 0
    BY <1>3, <1>5, <2>1, BesideNext DEF Beside
  <2>2. CASE full_tari_start # 0
    <3>1. full_tari_start = 1 /\ state_sender \in {"s_send_s3", "s_send_s3_part2"}
      BY <1>3, <2>2, BesideNext
    <3>2. PICK late \in 0 .. 1 : FullNext(Age + 1 + late)
      BY <1>3, <2>2, BesideNext
    <3>3. Age = H
      BY <1>1, <1>3, <1>4 DEF Age
    <3>4. Age' = 1 + H
      BY <1>1, <1>5, <1>6 DEF Age, Seconds
    <3>5. Age + 1 + late = Age' + late
      BY <1>1, <3>3, <3>4
    <3>6. FullNext(Age' + late)
      BY <3>2, <3>5, Zenon
    <3>7. FullAt(Age + late)'
      BY <3>6, Zenon DEF FullAt, FullNext
    <3>8. state_sender' \in {"s_send_s3", "s_send_s3_part2"}
      BY <1>5, <3>1 DEF Firsts
    <3> QED
      BY <1>5, <3>1, <3>7, <3>8 DEF Beside
  <2> QED
    BY <2>1, <2>2
<1>10. state_sender' \in Seconds /\ state_sender' \notin Wholes
  BY <1>5 DEF Seconds, Wholes
<1> QED
  BY <1>4, <1>5, <1>6, <1>7, <1>8, <1>9, <1>10 DEF Turning, Remaining

\* The full timer keeps running after s1 and beside s3.
FullAfter == IF state_sender = "s_send_s4" THEN 0 ELSE full_tari_start

\* A symbol is over: where it leaves the line and the timers.
LEMMA SymbolOver ==
  ASSUME KeepsTime, NoResetInCommand, Working, NEW n, NEW k, Showing(n, k), TimeIsOver, state_sender \notin Firsts
  PROVE  /\ encoder_out' = encoder_out /\ index_bit' = k + 1
         /\ last_state_bit' \in Symbols /\ encoder_out' = EndLevel(last_state_bit')
         /\ i' \in 0 .. 1 /\ half_tari_end' = 0 /\ i2' \in 0 .. 3 /\ full_tari_end' = 0
         /\ \/ FullAfter = 0
            \/ /\ FullAfter = 1 /\ EndLevel(last_state_bit') = 1
               /\ i2' \in 1 .. 2 /\ \E late \in 0 .. 1 : i2' = i' + late
         /\ k + 1 >= Word.mask => state_sender' = "s_end" /\ half_tari_start' = 0 /\ full_tari_start' = FullAfter
         /\ ~(k + 1 >= Word.mask) =>
              /\ state_sender' = tx!fm0!SymbolAfter(last_state_bit', Word.data[k + 1])
              /\ full_tari_start' = IF Word.data[k + 1] = 1 THEN 1 ELSE FullAfter
              /\ half_tari_start' = IF Word.data[k + 1] = 0 THEN 1 ELSE 0
         /\ IF state_sender \in Wholes THEN Remaining(full_tari_end, i2, T) = 0
                                       ELSE Remaining(half_tari_end, i, H) = 0
<1>1. /\ Symbol(n, k) /\ ~Changing /\ H \in Nat /\ T = 2 * H /\ 5 <= H
      /\ half_tari_start = 0 => i' = i /\ half_tari_end' = 0
      /\ half_tari_start = 1 =>
           /\ i' = IF i + 1 = H THEN 0 ELSE i + 1
           /\ half_tari_end' = IF i + 1 = H THEN 1 ELSE 0
      /\ full_tari_start = 1 =>
           /\ i2' = IF i2 + 1 = T THEN 0 ELSE i2 + 1
           /\ full_tari_end' = IF i2 + 1 = T THEN 1 ELSE 0
  BY ShowingTimers
<1>2. /\ Next /\ stage # "reset" /\ start_encoder = 1 /\ tx_fifo # <<>> /\ Driving
      /\ index_bit = k /\ last_state_bit \in Symbols
  BY <1>1, SymbolNext
<1>3. /\ encoder_out' = Level(state_sender)
      /\ last_state_bit' = IF state_sender \in Seconds THEN last_state_bit ELSE state_sender
      /\ index_bit' = index_bit + 1
  BY <1>2, InSymbol
<1> DEFINE half == IF state_sender \in Seconds THEN 0 ELSE half_tari_start
<1>4. /\ k + 1 >= Word.mask => state_sender' = "s_end" /\ half_tari_start' = half /\ full_tari_start' = FullAfter
      /\ ~(k + 1 >= Word.mask) =>
           /\ state_sender' = tx!fm0!SymbolAfter(last_state_bit', Word.data[k + 1])
           /\ full_tari_start' = IF Word.data[k + 1] = 1 THEN 1 ELSE FullAfter
           /\ half_tari_start' = IF Word.data[k + 1] = 0 THEN 1 ELSE half
  BY <1>2, InSymbol DEF FullAfter
<1>5. encoder_out' = encoder_out /\ encoder_out' = Level(state_sender)
  BY <1>1, <1>3 DEF Changing
<1>6. CASE state_sender \in Wholes
  <2>1. /\ half_tari_start = 0 /\ i \in 0 .. 1 /\ half_tari_end = 0
        /\ full_tari_start = 1 /\ full_tari_end = 1 /\ i2 = 0
        /\ state_sender \notin Seconds /\ last_state_bit' = state_sender
    BY <1>3, <1>6 DEF Showing, TimeIsOver, HalfIdle, Wholes, Seconds
  <2>2. half = 0 /\ i' \in 0 .. 1 /\ half_tari_end' = 0 /\ i2' = 1 /\ full_tari_end' = 0
    BY <1>1, <2>1
  <2>3. last_state_bit' \in Symbols /\ encoder_out' = EndLevel(last_state_bit')
    BY <1>5, <1>6, <2>1 DEF Symbols, EndLevel, Level, Wholes
  <2>4. \/ FullAfter = 0
        \/ FullAfter = 1 /\ EndLevel(last_state_bit') = 1 /\ i2' \in 1 .. 2 /\ \E late \in 0 .. 1 : i2' = i' + late
    <3>1. CASE state_sender = "s_send_s4"
      BY <3>1 DEF FullAfter
    <3>2. CASE state_sender = "s_send_s1"
      <4>1. FullAfter = 1 /\ EndLevel(last_state_bit') = 1
        BY <2>1, <3>2 DEF FullAfter, EndLevel
      <4>2. CASE i' = 0
        BY <2>2, <4>1, <4>2
      <4>3. CASE i' = 1
        BY <2>2, <4>1, <4>3
      <4>4. i' = 0 \/ i' = 1
        BY <2>2
      <4> QED
        BY <4>2, <4>3, <4>4
    <3> QED
      BY <1>6, <3>1, <3>2 DEF Wholes
  <2>5. Remaining(full_tari_end, i2, T) = 0 /\ index_bit' = k + 1 /\ i2' \in 0 .. 3
    BY <1>2, <1>3, <2>1, <2>2 DEF Remaining
  <2> HIDE DEF half
  <2> QED
    BY <1>4, <1>5, <1>6, <2>2, <2>3, <2>4, <2>5, Zenon
<1>7. CASE state_sender \notin Wholes
  <2>1. /\ half_tari_start = 1 /\ half_tari_end = 1 /\ i = 0 /\ state_sender \in Seconds
        /\ last_state_bit' = last_state_bit
    BY <1>2, <1>3, <1>7 DEF Showing, TimeIsOver, Driving
  <2>2. half = 0 /\ i' = 1 /\ half_tari_end' = 0 /\ FullAfter = full_tari_start
    BY <1>1, <2>1 DEF FullAfter, Seconds
  <2>3. last_state_bit' \in Symbols /\ encoder_out' = EndLevel(last_state_bit')
    BY <1>1, <1>2, <1>5, <2>1 DEF EndLevel, Level, Seconds, Symbol
  <2>4. /\ i2' \in 0 .. 3 /\ full_tari_end' = 0
        /\ \/ FullAfter = 0
           \/ FullAfter = 1 /\ EndLevel(last_state_bit') = 1 /\ i2' \in 1 .. 2 /\ \E late \in 0 .. 1 : i2' = i' + late
    <3>1. CASE full_tari_start = 0
      BY <1>7, <2>2, <3>1, BesideNext
    <3>2. CASE full_tari_start # 0
      <4>1. full_tari_start = 1 /\ state_sender \in {"s_send_s3", "s_send_s3_part2"}
        BY <1>7, <3>2, BesideNext
      <4>2. PICK late \in 0 .. 1 : FullNext(Age + 1 + late)
        BY <1>7, <3>2, BesideNext
      <4>3. Age = T
        BY <1>1, <2>1 DEF Age
      <4>4. i2' = 1 + late /\ full_tari_end' = 0
        BY <1>1, <4>2, <4>3 DEF FullNext
      <4>5. EndLevel(last_state_bit') = 1
        BY <1>1, <2>1, <4>1 DEF EndLevel, Symbol, Seconds
      <4> QED
        BY <2>2, <4>1, <4>4, <4>5
    <3> QED
      BY <3>1, <3>2
  <2> HIDE DEF half
  <2> QED
    BY <1>2, <1>3, <1>4, <1>5, <1>7, <2>1, <2>2, <2>3, <2>4 DEF Remaining
<1> QED
  BY <1>6, <1>7

\* The next bit of the package follows, ...
LEMMA NextSymbol ==
  ASSUME KeepsTime, NoResetInCommand, Working, NEW n, NEW k, Showing(n, k), TimeIsOver,
         state_sender \notin Firsts, ~(k + 1 >= Word.mask)
  PROVE  Turning(n, k + 1)' /\ state_sender' \notin Seconds
<1>1. /\ Sends(n) /\ Sends(n)' /\ Word' = Word /\ Enc("c_wait_send", 0, 0)' /\ data_sender_end' = 0
      /\ k \in Nat /\ Word.mask \in Nat
  BY SymbolNext DEF Showing, Symbol
<1> DEFINE bit == Word.data[k + 1]
<1>2. /\ encoder_out' = encoder_out /\ index_bit' = k + 1
      /\ last_state_bit' \in Symbols /\ encoder_out' = EndLevel(last_state_bit')
      /\ i' \in 0 .. 1 /\ half_tari_end' = 0 /\ i2' \in 0 .. 3 /\ full_tari_end' = 0
      /\ \/ FullAfter = 0
         \/ /\ FullAfter = 1 /\ EndLevel(last_state_bit') = 1
            /\ i2' \in 1 .. 2 /\ \E late \in 0 .. 1 : i2' = i' + late
      /\ state_sender' = tx!fm0!SymbolAfter(last_state_bit', bit)
      /\ full_tari_start' = IF bit = 1 THEN 1 ELSE FullAfter
      /\ half_tari_start' = IF bit = 0 THEN 1 ELSE 0
  BY SymbolOver
<1>3. k + 1 \in Nat /\ k + 1 < Word.mask /\ k + 1 \in 0 .. Word.mask - 1
  BY <1>1
<1>4. bit \in Bit
  BY <1>1, <1>3, BitFacts DEF Working
<1> HIDE DEF bit
<1>5. /\ state_sender' \in Wholes \cup Firsts /\ (state_sender' \in Wholes <=> bit = 1)
      /\ EndLevel(last_state_bit') \in Bit /\ Level(state_sender') = 1 - EndLevel(last_state_bit')
      /\ state_sender' = "s_send_s1" \/ state_sender' = "s_send_s2" <=> EndLevel(last_state_bit') = 0
  BY <1>2, <1>4, Levels
<1>6. Driving' /\ Changing' /\ state_sender' \notin Seconds
  BY <1>2, <1>5 DEF Driving, Changing, Wholes, Firsts, Seconds, Bit
<1>7. Symbol(n, k + 1)'
  <2>1. /\ state_sender' = "s_send_s2_part2" => last_state_bit' = "s_send_s2"
        /\ state_sender' = "s_send_s3_part2" => last_state_bit' = "s_send_s3"
    BY <1>6 DEF Seconds
  <2>2. Word'.data[k + 1] = IF state_sender' \in Wholes THEN 1 ELSE 0
    BY <1>1, <1>4, <1>5 DEF Bit, bit
  <2> QED
    BY <1>1, <1>2, <1>3, <1>5, <1>6, <2>1, <2>2 DEF Symbol
<1>8. CASE state_sender' \in Wholes
  <2>1. bit = 1
    BY <1>5, <1>8
  <2>2. HalfIdle' /\ full_tari_start' = 1
    BY <1>2, <2>1 DEF HalfIdle
  <2> QED
    BY <1>2, <1>6, <1>7, <1>8, <2>2 DEF Turning
<1>9. CASE state_sender' \notin Wholes
  <2>1. bit = 0
    BY <1>4, <1>5, <1>9 DEF Bit
  <2>2. half_tari_start' = 1 /\ full_tari_start' = FullAfter
    BY <1>2, <2>1
  <2>3. Beside'
    <3>1. CASE FullAfter = 0
      BY <1>2, <2>2, <3>1 DEF Beside
    <3>2. CASE FullAfter # 0
      <4>1. FullAfter = 1 /\ EndLevel(last_state_bit') = 1
        BY <1>2, <3>2
      <4>2. PICK late \in 0 .. 1 : i2' = i' + late
        BY <1>2, <3>2
      <4>3. state_sender' = "s_send_s3"
        BY <1>5, <1>9, <4>1 DEF Wholes, Firsts
      <4>4. PICK a \in 0 .. 1 : i' = a
        BY <1>2
      <4>5. Age' = a + 0
        BY <1>2, <1>6, <4>4 DEF Age
      <4>6. i2' = a + late /\ full_tari_end' = 0
        BY <1>2, <4>2, <4>4
      <4>7. FullNext(a + late)
        BY <4>6, Clocks DEF FullNext
      <4>8. Age' = a
        BY <4>5
      <4>9. FullAt(Age + late)'
        BY <4>7, <4>8, Zenon DEF FullAt, FullNext
      <4> QED
        BY <2>2, <4>1, <4>3, <4>9 DEF Beside
    <3> QED
      BY <3>1, <3>2
  <2> QED
    BY <1>2, <1>6, <1>7, <1>9, <2>2, <2>3 DEF Turning
<1> QED
  BY <1>6, <1>8, <1>9

\* ... or it was the last one.
LEMMA LastSymbol ==
  ASSUME KeepsTime, NoResetInCommand, Working, NEW n, NEW k, Showing(n, k), TimeIsOver,
         state_sender \notin Firsts, k + 1 >= Word.mask
  PROVE  Closing(n)' /\ k + 1 = Word.mask
<1>1. /\ Sends(n)' /\ Word' = Word /\ Enc("c_wait_send", 0, 0)' /\ data_sender_end' = 0
      /\ k \in Nat /\ Word.mask \in Nat /\ k < Word.mask
  BY SymbolNext DEF Showing
<1>2. k + 1 = Word.mask
  BY <1>1
<1>3. /\ index_bit' = k + 1
      /\ last_state_bit' \in Symbols /\ encoder_out' = EndLevel(last_state_bit')
      /\ i' \in 0 .. 1 /\ half_tari_end' = 0 /\ i2' \in 0 .. 3 /\ full_tari_end' = 0
      /\ FullAfter = 0 \/ (FullAfter = 1 /\ i2' \in 1 .. 2)
      /\ state_sender' = "s_end" /\ half_tari_start' = 0 /\ full_tari_start' = FullAfter
  BY SymbolOver
<1> QED
  BY <1>1, <1>2, <1>3 DEF Closing, LineRests, HalfIdle

\* The package ends, ...
LEMMA ClosingStep ==
  ASSUME KeepsTime, NoResetInCommand, Working, NEW n, Closing(n)
  PROVE  Telling(n)' /\ Still' /\ command' = command /\ P' = P /\ encoder_out' = encoder_out
<1>1. Sends(n) /\ Enc("c_wait_send", 0, 0) /\ data_sender_end = 0 /\ state_sender = "s_end" /\ LineRests /\ Next
  BY DEF Closing, Working
<1>2. stage # "reset" /\ start_encoder = 1 /\ request_new_data = 0
  BY <1>1 DEF Enc, Sends, Holds, On
<1>3. encoder_ended' = encoder_ended /\ Enc("c_wait_send", 0, 0)'
  BY <1>1, <1>2, InWaitSend DEF Enc
<1>4. Sends(n)' /\ Still' /\ command' = command /\ P' = P
  BY <1>1, <1>2, <1>3, SendsNext
<1>5. /\ half_tari_start' = 0 /\ full_tari_start' = 0 /\ state_sender' = "s_wait" /\ data_sender_end' = 1
      /\ UNCHANGED <<encoder_out, last_state_bit>>
  BY <1>1, <1>2, InSenderEnd
<1>6. TimersRest'
  <2>1. HalfIdle /\ full_tari_end = 0 /\ ((full_tari_start = 0 /\ i2 \in 0 .. 3) \/ (full_tari_start = 1 /\ i2 \in 1 .. 2))
    BY DEF Closing
  <2>2. i \in 0 .. 1022 /\ i2 \in 0 .. 1022 /\ half_tari_start = 0 /\ i \in 0 .. 1 /\ timing = setting
    BY <2>1 DEF HalfIdle, Working
  <2>3. T \in Nat /\ 10 <= T
    BY Clocks
  <2>4. i' = i /\ half_tari_end' = 0
    BY <1>1, <1>2, <2>2, TimersRun
  <2>5. CASE full_tari_start = 0
    BY <1>1, <1>2, <1>5, <2>1, <2>2, <2>4, <2>5, TimersRun DEF TimersRest
  <2>6. CASE full_tari_start = 1
    <3>1. i2' = i2 + 1 /\ full_tari_end' = 0 /\ i2 \in 1 .. 2
      BY <1>1, <1>2, <2>1, <2>2, <2>3, <2>6, TimersRun
    <3> QED
      BY <1>5, <2>2, <2>4, <3>1 DEF TimersRest
  <2> QED
    BY <2>1, <2>5, <2>6
<1>7. Waits'
  BY <1>1, <1>5, <1>6 DEF Waits, LineRests
<1> QED
  BY <1>3, <1>4, <1>5, <1>7 DEF Telling

\* ... the controller hears of it, ...
LEMMA TellingStep ==
  ASSUME KeepsTime, NoResetInCommand, Working, NEW n, Telling(n)
  PROVE  Asking(n)' /\ Still' /\ command' = command /\ P' = P /\ encoder_out' = encoder_out
<1>1. Sends(n) /\ Enc("c_wait_send", 0, 0) /\ data_sender_end = 1 /\ Waits /\ Next
  BY DEF Telling, Working
<1>2. stage # "reset" /\ start_encoder = 1 /\ request_new_data = 0 /\ data_sender_start = 0
  BY <1>1 DEF Enc, Sends, Holds, On
<1>3. encoder_ended' = encoder_ended /\ Enc("c_request", 0, 0)'
  BY <1>1, <1>2, InWaitSend DEF Enc
<1>4. Sends(n)' /\ Still' /\ command' = command /\ P' = P /\ tx_fifo # <<>> /\ Word # Void
  BY <1>1, <1>2, <1>3, SendsNext
<1>5. Waits' /\ encoder_out' = encoder_out /\ data_sender_end' = 0
  BY <1>1, <1>2, <1>4, WaitsNext
<1> QED
  BY <1>3, <1>4, <1>5 DEF Asking

\* ... asks for the next package, ...
LEMMA AskingStep ==
  ASSUME KeepsTime, NoResetInCommand, Working, NEW n, Asking(n)
  PROVE  Popping(n)' /\ Still' /\ command' = command /\ P' = P /\ encoder_out' = encoder_out
<1>1. Sends(n) /\ Enc("c_request", 0, 0) /\ Waits /\ data_sender_end = 0 /\ Next
  BY DEF Asking, Working
<1>2. stage # "reset" /\ start_encoder = 1 /\ request_new_data = 0 /\ data_sender_start = 0
  BY <1>1 DEF Enc, Sends, Holds, On
<1>3. encoder_ended' = encoder_ended /\ Enc("c_wait_request", 0, 1)'
  BY <1>1, <1>2, InRequest DEF Enc
<1>4. Sends(n)' /\ Still' /\ command' = command /\ P' = P /\ tx_fifo # <<>> /\ Word # Void
  BY <1>1, <1>2, <1>3, SendsNext
<1>5. Waits' /\ encoder_out' = encoder_out /\ data_sender_end' = 0
  BY <1>1, <1>2, <1>4, WaitsNext
<1> QED
  BY <1>3, <1>4, <1>5 DEF Popping

\* ... and goes on with it, or sees that it is void.
LEMMA PoppingStep ==
  ASSUME KeepsTime, NoResetInCommand, Working, NEW n, Popping(n)
  PROVE  /\ n + 2 < Len(P) => Starting(n + 1)'
         /\ n + 2 = Len(P) => SeesVoid'
         /\ n + 2 < Len(P) \/ n + 2 = Len(P)
         /\ Still' /\ command' = command /\ P' = P /\ encoder_out' = encoder_out
<1>1. /\ Sends(n) /\ Holds(n) /\ On /\ n < Len(P) - 1 /\ encoder_ended = 0
      /\ Enc("c_wait_request", 0, 1) /\ Waits /\ data_sender_end = 0 /\ Next /\ Still
  BY DEF Popping, Working, Sends, Holds
<1>2. stage = "wait" /\ start_encoder = 1 /\ request_new_data = 1 /\ data_sender_start = 0
  BY <1>1 DEF Enc, On
<1>3. /\ n \in Nat /\ n \in 0 .. Len(P) - 2 /\ Len(P) \in Nat /\ tx_fifo # <<>> /\ Word # Void
      /\ Tail(tx_fifo) = SubSeq(P, n + 2, Len(P))
  <2>1. n \in 0 .. Len(P) - 2 /\ Len(P) \in Nat
    BY <1>1, MaskFacts DEF Working
  <2>2. Tail(tx_fifo) = SubSeq(P, n + 2, Len(P)) /\ tx_fifo # <<>> /\ Word # Void
    BY <1>1, HoldsFacts DEF Working
  <2> QED
    BY <2>1, <2>2
<1>4. On' /\ P' = P /\ command' = command /\ Still' /\ mux' = 1
  BY <1>1, OnStays DEF Bit
<1>5. encoder_ended' = 0 /\ Enc("c_start_send", 0, 0)'
  BY <1>1, <1>2, <1>3, InWaitRequest
<1>6. Waits' /\ encoder_out' = encoder_out /\ data_sender_end' = 0
  BY <1>1, <1>2, <1>3, WaitsNext
<1>7. tx_fifo' = SubSeq(P, (n + 1) + 1, Len(P))
  <2>1. tx_fifo' = Tail(tx_fifo)
    BY <1>1, <1>2, <1>3, FifoPops
  <2>2. (n + 1) + 1 = n + 2
    BY <1>3
  <2> QED
    BY <1>3, <2>1, <2>2
<1> HIDE DEF P
<1>8. n + 1 \in 0 .. Len(P) - 1 /\ (n + 2 < Len(P) => n + 1 < Len(P) - 1)
      /\ (n + 2 = Len(P) => n + 1 = Len(P) - 1) /\ (n + 2 < Len(P) \/ n + 2 = Len(P))
  BY <1>3
<1>9. Holds(n + 1)'
  BY <1>4, <1>5, <1>7, <1>8 DEF Holds
<1>10. n + 2 < Len(P) => Starting(n + 1)'
  BY <1>4, <1>5, <1>6, <1>8, <1>9 DEF Starting, Sends
<1>11. n + 2 = Len(P) => SeesVoid'
  <2> SUFFICES ASSUME n + 2 = Len(P) PROVE SeesVoid'
    OBVIOUS
  <2>1. Len(P)' - 1 = n + 1
    BY <1>3, <1>4, <1>8
  <2>2. Holds(Len(P) - 1)'
    BY <1>9, <2>1
  <2> QED
    BY <1>4, <1>5, <1>6, <2>2 DEF SeesVoid, AtVoid
<1> QED
  BY <1>4, <1>6, <1>8, <1>10, <1>11

\* With the void package, the line falls.
LEMMA AtVoidNext ==
  ASSUME KeepsTime, NoResetInCommand, Working, AtVoid
  PROVE  /\ stage = "wait" /\ start_encoder = 1 /\ encoder_ended = 0 /\ tx_fifo # <<>> /\ Word = Void
         /\ On' /\ Still' /\ command' = command /\ P' = P /\ mux' = 1
         /\ Waits' /\ encoder_out' = 0 /\ data_sender_end' = 1
         /\ request_new_data = 0 /\ encoder_ended' = encoder_ended => AtVoid'
         /\ request_new_data = 1 => tx_fifo' = <<>>
<1>1. Holds(Len(P) - 1) /\ On /\ encoder_ended = 0 /\ Waits /\ Next /\ Still /\ command \in Commands
  BY DEF AtVoid, Holds, Working
<1>2. stage = "wait" /\ start_encoder = 1
  BY <1>1 DEF On
<1>3. tx_fifo # <<>> /\ Word = Void /\ Tail(tx_fifo) = <<>>
  <2>1. Len(P) - 1 = Len(P) - 1
    OBVIOUS
  <2> QED
    BY <1>1, HoldsFacts
<1>4. On' /\ P' = P /\ command' = command /\ Still' /\ mux' = 1
  BY <1>1, OnStays DEF Bit
<1>5. /\ encoder_out' = 0 /\ last_state_bit' = "s_send_s2" /\ data_sender_end' = 1
      /\ UNCHANGED <<state_sender, half_tari_start, full_tari_start>>
  BY <1>1, <1>2, <1>3, InSenderWaitVoid DEF Waits
<1>6. TimersRest'
  BY <1>1, <1>2, <1>5, TimersRestNext DEF Waits, TimersRest
<1>7. Waits'
  BY <1>1, <1>5, <1>6 DEF Waits, LineRests, EndLevel, Symbols, Firsts
<1>8. request_new_data = 0 /\ encoder_ended' = encoder_ended => AtVoid'
  BY <1>1, <1>2, <1>4, <1>7, FifoPops DEF AtVoid, Holds
<1>9. request_new_data = 1 => tx_fifo' = <<>>
  BY <1>1, <1>2, <1>3, FifoPops
<1> QED
  BY <1>1, <1>2, <1>3, <1>4, <1>5, <1>7, <1>8, <1>9

LEMMA SeesVoidStep ==
  ASSUME KeepsTime, NoResetInCommand, Working, SeesVoid
  PROVE  Falling' /\ Still' /\ command' = command /\ P' = P /\ encoder_out' = 0
<1>1. AtVoid /\ Enc("c_start_send", 0, 0) /\ Next
  BY DEF SeesVoid, Working
<1>2. stage # "reset" /\ start_encoder = 1 /\ request_new_data = 0
  BY <1>1, AtVoidNext DEF Enc
<1>3. encoder_ended' = encoder_ended /\ Enc("c_wait_send", 1, 0)'
  BY <1>1, <1>2, InStartSend
<1> QED
  BY <1>1, <1>2, <1>3, AtVoidNext DEF Falling

LEMMA FallingStep ==
  ASSUME KeepsTime, NoResetInCommand, Working, Falling
  PROVE  AskingVoid' /\ Still' /\ command' = command /\ P' = P /\ encoder_out' = 0
<1>1. AtVoid /\ Enc("c_wait_send", 1, 0) /\ data_sender_end = 1 /\ Next
  BY DEF Falling, Working
<1>2. stage # "reset" /\ start_encoder = 1 /\ request_new_data = 0
  BY <1>1, AtVoidNext DEF Enc
<1>3. encoder_ended' = encoder_ended /\ Enc("c_request", 0, 0)'
  BY <1>1, <1>2, InWaitSend DEF Enc
<1> QED
  BY <1>1, <1>2, <1>3, AtVoidNext DEF AskingVoid

LEMMA AskingVoidStep ==
  ASSUME KeepsTime, NoResetInCommand, Working, AskingVoid
  PROVE  PoppingVoid' /\ Still' /\ command' = command /\ P' = P /\ encoder_out' = 0
<1>1. AtVoid /\ Enc("c_request", 0, 0) /\ data_sender_end = 1 /\ Next
  BY DEF AskingVoid, Working
<1>2. stage # "reset" /\ start_encoder = 1 /\ request_new_data = 0
  BY <1>1, AtVoidNext DEF Enc
<1>3. encoder_ended' = encoder_ended /\ Enc("c_wait_request", 0, 1)'
  BY <1>1, <1>2, InRequest DEF Enc
<1> QED
  BY <1>1, <1>2, <1>3, AtVoidNext DEF PoppingVoid

\* The void package leaves the FIFO, the time passes, and the command counts as sent.
LEMMA PoppingVoidStep ==
  ASSUME KeepsTime, NoResetInCommand, Working, PoppingVoid
  PROVE  Resting' /\ Still' /\ command' = command /\ P' = P /\ encoder_out' = 0
<1>1. AtVoid /\ Enc("c_wait_request", 0, 1) /\ data_sender_end = 1 /\ Next
  BY DEF PoppingVoid, Working
<1>2. stage # "reset" /\ start_encoder = 1 /\ request_new_data = 1 /\ tx_fifo # <<>> /\ Word = Void
      /\ encoder_ended = 0
  BY <1>1, AtVoidNext DEF Enc
<1>3. encoder_ended' = encoder_ended /\ Enc("c_wait_tari_CS", 0, 0)'
  BY <1>1, <1>2, InWaitRequest
<1> QED
  BY <1>1, <1>2, <1>3, AtVoidNext DEF Resting, Over

-----------------------------------------------------------------------------
(* The receiver of the link is the receiver that hears a tag.              *)

LEMMA ReceiverTick ==
  ASSUME Next, timing = setting, stage \notin {"accept", "reset"}, tx!q = encoder_out
  PROVE  TL!rx!Tick
<1>1. resetting = 0 /\ ~(0 > TL!Pause) /\ timing = setting /\ tx!q = encoder_out
  BY DEF resetting, TL!Pause
<1>2. TL!rx!decoder!Controller
  BY <1>1, Ticks
     DEF rx!decoder!Controller, rx!decoder!ControllerReset, rx!decoder!ControllerFirstEdge,
         rx!decoder!ControllerDecode, rx!decoder!ControllerHold, rx!decoder!controller_vars,
         TL!rx!decoder!Controller, TL!rx!decoder!ControllerReset, TL!rx!decoder!ControllerFirstEdge,
         TL!rx!decoder!ControllerDecode, TL!rx!decoder!ControllerHold, TL!rx!decoder!controller_vars
<1>3. TL!rx!decoder!Counter
  BY <1>1, Ticks DEF rx!decoder!Counter, TL!rx!decoder!Counter
<1>4. TL!rx!PulseGenerator
  BY <1>1, Ticks DEF rx!PulseGenerator, TL!rx!PulseGenerator
<1>5. TL!rx!pack_const!Tick
  BY <1>1, Ticks
     DEF rx!pack_const!Tick, rx!pack_const!Reset, rx!pack_const!In, rx!pack_const!Goto,
         rx!pack_const!WaitBit, rx!pack_const!WaitEop, rx!pack_const!WaitIdle, rx!pack_const!WaitClearFlags,
         rx!pack_const!NewBit, rx!pack_const!IncMask, rx!pack_const!MaskOverflow, rx!pack_const!NoMaskOverflow,
         rx!pack_const!SendOpenPackage, rx!pack_const!SendPackage, rx!pack_const!Clear,
         rx!pack_const!EopWithBits, rx!pack_const!EopWithoutBits, rx!pack_const!NoEop,
         rx!pack_const!SendVoidPackage, rx!pack_const!Zeros, rx!pack_const!BitIndex,
         TL!rx!pack_const!Tick, TL!rx!pack_const!Reset, TL!rx!pack_const!In, TL!rx!pack_const!Goto,
         TL!rx!pack_const!WaitBit, TL!rx!pack_const!WaitEop, TL!rx!pack_const!WaitIdle,
         TL!rx!pack_const!WaitClearFlags, TL!rx!pack_const!NewBit, TL!rx!pack_const!IncMask,
         TL!rx!pack_const!MaskOverflow, TL!rx!pack_const!NoMaskOverflow, TL!rx!pack_const!SendOpenPackage,
         TL!rx!pack_const!SendPackage, TL!rx!pack_const!Clear, TL!rx!pack_const!EopWithBits,
         TL!rx!pack_const!EopWithoutBits, TL!rx!pack_const!NoEop, TL!rx!pack_const!SendVoidPackage,
         TL!rx!pack_const!Zeros, TL!rx!pack_const!BitIndex
<1>6. TL!rx!Fifo
  BY <1>1, Ticks
     DEF rx!Fifo, rx!Clocked, rx!Full, rx!Pop, rx!pack_const!data_out,
         TL!rx!Fifo, TL!rx!Clocked, TL!rx!Full, TL!rx!Pop, TL!rx!pack_const!data_out
<1>7. TL!rx!decoder!Decoder
  BY <1>1, Ticks
     DEF rx!decoder!Decoder, rx!decoder!DecoderReset, rx!decoder!DecoderHold, rx!decoder!Wait,
         rx!decoder!StartCounter, rx!decoder!PassTari, rx!decoder!FirstEdge, rx!decoder!SecondEdge,
         rx!decoder!NoEdge, rx!decoder!HalfTari, rx!decoder!WholeTari, rx!decoder!BadInterval,
         rx!decoder!Error, rx!decoder!LastBit, rx!decoder!StuckHigh, rx!decoder!CounterCS,
         rx!decoder!End, rx!decoder!In, rx!decoder!Goto, rx!decoder!decoder_vars, rx!decoder!Edge,
         rx!decoder!IsHalfTari, rx!decoder!IsTari, rx!decoder!IsCS, rx!decoder!tari_0505,
         rx!decoder!tari_0495,
         TL!rx!decoder!Decoder, TL!rx!decoder!DecoderReset, TL!rx!decoder!DecoderHold, TL!rx!decoder!Wait,
         TL!rx!decoder!StartCounter, TL!rx!decoder!PassTari, TL!rx!decoder!FirstEdge, TL!rx!decoder!SecondEdge,
         TL!rx!decoder!NoEdge, TL!rx!decoder!HalfTari, TL!rx!decoder!WholeTari, TL!rx!decoder!BadInterval,
         TL!rx!decoder!Error, TL!rx!decoder!LastBit, TL!rx!decoder!StuckHigh, TL!rx!decoder!CounterCS,
         TL!rx!decoder!End, TL!rx!decoder!In, TL!rx!decoder!Goto, TL!rx!decoder!decoder_vars, TL!rx!decoder!Edge,
         TL!rx!decoder!IsHalfTari, TL!rx!decoder!IsTari, TL!rx!decoder!IsCS, TL!rx!decoder!tari_0505,
         TL!rx!decoder!tari_0495
<1> QED
  BY <1>2, <1>3, <1>4, <1>5, <1>6, <1>7 DEF TL!rx!Tick, TL!rx!decoder!Tick

-----------------------------------------------------------------------------
(* In every place the sender does what a tag may do.                       *)

LEMMA TagHolds ==
  ASSUME Phase # "silent", Left > 1, Left' = Left - 1, Second' = Second, Unsent' = Unsent,
         Phase' = Phase, Answer' = Answer, encoder_out' = encoder_out
  PROVE  TL!Tag
BY DEF TL!Tag, TL!HoldLevel

LEMMA TagIsSilent ==
  ASSUME Phase = "silent", Left' = Left, Second' = Second, Unsent' = Unsent,
         Phase' = Phase, Answer' = Answer, encoder_out' = encoder_out
  PROVE  TL!Tag
BY DEF TL!Tag, TL!StaySilent, TL!tag_vars

LEMMA ValuesStay ==
  ASSUME KeepsTime, Working, command' = command
  PROVE  /\ Values /\ Values' /\ P' = P
         /\ \A c : From(c)' = From(c)
         /\ \A n : HandOverOf(n)' = HandOverOf(n) /\ EndOf(n)' = EndOf(n) /\ HandOverOf(n) \in {4, 6}
         /\ \A n, k : GapOf(n, k)' = GapOf(n, k)
<1>1. Values
  BY ValuesHold DEF Working
<1>2. Values'
  BY ValuesHoldNext DEF Working
<1>3. P' = P /\ \A c : From(c)' = From(c)
  BY DEF P, From
<1>4. \A n : HandOverOf(n)' = HandOverOf(n) /\ EndOf(n)' = EndOf(n) /\ HandOverOf(n) \in {4, 6}
  BY <1>3 DEF HandOverOf, EndOf
<1>5. \A n, k : GapOf(n, k)' = GapOf(n, k)
  BY <1>3, <1>4 DEF GapOf
<1> QED
  BY <1>1, <1>2, <1>3, <1>4, <1>5

LEMMA TagAwaiting ==
  ASSUME KeepsTime, NoResetInCommand, Working, Awaiting
  PROVE  TL!Tag
<1>1. Starting(0)' /\ command' = command /\ encoder_out' = encoder_out
  BY AwaitingStep
<1>2. Drives("silent", 0, 0, <<>>, <<>>) /\ Drives("silent", 0, 0, <<>>, <<>>)'
  BY <1>1, ValuesStay DEF Values
<1> QED
  BY <1>1, <1>2, TagIsSilent DEF Drives

LEMMA TagStarting ==
  ASSUME KeepsTime, NoResetInCommand, Working, NEW n, Starting(n)
  PROVE  TL!Tag
<1>1. Opening(n)' /\ command' = command /\ encoder_out' = encoder_out
  BY StartingStep
<1>2. CASE n = 0
  <2>1. Drives("silent", 0, 0, <<>>, <<>>) /\ Drives("silent", 0, 0, <<>>, <<>>)'
    BY <1>1, <1>2, ValuesStay DEF Values
  <2> QED
    BY <1>1, <2>1, TagIsSilent DEF Drives
<1>3. CASE n # 0
  <2>1. Drives("sending", 3, 0, From(Before(n)), command) /\ Drives("sending", 2, 0, From(Before(n)), command)'
    BY <1>1, <1>3, ValuesStay DEF Values
  <2>2. From(Before(n))' = From(Before(n))
    BY <1>1, ValuesStay
  <2>3. Phase = "sending" /\ Left = 3 /\ Left' = 2 /\ Second' = Second /\ Unsent' = Unsent /\ Phase' = Phase /\ Answer' = Answer
    BY <1>1, <2>1, <2>2 DEF Drives
  <2>4. Left > 1 /\ Left' = Left - 1
    BY <2>3
  <2> QED
    BY <1>1, <2>3, <2>4, TagHolds
<1> QED
  BY <1>2, <1>3

LEMMA TagOpening ==
  ASSUME KeepsTime, NoResetInCommand, Working, NEW n, Opening(n)
  PROVE  TL!Tag
<1>1. Turning(n, 0)' /\ state_sender' \notin Seconds /\ command' = command /\ encoder_out' = encoder_out
  BY OpeningStep
<1>2. CASE n = 0
  <2>1. First(n, 0)'
    BY <1>1, <1>2 DEF First
  <2>2. Drives("silent", 0, 0, <<>>, <<>>) /\ Drives("silent", 0, 0, <<>>, <<>>)'
    BY <1>1, <1>2, <2>1, ValuesStay DEF Values
  <2> QED
    BY <1>1, <2>2, TagIsSilent DEF Drives
<1>3. CASE n # 0
  <2>1. ~First(n, 0)'
    BY <1>3 DEF First
  <2>2. Before(n) + 0 = Before(n)
    <3>1. n \in 0 .. Len(P) - 2 /\ Len(P) \in Nat
      BY MaskFacts DEF Opening, Working
    <3>2. Before(n) \in Nat
      BY <3>1, Products
    <3> QED
      BY <3>2
  <2>3. /\ Drives("sending", 2, 0, From(Before(n)), command)
        /\ Drives("sending", 1, IF state_sender \in Seconds THEN H + GapOf(n, 0) ELSE 0,
                        From(Before(n) + IF state_sender \in Seconds THEN 0 + 1 ELSE 0), command)'
    BY <1>1, <1>3, <2>1, ValuesStay DEF Values
  <2>4. From(Before(n))' = From(Before(n))
    BY <1>1, ValuesStay
  <2>5. Phase = "sending" /\ Left = 2 /\ Left' = 1 /\ Second' = Second /\ Unsent' = Unsent /\ Phase' = Phase /\ Answer' = Answer
    BY <1>1, <2>2, <2>3, <2>4 DEF Drives
  <2>6. Left > 1 /\ Left' = Left - 1
    BY <2>5
  <2> QED
    BY <1>1, <2>5, <2>6, TagHolds
<1> QED
  BY <1>2, <1>3

\* What holds in a symbol, and what is left of it.
LEMMA SymbolPlace ==
  ASSUME KeepsTime, Working, NEW n, NEW k, Symbol(n, k)
  PROVE  /\ n \in Nat /\ k \in Nat /\ k < Word.mask /\ Word = P[n + 1] /\ Before(n) \in Nat /\ Word.mask \in Nat
         /\ Before(n) + k \in Nat /\ Before(n) + k < Len(command) /\ Len(command) \in Nat
         /\ Before(n) + (k + 1) = Before(n) + k + 1 /\ Before(n) + k + 1 \in Nat
         /\ command[Before(n) + k + 1] = IF state_sender \in Wholes THEN 1 ELSE 0
         /\ H \in Nat /\ T = 2 * H /\ 5 <= H
         /\ n = 0 => Before(n) = 0
<1>1. Sends(n) /\ k \in 0 .. Word.mask - 1 /\ Word.data[k] = IF state_sender \in Wholes THEN 1 ELSE 0
  BY DEF Symbol
<1>2. /\ n \in 0 .. Len(P) - 2 /\ Word = P[n + 1] /\ Len(P) \in Nat
      /\ Word.mask \in Nat /\ 0 < Word.mask
  BY <1>1, MaskFacts DEF Working
<1>3. n \in Nat /\ k \in Nat /\ k < Word.mask
  BY <1>1, <1>2
<1>4. Before(n) \in Nat /\ (n = 0 => Before(n) = 0)
  BY <1>3, Products
<1>5. Before(n) + k \in Nat /\ Before(n) + k < Len(command) /\ Word.data[k] = command[Before(n) + k + 1]
  BY <1>1, <1>3, BitFacts DEF Working
<1>6. Len(command) \in Nat
  BY CutPackages DEF Working
<1>7. Before(n) + (k + 1) = Before(n) + k + 1 /\ Before(n) + k + 1 \in Nat
  BY <1>3, <1>4
<1>8. H \in Nat /\ T = 2 * H /\ 5 <= H
  BY Clocks
<1> QED
  BY <1>1, <1>2, <1>3, <1>4, <1>5, <1>6, <1>7, <1>8

\* The line turns at the middle of a 0, ...
LEMMA TagHalves ==
  ASSUME KeepsTime, NoResetInCommand, Working, NEW n, NEW k, Turning(n, k), state_sender \in Seconds
  PROVE  TL!Tag
<1>1. /\ Showing(n, k)' /\ P' = P /\ command' = command
      /\ state_sender' = state_sender /\ encoder_out' = 1 - encoder_out
      /\ half_tari_end' = 0 /\ i' = 2 /\ state_sender \notin Wholes /\ state_sender \notin Firsts
  BY TurningStep DEF Seconds, Wholes, Firsts
<1>2. ~First(n, k)
  BY DEF First
<1>3. Drives("sending", 1, H + GapOf(n, k), From(Before(n) + (k + 1)), command)
  BY <1>1, <1>2, ValuesStay DEF Values
<1>4. Drives("sending",
             2 + (IF state_sender \in Wholes THEN Remaining(full_tari_end, i2, T)
                                             ELSE Remaining(half_tari_end, i, H))
               + (IF state_sender \in Firsts THEN 0 ELSE GapOf(n, k)),
             IF state_sender \in Firsts THEN H + GapOf(n, k) ELSE 0,
             From(Before(n) + (k + 1)), command)'
  BY <1>1, ValuesStay DEF Values
<1>5. From(Before(n) + (k + 1))' = From(Before(n) + (k + 1)) /\ GapOf(n, k)' = GapOf(n, k)
  BY <1>1, ValuesStay
<1>6. GapOf(n, k) \in Nat /\ H \in Nat /\ 5 <= H
  BY <1>1, ValuesStay, Clocks DEF GapOf
<1>7. Remaining(half_tari_end, i, H)' = H - 2
  BY <1>1 DEF Remaining
<1>8. /\ Phase = "sending" /\ Phase' = "sending" /\ Unsent' = Unsent /\ Answer' = Answer
      /\ Left = 1 /\ Second = H + GapOf(n, k) /\ Second' = 0
      /\ Left' = 2 + (H - 2) + GapOf(n, k)
  BY <1>1, <1>3, <1>4, <1>5, <1>7 DEF Drives
<1>9. Left' = Second /\ Second > 0
  BY <1>6, <1>8
<1> QED
  BY <1>1, <1>8, <1>9 DEF TL!Tag, TL!SecondHalf

\* ... and at the start of a symbol, which is as long as a tag that keeps time may make it.
LEMMA TagSymbol ==
  ASSUME KeepsTime, NoResetInCommand, Working, NEW n, NEW k, Turning(n, k), state_sender \notin Seconds
  PROVE  TL!SendSymbol(IF state_sender \in Wholes THEN 1 ELSE 0, TRUE)
<1>1. /\ Showing(n, k)' /\ command' = command
      /\ state_sender' = state_sender /\ encoder_out' = 1 - encoder_out
      /\ IF state_sender \in Wholes THEN full_tari_end' = 0 /\ i2' \in 1 .. 4
         ELSE half_tari_end' = 0 /\ i' \in 1 .. 2
  BY TurningStep
<1>2. /\ Symbol(n, k) /\ Driving
  BY DEF Turning, Symbol
<1>3. H \in Nat /\ T = 2 * H /\ 5 <= H
  BY Clocks
<1>4. Drives("sending",
             2 + (IF state_sender \in Wholes THEN Remaining(full_tari_end, i2, T)
                                             ELSE Remaining(half_tari_end, i, H))
               + (IF state_sender \in Firsts THEN 0 ELSE GapOf(n, k)),
             IF state_sender \in Firsts THEN H + GapOf(n, k) ELSE 0,
             From(Before(n) + (k + 1)), command)'
  BY <1>1, ValuesStay DEF Values
<1>5. GapOf(n, k)' = GapOf(n, k) /\ GapOf(n, k) \in {0, 4, 6}
  BY <1>1, ValuesStay DEF GapOf
<1>6. CASE state_sender \in Wholes
  <2>1. state_sender \notin Firsts
    BY <1>6 DEF Wholes, Firsts
  <2>2. Remaining(full_tari_end, i2, T)' = T - i2'
    BY <1>1, <1>6 DEF Remaining
  <2>3. Left' = 2 + (T - i2') + GapOf(n, k) /\ Second' = 0
    BY <1>1, <1>4, <1>5, <1>6, <2>1, <2>2 DEF Drives
  <2>4. PICK c \in 1 .. 4 : i2' = c
    BY <1>1, <1>6
  <2>5. Left' \in T - 2 .. T + 7
    BY <1>3, <1>5, <2>3, <2>4
  <2>6. H \in H .. H + 1
    BY <1>3
  <2> QED
    BY <1>1, <1>6, <2>3, <2>5, <2>6 DEF TL!SendSymbol, TL!SymbolOf
<1>7. CASE state_sender \notin Wholes
  <2>1. state_sender \in Firsts
    BY <1>2, <1>7 DEF Driving
  <2>2. Remaining(half_tari_end, i, H)' = H - i'
    BY <1>1, <1>7 DEF Remaining
  <2>3. Left' = 2 + (H - i') + 0 /\ Second' = H + GapOf(n, k)
    BY <1>1, <1>4, <1>5, <1>7, <2>1, <2>2 DEF Drives
  <2>4. PICK c \in 1 .. 2 : i' = c
    BY <1>1, <1>7
  <2> DEFINE half == 2 + (H - c)
             whole == half + H + GapOf(n, k)
  <2>5. half \in H .. H + 1 /\ whole \in T - 2 .. T + 7 /\ whole - half = H + GapOf(n, k) /\ Left' = half
    BY <1>3, <1>5, <2>3, <2>4
  <2> HIDE DEF half, whole
  <2>6. Second' = whole - half
    BY <2>3, <2>5
  <2> QED
    BY <1>1, <1>7, <2>5, <2>6 DEF TL!SendSymbol, TL!SymbolOf
<1> QED
  BY <1>6, <1>7

LEMMA TagTurning ==
  ASSUME KeepsTime, NoResetInCommand, Working, NEW n, NEW k, Turning(n, k), state_sender \notin Seconds
  PROVE  TL!Tag
<1>1. /\ Showing(n, k)' /\ command' = command /\ state_sender' = state_sender
  BY TurningStep
<1>2. TL!SendSymbol(IF state_sender \in Wholes THEN 1 ELSE 0, TRUE)
  BY TagSymbol
<1>3. /\ n \in Nat /\ k \in Nat /\ Before(n) \in Nat
      /\ Before(n) + k \in Nat /\ Before(n) + k < Len(command)
      /\ Before(n) + (k + 1) = Before(n) + k + 1 /\ Before(n) + k + 1 \in Nat
      /\ command[Before(n) + k + 1] = IF state_sender \in Wholes THEN 1 ELSE 0
      /\ n = 0 => Before(n) = 0
  BY SymbolPlace DEF Turning
<1>4. /\ From(Before(n) + k) # <<>> /\ Head(From(Before(n) + k)) = command[Before(n) + k + 1]
      /\ Tail(From(Before(n) + k)) = From(Before(n) + k + 1) /\ From(0) = command
  BY <1>3, FromFacts DEF Working
<1>5. Phase' = "sending" /\ Unsent' = From(Before(n) + k + 1) /\ Answer' = command
  <2>1. From(Before(n) + (k + 1))' = From(Before(n) + (k + 1))
    BY <1>1, ValuesStay
  <2>2. Phase' = "sending" /\ Unsent' = From(Before(n) + (k + 1))' /\ Answer' = command'
    BY <1>1, ValuesStay DEF Values, Drives
  <2> QED
    BY <1>1, <1>3, <2>1, <2>2
<1>6. CASE First(n, k)
  <2>1. Drives("silent", 0, 0, <<>>, <<>>)
    BY <1>1, <1>6, ValuesStay DEF Values
  <2>2. Before(n) + k = 0
    BY <1>3, <1>6 DEF First
  <2>3. Unsent' = Tail(Answer') /\ Head(Answer') = IF state_sender \in Wholes THEN 1 ELSE 0
    BY <1>3, <1>4, <1>5, <2>2
  <2> QED
    BY <1>2, <1>5, <2>1, <2>3 DEF Working, Drives, TL!Tag, TL!BeginAnswer
<1>7. CASE ~First(n, k)
  <2>1. Drives("sending", 1, 0, From(Before(n) + k), command)
    BY <1>1, <1>7, ValuesStay DEF Values
  <2> QED
    BY <1>1, <1>2, <1>3, <1>4, <1>5, <2>1 DEF Drives, TL!Tag, TL!NextSymbol
<1> QED
  BY <1>6, <1>7

\* The tag's state in a symbol that the line shows.
ShownLeft(n, k) ==
  2 + (IF state_sender \in Wholes THEN Remaining(full_tari_end, i2, T) ELSE Remaining(half_tari_end, i, H))
    + (IF state_sender \in Firsts THEN 0 ELSE GapOf(n, k))

LEMMA ShownValues ==
  ASSUME KeepsTime, Working, command' = command, NEW n, NEW k
  PROVE  /\ Showing(n, k) => Drives("sending", ShownLeft(n, k), IF state_sender \in Firsts THEN H + GapOf(n, k) ELSE 0,
                                   From(Before(n) + (k + 1)), command)
         /\ Showing(n, k)' => Drives("sending", ShownLeft(n, k), IF state_sender \in Firsts THEN H + GapOf(n, k) ELSE 0,
                                   From(Before(n) + (k + 1)), command)'
BY ValuesStay DEF Values, ShownLeft

LEMMA TagShowing ==
  ASSUME KeepsTime, NoResetInCommand, Working, NEW n, NEW k, Showing(n, k)
  PROVE  TL!Tag
<1>1. /\ Symbol(n, k) /\ Driving /\ Still' /\ P' = P /\ command' = command
      /\ k \in Nat /\ Word.mask \in Nat /\ k < Word.mask
  BY SymbolNext DEF Showing
<1>2. Word = P[n + 1] /\ Before(n) + (k + 1) = Before(n) + k + 1 /\ H \in Nat
  BY <1>1, SymbolPlace
<1>3. Drives("sending", ShownLeft(n, k), IF state_sender \in Firsts THEN H + GapOf(n, k) ELSE 0,
             From(Before(n) + (k + 1)), command)
  BY <1>1, ShownValues
<1>4. /\ From(Before(n) + (k + 1))' = From(Before(n) + (k + 1))
      /\ GapOf(n, k)' = GapOf(n, k) /\ GapOf(n, k) \in {0, 4, 6}
      /\ HandOverOf(n)' = HandOverOf(n) /\ HandOverOf(n) \in {4, 6} /\ EndOf(n)' = EndOf(n)
  BY <1>1, ValuesStay DEF GapOf
<1>5. CASE ~TimeIsOver
  <2>1. /\ Showing(n, k)' /\ state_sender' = state_sender /\ encoder_out' = encoder_out
        /\ IF state_sender \in Wholes
             THEN Remaining(full_tari_end, i2, T)' = Remaining(full_tari_end, i2, T) - 1
             ELSE Remaining(half_tari_end, i, H)' = Remaining(half_tari_end, i, H) - 1
        /\ IF state_sender \in Wholes THEN Remaining(full_tari_end, i2, T) \in Nat \ {0}
                                      ELSE Remaining(half_tari_end, i, H) \in Nat \ {0}
    BY <1>5, SymbolGoesOn
  <2>2. Drives("sending", ShownLeft(n, k), IF state_sender \in Firsts THEN H + GapOf(n, k) ELSE 0,
               From(Before(n) + (k + 1)), command)'
    BY <1>1, <2>1, ShownValues
  <2>3. ShownLeft(n, k)' = ShownLeft(n, k) - 1 /\ ShownLeft(n, k) > 1
    <3>1. PICK r \in Nat \ {0} :
            /\ r = IF state_sender \in Wholes THEN Remaining(full_tari_end, i2, T) ELSE Remaining(half_tari_end, i, H)
            /\ r - 1 = IF state_sender \in Wholes THEN Remaining(full_tari_end, i2, T)'
                       ELSE Remaining(half_tari_end, i, H)'
      BY <2>1
    <3>2. PICK g \in {0, 4, 6} : g = IF state_sender \in Firsts THEN 0 ELSE GapOf(n, k)
      BY <1>4
    <3>3. ShownLeft(n, k) = 2 + r + g /\ ShownLeft(n, k)' = 2 + (r - 1) + g
      BY <1>4, <2>1, <3>1, <3>2, Zenon DEF ShownLeft
    <3> QED
      BY <3>3
  <2>4. /\ Phase = "sending" /\ Phase' = Phase /\ Unsent' = Unsent /\ Second' = Second /\ Answer' = Answer
        /\ Left = ShownLeft(n, k) /\ Left' = ShownLeft(n, k)'
    BY <1>1, <1>3, <1>4, <2>1, <2>2 DEF Drives
  <2> QED
    BY <2>1, <2>3, <2>4, TagHolds
<1>6. CASE TimeIsOver /\ state_sender \in Firsts
  <2>1. Turning(n, k)' /\ state_sender' \in Seconds /\ encoder_out' = encoder_out /\ Remaining(half_tari_end, i, H) = 0
    BY <1>6, HalfOver
  <2>2. state_sender \notin Wholes /\ ~First(n, k)'
    BY <1>6, <2>1 DEF Firsts, Wholes, First
  <2>3. ShownLeft(n, k) = 2
    BY <1>6, <2>1, <2>2 DEF ShownLeft
  <2>4. Drives("sending", 1, IF state_sender \in Seconds THEN H + GapOf(n, k) ELSE 0,
               From(Before(n) + IF state_sender \in Seconds THEN k + 1 ELSE k), command)'
    BY <1>1, <2>1, <2>2, ValuesStay DEF Values
  <2>5. /\ Phase = "sending" /\ Phase' = Phase /\ Unsent' = Unsent /\ Second' = Second /\ Answer' = Answer
        /\ Left = 2 /\ Left' = 1
    BY <1>1, <1>3, <1>4, <1>6, <2>1, <2>3, <2>4 DEF Drives
  <2>6. Left > 1 /\ Left' = Left - 1
    BY <2>5
  <2> QED
    BY <2>1, <2>5, <2>6, TagHolds
<1>7. CASE TimeIsOver /\ state_sender \notin Firsts
  <2>1. /\ encoder_out' = encoder_out
        /\ IF state_sender \in Wholes THEN Remaining(full_tari_end, i2, T) = 0
                                      ELSE Remaining(half_tari_end, i, H) = 0
    BY <1>7, SymbolOver
  <2>2. ShownLeft(n, k) = 2 + GapOf(n, k)
    BY <1>4, <1>7, <2>1 DEF ShownLeft
  <2>3. CASE ~(k + 1 >= Word.mask)
    <3>1. Turning(n, k + 1)' /\ state_sender' \notin Seconds
      BY <1>7, <2>3, NextSymbol
    <3>2. ~First(n, k + 1)' /\ GapOf(n, k) = 0
      BY <1>1, <1>2, <2>3 DEF First, GapOf
    <3>3. Drives("sending", 1, IF state_sender \in Seconds THEN H + GapOf(n, k + 1) ELSE 0,
                 From(Before(n) + IF state_sender \in Seconds THEN k + 1 + 1 ELSE k + 1), command)'
      BY <1>1, <3>1, <3>2, ValuesStay DEF Values
    <3>4. /\ Phase = "sending" /\ Phase' = Phase /\ Unsent' = Unsent /\ Second' = Second /\ Answer' = Answer
          /\ Left = 2 /\ Left' = 1
      BY <1>1, <1>3, <1>4, <1>7, <2>2, <3>1, <3>2, <3>3 DEF Drives
    <3>5. Left > 1 /\ Left' = Left - 1
      BY <3>4
    <3> QED
      BY <2>1, <3>4, <3>5, TagHolds
  <2>4. CASE k + 1 >= Word.mask
    <3>1. Closing(n)' /\ k + 1 = Word.mask
      BY <1>7, <2>4, LastSymbol
    <3>2. GapOf(n, k) = HandOverOf(n) /\ EndOf(n) = Before(n) + (k + 1)
      BY <1>2, <2>4, <3>1 DEF GapOf, EndOf
    <3>3. Drives("sending", HandOverOf(n) + 1, 0, From(EndOf(n)), command)'
      BY <1>1, <3>1, ValuesStay DEF Values
    <3>4. From(EndOf(n))' = From(Before(n) + (k + 1))
      BY <1>4, <3>2
    <3>5. /\ Phase = "sending" /\ Phase' = Phase /\ Unsent' = Unsent /\ Second' = Second /\ Answer' = Answer
          /\ Left = 2 + HandOverOf(n) /\ Left' = HandOverOf(n) + 1
      BY <1>1, <1>3, <1>4, <1>7, <2>2, <3>2, <3>3, <3>4 DEF Drives
    <3>6. Left > 1 /\ Left' = Left - 1
      BY <1>4, <3>5
    <3> QED
      BY <2>1, <3>5, <3>6, TagHolds
  <2> QED
    BY <2>3, <2>4
<1> QED
  BY <1>5, <1>6, <1>7

\* Between packages the line stays, ...
LEMMA TagBetween ==
  ASSUME KeepsTime, NoResetInCommand, Working, NEW n, Closing(n) \/ Telling(n) \/ Asking(n)
  PROVE  TL!Tag
<1>1. /\ Closing(n) => Telling(n)'
      /\ Telling(n) => Asking(n)'
      /\ Asking(n) => Popping(n)'
      /\ command' = command /\ encoder_out' = encoder_out
  BY ClosingStep, TellingStep, AskingStep
<1>2. /\ From(EndOf(n))' = From(EndOf(n))
      /\ HandOverOf(n)' = HandOverOf(n) /\ HandOverOf(n) \in {4, 6}
  <2>1. EndOf(n)' = EndOf(n) /\ HandOverOf(n)' = HandOverOf(n) /\ HandOverOf(n) \in {4, 6}
    BY <1>1, ValuesStay
  <2>2. From(EndOf(n))' = From(EndOf(n))
    BY <1>1, <2>1 DEF From
  <2> QED
    BY <2>1, <2>2
<1>3. CASE Closing(n)
  <2>1. /\ Drives("sending", HandOverOf(n) + 1, 0, From(EndOf(n)), command)
        /\ Drives("sending", HandOverOf(n), 0, From(EndOf(n)), command)'
    BY <1>1, <1>3, ValuesStay DEF Values
  <2>2. /\ Phase = "sending" /\ Phase' = Phase /\ Unsent' = Unsent /\ Second' = Second /\ Answer' = Answer
        /\ Left = HandOverOf(n) + 1 /\ Left' = HandOverOf(n)
    BY <1>1, <1>2, <2>1 DEF Drives
  <2>3. Left > 1 /\ Left' = Left - 1
    BY <1>2, <2>2
  <2> QED
    BY <1>1, <2>2, <2>3, TagHolds
<1>4. CASE Telling(n)
  <2>1. /\ Drives("sending", HandOverOf(n), 0, From(EndOf(n)), command)
        /\ Drives("sending", HandOverOf(n) - 1, 0, From(EndOf(n)), command)'
    BY <1>1, <1>4, ValuesStay DEF Values
  <2>2. /\ Phase = "sending" /\ Phase' = Phase /\ Unsent' = Unsent /\ Second' = Second /\ Answer' = Answer
        /\ Left = HandOverOf(n) /\ Left' = HandOverOf(n) - 1
    BY <1>1, <1>2, <2>1 DEF Drives
  <2>3. Left > 1 /\ Left' = Left - 1
    BY <1>2, <2>2
  <2> QED
    BY <1>1, <2>2, <2>3, TagHolds
<1>5. CASE Asking(n)
  <2>1. /\ Drives("sending", HandOverOf(n) - 1, 0, From(EndOf(n)), command)
        /\ Drives("sending", HandOverOf(n) - 2, 0, From(EndOf(n)), command)'
    BY <1>1, <1>5, ValuesStay DEF Values
  <2>2. /\ Phase = "sending" /\ Phase' = Phase /\ Unsent' = Unsent /\ Second' = Second /\ Answer' = Answer
        /\ Left = HandOverOf(n) - 1 /\ Left' = HandOverOf(n) - 2
    BY <1>1, <1>2, <2>1 DEF Drives
  <2>3. Left > 1 /\ Left' = Left - 1
    BY <1>2, <2>2
  <2> QED
    BY <1>1, <2>2, <2>3, TagHolds
<1> QED
  BY <1>3, <1>4, <1>5

LEMMA TagPopping ==
  ASSUME KeepsTime, NoResetInCommand, Working, NEW n, Popping(n)
  PROVE  TL!Tag
<1>1. /\ n + 2 < Len(P) => Starting(n + 1)'
      /\ n + 2 = Len(P) => SeesVoid'
      /\ n + 2 < Len(P) \/ n + 2 = Len(P)
      /\ command' = command /\ P' = P /\ encoder_out' = encoder_out
  BY PoppingStep
<1>2. Drives("sending", HandOverOf(n) - 2, 0, From(EndOf(n)), command)
  BY <1>1, ValuesStay DEF Values
<1>3. n \in 0 .. Len(P) - 2 /\ n \in Nat /\ Len(P) \in Nat
  BY MaskFacts DEF Popping, Working
<1>4. Before(n + 1) = Before(n) + data_width /\ Before(n + 1) \in Nat
  BY <1>3, Products
<1>5. CASE n + 2 < Len(P)
  <2>1. n # Len(P) - 2 /\ n + 1 # 0 /\ HandOverOf(n) = 6
    BY <1>3, <1>5 DEF HandOverOf
  <2>2. EndOf(n) = Before(n + 1)
    BY <1>3, <1>4, <2>1, CutPackages DEF EndOf, Working
  <2>3. Drives("sending", 3, 0, From(Before(n + 1)), command)'
    BY <1>1, <1>5, <2>1, ValuesStay DEF Values
  <2>4. From(Before(n + 1))' = From(EndOf(n))
    BY <1>1, <2>2, ValuesStay
  <2>5. /\ Phase = "sending" /\ Phase' = Phase /\ Unsent' = Unsent /\ Second' = Second /\ Answer' = Answer
        /\ Left = 6 - 2 /\ Left' = 3
    BY <1>1, <1>2, <2>1, <2>3, <2>4 DEF Drives
  <2>6. Left > 1 /\ Left' = Left - 1
    BY <2>5
  <2> QED
    BY <1>1, <2>5, <2>6, TagHolds
<1>6. CASE n + 2 = Len(P)
  <2>1. n = Len(P) - 2 /\ HandOverOf(n) = 4 /\ n + 1 = Len(P) - 1
    BY <1>3, <1>6 DEF HandOverOf
  <2>2. /\ EndOf(n) = Len(command) /\ Len(command) \in Nat /\ Before(Len(P) - 1) >= Len(command)
        /\ Before(Len(P) - 1) \in Nat
    BY <1>3, <1>4, <2>1, CutPackages DEF EndOf, Working
  <2>3. From(EndOf(n)) = <<>> /\ From(Before(Len(P) - 1)) = <<>>
    BY <2>2, FromFacts DEF Working
  <2>4. Drives("sending", 1, 0, From(Before(Len(P) - 1)), command)'
    BY <1>1, <1>6, ValuesStay DEF Values
  <2>5. From(Before(Len(P) - 1))' = <<>>
    BY <1>1, <2>3 DEF From
  <2>6. /\ Phase = "sending" /\ Phase' = Phase /\ Unsent' = Unsent /\ Second' = Second /\ Answer' = Answer
        /\ Left = 4 - 2 /\ Left' = 1
    BY <1>1, <1>2, <2>1, <2>3, <2>4, <2>5 DEF Drives
  <2>7. Left > 1 /\ Left' = Left - 1
    BY <2>6
  <2> QED
    BY <1>1, <2>6, <2>7, TagHolds
<1> QED
  BY <1>1, <1>5, <1>6

\* ... it falls when there are no more, ...
LEMMA TagEnds ==
  ASSUME KeepsTime, NoResetInCommand, Working, SeesVoid
  PROVE  TL!Tag
<1>1. Falling' /\ command' = command /\ encoder_out' = 0
  BY SeesVoidStep
<1>2. /\ Drives("sending", 1, 0, From(Before(Len(P) - 1)), command)
      /\ Drives("resting", 1, 0, <<>>, command)'
  BY <1>1, ValuesStay DEF Values
<1>3. From(Before(Len(P) - 1)) = <<>>
  <2>1. Len(P) - 1 \in Nat /\ Before(Len(P) - 1) >= Len(command)
    BY CutPackages DEF Working
  <2>2. Before(Len(P) - 1) \in Nat
    BY <2>1, Products
  <2> QED
    BY <2>1, <2>2, FromFacts DEF Working
<1> QED
  BY <1>1, <1>2, <1>3 DEF Drives, TL!Tag, TL!Rest

\* ... and stays low from then on.
LEMMA TagFallsSilent ==
  ASSUME KeepsTime, NoResetInCommand, Working, Falling
  PROVE  TL!Tag
<1>1. AskingVoid' /\ command' = command /\ encoder_out' = 0 /\ encoder_out = 0
  BY FallingStep DEF Falling
<1>2. /\ Drives("resting", 1, 0, <<>>, command)
      /\ Drives("silent", 0, 0, <<>>, command)'
  BY <1>1, ValuesStay DEF Values
<1> QED
  BY <1>1, <1>2 DEF Drives, TL!Tag, TL!FallSilent

LEMMA TagAtVoid ==
  ASSUME KeepsTime, NoResetInCommand, Working, AskingVoid \/ PoppingVoid
  PROVE  TL!Tag
<1>1. /\ AskingVoid => PoppingVoid'
      /\ PoppingVoid => Resting'
      /\ command' = command /\ encoder_out' = 0 /\ encoder_out = 0
  BY AskingVoidStep, PoppingVoidStep DEF AskingVoid, PoppingVoid
<1>2. /\ Drives("silent", 0, 0, <<>>, command)
      /\ Drives("silent", 0, 0, <<>>, command)'
  BY <1>1, ValuesStay DEF Values
<1> QED
  BY <1>1, <1>2, TagIsSilent DEF Drives

-----------------------------------------------------------------------------
(* Before and after a command.                                             *)

\* The encoder waits two Tari, ...
LEMMA RestingStep ==
  ASSUME KeepsTime, NoResetInCommand, Working, Resting
  PROVE  (Resting' \/ Reporting') /\ Still' /\ command' = command
<1>1. /\ On /\ tx_fifo = <<>> /\ Waits /\ encoder_out = 0 /\ Enc("c_wait_tari_CS", 0, 0)
      /\ encoder_ended = 0 /\ Next /\ Still
  BY DEF Resting, Over, Working
<1>2. stage = "wait" /\ start_encoder = 1 /\ request_new_data = 0 /\ data_sender_start = 0
  BY <1>1 DEF On, Enc
<1>3. On' /\ Still' /\ command' = command
  BY <1>1, OnStays DEF Bit
<1>4. (encoder_ended' = 0 /\ Enc("c_wait_tari_CS", 0, 0)') \/ (encoder_ended' = 1 /\ Enc("c_wait", 0, 0)')
  BY <1>1, <1>2, InWaitTariCS
<1>5. tx_fifo' = <<>>
  BY <1>1, <1>2, FifoPops
<1>6. /\ state_sender' = "s_wait" /\ LineRests' /\ encoder_out' = 0
      /\ half_tari_start' = 0 /\ full_tari_start' = 0
  BY <1>1, <1>2, DataSenderRests DEF Waits, TimersRest
<1>7. TimersRest'
  BY <1>1, <1>2, <1>6, TimersRestNext DEF Waits
<1> QED
  BY <1>3, <1>4, <1>5, <1>6, <1>7 DEF Resting, Reporting, Over, Waits

\* ... and the controller reports the command as sent.
LEMMA ReportingStep ==
  ASSUME KeepsTime, NoResetInCommand, Working, Reporting
  PROVE  Off' /\ Still' /\ command' = command
<1>1. /\ On /\ tx_fifo = <<>> /\ Waits /\ encoder_out = 0 /\ Enc("c_wait", 0, 0)
      /\ encoder_ended = 1 /\ Next /\ Still
  BY DEF Reporting, Over, Working
<1>2. stage = "wait" /\ start_encoder = 1 /\ request_new_data = 0 /\ data_sender_start = 0
  BY <1>1 DEF On, Enc
<1>3. /\ stage' = "wait" /\ Still' /\ command' = command
      /\ sc_state' = "c_wait" /\ start_encoder' = 0 /\ finished_sending' = 1
  BY <1>1, OnStays DEF Bit
<1>4. encoder_ended' = 0 /\ Enc("c_wait", 0, 0)'
  BY <1>1, <1>2, InEncoderWait
<1>5. tx_fifo' = <<>>
  BY <1>1, <1>2, FifoPops
<1>6. /\ state_sender' = "s_wait" /\ LineRests' /\ encoder_out' = 0
      /\ half_tari_start' = 0 /\ full_tari_start' = 0
  BY <1>1, <1>2, DataSenderRests DEF Waits, TimersRest
<1>7. TimersRest'
  BY <1>1, <1>2, <1>6, TimersRestNext DEF Waits
<1> QED
  BY <1>3, <1>4, <1>5, <1>6, <1>7 DEF Off, Enc

LEMMA TagAfter ==
  ASSUME KeepsTime, NoResetInCommand, Working, Resting \/ Reporting
  PROVE  TL!Tag
<1>1. /\ Resting' \/ Reporting' \/ (Off' /\ stage' = "wait")
      /\ command' = command /\ encoder_out = 0 /\ encoder_out' = 0
  <2>1. CASE Resting
    BY <2>1, RestingStep DEF Resting, Reporting, Over
  <2>2. CASE Reporting
    <3>1. On /\ encoder_ended = 1 /\ Next /\ Still /\ encoder_out = 0
      BY <2>2 DEF Reporting, Over, Working
    <3>2. stage' = "wait"
      BY <3>1, OnStays DEF Bit
    <3> QED
      BY <2>2, <3>1, <3>2, ReportingStep DEF Off
  <2> QED
    BY <2>1, <2>2
<1>2. Values /\ Values'
  BY <1>1, ValuesStay
<1>3. /\ Drives("silent", 0, 0, <<>>, command)
      /\ Drives("silent", 0, 0, <<>>, command)'
  BY <1>1, <1>2 DEF Values
<1> QED
  BY <1>1, <1>3, TagIsSilent DEF Drives

LEMMA ScriptFacts ==
  KeepsTime /\ command \in Commands =>
    /\ IsSeq(P) /\ P # <<>> /\ Len(P) \in Nat /\ Len(P) > 0 /\ SubSeq(P, 1, Len(P)) = P /\ Len(P) <= depth
    /\ IsSeq(<<>>) /\ <<>> \o P = P
<1> SUFFICES ASSUME KeepsTime, command \in Commands
             PROVE  /\ IsSeq(P) /\ P # <<>> /\ Len(P) \in Nat /\ Len(P) > 0
                    /\ SubSeq(P, 1, Len(P)) = P /\ Len(P) <= depth
                    /\ IsSeq(<<>>) /\ <<>> \o P = P
  OBVIOUS
<1>1. IsSeq(P) /\ Len(P) \in Nat /\ Len(P) > 0 /\ Len(P) <= depth
  BY CutPackages
<1>2. PICK S : P \in Seq(S)
  BY <1>1 DEF IsSeq
<1> HIDE DEF P
<1>3. P # <<>>
  BY <1>1, <1>2
<1>4. <<>> \o P = P /\ IsSeq(<<>>)
  <2>1. <<>> \o P = P
    BY <1>2
  <2>2. <<>> \in Seq({})
    OBVIOUS
  <2> QED
    BY <2>1, <2>2 DEF IsSeq
<1>5. SubSeq(P, 1, Len(P)) = P
  <2>1. \A x \in 1 .. Len(P) : P[x] \in S
    BY <1>2
  <2>2. /\ SubSeq(P, 1, Len(P)) \in Seq(S) /\ Len(SubSeq(P, 1, Len(P))) = Len(P)
        /\ \A x \in 1 .. Len(P) : SubSeq(P, 1, Len(P))[x] = P[x]
    BY <1>1, <1>2, <2>1, SubSeqProperties
  <2> QED
    BY <1>1, <1>2, <2>2
<1> QED
  BY <1>1, <1>3, <1>4, <1>5

LEMMA ScriptFactsNext ==
  (KeepsTime /\ command \in Commands =>
    /\ IsSeq(P) /\ P # <<>> /\ Len(P) \in Nat /\ Len(P) > 0 /\ SubSeq(P, 1, Len(P)) = P /\ Len(P) <= depth
    /\ IsSeq(<<>>) /\ <<>> \o P = P)'
BY ScriptFacts, PTL

\* The oldest word of the script goes to the end of the FIFO.
LEMMA WordMoves ==
  ASSUME NEW f, NEW s, IsSeq(f), IsSeq(s), s # <<>>
  PROVE  LET f2 == Append(f, Head(s))
         IN /\ IsSeq(f2) /\ IsSeq(Tail(s)) /\ f2 \o Tail(s) = f \o s
            /\ Tail(s) = <<>> => f2 = f \o s
            /\ Len(f) < Len(f \o s) /\ Len(f) \in Nat /\ Len(f \o s) \in Nat
<1>1. PICK A, B : f \in Seq(A) /\ s \in Seq(B)
  BY DEF IsSeq
<1> DEFINE AB == A \cup B
           f2 == Append(f, Head(s))
<1>2. f \in Seq(AB) /\ s \in Seq(AB) /\ Head(s) \in AB /\ Tail(s) \in Seq(AB)
  <2>1. f \in Seq(AB) /\ s \in Seq(AB)
    BY <1>1
  <2> HIDE DEF AB
  <2> QED
    BY <2>1
<1> HIDE DEF AB
<1>3. f2 \in Seq(AB) /\ Len(f2) = Len(f) + 1
  BY <1>2
<1>4. f2 \o Tail(s) = f \o s
  <2> DEFINE u == f2 \o Tail(s)
             v == f \o s
             t == Tail(s)
  <2>1. u \in Seq(AB) /\ v \in Seq(AB) /\ Len(u) = Len(f2) + Len(t) /\ Len(v) = Len(f) + Len(s)
    BY <1>2, <1>3
  <2>2. Len(t) = Len(s) - 1 /\ Len(s) \in Nat /\ Len(s) > 0 /\ Len(f) \in Nat
    BY <1>2
  <2>3. Len(u) = Len(v)
    BY <1>3, <2>1, <2>2
  <2>4. ASSUME NEW x \in 1 .. Len(v) PROVE u[x] = v[x]
    <3>1. CASE x <= Len(f)
      <4>1. v[x] = f[x]
        BY <1>2, <2>1, <2>2, <3>1
      <4>2. u[x] = f2[x]
        BY <1>2, <1>3, <2>1, <2>2, <3>1
      <4>3. f2[x] = f[x]
        BY <1>2, <2>2, <3>1
      <4> QED
        BY <4>1, <4>2, <4>3
    <3>2. CASE x = Len(f) + 1
      <4>1. v[x] = s[1]
        BY <1>2, <2>1, <2>2, <3>2
      <4>2. u[x] = f2[x]
        BY <1>2, <1>3, <2>1, <2>2, <3>2
      <4>3. f2[x] = Head(s)
        BY <1>2, <2>2, <3>2
      <4> QED
        BY <1>2, <4>1, <4>2, <4>3
    <3>3. CASE x > Len(f) + 1
      <4>1. v[x] = s[x - Len(f)]
        BY <1>2, <2>1, <2>2, <3>3
      <4>2. u[x] = t[x - Len(f2)]
        BY <1>2, <1>3, <2>1, <2>2, <3>3
      <4>3. t[x - Len(f2)] = s[x - Len(f2) + 1]
        BY <1>2, <1>3, <2>1, <2>2, <3>3
      <4>4. x - Len(f2) + 1 = x - Len(f)
        BY <1>3, <2>2
      <4> QED
        BY <4>1, <4>2, <4>3, <4>4
    <3> QED
      BY <2>1, <2>2, <3>1, <3>2, <3>3
  <2> QED
    BY <2>1, <2>3, <2>4
<1>5. Tail(s) = <<>> => f2 = f \o s
  <2>1. f2 \o <<>> = f2
    BY <1>3
  <2> QED
    BY <1>4, <2>1
<1>6. Len(f) < Len(f \o s) /\ Len(f) \in Nat /\ Len(f \o s) \in Nat
  BY <1>2
<1>7. IsSeq(f2) /\ IsSeq(Tail(s))
  BY <1>2, <1>3 DEF IsSeq
<1> QED
  BY <1>4, <1>5, <1>6, <1>7

-----------------------------------------------------------------------------
(* Any clock of a command.                                                 *)

Places ==
  \/ Awaiting \/ Sending \/ SeesVoid \/ Falling \/ AskingVoid \/ PoppingVoid \/ Resting \/ Reporting

LEMMA PlacesAreOn ==
  Places => On
BY DEF Places, Sending, Awaiting, Starting, Opening, Closing, Telling, Asking, Popping, Turning, Showing,
       Symbol, Sends, Holds, SeesVoid, Falling, AskingVoid, PoppingVoid, AtVoid, Resting, Reporting, Over

\* The line is the encoder's; while it is not, both are at rest.
LEMMA LineIsHeard ==
  SenderInv => tx!q = encoder_out
<1>1. Still => generator_out = 0
  BY DEF Still
<1>2. Off \/ Awaiting \/ Resting \/ Reporting => encoder_out = 0
  BY DEF Off, Awaiting, Resting, Reporting, Over
<1>3. Sending => mux = 1
  BY DEF Sending, Starting, Opening, Closing, Telling, Asking, Popping, Turning, Showing, Symbol, Sends
<1>4. SeesVoid \/ Falling \/ AskingVoid \/ PoppingVoid => mux = 1
  BY DEF SeesVoid, Falling, AskingVoid, PoppingVoid, AtVoid
<1> QED
  BY <1>1, <1>2, <1>3, <1>4 DEF SenderInv, tx!q

LEMMA SymbolStep ==
  ASSUME KeepsTime, NoResetInCommand, Working, NEW n \in Nat, NEW k \in Nat, Turning(n, k) \/ Showing(n, k)
  PROVE  /\ Still' /\ TL!Tag
         /\ Closing(n)' \/ \E l \in Nat : Turning(n, l)' \/ Showing(n, l)'
<1>1. Symbol(n, k)
  BY DEF Turning, Showing
<1>2. Still'
  BY <1>1, SymbolNext
<1>3. TL!Tag
  BY TagHalves, TagTurning, TagShowing
<1>4. Turning(n, k) => Showing(n, k)'
  BY TurningStep
<1>5. ASSUME Showing(n, k)
      PROVE  Closing(n)' \/ \E l \in Nat : Turning(n, l)' \/ Showing(n, l)'
  <2>1. CASE ~TimeIsOver
    BY <1>5, <2>1, SymbolGoesOn
  <2>2. CASE TimeIsOver /\ state_sender \in Firsts
    BY <1>5, <2>2, HalfOver
  <2>3. CASE TimeIsOver /\ state_sender \notin Firsts /\ k + 1 >= Word.mask
    BY <1>5, <2>3, LastSymbol
  <2>4. CASE TimeIsOver /\ state_sender \notin Firsts /\ ~(k + 1 >= Word.mask)
    <3>1. Turning(n, k + 1)'
      BY <1>5, <2>4, NextSymbol
    <3>2. k + 1 \in Nat
      OBVIOUS
    <3> QED
      BY <3>1, <3>2
  <2> QED
    BY <2>1, <2>2, <2>3, <2>4
<1> QED
  BY <1>2, <1>3, <1>4, <1>5

LEMMA PlacesStep ==
  ASSUME KeepsTime, NoResetInCommand, Working, Places
  PROVE  /\ SenderInv' /\ TL!Tag
         /\ stage = "wait" /\ stage' = "wait" /\ command' = command
<1>1. On /\ encoder_ended \in Bit
  BY PlacesAreOn DEF Places, Sending, Awaiting, Starting, Opening, Closing, Telling, Asking, Popping, Turning,
       Showing, Symbol, Sends, Holds, SeesVoid, Falling, AskingVoid, PoppingVoid, AtVoid, Resting, Reporting, Bit
<1>2. stage = "wait" /\ stage' = "wait" /\ command' = command
  BY <1>1, OnStays DEF On, Working
<1>3. ASSUME Awaiting PROVE SenderInv' /\ TL!Tag
  BY <1>3, AwaitingStep, TagAwaiting DEF SenderInv, Sending
<1>4. ASSUME NEW n \in Nat, Starting(n) PROVE SenderInv' /\ TL!Tag
  BY <1>4, StartingStep, TagStarting DEF SenderInv, Sending
<1>5. ASSUME NEW n \in Nat, Opening(n) PROVE SenderInv' /\ TL!Tag
  BY <1>5, OpeningStep, TagOpening DEF SenderInv, Sending
<1>6. ASSUME NEW n \in Nat, NEW k \in Nat, Turning(n, k) \/ Showing(n, k) PROVE SenderInv' /\ TL!Tag
  BY <1>6, SymbolStep DEF SenderInv, Sending
<1>7. ASSUME NEW n \in Nat, Closing(n) PROVE SenderInv' /\ TL!Tag
  BY <1>7, ClosingStep, TagBetween DEF SenderInv, Sending
<1>8. ASSUME NEW n \in Nat, Telling(n) PROVE SenderInv' /\ TL!Tag
  BY <1>8, TellingStep, TagBetween DEF SenderInv, Sending
<1>9. ASSUME NEW n \in Nat, Asking(n) PROVE SenderInv' /\ TL!Tag
  BY <1>9, AskingStep, TagBetween DEF SenderInv, Sending
<1>10. ASSUME NEW n \in Nat, Popping(n) PROVE SenderInv' /\ TL!Tag
  <2>1. n + 1 \in Nat /\ (Starting(n + 1)' \/ SeesVoid') /\ Still'
    BY <1>10, PoppingStep
  <2> QED
    BY <1>10, <2>1, TagPopping DEF SenderInv, Sending
<1>11. ASSUME SeesVoid PROVE SenderInv' /\ TL!Tag
  BY <1>11, SeesVoidStep, TagEnds DEF SenderInv
<1>12. ASSUME Falling PROVE SenderInv' /\ TL!Tag
  BY <1>12, FallingStep, TagFallsSilent DEF SenderInv
<1>13. ASSUME AskingVoid PROVE SenderInv' /\ TL!Tag
  BY <1>13, AskingVoidStep, TagAtVoid DEF SenderInv
<1>14. ASSUME PoppingVoid PROVE SenderInv' /\ TL!Tag
  BY <1>14, PoppingVoidStep, TagAtVoid DEF SenderInv
<1>15. ASSUME Resting PROVE SenderInv' /\ TL!Tag
  BY <1>15, RestingStep, TagAfter DEF SenderInv
<1>16. ASSUME Reporting PROVE SenderInv' /\ TL!Tag
  BY <1>16, ReportingStep, TagAfter DEF SenderInv
<1> QED
  BY <1>2, <1>3, <1>4, <1>5, <1>6, <1>7, <1>8, <1>9, <1>10, <1>11, <1>12, <1>13, <1>14, <1>15, <1>16
     DEF Places, Sending

-----------------------------------------------------------------------------
(* Between commands.                                                       *)

\* From the choice of a command to its acceptance.
Asked == stage \in {"write", "start", "wait", "accept"} => command \in Commands

LEMMA HostSteps ==
  ASSUME NoResetInCommand, Host
  PROVE  /\ timing' = timing
         /\ stage \in {"choose", "write", "start", "wait", "accept", "reset", "quiet"}
         /\ stage = "choose" => \/ stage' = "write" /\ command' \in Commands /\ script' = P'
                                \/ stage' = "reset"
         /\ stage = "write" => \/ /\ script' = Tail(script) /\ command' = command
                                  /\ stage' = IF Tail(script) = <<>> THEN "start" ELSE "write"
                               \/ stage' = "reset"
         /\ stage = "start" => stage' = "wait" /\ command' = command
         /\ stage = "wait" =>
              /\ stage' = (IF finished_sending = 1 /\ EndReceived THEN "accept" ELSE "wait")
              /\ command' = command
         /\ stage = "accept" => stage' = "choose"
         /\ stage = "reset" => stage' = "quiet"
         /\ stage = "quiet" => stage' \in {"quiet", "choose"}
BY DEF NoResetInCommand, Host, ChooseCommand, WritePackage, StartCtrl, BothEnded, KeepWaiting, Accept,
       BeginReset, EndReset, Quiet, P

LEMMA FifoFills ==
  ASSUME Next, request_new_data = 0
  PROVE  /\ stage = "write" => tx_fifo' = IF Len(tx_fifo) = depth THEN tx_fifo ELSE Append(tx_fifo, Head(script))
         /\ stage = "reset" => tx_fifo' = <<>>
         /\ stage \notin {"write", "reset"} => tx_fifo' = tx_fifo
BY Ticks DEF tx!Fifo, tx!Clocked, tx!Pop, tx!Full, resetting

LEMMA OffNext ==
  ASSUME Next, Still, Off
  PROVE  /\ Still'
         /\ enc_state' = "c_wait" /\ encoder_ended' = 0 /\ data_sender_start' = 0 /\ request_new_data' = 0
         /\ state_sender' = "s_wait" /\ encoder_out' = 0 /\ LineRests' /\ TimersRest'
         /\ sc_state' = (IF stage = "start" THEN "c_wait_encoder" ELSE "c_wait")
         /\ start_encoder' = (IF stage = "start" THEN 1 ELSE 0)
         /\ finished_sending' = IF stage \in {"accept", "reset"} THEN 0 ELSE finished_sending
<1>1. /\ enc_state' = "c_wait" /\ encoder_ended' = 0 /\ data_sender_start' = 0 /\ request_new_data' = 0
  BY EncoderRests DEF Off
<1>2. /\ state_sender' = "s_wait" /\ encoder_out' = 0 /\ LineRests'
      /\ half_tari_start' = 0 /\ full_tari_start' = 0
  BY DataSenderRests DEF Off, TimersRest
<1>3. TimersRest'
  BY <1>2, TimersStop DEF Off
<1>4. /\ sc_state' = (IF stage = "start" THEN "c_wait_encoder" ELSE "c_wait")
      /\ start_encoder' = (IF stage = "start" THEN 1 ELSE 0) /\ start_generator' = 0
      /\ finished_sending' = IF stage \in {"accept", "reset"} THEN 0 ELSE finished_sending
  <2>1. CASE stage # "reset"
    BY <2>1, ClockOfSenderController DEF Off, Still, Bit
  <2>2. CASE stage = "reset"
    BY <2>2, Ticks
       DEF Off, Still, tx!controller!Tick, tx!controller!Reset, tx!controller!Hold, tx!controller!WaitIdle,
           tx!controller!StartGenerator, tx!controller!StartEncoder, tx!controller!WaitGenerator,
           tx!controller!WaitEncoder, tx!controller!EncoderEnded, tx!controller!In, tx!controller!Clocked,
           tx!controller!Goto, tx!controller!Finished, resetting
  <2> QED
    BY <2>1, <2>2
<1>5. Still'
  BY <1>4, StillStays DEF Still
<1> QED
  BY <1>1, <1>2, <1>3, <1>4, <1>5

\* Package by package, the FIFO takes the command.
LEMMA FillingStep ==
  ASSUME KeepsTime, Next, Off, stage = "write", command \in Commands,
         script' = Tail(script), command' = command
  PROVE  /\ IsSeq(tx_fifo)' /\ IsSeq(script)' /\ (tx_fifo \o script)' = P'
         /\ Tail(script) = <<>> => tx_fifo' = P'
<1> DEFINE f2 == Append(tx_fifo, Head(script))
<1>1. IsSeq(tx_fifo) /\ IsSeq(script) /\ script # <<>> /\ tx_fifo \o script = P
  BY DEF Off
<1>2. /\ IsSeq(f2) /\ IsSeq(Tail(script)) /\ f2 \o Tail(script) = P
      /\ Tail(script) = <<>> => f2 = P
      /\ Len(tx_fifo) < Len(P) /\ Len(tx_fifo) \in Nat /\ Len(P) \in Nat
  BY <1>1, WordMoves
<1>3. Len(P) <= depth /\ depth \in Nat
  BY ScriptFacts, DepthAssumption
<1>4. Len(tx_fifo) # depth
  BY <1>2, <1>3
<1>5. tx_fifo' = f2
  BY <1>4, FifoFills DEF Off
<1>6. P' = P
  BY DEF P
<1> HIDE DEF f2, P
<1> QED
  BY <1>2, <1>5, <1>6 DEF IsSeq

LEMMA OffStep ==
  ASSUME KeepsTime, NoResetInCommand, Next, Still, Off, Asked
  PROVE  /\ Asked' /\ Still'
         /\ stage # "start" => Off'
         /\ stage = "start" => Awaiting'
<1>1. Host /\ request_new_data = 0
  BY Ticks DEF Off
<1>2. Asked'
  BY <1>1, HostSteps DEF Asked
<1>3. ASSUME stage # "start"
      PROVE  /\ sc_state' = "c_wait" /\ start_encoder' = 0
             /\ enc_state' = "c_wait" /\ encoder_ended' = 0 /\ data_sender_start' = 0 /\ request_new_data' = 0
             /\ state_sender' = "s_wait" /\ encoder_out' = 0 /\ LineRests' /\ TimersRest'
             /\ finished_sending' = IF stage \in {"accept", "reset"} THEN 0 ELSE finished_sending
  BY <1>3, OffNext
<1>4. CASE stage = "choose"
  <2>1. tx_fifo' = <<>>
    BY <1>1, <1>4, FifoFills DEF Off
  <2>2. (stage' = "write" /\ command' \in Commands /\ script' = P') \/ stage' = "reset"
    BY <1>1, <1>4, HostSteps
  <2>3. finished_sending' = 0
    BY <1>3, <1>4 DEF Off
  <2>4. stage' = "write" => IsSeq(tx_fifo)' /\ IsSeq(script)' /\ script' # <<>> /\ (tx_fifo \o script)' = P'
    BY <2>1, <2>2, ScriptFactsNext DEF IsSeq
  <2> QED
    BY <1>2, <1>3, <1>4, <2>1, <2>2, <2>3, <2>4, OffNext DEF Off
<1>5. CASE stage = "write"
  <2>1. \/ /\ script' = Tail(script) /\ command' = command
           /\ stage' = IF Tail(script) = <<>> THEN "start" ELSE "write"
        \/ stage' = "reset"
    BY <1>1, <1>5, HostSteps
  <2>2. finished_sending' = 0
    BY <1>3, <1>5 DEF Off
  <2>3. /\ stage' = "write" => IsSeq(tx_fifo)' /\ IsSeq(script)' /\ script' # <<>> /\ (tx_fifo \o script)' = P'
        /\ stage' = "start" => tx_fifo' = P'
        /\ stage' \in {"write", "start", "reset"}
    BY <1>5, <2>1, FillingStep DEF Asked
  <2> QED
    BY <1>2, <1>3, <1>5, <2>2, <2>3, OffNext DEF Off
<1>6. CASE stage = "start"
  <2>1. stage' = "wait" /\ command' = command /\ P' = P /\ command \in Commands
    BY <1>1, <1>6, HostSteps DEF P, Asked
  <2>2. tx_fifo' = P /\ finished_sending' = 0
    BY <1>1, <1>6, FifoFills, OffNext DEF Off
  <2>3. SubSeq(P, 0 + 1, Len(P)) = P /\ 0 \in 0 .. Len(P) - 1
    BY <2>1, ScriptFacts
  <2>4. Holds(0)'
    BY <1>6, <2>1, <2>2, <2>3, OffNext DEF Holds, On
  <2> QED
    BY <1>2, <1>6, <2>4, OffNext DEF Awaiting, Enc, Waits
<1>7. CASE stage \in {"wait", "accept", "quiet"}
  <2>1. tx_fifo' = <<>>
    BY <1>1, <1>7, FifoFills DEF Off
  <2>2. stage' = (CASE stage = "wait" -> IF finished_sending = 1 /\ EndReceived THEN "accept" ELSE "wait"
                    [] stage = "accept" -> "choose"
                    [] OTHER -> stage') /\ (stage = "quiet" => stage' \in {"quiet", "choose"})
    BY <1>1, <1>7, HostSteps
  <2> QED
    BY <1>2, <1>3, <1>7, <2>1, <2>2, OffNext DEF Off
<1>8. CASE stage = "reset"
  BY <1>1, <1>2, <1>3, <1>8, FifoFills, HostSteps, OffNext DEF Off
<1> QED
  BY <1>1, <1>4, <1>5, <1>6, <1>7, <1>8, HostSteps

LEMMA TagOff ==
  ASSUME KeepsTime, NoResetInCommand, Next, Still, Off, Asked
  PROVE  /\ Phase' = "silent" /\ Unsent' = <<>> /\ encoder_out' = 0 /\ Left' = 0 /\ Second' = 0
         /\ stage \notin {"accept", "reset"} => TL!Tag
         /\ stage \in {"accept", "reset"} => Answer' = <<>>
<1>1. (Off' \/ Awaiting') /\ Asked' /\ (stage = "start" <=> ~Off')
  <2>1. Awaiting' => ~Off'
    BY DEF Awaiting, Off, Holds, On
  <2> QED
    BY <2>1, OffStep
<1>2. encoder_out = 0 /\ encoder_out' = 0 /\ Host
  BY OffNext, Ticks DEF Off
<1>3. Values /\ Values'
  BY <1>1, ValuesHold, ValuesHoldNext DEF Asked
<1>4. Drives("silent", 0, 0, <<>>, IF stage \in {"wait", "accept"} THEN command ELSE <<>>)
  BY <1>3 DEF Values
<1>5. stage = "start" => Drives("silent", 0, 0, <<>>, <<>>)'
  BY <1>1, <1>3 DEF Values
<1>6. stage # "start" => Drives("silent", 0, 0, <<>>, IF stage \in {"wait", "accept"} THEN command ELSE <<>>)'
  BY <1>1, <1>3 DEF Values
<1>7. /\ stage = "wait" => stage' \in {"wait", "accept"} /\ command' = command
      /\ stage \notin {"start", "wait"} => stage' \notin {"wait", "accept"}
  BY <1>2, HostSteps
<1>8. /\ Phase = "silent" /\ Left = 0 /\ Second = 0 /\ Unsent = <<>>
      /\ Answer = IF stage \in {"wait", "accept"} THEN command ELSE <<>>
  BY <1>4 DEF Drives
<1>9. Phase' = "silent" /\ Left' = 0 /\ Second' = 0 /\ Unsent' = <<>>
  BY <1>5, <1>6 DEF Drives
<1>10. /\ stage = "wait" => Answer' = command
       /\ stage # "wait" => Answer' = <<>>
  BY <1>5, <1>6, <1>7 DEF Drives
<1>11. stage \notin {"accept", "reset"} => Answer' = Answer
  BY <1>8, <1>10
<1>12. stage \notin {"accept", "reset"} => TL!Tag
  BY <1>2, <1>8, <1>9, <1>11, TagIsSilent
<1> QED
  BY <1>2, <1>9, <1>10, <1>12

-----------------------------------------------------------------------------
(* The receiver, with nothing to hear.                                     *)

Rests ==
  /\ TL!Waiting /\ state_decoder = "d_wait" /\ eop = 0 /\ data_ready = 0 /\ clock_start = 0
  /\ state_contructor \in {"c_wait", "c_check_eop"}
  /\ write_request # 1 /\ clr_eop # 1 /\ mask_integer = 0 /\ pack_data = Zeros
  /\ clocks_counted \in Nat

LEMMA RestsOn ==
  ASSUME Next, Rests, tx!q = 0
  PROVE  /\ Rests'
         /\ stage \in {"accept", "reset"} => rx_fifo' = <<>>
         /\ rdreq_pulse' = 0 /\ ~already_read'
<1>1. dec_state_controller' = "c_wait" /\ data_receiver_start' = 0 /\ prev_bit_c' = 0
  BY Ticks DEF Rests, TL!Waiting, rx!decoder!Controller, rx!decoder!ControllerReset,
     rx!decoder!ControllerFirstEdge, rx!decoder!ControllerDecode, rx!decoder!ControllerHold,
     rx!decoder!controller_vars
<1>2. /\ state_decoder' = "d_wait" /\ eop' = 0 /\ data_ready' = 0 /\ clock_start' = 0
      /\ data_receiver_end' = 0
  BY Ticks DEF Rests, TL!Waiting, rx!decoder!Decoder, rx!decoder!DecoderReset, rx!decoder!DecoderHold,
     rx!decoder!Wait, rx!decoder!StartCounter, rx!decoder!PassTari, rx!decoder!FirstEdge,
     rx!decoder!SecondEdge, rx!decoder!NoEdge, rx!decoder!HalfTari, rx!decoder!WholeTari,
     rx!decoder!BadInterval, rx!decoder!Error, rx!decoder!LastBit, rx!decoder!StuckHigh,
     rx!decoder!CounterCS, rx!decoder!End, rx!decoder!In, rx!decoder!Goto, rx!decoder!decoder_vars
<1>3. clocks_counted' \in Nat
  BY Ticks DEF Rests, rx!decoder!Counter
<1>4. /\ state_contructor' \in {"c_wait", "c_check_eop"} /\ write_request' # 1 /\ clr_eop' # 1
      /\ mask_integer' = 0 /\ pack_data' = Zeros
  BY Ticks DEF Rests, rx!pack_const!Tick, rx!pack_const!Reset, rx!pack_const!In, rx!pack_const!Goto,
     rx!pack_const!WaitBit, rx!pack_const!WaitEop, rx!pack_const!WaitIdle, rx!pack_const!WaitClearFlags,
     rx!pack_const!NewBit, rx!pack_const!IncMask, rx!pack_const!MaskOverflow, rx!pack_const!NoMaskOverflow,
     rx!pack_const!SendOpenPackage, rx!pack_const!SendPackage, rx!pack_const!Clear,
     rx!pack_const!EopWithBits, rx!pack_const!EopWithoutBits, rx!pack_const!NoEop,
     rx!pack_const!SendVoidPackage, rx!pack_const!Zeros, rx!pack_const!BitIndex, Zeros, BitIndex
<1>5. stage \in {"accept", "reset"} => rx_fifo' = <<>>
  BY Ticks DEF rx!Fifo, rx!Clocked
<1>6. rdreq_pulse' = 0
  BY Ticks DEF rx!PulseGenerator
<1>7. ~already_read'
  <2>1. already_read' = (resetting = 0 /\ 0 = 1)
    BY Ticks DEF rx!PulseGenerator
  <2>2. 0 # 1
    OBVIOUS
  <2> QED
    BY <2>1, <2>2, Zenon
<1> QED
  BY <1>1, <1>2, <1>3, <1>4, <1>5, <1>6, <1>7 DEF Rests, TL!Waiting

LEMMA QuietRests ==
  ASSUME KeepsTime, TL!IInv, TL!DataInv, TL!Quiet
  PROVE  Rests
<1>1. TL!WriteInv /\ TL!TypeInv
  BY DEF TL!IInv
<1>2. ~TL!Hearing /\ ~TL!Announcing /\ ~TL!Ending /\ ~TL!Failed
  BY TagAssumptions, TL!NotQuiet
<1>3. ~TL!HearingBit
  <2>1. TL!HearingBit => TL!Hearing
    BY TagAssumptions, TL!HearingBitHears
  <2> QED
    BY <1>2, <2>1
<1>4. mask_integer = 0 /\ pack_data = Zeros
  BY <1>2, <1>3, SameDefinitions DEF TL!DataInv, TL!WordsInv
<1>5. write_request # 1 /\ clr_eop # 1
  BY <1>1, <1>2 DEF TL!WriteInv, TL!Quiet
<1>6. clocks_counted \in Nat
  BY <1>1 DEF TL!TypeInv
<1> QED
  BY <1>4, <1>5, <1>6 DEF Rests, TL!Quiet

\* After it the receiver hears as it did at first.
LEMMA RestsIsBlank ==
  Rests /\ Phase = "silent" /\ encoder_out = 0 /\ Left = 0 /\ Second = 0 /\ Unsent = <<>> /\ Answer = <<>>
    /\ rx_fifo = <<>> /\ rdreq_pulse = 0 /\ ~already_read => TL!Blank
BY SameDefinitions DEF Rests, TL!Blank, TL!TypeInv, TL!Quiet, TL!AtRest, TL!Bit

LEMMA RestsIsBlankNext ==
  (Rests /\ Phase = "silent" /\ encoder_out = 0 /\ Left = 0 /\ Second = 0 /\ Unsent = <<>> /\ Answer = <<>>
     /\ rx_fifo = <<>> /\ rdreq_pulse = 0 /\ ~already_read => TL!Blank)'
BY RestsIsBlank, PTL

LEMMA BlankInv ==
  KeepsTime /\ TL!Blank => TL!IInv /\ TL!DataInv
BY TagAssumptions, TL!BlankIInv, TL!BlankDataInv

LEMMA BlankInvNext ==
  (KeepsTime /\ TL!Blank => TL!IInv /\ TL!DataInv)'
BY BlankInv, PTL

-----------------------------------------------------------------------------
(* Sender and receiver together.                                           *)

\* The sender is in one of its places, and the receiver hears it as it hears a tag.
LinkInv ==
  /\ timing = setting /\ Asked /\ SenderInv /\ TL!IInv /\ TL!DataInv
  /\ stage = "accept" => TL!Quiet

LEMMA InitLinkInv ==
  ASSUME KeepsTime, Init, timing = setting
  PROVE  LinkInv
<1>1. PICK idle \in Idles : tx!InitRegisters(idle) /\ rx!InitRegisters(idle)
  BY DEF Init
<1>2. stage = "choose" /\ command = <<>>
  BY DEF Init
<1>3. SenderInv
  BY <1>1, <1>2
     DEF SenderInv, Still, Off, LineRests, EndLevel, Symbols, Wholes, Firsts, TimersRest, tx!InitRegisters,
         tx!controller!InitRegisters, tx!generator!InitRegisters, tx!fm0!InitRegisters
<1>4. Off
  BY <1>2, <1>3, PlacesAreOn DEF SenderInv, Places, On
<1>5. Phase = "silent" /\ encoder_out = 0 /\ Left = 0 /\ Second = 0 /\ Unsent = <<>> /\ Answer = <<>>
  BY <1>2, <1>4, ValuesHold DEF Values, Drives, Off
<1>6. Rests /\ rx_fifo = <<>> /\ rdreq_pulse = 0 /\ ~already_read
  BY <1>1 DEF Rests, TL!Waiting, rx!InitRegisters, rx!decoder!InitRegisters, rx!pack_const!InitRegisters,
       rx!pack_const!Zeros, rx!pack_const!BitIndex, Zeros, BitIndex
<1>7. TL!Blank
  BY <1>5, <1>6, RestsIsBlank
<1> QED
  BY <1>2, <1>3, <1>7, BlankInv DEF LinkInv, Asked

\* A command that has come is over for the receiver too, and its packages are there.
LEMMA WhatHasCome ==
  ASSUME KeepsTime, LinkInv, EndReceived
  PROVE  /\ TL!Quiet /\ Answer = command
         /\ \E heard \in HeardAs(command) : rx_fifo = PackagesOf(heard)
<1>1. rx_fifo # <<>> /\ rx_fifo[Len(rx_fifo)] = TL!Void
  BY SameDefinitions DEF EndReceived
<1>2. TL!Quiet /\ Answer # <<>> /\ \E heard \in TL!HeardAs(Answer) : rx_fifo = TL!PackagesOf(heard)
  BY <1>1, TagAssumptions, TL!AllIsWritten DEF LinkInv
<1>3. Answer = command
  BY <1>2 DEF Answer
<1> QED
  BY <1>2, <1>3, SameDefinitions

\* While neither is cleared, the receiver hears one clock of a tag.
LEMMA Beats ==
  ASSUME KeepsTime, NoResetInCommand, LinkInv, Next, stage \notin {"accept", "reset"}
  PROVE  SenderInv' /\ Asked' /\ TL!Beat
<1>1. timing = setting /\ Still /\ SenderInv /\ tx!q = encoder_out
  BY LineIsHeard DEF LinkInv, SenderInv
<1>2. SenderInv' /\ Asked' /\ TL!Tag
  <2>1. CASE Off
    BY <1>1, <2>1, OffStep, TagOff DEF LinkInv, SenderInv
  <2>2. CASE Places
    <3>1. stage = "wait" /\ command \in Commands
      BY <2>2, PlacesAreOn DEF On, LinkInv, Asked
    <3>2. Working
      BY <1>1, <3>1 DEF Working
    <3> QED
      BY <2>2, <3>1, <3>2, PlacesStep DEF Asked
  <2> QED
    BY <1>1, <2>1, <2>2 DEF SenderInv, Places
<1>3. TL!Absent
  BY DEF TL!Absent
<1>4. TL!Beat
  BY <1>1, <1>2, <1>3, ReceiverTick DEF TL!Beat
<1> QED
  BY <1>2, <1>4

LEMMA Heard ==
  ASSUME KeepsTime, NoResetInCommand, LinkInv, Next, stage \notin {"accept", "reset"}
  PROVE  SenderInv' /\ Asked' /\ TL!IInv' /\ TL!DataInv'
BY Beats, TagAssumptions, TL!BeatIInv, TL!DataStep DEF LinkInv

\* When they are, both are at rest, and the receiver begins anew.
LEMMA Cleared ==
  ASSUME KeepsTime, NoResetInCommand, LinkInv, Next, stage \in {"accept", "reset"}
  PROVE  SenderInv' /\ Asked' /\ TL!IInv' /\ TL!DataInv'
<1>1. Off /\ Still /\ Asked
  BY PlacesAreOn DEF LinkInv, SenderInv, Places, On
<1>2. SenderInv' /\ Asked'
  BY <1>1, OffStep DEF SenderInv
<1>3. TL!Quiet
  <2>1. CASE stage = "accept"
    BY <2>1 DEF LinkInv
  <2>2. CASE stage = "reset"
    <3>1. Answer = <<>>
      BY <2>2 DEF Answer
    <3> QED
      BY <3>1 DEF LinkInv, TL!IInv, TL!VoidInv
  <2> QED
    BY <2>1, <2>2
<1>4. Rests /\ tx!q = 0
  BY <1>1, <1>3, QuietRests, LineIsHeard DEF LinkInv, Off
<1>5. Rests' /\ rx_fifo' = <<>> /\ rdreq_pulse' = 0 /\ ~already_read'
  BY <1>4, RestsOn
<1>6. /\ Phase' = "silent" /\ Unsent' = <<>> /\ encoder_out' = 0 /\ Left' = 0 /\ Second' = 0
      /\ Answer' = <<>>
  BY <1>1, TagOff
<1>7. TL!Blank'
  BY <1>5, <1>6, RestsIsBlankNext
<1> QED
  BY <1>2, <1>7, BlankInvNext

\* A command is accepted when the receiver is at rest.
LEMMA AcceptedAtRest ==
  ASSUME KeepsTime, NoResetInCommand, LinkInv, Next, stage' = "accept"
  PROVE  TL!Quiet'
<1>1. stage = "wait" /\ finished_sending = 1 /\ EndReceived
  BY Ticks, HostSteps
<1>2. Off /\ Still /\ Asked
  BY <1>1, PlacesAreOn DEF LinkInv, SenderInv, Places, On
<1>3. TL!Quiet
  BY <1>1, WhatHasCome
<1>4. Rests /\ tx!q = 0
  BY <1>2, <1>3, QuietRests, LineIsHeard DEF LinkInv, Off
<1>5. Rests'
  BY <1>4, RestsOn
<1>6. Phase' = "silent" /\ encoder_out' = 0
  BY <1>2, TagOff
<1> QED
  BY <1>5, <1>6 DEF Rests, TL!Quiet, TL!AtRest, TL!Waiting

LEMMA SenderStutter ==
  ASSUME UNCHANGED vars, SenderInv, Asked
  PROVE  /\ SenderInv' /\ Asked' /\ UNCHANGED <<Left, Second, Unsent, Phase, Answer>>
         /\ timing' = timing /\ stage' = stage /\ UNCHANGED TL!rx!registers /\ encoder_out' = encoder_out
<1>1. /\ UNCHANGED <<sc_state, mux, finished_sending, start_encoder, start_generator>>
      /\ UNCHANGED <<gen_state, counter, generator_out, signal_generator_ended, tx_fifo, tx_idle>>
      /\ UNCHANGED <<enc_state, data_sender_start, encoder_ended, request_new_data, tari_CS_start>>
      /\ UNCHANGED <<state_sender, data_sender_end, half_tari_start, full_tari_start, encoder_out,
                     index_bit, last_state_bit, i, half_tari_end, i2, full_tari_end>>
      /\ UNCHANGED <<timing, stage, command, script>>
  BY DEF vars, host_vars, tx!registers, tx!controller!registers, tx!generator!registers, tx!fm0!registers,
         tx!fm0!controller_vars, tx!fm0!sender_vars, tx!fm0!timer_vars
<1>2. UNCHANGED TL!rx!registers
  BY DEF vars, rx!registers, rx!decoder!registers, rx!decoder!controller_vars, rx!decoder!decoder_vars,
         rx!pack_const!registers, TL!rx!registers, TL!rx!decoder!registers, TL!rx!decoder!controller_vars,
         TL!rx!decoder!decoder_vars, TL!rx!pack_const!registers
<1>3. /\ P' = P /\ Word' = Word /\ Popped' = Popped /\ Driving' = Driving /\ Changing' = Changing /\ ToBegin' = ToBegin
      /\ Gap' = Gap
  BY <1>1 DEF P, Word, Popped, Driving, Changing, ToBegin, Gap, HandOver
<1>4. UNCHANGED <<Left, Second, Unsent, Phase, Answer>>
  BY <1>1, <1>3 DEF Left, Second, Unsent, Phase, Answer, Begun, HandOver, From
<1>5. /\ (On <=> On') /\ (Waits <=> Waits') /\ (TimersRest <=> TimersRest') /\ (LineRests <=> LineRests')
      /\ (Off => Off') /\ (Still => Still') /\ (Beside => Beside') /\ (HalfIdle <=> HalfIdle')
      /\ \A n : Sends(n) <=> Sends(n)'
      /\ \A n : Holds(n) <=> Holds(n)'
      /\ \A s, a, r : Enc(s, a, r) <=> Enc(s, a, r)'
  BY <1>1, <1>3 DEF On, Waits, TimersRest, LineRests, Off, Still, Beside, HalfIdle, Sends, Holds, Enc, FullAt, Age
<1>6. \A n, k : Symbol(n, k) <=> Symbol(n, k)'
  BY <1>1, <1>3, <1>5 DEF Symbol
<1>7. \A n, k : (Turning(n, k) => Turning(n, k)') /\ (Showing(n, k) => Showing(n, k)')
  BY <1>1, <1>3, <1>5, <1>6 DEF Turning, Showing
<1>8. \A n : /\ Starting(n) => Starting(n)'
             /\ Opening(n) => Opening(n)'
             /\ Closing(n) => Closing(n)'
             /\ Telling(n) => Telling(n)'
             /\ Asking(n) => Asking(n)'
             /\ Popping(n) => Popping(n)'
  BY <1>1, <1>3, <1>5 DEF Starting, Opening, Closing, Telling, Asking, Popping
<1>9. Sending => Sending'
  BY <1>7, <1>8 DEF Sending
<1>10. /\ (Awaiting => Awaiting') /\ (Resting => Resting') /\ (Reporting => Reporting')
       /\ (SeesVoid => SeesVoid') /\ (Falling => Falling') /\ (AskingVoid => AskingVoid') /\ (PoppingVoid => PoppingVoid')
  BY <1>1, <1>3, <1>5 DEF Awaiting, Resting, Reporting, Over, AtVoid, SeesVoid, Falling, AskingVoid, PoppingVoid
<1>11. SenderInv' /\ Asked'
  BY <1>1, <1>5, <1>9, <1>10 DEF SenderInv, Asked
<1> QED
  BY <1>1, <1>2, <1>4, <1>11

LEMMA LinkStep ==
  ASSUME KeepsTime, NoResetInCommand, LinkInv, [Next]_vars
  PROVE  LinkInv'
<1>1. CASE Next
  <2>1. SenderInv' /\ Asked' /\ TL!IInv' /\ TL!DataInv'
    BY <1>1, Heard, Cleared
  <2>2. timing' = timing
    BY <1>1, Ticks, HostSteps
  <2> QED
    BY <1>1, <2>1, <2>2, AcceptedAtRest DEF LinkInv
<1>2. CASE UNCHANGED vars
  <2>1. /\ SenderInv' /\ Asked' /\ UNCHANGED <<Left, Second, Unsent, Phase, Answer>>
        /\ timing' = timing /\ stage' = stage /\ UNCHANGED TL!rx!registers /\ encoder_out' = encoder_out
    BY <1>2, SenderStutter DEF LinkInv
  <2>2. UNCHANGED TL!vars
    BY <2>1 DEF TL!vars, TL!tag_vars, TL!host_vars
  <2>3. TL!IInv' /\ TL!DataInv'
    BY <2>2, TagAssumptions, TL!StepIInv, TL!DataStutter DEF LinkInv
  <2>4. TL!Quiet => TL!Quiet'
    BY <2>1 DEF TL!Quiet, TL!AtRest, TL!Waiting, TL!rx!registers, TL!rx!decoder!registers,
         TL!rx!decoder!controller_vars, TL!rx!decoder!decoder_vars, TL!rx!pack_const!registers
  <2> QED
    BY <2>1, <2>3, <2>4 DEF LinkInv
<1> QED
  BY <1>1, <1>2

-----------------------------------------------------------------------------
(* What holds in every state.                                              *)

LEMMA Invariant ==
  ASSUME KeepsTime, NoResetInCommand
  PROVE  Spec /\ timing = setting => []LinkInv
<1>1. Init /\ timing = setting => LinkInv
  BY InitLinkInv
<1>2. LinkInv /\ [Next]_vars => LinkInv'
  BY LinkStep
<1> QED
  BY <1>1, <1>2, PTL DEF Spec

\* A command comes back whole, in its packages and in order, whatever its bits, however it falls
\* into packages and wherever a reset came between two commands: once the receiver has stored the
\* void package, the words before it are what package_constructor makes of the command itself or of
\* the command and the 1 that the falling line adds.
THEOREM CommandComesBack ==
  ASSUME KeepsTime, NoResetInCommand
  PROVE  Spec /\ timing = setting => []CommandSurvives
<1>1. LinkInv => CommandSurvives
  BY WhatHasCome DEF CommandSurvives
<1> QED
  BY <1>1, Invariant, PTL

\* FM0_decoder never goes to d_error on the sender's line: the sender's timers, the hand-over
\* from package to package and the preparation of the void package stay within the limits.
THEOREM NothingIsRefused ==
  ASSUME KeepsTime, NoResetInCommand
  PROVE  Spec /\ timing = setting => []NoDecodingError
<1>1. LinkInv => NoDecodingError
  <2> SUFFICES ASSUME LinkInv PROVE NoDecodingError
    OBVIOUS
  <2>1. ~TL!Failed
    BY DEF TL!Failed
  <2>2. TL!OnlyFaultsAreRefused
    BY <2>1
       DEF LinkInv, TL!IInv, TL!TimeInv, TL!Hearing, TL!Hears, TL!Opening, TL!Closing, TL!EdgeIsThere,
           TL!EdgeIsChecked, TL!BitIsGiven, TL!Starting, TL!Late, TL!Passing, TL!TariHasPassed,
           TL!LastBitIsGiven, TL!FirstHalf, TL!LaterHalf, TL!Counting, TL!Halving, TL!Announcing,
           TL!Ending, TL!Quiet, TL!OnlyFaultsAreRefused
  <2> QED
    BY <2>2 DEF TL!OnlyFaultsAreRefused, NoDecodingError
<1> QED
  BY <1>1, Invariant, PTL

\* The end of a command is announced once: clr_eop, which the constructor raises for a single
\* clock, finds the decoder ready to lower eop.
THEOREM OneEndPerCommand ==
  ASSUME KeepsTime, NoResetInCommand
  PROVE  Spec /\ timing = setting => []OneVoidPerCommand
<1>1. LinkInv => OneVoidPerCommand
  <2> SUFFICES ASSUME LinkInv PROVE OneVoidPerCommand
    OBVIOUS
  <2> DEFINE voids == {p \in DOMAIN rx_fifo : rx_fifo[p] = Void}
  <2>1. TL!Unread = rx_fifo /\ TL!VoidInv
    BY DEF LinkInv, TL!IInv, TL!HostInv, TL!Unread, TL!PopIsDue, TL!Pause
  <2>2. PICK S : rx_fifo \in Seq(S)
    BY DEF LinkInv, TL!IInv, TL!HostInv, TL!IsSeq
  <2>3. \A p \in DOMAIN rx_fifo : p < Len(rx_fifo) => rx_fifo[p] # Void
    BY <2>1, <2>2, SameDefinitions
       DEF TL!VoidInv, TL!Clean, TL!Ended, TL!NoVoid, TL!VoidIsLast
  <2>4. voids \subseteq {Len(rx_fifo)}
    BY <2>2, <2>3
  <2>5. IsFiniteSet({Len(rx_fifo)}) /\ Cardinality({Len(rx_fifo)}) = 1
    BY FS_Singleton
  <2>6. Cardinality(voids) <= 1
    BY <2>4, <2>5, FS_Subset
  <2> QED
    BY <2>6 DEF OneVoidPerCommand, Quantify
<1> QED
  BY <1>1, Invariant, PTL

\* A receiver that was reset between two commands announces nothing until the next one.
THEOREM ResetSilences ==
  ASSUME KeepsTime, NoResetInCommand
  PROVE  Spec /\ timing = setting => []ResetSilencesDecoder
<1>1. LinkInv => ResetSilencesDecoder
  <2> SUFFICES ASSUME LinkInv, stage = "quiet" PROVE state_decoder # "d_end"
    BY DEF ResetSilencesDecoder
  <2>1. Answer = <<>>
    BY DEF Answer
  <2> QED
    BY <2>1 DEF LinkInv, TL!IInv, TL!VoidInv, TL!Quiet
<1> QED
  BY <1>1, Invariant, PTL

-----------------------------------------------------------------------------
(* The end of a command, at both ends of the line.                         *)

\* The two Tari for which the sender holds the line low outlast the 1.584 Tari after which the
\* receiver knows that the command is over, and the clocks it takes to write its last words.
RestOutlasts == t1584 + 16 <= T + T

\* As those of the test programs do.
THEOREM TestTimingsOutlast ==
  ASSUME NEW t \in 500 .. 1022, setting = TimingOf(t)
  PROVE  RestOutlasts
BY DEF TimingOf, RestOutlasts, T, t1584

\* The timer of the two Tari, while it is not needed, ...
TimerIsOff == tari_CS_start = 0 /\ tari_CS_end = 0 /\ i3 \in 0 .. 1
\* ... while it counts, ahead of what the receiver still has to do, ...
TimerRuns ==
  /\ tari_CS_start = 1 /\ tari_CS_end = 0 /\ i3 \in 0 .. T + T - 1
  /\ TL!Quiet \/ TL!ToGo + i3 <= t1584 + 15
\* ... and in the clock in which it says that they have passed.
TimerIsOver == tari_CS_start = 1 /\ tari_CS_end = 1 /\ i3 = 0 /\ TL!Quiet

\* The sender counts a command as sent when the receiver is through with it.
RestInv ==
  /\ enc_state # "c_wait_tari_CS" => TimerIsOff
  /\ enc_state = "c_wait_tari_CS" => TimerRuns \/ TimerIsOver
  /\ encoder_ended = 1 \/ finished_sending = 1 => TL!Quiet

LEMMA TimerTicks ==
  ASSUME Next, timing = setting, KeepsTime
  PROVE  /\ stage = "reset" => i3' = 0 /\ tari_CS_end' = 0
         /\ stage # "reset" /\ start_encoder = 0 => i3' = i3 /\ tari_CS_end' = tari_CS_end
         /\ stage # "reset" /\ start_encoder = 1 /\ tari_CS_start = 0 => i3' = i3 /\ tari_CS_end' = 0
         /\ stage # "reset" /\ start_encoder = 1 /\ tari_CS_start = 1 /\ i3 \in 0 .. T + T - 1 =>
              /\ i3' = IF i3 + 1 = T + T THEN 0 ELSE i3 + 1
              /\ tari_CS_end' = IF i3 + 1 = T + T THEN 1 ELSE 0
<1>1. T \in Nat /\ T <= 1022
  BY DEF KeepsTime
<1> QED
  BY <1>1, Ticks DEF tx!fm0!Timers, tx!fm0!TimerCount, tx!fm0!TimerEnd, tx!fm0!CSTimerSize, T, resetting

USE DEF tx!fm0!Controller, tx!fm0!ControllerReset, tx!fm0!ControllerHold, tx!fm0!ControllerWait,
        tx!fm0!StartSend, tx!fm0!WaitSend, tx!fm0!Request, tx!fm0!WaitRequestSent,
        tx!fm0!WaitRequestVoid, tx!fm0!WaitTariCS, tx!fm0!At, tx!fm0!controller_vars, resetting

\* It is started where the void package is popped, and stopped when it has ended.
LEMMA TimerStarts ==
  ASSUME Next
  PROVE  /\ stage = "reset" => enc_state' = "c_wait" /\ encoder_ended' = 0 /\ tari_CS_start' = tari_CS_start
         /\ stage # "reset" /\ start_encoder = 0 => UNCHANGED <<enc_state, encoder_ended, tari_CS_start>>
         /\ stage # "reset" /\ start_encoder = 1 =>
              /\ enc_state # "c_wait_tari_CS" /\ enc_state' = "c_wait_tari_CS" => tari_CS_start' = 1
              /\ enc_state # "c_wait_tari_CS" /\ enc_state' # "c_wait_tari_CS" =>
                   tari_CS_start' = tari_CS_start
              /\ enc_state = "c_wait_tari_CS" /\ tari_CS_end = 1 => enc_state' = "c_wait" /\ tari_CS_start' = 0
              /\ enc_state = "c_wait_tari_CS" /\ tari_CS_end # 1 =>
                   enc_state' = "c_wait_tari_CS" /\ UNCHANGED <<encoder_ended, tari_CS_start>>
              /\ enc_state = "c_wait" => encoder_ended' = 0
              /\ enc_state \notin {"c_wait", "c_wait_tari_CS"} => encoder_ended' = encoder_ended
BY Ticks

HIDE DEF tx!fm0!Controller, tx!fm0!ControllerReset, tx!fm0!ControllerHold, tx!fm0!ControllerWait,
         tx!fm0!StartSend, tx!fm0!WaitSend, tx!fm0!Request, tx!fm0!WaitRequestSent,
         tx!fm0!WaitRequestVoid, tx!fm0!WaitTariCS, tx!fm0!At, tx!fm0!controller_vars, resetting

\* Where the encoder is in these states.
LEMMA WhereItEnds ==
  ASSUME SenderInv
  PROVE  /\ enc_state = "c_wait_tari_CS" => Resting
         /\ encoder_ended = 1 => Reporting
         /\ finished_sending = 1 => Off
         /\ ~Off => Places
<1> QED
  BY DEF SenderInv, Places, Off, Awaiting, Sending, Starting, Opening, Closing, Telling, Asking, Popping, Turning,
         Showing, Symbol, Sends, Holds, SeesVoid, Falling, AskingVoid, PoppingVoid, AtVoid, Resting, Reporting,
         Over, Enc, On

LEMMA WhereItEndsNext ==
  (SenderInv => (enc_state = "c_wait_tari_CS" => Resting))'
<1>1. SenderInv => (enc_state = "c_wait_tari_CS" => Resting)
  BY WhereItEnds
<1> QED
  BY <1>1, PTL

LEMMA EndedIsBit ==
  SenderInv => encoder_ended \in Bit
BY DEF SenderInv, Off, Awaiting, Sending, Starting, Opening, Closing, Telling, Asking, Popping, Turning,
       Showing, Symbol, Sends, Holds, SeesVoid, Falling, AskingVoid, PoppingVoid, AtVoid, Resting, Reporting, Bit

\* There the line is at rest.
LEMMA EndsAtRest ==
  KeepsTime /\ SenderInv /\ Asked =>
    (enc_state = "c_wait_tari_CS" \/ encoder_ended = 1 \/ finished_sending = 1 => TL!AtRest)
<1> SUFFICES ASSUME KeepsTime, SenderInv, Asked,
                    enc_state = "c_wait_tari_CS" \/ encoder_ended = 1 \/ finished_sending = 1
             PROVE  TL!AtRest
  OBVIOUS
<1>1. Resting \/ Reporting \/ Off
  BY WhereItEnds
<1>2. encoder_out = 0
  BY <1>1 DEF Resting, Reporting, Over, Off
<1>3. Phase = "silent"
  BY <1>1, ValuesHold DEF Values, Drives, Asked
<1> QED
  BY <1>2, <1>3 DEF TL!AtRest

LEMMA EndsAtRestNext ==
  (KeepsTime /\ SenderInv /\ Asked =>
    (enc_state = "c_wait_tari_CS" \/ encoder_ended = 1 \/ finished_sending = 1 => TL!AtRest))'
BY EndsAtRest, PTL

\* What the receiver has to do then fits into the two Tari.
LEMMA ToGoFits ==
  KeepsTime /\ TL!IInv /\ TL!AtRest => TL!Quiet \/ TL!ToGo \in 1 .. t1584 + 14
<1>1. TL!t1584 = t1584
  BY DEF TL!t1584, t1584
<1> QED
  BY <1>1, TagAssumptions, TL!ToGoIsBounded

LEMMA ToGoFitsNext ==
  (KeepsTime /\ TL!IInv /\ TL!AtRest => TL!Quiet \/ TL!ToGo \in 1 .. t1584 + 14)'
BY ToGoFits, PTL

LEMMA InitRestInv ==
  ASSUME KeepsTime, Init, timing = setting, LinkInv
  PROVE  RestInv
<1>1. PICK idle \in Idles : tx!InitRegisters(idle)
  BY DEF Init
<1> QED
  BY <1>1 DEF tx!InitRegisters, tx!controller!InitRegisters, tx!fm0!InitRegisters, RestInv, TimerIsOff

\* The receiver hears a tag at rest: it comes a clock closer to the end, and stays there.
LEMMA RestingHeard ==
  ASSUME KeepsTime, NoResetInCommand, LinkInv, Next, stage \notin {"accept", "reset"}, TL!AtRest, TL!AtRest'
  PROVE  /\ TL!Quiet => TL!Quiet'
         /\ ~TL!Quiet => TL!Quiet' \/ TL!ToGo' <= TL!ToGo - 1
<1>1. TL!Beat /\ TL!IInv
  BY Beats DEF LinkInv
<1> QED
  BY <1>1, TagAssumptions, TL!QuietStays, TL!ToGoStep

\* A clock in which the receiver is not cleared.
LEMMA TimerStep ==
  ASSUME KeepsTime, NoResetInCommand, RestOutlasts, LinkInv, LinkInv', RestInv, Next,
         stage \notin {"accept", "reset"}
  PROVE  RestInv'
<1>1. SenderInv /\ Asked /\ timing = setting /\ TL!IInv /\ SenderInv' /\ Asked' /\ TL!IInv'
  BY DEF LinkInv
<1>2. T \in Nat /\ T >= 1 /\ t1584 \in Nat /\ t1584 + 16 <= T + T
  BY Clocks DEF RestOutlasts
<1>3. KeepsTime'
  BY DEF KeepsTime, T, t099, t101, t1584
<1>4. enc_state' = "c_wait_tari_CS" \/ encoder_ended' = 1 \/ finished_sending' = 1 =>
        TL!AtRest' /\ (TL!Quiet' \/ TL!ToGo' \in 1 .. t1584 + 14)
  BY <1>1, <1>3, EndsAtRestNext, ToGoFitsNext DEF t1584
<1>5. CASE enc_state = "c_wait_tari_CS"
  <2>1. Resting /\ stage = "wait" /\ start_encoder = 1 /\ encoder_ended = 0 /\ finished_sending = 0
    BY <1>1, <1>5, WhereItEnds DEF Resting, Over, On
  <2>2. TL!AtRest /\ (TL!Quiet \/ TL!ToGo \in 1 .. t1584 + 14)
    BY <1>1, <1>5, EndsAtRest, ToGoFits
  <2>3. CASE TimerIsOver
    <3>1. enc_state' = "c_wait" /\ tari_CS_start' = 0 /\ i3' = 1 /\ tari_CS_end' = 0
      BY <1>1, <1>2, <1>5, <2>1, <2>3, TimerStarts, TimerTicks DEF TimerIsOver
    <3> QED
      BY <1>4, <2>1, <2>2, <2>3, <3>1, RestingHeard DEF RestInv, TimerIsOff, TimerIsOver
  <2>4. CASE TimerRuns
    <3>1. enc_state' = "c_wait_tari_CS" /\ tari_CS_start' = 1 /\ encoder_ended' = 0 /\ finished_sending' = 0
      <4>1. sc_state = "c_wait_encoder" /\ stage # "accept"
        BY <2>1 DEF Resting, Over, On
      <4> QED
        BY <1>5, <2>1, <2>4, <4>1, TimerStarts, ClockOfSenderController DEF TimerRuns, Bit
    <3>2. TL!AtRest'
      BY <1>4, <3>1
    <3>3. TL!Quiet => TL!Quiet'
      BY <2>1, <2>2, <3>2, RestingHeard
    <3>4. ~TL!Quiet /\ ~TL!Quiet' => TL!ToGo' \in Nat /\ TL!ToGo' >= 1 /\ TL!ToGo' <= TL!ToGo - 1 /\ TL!ToGo \in Nat
      BY <1>2, <1>4, <2>1, <2>2, <3>1, <3>2, RestingHeard
    <3>5. i3 \in 0 .. T + T - 1 /\ (~TL!Quiet => TL!ToGo + i3 <= t1584 + 15)
      BY <2>4 DEF TimerRuns
    <3>6. CASE i3 + 1 = T + T
      <4>1. i3' = 0 /\ tari_CS_end' = 1
        BY <1>1, <2>1, <2>4, <3>5, <3>6, TimerTicks DEF TimerRuns
      <4>2. TL!Quiet'
        BY <1>2, <3>3, <3>4, <3>5, <3>6
      <4> QED
        BY <3>1, <4>1, <4>2 DEF RestInv, TimerIsOver
    <3>7. CASE i3 + 1 # T + T
      <4>1. i3' = i3 + 1 /\ tari_CS_end' = 0
        BY <1>1, <2>1, <2>4, <3>5, <3>7, TimerTicks DEF TimerRuns
      <4>2. i3' \in 0 .. T + T - 1
        BY <1>2, <3>5, <3>7, <4>1
      <4>3. TL!Quiet' \/ TL!ToGo' + i3' <= t1584 + 15
        BY <1>2, <3>3, <3>4, <3>5, <4>1
      <4>4. TimerRuns'
        BY <3>1, <4>1, <4>2, <4>3 DEF TimerRuns, T, t1584
      <4> QED
        BY <3>1, <4>4 DEF RestInv
    <3> QED
      BY <3>6, <3>7
  <2> QED
    BY <1>5, <2>3, <2>4 DEF RestInv
<1>6. CASE enc_state # "c_wait_tari_CS"
  <2>1. TimerIsOff
    BY <1>6 DEF RestInv
  <2>2. start_encoder \in {0, 1}
    BY <1>1, PlacesAreOn DEF SenderInv, Places, Off, On
  <2>3. i3' \in 0 .. 1 /\ tari_CS_end' = 0
    BY <1>1, <2>1, <2>2, TimerTicks DEF TimerIsOff
  <2>4. CASE enc_state' = "c_wait_tari_CS"
    <3>1. tari_CS_start' = 1
      BY <1>6, <2>2, <2>4, TimerStarts
    <3>2. Resting'
      BY <1>1, <2>4, WhereItEndsNext
    <3>3. encoder_ended' = 0 /\ finished_sending' = 0
      BY <3>2 DEF Resting, Over, On
    <3>4. i3' \in 0 .. T + T - 1 /\ (TL!Quiet' \/ TL!ToGo' + i3' <= t1584 + 15)
      BY <1>2, <1>4, <2>3, <2>4
    <3>5. TimerRuns'
      BY <2>3, <3>1, <3>4 DEF TimerRuns, T, t1584
    <3> QED
      BY <2>4, <3>3, <3>5 DEF RestInv
  <2>5. CASE enc_state' # "c_wait_tari_CS"
    <3>1. TimerIsOff'
      BY <1>6, <2>1, <2>2, <2>3, <2>5, TimerStarts DEF TimerIsOff
    <3>2. encoder_ended' = 1 \/ finished_sending' = 1 => encoder_ended = 1 \/ finished_sending = 1
      <4>1. CASE Off
        BY <1>1, <4>1, OffNext DEF Off, SenderInv
      <4>2. CASE ~Off
        <5>1. On /\ sc_state = "c_wait_encoder" /\ encoder_ended \in Bit /\ enc_state # "c_wait_tari_CS"
          BY <1>1, <1>6, <4>2, WhereItEnds, PlacesAreOn, EndedIsBit DEF On
        <5>2. finished_sending' = 1 => encoder_ended = 1 \/ finished_sending = 1
          BY <5>1, ClockOfSenderController
        <5>3. encoder_ended' = 1 => encoder_ended = 1
          BY <5>1, TimerStarts DEF On
        <5> QED
          BY <5>2, <5>3
      <4> QED
        BY <4>1, <4>2
    <3>3. encoder_ended = 1 \/ finished_sending = 1 => TL!Quiet /\ TL!AtRest
      BY <1>1, EndsAtRest DEF RestInv
    <3>4. encoder_ended' = 1 \/ finished_sending' = 1 => TL!Quiet'
      BY <1>4, <3>2, <3>3, RestingHeard
    <3> QED
      BY <2>5, <3>1, <3>4 DEF RestInv
  <2> QED
    BY <2>4, <2>5
<1> QED
  BY <1>5, <1>6

\* A clock in which it is.
LEMMA TimerCleared ==
  ASSUME KeepsTime, LinkInv, RestInv, Next, stage \in {"accept", "reset"}
  PROVE  RestInv'
<1>1. Off /\ Still /\ timing = setting
  BY PlacesAreOn DEF LinkInv, SenderInv, Places, On
<1>2. enc_state' = "c_wait" /\ encoder_ended' = 0 /\ finished_sending' = 0
  BY <1>1, OffNext
<1>3. TimerIsOff /\ start_encoder = 0
  BY <1>1 DEF RestInv, Off
<1>4. TimerIsOff'
  BY <1>1, <1>3, TimerStarts, TimerTicks DEF TimerIsOff
<1> QED
  BY <1>2, <1>4 DEF RestInv

LEMMA TimerStutter ==
  ASSUME LinkInv, RestInv, UNCHANGED vars
  PROVE  RestInv'
<1>1. UNCHANGED <<enc_state, encoder_ended, finished_sending, tari_CS_start, i3, tari_CS_end>>
  BY DEF vars, tx!registers, tx!controller!registers, tx!fm0!registers, tx!fm0!controller_vars, tx!fm0!timer_vars
<1>2. UNCHANGED <<Left, Phase, encoder_out>> /\ UNCHANGED TL!rx!registers
  BY SenderStutter DEF LinkInv
<1>3. TL!Quiet' <=> TL!Quiet
  BY <1>2 DEF TL!Quiet, TL!AtRest, TL!Waiting, TL!rx!registers, TL!rx!decoder!registers,
       TL!rx!decoder!controller_vars, TL!rx!decoder!decoder_vars, TL!rx!pack_const!registers
<1>4. TL!ToGo' = TL!ToGo
  BY <1>2 DEF TL!ToGo, TL!Storage, TL!t1584, TL!rx!registers, TL!rx!decoder!registers,
       TL!rx!decoder!controller_vars, TL!rx!decoder!decoder_vars, TL!rx!pack_const!registers
<1> QED
  BY <1>1, <1>3, <1>4 DEF RestInv, TimerIsOff, TimerRuns, TimerIsOver, T, t1584

\* Out of a command nothing is carried.
Withdrawn == stage \in {"choose", "reset", "quiet"} => command = <<>>

LEMMA CommandSteps ==
  ASSUME NoResetInCommand, Next
  PROVE  /\ stage' = "reset" => command' = <<>>
         /\ stage = "accept" => command' = <<>>
         /\ stage \in {"reset", "quiet"} => command' = command
         /\ stage \notin {"accept", "reset", "quiet"} => stage' \notin {"choose", "quiet"}
BY Ticks DEF NoResetInCommand, Host, ChooseCommand, WritePackage, StartCtrl, BothEnded, KeepWaiting, Accept,
   BeginReset, EndReset, Quiet

EndsInv == LinkInv /\ RestInv /\ Withdrawn

LEMMA EndsStep ==
  ASSUME KeepsTime, NoResetInCommand, RestOutlasts, EndsInv, [Next]_vars
  PROVE  EndsInv'
<1>1. LinkInv'
  BY LinkStep DEF EndsInv
<1>2. RestInv'
  BY <1>1, TimerStep, TimerCleared, TimerStutter DEF EndsInv
<1>3. Withdrawn'
  <2>1. CASE Next
    BY <2>1, CommandSteps DEF EndsInv, Withdrawn
  <2>2. CASE UNCHANGED vars
    BY <2>2 DEF EndsInv, Withdrawn, vars, host_vars
  <2> QED
    BY <2>1, <2>2
<1> QED
  BY <1>1, <1>2, <1>3 DEF EndsInv

LEMMA EndsInvariant ==
  ASSUME KeepsTime, NoResetInCommand, RestOutlasts
  PROVE  Spec /\ timing = setting => []EndsInv
<1>1. Init /\ timing = setting => EndsInv
  BY InitLinkInv, InitRestInv DEF EndsInv, Withdrawn, Init
<1>2. EndsInv /\ [Next]_vars => EndsInv'
  BY EndsStep
<1> QED
  BY <1>1, <1>2, PTL DEF Spec

-----------------------------------------------------------------------------
(* The link as a channel.                                                  *)

LEMMA SameChannel ==
  /\ C!Void = Void /\ C!Bit = Bit
  /\ C!Coming = {PackagesOf(heard) : heard \in HeardAs(command)}
  /\ C!Whole <=> rx_fifo \in {PackagesOf(heard) : heard \in HeardAs(command)}
<1>1. \A F : C!PackagesOf(F) = PackagesOf(F) /\ C!HeardAs(F) = HeardAs(F)
  BY DEF C!PackagesOf, PackagesOf, C!PackageOf, PackageOf, C!Void, Void, C!Zeros, Zeros,
       C!BitIndex, BitIndex, C!HeardAs, HeardAs
<1>2. C!Void = Void /\ C!Bit = Bit
  BY DEF C!Void, Void, C!Zeros, Zeros, C!BitIndex, BitIndex, C!Bit, Bit
<1>3. C!Coming = {PackagesOf(heard) : heard \in HeardAs(command)}
  BY <1>1 DEF C!Coming
<1> QED
  BY <1>2, <1>3 DEF C!Whole

\* The packages of any bits are a sequence that ends with a void package.
LEMMA EndsVoid ==
  ASSUME KeepsTime, NEW F \in Seq(Bit)
  PROVE  /\ IsSeq(PackagesOf(F)) /\ Len(PackagesOf(F)) \in Nat /\ Len(PackagesOf(F)) >= 1
         /\ PackagesOf(F)[Len(PackagesOf(F))] = Void
<1> DEFINE L == Len(PackagesOf(F))
           W == PackagesOf(F)
<1>1. /\ L \in Nat /\ L >= 1 /\ TL!IsSeq(W) /\ TL!At(L - 1) >= Len(F)
      /\ \A j \in 1 .. L : W[j] = TL!PackageAt(F, j - 1, Len(F))
  BY TagAssumptions, SameDefinitions, TL!PackagesFacts
<1>2. IsSeq(W)
  BY <1>1 DEF IsSeq, TL!IsSeq
<1> HIDE DEF L, W
<1>3. L - 1 \in Nat /\ TL!At(L - 1) \in Nat /\ Len(F) \in Nat
  BY <1>1, Products
<1>4. W[L] = TL!PackageAt(F, L - 1, Len(F))
  BY <1>1
<1>5. TL!Over(L - 1, Len(F)) = 0
  BY <1>1, <1>3 DEF TL!Over
<1>6. W[L] = [data |-> TL!Vector(F, L - 1, 0), mask |-> 0]
  BY <1>4, <1>5, Products DEF TL!PackageAt
<1>7. TL!Vector(F, L - 1, 0) = Zeros
  BY DEF TL!Vector, Zeros, TL!BitIndex, BitIndex
<1>8. W[L] = Void
  BY <1>6, <1>7 DEF Void
<1> QED
  BY <1>1, <1>2, <1>8 DEF L, W

LEMMA HeardIsSeq ==
  ASSUME command \in Commands
  PROVE  \A heard \in HeardAs(command) : heard \in Seq(Bit)
BY CommandsAssumption DEF HeardAs, Bit

\* What is in the receiver's FIFO, of which nobody reads.
LEMMA FifoFacts ==
  KeepsTime /\ LinkInv =>
    /\ IsSeq(rx_fifo) /\ rdreq_pulse = 0
    /\ Answer = <<>> => TL!Quiet /\ rx_fifo = <<>>
    /\ Answer # <<>> =>
         /\ Answer = command /\ command \in Commands /\ stage \in {"wait", "accept"}
         /\ \E heard \in HeardAs(command) :
              /\ Len(rx_fifo) <= Len(PackagesOf(heard))
              /\ \A j \in 1 .. Len(rx_fifo) : rx_fifo[j] = PackagesOf(heard)[j]
    /\ write_request = 1 => ~TL!Quiet
    /\ ~TL!Quiet => /\ \A p \in DOMAIN rx_fifo : rx_fifo[p] # Void
                    /\ Answer # <<>>
<1> SUFFICES ASSUME KeepsTime, LinkInv
             PROVE  /\ IsSeq(rx_fifo) /\ rdreq_pulse = 0
                    /\ Answer = <<>> => TL!Quiet /\ rx_fifo = <<>>
                    /\ Answer # <<>> =>
                         /\ Answer = command /\ command \in Commands /\ stage \in {"wait", "accept"}
                         /\ \E heard \in HeardAs(command) :
                              /\ Len(rx_fifo) <= Len(PackagesOf(heard))
                              /\ \A j \in 1 .. Len(rx_fifo) : rx_fifo[j] = PackagesOf(heard)[j]
                    /\ write_request = 1 => ~TL!Quiet
                    /\ ~TL!Quiet => /\ \A p \in DOMAIN rx_fifo : rx_fifo[p] # Void
                                    /\ Answer # <<>>
  OBVIOUS
<1>1. /\ TL!IInv /\ TL!DataInv /\ TL!HostInv /\ TL!VoidInv
      /\ TL!Unread = rx_fifo /\ TL!IsSeq(rx_fifo) /\ rdreq_pulse = 0
  BY DEF LinkInv, TL!IInv, TL!HostInv, TL!Unread, TL!PopIsDue, TL!Pause
<1>2. IsSeq(rx_fifo)
  BY <1>1 DEF IsSeq, TL!IsSeq
<1>3. PICK S : rx_fifo \in Seq(S)
  BY <1>2 DEF IsSeq
<1>4. Answer = <<>> => TL!Quiet /\ rx_fifo = <<>>
  BY <1>1 DEF TL!VoidInv, TL!Ended
<1>5. Answer # <<>> => Answer = command /\ command \in Commands /\ stage \in {"wait", "accept"}
  BY DEF Answer, LinkInv, Asked
<1>6. TL!Written = rx_fifo
  BY <1>1, <1>3 DEF TL!Written
<1>7. Answer # <<>> =>
        \E heard \in HeardAs(command) :
          /\ Len(rx_fifo) <= Len(PackagesOf(heard))
          /\ \A j \in 1 .. Len(rx_fifo) : rx_fifo[j] = PackagesOf(heard)[j]
  <2> SUFFICES ASSUME Answer # <<>>
               PROVE  \E heard \in HeardAs(command) :
                        /\ Len(rx_fifo) <= Len(PackagesOf(heard))
                        /\ \A j \in 1 .. Len(rx_fifo) : rx_fifo[j] = PackagesOf(heard)[j]
    OBVIOUS
  <2>1. TL!WrittenInOrder
    BY <1>1, TagAssumptions, TL!AnswerIsWritten
  <2> QED
    BY <1>5, <1>6, <2>1, SameDefinitions DEF TL!WrittenInOrder
<1>8. write_request = 1 => ~TL!Quiet
  BY <1>1, QuietRests DEF Rests
<1>9. ~TL!Quiet => /\ \A p \in DOMAIN rx_fifo : rx_fifo[p] # Void
                   /\ Answer # <<>>
  BY <1>1, SameDefinitions DEF TL!VoidInv, TL!Clean, TL!NoVoid
<1> QED
  BY <1>1, <1>2, <1>4, <1>5, <1>7, <1>8, <1>9

LEMMA FifoFactsNext ==
  (KeepsTime /\ LinkInv =>
    /\ IsSeq(rx_fifo) /\ rdreq_pulse = 0
    /\ Answer = <<>> => TL!Quiet /\ rx_fifo = <<>>
    /\ Answer # <<>> =>
         /\ Answer = command /\ command \in Commands /\ stage \in {"wait", "accept"}
         /\ \E heard \in HeardAs(command) :
              /\ Len(rx_fifo) <= Len(PackagesOf(heard))
              /\ \A j \in 1 .. Len(rx_fifo) : rx_fifo[j] = PackagesOf(heard)[j]
    /\ write_request = 1 => ~TL!Quiet
    /\ ~TL!Quiet => /\ \A p \in DOMAIN rx_fifo : rx_fifo[p] # Void
                    /\ Answer # <<>>)'
BY FifoFacts, PTL

\* One more word of a sequence.
LEMMA NextWord ==
  ASSUME NEW s, NEW w, NEW t, IsSeq(s), IsSeq(t), Len(Append(s, w)) <= Len(t),
         \A j \in 1 .. Len(Append(s, w)) : Append(s, w)[j] = t[j]
  PROVE  IsStrictPrefix(s, t) /\ Append(s, w) = Append(s, t[Len(s) + 1])
<1>1. PICK S : s \in Seq(S)
  BY DEF IsSeq
<1>2. PICK U : t \in Seq(U)
  BY DEF IsSeq
<1>3. Len(s) \in Nat /\ Len(t) \in Nat /\ Len(Append(s, w)) = Len(s) + 1 /\ Append(s, w)[Len(s) + 1] = w
      /\ \A j \in 1 .. Len(s) : Append(s, w)[j] = s[j]
  BY <1>1
<1>4. \A j \in 1 .. Len(s) : s[j] = t[j]
  BY <1>3
<1>5. w = t[Len(s) + 1]
  BY <1>3
<1>6. Len(s) <= Len(t) /\ s # t
  BY <1>3
<1>7. SubSeq(s, 1, Len(s)) = SubSeq(t, 1, Len(s))
  BY <1>1, <1>2, <1>3, <1>4, <1>6
<1> QED
  BY <1>5, <1>6, <1>7 DEF IsStrictPrefix, IsPrefix

\* The FIFO takes a word or keeps what it has.
LEMMA FifoTakes ==
  ASSUME KeepsTime, LinkInv, Next, stage \notin {"accept", "reset"}
  PROVE  \/ rx_fifo' = rx_fifo
         \/ write_request = 1 /\ \E w : rx_fifo' = Append(rx_fifo, w)
<1>1. rdreq_pulse = 0
  BY FifoFacts
<1> QED
  BY <1>1, Ticks DEF rx!Fifo, rx!Clocked, rx!Pop

\* The command is reported as sent when the encoder has ended.
LEMMA ReportTicks ==
  ASSUME KeepsTime, LinkInv, Next, stage \notin {"accept", "reset"}
  PROVE  \/ finished_sending' = finished_sending
         \/ Reporting /\ encoder_ended = 1 /\ finished_sending = 0 /\ finished_sending' = 1
<1>1. CASE Off
  BY <1>1, OffNext DEF LinkInv, SenderInv
<1>2. CASE ~Off
  <2>1. On /\ encoder_ended \in Bit /\ (encoder_ended = 1 => Reporting)
    BY <1>2, WhereItEnds, PlacesAreOn, EndedIsBit DEF LinkInv
  <2> QED
    BY <2>1, ClockOfSenderController DEF On, Bit
<1> QED
  BY <1>1, <1>2

\* A word that is written is the next of the command's packages.
LEMMA DeliverStep ==
  ASSUME KeepsTime, LinkInv, LinkInv', stage = "wait", command' = command,
         write_request = 1, NEW w, rx_fifo' = Append(rx_fifo, w)
  PROVE  C!NextPackage
<1>1. /\ IsSeq(rx_fifo) /\ ~TL!Quiet /\ Answer # <<>> /\ command \in Commands
      /\ \A p \in DOMAIN rx_fifo : rx_fifo[p] # Void
  BY FifoFacts
<1>2. PICK S : rx_fifo \in Seq(S)
  BY <1>1 DEF IsSeq
<1>3. KeepsTime'
  BY DEF KeepsTime, T, t099, t101, t1584
<1>4. rx_fifo' # <<>>
  BY <1>2
<1>5. Answer' # <<>>
  BY <1>3, <1>4, FifoFactsNext
<1>6. \E heard \in HeardAs(command)' :
        /\ Len(rx_fifo') <= Len(PackagesOf(heard))
        /\ \A j \in 1 .. Len(rx_fifo') : rx_fifo'[j] = PackagesOf(heard)[j]
  BY <1>3, <1>5, FifoFactsNext
<1>7. PICK heard \in HeardAs(command) :
        /\ Len(rx_fifo') <= Len(PackagesOf(heard))
        /\ \A j \in 1 .. Len(rx_fifo') : rx_fifo'[j] = PackagesOf(heard)[j]
  BY <1>6 DEF HeardAs
<1>8. heard \in Seq(Bit)
  BY <1>1, <1>7, HeardIsSeq
<1> DEFINE packages == PackagesOf(heard)
<1>9. IsSeq(packages) /\ packages \in C!Coming
  BY <1>7, <1>8, EndsVoid, SameChannel
<1>10. Len(Append(rx_fifo, w)) <= Len(packages) /\ \A j \in 1 .. Len(Append(rx_fifo, w)) : Append(rx_fifo, w)[j] = packages[j]
  BY <1>7
<1> HIDE DEF packages
<1>11. IsStrictPrefix(rx_fifo, packages) /\ rx_fifo' = Append(rx_fifo, packages[Len(rx_fifo) + 1])
  BY <1>1, <1>9, <1>10, NextWord
<1>12. C!IsStrictPrefix(rx_fifo, packages)
  BY <1>11 DEF IsStrictPrefix, IsPrefix, C!IsStrictPrefix, C!IsPrefix
<1>13. ~C!Whole
  <2>1. SUFFICES ASSUME C!Whole PROVE FALSE
    OBVIOUS
  <2>2. PICK bits \in HeardAs(command) : rx_fifo = PackagesOf(bits)
    BY <2>1, SameChannel
  <2>3. bits \in Seq(Bit)
    BY <1>1, <2>2, HeardIsSeq
  <2>4. Len(rx_fifo) \in Nat /\ Len(rx_fifo) >= 1 /\ rx_fifo[Len(rx_fifo)] = Void
    BY <2>2, <2>3, EndsVoid
  <2> QED
    BY <1>1, <1>2, <2>4
<1>14. command # <<>>
  BY <1>1, CommandsAssumption
<1> QED
  BY <1>9, <1>11, <1>12, <1>13, <1>14 DEF C!NextPackage

\* When a command is reported, all of it is out.
LEMMA ReportIsLate ==
  ASSUME KeepsTime, EndsInv, Reporting, encoder_ended = 1
  PROVE  C!Whole /\ TL!Quiet /\ command \in Commands
<1>1. TL!Quiet /\ LinkInv
  BY DEF EndsInv, RestInv
<1>2. stage = "wait" /\ command \in Commands
  BY <1>1 DEF Reporting, Over, On, LinkInv, Asked
<1>3. Answer = command /\ command # <<>>
  BY <1>2, ValuesHold, CommandsAssumption DEF Values, Drives
<1>4. rx_fifo # <<>> /\ rx_fifo[Len(rx_fifo)] = TL!Void
  BY <1>1, <1>3, TagAssumptions, TL!QuietIsEnd DEF LinkInv
<1>5. EndReceived
  BY <1>4, SameDefinitions DEF EndReceived
<1> QED
  BY <1>1, <1>2, <1>5, WhatHasCome, SameChannel

\* While the command is on its way.
LEMMA WaitChannel ==
  ASSUME KeepsTime, EndsInv, LinkInv', Next, stage = "wait", command' = command
  PROVE  C!Deliver \/ C!Report \/ UNCHANGED <<command, rx_fifo, finished_sending>>
<1>1. LinkInv /\ stage \notin {"accept", "reset"}
  BY DEF EndsInv
<1>2. \/ rx_fifo' = rx_fifo
      \/ write_request = 1 /\ \E w : rx_fifo' = Append(rx_fifo, w)
  BY <1>1, FifoTakes
<1>3. \/ finished_sending' = finished_sending
      \/ Reporting /\ encoder_ended = 1 /\ finished_sending = 0 /\ finished_sending' = 1
  BY <1>1, ReportTicks
<1>4. CASE finished_sending' = finished_sending /\ rx_fifo' # rx_fifo
  <2>1. C!NextPackage
    BY <1>1, <1>2, <1>4, DeliverStep
  <2> QED
    BY <1>4, <2>1 DEF C!Deliver
<1>5. CASE finished_sending' = finished_sending /\ rx_fifo' = rx_fifo
  BY <1>5
<1>6. CASE finished_sending' # finished_sending
  <2>1. Reporting /\ encoder_ended = 1 /\ finished_sending = 0 /\ finished_sending' = 1
    BY <1>3, <1>6
  <2>2. C!Whole /\ TL!Quiet /\ command # <<>>
    BY <2>1, ReportIsLate, CommandsAssumption
  <2>3. rx_fifo' = rx_fifo
    BY <1>1, <1>2, <2>2, FifoFacts
  <2> QED
    BY <2>1, <2>2, <2>3 DEF C!Report
<1> QED
  BY <1>4, <1>5, <1>6

\* Out of a command the receiver is at rest, and nothing is reported.
LEMMA OutOfCommand ==
  ASSUME KeepsTime, LinkInv, stage \notin {"wait", "accept"}
  PROVE  rx_fifo = <<>> /\ TL!Quiet /\ write_request # 1 /\ finished_sending = 0
<1>1. Answer = <<>>
  BY DEF Answer
<1>2. Off
  BY PlacesAreOn DEF LinkInv, SenderInv, Places, On
<1> QED
  BY <1>1, <1>2, FifoFacts DEF Off

\* Every clock of the link is a step of the channel, or none.
LEMMA ChannelStep ==
  ASSUME KeepsTime, NoResetInCommand, RestOutlasts, EndsInv, [Next]_vars
  PROVE  [C!Next]_<<command, rx_fifo, finished_sending = 1>>
<1>1. EndsInv' /\ LinkInv' /\ LinkInv
  BY EndsStep DEF EndsInv
<1>2. CASE UNCHANGED vars
  <2>1. UNCHANGED <<command, rx_fifo, finished_sending>>
    BY <1>2 DEF vars, host_vars, tx!registers, tx!controller!registers, rx!registers
  <2> QED
    BY <2>1
<1>3. CASE Next /\ stage = "wait"
  <2>1. command' = command
    BY <1>3, Ticks, HostSteps
  <2>2. C!Deliver \/ C!Report \/ UNCHANGED <<command, rx_fifo, finished_sending>>
    BY <1>1, <1>3, <2>1, WaitChannel
  <2> QED
    BY <2>2 DEF C!Next
<1>4. CASE Next /\ stage = "accept"
  <2>1. Off /\ Still
    BY <1>1, <1>4, PlacesAreOn DEF LinkInv, SenderInv, Places, On
  <2>2. finished_sending = 1 /\ finished_sending' = 0
    BY <1>4, <2>1, OffNext DEF Off
  <2>3. command' = <<>> /\ rx_fifo' = <<>>
    BY <1>4, CommandSteps, Ticks DEF rx!Fifo, rx!Clocked
  <2> QED
    BY <2>2, <2>3 DEF C!Next, C!Clear
<1>5. CASE Next /\ stage \notin {"wait", "accept"}
  <2>1. rx_fifo = <<>> /\ TL!Quiet /\ write_request # 1 /\ finished_sending = 0
    BY <1>1, <1>5, OutOfCommand
  <2>2. Off /\ Still
    BY <1>1, <1>5, PlacesAreOn DEF LinkInv, SenderInv, Places, On
  <2>3. finished_sending' = 0
    BY <1>5, <2>1, <2>2, OffNext
  <2>4. rx_fifo' = <<>>
    <3>1. CASE stage = "reset"
      BY <1>5, <3>1, Ticks DEF rx!Fifo, rx!Clocked
    <3>2. CASE stage # "reset"
      BY <1>1, <1>5, <2>1, <3>2, FifoTakes
    <3> QED
      BY <3>1, <3>2
  <2>5. command' = command \/ command' = <<>> \/ (command = <<>> /\ command' \in Commands)
    BY <1>1, <1>5, Ticks, HostSteps, CommandSteps DEF EndsInv, Withdrawn
  <2>6. CASE command' = command
    BY <2>1, <2>3, <2>4, <2>6
  <2>7. CASE command' = <<>>
    BY <2>1, <2>3, <2>4, <2>7 DEF C!Next, C!Withdraw
  <2>8. CASE command = <<>> /\ command' \in Commands
    BY <2>1, <2>3, <2>4, <2>8 DEF C!Next, C!Take
  <2> QED
    BY <2>5, <2>6, <2>7, <2>8
<1> QED
  BY <1>2, <1>3, <1>4, <1>5

\* Sender, line and receiver are a channel: the packages of a command come out in order and once,
\* the void package last, only while the command is on its way; and the sender, whose timer of two
\* Tari knows nothing of the receiver, reports the command only when all of it is out.
THEOREM LinkIsAChannel ==
  ASSUME KeepsTime, NoResetInCommand, RestOutlasts
  PROVE  Spec /\ timing = setting => ImplementsChannel
<1>1. Init /\ timing = setting => C!Init
  <2> SUFFICES ASSUME Init PROVE C!Init
    OBVIOUS
  <2>1. PICK idle \in Idles : tx!InitRegisters(idle) /\ rx!InitRegisters(idle)
    BY DEF Init
  <2>2. finished_sending = 0 /\ rx_fifo = <<>> /\ command = <<>>
    BY <2>1 DEF Init, tx!InitRegisters, tx!controller!InitRegisters, rx!InitRegisters
  <2> QED
    BY <2>2 DEF C!Init
<1>2. EndsInv /\ [Next]_vars => [C!Next]_<<command, rx_fifo, finished_sending = 1>>
  BY ChannelStep
<1> QED
  BY <1>1, <1>2, EndsInvariant, PTL DEF Spec, ImplementsChannel, C!Spec
=============================================================================
