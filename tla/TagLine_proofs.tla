---------------------------- MODULE TagLine_proofs ----------------------------
(***************************************************************************)
(* Theorems of TagLine for every Tari and all limits that leave time for   *)
(* the hand-overs, every package width and FIFO depth, any answers and any *)
(* symbols that are symbols: the constructor waits for every bit, the      *)
(* decoder refuses nothing but symbols that are out of time, and the host  *)
(* reads the packages of the answer, each once.                            *)
(***************************************************************************)
EXTENDS TagLine, SequenceTheorems, TLAPS

-----------------------------------------------------------------------------
(* The tag, e clocks after the edge that starts a symbol.                  *)

t099 == tari_limits.tari_099
t101 == tari_limits.tari_101
t1584 == tari_limits.tari_1584

\* The lengths of a symbol and of its first half, if it is a 0.
Pairs == (Wholes \X Halves) \cup (WrongWholes \X WrongHalves)

\* The tag drives its level for whole - e clocks more, to the end of the symbol, ...
Ends(whole, e) == phase = "sending" /\ second = 0 /\ left > 0 /\ left + e = whole
\* ... for half - e clocks more, to the middle of a 0, ...
Splits(whole, half, e) ==
  phase = "sending" /\ second = whole - half /\ left > 0 /\ left + e = half
\* ... or until it begins another answer.
AtRest == phase \in {"resting", "silent"} /\ line = 0 /\ (phase = "resting" => left > 0)

Lasts(whole, e) == Ends(whole, e) \/ AtRest
Begun(whole, half, e) == Lasts(whole, e) \/ Splits(whole, half, e)

-----------------------------------------------------------------------------
(* Decoder and constructor.                                                *)

Decoding == dec_state_controller = "c_decode" /\ data_receiver_start = 1 /\ data_receiver_end = 0
Waiting ==
  dec_state_controller = "c_wait" /\ data_receiver_start = 0 /\ data_receiver_end = 0 /\ prev_bit_c = 0

\* The states of the constructor, n clocks after it was given a bit.
Storing(state, n) ==
  \/ state = "c_wait"
  \/ n = 1 /\ state = "c_new_bit"
  \/ n = 2 /\ state = "c_inc_mask"
  \/ n = 3 /\ state = "c_check_mask_overflow"
  \/ n = 4 /\ state \in {"c_send_package", "c_check_eop"}
  \/ n = 5 /\ state = "c_clear"

\* The first edge of a command: decoder_controller starts the decoder.
Opening(e) ==
  /\ state_decoder = "d_wait" /\ data_ready = 0 /\ clock_start = 0
  /\ \/ e = 0 /\ Waiting /\ line = 1 /\ state_contructor \in {"c_wait", "c_check_eop"}
     \/ e = 1 /\ Decoding /\ clear_counter = 1 /\ state_contructor = "c_wait"

\* The edge at the end of a symbol: it is there, ...
EdgeIsThere ==
  /\ Decoding /\ state_decoder \in {"d_wait_counter", "d_wait_counter2"} /\ line # prev_bit_d
  /\ data_ready = 0 /\ clock_start = 1 /\ Storing(state_contructor, clocks_counted + 2)
  /\ clocks_counted \in t101 \div 2 .. t101
  /\ in_time => clocks_counted \in t099 - 1 .. t101 - 1

\* ... its interval is checked, ...
EdgeIsChecked ==
  /\ Decoding /\ state_decoder \in {"d_check_counter", "d_check_counter2"} /\ line = prev_bit_d
  /\ data_ready = 0 /\ Storing(state_contructor, clocks_counted + 2)
  /\ clocks_counted > t101 \div 2
  /\ in_time => clocks_counted \in t099 .. t101

\* ... and the bit is given.
BitIsGiven ==
  /\ Decoding /\ state_decoder = "d_wait" /\ line = prev_bit_d
  /\ data_ready = 1 /\ clock_start = 0 /\ clear_counter = 1 /\ state_contructor = "c_wait"

Closing(e) == (e = 0 /\ EdgeIsThere) \/ (e = 1 /\ EdgeIsChecked) \/ (e = 2 /\ BitIsGiven)

Starting(e) ==
  /\ Decoding /\ e \in {2, 3} /\ state_decoder = "d_start_counter" /\ line = prev_bit_d
  /\ data_ready = 0 /\ clock_start = 0 /\ clocks_counted = 0 /\ clear_counter = 1
  /\ Storing(state_contructor, 1)

\* The count began three clocks after the first edge of a command, four after any other.
Counts(e) == Decoding /\ clock_start = 1 /\ e \in {clocks_counted + 3, clocks_counted + 4}

Counting(e) ==
  /\ Counts(e) /\ clocks_counted <= t101 + 1
  /\ data_ready = 0 /\ line = prev_bit_d /\ Storing(state_contructor, clocks_counted + 2)

\* No edge yet, or the middle of a 0 is behind.
FirstHalf(e) == Counting(e) /\ state_decoder = "d_wait_counter"
LaterHalf(e) == Counting(e) /\ state_decoder = "d_wait_counter2"

\* The edge in the middle of a 0: it is there, and checked.
Halving(half, e) ==
  /\ Counts(e) /\ data_ready = 0 /\ Storing(state_contructor, clocks_counted + 2)
  /\ \/ e = half /\ state_decoder = "d_wait_counter" /\ line # prev_bit_d
     \/ e = half + 1 /\ state_decoder = "d_check_counter" /\ line = prev_bit_d

\* No edge for 1.01 Tari, ...
TariHasPassed ==
  /\ state_decoder = "d_pass_1_01_tari" /\ clocks_counted = t101 + 2
  /\ data_ready = 0 /\ state_contructor = "c_wait"

\* ... so that this was the last bit (data_ready is up in the first clock), or an error.
LastBitIsGiven ==
  /\ state_decoder = "d_counter_cs" /\ clocks_counted >= t101 + 3
  /\ data_ready = (IF clocks_counted = t101 + 3 THEN 1 ELSE 0)
  /\ Storing(state_contructor, clocks_counted - t101 - 3)

Passing(e) ==
  /\ Counts(e) /\ (in_time => AtRest) /\ line = prev_bit_d
  /\ TariHasPassed \/ (LastBitIsGiven /\ line = 0 /\ clocks_counted <= t1584 + 1)

\* The edge of a symbol that was too long.
Late(e) ==
  /\ Decoding /\ ~in_time
  /\ clock_start = 1 /\ line # prev_bit_d /\ clocks_counted <= t1584 - 4 + e
  /\ \/ /\ e = 0 /\ state_decoder \in {"d_wait_counter", "d_wait_counter2"}
        /\ clocks_counted = t101 + 1 /\ data_ready = 0 /\ state_contructor = "c_wait"
     \/ e \in 0 .. 1 /\ TariHasPassed
     \/ e \in 0 .. 2 /\ LastBitIsGiven

Hears(whole, half, e) ==
  \/ Begun(whole, half, e) /\ (Opening(e) \/ Closing(e) \/ Starting(e) \/ FirstHalf(e) \/ Late(e))
  \/ Ends(whole, e) /\ Halving(half, e)
  \/ Lasts(whole, e) /\ (LaterHalf(e) \/ Passing(e))

\* Symbols are in time as long as in_time says so.
Fits(p) == p \in Pairs /\ (in_time => p \in Wholes \X Halves)

Hearing == eop = 0 /\ \E p \in Pairs : \E e \in Nat : Fits(p) /\ Hears(p[1], p[2], e)

\* The end of the command is announced, ...
Announcing ==
  /\ AtRest /\ state_decoder = "d_end" /\ eop = 1 /\ data_ready = 0 /\ prev_bit_d = 0
  /\ dec_state_controller = "c_decode" /\ data_receiver_end = 1 /\ state_contructor = "c_wait"

\* ... the constructor sends what it has, and the void package, ...
Ending ==
  /\ AtRest /\ Waiting /\ state_decoder = "d_wait" /\ eop = 1 /\ data_ready = 0 /\ clock_start = 0
  /\ state_contructor \in
       {"c_wait", "c_check_eop", "c_send_package", "c_clear", "c_send_void_package"}

\* ... and both wait for a command.
Quiet ==
  /\ AtRest /\ Waiting /\ state_decoder = "d_wait" /\ eop = 0 /\ data_ready = 0 /\ clock_start = 0
  /\ state_contructor \in {"c_wait", "c_check_eop"}

\* An error is final.
Failed ==
  /\ state_decoder = "d_error" /\ ~in_time /\ eop = 0 /\ data_ready = 0
  /\ state_contructor # "c_send_void_package"

TimeInv == Hearing \/ Announcing \/ Ending \/ Quiet \/ Failed

-----------------------------------------------------------------------------
(* The words in the FIFO.                                                  *)

\* SMT needs a sequence to be over some set.
IsSeq(s) == \E S : s \in Seq(S)

\* The host has read the head, which the pulse of its request has not taken yet.
PopIsDue == rdreq_pulse = 1 \/ (access > Pause /\ ~already_read)
Unread == IF PopIsDue /\ rx_fifo # <<>> THEN Tail(rx_fifo) ELSE rx_fifo

HostInv ==
  /\ access \in Nat /\ IsSeq(rx_fifo) /\ IsSeq(got)
  /\ access <= 1 => rdreq_pulse = 0 /\ ~already_read
  /\ access = Pause => already_read
  /\ rdreq_pulse = 1 => already_read
  /\ access > Pause /\ ~already_read => rx_fifo # <<>>

WriteInv ==
  /\ clr_eop = 1 => Ending /\ state_contructor = "c_wait"
  /\ state_contructor = "c_send_void_package" => Ending
  /\ write_request = 1 =>
       \/ state_contructor = "c_send_package" /\ mask_integer # 0
       \/ clr_eop = 1 /\ pack_data = Zeros /\ mask_integer = 0

NoVoid(s) == \A k \in DOMAIN s : s[k] # Void
VoidIsLast(s) == \A k \in DOMAIN s : k < Len(s) => s[k] # Void

\* No void package of this answer has been written.
Clean == ~AnswerIsRead /\ NoVoid(Unread)

\* A void package is the last that was written, and the last that is read.
Ended ==
  /\ VoidIsLast(Unread)
  /\ AnswerIsRead \/ answer = <<>> => Unread = <<>>
  /\ answer = <<>> => got = <<>>

VoidInv == IF Quiet THEN Ended ELSE Clean /\ answer # <<>>

TypeInv == {left, second, clocks_counted} \subseteq Nat /\ line \in Bit /\ in_time \in BOOLEAN

IInv == TypeInv /\ TimeInv /\ HostInv /\ WriteInv /\ VoidInv

-----------------------------------------------------------------------------
(* One clock of the receiver, by the state of the decoder.                 *)

\* Where nobody reads, as in a link before its command has come, there is no host either.
Absent == access = 0 /\ got = <<>> /\ UNCHANGED <<access, got>>
Beat == Tag /\ (Host \/ Absent) /\ rx!Tick

LEMMA Clock ==
  ASSUME Beat
  PROVE  /\ rx!decoder!Controller /\ rx!decoder!Decoder /\ rx!decoder!Counter
         /\ rx!pack_const!Tick /\ rx!PulseGenerator /\ rx!Fifo /\ Tag /\ (Host \/ Absent)
BY DEF Beat, rx!Tick, rx!decoder!Tick

LEMMA ClockOfCounter ==
  ASSUME Beat
  PROVE  clocks_counted' = IF clock_start = 1 THEN clocks_counted + 1
                           ELSE IF clear_counter = 1 THEN 0 ELSE clocks_counted
BY Clock DEF rx!decoder!Counter

\* decoder_controller, while it waits, while it decodes and at the end of a command.
LEMMA ClockOfController ==
  ASSUME Beat
  PROVE  /\ Waiting /\ line = 0 =>
              dec_state_controller' = "c_wait" /\ data_receiver_start' = 0 /\ prev_bit_c' = 0
         /\ (Waiting /\ line # 0) \/ Decoding =>
              dec_state_controller' = "c_decode" /\ data_receiver_start' = 1
         /\ dec_state_controller = "c_decode" /\ data_receiver_end = 1 =>
              /\ dec_state_controller' = "c_wait" /\ data_receiver_start' = 0
              /\ prev_bit_c' = prev_bit_d
BY Clock DEF rx!decoder!Controller, rx!decoder!ControllerReset, rx!decoder!ControllerFirstEdge,
     rx!decoder!ControllerDecode, rx!decoder!ControllerHold, rx!decoder!controller_vars,
     Waiting, Decoding

\* What decoder_data does in each of its states.
USE DEF rx!decoder!Decoder, rx!decoder!DecoderReset, rx!decoder!DecoderHold, rx!decoder!Wait,
        rx!decoder!StartCounter, rx!decoder!PassTari, rx!decoder!FirstEdge, rx!decoder!SecondEdge,
        rx!decoder!NoEdge, rx!decoder!HalfTari, rx!decoder!WholeTari, rx!decoder!BadInterval,
        rx!decoder!Error, rx!decoder!LastBit, rx!decoder!StuckHigh, rx!decoder!CounterCS,
        rx!decoder!End, rx!decoder!In, rx!decoder!Goto, rx!decoder!decoder_vars, rx!decoder!Edge,
        rx!decoder!IsHalfTari, rx!decoder!IsTari, rx!decoder!IsCS, rx!decoder!tari_0505,
        rx!decoder!tari_0495, t099, t101, t1584

LEMMA InWait ==
  ASSUME Beat, state_decoder = "d_wait"
  PROVE  /\ data_ready' = 0 /\ data_receiver_end' = 0 /\ clear_counter' = 1
         /\ clock_start' = clock_start /\ eop' = IF clr_eop = 1 THEN 0 ELSE eop
         /\ data_receiver_start = 1 => state_decoder' = "d_start_counter" /\ prev_bit_d' = line
         /\ data_receiver_start # 1 => state_decoder' = "d_wait" /\ prev_bit_d' = prev_bit_d
BY Clock

LEMMA InStartCounter ==
  ASSUME Beat, state_decoder = "d_start_counter"
  PROVE  /\ state_decoder' = "d_wait_counter" /\ clock_start' = 1 /\ prev_bit_d' = prev_bit_d
         /\ UNCHANGED <<data_ready, data_receiver_end, eop>>
BY Clock

LEMMA InWaitCounter ==
  ASSUME Beat, state_decoder \in {"d_wait_counter", "d_wait_counter2"}, clocks_counted \in Nat
  PROVE  /\ UNCHANGED <<data_ready, data_receiver_end, eop>>
         /\ clocks_counted > t101 =>
              state_decoder' = "d_pass_1_01_tari" /\ UNCHANGED <<prev_bit_d, clock_start>>
         /\ clocks_counted <= t101 /\ line = prev_bit_d =>
              UNCHANGED <<state_decoder, prev_bit_d, clock_start>>
         /\ clocks_counted <= t101 /\ line # prev_bit_d =>
              /\ prev_bit_d' = line
              /\ state_decoder = "d_wait_counter" =>
                   state_decoder' = "d_check_counter" /\ clock_start' = clock_start
              /\ state_decoder = "d_wait_counter2" => state_decoder' = "d_check_counter2"
BY Clock, LimitsAssumption

LEMMA InCheck ==
  ASSUME Beat, state_decoder \in {"d_check_counter", "d_check_counter2"}, clocks_counted \in Nat,
         eop = 0
  PROVE  LET half == t099 \div 2 <= clocks_counted /\ clocks_counted <= t101 \div 2
             tari == t099 <= clocks_counted /\ clocks_counted <= t101
         IN /\ UNCHANGED <<data_receiver_end, eop>>
            /\ state_decoder = "d_check_counter" /\ half =>
                 /\ state_decoder' = "d_wait_counter2" /\ prev_bit_d' = line
                 /\ UNCHANGED <<data_ready, clock_start>>
            /\ ~half /\ tari =>
                 /\ state_decoder' = "d_wait" /\ data_ready' = 1 /\ clock_start' = 0
                 /\ clear_counter' = 1 /\ prev_bit_d' = prev_bit_d
            /\ ~half /\ ~tari => state_decoder' = "d_error" /\ data_ready' = data_ready
BY Clock, LimitsAssumption

LEMMA InError ==
  ASSUME Beat, state_decoder = "d_error"
  PROVE  state_decoder' = "d_error" /\ UNCHANGED <<data_ready, eop>>
BY Clock

LEMMA InPass ==
  ASSUME Beat, state_decoder = "d_pass_1_01_tari", line \in Bit
  PROVE  /\ UNCHANGED <<data_receiver_end, eop, prev_bit_d, clock_start>>
         /\ line = 0 => state_decoder' = "d_counter_cs" /\ data_ready' = 1
         /\ line = 1 => state_decoder' = "d_error" /\ data_ready' = data_ready
BY Clock DEF Bit

LEMMA InCounterCS ==
  ASSUME Beat, state_decoder = "d_counter_cs", clocks_counted \in Nat, clocks_counted <= t1584 + 1
  PROVE  /\ data_ready' = 0 /\ UNCHANGED <<prev_bit_d, clock_start>>
         /\ clocks_counted = t1584 + 1 =>
              state_decoder' = "d_end" /\ eop' = 1 /\ data_receiver_end' = 1
         /\ clocks_counted # t1584 + 1 =>
              /\ UNCHANGED <<data_receiver_end, eop>>
              /\ line = prev_bit_d => state_decoder' = "d_counter_cs"
              /\ line # prev_bit_d => state_decoder' = "d_error"
BY Clock, LimitsAssumption

LEMMA InEnd ==
  ASSUME Beat, state_decoder = "d_end"
  PROVE  /\ state_decoder' = "d_wait" /\ clock_start' = 0 /\ data_receiver_end' = 0
         /\ eop' = (IF clr_eop = 1 THEN 0 ELSE eop) /\ UNCHANGED data_ready
BY Clock

\* The bit the decoder gives unless an edge or the lack of one changes it.
Verdict ==
  CASE state_decoder \in {"d_wait_counter", "d_check_counter"} -> 1
    [] state_decoder \in {"d_wait_counter2", "d_check_counter2"} -> 0
    [] state_decoder = "d_pass_1_01_tari" -> IF was_one THEN 1 ELSE 0
    [] OTHER -> data_out_decoder

LEMMA VerdictStep ==
  ASSUME Beat
  PROVE  /\ state_decoder \in {"d_wait", "d_counter_cs"} => data_out_decoder' = data_out_decoder
         /\ state_decoder' = "d_start_counter" => state_decoder = "d_wait"
         /\ state_decoder' = "d_counter_cs" /\ state_decoder # "d_counter_cs" =>
              state_decoder = "d_pass_1_01_tari" /\ data_ready' = 1
         /\ state_decoder = "d_counter_cs" =>
              data_ready' = 0 /\ state_decoder' \in {"d_counter_cs", "d_end", "d_error"}
         /\ state_decoder' # "d_error" /\ state_decoder # "d_start_counter"
              /\ ~(state_decoder = "d_check_counter" /\ state_decoder' = "d_wait_counter2") =>
              Verdict' = Verdict
<1>1. /\ state_decoder \in {"d_wait", "d_counter_cs"} => data_out_decoder' = data_out_decoder
      /\ state_decoder' = "d_start_counter" => state_decoder = "d_wait"
      /\ state_decoder' = "d_counter_cs" /\ state_decoder # "d_counter_cs" =>
           state_decoder = "d_pass_1_01_tari" /\ data_ready' = 1
      /\ state_decoder = "d_counter_cs" =>
           data_ready' = 0 /\ state_decoder' \in {"d_counter_cs", "d_end", "d_error"}
  BY Clock
<1> SUFFICES ASSUME state_decoder' # "d_error", state_decoder # "d_start_counter",
                    ~(state_decoder = "d_check_counter" /\ state_decoder' = "d_wait_counter2")
             PROVE  Verdict' = Verdict
  BY <1>1
<1>2. CASE state_decoder \in {"d_wait_counter", "d_wait_counter2"}
  <2>1. \/ state_decoder' = state_decoder
        \/ state_decoder = "d_wait_counter" /\ state_decoder' = "d_check_counter"
        \/ state_decoder = "d_wait_counter2" /\ state_decoder' = "d_check_counter2"
        \/ state_decoder' = "d_pass_1_01_tari" /\ was_one' = (state_decoder = "d_wait_counter")
    BY <1>2, Clock
  <2>2. CASE state_decoder' = "d_pass_1_01_tari" /\ was_one' = (state_decoder = "d_wait_counter")
    <3>1. was_one' <=> state_decoder = "d_wait_counter"
      BY <2>2, Zenon
    <3> QED
      BY <1>2, <2>2, <3>1 DEF Verdict
  <2> QED
    BY <1>2, <2>1, <2>2 DEF Verdict
<1>3. CASE state_decoder \in {"d_check_counter", "d_check_counter2"}
  <2>1. /\ state_decoder' = "d_wait"
        /\ data_out_decoder' = IF state_decoder = "d_check_counter" THEN 1 ELSE 0
    BY <1>3, Clock
  <2> QED
    BY <1>3, <2>1 DEF Verdict
<1>4. CASE state_decoder = "d_pass_1_01_tari"
  <2>1. state_decoder' = "d_counter_cs" /\ data_out_decoder' = IF was_one THEN 1 ELSE 0
    BY <1>4, Clock
  <2> QED
    BY <1>4, <2>1 DEF Verdict
<1>5. CASE state_decoder \notin {"d_wait_counter", "d_wait_counter2", "d_check_counter",
                                 "d_check_counter2", "d_pass_1_01_tari"}
  <2>1. /\ data_out_decoder' = data_out_decoder
        /\ state_decoder' \in {"d_wait", "d_start_counter", "d_counter_cs", "d_end"}
    BY <1>5, Clock
  <2> QED
    BY <1>5, <2>1 DEF Verdict
<1> QED
  BY <1>2, <1>3, <1>4, <1>5

HIDE DEF rx!decoder!Decoder, rx!decoder!DecoderReset, rx!decoder!DecoderHold, rx!decoder!Wait,
        rx!decoder!StartCounter, rx!decoder!PassTari, rx!decoder!FirstEdge, rx!decoder!SecondEdge,
        rx!decoder!NoEdge, rx!decoder!HalfTari, rx!decoder!WholeTari, rx!decoder!BadInterval,
        rx!decoder!Error, rx!decoder!LastBit, rx!decoder!StuckHigh, rx!decoder!CounterCS,
        rx!decoder!End, rx!decoder!In, rx!decoder!Goto, rx!decoder!decoder_vars, rx!decoder!Edge,
        rx!decoder!IsHalfTari, rx!decoder!IsTari, rx!decoder!IsCS, rx!decoder!tari_0505,
        rx!decoder!tari_0495, t099, t101, t1584

\* The constructor while no end of a command is announced.
LEMMA StoringStep ==
  ASSUME Beat, eop = 0, clr_eop # 1, state_contructor # "c_send_void_package",
         write_request = 1 => state_contructor = "c_send_package"
  PROVE  /\ clr_eop' # 1 /\ state_contructor' # "c_send_void_package"
         /\ write_request' = 1 => state_contructor' = "c_send_package" /\ mask_integer' # 0
         /\ \A n \in Int : data_ready = 0 /\ Storing(state_contructor, n) =>
                             Storing(state_contructor', n + 1)
         /\ data_ready = 1 /\ state_contructor = "c_wait" => Storing(state_contructor', 1)
         /\ data_ready = 0 /\ state_contructor \in {"c_wait", "c_check_eop"} =>
              state_contructor' = "c_wait"
BY Clock, DataWidthAssumption
   DEF rx!pack_const!Tick, rx!pack_const!Reset, rx!pack_const!WaitBit, rx!pack_const!WaitEop, rx!pack_const!WaitIdle,
       rx!pack_const!NewBit, rx!pack_const!IncMask, rx!pack_const!MaskOverflow,
       rx!pack_const!NoMaskOverflow, rx!pack_const!SendPackage, rx!pack_const!Clear,
       rx!pack_const!EopWithBits, rx!pack_const!EopWithoutBits, rx!pack_const!NoEop,
       rx!pack_const!SendVoidPackage, rx!pack_const!SendOpenPackage,
       rx!pack_const!WaitClearFlags, rx!pack_const!In, rx!pack_const!Goto, Storing

-----------------------------------------------------------------------------
(* One clock of the tag.                                                   *)

\* Every symbol has room for the hand-overs, and one in time fits the decoder's windows.
LEMMA Lengths ==
  ASSUME NEW p \in Pairs
  PROVE  /\ p[1] \in Nat /\ p[2] \in Nat /\ t099 \in Nat /\ t101 \in Nat /\ t1584 \in Nat
         /\ 4 <= t099 /\ t099 <= t101 /\ t101 \div 2 \in Nat /\ t099 \div 2 \in Nat
         /\ t101 \div 2 < t099 /\ t101 + 7 <= t1584
         /\ 4 <= p[2] /\ p[2] + 2 <= p[1] /\ p[2] <= t099 + 1
         /\ t101 \div 2 + 4 <= p[1] /\ p[1] < t1584
         /\ p \in Wholes \X Halves =>
              /\ t099 + 3 <= p[1] /\ p[1] <= t101 + 2
              /\ t099 \div 2 + 3 <= p[2] /\ p[2] <= t101 \div 2 + 2
<1>1. /\ t099 \in Nat /\ t101 \in Nat /\ t1584 \in Nat
      /\ 4 <= t099 /\ t099 <= t101 /\ t101 \div 2 < t099 /\ t101 + 7 <= t1584
  BY LimitsAssumption DEF t099, t101, t1584
<1>2. /\ t101 \div 2 \in Nat /\ t099 \div 2 \in Nat
      /\ t099 \div 2 <= t101 \div 2 /\ t099 >= 2 * (t099 \div 2) /\ t099 \div 2 >= 2
  BY <1>1
<1>3. CASE p \in Wholes \X Halves
  <2>1. /\ p[1] \in t099 + 3 .. t101 + 2 /\ p[2] \in t099 \div 2 + 3 .. t101 \div 2 + 2
    BY <1>3, InTimeAssumption DEF t099, t101
  <2> QED
    BY ONLY <1>1, <1>2, <2>1
<1>4. CASE p \in WrongWholes \X WrongHalves /\ p \notin Wholes \X Halves
  <2>1. /\ p[1] \in t101 \div 2 + 4 .. t1584 - 1 /\ p[2] \in 4 .. t099 + 1 /\ p[2] + 2 <= p[1]
    BY <1>4, WrongAssumption DEF t099, t101, t1584
  <2> QED
    BY ONLY <1>1, <1>2, <1>4, <2>1
<1> QED
  BY <1>3, <1>4 DEF Pairs

\* A symbol that begins: its lengths are those of a pair.
NewSymbol == \E p \in Pairs : Fits(p) /\ Begun(p[1], p[2], 0)

LEMMA SymbolBegins ==
  ASSUME NEW bit, NEW kept \in BOOLEAN, SendSymbol(bit, kept), phase' = "sending", line \in Bit
  PROVE  /\ NewSymbol' /\ line' = 1 - line /\ in_time' \in BOOLEAN /\ (in_time' => kept)
         /\ left' \in Nat /\ second' \in Nat
<1>1. PICK p \in Pairs : SymbolOf(bit, p[1], p[2]) /\ in_time' \in BOOLEAN /\ (in_time' => kept)
                         /\ (in_time' => p \in Wholes \X Halves)
  <2>1. CASE /\ \E whole \in Wholes, half \in Halves : SymbolOf(bit, whole, half)
             /\ in_time' = kept
    <3>1. PICK whole \in Wholes, half \in Halves : SymbolOf(bit, whole, half)
      BY <2>1
    <3>2. <<whole, half>> \in Wholes \X Halves /\ <<whole, half>> \in Pairs
      BY DEF Pairs
    <3> QED
      BY <2>1, <3>1, <3>2
  <2>2. CASE /\ \E whole \in WrongWholes, half \in WrongHalves : SymbolOf(bit, whole, half)
             /\ in_time' = FALSE
    <3>1. PICK whole \in WrongWholes, half \in WrongHalves : SymbolOf(bit, whole, half)
      BY <2>2
    <3>2. <<whole, half>> \in Pairs
      BY DEF Pairs
    <3> QED
      BY <2>2, <3>1, <3>2
  <2> QED
    BY <2>1, <2>2 DEF SendSymbol
<1>2. /\ p[1] \in Nat /\ p[2] \in Nat /\ 4 <= p[2] /\ p[2] + 2 <= p[1]
  BY ONLY <1>1, Lengths
<1>3. left' \in Nat /\ second' \in Nat /\ line' = 1 - line /\ Begun(p[1], p[2], 0)'
  BY <1>1, <1>2 DEF SymbolOf, Begun, Lasts, Ends, Splits
<1>4. Fits(p)'
  BY <1>1 DEF Fits
<1> QED
  BY <1>1, <1>3, <1>4 DEF NewSymbol

LEMMA RestStep ==
  ASSUME Tag, ~BeginAnswer, AtRest, TypeInv
  PROVE  AtRest' /\ UNCHANGED <<line, in_time, answer>> /\ left' \in Nat /\ second' \in Nat
BY DEF Tag, StaySilent, HoldLevel, SecondHalf, NextSymbol, Rest, FallSilent, AtRest, TypeInv, tag_vars

\* The level is held, or the symbol ends and another begins, or the rest.
LEMMA EndsStep ==
  ASSUME Tag, TypeInv, NEW p \in Pairs, Fits(p), NEW e \in Nat, Ends(p[1], e)
  PROVE  /\ left' \in Nat /\ second' \in Nat /\ line' \in Bit /\ answer' = answer
         /\ in_time' \in BOOLEAN /\ (in_time' => in_time)
         /\ \/ Lasts(p[1], e + 1)' /\ UNCHANGED <<line, in_time>>
            \/ NewSymbol' /\ line' # line /\ e + 1 = p[1]
<1>1. p[1] \in Nat /\ RestClocks \in Nat /\ RestClocks > 0
  BY Lengths, TagAssumption
<1>2. CASE HoldLevel
  BY <1>1, <1>2 DEF HoldLevel, Ends, Lasts, TypeInv
<1>3. CASE NextSymbol
  <2>1. /\ phase' = "sending" /\ left = 1 /\ second = 0 /\ answer' = answer
        /\ SendSymbol(Head(bits), in_time)
    BY <1>3 DEF NextSymbol
  <2>2. /\ NewSymbol' /\ line' = 1 - line /\ in_time' \in BOOLEAN /\ (in_time' => in_time)
        /\ left' \in Nat /\ second' \in Nat
    BY <2>1, SymbolBegins DEF TypeInv
  <2> QED
    BY <1>1, <2>1, <2>2 DEF Ends, TypeInv, Bit
<1>4. CASE Rest
  <2>1. /\ AtRest' /\ UNCHANGED <<in_time, answer, second>> /\ left' \in Nat /\ left = 1 /\ line' = 0
    BY <1>1, <1>4 DEF Rest, AtRest
  <2>2. CASE line = 0
    BY <1>1, <2>1, <2>2 DEF Lasts, TypeInv, Bit
  <2>3. CASE line # 0
    <3>1. Fits(p)' /\ Begun(p[1], p[2], 0)'
      BY <2>1 DEF Fits, Begun, Lasts
    <3>2. NewSymbol'
      BY <3>1 DEF NewSymbol
    <3> QED
      BY <1>1, <2>1, <2>3, <3>2 DEF TypeInv, Bit, Ends
  <2> QED
    BY <2>2, <2>3
<1> QED
  BY <1>2, <1>3, <1>4 DEF Tag, BeginAnswer, StaySilent, SecondHalf, FallSilent, Ends

LEMMA SplitsStep ==
  ASSUME Tag, TypeInv, NEW p \in Pairs, NEW e \in Nat, Splits(p[1], p[2], e)
  PROVE  /\ left' \in Nat /\ second' \in Nat /\ line' \in Bit /\ UNCHANGED <<in_time, answer>>
         /\ \/ Splits(p[1], p[2], e + 1)' /\ line' = line
            \/ Ends(p[1], p[2])' /\ line' # line /\ e + 1 = p[2]
<1>1. p[1] \in Nat /\ p[2] \in Nat /\ p[2] + 2 <= p[1]
  BY Lengths
<1>2. CASE HoldLevel
  BY <1>1, <1>2 DEF HoldLevel, Splits, TypeInv
<1>3. CASE SecondHalf
  BY <1>1, <1>3 DEF SecondHalf, Splits, Ends, TypeInv, Bit
<1> QED
  BY <1>1, <1>2, <1>3 DEF Tag, BeginAnswer, StaySilent, NextSymbol, Rest, FallSilent, Splits

\* What one clock does to the place in a symbol.
LevelHeld(p, e) ==
  /\ UNCHANGED <<line, in_time>> /\ Begun(p[1], p[2], e + 1)'
  /\ Lasts(p[1], e) => Lasts(p[1], e + 1)'
  /\ AtRest => AtRest'
MiddleEdge(p, e) ==
  line' # line /\ in_time' = in_time /\ e + 1 = p[2] /\ Splits(p[1], p[2], e) /\ Ends(p[1], p[2])'
LastEdge(p, e) ==
  line' # line /\ (in_time' => in_time) /\ e + 1 = p[1] /\ Ends(p[1], e) /\ NewSymbol'

LEMMA BegunStep ==
  ASSUME Tag, ~BeginAnswer, TypeInv, NEW p \in Pairs, Fits(p), NEW e \in Nat, Begun(p[1], p[2], e)
  PROVE  /\ left' \in Nat /\ second' \in Nat /\ line' \in Bit /\ answer' = answer
         /\ in_time' \in BOOLEAN /\ (in_time' => in_time)
         /\ LevelHeld(p, e) \/ MiddleEdge(p, e) \/ LastEdge(p, e)
<1>1. CASE AtRest
  <2>1. /\ AtRest' /\ UNCHANGED <<line, in_time, answer>> /\ left' \in Nat /\ second' \in Nat
    BY <1>1, RestStep
  <2> QED
    BY <2>1 DEF LevelHeld, Begun, Lasts, TypeInv
<1>2. CASE Ends(p[1], e)
  <2>1. ~AtRest
    BY <1>2 DEF Ends, AtRest
  <2> QED
    BY <1>2, <2>1, EndsStep DEF LevelHeld, LastEdge, Begun
<1>3. CASE Splits(p[1], p[2], e)
  <2>1. ~AtRest /\ ~Ends(p[1], e)
    BY <1>3, Lengths DEF Ends, AtRest, Splits
  <2> QED
    BY <1>3, <2>1, SplitsStep DEF LevelHeld, MiddleEdge, Begun, Lasts, TypeInv
<1> QED
  BY <1>1, <1>2, <1>3 DEF Begun, Lasts

LEMMA HearsOn ==
  ASSUME eop' = 0, NEW p \in Pairs, Fits(p), in_time' = in_time, NEW e \in Nat, Hears(p[1], p[2], e)'
  PROVE  Hearing'
<1>1. Fits(p)'
  BY DEF Fits
<1> QED
  BY <1>1 DEF Hearing

LEMMA HearsNew ==
  ASSUME eop' = 0, NewSymbol', Opening(0)' \/ Closing(0)' \/ Late(0)'
  PROVE  Hearing'
<1>1. PICK p \in Pairs : Fits(p)' /\ Begun(p[1], p[2], 0)'
  BY DEF NewSymbol
<1>2. Hears(p[1], p[2], 0)'
  BY <1>1 DEF Hears
<1> QED
  BY <1>1, <1>2 DEF Hearing

-----------------------------------------------------------------------------
(* One clock of the tag, the decoder and the constructor together, in each *)
(* of the places of a command.                                             *)

\* The constructor stores bits, and has no end to announce.
BitsOnly ==
  /\ eop = 0 /\ clr_eop # 1 /\ state_contructor # "c_send_void_package"
  /\ write_request = 1 => state_contructor = "c_send_package"

LEMMA OpeningStep ==
  ASSUME Beat, ~BeginAnswer, TypeInv, BitsOnly, NEW p \in Pairs, Fits(p), NEW e \in Nat,
         Begun(p[1], p[2], e), Opening(e)
  PROVE  LevelHeld(p, e) /\ eop' = 0 /\ (Opening(e + 1)' \/ Starting(e + 1)')
<1>1. LevelHeld(p, e) /\ line \in Bit
  BY Clock, BegunStep, Lengths DEF Opening, MiddleEdge, LastEdge, TypeInv
<1>2. in_time' = in_time /\ line' = line /\ Begun(p[1], p[2], e + 1)'
  BY <1>1 DEF LevelHeld
<1>3. /\ data_ready' = 0 /\ data_receiver_end' = 0 /\ clear_counter' = 1 /\ clock_start' = 0
      /\ eop' = 0 /\ state_contructor' = "c_wait"
  BY InWait, StoringStep DEF Opening, BitsOnly
<1>4. CASE e = 0
  <2>1. state_decoder' = "d_wait" /\ Decoding'
    BY <1>3, <1>4, InWait, ClockOfController DEF Opening, Waiting, Decoding
  <2>2. Opening(e + 1)'
    BY <1>3, <1>4, <2>1 DEF Opening
  <2> QED
    BY <1>1, <1>3, <2>2
<1>5. CASE e = 1
  <2>1. state_decoder' = "d_start_counter" /\ prev_bit_d' = line /\ Decoding' /\ clocks_counted' = 0
    BY <1>3, <1>5, InWait, ClockOfController, ClockOfCounter DEF Opening, Decoding
  <2>2. Starting(e + 1)'
    BY <1>2, <1>3, <1>5, <2>1 DEF Starting, Storing
  <2> QED
    BY <1>1, <1>3, <2>2
<1> QED
  BY <1>4, <1>5 DEF Opening

LEMMA StartingStep ==
  ASSUME Beat, ~BeginAnswer, TypeInv, BitsOnly, NEW p \in Pairs, Fits(p), NEW e \in Nat,
         Begun(p[1], p[2], e), Starting(e)
  PROVE  /\ eop' = 0
         /\ \/ LevelHeld(p, e) /\ FirstHalf(e + 1)'
            \/ MiddleEdge(p, e) /\ Halving(p[2], e + 1)'
<1>1. /\ state_decoder' = "d_wait_counter" /\ clock_start' = 1 /\ prev_bit_d' = prev_bit_d
      /\ data_ready' = 0 /\ eop' = 0 /\ clocks_counted' = 0 /\ Decoding'
  BY InStartCounter, ClockOfController, ClockOfCounter DEF Starting, BitsOnly, Decoding
<1>2. Storing(state_contructor', clocks_counted' + 2)
  BY <1>1, StoringStep DEF Starting, BitsOnly
<1>3. Counts(e + 1)'
  BY <1>1 DEF Counts, Starting
<1>4. CASE LevelHeld(p, e)
  <2>1. in_time' = in_time /\ line' = line /\ Begun(p[1], p[2], e + 1)'
    BY <1>4 DEF LevelHeld
  <2>2. t101 \in Nat
    BY Lengths
  <2>3. Counting(e + 1)'
    BY <1>1, <1>2, <1>3, <2>1, <2>2 DEF Counting, Starting
  <2> QED
    BY <1>1, <1>4, <2>3 DEF FirstHalf
<1>5. CASE MiddleEdge(p, e)
  <2>1. line' # line /\ in_time' = in_time /\ e + 1 = p[2] /\ Ends(p[1], p[2])'
    BY <1>5 DEF MiddleEdge
  <2>2. Halving(p[2], e + 1)'
    BY <1>1, <1>2, <1>3, <2>1 DEF Halving, Starting
  <2> QED
    BY <1>1, <1>5, <2>2
<1>6. ~LastEdge(p, e)
  BY Lengths DEF LastEdge, Starting
<1> QED
  BY <1>4, <1>5, <1>6, Clock, BegunStep

LEMMA ClosingStep ==
  ASSUME Beat, ~BeginAnswer, TypeInv, BitsOnly, NEW p \in Pairs, Fits(p), NEW e \in Nat,
         Begun(p[1], p[2], e), Closing(e)
  PROVE  (LevelHeld(p, e) /\ eop' = 0 /\ (Closing(e + 1)' \/ Starting(e + 1)')) \/ Failed'
<1>1. LevelHeld(p, e) /\ line \in Bit
  BY Clock, BegunStep, Lengths DEF Closing, MiddleEdge, LastEdge, TypeInv
<1>2. in_time' = in_time /\ line' = line /\ Begun(p[1], p[2], e + 1)'
  BY <1>1 DEF LevelHeld
<1>3. clocks_counted \in Nat /\ t101 \in Nat /\ t099 \in Nat /\ t101 \div 2 \in Nat /\ 4 <= t099
  BY Lengths DEF TypeInv
<1>4. CASE e = 0 /\ EdgeIsThere
  <2>1. /\ state_decoder' \in {"d_check_counter", "d_check_counter2"} /\ prev_bit_d' = line
        /\ data_ready' = 0 /\ eop' = 0 /\ clocks_counted' = clocks_counted + 1 /\ Decoding'
    BY <1>3, <1>4, InWaitCounter, ClockOfController, ClockOfCounter
       DEF EdgeIsThere, BitsOnly, Decoding
  <2>2. Storing(state_contructor', clocks_counted' + 2)
    BY <1>3, <1>4, <2>1, StoringStep DEF EdgeIsThere, BitsOnly
  <2>3. Closing(e + 1)'
    BY <1>2, <1>3, <1>4, <2>1, <2>2 DEF Closing, EdgeIsChecked, EdgeIsThere
  <2> QED
    BY <1>1, <2>1, <2>3
<1>5. CASE e = 1 /\ EdgeIsChecked
  <2>1. ~(t099 \div 2 <= clocks_counted /\ clocks_counted <= t101 \div 2)
    BY <1>3, <1>5 DEF EdgeIsChecked
  <2>2. CASE t099 <= clocks_counted /\ clocks_counted <= t101
    <3>1. /\ state_decoder' = "d_wait" /\ data_ready' = 1 /\ clock_start' = 0 /\ clear_counter' = 1
          /\ prev_bit_d' = prev_bit_d /\ eop' = 0 /\ Decoding'
      BY <1>3, <1>5, <2>1, <2>2, InCheck, ClockOfController DEF EdgeIsChecked, BitsOnly, Decoding
    <3>2. state_contructor = "c_wait" /\ data_ready = 0
      BY <1>3, <1>5, <2>2 DEF EdgeIsChecked, Storing
    <3>3. state_contructor' = "c_wait"
      BY <3>2, StoringStep DEF BitsOnly
    <3>4. Closing(e + 1)'
      BY <1>2, <1>5, <3>1, <3>3 DEF Closing, BitIsGiven, EdgeIsChecked
    <3> QED
      BY <1>1, <3>1, <3>4
  <2>3. CASE ~(t099 <= clocks_counted /\ clocks_counted <= t101)
    <3>1. state_decoder' = "d_error" /\ data_ready' = 0 /\ eop' = 0 /\ ~in_time'
      BY <1>2, <1>3, <1>5, <2>1, <2>3, InCheck DEF EdgeIsChecked, BitsOnly
    <3> QED
      BY <3>1, StoringStep DEF Failed, BitsOnly
  <2> QED
    BY <2>2, <2>3
<1>6. CASE e = 2 /\ BitIsGiven
  <2>1. /\ state_decoder' = "d_start_counter" /\ prev_bit_d' = line /\ data_ready' = 0 /\ eop' = 0
        /\ clock_start' = 0 /\ clear_counter' = 1 /\ clocks_counted' = 0 /\ Decoding'
    BY <1>6, InWait, ClockOfController, ClockOfCounter DEF BitIsGiven, BitsOnly, Decoding
  <2>2. Storing(state_contructor', 1)
    BY <1>6, StoringStep DEF BitIsGiven, BitsOnly
  <2>3. Starting(e + 1)'
    BY <1>2, <1>6, <2>1, <2>2 DEF Starting
  <2> QED
    BY <1>1, <2>1, <2>3
<1> QED
  BY <1>4, <1>5, <1>6 DEF Closing

\* The symbol has an edge while the decoder counts: in time for a bit, or late.
LEMMA EdgeStep ==
  ASSUME TypeInv, NEW p \in Pairs, Fits(p), NEW e \in Nat, Counts(e),
         LastEdge(p, e), eop' = 0, Decoding', data_ready' = 0, clock_start' = 1, line = prev_bit_d',
         clocks_counted' = clocks_counted + 1, clocks_counted <= t101 + 1, line' \in Bit,
         Storing(state_contructor', clocks_counted' + 2),
         IF clocks_counted <= t101 THEN state_decoder' \in {"d_wait_counter", "d_wait_counter2"}
                                   ELSE state_decoder' = "d_pass_1_01_tari"
  PROVE  Closing(0)' \/ Late(0)'
<1>1. /\ line' # line /\ (in_time' => in_time) /\ e + 1 = p[1] /\ NewSymbol'
  BY DEF LastEdge
<1>2. /\ p[1] \in Nat /\ t099 \in Nat /\ t101 \in Nat /\ t1584 \in Nat /\ t101 \div 2 \in Nat
      /\ clocks_counted \in Nat /\ t101 \div 2 + 4 <= p[1] /\ p[1] < t1584
      /\ 4 <= t099 /\ t099 <= t101 /\ t101 + 7 <= t1584
      /\ (in_time => t099 + 3 <= p[1] /\ p[1] <= t101 + 2)
      /\ e \in {clocks_counted + 3, clocks_counted + 4}
  BY Lengths DEF TypeInv, Fits, Counts
<1>3. clocks_counted' = p[1] - 3 \/ clocks_counted' = p[1] - 4
  BY <1>1, <1>2
<1>4. CASE clocks_counted' <= t101
  <2>1. clocks_counted <= t101
    BY <1>2, <1>4
  <2>2. /\ clocks_counted' \in t101 \div 2 .. t101
        /\ in_time' => clocks_counted' \in t099 - 1 .. t101 - 1
    BY <1>1, <1>2, <1>3, <1>4
  <2>3. Closing(0)'
    BY <1>1, <2>1, <2>2 DEF Closing, EdgeIsThere
  <2> QED
    BY <2>3
<1>5. CASE clocks_counted' > t101
  <2>1. ~in_time' /\ clocks_counted' <= t1584 - 4
    BY <1>1, <1>2, <1>3, <1>5
  <2>2. state_contructor' = "c_wait"
    BY <1>2, <1>5 DEF Storing
  <2>3. Late(0)'
    BY <1>1, <1>2, <1>5, <2>1, <2>2 DEF Late, TariHasPassed
  <2> QED
    BY <2>3
<1> QED
  BY <1>2, <1>4, <1>5

LEMMA CountingStep ==
  ASSUME Beat, ~BeginAnswer, TypeInv, BitsOnly, NEW p \in Pairs, Fits(p), NEW e \in Nat,
         \/ FirstHalf(e) /\ Begun(p[1], p[2], e)
         \/ LaterHalf(e) /\ Lasts(p[1], e)
  PROVE  /\ eop' = 0
         /\ \/ LevelHeld(p, e) /\ FirstHalf(e) /\ FirstHalf(e + 1)'
            \/ LevelHeld(p, e) /\ LaterHalf(e) /\ Lasts(p[1], e) /\ LaterHalf(e + 1)'
            \/ LevelHeld(p, e) /\ Lasts(p[1], e) /\ Passing(e + 1)'
            \/ MiddleEdge(p, e) /\ FirstHalf(e) /\ Halving(p[2], e + 1)'
            \/ LastEdge(p, e) /\ (Closing(0)' \/ Late(0)')
<1>0. Counting(e) /\ state_decoder \in {"d_wait_counter", "d_wait_counter2"}
  BY DEF FirstHalf, LaterHalf
<1>1. /\ p[1] \in Nat /\ p[2] \in Nat /\ t099 \in Nat /\ t101 \in Nat /\ clocks_counted \in Nat
      /\ p[2] <= t099 + 1 /\ t099 <= t101 /\ 4 <= t099 /\ t101 + 7 <= t1584 /\ t1584 \in Nat
      /\ (in_time => p[1] <= t101 + 2)
  BY <1>0, Lengths DEF TypeInv, Fits, Counting, Counts
<1>2. /\ eop' = 0 /\ data_ready' = 0 /\ clock_start' = 1 /\ prev_bit_d' = line
      /\ clocks_counted' = clocks_counted + 1 /\ Decoding' /\ Counts(e + 1)'
      /\ clocks_counted <= t101 => state_decoder' = state_decoder
      /\ clocks_counted > t101 => state_decoder' = "d_pass_1_01_tari"
  <2>1. /\ UNCHANGED <<data_ready, data_receiver_end, eop, prev_bit_d, clock_start>>
        /\ clocks_counted <= t101 => state_decoder' = state_decoder
        /\ clocks_counted > t101 => state_decoder' = "d_pass_1_01_tari"
    BY <1>0, <1>1, InWaitCounter DEF Counting
  <2>2. clocks_counted' = clocks_counted + 1 /\ Decoding'
    BY <1>0, <2>1, ClockOfController, ClockOfCounter DEF Counting, Counts, Decoding
  <2> QED
    BY <1>0, <1>1, <2>1, <2>2 DEF Counting, Counts, BitsOnly
<1>3. Storing(state_contructor', clocks_counted' + 2)
  BY <1>0, <1>1, <1>2, StoringStep DEF Counting, BitsOnly
<1>4. /\ line' \in Bit /\ (LevelHeld(p, e) \/ MiddleEdge(p, e) \/ LastEdge(p, e))
      /\ Begun(p[1], p[2], e)
  BY Clock, BegunStep DEF Begun
<1>5. CASE LevelHeld(p, e)
  <2>1. /\ UNCHANGED <<line, in_time>> /\ Begun(p[1], p[2], e + 1)'
        /\ (Lasts(p[1], e) => Lasts(p[1], e + 1)') /\ (AtRest => AtRest')
    BY <1>5 DEF LevelHeld
  <2>2. CASE clocks_counted <= t101
    <3>1. Counting(e + 1)'
      BY <1>1, <1>2, <1>3, <2>1, <2>2 DEF Counting
    <3> QED
      BY <1>2, <1>5, <2>2, <3>1 DEF FirstHalf, LaterHalf
  <2>3. CASE clocks_counted > t101
    <3>1. clocks_counted = t101 + 1 /\ e >= t101 + 4
      BY <1>0, <1>1, <2>3 DEF Counting, Counts
    <3>2. ~Splits(p[1], p[2], e)
      BY <1>1, <3>1 DEF Splits, TypeInv
    <3>3. Lasts(p[1], e) /\ (in_time => AtRest)
      BY <1>1, <1>4, <3>1, <3>2 DEF Begun, Lasts, Ends, TypeInv
    <3>4. state_contructor' = "c_wait"
      BY <1>1, <1>2, <1>3, <3>1 DEF Storing
    <3>5. Passing(e + 1)'
      BY <1>1, <1>2, <2>1, <2>3, <3>1, <3>3, <3>4 DEF Passing, TariHasPassed
    <3> QED
      BY <1>2, <1>5, <3>3, <3>5
  <2> QED
    BY <1>1, <2>2, <2>3
<1>6. CASE MiddleEdge(p, e)
  <2>1. /\ line' # line /\ in_time' = in_time /\ e + 1 = p[2] /\ Splits(p[1], p[2], e)
        /\ Ends(p[1], p[2])'
    BY <1>6 DEF MiddleEdge
  <2>2. FirstHalf(e) /\ state_decoder = "d_wait_counter" /\ clocks_counted <= t101
    BY <1>0, <1>1, <2>1, Lengths DEF Splits, Lasts, Ends, AtRest, FirstHalf, Counting, Counts
  <2>3. Halving(p[2], e + 1)'
    BY <1>2, <1>3, <2>1, <2>2 DEF Halving
  <2> QED
    BY <1>2, <1>6, <2>2, <2>3
<1>7. CASE LastEdge(p, e)
  BY <1>0, <1>1, <1>2, <1>3, <1>4, <1>7, EdgeStep DEF Counting
<1> QED
  BY <1>4, <1>5, <1>6, <1>7

LEMMA HalvingStep ==
  ASSUME Beat, ~BeginAnswer, TypeInv, BitsOnly, NEW p \in Pairs, Fits(p), NEW e \in Nat,
         Halving(p[2], e), Ends(p[1], e)
  PROVE  \/ Failed'
         \/ /\ eop' = 0
            /\ \/ LevelHeld(p, e) /\ Ends(p[1], e + 1)' /\ Halving(p[2], e + 1)'
               \/ LevelHeld(p, e) /\ Lasts(p[1], e + 1)' /\ LaterHalf(e + 1)'
               \/ LastEdge(p, e) /\ Closing(0)' /\ state_decoder' = "d_wait_counter2"
               \/ LastEdge(p, e) /\ Late(0)' /\ state_decoder' = "d_wait_counter2"
<1>1. /\ p[1] \in Nat /\ p[2] \in Nat /\ t099 \in Nat /\ t101 \in Nat /\ clocks_counted \in Nat
      /\ p[2] <= t099 + 1 /\ t099 <= t101 /\ p[2] + 2 <= p[1] /\ t101 \div 2 < t099
      /\ t101 \div 2 \in Nat /\ t099 \div 2 \in Nat
      /\ (in_time => t099 \div 2 + 3 <= p[2] /\ p[2] <= t101 \div 2 + 2)
      /\ e \in {clocks_counted + 3, clocks_counted + 4}
  BY Lengths DEF TypeInv, Fits, Halving, Counts
<1>2. /\ line' \in Bit /\ (in_time' => in_time) /\ (LevelHeld(p, e) \/ LastEdge(p, e))
  <2>1. ~Splits(p[1], p[2], e)
    BY <1>1 DEF Splits, Ends
  <2> QED
    BY <2>1, Clock, BegunStep DEF Begun, Lasts, MiddleEdge
<1>3. LevelHeld(p, e) => UNCHANGED <<line, in_time>> /\ Lasts(p[1], e + 1)' /\ Begun(p[1], p[2], e + 1)'
  BY DEF LevelHeld, Lasts
<1>4. CASE e = p[2] /\ state_decoder = "d_wait_counter" /\ line # prev_bit_d
  <2>1. clocks_counted <= t101
    BY <1>1, <1>4
  <2>2. /\ state_decoder' = "d_check_counter" /\ prev_bit_d' = line /\ eop' = 0 /\ data_ready' = 0
        /\ clock_start' = 1 /\ clocks_counted' = clocks_counted + 1 /\ Decoding'
    BY <1>1, <1>4, <2>1, InWaitCounter, ClockOfController, ClockOfCounter
       DEF Halving, Counts, Decoding, BitsOnly
  <2>3. Storing(state_contructor', clocks_counted' + 2)
    BY <1>1, <2>2, StoringStep DEF Halving, BitsOnly
  <2>4. LevelHeld(p, e)
    BY <1>1, <1>2, <1>4 DEF LastEdge
  <2>5. Ends(p[1], e + 1)'
    <3>1. ~AtRest'
      BY <1>1, <1>4, <2>4, Clock
         DEF Ends, AtRest, Tag, BeginAnswer, StaySilent, HoldLevel, SecondHalf, NextSymbol, Rest, FallSilent,
             TypeInv
    <3> QED
      BY <1>3, <2>4, <3>1 DEF Lasts
  <2>6. Halving(p[2], e + 1)'
    BY <1>1, <1>3, <1>4, <2>2, <2>3, <2>4 DEF Halving, Counts
  <2> QED
    BY <2>2, <2>4, <2>5, <2>6
<1>5. CASE e = p[2] + 1 /\ state_decoder = "d_check_counter" /\ line = prev_bit_d
  <2>1. CASE t099 \div 2 <= clocks_counted /\ clocks_counted <= t101 \div 2
    <3>1. /\ state_decoder' = "d_wait_counter2" /\ prev_bit_d' = line /\ eop' = 0 /\ data_ready' = 0
          /\ clock_start' = 1 /\ clocks_counted' = clocks_counted + 1 /\ Decoding'
      BY <1>1, <1>5, <2>1, InCheck, ClockOfController, ClockOfCounter
         DEF Halving, Counts, Decoding, BitsOnly
    <3>2. Storing(state_contructor', clocks_counted' + 2)
      BY <1>1, <3>1, StoringStep DEF Halving, BitsOnly
    <3>3. clocks_counted <= t101
      BY <1>1, <2>1
    <3>4. CASE LevelHeld(p, e)
      <4>1. Counting(e + 1)'
        BY <1>1, <1>3, <3>1, <3>2, <3>3, <3>4 DEF Counting, Counts
      <4> QED
        BY <1>3, <3>1, <3>4, <4>1 DEF LaterHalf
    <3>5. CASE LastEdge(p, e)
      BY <1>1, <1>2, <3>1, <3>2, <3>3, <3>5, EdgeStep DEF Halving
    <3> QED
      BY <1>2, <3>4, <3>5
  <2>2. CASE ~(t099 \div 2 <= clocks_counted /\ clocks_counted <= t101 \div 2)
    <3>1. ~in_time' /\ ~(t099 <= clocks_counted /\ clocks_counted <= t101)
      BY <1>1, <1>2, <1>5, <2>2
    <3>2. state_decoder' = "d_error" /\ data_ready' = 0 /\ eop' = 0
      BY <1>1, <1>5, <2>2, <3>1, InCheck DEF Halving, BitsOnly
    <3> QED
      BY <3>1, <3>2, StoringStep DEF Failed, BitsOnly
  <2> QED
    BY <2>1, <2>2
<1> QED
  BY <1>4, <1>5 DEF Halving

\* The constructor stores the last bit while the decoder waits for the end of the command.
LEMMA LastBitStored ==
  ASSUME Beat, TypeInv, BitsOnly, LastBitIsGiven, clock_start = 1, t101 \in Nat
  PROVE  /\ clocks_counted' = clocks_counted + 1
         /\ Storing(state_contructor', clocks_counted' - t101 - 3)
         /\ clocks_counted >= t101 + 8 => state_contructor' = "c_wait"
<1>1. clocks_counted' = clocks_counted + 1 /\ clocks_counted \in Nat
  BY ClockOfCounter DEF TypeInv
<1>2. CASE clocks_counted = t101 + 3
  <2>1. data_ready = 1 /\ state_contructor = "c_wait"
    BY <1>2 DEF LastBitIsGiven, Storing
  <2>2. Storing(state_contructor', 1)
    BY <2>1, StoringStep DEF BitsOnly
  <2> QED
    BY <1>1, <1>2, <2>2
<1>3. CASE clocks_counted # t101 + 3
  <2>1. data_ready = 0 /\ Storing(state_contructor, clocks_counted - t101 - 3)
    BY <1>3 DEF LastBitIsGiven
  <2>2. Storing(state_contructor', (clocks_counted - t101 - 3) + 1)
    BY <1>1, <2>1, StoringStep DEF BitsOnly
  <2>3. (clocks_counted - t101 - 3) + 1 = clocks_counted' - t101 - 3
    BY <1>1
  <2>4. clocks_counted >= t101 + 8 => state_contructor' = "c_wait"
    BY <1>1, <2>2 DEF Storing
  <2> QED
    BY <1>1, <2>2, <2>3, <2>4
<1> QED
  BY <1>2, <1>3

LEMMA PassingStep ==
  ASSUME Beat, ~BeginAnswer, TypeInv, BitsOnly, NEW p \in Pairs, Fits(p), NEW e \in Nat,
         Passing(e), Lasts(p[1], e)
  PROVE  \/ LevelHeld(p, e) /\ Lasts(p[1], e + 1)' /\ eop' = 0 /\ Passing(e + 1)'
         \/ LastEdge(p, e) /\ eop' = 0 /\ Late(0)'
         \/ Failed'
         \/ AtRest /\ LastBitIsGiven /\ data_ready = 0 /\ Announcing'
<1>1. /\ p[1] \in Nat /\ p[2] \in Nat /\ t101 \in Nat /\ t1584 \in Nat /\ clocks_counted \in Nat
      /\ p[1] < t1584 /\ p[2] + 2 <= p[1] /\ t101 + 7 <= t1584
      /\ e \in {clocks_counted + 3, clocks_counted + 4} /\ line \in Bit
  BY Lengths DEF TypeInv, Passing, Counts
<1>2. /\ (in_time' => in_time) /\ (LevelHeld(p, e) \/ LastEdge(p, e))
  <2>1. ~Splits(p[1], p[2], e)
    BY <1>1 DEF Splits, Ends, Lasts, AtRest
  <2> QED
    BY <2>1, Clock, BegunStep DEF Begun, MiddleEdge
<1>3. LevelHeld(p, e) => UNCHANGED <<line, in_time>> /\ Lasts(p[1], e + 1)' /\ (AtRest => AtRest')
  BY DEF LevelHeld
<1>4. LastEdge(p, e) => line' # line /\ e + 1 = p[1] /\ NewSymbol' /\ ~in_time'
  BY <1>2 DEF LastEdge, Passing, Ends, AtRest
<1>5. /\ clocks_counted' = clocks_counted + 1 /\ clock_start = 1 /\ Decoding
      /\ dec_state_controller' = "c_decode" /\ data_receiver_start' = 1
      /\ line = prev_bit_d /\ (in_time => AtRest)
  BY ClockOfCounter, ClockOfController DEF Passing, Counts
\* The line stayed low: the decoder waits for the end of the command, or for an edge.
<1>6. ASSUME state_decoder' = "d_counter_cs", LastBitIsGiven', eop' = 0, data_receiver_end' = 0,
             prev_bit_d' = prev_bit_d, clock_start' = 1, line = 0, clocks_counted <= t1584
      PROVE  \/ LevelHeld(p, e) /\ Lasts(p[1], e + 1)' /\ Passing(e + 1)'
             \/ LastEdge(p, e) /\ Late(0)'
  <2>1. Decoding'
    BY <1>5, <1>6 DEF Decoding
  <2>2. CASE LevelHeld(p, e)
    <3>1. Counts(e + 1)'
      BY <1>1, <1>5, <1>6, <2>1 DEF Counts
    <3>2. Passing(e + 1)'
      BY <1>1, <1>3, <1>5, <1>6, <2>2, <3>1 DEF Passing
    <3> QED
      BY <1>3, <2>2, <3>2
  <2>3. CASE LastEdge(p, e)
    <3>1. clocks_counted' <= t1584 - 4 /\ ~in_time' /\ line' # prev_bit_d'
      BY <1>1, <1>4, <1>5, <1>6, <2>3
    <3>2. Late(0)'
      BY <1>1, <1>6, <2>1, <3>1 DEF Late
    <3> QED
      BY <2>3, <3>2
  <2> QED
    BY <1>2, <2>2, <2>3
<1>7. CASE TariHasPassed
  <2>1. CASE line = 0
    <3>1. /\ state_decoder' = "d_counter_cs" /\ data_ready' = 1 /\ eop' = 0 /\ data_receiver_end' = 0
          /\ prev_bit_d' = prev_bit_d /\ clock_start' = 1
      BY <1>1, <1>5, <1>7, <2>1, InPass DEF TariHasPassed, BitsOnly, Decoding
    <3>2. state_contructor' = "c_wait"
      BY <1>7, StoringStep DEF TariHasPassed, BitsOnly
    <3>3. clocks_counted' = t101 + 3
      BY <1>1, <1>5, <1>7 DEF TariHasPassed
    <3>4. LastBitIsGiven'
      BY <1>1, <3>1, <3>2, <3>3 DEF LastBitIsGiven, Storing, t101
    <3> QED
      BY <1>1, <1>6, <2>1, <3>1, <3>3, <3>4, <1>5
  <2>2. CASE line # 0
    <3>1. state_decoder' = "d_error" /\ data_ready' = 0 /\ eop' = 0 /\ ~in_time'
      BY <1>1, <1>2, <1>5, <1>7, <2>2, InPass DEF TariHasPassed, BitsOnly, AtRest, Bit
    <3> QED
      BY <3>1, StoringStep DEF Failed, BitsOnly
  <2> QED
    BY <2>1, <2>2
<1>8. CASE LastBitIsGiven /\ line = 0 /\ clocks_counted <= t1584 + 1
  <2>1. /\ clocks_counted' = clocks_counted + 1
        /\ Storing(state_contructor', clocks_counted' - t101 - 3)
        /\ clocks_counted >= t101 + 8 => state_contructor' = "c_wait"
    BY <1>1, <1>5, <1>8, LastBitStored
  <2>2. CASE clocks_counted = t1584 + 1
    <3>1. ~LastEdge(p, e) /\ AtRest
      BY <1>1, <2>2 DEF LastEdge, Lasts, Ends, TypeInv
    <3>2. AtRest'
      BY <1>2, <1>3, <3>1
    <3>3. /\ state_decoder' = "d_end" /\ eop' = 1 /\ data_receiver_end' = 1 /\ data_ready' = 0
          /\ prev_bit_d' = 0
      BY <1>1, <1>5, <1>8, <2>2, InCounterCS DEF LastBitIsGiven
    <3>4. Announcing'
      BY <1>1, <1>5, <2>1, <2>2, <3>2, <3>3 DEF Announcing
    <3>5. data_ready = 0
      BY <1>1, <1>8, <2>2 DEF LastBitIsGiven
    <3> QED
      BY <1>8, <3>1, <3>4, <3>5
  <2>3. CASE clocks_counted # t1584 + 1
    <3>1. /\ state_decoder' = "d_counter_cs" /\ eop' = 0 /\ data_receiver_end' = 0
          /\ data_ready' = 0 /\ prev_bit_d' = prev_bit_d /\ clock_start' = 1
      BY <1>1, <1>5, <1>8, <2>3, InCounterCS DEF LastBitIsGiven, BitsOnly, Decoding
    <3>2. clocks_counted' > t101 + 3 /\ clocks_counted <= t1584
      BY <1>1, <1>8, <2>1, <2>3 DEF LastBitIsGiven
    <3>3. LastBitIsGiven'
      BY <1>1, <2>1, <3>1, <3>2 DEF LastBitIsGiven, t101
    <3> QED
      BY <1>6, <1>8, <3>1, <3>2, <3>3
  <2> QED
    BY <2>2, <2>3
<1> QED
  BY <1>7, <1>8 DEF Passing

LEMMA LateStep ==
  ASSUME Beat, ~BeginAnswer, TypeInv, BitsOnly, NEW p \in Pairs, Fits(p), NEW e \in Nat,
         Late(e), Begun(p[1], p[2], e)
  PROVE  (LevelHeld(p, e) /\ eop' = 0 /\ Late(e + 1)') \/ Failed'
<1>1. /\ t101 \in Nat /\ t1584 \in Nat /\ clocks_counted \in Nat /\ t101 + 7 <= t1584
      /\ 4 <= p[2] /\ 4 <= p[1] /\ p[1] \in Nat /\ p[2] \in Nat /\ e \in 0 .. 2
  BY Lengths DEF TypeInv, Late
<1>2. LevelHeld(p, e)
  BY <1>1, Clock, BegunStep DEF MiddleEdge, LastEdge
<1>3. in_time' = in_time /\ line' = line /\ Begun(p[1], p[2], e + 1)'
  BY <1>2 DEF LevelHeld
<1>4. /\ clocks_counted' = clocks_counted + 1 /\ dec_state_controller' = "c_decode"
      /\ data_receiver_start' = 1 /\ ~in_time' /\ line \in Bit
      /\ line # prev_bit_d /\ clocks_counted <= t1584 - 4 + e /\ data_receiver_end = 0
  BY <1>3, ClockOfCounter, ClockOfController DEF Late, TypeInv, Decoding
<1>6. ASSUME state_decoder' = "d_error", data_ready' = 0, eop' = 0  PROVE Failed'
  BY <1>4, <1>6, StoringStep DEF Failed, BitsOnly
<1>7. CASE /\ e = 0 /\ state_decoder \in {"d_wait_counter", "d_wait_counter2"}
           /\ clocks_counted = t101 + 1 /\ data_ready = 0 /\ state_contructor = "c_wait"
  <2>1. /\ state_decoder' = "d_pass_1_01_tari" /\ data_ready' = 0 /\ data_receiver_end' = 0
        /\ eop' = 0 /\ prev_bit_d' = prev_bit_d /\ clock_start' = 1
    BY <1>1, <1>4, <1>7, InWaitCounter DEF Late, BitsOnly
  <2>2. state_contructor' = "c_wait" /\ clocks_counted' = t101 + 2
    BY <1>1, <1>4, <1>7, StoringStep DEF BitsOnly
  <2>3. Late(e + 1)'
    BY <1>1, <1>3, <1>4, <1>7, <2>1, <2>2 DEF Late, TariHasPassed, Decoding, t101, t1584
  <2> QED
    BY <1>2, <2>1, <2>3
<1>8. CASE e \in 0 .. 1 /\ TariHasPassed
  <2>1. CASE line = 0
    <3>1. /\ state_decoder' = "d_counter_cs" /\ data_ready' = 1 /\ data_receiver_end' = 0
          /\ eop' = 0 /\ prev_bit_d' = prev_bit_d /\ clock_start' = 1
      BY <1>4, <1>8, <2>1, InPass DEF Late, BitsOnly, TariHasPassed
    <3>2. state_contructor' = "c_wait" /\ clocks_counted' = t101 + 3
      BY <1>1, <1>4, <1>8, StoringStep DEF BitsOnly, TariHasPassed
    <3>3. LastBitIsGiven'
      BY <1>1, <3>1, <3>2 DEF LastBitIsGiven, Storing, t101
    <3>4. Late(e + 1)'
      BY <1>1, <1>3, <1>4, <1>8, <3>1, <3>2, <3>3 DEF Late, Decoding, t101, t1584
    <3> QED
      BY <1>2, <3>1, <3>4
  <2>2. CASE line # 0
    BY <1>4, <1>6, <1>8, <2>2, InPass DEF BitsOnly, TariHasPassed, Bit
  <2> QED
    BY <2>1, <2>2
<1>9. CASE e \in 0 .. 2 /\ LastBitIsGiven
  <2>1. clocks_counted # t1584 + 1 /\ clocks_counted <= t1584 + 1
    BY <1>1, <1>4
  <2> QED
    BY <1>1, <1>4, <1>6, <1>9, <2>1, InCounterCS DEF BitsOnly, LastBitIsGiven
<1> QED
  BY <1>7, <1>8, <1>9 DEF Late

\* All that a clock can do to a command that is heard.
LEMMA HearingStep ==
  ASSUME Beat, ~BeginAnswer, TypeInv, BitsOnly, Hearing
  PROVE  Hearing' \/ Failed' \/ Announcing'
<1>1. PICK p \in Pairs : \E e \in Nat : Fits(p) /\ Hears(p[1], p[2], e)
  BY DEF Hearing
<1>2. PICK e \in Nat : Fits(p) /\ Hears(p[1], p[2], e)
  BY <1>1
\* The place is another one of the same symbol, or the first of the next one.
<1>3. ASSUME LevelHeld(p, e) \/ MiddleEdge(p, e), eop' = 0, Hears(p[1], p[2], e + 1)'
      PROVE  Hearing'
  BY <1>2, <1>3, HearsOn DEF LevelHeld, MiddleEdge
<1>4. ASSUME LastEdge(p, e), eop' = 0, Closing(0)' \/ Late(0)'
      PROVE  Hearing'
  BY <1>4, HearsNew DEF LastEdge
<1>5. LevelHeld(p, e) => Begun(p[1], p[2], e + 1)' /\ (Lasts(p[1], e) => Lasts(p[1], e + 1)')
  BY DEF LevelHeld
<1>6. MiddleEdge(p, e) => Ends(p[1], e + 1)'
  BY DEF MiddleEdge
<1>7. CASE Begun(p[1], p[2], e) /\ Opening(e)
  BY <1>2, <1>3, <1>5, <1>7, OpeningStep DEF Hears
<1>8. CASE Begun(p[1], p[2], e) /\ Closing(e)
  BY <1>2, <1>3, <1>5, <1>8, ClosingStep DEF Hears
<1>9. CASE Begun(p[1], p[2], e) /\ Starting(e)
  BY <1>2, <1>3, <1>5, <1>6, <1>9, StartingStep DEF Hears
<1>10. CASE Begun(p[1], p[2], e) /\ Late(e)
  BY <1>2, <1>3, <1>5, <1>10, LateStep DEF Hears
<1>11. CASE (Begun(p[1], p[2], e) /\ FirstHalf(e)) \/ (Lasts(p[1], e) /\ LaterHalf(e))
  BY <1>2, <1>3, <1>4, <1>5, <1>6, <1>11, CountingStep DEF Hears
<1>12. CASE Lasts(p[1], e) /\ Passing(e)
  BY <1>2, <1>3, <1>4, <1>5, <1>12, PassingStep DEF Hears
<1>13. CASE Ends(p[1], e) /\ Halving(p[2], e)
  BY <1>2, <1>3, <1>4, <1>5, <1>13, HalvingStep DEF Hears
<1> QED
  BY <1>2, <1>7, <1>8, <1>9, <1>10, <1>11, <1>12, <1>13 DEF Hears

LEMMA FailedStep ==
  ASSUME Beat, TypeInv, BitsOnly, Failed, in_time' => in_time
  PROVE  Failed'
BY InError, StoringStep DEF Failed, BitsOnly

\* The end of the command is announced, and the constructor sends what it has and the void package.
LEMMA ConstructorEnds ==
  ASSUME Beat, eop = 1, data_ready = 0, WriteInv,
         state_contructor \in
           {"c_wait", "c_check_eop", "c_send_package", "c_clear", "c_send_void_package"}
  PROVE  /\ state_contructor' \in
              {"c_wait", "c_check_eop", "c_send_package", "c_clear", "c_send_void_package"}
         /\ state_contructor = "c_wait" => state_contructor' = "c_check_eop" /\ clr_eop' # 1
         /\ clr_eop' = 1 => state_contructor' = "c_wait" /\ clr_eop # 1
         /\ write_request' = 1 =>
              \/ state_contructor' = "c_send_package" /\ mask_integer' # 0
              \/ clr_eop' = 1 /\ pack_data' = Zeros /\ mask_integer' = 0
BY Clock
   DEF rx!pack_const!Tick, rx!pack_const!Reset, rx!pack_const!WaitBit, rx!pack_const!WaitEop, rx!pack_const!WaitIdle,
       rx!pack_const!NewBit, rx!pack_const!IncMask, rx!pack_const!MaskOverflow,
       rx!pack_const!NoMaskOverflow, rx!pack_const!SendPackage, rx!pack_const!Clear,
       rx!pack_const!EopWithBits, rx!pack_const!EopWithoutBits, rx!pack_const!NoEop,
       rx!pack_const!SendVoidPackage, rx!pack_const!SendOpenPackage,
       rx!pack_const!WaitClearFlags, rx!pack_const!In, rx!pack_const!Goto, WriteInv,
       rx!pack_const!Zeros, rx!pack_const!BitIndex, Zeros, BitIndex

LEMMA AnnouncingStep ==
  ASSUME Beat, ~BeginAnswer, TypeInv, Announcing, WriteInv
  PROVE  Ending' /\ WriteInv'
<1>1. clr_eop # 1
  BY DEF Announcing, WriteInv, Ending
<1>2. /\ state_decoder' = "d_wait" /\ clock_start' = 0 /\ data_receiver_end' = 0
      /\ eop' = 1 /\ data_ready' = 0
  BY <1>1, InEnd DEF Announcing
<1>3. Waiting'
  BY <1>2, ClockOfController DEF Announcing, Waiting
<1>4. AtRest'
  BY Clock, RestStep DEF Announcing
<1>5. /\ state_contructor' = "c_check_eop" /\ clr_eop' # 1
      /\ write_request' = 1 => clr_eop' = 1
  BY ConstructorEnds DEF Announcing
<1>6. Ending'
  BY <1>2, <1>3, <1>4, <1>5 DEF Ending
<1> QED
  BY <1>5, <1>6 DEF WriteInv

LEMMA EndingStep ==
  ASSUME Beat, ~BeginAnswer, TypeInv, Ending, WriteInv
  PROVE  (IF clr_eop = 1 THEN Quiet' ELSE Ending') /\ WriteInv'
<1>1. AtRest' /\ line = 0
  BY Clock, RestStep DEF Ending, AtRest
<1>2. /\ state_decoder' = "d_wait" /\ clock_start' = 0 /\ data_receiver_end' = 0
      /\ data_ready' = 0 /\ eop' = IF clr_eop = 1 THEN 0 ELSE 1
  BY InWait DEF Ending, Waiting
<1>3. Waiting'
  BY <1>1, <1>2, ClockOfController DEF Ending, Waiting
<1>4. /\ state_contructor' \in
           {"c_wait", "c_check_eop", "c_send_package", "c_clear", "c_send_void_package"}
      /\ state_contructor = "c_wait" => state_contructor' = "c_check_eop" /\ clr_eop' # 1
      /\ clr_eop' = 1 => state_contructor' = "c_wait" /\ clr_eop # 1
      /\ write_request' = 1 =>
           \/ state_contructor' = "c_send_package" /\ mask_integer' # 0
           \/ clr_eop' = 1 /\ pack_data' = Zeros /\ mask_integer' = 0
  BY ConstructorEnds DEF Ending
<1>5. CASE clr_eop = 1
  <2>1. state_contructor = "c_wait"
    BY <1>5 DEF WriteInv
  <2>2. Quiet'
    BY <1>1, <1>2, <1>3, <1>4, <1>5, <2>1 DEF Quiet
  <2>3. WriteInv'
    BY <1>4, <2>1 DEF WriteInv
  <2> QED
    BY <1>5, <2>2, <2>3
<1>6. CASE clr_eop # 1
  <2>1. Ending'
    BY <1>1, <1>2, <1>3, <1>4, <1>6 DEF Ending
  <2>2. WriteInv'
    BY <1>4, <2>1 DEF WriteInv
  <2> QED
    BY <1>6, <2>1, <2>2
<1> QED
  BY <1>5, <1>6

LEMMA QuietStep ==
  ASSUME Beat, TypeInv, BitsOnly, Quiet
  PROVE  /\ BeginAnswer => /\ Hearing' /\ in_time' \in BOOLEAN /\ line' \in Bit
                           /\ left' \in Nat /\ second' \in Nat
                           /\ NewSymbol' /\ Opening(0)' /\ eop' = 0
         /\ ~BeginAnswer => Quiet'
<1>1. /\ state_decoder' = "d_wait" /\ clock_start' = 0 /\ data_receiver_end' = 0
      /\ data_ready' = 0 /\ eop' = 0
  BY InWait DEF Quiet, Waiting, BitsOnly
<1>2. Waiting' /\ line = 0 /\ line \in Bit
  BY <1>1, ClockOfController DEF Quiet, AtRest, Waiting, TypeInv
<1>3. state_contructor' = "c_wait"
  BY StoringStep DEF Quiet, BitsOnly
<1>4. ASSUME BeginAnswer
      PROVE  /\ Hearing' /\ in_time' \in BOOLEAN /\ line' \in Bit /\ left' \in Nat /\ second' \in Nat
             /\ NewSymbol' /\ Opening(0)' /\ eop' = 0
  <2>1. SendSymbol(Head(answer'), TRUE) /\ phase' = "sending"
    BY <1>4 DEF BeginAnswer
  <2>2. /\ NewSymbol' /\ line' = 1 - line /\ in_time' \in BOOLEAN
        /\ left' \in Nat /\ second' \in Nat
    BY <1>2, <2>1, SymbolBegins
  <2>3. line' = 1
    BY <1>2, <2>2
  <2>4. Opening(0)'
    BY <1>1, <1>2, <1>3, <2>3 DEF Opening
  <2> QED
    BY <1>1, <2>2, <2>3, <2>4, HearsNew DEF Bit
<1>5. ASSUME ~BeginAnswer  PROVE Quiet'
  BY <1>1, <1>2, <1>3, <1>5, Clock, RestStep DEF Quiet
<1> QED
  BY <1>4, <1>5

\* Only in Quiet has the command ended.
LEMMA NotQuiet ==
  Hearing \/ Announcing \/ Ending \/ Failed => ~Quiet
<1>1. Hearing => ~Quiet
  BY DEF Hearing, Hears, Opening, Closing, EdgeIsThere, EdgeIsChecked, BitIsGiven, Starting, Late, Passing,
         Counting, Counts, FirstHalf, LaterHalf, Halving, Decoding, Waiting, Quiet, AtRest
<1> QED
  BY <1>1 DEF Announcing, Ending, Failed, Quiet

LEMMA BitsOnlyWithoutEop ==
  ASSUME WriteInv, eop = 0
  PROVE  BitsOnly
BY DEF WriteInv, BitsOnly, Ending

LEMMA WriteInvWithoutEop ==
  ASSUME Beat, BitsOnly
  PROVE  WriteInv'
BY StoringStep DEF BitsOnly, WriteInv

-----------------------------------------------------------------------------
(* One clock of all of it.                                                 *)

LEMMA TagStep ==
  ASSUME Tag, ~BeginAnswer, TypeInv
  PROVE  /\ left' \in Nat /\ second' \in Nat /\ line' \in Bit /\ answer' = answer
         /\ in_time' \in BOOLEAN /\ (in_time' => in_time)
<1>1. CASE NextSymbol
  <2>1. SendSymbol(Head(bits), in_time) /\ phase' = "sending" /\ answer' = answer
    BY <1>1 DEF NextSymbol
  <2>2. /\ line' = 1 - line /\ in_time' \in BOOLEAN /\ (in_time' => in_time)
        /\ left' \in Nat /\ second' \in Nat
    BY <2>1, SymbolBegins DEF TypeInv
  <2> QED
    BY <2>1, <2>2 DEF TypeInv, Bit
<1>2. CASE StaySilent \/ HoldLevel \/ SecondHalf \/ Rest \/ FallSilent
  BY <1>2, TagAssumption
     DEF StaySilent, HoldLevel, SecondHalf, Rest, FallSilent, TypeInv, tag_vars, Bit
<1> QED
  BY <1>1, <1>2 DEF Tag

\* The place in a command moves on; only from Quiet does an answer begin, and only the void
\* package leads to Quiet.
LEMMA TimeStep ==
  ASSUME Beat, TypeInv, TimeInv, WriteInv, BeginAnswer => Quiet
  PROVE  /\ TypeInv' /\ TimeInv' /\ WriteInv'
         /\ Quiet => write_request # 1 /\ (Quiet' <=> ~BeginAnswer)
         /\ ~Quiet /\ ~Quiet' => clr_eop # 1
         /\ ~BeginAnswer => answer' = answer
<1>1. clocks_counted' \in Nat
  BY ClockOfCounter DEF TypeInv
<1>2. CASE Quiet
  <2>1. BitsOnly /\ write_request # 1
    BY <1>2, BitsOnlyWithoutEop DEF Quiet, BitsOnly
  <2>2. WriteInv'
    BY <2>1, WriteInvWithoutEop
  <2>3. CASE BeginAnswer
    <3>1. /\ Hearing' /\ in_time' \in BOOLEAN /\ line' \in Bit /\ left' \in Nat /\ second' \in Nat
      BY <1>2, <2>1, <2>3, QuietStep
    <3>2. ~Quiet'
      BY <3>1, NotQuiet, PTL
    <3> QED
      BY <1>1, <1>2, <2>1, <2>2, <2>3, <3>1, <3>2 DEF TimeInv, TypeInv
  <2>4. CASE ~BeginAnswer
    <3>1. Quiet'
      BY <1>2, <2>1, <2>4, QuietStep
    <3> QED
      BY <1>1, <1>2, <2>1, <2>2, <2>4, <3>1, Clock, TagStep DEF TimeInv, TypeInv
  <2> QED
    BY <2>3, <2>4
<1>3. CASE ~Quiet
  <2>1. ~BeginAnswer
    BY <1>3
  <2>2. TypeInv' /\ answer' = answer /\ (in_time' => in_time)
    BY <1>1, <2>1, Clock, TagStep DEF TypeInv
  <2>3. CASE Hearing \/ Failed
    <3>1. BitsOnly
      BY <2>3, BitsOnlyWithoutEop DEF Hearing, Failed
    <3>2. Hearing' \/ Failed' \/ Announcing'
      BY <2>1, <2>2, <2>3, <3>1, HearingStep, FailedStep
    <3> QED
      BY <1>3, <2>2, <3>1, <3>2, WriteInvWithoutEop DEF TimeInv, BitsOnly
  <2>4. CASE Announcing
    <3>1. Ending' /\ WriteInv'
      BY <2>1, <2>4, AnnouncingStep
    <3>2. clr_eop # 1
      BY <2>4 DEF Announcing, Ending, WriteInv
    <3> QED
      BY <1>3, <2>2, <3>1, <3>2 DEF TimeInv
  <2>5. CASE Ending
    BY <1>3, <2>1, <2>2, <2>5, EndingStep DEF TimeInv
  <2> QED
    BY <1>3, <2>3, <2>4, <2>5 DEF TimeInv
<1> QED
  BY <1>2, <1>3

-----------------------------------------------------------------------------
(* The FIFO and the host.                                                  *)

LEMMA AppendFacts ==
  ASSUME NEW s, IsSeq(s), NEW w
  PROVE  /\ IsSeq(Append(s, w)) /\ Append(s, w) # <<>> /\ Last(Append(s, w)) = w
         /\ NoVoid(s) /\ w # Void => NoVoid(Append(s, w))
         /\ NoVoid(s) => VoidIsLast(s) /\ VoidIsLast(Append(s, w))
         /\ s # <<>> => Tail(Append(s, w)) = Append(Tail(s), w)
<1>1. PICK S : s \in Seq(S)
  BY DEF IsSeq
<1> DEFINE T == S \cup {w}
<1>2. s \in Seq(T) /\ w \in T
  BY <1>1
<1> HIDE DEF T
<1>3. /\ Append(s, w) \in Seq(T) /\ Append(s, w) # <<>> /\ Len(Append(s, w)) = Len(s) + 1
      /\ Append(s, w)[Len(s) + 1] = w /\ \A k \in 1 .. Len(s) : Append(s, w)[k] = s[k]
  BY <1>2
<1>4. DOMAIN s = 1 .. Len(s) /\ DOMAIN Append(s, w) = 1 .. Len(s) + 1 /\ Len(s) \in Nat
  BY <1>2, <1>3
<1>5. s # <<>> => Tail(Append(s, w)) = Append(Tail(s), w)
  BY <1>2
<1>6. Last(Append(s, w)) = w
  BY <1>3 DEF Last
<1>7. NoVoid(s) /\ w # Void => NoVoid(Append(s, w))
  BY <1>3, <1>4 DEF NoVoid
<1>8. NoVoid(s) => VoidIsLast(s) /\ VoidIsLast(Append(s, w))
  BY <1>3, <1>4 DEF NoVoid, VoidIsLast
<1> QED
  BY <1>3, <1>5, <1>6, <1>7, <1>8 DEF IsSeq

LEMMA TailFacts ==
  ASSUME NEW s, IsSeq(s), s # <<>>
  PROVE  /\ IsSeq(Tail(s))
         /\ NoVoid(s) => NoVoid(Tail(s)) /\ Head(s) # Void
         /\ VoidIsLast(s) => VoidIsLast(Tail(s)) /\ (Head(s) = Void => Tail(s) = <<>>)
<1>1. PICK S : s \in Seq(S)
  BY DEF IsSeq
<1>2. /\ Tail(s) \in Seq(S) /\ Len(Tail(s)) = Len(s) - 1 /\ Head(s) = s[1]
      /\ \A k \in 1 .. Len(s) - 1 : Tail(s)[k] = s[k + 1]
  BY <1>1
<1>3. /\ DOMAIN s = 1 .. Len(s) /\ DOMAIN Tail(s) = 1 .. Len(s) - 1 /\ Len(s) \in Nat \ {0}
      /\ (Len(s) = 1 => Tail(s) = <<>>)
  BY <1>1, <1>2
<1>4. NoVoid(s) => NoVoid(Tail(s)) /\ Head(s) # Void
  BY <1>2, <1>3 DEF NoVoid
<1>5. VoidIsLast(s) => VoidIsLast(Tail(s)) /\ (Head(s) = Void => Tail(s) = <<>>)
  BY <1>2, <1>3 DEF VoidIsLast
<1> QED
  BY <1>2, <1>4, <1>5 DEF IsSeq

Word == [data |-> pack_data, mask |-> mask_integer]
Popped == IF rdreq_pulse = 1 /\ rx_fifo # <<>> THEN Tail(rx_fifo) ELSE rx_fifo

\* The FIFO drops a word that comes when it is full.
WordIsTaken == write_request = 1 /\ Len(rx_fifo) # depth

LEMMA ClockOfFifo ==
  ASSUME Beat
  PROVE  /\ rx_fifo' = IF WordIsTaken THEN Append(Popped, Word) ELSE Popped
         /\ rdreq_pulse' = IF access > Pause /\ ~already_read THEN 1 ELSE 0
         /\ already_read' <=> access > Pause
<1>1. rx_fifo' = IF WordIsTaken THEN Append(Popped, Word) ELSE Popped
  BY Clock DEF rx!Fifo, rx!Clocked, rx!Pop, rx!Full, rx!pack_const!data_out, Word, Popped, WordIsTaken
<1> DEFINE rdreq == IF access > Pause THEN 1 ELSE 0
<1>2. /\ rdreq_pulse' = IF 0 = 0 /\ rdreq = 1 /\ ~already_read THEN 1 ELSE 0
      /\ already_read' = (0 = 0 /\ rdreq = 1)
  BY Clock DEF rx!PulseGenerator
<1>3. rdreq = 1 <=> access > Pause
  OBVIOUS
<1> HIDE DEF rdreq
<1>4. already_read' <=> access > Pause
  BY <1>2, <1>3, Zenon
<1>5. rdreq_pulse' = IF access > Pause /\ ~already_read THEN 1 ELSE 0
  BY <1>2, <1>3, Zenon
<1> QED
  BY <1>1, <1>4, <1>5

LEMMA ForgetIsBegin ==
  ASSUME Tag
  PROVE  Forget <=> BeginAnswer
BY DEF Tag, BeginAnswer, StaySilent, HoldLevel, SecondHalf, NextSymbol, Rest, FallSilent, Forget, tag_vars

LEMMA ClockOfHost ==
  ASSUME Beat, HostInv
  PROVE  /\ access' \in Nat
         /\ \/ /\ access = 0 /\ rx_fifo # <<>> /\ ~BeginAnswer
               /\ got' = Append(got, Head(rx_fifo)) /\ access' > Pause
            \/ /\ access > 0 /\ access' = access - 1
               /\ got' = IF BeginAnswer THEN <<>> ELSE got
            \/ /\ access = 0 /\ access' = 0
               /\ got' = IF BeginAnswer THEN <<>> ELSE got
<1>1. CASE ReadWord
  BY <1>1, Clock, ForgetIsBegin, TagAssumption
     DEF ReadWord, HostInv, rx!empty, rx!Empty, rx!data_out_fifo, rx!Q, Pause
<1>2. CASE HoldRequest \/ FindEmpty
  BY <1>2, Clock, ForgetIsBegin DEF HoldRequest, FindEmpty, HostInv
<1>3. CASE Absent
  BY <1>3 DEF Absent
<1> QED
  BY <1>1, <1>2, <1>3, Clock DEF Host

\* A read takes the oldest word that is not read yet, a write comes behind all of them.
LEMMA HostStep ==
  ASSUME Beat, HostInv
  PROVE  /\ HostInv' /\ IsSeq(Unread)
         /\ \E rest :
              /\ Unread' = IF WordIsTaken THEN Append(rest, Word) ELSE rest
              /\ \/ rest = Unread /\ got' = (IF BeginAnswer THEN <<>> ELSE got)
                 \/ /\ ~BeginAnswer /\ Unread # <<>>
                    /\ rest = Tail(Unread) /\ got' = Append(got, Head(Unread))
<1>1. /\ access \in Nat /\ IsSeq(rx_fifo) /\ IsSeq(got)
      /\ (access <= 1 => rdreq_pulse = 0 /\ ~already_read)
      /\ (access = Pause => already_read) /\ (rdreq_pulse = 1 => already_read)
      /\ (access > Pause /\ ~already_read => rx_fifo # <<>>)
  BY DEF HostInv
<1>2. /\ rx_fifo' = (IF WordIsTaken THEN Append(Popped, Word) ELSE Popped)
      /\ rdreq_pulse' = (IF access > Pause /\ ~already_read THEN 1 ELSE 0)
      /\ (already_read' <=> access > Pause)
  BY ClockOfFifo
<1>3. IsSeq(Popped) /\ IsSeq(Append(Popped, Word)) /\ Append(Popped, Word) # <<>> /\ IsSeq(<<>>)
  <2>1. IsSeq(Popped)
    BY <1>1, TailFacts DEF Popped
  <2>2. <<>> \in Seq({})
    OBVIOUS
  <2> QED
    BY <2>1, <2>2, AppendFacts DEF IsSeq
<1>4. IsSeq(Unread)
  BY <1>1, TailFacts DEF Unread
<1>5. CASE /\ access = 0 /\ rx_fifo # <<>> /\ ~BeginAnswer
           /\ got' = Append(got, Head(rx_fifo)) /\ access' > Pause /\ access' \in Nat
  <2>1. Popped = rx_fifo /\ Unread = rx_fifo /\ rdreq_pulse' = 0 /\ ~already_read'
    BY <1>1, <1>2, <1>5 DEF Popped, Unread, PopIsDue, Pause
  <2>2. IsSeq(got')
    BY <1>1, <1>5, AppendFacts
  <2>3. rx_fifo' # <<>> /\ IsSeq(rx_fifo')
    BY <1>2, <1>3, <1>5, <2>1
  <2>4. HostInv'
    BY <1>5, <2>1, <2>2, <2>3 DEF HostInv, Pause
  <2>5. Unread' = Tail(rx_fifo')
    BY <1>5, <2>1, <2>3 DEF Unread, PopIsDue
  <2>6. Tail(Append(rx_fifo, Word)) = Append(Tail(rx_fifo), Word)
    BY <1>1, <1>5, AppendFacts
  <2>7. Unread' = IF WordIsTaken THEN Append(Tail(Unread), Word) ELSE Tail(Unread)
    BY <1>2, <2>1, <2>5, <2>6
  <2> QED
    BY <1>4, <1>5, <2>1, <2>4, <2>7
<1>6. CASE /\ got' = IF BeginAnswer THEN <<>> ELSE got
           /\ \/ access > 0 /\ access' = access - 1
              \/ access = 0 /\ access' = 0
  <2>1. IsSeq(got') /\ IsSeq(rx_fifo')
    BY <1>1, <1>2, <1>3, <1>6
  <2>2. HostInv'
    BY <1>1, <1>2, <1>6, <2>1 DEF HostInv, Pause
  <2>3. Unread' = IF WordIsTaken THEN Append(Unread, Word) ELSE Unread
    <3>1. CASE access > Pause /\ ~already_read
      <4>1. /\ Popped = rx_fifo /\ rx_fifo # <<>> /\ Unread = Tail(rx_fifo)
            /\ rdreq_pulse' = 1 /\ rx_fifo' # <<>>
        BY <1>1, <1>2, <1>3, <3>1 DEF Popped, Unread, PopIsDue
      <4>2. Unread' = Tail(rx_fifo')
        BY <4>1 DEF Unread, PopIsDue
      <4>3. Tail(Append(rx_fifo, Word)) = Append(Tail(rx_fifo), Word)
        BY <1>1, <4>1, AppendFacts
      <4> QED
        BY <1>2, <4>1, <4>2, <4>3
    <3>2. CASE ~(access > Pause /\ ~already_read)
      <4>1. Unread = Popped
        BY <3>2 DEF Unread, PopIsDue, Popped
      <4>2. Unread' = rx_fifo'
        BY <1>1, <1>2, <1>6, <3>2 DEF Unread, PopIsDue, Pause
      <4> QED
        BY <1>2, <4>1, <4>2
    <3> QED
      BY <3>1, <3>2
  <2> QED
    BY <1>4, <1>6, <2>2, <2>3
<1> QED
  BY <1>5, <1>6, ClockOfHost

LEMMA BeginsFromQuiet ==
  ASSUME VoidInv, BeginAnswer
  PROVE  Quiet /\ Unread = <<>>
BY DEF VoidInv, Clean, Ended, BeginAnswer

\* The words of an answer, and its void package once the constructor is at rest.
LEMMA VoidStep ==
  ASSUME Beat, TypeInv, TimeInv, WriteInv, HostInv, VoidInv
  PROVE  VoidInv'
<1>1. PICK rest :
        /\ Unread' = rest \/ (write_request = 1 /\ Unread' = Append(rest, Word))
        /\ \/ rest = Unread /\ got' = (IF BeginAnswer THEN <<>> ELSE got)
           \/ /\ ~BeginAnswer /\ Unread # <<>>
              /\ rest = Tail(Unread) /\ got' = Append(got, Head(Unread))
  BY HostStep DEF WordIsTaken
<1>2. IsSeq(Unread) /\ IsSeq(got) /\ IsSeq(rest)
  <2>1. IsSeq(Unread) /\ IsSeq(got)
    BY HostStep DEF HostInv
  <2> QED
    BY <1>1, <2>1, TailFacts
<1>3. /\ BeginAnswer => Quiet
      /\ Quiet => write_request # 1 /\ (Quiet' <=> ~BeginAnswer)
      /\ ~Quiet /\ ~Quiet' => clr_eop # 1
      /\ ~BeginAnswer => answer' = answer
  BY BeginsFromQuiet, TimeStep
<1>4. CASE ~Quiet
  <2>1. ~AnswerIsRead /\ NoVoid(Unread) /\ answer # <<>> /\ ~BeginAnswer /\ answer' = answer
    BY <1>3, <1>4 DEF VoidInv, Clean
  <2>2. NoVoid(rest) /\ ~AnswerIsRead'
    <3>1. CASE rest = Unread /\ got' = got
      BY <2>1, <3>1 DEF AnswerIsRead
    <3>2. CASE Unread # <<>> /\ rest = Tail(Unread) /\ got' = Append(got, Head(Unread))
      <4>1. NoVoid(Tail(Unread)) /\ Head(Unread) # Void
        BY <1>2, <2>1, <3>2, TailFacts
      <4>2. Last(got') = Head(Unread)
        BY <1>2, <3>2, AppendFacts
      <4> QED
        BY <3>2, <4>1, <4>2 DEF AnswerIsRead
    <3> QED
      BY <1>1, <2>1, <3>1, <3>2
  <2>3. CASE Quiet'
    <3>1. VoidIsLast(rest) /\ VoidIsLast(Append(rest, Word))
      BY <1>2, <2>2, AppendFacts
    <3>2. VoidIsLast(Unread')
      BY <1>1, <3>1
    <3> QED
      BY <2>1, <2>2, <2>3, <3>2 DEF VoidInv, Ended, VoidIsLast
  <2>4. CASE ~Quiet'
    <3>1. write_request = 1 => Word # Void
      BY <1>3, <1>4, <2>4 DEF WriteInv, Word, Void
    <3>2. NoVoid(Unread')
      BY <1>1, <1>2, <2>2, <3>1, AppendFacts
    <3> QED
      BY <2>1, <2>2, <2>4, <3>2 DEF VoidInv, Clean, NoVoid
  <2> QED
    BY <2>3, <2>4
<1>5. CASE Quiet
  <2>1. /\ VoidIsLast(Unread) /\ (AnswerIsRead \/ answer = <<>> => Unread = <<>>)
        /\ (answer = <<>> => got = <<>>) /\ Unread' = rest
    BY <1>1, <1>3, <1>5 DEF VoidInv, Ended
  <2>2. CASE BeginAnswer
    <3>1. Unread' = <<>> /\ got' = <<>> /\ ~Quiet'
      BY <1>1, <1>3, <1>5, <2>1, <2>2, BeginsFromQuiet
    <3>2. answer' # <<>>
      BY <2>2, TagAssumption DEF BeginAnswer
    <3>3. NoVoid(Unread') /\ ~AnswerIsRead'
      BY <3>1 DEF NoVoid, AnswerIsRead
    <3> QED
      BY <3>1, <3>2, <3>3 DEF VoidInv, Clean, NoVoid
  <2>3. CASE ~BeginAnswer
    <3>1. CASE rest = Unread /\ got' = got
      BY <1>3, <1>5, <2>1, <2>3, <3>1 DEF VoidInv, Ended, AnswerIsRead, VoidIsLast
    <3>2. CASE Unread # <<>> /\ rest = Tail(Unread) /\ got' = Append(got, Head(Unread))
      <4>1. answer' # <<>>
        BY <1>3, <2>1, <2>3, <3>2
      <4>2. VoidIsLast(Unread') /\ (Head(Unread) = Void => Unread' = <<>>)
        BY <1>2, <2>1, <3>2, TailFacts
      <4>3. AnswerIsRead' => Head(Unread) = Void
        BY <1>2, <3>2, AppendFacts DEF AnswerIsRead
      <4> QED
        BY <1>3, <1>5, <2>3, <4>1, <4>2, <4>3 DEF VoidInv, Ended, VoidIsLast
    <3> QED
      BY <1>1, <2>3, <3>1, <3>2
  <2> QED
    BY <2>2, <2>3
<1> QED
  BY <1>4, <1>5

\* Tag and receiver at rest, and nothing of an answer anywhere.
Blank ==
  /\ TypeInv /\ Quiet /\ bits = <<>> /\ answer = <<>>
  /\ write_request # 1 /\ clr_eop # 1 /\ mask_integer = 0 /\ pack_data = Zeros
  /\ rx_fifo = <<>> /\ rdreq_pulse = 0 /\ ~already_read /\ access = 0 /\ got = <<>>

LEMMA BlankIInv == Blank => IInv
<1> SUFFICES ASSUME Blank PROVE IInv
  OBVIOUS
<1>1. IsSeq(<<>>)
  <2>1. <<>> \in Seq({})
    OBVIOUS
  <2> QED
    BY <2>1 DEF IsSeq
<1>2. WriteInv /\ HostInv
  BY <1>1 DEF Blank, Quiet, WriteInv, HostInv, Pause
<1>3. got = <<>> /\ Quiet /\ rx_fifo = <<>>
  BY DEF Blank
<1>4. Unread = <<>>
  BY <1>3, Zenon DEF Unread
<1>5. VoidInv
  BY <1>3, <1>4 DEF VoidInv, Ended, VoidIsLast
<1> QED
  BY <1>2, <1>5 DEF Blank, IInv, TimeInv

LEMMA InitIsBlank == Init => Blank
BY DEF Init, rx!InitRegisters, rx!decoder!InitRegisters, rx!pack_const!InitRegisters,
     rx!pack_const!Zeros, rx!pack_const!BitIndex, Zeros, BitIndex, Blank, TypeInv, Quiet, AtRest, Waiting, Bit

LEMMA InitIInv == Init => IInv
BY InitIsBlank, BlankIInv

LEMMA BeatIInv ==
  ASSUME IInv, Beat
  PROVE  IInv'
<1>1. TypeInv /\ TimeInv /\ HostInv /\ WriteInv /\ VoidInv
  BY DEF IInv
<1>2. TypeInv' /\ TimeInv' /\ WriteInv'
  BY <1>1, BeginsFromQuiet, TimeStep
<1>3. HostInv' /\ VoidInv'
  BY <1>1, HostStep, VoidStep
<1> QED
  BY <1>2, <1>3 DEF IInv

LEMMA StepIInv == IInv /\ [Next]_vars => IInv'
<1>1. ASSUME IInv, Next PROVE IInv'
  BY <1>1, BeatIInv DEF Next, Beat
<1>2. ASSUME IInv, UNCHANGED vars PROVE IInv'
  <2> USE DEF vars, rx!registers, rx!decoder!registers, rx!decoder!controller_vars,
              rx!decoder!decoder_vars, rx!pack_const!registers, tag_vars, host_vars,
              Waiting, AtRest, Announcing, Ending, Quiet, Failed, Unread, PopIsDue, AnswerIsRead
  <2>1. TypeInv' /\ HostInv' /\ WriteInv' /\ VoidInv'
    BY <1>2 DEF IInv, TypeInv, HostInv, WriteInv, VoidInv, Clean, Ended
  <2>2. Hearing => Hearing'
    BY <1>2 DEF Hearing, Fits, Hears, Begun, Lasts, Ends, Splits, Opening, Closing, EdgeIsThere,
         EdgeIsChecked, BitIsGiven, Starting, Late, Passing, TariHasPassed, LastBitIsGiven,
         FirstHalf, LaterHalf, Counting, Counts, Halving, Decoding
  <2>3. TimeInv'
    BY <1>2, <2>2 DEF IInv, TimeInv
  <2> QED
    BY <2>1, <2>3 DEF IInv
<1> QED
  BY <1>1, <1>2

LEMMA Invariant == Spec => []IInv
BY InitIInv, StepIInv, PTL DEF Spec

-----------------------------------------------------------------------------

\* In every place of a command in which data_ready is up, the constructor is in c_wait.
LEMMA BitsAreAwaitedInPlace ==
  ASSUME IInv
  PROVE  BitsAreAwaited
<1>1. CASE Hearing
  <2>1. PICK p \in Pairs : \E e \in Nat : Hears(p[1], p[2], e)
    BY <1>1 DEF Hearing
  <2>2. PICK e \in Nat : Hears(p[1], p[2], e)
    BY <2>1
  <2>3. t101 \in Nat /\ clocks_counted \in Nat
    BY Lengths DEF IInv, TypeInv
  <2>4. LastBitIsGiven => BitsAreAwaited
    BY <2>3 DEF LastBitIsGiven, Storing, BitsAreAwaited
  <2> QED
    BY <2>2, <2>4 DEF Hears, Opening, Closing, EdgeIsThere, EdgeIsChecked, BitIsGiven, Starting, Late,
         Passing, TariHasPassed, FirstHalf, LaterHalf, Counting, Halving, BitsAreAwaited
<1> QED
  BY <1>1 DEF IInv, TimeInv, Announcing, Ending, Quiet, Failed, BitsAreAwaited

\* data_ready lasts one clock and nobody answers it.  Whatever the answers, the Tari, the width of a
\* package and the depth of the FIFO, the constructor is waiting in that clock: package_constructor is
\* done with a bit before FM0_decoder can have another, and with the last before the end of a command.
THEOREM BitsAwaited == Spec => []BitsAreAwaited
BY Invariant, BitsAreAwaitedInPlace, PTL

\* The decoder goes to d_error for a symbol outside its window only.  The window is that of
\* InTimeAssumption, the limits and the clocks by which it starts counting late; what is shown
\* is that it is the same at every place of an answer, whatever symbols come before, and that
\* neither the end of an answer nor the start of the next one is refused.  A symbol of the
\* documented limits may lie below the window, and is refused: 495 to 497 clocks at a Tari of 500.
THEOREM FaultsRefused == Spec => []OnlyFaultsAreRefused
<1>1. IInv => OnlyFaultsAreRefused
  BY DEF IInv, TimeInv, Hearing, Hears, Opening, Closing, EdgeIsThere, EdgeIsChecked, BitIsGiven, Starting,
         Late, Passing, TariHasPassed, LastBitIsGiven, FirstHalf, LaterHalf, Halving, Announcing, Ending, Quiet, Failed,
         OnlyFaultsAreRefused
<1> QED
  BY <1>1, Invariant, PTL

-----------------------------------------------------------------------------
(* The bits of an answer, and the packages they are put into.              *)

\* All that can be heard: the fall of the line to rest may pass for a last 1.
Stream == Append(answer, 1)
Heard == {Len(answer), Len(answer) + 1}

\* The bits before package m + 1, ...
At(m) == m * data_width
\* ... how many of the first k bits of a stream come after them, and that package.
Over(m, k) == IF k >= At(m) THEN k - At(m) ELSE 0
Vector(stream, m, n) == [x \in BitIndex |-> IF x < n THEN stream[At(m) + x + 1] ELSE 0]
PackageAt(stream, m, k) ==
  LET n == IF Over(m, k) < data_width THEN Over(m, k) ELSE data_width
  IN [data |-> Vector(stream, m, n), mask |-> n]

\* The words of this answer, read or not, are the first packages of k bits.
Written == got \o Unread
WrittenAre(k) == \A j \in 1 .. Len(Written) : Written[j] = PackageAt(Stream, j - 1, k)

\* The symbol of the tag is the ith that can be heard, ...
Nth(i) ==
  \/ /\ phase = "sending" /\ i >= 1 /\ i + Len(bits) = Len(answer)
     /\ \A j \in 1 .. Len(bits) : bits[j] = Stream[i + j]
  \/ AtRest /\ i \in Heard
\* ... and until the middle of it, a second half to come says that it is a 0.
Told(i) == Stream[i] = IF phase = "sending" /\ second # 0 THEN 0 ELSE 1

\* The open package holds n bits.
Open(n) == mask_integer = n /\ n < data_width /\ pack_data = Vector(Stream, Len(Written), n)

\* The constructor has been given k bits; all packages that are written are full.
Accepted(k) ==
  LET m == Len(Written)
      n == k - At(m)
  IN /\ WrittenAre(k) /\ n >= 0
     /\ state_contructor \in {"c_wait", "c_check_eop"} => Open(n)
     /\ state_contructor = "c_new_bit" => n >= 1 /\ Open(n - 1) /\ data_out_decoder = Stream[k]
     /\ state_contructor = "c_inc_mask" =>
          mask_integer = n - 1 /\ n \in 1 .. data_width /\ pack_data = Vector(Stream, m, n)
     /\ state_contructor = "c_check_mask_overflow" =>
          mask_integer = n /\ n \in 1 .. data_width /\ pack_data = Vector(Stream, m, n)
     /\ state_contructor = "c_send_package" =>
          mask_integer = n /\ n = data_width /\ pack_data = Vector(Stream, m, n) /\ write_request = 1
     /\ state_contructor = "c_clear" => n = 0

\* The command had k bits, and the constructor sends what it has of them, and the void package.
Flushing(k) ==
  LET m == Len(Written)
      n == Over(m, k)
  IN /\ WrittenAre(k) /\ (m = 0 \/ At(m - 1) < k)
     /\ state_contructor \in {"c_wait", "c_check_eop"} /\ clr_eop # 1 => Open(n)
     /\ state_contructor = "c_send_package" =>
          mask_integer = n /\ n \in 1 .. data_width /\ pack_data = Vector(Stream, m, n) /\ write_request = 1
     /\ state_contructor \in {"c_clear", "c_send_void_package"} \/ clr_eop = 1 => At(m) >= k
     /\ clr_eop = 1 => write_request = 1

\* All packages of k bits are written, the void package too.
Complete(k) ==
  LET m == Len(Written)
  IN WrittenAre(k) /\ m >= 1 /\ At(m - 1) >= k /\ (m = 1 \/ At(m - 2) < k)

\* The bits the constructor has been given while the decoder hears the cth.
Given(c) == IF state_decoder = "d_counter_cs" /\ data_ready = 0 THEN c ELSE c - 1

\* What is known of the cth bit while the tag is e clocks into the ith symbol.
Means(p, e, i, c) ==
  \/ c = i /\ Begun(p[1], p[2], e) /\ (Opening(e) \/ Starting(e) \/ FirstHalf(e)) /\ Told(i)
  \/ c = i /\ Ends(p[1], e) /\ Halving(p[2], e) /\ Stream[c] = 0
  \/ c = i /\ Lasts(p[1], e) /\ (LaterHalf(e) \/ Passing(e)) /\ Verdict = Stream[c]
  \/ /\ c = i - 1 /\ c >= 1 /\ Begun(p[1], p[2], e) /\ (Closing(e) \/ Late(e))
     /\ Told(i) /\ Verdict = Stream[c]

\* The constructor has k bits.
Place(p, e, i, c, k) == Fits(p) /\ Means(p, e, i, c) /\ Nth(i) /\ k = Given(c) /\ Accepted(k)

HearingBit == eop = 0 /\ \E p \in Pairs, e, i, c, k \in Nat : Place(p, e, i, c, k)

\* The words of the answer, by the place of the decoder in it.
WordsInv ==
  \/ HearingBit
  \/ Announcing /\ \E k \in Heard : Accepted(k)
  \/ Ending /\ \E k \in Heard : Flushing(k)
  \/ Quiet /\ mask_integer = 0 /\ pack_data = Zeros /\ (answer # <<>> => \E k \in Heard : Complete(k))
  \/ Failed /\ \E k \in 0 .. Len(answer) + 1 : Accepted(k)

\* An answer that the tag may send.
Sent == answer \in Answers /\ answer \in Seq(Bit)

\* A word that is popped has been read, and from this answer; the void package of the one before
\* is gone before a word of this one comes.
ReadInv ==
  /\ rdreq_pulse = 1 /\ got = <<>> => write_request # 1
  /\ access > Pause /\ ~already_read => got # <<>>

DataInv ==
  /\ Sent \/ (answer = <<>> /\ Quiet)
  /\ bits \in Seq(Bit) /\ ReadInv /\ WordsInv

-----------------------------------------------------------------------------
(* Packages and words.                                                     *)

LEMMA AtFacts ==
  ASSUME NEW m \in Int
  PROVE  /\ data_width \in Nat /\ data_width > 0 /\ At(m) \in Int /\ At(0) = 0
         /\ m >= 0 => At(m) >= 0
<1>1. data_width \in Nat /\ data_width > 0
  BY DataWidthAssumption
<1>2. m >= 0 => m * data_width >= 0
  BY <1>1
<1> QED
  BY <1>1, <1>2 DEF At

LEMMA AtNext ==
  ASSUME NEW m \in Int, NEW n \in Int, n = m + 1
  PROVE  At(n) = At(m) + data_width
<1>1. data_width \in Nat
  BY DataWidthAssumption
<1>2. (m + 1) * data_width = m * data_width + data_width
  BY <1>1
<1> QED
  BY <1>2 DEF At

LEMMA AtOrder ==
  ASSUME NEW a \in Int, NEW b \in Int
  PROVE  At(a) < At(b) => a < b
<1> SUFFICES ASSUME a >= b PROVE At(a) >= At(b)
  BY AtFacts
<1> DEFINE d == a - b
<1>1. data_width \in Nat /\ d \in Nat
  BY DataWidthAssumption
<1>2. d * data_width >= 0 /\ d * data_width \in Int
  BY <1>1
<1>3. a = b + d
  OBVIOUS
<1> HIDE DEF d
<1>4. (b + d) * data_width = b * data_width + d * data_width
  BY <1>1
<1> QED
  BY <1>1, <1>2, <1>3, <1>4 DEF At

\* A full package stays as it is when more bits come.
LEMMA FullStays ==
  ASSUME NEW stream, NEW m \in Nat, NEW k \in Int, At(m + 1) <= k, NEW l \in Int, k <= l
  PROVE  PackageAt(stream, m, l) = PackageAt(stream, m, k)
<1>1. At(m) \in Int /\ At(m + 1) = At(m) + data_width /\ data_width \in Nat
  BY AtFacts, AtNext
<1> QED
  BY <1>1 DEF PackageAt, Over

\* If all the packages that are written are full, more bits do not change them.
LEMMA WrittenStay ==
  ASSUME NEW k \in Int, NEW l \in Int, k <= l, WrittenAre(k), Len(Written) \in Nat, At(Len(Written)) <= k
  PROVE  WrittenAre(l)
<1> SUFFICES ASSUME NEW j \in 1 .. Len(Written) PROVE Written[j] = PackageAt(Stream, j - 1, l)
  BY DEF WrittenAre
<1>1. At(j) <= k
  <2>1. At(j) \in Int /\ At(Len(Written)) \in Int
    BY AtFacts
  <2>2. ~(At(Len(Written)) < At(j))
    BY AtOrder
  <2> QED
    BY <2>1, <2>2
<1>2. j - 1 \in Nat /\ (j - 1) + 1 = j
  OBVIOUS
<1>3. PackageAt(Stream, j - 1, l) = PackageAt(Stream, j - 1, k)
  BY <1>1, <1>2, FullStays
<1> QED
  BY <1>3 DEF WrittenAre

LEMMA Joined ==
  ASSUME NEW s, NEW t, IsSeq(s), IsSeq(t), NEW w
  PROVE  /\ IsSeq(s \o t) /\ Len(s \o t) = Len(s) + Len(t) /\ Len(s) \in Nat /\ Len(t) \in Nat
         /\ s \o Append(t, w) = Append(s \o t, w)
         /\ t # <<>> => Append(s, Head(t)) \o Tail(t) = s \o t
         /\ \A j \in 1 .. Len(s) : (s \o t)[j] = s[j]
<1>1. PICK S : s \in Seq(S)
  BY DEF IsSeq
<1>2. PICK T : t \in Seq(T)
  BY DEF IsSeq
<1> DEFINE U == S \cup T \cup {w}
<1>3. s \in Seq(U) /\ t \in Seq(U) /\ w \in U
  BY <1>1, <1>2
<1> HIDE DEF U
<1>4. s \o t \in Seq(U) /\ Len(s \o t) = Len(s) + Len(t)
  BY <1>3
<1>5. s \o Append(t, w) = Append(s \o t, w)
  BY <1>3
<1>6. ASSUME t # <<>> PROVE Append(s, Head(t)) \o Tail(t) = s \o t
  <2>1. /\ Head(t) \in U /\ Tail(t) \in Seq(U) /\ Len(Tail(t)) = Len(t) - 1 /\ Len(t) >= 1
        /\ Head(t) = t[1] /\ \A j \in 1 .. Len(t) - 1 : Tail(t)[j] = t[j + 1]
    BY <1>3, <1>6
  <2> DEFINE h == Head(t)
             a == Append(s, h)
             r == Tail(t)
  <2>2. /\ a \in Seq(U) /\ Len(a) = Len(s) + 1 /\ a[Len(s) + 1] = h
        /\ \A j \in 1 .. Len(s) : a[j] = s[j]
    BY <1>3, <2>1
  <2> HIDE DEF a, r, h
  <2>3. a \o r \in Seq(U) /\ Len(a \o r) = Len(a) + Len(r)
    BY <2>1, <2>2 DEF r
  <2>4. \A j \in 1 .. Len(s) + Len(t) : (a \o r)[j] = (s \o t)[j]
    <3> SUFFICES ASSUME NEW j \in 1 .. Len(s) + Len(t) PROVE (a \o r)[j] = (s \o t)[j]
      OBVIOUS
    <3>1. (a \o r)[j] = IF j <= Len(a) THEN a[j] ELSE r[j - Len(a)]
      BY <2>1, <2>2, <1>3 DEF r
    <3>2. (s \o t)[j] = IF j <= Len(s) THEN s[j] ELSE t[j - Len(s)]
      BY <1>3
    <3>3. Len(s) \in Nat /\ Len(t) \in Nat
      BY <1>3
    <3>4. CASE j <= Len(s)
      BY <2>2, <3>1, <3>2, <3>3, <3>4
    <3>5. CASE j = Len(s) + 1
      BY <2>1, <2>2, <3>1, <3>2, <3>3, <3>5 DEF h
    <3>6. CASE j > Len(s) + 1
      <4>1. r[j - Len(a)] = t[(j - Len(a)) + 1] /\ (j - Len(a)) + 1 = j - Len(s)
        BY <2>1, <2>2, <3>3, <3>6 DEF r
      <4> QED
        BY <2>2, <3>1, <3>2, <3>3, <3>6, <4>1
    <3>7. j <= Len(s) \/ j = Len(s) + 1 \/ j > Len(s) + 1
      BY <3>3
    <3> QED
      BY <3>4, <3>5, <3>6, <3>7, Zenon
  <2>5. Len(a \o r) = Len(s \o t) /\ Len(s \o t) = Len(s) + Len(t)
    BY <1>3, <1>4, <2>1, <2>2, <2>3 DEF r
  <2>6. a \o r = s \o t
    BY <1>4, <2>3, <2>4, <2>5
  <2> QED
    BY <2>6 DEF a, r, h
<1>7. \A j \in 1 .. Len(s) : (s \o t)[j] = s[j]
  BY <1>3
<1>8. IsSeq(s \o t) /\ Len(s) \in Nat /\ Len(t) \in Nat
  BY <1>3, <1>4 DEF IsSeq
<1> QED
  BY <1>4, <1>5, <1>6, <1>7, <1>8, Zenon

LEMMA WrittenStep ==
  ASSUME Beat, HostInv, ~BeginAnswer
  PROVE  /\ Written' = IF WordIsTaken THEN Append(Written, Word) ELSE Written
         /\ IsSeq(Written) /\ Len(Written) \in Nat
         /\ ~PopIsDue \/ got # <<>> => Len(rx_fifo) <= Len(Written)
<1>1. PICK rest :
        /\ Unread' = IF WordIsTaken THEN Append(rest, Word) ELSE rest
        /\ \/ rest = Unread /\ got' = got
           \/ Unread # <<>> /\ rest = Tail(Unread) /\ got' = Append(got, Head(Unread))
  BY HostStep
<1>2. IsSeq(Unread) /\ IsSeq(got) /\ IsSeq(rx_fifo)
  BY HostStep DEF HostInv
<1>3. IsSeq(got') /\ IsSeq(rest) /\ got' \o rest = got \o Unread
  <2>1. CASE rest = Unread /\ got' = got
    BY <1>2, <2>1
  <2>2. CASE Unread # <<>> /\ rest = Tail(Unread) /\ got' = Append(got, Head(Unread))
    <3>1. IsSeq(Append(got, Head(Unread))) /\ IsSeq(Tail(Unread))
      BY <1>2, <2>2, TailFacts, AppendFacts
    <3>2. Append(got, Head(Unread)) \o Tail(Unread) = got \o Unread
      BY <1>2, <2>2, Joined
    <3> QED
      BY <2>2, <3>1, <3>2
  <2> QED
    BY <1>1, <2>1, <2>2
<1>4. got' \o Append(rest, Word) = Append(got' \o rest, Word)
  BY <1>3, Joined
<1>5. Written' = IF WordIsTaken THEN Append(Written, Word) ELSE Written
  BY <1>1, <1>3, <1>4 DEF Written
<1>6. /\ IsSeq(Written) /\ Len(Written) = Len(got) + Len(Unread)
      /\ Len(got) \in Nat /\ Len(Unread) \in Nat
  BY <1>2, Joined DEF Written
<1>7. ~PopIsDue \/ got # <<>> => Len(rx_fifo) <= Len(got) + Len(Unread)
  <2>1. PICK S : rx_fifo \in Seq(S)
    BY <1>2 DEF IsSeq
  <2>2. got # <<>> => Len(got) >= 1
    <3>1. PICK T : got \in Seq(T)
      BY <1>2 DEF IsSeq
    <3> QED
      BY <3>1
  <2>3. CASE PopIsDue /\ rx_fifo # <<>>
    <3>1. Unread = Tail(rx_fifo)
      BY <2>3 DEF Unread
    <3>2. Len(Tail(rx_fifo)) = Len(rx_fifo) - 1 /\ Len(rx_fifo) \in Nat
      BY <2>1, <2>3
    <3> QED
      BY <1>6, <2>2, <2>3, <3>1, <3>2
  <2>4. CASE ~(PopIsDue /\ rx_fifo # <<>>)
    <3>1. Unread = rx_fifo
      BY <2>4 DEF Unread
    <3> QED
      BY <1>6, <3>1
  <2> QED
    BY <2>3, <2>4
<1> QED
  BY <1>5, <1>6, <1>7

LEMMA PackageOfBits ==
  ASSUME NEW stream, NEW s \in Seq(Bit), NEW m \in Nat, NEW k \in Nat, At(m) <= k,
         Len(s) = IF k - At(m) < data_width THEN k - At(m) ELSE data_width,
         \A x \in 1 .. Len(s) : s[x] = stream[At(m) + x]
  PROVE  PackageOf(s) = PackageAt(stream, m, k)
<1>1. At(m) \in Int /\ data_width \in Nat /\ Len(s) \in Nat
  BY AtFacts
<1>2. PackageAt(stream, m, k) = [data |-> Vector(stream, m, Len(s)), mask |-> Len(s)]
  BY <1>1 DEF PackageAt, Over
<1>3. ASSUME NEW x \in BitIndex
      PROVE  (IF x < Len(s) THEN s[x + 1] ELSE 0) = (IF x < Len(s) THEN stream[At(m) + x + 1] ELSE 0)
  <2>1. x \in Nat /\ At(m) + (x + 1) = At(m) + x + 1
    BY <1>1 DEF BitIndex
  <2> QED
    BY <1>1, <2>1
<1> QED
  BY <1>2, <1>3, Zenon DEF PackageOf, Vector

\* PackagesOf are the packages, one after the other, and the void package is the first without bits.
LEMMA PackagesFacts ==
  ASSUME NEW stream, NEW F \in Seq(Bit), \A x \in 1 .. Len(F) : F[x] = stream[x]
  PROVE  LET L == Len(PackagesOf(F))
         IN /\ L \in Nat /\ L >= 1 /\ IsSeq(PackagesOf(F))
            /\ At(L - 1) >= Len(F) /\ (L = 1 \/ At(L - 2) < Len(F))
            /\ \A j \in 1 .. L : PackagesOf(F)[j] = PackageAt(stream, j - 1, Len(F))
<1> DEFINE k == Len(F)
           whole == k \div data_width
           full == [p \in 1 .. whole |-> PackageOf(SubSeq(F, (p - 1) * data_width + 1, p * data_width))]
           rest == SubSeq(F, whole * data_width + 1, k)
           open == IF rest = <<>> THEN <<>> ELSE <<PackageOf(rest)>>
           W == PackagesOf(F)
           T == {PackageAt(stream, m, k) : m \in Nat}
<1>1. W = full \o open \o <<Void>>
  BY DEF PackagesOf
<1>2. /\ k \in Nat /\ whole \in Nat /\ data_width \in Nat \ {0} /\ At(whole) \in Int
      /\ At(whole) <= k /\ k < At(whole) + data_width
      /\ At(whole + 1) = At(whole) + data_width /\ At(whole - 1) = At(whole) - data_width
      /\ At(whole) >= 0 /\ \A x \in 1 .. k : F[x] \in Bit /\ F[x] = stream[x]
  <2>1. k \in Nat /\ data_width \in Nat \ {0}
    BY DataWidthAssumption
  <2>2. whole \in Nat /\ whole * data_width <= k /\ k < whole * data_width + data_width
    BY <2>1
  <2>3. \A x \in 1 .. k : F[x] \in Bit /\ F[x] = stream[x]
    OBVIOUS
  <2> HIDE DEF whole, k
  <2>4. At(whole) \in Int /\ At(whole) >= 0
    BY <2>1, <2>2 DEF At
  <2>5. At(whole + 1) = At(whole) + data_width /\ At(whole - 1) = At(whole) - data_width
    BY <2>1, <2>2 DEF At
  <2>6. At(whole) <= k /\ k < At(whole) + data_width
    BY <2>2 DEF At
  <2> QED
    BY <2>1, <2>2, <2>3, <2>4, <2>5, <2>6
<1> HIDE DEF whole, k
<1>3. /\ rest \in Seq(Bit) /\ Len(rest) = k - At(whole)
      /\ \A x \in 1 .. Len(rest) : rest[x] = stream[At(whole) + x]
  <2>1. \A x \in At(whole) + 1 .. k : F[x] \in Bit /\ F[x] = stream[x]
    BY <1>2
  <2>2. rest = SubSeq(F, At(whole) + 1, k)
    BY DEF At
  <2> DEFINE a == At(whole) + 1
  <2>3. a \in Int /\ k \in Int /\ \A x \in a .. k : F[x] \in Bit
    BY <1>2, <2>1
  <2> HIDE DEF a, rest
  <2>4. /\ SubSeq(F, a, k) \in Seq(Bit) /\ Len(SubSeq(F, a, k)) = (IF a <= k THEN k - a + 1 ELSE 0)
        /\ \A x \in 1 .. k - a + 1 : SubSeq(F, a, k)[x] = F[a + x - 1]
    BY <2>3, SubSeqProperties
  <2>5. At(whole) \in Int /\ a = At(whole) + 1 /\ rest = SubSeq(F, a, k)
    BY <1>2, <2>2 DEF a
  <2>6. Len(rest) = k - At(whole)
    BY <1>2, <2>3, <2>4, <2>5
  <2>7. ASSUME NEW x \in 1 .. Len(rest) PROVE rest[x] = stream[At(whole) + x]
    <3>1. k \in Int /\ At(whole) \in Int /\ a = At(whole) + 1 /\ x \in 1 .. k - At(whole)
      BY <1>2, <2>5, <2>6
    <3>2. x \in 1 .. k - a + 1 /\ a + x - 1 = At(whole) + x /\ At(whole) + x \in At(whole) + 1 .. k
      BY ONLY <3>1
    <3> QED
      BY <2>1, <2>4, <2>5, <3>2
  <2> QED
    BY <2>4, <2>5, <2>6, <2>7
<1>4. ASSUME NEW p \in 1 .. whole
      PROVE  PackageOf(SubSeq(F, (p - 1) * data_width + 1, p * data_width)) = PackageAt(stream, p - 1, k)
  <2> DEFINE a == At(p - 1) + 1
             b == At(p)
             s == SubSeq(F, a, b)
  <2>1. /\ p \in Int /\ p - 1 \in Nat /\ At(p) \in Int /\ At(p - 1) \in Int /\ At(p - 1) >= 0
        /\ At(p) = At(p - 1) + data_width
    <3>1. p \in Int /\ p - 1 \in Nat
      BY <1>2
    <3>2. At(p) \in Int /\ At(p - 1) \in Int /\ At(p - 1) >= 0
      BY <3>1, AtFacts
    <3>3. At(p) = At(p - 1) + data_width
      BY <1>2, <3>1 DEF At
    <3> QED
      BY <3>1, <3>2, <3>3
  <2>2. At(p) <= k
    <3>1. whole \in Int /\ p \in Int /\ ~(whole < p)
      BY <1>2
    <3>2. ~(At(whole) < At(p))
      BY <3>1, AtOrder
    <3> QED
      BY <1>2, <2>1, <3>2
  <2>3. a \in Int /\ b \in Int /\ \A x \in a .. b : F[x] \in Bit /\ F[x] = stream[x]
    BY <1>2, <2>1, <2>2
  <2>4. SubSeq(F, (p - 1) * data_width + 1, p * data_width) = s
    BY DEF At
  <2>5. a <= b /\ b - a + 1 = data_width
    BY <1>2, <2>1
  <2> HIDE DEF a, b
  <2>6. s \in Seq(Bit) /\ Len(s) = data_width /\ \A x \in 1 .. data_width : s[x] = F[a + x - 1]
    BY <2>3, <2>5, SubSeqProperties
  <2>7. ASSUME NEW x \in 1 .. Len(s) PROVE s[x] = stream[At(p - 1) + x]
    <3>1. /\ data_width \in Nat /\ At(p - 1) \in Int /\ a = At(p - 1) + 1 /\ x \in 1 .. data_width
          /\ b \in Int /\ b - a + 1 = data_width
      BY <1>2, <2>1, <2>3, <2>5, <2>6 DEF a
    <3>2. x \in 1 .. data_width /\ a + x - 1 = At(p - 1) + x /\ At(p - 1) + x \in a .. b
      BY ONLY <3>1
    <3> QED
      BY <2>3, <2>6, <3>2
  <2> HIDE DEF s
  <2>8. At(p - 1) <= k /\ Len(s) = IF k - At(p - 1) < data_width THEN k - At(p - 1) ELSE data_width
    BY <1>2, <2>1, <2>2, <2>6
  <2>9. PackageOf(s) = PackageAt(stream, p - 1, k)
    BY <1>2, <2>1, <2>6, <2>7, <2>8, PackageOfBits
  <2> QED
    BY <2>4, <2>9
<1> HIDE DEF rest, W
<1>5. full \in Seq(T) /\ Len(full) = whole /\ \A p \in 1 .. whole : full[p] = PackageAt(stream, p - 1, k)
  <2>1. full = [p \in 1 .. whole |-> PackageAt(stream, p - 1, k)]
    BY <1>4
  <2>2. ASSUME NEW p \in 1 .. whole PROVE PackageAt(stream, p - 1, k) \in T
    <3>1. p - 1 \in Nat
      BY <1>2
    <3> QED
      BY <3>1
  <2> HIDE DEF T, full
  <2>3. full \in [1 .. whole -> T]
    BY <2>1, <2>2
  <2>4. full \in Seq(T)
    BY <1>2, <2>3, SeqDef
  <2>5. DOMAIN full = 1 .. Len(full) /\ Len(full) \in Nat /\ DOMAIN full = 1 .. whole
    BY <2>3, <2>4, LenProperties
  <2>6. Len(full) = whole
    <3> DEFINE l == Len(full)
    <3>1. l \in Nat /\ whole \in Nat /\ 1 .. l = 1 .. whole
      BY <1>2, <2>5
    <3> HIDE DEF l
    <3>2. l # 0 => l \in 1 .. l
      BY ONLY <3>1
    <3>3. whole # 0 => whole \in 1 .. whole
      BY ONLY <3>1
    <3>4. l # 0 => l \in 1 .. whole
      BY ONLY <3>1, <3>2, Zenon
    <3>5. whole # 0 => whole \in 1 .. l
      BY ONLY <3>1, <3>3, Zenon
    <3>6. l = whole
      BY ONLY <3>1, <3>4, <3>5
    <3> QED
      BY <3>6 DEF l
  <2> QED
    BY <2>1, <2>4, <2>6
<1> HIDE DEF full
<1>6. PackageAt(stream, whole, k) = PackageOf(rest)
  <2>1. Len(rest) = IF k - At(whole) < data_width THEN k - At(whole) ELSE data_width
    BY <1>2, <1>3
  <2> QED
    BY <1>2, <1>3, <2>1, PackageOfBits
<1>7. \A m \in Nat : At(m) >= k => PackageAt(stream, m, k) = Void
  <2> SUFFICES ASSUME NEW m \in Nat, At(m) >= k PROVE PackageAt(stream, m, k) = Void
    OBVIOUS
  <2>1. Over(m, k) = 0 /\ 0 < data_width
    BY <1>2, AtFacts DEF Over
  <2>2. \A x \in BitIndex : ~(x < 0)
    BY DEF BitIndex
  <2>3. Vector(stream, m, 0) = Zeros
    BY <2>2 DEF Vector, Zeros
  <2> QED
    BY <2>1, <2>3 DEF PackageAt, Void
<1>8. \A m \in Nat : PackageAt(stream, m, k) \in T
  OBVIOUS
<1> HIDE DEF T, open
<1>9. CASE rest = <<>>
  <2>1. At(whole) = k /\ PackageAt(stream, whole, k) = Void
    BY <1>2, <1>3, <1>7, <1>9
  <2>2. W = Append(full, Void) /\ Void \in T
    <3>1. full \o <<>> = full
      BY <1>5, ConcatEmptySeq
    <3>2. Void \in T
      BY <1>2, <1>8, <2>1
    <3>3. full \o <<Void>> = Append(full, Void)
      BY <1>5, <3>2
    <3> QED
      BY <1>1, <1>9, <3>1, <3>2, <3>3 DEF open
  <2>3. W \in Seq(T) /\ Len(W) = whole + 1 /\ W[whole + 1] = Void /\ \A j \in 1 .. whole : W[j] = full[j]
    BY <1>2, <1>5, <2>2
  <2>4. \A j \in 1 .. whole + 1 : W[j] = PackageAt(stream, j - 1, k)
    <3> SUFFICES ASSUME NEW j \in 1 .. whole + 1 PROVE W[j] = PackageAt(stream, j - 1, k)
      OBVIOUS
    <3>1. CASE j = whole + 1
      BY <1>2, <2>1, <2>3, <3>1
    <3>2. CASE j \in 1 .. whole
      BY <1>5, <2>3, <3>2
    <3> QED
      BY <1>2, <3>1, <3>2
  <2>5. Len(W) - 1 = whole /\ Len(W) - 2 = whole - 1 /\ (Len(W) = 1 \/ At(whole - 1) < k)
    BY <1>2, <2>1, <2>3
  <2> QED
    BY <1>2, <2>1, <2>3, <2>4, <2>5 DEF IsSeq, W, k
<1>10. CASE rest # <<>>
  <2>1. At(whole) < k /\ At(whole + 1) >= k /\ PackageAt(stream, whole + 1, k) = Void
    <3>1. Len(rest) # 0
      BY <1>3, <1>10
    <3> QED
      BY <1>2, <1>3, <1>7, <3>1
  <2>2. W = Append(Append(full, PackageOf(rest)), Void) /\ Void \in T /\ PackageOf(rest) \in T
    <3>1. Void \in T /\ PackageOf(rest) \in T
      BY <1>2, <1>6, <1>8, <2>1
    <3>2. full \o <<PackageOf(rest)>> = Append(full, PackageOf(rest))
      BY <1>5, <3>1
    <3>3. Append(full, PackageOf(rest)) \in Seq(T)
      BY <1>5, <3>1
    <3>4. Append(full, PackageOf(rest)) \o <<Void>> = Append(Append(full, PackageOf(rest)), Void)
      BY <3>1, <3>3
    <3> QED
      BY <1>1, <1>10, <3>1, <3>2, <3>4 DEF open
  <2>3. /\ W \in Seq(T) /\ Len(W) = whole + 2 /\ W[whole + 2] = Void /\ W[whole + 1] = PackageOf(rest)
        /\ \A j \in 1 .. whole : W[j] = full[j]
    <3> DEFINE A == Append(full, PackageOf(rest))
    <3>1. /\ A \in Seq(T) /\ Len(A) = whole + 1 /\ A[whole + 1] = PackageOf(rest)
          /\ \A j \in 1 .. whole : A[j] = full[j]
      BY <1>2, <1>5, <2>2
    <3> HIDE DEF A
    <3>2. W = Append(A, Void)
      BY <2>2 DEF A
    <3> QED
      BY <1>2, <2>2, <3>1, <3>2
  <2>4. \A j \in 1 .. whole + 2 : W[j] = PackageAt(stream, j - 1, k)
    <3> SUFFICES ASSUME NEW j \in 1 .. whole + 2 PROVE W[j] = PackageAt(stream, j - 1, k)
      OBVIOUS
    <3>1. CASE j = whole + 2
      BY <1>2, <2>1, <2>3, <3>1
    <3>2. CASE j = whole + 1
      BY <1>2, <1>6, <2>3, <3>2
    <3>3. CASE j \in 1 .. whole
      BY <1>5, <2>3, <3>3
    <3> QED
      BY <1>2, <3>1, <3>2, <3>3
  <2>5. Len(W) - 1 = whole + 1 /\ Len(W) - 2 = whole
    BY <1>2, <2>3
  <2> QED
    BY <1>2, <2>1, <2>3, <2>4, <2>5 DEF IsSeq, W, k
<1> QED
  BY <1>9, <1>10

-----------------------------------------------------------------------------
(* The FIFO has room for the words of an answer.                           *)

LEMMA StreamFacts ==
  ASSUME Sent
  PROVE  /\ Stream \in Seq(Bit) /\ Len(Stream) = Len(answer) + 1 /\ Len(answer) \in Nat
         /\ Stream[Len(answer) + 1] = 1 /\ \A x \in 1 .. Len(answer) : Stream[x] = answer[x]
<1>1. answer \in Seq(Bit) /\ 1 \in Bit
  BY DEF Sent, Bit
<1> QED
  BY <1>1 DEF Stream

LEMMA Room ==
  ASSUME Sent, NEW m \in Nat, m = 0 \/ At(m - 1) < Len(answer) + 1
  PROVE  m < depth
<1> DEFINE L == Len(PackagesOf(Stream))
<1>1. L <= depth /\ depth \in Nat
  BY AnswersFit, DepthAssumption DEF Sent, Stream
<1>2. L \in Nat /\ L >= 1 /\ At(L - 1) >= Len(Stream) /\ Len(Stream) = Len(answer) + 1
  BY StreamFacts, PackagesFacts
<1> HIDE DEF L
<1>3. CASE m = 0
  BY <1>1, <1>2, <1>3
<1>4. CASE At(m - 1) < Len(answer) + 1
  <2>1. m - 1 \in Int /\ L - 1 \in Int /\ Len(answer) \in Nat
    BY <1>2, StreamFacts
  <2>2. At(m - 1) \in Int /\ At(L - 1) \in Int
    BY <2>1, AtFacts
  <2>3. At(m - 1) < At(L - 1)
    BY <1>2, <1>4, <2>1, <2>2
  <2>4. m - 1 < L - 1
    BY <2>1, <2>3, AtOrder
  <2> QED
    BY <1>1, <1>2, <2>4
<1> QED
  BY <1>3, <1>4

LEMMA ReadStep ==
  ASSUME Beat, HostInv, ReadInv, BeginAnswer => write_request' # 1
  PROVE  ReadInv'
<1>1. /\ rdreq_pulse' = IF access > Pause /\ ~already_read THEN 1 ELSE 0
      /\ already_read' <=> access > Pause
  BY ClockOfFifo
<1>2. \A w : Append(got, w) # <<>>
  BY AppendFacts DEF HostInv
<1>3. access \in Nat
  BY DEF HostInv
<1>4. CASE access = 0 /\ access' > Pause /\ ~BeginAnswer /\ got' = Append(got, Head(rx_fifo))
  BY <1>1, <1>2, <1>4 DEF ReadInv
<1>5. CASE /\ (access > 0 /\ access' = access - 1) \/ (access = 0 /\ access' = 0)
           /\ got' = IF BeginAnswer THEN <<>> ELSE got
  BY <1>1, <1>3, <1>5 DEF ReadInv, Pause
<1> QED
  BY <1>4, <1>5, ClockOfHost

\* What the constructor writes comes behind the words of the answer.
LEMMA WordStep ==
  ASSUME Beat, HostInv, ReadInv, ~BeginAnswer, Sent, answer' = answer, NEW k, WrittenAre(k),
         LET m == Len(Written)
         IN write_request = 1 =>
              (m = 0 \/ At(m - 1) < Len(answer) + 1) /\ Word = PackageAt(Stream, m, k)
  PROVE  /\ WrittenAre(k)' /\ Stream' = Stream /\ Len(Written) \in Nat
         /\ Len(Written') = IF write_request = 1 THEN Len(Written) + 1 ELSE Len(Written)
<1>1. /\ Written' = (IF WordIsTaken THEN Append(Written, Word) ELSE Written)
      /\ IsSeq(Written) /\ Len(Written) \in Nat
      /\ ~PopIsDue \/ got # <<>> => Len(rx_fifo) <= Len(Written)
  BY WrittenStep
<1>2. Stream' = Stream
  BY DEF Stream
<1>3. CASE write_request # 1
  <2>1. Written' = Written
    BY <1>1, <1>3 DEF WordIsTaken
  <2> QED
    BY <1>1, <1>2, <1>3, <2>1 DEF WrittenAre
<1>4. CASE write_request = 1
  <2> DEFINE m == Len(Written)
  <2>1. m < depth /\ Word = PackageAt(Stream, m, k)
    BY <1>1, <1>4, Room
  <2>2. Len(rx_fifo) <= m
    BY <1>1, <1>4 DEF ReadInv, PopIsDue
  <2>3. Len(rx_fifo) # depth
    <3>1. PICK S : rx_fifo \in Seq(S)
      BY DEF HostInv, IsSeq
    <3> QED
      BY <1>1, <2>1, <2>2, <3>1, DepthAssumption
  <2>4. Written' = Append(Written, Word)
    BY <1>1, <1>4, <2>3 DEF WordIsTaken
  <2>5. /\ Len(Written') = m + 1 /\ Written'[m + 1] = Word
        /\ \A j \in 1 .. m : Written'[j] = Written[j]
    <3>1. PICK S : Written \in Seq(S)
      BY <1>1 DEF IsSeq
    <3>2. Written \in Seq(S \cup {Word}) /\ Word \in S \cup {Word}
      BY <3>1
    <3> QED
      BY <2>4, <3>2
  <2> HIDE DEF m
  <2>6. ASSUME NEW j \in 1 .. m + 1 PROVE Written'[j] = PackageAt(Stream, j - 1, k)
    <3>1. CASE j = m + 1
      <4>1. j - 1 = m
        BY <1>1, <3>1 DEF m
      <4> QED
        BY <2>1, <2>5, <3>1, <4>1
    <3>2. CASE j \in 1 .. m
      BY <2>5, <3>2 DEF WrittenAre, m
    <3> QED
      BY <1>1, <3>1, <3>2 DEF m
  <2> QED
    BY <1>1, <1>2, <1>4, <2>5, <2>6 DEF WrittenAre, m
<1> QED
  BY <1>3, <1>4

-----------------------------------------------------------------------------
(* One clock of the constructor, and what it does to the packages.         *)

LEMMA InConstructor ==
  ASSUME Beat
  PROVE  /\ state_contructor \in {"c_wait", "c_new_bit", "c_inc_mask", "c_check_mask_overflow",
              "c_send_package", "c_clear", "c_check_eop", "c_send_void_package"}
         /\ state_contructor = "c_wait" =>
              /\ UNCHANGED <<pack_data, mask_integer>> /\ clr_eop' = 0 /\ write_request' = 0
              /\ data_ready = 1 => state_contructor' = "c_new_bit"
              /\ data_ready = 0 /\ eop = 1 => state_contructor' = "c_check_eop"
              /\ data_ready = 0 /\ eop = 0 => state_contructor' = "c_wait"
         /\ state_contructor = "c_new_bit" =>
              /\ state_contructor' = "c_inc_mask" /\ UNCHANGED <<mask_integer, write_request, clr_eop>>
              /\ pack_data' = [pack_data EXCEPT ![mask_integer] = data_out_decoder]
         /\ state_contructor = "c_inc_mask" =>
              /\ state_contructor' = "c_check_mask_overflow" /\ mask_integer' = mask_integer + 1
              /\ UNCHANGED <<pack_data, write_request, clr_eop>>
         /\ state_contructor = "c_check_mask_overflow" =>
              /\ UNCHANGED <<pack_data, mask_integer, clr_eop>>
              /\ mask_integer = data_width => state_contructor' = "c_send_package" /\ write_request' = 1
              /\ mask_integer # data_width =>
                   state_contructor' = "c_check_eop" /\ write_request' = write_request
         /\ state_contructor = "c_send_package" =>
              /\ state_contructor' = "c_clear" /\ write_request' = 0
              /\ UNCHANGED <<pack_data, mask_integer, clr_eop>>
         /\ state_contructor = "c_clear" =>
              /\ state_contructor' = "c_wait" /\ mask_integer' = 0 /\ pack_data' = Zeros
              /\ UNCHANGED <<write_request, clr_eop>>
         /\ state_contructor = "c_check_eop" =>
              /\ UNCHANGED <<pack_data, mask_integer, clr_eop>>
              /\ eop = 0 => state_contructor' = "c_wait" /\ write_request' = write_request
              /\ eop = 1 /\ mask_integer # 0 => state_contructor' = "c_send_package" /\ write_request' = 1
              /\ eop = 1 /\ mask_integer = 0 =>
                   state_contructor' = "c_send_void_package" /\ write_request' = write_request
         /\ state_contructor = "c_send_void_package" =>
              /\ state_contructor' = "c_wait" /\ mask_integer' = 0 /\ pack_data' = Zeros
              /\ clr_eop' = 1 /\ write_request' = 1
BY Clock
   DEF rx!pack_const!Tick, rx!pack_const!Reset, rx!pack_const!WaitBit, rx!pack_const!WaitEop, rx!pack_const!WaitIdle,
       rx!pack_const!NewBit, rx!pack_const!IncMask, rx!pack_const!MaskOverflow,
       rx!pack_const!NoMaskOverflow, rx!pack_const!SendPackage, rx!pack_const!Clear,
       rx!pack_const!EopWithBits, rx!pack_const!EopWithoutBits, rx!pack_const!NoEop,
       rx!pack_const!SendVoidPackage, rx!pack_const!SendOpenPackage,
       rx!pack_const!WaitClearFlags, rx!pack_const!In, rx!pack_const!Goto,
       rx!pack_const!Zeros, rx!pack_const!BitIndex, Zeros, BitIndex

LEMMA NoBits ==
  ASSUME NEW stream, NEW m
  PROVE  Vector(stream, m, 0) = Zeros
<1>1. \A x \in BitIndex : ~(x < 0)
  BY DataWidthAssumption DEF BitIndex
<1> QED
  BY <1>1 DEF Vector, Zeros

LEMMA OneMoreBit ==
  ASSUME NEW stream, NEW m \in Nat, NEW n \in 1 .. data_width
  PROVE  [Vector(stream, m, n - 1) EXCEPT ![n - 1] = stream[At(m) + n]] = Vector(stream, m, n)
<1>1. n - 1 \in BitIndex /\ At(m) \in Int /\ n \in Nat /\ At(m) + (n - 1) + 1 = At(m) + n
  BY DataWidthAssumption, AtFacts DEF BitIndex
<1>2. ASSUME NEW x \in BitIndex
      PROVE  (IF x = n - 1 THEN stream[At(m) + n] ELSE IF x < n - 1 THEN stream[At(m) + x + 1] ELSE 0)
               = IF x < n THEN stream[At(m) + x + 1] ELSE 0
  BY <1>1 DEF BitIndex
<1> QED
  BY <1>1, <1>2 DEF Vector

LEMMA WordIsPackage ==
  ASSUME NEW m \in Nat, NEW k \in Int, mask_integer = Over(m, k), mask_integer <= data_width,
         pack_data = Vector(Stream, m, mask_integer)
  PROVE  Word = PackageAt(Stream, m, k)
<1>1. Over(m, k) \in Int /\ data_width \in Int
  BY AtFacts DEF Over
<1> QED
  BY <1>1 DEF Word, PackageAt

LEMMA AcceptedStep ==
  ASSUME Beat, HostInv, ReadInv, BitsOnly, ~BeginAnswer, Sent, answer' = answer,
         NEW k \in Nat, k <= Len(answer) + 1, Accepted(k)
  PROVE  /\ data_ready = 0 => Accepted(k)'
         /\ data_ready = 1 /\ state_contructor = "c_wait" /\ data_out_decoder' = Stream[k + 1] =>
              Accepted(k + 1)'
<1> DEFINE m == Len(Written)
           n == k - At(m)
<1>1. m \in Nat /\ m \in Int /\ m - 1 \in Int /\ m + 1 \in Int
  BY WrittenStep
<1>2. /\ At(m) \in Int /\ At(m - 1) = At(m) - data_width /\ At(m + 1) = At(m) + data_width
      /\ data_width \in Nat /\ data_width > 0
  <2>1. data_width \in Nat /\ data_width > 0
    BY DataWidthAssumption
  <2>2. At(m) \in Int
    BY <1>1, AtFacts
  <2> HIDE DEF m
  <2>3. At(m - 1) = At(m) - data_width /\ At(m + 1) = At(m) + data_width
    BY <1>1, <2>1 DEF At
  <2> QED
    BY <2>1, <2>2, <2>3
<1>3. /\ WrittenAre(k) /\ n >= 0 /\ n \in Int
      /\ state_contructor \in {"c_wait", "c_check_eop"} => Open(n)
      /\ state_contructor = "c_new_bit" => n >= 1 /\ Open(n - 1) /\ data_out_decoder = Stream[k]
      /\ state_contructor = "c_inc_mask" =>
           mask_integer = n - 1 /\ n \in 1 .. data_width /\ pack_data = Vector(Stream, m, n)
      /\ state_contructor = "c_check_mask_overflow" =>
           mask_integer = n /\ n \in 1 .. data_width /\ pack_data = Vector(Stream, m, n)
      /\ state_contructor = "c_send_package" =>
           mask_integer = n /\ n = data_width /\ pack_data = Vector(Stream, m, n) /\ write_request = 1
      /\ state_contructor = "c_clear" => n = 0
  BY <1>2 DEF Accepted
<1>4. Open(n) <=> mask_integer = n /\ n < data_width /\ pack_data = Vector(Stream, m, n)
  BY DEF Open
<1>5. Open(n - 1) <=> mask_integer = n - 1 /\ n - 1 < data_width /\ pack_data = Vector(Stream, m, n - 1)
  BY DEF Open
<1> HIDE DEF m, n
<1>6. ASSUME write_request = 1
      PROVE  (m = 0 \/ At(m - 1) < Len(answer) + 1) /\ Word = PackageAt(Stream, m, k)
  <2>1. state_contructor = "c_send_package"
    BY <1>6 DEF BitsOnly
  <2>2. mask_integer = Over(m, k) /\ mask_integer <= data_width /\ pack_data = Vector(Stream, m, mask_integer)
    BY <1>2, <1>3, <2>1 DEF n, Over
  <2>3. At(m - 1) < Len(answer) + 1
    BY <1>2, <1>3, <2>1, StreamFacts DEF n
  <2> QED
    BY <1>1, <2>2, <2>3, WordIsPackage
<1>7. /\ WrittenAre(k)' /\ Stream' = Stream
      /\ Len(Written') = IF write_request = 1 THEN m + 1 ELSE m
  BY <1>3, <1>6, WordStep DEF m
\* Nothing is written: the number of packages is the same.
<1>8. ASSUME state_contructor # "c_send_package"  PROVE Len(Written') = m
  BY <1>7, <1>8 DEF BitsOnly
<1>9. ASSUME data_ready = 0  PROVE Accepted(k)'
  <2>1. CASE state_contructor \in {"c_wait", "c_check_eop"}
    <3>1. state_contructor' = "c_wait" /\ UNCHANGED <<pack_data, mask_integer>>
      BY <1>9, <2>1, InConstructor DEF BitsOnly
    <3>2. Len(Written') = m
      BY <1>8, <2>1
    <3> QED
      BY <1>3, <1>4, <1>7, <2>1, <3>1, <3>2 DEF Accepted, Open, n
  <2>2. CASE state_contructor = "c_new_bit"
    <3>1. /\ state_contructor' = "c_inc_mask" /\ mask_integer' = mask_integer
          /\ pack_data' = [pack_data EXCEPT ![mask_integer] = data_out_decoder]
      BY <2>2, InConstructor
    <3>2. mask_integer = n - 1 /\ n \in 1 .. data_width /\ pack_data = Vector(Stream, m, n - 1)
          /\ data_out_decoder = Stream[At(m) + n]
      BY <1>2, <1>3, <1>5, <2>2 DEF n
    <3>3. pack_data' = Vector(Stream, m, n)
      BY <1>1, <3>1, <3>2, OneMoreBit
    <3>4. Len(Written') = m
      BY <1>8, <2>2
    <3> QED
      BY <1>3, <1>7, <3>1, <3>2, <3>3, <3>4 DEF Accepted, n
  <2>3. CASE state_contructor = "c_inc_mask"
    <3>1. /\ state_contructor' = "c_check_mask_overflow" /\ mask_integer' = mask_integer + 1
          /\ pack_data' = pack_data
      BY <2>3, InConstructor
    <3>2. Len(Written') = m /\ mask_integer' = n
      BY <1>3, <1>8, <2>3, <3>1
    <3> QED
      BY <1>3, <1>7, <2>3, <3>1, <3>2 DEF Accepted, n
  <2>4. CASE state_contructor = "c_check_mask_overflow"
    <3>1. /\ UNCHANGED <<pack_data, mask_integer>>
          /\ mask_integer = data_width => state_contructor' = "c_send_package" /\ write_request' = 1
          /\ mask_integer # data_width => state_contructor' = "c_check_eop"
      BY <2>4, InConstructor
    <3>2. Len(Written') = m
      BY <1>8, <2>4
    <3> QED
      BY <1>2, <1>3, <1>7, <2>4, <3>1, <3>2 DEF Accepted, Open, n
  <2>5. CASE state_contructor = "c_send_package"
    <3>1. state_contructor' = "c_clear" /\ Len(Written') = m + 1
      BY <1>3, <1>7, <2>5, InConstructor
    <3>2. k - At(m + 1) = 0
      BY <1>2, <1>3, <2>5 DEF n
    <3> QED
      BY <1>7, <3>1, <3>2 DEF Accepted
  <2>6. CASE state_contructor = "c_clear"
    <3>1. state_contructor' = "c_wait" /\ mask_integer' = 0 /\ pack_data' = Zeros
      BY <2>6, InConstructor
    <3>2. Len(Written') = m /\ n = 0
      BY <1>3, <1>8, <2>6
    <3>3. pack_data' = Vector(Stream, m, 0)
      BY <3>1, NoBits
    <3> QED
      BY <1>2, <1>7, <3>1, <3>2, <3>3 DEF Accepted, Open, n
  <2> QED
    BY <2>1, <2>2, <2>3, <2>4, <2>5, <2>6, InConstructor DEF BitsOnly
<1>10. ASSUME data_ready = 1, state_contructor = "c_wait", data_out_decoder' = Stream[k + 1]
       PROVE  Accepted(k + 1)'
  <2>1. state_contructor' = "c_new_bit" /\ UNCHANGED <<pack_data, mask_integer>>
    BY <1>10, InConstructor
  <2>2. Len(Written') = m
    BY <1>8, <1>10
  <2>3. Written' = Written
    <3>1. write_request # 1
      BY <1>10 DEF BitsOnly
    <3> QED
      BY <3>1, WrittenStep DEF WordIsTaken
  <2>4. At(m) <= k
    BY <1>2, <1>3 DEF n
  <2>5. WrittenAre(k + 1)
    <3>1. k \in Int /\ k + 1 \in Int /\ k <= k + 1
      OBVIOUS
    <3> QED
      BY <1>1, <1>3, <2>4, <3>1, WrittenStay DEF m
  <2>6. WrittenAre(k + 1)'
    BY <1>7, <2>3, <2>5 DEF WrittenAre
  <2>7. (k + 1) - At(m) = n + 1 /\ (n + 1) - 1 = n /\ n + 1 >= 1 /\ n + 1 >= 0
    BY <1>2, <1>3 DEF n
  <2> QED
    BY <1>3, <1>4, <1>7, <1>10, <2>1, <2>2, <2>6, <2>7 DEF Accepted, Open
<1> QED
  BY <1>9, <1>10

LEMMA FlushingStep ==
  ASSUME Beat, HostInv, ReadInv, WriteInv, Ending, ~BeginAnswer, Sent, answer' = answer,
         NEW k \in Heard, Flushing(k)
  PROVE  /\ clr_eop # 1 => Flushing(k)'
         /\ clr_eop = 1 => Complete(k)' /\ mask_integer' = 0 /\ pack_data' = Zeros
<1> DEFINE m == Len(Written)
           n == Over(m, k)
<1>1. m \in Nat /\ m \in Int /\ m - 1 \in Int /\ m + 1 \in Int /\ k \in Nat /\ k <= Len(answer) + 1
  BY WrittenStep, StreamFacts DEF Heard
<1>2. /\ At(m) \in Int /\ At(m - 1) = At(m) - data_width /\ At(m + 1) = At(m) + data_width
      /\ data_width \in Nat /\ data_width > 0
  <2>1. data_width \in Nat /\ data_width > 0
    BY DataWidthAssumption
  <2>2. At(m) \in Int
    BY <1>1, AtFacts
  <2> HIDE DEF m
  <2>3. At(m - 1) = At(m) - data_width /\ At(m + 1) = At(m) + data_width
    BY <1>1, <2>1 DEF At
  <2> QED
    BY <2>1, <2>2, <2>3
<1>3. /\ WrittenAre(k) /\ (m = 0 \/ At(m - 1) < k)
      /\ state_contructor \in {"c_wait", "c_check_eop"} /\ clr_eop # 1 =>
           mask_integer = n /\ n < data_width /\ pack_data = Vector(Stream, m, n)
      /\ state_contructor = "c_send_package" =>
           mask_integer = n /\ n \in 1 .. data_width /\ pack_data = Vector(Stream, m, n) /\ write_request = 1
      /\ state_contructor \in {"c_clear", "c_send_void_package"} \/ clr_eop = 1 => At(m) >= k
      /\ clr_eop = 1 => write_request = 1
  BY DEF Flushing, Open
<1> HIDE DEF m
<1>4. n \in Nat /\ n = (IF k >= At(m) THEN k - At(m) ELSE 0)
  BY <1>1, <1>2 DEF Over
<1> HIDE DEF n
<1>5. /\ eop = 1 /\ data_ready = 0
      /\ clr_eop = 1 => state_contructor = "c_wait"
      /\ write_request = 1 => state_contructor = "c_send_package" \/ (clr_eop = 1 /\ pack_data = Zeros /\ mask_integer = 0)
      /\ state_contructor \in
           {"c_wait", "c_check_eop", "c_send_package", "c_clear", "c_send_void_package"}
  BY DEF Ending, WriteInv
<1>6. ASSUME write_request = 1
      PROVE  (m = 0 \/ At(m - 1) < Len(answer) + 1) /\ Word = PackageAt(Stream, m, k)
  <2>1. m = 0 \/ At(m - 1) < Len(answer) + 1
    BY <1>1, <1>2, <1>3, StreamFacts
  <2>2. CASE state_contructor = "c_send_package"
    <3>1. mask_integer = Over(m, k) /\ mask_integer <= data_width /\ pack_data = Vector(Stream, m, mask_integer)
      BY <1>2, <1>3, <2>2 DEF n
    <3> QED
      BY <1>1, <2>1, <3>1, WordIsPackage
  <2>3. CASE clr_eop = 1 /\ pack_data = Zeros /\ mask_integer = 0
    <3>1. mask_integer = Over(m, k) /\ mask_integer <= data_width
      BY <1>1, <1>2, <1>3, <2>3 DEF Over
    <3>2. pack_data = Vector(Stream, m, mask_integer)
      BY <2>3, NoBits
    <3> QED
      BY <1>1, <2>1, <3>1, <3>2, WordIsPackage
  <2> QED
    BY <1>5, <1>6, <2>2, <2>3
<1>7. /\ WrittenAre(k)' /\ Stream' = Stream
      /\ Len(Written') = IF write_request = 1 THEN m + 1 ELSE m
  BY <1>3, <1>6, WordStep DEF m
<1>8. CASE clr_eop = 1
  <2>1. Len(Written') = m + 1 /\ mask_integer' = 0 /\ pack_data' = Zeros
    BY <1>3, <1>5, <1>7, <1>8, InConstructor
  <2>2. (m + 1) - 1 = m /\ (m + 1) - 2 = m - 1 /\ m + 1 >= 1
    BY <1>1
  <2> QED
    BY <1>1, <1>3, <1>7, <1>8, <2>1, <2>2 DEF Complete
<1>9. CASE clr_eop # 1
  <2>0. ASSUME state_contructor # "c_send_package" PROVE Len(Written') = m
    BY <1>5, <1>7, <1>9, <2>0
  <2>1. CASE state_contructor = "c_wait"
    <3>1. state_contructor' = "c_check_eop" /\ clr_eop' = 0 /\ UNCHANGED <<pack_data, mask_integer>>
      BY <1>5, <2>1, InConstructor
    <3> QED
      BY <1>3, <1>7, <1>9, <2>0, <2>1, <3>1 DEF Flushing, Open, n
  <2>2. CASE state_contructor = "c_check_eop"
    <3>1. /\ UNCHANGED <<pack_data, mask_integer, clr_eop>>
          /\ mask_integer # 0 => state_contructor' = "c_send_package" /\ write_request' = 1
          /\ mask_integer = 0 => state_contructor' = "c_send_void_package"
      BY <1>5, <2>2, InConstructor
    <3>2. Len(Written') = m /\ mask_integer = n /\ n < data_width /\ pack_data = Vector(Stream, m, n)
      BY <1>3, <1>9, <2>0, <2>2
    <3>3. CASE mask_integer # 0
      <4>1. n \in 1 .. data_width
        BY <1>2, <1>4, <3>2, <3>3
      <4> QED
        BY <1>3, <1>7, <1>9, <3>1, <3>2, <3>3, <4>1 DEF Flushing, n
    <3>4. CASE mask_integer = 0
      <4>1. At(m) >= k
        BY <1>1, <1>2, <1>4, <3>2, <3>4
      <4> QED
        BY <1>3, <1>7, <1>9, <3>1, <3>2, <3>4, <4>1 DEF Flushing
    <3> QED
      BY <3>3, <3>4
  <2>3. CASE state_contructor = "c_send_package"
    <3>1. state_contructor' = "c_clear" /\ clr_eop' = clr_eop /\ Len(Written') = m + 1
      BY <1>3, <1>7, <2>3, InConstructor
    <3>2. At(m + 1) >= k /\ (m + 1) - 1 = m /\ At(m) < k
      BY <1>1, <1>2, <1>3, <1>4, <2>3
    <3> QED
      BY <1>7, <1>9, <3>1, <3>2 DEF Flushing
  <2>4. CASE state_contructor = "c_clear"
    <3>1. state_contructor' = "c_wait" /\ clr_eop' = clr_eop /\ mask_integer' = 0 /\ pack_data' = Zeros
      BY <2>4, InConstructor
    <3>2. Len(Written') = m /\ Over(m, k) = 0
      BY <1>1, <1>2, <1>3, <2>0, <2>4 DEF Over
    <3>3. pack_data' = Vector(Stream, m, 0)
      BY <3>1, NoBits
    <3> QED
      BY <1>2, <1>3, <1>7, <1>9, <3>1, <3>2, <3>3 DEF Flushing, Open
  <2>5. CASE state_contructor = "c_send_void_package"
    <3>1. state_contructor' = "c_wait" /\ clr_eop' = 1 /\ write_request' = 1
      BY <2>5, InConstructor
    <3>2. Len(Written') = m /\ At(m) >= k
      BY <1>3, <2>0, <2>5
    <3> QED
      BY <1>3, <1>7, <3>1, <3>2 DEF Flushing
  <2> QED
    BY <1>5, <2>1, <2>2, <2>3, <2>4, <2>5
<1> QED
  BY <1>8, <1>9

-----------------------------------------------------------------------------
(* The place of the tag in its answer.                                     *)

LEMMA SymbolTells ==
  ASSUME NEW bit \in Bit, NEW kept, SendSymbol(bit, kept)
  PROVE  bit = IF second' # 0 THEN 0 ELSE 1
<1>1. PICK p \in Pairs : SymbolOf(bit, p[1], p[2])
  <2>1. CASE \E whole \in Wholes, half \in Halves : SymbolOf(bit, whole, half)
    <3>1. PICK whole \in Wholes, half \in Halves : SymbolOf(bit, whole, half)
      BY <2>1
    <3>2. <<whole, half>> \in Pairs
      BY DEF Pairs
    <3> QED
      BY <3>1, <3>2
  <2>2. CASE \E whole \in WrongWholes, half \in WrongHalves : SymbolOf(bit, whole, half)
    <3>1. PICK whole \in WrongWholes, half \in WrongHalves : SymbolOf(bit, whole, half)
      BY <2>2
    <3>2. <<whole, half>> \in Pairs
      BY DEF Pairs
    <3> QED
      BY <3>1, <3>2
  <2> QED
    BY <2>1, <2>2 DEF SendSymbol
<1>2. p[1] \in Nat /\ p[2] \in Nat /\ p[2] + 2 <= p[1]
  BY ONLY <1>1, Lengths
<1> QED
  BY <1>1, <1>2 DEF SymbolOf, Bit

LEMMA NthStep ==
  ASSUME Tag, ~BeginAnswer, TypeInv, Sent, bits \in Seq(Bit),
         NEW p \in Pairs, NEW e \in Nat, NEW i \in Nat, Nth(i)
  PROVE  /\ bits' \in Seq(Bit) /\ Stream' = Stream
         /\ LevelHeld(p, e) => Nth(i)' /\ (Told(i) => Told(i)')
         /\ MiddleEdge(p, e) => Nth(i)' /\ (Told(i) => Stream[i] = 0)
         /\ LastEdge(p, e) => Nth(i + 1)' /\ Told(i + 1)'
<1>1. answer' = answer /\ Stream' = Stream
  BY TagStep DEF Stream
<1>2. /\ Stream[Len(answer) + 1] = 1 /\ Len(answer) \in Nat /\ Len(bits) \in Nat
      /\ p[1] \in Nat /\ p[2] \in Nat /\ p[2] + 2 <= p[1] /\ left \in Nat /\ second \in Nat /\ line \in Bit
  BY StreamFacts, Lengths DEF TypeInv
<1>3. CASE HoldLevel \/ StaySilent \/ FallSilent
  <2>1. UNCHANGED <<bits, answer, second, line>>
    BY <1>3 DEF HoldLevel, StaySilent, FallSilent, tag_vars
  <2>2. Nth(i)'
    BY <1>1, <1>2, <1>3, <2>1
       DEF HoldLevel, StaySilent, FallSilent, tag_vars, Nth, AtRest, Heard, Stream
  <2>3. Told(i) => Told(i)'
    BY <1>1, <1>3, <2>1 DEF HoldLevel, StaySilent, FallSilent, tag_vars, Told
  <2> QED
    BY <1>1, <2>1, <2>2, <2>3 DEF MiddleEdge, LastEdge
<1>4. CASE SecondHalf
  <2>1. UNCHANGED <<bits, answer, phase>> /\ line' # line /\ phase = "sending" /\ second > 0
    BY <1>2, <1>4 DEF SecondHalf, Bit
  <2>2. Nth(i)'
    BY <1>1, <2>1 DEF Nth, AtRest, Heard, Stream
  <2>3. Told(i) => Stream[i] = 0
    BY <1>2, <2>1 DEF Told
  <2>4. ~LevelHeld(p, e) /\ ~LastEdge(p, e)
    BY <1>2, <2>1 DEF LevelHeld, LastEdge, Ends
  <2> QED
    BY <1>1, <2>1, <2>2, <2>3, <2>4
<1>5. CASE NextSymbol
  <2>1. /\ phase = "sending" /\ phase' = "sending" /\ second = 0 /\ bits # <<>> /\ bits' = Tail(bits)
        /\ SendSymbol(Head(bits), in_time)
    BY <1>5 DEF NextSymbol
  <2>2. /\ i >= 1 /\ i + Len(bits) = Len(answer) /\ \A j \in 1 .. Len(bits) : bits[j] = Stream[i + j]
    BY <2>1 DEF Nth, AtRest
  <2>3. /\ Tail(bits) \in Seq(Bit) /\ Len(Tail(bits)) = Len(bits) - 1 /\ Len(bits) >= 1
        /\ Head(bits) = bits[1] /\ Head(bits) \in Bit
        /\ \A j \in 1 .. Len(bits) - 1 : Tail(bits)[j] = bits[j + 1]
    BY <2>1
  <2>4. Head(bits) = Stream[i + 1]
    BY <2>2, <2>3
  <2>5. ASSUME NEW j \in 1 .. Len(bits) - 1 PROVE Tail(bits)[j] = Stream[(i + 1) + j]
    <3>1. j + 1 \in 1 .. Len(bits) /\ i + (j + 1) = (i + 1) + j
      BY <1>2
    <3> QED
      BY <2>2, <2>3, <3>1
  <2>6. Nth(i + 1)'
    BY <1>1, <1>2, <2>1, <2>2, <2>3, <2>5 DEF Nth
  <2>7. Head(bits) = IF second' # 0 THEN 0 ELSE 1
    BY <2>1, <2>3, SymbolTells
  <2>8. Told(i + 1)'
    BY <1>1, <2>1, <2>4, <2>7 DEF Told
  <2>9. line' # line /\ ~MiddleEdge(p, e)
    <3>1. line' = 1 - line
      BY <2>1 DEF SendSymbol, SymbolOf
    <3> QED
      BY <1>2, <2>1, <3>1 DEF MiddleEdge, Splits, Bit
  <2> QED
    BY <1>1, <2>1, <2>3, <2>6, <2>8, <2>9 DEF LevelHeld
<1>6. CASE Rest
  <2>1. /\ phase = "sending" /\ phase' = "resting" /\ second = 0 /\ bits = <<>> /\ bits' = bits
        /\ line' = 0 /\ left' = RestClocks /\ second' = second
    BY <1>6 DEF Rest
  <2>2. i = Len(answer)
    BY <1>2, <2>1 DEF Nth, AtRest
  <2>3. AtRest'
    BY <2>1, TagAssumption DEF AtRest
  <2>4. Nth(i)' /\ Nth(i + 1)'
    BY <1>1, <2>2, <2>3 DEF Nth, Heard
  <2>5. (Told(i) => Told(i)') /\ Told(i + 1)'
    BY <1>1, <1>2, <2>1, <2>2 DEF Told
  <2>6. ~MiddleEdge(p, e)
    BY <1>2, <2>1 DEF MiddleEdge, Splits
  <2> QED
    BY <1>1, <2>1, <2>4, <2>5, <2>6
<1> QED
  BY <1>3, <1>4, <1>5, <1>6 DEF Tag

-----------------------------------------------------------------------------
(* One clock of the tag, the decoder, the constructor and the words.       *)

Ground ==
  /\ TypeInv /\ HostInv /\ WriteInv /\ ReadInv /\ Sent /\ bits \in Seq(Bit)
  /\ eop = 0 /\ BitsOnly

\* What the decoder gives in a place is the next bit, and the constructor is there to take it.
LEMMA PlaceFacts ==
  ASSUME Ground, NEW p \in Pairs, NEW e \in Nat, NEW i \in Nat, NEW c \in Nat, NEW k \in Nat,
         Place(p, e, i, c, k)
  PROVE  /\ Begun(p[1], p[2], e) /\ {i, c} \subseteq 1 .. Len(answer) + 1 /\ k <= Len(answer) + 1
         /\ data_ready \in {0, 1}
         /\ data_ready = 1 =>
              /\ state_contructor = "c_wait" /\ k + 1 = c /\ data_out_decoder = Stream[c]
              /\ \/ state_decoder = "d_counter_cs"
                 \/ state_decoder = "d_wait" /\ data_receiver_start = 1 /\ c + 1 = i
<1>1. Len(answer) \in Nat /\ Len(answer) >= 1 /\ Len(bits) \in Nat
  BY TagAssumption DEF Ground, Sent
<1>2. i \in 1 .. Len(answer) + 1
  BY <1>1 DEF Place, Nth, Heard
<1>3. c = i \/ (c + 1 = i /\ c >= 1)
  BY DEF Place, Means
<1>4. k = c - 1 \/ (k = c /\ data_ready = 0)
  BY DEF Place, Given
<1>5. Begun(p[1], p[2], e)
  BY DEF Place, Means, Begun, Lasts
<1>6. /\ data_ready \in {0, 1}
      /\ data_ready = 1 =>
           \/ Closing(e) /\ BitIsGiven
           \/ (Passing(e) \/ Late(e)) /\ LastBitIsGiven
  BY DEF Place, Means, Opening, Starting, FirstHalf, LaterHalf, Counting, Halving, Passing, Closing, Late,
         EdgeIsThere, EdgeIsChecked, BitIsGiven, TariHasPassed, LastBitIsGiven
<1>7. ASSUME data_ready = 1
      PROVE  /\ state_contructor = "c_wait" /\ data_out_decoder = Stream[c]
             /\ \/ state_decoder = "d_counter_cs"
                \/ state_decoder = "d_wait" /\ data_receiver_start = 1 /\ c + 1 = i
  <2>1. CASE Closing(e) /\ BitIsGiven
    <3>1. state_contructor = "c_wait" /\ state_decoder = "d_wait" /\ data_receiver_start = 1
      BY <2>1 DEF BitIsGiven, Decoding
    <3>2. c = i - 1 /\ Verdict = Stream[c]
      BY <1>7, <3>1 DEF Place, Means, Opening, Starting, FirstHalf, LaterHalf, Counting, Halving, Passing,
                        TariHasPassed, LastBitIsGiven
    <3>3. data_out_decoder = Stream[c]
      BY <3>1, <3>2 DEF Verdict
    <3> QED
      BY <1>3, <3>1, <3>2, <3>3
  <2>2. CASE (Passing(e) \/ Late(e)) /\ LastBitIsGiven
    <3>1. state_decoder = "d_counter_cs" /\ clocks_counted = t101 + 3 /\ clocks_counted \in Nat
      BY <1>7, <2>2 DEF LastBitIsGiven, Ground, TypeInv
    <3>2. state_contructor = "c_wait"
      <4>1. Storing(state_contructor, clocks_counted - t101 - 3)
        BY <2>2 DEF LastBitIsGiven
      <4>2. clocks_counted - t101 - 3 = 0
        BY <3>1, LimitsAssumption DEF t101
      <4> QED
        BY <4>1, <4>2 DEF Storing
    <3>3. Verdict = Stream[c]
      BY <1>7, <3>1 DEF Place, Means, Opening, Starting, FirstHalf, Counting, Halving
    <3>4. data_out_decoder = Stream[c]
      BY <3>1, <3>3 DEF Verdict
    <3> QED
      BY <3>1, <3>2, <3>4
  <2> QED
    BY <1>6, <1>7, <2>1, <2>2
<1> QED
  BY <1>1, <1>2, <1>3, <1>4, <1>5, <1>6, <1>7

\* The bits the constructor has after a clock.
LEMMA GivenStep ==
  ASSUME Beat, ~BeginAnswer, Ground, NEW p \in Pairs, NEW e \in Nat, NEW i \in Nat, NEW c \in Nat,
         NEW k \in Nat, Place(p, e, i, c, k)
  PROVE  \E l \in Nat :
           /\ l <= Len(answer) + 1 /\ Accepted(l)' /\ l = (IF data_ready = 1 THEN c ELSE k)
           /\ state_decoder' \notin {"d_start_counter", "d_error", "d_end"} => l = Given(c)'
           /\ state_decoder' = "d_start_counter" =>
                (data_ready = 0 => l = Given(c)') /\ (data_ready = 1 => l = Given(c + 1)')
<1>1. answer' = answer /\ HostInv /\ ReadInv /\ BitsOnly /\ Sent
  BY TagStep, Clock DEF Ground
<1>2. /\ Accepted(k) /\ k = Given(c) /\ c \in 1 .. Len(answer) + 1 /\ k <= Len(answer) + 1
      /\ data_ready \in {0, 1}
  BY PlaceFacts DEF Place
<1>3. PICK l \in Nat : l = IF data_ready = 1 THEN c ELSE k
  OBVIOUS
<1>5. Accepted(l)' /\ l <= Len(answer) + 1
  <2>1. CASE data_ready = 0
    <3>1. l = k
      BY <1>3, <2>1
    <3> QED
      BY <1>1, <1>2, <2>1, <3>1, AcceptedStep
  <2>2. CASE data_ready = 1
    <3>1. state_contructor = "c_wait" /\ k + 1 = c /\ data_out_decoder' = Stream[c]
      BY <2>2, PlaceFacts, VerdictStep
    <3>2. l = k + 1 /\ l <= Len(answer) + 1
      BY <1>2, <1>3, <2>2, <3>1
    <3> QED
      BY <1>1, <1>2, <2>2, <3>1, <3>2, AcceptedStep
  <2> QED
    BY <1>2, <2>1, <2>2
<1>4. /\ state_decoder' \notin {"d_start_counter", "d_error", "d_end"} => l = Given(c)'
      /\ state_decoder' = "d_start_counter" =>
           (data_ready = 0 => l = Given(c)') /\ (data_ready = 1 => l = Given(c + 1)')
  <2>1. CASE state_decoder = "d_counter_cs"
    BY <1>2, <1>3, <2>1, VerdictStep DEF Given
  <2>2. CASE state_decoder # "d_counter_cs"
    <3>1. k + 1 = c
      BY <1>2, <2>2 DEF Given
    <3>2. Given(c)' = c - 1 /\ (state_decoder' # "d_counter_cs" => Given(c + 1)' = c)
      BY <1>2, <2>2, VerdictStep DEF Given
    <3>3. data_ready = 1 => state_decoder' = "d_start_counter"
      BY <2>2, PlaceFacts, InWait
    <3> QED
      BY <1>2, <1>3, <3>1, <3>2, <3>3
  <2> QED
    BY <2>1, <2>2
<1> QED
  BY <1>3, <1>4, <1>5

\* The tag stays in its symbol, or is at the start of the next one.
LEMMA PlaceStep ==
  ASSUME Beat, ~BeginAnswer, Ground, NEW p \in Pairs, NEW e \in Nat, NEW i \in Nat, NEW c \in Nat,
         NEW k \in Nat, Place(p, e, i, c, k)
  PROVE  /\ Stream' = Stream /\ answer' = answer /\ bits' \in Seq(Bit)
         /\ LevelHeld(p, e) =>
              /\ Fits(p)' /\ Nth(i)' /\ (Told(i) => Told(i)')
              /\ Begun(p[1], p[2], e + 1)' /\ (Lasts(p[1], e) => Lasts(p[1], e + 1)')
         /\ MiddleEdge(p, e) =>
              /\ Fits(p)' /\ Nth(i)' /\ (Told(i) => Stream[i] = 0)
              /\ Ends(p[1], e + 1)'
         /\ LastEdge(p, e) =>
              /\ Nth(i + 1)' /\ Told(i + 1)' /\ \E q \in Pairs : Fits(q)' /\ Begun(q[1], q[2], 0)'
<1>1. Tag /\ TypeInv /\ Sent /\ bits \in Seq(Bit) /\ Nth(i) /\ Fits(p)
  BY Clock DEF Ground, Place
<1>2. answer' = answer
  BY <1>1, TagStep
<1>3. LevelHeld(p, e) \/ MiddleEdge(p, e) => Fits(p)'
  BY <1>1 DEF LevelHeld, MiddleEdge, Fits
<1>4. LevelHeld(p, e) => Begun(p[1], p[2], e + 1)' /\ (Lasts(p[1], e) => Lasts(p[1], e + 1)')
  BY DEF LevelHeld
<1>5. MiddleEdge(p, e) => Ends(p[1], e + 1)'
  BY DEF MiddleEdge
<1>6. LastEdge(p, e) => \E q \in Pairs : Fits(q)' /\ Begun(q[1], q[2], 0)'
  BY DEF LastEdge, NewSymbol
<1> QED
  BY <1>1, <1>2, <1>3, <1>4, <1>5, <1>6, NthStep

\* A symbol that began as a 1 and comes to its end is a 1.
LEMMA ToldIsOne ==
  ASSUME NEW i, NEW whole, NEW e, Told(i), Lasts(whole, e)
  PROVE  Stream[i] = 1
BY DEF Told, Lasts, Ends, AtRest

BitFailed == Failed /\ \E k \in 0 .. Len(answer) + 1 : Accepted(k)
BitAnnounced == Announcing /\ \E k \in Heard : Accepted(k)

LEMMA SameSymbol ==
  ASSUME eop' = 0, NEW p \in Pairs, NEW e \in Nat, NEW i \in Nat, NEW c \in Nat, NEW l \in Nat,
         Fits(p)', Nth(i)', Accepted(l)', l = Given(c)', Means(p, e + 1, i, c)'
  PROVE  HearingBit'
<1>1. Place(p, e + 1, i, c, l)' /\ e + 1 \in Nat
  BY DEF Place
<1> QED
  BY <1>1 DEF HearingBit

LEMMA NewPlace ==
  ASSUME eop' = 0, NEW p \in Pairs, NEW i \in Nat, i >= 1, NEW l \in Nat, Fits(p)', Begun(p[1], p[2], 0)',
         Nth(i + 1)', Told(i + 1)', Accepted(l)', l = Given(i)', Closing(0)' \/ Late(0)',
         Verdict' = Stream'[i]
  PROVE  HearingBit'
<1>1. Means(p, 0, i + 1, i)'
  BY DEF Means
<1>2. Place(p, 0, i + 1, i, l)' /\ i + 1 \in Nat
  BY <1>1 DEF Place
<1> QED
  BY <1>2 DEF HearingBit

\* The states of the decoder in the places, for what it gives and what the constructor has.
PlaceStates(half, e) ==
  /\ Opening(e) => state_decoder = "d_wait" /\ data_ready = 0
  /\ Starting(e) => state_decoder = "d_start_counter" /\ data_ready = 0
  /\ FirstHalf(e) => state_decoder = "d_wait_counter" /\ data_ready = 0
  /\ LaterHalf(e) => state_decoder = "d_wait_counter2"
  /\ Halving(half, e) => state_decoder \in {"d_wait_counter", "d_check_counter"}
  /\ Passing(e) => state_decoder \in {"d_pass_1_01_tari", "d_counter_cs"}
  /\ Closing(e) => \/ e \in 0 .. 1 /\ data_ready = 0
                      /\ state_decoder \in {"d_wait_counter", "d_wait_counter2",
                                            "d_check_counter", "d_check_counter2"}
                   \/ e = 2 /\ state_decoder = "d_wait" /\ data_ready = 1
  /\ Closing(e) /\ e > 0 => state_decoder \in {"d_check_counter", "d_check_counter2", "d_wait"}
  /\ Late(e) => \/ e = 0 /\ state_decoder \in {"d_wait_counter", "d_wait_counter2"}
                \/ state_decoder \in {"d_pass_1_01_tari", "d_counter_cs"}

LEMMA InPlace ==
  ASSUME NEW half, NEW e \in Nat
  PROVE  PlaceStates(half, e) /\ PlaceStates(half, e)'
BY DEF PlaceStates, Opening, Starting, FirstHalf, LaterHalf, Counting, Halving, Passing, TariHasPassed, LastBitIsGiven,
       Closing, EdgeIsThere, EdgeIsChecked, BitIsGiven, Late

LEMMA HeardStep ==
  ASSUME Beat, ~BeginAnswer, Ground, HearingBit
  PROVE  HearingBit' \/ BitFailed' \/ BitAnnounced'
<1>1. PICK p \in Pairs, e \in Nat, i \in Nat, c \in Nat, k \in Nat : Place(p, e, i, c, k)
  BY DEF HearingBit
<1>2. /\ Beat /\ ~BeginAnswer /\ TypeInv /\ BitsOnly /\ Fits(p) /\ Nth(i) /\ Means(p, e, i, c)
      /\ k = Given(c) /\ Len(answer) \in Nat
  BY <1>1, StreamFacts DEF Ground, Place
<1>3. PICK l \in Nat :
         /\ l <= Len(answer) + 1 /\ Accepted(l)' /\ l = (IF data_ready = 1 THEN c ELSE k)
         /\ state_decoder' \notin {"d_start_counter", "d_error", "d_end"} => l = Given(c)'
         /\ state_decoder' = "d_start_counter" =>
              (data_ready = 0 => l = Given(c)') /\ (data_ready = 1 => l = Given(c + 1)')
  BY <1>1, GivenStep
<1>4. /\ i >= 1 /\ c >= 1 /\ Stream' = Stream /\ answer' = answer
      /\ LevelHeld(p, e) =>
           /\ Fits(p)' /\ Nth(i)' /\ (Told(i) => Told(i)')
           /\ Begun(p[1], p[2], e + 1)' /\ (Lasts(p[1], e) => Lasts(p[1], e + 1)')
      /\ MiddleEdge(p, e) => /\ Fits(p)' /\ Nth(i)' /\ (Told(i) => Stream[i] = 0) /\ Ends(p[1], e + 1)'
      /\ LastEdge(p, e) =>
           /\ Nth(i + 1)' /\ Told(i + 1)' /\ \E q \in Pairs : Fits(q)' /\ Begun(q[1], q[2], 0)'
  BY <1>1, PlaceFacts, PlaceStep
<1>places. PlaceStates(p[2], e) /\ PlaceStates(p[2], e + 1)' /\ PlaceStates(p[2], 0)'
  BY InPlace
<1>5. Failed' => BitFailed'
  BY <1>2, <1>3, <1>4 DEF BitFailed
<1>6. ASSUME eop' = 0, LevelHeld(p, e) \/ MiddleEdge(p, e), l = Given(c)', Means(p, e + 1, i, c)'
      PROVE  HearingBit'
  BY <1>3, <1>4, <1>6, SameSymbol
<1>7. ASSUME eop' = 0, LastEdge(p, e), Closing(0)' \/ Late(0)', c = i, Verdict' = Stream[i]
      PROVE  HearingBit'
  <2>1. PICK q \in Pairs : Fits(q)' /\ Begun(q[1], q[2], 0)'
    BY <1>4, <1>7
  <2>2. l = Given(i)'
    BY <1>3, <1>7, <1>places DEF PlaceStates
  <2> QED
    BY <1>3, <1>4, <1>7, <2>1, <2>2, NewPlace
\* The middle of a 0.
<1>8. ASSUME eop' = 0, MiddleEdge(p, e), Halving(p[2], e + 1)', c = i, Told(i)
      PROVE  HearingBit'
  <2>1. Means(p, e + 1, i, c)'
    BY <1>4, <1>8 DEF Means
  <2>2. l = Given(c)'
    BY <1>3, <1>8, <1>places DEF PlaceStates
  <2> QED
    BY <1>6, <1>8, <2>1, <2>2
<1>9. CASE c = i /\ Begun(p[1], p[2], e) /\ Opening(e) /\ Told(i)
  <2>1. LevelHeld(p, e) /\ eop' = 0 /\ (Opening(e + 1)' \/ Starting(e + 1)')
    BY <1>2, <1>9, OpeningStep
  <2>2. Means(p, e + 1, i, c)'
    BY <1>4, <1>9, <2>1 DEF Means
  <2>3. l = Given(c)'
    BY <1>3, <1>9, <2>1, <1>places DEF PlaceStates
  <2> QED
    BY <1>6, <2>1, <2>2, <2>3
<1>10. CASE c = i /\ Begun(p[1], p[2], e) /\ Starting(e) /\ Told(i)
  <2>1. CASE LevelHeld(p, e) /\ eop' = 0 /\ FirstHalf(e + 1)'
    <3>1. Means(p, e + 1, i, c)'
      BY <1>4, <1>10, <2>1 DEF Means
    <3>2. l = Given(c)'
      BY <1>3, <2>1, <1>places DEF PlaceStates
    <3> QED
      BY <1>6, <2>1, <3>1, <3>2
  <2> QED
    BY <1>2, <1>8, <1>10, <2>1, StartingStep
<1>11. CASE c = i /\ Begun(p[1], p[2], e) /\ FirstHalf(e) /\ Told(i)
  <2>1. /\ eop' = 0
        /\ \/ LevelHeld(p, e) /\ FirstHalf(e) /\ FirstHalf(e + 1)'
           \/ LevelHeld(p, e) /\ LaterHalf(e) /\ Lasts(p[1], e) /\ LaterHalf(e + 1)'
           \/ LevelHeld(p, e) /\ Lasts(p[1], e) /\ Passing(e + 1)'
           \/ MiddleEdge(p, e) /\ FirstHalf(e) /\ Halving(p[2], e + 1)'
           \/ LastEdge(p, e) /\ (Closing(0)' \/ Late(0)')
    BY <1>2, <1>11, CountingStep
  <2>2. state_decoder = "d_wait_counter" /\ Verdict = 1 /\ ~LaterHalf(e)
    BY <1>11, <1>places DEF Verdict, PlaceStates
  <2>3. Lasts(p[1], e) => Stream[i] = 1
    BY <1>11, ToldIsOne
  <2>4. CASE LevelHeld(p, e) /\ FirstHalf(e + 1)'
    <3>1. Means(p, e + 1, i, c)'
      BY <1>4, <1>11, <2>4 DEF Means
    <3>2. l = Given(c)'
      BY <1>3, <2>4, <1>places DEF PlaceStates
    <3> QED
      BY <1>6, <2>1, <2>4, <3>1, <3>2
  <2>5. CASE LevelHeld(p, e) /\ Lasts(p[1], e) /\ Passing(e + 1)'
    <3>1. Verdict' = 1 /\ l = Given(c)'
      BY <1>2, <1>3, <2>2, <2>5, <1>places, VerdictStep DEF PlaceStates
    <3>2. Means(p, e + 1, i, c)'
      BY <1>4, <1>11, <2>3, <2>5, <3>1 DEF Means
    <3> QED
      BY <1>6, <2>1, <2>5, <3>1, <3>2
  <2>6. CASE LastEdge(p, e) /\ (Closing(0)' \/ Late(0)')
    <3>1. Verdict' = 1
      BY <1>2, <2>2, <2>6, <1>places, VerdictStep DEF PlaceStates
    <3>2. Lasts(p[1], e)
      BY <2>6 DEF LastEdge, Lasts
    <3> QED
      BY <1>7, <1>11, <2>1, <2>3, <2>6, <3>1, <3>2
  <2> QED
    BY <1>8, <1>11, <2>1, <2>2, <2>4, <2>5, <2>6
<1>12. CASE c = i /\ Lasts(p[1], e) /\ LaterHalf(e) /\ Verdict = Stream[c]
  <2>1. /\ eop' = 0
        /\ \/ LevelHeld(p, e) /\ FirstHalf(e) /\ FirstHalf(e + 1)'
           \/ LevelHeld(p, e) /\ LaterHalf(e) /\ Lasts(p[1], e) /\ LaterHalf(e + 1)'
           \/ LevelHeld(p, e) /\ Lasts(p[1], e) /\ Passing(e + 1)'
           \/ MiddleEdge(p, e) /\ FirstHalf(e) /\ Halving(p[2], e + 1)'
           \/ LastEdge(p, e) /\ (Closing(0)' \/ Late(0)')
    BY <1>2, <1>12, CountingStep
  <2>2. state_decoder = "d_wait_counter2" /\ ~FirstHalf(e)
    BY <1>12, <1>places DEF PlaceStates
  <2>3. CASE LevelHeld(p, e) /\ (LaterHalf(e + 1)' \/ Passing(e + 1)')
    <3>1. Verdict' = Stream[c] /\ l = Given(c)'
      BY <1>2, <1>3, <1>12, <2>2, <2>3, <1>places, VerdictStep DEF PlaceStates
    <3>2. Means(p, e + 1, i, c)'
      BY <1>4, <1>12, <2>3, <3>1 DEF Means
    <3> QED
      BY <1>6, <2>1, <2>3, <3>1, <3>2
  <2>4. CASE LastEdge(p, e) /\ (Closing(0)' \/ Late(0)')
    <3>1. Verdict' = Stream[i]
      BY <1>2, <1>12, <2>2, <2>4, <1>places, VerdictStep DEF PlaceStates
    <3> QED
      BY <1>7, <1>12, <2>1, <2>4, <3>1
  <2> QED
    BY <2>1, <2>2, <2>3, <2>4
<1>13. CASE c = i /\ Ends(p[1], e) /\ Halving(p[2], e) /\ Stream[c] = 0
  <2>1. \/ Failed'
        \/ /\ eop' = 0
           /\ \/ LevelHeld(p, e) /\ Ends(p[1], e + 1)' /\ Halving(p[2], e + 1)'
              \/ LevelHeld(p, e) /\ Lasts(p[1], e + 1)' /\ LaterHalf(e + 1)'
              \/ LastEdge(p, e) /\ Closing(0)' /\ state_decoder' = "d_wait_counter2"
              \/ LastEdge(p, e) /\ Late(0)' /\ state_decoder' = "d_wait_counter2"
    BY <1>2, <1>13, HalvingStep
  <2>2. CASE eop' = 0 /\ LevelHeld(p, e) /\ Ends(p[1], e + 1)' /\ Halving(p[2], e + 1)'
    <3>1. Means(p, e + 1, i, c)'
      BY <1>4, <1>13, <2>2 DEF Means
    <3>2. l = Given(c)'
      BY <1>3, <2>2, <1>places DEF PlaceStates
    <3> QED
      BY <1>6, <2>2, <3>1, <3>2
  <2>3. CASE eop' = 0 /\ LevelHeld(p, e) /\ Lasts(p[1], e + 1)' /\ LaterHalf(e + 1)'
    <3>1. state_decoder' = "d_wait_counter2"
      BY <2>3, <1>places DEF PlaceStates
    <3>2. Verdict' = 0 /\ l = Given(c)'
      BY <1>3, <3>1 DEF Verdict
    <3>3. Means(p, e + 1, i, c)'
      BY <1>4, <1>13, <2>3, <3>2 DEF Means
    <3> QED
      BY <1>6, <2>3, <3>2, <3>3
  <2>4. CASE eop' = 0 /\ LastEdge(p, e) /\ (Closing(0)' \/ Late(0)') /\ state_decoder' = "d_wait_counter2"
    <3>1. Verdict' = 0
      BY <2>4 DEF Verdict
    <3> QED
      BY <1>7, <1>13, <2>4, <3>1
  <2> QED
    BY <1>5, <2>1, <2>2, <2>3, <2>4
<1>14. CASE c = i /\ Lasts(p[1], e) /\ Passing(e) /\ Verdict = Stream[c]
  <2>1. \/ LevelHeld(p, e) /\ Lasts(p[1], e + 1)' /\ eop' = 0 /\ Passing(e + 1)'
        \/ LastEdge(p, e) /\ eop' = 0 /\ Late(0)'
        \/ Failed'
        \/ AtRest /\ LastBitIsGiven /\ data_ready = 0 /\ Announcing'
    BY <1>2, <1>14, PassingStep
  <2>2. state_decoder \in {"d_pass_1_01_tari", "d_counter_cs"}
    BY <1>14, <1>places DEF PlaceStates
  <2>3. CASE LevelHeld(p, e) /\ Lasts(p[1], e + 1)' /\ eop' = 0 /\ Passing(e + 1)'
    <3>1. Verdict' = Stream[c] /\ l = Given(c)'
      BY <1>2, <1>3, <1>14, <2>2, <2>3, <1>places, VerdictStep DEF PlaceStates
    <3>2. Means(p, e + 1, i, c)'
      BY <1>4, <1>14, <2>3, <3>1 DEF Means
    <3> QED
      BY <1>6, <2>3, <3>1, <3>2
  <2>4. CASE LastEdge(p, e) /\ eop' = 0 /\ Late(0)'
    <3>1. Verdict' = Stream[i]
      BY <1>2, <1>14, <2>2, <2>4, <1>places, VerdictStep DEF PlaceStates
    <3> QED
      BY <1>7, <1>14, <2>4, <3>1
  <2>5. CASE AtRest /\ LastBitIsGiven /\ data_ready = 0 /\ Announcing'
    <3>1. i \in Heard
      BY <1>2, <2>5 DEF Nth, AtRest
    <3>2. l = i
      BY <1>2, <1>3, <1>14, <2>5 DEF Given, LastBitIsGiven
    <3>3. i \in Heard'
      BY <1>4, <3>1 DEF Heard
    <3> QED
      BY <1>3, <2>5, <3>2, <3>3 DEF BitAnnounced
  <2> QED
    BY <1>5, <2>1, <2>3, <2>4, <2>5
<1>15. CASE c = i - 1 /\ Begun(p[1], p[2], e) /\ Closing(e) /\ Told(i) /\ Verdict = Stream[c]
  <2>1. (LevelHeld(p, e) /\ eop' = 0 /\ (Closing(e + 1)' \/ Starting(e + 1)')) \/ Failed'
    BY <1>2, <1>15, ClosingStep
  <2>2. CASE LevelHeld(p, e) /\ eop' = 0 /\ Closing(e + 1)'
    <3>1. state_decoder # "d_start_counter" /\ state_decoder' \in {"d_check_counter", "d_check_counter2", "d_wait"}
      BY <1>15, <2>2, <1>places DEF PlaceStates
    <3>2. Verdict' = Stream[c] /\ l = Given(c)'
      BY <1>2, <1>3, <1>15, <3>1, VerdictStep
    <3>3. Means(p, e + 1, i, c)'
      BY <1>4, <1>15, <2>2, <3>2 DEF Means
    <3> QED
      BY <1>6, <2>2, <3>2, <3>3
  <2>3. CASE LevelHeld(p, e) /\ eop' = 0 /\ Starting(e + 1)'
    <3>1. state_decoder' = "d_start_counter" /\ state_decoder = "d_wait"
      BY <1>2, <2>3, <1>places, VerdictStep DEF PlaceStates
    <3>2. data_ready = 1 /\ c + 1 = i
      BY <1>2, <1>15, <3>1, <1>places DEF PlaceStates
    <3>3. l = Given(i)'
      BY <1>3, <3>1, <3>2
    <3>4. Means(p, e + 1, i, i)'
      BY <1>4, <1>15, <2>3 DEF Means
    <3> QED
      BY <1>3, <1>4, <2>3, <3>3, <3>4, SameSymbol
  <2> QED
    BY <1>5, <2>1, <2>2, <2>3
<1>16. CASE c = i - 1 /\ Begun(p[1], p[2], e) /\ Late(e) /\ Told(i) /\ Verdict = Stream[c]
  <2>1. (LevelHeld(p, e) /\ eop' = 0 /\ Late(e + 1)') \/ Failed'
    BY <1>2, <1>16, LateStep
  <2>2. CASE LevelHeld(p, e) /\ eop' = 0 /\ Late(e + 1)'
    <3>1. /\ state_decoder \notin {"d_start_counter", "d_check_counter"}
          /\ state_decoder' \in {"d_wait_counter", "d_wait_counter2", "d_pass_1_01_tari", "d_counter_cs"}
      BY <1>16, <2>2, <1>places DEF PlaceStates
    <3>2. Verdict' = Stream[c] /\ l = Given(c)'
      BY <1>2, <1>3, <1>16, <3>1, VerdictStep
    <3>3. Means(p, e + 1, i, c)'
      BY <1>4, <1>16, <2>2, <3>2 DEF Means
    <3> QED
      BY <1>6, <2>2, <3>2, <3>3
  <2> QED
    BY <1>5, <2>1, <2>2
<1> QED
  BY <1>2, <1>9, <1>10, <1>11, <1>12, <1>13, <1>14, <1>15, <1>16 DEF Means

-----------------------------------------------------------------------------
(* The end of a command, and the first bit of the next one.                *)

LEMMA AnnouncedStep ==
  ASSUME Beat, ~BeginAnswer, HostInv, WriteInv, ReadInv, Sent, answer' = answer, Announcing,
         NEW k \in Heard, Accepted(k)
  PROVE  Flushing(k)'
<1>1. /\ state_contructor = "c_wait" /\ data_ready = 0 /\ eop = 1 /\ write_request # 1
      /\ k \in Nat
  BY StreamFacts DEF Announcing, Ending, WriteInv, Heard
<1>2. /\ state_contructor' = "c_check_eop" /\ clr_eop' # 1 /\ UNCHANGED <<pack_data, mask_integer>>
  BY <1>1, InConstructor
<1>3. WrittenAre(k) /\ k - At(Len(Written)) >= 0 /\ Open(k - At(Len(Written)))
  BY <1>1 DEF Accepted
<1>4. WrittenAre(k)' /\ Stream' = Stream /\ Len(Written) \in Nat /\ Len(Written') = Len(Written)
  BY <1>1, <1>3, WordStep
<1> DEFINE m == Len(Written)
<1>5. m \in Nat /\ Len(Written') = m /\ k - At(m) >= 0
      /\ mask_integer = k - At(m) /\ k - At(m) < data_width /\ pack_data = Vector(Stream, m, k - At(m))
  BY <1>3, <1>4 DEF Open
<1> HIDE DEF m
<1>6. At(m) \in Int /\ At(m - 1) = At(m) - data_width /\ data_width \in Nat /\ data_width > 0
  <2>1. m - 1 \in Int /\ m \in Int /\ m = (m - 1) + 1
    BY <1>5
  <2>2. At(m) = At(m - 1) + data_width /\ At(m) \in Int /\ At(m - 1) \in Int
        /\ data_width \in Nat /\ data_width > 0
    BY <2>1, AtNext, AtFacts
  <2> QED
    BY <2>2
<1>7. Over(m, k) = k - At(m) /\ At(m - 1) < k
  BY <1>1, <1>5, <1>6 DEF Over
<1> QED
  BY <1>2, <1>4, <1>5, <1>7 DEF Flushing, Open

LEMMA CompleteStays ==
  ASSUME Beat, ~BeginAnswer, HostInv, ReadInv, Sent, answer' = answer, write_request # 1,
         NEW k \in Heard, Complete(k)
  PROVE  Complete(k)'
<1>1. WrittenAre(k)' /\ Len(Written') = Len(Written)
  BY WordStep DEF Complete
<1> QED
  BY <1>1 DEF Complete

LEMMA QuietConstructor ==
  ASSUME Beat, Quiet, write_request # 1
  PROVE  UNCHANGED <<pack_data, mask_integer>> /\ write_request' # 1
BY InConstructor DEF Quiet

\* Nothing is left of the answer before, so that the first bit is the first of all.
LEMMA AnswerBegins ==
  ASSUME Beat, BeginAnswer, TypeInv, BitsOnly, HostInv, Quiet, Unread = <<>>, write_request # 1,
         mask_integer = 0, pack_data = Zeros
  PROVE  Sent' /\ bits' \in Seq(Bit) /\ HearingBit'
<1>1. /\ answer' \in Answers /\ bits' = Tail(answer') /\ SendSymbol(Head(answer'), TRUE)
      /\ phase' = "sending"
  BY DEF BeginAnswer
<1>2. /\ answer' \in Seq(Bit) /\ answer' # <<>> /\ Sent'
  BY <1>1, TagAssumption DEF Sent
<1>3. /\ bits' \in Seq(Bit) /\ Len(bits') = Len(answer') - 1 /\ Len(answer') \in Nat /\ Len(answer') >= 1
      /\ Head(answer') \in Bit /\ Head(answer') = answer'[1]
      /\ \A j \in 1 .. Len(answer') - 1 : bits'[j] = answer'[j + 1]
  BY <1>1, <1>2
<1>4. \A x \in 1 .. Len(answer') : Stream'[x] = answer'[x]
  BY <1>2 DEF Stream
<1>5. NewSymbol' /\ Opening(0)' /\ eop' = 0
  BY QuietStep
<1>6. PICK p \in Pairs : Fits(p)' /\ Begun(p[1], p[2], 0)'
  BY <1>5 DEF NewSymbol
<1>7. Nth(1)'
  <2>1. ASSUME NEW j \in 1 .. Len(bits')  PROVE bits'[j] = Stream'[1 + j]
    <3>1. j + 1 \in 1 .. Len(answer') /\ j \in 1 .. Len(answer') - 1 /\ 1 + j = j + 1
      BY <1>3
    <3> QED
      BY <1>3, <1>4, <3>1
  <2> QED
    BY <1>1, <1>3, <2>1 DEF Nth
<1>8. Told(1)'
  <2>1. Head(answer') = IF second' # 0 THEN 0 ELSE 1
    BY <1>1, <1>3, SymbolTells
  <2>2. Stream'[1] = Head(answer')
    BY <1>3, <1>4
  <2> QED
    BY <1>1, <2>1, <2>2 DEF Told
<1>9. Means(p, 0, 1, 1)'
  BY <1>5, <1>6, <1>8 DEF Means
<1>10. Written' = <<>>
  <2>1. got' = <<>> /\ Unread' = <<>>
    BY HostStep DEF WordIsTaken
  <2> QED
    BY <2>1 DEF Written
<1>11. Accepted(0)'
  <2>1. Len(Written') = 0 /\ At(0) = 0 /\ data_width > 0
    BY <1>10, AtFacts
  <2>2. state_contructor' = "c_wait"
    BY <1>5, StoringStep DEF Quiet, BitsOnly
  <2>3. mask_integer' = 0 /\ pack_data' = Vector(Stream', 0, 0)
    BY QuietConstructor, NoBits
  <2>4. Open(0)'
    BY <2>1, <2>3 DEF Open
  <2>5. WrittenAre(0)'
    BY <2>1 DEF WrittenAre
  <2> QED
    BY <2>1, <2>2, <2>4, <2>5 DEF Accepted
<1>12. 0 = Given(1)'
  BY <1>5 DEF Given, Opening
<1>13. Place(p, 0, 1, 1, 0)'
  BY <1>6, <1>7, <1>9, <1>11, <1>12 DEF Place
<1> QED
  BY <1>2, <1>3, <1>5, <1>13 DEF HearingBit

-----------------------------------------------------------------------------
(* The invariant of the words.                                             *)

LEMMA TagBits ==
  ASSUME Tag, ~BeginAnswer, bits \in Seq(Bit)
  PROVE  bits' \in Seq(Bit)
<1>1. bits # <<>> => Tail(bits) \in Seq(Bit)
  OBVIOUS
<1> QED
  BY <1>1 DEF Tag, StaySilent, HoldLevel, SecondHalf, NextSymbol, Rest, FallSilent, tag_vars

LEMMA HearingBitHears ==
  ASSUME HearingBit
  PROVE  Hearing
BY DEF HearingBit, Place, Means, Hearing, Hears, Begun, Lasts

LEMMA DataStep ==
  ASSUME Beat, IInv, DataInv
  PROVE  DataInv'
<1>1. /\ TypeInv /\ TimeInv /\ HostInv /\ WriteInv /\ VoidInv /\ ReadInv /\ bits \in Seq(Bit)
      /\ Tag /\ (BeginAnswer => Quiet /\ Unread = <<>>)
  BY Clock, BeginsFromQuiet DEF IInv, DataInv
<1>2. /\ Quiet => write_request # 1
      /\ ~BeginAnswer => answer' = answer /\ (in_time' => in_time) /\ Heard' = Heard
  BY <1>1, TimeStep, TagStep DEF Heard
<1>3. CASE BeginAnswer
  <2>1. Quiet /\ Unread = <<>> /\ BitsOnly /\ write_request # 1
    BY <1>1, <1>2, <1>3, BitsOnlyWithoutEop DEF Quiet
  <2>2. mask_integer = 0 /\ pack_data = Zeros
    <3>1. ~HearingBit /\ ~Announcing /\ ~Ending /\ ~Failed
      BY <2>1, HearingBitHears, NotQuiet
    <3> QED
      BY <3>1 DEF DataInv, WordsInv
  <2>3. Sent' /\ bits' \in Seq(Bit) /\ HearingBit'
    BY <1>1, <1>3, <2>1, <2>2, AnswerBegins
  <2>4. ReadInv'
    BY <1>1, <2>1, QuietConstructor, ReadStep
  <2> QED
    BY <2>3, <2>4 DEF DataInv, WordsInv
<1>4. CASE ~BeginAnswer
  <2>1. bits' \in Seq(Bit) /\ ReadInv'
    BY <1>1, <1>4, TagBits, ReadStep
  <2>2. CASE Quiet
    <3>1. Quiet' /\ write_request # 1
      BY <1>1, <1>2, <1>4, <2>2, BitsOnlyWithoutEop, QuietStep DEF Quiet
    <3>2. ~HearingBit /\ ~Announcing /\ ~Ending /\ ~Failed
      BY <2>2, HearingBitHears, NotQuiet
    <3>3. mask_integer = 0 /\ pack_data = Zeros /\ (answer # <<>> => \E k \in Heard : Complete(k))
      BY <3>2 DEF DataInv, WordsInv
    <3>4. mask_integer' = 0 /\ pack_data' = Zeros
      BY <2>2, <3>1, <3>3, QuietConstructor
    <3>5. ASSUME answer # <<>>  PROVE \E k \in Heard' : Complete(k)'
      <4>1. PICK k \in Heard : Complete(k)
        BY <3>3, <3>5
      <4>2. Sent
        BY <3>5 DEF DataInv
      <4>3. Complete(k)'
        BY <1>1, <1>2, <1>4, <3>1, <4>1, <4>2, CompleteStays
      <4> QED
        BY <1>2, <1>4, <4>3
    <3>6. Sent' \/ (answer' = <<>> /\ Quiet')
      BY <1>2, <1>4, <3>1 DEF DataInv, Sent
    <3> QED
      BY <1>2, <1>4, <2>1, <3>1, <3>4, <3>5, <3>6 DEF DataInv, WordsInv
  <2>3. CASE ~Quiet
    <3>1. Sent /\ Sent'
      BY <1>2, <1>4, <2>3 DEF DataInv, Sent
    <3>2. WordsInv => WordsInv'
      <4>1. ASSUME HearingBit  PROVE WordsInv'
        <5>1. Ground
          BY <1>1, <3>1, <4>1, BitsOnlyWithoutEop DEF Ground, HearingBit
        <5> QED
          BY <1>4, <4>1, <5>1, HeardStep DEF WordsInv, BitFailed, BitAnnounced
      <4>2. ASSUME Announcing, NEW k \in Heard, Accepted(k)  PROVE WordsInv'
        <5>1. Ending' /\ Flushing(k)'
          BY <1>1, <1>2, <1>4, <3>1, <4>2, AnnouncingStep, AnnouncedStep
        <5> QED
          BY <1>2, <1>4, <5>1 DEF WordsInv
      <4>3. ASSUME Ending, NEW k \in Heard, Flushing(k)  PROVE WordsInv'
        <5>1. IF clr_eop = 1 THEN Quiet' ELSE Ending'
          BY <1>1, <1>4, <4>3, EndingStep
        <5>2. /\ clr_eop # 1 => Flushing(k)'
              /\ clr_eop = 1 => Complete(k)' /\ mask_integer' = 0 /\ pack_data' = Zeros
          BY <1>1, <1>2, <1>4, <3>1, <4>3, FlushingStep
        <5> QED
          BY <1>2, <1>4, <5>1, <5>2 DEF WordsInv
      <4>4. ASSUME Failed, NEW k \in 0 .. Len(answer) + 1, Accepted(k)  PROVE WordsInv'
        <5>1. BitsOnly /\ data_ready = 0 /\ k \in Nat /\ k <= Len(answer) + 1
          BY <1>1, <3>1, <4>4, BitsOnlyWithoutEop, StreamFacts DEF Failed
        <5>2. Failed'
          BY <1>1, <1>2, <1>4, <4>4, <5>1, FailedStep
        <5>3. Accepted(k)'
          BY <1>1, <1>2, <1>4, <3>1, <4>4, <5>1, AcceptedStep
        <5> QED
          BY <1>2, <1>4, <5>2, <5>3 DEF WordsInv
      <4> QED
        BY <2>3, <4>1, <4>2, <4>3, <4>4 DEF WordsInv
    <3> QED
      BY <2>1, <3>1, <3>2 DEF DataInv
  <2> QED
    BY <2>2, <2>3
<1> QED
  BY <1>3, <1>4

LEMMA BlankDataInv == Blank => DataInv
<1>1. <<>> \in Seq(Bit)
  OBVIOUS
<1> QED
  BY <1>1 DEF Blank, DataInv, ReadInv, WordsInv, Pause

LEMMA InitDataInv == Init => DataInv
BY InitIsBlank, BlankDataInv

LEMMA DataStutter ==
  ASSUME DataInv, UNCHANGED vars
  PROVE  DataInv'
<1> USE DEF vars, rx!registers, rx!decoder!registers, rx!decoder!controller_vars,
            rx!decoder!decoder_vars, rx!pack_const!registers, tag_vars, host_vars
<1>1. /\ Stream' = Stream /\ Heard' = Heard /\ Written' = Written /\ Verdict' = Verdict
  BY DEF Stream, Heard, Written, Unread, PopIsDue, Verdict
<1>2. ASSUME NEW k
      PROVE  /\ WrittenAre(k)' <=> WrittenAre(k)
             /\ Open(k)' <=> Open(k)
  BY <1>1 DEF WrittenAre, Open
<1>3. ASSUME NEW k
      PROVE  /\ Accepted(k) => Accepted(k)'
             /\ Flushing(k) => Flushing(k)'
             /\ Complete(k) => Complete(k)'
  BY <1>1, <1>2 DEF Accepted, Flushing, Complete, Open
<1>4. AtRest' = AtRest /\ Waiting' = Waiting
  BY DEF AtRest, Waiting
<1>5. ASSUME NEW p, NEW e, NEW i, NEW c, NEW k, Place(p, e, i, c, k)
      PROVE  Place(p, e, i, c, k)'
  <2>1. Fits(p)' /\ k = Given(c)' /\ Accepted(k)'
    BY <1>3, <1>5 DEF Place, Fits, Given
  <2>2. Nth(i)' /\ Told(i)' = Told(i)
    BY <1>1, <1>4, <1>5 DEF Place, Nth, Told
  <2>3. Means(p, e, i, c)'
    BY <1>1, <1>4, <1>5, <2>2
       DEF Place, Means, Begun, Lasts, Ends, Splits, Opening, Closing, EdgeIsThere,
           EdgeIsChecked, BitIsGiven, Starting, Late, Passing, TariHasPassed, LastBitIsGiven,
           FirstHalf, LaterHalf, Counting, Counts, Halving, Decoding
  <2> QED
    BY <2>1, <2>2, <2>3 DEF Place
<1>6. HearingBit => HearingBit'
  BY <1>5 DEF HearingBit
<1>7. WordsInv => WordsInv'
  BY <1>1, <1>3, <1>4, <1>6 DEF WordsInv, Announcing, Ending, Quiet, Failed
<1>8. Sent' = Sent /\ Quiet' = Quiet /\ (ReadInv => ReadInv') /\ bits' = bits /\ answer' = answer
  BY <1>4 DEF Sent, Quiet, ReadInv
<1> QED
  BY <1>7, <1>8 DEF DataInv

LEMMA WordsInvariant == Spec => [](IInv /\ DataInv)
<1>1. IInv /\ DataInv /\ [Next]_vars => (IInv /\ DataInv)'
  BY StepIInv, DataStep, DataStutter DEF Next, Beat
<1> QED
  BY <1>1, InitIInv, InitDataInv, PTL DEF Spec

\* The words of this answer, read or not, are the first packages of what may be heard of it.
WrittenInOrder ==
  \E heard \in HeardAs(answer) :
    /\ Len(Written) <= Len(PackagesOf(heard))
    /\ \A j \in 1 .. Len(Written) : Written[j] = PackagesOf(heard)[j]

LEMMA WrittenIsSeq ==
  ASSUME HostInv
  PROVE  /\ IsSeq(Written) /\ Len(Written) \in Nat /\ Len(got) \in Nat /\ Len(got) <= Len(Written)
         /\ \A j \in 1 .. Len(got) : Written[j] = got[j]
<1> DEFINE u == Unread
<1>1. IsSeq(got) /\ IsSeq(u)
  BY TailFacts DEF HostInv, Unread
<1>2. Written = got \o u
  BY DEF Written
<1> HIDE DEF u
<1>3. /\ IsSeq(got \o u) /\ Len(got \o u) = Len(got) + Len(u) /\ Len(got) \in Nat /\ Len(u) \in Nat
      /\ \A j \in 1 .. Len(got) : (got \o u)[j] = got[j]
  BY <1>1, Joined
<1> QED
  BY <1>2, <1>3

\* Packages of k bits that can be heard, of which the first are written.
LEMMA WrittenIsPrefix ==
  ASSUME Sent, HostInv, NEW k \in Heard, WrittenAre(k),
         Len(Written) <= 1 \/ At(Len(Written) - 2) < k
  PROVE  WrittenInOrder
<1> DEFINE m == Len(Written)
           F == IF k = Len(answer) THEN answer ELSE Stream
           L == Len(PackagesOf(F))
<1>1. F \in HeardAs(answer) /\ F \in Seq(Bit) /\ Len(F) = k /\ k \in Nat
      /\ \A x \in 1 .. k : F[x] = Stream[x]
  BY StreamFacts DEF HeardAs, Heard, Stream, Sent
<1>2. m \in Nat
  BY WrittenIsSeq
<1>3. \A j \in 1 .. m : Written[j] = PackageAt(Stream, j - 1, k)
  BY DEF WrittenAre
<1> HIDE DEF F
<1>4. /\ L \in Nat /\ L >= 1 /\ IsSeq(PackagesOf(F)) /\ At(L - 1) >= k
      /\ \A j \in 1 .. L : PackagesOf(F)[j] = PackageAt(Stream, j - 1, k)
  BY <1>1, PackagesFacts
<1>5. m <= 1 \/ At(m - 2) < k
  OBVIOUS
<1> HIDE DEF m, L
<1>6. m <= L
  <2>1. CASE m <= 1
    BY <1>2, <1>4, <2>1
  <2>2. CASE At(m - 2) < k
    <3>1. m - 2 \in Int /\ L - 1 \in Int
      BY <1>2, <1>4
    <3>2. At(m - 2) < At(L - 1)
      BY <1>1, <1>4, <2>2, <3>1, AtFacts
    <3>3. m - 2 < L - 1
      BY <3>1, <3>2, AtOrder
    <3> QED
      BY <1>2, <1>4, <3>3
  <2> QED
    BY <1>5, <2>1, <2>2
<1>7. \A j \in 1 .. m : Written[j] = PackagesOf(F)[j]
  BY <1>2, <1>3, <1>4, <1>6
<1> QED
  BY <1>1, <1>6, <1>7 DEF WrittenInOrder, m, L

\* As long as only full packages are written, one more bit changes none of them.
LEMMA AcceptedIsPrefix ==
  ASSUME Sent, HostInv, NEW k \in Nat, k <= Len(answer) + 1, Accepted(k)
  PROVE  WrittenInOrder
<1> DEFINE m == Len(Written)
<1>1. m \in Nat /\ Len(answer) \in Nat
  BY WrittenIsSeq, StreamFacts
<1>2. WrittenAre(k) /\ k - At(m) >= 0
  BY DEF Accepted
<1> HIDE DEF m
<1>3. At(m) \in Int /\ At(m - 2) \in Int /\ At(m - 2) < At(m)
  <2>1. m \in Int /\ m - 2 \in Int /\ ~(At(m - 2) > At(m)) /\ At(m) \in Int /\ At(m - 2) \in Int
    BY <1>1, AtFacts, AtOrder
  <2>2. (m - 2) * data_width = m * data_width - 2 * data_width
    BY <1>1, AtFacts
  <2> QED
    BY <2>1, <2>2, AtFacts DEF At
<1>4. WrittenAre(Len(answer) + 1)
  BY <1>1, <1>2, <1>3, WrittenStay DEF m
<1>5. At(m - 2) < Len(answer) + 1
  BY <1>1, <1>2, <1>3
<1> QED
  BY <1>4, <1>5, WrittenIsPrefix DEF m, Heard

LEMMA AnswerIsWritten ==
  ASSUME IInv, DataInv, answer # <<>>
  PROVE  WrittenInOrder
<1>1. HostInv /\ TypeInv /\ WriteInv /\ ReadInv /\ bits \in Seq(Bit)
  BY DEF IInv, DataInv
<1>2. Sent /\ Len(answer) \in Nat
  BY StreamFacts DEF DataInv
<1>3. ASSUME HearingBit  PROVE WrittenInOrder
  <2>1. Ground
    BY <1>1, <1>2, <1>3, BitsOnlyWithoutEop DEF Ground, HearingBit
  <2>2. PICK p \in Pairs, e \in Nat, i \in Nat, c \in Nat, k \in Nat : Place(p, e, i, c, k)
    BY <1>3 DEF HearingBit
  <2>3. k <= Len(answer) + 1 /\ Accepted(k)
    BY <2>1, <2>2, PlaceFacts DEF Place
  <2> QED
    BY <1>1, <1>2, <2>3, AcceptedIsPrefix
<1>4. ASSUME NEW k \in Heard, Accepted(k)  PROVE WrittenInOrder
  BY <1>1, <1>2, <1>4, AcceptedIsPrefix DEF Heard
<1>5. ASSUME NEW k \in 0 .. Len(answer) + 1, Accepted(k)  PROVE WrittenInOrder
  BY <1>1, <1>2, <1>5, AcceptedIsPrefix
<1>6. ASSUME NEW k \in Heard, Flushing(k) \/ Complete(k)  PROVE WrittenInOrder
  <2> DEFINE m == Len(Written)
  <2>1. WrittenAre(k) /\ (m = 0 \/ m = 1 \/ At(m - 1) < k \/ At(m - 2) < k)
    BY <1>6 DEF Flushing, Complete
  <2>2. m \in Nat /\ k \in Nat
    <3>1. IsSeq(got) /\ IsSeq(Unread)
      BY <1>1, TailFacts DEF HostInv, Unread
    <3> QED
      BY <1>2, <3>1, Joined DEF Written, Heard
  <2> HIDE DEF m
  <2>3. At(m - 1) \in Int /\ At(m - 2) \in Int /\ At(m - 2) < At(m - 1)
    <3>1. m - 1 \in Int /\ m - 2 \in Int /\ m - 1 = (m - 2) + 1
      BY <2>2
    <3>2. At(m - 1) = At(m - 2) + data_width
      BY <3>1, AtNext
    <3> QED
      BY <3>1, <3>2, AtFacts
  <2>4. WrittenAre(k) /\ (m <= 1 \/ At(m - 2) < k)
    BY <2>1, <2>2, <2>3
  <2> QED
    BY <1>1, <1>2, <2>4, WrittenIsPrefix DEF m
<1> QED
  BY <1>3, <1>4, <1>5, <1>6 DEF DataInv, WordsInv

LEMMA AnswerIsInPlace ==
  ASSUME IInv, DataInv
  PROVE  HostGetsAnswer
<1>1. HostInv /\ IsSeq(got)
  BY DEF IInv, HostInv
<1>2. CASE answer = <<>>
  <2>1. Quiet /\ got = <<>>
    BY <1>2 DEF IInv, VoidInv, Ended
  <2>2. answer \in HeardAs(answer)
    BY DEF HeardAs
  <2>3. IsPrefix(<<>>, <<>>)
    BY DEF IsPrefix
  <2> QED
    BY <1>2, <2>1, <2>2, <2>3 DEF HostGetsAnswer
<1>3. CASE answer # <<>>
  <2>1. PICK F \in HeardAs(answer) : /\ Len(Written) <= Len(PackagesOf(F))
                                    /\ \A j \in 1 .. Len(Written) : Written[j] = PackagesOf(F)[j]
    BY <1>3, AnswerIsWritten DEF WrittenInOrder
  <2>2. F \in Seq(Bit)
    BY <1>3, <2>1, StreamFacts DEF HeardAs, DataInv, Sent, Stream
  <2>3. IsSeq(PackagesOf(F)) /\ Len(PackagesOf(F)) \in Nat
    BY <2>2, PackagesFacts
  <2>4. Len(got) <= Len(PackagesOf(F)) /\ \A j \in 1 .. Len(got) : got[j] = PackagesOf(F)[j]
    BY <1>1, <2>1, <2>3, WrittenIsSeq
  <2>5. PICK S : got \in Seq(S)
    BY <1>1 DEF IsSeq
  <2>6. PICK T : PackagesOf(F) \in Seq(T)
    BY <2>3 DEF IsSeq
  <2>7. SubSeq(got, 1, Len(got)) = SubSeq(PackagesOf(F), 1, Len(got))
    BY <2>3, <2>4, <2>5, <2>6
  <2> QED
    BY <1>3, <2>1, <2>4, <2>7 DEF IsPrefix, HostGetsAnswer
<1> QED
  BY <1>2, <1>3

\* The host reads the packages of the answer in their order, none lost and none twice, and one void
\* package, whatever the answers, the Tari, the width of a package, the depth of the FIFO that holds
\* an answer, and the clocks for which the host holds its read request; a last 1 that is not there may
\* be heard from the fall of the line to rest.
THEOREM AnswerReachesHost == Spec => []HostGetsAnswer
BY WordsInvariant, AnswerIsInPlace, PTL

-----------------------------------------------------------------------------
(* The same without a host, for a receiver that is part of a larger system.*)

\* Once a void package is in the FIFO, both processes are at rest and all packages of the answer
\* are there.
LEMMA AllIsWritten ==
  ASSUME IInv, DataInv, access = 0, got = <<>>, rx_fifo # <<>>, rx_fifo[Len(rx_fifo)] = Void
  PROVE  Quiet /\ answer # <<>> /\ \E heard \in HeardAs(answer) : rx_fifo = PackagesOf(heard)
<1>1. IsSeq(rx_fifo) /\ Unread = rx_fifo /\ VoidInv
  BY DEF IInv, HostInv, Unread, PopIsDue, Pause
<1>2. PICK S : rx_fifo \in Seq(S)
  BY <1>1 DEF IsSeq
<1>3. Written = rx_fifo
  BY <1>1, <1>2 DEF Written
<1>4. Len(rx_fifo) \in DOMAIN rx_fifo
  BY <1>2
<1>5. Quiet /\ answer # <<>>
  BY <1>1, <1>4 DEF VoidInv, Clean, NoVoid, Ended
<1>6. Sent
  BY <1>5 DEF DataInv
<1>7. PICK k \in Heard : Complete(k)
  BY <1>5, HearingBitHears, NotQuiet DEF DataInv, WordsInv
<1> DEFINE m == Len(rx_fifo)
           F == IF k = Len(answer) THEN answer ELSE Stream
           L == Len(PackagesOf(F))
<1>8. F \in HeardAs(answer) /\ F \in Seq(Bit) /\ Len(F) = k /\ k \in Nat
      /\ \A x \in 1 .. k : F[x] = Stream[x]
  BY <1>6, <1>7, StreamFacts DEF HeardAs, Heard, Stream, Sent
<1> HIDE DEF F
<1>9. /\ L \in Nat /\ L >= 1 /\ IsSeq(PackagesOf(F)) /\ At(L - 1) >= k /\ (L = 1 \/ At(L - 2) < k)
      /\ \A j \in 1 .. L : PackagesOf(F)[j] = PackageAt(Stream, j - 1, k)
  BY <1>8, PackagesFacts
<1>10. /\ m \in Nat /\ m >= 1 /\ At(m - 1) >= k /\ (m = 1 \/ At(m - 2) < k)
       /\ \A j \in 1 .. m : rx_fifo[j] = PackageAt(Stream, j - 1, k)
  BY <1>2, <1>3, <1>7 DEF Complete, WrittenAre
<1>11. m = L
  <2> HIDE DEF m, L
  <2>1. ASSUME NEW a \in Nat, NEW b \in Nat, a >= 1, b >= 1, At(b - 1) >= k, a = 1 \/ At(a - 2) < k
        PROVE  a <= b
    <3>1. At(a - 2) \in Int /\ At(b - 1) \in Int
      BY AtFacts
    <3>2. At(a - 2) < At(b - 1) => a - 2 < b - 1
      BY AtOrder
    <3> QED
      BY <1>8, <2>1, <3>1, <3>2
  <2>2. m <= L /\ L <= m
    BY <1>9, <1>10, <2>1
  <2> QED
    BY <1>9, <1>10, <2>2
<1>12. rx_fifo = PackagesOf(F)
  <2>1. PICK U : PackagesOf(F) \in Seq(U)
    BY <1>9 DEF IsSeq
  <2>2. \A j \in 1 .. m : rx_fifo[j] = PackagesOf(F)[j]
    BY <1>9, <1>10, <1>11
  <2> QED
    BY <1>2, <1>11, <2>1, <2>2
<1> QED
  BY <1>5, <1>8, <1>12

\* Once the receiver is at rest after an answer, the last word is a void package.
LEMMA QuietIsEnd ==
  ASSUME IInv, DataInv, access = 0, got = <<>>, Quiet, answer # <<>>
  PROVE  rx_fifo # <<>> /\ rx_fifo[Len(rx_fifo)] = Void
<1>1. IsSeq(rx_fifo) /\ Unread = rx_fifo
  BY DEF IInv, HostInv, Unread, PopIsDue, Pause
<1>2. PICK S : rx_fifo \in Seq(S)
  BY <1>1 DEF IsSeq
<1>3. Written = rx_fifo
  BY <1>1, <1>2 DEF Written
<1>4. Sent
  BY DEF DataInv
<1>5. PICK k \in Heard : Complete(k)
  BY HearingBitHears, NotQuiet DEF DataInv, WordsInv
<1> DEFINE m == Len(rx_fifo)
<1>6. m \in Nat /\ m >= 1 /\ At(m - 1) >= k /\ rx_fifo[m] = PackageAt(Stream, m - 1, k)
  BY <1>2, <1>3, <1>5 DEF Complete, WrittenAre
<1>7. k \in Nat /\ At(m - 1) \in Int
  <2>1. m - 1 \in Int
    BY <1>6
  <2> QED
    BY <1>4, <2>1, StreamFacts, AtFacts DEF Heard
<1> HIDE DEF m
<1>8. Over(m - 1, k) = 0
  BY <1>6, <1>7 DEF Over
<1>9. PackageAt(Stream, m - 1, k) = [data |-> Vector(Stream, m - 1, 0), mask |-> 0]
  BY <1>8, DataWidthAssumption DEF PackageAt
<1>10. Vector(Stream, m - 1, 0) = Zeros
  BY DEF Vector, Zeros, BitIndex
<1> QED
  BY <1>2, <1>6, <1>9, <1>10 DEF m, Void

\* While the line is at rest the receiver counts the clocks to the end of the command: a last edge
\* may have to be checked, then 1.584 Tari pass, and the constructor sends what it has.
Storage ==
  IF clr_eop = 1 THEN 1
  ELSE IF state_contructor = "c_send_void_package" THEN 2
  ELSE IF state_contructor = "c_clear" THEN 5
  ELSE IF state_contructor = "c_send_package" THEN 6
  ELSE IF state_contructor = "c_check_eop" THEN IF mask_integer = 0 THEN 3 ELSE 7
  ELSE IF mask_integer = 0 THEN 4 ELSE 8
ToGo ==
  IF state_decoder = "d_end" THEN 8
  ELSE IF eop = 1 THEN Storage
  ELSE IF state_decoder \in {"d_wait_counter", "d_wait_counter2"} /\ line # prev_bit_d THEN t1584 + 14
  ELSE IF state_decoder \in {"d_check_counter", "d_check_counter2"} THEN t1584 + 13
  ELSE IF state_decoder = "d_wait" THEN t1584 + 12
  ELSE IF state_decoder = "d_start_counter" THEN t1584 + 11
  ELSE t1584 + 10 - clocks_counted

\* Where a receiver can be that has no end yet, while the line is at rest.
AtEnd(e) ==
  \/ Opening(1) \/ EdgeIsThere \/ EdgeIsChecked \/ BitIsGiven
  \/ Starting(e) \/ FirstHalf(e) \/ LaterHalf(e) \/ Passing(e)

LEMMA HearsAtEnd ==
  ASSUME Hearing, AtRest, in_time
  PROVE  eop = 0 /\ \E e \in Nat : AtEnd(e)
<1>1. eop = 0
  BY DEF Hearing
<1>2. PICK p \in Pairs, e \in Nat : Hears(p[1], p[2], e)
  BY DEF Hearing
<1>3. ~Ends(p[1], e) /\ ~Opening(0) /\ ~Late(e)
  BY DEF Ends, Opening, Late, AtRest, Waiting
<1>4. Opening(e) => Opening(1)
  BY <1>3 DEF Opening
<1>5. Closing(e) => EdgeIsThere \/ EdgeIsChecked \/ BitIsGiven
  BY DEF Closing
<1>6. AtEnd(e)
  BY <1>2, <1>3, <1>4, <1>5 DEF Hears, AtEnd
<1> QED
  BY <1>1, <1>2, <1>6

LEMMA Limits ==
  /\ t099 \in Nat /\ t101 \in Nat /\ t1584 \in Nat
  /\ 4 <= t099 /\ t099 <= t101 /\ t101 \div 2 < t099 /\ t101 + 7 <= t1584
BY LimitsAssumption DEF t099, t101, t1584

LEMMA ToGoIsBounded ==
  ASSUME IInv, AtRest, in_time, ~Quiet
  PROVE  ToGo \in 1 .. t1584 + 14
<1>1. TimeInv /\ TypeInv
  BY DEF IInv
<1>2. CASE Hearing
  <2>1. PICK e \in Nat : AtEnd(e)
    BY <1>2, HearsAtEnd
  <2>2. eop = 0 /\ clocks_counted \in Nat
    BY <1>1, <1>2, HearsAtEnd DEF TypeInv
  <2> USE DEF Opening, EdgeIsThere, EdgeIsChecked, BitIsGiven, Starting, FirstHalf, LaterHalf, Counting,
              Passing, TariHasPassed, LastBitIsGiven
  <2>3. state_decoder \in {"d_wait_counter", "d_wait_counter2", "d_pass_1_01_tari", "d_counter_cs"}
          /\ line = prev_bit_d => clocks_counted <= t1584 + 1
    BY <2>1, <2>2, Limits DEF AtEnd
  <2>4. state_decoder \in {"d_wait", "d_start_counter", "d_wait_counter", "d_wait_counter2",
                           "d_check_counter", "d_check_counter2", "d_pass_1_01_tari", "d_counter_cs"}
    BY <2>1 DEF AtEnd
  <2>5. state_decoder \in {"d_pass_1_01_tari", "d_counter_cs"} => line = prev_bit_d
    BY <2>1 DEF AtEnd
  <2> QED
    BY <2>2, <2>3, <2>4, <2>5, Limits DEF ToGo
<1>3. CASE Announcing \/ Ending
  BY <1>3, Limits DEF Announcing, Ending, ToGo, Storage
<1> QED
  BY <1>1, <1>2, <1>3 DEF TimeInv, Failed

\* The constructor sends what it has, and the void package, without a clock lost.
LEMMA StorageStep ==
  ASSUME Beat, IInv, Ending, eop' = 1
  PROVE  Storage' <= Storage - 1
<1>1. clr_eop = 1 => eop' = 0
  BY InWait DEF Ending
<1>2. clr_eop # 1 /\ eop = 1 /\ data_ready = 0
  BY <1>1 DEF Ending
<1> QED
  BY <1>2, Clock
     DEF rx!pack_const!Tick, rx!pack_const!Reset, rx!pack_const!WaitBit, rx!pack_const!WaitEop, rx!pack_const!WaitIdle,
       rx!pack_const!NewBit, rx!pack_const!IncMask, rx!pack_const!MaskOverflow,
       rx!pack_const!NoMaskOverflow, rx!pack_const!SendPackage, rx!pack_const!Clear,
       rx!pack_const!EopWithBits, rx!pack_const!EopWithoutBits, rx!pack_const!NoEop,
       rx!pack_const!SendVoidPackage, rx!pack_const!SendOpenPackage,
       rx!pack_const!WaitClearFlags, rx!pack_const!In, rx!pack_const!Goto, Ending, Storage

LEMMA RestsOnly ==
  AtRest' => ~BeginAnswer
BY DEF AtRest, BeginAnswer

LEMMA QuietStays ==
  ASSUME Beat, IInv, Quiet, AtRest'
  PROVE  Quiet'
BY RestsOnly, QuietStep, BitsOnlyWithoutEop DEF IInv, Quiet

\* Every clock at rest is one less to the end.
LEMMA ToGoStep ==
  ASSUME Beat, IInv, AtRest, AtRest', in_time, ~Quiet
  PROVE  Quiet' \/ ToGo' <= ToGo - 1
<1>1. TimeInv /\ TypeInv /\ WriteInv
  BY DEF IInv
<1>2. line = 0 /\ line' = 0 /\ clocks_counted \in Nat
  BY <1>1 DEF AtRest, TypeInv
<1>3. CASE Hearing
  <2>1. eop = 0
    BY <1>3, HearsAtEnd
  <2>2. CASE Opening(1) \/ BitIsGiven
    <3>1. state_decoder' = "d_start_counter" /\ eop' = 0
      BY <2>1, <2>2, InWait DEF Opening, BitIsGiven, Decoding
    <3> QED
      BY <2>1, <2>2, <3>1, Limits DEF ToGo, Opening, BitIsGiven
  <2>3. CASE EdgeIsThere
    <3>1. state_decoder' \in {"d_check_counter", "d_check_counter2"} /\ eop' = 0
      BY <1>2, <2>1, <2>3, InWaitCounter, Limits DEF EdgeIsThere
    <3> QED
      BY <2>1, <2>3, <3>1, Limits DEF ToGo, EdgeIsThere
  <2>4. CASE EdgeIsChecked
    <3>1. state_decoder' = "d_wait" /\ eop' = 0
      BY <1>2, <2>1, <2>4, InCheck, Limits DEF EdgeIsChecked
    <3> QED
      BY <2>1, <2>4, <3>1, Limits DEF ToGo, EdgeIsChecked
  <2>5. ASSUME NEW e, Starting(e) PROVE ToGo' <= ToGo - 1
    <3>1. state_decoder' = "d_wait_counter" /\ eop' = 0 /\ prev_bit_d' = line' /\ clocks_counted' = 0
      BY <1>2, <2>1, <2>5, InStartCounter, ClockOfCounter DEF Starting
    <3> QED
      BY <2>1, <2>5, <3>1, Limits DEF ToGo, Starting
  <2>6. ASSUME NEW e, FirstHalf(e) \/ LaterHalf(e) PROVE ToGo' <= ToGo - 1
    <3>1. /\ eop' = 0 /\ prev_bit_d' = line' /\ clocks_counted' = clocks_counted + 1
          /\ state_decoder' \in {"d_wait_counter", "d_wait_counter2", "d_pass_1_01_tari"}
      BY <1>2, <2>1, <2>6, InWaitCounter, ClockOfCounter, Limits DEF FirstHalf, LaterHalf, Counting, Counts
    <3> QED
      BY <1>2, <2>1, <2>6, <3>1, Limits DEF ToGo, FirstHalf, LaterHalf, Counting
  <2>7. ASSUME NEW e, Passing(e) PROVE ToGo' <= ToGo - 1
    <3>1. clocks_counted' = clocks_counted + 1 /\ clocks_counted <= t1584 + 1
      BY <1>2, <2>7, ClockOfCounter, Limits DEF Passing, Counts, TariHasPassed
    <3>2. CASE TariHasPassed
      <4>1. state_decoder' = "d_counter_cs" /\ eop' = 0
        BY <1>2, <2>1, <3>2, InPass DEF TariHasPassed, Bit
      <4> QED
        BY <1>2, <2>1, <3>1, <3>2, <4>1, Limits DEF ToGo, TariHasPassed
    <3>3. CASE LastBitIsGiven
      <4>1. line = prev_bit_d
        BY <2>7 DEF Passing
      <4>2. /\ clocks_counted = t1584 + 1 => state_decoder' = "d_end"
            /\ clocks_counted # t1584 + 1 => state_decoder' = "d_counter_cs" /\ eop' = 0
        BY <1>2, <2>1, <3>1, <3>3, <4>1, InCounterCS DEF LastBitIsGiven
      <4>3. ToGo = t1584 + 10 - clocks_counted
        BY <2>1, <3>3 DEF ToGo, LastBitIsGiven
      <4>4. CASE clocks_counted = t1584 + 1
        <5>1. ToGo' = 8
          BY <4>2, <4>4 DEF ToGo
        <5> QED
          BY <4>3, <4>4, <5>1, Limits
      <4>5. CASE clocks_counted # t1584 + 1
        <5>1. ToGo' = t1584 + 10 - (clocks_counted + 1)
          BY <3>1, <4>2, <4>5 DEF ToGo
        <5> QED
          BY <1>2, <4>3, <5>1, Limits
      <4> QED
        BY <4>4, <4>5
    <3> QED
      BY <2>7, <3>2, <3>3 DEF Passing
  <2> QED
    BY <1>3, <2>2, <2>3, <2>4, <2>5, <2>6, <2>7, HearsAtEnd DEF AtEnd
<1>4. CASE Announcing
  <2>1. Ending' /\ state_contructor' = "c_check_eop"
    BY <1>1, <1>4, RestsOnly, AnnouncingStep, ConstructorEnds DEF Announcing
  <2> QED
    BY <1>4, <2>1, Limits DEF ToGo, Storage, Ending, Announcing
<1>5. CASE Ending
  <2>1. state_decoder' = "d_wait" /\ (eop' = 1 \/ clr_eop = 1)
    BY <1>5, InWait DEF Ending, Waiting
  <2>2. CASE eop' = 1
    BY <1>5, <2>1, <2>2, StorageStep DEF ToGo, Ending
  <2>3. CASE clr_eop = 1
    BY <1>1, <1>5, <2>3, RestsOnly, EndingStep
  <2> QED
    BY <2>1, <2>2, <2>3
<1> QED
  BY <1>1, <1>3, <1>4, <1>5 DEF TimeInv, Failed
=============================================================================
