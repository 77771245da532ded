-------------------------------- MODULE TagLine --------------------------------
(***************************************************************************)
(* receiver.vhd on its own, listening to a tag whose edges come early or   *)
(* late, and read by a host that holds the read request for some clocks.   *)
(* The tag and the host stand for testbench receiver_tb.vhd and for the    *)
(* register bank; the tag's line is FM0 at rest at 0, as the sender's.     *)
(***************************************************************************)
EXTENDS CommandPackages, Scfifo

CONSTANTS tari_limits, \* the limits in the receiver's registers
          Wholes,    \* lengths a tag that keeps time gives to a symbol, in clocks
          Halves,    \* lengths it gives to the first half of a 0
          WrongWholes, WrongHalves, \* lengths of the symbol in which it does not
          RestClocks, \* time the line rests at 0 after a command
          Answers,   \* the commands the tag may send
          Holds      \* numbers of clocks the host may hold the read request

\* Limits that leave time for the hand-overs: a half is told from a whole, and the
\* last bit is stored before the end of the command is announced.
ASSUME LimitsAssumption ==
  /\ {tari_limits.tari_099, tari_limits.tari_101, tari_limits.tari_1584, tari_limits.tari_1616} \subseteq Nat
  /\ 4 <= tari_limits.tari_099 /\ tari_limits.tari_099 <= tari_limits.tari_101
  /\ tari_limits.tari_101 \div 2 < tari_limits.tari_099
  /\ tari_limits.tari_101 + 7 <= tari_limits.tari_1584
  /\ tari_limits.tari_1584 + 1 < tari_limits.tari_1616

\* A tag that keeps time by the clock of the decoder, which begins to count two clocks late
\* in the first symbol of an answer and three in the others: an interval that every symbol
\* may have is as much longer than the limits. (A symbol as short as the limits is refused.)
ASSUME InTimeAssumption ==
  /\ Wholes \subseteq tari_limits.tari_099 + 3 .. tari_limits.tari_101 + 2
  /\ Halves \subseteq tari_limits.tari_099 \div 2 + 3 .. tari_limits.tari_101 \div 2 + 2

\* A symbol that is wrong is still a symbol: it is no longer than the end of a command, no
\* edge falls into a hand-over, and no whole is taken for a half or a half for a whole.
ASSUME WrongAssumption ==
  /\ WrongWholes \subseteq tari_limits.tari_101 \div 2 + 4 .. tari_limits.tari_1584 - 1
  /\ WrongHalves \subseteq 4 .. tari_limits.tari_099 + 1
  /\ \A whole \in WrongWholes, half \in WrongHalves : half + 2 <= whole

ASSUME TagAssumption ==
  RestClocks \in Nat \ {0} /\ Answers \subseteq Seq(Bit) \ {<<>>} /\ Holds \subseteq Nat \ {0}

\* An answer fits into the FIFO with all that may be heard of it; its 256 words hold far more.
ASSUME AnswersFit == \A sent \in Answers : Len(PackagesOf(Append(sent, 1))) <= depth

VARIABLES
  dec_state_controller, prev_bit_c, data_receiver_start, state_decoder, data_ready,
  data_receiver_end, clear_counter, eop, prev_bit_d, clock_start, was_one,
  data_out_decoder, err_decoder, clocks_counted,
  state_contructor, pack_data, mask_integer, write_request, clr_eop,
  rdreq_pulse, already_read, rx_fifo, rx_idle,
  \* the tag: the level it drives, for how long, the length of the second half
  \* it still owes (0 if none), the bits it has not begun to send
  line, left, second, bits, phase, answer, in_time,
  \* the host: the clocks left of its read access, and the words it has read
  access, got

\* Clocks the host lets pass between a read request and its next look at empty.
Pause == 2

rx ==
  INSTANCE Receiver WITH
    rst <- 0, enable <- 1, sclr <- 0, clr_err_decoder <- 0,
    data_DUT <- line, rdreq <- IF access > Pause THEN 1 ELSE 0,
    tari_101 <- tari_limits.tari_101, tari_099 <- tari_limits.tari_099,
    tari_1616 <- tari_limits.tari_1616, tari_1584 <- tari_limits.tari_1584

tag_vars == <<line, left, second, bits, phase, answer, in_time>>
host_vars == <<access, got>>
vars == <<rx!registers, tag_vars, host_vars>>

AnswerIsRead == got # <<>> /\ Last(got) = Void

Init ==
  /\ rx!InitRegisters(Void)
  /\ line = 0 /\ left = 0 /\ second = 0 /\ bits = <<>> /\ phase = "silent" /\ answer = <<>>
  /\ in_time = TRUE
  /\ access = 0 /\ got = <<>>

-----------------------------------------------------------------------------
(* The tag.                                                                *)

\* The line changes at the start of every symbol, and in the middle of a 0.
SymbolOf(bit, whole, half) ==
  /\ line' = 1 - line
  /\ left' = IF bit = 1 THEN whole ELSE half
  /\ second' = IF bit = 1 THEN 0 ELSE whole - half

\* One symbol of an answer may be anything; the decoder does not get past it.
SendSymbol(bit, kept) ==
  \/ /\ \E whole \in Wholes, half \in Halves : SymbolOf(bit, whole, half)
     /\ in_time' = kept
  \/ /\ kept
     /\ \E whole \in WrongWholes, half \in WrongHalves : SymbolOf(bit, whole, half)
     /\ in_time' = FALSE

BeginAnswer ==
  /\ phase = "silent" /\ (answer = <<>> \/ AnswerIsRead)
  /\ phase' = "sending"
  /\ answer' \in Answers
  /\ bits' = Tail(answer') /\ SendSymbol(Head(answer'), TRUE)

StaySilent == phase = "silent" /\ UNCHANGED tag_vars

HoldLevel ==
  /\ phase # "silent" /\ left > 1
  /\ left' = left - 1 /\ UNCHANGED <<line, second, bits, phase, answer, in_time>>

SecondHalf ==
  /\ phase = "sending" /\ left = 1 /\ second > 0
  /\ line' = 1 - line /\ left' = second /\ second' = 0
  /\ UNCHANGED <<bits, phase, answer, in_time>>

NextSymbol ==
  /\ phase = "sending" /\ left = 1 /\ second = 0 /\ bits # <<>>
  /\ bits' = Tail(bits) /\ SendSymbol(Head(bits), in_time) /\ UNCHANGED <<phase, answer>>

Rest ==
  /\ phase = "sending" /\ left = 1 /\ second = 0 /\ bits = <<>>
  /\ line' = 0 /\ left' = RestClocks /\ phase' = "resting"
  /\ UNCHANGED <<second, bits, answer, in_time>>

FallSilent ==
  /\ phase = "resting" /\ left = 1
  /\ phase' = "silent" /\ left' = 0 /\ UNCHANGED <<line, second, bits, answer, in_time>>

Tag ==
  \/ BeginAnswer \/ StaySilent \/ HoldLevel \/ SecondHalf \/ NextSymbol \/ Rest \/ FallSilent

-----------------------------------------------------------------------------
(* The host: sees a word, notes it, raises the read request for a while.   *)

Forget == phase = "silent" /\ phase' = "sending"

ReadWord ==
  /\ access = 0 /\ rx!empty = 0 /\ ~Forget
  /\ got' = Append(got, rx!data_out_fifo)
  /\ \E hold \in Holds : access' = hold + Pause

HoldRequest == access > 0 /\ access' = access - 1 /\ got' = IF Forget THEN <<>> ELSE got

FindEmpty == access = 0 /\ rx!empty = 1 /\ access' = 0 /\ got' = IF Forget THEN <<>> ELSE got

Host == ReadWord \/ HoldRequest \/ FindEmpty

Next == Tag /\ Host /\ rx!Tick

Spec == Init /\ [][Next]_vars

FairSpec == Spec /\ WF_vars(Next)

-----------------------------------------------------------------------------

\* The receiver gives the host nothing but the packages of the answer, each exactly once however long the read request is held, and then a single
\* void package: nothing of the answer is lost, doubled, or left for the next.
HostGetsAnswer ==
  \E heard \in HeardAs(answer) :
    IsPrefix(got, IF answer = <<>> THEN <<>> ELSE PackagesOf(heard))

\* data_ready lasts one clock and nobody answers it: the constructor must be
\* waiting in that clock, or the bit is gone.
BitsAreAwaited == data_ready = 1 => state_contructor = "c_wait"

\* At every place of an answer, after every symbol and before every symbol, an interval
\* that lies in the window of the decoder (InTimeAssumption) is accepted: no hand-over
\* between its processes costs more than the two or three clocks of that window.
OnlyFaultsAreRefused == state_decoder = "d_error" => ~in_time

\* An answer is read to its end, or err is up for the host to see: whatever the
\* tag does, the receiver never just waits.
EveryAnswerIsReadOrRefused == phase = "sending" ~> AnswerIsRead \/ err_decoder = 1
=============================================================================
