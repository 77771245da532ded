------------------------------ MODULE Handshake ------------------------------
(***************************************************************************)
(* The programs of examples_of_main that hold a dialogue: reader.c and     *)
(* tag.c on two boards whose lines are crossed, or loopback_handshake.c on *)
(* one board that hears itself.  A command arrives as a whole; Link and    *)
(* Tester show how.  main never fills crc_table.                           *)
(***************************************************************************)
EXTENDS Transfer

CONSTANTS Setups,  \* how the boards are set up (below)
          Garbage  \* what an array on the stack may hold before it is written

Boards == {"reader", "tag"}
Peer(b) == IF b = "reader" THEN "tag" ELSE "reader"

\* A setup: the main of each board, whether MASK_LOOPBACK is a flag or 0, whether the
\* reader is launched when the tag waits, whether symbols may be damaged on the line.
Mains == {"reader", "tag", "loopback_handshake", "none"}

ASSUME HandshakeAssumption ==
  /\ Setups \subseteq [main : [Boards -> Mains], loopback : BOOLEAN, tag_first : BOOLEAN,
                       faults : BOOLEAN]
  /\ \A s \in Setups :
       /\ s.main["tag"] \in {"tag", "none"} /\ s.main["reader"] # "tag"
       /\ s.main["reader"] = "loopback_handshake" => s.main["tag"] = "none"
       /\ s.tag_first => s.main["tag"] = "tag"

VARIABLES
  setup,
  pc, at,             \* of main: what it does, in which step of its program
  on_air,             \* commands that a board's sender has not finished
  finished,           \* the flag of the sender that nothing clears
  rx_fifo,            \* packages that a board's receiver has stored
  deaf, missed,       \* the receiver has refused a symbol; was enabled during a command
  packages, i, command_size, \* of receiver_get_package
  rn16, handle,       \* what the reader has kept
  said, heard         \* history: commands sent, and accepted, by each board

setup_vars == <<setup, missed, deaf>>
line_vars == <<on_air, finished>>
call_vars == <<packages, i, command_size>>
kept == <<rn16, handle>>
history == <<said, heard>>
vars == <<setup_vars, pc, at, line_vars, rx_fifo, call_vars, kept, history>>

-----------------------------------------------------------------------------
(* The programs.                                                           *)

send(what) == [step |-> "send", what |-> what]
receive(quant, label) == [step |-> "receive", quant |-> quant, label |-> label]

\* Mutant of reader: the ACK is sent before the RN16 is awaited.
reader_hasty ==
  <<send("query"), send("ack"), receive(1, "rn16"), receive(2, "rn_crc"), send("req_rn"),
    receive(2, "rn_crc")>>

reader ==
  <<send("query"), receive(1, "rn16"), send("ack"), receive(2, "rn_crc"), send("req_rn"),
    receive(2, "rn_crc")>>

tag ==
  <<receive(2, "query"), send("rn16"), receive(2, "ack"), send("xpc"), receive(2, "req_rn"),
    send("handle")>>

loopback_handshake ==
  <<send("query"), receive(2, "query"), send("rn16"), receive(1, "rn16"),
    send("ack"), receive(2, "ack"), send("xpc"), receive(2, "rn_crc"),
    send("req_rn"), receive(2, "req_rn"), send("handle"), receive(2, "rn_crc")>>

Program(b) ==
  LET main == setup.main[b]
  IN IF main = "reader" THEN reader
     ELSE IF main = "tag" THEN tag
     ELSE IF main = "loopback_handshake" THEN loopback_handshake
     ELSE <<>>

Step(b) == Program(b)[at[b]]

\* 0x7813 in tag.c, 0x2AAA in loopback_handshake.c.
HandleToSend(b) ==
  IF setup.main[b] = "tag" THEN {14, 13, 12, 11, 4, 1, 0} ELSE {13, 11, 9, 7, 5, 3, 1}

Command(b, what) ==
  CASE what = "query" -> query_build({0}, {0}, {0}, {0}, {0}, {0}, {0})
    [] what = "rn16" -> rn16_build
    [] what = "ack" -> ack_build(rn16[b])
    [] what = "xpc" -> rn_crc_build(ZeroTable, {12, 9, 5, 4, 2})
    [] what = "req_rn" -> req_rn_build(ZeroTable, rn16[b])
    [] what = "handle" -> rn_crc_build(ZeroTable, HandleToSend(b))

-----------------------------------------------------------------------------

Init ==
  /\ setup \in Setups
  /\ pc = [b \in Boards |-> "off"] /\ at = [b \in Boards |-> 1]
  /\ on_air = [b \in Boards |-> <<>>] /\ finished = [b \in Boards |-> FALSE]
  /\ rx_fifo = [b \in Boards |-> <<>>]
  /\ deaf = [b \in Boards |-> FALSE] /\ missed = [b \in Boards |-> FALSE]
  /\ packages = [b \in Boards |-> [p \in 0 .. 2 |-> {}]]
  /\ i = [b \in Boards |-> 0] /\ command_size = [b \in Boards |-> 0]
  /\ rn16 = [b \in Boards |-> {}] /\ handle = [b \in Boards |-> {}]
  /\ said = [b \in Boards |-> 0] /\ heard = [b \in Boards |-> 0]

\* Whom the sender of a board is heard by.
Listener(b) == IF setup.loopback THEN b ELSE Peer(b)

\* The set-up, to the first message of the program on the console.
Launch(b) ==
  /\ pc[b] = "off" /\ Program(b) # <<>>
  /\ setup.tag_first /\ b = "reader" => pc["tag"] # "off"
  /\ pc' = [pc EXCEPT ![b] = "step"]
  /\ missed' = [missed EXCEPT ![b] = ~setup.loopback /\ on_air[Peer(b)] # <<>>]
  /\ UNCHANGED <<setup, deaf, at, line_vars, rx_fifo, call_vars, kept, history>>

\* Mutant of NextStep: main runs past its end.
NextStepAlways(b) == at' = [at EXCEPT ![b] = @ + 1] /\ pc' = [pc EXCEPT ![b] = "step"]

NextStep(b) ==
  /\ at' = [at EXCEPT ![b] = @ + 1]
  /\ pc' = [pc EXCEPT ![b] = IF at[b] = Len(Program(b)) THEN "done" ELSE "step"]

SendCommand(b) ==
  /\ pc[b] = "step" /\ Step(b).step = "send"
  /\ on_air' = [on_air EXCEPT ![b] = Append(@, Command(b, Step(b).what))]
  /\ said' = [said EXCEPT ![b] = @ + 1]
  /\ pc' = [pc EXCEPT ![b] = "sending"]
  /\ UNCHANGED <<setup_vars, at, finished, rx_fifo, call_vars, kept, heard>>

\* The flag is not cleared: from the second command on the wait is none.
SendReturns(b) ==
  /\ pc[b] = "sending" /\ finished[b]
  /\ NextStep(b)
  /\ UNCHANGED <<setup_vars, line_vars, rx_fifo, call_vars, kept, history>>

-----------------------------------------------------------------------------
(* The line.                                                               *)

Sent(b) ==
  /\ on_air[b] # <<>> /\ on_air' = [on_air EXCEPT ![b] = Tail(@)]
  /\ finished' = [finished EXCEPT ![b] = TRUE]

Stores(l, received) == rx_fifo' = [rx_fifo EXCEPT ![l] = @ \o received]

Arrive(b) ==
  LET l == Listener(b)
  IN /\ Sent(b)
     /\ pc[l] # "off" /\ ~missed[l] /\ ~deaf[l]
     /\ \E received \in Heard(Head(on_air[b])) : Stores(l, received)
     /\ UNCHANGED <<setup_vars, pc, at, call_vars, kept, history>>

ArriveUnheard(b) ==
  /\ Sent(b)
  /\ pc[Listener(b)] = "off" \/ deaf[Listener(b)]
  /\ UNCHANGED <<setup_vars, pc, at, rx_fifo, call_vars, kept, history>>

\* A refused symbol: what is stored are full packages before it, and then no more.
ArriveDamaged(b) ==
  LET l == Listener(b)
  IN /\ setup.faults /\ Sent(b)
     /\ pc[l] # "off" /\ ~missed[l] /\ ~deaf[l]
     /\ \E received \in Heard(Head(on_air[b])) :
          \E n \in 0 .. Len(received) - 2 : Stores(l, SubSeq(received, 1, n))
     /\ deaf' = [deaf EXCEPT ![l] = TRUE]
     /\ UNCHANGED <<setup, missed, pc, at, call_vars, kept, history>>

\* What may be left of a command whose first bits were missed; the bit during
\* which the receiver was enabled may be taken for either.
Tails(cmd) ==
  {command((RightShift(Low(cmd.result_data, cmd.size), n) \ {0}) \cup first, cmd.size - n) :
     n \in 1 .. cmd.size - 1, first \in {{}, {0}}}

ArriveLate(b) ==
  LET l == Listener(b)
  IN /\ Sent(b) /\ missed[l] /\ ~deaf[l]
     /\ missed' = [missed EXCEPT ![l] = FALSE]
     /\ \/ \E rest \in Tails(Head(on_air[b])) :
             \E received \in Heard(rest) : Stores(l, received) /\ UNCHANGED deaf
        \/ \E deaf_from_now \in BOOLEAN :
             deaf' = [deaf EXCEPT ![l] = deaf_from_now] /\ UNCHANGED rx_fifo
     /\ UNCHANGED <<setup, pc, at, call_vars, kept, history>>

-----------------------------------------------------------------------------
(* receiver_get_package and rfid_check_command.                            *)

GetPackage(b) ==
  /\ pc[b] = "step" /\ Step(b).step = "receive"
  /\ pc' = [pc EXCEPT ![b] = "receiving"]
  /\ \E g \in Garbage : packages' = [packages EXCEPT ![b] = [p \in 0 .. 2 |-> g]]
  /\ i' = [i EXCEPT ![b] = 0] /\ command_size' = [command_size EXCEPT ![b] = 0]
  /\ UNCHANGED <<setup_vars, at, line_vars, rx_fifo, kept, history>>

StorePackage(b) ==
  /\ pc[b] = "receiving" /\ rx_fifo[b] # <<>> /\ Head(rx_fifo[b]).data # {}
  /\ rx_fifo' = [rx_fifo EXCEPT ![b] = Tail(@)]
  /\ packages' = [packages EXCEPT ![b][i[b]] = Head(rx_fifo[b]).data]
  /\ command_size' = [command_size EXCEPT ![b] = @ + Head(rx_fifo[b]).mask]
  /\ i' = [i EXCEPT ![b] = @ + 1]
  /\ pc' = [pc EXCEPT ![b] = IF i[b] + 1 > Step(b).quant THEN "exited" ELSE @]
  /\ UNCHANGED <<setup_vars, at, line_vars, kept, history>>

\* Mutant of ReceivedEop: the void package is not taken from the FIFO.
ReceivedEopUnread(b) ==
  /\ pc[b] = "receiving" /\ rx_fifo[b] # <<>> /\ Head(rx_fifo[b]).data = {}
  /\ pc' = [pc EXCEPT ![b] = "received"]
  /\ UNCHANGED <<setup_vars, at, line_vars, rx_fifo, call_vars, kept, history>>

ReceivedEop(b) ==
  /\ pc[b] = "receiving" /\ rx_fifo[b] # <<>> /\ Head(rx_fifo[b]).data = {}
  /\ rx_fifo' = [rx_fifo EXCEPT ![b] = Tail(@)]
  /\ pc' = [pc EXCEPT ![b] = "received"]
  /\ UNCHANGED <<setup_vars, at, line_vars, call_vars, kept, history>>

\* Mutant of HandleOf: the upper bits are not fetched.
LowerHandleOf(p) == ExtractField(p[0], 10, 16)

HandleOf(p) == Field(p[1], 6, 10) \cup ExtractField(p[0], 10, 16)

CheckCommand(b) ==
  LET label == rfid_check_command(ZeroTable, packages[b], command_size[b])
  IN /\ pc[b] = "received" /\ label = Step(b).label
     /\ NextStep(b)
     /\ heard' = [heard EXCEPT ![b] = @ + 1]
     /\ rn16' = [rn16 EXCEPT ![b] = IF label = "rn16" THEN Low(packages[b][0], 8) ELSE @]
     /\ handle' = [handle EXCEPT ![b] =
                     IF at[b] = Len(Program(b)) THEN HandleOf(packages[b]) ELSE @]
     /\ UNCHANGED <<setup_vars, line_vars, rx_fifo, call_vars, said>>

WrongCommand(b) ==
  /\ pc[b] = "received"
  /\ rfid_check_command(ZeroTable, packages[b], command_size[b]) # Step(b).label
  /\ pc' = [pc EXCEPT ![b] = "exited"]
  /\ UNCHANGED <<setup_vars, at, line_vars, rx_fifo, call_vars, kept, history>>

-----------------------------------------------------------------------------

Main(b) ==
  \/ SendCommand(b) \/ SendReturns(b)
  \/ GetPackage(b) \/ StorePackage(b) \/ ReceivedEop(b) \/ CheckCommand(b) \/ WrongCommand(b)

Line(b) == Arrive(b) \/ ArriveUnheard(b) \/ ArriveDamaged(b) \/ ArriveLate(b)

Next == \E b \in Boards : Launch(b) \/ Main(b) \/ Line(b)

\* The boards run, the senders send, and whoever has two boards launches both.
Fairness == \A b \in Boards : WF_vars(Launch(b)) /\ WF_vars(Main(b)) /\ WF_vars(Line(b))

Spec == Init /\ [][Next]_vars /\ Fairness

-----------------------------------------------------------------------------
packages_of_26 == [data : SUBSET Bits(data_package_size), mask : 0 .. data_package_size]

\* With the types: while the call goes on, and when it returns, all it has stored lies in
\* main's array of quant words.  The store past it is the last, before main gives up.
TypeOK ==
  /\ setup \in Setups
  /\ pc \in [Boards -> {"off", "step", "sending", "receiving", "received", "done", "exited"}]
  /\ at \in [Boards -> 1 .. 13]
  /\ \A b \in Boards :
       /\ rx_fifo[b] \in Seq(packages_of_26)
       /\ pc[b] \in {"step", "sending", "receiving", "received"} => at[b] \in DOMAIN Program(b)
       /\ pc[b] = "sending" => Step(b).step = "send"
       /\ pc[b] \in {"receiving", "received"} => Step(b).step = "receive" /\ i[b] <= Step(b).quant
  /\ i \in [Boards -> 0 .. 3] /\ command_size \in [Boards -> 0 .. 78]

D == INSTANCE Dialogue
       WITH said <- said["reader"] + said["tag"], heard <- heard["reader"] + heard["tag"]

\* Whatever the set-up, and whichever symbols are refused or launches late, reader and tag take
\* turns: neither sends before it has accepted the answer to what it sent last,
\* and neither accepts a command that was not sent to it, or the same one twice.
ImplementsDialogue == D!Spec

\* A reader that is done holds the handle that was sent, put together from two packages,
\* although a symbol may be refused or a launch late.  (A bit that arrives flipped is not
\* among the faults here; DamageIsRefused of Exchange shows that the reader keeps it.)
HandleAgreed ==
  pc["reader"] = "done" =>
    handle["reader"]
      = HandleToSend(IF setup.main["reader"] = "reader" THEN "tag" ELSE "reader")

\* A set-up of the documentation: two boards with crossed lines, the tag first,
\* or one board that hears itself; no symbol is damaged.
Documented ==
  /\ ~setup.faults
  /\ IF setup.main["reader"] = "reader"
       THEN setup.main["tag"] = "tag" /\ setup.tag_first /\ ~setup.loopback
       ELSE setup.main["reader"] = "loopback_handshake" /\ setup.loopback

\* Set up and launched as documented, every program comes to its end, and leaves
\* nothing on the line or in the FIFOs.
DocumentedFinishes ==
  [](Documented =>
       <>(\A b \in Boards :
            /\ Program(b) # <<>> => pc[b] = "done"
            /\ on_air[b] = <<>> /\ rx_fifo[b] = <<>>))

\* The documentation: the ACK contains the same RN16.  The reader keeps 8 bits of it.
AckEchoesRN16 ==
  \A b \in Boards : \A n \in 1 .. Len(on_air[b]) :
    on_air[b][n].size = ACK_SIZE => Low(on_air[b][n].result_data, 16) = rn16_build.result_data
=============================================================================
