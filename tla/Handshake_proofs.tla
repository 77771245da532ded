--------------------------- MODULE Handshake_proofs ---------------------------
(***************************************************************************)
(* Theorems of Handshake, for every set of setups, with symbols refused or *)
(* not, in every order of launch: it implements Dialogue, its state has    *)
(* its types, the array of receiver_get_package is never left by more than *)
(* the word that makes main exit, and the handle that a reader is done     *)
(* with is the one that was sent.                                          *)
(***************************************************************************)
EXTENDS Handshake, Transfer_proofs

-----------------------------------------------------------------------------
(* The inductive invariant.                                                *)

TypeInv ==
  /\ setup \in Setups
  /\ pc \in [Boards -> {"off", "step", "sending", "receiving", "received", "done", "exited"}]
  /\ at \in [Boards -> 1 .. 13]
  /\ rx_fifo \in [Boards -> Seq(Packages26)]
  /\ DOMAIN on_air = Boards /\ DOMAIN missed = Boards /\ DOMAIN deaf = Boards
  /\ i \in [Boards -> Nat] /\ command_size \in [Boards -> Nat]
  /\ said \in [Boards -> Nat] /\ heard \in [Boards -> Nat]

\* The steps in which a program sends.
SendSteps(b) == IF setup.main[b] = "tag" THEN {2, 4, 6} ELSE {1, 3, 5, 7, 9, 11, 13}

Busy(b) == pc[b] \in {"step", "sending", "receiving", "received"}

\* Programs send and receive in turn.
ScriptInv(b) ==
  /\ Busy(b) => at[b] \in 1 .. Len(Program(b))
  /\ pc[b] = "off" => at[b] = 1
  /\ pc[b] = "sending" => at[b] \in SendSteps(b)
  /\ pc[b] \in {"receiving", "received"} => at[b] \notin SendSteps(b)
  /\ setup.main[b] = "none" => pc[b] = "off"
  /\ IF setup.main[b] = "tag"
       THEN heard[b] = said[b] + (IF at[b] \in SendSteps(b) /\ pc[b] # "sending" THEN 1 ELSE 0)
       ELSE said[b] = heard[b] + (IF at[b] \in SendSteps(b) /\ pc[b] # "sending" THEN 0 ELSE 1)

\* The packages that have been taken were full.
TookFull(b) == command_size[b] = data_package_size * i[b]

\* One command is on its way to a board at most: on the line, in the FIFO, received, or
\* cut off by a refused symbol.
Waits(b) == pc[b] # "received" /\ (pc[b] = "receiving" => TookFull(b))

Idle(b) == on_air[Listener(b)] = <<>> /\ rx_fifo[b] = <<>> /\ Waits(b)

OnAir(b) == on_air[Listener(b)] # <<>> /\ rx_fifo[b] = <<>> /\ Waits(b)

Stored(b) ==
  /\ on_air[Listener(b)] = <<>> /\ Packed(rx_fifo[b]) /\ pc[b] # "received"
  /\ pc[b] = "receiving" /\ Len(rx_fifo[b]) >= 2 => TookFull(b)

CutOff(b) == on_air[Listener(b)] = <<>> /\ AllFull(rx_fifo[b]) /\ Waits(b)

Received(b) ==
  /\ on_air[Listener(b)] = <<>> /\ pc[b] = "received"
  /\ rx_fifo[b] = <<>> \/ TookFull(b)

UnderWay(b) == OnAir(b) \/ Stored(b) \/ CutOff(b) \/ Received(b)

\* What is on the line is one command that has not been accepted.
LineInv(commands, ahead) ==
  commands # <<>> => /\ ahead > 0
                     /\ commands = <<commands[1]>> /\ commands[1].size \in Nat

TransitInv(b) ==
  /\ said[Listener(b)] >= heard[b]
  /\ LineInv(on_air[Listener(b)], said[Listener(b)] - heard[b])
  /\ \/ pc[b] \in {"done", "exited"}
     \/ Idle(b)
     \/ said[Listener(b)] > heard[b] /\ UnderWay(b)

IInv == TypeInv /\ \A b \in Boards : ScriptInv(b) /\ TransitInv(b)

-----------------------------------------------------------------------------
(* Facts about boards and programs.                                        *)

LEMMA Listeners ==
  ASSUME setup \in Setups, NEW b \in Boards
  PROVE  /\ Listener(b) \in Boards /\ Listener(Listener(b)) = b
         /\ setup.main \in [Boards -> Mains]
BY HandshakeAssumption DEF Listener, Peer, Boards

LEMMA StepKinds ==
  ASSUME setup \in Setups, NEW b \in Boards, at[b] \in 1 .. Len(Program(b))
  PROVE  /\ Step(b).step = "send" <=> at[b] \in SendSteps(b)
         /\ Step(b).step = "receive" <=> at[b] \notin SendSteps(b)
         /\ Step(b).step = "receive" => Step(b).label # NoLabel
         /\ at[b] \in 1 .. 12 /\ (setup.main[b] = "tag" => at[b] \in 1 .. 6)
<1>1. setup.main[b] \in Mains
  BY Listeners
<1>2. CASE setup.main[b] = "reader"
  BY <1>2 DEF Program, Step, SendSteps, reader, send, receive, NoLabel
<1>3. CASE setup.main[b] = "tag"
  BY <1>3 DEF Program, Step, SendSteps, tag, send, receive, NoLabel
<1>4. CASE setup.main[b] = "loopback_handshake"
  BY <1>4 DEF Program, Step, SendSteps, loopback_handshake, send, receive, NoLabel
<1>5. CASE setup.main[b] = "none"
  BY <1>5 DEF Program
<1> QED
  BY <1>1, <1>2, <1>3, <1>4, <1>5 DEF Mains

LEMMA WhatIsSent ==
  ASSUME setup \in Setups, NEW b \in Boards, at[b] \in 1 .. Len(Program(b)),
         Step(b).step = "send"
  PROVE  Step(b).what \in {"query", "rn16", "ack", "xpc", "req_rn", "handle"}
<1>1. setup.main[b] \in Mains
  BY Listeners
<1> QED
  BY <1>1 DEF Mains, Program, Step, reader, tag, loopback_handshake, send, receive

\* At every moment a board has sent and accepted the same number of commands, or one
\* more of what its program starts with.
LEMMA Balance ==
  ASSUME IInv, NEW b \in Boards
  PROVE  IF setup.main[b] = "tag" THEN heard[b] \in {said[b], said[b] + 1}
                                  ELSE said[b] \in {heard[b], heard[b] + 1}
BY DEF IInv, TypeInv, ScriptInv

\* Who is about to send has nobody to wait for, and nothing is on its way.
LEMMA TurnToSay ==
  ASSUME IInv, NEW b \in Boards, pc[b] = "step", Step(b).step = "send"
  PROVE  /\ said["reader"] + said["tag"] = heard["reader"] + heard["tag"]
         /\ said[b] = heard[Listener(b)]
<1>1. /\ setup \in Setups /\ at[b] \in SendSteps(b)
      /\ \A c \in Boards : said[c] \in Nat /\ heard[c] \in Nat /\ said[Listener(c)] >= heard[c]
  BY StepKinds DEF IInv, TypeInv, ScriptInv, TransitInv, Busy
<1>2. /\ setup.main["tag"] \in {"tag", "none"} /\ setup.main["reader"] # "tag"
  BY <1>1, HandshakeAssumption
<1>3. IF setup.main[b] = "tag" THEN heard[b] = said[b] + 1 ELSE said[b] = heard[b]
  BY <1>1 DEF IInv, ScriptInv
<1>4. said["reader"] \in {heard["reader"], heard["reader"] + 1}
  BY <1>2, Balance DEF Boards
<1>5. heard["tag"] \in {said["tag"], said["tag"] + 1}
  <2>1. CASE setup.main["tag"] = "tag"
    BY <2>1, Balance DEF Boards
  <2>2. CASE setup.main["tag"] = "none"
    <3>1. said["tag"] = heard["tag"]
      BY <2>2 DEF IInv, TypeInv, ScriptInv, SendSteps, Boards
    <3> QED
      BY <3>1
  <2> QED
    BY <1>2, <2>1, <2>2
<1>6. CASE setup.loopback
  <2>1. said["tag"] >= heard["tag"] /\ Listener(b) = b
    BY <1>1, <1>6 DEF Listener, Boards
  <2>2. said["tag"] = heard["tag"] /\ said[b] = heard[b]
    BY <1>1, <1>3, <1>5, <2>1 DEF Boards, Listener
  <2>3. said["reader"] = heard["reader"]
    <3>1. CASE b = "reader"
      BY <2>2, <3>1
    <3>2. CASE b = "tag"
      <4>1. setup.main["tag"] = "tag"
        BY <1>2, <3>2 DEF IInv, ScriptInv
      <4> QED
        BY <1>1, <1>3, <2>2, <3>2, <4>1
    <3> QED
      BY <3>1, <3>2 DEF Boards
  <2> QED
    BY <1>1, <2>1, <2>2, <2>3 DEF Boards
<1>7. CASE ~setup.loopback
  <2>1. said["tag"] >= heard["reader"] /\ said["reader"] >= heard["tag"]
    BY <1>1, <1>7 DEF Listener, Peer, Boards
  <2>2. CASE b = "reader"
    BY <1>1, <1>2, <1>3, <1>4, <1>5, <1>7, <2>1, <2>2 DEF Listener, Peer, Boards
  <2>3. CASE b = "tag" /\ setup.main["tag"] = "tag"
    BY <1>1, <1>2, <1>3, <1>4, <1>5, <1>7, <2>1, <2>3 DEF Listener, Peer, Boards
  <2>4. CASE b = "tag" /\ setup.main["tag"] = "none"
    BY <2>4 DEF IInv, ScriptInv
  <2> QED
    BY <1>2, <2>2, <2>3, <2>4 DEF Boards
<1> QED
  BY <1>6, <1>7

-----------------------------------------------------------------------------
(* Every action keeps the invariant.                                       *)

\* What an action must not change for a board's part of the invariant to stay.
LEMMA Untouched ==
  ASSUME TypeInv, NEW b \in Boards, ScriptInv(b), TransitInv(b), setup' = setup,
         pc'[b] = pc[b], at'[b] = at[b], said'[b] = said[b], heard'[b] = heard[b],
         said'[Listener(b)] = said[Listener(b)],
         on_air'[Listener(b)] = on_air[Listener(b)], rx_fifo'[b] = rx_fifo[b],
         i'[b] = i[b], command_size'[b] = command_size[b]
  PROVE  ScriptInv(b)' /\ TransitInv(b)'
<1>1. Listener(b)' = Listener(b)
  BY DEF Listener
<1>2. ScriptInv(b)'
  BY DEF ScriptInv, Busy, Program, SendSteps
<1>3. TransitInv(b)'
  BY <1>1 DEF TransitInv, Idle, UnderWay, OnAir, Stored, CutOff, Received, Waits, TookFull
<1> QED
  BY <1>2, <1>3

LEMMA SetupStays ==
  ASSUME setup' = setup, NEW b \in Boards
  PROVE  /\ Listener(b)' = Listener(b) /\ Program(b)' = Program(b)
         /\ SendSteps(b)' = SendSteps(b)
BY DEF Listener, Program, SendSteps

\* A send that returns and a command that is accepted bring a program to its next step.
LEMMA NextStepKeeps ==
  ASSUME TypeInv, NEW b \in Boards, ScriptInv(b), NextStep(b), setup' = setup,
         said' = said, pc[b] \in {"sending", "received"},
         heard'[b] = IF pc[b] = "sending" THEN heard[b] ELSE heard[b] + 1
  PROVE  ScriptInv(b)' /\ at' \in [Boards -> 1 .. 13] /\ pc'[b] \in {"step", "done"}
<1>1. /\ Program(b)' = Program(b) /\ SendSteps(b)' = SendSteps(b)
      /\ at[b] \in 1 .. Len(Program(b)) /\ setup \in Setups /\ setup.main[b] # "none"
  BY SetupStays DEF TypeInv, ScriptInv, Busy
<1>2. at[b] \in 1 .. 12 /\ (setup.main[b] = "tag" => at[b] \in 1 .. 6)
  BY <1>1, StepKinds
<1>3. /\ at'[b] = at[b] + 1 /\ at' = [at EXCEPT ![b] = @ + 1]
      /\ pc'[b] = IF at[b] = Len(Program(b)) THEN "done" ELSE "step"
  BY DEF NextStep, TypeInv
<1>4. at[b] \in SendSteps(b) <=> at[b] + 1 \notin SendSteps(b)
  BY <1>2 DEF SendSteps
<1>5. pc'[b] = "step" => at'[b] \in 1 .. Len(Program(b))
  BY <1>1, <1>2, <1>3
<1>6. at' \in [Boards -> 1 .. 13] /\ pc'[b] \in {"step", "done"}
  <2>1. at[b] + 1 \in 1 .. 13
    BY <1>2
  <2>2. at \in [Boards -> 1 .. 13] /\ at' = [at EXCEPT ![b] = at[b] + 1]
    BY <1>3 DEF TypeInv
  <2> QED
    BY <1>3, <2>1, <2>2
<1>7. IF setup.main[b] = "tag"
        THEN heard'[b] = said[b] + (IF at'[b] \in SendSteps(b) THEN 1 ELSE 0)
        ELSE said[b] = heard'[b] + (IF at'[b] \in SendSteps(b) THEN 0 ELSE 1)
  <2>1. CASE pc[b] = "sending"
    <3>1. at[b] \in SendSteps(b) /\ at'[b] \notin SendSteps(b) /\ heard'[b] = heard[b]
      BY <1>3, <1>4, <2>1 DEF ScriptInv
    <3> QED
      BY <2>1, <3>1 DEF ScriptInv, TypeInv
  <2>2. CASE pc[b] = "received"
    <3>1. at[b] \notin SendSteps(b) /\ at'[b] \in SendSteps(b) /\ heard'[b] = heard[b] + 1
      BY <1>3, <1>4, <2>2 DEF ScriptInv
    <3> QED
      BY <2>2, <3>1 DEF ScriptInv, TypeInv
  <2> QED
    BY <2>1, <2>2
<1>8. ScriptInv(b)'
  BY <1>1, <1>5, <1>6, <1>7 DEF ScriptInv, Busy
<1> QED
  BY <1>6, <1>8

LEMMA InitIInv == Init => IInv
<1> SUFFICES ASSUME Init PROVE IInv
  OBVIOUS
<1>1. TypeInv
  BY DEF Init, TypeInv
<1>2. ASSUME NEW b \in Boards PROVE ScriptInv(b) /\ TransitInv(b)
  <2>1. setup \in Setups /\ Listener(b) \in Boards
    BY Listeners DEF Init
  <2>2. ScriptInv(b)
    BY DEF Init, ScriptInv, Busy, SendSteps
  <2>3. TransitInv(b)
    BY <2>1 DEF Init, TransitInv, Idle, Waits, LineInv
  <2> QED
    BY <2>2, <2>3
<1> QED
  BY <1>1, <1>2 DEF IInv

LEMMA LaunchKeeps == ASSUME IInv, NEW b \in Boards, Launch(b) PROVE IInv'
<1> USE DEF IInv
<1>1. TypeInv'
  BY DEF Launch, TypeInv, line_vars, call_vars, history
<1>2. setup \in Setups /\ Listener(b) \in Boards /\ Listener(b)' = Listener(b)
  BY Listeners DEF TypeInv, Launch, Listener
<1>3. ASSUME NEW c \in Boards, c # b PROVE ScriptInv(c)' /\ TransitInv(c)'
  <2>1. Listener(c) \in Boards
    BY <1>2, Listeners
  <2> QED
    BY <1>3, <2>1, Untouched DEF TypeInv, Launch, line_vars, call_vars, history
<1>4. ScriptInv(b)'
  <2>1. at[b] = 1 /\ setup.main[b] # "none"
    BY DEF Launch, ScriptInv, Program
  <2>2. Len(Program(b)) >= 1 /\ Len(Program(b)) \in Nat
    BY DEF Launch, Program, reader, tag, loopback_handshake
  <2>3. Program(b)' = Program(b) /\ SendSteps(b)' = SendSteps(b)
    BY DEF Launch, Program, SendSteps
  <2>4. pc'[b] = "step" /\ at' = at /\ said' = said /\ heard' = heard /\ setup' = setup
    BY DEF Launch, TypeInv, history
  <2> QED
    BY <2>1, <2>2, <2>3, <2>4 DEF Launch, ScriptInv, Busy
<1>5. TransitInv(b)'
  BY <1>2 DEF Launch, TypeInv, TransitInv, Idle, UnderWay, OnAir, Stored, CutOff, Received,
       Waits, TookFull, line_vars, call_vars, history
<1> QED
  BY <1>1, <1>3, <1>4, <1>5

LEMMA SendCommandKeeps == ASSUME IInv, NEW b \in Boards, SendCommand(b) PROVE IInv'
<1> USE DEF IInv
<1>0. PICK l \in Boards : l = Listener(b) /\ Listener(l) = b
  BY Listeners DEF TypeInv
<1>1. /\ setup \in Setups /\ setup' = setup /\ missed' = missed /\ deaf' = deaf
      /\ at' = at /\ heard' = heard /\ rx_fifo' = rx_fifo /\ i' = i
      /\ command_size' = command_size
  BY DEF TypeInv, SendCommand, setup_vars, call_vars
<1>2. /\ said' = [said EXCEPT ![b] = @ + 1] /\ pc' = [pc EXCEPT ![b] = "sending"]
      /\ pc[b] = "step" /\ at[b] \in SendSteps(b) /\ at[b] \in 1 .. Len(Program(b))
  BY <1>1, StepKinds DEF SendCommand, ScriptInv, Busy
<1>3. on_air' = [on_air EXCEPT ![b] = Append(@, Command(b, Step(b).what))]
  BY DEF SendCommand
<1>4. TypeInv'
  <2>1. DOMAIN on_air' = Boards
    BY <1>3 DEF TypeInv
  <2>2. /\ said' \in [Boards -> Nat]
        /\ pc' \in [Boards -> {"off", "step", "sending", "receiving", "received", "done", "exited"}]
    BY <1>2 DEF TypeInv
  <2> QED
    BY <1>1, <2>1, <2>2 DEF TypeInv
<1>5. ASSUME NEW c \in Boards PROVE ScriptInv(c)'
  <2>1. Program(c)' = Program(c) /\ SendSteps(c)' = SendSteps(c)
    BY <1>1, SetupStays
  <2>2. CASE c = b
    <3>1. pc'[b] = "sending" /\ said'[b] = said[b] + 1
      BY <1>2 DEF TypeInv
    <3>2. setup.main[b] # "none" /\ said[b] \in Nat /\ heard[b] \in Nat
      BY <1>2 DEF ScriptInv, TypeInv
    <3>3. IF setup.main[b] = "tag" THEN heard[b] = said[b] + 1 ELSE said[b] = heard[b]
      BY <1>2, <3>2 DEF ScriptInv
    <3>4. IF setup.main[b] = "tag" THEN heard'[b] = said'[b] ELSE said'[b] = heard'[b] + 1
      BY <1>1, <3>1, <3>2, <3>3
    <3> QED
      BY <1>1, <1>2, <2>1, <2>2, <3>1, <3>2, <3>4 DEF ScriptInv
  <2>3. CASE c # b
    <3>1. pc'[c] = pc[c] /\ said'[c] = said[c]
      BY <1>2, <2>3 DEF TypeInv
    <3> QED
      BY <1>1, <2>1, <3>1 DEF ScriptInv, Busy
  <2> QED
    BY <2>2, <2>3
<1>6. said[b] = heard[l] /\ said'[b] = said[b] + 1
  BY <1>0, <1>2, TurnToSay DEF SendCommand, TypeInv
<1>7. Listener(l)' = b
  BY <1>0, <1>1, SetupStays
<1>8. TransitInv(l)'
  <2>1. Step(b).what \in {"query", "rn16", "ack", "xpc", "req_rn", "handle"}
    BY <1>1, <1>2, WhatIsSent DEF SendCommand
  <2> DEFINE cmd == Command(b, Step(b).what)
  <2>2. cmd.size \in Nat
    BY <2>1 DEF Command, query_build, rn16_build, ack_build, rn_crc_build, req_rn_build, command,
         QUERY_SIZE, RN16_SIZE, ACK_SIZE, RN_CRC_SIZE, REQ_RN_SIZE
  <2>3. on_air[b] = <<>>
    BY <1>0, <1>1, <1>6 DEF TransitInv, LineInv, TypeInv
  <2>4. on_air'[b] = <<cmd>>
    BY <1>1, <1>3, <2>3 DEF TypeInv
  <2> HIDE DEF cmd
  <2>5. LineInv(on_air'[b], 1)
    BY <2>2, <2>4 DEF LineInv
  <2>6. said'[b] - heard'[l] = 1 /\ said'[b] > heard'[l] /\ said'[b] >= heard'[l]
    BY <1>1, <1>6 DEF TypeInv
  <2>7. CASE pc[l] \in {"done", "exited"}
    <3>1. pc'[l] \in {"done", "exited"}
      BY <1>2, <2>7 DEF TypeInv
    <3> QED
      BY <1>7, <2>5, <2>6, <3>1 DEF TransitInv
  <2>8. CASE Idle(l)
    <3>1. OnAir(l)'
      BY <1>1, <1>2, <1>7, <2>4, <2>8 DEF Idle, OnAir, Waits, TookFull, TypeInv
    <3> QED
      BY <1>7, <2>5, <2>6, <3>1 DEF TransitInv, UnderWay
  <2>9. ~(said[b] > heard[l])
    BY <1>1, <1>6 DEF TypeInv
  <2> QED
    BY <1>0, <1>1, <2>7, <2>8, <2>9 DEF TransitInv
<1>9. ASSUME NEW c \in Boards, c # l PROVE TransitInv(c)'
  <2>1. Listener(c) \in Boards /\ Listener(c) # b /\ Listener(c)' = Listener(c)
    BY <1>0, <1>1, <1>9, Listeners, SetupStays
  <2>2. /\ on_air'[Listener(c)] = on_air[Listener(c)] /\ said'[Listener(c)] = said[Listener(c)]
        /\ pc'[c] = pc[c] \/ (pc[c] = "step" /\ pc'[c] = "sending")
    BY <1>2, <1>3, <2>1 DEF TypeInv
  <2> QED
    BY <1>1, <2>1, <2>2 DEF TransitInv, Idle, UnderWay, OnAir, Stored, CutOff, Received, Waits, TookFull
<1> QED
  BY <1>4, <1>5, <1>8, <1>9

LEMMA SendReturnsKeeps == ASSUME IInv, NEW b \in Boards, SendReturns(b) PROVE IInv'
<1> USE DEF IInv
<1>1. /\ setup \in Setups /\ setup' = setup /\ on_air' = on_air /\ rx_fifo' = rx_fifo
      /\ said' = said /\ heard' = heard /\ i' = i /\ command_size' = command_size
      /\ missed' = missed /\ deaf' = deaf
      /\ pc[b] = "sending" /\ NextStep(b)
  BY DEF SendReturns, TypeInv, setup_vars, line_vars, call_vars, history
<1>2. ScriptInv(b)' /\ at' \in [Boards -> 1 .. 13] /\ pc'[b] \in {"step", "done"}
  BY <1>1, NextStepKeeps
<1>3. \A c \in Boards : c # b => pc'[c] = pc[c] /\ at'[c] = at[c]
  BY <1>1 DEF NextStep, TypeInv
<1>4. TypeInv'
  BY <1>1, <1>2 DEF TypeInv, NextStep
<1>5. ASSUME NEW c \in Boards, c # b PROVE ScriptInv(c)' /\ TransitInv(c)'
  BY <1>1, <1>3, <1>5, Untouched
<1>6. TransitInv(b)'
  <2>1. Listener(b)' = Listener(b)
    BY <1>1, SetupStays
  <2> QED
    BY <1>1, <1>2, <2>1 DEF TransitInv, Idle, UnderWay, OnAir, Stored, CutOff, Received, Waits, TookFull
<1> QED
  BY <1>2, <1>4, <1>5, <1>6

\* A command leaves the line: all of it is stored, or full packages of it, or nothing.
LEMMA SentKeeps ==
  ASSUME IInv, NEW b \in Boards, NEW l \in Boards, l = Listener(b), Sent(b),
         NEW received \in Seq(Packages26),
         (Packed(received) /\ Len(received) >= 2) \/ AllFull(received),
         rx_fifo' = [rx_fifo EXCEPT ![l] = @ \o received],
         DOMAIN missed' = Boards, DOMAIN deaf' = Boards,
         UNCHANGED <<setup, pc, at, call_vars, history>>
  PROVE  IInv'
<1> USE DEF IInv
<1>1. /\ setup \in Setups /\ setup' = setup /\ pc' = pc /\ at' = at /\ said' = said
      /\ heard' = heard /\ i' = i /\ command_size' = command_size /\ Listener(l) = b
      /\ on_air' = [on_air EXCEPT ![b] = Tail(@)] /\ on_air[b] # <<>>
  BY Listeners DEF TypeInv, Sent, call_vars, history
<1>2. TypeInv'
  <2>1. DOMAIN on_air' = Boards
    BY <1>1 DEF TypeInv
  <2>2. rx_fifo[l] \o received \in Seq(Packages26)
    BY DEF TypeInv
  <2>3. rx_fifo' \in [Boards -> Seq(Packages26)]
    BY <2>2 DEF TypeInv
  <2> QED
    BY <1>1, <2>1, <2>3 DEF TypeInv
<1>3. ASSUME NEW c \in Boards, c # l PROVE ScriptInv(c)' /\ TransitInv(c)'
  <2>1. Listener(c) # b
    BY <1>1, <1>3, Listeners
  <2>2. on_air'[Listener(c)] = on_air[Listener(c)] /\ rx_fifo'[c] = rx_fifo[c]
    BY <1>1, <1>3, <2>1, Listeners DEF TypeInv
  <2> QED
    BY <1>1, <2>2, Untouched
<1>4. ScriptInv(l)'
  BY <1>1, SetupStays DEF ScriptInv, Busy
<1>5. TransitInv(l)'
  <2>0. on_air'[b] = <<>>
    <3>1. on_air[b] = <<on_air[b][1]>>
      BY <1>1 DEF TransitInv, LineInv
    <3>2. Tail(<<on_air[b][1]>>) = <<>>
      OBVIOUS
    <3> QED
      BY <1>1, <3>1, <3>2 DEF TypeInv
  <2>1. Listener(l)' = b
    BY <1>1, SetupStays
  <2>2. CASE pc[l] \in {"done", "exited"}
    BY <1>1, <2>0, <2>1, <2>2 DEF TransitInv, LineInv
  <2>3. CASE said[b] > heard[l] /\ OnAir(l)
    <3>1. on_air'[b] = <<>>
      BY <2>0
    <3>2. rx_fifo'[l] = received
      BY <2>3 DEF OnAir, TypeInv
    <3>3. Stored(l)' \/ CutOff(l)'
      BY <1>1, <2>1, <2>3, <3>1, <3>2 DEF OnAir, Stored, CutOff, Waits, TookFull
    <3> QED
      BY <1>1, <2>0, <2>1, <2>3, <3>3 DEF TransitInv, UnderWay, LineInv
  <2> QED
    BY <1>1, <2>2, <2>3 DEF TransitInv, UnderWay, Idle, Stored, CutOff, Received
<1> QED
  BY <1>2, <1>3, <1>4, <1>5

LEMMA NothingKeeps ==
  ASSUME TypeInv, NEW l \in Boards
  PROVE  /\ <<>> \in Seq(Packages26) /\ AllFull(<<>>)
         /\ rx_fifo = [rx_fifo EXCEPT ![l] = @ \o <<>>]
<1>1. rx_fifo[l] \o <<>> = rx_fifo[l]
  BY DEF TypeInv
<1> QED
  BY <1>1 DEF TypeInv, AllFull

\* What is on the line and can be heard has a size.
LEMMA OnAirHasSize ==
  ASSUME IInv, NEW b \in Boards, on_air[b] # <<>>
  PROVE  Head(on_air[b]).size \in Nat
<1>1. Listener(b) \in Boards /\ Listener(Listener(b)) = b
  BY Listeners DEF IInv, TypeInv
<1> QED
  BY <1>1 DEF IInv, TransitInv, LineInv

LEMMA LineKeeps == ASSUME IInv, NEW b \in Boards, Line(b) PROVE IInv'
<1>0. PICK l \in Boards : l = Listener(b)
  BY Listeners DEF IInv, TypeInv
<1>1. TypeInv /\ DOMAIN missed = Boards /\ DOMAIN deaf = Boards /\ Sent(b) /\ on_air[b] # <<>>
  BY DEF IInv, TypeInv, Line, Arrive, ArriveUnheard, ArriveDamaged, ArriveLate, Sent
<1>2. Head(on_air[b]).size \in Nat
  BY <1>1, OnAirHasSize
<1>3. CASE Arrive(b)
  <2>1. PICK received \in Heard(Head(on_air[b])) : Stores(l, received)
    BY <1>0, <1>3 DEF Arrive
  <2>2. received \in Seq(Packages26) /\ Packed(received) /\ Len(received) >= 2
    BY <1>2, HeardIsPacked
  <2> QED
    BY <1>0, <1>1, <1>3, <2>1, <2>2, SentKeeps DEF Arrive, Stores, setup_vars
<1>4. CASE ArriveUnheard(b)
  BY <1>0, <1>1, <1>4, SentKeeps, NothingKeeps DEF ArriveUnheard, setup_vars
<1>5. CASE ArriveDamaged(b)
  <2>1. PICK received \in Heard(Head(on_air[b])) :
          \E n \in 0 .. Len(received) - 2 : Stores(l, SubSeq(received, 1, n))
    BY <1>0, <1>5 DEF ArriveDamaged
  <2>2. PICK n \in 0 .. Len(received) - 2 : Stores(l, SubSeq(received, 1, n))
    BY <2>1
  <2>3. received \in Seq(Packages26) /\ Packed(received)
    BY <1>2, HeardIsPacked
  <2>4. SubSeq(received, 1, n) \in Seq(Packages26) /\ AllFull(SubSeq(received, 1, n))
    BY <2>3, PrefixIsFull
  <2>5. DOMAIN missed' = Boards /\ DOMAIN deaf' = Boards
    BY <1>1, <1>5 DEF ArriveDamaged
  <2> QED
    BY <1>0, <1>1, <1>5, <2>2, <2>4, <2>5, SentKeeps DEF ArriveDamaged, Stores
<1>6. CASE ArriveLate(b)
  <2>1. DOMAIN missed' = Boards /\ DOMAIN deaf' = Boards
    BY <1>1, <1>6 DEF ArriveLate
  <2>2. ASSUME NEW rest \in Tails(Head(on_air[b])), NEW received \in Heard(rest),
               Stores(l, received)
        PROVE  IInv'
    <3>1. rest.size \in Nat
      BY <1>2 DEF Tails, command
    <3>2. received \in Seq(Packages26) /\ Packed(received) /\ Len(received) >= 2
      BY <3>1, HeardIsPacked
    <3> QED
      BY <1>0, <1>1, <1>6, <2>1, <2>2, <3>2, SentKeeps DEF ArriveLate, Stores
  <2>3. CASE rx_fifo' = rx_fifo
    BY <1>0, <1>1, <1>6, <2>1, <2>3, SentKeeps, NothingKeeps DEF ArriveLate
  <2> QED
    BY <1>0, <1>6, <2>2, <2>3 DEF ArriveLate
<1> QED
  BY <1>3, <1>4, <1>5, <1>6 DEF Line

LEMMA GetPackageKeeps == ASSUME IInv, NEW b \in Boards, GetPackage(b) PROVE IInv'
<1> USE DEF IInv
<1>1. /\ setup \in Setups /\ setup' = setup /\ on_air' = on_air /\ rx_fifo' = rx_fifo
      /\ said' = said /\ heard' = heard /\ at' = at /\ missed' = missed /\ deaf' = deaf
      /\ pc[b] = "step" /\ pc' = [pc EXCEPT ![b] = "receiving"]
      /\ i' = [i EXCEPT ![b] = 0] /\ command_size' = [command_size EXCEPT ![b] = 0]
  BY DEF GetPackage, TypeInv, setup_vars, line_vars, history
<1>2. TypeInv'
  BY <1>1 DEF TypeInv
<1>3. ASSUME NEW c \in Boards, c # b PROVE ScriptInv(c)' /\ TransitInv(c)'
  BY <1>1, <1>3, Listeners, Untouched DEF TypeInv
<1>4. ScriptInv(b)'
  <2>1. Program(b)' = Program(b) /\ SendSteps(b)' = SendSteps(b)
    BY <1>1, SetupStays
  <2>2. at[b] \in 1 .. Len(Program(b)) /\ at[b] \notin SendSteps(b)
    BY <1>1, StepKinds DEF GetPackage, ScriptInv, Busy
  <2> QED
    BY <1>1, <2>1, <2>2 DEF ScriptInv, Busy, TypeInv
<1>5. TransitInv(b)'
  <2>1. Listener(b)' = Listener(b)
    BY <1>1, SetupStays
  <2>2. pc'[b] = "receiving" /\ TookFull(b)'
    BY <1>1 DEF TypeInv, TookFull, data_package_size
  <2> QED
    BY <1>1, <2>1, <2>2 DEF TransitInv, Idle, UnderWay, OnAir, Stored, CutOff, Received, Waits
<1> QED
  BY <1>2, <1>3, <1>4, <1>5

\* Where a package can be taken from.
LEMMA TakesFrom ==
  ASSUME IInv, NEW b \in Boards, pc[b] = "receiving", rx_fifo[b] # <<>>
  PROVE  said[Listener(b)] > heard[b] /\ (Stored(b) \/ CutOff(b))
BY DEF IInv, TransitInv, UnderWay, Idle, OnAir, Received

LEMMA StorePackageKeeps == ASSUME IInv, NEW b \in Boards, StorePackage(b) PROVE IInv'
<1> USE DEF IInv
<1> DEFINE f == rx_fifo[b]
<1>1. /\ setup \in Setups /\ setup' = setup /\ on_air' = on_air
      /\ rx_fifo' = [rx_fifo EXCEPT ![b] = Tail(@)]
      /\ said' = said /\ heard' = heard /\ at' = at /\ missed' = missed /\ deaf' = deaf
      /\ pc[b] = "receiving" /\ i' = [i EXCEPT ![b] = @ + 1]
      /\ command_size' = [command_size EXCEPT ![b] = @ + Head(rx_fifo[b]).mask]
      /\ rx_fifo[b] # <<>> /\ Head(rx_fifo[b]).data # {}
      /\ pc'[b] \in {"receiving", "exited"} /\ pc' = [pc EXCEPT ![b] = pc'[b]]
  BY DEF StorePackage, TypeInv, setup_vars, line_vars, history
<1>2. /\ f \in Seq(Packages26) /\ f # <<>> /\ Head(f) = f[1] /\ f[1] \in Packages26
      /\ Len(f) \in Nat /\ Len(f) >= 1
  BY <1>1 DEF TypeInv
<1>3. /\ Tail(f) \in Seq(Packages26) /\ Len(Tail(f)) = Len(f) - 1
      /\ Len(f) >= 2 /\ Packed(f) => Packed(Tail(f))
      /\ AllFull(f) => AllFull(Tail(f))
  BY <1>2, TailIsPacked
<1> HIDE DEF f
<1>4. TypeInv'
  <2>1. f[1].mask \in Nat
    BY SMTT(30), <1>2 DEF Packages26, data_package_size
  <2>2. command_size' \in [Boards -> Nat] /\ i' \in [Boards -> Nat]
    BY <1>1, <1>2, <2>1 DEF TypeInv, f
  <2>3. rx_fifo' \in [Boards -> Seq(Packages26)]
    BY <1>1, <1>3 DEF TypeInv, f
  <2>4. pc' \in [Boards -> {"off", "step", "sending", "receiving", "received", "done", "exited"}]
    BY <1>1 DEF TypeInv
  <2> QED
    BY <1>1, <2>2, <2>3, <2>4 DEF TypeInv
<1>5. ASSUME NEW c \in Boards, c # b PROVE ScriptInv(c)' /\ TransitInv(c)'
  <2>1. /\ pc'[c] = pc[c] /\ rx_fifo'[c] = rx_fifo[c] /\ i'[c] = i[c]
        /\ command_size'[c] = command_size[c]
    BY <1>1, <1>5 DEF TypeInv
  <2> QED
    BY <1>1, <1>5, <2>1, Untouched
<1>6. ScriptInv(b)'
  BY <1>1, SetupStays DEF ScriptInv, Busy
<1>7. TransitInv(b)'
  <2>1. Listener(b)' = Listener(b) /\ Listener(b) \in Boards
    BY <1>1, SetupStays, Listeners
  <2>2. said[Listener(b)] > heard[b] /\ (Stored(b) \/ CutOff(b))
    BY <1>1, TakesFrom
  <2>3. /\ rx_fifo'[b] = Tail(f) /\ i'[b] = i[b] + 1
        /\ command_size'[b] = command_size[b] + f[1].mask
    BY <1>1, <1>2 DEF TypeInv, f
  <2>4. /\ said'[Listener(b)'] > heard'[b] /\ said'[Listener(b)'] >= heard'[b]
        /\ LineInv(on_air[Listener(b)], said[Listener(b)] - heard[b])'
    BY <1>1, <2>1, <2>2 DEF TransitInv
  <2>5. TookFull(b) /\ f[1].mask = data_package_size => TookFull(b)'
    BY <2>3 DEF TookFull, TypeInv, data_package_size
  <2>6. CASE Stored(b)
    <3>1. Len(f) >= 2 /\ Packed(Tail(f))
      BY <1>1, <1>2, <1>3, <2>6 DEF Stored, Packed, f
    <3>2. Len(f) >= 3 => f[1].mask = data_package_size
      BY <1>2, <2>6 DEF Stored, Packed, f
    <3>3. Stored(b)'
      <4>1. on_air'[Listener(b)'] = <<>> /\ pc'[b] # "received" /\ Packed(rx_fifo'[b])
        BY <1>1, <2>1, <2>3, <2>6, <3>1 DEF Stored
      <4>2. Len(rx_fifo[b]) = Len(f) /\ Len(rx_fifo'[b]) = Len(f) - 1
        BY <1>3, <2>3 DEF f
      <4>3. Len(rx_fifo'[b]) >= 2 => TookFull(b)'
        BY <1>1, <1>2, <2>5, <2>6, <3>1, <3>2, <4>2 DEF Stored
      <4> QED
        BY <4>1, <4>3 DEF Stored
    <3> QED
      BY <2>4, <3>3 DEF TransitInv, UnderWay
  <2>7. CASE CutOff(b)
    <3>1. f[1].mask = data_package_size /\ AllFull(Tail(f))
      BY <1>2, <1>3, <2>7 DEF CutOff, AllFull, f
    <3>2. CutOff(b)'
      BY <1>1, <2>1, <2>3, <2>5, <2>7, <3>1 DEF CutOff, Waits
    <3> QED
      BY <2>4, <3>2 DEF TransitInv, UnderWay
  <2> QED
    BY <2>2, <2>6, <2>7
<1> QED
  BY <1>4, <1>5, <1>6, <1>7

LEMMA ReceivedEopKeeps == ASSUME IInv, NEW b \in Boards, ReceivedEop(b) PROVE IInv'
<1> USE DEF IInv
<1>1. /\ setup \in Setups /\ setup' = setup /\ on_air' = on_air
      /\ rx_fifo' = [rx_fifo EXCEPT ![b] = Tail(@)]
      /\ said' = said /\ heard' = heard /\ at' = at /\ missed' = missed /\ deaf' = deaf
      /\ i' = i /\ command_size' = command_size
      /\ pc[b] = "receiving" /\ pc' = [pc EXCEPT ![b] = "received"] /\ rx_fifo[b] # <<>>
  BY DEF ReceivedEop, TypeInv, setup_vars, line_vars, call_vars, history
<1>2. /\ rx_fifo[b] \in Seq(Packages26) /\ Tail(rx_fifo[b]) \in Seq(Packages26)
      /\ Len(rx_fifo[b]) \in Nat /\ (Len(rx_fifo[b]) < 2 => Tail(rx_fifo[b]) = <<>>)
  BY <1>1 DEF TypeInv
<1>3. TypeInv'
  BY <1>1, <1>2 DEF TypeInv
<1>4. ASSUME NEW c \in Boards, c # b PROVE ScriptInv(c)' /\ TransitInv(c)'
  <2>1. pc'[c] = pc[c] /\ rx_fifo'[c] = rx_fifo[c]
    BY <1>1, <1>4 DEF TypeInv
  <2> QED
    BY <1>1, <1>4, <2>1, Untouched
<1>5. ScriptInv(b)'
  <2>1. pc'[b] = "received"
    BY <1>1 DEF TypeInv
  <2> QED
    BY <1>1, <2>1, SetupStays DEF ScriptInv, Busy
<1>6. TransitInv(b)'
  <2>1. Listener(b)' = Listener(b)
    BY <1>1, SetupStays
  <2>2. said[Listener(b)] > heard[b] /\ (Stored(b) \/ CutOff(b))
    BY <1>1, TakesFrom
  <2>3. pc'[b] = "received" /\ rx_fifo'[b] = Tail(rx_fifo[b])
    BY <1>1 DEF TypeInv
  <2>4. rx_fifo'[b] = <<>> \/ TookFull(b)
    <3>1. CASE Len(rx_fifo[b]) < 2
      BY <1>2, <2>3, <3>1
    <3>2. CASE Len(rx_fifo[b]) >= 2
      BY <1>1, <2>2, <3>2 DEF Stored, CutOff, Waits
    <3> QED
      BY <1>2, <3>1, <3>2
  <2>5. Received(b)'
    BY <1>1, <2>1, <2>2, <2>3, <2>4 DEF Received, Stored, CutOff, TookFull
  <2> QED
    BY <1>1, <2>1, <2>2, <2>5 DEF TransitInv, UnderWay
<1> QED
  BY <1>3, <1>4, <1>5, <1>6

\* Who accepts a command has nothing left of it in the FIFO, and it was sent.
LEMMA TurnToHear ==
  ASSUME IInv, NEW b \in Boards, CheckCommand(b)
  PROVE  /\ said[Listener(b)] > heard[b]
         /\ on_air[Listener(b)] = <<>> /\ rx_fifo[b] = <<>>
<1>1. setup \in Setups /\ pc[b] = "received" /\ i[b] \in Nat
  BY DEF IInv, TypeInv, CheckCommand
<1>2. Step(b).label # NoLabel
  BY <1>1, StepKinds DEF IInv, ScriptInv, Busy
<1>3. ~TookFull(b)
  BY <1>1, <1>2, FullPackagesHaveNoLabel DEF CheckCommand, TookFull
<1> QED
  BY <1>1, <1>3 DEF IInv, TransitInv, UnderWay, Idle, OnAir, Stored, CutOff, Received, Waits

LEMMA CheckCommandKeeps == ASSUME IInv, NEW b \in Boards, CheckCommand(b) PROVE IInv'
<1> USE DEF IInv
<1>1. /\ setup \in Setups /\ setup' = setup /\ on_air' = on_air /\ rx_fifo' = rx_fifo
      /\ said' = said /\ heard' = [heard EXCEPT ![b] = @ + 1]
      /\ missed' = missed /\ deaf' = deaf /\ i' = i /\ command_size' = command_size
      /\ pc[b] = "received" /\ NextStep(b)
  BY DEF CheckCommand, TypeInv, setup_vars, line_vars, call_vars
<1>2. heard'[b] = heard[b] + 1
  BY <1>1 DEF TypeInv
<1>3. ScriptInv(b)' /\ at' \in [Boards -> 1 .. 13] /\ pc'[b] \in {"step", "done"}
  BY <1>1, <1>2, NextStepKeeps
<1>4. \A c \in Boards : c # b => pc'[c] = pc[c] /\ at'[c] = at[c] /\ heard'[c] = heard[c]
  BY <1>1 DEF NextStep, TypeInv
<1>5. TypeInv'
  BY <1>1, <1>3 DEF TypeInv, NextStep
<1>6. ASSUME NEW c \in Boards, c # b PROVE ScriptInv(c)' /\ TransitInv(c)'
  BY <1>1, <1>4, <1>6, Untouched
<1>7. TransitInv(b)'
  <2>1. Listener(b)' = Listener(b) /\ Listener(b) \in Boards
    BY <1>1, SetupStays, Listeners
  <2>2. /\ said[Listener(b)] > heard[b]
        /\ on_air[Listener(b)] = <<>> /\ rx_fifo[b] = <<>>
    BY TurnToHear
  <2>3. said'[Listener(b)] >= heard'[b]
    BY <1>1, <1>2, <2>1, <2>2 DEF TypeInv
  <2> QED
    BY <1>1, <1>3, <2>1, <2>2, <2>3 DEF TransitInv, Idle, Waits, LineInv
<1> QED
  BY <1>3, <1>5, <1>6, <1>7

LEMMA WrongCommandKeeps == ASSUME IInv, NEW b \in Boards, WrongCommand(b) PROVE IInv'
<1> USE DEF IInv
<1>1. /\ setup \in Setups /\ setup' = setup /\ on_air' = on_air /\ rx_fifo' = rx_fifo
      /\ said' = said /\ heard' = heard /\ at' = at /\ missed' = missed /\ deaf' = deaf
      /\ i' = i /\ command_size' = command_size
      /\ pc[b] = "received" /\ pc' = [pc EXCEPT ![b] = "exited"]
  BY DEF WrongCommand, TypeInv, setup_vars, line_vars, call_vars, history
<1>2. TypeInv'
  BY <1>1 DEF TypeInv
<1>3. ASSUME NEW c \in Boards, c # b PROVE ScriptInv(c)' /\ TransitInv(c)'
  <2>1. pc'[c] = pc[c]
    BY <1>1, <1>3 DEF TypeInv
  <2> QED
    BY <1>1, <1>3, <2>1, Untouched
<1>4. pc'[b] = "exited"
  BY <1>1 DEF TypeInv
<1>5. ScriptInv(b)'
  BY <1>1, <1>4, SetupStays DEF ScriptInv, Busy
<1>6. TransitInv(b)'
  BY <1>1, <1>4, SetupStays DEF TransitInv
<1> QED
  BY <1>2, <1>3, <1>5, <1>6

-----------------------------------------------------------------------------

LEMMA StepIInv == IInv /\ [Next]_vars => IInv'
<1> SUFFICES ASSUME IInv, [Next]_vars PROVE IInv'
  OBVIOUS
<1>1. CASE Next
  BY <1>1, LaunchKeeps, LineKeeps, SendCommandKeeps, SendReturnsKeeps, GetPackageKeeps,
     StorePackageKeeps, ReceivedEopKeeps, CheckCommandKeeps, WrongCommandKeeps DEF Next, Main
<1>2. CASE UNCHANGED vars
  <2>1. /\ UNCHANGED <<setup, pc, at, on_air, rx_fifo, i, command_size, said, heard, missed, deaf>>
    BY <1>2 DEF vars, setup_vars, line_vars, call_vars, history
  <2>2. TypeInv'
    BY <2>1 DEF IInv, TypeInv
  <2>3. ASSUME NEW b \in Boards PROVE ScriptInv(b)' /\ TransitInv(b)'
    BY <2>1, Untouched DEF IInv
  <2> QED
    BY <2>2, <2>3 DEF IInv
<1> QED
  BY <1>1, <1>2

THEOREM Invariant == Spec => []IInv
BY InitIInv, StepIInv, PTL DEF Spec

\* Every step of a board and of the line is a step of Dialogue, or none of its steps.
LEMMA DialogueStep == IInv /\ [Next]_vars => [D!Next]_<<said["reader"] + said["tag"],
                                                        heard["reader"] + heard["tag"]>>
<1> SUFFICES ASSUME IInv, [Next]_vars,
                    ~UNCHANGED <<said["reader"] + said["tag"], heard["reader"] + heard["tag"]>>
             PROVE  D!Next
  OBVIOUS
<1>1. ~UNCHANGED <<said, heard>>
  OBVIOUS
<1>2. PICK b \in Boards : SendCommand(b) \/ CheckCommand(b)
  BY <1>1 DEF Next, Launch, Main, Line, SendReturns, Arrive, ArriveUnheard, ArriveDamaged,
       ArriveLate, GetPackage, StorePackage, ReceivedEop, WrongCommand, vars, history
<1>3. CASE SendCommand(b)
  <2>1. said["reader"] + said["tag"] = heard["reader"] + heard["tag"]
    BY <1>3, TurnToSay DEF SendCommand
  <2>2. said' = [said EXCEPT ![b] = @ + 1] /\ heard' = heard
    BY <1>3 DEF SendCommand
  <2> QED
    BY <2>1, <2>2 DEF D!Next, D!Say, IInv, TypeInv, Boards
<1>4. CASE CheckCommand(b)
  <2>1. said[Listener(b)] > heard[b] /\ \A c \in Boards : said[Listener(c)] >= heard[c]
    BY <1>4, TurnToHear DEF IInv, TransitInv
  <2>2. heard["reader"] + heard["tag"] < said["reader"] + said["tag"]
    BY <2>1 DEF IInv, TypeInv, Boards, Listener, Peer
  <2>3. heard' = [heard EXCEPT ![b] = @ + 1] /\ said' = said
    BY <1>4 DEF CheckCommand
  <2> QED
    BY <2>2, <2>3 DEF D!Next, D!Hear, IInv, TypeInv, Boards
<1> QED
  BY <1>2, <1>3, <1>4

\* Whatever the setups, the order of launch and the symbols that are refused: reader and
\* tag take turns, and accept only what was sent to them.
THEOREM Implements == Spec => ImplementsDialogue
<1>1. Init => D!Init
  BY DEF Init, D!Init, Boards
<1> QED
  BY <1>1, Invariant, DialogueStep, PTL DEF Spec, ImplementsDialogue, D!Spec


-----------------------------------------------------------------------------
(* The packages that one call takes.                                       *)

\* A call has taken quant packages at most, the words of main's array; the program ends
\* with the one past it.
CallInv(b) ==
  /\ i[b] \in 0 .. 3 /\ command_size[b] <= data_package_size * i[b]
  /\ pc[b] \in {"receiving", "received"} => i[b] <= Step(b).quant

CallsInv == \A b \in Boards : CallInv(b)

LEMMA Arrays ==
  ASSUME setup \in Setups, NEW b \in Boards, at[b] \in 1 .. Len(Program(b))
  PROVE  /\ Step(b).step = "receive" => Step(b).quant \in 1 .. 2
         /\ at[b] \in DOMAIN Program(b)
<1>1. setup.main[b] \in Mains
  BY Listeners
<1>2. CASE setup.main[b] = "reader"
  BY <1>2 DEF Program, Step, reader, send, receive
<1>3. CASE setup.main[b] = "tag"
  BY <1>3 DEF Program, Step, tag, send, receive
<1>4. CASE setup.main[b] = "loopback_handshake"
  BY <1>4 DEF Program, Step, loopback_handshake, send, receive
<1>5. CASE setup.main[b] = "none"
  BY <1>5 DEF Program
<1> QED
  BY <1>1, <1>2, <1>3, <1>4, <1>5 DEF Mains

LEMMA CallStep ==
  ASSUME IInv, [Next]_vars, CallsInv, NEW b \in Boards
  PROVE  CallInv(b)'
<1> USE DEF CallsInv
<1>1. CASE pc'[b] = pc[b] /\ at'[b] = at[b] /\ i'[b] = i[b] /\ command_size'[b] = command_size[b]
           /\ setup' = setup
  BY <1>1 DEF CallInv, Step, Program
<1>2. CASE pc'[b] \notin {"receiving", "received"} /\ i'[b] = i[b] /\ command_size'[b] = command_size[b]
  BY <1>2 DEF CallInv
<1>3. CASE GetPackage(b)
  <2>1. i'[b] = 0 /\ command_size'[b] = 0 /\ setup' = setup /\ at' = at
    BY <1>3 DEF GetPackage, IInv, TypeInv, setup_vars
  <2>2. Step(b).quant \in 1 .. 2
    BY <1>3, Arrays DEF GetPackage, IInv, TypeInv, ScriptInv, Busy
  <2>3. Step(b)' = Step(b)
    BY <2>1 DEF Step, Program
  <2> QED
    BY <2>1, <2>2, <2>3 DEF CallInv, data_package_size
<1>4. CASE StorePackage(b)
  <2>1. /\ i'[b] = i[b] + 1 /\ command_size'[b] = command_size[b] + Head(rx_fifo[b]).mask
        /\ setup' = setup /\ at' = at /\ pc[b] = "receiving"
        /\ pc'[b] = IF i[b] + 1 > Step(b).quant THEN "exited" ELSE pc[b]
    BY <1>4 DEF StorePackage, IInv, TypeInv, setup_vars
  <2>2. Step(b).quant \in 1 .. 2
    <3>1. at[b] \in 1 .. Len(Program(b)) /\ at[b] \notin SendSteps(b) /\ setup \in Setups
      BY <2>1 DEF IInv, TypeInv, ScriptInv, Busy
    <3> QED
      BY <3>1, Arrays, StepKinds
  <2>3. Step(b)' = Step(b)
    BY <2>1 DEF Step, Program
  <2>4. Head(rx_fifo[b]).mask \in 0 .. data_package_size
    <3>1. rx_fifo[b] \in Seq(Packages26) /\ rx_fifo[b] # <<>>
      BY <1>4 DEF StorePackage, IInv, TypeInv
    <3>2. Head(rx_fifo[b]) \in Packages26
      BY <3>1
    <3> QED
      BY <3>2 DEF Packages26
  <2>5. i[b] <= Step(b).quant /\ i[b] \in Nat /\ command_size[b] \in Nat
    BY <2>1 DEF CallInv, IInv, TypeInv
  <2>6. command_size[b] <= data_package_size * i[b]
    BY DEF CallInv
  <2>7. i'[b] \in 0 .. 3
    BY <2>1, <2>2, <2>5
  <2>8. command_size'[b] <= data_package_size * i'[b]
    BY <2>1, <2>4, <2>5, <2>6 DEF data_package_size
  <2>9. pc'[b] \in {"receiving", "received"} => i'[b] <= Step(b).quant
    BY <2>1, <2>2, <2>5
  <2> QED
    BY <2>3, <2>7, <2>8, <2>9 DEF CallInv
<1>5. CASE UNCHANGED vars
  BY <1>1, <1>5 DEF vars, setup_vars, call_vars
<1>6. ASSUME NEW c \in Boards, Launch(c) \/ Main(c) \/ Line(c), ~GetPackage(b), ~StorePackage(b)
      PROVE  CallInv(b)'
  <2> USE DEF IInv, TypeInv, setup_vars, line_vars, call_vars, history
  <2>1. CASE Launch(c)
    BY <1>1, <1>2, <2>1 DEF Launch
  <2>2. CASE SendCommand(c)
    BY <1>1, <1>2, <2>2 DEF SendCommand
  <2>3. CASE SendReturns(c)
    BY <1>1, <1>2, <2>3 DEF SendReturns, NextStep
  <2>4. CASE GetPackage(c)
    BY <1>1, <1>6, <2>4 DEF GetPackage
  <2>5. CASE StorePackage(c)
    BY <1>1, <1>6, <2>5 DEF StorePackage
  <2>6. CASE ReceivedEop(c)
    <3>1. CASE c = b
      BY <2>6, <3>1 DEF ReceivedEop, CallInv, Step, Program
    <3>2. CASE c # b
      BY <1>1, <2>6, <3>2 DEF ReceivedEop
    <3> QED
      BY <3>1, <3>2
  <2>7. CASE CheckCommand(c)
    BY <1>1, <1>2, <2>7 DEF CheckCommand, NextStep
  <2>8. CASE WrongCommand(c)
    BY <1>1, <1>2, <2>8 DEF WrongCommand
  <2>9. CASE Line(c)
    BY <1>1, <2>9 DEF Line, Arrive, ArriveUnheard, ArriveDamaged, ArriveLate
  <2> QED
    BY <1>6, <2>1, <2>2, <2>3, <2>4, <2>5, <2>6, <2>7, <2>8, <2>9 DEF Main
<1> QED
  BY <1>3, <1>4, <1>5, <1>6 DEF Next

\* main's arrays are left by one word at most, and then main gives up.
THEOREM CallsEnd == Spec => []CallsInv
<1>1. Init => CallsInv
  BY DEF Init, CallsInv, CallInv, data_package_size
<1>2. IInv /\ [Next]_vars /\ CallsInv => CallsInv'
  BY CallStep DEF CallsInv
<1> QED
  BY <1>1, <1>2, Invariant, PTL DEF Spec

\* The types of the state, and with them where receiver_get_package stores: a call that
\* goes on or returns has stored no more than the quant words of main's array (one or two);
\* index 3 of TypeOK is reached by the store past an array of two, with which main gives up.
THEOREM TypeCorrect == Spec => []TypeOK
<1>1. ASSUME IInv, CallsInv PROVE TypeOK
  <2>1. ASSUME NEW b \in Boards
        PROVE  /\ Busy(b) => at[b] \in DOMAIN Program(b)
               /\ pc[b] = "sending" => Step(b).step = "send"
               /\ pc[b] \in {"receiving", "received"} => Step(b).step = "receive" /\ i[b] <= Step(b).quant
    BY <1>1, StepKinds, Arrays DEF IInv, TypeInv, ScriptInv, Busy, CallsInv, CallInv
  <2>2. i \in [Boards -> 0 .. 3] /\ command_size \in [Boards -> 0 .. 78]
    <3>1. \A b \in Boards : i[b] \in 0 .. 3 /\ command_size[b] \in Nat
                             /\ command_size[b] <= 26 * i[b]
      BY <1>1 DEF IInv, TypeInv, CallsInv, CallInv, data_package_size
    <3>2. \A b \in Boards : command_size[b] \in 0 .. 78
      BY <3>1
    <3> QED
      BY <1>1, <3>1, <3>2 DEF IInv, TypeInv
  <2> QED
    BY <1>1, <2>1, <2>2 DEF IInv, TypeInv, TypeOK, Busy, Packages26, packages_of_26
<1> QED
  BY <1>1, Invariant, CallsEnd, PTL

-----------------------------------------------------------------------------
(* The handle.                                                             *)

R == "reader"
S == Listener(R)

\* How many commands a board has sent when its program has come this far.
CountInv(b) ==
  IF setup.main[b] = "tag"
    THEN 2 * said[b] = IF at[b] \notin SendSteps(b) THEN at[b] - 1
                       ELSE IF pc[b] = "sending" THEN at[b] ELSE at[b] - 2
    ELSE 2 * said[b] = IF at[b] \notin SendSteps(b) THEN at[b]
                       ELSE IF pc[b] = "sending" THEN at[b] + 1 ELSE at[b] - 1

\* The command that matters: the handle, or the query that a reader hears from itself when
\* its loopback is on, and which it does not take for an RN16.
Turn == IF setup.main[S] = "tag" THEN 3
        ELSE IF setup.main[S] = "loopback_handshake" THEN 6 ELSE 1
Told == IF setup.main[S] = "reader" THEN query_build({0}, {0}, {0}, {0}, {0}, {0}, {0})
        ELSE rn_crc_build(ZeroTable, HandleToSend(S))

ToldIsSent == on_air[S] # <<>> /\ said[S] = Turn => on_air[S] = <<Told>>

\* What has been taken of a command, and what is left of it.
Taken(received) ==
  /\ i[R] \in 0 .. Len(received) - 1
  /\ \A p \in 1 .. i[R] : packages[R][p - 1] = received[p].data
  /\ command_size[R] = IF i[R] = Len(received) - 1
                         THEN data_package_size * (i[R] - 1) + received[i[R]].mask
                         ELSE data_package_size * i[R]

Holds(received) ==
  /\ pc[R] \notin {"receiving", "received"} => rx_fifo[R] = received
  /\ pc[R] = "receiving" =>
       Taken(received) /\ rx_fifo[R] = SubSeq(received, i[R] + 1, Len(received))
  /\ pc[R] = "received" => Taken(received) /\ i[R] = Len(received) - 1

HearsTold ==
  \/ pc[R] \in {"done", "exited"}
  \/ on_air[S] # <<>> /\ (pc[R] = "receiving" => i[R] = 0)
  \/ CutOff(R)
  \/ pc[R] = "received" /\ TookFull(R)
  \/ on_air[S] = <<>> /\ \E received \in Heard(Told) : Holds(received)

\* The reader's part of the invariant.
ReaderInv ==
  /\ ~missed[R]
  /\ ToldIsSent
  /\ pc[R] = "receiving" /\ said[S] = heard[R] => i[R] = 0
  /\ said[S] = Turn /\ said[S] > heard[R] => HearsTold
  /\ setup.loopback /\ setup.main[R] = "reader" => heard[R] = 0
  /\ HandleAgreed

HandleInv == ReaderInv /\ \A b \in Boards : CountInv(b)

-----------------------------------------------------------------------------
(* Who is who, and how far they are.                                       *)

LEMMA Parties ==
  ASSUME IInv
  PROVE  /\ setup \in Setups /\ R \in Boards /\ S \in Boards /\ Listener(S) = R
         /\ S = IF setup.loopback THEN "reader" ELSE "tag"
         /\ setup.main["tag"] \in {"tag", "none"}
         /\ setup.main[R] \in {"reader", "loopback_handshake", "none"}
         /\ \A b \in Boards : Listener(b) = R => b = S
<1>1. setup \in Setups
  BY DEF IInv, TypeInv
<1>2. R \in Boards
  BY DEF R, Boards
<1>3. S \in Boards /\ Listener(S) = R /\ setup.main \in [Boards -> Mains]
  BY <1>1, <1>2, Listeners DEF S
<1>4. /\ setup.main["tag"] \in {"tag", "none"} /\ setup.main["reader"] # "tag"
  BY <1>1, HandshakeAssumption
<1>5. S = IF setup.loopback THEN "reader" ELSE "tag"
  BY DEF S, R, Listener, Peer
<1>6. setup.main[R] \in {"reader", "loopback_handshake", "none"}
  BY <1>2, <1>3, <1>4 DEF R, Mains
<1>7. \A b \in Boards : Listener(b) = R => b = S
  BY <1>1, Listeners DEF S
<1> QED
  BY <1>1, <1>2, <1>3, <1>4, <1>5, <1>6, <1>7

\* The reader is one command behind at most.
LEMMA OneBehind ==
  ASSUME IInv
  PROVE  said[S] <= heard[R] + 1 /\ said[S] \in Nat /\ heard[R] \in Nat
<1>1. \A b \in Boards : said[b] \in Nat /\ heard[b] \in Nat
  BY DEF IInv, TypeInv
<1>2. said[R] <= heard[R] + 1
  BY <1>1, Parties, Balance
<1>3. CASE setup.loopback
  BY <1>1, <1>2, <1>3, Parties DEF R
<1>4. CASE ~setup.loopback
  <2>1. S = "tag" /\ Listener("tag") = R /\ "tag" \in Boards /\ Listener(R) = "tag"
    BY <1>4, Parties DEF S
  <2>2. said[R] >= heard["tag"]
    BY <2>1 DEF IInv, TransitInv
  <2>3. said["tag"] <= heard["tag"]
    <3>1. CASE setup.main["tag"] = "tag"
      BY <1>1, <2>1, <3>1, Balance
    <3>2. CASE setup.main["tag"] = "none"
      <4>1. pc["tag"] = "off" /\ at["tag"] = 1
        BY <2>1, <3>2 DEF IInv, ScriptInv
      <4> QED
        BY <1>1, <2>1, <3>2, <4>1 DEF IInv, ScriptInv, SendSteps
    <3> QED
      BY <3>1, <3>2, Parties
  <2> QED
    BY <1>1, <1>2, <2>1, <2>2, <2>3, Parties
<1> QED
  BY <1>3, <1>4

LEMMA CountKeeps ==
  ASSUME NEW b \in Boards, CountInv(b), setup' = setup, at'[b] = at[b], said'[b] = said[b],
         pc'[b] = "sending" <=> pc[b] = "sending"
  PROVE  CountInv(b)'
<1>1. SendSteps(b)' = SendSteps(b)
  BY SetupStays
<1> QED
  BY <1>1 DEF CountInv

LEMMA CountNext ==
  ASSUME IInv, NEW b \in Boards, CountInv(b), NextStep(b), UNCHANGED <<setup, said>>,
         pc[b] \in {"sending", "received"}
  PROVE  CountInv(b)'
<1>1. SendSteps(b)' = SendSteps(b)
  BY SetupStays
<1>2. /\ at[b] \in 1 .. 12 /\ (setup.main[b] = "tag" => at[b] \in 1 .. 6)
      /\ at[b] \in SendSteps(b) <=> pc[b] = "sending"
  BY StepKinds DEF IInv, TypeInv, ScriptInv, Busy
<1>3. at'[b] = at[b] + 1 /\ pc'[b] # "sending"
  BY DEF NextStep, IInv, TypeInv
<1>4. at[b] \in SendSteps(b) <=> at[b] + 1 \notin SendSteps(b)
  BY <1>2 DEF SendSteps
<1>5. CASE pc[b] = "sending"
  <2>1. IF setup.main[b] = "tag" THEN 2 * said[b] = at[b] ELSE 2 * said[b] = at[b] + 1
    BY <1>2, <1>5 DEF CountInv
  <2>2. at'[b] \notin SendSteps(b)
    BY <1>2, <1>3, <1>4, <1>5
  <2> QED
    BY <1>1, <1>2, <1>3, <2>1, <2>2 DEF CountInv
<1>6. CASE pc[b] = "received"
  <2>1. IF setup.main[b] = "tag" THEN 2 * said[b] = at[b] - 1 ELSE 2 * said[b] = at[b]
    BY <1>2, <1>6 DEF CountInv
  <2>2. at'[b] \in SendSteps(b)
    BY <1>2, <1>3, <1>4, <1>6
  <2> QED
    BY <1>1, <1>2, <1>3, <2>1, <2>2 DEF CountInv
<1> QED
  BY <1>5, <1>6

LEMMA CountStep ==
  ASSUME IInv, [Next]_vars, NEW b \in Boards, CountInv(b)
  PROVE  CountInv(b)'
<1>1. CASE UNCHANGED vars
  BY <1>1, CountKeeps DEF vars, setup_vars, history
<1>2. CASE SendCommand(b)
  <2>1. /\ setup' = setup /\ at' = at /\ said'[b] = said[b] + 1 /\ pc'[b] = "sending"
        /\ pc[b] = "step" /\ said[b] \in Nat
    BY <1>2 DEF SendCommand, IInv, TypeInv, setup_vars
  <2>2. at[b] \in SendSteps(b)
    BY <1>2, <2>1, StepKinds DEF SendCommand, IInv, TypeInv, ScriptInv, Busy
  <2>3. SendSteps(b)' = SendSteps(b)
    BY <2>1, SetupStays
  <2>4. IF setup.main[b] = "tag" THEN 2 * said[b] = at[b] - 2 ELSE 2 * said[b] = at[b] - 1
    BY <2>1, <2>2 DEF CountInv
  <2>5. at[b] \in 1 .. 13
    BY DEF IInv, TypeInv
  <2>6. IF setup.main[b] = "tag" THEN 2 * said'[b] = at[b] ELSE 2 * said'[b] = at[b] + 1
    BY <2>1, <2>4, <2>5
  <2> QED
    BY <2>1, <2>2, <2>3, <2>6 DEF CountInv
<1>3. CASE SendReturns(b)
  BY <1>3, CountNext DEF SendReturns, setup_vars, history
<1>4. CASE CheckCommand(b)
  BY <1>4, CountNext DEF CheckCommand, setup_vars
<1>5. ASSUME NEW c \in Boards, Launch(c) \/ Main(c) \/ Line(c),
             ~SendCommand(b), ~SendReturns(b), ~CheckCommand(b)
      PROVE  CountInv(b)'
  <2> USE DEF IInv, TypeInv, setup_vars, line_vars, call_vars, history
  <2>1. CASE Launch(c)
    BY <2>1, CountKeeps DEF Launch
  <2>2. CASE SendCommand(c)
    BY <1>5, <2>2, CountKeeps DEF SendCommand
  <2>3. CASE SendReturns(c)
    BY <1>5, <2>3, CountKeeps DEF SendReturns, NextStep
  <2>4. CASE GetPackage(c)
    BY <2>4, CountKeeps DEF GetPackage
  <2>5. CASE StorePackage(c)
    BY <2>5, CountKeeps DEF StorePackage
  <2>6. CASE ReceivedEop(c)
    BY <2>6, CountKeeps DEF ReceivedEop
  <2>7. CASE CheckCommand(c)
    BY <1>5, <2>7, CountKeeps DEF CheckCommand, NextStep
  <2>8. CASE WrongCommand(c)
    BY <2>8, CountKeeps DEF WrongCommand
  <2>9. CASE Line(c)
    BY <2>9, CountKeeps DEF Line, Arrive, ArriveUnheard, ArriveDamaged, ArriveLate
  <2> QED
    BY <1>5, <2>1, <2>2, <2>3, <2>4, <2>5, <2>6, <2>7, <2>8, <2>9 DEF Main
<1> QED
  BY <1>1, <1>2, <1>3, <1>4, <1>5 DEF Next

-----------------------------------------------------------------------------
(* What the command that matters is, and how it is heard.                  *)

LEMMA ToldCommand ==
  ASSUME IInv, CountInv(S), pc[S] = "step", Step(S).step = "send", said[S] + 1 = Turn
  PROVE  Command(S, Step(S).what) = Told
<1>1. /\ S \in Boards /\ at[S] \in 1 .. Len(Program(S)) /\ setup \in Setups /\ said[S] \in Nat
      /\ setup.main[S] \in {"tag", "reader", "loopback_handshake", "none"}
  BY Parties, Listeners DEF IInv, TypeInv, ScriptInv, Busy, Mains
<1>2. at[S] \in SendSteps(S) /\ at[S] \in 1 .. 12
  BY <1>1, StepKinds
<1>3. CASE setup.main[S] = "tag"
  <2>1. at[S] = 6
    BY <1>1, <1>2, <1>3 DEF CountInv, Turn
  <2>2. Step(S).what = "handle"
    BY <1>3, <2>1 DEF Step, Program, tag, send
  <2> QED
    BY <1>3, <2>2 DEF Command, Told
<1>4. CASE setup.main[S] = "loopback_handshake"
  <2>1. at[S] = 11
    BY <1>1, <1>2, <1>4 DEF CountInv, Turn
  <2>2. Step(S).what = "handle"
    BY <1>4, <2>1 DEF Step, Program, loopback_handshake, send
  <2> QED
    BY <1>4, <2>2 DEF Command, Told
<1>5. CASE setup.main[S] = "reader"
  <2>1. at[S] = 1
    BY <1>1, <1>2, <1>5 DEF CountInv, Turn
  <2>2. Step(S).what = "query"
    BY <1>5, <2>1 DEF Step, Program, reader, send
  <2> QED
    BY <1>5, <2>2 DEF Command, Told
<1>6. setup.main[S] # "none"
  BY <1>1 DEF IInv, ScriptInv
<1> QED
  BY <1>1, <1>3, <1>4, <1>5, <1>6

\* The packages of the command that matters.
LEMMA ToldIsHeard ==
  ASSUME NEW received \in Heard(Told)
  PROVE  /\ received \in Seq(Packages26) /\ Packed(received) /\ Len(received) >= 2
         /\ setup.main[S] = "reader" =>
              Len(received) = 2 /\ received[1].mask \in {QUERY_SIZE, QUERY_SIZE + 1}
<1>1. /\ Told.size \in Nat
      /\ setup.main[S] = "reader" => Told.size = 22
  BY DEF Told, query_build, rn_crc_build, command, QUERY_SIZE, RN_CRC_SIZE
<1>2. received \in Seq(Packages26) /\ Packed(received) /\ Len(received) >= 2
  BY <1>1, HeardIsPacked
<1>3. ASSUME setup.main[S] = "reader"
      PROVE  Len(received) = 2 /\ received[1].mask \in {QUERY_SIZE, QUERY_SIZE + 1}
  <2>1. PICK n \in {22, 23} : \E bits : received = Cut(bits, n)
    BY <1>1, <1>3 DEF Heard
  <2>2. PICK bits : received = Cut(bits, n)
    BY <2>1
  <2>3. n \div 26 = 0 /\ n % 26 = n /\ n \in Nat
    BY <2>1
  <2>4. Len(Cut(bits, n)) = 0 + 2 /\ Cut(bits, n)[0 + 1].mask = n
    BY <2>3, CutIsPacked DEF data_package_size
  <2> QED
    BY <2>1, <2>2, <2>4 DEF QUERY_SIZE
<1> QED
  BY <1>2, <1>3

LEMMA HandleComesBack ==
  ASSUME setup.main[S] # "reader", NEW received \in Heard(Told)
  PROVE  /\ Len(received) = 3
         /\ Field(received[2].data, 6, 10) \cup ExtractField(received[1].data, 10, 16)
              = HandleToSend(S)
<1>1. Told = rn_crc_build(ZeroTable, HandleToSend(S))
  BY DEF Told
<1>2. HandleToSend(S) \in SUBSET Bits(16)
  BY DEF HandleToSend, Bits
<1> QED
  BY <1>1, <1>2, ZeroTableType, NumberComesBack

-----------------------------------------------------------------------------
(* Every action keeps the reader's part.                                   *)

\* What an action must not change for it to stay; the reader may go from one step that
\* receives nothing to another.
LEMMA ReaderUntouched ==
  ASSUME IInv, ReaderInv, setup' = setup, said'[S] = said[S], heard'[R] = heard[R],
         on_air'[S] = on_air[S], rx_fifo'[R] = rx_fifo[R], i'[R] = i[R],
         packages'[R] = packages[R], command_size'[R] = command_size[R],
         handle'[R] = handle[R], ~missed'[R],
         \/ pc'[R] = pc[R]
         \/ {pc[R], pc'[R]} \subseteq {"off", "step", "sending"}
  PROVE  ReaderInv'
<1>1. S' = S /\ Told' = Told /\ Turn' = Turn
  BY DEF S, R, Listener, Told, Turn, HandleToSend
<1>2. pc'[R] # pc[R] =>
        /\ pc[R] \notin {"receiving", "received", "done", "exited"}
        /\ pc'[R] \notin {"receiving", "received", "done", "exited"}
  OBVIOUS
<1>3. HearsTold => HearsTold'
  <2>1. CutOff(R) => CutOff(R)'
    <3>1. Listener(R)' = S /\ Listener(R) = S
      BY <1>1 DEF S
    <3> QED
      BY <1>2, <3>1 DEF CutOff, Waits, TookFull
  <2>2. pc[R] = "received" /\ TookFull(R) => pc'[R] = "received" /\ TookFull(R)'
    BY <1>2 DEF TookFull
  <2>3. \A received : Holds(received) => Holds(received)'
    BY <1>2 DEF Holds, Taken
  <2> QED
    BY <1>1, <1>2, <2>1, <2>2, <2>3 DEF HearsTold
<1>4. HandleAgreed'
  BY <1>2 DEF ReaderInv, HandleAgreed, HandleToSend, R
<1>5. ToldIsSent'
  BY <1>1 DEF ReaderInv, ToldIsSent
<1> QED
  BY <1>1, <1>2, <1>3, <1>4, <1>5 DEF ReaderInv

\* When the reader is launched, nothing has been said to it.
LEMMA ReaderLaunch ==
  ASSUME IInv, HandleInv, NEW b \in Boards, Launch(b)
  PROVE  ReaderInv'
<1>1. /\ setup' = setup /\ said' = said /\ heard' = heard /\ on_air' = on_air
      /\ rx_fifo' = rx_fifo /\ i' = i /\ packages' = packages /\ command_size' = command_size
      /\ handle' = handle
      /\ pc'[R] = pc[R] \/ (pc[R] = "off" /\ pc'[R] = "step")
  BY Parties DEF Launch, IInv, TypeInv, setup_vars, line_vars, call_vars, kept, history
<1>2. ~missed'[R]
  <2>1. CASE b # R
    BY <2>1, Parties DEF Launch, IInv, TypeInv, HandleInv, ReaderInv
  <2>2. CASE b = R /\ setup.loopback
    <3>1. missed' = [missed EXCEPT ![R] = FALSE]
      BY <2>2 DEF Launch
    <3> QED
      BY <3>1, Parties DEF IInv, TypeInv
  <2>3. CASE b = R /\ ~setup.loopback
    <3>1. S = "tag" /\ Peer(R) = "tag" /\ Listener("tag") = R /\ Listener(R) = "tag"
          /\ "tag" \in Boards /\ R \in Boards /\ setup.main[R] # "tag"
      BY <2>3, Parties DEF Peer, R, S
    <3>2. pc[R] = "off" /\ at[R] = 1
      BY <2>3, <3>1 DEF Launch, IInv, ScriptInv
    <3>3. said[R] = 0 /\ heard[R] = 0
      <4>1. said[R] \in Nat /\ heard[R] \in Nat /\ 1 \in SendSteps(R)
        BY <3>1 DEF IInv, TypeInv, SendSteps
      <4>2. said[R] = heard[R]
        BY <3>1, <3>2, <4>1 DEF IInv, ScriptInv
      <4>3. 2 * said[R] = 0
        BY <3>1, <3>2, <4>1 DEF HandleInv, CountInv
      <4> QED
        BY <4>1, <4>2, <4>3
    <3>4. heard["tag"] <= 0 /\ said["tag"] \in Nat /\ heard["tag"] \in Nat
      BY <3>1, <3>3 DEF IInv, TypeInv, TransitInv
    <3>5. said["tag"] <= 0
      <4>1. CASE setup.main["tag"] = "tag"
        BY <3>1, <3>4, <4>1, Balance
      <4>2. CASE setup.main["tag"] = "none"
        <5>1. pc["tag"] = "off" /\ at["tag"] = 1
          BY <3>1, <4>2 DEF IInv, ScriptInv
        <5> QED
          BY <3>1, <3>4, <4>2, <5>1 DEF IInv, ScriptInv, SendSteps
      <4> QED
        BY <4>1, <4>2, Parties
    <3>6. on_air["tag"] = <<>>
      BY <3>1, <3>3, <3>4, <3>5 DEF IInv, TransitInv, LineInv
    <3>7. missed' = [missed EXCEPT ![R] = FALSE]
      <4>1. missed' = [missed EXCEPT ![R] = ~setup.loopback /\ on_air[Peer(R)] # <<>>]
        BY <2>3 DEF Launch
      <4>2. (~setup.loopback /\ on_air[Peer(R)] # <<>>) = FALSE
        BY <3>1, <3>6
      <4> QED
        BY <4>1, <4>2
    <3> QED
      BY <3>1, <3>7 DEF IInv, TypeInv
  <2> QED
    BY <2>1, <2>2, <2>3
<1>3. \/ pc'[R] = pc[R]
      \/ {pc[R], pc'[R]} \subseteq {"off", "step", "sending"}
  BY <1>1
<1> QED
  BY <1>1, <1>2, <1>3, ReaderUntouched DEF HandleInv

LEMMA ReaderIsTold ==
  ASSUME IInv, HandleInv, SendCommand(S)
  PROVE  ReaderInv'
<1>1. /\ setup' = setup /\ heard' = heard /\ rx_fifo' = rx_fifo /\ i' = i /\ packages' = packages
      /\ command_size' = command_size /\ handle' = handle /\ missed' = missed
      /\ said'[S] = said[S] + 1 /\ pc[S] = "step" /\ pc' = [pc EXCEPT ![S] = "sending"]
  BY Parties DEF SendCommand, IInv, TypeInv, setup_vars, call_vars, kept
<1>2. said[S] = heard[R]
  BY Parties, TurnToSay DEF SendCommand
<1>3. S' = S /\ Told' = Told /\ Turn' = Turn
  BY <1>1 DEF S, R, Listener, Told, Turn, HandleToSend
<1>4. on_air[S] = <<>>
  BY <1>2, Parties, OneBehind DEF IInv, TransitInv, LineInv, S
<1> DEFINE cmd == Command(S, Step(S).what)
<1>5. said[S] + 1 = Turn => cmd = Told
  BY <1>1, Parties, ToldCommand DEF HandleInv, SendCommand
<1>6. on_air'[S] = <<cmd>>
  <2>1. on_air' = [on_air EXCEPT ![S] = Append(@, cmd)]
    BY DEF SendCommand
  <2>2. Append(<<>>, cmd) = <<cmd>>
    OBVIOUS
  <2> QED
    BY <1>4, <2>1, <2>2, Parties DEF IInv, TypeInv
<1> HIDE DEF cmd
<1>7. ToldIsSent'
  BY <1>1, <1>3, <1>5, <1>6 DEF ToldIsSent
<1>8. pc'[R] = "receiving" => pc[R] = "receiving"
  BY <1>1, Parties DEF IInv, TypeInv
<1>9. pc[R] = "receiving" => i[R] = 0
  BY <1>2 DEF HandleInv, ReaderInv
<1>10. HearsTold'
  <2>1. on_air'[S] # <<>>
    BY <1>6
  <2> QED
    BY <1>1, <1>3, <1>8, <1>9, <2>1 DEF HearsTold
<1>11. HandleAgreed'
  <2>1. pc'[R] = "done" => pc[R] = "done"
    BY <1>1, Parties DEF IInv, TypeInv
  <2> QED
    BY <1>1, <2>1 DEF HandleInv, ReaderInv, HandleAgreed, HandleToSend, R
<1>12. said'[S] # heard'[R]
  BY <1>1, <1>2, OneBehind
<1> QED
  BY <1>1, <1>3, <1>7, <1>10, <1>11, <1>12 DEF HandleInv, ReaderInv

LEMMA ReaderReturns ==
  ASSUME IInv, HandleInv, SendReturns(R)
  PROVE  ReaderInv'
<1>1. /\ setup' = setup /\ said' = said /\ heard' = heard /\ on_air' = on_air
      /\ rx_fifo' = rx_fifo /\ i' = i /\ packages' = packages /\ command_size' = command_size
      /\ handle' = handle /\ missed' = missed /\ pc[R] = "sending" /\ NextStep(R)
  BY DEF SendReturns, setup_vars, line_vars, call_vars, kept, history
<1>2. at[R] \in SendSteps(R) /\ at[R] \in 1 .. Len(Program(R)) /\ setup.main[R] # "none"
  BY <1>1, Parties DEF IInv, ScriptInv, Busy
<1>3. at[R] # Len(Program(R))
  BY <1>2, Parties DEF SendSteps, Program, reader, loopback_handshake
<1>4. pc'[R] = "step"
  BY <1>1, <1>3, Parties DEF NextStep, IInv, TypeInv
<1> QED
  BY <1>1, <1>4, ReaderUntouched DEF HandleInv, ReaderInv

\* A command leaves the line for the reader: all of it, full packages of it, or nothing.
LEMMA ReaderLine ==
  ASSUME IInv, HandleInv, Sent(S), NEW received \in Seq(Packages26),
         received \in Heard(Head(on_air[S])) \/ AllFull(received),
         rx_fifo'[R] = rx_fifo[R] \o received, ~missed'[R],
         UNCHANGED <<setup, pc, at, call_vars, kept, history>>
  PROVE  ReaderInv'
<1>1. /\ setup' = setup /\ pc' = pc /\ said' = said /\ heard' = heard /\ i' = i
      /\ packages' = packages /\ command_size' = command_size /\ handle' = handle
      /\ on_air[S] # <<>> /\ on_air'[S] = Tail(on_air[S])
  BY Parties DEF Sent, IInv, TypeInv, call_vars, kept, history
<1>2. S' = S /\ Told' = Told /\ Turn' = Turn /\ Listener(R)' = S /\ Listener(R) = S
  BY <1>1 DEF S, R, Listener, Told, Turn, HandleToSend
<1>3. on_air'[S] = <<>>
  <2>1. on_air[S] = <<on_air[S][1]>>
    BY <1>1, Parties DEF IInv, TransitInv, LineInv, S
  <2>2. Tail(<<on_air[S][1]>>) = <<>>
    OBVIOUS
  <2> QED
    BY <1>1, <2>1, <2>2
<1>4. pc[R] \in {"done", "exited"} \/ (rx_fifo[R] = <<>> /\ Waits(R))
  BY <1>1, Parties DEF S, IInv, TransitInv, UnderWay, Idle, OnAir, Stored, CutOff, Received
<1>5. ASSUME said[S] = Turn, said[S] > heard[R] PROVE HearsTold'
  <2>1. CASE pc[R] \in {"done", "exited"}
    BY <1>1, <2>1 DEF HearsTold
  <2>2. CASE pc[R] \notin {"done", "exited"}
    <3>1. rx_fifo[R] = <<>> /\ Waits(R) /\ pc[R] # "received"
      BY <1>4, <2>2 DEF Waits
    <3>2. rx_fifo'[R] = received
      BY <3>1
    <3>3. CASE AllFull(received)
      BY <1>1, <1>2, <1>3, <3>1, <3>2, <3>3 DEF HearsTold, CutOff, Waits, TookFull
    <3>4. CASE received \in Heard(Head(on_air[S]))
      <4>1. on_air[S] = <<Told>>
        BY <1>1, <1>5 DEF HandleInv, ReaderInv, ToldIsSent
      <4>2. received \in Heard(Told)
        <5>1. Head(<<Told>>) = Told
          OBVIOUS
        <5> QED
          BY <3>4, <4>1, <5>1
      <4>3. Len(received) \in Nat /\ Len(received) >= 2 /\ SubSeq(received, 1, Len(received)) = received
        BY <4>2, ToldIsHeard
      <4>4. pc[R] = "receiving" => i[R] = 0 /\ command_size[R] = 0
        <5>1. pc[R] = "receiving" => i[R] = 0
          BY <1>1, <1>3, <1>5, <2>2, <3>1 DEF HandleInv, ReaderInv, HearsTold, CutOff, S
        <5>2. pc[R] = "receiving" => command_size[R] = 26 * i[R]
          BY <3>1 DEF Waits, TookFull, data_package_size
        <5> QED
          BY <5>1, <5>2
      <4>5. pc[R] = "receiving" => Taken(received)'
        BY <1>1, <4>3, <4>4 DEF Taken, data_package_size
      <4>6. Holds(received)'
        BY <1>1, <3>1, <3>2, <4>3, <4>4, <4>5 DEF Holds
      <4> QED
        BY <1>2, <1>3, <4>2, <4>6 DEF HearsTold
    <3> QED
      BY <3>3, <3>4
  <2> QED
    BY <2>1, <2>2
<1>6. HandleAgreed'
  BY <1>1 DEF HandleInv, ReaderInv, HandleAgreed, HandleToSend
<1>7. ToldIsSent'
  BY <1>2, <1>3 DEF ToldIsSent
<1> QED
  BY <1>1, <1>2, <1>5, <1>6, <1>7 DEF HandleInv, ReaderInv

LEMMA ReaderHears ==
  ASSUME IInv, HandleInv, Line(S)
  PROVE  ReaderInv'
<1>1. Listener(S) = R /\ Sent(S) /\ on_air[S] # <<>> /\ R \in Boards /\ S \in Boards
  BY Parties DEF Line, Arrive, ArriveUnheard, ArriveDamaged, ArriveLate, Sent
<1>2. Head(on_air[S]).size \in Nat
  BY <1>1, OnAirHasSize
<1>3. ~missed[R] /\ rx_fifo[R] \in Seq(Packages26) /\ DOMAIN rx_fifo = Boards
  BY <1>1 DEF HandleInv, ReaderInv, IInv, TypeInv
<1>4. CASE Arrive(S)
  <2>1. PICK received \in Heard(Head(on_air[S])) : Stores(R, received)
    BY <1>1, <1>4 DEF Arrive
  <2>2. received \in Seq(Packages26) /\ rx_fifo'[R] = rx_fifo[R] \o received
    BY <1>1, <1>2, <1>3, <2>1, HeardIsPacked DEF Stores
  <2> QED
    BY <1>1, <1>3, <1>4, <2>2, ReaderLine DEF Arrive, setup_vars
<1>5. CASE ArriveUnheard(S)
  <2>1. <<>> \in Seq(Packages26) /\ AllFull(<<>>) /\ rx_fifo'[R] = rx_fifo[R] \o <<>>
    BY <1>1, <1>3, <1>5, NothingKeeps DEF ArriveUnheard, IInv
  <2> QED
    BY <1>1, <1>3, <1>5, <2>1, ReaderLine DEF ArriveUnheard, setup_vars
<1>6. CASE ArriveDamaged(S)
  <2>1. PICK received \in Heard(Head(on_air[S])) :
          \E n \in 0 .. Len(received) - 2 : Stores(R, SubSeq(received, 1, n))
    BY <1>1, <1>6 DEF ArriveDamaged
  <2>2. PICK n \in 0 .. Len(received) - 2 : Stores(R, SubSeq(received, 1, n))
    BY <2>1
  <2>3. SubSeq(received, 1, n) \in Seq(Packages26) /\ AllFull(SubSeq(received, 1, n))
    BY <1>2, HeardIsPacked, PrefixIsFull
  <2>4. rx_fifo'[R] = rx_fifo[R] \o SubSeq(received, 1, n) /\ missed' = missed
    BY <1>1, <1>3, <1>6, <2>2 DEF Stores, ArriveDamaged
  <2> QED
    BY <1>1, <1>3, <1>6, <2>3, <2>4, ReaderLine DEF ArriveDamaged
<1>7. CASE ArriveLate(S)
  BY <1>1, <1>3, <1>7 DEF ArriveLate
<1> QED
  BY <1>4, <1>5, <1>6, <1>7 DEF Line

\* main's array has the words 0, 1 and 2, and each board keeps a handle.
ArraysInv ==
  /\ DOMAIN packages = Boards /\ DOMAIN handle = Boards
  /\ \A b \in Boards : DOMAIN packages[b] = 0 .. 2

LEMMA ArraysStep == ASSUME ArraysInv, [Next]_vars PROVE ArraysInv'
<1>1. CASE packages' = packages /\ handle' = handle
  BY <1>1 DEF ArraysInv
<1>2. ASSUME NEW b \in Boards, GetPackage(b) PROVE ArraysInv'
  <2>1. PICK g \in Garbage : packages' = [packages EXCEPT ![b] = [p \in 0 .. 2 |-> g]]
    BY <1>2 DEF GetPackage
  <2> QED
    BY <1>2, <2>1 DEF ArraysInv, GetPackage, kept
<1>3. ASSUME NEW b \in Boards, StorePackage(b) PROVE ArraysInv'
  <2>1. packages' = [packages EXCEPT ![b] = [packages[b] EXCEPT ![i[b]] = Head(rx_fifo[b]).data]]
    BY <1>3 DEF StorePackage
  <2> QED
    BY <1>3, <2>1 DEF ArraysInv, StorePackage, kept
<1>4. ASSUME NEW b \in Boards, CheckCommand(b) PROVE ArraysInv'
  BY <1>4 DEF ArraysInv, CheckCommand, call_vars
<1>5. CASE UNCHANGED vars
  BY <1>1, <1>5 DEF vars, call_vars, kept
<1>6. ASSUME NEW b \in Boards, Launch(b) \/ Main(b) \/ Line(b),
             ~GetPackage(b), ~StorePackage(b), ~CheckCommand(b)
      PROVE  packages' = packages /\ handle' = handle
  BY <1>6 DEF Launch, Main, Line, SendCommand, SendReturns, ReceivedEop,
       WrongCommand, Arrive, ArriveUnheard, ArriveDamaged, ArriveLate, call_vars, kept
<1> QED
  BY <1>1, <1>2, <1>3, <1>4, <1>5, <1>6 DEF Next

LEMMA ReaderGets ==
  ASSUME IInv, HandleInv, GetPackage(R)
  PROVE  ReaderInv'
<1>1. /\ setup' = setup /\ said' = said /\ heard' = heard /\ on_air' = on_air
      /\ rx_fifo' = rx_fifo /\ handle' = handle /\ missed' = missed
      /\ pc[R] = "step" /\ pc'[R] = "receiving" /\ i'[R] = 0 /\ command_size'[R] = 0
  BY Parties DEF GetPackage, IInv, TypeInv, setup_vars, line_vars, kept, history
<1>2. S' = S /\ Told' = Told /\ Turn' = Turn /\ Listener(R)' = S /\ Listener(R) = S
  BY <1>1 DEF S, R, Listener, Told, Turn, HandleToSend
<1>3. TookFull(R)'
  BY <1>1 DEF TookFull, data_package_size
<1>4. CutOff(R) => CutOff(R)'
  BY <1>1, <1>2, <1>3 DEF CutOff, Waits
<1>5. ASSUME NEW received \in Heard(Told), Holds(received) PROVE Holds(received)'
  <2>1. Len(received) \in Nat /\ Len(received) >= 2 /\ SubSeq(received, 1, Len(received)) = received
    BY ToldIsHeard
  <2>2. Taken(received)'
    BY <1>1, <2>1 DEF Taken, data_package_size
  <2>3. rx_fifo[R] = received
    BY <1>1, <1>5 DEF Holds
  <2> QED
    BY <1>1, <2>1, <2>2, <2>3 DEF Holds
<1>6. HearsTold => HearsTold'
  BY <1>1, <1>2, <1>4, <1>5 DEF HearsTold
<1>7. HandleAgreed' /\ ToldIsSent'
  BY <1>1, <1>2 DEF HandleInv, ReaderInv, HandleAgreed, ToldIsSent, R
<1> QED
  BY <1>1, <1>2, <1>6, <1>7 DEF HandleInv, ReaderInv

\* Where the reader stands when it finds a package in the FIFO.
LEMMA ReaderTakes ==
  ASSUME IInv, pc[R] = "receiving", rx_fifo[R] # <<>>
  PROVE  /\ said[S] > heard[R] /\ on_air[S] = <<>>
         /\ rx_fifo[R] \in Seq(Packages26) /\ Len(rx_fifo[R]) \in Nat /\ Len(rx_fifo[R]) >= 1
         /\ Head(rx_fifo[R]) = rx_fifo[R][1]
<1>1. rx_fifo[R] \in Seq(Packages26)
  BY Parties DEF IInv, TypeInv
<1> QED
  BY <1>1, Parties, TakesFrom DEF S, Stored, CutOff

LEMMA RestOfCommand ==
  ASSUME NEW received \in Seq(Packages26), NEW n \in 0 .. Len(received) - 1
  PROVE  /\ Head(SubSeq(received, n + 1, Len(received))) = received[n + 1]
         /\ Tail(SubSeq(received, n + 1, Len(received))) = SubSeq(received, n + 2, Len(received))
<1>1. Len(received) \in Nat /\ n + 1 \in 1 .. Len(received) /\ n + 1 + 1 = n + 2
  OBVIOUS
<1>2. Len(received) \in n + 1 .. Len(received)
  BY <1>1
<1> QED
  BY <1>1, <1>2, HeadTailOfSubSeq

LEMMA CallTakes ==
  ASSUME IInv, CallsInv, NEW b \in Boards, pc[b] = "receiving"
  PROVE  i[b] \in 0 .. 2
<1>1. at[b] \in 1 .. Len(Program(b)) /\ at[b] \notin SendSteps(b) /\ setup \in Setups
  BY DEF IInv, TypeInv, ScriptInv, Busy
<1>2. Step(b).quant \in 1 .. 2
  BY <1>1, Arrays, StepKinds
<1> QED
  BY <1>2 DEF CallsInv, CallInv

LEMMA ReaderStores ==
  ASSUME IInv, CallsInv, ArraysInv, HandleInv, StorePackage(R)
  PROVE  ReaderInv'
<1>1. /\ setup' = setup /\ said' = said /\ heard' = heard /\ on_air' = on_air
      /\ handle' = handle /\ missed' = missed /\ rx_fifo[R] # <<>>
      /\ pc[R] = "receiving" /\ pc'[R] \in {"receiving", "exited"}
      /\ i'[R] = i[R] + 1 /\ command_size'[R] = command_size[R] + Head(rx_fifo[R]).mask
      /\ rx_fifo'[R] = Tail(rx_fifo[R]) /\ Head(rx_fifo[R]).data # {}
      /\ packages' = [packages EXCEPT ![R][i[R]] = Head(rx_fifo[R]).data]
  BY Parties DEF StorePackage, IInv, TypeInv, setup_vars, line_vars, kept, history
<1>2. S' = S /\ Told' = Told /\ Turn' = Turn /\ Listener(R)' = S /\ Listener(R) = S
  BY <1>1 DEF S, R, Listener, Told, Turn, HandleToSend
<1>3. /\ said[S] > heard[R] /\ said[S] # heard[R] /\ on_air[S] = <<>>
      /\ rx_fifo[R] \in Seq(Packages26) /\ Head(rx_fifo[R]) = rx_fifo[R][1]
      /\ Len(rx_fifo[R]) \in Nat /\ Len(rx_fifo[R]) >= 1
      /\ i[R] \in Nat /\ command_size[R] \in Nat
  <2>1. i[R] \in Nat /\ command_size[R] \in Nat
    BY Parties DEF IInv, TypeInv
  <2>2. said[S] > heard[R] => said[S] # heard[R]
    BY OneBehind
  <2> QED
    BY <1>1, <2>1, <2>2, ReaderTakes
<1>4. ASSUME CutOff(R), pc'[R] = "receiving" PROVE CutOff(R)'
  <2>1. rx_fifo[R][1].mask = data_package_size /\ AllFull(Tail(rx_fifo[R]))
    <3>1. AllFull(rx_fifo[R])
      BY <1>4 DEF CutOff
    <3>2. AllFull(Tail(rx_fifo[R]))
      BY <1>1, <1>3, <3>1, TailIsPacked
    <3>3. 1 \in 1 .. Len(rx_fifo[R])
      BY <1>3
    <3> QED
      BY <3>1, <3>2, <3>3 DEF AllFull
  <2>2. TookFull(R)
    BY <1>1, <1>4 DEF CutOff, Waits
  <2>3. TookFull(R)'
    BY <1>1, <1>3, <2>1, <2>2 DEF TookFull, data_package_size
  <2> QED
    BY <1>1, <1>2, <1>3, <1>4, <2>1, <2>3 DEF CutOff, Waits
<1>5. ASSUME NEW received \in Heard(Told), Holds(received), pc'[R] = "receiving"
      PROVE  Holds(received)'
  <2>1. /\ received \in Seq(Packages26) /\ Packed(received) /\ Len(received) >= 2
        /\ Len(received) \in Nat
    BY ToldIsHeard
  <2>2. /\ i[R] \in 0 .. Len(received) - 1
        /\ rx_fifo[R] = SubSeq(received, i[R] + 1, Len(received)) /\ Taken(received)
    BY <1>1, <1>5 DEF Holds, Taken
  <2>3. /\ Head(rx_fifo[R]) = received[i[R] + 1]
        /\ rx_fifo'[R] = SubSeq(received, i[R] + 2, Len(received))
    BY <1>1, <2>1, <2>2, RestOfCommand
  <2>4. i[R] # Len(received) - 1
    BY <1>1, <2>1, <2>3 DEF Packed
  <2>5. i[R] \in 0 .. Len(received) - 2 /\ i'[R] \in 0 .. Len(received) - 1
    BY SMTT(30), <1>1, <2>1, <2>2, <2>4
  <2>6. received[i[R] + 1] \in Packages26
    BY <2>1, <2>5
  <2>7. command_size[R] = data_package_size * i[R]
    BY <2>2, <2>4 DEF Taken
  <2>8. i'[R] # Len(received) - 1 => received[i[R] + 1].mask = data_package_size
    BY <1>1, <2>1, <2>5 DEF Packed
  <2>9. command_size'[R] = IF i'[R] = Len(received) - 1
                             THEN data_package_size * (i'[R] - 1) + received[i'[R]].mask
                             ELSE data_package_size * i'[R]
    <3>1. /\ command_size'[R] = data_package_size * i[R] + received[i[R] + 1].mask
          /\ received[i[R] + 1].mask \in Nat
      <4>1. received[i[R] + 1].mask \in Nat
        BY <2>6 DEF Packages26, data_package_size
      <4> QED
        BY <1>1, <2>3, <2>7, <4>1
    <3>2. i'[R] = i[R] + 1 /\ i'[R] - 1 = i[R] /\ i[R] \in Nat
      BY <1>1, <1>3
    <3> QED
      BY <2>8, <3>1, <3>2 DEF data_package_size
  <2>10. ASSUME NEW p \in 1 .. i'[R] PROVE packages'[R][p - 1] = received[p].data
    <3>1. i[R] \in 0 .. 2
      BY <1>1, Parties, CallTakes
    <3>2. packages'[R] = [packages[R] EXCEPT ![i[R]] = received[i[R] + 1].data]
      BY <1>1, <2>3, Parties DEF ArraysInv
    <3>3. CASE p = i'[R]
      <4>1. p - 1 = i[R] /\ p = i[R] + 1
        BY <1>1, <2>5, <3>3
      <4> QED
        BY <3>1, <3>2, <4>1, Parties DEF ArraysInv
    <3>4. CASE p # i'[R]
      <4>1. p \in 1 .. i[R] /\ p - 1 \in 0 .. 2 /\ p - 1 # i[R]
        BY <1>1, <3>1, <3>4
      <4>2. packages[R][p - 1] = received[p].data
        BY <2>2, <4>1 DEF Taken
      <4>3. packages'[R][p - 1] = packages[R][p - 1]
        BY <3>2, <4>1, Parties DEF ArraysInv
      <4> QED
        BY <4>2, <4>3
    <3> QED
      BY <3>3, <3>4
  <2>11. Taken(received)'
    BY <2>5, <2>9, <2>10 DEF Taken
  <2>12. rx_fifo'[R] = SubSeq(received, i'[R] + 1, Len(received))
    <3>1. i'[R] + 1 = i[R] + 2
      BY <1>1, <1>3
    <3> QED
      BY <2>3, <3>1
  <2> QED
    BY <1>1, <1>5, <2>11, <2>12 DEF Holds
<1>6. HearsTold => HearsTold'
  BY <1>1, <1>2, <1>3, <1>4, <1>5 DEF HearsTold
<1>7. HandleAgreed' /\ ToldIsSent'
  BY <1>1, <1>2, <1>3 DEF HandleInv, ReaderInv, HandleAgreed, ToldIsSent, R
<1> QED
  BY <1>1, <1>2, <1>3, <1>6, <1>7 DEF HandleInv, ReaderInv

\* The reader finds the end of a command.
LEMMA ReaderEnds ==
  ASSUME IInv, HandleInv, ReceivedEop(R)
  PROVE  ReaderInv'
<1>1. /\ setup' = setup /\ said' = said /\ heard' = heard /\ on_air' = on_air
      /\ handle' = handle /\ missed' = missed /\ rx_fifo[R] # <<>>
      /\ pc[R] = "receiving" /\ pc'[R] = "received" /\ i' = i /\ packages' = packages
      /\ command_size' = command_size
      /\ rx_fifo'[R] = Tail(rx_fifo[R]) /\ Head(rx_fifo[R]).data = {}
  BY Parties DEF ReceivedEop, IInv, TypeInv, setup_vars, line_vars, call_vars, kept, history
<1>2. S' = S /\ Told' = Told /\ Turn' = Turn
  BY <1>1 DEF S, R, Listener, Told, Turn, HandleToSend
<1>3. on_air[S] = <<>> /\ i[R] \in Nat
  BY <1>1, Parties, ReaderTakes DEF IInv, TypeInv
<1>4. CutOff(R) => TookFull(R)'
  BY <1>1 DEF CutOff, Waits, TookFull
<1>5. ASSUME NEW received \in Heard(Told), Holds(received)
      PROVE  TookFull(R)' \/ Holds(received)'
  <2>1. received \in Seq(Packages26) /\ Len(received) \in Nat
    BY ToldIsHeard
  <2>2. Taken(received) /\ i[R] \in 0 .. Len(received) - 1
    BY <1>1, <1>5 DEF Holds, Taken
  <2>3. Taken(received)'
    BY <1>1, <2>2 DEF Taken
  <2>4. CASE i[R] = Len(received) - 1
    BY <1>1, <2>3, <2>4 DEF Holds
  <2>5. CASE i[R] # Len(received) - 1
    BY <1>1, <2>2, <2>5 DEF Taken, TookFull
  <2> QED
    BY <2>4, <2>5
<1>6. HearsTold => HearsTold'
  BY <1>1, <1>2, <1>3, <1>4, <1>5 DEF HearsTold
<1>7. HandleAgreed' /\ ToldIsSent'
  BY <1>1, <1>2 DEF HandleInv, ReaderInv, HandleAgreed, ToldIsSent, R
<1> QED
  BY <1>1, <1>2, <1>6, <1>7 DEF HandleInv, ReaderInv

\* What the reader accepts when it is its turn is all of the command that matters.
LEMMA AcceptsTold ==
  ASSUME IInv, HandleInv, CheckCommand(R), said[S] = Turn
  PROVE  \E received \in Heard(Told) : Taken(received) /\ i[R] = Len(received) - 1
<1>1. pc[R] = "received" /\ said[S] > heard[R] /\ on_air[S] = <<>>
  BY Parties, TurnToHear DEF S, CheckCommand
<1>2. at[R] \in 1 .. Len(Program(R)) /\ at[R] \notin SendSteps(R) /\ setup \in Setups
  BY <1>1, Parties DEF IInv, TypeInv, ScriptInv, Busy
<1>3. rfid_check_command(ZeroTable, packages[R], command_size[R]) # NoLabel
  BY <1>2, Parties, StepKinds DEF CheckCommand
<1>4. ~TookFull(R)
  <2>1. i[R] \in Nat
    BY Parties DEF IInv, TypeInv
  <2> QED
    BY <1>3, <2>1, FullPackagesHaveNoLabel DEF TookFull
<1>5. ~CutOff(R)
  BY <1>1 DEF CutOff, Waits
<1>6. HearsTold
  BY <1>1 DEF HandleInv, ReaderInv
<1> QED
  BY <1>1, <1>4, <1>5, <1>6 DEF HearsTold, Holds

\* A reader that hears itself accepts nothing.
LEMMA NotItself ==
  ASSUME IInv, HandleInv, CheckCommand(R), setup.loopback
  PROVE  setup.main[R] # "reader"
<1> SUFFICES ASSUME setup.main[R] = "reader" PROVE FALSE
  OBVIOUS
<1>1. S = R /\ Turn = 1
  BY Parties DEF R, Turn
<1>2. heard[R] = 0 /\ said[R] = 1
  <2>1. heard[R] = 0
    BY DEF HandleInv, ReaderInv
  <2>2. said[R] > heard[R]
    BY <1>1, Parties, TurnToHear DEF S
  <2> QED
    BY <1>1, <2>1, <2>2, OneBehind
<1>3. at[R] = 2
  <2>1. pc[R] = "received" /\ at[R] \notin SendSteps(R) /\ at[R] \in 1 .. 13
    BY Parties DEF CheckCommand, IInv, TypeInv, ScriptInv
  <2> QED
    BY <1>2, <2>1, Parties DEF HandleInv, CountInv
<1>4. rfid_check_command(ZeroTable, packages[R], command_size[R]) = "rn16"
  BY <1>3 DEF CheckCommand, Step, Program, reader, receive
<1>5. PICK received \in Heard(Told) : Taken(received) /\ i[R] = Len(received) - 1
  BY <1>1, <1>2, AcceptsTold
<1>6. Len(received) = 2 /\ received[1].mask \in {22, 23}
  BY <1>1, ToldIsHeard DEF QUERY_SIZE
<1>7. command_size[R] \in {22, 23}
  BY <1>5, <1>6 DEF Taken, data_package_size
<1>8. ~rn16_validate(command_size[R])
  BY <1>7 DEF rn16_validate, HasSize, RN16_SIZE
<1> QED
  BY <1>4, <1>8 DEF rfid_check_command, NoLabel

\* A board that runs nothing says nothing.
LEMMA NobodySays ==
  ASSUME IInv, HandleInv, setup.main["tag"] = "none"
  PROVE  said["tag"] = 0
<1>1. "tag" \in Boards /\ 1 \in SendSteps("tag")
  BY DEF Boards, SendSteps
<1>2. pc["tag"] = "off" /\ at["tag"] = 1 /\ said["tag"] \in Nat
  BY <1>1 DEF IInv, TypeInv, ScriptInv
<1>3. 2 * said["tag"] = 0
  BY <1>1, <1>2 DEF HandleInv, CountInv
<1> QED
  BY <1>2, <1>3

\* When the last command is accepted, its packages are those of the handle.
LEMMA LastIsHandle ==
  ASSUME IInv, HandleInv, CheckCommand(R), at[R] = Len(Program(R))
  PROVE  HandleOf(packages[R])
           = HandleToSend(IF setup.main["reader"] = "reader" THEN "tag" ELSE "reader")
<1>1. said[S] = heard[R] + 1 /\ said[S] \in Nat /\ heard[R] \in Nat
  <2>1. said[S] > heard[R]
    BY Parties, TurnToHear DEF S
  <2> QED
    BY <2>1, OneBehind
<1>2. pc[R] = "received" /\ at[R] \notin SendSteps(R) /\ setup.main[R] # "none"
  BY Parties DEF CheckCommand, IInv, ScriptInv
<1>3. said[R] = heard[R] + 1 /\ said[R] \in Nat
  BY <1>2, Parties DEF IInv, TypeInv, ScriptInv
<1>4. 2 * said[R] = at[R]
  BY <1>2, Parties DEF HandleInv, CountInv
<1>5. /\ said[S] = Turn /\ setup.main[S] # "reader"
      /\ S = IF setup.main["reader"] = "reader" THEN "tag" ELSE "reader"
  <2>1. CASE setup.main[R] = "reader"
    <3>1. Len(Program(R)) = 6
      BY <2>1 DEF Program, reader
    <3>2. said[S] = 3
      BY <1>1, <1>3, <1>4, <3>1
    <3>3. ~setup.loopback /\ S = "tag"
      BY <2>1, Parties, NotItself
    <3>4. setup.main["tag"] = "tag"
      BY <3>2, <3>3, Parties, NobodySays
    <3> QED
      BY <2>1, <3>2, <3>3, <3>4 DEF Turn, R
  <2>2. CASE setup.main[R] = "loopback_handshake"
    <3>1. Len(Program(R)) = 12
      BY <2>2 DEF Program, loopback_handshake
    <3>2. said[S] = 6
      BY <1>1, <1>3, <1>4, <3>1
    <3>3. setup.loopback /\ S = R
      <4>1. setup.main["tag"] = "none"
        BY <2>2, Parties, HandshakeAssumption DEF R
      <4> QED
        BY <3>2, <4>1, Parties, NobodySays DEF R
    <3> QED
      BY <2>2, <3>2, <3>3 DEF Turn, R
  <2> QED
    BY <1>2, <2>1, <2>2, Parties
<1>6. PICK received \in Heard(Told) : Taken(received) /\ i[R] = Len(received) - 1
  BY <1>5, AcceptsTold
<1>7. /\ Len(received) = 3
      /\ Field(received[2].data, 6, 10) \cup ExtractField(received[1].data, 10, 16)
           = HandleToSend(S)
  BY <1>5, HandleComesBack
<1>8. packages[R][0] = received[1].data /\ packages[R][1] = received[2].data
  <2>1. 1 \in 1 .. i[R] /\ 2 \in 1 .. i[R] /\ 1 - 1 = 0 /\ 2 - 1 = 1
    BY <1>6, <1>7
  <2> QED
    BY <1>6, <2>1 DEF Taken
<1> QED
  BY <1>5, <1>7, <1>8 DEF HandleOf

LEMMA ReaderAccepts ==
  ASSUME IInv, ArraysInv, HandleInv, CheckCommand(R)
  PROVE  ReaderInv'
<1>1. /\ setup' = setup /\ said' = said /\ on_air' = on_air /\ missed' = missed
      /\ heard'[R] = heard[R] + 1
      /\ pc'[R] = IF at[R] = Len(Program(R)) THEN "done" ELSE "step"
      /\ handle'[R] = IF at[R] = Len(Program(R)) THEN HandleOf(packages[R]) ELSE handle[R]
  BY Parties DEF ArraysInv, CheckCommand, NextStep, IInv, TypeInv, setup_vars, line_vars
<1>2. S' = S /\ Told' = Told /\ Turn' = Turn
  BY <1>1 DEF S, R, Listener, Told, Turn, HandleToSend
<1>3. ~(said'[S] > heard'[R]) /\ pc'[R] # "receiving"
  BY <1>1, OneBehind
<1>4. HandleAgreed'
  BY <1>1, LastIsHandle DEF HandleAgreed, HandleToSend, R
<1>5. ToldIsSent'
  BY <1>1, <1>2 DEF HandleInv, ReaderInv, ToldIsSent
<1>6. ~(setup.loopback /\ setup.main[R] = "reader")
  BY NotItself
<1> QED
  BY <1>1, <1>2, <1>3, <1>4, <1>5, <1>6 DEF HandleInv, ReaderInv

LEMMA ReaderGivesUp ==
  ASSUME IInv, HandleInv, WrongCommand(R)
  PROVE  ReaderInv'
<1>1. /\ setup' = setup /\ said' = said /\ heard' = heard /\ on_air' = on_air
      /\ missed' = missed /\ pc'[R] = "exited"
  BY Parties DEF WrongCommand, IInv, TypeInv, setup_vars, line_vars, history
<1>2. S' = S /\ Told' = Told /\ Turn' = Turn
  BY <1>1 DEF S, R, Listener, Told, Turn, HandleToSend
<1> QED
  BY <1>1, <1>2 DEF HandleInv, ReaderInv, HearsTold, HandleAgreed, ToldIsSent, R

\* What another board does, and the line to another board.
LEMMA OthersKeep ==
  ASSUME IInv, ArraysInv, HandleInv, NEW c \in Boards, c # R, Main(c), ~SendCommand(S)
  PROVE  ReaderInv'
<1> USE DEF IInv, TypeInv, setup_vars, line_vars, call_vars, kept, history
<1>1. R \in Boards /\ S \in Boards /\ S \in {R, "tag"}
  BY Parties DEF R
<1>2. pc'[R] = pc[R] /\ heard'[R] = heard[R] /\ rx_fifo'[R] = rx_fifo[R] /\ setup' = setup
  BY <1>1 DEF Main, SendCommand, SendReturns, GetPackage, StorePackage, ReceivedEop,
       CheckCommand, WrongCommand, NextStep
<1>3. i'[R] = i[R] /\ command_size'[R] = command_size[R] /\ missed' = missed
  BY <1>1 DEF Main, SendCommand, SendReturns, GetPackage, StorePackage, ReceivedEop,
       CheckCommand, WrongCommand
<1>4. said'[S] = said[S] /\ on_air'[S] = on_air[S]
  BY <1>1 DEF Main, SendCommand, SendReturns, GetPackage, StorePackage, ReceivedEop,
       CheckCommand, WrongCommand
<1>5. packages'[R] = packages[R] /\ handle'[R] = handle[R]
  BY <1>1 DEF ArraysInv, Main, SendCommand, SendReturns, GetPackage, StorePackage, ReceivedEop,
       CheckCommand, WrongCommand
<1>6. ~missed'[R]
  BY <1>3 DEF HandleInv, ReaderInv
<1> QED
  BY <1>2, <1>3, <1>4, <1>5, <1>6, ReaderUntouched DEF HandleInv

LEMMA OtherLineKeeps ==
  ASSUME IInv, HandleInv, NEW c \in Boards, c # S, Line(c)
  PROVE  ReaderInv'
<1>1. R \in Boards /\ S \in Boards /\ Listener(c) \in Boards /\ Listener(c) # R
  BY Parties, Listeners
<1>2. /\ setup' = setup /\ pc' = pc /\ said' = said /\ heard' = heard /\ i' = i
      /\ packages' = packages /\ command_size' = command_size /\ handle' = handle
  BY DEF Line, Arrive, ArriveUnheard, ArriveDamaged, ArriveLate, setup_vars, call_vars, kept,
       history
<1>3. on_air'[S] = on_air[S]
  BY <1>1 DEF Line, Arrive, ArriveUnheard, ArriveDamaged, ArriveLate, Sent, IInv, TypeInv
<1>4. rx_fifo'[R] = rx_fifo[R] /\ missed'[R] = missed[R]
  BY <1>1 DEF Line, Arrive, ArriveUnheard, ArriveDamaged, ArriveLate, Stores, setup_vars,
       IInv, TypeInv
<1>5. ~missed'[R]
  BY <1>4 DEF HandleInv, ReaderInv
<1> QED
  BY <1>2, <1>3, <1>4, <1>5, ReaderUntouched DEF HandleInv

LEMMA ReaderStep ==
  ASSUME IInv, CallsInv, ArraysInv, HandleInv, [Next]_vars
  PROVE  ReaderInv'
<1>1. CASE UNCHANGED vars
  <2>1. /\ setup' = setup /\ pc' = pc /\ said' = said /\ heard' = heard /\ i' = i
        /\ packages' = packages /\ command_size' = command_size /\ handle' = handle
        /\ on_air' = on_air /\ rx_fifo' = rx_fifo /\ missed' = missed
    BY <1>1 DEF vars, setup_vars, line_vars, call_vars, kept, history
  <2> QED
    BY <2>1, ReaderUntouched DEF HandleInv, ReaderInv
<1>2. ASSUME NEW c \in Boards, Launch(c) PROVE ReaderInv'
  BY <1>2, ReaderLaunch
<1>3. ASSUME NEW c \in Boards, Main(c), c # R PROVE ReaderInv'
  BY <1>3, ReaderIsTold, OthersKeep
<1>4. CASE Main(R)
  <2>1. CASE SendCommand(R) /\ S # R
    <3>1. /\ setup' = setup /\ heard' = heard /\ i' = i /\ missed' = missed
          /\ packages' = packages /\ command_size' = command_size /\ handle' = handle
          /\ rx_fifo' = rx_fifo /\ said'[S] = said[S] /\ on_air'[S] = on_air[S]
          /\ pc[R] = "step" /\ pc'[R] = "sending"
      BY <2>1, Parties DEF SendCommand, IInv, TypeInv, setup_vars, call_vars, kept
    <3> QED
      BY <3>1, ReaderUntouched DEF HandleInv, ReaderInv
  <2>2. CASE SendCommand(R) /\ S = R
    BY <2>2, ReaderIsTold
  <2> QED
    BY <1>4, <2>1, <2>2, ReaderReturns, ReaderGets, ReaderStores, ReaderEnds, ReaderAccepts,
       ReaderGivesUp DEF Main
<1>5. ASSUME NEW c \in Boards, Line(c) PROVE ReaderInv'
  BY <1>5, ReaderHears, OtherLineKeeps
<1> QED
  BY <1>1, <1>2, <1>3, <1>4, <1>5 DEF Next

\* A reader that is done holds the handle that was sent, whatever the set-up, whichever
\* symbols were refused and however late a board was launched.  (A bit that arrives flipped is
\* not among the faults of Handshake.)
THEOREM HandleIsAgreed == Spec => []HandleAgreed
<1>1. Init => ArraysInv /\ HandleInv
  <2> SUFFICES ASSUME Init PROVE ArraysInv /\ HandleInv
    OBVIOUS
  <2>1. R \in Boards /\ S \in Boards
    BY InitIInv, Parties
  <2>2. ArraysInv
    BY DEF Init, ArraysInv
  <2>3. \A b \in Boards : CountInv(b)
    BY DEF Init, CountInv, SendSteps
  <2>4. ReaderInv
    BY <2>1 DEF Init, ReaderInv, ToldIsSent, HandleAgreed, Boards
  <2> QED
    BY <2>2, <2>3, <2>4 DEF HandleInv
<1>2. IInv /\ CallsInv /\ ArraysInv /\ HandleInv /\ [Next]_vars => ArraysInv' /\ HandleInv'
  BY ArraysStep, CountStep, ReaderStep DEF HandleInv
<1>3. HandleInv => HandleAgreed
  BY DEF HandleInv, ReaderInv
<1> QED
  BY <1>1, <1>2, <1>3, Invariant, CallsEnd, PTL DEF Spec
=============================================================================
