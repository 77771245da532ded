------------------------------- MODULE Exchange -------------------------------
(***************************************************************************)
(* A program that builds a command, sends it, receives what comes back and *)
(* labels it, again and again: test_individual_commands_loopback.c with    *)
(* any command, one after another.                                         *)
(***************************************************************************)
EXTENDS Transfer

CONSTANTS Fields,     \* [name of a field or a builder -> arguments that the program gives it]
          InitCalled, \* may main have called crc_16_ccitt_init?
          Damaged,    \* the commands of which a bit may be flipped on the line
          Garbage,    \* what an array on the stack may hold before it is written
          MaxLeft     \* bound: packages left in the receiver's FIFO

ASSUME ExchangeAssumption == InitCalled \subseteq BOOLEAN /\ Damaged \subseteq Labels

\* main gives each field values of its width; a builder of several fields, any combination.
ASSUME FieldsAssumption ==
  /\ Fields.rn \subseteq SUBSET Bits(16)
  /\ Fields.session \subseteq SUBSET Bits(2) /\ Fields.updn \subseteq SUBSET Bits(3)
  /\ Fields.query \subseteq
       [dr : SUBSET Bits(1), m : SUBSET Bits(2), trext : SUBSET Bits(1), sel : SUBSET Bits(2),
        session : SUBSET Bits(2), target : SUBSET Bits(1), q : SUBSET Bits(4)]
  /\ Fields.kill \subseteq
       [password : SUBSET Bits(16), rfu : SUBSET Bits(3), rn : SUBSET Bits(16), crc : SUBSET Bits(16)]
  /\ Fields.lock \subseteq [payload : SUBSET Bits(20), rn : SUBSET Bits(16), crc : SUBSET Bits(16)]
  /\ Fields.read \subseteq
       [mem_bank : SUBSET Bits(2), word_ptr : SUBSET Bits(8), word_count : SUBSET Bits(8),
        rn : SUBSET Bits(16), crc : SUBSET Bits(16)]
  /\ Fields.write \subseteq
       [mem_bank : SUBSET Bits(2), word_ptr : SUBSET Bits(8), data : SUBSET Bits(16),
        rn : SUBSET Bits(16), crc : SUBSET Bits(16)]
  /\ Fields.select \subseteq
       [target : SUBSET Bits(3), action : SUBSET Bits(3), mem_bank : SUBSET Bits(2),
        pointer : SUBSET Bits(8), length : SUBSET Bits(8), mask : SUBSET Bits(8),
        truncate : SUBSET Bits(1), crc : SUBSET Bits(16)]

VARIABLES
  initialised,        \* has crc_table been filled?
  pc,
  name, cmd,          \* the command that main built
  rx_fifo,            \* packages that have come back
  quant_packages, packages, i, command_size, \* of receiver_get_package
  label,
  damaged, lossless   \* history: a bit of cmd was flipped; no package of zeros was sent

call_vars == <<quant_packages, packages, i, command_size>>
history == <<damaged, lossless>>
vars == <<initialised, pc, name, cmd, rx_fifo, call_vars, label, history>>

crc_table == IF initialised THEN FilledTable ELSE ZeroTable

\* What main may build, with the arguments in Fields.
Built(n) ==
  LET F == Fields
  IN CASE n = "ack" -> {ack_build(rn) : rn \in F.rn}
       [] n = "nak" -> {nak_build}
       [] n = "query" -> {query_build(a.dr, a.m, a.trext, a.sel, a.session, a.target, a.q) :
                            a \in F.query}
       [] n = "query_adjust" -> {query_adjust_command(session, updn) :
                                   session \in F.session, updn \in F.updn}
       [] n = "query_rep" -> {query_rep_build(session) : session \in F.session}
       [] n = "req_rn" -> {req_rn_build(crc_table, rn) : rn \in F.rn}
       [] n = "rn16" -> {rn16_build}
       [] n = "rn_crc" -> {rn_crc_build(crc_table, rn) : rn \in F.rn}
       [] n = "kill" -> UNION {kill_build(a.password, a.rfu, a.rn, a.crc) : a \in F.kill}
       [] n = "lock" -> UNION {lock_build(a.payload, a.rn, a.crc) : a \in F.lock}
       [] n = "read" -> UNION {read_build(a.mem_bank, a.word_ptr, a.word_count, a.rn, a.crc) :
                                 a \in F.read}
       [] n = "write" -> UNION {write_build(a.mem_bank, a.word_ptr, a.data, a.rn, a.crc) :
                                  a \in F.write}
       [] n = "select" -> UNION {select_build(a.target, a.action, a.mem_bank, a.pointer, a.length,
                                              a.mask, a.truncate, a.crc) : a \in F.select}

Init ==
  /\ initialised \in InitCalled
  /\ pc = "main" /\ name = "nak" /\ cmd = nak_build
  /\ rx_fifo = <<>>
  /\ quant_packages = 1 /\ packages = [p \in 0 .. 3 |-> {}] /\ i = 0 /\ command_size = 0
  /\ label = NoLabel
  /\ damaged = FALSE /\ lossless = TRUE

Build ==
  /\ pc = "main" /\ pc' = "built" /\ Len(rx_fifo) <= MaxLeft
  /\ name' \in Labels /\ cmd' \in Built(name')
  /\ UNCHANGED <<initialised, rx_fifo, call_vars, label, history>>

SendCommand ==
  /\ pc = "built" /\ pc' = "sent"
  /\ \E received \in Heard(cmd) :
       /\ rx_fifo' = rx_fifo \o received
       /\ lossless' = (lossless /\ ~HasZeroPackage(received))
  /\ UNCHANGED <<initialised, name, cmd, call_vars, label, damaged>>

\* A bit of the command is taken for the other one by the receiver.
SendCommandDamaged ==
  /\ pc = "built" /\ pc' = "sent" /\ name \in Damaged
  /\ \E bit \in Bits(cmd.size) :
       LET flipped == [cmd EXCEPT !.result_data = ExclusiveOr(@, {bit})]
       IN \E received \in Heard(flipped) :
            /\ rx_fifo' = rx_fifo \o received
            /\ lossless' = (lossless /\ ~HasZeroPackage(received))
  /\ damaged' = TRUE
  /\ UNCHANGED <<initialised, name, cmd, call_vars, label>>

\* The array has quant_packages words; what follows them on the stack is shown.
GetPackage ==
  /\ pc = "sent" /\ pc' = "receive"
  /\ quant_packages' \in 1 .. 3
  /\ packages' \in {[p \in 0 .. 3 |-> g] : g \in Garbage}
  /\ i' = 0 /\ command_size' = 0
  /\ UNCHANGED <<initialised, name, cmd, rx_fifo, label, history>>

\* Mutant of StorePackage: the length of the array is not checked.
StorePackageAnyway ==
  /\ pc = "receive" /\ rx_fifo # <<>> /\ Head(rx_fifo).data # {}
  /\ rx_fifo' = Tail(rx_fifo)
  /\ packages' = [packages EXCEPT ![i] = Head(rx_fifo).data]
  /\ command_size' = command_size + Head(rx_fifo).mask
  /\ i' = i + 1
  /\ UNCHANGED <<initialised, pc, name, cmd, quant_packages, label, history>>

StorePackage ==
  /\ pc = "receive" /\ rx_fifo # <<>> /\ Head(rx_fifo).data # {}
  /\ rx_fifo' = Tail(rx_fifo)
  /\ packages' = [packages EXCEPT ![i] = Head(rx_fifo).data]
  /\ command_size' = command_size + Head(rx_fifo).mask
  /\ i' = i + 1
  /\ pc' = IF i' > quant_packages THEN "exited" ELSE "receive"
  /\ UNCHANGED <<initialised, name, cmd, quant_packages, label, history>>

\* Mutant of ReceivedEop: the void package is left in the FIFO.
ReceivedEopUnread ==
  /\ pc = "receive" /\ rx_fifo # <<>> /\ Head(rx_fifo).data = {}
  /\ pc' = "received"
  /\ UNCHANGED <<initialised, name, cmd, rx_fifo, call_vars, label, history>>

\* Mutant of ReceivedEop: a package of zeros is no end, but is not stored either.
ReceivedEopOfVoid ==
  /\ pc = "receive" /\ rx_fifo # <<>> /\ Head(rx_fifo) = eop
  /\ rx_fifo' = Tail(rx_fifo)
  /\ pc' = "received"
  /\ UNCHANGED <<initialised, name, cmd, call_vars, label, history>>

ReceivedEop ==
  /\ pc = "receive" /\ rx_fifo # <<>> /\ Head(rx_fifo).data = {}
  /\ rx_fifo' = Tail(rx_fifo)
  /\ pc' = "received"
  /\ UNCHANGED <<initialised, name, cmd, call_vars, label, history>>

CheckCommand ==
  /\ pc = "received" /\ pc' = "labelled"
  /\ label' = rfid_check_command(crc_table, packages, command_size)
  /\ UNCHANGED <<initialised, name, cmd, rx_fifo, call_vars, history>>

\* Nothing of the last turn is kept but what is in the FIFO.
Again ==
  /\ pc = "labelled" /\ pc' = "main"
  /\ name' = "nak" /\ cmd' = nak_build /\ label' = NoLabel /\ damaged' = FALSE
  /\ quant_packages' = 1 /\ packages' = [p \in 0 .. 3 |-> {}] /\ i' = 0 /\ command_size' = 0
  /\ UNCHANGED <<initialised, rx_fifo, lossless>>

Next ==
  \/ Build \/ SendCommand \/ SendCommandDamaged
  \/ GetPackage \/ StorePackage \/ ReceivedEop \/ CheckCommand \/ Again

Spec == Init /\ [][Next]_vars /\ WF_vars(Next)

-----------------------------------------------------------------------------
TypeOK ==
  /\ initialised \in BOOLEAN /\ damaged \in BOOLEAN /\ lossless \in BOOLEAN
  /\ pc \in {"main", "built", "sent", "receive", "received", "labelled", "exited"}
  /\ name \in Labels /\ label \in Labels \cup {NoLabel}
  /\ cmd.result_data \subseteq Bits(64)
  /\ i \in 0 .. quant_packages + 1 /\ quant_packages \in 1 .. 3

\* The commands that the documentation calls functional.
Functional == {"ack", "nak", "query", "query_adjust", "query_rep", "req_rn", "rn16", "rn_crc"}

\* req_rn_validate checks the CRC of a number whose upper bits it does not have.
UpperBitsMissed == initialised /\ name = "req_rn" /\ cmd.result_data \cap 26 .. 31 # {}

\* As long as no command with a package of zeros has been sent, a functional command
\* that comes back with the same bits, with a 1 too many or not, is recognised, whatever
\* the unwritten words of the array hold: all but the Req_RN of UpperBitsMissed, which
\* never is.
RecognisedAsBuilt ==
  pc = "labelled" /\ lossless /\ ~damaged /\ name \in Functional
    => (label = name <=> ~UpperBitsMissed)

\* No command, with the shifts of the other builders undone or not, is taken
\* for a command of another kind: rfid_check_command is right or says -1.
NeverMislabelled ==
  pc = "labelled" /\ lossless /\ ~damaged => label \in {name, NoLabel}

\* A call of receiver_get_package takes a whole command from the FIFO, so that the next
\* call starts at the next command, until a command has a package of zeros.  That one ends
\* its call, and from then on program and receiver are never in step again: every call
\* starts in what an earlier command has left.  (The documentation of the hardware ends a
\* command by the void package only.)
NothingLeftBehind == pc = "main" => (rx_fifo = <<>> <=> lossless)

\* The documentation of crc.c and the validators: a command that carries a CRC
\* and lost a bit on the line is not accepted as what it was.
DamageIsRefused ==
  pc = "labelled" /\ lossless /\ damaged /\ name \in {"query", "req_rn", "rn_crc"}
    => label # name

\* crc5 never reads its argument: a query is recognised by its size, its code and five bits
\* that are always the same.  Damage to these is noticed, and damage to its fields never.
OnlyCodeAndCrcOfQuery ==
  pc = "labelled" /\ lossless /\ damaged /\ name = "query"
    => (label = name <=>
          \A bit \in 0 .. 4 \cup 18 .. 21 : bit \in packages[0] <=> bit \in cmd.result_data)

\* With crc_table filled an rn_crc does lose its label with any flipped bit.
\* (A req_rn does not: the upper bits of its number are not checked.)
FilledTableRefusesDamage == initialised /\ name = "rn_crc" => DamageIsRefused

\* Long division of a message, most significant bit first, by the polynomial:
\* what crc_16_ccitt is to compute byte by byte from the table.
Remainder(bits) ==
  LET left[n \in 0 .. Len(bits)] ==
        IF n = 0 THEN INITIAL_REMAINDER_16
        ELSE DivideBit16[ExclusiveOr(left[n - 1], IF bits[n] = 1 THEN {15} ELSE {})]
  IN left[Len(bits)]

\* The first byte of a message is its lowest.
BytesOf(message) ==
  [k \in 1 .. 24 |-> IF 8 * ((k - 1) \div 8) + (7 - ((k - 1) % 8)) \in message THEN 1 ELSE 0]

\* The table-driven CRC is the remainder of the long division, for the first
\* three bytes of every command that is built.
CrcIsRemainder ==
  pc = "built" =>
    crc_16_ccitt(FilledTable, Low(cmd.result_data, 24), 3)
      = Remainder(BytesOf(Low(cmd.result_data, 24)))

\* Every command that is sent gets a label, or main gives up on an array that
\* is too small: receiver_get_package always finds an end.
EveryCommandIsLabelled == pc = "sent" ~> pc \in {"labelled", "exited"}
=============================================================================
