--------------------------- MODULE Exchange_proofs ---------------------------
(***************************************************************************)
(* Theorems of Exchange for every argument of the builders, either table,  *)
(* every content of the stack and every damage on the line: as long as no  *)
(* package of zeros is sent, and no longer, receiver_get_package takes     *)
(* whole commands, rfid_check_command gives a command its own label or     *)
(* none, a wrong bit of an rn_crc is noticed, and one in the fields of a   *)
(* query is not.                                                           *)
(***************************************************************************)
EXTENDS Exchange, Transfer_proofs

-----------------------------------------------------------------------------
(* What main may build.                                                    *)

LEMMA BuiltShort ==
  ASSUME NEW n, NEW c \in Built(n)
  PROVE  /\ n = "ack" => \E rn \in SUBSET Bits(16) : c = ack_build(rn)
         /\ n = "nak" => c = nak_build
         /\ n = "query" =>
              \E dr \in SUBSET Bits(1), m \in SUBSET Bits(2), trext \in SUBSET Bits(1),
                 sel \in SUBSET Bits(2), session \in SUBSET Bits(2), target \in SUBSET Bits(1),
                 q \in SUBSET Bits(4) : c = query_build(dr, m, trext, sel, session, target, q)
         /\ n = "query_adjust" => \E session \in SUBSET Bits(2), updn \in SUBSET Bits(3) :
                                     c = query_adjust_command(session, updn)
         /\ n = "query_rep" => \E session \in SUBSET Bits(2) : c = query_rep_build(session)
         /\ n = "req_rn" => \E rn \in SUBSET Bits(16) : c = req_rn_build(crc_table, rn)
         /\ n = "rn16" => c = rn16_build
         /\ n = "rn_crc" => \E rn \in SUBSET Bits(16) : c = rn_crc_build(crc_table, rn)
BY FieldsAssumption DEF Built

LEMMA BuiltLong ==
  ASSUME NEW n, NEW c \in Built(n)
  PROVE  /\ n = "kill" => \E d \in FullOrEmpty : c = command(d, 59)
         /\ n = "lock" => \E d \in FullOrEmpty : c = command(d, 60)
         /\ n = "read" => \E d \in FullOrEmpty : c = command(d, 57)
         /\ n = "write" => \E d \in FullOrEmpty : c = command(d, 58)
         /\ n = "select" => \E d \in FullOrEmpty : c = command(d, 44)
<1>1. ASSUME n = "kill" PROVE \E d \in FullOrEmpty : c = command(d, 59)
  <2>1. PICK a \in Fields.kill :
          c \in kill_build(a.password, a.rfu, a.rn, a.crc)
    BY <1>1 DEF Built
  <2>2. a.rn \in SUBSET Bits(16) /\ a.crc \in SUBSET Bits(16)
    BY FieldsAssumption
  <2> QED
    BY <2>1, <2>2, KillIsFullOrEmpty
<1>2. ASSUME n = "lock" PROVE \E d \in FullOrEmpty : c = command(d, 60)
  <2>1. PICK a \in Fields.lock :
          c \in lock_build(a.payload, a.rn, a.crc)
    BY <1>2 DEF Built
  <2>2. a.rn \in SUBSET Bits(16) /\ a.crc \in SUBSET Bits(16)
    BY FieldsAssumption
  <2> QED
    BY <2>1, <2>2, LockIsFullOrEmpty
<1>3. ASSUME n = "read" PROVE \E d \in FullOrEmpty : c = command(d, 57)
  <2>1. PICK a \in Fields.read :
          c \in read_build(a.mem_bank, a.word_ptr, a.word_count, a.rn, a.crc)
    BY <1>3 DEF Built
  <2>2. a.rn \in SUBSET Bits(16) /\ a.crc \in SUBSET Bits(16)
    BY FieldsAssumption
  <2> QED
    BY <2>1, <2>2, ReadIsFullOrEmpty
<1>4. ASSUME n = "write" PROVE \E d \in FullOrEmpty : c = command(d, 58)
  <2>1. PICK a \in Fields.write :
          c \in write_build(a.mem_bank, a.word_ptr, a.data, a.rn, a.crc)
    BY <1>4 DEF Built
  <2>2. a.rn \in SUBSET Bits(16) /\ a.crc \in SUBSET Bits(16)
    BY FieldsAssumption
  <2> QED
    BY <2>1, <2>2, WriteIsFullOrEmpty
<1>5. ASSUME n = "select" PROVE \E d \in FullOrEmpty : c = command(d, 44)
  <2>1. PICK a \in Fields.select :
          c \in select_build(a.target, a.action, a.mem_bank, a.pointer, a.length, a.mask,
                            a.truncate, a.crc)
    BY <1>5 DEF Built
  <2>2. /\ a.pointer \in SUBSET Bits(8) /\ a.length \in SUBSET Bits(8) /\ a.mask \in SUBSET Bits(8)
        /\ a.truncate \in SUBSET Bits(1) /\ a.crc \in SUBSET Bits(16)
    BY FieldsAssumption
  <2> QED
    BY <2>1, <2>2, SelectIsFullOrEmpty
<1> QED
  BY <1>1, <1>2, <1>3, <1>4, <1>5

\* Fields that lie in a word of 64 bits.
LEMMA InWord ==
  ASSUME NEW width \in Nat, NEW place \in Nat, width + place <= 64
  PROVE  /\ \A w : Field(w, width, place) \in SUBSET Bits(64)
         /\ \A w : place = 0 => Low(w, width) \in SUBSET Bits(64)
         /\ \A w \in SUBSET Bits(width) : LeftShift(w, place) \in SUBSET Bits(64)
BY DEF Field, Low, LeftShift, Bits

LEMMA TableType == crc_table \in Tables
BY FilledTableDivides, ZeroTableType DEF crc_table

LEMMA BuiltType ==
  ASSUME NEW n \in Labels, NEW c \in Built(n)
  PROVE  c.size \in Nat /\ c.result_data \in SUBSET Bits(64)
<1>1. CASE n = "ack"
  <2>1. PICK rn : c = ack_build(rn)
    BY <1>1, BuiltShort
  <2>2. Field({0}, 2, 16) \in SUBSET Bits(64) /\ Low(rn, 16) \in SUBSET Bits(64)
    BY InWord
  <2> QED
    BY <2>1, <2>2 DEF ack_build, command, ACK_SIZE, ACK_COMMAND
<1>2. CASE n = "nak"
  BY <1>2, BuiltShort DEF nak_build, command, NAK_SIZE, NAK_COMMAND, Bits
<1>3. CASE n = "query"
  <2>1. PICK dr \in SUBSET Bits(1), m \in SUBSET Bits(2), trext \in SUBSET Bits(1),
             sel \in SUBSET Bits(2), session \in SUBSET Bits(2), target \in SUBSET Bits(1),
             q \in SUBSET Bits(4) : c = query_build(dr, m, trext, sel, session, target, q)
    BY <1>3, BuiltShort
  <2> DEFINE without_crc ==
               LeftShift(QUERY_COMMAND, 13) \cup LeftShift(dr, 12) \cup LeftShift(m, 10)
                 \cup LeftShift(trext, 9) \cup LeftShift(sel, 7) \cup LeftShift(session, 5)
                 \cup LeftShift(target, 4) \cup q
  <2>2. c = command(LeftShift(without_crc, 5) \cup crc5(Low(without_crc, 8)), 22)
    BY <2>1 DEF query_build, QUERY_SIZE
  <2>3. without_crc \in SUBSET Bits(17)
    <3>1. LeftShift(QUERY_COMMAND, 13) \in SUBSET (0 .. 16)
      BY DEF LeftShift, QUERY_COMMAND
    <3>2. \A w \in SUBSET Bits(1) : \A place \in 0 .. 12 : LeftShift(w, place) \in SUBSET (0 .. 16)
      BY DEF LeftShift, Bits
    <3>3. \A w \in SUBSET Bits(2) : \A place \in 0 .. 12 : LeftShift(w, place) \in SUBSET (0 .. 16)
      BY DEF LeftShift, Bits
    <3>4. q \in SUBSET (0 .. 16)
      BY DEF Bits
    <3>5. /\ LeftShift(dr, 12) \in SUBSET (0 .. 16) /\ LeftShift(m, 10) \in SUBSET (0 .. 16)
          /\ LeftShift(trext, 9) \in SUBSET (0 .. 16) /\ LeftShift(sel, 7) \in SUBSET (0 .. 16)
          /\ LeftShift(session, 5) \in SUBSET (0 .. 16) /\ LeftShift(target, 4) \in SUBSET (0 .. 16)
      BY <3>2, <3>3
    <3>6. without_crc \in SUBSET (0 .. 16)
      BY ONLY <3>1, <3>4, <3>5, Zenon
    <3>7. Bits(17) = 0 .. 16
      BY DEF Bits
    <3> QED
      BY ONLY <3>6, <3>7
  <2> HIDE DEF without_crc
  <2>4. LeftShift(without_crc, 5) \in SUBSET Bits(64)
    BY <2>3, InWord
  <2>5. crc5(Low(without_crc, 8)) \in SUBSET Bits(64)
    <3>1. crc5(Low(without_crc, 8)) \in SUBSET Bits(5)
      BY Crc5Type
    <3> QED
      BY <3>1 DEF Bits
  <2> QED
    BY <2>2, <2>4, <2>5 DEF command
<1>4. CASE n = "query_adjust"
  <2>1. PICK two \in SUBSET Bits(2), updn \in SUBSET Bits(3) : c = query_adjust_command(two, updn)
    BY <1>4, BuiltShort
  <2>2. /\ LeftShift(QUERY_ADJUST_COMMAND, 5) \in SUBSET Bits(64)
        /\ LeftShift(two, 3) \in SUBSET Bits(64) /\ updn \in SUBSET Bits(64)
    BY DEF QUERY_ADJUST_COMMAND, LeftShift, Bits
  <2> QED
    BY <2>1, <2>2 DEF query_adjust_command, command, QUERY_ADJUST_SIZE
<1>5. CASE n = "query_rep"
  <2>1. PICK two \in SUBSET Bits(2) : c = query_rep_build(two)
    BY <1>5, BuiltShort
  <2>2. LeftShift(QUERY_REP_COMMAND, 2) \in SUBSET Bits(64) /\ two \in SUBSET Bits(64)
    BY DEF QUERY_REP_COMMAND, LeftShift, Bits
  <2> QED
    BY <2>1, <2>2 DEF query_rep_build, command, QUERY_REP_SIZE
<1>6. CASE n = "req_rn"
  <2>1. PICK rn \in SUBSET Bits(16) : c = req_rn_build(crc_table, rn)
    BY <1>6, BuiltShort
  <2> DEFINE without_crc == Field(REQ_RN_COMMAND, 8, 16) \cup Low(rn, 16)
             crc == crc_16_ccitt(crc_table, without_crc, 3)
  <2>2. crc \in SUBSET Bits(16)
    BY TableType, CrcType
  <2>3. without_crc \in SUBSET Bits(24)
    BY DEF Field, Low, LeftShift, Bits
  <2>4. c = command(LeftShift(without_crc, 16) \cup crc, 40)
    BY <2>1 DEF req_rn_build, REQ_RN_SIZE
  <2> HIDE DEF without_crc, crc
  <2>5. LeftShift(without_crc, 16) \in SUBSET Bits(64)
    BY <2>3, InWord
  <2>6. crc \in SUBSET Bits(64)
    BY <2>2 DEF Bits
  <2> QED
    BY <2>4, <2>5, <2>6 DEF command
<1>7. CASE n = "rn16"
  BY <1>7, BuiltShort DEF rn16_build, command, RN16_SIZE, Bits
<1>8. CASE n = "rn_crc"
  <2>1. PICK rn \in SUBSET Bits(16) : c = rn_crc_build(crc_table, rn)
    BY <1>8, BuiltShort
  <2> DEFINE crc == crc_16_ccitt(crc_table, rn, 3)
             w == Field(rn, 16, 16) \cup Low(crc, 16)
  <2>2. c = command(Widened(w), 32)
    BY <2>1 DEF rn_crc_build, RN_CRC_SIZE
  <2>3. w \in SUBSET Bits(64)
    BY InWord
  <2> HIDE DEF w
  <2> QED
    BY <2>2, <2>3 DEF command, Widened, Bits
<1>9. CASE n \in {"kill", "lock", "read", "write", "select"}
  <2>1. PICK d \in FullOrEmpty, size \in Nat : c = command(d, size)
    BY <1>9, BuiltLong
  <2> QED
    BY <2>1 DEF FullOrEmpty, command, Bits
<1> QED
  BY <1>1, <1>2, <1>3, <1>4, <1>5, <1>6, <1>7, <1>8, <1>9 DEF Labels

-----------------------------------------------------------------------------
(* The CRC and the long division.                                          *)

\* Remainder is what LongDivision leaves.
LEMMA RemainderDivides ==
  ASSUME NEW message \in SUBSET Int
  PROVE  \E left : LongDivision(left, message, 24) /\ Remainder(BytesOf(message)) = left[24]
<1> DEFINE bits == BytesOf(message)
           one(n) == IF bits[n] = 1 THEN {15} ELSE {}
           F(g) == [n \in 0 .. Len(bits) |->
                      IF n = 0 THEN INITIAL_REMAINDER_16
                      ELSE DivideBit16[ExclusiveOr(g[n - 1], IF bits[n] = 1 THEN {15} ELSE {})]]
           rem == CHOOSE g : g = F(g)
           divide == [n \in 1 .. 24 |-> [r \in Words16 |-> DivideBit16[ExclusiveOr(r, one(n))]]]
<1>1. Remainder(bits) = rem[Len(bits)]
  BY DEF Remainder
<1>2. Len(bits) = 24 /\ \A n \in 1 .. 24 : one(n) = TopBit(BitOf(n) \in message)
  BY DEF BytesOf, BitOf, TopBit
<1> HIDE DEF bits
<1>3. divide \in [1 .. 24 -> [Words16 -> Words16]]
  <2>1. ASSUME NEW n \in 1 .. 24, NEW r \in Words16
        PROVE  DivideBit16[ExclusiveOr(r, one(n))] \in Words16
    <3>1. one(n) \in Words16
      BY DEF Words16, Bits
    <3> HIDE DEF one
    <3>2. ExclusiveOr(r, one(n)) \in Words16
      BY <3>1, Xor16
    <3> QED
      BY ONLY <3>2, DivideBitType
  <2> HIDE DEF one
  <2> QED
    BY <2>1
<1>4. \A n \in 1 .. 24, r \in Words16 : divide[n][r] = DivideBit16[ExclusiveOr(r, one(n))]
  <2> HIDE DEF one
  <2> QED
    OBVIOUS
<1>5. INITIAL_REMAINDER_16 \in Words16
  BY DEF INITIAL_REMAINDER_16, Words16
<1> HIDE DEF divide
<1>6. PICK h \in [0 .. 24 -> Words16] : Follows(h, INITIAL_REMAINDER_16, 24, divide)
  BY ONLY <1>3, <1>5, 24 \in Nat, RecursionExists
<1>7. h = F(h)
  <2>1. \A n \in 1 .. 24 : h[n] = divide[n][h[n - 1]] /\ h[n - 1] \in Words16
    BY <1>6 DEF Follows
  <2>2. \A n \in 1 .. 24 : h[n] = DivideBit16[ExclusiveOr(h[n - 1], one(n))]
    <3> HIDE DEF one
    <3> QED
      BY <1>4, <2>1
  <2>3. h[0] = INITIAL_REMAINDER_16
    BY <1>6 DEF Follows
  <2>4. \A n \in 0 .. 24 : h[n] = IF n = 0 THEN INITIAL_REMAINDER_16
                                  ELSE DivideBit16[ExclusiveOr(h[n - 1], one(n))]
    <3> HIDE DEF one
    <3> QED
      BY <2>2, <2>3
  <2> QED
    BY <1>2, <2>4
<1>8. rem = F(rem)
  <2> HIDE DEF F
  <2> QED
    BY ONLY <1>7, Zenon
<1>9. \A n \in 0 .. Len(bits) :
        F(rem)[n] = IF n = 0 THEN INITIAL_REMAINDER_16
                    ELSE DivideBit16[ExclusiveOr(rem[n - 1], one(n))]
  <2> HIDE DEF rem
  <2> QED
    BY ONLY TRUE
<1>10. \A n \in 0 .. 24 :
         rem[n] = IF n = 0 THEN INITIAL_REMAINDER_16
                  ELSE DivideBit16[ExclusiveOr(rem[n - 1], one(n))]
  <2> HIDE DEF F, rem, one
  <2> QED
    BY ONLY <1>2, <1>8, <1>9, Zenon
<1> HIDE DEF rem, F, one
<1>11. LongDivision(rem, message, 24)
  <2>1. rem[0] = INITIAL_REMAINDER_16
    BY <1>10
  <2>2. \A n \in 1 .. 24 : rem[n] = DivideBit16[ExclusiveOr(rem[n - 1], one(n))]
    BY <1>10
  <2> QED
    BY ONLY <1>2, <2>1, <2>2 DEF LongDivision
<1> QED
  BY <1>1, <1>2, <1>11 DEF bits

LEMMA CrcDivides ==
  ASSUME NEW message \in SUBSET Int
  PROVE  crc_16_ccitt(FilledTable, message, 3) = Remainder(BytesOf(message))
<1>1. PICK left : LongDivision(left, message, 24) /\ Remainder(BytesOf(message)) = left[24]
  BY RemainderDivides
<1>2. 8 * 3 = 24
  OBVIOUS
<1>3. LongDivision(left, message, 8 * 3)
  BY <1>1, <1>2
<1>4. crc_16_ccitt(FilledTable, message, 3) = left[8 * 3]
  BY ONLY <1>3, 3 \in Nat, CrcIsLongDivision
<1> QED
  BY <1>1, <1>2, <1>4

\* The remainder of the long division is what crc_16_ccitt makes of every command that is
\* built, and of any other message.
THEOREM TableDivides == Spec => []CrcIsRemainder
<1>1. CrcIsRemainder
  <2>1. Low(cmd.result_data, 24) \in SUBSET Int
    BY DEF Low, Bits
  <2> QED
    BY ONLY <2>1, CrcDivides DEF CrcIsRemainder
<1> QED
  BY <1>1, PTL

-----------------------------------------------------------------------------
(* The inductive invariant.                                                *)

\* The commands that may be on the line: the one that main built, or with one bit flipped.
OnLine ==
  IF damaged
    THEN {[cmd EXCEPT !.result_data = ExclusiveOr(@, {bit})] : bit \in Bits(cmd.size)}
    ELSE {cmd}

\* receiver_get_package has taken the first i packages of a command.
Taken(received) ==
  /\ i \in 0 .. Len(received) - 1
  /\ command_size = IF i = Len(received) - 1
                      THEN data_package_size * (i - 1) + received[i].mask
                      ELSE data_package_size * i
  /\ \A p \in 1 .. i : packages[p - 1] = received[p].data

\* Where the packages of the command that is under way are.
Where(received) ==
  /\ ~HasZeroPackage(received)
  /\ pc = "sent" => rx_fifo = received
  /\ pc = "receive" => Taken(received) /\ rx_fifo = SubSeq(received, i + 1, Len(received))
  /\ pc \in {"received", "labelled"} =>
       Taken(received) /\ i = Len(received) - 1 /\ rx_fifo = <<>>

TypeInv ==
  /\ initialised \in BOOLEAN /\ damaged \in BOOLEAN /\ lossless \in BOOLEAN
  /\ pc \in {"main", "built", "sent", "receive", "received", "labelled", "exited"}
  /\ name \in Labels /\ cmd \in Built(name)
  /\ packages = [p \in 0 .. 3 |-> packages[p]]
  /\ quant_packages \in 1 .. 3 /\ i \in 0 .. quant_packages + 1
  /\ pc = "receive" => i <= quant_packages

LabelInv ==
  label = IF pc = "labelled" THEN rfid_check_command(crc_table, packages, command_size)
                             ELSE NoLabel

\* Between commands the FIFO is empty; until then the packages of one command are under way.
CallInv ==
  /\ pc \in {"main", "built"} => ~damaged /\ (lossless => rx_fifo = <<>>)
  /\ pc \in {"sent", "receive", "received", "labelled"} /\ lossless =>
       \E c \in OnLine : \E received \in Heard(c) : Where(received)

IInv == TypeInv /\ LabelInv /\ CallInv

LEMMA OnLineType ==
  ASSUME TypeInv, NEW c \in OnLine
  PROVE  c.size \in Nat /\ c.size = cmd.size
<1>1. cmd.size \in Nat
  BY BuiltType DEF TypeInv
<1>2. CASE damaged
  <2>1. PICK bit \in Bits(cmd.size) : c = [cmd EXCEPT !.result_data = ExclusiveOr(@, {bit})]
    BY <1>2 DEF OnLine
  <2> QED
    BY ONLY <1>1, <2>1
<1>3. CASE ~damaged
  BY <1>1, <1>3 DEF OnLine
<1> QED
  BY <1>2, <1>3

LEMMA HeardType ==
  ASSUME TypeInv, NEW c \in OnLine, NEW received \in Heard(c)
  PROVE  /\ received \in Seq(Packages26) /\ Len(received) \in Nat /\ Len(received) >= 2
         /\ received[Len(received)].data = {}
         /\ \A p \in 1 .. Len(received) - 2 : received[p].mask = data_package_size
         /\ \A p \in 1 .. Len(received) : received[p] \in Packages26
<1>1. received \in Seq(Packages26) /\ Packed(received) /\ Len(received) >= 2
  BY OnLineType, HeardIsPacked
<1> QED
  BY <1>1 DEF Packed

LEMMA Rest ==
  ASSUME NEW received \in Seq(Packages26), NEW n \in 0 .. Len(received) - 1
  PROVE  /\ Head(SubSeq(received, n + 1, Len(received))) = received[n + 1]
         /\ Tail(SubSeq(received, n + 1, Len(received))) = SubSeq(received, n + 2, Len(received))
<1>1. Len(received) \in Nat /\ n + 1 \in 1 .. Len(received) /\ n + 1 + 1 = n + 2
  OBVIOUS
<1>2. Len(received) \in n + 1 .. Len(received)
  BY <1>1
<1> QED
  BY <1>1, <1>2, HeadTailOfSubSeq

LEMMA InitIInv == Init => IInv
<1> SUFFICES ASSUME Init PROVE IInv
  OBVIOUS
<1>1. name \in Labels /\ cmd \in Built(name)
  BY DEF Init, Labels, Built
<1>2. packages = [p \in 0 .. 3 |-> packages[p]]
  <2>1. packages = [p \in 0 .. 3 |-> {}]
    BY DEF Init
  <2> QED
    BY ONLY <2>1
<1>3. TypeInv
  <2>1. /\ initialised \in BOOLEAN /\ damaged \in BOOLEAN /\ lossless \in BOOLEAN /\ pc = "main"
        /\ quant_packages = 1 /\ i = 0
    BY ExchangeAssumption DEF Init
  <2>2. quant_packages \in 1 .. 3 /\ i \in 0 .. quant_packages + 1
    BY <2>1
  <2> QED
    BY ONLY <1>1, <1>2, <2>1, <2>2 DEF TypeInv
<1> QED
  BY <1>3 DEF Init, IInv, LabelInv, CallInv

\* What a step that keeps the command keeps.
LEMMA Kept ==
  ASSUME UNCHANGED <<initialised, name, cmd, damaged>>
  PROVE  OnLine' = OnLine /\ crc_table' = crc_table /\ Built(name)' = Built(name)
BY DEF OnLine, crc_table, Built

LEMMA StepBuild == IInv /\ Build => IInv'
<1> SUFFICES ASSUME IInv, Build PROVE IInv'
  OBVIOUS
<1>1. TypeInv'
  <2>1. crc_table' = crc_table
    BY DEF Build, crc_table
  <2>2. Built(name)' = Built(name')
    BY <2>1 DEF Built
  <2> QED
    BY <2>2 DEF Build, IInv, TypeInv, call_vars, history
<1> QED
  BY <1>1 DEF Build, IInv, LabelInv, CallInv, call_vars, history

\* Either way of sending.
LEMMA StepSend ==
  ASSUME IInv, pc = "built", pc' = "sent", UNCHANGED <<initialised, name, cmd, call_vars, label>>,
         damaged' \in BOOLEAN,
         NEW c \in OnLine', c.size \in Nat, NEW received \in Heard(c), rx_fifo' = rx_fifo \o received,
         lossless' = (lossless /\ ~HasZeroPackage(received))
  PROVE  IInv'
<1>1. TypeInv'
  <2>1. Built(name)' = Built(name)
    BY DEF Built, crc_table
  <2> QED
    BY <2>1 DEF IInv, TypeInv, call_vars
<1>2. LabelInv'
  BY DEF IInv, LabelInv
<1>3. ASSUME lossless' PROVE Where(received)'
  <2>1. rx_fifo = <<>> /\ ~HasZeroPackage(received)
    BY <1>3 DEF IInv, CallInv
  <2>2. received \in Seq(Packages26)
    BY HeardIsPacked
  <2>3. rx_fifo' = received
    BY <2>1, <2>2
  <2> QED
    BY <2>1, <2>3 DEF Where
<1>4. CallInv'
  BY <1>3 DEF CallInv
<1> QED
  BY <1>1, <1>2, <1>4 DEF IInv

LEMMA StepGetPackage == IInv /\ GetPackage => IInv'
<1> SUFFICES ASSUME IInv, GetPackage PROVE IInv'
  OBVIOUS
<1>1. /\ pc = "sent" /\ pc' = "receive" /\ i' = 0 /\ command_size' = 0
      /\ quant_packages' \in 1 .. 3 /\ packages' = [p \in 0 .. 3 |-> packages'[p]]
      /\ UNCHANGED <<initialised, name, cmd, rx_fifo, label, damaged, lossless>>
  BY DEF GetPackage, history
<1>2. OnLine' = OnLine /\ Built(name)' = Built(name)
  BY <1>1, Kept
<1>3. TypeInv'
  BY <1>1, <1>2 DEF IInv, TypeInv
<1>4. ASSUME NEW c \in OnLine, NEW received \in Heard(c), Where(received)
      PROVE  Where(received)'
  <2>1. received \in Seq(Packages26) /\ Len(received) \in Nat /\ Len(received) >= 2
    BY HeardType DEF IInv
  <2>2. Taken(received)'
    BY SMTT(30), <1>1, <2>1 DEF Taken, data_package_size
  <2>3. SubSeq(received, 1, Len(received)) = received
    BY <2>1
  <2>4. rx_fifo' = received /\ ~HasZeroPackage(received)
    BY <1>1, <1>4 DEF Where
  <2> QED
    BY <1>1, <2>2, <2>3, <2>4 DEF Where
<1>5. CallInv'
  BY <1>1, <1>2, <1>4 DEF IInv, CallInv
<1> QED
  BY <1>1, <1>3, <1>5 DEF IInv, LabelInv

LEMMA StepStorePackage == IInv /\ StorePackage => IInv'
<1> SUFFICES ASSUME IInv, StorePackage PROVE IInv'
  OBVIOUS
<1>1. /\ pc = "receive" /\ pc' = IF i' > quant_packages THEN "exited" ELSE "receive"
      /\ i' = i + 1 /\ command_size' = command_size + Head(rx_fifo).mask
      /\ rx_fifo' = Tail(rx_fifo) /\ Head(rx_fifo).data # {}
      /\ packages' = [packages EXCEPT ![i] = Head(rx_fifo).data]
      /\ UNCHANGED <<initialised, name, cmd, quant_packages, label, damaged, lossless>>
  BY DEF StorePackage, history
<1>2. OnLine' = OnLine /\ Built(name)' = Built(name)
  BY <1>1, Kept
<1>3. i \in 0 .. 3 /\ quant_packages \in 1 .. 3 /\ i <= quant_packages
      /\ packages = [p \in 0 .. 3 |-> packages[p]]
  BY <1>1 DEF IInv, TypeInv
<1>4. packages'[i] = Head(rx_fifo).data /\ (\A p \in 0 .. 3 \ {i} : packages'[p] = packages[p])
      /\ packages' = [p \in 0 .. 3 |-> packages'[p]]
  BY <1>1, <1>3
<1>5. TypeInv'
  <2>1. i' \in 0 .. quant_packages + 1 /\ (pc' = "receive" => i' <= quant_packages)
    BY <1>1, <1>3
  <2> QED
    BY <1>1, <1>2, <1>4, <2>1 DEF IInv, TypeInv
<1>6. ASSUME NEW c \in OnLine, NEW received \in Heard(c), Where(received), pc' = "receive"
      PROVE  Where(received)'
  <2>1. /\ received \in Seq(Packages26) /\ Len(received) \in Nat /\ Len(received) >= 2
        /\ received[Len(received)].data = {}
        /\ \A p \in 1 .. Len(received) - 2 : received[p].mask = data_package_size
        /\ \A p \in 1 .. Len(received) : received[p] \in Packages26
    BY HeardType DEF IInv
  <2>2. /\ Taken(received) /\ rx_fifo = SubSeq(received, i + 1, Len(received))
        /\ ~HasZeroPackage(received) /\ i \in 0 .. Len(received) - 1
    BY <1>1, <1>6 DEF Where, Taken
  <2>3. Head(rx_fifo) = received[i + 1] /\ rx_fifo' = SubSeq(received, i + 2, Len(received))
    BY <1>1, <2>1, <2>2, Rest
  <2>4. i + 1 \in 1 .. Len(received) - 1
    <3>1. i + 1 # Len(received)
      BY <1>1, <2>1, <2>3
    <3> QED
      BY <2>1, <2>2, <3>1
  <2>5. command_size = data_package_size * i
    BY <2>1, <2>2, <2>4 DEF Taken
  <2>6. command_size' = IF i' = Len(received) - 1
                          THEN data_package_size * (i' - 1) + received[i'].mask
                          ELSE data_package_size * i'
    <3>1. CASE i + 1 = Len(received) - 1
      <4>1. i' = Len(received) - 1 /\ i' - 1 = i /\ Head(rx_fifo).mask = received[i'].mask
        BY <1>1, <1>3, <2>3, <3>1
      <4> QED
        BY <1>1, <2>5, <4>1
    <3>2. CASE i + 1 # Len(received) - 1
      <4>1. received[i + 1].mask = data_package_size
        BY <2>1, <2>4, <3>2
      <4> QED
        BY <1>1, <1>3, <2>3, <2>5, <3>2, <4>1 DEF data_package_size
    <3> QED
      BY <3>1, <3>2
  <2>7. \A p \in 1 .. i' : packages'[p - 1] = received[p].data
    <3>1. ASSUME NEW p \in 1 .. i PROVE packages'[p - 1] = received[p].data
      <4>1. p - 1 \in 0 .. 3 \ {i}
        BY <1>3
      <4> QED
        BY <1>4, <2>2, <4>1 DEF Taken
    <3>2. packages'[(i + 1) - 1] = received[i + 1].data
      BY <1>3, <1>4, <2>3
    <3> QED
      BY <1>1, <1>3, <3>1, <3>2
  <2>8. Taken(received)'
    BY <1>1, <2>1, <2>4, <2>6, <2>7 DEF Taken
  <2>9. i' + 1 = i + 2
    BY <1>1, <1>3
  <2>10. rx_fifo' = SubSeq(received, i' + 1, Len(received))
    BY <2>3, <2>9
  <2> QED
    BY <1>6, <2>2, <2>8, <2>10 DEF Where
<1>7. CallInv'
  BY <1>1, <1>2, <1>6 DEF IInv, CallInv
<1> QED
  BY <1>1, <1>5, <1>7 DEF IInv, LabelInv

LEMMA StepReceivedEop == IInv /\ ReceivedEop => IInv'
<1> SUFFICES ASSUME IInv, ReceivedEop PROVE IInv'
  OBVIOUS
<1>1. /\ pc = "receive" /\ pc' = "received"
      /\ rx_fifo' = Tail(rx_fifo) /\ Head(rx_fifo).data = {}
      /\ UNCHANGED <<initialised, name, cmd, call_vars, label, damaged, lossless>>
  BY DEF ReceivedEop, history
<1>2. OnLine' = OnLine /\ Built(name)' = Built(name)
  BY <1>1, Kept
<1>3. TypeInv'
  BY <1>1, <1>2 DEF IInv, TypeInv, call_vars
<1>4. ASSUME NEW c \in OnLine, NEW received \in Heard(c), Where(received)
      PROVE  Where(received)'
  <2>1. received \in Seq(Packages26) /\ Len(received) \in Nat /\ Len(received) >= 2
    BY HeardType DEF IInv
  <2>2. /\ Taken(received) /\ rx_fifo = SubSeq(received, i + 1, Len(received))
        /\ ~HasZeroPackage(received) /\ i \in 0 .. Len(received) - 1
    BY <1>1, <1>4 DEF Where, Taken
  <2>3. Head(rx_fifo) = received[i + 1] /\ rx_fifo' = SubSeq(received, i + 2, Len(received))
    BY <1>1, <2>1, <2>2, Rest
  <2>4. i + 1 \notin 1 .. Len(received) - 1
    BY <1>1, <2>2, <2>3 DEF HasZeroPackage
  <2>5. i = Len(received) - 1
    BY <2>1, <2>2, <2>4
  <2>6. rx_fifo' = <<>>
    <3>1. i + 2 > Len(received) /\ i + 2 \in Nat
      BY <2>1, <2>5
    <3> QED
      BY <2>1, <2>3, <3>1
  <2>7. Taken(received)'
    BY <1>1, <2>2 DEF Taken, call_vars
  <2> QED
    BY <1>1, <2>2, <2>5, <2>6, <2>7 DEF Where, call_vars
<1>5. CallInv'
  BY <1>1, <1>2, <1>4 DEF IInv, CallInv
<1> QED
  BY <1>1, <1>3, <1>5 DEF IInv, LabelInv

LEMMA StepCheckCommand == IInv /\ CheckCommand => IInv'
<1> SUFFICES ASSUME IInv, CheckCommand PROVE IInv'
  OBVIOUS
<1>1. /\ pc = "received" /\ pc' = "labelled"
      /\ label' = rfid_check_command(crc_table, packages, command_size)
      /\ UNCHANGED <<initialised, name, cmd, rx_fifo, damaged, lossless>>
      /\ UNCHANGED <<quant_packages, packages, i, command_size>>
  BY DEF CheckCommand, history, call_vars
<1>2. OnLine' = OnLine /\ Built(name)' = Built(name) /\ crc_table' = crc_table
  BY <1>1, Kept
<1>3. TypeInv'
  BY <1>1, <1>2 DEF IInv, TypeInv
<1>4. LabelInv'
  BY <1>1, <1>2 DEF LabelInv
<1>5. \A received : Where(received) => Where(received)'
  BY <1>1 DEF Where, Taken
<1>6. CallInv'
  BY <1>1, <1>2, <1>5 DEF IInv, CallInv
<1> QED
  BY <1>3, <1>4, <1>6 DEF IInv

LEMMA StepAgain == IInv /\ Again => IInv'
<1> SUFFICES ASSUME IInv, Again PROVE IInv'
  OBVIOUS
<1>1. name' \in Labels /\ cmd' \in Built(name)'
  BY DEF Again, Labels, Built
<1>2. TypeInv'
  <2>1. packages' = [p \in 0 .. 3 |-> {}]
    BY DEF Again
  <2>2. packages' = [p \in 0 .. 3 |-> packages'[p]]
    BY ONLY <2>1
  <2>3. /\ initialised' \in BOOLEAN /\ damaged' \in BOOLEAN /\ lossless' \in BOOLEAN /\ pc' = "main"
        /\ quant_packages' = 1 /\ i' = 0
    BY DEF Again, IInv, TypeInv
  <2>4. quant_packages' \in 1 .. 3 /\ i' \in 0 .. quant_packages' + 1
    BY <2>3
  <2> QED
    BY ONLY <1>1, <2>2, <2>3, <2>4 DEF TypeInv
<1>3. lossless => rx_fifo = <<>>
  BY DEF Again, IInv, CallInv, Where
<1> QED
  BY <1>2, <1>3 DEF Again, IInv, LabelInv, CallInv

LEMMA StepIInv == IInv /\ [Next]_vars => IInv'
<1> SUFFICES ASSUME IInv, [Next]_vars PROVE IInv'
  OBVIOUS
<1>1. CASE Build
  BY <1>1, StepBuild
<1>2. CASE SendCommand
  <2>1. PICK received \in Heard(cmd) : /\ rx_fifo' = rx_fifo \o received
                                      /\ lossless' = (lossless /\ ~HasZeroPackage(received))
    BY <1>2 DEF SendCommand
  <2>2. cmd \in OnLine' /\ cmd.size \in Nat
    BY <1>2, BuiltType DEF SendCommand, OnLine, IInv, TypeInv, CallInv
  <2> QED
    BY <1>2, <2>1, <2>2, StepSend DEF SendCommand, IInv, TypeInv
<1>3. CASE SendCommandDamaged
  <2>1. PICK bit \in Bits(cmd.size) :
          \E received \in Heard([cmd EXCEPT !.result_data = ExclusiveOr(@, {bit})]) :
            /\ rx_fifo' = rx_fifo \o received
            /\ lossless' = (lossless /\ ~HasZeroPackage(received))
    BY <1>3 DEF SendCommandDamaged
  <2> DEFINE flipped == [cmd EXCEPT !.result_data = ExclusiveOr(@, {bit})]
  <2>2. flipped \in OnLine'
    BY <1>3 DEF SendCommandDamaged, OnLine
  <2>3. flipped.size \in Nat
    <3>1. cmd.size \in Nat
      BY BuiltType DEF IInv, TypeInv
    <3> QED
      BY ONLY <3>1
  <2> HIDE DEF flipped
  <2> QED
    BY <1>3, <2>1, <2>2, <2>3, StepSend DEF SendCommandDamaged, flipped
<1>4. CASE GetPackage
  BY <1>4, StepGetPackage
<1>5. CASE StorePackage
  BY <1>5, StepStorePackage
<1>6. CASE ReceivedEop
  BY <1>6, StepReceivedEop
<1>7. CASE CheckCommand
  BY <1>7, StepCheckCommand
<1>8. CASE Again
  BY <1>8, StepAgain
<1>9. CASE UNCHANGED vars
  <2>1. OnLine' = OnLine /\ Built(name)' = Built(name) /\ crc_table' = crc_table
    BY <1>9, Kept DEF vars, history
  <2>2. \A received : Where(received) => Where(received)'
    BY <1>9 DEF vars, call_vars, Where, Taken
  <2>3. TypeInv' /\ LabelInv'
    BY <1>9, <2>1 DEF vars, call_vars, history, IInv, TypeInv, LabelInv
  <2>4. CallInv'
    BY <1>9, <2>1, <2>2 DEF vars, call_vars, history, IInv, CallInv
  <2> QED
    BY <2>3, <2>4 DEF IInv
<1> QED
  BY <1>1, <1>2, <1>3, <1>4, <1>5, <1>6, <1>7, <1>8, <1>9 DEF Next

THEOREM Invariant == Spec => []IInv
BY InitIInv, StepIInv, PTL DEF Spec

\* Every variable keeps its type, whatever the program, its table and the stack hold: the
\* index of the array never passes the package that makes receiver_get_package give up.
THEOREM TypeCorrectExchange == Spec => []TypeOK
<1>1. IInv => TypeOK
  <2> SUFFICES ASSUME IInv PROVE TypeOK
    OBVIOUS
  <2>1. cmd.result_data \in SUBSET Bits(64)
    BY BuiltType DEF IInv, TypeInv
  <2>2. label \in Labels \cup {NoLabel}
    <3>1. rfid_check_command(crc_table, packages, command_size) \in Labels \cup {NoLabel}
      BY LabelMeans
    <3> QED
      BY <3>1 DEF IInv, LabelInv
  <2> QED
    BY <2>1, <2>2 DEF IInv, TypeInv, TypeOK
<1> QED
  BY <1>1, Invariant, PTL

\* Once a package of zeros is sent there is one end more in the FIFO than there are calls to
\* take it: the last package is always an end, and while a call is due so is one before it.
EndIsLast(fifo) == fifo # <<>> /\ fifo[Len(fifo)].data = {}

EndsInv ==
  /\ rx_fifo \in Seq(Packages26)
  /\ ~lossless =>
       /\ EndIsLast(rx_fifo)
       /\ pc \in {"sent", "receive"} => HasZeroPackage(rx_fifo)

LEMMA TailKeepsEnds ==
  ASSUME NEW fifo \in Seq(Packages26), EndIsLast(fifo), HasZeroPackage(fifo)
  PROVE  /\ Tail(fifo) \in Seq(Packages26) /\ EndIsLast(Tail(fifo))
         /\ Head(fifo).data # {} => HasZeroPackage(Tail(fifo))
<1>1. PICK p \in 1 .. Len(fifo) - 1 : fifo[p].data = {}
  BY DEF HasZeroPackage
<1>2. Len(fifo) \in Nat /\ Len(fifo) >= 2
  BY <1>1
<1> DEFINE rest == Tail(fifo)
<1>3. /\ rest \in Seq(Packages26) /\ Len(rest) = Len(fifo) - 1
      /\ \A k \in 1 .. Len(fifo) - 1 : rest[k] = fifo[k + 1]
  BY <1>2
<1> HIDE DEF rest
<1>4. EndIsLast(rest)
  <2>1. Len(rest) \in 1 .. Len(fifo) - 1 /\ Len(rest) + 1 = Len(fifo)
    BY <1>2, <1>3
  <2>2. rest[Len(rest)] = fifo[Len(fifo)]
    BY <1>3, <2>1
  <2>3. rest # <<>>
    BY <1>3, <2>1
  <2> QED
    BY <2>2, <2>3 DEF EndIsLast
<1>5. ASSUME Head(fifo).data # {} PROVE HasZeroPackage(rest)
  <2>1. Head(fifo) = fifo[1]
    BY <1>2
  <2>2. p # 1
    BY <1>1, <1>5, <2>1
  <2>3. p - 1 \in 1 .. Len(fifo) - 2 /\ p - 1 + 1 = p
    BY <1>1, <1>2, <2>2
  <2>4. p - 1 \in 1 .. Len(fifo) - 1 /\ p - 1 \in 1 .. Len(rest) - 1
    BY <1>2, <1>3, <2>3
  <2>5. rest[p - 1] = fifo[p]
    BY <1>3, <2>3, <2>4
  <2> QED
    BY <1>1, <2>4, <2>5 DEF HasZeroPackage
<1> QED
  BY <1>3, <1>4, <1>5 DEF rest

LEMMA SendAddsEnd ==
  ASSUME EndsInv, pc = "built", NEW c, c.size \in Nat, NEW received \in Heard(c),
         IInv, rx_fifo' = rx_fifo \o received,
         lossless' = (lossless /\ ~HasZeroPackage(received))
  PROVE  EndsInv'
<1>1. received \in Seq(Packages26) /\ Packed(received) /\ Len(received) \in Nat /\ Len(received) >= 2
  BY HeardIsPacked
<1>2. received[Len(received)].data = {}
  BY <1>1 DEF Packed, eop, package
<1>3. rx_fifo \in Seq(Packages26) /\ Len(rx_fifo) \in Nat
  BY DEF EndsInv
<1>4. /\ rx_fifo' \in Seq(Packages26) /\ Len(rx_fifo') = Len(rx_fifo) + Len(received)
      /\ \A k \in 1 .. Len(rx_fifo) : rx_fifo'[k] = rx_fifo[k]
      /\ \A k \in 1 .. Len(received) : rx_fifo'[Len(rx_fifo) + k] = received[k]
  BY <1>1, <1>3
<1>5. EndIsLast(rx_fifo')
  BY <1>1, <1>2, <1>3, <1>4 DEF EndIsLast
<1>6. ASSUME ~lossless' PROVE HasZeroPackage(rx_fifo')
  <2>1. CASE lossless
    <3>1. PICK p \in 1 .. Len(received) - 1 : received[p].data = {}
      BY <1>6, <2>1 DEF HasZeroPackage
    <3>2. Len(rx_fifo) + p \in 1 .. Len(rx_fifo') - 1 /\ p \in 1 .. Len(received)
      BY <1>1, <1>3, <1>4, <3>1
    <3> QED
      BY <1>4, <3>1, <3>2 DEF HasZeroPackage
  <2>2. CASE ~lossless
    <3>1. Len(rx_fifo) \in 1 .. Len(rx_fifo') - 1 /\ rx_fifo[Len(rx_fifo)].data = {}
      BY <1>1, <1>3, <1>4, <2>2 DEF EndsInv, EndIsLast
    <3>2. rx_fifo'[Len(rx_fifo)] = rx_fifo[Len(rx_fifo)]
      BY <1>3, <1>4, <3>1
    <3> QED
      BY <3>1, <3>2 DEF HasZeroPackage
  <2> QED
    BY <2>1, <2>2
<1> QED
  BY <1>4, <1>5, <1>6 DEF EndsInv

LEMMA EndsStep == IInv /\ EndsInv /\ [Next]_vars => EndsInv'
<1> SUFFICES ASSUME IInv, EndsInv, [Next]_vars PROVE EndsInv'
  OBVIOUS
<1>1. CASE UNCHANGED <<rx_fifo, lossless>> /\ (pc' \in {"sent", "receive"} => pc \in {"sent", "receive"})
  BY <1>1 DEF EndsInv
<1>2. CASE SendCommand
  <2>1. PICK received \in Heard(cmd) : /\ rx_fifo' = rx_fifo \o received
                                      /\ lossless' = (lossless /\ ~HasZeroPackage(received))
    BY <1>2 DEF SendCommand
  <2>2. cmd.size \in Nat
    BY BuiltType DEF IInv, TypeInv
  <2> QED
    BY <1>2, <2>1, <2>2, SendAddsEnd DEF SendCommand
<1>3. CASE SendCommandDamaged
  <2>1. PICK bit \in Bits(cmd.size) :
          \E received \in Heard([cmd EXCEPT !.result_data = ExclusiveOr(@, {bit})]) :
            /\ rx_fifo' = rx_fifo \o received
            /\ lossless' = (lossless /\ ~HasZeroPackage(received))
    BY <1>3 DEF SendCommandDamaged
  <2> DEFINE flipped == [cmd EXCEPT !.result_data = ExclusiveOr(@, {bit})]
  <2>2. flipped.size \in Nat
    <3>1. cmd.size \in Nat
      BY BuiltType DEF IInv, TypeInv
    <3> QED
      BY ONLY <3>1
  <2> HIDE DEF flipped
  <2> QED
    BY <1>3, <2>1, <2>2, SendAddsEnd DEF SendCommandDamaged, flipped
<1>4. CASE StorePackage
  <2>1. /\ pc = "receive" /\ rx_fifo' = Tail(rx_fifo) /\ rx_fifo # <<>> /\ lossless' = lossless
        /\ Head(rx_fifo).data # {}
    BY <1>4 DEF StorePackage, history
  <2>2. CASE lossless
    <3>1. Tail(rx_fifo) \in Seq(Packages26)
      BY <2>1 DEF EndsInv
    <3> QED
      BY <2>1, <2>2, <3>1 DEF EndsInv
  <2>3. CASE ~lossless
    <3>1. rx_fifo \in Seq(Packages26) /\ EndIsLast(rx_fifo) /\ HasZeroPackage(rx_fifo)
      BY <2>1, <2>3 DEF EndsInv
    <3>2. rx_fifo' \in Seq(Packages26) /\ EndIsLast(rx_fifo') /\ HasZeroPackage(rx_fifo')
      BY <2>1, <3>1, TailKeepsEnds
    <3> QED
      BY <3>2 DEF EndsInv
  <2> QED
    BY <2>2, <2>3
<1>5. CASE ReceivedEop
  <2>1. /\ pc = "receive" /\ rx_fifo' = Tail(rx_fifo) /\ rx_fifo # <<>> /\ lossless' = lossless
        /\ pc' = "received"
    BY <1>5 DEF ReceivedEop, history
  <2>2. Tail(rx_fifo) \in Seq(Packages26)
    BY <2>1 DEF EndsInv
  <2>3. ~lossless => EndIsLast(Tail(rx_fifo))
    BY <2>1, TailKeepsEnds DEF EndsInv
  <2> QED
    BY <2>1, <2>2, <2>3 DEF EndsInv
<1> QED
  BY <1>1, <1>2, <1>3, <1>4, <1>5
     DEF Next, Build, GetPackage, CheckCommand, Again, vars, call_vars, history

\* Whatever the commands and whatever is flipped on the line: as long as no package of zeros
\* is sent, main finds the FIFO empty when it builds its next command, so that
\* receiver_get_package is in step with the sender; and once one is sent, never again.
THEOREM NothingIsLeftBehind == Spec => []NothingLeftBehind
<1>1. Init => EndsInv
  BY DEF Init, EndsInv
<1>2. IInv /\ EndsInv => NothingLeftBehind
  BY DEF IInv, CallInv, EndsInv, EndIsLast, NothingLeftBehind
<1> QED
  BY <1>1, <1>2, Invariant, EndsStep, PTL DEF Spec

-----------------------------------------------------------------------------
(* The labels.                                                             *)

\* What rfid_check_command gets when no package of zeros was sent: the bits that arrived.
LEMMA WhatIsChecked ==
  ASSUME IInv, pc = "labelled", lossless
  PROVE  \E c \in OnLine : \E n \in Nat, w \in SUBSET Int :
           /\ Arrived(w, n, c) /\ Shown(packages, w, n)
           /\ label = rfid_check_command(crc_table, packages, n)
<1>1. PICK c \in OnLine : \E received \in Heard(c) : Where(received)
  BY DEF IInv, CallInv
<1>2. PICK received \in Heard(c) : Where(received)
  BY <1>1
<1>3. Taken(received) /\ i = Len(received) - 1
  BY <1>2 DEF Where
<1>4. /\ Len(received) \in Nat /\ Len(received) >= 2
  BY HeardType DEF IInv
<1>5. /\ command_size = 26 * (Len(received) - 2) + received[Len(received) - 1].mask
      /\ \A p \in 1 .. Len(received) - 1 : packages[p - 1] = received[p].data
  <2>1. i - 1 = Len(received) - 2
    BY <1>3, <1>4
  <2> QED
    BY <1>3, <2>1 DEF Taken, data_package_size
<1>6. c.size \in Nat
  BY OnLineType DEF IInv
<1>7. PICK n \in Nat, w \in SUBSET Int :
        /\ Arrived(w, n, c) /\ Shown(packages, w, n)
        /\ 26 * (Len(received) - 2) + received[Len(received) - 1].mask = n
  BY <1>5, <1>6, CallShows
<1>8. label = rfid_check_command(crc_table, packages, command_size)
  BY DEF IInv, LabelInv
<1> QED
  BY <1>5, <1>7, <1>8

\* What the size says of the label.  (Nine bits may be a nak or a query_adjust.)
LEMMA LabelOfSize ==
  ASSUME NEW t, NEW p, NEW s, NEW l, l = rfid_check_command(t, p, s)
  PROVE  /\ s \in {4, 5} => l \in {"query_rep", NoLabel}
         /\ s = 8 => l \in {"nak", NoLabel}
         /\ s = 9 => l \in {"nak", "query_adjust", NoLabel}
         /\ s = 10 => l \in {"query_adjust", NoLabel}
         /\ s \in {16, 17} => l \in {"rn16", NoLabel}
         /\ s \in {18, 19} => l \in {"ack", NoLabel}
         /\ s \in {22, 23} => l \in {"query", NoLabel}
         /\ s \in {32, 33} => l \in {"rn_crc", NoLabel}
         /\ s \in {40, 41} => l \in {"req_rn", NoLabel}
         /\ s \in {44, 45} => l = NoLabel
         /\ nak_validate(p, s) => l = "nak"
         /\ ~nak_validate(p, s) => l # "nak"
<1>1. l \in {"ack", "nak", "query", "req_rn", "rn_crc", "kill", "query_adjust", "query_rep",
             "read", "write", "rn16", NoLabel}
  BY LabelMeans DEF Labels
<1>2. /\ l = "ack" => s \in {18, 19}
      /\ l = "query" => s \in {22, 23}
      /\ l = "req_rn" => s \in {40, 41}
      /\ l = "query_rep" => s \in {4, 5}
      /\ l = "rn16" => s \in {16, 17}
  BY LabelMeans
<1>3. /\ l = "nak" => nak_validate(p, s)
      /\ l = "rn_crc" => rn_crc_validate(t, p, s)
      /\ l = "kill" => kill_validate(p, s)
      /\ l = "query_adjust" => query_adjust_validate(p, s)
      /\ l = "read" => read_validate(p, s)
      /\ l = "write" => write_validate(p, s)
  BY LabelMeans
<1>4. /\ nak_validate(p, s) => s \in {8, 9}
      /\ rn_crc_validate(t, p, s) => s \in {32, 33}
      /\ kill_validate(p, s) => s \in {59, 60}
      /\ query_adjust_validate(p, s) => s \in {9, 10}
      /\ read_validate(p, s) => s \in {57, 58}
      /\ write_validate(p, s) => s \in {58, 59}
  BY DEF nak_validate, rn_crc_validate, kill_validate, query_adjust_validate, read_validate,
         write_validate, HasSize, NAK_SIZE, RN_CRC_SIZE, KILL_SIZE, QUERY_ADJUST_SIZE,
         READ_SIZE, WRITE_SIZE
<1>5. nak_validate(p, s) => ~ack_validate(p, s)
  BY <1>4 DEF ack_validate, HasSize, ACK_SIZE
<1>6. nak_validate(p, s) => l = "nak"
  BY <1>5 DEF rfid_check_command
<1> QED
  BY <1>1, <1>2, <1>3, <1>4, <1>6

\* A functional command as it arrives.
LEMMA FunctionalIsRecognised ==
  ASSUME NEW c, c \in Built(name), name \in Functional, ~UpperBitsMissed, c = cmd,
         NEW n, NEW w, Arrived(w, n, c), Shown(packages, w, n)
  PROVE  rfid_check_command(crc_table, packages, n) = name
<1> DEFINE l == rfid_check_command(crc_table, packages, n)
<1>0. /\ n \in {4, 5} => l \in {"query_rep", NoLabel}
      /\ n = 8 => l \in {"nak", NoLabel}
      /\ n = 9 => l \in {"nak", "query_adjust", NoLabel}
      /\ n = 10 => l \in {"query_adjust", NoLabel}
      /\ n \in {16, 17} => l \in {"rn16", NoLabel}
      /\ n \in {18, 19} => l \in {"ack", NoLabel}
      /\ n \in {22, 23} => l \in {"query", NoLabel}
      /\ n \in {32, 33} => l \in {"rn_crc", NoLabel}
      /\ n \in {40, 41} => l \in {"req_rn", NoLabel}
      /\ nak_validate(packages, n) => l = "nak"
      /\ ~nak_validate(packages, n) => l # "nak"
  BY ONLY LabelOfSize
<1>some. ASSUME \/ ack_validate(packages, n) \/ query_validate(packages, n)
                \/ req_rn_validate(crc_table, packages, n) \/ rn_crc_validate(crc_table, packages, n)
                \/ query_adjust_validate(packages, n) \/ query_rep_validate(packages, n)
                \/ rn16_validate(n)
         PROVE  l # NoLabel
  BY <1>some, SomeLabel
<1> HIDE DEF l
<1> SUFFICES l = name
  BY DEF l
<1>1. CASE name = "ack"
  <2>1. PICK rn : c = ack_build(rn)
    BY <1>1, BuiltShort
  <2>2. n \in {18, 19} /\ ack_validate(packages, n)
    BY <2>1, AckShows
  <2> QED
    BY <1>0, <1>1, <1>some, <2>2
<1>2. CASE name = "nak"
  <2>1. c = nak_build
    BY <1>2, BuiltShort
  <2>2. nak_validate(packages, n)
    BY <2>1, NakShows
  <2> QED
    BY <1>0, <1>2, <2>2
<1>3. CASE name = "query"
  <2>1. PICK dr \in SUBSET Bits(1), m \in SUBSET Bits(2), trext \in SUBSET Bits(1),
             sel \in SUBSET Bits(2), session \in SUBSET Bits(2), target \in SUBSET Bits(1),
             q \in SUBSET Bits(4) : c = query_build(dr, m, trext, sel, session, target, q)
    BY <1>3, BuiltShort
  <2>2. n \in {22, 23} /\ query_validate(packages, n)
    BY <2>1, QueryShows
  <2> QED
    BY <1>0, <1>3, <1>some, <2>2
<1>4. CASE name = "query_adjust"
  <2>1. PICK two \in SUBSET Bits(2), updn \in SUBSET Bits(3) : c = query_adjust_command(two, updn)
    BY <1>4, BuiltShort
  <2>2. n \in {9, 10} /\ query_adjust_validate(packages, n) /\ ~nak_validate(packages, n)
    BY <2>1, QueryAdjustShows
  <2> QED
    BY <1>0, <1>4, <1>some, <2>2
<1>5. CASE name = "query_rep"
  <2>1. PICK two \in SUBSET Bits(2) : c = query_rep_build(two)
    BY <1>5, BuiltShort
  <2>2. n \in {4, 5} /\ query_rep_validate(packages, n)
    BY <2>1, QueryRepShows
  <2> QED
    BY <1>0, <1>5, <1>some, <2>2
<1>6. CASE name = "req_rn"
  <2>1. PICK rn \in SUBSET Bits(16) : c = req_rn_build(crc_table, rn)
    BY <1>6, BuiltShort
  <2>2. crc_table = ZeroTable \/ c.result_data \cap 26 .. 31 = {}
    BY <1>6 DEF UpperBitsMissed, crc_table
  <2>3. n \in {40, 41} /\ req_rn_validate(crc_table, packages, n)
    BY <2>1, <2>2, TableType, ReqRnShows
  <2> QED
    BY <1>0, <1>6, <1>some, <2>3
<1>7. CASE name = "rn16"
  <2>1. c = rn16_build
    BY <1>7, BuiltShort
  <2>2. n \in {16, 17} /\ rn16_validate(n)
    BY <2>1, Rn16Shows
  <2> QED
    BY <1>0, <1>7, <1>some, <2>2
<1>8. CASE name = "rn_crc"
  <2>1. PICK rn \in SUBSET Bits(16) : c = rn_crc_build(crc_table, rn)
    BY <1>8, BuiltShort
  <2>2. n \in {32, 33} /\ rn_crc_validate(crc_table, packages, n)
    BY <2>1, TableType, RnCrcShows
  <2> QED
    BY <1>0, <1>8, <1>some, <2>2
<1> QED
  BY <1>1, <1>2, <1>3, <1>4, <1>5, <1>6, <1>7, <1>8 DEF Functional

\* A req_rn of which the upper bits are not fetched.
LEMMA UpperBitsAreRefused ==
  ASSUME NEW c, c \in Built("req_rn"), UpperBitsMissed, c = cmd,
         NEW n, NEW w, Arrived(w, n, c), Shown(packages, w, n)
  PROVE  rfid_check_command(crc_table, packages, n) # "req_rn"
<1>1. PICK rn \in SUBSET Bits(16) : c = req_rn_build(crc_table, rn)
  BY BuiltShort
<1>2. crc_table = FilledTable /\ c.result_data \cap 26 .. 31 # {}
  BY DEF UpperBitsMissed, crc_table
<1>3. ~req_rn_validate(FilledTable, packages, n)
  BY <1>1, <1>2, ReqRnIsRefused
<1> QED
  BY <1>2, <1>3 DEF rfid_check_command, NoLabel

\* The size of a command, and of what arrives of it.
LEMMA ArrivedSize ==
  ASSUME NEW w, NEW n, NEW c, Arrived(w, n, c)
  PROVE  n \in {c.size, c.size + 1}
BY DEF Arrived

\* No other command is taken for a functional one.
LEMMA OtherIsNotRecognised ==
  ASSUME NEW c, c \in Built(name), name \in Labels \ Functional,
         NEW n, NEW w, Arrived(w, n, c), Shown(packages, w, n)
  PROVE  rfid_check_command(crc_table, packages, n) = NoLabel
<1>1. CASE name = "select"
  <2>1. PICK d \in FullOrEmpty : c = command(d, 44)
    BY <1>1, BuiltLong
  <2>2. n \in {44, 45}
    BY <2>1, ArrivedSize DEF command
  <2> QED
    BY <2>2, LabelOfSize
<1>2. CASE name \in {"kill", "lock", "read", "write"}
  <2>1. PICK d \in FullOrEmpty, size \in 57 .. 60 : c = command(d, size)
    BY <1>2, BuiltLong
  <2> QED
    BY <2>1, ShiftedHasNoLabel
<1> QED
  BY <1>1, <1>2 DEF Labels, Functional

\* Until the first command with a package of zeros, whatever the arguments and what the stack
\* holds: a functional command that arrives with the same bits is recognised, even when the end
\* of its last symbol is taken for one bit more.  The one exception is a req_rn with one of the
\* upper six bits of its number set, when the table is filled: that one is refused always ...
THEOREM BuiltIsRecognised == Spec => []RecognisedAsBuilt
<1>1. IInv => RecognisedAsBuilt
  <2> SUFFICES ASSUME IInv, pc = "labelled", lossless, ~damaged, name \in Functional
               PROVE  label = name <=> ~UpperBitsMissed
    BY DEF RecognisedAsBuilt
  <2>1. PICK n \in Nat, w \in SUBSET Int :
          /\ Arrived(w, n, cmd) /\ Shown(packages, w, n)
          /\ label = rfid_check_command(crc_table, packages, n)
    BY WhatIsChecked DEF OnLine
  <2>2. cmd \in Built(name)
    BY DEF IInv, TypeInv
  <2>3. CASE ~UpperBitsMissed
    BY <2>1, <2>2, <2>3, FunctionalIsRecognised
  <2>4. CASE UpperBitsMissed
    BY <2>1, <2>2, <2>4, UpperBitsAreRefused DEF UpperBitsMissed
  <2> QED
    BY <2>3, <2>4
<1> QED
  BY <1>1, Invariant, PTL

\* A req_rn whose upper bits are not seen is told from the others by its size.
LEMMA ReqRnIsNoOther ==
  ASSUME NEW c, c \in Built("req_rn"), NEW n, NEW w, Arrived(w, n, c)
  PROVE  rfid_check_command(crc_table, packages, n) \in {"req_rn", NoLabel}
<1>1. PICK rn \in SUBSET Bits(16) : c = req_rn_build(crc_table, rn)
  BY BuiltShort
<1>2. n \in {40, 41}
  BY <1>1, ArrivedSize DEF req_rn_build, command, REQ_RN_SIZE
<1> QED
  BY <1>2, LabelOfSize

\* ... and no command is taken for a command of another kind.
THEOREM NeverTakenForAnother == Spec => []NeverMislabelled
<1>1. IInv => NeverMislabelled
  <2> SUFFICES ASSUME IInv, pc = "labelled", lossless, ~damaged
               PROVE  label \in {name, NoLabel}
    BY DEF NeverMislabelled
  <2>1. PICK n \in Nat, w \in SUBSET Int :
          /\ Arrived(w, n, cmd) /\ Shown(packages, w, n)
          /\ label = rfid_check_command(crc_table, packages, n)
    BY WhatIsChecked DEF OnLine
  <2>2. cmd \in Built(name) /\ name \in Labels
    BY DEF IInv, TypeInv
  <2>3. CASE name \in Functional /\ ~UpperBitsMissed
    BY <2>1, <2>2, <2>3, FunctionalIsRecognised
  <2>4. CASE UpperBitsMissed
    BY <2>1, <2>2, <2>4, ReqRnIsNoOther DEF UpperBitsMissed
  <2>5. CASE name \notin Functional
    BY <2>1, <2>2, <2>5, OtherIsNotRecognised
  <2> QED
    BY <2>3, <2>4, <2>5
<1> QED
  BY <1>1, Invariant, PTL

\* With the table filled, an rn_crc that loses or gains any one bit on the line, whatever
\* its number, is not accepted as an rn_crc.
THEOREM FilledTableRefuses == Spec => []FilledTableRefusesDamage
<1>1. IInv => FilledTableRefusesDamage
  <2> SUFFICES ASSUME IInv, initialised, name = "rn_crc", pc = "labelled", lossless, damaged
               PROVE  label # "rn_crc"
    BY DEF FilledTableRefusesDamage, DamageIsRefused
  <2>1. PICK c \in OnLine : \E n \in Nat, w \in SUBSET Int :
          /\ Arrived(w, n, c) /\ Shown(packages, w, n)
          /\ label = rfid_check_command(crc_table, packages, n)
    BY WhatIsChecked
  <2>2. PICK n \in Nat, w \in SUBSET Int :
          /\ Arrived(w, n, c) /\ Shown(packages, w, n)
          /\ label = rfid_check_command(crc_table, packages, n)
    BY <2>1
  <2>3. crc_table = FilledTable
    BY DEF crc_table
  <2>4. PICK rn \in SUBSET Bits(16) : cmd = rn_crc_build(FilledTable, rn)
    BY <2>3, BuiltShort DEF IInv, TypeInv
  <2>5. cmd.size = 32
    BY <2>4 DEF rn_crc_build, command, RN_CRC_SIZE
  <2>6. PICK bit \in Bits(32) : c = [cmd EXCEPT !.result_data = ExclusiveOr(@, {bit})]
    BY <2>5 DEF OnLine
  <2>7. ~rn_crc_validate(FilledTable, packages, n)
    BY <2>2, <2>4, <2>6, WrongBitIsNoticed
  <2> QED
    BY <2>2, <2>3, <2>7, LabelMeans
<1> QED
  BY <1>1, Invariant, PTL

\* The label of a query is given by query_validate alone.
LEMMA QueryMeans ==
  ASSUME NEW t, NEW p, NEW s, rfid_check_command(t, p, s) = "query"
  PROVE  query_validate(p, s)
BY DEF rfid_check_command, NoLabel

\* What query_validate looks at: four bits of code, and five that are to be those of crc5.
LEMMA QueryChecks ==
  ASSUME NEW w \in SUBSET Int, NEW n \in {22, 23}, NEW p, Shown(p, w, n)
  PROVE  /\ \A k \in 0 .. 21 : k \in p[0] <=> k \in w
         /\ query_validate(p, n) <=>
              /\ \A k \in 18 .. 21 : k \in w <=> k = 21
              /\ \A k \in 0 .. 4 : k \in w <=> k \in Remainder5
<1>1. p[0] \in SUBSET (0 .. 25) /\ \A k \in 0 .. 25 : k \in p[0] <=> k \in w
  BY ThreePackages
<1>2. ExtractField(p[0], 4, 18) = {3} <=> \A k \in 18 .. 21 : k \in w <=> k = 21
  <2> DEFINE code == ExtractField(p[0], 4, 18)
  <2>0. p[0] \in SUBSET Int
    BY <1>1
  <2>1. /\ code \in SUBSET (0 .. 4 - 1)
        /\ \A k \in 0 .. 4 - 1 : k \in code <=> k + 18 \in p[0]
    BY ONLY <2>0, 4 \in Nat, 18 \in Nat, ExtractBits
  <2> HIDE DEF code
  <2>2. code = {3} <=> \A k \in 0 .. 3 : k \in code <=> k = 3
    <3>1. ASSUME \A k \in 0 .. 3 : k \in code <=> k = 3
          PROVE  code = {3}
      <4>1. \A k \in code : k \in 0 .. 3
        BY ONLY <2>1
      <4>2. \A k \in code : k = 3
        BY ONLY <3>1, <4>1
      <4>3. 3 \in code
        BY ONLY <3>1
      <4> QED
        BY ONLY <4>2, <4>3
    <3>2. ASSUME code = {3}
          PROVE  \A k \in 0 .. 3 : k \in code <=> k = 3
      BY ONLY <3>2
    <3> QED
      BY ONLY <3>1, <3>2
  <2>3. \A k \in 0 .. 3 : k \in code <=> k + 18 \in w
    BY <1>1, <2>1
  <2>4. ASSUME \A k \in 0 .. 3 : k + 18 \in w <=> k = 3
        PROVE  \A k \in 18 .. 21 : k \in w <=> k = 21
    <3> TAKE k \in 18 .. 21
    <3>1. k - 18 \in 0 .. 3 /\ (k - 18) + 18 = k
      OBVIOUS
    <3> QED
      BY <2>4, <3>1
  <2>5. ASSUME \A k \in 18 .. 21 : k \in w <=> k = 21
        PROVE  \A k \in 0 .. 3 : k + 18 \in w <=> k = 3
    BY <2>5
  <2> QED
    BY <2>2, <2>3, <2>4, <2>5 DEF code
<1>3. Low(p[0], 5) = Remainder5 <=> \A k \in 0 .. 4 : k \in w <=> k \in Remainder5
  <2> DEFINE low == Low(p[0], 5)
  <2>1. /\ low \in SUBSET (0 .. 5 - 1)
        /\ \A k \in 0 .. 5 - 1 : k \in low <=> k \in p[0]
    BY ONLY 5 \in Nat, LowBits
  <2>2. Remainder5 \in SUBSET (0 .. 4)
    BY Crc5Type DEF crc5, Bits
  <2>3. \A k \in 0 .. 4 : k \in low <=> k \in w
    BY <1>1, <2>1
  <2> HIDE DEF low
  <2>4. ASSUME \A k \in 0 .. 4 : k \in w <=> k \in Remainder5
        PROVE  low = Remainder5
    <3>1. \A k \in low : k \in 0 .. 4
      BY ONLY <2>1
    <3>2. \A k \in Remainder5 : k \in 0 .. 4
      BY ONLY <2>2
    <3>3. \A k \in 0 .. 4 : k \in low <=> k \in Remainder5
      BY ONLY <2>3, <2>4
    <3> QED
      BY ONLY <3>1, <3>2, <3>3
  <2>5. ASSUME low = Remainder5
        PROVE  \A k \in 0 .. 4 : k \in w <=> k \in Remainder5
    BY ONLY <2>3, <2>5
  <2> QED
    BY ONLY <2>4, <2>5 DEF low
<1> QED
  BY <1>1, <1>2, <1>3 DEF query_validate, HasSize, QUERY_SIZE, QUERY_COMMAND, crc5

\* The same bits of a query that was built.
LEMMA QueryHas ==
  ASSUME NEW c \in Built("query")
  PROVE  /\ c.size = 22
         /\ \A k \in 18 .. 21 : k \in c.result_data <=> k = 21
         /\ \A k \in 0 .. 4 : k \in c.result_data <=> k \in Remainder5
<1>1. PICK dr \in SUBSET Bits(1), m \in SUBSET Bits(2), trext \in SUBSET Bits(1),
           sel \in SUBSET Bits(2), session \in SUBSET Bits(2), target \in SUBSET Bits(1),
           q \in SUBSET Bits(4) : c = query_build(dr, m, trext, sel, session, target, q)
  BY BuiltShort
<1>2. c.size = 22
  BY <1>1 DEF query_build, command, QUERY_SIZE
<1> DEFINE w == c.result_data \cap Bits(22)
           p == [k \in {0} |-> ExtractField(w, 26, 26 * k)]
<1>3. w \in SUBSET Int /\ Arrived(w, 22, c)
  BY <1>2 DEF Arrived, Bits
<1>4. Shown(p, w, 22)
  <2>1. \A k \in 0 .. 22 \div 26 : k = 0
    OBVIOUS
  <2> QED
    BY <2>1 DEF Shown
<1>5. \A k \in 0 .. 21 : k \in w <=> k \in c.result_data
  BY DEF Bits
<1> HIDE DEF w, p
<1>6. query_validate(p, 22)
  BY <1>1, <1>3, <1>4, QueryShows
<1>7. /\ \A k \in 18 .. 21 : k \in w <=> k = 21
      /\ \A k \in 0 .. 4 : k \in w <=> k \in Remainder5
  BY <1>3, <1>4, <1>6, QueryChecks
<1> QED
  BY <1>2, <1>5, <1>7

\* crc5 never reads its argument.  Whatever the fields of a query: with one bit flipped it is
\* still taken for a query if its code and the five bits of its CRC are whole, and only then.
THEOREM QueryIsUnchecked == Spec => []OnlyCodeAndCrcOfQuery
<1>1. IInv => OnlyCodeAndCrcOfQuery
  <2> DEFINE whole == \A bit \in 0 .. 4 \cup 18 .. 21 : bit \in packages[0] <=> bit \in cmd.result_data
  <2> SUFFICES ASSUME IInv, pc = "labelled", lossless, damaged, name = "query"
               PROVE  label = "query" <=> whole
    BY DEF OnlyCodeAndCrcOfQuery
  <2>1. PICK c \in OnLine : \E n \in Nat, w \in SUBSET Int :
          /\ Arrived(w, n, c) /\ Shown(packages, w, n)
          /\ label = rfid_check_command(crc_table, packages, n)
    BY WhatIsChecked
  <2>2. PICK n \in Nat, w \in SUBSET Int :
          /\ Arrived(w, n, c) /\ Shown(packages, w, n)
          /\ label = rfid_check_command(crc_table, packages, n)
    BY <2>1
  <2>3. /\ cmd.size = 22
        /\ \A k \in 18 .. 21 : k \in cmd.result_data <=> k = 21
        /\ \A k \in 0 .. 4 : k \in cmd.result_data <=> k \in Remainder5
    BY QueryHas DEF IInv, TypeInv
  <2>4. n \in {22, 23}
    BY <2>2, <2>3, ArrivedSize, OnLineType DEF IInv
  <2>5. /\ \A k \in 0 .. 21 : k \in packages[0] <=> k \in w
        /\ query_validate(packages, n) <=>
             /\ \A k \in 18 .. 21 : k \in w <=> k = 21
             /\ \A k \in 0 .. 4 : k \in w <=> k \in Remainder5
    BY <2>2, <2>4, QueryChecks
  <2>6. query_validate(packages, n) <=> whole
    BY <2>3, <2>5
  <2>7. label = "query" => query_validate(packages, n)
    BY <2>2, QueryMeans
  <2>8. query_validate(packages, n) => label = "query"
    BY <2>2, <2>4, LabelOfSize, SomeLabel
  <2> QED
    BY <2>6, <2>7, <2>8
<1> QED
  BY <1>1, Invariant, PTL
=============================================================================
