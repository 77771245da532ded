---------------------------- MODULE Tester_proofs ----------------------------
(***************************************************************************)
(* Theorems of Tester for every set of commands, every timing, every width *)
(* of a package, every depth of the FIFOs and every gap between accesses:  *)
(* the program and the receiver's FIFO agree on every word, though a poll, *)
(* a read and a pulse that are several accesses apart lie between them.    *)
(***************************************************************************)
EXTENDS Tester, TLAPS

\* A sequence, of whatever.
IsSeq(s) == \E S : s \in Seq(S)

-----------------------------------------------------------------------------
(* FIFOs.                                                                  *)

LEMMA AppendIsSeq ==
  ASSUME NEW s, IsSeq(s), NEW w
  PROVE  /\ IsSeq(Append(s, w))
         /\ s # <<>> => Append(s, w) # <<>> /\ Head(Append(s, w)) = Head(s)
<1>1. PICK S : s \in Seq(S)
  BY DEF IsSeq
<1> DEFINE T == S \cup {w}
<1>2. s \in Seq(T) /\ w \in T
  BY <1>1
<1> HIDE DEF T
<1>3. Append(s, w) \in Seq(T)
  BY <1>2
<1>4. s # <<>> => Append(s, w) # <<>> /\ Head(Append(s, w)) = Head(s)
  BY <1>2
<1> QED
  BY <1>3, <1>4 DEF IsSeq

LEMMA TailIsSeq ==
  ASSUME NEW s, IsSeq(s), s # <<>>
  PROVE  IsSeq(Tail(s))
<1>1. PICK S : s \in Seq(S)
  BY DEF IsSeq
<1>2. Tail(s) \in Seq(S)
  BY <1>1
<1> QED
  BY <1>2 DEF IsSeq

\* A FIFO that nobody clears: without a read its oldest word stays where it is.
LEMMA FifoKeepsHead ==
  ASSUME NEW fifo, IsSeq(fifo), NEW wrreq, NEW word, NEW rdreq
  PROVE  LET after == Clocked(fifo, wrreq, word, rdreq, 0)
         IN /\ IsSeq(after)
            /\ rdreq = 0 /\ fifo # <<>> => after # <<>> /\ Head(after) = Head(fifo)
<1> DEFINE popped == Pop(fifo, rdreq)
<1>1. IsSeq(popped) /\ (rdreq = 0 => popped = fifo)
  BY TailIsSeq DEF Pop
<1>2. Clocked(fifo, wrreq, word, rdreq, 0) \in {popped, Append(popped, word)}
  BY DEF Clocked
<1> HIDE DEF popped
<1> QED
  BY <1>1, <1>2, AppendIsSeq

-----------------------------------------------------------------------------
(* One clock of the peripheral, as far as the read request goes.           *)

Writing == beats > 0 /\ bus.write
Reading == beats > 0 /\ ~bus.write

LEMMA ClockOfSettings ==
  ASSUME rfid!Tick
  PROVE  reg_settings' = IF rst = 1 THEN {}
                         ELSE IF rst = 0 /\ Writing /\ bus.address = 0 THEN bus.data.flags
                         ELSE reg_settings
BY DEF rfid!Tick, rfid!Bank, rfid!ResetBank, rfid!WriteSettings, rfid!WriteFifo, rfid!WriteTiming,
     rfid!Write, rfid!ReadRegister, rfid!NoAccess, Writing

LEMMA ClockOfReadData ==
  ASSUME rfid!Tick
  PROVE  avs_readdata' = IF rst = 0 /\ Reading THEN rfid!ReadValue ELSE avs_readdata
BY DEF rfid!Tick, rfid!Bank, rfid!ResetBank, rfid!WriteSettings, rfid!WriteFifo, rfid!WriteTiming,
     rfid!Write, rfid!ReadRegister, rfid!NoAccess, Reading

LEMMA ClockOfPulse ==
  ASSUME rfid!Tick
  PROVE  /\ rdreq_pulse' = IF 11 \notin reg_settings /\ 12 \in reg_settings /\ ~already_read
                           THEN 1 ELSE 0
         /\ already_read' = (11 \notin reg_settings /\ 12 \in reg_settings)
BY DEF rfid!Tick, rfid!rfid_receiver!Tick, rfid!rfid_receiver!PulseGenerator, rfid!Setting

LEMMA ClockOfFifo ==
  ASSUME rfid!Tick, IsSeq(rx_fifo)
  PROVE  /\ IsSeq(rx_fifo')
         /\ rdreq_pulse = 0 /\ rx_fifo # <<>> => rx_fifo' # <<>> /\ Head(rx_fifo') = Head(rx_fifo)
<1>1. rx_fifo' = Clocked(rx_fifo, write_request, rfid!rfid_receiver!pack_const!data_out,
                         rdreq_pulse, 0)
  BY DEF rfid!Tick, rfid!rfid_receiver!Tick, rfid!rfid_receiver!Fifo, rfid!rfid_receiver!Clocked,
       rfid!rfid_receiver!Pop, rfid!rfid_receiver!Full, Clocked, Pop, Full
<1> QED
  BY <1>1, FifoKeepsHead

LEMMA StatusShowsEmpty == 13 \in rfid!reg_status <=> rx_fifo = <<>>
BY DEF rfid!reg_status, rfid!rfid_receiver!empty, rfid!rfid_receiver!Empty

LEMMA StatusIsRead ==
  ASSUME bus = nios!IORD(nios!BASE_REG_STATUS)
  PROVE  13 \notin rfid!ReadValue.flags => rx_fifo # <<>>
<1>1. bus.address = 3
  BY DEF nios!IORD, nios!BASE_REG_STATUS
<1>2. rfid!ReadValue = rfid!FlagsWord(rfid!reg_status)
  BY <1>1 DEF rfid!ReadValue
<1> QED
  BY <1>2, StatusShowsEmpty DEF rfid!FlagsWord, rfid!BlankWord

LEMMA OldestIsRead ==
  ASSUME bus = nios!IORD(nios!BASE_RECEIVER_DATA), rx_fifo # <<>>
  PROVE  rfid!ReadValue.package = Head(rx_fifo)
<1>1. bus.address = 4
  BY DEF nios!IORD, nios!BASE_RECEIVER_DATA
<1>2. rfid!ReadValue = rfid!PackageWord(Head(rx_fifo))
  BY <1>1 DEF rfid!ReadValue, rfid!rfid_receiver!data_out_fifo, rfid!rfid_receiver!Q
<1> QED
  BY <1>2 DEF rfid!PackageWord, rfid!BlankWord

-----------------------------------------------------------------------------
(* The invariant.                                                          *)

Raise == nios!RegSet(nios!Enabled \cup {nios!MASK_READ_REQ})
Lower == nios!RegSet(nios!Enabled)

\* An access that raises the read request.
Requests(access) == access.write /\ access.address = 0 /\ 12 \in access.data.flags

\* The oldest word has been read and is still in the FIFO.
Pending == rx_fifo # <<>> /\ package = Head(rx_fifo)

TypeInv ==
  /\ rst \in {0, 1} /\ beats \in 0 .. 2 /\ rdreq_pulse \in {0, 1}
  /\ already_read \in BOOLEAN
  /\ IsSeq(todo) /\ IsSeq(rx_fifo)
  /\ rst = 1 => pc = "main" /\ beats = 0

\* Outside receiver_rdreq nothing raises the read request.
IdleInv ==
  pc # "masked" =>
    /\ 12 \notin reg_settings /\ rdreq_pulse = 0
    /\ \A k \in 1 .. Len(todo) : ~Requests(todo[k])
    /\ beats > 0 => ~Requests(bus)

\* What the program knows of the FIFO stays true.
PolledInv ==
  pc = "empty" =>
    /\ todo = <<>>
    /\ beats > 0 => bus = nios!IORD(nios!BASE_REG_STATUS)
    /\ beats = 0 /\ 13 \notin avs_readdata.flags => rx_fifo # <<>>

ReadInv ==
  pc = "rdreq" =>
    /\ todo = <<>> /\ rx_fifo # <<>>
    /\ beats > 0 => bus = nios!IORD(nios!BASE_RECEIVER_DATA)
    /\ beats = 0 => avs_readdata.package = Head(rx_fifo)

\* The stages of receiver_rdreq, from the word that is read to the word that is gone.
Due ==
  /\ todo = <<Raise, Lower>> /\ beats = 0
  /\ 12 \notin reg_settings /\ rdreq_pulse = 0 /\ Pending
Raising ==
  /\ todo = <<Lower>> /\ bus = Raise /\ beats = 1
  /\ 12 \notin reg_settings /\ rdreq_pulse = 0 /\ Pending
Raised ==
  /\ todo = <<Lower>> /\ beats = 0 /\ reg_settings = Raise.data.flags
  /\ ~already_read => rdreq_pulse = 0 /\ Pending
  /\ rdreq_pulse = 1 => Pending
Lowering ==
  /\ todo = <<>> /\ bus = Lower /\ beats = 1 /\ reg_settings = Raise.data.flags
  /\ already_read /\ (rdreq_pulse = 1 => Pending)
Lowered == todo = <<>> /\ beats = 0 /\ 12 \notin reg_settings /\ rdreq_pulse = 0

RequestInv == pc = "masked" => Due \/ Raising \/ Raised \/ Lowering \/ Lowered

IInv == TypeInv /\ IdleInv /\ PolledInv /\ ReadInv /\ RequestInv

LEMMA RdreqWords ==
  /\ Raise.write /\ Raise.address = 0 /\ Raise.data.flags = {1, 4, 8, 12}
  /\ Lower.write /\ Lower.address = 0 /\ Lower.data.flags = {1, 4, 8}
BY DEF Raise, Lower, nios!RegSet, nios!IOWR, nios!FlagsWord, nios!BlankWord, nios!Enabled,
     nios!MASK_READ_REQ, nios!MASK_EN, nios!MASK_LOOPBACK, nios!MASK_EN_RECEIVER, nios!BASE_REG_SET

LEMMA FlagsThatRequest ==
  ASSUME NEW flags
  PROVE  Requests(nios!RegSet(flags)) <=> 12 \in flags
BY DEF Requests, nios!RegSet, nios!IOWR, nios!FlagsWord, nios!BlankWord, nios!BASE_REG_SET

\* Only a word of settings can raise the request.
LEMMA OthersDoNotRequest ==
  /\ \A address : ~Requests(nios!IORD(address))
  /\ \A p : ~Requests(nios!RegFifo(p))
  /\ \A address, n : address # 0 => ~Requests(nios!RegNumber(address, n))
BY DEF Requests, nios!IORD, nios!RegFifo, nios!RegNumber, nios!IOWR, nios!BASE_REG_FIFO

\* The clock of the peripheral in any stage of the program.
LEMMA Clock ==
  ASSUME IInv, rfid!Tick
  PROVE  /\ IsSeq(rx_fifo') /\ rdreq_pulse' \in {0, 1} /\ already_read' \in BOOLEAN
         /\ rdreq_pulse = 0 /\ rx_fifo # <<>> => rx_fifo' # <<>> /\ Head(rx_fifo') = Head(rx_fifo)
         /\ pc # "masked" => 12 \notin reg_settings' /\ rdreq_pulse' = 0
         /\ beats = 0 => avs_readdata' = avs_readdata
         /\ beats = 0 /\ rst = 0 => reg_settings' = reg_settings
<1>1. IsSeq(rx_fifo') /\ (rdreq_pulse = 0 /\ rx_fifo # <<>>
                            => rx_fifo' # <<>> /\ Head(rx_fifo') = Head(rx_fifo))
  BY ClockOfFifo DEF IInv, TypeInv
<1>2. rdreq_pulse' \in {0, 1} /\ already_read' \in BOOLEAN
  BY ClockOfPulse
<1>3. ASSUME pc # "masked" PROVE 12 \notin reg_settings' /\ rdreq_pulse' = 0
  BY <1>3, ClockOfPulse, ClockOfSettings DEF IInv, IdleInv, Requests, Writing
<1>4. beats = 0 => avs_readdata' = avs_readdata
  BY ClockOfReadData DEF Reading
<1>5. beats = 0 /\ rst = 0 => reg_settings' = reg_settings
  BY ClockOfSettings DEF Writing
<1> QED
  BY <1>1, <1>2, <1>3, <1>4, <1>5

\* Steps that have nothing to do with the receiver's words.
LEMMA Elsewhere ==
  ASSUME IInv, rfid!Tick, rst' = 0, pc # "masked", pc' \notin {"masked", "empty", "rdreq"},
         beats' \in 0 .. 2, IsSeq(todo'), \A k \in 1 .. Len(todo') : ~Requests(todo'[k]),
         beats' > 0 => ~Requests(bus')
  PROVE  IInv'
<1>1. TypeInv'
  BY Clock DEF TypeInv
<1>2. IdleInv'
  BY Clock DEF IdleInv
<1> QED
  BY <1>1, <1>2 DEF IInv, PolledInv, ReadInv, RequestInv

-----------------------------------------------------------------------------
(* The first state.                                                        *)

NoRequests(s) == IsSeq(s) /\ \A k \in 1 .. Len(s) : ~Requests(s[k])

LEMMA Concatenated ==
  ASSUME NEW s, NEW t, NoRequests(s), NoRequests(t)
  PROVE  NoRequests(s \o t)
<1>1. PICK S : s \in Seq(S)
  BY DEF NoRequests, IsSeq
<1>2. PICK T : t \in Seq(T)
  BY DEF NoRequests, IsSeq
<1> DEFINE U == S \cup T
<1>3. s \in Seq(U) /\ t \in Seq(U)
  BY <1>1, <1>2
<1> HIDE DEF U
<1>4. s \o t \in Seq(U)
  BY <1>3
<1>5. \A k \in 1 .. Len(s \o t) : (s \o t)[k] = IF k <= Len(s) THEN s[k] ELSE t[k - Len(s)]
  BY <1>3
<1>6. Len(s \o t) = Len(s) + Len(t) /\ Len(s) \in Nat /\ Len(t) \in Nat
  BY <1>3
<1>7. \A k \in 1 .. Len(s \o t) : ~Requests((s \o t)[k])
  BY <1>5, <1>6 DEF NoRequests
<1> QED
  BY <1>4, <1>7 DEF NoRequests, IsSeq

LEMMA TwoAccesses ==
  ASSUME NEW a, NEW b, ~Requests(a), ~Requests(b)
  PROVE  NoRequests(<<a, b>>)
<1>1. <<a, b>> \in Seq({a, b}) /\ Len(<<a, b>>) = 2
  OBVIOUS
<1>2. \A k \in 1 .. Len(<<a, b>>) : <<a, b>>[k] \in {a, b}
  BY <1>1
<1>3. IsSeq(<<a, b>>)
  BY <1>1 DEF IsSeq
<1> QED
  BY <1>2, <1>3 DEF NoRequests

LEMMA SetUpRequestsNothing ==
  ASSUME NEW usesPreorFrameSync \in BOOLEAN, NEW isPreamble \in BOOLEAN
  PROVE  NoRequests(nios!SetUp(usesPreorFrameSync, isPreamble))
<1> DEFINE writes ==
             <<nios!RegSet({nios!MASK_LOOPBACK}), nios!RegNumber(nios!BASE_REG_TARI, timing.tari),
               nios!RegSet({nios!MASK_LOOPBACK, nios!MASK_EN}), nios!RegSet(nios!Enabled),
               nios!RegNumber(3, timing.tari_101), nios!RegNumber(4, timing.tari_099),
               nios!RegNumber(5, timing.tari_1616), nios!RegNumber(6, timing.tari_1584),
               nios!RegNumber(7, timing.pw), nios!RegNumber(8, timing.delimiter),
               nios!RegNumber(9, timing.RTcal), nios!RegNumber(10, timing.TRcal)>>
<1>1. /\ 12 \notin nios!Enabled /\ 12 \notin {nios!MASK_LOOPBACK}
      /\ 12 \notin {nios!MASK_LOOPBACK, nios!MASK_EN}
      /\ 12 \notin {nios!MASK_EN, nios!MASK_EN_RECEIVER} /\ nios!BASE_REG_TARI # 0
  BY DEF nios!Enabled, nios!MASK_LOOPBACK, nios!MASK_EN, nios!MASK_EN_RECEIVER, nios!BASE_REG_TARI
<1>2. \A k \in 1 .. 12 : ~Requests(writes[k])
  BY <1>1, FlagsThatRequest, OthersDoNotRequest
<1>3. IsSeq(writes) /\ Len(writes) = 12
  <2>1. \E S : writes \in Seq(S)
    <3> DEFINE S == {writes[k] : k \in 1 .. 12}
    <3>1. writes \in Seq(S) /\ Len(writes) = 12
      OBVIOUS
    <3> QED
      BY <3>1
  <2> QED
    BY <2>1 DEF IsSeq
<1>4. NoRequests(writes)
  BY <1>2, <1>3 DEF NoRequests
<1> HIDE DEF writes
<1>one. ASSUME NEW a, ~Requests(a) PROVE NoRequests(<<a>>)
  <2>1. <<a>> \in Seq({a}) /\ Len(<<a>>) = 1 /\ <<a>>[1] = a
    OBVIOUS
  <2>2. \A k \in 1 .. Len(<<a>>) : <<a>>[k] = a
    BY <2>1
  <2>3. IsSeq(<<a>>)
    BY <2>1 DEF IsSeq
  <2> QED
    BY <2>2, <2>3, <1>one DEF NoRequests
<1>none. NoRequests(<<>>)
  <2>1. <<>> \in Seq({}) /\ Len(<<>>) = 0
    OBVIOUS
  <2> QED
    BY <2>1 DEF NoRequests, IsSeq
<1>5. NoRequests(nios!sender_has_gen(usesPreorFrameSync))
  BY <1>1, <1>one, <1>none, FlagsThatRequest DEF nios!sender_has_gen
<1>6. NoRequests(IF isPreamble THEN nios!sender_is_preamble ELSE <<>>)
  BY <1>1, <1>one, <1>none, FlagsThatRequest DEF nios!sender_is_preamble
<1>7. NoRequests(<<nios!IORD(nios!BASE_ID)>>)
  BY <1>one, OthersDoNotRequest
<1>8. nios!SetUp(usesPreorFrameSync, isPreamble)
        = writes \o nios!sender_has_gen(usesPreorFrameSync)
            \o (IF isPreamble THEN nios!sender_is_preamble ELSE <<>>)
            \o <<nios!IORD(nios!BASE_ID)>>
  BY DEF nios!SetUp, writes
<1> QED
  BY <1>4, <1>5, <1>6, <1>7, <1>8, Concatenated

LEMMA InitIInv == Init => IInv
<1> SUFFICES ASSUME Init PROVE IInv
  OBVIOUS
<1>1. PICK g \in BOOLEAN, p \in BOOLEAN : todo = nios!SetUp(g, p)
  BY DEF Init, nios!InitRegisters
<1>2. NoRequests(todo)
  BY <1>1, SetUpRequestsNothing
<1>3. /\ rst = 1 /\ pc = "main" /\ beats = 0 /\ reg_settings = {}
      /\ rdreq_pulse = 0 /\ already_read = FALSE /\ rx_fifo = <<>>
  BY DEF Init, nios!InitRegisters, rfid!InitRegisters, rfid!rfid_receiver!InitRegisters
<1>4. IsSeq(rx_fifo)
  <2>1. <<>> \in Seq({})
    OBVIOUS
  <2> QED
    BY <1>3, <2>1 DEF IsSeq
<1>5. TypeInv
  <2>1. already_read \in BOOLEAN
    BY <1>3, Zenon
  <2>2. rst \in {0, 1} /\ beats \in 0 .. 2 /\ rdreq_pulse \in {0, 1}
    BY <1>3, SMT
  <2> QED
    BY <1>2, <1>3, <1>4, <2>1, <2>2, Zenon DEF TypeInv, NoRequests
<1>6. IdleInv
  BY <1>2, <1>3 DEF IdleInv, NoRequests
<1> QED
  BY <1>3, <1>5, <1>6 DEF IInv, PolledInv, ReadInv, RequestInv
-----------------------------------------------------------------------------
(* Every clock.                                                            *)

\* An access is under way, or the clocks after it go by.
LEMMA BusIsBusy ==
  ASSUME IInv, rfid!Tick, rst = 0, rst' = 0, nios!Access \/ nios!Pause
  PROVE  IInv'
<1>1. /\ UNCHANGED <<bus, pc, todo, command, package>>
      /\ beats' = IF beats > 0 THEN beats - 1 ELSE beats
      /\ beats = 0 => beats' = 0
  BY DEF nios!Access, nios!Pause, nios!send_vars, nios!receive_vars, IInv, TypeInv
<1>2. beats \in 0 .. 2 /\ beats' \in 0 .. 2 /\ (beats' > 0 => beats > 0)
  BY <1>1 DEF IInv, TypeInv
<1>3. TypeInv'
  BY <1>1, <1>2, Clock DEF IInv, TypeInv
<1>4. IdleInv'
  BY <1>1, <1>2, Clock DEF IInv, IdleInv
<1>5. PolledInv'
  <2> SUFFICES ASSUME pc = "empty" PROVE PolledInv'
    BY <1>1 DEF PolledInv
  <2>1. rdreq_pulse = 0 /\ (beats > 0 => bus = nios!IORD(nios!BASE_REG_STATUS)) /\ todo = <<>>
    BY DEF IInv, IdleInv, PolledInv
  <2>2. CASE beats > 0
    <3>1. Reading
      BY <2>1, <2>2 DEF Reading, nios!IORD
    <3>2. avs_readdata' = rfid!ReadValue
      BY <3>1, ClockOfReadData
    <3>3. 13 \notin avs_readdata'.flags => rx_fifo # <<>>
      BY <2>1, <2>2, <3>2, StatusIsRead
    <3> QED
      BY <1>1, <1>2, <2>1, <2>2, <3>3, Clock DEF PolledInv
  <2>3. CASE beats = 0
    BY <1>1, <2>1, <2>3, Clock DEF IInv, PolledInv
  <2> QED
    BY <1>2, <2>2, <2>3
<1>6. ReadInv'
  <2> SUFFICES ASSUME pc = "rdreq" PROVE ReadInv'
    BY <1>1 DEF ReadInv
  <2>1. /\ rdreq_pulse = 0 /\ (beats > 0 => bus = nios!IORD(nios!BASE_RECEIVER_DATA))
        /\ todo = <<>> /\ rx_fifo # <<>>
    BY DEF IInv, IdleInv, ReadInv
  <2>2. CASE beats > 0
    <3>1. Reading
      BY <2>1, <2>2 DEF Reading, nios!IORD
    <3>2. avs_readdata' = rfid!ReadValue
      BY <3>1, ClockOfReadData
    <3>3. avs_readdata'.package = Head(rx_fifo)
      BY <2>1, <2>2, <3>2, OldestIsRead
    <3> QED
      BY <1>1, <1>2, <2>1, <2>2, <3>3, Clock DEF ReadInv
  <2>3. CASE beats = 0
    BY <1>1, <2>1, <2>3, Clock DEF IInv, ReadInv
  <2> QED
    BY <1>2, <2>2, <2>3
<1>7. RequestInv'
  <2> SUFFICES ASSUME pc = "masked" PROVE (Due \/ Raising \/ Raised \/ Lowering \/ Lowered)'
    BY <1>1 DEF RequestInv
  <2>1. Due \/ Raising \/ Raised \/ Lowering \/ Lowered
    BY DEF IInv, RequestInv
  <2>2. CASE Due
    <3>1. reg_settings' = reg_settings /\ beats' = 0
      BY <1>1, <2>2, Clock DEF Due
    <3>2. rdreq_pulse' = 0
      BY <2>2, ClockOfPulse DEF Due
    <3>3. Pending'
      BY <1>1, <2>2, Clock DEF Due, Pending
    <3> QED
      BY <1>1, <2>2, <3>1, <3>2, <3>3 DEF Due
  <2>3. CASE Raising
    <3>1. Writing /\ bus.address = 0 /\ beats' = 0
      BY <1>1, <2>3, RdreqWords DEF Raising, Writing
    <3>2. reg_settings' = Raise.data.flags
      BY <2>3, <3>1, ClockOfSettings DEF Raising
    <3>3. rdreq_pulse' = 0
      BY <2>3, ClockOfPulse DEF Raising
    <3>4. Pending'
      BY <1>1, <2>3, Clock DEF Raising, Pending
    <3> QED
      BY <1>1, <2>3, <3>1, <3>2, <3>3, <3>4 DEF Raising, Raised
  <2>4. CASE Raised
    <3>1. reg_settings' = reg_settings /\ beats' = 0 /\ 12 \in reg_settings /\ 11 \notin reg_settings
      BY <1>1, <2>4, Clock, RdreqWords DEF Raised
    <3>2. already_read' /\ (rdreq_pulse' = 1 => ~already_read)
      BY <3>1, ClockOfPulse
    <3>3. rdreq_pulse' = 1 => Pending'
      BY <1>1, <2>4, <3>2, Clock DEF Raised, Pending
    <3> QED
      BY <1>1, <2>4, <3>1, <3>2, <3>3 DEF Raised
  <2>5. CASE Lowering
    <3>1. Writing /\ bus.address = 0 /\ beats' = 0
      BY <1>1, <2>5, RdreqWords DEF Lowering, Writing
    <3>2. 12 \notin reg_settings'
      BY <2>5, <3>1, ClockOfSettings, RdreqWords DEF Lowering
    <3>3. rdreq_pulse' = 0
      BY <2>5, ClockOfPulse DEF Lowering
    <3> QED
      BY <1>1, <2>5, <3>1, <3>2, <3>3 DEF Lowering, Lowered
  <2>6. CASE Lowered
    <3>1. reg_settings' = reg_settings /\ beats' = 0
      BY <1>1, <2>6, Clock DEF Lowered
    <3>2. rdreq_pulse' = 0
      BY <2>6, ClockOfPulse DEF Lowered
    <3> QED
      BY <1>1, <2>6, <3>1, <3>2 DEF Lowered
  <2> QED
    BY <2>1, <2>2, <2>3, <2>4, <2>5, <2>6
<1> QED
  BY <1>3, <1>4, <1>5, <1>6, <1>7 DEF IInv

\* The next access of those that are due.
LEMMA NextAccessIsIssued ==
  ASSUME IInv, rfid!Tick, rst = 0, rst' = 0, nios!NextAccess
  PROVE  IInv'
<1>1. /\ beats = 0 /\ todo # <<>> /\ todo' = Tail(todo) /\ bus' = Head(todo)
      /\ UNCHANGED <<pc, package>> /\ beats' \in {1, 2}
      /\ bus'.write => beats' = 1
  BY DEF nios!NextAccess, nios!Ready, nios!Issue, nios!receive_vars
<1>2. IsSeq(todo')
  BY <1>1, TailIsSeq DEF IInv, TypeInv
<1>3. pc \notin {"empty", "rdreq"}
  BY <1>1 DEF IInv, PolledInv, ReadInv
<1>4. CASE pc # "masked"
  <2>1. PICK S : todo \in Seq(S)
    BY DEF IInv, TypeInv, IsSeq
  <2>2. /\ Len(todo') = Len(todo) - 1 /\ Len(todo) \in Nat /\ Len(todo) >= 1
        /\ \A k \in 1 .. Len(todo') : todo'[k] = todo[k + 1]
        /\ bus' = todo[1]
    BY <1>1, <2>1
  <2>3. ~Requests(bus') /\ \A k \in 1 .. Len(todo') : ~Requests(todo'[k])
    BY <1>4, <2>2 DEF IInv, IdleInv
  <2> QED
    BY <1>1, <1>2, <1>3, <1>4, <2>3, Elsewhere
<1>5. CASE pc = "masked"
  <2>1. Due \/ Raised
    BY <1>1, <1>5 DEF IInv, RequestInv, Raising, Lowering, Lowered
  <2>2. CASE Due
    <3>1. bus' = Raise /\ todo' = <<Lower>> /\ beats' = 1
      BY <1>1, <2>2, RdreqWords DEF Due
    <3>2. 12 \notin reg_settings' /\ rdreq_pulse' = 0
      BY <2>2, Clock, ClockOfPulse DEF Due
    <3>3. Pending'
      BY <1>1, <2>2, Clock DEF Due, Pending
    <3>4. RequestInv'
      BY <3>1, <3>2, <3>3 DEF RequestInv, Raising
    <3> QED
      BY <1>1, <1>2, <1>5, <3>1, <3>4, Clock DEF IInv, TypeInv, IdleInv, PolledInv, ReadInv
  <2>3. CASE Raised
    <3>1. bus' = Lower /\ todo' = <<>> /\ beats' = 1
      BY <1>1, <2>3, RdreqWords DEF Raised
    <3>2. reg_settings' = Raise.data.flags /\ 12 \in reg_settings /\ 11 \notin reg_settings
      BY <2>3, Clock, RdreqWords DEF Raised
    <3>3. already_read' /\ (rdreq_pulse' = 1 => ~already_read)
      BY <3>2, ClockOfPulse
    <3>4. rdreq_pulse' = 1 => Pending'
      BY <1>1, <2>3, <3>3, Clock DEF Raised, Pending
    <3>5. RequestInv'
      BY <3>1, <3>2, <3>3, <3>4 DEF RequestInv, Lowering
    <3> QED
      BY <1>1, <1>2, <1>5, <3>1, <3>5, Clock DEF IInv, TypeInv, IdleInv, PolledInv, ReadInv
  <2> QED
    BY <2>1, <2>2, <2>3
<1> QED
  BY <1>4, <1>5

\* sender_send_command, and what of receiver_get_package comes before a poll.
LEMMA SendingStep ==
  ASSUME IInv, rfid!Tick, rst = 0, rst' = 0,
         \/ nios!SendCommand \/ nios!CheckFifoFull \/ nios!FifoFull \/ nios!SendPackage
         \/ nios!SendEndOfPackage \/ nios!StartCtrl \/ nios!ReadFinishedSend
         \/ nios!NotFinished \/ nios!WriteClrFinishedSending
         \/ nios!GetPackage \/ nios!IsEmpty \/ nios!Return
  PROVE  IInv'
<1> USE DEF nios!At, nios!Goto, nios!Ready
<1>1. pc # "masked" /\ pc' \notin {"masked", "empty", "rdreq"} /\ beats = 0 /\ todo = <<>>
  BY DEF nios!SendCommand, nios!CheckFifoFull, nios!FifoFull, nios!SendPackage,
       nios!SendEndOfPackage, nios!StartCtrl, nios!ReadFinishedSend, nios!NotFinished,
       nios!WriteClrFinishedSending, nios!GetPackage, nios!IsEmpty, nios!Return
<1>2. \/ UNCHANGED <<bus, beats, todo>>
      \/ /\ todo' = todo /\ beats' \in {1, 2}
         /\ \/ \E address : bus' = nios!IORD(address)
            \/ \E p : bus' = nios!RegFifo(p)
      \/ /\ UNCHANGED <<bus, beats>>
         /\ \E flags : 12 \notin flags /\ todo' = <<nios!RegSet(flags), nios!RegSet(nios!Enabled)>>
  BY DEF nios!SendCommand, nios!CheckFifoFull, nios!FifoFull, nios!SendPackage,
       nios!SendEndOfPackage, nios!StartCtrl, nios!ReadFinishedSend, nios!NotFinished,
       nios!WriteClrFinishedSending, nios!GetPackage, nios!IsEmpty, nios!Return,
       nios!Issue, nios!bus_vars, nios!Enabled, nios!SENDER_ENABLE_CTRL, nios!MASK_CLR_FINISHED,
       nios!MASK_EN, nios!MASK_LOOPBACK, nios!MASK_EN_RECEIVER
<1>3. beats' \in 0 .. 2 /\ IsSeq(<<>>) /\ IsSeq(todo)
  BY <1>1, <1>2 DEF IInv, TypeInv
<1>4. beats' > 0 => ~Requests(bus')
  BY <1>1, <1>2, OthersDoNotRequest
<1>5. NoRequests(todo')
  <2>1. CASE todo' = todo
    BY <1>1, <1>3, <2>1 DEF NoRequests
  <2>2. ASSUME NEW flags, 12 \notin flags, todo' = <<nios!RegSet(flags), nios!RegSet(nios!Enabled)>>
        PROVE  NoRequests(todo')
    <3>1. 12 \notin nios!Enabled
      BY DEF nios!Enabled, nios!MASK_EN, nios!MASK_LOOPBACK, nios!MASK_EN_RECEIVER
    <3>2. ~Requests(nios!RegSet(flags)) /\ ~Requests(nios!RegSet(nios!Enabled))
      BY <2>2, <3>1, FlagsThatRequest
    <3> QED
      BY <2>2, <3>2, TwoAccesses
  <2> QED
    BY <1>2, <2>1, <2>2
<1> QED
  BY <1>1, <1>3, <1>4, <1>5, Elsewhere DEF NoRequests

\* receiver_get_package.
LEMMA ReadEmptyStep ==
  ASSUME IInv, rfid!Tick, rst = 0, rst' = 0, nios!ReadEmpty
  PROVE  IInv'
<1>1. /\ pc = "read_empty" /\ pc' = "empty" /\ todo = <<>> /\ todo' = <<>>
      /\ beats' = 2 /\ bus' = nios!IORD(nios!BASE_REG_STATUS)
  BY DEF nios!ReadEmpty, nios!At, nios!Goto, nios!Issue, nios!IORD
<1>2. TypeInv'
  BY <1>1, Clock DEF IInv, TypeInv
<1>3. ~Requests(bus')
  BY <1>1, OthersDoNotRequest
<1>4. IdleInv' /\ PolledInv'
  BY <1>1, <1>3, Clock DEF IdleInv, PolledInv
<1> QED
  BY <1>1, <1>2, <1>4 DEF IInv, ReadInv, RequestInv

LEMMA RequestPackageStep ==
  ASSUME IInv, rfid!Tick, rst = 0, rst' = 0, nios!RequestPackage
  PROVE  IInv'
<1>1. /\ pc = "empty" /\ pc' = "rdreq" /\ beats = 0 /\ todo = <<>> /\ todo' = <<>>
      /\ beats' = 2 /\ bus' = nios!IORD(nios!BASE_RECEIVER_DATA)
      /\ 13 \notin avs_readdata.flags
  BY DEF nios!RequestPackage, nios!At, nios!Ready, nios!Goto, nios!Issue, nios!IORD,
       nios!MASK_EMPTY_RECEIVER
<1>2. TypeInv'
  BY <1>1, Clock DEF IInv, TypeInv
<1>3. ~Requests(bus')
  BY <1>1, OthersDoNotRequest
<1>4. rx_fifo # <<>> /\ rdreq_pulse = 0
  BY <1>1 DEF IInv, IdleInv, PolledInv
<1>5. IdleInv' /\ ReadInv'
  BY <1>1, <1>3, <1>4, Clock DEF IdleInv, ReadInv
<1> QED
  BY <1>1, <1>2, <1>5 DEF IInv, PolledInv, RequestInv

LEMMA RdreqStep ==
  ASSUME IInv, rfid!Tick, rst = 0, rst' = 0, nios!Rdreq
  PROVE  IInv'
<1>1. /\ pc = "rdreq" /\ pc' = "masked" /\ beats = 0 /\ beats' = 0
      /\ todo' = <<Raise, Lower>> /\ package' = avs_readdata.package
  BY DEF nios!Rdreq, nios!At, nios!Ready, nios!Goto, nios!bus_vars, Raise, Lower
<1>2. /\ rdreq_pulse = 0 /\ 12 \notin reg_settings
      /\ rx_fifo # <<>> /\ avs_readdata.package = Head(rx_fifo)
  BY <1>1 DEF IInv, IdleInv, ReadInv
<1>3. IsSeq(todo')
  <2>1. <<Raise, Lower>> \in Seq({Raise, Lower})
    OBVIOUS
  <2> QED
    BY <1>1, <2>1 DEF IsSeq
<1>4. TypeInv'
  BY <1>1, <1>3, Clock DEF IInv, TypeInv
<1>5. Due'
  BY <1>1, <1>2, Clock DEF Due, Pending
<1> QED
  BY <1>1, <1>4, <1>5 DEF IInv, IdleInv, PolledInv, ReadInv, RequestInv

LEMMA PackageStep ==
  ASSUME IInv, rfid!Tick, rst = 0, rst' = 0, nios!StorePackage \/ nios!ReceivedEop
  PROVE  IInv'
<1>1. /\ pc = "masked" /\ pc' \notin {"masked", "empty", "rdreq"}
      /\ beats = 0 /\ beats' = 0 /\ todo = <<>> /\ todo' = <<>>
  BY DEF nios!StorePackage, nios!ReceivedEop, nios!At, nios!Ready, nios!Goto, nios!bus_vars
<1>2. Lowered
  BY <1>1 DEF IInv, RequestInv, Due, Raising, Raised, Lowering
<1>3. 12 \notin reg_settings' /\ rdreq_pulse' = 0
  BY <1>2, Clock, ClockOfPulse DEF Lowered
<1>4. TypeInv'
  BY <1>1, Clock DEF IInv, TypeInv
<1>5. IdleInv'
  BY <1>1, <1>3 DEF IdleInv
<1> QED
  BY <1>1, <1>4, <1>5 DEF IInv, PolledInv, ReadInv, RequestInv

\* The program stands still: at power-on, and when main has given up.
LEMMA HeldStep ==
  ASSUME IInv, rfid!Tick, UNCHANGED nios!registers, rst' = 0, pc \notin {"masked", "empty", "rdreq"}
  PROVE  IInv'
<1>1. UNCHANGED <<bus, beats, pc, todo>>
  BY DEF nios!registers, nios!bus_vars
<1> QED
  BY <1>1, Elsewhere DEF IInv, TypeInv, IdleInv

LEMMA StepIInv == IInv /\ [Next]_vars => IInv'
<1> SUFFICES ASSUME IInv, [Next]_vars PROVE IInv'
  OBVIOUS
<1>1. CASE Next
  <2>1. rfid!Tick
    BY <1>1 DEF Next
  <2>2. CASE PowerOn
    <3>1. UNCHANGED nios!registers /\ rst' = 0 /\ pc = "main"
      BY <2>2 DEF PowerOn, nios!Held, IInv, TypeInv
    <3> QED
      BY <2>1, <3>1, HeldStep
  <2>3. CASE Running
    <3>1. rst = 0 /\ rst' = 0 /\ nios!Tick
      BY <2>3 DEF Running
    <3>2. CASE nios!Access \/ nios!Pause
      BY <2>1, <3>1, <3>2, BusIsBusy
    <3>3. CASE nios!NextAccess
      BY <2>1, <3>1, <3>3, NextAccessIsIssued
    <3>4. CASE \/ nios!SendCommand \/ nios!CheckFifoFull \/ nios!FifoFull \/ nios!SendPackage
               \/ nios!SendEndOfPackage \/ nios!StartCtrl \/ nios!ReadFinishedSend
               \/ nios!NotFinished \/ nios!WriteClrFinishedSending
               \/ nios!GetPackage \/ nios!IsEmpty \/ nios!Return
      BY <2>1, <3>1, <3>4, SendingStep
    <3>5. CASE nios!ReadEmpty
      BY <2>1, <3>1, <3>5, ReadEmptyStep
    <3>6. CASE nios!RequestPackage
      BY <2>1, <3>1, <3>6, RequestPackageStep
    <3>7. CASE nios!Rdreq
      BY <2>1, <3>1, <3>7, RdreqStep
    <3>8. CASE nios!StorePackage \/ nios!ReceivedEop
      BY <2>1, <3>1, <3>8, PackageStep
    <3>9. CASE nios!Exited
      <4>1. UNCHANGED nios!registers /\ pc = "failed"
        BY <3>9 DEF nios!Exited, nios!At
      <4> QED
        BY <2>1, <3>1, <4>1, HeldStep
    <3> QED
      BY <3>1, <3>2, <3>3, <3>4, <3>5, <3>6, <3>7, <3>8, <3>9 DEF nios!Tick
  <2> QED
    BY <1>1, <2>2, <2>3 DEF Next
<1>2. CASE UNCHANGED vars
  <2>1. /\ UNCHANGED <<rst, bus, beats, pc, todo, package>>
        /\ UNCHANGED <<reg_settings, avs_readdata, rdreq_pulse, already_read, rx_fifo>>
    BY <1>2 DEF vars, nios!registers, nios!bus_vars, nios!receive_vars, rfid!registers,
         rfid!bank_registers, rfid!rfid_receiver!registers
  <2> QED
    BY <2>1 DEF IInv, TypeInv, IdleInv, PolledInv, ReadInv, RequestInv, Due, Raising, Raised,
         Lowering, Lowered, Pending
<1> QED
  BY <1>1, <1>2

THEOREM Invariant == Spec => []IInv
BY InitIInv, StepIInv, PTL DEF Spec

-----------------------------------------------------------------------------

\* The word that receiver_get_package reads is in the FIFO, although the empty flag
\* that allowed the read is several accesses old.
THEOREM WordIsAlwaysThere == Spec => []WordIsThere
<1>1. IInv => WordIsThere
  BY DEF IInv, ReadInv, WordIsThere
<1> QED
  BY <1>1, Invariant, PTL

\* The FIFO gives up the word that receiver_get_package has read, and gives it up once:
\* whatever the gaps between the accesses, no word is lost and none is read twice.
THEOREM EveryPopWasRead == Spec => []PoppedIsRead
<1>1. IInv => PoppedIsRead
  BY DEF IInv, TypeInv, IdleInv, RequestInv, Due, Raising, Raised, Lowering, Lowered, Pending,
       PoppedIsRead
<1> QED
  BY <1>1, Invariant, PTL

-----------------------------------------------------------------------------
(* The array of main.                                                      *)

VectorInv == IsSeq(command_vector) /\ VectorInBounds

LEMMA VectorStored ==
  ASSUME VectorInv, nios!StorePackage
  PROVE  VectorInv'
<1> DEFINE bits == nios!BitsOf(package)
<1>1. /\ pc = "masked" /\ command_vector' = Append(command_vector, bits)
      /\ pc' = IF Len(command_vector') > quant_packages THEN "failed" ELSE "read_empty"
  BY DEF nios!StorePackage, nios!At, nios!Goto
<1>2. IsSeq(command_vector) /\ Len(command_vector) <= quant_packages
  BY <1>1 DEF VectorInv, VectorInBounds
<1>3. IsSeq(command_vector')
  BY <1>1, <1>2, AppendIsSeq
<1>4. Len(command_vector') = Len(command_vector) + 1 /\ Len(command_vector) \in Nat
  <2>1. PICK S : command_vector \in Seq(S)
    BY <1>2 DEF IsSeq
  <2> HIDE DEF bits
  <2> QED
    BY <1>1, <2>1
<1> QED
  BY <1>1, <1>2, <1>3, <1>4, ArrayAssumption DEF VectorInv, VectorInBounds

LEMMA VectorStep == VectorInv /\ [Next]_vars => VectorInv'
<1> SUFFICES ASSUME VectorInv, [Next]_vars PROVE VectorInv'
  OBVIOUS
<1>1. ASSUME UNCHANGED <<pc, command_vector>> PROVE VectorInv'
  BY <1>1 DEF VectorInv, VectorInBounds
<1>2. ASSUME UNCHANGED command_vector, pc # "failed", pc' # "failed" PROVE VectorInv'
  BY <1>2 DEF VectorInv, VectorInBounds
<1>3. CASE UNCHANGED vars
  BY <1>1, <1>3 DEF vars, nios!registers, nios!bus_vars, nios!send_vars, nios!receive_vars
<1>4. CASE PowerOn
  BY <1>1, <1>4 DEF PowerOn, nios!Held, nios!registers, nios!receive_vars
<1>5. CASE Running
  <2>1. CASE nios!Access \/ nios!Pause \/ nios!NextAccess \/ nios!Exited
    BY <1>1, <2>1 DEF nios!Access, nios!Pause, nios!NextAccess, nios!Exited, nios!registers,
         nios!receive_vars
  <2>2. CASE \/ nios!SendCommand \/ nios!CheckFifoFull \/ nios!FifoFull \/ nios!SendPackage
             \/ nios!SendEndOfPackage \/ nios!StartCtrl \/ nios!ReadFinishedSend
             \/ nios!NotFinished \/ nios!WriteClrFinishedSending
    BY <1>2, <2>2 DEF nios!SendCommand, nios!CheckFifoFull, nios!FifoFull, nios!SendPackage,
         nios!SendEndOfPackage, nios!StartCtrl, nios!ReadFinishedSend, nios!NotFinished,
         nios!WriteClrFinishedSending, nios!At, nios!Goto, nios!receive_vars
  <2>3. CASE nios!GetPackage
    <3>1. command_vector' = <<>> /\ pc' = "read_empty"
      BY <2>3 DEF nios!GetPackage, nios!Goto
    <3>2. IsSeq(command_vector') /\ Len(command_vector') = 0
      <4>1. <<>> \in Seq({})
        OBVIOUS
      <4> QED
        BY <3>1, <4>1 DEF IsSeq
    <3> QED
      BY <3>1, <3>2, ArrayAssumption DEF VectorInv, VectorInBounds
  <2>4. CASE nios!ReadEmpty \/ nios!IsEmpty \/ nios!RequestPackage \/ nios!Rdreq
             \/ nios!ReceivedEop \/ nios!Return
    BY <1>2, <2>4 DEF nios!ReadEmpty, nios!IsEmpty, nios!RequestPackage, nios!Rdreq,
         nios!ReceivedEop, nios!Return, nios!At, nios!Goto, nios!receive_vars
  <2>5. CASE nios!StorePackage
    BY <2>5, VectorStored
  <2> QED
    BY <1>5, <2>1, <2>2, <2>3, <2>4, <2>5 DEF Running, nios!Tick
<1> QED
  BY <1>3, <1>4, <1>5 DEF Next

\* The array is written before its length is compared, and one package late: for an array of any
\* length, one word is stored past it at most, and the call that did so neither goes on nor returns.
THEOREM VectorStaysInBounds == Spec => []VectorInBounds
<1>1. Init => VectorInv
  <2> SUFFICES ASSUME Init PROVE VectorInv
    OBVIOUS
  <2>1. command_vector = <<>> /\ <<>> \in Seq({})
    BY DEF Init, nios!InitRegisters
  <2>2. IsSeq(command_vector) /\ Len(command_vector) = 0
    BY <2>1 DEF IsSeq
  <2> QED
    BY <2>2, ArrayAssumption DEF VectorInv, VectorInBounds
<1>2. VectorInv => VectorInBounds
  BY DEF VectorInv
<1> QED
  BY <1>1, <1>2, VectorStep, PTL DEF Spec
=============================================================================
