------------------------------- MODULE Firmware -------------------------------
(***************************************************************************)
(* The test program that runs on the Nios II: the set-up of main, then     *)
(* sender_send_command and receiver_get_package in turn, command after     *)
(* command, as the programs of examples_of_main do in loopback.  It is the *)
(* master of the Avalon bus: a write takes a clock, a read takes two, and  *)
(* some clocks pass between two accesses.                                  *)
(***************************************************************************)
EXTENDS CommandPackages, FiniteSetsExt

CONSTANTS Commands,       \* what main may send: non-empty bit sequences
          timing,         \* what main computes for the timing registers
          quant_packages, \* the length of main's array of packages
          Gaps,           \* clocks that may pass between two accesses
          PrintClocks     \* the least time printf takes

VARIABLES
  avs_readdata,           \* input port
  bus, beats, pause,      \* the access, the clocks it and the gap after it last
  pc, todo,               \* where the program is; the accesses due before that
  command, to_send,       \* the command, and the packages of it not yet written
  package, command_vector, command_size  \* of receiver_get_package

bus_vars == <<bus, beats, pause>>
send_vars == <<command, to_send>>
receive_vars == <<package, command_vector, command_size>>
registers == <<bus_vars, pc, todo, send_vars, receive_vars>>

\* Registers and flags, with the values config.h gives them.
BASE_REG_SET == 0
BASE_REG_TARI == 1
BASE_REG_FIFO == 2
BASE_REG_STATUS == 3
BASE_RECEIVER_DATA == 4
BASE_ID == 7
MASK_EN == 1
MASK_EN_RECEIVER == 4
SENDER_ENABLE_CTRL == 6
MASK_LOOPBACK == 8
MASK_READ_REQ == 12
BASE_IS_FIFO_FULL == 0
MASK_FINISH_SEND == 3
MASK_EMPTY_RECEIVER == 13

MASK_CLR_FINISHED == 1

IOWR(address, data) == [write |-> TRUE, address |-> address, data |-> data]
IORD(address) == [write |-> FALSE, address |-> address, data |-> BlankWord]
RegSet(flags) == IOWR(BASE_REG_SET, FlagsWord(flags))
RegNumber(address, n) == IOWR(address, NumberWord(n))
RegFifo(p) == IOWR(BASE_REG_FIFO, PackageWord(p))

Enabled == {MASK_EN, MASK_LOOPBACK, MASK_EN_RECEIVER}

\* sender_has_gen, which writes for an argument other than 0 only and leaves
\* MASK_LOOPBACK out, and sender_is_preamble: SENDER_HAS_GEN and SENDER_IS_PREAMBLE are 0.
sender_has_gen(usesPreorFrameSync) ==
  IF usesPreorFrameSync THEN <<RegSet({MASK_EN, MASK_EN_RECEIVER})>> ELSE <<>>
sender_is_preamble == <<RegSet(Enabled)>>

\* main up to the ID that it prints.
SetUp(usesPreorFrameSync, isPreamble) ==
  <<RegSet({MASK_LOOPBACK}), RegNumber(BASE_REG_TARI, timing.tari),
    RegSet({MASK_LOOPBACK, MASK_EN}), RegSet(Enabled),
    RegNumber(3, timing.tari_101), RegNumber(4, timing.tari_099),
    RegNumber(5, timing.tari_1616), RegNumber(6, timing.tari_1584),
    RegNumber(7, timing.pw), RegNumber(8, timing.delimiter),
    RegNumber(9, timing.RTcal), RegNumber(10, timing.TRcal)>>
  \o sender_has_gen(usesPreorFrameSync)
  \o (IF isPreamble THEN sender_is_preamble ELSE <<>>)
  \o <<IORD(BASE_ID)>>

\* sender_add_mask: every package but the last is full, and there is always a
\* last one, though nothing may be left for it.
CommandVector(bits) ==
  [p \in 1 .. Len(bits) \div data_width + 1 |->
     PackageOf(SubSeq(bits, (p - 1) * data_width + 1, Min({Len(bits), p * data_width})))]

InitRegisters ==
  /\ bus = IORD(BASE_REG_STATUS) /\ beats = 0 /\ pause = 0
  /\ pc = "main"
  /\ \E usesPreorFrameSync \in BOOLEAN, isPreamble \in BOOLEAN :
       todo = SetUp(usesPreorFrameSync, isPreamble)
  /\ command = <<>> /\ to_send = <<>>
  /\ package = Void /\ command_vector = <<>> /\ command_size = 0

\* The processor in reset.
Held == UNCHANGED registers

-----------------------------------------------------------------------------
(* The bus.                                                                *)

Issue(access) ==
  /\ bus' = access /\ beats' = IF access.write THEN 1 ELSE 2
  /\ pause' \in Gaps

Access ==
  /\ beats > 0 /\ beats' = beats - 1
  /\ UNCHANGED <<bus, pause, pc, todo, send_vars, receive_vars>>

Pause ==
  /\ beats = 0 /\ pause > 0 /\ pause' = pause - 1
  /\ UNCHANGED <<bus, beats, pc, todo, send_vars, receive_vars>>

Ready == beats = 0 /\ pause = 0

NextAccess ==
  /\ Ready /\ todo # <<>>
  /\ Issue(Head(todo)) /\ todo' = Tail(todo)
  /\ UNCHANGED <<pc, send_vars, receive_vars>>

At(label) == Ready /\ todo = <<>> /\ pc = label
Goto(label) == pc' = label

-----------------------------------------------------------------------------
(* sender_send_command                                                     *)

SendCommand ==
  /\ At("main") /\ Goto("next_package")
  /\ command' \in Commands
  /\ to_send' = CommandVector(command')
  /\ UNCHANGED <<bus_vars, todo, receive_vars>>

CheckFifoFull ==
  /\ At("next_package") /\ Issue(IORD(BASE_REG_STATUS)) /\ Goto("fifo_full")
  /\ UNCHANGED <<todo, send_vars, receive_vars>>

FifoFull ==
  /\ At("fifo_full") /\ BASE_IS_FIFO_FULL \in avs_readdata.flags /\ Goto("next_package")
  /\ UNCHANGED <<bus_vars, todo, send_vars, receive_vars>>

SendPackage ==
  /\ At("fifo_full") /\ BASE_IS_FIFO_FULL \notin avs_readdata.flags
  /\ Issue(RegFifo(Head(to_send))) /\ to_send' = Tail(to_send)
  /\ Goto(IF Tail(to_send) = <<>> THEN "send_end_of_package" ELSE "next_package")
  /\ UNCHANGED <<todo, command, receive_vars>>

SendEndOfPackage ==
  /\ At("send_end_of_package") /\ Issue(RegFifo(Void)) /\ Goto("start_ctrl")
  /\ UNCHANGED <<todo, send_vars, receive_vars>>

\* Mutant of StartCtrl: the start flag is not in what is written.
StartCtrlWithoutStart ==
  /\ At("start_ctrl")
  /\ todo' = <<RegSet(Enabled), RegSet(Enabled)>>
  /\ Goto("read_finished")
  /\ UNCHANGED <<bus_vars, send_vars, receive_vars>>

StartCtrl ==
  /\ At("start_ctrl")
  /\ todo' = <<RegSet(Enabled \cup {SENDER_ENABLE_CTRL}), RegSet(Enabled)>>
  /\ Goto("read_finished")
  /\ UNCHANGED <<bus_vars, send_vars, receive_vars>>

ReadFinishedSend ==
  /\ At("read_finished") /\ Issue(IORD(BASE_REG_STATUS)) /\ Goto("finished")
  /\ UNCHANGED <<todo, send_vars, receive_vars>>

NotFinished ==
  /\ At("finished") /\ MASK_FINISH_SEND \notin avs_readdata.flags /\ Goto("read_finished")
  /\ UNCHANGED <<bus_vars, todo, send_vars, receive_vars>>

WriteClrFinishedSending ==
  /\ At("finished") /\ MASK_FINISH_SEND \in avs_readdata.flags
  /\ todo' = <<RegSet(Enabled \cup {MASK_CLR_FINISHED}), RegSet(Enabled)>>
  /\ Goto("sent")
  /\ UNCHANGED <<bus_vars, send_vars, receive_vars>>

-----------------------------------------------------------------------------
(* receiver_get_package                                                    *)

\* Mutant of GetPackage: the packages of the last command are still counted.
GetPackageAppends ==
  /\ At("sent") /\ Goto("read_empty")
  /\ UNCHANGED <<bus_vars, todo, send_vars, receive_vars>>

GetPackage ==
  /\ At("sent") /\ Goto("read_empty")
  /\ command_vector' = <<>> /\ command_size' = 0
  /\ UNCHANGED <<bus_vars, todo, send_vars, package>>

ReadEmpty ==
  /\ At("read_empty") /\ Issue(IORD(BASE_REG_STATUS)) /\ Goto("empty")
  /\ UNCHANGED <<todo, send_vars, receive_vars>>

IsEmpty ==
  /\ At("empty") /\ MASK_EMPTY_RECEIVER \in avs_readdata.flags /\ Goto("read_empty")
  /\ UNCHANGED <<bus_vars, todo, send_vars, receive_vars>>

\* Mutant of RequestPackage: the empty flag is not looked at.
RequestPackageAnyway ==
  /\ At("empty")
  /\ Issue(IORD(BASE_RECEIVER_DATA)) /\ Goto("rdreq")
  /\ UNCHANGED <<todo, send_vars, receive_vars>>

RequestPackage ==
  /\ At("empty") /\ MASK_EMPTY_RECEIVER \notin avs_readdata.flags
  /\ Issue(IORD(BASE_RECEIVER_DATA)) /\ Goto("rdreq")
  /\ UNCHANGED <<todo, send_vars, receive_vars>>

Rdreq ==
  /\ At("rdreq") /\ package' = avs_readdata.package
  /\ todo' = <<RegSet(Enabled \cup {MASK_READ_REQ}), RegSet(Enabled)>>
  /\ Goto("masked")
  /\ UNCHANGED <<bus_vars, send_vars, command_vector, command_size>>

HasOnes == \E k \in DOMAIN BitsOf(package) : BitsOf(package)[k] = 1

\* Mutant of StorePackage: a package is refused when the last one has filled the array, one
\* package later again.
StorePackageLate ==
  /\ At("masked") /\ HasOnes
  /\ command_vector' = Append(command_vector, BitsOf(package))
  /\ command_size' = command_size + package.mask
  /\ Goto(IF Len(command_vector) > quant_packages THEN "failed" ELSE "read_empty")
  /\ UNCHANGED <<bus_vars, todo, send_vars, package>>

\* The array is written before its length is checked.
StorePackage ==
  /\ At("masked") /\ HasOnes
  /\ command_vector' = Append(command_vector, BitsOf(package))
  /\ command_size' = command_size + package.mask
  /\ Goto(IF Len(command_vector') > quant_packages THEN "failed" ELSE "read_empty")
  /\ UNCHANGED <<bus_vars, todo, send_vars, package>>

\* Mutant of ReceivedEop: printf takes no time.
ReceivedEopAtOnce ==
  /\ At("masked") /\ ~HasOnes /\ Goto("received")
  /\ pause' = 0
  /\ UNCHANGED <<bus, beats, todo, send_vars, receive_vars>>

\* Any package without ones ends the command.  printf, and back to main.
ReceivedEop ==
  /\ At("masked") /\ ~HasOnes /\ Goto("received")
  /\ pause' = PrintClocks
  /\ UNCHANGED <<bus, beats, todo, send_vars, receive_vars>>

Return ==
  /\ At("received") /\ Goto("main")
  /\ UNCHANGED <<bus_vars, todo, send_vars, receive_vars>>

\* main gives up on a receiver_get_package that returns -1.
Exited == At("failed") /\ UNCHANGED registers

Tick ==
  \/ Access \/ Pause \/ NextAccess
  \/ SendCommand \/ CheckFifoFull \/ FifoFull \/ SendPackage \/ SendEndOfPackage
  \/ StartCtrl \/ ReadFinishedSend \/ NotFinished \/ WriteClrFinishedSending
  \/ GetPackage \/ ReadEmpty \/ IsEmpty \/ RequestPackage \/ Rdreq
  \/ StorePackage \/ ReceivedEop \/ Return \/ Exited
=============================================================================
