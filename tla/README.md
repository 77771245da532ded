# A verification model of the RFID conformance tester

The repository builds a conformance tester for EPC-GEN2 RFID tags on an FPGA.  A program in C runs on a
Nios II soft processor and talks over an Avalon bus to a peripheral in VHDL, `rfid.vhd`, that sends
commands in FM0 code on one pin and decodes answers from another.  Most of the programs run in loopback:
the peripheral's output is its own input.  Two run on two boards with crossed lines, as reader and tag.

This directory holds TLA+ modules of the peripheral, clock by clock, of the program that drives it, bus
access by bus access, and of what the programs build, recognise and say to each other, command by command;
the TLC configurations that check them; and theorems proved with TLAPS.

## 1. Inventory

All paths are below `src/fpga/`; `RTL/` is the hardware and `software/rfid_test/helpers/` (here `helpers/`)
the program.

| component | state | operations | talks to |
|---|---|---|---|
| register bank, `RTL/rfid.vhd` | 9 timing registers, the settings, the FIFO input word, the word read | bus write, bus read, reset; process `aa` makes one FIFO write of a request | bus master; sender and receiver through bits of the settings and the status |
| sender controller, `RTL/sender_controller.vhd` | state, multiplexer, `finished_sending`, two starts | start with or without preamble, wait for generator, wait for encoder, clear | generator, encoder, register bank |
| signal generator, `RTL/signal_generator.vhd` | phase, 11-bit counter, level | delimiter, data-0, RTcal, TRcal | controller, line |
| FIFO, `fifo_32_32.vhd` (twice) | up to 256 words | write, read, clear | see sender, receiver |
| FM0 encoder, `RTL/FM0_encoder.vhd` | controller, symbol machine, three timers | take a package, send its bits, hold the line for two Tari | FIFO, sender controller, line |
| FM0 decoder, `RTL/FM0_decoder.vhd` | controller, ten-state machine, counter | measure intervals, give bits, end of package, error | line, package constructor |
| package constructor, `RTL/package_constructor.vhd` | 26-bit vector, 6-bit mask, two pulses | store a bit, send a package, send a void package | decoder, FIFO |
| read pulse, `RTL/receiver.vhd` | `already_read` | one FIFO read per raise of the request | register bank, FIFO |
| send, `helpers/functions/sender.c` | the packages of the command | cut into packages, fill FIFO, start, wait, clear | bus |
| receive, `helpers/functions/receiver.c` | array of packages, its size | poll, read, pop, store | bus |
| commands, `helpers/commands`, `helpers/crc.c` | `crc_table`, which a function has to fill | build and recognise commands, crc5, crc16 | send, receive |
| programs, `examples_of_main` | the place in the dialogue, the RN16, the handle | loopback tests, handshake, reader, tag | all of the above; the board at the other end of the line |

**What is hard.**  Eleven clocked processes exchange flags that last one clock and that nobody
acknowledges; bits, ends of commands and errors are told apart by counts of clocks that include what
those hand-overs cost; timers compare for equality in registers narrower than their limits; the program
polls and pulses flags with bus accesses any number of clocks apart and has no timeouts; a reset restores
part of the state.  Commands are told apart by length and prefix, in an order, and may be a bit too long; two
boards wait for each other without a timeout, and one may be launched while the other already speaks.  The list with the lines is `hazards` in `PROJECT.json`.

**What makes it correct.**  The constructor: bits are stored inside the vector, leave once and in order,
and every command is closed by one void package.  Encoder and decoder: what is put into one FIFO comes out
of the other; the line never holds an interval the decoder refuses; the end of a command is announced once
and only after a command.  Sender: the preamble that was asked for, then every bit, each of its length,
and every start ends with `finished_sending`.  Receiver: every word of an answer reaches the host once,
however it holds the request.  Program: `receiver_get_package` hands out what `sender_send_command` was
given, a start pulse finds the sender waiting, nothing is stored outside main's array, the word that is popped is
the word that was read.  Commands: every command is recognised as what it was built as, none as another, and a
damaged one is refused.  (Several of these the code does not keep: section 3, disagreements.)  Reader and tag: they take turns, both end, and agree on the handle.

## 2. Modules

One step of every module of the peripheral and of `Firmware` is one rising clock edge.  VHDL signals assigned in a process are registers
(primed variables); the code reads their old values and so do the actions.  Processes that share the
clock are conjunctions, the states of a process disjuncts.  Ports and registers keep their VHDL names;
port maps are `INSTANCE ... WITH`.

| module | models | |
|---|---|---|
| `Package`, `CommandPackages` | the bus word, the 26 + 6 bit package, how a command is cut into packages | operators |
| `Scfifo` | the vendor FIFO as `fifo_32_32.vhd` configures it: show-ahead, dropped overflow, ignored underflow, `usedw` that wraps | operators |
| `PackageConstructor` | `package_constructor.vhd`, one action per state and outcome | runs alone |
| `Packager` | what the package constructor promises, without its states | abstract specification |
| `PackageConstructor_proofs` | the theorems | proofs |
| `FM0Decoder`, `FM0Encoder`, `SenderController`, `SignalGenerator` | the entities of the same name, one action per state and outcome | instantiated |
| `Sender`, `Receiver` | `sender.vhd` with `fifo_fm0.vhd`, `receiver.vhd`: port maps, FIFO, read pulse | instantiated |
| `Link`, `LinkMC` | sender and receiver in loopback with a host that fills the FIFO, starts and resets | composition |
| `SenderLine`, `SenderLineMC` | the sender alone, its line recorded as a sequence of intervals (history variable `wave`) | composition |
| `TagLine`, `TagLineMC` | the receiver alone, a tag whose edges are early or late, a host that reads | composition |
| `Rfid` | `rfid.vhd`: register bank, process `aa`, loopback switch, status | instantiated |
| `Firmware` | set-up, `sender_send_command`, `receiver_get_package` as a bus master | instantiated |
| `Tester`, `TesterMC` | program, bus and peripheral from power-on | composition |
| `Channel` | what sender, line and receiver promise together: one command in, its packages out in order, the report after the last | abstract specification |
| `Words`, `Crc`, `Commands` | C's unsigned words as sets of bit positions; crc.c; the thirteen builders and validators and `rfid_check_command` | operators |
| `Transfer` | how a command is cut, what a receiver makes of it, where `receiver_get_package` stops | operators |
| `Exchange`, `ExchangeMC` | a program that builds, sends, receives and labels one command after another | runs alone |
| `Dialogue` | what the handshake promises: nothing is said before what was said last has been heard | abstract specification |
| `Handshake`, `HandshakeMC` | reader.c and tag.c on two boards, or loopback_handshake.c on one | runs alone |
| `Tester_proofs`, `Crc_proofs`, `Transfer_proofs`, `Exchange_proofs`, `Handshake_proofs`, `TagLine_proofs`, `Link_proofs` | the theorems | proofs |

Three levels of detail meet in two places.  `Link` and `Tester` show, clock by clock, that the packages of a
command come back in order and whole, perhaps with a 1 more (`HeardAs`); `Transfer` takes that as the
operator `Heard` on whole commands, and `Exchange` and `Handshake` build on it.

Correspondence of state: `Firmware.pc` is the place in the C functions (`next_package` and `fifo_full` are
the two halves of the loop at sender.c:98-104, `read_finished`/`finished` of sender.c:110, `read_empty`/
`empty` of receiver.c:40), `todo` the writes of a function that pulses a flag, `bus`/`beats`/`pause` an
access, the clocks it still takes (one for a write, two for a read, as `nios_rfid_peripheral_hw.tcl` sets
the wait states) and the clocks to the next one.  A register of flags is the set of the bits that are 1.
`timing` and `limits` are the timing registers.  In `Exchange` and `Handshake` `pc` is the place in main;
a board of `Handshake` is its main (`Program`, a sequence of sends and receives, `at` the next one), its sender
(`on_air`, and the flag `finished` that is never cleared) and its receiver (`rx_fifo`, `deaf` after a refused
symbol, `missed` while a command is under way whose first bits came before the receiver was enabled).  `said`
and `heard` count, for `Dialogue`.  `tx_fifo` and `rx_fifo` are the FIFOs, `tx_idle` and
`rx_idle` what their memories show while they are empty.

Operators named as mutants ("Mutant of ...") are broken variants of a definition.  No specification
uses them; putting one in the place of its definition must break the property that `PROJECT.json` names.

### Abstractions

* `data_width`, a VHDL generic (26), and the FIFO's `depth` (256) are parameters; the runs take 2 to 4 bits
  and 3 to 5 words so that commands of several packages are short.  A mask counts bits, as in the code.
* The components test `rst` outside `rising_edge`; here a reset is seen at the clock edge.  The settings
  that carry it are registers, so the difference is the part of a clock before the edge.
* Counters of the encoder and the generator keep the width a synthesised `integer range` has (10, 11 and
  11 bits).  The decoder's counter is stopped long before its 16 bits are full.
* Command and receive words longer than a view of the bus word, upper bits of a short register read, and
  the text printed are left out.  `printf` is a pause of at least `PrintClocks`.
* A C word is the set of the positions of its 1 bits, so that no module needs numbers of 64 bits.  Where a
  builder shifts a 32-bit int by 32 and more, which is undefined, the result is each of those that a
  processor and a compiler give (`IntShifts`).  Words of an array that were not written are any `Garbage`.
* `Handshake` moves a command over the line in one step; a late launch leaves any tail of it, or nothing, and
  a refused symbol leaves some of its full packages and a receiver that is deaf from then on.  These are its only
  faults: a bit that arrives flipped, which the zero table of crc.c lets pass, is in `Exchange`.

## 3. Runs

Every run is a `.cfg` of the same name with the MC module of its specification.  These seven pass.

| run | what it shows |
|---|---|
| `PackageConstructor` | any inputs at any clock, any resets: type, index, leaks, one-clock write requests; implements `Packager` |
| `Link` | at Tari 20, 402, 500 and 1022, with resets of both entities at any clock between commands: commands of one, two and three packages come back whole, no interval is refused, one end per command, nothing is announced after a reset; sender and receiver implement `Channel`; and every command ends |
| `SenderLine` | the wave of every command, with preamble, frame-sync or neither, is right in levels and lengths; every start ends, if the generator can count the lead that was asked for, and never otherwise |
| `TagLine` | symbols of 498, 500 or 507 clocks, the window of the decoder, in any mixture, halves of 250 or 254: all answers reach the host, however it reads; with one symbol of 300 or 700 clocks in an answer, it is read rightly or refused with `err` |
| `Tester` | the whole system returns to main what main sent, into an array of two words; of a longer command one package is stored past the array, and then the call gives up; for a command that does not fit the FIFO the program waits; no word is read that is not there, the word that a read request pops is the one that was read, and a start is never lost |
| `Exchange` | every functional command is labelled as what it was built as, except a Req_RN with upper bits in its number while the table is filled (`UpperBitsMissed`), which never is; no command is labelled as another; calls stay in step with commands until a package of zeros is sent, and are out of step for ever afterwards; a damaged query keeps its label unless its code or the constant at the place of its CRC is hit; crc16 is the remainder of the long division, and with its table filled no flipped bit of an rn_crc passes |
| `Handshake` | in every set-up and order of launch, and with symbols refused, the two sides take turns; a reader that ends has the handle that was sent; set up as documented, both end and leave nothing behind |

`ImplementsChannel` is the one property that relates both ends: neither knows of the other, and the
report comes after the last package only because 2 Tari are longer than 1.584 and the hand-overs of the
receiver.  At a Tari of 20 the two fall on the same clock, which `Channel` allows (`Report`).

### Disagreements

Each of these runs checks one property that the documentation or the code claims, and finds it false.

| run | what happens |
|---|---|
| `TesterSendReturns` | config.h:29 clears bit 1 (the enable) in the place of bit 10: `finished_sending` stays 1 and from the second command on `sender_send_command` returns before the command is sent |
| `LinkReset` | a reset during a command leaves `data_receiver_start` set (FM0_decoder.vhd:102): the decoder announces a bit and an end again and again on a silent line |
| `ExchangeDamage` | nobody calls `crc_16_ccitt_init`: `crc_table` is zero, so is every crc16, and a number with a flipped bit is accepted |
| `HandshakeAck` | reader.c:80 keeps eight of the sixteen bits of the RN16: neither the ACK nor the Req_RN contains the same RN16, and the tag, which compares neither, goes on |
| `TesterPackage` | sender.c:46 adds an empty package to a command that fills its packages: the encoder pops once too often, finds the FIFO empty and loses its place, and a later command never comes back.  No command of the programs has such a size |

More differences have no run of their own.  Of the first five a passing run states what the code does in place of what is claimed:

* receiver.c:55 writes `command_vector[i]` before it compares `i`, and compares one package late: the package after the last
  word of the array is stored past it, and only then is the command refused (`VectorInBounds` of `Tester`, which
  says that this is one word and that the call then gives up);
* the generator's counter has 11 bits (signal_generator.vhd:74), and the programs write a delimiter of 3125 clocks and
  calibrations of 6750, which it never equals: a command with a preamble does not end (`Counted` in `EveryStartFinishes` of
  `SenderLine`).  The programs leave the generator off;
* crc5 never shifts the message in (crc.c:115 says "Shift the next bit of the message into the remainder"): it is a constant,
  and a query with a flipped bit in its fields is accepted (`OnlyCodeAndCrcOfQuery` of `Exchange`);
* with the CRC table filled, a Req_RN whose number has one of its upper six bits set is not recognised: req_rn.c:36 does not
  fetch them from the second package (`RecognisedAsBuilt` of `Exchange`, an equivalence);
* receiver.c:53 takes a package of zeros inside a command for its end, and the rest is left to the next call; hardware.md:76
  ends a command by a void package only (`NothingLeftBehind` of `Exchange`, an equivalence);
* the decoder counts late and accepts 498 to 507 clocks, not the 495 to 505 of IP_core_interface.md:112: a symbol of 495 is
  counted as 492 or 493 and refused.  Such symbols are outside `InTimeAssumption`, the window of `TagLine`;
* of the Taris from 313 to 1250 clocks (IP_core_interface.md:90) the link carries the even ones from 402 to 1022.
  At 313 the hand-overs are longer than the 1%; at 1250 the timers have too few bits; half of an odd Tari is
  truncated while the full timer runs on below a 0 (FM0_encoder.vhd:227), and symbols drift until one is
  refused.  Each of `TimingOf(313)`, `TimingOf(501)` and `TimingOf(1250)` in `MCTimings` of `LinkMC` makes
  `NoDecodingError` fail;
* five builders shift an int by 32 and more; what they build is not what they mean, and with the shifts of a
  32-bit int none of it is ever recognised (`ShiftedHasNoLabel`).  The validators of lock and select always refuse;
* config.h:28 says that `MASK_LOOPBACK` is to be set to 0 for loopback; it is set to 1 << 8 for it, and two boards
  that leave it so hear themselves (`DocumentedFinishes` is about set-ups with the flag as the hardware reads it);
* the documentation sends the more significant bits of a command first (hardware.md:70), the code the
  least significant;
* `MASK_RST_RECEIVER` is bit 10 (config.h:25), the receiver's reset is bit 11 (rfid.vhd:285).

### Bounds, and why they are enough

* Commands: all bit sequences up to 2, 3 or 4 bits and chosen longer ones, so that every pair of neighbouring
  bits occurs at both levels of the line, at the start, at a package boundary and at the end, and commands reach a
  second and a third package.  A received command may have one bit 1 more (`HeardAs`): the line falls at the end
  of a last symbol that ends high, and the decoder takes that edge for a bit.  The validators allow it.
* Commands follow each other without end (no run stops after one, unless main gives up), so what one leaves behind in a timer or
  a flag meets the next.
* Time: the firmware's 500 clocks where lengths matter; 20 or 40 clocks with limits wider in proportion
  where any clock may be the moment of a reset or of a bus access.  The hand-overs cost the same number of
  clocks at every Tari, so a small Tari is the harder case.
* `SenderLine`: `Early` = 2 and `Late` = 6 clocks are the measured worst cases: two clocks are given back by a
  timer that was stopped late, six go by between two packages.  `Idles` are a memory of zeros and one of ones.  `MaxClocks` only caps the
  record of the idle line, far above every length that is compared.  The third timing of `MCTimings` has the TRcal that
  reader.c:28 computes, 6750 clocks: with frame-sync, which does not use it, commands end, with preamble none does.
* `TagLine`: the tag's extremes are the extremes the decoder accepts; one symbol of an answer may be wrong, which is
  enough because an error is final; `RestClocks` is more than the 808
  clocks of the end, `Holds` are one clock and several; the host looks again `Pause` = 2 clocks after it
  lowers the request, as the program, which needs a bus read, at least does.
* `Tester`: `Gaps` are 1 or 4 clocks between accesses, so that polls fall at all places of a bit.
  `PrintClocks` = 40, one Tari, is the least a `printf` takes; it is needed, because the receiver announces
  the end of a command at 1.584 Tari and the sender is busy until 2: a program that sent the
  next command at once would lose its start pulse (the mutant of `StartIsTaken` shows that).
  `MCCommands` of `TesterMC` leaves out commands that fill their last package and commands with a package of
  zeros before the last, which the code does not carry (`TesterPackage`; `NothingLeftBehind` of `Exchange`).  `quant_packages` is 2,
  the packages of the commands up to 4 bits; a command of three packages and one of five are too long for the array, and
  main ends.  The FIFO of 4 words is smaller than the longest command, for which the program waits at the full flag.
  Four packages would fill it and leave no room for the void package, which is sent without a look at the flag
  (sender.c:106); in the code the FIFO has 256 words and a command at most three packages and the void package, so
  that no program comes there.
* `Exchange`: numbers and handles are 0, 1, 0x1234, 0x7813, 0x8000, 0xFD24 and 0xFFFF, the values of the programs and
  the ends of the range, so that a number lies in the lower package, in the upper one, in both or in neither;
  `Fields` gives a builder the sets or records of its arguments: those of a query are all alike, which fills, empties
  or halves its fields, or all different; other fields are empty or full.  `Garbage` is an array of zeros or of ones.  `MaxLeft` = 1 caps what may be
  left in the FIFO after a package of zeros.  `Damaged` commands are those with a CRC; any one bit may be flipped.
  Arrays have one word, as reader.c has for the RN16, two, or three, as many as the longest command takes.
  The run does not forbid deadlock: main ends when the array is too small.
* `Handshake`: every set-up is there (two boards or one, loopback or not, the tag first or not, damage or not), and
  the programs have no data but what they send; any tail of a command may be what a late receiver hears.
  Programs end, and boards may wait for ever, so the run does not forbid deadlock either.
* Sampling is synchronous: the air line is one wire and one clock in loopback, and `TagLine` counts the tag's
  edges in whole clocks.

### Fairness

The only fairness is weak fairness of the whole next-state relation: the clock does not stop.  Every
process moves on every clock, so nothing more is needed, and nothing is assumed of the program but that
it takes its next step: its gaps are bounded by `Gaps`.  In `TagLine` a silent tag may stay silent for ever.

`Exchange` is a sequential program and has weak fairness of its next step.  `Handshake` has weak fairness of each
board's launch, of its main and of its line, separately: the processors run, the senders are clocked, and whoever
sets up two boards launches both.  Nothing is assumed of their order or relative speed, and a
main that waits for a package that never comes is not enabled and waits for ever.

## 4. Proofs

`PackageConstructor_proofs` proves, for every `data_width` above 0 (`DataWidthAssumption`) and for
arbitrary inputs on every clock:

* `TypeCorrect`, `IndexIsInRange`, `UnusedBitsStayZero`: the state invariants of the run;
* `WritesArePulses`: the action property;
* `Implements`: `Spec => Abstract!Spec`, the refinement of `Packager`.

The properties are not inductive alone.  `IInv` adds `StateInv`: a package is sent only with a mask above 0 and
the request up; before a void package the mask is 0; the request is up only in `c_send_package` and, after
a void package, in `c_wait`.  `InitIInv` and `StepIInv` show it inductive, one step per action of the
process.  The refinement maps the vector and the mask to the sequence of pending bits
(`OpenPackage`), the write request and the word to `Port`, the states to a `Phase`; `MappedStep` shows each action
a step of `Packager` or a stutter, with `FirstBitsGrows` for the action that stores a bit.

`Tester_proofs` proves, for every package width, depth, timing, set of gaps and set of commands, and whatever
encoder and decoder do:

* `WordIsAlwaysThere` (`WordIsThere`): what the program polled of the empty flag is still true when it reads;
* `EveryPopWasRead` (`PoppedIsRead`): the word that leaves the FIFO is the one that was read;
* `VectorStaysInBounds` (`VectorInBounds`), for an array of any length (`ArrayAssumption`): one word at most is stored past it, and then
  the call gives up.

The program and the FIFO are joined by bus reads, a register that two bus writes raise and lower, and the
pulse generator.  `PolledInv` and `ReadInv` say that what was read of the flag and of the word stays true, `RequestInv` in
which of five stages a `receiver_rdreq` is: `Due`, `Raising` (the first write is on the bus), `Raised` (the register
is set, the pulse is due, there or over), `Lowering`, `Lowered`; until the pulse is over the word that was read is the head
of the FIFO (`Pending`), and outside `receiver_rdreq` nothing pulses and no write that is due requests (`IdleInv`).
`FifoKeepsHead` says that a write does not disturb a head, and that only a read takes it.

`Crc_proofs` proves what crc.c computes, for messages of any length (so of every command):

* `CrcIsLongDivision`: with the table that `crc_16_ccitt_init` writes, `crc_16_ccitt` is what is left of the
  bit-by-bit long division of the message;
* `CrcTellsBytesApart`: with that table two messages that differ in one byte, in however many bits, have different CRCs;
* `UnfilledTableChecksNothing`: with the table of zeros that C leaves, every message of two bytes and more has the CRC 0.

The argument is that a step of the division is linear (`DivideBitIsLinear`) and loses nothing (`DivideBitLosesNothing`), and
that eight steps on a byte at the upper end are what the table holds (`FilledTableDivides`, `DivideByteDivides`).  The
loops are recursive functions on numbers.  `RecursionExists` shows that such a function exists, `CrcFollows` unfolds the
loop of crc.c, and facts of every iteration go by `SetInduction`: induction over Nat for a property given as a set,
which needs no operator as a parameter.

`Transfer_proofs` proves what a command's packages keep of it, for every argument of every builder:

* `NumberComesBack`: a 16-bit number comes back from the packages of its rn_crc, extra bit or not;
* `WrongBitIsNoticed`: with the table filled, `rn_crc_validate` refuses an rn_crc of which any one bit arrived wrong.  The two
  packages cut the 32 bits at 26, and `rn_crc_validate` puts both fields together across that place (`RnCrcBits`,
  `ArrivedBits`): a bit of the CRC changes the CRC alone, a bit of the number one byte and so, by
  `CrcTellsBytesApart`, the CRC that is expected;
* `ShiftedHasNoLabel`: what is built with shifts of an int by 32 and more (kill, lock, read, write, select) either
  fills whole packages or is empty, or has a size no validator takes: it has no label in any outcome of the shifts.

Lemmas the other modules need: all packages but the last two of a command are full (`CutIsPacked`), nothing that consists
of full packages has a label (`FullPackagesHaveNoLabel`), and for each builder what a receiver sees (`AckShows` to
`RnCrcShows`).

`Exchange_proofs` proves all safety properties of the run `Exchange`, for any fields of the right widths
(`FieldsAssumption`), any set of damaged commands, any garbage and any bound on the FIFO:

* `TypeCorrectExchange` (`TypeOK`), with the index of `receiver_get_package`: one past the limit at most, when main gives up;
* `NothingIsLeftBehind` (`NothingLeftBehind`): calls are in step with commands if and only if no package of zeros was sent;
* `BuiltIsRecognised` (`RecognisedAsBuilt`): until a package of zeros is sent, a functional command that no fault hit is recognised
  if and only if it is not a Req_RN with upper bits while the table is filled (`UpperBitsAreRefused`: that one
  never is, since the CRC tells its number from the one without them); `NeverTakenForAnother` (`NeverMislabelled`): the thirteen validators, in the order
  in which `rfid_check_command` tries them, against the thirteen builders;
* `QueryIsUnchecked` (`OnlyCodeAndCrcOfQuery`): a query with one wrong bit keeps its label if and only if its code and the constant at the
  place of its CRC are whole;
* `FilledTableRefuses` (`FilledTableRefusesDamage`), from `WrongBitIsNoticed`;
* `TableDivides` (`CrcIsRemainder`), from `CrcIsLongDivision`.

The properties are about the moment after `rfid_check_command`; the invariant has to carry a command there package by package.
`CallInv` says that between commands the FIFO is empty, and until a call ends there is one command (`OnLine`: what was built, or
it with one bit flipped) and one way to hear it (`Heard`) of which the first `i` packages are in main's array, with the size
that belongs to them (`Taken`), and the rest is in the FIFO (`Where`); all this as long as `lossless`.  `LabelInv` says what
a label is.  With both, `WhatIsChecked` reduces each property to a fact about operators.  `EndsInv` is what holds once `lossless` is
gone: the FIFO ends with a void package, and a call that is due finds a package of zeros before it, so the last is never taken.

`Handshake_proofs` proves `Implements`, `Spec => ImplementsDialogue`, for every set of set-ups and any garbage.  The
invariant has two parts.  `ScriptInv`: a program sends and receives in turn, so that a board has said as many commands as
it has heard, or one more or less by who begins.  `TransitInv`: of what was said to a board and not heard, there is at
most one command, and it is on the line (`OnAir`), in the FIFO (`Stored`), cut off by a refused symbol (`CutOff`: full
packages, which have no label) or in main's array (`Received`); with none under way the board waits (`Idle`).  A board about to send
therefore finds nothing under way (`TurnToSay`), and one that accepts a command accepts the one that is
(`TurnToHear`).  The Dialogue counts follow, with one step per kind of action in `DialogueStep`.

The same module proves the other two invariants of the run `Handshake`, again for every set of set-ups and any garbage:

* `TypeCorrect` (`TypeOK`), with `CallsEnd`: a call that goes on or returns has stored no more than the one or two words
  of main's array (reader.c:64, 95, 123; tag.c:48, 77, 105); one package at most is stored past it, and then main gives up;
* `HandleIsAgreed` (`HandleAgreed`): a reader that is done holds the handle that the other side sent, whichever
  symbols are refused and however late a board is launched.  `ReaderInv` follows the
  command that carries it, which is the last one of the dialogue: once said it is on the line, in the FIFO or in the
  array (`HearsTold`), whole or refused, and no earlier command can be taken for it, since by these
  turns the reader has heard all of those (`CountInv` ties counts to places in main).  `HandleComesBack` is
  `NumberComesBack` for the two packages the reader puts together.

`TagLine_proofs` proves the three invariants of the run `TagLine` for every Tari, package width, depth, set of answers and way
in which the host holds its request:

* `BitsAwaited` (`BitsAreAwaited`): `data_ready`, which is up for one clock and which nobody answers, never finds
  `package_constructor` anywhere but in `c_wait`;
* `FaultsRefused` (`OnlyFaultsAreRefused`): a symbol within the decoder's window (`InTimeAssumption`) is refused at no place of
  an answer, and neither is the end of an answer.  It says nothing of the documented limits, which lie two to three clocks lower:
  what they allow below the window is refused;
* `AnswerReachesHost` (`HostGetsAnswer`): the host reads the packages of the answer in their order, each once, and then one
  void package; nothing is lost or doubled, whatever the pulse generator, the FIFO, the constructor and the decoder are at.

The constants of the run are replaced by four assumptions.  `AnswersFit`: the packages of an answer, with the 1 that
may be heard at its end and the void package, fit into the FIFO, since nothing tells the constructor that it is full.  `LimitsAssumption`: the limits are at least four clocks, half of
the upper one is below the lower one, and 1.584 Tari is at least seven clocks above 1.01: what
the hand-overs take, two clocks from the limit to the last bit and five until it is stored.  At a Tari of 500 it is 287.
`InTimeAssumption`: a tag keeps time if its symbols and halves lie in the decoder's window, two or three clocks above the
limits, since the count begins three clocks after the first edge of an answer and four after any other (`Counts`).
`WrongAssumption`: a symbol that is wrong is still a symbol, shorter than the end of a command, with no edge in a hand-over, no
half as long as a whole and no whole as short as a half.

The invariant, `IInv`, puts tag, decoder and constructor on one time axis, the clocks `e` since the edge that started the
symbol.  `Hears(whole, half, e)` says in which places a command can be: the first edge is seen (`Opening`),
the edge of a symbol is seen, checked and given as a bit (`Closing`), the counter starts (`Starting`) and counts (`Counting`),
the middle of a 0 is checked (`Halving`), no edge came within 1.01 Tari (`Passing`), or one comes too late (`Late`).  What ties
the constructor to it is `Storing`: how far it is with a bit, by the same count.  There is one lemma for every place, and each
is about three outcomes of the tag's clock (`BegunStep`): the level is held, it changes in the middle of a symbol, or the symbol
ends.  The end of a command (`Announcing`, `Ending`, `Quiet`) needs that the next answer has not begun, and a tag begins when
the host has read the void package; so the invariant also follows the words.  `HostInv` is about the read pulse, `Unread` is the FIFO
without the word whose pulse is still due, and `VoidInv` says that no void package is in it before the constructor is at rest
(`Clean`), and none but the last word is one afterwards (`Ended`).

`AnswerReachesHost` needs the values of the bits as well, which `DataInv` adds.  `Stream` is all that may be heard, the answer
and a last 1; `Nth(i)` says that the tag is in its ith symbol, and `Told(i)` what the line tells of that bit before the middle.
`Means` ties the bit the decoder is at, and what it will say of it (`Verdict`), to the places of `Hears`.  The
constructor has been given `k` of the bits: `Accepted(k)` follows them through its states, `Flushing(k)` to the end of the command,
`Complete(k)` afterwards, and in each `WrittenAre(k)` says that the words written since the answer began, read (`got`) or
not (`Unread`), are the first packages of `k` bits.  While bits come only full packages are written, and `FullStays` says
that they do not depend on what comes later; `PackagesFacts` takes `PackagesOf` apart into these packages, and `Room` shows that the
FIFO is not full when one of them is written.  `HeardStep` is one clock, place by place; `AnswerIsWritten` reads off that the words are in order, and
`AnswerIsInPlace` that the host reads them so.

`Link_proofs` puts the sender before that receiver and proves the four state invariants and the refinement of the run `Link`, for every even Tari up to 1022,
every package width and depth, any commands that fit the FIFO, and resets at any clock between commands:

* `CommandComesBack` (`CommandSurvives`): what the receiver has stored when it stores the void package are the packages of the
  command, or of the command and the 1 that the falling line adds;
* `NothingIsRefused` (`NoDecodingError`): no symbol that the encoder makes, hand-over from package to package included, is out of time;
* `OneEndPerCommand` (`OneVoidPerCommand`) and `ResetSilences` (`ResetSilencesDecoder`);
* `LinkIsAChannel` (`ImplementsChannel`): sender, line and receiver implement `Channel`; the report comes when all packages are out.

The sender is a tag.  `TL == INSTANCE TagLine_proofs` replaces the tag's variables by functions of the sender's registers: the clocks
until the line changes (`Left`), the second half of a 0 (`Second`), the bits that have not begun (`Unsent`), silent, sending or
resting (`Phase`), and the command as the answer.  A symbol of the encoder is 2 clocks shorter to 7 longer than a Tari and a half
exact or one longer, so these are the `Wholes` and `Halves` of the tag, and none is wrong.  `SenderInv` says where the sender
is, in places of which each holds the registers together: `Off`; `Awaiting`; for package `n` and bit `k` `Starting`, `Opening`,
`Turning` (the symbol has been chosen and the line does not show it), `Showing` (it does, and the timers count), `Closing`, `Telling`,
`Asking` and `Popping`; with the void package at the head `SeesVoid`, `Falling`, `AskingVoid`, `PoppingVoid`; then `Resting`
and `Reporting`.  There is a lemma for every place, which says that the next clock leads to a place and is a step of the tag
(`TL!Tag`).  `Beside` is the part nobody would guess: the full timer, started by a 1, runs on beside the half timer
of a 0 that follows, and must not end in the middle of the next 1.

With the tag's step and the receiver's clock a step of `Link` is a step of `TagLine`, and the invariants `TL!IInv` and `TL!DataInv`
carry over without a look into the receiver (`Heard`).  Only a reset and the acceptance of a command are no such steps: they clear the
receiver (`Cleared`), a reset at any point between commands (`BlankInv`), acceptance when decoder and constructor are
at rest (`AcceptedAtRest`).  `LinkInv` is the conjunction.

For the refinement the order of the words is in `TL!DataInv` already (`DeliverStep`: what the FIFO takes is the next package of the
command).  That the report comes after the last of them is a race of two timers, of which neither knows the other: the sender holds the
line low for two Tari, the receiver waits for 1.584 and then has a word or two to write.  `TL!ToGo` counts the clocks that the receiver still needs
while the line is low, through the last edge, the count, `d_end` and every state of the constructor; it is at most
`t1584 + 14` (`ToGoIsBounded`) and less with every clock (`ToGoStep`).  `RestInv` adds it to the sender's timer: their sum is at most
`t1584 + 15` as long as the timer counts (`TimerRuns`), so if two Tari are longer than that, the receiver is through when it ends.
`Withdrawn` is what is left, no command outside of one.  `WaitChannel` is the clock of a command and `ChannelStep` any clock.

The hypotheses:

* `KeepsTime`: the Tari is even and fits the timers of the encoder, and the limits are at least five clocks from it, the longer one at least
  seven below 1.584 Tari.  `TestTimingsKeepTime` shows that what the test programs compute satisfies it for every even Tari from
  500 to 1022 (10 us and more at 50 MHz).  The Taris 20 and 402 of the run lie outside; these stay model-checked;
* `RestOutlasts`, only for `LinkIsAChannel`: two Tari are at least 1.584 Tari and 16 clocks.  `TestTimingsOutlast` shows it for the limits
  of the test programs; at a Tari of 20 it fails by six clocks, and the refinement is model-checked there;
* `timing = setting`: the registers are written once; `setting` is a constant about which nothing but `KeepsTime` is known;
* `NoResetInCommand`: resets come while the host chooses or writes, as in the run `Link`.  `LinkReset` shows that the properties
  are false without it;
* `CommandsAssumption`, of `Link`: the packages of a command and the 1 after it fit into the FIFO.

Not proved, and why:

* all liveness (`EveryStartFinishes`, `EveryCommandEnds`, `DocumentedFinishes` and the others): fairness and ENABLED are out of
  the prover's reach;
* `LineCarriesCommand`, which follows the levels and the lengths of the line through preambles too (`Link_proofs` has the
  generator off, as the programs do), and `ReceivedIsSent`, which needs `Link` under the bus accesses of a program.

## 5. Not modelled

* The board support package (`rfid_test_bsp`), generated Platform Designer files and top-level wiring: copied
  from the vendor or generated, no logic of this program.  The JTAG console is in no model: text is left out.
* A board that is launched again while the other one runs: the peripheral keeps its state over that, and
  no document says it is supported.
* `sender_check_usedw` and `receiver_check_usedw`: no program calls them, and they change nothing.
* Test benches: their stimuli are the environments of `SenderLine` and `TagLine`.
* What `sender_has_gen(1)` and `sender_is_preamble` write is in `Firmware`; both flags are 0 in config.h, so that
  the generator is never switched on.  It is modelled and checked in `SenderLine`.

## 6. Plan

1. (done) constructor with its abstract specification and proofs; encoder, decoder, sender, receiver; link;
   sender and receiver alone; register bank and program; the whole in loopback.
2. (done) commands and CRC; `Exchange`; `Handshake` with `Dialogue`; `Channel`, implemented by `Link`; proofs of the
   read request, of the exchange and of the dialogue.
3. (done) proofs of the CRC, of the labels and of the safety properties of `Exchange` and `Handshake`.
4. (done) the timing of the receiver, for every Tari, and the bits and packages of an answer as far as the host.
5. (done) the encoder as a tag of `TagLine`, so that what is proved of the receiver holds for `Link`; the order of the last package
   and the report, and with it `Channel`.
6. `Tester` as a `Link` whose host is a program.
