------------------------------- MODULE Commands -------------------------------
(***************************************************************************)
(* helpers/commands and rfid_check_command: a builder and a validator for  *)
(* each command.  A command is a 64-bit word and the number of its bits    *)
(* that are sent; packages[p] is what is left of a package's data when the *)
(* mask is gone.  The builders that shift an int by 32 and more give a set *)
(* of commands, one for each outcome.                                      *)
(***************************************************************************)
EXTENDS Crc

ACK_COMMAND == {0}
NAK_COMMAND == {7, 6}
QUERY_COMMAND == {3}
QUERY_ADJUST_COMMAND == {3, 0}
QUERY_REP_COMMAND == {}
REQ_RN_COMMAND == {7, 6, 0}
READ_COMMAND == {7, 6, 1}
WRITE_COMMAND == {7, 6, 1, 0}
KILL_COMMAND == {7, 6, 2}
LOCK_COMMAND == {7, 6, 2, 0}
SELECT_COMMAND == {3, 1}

ACK_SIZE == 18
NAK_SIZE == 8
QUERY_SIZE == 22
QUERY_ADJUST_SIZE == 9
QUERY_REP_SIZE == 4
REQ_RN_SIZE == 40
READ_SIZE == 57
WRITE_SIZE == 58
KILL_SIZE == 59
LOCK_SIZE == 60
SELECT_SIZE == 44
RN16_SIZE == 16
RN_CRC_SIZE == 32

command(result_data, size) == [result_data |-> result_data, size |-> size]

-----------------------------------------------------------------------------
(* Builders whose every shift stays inside its type.                       *)

ack_build(rn) == command(Field(ACK_COMMAND, 2, 16) \cup Low(rn, 16), ACK_SIZE)

nak_build == command(NAK_COMMAND, NAK_SIZE)

query_build(dr, m, trext, sel, session, target, q) ==
  LET without_crc ==
        LeftShift(QUERY_COMMAND, 13) \cup LeftShift(dr, 12) \cup LeftShift(m, 10)
          \cup LeftShift(trext, 9) \cup LeftShift(sel, 7) \cup LeftShift(session, 5)
          \cup LeftShift(target, 4) \cup q
  IN command(LeftShift(without_crc, 5) \cup crc5(Low(without_crc, 8)), QUERY_SIZE)

query_adjust_command(session, updn) ==
  command(LeftShift(QUERY_ADJUST_COMMAND, 5) \cup LeftShift(session, 3) \cup updn,
          QUERY_ADJUST_SIZE)

query_rep_build(session) ==
  command(LeftShift(QUERY_REP_COMMAND, 2) \cup session, QUERY_REP_SIZE)

req_rn_build(crc_table, rn) ==
  LET without_crc == Field(REQ_RN_COMMAND, 8, 16) \cup Low(rn, 16)
  IN command(LeftShift(without_crc, 16) \cup crc_16_ccitt(crc_table, without_crc, 3),
             REQ_RN_SIZE)

\* 0xFD24
rn16_build == command({15, 14, 13, 12, 11, 10, 8, 5, 2}, RN16_SIZE)

rn_crc_build(crc_table, rn) ==
  command(Widened(Field(rn, 16, 16) \cup Low(crc_16_ccitt(crc_table, rn, 3), 16)),
          RN_CRC_SIZE)

-----------------------------------------------------------------------------
(* Builders that shift an int out of its type.                             *)

kill_build(password, rfu, rn, crc) ==
  {command(Widened(k) \cup Widened(p) \cup Widened(r) \cup Widened(LeftShift(rn, 16)) \cup crc,
           KILL_SIZE) :
     k \in IntShifts(KILL_COMMAND, 51), p \in IntShifts(password, 35), r \in IntShifts(rfu, 32)}

\* The payload is an unsigned int.
lock_build(payload, rn, crc) ==
  {command(Widened(k) \cup p \cup Widened(LeftShift(rn, 16)) \cup crc, LOCK_SIZE) :
     k \in IntShifts(LOCK_COMMAND, 52), p \in IntShifts(payload, 32)}

read_build(mem_bank, word_ptr, word_count, rn, crc) ==
  {command(Widened(k) \cup Widened(b) \cup Widened(p) \cup Widened(c)
             \cup Widened(LeftShift(rn, 16)) \cup crc, READ_SIZE) :
     k \in IntShifts(READ_COMMAND, 49), b \in IntShifts(mem_bank, 47),
     p \in IntShifts(word_ptr, 39), c \in IntShifts(word_count, 32)}

write_build(mem_bank, word_ptr, data, rn, crc) ==
  {command(Widened(k) \cup Widened(b) \cup Widened(p) \cup Widened(d)
             \cup Widened(LeftShift(rn, 16)) \cup crc, WRITE_SIZE) :
     k \in IntShifts(WRITE_COMMAND, 49), b \in IntShifts(mem_bank, 47),
     p \in IntShifts(word_ptr, 39), d \in IntShifts(data, 32)}

\* (truncate is shifted to the place of the mask's first bit.)
select_build(target, action, mem_bank, pointer, length, mask, truncate, crc) ==
  {command(Widened(k) \cup Widened(t) \cup Widened(a) \cup Widened(b)
             \cup Widened(LeftShift(pointer, 24)) \cup LeftShift(length, 16)
             \cup LeftShift(mask, 2) \cup LeftShift(truncate, 2) \cup crc, SELECT_SIZE) :
     k \in IntShifts(SELECT_COMMAND, 40), t \in IntShifts(target, 37),
     a \in IntShifts(action, 34), b \in IntShifts(mem_bank, 32)}

-----------------------------------------------------------------------------
(* Validators.  One bit too many is let through.                           *)

\* Mutant of HasSize: the bit too many is not let through.
HasExactSize(command_size, size) == command_size = size

HasSize(command_size, size) == command_size \in {size, size + 1}

ack_validate(packages, command_size) ==
  /\ HasSize(command_size, ACK_SIZE)
  /\ ExtractField(packages[0], 2, 16) = ACK_COMMAND

\* Mutant of nak_validate: the code is not looked at.
nak_validate_by_size(packages, command_size) == HasSize(command_size, NAK_SIZE)

nak_validate(packages, command_size) ==
  /\ HasSize(command_size, NAK_SIZE)
  /\ Low(packages[0], 8) = NAK_COMMAND

\* Mutant of query_validate: the CRC is not compared.
query_validate_loose(packages, command_size) ==
  /\ HasSize(command_size, QUERY_SIZE)
  /\ ExtractField(packages[0], 4, 18) = QUERY_COMMAND

query_validate(packages, command_size) ==
  /\ HasSize(command_size, QUERY_SIZE)
  /\ ExtractField(packages[0], 4, 18) = QUERY_COMMAND
  /\ Low(packages[0], 5) = crc5(Low(RightShift(packages[0], 5), 8))

\* The upper six bits of the number are in packages[1] and are not fetched.
req_rn_validate(crc_table, packages, command_size) ==
  LET rn == ExtractField(packages[0], 16, 16)
      without_crc == LeftShift(REQ_RN_COMMAND, 16) \cup rn
  IN /\ HasSize(command_size, REQ_RN_SIZE)
     /\ ExtractField(packages[1], 8, 6) = REQ_RN_COMMAND
     /\ Low(packages[0], 16) = crc_16_ccitt(crc_table, without_crc, 3)

rn_crc_validate(crc_table, packages, command_size) ==
  LET rn == Field(packages[1], 6, 10) \cup ExtractField(packages[0], 10, 16)
  IN /\ HasSize(command_size, RN_CRC_SIZE)
     /\ Low(packages[0], 16) = crc_16_ccitt(crc_table, rn, 3)

\* 0xEF is not the mask of seven bits.
kill_validate(packages, command_size) ==
  /\ HasSize(command_size, KILL_SIZE)
  /\ LeftShift(packages[2] \cap {7, 6, 5, 3, 2, 1, 0}, 1) \cup ExtractField(packages[1], 1, 25)
       = KILL_COMMAND

lock_validate(packages, command_size) == FALSE

query_adjust_validate(packages, command_size) ==
  /\ HasSize(command_size, QUERY_ADJUST_SIZE)
  /\ ExtractField(packages[0], 4, 5) = QUERY_ADJUST_COMMAND

query_rep_validate(packages, command_size) ==
  /\ HasSize(command_size, QUERY_REP_SIZE)
  /\ ExtractField(packages[0], 2, 2) = QUERY_REP_COMMAND

read_validate(packages, command_size) ==
  /\ HasSize(command_size, READ_SIZE)
  /\ Field(packages[2], 3, 5) \cup Low(packages[1], 5) = READ_COMMAND

select_validate(packages, command_size) == FALSE

write_validate(packages, command_size) ==
  /\ HasSize(command_size, WRITE_SIZE)
  /\ ExtractField(packages[2], 8, 2) = WRITE_COMMAND

rn16_validate(command_size) == HasSize(command_size, RN16_SIZE)

-----------------------------------------------------------------------------

Labels == {"ack", "nak", "query", "req_rn", "rn_crc", "kill", "lock", "query_adjust",
           "query_rep", "read", "select", "write", "rn16"}

\* What -1 stands for.
NoLabel == "none"

\* The first validator that agrees gives the label.
rfid_check_command(crc_table, packages, command_size) ==
  IF ack_validate(packages, command_size) THEN "ack"
  ELSE IF nak_validate(packages, command_size) THEN "nak"
  ELSE IF query_validate(packages, command_size) THEN "query"
  ELSE IF req_rn_validate(crc_table, packages, command_size) THEN "req_rn"
  ELSE IF rn_crc_validate(crc_table, packages, command_size) THEN "rn_crc"
  ELSE IF kill_validate(packages, command_size) THEN "kill"
  ELSE IF lock_validate(packages, command_size) THEN "lock"
  ELSE IF query_adjust_validate(packages, command_size) THEN "query_adjust"
  ELSE IF query_rep_validate(packages, command_size) THEN "query_rep"
  ELSE IF read_validate(packages, command_size) THEN "read"
  ELSE IF select_validate(packages, command_size) THEN "select"
  ELSE IF write_validate(packages, command_size) THEN "write"
  ELSE IF rn16_validate(command_size) THEN "rn16"
  ELSE NoLabel
=============================================================================
