--------------------------------- MODULE Crc ---------------------------------
(***************************************************************************)
(* helpers/crc.c.  crc_table is 0 until crc_16_ccitt_init fills it.        *)
(***************************************************************************)
EXTENDS Words

POLYNOMIAL_16 == {12, 5, 0}
INITIAL_REMAINDER_16 == Bits(16)
POLYNOMIAL_5 == {5, 3, 0}
INITIAL_REMAINDER_5 == {3, 0}

Tables == [SUBSET Bits(8) -> SUBSET Bits(16)]
ZeroTable == [dividend \in SUBSET Bits(8) |-> {}]

\* One bit of a division: shift, and subtract the divisor when a 1 falls out.
DivideBit16[remainder \in SUBSET Bits(16)] ==
  LET shifted == Low(LeftShift(remainder, 1), 16)
  IN IF 15 \in remainder THEN ExclusiveOr(shifted, POLYNOMIAL_16) ELSE shifted

\* The table of crc_16_ccitt_init.
FilledTable ==
  [dividend \in SUBSET Bits(8) |->
     LET remainder[bit \in 0 .. 8] ==
           IF bit = 0 THEN LeftShift(dividend, 8) ELSE DivideBit16[remainder[bit - 1]]
     IN remainder[8]]

\* The remainder after one more byte.
DivideByte(crc_table, byte) ==
  [remainder \in SUBSET Bits(16) |->
     ExclusiveOr(crc_table[ExclusiveOr(byte, RightShift(remainder, 8))],
                 Low(LeftShift(remainder, 8), 16))]

\* Mutant of crc_16_ccitt: every byte of the message is the first.
crc_16_ccitt_of_first(crc_table, message, n_bytes) ==
  LET remainder[n \in 0 .. n_bytes] ==
        IF n = 0 THEN INITIAL_REMAINDER_16
        ELSE DivideByte(crc_table, Low(message, 8))[remainder[n - 1]]
  IN remainder[n_bytes]

\* The bytes of the message are taken from the low end.
crc_16_ccitt(crc_table, message, n_bytes) ==
  LET remainder[n \in 0 .. n_bytes] ==
        IF n = 0 THEN INITIAL_REMAINDER_16
        ELSE DivideByte(crc_table, ExtractField(message, 8, 8 * (n - 1)))[remainder[n - 1]]
  IN remainder[n_bytes]

\* One bit of the division of crc5, in an 8-bit register.
DivideBit5[remainder \in SUBSET Bits(8)] ==
  Low(LeftShift(IF 7 \in remainder THEN ExclusiveOr(remainder, POLYNOMIAL_5) ELSE remainder, 1), 8)

Remainder5 ==
  LET remainder[n \in 0 .. 8] == IF n = 0 THEN INITIAL_REMAINDER_5 ELSE DivideBit5[remainder[n - 1]]
  IN RightShift(remainder[8], 3)

\* The message is not used: the loop divides the initial remainder alone.
crc5(message) == Remainder5
=============================================================================
