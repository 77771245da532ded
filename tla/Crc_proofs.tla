----------------------------- MODULE Crc_proofs -----------------------------
(***************************************************************************)
(* Facts about words and about crc_16_ccitt, for messages of any length:   *)
(* with its table filled it is the remainder of a long division and no     *)
(* two messages that differ in one byte have the same; with the table of   *)
(* zeros that the programs leave it with, every message has the same.      *)
(***************************************************************************)
EXTENDS Crc, WellFoundedInduction, TLAPS

-----------------------------------------------------------------------------
(* Words.                                                                  *)

LEMMA LeftShiftMember ==
  ASSUME NEW w \in SUBSET Int, NEW n \in Int, NEW k \in Int
  PROVE  LeftShift(w, n) \in SUBSET Int /\ (k \in LeftShift(w, n) <=> k - n \in w)
BY DEF LeftShift

LEMMA FieldMember ==
  ASSUME NEW w, NEW width \in Nat, NEW place \in Nat, NEW k \in Int
  PROVE  k \in Field(w, width, place) <=> k - place \in w /\ k - place \in 0 .. width - 1
BY DEF Field, LeftShift, Low, Bits

LEMMA ExtractFieldMember ==
  ASSUME NEW w \in SUBSET Int, NEW width \in Nat, NEW place \in Nat, NEW k \in Int
  PROVE  k \in ExtractField(w, width, place) <=> k \in 0 .. width - 1 /\ k + place \in w
BY DEF ExtractField, RightShift, Low, Bits

LEMMA ExtractFieldType ==
  ASSUME NEW w, NEW width \in Nat, NEW place \in Nat
  PROVE  ExtractField(w, width, place) \in SUBSET Bits(width)
BY DEF ExtractField, Low

-----------------------------------------------------------------------------
(* Recursion over numbers.                                                 *)

Less == {ij \in Nat \X Nat : ij[1] < ij[2]}

\* Induction, with the property given as the set of the numbers that have it.
LEMMA SetInduction ==
  ASSUME NEW T \in SUBSET Nat, 0 \in T, \A n \in T : n + 1 \in T
  PROVE  T = Nat
<1> SUFFICES ASSUME Nat \ T # {} PROVE FALSE
  OBVIOUS
<1>1. IsWellFoundedOn(Less, Nat)
  BY NatLessThanWellFounded DEF Less, OpToRel
<1>2. PICK n \in Nat \ T : \A m \in Nat \ T : <<m, n>> \notin Less
  BY <1>1, WFMin
<1>3. n - 1 \in Nat /\ <<n - 1, n>> \in Less
  BY DEF Less
<1>4. n - 1 \in T
  BY <1>2, <1>3
<1> QED
  BY <1>3, <1>4

\* f follows the recursion over 0 .. N that starts with c and goes on with step.
Follows(f, c, N, step) == f[0] = c /\ \A n \in 1 .. N : f[n] = step[n][f[n - 1]]

\* A function that is defined by recursion over 0 .. N exists, when every step is a
\* function of D to D ...
LEMMA RecursionExists ==
  ASSUME NEW D, NEW c \in D, NEW N \in Nat, NEW step \in [1 .. N -> [D -> D]]
  PROVE  \E f \in [0 .. N -> D] : Follows(f, c, N, step)
<1> USE DEF Follows
<1> DEFINE T == {m \in Nat : m <= N => \E g \in [0 .. m -> D] : Follows(g, c, m, step)}
<1>1. 0 \in T
  <2>1. [n \in 0 .. 0 |-> c] \in [0 .. 0 -> D] /\ Follows([n \in 0 .. 0 |-> c], c, 0, step)
    OBVIOUS
  <2> QED
    BY <2>1
<1>2. ASSUME NEW m \in T PROVE m + 1 \in T
  <2> SUFFICES ASSUME m + 1 <= N PROVE \E g \in [0 .. m + 1 -> D] : Follows(g, c, m + 1, step)
    OBVIOUS
  <2>1. PICK g \in [0 .. m -> D] : Follows(g, c, m, step)
    OBVIOUS
  <2> DEFINE h == [n \in 0 .. m + 1 |-> IF n = m + 1 THEN step[m + 1][g[m]] ELSE g[n]]
  <2>2. m + 1 \in 1 .. N /\ g[m] \in D
    OBVIOUS
  <2>3. step[m + 1][g[m]] \in D
    BY <2>2
  <2>4. h \in [0 .. m + 1 -> D]
    BY <2>3
  <2>5. ASSUME NEW n \in 1 .. m + 1 PROVE h[n] = step[n][h[n - 1]]
    BY <2>1
  <2>6. h[0] = c
    BY <2>1
  <2> QED
    BY <2>4, <2>5, <2>6
<1>3. T = Nat
  <2>1. T \in SUBSET Nat /\ \A m \in T : m + 1 \in T
    BY <1>2
  <2> HIDE DEF T
  <2> QED
    BY <1>1, <2>1, SetInduction
<1> QED
  BY <1>3

\* ... and its values are in D.
LEMMA RecursionType ==
  ASSUME NEW D, NEW N \in Nat, NEW step \in [1 .. N -> [D -> D]],
         NEW f, f[0] \in D, Follows(f, f[0], N, step)
  PROVE  \A n \in 0 .. N : f[n] \in D
<1> USE DEF Follows
<1> DEFINE V == {n \in Nat : n <= N => f[n] \in D}
<1>1. 0 \in V
  OBVIOUS
<1>2. ASSUME NEW n \in V PROVE n + 1 \in V
  <2> SUFFICES ASSUME n + 1 <= N PROVE f[n + 1] \in D
    OBVIOUS
  <2>1. n + 1 \in 1 .. N /\ f[n] \in D /\ n + 1 - 1 = n
    OBVIOUS
  <2>2. f[n + 1] = step[n + 1][f[n]]
    BY <2>1
  <2> QED
    BY <2>1, <2>2
<1>3. V = Nat
  <2>1. V \in SUBSET Nat /\ \A n \in V : n + 1 \in V
    BY <1>2
  <2> HIDE DEF V
  <2> QED
    BY <1>1, <2>1, SetInduction
<1>4. \A n \in Nat : n <= N => f[n] \in D
  BY <1>3
<1> QED
  BY <1>4

-----------------------------------------------------------------------------
(* The bits of a division.                                                 *)

Words16 == SUBSET Bits(16)

LEMMA Xor ==
  ASSUME NEW n \in Nat, NEW x \in SUBSET Bits(n), NEW y \in SUBSET Bits(n)
  PROVE  /\ ExclusiveOr(x, y) \in SUBSET Bits(n)
         /\ ExclusiveOr(x, x) = {} /\ ExclusiveOr(x, {}) = x /\ ExclusiveOr({}, x) = x
         /\ ExclusiveOr(x, y) = {} => x = y
         /\ ExclusiveOr(x, ExclusiveOr(x, y)) = y
BY DEF ExclusiveOr

LEMMA Xor16 ==
  ASSUME NEW x \in Words16, NEW y \in Words16
  PROVE  ExclusiveOr(x, y) \in Words16 /\ ExclusiveOr(x, {}) = x
BY Xor DEF Words16

LEMMA DivideBitType ==
  /\ DivideBit16 \in [Words16 -> Words16]
  /\ \A r \in Words16 :
       DivideBit16[r] = IF 15 \in r THEN ExclusiveOr(Low(LeftShift(r, 1), 16), POLYNOMIAL_16)
                                    ELSE Low(LeftShift(r, 1), 16)
<1> DEFINE F == [r \in Words16 |->
                   IF 15 \in r THEN ExclusiveOr(Low(LeftShift(r, 1), 16), POLYNOMIAL_16)
                               ELSE Low(LeftShift(r, 1), 16)]
<1>1. DivideBit16 = F
  BY DEF DivideBit16, Words16
<1>2. POLYNOMIAL_16 \in Words16
  BY DEF POLYNOMIAL_16, Words16, Bits
<1>3. \A r \in Words16 : Low(LeftShift(r, 1), 16) \in Words16
  BY DEF Low, Words16
<1>4. \A r \in Words16 : F[r] \in Words16
  BY <1>2, <1>3, Xor DEF Words16
<1> QED
  BY <1>1, <1>4

\* What one bit of the division does to the places of a word.
LEMMA DivideBitMember ==
  ASSUME NEW r \in Words16, NEW k \in 0 .. 15
  PROVE  k \in DivideBit16[r] <=> (k - 1 \in r) # (15 \in r /\ k \in POLYNOMIAL_16)
<1>1. k \in Low(LeftShift(r, 1), 16) <=> k - 1 \in r
  BY DEF Low, LeftShift, Bits, Words16
<1> QED
  BY <1>1, DivideBitType DEF ExclusiveOr

LEMMA DivideBitIsLinear ==
  ASSUME NEW x \in Words16, NEW y \in Words16
  PROVE  DivideBit16[ExclusiveOr(x, y)] = ExclusiveOr(DivideBit16[x], DivideBit16[y])
<1>1. ExclusiveOr(x, y) \in Words16
  BY Xor DEF Words16
<1>2. /\ DivideBit16[ExclusiveOr(x, y)] \in Words16
      /\ DivideBit16[x] \in Words16 /\ DivideBit16[y] \in Words16
  BY <1>1, DivideBitType
<1>3. ExclusiveOr(DivideBit16[x], DivideBit16[y]) \in Words16
  BY <1>2, Xor DEF Words16
<1>4. ASSUME NEW k \in 0 .. 15
      PROVE  k \in DivideBit16[ExclusiveOr(x, y)]
               <=> k \in ExclusiveOr(DivideBit16[x], DivideBit16[y])
  <2>1. k \in DivideBit16[ExclusiveOr(x, y)]
          <=> (k - 1 \in ExclusiveOr(x, y)) # (15 \in ExclusiveOr(x, y) /\ k \in POLYNOMIAL_16)
    BY <1>1, DivideBitMember
  <2>2. k \in DivideBit16[x] <=> (k - 1 \in x) # (15 \in x /\ k \in POLYNOMIAL_16)
    BY DivideBitMember
  <2>3. k \in DivideBit16[y] <=> (k - 1 \in y) # (15 \in y /\ k \in POLYNOMIAL_16)
    BY DivideBitMember
  <2> QED
    BY <2>1, <2>2, <2>3 DEF ExclusiveOr
<1> QED
  BY <1>2, <1>3, <1>4 DEF Words16, Bits

LEMMA DivideBitLosesNothing ==
  ASSUME NEW r \in Words16
  PROVE  DivideBit16[r] = {} <=> r = {}
<1>1. 0 \in POLYNOMIAL_16 /\ r \in SUBSET (0 .. 15)
  BY DEF POLYNOMIAL_16, Words16, Bits
<1>2. \A k \in 0 .. 15 : k \in DivideBit16[r] <=> (k - 1 \in r) # (15 \in r /\ k \in POLYNOMIAL_16)
  BY DivideBitMember
<1>3. ASSUME DivideBit16[r] = {} PROVE r = {}
  <2>1. 15 \notin r
    BY <1>1, <1>2, <1>3
  <2>2. \A k \in 0 .. 15 : k - 1 \notin r
    BY <1>2, <1>3, <2>1
  <2>3. \A k \in 0 .. 14 : k \notin r
    <3>1. \A k \in 0 .. 14 : k + 1 \in 0 .. 15 /\ k + 1 - 1 = k
      OBVIOUS
    <3> QED
      BY <2>2, <3>1
  <2> QED
    BY <1>1, <2>1, <2>3
<1>4. ASSUME r = {} PROVE DivideBit16[r] = {}
  <2>1. DivideBit16[r] \in SUBSET (0 .. 15)
    BY DivideBitType DEF Words16, Bits
  <2> QED
    BY <1>2, <1>4, <2>1
<1> QED
  BY <1>3, <1>4

\* While no 1 falls out it is a shift.
LEMMA DivideBitShifts ==
  ASSUME NEW r \in Words16, 15 \notin r
  PROVE  DivideBit16[r] = LeftShift(r, 1)
<1>1. DivideBit16[r] = Low(LeftShift(r, 1), 16)
  BY DivideBitType
<1>2. LeftShift(r, 1) \in SUBSET (0 .. 15)
  BY DEF LeftShift, Words16, Bits
<1> QED
  BY <1>1, <1>2 DEF Low, Bits

-----------------------------------------------------------------------------
(* The bits of a byte.                                                     *)

Divide2(r) == DivideBit16[DivideBit16[r]]
Divide4(r) == Divide2(Divide2(r))
Divide8(r) == Divide4(Divide4(r))

LEMMA Divide8IsLinear ==
  ASSUME NEW x \in Words16, NEW y \in Words16
  PROVE  /\ Divide8(x) \in Words16
         /\ Divide8(ExclusiveOr(x, y)) = ExclusiveOr(Divide8(x), Divide8(y))
<1>1. \A u, v \in Words16 :
        Divide2(u) \in Words16 /\ Divide2(ExclusiveOr(u, v)) = ExclusiveOr(Divide2(u), Divide2(v))
  BY DivideBitType, DivideBitIsLinear DEF Divide2
<1>2. \A u, v \in Words16 :
        Divide4(u) \in Words16 /\ Divide4(ExclusiveOr(u, v)) = ExclusiveOr(Divide4(u), Divide4(v))
  BY <1>1 DEF Divide4
<1> QED
  BY <1>2 DEF Divide8

LEMMA Divide8LosesNothing ==
  ASSUME NEW x \in Words16, NEW y \in Words16, Divide8(x) = Divide8(y)
  PROVE  x = y
<1>1. \A r \in Words16 : Divide2(r) \in Words16 /\ (Divide2(r) = {} <=> r = {})
  BY DivideBitType, DivideBitLosesNothing DEF Divide2
<1>2. \A r \in Words16 : Divide4(r) \in Words16 /\ (Divide4(r) = {} <=> r = {})
  BY <1>1 DEF Divide4
<1>3. \A r \in Words16 : Divide8(r) = {} <=> r = {}
  BY <1>2 DEF Divide8
<1>4. ExclusiveOr(x, y) \in Words16
  BY Xor DEF Words16
<1>5. Divide8(ExclusiveOr(x, y)) = {}
  <2>1. Divide8(ExclusiveOr(x, y)) = ExclusiveOr(Divide8(x), Divide8(y))
    BY Divide8IsLinear
  <2>2. ExclusiveOr(Divide8(y), Divide8(y)) = {}
    BY DEF ExclusiveOr
  <2> QED
    BY <2>1, <2>2
<1>6. ExclusiveOr(x, y) = {}
  BY <1>3, <1>4, <1>5
<1> QED
  BY <1>6, Xor DEF Words16

LEMMA Divide8Shifts ==
  ASSUME NEW x \in SUBSET Bits(8)
  PROVE  Divide8(x) = LeftShift(x, 8)
<1>1. ASSUME NEW n \in 0 .. 7
      PROVE  /\ LeftShift(x, n) \in Words16
             /\ DivideBit16[LeftShift(x, n)] = LeftShift(x, n + 1)
  <2>1. LeftShift(x, n) \in Words16 /\ 15 \notin LeftShift(x, n)
    BY DEF LeftShift, Words16, Bits
  <2>2. LeftShift(LeftShift(x, n), 1) = LeftShift(x, n + 1)
    <3>1. x \in SUBSET Int
      BY DEF Bits
    <3>2. /\ LeftShift(x, n) \in SUBSET Int /\ LeftShift(x, n + 1) \in SUBSET Int
          /\ \A k \in Int : k \in LeftShift(x, n) <=> k - n \in x
          /\ \A k \in Int : k \in LeftShift(x, n + 1) <=> k - (n + 1) \in x
      BY <3>1, LeftShiftMember
    <3>3. /\ LeftShift(LeftShift(x, n), 1) \in SUBSET Int
          /\ \A k \in Int : k \in LeftShift(LeftShift(x, n), 1) <=> k - 1 \in LeftShift(x, n)
      BY <3>2, LeftShiftMember
    <3>4. \A k \in Int : (k - 1) - n = k - (n + 1)
      OBVIOUS
    <3> QED
      BY <3>2, <3>3, <3>4
  <2> QED
    BY <2>1, <2>2, DivideBitShifts
<1>2. LeftShift(x, 0) = x
  <2>1. x \in SUBSET Int
    BY DEF Bits
  <2>2. LeftShift(x, 0) \in SUBSET Int /\ \A k \in Int : k \in LeftShift(x, 0) <=> k - 0 \in x
    BY <2>1, LeftShiftMember
  <2>3. \A k \in Int : k - 0 = k
    OBVIOUS
  <2> QED
    BY <2>1, <2>2, <2>3
<1>3. /\ DivideBit16[x] = LeftShift(x, 1)
      /\ DivideBit16[LeftShift(x, 1)] = LeftShift(x, 2)
      /\ DivideBit16[LeftShift(x, 2)] = LeftShift(x, 3)
      /\ DivideBit16[LeftShift(x, 3)] = LeftShift(x, 4)
  BY <1>1, <1>2
<1>4. /\ DivideBit16[LeftShift(x, 4)] = LeftShift(x, 5)
      /\ DivideBit16[LeftShift(x, 5)] = LeftShift(x, 6)
      /\ DivideBit16[LeftShift(x, 6)] = LeftShift(x, 7)
      /\ DivideBit16[LeftShift(x, 7)] = LeftShift(x, 8)
  BY <1>1
<1> QED
  BY <1>3, <1>4 DEF Divide8, Divide4, Divide2

LEMMA EightBits ==
  ASSUME NEW c \in Words16, NEW rem,
         rem = CHOOSE g : g = [bit \in 0 .. 8 |-> IF bit = 0 THEN c ELSE DivideBit16[g[bit - 1]]]
  PROVE  rem[8] = Divide8(c)
<1> DEFINE divide == [n \in 1 .. 8 |-> DivideBit16]
           F(g) == [bit \in 0 .. 8 |-> IF bit = 0 THEN c ELSE DivideBit16[g[bit - 1]]]
<1>1. divide \in [1 .. 8 -> [Words16 -> Words16]] /\ \A n \in 1 .. 8 : divide[n] = DivideBit16
  BY DivideBitType
<1>2. PICK h \in [0 .. 8 -> Words16] :
        h[0] = c /\ \A n \in 1 .. 8 : h[n] = DivideBit16[h[n - 1]]
  <2> HIDE DEF divide
  <2>1. \E h \in [0 .. 8 -> Words16] : Follows(h, c, 8, divide)
    <3>1. divide \in [1 .. 8 -> [Words16 -> Words16]] /\ c \in Words16
      BY <1>1
    <3> QED
      BY ONLY <3>1, RecursionExists
  <2> QED
    BY <2>1, <1>1 DEF Follows
<1>3. h = F(h)
  BY <1>2
<1>4. rem = CHOOSE g : g = F(g)
  OBVIOUS
<1>5. rem = F(rem)
  <2> HIDE DEF F
  <2> QED
    BY ONLY <1>3, <1>4, Zenon
<1>6. /\ rem[0] = c
      /\ rem[1] = DivideBit16[rem[0]] /\ rem[2] = DivideBit16[rem[1]]
      /\ rem[3] = DivideBit16[rem[2]] /\ rem[4] = DivideBit16[rem[3]]
      /\ rem[5] = DivideBit16[rem[4]] /\ rem[6] = DivideBit16[rem[5]]
      /\ rem[7] = DivideBit16[rem[6]] /\ rem[8] = DivideBit16[rem[7]]
  <2>1. \A n \in 0 .. 8 : F(rem)[n] = IF n = 0 THEN c ELSE DivideBit16[rem[n - 1]]
    BY ONLY TRUE
  <2>2. \A n \in 0 .. 8 : rem[n] = IF n = 0 THEN c ELSE DivideBit16[rem[n - 1]]
    <3> HIDE DEF F
    <3> QED
      BY ONLY <1>5, <2>1, Zenon
  <2> HIDE DEF F
  <2>3. rem[0] = c /\ \A n \in 1 .. 8 : rem[n] = DivideBit16[rem[n - 1]]
    BY ONLY <2>2
  <2> QED
    BY ONLY <2>3
<1> QED
  BY <1>6 DEF Divide8, Divide4, Divide2

LEMMA FilledTableDivides ==
  /\ FilledTable \in Tables
  /\ \A byte \in SUBSET Bits(8) : FilledTable[byte] = Divide8(LeftShift(byte, 8))
<1>1. ASSUME NEW byte \in SUBSET Bits(8)
      PROVE  FilledTable[byte] = Divide8(LeftShift(byte, 8)) /\ LeftShift(byte, 8) \in Words16
  <2> DEFINE c == LeftShift(byte, 8)
             rem == CHOOSE g : g = [bit \in 0 .. 8 |->
                                      IF bit = 0 THEN c ELSE DivideBit16[g[bit - 1]]]
  <2>1. FilledTable[byte] = rem[8]
    BY DEF FilledTable
  <2>2. c \in Words16
    BY DEF LeftShift, Words16, Bits
  <2> HIDE DEF c
  <2>3. rem[8] = Divide8(c)
    BY <2>2, EightBits
  <2> QED
    BY <2>1, <2>2, <2>3 DEF c
<1>2. ASSUME NEW byte \in SUBSET Bits(8) PROVE FilledTable[byte] \in Words16
  BY <1>1, Divide8IsLinear
<1> QED
  BY <1>1, <1>2 DEF FilledTable, Tables, Words16

\* With the table filled one more byte costs what eight bits of the division do.
LEMMA DivideByteDivides ==
  ASSUME NEW byte \in SUBSET Bits(8), NEW r \in Words16
  PROVE  /\ LeftShift(byte, 8) \in Words16
         /\ DivideByte(FilledTable, byte)[r] = Divide8(ExclusiveOr(r, LeftShift(byte, 8)))
<1> DEFINE index == ExclusiveOr(byte, RightShift(r, 8))
<1>1. LeftShift(byte, 8) \in Words16 /\ r \in SUBSET (0 .. 15)
  BY DEF LeftShift, Words16, Bits
<1>2. RightShift(r, 8) \in SUBSET Bits(8)
  BY <1>1 DEF RightShift, Bits
<1>3. index \in SUBSET Bits(8)
  BY <1>2, Xor
<1>4. Low(LeftShift(r, 8), 16) = LeftShift(Low(r, 8), 8) /\ Low(r, 8) \in SUBSET Bits(8)
  BY <1>1 DEF Low, LeftShift, Bits
<1>5. LeftShift(index, 8) \in Words16 /\ Low(r, 8) \in Words16
  BY <1>3 DEF LeftShift, Low, Words16, Bits
<1>6. FilledTable[index] = Divide8(LeftShift(index, 8))
  BY <1>3, FilledTableDivides
<1>7. Low(LeftShift(r, 8), 16) = Divide8(Low(r, 8))
  BY <1>4, Divide8Shifts
<1>8. ExclusiveOr(LeftShift(index, 8), Low(r, 8)) = ExclusiveOr(r, LeftShift(byte, 8))
  <2>1. ASSUME NEW k \in 0 .. 15
        PROVE  k \in ExclusiveOr(LeftShift(index, 8), Low(r, 8))
                 <=> k \in ExclusiveOr(r, LeftShift(byte, 8))
    <3>1. k \in LeftShift(index, 8) <=> k - 8 \in index
      BY <1>3, LeftShiftMember DEF Bits
    <3>2. k \in LeftShift(byte, 8) <=> k - 8 \in byte
      BY LeftShiftMember DEF Bits
    <3>3. k - 8 \in RightShift(r, 8) <=> k \in r /\ k >= 8
      BY <1>1 DEF RightShift
    <3>4. k - 8 \in byte => k >= 8
      BY DEF Bits
    <3>5. k \in Low(r, 8) <=> k \in r /\ k < 8
      BY DEF Low, Bits
    <3> QED
      BY <3>1, <3>2, <3>3, <3>4, <3>5 DEF ExclusiveOr
  <2>2. /\ ExclusiveOr(LeftShift(index, 8), Low(r, 8)) \in SUBSET (0 .. 15)
        /\ ExclusiveOr(r, LeftShift(byte, 8)) \in SUBSET (0 .. 15)
    <3>1. /\ ExclusiveOr(LeftShift(index, 8), Low(r, 8)) \in SUBSET Bits(16)
          /\ ExclusiveOr(r, LeftShift(byte, 8)) \in SUBSET Bits(16)
      BY <1>1, <1>5, Xor DEF Words16
    <3> QED
      BY <3>1 DEF Bits
  <2> QED
    BY <2>1, <2>2
<1>9. DivideByte(FilledTable, byte)[r] = ExclusiveOr(FilledTable[index], Low(LeftShift(r, 8), 16))
  BY DEF DivideByte, Words16
<1> HIDE DEF index
<1> QED
  BY <1>1, <1>5, <1>6, <1>7, <1>8, <1>9, Divide8IsLinear

-----------------------------------------------------------------------------
(* crc_16_ccitt, whatever is in its table.                                 *)

Byte(message, n) == ExtractField(message, 8, 8 * (n - 1))

LEMMA DivideByteType ==
  ASSUME NEW t \in Tables, NEW byte \in SUBSET Bits(8)
  PROVE  /\ DivideByte(t, byte) \in [Words16 -> Words16]
         /\ \A r \in Words16 :
              DivideByte(t, byte)[r] = ExclusiveOr(t[ExclusiveOr(byte, RightShift(r, 8))],
                                                   Low(LeftShift(r, 8), 16))
<1>1. ASSUME NEW r \in Words16
      PROVE  ExclusiveOr(t[ExclusiveOr(byte, RightShift(r, 8))], Low(LeftShift(r, 8), 16))
               \in Words16
  <2>1. RightShift(r, 8) \in SUBSET Bits(8)
    BY DEF RightShift, Words16, Bits
  <2>2. ExclusiveOr(byte, RightShift(r, 8)) \in SUBSET Bits(8)
    BY <2>1, Xor
  <2>3. t[ExclusiveOr(byte, RightShift(r, 8))] \in SUBSET Bits(16)
    BY <2>2 DEF Tables
  <2>4. Low(LeftShift(r, 8), 16) \in SUBSET Bits(16)
    BY DEF Low
  <2> QED
    BY <2>3, <2>4, Xor DEF Words16
<1> QED
  BY <1>1 DEF DivideByte, Words16

LEMMA ByteType ==
  ASSUME NEW message, NEW n \in Nat \ {0}
  PROVE  Byte(message, n) \in SUBSET Bits(8)
<1>1. 8 * (n - 1) \in Nat
  OBVIOUS
<1> QED
  BY <1>1, ExtractFieldType DEF Byte

\* The remainders after each byte.
Remainders(r, t, message, N) ==
  /\ r[0] = INITIAL_REMAINDER_16
  /\ \A n \in 1 .. N : r[n] = DivideByte(t, Byte(message, n))[r[n - 1]]
  /\ crc_16_ccitt(t, message, N) = r[N]

LEMMA CrcFollows ==
  ASSUME NEW t \in Tables, NEW message, NEW N \in Nat
  PROVE  \E r \in [0 .. N -> Words16] : Remainders(r, t, message, N)
<1> DEFINE divide == [n \in 1 .. N |-> DivideByte(t, Byte(message, n))]
           F(g) == [n \in 0 .. N |-> IF n = 0 THEN INITIAL_REMAINDER_16
                                     ELSE DivideByte(t, Byte(message, n))[g[n - 1]]]
           rem == CHOOSE g : g = F(g)
<1>1. crc_16_ccitt(t, message, N) = rem[N]
  BY DEF crc_16_ccitt, Byte
<1>2. ASSUME NEW n \in 1 .. N PROVE DivideByte(t, Byte(message, n)) \in [Words16 -> Words16]
  BY ByteType, DivideByteType
<1>3. INITIAL_REMAINDER_16 \in Words16
  BY DEF INITIAL_REMAINDER_16, Words16
<1>4. divide \in [1 .. N -> [Words16 -> Words16]]
  BY <1>2
<1>5. \A n \in 1 .. N : divide[n] = DivideByte(t, Byte(message, n))
  OBVIOUS
<1> HIDE DEF divide
<1>6. \E h \in [0 .. N -> Words16] : Follows(h, INITIAL_REMAINDER_16, N, divide)
  BY <1>3, <1>4, RecursionExists
<1>7. PICK h \in [0 .. N -> Words16] :
        /\ h[0] = INITIAL_REMAINDER_16
        /\ \A n \in 1 .. N : h[n] = DivideByte(t, Byte(message, n))[h[n - 1]]
  BY <1>5, <1>6 DEF Follows
<1>8. h = F(h)
  <2>1. ASSUME NEW n \in 0 .. N
        PROVE  h[n] = IF n = 0 THEN INITIAL_REMAINDER_16
                      ELSE DivideByte(t, Byte(message, n))[h[n - 1]]
    BY <1>7
  <2> QED
    BY <2>1
<1>9. rem = F(rem)
  <2> HIDE DEF F
  <2> QED
    BY ONLY <1>8, Zenon
<1>10. \A n \in 0 .. N : F(rem)[n] = IF n = 0 THEN INITIAL_REMAINDER_16
                                     ELSE DivideByte(t, Byte(message, n))[rem[n - 1]]
  <2> HIDE DEF rem
  <2> QED
    BY ONLY TRUE
<1>11. \A n \in 0 .. N : rem[n] = IF n = 0 THEN INITIAL_REMAINDER_16
                                  ELSE DivideByte(t, Byte(message, n))[rem[n - 1]]
  <2> HIDE DEF F, rem
  <2> QED
    BY ONLY <1>9, <1>10, Zenon
<1> HIDE DEF rem, F
<1>12. /\ rem[0] = INITIAL_REMAINDER_16
       /\ \A n \in 1 .. N : rem[n] = DivideByte(t, Byte(message, n))[rem[n - 1]]
  BY ONLY <1>11, N \in Nat
<1>13. Follows(rem, rem[0], N, divide)
  BY <1>5, <1>12 DEF Follows
<1>14. \A n \in 0 .. N : rem[n] \in Words16
  BY <1>3, <1>4, <1>12, <1>13, RecursionType
<1>15. rem \in [0 .. N -> Words16]
  <2>1. rem = [n \in 0 .. N |-> rem[n]]
    BY <1>9 DEF F
  <2> QED
    BY <1>14, <2>1
<1> QED
  BY <1>1, <1>12, <1>15 DEF Remainders

LEMMA CrcType ==
  ASSUME NEW t \in Tables, NEW message, NEW N \in Nat
  PROVE  crc_16_ccitt(t, message, N) \in SUBSET Bits(16)
<1>1. PICK r \in [0 .. N -> Words16] : crc_16_ccitt(t, message, N) = r[N]
  BY CrcFollows DEF Remainders
<1>2. r[N] \in Words16
  OBVIOUS
<1> QED
  BY <1>1, <1>2 DEF Words16

-----------------------------------------------------------------------------
(* The CRC of a table that nobody filled.                                  *)

LEMMA ZeroTableByte ==
  ASSUME NEW byte \in SUBSET Bits(8), NEW r \in Words16
  PROVE  DivideByte(ZeroTable, byte)[r] = Low(LeftShift(r, 8), 16)
<1>1. RightShift(r, 8) \in SUBSET Bits(8)
  BY DEF RightShift, Words16, Bits
<1>2. ExclusiveOr(byte, RightShift(r, 8)) \in SUBSET Bits(8)
  BY <1>1, Xor
<1>3. ZeroTable[ExclusiveOr(byte, RightShift(r, 8))] = {}
  BY <1>2 DEF ZeroTable
<1> QED
  BY <1>3 DEF DivideByte, ExclusiveOr, Words16

LEMMA ShiftedOut ==
  ASSUME NEW w \in Words16
  PROVE  Low(LeftShift(Low(LeftShift(w, 8), 16), 8), 16) = {}
<1> DEFINE once == Low(LeftShift(w, 8), 16)
<1>1. w \in SUBSET Int /\ once \in SUBSET Int
  BY DEF Words16, Low, Bits
<1>2. \A k \in Int : k \in once => k - 8 \in w /\ k < 16
  BY <1>1, LeftShiftMember DEF Low, Bits
<1>3. \A k \in w : k >= 0
  BY DEF Words16, Bits
<1> HIDE DEF once
<1>4. ASSUME NEW k \in Low(LeftShift(once, 8), 16) PROVE FALSE
  <2>1. k \in 0 .. 15 /\ k - 8 \in once /\ k - 8 \in Int
    BY <1>1, LeftShiftMember DEF Low, Bits
  <2>2. (k - 8) - 8 \in w
    BY <1>2, <2>1
  <2> QED
    BY <1>3, <2>1, <2>2
<1> QED
  BY <1>4 DEF once

LEMMA ZeroTableType == ZeroTable \in Tables
BY DEF ZeroTable, Tables

\* crc_16_ccitt with crc_table as it is at power-on does not depend on the message: after
\* two bytes nothing is left of the initial remainder.
THEOREM UnfilledTableChecksNothing ==
  ASSUME NEW message, NEW N \in Nat, N >= 2
  PROVE  crc_16_ccitt(ZeroTable, message, N) = {}
<1>0. PICK r \in [0 .. N -> Words16] : Remainders(r, ZeroTable, message, N)
  BY CrcFollows, ZeroTableType
<1>1. /\ r[0] = INITIAL_REMAINDER_16
      /\ \A n \in 1 .. N : r[n] = DivideByte(ZeroTable, Byte(message, n))[r[n - 1]]
      /\ crc_16_ccitt(ZeroTable, message, N) = r[N]
  BY <1>0 DEF Remainders
<1>2. ASSUME NEW n \in 1 .. N PROVE r[n] = Low(LeftShift(r[n - 1], 8), 16)
  <2>1. n - 1 \in 0 .. N /\ n \in Nat \ {0}
    OBVIOUS
  <2>2. Byte(message, n) \in SUBSET Bits(8) /\ r[n - 1] \in Words16
    BY <2>1, ByteType
  <2> QED
    BY <1>1, <2>2, ZeroTableByte
<1> DEFINE Empty == {k \in Nat : k + 2 <= N => r[k + 2] = {}}
<1>3. 0 \in Empty
  <2>1. r[0] \in Words16 /\ 1 \in 1 .. N /\ 2 \in 1 .. N /\ 1 - 1 = 0 /\ 2 - 1 = 1
    OBVIOUS
  <2>2. r[1] = Low(LeftShift(r[0], 8), 16) /\ r[2] = Low(LeftShift(r[1], 8), 16)
    BY <1>2, <2>1
  <2>3. r[2] = {}
    BY ONLY <2>1, <2>2, ShiftedOut
  <2> QED
    BY <2>3
<1>4. ASSUME NEW k \in Empty PROVE k + 1 \in Empty
  <2> SUFFICES ASSUME k + 3 <= N PROVE r[k + 3] = {}
    OBVIOUS
  <2>1. r[k + 3] = Low(LeftShift(r[k + 2], 8), 16)
    BY <1>2
  <2>2. r[k + 2] = {}
    OBVIOUS
  <2> QED
    BY <2>1, <2>2 DEF Low, LeftShift
<1>5. Empty = Nat
  <2>1. Empty \in SUBSET Nat /\ \A k \in Empty : k + 1 \in Empty
    BY <1>4
  <2> HIDE DEF Empty
  <2> QED
    BY <1>3, <2>1, SetInduction
<1>6. N - 2 \in Empty
  <2>1. N - 2 \in Nat
    OBVIOUS
  <2> QED
    BY ONLY <1>5, <2>1
<1>7. r[N - 2 + 2] = {} /\ N - 2 + 2 = N
  BY <1>6
<1> QED
  BY <1>1, <1>7

-----------------------------------------------------------------------------
(* The CRC of the filled table.                                            *)

\* The bits of a byte that are still to be divided when t are, at the top of a remainder.
Ahead(byte, t) == LeftShift(Low(byte, 8 - t), 8 + t)

TopBit(one) == IF one THEN {15} ELSE {}

LEMMA OneBit ==
  ASSUME NEW byte \in SUBSET Bits(8), NEW t \in 0 .. 7, NEW r \in Words16
  PROVE  /\ Ahead(byte, t) \in Words16 /\ Ahead(byte, t + 1) \in Words16
         /\ DivideBit16[ExclusiveOr(r, Ahead(byte, t))]
              = ExclusiveOr(DivideBit16[ExclusiveOr(r, TopBit(7 - t \in byte))],
                            Ahead(byte, t + 1))
<1> DEFINE rest == Ahead(byte, t) \ {15}
           top == TopBit(7 - t \in byte)
<1>1. ASSUME NEW n \in 0 .. 8
      PROVE  /\ Ahead(byte, n) \in SUBSET (0 .. 15)
             /\ \A k \in Int : k \in Ahead(byte, n) <=> k - (8 + n) \in byte /\ k < 16
  <2>1. Low(byte, 8 - n) \in SUBSET Int
    BY DEF Low, Bits
  <2>2. /\ Ahead(byte, n) \in SUBSET Int
        /\ \A k \in Int : k \in Ahead(byte, n) <=> k - (8 + n) \in Low(byte, 8 - n)
    BY <2>1, LeftShiftMember DEF Ahead
  <2>3. \A k \in Int : k - (8 + n) \in Low(byte, 8 - n) <=> k - (8 + n) \in byte /\ k < 16
    BY DEF Low, Bits
  <2>4. \A k \in Int : k - (8 + n) \in byte => k >= 0
    BY DEF Bits
  <2>5. \A k \in Int : k \in Ahead(byte, n) <=> k - (8 + n) \in byte /\ k < 16
    BY <2>2, <2>3
  <2>6. \A k \in Int : k \in Ahead(byte, n) => k \in 0 .. 15
    BY <2>4, <2>5
  <2>7. Ahead(byte, n) \in SUBSET (0 .. 15)
    BY ONLY <2>2, <2>6
  <2> QED
    BY <2>5, <2>7
<1>2. /\ Ahead(byte, t) \in Words16 /\ Ahead(byte, t + 1) \in Words16
      /\ rest \in Words16 /\ top \in Words16
  BY <1>1 DEF Words16, Bits, TopBit
<1>3. DivideBit16[rest] = LeftShift(rest, 1)
  BY <1>2, DivideBitShifts
<1>4. LeftShift(rest, 1) = Ahead(byte, t + 1)
  <2>1. rest \in SUBSET Int
    BY <1>1
  <2>2. /\ LeftShift(rest, 1) \in SUBSET Int
        /\ \A k \in Int : k \in LeftShift(rest, 1) <=> k - 1 \in rest
    BY <2>1, LeftShiftMember
  <2>3. \A k \in Int : k - 1 \in rest <=> (k - 1) - (8 + t) \in byte /\ k - 1 < 15
    BY <1>1
  <2>4. /\ Ahead(byte, t + 1) \in SUBSET Int
        /\ \A k \in Int : k \in Ahead(byte, t + 1) <=> k - (8 + (t + 1)) \in byte /\ k < 16
    BY <1>1
  <2>5. \A k \in Int : (k - 1) - (8 + t) = k - (8 + (t + 1)) /\ (k - 1 < 15 <=> k < 16)
    OBVIOUS
  <2> HIDE DEF rest
  <2> QED
    BY <2>2, <2>3, <2>4, <2>5
<1>5. ExclusiveOr(r, Ahead(byte, t)) = ExclusiveOr(ExclusiveOr(r, top), rest)
  <2>1. 15 \in Ahead(byte, t) <=> 7 - t \in byte
    <3>1. 15 - (8 + t) = 7 - t
      OBVIOUS
    <3> QED
      BY <1>1, <3>1
  <2> QED
    BY <2>1 DEF ExclusiveOr, TopBit
<1>6. ExclusiveOr(r, top) \in Words16
  BY <1>2, Xor DEF Words16
<1> HIDE DEF rest, top
<1>7. DivideBit16[ExclusiveOr(ExclusiveOr(r, top), rest)]
        = ExclusiveOr(DivideBit16[ExclusiveOr(r, top)], DivideBit16[rest])
  BY <1>2, <1>6, DivideBitIsLinear
<1> QED
  BY <1>2, <1>3, <1>4, <1>5, <1>7 DEF top

\* The division bit by bit: the bytes of the message from the low end, each from its top bit.
BitOf(k) == 8 * ((k - 1) \div 8) + (7 - ((k - 1) % 8))

LongDivision(left, message, n) ==
  /\ left[0] = INITIAL_REMAINDER_16
  /\ \A k \in 1 .. n :
       left[k] = DivideBit16[ExclusiveOr(left[k - 1], TopBit(BitOf(k) \in message))]

\* Eight bits of it, after q bytes.
LEMMA OneByte ==
  ASSUME NEW message \in SUBSET Int, NEW q \in Nat, NEW left, left[8 * q] \in Words16,
         \A k \in 8 * q + 1 .. 8 * q + 8 :
           left[k] = DivideBit16[ExclusiveOr(left[k - 1], TopBit(BitOf(k) \in message))]
  PROVE  /\ left[8 * q + 8] = DivideByte(FilledTable, Byte(message, q + 1))[left[8 * q]]
         /\ left[8 * q + 8] \in Words16
<1> DEFINE byte == Byte(message, q + 1)
           s(t) == left[8 * q + t]
           z(t) == ExclusiveOr(s(t), Ahead(byte, t))
<1>1. byte \in SUBSET Bits(8)
  BY ByteType
<1>2. ASSUME NEW t \in 0 .. 7
      PROVE  s(t + 1) = DivideBit16[ExclusiveOr(s(t), TopBit(7 - t \in byte))]
  <2> DEFINE k == 8 * q + t + 1
  <2>1. k \in 8 * q + 1 .. 8 * q + 8 /\ k - 1 = 8 * q + t
    OBVIOUS
  <2>2. BitOf(k) = 7 - t + 8 * q
    <3>1. (8 * q + t) \div 8 = q /\ (8 * q + t) % 8 = t
      OBVIOUS
    <3> QED
      BY <2>1, <3>1 DEF BitOf
  <2>3. 7 - t \in byte <=> 7 - t + 8 * q \in message
    <3>1. 8 * (q + 1 - 1) = 8 * q /\ 8 * q \in Nat /\ 7 - t \in 0 .. 8 - 1 /\ 7 - t \in Int
      OBVIOUS
    <3>2. 7 - t \in ExtractField(message, 8, 8 * q) <=> 7 - t \in 0 .. 8 - 1 /\ 7 - t + 8 * q \in message
      BY <3>1, ExtractFieldMember
    <3> QED
      BY <3>1, <3>2 DEF Byte
  <2>4. left[k] = DivideBit16[ExclusiveOr(left[k - 1], TopBit(BitOf(k) \in message))]
    BY <2>1
  <2>5. (BitOf(k) \in message) = (7 - t \in byte)
    BY <2>2, <2>3
  <2>6. left[k] = DivideBit16[ExclusiveOr(left[8 * q + t], TopBit(7 - t \in byte))]
    BY ONLY <2>1, <2>4, <2>5
  <2>7. 8 * q + (t + 1) = k
    OBVIOUS
  <2> QED
    BY ONLY <2>6, <2>7
<1> HIDE DEF byte
<1>3. ASSUME NEW t \in 0 .. 7, s(t) \in Words16
      PROVE  z(t + 1) = DivideBit16[z(t)] /\ s(t + 1) \in Words16 /\ z(t) \in Words16
  <2>1. /\ Ahead(byte, t) \in Words16
        /\ DivideBit16[z(t)] = ExclusiveOr(DivideBit16[ExclusiveOr(s(t), TopBit(7 - t \in byte))],
                                           Ahead(byte, t + 1))
    BY <1>1, <1>3, OneBit
  <2>2. TopBit(7 - t \in byte) \in Words16
    BY DEF TopBit, Words16, Bits
  <2>3. s(t + 1) \in Words16
    <3> HIDE DEF s, z
    <3>1. ExclusiveOr(s(t), TopBit(7 - t \in byte)) \in Words16
      BY ONLY <1>3, <2>2, Xor16
    <3>2. s(t + 1) = DivideBit16[ExclusiveOr(s(t), TopBit(7 - t \in byte))]
      BY <1>2
    <3> QED
      BY ONLY <3>1, <3>2, DivideBitType
  <2>4. z(t) \in Words16
    <3> HIDE DEF s
    <3> QED
      BY ONLY <1>3, <2>1, Xor16 DEF z
  <2> QED
    BY <1>2, <2>1, <2>3, <2>4
<1>4. s(0) \in Words16
  <2>1. 8 * q + 0 = 8 * q
    OBVIOUS
  <2> QED
    BY <2>1
<1> HIDE DEF s, z
<1>5. s(1) \in Words16 /\ s(2) \in Words16 /\ s(3) \in Words16 /\ s(4) \in Words16
  BY <1>3, <1>4
<1>6. s(5) \in Words16 /\ s(6) \in Words16 /\ s(7) \in Words16 /\ s(8) \in Words16
  BY <1>3, <1>5
<1>7. /\ z(1) = DivideBit16[z(0)] /\ z(2) = DivideBit16[z(1)]
      /\ z(3) = DivideBit16[z(2)] /\ z(4) = DivideBit16[z(3)]
  BY <1>3, <1>4, <1>5
<1>8. /\ z(5) = DivideBit16[z(4)] /\ z(6) = DivideBit16[z(5)]
      /\ z(7) = DivideBit16[z(6)] /\ z(8) = DivideBit16[z(7)]
  BY <1>3, <1>5, <1>6
<1>9. z(8) = Divide8(z(0))
  <2>1. z(4) = Divide4(z(0))
    BY ONLY <1>7 DEF Divide4, Divide2
  <2>2. z(8) = Divide4(z(4))
    BY ONLY <1>8 DEF Divide4, Divide2
  <2> QED
    BY ONLY <2>1, <2>2 DEF Divide8
<1>10. z(8) = s(8)
  <2>1. Low(byte, 8 - 8) = {}
    BY DEF Low, Bits
  <2>2. Ahead(byte, 8) = {}
    BY ONLY <2>1 DEF Ahead, LeftShift
  <2>3. z(8) = ExclusiveOr(s(8), {})
    BY <2>2 DEF z
  <2> QED
    BY ONLY <2>3 DEF ExclusiveOr
<1>11. z(0) = ExclusiveOr(s(0), LeftShift(byte, 8))
  <2>1. 8 - 0 = 8 /\ 8 + 0 = 8
    OBVIOUS
  <2>2. Low(byte, 8) = byte
    BY <1>1 DEF Low
  <2> QED
    BY ONLY <2>1, <2>2 DEF z, Ahead
<1>12. DivideByte(FilledTable, byte)[s(0)] = Divide8(ExclusiveOr(s(0), LeftShift(byte, 8)))
  BY <1>1, <1>4, DivideByteDivides
<1>13. s(0) = left[8 * q] /\ s(8) = left[8 * q + 8]
  <2>1. 8 * q + 0 = 8 * q
    OBVIOUS
  <2> QED
    BY <2>1 DEF s
<1> QED
  BY <1>6, <1>9, <1>10, <1>11, <1>12, <1>13 DEF byte

\* With the table filled, crc_16_ccitt is what is left when the message is divided bit by
\* bit, for messages of every length.
THEOREM CrcIsLongDivision ==
  ASSUME NEW message \in SUBSET Int, NEW N \in Nat, NEW left,
         LongDivision(left, message, 8 * N)
  PROVE  crc_16_ccitt(FilledTable, message, N) = left[8 * N]
<1>1. PICK r \in [0 .. N -> Words16] : Remainders(r, FilledTable, message, N)
  BY FilledTableDivides, CrcFollows
<1> DEFINE Agree == {q \in Nat : q <= N => left[8 * q] = r[q]}
<1>2. 0 \in Agree
  <2>1. 8 * 0 = 0
    OBVIOUS
  <2> QED
    BY <1>1, <2>1 DEF Remainders, LongDivision
<1>3. ASSUME NEW q \in Agree PROVE q + 1 \in Agree
  <2> SUFFICES ASSUME q + 1 <= N PROVE left[8 * (q + 1)] = r[q + 1]
    OBVIOUS
  <2>1. q \in Nat /\ q \in 0 .. N /\ q + 1 \in 1 .. N /\ (q + 1) - 1 = q
    OBVIOUS
  <2>2. left[8 * q] = r[q] /\ r[q] \in Words16
    BY <2>1
  <2>3. ASSUME NEW k \in 8 * q + 1 .. 8 * q + 8
        PROVE  left[k] = DivideBit16[ExclusiveOr(left[k - 1], TopBit(BitOf(k) \in message))]
    <3>1. k \in 1 .. 8 * N
      OBVIOUS
    <3> QED
      BY <3>1 DEF LongDivision
  <2>4. left[8 * q + 8] = DivideByte(FilledTable, Byte(message, q + 1))[left[8 * q]]
    <3> HIDE DEF Agree
    <3> QED
      BY <2>1, <2>2, <2>3, OneByte
  <2>5. r[q + 1] = DivideByte(FilledTable, Byte(message, q + 1))[r[q]]
    BY <1>1, <2>1 DEF Remainders
  <2>6. 8 * (q + 1) = 8 * q + 8
    OBVIOUS
  <2> QED
    BY ONLY <2>2, <2>4, <2>5, <2>6
<1>4. Agree = Nat
  <2>1. Agree \in SUBSET Nat /\ \A q \in Agree : q + 1 \in Agree
    BY <1>3
  <2> HIDE DEF Agree
  <2> QED
    BY <1>2, <2>1, SetInduction
<1>5. left[8 * N] = r[N]
  BY <1>4
<1> QED
  BY <1>1, <1>5 DEF Remainders

\* What two remainders become with one more byte.
LEMMA ByteTellsApart ==
  ASSUME NEW x \in Words16, NEW y \in Words16, NEW b \in SUBSET Bits(8), NEW c \in SUBSET Bits(8)
  PROVE  /\ x = y /\ b # c => DivideByte(FilledTable, b)[x] # DivideByte(FilledTable, c)[y]
         /\ x # y /\ b = c => DivideByte(FilledTable, b)[x] # DivideByte(FilledTable, c)[y]
<1> DEFINE u == LeftShift(b, 8)
           v == LeftShift(c, 8)
<1>1. /\ u \in Words16 /\ DivideByte(FilledTable, b)[x] = Divide8(ExclusiveOr(x, u))
      /\ v \in Words16 /\ DivideByte(FilledTable, c)[y] = Divide8(ExclusiveOr(y, v))
  BY DivideByteDivides
<1>2. u = v => b = c
  <2>1. \A k \in Int : k \in b <=> k + 8 \in u
    <3>1. \A k \in Int : k + 8 \in Int /\ (k + 8) - 8 = k
      OBVIOUS
    <3> QED
      BY <3>1, LeftShiftMember DEF Bits
  <2>2. \A k \in Int : k \in c <=> k + 8 \in v
    <3>1. \A k \in Int : k + 8 \in Int /\ (k + 8) - 8 = k
      OBVIOUS
    <3> QED
      BY <3>1, LeftShiftMember DEF Bits
  <2>3. b \in SUBSET Int /\ c \in SUBSET Int
    BY DEF Bits
  <2> HIDE DEF u, v
  <2> QED
    BY ONLY <2>1, <2>2, <2>3
<1>3. b = c => u = v
  OBVIOUS
<1> HIDE DEF u, v
<1>4. ExclusiveOr(x, u) \in Words16 /\ ExclusiveOr(y, v) \in Words16
  BY <1>1, Xor16
<1>5. ASSUME DivideByte(FilledTable, b)[x] = DivideByte(FilledTable, c)[y]
      PROVE  ExclusiveOr(x, u) = ExclusiveOr(y, v)
  BY ONLY <1>1, <1>4, <1>5, Divide8LosesNothing
<1>6. x = y /\ ExclusiveOr(x, u) = ExclusiveOr(y, v) => u = v
  BY DEF ExclusiveOr
<1>7. u = v /\ ExclusiveOr(x, u) = ExclusiveOr(y, v) => x = y
  BY DEF ExclusiveOr
<1> QED
  BY <1>2, <1>3, <1>5, <1>6, <1>7

\* With the table filled, two messages of the same length that differ in one byte, however
\* many of its bits, have different CRCs.
THEOREM CrcTellsBytesApart ==
  ASSUME NEW m1, NEW m2, NEW N \in Nat, NEW j \in 1 .. N,
         Byte(m1, j) # Byte(m2, j),
         \A n \in 1 .. N \ {j} : Byte(m1, n) = Byte(m2, n)
  PROVE  crc_16_ccitt(FilledTable, m1, N) # crc_16_ccitt(FilledTable, m2, N)
<1>1. PICK r1 \in [0 .. N -> Words16] : Remainders(r1, FilledTable, m1, N)
  BY FilledTableDivides, CrcFollows
<1>2. PICK r2 \in [0 .. N -> Words16] : Remainders(r2, FilledTable, m2, N)
  BY FilledTableDivides, CrcFollows
<1> DEFINE Told == {n \in Nat : n <= N => (r1[n] = r2[n] <=> n < j)}
<1>3. 0 \in Told
  BY <1>1, <1>2 DEF Remainders
<1>4. ASSUME NEW n \in Told PROVE n + 1 \in Told
  <2> SUFFICES ASSUME n + 1 <= N PROVE r1[n + 1] = r2[n + 1] <=> n + 1 < j
    OBVIOUS
  <2>1. n \in Nat /\ n \in 0 .. N /\ n + 1 \in 1 .. N /\ (n + 1) - 1 = n /\ n + 1 \in Nat \ {0}
    OBVIOUS
  <2>2. r1[n] = r2[n] <=> n < j
    BY <2>1
  <2>3. r1[n] \in Words16 /\ r2[n] \in Words16
    BY <2>1
  <2>4. /\ r1[n + 1] = DivideByte(FilledTable, Byte(m1, n + 1))[r1[n]]
        /\ r2[n + 1] = DivideByte(FilledTable, Byte(m2, n + 1))[r2[n]]
    BY <1>1, <1>2, <2>1 DEF Remainders
  <2>5. Byte(m1, n + 1) \in SUBSET Bits(8) /\ Byte(m2, n + 1) \in SUBSET Bits(8)
    BY <2>1, ByteType
  <2> HIDE DEF Told
  <2>6. CASE n + 1 < j
    BY <2>1, <2>2, <2>4, <2>6
  <2>7. CASE n + 1 = j
    <3>1. r1[n] = r2[n] /\ Byte(m1, n + 1) # Byte(m2, n + 1)
      BY <2>1, <2>2, <2>7
    <3>2. r1[n + 1] # r2[n + 1]
      BY ONLY <2>3, <2>4, <2>5, <3>1, ByteTellsApart
    <3> QED
      BY <2>1, <2>7, <3>2
  <2>8. CASE n + 1 > j
    <3>1. r1[n] # r2[n] /\ Byte(m1, n + 1) = Byte(m2, n + 1)
      BY <2>1, <2>2, <2>8
    <3>2. r1[n + 1] # r2[n + 1]
      BY ONLY <2>3, <2>4, <2>5, <3>1, ByteTellsApart
    <3> QED
      BY <2>1, <2>8, <3>2
  <2> QED
    BY <2>1, <2>6, <2>7, <2>8
<1>5. Told = Nat
  <2>1. Told \in SUBSET Nat /\ \A n \in Told : n + 1 \in Told
    BY <1>4
  <2> HIDE DEF Told
  <2> QED
    BY <1>3, <2>1, SetInduction
<1>6. r1[N] # r2[N]
  BY <1>5
<1> QED
  BY <1>1, <1>2, <1>6 DEF Remainders

-----------------------------------------------------------------------------
(* crc5.                                                                   *)

LEMMA DivideBit5Type == DivideBit5 \in [SUBSET Bits(8) -> SUBSET Bits(8)]
<1>1. DivideBit5 = [r \in SUBSET Bits(8) |->
                      Low(LeftShift(IF 7 \in r THEN ExclusiveOr(r, POLYNOMIAL_5) ELSE r, 1), 8)]
  BY DEF DivideBit5
<1>2. \A x : Low(x, 8) \in SUBSET Bits(8)
  BY DEF Low
<1> QED
  BY <1>1, <1>2

\* Its result has five bits.
LEMMA Crc5Type ==
  ASSUME NEW message
  PROVE  crc5(message) \in SUBSET Bits(5)
<1> DEFINE divide == [n \in 1 .. 8 |-> DivideBit5]
           F(g) == [n \in 0 .. 8 |-> IF n = 0 THEN INITIAL_REMAINDER_5 ELSE DivideBit5[g[n - 1]]]
           rem == CHOOSE g : g = F(g)
<1>1. crc5(message) = RightShift(rem[8], 3)
  BY DEF crc5, Remainder5
<1>2. divide \in [1 .. 8 -> [SUBSET Bits(8) -> SUBSET Bits(8)]]
  BY DivideBit5Type
<1>3. \A n \in 1 .. 8 : divide[n] = DivideBit5
  OBVIOUS
<1>4. INITIAL_REMAINDER_5 \in SUBSET Bits(8)
  BY DEF INITIAL_REMAINDER_5, Bits
<1> HIDE DEF divide
<1>5. \E h \in [0 .. 8 -> SUBSET Bits(8)] : Follows(h, INITIAL_REMAINDER_5, 8, divide)
  BY ONLY <1>2, <1>4, RecursionExists
<1>6. PICK h \in [0 .. 8 -> SUBSET Bits(8)] :
        h[0] = INITIAL_REMAINDER_5 /\ \A n \in 1 .. 8 : h[n] = DivideBit5[h[n - 1]]
  BY <1>3, <1>5 DEF Follows
<1>7. h = F(h)
  <2>1. ASSUME NEW n \in 0 .. 8
        PROVE  h[n] = IF n = 0 THEN INITIAL_REMAINDER_5 ELSE DivideBit5[h[n - 1]]
    BY <1>6
  <2> QED
    BY <2>1
<1>8. rem = F(rem)
  <2> HIDE DEF F
  <2> QED
    BY ONLY <1>7, Zenon
<1>9. \A n \in 0 .. 8 : F(rem)[n] = IF n = 0 THEN INITIAL_REMAINDER_5 ELSE DivideBit5[rem[n - 1]]
  <2> HIDE DEF rem
  <2> QED
    BY ONLY TRUE
<1>10. \A n \in 0 .. 8 : rem[n] = IF n = 0 THEN INITIAL_REMAINDER_5 ELSE DivideBit5[rem[n - 1]]
  <2> HIDE DEF F, rem
  <2> QED
    BY ONLY <1>8, <1>9, Zenon
<1> HIDE DEF rem, F
<1>11. rem[0] = INITIAL_REMAINDER_5 /\ \A n \in 1 .. 8 : rem[n] = DivideBit5[rem[n - 1]]
  BY ONLY <1>10
<1>12. rem[0] \in SUBSET Bits(8) /\ Follows(rem, rem[0], 8, divide)
  BY <1>3, <1>4, <1>11 DEF Follows
<1>13. \A n \in 0 .. 8 : rem[n] \in SUBSET Bits(8)
  BY ONLY <1>2, <1>12, 8 \in Nat, RecursionType
<1>14. rem[8] \in SUBSET Bits(8)
  BY <1>13
<1> QED
  BY <1>1, <1>14 DEF RightShift, Bits
=============================================================================
