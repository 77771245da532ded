--------------------------- MODULE Transfer_proofs ---------------------------
(***************************************************************************)
(* Facts about commands, for every content: the packages they are cut      *)
(* into, and what the validators make of them.                             *)
(***************************************************************************)
EXTENDS Transfer, Crc_proofs, SequenceTheorems

Packages26 == [data : SUBSET Bits(data_package_size), mask : 0 .. data_package_size]

\* A sequence of packages that ends a command: only the last package before the end may
\* be partly used.
Packed(f) ==
  /\ f # <<>> /\ f[Len(f)].data = {}
  /\ \A p \in 1 .. Len(f) - 2 : f[p].mask = data_package_size

\* Only full packages, as before a refused symbol.
AllFull(f) == \A p \in 1 .. Len(f) : f[p].mask = data_package_size

LEMMA CutIsPacked ==
  ASSUME NEW bits, NEW n \in Nat
  PROVE  /\ Cut(bits, n) \in Seq(Packages26)
         /\ Packed(Cut(bits, n)) /\ Len(Cut(bits, n)) >= 2
         /\ Len(Cut(bits, n)) = n \div data_package_size + 2
         /\ \A p \in 1 .. n \div data_package_size + 1 :
              Cut(bits, n)[p].data
                = ExtractField(Low(bits, n), data_package_size, (p - 1) * data_package_size)
         /\ Cut(bits, n)[n \div data_package_size + 1].mask = n % data_package_size
<1> DEFINE count == n \div data_package_size + 1
           full == [p \in 1 .. count |->
                      package(ExtractField(Low(bits, n), data_package_size,
                                           (p - 1) * data_package_size),
                              IF p = count THEN n % data_package_size ELSE data_package_size)]
<1>1. count \in Nat /\ count >= 1 /\ n % data_package_size \in 0 .. data_package_size
  BY DEF data_package_size
<1> HIDE DEF count
<1>2. \A p \in 1 .. count : full[p] \in Packages26
  BY <1>1 DEF Packages26, package, ExtractField, Low, data_package_size
<1>3. full \in Seq(Packages26) /\ Len(full) = count
  BY <1>1, <1>2
<1>4. \A p \in 1 .. count - 1 : full[p].mask = data_package_size
  BY <1>1 DEF package
<1>last. full[count].mask = n % data_package_size
  BY <1>1 DEF package
<1>data. \A p \in 1 .. count :
        full[p].data = ExtractField(Low(bits, n), data_package_size, (p - 1) * data_package_size)
  BY DEF package
<1>5. eop \in Packages26 /\ eop.data = {}
  BY DEF eop, package, Packages26, data_package_size
<1>6. Cut(bits, n) = Append(full, eop)
  BY DEF Cut, count
<1> HIDE DEF full
<1>7. /\ Cut(bits, n) \in Seq(Packages26) /\ Len(Cut(bits, n)) = count + 1
      /\ Cut(bits, n)[count + 1] = eop
      /\ \A p \in 1 .. count : Cut(bits, n)[p] = full[p]
  BY <1>1, <1>3, <1>5, <1>6
<1>8. Packed(Cut(bits, n))
  BY <1>1, <1>4, <1>5, <1>7 DEF Packed
<1>9. \A p \in 1 .. count :
        Cut(bits, n)[p].data
          = ExtractField(Low(bits, n), data_package_size, (p - 1) * data_package_size)
  BY <1>7, <1>data
<1>10. n \div data_package_size + 1 = count
  BY DEF count
<1>11. n \div data_package_size + 2 = count + 1
  BY <1>1 DEF count, data_package_size
<1>12. Cut(bits, n)[count].mask = n % data_package_size
  BY <1>1, <1>7, <1>last
<1> QED
  BY <1>1, <1>7, <1>8, <1>9, <1>10, <1>11, <1>12

LEMMA HeardIsPacked ==
  ASSUME NEW cmd, cmd.size \in Nat, NEW received \in Heard(cmd)
  PROVE  received \in Seq(Packages26) /\ Packed(received) /\ Len(received) >= 2
<1>1. cmd.size + 1 \in Nat
  OBVIOUS
<1> QED
  BY <1>1, CutIsPacked DEF Heard

LEMMA PrefixIsFull ==
  ASSUME NEW f \in Seq(Packages26), Packed(f), NEW n \in 0 .. Len(f) - 2
  PROVE  SubSeq(f, 1, n) \in Seq(Packages26) /\ AllFull(SubSeq(f, 1, n))
<1>1. Len(f) \in Nat /\ n \in Nat
  OBVIOUS
<1>2. \A p \in 1 .. n : SubSeq(f, 1, n)[p] = f[p]
  BY <1>1
<1>3. Len(SubSeq(f, 1, n)) = n
  BY <1>1
<1> QED
  BY <1>1, <1>2, <1>3 DEF AllFull, Packed

LEMMA TailIsPacked ==
  ASSUME NEW f \in Seq(Packages26), f # <<>>
  PROVE  /\ Tail(f) \in Seq(Packages26) /\ Len(Tail(f)) = Len(f) - 1
         /\ Len(f) >= 2 /\ Packed(f) => Packed(Tail(f))
         /\ AllFull(f) => AllFull(Tail(f))
<1>1. /\ Tail(f) \in Seq(Packages26) /\ Len(Tail(f)) = Len(f) - 1 /\ Len(f) \in Nat
      /\ \A p \in 1 .. Len(Tail(f)) : Tail(f)[p] = f[p + 1]
  OBVIOUS
<1>2. ASSUME Len(f) >= 2, Packed(f) PROVE Packed(Tail(f))
  <2>1. Len(f) - 1 \in 1 .. Len(Tail(f)) /\ Tail(f) # <<>>
    BY <1>1, <1>2
  <2>2. Tail(f)[Len(Tail(f))].data = {}
    BY <1>1, <1>2, <2>1 DEF Packed
  <2>3. \A p \in 1 .. Len(Tail(f)) - 2 : Tail(f)[p].mask = data_package_size
    BY <1>1, <1>2 DEF Packed
  <2> QED
    BY <2>1, <2>2, <2>3 DEF Packed
<1>3. AllFull(f) => AllFull(Tail(f))
  BY <1>1 DEF AllFull
<1> QED
  BY <1>1, <1>2, <1>3

\* No command is as long as a number of full packages: what stops at a package of zeros
\* has no label.
LEMMA FullPackagesHaveNoLabel ==
  ASSUME NEW t, NEW p, NEW n \in Nat
  PROVE  rfid_check_command(t, p, data_package_size * n) = NoLabel
<1> DEFINE s == data_package_size * n
<1>1. s \in Nat /\ \A size \in {18, 8, 22, 40, 32, 59, 9, 4, 57, 58, 16} : ~HasSize(s, size)
  BY DEF HasSize, data_package_size
<1> HIDE DEF s
<1>2. /\ ~ack_validate(p, s) /\ ~nak_validate(p, s) /\ ~query_validate(p, s)
      /\ ~query_adjust_validate(p, s) /\ ~query_rep_validate(p, s) /\ ~rn16_validate(s)
  BY <1>1 DEF ack_validate, nak_validate, query_validate, query_adjust_validate,
       query_rep_validate, rn16_validate, ACK_SIZE, NAK_SIZE, QUERY_SIZE, QUERY_ADJUST_SIZE,
       QUERY_REP_SIZE, RN16_SIZE
<1>3. /\ ~req_rn_validate(t, p, s) /\ ~rn_crc_validate(t, p, s) /\ ~kill_validate(p, s)
      /\ ~lock_validate(p, s) /\ ~read_validate(p, s) /\ ~select_validate(p, s)
      /\ ~write_validate(p, s)
  BY <1>1 DEF req_rn_validate, rn_crc_validate, kill_validate, lock_validate, read_validate,
       select_validate, write_validate, REQ_RN_SIZE, RN_CRC_SIZE, KILL_SIZE, READ_SIZE, WRITE_SIZE
<1> QED
  BY <1>2, <1>3 DEF rfid_check_command, s

-----------------------------------------------------------------------------
(* Numbers that are sent with a CRC: the PC and the handle.                *)

\* For every number, every table and both ways of hearing its last symbol: the number and
\* its CRC are put together from the two packages as they were taken apart.
THEOREM NumberComesBack ==
  ASSUME NEW t \in Tables, NEW rn \in SUBSET Bits(16),
         NEW received \in Heard(rn_crc_build(t, rn))
  PROVE  /\ Len(received) = 3
         /\ Field(received[2].data, 6, 10) \cup ExtractField(received[1].data, 10, 16) = rn
         /\ Low(received[1].data, 16) = crc_16_ccitt(t, rn, 3)
<1> DEFINE crc == crc_16_ccitt(t, rn, 3)
           bits == rn_crc_build(t, rn).result_data
<1>1. PICK n \in {32, 33}, heard \in {bits, Low(bits, 32) \cup {32}} : received = Cut(heard, n)
  BY DEF Heard, rn_crc_build, command, RN_CRC_SIZE
<1>2. bits = Widened(Field(rn, 16, 16) \cup Low(crc, 16))
  BY DEF rn_crc_build, command
<1>crc. crc \in SUBSET Bits(16)
  BY CrcType
<1> HIDE DEF bits, crc
<1>3. /\ rn \in SUBSET (0 .. 15) /\ crc \in SUBSET (0 .. 15) /\ Low(crc, 16) = crc
  <2>1. rn \in SUBSET (0 .. 15) /\ crc \in SUBSET (0 .. 15)
    BY <1>crc DEF Bits
  <2>2. Low(crc, 16) = crc
    BY <1>crc DEF Low
  <2> QED
    BY ONLY <2>1, <2>2
<1>4. ASSUME NEW k \in 0 .. 31
      PROVE  k \in heard <=> IF k < 16 THEN k \in crc ELSE k - 16 \in rn
  <2>1. k \in Field(rn, 16, 16) <=> k >= 16 /\ k - 16 \in rn
    BY <1>3, FieldMember
  <2>2. k \in bits <=> k \in Field(rn, 16, 16) \/ k \in crc
    BY <1>2, <1>3 DEF Widened
  <2>3. k \in heard <=> k \in bits
    BY DEF Low, Bits
  <2> QED
    BY <1>3, <2>1, <2>2, <2>3
<1>5. /\ Len(received) = 3
      /\ received[1].data = ExtractField(Low(heard, n), 26, 0)
      /\ received[2].data = ExtractField(Low(heard, n), 26, 26)
  <2>1. n \in Nat /\ n \div 26 = 1
    BY <1>1
  <2>2. /\ Len(Cut(heard, n)) = n \div 26 + 2
        /\ \A p \in 1 .. n \div 26 + 1 :
             Cut(heard, n)[p].data = ExtractField(Low(heard, n), 26, (p - 1) * 26)
    BY <2>1, CutIsPacked DEF data_package_size
  <2>3. Len(received) = 3
    BY <1>1, <2>1, <2>2
  <2>4. received[1].data = ExtractField(Low(heard, n), 26, (1 - 1) * 26)
    BY <1>1, <2>1, <2>2
  <2>5. received[2].data = ExtractField(Low(heard, n), 26, (2 - 1) * 26)
    BY <1>1, <2>1, <2>2
  <2>6. (1 - 1) * 26 = 0 /\ (2 - 1) * 26 = 26
    OBVIOUS
  <2> QED
    BY <2>3, <2>4, <2>5, <2>6
<1>6. ASSUME NEW k \in 0 .. 25
      PROVE  /\ k \in received[1].data <=> k \in heard
             /\ k < 6 => (k \in received[2].data <=> k + 26 \in heard)
  <2>1. /\ Low(heard, n) \in SUBSET Int
        /\ \A j \in 0 .. 31 : j \in Low(heard, n) <=> j \in heard
    BY <1>1 DEF Low, Bits
  <2>2. k \in received[1].data <=> k \in 0 .. 25 /\ k + 0 \in Low(heard, n)
    BY <1>5, <2>1, ExtractFieldMember
  <2>3. k \in received[2].data <=> k \in 0 .. 25 /\ k + 26 \in Low(heard, n)
    BY <1>5, <2>1, ExtractFieldMember
  <2> QED
    BY <2>1, <2>2, <2>3
<1>type. received[1].data \in SUBSET Int
  BY <1>5, ExtractFieldType DEF Bits
<1>7. Low(received[1].data, 16) = crc
  BY <1>3, <1>4, <1>6 DEF Low, Bits
<1>8. ASSUME NEW k \in Int
      PROVE  k \in Field(received[2].data, 6, 10) \cup ExtractField(received[1].data, 10, 16)
               <=> k \in rn
  <2>1. k \in Field(received[2].data, 6, 10) <=> k \in 10 .. 15 /\ k - 10 \in received[2].data
    BY FieldMember
  <2>2. k \in ExtractField(received[1].data, 10, 16) <=> k \in 0 .. 9 /\ k + 16 \in received[1].data
    BY <1>type, ExtractFieldMember
  <2>3. CASE k \in 10 .. 15
    <3>1. k - 10 \in received[2].data <=> k + 16 \in heard
      BY <1>6, <2>3
    <3> QED
      BY <1>4, <2>1, <2>2, <2>3, <3>1
  <2>4. CASE k \in 0 .. 9
    <3>1. k + 16 \in received[1].data <=> k + 16 \in heard
      BY <1>6, <2>4
    <3> QED
      BY <1>4, <2>1, <2>2, <2>4, <3>1
  <2>5. CASE k \notin 0 .. 15
    BY <1>3, <2>1, <2>2, <2>5
  <2> QED
    BY <2>3, <2>4, <2>5
<1>9. Field(received[2].data, 6, 10) \cup ExtractField(received[1].data, 10, 16) = rn
  <2>1. /\ Field(received[2].data, 6, 10) \in SUBSET Int
        /\ ExtractField(received[1].data, 10, 16) \in SUBSET Int
    <3>1. Low(received[2].data, 6) \in SUBSET Int
      BY DEF Low, Bits
    <3> QED
      BY <3>1, ExtractFieldType DEF Field, LeftShift, Bits
  <2> DEFINE number == Field(received[2].data, 6, 10) \cup ExtractField(received[1].data, 10, 16)
  <2>2. number \in SUBSET Int /\ rn \in SUBSET Int
    BY <1>3, <2>1
  <2>3. \A k \in Int : k \in number <=> k \in rn
    BY <1>8
  <2> HIDE DEF number
  <2>4. number = rn
    BY <2>2, <2>3
  <2> QED
    BY <2>4 DEF number
<1> QED
  BY <1>5, <1>7, <1>9 DEF crc

-----------------------------------------------------------------------------
(* What a call of receiver_get_package leaves in the array.                *)

\* w are the n bits that have arrived of a command: those that were sent, or one more.
Arrived(w, n, cmd) ==
  /\ n \in {cmd.size, cmd.size + 1} /\ w \in SUBSET Bits(n)
  /\ \A k \in Bits(cmd.size) : k \in w <=> k \in cmd.result_data

\* The array holds them.
Shown(packages, w, n) == \A p \in 0 .. n \div 26 : packages[p] = ExtractField(w, 26, 26 * p)

LEMMA CallShows ==
  ASSUME NEW cmd, cmd.size \in Nat, NEW received \in Heard(cmd), NEW packages,
         \A p \in 1 .. Len(received) - 1 : packages[p - 1] = received[p].data
  PROVE  \E n \in Nat, w \in SUBSET Int :
           /\ Arrived(w, n, cmd) /\ Shown(packages, w, n)
           /\ 26 * (Len(received) - 2) + received[Len(received) - 1].mask = n
<1>1. PICK n \in {cmd.size, cmd.size + 1}, bits \in {cmd.result_data, Low(cmd.result_data, cmd.size) \cup {cmd.size}} :
        received = Cut(bits, n) /\ (n = cmd.size => bits = cmd.result_data)
  BY DEF Heard
<1>2. n \in Nat /\ n \div 26 \in Nat /\ 26 * (n \div 26) + (n % 26) = n
  OBVIOUS
<1>3. /\ Len(received) = n \div 26 + 2
      /\ \A p \in 1 .. n \div 26 + 1 : received[p].data = ExtractField(Low(bits, n), 26, (p - 1) * 26)
      /\ received[n \div 26 + 1].mask = n % 26
  <2>1. /\ Len(Cut(bits, n)) = n \div 26 + 2
        /\ \A p \in 1 .. n \div 26 + 1 :
             Cut(bits, n)[p].data = ExtractField(Low(bits, n), 26, (p - 1) * 26)
        /\ Cut(bits, n)[n \div 26 + 1].mask = n % 26
    BY ONLY <1>2, CutIsPacked DEF data_package_size
  <2> QED
    BY ONLY <1>1, <2>1
<1> DEFINE w == Low(bits, n)
<1>4. w \in SUBSET Int /\ w \in SUBSET Bits(n)
  BY <1>2 DEF Low, Bits
<1>5. ASSUME NEW k \in Bits(cmd.size) PROVE k \in w <=> k \in cmd.result_data
  BY DEF Low, Bits
<1>6. Arrived(w, n, cmd)
  BY <1>4, <1>5 DEF Arrived
<1>7. Shown(packages, w, n)
  <2> SUFFICES ASSUME NEW p \in 0 .. n \div 26
               PROVE  packages[p] = ExtractField(w, 26, 26 * p)
    BY DEF Shown
  <2>1. p + 1 \in 1 .. Len(received) - 1 /\ p + 1 \in 1 .. n \div 26 + 1
    <3> DEFINE last == n \div 26
    <3>1. last \in Nat /\ Len(received) = last + 2 /\ p \in 0 .. last
      BY <1>2, <1>3
    <3> HIDE DEF last
    <3>2. p + 1 \in 1 .. Len(received) - 1 /\ p + 1 \in 1 .. last + 1
      BY ONLY <3>1
    <3> QED
      BY ONLY <3>2 DEF last
  <2>2. (p + 1) - 1 = p /\ ((p + 1) - 1) * 26 = 26 * p
    BY <1>2
  <2>3. packages[p] = received[p + 1].data
    BY <2>1, <2>2
  <2> QED
    BY <1>3, <2>1, <2>2, <2>3
<1>8. 26 * (Len(received) - 2) + received[Len(received) - 1].mask = n
  <2>1. Len(received) - 2 = n \div 26 /\ Len(received) - 1 = n \div 26 + 1
    BY <1>2, <1>3
  <2> QED
    BY <1>2, <1>3, <2>1
<1> QED
  BY <1>2, <1>4, <1>6, <1>7, <1>8

LEMMA ShownMember ==
  ASSUME NEW w \in SUBSET Int, NEW n \in Nat, NEW packages, Shown(packages, w, n),
         NEW p \in 0 .. n \div 26
  PROVE  /\ packages[p] \in SUBSET (0 .. 25)
         /\ \A k \in Int : k \in packages[p] <=> k \in 0 .. 25 /\ k + 26 * p \in w
<1>1. n \div 26 \in Nat
  OBVIOUS
<1>2. 26 * p \in Nat /\ packages[p] = ExtractField(w, 26, 26 * p)
  BY <1>1 DEF Shown
<1>3. \A k \in Int : k \in ExtractField(w, 26, 26 * p) <=> k \in 0 .. 26 - 1 /\ k + 26 * p \in w
  BY <1>2, ExtractFieldMember
<1>4. ExtractField(w, 26, 26 * p) \in SUBSET (0 .. 25)
  BY <1>2, ExtractFieldType DEF Bits
<1> QED
  BY <1>2, <1>3, <1>4

-----------------------------------------------------------------------------
(* rfid_check_command.                                                     *)

\* What a label says of the size and of what was looked at.
LEMMA LabelMeans ==
  ASSUME NEW t, NEW p, NEW s, NEW l, l = rfid_check_command(t, p, s)
  PROVE  /\ l \in (Labels \ {"lock", "select"}) \cup {NoLabel}
         /\ l = "ack" => s \in {18, 19}
         /\ l = "nak" => nak_validate(p, s)
         /\ l = "query" => s \in {22, 23}
         /\ l = "req_rn" => s \in {40, 41}
         /\ l = "rn_crc" => rn_crc_validate(t, p, s)
         /\ l = "kill" => kill_validate(p, s)
         /\ l = "query_adjust" => query_adjust_validate(p, s)
         /\ l = "query_rep" => s \in {4, 5}
         /\ l = "read" => read_validate(p, s)
         /\ l = "write" => write_validate(p, s)
         /\ l = "rn16" => s \in {16, 17}
<1>1. /\ ack_validate(p, s) => s \in {18, 19}
      /\ query_validate(p, s) => s \in {22, 23}
      /\ req_rn_validate(t, p, s) => s \in {40, 41}
      /\ query_rep_validate(p, s) => s \in {4, 5}
      /\ rn16_validate(s) => s \in {16, 17}
      /\ ~lock_validate(p, s) /\ ~select_validate(p, s)
  BY DEF ack_validate, query_validate, req_rn_validate, query_rep_validate, rn16_validate,
       lock_validate, select_validate, HasSize, ACK_SIZE, QUERY_SIZE, REQ_RN_SIZE,
       QUERY_REP_SIZE, RN16_SIZE
<1> QED
  BY <1>1 DEF rfid_check_command, Labels, NoLabel

\* A validator that agrees is enough for some label.
LEMMA SomeLabel ==
  ASSUME NEW t, NEW p, NEW s,
         \/ ack_validate(p, s) \/ nak_validate(p, s) \/ query_validate(p, s)
         \/ req_rn_validate(t, p, s) \/ rn_crc_validate(t, p, s)
         \/ query_adjust_validate(p, s) \/ query_rep_validate(p, s) \/ rn16_validate(s)
  PROVE  rfid_check_command(t, p, s) # NoLabel
BY DEF rfid_check_command, NoLabel

-----------------------------------------------------------------------------
(* What the validators of the functional commands find.                    *)

LEMMA ThreePackages ==
  ASSUME NEW w \in SUBSET Int, NEW n \in Nat, NEW packages, Shown(packages, w, n)
  PROVE  /\ packages[0] \in SUBSET (0 .. 25) /\ \A k \in 0 .. 25 : k \in packages[0] <=> k \in w
         /\ n >= 26 => /\ packages[1] \in SUBSET (0 .. 25)
                       /\ \A k \in 0 .. 25 : k \in packages[1] <=> k + 26 \in w
         /\ n >= 52 => /\ packages[2] \in SUBSET (0 .. 25)
                       /\ \A k \in 0 .. 25 : k \in packages[2] <=> k + 52 \in w
<1>1. /\ packages[0] \in SUBSET (0 .. 25)
      /\ \A k \in Int : k \in packages[0] <=> k \in 0 .. 25 /\ k + 26 * 0 \in w
  <2>1. 0 \in 0 .. n \div 26
    OBVIOUS
  <2> QED
    BY <2>1, ShownMember
<1>2. ASSUME n >= 26
      PROVE  /\ packages[1] \in SUBSET (0 .. 25)
             /\ \A k \in Int : k \in packages[1] <=> k \in 0 .. 25 /\ k + 26 * 1 \in w
  <2>1. 1 \in 0 .. n \div 26
    BY <1>2
  <2> QED
    BY <2>1, ShownMember
<1>3. ASSUME n >= 52
      PROVE  /\ packages[2] \in SUBSET (0 .. 25)
             /\ \A k \in Int : k \in packages[2] <=> k \in 0 .. 25 /\ k + 26 * 2 \in w
  <2>1. 2 \in 0 .. n \div 26
    BY <1>3
  <2> QED
    BY <2>1, ShownMember
<1>4. \A k \in 0 .. 25 : k \in Int /\ k + 26 * 0 = k /\ k + 26 * 1 = k + 26 /\ k + 26 * 2 = k + 52
  OBVIOUS
<1> QED
  BY <1>1, <1>2, <1>3, <1>4

LEMMA ExtractBits ==
  ASSUME NEW w \in SUBSET Int, NEW width \in Nat, NEW place \in Nat
  PROVE  /\ ExtractField(w, width, place) \in SUBSET (0 .. width - 1)
         /\ \A k \in 0 .. width - 1 : k \in ExtractField(w, width, place) <=> k + place \in w
<1>1. ExtractField(w, width, place) \in SUBSET (0 .. width - 1)
  BY ExtractFieldType DEF Bits
<1>2. \A k \in 0 .. width - 1 : k \in ExtractField(w, width, place) <=> k + place \in w
  BY ExtractFieldMember
<1> QED
  BY <1>1, <1>2

LEMMA LowBits ==
  ASSUME NEW w, NEW width \in Nat
  PROVE  /\ Low(w, width) \in SUBSET (0 .. width - 1)
         /\ \A k \in 0 .. width - 1 : k \in Low(w, width) <=> k \in w
BY DEF Low, Bits

LEMMA ShiftedBits ==
  ASSUME NEW width \in Nat, NEW w \in SUBSET Bits(width), NEW n \in Nat
  PROVE  LeftShift(w, n) \in SUBSET (n .. n + width - 1)
BY DEF LeftShift, Bits

LEMMA AckShows ==
  ASSUME NEW rn, NEW w, NEW n, NEW packages, Arrived(w, n, ack_build(rn)), Shown(packages, w, n)
  PROVE  n \in {18, 19} /\ ack_validate(packages, n)
<1>1. /\ n \in {18, 19} /\ w \in SUBSET Int
      /\ \A k \in 0 .. 17 : k \in w <=> k \in Field({0}, 2, 16) \/ k \in Low(rn, 16)
  BY DEF Arrived, ack_build, command, ACK_SIZE, ACK_COMMAND, Bits
<1>2. 16 \in w /\ 17 \notin w
  <2>1. 16 \in Field({0}, 2, 16) /\ 17 \notin Field({0}, 2, 16)
    BY FieldMember
  <2>2. 17 \notin Low(rn, 16)
    BY DEF Low, Bits
  <2> QED
    BY <1>1, <2>1, <2>2
<1>first. packages[0] \in SUBSET (0 .. 25) /\ \A k \in 0 .. 25 : k \in packages[0] <=> k \in w
  <2>1. n \in Nat
    BY <1>1
  <2> QED
    BY <1>1, <2>1, ThreePackages
<1>3. packages[0] \in SUBSET Int /\ 16 \in packages[0] /\ 17 \notin packages[0]
  BY <1>2, <1>first
<1>4. ExtractField(packages[0], 2, 16) = {0}
  <2>0. packages[0] \in SUBSET Int
    BY <1>3
  <2>1. /\ ExtractField(packages[0], 2, 16) \in SUBSET (0 .. 2 - 1)
        /\ \A k \in 0 .. 2 - 1 : k \in ExtractField(packages[0], 2, 16) <=> k + 16 \in packages[0]
    BY ONLY <2>0, 2 \in Nat, 16 \in Nat, ExtractBits
  <2> QED
    BY <1>3, <2>1
<1> QED
  BY <1>1, <1>4 DEF ack_validate, HasSize, ACK_SIZE, ACK_COMMAND

LEMMA NakShows ==
  ASSUME NEW w, NEW n, NEW packages, Arrived(w, n, nak_build), Shown(packages, w, n)
  PROVE  n \in {8, 9} /\ nak_validate(packages, n)
<1>1. /\ n \in {8, 9} /\ w \in SUBSET Int
      /\ \A k \in 0 .. 7 : k \in w <=> k \in {7, 6}
  BY DEF Arrived, nak_build, command, NAK_SIZE, NAK_COMMAND, Bits
<1>first. packages[0] \in SUBSET (0 .. 25) /\ \A k \in 0 .. 25 : k \in packages[0] <=> k \in w
  <2>1. n \in Nat
    BY <1>1
  <2> QED
    BY <1>1, <2>1, ThreePackages
<1>2. \A k \in 0 .. 7 : k \in packages[0] <=> k \in {7, 6}
  BY <1>1, <1>first
<1>3. Low(packages[0], 8) = {7, 6}
  BY <1>2 DEF Low, Bits
<1> QED
  BY <1>1, <1>3 DEF nak_validate, HasSize, NAK_SIZE, NAK_COMMAND

\* The session has two bits, updn three.
LEMMA QueryAdjustShows ==
  ASSUME NEW session \in SUBSET Bits(2), NEW updn \in SUBSET Bits(3), NEW w, NEW n, NEW packages,
         Arrived(w, n, query_adjust_command(session, updn)), Shown(packages, w, n)
  PROVE  n \in {9, 10} /\ query_adjust_validate(packages, n) /\ ~nak_validate(packages, n)
<1>1. /\ n \in {9, 10} /\ w \in SUBSET Int
      /\ \A k \in 0 .. 8 : k \in w <=> k \in LeftShift({3, 0}, 5) \cup LeftShift(session, 3) \cup updn
  BY DEF Arrived, query_adjust_command, command, QUERY_ADJUST_SIZE, QUERY_ADJUST_COMMAND, Bits
<1>2. \A k \in 5 .. 8 : k \in w <=> k \in {8, 5}
  <2>1. \A k \in Int : k \in LeftShift({3, 0}, 5) <=> k \in {8, 5}
    BY DEF LeftShift
  <2>2. \A k \in Int : k \in LeftShift(session, 3) \cup updn => k < 5
    BY DEF LeftShift, Bits
  <2> QED
    BY <1>1, <2>1, <2>2
<1>first. packages[0] \in SUBSET (0 .. 25) /\ \A k \in 0 .. 25 : k \in packages[0] <=> k \in w
  <2>1. n \in Nat
    BY <1>1
  <2> QED
    BY <1>1, <2>1, ThreePackages
<1>3. packages[0] \in SUBSET Int /\ \A k \in 5 .. 8 : k \in packages[0] <=> k \in {8, 5}
  BY <1>2, <1>first
<1>4. ExtractField(packages[0], 4, 5) = {3, 0}
  <2>0. packages[0] \in SUBSET Int
    BY <1>3
  <2>1. /\ ExtractField(packages[0], 4, 5) \in SUBSET (0 .. 4 - 1)
        /\ \A k \in 0 .. 4 - 1 : k \in ExtractField(packages[0], 4, 5) <=> k + 5 \in packages[0]
    BY ONLY <2>0, 4 \in Nat, 5 \in Nat, ExtractBits
  <2> QED
    BY <1>3, <2>1
<1>5. Low(packages[0], 8) # {7, 6}
  BY <1>3 DEF Low, Bits
<1> QED
  BY <1>1, <1>4, <1>5 DEF query_adjust_validate, nak_validate, HasSize, QUERY_ADJUST_SIZE,
    QUERY_ADJUST_COMMAND, NAK_COMMAND

LEMMA QueryRepShows ==
  ASSUME NEW session \in SUBSET Bits(2), NEW w, NEW n, NEW packages,
         Arrived(w, n, query_rep_build(session)), Shown(packages, w, n)
  PROVE  n \in {4, 5} /\ query_rep_validate(packages, n)
<1>1. /\ n \in {4, 5} /\ w \in SUBSET Int
      /\ \A k \in 0 .. 3 : k \in w <=> k \in LeftShift({}, 2) \cup session
  BY DEF Arrived, query_rep_build, command, QUERY_REP_SIZE, QUERY_REP_COMMAND, Bits
<1>2. 2 \notin w /\ 3 \notin w
  BY <1>1 DEF LeftShift, Bits
<1>first. packages[0] \in SUBSET (0 .. 25) /\ \A k \in 0 .. 25 : k \in packages[0] <=> k \in w
  <2>1. n \in Nat
    BY <1>1
  <2> QED
    BY <1>1, <2>1, ThreePackages
<1>3. packages[0] \in SUBSET Int /\ 2 \notin packages[0] /\ 3 \notin packages[0]
  BY <1>2, <1>first
<1>4. ExtractField(packages[0], 2, 2) = {}
  <2>0. packages[0] \in SUBSET Int
    BY <1>3
  <2>1. /\ ExtractField(packages[0], 2, 2) \in SUBSET (0 .. 2 - 1)
        /\ \A k \in 0 .. 2 - 1 : k \in ExtractField(packages[0], 2, 2) <=> k + 2 \in packages[0]
    BY ONLY <2>0, 2 \in Nat, 2 \in Nat, ExtractBits
  <2> QED
    BY <1>3, <2>1
<1> QED
  BY <1>1, <1>4 DEF query_rep_validate, HasSize, QUERY_REP_SIZE, QUERY_REP_COMMAND

LEMMA Rn16Shows ==
  ASSUME NEW w, NEW n, Arrived(w, n, rn16_build)
  PROVE  n \in {16, 17} /\ rn16_validate(n)
BY DEF Arrived, rn16_build, command, RN16_SIZE, rn16_validate, HasSize

LEMMA ArrivedBits ==
  ASSUME NEW d, NEW size \in Nat, NEW w, NEW n, Arrived(w, n, command(d, size))
  PROVE  /\ n \in {size, size + 1} /\ n \in Nat /\ w \in SUBSET Int
         /\ w \in SUBSET (0 .. n - 1) /\ \A k \in 0 .. size - 1 : k \in w <=> k \in d
BY DEF Arrived, command, Bits

LEMMA QueryShows ==
  ASSUME NEW dr \in SUBSET Bits(1), NEW m \in SUBSET Bits(2), NEW trext \in SUBSET Bits(1),
         NEW sel \in SUBSET Bits(2), NEW session \in SUBSET Bits(2), NEW target \in SUBSET Bits(1),
         NEW q \in SUBSET Bits(4), NEW w, NEW n, NEW packages,
         Arrived(w, n, query_build(dr, m, trext, sel, session, target, q)), Shown(packages, w, n)
  PROVE  n \in {22, 23} /\ query_validate(packages, n)
<1> DEFINE low == LeftShift(dr, 12) \cup LeftShift(m, 10) \cup LeftShift(trext, 9)
                    \cup LeftShift(sel, 7) \cup LeftShift(session, 5) \cup LeftShift(target, 4) \cup q
           without == LeftShift({3}, 13) \cup LeftShift(dr, 12) \cup LeftShift(m, 10)
                        \cup LeftShift(trext, 9) \cup LeftShift(sel, 7) \cup LeftShift(session, 5)
                        \cup LeftShift(target, 4) \cup q
<1>1. /\ n \in {22, 23} /\ n \in Nat /\ w \in SUBSET Int
      /\ \A k \in 0 .. 21 : k \in w <=> k \in LeftShift(without, 5) \cup Remainder5
  <2>1. query_build(dr, m, trext, sel, session, target, q)
          = command(LeftShift(without, 5) \cup Remainder5, 22)
    BY DEF query_build, QUERY_SIZE, QUERY_COMMAND, crc5
  <2> DEFINE bits == LeftShift(without, 5) \cup Remainder5
  <2>2. Arrived(w, n, command(bits, 22))
    BY <2>1
  <2> HIDE DEF bits
  <2>3. /\ n \in {22, 22 + 1} /\ n \in Nat /\ w \in SUBSET Int
        /\ \A k \in 0 .. 22 - 1 : k \in w <=> k \in bits
    BY ONLY <2>2, 22 \in Nat, ArrivedBits
  <2>4. /\ n \in {22, 23} /\ n \in Nat /\ w \in SUBSET Int
        /\ \A k \in 0 .. 21 : k \in w <=> k \in bits
    BY ONLY <2>3
  <2> QED
    BY ONLY <2>4 DEF bits
<1>2. low \in SUBSET (0 .. 12)
  <2>1. /\ LeftShift(dr, 12) \in SUBSET (12 .. 12 + 1 - 1)
        /\ LeftShift(m, 10) \in SUBSET (10 .. 10 + 2 - 1)
        /\ LeftShift(trext, 9) \in SUBSET (9 .. 9 + 1 - 1)
        /\ LeftShift(sel, 7) \in SUBSET (7 .. 7 + 2 - 1)
        /\ LeftShift(session, 5) \in SUBSET (5 .. 5 + 2 - 1)
        /\ LeftShift(target, 4) \in SUBSET (4 .. 4 + 1 - 1)
    BY ShiftedBits
  <2>2. q \in SUBSET (0 .. 3)
    BY DEF Bits
  <2>3. /\ LeftShift(dr, 12) \in SUBSET (0 .. 12) /\ LeftShift(m, 10) \in SUBSET (0 .. 12)
        /\ LeftShift(trext, 9) \in SUBSET (0 .. 12) /\ LeftShift(sel, 7) \in SUBSET (0 .. 12)
        /\ LeftShift(session, 5) \in SUBSET (0 .. 12) /\ LeftShift(target, 4) \in SUBSET (0 .. 12)
        /\ q \in SUBSET (0 .. 12)
    BY ONLY <2>1, <2>2
  <2> QED
    BY ONLY <2>3 DEF low
<1>3. without = {16} \cup low
  <2>1. LeftShift({3}, 13) = {16}
    BY DEF LeftShift
  <2> QED
    BY <2>1
<1> HIDE DEF low, without
<1>4. LeftShift(without, 5) \in SUBSET (5 .. 21)
      /\ \A k \in 18 .. 21 : k \in LeftShift(without, 5) <=> k = 21
  <2>1. without \in SUBSET Int /\ \A j \in Int : j \in without => j \in 0 .. 16
    BY ONLY <1>2, <1>3
  <2>2. \A j \in 13 .. 16 : j \in without <=> j = 16
    BY ONLY <1>2, <1>3
  <2>3. ASSUME NEW k \in Int
        PROVE  k \in LeftShift(without, 5) <=> k - 5 \in without
    BY ONLY <2>1, 5 \in Int, LeftShiftMember
  <2>4. LeftShift(without, 5) \in SUBSET Int
    BY ONLY <2>1, 5 \in Int, 0 \in Int, LeftShiftMember
  <2>5. ASSUME NEW k \in LeftShift(without, 5)
        PROVE  k \in 5 .. 21
    <3>1. k \in Int /\ k - 5 \in 0 .. 16
      BY <2>1, <2>3, <2>4
    <3> QED
      BY ONLY <3>1
  <2>6. ASSUME NEW k \in 18 .. 21
        PROVE  k \in LeftShift(without, 5) <=> k = 21
    <3>1. k - 5 \in 13 .. 16 /\ k \in Int
      OBVIOUS
    <3> QED
      BY ONLY <2>2, <2>3, <3>1
  <2> QED
    BY <2>5, <2>6
<1>5. Remainder5 \in SUBSET (0 .. 4)
  BY Crc5Type DEF crc5, Bits
<1>6. packages[0] \in SUBSET (0 .. 25) /\ \A k \in 0 .. 25 : k \in packages[0] <=> k \in w
  BY <1>1, ThreePackages
<1>7. \A k \in 18 .. 21 : k \in packages[0] <=> k = 21
  BY <1>1, <1>4, <1>5, <1>6
<1>8. ExtractField(packages[0], 4, 18) = {3}
  <2>0. packages[0] \in SUBSET Int
    BY <1>6
  <2>1. /\ ExtractField(packages[0], 4, 18) \in SUBSET (0 .. 4 - 1)
        /\ \A k \in 0 .. 4 - 1 : k \in ExtractField(packages[0], 4, 18) <=> k + 18 \in packages[0]
    BY ONLY <2>0, 4 \in Nat, 18 \in Nat, ExtractBits
  <2> QED
    BY <1>7, <2>1
<1>9. Low(packages[0], 5) = Remainder5
  <2>1. \A k \in 0 .. 4 : k \in packages[0] <=> k \in Remainder5
    BY <1>1, <1>4, <1>6
  <2>2. /\ Low(packages[0], 5) \in SUBSET (0 .. 5 - 1)
        /\ \A k \in 0 .. 5 - 1 : k \in Low(packages[0], 5) <=> k \in packages[0]
    BY ONLY 5 \in Nat, LowBits
  <2>3. /\ Low(packages[0], 5) \in SUBSET (0 .. 4)
        /\ \A k \in 0 .. 4 : k \in Low(packages[0], 5) <=> k \in Remainder5
    BY ONLY <2>1, <2>2
  <2> QED
    BY ONLY <1>5, <2>3
<1> QED
  BY <1>1, <1>8, <1>9 DEF query_validate, HasSize, QUERY_SIZE, QUERY_COMMAND, crc5

\* What req_rn_validate sees: the CRC, and of the number the ten bits that packages[0] has.
ReqRnSeen(t, rn, packages, n) ==
  LET without == Field(REQ_RN_COMMAND, 8, 16) \cup Low(rn, 16)
      again == LeftShift(REQ_RN_COMMAND, 16) \cup ExtractField(packages[0], 16, 16)
  IN /\ n \in {40, 41}
     /\ ExtractField(packages[1], 8, 6) = REQ_RN_COMMAND
     /\ Low(packages[0], 16) = crc_16_ccitt(t, without, 3)
     /\ without \in SUBSET Int /\ again \in SUBSET Int
     /\ \A k \in Int : k \in without <=> k \in {23, 22, 16} \/ (k \in 0 .. 15 /\ k \in rn)
     /\ \A k \in Int : k \in again <=> k \in {23, 22, 16} \/ (k \in 0 .. 9 /\ k \in rn)
     /\ \A k \in 26 .. 31 : k \in req_rn_build(t, rn).result_data <=> k - 16 \in rn

LEMMA ReqRnBits ==
  ASSUME NEW t \in Tables, NEW rn, NEW w, NEW n, NEW packages,
         Arrived(w, n, req_rn_build(t, rn)), Shown(packages, w, n)
  PROVE  ReqRnSeen(t, rn, packages, n)
<1> DEFINE without == Field({7, 6, 0}, 8, 16) \cup Low(rn, 16)
           crc == crc_16_ccitt(t, without, 3)
           number == ExtractField(packages[0], 16, 16)
           again == LeftShift({7, 6, 0}, 16) \cup number
           bits == LeftShift(without, 16) \cup crc
<1>0. bits = req_rn_build(t, rn).result_data
  BY DEF req_rn_build, command, REQ_RN_COMMAND
<1>1. /\ n \in {40, 41} /\ n \in Nat /\ w \in SUBSET Int
      /\ \A k \in 0 .. 39 : k \in w <=> k \in bits
  BY DEF Arrived, req_rn_build, command, REQ_RN_SIZE, REQ_RN_COMMAND, Bits
<1>2. crc \in SUBSET (0 .. 15)
  BY CrcType DEF Bits
<1>3. /\ without \in SUBSET Int
      /\ \A k \in Int : k \in without <=> k \in {23, 22, 16} \/ (k \in 0 .. 15 /\ k \in rn)
  <2>1. \A k \in Int : k \in Field({7, 6, 0}, 8, 16) <=> k \in {23, 22, 16}
    BY FieldMember
  <2>2. \A k \in Int : k \in Low(rn, 16) <=> k \in 0 .. 15 /\ k \in rn
    BY DEF Low, Bits
  <2>3. Field({7, 6, 0}, 8, 16) \in SUBSET Int /\ Low(rn, 16) \in SUBSET Int
    BY DEF Field, LeftShift, Low, Bits
  <2> QED
    BY <2>1, <2>2, <2>3
<1> HIDE DEF without, crc
<1>4. \A k \in Int : k \in LeftShift(without, 16) <=> k - 16 \in without
  BY <1>3, LeftShiftMember
<1>5. /\ \A k \in 0 .. 15 : k \in w <=> k \in crc
      /\ \A k \in 16 .. 31 : k \in w <=> k - 16 \in rn
      /\ \A k \in 32 .. 39 : k \in w <=> k \in {39, 38, 32}
  <2>1. \A k \in 0 .. 39 : k \in w <=> k - 16 \in without \/ k \in crc
    BY <1>1, <1>4
  <2>2. \A k \in 0 .. 39 : k - 16 \in without <=> k \in {39, 38, 32} \/ (k \in 16 .. 31 /\ k - 16 \in rn)
    BY <1>3
  <2> QED
    BY ONLY <1>2, <2>1, <2>2
<1>6. /\ packages[0] \in SUBSET (0 .. 25) /\ \A k \in 0 .. 25 : k \in packages[0] <=> k \in w
      /\ packages[1] \in SUBSET (0 .. 25) /\ \A k \in 0 .. 25 : k \in packages[1] <=> k + 26 \in w
  <2>1. n >= 26
    BY <1>1
  <2> QED
    BY <1>1, <2>1, ThreePackages
<1>7. ExtractField(packages[1], 8, 6) = {7, 6, 0}
  <2>0. packages[1] \in SUBSET Int
    BY <1>6
  <2>1. /\ ExtractField(packages[1], 8, 6) \in SUBSET (0 .. 8 - 1)
        /\ \A k \in 0 .. 8 - 1 : k \in ExtractField(packages[1], 8, 6) <=> k + 6 \in packages[1]
    BY ONLY <2>0, 8 \in Nat, 6 \in Nat, ExtractBits
  <2>2. \A k \in 0 .. 7 : k + 6 \in packages[1] <=> k + 32 \in w
    <3>1. \A k \in 0 .. 7 : k + 6 \in 0 .. 25 /\ (k + 6) + 26 = k + 32
      OBVIOUS
    <3> QED
      BY <1>6, <3>1
  <2>3. \A k \in 0 .. 7 : k + 32 \in w <=> k \in {7, 6, 0}
    BY <1>5
  <2> QED
    BY <2>1, <2>2, <2>3
<1>8. Low(packages[0], 16) = crc
  <2>1. \A k \in 0 .. 15 : k \in packages[0] <=> k \in crc
    BY <1>5, <1>6
  <2>2. /\ Low(packages[0], 16) \in SUBSET (0 .. 16 - 1)
        /\ \A k \in 0 .. 16 - 1 : k \in Low(packages[0], 16) <=> k \in packages[0]
    BY ONLY 16 \in Nat, LowBits
  <2>3. /\ Low(packages[0], 16) \in SUBSET (0 .. 15)
        /\ \A k \in 0 .. 15 : k \in Low(packages[0], 16) <=> k \in crc
    BY ONLY <2>1, <2>2
  <2> QED
    BY ONLY <1>2, <2>3
<1>9. \A k \in 26 .. 31 : k \in bits <=> k - 16 \in rn
  BY <1>1, <1>5
<1>10. /\ number \in SUBSET (0 .. 15)
       /\ \A k \in 0 .. 15 : k \in number <=> k \in 0 .. 9 /\ k \in rn
  <2>0. packages[0] \in SUBSET Int
    BY <1>6
  <2>1. /\ number \in SUBSET (0 .. 16 - 1)
        /\ \A k \in 0 .. 16 - 1 : k \in number <=> k + 16 \in packages[0]
    BY ONLY <2>0, 16 \in Nat, ExtractBits
  <2> HIDE DEF number
  <2>2. \A k \in 0 .. 15 : k + 16 \in packages[0] <=> k \in 0 .. 9 /\ k + 16 \in w
    BY <1>6
  <2>3. \A k \in 0 .. 15 : k + 16 \in w <=> k \in rn
    <3>1. \A k \in 0 .. 15 : k + 16 \in 16 .. 31 /\ (k + 16) - 16 = k
      OBVIOUS
    <3> QED
      BY <1>5, <3>1
  <2> QED
    BY ONLY <2>1, <2>2, <2>3
<1>11. LeftShift({7, 6, 0}, 16) = {23, 22, 16}
  BY DEF LeftShift
<1> HIDE DEF number
<1>12. again \in SUBSET Int
  <2>1. {23, 22, 16} \in SUBSET Int /\ number \in SUBSET Int
    BY <1>10
  <2> QED
    BY <1>11, <2>1
<1>13. \A k \in Int : k \in again <=> k \in {23, 22, 16} \/ (k \in 0 .. 9 /\ k \in rn)
  BY <1>10, <1>11
<1> QED
  BY <1>0, <1>1, <1>3, <1>7, <1>8, <1>9, <1>12, <1>13 DEF ReqRnSeen, REQ_RN_COMMAND, number, without, crc

\* req_rn_validate has all of the number when its upper six bits are 0.
LEMMA ReqRnShows ==
  ASSUME NEW t \in Tables, NEW rn, NEW w, NEW n, NEW packages,
         Arrived(w, n, req_rn_build(t, rn)), Shown(packages, w, n),
         t = ZeroTable \/ req_rn_build(t, rn).result_data \cap 26 .. 31 = {}
  PROVE  n \in {40, 41} /\ req_rn_validate(t, packages, n)
<1> DEFINE without == Field(REQ_RN_COMMAND, 8, 16) \cup Low(rn, 16)
           again == LeftShift(REQ_RN_COMMAND, 16) \cup ExtractField(packages[0], 16, 16)
<1>1. /\ n \in {40, 41} /\ ExtractField(packages[1], 8, 6) = REQ_RN_COMMAND
      /\ Low(packages[0], 16) = crc_16_ccitt(t, without, 3)
      /\ without \in SUBSET Int /\ again \in SUBSET Int
      /\ \A k \in Int : k \in without <=> k \in {23, 22, 16} \/ (k \in 0 .. 15 /\ k \in rn)
      /\ \A k \in Int : k \in again <=> k \in {23, 22, 16} \/ (k \in 0 .. 9 /\ k \in rn)
      /\ \A k \in 26 .. 31 : k \in req_rn_build(t, rn).result_data <=> k - 16 \in rn
  <2>1. ReqRnSeen(t, rn, packages, n)
    BY ReqRnBits
  <2> QED
    BY <2>1 DEF ReqRnSeen
<1>2. CASE t = ZeroTable
  <2>1. crc_16_ccitt(ZeroTable, again, 3) = {} /\ crc_16_ccitt(ZeroTable, without, 3) = {}
    BY UnfilledTableChecksNothing
  <2> QED
    BY <1>1, <1>2, <2>1 DEF req_rn_validate, HasSize, REQ_RN_SIZE
<1>3. CASE req_rn_build(t, rn).result_data \cap 26 .. 31 = {}
  <2> HIDE DEF without, again
  <2>1. \A k \in 10 .. 15 : k \notin rn
    <3>1. \A k \in 26 .. 31 : k - 16 \notin rn
      BY <1>1, <1>3
    <3>2. \A k \in 10 .. 15 : k + 16 \in 26 .. 31 /\ (k + 16) - 16 = k
      OBVIOUS
    <3> QED
      BY <3>1, <3>2
  <2>2. \A k \in Int : k \in again <=> k \in without
    BY <1>1, <2>1
  <2>3. again = without
    BY <1>1, <2>2
  <2> QED
    BY <1>1, <2>3 DEF req_rn_validate, HasSize, REQ_RN_SIZE, again
<1> QED
  BY <1>1, <1>2, <1>3

\* With the table filled it refuses a number with one of those six bits set: the CRC was
\* made with a byte that differs.
LEMMA ReqRnIsRefused ==
  ASSUME NEW rn, NEW w, NEW n, NEW packages,
         Arrived(w, n, req_rn_build(FilledTable, rn)), Shown(packages, w, n),
         req_rn_build(FilledTable, rn).result_data \cap 26 .. 31 # {}
  PROVE  ~req_rn_validate(FilledTable, packages, n)
<1> DEFINE without == Field(REQ_RN_COMMAND, 8, 16) \cup Low(rn, 16)
           again == LeftShift(REQ_RN_COMMAND, 16) \cup ExtractField(packages[0], 16, 16)
<1>1. /\ Low(packages[0], 16) = crc_16_ccitt(FilledTable, without, 3)
      /\ without \in SUBSET Int /\ again \in SUBSET Int
      /\ \A k \in Int : k \in without <=> k \in {23, 22, 16} \/ (k \in 0 .. 15 /\ k \in rn)
      /\ \A k \in Int : k \in again <=> k \in {23, 22, 16} \/ (k \in 0 .. 9 /\ k \in rn)
      /\ \A k \in 26 .. 31 : k \in req_rn_build(FilledTable, rn).result_data <=> k - 16 \in rn
  <2>1. ReqRnSeen(FilledTable, rn, packages, n)
    BY ReqRnBits, FilledTableDivides
  <2> QED
    BY <2>1 DEF ReqRnSeen
<1> HIDE DEF without, again
<1>2. PICK bit \in 10 .. 15 : bit \in rn
  <2>1. PICK k \in 26 .. 31 : k - 16 \in rn
    BY <1>1
  <2>2. k - 16 \in 10 .. 15
    OBVIOUS
  <2> QED
    BY <2>1, <2>2
<1>3. ASSUME NEW m \in SUBSET Int, NEW j \in 1 .. 3
      PROVE  /\ Byte(m, j) \in SUBSET (0 .. 7)
             /\ \A k \in 0 .. 7 : k \in Byte(m, j) <=> k + 8 * (j - 1) \in m
  <2>1. /\ ExtractField(m, 8, 8 * (j - 1)) \in SUBSET (0 .. 8 - 1)
        /\ \A k \in 0 .. 8 - 1 : k \in ExtractField(m, 8, 8 * (j - 1)) <=> k + 8 * (j - 1) \in m
    <3>1. 8 * (j - 1) \in Nat
      OBVIOUS
    <3> QED
      BY ONLY <3>1, m \in SUBSET Int, 8 \in Nat, ExtractBits
  <2> QED
    BY ONLY <2>1 DEF Byte
<1>4. Byte(again, 2) # Byte(without, 2)
  <2>1. bit - 8 \in 0 .. 7 /\ (bit - 8) + 8 * (2 - 1) = bit
    BY <1>2
  <2>2. bit \in without /\ bit \notin again
    BY <1>1, <1>2
  <2>3. bit - 8 \in Byte(without, 2) /\ bit - 8 \notin Byte(again, 2)
    BY <1>1, <1>3, <2>1, <2>2
  <2> QED
    BY <2>3
<1>5. ASSUME NEW j \in 1 .. 3 \ {2} PROVE Byte(again, j) = Byte(without, j)
  <2>1. ASSUME NEW k \in 0 .. 7 PROVE k + 8 * (j - 1) \in again <=> k + 8 * (j - 1) \in without
    <3>1. k + 8 * (j - 1) \in Int /\ k + 8 * (j - 1) \notin 8 .. 15
      <4>1. j = 1 \/ j = 3
        OBVIOUS
      <4> QED
        BY <4>1
    <3> QED
      BY <1>1, <3>1
  <2> QED
    BY <1>1, <1>3, <2>1
<1>6. crc_16_ccitt(FilledTable, again, 3) # crc_16_ccitt(FilledTable, without, 3)
  BY ONLY <1>4, <1>5, 2 \in 1 .. 3, 3 \in Nat, CrcTellsBytesApart
<1> QED
  BY <1>1, <1>6 DEF req_rn_validate, again

\* The number and the CRC that rn_crc_validate puts together from two packages.
LEMMA NumberShows ==
  ASSUME NEW w \in SUBSET Int, NEW n \in {32, 33}, NEW packages, Shown(packages, w, n)
  PROVE  LET number == Field(packages[1], 6, 10) \cup ExtractField(packages[0], 10, 16)
         IN /\ number \in SUBSET Bits(16)
            /\ \A k \in 0 .. 15 : k \in number <=> k + 16 \in w
            /\ Low(packages[0], 16) \in SUBSET (0 .. 15)
            /\ \A k \in 0 .. 15 : k \in Low(packages[0], 16) <=> k \in w
<1> DEFINE high == Field(packages[1], 6, 10)
           low == ExtractField(packages[0], 10, 16)
<1>1. /\ packages[0] \in SUBSET (0 .. 25) /\ \A k \in 0 .. 25 : k \in packages[0] <=> k \in w
      /\ packages[1] \in SUBSET (0 .. 25) /\ \A k \in 0 .. 25 : k \in packages[1] <=> k + 26 \in w
  <2>1. n \in Nat /\ n >= 26
    OBVIOUS
  <2> QED
    BY <2>1, ThreePackages
<1>2. \A k \in Int : k \in high <=> k - 10 \in packages[1] /\ k - 10 \in 0 .. 6 - 1
  BY ONLY 6 \in Nat, 10 \in Nat, FieldMember
<1>3. /\ low \in SUBSET (0 .. 10 - 1)
      /\ \A k \in 0 .. 10 - 1 : k \in low <=> k + 16 \in packages[0]
  <2>1. packages[0] \in SUBSET Int
    BY <1>1
  <2> QED
    BY ONLY <2>1, 10 \in Nat, 16 \in Nat, ExtractBits
<1>4. high \in SUBSET Int
  <2>1. Low(packages[1], 6) \in SUBSET Int
    BY DEF Low, Bits
  <2> QED
    BY <2>1 DEF Field, LeftShift
<1>5. /\ Low(packages[0], 16) \in SUBSET (0 .. 16 - 1)
      /\ \A k \in 0 .. 16 - 1 : k \in Low(packages[0], 16) <=> k \in packages[0]
  BY ONLY 16 \in Nat, LowBits
<1> HIDE DEF high, low
<1>6. high \in SUBSET (0 .. 15)
  BY ONLY <1>2, <1>4
<1>7. low \in SUBSET (0 .. 15)
  BY ONLY <1>3
<1>8. ASSUME NEW k \in 0 .. 15
      PROVE  k \in high \cup low <=> k + 16 \in w
  <2>1. CASE k < 10
    <3>1. k \notin high
      BY ONLY <1>2, <2>1, k \in 0 .. 15
    <3>2. k \in low <=> k + 16 \in packages[0]
      BY <1>3, <2>1
    <3>3. k + 16 \in packages[0] <=> k + 16 \in w
      BY <1>1, <2>1
    <3> QED
      BY <3>1, <3>2, <3>3
  <2>2. CASE k >= 10
    <3>1. k \notin low
      BY ONLY <1>3, <2>2, k \in 0 .. 15
    <3>2. k \in high <=> k - 10 \in packages[1]
      BY <1>2, <2>2
    <3>3. k - 10 \in 0 .. 25 /\ (k - 10) + 26 = k + 16
      BY <2>2
    <3>4. k - 10 \in packages[1] <=> k + 16 \in w
      BY <1>1, <3>3
    <3> QED
      BY <3>1, <3>2, <3>4
  <2> QED
    BY <2>1, <2>2
<1>9. \A k \in 0 .. 15 : k \in Low(packages[0], 16) <=> k \in w
  BY <1>1, <1>5
<1>10. Low(packages[0], 16) \in SUBSET (0 .. 15)
  BY ONLY <1>5
<1>11. high \cup low \in SUBSET Bits(16)
  BY <1>6, <1>7 DEF Bits
<1> QED
  BY ONLY <1>8, <1>9, <1>10, <1>11 DEF high, low

\* The bits of an rn_crc that are sent.
LEMMA RnCrcBits ==
  ASSUME NEW t \in Tables, NEW rn \in SUBSET Bits(16)
  PROVE  /\ crc_16_ccitt(t, rn, 3) \in SUBSET (0 .. 15)
         /\ \A k \in 0 .. 15 : k \in rn_crc_build(t, rn).result_data <=> k \in crc_16_ccitt(t, rn, 3)
         /\ \A k \in 0 .. 15 : k + 16 \in rn_crc_build(t, rn).result_data <=> k \in rn
<1> DEFINE crc == crc_16_ccitt(t, rn, 3)
<1>1. rn_crc_build(t, rn).result_data = Widened(Field(rn, 16, 16) \cup Low(crc, 16))
  BY DEF rn_crc_build, command
<1>2. crc \in SUBSET Bits(16) /\ crc \in SUBSET (0 .. 15)
  BY CrcType DEF Bits
<1>3. Low(crc, 16) = crc
  BY <1>2 DEF Low
<1> HIDE DEF crc
<1>4. \A k \in Int : k \in Field(rn, 16, 16) <=> k - 16 \in rn
  <2>1. \A k \in Int : k \in Field(rn, 16, 16) <=> k - 16 \in rn /\ k - 16 \in 0 .. 16 - 1
    BY ONLY 16 \in Nat, FieldMember
  <2>2. \A k \in rn : k \in 0 .. 15
    BY DEF Bits
  <2> QED
    BY <2>1, <2>2
<1>5. \A k \in 0 .. 31 : k \in Widened(Field(rn, 16, 16) \cup Low(crc, 16)) <=> k - 16 \in rn \/ k \in crc
  BY <1>3, <1>4 DEF Widened
<1>6. \A k \in rn : k \in 0 .. 15
  BY DEF Bits
<1>7. \A k \in 0 .. 15 : k \in 0 .. 31 /\ k + 16 \in 0 .. 31 /\ (k + 16) - 16 = k /\ k - 16 \notin 0 .. 15
                           /\ k + 16 \notin 0 .. 15
  OBVIOUS
<1> QED
  BY <1>1, <1>2, <1>5, <1>6, <1>7 DEF crc

LEMMA Flipped ==
  ASSUME NEW d, NEW size, NEW bit
  PROVE  [command(d, size) EXCEPT !.result_data = ExclusiveOr(@, {bit})]
           = command(ExclusiveOr(d, {bit}), size)
BY DEF command

LEMMA RnCrcShows ==
  ASSUME NEW t \in Tables, NEW rn \in SUBSET Bits(16), NEW w, NEW n, NEW packages,
         Arrived(w, n, rn_crc_build(t, rn)), Shown(packages, w, n)
  PROVE  n \in {32, 33} /\ rn_crc_validate(t, packages, n)
<1> DEFINE crc == crc_16_ccitt(t, rn, 3)
           bits == rn_crc_build(t, rn).result_data
           number == Field(packages[1], 6, 10) \cup ExtractField(packages[0], 10, 16)
<1>1. /\ n \in {32, 33} /\ w \in SUBSET Int
      /\ \A k \in 0 .. 31 : k \in w <=> k \in bits
  <2>1. rn_crc_build(t, rn) = command(bits, 32)
    BY DEF rn_crc_build, command, RN_CRC_SIZE
  <2> HIDE DEF bits
  <2>2. Arrived(w, n, command(bits, 32))
    BY <2>1
  <2>3. /\ n \in {32, 32 + 1} /\ w \in SUBSET Int
        /\ \A k \in 0 .. 32 - 1 : k \in w <=> k \in bits
    BY ONLY <2>2, 32 \in Nat, ArrivedBits
  <2> QED
    BY ONLY <2>3
<1>2. /\ number \in SUBSET Bits(16)
      /\ \A k \in 0 .. 15 : k \in number <=> k + 16 \in w
      /\ Low(packages[0], 16) \in SUBSET (0 .. 15)
      /\ \A k \in 0 .. 15 : k \in Low(packages[0], 16) <=> k \in w
  BY ONLY <1>1, Shown(packages, w, n), NumberShows
<1>3. /\ crc \in SUBSET (0 .. 15)
      /\ \A k \in 0 .. 15 : k \in bits <=> k \in crc
      /\ \A k \in 0 .. 15 : k + 16 \in bits <=> k \in rn
  BY RnCrcBits
<1> HIDE DEF crc, bits, number
<1>4. \A k \in 0 .. 15 : /\ k \in number <=> k \in rn
                         /\ k \in Low(packages[0], 16) <=> k \in crc
  <2>1. \A k \in 0 .. 15 : k \in 0 .. 31 /\ k + 16 \in 0 .. 31
    OBVIOUS
  <2> QED
    BY <1>1, <1>2, <1>3, <2>1
<1>5. number = rn
  <2>1. number \in SUBSET (0 .. 15) /\ rn \in SUBSET (0 .. 15)
    BY <1>2 DEF Bits
  <2> QED
    BY ONLY <1>4, <2>1
<1>6. Low(packages[0], 16) = crc
  BY ONLY <1>2, <1>3, <1>4
<1> QED
  BY <1>1, <1>5, <1>6 DEF rn_crc_validate, HasSize, RN_CRC_SIZE, number, crc

\* With the table filled, one wrong bit in an rn_crc is noticed, wherever it is.
THEOREM WrongBitIsNoticed ==
  ASSUME NEW rn \in SUBSET Bits(16), NEW bit \in Bits(32), NEW w, NEW n, NEW packages,
         Arrived(w, n, [rn_crc_build(FilledTable, rn) EXCEPT !.result_data = ExclusiveOr(@, {bit})]),
         Shown(packages, w, n)
  PROVE  n \in {32, 33} /\ ~rn_crc_validate(FilledTable, packages, n)
<1> DEFINE crc == crc_16_ccitt(FilledTable, rn, 3)
           bits == rn_crc_build(FilledTable, rn).result_data
           number == Field(packages[1], 6, 10) \cup ExtractField(packages[0], 10, 16)
<1>1. /\ n \in {32, 33} /\ w \in SUBSET Int /\ bit \in 0 .. 31
      /\ \A k \in 0 .. 31 : k \in w <=> k \in ExclusiveOr(bits, {bit})
  <2>1. rn_crc_build(FilledTable, rn) = command(bits, 32)
    BY DEF rn_crc_build, command, RN_CRC_SIZE
  <2> HIDE DEF bits
  <2>2. Arrived(w, n, command(ExclusiveOr(bits, {bit}), 32))
    <3>1. Arrived(w, n, [command(bits, 32) EXCEPT !.result_data = ExclusiveOr(@, {bit})])
      BY <2>1
    <3>2. [command(bits, 32) EXCEPT !.result_data = ExclusiveOr(@, {bit})]
            = command(ExclusiveOr(bits, {bit}), 32)
      BY ONLY Flipped
    <3> QED
      BY ONLY <3>1, <3>2
  <2>3. /\ n \in {32, 32 + 1} /\ w \in SUBSET Int
        /\ \A k \in 0 .. 32 - 1 : k \in w <=> k \in ExclusiveOr(bits, {bit})
    BY ONLY <2>2, 32 \in Nat, ArrivedBits
  <2>4. bit \in 0 .. 31
    BY DEF Bits
  <2> QED
    BY ONLY <2>3, <2>4
<1>2. /\ number \in SUBSET Bits(16)
      /\ \A k \in 0 .. 15 : k \in number <=> k + 16 \in w
      /\ Low(packages[0], 16) \in SUBSET (0 .. 15)
      /\ \A k \in 0 .. 15 : k \in Low(packages[0], 16) <=> k \in w
  BY ONLY <1>1, Shown(packages, w, n), NumberShows
<1>3. /\ crc \in SUBSET (0 .. 15)
      /\ \A k \in 0 .. 15 : k \in bits <=> k \in crc
      /\ \A k \in 0 .. 15 : k + 16 \in bits <=> k \in rn
  BY RnCrcBits, FilledTableDivides
<1>4. \A k \in 0 .. 31 : k \in w <=> (k \in bits) # (k = bit)
  BY <1>1 DEF ExclusiveOr
<1>5. number \in SUBSET (0 .. 15) /\ rn \in SUBSET (0 .. 15)
  BY <1>2 DEF Bits
<1>6. \A k \in 0 .. 15 : k \in 0 .. 31 /\ k + 16 \in 0 .. 31
  OBVIOUS
<1> HIDE DEF bits, number
<1>7. CASE bit < 16
  <2>1. number = rn
    <3>1. \A k \in 0 .. 15 : k + 16 # bit
      BY ONLY <1>1, <1>7
    <3>2. \A k \in 0 .. 15 : k \in number <=> k \in rn
      BY ONLY <1>2, <1>3, <1>4, <1>6, <3>1
    <3> QED
      BY ONLY <1>5, <3>2
  <2>2. bit \in 0 .. 15
    BY ONLY <1>1, <1>7
  <2>3. bit \in Low(packages[0], 16) <=> bit \notin crc
    BY <1>2, <1>3, <1>4, <1>6, <2>2
  <2>4. Low(packages[0], 16) # crc
    BY <2>3
  <2> QED
    BY <1>1, <2>1, <2>4 DEF rn_crc_validate, number
<1>8. CASE bit >= 16
  <2> DEFINE place == bit - 16
  <2>1. place \in 0 .. 15 /\ place + 16 = bit /\ bit \notin 0 .. 15
    BY <1>1, <1>8
  <2> HIDE DEF place, crc
  <2>2. \A k \in 0 .. 15 : k \in number <=> (k \in rn) # (k = place)
    <3>1. \A k \in 0 .. 15 : k + 16 = bit <=> k = place
      BY ONLY <2>1
    <3> QED
      BY ONLY <1>2, <1>3, <1>4, <1>6, <3>1
  <2>3. Low(packages[0], 16) = crc
    <3>1. \A k \in 0 .. 15 : k # bit
      BY ONLY <2>1
    <3>2. \A k \in 0 .. 15 : k \in Low(packages[0], 16) <=> k \in crc
      BY ONLY <1>2, <1>3, <1>4, <1>6, <3>1
    <3>3. Low(packages[0], 16) \in SUBSET (0 .. 15) /\ crc \in SUBSET (0 .. 15)
      BY ONLY <1>2, <1>3
    <3> QED
      BY ONLY <3>2, <3>3
  <2>4. ASSUME NEW x \in SUBSET (0 .. 15), NEW q \in 1 .. 3
        PROVE  /\ Byte(x, q) \in SUBSET (0 .. 7)
               /\ \A k \in 0 .. 7 : k \in Byte(x, q) <=> k + 8 * (q - 1) \in x
    <3>1. /\ ExtractField(x, 8, 8 * (q - 1)) \in SUBSET (0 .. 8 - 1)
          /\ \A k \in 0 .. 8 - 1 : k \in ExtractField(x, 8, 8 * (q - 1)) <=> k + 8 * (q - 1) \in x
      <4>1. 8 * (q - 1) \in Nat /\ x \in SUBSET Int
        OBVIOUS
      <4> QED
        BY ONLY <4>1, 8 \in Nat, ExtractBits
    <3> QED
      BY ONLY <3>1 DEF Byte
  <2> DEFINE j == IF place < 8 THEN 1 ELSE 2
             at == place - 8 * (j - 1)
  <2>5. j \in 1 .. 3 /\ at \in 0 .. 7 /\ at + 8 * (j - 1) = place
    BY <2>1
  <2>6. Byte(number, j) # Byte(rn, j)
    <3> HIDE DEF j, at
    <3>1. at \in Byte(number, j) <=> place \in number
      BY <1>5, <2>4, <2>5
    <3>2. at \in Byte(rn, j) <=> place \in rn
      BY <1>5, <2>4, <2>5
    <3>3. place \in number <=> place \notin rn
      BY <2>1, <2>2
    <3> QED
      BY <3>1, <3>2, <3>3
  <2>7. ASSUME NEW q \in 1 .. 3 \ {j} PROVE Byte(number, q) = Byte(rn, q)
    <3>1. ASSUME NEW k \in 0 .. 7 PROVE k + 8 * (q - 1) \in number <=> k + 8 * (q - 1) \in rn
      <4>1. k + 8 * (q - 1) # place /\ k + 8 * (q - 1) \in Nat
        BY <2>1
      <4> QED
        BY <1>5, <2>2, <4>1
    <3> HIDE DEF j, at
    <3>2. q \in 1 .. 3
      OBVIOUS
    <3>3. /\ Byte(number, q) \in SUBSET (0 .. 7)
          /\ \A k \in 0 .. 7 : k \in Byte(number, q) <=> k + 8 * (q - 1) \in number
      BY <1>5, <2>4, <3>2
    <3>4. /\ Byte(rn, q) \in SUBSET (0 .. 7)
          /\ \A k \in 0 .. 7 : k \in Byte(rn, q) <=> k + 8 * (q - 1) \in rn
      BY <1>5, <2>4, <3>2
    <3> QED
      BY ONLY <3>1, <3>3, <3>4
  <2> HIDE DEF j, at
  <2>8. crc_16_ccitt(FilledTable, number, 3) # crc_16_ccitt(FilledTable, rn, 3)
    BY ONLY <2>5, <2>6, <2>7, 3 \in Nat, CrcTellsBytesApart
  <2> QED
    BY <1>1, <2>3, <2>8 DEF rn_crc_validate, number, crc
<1> QED
  BY <1>1, <1>7, <1>8

-----------------------------------------------------------------------------
(* The commands whose builders shift an int out of its type.               *)

\* What is left in the upper half is the sign of some int, or nothing.
FullOrEmpty == {d \in SUBSET (0 .. 63) : 32 .. 63 \in SUBSET d \/ d \in SUBSET (0 .. 31)}

LEMMA ShiftedInt ==
  ASSUME NEW w, NEW n, NEW v \in IntShifts(w, n)
  PROVE  v \in SUBSET (0 .. 31) /\ Widened(v) \in FullOrEmpty /\ v \in FullOrEmpty
<1>1. v \in SUBSET (0 .. 31)
  BY DEF IntShifts, Low, Bits
<1> QED
  BY <1>1 DEF Widened, FullOrEmpty

LEMMA Together ==
  ASSUME NEW d \in FullOrEmpty, NEW e \in FullOrEmpty
  PROVE  d \cup e \in FullOrEmpty
BY DEF FullOrEmpty

LEMMA NumberAndCrc ==
  ASSUME NEW rn \in SUBSET Bits(16), NEW crc \in SUBSET Bits(16)
  PROVE  Widened(LeftShift(rn, 16)) \in FullOrEmpty /\ crc \in FullOrEmpty
<1>1. LeftShift(rn, 16) \in SUBSET (16 .. 16 + 16 - 1)
  BY ONLY rn \in SUBSET Bits(16), 16 \in Nat, ShiftedBits
<1>2. LeftShift(rn, 16) \in SUBSET (0 .. 31) /\ crc \in SUBSET (0 .. 31)
  BY <1>1 DEF Bits
<1> QED
  BY <1>2 DEF Widened, FullOrEmpty

LEMMA KillIsFullOrEmpty ==
  ASSUME NEW password, NEW rfu, NEW rn \in SUBSET Bits(16), NEW crc \in SUBSET Bits(16),
         NEW cmd \in kill_build(password, rfu, rn, crc)
  PROVE  \E d \in FullOrEmpty : cmd = command(d, 59)
<1>1. PICK k \in IntShifts(KILL_COMMAND, 51), p \in IntShifts(password, 35), r \in IntShifts(rfu, 32) :
        cmd = command(Widened(k) \cup Widened(p) \cup Widened(r) \cup Widened(LeftShift(rn, 16)) \cup crc, 59)
  BY DEF kill_build, KILL_SIZE
<1>2. /\ Widened(k) \in FullOrEmpty /\ Widened(p) \in FullOrEmpty /\ Widened(r) \in FullOrEmpty
      /\ Widened(LeftShift(rn, 16)) \in FullOrEmpty /\ crc \in FullOrEmpty
  BY ShiftedInt, NumberAndCrc
<1>3. Widened(k) \cup Widened(p) \cup Widened(r) \cup Widened(LeftShift(rn, 16)) \cup crc \in FullOrEmpty
  BY ONLY <1>2, Together
<1> QED
  BY <1>1, <1>3

LEMMA LockIsFullOrEmpty ==
  ASSUME NEW payload, NEW rn \in SUBSET Bits(16), NEW crc \in SUBSET Bits(16),
         NEW cmd \in lock_build(payload, rn, crc)
  PROVE  \E d \in FullOrEmpty : cmd = command(d, 60)
<1>1. PICK k \in IntShifts(LOCK_COMMAND, 52), p \in IntShifts(payload, 32) :
        cmd = command(Widened(k) \cup p \cup Widened(LeftShift(rn, 16)) \cup crc, 60)
  BY DEF lock_build, LOCK_SIZE
<1>2. /\ Widened(k) \in FullOrEmpty /\ p \in FullOrEmpty
      /\ Widened(LeftShift(rn, 16)) \in FullOrEmpty /\ crc \in FullOrEmpty
  BY ShiftedInt, NumberAndCrc
<1>3. Widened(k) \cup p \cup Widened(LeftShift(rn, 16)) \cup crc \in FullOrEmpty
  BY ONLY <1>2, Together
<1> QED
  BY <1>1, <1>3

LEMMA ReadIsFullOrEmpty ==
  ASSUME NEW mem_bank, NEW word_ptr, NEW word_count, NEW rn \in SUBSET Bits(16),
         NEW crc \in SUBSET Bits(16), NEW cmd \in read_build(mem_bank, word_ptr, word_count, rn, crc)
  PROVE  \E d \in FullOrEmpty : cmd = command(d, 57)
<1>1. PICK k \in IntShifts(READ_COMMAND, 49), b \in IntShifts(mem_bank, 47),
           p \in IntShifts(word_ptr, 39), c \in IntShifts(word_count, 32) :
        cmd = command(Widened(k) \cup Widened(b) \cup Widened(p) \cup Widened(c)
                        \cup Widened(LeftShift(rn, 16)) \cup crc, 57)
  BY SMTT(60) DEF read_build, READ_SIZE
<1>2. /\ Widened(k) \in FullOrEmpty /\ Widened(b) \in FullOrEmpty
      /\ Widened(p) \in FullOrEmpty /\ Widened(c) \in FullOrEmpty
      /\ Widened(LeftShift(rn, 16)) \in FullOrEmpty /\ crc \in FullOrEmpty
  BY ShiftedInt, NumberAndCrc
<1>3. Widened(k) \cup Widened(b) \cup Widened(p) \cup Widened(c)
        \cup Widened(LeftShift(rn, 16)) \cup crc \in FullOrEmpty
  BY ONLY <1>2, Together
<1> QED
  BY <1>1, <1>3

LEMMA WriteIsFullOrEmpty ==
  ASSUME NEW mem_bank, NEW word_ptr, NEW data, NEW rn \in SUBSET Bits(16),
         NEW crc \in SUBSET Bits(16), NEW cmd \in write_build(mem_bank, word_ptr, data, rn, crc)
  PROVE  \E d \in FullOrEmpty : cmd = command(d, 58)
<1>1. PICK k \in IntShifts(WRITE_COMMAND, 49), b \in IntShifts(mem_bank, 47),
           p \in IntShifts(word_ptr, 39), c \in IntShifts(data, 32) :
        cmd = command(Widened(k) \cup Widened(b) \cup Widened(p) \cup Widened(c)
                        \cup Widened(LeftShift(rn, 16)) \cup crc, 58)
  BY DEF write_build, WRITE_SIZE
<1>2. /\ Widened(k) \in FullOrEmpty /\ Widened(b) \in FullOrEmpty
      /\ Widened(p) \in FullOrEmpty /\ Widened(c) \in FullOrEmpty
      /\ Widened(LeftShift(rn, 16)) \in FullOrEmpty /\ crc \in FullOrEmpty
  BY ShiftedInt, NumberAndCrc
<1>3. Widened(k) \cup Widened(b) \cup Widened(p) \cup Widened(c)
        \cup Widened(LeftShift(rn, 16)) \cup crc \in FullOrEmpty
  BY ONLY <1>2, Together
<1> QED
  BY <1>1, <1>3

LEMMA SelectIsFullOrEmpty ==
  ASSUME NEW target, NEW action, NEW mem_bank, NEW pointer \in SUBSET Bits(8),
         NEW length \in SUBSET Bits(8), NEW mask \in SUBSET Bits(8),
         NEW truncate \in SUBSET Bits(1), NEW crc \in SUBSET Bits(16),
         NEW cmd \in select_build(target, action, mem_bank, pointer, length, mask, truncate, crc)
  PROVE  \E d \in FullOrEmpty : cmd = command(d, 44)
<1>1. PICK k \in IntShifts(SELECT_COMMAND, 40), t \in IntShifts(target, 37),
           a \in IntShifts(action, 34), b \in IntShifts(mem_bank, 32) :
        cmd = command(Widened(k) \cup Widened(t) \cup Widened(a) \cup Widened(b)
                        \cup Widened(LeftShift(pointer, 24)) \cup LeftShift(length, 16)
                        \cup LeftShift(mask, 2) \cup LeftShift(truncate, 2) \cup crc, 44)
  BY DEF select_build, SELECT_SIZE
<1>2. /\ Widened(k) \in FullOrEmpty /\ Widened(t) \in FullOrEmpty
      /\ Widened(a) \in FullOrEmpty /\ Widened(b) \in FullOrEmpty
  BY ShiftedInt
<1>3. /\ LeftShift(pointer, 24) \in SUBSET (24 .. 24 + 8 - 1)
      /\ LeftShift(length, 16) \in SUBSET (16 .. 16 + 8 - 1)
      /\ LeftShift(mask, 2) \in SUBSET (2 .. 2 + 8 - 1)
      /\ LeftShift(truncate, 2) \in SUBSET (2 .. 2 + 1 - 1)
  BY ShiftedBits
<1>4. /\ LeftShift(pointer, 24) \in SUBSET (0 .. 31) /\ LeftShift(length, 16) \in SUBSET (0 .. 31)
      /\ LeftShift(mask, 2) \in SUBSET (0 .. 31) /\ LeftShift(truncate, 2) \in SUBSET (0 .. 31)
  BY ONLY <1>3
<1>5. crc \in SUBSET (0 .. 31)
  BY DEF Bits
<1>6. /\ Widened(LeftShift(pointer, 24)) \in FullOrEmpty /\ LeftShift(length, 16) \in FullOrEmpty
      /\ LeftShift(mask, 2) \in FullOrEmpty /\ LeftShift(truncate, 2) \in FullOrEmpty
      /\ crc \in FullOrEmpty
  BY ONLY <1>4, <1>5 DEF Widened, FullOrEmpty
<1>7. Widened(k) \cup Widened(t) \cup Widened(a) \cup Widened(b)
        \cup Widened(LeftShift(pointer, 24)) \cup LeftShift(length, 16)
        \cup LeftShift(mask, 2) \cup LeftShift(truncate, 2) \cup crc \in FullOrEmpty
  BY ONLY <1>2, <1>6, Together
<1> QED
  BY <1>1, <1>7

\* None of them is recognised, as what it is or as another, whatever the arguments, the
\* outcomes of the shifts and the table.
THEOREM ShiftedHasNoLabel ==
  ASSUME NEW d \in FullOrEmpty, NEW size \in 57 .. 60, NEW w, NEW n, NEW packages, NEW t,
         Arrived(w, n, command(d, size)), Shown(packages, w, n)
  PROVE  rfid_check_command(t, packages, n) = NoLabel
<1> DEFINE l == rfid_check_command(t, packages, n)
           p1 == packages[1]
           p2 == packages[2]
<1>1. /\ n \in {size, size + 1} /\ n \in Nat /\ w \in SUBSET Int /\ w \in SUBSET (0 .. n - 1)
      /\ \A k \in 0 .. size - 1 : k \in w <=> k \in d
  <2>1. size \in Nat
    OBVIOUS
  <2> QED
    BY <2>1, ArrivedBits
<1>2. n \in 57 .. 61
  BY <1>1
<1>3. /\ p1 \in SUBSET (0 .. 25)
      /\ p2 \in SUBSET (0 .. 25) /\ \A k \in 0 .. 25 : k \in p2 <=> k + 52 \in w
  <2>1. n >= 26 /\ n >= 52
    BY <1>2
  <2> QED
    BY <1>1, <2>1, ThreePackages
<1>4. 0 \in p2 <=> 1 \in p2
  <2>1. 52 \in d <=> 53 \in d
    BY DEF FullOrEmpty
  <2> QED
    BY <1>1, <1>3, <2>1
<1>5. 5 \in p2 /\ size \in 58 .. 60 => 0 \in p2
  <2>1. 52 \in d <=> 57 \in d
    BY DEF FullOrEmpty
  <2> QED
    BY <1>1, <1>3, <2>1
<1>6. 9 \notin p2
  BY <1>1, <1>2, <1>3
<1> HIDE DEF p1, p2
<1>7. ASSUME read_validate(packages, n) PROVE FALSE
  <2>1. Field(p2, 3, 5) \cup Low(p1, 5) = {7, 6, 1}
    BY <1>7 DEF read_validate, READ_COMMAND, p1, p2
  <2>2. \A k \in Int : k \in Field(p2, 3, 5) <=> k - 5 \in p2 /\ k - 5 \in 0 .. 3 - 1
    BY ONLY 3 \in Nat, 5 \in Nat, FieldMember
  <2>3. 5 \notin Low(p1, 5) /\ 6 \notin Low(p1, 5)
    BY DEF Low, Bits
  <2>4. 1 \in p2
    <3>1. 6 \in Field(p2, 3, 5)
      BY ONLY <2>1, <2>3
    <3> QED
      BY <2>2, <3>1
  <2>5. 0 \notin p2
    <3>1. 5 \notin Field(p2, 3, 5)
      BY ONLY <2>1
    <3> QED
      BY <2>2, <3>1
  <2> QED
    BY <1>4, <2>4, <2>5
<1>8. ASSUME kill_validate(packages, n) PROVE FALSE
  <2>1. LeftShift(p2 \cap {7, 6, 5, 3, 2, 1, 0}, 1) \cup ExtractField(p1, 1, 25) = {7, 6, 2}
    BY <1>8 DEF kill_validate, KILL_COMMAND, p1, p2
  <2>2. n \in {59, 60}
    BY <1>8 DEF kill_validate, HasSize, KILL_SIZE
  <2>3. ExtractField(p1, 1, 25) \in SUBSET (0 .. 0)
    <3>1. ExtractField(p1, 1, 25) \in SUBSET Bits(1)
      BY ONLY 1 \in Nat, 25 \in Nat, ExtractFieldType
    <3> QED
      BY <3>1 DEF Bits
  <2>4. 6 \in LeftShift(p2 \cap {7, 6, 5, 3, 2, 1, 0}, 1) /\ 1 \notin LeftShift(p2 \cap {7, 6, 5, 3, 2, 1, 0}, 1)
    BY ONLY <2>1, <2>3
  <2>5. 5 \in p2 /\ 0 \notin p2
    BY <1>3, <2>4 DEF LeftShift
  <2> QED
    BY <1>1, <1>5, <2>2, <2>5
<1>9. ASSUME write_validate(packages, n) PROVE FALSE
  <2>1. ExtractField(p2, 8, 2) = {7, 6, 1, 0}
    BY <1>9 DEF write_validate, WRITE_COMMAND, p2
  <2>2. p2 \in SUBSET Int
    BY <1>3
  <2>3. 7 \in ExtractField(p2, 8, 2) <=> 7 \in 0 .. 8 - 1 /\ 7 + 2 \in p2
    BY ONLY <2>2, 8 \in Nat, 2 \in Nat, 7 \in Int, ExtractFieldMember
  <2> QED
    BY <1>6, <2>1, <2>3
<1>10. /\ ~nak_validate(packages, n) /\ ~rn_crc_validate(t, packages, n)
       /\ ~query_adjust_validate(packages, n)
  BY <1>2 DEF nak_validate, rn_crc_validate, query_adjust_validate, HasSize, NAK_SIZE,
       RN_CRC_SIZE, QUERY_ADJUST_SIZE
<1>11. /\ l \in (Labels \ {"lock", "select"}) \cup {NoLabel}
       /\ l \notin {"ack", "nak", "query", "req_rn", "rn_crc", "kill", "query_adjust",
                    "query_rep", "read", "write", "rn16"}
  BY <1>2, <1>7, <1>8, <1>9, <1>10, LabelMeans
<1> QED
  BY <1>11 DEF Labels
=============================================================================
