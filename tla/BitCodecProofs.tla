--------------------------- MODULE BitCodecProofs ---------------------------
(***************************************************************************)
(* The bitmatrix codec for every code that is made: what schedules do, and *)
(* what encoding and decoding write.                                       *)
(***************************************************************************)
EXTENDS BitCodec, JerasureProofs

(***************************************************************************)
(* The bitmatrices.                                                        *)
(***************************************************************************)
LEMMA TableBits ==
  ASSUME NEW n \in Nat \ {0}, NEW c \in Nat \ {0}, NEW v \in Nat \ {0}, NEW mat
  PROVE  BitsFor(n, c, v, jerasure_matrix_to_bitmatrix(n, c, v, mat))
<1> DEFINE Row(r) == {e \in 0..(n * v - 1) :
                        r % v \in Nth(Doublings(Entry(mat, r \div v, e \div v), v), e % v)}
           rows == jerasure_matrix_to_bitmatrix(n, c, v, mat)
<1>1. PICK l \in Nat : l = c * v
  OBVIOUS
<1>2. rows = [j \in 1..l |-> Row(j - 1)]
  BY <1>1 DEF jerasure_matrix_to_bitmatrix, Tabulate
<1>3. \A r : Row(r) \in SUBSET Columns(n, v)
  BY DEF Columns
<1> HIDE DEF rows, Row
<1>4. rows \in Seq(SUBSET Columns(n, v)) /\ Len(rows) = l
  BY <1>2, <1>3
<1> QED BY <1>1, <1>4 DEF BitsFor, RowsOn, rows

\* A bitmatrix of a row of unit matrices and a row of the blocks B[j, l]
TwoRowsOf(n, v, B, rows) ==
  rows = [i \in 1..(2 * v) |->
            IF i - 1 < v THEN {j * v + (i - 1) : j \in 0..(n - 1)}
            ELSE UNION {Shifted(B[<<j, (i - 1) - v>>], j * v) : j \in 0..(n - 1)}]

BlocksFor(n, v) == [(0..(n - 1)) \X (0..(v - 1)) -> (SUBSET (0..(v - 1))) \ {{}}]

PromisedRows(n, c, v, rows) ==
  /\ \A r \in 0..(c * v - 1) : Nth(rows, r) # {}
  /\ \A r \in 0..(v - 1) : Nth(rows, r) = {j * v + r : j \in 0..(n - 1)}

LEMMA TwoRowsRight ==
  ASSUME NEW n \in Nat \ {0}, NEW v \in Nat \ {0}, NEW B \in BlocksFor(n, v), NEW rows,
         TwoRowsOf(n, v, B, rows)
  PROVE  BitsFor(n, 2, v, rows) /\ PromisedRows(n, 2, v, rows)
<1> DEFINE First(r) == {j * v + r : j \in 0..(n - 1)}
           Second(l) == UNION {Shifted(B[<<j, l>>], j * v) : j \in 0..(n - 1)}
<1>1. rows = [i \in 1..(2 * v) |-> IF i - 1 < v THEN First(i - 1) ELSE Second((i - 1) - v)]
  BY DEF TwoRowsOf
<1>2. ASSUME NEW r \in 0..(v - 1) PROVE First(r) \in SUBSET Columns(n, v) /\ First(r) # {}
  <2>1. \A j \in 0..(n - 1) : j * v + r \in Columns(n, v)
    BY ColumnFacts
  <2>2. 0 \in 0..(n - 1)
    OBVIOUS
  <2> QED BY <2>1, <2>2
<1>3. ASSUME NEW l \in 0..(v - 1) PROVE Second(l) \in SUBSET Columns(n, v) /\ Second(l) # {}
  <2>1. ASSUME NEW j \in 0..(n - 1)
        PROVE  /\ Shifted(B[<<j, l>>], j * v) \in SUBSET Columns(n, v)
               /\ Shifted(B[<<j, l>>], j * v) # {}
    <3>1. B[<<j, l>>] \in (SUBSET (0..(v - 1))) \ {{}}
      BY DEF BlocksFor
    <3> DEFINE S == B[<<j, l>>]
    <3> HIDE DEF S
    <3>2. S # {} /\ \A b \in S : b \in 0..(v - 1)
      BY <3>1 DEF S
    <3>3. ASSUME NEW b \in S PROVE b + j * v \in Columns(n, v)
      <4>1. b \in 0..(v - 1)
        BY <3>2
      <4>2. j * v + b \in Columns(n, v)
        BY <4>1, ColumnFacts
      <4>3. j * v + b = b + j * v
        BY <4>1
      <4> QED BY <4>2, <4>3
    <3>4. Shifted(S, j * v) \in SUBSET Columns(n, v) /\ Shifted(S, j * v) # {}
      BY <3>2, <3>3 DEF Shifted
    <3> QED BY <3>4 DEF S
  <2> DEFINE T(j) == Shifted(B[<<j, l>>], j * v)
  <2>2. \A j \in 0..(n - 1) : T(j) \in SUBSET Columns(n, v) /\ T(j) # {}
    BY <2>1
  <2>3. Second(l) = UNION {T(j) : j \in 0..(n - 1)}
    OBVIOUS
  <2>4. 0 \in 0..(n - 1)
    OBVIOUS
  <2> HIDE DEF T, Second
  <2>5. Second(l) \in SUBSET Columns(n, v)
    BY <2>2, <2>3
  <2>6. PICK x : x \in T(0)
    BY <2>2, <2>4
  <2>7. x \in Second(l)
    BY <2>3, <2>4, <2>6
  <2> QED BY <2>5, <2>7
<1> HIDE DEF First, Second
<1>4. \A i \in 1..(2 * v) : IF i - 1 < v THEN i - 1 \in 0..(v - 1) ELSE (i - 1) - v \in 0..(v - 1)
  OBVIOUS
<1>5. rows \in Seq(SUBSET Columns(n, v)) /\ Len(rows) = 2 * v
  <2>1. PICK l \in Nat : l = 2 * v
    OBVIOUS
  <2>2. rows \in [1..(2 * v) -> SUBSET Columns(n, v)]
    BY <1>1, <1>2, <1>3, <1>4
  <2>3. rows \in [1..l -> SUBSET Columns(n, v)]
    BY <2>1, <2>2
  <2>4. rows \in Seq(SUBSET Columns(n, v)) /\ Len(rows) = l
    BY <2>3
  <2> QED BY <2>1, <2>4
<1>6. \A r \in 0..(2 * v - 1) : r + 1 \in 1..(2 * v) /\ (r + 1) - 1 = r
  OBVIOUS
<1>7. \A r \in 0..(2 * v - 1) : Nth(rows, r) # {}
  BY <1>1, <1>2, <1>3, <1>4, <1>6 DEF Nth
<1>8. \A r \in 0..(v - 1) : Nth(rows, r) = First(r)
  <2>1. \A r \in 0..(v - 1) : r \in 0..(2 * v - 1) /\ r < v
    OBVIOUS
  <2> QED BY <1>1, <1>6, <2>1 DEF Nth
<1> QED BY <1>5, <1>7, <1>8 DEF BitsFor, RowsOn, PromisedRows, First

LEMMA LiberationRight ==
  ASSUME NEW n \in Nat \ {0}, NEW v \in Nat \ {0}, liberation_coding_bitmatrix(n, v) # NoMatrix
  PROVE  \E B \in BlocksFor(n, v) : TwoRowsOf(n, v, B, liberation_coding_bitmatrix(n, v))
<1> DEFINE rows == liberation_coding_bitmatrix(n, v)
           Block(j, l) == LiberationBlock(v, j, l)
           B == [x \in (0..(n - 1)) \X (0..(v - 1)) |-> Block(x[1], x[2])]
           Row(r) == IF r < v THEN {j * v + r : j \in 0..(n - 1)}
                     ELSE UNION {Shifted(Block(j, r - v), j * v) : j \in 0..(n - 1)}
<1>1. 2 * v \in Nat
  OBVIOUS
<1>2. rows = [i \in 1..(2 * v) |-> Row(i - 1)]
  <2>1. rows = SubSeq([i \in 1..(2 * v) |-> Row(i - 1)], 1, 2 * v)
    BY DEF liberation_coding_bitmatrix, TwoRows, Tabulate
  <2> HIDE DEF rows, Row
  <2> QED BY <1>1, <2>1
<1>3. ASSUME NEW j \in 0..(n - 1), NEW l \in 0..(v - 1)
      PROVE  Block(j, l) \in (SUBSET (0..(v - 1))) \ {{}}
  <2>1. (j + l) % v \in 0..(v - 1)
    OBVIOUS
  <2>2. j > 0 => (l + j - 1) % v \in 0..(v - 1)
    OBVIOUS
  <2> QED BY <2>1, <2>2 DEF LiberationBlock
<1> HIDE DEF rows, Block
<1>4. B \in BlocksFor(n, v)
  BY <1>3 DEF BlocksFor
<1>5. ASSUME NEW i \in 1..(2 * v)
      PROVE  Row(i - 1) = IF i - 1 < v THEN {j * v + (i - 1) : j \in 0..(n - 1)}
                          ELSE UNION {Shifted(B[<<j, (i - 1) - v>>], j * v) : j \in 0..(n - 1)}
  <2>1. CASE i - 1 < v
    BY <2>1
  <2>2. CASE ~(i - 1 < v)
    <3>1. PICK l \in 0..(v - 1) : l = (i - 1) - v
      BY <2>2
    <3>2. \A j \in 0..(n - 1) : B[<<j, l>>] = Block(j, l)
      OBVIOUS
    <3> HIDE DEF B
    <3>3. \A j \in 0..(n - 1) : Shifted(B[<<j, l>>], j * v) = Shifted(Block(j, l), j * v)
      BY <3>2
    <3>4. UNION {Shifted(B[<<j, l>>], j * v) : j \in 0..(n - 1)}
            = UNION {Shifted(Block(j, l), j * v) : j \in 0..(n - 1)}
      BY <3>3
    <3> QED BY <2>2, <3>1, <3>4
  <2> QED BY <2>1, <2>2
<1> HIDE DEF B, Row
<1>6. TwoRowsOf(n, v, B, rows)
  BY <1>2, <1>5 DEF TwoRowsOf
<1> QED BY <1>4, <1>6 DEF rows

LEMMA BlaumRothRight ==
  ASSUME NEW n \in Nat \ {0}, NEW v \in Nat \ {0}, blaum_roth_coding_bitmatrix(n, v) # NoMatrix
  PROVE  \E B \in BlocksFor(n, v) : TwoRowsOf(n, v, B, blaum_roth_coding_bitmatrix(n, v))
<1> DEFINE rows == blaum_roth_coding_bitmatrix(n, v)
           Block(j, l) == BlaumRothBlock(v, j, l)
           B == [x \in (0..(n - 1)) \X (0..(v - 1)) |-> Block(x[1], x[2])]
           Row(r) == IF r < v THEN {j * v + r : j \in 0..(n - 1)}
                     ELSE UNION {Shifted(Block(j, r - v), j * v) : j \in 0..(n - 1)}
<1>1. 2 * v \in Nat
  OBVIOUS
<1>2. rows = [i \in 1..(2 * v) |-> Row(i - 1)]
  <2>1. rows = SubSeq([i \in 1..(2 * v) |-> Row(i - 1)], 1, 2 * v)
    BY DEF blaum_roth_coding_bitmatrix, TwoRows, Tabulate
  <2> HIDE DEF rows, Row
  <2> QED BY <1>1, <2>1
<1>3. ASSUME NEW j \in 0..(n - 1), NEW l \in 0..(v - 1)
      PROVE  Block(j, l) \in (SUBSET (0..(v - 1))) \ {{}}
  <2>1. n <= v
    BY DEF blaum_roth_coding_bitmatrix, TwoRows, Tabulate
  <2> HIDE DEF rows
  <2>2. CASE j = 0
    BY <2>2 DEF BlaumRothBlock
  <2>3. CASE j > 0 /\ l + 1 # v + 1 - j
    <3>1. ((l + 1 + j) % (v + 1)) - 1 \in 0..(v - 1)
      <4>1. l + 1 + j \in 1..(2 * v) /\ l + 1 + j # v + 1
        BY <2>1, <2>3
      <4>2. CASE l + 1 + j < v + 1
        <5>1. (l + 1 + j) % (v + 1) = l + 1 + j
          BY <4>1, <4>2
        <5> QED BY <4>2, <5>1
      <4>3. CASE l + 1 + j > v + 1
        <5>1. l + 1 + j - (v + 1) \in 1..(v - 1)
          BY <4>1, <4>3
        <5>2. PICK a \in 1..(v - 1) : l + 1 + j = 1 * (v + 1) + a
          BY <5>1
        <5>3. (1 * (v + 1) + a) % (v + 1) = a
          <6>1. v + 1 \in Nat \ {0} /\ 1 \in Nat /\ a \in 0..((v + 1) - 1)
            OBVIOUS
          <6> QED BY <6>1, DivMod
        <5>4. (l + 1 + j) % (v + 1) = a
          BY <5>2, <5>3
        <5> QED BY <5>4
      <4> QED BY <4>1, <4>2, <4>3
    <3> QED BY <2>3, <3>1 DEF BlaumRothBlock
  <2>4. CASE j > 0 /\ l + 1 = v + 1 - j
    <3> DEFINE half == IF j % 2 = 0 THEN j \div 2 ELSE (v + 1) \div 2 + 1 + j \div 2
    <3>1. half - 1 \in 0..(v - 1)
      BY <2>1, <2>4
    <3>2. j - 1 \in 0..(v - 1)
      BY <2>1, <2>4
    <3>3. Block(j, l) = {j - 1, half - 1}
      BY <2>4 DEF BlaumRothBlock
    <3> HIDE DEF half, Block
    <3> QED BY <3>1, <3>2, <3>3
  <2> QED BY <2>2, <2>3, <2>4
<1> HIDE DEF rows, Block
<1>4. B \in BlocksFor(n, v)
  BY <1>3 DEF BlocksFor
<1>5. ASSUME NEW i \in 1..(2 * v)
      PROVE  Row(i - 1) = IF i - 1 < v THEN {j * v + (i - 1) : j \in 0..(n - 1)}
                          ELSE UNION {Shifted(B[<<j, (i - 1) - v>>], j * v) : j \in 0..(n - 1)}
  <2>1. CASE i - 1 < v
    BY <2>1
  <2>2. CASE ~(i - 1 < v)
    <3>1. PICK l \in 0..(v - 1) : l = (i - 1) - v
      BY <2>2
    <3>2. \A j \in 0..(n - 1) : B[<<j, l>>] = Block(j, l)
      OBVIOUS
    <3> HIDE DEF B
    <3>3. \A j \in 0..(n - 1) : Shifted(B[<<j, l>>], j * v) = Shifted(Block(j, l), j * v)
      BY <3>2
    <3>4. UNION {Shifted(B[<<j, l>>], j * v) : j \in 0..(n - 1)}
            = UNION {Shifted(Block(j, l), j * v) : j \in 0..(n - 1)}
      BY <3>3
    <3> QED BY <2>2, <3>1, <3>4
  <2> QED BY <2>1, <2>2
<1> HIDE DEF B, Row
<1>6. TwoRowsOf(n, v, B, rows)
  BY <1>2, <1>5 DEF TwoRowsOf
<1> QED BY <1>4, <1>6 DEF rows
LEMMA ColumnTable ==
  /\ \A j, l \in 1..8 : liber8tion_columns[j][l] \in 0..7
  /\ \A j \in 1..8 : liber8tion_extra[j][2] \in 0..7
<1>1. ASSUME NEW j \in 1..8, NEW l \in 1..8 PROVE liber8tion_columns[j][l] \in 0..7
  <2>1. \A r \in {liber8tion_columns[i] : i \in 1..8} : r[l] \in 0..7
    BY DEF liber8tion_columns
  <2> QED BY <2>1
<1>2. ASSUME NEW j \in 1..8 PROVE liber8tion_extra[j][2] \in 0..7
  BY DEF liber8tion_extra
<1> QED BY <1>1, <1>2

LEMMA Liber8tionRight ==
  ASSUME NEW n \in Nat \ {0}, NEW v \in Nat, v = 8,
         liber8tion_coding_bitmatrix(n) # NoMatrix
  PROVE  \E B \in BlocksFor(n, v) : TwoRowsOf(n, v, B, liber8tion_coding_bitmatrix(n))
<1> DEFINE rows == liber8tion_coding_bitmatrix(n)
           Block(j, l) ==
             {Nth(Nth(liber8tion_columns, j), l)} \cup
               (IF l = Nth(liber8tion_extra, j)[1] THEN {Nth(liber8tion_extra, j)[2]} ELSE {})
           B == [x \in (0..(n - 1)) \X (0..(v - 1)) |-> Block(x[1], x[2])]
           Row(r) == IF r < v THEN {j * v + r : j \in 0..(n - 1)}
                     ELSE UNION {Shifted(Block(j, r - v), j * v) : j \in 0..(n - 1)}
<1>1. 2 * v \in Nat
  OBVIOUS
<1>2. rows = [i \in 1..(2 * v) |-> Row(i - 1)]
  <2>1. rows = SubSeq([i \in 1..(2 * v) |-> Row(i - 1)], 1, 2 * v)
    BY DEF liber8tion_coding_bitmatrix, TwoRows, Tabulate
  <2> HIDE DEF rows, Row
  <2> QED BY <1>1, <2>1
<1>3. ASSUME NEW j \in 0..(n - 1), NEW l \in 0..(v - 1)
      PROVE  Block(j, l) \in (SUBSET (0..(v - 1))) \ {{}}
  <2>1. n <= 8
    BY DEF liber8tion_coding_bitmatrix, TwoRows, Tabulate
  <2>2. j + 1 \in 1..8 /\ l + 1 \in 1..8
    BY <2>1
  <2>3. liber8tion_columns[j + 1][l + 1] \in 0..7
    BY <2>2, ColumnTable
  <2>4. liber8tion_extra[j + 1][2] \in 0..7
    BY <2>2, ColumnTable
  <2>5. 0..(v - 1) = 0..7
    OBVIOUS
  <2> QED BY <2>3, <2>4, <2>5 DEF Nth
<1> HIDE DEF rows, Block
<1>4. B \in BlocksFor(n, v)
  BY <1>3 DEF BlocksFor
<1>5. ASSUME NEW i \in 1..(2 * v)
      PROVE  Row(i - 1) = IF i - 1 < v THEN {j * v + (i - 1) : j \in 0..(n - 1)}
                          ELSE UNION {Shifted(B[<<j, (i - 1) - v>>], j * v) : j \in 0..(n - 1)}
  <2>1. CASE i - 1 < v
    BY <2>1
  <2>2. CASE ~(i - 1 < v)
    <3>1. PICK l \in 0..(v - 1) : l = (i - 1) - v
      BY <2>2
    <3>2. \A j \in 0..(n - 1) : B[<<j, l>>] = Block(j, l)
      OBVIOUS
    <3> HIDE DEF B
    <3>3. \A j \in 0..(n - 1) : Shifted(B[<<j, l>>], j * v) = Shifted(Block(j, l), j * v)
      BY <3>2
    <3>4. UNION {Shifted(B[<<j, l>>], j * v) : j \in 0..(n - 1)}
            = UNION {Shifted(Block(j, l), j * v) : j \in 0..(n - 1)}
      BY <3>3
    <3> QED BY <2>2, <3>1, <3>4
  <2> QED BY <2>1, <2>2
<1> HIDE DEF B, Row
<1>6. TwoRowsOf(n, v, B, rows)
  BY <1>2, <1>5 DEF TwoRowsOf
<1> QED BY <1>4, <1>6 DEF rows

\* A shape of code, with the things that its maker gets
Shaped(s) ==
  /\ s[2] \in Nat \ {0} /\ s[3] \in Nat \ {0} /\ s[4] \in Nat \ {0} /\ s[5] \in Nat \ {0}
  /\ s[6] \in Nat

LEMMA ShapeFacts ==
  ASSUME NEW s \in Shapes \cup MatrixShapes
  PROVE  Shaped(s) /\ s[1] \in Makers
<1>1. s \in Makers \X (Nat \ {0}) \X (Nat \ {0}) \X (Nat \ {0}) \X (Nat \ {0}) \X Nat
  BY BitCodecAssumption
<1> QED BY <1>1 DEF Shaped

\* Every bitmatrix has a row for each packet of each coding drive, made of packets
\* of the data drives.
LEMMA MadeRight ==
  ASSUME NEW s \in Shapes \cup MatrixShapes, Made(s) # NoMatrix
  PROVE  /\ BitsFor(s[2], s[3], s[4], Made(s))
         /\ s[1] \notin {"original", "good"} => RowsNotEmpty(s)
<1>1. PICK n \in Nat \ {0}, c \in Nat \ {0}, v \in Nat \ {0} : n = s[2] /\ c = s[3] /\ v = s[4]
  BY ShapeFacts DEF Shaped
<1>2. s[1] \in Makers
  BY ShapeFacts
<1>3. ASSUME c = 2, NEW rows, Made(s) = rows, \E B \in BlocksFor(n, v) : TwoRowsOf(n, v, B, rows)
      PROVE  BitsFor(n, c, v, Made(s)) /\ RowsNotEmpty(s)
  <2>1. BitsFor(n, 2, v, rows) /\ PromisedRows(n, 2, v, rows)
    <3>1. PICK B \in BlocksFor(n, v) : TwoRowsOf(n, v, B, rows)
      BY <1>3
    <3> QED BY <3>1, TwoRowsRight
  <2>2. RowsNotEmpty(s)
    BY <1>1, <1>3, <2>1 DEF RowsNotEmpty, PromisedRows
  <2> QED BY <1>3, <2>1, <2>2
<1>4. ASSUME NEW mat, Made(s) = BitsOf(s, mat) PROVE BitsFor(n, c, v, Made(s))
  <2>1. Made(s) = jerasure_matrix_to_bitmatrix(n, c, v, mat)
    BY <1>1, <1>4 DEF BitsOf
  <2> QED BY <2>1, TableBits
<1>5. CASE s[1] = "liberation"
  <2>1. c = 2 /\ Made(s) = liberation_coding_bitmatrix(n, v)
    BY <1>1, <1>5, BitCodecAssumption DEF Made
  <2>2. \E B \in BlocksFor(n, v) : TwoRowsOf(n, v, B, Made(s))
    BY <2>1, LiberationRight
  <2> QED BY <1>1, <1>3, <2>1, <2>2
<1>6. CASE s[1] = "liber8tion"
  <2>1. c = 2 /\ v = 8 /\ Made(s) = liber8tion_coding_bitmatrix(n)
    BY <1>1, <1>6, BitCodecAssumption DEF Made
  <2>2. \E B \in BlocksFor(n, v) : TwoRowsOf(n, v, B, Made(s))
    BY <2>1, Liber8tionRight
  <2> QED BY <1>1, <1>3, <2>1, <2>2
<1>7. CASE s[1] = "blaum_roth"
  <2>1. c = 2 /\ Made(s) = blaum_roth_coding_bitmatrix(n, v)
    BY <1>1, <1>7, BitCodecAssumption DEF Made
  <2>2. \E B \in BlocksFor(n, v) : TwoRowsOf(n, v, B, Made(s))
    BY <2>1, BlaumRothRight
  <2> QED BY <1>1, <1>3, <2>1, <2>2
<1>8. CASE s[1] = "original"
  <2>1. Made(s) = BitsOf(s, cauchy_original_coding_matrix(s[2], s[3], s[4]))
    BY <1>8 DEF Made
  <2> QED BY <1>1, <1>4, <1>8, <2>1
<1>9. CASE s[1] = "good"
  <2>1. Made(s) = BitsOf(s, cauchy_good_general_coding_matrix(s[2], s[3], s[4]))
    BY <1>9 DEF Made
  <2> QED BY <1>1, <1>4, <1>9, <2>1
<1> QED BY <1>2, <1>5, <1>6, <1>7, <1>8, <1>9 DEF Makers

LEMMA MadeForShapes ==
  ASSUME NEW s \in Shapes, Made(s) # NoMatrix
  PROVE  RowsNotEmpty(s) /\ s[6] < s[4]
<1>1. s \in Shapes \cup MatrixShapes
  OBVIOUS
<1>2. s[1] \notin {"original", "good"} => RowsNotEmpty(s)
  BY <1>1, MadeRight
<1> QED BY <1>2, BitCodecAssumption
-----------------------------------------------------------------------------
(***************************************************************************)
(* Lists of erasures.                                                      *)
(***************************************************************************)
NamedIn(list) == {list[n] : n \in DOMAIN list}

\* The same list from its end
Reversed(a) == [j \in 1..Len(a) |-> a[Len(a) + 1 - j]]

LEMMA ReversedRight ==
  ASSUME NEW S, NEW a \in Seq(S)
  PROVE  /\ Reversed(a) \in Seq(S) /\ Len(Reversed(a)) = Len(a)
         /\ NamedIn(Reversed(a)) = NamedIn(a)
<1>1. PICK n \in Nat : n = Len(a)
  OBVIOUS
<1>2. \A j \in 1..n : (n + 1) - j \in 1..n /\ (n + 1) - ((n + 1) - j) = j
  OBVIOUS
<1>3. a \in [1..n -> S] /\ DOMAIN a = 1..n
  BY <1>1
<1> DEFINE b == Reversed(a)
<1>4. b = [j \in 1..n |-> a[(n + 1) - j]]
  BY <1>1 DEF Reversed
<1> HIDE DEF b
<1>5. b \in [1..n -> S] /\ DOMAIN b = 1..n
  BY <1>2, <1>3, <1>4
<1>6. b \in Seq(S) /\ Len(b) = n
  BY <1>5
<1>7. \A j \in 1..n : b[j] = a[(n + 1) - j] /\ a[j] = b[(n + 1) - j]
  BY <1>2, <1>4
<1>8. \A x : x \in NamedIn(b) <=> x \in NamedIn(a)
  BY <1>2, <1>3, <1>5, <1>7 DEF NamedIn
<1> QED BY <1>1, <1>6, <1>8 DEF b

LEMMA AscendsNames ==
  ASSUME NEW a, NEW T, Ascends(a, T)
  PROVE  a \in Seq(T) /\ NamedIn(a) = T
<1>1. /\ Len(a) \in Nat /\ DOMAIN a = 1..Len(a)
      /\ \A j \in 1..Len(a) : a[j] \in T
      /\ \A t \in T : \E j \in 1..Len(a) : a[j] = t
  BY AscendsFacts
<1>2. a \in Seq(Nat)
  BY DEF Ascends
<1>3. a \in Seq(T)
  BY <1>1, <1>2
<1> QED BY <1>1, <1>3 DEF NamedIn

LEMMA ListsRight ==
  ASSUME NEW n \in Nat, NEW S \in SUBSET (0..(n - 1)), NEW up, up = Ascending(S, n),
         NEW list, list = up \/ list = [j \in 1..Len(up) |-> Nth(up, Len(up) - 1 - (j - 1))]
  PROVE  list \in Seq(S) /\ NamedIn(list) = S /\ Len(list) = Cardinality(S)
<1>1. Ascends(up, S)
  BY AscendingRight
<1>2. up \in Seq(S) /\ NamedIn(up) = S
  BY <1>1, AscendsNames
<1>3. PICK l \in Nat : l = Len(up)
  BY <1>2
<1>4. [j \in 1..Len(up) |-> Nth(up, Len(up) - 1 - (j - 1))] = Reversed(up)
  <2>1. \A j \in 1..l : (l - 1 - (j - 1)) + 1 = (l + 1) - j
    OBVIOUS
  <2>2. \A j \in 1..l : Nth(up, l - 1 - (j - 1)) = up[(l + 1) - j]
    BY <2>1 DEF Nth
  <2> QED BY <1>3, <2>2 DEF Reversed
<1>5. /\ Reversed(up) \in Seq(S) /\ Len(Reversed(up)) = Len(up)
      /\ NamedIn(Reversed(up)) = NamedIn(up)
  BY <1>2, ReversedRight
<1>6. Len(up) = Cardinality(S)
  BY <1>1 DEF Ascends
<1> QED BY <1>2, <1>4, <1>5, <1>6

\* What the list for a schedule is turned into
LEMMA ErasedFacts ==
  ASSUME NEW n \in Nat, NEW c \in Nat, NEW list \in Seq(0..(n + c - 1))
  PROVE  LET erased == jerasure_erasures_to_erased(n, c, list)
         IN  /\ erased.ids = NamedIn(list)
             /\ erased.ok <=> Cardinality(NamedIn(list)) <= c
             /\ erased.ok => LossOf(n, c, NamedIn(list))
             /\ NamedIn(list) \in SUBSET (0..(n + c - 1)) /\ IsFiniteSet(NamedIn(list))
             /\ Cardinality(NamedIn(list)) \in Nat
<1> DEFINE S == NamedIn(list)
<1>1. S \in SUBSET (0..(n + c - 1))
  BY DEF NamedIn
<1>2. IsFiniteSet(S)
  <2>1. IsFiniteSet(0..(n + c - 1))
    BY FS_Interval
  <2> QED BY <1>1, <2>1, FS_Subset
<1>3. Cardinality(S) \in Nat
  BY <1>2, FS_CardinalityType
<1>4. /\ jerasure_erasures_to_erased(n, c, list).ids = S
      /\ jerasure_erasures_to_erased(n, c, list).ok <=> n + c - Cardinality(S) >= n
  BY DEF jerasure_erasures_to_erased, NamedIn
<1> HIDE DEF S
<1>5. n + c - Cardinality(S) >= n <=> Cardinality(S) <= c
  BY <1>3
<1> QED BY <1>1, <1>2, <1>3, <1>4, <1>5 DEF LossOf, S
-----------------------------------------------------------------------------
(***************************************************************************)
(* Schedules are in order.                                                 *)
(***************************************************************************)
SameRow(n, v, a, q, b, r) == (a - n) * v + q = (b - n) * v + r

LEMMA SameRowFacts ==
  ASSUME NEW n \in Nat, NEW v \in Nat \ {0}, NEW a \in Nat, NEW b \in Nat, a >= n, b >= n,
         NEW q \in 0..(v - 1), NEW r \in 0..(v - 1)
  PROVE  SameRow(n, v, a, q, b, r) <=> a = b /\ q = r
<1>1. PICK x \in Nat, y \in Nat : x = a - n /\ y = b - n
  BY a - n \in Nat, b - n \in Nat
<1>2. /\ (x * v + q) \div v = x /\ (x * v + q) % v = q
      /\ (y * v + r) \div v = y /\ (y * v + r) % v = r
  BY DivMod
<1>3. x = y <=> a = b
  BY <1>1
<1>4. x * v + q = y * v + r <=> x = y /\ q = r
  BY <1>2
<1> QED BY <1>1, <1>3, <1>4 DEF SameRow

OrderOf(n, ops, i) ==
  /\ ops[i][3] >= n
  /\ ops[i][5] = 0 <=> \A j \in 1..(i - 1) : <<ops[j][3], ops[j][4]>> # <<ops[i][3], ops[i][4]>>
  /\ ops[i][1] >= n =>
       /\ \E j \in 1..(i - 1) : <<ops[j][3], ops[j][4]>> = <<ops[i][1], ops[i][2]>>
       /\ \A j \in i..Len(ops) : <<ops[j][3], ops[j][4]>> # <<ops[i][1], ops[i][2]>>

LEMMA SoundInOrder ==
  ASSUME NEW n \in Nat, NEW v \in Nat \ {0}, NEW rows, RowsOn(n, v, rows), NEW c \in Nat,
         Len(rows) = c * v, NEW ops, Sound(n, v, rows, ops, AllRows(rows))
  PROVE  /\ DOMAIN ops = 1..Len(ops)
         /\ \A i \in 1..Len(ops) : OrderOf(n, ops, i)
         /\ Len(ops) <= n * c * v * v
<1>1. ops \in Seq(Operations(v)) /\ DOMAIN ops = 1..Len(ops) /\ Len(ops) \in Nat
  BY DEF Sound
<1>2. \A i \in 1..Len(ops) : /\ ops[i][1] \in Nat /\ ops[i][2] \in 0..(v - 1)
                             /\ ops[i][3] \in Nat /\ ops[i][4] \in 0..(v - 1)
  <2>1. \A i \in 1..Len(ops) : ops[i] \in Operations(v)
    BY <1>1
  <2> QED BY <2>1, OperationFields
<1>3. \A i \in 1..Len(ops) : InTurn(n, v, ops, i, AllRows(rows)) /\ ops[i][3] >= n
  BY DEF Sound, InTurn
<1>4. \A i, j \in 1..Len(ops) :
        RowOf(n, v, ops[j]) = RowOf(n, v, ops[i])
          <=> ops[j][3] = ops[i][3] /\ ops[j][4] = ops[i][4]
  <2>1. ASSUME NEW i \in 1..Len(ops), NEW j \in 1..Len(ops)
        PROVE  RowOf(n, v, ops[j]) = RowOf(n, v, ops[i])
                 <=> ops[j][3] = ops[i][3] /\ ops[j][4] = ops[i][4]
    <3>1. PICK a \in Nat, b \in Nat, q \in 0..(v - 1), r \in 0..(v - 1) :
            a = ops[j][3] /\ q = ops[j][4] /\ b = ops[i][3] /\ r = ops[i][4]
      BY <1>2
    <3>2. a >= n /\ b >= n
      BY <1>3, <3>1
    <3>3. SameRow(n, v, a, q, b, r) <=> a = b /\ q = r
      BY <3>2, SameRowFacts
    <3> QED BY <3>1, <3>3 DEF SameRow, RowOf
  <2> QED BY <2>1
<1>5. ASSUME NEW i \in 1..Len(ops), ops[i][1] >= n, NEW j \in 1..Len(ops)
      PROVE  RowOf(n, v, ops[j]) = OriginOf(n, v, ops[i])
               <=> ops[j][3] = ops[i][1] /\ ops[j][4] = ops[i][2]
  <2>1. PICK a \in Nat, b \in Nat, q \in 0..(v - 1), r \in 0..(v - 1) :
          a = ops[j][3] /\ q = ops[j][4] /\ b = ops[i][1] /\ r = ops[i][2]
    BY <1>2
  <2>2. a >= n /\ b >= n
    BY <1>3, <1>5, <2>1
  <2>3. SameRow(n, v, a, q, b, r) <=> a = b /\ q = r
    BY <2>2, SameRowFacts
  <2> QED BY <2>1, <2>3 DEF SameRow, RowOf, OriginOf
<1>6. ASSUME NEW i \in 1..Len(ops) PROVE OrderOf(n, ops, i)
  <2>1. InTurn(n, v, ops, i, AllRows(rows)) /\ ops[i][3] >= n
    BY <1>3
  <2>2. (\A j \in 1..(i - 1) : j \in 1..Len(ops)) /\ (\A j \in i..Len(ops) : j \in 1..Len(ops))
    BY <1>1
  <2>3. ops[i][5] = 0 <=> \A j \in 1..(i - 1) :
                            <<ops[j][3], ops[j][4]>> # <<ops[i][3], ops[i][4]>>
    <3>1. \A j \in 1..(i - 1) : RowOf(n, v, ops[j]) # RowOf(n, v, ops[i])
                                  <=> <<ops[j][3], ops[j][4]>> # <<ops[i][3], ops[i][4]>>
      BY <1>4, <2>2
    <3> QED BY <2>1, <3>1 DEF InTurn
  <2>4. ASSUME ops[i][1] >= n
        PROVE  /\ \E j \in 1..(i - 1) : <<ops[j][3], ops[j][4]>> = <<ops[i][1], ops[i][2]>>
               /\ \A j \in i..Len(ops) : <<ops[j][3], ops[j][4]>> # <<ops[i][1], ops[i][2]>>
    <3>1. \A j \in 1..Len(ops) : RowOf(n, v, ops[j]) = OriginOf(n, v, ops[i])
                                  <=> <<ops[j][3], ops[j][4]>> = <<ops[i][1], ops[i][2]>>
      BY <1>5, <2>4
    <3>2. PICK j \in 1..(i - 1) : RowOf(n, v, ops[j]) = OriginOf(n, v, ops[i])
      BY <2>1, <2>4 DEF InTurn
    <3>3. \A l \in i..Len(ops) : RowOf(n, v, ops[l]) # OriginOf(n, v, ops[i])
      BY <2>1, <2>4 DEF InTurn
    <3> QED BY <2>2, <3>1, <3>2, <3>3
  <2> QED BY <2>1, <2>3, <2>4 DEF OrderOf
<1>7. Len(ops) <= n * c * v * v
  <2>1. PICK l \in Nat : l = c * v
    OBVIOUS
  <2>2. Cardinality(AllRows(rows)) = l
    <3>1. Cardinality(0..(l - 1)) = l
      BY FirstNumbers
    <3> QED BY <2>1, <3>1 DEF AllRows
  <2>3. Len(ops) <= n * v * l
    BY <2>2 DEF Sound
  <2>4. n * v * (c * v) = n * c * v * v
    OBVIOUS
  <2> QED BY <2>1, <2>3, <2>4
<1> QED BY <1>1, <1>6, <1>7

\* The rows of the drives that are lost
RowsLost(n, c, v, mat, erased) ==
  real_decoding_matrix(n, v, mat, row_ids(n, c, erased), Cardinality(LostData(n, erased)))

LEMMA PointersOf ==
  ASSUME NEW n \in Nat, NEW c \in Nat, NEW erased, LossOf(n, c, erased)
  PROVE  PointersRight(n, c, erased, row_ids(n, c, erased))
BY RowIdsRight DEF LossOf

LEMMA RowsLostRight ==
  ASSUME NEW n \in Nat, NEW c \in Nat, NEW v \in Nat \ {0}, NEW mat, BitsFor(n, c, v, mat),
         NEW erased, LossOf(n, c, erased)
  PROVE  /\ RowsAgain(n, v, mat, row_ids(n, c, erased), RowsLost(n, c, v, mat, erased),
                      Cardinality(erased))
         /\ Len(row_ids(n, c, erased)) = n + Cardinality(erased)
         /\ Cardinality(erased) \in Nat
<1>1. PointersRight(n, c, erased, row_ids(n, c, erased))
  BY PointersOf
<1>2. RowsAgain(n, v, mat, row_ids(n, c, erased), RowsLost(n, c, v, mat, erased),
                Cardinality(erased))
  BY <1>1, RealRowsRight DEF RowsLost
<1>3. /\ Cardinality(LostData(n, erased)) \in Nat /\ Cardinality(LostCoding(n, erased)) \in Nat
      /\ Len(row_ids(n, c, erased))
           = n + Cardinality(LostData(n, erased)) + Cardinality(LostCoding(n, erased))
      /\ Cardinality(erased) = Cardinality(LostData(n, erased)) + Cardinality(LostCoding(n, erased))
  BY <1>1, PointerFacts
<1> QED BY <1>2, <1>3

\* A schedule for decoding makes the rows of the drives that are lost, whether or not
\* what is left determines them.
LEMMA DecodingSchedule ==
  ASSUME NEW n \in Nat, NEW c \in Nat, NEW v \in Nat \ {0}, NEW mat, BitsFor(n, c, v, mat),
         NEW list \in Seq(0..(n + c - 1)), LossOf(n, c, NamedIn(list)), NEW smart
  PROVE  Sound(n, v, RowsLost(n, c, v, mat, NamedIn(list)),
               jerasure_generate_decoding_schedule(n, c, v, mat, list, smart),
               AllRows(RowsLost(n, c, v, mat, NamedIn(list))))
<1> DEFINE rows == RowsLost(n, c, v, mat, NamedIn(list))
<1>1. jerasure_generate_decoding_schedule(n, c, v, mat, list, smart)
        = IF smart THEN jerasure_smart_bitmatrix_to_schedule(n, v, rows)
          ELSE jerasure_dumb_bitmatrix_to_schedule(n, v, rows)
  BY DEF jerasure_generate_decoding_schedule, jerasure_erasures_to_erased, NamedIn, RowsLost,
         LostData
<1>2. RowsOn(n, v, rows)
  BY RowsLostRight DEF RowsAgain
<1> HIDE DEF rows
<1>3. /\ Sound(n, v, rows, jerasure_smart_bitmatrix_to_schedule(n, v, rows), AllRows(rows))
      /\ Sound(n, v, rows, jerasure_dumb_bitmatrix_to_schedule(n, v, rows), AllRows(rows))
  BY <1>2, SmartSchedule, DumbSound
<1> QED BY <1>1, <1>3 DEF rows
-----------------------------------------------------------------------------
(***************************************************************************)
(* The cache of schedules.                                                 *)
(***************************************************************************)
LEMMA MaxMinOfTwo ==
  ASSUME NEW a \in Nat, NEW b \in Nat, a >= b
  PROVE  Max({a, b}) = a /\ Min({a, b}) = b
<1>1. Max({a, b}) = a
  <2>1. \A x \in {a, b} : (\A y \in {a, b} : x >= y) => x = a
    OBVIOUS
  <2>2. a \in {a, b} /\ \A y \in {a, b} : a >= y
    OBVIOUS
  <2> QED BY <2>1, <2>2 DEF Max
<1>2. Min({a, b}) = b
  <2>1. \A x \in {a, b} : (\A y \in {a, b} : x <= y) => x = b
    OBVIOUS
  <2>2. b \in {a, b} /\ \A y \in {a, b} : b <= y
    OBVIOUS
  <2> QED BY <2>1, <2>2 DEF Min
<1> QED BY <1>1, <1>2

LEMMA CacheListFacts ==
  ASSUME NEW a \in Nat, NEW b \in Nat
  PROVE  /\ a >= b => CacheList(a, b) = IF a = b THEN <<a>> ELSE <<a, b>>
         /\ CacheList(a, b) = CacheList(b, a)
         /\ NamedIn(CacheList(a, b)) = {a, b}
<1>1. ASSUME a >= b PROVE CacheList(a, b) = IF a = b THEN <<a>> ELSE <<a, b>>
  BY <1>1, MaxMinOfTwo DEF CacheList
<1>2. CacheList(a, b) = CacheList(b, a)
  <2>1. {a, b} = {b, a}
    OBVIOUS
  <2> QED BY <2>1 DEF CacheList
<1>3. ASSUME b >= a PROVE CacheList(b, a) = IF b = a THEN <<b>> ELSE <<b, a>>
  BY <1>3, MaxMinOfTwo DEF CacheList
<1>4. NamedIn(<<a>>) = {a} /\ NamedIn(<<b>>) = {b}
  <2>1. DOMAIN <<a>> = {1} /\ DOMAIN <<b>> = {1}
    OBVIOUS
  <2>2. <<a>>[1] = a /\ <<b>>[1] = b
    OBVIOUS
  <2> QED BY <2>1, <2>2 DEF NamedIn
<1>5. NamedIn(<<a, b>>) = {a, b} /\ NamedIn(<<b, a>>) = {a, b}
  <2>1. DOMAIN <<a, b>> = {1, 2} /\ DOMAIN <<b, a>> = {1, 2}
    OBVIOUS
  <2>2. <<a, b>>[1] = a /\ <<a, b>>[2] = b /\ <<b, a>>[1] = b /\ <<b, a>>[2] = a
    OBVIOUS
  <2> QED BY <2>1, <2>2 DEF NamedIn
<1>6. CASE a >= b
  <2>1. a = b => {a, b} = {a}
    OBVIOUS
  <2> QED BY <1>1, <1>2, <1>4, <1>5, <1>6, <2>1
<1>7. CASE b >= a
  <2>1. a = b => {a, b} = {b}
    OBVIOUS
  <2> QED BY <1>1, <1>2, <1>3, <1>4, <1>5, <1>7, <2>1
<1> QED BY <1>6, <1>7

\* The schedule that is found for a list is one for the drives of that list.
LEMMA CachedSchedule ==
  ASSUME NEW n \in Nat, NEW c \in Nat, NEW v \in Nat \ {0}, NEW mat, BitsFor(n, c, v, mat),
         NEW list \in Seq(0..(n + c - 1)), LossOf(n, c, NamedIn(list)), NEW smart,
         Len(list) \in {1, 2}
  PROVE  Sound(n, v, RowsLost(n, c, v, mat, NamedIn(list)),
               jerasure_generate_schedule_cache(n, c, v, mat, smart)[CacheIndex(n, c, list)],
               AllRows(RowsLost(n, c, v, mat, NamedIn(list))))
<1>1. PICK p \in Nat : p = n + c
  OBVIOUS
<1>2. PICK a \in 0..(p - 1), b \in 0..(p - 1) :
        a = list[1] /\ b = IF Len(list) = 1 THEN list[1] ELSE list[2]
  <2> DEFINE D == 0..(n + c - 1)
  <2>1. list \in Seq(D) /\ D = 0..(p - 1)
    BY <1>1
  <2> HIDE DEF D
  <2>2. Len(list) \in Nat /\ \A i \in 1..Len(list) : list[i] \in D
    BY <2>1
  <2>3. CASE Len(list) = 1
    <3>1. list[1] \in D
      BY <2>2, <2>3
    <3> QED BY <2>1, <2>3, <3>1
  <2>4. CASE Len(list) = 2
    <3>1. list[1] \in D /\ list[2] \in D
      BY <2>2, <2>4
    <3> QED BY <2>1, <2>4, <3>1
  <2> QED BY <2>3, <2>4
<1>3. NamedIn(list) = {a, b}
  <2>1. CASE Len(list) = 1
    <3>1. DOMAIN list = {1}
      BY <2>1
    <3> QED BY <1>2, <2>1, <3>1 DEF NamedIn
  <2>2. CASE Len(list) = 2
    <3>1. DOMAIN list = {1, 2}
      BY <2>2
    <3> QED BY <1>2, <2>2, <3>1 DEF NamedIn
  <2> QED BY <2>1, <2>2
<1>4. PICK i \in 0..(p * p - 1) : i = a * p + b /\ i \div p = a /\ i % p = b
  <2>1. p \in Nat \ {0}
    BY <1>2
  <2>2. a * p + b \in 0..(p * p - 1)
    BY <2>1, DivModBelow
  <2>3. (a * p + b) \div p = a /\ (a * p + b) % p = b
    <3>1. a \in Nat
      OBVIOUS
    <3> QED BY <2>1, <3>1, DivMod
  <2> QED BY <2>2, <2>3
<1>5. CacheIndex(n, c, list) = i
  BY <1>1, <1>2, <1>4 DEF CacheIndex
<1>6. jerasure_generate_schedule_cache(n, c, v, mat, smart)[i]
        = jerasure_generate_decoding_schedule(n, c, v, mat, CacheList(a, b), smart)
  BY <1>1, <1>4 DEF jerasure_generate_schedule_cache
<1>7. CacheList(a, b) \in Seq(0..(n + c - 1)) /\ NamedIn(CacheList(a, b)) = {a, b}
  <2>1. NamedIn(CacheList(a, b)) = {a, b}
    BY CacheListFacts
  <2>2. <<a>> \in Seq(0..(p - 1)) /\ <<a, b>> \in Seq(0..(p - 1)) /\ <<b, a>> \in Seq(0..(p - 1))
    OBVIOUS
  <2>3. CacheList(a, b) \in {<<a>>, <<a, b>>, <<b, a>>}
    <3>1. CASE a >= b
      BY <3>1, CacheListFacts
    <3>2. CASE b >= a
      <4>1. CacheList(b, a) = IF b = a THEN <<b>> ELSE <<b, a>>
        BY <3>2, CacheListFacts
      <4> QED BY <4>1, CacheListFacts
    <3> QED BY <3>1, <3>2
  <2>4. CacheList(a, b) \in Seq(0..(p - 1))
    BY <2>2, <2>3
  <2> QED BY <1>1, <2>1, <2>4
<1>8. PICK other \in Seq(0..(n + c - 1)) : /\ other = CacheList(a, b)
                                          /\ NamedIn(other) = NamedIn(list)
  BY <1>3, <1>7
<1>9. Sound(n, v, RowsLost(n, c, v, mat, NamedIn(list)),
            jerasure_generate_decoding_schedule(n, c, v, mat, other, smart),
            AllRows(RowsLost(n, c, v, mat, NamedIn(list))))
  <2>1. LossOf(n, c, NamedIn(other))
    BY <1>8
  <2>2. Sound(n, v, RowsLost(n, c, v, mat, NamedIn(other)),
              jerasure_generate_decoding_schedule(n, c, v, mat, other, smart),
              AllRows(RowsLost(n, c, v, mat, NamedIn(other))))
    BY <2>1, DecodingSchedule
  <2> QED BY <1>8, <2>2
<1> QED BY <1>5, <1>6, <1>8, <1>9

\* Every list has one pointer that is freed: the one of its higher drive first.
LEMMA FreedOnce ==
  ASSUME NEW n \in Nat, NEW c \in Nat
  PROVE  LET freed == FreeOrder(n, c)
             Freed(i) == CacheList(freed[i] \div (n + c), freed[i] % (n + c))
         IN  /\ \A i, j \in DOMAIN freed : Freed(i) = Freed(j) => i = j
             /\ {Freed(i) : i \in DOMAIN freed} =
                  {CacheList(i \div (n + c), i % (n + c)) : i \in 0..((n + c) * (n + c) - 1)}
<1> DEFINE freed == FreeOrder(n, c)
<1>1. PICK p \in Nat, l \in Nat : p = n + c /\ l = p * p
  <2>1. n + c \in Nat /\ (n + c) * (n + c) \in Nat
    OBVIOUS
  <2> QED BY <2>1
<1> DEFINE S == {i \in 0..(l - 1) : i % p <= i \div p}
           L(x) == CacheList(x \div p, x % p)
<1>2. freed = Ascending(S, l)
  BY <1>1 DEF FreeOrder
<1>3. Ascends(freed, S)
  <2>1. S \in SUBSET (0..(l - 1))
    OBVIOUS
  <2> HIDE DEF S
  <2> QED BY <1>2, <2>1, AscendingRight
<1>4. /\ Len(freed) \in Nat /\ DOMAIN freed = 1..Len(freed)
      /\ \A j \in 1..Len(freed) : freed[j] \in S
      /\ \A i, j \in 1..Len(freed) : freed[i] = freed[j] => i = j
      /\ \A t \in S : \E j \in 1..Len(freed) : freed[j] = t
  BY <1>3, AscendsFacts
<1>5. ASSUME NEW x \in 0..(l - 1)
      PROVE  \E a \in 0..(p - 1), b \in 0..(p - 1) :
               a = x \div p /\ b = x % p /\ x = a * p + b
  <2>1. p \in Nat \ {0}
    BY <1>1
  <2>2. x \div p \in 0..(p - 1)
    BY <1>1, <2>1, DivModBelow
  <2>3. x = (x \div p) * p + (x % p) /\ x % p \in 0..(p - 1)
    BY <2>1, DivMod
  <2> QED BY <2>2, <2>3
<1>6. ASSUME NEW x \in S, NEW y \in S, L(x) = L(y) PROVE x = y
  <2>1. PICK a \in 0..(p - 1), b \in 0..(p - 1) : a = x \div p /\ b = x % p /\ x = a * p + b
    BY <1>5
  <2>2. PICK d \in 0..(p - 1), e \in 0..(p - 1) : d = y \div p /\ e = y % p /\ y = d * p + e
    BY <1>5
  <2>3. a >= b /\ d >= e
    BY <2>1, <2>2
  <2>4. /\ CacheList(a, b) = IF a = b THEN <<a>> ELSE <<a, b>>
        /\ CacheList(d, e) = IF d = e THEN <<d>> ELSE <<d, e>>
    BY <2>3, CacheListFacts
  <2>5. CacheList(a, b) = CacheList(d, e)
    BY <1>6, <2>1, <2>2
  <2>6. a = d /\ b = e
    BY <2>4, <2>5
  <2> QED BY <2>1, <2>2, <2>6
<1>7. ASSUME NEW x \in 0..(l - 1) PROVE \E y \in S : L(y) = L(x)
  <2>1. PICK a \in 0..(p - 1), b \in 0..(p - 1) : a = x \div p /\ b = x % p /\ x = a * p + b
    BY <1>5
  <2>2. CASE b <= a
    <3>1. x \in S
      BY <2>1, <2>2
    <3> QED BY <3>1
  <2>3. CASE a <= b
    <3>1. p \in Nat \ {0}
      OBVIOUS
    <3>2. b * p + a \in 0..(p * p - 1)
      BY <3>1, DivModBelow
    <3>3. (b * p + a) \div p = b /\ (b * p + a) % p = a
      BY <3>1, DivMod
    <3>4. PICK y \in 0..(l - 1) : y \div p = b /\ y % p = a
      BY <1>1, <3>2, <3>3
    <3>5. y \in S
      BY <2>3, <3>4
    <3>6. CacheList(a, b) = CacheList(b, a)
      BY CacheListFacts
    <3> QED BY <2>1, <3>4, <3>5, <3>6
  <2> QED BY <2>2, <2>3
<1>8. S \subseteq 0..(l - 1)
  OBVIOUS
<1> HIDE DEF freed, S, L
<1>9. \A i, j \in DOMAIN freed : L(freed[i]) = L(freed[j]) => i = j
  BY <1>4, <1>6
<1>10. {L(freed[i]) : i \in DOMAIN freed} = {L(i) : i \in 0..(l - 1)}
  <2>1. ASSUME NEW i \in DOMAIN freed PROVE \E x \in 0..(l - 1) : L(x) = L(freed[i])
    BY <1>4, <1>8
  <2>2. ASSUME NEW x \in 0..(l - 1) PROVE \E i \in DOMAIN freed : L(freed[i]) = L(x)
    <3>1. PICK y \in S : L(y) = L(x)
      BY <1>7
    <3>2. PICK i \in 1..Len(freed) : freed[i] = y
      BY <1>4
    <3> QED BY <1>4, <3>1, <3>2
  <2> QED BY <2>1, <2>2
<1>11. p = n + c /\ (n + c) * (n + c) - 1 = l - 1
  BY <1>1
<1>12. \A i, j \in DOMAIN freed :
         CacheList(freed[i] \div (n + c), freed[i] % (n + c))
           = CacheList(freed[j] \div (n + c), freed[j] % (n + c)) => i = j
  BY <1>9, <1>11 DEF L
<1>13. {CacheList(freed[i] \div (n + c), freed[i] % (n + c)) : i \in DOMAIN freed}
         = {CacheList(i \div (n + c), i % (n + c)) : i \in 0..((n + c) * (n + c) - 1)}
  BY <1>10, <1>11 DEF L
<1> QED BY <1>12, <1>13 DEF freed
-----------------------------------------------------------------------------
(***************************************************************************)
(* The invariant of the user of the codec: what is encoded is a code that  *)
(* was made, lists name its drives, and a schedule that is carried out     *)
(* makes the rows of the bitmatrix, or of the lost drives.                 *)
(***************************************************************************)
OfACode ==
  /\ phase \notin {"start", "looked"} => shape \in Shapes \cup MatrixShapes /\ bits = Made(shape)
  /\ phase \notin {"start", "looked", "made"} => bits # NoMatrix
  /\ phase \notin {"start", "looked", "made", "probed"} => shape \in Shapes

Listed == phase \in {"lost", "decoded"} \/ (phase = "operating" /\ next = "decoded")
ListKept == Listed => erasures \in Seq(Drives)

ScheduleRows == IF next = "encoded" THEN bits ELSE RowsLost(k, m, w, bits, Erased)
Scheduled ==
  phase = "operating" =>
    /\ next \in {"encoded", "decoded"}
    /\ next = "decoded" => LossOf(k, m, Erased)
    /\ Sound(k, w, ScheduleRows, schedule, AllRows(ScheduleRows))

CodeInv == OfACode /\ ListKept /\ Scheduled

LEMMA CodeFacts ==
  ASSUME OfACode, phase \notin {"start", "looked"}
  PROVE  /\ k \in Nat \ {0} /\ m \in Nat \ {0} /\ w \in Nat \ {0}
         /\ Stripes \in Nat \ {0} /\ Extra \in Nat
         /\ bits # NoMatrix => BitsFor(k, m, w, bits)
<1>1. shape \in Shapes \cup MatrixShapes /\ bits = Made(shape)
  BY DEF OfACode
<1>2. Shaped(shape)
  BY <1>1, ShapeFacts
<1>3. bits # NoMatrix => BitsFor(shape[2], shape[3], shape[4], bits)
  BY <1>1, MadeRight
<1> QED BY <1>2, <1>3 DEF Shaped, k, m, w, Stripes, Extra

LEMMA ListsNames ==
  ASSUME k \in Nat, m \in Nat, NEW lost \in SUBSET Drives, NEW list \in Lists(lost)
  PROVE  list \in Seq(Drives) /\ NamedIn(list) = lost /\ Len(list) = Cardinality(lost)
<1>1. PICK n \in Nat : n = k + m
  OBVIOUS
<1> DEFINE up == Ascending(lost, n)
           Back(i) == Nth(up, Len(up) - 1 - i)
<1>2. lost \in SUBSET (0..(n - 1)) /\ Drives = 0..(n - 1)
  BY <1>1 DEF Drives
<1>3. list = up \/ list = Tabulate(Len(up), Back)
  BY <1>1 DEF Lists
<1>4. Len(up) \in Nat
  <2>1. Ascends(up, lost)
    BY <1>2, AscendingRight
  <2> QED BY <2>1, AscendsFacts
<1>5. Tabulate(Len(up), Back) = [j \in 1..Len(up) |-> Nth(up, Len(up) - 1 - (j - 1))]
  <2>1. PICK l \in Nat : l = Len(up)
    BY <1>4
  <2> HIDE DEF up
  <2>2. Tabulate(l, Back) = [j \in 1..l |-> Back(j - 1)]
    BY DEF Tabulate
  <2> QED BY <2>1, <2>2
<1> HIDE DEF Back
<1>6. list \in Seq(lost) /\ NamedIn(list) = lost /\ Len(list) = Cardinality(lost)
  <2> DEFINE back == [j \in 1..Len(up) |-> Nth(up, Len(up) - 1 - (j - 1))]
  <2>1. list = up \/ list = back
    BY <1>3, <1>5
  <2> QED BY <1>2, <2>1, ListsRight
<1>7. list \in Seq(Drives)
  <2>1. Len(list) \in Nat /\ list \in [1..Len(list) -> lost]
    BY <1>6
  <2>2. list \in [1..Len(list) -> Drives]
    BY <2>1
  <2> QED BY <2>1, <2>2
<1> QED BY <1>6, <1>7

LEMMA CodeInitially ==
  ASSUME BitInit
  PROVE  CodeInv
BY DEF BitInit, CodeInv, OfACode, ListKept, Listed, Scheduled

\* For encoding the rows are those of the bitmatrix, either way.
LEMMA EncodingScheduled ==
  ASSUME CodeInv, NEW smart, EncodeBySchedule(smart)
  PROVE  CodeInv'
<1>1. /\ phase = "made" /\ shape \in Shapes /\ bits # NoMatrix
      /\ phase' = "operating" /\ next' = "encoded"
      /\ schedule' = IF smart THEN jerasure_smart_bitmatrix_to_schedule(k, w, bits)
                     ELSE jerasure_dumb_bitmatrix_to_schedule(k, w, bits)
      /\ shape' = shape /\ bits' = bits
  BY DEF EncodeBySchedule
<1>2. k' = k /\ w' = w
  BY <1>1 DEF k, w
<1>3. BitsFor(k, m, w, bits) /\ k \in Nat /\ w \in Nat \ {0}
  BY <1>1, CodeFacts DEF CodeInv
<1>4. Sound(k, w, bits, schedule', AllRows(bits))
  <2>1. RowsOn(k, w, bits)
    BY <1>3 DEF BitsFor
  <2>2. /\ Sound(k, w, bits, jerasure_smart_bitmatrix_to_schedule(k, w, bits), AllRows(bits))
        /\ Sound(k, w, bits, jerasure_dumb_bitmatrix_to_schedule(k, w, bits), AllRows(bits))
    BY <1>3, <2>1, SmartSchedule, DumbSound
  <2> QED BY <1>1, <2>2
<1>5. ScheduleRows' = bits
  BY <1>1 DEF ScheduleRows
<1>6. Scheduled'
  BY <1>1, <1>2, <1>4, <1>5 DEF Scheduled
<1>7. OfACode' /\ ListKept'
  BY <1>1 DEF CodeInv, OfACode, ListKept, Listed
<1> QED BY <1>6, <1>7 DEF CodeInv

\* For decoding they are those of the lost drives, from the cache as well.
LEMMA DecodingScheduled ==
  ASSUME CodeInv, NEW ops, DecodeBySchedule(ops),
         LossOf(k, m, Erased) =>
           Sound(k, w, RowsLost(k, m, w, bits, Erased), ops,
                 AllRows(RowsLost(k, m, w, bits, Erased)))
  PROVE  CodeInv'
<1>1. /\ phase = "lost" /\ next' = "decoded" /\ phase' \in {"operating", "decoded"}
      /\ phase' = "operating" => /\ jerasure_erasures_to_erased(k, m, erasures).ok
                                 /\ schedule' = ops
      /\ shape' = shape /\ bits' = bits /\ erasures' = erasures
  BY DEF DecodeBySchedule
<1>2. k' = k /\ m' = m /\ w' = w /\ Erased' = Erased /\ Drives' = Drives
  BY <1>1 DEF k, m, w, Erased, Drives
<1>3. OfACode' /\ ListKept'
  BY <1>1, <1>2 DEF CodeInv, OfACode, ListKept, Listed
<1>4. ASSUME phase' = "operating" PROVE LossOf(k, m, Erased)
  <2>1. k \in Nat /\ m \in Nat
    BY <1>1, CodeFacts DEF CodeInv
  <2>2. erasures \in Seq(0..(k + m - 1))
    BY <1>1 DEF CodeInv, ListKept, Listed, Drives
  <2>3. NamedIn(erasures) = Erased
    BY DEF NamedIn, Erased
  <2> QED BY <1>1, <1>4, <2>1, <2>2, <2>3, ErasedFacts
<1>5. ScheduleRows' = RowsLost(k, m, w, bits, Erased)
  BY <1>1, <1>2 DEF ScheduleRows
<1>6. Scheduled'
  BY <1>1, <1>2, <1>4, <1>5 DEF Scheduled
<1> QED BY <1>3, <1>6 DEF CodeInv

LEMMA CodeStep ==
  ASSUME CodeInv, [BitNext]_bitVars
  PROVE  CodeInv'
<1>1. ASSUME NEW s \in Shapes \cup MatrixShapes, Make(s) PROVE CodeInv'
  BY <1>1 DEF CodeInv, Make, OfACode, ListKept, Listed, Scheduled
<1>2. CASE EncodeByDots
  BY <1>2 DEF CodeInv, EncodeByDots, OfACode, ListKept, Listed, Scheduled
<1>3. ASSUME NEW smart \in BOOLEAN, EncodeBySchedule(smart) PROVE CodeInv'
  BY <1>3, EncodingScheduled
<1>4. ASSUME NEW smart \in BOOLEAN, DecodeLazily(smart) \/ DecodeFromCache(smart) PROVE CodeInv'
  <2>1. phase = "lost"
    BY <1>4 DEF DecodeLazily, DecodeFromCache, DecodeBySchedule
  <2>2. k \in Nat /\ m \in Nat /\ w \in Nat \ {0} /\ BitsFor(k, m, w, bits)
    BY <2>1, CodeFacts DEF CodeInv, OfACode
  <2>3. erasures \in Seq(0..(k + m - 1)) /\ NamedIn(erasures) = Erased
    BY <2>1 DEF CodeInv, ListKept, Listed, Drives, NamedIn, Erased
  <2>4. CASE DecodeLazily(smart)
    <3> DEFINE ops == jerasure_generate_decoding_schedule(k, m, w, bits, erasures, smart)
    <3>1. DecodeBySchedule(ops)
      BY <2>4 DEF DecodeLazily
    <3>2. ASSUME LossOf(k, m, Erased)
          PROVE  Sound(k, w, RowsLost(k, m, w, bits, Erased), ops,
                       AllRows(RowsLost(k, m, w, bits, Erased)))
      <4>1. LossOf(k, m, NamedIn(erasures))
        BY <2>3, <3>2
      <4>2. Sound(k, w, RowsLost(k, m, w, bits, NamedIn(erasures)), ops,
                  AllRows(RowsLost(k, m, w, bits, NamedIn(erasures))))
        BY <2>2, <2>3, <4>1, DecodingSchedule
      <4> QED BY <2>3, <4>2
    <3> HIDE DEF ops
    <3> QED BY <3>1, <3>2, DecodingScheduled
  <2>5. CASE DecodeFromCache(smart)
    <3> DEFINE ops == jerasure_generate_schedule_cache(k, m, w, bits, smart)
                        [CacheIndex(k, m, erasures)]
    <3>1. DecodeBySchedule(ops) /\ Len(erasures) \in {1, 2}
      BY <2>5 DEF DecodeFromCache
    <3>2. ASSUME LossOf(k, m, Erased)
          PROVE  Sound(k, w, RowsLost(k, m, w, bits, Erased), ops,
                       AllRows(RowsLost(k, m, w, bits, Erased)))
      <4>1. LossOf(k, m, NamedIn(erasures))
        BY <2>3, <3>2
      <4>2. Sound(k, w, RowsLost(k, m, w, bits, NamedIn(erasures)), ops,
                  AllRows(RowsLost(k, m, w, bits, NamedIn(erasures))))
        BY <2>2, <2>3, <3>1, <4>1, CachedSchedule
      <4> QED BY <2>3, <4>2
    <3> HIDE DEF ops
    <3> QED BY <3>1, <3>2, DecodingScheduled
  <2> QED BY <1>4, <2>4, <2>5
<1>5. ASSUME NEW lost \in SUBSET Drives, NEW list \in Lists(lost), Lose(list) PROVE CodeInv'
  <2>1. phase = "encoded" /\ phase' = "lost" /\ erasures' = list /\ shape' = shape /\ bits' = bits
    BY <1>5 DEF Lose
  <2>2. k \in Nat /\ m \in Nat
    BY <2>1, CodeFacts DEF CodeInv
  <2>3. list \in Seq(Drives)
    BY <2>2, ListsNames
  <2>4. Drives' = Drives
    BY <2>1 DEF Drives, k, m
  <2> QED BY <2>1, <2>3, <2>4 DEF CodeInv, OfACode, ListKept, Listed, Scheduled
<1>6. ASSUME NEW ones \in BOOLEAN, DecodeByDots(ones) PROVE CodeInv'
  <2>1. Drives' = Drives
    BY <1>6 DEF DecodeByDots, Drives, k, m
  <2> QED BY <1>6, <2>1 DEF CodeInv, DecodeByDots, OfACode, ListKept, Listed, Scheduled
<1>7. CASE DecodeTooMany
  <2>1. Drives' = Drives
    BY <1>7 DEF DecodeTooMany, Drives, k, m
  <2> QED BY <1>7, <2>1 DEF CodeInv, DecodeTooMany, OfACode, ListKept, Listed, Scheduled
<1>8. CASE DoOperation \/ StripeDone \/ UNCHANGED bitVars
  <2>1. /\ shape' = shape /\ bits' = bits /\ erasures' = erasures /\ schedule' = schedule
        /\ next' = next /\ (phase' = phase \/ (phase = "operating" /\ phase' = next))
    BY <1>8 DEF DoOperation, StripeDone, bitVars
  <2>2. /\ k' = k /\ m' = m /\ w' = w /\ Erased' = Erased /\ Drives' = Drives
        /\ ScheduleRows' = ScheduleRows
    BY <2>1 DEF k, m, w, Erased, Drives, ScheduleRows
  <2>3. Scheduled'
    <3>1. phase' = "operating" => phase = "operating"
      BY <2>1 DEF CodeInv, Scheduled
    <3> QED BY <2>1, <2>2, <3>1 DEF CodeInv, Scheduled
  <2>4. OfACode'
    <3>1. phase = "operating" => next \in {"encoded", "decoded"}
      BY DEF CodeInv, Scheduled
    <3> QED BY <2>1, <3>1 DEF CodeInv, OfACode
  <2>5. ListKept'
    <3>1. Listed' => Listed
      <4>1. phase = "operating" => next \in {"encoded", "decoded"}
        BY DEF CodeInv, Scheduled
      <4> QED BY <2>1, <4>1 DEF Listed
    <3> QED BY <2>1, <2>2, <3>1 DEF CodeInv, ListKept
  <2> QED BY <2>3, <2>4, <2>5 DEF CodeInv
<1>9. ASSUME NEW lost, Probe(lost) PROVE CodeInv'
  BY <1>9 DEF CodeInv, Probe, OfACode, ListKept, Listed, Scheduled
<1>10. ASSUME NEW v, NEW i, Look(v, i) PROVE CodeInv'
  BY <1>10 DEF CodeInv, Look, OfACode, ListKept, Listed, Scheduled
<1> QED BY <1>1, <1>2, <1>3, <1>4, <1>5, <1>6, <1>7, <1>8, <1>9, <1>10 DEF BitNext

\* The invariant is enough: what is sound is in order, and fits.
LEMMA CodeInOrder ==
  ASSUME CodeInv
  PROVE  SchedulesRight
<1>1. ScheduleInOrder
  <2> SUFFICES ASSUME phase = "operating" PROVE ScheduleInOrder
    BY DEF ScheduleInOrder
  <2>1. /\ k \in Nat /\ m \in Nat /\ w \in Nat \ {0} /\ BitsFor(k, m, w, bits)
    BY CodeFacts DEF CodeInv, OfACode
  <2>2. /\ next \in {"encoded", "decoded"} /\ (next = "decoded" => LossOf(k, m, Erased))
        /\ Sound(k, w, ScheduleRows, schedule, AllRows(ScheduleRows))
    BY DEF CodeInv, Scheduled
  <2>3. PICK c \in Nat : /\ RowsOn(k, w, ScheduleRows) /\ Len(ScheduleRows) = c * w
                         /\ Len(ptrs) = k + c
    <3>1. CASE next = "encoded"
      <4>1. RowsOn(k, w, bits) /\ Len(bits) = m * w
        BY <2>1 DEF BitsFor
      <4>2. Len(Ids(k + m)) = k + m
        BY <2>1 DEF Ids
      <4> QED BY <2>1, <3>1, <4>1, <4>2 DEF ScheduleRows, ptrs
    <3>2. CASE next = "decoded"
      <4>1. /\ RowsAgain(k, w, bits, row_ids(k, m, Erased), RowsLost(k, m, w, bits, Erased),
                         Cardinality(Erased))
            /\ Len(row_ids(k, m, Erased)) = k + Cardinality(Erased)
            /\ Cardinality(Erased) \in Nat
        BY <2>1, <2>2, <3>2, RowsLostRight
      <4>2. ptrs = row_ids(k, m, Erased)
        BY <3>2 DEF ptrs, Erased
      <4> QED BY <3>2, <4>1, <4>2 DEF ScheduleRows, RowsAgain
    <3> QED BY <2>2, <3>1, <3>2
  <2>4. /\ DOMAIN schedule = 1..Len(schedule)
        /\ \A i \in 1..Len(schedule) : OrderOf(k, schedule, i)
        /\ Len(schedule) <= k * c * w * w
    BY <2>1, <2>2, <2>3, SoundInOrder
  <2>5. Len(ptrs) - k = c
    BY <2>1, <2>3
  <2> QED BY <2>4, <2>5 DEF ScheduleInOrder, OrderOf
<1>2. CacheFreedOnce
  <2> SUFFICES ASSUME phase = "made" PROVE CacheFreedOnce
    BY DEF CacheFreedOnce
  <2>1. k \in Nat /\ m \in Nat
    BY CodeFacts DEF CodeInv
  <2> QED BY <2>1, FreedOnce DEF CacheFreedOnce
<1> QED BY <1>1, <1>2 DEF SchedulesRight

\* The schedules of every code begin what they make with a copy, read coding packets
\* when they are complete and fit into their arrays, and a cache is freed once: for
\* any number of drives, any word size and any list of erasures.
THEOREM SchedulesAlwaysRight == BitSpec => []SchedulesRight
<1>1. BitInit => CodeInv
  BY CodeInitially
<1>2. CodeInv /\ [BitNext]_bitVars => CodeInv'
  BY CodeStep
<1>3. CodeInv => SchedulesRight
  BY CodeInOrder
<1> QED BY <1>1, <1>2, <1>3, PTL DEF BitSpec
-----------------------------------------------------------------------------
(***************************************************************************)
(* What is on the drives.  Encoding begins with the contents, decoding     *)
(* with what was written, but for the drives of the list.                  *)
(***************************************************************************)
Original == [d \in Drives |-> Content(d)]
Damaged == [d \in Drives |-> IF d \in Erased THEN Lost(d) ELSE written[d]]
Coding == k..(k + m - 1)

\* The code of the drives is encoded.
IsEncoded(contents) == Stage(k, m, w, bits, Original, contents, Coding, Reach, Packets)

\* What a schedule is carried out on
Beginning == IF next = "encoded" THEN Original ELSE Damaged
Targets == IF next = "encoded" THEN m ELSE Cardinality(Erased)

NextKept ==
  /\ phase \in {"start", "made"} => next = "start"
  /\ phase \in {"encoded", "lost"} => next # "decoded"
EncodedKept ==
  phase = "encoded" =>
    /\ written = drives
    /\ IF Extra # 0 /\ next # "encoded" THEN drives = Original ELSE IsEncoded(drives)
WrittenKept == Listed => Extra = 0 /\ IsEncoded(written) /\ Len(erasures) = Cardinality(Erased)
LostKept == phase = "lost" => drives = Damaged
OperationsKept ==
  phase = "operating" =>
    /\ StripeOf(w, base, Reach, Packets) /\ op \in 0..Len(schedule)
    /\ Carried(k, m, w, ScheduleRows, Targets, ptrs, Beginning, drives, schedule, base, op,
               Packets)

BitInv ==
  /\ CodeInv /\ NextKept /\ EncodedKept /\ WrittenKept /\ LostKept /\ OperationsKept
  /\ DrivesRestored

\* A code that data is encoded with
InUse == OfACode /\ phase \notin {"start", "looked"} /\ shape \in Shapes /\ bits # NoMatrix

LEMMA UseFacts ==
  ASSUME InUse
  PROVE  /\ k \in Nat \ {0} /\ m \in Nat \ {0} /\ w \in Nat \ {0}
         /\ Stripes \in Nat \ {0} /\ Extra \in 0..(w - 1)
         /\ BitsFor(k, m, w, bits) /\ NoneEmpty(m, w, bits)
<1>1. /\ k \in Nat \ {0} /\ m \in Nat \ {0} /\ w \in Nat \ {0}
      /\ Stripes \in Nat \ {0} /\ Extra \in Nat /\ BitsFor(k, m, w, bits)
  BY CodeFacts DEF InUse
<1>2. bits = Made(shape) /\ RowsNotEmpty(shape) /\ shape[6] < shape[4]
  BY MadeForShapes DEF InUse, OfACode
<1>3. NoneEmpty(m, w, bits)
  BY <1>2 DEF RowsNotEmpty, NoneEmpty, m, w
<1>4. Extra < w
  BY <1>2 DEF Extra, w
<1> QED BY <1>1, <1>3, <1>4

LEMMA SizeFacts ==
  ASSUME InUse
  PROVE  /\ Reach \in Nat \ {0} /\ Packets \in Nat /\ Room(w, Reach, Packets)
         /\ packetsize = 8 /\ sizeof_long = 8
         /\ Extra = 0 => size = Reach * 8
         /\ Extra # 0 => size % (packetsize * w) # 0
         /\ \A b \in Nat : Whole(w, b) => (MoreStripes(b) <=> b < Reach)
<1>1. PICK v \in Nat \ {0}, s \in Nat \ {0}, e \in Nat :
        v = w /\ s = Stripes /\ e = Extra /\ e \in 0..(v - 1)
  BY UseFacts
<1>2. PICK a \in Nat : a = s * v
  OBVIOUS
<1>3. a >= v
  <2>1. PICK t \in Nat : s = t + 1
    OBVIOUS
  <2>2. a = t * v + v /\ t * v \in Nat
    BY <1>2, <2>1
  <2> QED BY <2>2
<1>4. Packets = a + e + v /\ size = (a + e) * 8 /\ packetsize = 8 /\ sizeof_long = 8
  BY <1>1, <1>2 DEF Packets, size, packetsize, sizeof_long
<1>5. Reach = IF e = 0 THEN a ELSE a + v
  <2>1. (s + 0) * v = a /\ (s + 1) * v = a + v
    BY <1>2
  <2> QED BY <1>1, <2>1 DEF Reach
<1>6. a % v = 0 /\ (a + e) % v = e /\ (a + v) % v = 0
  <2>1. (s * v + 0) % v = 0 /\ (s * v + e) % v = e
    <3>1. 0 \in 0..(v - 1) /\ e \in 0..(v - 1)
      BY <1>1
    <3> QED BY <3>1, DivMod
  <2>2. ((s + 1) * v + 0) % v = 0 /\ (s + 1) * v + 0 = a + v
    <3>1. s + 1 \in Nat /\ 0 \in 0..(v - 1)
      OBVIOUS
    <3>2. ((s + 1) * v + 0) % v = 0
      BY <3>1, DivMod
    <3> QED BY <1>2, <3>2
  <2> QED BY <1>2, <2>1, <2>2
<1>7. PICK r \in Nat \ {0} : r = Reach /\ r <= a + e + v /\ r % v = 0
  BY <1>3, <1>5, <1>6
<1>8. Room(v, r, a + e + v)
  BY <1>7 DEF Room, Whole
<1>9. ASSUME e # 0 PROVE size % (packetsize * w) # 0
  <2>1. PICK u \in Nat \ {0}, c \in Nat : u = 8 * v /\ c = 8 * e /\ c \in 0..(u - 1)
    <3>1. 8 * v \in Nat \ {0} /\ 8 * e \in Nat /\ 8 * e < 8 * v
      BY <1>1
    <3> QED BY <3>1
  <2>2. (s * u + c) % u = c
    <3>1. \A x \in Nat, y \in 0..(u - 1) : (x * u + y) % u = y
      BY DivMod
    <3>2. s \in Nat /\ c \in 0..(u - 1)
      BY <2>1
    <3> QED BY <3>1, <3>2
  <2>3. (a + e) * 8 = s * u + c
    BY <1>2, <2>1
  <2> QED BY <1>1, <1>4, <1>9, <2>1, <2>2, <2>3
<1>10. ASSUME NEW b \in Nat, Whole(v, b) PROVE MoreStripes(b) <=> b < r
  <2>1. MoreStripes(b) <=> b < a + e
    BY <1>4 DEF MoreStripes
  <2>2. b % v = 0 /\ b - (b % v) = b
    BY <1>10 DEF Whole
  <2>3. Whole(v, a)
    BY <1>6 DEF Whole
  <2>4. b - (b % v) < a + v <=> b - (b % v) <= a
    BY <2>3, StripeOrder
  <2>5. b < a + v <=> b <= a
    BY <2>2, <2>4
  <2>6. r = IF e = 0 THEN a ELSE a + v
    BY <1>5, <1>7
  <2>7. CASE e = 0
    BY <2>1, <2>6, <2>7
  <2>8. CASE e # 0
    <3>1. b < a + e <=> b < a + v
      BY <1>1, <2>5, <2>8
    <3> QED BY <2>1, <2>6, <2>8, <3>1
  <2> QED BY <2>7, <2>8
<1> QED BY <1>1, <1>4, <1>5, <1>7, <1>8, <1>9, <1>10

LEMMA ContentFacts ==
  ASSUME InUse, NEW d \in Drives
  PROVE  /\ Content(d) \in [1..Packets -> SUBSET (Nat \X Nat)]
         /\ Lost(d) \in [1..Packets -> SUBSET (Nat \X Nat)]
         /\ \A p \in 0..(Packets - 1) : Nth(Content(d), p) = {<<d, p>>}
<1>1. PICK l \in Nat, n \in Nat, c \in Nat, e \in Nat :
        l = Packets /\ n = k /\ c = m /\ e = d /\ e \in 0..(n + c - 1)
  BY UseFacts, SizeFacts DEF Drives
<1>2. Content(d) = [j \in 1..l |-> {<<e, j - 1>>}]
  <2> DEFINE Packet(p) == {<<d, p>>}
  <2>1. Tabulate(l, Packet) = [j \in 1..l |-> Packet(j - 1)]
    BY DEF Tabulate
  <2>2. Content(d) = Tabulate(Packets, Packet)
    BY DEF Content
  <2> QED BY <1>1, <2>1, <2>2
<1>3. Lost(d) = [j \in 1..l |-> {<<n + c + e, j - 1>>}]
  <2> DEFINE Packet(p) == {<<k + m + d, p>>}
  <2>1. Tabulate(l, Packet) = [j \in 1..l |-> Packet(j - 1)]
    BY DEF Tabulate
  <2>2. Lost(d) = Tabulate(Packets, Packet)
    BY DEF Lost
  <2> QED BY <1>1, <2>1, <2>2
<1>4. e \in Nat /\ n + c + e \in Nat /\ \A j \in 1..l : j - 1 \in Nat
  OBVIOUS
<1>5. /\ [j \in 1..l |-> {<<e, j - 1>>}] \in [1..l -> SUBSET (Nat \X Nat)]
      /\ [j \in 1..l |-> {<<n + c + e, j - 1>>}] \in [1..l -> SUBSET (Nat \X Nat)]
  BY <1>4
<1>6. ASSUME NEW p \in 0..(l - 1) PROVE Nth(Content(d), p) = {<<d, p>>}
  <2>1. p + 1 \in 1..l /\ (p + 1) - 1 = p
    OBVIOUS
  <2> QED BY <1>1, <1>2, <2>1 DEF Nth
<1> QED BY <1>1, <1>2, <1>3, <1>5, <1>6

LEMMA OriginalFacts ==
  ASSUME InUse
  PROVE  /\ Original \in Regions(k + m, Packets)
         /\ \A d \in Drives : Original[d] = Content(d)
         /\ Keeps(k, w, bits, Original, 0..(k - 1), Reach)
<1>1. Original \in Regions(k + m, Packets) /\ \A d \in Drives : Original[d] = Content(d)
  <2>1. \A d \in Drives : Content(d) \in [1..Packets -> SUBSET (Nat \X Nat)]
    BY ContentFacts
  <2>2. Drives = 0..((k + m) - 1)
    BY UseFacts DEF Drives
  <2> DEFINE S == [1..Packets -> SUBSET (Nat \X Nat)]
  <2>3. \A d \in Drives : Content(d) \in S
    BY <2>1
  <2> HIDE DEF S
  <2>6. Regions(k + m, Packets) = [0..((k + m) - 1) -> S]
    BY DEF Regions, S
  <2>4. Regions(k + m, Packets) = [Drives -> S]
    BY <2>2, <2>6
  <2>5. Original \in [Drives -> S] /\ \A d \in Drives : Original[d] = Content(d)
    BY <2>3 DEF Original
  <2> QED BY <2>4, <2>5
<1>2. PICK n \in Nat, c \in Nat, v \in Nat \ {0}, r \in Nat, l \in Nat :
        n = k /\ c = m /\ v = w /\ r = Reach /\ l = Packets /\ r <= l
  BY UseFacts, SizeFacts DEF Room
<1>3. ASSUME NEW d \in 0..(n - 1), NEW p \in 0..(r - 1)
      PROVE  Nth(Original[d], p) = Code(n, v, bits, d, p)
  <2>1. d \in 0..(n + c - 1) /\ p \in 0..(l - 1) /\ p \in Nat /\ d < n
    BY <1>2
  <2>2. Nth(Original[d], p) = {<<d, p>>}
    <3>1. d \in Drives
      BY <1>2, <2>1 DEF Drives
    <3>2. p \in 0..(Packets - 1)
      BY <1>2, <2>1
    <3> QED BY <1>1, <3>1, <3>2, ContentFacts
  <2>3. Code(n, v, bits, d, p) = {<<d, p>>}
    <3>1. BitsFor(n, c, v, bits)
      BY <1>2, UseFacts
    <3> QED BY <2>1, <3>1, CodeOnData
  <2> QED BY <2>2, <2>3
<1>4. Keeps(k, w, bits, Original, 0..(k - 1), Reach)
  BY <1>2, <1>3 DEF Keeps
<1> QED BY <1>1, <1>4

LEMMA RecoverFacts ==
  ASSUME InUse, LossOf(k, m, Erased)
  PROVE  Recoverable <=> Recovers(k, m, w, bits, Erased)
<1>1. k \in Nat /\ m \in Nat /\ w \in Nat \ {0} /\ BitsFor(k, m, w, bits)
  BY UseFacts
<1>2. IdsFor(k, m, dm_ids(k, m, Erased))
  BY <1>1, SourcesLeft
<1>3. jerasure_invertible_bitmatrix(SurvivorRows(k, w, bits, dm_ids(k, m, Erased)))
        <=> Determines(k, w, bits, Behind(k, dm_ids(k, m, Erased)))
  BY <1>1, <1>2, InvertibleIff
<1> QED BY <1>3 DEF Recoverable, Recovers

\* What was written is the code, and behind it the contents.
LEMMA WrittenFacts ==
  ASSUME InUse, NEW new, IsEncoded(new), NEW d \in Drives, NEW p \in 0..(Packets - 1)
  PROVE  /\ p < Reach => Nth(new[d], p) = Code(k, w, bits, d, p)
         /\ p >= Reach => Nth(new[d], p) = Nth(Content(d), p)
<1>1. PICK n \in Nat, c \in Nat, v \in Nat \ {0}, r \in Nat :
        n = k /\ c = m /\ v = w /\ r = Reach /\ Drives = 0..(n + c - 1) /\ BitsFor(n, c, v, bits)
  BY UseFacts, SizeFacts DEF Drives
<1>2. Nth(new[d], p) = IF d \in Coding /\ p < Reach THEN Code(k, w, bits, d, p)
                       ELSE Nth(Original[d], p)
  BY <1>1 DEF IsEncoded, Stage
<1>3. Original[d] = Content(d) /\ Nth(Content(d), p) = {<<d, p>>}
  BY OriginalFacts, ContentFacts
<1>4. ASSUME d \notin Coding PROVE Nth(Original[d], p) = Code(k, w, bits, d, p)
  <2>1. d < n /\ d \in 0..(n + c - 1)
    BY <1>1, <1>4 DEF Coding
  <2>2. p \in Nat
    BY SizeFacts
  <2>3. Code(n, v, bits, d, p) = {<<d, p>>}
    <3>1. BitsFor(n, c, v, bits)
      BY <1>1
    <3>2. PICK x \in Nat, e \in 0..(n - 1) : x = p /\ e = d
      BY <2>1, <2>2
    <3>3. Code(n, v, bits, e, x) = {<<e, x>>}
      BY <3>1, CodeOnData
    <3> QED BY <3>2, <3>3
  <2> QED BY <1>1, <1>3, <2>3
<1>5. Reach \in Nat /\ p \in Nat
  BY SizeFacts
<1> QED BY <1>2, <1>3, <1>4, <1>5

LEMMA DamagedFacts ==
  ASSUME InUse, IsEncoded(written), Erased \in SUBSET Drives
  PROVE  /\ Damaged \in Regions(k + m, Packets)
         /\ Keeps(k, w, bits, Damaged, Left(k, m, Erased), Reach)
         /\ \A d \in Drives : Damaged[d] = IF d \in Erased THEN Lost(d) ELSE written[d]
<1> DEFINE S == [1..Packets -> SUBSET (Nat \X Nat)]
<1>1. Drives = 0..((k + m) - 1)
  BY UseFacts DEF Drives
<1>2. Regions(k + m, Packets) = [Drives -> S]
  <2> HIDE DEF S
  <2>1. Regions(k + m, Packets) = [0..((k + m) - 1) -> S]
    BY DEF Regions, S
  <2> QED BY <1>1, <2>1
<1>3. \A d \in Drives : written[d] \in S /\ Lost(d) \in S
  <2>1. written \in [Drives -> S]
    BY <1>2 DEF IsEncoded, Stage
  <2>2. \A d \in Drives : Lost(d) \in S
    BY ContentFacts
  <2> HIDE DEF S
  <2> QED BY <2>1, <2>2
<1> HIDE DEF S
<1>4. /\ Damaged \in [Drives -> S]
      /\ \A d \in Drives : Damaged[d] = IF d \in Erased THEN Lost(d) ELSE written[d]
  BY <1>3 DEF Damaged
<1>5. Left(k, m, Erased) = Drives \ Erased
  <2>1. 0..(k + m - 1) = Drives
    BY DEF Drives
  <2> QED BY <2>1 DEF Left
<1>6. ASSUME NEW d \in Drives \ Erased, NEW p \in 0..(Reach - 1)
      PROVE  Nth(Damaged[d], p) = Code(k, w, bits, d, p)
  <2>1. p \in 0..(Packets - 1) /\ p < Reach
    BY SizeFacts DEF Room
  <2>2. Nth(written[d], p) = Code(k, w, bits, d, p)
    BY <2>1, WrittenFacts
  <2> QED BY <1>4, <2>2
<1>7. Keeps(k, w, bits, Damaged, Left(k, m, Erased), Reach)
  BY <1>5, <1>6 DEF Keeps
<1> QED BY <1>2, <1>4, <1>7

\* What decoding is to leave on the drives
Given(new, outcome) ==
  \A d \in Drives : \A p \in 0..(Packets - 1) :
    CASE d \in Erased /\ (outcome = -1 \/ p >= Reach) -> Nth(new[d], p) = Nth(Lost(d), p)
      [] d \in Erased /\ outcome = 0 /\ p < Reach ->
           Recoverable => Nth(new[d], p) = Nth(written[d], p)
      [] OTHER -> Nth(new[d], p) = Nth(written[d], p)

LEMMA GivenNothing ==
  ASSUME InUse, IsEncoded(written), Erased \in SUBSET Drives
  PROVE  Given(Damaged, -1)
<1>1. \A d \in Drives : Damaged[d] = IF d \in Erased THEN Lost(d) ELSE written[d]
  BY DamagedFacts
<1> QED BY <1>1 DEF Given

LEMMA GivenBack ==
  ASSUME InUse, IsEncoded(written), LossOf(k, m, Erased), NEW new,
         Spared(k, m, Damaged, new, Erased, Reach, Packets),
         Recovers(k, m, w, bits, Erased) =>
           Stage(k, m, w, bits, Damaged, new, Erased, Reach, Packets)
  PROVE  Given(new, 0)
<1>1. Erased \in SUBSET Drives /\ 0..(k + m - 1) = Drives
  BY DEF LossOf, Drives
<1>2. \A d \in Drives : Damaged[d] = IF d \in Erased THEN Lost(d) ELSE written[d]
  BY <1>1, DamagedFacts
<1>3. ASSUME NEW d \in Drives, NEW p \in 0..(Packets - 1)
      PROVE  /\ d \notin Erased => Nth(new[d], p) = Nth(written[d], p)
             /\ d \in Erased /\ p >= Reach => Nth(new[d], p) = Nth(Lost(d), p)
             /\ d \in Erased /\ p < Reach /\ Recoverable => Nth(new[d], p) = Nth(written[d], p)
  <2>1. /\ d \notin Erased => new[d] = Damaged[d]
        /\ p >= Reach => Nth(new[d], p) = Nth(Damaged[d], p)
    BY <1>1 DEF Spared
  <2>2. ASSUME d \in Erased, p < Reach, Recoverable PROVE Nth(new[d], p) = Nth(written[d], p)
    <3>1. Stage(k, m, w, bits, Damaged, new, Erased, Reach, Packets)
      BY <2>2, RecoverFacts
    <3>2. Nth(new[d], p) = Code(k, w, bits, d, p)
      BY <1>1, <2>2, <3>1 DEF Stage
    <3>3. Nth(written[d], p) = Code(k, w, bits, d, p)
      BY <2>2, WrittenFacts
    <3> QED BY <3>2, <3>3
  <2> QED BY <1>2, <2>1, <2>2
<1>4. Reach \in Nat /\ \A p \in 0..(Packets - 1) : p \in Nat
  BY SizeFacts
<1>5. ASSUME NEW d \in Drives, NEW p \in 0..(Packets - 1)
      PROVE  p >= Reach \/ p < Reach
  BY <1>4
<1> QED BY <1>3, <1>5 DEF Given

\* What depends on the code alone stays.
LEMMA CodeKept ==
  ASSUME shape' = shape
  PROVE  /\ k' = k /\ m' = m /\ w' = w /\ Stripes' = Stripes /\ Extra' = Extra
         /\ Drives' = Drives /\ Coding' = Coding /\ Reach' = Reach /\ Packets' = Packets
         /\ Original' = Original /\ \A d : Content(d)' = Content(d) /\ Lost(d)' = Lost(d)
<1>1. /\ k' = k /\ m' = m /\ w' = w /\ Stripes' = Stripes /\ Extra' = Extra
  BY DEF k, m, w, Stripes, Extra
<1>2. Drives' = Drives /\ Coding' = Coding /\ Reach' = Reach /\ Packets' = Packets
  BY <1>1 DEF Drives, Coding, Reach, Packets
<1>3. \A d : Content(d)' = Content(d) /\ Lost(d)' = Lost(d)
  <2>1. ASSUME NEW d PROVE Content(d)' = Content(d)
    BY <1>2 DEF Content, Tabulate
  <2>2. ASSUME NEW d PROVE Lost(d)' = Lost(d)
    BY <1>1, <1>2 DEF Lost, Tabulate
  <2> QED BY <2>1, <2>2
<1>4. Original' = Original
  BY <1>2, <1>3 DEF Original
<1> QED BY <1>1, <1>2, <1>3, <1>4

LEMMA StripeFirst ==
  ASSUME InUse
  PROVE  StripeOf(w, 0, Reach, Packets)
<1>1. w \in Nat \ {0} /\ Reach \in Nat \ {0} /\ Room(w, Reach, Packets)
  BY UseFacts, SizeFacts
<1>2. PICK v \in Nat \ {0} : v = w
  BY <1>1
<1>3. 0 % v = 0
  <2>1. (0 * v + 0) % v = 0
    <3>1. 0 \in 0..(v - 1) /\ 0 \in Nat
      OBVIOUS
    <3> QED BY <3>1, DivMod
  <2> QED BY <2>1
<1> QED BY <1>1, <1>2, <1>3 DEF StripeOf, Whole

LEMMA EncodedByDots ==
  ASSUME BitInv, CodeInv', EncodeByDots
  PROVE  BitInv'
<1>1. /\ phase = "made" /\ phase' = "encoded" /\ shape \in Shapes /\ bits # NoMatrix
      /\ drives' = jerasure_bitmatrix_encode(k, m, w, bits, [d \in Drives |-> Content(d)], size,
                                             packetsize)
      /\ written' = drives' /\ shape' = shape /\ bits' = bits /\ next' = next
  BY DEF EncodeByDots
<1>2. InUse /\ next = "start"
  BY <1>1 DEF BitInv, CodeInv, InUse, NextKept
<1>3. drives' = jerasure_bitmatrix_encode(k, m, w, bits, Original, size, packetsize)
  BY <1>1 DEF Original
<1>4. ASSUME Extra # 0 PROVE drives' = Original
  <2>1. size % (packetsize * w) # 0
    BY <1>2, <1>4, SizeFacts
  <2> QED BY <1>3, <2>1 DEF jerasure_bitmatrix_encode
<1>5. ASSUME Extra = 0 PROVE IsEncoded(drives')
  <2>1. PICK n \in Nat, c \in Nat, v \in Nat \ {0}, r \in Nat, l \in Nat :
          /\ n = k /\ c = m /\ v = w /\ r = Reach /\ l = Packets /\ Room(v, r, l)
          /\ BitsFor(n, c, v, bits) /\ NoneEmpty(c, v, bits)
    BY <1>2, UseFacts, SizeFacts
  <2>2. size = Reach * 8 /\ packetsize = 8
    BY <1>2, <1>5, SizeFacts
  <2>3. PICK old \in Regions(n + c, l) : old = Original /\ Keeps(n, v, bits, old, 0..(n - 1), r)
    BY <1>2, <2>1, OriginalFacts
  <2>4. Stage(n, c, v, bits, old, jerasure_bitmatrix_encode(n, c, v, bits, old, r * 8, 8),
              n..(n + c - 1), r, l)
    BY <2>1, <2>3, EncodeRight
  <2> QED BY <1>3, <2>1, <2>2, <2>3, <2>4 DEF IsEncoded, Coding
<1>6. EncodedKept'
  <2>1. Extra' = Extra /\ Original' = Original /\ (IsEncoded(drives') => IsEncoded(drives)')
    BY <1>1, CodeKept DEF IsEncoded
  <2> QED BY <1>1, <1>2, <1>4, <1>5, <2>1 DEF EncodedKept
<1>7. NextKept' /\ WrittenKept' /\ LostKept' /\ OperationsKept' /\ DrivesRestored'
  BY <1>1, <1>2 DEF NextKept, WrittenKept, Listed, LostKept, OperationsKept, DrivesRestored
<1> QED BY <1>6, <1>7 DEF BitInv

LEMMA EncodingBegun ==
  ASSUME BitInv, CodeInv', NEW smart, EncodeBySchedule(smart)
  PROVE  BitInv'
<1>1. /\ phase = "made" /\ phase' = "operating" /\ shape \in Shapes /\ bits # NoMatrix
      /\ drives' = Original /\ shape' = shape /\ bits' = bits /\ next' = "encoded"
      /\ op' = 0 /\ base' = 0
  BY DEF EncodeBySchedule, Original
<1>2. InUse
  BY <1>1 DEF BitInv, CodeInv, InUse
<1>3. StripeOf(w, 0, Reach, Packets)
  BY <1>2, StripeFirst
<1>4. 0 \in 0..Len(schedule')
  <2>1. Len(schedule') \in Nat
    BY <1>1 DEF CodeInv, Scheduled, Sound
  <2> QED BY <2>1
<1>5. Carried(k, m, w, bits, m, Ids(k + m), Original, Original, schedule', 0, 0, Packets)
  <2>1. PICK n \in Nat, c \in Nat, v \in Nat \ {0}, l \in Nat :
          n = k /\ c = m /\ v = w /\ l = Packets
    BY <1>2, UseFacts, SizeFacts
  <2>2. PICK old \in Regions(n + c, l) : old = Original
    BY <1>2, <2>1, OriginalFacts
  <2>3. Carried(n, c, v, bits, c, Ids(n + c), old, old, schedule', 0, 0, l)
    BY CarriedStart
  <2> QED BY <2>1, <2>2, <2>3
<1>6. /\ k' = k /\ m' = m /\ w' = w /\ Reach' = Reach /\ Packets' = Packets
      /\ Original' = Original
  BY <1>1, CodeKept
<1>7. ScheduleRows' = bits /\ Targets' = m /\ ptrs' = Ids(k + m) /\ Beginning' = Original
  BY <1>1, <1>6 DEF ScheduleRows, Targets, ptrs, Beginning
<1>8. OperationsKept'
  BY <1>1, <1>3, <1>4, <1>5, <1>6, <1>7 DEF OperationsKept
<1>9. NextKept' /\ EncodedKept' /\ WrittenKept' /\ LostKept' /\ DrivesRestored'
  BY <1>1 DEF NextKept, EncodedKept, WrittenKept, Listed, LostKept, DrivesRestored
<1> QED BY <1>8, <1>9 DEF BitInv

LEMMA DrivesLost ==
  ASSUME BitInv, CodeInv', NEW lost \in SUBSET Drives, NEW list \in Lists(lost), Lose(list)
  PROVE  BitInv'
<1>1. /\ phase = "encoded" /\ Extra = 0 /\ phase' = "lost" /\ erasures' = list
      /\ drives' = [d \in Drives |-> IF d \in {list[n] : n \in DOMAIN list} THEN Lost(d)
                                     ELSE drives[d]]
      /\ shape' = shape /\ bits' = bits /\ written' = written /\ next' = next
  BY DEF Lose
<1>2. InUse
  BY <1>1 DEF BitInv, CodeInv, InUse, OfACode
<1>3. k \in Nat /\ m \in Nat
  BY <1>2, UseFacts
<1>4. NamedIn(list) = lost /\ Len(list) = Cardinality(lost)
  BY <1>3, ListsNames
<1>5. Erased' = lost
  BY <1>1, <1>4 DEF Erased, NamedIn
<1>6. written = drives /\ IsEncoded(written) /\ next # "decoded"
  BY <1>1 DEF BitInv, EncodedKept, NextKept
<1>7. drives' = [d \in Drives |-> IF d \in lost THEN Lost(d) ELSE written[d]]
  BY <1>1, <1>4, <1>6 DEF NamedIn
<1>8. LostKept'
  <2>1. Damaged' = [d \in Drives' |-> IF d \in Erased' THEN Lost(d)' ELSE (written')[d]]
    BY DEF Damaged
  <2>2. Damaged' = [d \in Drives |-> IF d \in lost THEN Lost(d) ELSE written[d]]
    BY <1>1, <1>5, <2>1, CodeKept
  <2> QED BY <1>7, <2>2 DEF LostKept
<1>9. WrittenKept'
  <2>1. Extra' = Extra /\ IsEncoded(written)'
    BY <1>1, <1>6, CodeKept DEF IsEncoded
  <2> QED BY <1>1, <1>4, <1>5, <2>1 DEF WrittenKept
<1>10. NextKept' /\ EncodedKept' /\ OperationsKept' /\ DrivesRestored'
  BY <1>1, <1>6 DEF NextKept, EncodedKept, OperationsKept, DrivesRestored
<1> QED BY <1>8, <1>9, <1>10 DEF BitInv

\* Where the drives of Erased are brought back, nothing else is written.
LEMMA StageSpares ==
  ASSUME InUse, NEW old, old \in Regions(k + m, Packets), NEW new,
         Stage(k, m, w, bits, old, new, Erased, Reach, Packets)
  PROVE  Spared(k, m, old, new, Erased, Reach, Packets)
<1>1. PICK n \in Nat, c \in Nat, N \in Nat, r \in Nat, l \in Nat :
        n = k /\ c = m /\ N = n + c /\ r = Reach /\ l = Packets
  <2>1. k \in Nat /\ m \in Nat /\ Reach \in Nat /\ Packets \in Nat /\ k + m \in Nat
    BY UseFacts, SizeFacts
  <2> QED BY <2>1
<1>2. /\ old \in Regions(N, l) /\ new \in Regions(N, l)
      /\ \A d \in 0..(N - 1) : \A p \in 0..(l - 1) :
           /\ d \notin Erased => Nth(new[d], p) = Nth(old[d], p)
           /\ p >= r => Nth(new[d], p) = Nth(old[d], p)
  BY <1>1 DEF Stage
<1>3. ASSUME NEW d \in 0..(N - 1), d \notin Erased PROVE new[d] = old[d]
  <2> DEFINE S == SUBSET (Nat \X Nat)
  <2>1. new[d] \in [1..l -> S] /\ old[d] \in [1..l -> S]
    BY <1>2 DEF Regions
  <2>2. ASSUME NEW j \in 1..l PROVE new[d][j] = old[d][j]
    <3>1. j - 1 \in 0..(l - 1) /\ (j - 1) + 1 = j
      OBVIOUS
    <3>2. Nth(new[d], j - 1) = Nth(old[d], j - 1)
      BY <1>2, <1>3, <3>1
    <3> QED BY <3>1, <3>2 DEF Nth
  <2> HIDE DEF S
  <2> QED BY <2>1, <2>2
<1> QED BY <1>1, <1>2, <1>3 DEF Spared

\* What is known of the list that is decoded
LEMMA LossFactsNow ==
  ASSUME BitInv, Listed
  PROVE  /\ InUse /\ Extra = 0 /\ IsEncoded(written) /\ Len(erasures) = Cardinality(Erased)
         /\ erasures \in Seq(0..(k + m - 1)) /\ NamedIn(erasures) = Erased
         /\ Erased \in SUBSET Drives /\ Cardinality(Erased) \in Nat
         /\ jerasure_erasures_to_erased(k, m, erasures).ids = Erased
         /\ jerasure_erasures_to_erased(k, m, erasures).ok <=> Cardinality(Erased) <= m
         /\ jerasure_erasures_to_erased(k, m, erasures).ok => LossOf(k, m, Erased)
<1>1. InUse
  BY DEF BitInv, CodeInv, OfACode, InUse, Listed
<1>2. Extra = 0 /\ IsEncoded(written) /\ Len(erasures) = Cardinality(Erased)
  BY DEF BitInv, WrittenKept
<1>3. erasures \in Seq(0..(k + m - 1)) /\ NamedIn(erasures) = Erased
  BY DEF BitInv, CodeInv, ListKept, Drives, NamedIn, Erased
<1>4. k \in Nat /\ m \in Nat
  BY <1>1, UseFacts
<1>5. LET erased == jerasure_erasures_to_erased(k, m, erasures)
      IN  /\ erased.ids = NamedIn(erasures)
          /\ erased.ok <=> Cardinality(NamedIn(erasures)) <= m
          /\ erased.ok => LossOf(k, m, NamedIn(erasures))
          /\ NamedIn(erasures) \in SUBSET (0..(k + m - 1)) /\ IsFiniteSet(NamedIn(erasures))
          /\ Cardinality(NamedIn(erasures)) \in Nat
  BY <1>3, <1>4, ErasedFacts
<1> QED BY <1>1, <1>2, <1>3, <1>5 DEF Drives

\* If decoding leaves what it is to leave, the drives are restored.
LEMMA NowRestored ==
  ASSUME phase' = "decoded", shape' = shape, bits' = bits, erasures' = erasures,
         written' = written, result' \in {0, -1}, Given(drives', result'),
         result' = -1 <=> Cardinality(Erased) > m \/ (~Recoverable /\ next' # "decoded")
  PROVE  DrivesRestored'
<1>1. /\ k' = k /\ m' = m /\ w' = w /\ Drives' = Drives /\ Reach' = Reach /\ Packets' = Packets
      /\ \A d : Lost(d)' = Lost(d)
  BY CodeKept
<1>2. Erased' = Erased
  BY DEF Erased
<1>3. Recoverable' = Recoverable
  BY <1>1, <1>2 DEF Recoverable
<1>4. \A d \in Drives : \A p \in 0..(Packets - 1) :
        CASE d \in Erased /\ (result' = -1 \/ p >= Reach) -> Nth(drives'[d], p) = Nth(Lost(d), p)
          [] d \in Erased /\ result' = 0 /\ p < Reach ->
               Recoverable => Nth(drives'[d], p) = Nth(written[d], p)
          [] OTHER -> Nth(drives'[d], p) = Nth(written[d], p)
  BY DEF Given
<1> QED BY <1>1, <1>2, <1>3, <1>4 DEF DrivesRestored

LEMMA RestoredByDots ==
  ASSUME BitInv, CodeInv', NEW ones \in BOOLEAN, DecodeByDots(ones)
  PROVE  BitInv'
<1> DEFINE decoded == jerasure_bitmatrix_decode(k, m, w, bits, ones, erasures, drives, size,
                                                packetsize)
<1>1. /\ phase = "lost" /\ phase' = "decoded" /\ (ones => RowKOnes)
      /\ drives' = decoded.drives /\ result' = decoded.result
      /\ shape' = shape /\ bits' = bits /\ written' = written /\ erasures' = erasures
      /\ next' = next
  BY DEF DecodeByDots
<1>2. Listed /\ drives = Damaged /\ next # "decoded"
  BY <1>1 DEF Listed, BitInv, LostKept, NextKept
<1>3. /\ InUse /\ Extra = 0 /\ IsEncoded(written) /\ Len(erasures) = Cardinality(Erased)
      /\ Erased \in SUBSET Drives /\ Cardinality(Erased) \in Nat
      /\ jerasure_erasures_to_erased(k, m, erasures).ids = Erased
      /\ jerasure_erasures_to_erased(k, m, erasures).ok <=> Cardinality(Erased) <= m
      /\ jerasure_erasures_to_erased(k, m, erasures).ok => LossOf(k, m, Erased)
  BY <1>2, LossFactsNow
<1>4. PICK ok \in BOOLEAN : ok = jerasure_erasures_to_erased(k, m, erasures).ok
  <2> DEFINE S == {erasures[j] : j \in DOMAIN erasures}
  <2>1. jerasure_erasures_to_erased(k, m, erasures).ok = (k + m - Cardinality(S) >= k)
    BY DEF jerasure_erasures_to_erased
  <2>2. (k + m - Cardinality(S) >= k) \in BOOLEAN
    <3>1. S = Erased
      BY DEF Erased
    <3>2. k \in Nat /\ m \in Nat /\ Cardinality(S) \in Nat
      BY <1>3, <3>1, UseFacts
    <3> HIDE DEF S
    <3> QED BY <3>2
  <2> QED BY <2>1, <2>2
<1>5. DotsDecode(k, m, w, bits, ok, Erased, Damaged, Reach, Packets, decoded)
  <2>1. PICK n \in Nat, c \in Nat \ {0}, v \in Nat \ {0}, r \in Nat, l \in Nat :
          /\ n = k /\ c = m /\ v = w /\ r = Reach /\ l = Packets /\ Room(v, r, l)
          /\ BitsFor(n, c, v, bits) /\ NoneEmpty(c, v, bits) /\ (ones => Parity(n, v, bits))
    BY <1>1, <1>3, UseFacts, SizeFacts DEF RowKOnes, Parity
  <2>2. size = Reach * 8 /\ packetsize = 8
    BY <1>3, SizeFacts
  <2>3. PICK old \in Regions(n + c, l) : /\ old = Damaged
                                         /\ Keeps(n, v, bits, old, Left(n, c, Erased), r)
    BY <1>3, <2>1, DamagedFacts
  <2>4. PICK erased : erased = Erased
    OBVIOUS
  <2>5. /\ jerasure_erasures_to_erased(n, c, erasures).ok = ok
        /\ jerasure_erasures_to_erased(n, c, erasures).ids = erased
        /\ ok => LossOf(n, c, erased)
        /\ Keeps(n, v, bits, old, Left(n, c, erased), r)
    BY <1>3, <1>4, <2>1, <2>3, <2>4
  <2>6. DotsDecode(n, c, v, bits, ok, erased, old, r, l,
          jerasure_bitmatrix_decode(n, c, v, bits, ones, erasures, old, r * 8, 8))
    BY <2>1, <2>5, DotsDecodeRight
  <2> QED BY <1>2, <2>1, <2>2, <2>3, <2>4, <2>6
<1> HIDE DEF decoded
<1>6. /\ decoded.result \in {0, -1}
      /\ decoded.result = 0 <=> ok /\ Recovers(k, m, w, bits, Erased)
      /\ decoded.result = 0 =>
           Stage(k, m, w, bits, Damaged, decoded.drives, Erased, Reach, Packets)
      /\ decoded.result = -1 => decoded.drives = Damaged
  BY <1>5 DEF DotsDecode
<1>7. decoded.result = -1 <=> Cardinality(Erased) > m \/ ~Recoverable
  <2>1. ok <=> Cardinality(Erased) <= m
    BY <1>3, <1>4
  <2>2. ok => (Recoverable <=> Recovers(k, m, w, bits, Erased))
    BY <1>3, <1>4, RecoverFacts
  <2>3. decoded.result = -1 <=> ~(decoded.result = 0)
    BY <1>6
  <2>4. m \in Nat /\ Cardinality(Erased) \in Nat
    BY <1>3, UseFacts
  <2>5. Cardinality(Erased) > m <=> ~(Cardinality(Erased) <= m)
    BY <2>4
  <2> QED BY <1>6, <2>1, <2>2, <2>3, <2>5
<1>8. Given(drives', result')
  <2>1. CASE decoded.result = -1
    BY <1>1, <1>3, <1>6, <2>1, GivenNothing
  <2>2. CASE decoded.result = 0
    <3>1. Stage(k, m, w, bits, Damaged, decoded.drives, Erased, Reach, Packets)
      BY <1>6, <2>2
    <3>2. LossOf(k, m, Erased)
      BY <1>3, <1>4, <1>6, <2>2
    <3>3. Spared(k, m, Damaged, decoded.drives, Erased, Reach, Packets)
      BY <1>3, <3>1, DamagedFacts, StageSpares
    <3>4. Given(decoded.drives, 0)
      BY <1>3, <3>1, <3>2, <3>3, GivenBack
    <3> QED BY <1>1, <2>2, <3>4
  <2> QED BY <1>6, <2>1, <2>2
<1>9. DrivesRestored'
  BY <1>1, <1>2, <1>6, <1>7, <1>8, NowRestored
<1>10. WrittenKept'
  <2>1. Extra' = Extra /\ IsEncoded(written)' /\ Erased' = Erased
    BY <1>1, <1>3, CodeKept DEF IsEncoded, Erased
  <2> QED BY <1>1, <1>3, <2>1 DEF WrittenKept
<1>11. NextKept' /\ EncodedKept' /\ LostKept' /\ OperationsKept'
  BY <1>1 DEF NextKept, EncodedKept, LostKept, OperationsKept
<1> QED BY <1>9, <1>10, <1>11 DEF BitInv

LEMMA RestoredNothing ==
  ASSUME BitInv, CodeInv', DecodeTooMany
  PROVE  BitInv'
<1>1. /\ phase = "lost" /\ phase' = "decoded" /\ m = 2 /\ Len(erasures) > 2
      /\ drives' = drives /\ result' = -1 /\ next' = next
      /\ shape' = shape /\ bits' = bits /\ written' = written /\ erasures' = erasures
  BY DEF DecodeTooMany
<1>2. Listed /\ drives = Damaged /\ next # "decoded"
  BY <1>1 DEF Listed, BitInv, LostKept, NextKept
<1>3. /\ InUse /\ Extra = 0 /\ IsEncoded(written) /\ Len(erasures) = Cardinality(Erased)
      /\ Erased \in SUBSET Drives
  BY <1>2, LossFactsNow
<1>4. Given(drives', result')
  BY <1>1, <1>2, <1>3, GivenNothing
<1>5. DrivesRestored'
  BY <1>1, <1>3, <1>4, NowRestored
<1>6. WrittenKept'
  <2>1. Extra' = Extra /\ IsEncoded(written)' /\ Erased' = Erased
    BY <1>1, <1>3, CodeKept DEF IsEncoded, Erased
  <2> QED BY <1>1, <1>3, <2>1 DEF WrittenKept
<1>7. NextKept' /\ EncodedKept' /\ LostKept' /\ OperationsKept'
  BY <1>1 DEF NextKept, EncodedKept, LostKept, OperationsKept
<1> QED BY <1>5, <1>6, <1>7 DEF BitInv

LEMMA DecodingBegun ==
  ASSUME BitInv, CodeInv', NEW ops, DecodeBySchedule(ops)
  PROVE  BitInv'
<1>1. /\ phase = "lost" /\ next' = "decoded" /\ op' = 0 /\ base' = 0
      /\ IF jerasure_erasures_to_erased(k, m, erasures).ok
         THEN phase' = "operating" /\ schedule' = ops /\ result' = result
         ELSE phase' = "decoded" /\ result' = -1
      /\ drives' = drives
      /\ shape' = shape /\ bits' = bits /\ written' = written /\ erasures' = erasures
  BY DEF DecodeBySchedule
<1>2. Listed /\ drives = Damaged
  BY <1>1 DEF Listed, BitInv, LostKept
<1>3. /\ InUse /\ Extra = 0 /\ IsEncoded(written) /\ Len(erasures) = Cardinality(Erased)
      /\ Erased \in SUBSET Drives /\ Cardinality(Erased) \in Nat
      /\ jerasure_erasures_to_erased(k, m, erasures).ok <=> Cardinality(Erased) <= m
  BY <1>2, LossFactsNow
<1>4. /\ k' = k /\ m' = m /\ w' = w /\ Drives' = Drives /\ Reach' = Reach /\ Packets' = Packets
      /\ Extra' = Extra /\ Original' = Original /\ Coding' = Coding
      /\ \A d : Lost(d)' = Lost(d)
  BY <1>1, CodeKept
<1>5. Erased' = Erased
  BY <1>1 DEF Erased
<1>6. WrittenKept'
  <2>1. IsEncoded(written)'
    BY <1>1, <1>3, <1>4 DEF IsEncoded
  <2> QED BY <1>1, <1>3, <1>4, <1>5, <2>1 DEF WrittenKept
<1>7. DrivesRestored'
  <2>1. CASE phase' = "decoded"
    <3>1. result' = -1 /\ Cardinality(Erased) > m
      <4>1. ~(Cardinality(Erased) <= m) /\ result' = -1
        BY <1>1, <1>3, <2>1
      <4>2. m \in Nat
        BY <1>3, UseFacts
      <4> QED BY <1>3, <4>1, <4>2
    <3>2. Given(drives', result')
      BY <1>1, <1>2, <1>3, <3>1, GivenNothing
    <3> QED BY <1>1, <2>1, <3>1, <3>2, NowRestored
  <2>2. CASE phase' # "decoded"
    BY <2>2 DEF DrivesRestored
  <2> QED BY <2>1, <2>2
<1>8. OperationsKept'
  <2> SUFFICES ASSUME phase' = "operating" PROVE OperationsKept'
    BY DEF OperationsKept
  <2>1. StripeOf(w, 0, Reach, Packets)
    BY <1>3, StripeFirst
  <2>2. 0 \in 0..Len(schedule')
    <3>1. Len(schedule') \in Nat
      BY DEF CodeInv, Scheduled, Sound
    <3> QED BY <3>1
  <2>3. /\ ScheduleRows' = RowsLost(k, m, w, bits, Erased) /\ Targets' = Cardinality(Erased)
        /\ ptrs' = row_ids(k, m, Erased) /\ Beginning' = Damaged
    <3>1. Damaged' = Damaged
      BY <1>1, <1>4, <1>5 DEF Damaged
    <3>2. {erasures[j] : j \in DOMAIN erasures} = Erased
      BY DEF Erased
    <3> QED BY <1>1, <1>4, <1>5, <3>1, <3>2 DEF ScheduleRows, Targets, ptrs, Beginning
  <2>4. Carried(k, m, w, RowsLost(k, m, w, bits, Erased), Cardinality(Erased),
                row_ids(k, m, Erased), Damaged, Damaged, schedule', 0, 0, Packets)
    <3>1. PICK n \in Nat, c \in Nat, v \in Nat \ {0}, l \in Nat, e \in Nat :
            n = k /\ c = m /\ v = w /\ l = Packets /\ e = Cardinality(Erased)
      BY <1>3, UseFacts, SizeFacts
    <3>2. PICK old \in Regions(n + c, l) : old = Damaged
      BY <1>3, <3>1, DamagedFacts
    <3>3. PICK rows, ids : rows = RowsLost(k, m, w, bits, Erased) /\ ids = row_ids(k, m, Erased)
      OBVIOUS
    <3>4. Carried(n, c, v, rows, e, ids, old, old, schedule', 0, 0, l)
      BY CarriedStart
    <3> QED BY <3>1, <3>2, <3>3, <3>4
  <2> QED BY <1>1, <1>2, <1>4, <2>1, <2>2, <2>3, <2>4 DEF OperationsKept
<1>9. NextKept' /\ EncodedKept' /\ LostKept'
  BY <1>1 DEF NextKept, EncodedKept, LostKept
<1> QED BY <1>6, <1>7, <1>8, <1>9 DEF BitInv

\* What is known while a schedule is carried out
LEMMA OperatingFacts ==
  ASSUME BitInv, phase = "operating"
  PROVE  /\ InUse /\ next \in {"encoded", "decoded"} /\ (next = "decoded" => LossOf(k, m, Erased))
         /\ Targets \in Nat /\ PointersFor(k, m, Targets, ptrs)
         /\ ScheduleFor(k, w, ScheduleRows, Targets, schedule) /\ Len(schedule) \in Nat
         /\ StripeOf(w, base, Reach, Packets) /\ op \in 0..Len(schedule)
         /\ Carried(k, m, w, ScheduleRows, Targets, ptrs, Beginning, drives, schedule, base, op,
                    Packets)
<1>1. InUse
  BY DEF BitInv, CodeInv, OfACode, InUse
<1>2. /\ next \in {"encoded", "decoded"} /\ (next = "decoded" => LossOf(k, m, Erased))
      /\ Sound(k, w, ScheduleRows, schedule, AllRows(ScheduleRows))
  BY DEF BitInv, CodeInv, Scheduled
<1>3. k \in Nat /\ m \in Nat /\ w \in Nat \ {0} /\ BitsFor(k, m, w, bits)
  BY <1>1, UseFacts
<1>4. /\ StripeOf(w, base, Reach, Packets) /\ op \in 0..Len(schedule)
      /\ Carried(k, m, w, ScheduleRows, Targets, ptrs, Beginning, drives, schedule, base, op,
                 Packets)
  BY DEF BitInv, OperationsKept
<1>5. /\ Targets \in Nat /\ PointersFor(k, m, Targets, ptrs)
      /\ RowsOn(k, w, ScheduleRows) /\ Len(ScheduleRows) = Targets * w
  <2>1. CASE next = "encoded"
    <3>1. PointersFor(k, m, m, Ids(k + m))
      BY <1>3, AllInPlace
    <3> QED BY <1>3, <2>1, <3>1 DEF Targets, ptrs, ScheduleRows, BitsFor
  <2>2. CASE next = "decoded"
    <3>1. /\ RowsAgain(k, w, bits, row_ids(k, m, Erased), RowsLost(k, m, w, bits, Erased),
                       Cardinality(Erased))
          /\ Len(row_ids(k, m, Erased)) = k + Cardinality(Erased)
          /\ Cardinality(Erased) \in Nat
      BY <1>2, <1>3, <2>2, RowsLostRight
    <3>2. PointersFor(k, m, Cardinality(Erased), row_ids(k, m, Erased))
      BY <1>2, <1>3, <2>2, PointersGood
    <3>3. {erasures[j] : j \in DOMAIN erasures} = Erased
      BY DEF Erased
    <3> QED BY <2>2, <3>1, <3>2, <3>3 DEF Targets, ptrs, ScheduleRows, RowsAgain
  <2> QED BY <1>2, <2>1, <2>2
<1>6. Len(schedule) \in Nat
  BY <1>2 DEF Sound
<1> QED BY <1>1, <1>2, <1>4, <1>5, <1>6 DEF ScheduleFor

\* What depends on the list and on what the schedule is for stays as well.
LEMMA ScheduleKept ==
  ASSUME shape' = shape, bits' = bits, erasures' = erasures, next' = next, written' = written
  PROVE  /\ Erased' = Erased /\ ScheduleRows' = ScheduleRows /\ Targets' = Targets
         /\ ptrs' = ptrs /\ Beginning' = Beginning
<1>1. /\ k' = k /\ m' = m /\ w' = w /\ Drives' = Drives /\ Original' = Original
      /\ \A d : Lost(d)' = Lost(d)
  BY CodeKept
<1>2. Erased' = Erased
  BY DEF Erased
<1>3. Damaged' = Damaged
  BY <1>1, <1>2 DEF Damaged
<1> QED BY <1>1, <1>2, <1>3 DEF ScheduleRows, Targets, ptrs, Beginning

LEMMA OperationDone ==
  ASSUME BitInv, CodeInv', DoOperation
  PROVE  BitInv'
<1>1. /\ phase = "operating" /\ op < Len(schedule) /\ op' = op + 1
      /\ drives' = Operate(ptrs, schedule[op + 1], base, drives)
      /\ phase' = phase /\ shape' = shape /\ bits' = bits /\ written' = written
      /\ erasures' = erasures /\ schedule' = schedule /\ base' = base /\ next' = next
  BY DEF DoOperation
<1>2. /\ InUse /\ next \in {"encoded", "decoded"}
      /\ Targets \in Nat /\ PointersFor(k, m, Targets, ptrs)
      /\ ScheduleFor(k, w, ScheduleRows, Targets, schedule) /\ Len(schedule) \in Nat
      /\ StripeOf(w, base, Reach, Packets) /\ op \in 0..Len(schedule)
      /\ Carried(k, m, w, ScheduleRows, Targets, ptrs, Beginning, drives, schedule, base, op,
                 Packets)
  BY <1>1, OperatingFacts
<1>3. op + 1 \in 1..Len(schedule) /\ op + 1 \in 0..Len(schedule)
  BY <1>1, <1>2
<1>4. Carried(k, m, w, ScheduleRows, Targets, ptrs, Beginning, drives', schedule, base, op + 1,
              Packets)
  <2>1. PICK n \in Nat, c \in Nat, v \in Nat \ {0}, t \in Nat, l \in Nat, r \in Nat, b \in Nat,
             o \in Nat :
          /\ n = k /\ c = m /\ v = w /\ t = Targets /\ l = Packets /\ r = Reach /\ b = base
          /\ o = op
    <3>1. k \in Nat /\ m \in Nat /\ w \in Nat \ {0} /\ Packets \in Nat /\ Reach \in Nat
      BY <1>2, UseFacts, SizeFacts
    <3>2. base \in Nat
      BY <1>2 DEF StripeOf
    <3>3. op \in Nat
      BY <1>2
    <3> QED BY <1>2, <3>1, <3>2, <3>3
  <2>2. PICK rows, ids, old : rows = ScheduleRows /\ ids = ptrs /\ old = Beginning
    OBVIOUS
  <2>3. /\ ScheduleFor(n, v, rows, t, schedule) /\ PointersFor(n, c, t, ids)
        /\ StripeOf(v, b, r, l) /\ o + 1 \in 1..Len(schedule)
        /\ Carried(n, c, v, rows, t, ids, old, drives, schedule, b, o, l)
    BY <1>2, <1>3, <2>1, <2>2
  <2>4. Carried(n, c, v, rows, t, ids, old, Operate(ids, schedule[o + 1], b, drives), schedule,
                b, o + 1, l)
    BY <2>3, OperateRight
  <2> QED BY <1>1, <2>1, <2>2, <2>4
<1>5. /\ ScheduleRows' = ScheduleRows /\ Targets' = Targets /\ ptrs' = ptrs
      /\ Beginning' = Beginning /\ Erased' = Erased
  BY <1>1, ScheduleKept
<1>6. /\ k' = k /\ m' = m /\ w' = w /\ Reach' = Reach /\ Packets' = Packets
      /\ Extra' = Extra /\ Original' = Original /\ Coding' = Coding
  BY <1>1, CodeKept
<1>7. OperationsKept'
  BY <1>1, <1>2, <1>3, <1>4, <1>5, <1>6 DEF OperationsKept
<1>8. WrittenKept'
  <2>1. Listed' => Listed
    BY <1>1 DEF Listed
  <2>2. Listed => Extra = 0 /\ IsEncoded(written) /\ Len(erasures) = Cardinality(Erased)
    BY DEF BitInv, WrittenKept
  <2>3. IsEncoded(written) => IsEncoded(written)'
    BY <1>1, <1>6 DEF IsEncoded
  <2> QED BY <1>1, <1>5, <1>6, <2>1, <2>2, <2>3 DEF WrittenKept
<1>9. NextKept' /\ EncodedKept' /\ LostKept' /\ DrivesRestored'
  BY <1>1 DEF NextKept, EncodedKept, LostKept, DrivesRestored
<1> QED BY <1>7, <1>8, <1>9 DEF BitInv

LEMMA WholeNext ==
  ASSUME NEW v \in Nat \ {0}, NEW r \in Nat, NEW b \in Nat, Whole(v, b), Whole(v, r), b < r
  PROVE  Whole(v, b + v) /\ b + v <= r
<1>1. (b + v) % v = 0
  <2>1. PICK x \in Nat, z \in 0..(v - 1) : b = x * v + z /\ z = b % v
    <3>1. b = (b \div v) * v + (b % v) /\ b \div v \in Nat /\ b % v \in 0..(v - 1)
      BY DivMod
    <3> QED BY <3>1
  <2>2. z = 0
    BY <2>1 DEF Whole
  <2>3. ((x + 1) * v + 0) % v = 0
    <3>1. x + 1 \in Nat /\ 0 \in 0..(v - 1)
      OBVIOUS
    <3> QED BY <3>1, DivMod
  <2>4. (x + 1) * v + 0 = b + v
    BY <2>1, <2>2
  <2> QED BY <2>3, <2>4
<1>2. b + v <= r
  <2>1. PICK p \in Nat : p = b + v
    OBVIOUS
  <2>2. p % v = 0 /\ p - (p % v) = p
    BY <1>1, <2>1
  <2>3. p - (p % v) < r + v <=> p - (p % v) <= r
    BY StripeOrder
  <2>4. p < r + v
    BY <2>1
  <2> QED BY <2>1, <2>2, <2>3, <2>4
<1> QED BY <1>1, <1>2 DEF Whole

LEMMA NextStripe ==
  ASSUME BitInv, CodeInv', StripeDone, MoreStripes(base + w)
  PROVE  BitInv'
<1>1. /\ phase = "operating" /\ op = Len(schedule) /\ op' = 0 /\ base' = base + w
      /\ drives' = drives /\ result' = result
      /\ phase' = phase /\ shape' = shape /\ bits' = bits /\ written' = written
      /\ erasures' = erasures /\ schedule' = schedule /\ next' = next
  BY DEF StripeDone
<1>2. /\ InUse /\ next \in {"encoded", "decoded"}
      /\ Targets \in Nat /\ Len(schedule) \in Nat
      /\ StripeOf(w, base, Reach, Packets)
      /\ Carried(k, m, w, ScheduleRows, Targets, ptrs, Beginning, drives, schedule, base, op,
                 Packets)
  BY <1>1, OperatingFacts
<1>3. PICK n \in Nat, c \in Nat, v \in Nat \ {0}, t \in Nat, l \in Nat, r \in Nat, b \in Nat :
        n = k /\ c = m /\ v = w /\ t = Targets /\ l = Packets /\ r = Reach /\ b = base
  BY <1>2, UseFacts, SizeFacts DEF StripeOf
<1>4. StripeOf(v, b + v, r, l)
  <2>1. StripeOf(v, b, r, l)
    BY <1>2, <1>3
  <2>2. Whole(v, b) /\ Whole(v, r) /\ b < r /\ Room(v, r, l)
    BY <2>1 DEF StripeOf, Room
  <2>3. Whole(v, b + v)
    BY <2>2, WholeNext
  <2>4. b + v < r
    <3>1. PICK x \in Nat : x = b + v
      OBVIOUS
    <3>2. MoreStripes(x) /\ Whole(w, x)
      BY <1>3, <2>3, <3>1
    <3>3. x < Reach
      BY <1>2, <3>2, SizeFacts
    <3> QED BY <1>3, <3>1, <3>3
  <2> QED BY <2>2, <2>3, <2>4 DEF StripeOf
<1>5. Carried(k, m, w, ScheduleRows, Targets, ptrs, Beginning, drives, schedule, base + w, 0,
              Packets)
  <2>1. PICK rows, ids, old : rows = ScheduleRows /\ ids = ptrs /\ old = Beginning
    OBVIOUS
  <2>2. /\ StripeOf(v, b, r, l)
        /\ Carried(n, c, v, rows, t, ids, old, drives, schedule, b, Len(schedule), l)
    BY <1>1, <1>2, <1>3, <2>1
  <2>3. Carried(n, c, v, rows, t, ids, old, drives, schedule, b + v, 0, l)
    BY <2>2, CarriedStripe
  <2> QED BY <1>3, <2>1, <2>3
<1>6. /\ ScheduleRows' = ScheduleRows /\ Targets' = Targets /\ ptrs' = ptrs
      /\ Beginning' = Beginning /\ Erased' = Erased
  BY <1>1, ScheduleKept
<1>7. /\ k' = k /\ m' = m /\ w' = w /\ Reach' = Reach /\ Packets' = Packets
      /\ Extra' = Extra /\ Original' = Original /\ Coding' = Coding
  BY <1>1, CodeKept
<1>8. OperationsKept'
  <2>1. StripeOf(w, base + w, Reach, Packets)
    BY <1>3, <1>4
  <2>2. 0 \in 0..Len(schedule)
    BY <1>2
  <2> QED BY <1>1, <1>5, <1>6, <1>7, <2>1, <2>2 DEF OperationsKept
<1>9. WrittenKept'
  <2>1. Listed' => Listed
    BY <1>1 DEF Listed
  <2>2. Listed => Extra = 0 /\ IsEncoded(written) /\ Len(erasures) = Cardinality(Erased)
    BY DEF BitInv, WrittenKept
  <2>3. IsEncoded(written) => IsEncoded(written)'
    BY <1>1, <1>7 DEF IsEncoded
  <2> QED BY <1>1, <1>6, <1>7, <2>1, <2>2, <2>3 DEF WrittenKept
<1>10. NextKept' /\ EncodedKept' /\ LostKept' /\ DrivesRestored'
  BY <1>1 DEF NextKept, EncodedKept, LostKept, DrivesRestored
<1> QED BY <1>8, <1>9, <1>10 DEF BitInv

LEMMA LastStripeDone ==
  ASSUME BitInv, CodeInv', StripeDone, ~MoreStripes(base + w)
  PROVE  BitInv'
<1>1. /\ phase = "operating" /\ op = Len(schedule) /\ phase' = next
      /\ written' = (IF next = "encoded" THEN drives ELSE written) /\ result' = 0
      /\ drives' = drives /\ shape' = shape /\ bits' = bits
      /\ erasures' = erasures /\ schedule' = schedule /\ next' = next
  BY DEF StripeDone
<1>2. /\ InUse /\ next \in {"encoded", "decoded"} /\ (next = "decoded" => LossOf(k, m, Erased))
      /\ Targets \in Nat /\ Len(schedule) \in Nat
      /\ ScheduleFor(k, w, ScheduleRows, Targets, schedule)
      /\ StripeOf(w, base, Reach, Packets)
      /\ Carried(k, m, w, ScheduleRows, Targets, ptrs, Beginning, drives, schedule, base, op,
                 Packets)
  BY <1>1, OperatingFacts
<1>3. PICK n \in Nat, c \in Nat, v \in Nat \ {0}, t \in Nat, l \in Nat, r \in Nat, b \in Nat :
        /\ n = k /\ c = m /\ v = w /\ t = Targets /\ l = Packets /\ r = Reach /\ b = base
        /\ BitsFor(n, c, v, bits) /\ NoneEmpty(c, v, bits)
  BY <1>2, UseFacts, SizeFacts DEF StripeOf
<1>4. StripeOf(v, b, r, l) /\ LastStripe(v, b, r)
  <2>1. StripeOf(v, b, r, l)
    BY <1>2, <1>3
  <2>2. Whole(v, b) /\ Whole(v, r) /\ b < r
    BY <2>1 DEF StripeOf, Room
  <2>3. Whole(v, b + v) /\ b + v <= r
    BY <2>2, WholeNext
  <2>4. ~(b + v < r)
    <3>1. PICK x \in Nat : x = b + v
      OBVIOUS
    <3>2. ~MoreStripes(x) /\ Whole(w, x)
      BY <1>3, <2>3, <3>1
    <3>3. ~(x < Reach)
      BY <1>2, <3>2, SizeFacts
    <3> QED BY <1>3, <3>1, <3>3
  <2>5. b + v = r
    BY <2>3, <2>4
  <2> QED BY <2>1, <2>5 DEF LastStripe
<1>5. PICK rows, ids, old :
        /\ rows = ScheduleRows /\ ids = ptrs /\ old = Beginning
        /\ ScheduleFor(n, v, rows, t, schedule)
        /\ Carried(n, c, v, rows, t, ids, old, drives, schedule, b, Len(schedule), l)
  BY <1>1, <1>2, <1>3
<1>6. /\ k' = k /\ m' = m /\ w' = w /\ Reach' = Reach /\ Packets' = Packets
      /\ Extra' = Extra /\ Original' = Original /\ Coding' = Coding
  BY <1>1, CodeKept
<1>7. CASE next = "encoded"
  <2>1. Stage(n, c, v, bits, old, drives, n..(n + c - 1), r, l)
    <3>1. old = Original /\ t = c /\ rows = bits
      BY <1>3, <1>5, <1>7 DEF Beginning, Targets, ScheduleRows
    <3>2. ids = Ids(n + c)
      BY <1>3, <1>5, <1>7 DEF ptrs
    <3>3. Keeps(n, v, bits, old, 0..(n - 1), r)
      BY <1>2, <1>3, <3>1, OriginalFacts
    <3>4. ScheduleFor(n, v, bits, c, schedule)
      BY <1>5, <3>1
    <3>5. Carried(n, c, v, bits, c, Ids(n + c), old, drives, schedule, b, Len(schedule), l)
      BY <1>5, <3>1, <3>2
    <3> QED BY <1>3, <1>4, <3>3, <3>4, <3>5, EncodingDone
  <2>2. IsEncoded(drives)
    <3>1. old = Original
      BY <1>5, <1>7 DEF Beginning
    <3> QED BY <1>3, <2>1, <3>1 DEF IsEncoded, Coding
  <2>3. EncodedKept'
    <3>1. IsEncoded(drives)'
      BY <1>1, <1>6, <2>2 DEF IsEncoded
    <3> QED BY <1>1, <1>7, <3>1 DEF EncodedKept
  <2>4. NextKept' /\ WrittenKept' /\ LostKept' /\ OperationsKept' /\ DrivesRestored'
    BY <1>1, <1>7 DEF NextKept, WrittenKept, Listed, LostKept, OperationsKept, DrivesRestored
  <2> QED BY <2>3, <2>4 DEF BitInv
<1>8. CASE next = "decoded"
  <2>1. LossOf(k, m, Erased) /\ Listed
    BY <1>1, <1>2, <1>8 DEF Listed
  <2>2. /\ Extra = 0 /\ IsEncoded(written) /\ Len(erasures) = Cardinality(Erased)
        /\ Erased \in SUBSET Drives /\ Cardinality(Erased) \in Nat
    BY <2>1, LossFactsNow
  <2>3. PICK erased : erased = Erased
    OBVIOUS
  <2>4. /\ Spared(n, c, old, drives, erased, r, l)
        /\ Recovers(n, c, v, bits, erased) =>
             Stage(n, c, v, bits, old, drives, erased, r, l)
    <3>1. SizeIs(t, erased)
      BY <1>3, <1>8, <2>3 DEF SizeIs, Targets
    <3>2. PointersAre(n, c, erased, ids)
      BY <1>3, <1>5, <1>8, <2>3 DEF PointersAre, ptrs, Erased
    <3>3. RowsAgain(n, v, bits, ids, rows, t)
      <4>1. RowsAgain(k, w, bits, row_ids(k, m, Erased), RowsLost(k, m, w, bits, Erased),
                      Cardinality(Erased))
        BY <1>2, <2>1, UseFacts, RowsLostRight
      <4>2. rows = RowsLost(k, m, w, bits, Erased) /\ ids = row_ids(k, m, Erased)
        BY <1>5, <1>8 DEF ScheduleRows, ptrs, Erased
      <4>3. t = Cardinality(Erased)
        BY <1>3, <1>8 DEF Targets
      <4> QED BY <1>3, <4>1, <4>2, <4>3
    <3>4. Keeps(n, v, bits, old, Left(n, c, erased), r)
      <4>1. old = Damaged
        BY <1>5, <1>8 DEF Beginning
      <4> QED BY <1>2, <1>3, <2>2, <2>3, <4>1, DamagedFacts
    <3>5. LossOf(n, c, erased)
      BY <1>3, <2>1, <2>3
    <3> QED BY <1>3, <1>4, <1>5, <3>1, <3>2, <3>3, <3>4, <3>5, DecodingDone
  <2>5. Given(drives, 0)
    <3>1. old = Damaged
      BY <1>5, <1>8 DEF Beginning
    <3>2. /\ Spared(k, m, Damaged, drives, Erased, Reach, Packets)
          /\ Recovers(k, m, w, bits, Erased) =>
               Stage(k, m, w, bits, Damaged, drives, Erased, Reach, Packets)
      BY <1>3, <2>3, <2>4, <3>1
    <3> QED BY <1>2, <2>1, <2>2, <3>2, GivenBack
  <2>6. DrivesRestored'
    <3>1. ~(Cardinality(Erased) > m)
      <4>1. Cardinality(Erased) <= m /\ m \in Nat
        BY <1>2, <2>1, UseFacts DEF LossOf
      <4> QED BY <2>2, <4>1
    <3>2. written' = written /\ phase' = "decoded" /\ next' = "decoded"
      BY <1>1, <1>8
    <3>3. Given(drives', result')
      BY <1>1, <2>5
    <3> QED BY <1>1, <3>1, <3>2, <3>3, NowRestored
  <2>7. WrittenKept'
    <3>1. Erased' = Erased /\ written' = written
      BY <1>1, <1>8 DEF Erased
    <3>2. IsEncoded(written)'
      BY <1>1, <1>6, <2>2, <3>1 DEF IsEncoded
    <3> QED BY <1>1, <1>6, <2>2, <3>1, <3>2 DEF WrittenKept
  <2>8. NextKept' /\ EncodedKept' /\ LostKept' /\ OperationsKept'
    BY <1>1, <1>8 DEF NextKept, EncodedKept, LostKept, OperationsKept
  <2> QED BY <2>6, <2>7, <2>8 DEF BitInv
<1> QED BY <1>2, <1>7, <1>8

LEMMA BitInitially ==
  ASSUME BitInit
  PROVE  BitInv
<1>1. CodeInv
  BY CodeInitially
<1>2. phase = "start" /\ next = "start"
  BY DEF BitInit
<1>3. NextKept /\ EncodedKept /\ WrittenKept /\ LostKept /\ OperationsKept /\ DrivesRestored
  BY <1>2 DEF NextKept, EncodedKept, WrittenKept, Listed, LostKept, OperationsKept,
              DrivesRestored
<1> QED BY <1>1, <1>3 DEF BitInv

LEMMA Unchanging ==
  ASSUME BitInv, CodeInv', UNCHANGED bitVars
  PROVE  BitInv'
<1>1. /\ phase' = phase /\ shape' = shape /\ bits' = bits /\ drives' = drives
      /\ written' = written /\ erasures' = erasures /\ result' = result
      /\ schedule' = schedule /\ op' = op /\ base' = base /\ next' = next
  BY DEF bitVars
<1>2. /\ k' = k /\ m' = m /\ w' = w /\ Drives' = Drives /\ Reach' = Reach /\ Packets' = Packets
      /\ Extra' = Extra /\ Original' = Original /\ Coding' = Coding
      /\ \A d : Lost(d)' = Lost(d)
  BY <1>1, CodeKept
<1>3. /\ Erased' = Erased /\ ScheduleRows' = ScheduleRows /\ Targets' = Targets
      /\ ptrs' = ptrs /\ Beginning' = Beginning
  BY <1>1, ScheduleKept
<1>4. NextKept' /\ EncodedKept'
  <2>1. IsEncoded(drives) => IsEncoded(drives)'
    BY <1>1, <1>2 DEF IsEncoded
  <2> QED BY <1>1, <1>2, <2>1 DEF BitInv, NextKept, EncodedKept
<1>5. WrittenKept'
  <2>1. IsEncoded(written) => IsEncoded(written)'
    BY <1>1, <1>2 DEF IsEncoded
  <2>2. Listed' => Listed
    BY <1>1 DEF Listed
  <2>3. Listed => Extra = 0 /\ IsEncoded(written) /\ Len(erasures) = Cardinality(Erased)
    BY DEF BitInv, WrittenKept
  <2> QED BY <1>1, <1>2, <1>3, <2>1, <2>2, <2>3 DEF WrittenKept
<1>6. LostKept'
  <2>1. Damaged' = Damaged
    BY <1>1, <1>2, <1>3 DEF Damaged
  <2> QED BY <1>1, <2>1 DEF BitInv, LostKept
<1>7. OperationsKept'
  <2> SUFFICES ASSUME phase = "operating" PROVE OperationsKept'
    BY <1>1 DEF OperationsKept
  <2>1. /\ StripeOf(w, base, Reach, Packets) /\ op \in 0..Len(schedule)
        /\ Carried(k, m, w, ScheduleRows, Targets, ptrs, Beginning, drives, schedule, base, op,
                   Packets)
    BY DEF BitInv, OperationsKept
  <2> QED BY <1>1, <1>2, <1>3, <2>1 DEF OperationsKept
<1>8. DrivesRestored'
  <2> SUFFICES ASSUME phase = "decoded" PROVE DrivesRestored'
    BY <1>1 DEF DrivesRestored
  <2>1. Recoverable' = Recoverable
    BY <1>1, <1>2, <1>3 DEF Recoverable
  <2>2. /\ result = -1 <=> \/ Cardinality(Erased) > m
                           \/ ~Recoverable /\ next # "decoded"
        /\ Given(drives, result)
    BY DEF BitInv, DrivesRestored, Given
  <2>3. \A d \in Drives : \A p \in 0..(Packets - 1) :
          CASE d \in Erased /\ (result = -1 \/ p >= Reach) -> Nth(drives[d], p) = Nth(Lost(d), p)
            [] d \in Erased /\ result = 0 /\ p < Reach ->
                 Recoverable => Nth(drives[d], p) = Nth(written[d], p)
            [] OTHER -> Nth(drives[d], p) = Nth(written[d], p)
    BY <2>2 DEF Given
  <2> QED BY <1>1, <1>2, <1>3, <2>1, <2>2, <2>3 DEF DrivesRestored
<1> QED BY <1>4, <1>5, <1>6, <1>7, <1>8 DEF BitInv

LEMMA BitStep ==
  ASSUME BitInv, [BitNext]_bitVars
  PROVE  BitInv'
<1>1. CodeInv'
  BY CodeStep DEF BitInv
<1>2. ASSUME NEW s \in Shapes \cup MatrixShapes, Make(s) PROVE BitInv'
  <2>1. phase = "start" /\ phase' = "made" /\ next' = next
    BY <1>2 DEF Make
  <2>2. next = "start"
    BY <2>1 DEF BitInv, NextKept
  <2> QED BY <1>1, <2>1, <2>2 DEF BitInv, NextKept, EncodedKept, WrittenKept, Listed, LostKept,
                                  OperationsKept, DrivesRestored
<1>3. CASE EncodeByDots
  BY <1>1, <1>3, EncodedByDots
<1>4. ASSUME NEW smart \in BOOLEAN, EncodeBySchedule(smart) PROVE BitInv'
  BY <1>1, <1>4, EncodingBegun
<1>5. ASSUME NEW smart \in BOOLEAN, DecodeLazily(smart) \/ DecodeFromCache(smart) PROVE BitInv'
  <2>1. PICK ops : DecodeBySchedule(ops)
    BY <1>5 DEF DecodeLazily, DecodeFromCache
  <2> QED BY <1>1, <2>1, DecodingBegun
<1>6. ASSUME NEW lost \in SUBSET Drives, NEW list \in Lists(lost), Lose(list) PROVE BitInv'
  BY <1>1, <1>6, DrivesLost
<1>7. ASSUME NEW ones \in BOOLEAN, DecodeByDots(ones) PROVE BitInv'
  BY <1>1, <1>7, RestoredByDots
<1>8. CASE DecodeTooMany
  BY <1>1, <1>8, RestoredNothing
<1>9. CASE DoOperation
  BY <1>1, <1>9, OperationDone
<1>10. CASE StripeDone
  BY <1>1, <1>10, NextStripe, LastStripeDone
<1>11. ASSUME NEW lost, Probe(lost) PROVE BitInv'
  <2>1. phase' = "probed"
    BY <1>11 DEF Probe
  <2> QED BY <1>1, <2>1 DEF BitInv, NextKept, EncodedKept, WrittenKept, Listed, LostKept,
                            OperationsKept, DrivesRestored
<1>12. ASSUME NEW v, NEW i, Look(v, i) PROVE BitInv'
  <2>1. phase' = "looked"
    BY <1>12 DEF Look
  <2> QED BY <1>1, <2>1 DEF BitInv, NextKept, EncodedKept, WrittenKept, Listed, LostKept,
                            OperationsKept, DrivesRestored
<1>13. CASE UNCHANGED bitVars
  BY <1>1, <1>13, Unchanging
<1> QED BY <1>2, <1>3, <1>4, <1>5, <1>6, <1>7, <1>8, <1>9, <1>10, <1>11, <1>12, <1>13
        DEF BitNext

\* The invariant is enough: the code is what the bitmatrix names, and what a schedule
\* leaves alone is what it was carried out on.
LEMMA BitInvEnough ==
  ASSUME BitInv
  PROVE  BitsRestored
<1>1. EncodedByMatrix
  <2> SUFFICES ASSUME phase = "encoded", NEW d \in Drives, NEW p \in 0..(Packets - 1)
               PROVE  Nth(drives[d], p) =
                        IF d < k \/ p >= Reach \/ (Extra # 0 /\ next # "encoded")
                        THEN Nth(Content(d), p)
                        ELSE {<<c \div w, p - (p % w) + (c % w)>> :
                                c \in Nth(bits, (d - k) * w + (p % w))}
    BY DEF EncodedByMatrix
  <2>1. InUse
    BY DEF BitInv, CodeInv, OfACode, InUse
  <2>2. CASE Extra # 0 /\ next # "encoded"
    <3>1. drives = Original
      BY <2>2 DEF BitInv, EncodedKept
    <3> QED BY <2>1, <2>2, <3>1, OriginalFacts
  <2>3. CASE ~(Extra # 0 /\ next # "encoded")
    <3>1. IsEncoded(drives)
      BY <2>3 DEF BitInv, EncodedKept
    <3>2. /\ p < Reach => Nth(drives[d], p) = Code(k, w, bits, d, p)
          /\ p >= Reach => Nth(drives[d], p) = Nth(Content(d), p)
      BY <2>1, <3>1, WrittenFacts
    <3>3. PICK n \in Nat, c \in Nat, v \in Nat \ {0}, r \in Nat, e \in Nat, x \in Nat :
            /\ n = k /\ c = m /\ v = w /\ r = Reach /\ e = d /\ x = p
            /\ e \in 0..(n + c - 1) /\ BitsFor(n, c, v, bits)
      BY <2>1, UseFacts, SizeFacts DEF Drives
    <3>4. ASSUME d < k PROVE Code(k, w, bits, d, p) = Nth(Content(d), p)
      <4>1. Code(n, v, bits, e, x) = {<<e, x>>}
        <5>1. e \in 0..(n - 1) /\ x \in Nat
          BY <3>3, <3>4
        <5> QED BY <3>3, <5>1, CodeOnData
      <4>2. Nth(Content(d), p) = {<<d, p>>}
        BY <2>1, ContentFacts
      <4> QED BY <3>3, <4>1, <4>2
    <3>5. ASSUME ~(d < k)
          PROVE  Code(k, w, bits, d, p) = {<<c2 \div w, p - (p % w) + (c2 % w)>> :
                                             c2 \in Nth(bits, (d - k) * w + (p % w))}
      BY <3>5 DEF Code, Generated
    <3>6. p < Reach \/ p >= Reach
      BY <3>3
    <3>7. p < Reach => ~(p >= Reach)
      BY <3>3
    <3> QED BY <2>3, <3>2, <3>4, <3>5, <3>6, <3>7
  <2> QED BY <2>2, <2>3
<1>2. InsideLastStripe
  <2> SUFFICES ASSUME phase = "operating", NEW d \in Drives, NEW p \in Reach..(Packets - 1)
               PROVE  Nth(drives[d], p) \in {Nth(Content(d), p), Nth(Lost(d), p)}
    BY DEF InsideLastStripe
  <2>1. /\ InUse /\ next \in {"encoded", "decoded"} /\ Targets \in Nat
        /\ PointersFor(k, m, Targets, ptrs) /\ StripeOf(w, base, Reach, Packets)
        /\ Carried(k, m, w, ScheduleRows, Targets, ptrs, Beginning, drives, schedule, base, op,
                   Packets)
    BY OperatingFacts
  <2>2. p \in 0..(Packets - 1) /\ p >= Reach
    <3>1. Reach \in Nat /\ Packets \in Nat
      BY <2>1, SizeFacts
    <3> QED BY <3>1
  <2>3. Nth(drives[d], p) = Nth(Beginning[d], p)
    <3>1. PICK n \in Nat, c \in Nat, v \in Nat \ {0}, t \in Nat, l \in Nat, r \in Nat, b \in Nat :
            n = k /\ c = m /\ v = w /\ t = Targets /\ l = Packets /\ r = Reach /\ b = base
      BY <2>1, UseFacts, SizeFacts DEF StripeOf
    <3>2. PICK rows, ids, old : rows = ScheduleRows /\ ids = ptrs /\ old = Beginning
      OBVIOUS
    <3>3. /\ PointersFor(n, c, t, ids) /\ StripeOf(v, b, r, l)
          /\ Carried(n, c, v, rows, t, ids, old, drives, schedule, b, op, l)
          /\ d \in 0..(n + c - 1) /\ p \in 0..(l - 1) /\ p >= r
      BY <2>1, <2>2, <3>1, <3>2 DEF Drives
    <3>4. PICK e \in 0..(n + c - 1), x \in 0..(l - 1) : e = d /\ x = p /\ x >= r
      BY <3>3
    <3>5. Nth(drives[e], x) = Nth(old[e], x)
      BY <3>3, <3>4, CarriedBeyond
    <3> QED BY <3>2, <3>4, <3>5
  <2>4. CASE next = "encoded"
    <3>1. Beginning[d] = Content(d)
      BY <2>1, <2>4, OriginalFacts DEF Beginning
    <3> QED BY <2>3, <3>1
  <2>5. CASE next = "decoded"
    <3>1. Listed
      BY <2>5 DEF Listed
    <3>2. IsEncoded(written) /\ Erased \in SUBSET Drives
      BY <3>1, LossFactsNow
    <3>3. Beginning[d] = IF d \in Erased THEN Lost(d) ELSE written[d]
      BY <2>1, <2>5, <3>2, DamagedFacts DEF Beginning
    <3>4. Nth(written[d], p) = Nth(Content(d), p)
      BY <2>1, <2>2, <3>2, WrittenFacts
    <3> QED BY <2>3, <3>3, <3>4
  <2> QED BY <2>1, <2>4, <2>5
<1>3. DrivesRestored
  BY DEF BitInv
<1> QED BY <1>1, <1>2, <1>3 DEF BitsRestored

\* Whatever the code, the sizes and the drives that are lost: encoding by dot products
\* and by a schedule leaves in each packet of the coding drives the sum that the
\* bitmatrix names, every way to decode leaves what was written on every drive if the
\* drives that are left determine it, and no operation reaches past the last stripe
\* (jerasure.c:640-1010, 1170-1209, 1363-1382).
THEOREM BitsAlwaysRestored == BitSpec => []BitsRestored
<1>1. BitInit => BitInv
  BY BitInitially
<1>2. BitInv /\ [BitNext]_bitVars => BitInv'
  BY BitStep
<1>3. BitInv => BitsRestored
  BY BitInvEnough
<1> QED BY <1>1, <1>2, <1>3, PTL DEF BitSpec
=============================================================================
