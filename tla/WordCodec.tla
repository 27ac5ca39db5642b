----------------------------- MODULE WordCodec -----------------------------
(***************************************************************************)
(* The codec at work: a coding matrix is made, data is encoded, drives are *)
(* lost and decoded again; or the rows of k drives are inverted on their   *)
(* own, or a region is doubled.                                            *)
(***************************************************************************)
EXTENDS ReedSol
LOCAL INSTANCE SequencesExt

CONSTANTS
  Shapes,       \* what matrices are made: <<method, k, m, w>>
  RowShapes,    \* those whose sets of k rows are inverted
  CodeShapes,   \* those that encode and decode
  IntWidths     \* word sizes of the doublings

VARIABLES phase, shape, matrix, written, drives, erasures, result

vars == <<phase, shape, matrix, written, drives, erasures, result>>

k == shape[2]
m == shape[3]
w == shape[4]
Drives == 0..(k + m - 1)

MatrixOf(s) == IF s[1] = "r6" THEN reed_sol_r6_coding_matrix(s[2], s[4])
               ELSE reed_sol_vandermonde_coding_matrix(s[2], s[3], s[4])

Init ==
  /\ phase = "start" /\ shape = <<"none", 1, 1, 8>> /\ matrix = NoMatrix
  /\ written = <<>> /\ drives = <<>> /\ erasures = <<>> /\ result = 0

Make(s) ==
  /\ phase = "start"
  /\ phase' = "made" /\ shape' = s /\ matrix' = MatrixOf(s)
  /\ UNCHANGED <<written, drives, erasures, result>>

\* Data on one drive only, or on all: the code is linear.
Contents(hot) ==
  [d \in 0..(k - 1) |-> CASE hot = k -> {d, 3, w - 1}
                           [] hot # k /\ d = hot -> {0, w - 1}
                           [] OTHER -> Zero]

Encode(hot) ==
  LET before == [d \in Drives |-> IF d < k THEN Contents(hot)[d] ELSE {1}]
  IN  /\ phase = "made" /\ shape \in CodeShapes
      /\ phase' = "encoded"
      /\ drives' = jerasure_matrix_encode(k, m, w, matrix, before)
      /\ written' = drives'
      /\ UNCHANGED <<shape, matrix, erasures, result>>

\* The drives of the list lose their contents.
Lose(list) ==
  /\ phase = "encoded"
  /\ phase' = "lost" /\ erasures' = list
  /\ drives' = [d \in Drives |-> IF d \in {list[n] : n \in DOMAIN list} THEN {1, 2} ELSE drives[d]]
  /\ UNCHANGED <<shape, matrix, written, result>>

Decode(row_k_ones) ==
  LET decoded == jerasure_matrix_decode(k, m, w, matrix, row_k_ones, erasures, drives)
  IN  /\ phase = "lost"
      /\ phase' = "decoded"
      /\ drives' = decoded.drives /\ result' = decoded.result
      /\ UNCHANGED <<shape, matrix, written, erasures>>

\* The generator's rows of k drives, for an inversion
Select(lost) ==
  /\ phase = "made" /\ shape \in RowShapes
  /\ phase' = "rows" /\ erasures' = Ascending(lost, k + m)
  /\ UNCHANGED <<shape, matrix, written, drives, result>>

\* An int of words: drives[0] is the int, drives[1] what becomes of it.
DoubleInt(v, l) ==
  /\ phase = "start"
  /\ phase' = "doubled" /\ shape' = <<"int", 1, 1, v>>
  /\ drives' = <<l, reed_sol_galois_region_multby_2(<<l>>, v)[1]>>
  /\ UNCHANGED <<matrix, written, erasures, result>>

\* Any top bits, with any one other bit or none
Ints(v) == {t \cup o : t \in SUBSET mask_2(v), o \in {{}} \cup {{b} : b \in 0..31}}

\* In the order of the drives, against it, and with a drive named twice
Lists(S) == LET up == Ascending(S, k + m)
            IN  {up, Reverse(up)} \cup (IF S = {} THEN {} ELSE {Append(up, up[1])})

Next ==
  \/ \E s \in Shapes : Make(s)
  \/ \E hot \in 0..k : Encode(hot)
  \/ \E lost \in SUBSET Drives : \E list \in Lists(lost) : Lose(list)
  \/ \E row_k_ones \in BOOLEAN : Decode(row_k_ones)
  \/ \E lost \in {S \in SUBSET Drives : Cardinality(S) = m} : Select(lost)
  \/ \E v \in IntWidths : \E l \in Ints(v) : DoubleInt(v, l)

Spec == Init /\ [][Next]_vars
-----------------------------------------------------------------------------
\* The row of ones and the column of ones that decoding relies on and
\* reed_sol.c:337-355 promises; a matrix is refused exactly where the field is
\* too small or there is no coding drive (reed_sol.c:64, 248, 279).
OnesAsPromised ==
  phase = "made" =>
    IF matrix = NoMatrix
    THEN \/ shape[1] = "r6" /\ w \notin {8, 16, 32}
         \/ shape[1] = "vandermonde" /\ ((w < 8 /\ k + m > 2 ^ w) \/ m = 0)
    ELSE /\ \A j \in 0..(k - 1) : Entry(matrix, 0, j) = One
         /\ \A i \in 0..(m - 1) : Entry(matrix, i, 0) = One
         /\ shape[1] = "vandermonde" /\ w < 8 => k + m <= 2 ^ w

\* Whatever m drives are lost, the rows of the others are invertible, by either
\* test, and the inverse is one (jerasure.c:101-129, 377-519, 1143).
WordRowsInvert ==
  phase = "rows" =>
    LET ids == dm_ids(k, m, {erasures[n] : n \in DOMAIN erasures})
        Row(i) == IF Nth(ids, i) < k THEN Nth(UnitMatrix(k), Nth(ids, i))
                  ELSE Nth(matrix, Nth(ids, i) - k)
        rows == Tabulate(k, Row)
        inverse == jerasure_invert_matrix(rows, w)
    IN  /\ jerasure_invertible_matrix(rows, w) /\ inverse.ok
        /\ jerasure_matrix_multiply(inverse.inv, rows, w) = UnitMatrix(k)
        /\ jerasure_matrix_multiply(rows, inverse.inv, w) = UnitMatrix(k)

\* Decoding brings every drive back to what was written, whether or not the
\* caller vouches for the row of ones and however the list of erasures is
\* written; with more than m drives lost it fails and writes nothing
\* (jerasure.c:170-271, 524-549).
WordsRestored ==
  phase = "decoded" =>
    IF w \in {8, 16, 32} /\ Cardinality({erasures[n] : n \in DOMAIN erasures}) <= m
    THEN result = 0 /\ drives = written
    ELSE /\ result = -1
         /\ \A d \in Drives : d \in {erasures[n] : n \in DOMAIN erasures} => drives[d] = {1, 2}

\* With two coding drives and a matrix of powers of two, encoding by doubling
\* writes what encoding by the matrix does; the first coding drive is the
\* parity of the data (jerasure.c:364-375, reed_sol.c:216-241).
EncodersAgree ==
  phase = "encoded" /\ w \in {8, 16, 32} =>
    /\ drives[k] = jerasure_do_parity(k, drives)
    /\ shape[1] = "r6" =>
         LET quick == reed_sol_r6_encode(k, w, [d \in Drives |-> <<drives[d]>>])
         IN  quick.result = 1 /\ \A d \in Drives : quick.drives[d] = <<drives[d]>>

\* Doubling an int at once doubles each word in it and no carry leaves a word
\* (reed_sol.c:106-214).
DoublingRight ==
  phase = "doubled" =>
    \A n \in 0..(32 \div w - 1) :
      {b \in Bits(w) : b + n * w \in drives[2]}
        = Mul({1}, {b \in Bits(w) : b + n * w \in drives[1]}, w)
=============================================================================
