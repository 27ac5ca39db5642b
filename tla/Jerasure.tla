------------------------------ MODULE Jerasure ------------------------------
(***************************************************************************)
(* The matrix codec of src/lib/jerasure/jerasure.c, which the driver       *)
(* encodes and decodes with.  A matrix is the sequence of its rows, a row  *)
(* is a sequence of words.  The codec treats every word of the regions     *)
(* alike, so that the contents of the k data and m coding drives are one   *)
(* word each: drives[i] for i < k is data_ptrs[i], drives[k + i] is        *)
(* coding_ptrs[i].  Where the C code asks for products and quotients of    *)
(* words, all kinds of arithmetic of GaloisField agree; here they are made *)
(* by shifting.                                                            *)
(***************************************************************************)
EXTENDS GaloisField

Mul(a, b, w) == galois_shift_multiply(a, b, w)
Inv(a, w) == galois_shift_inverse(a, w)

Entry(mat, i, j) == Nth(Nth(mat, i), j)

Matrix(rows, cols, entry(_, _)) ==
  LET Row(i) == LET Cell(j) == entry(i, j) IN Tabulate(cols, Cell)
  IN  Tabulate(rows, Row)

UnitMatrix(n) == LET Cell(i, j) == IF i = j THEN One ELSE Zero IN Matrix(n, n, Cell)

\* The row c * row, and the row to + c * row
Scaled(row, c, w) == LET Cell(j) == Mul(c, Nth(row, j), w) IN Tabulate(Len(row), Cell)
AddedTo(to, row, c, w) ==
  LET Cell(j) == Xor(Nth(to, j), Mul(c, Nth(row, j), w)) IN Tabulate(Len(row), Cell)
-----------------------------------------------------------------------------
(***************************************************************************)
(* Inversion: column i of the upper triangular form, then the columns from *)
(* the last to the first.                                                  *)
(***************************************************************************)
\* Mutant: no row is swapped in.
PivotsInPlace(mat, i) == {j \in {i} : Entry(mat, j, i) # Zero}

\* The rows that may be swapped in for row i
Pivots(mat, i) == {j \in i..(Len(mat) - 1) : Entry(mat, j, i) # Zero}

\* A matrix whose row i becomes unit and is taken from the rows below as column i
\* of mat calls for
Cleared(of, mat, i, unit, w) ==
  LET Row(j) == CASE j < i -> Nth(of, j)
                  [] j = i -> unit
                  [] OTHER -> AddedTo(Nth(of, j), unit, Entry(mat, j, i), w)
  IN  Tabulate(Len(of), Row)

\* Row i of mat is made to begin with a one in column i and is taken from the rows
\* below.  Both matrices undergo what mat calls for.
ClearColumn(s, i, inverse, w) ==
  [s EXCEPT !.mat = Cleared(@, s.mat, i, Scaled(Nth(@, i), inverse, w), w),
            !.inv = Cleared(@, s.mat, i, Scaled(Nth(@, i), inverse, w), w)]
ClearBelow(s, i, w) == ClearColumn(s, i, Inv(Entry(s.mat, i, i), w), w)

Triangular(mat, w) ==
  LET Column(s, i) == IF ~s.ok \/ Pivots(s.mat, i) = {} THEN [s EXCEPT !.ok = FALSE]
                      ELSE ClearBelow(SwapIn(s, i, Min(Pivots(s.mat, i))), i, w)
  IN  Loop(Column, [ok |-> TRUE, mat |-> mat, inv |-> UnitMatrix(Len(mat))], Len(mat))

\* Row i of inv is final when column i is cleared above it.
ClearAbove(mat, inv, i, w) ==
  LET Row(j) == IF j < i THEN AddedTo(Nth(inv, j), Nth(inv, i), Entry(mat, j, i), w)
                ELSE Nth(inv, j)
  IN  Tabulate(Len(inv), Row)

BackSubstituted(upper, rows, w) ==
  LET Back(inv, n) == ClearAbove(upper.mat, inv, rows - 1 - n, w)
  IN  [ok |-> upper.ok, inv |-> IF upper.ok THEN Loop(Back, upper.inv, rows) ELSE <<>>]

jerasure_invert_matrix(mat, w) == BackSubstituted(Triangular(mat, w), Len(mat), w)

jerasure_invertible_matrix(mat, w) == Triangular(mat, w).ok

jerasure_matrix_multiply(m1, m2, w) ==
  LET Cell(i, j) == LET Term(n) == Mul(Entry(m1, i, n), Entry(m2, n, j), w)
                    IN  XorSum(Term, 0..(Len(m2) - 1))
  IN  Matrix(Len(m1), Len(m2[1]), Cell)
-----------------------------------------------------------------------------
(***************************************************************************)
(* Encoding and decoding.                                                  *)
(***************************************************************************)
Ids(n) == [i \in 1..n |-> i - 1]

\* The members of S below n, in order
Ascending(S, n) ==
  LET Take(ids, i) == IF i \in S THEN Append(ids, i) ELSE ids IN Loop(Take, <<>>, n)

\* jerasure_matrix_dotprod into drive dest_id; src_ids names the drive behind
\* each column (Ids(k) where the code passes NULL).  The sources with factor one
\* come first, the first of all is copied and not added: the order does not
\* matter to the sum, and without a source the destination is left alone.
jerasure_matrix_dotprod(w, row, src_ids, dest_id, drives) ==
  LET used == {j \in 1..Len(row) : row[j] # Zero}
      Term(j) == Mul(row[j], drives[src_ids[j]], w)
  IN  IF w \notin {1, 8, 16, 32} \/ used = {} THEN drives
      ELSE [drives EXCEPT ![dest_id] = XorSum(Term, used)]

jerasure_do_parity(k, drives) ==
  LET Data(i) == drives[i] IN XorSum(Data, 0..(k - 1))

jerasure_matrix_encode(k, m, w, matrix, drives) ==
  LET Coding(d, i) == jerasure_matrix_dotprod(w, Nth(matrix, i), Ids(k), k + i, d)
  IN  IF w \notin {8, 16, 32} THEN drives ELSE Loop(Coding, drives, m)

\* The list may name a drive twice.
jerasure_erasures_to_erased(k, m, erasures) ==
  LET failed == {erasures[n] : n \in DOMAIN erasures}
  IN  [ok |-> k + m - Cardinality(failed) >= k, ids |-> failed]

\* The first k drives that are left, in order
dm_ids(k, m, erased) ==
  SubSeq(Ascending(0..(k + m - 1) \ erased, k + m), 1, k)

jerasure_make_decoding_matrix(k, m, w, matrix, erased) ==
  LET ids == dm_ids(k, m, erased)
      Row(i) == LET d == Nth(ids, i)
                IN  IF d < k THEN Nth(UnitMatrix(k), d) ELSE Nth(matrix, d - k)
  IN  jerasure_invert_matrix(Tabulate(k, Row), w)

\* Mutant: whether the first coding drive is there is not asked.
lastdriveParityLost(k, row_k_ones, erased) ==
  LET lost == {d \in erased : d < k}
  IN  IF lost = {} \/ ~row_k_ones THEN k ELSE Max(lost)

\* The last data drive is recovered from the row of ones if the first coding drive
\* is there, the others by the decoding matrix.  The variable lastdrive of the
\* code is k where there is no such drive.
lastdrive(k, row_k_ones, erased) ==
  LET lost == {d \in erased : d < k}
  IN  IF lost = {} \/ ~row_k_ones \/ k \in erased THEN k ELSE Max(lost)

jerasure_matrix_decode(k, m, w, matrix, row_k_ones, erasures, drives) ==
  LET erased == jerasure_erasures_to_erased(k, m, erasures)
      last == lastdrive(k, row_k_ones, erased.ids)
      byMatrix == {d \in erased.ids : d < k /\ d # last}
      decoding == jerasure_make_decoding_matrix(k, m, w, matrix, erased.ids)
      Data(d, i) == IF i \in byMatrix
                    THEN jerasure_matrix_dotprod(w, Nth(decoding.inv, i),
                                                 dm_ids(k, m, erased.ids), i, d)
                    ELSE d
      others == [i \in 1..k |-> IF i - 1 < last THEN i - 1 ELSE i]
      LastDrive(d) == IF last < k /\ last \in erased.ids
                 THEN jerasure_matrix_dotprod(w, matrix[1], others, last, d) ELSE d
      Coding(d, i) == IF k + i \in erased.ids
                      THEN jerasure_matrix_dotprod(w, Nth(matrix, i), Ids(k), k + i, d)
                      ELSE d
  IN  IF w \notin {8, 16, 32} \/ ~erased.ok \/ (byMatrix # {} /\ ~decoding.ok)
      THEN [result |-> -1, drives |-> drives]
      ELSE [result |-> 0, drives |-> Loop(Coding, LastDrive(Loop(Data, drives, k)), m)]
=============================================================================
