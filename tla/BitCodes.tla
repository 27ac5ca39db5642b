------------------------------ MODULE BitCodes ------------------------------
(***************************************************************************)
(* The bitmatrices and matrices of src/lib/jerasure/liberation.c and       *)
(* cauchy.c.  The bitmatrices for two coding drives begin with a row of    *)
(* unit matrices; below it is the block of every data drive.               *)
(***************************************************************************)
EXTENDS BitMatrix

NoMatrix == <<>>

\* The word that a number is in memory, and the number
Number(n) == {b \in 0..30 : (n \div 2 ^ b) % 2 = 1}
Value(x) == LET Weight(b) == 2 ^ b IN MapThenSumSet(Weight, x)

\* Block(j, l) is the set of columns of row l in the block of data drive j.
TwoRows(k, w, Block(_, _)) ==
  LET Row(r) == IF r < w THEN {j * w + r : j \in 0..(k - 1)}
                ELSE UNION {Shifted(Block(j, r - w), j * w) : j \in 0..(k - 1)}
  IN  Tabulate(2 * w, Row)

\* Mutant: the one more is left out.
LiberationBlockPlain(w, j, l) == {(j + l) % w}

LiberationBlock(w, j, l) ==
  {(j + l) % w} \cup
    (IF j > 0 /\ l = (j * ((w - 1) \div 2)) % w THEN {(l + j - 1) % w} ELSE {})

liberation_coding_bitmatrix(k, w) ==
  LET Block(j, l) == LiberationBlock(w, j, l)
  IN  IF k > w THEN NoMatrix ELSE TwoRows(k, w, Block)

\* The column of each row of each block, and the row and column of the one more
liber8tion_columns == <<
  <<0, 1, 2, 3, 4, 5, 6, 7>>, <<7, 3, 0, 2, 6, 1, 5, 4>>, <<6, 2, 4, 0, 7, 3, 1, 5>>,
  <<2, 5, 7, 6, 0, 3, 4, 1>>, <<5, 6, 1, 7, 2, 4, 3, 0>>, <<1, 2, 3, 4, 5, 6, 7, 0>>,
  <<3, 0, 6, 5, 1, 7, 4, 2>>, <<4, 7, 1, 5, 3, 2, 0, 6>> >>
liber8tion_extra ==
  << <<0, 0>>, <<4, 7>>, <<1, 3>>, <<5, 4>>, <<2, 0>>, <<7, 2>>, <<6, 5>>, <<3, 1>> >>

liber8tion_coding_bitmatrix(k) ==
  LET Block(j, l) == {Nth(Nth(liber8tion_columns, j), l)} \cup
                       (IF l = Nth(liber8tion_extra, j)[1] THEN {Nth(liber8tion_extra, j)[2]}
                        ELSE {})
  IN  IF k > 8 THEN NoMatrix ELSE TwoRows(k, 8, Block)

\* Rows are counted from one in the comparisons with p = w + 1.
BlaumRothBlock(w, j, l) ==
  LET p == w + 1
      half == IF j % 2 = 0 THEN j \div 2 ELSE p \div 2 + 1 + j \div 2
  IN  CASE j = 0 -> {l}
        [] j > 0 /\ l + 1 # p - j -> {((l + 1 + j) % p) - 1}
        [] OTHER -> {j - 1, half - 1}

blaum_roth_coding_bitmatrix(k, w) ==
  LET Block(j, l) == BlaumRothBlock(w, j, l)
  IN  IF k > w THEN NoMatrix ELSE TwoRows(k, w, Block)
-----------------------------------------------------------------------------
(***************************************************************************)
(* Cauchy matrices.                                                        *)
(***************************************************************************)
\* The ones in the bitmatrix of n.  The number of the word's ones is carried along
\* from doubling to doubling: the high bit goes, and every bit of the polynomial
\* comes or goes.
CountDoubled(s, w) ==
  LET high == w - 1 \in s.n
      n == Double(s.n, w)
      PP == Double({w - 1}, w)
      cno == IF high THEN s.cno - 1 + Cardinality(PP \cap n) - Cardinality(PP \ n) ELSE s.cno
  IN  [n |-> n, cno |-> cno, no |-> s.no + cno]

cauchy_n_ones(n, w) ==
  LET Pass(s, i) == CountDoubled(s, w)
  IN  Loop(Pass, [n |-> n, cno |-> Cardinality(n), no |-> Cardinality(n)], w - 1).no

cauchy_xy_coding_matrix(k, m, w, X, Y) ==
  LET Cell(i, j) == Inv(Xor(Nth(X, i), Nth(Y, j)), w) IN Matrix(m, k, Cell)

cauchy_original_coding_matrix(k, m, w) ==
  LET X(i) == Number(i)
      Y(j) == Number(m + j)
  IN  IF w < 31 /\ k + m > 2 ^ w THEN NoMatrix
      ELSE cauchy_xy_coding_matrix(k, m, w, Tabulate(m, X), Tabulate(k, Y))

RowOnes(row, w) == LET Count(j) == cauchy_n_ones(Nth(row, j), w)
                   IN  MapThenSumSet(Count, 0..(Len(row) - 1))

FirstFewest(rows, counts) ==
  rows[Min({n \in DOMAIN counts : \A i \in DOMAIN counts : counts[n] <= counts[i]})]

FewestOnes(rows, w) ==
  LET Count(n) == RowOnes(Nth(rows, n), w) IN FirstFewest(rows, Tabulate(Len(rows), Count))

\* A row is divided by the element that leaves it the fewest ones, if that is fewer
\* than it has: the first one of the row itself and its quotients.
ImprovedRow(row, w) ==
  LET Candidate(n) == IF n = 0 THEN row
                      ELSE IF Nth(row, n - 1) = One THEN row
                      ELSE Scaled(row, Inv(Nth(row, n - 1), w), w)
  IN  FewestOnes(Tabulate(Len(row) + 1, Candidate), w)

ImprovedRows(matrix, w) ==
  LET Row(i) == IF i = 0 THEN Nth(matrix, 0) ELSE ImprovedRow(Nth(matrix, i), w)
  IN  Tabulate(Len(matrix), Row)

\* The columns are divided by their first element, then the rows but the first.
cauchy_improve_coding_matrix(k, w, matrix) ==
  LET Ratio(i, j) == Mul(Entry(matrix, i, j), Inv(Entry(matrix, 0, j), w), w)
  IN  ImprovedRows(Matrix(Len(matrix), k, Ratio), w)

\* The tables for two coding drives, of which the ones up to w = 6 are here
cbest_all == [w \in 2..6 |->
  CASE w = 2 -> <<1, 2, 3>>
    [] w = 3 -> <<1, 2, 5, 4, 7, 3, 6>>
    [] w = 4 -> <<1, 2, 9, 4, 8, 13, 3, 6, 12, 5, 11, 15, 10, 14, 7>>
    [] w = 5 -> <<1, 2, 18, 4, 9, 8, 22, 16, 3, 11, 19, 5, 10, 6, 20, 27, 13, 23, 26, 12,
                  17, 25, 24, 31, 30, 7, 15, 21, 29, 14, 28>>
    [] w = 6 -> <<1, 2, 33, 4, 8, 49, 16, 32, 57, 3, 6, 12, 24, 48, 5, 35, 9, 37, 10, 17,
                  41, 51, 56, 61, 18, 28, 53, 14, 20, 34, 7, 13, 25, 36, 59, 26, 39, 40,
                  45, 50, 60, 52, 63, 11, 30, 55, 19, 22, 29, 43, 58, 15, 21, 38, 44, 47,
                  62, 27, 54, 42, 31, 23, 46>>]
cbest_max_k(w) == CASE w < 2 -> -1 [] w \in 2..10 -> 2 ^ w - 1 [] w = 11 -> 1023 [] OTHER -> -1

Improved(k, w, matrix) == IF matrix = NoMatrix THEN NoMatrix
                          ELSE cauchy_improve_coding_matrix(k, w, matrix)

cauchy_good_general_coding_matrix(k, m, w) ==
  LET Best(i, j) == IF i = 0 THEN One ELSE Number(Nth(cbest_all[w], j))
  IN  IF m = 2 /\ k <= cbest_max_k(w) THEN Matrix(2, k, Best)
      ELSE Improved(k, w, cauchy_original_coding_matrix(k, m, w))
=============================================================================
