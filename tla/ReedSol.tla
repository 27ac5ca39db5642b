------------------------------ MODULE ReedSol ------------------------------
(***************************************************************************)
(* The coding matrices of src/lib/jerasure/reed_sol.c, and its way to      *)
(* encode for two coding drives by doubling.                               *)
(***************************************************************************)
EXTENDS Jerasure

NoMatrix == <<>>

\* The word that a number is in memory
Number(n) == {b \in 0..30 : (n \div 2 ^ b) % 2 = 1}

Power(x, n, w) == LET Times(p, j) == Mul(p, x, w) IN Loop(Times, One, n)

reed_sol_r6_coding_matrix(k, w) ==
  LET Cell(i, j) == IF i = 0 THEN One ELSE Power({1}, j, w)
  IN  IF w \notin {8, 16, 32} THEN NoMatrix ELSE Matrix(2, k, Cell)
-----------------------------------------------------------------------------
(***************************************************************************)
(* The Vandermonde matrix with a first and a last row of its own, made     *)
(* systematic by operations on its columns.                                *)
(***************************************************************************)
reed_sol_extended_vandermonde_matrix(rows, cols, w) ==
  LET Cell(i, j) == CASE i = 0 -> IF j = 0 THEN One ELSE Zero
                      [] i # 0 /\ i = rows - 1 -> IF j = cols - 1 THEN One ELSE Zero
                      [] OTHER -> Power(Number(i), j, w)
  IN  IF w < 30 /\ (2 ^ w < rows \/ 2 ^ w < cols) THEN NoMatrix ELSE Matrix(rows, cols, Cell)

\* Column i is divided by its entry in row i, and the other columns get the multiple
\* of column i that clears them in this row.
ClearRow(mat, i, inverse, w) ==
  LET Unit(r) == Mul(inverse, Entry(mat, r, i), w)
      Cell(r, j) == IF j = i THEN Unit(r)
                    ELSE Xor(Entry(mat, r, j), Mul(Entry(mat, i, j), Unit(r), w))
  IN  Matrix(Len(mat), Len(mat[1]), Cell)
UnitRow(mat, i, w) == ClearRow(mat, i, Inv(Entry(mat, i, i), w), w)

\* Row i is made a row of the unit matrix, after a row with a non-zero entry in
\* column i is swapped in.
FixRow(dist, i, w) ==
  IF dist = NoMatrix \/ Pivots(dist, i) = {} THEN NoMatrix
  ELSE UnitRow(SwapRows(dist, i, Min(Pivots(dist, i))), i, w)

Systematic(vdm, cols, w) == LET Fix(dist, n) == FixRow(dist, n + 1, w)
                            IN  Loop(Fix, vdm, cols - 1)

\* Below the unit matrix the columns are scaled so that the first coding row is
\* all ones, then the rows after it so that they begin with a one.
OnesRow(dist, cols, w) ==
  LET Cell(r, j) == IF r < cols THEN Entry(dist, r, j)
                    ELSE Mul(Inv(Entry(dist, cols, j), w), Entry(dist, r, j), w)
  IN  Matrix(Len(dist), cols, Cell)

OnesColumn(dist, cols, w) ==
  LET Row(r) == IF r <= cols THEN Nth(dist, r)
                ELSE Scaled(Nth(dist, r), Inv(Entry(dist, r, 0), w), w)
  IN  Tabulate(Len(dist), Row)

WithOnes(dist, cols, w) == IF dist = NoMatrix THEN NoMatrix
                           ELSE OnesColumn(OnesRow(dist, cols, w), cols, w)

reed_sol_big_vandermonde_distribution_matrix(rows, cols, w) ==
  IF cols >= rows THEN NoMatrix
  ELSE WithOnes(Systematic(reed_sol_extended_vandermonde_matrix(rows, cols, w), cols, w),
                cols, w)

CodingRows(vdm, k) == IF vdm = NoMatrix THEN NoMatrix ELSE SubSeq(vdm, k + 1, Len(vdm))

reed_sol_vandermonde_coding_matrix(k, m, w) ==
  CodingRows(reed_sol_big_vandermonde_distribution_matrix(k + m, k, w), k)
-----------------------------------------------------------------------------
(***************************************************************************)
(* Doubling.  An int in memory holds 32 / w words: bit b of word n is bit  *)
(* n * w + b.                                                              *)
(***************************************************************************)
Repeated(pattern, w) == UNION {Shifted(pattern, n * w) : n \in 0..(32 \div w - 1)}
prim(w) == Repeated(Mul({w - 1}, {1}, w), w)
mask_1(w) == Repeated(Bits(w) \ {0}, w)
mask_2(w) == Repeated({w - 1}, w)

\* For w = 8 and 16, (tmp2 << 1) - (tmp2 >> w - 1) is a number, modulo 2^32: every
\* top bit becomes a word of ones.
IntShiftLeft(l, n) == {b \in Shifted(l, n) : b < 32}
IntShiftRight(l, n) == {b - n : b \in {c \in l : c >= n}}
IntMinus(a, b) ==
  LET Digit(s, i) ==
        LET borrow == s.borrow
            ones == (IF i \in a THEN 1 ELSE 0) - (IF i \in b THEN 1 ELSE 0) - borrow
        IN  [bits |-> IF ones % 2 = 1 THEN s.bits \cup {i} ELSE s.bits,
             borrow |-> IF ones < 0 THEN 1 ELSE 0]
  IN  Loop(Digit, [bits |-> {}, borrow |-> 0], 32).bits

multby_2(l, w) ==
  IF w = 32
  THEN Xor(IntShiftLeft(l, 1), IF 31 \in l THEN prim(32) ELSE {})
  ELSE LET tmp == IntShiftLeft(l, 1) \cap mask_1(w)
           top == l \cap mask_2(w)
           tmp2 == IntMinus(IntShiftLeft(top, 1), IntShiftRight(top, w - 1))
       IN  Xor(tmp, tmp2 \cap prim(w))

\* The loops go from int to int.
reed_sol_galois_region_multby_2(region, w) ==
  [i \in DOMAIN region |-> multby_2(region[i], w)]

\* drives[d] is a sequence of ints; the coding drives are k and k + 1.
reed_sol_r6_encode(k, w, drives) ==
  LET RegionXor(a, b) == [i \in DOMAIN a |-> Xor(a[i], b[i])]
      Parity(p, n) == RegionXor(p, drives[n + 1])
      Horner(q, n) == RegionXor(reed_sol_galois_region_multby_2(q, w), drives[k - 2 - n])
      first == [drives EXCEPT ![k] = Loop(Parity, drives[0], k - 1)]
  IN  IF w \notin {8, 16, 32} /\ k > 1
      THEN [result |-> 0, drives |-> [first EXCEPT ![k + 1] = drives[k - 1]]]
      ELSE [result |-> 1,
            drives |-> [first EXCEPT ![k + 1] = Loop(Horner, drives[k - 1], k - 1)]]
=============================================================================
