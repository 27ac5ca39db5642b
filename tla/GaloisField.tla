---------------------------- MODULE GaloisField ----------------------------
(***************************************************************************)
(* The arithmetic of src/lib/jerasure/galois.c.  A word of w bits, an      *)
(* element of GF(2^w), is the set of positions of its one bits: XOR is the *)
(* symmetric difference, a shift adds to every position, and a mask is an  *)
(* intersection.  The C functions return -1 where there is no result;      *)
(* here that is NoResult.                                                  *)
(***************************************************************************)
EXTENDS Integers, Sequences, FiniteSets, FiniteSetsExt, Folds, TLC

Bits(w) == 0..(w - 1)
Words(w) == SUBSET Bits(w)
Zero == {}
One == {0}
NoResult == {-1}

Xor(a, b) == SymDiff(a, b)

\* XOR of the words f(i), i \in S: the bits that an odd number of them have
XorSum(f(_), S) == {b \in UNION {f(i) : i \in S} : Cardinality({i \in S : b \in f(i)}) % 2 = 1}

\* for (k = 0; k < n; k++) v = body(v, k)
Loop(body(_, _), v, n) ==
  LET pass[k \in 0..n] == IF k = 0 THEN v ELSE body(pass[k - 1], k - 1)
  IN  pass[n]

\* The array entry(0), ..., entry(n - 1), and its element i.  SubSeq takes all of
\* it, so that TLC evaluates every entry at once.
Tabulate(n, entry(_)) == SubSeq([i \in 1..n |-> entry(i - 1)], 1, n)
Nth(s, i) == s[i + 1]

\* prim_poly, for w = 32 without its high-order bit as in the code
prim_poly == <<
  {0}, {2, 1, 0}, {3, 1, 0}, {4, 1, 0}, {5, 2, 0}, {6, 1, 0}, {7, 3, 0},
  {8, 4, 3, 2, 0}, {9, 4, 0}, {10, 3, 0}, {11, 2, 0}, {12, 6, 4, 1, 0},
  {13, 4, 3, 1, 0}, {14, 10, 6, 1, 0}, {15, 1, 0}, {16, 12, 3, 1, 0}, {17, 3, 0},
  {18, 7, 0}, {19, 5, 2, 1, 0}, {20, 3, 0}, {21, 2, 0}, {22, 1, 0}, {23, 5, 0},
  {24, 7, 2, 1, 0}, {25, 3, 0}, {26, 6, 2, 1, 0}, {27, 5, 2, 1, 0}, {28, 3, 0},
  {29, 2, 0}, {30, 23, 2, 1, 0}, {31, 3, 0}, {22, 2, 1, 0} >>

mult_type(w) == CASE w <= 9 -> "TABLE"
                  [] w \in 10..22 -> "LOGS"
                  [] w \in 23..31 -> "SHIFT"
                  [] OTHER -> "SPLITW8"

Shifted(y, n) == {b + n : b \in y}

\* Mutant: not reduced.
ShiftUnreduced(y, w) == Shifted(y, 1) \cap Bits(w)

\* y << 1, reduced: one step of the doubling loops
Double(y, w) == IF w - 1 \in y THEN Xor(Shifted(y, 1), prim_poly[w]) \cap Bits(w)
                               ELSE Shifted(y, 1)

\* y and its w - 1 doublings: scratch of galois_shift_multiply, mat2 of
\* galois_shift_inverse
Doublings(y, w) ==
  LET Next(scratch, k) == Append(scratch, Double(Nth(scratch, k), w))
  IN  Loop(Next, <<y>>, w - 1)
-----------------------------------------------------------------------------
(***************************************************************************)
(* Shift arithmetic.                                                       *)
(***************************************************************************)
\* The sum of the doublings that x has a bit for
RowSum(scratch, x) == LET Part(i) == Nth(scratch, i) IN XorSum(Part, x)
galois_shift_multiply(x, y, w) == RowSum(Doublings(y, w), x)

\* A matrix of bits is the sequence of its rows; a row is a word.
Identity(rows) == LET Unit(i) == {i} IN Tabulate(rows, Unit)
SwapRows(mat, i, j) == [mat EXCEPT ![i + 1] = mat[j + 1], ![j + 1] = mat[i + 1]]

\* Row i is added to the rows of J.
AddRow(mat, i, J) ==
  LET Sum(j) == IF j \in J THEN Xor(Nth(mat, j), Nth(mat, i)) ELSE Nth(mat, j)
  IN  Tabulate(Len(mat), Sum)

\* The rows among R with a one in column i
Ones(mat, i, R) == {j \in R : i \in Nth(mat, j)}

\* Either step is done to the matrix and to what becomes of the identity.
SwapIn(s, i, p) == [s EXCEPT !.mat = SwapRows(@, i, p), !.inv = SwapRows(@, i, p)]
AddTo(s, i, J) == [s EXCEPT !.mat = AddRow(@, i, J), !.inv = AddRow(@, i, J)]
Below(mat, i) == Ones(mat, i, (i + 1)..(Len(mat) - 1))
AddBelow(s, i) == AddTo(s, i, Below(s.mat, i))

\* Column i of the upper triangular form: the first row from i on that has a one
\* in it is swapped in, and added to the rows below that have one.
Eliminate(s, i) ==
  LET pivots == Ones(s.mat, i, i..(Len(s.mat) - 1))
  IN  IF ~s.ok \/ pivots = {} THEN [s EXCEPT !.ok = FALSE]
      ELSE AddBelow(SwapIn(s, i, Min(pivots)), i)

UpperTriangular(mat) ==
  Loop(Eliminate, [mat |-> mat, inv |-> Identity(Len(mat)), ok |-> TRUE], Len(mat))

Above(mat, i) == Ones(mat, i, 0..(i - 1))

\* Back substitution, from the last column to the first, works on inv alone.
BackOnInverse(upper, rows) ==
  LET Back(inv, k) == AddRow(inv, rows - 1 - k, Above(upper.mat, rows - 1 - k))
  IN  [ok |-> upper.ok, inv |-> IF upper.ok THEN Loop(Back, upper.inv, rows) ELSE upper.inv]

galois_invert_binary_matrix(mat, rows) == BackOnInverse(UpperTriangular(mat), rows)

galois_shift_inverse(y, w) == Nth(galois_invert_binary_matrix(Doublings(y, w), w).inv, 0)

galois_shift_divide(a, b, w) ==
  CASE b = Zero -> NoResult
    [] b # Zero /\ a = Zero -> Zero
    [] OTHER -> galois_shift_multiply(a, galois_shift_inverse(b, w), w)
-----------------------------------------------------------------------------
(***************************************************************************)
(* Tables.                                                                 *)
(***************************************************************************)
nwm1(w) == 2 ^ w - 1

\* galois_create_log_tables: one entry per pass, an entry found in use is an
\* error.  The exponentials are written three times in a row and addressed from
\* the middle.
NextLog(t, j, w) ==
  IF ~t.ok \/ t.log[t.b] # nwm1(w) THEN [t EXCEPT !.ok = FALSE]
  ELSE [t EXCEPT !.log[t.b] = j, !.exp[j] = t.b, !.b = Double(t.b, w)]

galois_create_log_tables(w) ==
  LET Pass(t, j) == NextLog(t, j, w)
      t == Loop(Pass, [log |-> [b \in Words(w) |-> nwm1(w)], b |-> One, ok |-> TRUE,
                       exp |-> [j \in 0..nwm1(w) |-> Zero]], nwm1(w))
  IN  [log |-> t.log, ok |-> t.ok,
       ilog |-> [j \in -nwm1(w)..(2 * nwm1(w) - 1) |-> t.exp[j % nwm1(w)]]]

\* Operators on tables t = galois_create_log_tables(w)
galois_logtable_multiply(t, x, y) ==
  IF x = Zero \/ y = Zero THEN Zero ELSE t.ilog[t.log[x] + t.log[y]]

galois_logtable_divide(t, x, y) ==
  CASE y = Zero -> NoResult
    [] y # Zero /\ x = Zero -> Zero
    [] OTHER -> t.ilog[t.log[x] - t.log[y]]

\* Entries of the tables galois_create_mult_tables makes
mult_tables(t, x, y) == IF x = Zero \/ y = Zero THEN Zero ELSE t.ilog[t.log[x] + t.log[y]]
div_tables(t, x, y) == CASE y = Zero -> NoResult
                         [] y # Zero /\ x = Zero -> Zero
                         [] OTHER -> t.ilog[t.log[x] - t.log[y]]

\* galois_create_split_w8_tables and galois_split_w8_multiply: byte i of x times
\* byte j of y comes from table i + j, which is made for byte 0 or byte 3 of x.
Byte(x, i) == {b \in 0..7 : b + 8 * i \in x}
split_w8(k, p1, p2) ==
  LET i == IF k < 4 THEN 0 ELSE 3
  IN  galois_shift_multiply(Shifted(p1, 8 * i), Shifted(p2, 8 * (k - i)), 32)

galois_split_w8_multiply(x, y) ==
  LET Part(p) == split_w8(p[1] + p[2], Byte(x, p[1]), Byte(y, p[2]))
  IN  XorSum(Part, (0..3) \X (0..3))

\* The library's entry points.  t is what galois_create_log_tables(w) made, and
\* is not looked at where the type of w needs none.
galois_single_multiply(t, x, y, w) ==
  IF x = Zero \/ y = Zero THEN Zero
  ELSE CASE mult_type(w) = "TABLE" -> mult_tables(t, x, y)
         [] mult_type(w) = "LOGS" -> t.ilog[t.log[x] + t.log[y]]
         [] mult_type(w) = "SPLITW8" -> galois_split_w8_multiply(x, y)
         [] mult_type(w) = "SHIFT" -> galois_shift_multiply(x, y, w)

HasTables(w) == mult_type(w) \in {"TABLE", "LOGS"}

\* galois_single_divide and galois_inverse, which call each other
galois_single_divide(t, a, b, w) ==
  CASE mult_type(w) = "TABLE" -> div_tables(t, a, b)
    [] mult_type(w) # "TABLE" /\ b = Zero -> NoResult
    [] mult_type(w) # "TABLE" /\ b # Zero /\ a = Zero -> Zero
    [] mult_type(w) = "LOGS" /\ a # Zero /\ b # Zero -> t.ilog[t.log[a] - t.log[b]]
    [] OTHER -> galois_single_multiply(t, a, galois_shift_inverse(b, w), w)

galois_inverse(t, y, w) ==
  CASE y = Zero -> NoResult
    [] y # Zero /\ ~HasTables(w) -> galois_shift_inverse(y, w)
    [] OTHER -> galois_single_divide(t, One, y, w)
-----------------------------------------------------------------------------
(***************************************************************************)
(* Regions.  A region is a sequence of words in memory from word 0 on;     *)
(* words of nbytes and more lie behind it.  r2 is NULL, or the second      *)
(* region.  Adding, and clearing by zero for w = 16, work on longs of sol  *)
(* words.                                                                  *)
(***************************************************************************)
NULL == <<>>

sol(w) == 64 \div w

RoundedUp(len, w) == ((len + sol(w) - 1) \div sol(w)) * sol(w)

\* The products that galois_w08_region_multiply and galois_w16_region_multiply
\* leave in the destination.
RegionNarrow(multby, region, r2, add, len, w) ==
  LET dest == IF r2 = NULL THEN region ELSE r2
      prod(i) == galois_shift_multiply(multby, region[i], w)
      adding == r2 # NULL /\ add
      byLong == adding \/ (w = 16 /\ multby = Zero)
      reach == IF byLong THEN RoundedUp(len, w) ELSE len
  IN  IF w = 16 /\ multby = Zero /\ add THEN dest
      ELSE [i \in DOMAIN dest |->
              IF i >= reach THEN dest[i]
              ELSE IF adding THEN Xor(dest[i], prod(i))
              ELSE prod(i)]

\* galois_w32_region_multiply asks for add only.
RegionWide(multby, region, r2, add, len) ==
  LET dest == IF r2 = NULL THEN region ELSE r2
      prod(i) == galois_shift_multiply(multby, region[i], 32)
  IN  [i \in DOMAIN dest |->
         IF i >= len THEN dest[i]
         ELSE IF add THEN Xor(dest[i], prod(i))
         ELSE prod(i)]

\* galois_region_xor goes from long to long as well.
galois_region_xor(r1, r2, r3, len, w) ==
  [i \in DOMAIN r3 |-> IF i < RoundedUp(len, w) THEN Xor(r1[i], r2[i]) ELSE r3[i]]
=============================================================================
