----------------------------- MODULE FieldCases -----------------------------
(***************************************************************************)
(* GaloisField against arithmetic on polynomials.  A state is one case: a  *)
(* word size, two words, and the flags of a region multiplication; or one  *)
(* pass of the loop that makes the logarithm tables.                       *)
(***************************************************************************)
EXTENDS GaloisField

CONSTANTS
  Widths,       \* word sizes whose arithmetic is checked: all words up to 4 bits,
                \* samples of longer ones
  LogWidths,    \* word sizes whose logarithm loop is run
  RegionWidths, \* word sizes of the region multiplications
  Lengths       \* lengths of the regions, in longs

VARIABLES kind, w, x, y, len, second, add

vars == <<kind, w, x, y, len, second, add>>

\* Words with a single bit, which determine every product, the word of all
\* ones, and one with bits in every byte
Samples(v) == {{b} : b \in Bits(v)} \cup {Zero, Bits(v), {b \in Bits(v) : b % 3 = 1}}
Inputs(v) == IF v <= 4 THEN Words(v) ELSE Samples(v)

Init ==
  /\ kind = "start" /\ w = 1 /\ x = Zero /\ y = Zero
  /\ len = 0 /\ second = FALSE /\ add = FALSE

Left(v, a) ==
  /\ kind = "start"
  /\ kind' = "left" /\ w' = v /\ x' = a
  /\ UNCHANGED <<y, len, second, add>>

Right(b) ==
  /\ kind = "left"
  /\ kind' = "arithmetic" /\ y' = b
  /\ UNCHANGED <<w, x, len, second, add>>

\* x multiplies a region of len words
Region(v, a, n, r, f) ==
  /\ kind = "start"
  /\ kind' = "region" /\ w' = v /\ x' = a /\ len' = n * sol(v) /\ second' = r /\ add' = f
  /\ UNCHANGED y

\* The loop of galois_create_log_tables: y is b, len is j
LogStart(v) ==
  /\ kind = "start"
  /\ kind' = "log" /\ w' = v /\ y' = One /\ len' = 0
  /\ UNCHANGED <<x, second, add>>

LogPass ==
  /\ kind = "log" /\ len < nwm1(w)
  /\ y' = Double(y, w) /\ len' = len + 1
  /\ UNCHANGED <<kind, w, x, second, add>>

Next ==
  \/ \E v \in Widths : \E a \in Inputs(v) : Left(v, a)
  \/ \E b \in Inputs(w) : Right(b)
  \/ \E v \in RegionWidths, n \in Lengths, r, f \in BOOLEAN :
       \E a \in {Zero, One, {1}, {0, 7}} : Region(v, a, n, r, f)
  \/ \E v \in LogWidths : LogStart(v)
  \/ LogPass

Spec == Init /\ [][Next]_vars
-----------------------------------------------------------------------------
\* Polynomials over GF(2), as sets of exponents
Product(a, b) == LET degrees == {i + j : i \in a, j \in b}
                 IN  {d \in degrees : Cardinality({i \in a : d - i \in b}) % 2 = 1}
Modulus(v) == prim_poly[v] \cup {v}
Reduced(p, v) ==
  LET Cancel(q, k) == LET d == 2 * v - 2 - k
                      IN  IF d >= v /\ d \in q THEN Xor(q, Shifted(Modulus(v), d - v)) ELSE q
  IN  Loop(Cancel, p, v)
Times(a, b, v) == Reduced(Product(a, b), v)

SmallTables == [v \in 1..5 |-> galois_create_log_tables(v)]
Tables == [v \in 1..32 |-> IF v \in 1..5 THEN SmallTables[v] ELSE [ok |-> TRUE]]
Tabled == w \in 1..5

\* Every way to multiply gives the product of polynomials modulo the primitive
\* one, for zero as well (galois.c:190-350, 807-825).
ProductsRight ==
  kind = "arithmetic" =>
    /\ galois_shift_multiply(x, y, w) = Times(x, y, w)
    /\ Tabled \/ ~HasTables(w) => galois_single_multiply(Tables[w], x, y, w) = Times(x, y, w)
    /\ Tabled => /\ galois_logtable_multiply(Tables[w], x, y) = Times(x, y, w)
                 /\ mult_tables(Tables[w], x, y) = Times(x, y, w)

\* Division undoes multiplication, an inverse is one, and only a division by
\* zero is refused (galois.c:205, 388-420, 570-670).
QuotientsRight ==
  kind = "arithmetic" =>
    LET p == Times(x, y, w)
    IN  /\ galois_shift_divide(p, y, w) = IF y = Zero THEN NoResult ELSE x
        /\ y # Zero => galois_shift_multiply(y, galois_shift_inverse(y, w), w) = One
        /\ Tabled \/ ~HasTables(w) =>
             /\ galois_single_divide(Tables[w], p, y, w) = IF y = Zero THEN NoResult ELSE x
             /\ galois_inverse(Tables[w], y, w)
                  = IF y = Zero THEN NoResult ELSE galois_shift_inverse(y, w)
        /\ Tabled => /\ galois_logtable_divide(Tables[w], p, y)
                          = IF y = Zero THEN NoResult ELSE x
                     /\ div_tables(Tables[w], p, y) = IF y = Zero THEN NoResult ELSE x

\* The loop that makes the logarithm tables meets every word but zero exactly
\* once and ends where it began: it never finds an entry in use
\* (galois.c:168-179; every polynomial of prim_poly is primitive).
LogarithmsComplete ==
  kind = "log" =>
    /\ y \subseteq Bits(w) /\ y # Zero
    /\ (y = One) <=> (len \in {0, nwm1(w)})

-----------------------------------------------------------------------------
\* Memory of two regions with a long and more behind each
Word(i, shift) == {b \in 0..7 : (i + b * shift) % 3 = 0}
Memory(shift) == [i \in 0..31 |-> Word(i, shift)]
r1 == Memory(1)
r2 == IF second THEN Memory(2) ELSE NULL
TimesX(v) == Times(x, v, w)

Result == IF w = 32 THEN RegionWide(x, r1, r2, add, len)
                    ELSE RegionNarrow(x, r1, r2, add, len, w)

\* galois.h:84-106 on the arguments of the region multiplications: "If r2 !=
\* NULL, products go here. Otherwise region is overwritten", and "If (r2 !=
\* NULL && add) the produce is XOR'd with r2".
AsDocumented ==
  \A i \in 0..(len - 1) :
    Result[i] = IF second /\ add THEN Xor(r2[i], TimesX(r1[i])) ELSE TimesX(r1[i])

\* How the driver and the codec use them: adding only to a second region.  Then
\* every word of the region gets what the header says, and none behind it is
\* touched, although the loops go from long to long (galois.c:445-480, 500-563).
RegionRight ==
  kind = "region" /\ (second \/ ~add) =>
    /\ AsDocumented
    /\ \A i \in len..31 : Result[i] = (IF second THEN r2 ELSE r1)[i]

\* galois_region_xor, also with one of the regions as destination
RegionXorRight ==
  kind = "region" /\ second =>
    \A r3 \in {r1, r2} : \A i \in 0..31 :
      galois_region_xor(r1, r2, r3, len, w)[i] = IF i < len THEN Xor(r1[i], r2[i]) ELSE r3[i]
=============================================================================
