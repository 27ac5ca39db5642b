----------------------------- MODULE MCJerasure -----------------------------
(***************************************************************************)
(* The library, one part of it per behaviour: the creation of its tables   *)
(* by several callers (GaloisTables), the arithmetic of its fields         *)
(* (FieldCases), the codec of words (WordCodec) and the codec of packets   *)
(* (BitCodec).  The parts share no state, so that the variables of the     *)
(* other ones keep their initial values.                                   *)
(***************************************************************************)
EXTENDS GaloisTables, BitCodec

VARIABLES
  running,                                     \* the part
  kind, wordSize, x, y, len, second, add,      \* of FieldCases
  wordPhase, wordShape, matrix, wordWritten, wordDrives, wordErasures, wordResult

\* Word codes: <<method, k, m, w>>.  Rows are inverted where there is a matrix, of
\* RAID-6 for the word sizes that the code is made for.
Vandermonde(K, M, W) == {<<"vandermonde", i, j, v>> : i \in K, j \in M, v \in W}
WordMatrices ==
  {s \in Vandermonde(1..7, 1..7, {1, 2, 3, 4}) : s[2] + s[3] <= 9}
  \cup Vandermonde(1..5, 1..3, {8}) \cup Vandermonde({3}, {3}, {16, 32})
  \cup {<<"r6", i, 2, v>> : i \in 1..5, v \in {4, 8, 16}}
  \cup {<<"vandermonde", 2, 0, 8>>}
WordRows ==
  {s \in WordMatrices : /\ s[3] # 0
                        /\ s[4] < 8 => s[2] + s[3] <= 2 ^ s[4]
                        /\ s[1] = "r6" => s[4] # 4}
WordShapes ==
  {s \in Vandermonde(1..4, 1..3, {8}) : s[2] + s[3] <= 6}
  \cup Vandermonde({2}, {1, 2}, {4, 16}) \cup Vandermonde({2}, {1}, {32})
  \cup {<<"r6", i, 2, v>> : i \in {1, 3}, v \in {8, 16}}

\* Bitmatrix codes: <<maker, k, m, w, stripes, packets behind them>>
Makes(maker, K, M, W) == {<<maker, i, j, v, 1, 0>> : i \in K, j \in M, v \in W}
BitShapes ==
  Makes("liberation", {2, 3}, {2}, {3}) \cup Makes("blaum_roth", {2}, {2}, {4})
  \cup Makes("good", {3}, {2}, {2}) \cup Makes("good", {2}, {3}, {3})
  \cup Makes("original", {2}, {2}, {2})
  \cup {<<"liberation", 2, 2, 3, 2, 0>>, <<"liberation", 2, 2, 3, 1, 1>>}
  \cup Makes("liberation", {4}, {2}, {4})
BitMatrices ==
  {s \in Makes("liberation", 1..7, {2}, {3, 5, 7}) : s[2] <= s[4] + 1}
  \cup {s \in Makes("blaum_roth", 1..7, {2}, {4, 6}) : s[2] <= s[4] + 1}
  \cup Makes("liber8tion", 1..9, {2}, {8})
  \cup {s \in Makes("original", 1..6, 1..4, {2, 3, 4}) : s[2] + s[3] <= 9}
  \cup {s \in Makes("good", 1..6, 1..4, {2, 3, 4, 5, 6}) : s[2] + s[3] <= 8}
  \cup Makes("good", {1, 3}, {1, 3}, {8})
BitTableWidths == 2..6

Field == INSTANCE FieldCases WITH
           w <- wordSize, Widths <- {1, 2, 3, 4, 5, 8, 16, 23, 32}, LogWidths <- 1..16,
           RegionWidths <- {8, 16, 32}, Lengths <- 0..2
WordsOf == INSTANCE WordCodec WITH
           phase <- wordPhase, shape <- wordShape, written <- wordWritten,
           drives <- wordDrives, erasures <- wordErasures, result <- wordResult,
           Shapes <- WordMatrices \cup WordShapes, RowShapes <- WordRows,
           CodeShapes <- WordShapes, IntWidths <- {8, 16, 32}

fieldVars == <<kind, wordSize, x, y, len, second, add>>
wordVars == <<wordPhase, wordShape, matrix, wordWritten, wordDrives, wordErasures, wordResult>>
libVars == <<vars, running, fieldVars, wordVars, bitVars>>

LibInit ==
  /\ running \in {"tables", "field", "words", "bits"}
  /\ Init
  /\ running # "tables" => environment = "overlap"
  /\ Field!Init /\ WordsOf!Init /\ BitInit

LibNext ==
  /\ UNCHANGED running
  /\ \/ /\ running = "tables" /\ Next
        /\ UNCHANGED <<fieldVars, wordVars, bitVars>>
     \/ /\ running = "field" /\ Field!Next
        /\ UNCHANGED <<vars, wordVars, bitVars>>
     \/ /\ running = "words" /\ WordsOf!Next
        /\ UNCHANGED <<vars, fieldVars, bitVars>>
     \/ /\ running = "bits" /\ BitNext
        /\ UNCHANGED <<vars, fieldVars, wordVars>>

LibSpec == LibInit /\ [][LibNext]_libVars
-----------------------------------------------------------------------------
(***************************************************************************)
(* The properties of the parts are stated and explained in their modules,  *)
(* those of GaloisTables and BitCodec under the names they have here.      *)
(***************************************************************************)
\* Every way to multiply and divide agrees with polynomials, the loop that makes the
\* logarithms never finds an entry in use, and region operations do their region
\* and nothing else (galois.c:167-770).
FieldRight ==
  /\ Field!ProductsRight /\ Field!QuotientsRight
  /\ Field!LogarithmsComplete
  /\ Field!RegionRight /\ Field!RegionXorRight

\* Coding matrices have the ones that decoding relies on, any m drives may be lost,
\* and encoding by doubling agrees with encoding by the matrix (reed_sol.c:59-368,
\* jerasure.c:377-519).
WordMatricesRight ==
  /\ WordsOf!OnesAsPromised /\ WordsOf!WordRowsInvert
  /\ WordsOf!EncodersAgree /\ WordsOf!DoublingRight

\* Decoding brings the lost drives back, or fails without a write (jerasure.c:170-271).
WordsRestored == WordsOf!WordsRestored
=============================================================================
