------------------------------ MODULE BitCodec ------------------------------
(***************************************************************************)
(* A user of the bitmatrix codec: a bitmatrix is made, data is encoded by  *)
(* dot products or by a schedule, drives are lost, and the list of them is *)
(* decoded by dot products, by a schedule made for the list, or by one out *)
(* of the cache.  A schedule is carried out one operation a step.          *)
(* Or the bitmatrices and the tables behind them are looked at on their    *)
(* own.                                                                    *)
(***************************************************************************)
EXTENDS BitCodes

CONSTANTS
  Shapes,       \* what is encoded: <<maker, k, m, w, stripes, packets behind them>>
  MatrixShapes, \* bitmatrices of which any m drives are taken away
  TableWidths   \* word sizes of the tables

VARIABLES
  phase, shape, bits,
  drives, written,  \* contents of the drives, and what encoding made of them
  erasures, result,
  schedule, op,     \* the schedule in use and the operations done in this stripe
  base,             \* first packet of the stripe
  next              \* phase after the schedule

bitVars == <<phase, shape, bits, drives, written, erasures, result, schedule, op, base, next>>

k == shape[2]
m == shape[3]
w == shape[4]
Stripes == shape[5]
Extra == shape[6]
Drives == 0..(k + m - 1)
packetsize == sizeof_long
size == (Stripes * w + Extra) * packetsize
Packets == Stripes * w + Extra + w

BitsOf(s, matrix) == IF matrix = NoMatrix THEN NoMatrix
                     ELSE jerasure_matrix_to_bitmatrix(s[2], s[3], s[4], matrix)

Made(s) ==
  CASE s[1] = "liberation" -> liberation_coding_bitmatrix(s[2], s[4])
    [] s[1] = "liber8tion" -> liber8tion_coding_bitmatrix(s[2])
    [] s[1] = "blaum_roth" -> blaum_roth_coding_bitmatrix(s[2], s[4])
    [] s[1] = "original" -> BitsOf(s, cauchy_original_coding_matrix(s[2], s[3], s[4]))
    [] s[1] = "good" -> BitsOf(s, cauchy_good_general_coding_matrix(s[2], s[3], s[4]))

\* No coding packet is made of nothing.
RowsNotEmpty(s) == \A r \in 0..(s[3] * s[4] - 1) : Nth(Made(s), r) # {}

\* What the makers are asked for: those without a parameter for it have two coding
\* drives, and liber8tion has words of eight bits.  Less than a stripe is left over
\* (its size is not a multiple of packetsize * w).  That no word of a Cauchy matrix
\* is zero is field arithmetic.
Makers == {"liberation", "liber8tion", "blaum_roth", "original", "good"}
ASSUME BitCodecAssumption ==
  /\ \A s \in Shapes \cup MatrixShapes :
       /\ s \in Makers \X (Nat \ {0}) \X (Nat \ {0}) \X (Nat \ {0}) \X (Nat \ {0}) \X Nat
       /\ s[1] \in {"liberation", "liber8tion", "blaum_roth"} => s[3] = 2
       /\ s[1] = "liber8tion" => s[4] = 8
  /\ \A s \in Shapes :
       /\ s[6] < s[4]
       /\ s[1] \in {"original", "good"} /\ Made(s) # NoMatrix => RowsNotEmpty(s)

\* Packet p of drive d before it is written to: a bit of its own.  Sums of packets
\* are then sets of these bits.
Content(d) == LET Packet(p) == {<<d, p>>} IN Tabulate(Packets, Packet)
Lost(d) == LET Packet(p) == {<<k + m + d, p>>} IN Tabulate(Packets, Packet)

BitInit ==
  /\ phase = "start" /\ shape = <<"none", 1, 1, 8, 1, 0>> /\ bits = NoMatrix
  /\ drives = <<>> /\ written = <<>> /\ erasures = <<>> /\ result = 0
  /\ schedule = <<>> /\ op = 0 /\ base = 0 /\ next = "start"

Make(s) ==
  /\ phase = "start"
  /\ phase' = "made" /\ shape' = s /\ bits' = Made(s)
  /\ UNCHANGED <<drives, written, erasures, result, schedule, op, base, next>>

EncodeByDots ==
  /\ phase = "made" /\ shape \in Shapes /\ bits # NoMatrix
  /\ phase' = "encoded"
  /\ drives' = jerasure_bitmatrix_encode(k, m, w, bits, [d \in Drives |-> Content(d)], size,
                                         packetsize)
  /\ written' = drives'
  /\ UNCHANGED <<shape, bits, erasures, result, schedule, op, base, next>>

\* jerasure_schedule_encode: ptr_copy leads to the drives as they are.
EncodeBySchedule(smart) ==
  /\ phase = "made" /\ shape \in Shapes /\ bits # NoMatrix
  /\ phase' = "operating" /\ next' = "encoded"
  /\ drives' = [d \in Drives |-> Content(d)]
  /\ schedule' = IF smart THEN jerasure_smart_bitmatrix_to_schedule(k, w, bits)
                 ELSE jerasure_dumb_bitmatrix_to_schedule(k, w, bits)
  /\ op' = 0 /\ base' = 0
  /\ UNCHANGED <<shape, bits, written, erasures, result>>

\* The drives of the list lose their contents.  Regions that are not made of whole
\* stripes are encoded only.
Lose(list) ==
  /\ phase = "encoded" /\ Extra = 0
  /\ phase' = "lost" /\ erasures' = list
  /\ drives' = [d \in Drives |-> IF d \in {list[n] : n \in DOMAIN list} THEN Lost(d) ELSE drives[d]]
  /\ UNCHANGED <<shape, bits, written, result, schedule, op, base, next>>

\* The first coding drive is the parity of the data.  A caller may say so, if it is.
RowKOnes == \A r \in 0..(w - 1) : Nth(bits, r) = {j * w + r : j \in 0..(k - 1)}

DecodeByDots(row_k_ones) ==
  LET decoded == jerasure_bitmatrix_decode(k, m, w, bits, row_k_ones, erasures, drives, size,
                                           packetsize)
  IN  /\ phase = "lost" /\ (row_k_ones => RowKOnes)
      /\ phase' = "decoded"
      /\ drives' = decoded.drives /\ result' = decoded.result
      /\ UNCHANGED <<shape, bits, written, erasures, schedule, op, base, next>>

\* jerasure_schedule_decode_lazy and jerasure_schedule_decode_cache up to the first
\* operation
DecodeBySchedule(ops) ==
  /\ phase = "lost"
  /\ IF jerasure_erasures_to_erased(k, m, erasures).ok
     THEN phase' = "operating" /\ schedule' = ops /\ UNCHANGED result
     ELSE phase' = "decoded" /\ result' = -1 /\ UNCHANGED schedule
  /\ next' = "decoded" /\ op' = 0 /\ base' = 0
  /\ UNCHANGED <<shape, bits, drives, written, erasures>>

\* A smart schedule for no erasure at all is not asked for: the code would start
\* from a row that does not exist.
DecodeLazily(smart) ==
  /\ smart => erasures # <<>>
  /\ DecodeBySchedule(jerasure_generate_decoding_schedule(k, m, w, bits, erasures, smart))

\* The cache holds the schedules of one or two erasures.
DecodeFromCache(smart) ==
  /\ m = 2 /\ Len(erasures) \in {1, 2}
  /\ DecodeBySchedule(jerasure_generate_schedule_cache(k, m, w, bits, smart)
                         [CacheIndex(k, m, erasures)])

DecodeTooMany ==
  /\ m = 2 /\ phase = "lost" /\ Len(erasures) > 2
  /\ phase' = "decoded" /\ result' = -1
  /\ UNCHANGED <<shape, bits, drives, written, erasures, schedule, op, base, next>>

\* The drives behind the pointers of the schedule
ptrs == IF next = "encoded" THEN Ids(k + m)
        ELSE row_ids(k, m, {erasures[n] : n \in DOMAIN erasures})

DoOperation ==
  /\ phase = "operating" /\ op < Len(schedule)
  /\ drives' = Operate(ptrs, schedule[op + 1], base, drives)
  /\ op' = op + 1
  /\ UNCHANGED <<phase, shape, bits, written, erasures, result, schedule, base, next>>

\* for (tdone = 0; tdone < size; tdone += packetsize*w)
MoreStripes(b) == b * packetsize < size

StripeDone ==
  /\ phase = "operating" /\ op = Len(schedule)
  /\ IF MoreStripes(base + w)
     THEN base' = base + w /\ op' = 0 /\ UNCHANGED <<phase, written, result>>
     ELSE /\ phase' = next
          /\ written' = IF next = "encoded" THEN drives ELSE written
          /\ result' = 0
          /\ UNCHANGED <<base, op>>
  /\ UNCHANGED <<shape, bits, drives, erasures, schedule, next>>

\* In the order of the drives, and against it; no drive is named twice.
Lists(S) == LET up == Ascending(S, k + m)
                Back(i) == Nth(up, Len(up) - 1 - i)
            IN  {up, Tabulate(Len(up), Back)}

\* A look at what is left of a bitmatrix without m drives
Probe(lost) ==
  /\ phase = "made" /\ shape \in MatrixShapes /\ bits # NoMatrix
  /\ phase' = "probed" /\ erasures' = Ascending(lost, k + m)
  /\ UNCHANGED <<shape, bits, drives, written, result, schedule, op, base, next>>

\* Entry i of the table for words of v bits
Look(v, i) ==
  /\ phase = "start"
  /\ phase' = "looked" /\ shape' = <<"table", 1, 1, v, 1, 0>> /\ op' = i
  /\ UNCHANGED <<bits, drives, written, erasures, result, schedule, base, next>>

BitNext ==
  \/ \E s \in Shapes \cup MatrixShapes : Make(s)
  \/ EncodeByDots
  \/ \E smart \in BOOLEAN : \/ EncodeBySchedule(smart)
                            \/ DecodeLazily(smart)
                            \/ DecodeFromCache(smart)
  \/ \E lost \in SUBSET Drives : \E list \in Lists(lost) : Lose(list)
  \/ \E row_k_ones \in BOOLEAN : DecodeByDots(row_k_ones)
  \/ DecodeTooMany
  \/ DoOperation
  \/ StripeDone
  \/ \E lost \in {S \in SUBSET Drives : Cardinality(S) = m} : Probe(lost)
  \/ \E v \in TableWidths : \E i \in 0..(2 ^ v - 2) : Look(v, i)

BitSpec == BitInit /\ [][BitNext]_bitVars
-----------------------------------------------------------------------------
Erased == {erasures[n] : n \in DOMAIN erasures}

\* Packets of a region that belong to a stripe, be it the last part of one
Reach == (Stripes + (IF Extra = 0 THEN 0 ELSE 1)) * w

\* Either way to encode writes the sums that the bitmatrix names into every packet
\* of the coding regions and nothing anywhere else.  Of a region that is not made of
\* whole stripes the dot products encode nothing, and a schedule goes on to the
\* end of the last stripe (jerasure.c:318, 1170-1382).
EncodedByMatrix ==
  phase = "encoded" =>
    \A d \in Drives : \A p \in 0..(Packets - 1) :
      Nth(drives[d], p) =
        IF d < k \/ p >= Reach \/ (Extra # 0 /\ next # "encoded") THEN Nth(Content(d), p)
        ELSE {<<c \div w, p - (p % w) + (c % w)>> : c \in Nth(bits, (d - k) * w + (p % w))}

\* No operation of a schedule, encoding or decoding, reaches past the stripe that
\* the end of the region is in (jerasure.c:963-975, 1204).
InsideLastStripe ==
  phase = "operating" =>
    \A d \in Drives : \A p \in Reach..(Packets - 1) :
      Nth(drives[d], p) \in {Nth(Content(d), p), Nth(Lost(d), p)}

\* The rows of the first k drives that are left
Recoverable == jerasure_invertible_bitmatrix(SurvivorRows(k, w, bits, dm_ids(k, m, Erased)))

\* Every way to decode brings back all that was written if no more than m drives
\* are lost, and fails without a write if there are more.  If the drives that are
\* left do not determine the others, decoding by dot products fails; a schedule
\* is made and carried out all the same, and writes to the lost drives only
\* (jerasure.c:640-1010).
DrivesRestored ==
  phase = "decoded" =>
    /\ result = -1 <=> \/ Cardinality(Erased) > m
                       \/ ~Recoverable /\ next # "decoded"
    /\ \A d \in Drives : \A p \in 0..(Packets - 1) :
         CASE d \in Erased /\ (result = -1 \/ p >= Reach) -> Nth(drives[d], p) = Nth(Lost(d), p)
           [] d \in Erased /\ result = 0 /\ p < Reach ->
                Recoverable => Nth(drives[d], p) = Nth(written[d], p)
           [] OTHER -> Nth(drives[d], p) = Nth(written[d], p)

\* A schedule begins every packet it makes with a copy and adds to it afterwards,
\* reads the packet of a coding region only when that is complete, makes none
\* but coding packets, and fits into the array that is allocated for it
\* (jerasure.c:1211-1361).
ScheduleInOrder ==
  LET From(n) == <<schedule[n][1], schedule[n][2]>>
      To(n) == <<schedule[n][3], schedule[n][4]>>
  IN  phase = "operating" =>
        /\ Len(schedule) <= k * (Len(ptrs) - k) * w * w
        /\ \A n \in DOMAIN schedule :
             /\ To(n)[1] >= k
             /\ schedule[n][5] = 0 <=> \A i \in 1..(n - 1) : To(i) # To(n)
             /\ From(n)[1] >= k => /\ \E i \in 1..(n - 1) : To(i) = From(n)
                                   /\ \A i \in n..Len(schedule) : To(i) # From(n)

\* Whatever m drives are lost, the rest determines the data.  The rows of the data
\* drives that are left are unit rows, so that it is the columns of the lost ones
\* in the coding drives that are left that must be invertible (liberation.c:60-265
\* for w, w + 1 prime or w = 8; cauchy.c:134-241).
BitRowsInvert ==
  phase = "probed" =>
    LET lost == Ascending({d \in Erased : d < k}, k)
        left == Ascending({d \in k..(k + m - 1) : d \notin Erased}, k + m)
        Row(r) == LET row == Nth(bits, (Nth(left, r \div w) - k) * w + (r % w))
                  IN  {c \in 0..(Len(lost) * w - 1) :
                         Nth(lost, c \div w) * w + (c % w) \in row}
    IN  jerasure_invertible_bitmatrix(Tabulate(Len(lost) * w, Row))

\* Freeing a cache frees the schedule of every list once, although most of them
\* have two pointers to them (jerasure.c:560-576, 1014-1049).
CacheFreedOnce ==
  phase = "made" /\ bits # NoMatrix /\ m = 2 =>
    LET freed == FreeOrder(k, m)
        Freed(n) == CacheList(freed[n] \div (k + m), freed[n] % (k + m))
    IN  /\ \A n, i \in DOMAIN freed : Freed(n) = Freed(i) => n = i
        /\ {Freed(n) : n \in DOMAIN freed} =
             {CacheList(i \div (k + m), i % (k + m)) : i \in 0..((k + m) * (k + m) - 1)}

\* The running count of cauchy_n_ones is the number of ones in the bitmatrix of the
\* word, and the tables hold every word once, those with the fewest ones first
\* (cauchy.c:92-132, 243-253).
TablesBest ==
  phase = "looked" =>
    LET Word(i) == Number(Nth(cbest_all[w], i))
        Ones2(x) == LET rows == jerasure_matrix_to_bitmatrix(1, 1, w, <<<<x>>>>)
                        Weight(r) == Cardinality(Nth(rows, r))
                    IN  MapThenSumSet(Weight, 0..(w - 1))
    IN  /\ cauchy_n_ones(Word(op), w) = Ones2(Word(op))
        /\ Len(cbest_all[w]) = 2 ^ w - 1
        /\ Word(op) \in Words(w) \ {Zero}
        /\ \A i \in 0..(op - 1) : Word(i) # Word(op)
        /\ op > 0 => cauchy_n_ones(Word(op - 1), w) <= cauchy_n_ones(Word(op), w)

RowImproved(row) ==
  \A j \in 0..(k - 1) : RowOnes(Scaled(row, Inv(Nth(row, j), w), w), w) >= RowOnes(row, w)
RowsImproved(matrix) == matrix # NoMatrix => \A i \in 1..(m - 1) : RowImproved(Nth(matrix, i))

\* No row of an improved matrix but the first has fewer ones after division by
\* one of its elements (cauchy.c:169-210).
ImprovedNoFurther ==
  phase = "made" /\ shape[1] = "good" /\ m # 2 =>
    RowsImproved(cauchy_good_general_coding_matrix(k, m, w))

\* Any m drives may be lost, the tables of words are sorted by their ones, and an
\* improved matrix cannot be improved (liberation.c:60-265, cauchy.c:92-253).
BitMatricesRight == BitRowsInvert /\ TablesBest /\ ImprovedNoFurther

\* Schedules make packets before they use them, and caches free them once
\* (jerasure.c:551-576, 1014-1049, 1211-1361).
SchedulesRight == ScheduleInOrder /\ CacheFreedOnce

\* Both ways to encode and all ways to decode write what they should, where they
\* should, and nothing past the last stripe (jerasure.c:640-1010, 1170-1209, 1363-1382).
BitsRestored == EncodedByMatrix /\ InsideLastStripe /\ DrivesRestored
=============================================================================
