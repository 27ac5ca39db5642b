----------------------------- MODULE BitMatrix -----------------------------
(***************************************************************************)
(* The bitmatrix codec of src/lib/jerasure/jerasure.c.  A bitmatrix is the *)
(* sequence of its rows, a row the set of the columns with a one.  Column  *)
(* c stands for packet c % w of device c \div w.  drives[d] is the         *)
(* sequence of the packets of drive d, a packet is a set of bits.          *)
(***************************************************************************)
EXTENDS Jerasure

Blocks(bits, i, w) == SubSeq(bits, i * w + 1, (i + 1) * w)

\* Bit l of element i, j times 2^x is bit l, x of block i, j.
jerasure_matrix_to_bitmatrix(k, m, w, matrix) ==
  LET Row(r) == {c \in 0..(k * w - 1) :
                   r % w \in Nth(Doublings(Entry(matrix, r \div w, c \div w), w), c % w)}
  IN  Tabulate(m * w, Row)
-----------------------------------------------------------------------------
(***************************************************************************)
(* Inversion.  The way down is that of galois_invert_binary_matrix; on the *)
(* way up both matrices are worked on.                                     *)
(***************************************************************************)
BackOnBoth(upper, rows) ==
  LET Back(s, n) == AddTo(s, rows - 1 - n, Above(s.mat, rows - 1 - n))
  IN  IF upper.ok THEN Loop(Back, upper, rows) ELSE upper

jerasure_invert_bitmatrix(mat) == BackOnBoth(UpperTriangular(mat), Len(mat))

jerasure_invertible_bitmatrix(mat) == UpperTriangular(mat).ok
-----------------------------------------------------------------------------
(***************************************************************************)
(* Encoding and decoding by dot products.                                  *)
(***************************************************************************)
\* Packet p of each stripe of the destination becomes the sum of the packets in
\* row p, read and written in place; an empty row leaves it alone, and a size
\* that is not made of whole stripes everything.
jerasure_bitmatrix_dotprod(w, rows, src_ids, dest_id, drives, size, packetsize) ==
  LET Packet(p) ==
        LET row == Nth(rows, p % w)
            Source(c) == Nth(drives[src_ids[c \div w + 1]], (p - (p % w)) + (c % w))
        IN  IF p * packetsize >= size \/ row = {} THEN Nth(drives[dest_id], p)
            ELSE XorSum(Source, row)
  IN  IF size % (w * packetsize) # 0 THEN drives
      ELSE [drives EXCEPT ![dest_id] = Tabulate(Len(drives[dest_id]), Packet)]

sizeof_long == 8

jerasure_bitmatrix_encode(k, m, w, bits, drives, size, packetsize) ==
  LET Coding(d, i) ==
        jerasure_bitmatrix_dotprod(w, Blocks(bits, i, w), Ids(k), k + i, d, size, packetsize)
  IN  IF packetsize % sizeof_long # 0 \/ size % (packetsize * w) # 0 THEN drives
      ELSE Loop(Coding, drives, m)

\* The rows of the generator behind the drives of ids
SurvivorRows(k, w, bits, ids) ==
  LET Row(r) == LET d == Nth(ids, r \div w)
                IN  IF d < k THEN {d * w + (r % w)} ELSE Nth(bits, (d - k) * w + (r % w))
  IN  Tabulate(k * w, Row)

jerasure_make_decoding_bitmatrix(k, m, w, bits, erased) ==
  jerasure_invert_bitmatrix(SurvivorRows(k, w, bits, dm_ids(k, m, erased)))

jerasure_bitmatrix_decode(k, m, w, bits, row_k_ones, erasures, drives, size, packetsize) ==
  LET erased == jerasure_erasures_to_erased(k, m, erasures)
      last == lastdrive(k, row_k_ones, erased.ids)
      byMatrix == {d \in erased.ids : d < k /\ d # last}
      decoding == jerasure_make_decoding_bitmatrix(k, m, w, bits, erased.ids)
      Dot(d, rows, ids, i) ==
        jerasure_bitmatrix_dotprod(w, rows, ids, i, d, size, packetsize)
      Data(d, i) == IF i \in byMatrix
                    THEN Dot(d, Blocks(decoding.inv, i, w), dm_ids(k, m, erased.ids), i) ELSE d
      others == [i \in 1..k |-> IF i - 1 < last THEN i - 1 ELSE i]
      LastDrive(d) == IF last < k /\ last \in erased.ids
                      THEN Dot(d, Blocks(bits, 0, w), others, last) ELSE d
      Coding(d, i) == IF k + i \in erased.ids
                      THEN Dot(d, Blocks(bits, i, w), Ids(k), k + i) ELSE d
  IN  IF ~erased.ok \/ (byMatrix # {} /\ ~decoding.ok)
      THEN [result |-> -1, drives |-> drives]
      ELSE [result |-> 0, drives |-> Loop(Coding, LastDrive(Loop(Data, drives, k)), m)]
-----------------------------------------------------------------------------
(***************************************************************************)
(* Schedules.  An operation is <<source, its packet, destination, its      *)
(* packet, xor>>, in the order of the code's array; a schedule without its *)
(* end mark is a sequence of them.                                         *)
(***************************************************************************)
\* Mutant: the first packet is added as well.
RowOperationsNoCopy(k, w, row, dest) ==
  LET columns == Ascending(row, k * w)
      Operation(n) == <<Nth(columns, n) \div w, Nth(columns, n) % w, k + dest \div w, dest % w, 1>>
  IN  Tabulate(Len(columns), Operation)

\* Copies the first packet of a row and adds the others.
RowOperations(k, w, row, dest) ==
  LET columns == Ascending(row, k * w)
      Operation(n) == <<Nth(columns, n) \div w, Nth(columns, n) % w,
                        k + dest \div w, dest % w, IF n = 0 THEN 0 ELSE 1>>
  IN  Tabulate(Len(columns), Operation)

jerasure_dumb_bitmatrix_to_schedule(k, w, bits) ==
  LET Row(ops, i) == ops \o RowOperations(k, w, Nth(bits, i), i)
  IN  Loop(Row, <<>>, Len(bits))

\* The row that is cheapest to make: by its own packets, or from a row that is made
\* already, copied and corrected where they differ.  A later row must be cheaper
\* to be taken instead, and so must a later row to start from.
Cheapest(diff, rest) == Min({i \in rest : \A j \in rest : Nth(diff, i) <= Nth(diff, j)})

FromRow(k, w, row, from, dest, origin) ==
  LET columns == Ascending(Xor(row, from), k * w)
      Operation(n) == <<Nth(columns, n) \div w, Nth(columns, n) % w, k + dest \div w, dest % w, 1>>
  IN  <<<<k + origin \div w, origin % w, k + dest \div w, dest % w, 0>>>>
        \o Tabulate(Len(columns), Operation)

NextRow(s, k, w, bits) ==
  LET row == Cheapest(s.diff, s.rest)
      left == s.rest \ {row}
      Cost(i) == 1 + Cardinality(Xor(Nth(bits, row), Nth(bits, i)))
      nearer == {i \in left : Cost(i) < Nth(s.diff, i)}
      Diff(i) == IF i \in nearer THEN Cost(i) ELSE Nth(s.diff, i)
      From(i) == IF i \in nearer THEN row ELSE Nth(s.from, i)
      ops == IF Nth(s.from, row) = -1 THEN RowOperations(k, w, Nth(bits, row), row)
             ELSE FromRow(k, w, Nth(bits, row), Nth(bits, Nth(s.from, row)), row,
                          Nth(s.from, row))
  IN  [rest |-> left, ops |-> s.ops \o ops,
       diff |-> Tabulate(Len(bits), Diff), from |-> Tabulate(Len(bits), From)]

jerasure_smart_bitmatrix_to_schedule(k, w, bits) ==
  LET Weight(i) == Cardinality(Nth(bits, i))
      None(i) == -1
      Pass(s, n) == NextRow(s, k, w, bits)
  IN  Loop(Pass, [rest |-> 0..(Len(bits) - 1), ops |-> <<>>, diff |-> Tabulate(Len(bits), Weight),
                  from |-> Tabulate(Len(bits), None)], Len(bits)).ops

\* Mutant: the pointers are not advanced from stripe to stripe.
OperateFirstStripe(ptrs, op, base, drives) ==
  LET source == Nth(drives[Nth(ptrs, op[1])], op[2])
  IN  [drives EXCEPT ![Nth(ptrs, op[3])][op[4] + 1] = IF op[5] = 1 THEN Xor(source, @) ELSE source]

\* One operation of jerasure_do_scheduled_operations on the stripe whose first
\* packet is base; ptrs[i] is the drive that pointer i leads to.
Operate(ptrs, op, base, drives) ==
  LET source == Nth(drives[Nth(ptrs, op[1])], base + op[2])
      at == base + op[4] + 1
  IN  [drives EXCEPT ![Nth(ptrs, op[3])][at] = IF op[5] = 1 THEN Xor(source, @) ELSE source]
-----------------------------------------------------------------------------
(***************************************************************************)
(* Decoding by a schedule.  The list of erasures names no drive twice:     *)
(* ddf and cdf count its entries, not its drives.                          *)
(***************************************************************************)
\* Mutant: the next coding drive is not moved on from.
row_idsSameSpare(k, m, erased) ==
  LET lost == Ascending({d \in erased : d < k}, k)
      spare == Ascending({d \in k..(k + m - 1) : d \notin erased}, k + m)
      Row(i) == IF i \notin erased THEN i ELSE Nth(spare, 0)
  IN  Tabulate(k, Row) \o lost \o Ascending({d \in erased : d >= k}, k + m)

\* set_up_ids_for_scheduled_decoding: position i < k is data drive i, or in its
\* place the next coding drive that is left; after them the lost data drives and
\* the lost coding drives.  ptrs lead to the drives in the same order.
row_ids(k, m, erased) ==
  LET lost == Ascending({d \in erased : d < k}, k)
      spare == Ascending({d \in k..(k + m - 1) : d \notin erased}, k + m)
      lostBefore(i) == Cardinality({d \in erased : d < i})
      Row(i) == IF i \notin erased THEN i ELSE Nth(spare, lostBefore(i))
  IN  Tabulate(k, Row) \o lost \o Ascending({d \in erased : d >= k}, k + m)

ind_to_row(ids, d) == CHOOSE i \in 0..(Len(ids) - 1) : Nth(ids, i) = d

\* The rows of every lost drive in terms of the first k pointers: for data from the
\* inverse, which the code does not ask whether it is one; for coding drives the
\* columns of the lost data are replaced by what that data is made of.
real_decoding_matrix(k, w, bits, ids, ddf) ==
  LET inverse == jerasure_invert_bitmatrix(SurvivorRows(k, w, bits, SubSeq(ids, 1, k))).inv
      Data(r) == Nth(inverse, Nth(ids, k + r \div w) * w + (r % w))
      data == Tabulate(ddf * w, Data)
      Kept(c) == Nth(ids, c \div w) = c \div w
      Made(c) == Nth(data, (ind_to_row(ids, c \div w) - k) * w + (c % w))
      Coding(r) == LET row == Nth(bits, (Nth(ids, k + ddf + r \div w) - k) * w + (r % w))
                   IN  Xor({c \in row : Kept(c)}, XorSum(Made, {c \in row : ~Kept(c)}))
  IN  data \o Tabulate((Len(ids) - k - ddf) * w, Coding)

jerasure_generate_decoding_schedule(k, m, w, bits, erasures, smart) ==
  LET erased == jerasure_erasures_to_erased(k, m, erasures)
      ddf == Cardinality({d \in erased.ids : d < k})
      rows == real_decoding_matrix(k, w, bits, row_ids(k, m, erased.ids), ddf)
  IN  IF smart THEN jerasure_smart_bitmatrix_to_schedule(k, w, rows)
      ELSE jerasure_dumb_bitmatrix_to_schedule(k, w, rows)

\* jerasure_generate_schedule_cache, for m = 2: the lists of one or two erasures by
\* their index; both orders of two have the same schedule.
CacheList(e1, e2) == IF e1 = e2 THEN <<e1>> ELSE <<Max({e1, e2}), Min({e1, e2})>>
jerasure_generate_schedule_cache(k, m, w, bits, smart) ==
  [i \in 0..((k + m) * (k + m) - 1) |->
     jerasure_generate_decoding_schedule(k, m, w, bits,
                                         CacheList(i \div (k + m), i % (k + m)), smart)]

CacheIndex(k, m, erasures) ==
  erasures[1] * (k + m) + (IF Len(erasures) = 1 THEN erasures[1] ELSE erasures[2])

\* The indices of the pointers that jerasure_free_schedule_cache frees, in order
FreeOrder(k, m) ==
  LET n == k + m IN Ascending({i \in 0..(n * n - 1) : i % n <= i \div n}, n * n)
=============================================================================
