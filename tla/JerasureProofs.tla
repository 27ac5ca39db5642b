--------------------------- MODULE JerasureProofs ---------------------------
(***************************************************************************)
(* What the algorithms of the library return, for every size and every     *)
(* matrix: sums of words, loops, the elimination on matrices of bits, and  *)
(* the schedules of the bitmatrix codec.                                   *)
(*                                                                         *)
(* A loop is a function from the number of passes to what they make of its *)
(* variables.  That there is such a function, and what holds after every   *)
(* pass, is shown by induction on sets of numbers.                         *)
(***************************************************************************)
EXTENDS BitMatrix, FiniteSetTheorems, WellFoundedInduction, TLAPS

(***************************************************************************)
(* Induction, and loops.                                                   *)
(***************************************************************************)
LEMMA LeastNatural ==
  ASSUME NEW T \in SUBSET Nat, T # {}
  PROVE  \E i \in T : \A j \in T : i <= j
<1> DEFINE R == {p \in Nat \X Nat : p[1] < p[2]}
<1>1. IsWellFoundedOn(R, Nat)
  BY NatLessThanWellFounded DEF OpToRel
<1>2. PICK i \in T : \A j \in T : ~ (<<j, i>> \in R)
  <2> HIDE DEF R
  <2> QED BY <1>1, WFMin
<1>3. ASSUME NEW j \in T PROVE i <= j
  <2>1. i \in Nat /\ j \in Nat /\ ~ (<<j, i>> \in R)
    BY <1>2
  <2> QED BY <2>1
<1> QED
  BY <1>3

LEMMA NaturalsFromZero ==
  ASSUME NEW P \in SUBSET Nat, 0 \in P, \A i \in P : i + 1 \in P
  PROVE  P = Nat
<1> SUFFICES ASSUME Nat \ P # {} PROVE FALSE
  OBVIOUS
<1>1. PICK i \in Nat \ P : \A j \in Nat \ P : i <= j
  BY LeastNatural
<1>2. i # 0 /\ i - 1 \in Nat /\ (i - 1) + 1 = i
  BY <1>1
<1> QED
  BY <1>1, <1>2

\* What holds at first and is kept by every pass holds after every pass.
LEMMA PassByPass ==
  ASSUME NEW n \in Nat, NEW P, 0 \in P, \A i \in 0..(n - 1) : i \in P => i + 1 \in P
  PROVE  \A i \in 0..n : i \in P
<1> DEFINE Q == {i \in Nat : i <= n => i \in P}
<1>1. Q \in SUBSET Nat /\ 0 \in Q
  OBVIOUS
<1>2. \A i \in Q : i + 1 \in Q
  OBVIOUS
<1> HIDE DEF Q
<1>3. Q = Nat
  BY <1>1, <1>2, NaturalsFromZero
<1> QED
  BY <1>3 DEF Q

\* f[i] is what i passes of the body make of v.
Passes(f, v, body, n) ==
  /\ DOMAIN f = 0..n
  /\ f[0] = v
  /\ \A i \in 0..(n - 1) : f[i + 1] = body[<<f[i], i>>]

\* A loop whose body stays in a set has its passes.
LEMMA PassesExist ==
  ASSUME NEW n \in Nat, NEW S, NEW v \in S, NEW body \in [S \X (0..(n - 1)) -> S]
  PROVE  \E f \in [0..n -> S] : Passes(f, v, body, n)
<1> DEFINE P == {i \in 0..n : \E f \in [0..i -> S] : Passes(f, v, body, i)}
<1>1. 0 \in P
  <2> DEFINE h == [j \in 0..0 |-> v]
  <2>1. h \in [0..0 -> S] /\ Passes(h, v, body, 0)
    BY DEF Passes
  <2> HIDE DEF h
  <2> QED BY <2>1
<1>2. ASSUME NEW i \in 0..(n - 1), i \in P PROVE i + 1 \in P
  <2>1. PICK f \in [0..i -> S] : Passes(f, v, body, i)
    BY <1>2
  <2> DEFINE h == [j \in 0..(i + 1) |-> IF j = i + 1 THEN body[<<f[i], i>>] ELSE f[j]]
  <2>2. h \in [0..(i + 1) -> S]
    OBVIOUS
  <2>3. DOMAIN h = 0..(i + 1) /\ h[0] = v
    BY <2>1 DEF Passes
  <2>4. ASSUME NEW j \in 0..i PROVE h[j + 1] = body[<<h[j], j>>]
    <3>1. h[j] = f[j]
      OBVIOUS
    <3>2. CASE j = i
      <4>1. h[j + 1] = body[<<f[i], i>>]
        BY <3>2
      <4> QED BY <3>1, <3>2, <4>1
    <3>3. CASE j \in 0..(i - 1)
      <4>1. h[j + 1] = f[j + 1]
        BY <3>3
      <4> QED BY <2>1, <3>1, <3>3, <4>1 DEF Passes
    <3> QED BY <3>2, <3>3
  <2> HIDE DEF h
  <2>5. Passes(h, v, body, i + 1)
    BY <2>3, <2>4 DEF Passes
  <2>6. i + 1 \in 0..n
    OBVIOUS
  <2> QED BY <2>2, <2>5, <2>6
<1> HIDE DEF P
<1>3. n \in P
  BY <1>1, <1>2, PassByPass
<1> QED BY <1>3 DEF P

\* A loop whose body takes P[i] to P[i + 1] has its passes, and they are in P.
LEMMA PassesHold ==
  ASSUME NEW n \in Nat, NEW P, NEW v, NEW body, v \in P[0],
         \A i \in 0..(n - 1) : \A s \in P[i] : body[<<s, i>>] \in P[i + 1]
  PROVE  \E f : /\ f = [j \in 0..n |-> f[j]]
                /\ Passes(f, v, body, n)
                /\ \A i \in 0..n : f[i] \in P[i]
<1> DEFINE Good(f, i) == /\ f = [j \in 0..i |-> f[j]]
                         /\ Passes(f, v, body, i)
                         /\ \A j \in 0..i : f[j] \in P[j]
           Q == {i \in 0..n : \E f : Good(f, i)}
<1>1. 0 \in Q
  <2> DEFINE h == [j \in 0..0 |-> v]
  <2>1. DOMAIN h = 0..0 /\ h[0] = v /\ h = [j \in 0..0 |-> h[j]]
    OBVIOUS
  <2> HIDE DEF h
  <2>2. Good(h, 0)
    BY <2>1 DEF Passes
  <2> QED BY <2>2
<1>2. ASSUME NEW i \in 0..(n - 1), i \in Q PROVE i + 1 \in Q
  <2>1. PICK f : Good(f, i)
    BY <1>2
  <2> DEFINE h == [j \in 0..(i + 1) |-> IF j = i + 1 THEN body[<<f[i], i>>] ELSE f[j]]
  <2>2. h = [j \in 0..(i + 1) |-> h[j]] /\ DOMAIN h = 0..(i + 1)
    OBVIOUS
  <2>3. h[i + 1] = body[<<f[i], i>>] /\ \A j \in 0..i : h[j] = f[j]
    OBVIOUS
  <2> HIDE DEF h
  <2>4. h[0] = v
    BY <2>1, <2>3 DEF Passes
  <2>5. ASSUME NEW j \in 0..i PROVE h[j + 1] = body[<<h[j], j>>]
    <3>1. CASE j = i
      BY <2>3, <3>1
    <3>2. CASE j \in 0..(i - 1)
      <4>1. h[j + 1] = f[j + 1] /\ h[j] = f[j]
        BY <2>3, <3>2
      <4>2. f[j + 1] = body[<<f[j], j>>]
        BY <2>1, <3>2 DEF Passes
      <4> QED BY <4>1, <4>2
    <3> QED BY <3>1, <3>2
  <2>6. ASSUME NEW j \in 0..(i + 1) PROVE h[j] \in P[j]
    <3>1. CASE j = i + 1
      <4>1. f[i] \in P[i]
        BY <2>1
      <4> QED BY <2>3, <3>1, <4>1
    <3>2. CASE j \in 0..i
      BY <2>1, <2>3, <3>2
    <3> QED BY <3>1, <3>2
  <2>7. Passes(h, v, body, i + 1)
    <3>1. 0..((i + 1) - 1) = 0..i
      OBVIOUS
    <3> QED BY <2>2, <2>4, <2>5, <3>1 DEF Passes
  <2>8. Good(h, i + 1)
    BY <2>2, <2>6, <2>7
  <2>9. i + 1 \in 0..n
    OBVIOUS
  <2> HIDE DEF Good
  <2> QED BY <2>8, <2>9
<1> HIDE DEF Q
<1>3. n \in Q
  BY <1>1, <1>2, PassByPass
<1> QED BY <1>3 DEF Q

LEMMA SetByElement ==
  ASSUME NEW S, IsFiniteSet(S), NEW P, {} \in P,
         \A T \in SUBSET S : \A i \in S \ T : T \in P => T \cup {i} \in P
  PROVE  S \in P
<1> DEFINE Q == {n \in 0..Cardinality(S) :
                   \A T \in SUBSET S : Cardinality(T) = n => T \in P}
<1>1. Cardinality(S) \in Nat
  BY FS_CardinalityType
<1>2. 0 \in Q
  <2>1. ASSUME NEW T \in SUBSET S, Cardinality(T) = 0 PROVE T = {}
    BY <2>1, FS_Subset, FS_EmptySet
  <2> QED BY <1>1, <2>1
<1>3. ASSUME NEW n \in 0..(Cardinality(S) - 1), n \in Q PROVE n + 1 \in Q
  <2>1. ASSUME NEW T \in SUBSET S, Cardinality(T) = n + 1 PROVE T \in P
    <3>1. IsFiniteSet(T) /\ T # {}
      BY <1>1, <2>1, FS_Subset, FS_EmptySet
    <3>2. PICK i \in T : TRUE
      BY <3>1
    <3>3. Cardinality(T \ {i}) = Cardinality(T) - 1
      BY <3>1, <3>2, FS_RemoveElement
    <3>4. T \ {i} \in P
      BY <1>3, <2>1, <3>3
    <3>5. (T \ {i}) \cup {i} \in P
      BY <3>4
    <3>6. (T \ {i}) \cup {i} = T
      BY <3>2
    <3> QED BY <3>5, <3>6
  <2> QED BY <1>1, <2>1
<1> HIDE DEF Q
<1>4. Cardinality(S) \in Q
  BY <1>1, <1>2, <1>3, PassByPass
<1> QED BY <1>4 DEF Q
-----------------------------------------------------------------------------
(***************************************************************************)
(* Sums of words.                                                          *)
(***************************************************************************)
Odd(S) == Cardinality(S) % 2 = 1

LEMMA OddXor ==
  ASSUME NEW S, IsFiniteSet(S), NEW T, IsFiniteSet(T)
  PROVE  IsFiniteSet(Xor(S, T)) /\ (Odd(Xor(S, T)) <=> ~(Odd(S) <=> Odd(T)))
<1>1. /\ IsFiniteSet(S \ T) /\ IsFiniteSet(T \ S) /\ IsFiniteSet(S \cap T)
      /\ Cardinality(S \ T) = Cardinality(S) - Cardinality(S \cap T)
      /\ Cardinality(T \ S) = Cardinality(T) - Cardinality(T \cap S)
  BY FS_Difference, FS_Intersection
<1>2. T \cap S = S \cap T /\ (S \ T) \cap (T \ S) = {}
  OBVIOUS
<1>3. /\ IsFiniteSet((S \ T) \cup (T \ S))
      /\ Cardinality((S \ T) \cup (T \ S)) = Cardinality(S \ T) + Cardinality(T \ S) - 0
  BY <1>1, <1>2, FS_Union, FS_EmptySet
<1>4. /\ Cardinality(S) \in Nat /\ Cardinality(T) \in Nat /\ Cardinality(S \cap T) \in Nat
  BY <1>1, FS_CardinalityType
<1>5. Xor(S, T) = (S \ T) \cup (T \ S)
  BY DEF Xor, SymDiff
<1>6. IsFiniteSet(Xor(S, T)) /\ Cardinality(Xor(S, T))
        = Cardinality(S) + Cardinality(T) - 2 * Cardinality(S \cap T)
  <2>1. Cardinality(T \cap S) = Cardinality(S \cap T)
    BY <1>2
  <2>2. /\ IsFiniteSet(Xor(S, T))
        /\ Cardinality(Xor(S, T)) = Cardinality(S \ T) + Cardinality(T \ S) - 0
    BY <1>3, <1>5
  <2> QED BY <1>1, <1>4, <2>1, <2>2
<1> QED
  BY <1>4, <1>6 DEF Odd

LEMMA OddSmall ==
  /\ ~Odd({})
  /\ \A i : Odd({i})
<1>1. Cardinality({}) = 0 /\ \A i : Cardinality({i}) = 1
  BY FS_EmptySet, FS_Singleton
<1> QED BY <1>1 DEF Odd

\* XorSum for a function
Having(b, F, S) == {i \in S : b \in F[i]}
Sum(F, S) == {b \in UNION {F[i] : i \in S} : Odd(Having(b, F, S))}

LEMMA SumMember ==
  ASSUME NEW S, IsFiniteSet(S), NEW F, NEW b
  PROVE  b \in Sum(F, S) <=> Odd(Having(b, F, S))
<1>1. Odd(Having(b, F, S)) => Having(b, F, S) # {}
  BY OddSmall
<1>2. Odd(Having(b, F, S)) => b \in UNION {F[i] : i \in S}
  BY <1>1 DEF Having
<1> QED BY <1>2 DEF Sum

LEMMA SumSame ==
  ASSUME NEW S, NEW F, NEW G, \A i \in S : F[i] = G[i]
  PROVE  Sum(F, S) = Sum(G, S)
<1>1. {F[i] : i \in S} = {G[i] : i \in S}
  OBVIOUS
<1>2. \A b : Having(b, F, S) = Having(b, G, S)
  BY DEF Having
<1> QED BY <1>1, <1>2 DEF Sum

LEMMA SumWithin ==
  ASSUME NEW S, NEW F, NEW B, \A i \in S : F[i] \subseteq B
  PROVE  Sum(F, S) \subseteq B
BY DEF Sum

LEMMA SumOver ==
  ASSUME NEW F
  PROVE  /\ Sum(F, {}) = {}
         /\ \A i : Sum(F, {i}) = F[i]
<1>1. Sum(F, {}) = {}
  BY DEF Sum
<1>2. ASSUME NEW i, NEW b PROVE b \in Sum(F, {i}) <=> b \in F[i]
  <2>1. Having(b, F, {i}) = IF b \in F[i] THEN {i} ELSE {}
    BY DEF Having
  <2>2. IsFiniteSet({i})
    BY FS_Singleton
  <2> QED BY <2>1, <2>2, SumMember, OddSmall
<1> QED BY <1>1, <1>2

LEMMA SumOverXor ==
  ASSUME NEW F, NEW S, IsFiniteSet(S), NEW T, IsFiniteSet(T)
  PROVE  Sum(F, Xor(S, T)) = Xor(Sum(F, S), Sum(F, T))
<1>1. IsFiniteSet(Xor(S, T))
  BY OddXor
<1>2. ASSUME NEW b PROVE b \in Sum(F, Xor(S, T)) <=> b \in Xor(Sum(F, S), Sum(F, T))
  <2> DEFINE A == Having(b, F, S)
             B == Having(b, F, T)
  <2>1. IsFiniteSet(A) /\ IsFiniteSet(B)
    BY FS_Subset DEF Having
  <2>2. Having(b, F, Xor(S, T)) = Xor(A, B)
    BY DEF Xor, SymDiff, Having
  <2>3. b \in Sum(F, Xor(S, T)) <=> ~(Odd(A) <=> Odd(B))
    BY <1>1, <2>1, <2>2, OddXor, SumMember
  <2>4. (b \in Sum(F, S) <=> Odd(A)) /\ (b \in Sum(F, T) <=> Odd(B))
    BY SumMember
  <2> QED BY <2>3, <2>4 DEF Xor, SymDiff
<1> QED BY <1>2

LEMMA SumAdd ==
  ASSUME NEW F, NEW S, IsFiniteSet(S), NEW i, i \notin S
  PROVE  Sum(F, S \cup {i}) = Xor(Sum(F, S), F[i])
<1>1. S \cup {i} = Xor(S, {i})
  BY DEF Xor, SymDiff
<1>2. IsFiniteSet({i})
  BY FS_Singleton
<1>3. Sum(F, Xor(S, {i})) = Xor(Sum(F, S), Sum(F, {i}))
  BY <1>2, SumOverXor
<1>4. Sum(F, {i}) = F[i]
  BY SumOver
<1> QED BY <1>1, <1>3, <1>4

LEMMA SumOfXor ==
  ASSUME NEW S, IsFiniteSet(S), NEW F, NEW G, NEW H, \A i \in S : H[i] = Xor(F[i], G[i])
  PROVE  Sum(H, S) = Xor(Sum(F, S), Sum(G, S))
<1>1. ASSUME NEW b PROVE b \in Sum(H, S) <=> b \in Xor(Sum(F, S), Sum(G, S))
  <2> DEFINE A == Having(b, F, S)
             B == Having(b, G, S)
  <2>1. IsFiniteSet(A) /\ IsFiniteSet(B)
    BY FS_Subset DEF Having
  <2>2. Having(b, H, S) = Xor(A, B)
    BY DEF Xor, SymDiff, Having
  <2>3. b \in Sum(H, S) <=> ~(Odd(A) <=> Odd(B))
    BY <2>1, <2>2, OddXor, SumMember
  <2>4. (b \in Sum(F, S) <=> Odd(A)) /\ (b \in Sum(G, S) <=> Odd(B))
    BY SumMember
  <2> QED BY <2>3, <2>4 DEF Xor, SymDiff
<1> QED BY <1>1

\* A sum over the members of a sum is the sum of the sums over them.
LEMMA SumOverSum ==
  ASSUME NEW S, IsFiniteSet(S), NEW F, NEW G, \A i \in S : IsFiniteSet(G[i])
  PROVE  /\ IsFiniteSet(Sum(G, S))
         /\ Sum(F, Sum(G, S)) = Sum([i \in S |-> Sum(F, G[i])], S)
<1> DEFINE H == [i \in S |-> Sum(F, G[i])]
           P == {T \in SUBSET S : IsFiniteSet(Sum(G, T)) /\ Sum(F, Sum(G, T)) = Sum(H, T)}
<1>1. {} \in P
  <2>1. Sum(G, {}) = {} /\ Sum(F, {}) = {} /\ Sum(H, {}) = {}
    BY SumOver
  <2> QED BY <2>1, FS_EmptySet
<1>2. ASSUME NEW T \in SUBSET S, NEW i \in S \ T, T \in P PROVE T \cup {i} \in P
  <2>1. IsFiniteSet(T)
    BY FS_Subset
  <2>2. /\ Sum(G, T \cup {i}) = Xor(Sum(G, T), G[i])
        /\ Sum(H, T \cup {i}) = Xor(Sum(H, T), H[i])
    <3> HIDE DEF H
    <3> QED BY <2>1, SumAdd
  <2>3. Sum(F, Xor(Sum(G, T), G[i])) = Xor(Sum(F, Sum(G, T)), Sum(F, G[i]))
    BY <1>2, SumOverXor
  <2>4. IsFiniteSet(Xor(Sum(G, T), G[i]))
    BY <1>2, OddXor
  <2>5. H[i] = Sum(F, G[i]) /\ Sum(F, Sum(G, T)) = Sum(H, T)
    BY <1>2
  <2>6. T \cup {i} \in SUBSET S
    OBVIOUS
  <2> HIDE DEF H
  <2> QED BY <2>2, <2>3, <2>4, <2>5, <2>6
<1> HIDE DEF P
<1>3. S \in P
  BY <1>1, <1>2, SetByElement
<1> QED BY <1>3 DEF P

LEMMA XorFacts ==
  ASSUME NEW a, NEW b, NEW c
  PROVE  /\ Xor(a, {}) = a /\ Xor({}, a) = a /\ Xor(a, a) = {}
         /\ Xor(a, b) = Xor(b, a)
         /\ Xor(Xor(a, b), c) = Xor(a, Xor(b, c))
         /\ Xor(a, Xor(a, b)) = b
BY DEF Xor, SymDiff
-----------------------------------------------------------------------------
(***************************************************************************)
(* The members of a set in order.                                          *)
(***************************************************************************)
Ascends(a, T) ==
  /\ a \in Seq(Nat)
  /\ Len(a) = Cardinality(T)
  /\ \A j \in 1..Len(a) : a[j] \in T
  /\ \A t \in T : \E j \in 1..Len(a) : a[j] = t
  /\ \A i, j \in 1..Len(a) : i < j => a[i] < a[j]

LEMMA AscendingPasses ==
  ASSUME NEW n \in Nat, NEW S
  PROVE  \E p : /\ p[0] = <<>>
                /\ \A i \in 0..(n - 1) : p[i + 1] = IF i \in S THEN Append(p[i], i) ELSE p[i]
                /\ Ascending(S, n) = p[n]
<1> DEFINE Q == Seq(Nat)
           Take(ids, i) == IF i \in S THEN Append(ids, i) ELSE ids
           body == [a \in Q \X (0..(n - 1)) |-> Take(a[1], a[2])]
           F(f) == [j \in 0..n |-> IF j = 0 THEN <<>> ELSE Take(f[j - 1], j - 1)]
           pass == CHOOSE f : f = F(f)
<1>1. body \in [Q \X (0..(n - 1)) -> Q] /\ <<>> \in Q
  OBVIOUS
<1>2. PICK f \in [0..n -> Q] : Passes(f, <<>>, body, n)
  <2> HIDE DEF Q, body
  <2> QED BY <1>1, PassesExist
<1>3. f = F(f)
  <2>1. ASSUME NEW j \in 0..n PROVE f[j] = F(f)[j]
    <3>1. j # 0 => f[j - 1] \in Q /\ j - 1 \in 0..(n - 1) /\ (j - 1) + 1 = j
      OBVIOUS
    <3> QED BY <1>2, <3>1 DEF Passes
  <2> QED BY <2>1
<1>4. pass = F(pass)
  BY <1>3
<1>5. Ascending(S, n) = pass[n]
  BY DEF Ascending, Loop
<1>6. \A i \in 0..(n - 1) : i + 1 \in 0..n /\ i + 1 # 0 /\ (i + 1) - 1 = i
  OBVIOUS
<1> HIDE DEF pass
<1>7. pass[0] = <<>>
  BY <1>4
<1>8. ASSUME NEW i \in 0..(n - 1) PROVE pass[i + 1] = Take(pass[i], i)
  <2> HIDE DEF Take
  <2> QED BY <1>4, <1>6
<1> QED
  BY <1>5, <1>7, <1>8

LEMMA AscendingRight ==
  ASSUME NEW n \in Nat, NEW S \in SUBSET (0..(n - 1))
  PROVE  Ascends(Ascending(S, n), S)
<1>1. PICK p : /\ p[0] = <<>>
               /\ \A i \in 0..(n - 1) : p[i + 1] = IF i \in S THEN Append(p[i], i) ELSE p[i]
               /\ Ascending(S, n) = p[n]
  BY AscendingPasses
<1> DEFINE Until(i) == S \cap (0..(i - 1))
           P == {i \in 0..n : Ascends(p[i], Until(i))}
<1>2. 0 \in P
  <2>1. Until(0) = {}
    OBVIOUS
  <2>2. Ascends(<<>>, {})
    BY FS_EmptySet DEF Ascends
  <2> QED BY <1>1, <2>1, <2>2
<1>3. ASSUME NEW i \in 0..(n - 1), i \in P PROVE i + 1 \in P
  <2>1. Ascends(p[i], Until(i))
    BY <1>3
  <2>2. CASE i \in S
    <3>1. Until(i + 1) = Until(i) \cup {i} /\ i \notin Until(i)
      BY <2>2
    <3>2. IsFiniteSet(Until(i))
      <4>1. IsFiniteSet(0..(i - 1)) /\ Until(i) \in SUBSET (0..(i - 1))
        BY FS_Interval
      <4> QED BY <4>1, FS_Subset
    <3>3. Cardinality(Until(i + 1)) = Cardinality(Until(i)) + 1
      BY <3>1, <3>2, FS_AddElement
    <3>4. \A j \in Until(i) : j < i
      OBVIOUS
    <3> HIDE DEF Until
    <3>5. p[i + 1] = Append(p[i], i)
      BY <1>1, <2>2
    <3>6. Ascends(Append(p[i], i), Until(i + 1))
      <4> DEFINE a == p[i]
                 b == Append(a, i)
      <4>1. /\ a \in Seq(Nat) /\ b \in Seq(Nat) /\ Len(b) = Len(a) + 1
            /\ b[Len(a) + 1] = i /\ \A j \in 1..Len(a) : b[j] = a[j]
        BY <2>1 DEF Ascends
      <4>2. Len(b) = Cardinality(Until(i + 1))
        BY <2>1, <3>3, <4>1 DEF Ascends
      <4> HIDE DEF b
      <4>3. \A j \in 1..Len(b) : j \in 1..Len(a) \/ j = Len(a) + 1
        BY <4>1
      <4>4. \A j \in 1..Len(b) : b[j] \in Until(i + 1)
        BY <2>1, <3>1, <4>1, <4>3 DEF Ascends
      <4>5. ASSUME NEW t \in Until(i + 1) PROVE \E j \in 1..Len(b) : b[j] = t
        <5>1. CASE t = i
          BY <4>1, <5>1
        <5>2. CASE t \in Until(i)
          <6>1. PICK j \in 1..Len(a) : a[j] = t
            BY <2>1, <5>2 DEF Ascends
          <6>2. j \in 1..(Len(a) + 1)
            BY <4>1, <6>1
          <6>3. j \in 1..Len(b) /\ b[j] = t
            BY <4>1, <6>1, <6>2
          <6> QED BY <6>3
        <5> QED BY <3>1, <5>1, <5>2
      <4>6. ASSUME NEW j1 \in 1..Len(b), NEW j2 \in 1..Len(b), j1 < j2 PROVE b[j1] < b[j2]
        <5>1. j1 \in 1..Len(a)
          BY <4>1, <4>6
        <5>2. CASE j2 \in 1..Len(a)
          BY <2>1, <4>1, <4>6, <5>1, <5>2 DEF Ascends
        <5>3. CASE j2 = Len(a) + 1
          BY <2>1, <3>4, <4>1, <5>1, <5>3 DEF Ascends
        <5> QED BY <4>3, <5>2, <5>3
      <4>7. Ascends(b, Until(i + 1))
        BY <4>1, <4>2, <4>4, <4>5, <4>6 DEF Ascends
      <4> QED BY <4>7 DEF b
    <3>7. i + 1 \in 0..n /\ Ascends(p[i + 1], Until(i + 1))
      BY <3>5, <3>6
    <3> QED BY <3>7
  <2>3. CASE i \notin S
    <3>1. Until(i + 1) = Until(i)
      BY <2>3
    <3>2. p[i + 1] = p[i]
      BY <1>1, <2>3
    <3> QED BY <2>1, <3>1, <3>2
  <2> QED BY <2>2, <2>3
<1> HIDE DEF P
<1>4. n \in P
  BY <1>2, <1>3, PassByPass
<1>5. Until(n) = S
  OBVIOUS
<1> QED BY <1>1, <1>4, <1>5 DEF P

LEMMA AscendsFacts ==
  ASSUME NEW a, NEW T, Ascends(a, T)
  PROVE  /\ Len(a) \in Nat /\ DOMAIN a = 1..Len(a)
         /\ \A j \in 1..Len(a) : a[j] \in T /\ a[j] \in Nat
         /\ \A i, j \in 1..Len(a) : a[i] = a[j] => i = j
         /\ \A t \in T : \E j \in 1..Len(a) : a[j] = t
<1>1. a \in Seq(Nat) /\ Len(a) \in Nat /\ DOMAIN a = 1..Len(a)
  BY DEF Ascends
<1>2. ASSUME NEW i \in 1..Len(a), NEW j \in 1..Len(a), a[i] = a[j] PROVE i = j
  <2>1. ~(i < j) /\ ~(j < i)
    <3>1. a[i] \in Nat /\ a[j] \in Nat
      BY <1>1
    <3>2. (i < j => a[i] < a[j]) /\ (j < i => a[j] < a[i])
      BY DEF Ascends
    <3> QED BY <1>2, <3>1, <3>2
  <2> QED BY <1>1, <2>1
<1> QED BY <1>1, <1>2 DEF Ascends

\* The sum of the members of a set, each on its own, is the set.
LEMMA SumOfMembers ==
  ASSUME NEW a, NEW T, Ascends(a, T), NEW F, \A n \in 1..Len(a) : F[n] = {a[n]}
  PROVE  Sum(F, 1..Len(a)) = T
<1>1. IsFiniteSet(1..Len(a))
  BY AscendsFacts, FS_Interval
<1>2. ASSUME NEW b PROVE b \in Sum(F, 1..Len(a)) <=> b \in T
  <2>1. b \in Sum(F, 1..Len(a)) <=> Odd(Having(b, F, 1..Len(a)))
    BY <1>1, SumMember
  <2>2. CASE b \in T
    <3>1. PICK j \in 1..Len(a) : a[j] = b
      BY <2>2, AscendsFacts
    <3>2. Having(b, F, 1..Len(a)) = {j}
      BY <3>1, AscendsFacts DEF Having
    <3> QED BY <2>1, <2>2, <3>2, OddSmall
  <2>3. CASE b \notin T
    <3>1. Having(b, F, 1..Len(a)) = {}
      BY <2>3, AscendsFacts DEF Having
    <3> QED BY <2>1, <2>3, <3>1, OddSmall
  <2> QED BY <2>2, <2>3
<1> QED BY <1>2

LEMMA SumMoved ==
  ASSUME NEW off \in Nat, NEW len \in Nat, NEW F, NEW G,
         \A n \in 1..len : G[off + n] = F[n]
  PROVE  Sum(G, (off + 1)..(off + len)) = Sum(F, 1..len)
<1>1. IsFiniteSet(1..len) /\ IsFiniteSet((off + 1)..(off + len))
  BY FS_Interval
<1>2. ASSUME NEW b PROVE b \in Sum(G, (off + 1)..(off + len)) <=> b \in Sum(F, 1..len)
  <2> DEFINE A == Having(b, F, 1..len)
             B == Having(b, G, (off + 1)..(off + len))
             f == [n \in A |-> off + n]
  <2>1. A \in SUBSET (1..len) /\ \A n : n \in A <=> n \in 1..len /\ b \in F[n]
    BY DEF Having
  <2>2. \A i : i \in B <=> i \in (off + 1)..(off + len) /\ b \in G[i]
    BY DEF Having
  <2> HIDE DEF A, B
  <2>3. ASSUME NEW n \in A PROVE f[n] \in B
    <3>1. f[n] = off + n /\ n \in 1..len /\ b \in F[n] /\ G[off + n] = F[n]
      BY <2>1
    <3>2. off + n \in (off + 1)..(off + len)
      BY <3>1
    <3> QED BY <2>2, <3>1, <3>2
  <2>4. ASSUME NEW i \in B PROVE \E n \in A : f[n] = i
    <3>1. i \in (off + 1)..(off + len) /\ b \in G[i]
      BY <2>2
    <3>2. i - off \in 1..len /\ off + (i - off) = i
      BY <3>1
    <3>3. i - off \in A
      BY <2>1, <3>1, <3>2
    <3> QED BY <3>2, <3>3
  <2>5. f \in [A -> B] /\ \A n1, n2 \in A : f[n1] = f[n2] => n1 = n2
    <3>1. \A n \in A : f[n] = off + n /\ n \in Nat
      BY <2>1
    <3> QED BY <2>3, <3>1
  <2> HIDE DEF f
  <2>6. f \in Injection(A, B) /\ f \in Surjection(A, B)
    BY <2>4, <2>5 DEF Injection, IsInjective, Surjection
  <2>7. ExistsBijection(A, B)
    BY <2>6 DEF ExistsBijection, Bijection
  <2>8. IsFiniteSet(A)
    BY <1>1, <2>1, FS_Subset
  <2>9. Cardinality(A) = Cardinality(B)
    BY <2>7, <2>8, FS_Bijection
  <2>10. Odd(A) <=> Odd(B)
    BY <2>9 DEF Odd
  <2>11. (b \in Sum(F, 1..len) <=> Odd(A)) /\ (b \in Sum(G, (off + 1)..(off + len)) <=> Odd(B))
    BY <1>1, SumMember DEF A, B
  <2> QED BY <2>10, <2>11
<1> QED BY <1>2
-----------------------------------------------------------------------------
(***************************************************************************)
(* Schedules.  The rows that a schedule makes are numbered like the rows   *)
(* of the matrix: packet q of pointer k + d is row d * w + q.  A packet is *)
(* followed as the set of columns whose sum it is.                         *)
(***************************************************************************)
Operations(w) == Nat \X (0..(w - 1)) \X Nat \X (0..(w - 1)) \X (0..1)

LEMMA OperationFields ==
  ASSUME NEW w, NEW o \in Operations(w)
  PROVE  /\ o[1] \in Nat /\ o[2] \in 0..(w - 1) /\ o[3] \in Nat /\ o[4] \in 0..(w - 1)
         /\ o[5] \in 0..1
BY DEF Operations

RowOf(k, w, o) == (o[3] - k) * w + o[4]
ColumnOf(w, o) == o[1] * w + o[2]
OriginOf(k, w, o) == (o[1] - k) * w + o[2]

\* What an operation copies or adds
Contribution(k, w, rows, o) == IF o[1] < k THEN {ColumnOf(w, o)} ELSE Nth(rows, OriginOf(k, w, o))
Contributions(k, w, rows, ops) == [n \in 1..Len(ops) |-> Contribution(k, w, rows, ops[n])]
Writing(k, w, ops, r) == {n \in 1..Len(ops) : RowOf(k, w, ops[n]) = r}

InTurn(k, w, ops, n, done) ==
  /\ ops[n][3] >= k
  /\ RowOf(k, w, ops[n]) \in done
  /\ ops[n][5] = 0 <=> \A i \in 1..(n - 1) : RowOf(k, w, ops[i]) # RowOf(k, w, ops[n])
  /\ ops[n][1] >= k =>
       /\ OriginOf(k, w, ops[n]) \in done
       /\ \E i \in 1..(n - 1) : RowOf(k, w, ops[i]) = OriginOf(k, w, ops[n])
       /\ \A i \in n..Len(ops) : RowOf(k, w, ops[i]) # OriginOf(k, w, ops[n])

\* The schedule ops makes the rows of done.
Sound(k, w, rows, ops, done) ==
  /\ ops \in Seq(Operations(w))
  /\ \A n \in 1..Len(ops) : InTurn(k, w, ops, n, done)
  /\ \A r \in done : Sum(Contributions(k, w, rows, ops), Writing(k, w, ops, r)) = Nth(rows, r)
  /\ Len(ops) <= k * w * Cardinality(done)

\* The operations blk make row r out of columns and rows of done.
MakesRow(k, w, rows, blk, r, done) ==
  /\ blk \in Seq(Operations(w))
  /\ \A n \in 1..Len(blk) :
       /\ blk[n][3] = k + r \div w /\ blk[n][4] = r % w
       /\ blk[n][5] = 0 <=> n = 1
       /\ blk[n][1] >= k => /\ OriginOf(k, w, blk[n]) \in done
                            /\ Nth(rows, OriginOf(k, w, blk[n])) # {}
  /\ Sum(Contributions(k, w, rows, blk), 1..Len(blk)) = Nth(rows, r)
  /\ Len(blk) <= k * w

LEMMA SoundEmpty ==
  ASSUME NEW k \in Nat, NEW w \in Nat, NEW rows
  PROVE  Sound(k, w, rows, <<>>, {})
<1>1. Cardinality({}) = 0
  BY FS_EmptySet
<1> QED BY <1>1 DEF Sound

LEMMA DivMod ==
  ASSUME NEW w \in Nat \ {0}
  PROVE  /\ \A i \in Nat : /\ i = (i \div w) * w + (i % w)
                           /\ i \div w \in Nat /\ i % w \in 0..(w - 1)
         /\ \A a \in Nat, b \in 0..(w - 1) :
              a * w + b \in Nat /\ (a * w + b) \div w = a /\ (a * w + b) % w = b
<1>1. ASSUME NEW i \in Nat
      PROVE  i = (i \div w) * w + (i % w) /\ i \div w \in Nat /\ i % w \in 0..(w - 1)
  <2>1. i = (i \div w) * w + (i % w)
    OBVIOUS
  <2>2. i \div w \in Nat
    OBVIOUS
  <2>3. i % w \in 0..(w - 1)
    OBVIOUS
  <2> QED BY <2>1, <2>2, <2>3
<1>2. ASSUME NEW a \in Nat, NEW b \in 0..(w - 1)
      PROVE  a * w + b \in Nat /\ (a * w + b) \div w = a /\ (a * w + b) % w = b
  <2>1. a * w + b \in Nat /\ (a * w + b) \div w = a
    OBVIOUS
  <2>2. (a * w + b) % w = b
    OBVIOUS
  <2> QED BY <2>1, <2>2
<1> QED BY <1>1, <1>2

LEMMA DivModBelow ==
  ASSUME NEW w \in Nat \ {0}, NEW k \in Nat
  PROVE  /\ \A i \in 0..(k * w - 1) : i \div w \in 0..(k - 1)
         /\ \A a \in 0..(k - 1), b \in 0..(w - 1) : a * w + b \in 0..(k * w - 1)
<1>1. ASSUME NEW i \in 0..(k * w - 1) PROVE i \div w \in 0..(k - 1)
  OBVIOUS
<1>2. ASSUME NEW a \in 0..(k - 1), NEW b \in 0..(w - 1) PROVE a * w + b \in 0..(k * w - 1)
  <2>1. a * w <= (k - 1) * w /\ a * w \in Nat
    OBVIOUS
  <2>2. (k - 1) * w = k * w - w /\ k * w \in Nat
    OBVIOUS
  <2> QED BY <2>1, <2>2
<1> QED BY <1>1, <1>2

LEMMA SoundAppend ==
  ASSUME NEW k \in Nat, NEW w \in Nat \ {0}, NEW rows, NEW done, IsFiniteSet(done),
         NEW r \in Nat, r \notin done, NEW ops, NEW blk,
         Sound(k, w, rows, ops, done), MakesRow(k, w, rows, blk, r, done)
  PROVE  Sound(k, w, rows, ops \o blk, done \cup {r})
<1> DEFINE new == ops \o blk
           len == Len(ops)
<1>1. /\ ops \in Seq(Operations(w)) /\ blk \in Seq(Operations(w))
      /\ new \in Seq(Operations(w))
      /\ len \in Nat /\ Len(blk) \in Nat /\ Len(new) = len + Len(blk)
      /\ \A n \in 1..len : new[n] = ops[n]
      /\ \A n \in 1..Len(blk) : new[len + n] = blk[n]
  BY DEF Sound, MakesRow
<1> HIDE DEF new
<1>2. \A n \in 1..Len(new) : n \in 1..len \/ (n - len \in 1..Len(blk) /\ n = len + (n - len))
  BY <1>1
<1>3. \A n \in 1..Len(blk) : RowOf(k, w, blk[n]) = r
  <2>1. r = (r \div w) * w + (r % w) /\ r \div w \in Nat
    BY DivMod
  <2>2. ASSUME NEW n \in 1..Len(blk) PROVE RowOf(k, w, blk[n]) = r
    <3>1. blk[n][3] = k + r \div w /\ blk[n][4] = r % w
      BY DEF MakesRow
    <3>2. (k + r \div w) - k = r \div w
      BY <2>1
    <3>3. RowOf(k, w, blk[n]) = ((k + r \div w) - k) * w + (r % w)
      BY <3>1 DEF RowOf
    <3> QED BY <2>1, <3>3
  <2> QED BY <2>2
<1>4. \A n \in 1..Len(ops) : RowOf(k, w, ops[n]) \in done
  BY DEF Sound, InTurn
<1>5. ASSUME NEW n \in 1..len PROVE InTurn(k, w, new, n, done \cup {r})
  <2>1. InTurn(k, w, ops, n, done)
    BY DEF Sound
  <2>2. new[n] = ops[n] /\ \A i \in 1..(n - 1) : i \in 1..len /\ new[i] = ops[i]
    BY <1>1
  <2>3. ASSUME new[n][1] >= k, NEW i \in n..Len(new)
        PROVE  RowOf(k, w, new[i]) # OriginOf(k, w, new[n])
    <3>1. OriginOf(k, w, ops[n]) \in done
      BY <2>1, <2>2, <2>3 DEF InTurn
    <3>2. CASE i \in 1..len
      <4>1. i \in n..Len(ops) /\ new[i] = ops[i]
        BY <1>1, <3>2
      <4> QED BY <2>1, <2>2, <2>3, <4>1 DEF InTurn
    <3>3. CASE i \notin 1..len
      <4>1. i - len \in 1..Len(blk)
        BY <1>1, <1>2, <3>3
      <4>3. PICK x : x = i - len
        OBVIOUS
      <4>4. x \in 1..Len(blk) /\ i = len + x
        BY <1>1, <4>1, <4>3
      <4>5. new[i] = blk[i - len]
        BY <1>1, <4>3, <4>4
      <4>2. OriginOf(k, w, new[n]) \in done
        BY <2>2, <3>1
      <4> QED BY <1>3, <4>1, <4>2, <4>5
    <3> QED BY <3>2, <3>3
  <2> QED BY <2>1, <2>2, <2>3 DEF InTurn
<1>6. ASSUME NEW j \in 1..Len(blk) PROVE InTurn(k, w, new, len + j, done \cup {r})
  <2> DEFINE n == len + j
  <2>1. n \in Nat /\ new[n] = blk[j] /\ RowOf(k, w, new[n]) = r
    BY <1>1, <1>3
  <2>2. blk[j][3] >= k
    <3>1. blk[j][3] = k + r \div w /\ r \div w \in Nat
      BY DivMod DEF MakesRow
    <3> QED BY <3>1
  <2>3. new[n][5] = 0 <=> \A i \in 1..(n - 1) : RowOf(k, w, new[i]) # RowOf(k, w, new[n])
    <3>1. CASE j = 1
      <4>1. blk[j][5] = 0
        BY <3>1 DEF MakesRow
      <4>2. ASSUME NEW i \in 1..(n - 1) PROVE RowOf(k, w, new[i]) # r
        <5>1. i \in 1..len
          BY <1>1, <3>1
        <5> QED BY <1>1, <1>4, <5>1
      <4> QED BY <2>1, <4>1, <4>2
    <3>2. CASE j # 1
      <4>1. blk[j][5] # 0
        BY <3>2 DEF MakesRow
      <4>2. len + 1 \in 1..(n - 1) /\ 1 \in 1..Len(blk)
        BY <1>1, <3>2
      <4>3. RowOf(k, w, new[len + 1]) = r
        BY <1>1, <1>3, <4>2
      <4> QED BY <2>1, <4>1, <4>2, <4>3
    <3> QED BY <3>1, <3>2
  <2>4. ASSUME new[n][1] >= k
        PROVE  /\ OriginOf(k, w, new[n]) \in done
               /\ \E i \in 1..(n - 1) : RowOf(k, w, new[i]) = OriginOf(k, w, new[n])
               /\ \A i \in n..Len(new) : RowOf(k, w, new[i]) # OriginOf(k, w, new[n])
    <3> DEFINE g == OriginOf(k, w, blk[j])
    <3>1. g \in done /\ Nth(rows, g) # {}
      BY <2>1, <2>4 DEF MakesRow
    <3> HIDE DEF g
    <3>2. Sum(Contributions(k, w, rows, ops), Writing(k, w, ops, g)) # {}
      BY <3>1 DEF Sound
    <3>3. Writing(k, w, ops, g) # {}
      BY <3>2, SumOver
    <3>4. PICK i \in 1..len : RowOf(k, w, ops[i]) = g
      BY <3>3 DEF Writing
    <3>5. i \in 1..(n - 1) /\ RowOf(k, w, new[i]) = g
      BY <1>1, <3>4
    <3>6. ASSUME NEW l \in n..Len(new) PROVE RowOf(k, w, new[l]) # g
      <4>1. l - len \in 1..Len(blk) /\ new[l] = blk[l - len]
        BY <1>1, <1>2
      <4> QED BY <1>3, <3>1, <4>1
    <3>7. OriginOf(k, w, new[n]) = g
      BY <2>1 DEF g
    <3> QED BY <3>1, <3>5, <3>6, <3>7
  <2> HIDE DEF n
  <2>5. InTurn(k, w, new, n, done \cup {r})
    BY <2>1, <2>2, <2>3, <2>4 DEF InTurn
  <2> QED BY <2>5 DEF n
<1>7. ASSUME NEW n \in 1..Len(new) PROVE InTurn(k, w, new, n, done \cup {r})
  BY <1>2, <1>5, <1>6
<1>8. ASSUME NEW q \in done \cup {r}
      PROVE  Sum(Contributions(k, w, rows, new), Writing(k, w, new, q)) = Nth(rows, q)
  <2>1. CASE q = r
    <3>1. Writing(k, w, new, q) = (len + 1)..(len + Len(blk))
      <4>1. ASSUME NEW n \in Writing(k, w, new, q) PROVE n \in (len + 1)..(len + Len(blk))
        <5>1. n \in 1..Len(new) /\ n \notin 1..len
          BY <1>1, <1>4, <2>1 DEF Writing
        <5> QED BY <1>1, <5>1
      <4>2. ASSUME NEW n \in (len + 1)..(len + Len(blk)) PROVE n \in Writing(k, w, new, q)
        <5>1. n \in 1..Len(new) /\ n - len \in 1..Len(blk) /\ new[n] = blk[n - len]
          BY <1>1, <1>2
        <5> QED BY <1>3, <2>1, <5>1 DEF Writing
      <4> QED BY <4>1, <4>2
    <3>2. \A n \in 1..Len(blk) :
            Contributions(k, w, rows, new)[len + n] = Contributions(k, w, rows, blk)[n]
      BY <1>1 DEF Contributions
    <3>3. Sum(Contributions(k, w, rows, new), (len + 1)..(len + Len(blk)))
            = Sum(Contributions(k, w, rows, blk), 1..Len(blk))
      BY <1>1, <3>2, SumMoved
    <3> QED BY <2>1, <3>1, <3>3 DEF MakesRow
  <2>2. CASE q \in done
    <3>1. Writing(k, w, new, q) = Writing(k, w, ops, q)
      <4>1. ASSUME NEW n \in Writing(k, w, new, q) PROVE n \in Writing(k, w, ops, q)
        <5>1. n \in 1..Len(new) /\ RowOf(k, w, new[n]) = q
          BY DEF Writing
        <5>2. n \in 1..len
          BY <1>1, <1>2, <1>3, <2>2, <5>1
        <5> QED BY <1>1, <5>1, <5>2 DEF Writing
      <4>2. ASSUME NEW n \in Writing(k, w, ops, q) PROVE n \in Writing(k, w, new, q)
        <5>1. n \in 1..len /\ n \in 1..Len(new) /\ RowOf(k, w, ops[n]) = q
          BY <1>1 DEF Writing
        <5> QED BY <1>1, <5>1 DEF Writing
      <4> QED BY <4>1, <4>2
    <3>2. \A n \in Writing(k, w, ops, q) :
            Contributions(k, w, rows, new)[n] = Contributions(k, w, rows, ops)[n]
      BY <1>1 DEF Contributions, Writing
    <3>3. Sum(Contributions(k, w, rows, new), Writing(k, w, ops, q))
            = Sum(Contributions(k, w, rows, ops), Writing(k, w, ops, q))
      BY <3>2, SumSame
    <3> QED BY <2>2, <3>1, <3>3 DEF Sound
  <2> QED BY <2>1, <2>2
<1>9. Len(new) <= k * w * Cardinality(done \cup {r})
  <2>1. Cardinality(done \cup {r}) = Cardinality(done) + 1 /\ Cardinality(done) \in Nat
    BY FS_AddElement, FS_CardinalityType
  <2>2. Len(ops) <= k * w * Cardinality(done) /\ Len(blk) <= k * w
    BY DEF Sound, MakesRow
  <2>3. k * w \in Nat
    OBVIOUS
  <2>4. \A x, c \in Nat : x * (c + 1) = x * c + x /\ x * c \in Nat
    OBVIOUS
  <2> QED BY <1>1, <2>1, <2>2, <2>3, <2>4
<1>10. Sound(k, w, rows, new, done \cup {r})
  BY <1>1, <1>7, <1>8, <1>9 DEF Sound
<1> QED BY <1>10 DEF new

Columns(k, w) == 0..(k * w - 1)

LEMMA ColumnFacts ==
  ASSUME NEW k \in Nat, NEW w \in Nat \ {0}
  PROVE  /\ \A c \in Columns(k, w) : /\ c \in Nat
                                     /\ c \div w \in 0..(k - 1) /\ c % w \in 0..(w - 1)
                                     /\ (c \div w) * w + (c % w) = c
         /\ \A a \in 0..(k - 1), b \in 0..(w - 1) : a * w + b \in Columns(k, w)
<1>1. ASSUME NEW c \in Columns(k, w)
      PROVE  /\ c \in Nat
             /\ c \div w \in 0..(k - 1) /\ c % w \in 0..(w - 1)
             /\ (c \div w) * w + (c % w) = c
  <2>1. c \in Nat /\ c \div w \in 0..(k - 1)
    <3>1. \A i \in 0..(k * w - 1) : i \div w \in 0..(k - 1)
      BY DivModBelow
    <3> QED BY <3>1 DEF Columns
  <2>2. c = (c \div w) * w + (c % w) /\ c \div w \in Nat /\ c % w \in 0..(w - 1)
    BY <2>1, DivMod
  <2> QED BY <2>1, <2>2
<1>2. \A a \in 0..(k - 1), b \in 0..(w - 1) : a * w + b \in Columns(k, w)
  <2>1. \A a \in 0..(k - 1), b \in 0..(w - 1) : a * w + b \in 0..(k * w - 1)
    BY DivModBelow
  <2> QED BY <2>1 DEF Columns
<1> QED BY <1>1, <1>2

LEMMA ColumnParts ==
  ASSUME NEW k \in Nat, NEW w \in Nat \ {0}, NEW c \in Columns(k, w)
  PROVE  \E i \in 0..(k - 1), q \in 0..(w - 1) : i = c \div w /\ q = c % w /\ c = i * w + q
<1>1. c \div w \in 0..(k - 1) /\ c % w \in 0..(w - 1) /\ (c \div w) * w + (c % w) = c
  BY ColumnFacts
<1>2. \A i \in 0..(k - 1), q \in 0..(w - 1) :
        i = c \div w /\ q = c % w => i * w + q = (c \div w) * w + (c % w)
  OBVIOUS
<1> QED BY <1>1, <1>2

\* An operation that takes a column
Taking(k, w, c, r, x) == <<c \div w, c % w, k + r \div w, r % w, x>>

LEMMA ColumnOperation ==
  ASSUME NEW k \in Nat, NEW w \in Nat \ {0}, NEW c \in Columns(k, w), NEW r \in Nat,
         NEW x \in 0..1
  PROVE  Taking(k, w, c, r, x) \in Operations(w)
<1>1. c \div w \in Nat /\ c % w \in 0..(w - 1)
  <2>1. PICK i \in 0..(k - 1), q \in 0..(w - 1) : i = c \div w /\ q = c % w /\ c = i * w + q
    BY ColumnParts
  <2> QED BY <2>1
<1>2. k + r \div w \in Nat /\ r % w \in 0..(w - 1)
  <2>1. r \div w \in Nat /\ r % w \in 0..(w - 1)
    BY DivMod
  <2> QED BY <2>1
<1> QED BY <1>1, <1>2 DEF Operations, Taking

\* Operation o takes column c for row r, overwriting or adding as x says.
Takes(k, w, o, c, r, x) ==
  /\ o[1] \in Nat /\ o[1] < k /\ o[5] = x
  /\ o[3] = k + r \div w /\ o[4] = r % w
  /\ ColumnOf(w, o) = c

LEMMA TakingFacts ==
  ASSUME NEW k \in Nat, NEW w \in Nat \ {0}, NEW c \in Columns(k, w), NEW r, NEW x
  PROVE  Takes(k, w, Taking(k, w, c, r, x), c, r, x)
<1> DEFINE o == Taking(k, w, c, r, x)
<1>1. o[1] = c \div w /\ o[2] = c % w /\ o[3] = k + r \div w /\ o[4] = r % w /\ o[5] = x
  BY DEF Taking
<1> HIDE DEF o
<1>2. PICK i \in 0..(k - 1), q \in 0..(w - 1) : i = c \div w /\ q = c % w /\ c = i * w + q
  BY ColumnParts
<1>3. i \in Nat /\ i < k
  OBVIOUS
<1>4. ColumnOf(w, o) = c
  BY <1>1, <1>2 DEF ColumnOf
<1>5. /\ o[1] \in Nat /\ o[1] < k /\ o[5] = x
      /\ o[3] = k + r \div w /\ o[4] = r % w
  BY <1>1, <1>2, <1>3
<1> QED BY <1>4, <1>5 DEF Takes, o

LEMMA RowCardinality ==
  ASSUME NEW k \in Nat, NEW w \in Nat \ {0}, NEW S \in SUBSET Columns(k, w)
  PROVE  IsFiniteSet(S) /\ Cardinality(S) \in Nat /\ Cardinality(S) <= k * w
<1>1. IsFiniteSet(Columns(k, w)) /\ Cardinality(Columns(k, w)) = k * w
  <2>1. PICK n \in Nat : n = k * w
    OBVIOUS
  <2>2. IsFiniteSet(0..(n - 1)) /\ Cardinality(0..(n - 1)) = n
    BY FS_Interval
  <2> QED BY <2>1, <2>2 DEF Columns
<1>2. IsFiniteSet(S) /\ Cardinality(S) <= Cardinality(Columns(k, w))
  BY <1>1, FS_Subset
<1> QED BY <1>1, <1>2, FS_CardinalityType

LEMMA RowOperationsRight ==
  ASSUME NEW k \in Nat, NEW w \in Nat \ {0}, NEW rows, NEW r \in Nat, NEW done,
         Nth(rows, r) \in SUBSET Columns(k, w)
  PROVE  MakesRow(k, w, rows, RowOperations(k, w, Nth(rows, r), r), r, done)
<1> DEFINE row == Nth(rows, r)
           a == Ascending(row, k * w)
           blk == RowOperations(k, w, row, r)
<1>1. row \in SUBSET Columns(k, w)
  OBVIOUS
<1> HIDE DEF row
<1>2. Ascends(a, row)
  <2>1. k * w \in Nat /\ row \in SUBSET (0..(k * w - 1))
    BY <1>1 DEF Columns
  <2> QED BY <2>1, AscendingRight
<1> HIDE DEF a
<1>3. /\ Len(a) \in Nat /\ a \in Seq(Nat) /\ Len(a) = Cardinality(row)
      /\ \A j \in 1..Len(a) : a[j] \in row
  BY <1>2, AscendsFacts DEF Ascends
<1>4. Len(a) <= k * w
  BY <1>1, <1>3, RowCardinality
<1>5. /\ Len(blk) = Len(a) /\ blk \in Seq(Operations(w))
      /\ \A n \in 1..Len(a) : blk[n] = Taking(k, w, a[n], r, IF n = 1 THEN 0 ELSE 1)
  <2> DEFINE Op(n) == <<Nth(a, n) \div w, Nth(a, n) % w, k + r \div w, r % w,
                        IF n = 0 THEN 0 ELSE 1>>
  <2>1. blk = SubSeq([i \in 1..Len(a) |-> Op(i - 1)], 1, Len(a))
    BY DEF RowOperations, Tabulate, a
  <2>2. ASSUME NEW n \in 1..Len(a)
        PROVE  Op(n - 1) = Taking(k, w, a[n], r, IF n = 1 THEN 0 ELSE 1)
    <3>1. n - 1 + 1 = n /\ (n - 1 = 0 <=> n = 1) /\ Nth(a, n - 1) = a[n]
      BY <1>3 DEF Nth
    <3> QED BY <3>1 DEF Taking
  <2> HIDE DEF Op
  <2>3. ASSUME NEW n \in 1..Len(a) PROVE Op(n - 1) \in Operations(w)
    <3>1. PICK c \in Columns(k, w) : c = a[n]
      BY <1>1, <1>3
    <3>2. PICK x \in 0..1 : x = IF n = 1 THEN 0 ELSE 1
      OBVIOUS
    <3>3. Taking(k, w, c, r, x) \in Operations(w)
      BY ColumnOperation
    <3> QED BY <2>2, <3>1, <3>2, <3>3
  <2>4. Len(blk) = Len(a) /\ \A n \in 1..Len(a) : blk[n] = Op(n - 1)
    BY <1>3, <2>1
  <2>5. blk \in Seq(Operations(w))
    <3> HIDE DEF blk
    <3>1. [i \in 1..Len(a) |-> Op(i - 1)] \in Seq(Operations(w))
      BY <1>3, <2>3
    <3>2. blk = [i \in 1..Len(a) |-> Op(i - 1)]
      BY <1>3, <2>1
    <3> QED BY <3>1, <3>2
  <2> QED BY <2>2, <2>4, <2>5
<1> HIDE DEF blk
<1>6. ASSUME NEW n \in 1..Len(blk)
      PROVE  /\ ~(blk[n][1] >= k)
             /\ blk[n][3] = k + r \div w /\ blk[n][4] = r % w
             /\ blk[n][5] = 0 <=> n = 1
             /\ Contribution(k, w, rows, blk[n]) = {a[n]}
  <2>1. PICK x \in 0..1 : x = IF n = 1 THEN 0 ELSE 1
    OBVIOUS
  <2>2. PICK c \in Columns(k, w) : c = a[n]
    BY <1>1, <1>3, <1>5
  <2>3. blk[n] = Taking(k, w, c, r, x)
    BY <1>5, <2>1, <2>2
  <2>4. Takes(k, w, Taking(k, w, c, r, x), c, r, x)
    BY TakingFacts
  <2> QED BY <2>1, <2>2, <2>3, <2>4 DEF Contribution, Takes
<1>7. \A n \in 1..Len(blk) : /\ blk[n][3] = k + r \div w /\ blk[n][4] = r % w
                             /\ blk[n][5] = 0 <=> n = 1
                             /\ ~(blk[n][1] >= k)
  BY <1>6
<1>8. Sum(Contributions(k, w, rows, blk), 1..Len(blk)) = row
  <2>1. \A n \in 1..Len(a) : Contributions(k, w, rows, blk)[n] = {a[n]}
    BY <1>5, <1>6 DEF Contributions
  <2> QED BY <1>2, <1>5, <2>1, SumOfMembers
<1>9. MakesRow(k, w, rows, blk, r, done)
  BY <1>4, <1>5, <1>7, <1>8 DEF MakesRow, row
<1> QED BY <1>9 DEF blk, row

LEMMA FromRowRight ==
  ASSUME NEW k \in Nat, NEW w \in Nat \ {0}, NEW rows, NEW r \in Nat, NEW g \in Nat, NEW done,
         g \in done,
         Nth(rows, r) \in SUBSET Columns(k, w), Nth(rows, g) \in SUBSET Columns(k, w),
         Nth(rows, g) # {},
         1 + Cardinality(Xor(Nth(rows, r), Nth(rows, g))) <= Cardinality(Nth(rows, r))
  PROVE  MakesRow(k, w, rows, FromRow(k, w, Nth(rows, r), Nth(rows, g), r, g), r, done)
<1> DEFINE row == Nth(rows, r)
           from == Nth(rows, g)
           apart == Xor(row, from)
           a == Ascending(apart, k * w)
           copy == <<k + g \div w, g % w, k + r \div w, r % w, 0>>
           blk == FromRow(k, w, row, from, r, g)
<1>1. apart \in SUBSET Columns(k, w)
  BY DEF Xor, SymDiff
<1>2. Cardinality(row) \in Nat /\ Cardinality(row) <= k * w /\ 1 + Cardinality(apart) <= Cardinality(row)
  BY RowCardinality
<1>3. Xor(from, apart) = row
  BY DEF Xor, SymDiff
<1> HIDE DEF apart
<1>4. Ascends(a, apart)
  <2>1. k * w \in Nat /\ apart \in SUBSET (0..(k * w - 1))
    BY <1>1 DEF Columns
  <2> QED BY <2>1, AscendingRight
<1> HIDE DEF a
<1>5. /\ Len(a) \in Nat /\ a \in Seq(Nat) /\ Len(a) = Cardinality(apart)
      /\ \A j \in 1..Len(a) : a[j] \in apart
  BY <1>4, AscendsFacts DEF Ascends
<1>6. /\ copy \in Operations(w) /\ copy[1] = k + g \div w /\ copy[1] >= k /\ copy[5] = 0
      /\ copy[3] = k + r \div w /\ copy[4] = r % w /\ OriginOf(k, w, copy) = g
  <2>1. /\ r \div w \in Nat /\ r % w \in 0..(w - 1)
        /\ g \div w \in Nat /\ g % w \in 0..(w - 1)
        /\ (g \div w) * w + (g % w) = g
    BY DivMod
  <2>2. copy \in Operations(w)
    BY <2>1 DEF Operations
  <2>3. /\ copy[1] = k + g \div w /\ copy[2] = g % w /\ copy[5] = 0
        /\ copy[3] = k + r \div w /\ copy[4] = r % w
    OBVIOUS
  <2>4. (k + g \div w) - k = g \div w
    BY <2>1
  <2>5. OriginOf(k, w, copy) = ((k + g \div w) - k) * w + (g % w)
    BY <2>3 DEF OriginOf
  <2>6. OriginOf(k, w, copy) = g
    BY <2>1, <2>4, <2>5
  <2>7. k + g \div w >= k
    BY <2>1
  <2> HIDE DEF copy
  <2> QED BY <2>2, <2>3, <2>6, <2>7
<1> HIDE DEF copy
<1>7. /\ Len(blk) = 1 + Len(a) /\ blk \in Seq(Operations(w)) /\ blk[1] = copy
      /\ \A n \in 1..Len(a) : blk[1 + n] = Taking(k, w, a[n], r, 1)
  <2> DEFINE Op(n) == <<Nth(a, n) \div w, Nth(a, n) % w, k + r \div w, r % w, 1>>
             tail == SubSeq([i \in 1..Len(a) |-> Op(i - 1)], 1, Len(a))
  <2>1. blk = <<copy>> \o tail
    BY DEF FromRow, Tabulate, a, apart, copy
  <2>2. ASSUME NEW n \in 1..Len(a) PROVE Op(n - 1) = Taking(k, w, a[n], r, 1)
    <3>1. n - 1 + 1 = n /\ Nth(a, n - 1) = a[n]
      BY <1>5 DEF Nth
    <3> QED BY <3>1 DEF Taking
  <2> HIDE DEF Op
  <2>3. ASSUME NEW n \in 1..Len(a) PROVE Op(n - 1) \in Operations(w)
    <3>1. PICK c \in Columns(k, w) : c = a[n]
      BY <1>1, <1>5
    <3>2. Taking(k, w, c, r, 1) \in Operations(w)
      BY ColumnOperation
    <3> QED BY <2>2, <3>1, <3>2
  <2>4. tail = [i \in 1..Len(a) |-> Op(i - 1)] /\ tail \in Seq(Operations(w))
    <3>1. [i \in 1..Len(a) |-> Op(i - 1)] \in Seq(Operations(w))
      BY <1>5, <2>3
    <3>2. tail = [i \in 1..Len(a) |-> Op(i - 1)]
      BY <1>5
    <3> QED BY <3>1, <3>2
  <2>5. Len(tail) = Len(a) /\ \A n \in 1..Len(a) : tail[n] = Op(n - 1)
    BY <1>5, <2>4
  <2> HIDE DEF tail, blk
  <2>6. <<copy>> \in Seq(Operations(w)) /\ Len(<<copy>>) = 1 /\ <<copy>>[1] = copy
    BY <1>6
  <2>7. blk \in Seq(Operations(w)) /\ Len(blk) = 1 + Len(a) /\ blk[1] = copy
    BY <1>5, <2>1, <2>4, <2>5, <2>6
  <2>8. ASSUME NEW n \in 1..Len(a) PROVE blk[1 + n] = tail[n]
    BY <1>5, <2>1, <2>4, <2>5, <2>6
  <2> QED BY <2>2, <2>5, <2>7, <2>8
<1> HIDE DEF blk
<1>8. ASSUME NEW n \in 1..Len(a)
      PROVE  /\ ~(blk[1 + n][1] >= k)
             /\ blk[1 + n][3] = k + r \div w /\ blk[1 + n][4] = r % w
             /\ blk[1 + n][5] = 1
             /\ Contribution(k, w, rows, blk[1 + n]) = {a[n]}
  <2>1. PICK c \in Columns(k, w) : c = a[n]
    BY <1>1, <1>5
  <2>2. blk[1 + n] = Taking(k, w, c, r, 1)
    BY <1>7, <2>1
  <2>3. Takes(k, w, Taking(k, w, c, r, 1), c, r, 1)
    BY TakingFacts
  <2> QED BY <2>1, <2>2, <2>3 DEF Contribution, Takes
<1>9. \A n \in 1..Len(blk) : n = 1 \/ (n - 1 \in 1..Len(a) /\ n = 1 + (n - 1))
  BY <1>5, <1>7
<1>10. ASSUME NEW n \in 1..Len(blk)
       PROVE  /\ blk[n][3] = k + r \div w /\ blk[n][4] = r % w
              /\ blk[n][5] = 0 <=> n = 1
              /\ blk[n][1] >= k => /\ OriginOf(k, w, blk[n]) \in done
                                   /\ Nth(rows, OriginOf(k, w, blk[n])) # {}
  <2>1. CASE n = 1
    BY <1>6, <1>7, <2>1
  <2>2. CASE n # 1
    <3>1. n - 1 \in 1..Len(a) /\ n = 1 + (n - 1)
      BY <1>9, <2>2
    <3> QED BY <1>8, <2>2, <3>1
  <2> QED BY <2>1, <2>2
<1>11. Sum(Contributions(k, w, rows, blk), 1..Len(blk)) = row
  <2> DEFINE F == Contributions(k, w, rows, blk)
             G == [n \in 1..Len(a) |-> {a[n]}]
  <2>1. F[1] = from
    <3>1. 1 \in 1..Len(blk) /\ ~(copy[1] < k)
      <4>1. g \div w \in Nat
        BY DivMod
      <4> QED BY <1>5, <1>6, <1>7, <4>1
    <3> QED BY <1>6, <1>7, <3>1 DEF Contributions, Contribution
  <2>2. ASSUME NEW n \in 1..Len(a) PROVE F[1 + n] = G[n]
    <3>1. 1 + n \in 1..Len(blk)
      BY <1>5, <1>7
    <3>2. F[1 + n] = Contribution(k, w, rows, blk[1 + n])
      BY <3>1 DEF Contributions
    <3> QED BY <1>8, <3>2
  <2>3. Sum(G, 1..Len(a)) = apart
    <3>1. \A n \in 1..Len(a) : G[n] = {a[n]}
      OBVIOUS
    <3> HIDE DEF G
    <3> QED BY <1>4, <3>1, SumOfMembers
  <2> HIDE DEF F, G
  <2>4. Sum(F, (1 + 1)..(1 + Len(a))) = apart
    <3>1. PICK one \in Nat : one = 1
      OBVIOUS
    <3>2. \A n \in 1..Len(a) : F[one + n] = G[n]
      BY <2>2, <3>1
    <3>3. Sum(F, (one + 1)..(one + Len(a))) = Sum(G, 1..Len(a))
      BY <1>5, <3>2, SumMoved
    <3> QED BY <2>3, <3>1, <3>3
  <2> DEFINE S == (1 + 1)..(1 + Len(a))
  <2>5. 1..Len(blk) = S \cup {1} /\ 1 \notin S
    BY <1>5, <1>7
  <2>6. IsFiniteSet(S)
    BY <1>5, FS_Interval
  <2> HIDE DEF S
  <2>7. Sum(F, S \cup {1}) = Xor(Sum(F, S), F[1])
    BY <2>5, <2>6, SumAdd
  <2>8. Xor(apart, from) = row
    BY <1>3, XorFacts
  <2> QED BY <2>1, <2>4, <2>5, <2>7, <2>8 DEF F, S
<1>12. Len(blk) <= k * w
  <2>1. k * w \in Nat
    OBVIOUS
  <2>2. Len(blk) = 1 + Cardinality(apart) /\ Cardinality(apart) \in Nat
    BY <1>5, <1>7
  <2> QED BY <1>2, <2>1, <2>2
<1>13. MakesRow(k, w, rows, blk, r, done)
  BY <1>7, <1>10, <1>11, <1>12 DEF MakesRow, row
<1> QED BY <1>13 DEF blk, row, from
-----------------------------------------------------------------------------
(***************************************************************************)
(* Both ways to make a schedule make all rows.                             *)
(***************************************************************************)
RowsOn(k, w, rows) == rows \in Seq(SUBSET Columns(k, w))
AllRows(rows) == 0..(Len(rows) - 1)

LEMMA RowsFacts ==
  ASSUME NEW k \in Nat, NEW w \in Nat \ {0}, NEW rows, RowsOn(k, w, rows)
  PROVE  /\ Len(rows) \in Nat
         /\ \A r \in AllRows(rows) : r \in Nat /\ Nth(rows, r) \in SUBSET Columns(k, w)
<1>1. Len(rows) \in Nat
  BY DEF RowsOn
<1>2. ASSUME NEW r \in AllRows(rows) PROVE Nth(rows, r) \in SUBSET Columns(k, w)
  <2>1. r + 1 \in 1..Len(rows)
    BY <1>1 DEF AllRows
  <2> QED BY <2>1 DEF RowsOn, Nth
<1> QED BY <1>1, <1>2 DEF AllRows

LEMMA DumbSound ==
  ASSUME NEW k \in Nat, NEW w \in Nat \ {0}, NEW rows, RowsOn(k, w, rows)
  PROVE  Sound(k, w, rows, jerasure_dumb_bitmatrix_to_schedule(k, w, rows), AllRows(rows))
<1> DEFINE n == Len(rows)
           Row(ops, i) == ops \o RowOperations(k, w, Nth(rows, i), i)
           Q == Seq(Operations(w))
           body == [a \in Q \X (0..(n - 1)) |-> Row(a[1], a[2])]
           F(f) == [j \in 0..n |-> IF j = 0 THEN <<>> ELSE Row(f[j - 1], j - 1)]
           pass == CHOOSE f : f = F(f)
           P == [i \in 0..n |-> {ops \in Q : Sound(k, w, rows, ops, 0..(i - 1))}]
<1>1. n \in Nat /\ \A r \in 0..(n - 1) : r \in Nat /\ Nth(rows, r) \in SUBSET Columns(k, w)
  BY RowsFacts DEF AllRows
<1> HIDE DEF n
<1>2. <<>> \in P[0]
  <2>1. 0..(0 - 1) = {}
    OBVIOUS
  <2> QED BY <1>1, <2>1, SoundEmpty
<1>3. ASSUME NEW i \in 0..(n - 1), NEW ops \in P[i]
      PROVE  /\ body[<<ops, i>>] \in P[i + 1]
             /\ body[<<ops, i>>] = Row(ops, i)
  <2>1. ops \in Q /\ Sound(k, w, rows, ops, 0..(i - 1))
    BY <1>1
  <2>2. MakesRow(k, w, rows, RowOperations(k, w, Nth(rows, i), i), i, 0..(i - 1))
    BY <1>1, RowOperationsRight
  <2>3. IsFiniteSet(0..(i - 1)) /\ i \notin 0..(i - 1) /\ i \in Nat
    BY FS_Interval
  <2>4. Sound(k, w, rows, Row(ops, i), (0..(i - 1)) \cup {i})
    BY <2>1, <2>2, <2>3, SoundAppend
  <2>5. (0..(i - 1)) \cup {i} = 0..((i + 1) - 1) /\ i + 1 \in 0..n
    BY <1>1
  <2>6. Row(ops, i) \in Q
    BY <2>4 DEF Sound
  <2> HIDE DEF Q, Row
  <2> QED BY <2>1, <2>4, <2>5, <2>6
<1>4. PICK f : f = [j \in 0..n |-> f[j]] /\ Passes(f, <<>>, body, n) /\ \A i \in 0..n : f[i] \in P[i]
  <2> HIDE DEF P, body
  <2> QED BY <1>1, <1>2, <1>3, PassesHold
<1> HIDE DEF P, body
<1>5. f = F(f)
  <2>1. ASSUME NEW j \in 0..n PROVE f[j] = F(f)[j]
    <3>1. j # 0 => j - 1 \in 0..(n - 1) /\ j - 1 \in 0..n /\ (j - 1) + 1 = j
      BY <1>1
    <3> HIDE DEF Row
    <3> QED BY <1>3, <1>4, <3>1 DEF Passes
  <2> QED BY <1>4, <2>1
<1>6. pass = F(pass)
  BY <1>5
<1>7. jerasure_dumb_bitmatrix_to_schedule(k, w, rows) = pass[n]
  BY DEF jerasure_dumb_bitmatrix_to_schedule, Loop, n
<1> HIDE DEF pass
<1> DEFINE R == {i \in 0..n : pass[i] \in P[i]}
<1>8. 0 \in R
  BY <1>1, <1>2, <1>6
<1>9. ASSUME NEW i \in 0..(n - 1), i \in R PROVE i + 1 \in R
  <2>1. pass[i + 1] = Row(pass[i], i)
    <3>1. i + 1 \in 0..n /\ i + 1 # 0 /\ (i + 1) - 1 = i
      BY <1>1
    <3> HIDE DEF Row
    <3> QED BY <1>6, <3>1
  <2>2. pass[i] \in P[i] /\ i + 1 \in 0..n
    BY <1>1, <1>9
  <2> HIDE DEF Row
  <2> QED BY <1>3, <2>1, <2>2
<1> HIDE DEF R
<1>10. n \in R
  BY <1>1, <1>8, <1>9, PassByPass
<1>11. Sound(k, w, rows, pass[n], 0..(n - 1))
  BY <1>1, <1>10 DEF R, P
<1> QED BY <1>7, <1>11 DEF AllRows, n

LEMMA FirstNumbers ==
  ASSUME NEW n \in Nat
  PROVE  IsFiniteSet(0..(n - 1)) /\ Cardinality(0..(n - 1)) = n
BY FS_Interval

LEMMA MinFacts ==
  ASSUME NEW S \in SUBSET Nat, S # {}
  PROVE  Min(S) \in S /\ \A i \in S : Min(S) <= i
<1>1. \E i \in S : \A j \in S : i <= j
  BY LeastNatural
<1> QED BY <1>1 DEF Min

LEMMA CheapestFacts ==
  ASSUME NEW rest \in SUBSET Nat, rest # {}, NEW diff, \A i \in rest : Nth(diff, i) \in Nat
  PROVE  Cheapest(diff, rest) \in rest
<1> DEFINE T == {Nth(diff, i) : i \in rest}
           S == {i \in rest : \A j \in rest : Nth(diff, i) <= Nth(diff, j)}
<1>1. PICK t \in T : \A u \in T : t <= u
  BY LeastNatural
<1>2. PICK i \in rest : t = Nth(diff, i)
  BY <1>1
<1>3. i \in S
  BY <1>1, <1>2
<1>4. S \in SUBSET Nat /\ S # {} /\ S \in SUBSET rest
  BY <1>3
<1> HIDE DEF S
<1>5. Min(S) \in S
  BY <1>4, MinFacts
<1> QED BY <1>4, <1>5 DEF Cheapest, S

\* The state of the smart schedule: what a row is to be made from costs less than
\* the packets of its own, and is there.
SmartStates(k, w, rows) ==
  [rest : SUBSET AllRows(rows), ops : Seq(Operations(w)),
   diff : [1..Len(rows) -> Nat], from : [1..Len(rows) -> Int]]

Apart(rows, i, j) == Cardinality(Xor(Nth(rows, i), Nth(rows, j)))

BeginsWell(rows, s, i) ==
  /\ Nth(s.diff, i) <= Cardinality(Nth(rows, i))
  /\ \/ Nth(s.from, i) = -1
     \/ /\ Nth(s.from, i) \in AllRows(rows) \ s.rest
        /\ Nth(rows, Nth(s.from, i)) # {}
        /\ Nth(s.diff, i) = 1 + Apart(rows, i, Nth(s.from, i))

SmartSound(k, w, rows, s) ==
  /\ Sound(k, w, rows, s.ops, AllRows(rows) \ s.rest)
  /\ \A i \in s.rest : BeginsWell(rows, s, i)

LEMMA ApartFacts ==
  ASSUME NEW k \in Nat, NEW w \in Nat \ {0}, NEW rows, RowsOn(k, w, rows),
         NEW i \in AllRows(rows), NEW j \in AllRows(rows)
  PROVE  /\ Apart(rows, i, j) \in Nat
         /\ Apart(rows, i, j) = Apart(rows, j, i)
         /\ Nth(rows, j) = {} => Apart(rows, i, j) = Cardinality(Nth(rows, i))
<1>1. Nth(rows, i) \in SUBSET Columns(k, w) /\ Nth(rows, j) \in SUBSET Columns(k, w)
  BY RowsFacts
<1>2. Xor(Nth(rows, i), Nth(rows, j)) \in SUBSET Columns(k, w)
  BY <1>1 DEF Xor, SymDiff
<1>3. Apart(rows, i, j) \in Nat
  BY <1>2, RowCardinality DEF Apart
<1>4. Xor(Nth(rows, i), Nth(rows, j)) = Xor(Nth(rows, j), Nth(rows, i))
  BY XorFacts
<1>5. Xor(Nth(rows, i), {}) = Nth(rows, i)
  BY XorFacts
<1> QED BY <1>3, <1>4, <1>5 DEF Apart

LEMMA NextRowSound ==
  ASSUME NEW k \in Nat, NEW w \in Nat \ {0}, NEW rows, RowsOn(k, w, rows),
         NEW s \in SmartStates(k, w, rows), s.rest # {}, SmartSound(k, w, rows, s)
  PROVE  /\ NextRow(s, k, w, rows) \in SmartStates(k, w, rows)
         /\ SmartSound(k, w, rows, NextRow(s, k, w, rows))
         /\ \E row \in s.rest : NextRow(s, k, w, rows).rest = s.rest \ {row}
<1> DEFINE row == Cheapest(s.diff, s.rest)
           left == s.rest \ {row}
           Cost(i) == 1 + Apart(rows, row, i)
           nearer == {i \in left : Cost(i) < Nth(s.diff, i)}
           Diff(i) == IF i \in nearer THEN Cost(i) ELSE Nth(s.diff, i)
           From(i) == IF i \in nearer THEN row ELSE Nth(s.from, i)
           blk == IF Nth(s.from, row) = -1 THEN RowOperations(k, w, Nth(rows, row), row)
                  ELSE FromRow(k, w, Nth(rows, row), Nth(rows, Nth(s.from, row)), row,
                               Nth(s.from, row))
           diff == Tabulate(Len(rows), Diff)
           from == Tabulate(Len(rows), From)
           t == NextRow(s, k, w, rows)
           done == AllRows(rows) \ s.rest
<1>1. /\ Len(rows) \in Nat
      /\ \A r \in AllRows(rows) : r \in Nat /\ r + 1 \in 1..Len(rows)
                                  /\ Nth(rows, r) \in SUBSET Columns(k, w)
  <2>1. \A r \in AllRows(rows) : r + 1 \in 1..Len(rows)
    BY RowsFacts DEF AllRows
  <2> QED BY <2>1, RowsFacts
<1>2. /\ s.rest \in SUBSET AllRows(rows) /\ s.ops \in Seq(Operations(w))
      /\ s.diff \in [1..Len(rows) -> Nat] /\ s.from \in [1..Len(rows) -> Int]
  BY DEF SmartStates
<1>3. \A i \in AllRows(rows) : Nth(s.diff, i) \in Nat /\ Nth(s.from, i) \in Int
  BY <1>1, <1>2 DEF Nth
<1>4. row \in s.rest
  <2>1. s.rest \in SUBSET Nat /\ \A i \in s.rest : Nth(s.diff, i) \in Nat
    BY <1>1, <1>2, <1>3
  <2> QED BY <2>1, CheapestFacts
<1>5. t = [rest |-> left, ops |-> s.ops \o blk, diff |-> diff, from |-> from]
  BY DEF NextRow, Apart
<1> HIDE DEF row
<1>6. \A i \in AllRows(rows) : Cost(i) \in Nat
  <2>1. row \in AllRows(rows)
    BY <1>2, <1>4
  <2>2. ASSUME NEW i \in AllRows(rows) PROVE Apart(rows, row, i) \in Nat
    BY <2>1, ApartFacts
  <2> QED BY <2>2
<1> HIDE DEF Cost
<1>7. /\ diff \in [1..Len(rows) -> Nat]
      /\ \A i \in AllRows(rows) : Nth(diff, i) = Diff(i)
  <2>1. \A n \in 1..Len(rows) : n - 1 \in AllRows(rows)
    BY <1>1 DEF AllRows
  <2>2. \A i \in AllRows(rows) : Diff(i) \in Nat
    BY <1>3, <1>6
  <2> HIDE DEF Diff
  <2>3. diff = [n \in 1..Len(rows) |-> Diff(n - 1)]
    BY <1>1 DEF Tabulate
  <2>4. ASSUME NEW i \in AllRows(rows) PROVE Nth(diff, i) = Diff(i)
    <3>1. i + 1 \in 1..Len(rows) /\ (i + 1) - 1 = i
      BY <1>1
    <3> QED BY <2>3, <3>1 DEF Nth
  <2> QED BY <2>1, <2>2, <2>3, <2>4
<1>8. /\ from \in [1..Len(rows) -> Int]
      /\ \A i \in AllRows(rows) : Nth(from, i) = From(i)
  <2>1. \A n \in 1..Len(rows) : n - 1 \in AllRows(rows)
    BY <1>1 DEF AllRows
  <2>2. \A i \in AllRows(rows) : From(i) \in Int
    BY <1>1, <1>2, <1>3, <1>4
  <2> HIDE DEF From
  <2>3. from = [n \in 1..Len(rows) |-> From(n - 1)]
    BY <1>1 DEF Tabulate
  <2>4. ASSUME NEW i \in AllRows(rows) PROVE Nth(from, i) = From(i)
    <3>1. i + 1 \in 1..Len(rows) /\ (i + 1) - 1 = i
      BY <1>1
    <3> QED BY <2>3, <3>1 DEF Nth
  <2> QED BY <2>1, <2>2, <2>3, <2>4
<1> HIDE DEF diff, from
<1>9. MakesRow(k, w, rows, blk, row, done)
  <2>1. row \in AllRows(rows) /\ row \in Nat /\ BeginsWell(rows, s, row)
    BY <1>1, <1>2, <1>4 DEF SmartSound
  <2>2. CASE Nth(s.from, row) = -1
    <3>1. MakesRow(k, w, rows, RowOperations(k, w, Nth(rows, row), row), row, done)
      BY <1>1, <2>1, RowOperationsRight
    <3> QED BY <2>2, <3>1
  <2>3. CASE Nth(s.from, row) # -1
    <3> DEFINE g == Nth(s.from, row)
    <3>1. /\ g \in done /\ Nth(rows, g) # {}
          /\ Nth(s.diff, row) = 1 + Apart(rows, row, g)
          /\ Nth(s.diff, row) <= Cardinality(Nth(rows, row))
      BY <2>1, <2>3 DEF BeginsWell
    <3> HIDE DEF g
    <3>2. g \in Nat /\ Nth(rows, g) \in SUBSET Columns(k, w) /\ Nth(rows, row) \in SUBSET Columns(k, w)
      BY <1>1, <2>1, <3>1
    <3>3. 1 + Cardinality(Xor(Nth(rows, row), Nth(rows, g))) <= Cardinality(Nth(rows, row))
      BY <3>1 DEF Apart
    <3> HIDE DEF done
    <3>4. MakesRow(k, w, rows, FromRow(k, w, Nth(rows, row), Nth(rows, g), row, g), row, done)
      BY <2>1, <3>1, <3>2, <3>3, FromRowRight
    <3> QED BY <2>3, <3>4 DEF g
  <2> QED BY <2>2, <2>3
<1> HIDE DEF blk
<1>10. AllRows(rows) \ left = done \cup {row} /\ row \notin done /\ row \in Nat
  BY <1>1, <1>2, <1>4
<1>11. Sound(k, w, rows, s.ops \o blk, AllRows(rows) \ left)
  <2>1. IsFiniteSet(done)
    <3>1. IsFiniteSet(AllRows(rows))
      BY <1>1, FS_Interval DEF AllRows
    <3> QED BY <3>1, FS_Subset
  <2>2. Sound(k, w, rows, s.ops, done)
    BY DEF SmartSound
  <2> HIDE DEF done
  <2>3. Sound(k, w, rows, s.ops \o blk, done \cup {row})
    BY <1>9, <1>10, <2>1, <2>2, SoundAppend
  <2> QED BY <1>10, <2>3
<1>12. /\ t.rest = left /\ t.ops = s.ops \o blk /\ t.diff = diff /\ t.from = from
       /\ left \in SUBSET AllRows(rows) /\ s.ops \o blk \in Seq(Operations(w))
  BY <1>2, <1>5, <1>11 DEF Sound
<1>13. t \in SmartStates(k, w, rows)
  BY <1>5, <1>7, <1>8, <1>12 DEF SmartStates
<1>14. ASSUME NEW i \in left PROVE BeginsWell(rows, t, i)
  <2>1. i \in AllRows(rows) /\ i \in s.rest /\ BeginsWell(rows, s, i)
    BY <1>2 DEF SmartSound
  <2>2. /\ Nth(t.diff, i) = Diff(i) /\ Nth(t.from, i) = From(i)
        /\ Nth(s.diff, i) \in Nat /\ Cost(i) \in Nat
        /\ Cardinality(Nth(rows, i)) \in Nat
    BY <1>1, <1>3, <1>6, <1>7, <1>8, <1>12, <2>1, RowCardinality
  <2>3. CASE i \in nearer
    <3>1. Nth(t.diff, i) = Cost(i) /\ Nth(t.from, i) = row /\ Cost(i) < Nth(s.diff, i)
      BY <2>2, <2>3
    <3>2. Nth(s.diff, i) <= Cardinality(Nth(rows, i))
      BY <2>1 DEF BeginsWell
    <3>3. row \in AllRows(rows) \ left
      BY <1>2, <1>4
    <3>4. Cost(i) = 1 + Apart(rows, i, row)
      BY <2>1, <3>3, ApartFacts DEF Cost
    <3>5. Nth(rows, row) # {}
      <4>1. Nth(rows, row) = {} => Apart(rows, i, row) = Cardinality(Nth(rows, i))
        BY <2>1, <3>3, ApartFacts
      <4> QED BY <2>2, <3>1, <3>2, <3>4, <4>1
    <3>6. Cost(i) <= Cardinality(Nth(rows, i))
      BY <2>2, <3>1, <3>2
    <3> QED BY <1>12, <3>1, <3>3, <3>4, <3>5, <3>6 DEF BeginsWell
  <2>4. CASE i \notin nearer
    <3>1. Nth(t.diff, i) = Nth(s.diff, i) /\ Nth(t.from, i) = Nth(s.from, i)
      BY <2>2, <2>4
    <3> QED BY <1>12, <2>1, <3>1 DEF BeginsWell
  <2> QED BY <2>3, <2>4
<1>15. SmartSound(k, w, rows, t)
  BY <1>11, <1>12, <1>14 DEF SmartSound
<1> QED BY <1>4, <1>12, <1>13, <1>15

LEMMA SmartSchedule ==
  ASSUME NEW k \in Nat, NEW w \in Nat \ {0}, NEW rows, RowsOn(k, w, rows)
  PROVE  Sound(k, w, rows, jerasure_smart_bitmatrix_to_schedule(k, w, rows), AllRows(rows))
<1> DEFINE n == Len(rows)
           Weight(i) == Cardinality(Nth(rows, i))
           None(i) == -1
           first == [rest |-> 0..(n - 1), ops |-> <<>>, diff |-> Tabulate(n, Weight),
                     from |-> Tabulate(n, None)]
           Pass(s, i) == NextRow(s, k, w, rows)
           Q == SmartStates(k, w, rows)
           body == [a \in Q \X (0..(n - 1)) |-> Pass(a[1], a[2])]
           F(f) == [j \in 0..n |-> IF j = 0 THEN first ELSE Pass(f[j - 1], j - 1)]
           pass == CHOOSE f : f = F(f)
           P == [i \in 0..n |-> {s \in Q : SmartSound(k, w, rows, s) /\ Cardinality(s.rest) = n - i}]
<1>1. n \in Nat /\ \A r \in 0..(n - 1) : r \in Nat /\ Nth(rows, r) \in SUBSET Columns(k, w)
  BY RowsFacts DEF AllRows
<1>2. IsFiniteSet(0..(n - 1)) /\ Cardinality(0..(n - 1)) = n /\ AllRows(rows) = 0..(n - 1)
  <2>1. AllRows(rows) = 0..(n - 1)
    BY DEF AllRows
  <2>2. n \in Nat
    BY <1>1
  <2> HIDE DEF n
  <2>3. IsFiniteSet(0..(n - 1)) /\ Cardinality(0..(n - 1)) = n
    BY <2>2, FirstNumbers
  <2> QED BY <2>1, <2>3
<1>3. first \in P[0]
  <2> DEFINE diff == Tabulate(n, Weight)
             from == Tabulate(n, None)
  <2>1. \A r \in 0..(n - 1) : Weight(r) \in Nat
    BY <1>1, RowCardinality
  <2>2. \A j \in 1..n : j - 1 \in 0..(n - 1)
    BY <1>1
  <2> HIDE DEF Weight
  <2>3. diff = [j \in 1..n |-> Weight(j - 1)] /\ from = [j \in 1..n |-> -1]
    BY <1>1 DEF Tabulate
  <2>4. diff \in [1..n -> Nat] /\ from \in [1..n -> Int]
    <3>1. diff \in [1..n -> Nat]
      BY <2>1, <2>2, <2>3
    <3>2. from \in [1..n -> Int]
      <4>1. -1 \in Int
        OBVIOUS
      <4> QED BY <2>3, <4>1
    <3> QED BY <3>1, <3>2
  <2>5. ASSUME NEW r \in 0..(n - 1) PROVE Nth(diff, r) = Weight(r) /\ Nth(from, r) = -1
    <3>1. r + 1 \in 1..n /\ (r + 1) - 1 = r
      BY <1>1
    <3> QED BY <2>3, <3>1 DEF Nth
  <2> HIDE DEF diff, from
  <2>6. first = [rest |-> 0..(n - 1), ops |-> <<>>, diff |-> diff, from |-> from]
    BY DEF diff, from
  <2> HIDE DEF first
  <2>7. first \in Q
    <3> HIDE DEF n
    <3>1. 0..(n - 1) \in SUBSET AllRows(rows)
      BY <1>2
    <3> QED BY <2>4, <2>6, <3>1 DEF SmartStates, n
  <2>8. Sound(k, w, rows, first.ops, AllRows(rows) \ first.rest)
    <3>1. AllRows(rows) \ first.rest = {} /\ first.ops = <<>>
      BY <1>2, <2>6
    <3> QED BY <3>1, SoundEmpty
  <2>9. ASSUME NEW r \in first.rest PROVE BeginsWell(rows, first, r)
    <3>1. r \in 0..(n - 1)
      BY <2>6
    <3>2. Nth(first.diff, r) = Cardinality(Nth(rows, r)) /\ Nth(first.from, r) = -1
      BY <2>5, <2>6, <3>1 DEF Weight
    <3>3. Cardinality(Nth(rows, r)) \in Nat
      BY <2>1, <3>1 DEF Weight
    <3> QED BY <3>2, <3>3 DEF BeginsWell
  <2>10. Cardinality(first.rest) = n - 0
    BY <1>1, <1>2, <2>6
  <2>11. SmartSound(k, w, rows, first)
    BY <2>8, <2>9 DEF SmartSound
  <2> HIDE DEF Q, n
  <2> QED BY <1>1, <2>7, <2>10, <2>11
<1> HIDE DEF first
<1>4. ASSUME NEW i \in 0..(n - 1), NEW s \in P[i]
      PROVE  /\ body[<<s, i>>] \in P[i + 1]
             /\ body[<<s, i>>] = Pass(s, i)
  <2>1. s \in Q /\ SmartSound(k, w, rows, s) /\ Cardinality(s.rest) = n - i
    BY <1>1
  <2>2. s.rest # {}
    <3>1. n - i # 0
      BY <1>1
    <3>2. Cardinality({}) = 0
      BY FS_EmptySet
    <3> QED BY <2>1, <3>1, <3>2
  <2> DEFINE t == NextRow(s, k, w, rows)
  <2>3. t \in Q /\ SmartSound(k, w, rows, t) /\ \E row \in s.rest : t.rest = s.rest \ {row}
    BY <2>1, <2>2, NextRowSound
  <2> HIDE DEF t
  <2>4. Cardinality(t.rest) = n - (i + 1)
    <3>1. s.rest \in SUBSET (0..(n - 1))
      BY <1>2, <2>1 DEF SmartStates
    <3>2. IsFiniteSet(s.rest)
      BY <1>2, <3>1, FS_Subset
    <3>3. PICK row \in s.rest : t.rest = s.rest \ {row}
      BY <2>3
    <3>4. Cardinality(t.rest) = Cardinality(s.rest) - 1
      BY <3>2, <3>3, FS_RemoveElement
    <3> QED BY <1>1, <2>1, <3>4
  <2>5. i + 1 \in 0..n
    BY <1>1
  <2>6. body[<<s, i>>] = t
    BY <2>1 DEF t
  <2> HIDE DEF Q, body, n
  <2> QED BY <2>3, <2>4, <2>5, <2>6 DEF t
<1>5. PICK f : f = [j \in 0..n |-> f[j]] /\ Passes(f, first, body, n) /\ \A i \in 0..n : f[i] \in P[i]
  <2> HIDE DEF P, body, n
  <2> QED BY <1>1, <1>3, <1>4, PassesHold
<1> HIDE DEF P, body, n
<1>6. f = F(f)
  <2>1. ASSUME NEW j \in 0..n PROVE f[j] = F(f)[j]
    <3>1. j # 0 => j - 1 \in 0..(n - 1) /\ j - 1 \in 0..n /\ (j - 1) + 1 = j
      BY <1>1
    <3> HIDE DEF Pass
    <3> QED BY <1>4, <1>5, <3>1 DEF Passes
  <2> QED BY <1>5, <2>1
<1>7. pass = F(pass)
  BY <1>6
<1>8. jerasure_smart_bitmatrix_to_schedule(k, w, rows) = pass[n].ops
  BY DEF jerasure_smart_bitmatrix_to_schedule, Loop, n, first
<1> HIDE DEF pass
<1> DEFINE R == {i \in 0..n : pass[i] \in P[i]}
<1>9. 0 \in R
  BY <1>1, <1>3, <1>7
<1>10. ASSUME NEW i \in 0..(n - 1), i \in R PROVE i + 1 \in R
  <2>1. pass[i + 1] = Pass(pass[i], i)
    <3>1. i + 1 \in 0..n /\ i + 1 # 0 /\ (i + 1) - 1 = i
      BY <1>1
    <3> HIDE DEF Pass
    <3> QED BY <1>7, <3>1
  <2>2. pass[i] \in P[i] /\ i + 1 \in 0..n
    BY <1>1, <1>10
  <2> HIDE DEF Pass
  <2> QED BY <1>4, <2>1, <2>2
<1> HIDE DEF R
<1>11. n \in R
  BY <1>1, <1>9, <1>10, PassByPass
<1>12. SmartSound(k, w, rows, pass[n]) /\ pass[n] \in Q /\ Cardinality(pass[n].rest) = 0
  BY <1>1, <1>11 DEF R, P
<1>13. pass[n].rest = {}
  <2>1. pass[n].rest \in SUBSET (0..(n - 1))
    BY <1>2, <1>12 DEF SmartStates
  <2> QED BY <1>2, <1>12, <2>1, FS_Subset, FS_EmptySet
<1>14. AllRows(rows) \ pass[n].rest = AllRows(rows)
  BY <1>13
<1> QED BY <1>8, <1>12, <1>14 DEF SmartSound
-----------------------------------------------------------------------------
(***************************************************************************)
(* Elimination on a matrix of bits with n rows and columns.                *)
(***************************************************************************)
Numbered(n) == 0..(n - 1)
Matrices(n) == [1..n -> SUBSET Numbered(n)]
Combination(mat, n, S) == Sum([i \in Numbered(n) |-> Nth(mat, i)], S)

\* x has an even number of columns in common with every row.
Annulled(mat, n, x) == \A j \in Numbered(n) : ~Odd(Nth(mat, j) \cap x)

LEMMA NumberedFacts ==
  ASSUME NEW n \in Nat
  PROVE  /\ IsFiniteSet(Numbered(n)) /\ Cardinality(Numbered(n)) = n
         /\ \A j \in Numbered(n) : j \in Nat /\ j < n /\ j + 1 \in 1..n
         /\ \A j \in 1..n : j - 1 \in Numbered(n) /\ (j - 1) + 1 = j
<1>1. IsFiniteSet(Numbered(n)) /\ Cardinality(Numbered(n)) = n
  BY FirstNumbers DEF Numbered
<1> QED BY <1>1 DEF Numbered

LEMMA MatrixFacts ==
  ASSUME NEW n \in Nat, NEW mat \in Matrices(n)
  PROVE  /\ mat \in Seq(SUBSET Numbered(n)) /\ Len(mat) = n
         /\ \A j \in Numbered(n) : Nth(mat, j) \in SUBSET Numbered(n)
<1>1. mat \in [1..n -> SUBSET Numbered(n)]
  BY DEF Matrices
<1>2. mat \in Seq(SUBSET Numbered(n)) /\ Len(mat) = n
  BY <1>1
<1>3. \A j \in Numbered(n) : Nth(mat, j) \in SUBSET Numbered(n)
  BY <1>1, NumberedFacts DEF Nth
<1> QED BY <1>2, <1>3

LEMMA AddRowFacts ==
  ASSUME NEW n \in Nat, NEW mat \in Matrices(n), NEW i \in Numbered(n), NEW J
  PROVE  /\ AddRow(mat, i, J) \in Matrices(n)
         /\ \A j \in Numbered(n) :
              Nth(AddRow(mat, i, J), j)
                = IF j \in J THEN Xor(Nth(mat, j), Nth(mat, i)) ELSE Nth(mat, j)
<1> DEFINE New(j) == IF j \in J THEN Xor(Nth(mat, j), Nth(mat, i)) ELSE Nth(mat, j)
           new == AddRow(mat, i, J)
<1>1. Len(mat) = n /\ \A j \in Numbered(n) : Nth(mat, j) \in SUBSET Numbered(n)
  BY MatrixFacts
<1>2. \A j \in Numbered(n) : New(j) \in SUBSET Numbered(n)
  BY <1>1 DEF Xor, SymDiff
<1> HIDE DEF New
<1>3. new = [j \in 1..n |-> New(j - 1)]
  BY <1>1 DEF AddRow, Tabulate, New
<1> HIDE DEF new
<1>4. new \in Matrices(n)
  BY <1>2, <1>3, NumberedFacts DEF Matrices
<1>5. ASSUME NEW j \in Numbered(n) PROVE Nth(new, j) = New(j)
  <2>1. j + 1 \in 1..n /\ (j + 1) - 1 = j
    BY NumberedFacts
  <2> QED BY <1>3, <2>1 DEF Nth
<1> QED BY <1>4, <1>5 DEF new, New

LEMMA SwapRowsFacts ==
  ASSUME NEW n \in Nat, NEW mat \in Matrices(n), NEW i \in Numbered(n), NEW p \in Numbered(n)
  PROVE  /\ SwapRows(mat, i, p) \in Matrices(n)
         /\ \A j \in Numbered(n) :
              Nth(SwapRows(mat, i, p), j)
                = IF j = p THEN Nth(mat, i) ELSE IF j = i THEN Nth(mat, p) ELSE Nth(mat, j)
<1>1. i + 1 \in 1..n /\ p + 1 \in 1..n /\ i \in Int /\ p \in Int
  BY NumberedFacts
<1>2. mat \in [1..n -> SUBSET Numbered(n)]
  BY DEF Matrices
<1>3. SwapRows(mat, i, p) \in Matrices(n)
  BY <1>1, <1>2 DEF SwapRows, Matrices
<1>4. ASSUME NEW j \in Numbered(n)
      PROVE  Nth(SwapRows(mat, i, p), j)
               = IF j = p THEN Nth(mat, i) ELSE IF j = i THEN Nth(mat, p) ELSE Nth(mat, j)
  <2>1. j + 1 \in 1..n /\ j \in Int
    BY NumberedFacts
  <2> QED BY <1>1, <1>2, <2>1 DEF SwapRows, Nth
<1> QED BY <1>3, <1>4

LEMMA OddShared ==
  ASSUME NEW a, NEW b, NEW x, IsFiniteSet(a), IsFiniteSet(b)
  PROVE  Odd(Xor(a, b) \cap x) <=> ~(Odd(a \cap x) <=> Odd(b \cap x))
<1>1. IsFiniteSet(a \cap x) /\ IsFiniteSet(b \cap x)
  BY FS_Subset
<1>2. Xor(a, b) \cap x = Xor(a \cap x, b \cap x)
  BY DEF Xor, SymDiff
<1>3. PICK s, t : s = a \cap x /\ t = b \cap x /\ IsFiniteSet(s) /\ IsFiniteSet(t)
  BY <1>1
<1>4. Odd(Xor(s, t)) <=> ~(Odd(s) <=> Odd(t))
  BY <1>3, OddXor
<1> QED BY <1>2, <1>3, <1>4

\* What elimination keeps: rows are made of the rows of the first matrix as the
\* second matrix says, and no column set is annulled that was not before.
EliminationStates(n) == [mat : Matrices(n), inv : Matrices(n), ok : BOOLEAN]
MadeOf(mat0, n, s) ==
  /\ \A j \in Numbered(n) : Nth(s.mat, j) = Combination(mat0, n, Nth(s.inv, j))
  /\ \A x : Annulled(s.mat, n, x) => Annulled(mat0, n, x)

LEMMA CombinationXor ==
  ASSUME NEW n \in Nat, NEW mat0, NEW a \in SUBSET Numbered(n), NEW b \in SUBSET Numbered(n)
  PROVE  Combination(mat0, n, Xor(a, b))
           = Xor(Combination(mat0, n, a), Combination(mat0, n, b))
<1>1. IsFiniteSet(a) /\ IsFiniteSet(b)
  BY NumberedFacts, FS_Subset
<1> QED BY <1>1, SumOverXor DEF Combination

LEMMA StepsOnBoth ==
  ASSUME NEW n, NEW s \in EliminationStates(n), NEW i, NEW J
  PROVE  /\ AddTo(s, i, J).mat = AddRow(s.mat, i, J)
         /\ AddTo(s, i, J).inv = AddRow(s.inv, i, J)
         /\ AddTo(s, i, J).ok = s.ok
         /\ AddRow(s.mat, i, J) \in Matrices(n) /\ AddRow(s.inv, i, J) \in Matrices(n)
              => AddTo(s, i, J) \in EliminationStates(n)
         /\ SwapIn(s, i, J).mat = SwapRows(s.mat, i, J)
         /\ SwapIn(s, i, J).inv = SwapRows(s.inv, i, J)
         /\ SwapIn(s, i, J).ok = s.ok
         /\ SwapRows(s.mat, i, J) \in Matrices(n) /\ SwapRows(s.inv, i, J) \in Matrices(n)
              => SwapIn(s, i, J) \in EliminationStates(n)
<1>1. AddTo(s, i, J).mat = AddRow(s.mat, i, J)
  BY DEF AddTo, EliminationStates
<1>2. AddTo(s, i, J).inv = AddRow(s.inv, i, J)
  BY DEF AddTo, EliminationStates
<1>3. AddTo(s, i, J).ok = s.ok
  BY DEF AddTo, EliminationStates
<1>4. AddRow(s.mat, i, J) \in Matrices(n) /\ AddRow(s.inv, i, J) \in Matrices(n)
        => AddTo(s, i, J) \in EliminationStates(n)
  BY DEF AddTo, EliminationStates
<1>5. SwapIn(s, i, J).mat = SwapRows(s.mat, i, J)
  BY DEF SwapIn, EliminationStates
<1>6. SwapIn(s, i, J).inv = SwapRows(s.inv, i, J)
  BY DEF SwapIn, EliminationStates
<1>7. SwapIn(s, i, J).ok = s.ok
  BY DEF SwapIn, EliminationStates
<1>8. SwapRows(s.mat, i, J) \in Matrices(n) /\ SwapRows(s.inv, i, J) \in Matrices(n)
        => SwapIn(s, i, J) \in EliminationStates(n)
  BY DEF SwapIn, EliminationStates
<1> QED BY <1>1, <1>2, <1>3, <1>4, <1>5, <1>6, <1>7, <1>8

LEMMA AddToKeeps ==
  ASSUME NEW n \in Nat, NEW mat0, NEW s \in EliminationStates(n), MadeOf(mat0, n, s),
         NEW i \in Numbered(n), NEW J, i \notin J
  PROVE  /\ AddTo(s, i, J) \in EliminationStates(n)
         /\ AddTo(s, i, J).mat = AddRow(s.mat, i, J)
         /\ AddTo(s, i, J).ok = s.ok
         /\ MadeOf(mat0, n, AddTo(s, i, J))
<1> DEFINE t == AddTo(s, i, J)
<1>1. s.mat \in Matrices(n) /\ s.inv \in Matrices(n) /\ s.ok \in BOOLEAN
  BY DEF EliminationStates
<1>2. /\ t.mat = AddRow(s.mat, i, J) /\ t.inv = AddRow(s.inv, i, J) /\ t.ok = s.ok
      /\ t.mat \in Matrices(n) /\ t.inv \in Matrices(n) => t \in EliminationStates(n)
  BY StepsOnBoth
<1> HIDE DEF t
<1>3. t.mat \in Matrices(n) /\ t.inv \in Matrices(n)
  BY <1>1, <1>2, AddRowFacts
<1>4. t \in EliminationStates(n)
  BY <1>2, <1>3
<1>5. \A j \in Numbered(n) :
        /\ Nth(t.mat, j) = IF j \in J THEN Xor(Nth(s.mat, j), Nth(s.mat, i)) ELSE Nth(s.mat, j)
        /\ Nth(t.inv, j) = IF j \in J THEN Xor(Nth(s.inv, j), Nth(s.inv, i)) ELSE Nth(s.inv, j)
        /\ Nth(s.mat, j) \in SUBSET Numbered(n) /\ Nth(s.inv, j) \in SUBSET Numbered(n)
  <2>1. \A j \in Numbered(n) :
          Nth(t.mat, j) = IF j \in J THEN Xor(Nth(s.mat, j), Nth(s.mat, i)) ELSE Nth(s.mat, j)
    BY <1>1, <1>2, AddRowFacts
  <2>2. \A j \in Numbered(n) :
          Nth(t.inv, j) = IF j \in J THEN Xor(Nth(s.inv, j), Nth(s.inv, i)) ELSE Nth(s.inv, j)
    BY <1>1, <1>2, AddRowFacts
  <2>3. \A j \in Numbered(n) :
          Nth(s.mat, j) \in SUBSET Numbered(n) /\ Nth(s.inv, j) \in SUBSET Numbered(n)
    BY <1>1, MatrixFacts
  <2> QED BY <2>1, <2>2, <2>3
<1>6. ASSUME NEW j \in Numbered(n) PROVE Nth(t.mat, j) = Combination(mat0, n, Nth(t.inv, j))
  <2>1. /\ Nth(s.mat, j) = Combination(mat0, n, Nth(s.inv, j))
        /\ Nth(s.mat, i) = Combination(mat0, n, Nth(s.inv, i))
    BY DEF MadeOf
  <2>2. CASE j \in J
    <3>1. Nth(t.mat, j) = Xor(Nth(s.mat, j), Nth(s.mat, i))
      BY <1>5, <2>2
    <3>2. Nth(t.inv, j) = Xor(Nth(s.inv, j), Nth(s.inv, i))
      BY <1>5, <2>2
    <3>3. Nth(s.inv, j) \in SUBSET Numbered(n) /\ Nth(s.inv, i) \in SUBSET Numbered(n)
      BY <1>5
    <3>4. Combination(mat0, n, Xor(Nth(s.inv, j), Nth(s.inv, i)))
            = Xor(Combination(mat0, n, Nth(s.inv, j)), Combination(mat0, n, Nth(s.inv, i)))
      BY <3>3, CombinationXor
    <3> QED BY <2>1, <3>1, <3>2, <3>4
  <2>3. CASE j \notin J
    BY <1>5, <2>1, <2>3
  <2> QED BY <2>2, <2>3
<1>7. ASSUME NEW x, Annulled(t.mat, n, x) PROVE Annulled(mat0, n, x)
  <2>1. ASSUME NEW j \in Numbered(n) PROVE ~Odd(Nth(s.mat, j) \cap x)
    <3>1. ~Odd(Nth(t.mat, j) \cap x) /\ ~Odd(Nth(t.mat, i) \cap x)
      BY <1>7 DEF Annulled
    <3>2. Nth(t.mat, i) = Nth(s.mat, i)
      BY <1>5
    <3>3. CASE j \in J
      <4>1. Nth(t.mat, j) = Xor(Nth(s.mat, j), Nth(s.mat, i))
        BY <1>5, <3>3
      <4>2. IsFiniteSet(Nth(s.mat, j)) /\ IsFiniteSet(Nth(s.mat, i))
        BY <1>5, NumberedFacts, FS_Subset
      <4>3. Odd(Xor(Nth(s.mat, j), Nth(s.mat, i)) \cap x)
              <=> ~(Odd(Nth(s.mat, j) \cap x) <=> Odd(Nth(s.mat, i) \cap x))
        BY <4>2, OddShared
      <4> QED BY <3>1, <3>2, <4>1, <4>3
    <3>4. CASE j \notin J
      BY <1>5, <3>1, <3>4
    <3> QED BY <3>3, <3>4
  <2>2. Annulled(s.mat, n, x)
    BY <2>1 DEF Annulled
  <2> QED BY <2>2 DEF MadeOf
<1>8. MadeOf(mat0, n, t)
  BY <1>6, <1>7 DEF MadeOf
<1> QED BY <1>2, <1>4, <1>8 DEF t

LEMMA SwapInKeeps ==
  ASSUME NEW n \in Nat, NEW mat0, NEW s \in EliminationStates(n), MadeOf(mat0, n, s),
         NEW i \in Numbered(n), NEW p \in Numbered(n)
  PROVE  /\ SwapIn(s, i, p) \in EliminationStates(n)
         /\ SwapIn(s, i, p).mat = SwapRows(s.mat, i, p)
         /\ SwapIn(s, i, p).ok = s.ok
         /\ MadeOf(mat0, n, SwapIn(s, i, p))
<1> DEFINE t == SwapIn(s, i, p)
           From(j) == IF j = p THEN i ELSE IF j = i THEN p ELSE j
<1>1. s.mat \in Matrices(n) /\ s.inv \in Matrices(n) /\ s.ok \in BOOLEAN
  BY DEF EliminationStates
<1>2. /\ t.mat = SwapRows(s.mat, i, p) /\ t.inv = SwapRows(s.inv, i, p) /\ t.ok = s.ok
      /\ t.mat \in Matrices(n) /\ t.inv \in Matrices(n) => t \in EliminationStates(n)
  BY StepsOnBoth
<1> HIDE DEF t
<1>3. t.mat \in Matrices(n) /\ t.inv \in Matrices(n)
  BY <1>1, <1>2, SwapRowsFacts
<1>4. t \in EliminationStates(n)
  BY <1>2, <1>3
<1>5. \A j \in Numbered(n) : /\ From(j) \in Numbered(n) /\ From(From(j)) = j
                             /\ Nth(t.mat, j) = Nth(s.mat, From(j))
                             /\ Nth(t.inv, j) = Nth(s.inv, From(j))
  BY <1>1, <1>2, SwapRowsFacts
<1> HIDE DEF From
<1>6. \A j \in Numbered(n) : Nth(t.mat, j) = Combination(mat0, n, Nth(t.inv, j))
  BY <1>5 DEF MadeOf
<1>7. ASSUME NEW x, Annulled(t.mat, n, x) PROVE Annulled(mat0, n, x)
  <2>1. ASSUME NEW j \in Numbered(n) PROVE ~Odd(Nth(s.mat, j) \cap x)
    <3>1. From(j) \in Numbered(n) /\ Nth(t.mat, From(j)) = Nth(s.mat, j)
      BY <1>5
    <3> QED BY <1>7, <3>1 DEF Annulled
  <2>2. Annulled(s.mat, n, x)
    BY <2>1 DEF Annulled
  <2> QED BY <2>2 DEF MadeOf
<1>8. MadeOf(mat0, n, t)
  BY <1>6, <1>7 DEF MadeOf
<1> QED BY <1>2, <1>4, <1>8 DEF t

\* Columns up to i are cleared below row i, where they have their one.
Triangle(n, mat, i) ==
  \A j \in Numbered(n) : j < i =>
    /\ j \in Nth(mat, j)
    /\ \A l \in Numbered(n) : l > j => j \notin Nth(mat, l)

\* No row is left that column i could be cleared with.
StuckAt(n, mat, i) ==
  /\ Triangle(n, mat, i)
  /\ \A l \in Numbered(n) : l >= i => i \notin Nth(mat, l)

GoingDown(n, mat0, s, i) ==
  /\ s \in EliminationStates(n)
  /\ MadeOf(mat0, n, s)
  /\ s.ok => Triangle(n, s.mat, i)
  /\ ~s.ok => \E c \in Numbered(n) : StuckAt(n, s.mat, c)

LEMMA SwapTriangle ==
  ASSUME NEW n \in Nat, NEW mat \in Matrices(n), NEW i \in Numbered(n), NEW p \in Numbered(n),
         p >= i, Triangle(n, mat, i)
  PROVE  Triangle(n, SwapRows(mat, i, p), i)
<1> DEFINE new == SwapRows(mat, i, p)
<1>1. \A j \in Numbered(n) :
        Nth(new, j) = IF j = p THEN Nth(mat, i) ELSE IF j = i THEN Nth(mat, p) ELSE Nth(mat, j)
  BY SwapRowsFacts
<1> HIDE DEF new
<1>2. \A j \in Numbered(n) : j \in Nat
  BY NumberedFacts
<1>3. ASSUME NEW j \in Numbered(n), j < i
      PROVE  j \in Nth(new, j) /\ \A l \in Numbered(n) : l > j => j \notin Nth(new, l)
  <2>1. j # i /\ j # p
    BY <1>2, <1>3
  <2>2. j \in Nth(mat, j) /\ \A l \in Numbered(n) : l > j => j \notin Nth(mat, l)
    BY <1>3 DEF Triangle
  <2>3. j \in Nth(new, j)
    BY <1>1, <2>1, <2>2
  <2>4. j \notin Nth(mat, i) /\ j \notin Nth(mat, p)
    BY <1>2, <1>3, <2>2
  <2> QED BY <1>1, <2>2, <2>3, <2>4
<1>4. Triangle(n, new, i)
  BY <1>3 DEF Triangle
<1> QED BY <1>4 DEF new

LEMMA AddTriangle ==
  ASSUME NEW n \in Nat, NEW mat \in Matrices(n), NEW i \in Numbered(n), NEW J,
         Triangle(n, mat, i), i \in Nth(mat, i),
         \A l \in Numbered(n) : l \in J <=> l > i /\ i \in Nth(mat, l)
  PROVE  Triangle(n, AddRow(mat, i, J), i + 1)
<1> DEFINE new == AddRow(mat, i, J)
<1>1. \A j \in Numbered(n) :
        Nth(new, j) = IF j \in J THEN Xor(Nth(mat, j), Nth(mat, i)) ELSE Nth(mat, j)
  BY AddRowFacts
<1> HIDE DEF new
<1>2. \A j \in Numbered(n) : j \in Nat
  BY NumberedFacts
<1>3. ASSUME NEW j \in Numbered(n), j < i + 1
      PROVE  j \in Nth(new, j) /\ \A l \in Numbered(n) : l > j => j \notin Nth(new, l)
  <2>1. j \notin J
    BY <1>2, <1>3
  <2>2. CASE j = i
    <3>1. j \in Nth(new, j)
      BY <1>1, <2>1, <2>2
    <3>2. ASSUME NEW l \in Numbered(n), l > j PROVE j \notin Nth(new, l)
      <4>1. CASE l \in J
        BY <1>1, <2>2, <4>1 DEF Xor, SymDiff
      <4>2. CASE l \notin J
        BY <1>1, <2>2, <3>2, <4>2
      <4> QED BY <4>1, <4>2
    <3> QED BY <3>1, <3>2
  <2>3. CASE j # i
    <3>1. j < i
      BY <1>2, <1>3, <2>3
    <3>2. j \in Nth(mat, j) /\ \A l \in Numbered(n) : l > j => j \notin Nth(mat, l)
      BY <3>1 DEF Triangle
    <3>3. j \in Nth(new, j)
      BY <1>1, <2>1, <3>2
    <3>4. j \notin Nth(mat, i)
      BY <3>1, <3>2
    <3>5. ASSUME NEW l \in Numbered(n), l > j PROVE j \notin Nth(new, l)
      <4>1. j \notin Nth(mat, l)
        BY <3>2, <3>5
      <4> QED BY <1>1, <3>4, <4>1 DEF Xor, SymDiff
    <3> QED BY <3>3, <3>5
  <2> QED BY <2>2, <2>3
<1>4. Triangle(n, new, i + 1)
  BY <1>3 DEF Triangle
<1> QED BY <1>4 DEF new

LEMMA EliminateKeeps ==
  ASSUME NEW n \in Nat, NEW mat0, NEW s, NEW i \in Numbered(n), GoingDown(n, mat0, s, i)
  PROVE  GoingDown(n, mat0, Eliminate(s, i), i + 1)
<1> DEFINE pivots == Ones(s.mat, i, i..(Len(s.mat) - 1))
<1>1. /\ s \in EliminationStates(n) /\ MadeOf(mat0, n, s)
      /\ s.mat \in Matrices(n) /\ s.inv \in Matrices(n) /\ s.ok \in BOOLEAN
  BY DEF GoingDown, EliminationStates
<1>2. Len(s.mat) = n
  BY <1>1, MatrixFacts
<1>3. \A j \in Numbered(n) : j \in Nat
  BY NumberedFacts
<1>4. \A j : j \in pivots <=> j \in Numbered(n) /\ j >= i /\ i \in Nth(s.mat, j)
  <2>1. \A j : j \in i..(n - 1) <=> j \in Numbered(n) /\ j >= i
    BY <1>3 DEF Numbered
  <2> QED BY <1>2, <2>1 DEF Ones
<1> HIDE DEF pivots
<1>5. CASE ~s.ok \/ pivots = {}
  <2> DEFINE t == [s EXCEPT !.ok = FALSE]
  <2>1. t \in EliminationStates(n) /\ t.mat = s.mat /\ t.inv = s.inv /\ t.ok = FALSE
    BY <1>1 DEF EliminationStates
  <2>2. Eliminate(s, i) = t
    BY <1>5 DEF Eliminate, pivots
  <2> HIDE DEF t
  <2>3. MadeOf(mat0, n, t)
    BY <1>1, <2>1 DEF MadeOf
  <2>4. \E c \in Numbered(n) : StuckAt(n, t.mat, c)
    <3>1. CASE ~s.ok
      BY <2>1, <3>1 DEF GoingDown
    <3>2. CASE s.ok
      <4>1. Triangle(n, s.mat, i)
        BY <3>2 DEF GoingDown
      <4>2. StuckAt(n, t.mat, i)
        BY <1>4, <1>5, <2>1, <3>2, <4>1 DEF StuckAt
      <4> QED BY <4>2
    <3> QED BY <1>1, <3>1, <3>2
  <2> QED BY <2>1, <2>2, <2>3, <2>4 DEF GoingDown
<1>6. CASE s.ok /\ pivots # {}
  <2>1. Triangle(n, s.mat, i)
    BY <1>6 DEF GoingDown
  <2>2. PICK p \in Numbered(n) : p = Min(pivots) /\ p >= i /\ i \in Nth(s.mat, p)
    <3>1. pivots \in SUBSET Nat
      BY <1>3, <1>4
    <3>2. Min(pivots) \in pivots
      BY <1>6, <3>1, MinFacts
    <3> QED BY <1>4, <3>2
  <2> DEFINE t == SwapIn(s, i, p)
  <2>3. /\ t \in EliminationStates(n) /\ t.mat = SwapRows(s.mat, i, p) /\ t.ok = s.ok
        /\ MadeOf(mat0, n, t)
    BY <1>1, SwapInKeeps
  <2>4. Eliminate(s, i) = AddBelow(t, i)
    BY <1>6, <2>2 DEF Eliminate, pivots
  <2> HIDE DEF t
  <2>5. t.mat \in Matrices(n) /\ Len(t.mat) = n
    <3>1. t.mat \in Matrices(n)
      BY <2>3 DEF EliminationStates
    <3> QED BY <3>1, MatrixFacts
  <2>6. Triangle(n, t.mat, i)
    BY <1>1, <2>1, <2>2, <2>3, SwapTriangle
  <2>7. i \in Nth(t.mat, i)
    BY <1>1, <2>2, <2>3, SwapRowsFacts
  <2> DEFINE J == Below(t.mat, i)
  <2>8. \A l : l \in J <=> l \in Numbered(n) /\ l > i /\ i \in Nth(t.mat, l)
    <3>1. \A l : l \in (i + 1)..(n - 1) <=> l \in Numbered(n) /\ l > i
      BY <1>3 DEF Numbered
    <3> QED BY <2>5, <3>1 DEF Below, Ones
  <2>9. AddBelow(t, i) = AddTo(t, i, J)
    BY DEF AddBelow
  <2> HIDE DEF J
  <2>10. i \notin J
    BY <1>3, <2>8
  <2> DEFINE u == AddTo(t, i, J)
  <2>11. /\ u \in EliminationStates(n) /\ u.mat = AddRow(t.mat, i, J) /\ u.ok = t.ok
         /\ MadeOf(mat0, n, u)
    BY <2>3, <2>10, AddToKeeps
  <2> HIDE DEF u
  <2>12. Triangle(n, u.mat, i + 1)
    BY <2>5, <2>6, <2>7, <2>8, <2>11, AddTriangle
  <2>13. GoingDown(n, mat0, u, i + 1)
    BY <1>6, <2>3, <2>11, <2>12 DEF GoingDown
  <2> QED BY <2>4, <2>9, <2>13 DEF u
<1> QED BY <1>1, <1>5, <1>6

LEMMA StartDown ==
  ASSUME NEW n \in Nat, NEW mat \in Matrices(n)
  PROVE  GoingDown(n, mat, [mat |-> mat, inv |-> Identity(n), ok |-> TRUE], 0)
<1> DEFINE one == Identity(n)
           s == [mat |-> mat, inv |-> one, ok |-> TRUE]
<1>1. one = [j \in 1..n |-> {j - 1}]
  BY DEF Identity, Tabulate
<1>2. \A j \in 1..n : j - 1 \in Numbered(n)
  BY NumberedFacts
<1> HIDE DEF one
<1>3. one \in Matrices(n)
  BY <1>1, <1>2 DEF Matrices
<1>4. s \in EliminationStates(n)
  BY <1>3 DEF EliminationStates
<1>5. ASSUME NEW j \in Numbered(n) PROVE Nth(mat, j) = Combination(mat, n, Nth(one, j))
  <2>1. j + 1 \in 1..n /\ (j + 1) - 1 = j
    BY NumberedFacts
  <2>2. Nth(one, j) = {j}
    BY <1>1, <2>1 DEF Nth
  <2> QED BY <2>2, SumOver DEF Combination
<1>6. MadeOf(mat, n, s)
  BY <1>5 DEF MadeOf
<1>7. Triangle(n, mat, 0)
  BY NumberedFacts DEF Triangle
<1>8. GoingDown(n, mat, s, 0)
  BY <1>4, <1>6, <1>7 DEF GoingDown
<1> QED BY <1>8 DEF one

LEMMA UpperTriangularRight ==
  ASSUME NEW n \in Nat, NEW mat \in Matrices(n)
  PROVE  GoingDown(n, mat, UpperTriangular(mat), n)
<1> DEFINE first == [mat |-> mat, inv |-> Identity(n), ok |-> TRUE]
           Q == EliminationStates(n)
           body == [a \in Q \X (0..(n - 1)) |-> Eliminate(a[1], a[2])]
           F(f) == [j \in 0..n |-> IF j = 0 THEN first ELSE Eliminate(f[j - 1], j - 1)]
           pass == CHOOSE f : f = F(f)
           P == [i \in 0..n |-> {s \in Q : GoingDown(n, mat, s, i)}]
<1>1. Len(mat) = n
  BY MatrixFacts
<1>2. first \in P[0]
  <2>1. GoingDown(n, mat, first, 0)
    BY StartDown
  <2> HIDE DEF first
  <2> QED BY <2>1 DEF GoingDown
<1> HIDE DEF first
<1>3. ASSUME NEW i \in 0..(n - 1), NEW s \in P[i]
      PROVE  /\ body[<<s, i>>] \in P[i + 1]
             /\ body[<<s, i>>] = Eliminate(s, i)
  <2>1. s \in Q /\ GoingDown(n, mat, s, i) /\ i \in Numbered(n)
    BY DEF Numbered
  <2>2. GoingDown(n, mat, Eliminate(s, i), i + 1) /\ i + 1 \in 0..n
    BY <2>1, EliminateKeeps
  <2>3. Eliminate(s, i) \in Q
    BY <2>2 DEF GoingDown
  <2>4. body[<<s, i>>] = Eliminate(s, i)
    BY <2>1
  <2> HIDE DEF Q, body
  <2> QED BY <2>2, <2>3, <2>4
<1>4. PICK f : f = [j \in 0..n |-> f[j]] /\ Passes(f, first, body, n) /\ \A i \in 0..n : f[i] \in P[i]
  <2> HIDE DEF P, body
  <2> QED BY <1>2, <1>3, PassesHold
<1> HIDE DEF P, body
<1>5. f = F(f)
  <2>1. ASSUME NEW j \in 0..n PROVE f[j] = F(f)[j]
    <3>1. j # 0 => j - 1 \in 0..(n - 1) /\ j - 1 \in 0..n /\ (j - 1) + 1 = j
      OBVIOUS
    <3> QED BY <1>3, <1>4, <3>1 DEF Passes
  <2> QED BY <1>4, <2>1
<1>6. pass = F(pass)
  BY <1>5
<1>7. UpperTriangular(mat) = pass[n]
  BY <1>1 DEF UpperTriangular, Loop, first
<1> HIDE DEF pass
<1> DEFINE R == {i \in 0..n : pass[i] \in P[i]}
<1>8. 0 \in R
  BY <1>2, <1>6
<1>9. ASSUME NEW i \in 0..(n - 1), i \in R PROVE i + 1 \in R
  <2>1. pass[i + 1] = Eliminate(pass[i], i)
    <3>1. i + 1 \in 0..n /\ i + 1 # 0 /\ (i + 1) - 1 = i
      OBVIOUS
    <3> QED BY <1>6, <3>1
  <2>2. pass[i] \in P[i] /\ i + 1 \in 0..n
    BY <1>9
  <2> QED BY <1>3, <2>1, <2>2
<1> HIDE DEF R
<1>10. n \in R
  BY <1>8, <1>9, PassByPass
<1> QED BY <1>7, <1>10 DEF R, P

\* Where no row is left to clear column c with, a set of columns up to c is annulled.
LEMMA StuckAnnuls ==
  ASSUME NEW n \in Nat, NEW mat \in Matrices(n), NEW c \in Numbered(n), StuckAt(n, mat, c)
  PROVE  \E x \in SUBSET Numbered(n) : x # {} /\ Annulled(mat, n, x)
<1> DEFINE Good(x, t) == \A j \in Numbered(n) : j >= t => ~Odd(Nth(mat, j) \cap x)
           P == {i \in 0..c : \E x \in SUBSET ((c - i)..c) : c \in x /\ Good(x, c - i)}
<1>1. c \in Nat /\ c < n /\ \A j \in Numbered(n) : j \in Nat
  BY NumberedFacts
<1>2. \A j \in Numbered(n) : Nth(mat, j) \in SUBSET Numbered(n)
  BY MatrixFacts
<1>3. Triangle(n, mat, c) /\ \A l \in Numbered(n) : l >= c => c \notin Nth(mat, l)
  BY DEF StuckAt
<1>4. 0 \in P
  <2>1. ASSUME NEW j \in Numbered(n), j >= c PROVE ~Odd(Nth(mat, j) \cap {c})
    <3>1. Nth(mat, j) \cap {c} = {}
      BY <1>3, <2>1
    <3> QED BY <3>1, OddSmall
  <2>2. {c} \in SUBSET ((c - 0)..c) /\ c \in {c} /\ c - 0 = c
    BY <1>1
  <2>3. Good({c}, c - 0)
    BY <2>1, <2>2
  <2> HIDE DEF Good
  <2> QED BY <1>1, <2>2, <2>3
<1>5. ASSUME NEW i \in 0..(c - 1), i \in P PROVE i + 1 \in P
  <2>1. PICK x \in SUBSET ((c - i)..c) : c \in x /\ Good(x, c - i)
    BY <1>5
  <2> DEFINE t == c - (i + 1)
  <2>2. /\ t \in Numbered(n) /\ t < c /\ t + 1 = c - i /\ t \notin x /\ t # c
        /\ x \in SUBSET (t..c) /\ {t} \cup x \in SUBSET (t..c) /\ i + 1 \in 0..c
    BY <1>1 DEF Numbered
  <2> HIDE DEF t
  <2>3. t \in Nth(mat, t) /\ \A l \in Numbered(n) : l > t => t \notin Nth(mat, l)
    BY <1>3, <2>2 DEF Triangle
  <2>4. \A j \in Numbered(n) : j > t => ~Odd(Nth(mat, j) \cap x)
    BY <1>1, <2>1, <2>2
  <2>5. CASE ~Odd(Nth(mat, t) \cap x)
    <3>1. Good(x, t)
      BY <1>1, <2>2, <2>4, <2>5
    <3> HIDE DEF Good
    <3> QED BY <2>1, <2>2, <3>1 DEF t
  <2>6. CASE Odd(Nth(mat, t) \cap x)
    <3> DEFINE y == {t} \cup x
    <3>1. ASSUME NEW j \in Numbered(n), j > t PROVE ~Odd(Nth(mat, j) \cap y)
      <4>1. Nth(mat, j) \cap y = Nth(mat, j) \cap x
        BY <2>3, <3>1
      <4> QED BY <2>4, <3>1, <4>1
    <3>2. ~Odd(Nth(mat, t) \cap y)
      <4> DEFINE A == Nth(mat, t) \cap x
      <4>1. Nth(mat, t) \cap y = Xor(A, {t})
        BY <2>2, <2>3 DEF Xor, SymDiff
      <4>2. IsFiniteSet(A) /\ IsFiniteSet({t})
        BY <1>2, <2>2, NumberedFacts, FS_Subset, FS_Singleton
      <4>3. Odd({t})
        BY OddSmall
      <4>4. Odd(A)
        BY <2>6
      <4> HIDE DEF A
      <4> QED BY <4>1, <4>2, <4>3, <4>4, OddXor
    <3>3. Good(y, t)
      <4>1. \A j \in Numbered(n) : j >= t => j > t \/ j = t
        BY <1>1, <2>2
      <4> HIDE DEF y
      <4> QED BY <3>1, <3>2, <4>1
    <3>4. y \in SUBSET (t..c) /\ c \in y
      BY <2>1, <2>2
    <3> HIDE DEF Good, y
    <3> QED BY <2>2, <3>3, <3>4 DEF t
  <2> QED BY <2>5, <2>6
<1> HIDE DEF P
<1>6. c \in P
  BY <1>1, <1>4, <1>5, PassByPass
<1>7. PICK x \in SUBSET ((c - c)..c) : c \in x /\ Good(x, c - c)
  BY <1>6 DEF P
<1>8. x \in SUBSET Numbered(n) /\ x # {}
  BY <1>1, <1>7 DEF Numbered
<1>9. Annulled(mat, n, x)
  BY <1>1, <1>7 DEF Annulled
<1> QED BY <1>8, <1>9

\* On the way up the columns from the last one are left with one row each.
UnitFrom(n, mat, i) ==
  \A j \in Numbered(n) : j >= i => \A l \in Numbered(n) : j \in Nth(mat, l) <=> l = j

GoingUp(n, mat0, s, i) ==
  /\ s \in EliminationStates(n)
  /\ MadeOf(mat0, n, s)
  /\ s.ok
  /\ Triangle(n, s.mat, n)
  /\ UnitFrom(n, s.mat, n - i)

LEMMA BackKeeps ==
  ASSUME NEW n \in Nat, NEW mat0, NEW s, NEW i \in Numbered(n), GoingUp(n, mat0, s, i)
  PROVE  GoingUp(n, mat0, AddTo(s, n - 1 - i, Above(s.mat, n - 1 - i)), i + 1)
<1>1. /\ s \in EliminationStates(n) /\ MadeOf(mat0, n, s) /\ s.ok
      /\ s.mat \in Matrices(n)
      /\ Triangle(n, s.mat, n) /\ UnitFrom(n, s.mat, n - i)
  BY DEF GoingUp, EliminationStates
<1>2. \A j \in Numbered(n) : j \in Nat /\ j < n
  BY NumberedFacts
<1>3. \A j \in Numbered(n) : Nth(s.mat, j) \in SUBSET Numbered(n)
  BY <1>1, MatrixFacts
<1>4. PICK r \in Numbered(n) : r = n - 1 - i
  BY DEF Numbered
<1> DEFINE J == Above(s.mat, r)
           t == AddTo(s, r, J)
<1>5. \A l : l \in J <=> l \in Numbered(n) /\ l < r /\ r \in Nth(s.mat, l)
  <2>1. \A l : l \in 0..(r - 1) <=> l \in Numbered(n) /\ l < r
    BY <1>2 DEF Numbered
  <2> QED BY <2>1 DEF Above, Ones
<1> HIDE DEF J
<1>6. r \notin J
  BY <1>2, <1>5
<1>7. /\ t \in EliminationStates(n) /\ t.mat = AddRow(s.mat, r, J) /\ t.ok = s.ok
      /\ MadeOf(mat0, n, t)
  BY <1>1, <1>6, AddToKeeps
<1> HIDE DEF t
<1>8. Nth(s.mat, r) = {r}
  <2>1. r \in Nth(s.mat, r)
    BY <1>1, <1>2 DEF Triangle
  <2>2. ASSUME NEW j \in Nth(s.mat, r), j # r PROVE FALSE
    <3>1. j \in Numbered(n)
      BY <1>3
    <3>2. CASE j < r
      BY <1>1, <1>2, <3>1, <3>2 DEF Triangle
    <3>3. CASE j > r
      <4>1. j >= n - i
        BY <1>2, <1>4, <3>1, <3>3
      <4> QED BY <1>1, <2>2, <3>1, <4>1 DEF UnitFrom
    <3> QED BY <1>2, <2>2, <3>1, <3>2, <3>3
  <2> QED BY <2>1, <2>2
<1>9. \A j \in Numbered(n) :
        Nth(t.mat, j) = IF j \in J THEN Nth(s.mat, j) \ {r} ELSE Nth(s.mat, j)
  <2>1. \A j \in Numbered(n) :
          Nth(t.mat, j) = IF j \in J THEN Xor(Nth(s.mat, j), Nth(s.mat, r)) ELSE Nth(s.mat, j)
    BY <1>1, <1>7, AddRowFacts
  <2>2. \A j \in J : Xor(Nth(s.mat, j), {r}) = Nth(s.mat, j) \ {r}
    BY <1>5 DEF Xor, SymDiff
  <2> QED BY <1>8, <2>1, <2>2
<1>10. Triangle(n, t.mat, n)
  <2>1. ASSUME NEW j \in Numbered(n), j < n PROVE j \in Nth(t.mat, j)
    <3>1. j \in Nth(s.mat, j)
      BY <1>1, <2>1 DEF Triangle
    <3>2. j \in J => j # r
      BY <1>6
    <3> QED BY <1>9, <3>1, <3>2
  <2>2. ASSUME NEW j \in Numbered(n), j < n, NEW l \in Numbered(n), l > j
        PROVE  j \notin Nth(t.mat, l)
    <3>1. j \notin Nth(s.mat, l)
      BY <1>1, <2>2 DEF Triangle
    <3> QED BY <1>9, <3>1
  <2> QED BY <2>1, <2>2 DEF Triangle
<1>11. UnitFrom(n, t.mat, n - (i + 1))
  <2>1. ASSUME NEW j \in Numbered(n), j >= n - (i + 1), NEW l \in Numbered(n)
        PROVE  j \in Nth(t.mat, l) <=> l = j
    <3>1. CASE j = r
      <4>1. l = r => j \in Nth(t.mat, l)
        BY <1>6, <1>8, <1>9, <3>1
      <4>2. l > r => j \notin Nth(t.mat, l)
        BY <1>2, <1>10, <3>1 DEF Triangle
      <4>3. l < r => j \notin Nth(t.mat, l)
        BY <1>5, <1>9, <3>1
      <4> QED BY <1>2, <3>1, <4>1, <4>2, <4>3
    <3>2. CASE j # r
      <4>1. j >= n - i
        BY <1>2, <1>4, <2>1, <3>2
      <4>2. j \in Nth(s.mat, l) <=> l = j
        BY <1>1, <4>1 DEF UnitFrom
      <4> QED BY <1>9, <3>2, <4>2
    <3> QED BY <3>1, <3>2
  <2> QED BY <2>1 DEF UnitFrom
<1>12. GoingUp(n, mat0, t, i + 1)
  BY <1>1, <1>7, <1>10, <1>11 DEF GoingUp
<1> QED BY <1>4, <1>12 DEF t, J

LEMMA BackRight ==
  ASSUME NEW n \in Nat, NEW mat0, NEW upper, GoingDown(n, mat0, upper, n)
  PROVE  /\ BackOnBoth(upper, n).inv \in Matrices(n)
         /\ BackOnBoth(upper, n).ok = upper.ok
         /\ upper.ok => \A j \in Numbered(n) :
                          Combination(mat0, n, Nth(BackOnBoth(upper, n).inv, j)) = {j}
<1>1. upper \in EliminationStates(n) /\ upper.inv \in Matrices(n) /\ upper.ok \in BOOLEAN
  BY DEF GoingDown, EliminationStates
<1>2. CASE ~upper.ok
  <2>1. BackOnBoth(upper, n) = upper
    BY <1>2 DEF BackOnBoth
  <2> QED BY <1>1, <1>2, <2>1
<1>3. CASE upper.ok
  <2> DEFINE Back(s, i) == AddTo(s, n - 1 - i, Above(s.mat, n - 1 - i))
             Q == EliminationStates(n)
             body == [a \in Q \X (0..(n - 1)) |-> Back(a[1], a[2])]
             F(f) == [j \in 0..n |-> IF j = 0 THEN upper ELSE Back(f[j - 1], j - 1)]
             pass == CHOOSE f : f = F(f)
             P == [i \in 0..n |-> {s \in Q : GoingUp(n, mat0, s, i)}]
  <2>1. upper \in P[0]
    <3>1. UnitFrom(n, upper.mat, n - 0)
      BY NumberedFacts DEF UnitFrom
    <3>2. GoingUp(n, mat0, upper, 0)
      BY <1>3, <3>1 DEF GoingUp, GoingDown
    <3> QED BY <1>1, <3>2
  <2>2. ASSUME NEW i \in 0..(n - 1), NEW s \in P[i]
        PROVE  /\ body[<<s, i>>] \in P[i + 1]
               /\ body[<<s, i>>] = Back(s, i)
    <3>1. s \in Q /\ GoingUp(n, mat0, s, i) /\ i \in Numbered(n)
      BY DEF Numbered
    <3>2. GoingUp(n, mat0, Back(s, i), i + 1) /\ i + 1 \in 0..n
      BY <3>1, BackKeeps
    <3>3. Back(s, i) \in Q
      BY <3>2 DEF GoingUp
    <3>4. body[<<s, i>>] = Back(s, i)
      BY <3>1
    <3> HIDE DEF Q, body, Back
    <3> QED BY <3>2, <3>3, <3>4
  <2>3. PICK f : f = [j \in 0..n |-> f[j]] /\ Passes(f, upper, body, n) /\ \A i \in 0..n : f[i] \in P[i]
    <3> HIDE DEF P, body
    <3> QED BY <2>1, <2>2, PassesHold
  <2> HIDE DEF P, body
  <2>4. f = F(f)
    <3>1. ASSUME NEW j \in 0..n PROVE f[j] = F(f)[j]
      <4>1. j # 0 => j - 1 \in 0..(n - 1) /\ j - 1 \in 0..n /\ (j - 1) + 1 = j
        OBVIOUS
      <4> HIDE DEF Back
      <4> QED BY <2>2, <2>3, <4>1 DEF Passes
    <3> QED BY <2>3, <3>1
  <2>5. pass = F(pass)
    BY <2>4
  <2>6. BackOnBoth(upper, n) = pass[n]
    BY <1>3 DEF BackOnBoth, Loop
  <2> HIDE DEF pass
  <2> DEFINE R == {i \in 0..n : pass[i] \in P[i]}
  <2>7. 0 \in R
    BY <2>1, <2>5
  <2>8. ASSUME NEW i \in 0..(n - 1), i \in R PROVE i + 1 \in R
    <3>1. pass[i + 1] = Back(pass[i], i)
      <4>1. i + 1 \in 0..n /\ i + 1 # 0 /\ (i + 1) - 1 = i
        OBVIOUS
      <4> HIDE DEF Back
      <4> QED BY <2>5, <4>1
    <3>2. pass[i] \in P[i] /\ i + 1 \in 0..n
      BY <2>8
    <3> HIDE DEF Back
    <3> QED BY <2>2, <3>1, <3>2
  <2> HIDE DEF R
  <2>9. n \in R
    BY <2>7, <2>8, PassByPass
  <2> DEFINE s == pass[n]
  <2>10. GoingUp(n, mat0, s, n)
    BY <2>9 DEF R, P
  <2> HIDE DEF s
  <2>11. s.mat \in Matrices(n) /\ s.inv \in Matrices(n) /\ s.ok
    BY <2>10 DEF GoingUp, EliminationStates
  <2>12. ASSUME NEW j \in Numbered(n) PROVE Combination(mat0, n, Nth(s.inv, j)) = {j}
    <3>1. Nth(s.mat, j) = Combination(mat0, n, Nth(s.inv, j))
      BY <2>10 DEF GoingUp, MadeOf
    <3>2. Nth(s.mat, j) \in SUBSET Numbered(n)
      BY <2>11, MatrixFacts
    <3>3. \A c \in Numbered(n) : c \in Nth(s.mat, j) <=> j = c
      <4>1. \A c \in Numbered(n) : c >= n - n
        BY NumberedFacts
      <4> QED BY <2>10, <4>1 DEF GoingUp, UnitFrom
    <3>4. Nth(s.mat, j) = {j}
      BY <3>2, <3>3
    <3> QED BY <3>1, <3>4
  <2> QED BY <1>3, <2>6, <2>11, <2>12 DEF s
<1> QED BY <1>1, <1>2, <1>3

LEMMA EvenSum ==
  ASSUME NEW S, IsFiniteSet(S), NEW F, NEW x,
         \A i \in S : IsFiniteSet(F[i]) /\ ~Odd(F[i] \cap x)
  PROVE  ~Odd(Sum(F, S) \cap x)
<1> DEFINE P == {T \in SUBSET S : IsFiniteSet(Sum(F, T)) /\ ~Odd(Sum(F, T) \cap x)}
<1>1. {} \in P
  <2>1. Sum(F, {}) = {} /\ {} \cap x = {}
    BY SumOver
  <2> QED BY <2>1, FS_EmptySet, OddSmall
<1>2. ASSUME NEW T \in SUBSET S, NEW i \in S \ T, T \in P PROVE T \cup {i} \in P
  <2>1. IsFiniteSet(T)
    BY FS_Subset
  <2>2. Sum(F, T \cup {i}) = Xor(Sum(F, T), F[i])
    BY <2>1, SumAdd
  <2>3. IsFiniteSet(Xor(Sum(F, T), F[i]))
    BY <1>2, OddXor
  <2>4. ~Odd(Xor(Sum(F, T), F[i]) \cap x)
    <3>1. IsFiniteSet(Sum(F, T)) /\ IsFiniteSet(F[i]) /\ ~Odd(Sum(F, T) \cap x) /\ ~Odd(F[i] \cap x)
      BY <1>2
    <3> QED BY <3>1, OddShared
  <2> QED BY <2>2, <2>3, <2>4
<1> HIDE DEF P
<1>3. S \in P
  BY <1>1, <1>2, SetByElement
<1> QED BY <1>3 DEF P

\* Elimination finds the inverse, or there are columns that no row tells apart.
LEMMA InvertRight ==
  ASSUME NEW n \in Nat, NEW mat \in Matrices(n)
  PROVE  /\ jerasure_invert_bitmatrix(mat).inv \in Matrices(n)
         /\ jerasure_invert_bitmatrix(mat).ok <=> jerasure_invertible_bitmatrix(mat)
         /\ jerasure_invertible_bitmatrix(mat) =>
              \A j \in Numbered(n) :
                Combination(mat, n, Nth(jerasure_invert_bitmatrix(mat).inv, j)) = {j}
         /\ jerasure_invertible_bitmatrix(mat) <=>
              \A x \in SUBSET Numbered(n) : Annulled(mat, n, x) => x = {}
<1> DEFINE upper == UpperTriangular(mat)
           both == jerasure_invert_bitmatrix(mat)
<1>1. GoingDown(n, mat, upper, n)
  BY UpperTriangularRight
<1>2. both = BackOnBoth(upper, n)
  BY MatrixFacts DEF jerasure_invert_bitmatrix
<1>3. jerasure_invertible_bitmatrix(mat) = upper.ok
  BY DEF jerasure_invertible_bitmatrix
<1> HIDE DEF upper, both
<1>4. /\ both.inv \in Matrices(n) /\ both.ok = upper.ok
      /\ upper.ok => \A j \in Numbered(n) : Combination(mat, n, Nth(both.inv, j)) = {j}
  BY <1>1, <1>2, BackRight
<1>5. ASSUME upper.ok, NEW x \in SUBSET Numbered(n), Annulled(mat, n, x) PROVE x = {}
  <2>1. ASSUME NEW j \in x PROVE FALSE
    <3>1. j \in Numbered(n) /\ Combination(mat, n, Nth(both.inv, j)) = {j}
      BY <1>4, <1>5
    <3>2. Nth(both.inv, j) \in SUBSET Numbered(n)
      BY <1>4, <3>1, MatrixFacts
    <3>3. IsFiniteSet(Nth(both.inv, j))
      BY <3>2, NumberedFacts, FS_Subset
    <3> DEFINE F == [i \in Numbered(n) |-> Nth(mat, i)]
    <3>4. \A i \in Nth(both.inv, j) : IsFiniteSet(F[i]) /\ ~Odd(F[i] \cap x)
      <4>1. \A i \in Numbered(n) : Nth(mat, i) \in SUBSET Numbered(n)
        BY MatrixFacts
      <4>2. \A i \in Numbered(n) : IsFiniteSet(Nth(mat, i))
        BY <4>1, NumberedFacts, FS_Subset
      <4> QED BY <1>5, <3>2, <4>2 DEF Annulled
    <3> HIDE DEF F
    <3>5. ~Odd(Sum(F, Nth(both.inv, j)) \cap x)
      BY <3>3, <3>4, EvenSum
    <3>6. {j} \cap x = {j}
      OBVIOUS
    <3> QED BY <3>1, <3>5, <3>6, OddSmall DEF Combination, F
  <2> QED BY <2>1
<1>6. ASSUME ~upper.ok PROVE \E x \in SUBSET Numbered(n) : Annulled(mat, n, x) /\ x # {}
  <2>1. PICK c \in Numbered(n) : StuckAt(n, upper.mat, c)
    BY <1>1, <1>6 DEF GoingDown
  <2>2. upper.mat \in Matrices(n) /\ MadeOf(mat, n, upper)
    BY <1>1 DEF GoingDown, EliminationStates
  <2>3. PICK x \in SUBSET Numbered(n) : x # {} /\ Annulled(upper.mat, n, x)
    BY <2>1, <2>2, StuckAnnuls
  <2>4. Annulled(mat, n, x)
    BY <2>2, <2>3 DEF MadeOf
  <2> QED BY <2>3, <2>4
<1>7. upper.ok \in BOOLEAN
  BY <1>1 DEF GoingDown, EliminationStates
<1> QED BY <1>3, <1>4, <1>5, <1>6, <1>7 DEF both
-----------------------------------------------------------------------------
(***************************************************************************)
(* The drives that a lost one is made from.  Decoding by dot products and  *)
(* decoding by a schedule name the same ones, in different order.          *)
(***************************************************************************)
LEMMA AscendsRank ==
  ASSUME NEW a, NEW T, Ascends(a, T), NEW j \in 1..Len(a)
  PROVE  Cardinality({t \in T : t < a[j]}) = j - 1
<1> DEFINE B == {t \in T : t < a[j]}
           f == [i \in 1..(j - 1) |-> a[i]]
<1>1. /\ Len(a) \in Nat /\ j \in Nat /\ \A i \in 1..Len(a) : a[i] \in T /\ a[i] \in Nat
      /\ \A i, l \in 1..Len(a) : a[i] = a[l] => i = l
      /\ \A t \in T : \E i \in 1..Len(a) : a[i] = t
  BY AscendsFacts
<1>2. \A i, l \in 1..Len(a) : i < l => a[i] < a[l]
  BY DEF Ascends
<1>3. \A i \in 1..(j - 1) : i \in 1..Len(a) /\ i < j
  BY <1>1
<1>4. f \in [1..(j - 1) -> B]
  BY <1>1, <1>2, <1>3
<1>5. ASSUME NEW t \in B PROVE \E i \in 1..(j - 1) : f[i] = t
  <2>1. PICK i \in 1..Len(a) : a[i] = t
    BY <1>1
  <2>2. a[i] < a[j]
    BY <2>1
  <2>3. i # j /\ ~(j < i)
    <3>1. a[i] \in Nat /\ a[j] \in Nat
      BY <1>1
    <3>2. j < i => a[j] < a[i]
      BY <1>2
    <3> QED BY <2>2, <3>1, <3>2
  <2>4. i \in 1..(j - 1)
    BY <1>1, <2>3
  <2> QED BY <2>1, <2>4
<1>6. \A i, l \in 1..(j - 1) : f[i] = f[l] => i = l
  BY <1>1, <1>3
<1> HIDE DEF B, f
<1>7. f \in Injection(1..(j - 1), B) /\ f \in Surjection(1..(j - 1), B)
  BY <1>4, <1>5, <1>6 DEF Injection, IsInjective, Surjection
<1>8. ExistsBijection(1..(j - 1), B)
  BY <1>7 DEF ExistsBijection, Bijection
<1>9. IsFiniteSet(1..(j - 1)) /\ Cardinality(1..(j - 1)) = j - 1
  <2>1. PICK i \in Nat : i = j - 1
    BY <1>1
  <2>2. IsFiniteSet(1..i) /\ Cardinality(1..i) = i
    BY FS_Interval
  <2> QED BY <2>1, <2>2
<1>10. Cardinality(1..(j - 1)) = Cardinality(B)
  BY <1>8, <1>9, FS_Bijection
<1> QED BY <1>9, <1>10 DEF B

LEMMA WithoutPart ==
  ASSUME NEW S, IsFiniteSet(S), NEW T \in SUBSET S
  PROVE  IsFiniteSet(S \ T) /\ Cardinality(S \ T) = Cardinality(S) - Cardinality(T)
<1>1. S \cap T = T
  OBVIOUS
<1> QED BY <1>1, FS_Difference

LostData(k, erased) == {d \in erased : d < k}
LostCoding(k, erased) == {d \in erased : d >= k}
LeftCoding(k, m, erased) == {d \in k..(k + m - 1) : d \notin erased}
Left(k, m, erased) == 0..(k + m - 1) \ erased
LostBefore(erased, i) == Cardinality({d \in erased : d < i})

LEMMA LossFacts ==
  ASSUME NEW k \in Nat, NEW m \in Nat, NEW erased \in SUBSET (0..(k + m - 1)),
         Cardinality(erased) <= m
  PROVE  /\ Ascends(Ascending(LostData(k, erased), k), LostData(k, erased))
         /\ Ascends(Ascending(LostCoding(k, erased), k + m), LostCoding(k, erased))
         /\ Ascends(Ascending(LeftCoding(k, m, erased), k + m), LeftCoding(k, m, erased))
         /\ Ascends(Ascending(Left(k, m, erased), k + m), Left(k, m, erased))
         /\ Cardinality(LostData(k, erased)) \in Nat /\ Cardinality(LostCoding(k, erased)) \in Nat
         /\ Cardinality(erased) = Cardinality(LostData(k, erased)) + Cardinality(LostCoding(k, erased))
         /\ Cardinality(LeftCoding(k, m, erased)) = m - Cardinality(LostCoding(k, erased))
         /\ Cardinality(Left(k, m, erased)) = k + m - Cardinality(erased)
         /\ Cardinality((0..(k - 1)) \ LostData(k, erased)) = k - Cardinality(LostData(k, erased))
<1> DEFINE lost == LostData(k, erased)
           coding == LostCoding(k, erased)
           spare == LeftCoding(k, m, erased)
           left == Left(k, m, erased)
<1>1. PICK n \in Nat : n = k + m
  OBVIOUS
<1> DEFINE All == 0..(n - 1)
           Data == 0..(k - 1)
           Coding == k..(n - 1)
<1>2. erased \in SUBSET All /\ Data \in SUBSET All /\ Coding = All \ Data
  BY <1>1
<1>3. /\ lost \in SUBSET Data /\ coding \in SUBSET Coding /\ spare \in SUBSET All
      /\ left \in SUBSET All /\ coding \in SUBSET All
      /\ left = All \ erased /\ spare = Coding \ coding
      /\ erased = lost \cup coding /\ lost \cap coding = {}
  <2>1. \A d \in erased : d \in Nat /\ d < n /\ (d < k => d \in Data) /\ (d >= k => d \in Coding)
    BY <1>1, <1>2
  <2> HIDE DEF Data, Coding
  <2>2. lost \in SUBSET Data /\ coding \in SUBSET Coding /\ coding \in SUBSET All
    BY <1>2, <2>1 DEF LostData, LostCoding
  <2>3. spare \in SUBSET All /\ left \in SUBSET All
    BY <1>1 DEF LeftCoding, Left
  <2>4. left = All \ erased
    BY <1>1 DEF Left
  <2>5. spare = Coding \ coding
    BY <1>1 DEF LeftCoding, LostCoding, Coding
  <2>6. \A d \in erased : d < k \/ d >= k
    BY <2>1
  <2>7. \A d \in erased : ~(d < k /\ d >= k)
    BY <2>1
  <2>8. erased = lost \cup coding /\ lost \cap coding = {}
    BY <2>6, <2>7 DEF LostData, LostCoding
  <2> QED BY <1>2, <2>2, <2>3, <2>4, <2>5, <2>8
<1>4. IsFiniteSet(All) /\ Cardinality(All) = n /\ IsFiniteSet(Data) /\ Cardinality(Data) = k
  <2>1. IsFiniteSet(All) /\ Cardinality(All) = n
    BY FirstNumbers
  <2>2. IsFiniteSet(Data) /\ Cardinality(Data) = k
    BY FirstNumbers
  <2> QED BY <2>1, <2>2
<1> HIDE DEF All, Data, Coding, lost, coding, spare, left
<1>5. IsFiniteSet(Coding) /\ Cardinality(Coding) = m
  <2>1. IsFiniteSet(All \ Data) /\ Cardinality(All \ Data) = n - k
    BY <1>2, <1>4, WithoutPart
  <2> QED BY <1>1, <1>2, <2>1
<1>6. IsFiniteSet(erased) /\ IsFiniteSet(lost) /\ IsFiniteSet(coding)
  BY <1>2, <1>3, <1>4, <1>5, FS_Subset
<1>7. Cardinality(lost) \in Nat /\ Cardinality(coding) \in Nat /\ Cardinality(erased) \in Nat
  BY <1>6, FS_CardinalityType
<1>8. Cardinality(erased) = Cardinality(lost) + Cardinality(coding)
  <2>1. Cardinality(lost \cup coding)
          = Cardinality(lost) + Cardinality(coding) - Cardinality(lost \cap coding)
    BY <1>6, FS_Union
  <2>2. Cardinality(lost \cap coding) = 0
    BY <1>3, FS_EmptySet
  <2> QED BY <1>3, <1>7, <2>1, <2>2
<1>9. Cardinality(spare) = m - Cardinality(coding)
  BY <1>3, <1>5, WithoutPart
<1>10. Cardinality(left) = n - Cardinality(erased)
  BY <1>2, <1>3, <1>4, WithoutPart
<1>11. Cardinality(Data \ lost) = k - Cardinality(lost)
  BY <1>3, <1>4, WithoutPart
<1>12. Ascends(Ascending(lost, k), lost)
  BY <1>3, AscendingRight DEF Data
<1>13. Ascends(Ascending(coding, n), coding)
  BY <1>3, AscendingRight DEF All
<1>14. Ascends(Ascending(spare, n), spare)
  BY <1>3, AscendingRight DEF All
<1>15. Ascends(Ascending(left, n), left)
  BY <1>3, AscendingRight DEF All
<1> QED BY <1>1, <1>7, <1>8, <1>9, <1>10, <1>11, <1>12, <1>13, <1>14, <1>15
        DEF lost, coding, spare, left, Data

\* c is a of length n, followed by b of length l.
Joined(c, a, n, b, l) ==
  /\ \A j \in 1..n : c[j] = a[j]
  /\ \A j \in 1..l : c[n + j] = b[j]

LEMMA JoinedNth ==
  ASSUME NEW n \in Nat, NEW l \in Nat, NEW a, NEW b, NEW c, Joined(c, a, n, b, l)
  PROVE  /\ \A i \in 0..(n - 1) : Nth(c, i) = Nth(a, i)
         /\ \A i \in 0..(l - 1) : Nth(c, n + i) = Nth(b, i)
<1>1. ASSUME NEW i \in 0..(n - 1) PROVE Nth(c, i) = Nth(a, i)
  <2>1. i + 1 \in 1..n
    OBVIOUS
  <2> QED BY <2>1 DEF Joined, Nth
<1>2. ASSUME NEW i \in 0..(l - 1) PROVE Nth(c, n + i) = Nth(b, i)
  <2>1. i + 1 \in 1..l /\ n + i + 1 = n + (i + 1)
    OBVIOUS
  <2> QED BY <2>1 DEF Joined, Nth
<1> QED BY <1>1, <1>2

LEMMA AscendsNth ==
  ASSUME NEW a, NEW T, Ascends(a, T)
  PROVE  /\ a \in Seq(Nat) /\ Len(a) = Cardinality(T)
         /\ \A i \in 0..(Len(a) - 1) : /\ Nth(a, i) \in T
                                       /\ Cardinality({t \in T : t < Nth(a, i)}) = i
         /\ \A i, j \in 0..(Len(a) - 1) : Nth(a, i) = Nth(a, j) => i = j
         /\ \A t \in T : \E i \in 0..(Len(a) - 1) : Nth(a, i) = t
<1>1. a \in Seq(Nat) /\ Len(a) = Cardinality(T) /\ Len(a) \in Nat
  BY AscendsFacts DEF Ascends
<1>2. \A i \in 0..(Len(a) - 1) : i + 1 \in 1..Len(a) /\ (i + 1) - 1 = i
  BY <1>1
<1>3. \A i \in 1..Len(a) : i - 1 \in 0..(Len(a) - 1) /\ (i - 1) + 1 = i
  BY <1>1
<1>4. ASSUME NEW i \in 0..(Len(a) - 1)
      PROVE  Nth(a, i) \in T /\ Cardinality({t \in T : t < Nth(a, i)}) = i
  <2>1. a[i + 1] \in T
    BY <1>2, AscendsFacts
  <2>2. Cardinality({t \in T : t < a[i + 1]}) = (i + 1) - 1
    BY <1>2, AscendsRank
  <2> QED BY <1>2, <2>1, <2>2 DEF Nth
<1>5. ASSUME NEW i \in 0..(Len(a) - 1), NEW j \in 0..(Len(a) - 1), Nth(a, i) = Nth(a, j)
      PROVE  i = j
  <2>1. i + 1 = j + 1
    BY <1>2, <1>5, AscendsFacts DEF Nth
  <2> QED BY <2>1
<1>6. ASSUME NEW t \in T PROVE \E i \in 0..(Len(a) - 1) : Nth(a, i) = t
  <2>1. PICK j \in 1..Len(a) : a[j] = t
    BY AscendsFacts
  <2>2. j - 1 \in 0..(Len(a) - 1) /\ Nth(a, j - 1) = t
    BY <1>3, <2>1 DEF Nth
  <2> QED BY <2>2
<1> QED BY <1>1, <1>4, <1>5, <1>6

\* Positions below k have a drive that is left, data drives their own one; the
\* others have the lost data drives, and the lost coding drives after them.
PointersRight(k, m, erased, ids) ==
  LET ddf == Cardinality(LostData(k, erased))
      cdf == Cardinality(LostCoding(k, erased))
  IN  /\ ids \in Seq(Nat) /\ Len(ids) = k + ddf + cdf
      /\ \A i \in 0..(k - 1) :
           /\ Nth(ids, i) \in 0..(k + m - 1) /\ Nth(ids, i) \notin erased
           /\ i \notin erased => Nth(ids, i) = i
           /\ i \in erased => Nth(ids, i) >= k
      /\ \A i \in 0..(ddf - 1) : Nth(ids, k + i) \in LostData(k, erased)
      /\ \A i \in 0..(cdf - 1) : Nth(ids, k + ddf + i) \in LostCoding(k, erased)
      /\ \A i, j \in 0..(Len(ids) - 1) : Nth(ids, i) = Nth(ids, j) => i = j
      /\ \A d \in erased : \E i \in k..(Len(ids) - 1) : Nth(ids, i) = d

SpareFor(k, m, erased, i) == Nth(Ascending(LeftCoding(k, m, erased), k + m), LostBefore(erased, i))

LEMMA SpareRight ==
  ASSUME NEW k \in Nat, NEW m \in Nat, NEW erased \in SUBSET (0..(k + m - 1)),
         Cardinality(erased) <= m
  PROVE  /\ \A i \in LostData(k, erased) :
              /\ LostBefore(erased, i) \in 0..(Cardinality(LostData(k, erased)) - 1)
              /\ SpareFor(k, m, erased, i) \in LeftCoding(k, m, erased)
              /\ Cardinality({t \in LeftCoding(k, m, erased) : t < SpareFor(k, m, erased, i)})
                   = LostBefore(erased, i)
         /\ \A i, j \in LostData(k, erased) :
              SpareFor(k, m, erased, i) = SpareFor(k, m, erased, j) => i = j
         /\ \A j \in 0..(Cardinality(LostData(k, erased)) - 1) :
              \E i \in LostData(k, erased) : LostBefore(erased, i) = j
<1> DEFINE lost == LostData(k, erased)
           left == LeftCoding(k, m, erased)
           a == Ascending(lost, k)
           spare == Ascending(left, k + m)
           ddf == Cardinality(lost)
<1>1. /\ Ascends(a, lost) /\ Ascends(spare, left) /\ ddf \in Nat
      /\ Cardinality(left) \in Int /\ ddf <= Cardinality(left)
  <2>1. /\ Ascends(a, lost) /\ Ascends(spare, left) /\ ddf \in Nat
        /\ Cardinality(LostCoding(k, erased)) \in Nat
        /\ Cardinality(erased) = ddf + Cardinality(LostCoding(k, erased))
        /\ Cardinality(left) = m - Cardinality(LostCoding(k, erased))
    BY LossFacts
  <2> QED BY <2>1
<1>2. \A i \in lost : {d \in erased : d < i} = {d \in lost : d < i}
  <2>1. \A i \in lost, d \in erased : i \in Nat /\ d \in Nat /\ i < k /\ (d < i => d < k)
    BY DEF LostData
  <2> QED BY <2>1 DEF LostData
<1>3. \A i \in 0..(Len(a) - 1) : Nth(a, i) \in lost /\ Cardinality({t \in lost : t < Nth(a, i)}) = i
  BY <1>1, AscendsNth
<1>4. Len(a) = ddf /\ \A t \in lost : \E i \in 0..(Len(a) - 1) : Nth(a, i) = t
  BY <1>1, AscendsNth
<1>5. /\ Len(spare) = Cardinality(left)
      /\ \A i \in 0..(Len(spare) - 1) :
           Nth(spare, i) \in left /\ Cardinality({t \in left : t < Nth(spare, i)}) = i
  BY <1>1, AscendsNth
<1> HIDE DEF a, spare, left, lost, ddf
<1>6. \A j \in 0..(ddf - 1) : Nth(a, j) \in lost /\ LostBefore(erased, Nth(a, j)) = j
  BY <1>2, <1>3, <1>4 DEF LostBefore
<1>7. \A i \in lost : \E j \in 0..(ddf - 1) : Nth(a, j) = i /\ LostBefore(erased, i) = j
  BY <1>4, <1>6
<1>8. \A j \in 0..(ddf - 1) : j \in 0..(Len(spare) - 1)
  BY <1>1, <1>5
<1>9. \A i \in lost : SpareFor(k, m, erased, i) = Nth(spare, LostBefore(erased, i))
  BY DEF SpareFor, spare, left
<1>10. ASSUME NEW i \in lost
       PROVE  /\ LostBefore(erased, i) \in 0..(ddf - 1)
              /\ SpareFor(k, m, erased, i) \in left
              /\ Cardinality({t \in left : t < SpareFor(k, m, erased, i)}) = LostBefore(erased, i)
  BY <1>5, <1>7, <1>8, <1>9
<1>11. ASSUME NEW i \in lost, NEW j \in lost,
              SpareFor(k, m, erased, i) = SpareFor(k, m, erased, j)
       PROVE  i = j
  <2>1. LostBefore(erased, i) = LostBefore(erased, j)
    BY <1>10, <1>11
  <2> QED BY <1>7, <2>1
<1>12. \A j \in 0..(ddf - 1) : \E i \in lost : LostBefore(erased, i) = j
  BY <1>6
<1> QED BY <1>10, <1>11, <1>12 DEF lost, left, ddf

LEMMA RowIdsRight ==
  ASSUME NEW k \in Nat, NEW m \in Nat, NEW erased \in SUBSET (0..(k + m - 1)),
         Cardinality(erased) <= m
  PROVE  /\ PointersRight(k, m, erased, row_ids(k, m, erased))
         /\ \A i \in 0..(k - 1) : i \in erased =>
              Nth(row_ids(k, m, erased), i) = SpareFor(k, m, erased, i)
<1> DEFINE lost == LostData(k, erased)
           coding == LostCoding(k, erased)
           left == LeftCoding(k, m, erased)
           a == Ascending(lost, k)
           b == Ascending(coding, k + m)
           ddf == Cardinality(lost)
           cdf == Cardinality(coding)
           Row(i) == IF i \notin erased THEN i ELSE SpareFor(k, m, erased, i)
           first == Tabulate(k, Row)
           ids == row_ids(k, m, erased)
<1>1. ids = (first \o a) \o b
  BY DEF row_ids, SpareFor, LostBefore, LostData, LostCoding, LeftCoding
<1>2. /\ Ascends(a, lost) /\ Ascends(b, coding) /\ ddf \in Nat /\ cdf \in Nat
  BY LossFacts
<1>3. \A i \in lost : SpareFor(k, m, erased, i) \in left
  BY SpareRight
<1>4. \A i, j \in lost : SpareFor(k, m, erased, i) = SpareFor(k, m, erased, j) => i = j
  BY SpareRight
<1>5. /\ \A i \in 0..(k - 1) : i \in erased <=> i \in lost
      /\ \A d \in left : d \in 0..(k + m - 1) /\ d \notin erased /\ d >= k /\ d \in Nat
      /\ \A d \in lost : d \in erased /\ d < k /\ d \in Nat
      /\ \A d \in coding : d \in erased /\ d >= k /\ d \in Nat
      /\ \A d \in erased : d \in lost \/ d \in coding
      /\ \A i \in 0..(k - 1) : i \in 0..(k + m - 1) /\ i \in Nat /\ i < k
  BY DEF LostData, LostCoding, LeftCoding
<1>6. /\ a \in Seq(Nat) /\ Len(a) = ddf
      /\ \A i \in 0..(ddf - 1) : Nth(a, i) \in lost
      /\ \A i, j \in 0..(ddf - 1) : Nth(a, i) = Nth(a, j) => i = j
      /\ \A t \in lost : \E i \in 0..(ddf - 1) : Nth(a, i) = t
  BY <1>2, AscendsNth
<1>7. /\ b \in Seq(Nat) /\ Len(b) = cdf
      /\ \A i \in 0..(cdf - 1) : Nth(b, i) \in coding
      /\ \A i, j \in 0..(cdf - 1) : Nth(b, i) = Nth(b, j) => i = j
      /\ \A t \in coding : \E i \in 0..(cdf - 1) : Nth(b, i) = t
  BY <1>2, AscendsNth
<1>8. /\ \A i \in 0..(k - 1) : i \notin erased => Row(i) = i
      /\ \A i \in 0..(k - 1) : i \in erased => Row(i) = SpareFor(k, m, erased, i)
  OBVIOUS
<1> HIDE DEF a, b, lost, coding, left, ddf, cdf, Row
<1>9. \A i \in 0..(k - 1) : i \in erased => Row(i) \in left
  BY <1>3, <1>5, <1>8
<1>10. \A i \in 0..(k - 1) : Row(i) \in Nat
  BY <1>5, <1>8, <1>9
<1>11. first \in Seq(Nat) /\ Len(first) = k /\ \A i \in 0..(k - 1) : Nth(first, i) = Row(i)
  <2>1. first = [j \in 1..k |-> Row(j - 1)]
    BY DEF Tabulate
  <2>2. \A j \in 1..k : j - 1 \in 0..(k - 1)
    OBVIOUS
  <2>3. \A i \in 0..(k - 1) : i + 1 \in 1..k /\ (i + 1) - 1 = i
    OBVIOUS
  <2> HIDE DEF first
  <2>4. first \in [1..k -> Nat]
    BY <1>10, <2>1, <2>2
  <2>5. first \in Seq(Nat) /\ Len(first) = k
    BY <2>4
  <2>6. \A i \in 0..(k - 1) : Nth(first, i) = Row(i)
    BY <2>1, <2>3 DEF Nth
  <2> QED BY <2>5, <2>6
<1> HIDE DEF first
<1> DEFINE fa == first \o a
<1>12. /\ fa \in Seq(Nat) /\ Len(fa) = k + ddf
       /\ \A i \in 0..(k - 1) : Nth(fa, i) = Row(i)
       /\ \A i \in 0..(ddf - 1) : Nth(fa, k + i) = Nth(a, i)
  <2>1. /\ fa \in Seq(Nat) /\ Len(fa) = k + ddf
        /\ Joined(fa, first, k, a, ddf)
    <3>1. /\ first \in Seq(Nat) /\ a \in Seq(Nat) /\ Len(first) = k /\ Len(a) = ddf
          /\ k \in Nat /\ ddf \in Nat
      BY <1>2, <1>6, <1>11
    <3>2. fa \in Seq(Nat) /\ Len(fa) = k + ddf
      BY <3>1
    <3>3. /\ \A j \in 1..k : fa[j] = first[j]
          /\ \A j \in 1..ddf : fa[k + j] = a[j]
      BY <3>1
    <3> HIDE DEF fa
    <3> QED BY <3>2, <3>3 DEF Joined
  <2> HIDE DEF fa
  <2>2. /\ \A i \in 0..(k - 1) : Nth(fa, i) = Nth(first, i)
        /\ \A i \in 0..(ddf - 1) : Nth(fa, k + i) = Nth(a, i)
    BY <1>2, <2>1, JoinedNth
  <2> QED BY <1>11, <2>1, <2>2
<1> HIDE DEF fa
<1>13. /\ ids \in Seq(Nat) /\ Len(ids) = k + ddf + cdf
       /\ \A i \in 0..(k + ddf - 1) : Nth(ids, i) = Nth(fa, i)
       /\ \A i \in 0..(cdf - 1) : Nth(ids, k + ddf + i) = Nth(b, i)
  <2>1. ids = fa \o b
    BY <1>1 DEF fa
  <2> HIDE DEF ids
  <2>3. PICK n \in Nat : n = k + ddf
    BY <1>2
  <2>2. ids \in Seq(Nat) /\ Len(ids) = n + cdf /\ Joined(ids, fa, n, b, cdf)
    <3> DEFINE all == fa \o b
    <3>1. all \in Seq(Nat) /\ Len(all) = n + cdf /\ Joined(all, fa, n, b, cdf)
      <4>1. /\ fa \in Seq(Nat) /\ Len(fa) = n /\ b \in Seq(Nat) /\ Len(b) = cdf
        BY <1>7, <1>12, <2>3
      <4>2. all \in Seq(Nat) /\ Len(all) = n + cdf
        BY <4>1
      <4>3. \A j \in 1..n : all[j] = fa[j]
        BY <4>1
      <4>4. \A j \in 1..cdf : all[n + j] = b[j]
        BY <4>1
      <4> HIDE DEF all
      <4> QED BY <4>2, <4>3, <4>4 DEF Joined
    <3>2. ids = all
      BY <2>1
    <3> HIDE DEF all
    <3> QED BY <3>1, <3>2
  <2>4. /\ \A i \in 0..(n - 1) : Nth(ids, i) = Nth(fa, i)
        /\ \A i \in 0..(cdf - 1) : Nth(ids, n + i) = Nth(b, i)
    BY <1>2, <2>2, <2>3, JoinedNth
  <2>5. \A i \in 0..(cdf - 1) : k + ddf + i = n + i
    BY <1>2, <2>3
  <2> QED BY <1>2, <2>2, <2>3, <2>4, <2>5
<1> HIDE DEF ids
<1>14. \A i \in 0..(k - 1) : Nth(ids, i) = Row(i)
  <2>1. \A i \in 0..(k - 1) : i \in 0..(k + ddf - 1)
    BY <1>2
  <2> QED BY <1>12, <1>13, <2>1
<1>15. \A i \in 0..(ddf - 1) : Nth(ids, k + i) = Nth(a, i)
  <2>1. \A i \in 0..(ddf - 1) : k + i \in 0..(k + ddf - 1)
    BY <1>2
  <2> QED BY <1>12, <1>13, <2>1
<1>16. \A i \in 0..(Len(ids) - 1) :
         \/ i \in 0..(k - 1)
         \/ i - k \in 0..(ddf - 1) /\ i = k + (i - k)
         \/ i - (k + ddf) \in 0..(cdf - 1) /\ i = k + ddf + (i - (k + ddf))
  BY <1>2, <1>13
<1>17. ASSUME NEW i \in 0..(k - 1)
       PROVE  /\ Nth(ids, i) \in 0..(k + m - 1) /\ Nth(ids, i) \notin erased
              /\ i \notin erased => Nth(ids, i) = i
              /\ i \in erased => Nth(ids, i) >= k
  <2>1. Nth(ids, i) = Row(i)
    BY <1>14
  <2>2. CASE i \notin erased
    BY <1>5, <1>8, <2>1, <2>2
  <2>3. CASE i \in erased
    BY <1>5, <1>9, <2>1, <2>3
  <2> QED BY <2>2, <2>3
<1>18. \A i \in 0..(ddf - 1) : Nth(ids, k + i) \in lost
  BY <1>6, <1>15
<1>19. \A i \in 0..(cdf - 1) : Nth(ids, k + ddf + i) \in coding
  BY <1>7, <1>13
<1>20. ASSUME NEW i \in 0..(k - 1), NEW j \in 0..(k - 1), Nth(ids, i) = Nth(ids, j)
       PROVE  i = j
  <2>1. Row(i) = Row(j)
    BY <1>14, <1>20
  <2>2. CASE i \in erased /\ j \in erased
    BY <1>4, <1>5, <1>8, <2>1, <2>2
  <2>3. CASE i \notin erased \/ j \notin erased
    BY <1>5, <1>17, <1>20, <2>3
  <2> QED BY <2>2, <2>3
<1>21. ASSUME NEW i \in 0..(Len(ids) - 1), NEW j \in 0..(Len(ids) - 1), Nth(ids, i) = Nth(ids, j)
       PROVE  i = j
  <2> DEFINE d == Nth(ids, i)
  <2>1. i \in 0..(k - 1) => d \notin erased
    BY <1>17
  <2>2. i - k \in 0..(ddf - 1) /\ i = k + (i - k) => d \in lost /\ Nth(a, i - k) = d
    BY <1>15, <1>18
  <2>3. i - (k + ddf) \in 0..(cdf - 1) /\ i = k + ddf + (i - (k + ddf))
          => d \in coding /\ Nth(b, i - (k + ddf)) = d
    BY <1>13, <1>19
  <2>4. j \in 0..(k - 1) => d \notin erased
    BY <1>17, <1>21
  <2>5. j - k \in 0..(ddf - 1) /\ j = k + (j - k) => d \in lost /\ Nth(a, j - k) = d
    BY <1>15, <1>18, <1>21
  <2>6. j - (k + ddf) \in 0..(cdf - 1) /\ j = k + ddf + (j - (k + ddf))
          => d \in coding /\ Nth(b, j - (k + ddf)) = d
    BY <1>13, <1>19, <1>21
  <2> HIDE DEF d
  <2>7. ~(d \in lost /\ d \in coding)
    BY <1>5
  <2>8. CASE d \notin erased
    <3>1. i \in 0..(k - 1) /\ j \in 0..(k - 1)
      BY <1>5, <1>16, <2>2, <2>3, <2>5, <2>6, <2>8
    <3> QED BY <1>20, <1>21, <3>1
  <2>9. CASE d \in lost
    <3>1. /\ i - k \in 0..(ddf - 1) /\ Nth(a, i - k) = d
          /\ j - k \in 0..(ddf - 1) /\ Nth(a, j - k) = d
      BY <1>5, <1>16, <2>1, <2>2, <2>3, <2>4, <2>5, <2>6, <2>7, <2>9
    <3>2. i - k = j - k
      BY <1>6, <3>1
    <3> QED BY <3>2
  <2>10. CASE d \in coding
    <3>1. /\ i - (k + ddf) \in 0..(cdf - 1) /\ Nth(b, i - (k + ddf)) = d
          /\ j - (k + ddf) \in 0..(cdf - 1) /\ Nth(b, j - (k + ddf)) = d
      BY <1>5, <1>16, <2>1, <2>2, <2>3, <2>4, <2>5, <2>6, <2>7, <2>10
    <3>2. i - (k + ddf) = j - (k + ddf)
      BY <1>7, <3>1
    <3> QED BY <1>2, <3>2
  <2> QED BY <1>5, <2>8, <2>9, <2>10
<1>22. ASSUME NEW d \in erased PROVE \E i \in k..(Len(ids) - 1) : Nth(ids, i) = d
  <2>1. CASE d \in lost
    <3>1. PICK i \in 0..(ddf - 1) : Nth(a, i) = d
      BY <1>6, <2>1
    <3>2. k + i \in k..(Len(ids) - 1) /\ Nth(ids, k + i) = d
      BY <1>2, <1>13, <1>15, <3>1
    <3> QED BY <3>2
  <2>2. CASE d \in coding
    <3>1. PICK i \in 0..(cdf - 1) : Nth(b, i) = d
      BY <1>7, <2>2
    <3>2. k + ddf + i \in k..(Len(ids) - 1) /\ Nth(ids, k + ddf + i) = d
      BY <1>2, <1>13, <3>1
    <3> QED BY <3>2
  <2> QED BY <1>5, <2>1, <2>2
<1>23. PointersRight(k, m, erased, ids)
  BY <1>13, <1>17, <1>18, <1>19, <1>21, <1>22 DEF PointersRight, lost, coding, ddf, cdf
<1>24. \A i \in 0..(k - 1) : i \in erased => Nth(ids, i) = SpareFor(k, m, erased, i)
  BY <1>8, <1>14
<1> QED BY <1>23, <1>24 DEF ids

\* How many members of S are below t
RankIn(S, t) == Cardinality({s \in S : s < t})

LEMMA RankAmongLeft ==
  ASSUME NEW k \in Nat, NEW m \in Nat, NEW erased \in SUBSET (0..(k + m - 1)),
         Cardinality(erased) <= m, NEW t \in LeftCoding(k, m, erased)
  PROVE  /\ RankIn(Left(k, m, erased), t)
              = (k - Cardinality(LostData(k, erased))) + RankIn(LeftCoding(k, m, erased), t)
         /\ RankIn(LeftCoding(k, m, erased), t) \in Nat
<1> DEFINE A == (0..(k - 1)) \ LostData(k, erased)
           B == {s \in LeftCoding(k, m, erased) : s < t}
           C == {s \in Left(k, m, erased) : s < t}
<1>1. C = A \cup B /\ A \cap B = {}
  <2>1. t \in Nat /\ t >= k /\ t < k + m
    BY DEF LeftCoding
  <2>2. ASSUME NEW s PROVE s \in C <=> s \in A \/ s \in B
    <3>1. CASE s \in 0..(k + m - 1)
      BY <2>1, <3>1 DEF Left, LeftCoding, LostData
    <3>2. CASE s \notin 0..(k + m - 1)
      BY <2>1, <3>2 DEF Left, LeftCoding, LostData
    <3> QED BY <3>1, <3>2
  <2>3. A \cap B = {}
    BY DEF LeftCoding
  <2> HIDE DEF A, B, C
  <2> QED BY <2>2, <2>3
<1>2. IsFiniteSet(A) /\ IsFiniteSet(B)
  <2>1. IsFiniteSet(0..(k - 1))
    BY FirstNumbers
  <2>2. PICK n \in Nat : n = k + m
    OBVIOUS
  <2>3. IsFiniteSet(0..(n - 1))
    BY FirstNumbers
  <2>4. A \in SUBSET (0..(k - 1)) /\ B \in SUBSET (0..(n - 1))
    BY <2>2 DEF LeftCoding
  <2> HIDE DEF A, B
  <2> QED BY <2>1, <2>3, <2>4, FS_Subset
<1>3. Cardinality(A) = k - Cardinality(LostData(k, erased))
  BY LossFacts
<1> HIDE DEF A, B, C
<1>4. Cardinality(A) \in Nat /\ Cardinality(B) \in Nat
  BY <1>2, FS_CardinalityType
<1>5. Cardinality(A \cup B) = Cardinality(A) + Cardinality(B)
  <2>1. Cardinality(A \cup B) = Cardinality(A) + Cardinality(B) - Cardinality(A \cap B)
    BY <1>2, FS_Union
  <2>2. Cardinality(A \cap B) = 0
    BY <1>1, FS_EmptySet
  <2> QED BY <1>4, <2>1, <2>2
<1>6. RankIn(Left(k, m, erased), t) = Cardinality(C) /\ RankIn(LeftCoding(k, m, erased), t) = Cardinality(B)
  BY DEF RankIn, B, C
<1> QED BY <1>1, <1>3, <1>4, <1>5, <1>6

LEMMA DmIdsRight ==
  ASSUME NEW k \in Nat, NEW m \in Nat, NEW erased \in SUBSET (0..(k + m - 1)),
         Cardinality(erased) <= m
  PROVE  /\ dm_ids(k, m, erased) \in Seq(Nat) /\ Len(dm_ids(k, m, erased)) = k
         /\ \A i \in 0..(k - 1) : Nth(dm_ids(k, m, erased), i) \in Left(k, m, erased)
         /\ \A t \in Left(k, m, erased) :
              (\E i \in 0..(k - 1) : Nth(dm_ids(k, m, erased), i) = t)
                <=> RankIn(Left(k, m, erased), t) < k
<1> DEFINE left == Left(k, m, erased)
           a == Ascending(left, k + m)
           ids == dm_ids(k, m, erased)
<1>1. /\ Ascends(a, left) /\ Cardinality(left) = k + m - Cardinality(erased)
      /\ Cardinality(erased) \in Nat
  <2>1. Ascends(a, left) /\ Cardinality(left) = k + m - Cardinality(erased)
    BY LossFacts
  <2>2. /\ Cardinality(LostData(k, erased)) \in Nat /\ Cardinality(LostCoding(k, erased)) \in Nat
        /\ Cardinality(erased) = Cardinality(LostData(k, erased)) + Cardinality(LostCoding(k, erased))
    BY LossFacts
  <2> QED BY <2>1, <2>2
<1>2. /\ a \in Seq(Nat) /\ Len(a) = Cardinality(left)
      /\ \A i \in 0..(Len(a) - 1) : /\ Nth(a, i) \in left
                                    /\ Cardinality({t \in left : t < Nth(a, i)}) = i
      /\ \A t \in left : \E i \in 0..(Len(a) - 1) : Nth(a, i) = t
  BY <1>1, AscendsNth
<1>3. ids = SubSeq(a, 1, k)
  BY DEF dm_ids, Left
<1> HIDE DEF a, left, ids
<1>4. k <= Len(a) /\ Len(a) \in Nat
  BY <1>1, <1>2
<1>5. /\ ids \in Seq(Nat) /\ Len(ids) = k /\ \A j \in 1..k : ids[j] = a[j]
  <2> DEFINE new == SubSeq(a, 1, k)
  <2>1. new = [j \in 1..k |-> a[j]]
    BY <1>2, <1>4
  <2>2. \A j \in 1..k : a[j] \in Nat
    BY <1>2, <1>4
  <2> HIDE DEF new
  <2>3. new \in [1..k -> Nat]
    BY <2>1, <2>2
  <2>4. new \in Seq(Nat) /\ Len(new) = k
    BY <2>3
  <2> QED BY <1>3, <2>1, <2>4 DEF new
<1>6. ASSUME NEW i \in 0..(k - 1) PROVE Nth(ids, i) = Nth(a, i) /\ i \in 0..(Len(a) - 1)
  <2>1. i + 1 \in 1..k
    OBVIOUS
  <2> QED BY <1>4, <1>5, <2>1 DEF Nth
<1>7. \A i \in 0..(k - 1) : Nth(ids, i) \in left
  BY <1>2, <1>6
<1>8. ASSUME NEW t \in left
      PROVE  (\E i \in 0..(k - 1) : Nth(ids, i) = t) <=> Cardinality({s \in left : s < t}) < k
  <2>1. PICK j \in 0..(Len(a) - 1) : Nth(a, j) = t
    BY <1>2
  <2>2. Cardinality({s \in left : s < t}) = j
    BY <1>2, <2>1
  <2>3. ASSUME NEW i \in 0..(k - 1), Nth(ids, i) = t PROVE j < k
    <3>1. Cardinality({s \in left : s < t}) = i
      BY <1>2, <1>6, <2>3
    <3> QED BY <2>2, <3>1
  <2>4. ASSUME j < k PROVE \E i \in 0..(k - 1) : Nth(ids, i) = t
    <3>1. j \in 0..(k - 1)
      BY <2>4
    <3> QED BY <1>6, <2>1, <3>1
  <2> QED BY <2>2, <2>3, <2>4
<1>9. \A t \in left : (\E i \in 0..(k - 1) : Nth(ids, i) = t) <=> RankIn(left, t) < k
  BY <1>8 DEF RankIn
<1> QED BY <1>5, <1>7, <1>9 DEF ids, left

\* The drives behind the first k positions of ids
Behind(k, ids) == {Nth(ids, i) : i \in 0..(k - 1)}

LEMMA SameSources ==
  ASSUME NEW k \in Nat, NEW m \in Nat, NEW erased \in SUBSET (0..(k + m - 1)),
         Cardinality(erased) <= m
  PROVE  Behind(k, row_ids(k, m, erased)) = Behind(k, dm_ids(k, m, erased))
<1> DEFINE lost == LostData(k, erased)
           left == Left(k, m, erased)
           spare == LeftCoding(k, m, erased)
           a == Ascending(spare, k + m)
           ids == row_ids(k, m, erased)
           ddf == Cardinality(lost)
           Rank(t) == Cardinality({s \in left : s < t})
<1>1. \A i \in 0..(k - 1) :
        /\ Nth(ids, i) \in left
        /\ i \notin erased => Nth(ids, i) = i
        /\ i \in erased => Nth(ids, i) = SpareFor(k, m, erased, i)
  <2>1. PointersRight(k, m, erased, ids)
    BY RowIdsRight
  <2>2. \A i \in 0..(k - 1) : i \in erased => Nth(ids, i) = SpareFor(k, m, erased, i)
    BY RowIdsRight
  <2> HIDE DEF ids
  <2> QED BY <2>1, <2>2 DEF PointersRight, Left
<1>2. \A t \in spare : /\ Rank(t) = (k - ddf) + Cardinality({s \in spare : s < t})
                       /\ Cardinality({s \in spare : s < t}) \in Nat
  <2>1. \A t \in spare : /\ RankIn(left, t) = (k - ddf) + RankIn(spare, t)
                         /\ RankIn(spare, t) \in Nat
    BY RankAmongLeft
  <2> QED BY <2>1 DEF RankIn
<1>3. \A i \in lost : /\ LostBefore(erased, i) \in 0..(ddf - 1)
                      /\ SpareFor(k, m, erased, i) \in spare
                      /\ Cardinality({s \in spare : s < SpareFor(k, m, erased, i)})
                           = LostBefore(erased, i)
  BY SpareRight
<1>4. \A j \in 0..(ddf - 1) : \E i \in lost : LostBefore(erased, i) = j
  BY SpareRight
<1>5. Ascends(a, spare) /\ ddf \in Nat
  BY LossFacts
<1>6. /\ \A i \in 0..(Len(a) - 1) : Cardinality({t \in spare : t < Nth(a, i)}) = i
      /\ \A t \in spare : \E i \in 0..(Len(a) - 1) : Nth(a, i) = t
  BY <1>5, AscendsNth
<1>7. /\ \A i \in 0..(k - 1) : i \in erased <=> i \in lost
      /\ \A i \in lost : i \in 0..(k - 1)
      /\ \A t \in left : t \in 0..(k - 1) \/ t \in spare
      /\ \A t \in left : t \notin erased
  BY DEF LostData, Left, LeftCoding
<1>8. \A t \in left : t \in 0..(k - 1) => Rank(t) \in Nat /\ Rank(t) < k
  <2>1. ASSUME NEW t \in 0..(k - 1) PROVE Rank(t) \in Nat /\ Rank(t) < k
    <3>1. IsFiniteSet(0..(t - 1)) /\ Cardinality(0..(t - 1)) = t
      BY FirstNumbers
    <3>2. {s \in left : s < t} \in SUBSET (0..(t - 1))
      BY DEF Left
    <3> HIDE DEF left
    <3>3. IsFiniteSet({s \in left : s < t}) /\ Rank(t) <= t
      BY <3>1, <3>2, FS_Subset
    <3> QED BY <3>3, FS_CardinalityType
  <2> QED BY <2>1
<1>9. \A t \in left : t \in Behind(k, dm_ids(k, m, erased)) <=> Rank(t) < k
  <2>1. \A t \in left : (\E i \in 0..(k - 1) : Nth(dm_ids(k, m, erased), i) = t) <=> Rank(t) < k
    <3>1. \A t \in left :
            (\E i \in 0..(k - 1) : Nth(dm_ids(k, m, erased), i) = t) <=> RankIn(left, t) < k
      BY DmIdsRight
    <3> HIDE DEF left
    <3> QED BY <3>1 DEF RankIn
  <2> HIDE DEF left, Rank
  <2> QED BY <2>1 DEF Behind
<1>10. \A t \in Behind(k, dm_ids(k, m, erased)) : t \in left
  <2>1. \A i \in 0..(k - 1) : Nth(dm_ids(k, m, erased), i) \in left
    BY DmIdsRight
  <2> HIDE DEF left
  <2> QED BY <2>1 DEF Behind
<1>11. \A i \in lost : SpareFor(k, m, erased, i) = Nth(a, LostBefore(erased, i))
  BY DEF SpareFor
<1> HIDE DEF lost, left, spare, a, ids, ddf, Rank
<1>12. ASSUME NEW t \in left PROVE t \in Behind(k, ids) <=> Rank(t) < k
  <2>1. CASE t \in 0..(k - 1)
    <3>1. Nth(ids, t) = t
      BY <1>1, <1>7, <2>1
    <3> QED BY <1>8, <2>1, <3>1 DEF Behind
  <2>2. CASE t \notin 0..(k - 1)
    <3>1. t \in spare
      BY <1>7, <2>2
    <3> DEFINE c == Cardinality({s \in spare : s < t})
    <3>2. Rank(t) = (k - ddf) + c /\ c \in Nat
      BY <1>2, <3>1
    <3> HIDE DEF c
    <3>3. ASSUME NEW i \in 0..(k - 1), Nth(ids, i) = t PROVE c < ddf
      <4>1. i \in lost
        BY <1>1, <1>7, <2>2, <3>3
      <4>2. t = SpareFor(k, m, erased, i)
        BY <1>1, <1>7, <3>3, <4>1
      <4>3. c = LostBefore(erased, i)
        BY <1>3, <4>1, <4>2 DEF c
      <4>4. LostBefore(erased, i) \in 0..(ddf - 1)
        BY <1>3, <4>1
      <4> QED BY <1>5, <4>3, <4>4
    <3>4. ASSUME c < ddf PROVE \E i \in 0..(k - 1) : Nth(ids, i) = t
      <4>1. c \in 0..(ddf - 1)
        BY <1>5, <3>2, <3>4
      <4>2. PICK i \in lost : LostBefore(erased, i) = c
        BY <1>4, <4>1
      <4>3. PICK j \in 0..(Len(a) - 1) : Nth(a, j) = t
        BY <1>6, <3>1
      <4>4. j = c
        BY <1>6, <4>3 DEF c
      <4>5. SpareFor(k, m, erased, i) = t
        BY <1>11, <4>2, <4>3, <4>4
      <4>6. i \in 0..(k - 1) /\ Nth(ids, i) = t
        BY <1>1, <1>7, <4>5
      <4> QED BY <4>6
    <3>5. c < ddf <=> Rank(t) < k
      BY <1>5, <3>2
    <3> QED BY <3>3, <3>4, <3>5 DEF Behind
  <2> QED BY <2>1, <2>2
<1>13. \A t \in Behind(k, ids) : t \in left
  BY <1>1 DEF Behind
<1>14. Behind(k, ids) = Behind(k, dm_ids(k, m, erased))
  BY <1>9, <1>10, <1>12, <1>13
<1> QED BY <1>14 DEF ids
-----------------------------------------------------------------------------
(***************************************************************************)
(* The rows that lost drives are decoded with.  Packet q of drive d is     *)
(* made of the columns Generated(d, q) when it is encoded.                 *)
(***************************************************************************)
Generated(k, w, bits, d, q) == IF d < k THEN {d * w + q} ELSE Nth(bits, (d - k) * w + q)
BitsFor(k, m, w, bits) == RowsOn(k, w, bits) /\ Len(bits) = m * w
IdsFor(k, m, ids) == \A i \in 0..(k - 1) : Nth(ids, i) \in 0..(k + m - 1)

\* The column of packet q of position i
At(w, i, q) == i * w + q

LEMMA ColumnAt ==
  ASSUME NEW k \in Nat, NEW w \in Nat \ {0}, NEW i \in 0..(k - 1), NEW q \in 0..(w - 1)
  PROVE  /\ At(w, i, q) \in Columns(k, w) /\ At(w, i, q) = i * w + q
         /\ At(w, i, q) \div w = i /\ At(w, i, q) % w = q
<1>1. i * w + q \in Columns(k, w)
  BY ColumnFacts
<1>2. (i * w + q) \div w = i /\ (i * w + q) % w = q
  <2>1. i \in Nat
    OBVIOUS
  <2> QED BY <2>1, DivMod
<1> QED BY <1>1, <1>2 DEF At

LEMMA ColumnIsAt ==
  ASSUME NEW k \in Nat, NEW w \in Nat \ {0}, NEW c \in Columns(k, w)
  PROVE  \E i \in 0..(k - 1), q \in 0..(w - 1) : c = At(w, i, q)
<1>1. PICK i \in 0..(k - 1), q \in 0..(w - 1) : i = c \div w /\ q = c % w /\ c = i * w + q
  BY ColumnParts
<1>2. c = At(w, i, q)
  BY <1>1 DEF At
<1> QED BY <1>2

\* No columns are left out of account by what is on the drives of D.
Determines(k, w, bits, D) ==
  \A x \in SUBSET Columns(k, w) :
    (\A d \in D : \A q \in 0..(w - 1) : ~Odd(Generated(k, w, bits, d, q) \cap x)) => x = {}

LEMMA GeneratedOn ==
  ASSUME NEW k \in Nat, NEW m \in Nat, NEW w \in Nat \ {0}, NEW bits, BitsFor(k, m, w, bits),
         NEW d \in 0..(k + m - 1), NEW q \in 0..(w - 1)
  PROVE  Generated(k, w, bits, d, q) \in SUBSET Columns(k, w)
<1>1. CASE d < k
  <2>1. d * w + q \in Columns(k, w)
    <3>1. d \in 0..(k - 1)
      BY <1>1
    <3> QED BY <3>1, ColumnFacts
  <2> QED BY <1>1, <2>1 DEF Generated
<1>2. CASE ~(d < k)
  <2>1. PICK r \in Columns(m, w) : r = (d - k) * w + q
    <3>1. PICK a \in 0..(m - 1) : a = d - k
      BY <1>2
    <3>2. a * w + q \in Columns(m, w)
      BY ColumnFacts
    <3> QED BY <3>1, <3>2
  <2>2. r \in AllRows(bits)
    BY DEF Columns, AllRows, BitsFor
  <2>3. Nth(bits, r) \in SUBSET Columns(k, w)
    BY <2>2, RowsFacts DEF BitsFor
  <2> QED BY <1>2, <2>1, <2>3 DEF Generated
<1> QED BY <1>1, <1>2

LEMMA SurvivorRight ==
  ASSUME NEW k \in Nat, NEW m \in Nat, NEW w \in Nat \ {0}, NEW bits, BitsFor(k, m, w, bits),
         NEW ids, IdsFor(k, m, ids), NEW n \in Nat, n = k * w
  PROVE  /\ Numbered(n) = Columns(k, w)
         /\ SurvivorRows(k, w, bits, ids) \in Matrices(n)
         /\ \A c \in Columns(k, w) :
              Nth(SurvivorRows(k, w, bits, ids), c)
                = Generated(k, w, bits, Nth(ids, c \div w), c % w)
<1> DEFINE Row(r) == LET d == Nth(ids, r \div w)
                     IN  IF d < k THEN {d * w + (r % w)} ELSE Nth(bits, (d - k) * w + (r % w))
           mat == SurvivorRows(k, w, bits, ids)
<1>1. Numbered(n) = Columns(k, w)
  BY DEF Numbered, Columns
<1>2. \A r : Row(r) = Generated(k, w, bits, Nth(ids, r \div w), r % w)
  BY DEF Generated
<1>3. mat = [j \in 1..n |-> Row(j - 1)]
  BY DEF SurvivorRows, Tabulate
<1> HIDE DEF mat, Row
<1>4. ASSUME NEW c \in Columns(k, w) PROVE Row(c) \in SUBSET Columns(k, w)
  <2>1. c \div w \in 0..(k - 1) /\ c % w \in 0..(w - 1)
    BY ColumnFacts
  <2>2. PICK d \in 0..(k + m - 1) : d = Nth(ids, c \div w)
    BY <2>1 DEF IdsFor
  <2>3. PICK q \in 0..(w - 1) : q = c % w
    BY <2>1
  <2>4. Generated(k, w, bits, d, q) \in SUBSET Columns(k, w)
    BY GeneratedOn
  <2> QED BY <1>2, <2>2, <2>3, <2>4
<1>5. \A j \in 1..n : j - 1 \in Columns(k, w)
  BY <1>1 DEF Numbered
<1>6. mat \in Matrices(n)
  BY <1>1, <1>3, <1>4, <1>5 DEF Matrices
<1>7. \A c \in Columns(k, w) : Nth(mat, c) = Row(c)
  <2>1. \A c \in Numbered(n) : c + 1 \in 1..n /\ (c + 1) - 1 = c
    BY NumberedFacts
  <2> QED BY <1>1, <1>3, <2>1 DEF Nth
<1> QED BY <1>1, <1>2, <1>6, <1>7 DEF mat

LEMMA InvertibleIff ==
  ASSUME NEW k \in Nat, NEW m \in Nat, NEW w \in Nat \ {0}, NEW bits, BitsFor(k, m, w, bits),
         NEW ids, IdsFor(k, m, ids)
  PROVE  jerasure_invertible_bitmatrix(SurvivorRows(k, w, bits, ids))
           <=> Determines(k, w, bits, Behind(k, ids))
<1> DEFINE mat == SurvivorRows(k, w, bits, ids)
<1>1. PICK n \in Nat : n = k * w
  OBVIOUS
<1>2. /\ Numbered(n) = Columns(k, w) /\ mat \in Matrices(n)
      /\ \A c \in Columns(k, w) : Nth(mat, c) = Generated(k, w, bits, Nth(ids, c \div w), c % w)
  BY <1>1, SurvivorRight
<1> HIDE DEF mat
<1>3. ASSUME NEW x \in SUBSET Columns(k, w)
      PROVE  Annulled(mat, n, x)
               <=> \A d \in Behind(k, ids) : \A q \in 0..(w - 1) : ~Odd(Generated(k, w, bits, d, q) \cap x)
  <2>1. ASSUME NEW c \in Columns(k, w)
        PROVE  c \div w \in 0..(k - 1) /\ c % w \in 0..(w - 1)
    BY ColumnFacts
  <2>2. ASSUME Annulled(mat, n, x), NEW d \in Behind(k, ids), NEW q \in 0..(w - 1)
        PROVE  ~Odd(Generated(k, w, bits, d, q) \cap x)
    <3>1. PICK i \in 0..(k - 1) : d = Nth(ids, i)
      BY DEF Behind
    <3>2. At(w, i, q) \in Columns(k, w) /\ At(w, i, q) \div w = i /\ At(w, i, q) % w = q
      BY ColumnAt
    <3>3. PICK c \in Columns(k, w) : c \div w = i /\ c % w = q
      BY <3>2
    <3>4. Nth(mat, c) = Generated(k, w, bits, d, q)
      BY <1>2, <3>1, <3>3
    <3> QED BY <1>2, <2>2, <3>4 DEF Annulled
  <2>3. ASSUME \A d \in Behind(k, ids) : \A q \in 0..(w - 1) : ~Odd(Generated(k, w, bits, d, q) \cap x),
               NEW c \in Columns(k, w)
        PROVE  ~Odd(Nth(mat, c) \cap x)
    <3>1. Nth(ids, c \div w) \in Behind(k, ids)
      BY <2>1 DEF Behind
    <3> QED BY <1>2, <2>1, <2>3, <3>1
  <2> QED BY <1>2, <2>2, <2>3 DEF Annulled
<1>4. jerasure_invertible_bitmatrix(mat)
        <=> \A x \in SUBSET Numbered(n) : Annulled(mat, n, x) => x = {}
  BY <1>2, InvertRight
<1> QED BY <1>2, <1>3, <1>4 DEF Determines, mat

\* A sum of what the rows of the drives are made of is made of the data packets that
\* the inverse names, each in one row only.
LEMMA InverseTells ==
  ASSUME NEW k \in Nat, NEW m \in Nat, NEW w \in Nat \ {0}, NEW bits, BitsFor(k, m, w, bits),
         NEW ids, IdsFor(k, m, ids),
         NEW c \in Columns(k, w)
  PROVE  LET inv == jerasure_invert_bitmatrix(SurvivorRows(k, w, bits, ids)).inv
         IN  /\ Nth(inv, c) \in SUBSET Columns(k, w)
             /\ Determines(k, w, bits, Behind(k, ids)) =>
                  Sum([e \in Columns(k, w) |-> Generated(k, w, bits, Nth(ids, e \div w), e % w)],
                      Nth(inv, c)) = {c}
<1> DEFINE mat == SurvivorRows(k, w, bits, ids)
           inv == jerasure_invert_bitmatrix(mat).inv
           G == [e \in Columns(k, w) |-> Generated(k, w, bits, Nth(ids, e \div w), e % w)]
<1>1. PICK n \in Nat : n = k * w
  OBVIOUS
<1>2. /\ Numbered(n) = Columns(k, w) /\ mat \in Matrices(n)
      /\ \A e \in Columns(k, w) : Nth(mat, e) = Generated(k, w, bits, Nth(ids, e \div w), e % w)
  BY <1>1, SurvivorRight
<1>3. jerasure_invertible_bitmatrix(mat) <=> Determines(k, w, bits, Behind(k, ids))
  BY InvertibleIff
<1> HIDE DEF mat
<1>4. /\ inv \in Matrices(n)
      /\ jerasure_invertible_bitmatrix(mat) =>
           \A j \in Numbered(n) : Combination(mat, n, Nth(inv, j)) = {j}
  BY <1>2, InvertRight
<1> HIDE DEF inv
<1>5. Nth(inv, c) \in SUBSET Columns(k, w)
  BY <1>2, <1>4, MatrixFacts
<1>6. Combination(mat, n, Nth(inv, c)) = Sum(G, Nth(inv, c))
  <2> DEFINE F == [e \in Numbered(n) |-> Nth(mat, e)]
  <2>1. \A e \in Nth(inv, c) : F[e] = G[e]
    BY <1>2, <1>5
  <2> HIDE DEF F, G
  <2>2. Sum(F, Nth(inv, c)) = Sum(G, Nth(inv, c))
    BY <2>1, SumSame
  <2> QED BY <2>2 DEF Combination, F
<1> QED BY <1>2, <1>3, <1>4, <1>5, <1>6 DEF inv, mat

\* What the columns are made of, if position i is drive ids[i]
SourceRows(k, w, bits, ids) ==
  [e \in Columns(k, w) |-> Generated(k, w, bits, Nth(ids, e \div w), e % w)]

LEMMA SumOfUnits ==
  ASSUME NEW S, IsFiniteSet(S), NEW F, \A c \in S : F[c] = {c}
  PROVE  Sum(F, S) = S
<1>1. ASSUME NEW b PROVE b \in Sum(F, S) <=> b \in S
  <2>1. b \in Sum(F, S) <=> Odd(Having(b, F, S))
    BY SumMember
  <2>2. CASE b \in S
    <3>1. Having(b, F, S) = {b}
      BY <2>2 DEF Having
    <3> QED BY <2>1, <2>2, <3>1, OddSmall
  <2>3. CASE b \notin S
    <3>1. Having(b, F, S) = {}
      BY <2>3 DEF Having
    <3> QED BY <2>1, <2>3, <3>1, OddSmall
  <2> QED BY <2>2, <2>3
<1> QED BY <1>1

LEMMA TabulatedRows ==
  ASSUME NEW i \in Nat, NEW w \in Nat \ {0}, NEW n \in Nat, n = i * w, NEW S, NEW rows,
         rows = [j \in 1..n |-> rows[j]], \A c \in Columns(i, w) : rows[c + 1] \in S
  PROVE  rows \in Seq(S) /\ Len(rows) = n
<1>1. \A j \in 1..n : j - 1 \in Columns(i, w) /\ (j - 1) + 1 = j
  BY DEF Columns
<1>2. rows \in [1..n -> S]
  BY <1>1
<1> QED BY <1>2

\* The parts of the matrix: lost data from the inverse, lost coding packets from
\* data that is left and from what lost data is made of.
InverseFor(k, w, bits, ids) ==
  jerasure_invert_bitmatrix(SurvivorRows(k, w, bits, SubSeq(ids, 1, k))).inv
Replaced(k, w, ids, data, e) == Nth(data, (ind_to_row(ids, e \div w) - k) * w + (e % w))
Replacing(k, w, ids, data, row) ==
  LET kept == {e \in row : Nth(ids, e \div w) = e \div w}
  IN  Xor(kept, Sum([e \in row \ kept |-> Replaced(k, w, ids, data, e)], row \ kept))

RealParts(k, w, bits, ids, ddf, cdf, data, coding) ==
  /\ real_decoding_matrix(k, w, bits, ids, ddf) = data \o coding
  /\ data = [j \in 1..(ddf * w) |->
               Nth(InverseFor(k, w, bits, ids), Nth(ids, k + (j - 1) \div w) * w + ((j - 1) % w))]
  /\ coding = [j \in 1..(cdf * w) |->
                 Replacing(k, w, ids, data,
                   Nth(bits, (Nth(ids, k + ddf + (j - 1) \div w) - k) * w + ((j - 1) % w)))]

LEMMA RealRowsParts ==
  ASSUME NEW k \in Nat, NEW w \in Nat \ {0}, NEW bits, NEW ids, NEW ddf \in Nat,
         Len(ids) - k - ddf \in Nat
  PROVE  \E data, coding : RealParts(k, w, bits, ids, ddf, Len(ids) - k - ddf, data, coding)
<1> DEFINE inverse == InverseFor(k, w, bits, ids)
           Data(r) == Nth(inverse, Nth(ids, k + r \div w) * w + (r % w))
           data == Tabulate(ddf * w, Data)
           Kept(c) == Nth(ids, c \div w) = c \div w
           From(c) == Nth(data, (ind_to_row(ids, c \div w) - k) * w + (c % w))
           RowFor(r) == Nth(bits, (Nth(ids, k + ddf + r \div w) - k) * w + (r % w))
           Coding(r) == LET row == RowFor(r)
                        IN  Xor({c \in row : Kept(c)}, XorSum(From, {c \in row : ~Kept(c)}))
           coding == Tabulate((Len(ids) - k - ddf) * w, Coding)
<1>1. real_decoding_matrix(k, w, bits, ids, ddf) = data \o coding
  BY DEF real_decoding_matrix, InverseFor
<1>2. data = [j \in 1..(ddf * w) |-> Data(j - 1)]
  <2>1. ddf * w \in Nat
    OBVIOUS
  <2> QED BY <2>1 DEF Tabulate
<1>3. coding = [j \in 1..((Len(ids) - k - ddf) * w) |-> Coding(j - 1)]
  <2>1. (Len(ids) - k - ddf) * w \in Nat
    OBVIOUS
  <2> QED BY <2>1 DEF Tabulate
<1> HIDE DEF data, coding
<1>4. ASSUME NEW row
      PROVE  Xor({c \in row : Kept(c)}, XorSum(From, {c \in row : ~Kept(c)}))
               = Replacing(k, w, ids, data, row)
  <2> DEFINE kept == {e \in row : Kept(e)}
             rest == row \ kept
             F == [e \in rest |-> Replaced(k, w, ids, data, e)]
  <2>1. {c \in row : ~Kept(c)} = rest
    OBVIOUS
  <2>2. XorSum(From, rest) = Sum(F, rest)
    <3>1. XorSum(From, rest)
            = {b \in UNION {From(i) : i \in rest} : Cardinality({i \in rest : b \in From(i)}) % 2 = 1}
      BY DEF XorSum
    <3>2. \A i \in rest : F[i] = From(i)
      BY DEF Replaced
    <3> HIDE DEF F, From, rest
    <3>3. {From(i) : i \in rest} = {F[i] : i \in rest}
      BY <3>2
    <3>4. \A b : {i \in rest : b \in From(i)} = {i \in rest : b \in F[i]}
      BY <3>2
    <3> QED BY <3>1, <3>3, <3>4 DEF Sum, Having, Odd
  <2>3. Replacing(k, w, ids, data, row) = Xor(kept, Sum(F, rest))
    BY DEF Replacing
  <2> HIDE DEF rest
  <2> QED BY <2>1, <2>2, <2>3
<1>5. \A r : Coding(r) = Replacing(k, w, ids, data, RowFor(r))
  BY <1>4
<1> HIDE DEF Coding
<1>6. coding = [j \in 1..((Len(ids) - k - ddf) * w) |-> Replacing(k, w, ids, data, RowFor(j - 1))]
  BY <1>3, <1>5
<1> HIDE DEF inverse
<1> WITNESS data, coding
<1> QED BY <1>1, <1>2, <1>6 DEF inverse, RealParts

LossOf(k, m, erased) == erased \in SUBSET (0..(k + m - 1)) /\ Cardinality(erased) <= m

LEMMA PointerFacts ==
  ASSUME NEW k \in Nat, NEW m \in Nat, NEW erased, LossOf(k, m, erased), NEW ids, PointersRight(k, m, erased, ids)
  PROVE  LET ddf == Cardinality(LostData(k, erased))
             cdf == Cardinality(LostCoding(k, erased))
         IN  /\ ddf \in Nat /\ cdf \in Nat /\ Len(ids) = k + ddf + cdf
             /\ Cardinality(erased) = ddf + cdf
             /\ \A d \in 0..(k - 1) :
                  /\ Nth(ids, d) = d <=> d \notin erased
                  /\ d \in erased => /\ ind_to_row(ids, d) - k \in 0..(ddf - 1)
                                     /\ Nth(ids, k + (ind_to_row(ids, d) - k)) = d
<1> DEFINE ddf == Cardinality(LostData(k, erased))
           cdf == Cardinality(LostCoding(k, erased))
<1>1. ddf \in Nat /\ cdf \in Nat /\ Cardinality(erased) = ddf + cdf
  BY LossFacts DEF LossOf
<1> HIDE DEF ddf, cdf
<1>2. ids \in Seq(Nat) /\ Len(ids) = k + ddf + cdf
  BY DEF PointersRight, ddf, cdf
<1>3. ASSUME NEW d \in 0..(k - 1), d \notin erased PROVE Nth(ids, d) = d
  BY <1>3 DEF PointersRight
<1>4. ASSUME NEW d \in 0..(k - 1), d \in erased PROVE Nth(ids, d) # d
  <2>1. Nth(ids, d) >= k
    BY <1>4 DEF PointersRight
  <2> QED BY <2>1
<1>5. ASSUME NEW d \in 0..(k - 1), d \in erased
      PROVE  /\ ind_to_row(ids, d) - k \in 0..(ddf - 1)
             /\ Nth(ids, k + (ind_to_row(ids, d) - k)) = d
  <2>1. PICK i \in k..(Len(ids) - 1) : Nth(ids, i) = d
    BY <1>5 DEF PointersRight
  <2>2. i \in 0..(Len(ids) - 1) /\ i \in Nat
    BY <1>2, <2>1
  <2>3. ASSUME NEW j \in 0..(Len(ids) - 1), Nth(ids, j) = d PROVE j = i
    BY <2>1, <2>2, <2>3 DEF PointersRight
  <2>4. ind_to_row(ids, d) = i
    BY <2>1, <2>2, <2>3 DEF ind_to_row
  <2>5. ~(i >= k + ddf)
    <3> SUFFICES ASSUME i >= k + ddf PROVE FALSE
      OBVIOUS
    <3>1. i - (k + ddf) \in 0..(cdf - 1) /\ k + ddf + (i - (k + ddf)) = i
      BY <1>1, <1>2, <2>2
    <3>2. Nth(ids, k + ddf + (i - (k + ddf))) \in LostCoding(k, erased)
      BY <3>1 DEF PointersRight, ddf, cdf
    <3>3. d >= k
      BY <2>1, <3>1, <3>2 DEF LostCoding
    <3> QED BY <3>3
  <2>6. i - k \in 0..(ddf - 1) /\ k + (i - k) = i
    BY <1>1, <1>2, <2>1, <2>2, <2>5
  <2> QED BY <2>1, <2>4, <2>6
<1> QED BY <1>1, <1>2, <1>3, <1>4, <1>5 DEF ddf, cdf

LEMMA InverseFacts ==
  ASSUME NEW k \in Nat, NEW m \in Nat, NEW w \in Nat \ {0}, NEW bits, BitsFor(k, m, w, bits),
         NEW erased, LossOf(k, m, erased),
         NEW ids, PointersRight(k, m, erased, ids), NEW c \in Columns(k, w)
  PROVE  /\ Nth(InverseFor(k, w, bits, ids), c) \in SUBSET Columns(k, w)
         /\ Determines(k, w, bits, Behind(k, ids)) =>
              Sum(SourceRows(k, w, bits, ids), Nth(InverseFor(k, w, bits, ids), c)) = {c}
<1> DEFINE sub == SubSeq(ids, 1, k)
<1>1. ids \in Seq(Nat) /\ k <= Len(ids)
  <2>1. /\ Cardinality(LostData(k, erased)) \in Nat /\ Cardinality(LostCoding(k, erased)) \in Nat
        /\ Len(ids) = k + Cardinality(LostData(k, erased)) + Cardinality(LostCoding(k, erased))
    BY PointerFacts
  <2>2. ids \in Seq(Nat)
    BY DEF PointersRight
  <2> QED BY <2>1, <2>2
<1>2. \A i \in 0..(k - 1) : Nth(sub, i) = Nth(ids, i)
  <2>1. sub \in Seq(Nat) /\ \A i \in 1..k : sub[i] = ids[i]
    BY <1>1
  <2> HIDE DEF sub
  <2>2. \A i \in 0..(k - 1) : i + 1 \in 1..k
    OBVIOUS
  <2> QED BY <2>1, <2>2 DEF Nth
<1> HIDE DEF sub
<1>3. IdsFor(k, m, sub)
  BY <1>2 DEF IdsFor, PointersRight
<1>4. Behind(k, sub) = Behind(k, ids)
  BY <1>2 DEF Behind
<1>5. \A e \in Columns(k, w) : Nth(sub, e \div w) = Nth(ids, e \div w)
  BY <1>2, ColumnFacts
<1>6. [e \in Columns(k, w) |-> Generated(k, w, bits, Nth(sub, e \div w), e % w)]
        = SourceRows(k, w, bits, ids)
  BY <1>5 DEF SourceRows
<1>7. LET inv == jerasure_invert_bitmatrix(SurvivorRows(k, w, bits, sub)).inv
      IN  /\ Nth(inv, c) \in SUBSET Columns(k, w)
          /\ Determines(k, w, bits, Behind(k, sub)) =>
               Sum([e \in Columns(k, w) |-> Generated(k, w, bits, Nth(sub, e \div w), e % w)],
                   Nth(inv, c)) = {c}
  BY <1>3, InverseTells
<1> QED BY <1>4, <1>6, <1>7 DEF InverseFor, sub

\* Row r of those that are made of the columns, which stand for position i, is what
\* drive d has been made of, or at least a row.
MakesAgain(k, w, bits, ids, row, d, q) ==
  /\ row \in SUBSET Columns(k, w)
  /\ Determines(k, w, bits, Behind(k, ids)) =>
       Sum(SourceRows(k, w, bits, ids), row) = Generated(k, w, bits, d, q)

NumberLost(k, erased, ddf) == ddf = Cardinality(LostData(k, erased))

\* data holds the rows of the lost data drives.
DataRows(k, w, bits, ids, data, ddf) ==
  \A i \in 0..(ddf - 1) : \A q \in 0..(w - 1) :
    MakesAgain(k, w, bits, ids, Nth(data, At(w, i, q)), Nth(ids, k + i), q)

LEMMA DataRowsRight ==
  ASSUME NEW k \in Nat, NEW m \in Nat, NEW w \in Nat \ {0}, NEW bits, BitsFor(k, m, w, bits),
         NEW erased, LossOf(k, m, erased),
         NEW ids, PointersRight(k, m, erased, ids), NEW ddf \in Nat,
         NumberLost(k, erased, ddf), NEW data,
         data = [j \in 1..(ddf * w) |->
                  Nth(InverseFor(k, w, bits, ids),
                      Nth(ids, k + (j - 1) \div w) * w + ((j - 1) % w))]
  PROVE  DataRows(k, w, bits, ids, data, ddf)
<1> SUFFICES ASSUME NEW i \in 0..(ddf - 1), NEW q \in 0..(w - 1)
             PROVE  MakesAgain(k, w, bits, ids, Nth(data, At(w, i, q)), Nth(ids, k + i), q)
  BY DEF DataRows
<1>1. PICK c \in Columns(ddf, w) : c = At(w, i, q) /\ c \div w = i /\ c % w = q
  <2>1. /\ At(w, i, q) \in Columns(ddf, w)
        /\ At(w, i, q) \div w = i /\ At(w, i, q) % w = q
    BY ColumnAt
  <2> QED BY <2>1
<1>2. PICK d \in 0..(k - 1) : d = Nth(ids, k + i)
  <2>1. Nth(ids, k + i) \in LostData(k, erased)
    BY DEF PointersRight, NumberLost
  <2>2. \A d \in LostData(k, erased) : d \in 0..(k - 1)
    BY DEF LostData, LossOf
  <2> QED BY <2>1, <2>2
<1>3. c + 1 \in 1..(ddf * w) /\ (c + 1) - 1 = c
  BY DEF Columns
<1>4. Nth(data, c) = Nth(InverseFor(k, w, bits, ids), At(w, d, q))
  <2>1. data[c + 1] = Nth(InverseFor(k, w, bits, ids), Nth(ids, k + c \div w) * w + (c % w))
    BY <1>3
  <2> QED BY <1>1, <1>2, <2>1 DEF At, Nth
<1>5. PICK e \in Columns(k, w) : e = At(w, d, q)
  BY ColumnAt
<1>6. /\ Nth(InverseFor(k, w, bits, ids), e) \in SUBSET Columns(k, w)
      /\ Determines(k, w, bits, Behind(k, ids)) =>
           Sum(SourceRows(k, w, bits, ids), Nth(InverseFor(k, w, bits, ids), e)) = {e}
  BY InverseFacts
<1>7. Generated(k, w, bits, d, q) = {e}
  BY <1>5 DEF Generated, At
<1> QED BY <1>1, <1>2, <1>4, <1>5, <1>6, <1>7 DEF MakesAgain

LEMMA ReplacingRight ==
  ASSUME NEW k \in Nat, NEW m \in Nat, NEW w \in Nat \ {0}, NEW bits, BitsFor(k, m, w, bits),
         NEW erased, LossOf(k, m, erased),
         NEW ids, PointersRight(k, m, erased, ids), NEW ddf \in Nat,
         NumberLost(k, erased, ddf), NEW data, DataRows(k, w, bits, ids, data, ddf),
         NEW row \in SUBSET Columns(k, w)
  PROVE  /\ Replacing(k, w, ids, data, row) \in SUBSET Columns(k, w)
         /\ Determines(k, w, bits, Behind(k, ids)) =>
              Sum(SourceRows(k, w, bits, ids), Replacing(k, w, ids, data, row)) = row
<1> DEFINE kept == {e \in row : Nth(ids, e \div w) = e \div w}
           rest == row \ kept
           F == [e \in rest |-> Replaced(k, w, ids, data, e)]
           G == SourceRows(k, w, bits, ids)
           H == [e \in rest |-> Sum(G, F[e])]
<1>1. kept \in SUBSET Columns(k, w) /\ rest \in SUBSET Columns(k, w)
  OBVIOUS
<1>2. IsFiniteSet(kept) /\ IsFiniteSet(rest)
  BY <1>1, RowCardinality
<1>3. ASSUME NEW e \in rest
      PROVE  /\ F[e] \in SUBSET Columns(k, w)
             /\ Determines(k, w, bits, Behind(k, ids)) => Sum(G, F[e]) = {e}
  <2>1. PICK d \in 0..(k - 1), q \in 0..(w - 1) : d = e \div w /\ q = e % w /\ e = d * w + q
    BY ColumnParts
  <2>2. d \in erased
    BY <2>1, PointerFacts
  <2>3. PICK i \in 0..(ddf - 1) : i = ind_to_row(ids, d) - k /\ Nth(ids, k + i) = d
    <3>1. /\ ind_to_row(ids, d) - k \in 0..(Cardinality(LostData(k, erased)) - 1)
          /\ Nth(ids, k + (ind_to_row(ids, d) - k)) = d
      BY <2>2, PointerFacts
    <3> QED BY <3>1 DEF NumberLost
  <2>4. F[e] = Nth(data, At(w, i, q))
    BY <2>1, <2>3 DEF Replaced, At
  <2>5. MakesAgain(k, w, bits, ids, Nth(data, At(w, i, q)), d, q)
    BY <2>3 DEF DataRows
  <2>6. Generated(k, w, bits, d, q) = {e}
    BY <2>1 DEF Generated
  <2> HIDE DEF F, G
  <2> QED BY <2>4, <2>5, <2>6 DEF MakesAgain, G
<1>4. Replacing(k, w, ids, data, row) = Xor(kept, Sum(F, rest))
  BY DEF Replacing
<1>5. \A e \in kept : G[e] = {e}
  <2>1. ASSUME NEW e \in kept PROVE G[e] = {e}
    <3>1. PICK d \in 0..(k - 1), q \in 0..(w - 1) : d = e \div w /\ q = e % w /\ e = d * w + q
      BY ColumnParts
    <3>2. G[e] = Generated(k, w, bits, d, q)
      BY <3>1 DEF SourceRows
    <3> QED BY <3>1, <3>2 DEF Generated
  <2> QED BY <2>1
<1>6. Xor(kept, rest) = row
  <2>1. kept \subseteq row
    OBVIOUS
  <2> HIDE DEF kept
  <2> QED BY <2>1 DEF Xor, SymDiff
<1> HIDE DEF kept, rest, F, G
<1>7. Sum(F, rest) \in SUBSET Columns(k, w)
  BY <1>3, SumWithin
<1>8. Xor(kept, Sum(F, rest)) \in SUBSET Columns(k, w)
  BY <1>1, <1>7 DEF Xor, SymDiff
<1>9. ASSUME Determines(k, w, bits, Behind(k, ids))
      PROVE  Sum(G, Xor(kept, Sum(F, rest))) = row
  <2>1. \A e \in rest : IsFiniteSet(F[e])
    BY <1>3, RowCardinality
  <2>2. Sum(G, kept) = kept
    BY <1>2, <1>5, SumOfUnits
  <2>3. IsFiniteSet(Sum(F, rest)) /\ Sum(G, Sum(F, rest)) = Sum(H, rest)
    BY <1>2, <2>1, SumOverSum
  <2>4. \A e \in rest : H[e] = {e}
    BY <1>3, <1>9
  <2> HIDE DEF H
  <2>5. Sum(H, rest) = rest
    BY <1>2, <2>4, SumOfUnits
  <2>6. Sum(G, Xor(kept, Sum(F, rest))) = Xor(Sum(G, kept), Sum(G, Sum(F, rest)))
    BY <1>2, <2>3, SumOverXor
  <2> QED BY <1>6, <2>2, <2>3, <2>5, <2>6
<1> QED BY <1>4, <1>8, <1>9 DEF G

BlocksOf(S, w, n, rows) == rows \in Seq(S) /\ Len(rows) = n * w

JoinedAt(w, a, b, s, t, rows) ==
  /\ \A i \in 0..(a - 1) : \A q \in 0..(w - 1) : Nth(rows, At(w, i, q)) = Nth(s, At(w, i, q))
  /\ \A i \in 0..(b - 1) : \A q \in 0..(w - 1) : Nth(rows, At(w, a + i, q)) = Nth(t, At(w, i, q))

LEMMA JoinedRows ==
  ASSUME NEW w \in Nat \ {0}, NEW a \in Nat, NEW b \in Nat, NEW S, NEW s, NEW t,
         BlocksOf(S, w, a, s), BlocksOf(S, w, b, t)
  PROVE  BlocksOf(S, w, a + b, s \o t) /\ JoinedAt(w, a, b, s, t, s \o t)
<1> USE DEF BlocksOf
<1>1. PICK x \in Nat, y \in Nat : x = a * w /\ y = b * w
  <2>1. a * w \in Nat /\ b * w \in Nat
    OBVIOUS
  <2> QED BY <2>1
<1>2. (a + b) * w = x + y
  BY <1>1
<1> DEFINE c == s \o t
<1>3. c \in Seq(S) /\ Len(c) = x + y
  BY <1>1
<1>4. \A j \in 1..x : c[j] = s[j]
  BY <1>1
<1>5. \A j \in 1..y : c[x + j] = t[j]
  BY <1>1
<1> HIDE DEF c
<1>6. ASSUME NEW i \in 0..(a - 1), NEW q \in 0..(w - 1)
      PROVE  Nth(c, At(w, i, q)) = Nth(s, At(w, i, q))
  <2>1. PICK e \in Columns(a, w) : e = At(w, i, q)
    <3>1. At(w, i, q) \in Columns(a, w)
      BY ColumnAt
    <3> QED BY <3>1
  <2>2. e + 1 \in 1..x
    BY <1>1 DEF Columns
  <2> QED BY <1>4, <2>1, <2>2 DEF Nth
<1>7. ASSUME NEW i \in 0..(b - 1), NEW q \in 0..(w - 1)
      PROVE  Nth(c, At(w, a + i, q)) = Nth(t, At(w, i, q))
  <2>1. PICK e \in Columns(b, w) : e = At(w, i, q)
    <3>1. At(w, i, q) \in Columns(b, w)
      BY ColumnAt
    <3> QED BY <3>1
  <2>2. e + 1 \in 1..y /\ e \in Nat
    BY <1>1 DEF Columns
  <2>3. At(w, a + i, q) + 1 = x + (e + 1)
    <3>1. (a + i) * w + q = a * w + (i * w + q)
      OBVIOUS
    <3>2. i * w + q = e
      BY <2>1 DEF At
    <3>3. At(w, a + i, q) = x + e
      BY <1>1, <3>1, <3>2 DEF At
    <3> QED BY <2>2, <3>3
  <2>4. c[x + (e + 1)] = t[e + 1]
    BY <1>5, <2>2
  <2> QED BY <2>1, <2>3, <2>4 DEF Nth
<1>8. JoinedAt(w, a, b, s, t, c)
  BY <1>6, <1>7 DEF JoinedAt
<1> QED BY <1>2, <1>3, <1>8 DEF c

\* rows make what the drives from position k on have been made of.
RowsAgain(k, w, bits, ids, rows, n) ==
  /\ RowsOn(k, w, rows) /\ Len(rows) = n * w
  /\ \A i \in 0..(n - 1) : \A q \in 0..(w - 1) :
       MakesAgain(k, w, bits, ids, Nth(rows, At(w, i, q)), Nth(ids, k + i), q)

LEMMA RealRowsRight ==
  ASSUME NEW k \in Nat, NEW m \in Nat, NEW w \in Nat \ {0}, NEW bits, BitsFor(k, m, w, bits),
         NEW erased, LossOf(k, m, erased), NEW ids, PointersRight(k, m, erased, ids)
  PROVE  RowsAgain(k, w, bits, ids,
                   real_decoding_matrix(k, w, bits, ids, Cardinality(LostData(k, erased))),
                   Cardinality(erased))
<1>1. PICK ddf \in Nat, cdf \in Nat :
        /\ NumberLost(k, erased, ddf) /\ cdf = Cardinality(LostCoding(k, erased))
        /\ Len(ids) = k + ddf + cdf /\ Cardinality(erased) = ddf + cdf
  <2>1. /\ Cardinality(LostData(k, erased)) \in Nat /\ Cardinality(LostCoding(k, erased)) \in Nat
        /\ Len(ids) = k + Cardinality(LostData(k, erased)) + Cardinality(LostCoding(k, erased))
        /\ Cardinality(erased) = Cardinality(LostData(k, erased)) + Cardinality(LostCoding(k, erased))
    BY PointerFacts
  <2> QED BY <2>1 DEF NumberLost
<1>2. Len(ids) - k - ddf = cdf
  BY <1>1
<1>3. PICK data, coding : RealParts(k, w, bits, ids, ddf, cdf, data, coding)
  <2>1. Len(ids) - k - ddf \in Nat
    BY <1>2
  <2>2. \E data, coding : RealParts(k, w, bits, ids, ddf, Len(ids) - k - ddf, data, coding)
    BY <2>1, RealRowsParts
  <2> QED BY <1>2, <2>2
<1>4. DataRows(k, w, bits, ids, data, ddf)
  BY <1>1, <1>3, DataRowsRight DEF RealParts
<1>5. data \in Seq(SUBSET Columns(k, w)) /\ Len(data) = ddf * w
  <2>1. PICK n \in Nat : n = ddf * w
    OBVIOUS
  <2>2. data = [j \in 1..n |-> data[j]]
    BY <1>3, <2>1 DEF RealParts
  <2>3. ASSUME NEW c \in Columns(ddf, w) PROVE data[c + 1] \in SUBSET Columns(k, w)
    <3>1. PICK i \in 0..(ddf - 1), q \in 0..(w - 1) : c = At(w, i, q)
      BY ColumnIsAt
    <3> QED BY <1>4, <3>1 DEF DataRows, MakesAgain, Nth
  <2> QED BY <2>1, <2>2, <2>3, TabulatedRows
<1>6. ASSUME NEW i \in 0..(cdf - 1), NEW q \in 0..(w - 1)
      PROVE  MakesAgain(k, w, bits, ids, Nth(coding, At(w, i, q)), Nth(ids, k + (ddf + i)), q)
  <2>1. PICK c \in Columns(cdf, w) : c = At(w, i, q) /\ c \div w = i /\ c % w = q
    <3>1. /\ At(w, i, q) \in Columns(cdf, w)
          /\ At(w, i, q) \div w = i /\ At(w, i, q) % w = q
      BY ColumnAt
    <3> QED BY <3>1
  <2>2. c + 1 \in 1..(cdf * w) /\ (c + 1) - 1 = c
    BY DEF Columns
  <2>3. PICK d \in k..(k + m - 1) : d = Nth(ids, k + ddf + i)
    <3>1. Nth(ids, k + ddf + i) \in LostCoding(k, erased)
      BY <1>1 DEF PointersRight, NumberLost
    <3>2. \A d \in LostCoding(k, erased) : d \in k..(k + m - 1)
      BY DEF LostCoding, LossOf
    <3> QED BY <3>1, <3>2
  <2>4. k + ddf + i = k + (ddf + i)
    OBVIOUS
  <2> DEFINE row == Generated(k, w, bits, d, q)
  <2>5. row \in SUBSET Columns(k, w)
    <3>1. d \in 0..(k + m - 1)
      OBVIOUS
    <3> QED BY <3>1, GeneratedOn
  <2>6. Nth(coding, c) = Replacing(k, w, ids, data, row)
    <3>1. coding[c + 1] = Replacing(k, w, ids, data,
                            Nth(bits, (Nth(ids, k + ddf + c \div w) - k) * w + (c % w)))
      BY <1>3, <2>2 DEF RealParts
    <3>2. row = Nth(bits, (d - k) * w + q)
      BY DEF Generated
    <3> QED BY <2>1, <2>3, <3>1, <3>2 DEF Nth
  <2> HIDE DEF row
  <2>7. /\ Replacing(k, w, ids, data, row) \in SUBSET Columns(k, w)
        /\ Determines(k, w, bits, Behind(k, ids)) =>
             Sum(SourceRows(k, w, bits, ids), Replacing(k, w, ids, data, row)) = row
    BY <1>1, <1>4, <2>5, ReplacingRight DEF NumberLost
  <2> QED BY <2>1, <2>3, <2>4, <2>6, <2>7 DEF MakesAgain, row
<1>7. coding \in Seq(SUBSET Columns(k, w)) /\ Len(coding) = cdf * w
  <2>1. PICK n \in Nat : n = cdf * w
    OBVIOUS
  <2>2. coding = [j \in 1..n |-> coding[j]]
    BY <1>3, <2>1 DEF RealParts
  <2>3. ASSUME NEW c \in Columns(cdf, w) PROVE coding[c + 1] \in SUBSET Columns(k, w)
    <3>1. PICK i \in 0..(cdf - 1), q \in 0..(w - 1) : c = At(w, i, q)
      BY ColumnIsAt
    <3> QED BY <1>6, <3>1 DEF MakesAgain, Nth
  <2> QED BY <2>1, <2>2, <2>3, TabulatedRows
<1> DEFINE rows == data \o coding
<1>8. /\ rows \in Seq(SUBSET Columns(k, w)) /\ Len(rows) = (ddf + cdf) * w
      /\ \A i \in 0..(ddf - 1) : \A q \in 0..(w - 1) :
           Nth(rows, At(w, i, q)) = Nth(data, At(w, i, q))
      /\ \A i \in 0..(cdf - 1) : \A q \in 0..(w - 1) :
           Nth(rows, At(w, ddf + i, q)) = Nth(coding, At(w, i, q))
  <2> DEFINE S == SUBSET Columns(k, w)
  <2>1. BlocksOf(S, w, ddf, data) /\ BlocksOf(S, w, cdf, coding)
    BY <1>5, <1>7 DEF BlocksOf
  <2> HIDE DEF S
  <2>2. /\ BlocksOf(S, w, ddf + cdf, data \o coding)
        /\ JoinedAt(w, ddf, cdf, data, coding, data \o coding)
    BY <2>1, JoinedRows
  <2> HIDE DEF rows
  <2>3. BlocksOf(S, w, ddf + cdf, rows) /\ JoinedAt(w, ddf, cdf, data, coding, rows)
    BY <2>2 DEF rows
  <2> QED BY <2>3 DEF BlocksOf, JoinedAt, S
<1> HIDE DEF rows
<1>9. ASSUME NEW i \in 0..((ddf + cdf) - 1), NEW q \in 0..(w - 1)
      PROVE  MakesAgain(k, w, bits, ids, Nth(rows, At(w, i, q)), Nth(ids, k + i), q)
  <2>1. CASE i \in 0..(ddf - 1)
    BY <1>4, <1>8, <2>1 DEF DataRows
  <2>2. CASE i \notin 0..(ddf - 1)
    <3>1. i - ddf \in 0..(cdf - 1) /\ ddf + (i - ddf) = i
      BY <2>2
    <3> QED BY <1>6, <1>8, <3>1
  <2> QED BY <2>1, <2>2
<1>10. RowsAgain(k, w, bits, ids, rows, ddf + cdf)
  BY <1>8, <1>9 DEF RowsAgain, RowsOn
<1>11. rows = real_decoding_matrix(k, w, bits, ids, Cardinality(LostData(k, erased)))
  BY <1>1, <1>3 DEF rows, NumberLost, RealParts
<1> QED BY <1>1, <1>10, <1>11
-----------------------------------------------------------------------------
(***************************************************************************)
(* Contents of drives.  Packet p of data drive d is the bit <<d, p>>, that *)
(* of a coding drive the sum of those that its row names.                  *)
(***************************************************************************)
Regions(n, l) == [0..(n - 1) -> [1..l -> SUBSET (Nat \X Nat)]]

\* Packet p of drive d as it is to be
Code(k, w, bits, d, p) ==
  {<<c \div w, (p - (p % w)) + (c % w)>> : c \in Generated(k, w, bits, d, p % w)}

\* The stripe whose first packet is b: of the data drives, and behind the columns
\* when ids are the drives behind the positions
Own(k, w, b) == [c \in Columns(k, w) |-> {<<c \div w, b + (c % w)>>}]
StripeAt(k, w, drives, ids, b) ==
  [c \in Columns(k, w) |-> Nth(drives[Nth(ids, c \div w)], b + (c % w))]

LEMMA OwnSum ==
  ASSUME NEW k \in Nat, NEW w \in Nat \ {0}, NEW b \in Nat, NEW row \in SUBSET Columns(k, w)
  PROVE  Sum(Own(k, w, b), row) = {<<c \div w, b + (c % w)>> : c \in row}
<1> DEFINE F == Own(k, w, b)
           T == {<<c \div w, b + (c % w)>> : c \in row}
<1>1. IsFiniteSet(row)
  BY RowCardinality
<1>2. \A c \in row : F[c] = {<<c \div w, b + (c % w)>>}
  BY DEF Own
<1> HIDE DEF F
<1>3. ASSUME NEW c \in row, NEW e \in row,
             <<c \div w, b + (c % w)>> = <<e \div w, b + (e % w)>>
      PROVE  c = e
  <2>1. PICK c1 \in Nat, c2 \in Nat : c1 = c \div w /\ c2 = c % w /\ c = c1 * w + c2
    BY ColumnFacts
  <2>2. PICK e1 \in Nat, e2 \in Nat : e1 = e \div w /\ e2 = e % w /\ e = e1 * w + e2
    BY ColumnFacts
  <2>3. c1 = e1 /\ b + c2 = b + e2
    BY <1>3, <2>1, <2>2
  <2>4. c2 = e2
    BY <2>3
  <2> QED BY <2>1, <2>2, <2>3, <2>4
<1>4. ASSUME NEW x PROVE x \in Sum(F, row) <=> x \in T
  <2>1. x \in Sum(F, row) <=> Odd(Having(x, F, row))
    BY <1>1, SumMember
  <2>2. CASE x \in T
    <3>1. PICK c \in row : x = <<c \div w, b + (c % w)>>
      BY <2>2
    <3>2. \A e \in row : x \in F[e] <=> e = c
      BY <1>2, <1>3, <3>1
    <3>3. Having(x, F, row) = {c}
      BY <3>2 DEF Having
    <3> QED BY <2>1, <2>2, <3>3, OddSmall
  <2>3. CASE x \notin T
    <3>1. \A e \in row : x \notin F[e]
      BY <1>2, <2>3
    <3>2. Having(x, F, row) = {}
      BY <3>1 DEF Having
    <3> QED BY <2>1, <2>3, <3>2, OddSmall
  <2> QED BY <2>2, <2>3
<1> QED BY <1>4 DEF F

\* The number of a packet is that of its stripe's first one and its place there.
LEMMA PacketFacts ==
  ASSUME NEW w \in Nat \ {0}, NEW p \in Nat
  PROVE  /\ p % w \in 0..(w - 1) /\ p - (p % w) \in Nat
         /\ (p - (p % w)) % w = 0 /\ p - (p % w) = (p \div w) * w
         /\ \A q \in 0..(w - 1) : /\ ((p - (p % w)) + q) % w = q
                                  /\ ((p - (p % w)) + q) - (((p - (p % w)) + q) % w) = p - (p % w)
<1>1. PICK a \in Nat, r \in 0..(w - 1) : a = p \div w /\ r = p % w /\ p = a * w + r
  BY DivMod
<1>2. a * w \in Nat /\ p - r = a * w
  BY <1>1
<1>3. ASSUME NEW q \in 0..(w - 1) PROVE (a * w + q) % w = q /\ (a * w + q) - q = a * w
  <2>1. (a * w + q) % w = q
    BY DivMod
  <2> QED BY <1>2, <2>1
<1>4. (a * w) % w = 0
  <2>1. (a * w + 0) % w = 0
    BY <1>3
  <2> QED BY <1>2, <2>1
<1> QED BY <1>1, <1>2, <1>3, <1>4

CodeShaped(k, w, bits, d, p) ==
  /\ Code(k, w, bits, d, p) = Sum(Own(k, w, p - (p % w)), Generated(k, w, bits, d, p % w))
  /\ d < k => Code(k, w, bits, d, p) = {<<d, p>>}
  /\ Code(k, w, bits, d, p) \in SUBSET (Nat \X Nat)

LEMMA CodeShape ==
  ASSUME NEW k \in Nat, NEW m \in Nat, NEW w \in Nat \ {0}, NEW bits, BitsFor(k, m, w, bits),
         NEW d \in 0..(k + m - 1), NEW p \in Nat
  PROVE  CodeShaped(k, w, bits, d, p)
<1>1. PICK b \in Nat, q \in 0..(w - 1) : b = p - (p % w) /\ q = p % w /\ b + q = p
  <2>1. p % w \in 0..(w - 1) /\ p - (p % w) \in Nat
    BY PacketFacts
  <2>2. (p - (p % w)) + (p % w) = p
    BY <2>1
  <2> QED BY <2>1, <2>2
<1> DEFINE row == Generated(k, w, bits, d, q)
<1>2. row \in SUBSET Columns(k, w)
  BY GeneratedOn
<1>3. Sum(Own(k, w, b), row) = {<<c \div w, b + (c % w)>> : c \in row}
  <2> HIDE DEF row
  <2> QED BY <1>2, OwnSum
<1>4. Code(k, w, bits, d, p) = {<<c \div w, b + (c % w)>> : c \in row}
  BY <1>1 DEF Code
<1>5. ASSUME d < k PROVE {<<c \div w, b + (c % w)>> : c \in row} = {<<d, p>>}
  <2>1. row = {d * w + q}
    BY <1>5 DEF Generated
  <2>2. (d * w + q) \div w = d /\ (d * w + q) % w = q
    <3>1. d \in Nat
      OBVIOUS
    <3> QED BY <3>1, DivMod
  <2> HIDE DEF row
  <2> QED BY <1>1, <2>1, <2>2
<1>6. \A c \in row : c \div w \in Nat /\ b + (c % w) \in Nat
  <2>1. \A c \in Columns(k, w) : c \div w \in Nat /\ c % w \in Nat
    BY ColumnFacts
  <2> HIDE DEF row
  <2> QED BY <1>2, <2>1
<1> HIDE DEF row
<1>7. {<<c \div w, b + (c % w)>> : c \in row} \in SUBSET (Nat \X Nat)
  BY <1>6
<1> QED BY <1>1, <1>3, <1>4, <1>5, <1>7 DEF CodeShaped, row

LEMMA CodeFactsOf ==
  ASSUME NEW k \in Nat, NEW m \in Nat, NEW w \in Nat \ {0}, NEW bits, BitsFor(k, m, w, bits),
         NEW d \in 0..(k + m - 1), NEW p \in Nat
  PROVE  /\ Code(k, w, bits, d, p)
              = Sum(Own(k, w, p - (p % w)), Generated(k, w, bits, d, p % w))
         /\ d < k => Code(k, w, bits, d, p) = {<<d, p>>}
         /\ Code(k, w, bits, d, p) \in SUBSET (Nat \X Nat)
<1>1. CodeShaped(k, w, bits, d, p)
  BY CodeShape
<1> QED BY <1>1 DEF CodeShaped

LEMMA CodeOnData ==
  ASSUME NEW k \in Nat, NEW m \in Nat, NEW w \in Nat \ {0}, NEW bits, BitsFor(k, m, w, bits),
         NEW d \in 0..(k - 1), NEW p \in Nat
  PROVE  Code(k, w, bits, d, p) = {<<d, p>>}
<1>1. PICK e : e = d /\ e \in 0..(k + m - 1) /\ e < k
  OBVIOUS
<1>2. CodeShaped(k, w, bits, e, p)
  BY <1>1, CodeShape
<1> QED BY <1>1, <1>2 DEF CodeShaped

\* The drives of ids hold what they are to hold, up to packet reach.
Holding(k, w, bits, drives, ids, reach) ==
  \A i \in 0..(k - 1) : \A p \in 0..(reach - 1) :
    Nth(drives[Nth(ids, i)], p) = Code(k, w, bits, Nth(ids, i), p)

Whole(w, reach) == reach % w = 0

LEMMA WholeStripe ==
  ASSUME NEW w \in Nat \ {0}, NEW reach \in Nat, Whole(w, reach), NEW p \in 0..(reach - 1)
  PROVE  \A q \in 0..(w - 1) : (p - (p % w)) + q \in 0..(reach - 1)
<1>0. p \in Nat
  OBVIOUS
<1>1. PICK a \in Nat : reach = a * w
  <2>1. PICK x \in Nat, y \in Nat : x = reach \div w /\ y = reach % w /\ reach = x * w + y
    <3>1. reach = (reach \div w) * w + (reach % w)
      BY DivMod
    <3>2. reach \div w \in Nat /\ reach % w \in 0..(w - 1)
      BY DivMod
    <3> QED BY <3>1, <3>2
  <2>2. y = 0
    BY <2>1 DEF Whole
  <2>3. x * w \in Nat
    OBVIOUS
  <2> QED BY <2>1, <2>2, <2>3
<1>2. PICK b \in 0..(a - 1), r \in 0..(w - 1) : p = b * w + r /\ r = p % w
  <2>1. p \div w \in 0..(a - 1)
    BY <1>1, DivModBelow
  <2>2. p = (p \div w) * w + (p % w) /\ p % w \in 0..(w - 1)
    BY <1>0, DivMod
  <2> QED BY <2>1, <2>2
<1>3. ASSUME NEW q \in 0..(w - 1) PROVE (p - (p % w)) + q \in 0..(reach - 1)
  <2>1. b * w + q \in 0..(a * w - 1)
    BY DivModBelow
  <2>2. p - r = b * w
    BY <1>2
  <2> QED BY <1>1, <1>2, <2>1, <2>2
<1> QED BY <1>3

\* What a row of columns is worth: if the columns it is made of are those of packet
\* q of drive d, it gives the packets q of that drive.
LEMMA StripeSum ==
  ASSUME NEW k \in Nat, NEW m \in Nat, NEW w \in Nat \ {0}, NEW bits, BitsFor(k, m, w, bits),
         NEW ids, IdsFor(k, m, ids), NEW reach \in Nat, Whole(w, reach), NEW drives,
         Holding(k, w, bits, drives, ids, reach),
         NEW p \in 0..(reach - 1), NEW row \in SUBSET Columns(k, w), NEW d \in 0..(k + m - 1),
         Sum(SourceRows(k, w, bits, ids), row) = Generated(k, w, bits, d, p % w)
  PROVE  Sum(StripeAt(k, w, drives, ids, p - (p % w)), row) = Code(k, w, bits, d, p)
<1>0. p \in Nat
  OBVIOUS
<1>1. PICK b \in Nat : b = p - (p % w)
  <2>1. p - (p % w) \in Nat
    BY <1>0, PacketFacts
  <2> QED BY <2>1
<1> DEFINE F == Own(k, w, b)
           G == SourceRows(k, w, bits, ids)
           H == [c \in row |-> Sum(F, G[c])]
           S == StripeAt(k, w, drives, ids, b)
<1>2. IsFiniteSet(row)
  BY RowCardinality
<1>3. ASSUME NEW c \in row PROVE IsFiniteSet(G[c]) /\ S[c] = H[c]
  <2>1. PICK i \in 0..(k - 1), q \in 0..(w - 1) : i = c \div w /\ q = c % w /\ c = i * w + q
    BY ColumnParts
  <2>2. PICK j \in 0..(k + m - 1) : j = Nth(ids, i)
    BY DEF IdsFor
  <2>3. G[c] = Generated(k, w, bits, j, q)
    BY <2>1, <2>2 DEF SourceRows
  <2>4. G[c] \in SUBSET Columns(k, w)
    BY <2>3, GeneratedOn
  <2>5. PICK x \in 0..(reach - 1) : x = b + q
    BY <1>1, WholeStripe
  <2>6. x % w = q /\ x - (x % w) = b
    <3>1. ((p - (p % w)) + q) % w = q
      BY <1>0, PacketFacts
    <3>2. ((p - (p % w)) + q) - (((p - (p % w)) + q) % w) = p - (p % w)
      BY <1>0, PacketFacts
    <3> QED BY <1>1, <2>5, <3>1, <3>2
  <2>7. S[c] = Nth(drives[j], x)
    BY <2>1, <2>2, <2>5 DEF StripeAt
  <2>8. Nth(drives[j], x) = Code(k, w, bits, j, x)
    BY <2>2 DEF Holding
  <2>9. Code(k, w, bits, j, x) = Sum(F, G[c])
    <3>1. x \in Nat
      OBVIOUS
    <3>2. Code(k, w, bits, j, x) = Sum(Own(k, w, x - (x % w)), Generated(k, w, bits, j, x % w))
      BY <3>1, CodeFactsOf
    <3> QED BY <2>3, <2>6, <3>2
  <2>10. IsFiniteSet(G[c])
    BY <2>4, RowCardinality
  <2> HIDE DEF F, G, S
  <2> QED BY <2>7, <2>8, <2>9, <2>10
<1> HIDE DEF F, G, S
<1>4. Sum(S, row) = Sum(H, row)
  <2> HIDE DEF H
  <2> QED BY <1>3, SumSame
<1>5. Sum(F, Sum(G, row)) = Sum(H, row)
  BY <1>2, <1>3, SumOverSum
<1>6. Sum(F, Sum(G, row)) = Code(k, w, bits, d, p)
  <2>1. p \in Nat
    OBVIOUS
  <2>2. Code(k, w, bits, d, p) = Sum(Own(k, w, p - (p % w)), Generated(k, w, bits, d, p % w))
    BY <2>1, CodeFactsOf
  <2> QED BY <1>1, <2>2 DEF F, G
<1> QED BY <1>1, <1>4, <1>5, <1>6 DEF S
-----------------------------------------------------------------------------
(***************************************************************************)
(* What encoding and decoding write.  Of the drives old those of T have    *)
(* been written to: up to packet reach they hold what they are to hold.    *)
(***************************************************************************)
Stage(k, m, w, bits, old, new, T, reach, l) ==
  /\ new \in Regions(k + m, l)
  /\ \A d \in 0..(k + m - 1) : \A p \in 0..(l - 1) :
       Nth(new[d], p) = IF d \in T /\ p < reach THEN Code(k, w, bits, d, p) ELSE Nth(old[d], p)

\* rows make drive dest out of the drives of ids.
RowsMake(k, w, bits, ids, rows, dest) ==
  \A q \in 0..(w - 1) :
    /\ Nth(rows, q) \in SUBSET Columns(k, w)
    /\ Nth(rows, q) # {}
    /\ Sum(SourceRows(k, w, bits, ids), Nth(rows, q)) = Generated(k, w, bits, dest, q)

\* A whole number of stripes that the regions have room for
Room(w, reach, l) == reach \in Nat /\ l \in Nat /\ reach <= l /\ Whole(w, reach)

\* The packets of the destination after a dot product
Dotted(k, w, rows, ids, dest, drives, reach, l) ==
  [j \in 1..l |-> IF j - 1 >= reach THEN Nth(drives[dest], j - 1)
                  ELSE Sum(StripeAt(k, w, drives, ids, (j - 1) - ((j - 1) % w)),
                           Nth(rows, (j - 1) % w))]

WrittenTo(drives, dest, content) == [drives EXCEPT ![dest] = content]

RowsUsed(k, w, rows) ==
  \A q \in 0..(w - 1) : Nth(rows, q) \in SUBSET Columns(k, w) /\ Nth(rows, q) # {}

LEMMA RegionFacts ==
  ASSUME NEW n \in Nat, NEW l \in Nat, NEW drives \in Regions(n, l), NEW d \in 0..(n - 1)
  PROVE  /\ DOMAIN drives = 0..(n - 1)
         /\ drives[d] \in [1..l -> SUBSET (Nat \X Nat)] /\ Len(drives[d]) = l
         /\ \A p \in 0..(l - 1) : p + 1 \in 1..l /\ Nth(drives[d], p) \in SUBSET (Nat \X Nat)
<1>1. DOMAIN drives = 0..(n - 1) /\ drives[d] \in [1..l -> SUBSET (Nat \X Nat)]
  BY DEF Regions
<1>2. drives[d] \in Seq(SUBSET (Nat \X Nat)) /\ Len(drives[d]) = l
  <2> DEFINE S == SUBSET (Nat \X Nat)
  <2>1. ASSUME NEW s \in [1..l -> S] PROVE s \in Seq(S) /\ Len(s) = l
    <3> HIDE DEF S
    <3> QED OBVIOUS
  <2> QED BY <1>1, <2>1
<1>3. ASSUME NEW p \in 0..(l - 1)
      PROVE  p + 1 \in 1..l /\ Nth(drives[d], p) \in SUBSET (Nat \X Nat)
  <2>1. p + 1 \in 1..l
    OBVIOUS
  <2>2. drives[d][p + 1] \in SUBSET (Nat \X Nat)
    BY <1>1, <2>1
  <2> QED BY <2>1, <2>2 DEF Nth
<1> QED BY <1>1, <1>2, <1>3

LEMMA WholeSize ==
  ASSUME NEW w \in Nat \ {0}, NEW reach \in Nat, NEW l, Room(w, reach, l)
  PROVE  (reach * 8) % (w * 8) = 0
<1>1. PICK x \in Nat, y \in 0..(w - 1) : x = reach \div w /\ y = reach % w /\ reach = x * w + y
  <2>1. reach = (reach \div w) * w + (reach % w)
    BY DivMod
  <2>2. reach \div w \in Nat /\ reach % w \in 0..(w - 1)
    BY DivMod
  <2> QED BY <2>1, <2>2
<1>2. y = 0
  BY <1>1 DEF Room, Whole
<1>3. PICK v \in Nat \ {0} : v = w * 8
  OBVIOUS
<1>4. reach * 8 = x * v + 0
  BY <1>1, <1>2, <1>3
<1>5. (x * v + 0) % v = 0
  <2>1. 0 \in 0..(v - 1)
    OBVIOUS
  <2> QED BY <2>1, DivMod
<1> QED BY <1>3, <1>4, <1>5

LEMMA DotRight ==
  ASSUME NEW k \in Nat, NEW w \in Nat \ {0}, NEW n \in Nat, NEW l \in Nat, NEW reach \in Nat,
         Room(w, reach, l), NEW drives \in Regions(n, l), NEW dest \in 0..(n - 1),
         NEW ids, NEW rows, RowsUsed(k, w, rows)
  PROVE  jerasure_bitmatrix_dotprod(w, rows, ids, dest, drives, reach * 8, 8)
           = WrittenTo(drives, dest, Dotted(k, w, rows, ids, dest, drives, reach, l))
<1> DEFINE Packet(p) ==
             LET row == Nth(rows, p % w)
                 Source(c) == Nth(drives[ids[c \div w + 1]], (p - (p % w)) + (c % w))
             IN  IF p * 8 >= reach * 8 \/ row = {} THEN Nth(drives[dest], p)
                 ELSE XorSum(Source, row)
<1>1. (reach * 8) % (w * 8) = 0
  BY WholeSize
<1>2. jerasure_bitmatrix_dotprod(w, rows, ids, dest, drives, reach * 8, 8)
        = [drives EXCEPT ![dest] = Tabulate(Len(drives[dest]), Packet)]
  BY <1>1 DEF jerasure_bitmatrix_dotprod
<1>3. Tabulate(Len(drives[dest]), Packet) = [j \in 1..l |-> Packet(j - 1)]
  <2>1. Len(drives[dest]) = l
    BY RegionFacts
  <2> HIDE DEF Packet
  <2> QED BY <2>1 DEF Tabulate
<1>4. ASSUME NEW j \in 1..l
      PROVE  Packet(j - 1) = Dotted(k, w, rows, ids, dest, drives, reach, l)[j]
  <2>1. PICK p \in Nat : p = j - 1
    OBVIOUS
  <2> DEFINE row == Nth(rows, p % w)
             Source(c) == Nth(drives[ids[c \div w + 1]], (p - (p % w)) + (c % w))
             F == StripeAt(k, w, drives, ids, p - (p % w))
  <2>2. row # {} /\ row \in SUBSET Columns(k, w)
    <3>1. p % w \in 0..(w - 1)
      BY DivMod
    <3> QED BY <3>1 DEF RowsUsed
  <2>3. XorSum(Source, row) = Sum(F, row)
    <3>1. XorSum(Source, row)
            = {b \in UNION {Source(i) : i \in row} : Cardinality({i \in row : b \in Source(i)}) % 2 = 1}
      BY DEF XorSum
    <3>2. \A i \in row : F[i] = Source(i)
      BY <2>2 DEF StripeAt, Nth
    <3> HIDE DEF F, Source, row
    <3>3. {Source(i) : i \in row} = {F[i] : i \in row}
      BY <3>2
    <3>4. \A b : {i \in row : b \in Source(i)} = {i \in row : b \in F[i]}
      BY <3>2
    <3> QED BY <3>1, <3>3, <3>4 DEF Sum, Having, Odd
  <2>4. Packet(p) = IF p * 8 >= reach * 8 THEN Nth(drives[dest], p) ELSE Sum(F, row)
    <3> HIDE DEF F
    <3> QED BY <2>2, <2>3
  <2>5. p * 8 >= reach * 8 <=> p >= reach
    OBVIOUS
  <2>6. Dotted(k, w, rows, ids, dest, drives, reach, l)[j]
          = IF p >= reach THEN Nth(drives[dest], p) ELSE Sum(F, row)
    BY <2>1 DEF Dotted
  <2> HIDE DEF F, row, Packet
  <2> QED BY <2>1, <2>4, <2>5, <2>6
<1> HIDE DEF Packet
<1>5. [j \in 1..l |-> Packet(j - 1)] = Dotted(k, w, rows, ids, dest, drives, reach, l)
  BY <1>4 DEF Dotted
<1> QED BY <1>2, <1>3, <1>5 DEF WrittenTo
\* A dot product whose sources hold what they are to hold adds its destination.
LEMMA DotStage ==
  ASSUME NEW k \in Nat, NEW m \in Nat, NEW w \in Nat \ {0}, NEW bits, BitsFor(k, m, w, bits),
         NEW l \in Nat, NEW reach \in Nat, Room(w, reach, l),
         NEW old, NEW new, NEW T, Stage(k, m, w, bits, old, new, T, reach, l),
         NEW ids, IdsFor(k, m, ids), Holding(k, w, bits, new, ids, reach),
         NEW dest \in 0..(k + m - 1), NEW rows, RowsMake(k, w, bits, ids, rows, dest)
  PROVE  Stage(k, m, w, bits, old,
               jerasure_bitmatrix_dotprod(w, rows, ids, dest, new, reach * 8, 8),
               T \cup {dest}, reach, l)
<1> DEFINE D == Dotted(k, w, rows, ids, dest, new, reach, l)
           made == [new EXCEPT ![dest] = D]
<1>1. RowsUsed(k, w, rows)
  BY DEF RowsUsed, RowsMake
<1>2. new \in Regions(k + m, l)
  BY DEF Stage
<1>3. jerasure_bitmatrix_dotprod(w, rows, ids, dest, new, reach * 8, 8) = made
  <2>1. PICK n \in Nat : n = k + m
    OBVIOUS
  <2>2. dest \in 0..(n - 1) /\ new \in Regions(n, l)
    BY <1>2, <2>1
  <2>3. jerasure_bitmatrix_dotprod(w, rows, ids, dest, new, reach * 8, 8)
          = WrittenTo(new, dest, Dotted(k, w, rows, ids, dest, new, reach, l))
    BY <1>1, <2>2, DotRight
  <2> QED BY <2>3 DEF WrittenTo
<1>4. ASSUME NEW p \in 0..(l - 1)
      PROVE  Nth(D, p) = IF p < reach THEN Code(k, w, bits, dest, p) ELSE Nth(old[dest], p)
  <2>1. p \in Nat /\ p + 1 \in 1..l /\ (p + 1) - 1 = p
    OBVIOUS
  <2>2. Nth(D, p) = IF p >= reach THEN Nth(new[dest], p)
                    ELSE Sum(StripeAt(k, w, new, ids, p - (p % w)), Nth(rows, p % w))
    BY <2>1 DEF Dotted, Nth
  <2>3. CASE p >= reach
    <3>1. Nth(new[dest], p) = Nth(old[dest], p)
      BY <2>3 DEF Stage
    <3> QED BY <2>2, <2>3, <3>1
  <2>4. CASE p < reach
    <3>1. p \in 0..(reach - 1) /\ Whole(w, reach)
      BY <2>4 DEF Room
    <3>2. PICK q \in 0..(w - 1) : q = p % w
      BY <2>1, PacketFacts
    <3>3. /\ Nth(rows, q) \in SUBSET Columns(k, w)
          /\ Sum(SourceRows(k, w, bits, ids), Nth(rows, q)) = Generated(k, w, bits, dest, q)
      BY DEF RowsMake
    <3>4. Sum(StripeAt(k, w, new, ids, p - (p % w)), Nth(rows, q)) = Code(k, w, bits, dest, p)
      BY <3>1, <3>2, <3>3, StripeSum
    <3> QED BY <2>2, <2>4, <3>2, <3>4
  <2> QED BY <2>3, <2>4
<1>5. made \in Regions(k + m, l)
  <2>1. ASSUME NEW j \in 1..l PROVE D[j] \in SUBSET (Nat \X Nat)
    <3>1. PICK p \in 0..(l - 1) : j = p + 1
      <4>1. j - 1 \in 0..(l - 1) /\ j = (j - 1) + 1
        OBVIOUS
      <4> QED BY <4>1
    <3>2. p \in Nat
      OBVIOUS
    <3>3. Code(k, w, bits, dest, p) \in SUBSET (Nat \X Nat)
      BY <3>2, CodeFactsOf
    <3>4. p >= reach => Nth(D, p) = Nth(new[dest], p)
      <4>1. p >= reach => Nth(new[dest], p) = Nth(old[dest], p)
        BY DEF Stage
      <4> QED BY <1>4, <4>1
    <3>5. Nth(new[dest], p) \in SUBSET (Nat \X Nat)
      <4>1. k + m \in Nat
        OBVIOUS
      <4> QED BY <1>2, <4>1, RegionFacts
    <3>6. Nth(D, p) \in SUBSET (Nat \X Nat)
      BY <1>4, <3>3, <3>4, <3>5
    <3> QED BY <3>1, <3>6 DEF Nth
  <2>2. D \in [1..l -> SUBSET (Nat \X Nat)]
    BY <2>1 DEF Dotted
  <2> HIDE DEF D
  <2> QED BY <1>2, <2>2 DEF Regions
<1>6. ASSUME NEW d \in 0..(k + m - 1), NEW p \in 0..(l - 1)
      PROVE  Nth(made[d], p) = IF d \in T \cup {dest} /\ p < reach THEN Code(k, w, bits, d, p)
                               ELSE Nth(old[d], p)
  <2>1. Nth(new[d], p) = IF d \in T /\ p < reach THEN Code(k, w, bits, d, p) ELSE Nth(old[d], p)
    BY DEF Stage
  <2>2. DOMAIN new = 0..(k + m - 1)
    BY <1>2 DEF Regions
  <2> HIDE DEF D
  <2>3. made[d] = IF d = dest THEN D ELSE new[d]
    BY <2>2
  <2> QED BY <1>4, <2>1, <2>3
<1> HIDE DEF made
<1> QED BY <1>3, <1>5, <1>6 DEF Stage
\* The drives of K hold what they are to hold.
Keeps(k, w, bits, old, K, reach) ==
  \A d \in K : \A p \in 0..(reach - 1) : Nth(old[d], p) = Code(k, w, bits, d, p)

LEMMA StageHolds ==
  ASSUME NEW k \in Nat, NEW m \in Nat, NEW w \in Nat \ {0}, NEW bits,
         NEW l \in Nat, NEW reach \in Nat, Room(w, reach, l),
         NEW old, NEW new, NEW T, Stage(k, m, w, bits, old, new, T, reach, l),
         NEW K, Keeps(k, w, bits, old, K, reach),
         NEW ids, IdsFor(k, m, ids), Behind(k, ids) \subseteq T \cup K
  PROVE  Holding(k, w, bits, new, ids, reach)
<1>1. ASSUME NEW i \in 0..(k - 1), NEW p \in 0..(reach - 1)
      PROVE  Nth(new[Nth(ids, i)], p) = Code(k, w, bits, Nth(ids, i), p)
  <2>1. PICK d \in 0..(k + m - 1) : d = Nth(ids, i)
    BY DEF IdsFor
  <2>2. d \in T \cup K
    BY <2>1 DEF Behind
  <2>3. p \in 0..(l - 1) /\ p < reach
    BY DEF Room
  <2>4. Nth(new[d], p) = IF d \in T /\ p < reach THEN Code(k, w, bits, d, p) ELSE Nth(old[d], p)
    BY <2>3 DEF Stage
  <2>5. d \in K => Nth(old[d], p) = Code(k, w, bits, d, p)
    BY DEF Keeps
  <2> QED BY <2>1, <2>2, <2>3, <2>4, <2>5
<1> QED BY <1>1 DEF Holding

NoneEmpty(m, w, bits) == \A r \in 0..(m * w - 1) : Nth(bits, r) # {}

LEMMA BlocksFacts ==
  ASSUME NEW m \in Nat, NEW w \in Nat \ {0}, NEW S, NEW bits \in Seq(S),
         Len(bits) = m * w, NEW i \in 0..(m - 1), NEW q \in 0..(w - 1)
  PROVE  /\ At(w, i, q) \in 0..(m * w - 1) /\ At(w, i, q) = i * w + q
         /\ Nth(Blocks(bits, i, w), q) = Nth(bits, At(w, i, q))
         /\ Nth(bits, At(w, i, q)) \in S
<1>1. PICK a \in Nat, r \in Nat : a = i * w /\ r = a + q /\ r = At(w, i, q)
  BY DEF At
<1>2. (i + 1) * w = a + w
  BY <1>1
<1>3. PICK n \in Nat : n = m * w
  OBVIOUS
<1>4. r \in 0..(n - 1)
  BY <1>1, <1>3, DivModBelow
<1>5. Blocks(bits, i, w) = SubSeq(bits, a + 1, a + w)
  BY <1>1, <1>2 DEF Blocks
<1>6. SubSeq(bits, a + 1, a + w)[q + 1] = bits[r + 1]
  BY <1>1
<1>7. bits[r + 1] \in S
  BY <1>3, <1>4
<1> QED BY <1>1, <1>3, <1>4, <1>5, <1>6, <1>7 DEF Nth

LEMMA DataSources ==
  ASSUME NEW k \in Nat, NEW m \in Nat, NEW w \in Nat \ {0}, NEW bits, BitsFor(k, m, w, bits),
         NEW i \in 0..(m - 1), NoneEmpty(m, w, bits)
  PROVE  /\ IdsFor(k, m, Ids(k)) /\ Behind(k, Ids(k)) \subseteq 0..(k - 1)
         /\ RowsMake(k, w, bits, Ids(k), Blocks(bits, i, w), k + i)
<1>1. \A j \in 0..(k - 1) : Nth(Ids(k), j) = j /\ j \in 0..(k + m - 1)
  BY DEF Nth, Ids
<1>2. IdsFor(k, m, Ids(k)) /\ Behind(k, Ids(k)) \subseteq 0..(k - 1)
  BY <1>1 DEF IdsFor, Behind
<1>3. ASSUME NEW c \in Columns(k, w) PROVE SourceRows(k, w, bits, Ids(k))[c] = {c}
  <2>1. PICK a \in 0..(k - 1), q \in 0..(w - 1) : a = c \div w /\ q = c % w /\ c = a * w + q
    BY ColumnParts
  <2>2. Nth(Ids(k), a) = a /\ a < k
    BY <1>1
  <2> QED BY <2>1, <2>2 DEF SourceRows, Generated
<1>4. ASSUME NEW q \in 0..(w - 1)
      PROVE  LET row == Nth(Blocks(bits, i, w), q)
             IN  /\ row \in SUBSET Columns(k, w) /\ row # {}
                 /\ Sum(SourceRows(k, w, bits, Ids(k)), row) = Generated(k, w, bits, k + i, q)
  <2> DEFINE row == Nth(Blocks(bits, i, w), q)
  <2>1. /\ row = Nth(bits, At(w, i, q)) /\ At(w, i, q) \in 0..(m * w - 1) /\ At(w, i, q) = i * w + q
        /\ row \in SUBSET Columns(k, w)
    <3> DEFINE S == SUBSET Columns(k, w)
    <3>1. bits \in Seq(S) /\ Len(bits) = m * w
      BY DEF BitsFor, RowsOn
    <3> HIDE DEF S
    <3>2. /\ At(w, i, q) \in 0..(m * w - 1) /\ At(w, i, q) = i * w + q
          /\ Nth(Blocks(bits, i, w), q) = Nth(bits, At(w, i, q))
          /\ Nth(bits, At(w, i, q)) \in S
      BY <3>1, BlocksFacts
    <3> QED BY <3>2 DEF S
  <2>2. row # {}
    BY <2>1 DEF NoneEmpty
  <2>3. Generated(k, w, bits, k + i, q) = row
    <3>1. (k + i) - k = i /\ ~(k + i < k)
      OBVIOUS
    <3> QED BY <2>1, <3>1 DEF Generated
  <2>4. IsFiniteSet(row)
    BY <2>1, RowCardinality
  <2>5. \A c \in row : SourceRows(k, w, bits, Ids(k))[c] = {c}
    BY <1>3, <2>1
  <2> HIDE DEF row
  <2>6. Sum(SourceRows(k, w, bits, Ids(k)), row) = row
    BY <2>4, <2>5, SumOfUnits
  <2> QED BY <2>1, <2>2, <2>3, <2>6 DEF row
<1> QED BY <1>2, <1>4 DEF RowsMake
\* The data drives from first on and the coding drives before last, in the order that
\* they are written in
LEMMA StageStart ==
  ASSUME NEW k \in Nat, NEW m \in Nat, NEW w, NEW bits, NEW l, NEW reach,
         NEW old \in Regions(k + m, l)
  PROVE  Stage(k, m, w, bits, old, old, {}, reach, l)
BY DEF Stage

LEMMA EncodeRight ==
  ASSUME NEW k \in Nat, NEW m \in Nat, NEW w \in Nat \ {0}, NEW bits, BitsFor(k, m, w, bits),
         NoneEmpty(m, w, bits), NEW l \in Nat, NEW reach \in Nat, Room(w, reach, l),
         NEW old \in Regions(k + m, l), Keeps(k, w, bits, old, 0..(k - 1), reach)
  PROVE  Stage(k, m, w, bits, old,
               jerasure_bitmatrix_encode(k, m, w, bits, old, reach * 8, 8),
               k..(k + m - 1), reach, l)
<1> DEFINE n == m
           Q == Regions(k + m, l)
           Coding(d, i) ==
             jerasure_bitmatrix_dotprod(w, Blocks(bits, i, w), Ids(k), k + i, d, reach * 8, 8)
           body == [a \in Q \X (0..(n - 1)) |-> Coding(a[1], a[2])]
           F(f) == [j \in 0..n |-> IF j = 0 THEN old ELSE Coding(f[j - 1], j - 1)]
           pass == CHOOSE f : f = F(f)
           P == [i \in 0..n |-> {d \in Q : Stage(k, m, w, bits, old, d, k..(k + i - 1), reach, l)}]
<1>0. n = m
  OBVIOUS
<1>1. n \in Nat
  OBVIOUS
<1> HIDE DEF n
<1>2. old \in P[0]
  <2>1. k..(k + 0 - 1) = {}
    OBVIOUS
  <2>2. Stage(k, m, w, bits, old, old, {}, reach, l)
    BY StageStart
  <2> QED BY <1>1, <2>1, <2>2
<1>3. ASSUME NEW i \in 0..(n - 1), NEW d \in P[i]
      PROVE  /\ body[<<d, i>>] \in P[i + 1]
             /\ body[<<d, i>>] = Coding(d, i)
  <2> DEFINE T == k..(k + i - 1)
  <2>1. d \in Q /\ Stage(k, m, w, bits, old, d, T, reach, l)
    BY <1>1
  <2>2. /\ IdsFor(k, m, Ids(k)) /\ Behind(k, Ids(k)) \subseteq 0..(k - 1)
        /\ RowsMake(k, w, bits, Ids(k), Blocks(bits, i, w), k + i)
    BY <1>0, DataSources
  <2>3. PICK K : K = 0..(k - 1)
    OBVIOUS
  <2>4. Holding(k, w, bits, d, Ids(k), reach)
    <3> HIDE DEF T
    <3>1. Behind(k, Ids(k)) \subseteq T \cup K
      BY <2>2, <2>3
    <3>2. Keeps(k, w, bits, old, K, reach)
      BY <2>3
    <3> QED BY <2>1, <2>2, <3>1, <3>2, StageHolds
  <2>5. PICK dest \in 0..(k + m - 1) : dest = k + i
    BY <1>0
  <2>6. Stage(k, m, w, bits, old,
              jerasure_bitmatrix_dotprod(w, Blocks(bits, i, w), Ids(k), dest, d, reach * 8, 8),
              T \cup {dest}, reach, l)
    <3> HIDE DEF T
    <3>1. RowsMake(k, w, bits, Ids(k), Blocks(bits, i, w), dest)
      BY <2>2, <2>5
    <3> QED BY <2>1, <2>2, <2>4, <3>1, DotStage
  <2>7. T \cup {dest} = k..(k + (i + 1) - 1) /\ i + 1 \in 0..n
    <3>1. i \in Nat /\ i + 1 \in 0..n
      BY <1>1
    <3>2. \A d1 : d1 \in T \cup {dest} <=> d1 \in k..(k + (i + 1) - 1)
      BY <2>5, <3>1
    <3> QED BY <3>1, <3>2
  <2>8. Stage(k, m, w, bits, old, Coding(d, i), k..(k + (i + 1) - 1), reach, l)
    <3> HIDE DEF T
    <3> QED BY <2>5, <2>6, <2>7
  <2>9. Coding(d, i) \in Q
    BY <2>8 DEF Stage
  <2> HIDE DEF Q, Coding
  <2> QED BY <2>1, <2>7, <2>8, <2>9
<1>4. PICK f : f = [j \in 0..n |-> f[j]] /\ Passes(f, old, body, n) /\ \A i \in 0..n : f[i] \in P[i]
  <2> HIDE DEF P, body
  <2> QED BY <1>1, <1>2, <1>3, PassesHold
<1> HIDE DEF P, body
<1>5. f = F(f)
  <2>1. ASSUME NEW j \in 0..n PROVE f[j] = F(f)[j]
    <3>1. j # 0 => j - 1 \in 0..(n - 1) /\ j - 1 \in 0..n /\ (j - 1) + 1 = j
      BY <1>1
    <3> HIDE DEF Coding
    <3> QED BY <1>3, <1>4, <3>1 DEF Passes
  <2> QED BY <1>4, <2>1
<1>6. pass = F(pass)
  BY <1>5
<1>7. jerasure_bitmatrix_encode(k, m, w, bits, old, reach * 8, 8) = pass[n]
  <2>1. 8 % sizeof_long = 0
    BY DEF sizeof_long
  <2>2. (reach * 8) % (8 * w) = 0
    <3>1. 8 * w = w * 8
      OBVIOUS
    <3> QED BY <3>1, WholeSize
  <2> QED BY <2>1, <2>2 DEF jerasure_bitmatrix_encode, Loop, n
<1> HIDE DEF pass
<1> DEFINE R == {i \in 0..n : pass[i] \in P[i]}
<1>8. 0 \in R
  BY <1>1, <1>2, <1>6
<1>9. ASSUME NEW i \in 0..(n - 1), i \in R PROVE i + 1 \in R
  <2>1. pass[i + 1] = Coding(pass[i], i)
    <3>1. i + 1 \in 0..n /\ i + 1 # 0 /\ (i + 1) - 1 = i
      BY <1>1
    <3> HIDE DEF Coding
    <3> QED BY <1>6, <3>1
  <2>2. pass[i] \in P[i] /\ i + 1 \in 0..n
    BY <1>1, <1>9
  <2> HIDE DEF Coding
  <2> QED BY <1>3, <2>1, <2>2
<1> HIDE DEF R
<1>10. n \in R
  <2>1. PICK l1 \in Nat : l1 = n
    BY <1>1
  <2>2. 0 \in R /\ \A i \in 0..(l1 - 1) : i \in R => i + 1 \in R
    BY <1>8, <1>9, <2>1
  <2>3. \A i \in 0..l1 : i \in R
    BY <2>2, PassByPass
  <2> QED BY <2>1, <2>3
<1>11. Stage(k, m, w, bits, old, pass[n], k..(k + n - 1), reach, l)
  BY <1>1, <1>10 DEF R, P
<1> QED BY <1>0, <1>7, <1>11

(***************************************************************************)
(* Decoding by dot products.                                               *)
(***************************************************************************)
LEMMA SumOfSingles ==
  ASSUME NEW S, IsFiniteSet(S), NEW F, NEW g, \A c \in S : F[c] = {g[c]},
         \A c, e \in S : g[c] = g[e] => c = e
  PROVE  Sum(F, S) = {g[c] : c \in S}
<1> DEFINE T == {g[c] : c \in S}
<1>1. ASSUME NEW x PROVE x \in Sum(F, S) <=> x \in T
  <2>1. x \in Sum(F, S) <=> Odd(Having(x, F, S))
    BY SumMember
  <2>2. CASE x \in T
    <3>1. PICK c \in S : x = g[c]
      BY <2>2
    <3>2. \A e \in S : x \in F[e] <=> e = c
      BY <3>1
    <3>3. Having(x, F, S) = {c}
      BY <3>2 DEF Having
    <3>4. Odd({c})
      BY OddSmall
    <3> QED BY <2>1, <2>2, <3>3, <3>4
  <2>3. CASE x \notin T
    <3>1. \A e \in S : x \notin F[e]
      BY <2>3
    <3>2. Having(x, F, S) = {}
      BY <3>1 DEF Having
    <3>3. ~Odd(Having(x, F, S))
      BY <3>2, OddSmall
    <3> QED BY <2>1, <2>3, <3>3
  <2> QED BY <2>2, <2>3
<1> QED BY <1>1

LEMMA MaxFacts ==
  ASSUME NEW n \in Nat, NEW S \in SUBSET (0..(n - 1)), S # {}
  PROVE  Max(S) \in S /\ \A i \in S : i <= Max(S)
<1> DEFINE T == {n - i : i \in S}
<1>0. \A i \in S : i \in Nat /\ n - i \in Nat
  OBVIOUS
<1>1. T \in SUBSET Nat /\ T # {}
  BY <1>0
<1>2. PICK t \in T : \A j \in T : t <= j
  BY <1>1, LeastNatural
<1>3. PICK x \in S : t = n - x
  OBVIOUS
<1>4. ASSUME NEW i \in S PROVE i <= x
  <2>1. n - i \in T
    OBVIOUS
  <2>2. n - x <= n - i
    BY <1>2, <1>3, <2>1
  <2> QED BY <1>0, <2>2
<1> QED BY <1>4 DEF Max

\* The variable lastdrive: the last lost data drive, or k
LEMMA LastFacts ==
  ASSUME NEW k \in Nat, NEW m \in Nat, NEW ones \in BOOLEAN,
         NEW erased \in SUBSET (0..(k + m - 1))
  PROVE  /\ lastdrive(k, ones, erased) \in 0..k
         /\ lastdrive(k, ones, erased) < k =>
              ones /\ lastdrive(k, ones, erased) \in erased /\ k \notin erased
<1> DEFINE lost == {d \in erased : d < k}
<1>1. lost \in SUBSET (0..(k - 1))
  <2>1. \A d \in 0..(k + m - 1) : d < k => d \in 0..(k - 1)
    OBVIOUS
  <2> QED BY <2>1
<1>2. lost # {} => Max(lost) \in lost
  BY <1>1, MaxFacts
<1> HIDE DEF lost
<1>3. lastdrive(k, ones, erased) = IF lost = {} \/ ~ones \/ k \in erased THEN k ELSE Max(lost)
  BY DEF lastdrive, lost
<1> QED BY <1>1, <1>2, <1>3 DEF lost

Recovers(k, m, w, bits, erased) == Determines(k, w, bits, Behind(k, dm_ids(k, m, erased)))

LEMMA SourcesLeft ==
  ASSUME NEW k \in Nat, NEW m \in Nat, NEW erased, LossOf(k, m, erased)
  PROVE  /\ IdsFor(k, m, dm_ids(k, m, erased))
         /\ Behind(k, dm_ids(k, m, erased)) \subseteq Left(k, m, erased)
         /\ (0..(k - 1)) \ erased \subseteq Behind(k, dm_ids(k, m, erased))
         /\ Behind(k, row_ids(k, m, erased)) = Behind(k, dm_ids(k, m, erased))
<1>1. erased \in SUBSET (0..(k + m - 1)) /\ Cardinality(erased) <= m
  BY DEF LossOf
<1>2. \A i \in 0..(k - 1) : Nth(dm_ids(k, m, erased), i) \in Left(k, m, erased)
  BY <1>1, DmIdsRight
<1>3. Behind(k, row_ids(k, m, erased)) = Behind(k, dm_ids(k, m, erased))
  BY <1>1, SameSources
<1>4. \A i \in 0..(k - 1) : i \notin erased => Nth(row_ids(k, m, erased), i) = i
  <2>1. PointersRight(k, m, erased, row_ids(k, m, erased))
    BY <1>1, RowIdsRight
  <2> QED BY <2>1 DEF PointersRight
<1>5. (0..(k - 1)) \ erased \subseteq Behind(k, row_ids(k, m, erased))
  BY <1>4 DEF Behind
<1> QED BY <1>2, <1>3, <1>5 DEF IdsFor, Behind, Left

\* Row k is all ones, which a caller promises with row_k_ones.
Parity(k, w, bits) == \A r \in 0..(w - 1) : Nth(bits, r) = {j * w + r : j \in 0..(k - 1)}

\* If one data drive is lost and the first coding drive is not, that one is used.
LEMMA ParityIsUsed ==
  ASSUME NEW k \in Nat, NEW m \in Nat, NEW erased, LossOf(k, m, erased),
         NEW lost, lost \in erased, LostData(k, erased) = {lost}, k \notin erased
  PROVE  k \in Behind(k, dm_ids(k, m, erased))
<1>1. erased \in SUBSET (0..(k + m - 1)) /\ Cardinality(erased) <= m
  BY DEF LossOf
<1>2. m # 0
  <2>1. IsFiniteSet(erased)
    <3>1. IsFiniteSet(0..(k + m - 1))
      BY FS_Interval
    <3> QED BY <1>1, <3>1, FS_Subset
  <2>2. Cardinality(erased) \in Nat /\ Cardinality(erased) # 0
    BY <2>1, FS_CardinalityType, FS_EmptySet
  <2> QED BY <1>1, <2>2
<1>3. k \in LeftCoding(k, m, erased) /\ k \in Left(k, m, erased)
  BY <1>2 DEF LeftCoding, Left
<1>4. {s \in LeftCoding(k, m, erased) : s < k} = {}
  BY DEF LeftCoding
<1>5. RankIn(LeftCoding(k, m, erased), k) = 0
  BY <1>4, FS_EmptySet DEF RankIn
<1>6. Cardinality(LostData(k, erased)) = 1
  BY FS_Singleton
<1>7. RankIn(Left(k, m, erased), k) < k
  <2>1. RankIn(Left(k, m, erased), k)
          = (k - Cardinality(LostData(k, erased))) + RankIn(LeftCoding(k, m, erased), k)
    BY <1>1, <1>3, RankAmongLeft
  <2> QED BY <1>5, <1>6, <2>1
<1>8. \A t \in Left(k, m, erased) :
        (\E i \in 0..(k - 1) : Nth(dm_ids(k, m, erased), i) = t)
          <=> RankIn(Left(k, m, erased), t) < k
  BY <1>1, DmIdsRight
<1>9. \E i \in 0..(k - 1) : Nth(dm_ids(k, m, erased), i) = k
  BY <1>3, <1>7, <1>8
<1> QED BY <1>9 DEF Behind

\* If no data drive is lost, or one and the first coding drive is left, they do.
LEMMA UnitsDetermine ==
  ASSUME NEW k \in Nat, NEW m \in Nat, NEW w \in Nat \ {0}, NEW bits, BitsFor(k, m, w, bits),
         NEW erased, LossOf(k, m, erased), NEW ones \in BOOLEAN, ones => Parity(k, w, bits),
         LostData(k, erased) \subseteq {lastdrive(k, ones, erased)}
  PROVE  Recovers(k, m, w, bits, erased)
<1> DEFINE D == Behind(k, dm_ids(k, m, erased))
           last == lastdrive(k, ones, erased)
<1>1. erased \in SUBSET (0..(k + m - 1)) /\ Cardinality(erased) <= m
  BY DEF LossOf
<1>2. last \in 0..k /\ (last < k => Parity(k, w, bits) /\ last \in erased /\ k \notin erased)
  BY <1>1, LastFacts
<1>3. \A d \in 0..(k - 1) : d # last => d \in D
  <2>1. (0..(k - 1)) \ erased \subseteq D
    BY SourcesLeft
  <2> HIDE DEF D, last
  <2>2. LostData(k, erased) \subseteq {last}
    BY DEF last
  <2> QED BY <2>1, <2>2 DEF LostData
<1>4. ASSUME last < k PROVE k \in D
  <2>1. last \in erased /\ k \notin erased
    BY <1>2, <1>4
  <2>2. LostData(k, erased) = {last}
    BY <1>4, <2>1 DEF LostData
  <2> HIDE DEF last, D
  <2>3. k \in Behind(k, dm_ids(k, m, erased))
    BY <2>1, <2>2, ParityIsUsed
  <2> QED BY <2>3 DEF D
<1>5. ASSUME NEW x \in SUBSET Columns(k, w),
             \A d \in D : \A q \in 0..(w - 1) : ~Odd(Generated(k, w, bits, d, q) \cap x)
      PROVE  x = {}
  <2>1. ASSUME NEW a \in 0..(k - 1), NEW q \in 0..(w - 1), a # last PROVE a * w + q \notin x
    <3>1. ~Odd(Generated(k, w, bits, a, q) \cap x)
      BY <1>3, <1>5, <2>1
    <3>2. Generated(k, w, bits, a, q) = {a * w + q}
      BY DEF Generated
    <3>3. PICK c : c = a * w + q
      OBVIOUS
    <3>4. c \in x => {c} \cap x = {c}
      OBVIOUS
    <3> QED BY <3>1, <3>2, <3>3, <3>4, OddSmall
  <2>2. ASSUME NEW a \in 0..(k - 1), NEW q \in 0..(w - 1), a = last PROVE a * w + q \notin x
    <3>1. ~Odd(Generated(k, w, bits, k, q) \cap x)
      BY <1>4, <1>5, <2>2
    <3>2. Generated(k, w, bits, k, q) = {j * w + q : j \in 0..(k - 1)}
      <4>1. ~(k < k) /\ (k - k) * w + q = q
        OBVIOUS
      <4>2. Parity(k, w, bits)
        BY <1>2, <2>2
      <4> QED BY <4>1, <4>2 DEF Generated, Parity
    <3>3. PICK c : c = a * w + q
      OBVIOUS
    <3>4. c \in x => {j * w + q : j \in 0..(k - 1)} \cap x = {c}
      <4>1. \A j \in 0..(k - 1) : j # a => j * w + q \notin x
        BY <2>1, <2>2
      <4> HIDE DEF last
      <4> QED BY <3>3, <4>1
    <3> QED BY <3>1, <3>2, <3>3, <3>4, OddSmall
  <2>3. \A a \in 0..(k - 1), q \in 0..(w - 1) : a * w + q \notin x
    BY <2>1, <2>2
  <2>4. ASSUME NEW c \in x PROVE FALSE
    <3>1. c \in Columns(k, w)
      OBVIOUS
    <3>2. c \div w \in 0..(k - 1) /\ c % w \in 0..(w - 1) /\ (c \div w) * w + (c % w) = c
      BY <3>1, ColumnFacts
    <3> QED BY <2>3, <2>4, <3>2
  <2> QED BY <2>4
<1> QED BY <1>5 DEF Determines, Recovers

InverseOf(k, m, w, bits, erased) == jerasure_make_decoding_bitmatrix(k, m, w, bits, erased).inv

LEMMA InverseMakes ==
  ASSUME NEW k \in Nat, NEW m \in Nat, NEW w \in Nat \ {0}, NEW bits, BitsFor(k, m, w, bits),
         NEW erased, LossOf(k, m, erased), Recovers(k, m, w, bits, erased),
         NEW i \in 0..(k - 1)
  PROVE  RowsMake(k, w, bits, dm_ids(k, m, erased),
                  Blocks(InverseOf(k, m, w, bits, erased), i, w), i)
<1> DEFINE ids == dm_ids(k, m, erased)
           mat == SurvivorRows(k, w, bits, ids)
           inv == InverseOf(k, m, w, bits, erased)
           S == SUBSET Columns(k, w)
<1>1. inv = jerasure_invert_bitmatrix(mat).inv
  BY DEF InverseOf, jerasure_make_decoding_bitmatrix
<1>2. IdsFor(k, m, ids)
  BY SourcesLeft
<1>3. Determines(k, w, bits, Behind(k, ids))
  BY DEF Recovers
<1> HIDE DEF ids, inv
<1>4. inv \in Seq(S) /\ Len(inv) = k * w
  <2>1. PICK n \in Nat : n = k * w
    OBVIOUS
  <2>2. Numbered(n) = Columns(k, w) /\ mat \in Matrices(n)
    BY <1>2, <2>1, SurvivorRight
  <2> HIDE DEF mat
  <2>3. inv \in Matrices(n)
    BY <1>1, <2>2, InvertRight
  <2>4. inv \in Seq(SUBSET Numbered(n)) /\ Len(inv) = n
    BY <2>3, MatrixFacts
  <2> QED BY <2>1, <2>2, <2>4
<1>5. ASSUME NEW c \in Columns(k, w)
      PROVE  Nth(inv, c) \in SUBSET Columns(k, w) /\ Sum(SourceRows(k, w, bits, ids), Nth(inv, c)) = {c}
  <2>1. LET x == jerasure_invert_bitmatrix(SurvivorRows(k, w, bits, ids)).inv
        IN  /\ Nth(x, c) \in SUBSET Columns(k, w)
            /\ Determines(k, w, bits, Behind(k, ids)) =>
                 Sum([e \in Columns(k, w) |-> Generated(k, w, bits, Nth(ids, e \div w), e % w)],
                     Nth(x, c)) = {c}
    BY <1>2, InverseTells
  <2> QED BY <1>1, <1>3, <2>1 DEF SourceRows
<1>6. ASSUME NEW q \in 0..(w - 1)
      PROVE  /\ Nth(Blocks(inv, i, w), q) \in SUBSET Columns(k, w)
             /\ Nth(Blocks(inv, i, w), q) # {}
             /\ Sum(SourceRows(k, w, bits, ids), Nth(Blocks(inv, i, w), q))
                  = Generated(k, w, bits, i, q)
  <2>1. Nth(Blocks(inv, i, w), q) = Nth(inv, At(w, i, q))
    <3> HIDE DEF S
    <3> QED BY <1>4, BlocksFacts
  <2>2. PICK c \in Columns(k, w) : c = At(w, i, q) /\ c = i * w + q
    BY ColumnAt
  <2>3. Nth(inv, c) \in SUBSET Columns(k, w) /\ Sum(SourceRows(k, w, bits, ids), Nth(inv, c)) = {c}
    BY <1>5
  <2>4. Nth(inv, c) # {}
    <3>1. Sum(SourceRows(k, w, bits, ids), {}) = {}
      BY SumOver
    <3> QED BY <2>3, <3>1
  <2>5. Generated(k, w, bits, i, q) = {c}
    BY <2>2 DEF Generated
  <2> QED BY <2>1, <2>2, <2>3, <2>4, <2>5
<1> QED BY <1>6 DEF RowsMake, ids, inv

\* The drives that the last data drive is made of
Others(k, last) == [i \in 1..k |-> IF i - 1 < last THEN i - 1 ELSE i]

LEMMA ParityMakes ==
  ASSUME NEW k \in Nat, NEW m \in Nat \ {0}, NEW w \in Nat \ {0}, NEW bits, BitsFor(k, m, w, bits),
         Parity(k, w, bits), NEW last \in 0..(k - 1)
  PROVE  /\ IdsFor(k, m, Others(k, last))
         /\ Behind(k, Others(k, last)) \subseteq ((0..k) \ {last})
         /\ RowsMake(k, w, bits, Others(k, last), Blocks(bits, 0, w), last)
<1> DEFINE ids == Others(k, last)
           F == SourceRows(k, w, bits, ids)
<1>1. \A j \in 0..(k - 1) : /\ Nth(ids, j) = IF j < last THEN j ELSE j + 1
                            /\ Nth(ids, j) \in (0..k) \ {last}
                            /\ Nth(ids, j) \in 0..(k + m - 1)
  <2>1. \A j \in 0..(k - 1) : /\ j + 1 \in 1..k /\ (j + 1) - 1 = j
                              /\ (IF j < last THEN j ELSE j + 1) \in (0..k) \ {last}
                              /\ (IF j < last THEN j ELSE j + 1) \in 0..(k + m - 1)
    OBVIOUS
  <2> QED BY <2>1 DEF Others, Nth
<1>2. IdsFor(k, m, ids) /\ Behind(k, ids) \subseteq ((0..k) \ {last})
  BY <1>1 DEF IdsFor, Behind
<1> HIDE DEF ids
<1>3. ASSUME NEW q \in 0..(w - 1)
      PROVE  LET row == Nth(Blocks(bits, 0, w), q)
             IN  /\ row \in SUBSET Columns(k, w) /\ row # {}
                 /\ Sum(F, row) = Generated(k, w, bits, last, q)
  <2> DEFINE row == {j * w + q : j \in 0..(k - 1)}
  <2>1. Nth(Blocks(bits, 0, w), q) = row
    <3> DEFINE S == SUBSET Columns(k, w)
    <3>0. PICK a \in Nat : a = m /\ a # 0
      OBVIOUS
    <3>1. bits \in Seq(S) /\ Len(bits) = a * w
      BY <3>0 DEF BitsFor, RowsOn
    <3> HIDE DEF S
    <3>2. PICK z \in 0..(a - 1) : z = 0
      BY <3>0
    <3>3. /\ At(w, z, q) \in 0..(a * w - 1) /\ At(w, z, q) = z * w + q
          /\ Nth(Blocks(bits, z, w), q) = Nth(bits, At(w, z, q))
          /\ Nth(bits, At(w, z, q)) \in S
      BY <3>1, BlocksFacts
    <3>4. z * w + q = q
      BY <3>2
    <3> QED BY <3>2, <3>3, <3>4 DEF Parity
  <2>2. \A j \in 0..(k - 1) : j * w + q \in Columns(k, w)
    BY ColumnFacts
  <2>3. row \in SUBSET Columns(k, w)
    BY <2>2
  <2>4. PICK e \in row : e = (k - 1) * w + q
    <3>1. k - 1 \in 0..(k - 1)
      OBVIOUS
    <3> QED BY <3>1
  <2> DEFINE rest == row \ {e}
             g == [c \in rest |-> Nth(ids, c \div w) * w + q]
  <2>5. ASSUME NEW j \in 0..(k - 1) PROVE (j * w + q) \div w = j /\ (j * w + q) % w = q
    <3>1. j \in Nat
      OBVIOUS
    <3> QED BY <3>1, DivMod
  <2>6. ASSUME NEW c \in rest
        PROVE  \E j \in 0..(k - 2) : c = j * w + q /\ c \div w = j /\ c % w = q
    <3>1. PICK j \in 0..(k - 1) : c = j * w + q
      OBVIOUS
    <3>2. j # k - 1
      BY <2>4, <2>6, <3>1
    <3>3. j \in 0..(k - 2)
      BY <3>2
    <3> QED BY <2>5, <3>1, <3>3
  <2>7. \A j \in 0..(k - 2) : j * w + q \in rest
    <3>1. ASSUME NEW j \in 0..(k - 2) PROVE j * w + q # e /\ j * w + q \in row
      <4>1. j \in 0..(k - 1) /\ k - 1 \in 0..(k - 1) /\ j # k - 1
        OBVIOUS
      <4>2. j = (j * w + q) \div w /\ k - 1 = ((k - 1) * w + q) \div w
        BY <2>5, <4>1
      <4>3. j * w + q # e
        BY <2>4, <4>1, <4>2
      <4> QED BY <4>1, <4>3
    <3> QED BY <3>1
  <2> HIDE DEF row, rest
  <2>8. IsFiniteSet(row) /\ IsFiniteSet(rest)
    <3>1. IsFiniteSet(row)
      BY <2>3, RowCardinality
    <3> QED BY <3>1, FS_Subset DEF rest
  <2>9. \A c \in rest : F[c] = {g[c]}
    <3>1. ASSUME NEW c \in rest PROVE F[c] = {g[c]}
      <4>1. PICK j \in 0..(k - 2) : c = j * w + q /\ c \div w = j /\ c % w = q
        BY <2>6
      <4>2. j \in 0..(k - 1) /\ c \in Columns(k, w)
        BY <2>2, <4>1
      <4>3. PICK d \in 0..k : d = Nth(ids, j) /\ d < k
        BY <1>1, <4>1, <4>2
      <4>4. F[c] = Generated(k, w, bits, d, q)
        BY <4>1, <4>2, <4>3 DEF SourceRows
      <4> QED BY <4>1, <4>3, <4>4 DEF Generated
    <3> QED BY <3>1
  <2>10. ASSUME NEW c \in rest, NEW x \in rest, g[c] = g[x] PROVE c = x
    <3>1. PICK j \in 0..(k - 2) : c = j * w + q /\ c \div w = j
      BY <2>6
    <3>2. PICK l \in 0..(k - 2) : x = l * w + q /\ x \div w = l
      BY <2>6
    <3>3. PICK a \in Nat : a = Nth(ids, j) /\ a = IF j < last THEN j ELSE j + 1
      BY <1>1, <3>1
    <3>4. PICK b \in Nat : b = Nth(ids, l) /\ b = IF l < last THEN l ELSE l + 1
      BY <1>1, <3>2
    <3>5. a * w + q = b * w + q
      BY <2>10, <3>1, <3>2, <3>3, <3>4
    <3>6. a = (a * w + q) \div w /\ b = (b * w + q) \div w
      BY DivMod
    <3>7. j = l
      BY <3>3, <3>4, <3>5, <3>6
    <3> QED BY <3>1, <3>2, <3>7
  <2>11. Sum(F, rest) = {g[c] : c \in rest}
    <3> HIDE DEF F, g
    <3> QED BY <2>8, <2>9, <2>10, SumOfSingles
  <2>12. {g[c] : c \in rest} = row \ {last * w + q}
    <3>1. ASSUME NEW c \in rest PROVE g[c] \in row \ {last * w + q}
      <4>1. PICK j \in 0..(k - 2) : c = j * w + q /\ c \div w = j
        BY <2>6
      <4>2. PICK d \in 0..(k - 1) : d = Nth(ids, j) /\ d # last
        BY <1>1, <4>1
      <4>3. g[c] = d * w + q
        BY <4>1, <4>2
      <4>4. (d * w + q) \div w = d /\ (last * w + q) \div w = last
        BY <2>5
      <4>5. d * w + q # last * w + q
        BY <4>2, <4>4
      <4> QED BY <4>3, <4>5 DEF row
    <3>2. ASSUME NEW x \in row \ {last * w + q} PROVE \E c \in rest : x = g[c]
      <4>1. PICK d \in 0..(k - 1) : x = d * w + q /\ d # last
        BY <3>2 DEF row
      <4>2. PICK j \in 0..(k - 2) : d = IF j < last THEN j ELSE j + 1
        <5>1. CASE d < last
          BY <5>1
        <5>2. CASE d > last
          <6>1. d - 1 \in 0..(k - 2) /\ d = IF d - 1 < last THEN d - 1 ELSE (d - 1) + 1
            BY <5>2
          <6> QED BY <6>1
        <5> QED BY <4>1, <5>1, <5>2
      <4>3. PICK c \in rest : c = j * w + q
        BY <2>7
      <4>4. j \in 0..(k - 1)
        OBVIOUS
      <4>5. c \div w = j /\ Nth(ids, j) = d
        BY <1>1, <2>5, <4>2, <4>3, <4>4
      <4>6. g[c] = d * w + q
        BY <4>5
      <4> QED BY <4>1, <4>6
    <3> HIDE DEF g
    <3> QED BY <3>1, <3>2
  <2>13. F[e] = row
    <3>1. k - 1 \in 0..(k - 1) /\ ~(k - 1 < last) /\ (k - 1) + 1 = k
      OBVIOUS
    <3>2. e \div w = k - 1 /\ e % w = q /\ e \in Columns(k, w)
      BY <2>3, <2>4, <2>5, <3>1
    <3>3. Nth(ids, k - 1) = k
      BY <1>1, <3>1
    <3>4. F[e] = Generated(k, w, bits, k, q)
      BY <3>2, <3>3 DEF SourceRows
    <3>5. ~(k < k) /\ (k - k) * w + q = q
      OBVIOUS
    <3> QED BY <3>4, <3>5 DEF Generated, Parity, row
  <2>14. Sum(F, row) = {last * w + q}
    <3>1. row = rest \cup {e} /\ e \notin rest
      BY DEF rest
    <3> HIDE DEF F
    <3>2. Sum(F, row) = Xor(Sum(F, rest), F[e])
      BY <2>8, <3>1, SumAdd
    <3>3. last * w + q \in row
      BY DEF row
    <3>4. PICK z \in row : z = last * w + q
      BY <3>3
    <3>5. Xor(row \ {z}, row) = {z}
      BY DEF Xor, SymDiff
    <3> QED BY <2>11, <2>12, <2>13, <3>2, <3>4, <3>5
  <2>15. Generated(k, w, bits, last, q) = {last * w + q}
    BY DEF Generated
  <2>16. row # {}
    BY <2>4
  <2> QED BY <2>1, <2>3, <2>14, <2>15, <2>16
<1> QED BY <1>2, <1>3 DEF RowsMake, ids

\* The three parts of decoding: data by the inverse, the last data drive by the parity,
\* and coding as when encoding
DataDecoded(k, m, w, bits, ones, erased, drives, size, packetsize) ==
  LET last == lastdrive(k, ones, erased)
      byMatrix == {d \in erased : d < k /\ d # last}
      decoding == jerasure_make_decoding_bitmatrix(k, m, w, bits, erased)
      Dot(d, rows, ids, i) ==
        jerasure_bitmatrix_dotprod(w, rows, ids, i, d, size, packetsize)
      Data(d, i) == IF i \in byMatrix
                    THEN Dot(d, Blocks(decoding.inv, i, w), dm_ids(k, m, erased), i) ELSE d
  IN  Loop(Data, drives, k)

LastDecoded(k, w, bits, ones, erased, drives, size, packetsize) ==
  LET last == lastdrive(k, ones, erased)
  IN  IF last < k /\ last \in erased
      THEN jerasure_bitmatrix_dotprod(w, Blocks(bits, 0, w), Others(k, last), last, drives, size,
                                      packetsize)
      ELSE drives

CodingDecoded(k, m, w, bits, erased, drives, size, packetsize) ==
  LET Dot(d, rows, ids, i) ==
        jerasure_bitmatrix_dotprod(w, rows, ids, i, d, size, packetsize)
      Coding(d, i) == IF k + i \in erased
                      THEN Dot(d, Blocks(bits, i, w), Ids(k), k + i) ELSE d
  IN  Loop(Coding, drives, m)

LEMMA DataRight ==
  ASSUME NEW k \in Nat, NEW m \in Nat, NEW w \in Nat \ {0}, NEW bits, BitsFor(k, m, w, bits),
         NEW erased, LossOf(k, m, erased), Recovers(k, m, w, bits, erased), NEW ones,
         NEW l \in Nat, NEW reach \in Nat, Room(w, reach, l),
         NEW old \in Regions(k + m, l), Keeps(k, w, bits, old, Left(k, m, erased), reach)
  PROVE  Stage(k, m, w, bits, old,
               DataDecoded(k, m, w, bits, ones, erased, old, reach * 8, 8),
               LostData(k, erased) \ {lastdrive(k, ones, erased)}, reach, l)
<1> DEFINE n == k
           Q == Regions(k + m, l)
           last == lastdrive(k, ones, erased)
           byMatrix == {d \in erased : d < k /\ d # last}
           inv == jerasure_make_decoding_bitmatrix(k, m, w, bits, erased).inv
           ids == dm_ids(k, m, erased)
           Data(d, i) == IF i \in byMatrix
                         THEN jerasure_bitmatrix_dotprod(w, Blocks(inv, i, w), ids, i, d, reach * 8, 8)
                         ELSE d
           body == [a \in Q \X (0..(n - 1)) |-> Data(a[1], a[2])]
           F(f) == [j \in 0..n |-> IF j = 0 THEN old ELSE Data(f[j - 1], j - 1)]
           pass == CHOOSE f : f = F(f)
           T(i) == {d \in byMatrix : d < i}
           P == [i \in 0..n |-> {d \in Q : Stage(k, m, w, bits, old, d, T(i), reach, l)}]
<1>0. n = k
  OBVIOUS
<1>1. n \in Nat
  OBVIOUS
<1> HIDE DEF n
<1>2. old \in P[0]
  <2>1. T(0) = {}
    <3>1. \A d \in erased : d \in Nat
      BY DEF LossOf
    <3> QED BY <3>1
  <2>2. Stage(k, m, w, bits, old, old, {}, reach, l)
    BY StageStart
  <2> HIDE DEF T
  <2> QED BY <1>1, <2>1, <2>2
<1>3. ASSUME NEW i \in 0..(n - 1), NEW d \in P[i]
      PROVE  /\ body[<<d, i>>] \in P[i + 1]
             /\ body[<<d, i>>] = Data(d, i)
  <2>1. d \in Q /\ Stage(k, m, w, bits, old, d, T(i), reach, l)
    BY <1>1
  <2>2. i \in Nat /\ i + 1 \in 0..n /\ i \in 0..(k + m - 1) /\ i \in 0..(k - 1)
    BY <1>0, <1>1
  <2>3. T(i + 1) = IF i \in byMatrix THEN T(i) \cup {i} ELSE T(i)
    <3>1. \A x \in byMatrix : x \in Nat
      BY DEF LossOf
    <3> HIDE DEF byMatrix
    <3> QED BY <2>2, <3>1
  <2> HIDE DEF T
  <2>4. CASE i \notin byMatrix
    <3>1. Data(d, i) = d
      BY <2>4
    <3> HIDE DEF Q, Data
    <3> QED BY <2>1, <2>2, <2>3, <2>4, <3>1
  <2>5. CASE i \in byMatrix
    <3> HIDE DEF byMatrix
    <3>1. IdsFor(k, m, ids) /\ Behind(k, ids) \subseteq Left(k, m, erased)
      BY SourcesLeft
    <3>2. RowsMake(k, w, bits, ids, Blocks(inv, i, w), i)
      BY <2>2, InverseMakes DEF InverseOf
    <3> HIDE DEF ids, inv
    <3>3. PICK K : K = Left(k, m, erased)
      OBVIOUS
    <3>4. Holding(k, w, bits, d, ids, reach)
      <4>1. Behind(k, ids) \subseteq T(i) \cup K
        BY <3>1, <3>3
      <4>2. Keeps(k, w, bits, old, K, reach)
        BY <3>3
      <4> QED BY <2>1, <3>1, <4>1, <4>2, StageHolds
    <3>5. PICK dest \in 0..(k + m - 1) : dest = i
      BY <2>2
    <3>6. RowsMake(k, w, bits, ids, Blocks(inv, i, w), dest)
      BY <3>2, <3>5
    <3>7. Stage(k, m, w, bits, old,
                jerasure_bitmatrix_dotprod(w, Blocks(inv, i, w), ids, dest, d, reach * 8, 8),
                T(i) \cup {dest}, reach, l)
      BY <2>1, <3>1, <3>4, <3>6, DotStage
    <3>8. Data(d, i) = jerasure_bitmatrix_dotprod(w, Blocks(inv, i, w), ids, i, d, reach * 8, 8)
      BY <2>5
    <3> HIDE DEF Data
    <3>9. Stage(k, m, w, bits, old, Data(d, i), T(i + 1), reach, l)
      BY <2>3, <2>5, <3>5, <3>7, <3>8
    <3>10. Data(d, i) \in Q
      BY <3>9 DEF Stage
    <3> HIDE DEF Q
    <3> QED BY <2>1, <2>2, <3>9, <3>10
  <2> QED BY <2>4, <2>5
<1>4. PICK f : f = [j \in 0..n |-> f[j]] /\ Passes(f, old, body, n) /\ \A i \in 0..n : f[i] \in P[i]
  <2> HIDE DEF P, body
  <2> QED BY <1>1, <1>2, <1>3, PassesHold
<1> HIDE DEF P, body
<1>5. f = F(f)
  <2>1. ASSUME NEW j \in 0..n PROVE f[j] = F(f)[j]
    <3>1. j # 0 => j - 1 \in 0..(n - 1) /\ j - 1 \in 0..n /\ (j - 1) + 1 = j
      BY <1>1
    <3> HIDE DEF Data
    <3> QED BY <1>3, <1>4, <3>1 DEF Passes
  <2> QED BY <1>4, <2>1
<1>6. pass = F(pass)
  BY <1>5
<1>7. DataDecoded(k, m, w, bits, ones, erased, old, reach * 8, 8) = pass[n]
  BY DEF DataDecoded, Loop, n
<1> HIDE DEF pass
<1> DEFINE R == {i \in 0..n : pass[i] \in P[i]}
<1>8. 0 \in R
  BY <1>1, <1>2, <1>6
<1>9. ASSUME NEW i \in 0..(n - 1), i \in R PROVE i + 1 \in R
  <2>1. pass[i + 1] = Data(pass[i], i)
    <3>1. i + 1 \in 0..n /\ i + 1 # 0 /\ (i + 1) - 1 = i
      BY <1>1
    <3> HIDE DEF Data
    <3> QED BY <1>6, <3>1
  <2>2. pass[i] \in P[i] /\ i + 1 \in 0..n
    BY <1>1, <1>9
  <2> HIDE DEF Data
  <2> QED BY <1>3, <2>1, <2>2
<1> HIDE DEF R
<1>10. n \in R
  <2>1. PICK l1 \in Nat : l1 = n
    BY <1>1
  <2>2. 0 \in R /\ \A i \in 0..(l1 - 1) : i \in R => i + 1 \in R
    BY <1>8, <1>9, <2>1
  <2>3. \A i \in 0..l1 : i \in R
    BY <2>2, PassByPass
  <2> QED BY <2>1, <2>3
<1>11. Stage(k, m, w, bits, old, pass[n], T(n), reach, l)
  <2> HIDE DEF T
  <2> QED BY <1>1, <1>10 DEF R, P
<1>12. T(n) = LostData(k, erased) \ {last}
  BY <1>0 DEF LostData
<1> HIDE DEF T, last
<1> QED BY <1>7, <1>11, <1>12 DEF last

LEMMA LastRight ==
  ASSUME NEW k \in Nat, NEW m \in Nat \ {0}, NEW w \in Nat \ {0}, NEW bits, BitsFor(k, m, w, bits),
         NEW erased, LossOf(k, m, erased), NEW ones \in BOOLEAN, ones => Parity(k, w, bits),
         NEW l \in Nat, NEW reach \in Nat, Room(w, reach, l),
         NEW old \in Regions(k + m, l), Keeps(k, w, bits, old, Left(k, m, erased), reach),
         NEW drives,
         Stage(k, m, w, bits, old, drives,
               LostData(k, erased) \ {lastdrive(k, ones, erased)}, reach, l)
  PROVE  Stage(k, m, w, bits, old,
               LastDecoded(k, w, bits, ones, erased, drives, reach * 8, 8),
               LostData(k, erased), reach, l)
<1> DEFINE last == lastdrive(k, ones, erased)
           T == LostData(k, erased) \ {last}
           made == LastDecoded(k, w, bits, ones, erased, drives, reach * 8, 8)
<1>1. last \in 0..k /\ (last < k => Parity(k, w, bits) /\ last \in erased /\ k \notin erased)
  BY LastFacts DEF LossOf
<1>2. CASE last < k
  <2>1. PICK d \in 0..(k - 1) : d = last
    BY <1>1, <1>2
  <2>2. d \in LostData(k, erased) /\ k \notin erased /\ LostData(k, erased) = T \cup {d}
    BY <1>1, <1>2, <2>1 DEF LostData
  <2>3. made = jerasure_bitmatrix_dotprod(w, Blocks(bits, 0, w), Others(k, d), d, drives, reach * 8, 8)
    BY <1>1, <1>2, <2>1 DEF LastDecoded
  <2> DEFINE ids == Others(k, d)
  <2>4. /\ IdsFor(k, m, ids) /\ Behind(k, ids) \subseteq ((0..k) \ {d})
        /\ RowsMake(k, w, bits, ids, Blocks(bits, 0, w), d)
    BY <1>1, <1>2, ParityMakes
  <2>5. PICK K : K = Left(k, m, erased)
    OBVIOUS
  <2>6. Behind(k, ids) \subseteq T \cup K
    <3>1. ASSUME NEW x \in (0..k) \ {d} PROVE x \in T \cup K
      <4>1. x \in 0..(k + m - 1)
        OBVIOUS
      <4>2. x \in erased => x \in LostData(k, erased)
        BY <2>2 DEF LostData
      <4> QED BY <2>2, <2>5, <4>1, <4>2 DEF Left
    <3> HIDE DEF T, ids
    <3> QED BY <2>4, <3>1
  <2>7. Stage(k, m, w, bits, old, drives, T, reach, l) /\ Keeps(k, w, bits, old, K, reach)
    BY <2>5
  <2>8. m \in Nat /\ d \in 0..(k + m - 1)
    OBVIOUS
  <2> HIDE DEF T, ids, made
  <2>9. Holding(k, w, bits, drives, ids, reach)
    BY <2>4, <2>6, <2>7, <2>8, StageHolds
  <2>10. Stage(k, m, w, bits, old,
               jerasure_bitmatrix_dotprod(w, Blocks(bits, 0, w), ids, d, drives, reach * 8, 8),
               T \cup {d}, reach, l)
    BY <2>4, <2>7, <2>8, <2>9, DotStage
  <2> QED BY <2>2, <2>3, <2>10 DEF ids, made
<1>3. CASE ~(last < k)
  <2>1. made = drives
    BY <1>3 DEF LastDecoded
  <2>2. LostData(k, erased) = T
    BY <1>3 DEF LostData
  <2> HIDE DEF made
  <2> QED BY <2>1, <2>2 DEF made
<1> QED BY <1>2, <1>3

LEMMA CodingRight ==
  ASSUME NEW k \in Nat, NEW m \in Nat, NEW w \in Nat \ {0}, NEW bits, BitsFor(k, m, w, bits),
         NoneEmpty(m, w, bits), NEW erased, LossOf(k, m, erased),
         NEW l \in Nat, NEW reach \in Nat, Room(w, reach, l),
         NEW old \in Regions(k + m, l), Keeps(k, w, bits, old, Left(k, m, erased), reach),
         NEW drives, Stage(k, m, w, bits, old, drives, LostData(k, erased), reach, l)
  PROVE  Stage(k, m, w, bits, old,
               CodingDecoded(k, m, w, bits, erased, drives, reach * 8, 8),
               erased, reach, l)
<1> DEFINE n == m
           Q == Regions(k + m, l)
           Coding(d, i) == IF k + i \in erased
                           THEN jerasure_bitmatrix_dotprod(w, Blocks(bits, i, w), Ids(k), k + i, d,
                                                           reach * 8, 8)
                           ELSE d
           body == [a \in Q \X (0..(n - 1)) |-> Coding(a[1], a[2])]
           F(f) == [j \in 0..n |-> IF j = 0 THEN drives ELSE Coding(f[j - 1], j - 1)]
           pass == CHOOSE f : f = F(f)
           T(i) == {d \in erased : d < k + i}
           P == [i \in 0..n |-> {d \in Q : Stage(k, m, w, bits, old, d, T(i), reach, l)}]
<1>0. n = m
  OBVIOUS
<1>1. n \in Nat
  OBVIOUS
<1> HIDE DEF n
<1>2. drives \in P[0]
  <2>1. T(0) = LostData(k, erased)
    <3>1. k + 0 = k
      OBVIOUS
    <3> QED BY <3>1 DEF LostData
  <2>2. drives \in Q
    BY DEF Stage
  <2> HIDE DEF T, Q
  <2> QED BY <1>1, <2>1, <2>2
<1>3. ASSUME NEW i \in 0..(n - 1), NEW d \in P[i]
      PROVE  /\ body[<<d, i>>] \in P[i + 1]
             /\ body[<<d, i>>] = Coding(d, i)
  <2>1. d \in Q /\ Stage(k, m, w, bits, old, d, T(i), reach, l)
    BY <1>1
  <2>2. i \in Nat /\ i + 1 \in 0..n /\ k + i \in 0..(k + m - 1) /\ i \in 0..(m - 1)
    BY <1>0, <1>1
  <2>3. T(i + 1) = IF k + i \in erased THEN T(i) \cup {k + i} ELSE T(i)
    <3>1. \A x \in erased : x \in Nat
      BY DEF LossOf
    <3>2. \A x \in Nat : x < k + (i + 1) <=> x < k + i \/ x = k + i
      BY <2>2
    <3> QED BY <3>1, <3>2
  <2>4. LostData(k, erased) \subseteq T(i)
    <3>1. \A x \in erased : x \in Nat
      BY DEF LossOf
    <3> QED BY <2>2, <3>1 DEF LostData
  <2> HIDE DEF T
  <2>5. CASE k + i \notin erased
    <3>1. Coding(d, i) = d
      BY <2>5
    <3> HIDE DEF Q, Coding
    <3> QED BY <2>1, <2>2, <2>3, <2>5, <3>1
  <2>6. CASE k + i \in erased
    <3>1. /\ IdsFor(k, m, Ids(k)) /\ Behind(k, Ids(k)) \subseteq 0..(k - 1)
          /\ RowsMake(k, w, bits, Ids(k), Blocks(bits, i, w), k + i)
      BY <2>2, DataSources
    <3>2. PICK K : K = Left(k, m, erased)
      OBVIOUS
    <3>3. Holding(k, w, bits, d, Ids(k), reach)
      <4>1. ASSUME NEW x \in 0..(k - 1) PROVE x \in T(i) \cup K
        <5>1. x \in erased => x \in LostData(k, erased)
          BY DEF LostData
        <5>2. x \notin erased => x \in K
          BY <3>2 DEF Left
        <5> QED BY <2>4, <5>1, <5>2
      <4>2. Behind(k, Ids(k)) \subseteq T(i) \cup K
        BY <3>1, <4>1
      <4>3. Keeps(k, w, bits, old, K, reach)
        BY <3>2
      <4> QED BY <2>1, <3>1, <4>2, <4>3, StageHolds
    <3>4. PICK dest \in 0..(k + m - 1) : dest = k + i
      BY <2>2
    <3>5. RowsMake(k, w, bits, Ids(k), Blocks(bits, i, w), dest)
      BY <3>1, <3>4
    <3>6. Stage(k, m, w, bits, old,
                jerasure_bitmatrix_dotprod(w, Blocks(bits, i, w), Ids(k), dest, d, reach * 8, 8),
                T(i) \cup {dest}, reach, l)
      BY <2>1, <3>1, <3>3, <3>5, DotStage
    <3>7. Coding(d, i) = jerasure_bitmatrix_dotprod(w, Blocks(bits, i, w), Ids(k), k + i, d, reach * 8, 8)
      BY <2>6
    <3> HIDE DEF Coding
    <3>8. Stage(k, m, w, bits, old, Coding(d, i), T(i + 1), reach, l)
      BY <2>3, <2>6, <3>4, <3>6, <3>7
    <3>9. Coding(d, i) \in Q
      BY <3>8 DEF Stage
    <3> HIDE DEF Q
    <3> QED BY <2>1, <2>2, <3>8, <3>9
  <2> QED BY <2>5, <2>6
<1>4. PICK f : f = [j \in 0..n |-> f[j]] /\ Passes(f, drives, body, n) /\ \A i \in 0..n : f[i] \in P[i]
  <2> HIDE DEF P, body
  <2> QED BY <1>1, <1>2, <1>3, PassesHold
<1> HIDE DEF P, body
<1>5. f = F(f)
  <2>1. ASSUME NEW j \in 0..n PROVE f[j] = F(f)[j]
    <3>1. j # 0 => j - 1 \in 0..(n - 1) /\ j - 1 \in 0..n /\ (j - 1) + 1 = j
      BY <1>1
    <3> HIDE DEF Coding
    <3> QED BY <1>3, <1>4, <3>1 DEF Passes
  <2> QED BY <1>4, <2>1
<1>6. pass = F(pass)
  BY <1>5
<1>7. CodingDecoded(k, m, w, bits, erased, drives, reach * 8, 8) = pass[n]
  BY DEF CodingDecoded, Loop, n
<1> HIDE DEF pass
<1> DEFINE R == {i \in 0..n : pass[i] \in P[i]}
<1>8. 0 \in R
  BY <1>1, <1>2, <1>6
<1>9. ASSUME NEW i \in 0..(n - 1), i \in R PROVE i + 1 \in R
  <2>1. pass[i + 1] = Coding(pass[i], i)
    <3>1. i + 1 \in 0..n /\ i + 1 # 0 /\ (i + 1) - 1 = i
      BY <1>1
    <3> HIDE DEF Coding
    <3> QED BY <1>6, <3>1
  <2>2. pass[i] \in P[i] /\ i + 1 \in 0..n
    BY <1>1, <1>9
  <2> HIDE DEF Coding
  <2> QED BY <1>3, <2>1, <2>2
<1> HIDE DEF R
<1>10. n \in R
  <2>1. PICK l1 \in Nat : l1 = n
    BY <1>1
  <2>2. 0 \in R /\ \A i \in 0..(l1 - 1) : i \in R => i + 1 \in R
    BY <1>8, <1>9, <2>1
  <2>3. \A i \in 0..l1 : i \in R
    BY <2>2, PassByPass
  <2> QED BY <2>1, <2>3
<1>11. Stage(k, m, w, bits, old, pass[n], T(n), reach, l)
  <2> HIDE DEF T
  <2> QED BY <1>1, <1>10 DEF R, P
<1>12. T(n) = erased
  <2>1. \A x \in 0..(k + m - 1) : x < k + m
    OBVIOUS
  <2>2. \A x \in erased : x < k + n
    BY <1>0, <2>1 DEF LossOf
  <2> QED BY <2>2
<1> HIDE DEF T
<1> QED BY <1>7, <1>11, <1>12

\* What decoding by dot products makes of the drives if they can be recovered
DecodedByDots(k, m, w, bits, ones, erased, drives, size, packetsize) ==
  CodingDecoded(k, m, w, bits, erased,
    LastDecoded(k, w, bits, ones, erased,
      DataDecoded(k, m, w, bits, ones, erased, drives, size, packetsize), size, packetsize),
    size, packetsize)

LEMMA DecodedRight ==
  ASSUME NEW k \in Nat, NEW m \in Nat \ {0}, NEW w \in Nat \ {0}, NEW bits, BitsFor(k, m, w, bits),
         NoneEmpty(m, w, bits), NEW erased, LossOf(k, m, erased),
         Recovers(k, m, w, bits, erased), NEW ones \in BOOLEAN, ones => Parity(k, w, bits),
         NEW l \in Nat, NEW reach \in Nat, Room(w, reach, l),
         NEW old \in Regions(k + m, l), Keeps(k, w, bits, old, Left(k, m, erased), reach)
  PROVE  Stage(k, m, w, bits, old,
               DecodedByDots(k, m, w, bits, ones, erased, old, reach * 8, 8),
               erased, reach, l)
<1> DEFINE first == DataDecoded(k, m, w, bits, ones, erased, old, reach * 8, 8)
           second == LastDecoded(k, w, bits, ones, erased, first, reach * 8, 8)
<1>0. m \in Nat
  OBVIOUS
<1>1. Stage(k, m, w, bits, old, first,
            LostData(k, erased) \ {lastdrive(k, ones, erased)}, reach, l)
  BY <1>0, DataRight
<1> HIDE DEF first
<1>2. Stage(k, m, w, bits, old, second, LostData(k, erased), reach, l)
  BY <1>1, LastRight
<1> HIDE DEF second
<1>3. Stage(k, m, w, bits, old, CodingDecoded(k, m, w, bits, erased, second, reach * 8, 8),
            erased, reach, l)
  BY <1>0, <1>2, CodingRight
<1> QED BY <1>3 DEF DecodedByDots, first, second

\* Decoding by dot products succeeds if enough drives are left and they determine the
\* others, and leaves everything alone otherwise.
DotsDecode(k, m, w, bits, ok, erased, old, reach, l, decoded) ==
  /\ decoded.result \in {0, -1}
  /\ decoded.result = 0 <=> ok /\ Recovers(k, m, w, bits, erased)
  /\ decoded.result = 0 => Stage(k, m, w, bits, old, decoded.drives, erased, reach, l)
  /\ decoded.result = -1 => decoded.drives = old

LEMMA DotsDecodeRight ==
  ASSUME NEW k \in Nat, NEW m \in Nat \ {0}, NEW w \in Nat \ {0}, NEW bits, BitsFor(k, m, w, bits),
         NoneEmpty(m, w, bits), NEW ones \in BOOLEAN, ones => Parity(k, w, bits),
         NEW l \in Nat, NEW reach \in Nat, Room(w, reach, l), NEW list, NEW ok, NEW erased,
         jerasure_erasures_to_erased(k, m, list).ok = ok,
         jerasure_erasures_to_erased(k, m, list).ids = erased,
         ok => LossOf(k, m, erased), ok \in BOOLEAN,
         NEW old \in Regions(k + m, l), Keeps(k, w, bits, old, Left(k, m, erased), reach)
  PROVE  DotsDecode(k, m, w, bits, ok, erased, old, reach, l,
           jerasure_bitmatrix_decode(k, m, w, bits, ones, list, old, reach * 8, 8))
<1> DEFINE gone == jerasure_erasures_to_erased(k, m, list)
           byMatrix == {d \in gone.ids : d < k /\ d # lastdrive(k, ones, gone.ids)}
           fine == jerasure_make_decoding_bitmatrix(k, m, w, bits, gone.ids).ok
           made == DecodedByDots(k, m, w, bits, ones, gone.ids, old, reach * 8, 8)
           decoded == jerasure_bitmatrix_decode(k, m, w, bits, ones, list, old, reach * 8, 8)
<1>1. decoded = IF ~gone.ok \/ (byMatrix # {} /\ ~fine) THEN [result |-> -1, drives |-> old]
                ELSE [result |-> 0, drives |-> made]
  BY DEF jerasure_bitmatrix_decode, DecodedByDots, CodingDecoded, LastDecoded, DataDecoded, Others
<1>2. ASSUME ok PROVE fine <=> Recovers(k, m, w, bits, erased)
  <2> DEFINE mat == SurvivorRows(k, w, bits, dm_ids(k, m, erased))
  <2>1. IdsFor(k, m, dm_ids(k, m, erased)) /\ m \in Nat
    BY <1>2, SourcesLeft
  <2>2. PICK n \in Nat : n = k * w
    OBVIOUS
  <2>3. mat \in Matrices(n)
    BY <2>1, <2>2, SurvivorRight
  <2>4. jerasure_invertible_bitmatrix(mat) <=> Determines(k, w, bits, Behind(k, dm_ids(k, m, erased)))
    BY <2>1, InvertibleIff
  <2> HIDE DEF mat
  <2>5. jerasure_invert_bitmatrix(mat).ok <=> jerasure_invertible_bitmatrix(mat)
    BY <2>3, InvertRight
  <2> QED BY <2>4, <2>5 DEF jerasure_make_decoding_bitmatrix, Recovers, mat
<1>3. ASSUME ok, byMatrix = {} PROVE Recovers(k, m, w, bits, erased)
  <2>1. LostData(k, erased) \subseteq {lastdrive(k, ones, erased)}
    BY <1>3 DEF LostData
  <2>2. LossOf(k, m, erased) /\ m \in Nat
    BY <1>3
  <2> QED BY <2>1, <2>2, UnitsDetermine
<1>4. ASSUME ok, Recovers(k, m, w, bits, erased)
      PROVE  Stage(k, m, w, bits, old, made, erased, reach, l)
  <2>1. LossOf(k, m, erased)
    BY <1>4
  <2>2. Stage(k, m, w, bits, old, DecodedByDots(k, m, w, bits, ones, erased, old, reach * 8, 8),
              erased, reach, l)
    BY <1>4, <2>1, DecodedRight
  <2> QED BY <2>2
<1> HIDE DEF fine, made, byMatrix, decoded
<1>5. gone.ok = ok
  OBVIOUS
<1> HIDE DEF gone
<1>6. CASE ok /\ Recovers(k, m, w, bits, erased)
  <2>1. decoded = [result |-> 0, drives |-> made]
    BY <1>1, <1>2, <1>5, <1>6
  <2>2. decoded.result = 0 /\ decoded.drives = made
    BY <2>1
  <2> QED BY <1>4, <1>6, <2>2 DEF DotsDecode, decoded
<1>7. CASE ~(ok /\ Recovers(k, m, w, bits, erased))
  <2>1. decoded = [result |-> -1, drives |-> old]
    BY <1>1, <1>2, <1>3, <1>5, <1>7
  <2>2. decoded.result = -1 /\ decoded.drives = old
    BY <2>1
  <2> QED BY <1>7, <2>2 DEF DotsDecode, decoded
<1> QED BY <1>6, <1>7

(***************************************************************************)
(* Carrying out a schedule.  Up to some operation of some stripe a packet  *)
(* of a row is the sum of what the operations on it have contributed, each *)
(* of which is a sum of packets of the first k pointers.                   *)
(***************************************************************************)
\* n drives are written to by way of the pointers from k on.
PointersFor(k, m, n, ids) ==
  /\ \A i \in 0..(k + n - 1) : Nth(ids, i) \in 0..(k + m - 1)
  /\ \A i, j \in 0..(k + n - 1) : Nth(ids, i) = Nth(ids, j) => i = j

ScheduleFor(k, w, rows, n, ops) ==
  RowsOn(k, w, rows) /\ Len(rows) = n * w /\ Sound(k, w, rows, ops, AllRows(rows))

\* The operations up to c that are on row r, and how many have been done in stripe b
Through(k, w, ops, c, r) == {x \in 1..c : RowOf(k, w, ops[x]) = r}
Count(ops, base, op, b) == IF b < base THEN Len(ops) ELSE IF b = base THEN op ELSE 0

Contributed(k, w, rows, ids, old, ops, c, i, p) ==
  LET done == Through(k, w, ops, c, At(w, i, p % w))
  IN  IF done = {} THEN Nth(old[Nth(ids, k + i)], p)
      ELSE Sum(StripeAt(k, w, old, ids, p - (p % w)), Sum(Contributions(k, w, rows, ops), done))

Carried(k, m, w, rows, n, ids, old, drives, ops, base, op, l) ==
  /\ drives \in Regions(k + m, l)
  /\ \A i \in 0..(n - 1) : \A p \in 0..(l - 1) :
       Nth(drives[Nth(ids, k + i)], p)
         = Contributed(k, w, rows, ids, old, ops, Count(ops, base, op, p - (p % w)), i, p)
  /\ \A d \in 0..(k + m - 1) : (\A i \in 0..(n - 1) : Nth(ids, k + i) # d) => drives[d] = old[d]

\* The parts of an operation: from position a to position k + i
Parted(k, w, rows, n, o, a, b, i, q, f) ==
  /\ o[1] = a /\ o[2] = b /\ o[3] = k + i /\ o[4] = q /\ o[5] = f
  /\ RowOf(k, w, o) = At(w, i, q)
  /\ a < k => Contribution(k, w, rows, o) = {At(w, a, b)}
  /\ a >= k => /\ a - k \in 0..(n - 1)
               /\ OriginOf(k, w, o) = At(w, a - k, b)
               /\ Contribution(k, w, rows, o) = Nth(rows, At(w, a - k, b))

LEMMA OperationParts ==
  ASSUME NEW k \in Nat, NEW w \in Nat \ {0}, NEW n \in Nat, NEW rows, NEW ops,
         ScheduleFor(k, w, rows, n, ops), NEW x \in 1..Len(ops)
  PROVE  \E a \in Nat, b \in 0..(w - 1), i \in 0..(n - 1), q \in 0..(w - 1), f \in 0..1 :
           Parted(k, w, rows, n, ops[x], a, b, i, q, f)
<1> DEFINE o == ops[x]
<1>1. PICK N1 \in Nat : N1 = Len(rows) /\ N1 = n * w
  BY DEF ScheduleFor
<1>2. /\ ops \in Seq(Operations(w)) /\ InTurn(k, w, ops, x, 0..(N1 - 1))
  <2>1. AllRows(rows) = 0..(N1 - 1)
    BY <1>1 DEF AllRows
  <2> QED BY <2>1 DEF ScheduleFor, Sound
<1>3. o \in Operations(w)
  BY <1>2
<1> HIDE DEF o
<1>4. PICK a \in Nat, b \in 0..(w - 1), t \in Nat, q \in 0..(w - 1), f \in 0..1 :
        o[1] = a /\ o[2] = b /\ o[3] = t /\ o[4] = q /\ o[5] = f
  BY <1>3 DEF Operations
<1>5. /\ t >= k /\ (t - k) * w + q \in 0..(N1 - 1)
      /\ a >= k => (a - k) * w + b \in 0..(N1 - 1)
  <2>1. /\ o[3] >= k /\ RowOf(k, w, o) \in 0..(N1 - 1)
        /\ o[1] >= k => OriginOf(k, w, o) \in 0..(N1 - 1)
    BY <1>2 DEF InTurn, o
  <2> QED BY <1>4, <2>1 DEF RowOf, OriginOf
<1>6. ASSUME NEW y \in Nat, NEW z \in 0..(w - 1), y * w + z \in 0..(N1 - 1) PROVE y \in 0..(n - 1)
  <2>1. (y * w + z) \div w = y
    BY DivMod
  <2>2. PICK v : v = y * w + z
    OBVIOUS
  <2>3. v \in 0..(n * w - 1)
    BY <1>1, <1>6, <2>2
  <2>4. v \div w \in 0..(n - 1)
    BY <2>3, DivModBelow
  <2> QED BY <2>1, <2>2, <2>4
<1>7. PICK i \in 0..(n - 1) : t = k + i
  <2>1. PICK y \in Nat : y = t - k
    BY <1>5
  <2>2. y \in 0..(n - 1)
    BY <1>5, <1>6, <2>1
  <2> QED BY <2>1, <2>2
<1>8. RowOf(k, w, o) = At(w, i, q)
  <2>1. t - k = i
    BY <1>7
  <2> QED BY <1>4, <2>1 DEF RowOf, At
<1>9. a < k => Contribution(k, w, rows, o) = {At(w, a, b)}
  BY <1>4 DEF Contribution, ColumnOf, At
<1>10. ASSUME a >= k
       PROVE  /\ a - k \in 0..(n - 1) /\ OriginOf(k, w, o) = At(w, a - k, b)
              /\ Contribution(k, w, rows, o) = Nth(rows, At(w, a - k, b))
  <2>1. PICK y \in Nat : y = a - k
    BY <1>10
  <2>2. y \in 0..(n - 1)
    BY <1>5, <1>6, <1>10, <2>1
  <2>3. OriginOf(k, w, o) = At(w, a - k, b)
    BY <1>4 DEF OriginOf, At
  <2> QED BY <1>4, <1>10, <2>1, <2>2, <2>3 DEF Contribution
<1>11. Parted(k, w, rows, n, o, a, b, i, q, f)
  BY <1>4, <1>7, <1>8, <1>9, <1>10 DEF Parted
<1> QED BY <1>11 DEF o

\* The first packet of a stripe that the regions have room for
StripeOf(w, base, reach, l) ==
  base \in Nat /\ Whole(w, base) /\ base < reach /\ Room(w, reach, l)

\* Packet q of the stripe
Lands(w, base, reach, l, q) ==
  /\ base + q \in 0..(reach - 1) /\ base + q \in 0..(l - 1)
  /\ (base + q) % w = q /\ (base + q) - ((base + q) % w) = base

LEMMA StripeFacts ==
  ASSUME NEW w \in Nat \ {0}, NEW l \in Nat, NEW reach \in Nat, NEW base \in Nat,
         StripeOf(w, base, reach, l), NEW q \in 0..(w - 1)
  PROVE  Lands(w, base, reach, l, q)
<1>1. base % w = 0 /\ Whole(w, reach) /\ reach <= l /\ base < reach
  BY DEF StripeOf, Whole, Room
<1>2. PICK p \in 0..(reach - 1) : p = base
  BY <1>1
<1>3. p - (p % w) = base
  BY <1>1, <1>2
<1>4. (p - (p % w)) + q \in 0..(reach - 1)
  BY <1>1, WholeStripe
<1>5. p \in Nat
  OBVIOUS
<1>6. /\ ((p - (p % w)) + q) % w = q
      /\ ((p - (p % w)) + q) - (((p - (p % w)) + q) % w) = p - (p % w)
  BY <1>5, PacketFacts
<1>7. base + q \in 0..(reach - 1)
  BY <1>3, <1>4
<1> QED BY <1>1, <1>3, <1>6, <1>7 DEF Lands

\* What has contributed is finite.
LEMMA ContributionsFinite ==
  ASSUME NEW k \in Nat, NEW w \in Nat \ {0}, NEW n \in Nat, NEW rows, NEW ops,
         ScheduleFor(k, w, rows, n, ops)
  PROVE  \A x \in 1..Len(ops) : IsFiniteSet(Contributions(k, w, rows, ops)[x])
<1>1. ASSUME NEW x \in 1..Len(ops) PROVE IsFiniteSet(Contributions(k, w, rows, ops)[x])
  <2>1. PICK a \in Nat, b \in 0..(w - 1), i \in 0..(n - 1), q \in 0..(w - 1), f \in 0..1 :
          Parted(k, w, rows, n, ops[x], a, b, i, q, f)
    BY OperationParts
  <2>2. Contributions(k, w, rows, ops)[x] = Contribution(k, w, rows, ops[x])
    BY DEF Contributions
  <2>3. CASE a < k
    <3>1. Contribution(k, w, rows, ops[x]) = {At(w, a, b)}
      BY <2>1, <2>3 DEF Parted
    <3>2. IsFiniteSet({At(w, a, b)})
      BY FS_Singleton
    <3> QED BY <2>2, <3>1, <3>2
  <2>4. CASE a >= k
    <3>1. PICK j \in 0..(n - 1) : j = a - k
      BY <2>1, <2>4 DEF Parted
    <3>2. Contribution(k, w, rows, ops[x]) = Nth(rows, At(w, j, b))
      BY <2>1, <2>4, <3>1 DEF Parted
    <3>3. j * w + b \in 0..(n * w - 1)
      BY DivModBelow
    <3>4. At(w, j, b) \in AllRows(rows)
      BY <3>3 DEF ScheduleFor, AllRows, At
    <3>5. Nth(rows, At(w, j, b)) \in SUBSET Columns(k, w)
      BY <3>4, RowsFacts DEF ScheduleFor
    <3> QED BY <2>2, <3>2, <3>5, RowCardinality
  <2> QED BY <2>3, <2>4
<1> QED BY <1>1

LEMMA SourceSum ==
  ASSUME NEW k \in Nat, NEW m \in Nat, NEW w \in Nat \ {0}, NEW n \in Nat, NEW rows, NEW ops,
         ScheduleFor(k, w, rows, n, ops), NEW ids, PointersFor(k, m, n, ids),
         NEW l \in Nat, NEW reach \in Nat, NEW base \in Nat, StripeOf(w, base, reach, l),
         NEW op \in Nat, op + 1 \in 1..Len(ops), NEW old, NEW drives,
         Carried(k, m, w, rows, n, ids, old, drives, ops, base, op, l),
         NEW a \in Nat, NEW b \in 0..(w - 1), NEW i \in 0..(n - 1), NEW q \in 0..(w - 1),
         NEW f \in 0..1, Parted(k, w, rows, n, ops[op + 1], a, b, i, q, f)
  PROVE  /\ Nth(drives[Nth(ids, a)], base + b)
              = Sum(StripeAt(k, w, old, ids, base), Contributions(k, w, rows, ops)[op + 1])
         /\ Nth(ids, a) \in 0..(k + m - 1)
<1> DEFINE S == StripeAt(k, w, old, ids, base)
           C == Contributions(k, w, rows, ops)
           x == op + 1
<1>1. C[x] = Contribution(k, w, rows, ops[x])
  BY DEF Contributions
<1>2. PICK p \in 0..(l - 1) : p = base + b /\ p % w = b /\ p - (p % w) = base
  <2>1. Lands(w, base, reach, l, b)
    BY StripeFacts
  <2> QED BY <2>1 DEF Lands
<1>3. CASE a < k
  <2>1. a \in 0..(k - 1) /\ a \in 0..(k + n - 1)
    BY <1>3
  <2>2. PICK d \in 0..(k + m - 1) : d = Nth(ids, a)
    BY <2>1 DEF PointersFor
  <2>3. \A j \in 0..(n - 1) : Nth(ids, k + j) # d
    <3>1. \A j \in 0..(n - 1) : k + j \in 0..(k + n - 1) /\ k + j # a
      BY <1>3
    <3> QED BY <2>1, <2>2, <3>1 DEF PointersFor
  <2>4. drives[d] = old[d]
    BY <2>3 DEF Carried
  <2>5. PICK c \in Columns(k, w) : c = At(w, a, b) /\ c \div w = a /\ c % w = b
    BY <2>1, ColumnAt
  <2>6. S[c] = Nth(old[d], p)
    BY <1>2, <2>2, <2>5 DEF StripeAt
  <2>7. C[x] = {c}
    BY <1>1, <1>3, <2>5 DEF Parted
  <2> HIDE DEF S, C
  <2>8. Sum(S, {c}) = S[c]
    BY SumOver
  <2> QED BY <1>2, <2>2, <2>4, <2>6, <2>7, <2>8 DEF S, C
<1>4. CASE a >= k
  <2>1. PICK j \in 0..(n - 1) : j = a - k /\ a = k + j
    BY <1>4 DEF Parted
  <2>2. OriginOf(k, w, ops[x]) = At(w, j, b) /\ C[x] = Nth(rows, At(w, j, b)) /\ ops[x][1] >= k
    BY <1>1, <1>4, <2>1 DEF Parted
  <2> DEFINE g == At(w, j, b)
             done == Through(k, w, ops, op, g)
  <2>3. InTurn(k, w, ops, x, AllRows(rows))
    BY DEF ScheduleFor, Sound
  <2>4. /\ g \in AllRows(rows)
        /\ \E y \in 1..(x - 1) : RowOf(k, w, ops[y]) = g
        /\ \A y \in x..Len(ops) : RowOf(k, w, ops[y]) # g
    BY <2>2, <2>3 DEF InTurn
  <2>5. done # {} /\ done = Writing(k, w, ops, g)
    <3>1. x - 1 = op
      OBVIOUS
    <3>2. PICK l1 \in Nat : l1 = Len(ops)
      BY DEF ScheduleFor, Sound
    <3>3. \A y \in 1..l1 : y \in 1..op \/ y \in x..l1
      BY <3>2
    <3>4. \A y \in 1..op : y \in 1..l1
      BY <3>2
    <3> QED BY <2>4, <3>1, <3>2, <3>3, <3>4 DEF Through, Writing
  <2>6. Sum(C, Writing(k, w, ops, g)) = Nth(rows, g)
    BY <2>4 DEF ScheduleFor, Sound
  <2>7. Count(ops, base, op, p - (p % w)) = op
    BY <1>2 DEF Count
  <2>8. Nth(drives[Nth(ids, k + j)], p) = Contributed(k, w, rows, ids, old, ops, op, j, p)
    BY <2>7 DEF Carried
  <2>9. Contributed(k, w, rows, ids, old, ops, op, j, p) = Sum(S, Sum(C, done))
    BY <1>2, <2>5 DEF Contributed
  <2>10. Nth(ids, a) \in 0..(k + m - 1)
    <3>1. a \in 0..(k + n - 1)
      BY <2>1
    <3> QED BY <3>1 DEF PointersFor
  <2> HIDE DEF S, C, done, g
  <2> QED BY <1>2, <2>1, <2>2, <2>5, <2>6, <2>8, <2>9, <2>10 DEF S, C, g
<1> QED BY <1>3, <1>4

\* The packet that an operation makes
Operated(f, source, at) == IF f = 1 THEN Xor(source, at) ELSE source

\* What it reads
SourceIs(k, w, rows, ids, old, ops, base, op, source) ==
  source = Sum(StripeAt(k, w, old, ids, base), Contributions(k, w, rows, ops)[op + 1])

LEMMA OperateRight ==
  ASSUME NEW k \in Nat, NEW m \in Nat, NEW w \in Nat \ {0}, NEW n \in Nat, NEW rows, NEW ops,
         ScheduleFor(k, w, rows, n, ops), NEW ids, PointersFor(k, m, n, ids),
         NEW l \in Nat, NEW reach \in Nat, NEW base \in Nat, StripeOf(w, base, reach, l),
         NEW op \in Nat, op + 1 \in 1..Len(ops), NEW old, NEW drives,
         Carried(k, m, w, rows, n, ids, old, drives, ops, base, op, l)
  PROVE  Carried(k, m, w, rows, n, ids, old, Operate(ids, ops[op + 1], base, drives), ops, base,
                 op + 1, l)
<1> DEFINE x == op + 1
           new == Operate(ids, ops[x], base, drives)
<1>1. PICK a \in Nat, b \in 0..(w - 1), i \in 0..(n - 1), q \in 0..(w - 1), f \in 0..1 :
        Parted(k, w, rows, n, ops[x], a, b, i, q, f)
  BY OperationParts
<1>2. PICK source : source = Nth(drives[Nth(ids, a)], base + b)
  OBVIOUS
<1>3. SourceIs(k, w, rows, ids, old, ops, base, op, source) /\ Nth(ids, a) \in 0..(k + m - 1)
  <2>1. /\ Nth(drives[Nth(ids, a)], base + b)
             = Sum(StripeAt(k, w, old, ids, base), Contributions(k, w, rows, ops)[op + 1])
        /\ Nth(ids, a) \in 0..(k + m - 1)
    BY <1>1, SourceSum
  <2> QED BY <1>2, <2>1 DEF SourceIs
<1>4. PICK e \in 0..(k + m - 1) : e = Nth(ids, k + i)
  <2>1. k + i \in 0..(k + n - 1)
    OBVIOUS
  <2> QED BY <2>1 DEF PointersFor
<1>5. PICK p \in 0..(l - 1) : p = base + q /\ p % w = q /\ p - (p % w) = base
  <2>1. Lands(w, base, reach, l, q)
    BY StripeFacts
  <2> QED BY <2>1 DEF Lands
<1>6. base + b \in 0..(l - 1)
  <2>1. Lands(w, base, reach, l, b)
    BY StripeFacts
  <2> QED BY <2>1 DEF Lands
<1>7. PICK N1 \in Nat : N1 = k + m
  OBVIOUS
<1>8. /\ drives \in Regions(N1, l) /\ e \in 0..(N1 - 1) /\ DOMAIN drives = 0..(N1 - 1)
      /\ drives[e] \in [1..l -> SUBSET (Nat \X Nat)]
      /\ source \in SUBSET (Nat \X Nat) /\ Nth(drives[e], p) \in SUBSET (Nat \X Nat)
      /\ p + 1 \in 1..l
  <2>1. drives \in Regions(N1, l) /\ e \in 0..(N1 - 1)
    BY <1>7 DEF Carried
  <2>2. PICK d \in 0..(N1 - 1) : d = Nth(ids, a)
    BY <1>3, <1>7
  <2>3. PICK r \in 0..(l - 1) : r = base + b
    BY <1>6
  <2>4. Nth(drives[d], r) \in SUBSET (Nat \X Nat)
    <3>1. \A y \in 0..(l - 1) : Nth(drives[d], y) \in SUBSET (Nat \X Nat)
      BY <2>1, RegionFacts
    <3> QED BY <3>1
  <2>5. /\ DOMAIN drives = 0..(N1 - 1) /\ drives[e] \in [1..l -> SUBSET (Nat \X Nat)]
        /\ p + 1 \in 1..l /\ Nth(drives[e], p) \in SUBSET (Nat \X Nat)
    BY <2>1, RegionFacts
  <2> QED BY <1>2, <2>1, <2>2, <2>3, <2>4, <2>5
<1> DEFINE packet == Operated(f, source, Nth(drives[e], p))
           content == [drives[e] EXCEPT ![p + 1] = packet]
<1>9. new = [drives EXCEPT ![e] = content]
  <2>1. /\ ops[x][1] = a /\ ops[x][2] = b /\ ops[x][3] = k + i /\ ops[x][4] = q /\ ops[x][5] = f
    BY <1>1 DEF Parted
  <2>2. base + q + 1 = p + 1
    BY <1>5
  <2>3. new = [drives EXCEPT ![Nth(ids, k + i)] =
                 [drives[Nth(ids, k + i)] EXCEPT ![base + q + 1] =
                    IF f = 1 THEN Xor(Nth(drives[Nth(ids, a)], base + b),
                                      drives[Nth(ids, k + i)][base + q + 1])
                    ELSE Nth(drives[Nth(ids, a)], base + b)]]
    BY <1>4, <1>8, <2>1, <2>2 DEF Operate
  <2> QED BY <1>2, <1>4, <2>2, <2>3 DEF Operated, Nth
<1>10. packet \in SUBSET (Nat \X Nat)
  BY <1>8 DEF Operated, Xor, SymDiff
<1>11. content \in [1..l -> SUBSET (Nat \X Nat)]
  <2> HIDE DEF packet
  <2> QED BY <1>8, <1>10
<1>12. new \in Regions(k + m, l)
  <2> HIDE DEF content, new
  <2> QED BY <1>7, <1>8, <1>9, <1>11 DEF Regions
<1>13. ASSUME NEW j \in 0..(n - 1), NEW r \in 0..(l - 1)
       PROVE  Nth(new[Nth(ids, k + j)], r)
                = Contributed(k, w, rows, ids, old, ops, Count(ops, base, x, r - (r % w)), j, r)
  <2>1. PICK d \in 0..(N1 - 1) : d = Nth(ids, k + j)
    <3>1. k + j \in 0..(k + n - 1)
      OBVIOUS
    <3> QED BY <1>7, <3>1 DEF PointersFor
  <2>2. d = e <=> j = i
    <3>1. k + j \in 0..(k + n - 1) /\ k + i \in 0..(k + n - 1)
      OBVIOUS
    <3>2. d = e => k + j = k + i
      BY <1>4, <2>1, <3>1 DEF PointersFor
    <3>3. j = i => d = e
      BY <1>4, <2>1
    <3>4. k + j = k + i => j = i
      OBVIOUS
    <3> QED BY <3>2, <3>3, <3>4
  <2>3. Nth(drives[d], r)
          = Contributed(k, w, rows, ids, old, ops, Count(ops, base, op, r - (r % w)), j, r)
    BY <2>1 DEF Carried
  <2>4. r \in Nat /\ r + 1 \in 1..l /\ (r + 1 = p + 1 <=> r = p)
    OBVIOUS
  <2>5. Nth(new[d], r) = IF d = e /\ r = p THEN packet ELSE Nth(drives[d], r)
    <3>1. new[d] = IF d = e THEN content ELSE drives[d]
      <4> HIDE DEF content, new
      <4> QED BY <1>8, <1>9
    <3>2. content[r + 1] = IF r = p THEN packet ELSE drives[e][r + 1]
      <4> HIDE DEF packet
      <4> QED BY <1>8, <2>4
    <3> HIDE DEF content, packet, new
    <3> QED BY <3>1, <3>2 DEF Nth
  <2>6. CASE d = e /\ r = p
    <3>1. Count(ops, base, op, r - (r % w)) = op /\ Count(ops, base, x, r - (r % w)) = x
      BY <1>5, <2>6 DEF Count
    <3>2. Nth(drives[e], p) = Contributed(k, w, rows, ids, old, ops, op, i, base + q)
      BY <1>5, <2>2, <2>3, <2>6, <3>1
    <3>3. Contributed(k, w, rows, ids, old, ops, op + 1, i, base + q)
            = Operated(f, source, Contributed(k, w, rows, ids, old, ops, op, i, base + q))
      <4> DEFINE S == StripeAt(k, w, old, ids, base)
                 C == Contributions(k, w, rows, ops)
                 t == At(w, i, q)
                 done == Through(k, w, ops, op, t)
                 next == Through(k, w, ops, x, t)
      <4>1. (base + q) % w = q /\ (base + q) - ((base + q) % w) = base
        BY <1>5
      <4>2. /\ Contributed(k, w, rows, ids, old, ops, op, i, base + q)
                 = IF done = {} THEN Nth(old[Nth(ids, k + i)], base + q) ELSE Sum(S, Sum(C, done))
            /\ Contributed(k, w, rows, ids, old, ops, x, i, base + q)
                 = IF next = {} THEN Nth(old[Nth(ids, k + i)], base + q) ELSE Sum(S, Sum(C, next))
        BY <4>1 DEF Contributed
      <4>3. RowOf(k, w, ops[x]) = t /\ ops[x][5] = f
        BY <1>1 DEF Parted
      <4>4. IsFiniteSet(done) /\ x \notin done /\ next = done \cup {x}
        <5>1. IsFiniteSet(1..op)
          BY FS_Interval
        <5>2. IsFiniteSet(done)
          BY <5>1, FS_Subset DEF Through
        <5>3. 1..x = (1..op) \cup {x} /\ x \notin 1..op
          OBVIOUS
        <5> HIDE DEF x, t
        <5> QED BY <4>3, <5>2, <5>3 DEF Through
      <4>5. f = 0 <=> done = {}
        <5>1. InTurn(k, w, ops, x, AllRows(rows))
          BY DEF ScheduleFor, Sound
        <5>2. f = 0 <=> \A y \in 1..(x - 1) : RowOf(k, w, ops[y]) # t
          BY <4>3, <5>1 DEF InTurn
        <5>3. x - 1 = op
          OBVIOUS
        <5> HIDE DEF t, x
        <5> QED BY <5>2, <5>3 DEF Through
      <4>6. done \subseteq 1..Len(ops) /\ \A y \in done : IsFiniteSet(C[y])
        <5>1. PICK l1 \in Nat : l1 = Len(ops)
          BY DEF ScheduleFor, Sound
        <5>2. \A y \in 1..op : y \in 1..l1
          BY <5>1
        <5>3. done \subseteq 1..Len(ops)
          BY <5>1, <5>2 DEF Through
        <5>4. \A y \in 1..Len(ops) : IsFiniteSet(C[y])
          BY ContributionsFinite
        <5> HIDE DEF C, done
        <5> QED BY <5>3, <5>4
      <4>7. IsFiniteSet(C[x])
        BY ContributionsFinite
      <4> HIDE DEF S, C, done, next
      <4>8. CASE f = 0
        <5>1. next = {x} /\ done = {}
          BY <4>4, <4>5, <4>8
        <5>2. Sum(C, {x}) = C[x]
          BY SumOver
        <5> HIDE DEF x
        <5>3. source = Sum(S, C[x])
          BY <1>3 DEF S, C, x, SourceIs
        <5>4. Contributed(k, w, rows, ids, old, ops, x, i, base + q) = Sum(S, Sum(C, next))
          BY <4>2, <5>1
        <5>5. Operated(f, source, Contributed(k, w, rows, ids, old, ops, op, i, base + q)) = source
          BY <4>8 DEF Operated
        <5> QED BY <5>1, <5>2, <5>3, <5>4, <5>5 DEF x
      <4>9. CASE f = 1
        <5>1. done # {} /\ next # {}
          BY <4>4, <4>5, <4>9
        <5>2. Sum(C, next) = Xor(Sum(C, done), C[x])
          BY <4>4, SumAdd
        <5>3. IsFiniteSet(Sum(C, done))
          BY <4>4, <4>6, SumOverSum
        <5>4. Sum(S, Xor(Sum(C, done), C[x])) = Xor(Sum(S, Sum(C, done)), Sum(S, C[x]))
          BY <4>7, <5>3, SumOverXor
        <5>5. Xor(Sum(S, Sum(C, done)), Sum(S, C[x])) = Xor(Sum(S, C[x]), Sum(S, Sum(C, done)))
          BY XorFacts
        <5>6. source = Sum(S, C[x])
          BY <1>3 DEF S, C, x, SourceIs
        <5> QED BY <4>2, <4>9, <5>1, <5>2, <5>4, <5>5, <5>6 DEF Operated
      <4> QED BY <4>8, <4>9
    <3> HIDE DEF new
    <3> QED BY <1>5, <2>1, <2>2, <2>5, <2>6, <3>1, <3>2, <3>3
  <2>7. CASE ~(d = e /\ r = p)
    <3>1. Nth(new[d], r) = Nth(drives[d], r)
      BY <2>5, <2>7
    <3>2. CASE r - (r % w) # base
      <4>1. Count(ops, base, op, r - (r % w)) = Count(ops, base, x, r - (r % w))
        BY <3>2 DEF Count
      <4> HIDE DEF new
      <4> QED BY <2>1, <2>3, <3>1, <4>1
    <3>3. CASE r - (r % w) = base
      <4>1. PICK s \in 0..(w - 1) : s = r % w
        BY <2>4, PacketFacts
      <4>2. r = base + s
        BY <2>4, <3>3, <4>1
      <4>3. ~(j = i /\ s = q)
        BY <1>5, <2>2, <2>7, <4>2
      <4>4. At(w, j, s) # At(w, i, q)
        <5>1. (j * w + s) \div w = j /\ (j * w + s) % w = s
          <6>1. j \in Nat
            OBVIOUS
          <6> QED BY <6>1, DivMod
        <5>2. (i * w + q) \div w = i /\ (i * w + q) % w = q
          <6>1. i \in Nat
            OBVIOUS
          <6> QED BY <6>1, DivMod
        <5> QED BY <4>3, <5>1, <5>2 DEF At
      <4>5. RowOf(k, w, ops[x]) = At(w, i, q)
        BY <1>1 DEF Parted
      <4>6. Through(k, w, ops, x, At(w, j, s)) = Through(k, w, ops, op, At(w, j, s))
        <5>1. 1..x = (1..op) \cup {x}
          OBVIOUS
        <5> HIDE DEF x
        <5> QED BY <4>4, <4>5, <5>1 DEF Through
      <4>7. Count(ops, base, op, r - (r % w)) = op /\ Count(ops, base, x, r - (r % w)) = x
        BY <3>3 DEF Count
      <4>8. Contributed(k, w, rows, ids, old, ops, x, j, r)
              = Contributed(k, w, rows, ids, old, ops, op, j, r)
        BY <4>1, <4>6 DEF Contributed
      <4> HIDE DEF new, x
      <4> QED BY <2>1, <2>3, <3>1, <4>7, <4>8
    <3> QED BY <3>2, <3>3
  <2> QED BY <2>6, <2>7
<1>14. ASSUME NEW d \in 0..(k + m - 1), \A j \in 0..(n - 1) : Nth(ids, k + j) # d
       PROVE  new[d] = old[d]
  <2>1. drives[d] = old[d]
    BY <1>14 DEF Carried
  <2>2. d # e
    BY <1>4, <1>14
  <2>3. d \in 0..(N1 - 1)
    BY <1>7
  <2> HIDE DEF content, new
  <2> QED BY <1>8, <1>9, <2>1, <2>2, <2>3
<1> HIDE DEF new
<1> QED BY <1>12, <1>13, <1>14 DEF Carried, new

\* Stripes begin at whole multiples, so that one begins before another or is it.
LEMMA StripeOrder ==
  ASSUME NEW w \in Nat \ {0}, NEW p \in Nat, NEW b \in Nat, Whole(w, b)
  PROVE  /\ p - (p % w) < b <=> p < b
         /\ p - (p % w) < b + w <=> p - (p % w) <= b
<1>1. PICK a \in Nat : b = a * w
  <2>1. PICK x \in Nat, z \in 0..(w - 1) : b = x * w + z /\ z = b % w
    <3>1. b = (b \div w) * w + (b % w) /\ b \div w \in Nat /\ b % w \in 0..(w - 1)
      BY DivMod
    <3> QED BY <3>1
  <2>2. z = 0
    BY <2>1 DEF Whole
  <2>3. x * w \in Nat
    OBVIOUS
  <2> QED BY <2>1, <2>2, <2>3
<1>2. PICK x \in Nat, r \in 0..(w - 1) : p = x * w + r /\ r = p % w
  <2>1. p = (p \div w) * w + (p % w) /\ p \div w \in Nat /\ p % w \in 0..(w - 1)
    BY DivMod
  <2> QED BY <2>1
<1>3. p - (p % w) = x * w
  BY <1>2
<1>4. CASE x < a
  <2>1. x * w + w <= a * w
    <3>1. PICK y \in Nat : a = x + 1 + y
      BY <1>4
    <3>2. a * w = x * w + w + y * w /\ y * w \in Nat
      BY <3>1
    <3> QED BY <3>2
  <2> QED BY <1>1, <1>2, <1>3, <2>1
<1>5. CASE x = a
  BY <1>1, <1>2, <1>3, <1>5
<1>6. CASE x > a
  <2>1. x * w >= a * w + w
    <3>1. PICK y \in Nat : x = a + 1 + y
      BY <1>6
    <3>2. x * w = a * w + w + y * w /\ y * w \in Nat
      BY <3>1
    <3> QED BY <3>2
  <2> QED BY <1>1, <1>2, <1>3, <2>1
<1> QED BY <1>4, <1>5, <1>6

LEMMA CarriedStart ==
  ASSUME NEW k \in Nat, NEW m \in Nat, NEW w \in Nat \ {0}, NEW rows, NEW n \in Nat, NEW ids,
         NEW ops, NEW l \in Nat, NEW old \in Regions(k + m, l)
  PROVE  Carried(k, m, w, rows, n, ids, old, old, ops, 0, 0, l)
<1>1. ASSUME NEW i \in 0..(n - 1), NEW p \in 0..(l - 1)
      PROVE  Nth(old[Nth(ids, k + i)], p)
               = Contributed(k, w, rows, ids, old, ops, Count(ops, 0, 0, p - (p % w)), i, p)
  <2>1. PICK b \in Nat : b = p - (p % w)
    <3>1. p \in Nat
      OBVIOUS
    <3> QED BY <3>1, PacketFacts
  <2>2. Count(ops, 0, 0, p - (p % w)) = 0
    BY <2>1 DEF Count
  <2>3. Through(k, w, ops, 0, At(w, i, p % w)) = {}
    BY DEF Through
  <2> QED BY <2>2, <2>3 DEF Contributed
<1> QED BY <1>1 DEF Carried

LEMMA CarriedStripe ==
  ASSUME NEW k \in Nat, NEW m \in Nat, NEW w \in Nat \ {0}, NEW rows, NEW n \in Nat, NEW ids,
         NEW ops, NEW l \in Nat, NEW reach \in Nat, NEW base \in Nat, StripeOf(w, base, reach, l),
         NEW old, NEW drives,
         Carried(k, m, w, rows, n, ids, old, drives, ops, base, Len(ops), l)
  PROVE  Carried(k, m, w, rows, n, ids, old, drives, ops, base + w, 0, l)
<1>1. ASSUME NEW p \in 0..(l - 1)
      PROVE  Count(ops, base, Len(ops), p - (p % w)) = Count(ops, base + w, 0, p - (p % w))
  <2>1. p \in Nat
    OBVIOUS
  <2>2. PICK b \in Nat : b = p - (p % w)
    BY <2>1, PacketFacts
  <2>3. b < base + w <=> b <= base
    BY <2>1, <2>2, StripeOrder DEF StripeOf
  <2> QED BY <2>2, <2>3 DEF Count
<1> QED BY <1>1 DEF Carried

\* Behind the stripe that is being made nothing has been written.
LEMMA CarriedBeyond ==
  ASSUME NEW k \in Nat, NEW m \in Nat, NEW w \in Nat \ {0}, NEW rows, NEW n \in Nat, NEW ids,
         PointersFor(k, m, n, ids), NEW ops,
         NEW l \in Nat, NEW reach \in Nat, NEW base \in Nat, StripeOf(w, base, reach, l),
         NEW op, NEW old, NEW drives,
         Carried(k, m, w, rows, n, ids, old, drives, ops, base, op, l),
         NEW d \in 0..(k + m - 1), NEW p \in 0..(l - 1), p >= reach
  PROVE  Nth(drives[d], p) = Nth(old[d], p)
<1>1. CASE \A i \in 0..(n - 1) : Nth(ids, k + i) # d
  BY <1>1 DEF Carried
<1>2. CASE \E i \in 0..(n - 1) : Nth(ids, k + i) = d
  <2>1. PICK i \in 0..(n - 1) : Nth(ids, k + i) = d
    BY <1>2
  <2>2. p \in Nat
    OBVIOUS
  <2>3. PICK b \in Nat : b = p - (p % w)
    BY <2>2, PacketFacts
  <2>4. ~(b < reach) /\ base < reach
    <3>1. Whole(w, reach) /\ base < reach
      BY DEF StripeOf, Room
    <3>2. p - (p % w) < reach <=> p < reach
      BY <2>2, <3>1, StripeOrder
    <3> QED BY <2>3, <3>1, <3>2
  <2>5. Count(ops, base, op, p - (p % w)) = 0
    BY <2>3, <2>4 DEF Count
  <2>6. Through(k, w, ops, 0, At(w, i, p % w)) = {}
    BY DEF Through
  <2> QED BY <2>1, <2>5, <2>6 DEF Carried, Contributed
<1> QED BY <1>1, <1>2

LastStripe(w, base, reach) == base + w = reach

\* Packet p of the drive behind position k + i is what its row makes.
MadeBy(k, w, rows, ids, old, drives, i, p) ==
  Nth(rows, At(w, i, p % w)) # {} =>
    Nth(drives[Nth(ids, k + i)], p)
      = Sum(StripeAt(k, w, old, ids, p - (p % w)), Nth(rows, At(w, i, p % w)))

\* When the last stripe is made every row that is not empty has been.
LEMMA CarriedThrough ==
  ASSUME NEW k \in Nat, NEW m \in Nat, NEW w \in Nat \ {0}, NEW rows, NEW n \in Nat, NEW ids,
         NEW ops, ScheduleFor(k, w, rows, n, ops),
         NEW l \in Nat, NEW reach \in Nat, NEW base \in Nat, StripeOf(w, base, reach, l),
         LastStripe(w, base, reach), NEW old, NEW drives,
         Carried(k, m, w, rows, n, ids, old, drives, ops, base, Len(ops), l),
         NEW i \in 0..(n - 1), NEW p \in 0..(reach - 1)
  PROVE  MadeBy(k, w, rows, ids, old, drives, i, p)
<1> SUFFICES ASSUME Nth(rows, At(w, i, p % w)) # {}
             PROVE  Nth(drives[Nth(ids, k + i)], p)
                      = Sum(StripeAt(k, w, old, ids, p - (p % w)), Nth(rows, At(w, i, p % w)))
  BY DEF MadeBy
<1>1. p \in Nat /\ p \in 0..(l - 1)
  BY DEF StripeOf, Room
<1>2. PICK b \in Nat : b = p - (p % w)
  BY <1>1, PacketFacts
<1>3. b < base + w /\ b <= base
  <2>1. Whole(w, reach) /\ Whole(w, base)
    BY DEF StripeOf, Room
  <2>2. p - (p % w) < reach <=> p < reach
    BY <1>1, <2>1, StripeOrder
  <2>3. p - (p % w) < base + w <=> p - (p % w) <= base
    BY <1>1, <2>1, StripeOrder
  <2> QED BY <1>2, <2>2, <2>3 DEF LastStripe
<1>4. Count(ops, base, Len(ops), p - (p % w)) = Len(ops)
  BY <1>2, <1>3 DEF Count
<1> DEFINE r == At(w, i, p % w)
           C == Contributions(k, w, rows, ops)
<1>5. Through(k, w, ops, Len(ops), r) = Writing(k, w, ops, r)
  BY DEF Through, Writing
<1>6. r \in AllRows(rows)
  <2>1. PICK q \in 0..(w - 1) : q = p % w
    BY <1>1, PacketFacts
  <2>2. i * w + q \in 0..(n * w - 1)
    BY DivModBelow
  <2> QED BY <2>1, <2>2 DEF ScheduleFor, AllRows, At
<1>7. Sum(C, Writing(k, w, ops, r)) = Nth(rows, r)
  BY <1>6 DEF ScheduleFor, Sound
<1>8. Writing(k, w, ops, r) # {}
  <2>1. Sum(C, {}) = {}
    BY DEF Sum
  <2> QED BY <1>7, <2>1
<1>9. Nth(drives[Nth(ids, k + i)], p) = Contributed(k, w, rows, ids, old, ops, Len(ops), i, p)
  BY <1>1, <1>4 DEF Carried
<1> HIDE DEF r, C
<1> QED BY <1>5, <1>7, <1>8, <1>9 DEF Contributed, r, C

\* Position i is drive i, as for encoding.
LEMMA AllInPlace ==
  ASSUME NEW k \in Nat, NEW m \in Nat
  PROVE  /\ PointersFor(k, m, m, Ids(k + m)) /\ IdsFor(k, m, Ids(k + m))
         /\ \A i \in 0..(k + m - 1) : Nth(Ids(k + m), i) = i
<1>1. ASSUME NEW i \in 0..(k + m - 1) PROVE Nth(Ids(k + m), i) = i
  <2>1. i + 1 \in 1..(k + m) /\ (i + 1) - 1 = i
    OBVIOUS
  <2> QED BY <2>1 DEF Nth, Ids
<1>2. \A i \in 0..(k - 1) : i \in 0..(k + m - 1)
  OBVIOUS
<1> QED BY <1>1, <1>2 DEF PointersFor, IdsFor

\* A schedule for the rows of the bitmatrix encodes.
LEMMA EncodingDone ==
  ASSUME NEW k \in Nat, NEW m \in Nat, NEW w \in Nat \ {0}, NEW bits, BitsFor(k, m, w, bits),
         NoneEmpty(m, w, bits), NEW ops, ScheduleFor(k, w, bits, m, ops),
         NEW l \in Nat, NEW reach \in Nat, NEW base \in Nat, StripeOf(w, base, reach, l),
         LastStripe(w, base, reach), NEW old, Keeps(k, w, bits, old, 0..(k - 1), reach), NEW drives,
         Carried(k, m, w, bits, m, Ids(k + m), old, drives, ops, base, Len(ops), l)
  PROVE  Stage(k, m, w, bits, old, drives, k..(k + m - 1), reach, l)
<1> DEFINE ids == Ids(k + m)
<1>1. /\ PointersFor(k, m, m, ids) /\ IdsFor(k, m, ids)
      /\ \A i \in 0..(k + m - 1) : Nth(ids, i) = i
  BY AllInPlace
<1> HIDE DEF ids
<1>2. Carried(k, m, w, bits, m, ids, old, drives, ops, base, Len(ops), l)
  BY DEF ids
<1>3. Holding(k, w, bits, old, ids, reach)
  <2>1. \A i \in 0..(k - 1) : Nth(ids, i) = i
    BY <1>1
  <2> QED BY <2>1 DEF Keeps, Holding
<1>4. Whole(w, reach) /\ reach <= l
  BY DEF StripeOf, Room
<1>5. ASSUME NEW d \in 0..(k + m - 1), NEW p \in 0..(l - 1)
      PROVE  Nth(drives[d], p) = IF d \in k..(k + m - 1) /\ p < reach THEN Code(k, w, bits, d, p)
                                 ELSE Nth(old[d], p)
  <2>1. CASE d < k
    <3>1. \A i \in 0..(m - 1) : Nth(ids, k + i) # d
      <4>1. \A i \in 0..(m - 1) : k + i \in 0..(k + m - 1) /\ k + i # d
        BY <2>1
      <4> QED BY <1>1, <4>1
    <3>2. drives[d] = old[d]
      BY <1>2, <3>1 DEF Carried
    <3> QED BY <2>1, <3>2
  <2>2. CASE p >= reach
    <3>1. Nth(drives[d], p) = Nth(old[d], p)
      BY <1>1, <1>2, <2>2, CarriedBeyond
    <3> QED BY <2>2, <3>1
  <2>3. CASE d >= k /\ p < reach
    <3>1. PICK i \in 0..(m - 1) : i = d - k /\ k + i = d
      BY <2>3
    <3>2. PICK p1 \in 0..(reach - 1) : p1 = p
      BY <2>3
    <3>3. PICK q \in 0..(w - 1) : q = p1 % w
      <4>1. p1 \in Nat
        OBVIOUS
      <4> QED BY <4>1, PacketFacts
    <3> DEFINE row == Nth(bits, At(w, i, q))
    <3>4. row = Generated(k, w, bits, d, q) /\ row \in SUBSET Columns(k, w) /\ row # {}
      <4>1. row = Generated(k, w, bits, d, q)
        BY <2>3, <3>1 DEF Generated, At
      <4>2. Generated(k, w, bits, d, q) \in SUBSET Columns(k, w)
        BY GeneratedOn
      <4>3. i * w + q \in 0..(m * w - 1)
        BY DivModBelow
      <4>4. row # {}
        BY <4>3 DEF NoneEmpty, At
      <4> QED BY <4>1, <4>2, <4>4
    <3> HIDE DEF row
    <3>5. \A c \in Columns(k, w) : SourceRows(k, w, bits, ids)[c] = {c}
      <4>1. ASSUME NEW c \in Columns(k, w) PROVE SourceRows(k, w, bits, ids)[c] = {c}
        <5>1. PICK a \in 0..(k - 1), s \in 0..(w - 1) : a = c \div w /\ s = c % w /\ c = a * w + s
          BY ColumnParts
        <5>2. Nth(ids, a) = a /\ a < k
          BY <1>1
        <5> QED BY <5>1, <5>2 DEF SourceRows, Generated
      <4> QED BY <4>1
    <3>6. Sum(SourceRows(k, w, bits, ids), row) = row
      <4>1. IsFiniteSet(row)
        BY <3>4, RowCardinality
      <4>2. \A c \in row : SourceRows(k, w, bits, ids)[c] = {c}
        BY <3>4, <3>5
      <4> QED BY <4>1, <4>2, SumOfUnits
    <3>7. Sum(StripeAt(k, w, old, ids, p1 - (p1 % w)), row) = Code(k, w, bits, d, p1)
      <4>1. Sum(SourceRows(k, w, bits, ids), row) = Generated(k, w, bits, d, p1 % w)
        BY <3>3, <3>4, <3>6
      <4> QED BY <1>1, <1>3, <1>4, <3>4, <4>1, StripeSum
    <3>8. Nth(drives[Nth(ids, k + i)], p1) = Sum(StripeAt(k, w, old, ids, p1 - (p1 % w)), row)
      <4>1. Nth(bits, At(w, i, p1 % w)) = row
        BY <3>3 DEF row
      <4>2. Nth(bits, At(w, i, p1 % w)) # {}
        BY <3>4, <4>1
      <4>3. MadeBy(k, w, bits, ids, old, drives, i, p1)
        BY <1>2, CarriedThrough
      <4> QED BY <4>1, <4>2, <4>3 DEF MadeBy
    <3>9. Nth(ids, k + i) = d
      BY <1>1, <3>1
    <3> QED BY <2>3, <3>2, <3>7, <3>8, <3>9
  <2> QED BY <2>1, <2>2, <2>3
<1> QED BY <1>2, <1>5 DEF Stage, Carried

\* The pointers behind the first k lead to the lost drives.
LEMMA PointersGood ==
  ASSUME NEW k \in Nat, NEW m \in Nat, NEW erased, LossOf(k, m, erased)
  PROVE  LET ids == row_ids(k, m, erased)
             n == Cardinality(erased)
         IN  /\ n \in Nat /\ PointersFor(k, m, n, ids) /\ IdsFor(k, m, ids)
             /\ Behind(k, ids) \subseteq Left(k, m, erased)
             /\ \A i \in 0..(n - 1) : Nth(ids, k + i) \in erased
             /\ \A d \in erased : \E i \in 0..(n - 1) : Nth(ids, k + i) = d
<1> DEFINE ids == row_ids(k, m, erased)
<1>1. PointersRight(k, m, erased, ids) /\ erased \in SUBSET (0..(k + m - 1))
  BY RowIdsRight DEF LossOf
<1> HIDE DEF ids
<1>2. PICK ddf \in Nat, cdf \in Nat, n \in Nat :
        /\ ddf = Cardinality(LostData(k, erased)) /\ cdf = Cardinality(LostCoding(k, erased))
        /\ n = Cardinality(erased) /\ n = ddf + cdf /\ Len(ids) = k + n
  <2>1. LET d1 == Cardinality(LostData(k, erased))
            c1 == Cardinality(LostCoding(k, erased))
        IN  /\ d1 \in Nat /\ c1 \in Nat /\ Len(ids) = k + d1 + c1
            /\ Cardinality(erased) = d1 + c1
    BY <1>1, PointerFacts
  <2> QED BY <2>1
<1>10. n = ddf + cdf
  BY <1>2
<1>11. 0..(Len(ids) - 1) = 0..(k + n - 1)
  BY <1>2
<1>3. \A i \in 0..(k - 1) : Nth(ids, i) \in 0..(k + m - 1) /\ Nth(ids, i) \notin erased
  BY <1>1 DEF PointersRight
<1>4. ASSUME NEW i \in 0..(n - 1) PROVE Nth(ids, k + i) \in erased
  <2>1. CASE i < ddf
    <3>1. i \in 0..(ddf - 1)
      BY <2>1
    <3>2. Nth(ids, k + i) \in LostData(k, erased)
      BY <1>1, <1>2, <3>1 DEF PointersRight
    <3> QED BY <3>2 DEF LostData
  <2>2. CASE i >= ddf
    <3>1. PICK j \in 0..(cdf - 1) : i = ddf + j
      <4>1. i - ddf \in 0..(cdf - 1) /\ i = ddf + (i - ddf)
        BY <1>10, <2>2
      <4> QED BY <4>1
    <3>2. Nth(ids, k + ddf + j) \in LostCoding(k, erased)
      BY <1>1, <1>2 DEF PointersRight
    <3>3. k + ddf + j = k + i
      BY <3>1
    <3> QED BY <3>2, <3>3 DEF LostCoding
  <2> QED BY <2>1, <2>2
<1>5. ASSUME NEW d \in erased PROVE \E i \in 0..(n - 1) : Nth(ids, k + i) = d
  <2>1. PICK j \in k..(Len(ids) - 1) : Nth(ids, j) = d
    BY <1>1 DEF PointersRight
  <2>2. j - k \in 0..(n - 1) /\ k + (j - k) = j
    BY <1>2, <2>1
  <2> QED BY <2>1, <2>2
<1>6. \A i, j \in 0..(k + n - 1) : Nth(ids, i) = Nth(ids, j) => i = j
  <2>1. \A i, j \in 0..(Len(ids) - 1) : Nth(ids, i) = Nth(ids, j) => i = j
    BY <1>1 DEF PointersRight
  <2> QED BY <1>11, <2>1
<1>7. \A i \in 0..(k + n - 1) : Nth(ids, i) \in 0..(k + m - 1)
  <2>1. ASSUME NEW i \in 0..(k + n - 1) PROVE Nth(ids, i) \in 0..(k + m - 1)
    <3>1. CASE i < k
      <4>1. i \in 0..(k - 1)
        BY <3>1
      <4> QED BY <1>3, <4>1
    <3>2. CASE i >= k
      <4>1. i - k \in 0..(n - 1) /\ k + (i - k) = i
        BY <3>2
      <4>2. Nth(ids, i) \in erased
        BY <1>4, <4>1
      <4> QED BY <1>1, <4>2
    <3> QED BY <3>1, <3>2
  <2> QED BY <2>1
<1>8. PointersFor(k, m, n, ids)
  BY <1>6, <1>7 DEF PointersFor
<1>9. IdsFor(k, m, ids) /\ Behind(k, ids) \subseteq Left(k, m, erased)
  BY <1>3 DEF IdsFor, Behind, Left
<1> QED BY <1>2, <1>4, <1>5, <1>8, <1>9 DEF ids
SizeIs(n, erased) == n = Cardinality(erased)
PointersAre(k, m, erased, ids) == ids = row_ids(k, m, erased)

\* Nothing is written but packets before reach of the drives of T.
Spared(k, m, old, new, T, reach, l) ==
  /\ \A d \in 0..(k + m - 1) : d \notin T => new[d] = old[d]
  /\ \A d \in 0..(k + m - 1) : \A p \in 0..(l - 1) : p >= reach => Nth(new[d], p) = Nth(old[d], p)

\* A schedule for the lost drives writes to them only, and gives them back what they
\* held if that is determined by what is left.
LEMMA DecodingDone ==
  ASSUME NEW k \in Nat, NEW m \in Nat, NEW w \in Nat \ {0}, NEW bits, BitsFor(k, m, w, bits),
         NoneEmpty(m, w, bits), NEW erased, LossOf(k, m, erased), NEW n \in Nat, NEW ids,
         SizeIs(n, erased), PointersAre(k, m, erased, ids), NEW rows, NEW ops,
         RowsAgain(k, w, bits, ids, rows, n), ScheduleFor(k, w, rows, n, ops),
         NEW l \in Nat, NEW reach \in Nat, NEW base \in Nat, StripeOf(w, base, reach, l),
         LastStripe(w, base, reach), NEW old,
         Keeps(k, w, bits, old, Left(k, m, erased), reach), NEW drives,
         Carried(k, m, w, rows, n, ids, old, drives, ops, base, Len(ops), l)
  PROVE  /\ Spared(k, m, old, drives, erased, reach, l)
         /\ Recovers(k, m, w, bits, erased) => Stage(k, m, w, bits, old, drives, erased, reach, l)
<1>1. /\ PointersFor(k, m, n, ids) /\ IdsFor(k, m, ids)
      /\ Behind(k, ids) \subseteq Left(k, m, erased)
      /\ \A i \in 0..(n - 1) : Nth(ids, k + i) \in erased
      /\ \A d \in erased : \E i \in 0..(n - 1) : Nth(ids, k + i) = d
  BY PointersGood DEF SizeIs, PointersAre
<1>2. \A i \in 0..(k - 1) : Nth(ids, i) \in Left(k, m, erased)
  BY <1>1 DEF Behind
<1>3. Holding(k, w, bits, old, ids, reach)
  BY <1>2 DEF Keeps, Holding
<1>4. Whole(w, reach) /\ reach <= l /\ erased \in SUBSET (0..(k + m - 1))
  BY DEF StripeOf, Room, LossOf
<1>5. ASSUME NEW d \in 0..(k + m - 1), d \notin erased PROVE drives[d] = old[d]
  <2>1. \A i \in 0..(n - 1) : Nth(ids, k + i) # d
    BY <1>1, <1>5
  <2> QED BY <2>1 DEF Carried
<1>6. ASSUME NEW d \in 0..(k + m - 1), NEW p \in 0..(l - 1), p >= reach
      PROVE  Nth(drives[d], p) = Nth(old[d], p)
  BY <1>1, <1>6, CarriedBeyond
<1>7. Spared(k, m, old, drives, erased, reach, l)
  BY <1>5, <1>6 DEF Spared
<1>8. ASSUME Recovers(k, m, w, bits, erased), NEW d \in erased, NEW p \in 0..(reach - 1)
      PROVE  Nth(drives[d], p) = Code(k, w, bits, d, p)
  <2>1. PICK i \in 0..(n - 1) : Nth(ids, k + i) = d
    BY <1>1
  <2>2. d \in 0..(k + m - 1)
    BY <1>4
  <2>3. PICK q \in 0..(w - 1) : q = p % w
    <3>1. p \in Nat
      OBVIOUS
    <3> QED BY <3>1, PacketFacts
  <2> DEFINE row == Nth(rows, At(w, i, q))
  <2>4. MakesAgain(k, w, bits, ids, row, d, q)
    BY <2>1 DEF RowsAgain
  <2> HIDE DEF row
  <2>5. Determines(k, w, bits, Behind(k, ids))
    <3>1. Behind(k, row_ids(k, m, erased)) = Behind(k, dm_ids(k, m, erased))
      BY SourcesLeft
    <3> QED BY <1>8, <3>1 DEF Recovers, PointersAre
  <2>6. row \in SUBSET Columns(k, w)
        /\ Sum(SourceRows(k, w, bits, ids), row) = Generated(k, w, bits, d, q)
    BY <2>4, <2>5 DEF MakesAgain
  <2>7. row # {}
    <3>1. Generated(k, w, bits, d, q) # {}
      <4>1. CASE d < k
        BY <4>1 DEF Generated
      <4>2. CASE d >= k
        <5>1. d - k \in 0..(m - 1) /\ ~(d < k)
          BY <2>2, <4>2
        <5>2. (d - k) * w + q \in 0..(m * w - 1)
          BY <5>1, DivModBelow
        <5> QED BY <5>1, <5>2 DEF NoneEmpty, Generated
      <4> QED BY <2>2, <4>1, <4>2
    <3>2. Sum(SourceRows(k, w, bits, ids), {}) = {}
      BY DEF Sum
    <3> QED BY <2>6, <3>1, <3>2
  <2>8. Sum(StripeAt(k, w, old, ids, p - (p % w)), row) = Code(k, w, bits, d, p)
    <3>1. Sum(SourceRows(k, w, bits, ids), row) = Generated(k, w, bits, d, p % w)
      BY <2>3, <2>6
    <3> QED BY <1>1, <1>3, <1>4, <2>2, <2>6, <3>1, StripeSum
  <2>9. MadeBy(k, w, rows, ids, old, drives, i, p)
    BY CarriedThrough
  <2> QED BY <2>1, <2>3, <2>7, <2>8, <2>9 DEF MadeBy, row
<1>9. ASSUME Recovers(k, m, w, bits, erased)
      PROVE  Stage(k, m, w, bits, old, drives, erased, reach, l)
  <2>1. ASSUME NEW d \in 0..(k + m - 1), NEW p \in 0..(l - 1)
        PROVE  Nth(drives[d], p) = IF d \in erased /\ p < reach THEN Code(k, w, bits, d, p)
                                   ELSE Nth(old[d], p)
    <3>1. CASE d \notin erased
      BY <1>5, <3>1
    <3>2. CASE p >= reach
      BY <1>6, <3>2
    <3>3. CASE d \in erased /\ p < reach
      <4>1. p \in 0..(reach - 1)
        BY <3>3
      <4> QED BY <1>8, <1>9, <3>3, <4>1
    <3> QED BY <3>1, <3>2, <3>3
  <2> QED BY <2>1 DEF Stage, Carried
<1> QED BY <1>7, <1>9
=============================================================================
