--------------------------- MODULE Tracking_proofs ---------------------------
(***************************************************************************)
(* That lib/tracking.ts, the transport of its batches and TrackingService  *)
(* neither lose sight of a click nor count one twice, for any number of    *)
(* pages, subjects and events, and that no click lowers a factor of its    *)
(* worker's score.                                                         *)
(*                                                                         *)
(* The clicks of a sequence of events are the cardinality of a set of      *)
(* indices; those on the pages and on the way are sums over the pages and  *)
(* over a bag of batches.  The first two parts say what concatenation,     *)
(* splitting and the filter of a flush do to the count of one sequence,    *)
(* the third what one changed queue or one batch more does to the sums;    *)
(* then each step moves its clicks from one place to the next.             *)
(***************************************************************************)
EXTENDS Tracking, Arithmetic_proofs, SequenceTheorems, FunctionTheorems, FiniteSetTheorems, TLAPS

-----------------------------------------------------------------------------
(* Counting the clicks of a batch. *)

LEMMA OfIsMine == ASSUME NEW s, NEW batch PROVE Of(s, batch) = Cardinality(Mine(s, batch))
  BY DEF Of

LEMMA MineFinite ==
    ASSUME NEW s, NEW T, NEW batch \in Seq(T)
    PROVE  IsFiniteSet(Mine(s, batch)) /\ Of(s, batch) \in Nat
  <1>1. Mine(s, batch) \subseteq 1 .. Len(batch)
    BY DEF Mine
  <1>2. 1 \in Int /\ Len(batch) \in Int
    OBVIOUS
  <1>3. IsFiniteSet(1 .. Len(batch))
    BY <1>2, FS_Interval
  <1>4. IsFiniteSet(Mine(s, batch))
    BY <1>1, <1>3, FS_Subset
  <1> QED BY <1>4, FS_CardinalityType, OfIsMine

LEMMA OfEmpty == ASSUME NEW s PROVE Of(s, <<>>) = 0
  <1>1. Mine(s, <<>>) = {}
    BY DEF Mine
  <1> QED BY <1>1, FS_EmptySet, OfIsMine

LEMMA OfOne ==
    ASSUME NEW s, NEW e
    PROVE  Of(s, <<e>>) = IF ShouldForward(e) /\ e.subject = s THEN 1 ELSE 0
  <1>1. Mine(s, <<e>>) = IF ShouldForward(e) /\ e.subject = s THEN {1} ELSE {}
    BY DEF Mine
  <1> QED BY <1>1, FS_EmptySet, FS_Singleton, OfIsMine

\* Clicks of two batches add up when one is put after the other.
LEMMA OfConcat ==
    ASSUME NEW T, NEW a \in Seq(T), NEW b \in Seq(T), NEW s
    PROVE  Of(s, a \o b) = Of(s, a) + Of(s, b)
  <1>1. PICK k, n \in Nat : k = Len(a) /\ n = Len(b)
    OBVIOUS
  <1>2. /\ DOMAIN a = 1 .. k /\ DOMAIN b = 1 .. n /\ DOMAIN (a \o b) = 1 .. k + n
        /\ \A i \in 1 .. k : (a \o b)[i] = a[i]
        /\ \A i \in 1 .. n : (a \o b)[k + i] = b[i]
    BY <1>1
  <1>3. PICK A, B : A = Mine(s, a) /\ B = Mine(s, b)
    OBVIOUS
  <1>4. PICK f : f = [i \in B |-> k + i]
    OBVIOUS
  <1>5. PICK C : C = {f[i] : i \in B}
    OBVIOUS
  <1>6. A \subseteq 1 .. k /\ B \subseteq 1 .. n
    BY <1>1, <1>2, <1>3 DEF Mine
  <1>7. \A i \in B : i \in Nat /\ f[i] = k + i
    BY <1>4, <1>6
  <1>8. Mine(s, a \o b) = A \union C
    <2>1. ASSUME NEW j \in Mine(s, a \o b) PROVE j \in A \union C
      <3>1. j \in 1 .. k + n /\ ShouldForward((a \o b)[j]) /\ (a \o b)[j].subject = s
        BY <1>2 DEF Mine
      <3>2. CASE j \in 1 .. k
        BY <1>2, <1>3, <3>1, <3>2 DEF Mine
      <3>3. CASE j \notin 1 .. k
        <4>1. PICK i \in 1 .. n : j = k + i
          <5>1. j - k \in 1 .. n /\ j = k + (j - k)
            BY <1>1, <3>1, <3>3
          <5> QED BY <5>1
        <4>2. i \in B
          BY <1>2, <1>3, <3>1, <4>1 DEF Mine
        <4> QED BY <1>5, <1>7, <4>1, <4>2
      <3> QED BY <3>2, <3>3
    <2>2. ASSUME NEW i \in A PROVE i \in Mine(s, a \o b)
      <3>1. i \in 1 .. k /\ ShouldForward(a[i]) /\ a[i].subject = s
        BY <1>2, <1>3 DEF Mine
      <3>2. i \in 1 .. k + n
        BY <3>1
      <3> QED BY <1>2, <3>1, <3>2 DEF Mine
    <2>3. ASSUME NEW i \in B PROVE f[i] \in Mine(s, a \o b)
      <3>1. i \in 1 .. n /\ ShouldForward(b[i]) /\ b[i].subject = s
        BY <1>2, <1>3 DEF Mine
      <3>2. k + i \in 1 .. k + n
        BY <3>1
      <3> QED BY <1>2, <1>7, <3>1, <3>2 DEF Mine
    <2> QED BY <1>5, <2>1, <2>2, <2>3
  <1>9. A \intersect C = {}
    BY <1>5, <1>6, <1>7
  <1>10. IsFiniteSet(A) /\ IsFiniteSet(B)
    BY <1>3, MineFinite
  <1>11. f \in Bijection(B, C)
    <2>1. f \in [B -> C]
      BY <1>4, <1>5
    <2>2. \A x, y \in B : f[x] = f[y] => x = y
      BY <1>7
    <2>3. \A c \in C : \E x \in B : f[x] = c
      BY <1>5
    <2> QED BY <2>1, <2>2, <2>3, Fun_IsBij
  <1>12. IsFiniteSet(C) /\ Cardinality(C) = Cardinality(B)
    BY <1>10, <1>11, FS_Bijection DEF ExistsBijection
  <1>13. Cardinality(A \union C) = Cardinality(A) + Cardinality(C)
    <2>1. PICK ca, cc : ca = Cardinality(A) /\ cc = Cardinality(C)
      OBVIOUS
    <2>2. ca \in Nat /\ cc \in Nat
      BY <2>1, <1>10, <1>12, FS_CardinalityType
    <2>3. Cardinality(A \union C) = ca + cc - 0
      BY <1>9, <1>10, <1>12, <2>1, FS_Union, FS_EmptySet
    <2> QED BY <2>1, <2>2, <2>3
  <1> QED BY <1>3, <1>8, <1>12, <1>13, OfIsMine

LEMMA OfAppend ==
    ASSUME NEW T, NEW a \in Seq(T), NEW e \in T, NEW s
    PROVE  Of(s, Append(a, e)) = Of(s, a) + Of(s, <<e>>)
  <1>1. Append(a, e) = a \o <<e>> /\ <<e>> \in Seq(T)
    OBVIOUS
  <1> QED BY <1>1, OfConcat

\* What is accepted of a batch and what is dropped of it.
LEMMA OfSplit ==
    ASSUME NEW T, NEW a \in Seq(T), NEW k \in 0 .. Len(a), NEW s
    PROVE  /\ SubSeq(a, 1, k) \in Seq(T) /\ Len(SubSeq(a, 1, k)) = k
           /\ SubSeq(a, k + 1, Len(a)) \in Seq(T)
           /\ Of(s, a) = Of(s, SubSeq(a, 1, k)) + Of(s, SubSeq(a, k + 1, Len(a)))
  <1>0. \A i \in 1 .. Len(a) : a[i] \in T
    OBVIOUS
  <1>1. PICK b, c : b = SubSeq(a, 1, k) /\ c = SubSeq(a, k + 1, Len(a))
    OBVIOUS
  <1>2. k \in Nat /\ Len(a) \in Nat /\ k <= Len(a)
    OBVIOUS
  <1>3. b \in Seq(T) /\ Len(b) = k /\ \A i \in 1 .. k : b[i] = a[i]
    <2>1. 1 \in Int /\ k \in Int /\ \A i \in 1 .. k : a[i] \in T
      BY <1>0, <1>2
    <2>2. b \in Seq(T) /\ Len(b) = (IF 1 <= k THEN k - 1 + 1 ELSE 0)
      BY <1>1, <2>1, SubSeqProperties
    <2>3. \A i \in 1 .. k - 1 + 1 : b[i] = a[1 + i - 1]
      BY <1>1, <2>1, SubSeqProperties
    <2> QED BY <1>2, <2>2, <2>3
  <1>4. c \in Seq(T) /\ Len(c) = Len(a) - k /\ \A i \in 1 .. Len(a) - k : c[i] = a[k + i]
    <2>1. PICK m, n \in Int : m = k + 1 /\ n = Len(a)
      BY <1>2
    <2>2. \A i \in m .. n : a[i] \in T
      BY <1>0, <1>2, <2>1
    <2>3. /\ SubSeq(a, m, n) \in Seq(T)
          /\ Len(SubSeq(a, m, n)) = IF m <= n THEN n - m + 1 ELSE 0
          /\ \A i \in 1 .. n - m + 1 : SubSeq(a, m, n)[i] = a[m + i - 1]
      BY <2>2, SubSeqProperties
    <2>4. c = SubSeq(a, m, n) /\ n - m + 1 = Len(a) - k
      BY <1>1, <1>2, <2>1
    <2>5. Len(c) = Len(a) - k
      BY <1>2, <2>1, <2>3, <2>4
    <2>6. \A i \in 1 .. Len(a) - k : m + i - 1 = k + i
      BY <1>2, <2>1
    <2> QED BY <2>3, <2>4, <2>5, <2>6
  <1>5. a = b \o c
    <2>1. 1 \in 1 .. Len(a) + 1 /\ k \in 1 - 1 .. Len(a) /\ Len(a) \in k .. Len(a)
      BY <1>2
    <2>2. SubSeq(a, 1, k) \o SubSeq(a, k + 1, Len(a)) = SubSeq(a, 1, Len(a))
      BY <2>1, ConcatAdjacentSubSeq, Zenon
    <2>3. SubSeq(a, 1, Len(a)) = a
      BY SubSeqFull
    <2> QED BY <1>1, <2>2, <2>3
  <1>6. Of(s, b \o c) = Of(s, b) + Of(s, c)
    BY <1>3, <1>4, OfConcat
  <1> QED BY <1>1, <1>3, <1>4, <1>5, <1>6

-----------------------------------------------------------------------------
(* The filter of a flush keeps every click. *)

\* The index that the fold over a sequence takes from a set of indices.
LEMMA MaxIn ==
    ASSUME NEW n \in Nat, NEW s \in SUBSET (1 .. n), s # {}
    PROVE  Max(s) \in s /\ \A y \in s : y <= Max(s)
  <1>1. PICK B : B = {n - x : x \in s}
    OBVIOUS
  <1>2. B \in SUBSET Nat /\ B # {}
    <2>1. \A x \in s : x \in 1 .. n
      OBVIOUS
    <2>2. \A x \in s : n - x \in Nat
      BY <2>1
    <2> QED BY <1>1, <2>2
  <1>3. PICK d \in B : \A m \in B : d <= m
    BY <1>2, LeastNat
  <1>4. PICK x \in s : d = n - x
    BY <1>1, <1>3
  <1>5. \A y \in s : n - x <= n - y /\ x \in Nat /\ y \in Nat
    BY <1>1, <1>3, <1>4
  <1>6. \A y \in s : x >= y
    BY <1>5
  <1>7. Max(s) \in s /\ \A y \in s : Max(s) >= y
    BY <1>6 DEF Max
  <1> QED BY <1>7

\* What the fold iterates.
Filters(g, q) ==
    g = [s \in SUBSET DOMAIN q |-> IF s = {} THEN <<>> ELSE Forwarded(g[s \ {Max(s)}], q[Max(s)])]

LEMMA FiltersExist ==
    ASSUME NEW T, NEW q \in Seq(T)
    PROVE  \E g : Filters(g, q)
  <1>0. PICK S : S = DOMAIN q
    OBVIOUS
  <1>1. IsFiniteSet(S) /\ S = 1 .. Len(q) /\ Len(q) \in Nat
    <2>1. 1 \in Int /\ Len(q) \in Int /\ S = 1 .. Len(q) /\ Len(q) \in Nat
      BY <1>0
    <2> QED BY <2>1, FS_Interval
  <1> DEFINE Up(n) == {s \in SUBSET S : Cardinality(s) <= n}
             Step(g, n) == [s \in Up(n) |->
                         IF s = {} THEN <<>> ELSE Forwarded(g[s \ {Max(s)}], q[Max(s)])]
             B == {n \in Nat : ~ \E g : g = Step(g, n)}
  <1>2. \A s \in SUBSET S : Cardinality(s) \in Nat /\ (Cardinality(s) = 0 => s = {})
    BY <1>1, FS_Subset, FS_CardinalityType, FS_EmptySet
  <1>3. B = {}
    <2> SUFFICES ASSUME B # {} PROVE FALSE
      OBVIOUS
    <2>1. PICK n \in B : \A m \in B : n <= m
      BY LeastNat
    <2>2. n \in Nat /\ ~ \E g : g = Step(g, n)
      BY <2>1
    <2>3. CASE n = 0
      <3> DEFINE g == [s \in Up(0) |-> <<>>]
      <3>1. \A s \in Up(0) : s = {}
        BY <1>2
      <3>2. g = Step(g, 0)
        BY <3>1
      <3> QED BY <2>2, <2>3, <3>2
    <2>4. CASE n # 0
      <3>1. n - 1 \in Nat /\ ~(n <= n - 1)
        BY <2>2, <2>4
      <3>2. PICK g : g = Step(g, n - 1)
        BY <2>1, <3>1
      <3> DEFINE h == Step(g, n)
      <3>3. ASSUME NEW s \in Up(n), s # {}
            PROVE  h[s \ {Max(s)}] = g[s \ {Max(s)}]
        <4>1. PICK x, t : x = Max(s) /\ t = s \ {x}
          OBVIOUS
        <4>2. x \in s
          <5>1. s \in SUBSET (1 .. Len(q)) /\ s # {} /\ Len(q) \in Nat
            BY <1>1, <3>3
          <5> QED BY <4>1, <5>1, MaxIn
        <4>3. t \in Up(n - 1) /\ t \in Up(n)
          <5>1. s \in SUBSET S /\ Cardinality(s) <= n
            BY <3>3
          <5>2. /\ t \in SUBSET S /\ Cardinality(s) \in Nat /\ Cardinality(t) \in Nat
                /\ Cardinality(t) < Cardinality(s)
            <6>1. IsFiniteSet(S) /\ s # {}
              BY <1>1, <3>3
            <6>2. /\ s \ {x} \in SUBSET S
                  /\ Cardinality(s) \in Nat /\ Cardinality(s \ {x}) \in Nat
                  /\ Cardinality(s \ {x}) < Cardinality(s)
              BY <4>2, <5>1, <6>1, Smaller, Zenon
            <6> QED BY <4>1, <6>2
          <5>3. Cardinality(t) <= n - 1 /\ Cardinality(t) <= n
            BY <2>2, <5>1, <5>2
          <5> QED BY <5>2, <5>3
        <4>4. h[t] = IF t = {} THEN <<>> ELSE Forwarded(g[t \ {Max(t)}], q[Max(t)])
          BY <4>3
        <4>5. g[t] = IF t = {} THEN <<>> ELSE Forwarded(g[t \ {Max(t)}], q[Max(t)])
          BY <4>3, <3>2
        <4> QED BY <4>1, <4>4, <4>5
      <3>4. h = Step(h, n)
        BY <3>3
      <3> QED BY <2>2, <3>4
    <2> QED BY <2>3, <2>4
  <1>4. Cardinality(S) \in Nat
    BY <1>1, FS_CardinalityType
  <1>5. Up(Cardinality(S)) = SUBSET S
    BY <1>1, <1>2, FS_Subset
  <1>6. PICK g : g = Step(g, Cardinality(S))
    BY <1>3, <1>4
  <1> QED BY <1>0, <1>5, <1>6 DEF Filters

LEMMA FilterIs ==
    ASSUME NEW T, NEW q \in Seq(T)
    PROVE  \E g : Filters(g, q) /\ FoldLeft(Forwarded, <<>>, q) = g[DOMAIN q]
  <1>0. PICK f : Filters(f, q)
    BY FiltersExist
  <1> DEFINE it == CHOOSE g : Filters(g, q)
  <1>1. FoldLeft(Forwarded, <<>>, q) = it[DOMAIN q]
    BY DEF FoldLeft, MapThenFoldSet, Filters
  <1>2. Filters(it, q)
    BY <1>0, Zenon
  <1> HIDE DEF it
  <1> QED BY <1>1, <1>2

LEMMA FilterKeepsClicks ==
    ASSUME NEW T, NEW q \in Seq(T)
    PROVE  /\ FoldLeft(Forwarded, <<>>, q) \in Seq(T)
           /\ \A s : Of(s, FoldLeft(Forwarded, <<>>, q)) = Of(s, q)
  <1>1. PICK g : Filters(g, q) /\ FoldLeft(Forwarded, <<>>, q) = g[DOMAIN q]
    BY FilterIs
  <1>2. PICK n \in Nat : n = Len(q) /\ DOMAIN q = 1 .. n
    OBVIOUS
  <1> DEFINE P(k) == g[1 .. k] \in Seq(T) /\ \A s : Of(s, g[1 .. k]) = Of(s, SubSeq(q, 1, k))
             B    == {k \in 0 .. n : ~P(k)}
  <1>3. B = {}
    <2> SUFFICES ASSUME B # {} PROVE FALSE
      OBVIOUS
    <2>0. B \in SUBSET Nat
      BY <1>2
    <2>1. PICK k \in B : \A m \in B : k <= m
      <3> HIDE DEF B
      <3> QED BY <2>0, LeastNat
    <2>2. k \in 0 .. n /\ ~P(k)
      BY <2>1
    <2>3. CASE k = 0
      <3>1. 1 .. 0 = {} /\ {} \in SUBSET DOMAIN q
        OBVIOUS
      <3>2. g[{}] = <<>>
        BY <1>1, <3>1 DEF Filters
      <3>3. SubSeq(q, 1, 0) = <<>>
        BY SubSeqEmpty
      <3>4. P(0)
        <4>1. <<>> \in Seq(T)
          OBVIOUS
        <4> QED BY <3>1, <3>2, <3>3, <4>1
      <3> QED BY <2>2, <2>3, <3>4
    <2>4. CASE k # 0
      <3>1. k \in 1 .. n /\ k - 1 \in 0 .. n /\ ~(k <= k - 1)
        BY <2>2, <2>4
      <3>2. P(k - 1)
        BY <2>1, <3>1
      <3> HIDE DEF B
      <3>3. PICK a, e : a = g[1 .. k - 1] /\ e = q[k]
        OBVIOUS
      <3>4. g[1 .. k] = Forwarded(a, e)
        <4>1. PICK u : u = 1 .. k
          OBVIOUS
        <4>2. u \in SUBSET DOMAIN q /\ u # {} /\ u \in SUBSET (1 .. n) /\ k \in u
          <5>1. k \in Nat /\ 1 <= k /\ k <= n
            BY <1>2, <3>1
          <5>2. 1 .. k \in SUBSET (1 .. n) /\ k \in 1 .. k
            BY <1>2, <5>1
          <5> QED BY <1>2, <4>1, <5>2
        <4>3. Max(u) \in u /\ \A y \in u : y <= Max(u)
          BY <4>2, MaxIn
        <4>4. Max(u) = k
          BY <4>1, <4>2, <4>3, <3>1
        <4>5. u \ {k} = 1 .. k - 1
          BY <4>1, <3>1
        <4>6. g[u] = Forwarded(g[u \ {Max(u)}], q[Max(u)])
          BY <1>1, <4>2 DEF Filters
        <4> QED BY <3>3, <4>1, <4>4, <4>5, <4>6
      <3>5. e \in T /\ a \in Seq(T) /\ \A s : Of(s, a) = Of(s, SubSeq(q, 1, k - 1))
        BY <1>2, <3>1, <3>2, <3>3
      <3>6. SubSeq(q, 1, k) = Append(SubSeq(q, 1, k - 1), e) /\ SubSeq(q, 1, k - 1) \in Seq(T)
        <4>1. 1 \in 1 .. Len(q) /\ k \in 1 .. Len(q)
          BY <1>2, <3>1
        <4>2. SubSeq(q, 1, k) = SubSeq(q, 1, k - 1) \o <<q[k]>>
          BY <4>1, SubSeqRecursiveSecond
        <4>3. SubSeq(q, 1, k - 1) \in Seq(T)
          BY <1>2, <3>1, OfSplit
        <4>4. <<q[k]>> = <<e>> /\ e \in T
          BY <1>2, <3>1, <3>3
        <4>5. PICK b : b = SubSeq(q, 1, k - 1)
          OBVIOUS
        <4>6. b \o <<e>> = Append(b, e)
          BY <4>3, <4>4, <4>5, AppendIsConcat
        <4> QED BY <4>2, <4>3, <4>4, <4>5, <4>6
      <3>7. ASSUME NEW s PROVE Of(s, Forwarded(a, e)) = Of(s, SubSeq(q, 1, k))
        <4>1. Of(s, SubSeq(q, 1, k)) = Of(s, a) + Of(s, <<e>>) /\ Of(s, a) \in Nat
          BY <3>5, <3>6, OfAppend, MineFinite
        <4>2. CASE ShouldForward(e)
          BY <3>5, <4>1, <4>2, OfAppend DEF Forwarded
        <4>3. CASE ~ShouldForward(e)
          BY <4>1, <4>3, OfOne DEF Forwarded
        <4> QED BY <4>2, <4>3
      <3>8. Forwarded(a, e) \in Seq(T)
        BY <3>5 DEF Forwarded
      <3> QED BY <2>2, <3>4, <3>7, <3>8
    <2> QED BY <2>3, <2>4
  <1>4. P(n)
    BY <1>3
  <1>5. SubSeq(q, 1, n) = q
    BY <1>2, SubSeqFull
  <1> QED BY <1>1, <1>2, <1>4, <1>5

-----------------------------------------------------------------------------
(* The batches on their way, and the queues of the pages, summed up. *)

IsPost(B) ==
    /\ IsFiniteSet(DOMAIN B) /\ DOMAIN B \in SUBSET Seq(Event)
    /\ B \in [DOMAIN B -> Nat \ {0}]

Weights(B, s) == [b \in DOMAIN B |-> B[b] * Of(s, b)]
Weight(B, s)  == SumFunctionOnSet(Weights(B, s), DOMAIN B)

LEMMA OnTheWayIs == ASSUME NEW s PROVE OnTheWay(s) = Weight(post, s)
  BY DEF OnTheWay, Sent, BagToSet, Weight, Weights, SumFunction

LEMMA WeightIs ==
    ASSUME NEW B, IsPost(B), NEW s
    PROVE  /\ Weight(B, s) \in Nat
           /\ \A b \in DOMAIN B :
                 /\ Weights(B, s)[b] = B[b] * Of(s, b) /\ B[b] \in Nat \ {0} /\ Of(s, b) \in Nat
                 /\ SumFunctionOnSet(Weights(B, s), DOMAIN B \ {b}) \in Nat
                 /\ Weight(B, s)
                      = SumFunctionOnSet(Weights(B, s), DOMAIN B \ {b}) + B[b] * Of(s, b)
  <1>1. PICK f, D : f = Weights(B, s) /\ D = DOMAIN B
    OBVIOUS
  <1>2. ASSUME NEW b \in D
        PROVE  f[b] = B[b] * Of(s, b) /\ f[b] \in Nat /\ B[b] \in Nat \ {0} /\ Of(s, b) \in Nat
    <2>1. f[b] = B[b] * Of(s, b)
      BY <1>1 DEF Weights
    <2>2. B[b] \in Nat \ {0} /\ Of(s, b) \in Nat
      BY <1>1, MineFinite DEF IsPost
    <2>3. \A m, n \in Nat : m * n \in Nat
      OBVIOUS
    <2> QED BY <2>1, <2>2, <2>3
  <1>3. IsFiniteSet(D) /\ \A b \in D : f[b] \in Nat
    BY <1>1, <1>2 DEF IsPost
  <1>4. /\ SumFunctionOnSet(f, D) \in Nat
        /\ \A b \in D : SumFunctionOnSet(f, D) = SumFunctionOnSet(f, D \ {b}) + f[b]
    BY <1>3, SumAdd
  <1>5. ASSUME NEW b \in D PROVE SumFunctionOnSet(f, D \ {b}) \in Nat
    <2>1. IsFiniteSet(D \ {b}) /\ \A x \in D \ {b} : f[x] \in Nat
      BY <1>3, FS_RemoveElement
    <2> QED BY <2>1, SumAdd
  <1> QED BY <1>1, <1>2, <1>4, <1>5 DEF Weight

\* A copy more or less of one batch.
LEMMA OneMore == ASSUME NEW m \in Nat, NEW n \in Nat PROVE (m + 1) * n = m * n + n
  OBVIOUS

LEMMA PostAdded ==
    ASSUME NEW B, IsPost(B), NEW b \in Seq(Event), NEW C, C = B (+) SetToBag({b})
    PROVE  IsPost(C) /\ \A s : Weight(C, s) = Weight(B, s) + Of(s, b)
  <1>1. /\ DOMAIN C = DOMAIN B \union {b}
        /\ \A x \in DOMAIN B : x # b => C[x] = B[x]
        /\ C[b] = IF b \in DOMAIN B THEN B[b] + 1 ELSE 1
        /\ C = [x \in DOMAIN C |-> C[x]]
    <2>1. PICK one : one = SetToBag({b})
      OBVIOUS
    <2>2. DOMAIN one = {b} /\ one[b] = 1
      BY <2>1 DEF SetToBag
    <2>3. C = [x \in DOMAIN B \union {b} |-> (IF x \in DOMAIN B THEN B[x] ELSE 0)
                                             + (IF x \in {b} THEN one[x] ELSE 0)]
      BY <2>1, <2>2 DEF (+)
    <2>4. DOMAIN C = DOMAIN B \union {b} /\ C = [x \in DOMAIN C |-> C[x]]
      BY <2>3
    <2>5. \A x \in DOMAIN B : B[x] \in Nat
      BY DEF IsPost
    <2>6. ASSUME NEW x \in DOMAIN B, x # b PROVE C[x] = B[x]
      <3>1. C[x] = B[x] + 0
        BY <2>3, <2>6
      <3> QED BY <2>5, <3>1
    <2>7. C[b] = (IF b \in DOMAIN B THEN B[b] ELSE 0) + 1
      BY <2>2, <2>3
    <2>8. C[b] = IF b \in DOMAIN B THEN B[b] + 1 ELSE 1
      BY <2>7
    <2> QED BY <2>4, <2>6, <2>8
  <1>2. IsPost(C)
    <2>1. IsFiniteSet(DOMAIN C)
      BY <1>1, FS_AddElement DEF IsPost
    <2>2. \A x \in DOMAIN C : C[x] \in Nat \ {0}
      <3>1. \A x \in DOMAIN B : B[x] \in Nat \ {0}
        BY DEF IsPost
      <3>2. \A m \in Nat \ {0} : m + 1 \in Nat \ {0}
        OBVIOUS
      <3>3. \A x \in DOMAIN B : x # b => C[x] \in Nat \ {0}
        BY <1>1, <3>1
      <3>4. C[b] \in Nat \ {0}
        <4>1. CASE b \in DOMAIN B
          BY <1>1, <3>1, <3>2, <4>1
        <4>2. CASE b \notin DOMAIN B
          BY <1>1, <4>2
        <4> QED BY <4>1, <4>2
      <3> QED BY <1>1, <3>3, <3>4
    <2>3. DOMAIN C \in SUBSET Seq(Event)
      BY <1>1 DEF IsPost
    <2> QED BY <1>1, <2>1, <2>2, <2>3 DEF IsPost
  <1>3. ASSUME NEW s PROVE Weight(C, s) = Weight(B, s) + Of(s, b)
    <2>1. PICK R, n : R = DOMAIN C \ {b} /\ n = Of(s, b)
      OBVIOUS
    <2>2. /\ Weight(C, s) = SumFunctionOnSet(Weights(C, s), R) + C[b] * n /\ n \in Nat
          /\ SumFunctionOnSet(Weights(C, s), R) \in Nat
      BY <1>1, <1>2, <2>1, WeightIs
    <2>3. SumFunctionOnSet(Weights(C, s), R) = SumFunctionOnSet(Weights(B, s), R)
      <3>1. IsFiniteSet(R)
        BY <1>2, <2>1, FS_RemoveElement DEF IsPost
      <3>2. \A x \in R : Weights(C, s)[x] = Weights(B, s)[x]
        BY <1>1, <2>1 DEF Weights
      <3> QED BY <3>1, <3>2, SumCongruent
    <2>4. CASE b \in DOMAIN B
      <3>1. R = DOMAIN B \ {b}
        BY <1>1, <2>1, <2>4
      <3>2. Weight(B, s) = SumFunctionOnSet(Weights(B, s), R) + B[b] * n /\ B[b] \in Nat
        BY <2>1, <2>4, <3>1, WeightIs
      <3>3. PICK a, m \in Nat : a = SumFunctionOnSet(Weights(B, s), R) /\ m = B[b]
        BY <2>2, <2>3, <3>2
      <3>4. Weight(C, s) = a + (m + 1) * n /\ Weight(B, s) = a + m * n
        BY <1>1, <2>2, <2>3, <2>4, <3>2, <3>3
      <3>5. (m + 1) * n = m * n + n /\ m * n \in Nat
        BY <2>2, OneMore
      <3> QED BY <2>1, <2>2, <3>4, <3>5
    <2>5. CASE b \notin DOMAIN B
      <3>1. R = DOMAIN B /\ C[b] = 1
        BY <1>1, <2>1, <2>5
      <3>2. Weight(B, s) = SumFunctionOnSet(Weights(B, s), R)
        BY <3>1 DEF Weight
      <3>3. C[b] * n = n
        BY <2>2, <3>1
      <3> QED BY <2>1, <2>2, <2>3, <3>2, <3>3
    <2> QED BY <2>4, <2>5
  <1> QED BY <1>2, <1>3

LEMMA PostTaken ==
    ASSUME NEW B, IsPost(B), NEW b \in DOMAIN B, NEW C, C = B (-) SetToBag({b})
    PROVE  IsPost(C) /\ \A s : Weight(B, s) = Weight(C, s) + Of(s, b)
  <1>1. /\ DOMAIN C = IF B[b] = 1 THEN DOMAIN B \ {b} ELSE DOMAIN B
        /\ \A x \in DOMAIN B : x # b => C[x] = B[x]
        /\ B[b] # 1 => C[b] = B[b] - 1
        /\ C = [x \in DOMAIN C |-> C[x]]
        /\ B[b] \in Nat \ {0}
    <2>1. PICK one : one = SetToBag({b})
      OBVIOUS
    <2>2. DOMAIN one = {b} /\ one[b] = 1
      BY <2>1 DEF SetToBag
    <2>3. PICK A : A = [x \in DOMAIN B |-> IF x \in DOMAIN one THEN B[x] - one[x] ELSE B[x]]
      OBVIOUS
    <2>4. C = [x \in {d \in DOMAIN A : A[d] > 0} |-> A[x]]
      BY <2>1, <2>3 DEF (-)
    <2>5. \A x \in DOMAIN B : B[x] \in Nat \ {0}
      BY DEF IsPost
    <2>6. /\ DOMAIN A = DOMAIN B /\ A[b] = B[b] - 1
          /\ \A x \in DOMAIN B : x # b => A[x] = B[x] /\ A[x] > 0
      BY <2>2, <2>3, <2>5
    <2>7. DOMAIN C = {d \in DOMAIN B : A[d] > 0}
      BY <2>4, <2>6
    <2>8. A[b] > 0 <=> B[b] # 1
      BY <2>5, <2>6
    <2>9. DOMAIN C = IF B[b] = 1 THEN DOMAIN B \ {b} ELSE DOMAIN B
      BY <2>6, <2>7, <2>8
    <2> QED BY <2>4, <2>5, <2>6, <2>7, <2>8, <2>9
  <1>2. IsPost(C)
    <2>1. DOMAIN C \in SUBSET DOMAIN B
      BY <1>1
    <2>2. IsFiniteSet(DOMAIN C)
      BY <2>1, FS_Subset DEF IsPost
    <2>3. \A x \in DOMAIN C : C[x] \in Nat \ {0}
      <3>1. \A x \in DOMAIN B : B[x] \in Nat \ {0}
        BY DEF IsPost
      <3>2. \A m \in Nat \ {0} : m # 1 => m - 1 \in Nat \ {0}
        OBVIOUS
      <3> QED BY <1>1, <2>1, <3>1, <3>2
    <2>4. DOMAIN C \in SUBSET Seq(Event)
      BY <2>1 DEF IsPost
    <2> QED BY <1>1, <2>2, <2>3, <2>4 DEF IsPost
  <1>3. ASSUME NEW s PROVE Weight(B, s) = Weight(C, s) + Of(s, b)
    <2>1. PICK R, n : R = DOMAIN B \ {b} /\ n = Of(s, b)
      OBVIOUS
    <2>2. /\ Weight(B, s) = SumFunctionOnSet(Weights(B, s), R) + B[b] * n /\ n \in Nat
          /\ SumFunctionOnSet(Weights(B, s), R) \in Nat
      BY <2>1, WeightIs
    <2>3. SumFunctionOnSet(Weights(C, s), R) = SumFunctionOnSet(Weights(B, s), R)
      <3>1. IsFiniteSet(R)
        BY <2>1, FS_RemoveElement DEF IsPost
      <3>2. \A x \in R : Weights(C, s)[x] = Weights(B, s)[x]
        BY <1>1, <2>1 DEF Weights
      <3> QED BY <3>1, <3>2, SumCongruent
    <2>4. CASE B[b] = 1
      <3>1. Weight(C, s) = SumFunctionOnSet(Weights(C, s), R)
        BY <1>1, <2>1, <2>4 DEF Weight
      <3> QED BY <2>1, <2>2, <2>3, <2>4, <3>1
    <2>5. CASE B[b] # 1
      <3>1. DOMAIN C = DOMAIN B /\ C[b] = B[b] - 1 /\ B[b] - 1 \in Nat
        BY <1>1, <2>5
      <3>2. Weight(C, s) = SumFunctionOnSet(Weights(C, s), R) + C[b] * n
        BY <1>2, <2>1, <3>1, WeightIs
      <3>3. PICK a, m \in Nat : a = SumFunctionOnSet(Weights(B, s), R) /\ m = B[b] - 1
        BY <2>2, <3>1
      <3>4. Weight(B, s) = a + (m + 1) * n /\ Weight(C, s) = a + m * n
        BY <1>1, <2>2, <2>3, <3>1, <3>2, <3>3
      <3>5. (m + 1) * n = m * n + n /\ m * n \in Nat
        BY <2>2, OneMore
      <3> QED BY <2>1, <2>2, <3>4, <3>5
    <2> QED BY <2>4, <2>5
  <1> QED BY <1>2, <1>3

\* One page's queue changes.
LEMMA PagesSum ==
    ASSUME NEW f \in [Pages -> Nat], NEW e \in [Pages -> Nat], NEW p \in Pages,
           \A q \in Pages \ {p} : e[q] = f[q]
    PROVE  /\ SumFunction(f) \in Nat /\ SumFunction(e) \in Nat
           /\ SumFunction(e) + f[p] = SumFunction(f) + e[p]
  <1>1. /\ SumFunction(f) = SumFunctionOnSet(f, Pages)
        /\ SumFunction(e) = SumFunctionOnSet(e, Pages)
    BY DEF SumFunction
  <1>2. IsFiniteSet(Pages) /\ IsFiniteSet(Pages \ {p})
    <2>1. IsFiniteSet(Pages)
      BY TrackingAssumption
    <2> QED BY <2>1, FS_RemoveElement
  <1>3. \A q \in Pages : f[q] \in Nat /\ e[q] \in Nat
    OBVIOUS
  <1>4. /\ SumFunctionOnSet(f, Pages) \in Nat
        /\ SumFunctionOnSet(f, Pages) = SumFunctionOnSet(f, Pages \ {p}) + f[p]
    BY <1>2, <1>3, SumAdd
  <1>5. /\ SumFunctionOnSet(e, Pages) \in Nat
        /\ SumFunctionOnSet(e, Pages) = SumFunctionOnSet(e, Pages \ {p}) + e[p]
    BY <1>2, <1>3, SumAdd
  <1>6. SumFunctionOnSet(f, Pages \ {p}) \in Nat
    BY <1>2, <1>3, SumAdd
  <1>7. SumFunctionOnSet(e, Pages \ {p}) = SumFunctionOnSet(f, Pages \ {p})
    BY <1>2, SumCongruent
  <1> QED BY <1>1, <1>3, <1>4, <1>5, <1>6, <1>7

-----------------------------------------------------------------------------
(* What pages, batches and the server are, and the invariant. *)

Counts == [Subjects -> Nat]

\* Nothing is counted on a page before it has looked at what the browser
\* remembers.
IsPage(pg) ==
    /\ pg = [queue |-> pg.queue, scheduled |-> pg.scheduled, timers |-> pg.timers,
             index |-> pg.index, hydrated |-> pg.hydrated, persisting |-> pg.persisting,
             history |-> pg.history, session |-> pg.session, last |-> pg.last]
    /\ pg.queue \in Seq(Event) /\ pg.index \in Nat
    /\ pg.history \in Counts /\ pg.session \in Counts /\ pg.last \in Counts
    /\ \A s \in Subjects : pg.last[s] <= pg.index
    /\ pg.hydrated \/ (pg.history = Zero /\ pg.session = Zero)

\* A batch is there only while a flush is in progress, so that taking the queue
\* overwrites none.
IsServer(sv) ==
    /\ sv = [queue |-> sv.queue, scheduled |-> sv.scheduled,
             inProgress |-> sv.inProgress, batch |-> sv.batch]
    /\ sv.queue \in Seq(Event) /\ sv.batch \in Seq(Event)
    /\ Len(sv.queue) <= MaxQueue
    /\ sv.inProgress \/ sv.batch = <<>>

Shape ==
    /\ DOMAIN page = Pages /\ \A p \in Pages : IsPage(page[p])
    /\ IsPost(post) /\ IsServer(server)
    /\ clicks \in Counts /\ db \in Counts /\ lost \in Counts
    /\ store = NoStore \/ store \in Counts

TrackingInv == Shape /\ EveryClickCountsOnce

ReportedOf(e, s) == IF ShouldForward(e) /\ e.subject = s THEN 1 ELSE 0

LEMMA EventOf ==
    ASSUME NEW e \in Event
    PROVE  \/ e = Search /\ ~ShouldForward(e)
           \/ ShouldForward(e) /\ e.subject \in Subjects /\ e # Search
  BY DEF Event, Search, ShouldForward

LEMMA ZeroCounts == Zero \in Counts /\ \A s \in Subjects : Zero[s] = 0
  BY DEF Zero, Counts

LEMMA HydratedPage ==
    ASSUME NEW pg, IsPage(pg), store = NoStore \/ store \in Counts
    PROVE  /\ IsPage(Hydrated(pg)) /\ Hydrated(pg).hydrated
           /\ Hydrated(pg).queue = pg.queue /\ Hydrated(pg).index = pg.index
           /\ Hydrated(pg).session = pg.session /\ Hydrated(pg).last = pg.last
           /\ pg.hydrated => Hydrated(pg) = pg
           /\ \A s \in Subjects :
                 Hydrated(pg).history[s] <=
                    IF pg.hydrated \/ store = NoStore THEN pg.history[s]
                    ELSE pg.history[s] + store[s]
  <1>1. CASE pg.hydrated
    <2>1. Hydrated(pg) = pg
      BY <1>1 DEF Hydrated
    <2> QED BY <1>1, <2>1 DEF IsPage, Counts
  <1>2. CASE ~pg.hydrated
    <2>1. PICK h : h = IF store = NoStore THEN pg.history
                       ELSE [s \in Subjects |-> pg.history[s] + Cap(store[s])]
      OBVIOUS
    <2>2. PICK b : b = (pg.persisting \/ store \notin {NoStore, Zero})
      OBVIOUS
    <2>3. PICK new : new = [queue |-> pg.queue, scheduled |-> pg.scheduled, timers |-> pg.timers,
                      index |-> pg.index, hydrated |-> TRUE, persisting |-> b,
                      history |-> h, session |-> pg.session, last |-> pg.last]
      OBVIOUS
    <2>4. Hydrated(pg) = new
      <3>1. PICK k : k = [pg EXCEPT !.hydrated = TRUE, !.history = h, !.persisting = b]
        OBVIOUS
      <3>2. Hydrated(pg) = k
        BY <1>2, <2>1, <2>2, <3>1, Zenon DEF Hydrated
      <3>3. k = new
        <4>1. PICK q, d, m, i, y, w, f, c, l :
                 /\ q = pg.queue /\ d = pg.scheduled /\ m = pg.timers /\ i = pg.index
                 /\ y = pg.hydrated /\ w = pg.persisting /\ f = pg.history
                 /\ c = pg.session /\ l = pg.last
          OBVIOUS
        <4>2. pg = [queue |-> q, scheduled |-> d, timers |-> m, index |-> i, hydrated |-> y,
                    persisting |-> w, history |-> f, session |-> c, last |-> l]
          BY <4>1, Zenon DEF IsPage
        <4>3. PICK yes : yes = TRUE
          OBVIOUS
        <4>4. k = [pg EXCEPT !.hydrated = yes, !.history = h, !.persisting = b]
          BY <3>1, <4>3
        <4>5. k = [queue |-> q, scheduled |-> d, timers |-> m, index |-> i, hydrated |-> yes,
                   persisting |-> b, history |-> h, session |-> c, last |-> l]
          BY <4>2, <4>4
        <4> QED BY <2>3, <4>1, <4>3, <4>5
      <3> QED BY <3>2, <3>3
    <2>5. h \in Counts /\ \A s \in Subjects : h[s] <= IF store = NoStore THEN pg.history[s]
                                                   ELSE pg.history[s] + store[s]
      <3>1. CASE store = NoStore
        BY <2>1, <3>1 DEF IsPage, Counts
      <3>2. CASE store \in Counts
        <4>1. \A s \in Subjects : /\ store[s] \in Nat /\ Cap(store[s]) \in Nat
                                  /\ Cap(store[s]) <= store[s] /\ pg.history[s] \in Nat
          BY <3>2, TrackingAssumption DEF Counts, Cap, IsPage
        <4>2. store # NoStore
          BY <3>2, TrackingAssumption DEF Counts
        <4>3. h = [s \in Subjects |-> pg.history[s] + Cap(store[s])]
          BY <2>1, <4>2
        <4> QED BY <4>1, <4>2, <4>3 DEF Counts
      <3> QED BY <3>1, <3>2
    <2>6. IsPage(new)
      BY <2>3, <2>5 DEF IsPage
    <2> QED BY <1>2, <2>3, <2>4, <2>5, <2>6
  <1> QED BY <1>1, <1>2

\* A page after an event.
LEMMA TrackedPage ==
    ASSUME NEW pg, IsPage(pg), store = NoStore \/ store \in Counts, NEW e \in Event, NEW new,
           new = Queued(Counted(Hydrated([pg EXCEPT !.index = @ + 1]), e), e)
    PROVE  /\ IsPage(new) /\ new.queue = Append(pg.queue, e)
           /\ new.index = pg.index + 1
           /\ pg.hydrated => new.history = pg.history
           /\ \A s \in Subjects :
                 /\ new.session[s] = pg.session[s] + ReportedOf(e, s)
                 /\ new.last[s] = IF ReportedOf(e, s) = 1 THEN new.index ELSE pg.last[s]
                 /\ new.history[s] <= IF pg.hydrated \/ store = NoStore THEN pg.history[s]
                                      ELSE pg.history[s] + store[s]
  <1>1. PICK a : a = [pg EXCEPT !.index = @ + 1]
    OBVIOUS
  <1>2. /\ IsPage(a) /\ a.index = pg.index + 1 /\ a.queue = pg.queue /\ a.hydrated = pg.hydrated
        /\ a.history = pg.history /\ a.session = pg.session /\ a.last = pg.last
    <2>1. a = [queue |-> pg.queue, scheduled |-> pg.scheduled, timers |-> pg.timers,
               index |-> pg.index + 1, hydrated |-> pg.hydrated, persisting |-> pg.persisting,
               history |-> pg.history, session |-> pg.session, last |-> pg.last]
      BY <1>1 DEF IsPage
    <2>2. \A s \in Subjects : pg.last[s] <= pg.index + 1
      BY DEF IsPage, Counts
    <2> QED BY <2>1, <2>2 DEF IsPage
  <1>3. PICK h : h = Hydrated(a)
    OBVIOUS
  <1>4. /\ IsPage(h) /\ h.hydrated
        /\ h.queue = pg.queue /\ h.index = pg.index + 1
        /\ h.session = pg.session /\ h.last = pg.last
        /\ pg.hydrated => h = a
        /\ \A s \in Subjects : h.history[s] <= IF pg.hydrated \/ store = NoStore THEN pg.history[s]
                                               ELSE pg.history[s] + store[s]
    BY <1>2, <1>3, HydratedPage
  <1>5. PICK c : c = Counted(h, e)
    OBVIOUS
  <1>6. /\ IsPage(c) /\ c.queue = pg.queue /\ c.index = h.index /\ c.history = h.history
        /\ \A s \in Subjects :
              /\ c.session[s] = pg.session[s] + ReportedOf(e, s)
              /\ c.last[s] = IF ReportedOf(e, s) = 1 THEN h.index ELSE pg.last[s]
    <2>1. CASE e = Search
      <3>1. c = h /\ \A s : ReportedOf(e, s) = 0
        BY <1>5, <2>1 DEF Counted, ReportedOf, ShouldForward
      <3>2. \A s \in Subjects : pg.session[s] \in Nat
        BY DEF IsPage, Counts
      <3> QED BY <1>4, <3>1, <3>2
    <2>2. CASE e # Search
      <3>1. PICK x \in Subjects : x = e.subject /\ ShouldForward(e)
        BY <2>2, EventOf
      <3>2. PICK session, last : /\ session = [h.session EXCEPT ![x] = @ + 1]
                                 /\ last = [h.last EXCEPT ![x] = h.index]
        OBVIOUS
      <3>3. c = [queue |-> h.queue, scheduled |-> h.scheduled, timers |-> h.timers,
                 index |-> h.index, hydrated |-> h.hydrated, persisting |-> TRUE,
                 history |-> h.history, session |-> session, last |-> last]
        BY <1>4, <1>5, <2>2, <3>1, <3>2 DEF Counted, IsPage
      <3>4. /\ session \in Counts /\ last \in Counts
            /\ \A s \in Subjects : /\ session[s] = pg.session[s] + ReportedOf(e, s)
                                   /\ last[s] = IF ReportedOf(e, s) = 1 THEN h.index ELSE pg.last[s]
                                   /\ last[s] <= h.index
        <4>1. h.session \in Counts /\ h.last \in Counts /\ h.index \in Nat
          BY <1>4 DEF IsPage
        <4>2. \A s \in Subjects : /\ h.session[s] \in Nat /\ h.last[s] \in Nat
                                  /\ h.last[s] <= h.index
          BY <1>4, <4>1 DEF IsPage, Counts
        <4>3. \A s \in Subjects : ReportedOf(e, s) = IF s = x THEN 1 ELSE 0
          BY <3>1 DEF ReportedOf
        <4> QED BY <1>4, <3>2, <4>1, <4>2, <4>3 DEF Counts
      <3>5. IsPage(c)
        <4>1. h.queue \in Seq(Event) /\ h.index \in Nat /\ h.history \in Counts
          BY <1>4 DEF IsPage
        <4> QED BY <1>4, <3>3, <3>4, <4>1 DEF IsPage
      <3> QED BY <1>4, <3>3, <3>4, <3>5
    <2> QED BY <2>1, <2>2
  <1>7. new = Queued(c, e)
    BY <1>1, <1>3, <1>5
  <1>8. PICK timers : timers = IF c.scheduled THEN c.timers ELSE c.timers + 1
    OBVIOUS
  <1>9. new = [queue |-> Append(c.queue, e), scheduled |-> TRUE, timers |-> timers,
               index |-> c.index, hydrated |-> c.hydrated, persisting |-> c.persisting,
               history |-> c.history, session |-> c.session, last |-> c.last]
    BY <1>6, <1>7, <1>8 DEF Queued, IsPage
  <1>10. IsPage(new)
    <2>1. Append(c.queue, e) \in Seq(Event)
      BY <1>6 DEF IsPage
    <2>2. /\ new.queue = Append(c.queue, e) /\ new.index = c.index /\ new.hydrated = c.hydrated
          /\ new.history = c.history /\ new.session = c.session /\ new.last = c.last
      BY <1>9
    <2>3. new = [queue |-> new.queue, scheduled |-> new.scheduled, timers |-> new.timers,
             index |-> new.index, hydrated |-> new.hydrated, persisting |-> new.persisting,
             history |-> new.history, session |-> new.session, last |-> new.last]
      BY <1>9
    <2> QED BY <1>6, <2>1, <2>2, <2>3 DEF IsPage
  <1>11. pg.hydrated => new.history = pg.history
    BY <1>2, <1>4, <1>6, <1>9
  <1> QED BY <1>2, <1>4, <1>6, <1>9, <1>10, <1>11

-----------------------------------------------------------------------------
(* Where the clicks are after a step. *)

LEMMA CountsAreNat ==
    ASSUME Shape, NEW s \in Subjects
    PROVE  /\ OnTheWay(s) \in Nat /\ OnPages(s) \in Nat
           /\ Of(s, server.queue) \in Nat /\ Of(s, server.batch) \in Nat
           /\ clicks[s] \in Nat /\ db[s] \in Nat /\ lost[s] \in Nat
  <1>1. OnTheWay(s) \in Nat
    BY OnTheWayIs, WeightIs DEF Shape
  <1>2. OnPages(s) \in Nat
    <2>1. PICK f : f = [p \in Pages |-> Of(s, page[p].queue)]
      OBVIOUS
    <2>2. \A p \in Pages : f[p] \in Nat
      BY <2>1, MineFinite DEF Shape, IsPage
    <2>3. SumFunction(f) = SumFunctionOnSet(f, Pages)
      BY <2>1 DEF SumFunction
    <2>4. SumFunctionOnSet(f, Pages) \in Nat
      BY <2>2, SumAdd, TrackingAssumption
    <2> QED BY <2>1, <2>3, <2>4 DEF OnPages
  <1>3. Of(s, server.queue) \in Nat /\ Of(s, server.batch) \in Nat
    BY MineFinite DEF Shape, IsServer
  <1> QED BY <1>1, <1>2, <1>3 DEF Shape, Counts

LEMMA PagesStep ==
    ASSUME Shape, NEW p \in Pages, NEW pg, IsPage(pg), page' = [page EXCEPT ![p] = pg]
    PROVE  /\ DOMAIN page' = Pages /\ \A q \in Pages : IsPage(page'[q])
           /\ \A q \in Pages : page'[q] = IF q = p THEN pg ELSE page[q]
           /\ \A s \in Subjects :
                 /\ OnPages(s)' \in Nat
                 /\ OnPages(s)' + Of(s, page[p].queue) = OnPages(s) + Of(s, pg.queue)
  <1>1. /\ DOMAIN page' = Pages
        /\ \A q \in Pages : page'[q] = IF q = p THEN pg ELSE page[q]
    BY DEF Shape
  <1>2. \A q \in Pages : IsPage(page'[q])
    BY <1>1 DEF Shape
  <1>3. ASSUME NEW s \in Subjects
        PROVE  /\ OnPages(s)' \in Nat
               /\ OnPages(s)' + Of(s, page[p].queue) = OnPages(s) + Of(s, pg.queue)
    <2>1. PICK f : f = [q \in Pages |-> Of(s, page[q].queue)]
      OBVIOUS
    <2>2. PICK e : e = [q \in Pages |-> Of(s, page'[q].queue)]
      OBVIOUS
    <2>3. f \in [Pages -> Nat]
      BY <2>1, MineFinite DEF Shape, IsPage
    <2>4. e \in [Pages -> Nat]
      <3>1. \A q \in Pages : page'[q].queue \in Seq(Event)
        BY <1>2 DEF IsPage
      <3> QED BY <2>2, <3>1, MineFinite
    <2>5. \A q \in Pages \ {p} : e[q] = f[q]
      BY <1>1, <2>1, <2>2
    <2>6. /\ SumFunction(e) \in Nat
          /\ SumFunction(e) + f[p] = SumFunction(f) + e[p]
      BY <2>3, <2>4, <2>5, PagesSum
    <2>7. f[p] = Of(s, page[p].queue) /\ e[p] = Of(s, pg.queue)
      BY <1>1, <2>1, <2>2
    <2>8. OnPages(s) = SumFunction(f) /\ OnPages(s)' = SumFunction(e)
      BY <2>1, <2>2 DEF OnPages
    <2> QED BY <2>6, <2>7, <2>8
  <1> QED BY <1>1, <1>2, <1>3

LEMMA PagesStay ==
    ASSUME UNCHANGED page, NEW s PROVE OnPages(s)' = OnPages(s)
  BY DEF OnPages

LEMMA PostStays ==
    ASSUME UNCHANGED post, NEW s PROVE OnTheWay(s)' = OnTheWay(s)
  BY DEF OnTheWay, Sent

LEMMA PostAdds ==
    ASSUME Shape, NEW b \in Seq(Event), post' = post (+) SetToBag({b})
    PROVE  IsPost(post') /\ \A s : OnTheWay(s)' = OnTheWay(s) + Of(s, b)
  <1>1. PICK C : C = post (+) SetToBag({b})
    OBVIOUS
  <1>2. IsPost(C) /\ \A s : Weight(C, s) = Weight(post, s) + Of(s, b)
    BY <1>1, PostAdded DEF Shape
  <1>3. \A s : OnTheWay(s)' = Weight(C, s)
    BY <1>1 DEF OnTheWay, Sent, BagToSet, Weight, Weights, SumFunction
  <1> QED BY <1>1, <1>2, <1>3, OnTheWayIs

LEMMA PostTakes ==
    ASSUME Shape, NEW b \in Sent, post' = post (-) SetToBag({b})
    PROVE  /\ b \in Seq(Event) /\ IsPost(post')
           /\ \A s : OnTheWay(s) = OnTheWay(s)' + Of(s, b) /\ OnTheWay(s)' \in Nat
  <1>1. PICK C : C = post (-) SetToBag({b})
    OBVIOUS
  <1>2. b \in DOMAIN post /\ b \in Seq(Event)
    BY DEF Sent, BagToSet, Shape, IsPost
  <1>3. IsPost(C) /\ \A s : Weight(post, s) = Weight(C, s) + Of(s, b)
    BY <1>1, <1>2, PostTaken DEF Shape
  <1>4. \A s : Weight(C, s) \in Nat
    BY <1>3, WeightIs
  <1>5. \A s : OnTheWay(s)' = Weight(C, s)
    BY <1>1 DEF OnTheWay, Sent, BagToSet, Weight, Weights, SumFunction
  <1> QED BY <1>1, <1>2, <1>3, <1>4, <1>5, OnTheWayIs

LEMMA Flushes ==
    ASSUME Shape, NEW p \in Pages, FlushTrackingQueue(page[p])
    PROVE  IsPost(post') /\ \A s : OnTheWay(s)' = OnTheWay(s) + Of(s, page[p].queue)
  <1>1. PICK q, b : q = page[p].queue /\ b = FoldLeft(Forwarded, <<>>, page[p].queue)
    OBVIOUS
  <1>2. q \in Seq(Event)
    BY <1>1 DEF Shape, IsPage
  <1>3. b \in Seq(Event) /\ \A s : Of(s, b) = Of(s, q)
    BY <1>1, <1>2, FilterKeepsClicks
  <1>4. post' = IF b = <<>> THEN post ELSE post (+) SetToBag({b})
    BY <1>1 DEF FlushTrackingQueue
  <1>5. CASE b = <<>>
    <2>1. UNCHANGED post /\ IsPost(post')
      BY <1>4, <1>5 DEF Shape
    <2>2. \A s : OnTheWay(s)' = OnTheWay(s) /\ OnTheWay(s) \in Nat
      BY <2>1, PostStays, OnTheWayIs, WeightIs DEF Shape
    <2>3. \A s : Of(s, q) = 0
      BY <1>3, <1>5, OfEmpty
    <2> QED BY <1>1, <2>1, <2>2, <2>3
  <1>6. CASE b # <<>>
    <2>1. post' = post (+) SetToBag({b})
      BY <1>4, <1>6
    <2> QED BY <1>1, <1>3, <2>1, PostAdds
  <1> QED BY <1>5, <1>6

LEMMA DeltasAre ==
    ASSUME NEW T, NEW b \in Seq(T)
    PROVE  Deltas(b) \in Counts /\ \A s \in Subjects : Deltas(b)[s] = Of(s, b)
  BY MineFinite DEF Deltas, Counts

LEMMA PlusIs ==
    ASSUME NEW f \in Counts, NEW g \in Counts
    PROVE  /\ Plus(f, g) \in Counts
           /\ \A s \in Subjects : /\ Plus(f, g)[s] = f[s] + g[s]
                                  /\ f[s] \in Nat /\ g[s] \in Nat
  BY DEF Plus, Counts

-----------------------------------------------------------------------------
(* Every step keeps every click. *)

LEMMA InitTracking == Init => TrackingInv
  <1> SUFFICES ASSUME Init PROVE TrackingInv
    OBVIOUS
  <1>1. <<>> \in Seq(Event)
    OBVIOUS
  <1>2. IsPage(NewPage)
    BY <1>1, ZeroCounts DEF NewPage, IsPage
  <1>3. DOMAIN page = Pages /\ \A p \in Pages : page[p] = NewPage
    BY DEF Init
  <1>4. IsServer(server) /\ server.queue = <<>> /\ server.batch = <<>>
    <2>1. Len(<<>>) <= MaxQueue
      BY TrackingAssumption
    <2> QED BY <1>1, <2>1 DEF Init, NewServer, IsServer
  <1>5. DOMAIN post = {} /\ post = [b \in {} |-> 1]
    BY DEF Init, EmptyBag, SetToBag
  <1>6. IsPost(post)
    BY <1>5, FS_EmptySet DEF IsPost
  <1>7. Shape
    BY <1>2, <1>3, <1>4, <1>6, ZeroCounts DEF Init, Shape
  <1>8. ASSUME NEW s \in Subjects PROVE OnPages(s) = 0 /\ OnTheWay(s) = 0
    <2>1. OnTheWay(s) = 0
      <3>1. Weight(post, s) = SumFunctionOnSet(Weights(post, s), {})
        BY <1>5 DEF Weight
      <3> QED BY <3>1, OnTheWayIs, SumEmpty
    <2>2. PICK f : f = [p \in Pages |-> Of(s, page[p].queue)]
      OBVIOUS
    <2>3. \A p \in Pages : f[p] = 0
      BY <1>3, <2>2, OfEmpty DEF NewPage
    <2>4. SumFunctionOnSet(f, Pages) = 0
      BY <2>3, SumZero, TrackingAssumption
    <2> QED BY <2>1, <2>2, <2>4 DEF OnPages, SumFunction
  <1>9. EveryClickCountsOnce
    <2>1. \A s \in Subjects : clicks[s] = 0 /\ db[s] = 0 /\ lost[s] = 0
      BY ZeroCounts DEF Init
    <2>2. \A p \in Pages, s \in Subjects : page[p].history[s] = 0 /\ page[p].session[s] = 0
      BY <1>3, ZeroCounts DEF NewPage
    <2> QED BY <1>4, <1>8, <2>1, <2>2, OfEmpty DEF Init, EveryClickCountsOnce
  <1> QED BY <1>7, <1>9 DEF TrackingInv

LEMMA TrackInv ==
    ASSUME TrackingInv, NEW p \in Pages, NEW e \in Event, Track(p, e)
    PROVE  TrackingInv'
  <1>1. Shape /\ EveryClickCountsOnce /\ IsPage(page[p])
    BY DEF TrackingInv, Shape
  <1>2. PICK pg, new : /\ pg = page[p]
                       /\ new = Queued(Counted(Hydrated([pg EXCEPT !.index = @ + 1]), e), e)
    OBVIOUS
  <1>3. /\ IsPage(new) /\ new.queue = Append(pg.queue, e)
        /\ \A s \in Subjects :
              /\ new.session[s] = pg.session[s] + ReportedOf(e, s)
              /\ new.history[s] <= IF pg.hydrated \/ store = NoStore THEN pg.history[s]
                                   ELSE pg.history[s] + store[s]
    BY <1>1, <1>2, TrackedPage DEF Shape
  <1>4. page' = [page EXCEPT ![p] = new]
    BY <1>2 DEF Track, TrackEvent
  <1>5. /\ DOMAIN page' = Pages /\ \A q \in Pages : IsPage(page'[q])
        /\ \A q \in Pages : page'[q] = IF q = p THEN new ELSE page[q]
        /\ \A s \in Subjects :
              /\ OnPages(s)' \in Nat
              /\ OnPages(s)' + Of(s, page[p].queue) = OnPages(s) + Of(s, new.queue)
    BY <1>1, <1>3, <1>4, PagesStep
  <1>6. /\ UNCHANGED <<store, post, server, db, lost>>
        /\ clicks' \in Counts
        /\ \A s \in Subjects : clicks'[s] = clicks[s] + ReportedOf(e, s)
    <2>1. <<e>> \in Seq(Event) /\ clicks \in Counts
      BY <1>1 DEF Shape
    <2>2. Deltas(<<e>>) \in Counts /\ \A s \in Subjects : Deltas(<<e>>)[s] = Of(s, <<e>>)
      BY <2>1, DeltasAre
    <2>3. clicks' = Plus(clicks, Deltas(<<e>>))
      BY DEF Track
    <2>4. \A s \in Subjects : Of(s, <<e>>) = ReportedOf(e, s)
      BY OfOne DEF ReportedOf
    <2> QED BY <2>1, <2>2, <2>3, <2>4, PlusIs DEF Track
  <1>7. Shape'
    BY <1>1, <1>5, <1>6 DEF Shape
  <1>8. ASSUME NEW s \in Subjects
        PROVE  /\ clicks'[s] = OnPages(s)' + OnTheWay(s)' + Of(s, server'.queue)
                                + Of(s, server'.batch) + db'[s] + lost'[s]
               /\ store' # NoStore => store'[s] <= clicks'[s]
               /\ \A q \in Pages : page'[q].history[s] + page'[q].session[s] <= clicks'[s]
    <2>1. PICK r \in {0, 1} : r = ReportedOf(e, s)
      BY DEF ReportedOf
    <2>2. Of(s, new.queue) = Of(s, pg.queue) + r /\ Of(s, pg.queue) \in Nat
      <3>1. pg.queue \in Seq(Event)
        BY <1>1, <1>2 DEF IsPage
      <3>2. Of(s, <<e>>) = r
        BY <2>1, OfOne DEF ReportedOf
      <3> QED BY <1>3, <3>1, <3>2, OfAppend, MineFinite
    <2>3. /\ OnTheWay(s) \in Nat /\ OnPages(s) \in Nat
          /\ Of(s, server.queue) \in Nat /\ Of(s, server.batch) \in Nat
          /\ clicks[s] \in Nat /\ db[s] \in Nat /\ lost[s] \in Nat
      BY <1>1, CountsAreNat
    <2>4. OnPages(s)' = OnPages(s) + r
      BY <1>2, <1>5, <2>1, <2>2, <2>3
    <2>5. OnTheWay(s)' = OnTheWay(s)
      BY <1>6, PostStays
    <2>6. clicks'[s] = OnPages(s)' + OnTheWay(s)' + Of(s, server'.queue)
                                + Of(s, server'.batch) + db'[s] + lost'[s]
      <3>1. clicks[s] = OnPages(s) + OnTheWay(s) + Of(s, server.queue)
                                + Of(s, server.batch) + db[s] + lost[s]
        BY <1>1 DEF EveryClickCountsOnce
      <3>2. clicks'[s] = clicks[s] + r /\ server' = server /\ db' = db /\ lost' = lost
        BY <1>6, <2>1
      <3> QED BY <2>1, <2>3, <2>4, <2>5, <3>1, <3>2
    <2>7. store # NoStore => store[s] \in Nat /\ store[s] <= clicks[s]
      BY <1>1 DEF EveryClickCountsOnce, Shape, Counts
    <2>8. \A q \in Pages : /\ page[q].history[s] \in Nat /\ page[q].session[s] \in Nat
                           /\ page[q].history[s] + page[q].session[s] <= clicks[s]
      BY <1>1 DEF EveryClickCountsOnce, Shape, IsPage, Counts
    <2>9. new.history[s] + new.session[s] <= clicks[s] + r
      <3>1. /\ new.history[s] \in Nat /\ pg.history[s] \in Nat /\ pg.session[s] \in Nat
            /\ new.session[s] = pg.session[s] + r
            /\ pg.history[s] + pg.session[s] <= clicks[s]
        BY <1>2, <1>3, <2>1, <2>8 DEF IsPage, Counts
      <3>2. CASE pg.hydrated \/ store = NoStore
        <4>1. new.history[s] <= pg.history[s]
          BY <1>3, <3>2
        <4> QED BY <2>1, <2>3, <3>1, <4>1
      <3>3. CASE ~pg.hydrated /\ store # NoStore
        <4>1. pg.history[s] = 0 /\ pg.session[s] = 0
          BY <1>1, <1>2, <3>3, ZeroCounts DEF IsPage
        <4>2. new.history[s] <= pg.history[s] + store[s]
          BY <1>3, <3>3
        <4> QED BY <2>1, <2>3, <2>7, <3>1, <3>3, <4>1, <4>2
      <3> QED BY <3>2, <3>3
    <2>10. \A q \in Pages : page'[q].history[s] + page'[q].session[s] <= clicks'[s]
      BY <1>5, <1>6, <2>1, <2>3, <2>8, <2>9
    <2> QED BY <1>6, <2>1, <2>3, <2>6, <2>7, <2>10
  <1>9. EveryClickCountsOnce'
    BY <1>8 DEF EveryClickCountsOnce
  <1> QED BY <1>7, <1>9 DEF TrackingInv

\* A page hands over its queue.
LEMMA FlushInv ==
    ASSUME TrackingInv, NEW p \in Pages, FlushTrackingQueue(page[p]), NEW pg, IsPage(pg),
           pg.queue = <<>>, page' = [page EXCEPT ![p] = pg],
           \A s \in Subjects : pg.history[s] + pg.session[s]
                                 <= page[p].history[s] + page[p].session[s]
    PROVE  TrackingInv'
  <1>1. Shape /\ EveryClickCountsOnce
    BY DEF TrackingInv
  <1>2. IsPost(post') /\ \A s : OnTheWay(s)' = OnTheWay(s) + Of(s, page[p].queue)
    BY <1>1, Flushes
  <1>3. /\ DOMAIN page' = Pages /\ \A q \in Pages : IsPage(page'[q])
        /\ \A q \in Pages : page'[q] = IF q = p THEN pg ELSE page[q]
        /\ \A s \in Subjects :
              /\ OnPages(s)' \in Nat
              /\ OnPages(s)' + Of(s, page[p].queue) = OnPages(s) + Of(s, pg.queue)
    BY <1>1, PagesStep
  <1>4. UNCHANGED <<store, server, db, clicks, lost>>
    BY DEF FlushTrackingQueue
  <1>5. Shape'
    BY <1>1, <1>2, <1>3, <1>4 DEF Shape
  <1>6. ASSUME NEW s \in Subjects
        PROVE  /\ clicks'[s] = OnPages(s)' + OnTheWay(s)' + Of(s, server'.queue)
                                + Of(s, server'.batch) + db'[s] + lost'[s]
               /\ store' # NoStore => store'[s] <= clicks'[s]
               /\ \A q \in Pages : page'[q].history[s] + page'[q].session[s] <= clicks'[s]
    <2>1. /\ OnTheWay(s) \in Nat /\ OnPages(s) \in Nat
          /\ Of(s, server.queue) \in Nat /\ Of(s, server.batch) \in Nat
          /\ clicks[s] \in Nat /\ db[s] \in Nat /\ lost[s] \in Nat
      BY <1>1, CountsAreNat
    <2>2. PICK n \in Nat : n = Of(s, page[p].queue)
      BY <1>1, MineFinite DEF Shape, IsPage
    <2>3. OnPages(s)' + n = OnPages(s) /\ OnPages(s)' \in Nat /\ OnTheWay(s)' = OnTheWay(s) + n
      BY <1>2, <1>3, <2>1, <2>2, OfEmpty
    <2>4. clicks[s] = OnPages(s) + OnTheWay(s) + Of(s, server.queue)
                                + Of(s, server.batch) + db[s] + lost[s]
      BY <1>1 DEF EveryClickCountsOnce
    <2>5. OnPages(s)' + OnTheWay(s)' = OnPages(s) + OnTheWay(s)
      BY <2>1, <2>3
    <2>6. \A q \in Pages : /\ page[q].history[s] \in Nat /\ page[q].session[s] \in Nat
                           /\ page[q].history[s] + page[q].session[s] <= clicks[s]
      BY <1>1 DEF EveryClickCountsOnce, Shape, IsPage, Counts
    <2>7. pg.history[s] \in Nat /\ pg.session[s] \in Nat
      BY DEF IsPage, Counts
    <2>8. pg.history[s] + pg.session[s] <= clicks[s]
      <3>1. PICK h, k, i, m, c \in Nat :
               /\ h = pg.history[s] /\ k = pg.session[s] /\ c = clicks[s]
               /\ i = page[p].history[s] /\ m = page[p].session[s]
        BY <2>1, <2>6, <2>7
      <3>2. h + k <= i + m
        BY <3>1
      <3>3. i + m <= c
        BY <2>6, <3>1
      <3>4. h + k <= c
        BY <3>2, <3>3
      <3> QED BY <3>1, <3>4
    <2>9. \A q \in Pages : page'[q].history[s] + page'[q].session[s] <= clicks'[s]
      BY <1>3, <1>4, <2>6, <2>8
    <2>10. store' # NoStore => store'[s] <= clicks'[s]
      BY <1>1, <1>4 DEF EveryClickCountsOnce
    <2> QED BY <1>4, <2>4, <2>5, <2>9, <2>10
  <1>7. EveryClickCountsOnce'
    BY <1>6 DEF EveryClickCountsOnce
  <1> QED BY <1>5, <1>7 DEF TrackingInv

\* The API takes, loses or counts what was on its way.
LEMMA ServerInv ==
    ASSUME TrackingInv, UNCHANGED <<page, store, clicks>>, IsPost(post'), IsServer(server'),
           db' \in Counts, lost' \in Counts,
           \A s \in Subjects :
              OnTheWay(s)' + Of(s, server'.queue) + Of(s, server'.batch) + db'[s] + lost'[s]
                = OnTheWay(s) + Of(s, server.queue) + Of(s, server.batch) + db[s] + lost[s],
           \A s \in Subjects : OnTheWay(s)' \in Nat
    PROVE  TrackingInv'
  <1>1. Shape /\ EveryClickCountsOnce
    BY DEF TrackingInv
  <1>2. Shape'
    BY <1>1 DEF Shape
  <1>3. ASSUME NEW s \in Subjects
        PROVE  clicks'[s] = OnPages(s)' + OnTheWay(s)' + Of(s, server'.queue)
                                + Of(s, server'.batch) + db'[s] + lost'[s]
    <2>1. /\ OnTheWay(s) \in Nat /\ OnPages(s) \in Nat
          /\ Of(s, server.queue) \in Nat /\ Of(s, server.batch) \in Nat
          /\ clicks[s] \in Nat /\ db[s] \in Nat /\ lost[s] \in Nat
      BY <1>1, CountsAreNat
    <2>2. OnPages(s)' = OnPages(s)
      BY PagesStay
    <2>3. PICK w, q, b, d, l \in Nat :
             /\ w = OnTheWay(s)' /\ q = Of(s, server'.queue) /\ b = Of(s, server'.batch)
             /\ d = db'[s] /\ l = lost'[s]
      BY MineFinite DEF IsServer, Counts
    <2>4. clicks[s] = OnPages(s) + OnTheWay(s) + Of(s, server.queue)
                                + Of(s, server.batch) + db[s] + lost[s]
      BY <1>1 DEF EveryClickCountsOnce
    <2>5. w + q + b + d + l
            = OnTheWay(s) + Of(s, server.queue) + Of(s, server.batch) + db[s] + lost[s]
      BY <2>3
    <2>6. clicks[s] = OnPages(s) + w + q + b + d + l
      <3>1. PICK P, W, Q, B, D, L \in Nat :
               /\ P = OnPages(s) /\ W = OnTheWay(s) /\ Q = Of(s, server.queue)
               /\ B = Of(s, server.batch) /\ D = db[s] /\ L = lost[s]
        BY <2>1
      <3>2. w + q + b + d + l = W + Q + B + D + L
        BY <2>5, <3>1
      <3>3. P + W + Q + B + D + L = P + w + q + b + d + l
        BY <3>2
      <3> QED BY <2>4, <3>1, <3>3
    <2> QED BY <2>2, <2>3, <2>6
  <1>4. ASSUME NEW s \in Subjects
        PROVE  /\ store' # NoStore => store'[s] <= clicks'[s]
               /\ \A q \in Pages : page'[q].history[s] + page'[q].session[s] <= clicks'[s]
    BY <1>1 DEF EveryClickCountsOnce
  <1>5. EveryClickCountsOnce'
    BY <1>3, <1>4 DEF EveryClickCountsOnce
  <1> QED BY <1>2, <1>5 DEF TrackingInv

-----------------------------------------------------------------------------
(* The steps of a page. *)

\* A page whose counters stay and that hands over its queue or has written
\* down what it counted.
LEMMA FieldsOf ==
    ASSUME NEW pg, IsPage(pg)
    PROVE  /\ IsPage(Flushed(pg)) /\ Flushed(pg).queue = <<>>
           /\ Flushed(pg).history = pg.history /\ Flushed(pg).session = pg.session
           /\ Flushed(pg).timers = pg.timers
           /\ \A n : LET new == [pg EXCEPT !.timers = n]
                     IN  /\ IsPage(new) /\ new.queue = pg.queue
                         /\ new.history = pg.history /\ new.session = pg.session
           /\ LET new == [pg EXCEPT !.persisting = FALSE]
              IN  /\ IsPage(new) /\ new.queue = pg.queue
                  /\ new.history = pg.history /\ new.session = pg.session
  <1>1. PICK q, d, m, i, y, w, f, c, l :
           /\ q = pg.queue /\ d = pg.scheduled /\ m = pg.timers /\ i = pg.index
           /\ y = pg.hydrated /\ w = pg.persisting /\ f = pg.history
           /\ c = pg.session /\ l = pg.last
    OBVIOUS
  <1>2. pg = [queue |-> q, scheduled |-> d, timers |-> m, index |-> i, hydrated |-> y,
              persisting |-> w, history |-> f, session |-> c, last |-> l]
    BY <1>1, Zenon DEF IsPage
  <1>3. /\ q \in Seq(Event) /\ i \in Nat /\ f \in Counts /\ c \in Counts /\ l \in Counts
        /\ \A s \in Subjects : l[s] <= i
        /\ y \/ (f = Zero /\ c = Zero)
    BY <1>1, Zenon DEF IsPage
  <1>4. ASSUME NEW r \in Seq(Event), NEW e, NEW n, NEW b, NEW new,
               new = [queue |-> r, scheduled |-> e, timers |-> n, index |-> i, hydrated |-> y,
                      persisting |-> b, history |-> f, session |-> c, last |-> l]
        PROVE  IsPage(new) /\ new.queue = r /\ new.history = f /\ new.session = c
               /\ new.timers = n
    BY <1>3, <1>4 DEF IsPage
  <1>5. PICK no : no = FALSE
    OBVIOUS
  <1>6. /\ IsPage(Flushed(pg)) /\ Flushed(pg).queue = <<>>
        /\ Flushed(pg).history = pg.history /\ Flushed(pg).session = pg.session
        /\ Flushed(pg).timers = pg.timers
    <2>1. PICK new : new = Flushed(pg)
      OBVIOUS
    <2>2. new = [pg EXCEPT !.queue = <<>>, !.scheduled = no]
      BY <1>5, <2>1 DEF Flushed
    <2>3. new = [queue |-> <<>>, scheduled |-> no, timers |-> m, index |-> i, hydrated |-> y,
                 persisting |-> w, history |-> f, session |-> c, last |-> l]
      BY <1>2, <2>2
    <2>4. <<>> \in Seq(Event)
      OBVIOUS
    <2>5. /\ IsPage(new) /\ new.queue = <<>> /\ new.history = f /\ new.session = c
          /\ new.timers = m
      BY <1>4, <2>3, <2>4, Zenon
    <2> QED BY <1>1, <2>1, <2>5
  <1>7. ASSUME NEW n, NEW new, new = [pg EXCEPT !.timers = n]
        PROVE  /\ IsPage(new) /\ new.queue = pg.queue
               /\ new.history = pg.history /\ new.session = pg.session
    <2>1. new = [queue |-> q, scheduled |-> d, timers |-> n, index |-> i, hydrated |-> y,
                 persisting |-> w, history |-> f, session |-> c, last |-> l]
      BY <1>2, <1>7
    <2> QED BY <1>1, <1>3, <1>4, <2>1
  <1>8. ASSUME NEW new, new = [pg EXCEPT !.persisting = FALSE]
        PROVE  /\ IsPage(new) /\ new.queue = pg.queue
               /\ new.history = pg.history /\ new.session = pg.session
    <2>1. new = [pg EXCEPT !.persisting = no]
      BY <1>5, <1>8
    <2>2. new = [queue |-> q, scheduled |-> d, timers |-> m, index |-> i, hydrated |-> y,
                 persisting |-> no, history |-> f, session |-> c, last |-> l]
      BY <1>2, <2>1
    <2> QED BY <1>1, <1>3, <1>4, <2>2
  <1> QED BY <1>6, <1>7, <1>8

LEMMA PageInv ==
    ASSUME TrackingInv, NEW p \in Pages, FlushTimer(p) \/ Hide(p) \/ Unload(p)
    PROVE  TrackingInv'
  <1>1. IsPage(page[p])
    BY DEF TrackingInv, Shape
  <1>2. \A s \in Subjects : page[p].history[s] \in Nat /\ page[p].session[s] \in Nat
    BY <1>1 DEF IsPage, Counts
  <1>3. PICK pg : pg = Flushed(page[p])
    OBVIOUS
  <1>4. /\ IsPage(pg) /\ pg.queue = <<>>
        /\ pg.history = page[p].history /\ pg.session = page[p].session
    BY <1>1, <1>3, FieldsOf
  <1>5. \A s \in Subjects : pg.history[s] + pg.session[s]
                              <= page[p].history[s] + page[p].session[s]
    BY <1>2, <1>4
  <1>6. CASE FlushTimer(p)
    <2>1. PICK new : new = [pg EXCEPT !.timers = pg.timers - 1]
      OBVIOUS
    <2>2. /\ IsPage(new) /\ new.queue = <<>>
          /\ new.history = pg.history /\ new.session = pg.session
      BY <1>4, <2>1, FieldsOf
    <2>3. page' = [page EXCEPT ![p] = new] /\ FlushTrackingQueue(page[p])
      BY <1>3, <1>6, <2>1 DEF FlushTimer
    <2>4. \A s \in Subjects : new.history[s] + new.session[s]
                                <= page[p].history[s] + page[p].session[s]
      BY <1>5, <2>2
    <2> QED BY <2>2, <2>3, <2>4, FlushInv
  <1>7. CASE Hide(p)
    <2>1. page' = [page EXCEPT ![p] = pg] /\ FlushTrackingQueue(page[p])
      BY <1>3, <1>7 DEF Hide
    <2> QED BY <1>4, <1>5, <2>1, FlushInv
  <1>8. CASE Unload(p)
    <2>1. PICK new : new = NewPage
      OBVIOUS
    <2>2. IsPage(new) /\ new.queue = <<>> /\ new.history = Zero /\ new.session = Zero
      <3>1. <<>> \in Seq(Event)
        OBVIOUS
      <3> QED BY <2>1, <3>1, ZeroCounts DEF NewPage, IsPage
    <2>3. page' = [page EXCEPT ![p] = new] /\ FlushTrackingQueue(page[p])
      BY <1>8, <2>1 DEF Unload
    <2>4. \A s \in Subjects : new.history[s] + new.session[s]
                                <= page[p].history[s] + page[p].session[s]
      BY <1>2, <2>2, ZeroCounts
    <2> QED BY <2>2, <2>3, <2>4, FlushInv
  <1> QED BY <1>6, <1>7, <1>8

LEMMA PersistInv ==
    ASSUME TrackingInv, NEW p \in Pages, PersistBehavior(p)
    PROVE  TrackingInv'
  <1>1. Shape /\ EveryClickCountsOnce /\ IsPage(page[p])
    BY DEF TrackingInv, Shape
  <1>2. PICK new : new = [page[p] EXCEPT !.persisting = FALSE]
    OBVIOUS
  <1>3. /\ IsPage(new) /\ new.queue = page[p].queue
        /\ new.history = page[p].history /\ new.session = page[p].session
    BY <1>1, <1>2, FieldsOf
  <1>4. page' = [page EXCEPT ![p] = new]
    BY <1>2 DEF PersistBehavior
  <1>5. /\ DOMAIN page' = Pages /\ \A q \in Pages : IsPage(page'[q])
        /\ \A q \in Pages : page'[q] = IF q = p THEN new ELSE page[q]
        /\ \A s \in Subjects :
              /\ OnPages(s)' \in Nat
              /\ OnPages(s)' + Of(s, page[p].queue) = OnPages(s) + Of(s, new.queue)
    <2>1. Shape /\ IsPage(new)
      BY <1>1, <1>3
    <2> QED BY <1>4, <2>1, PagesStep
  <1>6. /\ UNCHANGED <<post, server, db, clicks, lost>>
        /\ store' = [s \in Subjects |-> Cap(page[p].history[s] + page[p].session[s])]
    BY DEF PersistBehavior
  <1>7. \A s \in Subjects : /\ page[p].history[s] \in Nat /\ page[p].session[s] \in Nat
                            /\ page[p].history[s] + page[p].session[s] <= clicks[s]
    BY <1>1 DEF IsPage, Counts, EveryClickCountsOnce
  <1>8. store' \in Counts /\ \A s \in Subjects : store'[s] <= clicks[s]
    <2>1. \A n \in Nat : Cap(n) \in Nat /\ Cap(n) <= n
      BY TrackingAssumption DEF Cap
    <2>2. \A s \in Subjects : clicks[s] \in Nat
      BY <1>1, CountsAreNat
    <2>3. ASSUME NEW s \in Subjects
          PROVE  store'[s] \in Nat /\ store'[s] <= clicks[s]
      <3>1. PICK n \in Nat : n = page[p].history[s] + page[p].session[s]
        BY <1>7
      <3>2. store'[s] = Cap(n) /\ n <= clicks[s]
        BY <1>6, <1>7, <3>1
      <3> QED BY <2>1, <2>2, <3>2
    <2> QED BY <1>6, <2>3 DEF Counts
  <1>9. Shape'
    BY <1>1, <1>5, <1>6, <1>8 DEF Shape
  <1>10. ASSUME NEW s \in Subjects
         PROVE  /\ clicks'[s] = OnPages(s)' + OnTheWay(s)' + Of(s, server'.queue)
                                 + Of(s, server'.batch) + db'[s] + lost'[s]
                /\ store' # NoStore => store'[s] <= clicks'[s]
                /\ \A q \in Pages : page'[q].history[s] + page'[q].session[s] <= clicks'[s]
    <2>1. OnPages(s) \in Nat /\ Of(s, page[p].queue) \in Nat
      BY <1>1, CountsAreNat, MineFinite DEF IsPage
    <2>2. OnPages(s)' = OnPages(s)
      BY <1>3, <1>5, <2>1
    <2>3. OnTheWay(s)' = OnTheWay(s)
      BY <1>6, PostStays
    <2>4. \A q \in Pages : page'[q].history[s] + page'[q].session[s]
                             = page[q].history[s] + page[q].session[s]
      BY <1>3, <1>5
    <2> QED BY <1>1, <1>6, <1>8, <2>2, <2>3, <2>4 DEF EveryClickCountsOnce
  <1>11. EveryClickCountsOnce'
    BY <1>10 DEF EveryClickCountsOnce
  <1> QED BY <1>9, <1>11 DEF TrackingInv

LEMMA ForgetInv ==
    ASSUME TrackingInv, Forget PROVE TrackingInv'
  <1>1. UNCHANGED <<page, post, server, db, clicks, lost>> /\ store' = NoStore
    BY DEF Forget
  <1>2. Shape'
    BY <1>1 DEF TrackingInv, Shape
  <1>3. \A s \in Subjects : OnPages(s)' = OnPages(s) /\ OnTheWay(s)' = OnTheWay(s)
    BY <1>1, PagesStay, PostStays
  <1>4. EveryClickCountsOnce'
    BY <1>1, <1>3 DEF TrackingInv, EveryClickCountsOnce
  <1> QED BY <1>2, <1>4 DEF TrackingInv

-----------------------------------------------------------------------------
(* The steps of the API. *)

\* What a failure takes is booked as lost.
LEMMA Loses ==
    ASSUME Shape, NEW b \in Seq(Event), Lose(b)
    PROVE  /\ lost' \in Counts
           /\ \A s \in Subjects : /\ lost'[s] = lost[s] + Of(s, b)
                                  /\ lost[s] \in Nat /\ Of(s, b) \in Nat
  <1>1. Deltas(b) \in Counts /\ \A s \in Subjects : Deltas(b)[s] = Of(s, b)
    BY DeltasAre
  <1>2. lost \in Counts /\ lost' = Plus(lost, Deltas(b))
    BY DEF Shape, Lose
  <1> QED BY <1>1, <1>2, PlusIs, MineFinite

LEMMA PostFailsInv ==
    ASSUME TrackingInv, NEW b \in Sent, PostFails(b) PROVE TrackingInv'
  <1>1. Shape /\ UNCHANGED <<page, store, server, db, clicks>> /\ Lose(b)
        /\ post' = post (-) SetToBag({b})
    BY DEF TrackingInv, PostFails
  <1>2. /\ b \in Seq(Event) /\ IsPost(post')
        /\ \A s : OnTheWay(s) = OnTheWay(s)' + Of(s, b) /\ OnTheWay(s)' \in Nat
    BY <1>1, PostTakes
  <1>3. /\ lost' \in Counts
        /\ \A s \in Subjects : /\ lost'[s] = lost[s] + Of(s, b)
                               /\ lost[s] \in Nat /\ Of(s, b) \in Nat
    BY <1>1, <1>2, Loses
  <1>4. IsServer(server') /\ db' \in Counts
    BY <1>1 DEF Shape
  <1>5. ASSUME NEW s \in Subjects
        PROVE  OnTheWay(s)' + Of(s, server'.queue) + Of(s, server'.batch) + db'[s] + lost'[s]
                 = OnTheWay(s) + Of(s, server.queue) + Of(s, server.batch) + db[s] + lost[s]
    <2>1. PICK w, n, q, c, d, l \in Nat :
             /\ w = OnTheWay(s)' /\ n = Of(s, b) /\ q = Of(s, server.queue)
             /\ c = Of(s, server.batch) /\ d = db[s] /\ l = lost[s]
      BY <1>1, <1>2, <1>3, CountsAreNat
    <2>2. OnTheWay(s) = w + n /\ lost'[s] = l + n
      BY <1>2, <1>3, <2>1
    <2> QED BY <1>1, <2>1, <2>2
  <1> QED BY <1>1, <1>2, <1>3, <1>4, <1>5, ServerInv

LEMMA IngestInv ==
    ASSUME TrackingInv, NEW b \in Sent, IngestEvents(b) PROVE TrackingInv'
  <1>1. Shape /\ IsServer(server) /\ UNCHANGED <<page, store, db, clicks>>
        /\ post' = post (-) SetToBag({b})
    BY DEF TrackingInv, Shape, IngestEvents
  <1>2. /\ b \in Seq(Event) /\ IsPost(post')
        /\ \A s : OnTheWay(s) = OnTheWay(s)' + Of(s, b) /\ OnTheWay(s)' \in Nat
    BY <1>1, PostTakes
  <1>3. PICK room : room = MaxQueue - Len(server.queue)
    OBVIOUS
  <1>4. /\ server.queue \in Seq(Event) /\ Len(server.queue) \in Nat /\ room \in Nat
        /\ Len(server.queue) + room = MaxQueue /\ Len(b) \in Nat
    BY <1>1, <1>2, <1>3, TrackingAssumption DEF IsServer
  <1>5. PICK k : k = IF Len(b) < room THEN Len(b) ELSE room
    OBVIOUS
  <1>6. k \in 0 .. Len(b) /\ k <= room
    BY <1>4, <1>5
  <1>7. PICK x, y : x = SubSeq(b, 1, k) /\ y = SubSeq(b, k + 1, Len(b))
    OBVIOUS
  <1>8. /\ x \in Seq(Event) /\ Len(x) = k /\ y \in Seq(Event)
        /\ \A s : Of(s, b) = Of(s, x) + Of(s, y)
    BY <1>2, <1>6, <1>7, OfSplit
  <1>9. server' = Scheduled([server EXCEPT !.queue = @ \o x]) /\ Lose(y)
    BY <1>3, <1>5, <1>7, <1>8 DEF IngestEvents
  <1>10. PICK q : q = server.queue \o x
    OBVIOUS
  <1>11. /\ q \in Seq(Event) /\ Len(q) <= MaxQueue
         /\ \A s : Of(s, q) = Of(s, server.queue) + Of(s, x)
    <2>1. q \in Seq(Event) /\ Len(q) = Len(server.queue) + k
      <3>1. PICK a : a = server.queue
        OBVIOUS
      <3>2. a \in Seq(Event) /\ q = a \o x
        BY <1>4, <1>10, <3>1
      <3>3. q \in Seq(Event) /\ Len(q) = Len(a) + Len(x)
        <4>1. x \in Seq(Event)
          BY <1>8
        <4> QED BY <3>2, <4>1
      <3> QED BY <1>8, <3>1, <3>3
    <2>2. Len(q) <= MaxQueue
      BY <1>4, <1>6, <2>1, TrackingAssumption
    <2>3. \A s : Of(s, q) = Of(s, server.queue) + Of(s, x)
      BY <1>4, <1>8, <1>10, OfConcat
    <2> QED BY <2>1, <2>2, <2>3
  <1>12. server' = [queue |-> q, scheduled |-> TRUE, inProgress |-> server.inProgress,
                    batch |-> server.batch]
    BY <1>1, <1>9, <1>10 DEF IsServer, Scheduled
  <1>13. IsServer(server')
    <2>1. PICK c, g : c = server.batch /\ g = server.inProgress
      OBVIOUS
    <2>2. c \in Seq(Event) /\ (g \/ c = <<>>)
      BY <1>1, <2>1 DEF IsServer
    <2>3. q \in Seq(Event) /\ Len(q) <= MaxQueue
      BY <1>11
    <2>4. PICK sv : sv = server'
      OBVIOUS
    <2>5. /\ sv = [queue |-> q, scheduled |-> TRUE, inProgress |-> g, batch |-> c]
          /\ sv.queue = q /\ sv.batch = c /\ sv.inProgress = g
      BY <1>12, <2>1, <2>4
    <2>6. IsServer(sv)
      BY <2>2, <2>3, <2>5 DEF IsServer
    <2> QED BY <2>4, <2>6
  <1>14. /\ lost' \in Counts
         /\ \A s \in Subjects : /\ lost'[s] = lost[s] + Of(s, y)
                                /\ lost[s] \in Nat /\ Of(s, y) \in Nat
    BY <1>1, <1>8, <1>9, Loses
  <1>15. ASSUME NEW s \in Subjects
         PROVE  OnTheWay(s)' + Of(s, server'.queue) + Of(s, server'.batch) + db'[s] + lost'[s]
                 = OnTheWay(s) + Of(s, server.queue) + Of(s, server.batch) + db[s] + lost[s]
    <2>1. PICK w, n, m, o, c, d, l \in Nat :
             /\ w = OnTheWay(s)' /\ n = Of(s, x) /\ m = Of(s, y) /\ o = Of(s, server.queue)
             /\ c = Of(s, server.batch) /\ d = db[s] /\ l = lost[s]
      BY <1>1, <1>2, <1>8, CountsAreNat, MineFinite
    <2>2. OnTheWay(s) = w + (n + m) /\ lost'[s] = l + m /\ Of(s, q) = o + n
      BY <1>2, <1>8, <1>11, <1>14, <2>1
    <2>3. server'.queue = q /\ server'.batch = server.batch
      BY <1>12
    <2> QED BY <1>1, <2>1, <2>2, <2>3
  <1>16. db' \in Counts
    BY <1>1 DEF Shape
  <1> QED BY <1>1, <1>2, <1>13, <1>14, <1>15, <1>16, ServerInv

LEMMA FlushQueueInv ==
    ASSUME TrackingInv, FlushQueue PROVE TrackingInv'
  <1>1. Shape /\ IsServer(server) /\ UNCHANGED <<page, store, post, db, clicks, lost>>
    BY DEF TrackingInv, Shape, FlushQueue
  <1>2. PICK q : q = server.queue
    OBVIOUS
  <1>3. <<>> \in Seq(Event) /\ q \in Seq(Event) /\ Len(<<>>) <= MaxQueue
    BY <1>1, <1>2, TrackingAssumption DEF IsServer
  <1>4. IsServer(server')
    <2>1. CASE server' = server
      BY <1>1, <2>1
    <2>2. CASE server' = [server EXCEPT !.scheduled = FALSE]
      BY <1>1, <2>2 DEF IsServer
    <2>3. CASE server' = [queue |-> <<>>, scheduled |-> FALSE, inProgress |-> TRUE, batch |-> q]
      BY <1>3, <2>3 DEF IsServer
    <2> QED BY <1>2, <2>1, <2>2, <2>3 DEF FlushQueue
  <1>5. ASSUME NEW s \in Subjects
        PROVE  Of(s, server'.queue) + Of(s, server'.batch)
                 = Of(s, server.queue) + Of(s, server.batch)
    <2>1. CASE server' = server
      BY <2>1
    <2>2. CASE server' = [server EXCEPT !.scheduled = FALSE]
      <3>1. server'.queue = server.queue /\ server'.batch = server.batch
        BY <1>1, <2>2 DEF IsServer
      <3> QED BY <3>1
    <2>3. CASE /\ ~server.inProgress
               /\ server' = [queue |-> <<>>, scheduled |-> FALSE, inProgress |-> TRUE, batch |-> q]
      <3>1. server.batch = <<>>
        BY <1>1, <2>3 DEF IsServer
      <3>2. server'.queue = <<>> /\ server'.batch = q
        BY <2>3
      <3>3. Of(s, q) \in Nat /\ Of(s, <<>>) = 0
        BY <1>3, MineFinite, OfEmpty
      <3> QED BY <1>2, <3>1, <3>2, <3>3
    <2> QED BY <1>2, <2>1, <2>2, <2>3 DEF FlushQueue
  <1>6. ASSUME NEW s \in Subjects
        PROVE  OnTheWay(s)' + Of(s, server'.queue) + Of(s, server'.batch) + db'[s] + lost'[s]
                 = OnTheWay(s) + Of(s, server.queue) + Of(s, server.batch) + db[s] + lost[s]
    <2>1. PICK w, o, c, d, l \in Nat :
             /\ w = OnTheWay(s) /\ o = Of(s, server.queue)
             /\ c = Of(s, server.batch) /\ d = db[s] /\ l = lost[s]
      BY <1>1, CountsAreNat
    <2>2. PICK m, n \in Nat : m = Of(s, server'.queue) /\ n = Of(s, server'.batch)
      BY <1>4, MineFinite DEF IsServer
    <2>3. OnTheWay(s)' = w /\ m + n = o + c
      BY <1>1, <1>5, <2>1, <2>2, PostStays
    <2>4. db'[s] = d /\ lost'[s] = l
      BY <1>1, <2>1
    <2>5. m + n = o + c
      BY <2>3
    <2>6. w + m + n + d + l = w + o + c + d + l
      BY <2>5
    <2> QED BY <2>1, <2>2, <2>3, <2>4, <2>6
  <1>7. IsPost(post') /\ db' \in Counts /\ lost' \in Counts
    BY <1>1 DEF Shape
  <1>8. \A s \in Subjects : OnTheWay(s)' \in Nat
    BY <1>1, PostStays, CountsAreNat
  <1> QED BY <1>1, <1>4, <1>6, <1>7, <1>8, ServerInv

\* A flush ends: what was taken is counted or lost.
LEMMA BatchInv ==
    ASSUME TrackingInv, PersistDeltas \/ PersistFails \/ Restart PROVE TrackingInv'
  <1>1. Shape /\ IsServer(server) /\ UNCHANGED <<page, store, post, clicks>>
    BY DEF TrackingInv, Shape, PersistDeltas, PersistFails, Restart
  <1>2. PICK q, b : q = server.queue /\ b = server.batch
    OBVIOUS
  <1>3. q \in Seq(Event) /\ b \in Seq(Event) /\ <<>> \in Seq(Event) /\ Len(<<>>) <= MaxQueue
    BY <1>1, <1>2, TrackingAssumption DEF IsServer
  <1>4. ASSUME NEW failed, Finally(failed)
        PROVE  IsServer(server') /\ server'.queue = q /\ server'.batch = <<>>
    <2>1. PICK no, d : no = FALSE /\ d = (server.scheduled \/ server.queue # <<>>)
      OBVIOUS
    <2>2. server' = [server EXCEPT !.inProgress = no, !.batch = <<>>, !.scheduled = d]
      BY <1>4, <2>1 DEF Finally
    <2>3. server' = [queue |-> q, scheduled |-> d, inProgress |-> no, batch |-> <<>>]
      BY <1>1, <1>2, <2>2 DEF IsServer
    <2>4. Len(q) <= MaxQueue
      BY <1>1, <1>2 DEF IsServer
    <2> QED BY <1>3, <2>3, <2>4 DEF IsServer
  <1>5. IsPost(post') /\ \A s \in Subjects : OnTheWay(s)' = OnTheWay(s) /\ OnTheWay(s)' \in Nat
    BY <1>1, PostStays, CountsAreNat DEF Shape
  <1>6. ASSUME IsServer(server'), db' \in Counts, lost' \in Counts,
               \A s \in Subjects :
                  Of(s, server'.queue) + Of(s, server'.batch) + db'[s] + lost'[s]
                    = Of(s, q) + Of(s, b) + db[s] + lost[s]
        PROVE  TrackingInv'
    <2>1. ASSUME NEW s \in Subjects
          PROVE  OnTheWay(s)' + Of(s, server'.queue) + Of(s, server'.batch) + db'[s] + lost'[s]
                   = OnTheWay(s) + Of(s, server.queue) + Of(s, server.batch) + db[s] + lost[s]
      <3>1. PICK w, o, c, d, l \in Nat :
               /\ w = OnTheWay(s) /\ o = Of(s, server.queue)
               /\ c = Of(s, server.batch) /\ d = db[s] /\ l = lost[s]
        BY <1>1, CountsAreNat
      <3>2. PICK m, n, e, f \in Nat : /\ m = Of(s, server'.queue) /\ n = Of(s, server'.batch)
                                      /\ e = db'[s] /\ f = lost'[s]
        BY <1>6, MineFinite DEF IsServer, Counts
      <3>3. OnTheWay(s)' = w /\ m + n + e + f = o + c + d + l
        BY <1>2, <1>5, <1>6, <3>1, <3>2
      <3>4. w + m + n + e + f = w + o + c + d + l
        BY <3>1, <3>2, <3>3
      <3> QED BY <3>1, <3>2, <3>3, <3>4
    <2> QED BY <1>1, <1>5, <1>6, <2>1, ServerInv
  <1>7. db \in Counts /\ lost \in Counts
    BY <1>1 DEF Shape
  <1>8. CASE PersistDeltas
    <2>1. Finally(FALSE) /\ db' = Plus(db, Deltas(b)) /\ lost' = lost
      BY <1>2, <1>8 DEF PersistDeltas
    <2>2. Deltas(b) \in Counts /\ \A s \in Subjects : Deltas(b)[s] = Of(s, b)
      BY <1>3, DeltasAre
    <2>3. db' \in Counts /\ \A s \in Subjects : db'[s] = db[s] + Of(s, b)
      BY <1>7, <2>1, <2>2, PlusIs
    <2>4. IsServer(server') /\ server'.queue = q /\ server'.batch = <<>>
      BY <1>4, <2>1
    <2>5. ASSUME NEW s \in Subjects
          PROVE  Of(s, server'.queue) + Of(s, server'.batch) + db'[s] + lost'[s]
                   = Of(s, q) + Of(s, b) + db[s] + lost[s]
      <3>1. PICK o, c, d, l \in Nat : o = Of(s, q) /\ c = Of(s, b) /\ d = db[s] /\ l = lost[s]
        BY <1>3, <1>7, MineFinite DEF Counts
      <3>2. Of(s, server'.queue) = o /\ Of(s, server'.batch) = 0 /\ db'[s] = d + c /\ lost'[s] = l
        BY <2>1, <2>3, <2>4, <3>1, OfEmpty
      <3> QED BY <3>1, <3>2
    <2> QED BY <1>6, <1>7, <2>1, <2>3, <2>4, <2>5
  <1>9. CASE PersistFails
    <2>1. Finally(TRUE) /\ Lose(b) /\ db' = db
      BY <1>2, <1>9 DEF PersistFails
    <2>2. lost' \in Counts /\ \A s \in Subjects : lost'[s] = lost[s] + Of(s, b)
      BY <1>1, <1>3, <2>1, Loses
    <2>3. IsServer(server') /\ server'.queue = q /\ server'.batch = <<>>
      BY <1>4, <2>1
    <2>4. ASSUME NEW s \in Subjects
          PROVE  Of(s, server'.queue) + Of(s, server'.batch) + db'[s] + lost'[s]
                   = Of(s, q) + Of(s, b) + db[s] + lost[s]
      <3>1. PICK o, c, d, l \in Nat : o = Of(s, q) /\ c = Of(s, b) /\ d = db[s] /\ l = lost[s]
        BY <1>3, <1>7, MineFinite DEF Counts
      <3>2. Of(s, server'.queue) = o /\ Of(s, server'.batch) = 0 /\ db'[s] = d /\ lost'[s] = l + c
        BY <2>1, <2>2, <2>3, <3>1, OfEmpty
      <3> QED BY <3>1, <3>2
    <2> QED BY <1>6, <1>7, <2>1, <2>2, <2>3, <2>4
  <1>10. CASE Restart
    <2>1. server' = NewServer /\ Lose(q \o b) /\ db' = db
      BY <1>2, <1>10 DEF Restart
    <2>2. q \o b \in Seq(Event) /\ \A s : Of(s, q \o b) = Of(s, q) + Of(s, b)
      BY <1>3, OfConcat
    <2>3. lost' \in Counts /\ \A s \in Subjects : lost'[s] = lost[s] + (Of(s, q) + Of(s, b))
      BY <1>1, <2>1, <2>2, Loses
    <2>4. IsServer(server') /\ server'.queue = <<>> /\ server'.batch = <<>>
      BY <1>3, <2>1 DEF NewServer, IsServer
    <2>5. ASSUME NEW s \in Subjects
          PROVE  Of(s, server'.queue) + Of(s, server'.batch) + db'[s] + lost'[s]
                   = Of(s, q) + Of(s, b) + db[s] + lost[s]
      <3>1. PICK o, c, d, l \in Nat : o = Of(s, q) /\ c = Of(s, b) /\ d = db[s] /\ l = lost[s]
        BY <1>3, <1>7, MineFinite DEF Counts
      <3>2. /\ Of(s, server'.queue) = 0 /\ Of(s, server'.batch) = 0
            /\ db'[s] = d /\ lost'[s] = l + (o + c)
        BY <2>1, <2>3, <2>4, <3>1, OfEmpty
      <3> QED BY <3>1, <3>2
    <2> QED BY <1>6, <1>7, <2>1, <2>3, <2>4, <2>5
  <1> QED BY <1>8, <1>9, <1>10

LEMMA NextTracking == TrackingInv /\ [Next]_vars => TrackingInv'
  <1> SUFFICES ASSUME TrackingInv, [Next]_vars PROVE TrackingInv'
    OBVIOUS
  <1>1. ASSUME NEW p \in Pages, NEW e \in Event, Track(p, e) PROVE TrackingInv'
    BY <1>1, TrackInv
  <1>2. ASSUME NEW p \in Pages, FlushTimer(p) \/ Hide(p) \/ Unload(p) PROVE TrackingInv'
    BY <1>2, PageInv
  <1>3. ASSUME NEW p \in Pages, PersistBehavior(p) PROVE TrackingInv'
    BY <1>3, PersistInv
  <1>4. CASE Forget
    BY <1>4, ForgetInv
  <1>5. ASSUME NEW b \in Sent, PostFails(b) PROVE TrackingInv'
    BY <1>5, PostFailsInv
  <1>6. ASSUME NEW b \in Sent, IngestEvents(b) PROVE TrackingInv'
    BY <1>6, IngestInv
  <1>7. CASE FlushQueue
    BY <1>7, FlushQueueInv
  <1>8. CASE PersistDeltas \/ PersistFails \/ Restart
    BY <1>8, BatchInv
  <1>9. CASE UNCHANGED vars
    <2>1. UNCHANGED <<page, store, post, server, db, clicks, lost>>
      BY <1>9 DEF vars
    <2>2. Shape'
      BY <2>1 DEF TrackingInv, Shape
    <2>3. \A s \in Subjects : OnPages(s)' = OnPages(s) /\ OnTheWay(s)' = OnTheWay(s)
      BY <2>1, PagesStay, PostStays
    <2>4. EveryClickCountsOnce'
      BY <2>1, <2>3 DEF TrackingInv, EveryClickCountsOnce
    <2> QED BY <2>2, <2>4 DEF TrackingInv
  <1> QED BY <1>1, <1>2, <1>3, <1>4, <1>5, <1>6, <1>7, <1>8, <1>9 DEF Next

\* A click that lib/tracking.ts queued is on its page, on its way, in the memory
\* of TrackingService, in the aggregate tables or lost, in exactly one of them;
\* and no history that a page hydrates from localStorage counts it again.
THEOREM ClicksCountOnce == Spec => []EveryClickCountsOnce
  <1>1. TrackingInv => EveryClickCountsOnce
    BY DEF TrackingInv
  <1> QED BY InitTracking, NextTracking, <1>1, PTL DEF Spec

-----------------------------------------------------------------------------
(* What a click does to the score of its worker. *)

\* A page before and after a click on the card of worker s.
Clicked(pg, new, s, decay) ==
    /\ pg.session[s] \in Nat /\ new.session[s] = pg.session[s] + 1
    /\ 55 * decay * pg.history[s] \in Nat /\ new.history[s] = pg.history[s]
    /\ Recency(pg, s) \in Nat /\ Recency(pg, s) <= 3500 /\ Recency(new, s) = 3500

\* The factors of the score, with the products of the data named.
LEMMA FactorsRise ==
    ASSUME NEW pg, NEW new, NEW s, NEW decay, Clicked(pg, new, s, decay)
    PROVE  /\ Behavior(pg, s, decay) <= Behavior(new, s, decay)
           /\ \A ratings \in Nat :
                 /\ Stability(pg, s, decay, ratings) <= Stability(new, s, decay, ratings)
                 /\ Guard(pg, s, decay, ratings) <= Guard(new, s, decay, ratings)
  <1>0. PICK n, x, r \in Nat :
           /\ n = pg.session[s] /\ x = 55 * decay * pg.history[s] /\ r = Recency(pg, s)
    BY DEF Clicked
  <1>11. /\ pg.session[s] = n /\ new.session[s] = n + 1 /\ r <= 3500
        /\ 55 * decay * pg.history[s] = x /\ 55 * decay * new.history[s] = x
        /\ Recency(pg, s) = r /\ Recency(new, s) = 3500
    BY <1>0 DEF Clicked
  <1>1. Behavior(pg, s, decay) <= Behavior(new, s, decay)
    <2>2. PICK a, b, h : a = AtMost(n, 24) /\ b = AtMost(n + 1, 24) /\ h = AtMost(x, 240000)
      OBVIOUS
    <2>3. a \in Nat /\ b \in Nat /\ h \in Nat /\ a <= b
      BY <2>2 DEF AtMost
    <2>4. r \in Nat /\ r <= 3500 /\ 3500 \in Nat
      BY <1>11
    <2>5. a * r <= b * 3500
      <3>1. \A i, j, k, l \in Nat : i <= j /\ k <= l => i * k <= j * l
        BY ProductMonotone
      <3> QED BY <2>3, <2>4, <3>1
    <2>6. Behavior(pg, s, decay) = 42 * (20 * a * r + 7 * h)
      BY <1>11, <2>2 DEF Behavior
    <2>7. Behavior(new, s, decay) = 42 * (20 * b * 3500 + 7 * h)
      BY <1>11, <2>2 DEF Behavior
    <2>8. PICK c \in Nat : c = a * r
      BY <2>3, <2>4
    <2>9. 20 * a * r = 20 * c
      BY <2>3, <2>4, <2>8
    <2>10. 42 * (20 * c + 7 * h) <= 42 * (20 * b * 3500 + 7 * h)
      BY <2>3, <2>5, <2>8
    <2> QED BY <2>6, <2>7, <2>9, <2>10
  <1>2. Interactions(pg, s, decay) = 10000 * n + x
        /\ Interactions(new, s, decay) = 10000 * (n + 1) + x
    BY <1>11 DEF Interactions
  <1>3. PICK i, j \in Nat : /\ i = Interactions(pg, s, decay)
                            /\ j = Interactions(new, s, decay) /\ i <= j
    BY <1>2
  <1>4. ASSUME NEW ratings \in Nat
        PROVE  /\ Stability(pg, s, decay, ratings) <= Stability(new, s, decay, ratings)
               /\ Guard(pg, s, decay, ratings) <= Guard(new, s, decay, ratings)
    <2>1. PICK k \in Nat : k = AtMost(ratings, 20)
      BY DEF AtMost
    <2>2. PICK u, v \in Int : u = 100000 * k + 11 * i /\ v = 100000 * k + 11 * j /\ u <= v
      BY <1>3
    <2>3. AtMost(u, 1200000) <= AtMost(v, 1200000)
          /\ AtMost(u, 1200000) \in Int /\ AtMost(v, 1200000) \in Int
      BY <2>2 DEF AtMost
    <2>4. /\ Stability(pg, s, decay, ratings) = 45 * 1200000 + 55 * AtMost(u, 1200000)
          /\ Stability(new, s, decay, ratings) = 45 * 1200000 + 55 * AtMost(v, 1200000)
      BY <1>3, <2>1, <2>2 DEF Stability
    <2>5. Stability(pg, s, decay, ratings) <= Stability(new, s, decay, ratings)
      BY <2>3, <2>4
    <2>6. Guard(pg, s, decay, ratings) <= Guard(new, s, decay, ratings)
      BY <1>3 DEF Guard
    <2> QED BY <2>5, <2>6
  <1> QED BY <1>1, <1>4

\* Among the steps, only a click counts one more, and only for its worker.
LEMMA OnlyAClickCounts ==
    ASSUME Shape, Next, NEW p \in Pages, NEW s \in Subjects,
           page'[p].session[s] = page[p].session[s] + 1
    PROVE  \E e \in Event : Track(p, e) /\ ReportedOf(e, s) = 1
  <1>1. /\ IsPage(page[p]) /\ page[p].session[s] \in Nat /\ page[p].session \in Counts
        /\ DOMAIN page = Pages
    BY DEF Shape, IsPage, Counts
  <1>2. page'[p].session[s] # page[p].session[s]
    BY <1>1
  <1>3. page' # page
    BY <1>2
  <1>4. ASSUME NEW q \in Pages, NEW pg, page' = [page EXCEPT ![q] = pg],
               pg.session[s] = page[q].session[s] \/ pg.session[s] = 0
        PROVE  FALSE
    <2>1. page'[p] = IF p = q THEN pg ELSE page[p]
      BY <1>1, <1>4
    <2> QED BY <1>1, <1>2, <1>4, <2>1
  <1>5. ASSUME NEW q \in Pages, NEW e \in Event, Track(q, e)
        PROVE  \E d \in Event : Track(p, d) /\ ReportedOf(d, s) = 1
    <2>1. IsPage(page[q])
      BY DEF Shape
    <2>2. PICK pg, new : /\ pg = page[q]
                         /\ new = Queued(Counted(Hydrated([pg EXCEPT !.index = @ + 1]), e), e)
      OBVIOUS
    <2>3. new.session[s] = pg.session[s] + ReportedOf(e, s)
      BY <2>1, <2>2, TrackedPage DEF Shape
    <2>4. page' = [page EXCEPT ![q] = new]
      BY <1>5, <2>2 DEF Track, TrackEvent
    <2>5. q = p
      BY <1>1, <1>2, <2>4
    <2>6. page'[p] = new
      BY <1>1, <2>4, <2>5
    <2>7. ReportedOf(e, s) = 1
      BY <1>1, <2>2, <2>3, <2>5, <2>6 DEF ReportedOf
    <2> QED BY <1>5, <2>5, <2>7
  <1>6. ASSUME NEW q \in Pages, FlushTimer(q) PROVE FALSE
    <2>1. PICK pg, new : pg = Flushed(page[q]) /\ new = [pg EXCEPT !.timers = pg.timers - 1]
      OBVIOUS
    <2>2. IsPage(pg) /\ pg.session = page[q].session
      BY <2>1, FieldsOf DEF Shape
    <2>3. new.session = pg.session
      BY <2>1, <2>2, FieldsOf
    <2>4. page' = [page EXCEPT ![q] = new]
      BY <1>6, <2>1 DEF FlushTimer
    <2> QED BY <1>4, <2>2, <2>3, <2>4
  <1>7. ASSUME NEW q \in Pages, Hide(q) PROVE FALSE
    <2>1. PICK pg : pg = Flushed(page[q])
      OBVIOUS
    <2>2. pg.session = page[q].session
      BY <2>1, FieldsOf DEF Shape
    <2>3. page' = [page EXCEPT ![q] = pg]
      BY <1>7, <2>1 DEF Hide
    <2> QED BY <1>4, <2>2, <2>3
  <1>8. ASSUME NEW q \in Pages, Unload(q) PROVE FALSE
    <2>1. PICK pg : pg = NewPage
      OBVIOUS
    <2>2. pg.session[s] = 0
      BY <2>1, ZeroCounts DEF NewPage
    <2>3. page' = [page EXCEPT ![q] = pg]
      BY <1>8, <2>1 DEF Unload
    <2> QED BY <1>4, <2>2, <2>3
  <1>9. ASSUME NEW q \in Pages, PersistBehavior(q) PROVE FALSE
    <2>1. PICK pg : pg = [page[q] EXCEPT !.persisting = FALSE]
      OBVIOUS
    <2>2. pg.session = page[q].session
      BY <2>1, FieldsOf DEF Shape
    <2>3. page' = [page EXCEPT ![q] = pg]
      BY <1>9, <2>1 DEF PersistBehavior
    <2> QED BY <1>4, <2>2, <2>3
  <1>10. ASSUME \/ Forget
                \/ \E b \in Sent : PostFails(b) \/ IngestEvents(b)
                \/ FlushQueue \/ PersistDeltas \/ PersistFails \/ Restart
         PROVE  FALSE
    BY <1>3, <1>10
    DEF Forget, PostFails, IngestEvents, FlushQueue, PersistDeltas, PersistFails, Restart
  <1> QED BY <1>5, <1>6, <1>7, <1>8, <1>9, <1>10 DEF Next

LEMMA AggregatesGrow ==
    ASSUME Shape, Next, NEW s \in Subjects
    PROVE  db[s] \in Nat /\ db'[s] \in Nat /\ db[s] <= db'[s]
  <1>1. db \in Counts /\ db[s] \in Nat /\ IsServer(server)
    BY DEF Shape, Counts
  <1>2. CASE UNCHANGED db
    BY <1>1, <1>2
  <1>3. CASE PersistDeltas
    <2>1. PICK b : b = server.batch
      OBVIOUS
    <2>2. b \in Seq(Event) /\ db' = Plus(db, Deltas(b))
      BY <1>1, <1>3, <2>1 DEF IsServer, PersistDeltas
    <2>3. Deltas(b) \in Counts
      BY <2>2, DeltasAre
    <2>4. PICK d : d = Deltas(b)
      OBVIOUS
    <2>5. db'[s] = db[s] + d[s] /\ d[s] \in Nat
      BY <1>1, <2>2, <2>3, <2>4, PlusIs
    <2> QED BY <1>1, <2>5
  <1>4. UNCHANGED db \/ PersistDeltas
    BY DEF Next, Track, FlushTimer, Hide, Unload, PersistBehavior, FlushTrackingQueue, Forget,
           PostFails, IngestEvents, FlushQueue, PersistFails, Restart
  <1> QED BY <1>2, <1>3, <1>4

\* What TrackingInv says of a page is enough for every factor.
LEMMA ClickRaises ==
    ASSUME Shape, NEW p \in Pages, NEW e \in Event, Track(p, e), NEW s \in Subjects,
           ReportedOf(e, s) = 1, page[p].hydrated, NEW decay \in Decays
    PROVE  /\ Behavior(page[p], s, decay) <= Behavior(page'[p], s, decay)
           /\ \A ratings \in Nat :
                 /\ Stability(page[p], s, decay, ratings) <= Stability(page'[p], s, decay, ratings)
                 /\ Guard(page[p], s, decay, ratings) <= Guard(page'[p], s, decay, ratings)
  <1>1. PICK pg, new : /\ pg = page[p]
                       /\ new = Queued(Counted(Hydrated([pg EXCEPT !.index = @ + 1]), e), e)
    OBVIOUS
  <1>2. IsPage(pg) /\ pg.hydrated /\ page'[p] = new
    <2>1. page' = [page EXCEPT ![p] = new]
      BY <1>1 DEF Track, TrackEvent
    <2> QED BY <1>1, <2>1 DEF Shape
  <1>3. /\ new.index = pg.index + 1 /\ new.history = pg.history
        /\ new.session[s] = pg.session[s] + 1 /\ new.last[s] = new.index
    <2>1. /\ new.index = pg.index + 1 /\ (pg.hydrated => new.history = pg.history)
          /\ new.session[s] = pg.session[s] + ReportedOf(e, s)
          /\ new.last[s] = IF ReportedOf(e, s) = 1 THEN new.index ELSE pg.last[s]
      BY <1>1, <1>2, TrackedPage DEF Shape
    <2> QED BY <1>2, <2>1
  <1>4. PICK n, i, l, h \in Nat : /\ n = pg.session[s] /\ i = pg.index /\ l = pg.last[s]
                                 /\ h = pg.history[s] /\ l <= i
    BY <1>2 DEF IsPage, Counts
  <1>5. decay \in Nat
    BY TrackingAssumption
  <1>6. PICK x \in Nat : x = 55 * decay * h
    <2>1. PICK y \in Nat : y = decay * h
      BY <1>4, <1>5
    <2>2. 55 * decay * h = 55 * y /\ 55 * y \in Nat
      BY <1>4, <1>5, <2>1
    <2> QED BY <2>2
  <1>7. Recency(new, s) = 3500
    <2>1. new.last[s] = i + 1 /\ new.index = i + 1
      BY <1>3, <1>4
    <2> QED BY <1>4, <2>1 DEF Recency, AtMost
  <1>8. Recency(pg, s) \in Nat /\ Recency(pg, s) <= 3500
    <2>1. PICK k \in 0 .. 35 : k = AtMost(i - l, 35)
      BY <1>4 DEF AtMost
    <2>2. Recency(pg, s) = IF l = 0 THEN 3500 ELSE 3500 - 45 * k
      BY <1>4, <2>1 DEF Recency
    <2>3. PICK r \in Nat : r = 3500 - 45 * k /\ r <= 3500
      OBVIOUS
    <2> QED BY <2>2, <2>3
  <1>9. /\ pg.session[s] \in Nat /\ new.session[s] = pg.session[s] + 1
        /\ 55 * decay * pg.history[s] \in Nat /\ new.history[s] = pg.history[s]
    BY <1>3, <1>4, <1>6
  <1>10. /\ Behavior(pg, s, decay) <= Behavior(new, s, decay)
         /\ \A ratings \in Nat :
               /\ Stability(pg, s, decay, ratings) <= Stability(new, s, decay, ratings)
               /\ Guard(pg, s, decay, ratings) <= Guard(new, s, decay, ratings)
    <2>1. Clicked(pg, new, s, decay)
      BY <1>7, <1>8, <1>9 DEF Clicked
    <2> QED BY <2>1, FactorsRise, Zenon
  <1> QED BY <1>1, <1>2, <1>10

\* A stamp is the time of some visitor's clock, or none.
LatestType == latest \in [Subjects -> Moments]

LEMMA StampOfABatch ==
    ASSUME NEW s, NEW batch \in Seq(Event), LatestType, s \in Subjects
    PROVE  LastEventAt(s, batch) \in Moments
  <1>1. CASE Mine(s, batch) = {}
    BY <1>1 DEF LastEventAt, LatestType
  <1>2. CASE Mine(s, batch) # {}
    <2>1. PICK n \in Nat : n = Len(batch)
      OBVIOUS
    <2>2. Mine(s, batch) \in SUBSET (1 .. n)
      BY <2>1 DEF Mine
    <2>3. PICK i : i = Max(Mine(s, batch))
      OBVIOUS
    <2>4. i \in Mine(s, batch)
      BY <1>2, <2>2, <2>3, MaxIn
    <2>5. batch[i] \in Event /\ ShouldForward(batch[i])
      BY <2>1, <2>2, <2>4 DEF Mine
    <2>6. batch[i].at \in Stamps
      BY <2>5 DEF Event, ShouldForward, Search
    <2> QED BY <1>2, <2>3, <2>6 DEF LastEventAt, Moments
  <1> QED BY <1>1, <1>2

LEMMA LatestStep ==
    ASSUME Shape, LatestType, [Next]_vars PROVE LatestType'
  <1>1. CASE PersistDeltas
    <2>1. server.batch \in Seq(Event)
      BY DEF Shape, IsServer
    <2>2. \A s \in Subjects : LastEventAt(s, server.batch) \in Moments
      BY <2>1, StampOfABatch
    <2> QED BY <1>1, <2>2 DEF PersistDeltas, LatestType
  <1>2. CASE UNCHANGED latest
    BY <1>2 DEF LatestType
  <1>3. UNCHANGED latest \/ PersistDeltas
    BY DEF Next, Track, FlushTimer, Hide, Unload, PersistBehavior, FlushTrackingQueue, Forget,
           PostFails, IngestEvents, FlushQueue, PersistFails, Restart, vars
  <1> QED BY <1>1, <1>2, <1>3

LEMMA FactorsStep ==
    ASSUME TrackingInv, LatestType, Next, NEW s \in Subjects PROVE FactorsHold(s)
  <1>1. Shape /\ RatingCounts \subseteq Nat
    BY TrackingAssumption DEF TrackingInv
  <1>2. ASSUME NEW p \in Pages, NEW decay \in Decays,
               page'[p].session[s] = page[p].session[s] + 1, page[p].hydrated
        PROVE  /\ Behavior(page[p], s, decay) <= Behavior(page'[p], s, decay)
               /\ \A ratings \in RatingCounts :
                    /\ Stability(page[p], s, decay, ratings)
                         <= Stability(page'[p], s, decay, ratings)
                    /\ Guard(page[p], s, decay, ratings) <= Guard(page'[p], s, decay, ratings)
    <2>1. PICK e \in Event : Track(p, e) /\ ReportedOf(e, s) = 1
      BY <1>1, <1>2, OnlyAClickCounts
    <2> QED BY <1>1, <1>2, <2>1, ClickRaises
  <1>3. db[s] \in Nat /\ db'[s] \in Nat /\ db[s] <= db'[s]
    BY <1>1, AggregatesGrow
  <1>4. ASSUME latest[s] <= latest'[s], NEW decay \in Multipliers
        PROVE  RankBehavior(s, decay) <= RankBehavior(s, decay)'
    <2>1. latest[s] \in Moments /\ latest'[s] \in Moments
      <3>1. LatestType'
        BY <1>1, LatestStep
      <3> QED BY <3>1 DEF LatestType
    <2>2. PICK t, u \in Moments : t = latest[s] /\ u = latest'[s]
      BY <2>1
    <2>3. PICK m, n : m = db[s] /\ n = db'[s]
      OBVIOUS
    <2>4. PICK d, e : d = decay[t] /\ e = decay[u]
      OBVIOUS
    <2>5. d \in Nat /\ e \in Nat /\ d <= e
      <3>1. decay \in [Moments -> Decays] /\ decay[t] <= decay[u]
        BY <1>4, <2>2 DEF Multipliers
      <3>2. Decays \subseteq Nat
        BY TrackingAssumption
      <3> QED BY <2>4, <3>1, <3>2
    <2>6. m * d <= n * e
      <3>1. \A i, j, k, l \in Nat : i <= j /\ k <= l => i * k <= j * l
        BY ProductMonotone
      <3> QED BY <1>3, <2>3, <2>5, <3>1
    <2>7. RankBehavior(s, decay) = 42 * m * d /\ RankBehavior(s, decay)' = 42 * n * e
      BY <2>2, <2>3, <2>4 DEF RankBehavior
    <2>8. PICK x, y \in Nat : x = m * d /\ y = n * e
      BY <1>3, <2>3, <2>5
    <2>9. 42 * m * d = 42 * x /\ 42 * n * e = 42 * y
      BY <1>3, <2>3, <2>5, <2>8
    <2>10. 42 * x <= 42 * y
      BY <2>6, <2>8
    <2> QED BY <2>7, <2>9, <2>10
  <1>5. ASSUME NEW ratings \in RatingCounts
        PROVE  /\ RankStability(s, ratings) <= RankStability(s, ratings)'
               /\ RankGuard(s, ratings) <= RankGuard(s, ratings)'
    <2>1. PICK k \in Nat : k = AtMost(ratings, 20)
      BY <1>1 DEF AtMost
    <2>2. RankStability(s, ratings) <= RankStability(s, ratings)'
      <3>1. PICK u, v \in Int : u = 10 * k + 11 * db[s] /\ v = 10 * k + 11 * db'[s] /\ u <= v
        BY <1>3
      <3>2. AtMost(u, 120) <= AtMost(v, 120) /\ AtMost(u, 120) \in Int /\ AtMost(v, 120) \in Int
        BY <3>1 DEF AtMost
      <3>3. /\ RankStability(s, ratings) = 45 * 120 + 55 * AtMost(u, 120)
            /\ RankStability(s, ratings)' = 45 * 120 + 55 * AtMost(v, 120)
        BY <2>1, <3>1 DEF RankStability
      <3> QED BY <3>2, <3>3
    <2>3. RankGuard(s, ratings) <= RankGuard(s, ratings)'
      BY <1>3 DEF RankGuard
    <2> QED BY <2>2, <2>3
  <1> QED BY <1>2, <1>4, <1>5 DEF FactorsHold

\* The scores of lib/tracking.ts and of listWorkerRanking: on the page where it
\* happens a click lowers no factor, whatever the decay and the ratings, and the
\* factors that the API ranks by fall only with a lastEventAt that moves back,
\* whatever resolveDecayMultiplier makes of it, if it makes no less of a later one.
THEOREM ClicksNeverHurt == Spec => ClickNeverHurts
  <1>1. Init => LatestType
    BY DEF Init, Zero, LatestType, Moments
  <1>2. TrackingInv /\ LatestType /\ [Next]_vars => LatestType'
    BY LatestStep DEF TrackingInv
  <1>3. TrackingInv /\ LatestType /\ [Next]_vars => [\A s \in Subjects : FactorsHold(s)]_vars
    BY FactorsStep
  <1> QED BY InitTracking, NextTracking, <1>1, <1>2, <1>3, PTL DEF Spec, ClickNeverHurts
=============================================================================
