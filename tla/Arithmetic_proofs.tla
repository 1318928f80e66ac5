-------------------------- MODULE Arithmetic_proofs --------------------------
(***************************************************************************)
(* The arithmetic that the other proofs share: what the rounding and the   *)
(* splits of PaymentPolicy guarantee for every amount, and sums over sets. *)
(***************************************************************************)
EXTENDS PaymentPolicy, Functions, FiniteSetTheorems, WellFoundedInduction, TLAPS

\* Math.round of a quotient lies within half a unit of it: the quotient is
\* doubled so that the statement stays in the integers.
LEMMA RoundDivNearest ==
    ASSUME NEW x \in Nat, NEW y \in Nat \ {0}
    PROVE  /\ RoundDiv(x, y) \in Nat
           /\ 2 * (y * RoundDiv(x, y)) <= 2 * x + y
           /\ 2 * x < 2 * (y * RoundDiv(x, y)) + y
<1> DEFINE a == 2 * x + y
           b == 2 * y
           q == a \div b
<1>1. a \in Nat /\ b \in Nat /\ b > 0
  OBVIOUS
<1>2. q \in Nat /\ a = (b * q) + (a % b) /\ a % b >= 0 /\ a % b < b
  BY <1>1, SMTT(30)
<1>3. \A n \in Nat : (2 * y) * n = 2 * (y * n)
  OBVIOUS
<1>4. b * q = 2 * (y * q)
  BY <1>2, <1>3
<1>5. RoundDiv(x, y) = q
  BY DEF RoundDiv
<1>6. y * q \in Nat
  BY <1>2
<1> HIDE DEF q
<1> QED
  BY <1>1, <1>2, <1>4, <1>5, <1>6

\* Products of naturals grow with their factors.
LEMMA ProductMonotone ==
    ASSUME NEW a \in Nat, NEW b \in Nat, NEW c \in Nat, a <= b
    PROVE  /\ c * a \in Nat /\ c * b \in Nat
           /\ c * a <= c * b
<1>1. PICK d \in Nat : b = a + d
  <2>1. b - a \in Nat /\ b = a + (b - a)
    OBVIOUS
  <2> QED
    BY <2>1
<1>2. c * a \in Nat /\ c * d \in Nat
  OBVIOUS
<1>3. c * (a + d) = c * a + c * d
  OBVIOUS
<1> QED
  BY <1>1, <1>2, <1>3

\* The fee never exceeds the charge, and fee and provider share make up the
\* whole of it: no charge loses or invents money in computeSplit.
THEOREM SplitConserves ==
    ASSUME NEW amount \in Nat, NEW bps \in 0..MaxFeeBps
    PROVE  LET s == ComputeSplit(amount, bps)
           IN  /\ s.gross = amount
               /\ s.fee \in 0..amount
               /\ s.net \in 0..amount
               /\ s.fee + s.net = amount
<1>1. bps \in Nat
  BY DEF MaxFeeBps
<1>2. amount * bps \in Nat
  BY <1>1
<1>3. RoundDiv(amount * bps, BasisPoints) \in Nat
  BY <1>2, RoundDivNearest DEF BasisPoints
<1>4. PlatformFee(amount, bps) \in 0..amount
  BY <1>3 DEF PlatformFee, Least
<1> HIDE DEF PlatformFee
<1>5. AtLeast(0, amount) = amount
  BY DEF AtLeast
<1> QED
  BY <1>4, <1>5 DEF ComputeSplit, AtLeast

\* A refund takes back from the platform no more than the refund itself, so
\* the provider's part is never negative.
THEOREM PlatformPartBounded ==
    ASSUME NEW refund \in Nat, NEW total \in Nat \ {0}, NEW fee \in 0..total
    PROVE  PlatformPart(refund, fee, total) \in 0..refund
<1> DEFINE q == RoundDiv(refund * fee, total)
<1>1. refund * fee \in Nat /\ refund * total \in Nat
      /\ refund * fee <= refund * total
  BY ProductMonotone
<1>2. q \in Nat /\ 2 * (total * q) <= 2 * (refund * fee) + total
  BY <1>1, RoundDivNearest
<1>3. PlatformPart(refund, fee, total) = q
  BY DEF PlatformPart
<1> HIDE DEF q
<1>4. q <= refund
  <2> SUFFICES ASSUME refund + 1 <= q PROVE FALSE
    BY <1>2
  <2>1. total * (refund + 1) <= total * q /\ total * q \in Nat
    BY <1>2, ProductMonotone
  <2>2. total * (refund + 1) = refund * total + total
    OBVIOUS
  <2> QED
    BY <2>1, <2>2, <1>1, <1>2
<1> QED
  BY <1>2, <1>3, <1>4

-----------------------------------------------------------------------------
(* Sums over sets, as the community modules fold them.  There              *)
(* is no induction over sets to cite: a smallest set that breaks what a    *)
(* lemma says is found instead, by the order of the naturals.              *)

\* The element that the fold takes from a set.
Pick(s) == CHOOSE x \in s : TRUE

\* What the fold iterates.
Iterates(g, f, S) ==
    g = [s \in SUBSET S |-> IF s = {} THEN 0 ELSE f[Pick(s)] + g[s \ {Pick(s)}]]

\* A function on the subsets of S that adds as the fold does.
Adds(g, f, S) ==
    \A s \in SUBSET S :
        g[s] = IF s = {} THEN 0 ELSE f[Pick(s)] + g[s \ {Pick(s)}]

\* A set of naturals that is not empty has a least element.
LEMMA LeastNat ==
    ASSUME NEW B \in SUBSET Nat, B # {}
    PROVE  \E n \in B : \A m \in B : n <= m
  <1>1. PICK R : /\ IsWellFoundedOn(R, Nat)
                 /\ \A m, n \in Nat : m < n => <<m, n>> \in R
    <2>1. \A m, n \in Nat : m < n => <<m, n>> \in OpToRel(<, Nat)
      BY DEF OpToRel
    <2>2. IsWellFoundedOn(OpToRel(<, Nat), Nat)
      BY NatLessThanWellFounded, Zenon
    <2> QED BY <2>1, <2>2, Zenon
  <1>2. PICK n \in B : \A m \in B : ~(<<m, n>> \in R)
    <2>1. IsWellFoundedOn(R, Nat) /\ B \subseteq Nat /\ B # {}
      BY <1>1
    <2> QED BY <2>1, WFMin
  <1>3. \A m \in B : ~(m < n)
    BY <1>1, <1>2
  <1>4. \A m \in B : n <= m
    BY <1>3
  <1> QED BY <1>4

LEMMA PickIn == ASSUME NEW s, s # {} PROVE Pick(s) \in s
  BY DEF Pick

\* The sets that the fold goes through shrink.
LEMMA Smaller ==
    ASSUME NEW S, IsFiniteSet(S), NEW s \in SUBSET S, s # {}, NEW x \in s
    PROVE  /\ s \ {x} \in SUBSET S
           /\ Cardinality(s) \in Nat /\ Cardinality(s \ {x}) \in Nat
           /\ Cardinality(s \ {x}) < Cardinality(s)
  <1>1. IsFiniteSet(s)
    BY FS_Subset
  <1>2. Cardinality(s) \in Nat
    BY <1>1, FS_CardinalityType
  <1>3. IsFiniteSet(s \ {x}) /\ Cardinality(s \ {x}) = Cardinality(s) - 1
    BY <1>1, FS_RemoveElement
  <1>4. Cardinality(s \ {x}) \in Nat
    BY <1>3, FS_CardinalityType
  <1> QED BY <1>2, <1>3, <1>4

\* What such a function yields depends on what is added alone.
LEMMA AddsUnique ==
    ASSUME NEW S, IsFiniteSet(S), NEW f, NEW e, NEW g, NEW h,
           Adds(g, f, S), Adds(h, e, S),
           \A x \in S : f[x] = e[x]
    PROVE  \A s \in SUBSET S : g[s] = h[s]
  <1> DEFINE B == {n \in Nat : \E s \in SUBSET S : Cardinality(s) = n /\ g[s] # h[s]}
  <1> SUFFICES ASSUME B # {} PROVE FALSE
    <2>1. \A s \in SUBSET S : Cardinality(s) \in Nat
      BY FS_Subset, FS_CardinalityType
    <2> QED BY <2>1
  <1>1. PICK n \in B : \A m \in B : n <= m
    BY LeastNat
  <1>2. PICK s \in SUBSET S : Cardinality(s) = n /\ g[s] # h[s]
    BY <1>1
  <1>3. s # {}
    BY <1>2 DEF Adds
  <1>4. PICK x : x = Pick(s)
    OBVIOUS
  <1>5. x \in s /\ x \in S
    BY <1>3, <1>4, PickIn
  <1>6. g[s \ {x}] # h[s \ {x}]
    <2>1. g[s] = f[x] + g[s \ {x}] /\ h[s] = e[x] + h[s \ {x}]
      BY <1>3, <1>4 DEF Adds
    <2> QED BY <2>1, <1>2, <1>5
  <1>7. /\ s \ {x} \in SUBSET S /\ Cardinality(s \ {x}) \in Nat
        /\ Cardinality(s \ {x}) < n /\ n \in Nat
    BY <1>2, <1>3, <1>5, Smaller
  <1>8. Cardinality(s \ {x}) \in B
    BY <1>6, <1>7
  <1>9. n <= Cardinality(s \ {x})
    BY <1>1, <1>8
  <1> HIDE DEF B
  <1> QED BY <1>7, <1>9

\* Such a function exists, so the fold is one.
LEMMA AddsExists ==
    ASSUME NEW S, IsFiniteSet(S), NEW f
    PROVE  \E g : Iterates(g, f, S)
  <1> DEFINE Up(n) == {s \in SUBSET S : Cardinality(s) <= n}
             Step(g, n) == [s \in Up(n) |->
                         IF s = {} THEN 0 ELSE f[Pick(s)] + g[s \ {Pick(s)}]]
             B == {n \in Nat : ~ \E g : g = Step(g, n)}
  <1>0. \A s \in SUBSET S : Cardinality(s) \in Nat /\ (Cardinality(s) = 0 => s = {})
    BY FS_Subset, FS_CardinalityType, FS_EmptySet
  <1>1. B = {}
    <2> SUFFICES ASSUME B # {} PROVE FALSE
      OBVIOUS
    <2>1. PICK n \in B : \A m \in B : n <= m
      BY LeastNat
    <2>2. n \in Nat /\ ~ \E g : g = Step(g, n)
      BY <2>1
    <2>3. CASE n = 0
      <3> DEFINE g == [s \in Up(0) |-> 0]
      <3>1. \A s \in Up(0) : s = {}
        BY <1>0
      <3>2. g = Step(g, 0)
        BY <3>1
      <3> QED BY <2>2, <2>3, <3>2
    <2>4. CASE n # 0
      <3>1. n - 1 \in Nat /\ ~(n <= n - 1)
        BY <2>2, <2>4
      <3>2. PICK g : g = Step(g, n - 1)
        BY <2>1, <3>1
      <3> DEFINE h == Step(g, n)
      <3>3. ASSUME NEW s \in Up(n), s # {}
            PROVE  h[s \ {Pick(s)}] = g[s \ {Pick(s)}]
        <4>1. PICK t : t = s \ {Pick(s)}
          OBVIOUS
        <4>2. t \in Up(n - 1) /\ t \in Up(n)
          BY <2>2, <3>1, <3>3, <4>1, PickIn, Smaller
        <4>3. h[t] = IF t = {} THEN 0 ELSE f[Pick(t)] + g[t \ {Pick(t)}]
          BY <4>2
        <4>4. g[t] = IF t = {} THEN 0 ELSE f[Pick(t)] + g[t \ {Pick(t)}]
          BY <4>2, <3>2
        <4> QED BY <4>1, <4>3, <4>4
      <3>4. h = Step(h, n)
        BY <3>3
      <3> QED BY <2>2, <3>4
    <2> QED BY <2>3, <2>4
  <1>2. Cardinality(S) \in Nat
    BY FS_CardinalityType
  <1>3. Up(Cardinality(S)) = SUBSET S
    BY <1>0, FS_Subset
  <1>4. PICK g : g = Step(g, Cardinality(S))
    BY <1>1, <1>2
  <1> QED BY <1>3, <1>4 DEF Iterates

\* The fold is one of its iterations, chosen.
LEMMA Chosen ==
    ASSUME NEW S, NEW f, NEW g,
           Iterates(g, f, S)
    PROVE  \E h : /\ SumFunctionOnSet(f, S) = h[S]
                  /\ Iterates(h, f, S)
  <1> DEFINE it == CHOOSE h : Iterates(h, f, S)
  <1>1. SumFunctionOnSet(f, S) = it[S]
    BY DEF SumFunctionOnSet, FoldFunctionOnSet, MapThenFoldSet, Pick, Iterates
  <1>2. Iterates(it, f, S)
    BY Zenon
  <1> HIDE DEF it
  <1> QED BY <1>1, <1>2

LEMMA SumIs ==
    ASSUME NEW S, IsFiniteSet(S), NEW f
    PROVE  \E g : Adds(g, f, S) /\ SumFunctionOnSet(f, S) = g[S]
  <1>0. PICK g : Iterates(g, f, S)
    BY AddsExists
  <1>1. PICK h : /\ SumFunctionOnSet(f, S) = h[S]
                 /\ Iterates(h, f, S)
    BY <1>0, Chosen, Zenon
  <1>2. Adds(h, f, S)
    BY <1>1 DEF Adds, Iterates
  <1> QED BY <1>1, <1>2

\* Adding one more element, whichever the fold picks first.
LEMMA AddsOne ==
    ASSUME NEW S, IsFiniteSet(S), NEW f, NEW g, Adds(g, f, S),
           \A x \in S : f[x] \in Nat
    PROVE  /\ \A s \in SUBSET S : g[s] \in Nat
           /\ \A s \in SUBSET S : \A x \in s : g[s] = g[s \ {x}] + f[x]
  <1>0. \A s \in SUBSET S : Cardinality(s) \in Nat
    BY FS_Subset, FS_CardinalityType
  <1>1. \A s \in SUBSET S : g[s] \in Nat
    <2> DEFINE B == {n \in Nat : \E s \in SUBSET S : Cardinality(s) = n /\ g[s] \notin Nat}
    <2> SUFFICES ASSUME B # {} PROVE FALSE
      BY <1>0
    <2>1. PICK n \in B : \A m \in B : n <= m
      BY LeastNat
    <2>2. PICK s \in SUBSET S : Cardinality(s) = n /\ g[s] \notin Nat
      BY <2>1
    <2>3. s # {}
      <3>1. g[{}] = 0 /\ 0 \in Nat
        BY DEF Adds
      <3> QED BY <2>2, <3>1
    <2>4. PICK x : x = Pick(s)
      OBVIOUS
    <2>5. x \in s /\ x \in S
      BY <2>3, <2>4, PickIn
    <2>6. g[s] = f[x] + g[s \ {x}]
      BY <2>3, <2>4 DEF Adds
    <2>7. /\ s \ {x} \in SUBSET S /\ Cardinality(s \ {x}) \in Nat
          /\ Cardinality(s \ {x}) < n /\ n \in Nat
      BY <2>2, <2>3, <2>5, Smaller
    <2>8. g[s \ {x}] \notin Nat
      <3>1. f[x] \in Nat
        BY <2>5
      <3>2. g[s \ {x}] \in Nat => f[x] + g[s \ {x}] \in Nat
        BY <3>1
      <3> QED BY <2>2, <2>6, <3>2
    <2>9. n <= Cardinality(s \ {x})
      BY <2>1, <2>7, <2>8
    <2> HIDE DEF B
    <2> QED BY <2>7, <2>9
  <1>2. \A s \in SUBSET S : \A x \in s : g[s] = g[s \ {x}] + f[x]
    <2> DEFINE B == {n \in Nat : \E s \in SUBSET S : /\ Cardinality(s) = n
                                     /\ \E x \in s : g[s] # g[s \ {x}] + f[x]}
    <2> SUFFICES ASSUME B # {} PROVE FALSE
      BY <1>0
    <2>1. PICK n \in B : \A m \in B : n <= m
      BY LeastNat
    <2>0. PICK s \in SUBSET S : /\ Cardinality(s) = n
                                /\ \E x \in s : g[s] # g[s \ {x}] + f[x]
      BY <2>1
    <2>2. PICK x \in s : Cardinality(s) = n /\ g[s] # g[s \ {x}] + f[x]
      BY <2>0
    <2>3. PICK c : c = Pick(s)
      OBVIOUS
    <2>4. c \in s /\ g[s] = f[c] + g[s \ {c}]
      BY <2>2, <2>3, PickIn DEF Adds
    <2>5. /\ f[x] \in Nat /\ f[c] \in Nat
          /\ g[s \ {c}] \in Nat /\ g[s \ {x}] \in Nat
          /\ g[(s \ {c}) \ {x}] \in Nat /\ s \ {c} \in SUBSET S /\ s \ {x} \in SUBSET S
      BY <1>1, <2>2, <2>4
    <2>6. c # x
      <3>1. f[x] + g[s \ {x}] = g[s \ {x}] + f[x]
        BY <2>5
      <3> QED BY <2>2, <2>4, <3>1
    <2>7. /\ Cardinality(s \ {c}) \in Nat /\ Cardinality(s \ {c}) < n
          /\ Cardinality(s \ {x}) \in Nat /\ Cardinality(s \ {x}) < n /\ n \in Nat
      BY <2>2, <2>4, Smaller
    <2>8. g[s \ {c}] = g[(s \ {c}) \ {x}] + f[x]
      <3> SUFFICES ASSUME g[s \ {c}] # g[(s \ {c}) \ {x}] + f[x] PROVE FALSE
        OBVIOUS
      <3>1. x \in s \ {c}
        BY <2>2, <2>6
      <3>2. Cardinality(s \ {c}) \in B
        BY <2>5, <2>7, <3>1
      <3>3. n <= Cardinality(s \ {c})
        BY <2>1, <3>2
      <3> HIDE DEF B
      <3> QED BY <2>7, <3>3
    <2>9. g[s \ {x}] = g[(s \ {x}) \ {c}] + f[c]
      <3> SUFFICES ASSUME g[s \ {x}] # g[(s \ {x}) \ {c}] + f[c] PROVE FALSE
        OBVIOUS
      <3>1. c \in s \ {x}
        BY <2>4, <2>6
      <3>2. Cardinality(s \ {x}) \in B
        BY <2>5, <2>7, <3>1
      <3>3. n <= Cardinality(s \ {x})
        BY <2>1, <3>2
      <3> HIDE DEF B
      <3> QED BY <2>7, <3>3
    <2>10. (s \ {x}) \ {c} = (s \ {c}) \ {x}
      OBVIOUS
    <2>11. PICK a, b, d : /\ a = f[x] /\ b = f[c]
                          /\ d = g[(s \ {c}) \ {x}]
      OBVIOUS
    <2>12. a \in Nat /\ b \in Nat /\ d \in Nat
      BY <2>5, <2>11
    <2>13. g[s] = b + (d + a) /\ g[s \ {x}] = d + b
      BY <2>4, <2>8, <2>9, <2>10, <2>11
    <2>14. b + (d + a) = (d + b) + a
      BY <2>12
    <2> QED BY <2>2, <2>11, <2>13, <2>14
  <1> QED BY <1>1, <1>2

\* The sum depends on what the function yields on the set alone.
LEMMA SumCongruent ==
    ASSUME NEW S, IsFiniteSet(S), NEW f, NEW e,
           \A x \in S : f[x] = e[x]
    PROVE  SumFunctionOnSet(f, S) = SumFunctionOnSet(e, S)
  <1>1. PICK g : Adds(g, f, S) /\ SumFunctionOnSet(f, S) = g[S]
    BY SumIs
  <1>2. PICK h : Adds(h, e, S) /\ SumFunctionOnSet(e, S) = h[S]
    BY SumIs
  <1> QED BY <1>1, <1>2, AddsUnique

LEMMA SumEmpty == ASSUME NEW f PROVE SumFunctionOnSet(f, {}) = 0
  <1>1. PICK g : Adds(g, f, {}) /\ SumFunctionOnSet(f, {}) = g[{}]
    BY SumIs, FS_EmptySet
  <1> QED BY <1>1 DEF Adds

\* A sum of naturals is a natural, and one element more adds its value.
LEMMA SumAdd ==
    ASSUME NEW S, IsFiniteSet(S), NEW f, \A x \in S : f[x] \in Nat
    PROVE  /\ SumFunctionOnSet(f, S) \in Nat
           /\ \A x \in S :
                 SumFunctionOnSet(f, S) = SumFunctionOnSet(f, S \ {x}) + f[x]
  <1>1. PICK g : Adds(g, f, S) /\ SumFunctionOnSet(f, S) = g[S]
    BY SumIs
  <1>2. ASSUME NEW x \in S PROVE SumFunctionOnSet(f, S \ {x}) = g[S \ {x}]
    <2>1. PICK T, e : T = S \ {x} /\ e = f
      OBVIOUS
    <2>2. IsFiniteSet(T) /\ Adds(g, f, T)
      BY <1>1, <2>1, FS_RemoveElement DEF Adds
    <2>3. PICK h : Adds(h, e, T) /\ SumFunctionOnSet(e, T) = h[T]
      BY <2>2, SumIs
    <2>4. \A y \in T : f[y] = e[y]
      BY <2>1
    <2>5. g[T] = h[T]
      BY <2>2, <2>3, <2>4, AddsUnique
    <2> QED BY <2>1, <2>3, <2>5
  <1>3. /\ \A s \in SUBSET S : g[s] \in Nat
        /\ \A s \in SUBSET S : \A x \in s : g[s] = g[s \ {x}] + f[x]
    <2>1. \A y \in S : f[y] \in Nat
      OBVIOUS
    <2> QED BY <1>1, <2>1, AddsOne
  <1>4. S \in SUBSET S
    OBVIOUS
  <1> QED BY <1>1, <1>2, <1>3, <1>4

\* A sum of nothing but zeros.
LEMMA SumZero ==
    ASSUME NEW S, IsFiniteSet(S), NEW f, \A x \in S : f[x] = 0
    PROVE  SumFunctionOnSet(f, S) = 0
  <1>1. PICK g : Adds(g, f, S) /\ SumFunctionOnSet(f, S) = g[S]
    BY SumIs
  <1> DEFINE B == {n \in Nat : \E s \in SUBSET S : Cardinality(s) = n /\ g[s] # 0}
  <1>2. B = {}
    <2> SUFFICES ASSUME B # {} PROVE FALSE
      OBVIOUS
    <2>1. PICK n \in B : \A m \in B : n <= m
      BY LeastNat
    <2>2. PICK s \in SUBSET S : Cardinality(s) = n /\ g[s] # 0
      BY <2>1
    <2>3. s # {}
      BY <1>1, <2>2 DEF Adds
    <2>4. PICK x : x = Pick(s)
      OBVIOUS
    <2>5. x \in s /\ f[x] = 0
      BY <2>3, <2>4, PickIn
    <2>6. g[s] = 0 + g[s \ {x}]
      BY <1>1, <2>3, <2>4, <2>5 DEF Adds
    <2>7. /\ s \ {x} \in SUBSET S /\ Cardinality(s \ {x}) \in Nat
          /\ Cardinality(s \ {x}) < n /\ n \in Nat
      BY <2>2, <2>3, <2>5, Smaller
    <2>8. g[s \ {x}] # 0
      BY <2>2, <2>6
    <2>9. n <= Cardinality(s \ {x})
      BY <2>1, <2>7, <2>8
    <2> HIDE DEF B
    <2> QED BY <2>7, <2>9
  <1>3. Cardinality(S) \in Nat
    BY FS_CardinalityType
  <1> QED BY <1>1, <1>2, <1>3
=============================================================================
