----------------------- MODULE HealthSchedulerProofs -----------------------
(***************************************************************************)
(* Theorems of HealthScheduler: the order of the checks, what a scan       *)
(* skips, and how runs of the loop end, for any checks and dependencies,   *)
(* any callers and any number of generations and changes.                  *)
(***************************************************************************)
EXTENDS HealthScheduler, FiniteSetTheorems, TLAPS

\* Every set of numbers has a least element: the induction of this module.
LEMMA LeastOf ==
  ASSUME NEW T \in SUBSET Nat, T # {}
  PROVE  \E m \in T : \A n \in T : m <= n
<1> DEFINE Below == {0..n : n \in T}
<1>1. Below \subseteq FiniteSubsetsOf(Nat)
  <2>1. ASSUME NEW n \in T PROVE 0..n \in SUBSET Nat /\ IsFiniteSet(0..n)
    <3>1. IsFiniteSet(0..n)
      BY FS_Interval
    <3> QED
      BY <3>1
  <2> QED
    BY <2>1 DEF FiniteSubsetsOf
<1>2. Below # {}
  OBVIOUS
<1>3. IsWellFoundedOn(StrictSubsetOrdering(Nat), FiniteSubsetsOf(Nat))
  BY FS_StrictSubsetOrderingWellFounded
<1> HIDE DEF Below
<1>4. PICK b \in Below : \A c \in Below : ~ (<<c, b>> \in StrictSubsetOrdering(Nat))
  BY <1>1, <1>2, <1>3, WFMin, Zenon
<1>5. PICK m \in T : b = 0..m
  BY <1>4 DEF Below
<1>6. ASSUME NEW n \in T PROVE m <= n
  <2>1. 0..n \in Below
    BY DEF Below
  <2>2. ~ (0..n \subseteq 0..m /\ 0..n # 0..m)
    <3>1. 0..n \in SUBSET Nat /\ 0..m \in SUBSET Nat
      OBVIOUS
    <3>2. 0..n \subseteq 0..m /\ 0..n # 0..m
          => <<0..n, 0..m>> \in StrictSubsetOrdering(Nat)
      BY <3>1, Zenon DEF StrictSubsetOrdering
    <3> QED
      BY <1>4, <1>5, <2>1, <3>2
  <2>3. n \in Nat /\ m \in Nat
    OBVIOUS
  <2>4. n < m => 0..n \subseteq 0..m /\ m \in 0..m /\ m \notin 0..n
    BY <2>3
  <2> QED
    BY <2>2, <2>3, <2>4
<1> QED
  BY <1>6

-----------------------------------------------------------------------------
\* Kahn's algorithm is a function defined in terms of itself; such a function exists, by a
\* least number of rounds for which it would not, so Kahn is one.
Unrolled(S, m, f) ==
    f = [n \in 0..m |-> IF n = 0 THEN Ready(S) ELSE UNION {Round(st) : st \in f[n - 1]}]

\* A function that does m rounds of the loop exists.
LEMMA Unrolls ==
  ASSUME NEW S, NEW m \in Nat
  PROVE  \E f : Unrolled(S, m, f)
<1> DEFINE T == {n \in Nat : ~ \E f : Unrolled(S, n, f)}
<1>1. SUFFICES ASSUME T # {} PROVE FALSE
  OBVIOUS
<1>2. PICK n \in T : \A k \in T : n <= k
  BY <1>1, LeastOf
<1>3. ASSUME n = 0 PROVE FALSE
  <2> DEFINE f == [k \in 0..0 |-> Ready(S)]
  <2>1. Unrolled(S, 0, f)
    BY DEF Unrolled
  <2> QED
    BY <1>3, <2>1
<1>4. ASSUME n # 0 PROVE FALSE
  <2>1. n - 1 \in Nat /\ n - 1 \notin T
    BY <1>2, <1>4
  <2>2. PICK g : Unrolled(S, n - 1, g)
    BY <2>1
  <2> DEFINE f == [k \in 0..n |-> IF k = n THEN UNION {Round(st) : st \in g[n - 1]} ELSE g[k]]
  <2>3. ASSUME NEW k \in 0..n
        PROVE  f[k] = IF k = 0 THEN Ready(S) ELSE UNION {Round(st) : st \in f[k - 1]}
    <3>1. k # n => k \in 0..(n - 1)
      BY <2>1
    <3>2. k # 0 => k - 1 \in 0..(n - 1) /\ k - 1 # n /\ k - 1 \in 0..n
      BY <2>1
    <3>3. \A j \in 0..(n - 1) :
             g[j] = IF j = 0 THEN Ready(S) ELSE UNION {Round(st) : st \in g[j - 1]}
      BY <2>2 DEF Unrolled
    <3>4. k # 0 => f[k - 1] = g[k - 1]
      BY <3>2
    <3>5. CASE k = n
      BY <1>4, <3>4, <3>5
    <3>6. CASE k # n
      BY <3>1, <3>3, <3>4, <3>6
    <3> QED
      BY <3>5, <3>6
  <2>4. f = [k \in 0..n |-> IF k = 0 THEN Ready(S) ELSE UNION {Round(st) : st \in f[k - 1]}]
    BY <2>3
  <2>5. Unrolled(S, n, f)
    BY <2>4 DEF Unrolled
  <2> QED
    BY <2>5
<1> QED
  BY <1>3, <1>4

\* Kahn(S) is what its definition says it is.
LEMMA KahnUnrolls ==
  ASSUME NEW S, Cardinality(S) \in Nat
  PROVE  Unrolled(S, Cardinality(S), Kahn(S))
<1>1. \E f : Unrolled(S, Cardinality(S), f)
  BY Unrolls
<1>2. Kahn(S) = CHOOSE f : Unrolled(S, Cardinality(S), f)
  BY DEF Kahn, Unrolled
<1> QED
  BY <1>1, <1>2

-----------------------------------------------------------------------------
\* Sequences without repetition.
Distinct(s) == \A i, j \in DOMAIN s : s[i] = s[j] => i = j

\* Any order in which a map can be iterated lists its keys once each.
LEMMA Listed ==
  ASSUME NEW F, IsFiniteSet(F), NEW f \in Orders(F)
  PROVE  f \in Seq(F) /\ Range(f) = F /\ Distinct(f)
<1>1. Cardinality(F) \in Nat
  BY FS_CardinalityType
<1>2. f \in [1..Cardinality(F) -> F] /\ Range(f) = F
  BY DEF Orders
<1>3. f \in Seq(F)
  BY <1>1, <1>2
<1>4. IsFiniteSet(1..Cardinality(F)) /\ Cardinality(1..Cardinality(F)) = Cardinality(F)
  BY <1>1, FS_Interval
<1>5. \A y \in F : \E i \in 1..Cardinality(F) : f[i] = y
  BY <1>2 DEF Range
<1>6. f \in Surjection(1..Cardinality(F), F)
  BY <1>2, <1>5 DEF Surjection
<1>7. f \in Injection(1..Cardinality(F), F)
  BY <1>4, <1>6, FS_SurjSameCardinalityImpliesInj
<1>8. Distinct(f)
  BY <1>2, <1>7 DEF Injection, IsInjective, Distinct
<1> QED
  BY <1>2, <1>3, <1>8

\* A sequence over a set is one over a larger set.
LEMMA Wider ==
  ASSUME NEW F, NEW S, F \subseteq S, NEW f \in Seq(F)
  PROVE  f \in Seq(S)
OBVIOUS

\* Appending what is not there yet.
LEMMA Appended ==
  ASSUME NEW S, NEW s \in Seq(S), NEW x \in S, Distinct(s), x \notin Range(s)
  PROVE  /\ Append(s, x) \in Seq(S)
         /\ Range(Append(s, x)) = Range(s) \cup {x}
         /\ Distinct(Append(s, x))
<1> DEFINE t == Append(s, x)
<1>1. t \in Seq(S) /\ Len(t) = Len(s) + 1 /\ t[Len(s) + 1] = x
      /\ \A i \in 1..Len(s) : t[i] = s[i]
  OBVIOUS
<1>2. DOMAIN s = 1..Len(s) /\ DOMAIN t = 1..(Len(s) + 1) /\ Len(s) \in Nat
  BY <1>1
<1> HIDE DEF t
<1>3. \A i \in 1..(Len(s) + 1) : i \in 1..Len(s) \/ i = Len(s) + 1
  BY <1>2
<1>6. \A i \in 1..Len(s) : i \in 1..(Len(s) + 1)
  BY <1>2
<1>7. Len(s) + 1 \in 1..(Len(s) + 1)
  BY <1>2
<1>4. Range(t) = Range(s) \cup {x}
  BY <1>1, <1>2, <1>3, <1>6, <1>7 DEF Range
<1>5. Distinct(t)
  <2>1. \A i \in DOMAIN s : s[i] # x
    BY DEF Range
  <2> QED
    BY <1>1, <1>2, <1>3, <2>1 DEF Distinct
<1> QED
  BY <1>1, <1>4, <1>5 DEF t

\* Taking the first element off.
LEMMA Behead ==
  ASSUME NEW S, NEW q \in Seq(S), q # <<>>, Distinct(q)
  PROVE  /\ Head(q) \in S /\ Tail(q) \in Seq(S)
         /\ Range(q) = {Head(q)} \cup Range(Tail(q))
         /\ Distinct(Tail(q)) /\ Head(q) \notin Range(Tail(q))
<1> DEFINE t == Tail(q)
<1>1. t \in Seq(S) /\ Len(t) = Len(q) - 1 /\ Len(q) \in Nat /\ Len(q) > 0
      /\ \A i \in 1..(Len(q) - 1) : t[i] = q[i + 1]
  OBVIOUS
<1>2. DOMAIN q = 1..Len(q) /\ DOMAIN t = 1..(Len(q) - 1) /\ Head(q) = q[1] /\ q[1] \in S
  BY <1>1
<1> HIDE DEF t
<1>3. \A i \in 1..Len(q) : i = 1 \/ (i - 1 \in 1..(Len(q) - 1) /\ q[i] = t[i - 1])
  <2> TAKE i \in 1..Len(q)
  <2>1. i = 1 \/ (i - 1 \in 1..(Len(q) - 1) /\ (i - 1) + 1 = i)
    BY <1>1
  <2> QED
    BY <1>1, <2>1
<1>4. \A i \in 1..(Len(q) - 1) : i + 1 \in 1..Len(q) /\ i + 1 # 1
  BY <1>1
<1>5. 1 \in 1..Len(q)
  BY <1>1
<1>6. Range(q) = {Head(q)} \cup Range(t)
  <2>1. Range(q) \subseteq {Head(q)} \cup Range(t)
    BY <1>2, <1>3 DEF Range
  <2>2. Head(q) \in Range(q)
    BY <1>2, <1>5 DEF Range
  <2>3. Range(t) \subseteq Range(q)
    BY <1>1, <1>2, <1>4 DEF Range
  <2> QED
    BY <2>1, <2>2, <2>3
<1>7. Distinct(t)
  <2> SUFFICES ASSUME NEW i \in 1..(Len(q) - 1), NEW j \in 1..(Len(q) - 1), t[i] = t[j]
               PROVE  i = j
    BY <1>2 DEF Distinct
  <2>1. q[i + 1] = q[j + 1]
    BY <1>1
  <2>2. i + 1 = j + 1
    BY <1>2, <1>4, <2>1 DEF Distinct
  <2> QED
    BY <2>2
<1>8. Head(q) \notin Range(t)
  BY <1>1, <1>2, <1>4, <1>5 DEF Range, Distinct
<1> QED
  BY <1>1, <1>2, <1>6, <1>7, <1>8 DEF t

\* Appending a sequence of other elements.
LEMMA Joined ==
  ASSUME NEW S, NEW p \in Seq(S), NEW f \in Seq(S), Distinct(p), Distinct(f),
         Range(p) \cap Range(f) = {}
  PROVE  /\ p \o f \in Seq(S)
         /\ Range(p \o f) = Range(p) \cup Range(f)
         /\ Distinct(p \o f)
<1> DEFINE t == p \o f
<1>1. t \in Seq(S) /\ Len(t) = Len(p) + Len(f) /\ Len(p) \in Nat /\ Len(f) \in Nat
      /\ \A i \in 1..(Len(p) + Len(f)) : t[i] = IF i <= Len(p) THEN p[i] ELSE f[i - Len(p)]
  OBVIOUS
<1>2. DOMAIN p = 1..Len(p) /\ DOMAIN f = 1..Len(f) /\ DOMAIN t = 1..(Len(p) + Len(f))
  BY <1>1
<1> HIDE DEF t
<1>3. \A i \in 1..Len(p) : i \in 1..(Len(p) + Len(f)) /\ t[i] = p[i]
  BY <1>1
<1>4. \A i \in 1..Len(f) : Len(p) + i \in 1..(Len(p) + Len(f)) /\ t[Len(p) + i] = f[i]
  <2> TAKE i \in 1..Len(f)
  <2>1. Len(p) + i \in 1..(Len(p) + Len(f)) /\ ~(Len(p) + i <= Len(p)) /\ (Len(p) + i) - Len(p) = i
    BY <1>1
  <2> QED
    BY <1>1, <2>1
<1>5. \A i \in 1..(Len(p) + Len(f)) :
         \/ i \in 1..Len(p) /\ t[i] = p[i]
         \/ \E k \in 1..Len(f) : i = Len(p) + k /\ t[i] = f[k]
  <2> TAKE i \in 1..(Len(p) + Len(f))
  <2>1. CASE i <= Len(p)
    BY <1>1, <2>1
  <2>2. CASE ~(i <= Len(p))
    <3>1. i - Len(p) \in 1..Len(f) /\ i = Len(p) + (i - Len(p))
      BY <1>1, <2>2
    <3>2. t[i] = f[i - Len(p)]
      BY <1>1, <2>2
    <3> QED
      BY <3>1, <3>2
  <2> QED
    BY <2>1, <2>2
<1>6. Range(t) = Range(p) \cup Range(f)
  <2>1. Range(t) \subseteq Range(p) \cup Range(f)
    BY <1>2, <1>5 DEF Range
  <2>2. Range(p) \subseteq Range(t)
    BY <1>2, <1>3 DEF Range
  <2>3. Range(f) \subseteq Range(t)
    BY <1>2, <1>4 DEF Range
  <2> QED
    BY <2>1, <2>2, <2>3
<1>7. Distinct(t)
  <2> SUFFICES ASSUME NEW i \in DOMAIN t, NEW j \in DOMAIN t, t[i] = t[j] PROVE i = j
    BY DEF Distinct
  <2>1. \A k \in 1..Len(p) : \A l \in 1..Len(f) : p[k] # f[l]
    BY <1>2 DEF Range
  <2>2. CASE i \in 1..Len(p) /\ t[i] = p[i]
    <3>1. j \in 1..Len(p) /\ t[j] = p[j]
      BY <1>2, <1>5, <2>1, <2>2
    <3> QED
      BY <1>2, <2>2, <3>1 DEF Distinct
  <2>3. CASE \E k \in 1..Len(f) : i = Len(p) + k /\ t[i] = f[k]
    <3>1. PICK k \in 1..Len(f) : i = Len(p) + k /\ t[i] = f[k]
      BY <2>3
    <3>2. ~(j \in 1..Len(p) /\ t[j] = p[j])
      BY <2>1, <3>1
    <3>3. PICK l \in 1..Len(f) : j = Len(p) + l /\ t[j] = f[l]
      BY <1>2, <1>5, <3>2
    <3>4. k = l
      BY <1>2, <3>1, <3>3 DEF Distinct
    <3> QED
      BY <3>1, <3>3, <3>4
  <2> QED
    BY <1>2, <1>5, <2>2, <2>3
<1> QED
  BY <1>1, <1>6, <1>7 DEF t
-----------------------------------------------------------------------------
\* What Kahn's algorithm keeps.  Missing: the dependencies of x, among the checks at hand,
\* that are not sorted yet.  Grounded: each check is sorted after all of its own.
Missing(S, s, x) == (dependsOn[x] \cap S) \ Range(s)

Grounded(S, s) ==
    \A i \in DOMAIN s : \A y \in dependsOn[s[i]] \cap S : \E k \in 1..(i - 1) : s[k] = y

\* The queue holds exactly the checks that miss nothing and are not sorted yet, and
\* degree counts what a check misses.
KahnInv(S, st) ==
    /\ st.queue \in Seq(S) /\ Distinct(st.queue)
    /\ st.sorted \in Seq(S) /\ Distinct(st.sorted)
    /\ Range(st.queue) \cap Range(st.sorted) = {}
    /\ DOMAIN st.degree = S
    /\ \A x \in S : st.degree[x] = Cardinality(Missing(S, st.sorted, x))
    /\ \A x \in S : st.degree[x] = 0 <=> x \in Range(st.queue) \/ x \in Range(st.sorted)
    /\ Grounded(S, st.sorted)

\* The number of missing dependencies is one, and 0 only if none is missing.
LEMMA MissingCounts ==
  ASSUME NEW S, IsFiniteSet(S), NEW s, NEW x
  PROVE  /\ IsFiniteSet(Missing(S, s, x)) /\ Cardinality(Missing(S, s, x)) \in Nat
         /\ Cardinality(Missing(S, s, x)) = 0 <=> Missing(S, s, x) = {}
<1>1. Missing(S, s, x) \subseteq S
  BY DEF Missing
<1>2. IsFiniteSet(Missing(S, s, x))
  BY <1>1, FS_Subset
<1> QED
  BY <1>2, FS_CardinalityType, FS_EmptySet

\* It holds before the loop.
LEMMA ReadyInv ==
  ASSUME NEW S, IsFiniteSet(S), NEW st \in Ready(S)
  PROVE  KahnInv(S, st) /\ Len(st.sorted) = 0
<1> DEFINE Free == {x \in S : InDegree(S)[x] = 0}
<1>1. IsFiniteSet(Free)
  BY FS_Subset
<1>2. PICK q \in Orders(Free) : st = [queue |-> q, degree |-> InDegree(S), sorted |-> <<>>]
  BY DEF Ready
<1>3. st.queue = q /\ st.degree = InDegree(S) /\ st.sorted = <<>>
  BY <1>2
<1>4. q \in Seq(Free) /\ Range(q) = Free /\ Distinct(q)
  BY <1>1, Listed
<1>5. q \in Seq(S)
  BY <1>4
<1>6. Range(<<>>) = {} /\ Distinct(<<>>) /\ <<>> \in Seq(S) /\ Grounded(S, <<>>)
  BY DEF Range, Distinct, Grounded
<1>7. \A x \in S : InDegree(S)[x] = Cardinality(Missing(S, <<>>, x))
  BY <1>6 DEF InDegree, Missing
<1>8. DOMAIN InDegree(S) = S
  BY DEF InDegree
<1>9. \A x \in S : InDegree(S)[x] = 0 <=> x \in Range(q) \/ x \in Range(<<>>)
  BY <1>4, <1>6
<1> QED
  BY <1>3, <1>4, <1>5, <1>6, <1>7, <1>8, <1>9 DEF KahnInv

\* A round of the loop keeps it and sorts one check more.
LEMMA RoundInv ==
  ASSUME NEW S, IsFiniteSet(S), NEW st, KahnInv(S, st), st.queue # <<>>, NEW nst \in Round(st)
  PROVE  KahnInv(S, nst) /\ Len(nst.sorted) = Len(st.sorted) + 1
<1> DEFINE x == Head(st.queue)
           next == {y \in DOMAIN st.degree : x \in dependsOn[y]}
           less == [y \in DOMAIN st.degree |->
                       IF y \in next THEN st.degree[y] - 1 ELSE st.degree[y]]
           free == {y \in next : less[y] = 0}
           longer == Append(st.sorted, x)
           q == Tail(st.queue)
<1>1. PICK f \in Orders(free) : nst = [queue |-> q \o f, degree |-> less, sorted |-> longer]
  BY DEF Round
<1>2. nst.queue = q \o f /\ nst.degree = less /\ nst.sorted = longer
  BY <1>1
<1>3. /\ st.queue \in Seq(S) /\ Distinct(st.queue)
      /\ st.sorted \in Seq(S) /\ Distinct(st.sorted)
      /\ Range(st.queue) \cap Range(st.sorted) = {}
      /\ DOMAIN st.degree = S
      /\ Grounded(S, st.sorted)
  BY DEF KahnInv
<1>4. \A y \in S : st.degree[y] = Cardinality(Missing(S, st.sorted, y))
  BY DEF KahnInv
<1>5. \A y \in S : st.degree[y] = 0 <=> y \in Range(st.queue) \/ y \in Range(st.sorted)
  BY DEF KahnInv
<1>6. /\ x \in S /\ q \in Seq(S)
      /\ Range(st.queue) = {x} \cup Range(q)
      /\ Distinct(q) /\ x \notin Range(q)
  BY <1>3, Behead
<1>7. x \notin Range(st.sorted)
  BY <1>3, <1>6
<1>8. /\ longer \in Seq(S) /\ Range(longer) = Range(st.sorted) \cup {x} /\ Distinct(longer)
  BY <1>3, <1>6, <1>7, Appended
<1> HIDE DEF x, q
<1>9. \A y \in S : Missing(S, longer, y) = Missing(S, st.sorted, y) \ {x}
  BY <1>8 DEF Missing
<1>10. \A y \in S : y \in next <=> x \in Missing(S, st.sorted, y)
  BY <1>3, <1>6, <1>7 DEF Missing
<1> HIDE DEF longer, next
<1>11. next \subseteq S
  BY <1>3 DEF next
<1>12. ASSUME NEW y \in S PROVE less[y] = Cardinality(Missing(S, longer, y))
  <2>1. /\ IsFiniteSet(Missing(S, st.sorted, y))
        /\ st.degree[y] = Cardinality(Missing(S, st.sorted, y))
    BY <1>4, MissingCounts
  <2>2. less[y] = IF y \in next THEN st.degree[y] - 1 ELSE st.degree[y]
    BY <1>3
  <2>3. CASE y \in next
    <3>1. Cardinality(Missing(S, st.sorted, y) \ {x}) = Cardinality(Missing(S, st.sorted, y)) - 1
      BY <1>10, <2>1, <2>3, FS_RemoveElement
    <3> QED
      BY <1>9, <2>1, <2>2, <2>3, <3>1
  <2>4. CASE y \notin next
    <3>1. Missing(S, longer, y) = Missing(S, st.sorted, y)
      BY <1>9, <1>10, <2>4
    <3> QED
      BY <2>1, <2>2, <2>4, <3>1
  <2> QED
    BY <2>3, <2>4
<1>13. DOMAIN less = S
  BY <1>3
<1>14. free \subseteq S
  BY <1>11
<1>15. IsFiniteSet(free)
  BY <1>14, FS_Subset
<1>16. f \in Seq(free) /\ Range(f) = free /\ Distinct(f)
  BY <1>15, Listed
<1>17. f \in Seq(S)
  BY <1>14, <1>16, Wider
<1>18. \A y \in next : st.degree[y] # 0
  <2> TAKE y \in next
  <2>1. Missing(S, st.sorted, y) # {}
    BY <1>10, <1>11
  <2> QED
    BY <1>4, <1>11, <2>1, MissingCounts
<1>19. \A y \in S : less[y] = IF y \in next THEN st.degree[y] - 1 ELSE st.degree[y]
  BY <1>3
<1>20. \A y \in S : y \in free <=> y \in next /\ less[y] = 0
  OBVIOUS
<1> HIDE DEF less, free
<1>21. \A y \in free : y \notin Range(st.queue) /\ y \notin Range(st.sorted) /\ y \in S
  BY <1>5, <1>14, <1>18, <1>20
<1>22. /\ q \o f \in Seq(S) /\ Range(q \o f) = Range(q) \cup Range(f) /\ Distinct(q \o f)
  <2>1. Range(q) \cap Range(f) = {}
    BY <1>6, <1>16, <1>21
  <2> QED
    BY <1>6, <1>16, <1>17, <2>1, Joined
<1>23. Range(q \o f) \cap Range(longer) = {}
  BY <1>3, <1>6, <1>8, <1>16, <1>21, <1>22
<1>24. \A y \in S : less[y] = 0 <=> y \in Range(q \o f) \/ y \in Range(longer)
  <2> TAKE y \in S
  <2>1. y \in Range(q \o f) \/ y \in Range(longer)
        <=> y \in free \/ y \in Range(st.queue) \/ y \in Range(st.sorted)
    BY <1>6, <1>8, <1>16, <1>22
  <2>2. CASE y \in next
    <3>1. y \notin Range(st.queue) /\ y \notin Range(st.sorted)
      BY <1>5, <1>18, <2>2
    <3> QED
      BY <1>20, <2>1, <2>2, <3>1
  <2>3. CASE y \notin next
    <3>1. less[y] = st.degree[y] /\ y \notin free
      BY <1>19, <1>20, <2>3
    <3> QED
      BY <1>5, <2>1, <3>1
  <2> QED
    BY <2>2, <2>3
<1>25. Len(longer) = Len(st.sorted) + 1 /\ longer[Len(st.sorted) + 1] = x
       /\ (\A i \in 1..Len(st.sorted) : longer[i] = st.sorted[i])
       /\ Len(st.sorted) \in Nat
       /\ DOMAIN st.sorted = 1..Len(st.sorted) /\ DOMAIN longer = 1..(Len(st.sorted) + 1)
  BY <1>3, <1>6 DEF longer
<1>26. Grounded(S, longer)
  <2> SUFFICES ASSUME NEW i \in 1..(Len(st.sorted) + 1), NEW y \in dependsOn[longer[i]] \cap S
               PROVE  \E k \in 1..(i - 1) : longer[k] = y
    BY <1>25 DEF Grounded
  <2>1. CASE i \in 1..Len(st.sorted)
    <3>1. y \in dependsOn[st.sorted[i]] \cap S
      BY <1>25, <2>1
    <3>2. PICK k \in 1..(i - 1) : st.sorted[k] = y
      BY <1>3, <1>25, <2>1, <3>1 DEF Grounded
    <3>3. k \in 1..Len(st.sorted)
      BY <1>25, <2>1
    <3> QED
      BY <1>25, <3>2, <3>3
  <2>2. CASE i = Len(st.sorted) + 1
    <3>1. st.degree[x] = 0
      BY <1>5, <1>6
    <3>2. Missing(S, st.sorted, x) = {}
      BY <1>4, <1>6, <3>1, MissingCounts
    <3>3. y \in Range(st.sorted)
      BY <1>25, <2>2, <3>2 DEF Missing
    <3>4. PICK k \in 1..Len(st.sorted) : st.sorted[k] = y
      BY <1>25, <3>3 DEF Range
    <3>5. k \in 1..(i - 1)
      BY <1>25, <2>2
    <3> QED
      BY <1>25, <3>4, <3>5
  <2> QED
    BY <1>25, <2>1, <2>2
<1> QED
  BY <1>2, <1>8, <1>12, <1>13, <1>22, <1>23, <1>24, <1>25, <1>26 DEF KahnInv
\* A sequence without repetition is as long as its set is large.
LEMMA RangeCounts ==
  ASSUME NEW S, IsFiniteSet(S), NEW s \in Seq(S), Distinct(s)
  PROVE  /\ Range(s) \subseteq S
         /\ Cardinality(Range(s)) = Len(s)
         /\ Len(s) = Cardinality(S) <=> Range(s) = S
<1>1. s \in [1..Len(s) -> S] /\ Len(s) \in Nat /\ DOMAIN s = 1..Len(s)
  OBVIOUS
<1>2. Range(s) \subseteq S
  BY <1>1 DEF Range
<1>3. s \in [1..Len(s) -> Range(s)]
  BY <1>1 DEF Range
<1>4. s \in Bijection(1..Len(s), Range(s))
  <2>1. s \in Injection(1..Len(s), Range(s))
    BY <1>1, <1>3 DEF Injection, IsInjective, Distinct
  <2>2. s \in Surjection(1..Len(s), Range(s))
    BY <1>1, <1>3 DEF Surjection, Range
  <2> QED
    BY <2>1, <2>2 DEF Bijection
<1>5. IsFiniteSet(1..Len(s)) /\ Cardinality(1..Len(s)) = Len(s)
  <2>1. 1 \in Int /\ Len(s) \in Int
    BY <1>1
  <2>2. IsFiniteSet(1..Len(s)) /\ Cardinality(1..Len(s)) = IF 1 > Len(s) THEN 0 ELSE Len(s) - 1 + 1
    BY <2>1, FS_Interval, Zenon
  <2> QED
    BY <1>1, <2>2
<1>6. Cardinality(Range(s)) = Len(s)
  <2>1. ExistsBijection(1..Len(s), Range(s))
    BY <1>4 DEF ExistsBijection
  <2> QED
    BY <1>5, <2>1, FS_Bijection
<1>7. Len(s) = Cardinality(S) <=> Range(s) = S
  BY <1>2, <1>6, FS_Subset
<1> QED
  BY <1>2, <1>6, <1>7

\* It holds after every number of rounds, and each round sorted a check or found the
\* queue empty.
LEMMA KahnRounds ==
  ASSUME NEW S, IsFiniteSet(S), NEW n \in 0..Cardinality(S), NEW st \in Kahn(S)[n]
  PROVE  KahnInv(S, st) /\ (st.queue = <<>> \/ Len(st.sorted) = n)
<1> DEFINE Good(m) == \A t \in Kahn(S)[m] : KahnInv(S, t) /\ (t.queue = <<>> \/ Len(t.sorted) = m)
           T == {m \in 0..Cardinality(S) : ~Good(m)}
<1>1. Cardinality(S) \in Nat
  BY FS_CardinalityType
<1>2. \A m \in 0..Cardinality(S) :
         Kahn(S)[m] = IF m = 0 THEN Ready(S) ELSE UNION {Round(t) : t \in Kahn(S)[m - 1]}
  BY <1>1, KahnUnrolls DEF Unrolled
<1>3. SUFFICES ASSUME T # {} PROVE FALSE
  OBVIOUS
<1>4. T \in SUBSET Nat
  OBVIOUS
<1>5. PICK m \in T : \A k \in T : m <= k
  <2> HIDE DEF T
  <2> QED
    BY <1>3, <1>4, LeastOf
<1>6. m \in 0..Cardinality(S) /\ m \in Nat
  OBVIOUS
<1>7. ASSUME m = 0 PROVE FALSE
  <2>1. \A t \in Ready(S) : KahnInv(S, t) /\ Len(t.sorted) = 0
    BY ReadyInv
  <2>2. Kahn(S)[m] = Ready(S)
    BY <1>2, <1>6, <1>7
  <2>3. Good(m)
    BY <1>7, <2>1, <2>2
  <2> QED
    BY <2>3
<1>8. ASSUME m # 0 PROVE FALSE
  <2>1. m - 1 \in 0..Cardinality(S) /\ ~(m <= m - 1)
    BY <1>1, <1>6, <1>8
  <2>2. Good(m - 1)
    BY <1>5, <2>1
  <2>3. Kahn(S)[m] = UNION {Round(t) : t \in Kahn(S)[m - 1]}
    BY <1>2, <1>6, <1>8
  <2>4. ASSUME NEW nt \in Kahn(S)[m]
        PROVE  KahnInv(S, nt) /\ (nt.queue = <<>> \/ Len(nt.sorted) = m)
    <3>1. PICK t \in Kahn(S)[m - 1] : nt \in Round(t)
      BY <2>3
    <3>2. KahnInv(S, t) /\ (t.queue = <<>> \/ Len(t.sorted) = m - 1)
      BY <2>2
    <3>3. CASE t.queue = <<>>
      <4>1. nt = t
        BY <3>1, <3>3 DEF Round
      <4> QED
        BY <3>2, <3>3, <4>1
    <3>4. CASE t.queue # <<>>
      <4>1. KahnInv(S, nt) /\ Len(nt.sorted) = Len(t.sorted) + 1
        BY <3>1, <3>2, <3>4, RoundInv
      <4>2. Len(t.sorted) = m - 1
        BY <3>2, <3>4
      <4> QED
        BY <1>6, <4>1, <4>2
    <3> QED
      BY <3>3, <3>4
  <2>5. Good(m)
    BY <2>4
  <2> QED
    BY <2>5
<1> QED
  BY <1>7, <1>8

\* What the loop leaves: an order in which exactly those checks lack that still miss one.
Ordered(S, s) ==
    /\ s \in Seq(S) /\ Distinct(s) /\ Grounded(S, s)
    /\ \A x \in S : Missing(S, s, x) = {} <=> x \in Range(s)

\* After as many rounds as there are checks the queue is empty, so the loop has ended.
LEMMA Sorts ==
  ASSUME NEW S, IsFiniteSet(S), NEW s \in TopologicalSort(S)
  PROVE  Ordered(S, s)
<1>1. Cardinality(S) \in Nat
  BY FS_CardinalityType
<1>2. PICK st \in Kahn(S)[Cardinality(S)] : s = st.sorted
  BY DEF TopologicalSort
<1>3. Cardinality(S) \in 0..Cardinality(S)
  BY <1>1
<1>4. KahnInv(S, st) /\ (st.queue = <<>> \/ Len(st.sorted) = Cardinality(S))
  BY <1>3, KahnRounds
<1>5. /\ st.queue \in Seq(S) /\ Distinct(st.queue)
      /\ s \in Seq(S) /\ Distinct(s) /\ Grounded(S, s)
      /\ Range(st.queue) \cap Range(s) = {}
  BY <1>2, <1>4 DEF KahnInv
<1>6. st.queue = <<>>
  <2> SUFFICES ASSUME st.queue # <<>> PROVE FALSE
    OBVIOUS
  <2>1. Range(s) = S
    BY <1>2, <1>4, <1>5, RangeCounts
  <2>2. Head(st.queue) \in S /\ Head(st.queue) \in Range(st.queue)
    BY <1>5, Behead
  <2> QED
    BY <1>5, <2>1, <2>2
<1>7. Range(st.queue) = {}
  BY <1>6 DEF Range
<1>8. ASSUME NEW x \in S PROVE Missing(S, s, x) = {} <=> x \in Range(s)
  <2>1. st.degree[x] = Cardinality(Missing(S, s, x))
    BY <1>2, <1>4 DEF KahnInv
  <2>2. st.degree[x] = 0 <=> x \in Range(s)
    BY <1>2, <1>4, <1>7 DEF KahnInv
  <2> QED
    BY <2>1, <2>2, MissingCounts
<1> QED
  BY <1>5, <1>8 DEF Ordered

\* Checks that wait for each other.
Circle(S) == \E C \in (SUBSET S) \ {{}} : \A x \in C : dependsOn[x] \cap C # {}

\* No check of the sequence comes before one it depends on.
Follows(s) == \A i, j \in DOMAIN s : s[j] \in dependsOn[s[i]] => j < i

\* Checks are left over exactly if some of them wait for each other.
LEMMA CirclesShow ==
  ASSUME NEW S, IsFiniteSet(S), NEW s, Ordered(S, s)
  PROVE  (Len(s) # Cardinality(S)) <=> Circle(S)
<1>1. s \in Seq(S) /\ Distinct(s) /\ Grounded(S, s)
  BY DEF Ordered
<1>2. s \in [1..Len(s) -> S] /\ Len(s) \in Nat /\ DOMAIN s = 1..Len(s)
  BY <1>1
<1>3. Len(s) = Cardinality(S) <=> Range(s) = S
  BY <1>1, RangeCounts
<1>4. Range(s) \subseteq S
  BY <1>1, RangeCounts
<1>5. ASSUME Range(s) # S PROVE Circle(S)
  <2> DEFINE C == S \ Range(s)
  <2>1. C \in (SUBSET S) \ {{}}
    BY <1>4, <1>5
  <2>2. ASSUME NEW x \in C PROVE dependsOn[x] \cap C # {}
    <3>1. Missing(S, s, x) # {}
      BY DEF Ordered
    <3> QED
      BY <3>1 DEF Missing
  <2> HIDE DEF C
  <2> QED
    BY <2>1, <2>2 DEF Circle
<1>6. ASSUME Range(s) = S, Circle(S) PROVE FALSE
  <2>1. PICK C \in (SUBSET S) \ {{}} : \A x \in C : dependsOn[x] \cap C # {}
    BY <1>6 DEF Circle
  <2> DEFINE T == {i \in 1..Len(s) : s[i] \in C}
  <2>2. PICK c \in C : TRUE
    BY <2>1
  <2>3. PICK i0 \in 1..Len(s) : s[i0] = c
    BY <1>2, <1>6, <2>1 DEF Range
  <2>4. T \in SUBSET Nat /\ T # {}
    BY <2>2, <2>3
  <2>5. PICK i \in T : \A k \in T : i <= k
    <3> HIDE DEF T
    <3> QED
      BY <2>4, LeastOf
  <2>6. i \in 1..Len(s) /\ s[i] \in C
    OBVIOUS
  <2>7. PICK y \in dependsOn[s[i]] \cap C : TRUE
    BY <2>1, <2>6
  <2>8. y \in dependsOn[s[i]] \cap S
    BY <2>1
  <2>9. PICK k \in 1..(i - 1) : s[k] = y
    BY <1>1, <1>2, <2>6, <2>8 DEF Grounded
  <2>10. k \in 1..Len(s) /\ ~(i <= k)
    BY <1>2, <2>6
  <2> QED
    BY <2>5, <2>7, <2>9, <2>10
<1> QED
  BY <1>3, <1>5, <1>6

\* The order honours every dependency between two of its checks.
LEMMA OrderFollows ==
  ASSUME NEW S, IsFiniteSet(S), NEW s, Ordered(S, s)
  PROVE  Follows(s)
<1>1. s \in Seq(S) /\ Distinct(s) /\ Grounded(S, s)
  BY DEF Ordered
<1>2. s \in [1..Len(s) -> S] /\ Len(s) \in Nat /\ DOMAIN s = 1..Len(s)
  BY <1>1
<1>3. ASSUME NEW i \in DOMAIN s, NEW j \in DOMAIN s, s[j] \in dependsOn[s[i]] PROVE j < i
  <2>1. s[j] \in dependsOn[s[i]] \cap S
    BY <1>2, <1>3
  <2>2. PICK k \in 1..(i - 1) : s[k] = s[j]
    BY <1>1, <2>1 DEF Grounded
  <2>3. k \in DOMAIN s /\ k < i
    BY <1>2
  <2>4. k = j
    BY <1>1, <2>2, <2>3 DEF Distinct
  <2> QED
    BY <2>3, <2>4
<1> QED
  BY <1>3 DEF Follows

-----------------------------------------------------------------------------
\* The inductive invariant.
Pcs == {"none", "new", "scan", "arm", "select", "tick", "ended"}
Results == [check : Checks, status : {"passed", "failed", "skipped"}]
Loops == [pc : Pcs, chan : 0..MaxStarts, tick : Nat, todo : SUBSET Targets,
          left : Seq(Checks), results : Seq(Results), due : SUBSET Checks,
          owed : SUBSET Checks, age : [Checks -> Nat]]

TypeOK ==
    /\ dependsOn \in [Checks -> SUBSET Checks]
    /\ enabled \subseteq Checks
    /\ interval \in [Checks -> 0..MaxInterval]
    /\ sortedChecks \in Seq(Checks)
    /\ sortErr \in BOOLEAN /\ leader \in BOOLEAN /\ panicked \in BOOLEAN /\ late \in BOOLEAN
    /\ starts \in 0..MaxStarts /\ running \in 0..starts /\ cancelled \subseteq 1..starts
    /\ closed \subseteq 0..MaxStarts
    /\ loop \in [Gens -> Loops]
    /\ waits \in [Callers -> 0..starts]
    /\ changes \in 0..MaxChanges

\* The invariant of a scan: what is still to run is in order, no check that ran depends on
\* one still to come, and what had to be skipped was.
Skips(rs) ==
    \A i, j \in DOMAIN rs : /\ rs[j].check \in dependsOn[rs[i].check]
                            /\ rs[j].status \in {"failed", "skipped"}
                            => rs[i].status = "skipped"

NoneBefore(rs, left) ==
    \A i \in DOMAIN rs : \A j \in DOMAIN left : left[j] \notin dependsOn[rs[i].check]

ScanOk(l) == Follows(l.left) /\ NoneBefore(l.results, l.left) /\ Skips(l.results)

\* The cached order is one of the enabled checks, unless they go in a circle.
Sorted == /\ sortErr <=> Circle(enabled)
          /\ ~sortErr => /\ Ordered(enabled, sortedChecks)
                         /\ Len(sortedChecks) = Cardinality(enabled)
          /\ Follows(sortedChecks)

Scanning == \A g \in Gens : ScanOk(loop[g])

-----------------------------------------------------------------------------
\* What a step of the goroutine of generation g does to the rest: it leaves a local state l
\* behind, and goes on, begins, or ends and closes the channel it saw when it began.
Moves(g, l) == /\ loop' = [loop EXCEPT ![g] = l]
               /\ UNCHANGED <<control, registry, cancelled, late>>

GoesOn(g, l) == /\ loop[g].pc \in {"scan", "arm", "select", "tick"}
                /\ l.pc \in {"scan", "arm", "select", "tick"}
                /\ l.chan = loop[g].chan
                /\ UNCHANGED <<closed, panicked>>

Begins(g, l) == /\ loop[g].pc = "new"
                /\ l.pc \in {"scan", "arm"}
                /\ l.chan = starts
                /\ UNCHANGED <<closed, panicked>>

Closes(g, l) == /\ loop[g].pc \in {"arm", "select"}
                /\ l.pc = "ended"
                /\ l.chan = loop[g].chan
                /\ closed' = closed \cup {loop[g].chan}
                /\ panicked' = (loop[g].chan \in closed)

Went(g, l) == /\ l \in Loops /\ ScanOk(l) /\ ~panicked
              /\ Moves(g, l)
              /\ GoesOn(g, l) \/ Begins(g, l) \/ Closes(g, l)

\* Without checks at hand the invariant of a scan says nothing.
LEMMA NothingToScan ==
  ASSUME NEW l, l.left = <<>>, l.results = <<>>
  PROVE  ScanOk(l)
BY DEF ScanOk, Follows, NoneBefore, Skips

\* The local state a generation starts with.
LEMMA NoLoopIsLoop ==
  NoLoop \in Loops /\ ScanOk(NoLoop) /\ NoLoop.pc = "none"
  /\ NoLoop.left = <<>> /\ NoLoop.results = <<>>
<1>1. MaxInterval \in Nat /\ 0 \in 0..MaxStarts
  BY ScheduleData
<1>2. <<>> \in Seq(Checks) /\ <<>> \in Seq(Results)
  OBVIOUS
<1>3. NoLoop \in Loops /\ NoLoop.left = <<>> /\ NoLoop.results = <<>> /\ NoLoop.pc = "none"
  BY <1>1, <1>2 DEF NoLoop, Loops, Pcs
<1> QED
  BY <1>3, NothingToScan

\* getMinInterval finds an interval if any check has one.
LEMMA ShortestFound ==
  ASSUME TypeOK, Ticking # {}
  PROVE  MinInterval \in Nat
<1> DEFINE T == {interval[x] : x \in Ticking}
<1>1. T \in SUBSET Nat /\ T # {}
  <2>1. Ticking \subseteq Checks /\ interval \in [Checks -> 0..MaxInterval]
    BY DEF Ticking, TypeOK
  <2> QED
    BY <2>1
<1> HIDE DEF T
<1>2. \E m \in T : \A n \in T : m <= n
  BY <1>1, LeastOf
<1>3. SetMin(T) \in T
  BY <1>2 DEF SetMin
<1> QED
  BY <1>1, <1>3 DEF T, MinInterval

\* Every step of a goroutine is of one of the three kinds and keeps the invariant of a scan.
LEMMA LoopStep ==
  ASSUME TypeOK, Sorted, Scanning, NEW g \in Gens, Loop(g)
  PROVE  \E l : Went(g, l)
<1> DEFINE o == loop[g]
<1>1. /\ o \in Loops /\ ScanOk(o)
      /\ o.pc \in Pcs /\ o.chan \in 0..MaxStarts /\ o.tick \in Nat /\ o.todo \in SUBSET Targets
      /\ o.left \in Seq(Checks) /\ o.results \in Seq(Results) /\ o.due \in SUBSET Checks
      /\ o.owed \in SUBSET Checks /\ o.age \in [Checks -> Nat]
  BY DEF TypeOK, Scanning, Loops
<1>2. DOMAIN loop = Gens
  BY DEF TypeOK
<1>3. starts \in 0..MaxStarts /\ sortedChecks \in Seq(Checks) /\ enabled \subseteq Checks
  BY DEF TypeOK
<1>4. o = [pc |-> o.pc, chan |-> o.chan, tick |-> o.tick, todo |-> o.todo, left |-> o.left,
           results |-> o.results, due |-> o.due, owed |-> o.owed, age |-> o.age]
  BY <1>1 DEF Loops
<1>5. ASSUME Begin(g) PROVE \E l : Went(g, l)
  <2> DEFINE l == Scans([o EXCEPT !.chan = starts])
  <2>1. l \in Loops /\ l.pc \in {"scan", "arm"} /\ l.chan = starts /\ l.left = o.left
        /\ l.results = o.results
    BY <1>1, <1>3, <1>4 DEF Scans, Loops, Pcs
  <2>2. ScanOk(l)
    BY <1>1, <2>1 DEF ScanOk
  <2>3. loop' = [loop EXCEPT ![g] = l] /\ o.pc = "new" /\ ~panicked
    BY <1>2, <1>5 DEF Begin, Step, ChannelSeen
  <2>4. UNCHANGED <<control, registry, cancelled, late>> /\ UNCHANGED <<closed, panicked>>
    BY <1>5 DEF Begin
  <2> HIDE DEF l
  <2> QED
    BY <2>1, <2>2, <2>3, <2>4 DEF Went, Moves, Begins
<1>6. ASSUME Close(g), o.pc \in {"arm", "select"}, ~panicked,
             UNCHANGED <<control, registry, cancelled, late>>
      PROVE \E l : Went(g, l)
  <2> DEFINE l == Ended(o)
  <2>2. l \in Loops /\ l.pc = "ended" /\ l.chan = o.chan /\ l.left = <<>> /\ l.results = <<>>
    BY <1>1, NoLoopIsLoop DEF Ended, Loops, Pcs
  <2>3. ScanOk(l)
    BY <2>2, NothingToScan
  <2>4. loop' = [loop EXCEPT ![g] = l] /\ closed' = closed \cup {o.chan}
        /\ panicked' = (o.chan \in closed)
    BY <1>6 DEF Close
  <2> HIDE DEF l
  <2> QED
    BY <1>6, <2>2, <2>3, <2>4 DEF Went, Moves, Closes
<1>7. ASSUME NEW l, l \in Loops, ScanOk(l), loop' = [loop EXCEPT ![g] = l],
             UNCHANGED <<control, registry, cancelled, closed, panicked, late>>,
             o.pc \in {"scan", "arm", "select", "tick"}, l.pc \in {"scan", "arm", "select", "tick"},
             l.chan = o.chan, ~panicked
      PROVE  Went(g, l)
  BY <1>7 DEF Went, Moves, GoesOn
<1>8. ASSUME Arm(g), Ticking # {} PROVE \E l : Went(g, l)
  <2> DEFINE n == MinInterval
             l == [o EXCEPT !.pc = "select", !.tick = n]
  <2>1. n \in Nat
    BY <1>8, ShortestFound
  <2>2. /\ loop' = [loop EXCEPT ![g].pc = "select", ![g].tick = n]
        /\ UNCHANGED <<control, registry, cancelled, closed, panicked, late>>
        /\ o.pc = "arm" /\ ~panicked
    BY <1>8 DEF Arm, Step
  <2> HIDE DEF n
  <2>3. l \in Loops /\ l.left = o.left /\ l.results = o.results
        /\ l.pc = "select" /\ l.chan = o.chan
    BY <1>1, <1>4, <2>1 DEF Loops, Pcs
  <2>4. loop' = [loop EXCEPT ![g] = l]
    BY <1>1, <1>2, <2>2 DEF Loops
  <2>5. ScanOk(l)
    BY <1>1, <2>3 DEF ScanOk
  <2> HIDE DEF l
  <2> QED
    BY <1>7, <2>2, <2>3, <2>4, <2>5
<1>9. ASSUME NEW t \in Targets, NextTarget(g, t) PROVE \E l : Went(g, l)
  <2> DEFINE l == [o EXCEPT !.todo = @ \ {t}, !.left = sortedChecks, !.results = <<>>]
  <2>1. /\ loop' = [loop EXCEPT ![g].todo = @ \ {t}, ![g].left = sortedChecks, ![g].results = <<>>]
        /\ UNCHANGED <<control, registry, cancelled, closed, panicked, late>>
        /\ o.pc = "scan" /\ ~panicked
    BY <1>9 DEF NextTarget, Step
  <2>2. l \in Loops /\ l.left = sortedChecks /\ l.results = <<>> /\ l.pc = "scan" /\ l.chan = o.chan
    <3>1. <<>> \in Seq(Results) /\ o.todo \ {t} \in SUBSET Targets
      BY <1>1
    <3> QED
      BY <1>1, <1>3, <1>4, <2>1, <3>1 DEF Loops, Pcs
  <2>3. loop' = [loop EXCEPT ![g] = l]
    BY <1>1, <1>2, <2>1 DEF Loops
  <2>4. ScanOk(l)
    BY <2>2 DEF ScanOk, Sorted, NoneBefore, Skips
  <2> HIDE DEF l
  <2> QED
    BY <1>7, <2>1, <2>2, <2>3, <2>4
<1>10. ASSUME ScanDone(g) PROVE \E l : Went(g, l)
  <2> DEFINE l == [NoLoop EXCEPT !.pc = "arm", !.chan = loop[g].chan]
  <2>1. /\ loop' = [loop EXCEPT ![g] = l]
        /\ UNCHANGED <<control, registry, cancelled, closed, panicked, late>>
        /\ o.pc = "scan" /\ ~panicked
    BY <1>10 DEF ScanDone, Step
  <2>2. l \in Loops /\ l.left = <<>> /\ l.results = <<>> /\ l.pc = "arm" /\ l.chan = o.chan
    BY <1>1, NoLoopIsLoop DEF Loops, Pcs
  <2>3. ScanOk(l)
    BY <2>2, NothingToScan
  <2> HIDE DEF l
  <2> QED
    BY <1>7, <2>1, <2>2, <2>3
<1>11. ASSUME RunCheck(g) PROVE \E l : Went(g, l)
  <2> DEFINE x == Head(o.left)
  <2>1. PICK s \in Outcomes(x, o.results) :
           loop' = [loop EXCEPT ![g].left = Tail(@),
                                ![g].results = Append(@, [check |-> x, status |-> s])]
    BY <1>11 DEF RunCheck
  <2> DEFINE r == [check |-> x, status |-> s]
             l == [o EXCEPT !.left = Tail(@), !.results = Append(@, r)]
  <2>2. /\ UNCHANGED <<control, registry, cancelled, closed, panicked, late>>
        /\ o.pc = "scan" /\ ~panicked /\ o.left # <<>>
    BY <1>11 DEF RunCheck, Step
  <2>3. x \in Checks /\ Tail(o.left) \in Seq(Checks) /\ x = o.left[1] /\ 1 \in DOMAIN o.left
        /\ DOMAIN Tail(o.left) = 1..(Len(o.left) - 1) /\ Len(o.left) \in Nat
        /\ \A i \in 1..(Len(o.left) - 1) :
              i + 1 \in DOMAIN o.left /\ Tail(o.left)[i] = o.left[i + 1]
    BY <1>1, <2>2
  <2>4. s \in {"passed", "failed", "skipped"}
    BY DEF Outcomes
  <2>5. r \in Results
    BY <2>3, <2>4 DEF Results
  <2>6. /\ Append(o.results, r) \in Seq(Results)
        /\ Len(o.results) \in Nat
        /\ DOMAIN Append(o.results, r) = 1..(Len(o.results) + 1)
        /\ DOMAIN o.results = 1..Len(o.results)
        /\ \A i \in 1..Len(o.results) : Append(o.results, r)[i] = o.results[i]
        /\ Append(o.results, r)[Len(o.results) + 1] = r
    <3> HIDE DEF r
    <3> QED
      BY <1>1, <2>5
  <2>7. l \in Loops /\ l.left = Tail(o.left) /\ l.results = Append(o.results, r)
        /\ l.pc = "scan" /\ l.chan = o.chan
    <3> HIDE DEF r
    <3> QED
      BY <1>1, <1>4, <2>2, <2>3, <2>6 DEF Loops, Pcs
  <2>8. loop' = [loop EXCEPT ![g] = l]
    BY <1>1, <1>2, <2>1 DEF Loops
  <2>9. r.check = x /\ r.status = s
    OBVIOUS
  <2> HIDE DEF l, r, x
  <2>10. Follows(o.left) /\ NoneBefore(o.results, o.left) /\ Skips(o.results)
    BY <1>1 DEF ScanOk
  <2>11. Follows(l.left)
    <3> SUFFICES ASSUME NEW i \in 1..(Len(o.left) - 1), NEW j \in 1..(Len(o.left) - 1),
                        Tail(o.left)[j] \in dependsOn[Tail(o.left)[i]]
                 PROVE  j < i
      BY <2>3, <2>7 DEF Follows
    <3>1. j + 1 < i + 1
      BY <2>3, <2>10 DEF Follows
    <3> QED
      BY <3>1
  <2>12. x \notin dependsOn[x]
    BY <2>3, <2>10 DEF Follows
  <2>13. \A i \in 1..(Len(o.results) + 1) :
            \/ i \in 1..Len(o.results) /\ l.results[i] = o.results[i]
            \/ i = Len(o.results) + 1 /\ l.results[i] = r
    <3> TAKE i \in 1..(Len(o.results) + 1)
    <3>1. i \in 1..Len(o.results) \/ i = Len(o.results) + 1
      BY <2>6
    <3> QED
      BY <2>6, <2>7, <3>1
  <2>14. NoneBefore(l.results, l.left)
    <3> SUFFICES ASSUME NEW i \in 1..(Len(o.results) + 1), NEW j \in 1..(Len(o.left) - 1)
                 PROVE  Tail(o.left)[j] \notin dependsOn[l.results[i].check]
      BY <2>3, <2>6, <2>7 DEF NoneBefore
    <3>1. j + 1 \in DOMAIN o.left /\ Tail(o.left)[j] = o.left[j + 1] /\ ~(j + 1 < 1)
      BY <2>3
    <3>2. CASE i \in 1..Len(o.results) /\ l.results[i] = o.results[i]
      BY <2>6, <2>10, <3>1, <3>2 DEF NoneBefore
    <3>3. CASE i = Len(o.results) + 1 /\ l.results[i] = r
      BY <2>3, <2>9, <2>10, <3>1, <3>3 DEF Follows
    <3> QED
      BY <2>13, <3>2, <3>3
  <2>15. Skips(l.results)
    <3> SUFFICES ASSUME NEW i \in 1..(Len(o.results) + 1), NEW j \in 1..(Len(o.results) + 1),
                        l.results[j].check \in dependsOn[l.results[i].check],
                        l.results[j].status \in {"failed", "skipped"}
                 PROVE  l.results[i].status = "skipped"
      BY <2>6, <2>7 DEF Skips
    <3>1. CASE j = Len(o.results) + 1 /\ l.results[j] = r
      <4>1. ~(i \in 1..Len(o.results) /\ l.results[i] = o.results[i])
        <5> SUFFICES ASSUME i \in 1..Len(o.results), l.results[i] = o.results[i] PROVE FALSE
          OBVIOUS
        <5>1. o.left[1] \in dependsOn[o.results[i].check]
          BY <2>3, <2>9, <3>1
        <5> QED
          BY <2>3, <2>6, <2>10, <5>1 DEF NoneBefore
      <4>2. l.results[i] = r
        BY <2>13, <4>1
      <4> QED
        BY <2>9, <2>12, <3>1, <4>2
    <3>2. CASE j \in 1..Len(o.results) /\ l.results[j] = o.results[j]
      <4>1. CASE i \in 1..Len(o.results) /\ l.results[i] = o.results[i]
        BY <2>6, <2>10, <3>2, <4>1 DEF Skips
      <4>2. CASE i = Len(o.results) + 1 /\ l.results[i] = r
        <5>1. ShouldSkip(x, o.results)
          BY <2>6, <2>9, <3>2, <4>2 DEF ShouldSkip
        <5>2. s = "skipped"
          BY <5>1 DEF Outcomes
        <5> QED
          BY <2>9, <4>2, <5>2
      <4> QED
        BY <2>13, <4>1, <4>2
    <3> QED
      BY <2>13, <3>1, <3>2
  <2>16. ScanOk(l)
    BY <2>11, <2>14, <2>15 DEF ScanOk
  <2> QED
    BY <1>7, <2>2, <2>7, <2>8, <2>16
<1>12. ASSUME Tick(g) PROVE \E l : Went(g, l)
  <2> DEFINE older == Older(o)
             due == {x \in Ticking : older[x] >= interval[x]}
             fires == leader /\ due # {}
             l == IF fires
                  THEN [o EXCEPT !.pc = "tick", !.age = older, !.due = due, !.todo = Targets]
                  ELSE [o EXCEPT !.age = older]
  <2>1. older \in [Checks -> Nat]
    BY <1>1, ScheduleData DEF Older
  <2>2. due \in SUBSET Checks
    BY <1>3 DEF Ticking
  <2>3. /\ IF fires
           THEN loop' = [loop EXCEPT ![g].pc = "tick", ![g].age = older, ![g].due = due,
                                     ![g].todo = Targets]
           ELSE loop' = [loop EXCEPT ![g].age = older]
        /\ UNCHANGED <<control, registry, cancelled, closed, panicked, late>>
        /\ o.pc = "select" /\ ~panicked
    BY <1>12 DEF Tick, Step
  <2> HIDE DEF older, due, fires
  <2>4. l \in Loops /\ l.left = o.left /\ l.results = o.results /\ l.pc \in {"select", "tick"}
        /\ l.chan = o.chan
    BY <1>1, <1>4, <2>1, <2>2, <2>3 DEF Loops, Pcs
  <2>5. loop' = [loop EXCEPT ![g] = l]
    BY <1>1, <1>2, <2>3 DEF Loops
  <2>6. ScanOk(l)
    BY <1>1, <2>4 DEF ScanOk
  <2> HIDE DEF l
  <2> QED
    BY <1>7, <2>3, <2>4, <2>5, <2>6
<1>13. ASSUME NEW t \in Targets, TickTarget(g, t) PROVE \E l : Went(g, l)
  <2> DEFINE l == [o EXCEPT !.todo = @ \ {t}, !.owed = o.due]
  <2>1. /\ loop' = [loop EXCEPT ![g].todo = @ \ {t}, ![g].owed = o.due]
        /\ UNCHANGED <<control, registry, cancelled, closed, panicked, late>>
        /\ o.pc = "tick" /\ ~panicked
    BY <1>13 DEF TickTarget, Step
  <2>2. l \in Loops /\ l.left = o.left /\ l.results = o.results /\ l.pc = "tick" /\ l.chan = o.chan
    BY <1>1, <1>4, <2>1 DEF Loops, Pcs
  <2>3. loop' = [loop EXCEPT ![g] = l]
    BY <1>1, <1>2, <2>1 DEF Loops
  <2>4. ScanOk(l)
    BY <1>1, <2>2 DEF ScanOk
  <2> HIDE DEF l
  <2> QED
    BY <1>7, <2>1, <2>2, <2>3, <2>4
<1>14. ASSUME TickCheck(g) PROVE \E l : Went(g, l)
  <2>1. PICK x \in o.owed : loop' = [loop EXCEPT ![g].owed = @ \ {x}]
    BY <1>14 DEF TickCheck
  <2> DEFINE l == [o EXCEPT !.owed = @ \ {x}]
  <2>2. /\ UNCHANGED <<control, registry, cancelled, closed, panicked, late>>
        /\ o.pc = "tick" /\ ~panicked
    BY <1>14 DEF TickCheck, Step
  <2>3. l \in Loops /\ l.left = o.left /\ l.results = o.results /\ l.pc = "tick" /\ l.chan = o.chan
    BY <1>1, <1>4, <2>2 DEF Loops, Pcs
  <2>4. loop' = [loop EXCEPT ![g] = l]
    BY <1>1, <1>2, <2>1 DEF Loops
  <2>5. ScanOk(l)
    BY <1>1, <2>3 DEF ScanOk
  <2> HIDE DEF l
  <2> QED
    BY <1>7, <2>2, <2>3, <2>4, <2>5
<1>15. BackToSelect(o) \in Loops /\ BackToSelect(o).left = <<>> /\ BackToSelect(o).results = <<>>
       /\ BackToSelect(o).pc = "select" /\ BackToSelect(o).chan = o.chan
  BY <1>1, NoLoopIsLoop DEF BackToSelect, Loops, Pcs
<1>16. ASSUME TickGivenUp(g) PROVE \E l : Went(g, l)
  <2> DEFINE l == BackToSelect(o)
  <2>1. /\ loop' = [loop EXCEPT ![g] = l]
        /\ UNCHANGED <<control, registry, cancelled, closed, panicked, late>>
        /\ o.pc = "tick" /\ ~panicked
    BY <1>16 DEF TickGivenUp, Step
  <2>2. ScanOk(l)
    BY <1>15, NothingToScan
  <2> HIDE DEF l
  <2>3. l = BackToSelect(o)
    BY DEF l
  <2> QED
    BY <1>7, <1>15, <2>1, <2>2, <2>3
<1>17. ASSUME TickDone(g) PROVE \E l : Went(g, l)
  <2> DEFINE l == [BackToSelect(o) EXCEPT !.age = Ran(o)]
  <2>1. /\ loop' = [loop EXCEPT ![g] = l]
        /\ UNCHANGED <<control, registry, cancelled, closed, panicked, late>>
        /\ o.pc = "tick" /\ ~panicked
    BY <1>17 DEF TickDone, Step
  <2>2. Ran(o) \in [Checks -> Nat]
    BY <1>1 DEF Ran
  <2>3. l \in Loops /\ l.left = <<>> /\ l.results = <<>> /\ l.pc = "select" /\ l.chan = o.chan
    BY <1>15, <2>2 DEF Loops
  <2>4. ScanOk(l)
    BY <2>3, NothingToScan
  <2> HIDE DEF l
  <2> QED
    BY <1>7, <2>1, <2>3, <2>4
<1>18. ASSUME Arm(g) PROVE \E l : Went(g, l)
  <2>1. CASE Ticking = {}
    BY <1>6, <1>18, <2>1 DEF Arm, Step
  <2>2. CASE Ticking # {}
    BY <1>8, <1>18, <2>2
  <2> QED
    BY <2>1, <2>2
<1>19. ASSUME Done(g) PROVE \E l : Went(g, l)
  BY <1>6, <1>19 DEF Done, Step
<1> QED
  BY <1>5, <1>9, <1>10, <1>11, <1>12, <1>13, <1>14, <1>16, <1>17, <1>18, <1>19 DEF Loop
-----------------------------------------------------------------------------
\* Generations: those not started have no goroutine; and, while no Start overtook one that
\* had not begun, only the last can be new, each one that began has its own channel, and
\* a channel is closed exactly if it is that of a goroutine that has ended.
Fresh == \A g \in Gens : g > starts <=> loop[g].pc = "none"

OneNew == ~late => \A g \in Gens : loop[g].pc = "new" => g = starts

OwnChannel == ~late => \A g \in Gens : loop[g].pc \notin {"none", "new"} => loop[g].chan = g

EndedIfClosed == ~late => \A c \in closed : c \in Gens /\ loop[c].pc = "ended"

ClosedIfEnded == ~late => \A g \in Gens : loop[g].pc = "ended" => g \in closed

AwaitedIsOver == \A u \in Callers : waits[u] # 0 => waits[u] # running

Ending == /\ Fresh /\ OneNew /\ OwnChannel /\ EndedIfClosed /\ ClosedIfEnded /\ AwaitedIsOver
          /\ ClosedOnce /\ StopMeansStopped

Inv == TypeOK /\ Sorted /\ Scanning /\ Ending

\* A step of a goroutine keeps the types, and the scans of the others.
LEMMA MovesTyped ==
  ASSUME TypeOK, Scanning, NEW g \in Gens, NEW l, Went(g, l)
  PROVE  /\ TypeOK' /\ Scanning'
         /\ loop'[g] = l /\ \A h \in Gens \ {g} : loop'[h] = loop[h]
<1>1. /\ loop' = [loop EXCEPT ![g] = l] /\ l \in Loops /\ ScanOk(l)
      /\ UNCHANGED <<control, registry, cancelled, late>>
  BY DEF Went, Moves
<1>2. loop \in [Gens -> Loops]
  BY DEF TypeOK
<1>3. loop'[g] = l /\ \A h \in Gens \ {g} : loop'[h] = loop[h]
  BY <1>1, <1>2
<1>4. loop' \in [Gens -> Loops]
  BY <1>1, <1>2
<1>5. closed' \subseteq 0..MaxStarts /\ panicked' \in BOOLEAN
  <2>1. loop[g].chan \in 0..MaxStarts
    BY <1>2 DEF Loops
  <2>2. CASE UNCHANGED <<closed, panicked>>
    BY <2>2 DEF TypeOK
  <2>3. CASE closed' = closed \cup {loop[g].chan} /\ panicked' = (loop[g].chan \in closed)
    <3>1. closed' \subseteq 0..MaxStarts
      BY <2>1, <2>3 DEF TypeOK
    <3>2. panicked' = (loop[g].chan \in closed)
      BY <2>3
    <3>3. panicked' \in BOOLEAN
      BY <3>2
    <3> QED
      BY <3>1, <3>3
  <2> QED
    BY <2>2, <2>3 DEF Went, GoesOn, Begins, Closes
<1>6. TypeOK'
  <2>1. dependsOn \in [Checks -> SUBSET Checks] /\ interval \in [Checks -> 0..MaxInterval]
        /\ enabled \subseteq Checks /\ sortedChecks \in Seq(Checks)
        /\ starts \in 0..MaxStarts /\ running \in 0..starts /\ cancelled \subseteq 1..starts
        /\ waits \in [Callers -> 0..starts] /\ changes \in 0..MaxChanges
    BY DEF TypeOK
  <2>2. sortErr \in BOOLEAN /\ leader \in BOOLEAN /\ late \in BOOLEAN
    BY DEF TypeOK
  <2>3. dependsOn' = dependsOn /\ enabled' = enabled /\ sortedChecks' = sortedChecks
        /\ interval' = interval /\ starts' = starts /\ running' = running /\ cancelled' = cancelled
        /\ waits' = waits /\ changes' = changes
    BY <1>1 DEF control, registry
  <2>4. sortErr' = sortErr /\ leader' = leader /\ late' = late
    BY <1>1 DEF control, registry
  <2>5. sortErr' \in BOOLEAN /\ leader' \in BOOLEAN /\ late' \in BOOLEAN
    BY <2>2, <2>4, Zenon
  <2> QED
    BY <1>4, <1>5, <2>1, <2>3, <2>5 DEF TypeOK
<1>7. Scanning'
  <2>1. dependsOn' = dependsOn
    BY <1>1 DEF registry
  <2>3. ASSUME NEW h \in Gens PROVE ScanOk(loop[h])'
    <3>1. ScanOk(loop[h])
      BY DEF Scanning
    <3>2. CASE h = g
      BY <1>1, <1>3, <2>1, <3>2 DEF ScanOk, Follows, NoneBefore, Skips
    <3>3. CASE h # g
      BY <1>3, <2>1, <3>1, <3>3 DEF ScanOk, Follows, NoneBefore, Skips
    <3> QED
      BY <3>2, <3>3
  <2> QED
    BY <2>3 DEF Scanning
<1> QED
  BY <1>3, <1>6, <1>7

\* What depends on the registry changes only with it.
LEMMA SortedKept ==
  ASSUME Sorted, UNCHANGED <<dependsOn, enabled, sortedChecks, sortErr>>
  PROVE  Sorted'
<1>1. dependsOn' = dependsOn /\ enabled' = enabled /\ sortedChecks' = sortedChecks
  OBVIOUS
<1>2. sortErr' <=> sortErr
  OBVIOUS
<1>3. Circle(enabled)' <=> Circle(enabled)
  BY <1>1 DEF Circle
<1>4. Ordered(enabled, sortedChecks)' <=> Ordered(enabled, sortedChecks)
  BY <1>1 DEF Ordered, Grounded, Missing
<1>5. Follows(sortedChecks)' <=> Follows(sortedChecks)
  BY <1>1 DEF Follows
<1> QED
  BY <1>1, <1>2, <1>3, <1>4, <1>5 DEF Sorted

\* What depends on the checks a scan has at hand changes only with them.
LEMMA ScanningKept ==
  ASSUME Scanning, dependsOn' = dependsOn,
         \A g \in Gens : /\ loop'[g].left = loop[g].left
                         /\ loop'[g].results = loop[g].results
  PROVE  Scanning'
<1> SUFFICES ASSUME NEW g \in Gens PROVE ScanOk(loop[g])'
  BY DEF Scanning
<1>1. ScanOk(loop[g])
  BY DEF Scanning
<1> QED
  BY <1>1 DEF ScanOk, Follows, NoneBefore, Skips

\* Register and Unregister sort again.
LEMMA Rebuilt ==
  ASSUME NEW S \in SUBSET Checks, Rebuild(S), enabled' = S, dependsOn' = dependsOn
  PROVE  Sorted' /\ sortedChecks' \in Seq(Checks) /\ sortErr' \in BOOLEAN
<1>1. IsFiniteSet(S)
  BY ScheduleData, FS_Subset
<1>2. PICK s \in TopologicalSort(S) : /\ sortErr' = (Len(s) # Cardinality(S))
                                      /\ sortedChecks' = IF sortErr' THEN <<>> ELSE s
  BY DEF Rebuild
<1>3. Ordered(S, s)
  BY <1>1, Sorts
<1>4. (Len(s) # Cardinality(S)) <=> Circle(S)
  BY <1>1, <1>3, CirclesShow
<1>5. Follows(s)
  BY <1>1, <1>3, OrderFollows
<1>6. sortErr' <=> Circle(S)
  BY <1>2, <1>4
<1>7. sortErr' \in BOOLEAN
  BY <1>2
<1>8. sortErr' => sortedChecks' = <<>>
  BY <1>2
<1>9. ~sortErr' => sortedChecks' = s /\ Len(s) = Cardinality(S)
  BY <1>2
<1>10. Circle(enabled)' <=> Circle(S)
  BY DEF Circle
<1>11. Ordered(S, sortedChecks') => Ordered(enabled, sortedChecks)'
  BY DEF Ordered, Grounded, Missing
<1>12. Follows(sortedChecks)'
  <2>1. CASE sortErr'
    BY <1>8, <2>1 DEF Follows
  <2>2. CASE ~sortErr'
    BY <1>5, <1>9, <2>2 DEF Follows
  <2> QED
    BY <2>1, <2>2
<1>13. sortedChecks' \in Seq(Checks)
  <2>1. s \in Seq(Checks)
    BY <1>3, Wider DEF Ordered
  <2>2. CASE sortErr'
    BY <1>8, <2>2
  <2>3. CASE ~sortErr'
    BY <1>9, <2>1, <2>3
  <2> QED
    BY <2>2, <2>3
<1>14. ~sortErr' => Ordered(enabled, sortedChecks)' /\ Len(sortedChecks') = Cardinality(enabled')
  BY <1>3, <1>9, <1>11
<1>15. Sorted'
  BY <1>6, <1>10, <1>12, <1>14 DEF Sorted
<1> QED
  BY <1>7, <1>13, <1>15

\* A step of a goroutine keeps what is known of the generations: it closes its own
\* channel, unless a Start overtook one that had not begun.
LEMMA LoopEnds ==
  ASSUME TypeOK, Scanning, Ending, NEW g \in Gens, NEW l, Went(g, l)
  PROVE  Ending'
<1>1. loop'[g] = l /\ \A h \in Gens \ {g} : loop'[h] = loop[h]
  BY MovesTyped
<1>2. starts' = starts /\ waits' = waits /\ running' = running
  BY DEF Went, Moves, control
<1>3. late' <=> late
  BY DEF Went, Moves
<1>4. ~panicked /\ (GoesOn(g, l) \/ Begins(g, l) \/ Closes(g, l))
  BY DEF Went
<1>5. loop[g].pc \notin {"none", "ended"} /\ l.pc \notin {"none", "new"}
  BY <1>4 DEF GoesOn, Begins, Closes
<1>6. Fresh'
  BY <1>1, <1>2, <1>5 DEF Ending, Fresh
<1>7. OneNew'
  BY <1>1, <1>2, <1>3, <1>5 DEF Ending, OneNew
<1>8. OwnChannel'
  <2> SUFFICES ASSUME ~late, NEW h \in Gens, loop'[h].pc \notin {"none", "new"}
               PROVE  loop'[h].chan = h
    BY <1>3 DEF OwnChannel
  <2>1. CASE h # g
    BY <1>1, <2>1 DEF Ending, OwnChannel
  <2>2. CASE h = g /\ Begins(g, l)
    BY <1>1, <2>2 DEF Ending, OneNew, Begins
  <2>3. CASE h = g /\ (GoesOn(g, l) \/ Closes(g, l))
    <3>1. loop[g].pc \notin {"none", "new"} /\ l.chan = loop[g].chan
      BY <2>3 DEF GoesOn, Closes
    <3> QED
      BY <1>1, <2>3, <3>1 DEF Ending, OwnChannel
  <2> QED
    BY <1>4, <2>1, <2>2, <2>3
<1>9. ~late => \A c \in closed : c \in Gens \ {g} /\ loop[c].pc = "ended"
  BY <1>5 DEF Ending, EndedIfClosed
<1>10. Closes(g, l) /\ ~late => loop[g].chan = g
  BY DEF Ending, OwnChannel, Closes
<1>11. EndedIfClosed'
  <2> SUFFICES ASSUME ~late, NEW c \in closed' PROVE c \in Gens /\ loop'[c].pc = "ended"
    BY <1>3 DEF EndedIfClosed
  <2>1. CASE c \in closed
    BY <1>1, <1>9, <2>1
  <2>2. CASE c \notin closed
    <3>1. Closes(g, l) /\ c = loop[g].chan
      BY <1>4, <2>2 DEF GoesOn, Begins, Closes
    <3> QED
      BY <1>1, <1>10, <3>1 DEF Closes
  <2> QED
    BY <2>1, <2>2
<1>12. ClosedOnce'
  <2> SUFFICES ASSUME panicked', ~late PROVE FALSE
    BY <1>3 DEF ClosedOnce
  <2>1. Closes(g, l) /\ loop[g].chan \in closed
    BY <1>4 DEF GoesOn, Begins, Closes
  <2> QED
    BY <1>9, <1>10, <2>1
<1>13. StopMeansStopped'
  <2> SUFFICES ASSUME ~late, NEW c \in 1..starts, c # running,
                      \A u \in Callers : waits[u] # c
               PROVE  loop'[c].pc = "ended"
    BY <1>2, <1>3 DEF StopMeansStopped
  <2>1. loop[c].pc = "ended"
    BY DEF Ending, StopMeansStopped
  <2>2. c \in Gens \ {g}
    <3>1. starts \in 0..MaxStarts /\ MaxStarts \in Nat
      BY ScheduleData DEF TypeOK
    <3>2. c \in Gens
      BY <3>1 DEF Gens
    <3>3. c # g
      BY <1>5, <2>1
    <3> QED
      BY <3>2, <3>3
  <2> QED
    BY <1>1, <2>1, <2>2
<1>14. ClosedIfEnded'
  <2> SUFFICES ASSUME ~late, NEW h \in Gens, loop'[h].pc = "ended" PROVE h \in closed'
    BY <1>3 DEF ClosedIfEnded
  <2>1. closed \subseteq closed'
    BY <1>4 DEF GoesOn, Begins, Closes
  <2>2. CASE h # g
    BY <1>1, <2>1, <2>2 DEF Ending, ClosedIfEnded
  <2>3. CASE h = g
    <3>1. Closes(g, l)
      BY <1>1, <1>4, <2>3 DEF GoesOn, Begins
    <3> QED
      BY <1>10, <2>3, <3>1 DEF Closes
  <2> QED
    BY <2>2, <2>3
<1>15. AwaitedIsOver'
  BY <1>2 DEF Ending, AwaitedIsOver
<1> QED
  BY <1>6, <1>7, <1>8, <1>11, <1>12, <1>13, <1>14, <1>15 DEF Ending

\* Steps that touch no generation.
LEMMA EndingKept ==
  ASSUME Ending, UNCHANGED <<starts, running, waits, closed, panicked, loop, late>>
  PROVE  Ending'
<1>1. starts' = starts /\ running' = running /\ waits' = waits /\ closed' = closed
      /\ loop' = loop
  OBVIOUS
<1>2. (panicked' <=> panicked) /\ (late' <=> late)
  OBVIOUS
<1> QED
  BY <1>1, <1>2 DEF Ending, Fresh, OneNew, OwnChannel, EndedIfClosed, ClosedIfEnded,
                    AwaitedIsOver, ClosedOnce, StopMeansStopped

-----------------------------------------------------------------------------
\* The invariant holds in the initial states.
LEMMA InvStarts == Init => Inv
<1> SUFFICES ASSUME Init PROVE Inv
  OBVIOUS
<1> DEFINE S == enabled
<1>1. /\ enabled = S
      /\ \E s \in TopologicalSort(S) : /\ sortErr = (Len(s) # Cardinality(S))
                                       /\ sortedChecks = IF sortErr THEN <<>> ELSE s
  BY DEF Init
<1>2. S \in SUBSET Checks /\ IsFiniteSet(S)
      /\ dependsOn \in [Checks -> SUBSET Checks] /\ interval \in [Checks -> 0..MaxInterval]
  <2>1. PICK p \in Programs : enabled = p.enabled /\ dependsOn = p.dependsOn /\ interval = p.interval
    BY DEF Init
  <2>2. p \in [enabled : SUBSET Checks, dependsOn : [Checks -> SUBSET Checks],
               interval : [Checks -> 0..MaxInterval]]
    BY ScheduleData
  <2>3. enabled \in SUBSET Checks
    BY <2>1, <2>2
  <2> QED
    BY <2>1, <2>2, <2>3, ScheduleData, FS_Subset
<1> HIDE DEF S
<1>3. PICK s \in TopologicalSort(S) : /\ sortErr = (Len(s) # Cardinality(S))
                                      /\ sortedChecks = IF sortErr THEN <<>> ELSE s
  BY <1>1
<1>4. Ordered(S, s)
  BY <1>2, Sorts
<1>5. (Len(s) # Cardinality(S)) <=> Circle(S)
  BY <1>2, <1>4, CirclesShow
<1>6. Follows(s)
  BY <1>2, <1>4, OrderFollows
<1>7. sortErr => sortedChecks = <<>>
  BY <1>3
<1>8. ~sortErr => sortedChecks = s /\ Len(s) = Cardinality(S)
  BY <1>3
<1>9. sortErr <=> Circle(enabled)
  BY <1>1, <1>3, <1>5
<1>10. Follows(sortedChecks) /\ sortedChecks \in Seq(Checks)
  <2>1. s \in Seq(Checks)
    BY <1>2, <1>4, Wider DEF Ordered
  <2>2. CASE sortErr
    BY <1>7, <2>2 DEF Follows
  <2>3. CASE ~sortErr
    BY <1>6, <1>8, <2>1, <2>3
  <2> QED
    BY <2>2, <2>3
<1>11. Sorted
  BY <1>1, <1>4, <1>8, <1>9, <1>10 DEF Sorted
<1>12. /\ leader \in BOOLEAN
       /\ starts = 0 /\ running = 0 /\ cancelled = {} /\ closed = {} /\ panicked = FALSE
       /\ loop = [g \in Gens |-> NoLoop]
       /\ waits = [u \in Callers |-> 0]
       /\ late = FALSE /\ changes = 0
  BY DEF Init
<1>13. sortErr \in BOOLEAN
  BY <1>3
<1>14. TypeOK
  <2>1. loop \in [Gens -> Loops]
    BY <1>12, NoLoopIsLoop
  <2>2. 0 \in 0..MaxStarts /\ 0 \in 0..MaxChanges /\ 0 \in 0..0
    BY ScheduleData
  <2>3. waits \in [Callers -> 0..starts]
    BY <1>12, <2>2
  <2> QED
    BY <1>1, <1>2, <1>10, <1>12, <1>13, <2>1, <2>2, <2>3 DEF TypeOK
<1>15. \A g \in Gens : loop[g] = NoLoop
  BY <1>12
<1>16. Scanning
  BY <1>15, NoLoopIsLoop DEF Scanning
<1>17. Ending
  <2>1. \A g \in Gens : g > starts
    BY <1>12 DEF Gens
  <2> QED
    BY <1>12, <1>15, <2>1, NoLoopIsLoop
       DEF Ending, Fresh, OneNew, OwnChannel, EndedIfClosed, ClosedIfEnded, AwaitedIsOver,
           ClosedOnce, StopMeansStopped
<1> QED
  BY <1>11, <1>14, <1>16, <1>17 DEF Inv

\* Every step keeps it.
LEMMA InvStays == Inv /\ [Next]_vars => Inv'
<1> SUFFICES ASSUME Inv, [Next]_vars PROVE Inv'
  OBVIOUS
<1> USE DEF Inv
<1>1. /\ dependsOn \in [Checks -> SUBSET Checks] /\ interval \in [Checks -> 0..MaxInterval]
      /\ enabled \subseteq Checks /\ sortedChecks \in Seq(Checks)
      /\ starts \in 0..MaxStarts /\ running \in 0..starts /\ cancelled \subseteq 1..starts
      /\ closed \subseteq 0..MaxStarts /\ loop \in [Gens -> Loops]
      /\ waits \in [Callers -> 0..starts] /\ changes \in 0..MaxChanges
  BY DEF TypeOK
<1>2. sortErr \in BOOLEAN /\ leader \in BOOLEAN /\ panicked \in BOOLEAN /\ late \in BOOLEAN
  BY DEF TypeOK
<1>3. Sorted /\ Scanning /\ Ending
  OBVIOUS
<1>4. MaxStarts \in Nat /\ MaxChanges \in Nat
  BY ScheduleData
<1>5. ASSUME Changes PROVE changes' \in 0..MaxChanges
  BY <1>1, <1>4, <1>5 DEF Changes
<1>6. ASSUME UNCHANGED <<control, dependsOn, leader, cancelled, closed, panicked, loop, late>>,
             Changes, Rebuild(enabled'), enabled' \in SUBSET Checks,
             interval' \in [Checks -> 0..MaxInterval]
      PROVE  Inv'
  <2>1. /\ UNCHANGED <<control, dependsOn, leader, cancelled, closed, panicked, loop, late>>
        /\ Changes /\ Rebuild(enabled')
        /\ enabled' \in SUBSET Checks
        /\ interval' \in [Checks -> 0..MaxInterval]
    BY <1>6
  <2>2. Sorted' /\ sortedChecks' \in Seq(Checks) /\ sortErr' \in BOOLEAN
    <3>1. ASSUME NEW S, S = enabled'
          PROVE  Sorted' /\ sortedChecks' \in Seq(Checks) /\ sortErr' \in BOOLEAN
      BY <2>1, <3>1, Rebuilt
    <3> QED
      BY <3>1
  <2>3. UNCHANGED <<starts, waits, cancelled, closed, panicked, loop, late, running,
                    dependsOn, leader>>
    BY <2>1 DEF control
  <2>4. Ending'
    BY <1>3, <2>3, EndingKept
  <2>5. Scanning'
    BY <1>3, <2>3, ScanningKept
  <2>6. leader' \in BOOLEAN /\ panicked' \in BOOLEAN /\ late' \in BOOLEAN
    BY <1>2, <2>3
  <2>7. TypeOK'
    BY <1>1, <1>5, <2>1, <2>2, <2>3, <2>6 DEF TypeOK
  <2> QED
    BY <2>2, <2>4, <2>5, <2>7
<1>7. ASSUME Elect PROVE Inv'
  <2>1. /\ UNCHANGED <<control, dependsOn, enabled, interval, sortedChecks, sortErr, cancelled,
                       closed, panicked, loop, late>>
        /\ Changes /\ leader' \in BOOLEAN
    BY <1>7 DEF Elect
  <2>2. UNCHANGED <<starts, waits, cancelled, closed, panicked, loop, late, running,
                    dependsOn, enabled, interval, sortedChecks, sortErr>>
    BY <2>1 DEF control
  <2>3. Ending' /\ Scanning' /\ Sorted'
    BY <1>3, <2>2, EndingKept, ScanningKept, SortedKept
  <2>4. sortErr' \in BOOLEAN /\ panicked' \in BOOLEAN /\ late' \in BOOLEAN
    BY <1>2, <2>2
  <2>5. TypeOK'
    BY <1>1, <1>5, <2>1, <2>2, <2>4 DEF TypeOK
  <2> QED
    BY <2>3, <2>5
<1>8. ASSUME NEW u \in Callers, Start(u) PROVE Inv'
  <2> DEFINE n == starts + 1
  <2>1. /\ starts < MaxStarts /\ starts' = n /\ running = 0 /\ running' = n /\ ~panicked
        /\ loop' = [loop EXCEPT ![n].pc = "new"]
        /\ UNCHANGED <<registry, cancelled, closed, panicked, waits>>
    BY <1>8 DEF Start
  <2>2. late' <=> (late \/ \E g \in Gens : loop[g].pc = "new")
    BY <1>8 DEF Start
  <2>3. late' \in BOOLEAN
    BY <1>2, <1>8 DEF Start
  <2>4. n \in Gens /\ n \in 0..MaxStarts /\ n \in 0..n /\ ~(n <= starts)
    BY <1>1, <1>4, <2>1 DEF Gens
  <2>5. loop[n] \in Loops
    BY <1>1, <2>4
  <2>6. [loop[n] EXCEPT !.pc = "new"] \in Loops
    BY <2>5 DEF Loops, Pcs
  <2>7. /\ \A h \in Gens \ {n} : loop'[h] = loop[h]
        /\ loop'[n] = [loop[n] EXCEPT !.pc = "new"]
        /\ loop' \in [Gens -> Loops]
    BY <1>1, <2>1, <2>4, <2>6
  <2>8. loop'[n].pc = "new" /\ loop'[n].left = loop[n].left /\ loop'[n].results = loop[n].results
    BY <2>5, <2>7 DEF Loops
  <2>9. loop[n].pc = "none"
    BY <1>1, <1>3, <2>1, <2>4 DEF Ending, Fresh
  <2>10. /\ dependsOn' = dependsOn /\ enabled' = enabled /\ sortedChecks' = sortedChecks
         /\ changes' = changes /\ cancelled' = cancelled /\ closed' = closed /\ waits' = waits
         /\ interval' = interval
    BY <2>1 DEF registry
  <2>11. sortErr' = sortErr /\ leader' = leader /\ panicked' = panicked
    BY <2>1 DEF registry
  <2>12. Sorted'
    BY <1>3, <2>10, <2>11, SortedKept
  <2>13. Scanning'
    BY <1>3, <2>7, <2>8, <2>10, ScanningKept
  <2>14. sortErr' \in BOOLEAN /\ leader' \in BOOLEAN /\ panicked' \in BOOLEAN
    BY <1>2, <2>11
  <2>15. TypeOK'
    <3>1. cancelled' \subseteq 1..n
      BY <1>1, <2>10
    <3>2. waits' \in [Callers -> 0..n]
      <4>1. 0..starts \subseteq 0..n
        BY <1>1
      <4> QED
        BY <1>1, <2>10, <4>1
    <3> QED
      BY <1>1, <2>1, <2>3, <2>4, <2>7, <2>10, <2>14, <3>1, <3>2 DEF TypeOK
  <2>16. Fresh'
    <3>1. \A h \in Gens : h > n <=> h > starts /\ h # n
      BY <1>1 DEF Gens
    <3> QED
      BY <1>3, <2>1, <2>7, <2>8, <3>1 DEF Ending, Fresh
  <2>17. OneNew'
    BY <2>1, <2>2, <2>7 DEF OneNew
  <2>18. OwnChannel'
    BY <1>3, <2>2, <2>7, <2>8 DEF Ending, OwnChannel
  <2>19. EndedIfClosed'
    BY <1>3, <2>2, <2>7, <2>9, <2>10 DEF Ending, EndedIfClosed
  <2>20. ClosedOnce'
    BY <2>1, <2>11 DEF ClosedOnce
  <2>21. StopMeansStopped'
    <3> SUFFICES ASSUME ~late, NEW c \in 1..n, c # n, \A v \in Callers : waits[v] # c
                 PROVE  loop'[c].pc = "ended"
      BY <2>1, <2>2, <2>10 DEF StopMeansStopped
    <3>0. c \in 1..starts /\ c # 0
      BY <1>1
    <3>1. loop[c].pc = "ended"
      BY <1>3, <2>1, <3>0 DEF Ending, StopMeansStopped
    <3>2. c \in Gens \ {n}
      <4>1. c \in 1..starts
        BY <3>0
      <4>2. c # n
        BY <1>1, <2>4, <4>1
      <4> QED
        BY <1>1, <1>4, <4>1, <4>2 DEF Gens
    <3> QED
      BY <2>7, <3>1, <3>2
  <2>22. ClosedIfEnded' /\ AwaitedIsOver'
    <3>1. ClosedIfEnded'
      BY <1>3, <2>2, <2>7, <2>8, <2>10 DEF Ending, ClosedIfEnded
    <3>2. \A u2 \in Callers : waits[u2] # n
      BY <1>1
    <3>3. AwaitedIsOver'
      BY <2>1, <2>10, <3>2 DEF AwaitedIsOver
    <3> QED
      BY <3>1, <3>3
  <2>23. Ending'
    BY <2>16, <2>17, <2>18, <2>19, <2>20, <2>21, <2>22 DEF Ending
  <2> QED
    BY <2>12, <2>13, <2>15, <2>23
<1>9. ASSUME UNCHANGED <<registry, starts, closed, panicked, loop, late>>,
             running' \in 0..starts, cancelled' \subseteq 1..starts,
             waits' \in [Callers -> 0..starts], AwaitedIsOver',
             ~late => \A c \in 1..starts :
                         c # running' /\ (\A v \in Callers : waits'[v] # c) => loop[c].pc = "ended"
      PROVE Inv'
  <2>1. /\ dependsOn' = dependsOn /\ enabled' = enabled /\ sortedChecks' = sortedChecks
        /\ interval' = interval
        /\ changes' = changes /\ closed' = closed /\ starts' = starts /\ loop' = loop
    BY <1>9 DEF registry
  <2>2. sortErr' = sortErr /\ leader' = leader /\ panicked' = panicked /\ late' = late
    BY <1>9 DEF registry
  <2>3. Sorted' /\ Scanning'
    BY <1>3, <2>1, <2>2, SortedKept, ScanningKept
  <2>4. sortErr' \in BOOLEAN /\ leader' \in BOOLEAN /\ panicked' \in BOOLEAN /\ late' \in BOOLEAN
    BY <1>2, <2>2
  <2>5. TypeOK'
    BY <1>1, <1>9, <2>1, <2>4 DEF TypeOK
  <2>6. StopMeansStopped'
    BY <1>9, <2>1, <2>2 DEF StopMeansStopped
  <2>7. Fresh' /\ OneNew' /\ OwnChannel' /\ EndedIfClosed' /\ ClosedIfEnded' /\ ClosedOnce'
    BY <1>3, <2>1, <2>2
       DEF Ending, Fresh, OneNew, OwnChannel, EndedIfClosed, ClosedIfEnded, ClosedOnce
  <2>8. Ending'
    BY <1>9, <2>6, <2>7 DEF Ending
  <2> QED
    BY <2>3, <2>5, <2>8
<1>14. ASSUME UNCHANGED <<registry, control, closed, panicked, loop, late>>,
              cancelled' \subseteq 1..starts
       PROVE  Inv'
  <2>1. UNCHANGED <<registry, starts, closed, panicked, loop, late>>
    BY <1>14 DEF control
  <2>2. running' = running /\ waits' = waits
    BY <1>14 DEF control
  <2>3. ~late => \A c \in 1..starts :
                    c # running' /\ (\A v \in Callers : waits'[v] # c) => loop[c].pc = "ended"
    BY <1>3, <2>2 DEF Ending, StopMeansStopped
  <2>4. AwaitedIsOver'
    BY <1>3, <2>2 DEF Ending, AwaitedIsOver
  <2> QED
    BY <1>1, <1>9, <1>14, <2>1, <2>2, <2>3, <2>4
<1>13. ASSUME UNCHANGED vars PROVE Inv'
  <2>1. UNCHANGED <<registry, control, closed, panicked, loop, late>> /\ cancelled' = cancelled
    BY <1>13 DEF vars
  <2> QED
    BY <1>1, <1>14, <2>1
<1>10. ASSUME NEW u \in Callers, Stop(u), running # 0 PROVE Inv'
  <2>1. /\ waits[u] = 0 /\ running # 0 /\ cancelled' = cancelled
        /\ waits' = [waits EXCEPT ![u] = running] /\ running' = 0
        /\ UNCHANGED <<starts, registry, closed, panicked, loop, late>>
    BY <1>10 DEF Stop
  <2>2. running \in 1..starts /\ running' \in 0..starts
    BY <1>1, <2>1
  <2>3. cancelled' \subseteq 1..starts /\ waits' \in [Callers -> 0..starts]
    BY <1>1, <2>1, <2>2
  <2>6. waits'[u] = running /\ \A v \in Callers \ {u} : waits'[v] = waits[v]
    BY <1>1, <2>1
  <2>4. ASSUME ~late, NEW c \in 1..starts, c # running', \A v \in Callers : waits'[v] # c
        PROVE  loop[c].pc = "ended"
    <3>1. c # running /\ c # 0
      BY <1>1, <2>4, <2>6
    <3>2. \A v \in Callers : waits[v] # c
      BY <2>1, <2>4, <2>6, <3>1
    <3> QED
      BY <1>3, <2>4, <3>1, <3>2 DEF Ending, StopMeansStopped
  <2>5. AwaitedIsOver'
    BY <2>1 DEF AwaitedIsOver
  <2> QED
    BY <1>9, <2>1, <2>2, <2>3, <2>4, <2>5
<1>15. ASSUME NEW u \in Callers, Stop(u) PROVE Inv'
  <2>1. CASE running # 0
    BY <1>10, <1>15, <2>1
  <2>2. CASE running = 0
    BY <1>13, <1>15, <2>2 DEF Stop
  <2> QED
    BY <2>1, <2>2
<1>16. ASSUME NEW u \in Callers, Cancel(u) PROVE Inv'
  <2>1. /\ UNCHANGED <<control, registry, closed, panicked, loop, late>>
        /\ cancelled' = cancelled \cup {waits[u]} /\ waits[u] # 0
    BY <1>16 DEF Cancel
  <2>2. waits[u] \in 1..starts
    BY <1>1, <2>1
  <2> QED
    BY <1>1, <1>14, <2>1, <2>2
<1>17. ASSUME CancelParent PROVE Inv'
  <2>1. /\ UNCHANGED <<control, registry, closed, panicked, loop, late>>
        /\ cancelled' = cancelled \cup {running} /\ running # 0
    BY <1>17 DEF CancelParent
  <2>2. running \in 1..starts
    BY <1>1, <2>1
  <2> QED
    BY <1>1, <1>14, <2>1, <2>2
<1>11. ASSUME NEW u \in Callers, Stopped(u) PROVE Inv'
  <2>1. /\ waits[u] \in closed /\ waits' = [waits EXCEPT ![u] = 0]
        /\ UNCHANGED <<starts, running, registry, cancelled, closed, panicked, loop, late>>
    BY <1>11 DEF Stopped
  <2>2. /\ waits' \in [Callers -> 0..starts]
        /\ running' \in 0..starts /\ cancelled' \subseteq 1..starts
    BY <1>1, <2>1
  <2>3. ASSUME ~late, NEW c \in 1..starts, c # running', \A v \in Callers : waits'[v] # c
        PROVE  loop[c].pc = "ended"
    <3>1. \A v \in Callers \ {u} : waits'[v] = waits[v]
      BY <1>1, <2>1
    <3>2. CASE waits[u] = c
      BY <1>3, <2>1, <2>3, <3>2 DEF Ending, EndedIfClosed
    <3>3. CASE waits[u] # c
      <4>1. \A v \in Callers : waits[v] # c
        BY <2>3, <3>1, <3>3
      <4> QED
        BY <1>3, <2>1, <2>3, <4>1 DEF Ending, StopMeansStopped
    <3> QED
      BY <3>2, <3>3
  <2>4. AwaitedIsOver'
    <3>1. waits'[u] = 0 /\ \A v \in Callers \ {u} : waits'[v] = waits[v]
      BY <1>1, <2>1
    <3> QED
      BY <1>3, <2>1, <3>1 DEF Ending, AwaitedIsOver
  <2> QED
    BY <1>9, <2>1, <2>2, <2>3, <2>4
<1>12. ASSUME NEW g \in Gens, Loop(g) PROVE Inv'
  <2>1. PICK l : Went(g, l)
    BY <1>12, LoopStep
  <2>2. TypeOK' /\ Scanning' /\ Ending'
    BY <2>1, MovesTyped, LoopEnds
  <2>3. UNCHANGED <<dependsOn, enabled, sortedChecks, sortErr>>
    BY <2>1 DEF Went, Moves, registry
  <2>4. Sorted'
    BY <2>3, SortedKept
  <2> QED
    BY <2>2, <2>4
<1>18. ASSUME NEW x \in Checks, Unregister(x) PROVE Inv'
  <2>1. /\ UNCHANGED <<control, dependsOn, interval, leader, cancelled, closed, panicked, loop, late>>
        /\ Changes /\ Rebuild(enabled') /\ enabled' \in SUBSET Checks
    BY <1>1, <1>18 DEF Unregister
  <2>2. interval' \in [Checks -> 0..MaxInterval]
    BY <1>1, <2>1
  <2> QED
    BY <1>6, <2>1, <2>2
<1>19. ASSUME NEW x \in Checks, NEW n \in NewIntervals, Register(x, n) PROVE Inv'
  <2>1. /\ UNCHANGED <<control, dependsOn, leader, cancelled, closed, panicked, loop, late>>
        /\ Changes /\ Rebuild(enabled') /\ enabled' \in SUBSET Checks
        /\ interval' = [interval EXCEPT ![x] = n]
    BY <1>1, <1>19 DEF Register
  <2>2. n \in 0..MaxInterval
    BY ScheduleData
  <2>3. interval' \in [Checks -> 0..MaxInterval]
    BY <1>1, <2>1, <2>2
  <2> QED
    BY <1>6, <2>1, <2>3
<1> QED
  BY <1>7, <1>8, <1>11, <1>12, <1>13, <1>15, <1>16, <1>17, <1>18, <1>19 DEF Next

\* It is an invariant of the specification.
LEMMA Invariant == Spec => []Inv
BY InvStarts, InvStays, PTL DEF Spec

\* Every variable keeps to its type: a run of the loop has a ticker with a duration, and
\* the lists it goes through are lists of checks.
THEOREM TypeCorrect == Spec => []TypeOK
<1>1. Inv => TypeOK
  BY DEF Inv
<1> QED
  BY <1>1, Invariant, PTL

\* topologicalSort orders any set of checks: each enabled check is there once, after all
\* it depends on, and an error is reported exactly if some of them wait for each other.
THEOREM OrderHonours == Spec => []OrderHonoursDependencies
<1>1. Inv => OrderHonoursDependencies
  <2> SUFFICES ASSUME Inv PROVE OrderHonoursDependencies
    OBVIOUS
  <2>1. sortErr <=> \E S \in (SUBSET enabled) \ {{}} : \A x \in S : dependsOn[x] \cap S # {}
    BY DEF Inv, Sorted, Circle
  <2>2. ASSUME ~sortErr
        PROVE  Range(sortedChecks) = enabled /\ Len(sortedChecks) = Cardinality(enabled)
    <3>1. enabled \in SUBSET Checks
      BY DEF Inv, TypeOK
    <3>2. IsFiniteSet(enabled)
      BY <3>1, ScheduleData, FS_Subset
    <3>3. sortedChecks \in Seq(enabled) /\ Distinct(sortedChecks)
          /\ Len(sortedChecks) = Cardinality(enabled)
      BY <2>2 DEF Inv, Sorted, Ordered
    <3> QED
      BY <3>2, <3>3, RangeCounts
  <2>3. \A i, j \in DOMAIN sortedChecks :
           sortedChecks[j] \in dependsOn[sortedChecks[i]] => j < i
    BY DEF Inv, Sorted, Follows
  <2> QED
    BY <2>1, <2>2, <2>3 DEF OrderHonoursDependencies
<1> QED
  BY <1>1, Invariant, PTL

\* RunAll skips whatever depends on a check that failed or was skipped, even if checks are
\* registered and removed while it runs.
THEOREM ScanSkips == Spec => []ScanSkipsDependents
<1>1. Inv => ScanSkipsDependents
  BY DEF Inv, Scanning, ScanOk, Skips, ScanSkipsDependents
<1> QED
  BY <1>1, Invariant, PTL

\* The deferred close of the loop panics only if a Start overtook a goroutine that had not
\* begun.
THEOREM NoDoubleClose == Spec => []ClosedOnce
<1>1. Inv => ClosedOnce
  BY DEF Inv, Ending
<1> QED
  BY <1>1, Invariant, PTL

\* When Stop has returned the goroutine of its run has ended, with the same exception.
THEOREM StopsForGood == Spec => []StopMeansStopped
<1>1. Inv => StopMeansStopped
  BY DEF Inv, Ending
<1> QED
  BY <1>1, Invariant, PTL

\* Whoever waits in Stop waits for a run that is no longer the current one, so that it alone
\* cancels it, and that either has ended or is still there to end.
AwaitedWillEnd ==
    ~late => \A u \in Callers : waits[u] # 0 =>
       /\ waits[u] # running
       /\ waits[u] \in closed \/ loop[waits[u]].pc \in {"new", "scan", "arm", "select", "tick"}

\* Stop never waits for a channel that nobody will close, with the same exception: the
\* goroutine it waits for has closed its channel or is still running, and no later Start
\* took its place.  StopReturns rests on this and on fairness.
THEOREM NobodyWaitsInVain == Spec => []AwaitedWillEnd
<1>1. Inv => AwaitedWillEnd
  <2> SUFFICES ASSUME Inv, ~late, NEW u \in Callers, waits[u] # 0
               PROVE  /\ waits[u] # running
                      /\ \/ waits[u] \in closed
                         \/ loop[waits[u]].pc \in {"new", "scan", "arm", "select", "tick"}
    BY DEF AwaitedWillEnd
  <2>1. waits[u] # running
    BY DEF Inv, Ending, AwaitedIsOver
  <2>2. /\ waits[u] \in 1..starts /\ starts \in 0..MaxStarts /\ MaxStarts \in Nat
        /\ loop \in [Gens -> Loops]
    <3>1. waits \in [Callers -> 0..starts] /\ starts \in 0..MaxStarts /\ loop \in [Gens -> Loops]
      BY DEF Inv, TypeOK
    <3>2. starts \in Nat
      BY <3>1, ScheduleData
    <3>3. waits[u] \in 0..starts
      BY <3>1
    <3> QED
      BY <3>1, <3>2, <3>3, ScheduleData
  <2>3. waits[u] \in Gens /\ ~(waits[u] > starts)
    BY <2>2 DEF Gens
  <2>4. loop[waits[u]].pc \in Pcs \ {"none"}
    BY <2>2, <2>3 DEF Inv, Ending, Fresh, Loops
  <2>5. loop[waits[u]].pc = "ended" => waits[u] \in closed
    BY <2>3 DEF Inv, Ending, ClosedIfEnded
  <2> QED
    BY <2>1, <2>4, <2>5 DEF Pcs
<1> QED
  BY <1>1, Invariant, PTL
=============================================================================
