------------------------- MODULE UsageTrackerProofs -------------------------
(***************************************************************************)
(* Theorems about the usage tracker, for any requests, health checks,      *)
(* rules and windows.                                                      *)
(***************************************************************************)
EXTENDS UsageTracker, FiniteSetTheorems, TLAPS

-----------------------------------------------------------------------------
\* The positions of a set in their order: each comes once; the first ones come as they are.
LEMMA Positions ==
    ASSUME NEW n \in Nat, NEW I \in SUBSET (1..n)
    PROVE  /\ Cardinality(I) \in Nat
           /\ InOrder(I) \in [1..Cardinality(I) -> I]
           /\ \A i \in I : \E k \in 1..Cardinality(I) : InOrder(I)[k] = i
           /\ \A k, m \in 1..Cardinality(I) : InOrder(I)[k] = InOrder(I)[m] => k = m
           /\ (\A i \in I : \A j \in 1..n : j <= i => j \in I)
                 => \A k \in 1..Cardinality(I) : InOrder(I)[k] = k
  <1> DEFINE upTo(x) == {y \in I : y <= x}
             rank(x) == Cardinality(upTo(x))
             N == Cardinality(I)
             f == [i \in I |-> rank(i)]
  <1>0. \A i \in I : i \in 1..n /\ i \in Int
    OBVIOUS
  <1>1. IsFiniteSet(1..n) /\ IsFiniteSet(I) /\ N \in Nat
    <2>1. IsFiniteSet(1..n)
      BY FS_Interval
    <2>2. IsFiniteSet(I)
      BY <2>1, FS_Subset
    <2> QED BY <2>1, <2>2, FS_CardinalityType
  <1>2. ASSUME NEW i \in I PROVE rank(i) \in 1..N /\ IsFiniteSet(upTo(i))
    <2>1. upTo(i) \in SUBSET I
      OBVIOUS
    <2>2. IsFiniteSet(upTo(i)) /\ rank(i) <= N
      BY <1>1, <2>1, FS_Subset
    <2>3. rank(i) \in Nat /\ (rank(i) = 0 <=> upTo(i) = {})
      BY <2>2, FS_CardinalityType, FS_EmptySet
    <2>4. i \in upTo(i)
      OBVIOUS
    <2> QED BY <1>1, <2>2, <2>3, <2>4
  <1>3. ASSUME NEW i \in I, NEW j \in I, rank(i) = rank(j) PROVE i = j
    <2>1. ASSUME NEW a \in I, NEW b \in I, rank(a) = rank(b), a < b PROVE FALSE
      <3>1. upTo(a) \in SUBSET upTo(b)
        <4>1. a \in Int /\ b \in Int /\ a < b
          BY <1>0, <2>1
        <4>2. \A y \in I : y <= a => y <= b
          BY <1>0, <4>1
        <4> QED BY <4>2
      <3>2. upTo(a) = upTo(b)
        BY <1>2, <2>1, <3>1, FS_Subset
      <3> QED BY <2>1, <3>2
    <2> QED BY <1>3, <2>1
  <1>4. f \in Injection(I, 1..N)
    BY <1>2, <1>3 DEF Injection, IsInjective
  <1>5. Cardinality(1..N) = N /\ IsFiniteSet(1..N)
    BY <1>1, FS_Interval
  <1>6. f \in Surjection(I, 1..N)
    BY <1>4, <1>5, FS_Injection
  <1>7. ASSUME NEW k \in 1..N PROVE \E i \in I : rank(i) = k
    <2>1. PICK i \in I : f[i] = k
      BY <1>6 DEF Surjection
    <2> QED BY <2>1
  <1>8. ASSUME NEW k \in 1..N
        PROVE  InOrder(I)[k] \in I /\ rank(InOrder(I)[k]) = k
    <2>1. InOrder(I)[k] = CHOOSE i \in I : rank(i) = k
      BY <1>8 DEF InOrder
    <2> QED BY <1>7, <2>1
  <1>9. InOrder(I) \in [1..N -> I]
    <2>1. InOrder(I) = [k \in 1..N |-> InOrder(I)[k]]
      BY DEF InOrder
    <2> QED BY <1>8, <2>1
  <1>10. ASSUME NEW i \in I PROVE \E k \in 1..N : InOrder(I)[k] = i
    <2>1. rank(i) \in 1..N
      BY <1>2
    <2>2. InOrder(I)[rank(i)] \in I /\ rank(InOrder(I)[rank(i)]) = rank(i)
      BY <1>8, <2>1
    <2>3. InOrder(I)[rank(i)] = i
      BY <1>3, <2>2
    <2> QED BY <2>1, <2>3
  <1>11. ASSUME NEW k \in 1..N, NEW m \in 1..N, InOrder(I)[k] = InOrder(I)[m] PROVE k = m
    <2>1. rank(InOrder(I)[k]) = k /\ rank(InOrder(I)[m]) = m
      BY <1>8
    <2> QED BY <1>11, <2>1
  <1>12. ASSUME \A i \in I : \A j \in 1..n : j <= i => j \in I, NEW k \in 1..N
         PROVE  InOrder(I)[k] = k
    <2> DEFINE i == InOrder(I)[k]
    <2>1. i \in I /\ i \in 1..n /\ rank(i) = k
      BY <1>8
    <2>2. upTo(i) = 1..i
      <3>1. \A j : j \in upTo(i) => j \in 1..i
        BY <1>0, <2>1
      <3>2. ASSUME NEW j \in 1..i PROVE j \in upTo(i)
        <4>1. j \in 1..n /\ j <= i
          BY <2>1
        <4> QED BY <1>12, <2>1, <4>1
      <3> QED BY <3>1, <3>2
    <2>3. Cardinality(1..i) = i
      BY <2>1, FS_Interval
    <2> QED BY <2>1, <2>2, <2>3
  <1> QED BY <1>1, <1>9, <1>10, <1>11, <1>12

\* What a sequence has at these positions.
LEMMA Selection ==
    ASSUME NEW T, NEW s \in Seq(T), NEW I \in SUBSET DOMAIN s
    PROVE  /\ At(s, I) \in Seq(T) /\ DOMAIN At(s, I) = 1..Cardinality(I)
           /\ Cardinality(I) \in Nat /\ Len(At(s, I)) = Cardinality(I)
           /\ \A k \in DOMAIN At(s, I) : InOrder(I)[k] \in I /\ At(s, I)[k] = s[InOrder(I)[k]]
  <1>1. Len(s) \in Nat /\ DOMAIN s = 1..Len(s)
    OBVIOUS
  <1>2. Cardinality(I) \in Nat /\ InOrder(I) \in [1..Cardinality(I) -> I]
    BY <1>1, Positions
  <1>3. At(s, I) \in [1..Cardinality(I) -> T]
    BY <1>2 DEF At
  <1>4. \A k \in 1..Cardinality(I) : InOrder(I)[k] \in I /\ At(s, I)[k] = s[InOrder(I)[k]]
    BY <1>2 DEF At
  <1> QED BY <1>2, <1>3, <1>4

-----------------------------------------------------------------------------
\* A window ends no earlier than it is asked for, and the ticks up to its end are of it.
LEMMA Windows ==
    ASSUME NEW r \in RuleSet, NEW t \in 0..MaxTime
    PROVE  /\ WindowEnd(r, t) \in Nat /\ t <= WindowEnd(r, t)
           /\ \A s \in Nat : t <= s /\ s <= WindowEnd(r, t) => WindowEnd(r, s) = WindowEnd(r, t)
  <1> DEFINE W == Width[r]
  <1>0. CASE W = 0
    BY <1>0, RuleData DEF WindowEnd, Never
  <1> SUFFICES ASSUME W # 0
               PROVE  /\ WindowEnd(r, t) \in Nat /\ t <= WindowEnd(r, t)
                      /\ \A s \in Nat : t <= s /\ s <= WindowEnd(r, t) =>
                                         WindowEnd(r, s) = WindowEnd(r, t)
    BY <1>0
  <1>1. W \in Nat \ {0} /\ t \in Nat
    BY RuleData
  <1>2. ASSUME NEW x \in Nat
        PROVE  x \div W \in Nat /\ (x \div W) * W <= x /\ x < (x \div W + 1) * W
    BY <1>1
  <1>3. ASSUME NEW a \in Nat, NEW b \in Nat, a < b PROVE (a + 1) * W <= b * W
    BY <1>1, <1>3
  <1>4. ASSUME NEW s \in Nat, t <= s, s <= WindowEnd(r, t) PROVE s \div W = t \div W
    <2> DEFINE a == s \div W
               b == t \div W
    <2>1. a \in Nat /\ b \in Nat /\ a * W <= s /\ s < (a + 1) * W /\ b * W <= t /\ t < (b + 1) * W
      BY <1>1, <1>2
    <2>2. s <= (b + 1) * W - 1
      BY <1>1, <1>4 DEF WindowEnd
    <2> HIDE DEF a, b
    <2>3. (a + 1) * W \in Int /\ (b + 1) * W \in Int /\ a * W \in Int /\ b * W \in Int
      BY <1>1, <2>1
    <2>4. ~(a < b)
      <3> SUFFICES ASSUME a < b PROVE FALSE
        OBVIOUS
      <3>1. (a + 1) * W <= b * W
        BY <1>3, <2>1
      <3> QED BY <1>4, <2>1, <2>3, <3>1
    <2>5. ~(b < a)
      <3> SUFFICES ASSUME b < a PROVE FALSE
        OBVIOUS
      <3>1. (b + 1) * W <= a * W
        BY <1>3, <2>1
      <3> QED BY <1>4, <2>1, <2>2, <2>3, <3>1
    <2>6. a = b
      BY <2>1, <2>4, <2>5
    <2> QED BY <2>6 DEF a, b
  <1>5. WindowEnd(r, t) \in Nat /\ t <= WindowEnd(r, t)
    <2> DEFINE b == t \div W
    <2>1. b \in Nat /\ t < (b + 1) * W
      BY <1>1, <1>2
    <2>2. WindowEnd(r, t) = (b + 1) * W - 1
      BY <1>1 DEF WindowEnd
    <2> HIDE DEF b
    <2>3. (b + 1) * W \in Int
      BY <1>1, <2>1
    <2> QED BY <2>1, <2>2, <2>3
  <1> QED BY <1>4, <1>5 DEF WindowEnd

-----------------------------------------------------------------------------
\* The elements that EstimatedUsed counts.
Tickets(u) == UNION {{c} \X (1..(u.remote[c] + u.local[c])) : c \in Calls}

LEMMA TicketsAreFinite ==
    ASSUME NEW u \in Rows
    PROVE  IsFiniteSet(Tickets(u)) /\ EstimatedUsed(u) \in Nat
  <1>1. ASSUME NEW c \in Calls PROVE IsFiniteSet({c} \X (1..(u.remote[c] + u.local[c])))
    <2>1. u.remote[c] + u.local[c] \in Int
      BY DEF Rows
    <2>2. IsFiniteSet(1..(u.remote[c] + u.local[c]))
      BY <2>1, FS_Interval
    <2>3. IsFiniteSet({c})
      BY FS_Singleton
    <2> QED BY <2>2, <2>3, FS_Product
  <1> DEFINE TicketsOf(c) == {c} \X (1..(u.remote[c] + u.local[c]))
             All == {TicketsOf(c) : c \in Calls}
  <1>2. IsFiniteSet(All)
    <2>1. [c \in Calls |-> TicketsOf(c)] \in Surjection(Calls, All)
      BY DEF Surjection
    <2> QED BY <2>1, RuleData, FS_Surjection
  <1>3. IsFiniteSet(UNION All)
    BY <1>1, <1>2, FS_UNION
  <1> QED BY <1>3, FS_CardinalityType DEF Tickets, EstimatedUsed

\* Counting a request once more never lowers an estimate.
LEMMA CountsRaise ==
    ASSUME NEW u \in Rows, NEW v \in Rows,
           \A c \in Calls : u.remote[c] + u.local[c] <= v.remote[c] + v.local[c]
    PROVE  EstimatedUsed(u) <= EstimatedUsed(v)
  <1>1. ASSUME NEW c \in Calls
        PROVE  {c} \X (1..(u.remote[c] + u.local[c])) \subseteq {c} \X (1..(v.remote[c] + v.local[c]))
    <2>1. u.remote[c] + u.local[c] \in Int /\ v.remote[c] + v.local[c] \in Int
      BY DEF Rows
    <2>2. 1..(u.remote[c] + u.local[c]) \subseteq 1..(v.remote[c] + v.local[c])
      BY <2>1
    <2> QED BY <2>2
  <1>2. Tickets(u) \in SUBSET Tickets(v)
    BY <1>1 DEF Tickets
  <1> QED BY <1>2, TicketsAreFinite, FS_Subset DEF Tickets, EstimatedUsed

\* Where each request of P is counted once and no other, the estimate is the size of P.
LEMMA OnceEach ==
    ASSUME NEW u \in Rows, NEW P \in SUBSET Calls,
           \A c \in Calls : u.remote[c] + u.local[c] = Once(P)[c]
    PROVE  EstimatedUsed(u) = Cardinality(P)
  <1>1. ASSUME NEW c \in Calls
        PROVE  {c} \X (1..(u.remote[c] + u.local[c])) = IF c \in P THEN {<<c, 1>>} ELSE {}
    BY DEF Once
  <1>2. Tickets(u) = {<<c, 1>> : c \in P}
    BY <1>1 DEF Tickets
  <1>3. [c \in P |-> <<c, 1>>] \in Bijection(P, {<<c, 1>> : c \in P})
    BY DEF Bijection, Injection, Surjection, IsInjective
  <1>4. IsFiniteSet(P)
    BY RuleData, FS_Subset
  <1> QED BY <1>2, <1>3, <1>4, FS_Bijection DEF ExistsBijection, Tickets, EstimatedUsed

-----------------------------------------------------------------------------
\* The rules of the rows s are all different.
Distinct(s) == \A i, j \in DOMAIN s : s[i].rule = s[j].rule => i = j

\* What a request or a health check has in hand fits what it does.
Prepared(w, x) ==
    /\ x.pc \in {"served", "incr", "limited", "done"} => w \in Calls
    /\ x.pc = "fetched" => w \in Syncs
    /\ x.pc \notin {"incr", "write"} => x.todo = <<>>
    /\ x.pc \notin {"fetched", "write"} => x.stats = <<>> /\ x.fresh = <<>>
    /\ Distinct(x.stats) /\ Distinct(x.fresh)
    /\ \A i \in DOMAIN x.stats : x.stats[i].local = None
    /\ \A n \in DOMAIN x.todo :
          /\ x.todo[n].at \in DOMAIN x.seen
          /\ x.pc = "incr" => Source[x.seen[x.todo[n].at].rule] = SourceOf[w]
          /\ \A m \in DOMAIN x.todo : x.todo[m].at = x.todo[n].at => m = n

Fits(w, x) == x \in Locals /\ Prepared(w, x)
EachFits == \A w \in Calls \cup Syncs : Fits(w, me[w])

Typed == TypeOK /\ EachFits

-----------------------------------------------------------------------------
\* Counts are counts.
LEMMA CountTypes ==
    /\ None \in [Calls -> Nat]
    /\ \A S : Once(S) \in [Calls -> Nat]
    /\ \A f, g \in [Calls -> Nat] : Plus(f, g) \in [Calls -> Nat]
    /\ \A r \in RuleSet, f \in [Calls -> Nat], p \in BOOLEAN, e \in Nat :
          Row(r, f, p, e) \in Rows
    /\ \A i \in Nat \ {0}, f \in [Calls -> Nat], p \in BOOLEAN, e \in Nat :
          Write(i, f, p, e) \in Writes
  BY DEF None, Once, Plus, Row, Rows, Write, Writes

\* Who has nothing to do has nothing in hand.
LEMMA IdleFits ==
    /\ \A w : Fits(w, Idle)
    /\ \A c \in Calls : \A x \in Counted : Fits(c, x)
    /\ \A w \in Calls \cup Syncs : Fits(w, Returned(w))
  <1>1. Idle \in Locals /\ Done \in Locals /\ [Idle EXCEPT !.pc = "limited"] \in Locals
    <2>1. /\ <<>> \in Seq(Rows) /\ <<>> \in Seq(Writes)
      OBVIOUS
    <2>2. Idle \in Locals
      BY <2>1 DEF Idle, Locals
    <2>3. \A p \in {"done", "limited"} : [Idle EXCEPT !.pc = p] \in Locals
      BY <2>2 DEF Locals
    <2> QED BY <2>2, <2>3 DEF Done
  <1>2. \A w : Prepared(w, Idle)
    BY DEF Idle, Prepared, Distinct
  <1>3. \A w \in Calls : Prepared(w, Done) /\ Prepared(w, [Idle EXCEPT !.pc = "limited"])
    BY DEF Idle, Done, Prepared, Distinct
  <1> QED BY <1>1, <1>2, <1>3 DEF Fits, Counted, Returned

\* GetCurrentUsages shows rows of the list, no rule twice, every row of a window that has not
\* ended, and all at their positions if none is left out before another.
LEMMA UsagesShown ==
    ASSUME TypeOK
    PROVE  /\ GetCurrentUsages \in Seq(Rows) /\ Distinct(GetCurrentUsages) /\ Distinct(list)
           /\ \A i \in DOMAIN GetCurrentUsages : \E j \in DOMAIN list :
                 InWindow(list[j]) /\ GetCurrentUsages[i] = list[j]
           /\ \A j \in DOMAIN list : InWindow(list[j]) =>
                 \E i \in DOMAIN GetCurrentUsages : GetCurrentUsages[i] = list[j]
           /\ ~Shifted => \A i \in DOMAIN GetCurrentUsages :
                 i \in DOMAIN list => GetCurrentUsages[i] = list[i]
  <1> DEFINE us == GetCurrentUsages
             I == {i \in DOMAIN list : InWindow(list[i])}
  <1>1. list \in Seq(Rows) /\ Distinct(list) /\ Len(list) \in Nat /\ DOMAIN list = 1..Len(list)
    BY DEF TypeOK, Distinct, IsInjective
  <1>2. us = At(list, I)
    BY DEF GetCurrentUsages
  <1>3. I \in SUBSET DOMAIN list /\ I \in SUBSET (1..Len(list))
    BY <1>1
  <1> HIDE DEF us
  <1>4. /\ us \in Seq(Rows) /\ DOMAIN us = 1..Cardinality(I)
        /\ \A k \in DOMAIN us : InOrder(I)[k] \in I /\ us[k] = list[InOrder(I)[k]]
    BY <1>1, <1>2, <1>3, Selection
  <1>5. /\ \A i \in I : \E k \in DOMAIN us : InOrder(I)[k] = i
        /\ \A k, m \in DOMAIN us : InOrder(I)[k] = InOrder(I)[m] => k = m
        /\ (\A i \in I : \A j \in 1..Len(list) : j <= i => j \in I)
                 => \A k \in DOMAIN us : InOrder(I)[k] = k
    <2> DEFINE n == Len(list)
    <2>1. n \in Nat /\ I \in SUBSET (1..n)
      BY <1>1, <1>3
    <2> HIDE DEF I, n
    <2>2. /\ \A i \in I : \E k \in 1..Cardinality(I) : InOrder(I)[k] = i
          /\ \A k, m \in 1..Cardinality(I) : InOrder(I)[k] = InOrder(I)[m] => k = m
          /\ (\A i \in I : \A j \in 1..n : j <= i => j \in I)
                 => \A k \in 1..Cardinality(I) : InOrder(I)[k] = k
      BY <2>1, Positions
    <2> QED BY <1>4, <2>2 DEF n
  <1>6. Distinct(us)
    BY <1>1, <1>4, <1>5 DEF Distinct
  <1>7. \A i \in DOMAIN us : \E j \in DOMAIN list : InWindow(list[j]) /\ us[i] = list[j]
    BY <1>4
  <1>8. \A j \in DOMAIN list : InWindow(list[j]) => \E i \in DOMAIN us : us[i] = list[j]
    BY <1>4, <1>5
  <1>9. ASSUME ~Shifted PROVE \A i \in DOMAIN us : i \in DOMAIN list => us[i] = list[i]
    <2>1. ASSUME NEW i \in I, NEW j \in 1..Len(list), j <= i PROVE j \in I
      <3>1. CASE j = i
        BY <3>1
      <3>2. CASE j # i
        <4>1. j < i /\ j \in DOMAIN list /\ i \in DOMAIN list /\ InWindow(list[i])
          BY <1>1, <2>1, <3>2
        <4>2. InWindow(list[j])
          BY <1>9, <4>1 DEF Shifted
        <4> QED BY <4>1, <4>2
      <3> QED BY <3>1, <3>2
    <2> QED BY <1>4, <1>5, <2>1
  <1> QED BY <1>1, <1>4, <1>6, <1>7, <1>8, <1>9 DEF us

\* Each rule of one source once, and all of them.
LEMMA SourcePositions ==
    ASSUME NEW us \in Seq(Rows), NEW o \in Sources
    PROVE  /\ Len(OfSource(o, us)) \in Nat
           /\ OfSource(o, us) \in [1..Len(OfSource(o, us)) -> Nat \ {0}]
           /\ \A n \in DOMAIN OfSource(o, us) : /\ OfSource(o, us)[n] \in DOMAIN us
                                                /\ Source[us[OfSource(o, us)[n]].rule] = o
           /\ \A n, m \in DOMAIN OfSource(o, us) :
                 OfSource(o, us)[n] = OfSource(o, us)[m] => n = m
           /\ \A i \in DOMAIN us : Source[us[i].rule] = o =>
                 \E n \in DOMAIN OfSource(o, us) : OfSource(o, us)[n] = i
  <1> DEFINE I == {i \in DOMAIN us : Source[us[i].rule] = o}
             N == Len(us)
             at == OfSource(o, us)
  <1>1. N \in Nat /\ DOMAIN us = 1..N /\ I \in SUBSET (1..N)
    OBVIOUS
  <1>2. at = InOrder(I)
    BY DEF OfSource
  <1>3. \A i \in I : i \in DOMAIN us /\ i \in Nat \ {0} /\ Source[us[i].rule] = o
    BY <1>1
  <1>4. \A i \in DOMAIN us : Source[us[i].rule] = o => i \in I
    OBVIOUS
  <1> HIDE DEF I, N, at
  <1>5. /\ Cardinality(I) \in Nat
        /\ InOrder(I) \in [1..Cardinality(I) -> I]
        /\ \A i \in I : \E k \in 1..Cardinality(I) : InOrder(I)[k] = i
        /\ \A k, m \in 1..Cardinality(I) : InOrder(I)[k] = InOrder(I)[m] => k = m
    BY <1>1, Positions
  <1>6. at \in [1..Cardinality(I) -> Nat \ {0}] /\ DOMAIN at = 1..Cardinality(I)
    BY <1>2, <1>3, <1>5
  <1>7. Len(at) = Cardinality(I)
    BY <1>5, <1>6
  <1> QED BY <1>2, <1>3, <1>4, <1>5, <1>6, <1>7 DEF at

-----------------------------------------------------------------------------
\* One moves to what fits it.
LEMMA MovesFit ==
    ASSUME Typed, NEW w \in Calls \cup Syncs, NEW x, Fits(w, x), me' = [me EXCEPT ![w] = x]
    PROVE  me' \in [Calls \cup Syncs -> Locals] /\ EachFits'
  <1>1. me \in [Calls \cup Syncs -> Locals] /\ \A v \in Calls \cup Syncs : Fits(v, me[v])
    BY DEF Typed, TypeOK, EachFits
  <1>2. \A v \in Calls \cup Syncs : me'[v] = IF v = w THEN x ELSE me[v]
    BY <1>1
  <1>3. \A v \in Calls \cup Syncs : Fits(v, me'[v])
    BY <1>1, <1>2
  <1> QED BY <1>1, <1>3 DEF EachFits, Fits

\* Whoever is misled has in hand what it had.
LEMMA MisleadFits ==
    ASSUME NEW m \in [Calls \cup Syncs -> Locals], \A w \in Calls \cup Syncs : Fits(w, m[w])
    PROVE  /\ Mislead(m) \in [Calls \cup Syncs -> Locals]
           /\ \A w \in Calls \cup Syncs : Fits(w, Mislead(m)[w])
  <1>1. \A w \in Calls \cup Syncs :
           Mislead(m)[w] = IF m[w].pc \in {"incr", "write"} THEN [m[w] EXCEPT !.misled = TRUE] ELSE m[w]
    BY DEF Mislead
  <1>2. ASSUME NEW x \in Locals PROVE [x EXCEPT !.misled = TRUE] \in Locals
    BY DEF Locals
  <1>3. ASSUME NEW w, NEW x \in Locals, Prepared(w, x) PROVE Prepared(w, [x EXCEPT !.misled = TRUE])
    BY <1>3 DEF Locals, Prepared
  <1>4. \A w \in Calls \cup Syncs : Fits(w, Mislead(m)[w])
    <2> SUFFICES ASSUME NEW w \in Calls \cup Syncs PROVE Fits(w, Mislead(m)[w])
      OBVIOUS
    <2> DEFINE x == m[w]
    <2>1. x \in Locals /\ Prepared(w, x)
      BY DEF Fits
    <2>2. Mislead(m)[w] \in {x, [x EXCEPT !.misled = TRUE]}
      BY <1>1
    <2> HIDE DEF x
    <2>3. [x EXCEPT !.misled = TRUE] \in Locals /\ Prepared(w, [x EXCEPT !.misled = TRUE])
      BY <1>2, <1>3, <2>1
    <2> QED BY <2>1, <2>2, <2>3 DEF Fits
  <1>5. DOMAIN Mislead(m) = Calls \cup Syncs /\ Mislead(m) = [w \in Calls \cup Syncs |-> Mislead(m)[w]]
    BY DEF Mislead
  <1> QED BY <1>4, <1>5 DEF Fits

\* A row is counted up, or rewritten: the rules stay where they are.
LEMMA RowCounted ==
    ASSUME TypeOK, NEW p \in DOMAIN list, NEW c \in Calls
    PROVE  LET new == [list EXCEPT ![p].local[c] = @ + 1]
           IN  /\ new \in Seq(Rows) /\ DOMAIN new = DOMAIN list /\ Len(new) = Len(list)
               /\ \A i \in DOMAIN list : /\ new[i].rule = list[i].rule /\ new[i].end = list[i].end
                                         /\ new[i].remote = list[i].remote
                                         /\ \A d \in Calls : new[i].local[d] =
                                               IF i = p /\ d = c THEN list[i].local[d] + 1
                                               ELSE list[i].local[d]
  <1> DEFINE new == [list EXCEPT ![p].local[c] = @ + 1]
             u == [list[p] EXCEPT !.local[c] = @ + 1]
  <1>1. list \in Seq(Rows) /\ list[p] \in Rows
    BY DEF TypeOK
  <1>2. /\ u \in Rows /\ u.rule = list[p].rule /\ u.end = list[p].end /\ u.remote = list[p].remote
        /\ \A d \in Calls : u.local[d] = IF d = c THEN list[p].local[d] + 1 ELSE list[p].local[d]
    <2> DEFINE f == [list[p].local EXCEPT ![c] = @ + 1]
    <2>1. list[p].local \in [Calls -> Nat]
      BY <1>1 DEF Rows
    <2>2. /\ f \in [Calls -> Nat]
          /\ \A d \in Calls : f[d] = IF d = c THEN list[p].local[d] + 1 ELSE list[p].local[d]
      BY <2>1
    <2>3. u = [list[p] EXCEPT !.local = f]
      OBVIOUS
    <2> HIDE DEF f, u
    <2>4. u \in Rows /\ u.rule = list[p].rule /\ u.end = list[p].end /\ u.remote = list[p].remote
          /\ u.local = f
      BY <1>1, <2>2, <2>3 DEF Rows
    <2> QED BY <2>2, <2>4
  <1>3. new = [list EXCEPT ![p] = u]
    OBVIOUS
  <1> HIDE DEF u, new
  <1>4. new \in Seq(Rows) /\ DOMAIN new = DOMAIN list /\ Len(new) = Len(list)
    BY <1>1, <1>2, <1>3
  <1>5. \A i \in DOMAIN list : new[i] = IF i = p THEN u ELSE list[i]
    BY <1>1, <1>3
  <1>6. \A i \in DOMAIN list : /\ new[i].rule = list[i].rule /\ new[i].end = list[i].end
                                /\ new[i].remote = list[i].remote
    BY <1>2, <1>5
  <1>7. \A i \in DOMAIN list : \A d \in Calls :
           new[i].local[d] = IF i = p /\ d = c THEN list[i].local[d] + 1 ELSE list[i].local[d]
    BY <1>2, <1>5
  <1> QED BY <1>4, <1>6, <1>7 DEF new

LEMMA RowRewritten ==
    ASSUME TypeOK, NEW p \in DOMAIN list, NEW t \in Writes
    PROVE  LET new == [list EXCEPT ![p] = Rewritten(@, t)]
           IN  /\ new \in Seq(Rows) /\ DOMAIN new = DOMAIN list /\ Len(new) = Len(list)
               /\ \A i \in DOMAIN list :
                     new[i] = IF i = p THEN Row(list[i].rule, t.remote, t.spent, t.end) ELSE list[i]
               /\ \A i \in DOMAIN list : new[i].rule = list[i].rule
  <1> DEFINE new == [list EXCEPT ![p] = Rewritten(@, t)]
             u == Rewritten(list[p], t)
  <1>1. list \in Seq(Rows) /\ \A i \in DOMAIN list : list[i] \in Rows
    BY DEF TypeOK
  <1>2. u = Row(list[p].rule, t.remote, t.spent, t.end) /\ u \in Rows /\ u.rule = list[p].rule
    <2> DEFINE v == list[p]
    <2>1. v \in Rows
      BY <1>1
    <2>2. t.remote \in [Calls -> Nat] /\ t.spent \in BOOLEAN /\ t.end \in Nat
      BY DEF Writes
    <2>4. u = Row(v.rule, t.remote, t.spent, t.end)
      BY DEF Rewritten
    <2> HIDE DEF v, u
    <2>5. v.rule \in RuleSet
      BY <2>1 DEF Rows
    <2>6. u \in Rows
      BY <2>2, <2>4, <2>5, CountTypes
    <2>7. u.rule = v.rule
      BY <2>4 DEF Row
    <2> QED BY <2>4, <2>6, <2>7 DEF v
  <1>3. new = [list EXCEPT ![p] = u]
    OBVIOUS
  <1> HIDE DEF u, new
  <1>4. new \in Seq(Rows) /\ DOMAIN new = DOMAIN list /\ Len(new) = Len(list)
    BY <1>1, <1>2, <1>3
  <1>5. \A i \in DOMAIN list : new[i] = IF i = p THEN u ELSE list[i]
    BY <1>1, <1>3
  <1> QED BY <1>2, <1>4, <1>5 DEF new

-----------------------------------------------------------------------------
\* What a request has in hand when it has read the rows: to count, or to calibrate.
ToCount(c, us) == [n \in DOMAIN OfSource(SourceOf[c], us) |->
                      Write(OfSource(SourceOf[c], us)[n], None, FALSE, 0)]
ToSettle(c, us) == [n \in DOMAIN OfSource(SourceOf[c], us) |->
                       LET i == OfSource(SourceOf[c], us)[n]
                       IN  Write(i, Plus(us[i].remote, us[i].local), TRUE, us[i].end)]

LEMMA ReadToWrite ==
    ASSUME NEW us \in Seq(Rows), NEW c \in Calls, NEW t \in {ToCount(c, us), ToSettle(c, us)}
    PROVE  /\ t \in Seq(Writes)
           /\ \A n \in DOMAIN t : /\ t[n].at \in DOMAIN us /\ Source[us[t[n].at].rule] = SourceOf[c]
                                  /\ \A m \in DOMAIN t : t[m].at = t[n].at => m = n
           /\ \A i \in DOMAIN us : Source[us[i].rule] = SourceOf[c] =>
                                  \E n \in DOMAIN t : t[n].at = i
  <1> DEFINE at == OfSource(SourceOf[c], us)
             N == Len(at)
  <1>1. SourceOf[c] \in Sources
    BY RuleData
  <1>2. /\ N \in Nat /\ at \in [1..N -> Nat \ {0}]
        /\ \A n \in DOMAIN at : at[n] \in DOMAIN us /\ Source[us[at[n]].rule] = SourceOf[c]
        /\ \A n, m \in DOMAIN at : at[n] = at[m] => n = m
        /\ \A i \in DOMAIN us : Source[us[i].rule] = SourceOf[c] => \E n \in DOMAIN at : at[n] = i
    BY <1>1, SourcePositions
  <1>3. DOMAIN t = DOMAIN at /\ \A n \in DOMAIN at : t[n].at = at[n]
    BY DEF ToCount, ToSettle, Write
  <1>4. t = [n \in 1..N |-> t[n]]
    BY <1>2 DEF ToCount, ToSettle
  <1>5. \A n \in 1..N : t[n] \in Writes
    <2> SUFFICES ASSUME NEW n \in 1..N PROVE t[n] \in Writes
      OBVIOUS
    <2>1. at[n] \in DOMAIN us /\ at[n] \in Nat \ {0} /\ n \in DOMAIN at
      BY <1>2
    <2> DEFINE u == us[at[n]]
    <2>2. u \in Rows
      BY <2>1
    <2>3. u.remote \in [Calls -> Nat] /\ u.local \in [Calls -> Nat] /\ u.end \in Nat
      BY <2>2 DEF Rows
    <2>4. t[n] \in {Write(at[n], None, FALSE, 0), Write(at[n], Plus(u.remote, u.local), TRUE, u.end)}
      BY <2>1 DEF ToCount, ToSettle
    <2>5. Write(at[n], None, FALSE, 0) \in Writes
      BY <2>1, CountTypes
    <2>6. Write(at[n], Plus(u.remote, u.local), TRUE, u.end) \in Writes
      <3>1. Plus(u.remote, u.local) \in [Calls -> Nat]
        BY <2>3, CountTypes
      <3> QED BY <2>1, <2>3, <3>1, CountTypes
    <2> QED BY <2>4, <2>5, <2>6
  <1> HIDE DEF at, N
  <1>6. t \in Seq(Writes)
    BY <1>2, <1>4, <1>5
  <1>7. \A n \in DOMAIN t : /\ t[n].at \in DOMAIN us /\ Source[us[t[n].at].rule] = SourceOf[c]
                            /\ \A m \in DOMAIN t : t[m].at = t[n].at => m = n
    BY <1>2, <1>3
  <1>8. \A i \in DOMAIN us : Source[us[i].rule] = SourceOf[c] => \E n \in DOMAIN t : t[n].at = i
    BY <1>2, <1>3
  <1> QED BY <1>6, <1>7, <1>8

\* The record of one who has read the rows us, is misled or not as b says, and goes on to write t.
ReadBy(y, p, us, b, t) == [[y EXCEPT !.pc = p, !.seen = us, !.misled = b] EXCEPT !.todo = t]

LEMMA RecordRead ==
    ASSUME NEW y \in Locals, NEW p \in {"incr", "write"}, NEW us \in Seq(Rows), NEW b \in BOOLEAN,
           NEW t \in Seq(Writes)
    PROVE  LET x == ReadBy(y, p, us, b, t)
           IN  /\ x \in Locals /\ x.pc = p /\ x.seen = us /\ x.todo = t /\ x.misled = b
               /\ x.stats = y.stats /\ x.fresh = y.fresh
  <1> DEFINE z == [y EXCEPT !.pc = p, !.seen = us, !.misled = b]
             x == [z EXCEPT !.todo = t]
  <1>1. z \in Locals /\ z.pc = p /\ z.seen = us /\ z.stats = y.stats /\ z.fresh = y.fresh
    BY DEF Locals
  <1>2. z.misled = b
    BY DEF Locals
  <1> HIDE DEF z
  <1>3. x \in Locals /\ x.pc = p /\ x.seen = us /\ x.todo = t /\ x.stats = y.stats /\ x.fresh = y.fresh
    BY <1>1 DEF Locals
  <1>4. x.misled = b
    BY <1>1, <1>2 DEF Locals
  <1> QED BY <1>3, <1>4 DEF z, ReadBy

LEMMA CountingFits ==
    ASSUME Typed, NEW c \in Calls, me[c].pc = "served"
    PROVE  LET x == [Read(c, "incr") EXCEPT !.todo = ToCount(c, GetCurrentUsages)]
           IN  /\ Fits(c, x) /\ x.pc = "incr" /\ x.seen = GetCurrentUsages /\ x.misled = Shifted
               /\ x.todo = ToCount(c, GetCurrentUsages)
  <1> DEFINE us == GetCurrentUsages
             t == ToCount(c, us)
             x == [Read(c, "incr") EXCEPT !.todo = t]
  <1>1. me[c] \in Locals /\ Prepared(c, me[c])
    BY DEF Typed, EachFits, Fits
  <1>2. us \in Seq(Rows) /\ Shifted \in BOOLEAN
    BY UsagesShown DEF Typed, Shifted
  <1> HIDE DEF us, t
  <1>4. /\ t \in Seq(Writes)
        /\ \A n \in DOMAIN t : /\ t[n].at \in DOMAIN us /\ Source[us[t[n].at].rule] = SourceOf[c]
                               /\ \A m \in DOMAIN t : t[m].at = t[n].at => m = n
    BY <1>2, ReadToWrite DEF t
  <1>3. /\ x \in Locals /\ x.pc = "incr" /\ x.seen = us /\ x.todo = t /\ x.misled = Shifted
        /\ x.stats = me[c].stats /\ x.fresh = me[c].fresh
    <2> DEFINE y == me[c]
               b == Shifted
               z == ReadBy(y, "incr", us, b, t)
    <2>1. x = z
      BY DEF Read, ReadBy, us
    <2>2. y \in Locals /\ us \in Seq(Rows) /\ b \in BOOLEAN /\ t \in Seq(Writes)
      BY <1>1, <1>2, <1>4
    <2> HIDE DEF y, b, x
    <2>3. /\ z \in Locals /\ z.pc = "incr" /\ z.seen = us /\ z.todo = t /\ z.misled = b
          /\ z.stats = y.stats /\ z.fresh = y.fresh
      BY <2>2, RecordRead
    <2> QED BY <2>1, <2>3 DEF y, b
  <1> HIDE DEF x
  <1>6. Prepared(c, x)
    BY <1>1, <1>3, <1>4 DEF Prepared, Distinct
  <1> QED BY <1>3, <1>6 DEF Fits, x, us, t

LEMMA SettlingFits ==
    ASSUME Typed, NEW c \in Calls, me[c].pc = "limited"
    PROVE  LET x == [Read(c, "write") EXCEPT !.todo = ToSettle(c, GetCurrentUsages)]
           IN  /\ Fits(c, x) /\ x.pc = "write" /\ x.seen = GetCurrentUsages /\ x.misled = Shifted
               /\ x.todo = ToSettle(c, GetCurrentUsages) /\ x.stats = <<>> /\ x.fresh = <<>>
  <1> DEFINE us == GetCurrentUsages
             t == ToSettle(c, us)
             x == [Read(c, "write") EXCEPT !.todo = t]
  <1>1. me[c] \in Locals /\ Prepared(c, me[c])
    BY DEF Typed, EachFits, Fits
  <1>2. us \in Seq(Rows) /\ Shifted \in BOOLEAN
    BY UsagesShown DEF Typed, Shifted
  <1> HIDE DEF us, t
  <1>4. /\ t \in Seq(Writes)
        /\ \A n \in DOMAIN t : /\ t[n].at \in DOMAIN us
                               /\ \A m \in DOMAIN t : t[m].at = t[n].at => m = n
    BY <1>2, ReadToWrite DEF t
  <1>3. /\ x \in Locals /\ x.pc = "write" /\ x.seen = us /\ x.todo = t /\ x.misled = Shifted
        /\ x.stats = me[c].stats /\ x.fresh = me[c].fresh
    <2> DEFINE y == me[c]
               b == Shifted
               z == ReadBy(y, "write", us, b, t)
    <2>1. x = z
      BY DEF Read, ReadBy, us
    <2>2. y \in Locals /\ us \in Seq(Rows) /\ b \in BOOLEAN /\ t \in Seq(Writes)
      BY <1>1, <1>2, <1>4
    <2> HIDE DEF y, b, x
    <2>3. /\ z \in Locals /\ z.pc = "write" /\ z.seen = us /\ z.todo = t /\ z.misled = b
          /\ z.stats = y.stats /\ z.fresh = y.fresh
      BY <2>2, RecordRead
    <2> QED BY <2>1, <2>3 DEF y, b
  <1> HIDE DEF x
  <1>6. me[c].stats = <<>> /\ me[c].fresh = <<>>
    BY <1>1 DEF Prepared
  <1>7. Prepared(c, x)
    BY <1>1, <1>3, <1>4, <1>6 DEF Prepared, Distinct
  <1> QED BY <1>3, <1>6, <1>7 DEF Fits, x, us, t

-----------------------------------------------------------------------------
\* What Calibrate makes of the rows us it has read and of what the platform said.
Known(us, stats) == {n \in DOMAIN stats : Has(us, stats[n].rule)}
OldRules(us, stats) == At(stats, Known(us, stats))
NewRules(us, stats) == At(stats, DOMAIN stats \ Known(us, stats))
AsRead(us, old) == [i \in DOMAIN us |-> IF Has(old, us[i].rule)
                                        THEN old[PositionOf(us[i].rule, old)] ELSE us[i]]
ToCalibrate(us, old) == [n \in DOMAIN old |-> Write(PositionOf(old[n].rule, us), old[n].remote,
                                                    old[n].spent, old[n].end)]
ToSave(us, stats) == IF NewRules(us, stats) = <<>> THEN <<>>
                     ELSE AsRead(us, OldRules(us, stats)) \o NewRules(us, stats)

\* A part of the rows s: each of them is one of s, no rule comes twice.
LEMMA PartOfRows ==
    ASSUME NEW s \in Seq(Rows), Distinct(s), NEW I \in SUBSET DOMAIN s
    PROVE  /\ At(s, I) \in Seq(Rows) /\ Distinct(At(s, I))
           /\ \A n \in DOMAIN At(s, I) : \E m \in I : At(s, I)[n] = s[m]
  <1>1. Len(s) \in Nat /\ I \in SUBSET (1..Len(s)) /\ DOMAIN s = 1..Len(s)
    OBVIOUS
  <1>2. /\ At(s, I) \in Seq(Rows) /\ DOMAIN At(s, I) = 1..Cardinality(I)
        /\ \A n \in DOMAIN At(s, I) : InOrder(I)[n] \in I /\ At(s, I)[n] = s[InOrder(I)[n]]
    BY Selection
  <1>3. \A k, m \in 1..Cardinality(I) : InOrder(I)[k] = InOrder(I)[m] => k = m
    BY <1>1, Positions
  <1>4. Distinct(At(s, I))
    BY <1>1, <1>2, <1>3 DEF Distinct
  <1> QED BY <1>2, <1>4

LEMMA PositionFound ==
    ASSUME NEW us, NEW r, Has(us, r)
    PROVE  PositionOf(r, us) \in DOMAIN us /\ us[PositionOf(r, us)].rule = r
  BY DEF Has, PositionOf

LEMMA Joined ==
    ASSUME NEW a \in Seq(Rows), NEW b \in Seq(Rows)
    PROVE  /\ a \o b \in Seq(Rows) /\ Len(a \o b) = Len(a) + Len(b)
           /\ \A n \in DOMAIN (a \o b) :
                 \/ n \in DOMAIN a /\ (a \o b)[n] = a[n]
                 \/ n - Len(a) \in DOMAIN b /\ (a \o b)[n] = b[n - Len(a)]
  <1>1. Len(a) \in Nat /\ Len(b) \in Nat /\ DOMAIN a = 1..Len(a) /\ DOMAIN b = 1..Len(b)
    OBVIOUS
  <1>2. a \o b \in Seq(Rows)
    OBVIOUS
  <1>3. Len(a \o b) = Len(a) + Len(b) /\ DOMAIN (a \o b) = 1..(Len(a) + Len(b))
    OBVIOUS
  <1>4. \A n \in 1..(Len(a) + Len(b)) :
           (a \o b)[n] = IF n <= Len(a) THEN a[n] ELSE b[n - Len(a)]
    OBVIOUS
  <1>5. ASSUME NEW n \in 1..(Len(a) + Len(b))
        PROVE  \/ n \in DOMAIN a /\ (a \o b)[n] = a[n]
               \/ n - Len(a) \in DOMAIN b /\ (a \o b)[n] = b[n - Len(a)]
    <2>1. CASE n <= Len(a)
      BY <1>1, <1>4, <2>1
    <2>2. CASE ~(n <= Len(a))
      <3>1. n - Len(a) \in 1..Len(b)
        BY <1>1, <2>2
      <3> QED BY <1>1, <1>4, <2>2, <3>1
    <2> QED BY <2>1, <2>2
  <1> QED BY <1>2, <1>3, <1>5

LEMMA Calibration ==
    ASSUME NEW us \in Seq(Rows), Distinct(us), NEW stats \in Seq(Rows), Distinct(stats)
    PROVE  LET t == ToCalibrate(us, OldRules(us, stats))
               f == ToSave(us, stats)
           IN  /\ t \in Seq(Writes) /\ f \in Seq(Rows) /\ Distinct(f)
               /\ \A n \in DOMAIN t : /\ t[n].at \in DOMAIN us
                                      /\ \A m \in DOMAIN t : t[m].at = t[n].at => m = n
               /\ \A n \in DOMAIN t : \E m \in DOMAIN stats :
                     us[t[n].at].rule = stats[m].rule /\ t[n].remote = stats[m].remote
                                                      /\ t[n].end = stats[m].end
               /\ \A n \in DOMAIN f : \/ \E i \in DOMAIN us : f[n] = us[i]
                                      \/ \E m \in DOMAIN stats : f[n] = stats[m]
  <1> DEFINE old == OldRules(us, stats)
             added == NewRules(us, stats)
             read == AsRead(us, old)
             t == ToCalibrate(us, old)
             f == ToSave(us, stats)
  <1>1. /\ old \in Seq(Rows) /\ Distinct(old)
        /\ \A n \in DOMAIN old : \E m \in DOMAIN stats :
              old[n] = stats[m] /\ Has(us, stats[m].rule)
    <2>1. Known(us, stats) \in SUBSET DOMAIN stats
      BY DEF Known
    <2>2. /\ old \in Seq(Rows) /\ Distinct(old)
          /\ \A n \in DOMAIN old : \E m \in Known(us, stats) : old[n] = stats[m]
      BY <2>1, PartOfRows DEF OldRules
    <2> QED BY <2>2 DEF Known
  <1>2. /\ added \in Seq(Rows) /\ Distinct(added)
        /\ \A n \in DOMAIN added : \E m \in DOMAIN stats :
              added[n] = stats[m] /\ ~Has(us, stats[m].rule)
    <2>1. DOMAIN stats \ Known(us, stats) \in SUBSET DOMAIN stats
      OBVIOUS
    <2>2. /\ added \in Seq(Rows) /\ Distinct(added)
          /\ \A n \in DOMAIN added : \E m \in DOMAIN stats \ Known(us, stats) : added[n] = stats[m]
      BY <2>1, PartOfRows DEF NewRules
    <2> QED BY <2>2 DEF Known
  <1> HIDE DEF old, added
  <1>3. ASSUME NEW n \in DOMAIN old
        PROVE  /\ PositionOf(old[n].rule, us) \in DOMAIN us
               /\ us[PositionOf(old[n].rule, us)].rule = old[n].rule
    BY <1>1, PositionFound
  <1>4. /\ t \in Seq(Writes)
        /\ \A n \in DOMAIN t : /\ t[n].at \in DOMAIN us
                               /\ \A m \in DOMAIN t : t[m].at = t[n].at => m = n
        /\ \A n \in DOMAIN t : \E m \in DOMAIN stats :
              us[t[n].at].rule = stats[m].rule /\ t[n].remote = stats[m].remote
                                               /\ t[n].end = stats[m].end
    <2>1. DOMAIN t = DOMAIN old /\ t = [n \in DOMAIN old |-> t[n]]
          /\ \A n \in DOMAIN old : /\ t[n].at = PositionOf(old[n].rule, us)
                                   /\ t[n].remote = old[n].remote /\ t[n].end = old[n].end
      BY DEF ToCalibrate, Write
    <2>2. ASSUME NEW n \in DOMAIN old PROVE t[n] \in Writes
      <3>1. old[n] \in Rows /\ PositionOf(old[n].rule, us) \in Nat \ {0}
        BY <1>1, <1>3
      <3>2. t[n] = Write(PositionOf(old[n].rule, us), old[n].remote, old[n].spent, old[n].end)
        BY DEF ToCalibrate
      <3>3. old[n].remote \in [Calls -> Nat] /\ old[n].spent \in BOOLEAN /\ old[n].end \in Nat
        BY <3>1 DEF Rows
      <3> DEFINE i == PositionOf(old[n].rule, us)
                 g == old[n].remote
                 b == old[n].spent
                 e == old[n].end
      <3>4. /\ i \in Nat \ {0} /\ g \in [Calls -> Nat] /\ b \in BOOLEAN /\ e \in Nat
            /\ t[n] = Write(i, g, b, e)
        BY <3>1, <3>2, <3>3
      <3> HIDE DEF i, g, b, e, t
      <3>5. Write(i, g, b, e) \in Writes
        BY <3>4 DEF Write, Writes
      <3> QED BY <3>4, <3>5
    <2> HIDE DEF t
    <2>3. t \in Seq(Writes)
      <3>1. DOMAIN old = 1..Len(old) /\ Len(old) \in Nat
        BY <1>1
      <3> QED BY <2>1, <2>2, <3>1
    <2>4. \A n \in DOMAIN t : t[n].at \in DOMAIN us /\ us[t[n].at].rule = old[n].rule
      BY <1>3, <2>1
    <2>5. \A n, m \in DOMAIN t : t[m].at = t[n].at => m = n
      <3> SUFFICES ASSUME NEW n \in DOMAIN t, NEW m \in DOMAIN t, t[m].at = t[n].at PROVE m = n
        OBVIOUS
      <3>1. n \in DOMAIN old /\ m \in DOMAIN old /\ old[n].rule = old[m].rule
        BY <2>1, <2>4
      <3> QED BY <1>1, <3>1 DEF Distinct
    <2>6. \A n \in DOMAIN t : \E m \in DOMAIN stats :
             us[t[n].at].rule = stats[m].rule /\ t[n].remote = stats[m].remote
                                              /\ t[n].end = stats[m].end
      <3> SUFFICES ASSUME NEW n \in DOMAIN t
                   PROVE  \E m \in DOMAIN stats :
                             us[t[n].at].rule = stats[m].rule /\ t[n].remote = stats[m].remote
                                                              /\ t[n].end = stats[m].end
        OBVIOUS
      <3>1. n \in DOMAIN old
        BY <2>1
      <3>2. PICK m \in DOMAIN stats : old[n] = stats[m]
        BY <1>1, <3>1
      <3> QED BY <2>1, <2>4, <3>1, <3>2
    <2> QED BY <2>3, <2>4, <2>5, <2>6
  <1>5. ASSUME NEW i \in DOMAIN us
        PROVE  /\ read[i].rule = us[i].rule /\ read[i] \in Rows
               /\ read[i] = us[i] \/ \E m \in DOMAIN stats : read[i] = stats[m]
    <2>1. us[i] \in Rows
      OBVIOUS
    <2>2. CASE Has(old, us[i].rule)
      <3> DEFINE p == PositionOf(us[i].rule, old)
      <3>1. read[i] = old[p] /\ p \in DOMAIN old /\ old[p].rule = us[i].rule
        BY <2>2, PositionFound DEF AsRead
      <3> HIDE DEF p
      <3> QED BY <1>1, <3>1
    <2>3. CASE ~Has(old, us[i].rule)
      BY <2>1, <2>3 DEF AsRead
    <2> QED BY <2>2, <2>3
  <1>6. read \in Seq(Rows) /\ DOMAIN read = DOMAIN us /\ Len(read) = Len(us)
    <2>1. read = [i \in DOMAIN us |-> read[i]] /\ DOMAIN us = 1..Len(us) /\ Len(us) \in Nat
      BY DEF AsRead
    <2> HIDE DEF read
    <2> QED BY <1>5, <2>1
  <1> HIDE DEF read
  <1>7. f = <<>> \/ f = read \o added
    BY DEF ToSave, read, old, added
  <1>8. ASSUME f = read \o added
        PROVE  /\ f \in Seq(Rows) /\ Distinct(f)
               /\ \A n \in DOMAIN f : \/ \E i \in DOMAIN us : f[n] = us[i]
                                      \/ \E m \in DOMAIN stats : f[n] = stats[m]
    <2> HIDE DEF f
    <2>1. f \in Seq(Rows) /\ Len(read) \in Nat /\ Len(added) \in Nat /\ Len(f) = Len(read) + Len(added)
      <3>1. Len(read) \in Nat /\ Len(added) \in Nat
        BY <1>2, <1>6
      <3>2. read \o added \in Seq(Rows) /\ Len(read \o added) = Len(read) + Len(added)
        BY <1>2, <1>6, Joined
      <3> QED BY <1>8, <3>1, <3>2
    <2>2. \A n \in DOMAIN f : \/ n \in DOMAIN read /\ f[n] = read[n]
                              \/ n - Len(read) \in DOMAIN added /\ f[n] = added[n - Len(read)]
      BY <1>2, <1>6, <1>8, <2>1
    <2>3. \A n \in DOMAIN read : \A m \in DOMAIN added : read[n].rule # added[m].rule
      BY <1>2, <1>5, <1>6 DEF Has
    <2>4. \A n, m \in DOMAIN read : read[n].rule = read[m].rule => n = m
      BY <1>5, <1>6 DEF Distinct
    <2>5. \A n, m \in DOMAIN added : added[n].rule = added[m].rule => n = m
      BY <1>2 DEF Distinct
    <2>6. ASSUME NEW n \in DOMAIN f, NEW m \in DOMAIN f, f[n].rule = f[m].rule PROVE n = m
      <3>1. n \in Int /\ m \in Int /\ Len(read) \in Int
        BY <2>1
      <3>2. CASE n \in DOMAIN read /\ f[n] = read[n]
        BY <2>2, <2>3, <2>4, <2>6, <3>2
      <3>3. CASE n - Len(read) \in DOMAIN added /\ f[n] = added[n - Len(read)]
        <4>1. m - Len(read) \in DOMAIN added /\ f[m] = added[m - Len(read)]
          BY <2>2, <2>3, <2>6, <3>3
        <4>2. n - Len(read) = m - Len(read)
          BY <2>5, <2>6, <3>3, <4>1
        <4> QED BY <3>1, <4>2
      <3> QED BY <2>2, <3>2, <3>3
    <2>7. Distinct(f)
      BY <2>6 DEF Distinct
    <2>8. \A n \in DOMAIN f : \/ \E i \in DOMAIN us : f[n] = us[i]
                              \/ \E m \in DOMAIN stats : f[n] = stats[m]
      BY <1>2, <1>5, <1>6, <2>2
    <2> QED BY <2>1, <2>7, <2>8
  <1>9. ASSUME f = <<>>
        PROVE  /\ f \in Seq(Rows) /\ Distinct(f)
               /\ \A n \in DOMAIN f : \/ \E i \in DOMAIN us : f[n] = us[i]
                                      \/ \E m \in DOMAIN stats : f[n] = stats[m]
    <2> HIDE DEF f
    <2> QED BY <1>9 DEF Distinct
  <1> HIDE DEF t, f
  <1> QED BY <1>4, <1>7, <1>8, <1>9 DEF t, f, old

\* The record of one who has read the rows us, is misled or not as b says, and goes on to
\* calibrate t and to save f.
CalibratesBy(y, us, b, t, f) ==
    [[y EXCEPT !.pc = "write", !.seen = us, !.misled = b]
        EXCEPT !.stats = <<>>, !.todo = t, !.fresh = f]

LEMMA RecordCalibrates ==
    ASSUME NEW y \in Locals, NEW us \in Seq(Rows), NEW b \in BOOLEAN,
           NEW t \in Seq(Writes), NEW f \in Seq(Rows)
    PROVE  LET x == CalibratesBy(y, us, b, t, f)
           IN  /\ x \in Locals /\ x.pc = "write" /\ x.seen = us /\ x.todo = t /\ x.misled = b
               /\ x.stats = <<>> /\ x.fresh = f
  <1> DEFINE z == [y EXCEPT !.pc = "write", !.seen = us, !.misled = b]
             x == [z EXCEPT !.stats = <<>>, !.todo = t, !.fresh = f]
  <1>1. z \in Locals /\ z.pc = "write" /\ z.seen = us
    BY DEF Locals
  <1>2. z.misled = b
    BY DEF Locals
  <1> HIDE DEF z
  <1>3. x \in Locals /\ x.pc = "write" /\ x.seen = us /\ x.todo = t /\ x.stats = <<>> /\ x.fresh = f
    <2>1. <<>> \in Seq(Rows)
      OBVIOUS
    <2>2. x \in Locals
      BY <1>1, <2>1 DEF Locals
    <2>3. x.pc = "write" /\ x.seen = us
      BY <1>1 DEF Locals
    <2>4. x.todo = t /\ x.stats = <<>> /\ x.fresh = f
      BY <1>1 DEF Locals
    <2> QED BY <2>2, <2>3, <2>4
  <1>4. x.misled = b
    BY <1>1, <1>2 DEF Locals
  <1> QED BY <1>3, <1>4 DEF z, CalibratesBy

LEMMA CalibratingFits ==
    ASSUME Typed, NEW k \in Syncs, me[k].pc = "fetched"
    PROVE  LET us == GetCurrentUsages
               x == CalibratesBy(me[k], us, Shifted, ToCalibrate(us, OldRules(us, me[k].stats)),
                                 ToSave(us, me[k].stats))
           IN  /\ Fits(k, x) /\ x.pc = "write" /\ x.seen = us /\ x.misled = Shifted
               /\ x.todo = ToCalibrate(us, OldRules(us, me[k].stats))
               /\ x.stats = <<>> /\ x.fresh = ToSave(us, me[k].stats)
  <1> DEFINE us == GetCurrentUsages
             t == ToCalibrate(us, OldRules(us, me[k].stats))
             f == ToSave(us, me[k].stats)
             y == me[k]
             b == Shifted
             x == CalibratesBy(y, us, b, t, f)
  <1>1. y \in Locals /\ Prepared(k, y)
    BY DEF Typed, EachFits, Fits
  <1>2. us \in Seq(Rows) /\ Distinct(us) /\ b \in BOOLEAN
    BY UsagesShown DEF Typed, Shifted
  <1>3. y.stats \in Seq(Rows) /\ Distinct(y.stats)
    BY <1>1 DEF Locals, Prepared
  <1> HIDE DEF us, b
  <1>4. /\ t \in Seq(Writes) /\ f \in Seq(Rows) /\ Distinct(f)
        /\ \A n \in DOMAIN t : /\ t[n].at \in DOMAIN us
                               /\ \A m \in DOMAIN t : t[m].at = t[n].at => m = n
    BY <1>2, <1>3, Calibration
  <1> HIDE DEF y, t, f, x
  <1>5. /\ x \in Locals /\ x.pc = "write" /\ x.seen = us /\ x.todo = t /\ x.misled = b
        /\ x.stats = <<>> /\ x.fresh = f
    BY <1>1, <1>2, <1>4, RecordCalibrates DEF x
  <1>6. Prepared(k, x)
    BY <1>1, <1>4, <1>5 DEF Prepared, Distinct
  <1> QED BY <1>5, <1>6 DEF Fits, x, us, t, f, y, b

\* Some of the rules, each once.
LEMMA RulesAsked ==
    ASSUME NEW I \in SUBSET DOMAIN Rules
    PROVE  LET asked == At(Rules, I)
           IN  /\ asked \in Seq(RuleSet) /\ Len(asked) \in Nat /\ DOMAIN asked = 1..Len(asked)
               /\ \A n, m \in DOMAIN asked : asked[n] = asked[m] => n = m
  <1> DEFINE asked == At(Rules, I)
  <1>1. Rules \in Seq(RuleSet) /\ Len(Rules) \in Nat /\ DOMAIN Rules = 1..Len(Rules)
    BY RuleData
  <1>2. /\ asked \in Seq(RuleSet) /\ DOMAIN asked = 1..Cardinality(I) /\ Cardinality(I) \in Nat
        /\ \A n \in DOMAIN asked : InOrder(I)[n] \in I /\ asked[n] = Rules[InOrder(I)[n]]
    BY <1>1, Selection
  <1>3. \A n, m \in 1..Cardinality(I) : InOrder(I)[n] = InOrder(I)[m] => n = m
    BY <1>1, Positions
  <1>4. \A n, m \in DOMAIN asked : asked[n] = asked[m] => n = m
    <2>1. \A i, j \in DOMAIN Rules : Rules[i] = Rules[j] => i = j
      BY RuleData DEF IsInjective
    <2> QED BY <1>1, <1>2, <1>3, <2>1
  <1>5. Len(asked) = Cardinality(I)
    BY <1>2
  <1> QED BY <1>2, <1>4, <1>5

\* What the platform says of some of the rules.
Said(I) == LET asked == At(Rules, I)
           IN  [i \in DOMAIN asked |-> Row(asked[i], Once(platform[asked[i]]),
                                           UsedUp(asked[i]), WindowEnd(asked[i], now))]

LEMMA PlatformSays ==
    ASSUME TypeOK, NEW I \in SUBSET DOMAIN Rules
    PROVE  /\ Said(I) \in Seq(Rows) /\ Distinct(Said(I))
           /\ \A n \in DOMAIN Said(I) : \E r \in RuleSet :
                 Said(I)[n] = Row(r, Once(platform[r]), UsedUp(r), WindowEnd(r, now))
  <1> DEFINE asked == At(Rules, I)
             s == Said(I)
  <1>2. asked \in Seq(RuleSet) /\ Len(asked) \in Nat /\ DOMAIN asked = 1..Len(asked)
    BY RulesAsked
  <1>4. \A n, m \in DOMAIN asked : asked[n] = asked[m] => n = m
    BY RulesAsked
  <1> HIDE DEF asked
  <1>5. /\ DOMAIN s = DOMAIN asked /\ s = [n \in 1..Len(asked) |-> s[n]]
        /\ \A n \in DOMAIN asked :
              s[n] = Row(asked[n], Once(platform[asked[n]]), UsedUp(asked[n]), WindowEnd(asked[n], now))
    BY <1>2 DEF Said, asked
  <1> HIDE DEF s
  <1>6. ASSUME NEW n \in DOMAIN asked PROVE asked[n] \in RuleSet /\ s[n] \in Rows /\ s[n].rule = asked[n]
    <2> DEFINE r == asked[n]
               p == UsedUp(r)
               e == WindowEnd(r, now)
    <2>1. r \in RuleSet /\ now \in 0..MaxTime /\ p \in BOOLEAN
      BY <1>2 DEF TypeOK, UsedUp
    <2>2. e \in Nat
      BY <2>1, Windows
    <2>3. s[n] = Row(r, Once(platform[r]), p, e)
      BY <1>5
    <2> HIDE DEF r, p, e
    <2>4. s[n] \in Rows /\ s[n].rule = r
      BY <2>1, <2>2, <2>3, CountTypes DEF Row
    <2> QED BY <2>1, <2>4 DEF r
  <1>7. s \in Seq(Rows)
    BY <1>2, <1>5, <1>6
  <1>8. Distinct(s)
    BY <1>4, <1>5, <1>6 DEF Distinct
  <1> QED BY <1>5, <1>6, <1>7, <1>8 DEF s

LEMMA AskingFits ==
    ASSUME Typed, NEW k \in Syncs, NEW I \in SUBSET DOMAIN Rules, me[k].pc = "idle"
    PROVE  LET x == [me[k] EXCEPT !.pc = "fetched", !.stats = Said(I)]
           IN  Fits(k, x) /\ x.pc = "fetched" /\ x.stats = Said(I) /\ x.fresh = <<>>
  <1> DEFINE y == me[k]
             s == Said(I)
             x == [y EXCEPT !.pc = "fetched", !.stats = s]
  <1>1. y \in Locals /\ Prepared(k, y) /\ y.pc = "idle"
    BY DEF Typed, EachFits, Fits
  <1>2. s \in Seq(Rows) /\ Distinct(s) /\ \A n \in DOMAIN s : s[n].local = None
    BY PlatformSays DEF Typed, Row
  <1> HIDE DEF y, s
  <1>3. x \in Locals /\ x.pc = "fetched" /\ x.stats = s /\ x.fresh = y.fresh /\ x.todo = y.todo
    BY <1>1, <1>2 DEF Locals
  <1>4. y.fresh = <<>> /\ y.todo = <<>>
    BY <1>1 DEF Prepared
  <1> HIDE DEF x
  <1>5. Prepared(k, x)
    BY <1>2, <1>3, <1>4, RuleData DEF Prepared, Distinct
  <1> QED BY <1>3, <1>4, <1>5 DEF Fits, x, y, s

\* One write is done, the rest is still to do.
LEMMA GoesOn ==
    ASSUME Typed, NEW w \in Calls \cup Syncs, me[w].todo # <<>>
    PROVE  LET y == me[w]
               x == [y EXCEPT !.todo = Tail(@)]
           IN  /\ Fits(w, x) /\ x.pc = y.pc /\ x.seen = y.seen /\ x.stats = y.stats
               /\ x.fresh = y.fresh /\ x.misled = y.misled /\ y.pc \in {"incr", "write"}
               /\ 1 \in DOMAIN y.todo /\ y.todo[1] \in Writes /\ y.todo # x.todo
               /\ \A n \in DOMAIN x.todo : n + 1 \in DOMAIN y.todo /\ x.todo[n] = y.todo[n + 1]
               /\ \A n \in DOMAIN y.todo : n = 1 \/ n - 1 \in DOMAIN x.todo
  <1> DEFINE y == me[w]
             t == Tail(y.todo)
             x == [y EXCEPT !.todo = t]
  <1>1. y \in Locals /\ Prepared(w, y)
    BY DEF Typed, EachFits, Fits
  <1>2. y.todo \in Seq(Writes) /\ y.todo # <<>>
    BY <1>1 DEF Locals
  <1> HIDE DEF y
  <1>3. Len(y.todo) \in Nat \ {0} /\ DOMAIN y.todo = 1..Len(y.todo)
    BY <1>2
  <1>4. /\ t \in Seq(Writes) /\ Len(t) = Len(y.todo) - 1 /\ DOMAIN t = 1..(Len(y.todo) - 1)
        /\ \A n \in 1..(Len(y.todo) - 1) : t[n] = y.todo[n + 1]
    BY <1>2, <1>3
  <1> HIDE DEF t
  <1>5. 1 \in DOMAIN y.todo /\ y.todo[1] \in Writes /\ y.todo # t
    BY <1>2, <1>3, <1>4
  <1>6. \A n \in DOMAIN t : n + 1 \in DOMAIN y.todo /\ t[n] = y.todo[n + 1] /\ n \in Int
    BY <1>3, <1>4
  <1>7. \A n \in DOMAIN y.todo : n = 1 \/ n - 1 \in DOMAIN t
    BY <1>3, <1>4
  <1>8. /\ x \in Locals /\ x.pc = y.pc /\ x.seen = y.seen /\ x.stats = y.stats
        /\ x.fresh = y.fresh /\ x.todo = t
    BY <1>1, <1>4 DEF Locals
  <1>9. x.misled = y.misled
    BY <1>1 DEF Locals
  <1>10. y.pc \in {"incr", "write"}
    BY <1>1, <1>2 DEF Prepared
  <1> HIDE DEF x
  <1>11. \A n \in DOMAIN t :
            /\ t[n].at \in DOMAIN y.seen
            /\ y.pc = "incr" => Source[y.seen[t[n].at].rule] = SourceOf[w]
    BY <1>1, <1>6 DEF Prepared
  <1>12. \A n, m \in DOMAIN t : t[m].at = t[n].at => m = n
    BY <1>1, <1>6 DEF Prepared
  <1>13. Prepared(w, x)
    BY <1>1, <1>8, <1>10, <1>11, <1>12 DEF Prepared, Distinct
  <1> QED BY <1>5, <1>6, <1>7, <1>8, <1>9, <1>10, <1>13 DEF Fits, x, t, y

\* A list with the rules of the one before is a list of different rules.
LEMMA SameRules ==
    ASSUME TypeOK, list' \in Seq(Rows), DOMAIN list' = DOMAIN list,
           \A i \in DOMAIN list : list'[i].rule = list[i].rule
    PROVE  IsInjective([i \in DOMAIN list' |-> list'[i].rule])
  BY DEF TypeOK, IsInjective

LEMMA DistinctRows ==
    ASSUME NEW s, Distinct(s)
    PROVE  IsInjective([i \in DOMAIN s |-> s[i].rule])
  BY DEF Distinct, IsInjective

-----------------------------------------------------------------------------
\* What no step changes the type of.
Rest == /\ memory' \in BOOLEAN /\ skew' \in (IF memory' THEN {0} ELSE {-1, 0, 1})
        /\ now' \in 0..MaxTime /\ resets' \in 0..MaxResets /\ checks' \in 0..MaxChecks
        /\ platform' \in [RuleSet -> SUBSET Calls]
        /\ crossed' \subseteq RuleSet /\ excused' \subseteq Calls /\ mixed' \in BOOLEAN

ListKept == list' \in Seq(Rows) /\ IsInjective([i \in DOMAIN list' |-> list'[i].rule])
AllFit == me' \in [Calls \cup Syncs -> Locals] /\ EachFits'

LEMMA Together == Rest /\ ListKept /\ AllFit => Typed'
  BY DEF Typed, TypeOK, Rest, ListKept, AllFit

LEMMA ListStays == Typed /\ list' = list => ListKept
  BY DEF Typed, TypeOK, ListKept

LEMMA ServeTyped ==
    ASSUME Typed, NEW c \in Calls, Serve(c)
    PROVE  Typed'
  <1> DEFINE y == me[c]
             x == [y EXCEPT !.pc = "served"]
  <1>1. y \in Locals /\ Prepared(c, y) /\ y.pc = "idle"
    BY DEF Typed, EachFits, Fits, Serve
  <1> HIDE DEF y
  <1>2. /\ x \in Locals /\ x.pc = "served" /\ x.todo = y.todo /\ x.stats = y.stats
        /\ x.fresh = y.fresh /\ x.seen = y.seen
    BY <1>1 DEF Locals
  <1> HIDE DEF x
  <1>3. Prepared(c, x)
    BY <1>1, <1>2 DEF Prepared
  <1>4. me' = [me EXCEPT ![c] = x]
    BY DEF Serve, x, y
  <1>5. AllFit
    BY <1>2, <1>3, <1>4, MovesFit DEF Fits, AllFit
  <1>6. Rest
    BY DEF Rest, Serve, time, Typed, TypeOK
  <1> QED BY <1>5, <1>6, Together, ListStays DEF Serve

LEMMA RecordUsageTyped ==
    ASSUME Typed, NEW c \in Calls, RecordUsage(c)
    PROVE  Typed'
  <1> DEFINE us == GetCurrentUsages
             x == [Read(c, "incr") EXCEPT !.todo = ToCount(c, us)]
  <1>1. me[c].pc = "served"
    BY DEF RecordUsage
  <1>2. PICK z \in Counted \cup {x} : me' = [me EXCEPT ![c] = z]
    BY DEF RecordUsage, ToCount
  <1>3. Fits(c, z)
    BY <1>1, <1>2, CountingFits, IdleFits
  <1>4. AllFit
    BY <1>2, <1>3, MovesFit DEF AllFit
  <1>5. Rest
    BY DEF Rest, RecordUsage, time, Typed, TypeOK
  <1> QED BY <1>4, <1>5, Together, ListStays DEF RecordUsage

LEMMA IncrTyped ==
    ASSUME Typed, NEW c \in Calls, Incr(c)
    PROVE  Typed'
  <1> DEFINE x == [me[c] EXCEPT !.todo = Tail(@)]
  <1>1. me[c].todo # <<>>
    BY DEF Incr
  <1>2. PICK z \in Counted \cup {x} : me' = [me EXCEPT ![c] = z]
    BY DEF Incr
  <1>3. Fits(c, z)
    BY <1>1, <1>2, GoesOn, IdleFits
  <1>4. AllFit
    BY <1>2, <1>3, MovesFit DEF AllFit
  <1>5. Rest
    <2>1. TakenOver(list') \subseteq RuleSet
      <3>1. \A i \in DOMAIN list : list[i].rule \in RuleSet
        <4>1. \A i \in DOMAIN list : list[i] \in Rows
          BY DEF Typed, TypeOK
        <4> QED BY <4>1 DEF Rows
      <3> QED BY <3>1 DEF TakenOver
    <2>2. crossed' \subseteq RuleSet
      BY <2>1 DEF Incr, Typed, TypeOK
    <2> QED BY <2>2 DEF Rest, Incr, time, Typed, TypeOK
  <1>6. ListKept
    <2>1. CASE NoRow(c)
      BY <2>1, ListStays DEF Incr
    <2>2. CASE ~NoRow(c)
      <3> DEFINE p == Position(c)
                 new == [list EXCEPT ![p].local[c] = @ + 1]
      <3>1. p \in DOMAIN list /\ list' = new
        BY <2>2 DEF Incr, NoRow
      <3>2. new \in Seq(Rows) /\ DOMAIN new = DOMAIN list /\ \A i \in DOMAIN list : new[i].rule = list[i].rule
        BY <3>1, RowCounted DEF Typed
      <3> HIDE DEF new
      <3> QED BY <3>1, <3>2, SameRules DEF Typed, ListKept
    <2> QED BY <2>1, <2>2
  <1> QED BY <1>4, <1>5, <1>6, Together

LEMMA CheckTyped ==
    ASSUME Typed, NEW c \in Calls, Check(c)
    PROVE  Typed'
  <1>1. PICK z \in Counted : me' = [me EXCEPT ![c] = z]
    BY DEF Check
  <1>2. AllFit
    BY <1>1, IdleFits, MovesFit DEF AllFit
  <1>3. Rest
    BY DEF Rest, Check, time, Typed, TypeOK
  <1> QED BY <1>2, <1>3, Together, ListStays DEF Check

LEMMA FetchTyped ==
    ASSUME Typed, NEW k \in Syncs, NEW I \in SUBSET DOMAIN Rules, Fetch(k, I)
    PROVE  Typed'
  <1> DEFINE x == [me[k] EXCEPT !.pc = "fetched", !.stats = Said(I)]
  <1>1. me[k].pc = "idle" /\ me' = [me EXCEPT ![k] = x]
    BY DEF Fetch, Said
  <1>2. Fits(k, x)
    BY <1>1, AskingFits
  <1> HIDE DEF x
  <1>3. AllFit
    BY <1>1, <1>2, MovesFit DEF AllFit
  <1>4. Rest
    BY SMTT(30), RuleData DEF Rest, Fetch, time, Typed, TypeOK, Counting
  <1> QED BY <1>3, <1>4, Together, ListStays DEF Fetch

LEMMA ReadToCalibrateTyped ==
    ASSUME Typed, NEW k \in Syncs, ReadToCalibrate(k)
    PROVE  Typed'
  <1> DEFINE us == GetCurrentUsages
             x == CalibratesBy(me[k], us, Shifted, ToCalibrate(us, OldRules(us, me[k].stats)),
                               ToSave(us, me[k].stats))
  <1>1. me[k].pc = "fetched" /\ me' = [me EXCEPT ![k] = x]
    BY DEF ReadToCalibrate, Read, CalibratesBy, ToCalibrate, ToSave, OldRules, NewRules, AsRead, Known
  <1>2. Fits(k, x)
    BY <1>1, CalibratingFits
  <1> HIDE DEF x
  <1>3. AllFit
    BY <1>1, <1>2, MovesFit DEF AllFit
  <1>4. Rest
    BY DEF Rest, ReadToCalibrate, time, Typed, TypeOK
  <1> QED BY <1>3, <1>4, Together, ListStays DEF ReadToCalibrate

LEMMA CalibrateFromResponseTyped ==
    ASSUME Typed, NEW c \in Calls, CalibrateFromResponse(c)
    PROVE  Typed'
  <1> DEFINE x == [Read(c, "write") EXCEPT !.todo = ToSettle(c, GetCurrentUsages)]
  <1>1. me[c].pc = "limited"
    BY DEF CalibrateFromResponse
  <1>2. PICK z \in {Done, x} : me' = [me EXCEPT ![c] = z]
    BY DEF CalibrateFromResponse, ToSettle
  <1>3. Fits(c, z)
    BY <1>1, <1>2, SettlingFits, IdleFits DEF Counted
  <1>4. AllFit
    BY <1>2, <1>3, MovesFit DEF AllFit
  <1>5. Rest
    BY DEF Rest, CalibrateFromResponse, time, Typed, TypeOK, Counting
  <1> QED BY <1>4, <1>5, Together, ListStays DEF CalibrateFromResponse

LEMMA CalibrateRuleTyped ==
    ASSUME Typed, NEW w \in Calls \cup Syncs, CalibrateRule(w)
    PROVE  Typed'
  <1> DEFINE x == [me[w] EXCEPT !.todo = Tail(@)]
  <1>1. me[w].todo # <<>>
    BY DEF CalibrateRule
  <1>2. PICK z \in {Returned(w), x} : me' = [me EXCEPT ![w] = z]
    <2>1. me' = [me EXCEPT ![w] = IF Fails(w) THEN Returned(w) ELSE x]
      BY DEF CalibrateRule
    <2> HIDE DEF x
    <2> QED BY <2>1
  <1>3. Fits(w, z) /\ me[w].todo[1] \in Writes
    <2>1. Fits(w, x) /\ me[w].todo[1] \in Writes
      BY <1>1, GoesOn
    <2>2. Fits(w, Returned(w))
      BY IdleFits
    <2> HIDE DEF x
    <2> QED BY <1>2, <2>1, <2>2
  <1>4. AllFit
    BY <1>2, <1>3, MovesFit DEF AllFit
  <1>5. Rest
    BY DEF Rest, CalibrateRule, time, Typed, TypeOK, StillCrossed
  <1>6. ListKept
    <2>1. CASE NoRow(w)
      BY <2>1, ListStays DEF CalibrateRule
    <2>2. CASE ~NoRow(w)
      <3> DEFINE p == Position(w)
                 t == me[w].todo[1]
                 new == [list EXCEPT ![p] = Rewritten(@, t)]
      <3>1. p \in DOMAIN list /\ list' = new
        BY <2>2 DEF CalibrateRule, NoRow
      <3>2. new \in Seq(Rows) /\ DOMAIN new = DOMAIN list /\ \A i \in DOMAIN list : new[i].rule = list[i].rule
        BY <1>3, <3>1, RowRewritten DEF Typed
      <3> HIDE DEF new
      <3> QED BY <3>1, <3>2, SameRules DEF Typed, ListKept
    <2> QED BY <2>1, <2>2
  <1> QED BY <1>4, <1>5, <1>6, Together

\* The rows are saved anew, and nobody's local variables change but to be misled.
LEMMA SavedAnew ==
    ASSUME Typed, NEW m \in [Calls \cup Syncs -> Locals], \A w \in Calls \cup Syncs : Fits(w, m[w]),
           me' = Mislead(m)
    PROVE  AllFit
  <1>1. /\ Mislead(m) \in [Calls \cup Syncs -> Locals]
        /\ \A w \in Calls \cup Syncs : Fits(w, Mislead(m)[w])
    BY MisleadFits
  <1> QED BY <1>1 DEF AllFit, EachFits, Fits

LEMMA FinishTyped ==
    ASSUME Typed, NEW w \in Calls \cup Syncs, Finish(w)
    PROVE  Typed'
  <1> DEFINE m == [me EXCEPT ![w] = Returned(w)]
  <1>1. /\ me \in [Calls \cup Syncs -> Locals]
        /\ \A v \in Calls \cup Syncs : Fits(v, me[v]) /\ Fits(v, Returned(v))
    BY IdleFits DEF Typed, TypeOK, EachFits
  <1>2. m \in [Calls \cup Syncs -> Locals] /\ \A v \in Calls \cup Syncs : Fits(v, m[v])
    BY <1>1 DEF Fits
  <1>3. Rest
    BY DEF Rest, Finish, time, Typed, TypeOK, StillCrossed
  <1>4. CASE me[w].fresh = <<>>
    <2>1. me' = m /\ list' = list
      BY <1>4 DEF Finish
    <2>2. AllFit
      BY <1>1, <2>1, MovesFit DEF AllFit
    <2> QED BY <1>3, <2>1, <2>2, Together, ListStays
  <1>5. CASE me[w].fresh # <<>>
    <2>1. me' = Mislead(m) /\ list' = me[w].fresh
      BY <1>5 DEF Finish
    <2> HIDE DEF m
    <2>2. AllFit
      BY <1>2, <2>1, SavedAnew
    <2>3. me[w].fresh \in Seq(Rows) /\ Distinct(me[w].fresh)
      BY <1>1 DEF Fits, Locals, Prepared
    <2>4. ListKept
      BY <2>1, <2>3, DistinctRows DEF ListKept
    <2> QED BY <1>3, <2>2, <2>4, Together
  <1> QED BY <1>4, <1>5

\* The rows of a refresh are as good as those of the rules.
ValidRules == At(Rules, {i \in DOMAIN Rules : Rules[i] \in Valid})
Initial == [i \in DOMAIN ValidRules |->
               Row(ValidRules[i], None, FALSE, WindowEnd(ValidRules[i], now))]

LEMMA InitialRows ==
    ASSUME TypeOK
    PROVE  /\ Initial \in Seq(Rows) /\ Distinct(Initial)
           /\ \A i \in DOMAIN Initial : \E r \in RuleSet :
                 Initial[i] = Row(r, None, FALSE, WindowEnd(r, now))
  <1>1. ValidRules \in Seq(RuleSet) /\ Len(ValidRules) \in Nat /\ DOMAIN ValidRules = 1..Len(ValidRules)
    BY RulesAsked DEF ValidRules
  <1>2. \A i, j \in DOMAIN ValidRules : ValidRules[i] = ValidRules[j] => i = j
    BY RulesAsked DEF ValidRules
  <1>3. now \in 0..MaxTime
    BY DEF TypeOK
  <1>4. ASSUME NEW i \in DOMAIN ValidRules
        PROVE  /\ ValidRules[i] \in RuleSet
               /\ Initial[i] = Row(ValidRules[i], None, FALSE, WindowEnd(ValidRules[i], now))
               /\ Initial[i] \in Rows /\ Initial[i].rule = ValidRules[i]
    <2> DEFINE r == ValidRules[i]
               e == WindowEnd(r, now)
    <2>1. r \in RuleSet
      BY <1>1
    <2>2. e \in Nat
      BY <1>3, <2>1, Windows
    <2>3. Initial[i] = Row(r, None, FALSE, e)
      BY DEF Initial
    <2> HIDE DEF r, e
    <2>4. None \in [Calls -> Nat] /\ FALSE \in BOOLEAN
      BY CountTypes
    <2>5. Row(r, None, FALSE, e) \in Rows
      BY <2>1, <2>2, <2>4, CountTypes
    <2>6. Initial[i] \in Rows /\ Initial[i].rule = r
      BY <2>3, <2>5 DEF Row
    <2> QED BY <2>1, <2>3, <2>6 DEF r, e
  <1>5. DOMAIN Initial = DOMAIN ValidRules /\ Initial = [i \in 1..Len(ValidRules) |-> Initial[i]]
    BY <1>1 DEF Initial
  <1>6. Initial \in Seq(Rows)
    <2>1. \A i \in 1..Len(ValidRules) : Initial[i] \in Rows
      BY <1>1, <1>4
    <2> QED BY <1>1, <1>5, <2>1
  <1>7. Distinct(Initial)
    <2> SUFFICES ASSUME NEW i \in DOMAIN Initial, NEW j \in DOMAIN Initial,
                        Initial[i].rule = Initial[j].rule
                 PROVE  i = j
      BY DEF Distinct
    <2>1. i \in DOMAIN ValidRules /\ j \in DOMAIN ValidRules
      BY <1>5
    <2>2. ValidRules[i] = ValidRules[j]
      BY <1>4, <2>1
    <2> QED BY <1>2, <2>1, <2>2
  <1> QED BY <1>4, <1>5, <1>6, <1>7

LEMMA ResetTyped ==
    ASSUME Typed, NEW new \in {Initial, <<>>}, Reset(new)
    PROVE  Typed'
  <1>1. me' = Mislead(me) /\ list' = new
    BY DEF Reset
  <1>2. AllFit
    BY <1>1, SavedAnew DEF Typed, TypeOK, EachFits
  <1>3. new \in Seq(Rows) /\ Distinct(new)
    <2>1. Initial \in Seq(Rows) /\ Distinct(Initial)
      BY InitialRows DEF Typed
    <2>2. <<>> \in Seq(Rows) /\ Distinct(<<>>)
      BY DEF Distinct
    <2> QED BY <2>1, <2>2
  <1>4. ListKept
    BY <1>1, <1>3, DistinctRows DEF ListKept
  <1>5. Rest
    BY RuleData DEF Rest, Reset, time, Typed, TypeOK
  <1> QED BY <1>2, <1>4, <1>5, Together

LEMMA TickTyped ==
    ASSUME Typed, Tick
    PROVE  Typed'
  <1>1. me' = me /\ list' = list
    BY DEF Tick
  <1>2. AllFit
    BY <1>1 DEF AllFit, Typed, TypeOK, EachFits
  <1>3. platform' \in [RuleSet -> SUBSET Calls]
    BY DEF Tick, Typed, TypeOK
  <1>4. now' \in 0..MaxTime
    BY RuleData DEF Tick, Typed, TypeOK
  <1>5. Rest
    BY <1>3, <1>4 DEF Rest, Tick, Typed, TypeOK, Counting
  <1> QED BY <1>1, <1>2, <1>5, Together, ListStays

LEMMA TypedStarts == Init => Typed
  <1> SUFFICES ASSUME Init PROVE Typed
    OBVIOUS
  <1>1. me \in [Calls \cup Syncs -> Locals] /\ EachFits
    BY IdleFits DEF Init, EachFits, Fits
  <1>2. {MaxTime, MaxResets, MaxChecks} \subseteq Nat
    BY RuleData
  <1>3. platform \in [RuleSet -> SUBSET Calls]
    BY DEF Init
  <1>4. list \in Seq(Rows) /\ IsInjective([i \in DOMAIN list |-> list[i].rule])
    BY DEF Init, IsInjective
  <1>5. memory \in BOOLEAN /\ skew \in (IF memory THEN {0} ELSE {-1, 0, 1})
    BY DEF Init
  <1>6. now \in 0..MaxTime /\ resets \in 0..MaxResets /\ checks \in 0..MaxChecks
    BY <1>2 DEF Init
  <1>7. crossed \subseteq RuleSet /\ excused \subseteq Calls /\ mixed \in BOOLEAN
    BY DEF Init
  <1> QED BY <1>1, <1>3, <1>4, <1>5, <1>6, <1>7 DEF Typed, TypeOK

LEMMA TypedStays ==
    ASSUME Typed, [Next]_vars
    PROVE  Typed'
  <1>1. ASSUME NEW c \in Calls, Serve(c) \/ RecordUsage(c) \/ Incr(c) \/ Check(c)
                                \/ CalibrateFromResponse(c)
        PROVE  Typed'
    BY <1>1, ServeTyped, RecordUsageTyped, IncrTyped, CheckTyped, CalibrateFromResponseTyped
  <1>2. ASSUME NEW k \in Syncs, ReadToCalibrate(k) PROVE Typed'
    BY <1>2, ReadToCalibrateTyped
  <1>3. ASSUME NEW k \in Syncs, NEW I \in SUBSET DOMAIN Rules, Fetch(k, I) PROVE Typed'
    BY <1>3, FetchTyped
  <1>4. ASSUME NEW w \in Calls \cup Syncs, CalibrateRule(w) \/ Finish(w) PROVE Typed'
    BY <1>4, CalibrateRuleTyped, FinishTyped
  <1>5. CASE InitRules \/ Remove
    BY <1>5, ResetTyped DEF InitRules, Remove, Initial, ValidRules
  <1>6. CASE Tick
    BY <1>6, TickTyped
  <1>7. CASE UNCHANGED vars
    BY <1>7 DEF vars, time, Typed, TypeOK, EachFits
  <1> QED BY <1>1, <1>2, <1>3, <1>4, <1>5, <1>6, <1>7 DEF Next

\* Every variable has its type, and a rule has at most one row: for any number of requests and
\* health checks, however calibrations, resets and windows that end interleave.
THEOREM TypeCorrect == Spec => []TypeOK
  <1>1. Typed => TypeOK
    BY DEF Typed
  <1> QED BY <1>1, TypedStarts, TypedStays, PTL DEF Spec

-----------------------------------------------------------------------------
\* How the steps that write change the rows.
LEMMA IncrShape ==
    ASSUME Typed, NEW c \in Calls, Incr(c)
    PROVE  /\ list' \in Seq(Rows) /\ DOMAIN list' = DOMAIN list /\ Len(list') = Len(list)
           /\ \A i \in DOMAIN list : /\ list'[i].rule = list[i].rule /\ list'[i].end = list[i].end
                                     /\ list'[i].remote = list[i].remote
           /\ \A i \in DOMAIN list : \A d \in Calls :
                 list'[i].local[d] = IF i = Position(c) /\ d = c THEN list[i].local[d] + 1
                                     ELSE list[i].local[d]
  <1>1. list \in Seq(Rows)
    BY DEF Typed, TypeOK
  <1>2. CASE NoRow(c)
    <2>1. list' = list
      BY <1>2 DEF Incr
    <2>2. \A i \in DOMAIN list : i # Position(c)
      BY <1>2 DEF NoRow
    <2> QED BY <1>1, <2>1, <2>2
  <1>3. CASE ~NoRow(c)
    <2>1. Position(c) \in DOMAIN list /\ list' = [list EXCEPT ![Position(c)].local[c] = @ + 1]
      BY <1>3 DEF Incr, NoRow
    <2> QED BY <2>1, RowCounted DEF Typed
  <1> QED BY <1>2, <1>3

LEMMA WriteShape ==
    ASSUME Typed, NEW w \in Calls \cup Syncs, CalibrateRule(w)
    PROVE  /\ list' \in Seq(Rows) /\ DOMAIN list' = DOMAIN list /\ Len(list') = Len(list)
           /\ \A i \in DOMAIN list : list'[i].rule = list[i].rule
           /\ \A i \in DOMAIN list :
                 list'[i] = IF i = Position(w)
                            THEN Row(list[i].rule, me[w].todo[1].remote, me[w].todo[1].spent,
                                     me[w].todo[1].end)
                            ELSE list[i]
  <1>1. list \in Seq(Rows)
    BY DEF Typed, TypeOK
  <1>2. CASE NoRow(w)
    <2>1. list' = list
      BY <1>2 DEF CalibrateRule
    <2>2. \A i \in DOMAIN list : i # Position(w)
      BY <1>2 DEF NoRow
    <2> QED BY <1>1, <2>1, <2>2
  <1>3. CASE ~NoRow(w)
    <2> DEFINE t == me[w].todo[1]
    <2>1. Position(w) \in DOMAIN list /\ list' = [list EXCEPT ![Position(w)] = Rewritten(@, t)]
      BY <1>3 DEF CalibrateRule, NoRow
    <2>2. t \in Writes
      BY GoesOn DEF CalibrateRule
    <2> HIDE DEF t
    <2>3. LET new == [list EXCEPT ![Position(w)] = Rewritten(@, t)]
          IN  /\ new \in Seq(Rows) /\ DOMAIN new = DOMAIN list /\ Len(new) = Len(list)
              /\ \A i \in DOMAIN list :
                    new[i] = IF i = Position(w) THEN Row(list[i].rule, t.remote, t.spent, t.end) ELSE list[i]
              /\ \A i \in DOMAIN list : new[i].rule = list[i].rule
      BY <2>1, <2>2, RowRewritten DEF Typed
    <2> QED BY <2>1, <2>3 DEF t
  <1> QED BY <1>2, <1>3

\* Who moves, and to what: everybody else stays.
Moves(w, x) == /\ me'[w] = x
               /\ \A v \in (Calls \cup Syncs) \ {w} : me'[v] = me[v]

LEMMA OneMoves ==
    ASSUME Typed, NEW w \in Calls \cup Syncs, NEW x, me' = [me EXCEPT ![w] = x]
    PROVE  Moves(w, x)
  BY DEF Typed, TypeOK, Moves

-----------------------------------------------------------------------------
\* Who has not been misled has read the rules at the positions they still have.
Oriented(x, rows) ==
    x.pc \in {"incr", "write"} /\ ~x.misled =>
       \A i \in DOMAIN x.seen \cap DOMAIN rows : rows[i].rule = x.seen[i].rule
EachOriented == \A w \in Calls \cup Syncs : Oriented(me[w], list)

OrientedInv == Typed /\ EachOriented

\* The rules have kept their positions, and x is no further misled than y was.
RulesStay == /\ DOMAIN list' = DOMAIN list
             /\ \A i \in DOMAIN list : list'[i].rule = list[i].rule
Follows(y, x) == x.pc \in {"incr", "write"} /\ ~x.misled =>
                    y.pc \in {"incr", "write"} /\ ~y.misled /\ x.seen = y.seen

LEMMA StillOriented ==
    ASSUME EachOriented, RulesStay, NEW w \in Calls \cup Syncs, NEW x, Follows(me[w], x)
    PROVE  Oriented(x, list')
  BY DEF EachOriented, RulesStay, Follows, Oriented

LEMMA OthersOriented ==
    ASSUME EachOriented, RulesStay, NEW w \in Calls \cup Syncs, NEW x, Moves(w, x),
           Oriented(x, list')
    PROVE  EachOriented'
  <1>1. ASSUME NEW v \in Calls \cup Syncs PROVE Oriented(me'[v], list')
    <2>1. CASE v = w
      BY <2>1 DEF Moves
    <2>2. CASE v # w
      <3>1. me'[v] = me[v]
        BY <2>2 DEF Moves
      <3>2. Follows(me[v], me[v])
        BY DEF Follows
      <3> QED BY <3>1, <3>2, StillOriented
    <2> QED BY <2>1, <2>2
  <1> QED BY <1>1 DEF EachOriented

\* Who has read the rows, and all of them, has read them at their positions.
LEMMA ReadingOrients ==
    ASSUME TypeOK, NEW x, x.seen = GetCurrentUsages, x.misled = Shifted
    PROVE  Oriented(x, list)
  BY UsagesShown DEF Oriented

\* Who is misled, or does nothing with what it has read, cannot be wrong.
LEMMA Harmless ==
    ASSUME NEW x, x.pc \notin {"incr", "write"} \/ x.misled, NEW rows
    PROVE  Oriented(x, rows)
  BY DEF Oriented

LEMMA Finished == /\ \A x \in Counted : x.pc \notin {"incr", "write"}
                  /\ \A w : Returned(w).pc \notin {"incr", "write"}
  BY DEF Counted, Returned, Done, Idle

LEMMA OrientedStays ==
    ASSUME OrientedInv, [Next]_vars
    PROVE  EachOriented'
  <1> USE DEF OrientedInv
  <1>0. TypeOK
    BY DEF Typed
  <1>1. ASSUME NEW c \in Calls, Serve(c) PROVE EachOriented'
    <2> DEFINE x == [me[c] EXCEPT !.pc = "served"]
    <2>1. x.pc = "served" /\ Moves(c, x) /\ list' = list
      <3>1. me[c] \in Locals /\ me' = [me EXCEPT ![c] = x]
        BY <1>1 DEF Serve, Typed, TypeOK
      <3> QED BY <1>1, <3>1, OneMoves DEF Locals, Serve
    <2> HIDE DEF x
    <2> QED BY <2>1, Harmless, OthersOriented DEF RulesStay
  <1>2. ASSUME NEW c \in Calls, RecordUsage(c) PROVE EachOriented'
    <2> DEFINE x == [Read(c, "incr") EXCEPT !.todo = ToCount(c, GetCurrentUsages)]
    <2>1. list' = list /\ me[c].pc = "served"
      BY <1>2 DEF RecordUsage
    <2>2. PICK z \in Counted \cup {x} : me' = [me EXCEPT ![c] = z]
      BY <1>2 DEF RecordUsage, ToCount
    <2>3. x.seen = GetCurrentUsages /\ x.misled = Shifted
      BY <2>1, CountingFits
    <2> HIDE DEF x
    <2>4. Oriented(z, list)
      BY <1>0, <2>2, <2>3, Harmless, Finished, ReadingOrients
    <2> QED BY <2>1, <2>2, <2>4, OneMoves, OthersOriented DEF RulesStay
  <1>3. ASSUME NEW c \in Calls, Incr(c) PROVE EachOriented'
    <2> DEFINE x == [me[c] EXCEPT !.todo = Tail(@)]
    <2>1. RulesStay /\ me[c].todo # <<>>
      BY <1>3, IncrShape DEF RulesStay, Incr
    <2>2. PICK z \in Counted \cup {x} : me' = [me EXCEPT ![c] = z]
      BY <1>3 DEF Incr
    <2>3. x.pc = me[c].pc /\ x.seen = me[c].seen /\ x.misled = me[c].misled
      BY <2>1, GoesOn
    <2> HIDE DEF x
    <2>4. Follows(me[c], z)
      BY <2>2, <2>3, Finished DEF Follows
    <2> QED BY <2>1, <2>2, <2>4, OneMoves, OthersOriented, StillOriented
  <1>4. ASSUME NEW c \in Calls, Check(c) PROVE EachOriented'
    <2>1. list' = list
      BY <1>4 DEF Check
    <2>2. PICK z \in Counted : me' = [me EXCEPT ![c] = z]
      BY <1>4 DEF Check
    <2> QED BY <2>1, <2>2, Finished, Harmless, OneMoves, OthersOriented DEF RulesStay
  <1>5. ASSUME NEW c \in Calls, CalibrateFromResponse(c) PROVE EachOriented'
    <2> DEFINE x == [Read(c, "write") EXCEPT !.todo = ToSettle(c, GetCurrentUsages)]
    <2>1. list' = list /\ me[c].pc = "limited"
      BY <1>5 DEF CalibrateFromResponse
    <2>2. PICK z \in {Done, x} : me' = [me EXCEPT ![c] = z]
      BY <1>5 DEF CalibrateFromResponse, ToSettle
    <2>3. x.seen = GetCurrentUsages /\ x.misled = Shifted
      BY <2>1, SettlingFits
    <2> HIDE DEF x
    <2>4. Oriented(z, list)
      BY <1>0, <2>2, <2>3, Harmless, Finished, ReadingOrients DEF Counted
    <2> QED BY <2>1, <2>2, <2>4, OneMoves, OthersOriented DEF RulesStay
  <1>6. ASSUME NEW k \in Syncs, ReadToCalibrate(k) PROVE EachOriented'
    <2> DEFINE us == GetCurrentUsages
               x == CalibratesBy(me[k], us, Shifted, ToCalibrate(us, OldRules(us, me[k].stats)),
                                 ToSave(us, me[k].stats))
    <2>1. me[k].pc = "fetched" /\ me' = [me EXCEPT ![k] = x] /\ list' = list
      BY <1>6 DEF ReadToCalibrate, Read, CalibratesBy, ToCalibrate, ToSave, OldRules, NewRules,
                  AsRead, Known
    <2>2. x.seen = us /\ x.misled = Shifted
      BY <2>1, CalibratingFits
    <2> HIDE DEF x
    <2>3. Oriented(x, list)
      BY <1>0, <2>2, ReadingOrients
    <2> QED BY <2>1, <2>3, OneMoves, OthersOriented DEF RulesStay
  <1>7. ASSUME NEW k \in Syncs, NEW I \in SUBSET DOMAIN Rules, Fetch(k, I) PROVE EachOriented'
    <2> DEFINE x == [me[k] EXCEPT !.pc = "fetched", !.stats = Said(I)]
    <2>1. me[k].pc = "idle" /\ me' = [me EXCEPT ![k] = x] /\ list' = list
      BY <1>7 DEF Fetch, Said
    <2>2. x.pc = "fetched"
      BY <2>1, AskingFits
    <2> HIDE DEF x
    <2> QED BY <2>1, <2>2, Harmless, OneMoves, OthersOriented DEF RulesStay
  <1>8. ASSUME NEW w \in Calls \cup Syncs, CalibrateRule(w) PROVE EachOriented'
    <2> DEFINE x == [me[w] EXCEPT !.todo = Tail(@)]
    <2>1. RulesStay /\ me[w].todo # <<>>
      BY <1>8, WriteShape DEF RulesStay, CalibrateRule
    <2>2. PICK z \in {Returned(w), x} : me' = [me EXCEPT ![w] = z]
      <3>1. me' = [me EXCEPT ![w] = IF Fails(w) THEN Returned(w) ELSE x]
        BY <1>8 DEF CalibrateRule
      <3> HIDE DEF x
      <3> QED BY <3>1
    <2>3. x.pc = me[w].pc /\ x.seen = me[w].seen /\ x.misled = me[w].misled
      BY <2>1, GoesOn
    <2> HIDE DEF x
    <2>4. Follows(me[w], z)
      BY <2>2, <2>3, Finished DEF Follows
    <2> QED BY <2>1, <2>2, <2>4, OneMoves, OthersOriented, StillOriented
  <1>9. ASSUME NEW w \in Calls \cup Syncs, Finish(w), me[w].fresh = <<>> PROVE EachOriented'
    <2>1. me' = [me EXCEPT ![w] = Returned(w)] /\ list' = list
      BY <1>9 DEF Finish
    <2> QED BY <2>1, Finished, Harmless, OneMoves, OthersOriented DEF RulesStay
  <1>10. ASSUME NEW m \in [Calls \cup Syncs -> Locals], me' = Mislead(m) PROVE EachOriented'
    <2>1. ASSUME NEW v \in Calls \cup Syncs
          PROVE  me'[v].pc \notin {"incr", "write"} \/ me'[v].misled
      <3>1. me'[v] = IF m[v].pc \in {"incr", "write"} THEN [m[v] EXCEPT !.misled = TRUE] ELSE m[v]
        BY <1>10 DEF Mislead
      <3>2. m[v] \in Locals
        BY <1>10
      <3> QED BY <3>1, <3>2 DEF Locals
    <2> QED BY <2>1, Harmless DEF EachOriented
  <1>11. ASSUME NEW w \in Calls \cup Syncs, Finish(w), me[w].fresh # <<>> PROVE EachOriented'
    <2>1. me' = Mislead([me EXCEPT ![w] = Returned(w)])
      BY <1>11 DEF Finish
    <2>2. [me EXCEPT ![w] = Returned(w)] \in [Calls \cup Syncs -> Locals]
      BY IdleFits DEF Fits, Typed, TypeOK
    <2> QED BY <1>10, <2>1, <2>2
  <1>12. CASE InitRules \/ Remove
    BY <1>0, <1>10, <1>12 DEF InitRules, Remove, Reset, TypeOK
  <1>13. CASE Tick \/ UNCHANGED vars
    BY <1>13 DEF Tick, vars, time, EachOriented
  <1> QED BY <1>1, <1>2, <1>3, <1>4, <1>5, <1>6, <1>7, <1>8, <1>9, <1>11, <1>12, <1>13 DEF Next

LEMMA OrientedHolds == Spec => []OrientedInv
  <1>1. Init => EachOriented
    BY DEF Init, EachOriented, Oriented, Idle
  <1> QED BY <1>1, TypedStarts, TypedStays, OrientedStays, PTL DEF Spec, OrientedInv

\* A row of another rule is written only if the list that was read left out an earlier row, or
\* rows were saved anew since.
THEOREM WritesGoAstrayOnlyMisled == Spec => WrongRowNeedsShift
  <1>1. ASSUME OrientedInv, NEW w \in Calls \cup Syncs, Incr(w) \/ CalibrateRule(w), WrongRow(w)
        PROVE  me[w].todo # me'[w].todo /\ me[w].misled
    <2>1. /\ me[w].todo # <<>> /\ me[w].pc \in {"incr", "write"}
          /\ ~Fails(w)
      BY <1>1 DEF Incr, CalibrateRule, WrongRow, Fails, NoRow
    <2> DEFINE x == [me[w] EXCEPT !.todo = Tail(@)]
    <2>2. me' = [me EXCEPT ![w] = x]
      BY <1>1, <2>1 DEF Incr, CalibrateRule
    <2>3. me[w].todo # x.todo /\ 1 \in DOMAIN me[w].todo
      BY <1>1, <2>1, GoesOn DEF OrientedInv
    <2> HIDE DEF x
    <2>4. me[w].todo # me'[w].todo
      BY <1>1, <2>2, <2>3, OneMoves DEF OrientedInv, Moves
    <2>5. me[w].todo[1].at \in DOMAIN me[w].seen
      BY <1>1, <2>3 DEF OrientedInv, Typed, EachFits, Fits, Prepared
    <2>6. me[w].misled
      <3> SUFFICES ASSUME ~me[w].misled PROVE FALSE
        OBVIOUS
      <3>1. Oriented(me[w], list)
        BY <1>1 DEF OrientedInv, EachOriented
      <3> QED BY <1>1, <2>1, <2>5, <3>1 DEF Oriented, WrongRow, Position
    <2> QED BY <2>4, <2>6
  <1>2. OrientedInv /\ [Next]_vars =>
           [mixed' /\ ~mixed => \E w \in Calls \cup Syncs :
               me[w].todo # me'[w].todo /\ me[w].misled]_vars
    <2> SUFFICES ASSUME OrientedInv, Next, mixed', ~mixed
                 PROVE  \E w \in Calls \cup Syncs : me[w].todo # me'[w].todo /\ me[w].misled
      BY DEF vars, time
    <2>1. \E w \in Calls \cup Syncs : (Incr(w) \/ CalibrateRule(w)) /\ WrongRow(w)
      BY DEF Next, Serve, RecordUsage, Incr, Check, CalibrateFromResponse, ReadToCalibrate, Fetch,
             CalibrateRule, Finish, InitRules, Remove, Reset, Tick
    <2> QED BY <1>1, <2>1
  <1> QED BY <1>2, OrientedHolds, PTL DEF Spec, WrongRowNeedsShift

-----------------------------------------------------------------------------
\* A rule that is still to be reported has a row that shows it.
Looming == \A r \in crossed : \E i \in DOMAIN list :
              list[i].rule = r /\ InWindow(list[i]) /\ AtLimit(list[i])

ReportInv == Typed /\ Looming /\ CrossingIsReported

LEMMA LimitStays ==
    ASSUME NEW u \in Rows, NEW v \in Rows, u.rule = v.rule, AtLimit(u),
           \A c \in Calls : u.remote[c] + u.local[c] <= v.remote[c] + v.local[c]
    PROVE  AtLimit(v)
  <1>1. EstimatedUsed(u) <= EstimatedUsed(v)
    BY CountsRaise
  <1>2. EstimatedUsed(u) \in Nat /\ EstimatedUsed(v) \in Nat
    BY TicketsAreFinite
  <1>3. Limit[u.rule] \in Nat
    BY RuleData DEF Rows
  <1> QED BY <1>1, <1>2, <1>3 DEF AtLimit

\* Steps that leave the rows alone, and steps that leave a request that is still to look.
LEMMA LoomingStays ==
    ASSUME Looming, list' = list, UNCHANGED time, crossed' \subseteq crossed
    PROVE  Looming'
  BY DEF Looming, time, InWindow, AtLimit, EstimatedUsed

LEMMA ReportStays ==
    ASSUME CrossingIsReported, crossed' \subseteq crossed, Counting \subseteq Counting'
    PROVE  CrossingIsReported'
  BY DEF CrossingIsReported

LEMMA CountingStays ==
    ASSUME \A c \in Calls : me[c].pc \in {"served", "incr"} => me'[c].pc \in {"served", "incr"}
    PROVE  Counting \subseteq Counting'
  BY DEF Counting

LEMMA ReportStarts == Init => Looming /\ CrossingIsReported
  BY DEF Init, Looming, CrossingIsReported

LEMMA RecordUsageReports ==
    ASSUME ReportInv, NEW c \in Calls, RecordUsage(c)
    PROVE  Looming' /\ CrossingIsReported'
  <1> DEFINE us == GetCurrentUsages
             x == [Read(c, "incr") EXCEPT !.todo = ToCount(c, us)]
  <1>1. /\ me[c].pc = "served" /\ list' = list /\ crossed' = crossed /\ UNCHANGED time
        /\ Typed
    BY DEF RecordUsage, ReportInv
  <1>2. Looming'
    BY <1>1, LoomingStays DEF ReportInv
  <1>3. CASE us = <<>>
    <2>1. crossed = {}
      <3> SUFFICES ASSUME NEW r \in crossed PROVE FALSE
        OBVIOUS
      <3>1. PICK i \in DOMAIN list : InWindow(list[i])
        BY DEF ReportInv, Looming
      <3>2. \E n \in DOMAIN us : us[n] = list[i]
        BY <1>1, <3>1, UsagesShown DEF Typed
      <3> QED BY <1>3, <3>2
    <2> QED BY <1>1, <1>2, <2>1 DEF CrossingIsReported
  <1>4. CASE us # <<>>
    <2>1. me' = [me EXCEPT ![c] = x]
      BY <1>4 DEF RecordUsage, ToCount
    <2>2. x.pc = "incr"
      BY <1>1, CountingFits
    <2> HIDE DEF x
    <2>3. Counting \subseteq Counting'
      BY <1>1, <2>1, <2>2, OneMoves, CountingStays DEF Moves
    <2> QED BY <1>1, <1>2, <2>3, ReportStays DEF ReportInv
  <1> QED BY <1>2, <1>3, <1>4

LEMMA IncrReports ==
    ASSUME ReportInv, NEW c \in Calls, Incr(c)
    PROVE  Looming' /\ CrossingIsReported'
  <1> DEFINE x == [me[c] EXCEPT !.todo = Tail(@)]
  <1>1. Typed /\ UNCHANGED time /\ me[c].pc = "incr" /\ me[c].todo # <<>>
    BY DEF ReportInv, Incr
  <1>2. /\ list \in Seq(Rows) /\ list' \in Seq(Rows) /\ DOMAIN list' = DOMAIN list
        /\ \A i \in DOMAIN list : /\ list'[i].rule = list[i].rule /\ list'[i].end = list[i].end
                                  /\ list'[i].remote = list[i].remote
        /\ \A i \in DOMAIN list : \A d \in Calls : list'[i].local[d] \in
              {list[i].local[d], list[i].local[d] + 1}
    BY <1>1, IncrShape DEF Typed, TypeOK
  <1>3. ASSUME NEW i \in DOMAIN list, AtLimit(list[i]) PROVE AtLimit(list'[i])
    <2> DEFINE u == list[i]
               v == list'[i]
    <2>1. u \in Rows /\ v \in Rows /\ u.rule = v.rule
      BY <1>2
    <2>2. \A d \in Calls : u.remote[d] + u.local[d] <= v.remote[d] + v.local[d]
      <3>1. \A d \in Calls : u.remote[d] \in Nat /\ u.local[d] \in Nat
        BY <2>1 DEF Rows
      <3> QED BY SMTT(30), <1>2, <3>1
    <2> HIDE DEF u, v
    <2>3. AtLimit(u) => AtLimit(v)
      BY <2>1, <2>2, LimitStays
    <2> QED BY <1>3, <2>3 DEF u, v
  <1>4. \A i \in DOMAIN list : InWindow(list[i]) <=> now' <= list'[i].end + skew'
    BY <1>1, <1>2 DEF InWindow, time
  <1>5. \A r \in crossed' : r \in crossed \/ (r \in TakenOver(list') /\ Source[r] = SourceOf[c]
                                              /\ ~Fails(c))
    <2>1. crossed' = IF Fails(c) THEN {r \in crossed : \E d \in Counting \ {c} : Source[r] = SourceOf[d]}
                     ELSE crossed \cup {r \in TakenOver(list') : Source[r] = SourceOf[c]}
      BY DEF Incr
    <2> QED BY <2>1
  <1>6. \A r \in crossed' : \E i \in DOMAIN list :
           list[i].rule = r /\ InWindow(list[i]) /\ AtLimit(list'[i])
    <2> SUFFICES ASSUME NEW r \in crossed'
                 PROVE  \E i \in DOMAIN list : list[i].rule = r /\ InWindow(list[i]) /\ AtLimit(list'[i])
      OBVIOUS
    <2>1. CASE r \in crossed
      BY <1>3, <2>1 DEF ReportInv, Looming
    <2>2. CASE r \in TakenOver(list')
      BY <2>2 DEF TakenOver
    <2> QED BY <1>5, <2>1, <2>2
  <1>7. Looming'
    <2>1. \A r \in crossed' : \E i \in DOMAIN list' :
             list'[i].rule = r /\ now' <= list'[i].end + skew' /\ AtLimit(list'[i])
      BY <1>2, <1>4, <1>6
    <2> QED BY <2>1 DEF Looming, InWindow, AtLimit, EstimatedUsed
  <1>8. CASE Fails(c)
    <2>1. \A d \in Calls \ {c} : me'[d] = me[d]
      BY <1>1, <1>8, OneMoves DEF Incr, Moves, Typed, TypeOK
    <2>2. Counting \ {c} \subseteq Counting'
      BY <2>1 DEF Counting
    <2>3. crossed' = {r \in crossed : \E d \in Counting \ {c} : Source[r] = SourceOf[d]}
      BY <1>8 DEF Incr
    <2> QED BY <1>7, <2>2, <2>3 DEF CrossingIsReported
  <1>9. CASE ~Fails(c)
    <2>1. me' = [me EXCEPT ![c] = x]
      BY <1>9 DEF Incr
    <2>2. x.pc = "incr"
      BY <1>1, GoesOn
    <2> HIDE DEF x
    <2>3. me'[c].pc = "incr" /\ \A d \in Calls \ {c} : me'[d] = me[d]
      BY <1>1, <2>1, <2>2, OneMoves DEF Moves
    <2>4. Counting \subseteq Counting' /\ c \in Counting'
      BY <2>3 DEF Counting
    <2>5. \A r \in crossed : \E d \in Counting : Source[r] = SourceOf[d]
      BY DEF ReportInv, CrossingIsReported
    <2> QED BY <1>5, <1>7, <2>4, <2>5 DEF CrossingIsReported
  <1> QED BY <1>8, <1>9

LEMMA CheckReports ==
    ASSUME ReportInv, NEW c \in Calls, Check(c)
    PROVE  Looming' /\ CrossingIsReported'
  <1> DEFINE us == GetCurrentUsages
             over == {u \in Range(us) : Source[u.rule] = SourceOf[c] /\ AtLimit(u)}
  <1>1. Typed /\ UNCHANGED time /\ list' = list /\ crossed' \subseteq crossed
    BY DEF Check, ReportInv
  <1>2. crossed' = IF over = {} THEN crossed ELSE {r \in crossed : Source[r] # SourceOf[c]}
    BY DEF Check, ToCheck
  <1>3. Looming'
    BY <1>1, LoomingStays DEF ReportInv
  <1>4. \A r \in crossed' : Source[r] # SourceOf[c]
    <2>1. ASSUME over = {}, NEW r \in crossed, Source[r] = SourceOf[c] PROVE FALSE
      <3>1. PICK i \in DOMAIN list : list[i].rule = r /\ InWindow(list[i]) /\ AtLimit(list[i])
        BY DEF ReportInv, Looming
      <3>2. PICK n \in DOMAIN us : us[n] = list[i]
        BY <1>1, <3>1, UsagesShown DEF Typed
      <3> QED BY <2>1, <3>1, <3>2 DEF Range
    <2> QED BY <1>2, <2>1
  <1>5. \A d \in Calls \ {c} : me'[d] = me[d]
    BY <1>1, OneMoves DEF Check, Moves
  <1>6. Counting \ {c} \subseteq Counting'
    BY <1>5 DEF Counting
  <1>7. CrossingIsReported'
    BY <1>1, <1>4, <1>6 DEF ReportInv, CrossingIsReported
  <1> QED BY <1>3, <1>7

\* Rules that no row shows any more are struck off.
LEMMA StruckOff ==
    ASSUME UNCHANGED time, crossed' = StillCrossed(list')
    PROVE  Looming' /\ crossed' \subseteq crossed
  BY DEF Looming, StillCrossed, time, InWindow, AtLimit, EstimatedUsed

LEMMA WritesReport ==
    ASSUME ReportInv, NEW w \in Calls \cup Syncs, CalibrateRule(w) \/ Finish(w)
    PROVE  Looming' /\ CrossingIsReported'
  <1>1. Typed /\ UNCHANGED time /\ me[w].pc = "write"
    BY DEF ReportInv, CalibrateRule, Finish
  <1>2. CASE CalibrateRule(w)
    <2>1. \A v \in (Calls \cup Syncs) \ {w} : me'[v] = me[v]
      BY <1>1, <1>2, OneMoves DEF CalibrateRule, Moves
    <2>2. Counting \subseteq Counting'
      BY <1>1, <2>1 DEF Counting
    <2>3. Looming' /\ crossed' \subseteq crossed
      BY <1>1, <1>2, StruckOff DEF CalibrateRule
    <2> QED BY <2>2, <2>3, ReportStays DEF ReportInv
  <1>3. CASE Finish(w)
    <2> DEFINE m == [me EXCEPT ![w] = Returned(w)]
    <2>1. /\ me \in [Calls \cup Syncs -> Locals] /\ m \in [Calls \cup Syncs -> Locals]
          /\ \A v \in (Calls \cup Syncs) \ {w} : m[v] = me[v]
      BY <1>1, IdleFits DEF Fits, Typed, TypeOK
    <2> HIDE DEF m
    <2>2. CASE me[w].fresh = <<>>
      <3>1. me' = m /\ list' = list /\ crossed' = crossed
        BY <1>3, <2>2 DEF Finish, m
      <3>2. Counting \subseteq Counting'
        BY <1>1, <2>1, <3>1 DEF Counting
      <3>3. Looming'
        BY <1>1, <3>1, LoomingStays DEF ReportInv
      <3> QED BY <3>1, <3>2, <3>3, ReportStays DEF ReportInv
    <2>3. CASE me[w].fresh # <<>>
      <3>1. me' = Mislead(m) /\ list' = me[w].fresh /\ crossed' = StillCrossed(list')
        BY <1>3, <2>3 DEF Finish, m
      <3>2. \A v \in (Calls \cup Syncs) \ {w} : me'[v].pc = me[v].pc
        BY <2>1, <3>1 DEF Mislead, Locals
      <3>3. Counting \subseteq Counting'
        BY <1>1, <3>2 DEF Counting
      <3>4. Looming' /\ crossed' \subseteq crossed
        BY <1>1, <3>1, StruckOff
      <3> QED BY <3>3, <3>4, ReportStays DEF ReportInv
    <2> QED BY <2>2, <2>3
  <1> QED BY <1>2, <1>3

LEMMA ReportsStay ==
    ASSUME ReportInv, [Next]_vars
    PROVE  Looming' /\ CrossingIsReported'
  <1>1. ASSUME NEW w \in Calls \cup Syncs, NEW x, me' = [me EXCEPT ![w] = x],
               me[w].pc \notin {"served", "incr"} \/ x.pc \in {"served", "incr"},
               list' = list, crossed' = crossed, UNCHANGED time
        PROVE  Looming' /\ CrossingIsReported'
    <2>1. me'[w] = x /\ \A v \in (Calls \cup Syncs) \ {w} : me'[v] = me[v]
      BY <1>1, OneMoves DEF ReportInv, Moves
    <2>2. Counting \subseteq Counting'
      BY <1>1, <2>1, CountingStays
    <2> QED BY <1>1, <2>2, LoomingStays, ReportStays DEF ReportInv
  <1>2. ASSUME NEW c \in Calls, Serve(c) PROVE Looming' /\ CrossingIsReported'
    BY <1>1, <1>2 DEF Serve
  <1>3. ASSUME NEW c \in Calls, CalibrateFromResponse(c) PROVE Looming' /\ CrossingIsReported'
    BY <1>1, <1>3 DEF CalibrateFromResponse
  <1>4. ASSUME NEW k \in Syncs, ReadToCalibrate(k) PROVE Looming' /\ CrossingIsReported'
    BY <1>1, <1>4 DEF ReadToCalibrate
  <1>5. ASSUME NEW k \in Syncs, NEW I \in SUBSET DOMAIN Rules, Fetch(k, I)
        PROVE  Looming' /\ CrossingIsReported'
    BY <1>1, <1>5 DEF Fetch
  <1>6. CASE InitRules \/ Remove
    BY <1>6 DEF InitRules, Remove, Reset, Looming, CrossingIsReported
  <1>7. CASE Tick
    <2>1. Looming'
      BY <1>7 DEF Tick, ReportInv, Looming, InWindow, AtLimit, EstimatedUsed
    <2>2. Counting' = Counting /\ crossed' \subseteq crossed
      BY <1>7 DEF Tick, Counting
    <2> QED BY <2>1, <2>2, ReportStays DEF ReportInv
  <1>8. CASE UNCHANGED vars
    <2>1. Counting' = Counting
      BY <1>8 DEF vars, Counting
    <2> QED BY <1>8, <2>1, LoomingStays, ReportStays DEF vars, ReportInv
  <1> QED BY <1>2, <1>3, <1>4, <1>5, <1>6, <1>7, <1>8, RecordUsageReports, IncrReports, CheckReports,
             WritesReport DEF Next

\* A rule that requests have taken to the safety ratio is reported: until then a request is
\* still to look, unless the last that was to found a row gone and returned its error.
THEOREM CrossingsAreReported == Spec => []CrossingIsReported
  <1>1. ReportInv => CrossingIsReported
    BY DEF ReportInv
  <1>2. Init => ReportInv
    BY TypedStarts, ReportStarts DEF ReportInv
  <1>3. ReportInv /\ [Next]_vars => ReportInv'
    BY TypedStays, ReportsStay DEF ReportInv
  <1> QED BY <1>1, <1>2, <1>3, PTL DEF Spec

-----------------------------------------------------------------------------
\* The row u is of a window that has begun; it is of the current window.
Begun(u, t) == \E s \in 0..t : u.end = WindowEnd(u.rule, s)
Current(u, t) == u.end = WindowEnd(u.rule, t)

\* The row of a current window counts c as the platform p does, and n times.
Exact(u, c, t, p) == Current(u, t) => u.remote[c] + u.local[c] = Once(p[u.rule])[c]
Times(u, c, t, n) == Current(u, t) => u.remote[c] + u.local[c] = n

\* The row is of a window that has begun, and exact for the requests of S.
Sound(u, t, p, S) == Begun(u, t) /\ \A c \in S : Exact(u, c, t, p)
AllSound(s, t, p, S) == \A i \in DOMAIN s : Sound(s[i], t, p, S)

\* The row as it will be when the write n of x is done, if it meets the rule it is meant for.
ToWrite(x, n) == Row(x.seen[x.todo[n].at].rule, x.todo[n].remote, x.todo[n].spent, x.todo[n].end)
HandSound(x, t, p, S) ==
    /\ AllSound(x.stats, t, p, S) /\ AllSound(x.fresh, t, p, S)
    /\ x.pc = "write" => \A n \in DOMAIN x.todo : Sound(ToWrite(x, n), t, p, S)

\* The requests that are not under way, and not excused: the rows that are stored and those
\* that are about to be count them as the platform does.
Settled == (Calls \ excused) \ Counting
SettledRight == /\ AllSound(list, now, platform, Settled)
                /\ \A w \in Calls \cup Syncs : HandSound(me[w], now, platform, Settled)

\* A request under way has reached the platform, and is counted in the rows it has come to.
Waiting(x) == {x.todo[n].at : n \in DOMAIN x.todo}
Underway(c, x, rows, t, p) ==
    /\ \A r \in RuleSet : c \in p[r] <=> Source[r] = SourceOf[c]
    /\ x.pc = "served" => \A i \in DOMAIN rows : Times(rows[i], c, t, 0)
    /\ x.pc = "incr" =>
          /\ ~x.misled /\ Len(x.seen) = Len(rows)
          /\ \A i \in DOMAIN rows :
                Times(rows[i], c, t, IF Source[rows[i].rule] = SourceOf[c] /\ i \notin Waiting(x)
                                     THEN 1 ELSE 0)
UnderwayRight == \A c \in Counting \ excused :
                    Calibrating = {} /\ Underway(c, me[c], list, now, platform)

\* Nobody counts a request that was not made.
UnservedRight == \A c \in Calls : me[c].pc = "idle" => \A r \in RuleSet : c \notin platform[r]

ExactInv == OrientedInv /\ UnservedRight /\ (~mixed => SettledRight /\ UnderwayRight)

-----------------------------------------------------------------------------
\* Nothing is asked of more requests than before, and the platform counts these as it did.
Milder == /\ now' = now /\ Settled' \subseteq Settled
          /\ \A c \in Settled' : \A r \in RuleSet : c \in platform'[r] <=> c \in platform[r]

LEMMA Carried ==
    ASSUME Milder, NEW u \in Rows, Sound(u, now, platform, Settled)
    PROVE  Sound(u, now', platform', Settled')
  <1>1. Begun(u, now')
    BY DEF Milder, Sound
  <1>2. ASSUME NEW c \in Settled' PROVE Exact(u, c, now', platform')
    <2>1. Exact(u, c, now, platform) /\ c \in Calls /\ u.rule \in RuleSet
      BY DEF Milder, Sound, Settled, Rows
    <2>2. c \in platform'[u.rule] <=> c \in platform[u.rule]
      BY <2>1 DEF Milder
    <2> QED BY <2>1, <2>2 DEF Milder, Exact, Current, Once
  <1> QED BY <1>1, <1>2 DEF Sound

LEMMA AllCarried ==
    ASSUME Milder, NEW s \in Seq(Rows), AllSound(s, now, platform, Settled)
    PROVE  AllSound(s, now', platform', Settled')
  <1> SUFFICES ASSUME NEW i \in DOMAIN s PROVE Sound(s[i], now', platform', Settled')
    BY DEF AllSound
  <1>1. s[i] \in Rows
    OBVIOUS
  <1> QED BY <1>1, Carried DEF AllSound

\* What is written is a row.
LEMMA WritesRows ==
    ASSUME NEW w, NEW x, Fits(w, x), NEW n \in DOMAIN x.todo
    PROVE  ToWrite(x, n) \in Rows
  <1>1. x.todo \in Seq(Writes) /\ x.seen \in Seq(Rows) /\ x.todo[n].at \in DOMAIN x.seen
    BY DEF Fits, Prepared, Locals
  <1>2. x.todo[n] \in Writes /\ x.seen[x.todo[n].at] \in Rows
    BY <1>1
  <1>3. /\ x.todo[n].remote \in [Calls -> Nat] /\ x.todo[n].spent \in BOOLEAN
        /\ x.todo[n].end \in Nat /\ x.seen[x.todo[n].at].rule \in RuleSet
    BY <1>2 DEF Writes, Rows
  <1> QED BY <1>3, CountTypes DEF ToWrite

LEMMA HandCarried ==
    ASSUME Milder, NEW w, NEW x, Fits(w, x), HandSound(x, now, platform, Settled)
    PROVE  HandSound(x, now', platform', Settled')
  <1>1. x.stats \in Seq(Rows) /\ x.fresh \in Seq(Rows)
    BY DEF Fits, Locals
  <1>2. AllSound(x.stats, now', platform', Settled') /\ AllSound(x.fresh, now', platform', Settled')
    BY <1>1, AllCarried DEF HandSound
  <1>3. ASSUME x.pc = "write", NEW n \in DOMAIN x.todo
        PROVE  Sound(ToWrite(x, n), now', platform', Settled')
    <2>1. ToWrite(x, n) \in Rows /\ Sound(ToWrite(x, n), now, platform, Settled)
      BY <1>3, WritesRows DEF HandSound
    <2> QED BY <2>1, Carried
  <1> QED BY <1>2, <1>3 DEF HandSound

\* One moves, everybody else has in hand what it had.
LEMMA SettledStays ==
    ASSUME Typed, Milder, SettledRight, NEW w \in Calls \cup Syncs, NEW x, Moves(w, x),
           Fits(w, x), HandSound(x, now, platform, Settled),
           list' \in Seq(Rows), AllSound(list', now, platform, Settled)
    PROVE  SettledRight'
  <1>1. AllSound(list', now', platform', Settled')
    BY AllCarried
  <1>2. ASSUME NEW v \in Calls \cup Syncs PROVE HandSound(me'[v], now', platform', Settled')
    <2>1. CASE v = w
      BY <2>1, HandCarried DEF Moves
    <2>2. CASE v # w
      <3>1. me'[v] = me[v]
        BY <2>2 DEF Moves
      <3>2. HandSound(me[v], now, platform, Settled) /\ Fits(v, me[v])
        BY DEF SettledRight, Typed, EachFits
      <3> QED BY <3>1, <3>2, HandCarried
    <2> QED BY <2>1, <2>2
  <1> QED BY <1>1, <1>2 DEF SettledRight

\* Who neither calibrates nor is about to has nothing in hand.
LEMMA EmptyHanded ==
    ASSUME NEW w, NEW x, Fits(w, x), x.pc \notin {"fetched", "write"}, NEW t, NEW p, NEW S
    PROVE  HandSound(x, t, p, S)
  <1>1. x.stats = <<>> /\ x.fresh = <<>>
    BY DEF Fits, Prepared
  <1> QED BY <1>1 DEF HandSound, AllSound

LEMMA UnservedStays ==
    ASSUME UnservedRight,
           \A r \in RuleSet : platform'[r] \subseteq platform[r],
           \A c \in Calls : me'[c].pc = "idle" => me[c].pc = "idle"
    PROVE  UnservedRight'
  BY DEF UnservedRight

LEMMA NobodyUnderway ==
    ASSUME Counting' \subseteq excused'
    PROVE  UnderwayRight'
  BY DEF UnderwayRight

\* Who calibrates has excused those that were under way.
LEMMA CalibratingExcuses ==
    ASSUME UnderwayRight, Calibrating # {}
    PROVE  Counting \subseteq excused
  BY DEF UnderwayRight

\* A request under way is counted as it was.
KeepsCount(c) ==
    /\ now' = now /\ DOMAIN list' = DOMAIN list /\ Len(list') = Len(list)
    /\ \A i \in DOMAIN list :
          /\ list'[i].rule = list[i].rule /\ list'[i].end = list[i].end
          /\ list'[i].remote[c] + list'[i].local[c] = list[i].remote[c] + list[i].local[c]
    /\ \A r \in RuleSet : c \in platform'[r] <=> c \in platform[r]

LEMMA UnderwayKept ==
    ASSUME NEW c, NEW x, KeepsCount(c), Underway(c, x, list, now, platform)
    PROVE  Underway(c, x, list', now', platform')
  <1>1. ASSUME NEW i \in DOMAIN list, NEW n, Times(list[i], c, now, n) PROVE Times(list'[i], c, now', n)
    BY <1>1 DEF KeepsCount, Times, Current
  <1>2. \A r \in RuleSet : c \in platform'[r] <=> Source[r] = SourceOf[c]
    BY DEF KeepsCount, Underway
  <1>3. x.pc = "served" => \A i \in DOMAIN list' : Times(list'[i], c, now', 0)
    BY <1>1 DEF KeepsCount, Underway
  <1>4. ASSUME x.pc = "incr"
        PROVE  /\ ~x.misled /\ Len(x.seen) = Len(list')
               /\ \A i \in DOMAIN list' :
                     Times(list'[i], c, now', IF Source[list'[i].rule] = SourceOf[c] /\ i \notin Waiting(x)
                                              THEN 1 ELSE 0)
    BY <1>1, <1>4 DEF KeepsCount, Underway
  <1> QED BY <1>2, <1>3, <1>4 DEF Underway

\* One moves, and the others that are under way are counted as they were.
LEMMA OthersUnderway ==
    ASSUME Typed, UnderwayRight, NEW w \in Calls \cup Syncs, NEW x, Moves(w, x),
           x.pc \notin {"fetched", "write"}, excused \subseteq excused',
           \A c \in (Counting \ excused) \ {w} : KeepsCount(c),
           w \in Counting' \ excused' => Calibrating = {} /\ Underway(w, x, list', now', platform')
    PROVE  UnderwayRight'
  <1> SUFFICES ASSUME NEW c \in Counting' \ excused'
               PROVE  Calibrating' = {} /\ Underway(c, me'[c], list', now', platform')
    BY DEF UnderwayRight
  <1>1. Calibrating' \subseteq Calibrating
    BY DEF Calibrating, Moves
  <1>2. CASE c = w
    BY <1>1, <1>2 DEF Moves
  <1>3. CASE c # w
    <2>1. c \in Calls /\ me'[c] = me[c]
      BY <1>3 DEF Counting, Moves
    <2>2. c \in Counting \ excused
      BY <2>1 DEF Counting
    <2>3. Calibrating = {} /\ Underway(c, me[c], list, now, platform) /\ KeepsCount(c)
      BY <1>3, <2>2 DEF UnderwayRight
    <2> QED BY <1>1, <2>1, <2>3, UnderwayKept
  <1> QED BY <1>2, <1>3

LEMMA SameCounts ==
    ASSUME NEW c, now' = now, list' = list,
           \A r \in RuleSet : c \in platform'[r] <=> c \in platform[r]
    PROVE  KeepsCount(c)
  BY DEF KeepsCount

-----------------------------------------------------------------------------
LEMMA ServeExact ==
    ASSUME ExactInv, NEW c \in Calls, Serve(c)
    PROVE  UnservedRight' /\ (~mixed' => SettledRight' /\ UnderwayRight')
  <1> DEFINE y == me[c]
             x == [y EXCEPT !.pc = "served"]
  <1>1. /\ Typed /\ y \in Locals /\ Fits(c, y) /\ y.pc = "idle" /\ platform \in [RuleSet -> SUBSET Calls]
        /\ list \in Seq(Rows)
    BY DEF ExactInv, OrientedInv, Typed, TypeOK, EachFits, Fits, Serve
  <1>2. me' = [me EXCEPT ![c] = x] /\ list' = list /\ now' = now /\ mixed' = mixed
    BY DEF Serve, time
  <1> HIDE DEF y
  <1>3. /\ x.pc = "served" /\ x \in Locals /\ x.stats = y.stats /\ x.fresh = y.fresh /\ x.todo = y.todo
    BY <1>1 DEF Locals
  <1> HIDE DEF x
  <1>4. Moves(c, x)
    BY <1>1, <1>2, OneMoves
  <1>5. Fits(c, x)
    BY <1>1, <1>3 DEF Fits, Prepared
  <1>6. /\ \A d \in Calls \ {c} : \A r \in RuleSet : d \in platform'[r] <=> d \in platform[r]
        /\ \A r \in RuleSet : c \in platform'[r] <=> c \in platform[r] \/ Source[r] = SourceOf[c]
    BY <1>1 DEF Serve
  <1>7. UnservedRight'
    BY <1>3, <1>4, <1>6 DEF UnservedRight, Moves, ExactInv
  <1>8. c \notin Counting /\ Counting' = Counting \cup {c}
    BY <1>1, <1>3, <1>4 DEF Counting, Moves, y
  <1>9. excused \subseteq excused' /\ (Calibrating # {} => c \in excused')
    BY DEF Serve
  <1>10. Milder
    BY <1>2, <1>6, <1>8, <1>9 DEF Milder, Settled
  <1>11. ASSUME ~mixed PROVE SettledRight'
    <2>1. SettledRight /\ HandSound(x, now, platform, Settled) /\ AllSound(list', now, platform, Settled)
      BY <1>2, <1>3, <1>5, <1>11, EmptyHanded DEF ExactInv, SettledRight
    <2> QED BY <1>1, <1>2, <1>4, <1>5, <1>10, <2>1, SettledStays
  <1>12. ASSUME ~mixed, c \notin excused' PROVE Underway(c, x, list', now', platform')
    <2>1. c \in Settled
      BY <1>8, <1>9, <1>12 DEF Settled
    <2>2. \A r \in RuleSet : c \notin platform[r]
      BY <1>1 DEF ExactInv, UnservedRight, y
    <2>3. ASSUME NEW i \in DOMAIN list PROVE Times(list[i], c, now, 0)
      <3>1. Exact(list[i], c, now, platform)
        BY <1>12, <2>1 DEF ExactInv, SettledRight, AllSound, Sound
      <3>2. list[i] \in Rows
        BY <1>1
      <3>3. list[i].rule \in RuleSet
        BY <3>2 DEF Rows
      <3> QED BY <2>2, <3>1, <3>3 DEF Exact, Times, Once
    <2> QED BY <1>2, <1>3, <1>6, <2>2, <2>3 DEF Underway
  <1>13. ASSUME ~mixed PROVE UnderwayRight'
    <2>0. UnderwayRight
      BY <1>13 DEF ExactInv
    <2>1. CASE Calibrating = {}
      <3>1. \A d \in (Counting \ excused) \ {c} : KeepsCount(d)
        BY <1>2, <1>6, SameCounts DEF Counting
      <3> QED BY <1>1, <1>3, <1>4, <1>9, <1>12, <1>13, <2>0, <2>1, <3>1, OthersUnderway
    <2>2. CASE Calibrating # {}
      <3>1. Counting \subseteq excused
        BY <2>0, <2>2, CalibratingExcuses
      <3> QED BY <1>8, <1>9, <2>2, <3>1, NobodyUnderway
    <2> QED BY <2>1, <2>2
  <1> QED BY <1>2, <1>7, <1>11, <1>13

\* A list of which nothing is left out.
LEMMA AllShown ==
    ASSUME TypeOK, GetCurrentUsages = list
    PROVE  ~Shifted
  BY UsagesShown DEF Shifted

LEMMA RecordUsageExact ==
    ASSUME ExactInv, NEW c \in Calls, RecordUsage(c)
    PROVE  UnservedRight' /\ (~mixed' => SettledRight' /\ UnderwayRight')
  <1> DEFINE us == GetCurrentUsages
             t == ToCount(c, us)
             x == [Read(c, "incr") EXCEPT !.todo = t]
  <1>1. /\ Typed /\ TypeOK /\ Fits(c, me[c]) /\ me[c].pc = "served" /\ list \in Seq(Rows)
        /\ list' = list /\ now' = now /\ platform' = platform /\ mixed' = mixed
    BY DEF ExactInv, OrientedInv, Typed, TypeOK, EachFits, RecordUsage, time
  <1>2. /\ Fits(c, x) /\ x.pc = "incr" /\ x.seen = us /\ x.misled = Shifted /\ x.todo = t
    BY <1>1, CountingFits
  <1>3. PICK z : /\ me' = [me EXCEPT ![c] = z]
                 /\ z \in IF us = <<>> THEN Counted ELSE {x}
    BY DEF RecordUsage, ToCount
  <1> HIDE DEF us, t, x
  <1>4. Fits(c, z) /\ z.pc \in {"incr", "done", "limited"}
    BY <1>2, <1>3, IdleFits DEF Counted, Done, Idle
  <1>5. Moves(c, z)
    BY <1>1, <1>3, OneMoves
  <1>6. UnservedRight'
    BY <1>1, <1>4, <1>5, UnservedStays DEF Moves, ExactInv
  <1>7. excused' = IF us # list THEN excused \cup {c} ELSE excused
    BY DEF RecordUsage, us
  <1>8. c \in Counting /\ Counting' \subseteq Counting /\ (z.pc = "incr" => Counting' = Counting)
        /\ Counting \ {c} \subseteq Counting'
    BY <1>1, <1>4, <1>5 DEF Counting, Moves
  <1>9. ASSUME ~mixed, c \notin excused' PROVE Calibrating = {} /\ Underway(c, me[c], list, now, platform)
    BY <1>7, <1>8, <1>9 DEF ExactInv, UnderwayRight
  <1>10. ASSUME ~mixed PROVE SettledRight'
    <2>1. SettledRight /\ HandSound(z, now, platform, Settled)
      BY <1>4, <1>10, EmptyHanded DEF ExactInv
    <2>2. CASE c \in excused' \/ z.pc = "incr"
      <3>1. Milder
        BY <1>1, <1>7, <1>8, <2>2 DEF Milder, Settled
      <3> QED BY <1>1, <1>4, <1>5, <2>1, <3>1, SettledStays DEF SettledRight
    <2>3. CASE c \notin excused' /\ z.pc # "incr"
      <3>1. us = list /\ us = <<>>
        BY <1>2, <1>3, <1>7, <2>3
      <3>2. Calibrating = {}
        BY <1>9, <1>10, <2>3
      <3>3. \A v \in Calls \cup Syncs : Fits(v, me'[v]) /\ me'[v].pc \notin {"fetched", "write"}
        BY <1>1, <1>4, <1>5, <3>2 DEF Calibrating, Moves, Typed, EachFits
      <3>4. AllSound(list', now', platform', Settled')
        BY <1>1, <3>1 DEF AllSound
      <3> QED BY <3>3, <3>4, EmptyHanded DEF SettledRight
    <2> QED BY <1>4, <2>2, <2>3
  <1>11. ASSUME ~mixed, c \in Counting' \ excused'
         PROVE  Calibrating = {} /\ Underway(c, z, list', now', platform')
    <2>1. us = list /\ z = x
      <3>1. z.pc \in {"served", "incr"}
        BY <1>5, <1>11 DEF Counting, Moves
      <3>2. z \notin Counted
        BY <3>1 DEF Counted, Done, Idle
      <3> QED BY <1>3, <1>7, <1>11, <3>2
    <2>2. ~Shifted
      BY <1>1, <2>1, AllShown DEF us
    <2>3. \A i \in DOMAIN list : Source[list[i].rule] = SourceOf[c] => i \in Waiting(x)
      <3>1. us \in Seq(Rows)
        BY <1>1, <2>1
      <3>2. \A i \in DOMAIN us : Source[us[i].rule] = SourceOf[c] => \E n \in DOMAIN t : t[n].at = i
        BY <3>1, ReadToWrite DEF t
      <3> QED BY <1>2, <2>1, <3>2 DEF Waiting
    <2>4. Calibrating = {} /\ Underway(c, me[c], list, now, platform)
      BY <1>9, <1>11
    <2> QED BY <1>1, <1>2, <2>1, <2>2, <2>3, <2>4 DEF Underway
  <1>12. ASSUME ~mixed PROVE UnderwayRight'
    <2>1. \A d \in (Counting \ excused) \ {c} : KeepsCount(d)
      BY <1>1, SameCounts
    <2> QED BY <1>1, <1>4, <1>5, <1>7, <1>11, <1>12, <2>1, OthersUnderway DEF ExactInv
  <1> QED BY <1>1, <1>6, <1>10, <1>12

LEMMA IncrExact ==
    ASSUME ExactInv, NEW c \in Calls, Incr(c)
    PROVE  UnservedRight' /\ (~mixed' => SettledRight' /\ UnderwayRight')
  <1> DEFINE y == me[c]
             x == [y EXCEPT !.todo = Tail(@)]
             p == Position(c)
  <1>1. /\ Typed /\ TypeOK /\ Fits(c, y) /\ y.pc = "incr" /\ y.todo # <<>> /\ list \in Seq(Rows)
        /\ now' = now /\ platform' = platform /\ (mixed => mixed') /\ Oriented(y, list)
    BY DEF ExactInv, OrientedInv, EachOriented, Typed, TypeOK, EachFits, Incr, time
  <1>2. /\ Fits(c, x) /\ x.pc = "incr" /\ x.seen = y.seen /\ x.misled = y.misled
        /\ 1 \in DOMAIN y.todo
        /\ \A n \in DOMAIN x.todo : n + 1 \in DOMAIN y.todo /\ x.todo[n] = y.todo[n + 1]
        /\ \A n \in DOMAIN y.todo : n = 1 \/ n - 1 \in DOMAIN x.todo
    BY <1>1, GoesOn
  <1>3. /\ list' \in Seq(Rows) /\ DOMAIN list' = DOMAIN list /\ Len(list') = Len(list)
        /\ \A i \in DOMAIN list : /\ list'[i].rule = list[i].rule /\ list'[i].end = list[i].end
                                  /\ list'[i].remote = list[i].remote
        /\ \A i \in DOMAIN list : \A d \in Calls :
              list'[i].local[d] = IF i = p /\ d = c THEN list[i].local[d] + 1
                                  ELSE list[i].local[d]
    BY <1>1, IncrShape
  <1>4. PICK z : /\ me' = [me EXCEPT ![c] = z]
                 /\ z \in IF Fails(c) THEN Counted ELSE {x}
    BY DEF Incr
  <1>5. excused' = IF Fails(c) \/ y.misled THEN excused \cup {c} ELSE excused
    BY DEF Incr
  <1>6. p = y.todo[1].at
    BY DEF Position
  <1> HIDE DEF y, x, p
  <1>7. Fits(c, z) /\ z.pc \in {"incr", "done", "limited"}
    BY <1>2, <1>4, IdleFits DEF Counted, Done, Idle
  <1>8. Moves(c, z)
    BY <1>1, <1>4, OneMoves
  <1>9. UnservedRight'
    BY <1>1, <1>7, <1>8, UnservedStays DEF Moves, ExactInv
  <1>10. c \in Counting /\ Counting \ {c} \subseteq Counting' /\ (~Fails(c) => c \in Counting')
    BY <1>1, <1>2, <1>4, <1>8 DEF Counting, Moves, y
  <1>11. Milder
    BY <1>1, <1>5, <1>10 DEF Milder, Settled
  <1>12. ASSUME ~mixed PROVE SettledRight'
    <2>1. AllSound(list', now, platform, Settled)
      <3> SUFFICES ASSUME NEW i \in DOMAIN list PROVE Sound(list'[i], now, platform, Settled)
        BY <1>3 DEF AllSound
      <3>1. Sound(list[i], now, platform, Settled)
        BY <1>12 DEF ExactInv, SettledRight, AllSound
      <3>2. \A d \in Settled : d # c /\ d \in Calls
        BY <1>10 DEF Settled
      <3> QED BY <1>3, <3>1, <3>2 DEF Sound, Begun, Exact, Current
    <2>2. HandSound(z, now, platform, Settled)
      BY <1>7, EmptyHanded
    <2> QED BY <1>1, <1>3, <1>7, <1>8, <1>11, <1>12, <2>1, <2>2, SettledStays DEF ExactInv
  <1>13. ASSUME ~mixed, c \in Counting' \ excused'
         PROVE  Calibrating = {} /\ Underway(c, z, list', now', platform')
    <2>1. ~Fails(c) /\ ~y.misled /\ c \notin excused /\ z = x
      BY <1>4, <1>5, <1>13
    <2>2. Calibrating = {} /\ Underway(c, y, list, now, platform)
      BY <1>10, <1>13, <2>1 DEF ExactInv, UnderwayRight, y
    <2>3. Len(y.seen) = Len(list) /\ y.todo \in Seq(Writes) /\ y.seen \in Seq(Rows)
      BY <1>1, <2>2 DEF Underway, Fits, Locals
    <2>4. p \in DOMAIN list /\ Source[list[p].rule] = SourceOf[c]
      <3>1. p \in DOMAIN y.seen /\ Source[y.seen[p].rule] = SourceOf[c]
        BY <1>1, <1>2, <1>6 DEF Fits, Prepared
      <3>2. p \in DOMAIN list
        BY <1>1, <2>3, <3>1
      <3> QED BY <1>1, <2>1, <3>1, <3>2 DEF Oriented
    <2>5. \A i : i \in Waiting(x) <=> i \in Waiting(y) /\ i # p
      <3>1. p \notin Waiting(x)
        <4> SUFFICES ASSUME NEW n \in DOMAIN x.todo, x.todo[n].at = p PROVE FALSE
          BY DEF Waiting
        <4>1. n + 1 \in DOMAIN y.todo /\ y.todo[n + 1].at = y.todo[1].at
          BY <1>2, <1>6
        <4>2. n + 1 = 1
          BY <1>1, <1>2, <4>1 DEF Fits, Prepared
        <4>3. n \in Nat \ {0}
          BY <1>2 DEF Fits, Locals
        <4> QED BY <4>2, <4>3
      <3>2. Waiting(x) \subseteq Waiting(y)
        BY <1>2 DEF Waiting
      <3>3. ASSUME NEW n \in DOMAIN y.todo, y.todo[n].at # p PROVE y.todo[n].at \in Waiting(x)
        <4>1. n - 1 \in DOMAIN x.todo
          BY <1>2, <1>6, <3>3
        <4>2. n \in Nat
          BY <2>3
        <4>3. x.todo[n - 1] = y.todo[(n - 1) + 1] /\ (n - 1) + 1 = n
          BY <1>2, <4>1, <4>2
        <4> QED BY <4>1, <4>3 DEF Waiting
      <3> QED BY <3>1, <3>2, <3>3 DEF Waiting
    <2>6. p \in Waiting(y)
      BY <1>2, <1>6 DEF Waiting
    <2>7. ASSUME NEW i \in DOMAIN list
          PROVE  Times(list'[i], c, now, IF Source[list'[i].rule] = SourceOf[c] /\ i \notin Waiting(x)
                                         THEN 1 ELSE 0)
      <3>0. /\ list'[i].rule = list[i].rule /\ list'[i].end = list[i].end
            /\ list'[i].remote = list[i].remote
            /\ list'[i].local[c] = IF i = p THEN list[i].local[c] + 1 ELSE list[i].local[c]
        BY <1>3
      <3>1. Times(list[i], c, now, IF Source[list[i].rule] = SourceOf[c] /\ i \notin Waiting(y)
                                   THEN 1 ELSE 0)
        BY <1>1, <2>2 DEF Underway
      <3>2. CASE i = p
        <4>1. Times(list[i], c, now, 0)
          BY <2>6, <3>1, <3>2
        <4>2. list[i] \in Rows
          BY <1>1
        <4>3. list[i].remote[c] \in Nat /\ list[i].local[c] \in Nat
          BY <4>2 DEF Rows
        <4>4. Times(list'[i], c, now, 1)
          BY <3>0, <3>2, <4>1, <4>3 DEF Times, Current
        <4> QED BY <2>4, <2>5, <3>0, <3>2, <4>4
      <3>3. CASE i # p
        <4>1. i \in Waiting(x) <=> i \in Waiting(y)
          BY <2>5, <3>3
        <4> QED BY <3>0, <3>1, <3>3, <4>1 DEF Times, Current
      <3> QED BY <3>2, <3>3
    <2> QED BY <1>1, <1>2, <1>3, <2>1, <2>2, <2>3, <2>7 DEF Underway
  <1>14. ASSUME ~mixed PROVE UnderwayRight'
    <2>1. ASSUME NEW d \in (Counting \ excused) \ {c} PROVE KeepsCount(d)
      BY <1>1, <1>3 DEF KeepsCount, Counting
    <2> QED BY <1>1, <1>5, <1>7, <1>8, <1>13, <1>14, <2>1, OthersUnderway DEF ExactInv
  <1> QED BY <1>1, <1>9, <1>12, <1>14

LEMMA CheckExact ==
    ASSUME ExactInv, NEW c \in Calls, Check(c)
    PROVE  UnservedRight' /\ (~mixed' => SettledRight' /\ UnderwayRight')
  <1>1. /\ Typed /\ Fits(c, me[c]) /\ me[c].pc = "incr" /\ me[c].todo = <<>> /\ list \in Seq(Rows)
        /\ list' = list /\ now' = now /\ platform' = platform /\ mixed' = mixed /\ excused' = excused
    BY DEF ExactInv, OrientedInv, Typed, TypeOK, EachFits, Check, time
  <1>2. PICK z \in Counted : me' = [me EXCEPT ![c] = z]
    BY DEF Check
  <1>3. Fits(c, z) /\ z.pc \in {"done", "limited"}
    BY <1>2, IdleFits DEF Counted, Done, Idle
  <1>4. Moves(c, z)
    BY <1>1, <1>2, OneMoves
  <1>5. UnservedRight'
    BY <1>1, <1>3, <1>4, UnservedStays DEF Moves, ExactInv
  <1>6. c \in Counting /\ Counting' = Counting \ {c}
    BY <1>1, <1>3, <1>4 DEF Counting, Moves
  <1>7. ASSUME ~mixed PROVE SettledRight'
    <2>1. SettledRight /\ HandSound(z, now, platform, Settled)
      BY <1>3, <1>7, EmptyHanded DEF ExactInv
    <2>2. CASE c \in excused
      <3>1. Milder
        BY <1>1, <1>6, <2>2 DEF Milder, Settled
      <3> QED BY <1>1, <1>3, <1>4, <2>1, <3>1, SettledStays DEF SettledRight
    <2>3. CASE c \notin excused
      <3>1. Calibrating = {} /\ Underway(c, me[c], list, now, platform)
        BY <1>6, <1>7, <2>3 DEF ExactInv, UnderwayRight
      <3>2. \A v \in Calls \cup Syncs : Fits(v, me'[v]) /\ me'[v].pc \notin {"fetched", "write"}
        BY <1>1, <1>3, <1>4, <3>1 DEF Calibrating, Moves, Typed, EachFits
      <3>3. ASSUME NEW i \in DOMAIN list PROVE Exact(list[i], c, now, platform)
        <4>1. Waiting(me[c]) = {}
          BY <1>1 DEF Waiting
        <4>2. Times(list[i], c, now, IF Source[list[i].rule] = SourceOf[c] THEN 1 ELSE 0)
          BY <1>1, <3>1, <4>1 DEF Underway
        <4>3. list[i] \in Rows
          BY <1>1
        <4>4. c \in platform[list[i].rule] <=> Source[list[i].rule] = SourceOf[c]
          BY <3>1, <4>3 DEF Underway, Rows
        <4> QED BY <4>2, <4>4 DEF Times, Exact, Once
      <3>4. Settled' = Settled \cup {c}
        BY <1>1, <1>6, <2>3 DEF Settled
      <3>5. \A i \in DOMAIN list : Sound(list[i], now, platform, Settled \cup {c})
        BY <2>1, <3>3 DEF SettledRight, AllSound, Sound
      <3>6. AllSound(list', now', platform', Settled')
        BY <1>1, <3>4, <3>5 DEF AllSound
      <3> QED BY <3>2, <3>6, EmptyHanded DEF SettledRight
    <2> QED BY <2>2, <2>3
  <1>8. ASSUME ~mixed PROVE UnderwayRight'
    <2>1. \A d \in (Counting \ excused) \ {c} : KeepsCount(d)
      BY <1>1, SameCounts
    <2> QED BY <1>1, <1>3, <1>4, <1>6, <1>8, <2>1, OthersUnderway DEF ExactInv
  <1> QED BY <1>1, <1>5, <1>7, <1>8

-----------------------------------------------------------------------------
\* Who is no request, or was not under way and is not, leaves alone who is.
LEMMA CountingSame ==
    ASSUME NEW w \in Calls \cup Syncs, NEW x, Moves(w, x),
           w \in Calls => me[w].pc \notin {"served", "incr"} /\ x.pc \notin {"served", "incr"}
    PROVE  Counting' = Counting
  BY DEF Counting, Moves

\* A row of the current window with the platform's counts.
LEMMA FreshCounts ==
    ASSUME TypeOK, NEW r \in RuleSet, NEW S \in SUBSET Calls
    PROVE  Sound(Row(r, Once(platform[r]), UsedUp(r), WindowEnd(r, now)), now, platform, S)
  <1> DEFINE e == WindowEnd(r, now)
             f == Once(platform[r])
             u == Row(r, f, UsedUp(r), e)
  <1>1. u.rule = r /\ u.remote = f /\ u.local = None /\ u.end = e
    BY DEF Row
  <1>2. now \in 0..now
    BY RuleData DEF TypeOK
  <1>3. Begun(u, now)
    BY <1>1, <1>2 DEF Begun
  <1>4. ASSUME NEW c \in S PROVE u.remote[c] + u.local[c] = Once(platform[u.rule])[c]
    BY <1>1 DEF None, Once
  <1> QED BY <1>3, <1>4 DEF Sound, Exact

LEMMA SettledCalls == Settled \in SUBSET Calls
  BY DEF Settled

LEMMA FetchExact ==
    ASSUME ExactInv, NEW k \in Syncs, NEW I \in SUBSET DOMAIN Rules, Fetch(k, I)
    PROVE  UnservedRight' /\ (~mixed' => SettledRight' /\ UnderwayRight')
  <1> DEFINE x == [me[k] EXCEPT !.pc = "fetched", !.stats = Said(I)]
  <1>1. /\ Typed /\ TypeOK /\ me[k].pc = "idle" /\ list \in Seq(Rows) /\ k \notin Calls
        /\ list' = list /\ now' = now /\ platform' = platform /\ mixed' = mixed
        /\ excused' = excused \cup Counting
    BY RuleData DEF ExactInv, OrientedInv, Typed, TypeOK, Fetch, time
  <1>2. me' = [me EXCEPT ![k] = x]
    BY DEF Fetch, Said
  <1>3. Fits(k, x) /\ x.pc = "fetched" /\ x.stats = Said(I) /\ x.fresh = <<>>
    BY <1>1, AskingFits
  <1> HIDE DEF x
  <1>4. Moves(k, x)
    BY <1>1, <1>2, OneMoves
  <1>5. UnservedRight'
    BY <1>1, <1>4, UnservedStays DEF Moves, ExactInv
  <1>6. Counting' = Counting
    BY <1>1, <1>4, CountingSame
  <1>7. Milder
    BY <1>1, <1>6 DEF Milder, Settled
  <1>8. AllSound(Said(I), now, platform, Settled)
    <2> SUFFICES ASSUME NEW n \in DOMAIN Said(I) PROVE Sound(Said(I)[n], now, platform, Settled)
      BY DEF AllSound
    <2>1. PICK r \in RuleSet : Said(I)[n] = Row(r, Once(platform[r]), UsedUp(r), WindowEnd(r, now))
      BY <1>1, PlatformSays
    <2> QED BY <1>1, <2>1, FreshCounts, SettledCalls
  <1>9. HandSound(x, now, platform, Settled)
    BY <1>3, <1>8 DEF HandSound, AllSound
  <1>10. ASSUME ~mixed PROVE SettledRight'
    BY <1>1, <1>3, <1>4, <1>7, <1>9, <1>10, SettledStays DEF ExactInv, SettledRight
  <1>11. UnderwayRight'
    BY <1>1, <1>6, NobodyUnderway
  <1> QED BY <1>1, <1>5, <1>10, <1>11

\* Rows that agree in rule, window and counts are as sound.
LEMMA SameCountsSound ==
    ASSUME NEW u, NEW v, NEW t, NEW p, NEW S, Sound(u, t, p, S),
           v.rule = u.rule, v.end = u.end,
           \A c \in S : v.remote[c] + v.local[c] = u.remote[c] + u.local[c]
    PROVE  Sound(v, t, p, S)
  BY DEF Sound, Begun, Exact, Current

\* What is shown is as sound as what is stored.
LEMMA ShownSound ==
    ASSUME TypeOK, SettledRight, NEW i \in DOMAIN GetCurrentUsages
    PROVE  Sound(GetCurrentUsages[i], now, platform, Settled)
  BY UsagesShown DEF SettledRight, AllSound

LEMMA ReadToCalibrateExact ==
    ASSUME ExactInv, NEW k \in Syncs, ReadToCalibrate(k)
    PROVE  UnservedRight' /\ (~mixed' => SettledRight' /\ UnderwayRight')
  <1> DEFINE us == GetCurrentUsages
             stats == me[k].stats
             t == ToCalibrate(us, OldRules(us, stats))
             f == ToSave(us, stats)
             x == CalibratesBy(me[k], us, Shifted, t, f)
  <1>1. /\ Typed /\ TypeOK /\ me[k].pc = "fetched" /\ list \in Seq(Rows) /\ k \notin Calls
        /\ list' = list /\ now' = now /\ platform' = platform /\ mixed' = mixed
        /\ excused' = excused
    BY RuleData DEF ExactInv, OrientedInv, Typed, TypeOK, ReadToCalibrate, time
  <1>2. me' = [me EXCEPT ![k] = x]
    BY DEF ReadToCalibrate, Read, CalibratesBy, ToCalibrate, ToSave, OldRules, NewRules, AsRead, Known
  <1>3. /\ Fits(k, x) /\ x.pc = "write" /\ x.seen = us /\ x.todo = t /\ x.stats = <<>> /\ x.fresh = f
    BY <1>1, CalibratingFits
  <1>4. /\ us \in Seq(Rows) /\ Distinct(us) /\ stats \in Seq(Rows) /\ Distinct(stats)
        /\ \A m \in DOMAIN stats : stats[m].local = None
    BY <1>1, UsagesShown DEF Typed, EachFits, Fits, Prepared, Locals
  <1>5. /\ \A n \in DOMAIN t : \E m \in DOMAIN stats :
              us[t[n].at].rule = stats[m].rule /\ t[n].remote = stats[m].remote
                                               /\ t[n].end = stats[m].end
        /\ \A n \in DOMAIN f : \/ \E i \in DOMAIN us : f[n] = us[i]
                               \/ \E m \in DOMAIN stats : f[n] = stats[m]
    <2> HIDE DEF us, stats
    <2> QED BY <1>4, Calibration
  <1>6. ASSUME SettledRight
        PROVE  /\ \A i \in DOMAIN us : Sound(us[i], now, platform, Settled)
               /\ \A m \in DOMAIN stats : Sound(stats[m], now, platform, Settled)
    BY <1>1, <1>6, ShownSound DEF SettledRight, HandSound, AllSound
  <1> HIDE DEF us, stats, t, f, x
  <1>7. Moves(k, x)
    BY <1>1, <1>2, OneMoves
  <1>8. UnservedRight'
    BY <1>1, <1>7, UnservedStays DEF Moves, ExactInv
  <1>9. Counting' = Counting
    BY <1>1, <1>7, CountingSame
  <1>10. Milder
    BY <1>1, <1>9 DEF Milder, Settled
  <1>11. ASSUME SettledRight PROVE HandSound(x, now, platform, Settled)
    <2>1. AllSound(f, now, platform, Settled)
      BY <1>5, <1>6, <1>11 DEF AllSound
    <2>2. ASSUME NEW n \in DOMAIN t PROVE Sound(ToWrite(x, n), now, platform, Settled)
      <3>1. PICK m \in DOMAIN stats : us[t[n].at].rule = stats[m].rule /\ t[n].remote = stats[m].remote
                                                                    /\ t[n].end = stats[m].end
        BY <1>5
      <3>3. /\ ToWrite(x, n).rule = stats[m].rule /\ ToWrite(x, n).end = stats[m].end
            /\ ToWrite(x, n).remote = stats[m].remote /\ ToWrite(x, n).local = stats[m].local
        BY <1>3, <1>4, <3>1 DEF ToWrite, Row
      <3>4. Sound(stats[m], now, platform, Settled)
        BY <1>6, <1>11
      <3> QED BY <3>3, <3>4, SameCountsSound
    <2>3. AllSound(x.stats, now, platform, Settled)
      BY <1>3 DEF AllSound
    <2> QED BY <1>3, <2>1, <2>2, <2>3 DEF HandSound
  <1>12. ASSUME ~mixed PROVE SettledRight'
    BY <1>1, <1>3, <1>7, <1>10, <1>11, <1>12, SettledStays DEF ExactInv, SettledRight
  <1>13. ASSUME ~mixed PROVE UnderwayRight'
    <2>1. Calibrating # {}
      BY <1>1 DEF Calibrating
    <2> QED BY <1>1, <1>9, <1>13, <2>1, CalibratingExcuses, NobodyUnderway DEF ExactInv
  <1> QED BY <1>1, <1>8, <1>12, <1>13

LEMMA CalibrateFromResponseExact ==
    ASSUME ExactInv, NEW c \in Calls, CalibrateFromResponse(c)
    PROVE  UnservedRight' /\ (~mixed' => SettledRight' /\ UnderwayRight')
  <1> DEFINE us == GetCurrentUsages
             t == ToSettle(c, us)
             x == [Read(c, "write") EXCEPT !.todo = t]
  <1>1. /\ Typed /\ TypeOK /\ me[c].pc = "limited" /\ list \in Seq(Rows)
        /\ list' = list /\ now' = now /\ platform' = platform /\ mixed' = mixed
        /\ excused' = IF us = <<>> THEN excused ELSE excused \cup Counting
    BY DEF ExactInv, OrientedInv, Typed, TypeOK, CalibrateFromResponse, time
  <1>2. me' = [me EXCEPT ![c] = IF us = <<>> THEN Done ELSE x]
    BY DEF CalibrateFromResponse, ToSettle
  <1>3. /\ Fits(c, x) /\ x.pc = "write" /\ x.seen = us /\ x.todo = t /\ x.stats = <<>> /\ x.fresh = <<>>
    BY <1>1, SettlingFits
  <1>4. us \in Seq(Rows)
    BY <1>1, UsagesShown
  <1>5. ASSUME NEW n \in DOMAIN t
        PROVE  LET i == t[n].at
               IN i \in DOMAIN us /\ t[n].remote = Plus(us[i].remote, us[i].local) /\ t[n].end = us[i].end
    <2>1. t[n].at \in DOMAIN us
      <3> HIDE DEF us
      <3> QED BY <1>4, ReadToWrite
    <2> QED BY <2>1 DEF ToSettle, Write
  <1>6. ASSUME SettledRight, NEW i \in DOMAIN us PROVE Sound(us[i], now, platform, Settled)
    BY <1>1, <1>6, ShownSound
  <1> DEFINE z == IF us = <<>> THEN Done ELSE x
  <1> HIDE DEF us, t, x
  <1>7. Fits(c, z) /\ z.pc \in {"done", "write"}
    BY <1>3, IdleFits DEF Counted, Done, Idle
  <1>8. ASSUME SettledRight PROVE HandSound(z, now, platform, Settled)
    <2>1. CASE us = <<>>
      <3>1. z.pc = "done"
        BY <2>1 DEF Done, Idle
      <3> HIDE DEF z
      <3> QED BY <1>7, <3>1, EmptyHanded
    <2>2. CASE us # <<>>
      <3>1. ASSUME NEW n \in DOMAIN t PROVE Sound(ToWrite(x, n), now, platform, Settled)
        <4> DEFINE u == us[t[n].at]
        <4>1. /\ ToWrite(x, n).rule = u.rule /\ ToWrite(x, n).end = u.end
              /\ ToWrite(x, n).remote = Plus(u.remote, u.local) /\ ToWrite(x, n).local = None
          BY <1>3, <1>5 DEF ToWrite, Row
        <4>2. Sound(u, now, platform, Settled) /\ u \in Rows
          BY <1>4, <1>5, <1>6, <1>8
        <4>3. \A d \in Calls : u.remote[d] + u.local[d] \in Nat
          BY <4>2 DEF Rows
        <4> HIDE DEF u
        <4>4. \A d \in Settled : ToWrite(x, n).remote[d] + ToWrite(x, n).local[d] = u.remote[d] + u.local[d]
          BY <4>1, <4>3, SettledCalls DEF Plus, None
        <4> QED BY <4>1, <4>2, <4>4, SameCountsSound
      <3>2. AllSound(x.stats, now, platform, Settled) /\ AllSound(x.fresh, now, platform, Settled)
        BY <1>3 DEF AllSound
      <3> QED BY <1>3, <2>2, <3>1, <3>2 DEF HandSound
    <2> QED BY <2>1, <2>2
  <1>9. Moves(c, z)
    BY <1>1, <1>2, OneMoves DEF us
  <1> HIDE DEF z
  <1>10. UnservedRight'
    BY <1>1, <1>7, <1>9, UnservedStays DEF Moves, ExactInv
  <1>11. Counting' = Counting
    BY <1>1, <1>7, <1>9, CountingSame
  <1>12. Milder
    BY <1>1, <1>11 DEF Milder, Settled
  <1>13. ASSUME ~mixed PROVE SettledRight'
    BY <1>1, <1>7, <1>8, <1>9, <1>12, <1>13, SettledStays DEF ExactInv, SettledRight
  <1>14. ASSUME ~mixed PROVE UnderwayRight'
    <2>1. CASE us = <<>>
      <3>1. \A d \in (Counting \ excused) \ {c} : KeepsCount(d)
        BY <1>1, SameCounts
      <3>2. z.pc = "done" /\ c \notin Counting'
        BY <1>1, <1>11, <2>1 DEF z, Done, Idle, Counting
      <3> QED BY <1>1, <1>9, <1>14, <2>1, <3>1, <3>2, OthersUnderway DEF ExactInv
    <2>2. CASE us # <<>>
      BY <1>1, <1>11, <2>2, NobodyUnderway
    <2> QED BY <2>1, <2>2
  <1> QED BY <1>1, <1>10, <1>13, <1>14

LEMMA ReturnedIsBack ==
    ASSUME NEW w \in Calls \cup Syncs
    PROVE  /\ Fits(w, Returned(w)) /\ Returned(w).pc \in {"idle", "done"}
           /\ (w \in Calls => Returned(w).pc = "done")
  BY IdleFits, RuleData DEF Returned, Done, Idle

LEMMA CalibrateRuleExact ==
    ASSUME ExactInv, NEW w \in Calls \cup Syncs, CalibrateRule(w)
    PROVE  UnservedRight' /\ (~mixed' => SettledRight' /\ UnderwayRight')
  <1> DEFINE y == me[w]
             x == [y EXCEPT !.todo = Tail(@)]
             p == Position(w)
  <1>1. /\ Typed /\ TypeOK /\ Fits(w, y) /\ y.pc = "write" /\ y.todo # <<>> /\ list \in Seq(Rows)
        /\ now' = now /\ platform' = platform /\ excused' = excused
        /\ mixed' = (mixed \/ WrongRow(w))
    BY DEF ExactInv, OrientedInv, Typed, TypeOK, EachFits, CalibrateRule, time
  <1>2. /\ Fits(w, x) /\ x.pc = "write" /\ x.seen = y.seen /\ x.stats = y.stats /\ x.fresh = y.fresh
        /\ 1 \in DOMAIN y.todo
        /\ \A n \in DOMAIN x.todo : n + 1 \in DOMAIN y.todo /\ x.todo[n] = y.todo[n + 1]
    BY <1>1, GoesOn
  <1>3. /\ list' \in Seq(Rows) /\ DOMAIN list' = DOMAIN list
        /\ \A i \in DOMAIN list :
              list'[i] = IF i = p THEN Row(list[i].rule, y.todo[1].remote, y.todo[1].spent, y.todo[1].end) ELSE list[i]
    BY <1>1, WriteShape
  <1>4. PICK z \in {Returned(w), x} : me' = [me EXCEPT ![w] = z]
    <2>1. me' = [me EXCEPT ![w] = IF Fails(w) THEN Returned(w) ELSE x]
      BY DEF CalibrateRule
    <2> HIDE DEF x
    <2> QED BY <2>1
  <1>5. p = y.todo[1].at /\ (WrongRow(w) <=> p \in DOMAIN list /\ list[p].rule # y.seen[p].rule)
    BY DEF Position, WrongRow
  <1>6. ASSUME SettledRight PROVE HandSound(y, now, platform, Settled)
    BY <1>6 DEF SettledRight
  <1>7. Calibrating # {}
    BY <1>1 DEF Calibrating
  <1>8. w \in Calls => me[w].pc \notin {"served", "incr"}
    BY <1>1
  <1> HIDE DEF y, x, p
  <1>9. Fits(w, z) /\ z.pc \in {"idle", "done", "write"} /\ (w \in Calls => z.pc # "idle")
    BY <1>2, <1>4, ReturnedIsBack
  <1>10. Moves(w, z)
    BY <1>1, <1>4, OneMoves
  <1>11. UnservedRight'
    BY <1>1, <1>9, <1>10, UnservedStays DEF Moves, ExactInv
  <1>12. Counting' = Counting
    BY <1>8, <1>9, <1>10, CountingSame
  <1>13. Milder
    BY <1>1, <1>12 DEF Milder, Settled
  <1>14. ASSUME SettledRight PROVE HandSound(z, now, platform, Settled)
    <2>1. CASE z = x
      <3>1. ASSUME NEW n \in DOMAIN x.todo PROVE Sound(ToWrite(x, n), now, platform, Settled)
        <4>1. ToWrite(x, n) = ToWrite(y, n + 1) /\ n + 1 \in DOMAIN y.todo
          BY <1>2 DEF ToWrite
        <4> QED BY <1>1, <1>6, <1>14, <4>1 DEF HandSound
      <3> QED BY <1>2, <1>6, <1>14, <2>1, <3>1 DEF HandSound
    <2>2. CASE z = Returned(w)
      <3>1. z.pc \notin {"fetched", "write"}
        BY <2>2, ReturnedIsBack
      <3> QED BY <1>9, <3>1, EmptyHanded
    <2> QED BY <1>4, <2>1, <2>2
  <1>15. ASSUME ~mixed' PROVE SettledRight'
    <2>1. SettledRight /\ ~mixed /\ ~WrongRow(w)
      BY <1>1, <1>15 DEF ExactInv
    <2>2. AllSound(list', now, platform, Settled)
      <3> SUFFICES ASSUME NEW i \in DOMAIN list PROVE Sound(list'[i], now, platform, Settled)
        BY <1>3 DEF AllSound
      <3>1. CASE i = p
        <4>1. list[p].rule = y.seen[y.todo[1].at].rule
          BY <1>5, <2>1, <3>1
        <4>2. list'[i] = ToWrite(y, 1)
          BY <1>3, <3>1, <4>1 DEF ToWrite
        <4> QED BY <1>1, <1>2, <1>6, <2>1, <4>2 DEF HandSound
      <3>2. CASE i # p
        BY <1>3, <2>1, <3>2 DEF SettledRight, AllSound
      <3> QED BY <3>1, <3>2
    <2> QED BY <1>1, <1>3, <1>9, <1>10, <1>13, <1>14, <2>1, <2>2, SettledStays
  <1>16. ASSUME ~mixed' PROVE UnderwayRight'
    <2>1. UnderwayRight
      BY <1>1, <1>16 DEF ExactInv
    <2> QED BY <1>1, <1>7, <1>12, <2>1, CalibratingExcuses, NobodyUnderway
  <1> QED BY <1>11, <1>15, <1>16

\* Being misled changes nothing of what one has in hand.
LEMMA MisledSound ==
    ASSUME NEW m \in [Calls \cup Syncs -> Locals], NEW w \in Calls \cup Syncs, NEW t, NEW p, NEW S,
           HandSound(m[w], t, p, S)
    PROVE  HandSound(Mislead(m)[w], t, p, S) /\ Mislead(m)[w].pc = m[w].pc
  <1> DEFINE y == m[w]
             x == [y EXCEPT !.misled = TRUE]
  <1>1. Mislead(m)[w] = IF m[w].pc \in {"incr", "write"} THEN x ELSE y
    BY DEF Mislead
  <1>2. y \in Locals /\ HandSound(y, t, p, S)
    OBVIOUS
  <1> HIDE DEF y
  <1>3. /\ x.pc = y.pc /\ x.stats = y.stats /\ x.fresh = y.fresh /\ x.todo = y.todo
        /\ x.seen = y.seen
    BY <1>2 DEF Locals
  <1> HIDE DEF x
  <1>4. HandSound(x, t, p, S)
    BY <1>2, <1>3 DEF HandSound, ToWrite
  <1> QED BY <1>1, <1>2, <1>3, <1>4 DEF y

LEMMA SettledAnew ==
    ASSUME Milder, NEW m \in [Calls \cup Syncs -> Locals], me' = Mislead(m),
           \A v \in Calls \cup Syncs : Fits(v, m[v]) /\ HandSound(m[v], now, platform, Settled),
           AllSound(list', now', platform', Settled')
    PROVE  SettledRight'
  <1>1. ASSUME NEW v \in Calls \cup Syncs PROVE HandSound(me'[v], now', platform', Settled')
    <2>1. HandSound(m[v], now', platform', Settled')
      BY HandCarried
    <2> QED BY <2>1, MisledSound
  <1> QED BY <1>1 DEF SettledRight

LEMMA FinishExact ==
    ASSUME ExactInv, NEW w \in Calls \cup Syncs, Finish(w)
    PROVE  UnservedRight' /\ (~mixed' => SettledRight' /\ UnderwayRight')
  <1> DEFINE z == Returned(w)
             m == [me EXCEPT ![w] = z]
  <1>1. /\ Typed /\ me \in [Calls \cup Syncs -> Locals] /\ me[w].pc = "write"
        /\ list \in Seq(Rows) /\ me[w].fresh \in Seq(Rows)
        /\ \A v \in Calls \cup Syncs : Fits(v, me[v])
        /\ now' = now /\ platform' = platform /\ excused' = excused /\ mixed' = mixed
    BY DEF ExactInv, OrientedInv, Typed, TypeOK, EachFits, Fits, Locals, Finish, time
  <1>2. Fits(w, z) /\ z.pc \in {"idle", "done"} /\ (w \in Calls => z.pc = "done")
    BY ReturnedIsBack
  <1>3. Calibrating # {}
    BY <1>1 DEF Calibrating
  <1>4. HandSound(z, now, platform, Settled)
    <2>1. z.pc \notin {"fetched", "write"}
      BY <1>2
    <2> HIDE DEF z
    <2> QED BY <1>2, <2>1, EmptyHanded
  <1> HIDE DEF z
  <1>5. /\ m \in [Calls \cup Syncs -> Locals] /\ m[w] = z
        /\ \A v \in (Calls \cup Syncs) \ {w} : m[v] = me[v]
    BY <1>1, <1>2 DEF Fits
  <1>6. \A v \in Calls \cup Syncs : me'[v].pc = m[v].pc
    <2>1. me' = m \/ me' = Mislead(m)
      BY DEF Finish, z
    <2> HIDE DEF m
    <2>2. \A v \in Calls \cup Syncs : Mislead(m)[v].pc = m[v].pc
      BY <1>5 DEF Mislead, Locals
    <2> QED BY <2>1, <2>2
  <1>7. UnservedRight'
    BY <1>1, <1>2, <1>5, <1>6, UnservedStays DEF ExactInv
  <1>8. Counting' = Counting
    BY <1>1, <1>2, <1>5, <1>6 DEF Counting
  <1>9. Milder
    BY <1>1, <1>8 DEF Milder, Settled
  <1>10. ASSUME ~mixed PROVE UnderwayRight'
    BY <1>1, <1>3, <1>8, <1>10, CalibratingExcuses, NobodyUnderway DEF ExactInv
  <1>11. ASSUME ~mixed PROVE SettledRight'
    <2>1. SettledRight
      BY <1>11 DEF ExactInv
    <2>2. CASE me[w].fresh = <<>>
      <3>1. me' = [me EXCEPT ![w] = z] /\ list' = list
        BY <2>2 DEF Finish, z
      <3>2. Moves(w, z)
        BY <1>1, <3>1, OneMoves
      <3> QED BY <1>1, <1>2, <1>4, <1>9, <2>1, <3>1, <3>2, SettledStays DEF SettledRight
    <2>3. CASE me[w].fresh # <<>>
      <3>1. me' = Mislead(m) /\ list' = me[w].fresh
        BY <2>3 DEF Finish, z
      <3> HIDE DEF m
      <3>2. \A v \in Calls \cup Syncs : Fits(v, m[v]) /\ HandSound(m[v], now, platform, Settled)
        BY <1>1, <1>2, <1>4, <1>5, <2>1 DEF SettledRight
      <3>3. AllSound(list', now', platform', Settled')
        BY <1>1, <1>9, <2>1, <3>1, AllCarried DEF SettledRight, HandSound
      <3> QED BY <1>5, <1>9, <3>1, <3>2, <3>3, SettledAnew
    <2> QED BY <2>2, <2>3
  <1> QED BY <1>1, <1>7, <1>10, <1>11

LEMMA ResetExact ==
    ASSUME ExactInv, NEW new \in {Initial, <<>>}, Reset(new)
    PROVE  UnservedRight' /\ (~mixed' => SettledRight' /\ UnderwayRight')
  <1>1. /\ Typed /\ TypeOK /\ me \in [Calls \cup Syncs -> Locals]
        /\ \A v \in Calls \cup Syncs : Fits(v, me[v])
        /\ now' = now /\ platform' = platform /\ mixed' = mixed /\ list' = new
        /\ excused' = excused \cup {c \in Calls : me[c].pc # "idle"} /\ me' = Mislead(me)
    BY DEF ExactInv, OrientedInv, Typed, TypeOK, EachFits, Reset, time
  <1>2. \A v \in Calls \cup Syncs : me'[v].pc = me[v].pc
    BY <1>1 DEF Mislead, Locals
  <1>3. UnservedRight'
    BY <1>1, <1>2, UnservedStays DEF ExactInv
  <1>4. Counting' = Counting /\ Counting \subseteq excused'
    BY <1>1, <1>2 DEF Counting
  <1>5. Milder
    BY <1>1, <1>4 DEF Milder, Settled
  <1>6. UnderwayRight'
    BY <1>4, NobodyUnderway
  <1>7. AllSound(new, now', platform', Settled')
    <2> SUFFICES ASSUME NEW i \in DOMAIN new PROVE Sound(new[i], now', platform', Settled')
      BY DEF AllSound
    <2>0. new = Initial
      OBVIOUS
    <2>1. PICK r \in RuleSet : new[i] = Row(r, None, FALSE, WindowEnd(r, now))
      BY <1>1, <2>0, InitialRows
    <2>2. new[i].rule = r /\ new[i].remote = None /\ new[i].local = None /\ new[i].end = WindowEnd(r, now)
      BY <2>1 DEF Row
    <2>3. now \in 0..now
      BY <1>1, RuleData DEF TypeOK
    <2>4. Begun(new[i], now')
      BY <1>1, <2>2, <2>3 DEF Begun
    <2>5. ASSUME NEW c \in Settled' PROVE new[i].remote[c] + new[i].local[c] = Once(platform'[r])[c]
      <3>1. c \in Calls /\ me[c].pc = "idle"
        BY <1>1 DEF Settled
      <3>2. c \notin platform[r]
        BY <3>1 DEF ExactInv, UnservedRight
      <3> QED BY <1>1, <2>2, <3>1, <3>2 DEF None, Once
    <2> QED BY <2>2, <2>4, <2>5 DEF Sound, Exact
  <1>8. ASSUME ~mixed PROVE SettledRight'
    BY <1>1, <1>5, <1>7, <1>8, SettledAnew DEF ExactInv, SettledRight
  <1> QED BY <1>1, <1>3, <1>6, <1>8

-----------------------------------------------------------------------------
\* A row of the window that is current after a tick was of the current window before it, and the
\* platform has gone on to count in it.
LEMMA TickSound ==
    ASSUME TypeOK, Tick, NEW u \in Rows, Sound(u, now, platform, Settled), Settled' \subseteq Settled
    PROVE  Sound(u, now', platform', Settled')
  <1> DEFINE r == u.rule
  <1>1. /\ now \in 0..MaxTime /\ now + 1 \in 0..MaxTime /\ MaxTime \in Nat
        /\ now' = now + 1 /\ r \in RuleSet
    BY RuleData DEF TypeOK, Tick, Rows
  <1>2. PICK s \in 0..now : u.end = WindowEnd(r, s)
    BY DEF Sound, Begun
  <1>3. Begun(u, now')
    <2>1. s \in 0..now'
      BY <1>1, <1>2
    <2> QED BY <1>2, <2>1 DEF Begun
  <1>4. ASSUME Current(u, now') PROVE Current(u, now) /\ platform'[r] = platform[r]
    <2>1. now + 1 <= WindowEnd(r, now + 1) /\ WindowEnd(r, now + 1) = u.end /\ u.end \in Nat
      BY <1>1, <1>4, Windows DEF Current
    <2>2. s \in 0..MaxTime /\ s <= now /\ now <= WindowEnd(r, s)
      BY <1>1, <1>2, <2>1
    <2>3. WindowEnd(r, now) = u.end
      BY <1>1, <1>2, <2>2, Windows
    <2>4. WindowEnd(r, now) # now
      BY <1>1, <2>1, <2>3
    <2> QED BY <1>1, <2>3, <2>4 DEF Tick, Current
  <1>5. ASSUME NEW c \in Settled' PROVE Exact(u, c, now', platform')
    <2>1. Exact(u, c, now, platform)
      BY <1>5 DEF Sound
    <2> QED BY <1>4, <2>1 DEF Exact
  <1> QED BY <1>3, <1>5 DEF Sound

LEMMA TickExact ==
    ASSUME ExactInv, Tick
    PROVE  UnservedRight' /\ (~mixed' => SettledRight' /\ UnderwayRight')
  <1> DEFINE ends == {r \in RuleSet : WindowEnd(r, now) = now}
  <1>1. /\ Typed /\ TypeOK /\ list \in Seq(Rows) /\ now \in 0..MaxTime /\ now' = now + 1
        /\ me' = me /\ list' = list /\ mixed' = mixed
        /\ \A v \in Calls \cup Syncs : Fits(v, me[v])
        /\ excused' = IF ends # {} THEN excused \cup Counting ELSE excused
    BY RuleData DEF ExactInv, OrientedInv, Typed, TypeOK, EachFits, Tick
  <1>2. \A r \in RuleSet : platform'[r] = IF r \in ends THEN {} ELSE platform[r]
    BY DEF Tick
  <1>3. UnservedRight'
    BY <1>1, <1>2, UnservedStays DEF ExactInv
  <1>4. Counting' = Counting /\ Calibrating' = Calibrating
    BY <1>1 DEF Counting, Calibrating
  <1> HIDE DEF ends
  <1>5. Settled' \subseteq Settled
    BY <1>1, <1>4 DEF Settled
  <1>6. ASSUME NEW s \in Seq(Rows), AllSound(s, now, platform, Settled)
        PROVE  AllSound(s, now', platform', Settled')
    <2> SUFFICES ASSUME NEW i \in DOMAIN s PROVE Sound(s[i], now', platform', Settled')
      BY DEF AllSound
    <2>1. s[i] \in Rows
      OBVIOUS
    <2> QED BY <1>1, <1>5, <1>6, <2>1, TickSound DEF AllSound
  <1>7. ASSUME SettledRight, NEW w \in Calls \cup Syncs
        PROVE  HandSound(me[w], now', platform', Settled')
    <2>1. HandSound(me[w], now, platform, Settled) /\ me[w].stats \in Seq(Rows) /\ me[w].fresh \in Seq(Rows)
      BY <1>1, <1>7 DEF SettledRight, Fits, Locals
    <2>2. ASSUME me[w].pc = "write", NEW n \in DOMAIN me[w].todo
          PROVE  Sound(ToWrite(me[w], n), now', platform', Settled')
      <3>1. ToWrite(me[w], n) \in Rows /\ Sound(ToWrite(me[w], n), now, platform, Settled)
        BY <1>1, <2>1, <2>2, WritesRows DEF HandSound
      <3> QED BY <1>1, <1>5, <3>1, TickSound
    <2> QED BY <1>6, <2>1, <2>2 DEF HandSound
  <1>8. ASSUME ~mixed PROVE SettledRight'
    BY <1>1, <1>6, <1>7, <1>8 DEF ExactInv, SettledRight
  <1>9. CASE ends # {}
    BY <1>1, <1>3, <1>4, <1>8, <1>9, NobodyUnderway
  <1>10. CASE ends = {}
    <2>1. ASSUME NEW r \in RuleSet PROVE WindowEnd(r, now') = WindowEnd(r, now) /\ platform'[r] = platform[r]
      <3>1. now <= WindowEnd(r, now) /\ WindowEnd(r, now) \in Nat /\ WindowEnd(r, now) # now
        BY <1>1, <1>10, Windows DEF ends
      <3>2. now + 1 \in Nat /\ now <= now + 1 /\ now + 1 <= WindowEnd(r, now)
        BY <1>1, <3>1
      <3> QED BY <1>1, <1>2, <1>10, <3>2, Windows
    <2>2. ASSUME NEW i \in DOMAIN list, NEW c, NEW n, Times(list[i], c, now, n)
          PROVE  Times(list[i], c, now', n)
      <3>1. list[i] \in Rows
        BY <1>1
      <3>2. list[i].rule \in RuleSet
        BY <3>1 DEF Rows
      <3> QED BY <2>1, <2>2, <3>2 DEF Times, Current
    <2>3. ASSUME NEW c, NEW x, Underway(c, x, list, now, platform)
          PROVE  Underway(c, x, list', now', platform')
      <3>1. \A r \in RuleSet : c \in platform'[r] <=> Source[r] = SourceOf[c]
        BY <2>1, <2>3 DEF Underway
      <3>2. x.pc = "served" => \A i \in DOMAIN list : Times(list[i], c, now', 0)
        BY <2>2, <2>3 DEF Underway
      <3>3. ASSUME x.pc = "incr"
            PROVE  /\ ~x.misled /\ Len(x.seen) = Len(list)
                   /\ \A i \in DOMAIN list :
                         Times(list[i], c, now', IF Source[list[i].rule] = SourceOf[c] /\ i \notin Waiting(x)
                                                 THEN 1 ELSE 0)
        BY <2>2, <2>3, <3>3 DEF Underway
      <3> QED BY <1>1, <3>1, <3>2, <3>3 DEF Underway
    <2>4. ASSUME ~mixed PROVE UnderwayRight'
      BY <1>1, <1>4, <1>10, <2>3, <2>4 DEF UnderwayRight, ExactInv
    <2> QED BY <1>1, <1>3, <1>8, <2>4
  <1> QED BY <1>9, <1>10

-----------------------------------------------------------------------------
LEMMA ExactStarts == Init => ExactInv
  <1> SUFFICES ASSUME Init PROVE ExactInv
    OBVIOUS
  <1>1. Typed /\ EachOriented
    BY TypedStarts DEF Init, EachOriented, Oriented, Idle
  <1>2. UnservedRight
    BY DEF Init, UnservedRight
  <1>3. UnderwayRight
    BY DEF Init, UnderwayRight, Counting, Idle
  <1>4. SettledRight
    <2>1. list = <<>> /\ \A w \in Calls \cup Syncs : me[w] = Idle
      BY DEF Init
    <2>2. HandSound(Idle, now, platform, Settled)
      BY DEF Idle, HandSound, AllSound
    <2> QED BY <2>1, <2>2 DEF SettledRight, AllSound
  <1> QED BY <1>1, <1>2, <1>3, <1>4 DEF ExactInv, OrientedInv

LEMMA ExactStays ==
    ASSUME ExactInv, [Next]_vars
    PROVE  ExactInv'
  <1> DEFINE Kept == UnservedRight' /\ (~mixed' => SettledRight' /\ UnderwayRight')
  <1>1. ASSUME NEW c \in Calls, Serve(c) \/ RecordUsage(c) \/ Incr(c) \/ Check(c)
                                \/ CalibrateFromResponse(c)
        PROVE  Kept
    BY <1>1, ServeExact, RecordUsageExact, IncrExact, CheckExact, CalibrateFromResponseExact
  <1>2. ASSUME NEW k \in Syncs, ReadToCalibrate(k) PROVE Kept
    BY <1>2, ReadToCalibrateExact
  <1>3. ASSUME NEW k \in Syncs, NEW I \in SUBSET DOMAIN Rules, Fetch(k, I) PROVE Kept
    BY <1>3, FetchExact
  <1>4. ASSUME NEW w \in Calls \cup Syncs, CalibrateRule(w) \/ Finish(w) PROVE Kept
    BY <1>4, CalibrateRuleExact, FinishExact
  <1>5. ASSUME InitRules \/ Remove PROVE Kept
    BY <1>5, ResetExact DEF InitRules, Remove, Initial, ValidRules
  <1>6. ASSUME Tick PROVE Kept
    BY <1>6, TickExact
  <1>7. ASSUME UNCHANGED vars PROVE Kept
    <2>1. Counting' = Counting /\ Calibrating' = Calibrating /\ Settled' = Settled
      BY <1>7 DEF vars, Counting, Calibrating, Settled
    <2>2. UNCHANGED <<now, list, platform, me, excused, mixed>>
      BY <1>7 DEF vars, time
    <2>3. UnservedRight' /\ (SettledRight => SettledRight') /\ (UnderwayRight => UnderwayRight')
      BY <2>1, <2>2 DEF UnservedRight, SettledRight, UnderwayRight, ExactInv
    <2> QED BY <2>2, <2>3 DEF ExactInv
  <1>8. Kept
    BY <1>1, <1>2, <1>3, <1>4, <1>5, <1>6, <1>7 DEF Next
  <1>9. OrientedInv'
    BY TypedStays, OrientedStays DEF ExactInv, OrientedInv
  <1> QED BY <1>8, <1>9 DEF ExactInv

LEMMA ExactHolds == Spec => []ExactInv
  BY ExactStarts, ExactStays, PTL DEF Spec

\* As long as every write has met the row it was meant for, a row of the current window counts
\* every request that is through exactly as the platform does, once or not at all, but for
\* those that overlapped a calibration, a reset or the end of a window.
THEOREM EstimatesAreExact == Spec => []EstimateExact
  <1>1. ASSUME ExactInv PROVE EstimateExact
    <2> SUFFICES ASSUME ~mixed, NEW i \in DOMAIN list, NEW c \in Calls \ excused,
                        me[c].pc \in {"limited", "write", "done"}
                 PROVE  Exact(list[i], c, now, platform)
      BY DEF EstimateExact, Exact, Current
    <2>1. c \in Settled
      BY DEF Settled, Counting
    <2> QED BY <1>1, <2>1 DEF ExactInv, SettledRight, AllSound, Sound
  <1> QED BY <1>1, ExactHolds, PTL

\* With a clock that agrees, and when no request is excused or under way, the account is said to
\* be available exactly if the platform's counts are below the safety ratio for all rules that
\* have a total and a current row; whether a 429 has marked the row as spent changes nothing.
THEOREM AnswersFollowThePlatform == Spec => []AnswerFollowsPlatform
  <1>1. ASSUME ExactInv PROVE AnswerFollowsPlatform
    <2> SUFFICES ASSUME skew = 0, ~mixed, excused = {}, Counting = {}
                 PROVE  IsQuotaAvailable <=> \A u \in Range(list) :
                           Current(u, now) /\ Total[u.rule] > 0
                              => Cardinality(platform[u.rule]) < Limit[u.rule]
      BY DEF AnswerFollowsPlatform, Current
    <2>1. /\ TypeOK /\ list \in Seq(Rows) /\ now \in 0..MaxTime
          /\ platform \in [RuleSet -> SUBSET Calls] /\ Settled = Calls /\ MaxTime \in Nat
      BY <1>1, RuleData DEF ExactInv, OrientedInv, Typed, TypeOK, Settled
    <2>2. ASSUME NEW i \in DOMAIN list
          PROVE  /\ InWindow(list[i]) <=> Current(list[i], now)
                 /\ Current(list[i], now) =>
                       (~AtLimit(list[i]) <=>
                          (Total[list[i].rule] > 0
                             => Cardinality(platform[list[i].rule]) < Limit[list[i].rule]))
      <3> DEFINE u == list[i]
                 r == u.rule
      <3>1. u \in Rows
        BY <2>1
      <3>2. r \in RuleSet /\ u.end \in Nat /\ Limit[r] \in Nat
        BY <3>1, RuleData DEF Rows
      <3>3. Sound(u, now, platform, Calls)
        BY <1>1, <2>1 DEF ExactInv, SettledRight, AllSound
      <3> HIDE DEF u
      <3>4. PICK s \in 0..now : u.end = WindowEnd(r, s)
        BY <3>3 DEF Sound, Begun
      <3>5. InWindow(u) <=> now <= u.end
        BY <3>2 DEF InWindow
      <3>6. InWindow(u) => Current(u, now)
        <4>1. s \in 0..MaxTime /\ s <= now
          BY <2>1, <3>4
        <4> QED BY <2>1, <3>2, <3>4, <3>5, <4>1, Windows DEF Current
      <3>7. Current(u, now) => InWindow(u)
        BY <2>1, <3>2, <3>5, Windows DEF Current
      <3>8. ASSUME Current(u, now)
            PROVE  ~AtLimit(u) <=> (Total[r] > 0 => Cardinality(platform[r]) < Limit[r])
        <4>1. \A c \in Calls : u.remote[c] + u.local[c] = Once(platform[r])[c]
          BY <3>3, <3>8 DEF Sound, Exact
        <4>2. platform[r] \in SUBSET Calls
          BY <2>1, <3>2
        <4>3. EstimatedUsed(u) = Cardinality(platform[r]) /\ EstimatedUsed(u) \in Nat
          BY <3>1, <4>1, <4>2, OnceEach, TicketsAreFinite
        <4> QED BY <3>2, <4>3 DEF AtLimit
      <3> QED BY <3>6, <3>7, <3>8 DEF u
    <2>3. IsQuotaAvailable <=> \A i \in DOMAIN list : InWindow(list[i]) => ~AtLimit(list[i])
      <3>1. IsQuotaAvailable <=> \A n \in DOMAIN GetCurrentUsages : ~AtLimit(GetCurrentUsages[n])
        BY DEF IsQuotaAvailable, Range
      <3>2. /\ \A n \in DOMAIN GetCurrentUsages : \E j \in DOMAIN list :
                  InWindow(list[j]) /\ GetCurrentUsages[n] = list[j]
            /\ \A j \in DOMAIN list : InWindow(list[j]) =>
                  \E n \in DOMAIN GetCurrentUsages : GetCurrentUsages[n] = list[j]
        BY <2>1, UsagesShown
      <3> QED BY <3>1, <3>2
    <2> QED BY <2>2, <2>3 DEF Range
  <1> QED BY <1>1, ExactHolds, PTL
=============================================================================
