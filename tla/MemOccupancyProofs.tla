------------------------- MODULE MemOccupancyProofs -------------------------
(***************************************************************************)
(* What the in-memory OccupancyStore keeps, and how much it may lose, for  *)
(* every finite set of goroutines and every limit.                         *)
(***************************************************************************)
EXTENDS MemOccupancy, FiniteSetTheorems, TLAPS

\* Decrements under way that still act on the counter in the map, or have not
\* fetched one yet: only these are reflected in the counter.
InMap == {c \in Owing : ref[c] \in {Nobody, key}}

LEMMA OwingFinite ==
    /\ IsFiniteSet(Owing) /\ IsFiniteSet(InMap) /\ IsFiniteSet(Holders)
    /\ Cardinality(Owing) \in Nat /\ Cardinality(InMap) \in Nat
    /\ Cardinality(Holders) \in Nat
    /\ Cardinality(InMap) <= Cardinality(Owing)
    /\ Cardinality(Holders) <= Cardinality(Owing)
<1>1. Owing \in SUBSET Callers /\ InMap \in SUBSET Owing /\ Holders \in SUBSET Owing
  BY DEF Owing, InMap, Holders
<1>2. IsFiniteSet(Owing)
  BY <1>1, CallersFinite, FS_Subset
<1>. QED
  BY <1>1, <1>2, FS_Subset, FS_CardinalityType

LEMMA OwingFiniteNext ==
    /\ IsFiniteSet(Owing') /\ IsFiniteSet(InMap') /\ IsFiniteSet(Holders')
    /\ Cardinality(Owing') \in Nat /\ Cardinality(InMap') \in Nat
    /\ Cardinality(Holders') \in Nat
    /\ Cardinality(InMap') <= Cardinality(Owing')
    /\ Cardinality(Holders') <= Cardinality(Owing')
<1>1. Owing' \in SUBSET Callers /\ InMap' \in SUBSET Owing' /\ Holders' \in SUBSET Owing'
  BY DEF Owing, InMap, Holders
<1>2. IsFiniteSet(Owing')
  BY <1>1, CallersFinite, FS_Subset
<1>. QED
  BY <1>1, <1>2, FS_Subset, FS_CardinalityType

-----------------------------------------------------------------------------
\* LoadOrStore always finds room for a new counter: fewer counters are in hands
\* than there are callers.
LEMMA SomeUnused ==
    ASSUME TypeOK, key = Nobody
    PROVE  Unused # {}
<1> DEFINE InHands == {ref[c] : c \in Callers}
<1> DEFINE n == Cardinality(Callers)
<1>1. n \in Nat
  BY CallersFinite, FS_CardinalityType
<1>2. IsFiniteSet(InHands) /\ Cardinality(InHands) <= n
  <2>1. ref \in Surjection(Callers, InHands)
    BY DEF Surjection, TypeOK
  <2>. QED
    BY <2>1, CallersFinite, FS_Surjection
<1>3. IsFiniteSet(Refs) /\ Cardinality(Refs) = n + 1
  <2>1. IsFiniteSet(1..(n + 1)) /\ Cardinality(1..(n + 1)) = n + 1
    BY <1>1, FS_Interval
  <2>. QED
    BY <2>1 DEF Refs
<1>4. SUFFICES ASSUME Unused = {} PROVE FALSE
  OBVIOUS
<1>5. Refs \subseteq InHands
  BY <1>4 DEF Unused, Nobody, Refs, TypeOK
<1>6. Cardinality(Refs) <= Cardinality(InHands)
  BY <1>5, <1>2, FS_Subset
<1>7. Cardinality(InHands) \in Nat
  BY <1>2, FS_CardinalityType
<1>. QED
  BY <1>1, <1>2, <1>3, <1>6, <1>7

\* A pointer fetched by LoadOrCreate is the one in the map, and the counters
\* that others hold keep their values.
LEMMA Fetched ==
    ASSUME TypeOK, NEW c \in Callers, NEW s, LoadOrCreate(c, s)
    PROVE  /\ key' \in Refs
           /\ ref' = [ref EXCEPT ![c] = key']
           /\ val' \in [Refs -> Nat]
           /\ Counted' = Counted
           /\ \A r \in Refs : ref[c] # r /\ key = r => key' = r
           /\ key # Nobody => key' = key
           /\ key = Nobody => \A d \in Callers : ref[d] # key'
<1>1. CASE key # Nobody
  BY <1>1 DEF LoadOrCreate, Counted, TypeOK
<1>2. CASE key = Nobody
  <2> DEFINE r == CHOOSE r \in Unused : TRUE
  <2>1. r \in Unused
    BY <1>2, SomeUnused
  <2>2. r \in Refs /\ r # Nobody /\ \A d \in Callers : ref[d] # r
    BY <2>1 DEF Unused, Refs, Nobody
  <2>3. key' = r /\ ref' = [ref EXCEPT ![c] = r] /\ val' = [val EXCEPT ![r] = 0]
    BY <1>2 DEF LoadOrCreate
  <2>4. Counted' = 0 /\ Counted = 0
    BY <1>2, <2>2, <2>3 DEF Counted, TypeOK
  <2>. HIDE DEF r
  <2>. QED
    BY <1>2, <2>2, <2>3, <2>4 DEF TypeOK, Nobody, Refs
<1>. QED
  BY <1>1, <1>2

-----------------------------------------------------------------------------
\* Type correctness: no goroutine keeps a pointer it is done with, and no
\* counter is ever swapped below zero.
THEOREM TypeCorrect == Spec => []TypeOK
<1>1. Init => TypeOK
  BY DEF Init, TypeOK, PcValues, Nobody
<1>2. TypeOK /\ [Next]_vars => TypeOK'
  <2> SUFFICES ASSUME TypeOK, [Next]_vars PROVE TypeOK'
    OBVIOUS
  <2>1. ASSUME NEW c \in Callers, IncrFetch(c) PROVE TypeOK'
    <3>1. LoadOrCreate(c, "add") /\ pc[c] = "idle"
      BY <2>1 DEF IncrFetch
    <3>2. key' \in Refs /\ ref' = [ref EXCEPT ![c] = key'] /\ val' \in [Refs -> Nat]
      BY <3>1, Fetched
    <3>. QED
      BY <3>1, <3>2 DEF LoadOrCreate, TypeOK, PcValues, Refs, Nobody
  <2>2. ASSUME NEW c \in Callers, DecrFetch(c) PROVE TypeOK'
    <3>1. LoadOrCreate(c, "load") /\ pc[c] \in {"held", "over"}
      BY <2>2 DEF DecrFetch
    <3>2. key' \in Refs /\ ref' = [ref EXCEPT ![c] = key'] /\ val' \in [Refs -> Nat]
      BY <3>1, Fetched
    <3>. QED
      BY <3>1, <3>2 DEF LoadOrCreate, TypeOK, PcValues, Refs, Nobody
  <2>3. ASSUME NEW c \in Callers, Add(c) PROVE TypeOK'
    BY <2>3 DEF Add, TypeOK, PcValues
  <2>4. ASSUME NEW c \in Callers, Load(c) PROVE TypeOK'
    <3>1. ref[c] \in Refs
      BY <2>4 DEF Load, TypeOK
    <3>. QED
      BY <2>4, <3>1 DEF Load, TypeOK, PcValues
  <2>5. ASSUME NEW c \in Callers, Swap(c) PROVE TypeOK'
    <3>1. ref[c] \in Refs /\ seen[c] \in Nat \ {0}
      BY <2>5 DEF Swap, TypeOK
    <3>. QED
      BY <2>5, <3>1 DEF Swap, TypeOK, PcValues
  <2>6. ASSUME NEW c \in Callers, Delete(c) PROVE TypeOK'
    <3>1. Counted \in Nat
      BY DEF Counted, TypeOK
    <3>. QED
      BY <2>6, <3>1 DEF Delete, TypeOK, PcValues
  <2>7. CASE UNCHANGED vars
    BY <2>7 DEF vars, TypeOK
  <2>. QED
    BY <2>1, <2>2, <2>3, <2>4, <2>5, <2>6, <2>7 DEF Next, Finished
<1>. QED
  BY <1>1, <1>2, PTL DEF Spec

-----------------------------------------------------------------------------
\* The inductive invariant: the counter in the map is at most what the
\* decrements that see it will take off, and it lacks at most what strayed.
Accounted == /\ Counted <= Cardinality(InMap)
             /\ Cardinality(Owing) <= Counted + stray
             /\ Cardinality(Holders) <= Limit + stray

\* A goroutine between IncrFetch and Add owes nothing yet.
LEMMA FetchKeeps ==
    ASSUME TypeOK, Accounted, NEW c \in Callers,
           IncrFetch(c) \/ DecrFetch(c)
    PROVE  Accounted'
<1>1. PICK s \in {"add", "load"} : LoadOrCreate(c, s) /\ (s = "add" <=> pc[c] = "idle")
  BY DEF IncrFetch, DecrFetch
<1>2. pc[c] \in {"idle", "held", "over"} /\ ref[c] = Nobody
  BY DEF IncrFetch, DecrFetch, TypeOK
<1>3. /\ ref' = [ref EXCEPT ![c] = key'] /\ Counted' = Counted
      /\ key # Nobody => key' = key
      /\ key' \in Refs
  BY <1>1, Fetched
<1>4. pc' = [pc EXCEPT ![c] = s] /\ stray' = stray
  BY <1>1 DEF LoadOrCreate
<1>5. Owing' = Owing
  BY <1>1, <1>2, <1>4 DEF Owing, DecrFetch, IncrFetch, TypeOK
<1>6. Holders' \subseteq Holders
  BY <1>1, <1>4 DEF Holders, TypeOK
<1>7. Cardinality(Holders') <= Cardinality(Holders)
  BY <1>6, OwingFinite, FS_Subset
<1>8. Counted <= Cardinality(InMap')
  <2>1. CASE key = Nobody
    BY <2>1, OwingFiniteNext DEF Counted
  <2>2. CASE key # Nobody
    <3>1. InMap' = InMap
      BY <2>2, <1>2, <1>3, <1>5 DEF InMap, TypeOK, Owing
    <3>. QED
      BY <3>1 DEF Accounted
  <2>. QED
    BY <2>1, <2>2
<1>. QED
  BY <1>3, <1>4, <1>5, <1>7, <1>8, OwingFinite, OwingFiniteNext, LimitIsNatural
     DEF Accounted, TypeOK

\* An addition is seen by the counter in the map, or it strays.
LEMMA AddKeeps ==
    ASSUME TypeOK, Accounted, NEW c \in Callers, Add(c)
    PROVE  Accounted'
<1>1. /\ pc[c] = "add" /\ ref[c] \in Refs
      /\ key' = key
      /\ val' = [val EXCEPT ![ref[c]] = @ + 1]
      /\ ref' = [ref EXCEPT ![c] = Nobody]
      /\ stray' = IF ref[c] = key THEN stray ELSE stray + 1
      /\ pc' = [pc EXCEPT ![c] = IF val[ref[c]] + 1 > Limit THEN "over" ELSE "held"]
  BY DEF Add, TypeOK
<1>2. Owing' = Owing \cup {c} /\ c \notin Owing
  BY <1>1 DEF Owing, TypeOK
<1>3. InMap' = InMap \cup {c} /\ c \notin InMap
  BY <1>1, <1>2 DEF InMap, TypeOK, Owing
<1>4. /\ Cardinality(Owing') = Cardinality(Owing) + 1
      /\ Cardinality(InMap') = Cardinality(InMap) + 1
  BY <1>2, <1>3, OwingFinite, FS_AddElement
<1>5. Counted' = (IF ref[c] = key THEN Counted + 1 ELSE Counted) /\ Counted \in Nat
  BY <1>1 DEF Counted, TypeOK, Nobody, Refs
<1>6. Cardinality(Holders') <= Limit + stray'
  <2>1. CASE ref[c] = key /\ val[ref[c]] + 1 <= Limit
    <3>1. Counted' <= Limit
      BY <1>1, <1>5, <2>1 DEF Counted, Nobody, Refs
    <3>. QED
      BY <3>1, <2>1, <1>1, <1>4, <1>5, OwingFinite, OwingFiniteNext, LimitIsNatural
         DEF Accounted, TypeOK
  <2>2. CASE ref[c] # key
    <3>1. Holders' \subseteq Holders \cup {c} /\ c \notin Holders
      BY <1>1 DEF Holders, TypeOK
    <3>2. IsFiniteSet(Holders \cup {c}) /\ Cardinality(Holders \cup {c}) = Cardinality(Holders) + 1
      BY <3>1, OwingFinite, FS_AddElement
    <3>3. Cardinality(Holders') <= Cardinality(Holders) + 1
      BY <3>1, <3>2, FS_Subset
    <3>. QED
      BY <3>3, <2>2, <1>1, OwingFinite, OwingFiniteNext, LimitIsNatural
         DEF Accounted, TypeOK
  <2>3. CASE val[ref[c]] + 1 > Limit
    <3>1. Holders' = Holders
      BY <2>3, <1>1 DEF Holders, TypeOK
    <3>. QED
      BY <3>1, <1>1, OwingFinite, LimitIsNatural DEF Accounted, TypeOK
  <2>4. val[ref[c]] + 1 <= Limit \/ val[ref[c]] + 1 > Limit
    BY <1>1, LimitIsNatural DEF TypeOK
  <2>. QED
    BY <2>1, <2>2, <2>3, <2>4
<1>. QED
  BY <1>1, <1>4, <1>5, <1>6, OwingFinite DEF Accounted, TypeOK

\* A goroutine that has finished its decrement: c stops owing, and the map's
\* counter is one less if c's pointer was the one in the map and not at zero.
LEMMA DecrementKeeps ==
    ASSUME TypeOK, Accounted, NEW c \in Callers,
           pc[c] \in {"load", "swap"},
           NEW s \in {"idle", "delete"},
           pc' = [pc EXCEPT ![c] = s], ref' = [ref EXCEPT ![c] = Nobody],
           key' = key, stray' = stray,
           Counted' = IF ref[c] = key /\ Counted > 0 THEN Counted - 1 ELSE Counted
    PROVE  Accounted'
<1>1. Owing' = Owing \ {c} /\ c \in Owing /\ Holders' = Holders
  BY DEF Owing, Holders, TypeOK
<1>2. Cardinality(Owing') = Cardinality(Owing) - 1
  BY <1>1, OwingFinite, FS_RemoveElement
<1>3. Counted \in Nat
  BY DEF Counted, TypeOK
<1>4. CASE ref[c] = key
  <2>1. InMap' = InMap \ {c} /\ c \in InMap
    BY <1>1, <1>4 DEF InMap, TypeOK, Owing
  <2>2. Cardinality(InMap') = Cardinality(InMap) - 1
    BY <2>1, OwingFinite, FS_RemoveElement
  <2>3. Cardinality(InMap') \in Nat
    BY OwingFiniteNext
  <2>. QED
    BY <1>1, <1>2, <1>3, <1>4, <2>2, <2>3, OwingFinite, LimitIsNatural
       DEF Accounted, TypeOK
<1>5. CASE ref[c] # key
  <2>1. InMap' = InMap
    BY <1>1, <1>5 DEF InMap, TypeOK, Owing
  <2>. QED
    BY <1>1, <1>2, <1>3, <1>5, <2>1, OwingFinite, LimitIsNatural DEF Accounted, TypeOK
<1>. QED
  BY <1>4, <1>5

LEMMA AccountedStep ==
    ASSUME TypeOK, Accounted, [Next]_vars
    PROVE  Accounted'
<1>1. ASSUME NEW c \in Callers, IncrFetch(c) \/ DecrFetch(c) PROVE Accounted'
  BY <1>1, FetchKeeps
<1>2. ASSUME NEW c \in Callers, Add(c) PROVE Accounted'
  BY <1>2, AddKeeps
<1>3. ASSUME NEW c \in Callers, Load(c) PROVE Accounted'
  <2>1. pc[c] = "load" /\ ref[c] \in Refs /\ UNCHANGED <<key, val, stray>>
    BY <1>3 DEF Load, TypeOK
  <2>2. CASE val[ref[c]] = 0
    <3>1. ~(ref[c] = key /\ Counted > 0) /\ Counted' = Counted
      BY <2>1, <2>2 DEF Counted
    <3>. QED
      BY <1>3, <2>1, <2>2, <3>1, DecrementKeeps DEF Load
  <2>3. CASE val[ref[c]] # 0
    <3>1. pc' = [pc EXCEPT ![c] = "swap"] /\ ref' = ref
      BY <1>3, <2>3 DEF Load
    <3>2. Owing' = Owing /\ Holders' = Holders /\ Counted' = Counted
      BY <2>1, <3>1 DEF Owing, Holders, Counted, TypeOK
    <3>3. InMap' = InMap
      BY <2>1, <3>1, <3>2 DEF InMap
    <3>. QED
      BY <2>1, <3>2, <3>3 DEF Accounted
  <2>. QED
    BY <2>2, <2>3
<1>4. ASSUME NEW c \in Callers, Swap(c) PROVE Accounted'
  <2>1. /\ pc[c] = "swap" /\ ref[c] \in Refs /\ seen[c] \in Nat \ {0}
        /\ key' = key /\ stray' = stray
    BY <1>4 DEF Swap, TypeOK
  <2>2. CASE val[ref[c]] = seen[c]
    <3>1. /\ val' = [val EXCEPT ![ref[c]] = @ - 1]
          /\ ref' = [ref EXCEPT ![c] = Nobody]
          /\ pc' = [pc EXCEPT ![c] = IF seen[c] = 1 THEN "delete" ELSE "idle"]
      BY <1>4, <2>2 DEF Swap
    <3>2. Counted' = IF ref[c] = key /\ Counted > 0 THEN Counted - 1 ELSE Counted
      BY <2>1, <2>2, <3>1 DEF Counted, TypeOK, Nobody, Refs
    <3>3. PICK s \in {"idle", "delete"} : pc' = [pc EXCEPT ![c] = s]
      BY <3>1
    <3>. QED
      BY <2>1, <3>1, <3>2, <3>3, DecrementKeeps
  <2>3. CASE val[ref[c]] # seen[c]
    <3>1. pc' = [pc EXCEPT ![c] = "load"] /\ val' = val /\ ref' = ref
      BY <1>4, <2>3 DEF Swap
    <3>2. Owing' = Owing /\ Holders' = Holders /\ Counted' = Counted
      BY <2>1, <3>1 DEF Owing, Holders, Counted, TypeOK
    <3>3. InMap' = InMap
      BY <2>1, <3>1, <3>2 DEF InMap
    <3>. QED
      BY <2>1, <3>2, <3>3 DEF Accounted
  <2>. QED
    BY <2>2, <2>3
<1>5. ASSUME NEW c \in Callers, Delete(c) PROVE Accounted'
  <2>1. /\ pc[c] = "delete" /\ key' = Nobody /\ stray' = stray + Counted
        /\ pc' = [pc EXCEPT ![c] = "idle"] /\ UNCHANGED <<val, ref>>
    BY <1>5 DEF Delete
  <2>2. Owing' = Owing /\ Holders' = Holders
    BY <2>1 DEF Owing, Holders, TypeOK
  <2>3. Counted' = 0 /\ Counted \in Nat
    BY <2>1 DEF Counted, TypeOK
  <2>. QED
    BY <2>1, <2>2, <2>3, OwingFinite, OwingFiniteNext, LimitIsNatural
       DEF Accounted, TypeOK
<1>6. CASE UNCHANGED vars
  BY <1>6 DEF vars, Accounted, Counted, InMap, Owing, Holders
<1>. QED
  BY <1>1, <1>2, <1>3, <1>4, <1>5, <1>6 DEF Next, Finished

LEMMA AccountedInvariant == Spec => [](TypeOK /\ Accounted)
<1>1. Init => Accounted
  <2>1. ASSUME Init
        PROVE  Owing = {} /\ InMap = {} /\ Holders = {} /\ Counted = 0 /\ stray = 0
    BY <2>1 DEF Init, Owing, InMap, Holders, Counted
  <2>. QED
    BY <2>1, FS_EmptySet, LimitIsNatural DEF Accounted
<1>2. Accounted /\ TypeOK /\ [Next]_vars => Accounted'
  BY AccountedStep
<1>. QED
  BY <1>1, <1>2, TypeCorrect, PTL DEF Spec

\* No phantom slots: Delete and the orphaned counters never make the store count
\* a slot that nobody owes.
THEOREM NeverPhantoms == Spec => []NoPhantoms
<1>1. TypeOK /\ Accounted => NoPhantoms
  <2>1. Counted \in Nat \/ ~TypeOK
    BY DEF Counted, TypeOK
  <2>. QED
    BY <2>1, OwingFinite DEF Accounted, NoPhantoms
<1>. QED
  BY <1>1, AccountedInvariant, PTL

\* The store forgets no more slots than strayed, so the limit of FixedLimit is
\* exceeded by no more than that.
THEOREM ForgetsNoMore == Spec => [](ForgetsOnlyStrays /\ ExcessBounded)
<1>1. Accounted => ForgetsOnlyStrays /\ ExcessBounded
  BY DEF Accounted, ForgetsOnlyStrays, ExcessBounded
<1>. QED
  BY <1>1, AccountedInvariant, PTL
=============================================================================
