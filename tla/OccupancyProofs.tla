--------------------------- MODULE OccupancyProofs ---------------------------
(***************************************************************************)
(* The safety of the counting protocol of Occupancy for every finite set   *)
(* of callers, every set of accounts, every set of limits and any number   *)
(* of failures.                                                            *)
(***************************************************************************)
EXTENDS Occupancy, FiniteSetTheorems, TLAPS

\* The claims on an account form a finite set, and the holders are some of them.
LEMMA ClaimsFinite ==
    ASSUME NEW a
    PROVE  /\ IsFiniteSet(Claims(a))
           /\ Cardinality(Claims(a)) \in Nat
           /\ IsFiniteSet(Holders(a))
           /\ Cardinality(Holders(a)) \in Nat
           /\ Cardinality(Holders(a)) <= Cardinality(Claims(a))
<1>1. Claims(a) \in SUBSET Callers /\ Holders(a) \in SUBSET Claims(a)
  BY DEF Claims, Holders
<1>2. IsFiniteSet(Claims(a))
  BY <1>1, CallersFinite, FS_Subset
<1>3. IsFiniteSet(Holders(a)) /\ Cardinality(Holders(a)) <= Cardinality(Claims(a))
  BY <1>1, <1>2, FS_Subset
<1>. QED
  BY <1>2, <1>3, FS_CardinalityType

\* The same for the claims after a step.
LEMMA ClaimsFiniteNext ==
    ASSUME NEW a
    PROVE  /\ IsFiniteSet(Claims(a)')
           /\ Cardinality(Claims(a)') \in Nat
           /\ IsFiniteSet(Holders(a)')
           /\ Cardinality(Holders(a)') \in Nat
           /\ Cardinality(Holders(a)') <= Cardinality(Claims(a)')
<1>1. Claims(a)' \in SUBSET Callers /\ Holders(a)' \in SUBSET Claims(a)'
  BY DEF Claims, Holders
<1>2. IsFiniteSet(Claims(a)')
  BY <1>1, CallersFinite, FS_Subset
<1>3. IsFiniteSet(Holders(a)') /\ Cardinality(Holders(a)') <= Cardinality(Claims(a)')
  BY <1>1, <1>2, FS_Subset
<1>. QED
  BY <1>2, <1>3, FS_CardinalityType

-----------------------------------------------------------------------------
\* How each kind of step moves a caller in or out of the claims of an account.

LEMMA ClaimEnters ==
    ASSUME TypeOK, NEW c \in Callers, NEW a \in Accounts, NEW b \in Accounts,
           pc[c] = "idle",
           NEW s \in {"over", "held"},
           pc' = [pc EXCEPT ![c] = s],
           acct' = [acct EXCEPT ![c] = a]
    PROVE  Cardinality(Claims(b)') =
              IF b = a THEN Cardinality(Claims(b)) + 1 ELSE Cardinality(Claims(b))
<1>1. c \notin Claims(b)
  BY DEF Claims
<1>2. CASE b = a
  <2>1. Claims(b)' = Claims(b) \cup {c}
    BY <1>2 DEF Claims, TypeOK
  <2>. QED
    BY <2>1, <1>1, <1>2, ClaimsFinite, FS_AddElement
<1>3. CASE b # a
  <2>1. Claims(b)' = Claims(b)
    BY <1>1, <1>3 DEF Claims, TypeOK
  <2>. QED
    BY <2>1, <1>3
<1>. QED
  BY <1>2, <1>3

LEMMA ClaimLeaves ==
    ASSUME TypeOK, NEW c \in Callers, NEW b \in Accounts,
           pc[c] \in {"over", "held"},
           pc' = [pc EXCEPT ![c] = "idle"],
           acct' = [acct EXCEPT ![c] = NoAccount]
    PROVE  /\ acct[c] \in Accounts
           /\ Cardinality(Claims(b)') =
                IF b = acct[c] THEN Cardinality(Claims(b)) - 1
                               ELSE Cardinality(Claims(b))
           /\ b = acct[c] => Cardinality(Claims(b)) > 0
<1>1. acct[c] \in Accounts
  BY DEF TypeOK
<1>2. CASE b = acct[c]
  <2>1. Claims(b)' = Claims(b) \ {c} /\ c \in Claims(b)
    BY <1>2, NoAccountFresh DEF Claims, TypeOK
  <2>2. Cardinality(Claims(b)') = Cardinality(Claims(b)) - 1
    BY <2>1, ClaimsFinite, FS_RemoveElement
  <2>3. Cardinality(Claims(b)) # 0
    BY <2>1, ClaimsFinite, FS_EmptySet
  <2>. QED
    BY <1>1, <1>2, <2>2, <2>3, ClaimsFinite
<1>3. CASE b # acct[c]
  <2>1. Claims(b)' = Claims(b)
    BY <1>3, NoAccountFresh DEF Claims, TypeOK
  <2>. QED
    BY <1>1, <1>3, <2>1
<1>. QED
  BY <1>2, <1>3

-----------------------------------------------------------------------------
\* Type correctness: the counters stay natural and a caller names an account
\* exactly while it owes a decrement.
THEOREM TypeCorrect == Spec => []TypeOK
<1>1. Init => TypeOK
  BY LimitsNatural DEF Init, TypeOK, PcValues
<1>2. TypeOK /\ [Next]_vars => TypeOK'
  <2> SUFFICES ASSUME TypeOK, [Next]_vars PROVE TypeOK'
    OBVIOUS
  <2> USE LimitsNatural, NoAccountFresh DEF TypeOK, PcValues
  <2>1. ASSUME NEW a \in Accounts, NEW l \in LimitValues, RaiseLimit(a, l)
        PROVE  TypeOK'
    BY <2>1 DEF RaiseLimit
  <2>2. ASSUME NEW c \in Callers, NEW a \in Accounts, NEW l \in LimitValues, Acquire(c, a, l)
        PROVE  TypeOK'
    BY <2>2 DEF Acquire
  <2>3. ASSUME NEW c \in Callers, NEW a \in Accounts, NEW l \in LimitValues, Overshoot(c, a, l)
        PROVE  TypeOK'
    BY <2>3 DEF Overshoot
  <2>4. ASSUME NEW c \in Callers, NEW a \in Accounts, IncrReplyLost(c, a)
        PROVE  TypeOK'
    BY <2>4, FaultsNatural DEF IncrReplyLost
  <2>5. ASSUME NEW c \in Callers, Undo(c) PROVE TypeOK'
    BY <2>5 DEF Undo, Minus1
  <2>6. ASSUME NEW c \in Callers, Release(c) PROVE TypeOK'
    BY <2>6 DEF Release, Minus1
  <2>7. ASSUME NEW c \in Callers, NeverReturned(c) PROVE TypeOK'
    BY <2>7, FaultsNatural DEF NeverReturned
  <2>8. CASE UNCHANGED vars
    BY <2>8 DEF vars
  <2>. QED
    BY <2>1, <2>2, <2>3, <2>4, <2>5, <2>6, <2>7, <2>8 DEF Next
<1>. QED
  BY <1>1, <1>2, PTL DEF Spec

-----------------------------------------------------------------------------
\* Each step keeps the counters exact; one lemma, cited by the two theorems.
LEMMA CountersExactStep ==
    ASSUME TypeOK, CountersExact, [Next]_vars
    PROVE  CountersExact'
<1> SUFFICES ASSUME NEW b \in Accounts
             PROVE  occ'[b] = Cardinality(Claims(b)') + lost'[b]
  BY DEF CountersExact
<1>0. /\ occ[b] = Cardinality(Claims(b)) + lost[b]
      /\ occ \in [Accounts -> Nat] /\ lost \in [Accounts -> Nat]
      /\ Cardinality(Claims(b)) \in Nat
  BY ClaimsFinite DEF CountersExact, TypeOK
<1>1. ASSUME NEW a \in Accounts, NEW l \in LimitValues, RaiseLimit(a, l)
      PROVE  occ'[b] = Cardinality(Claims(b)') + lost'[b]
  BY <1>0, <1>1 DEF RaiseLimit, Claims
<1>2. ASSUME NEW c \in Callers, NEW a \in Accounts, NEW l \in LimitValues,
             Acquire(c, a, l) \/ Overshoot(c, a, l)
      PROVE  occ'[b] = Cardinality(Claims(b)') + lost'[b]
  <2>1. PICK s \in {"over", "held"} : pc' = [pc EXCEPT ![c] = s]
    BY <1>2 DEF Acquire, Overshoot
  <2>2. /\ pc[c] = "idle" /\ acct' = [acct EXCEPT ![c] = a]
        /\ occ' = [occ EXCEPT ![a] = @ + 1] /\ lost' = lost
    BY <1>2 DEF Acquire, Overshoot
  <2>3. Cardinality(Claims(b)') =
          IF b = a THEN Cardinality(Claims(b)) + 1 ELSE Cardinality(Claims(b))
    BY <2>1, <2>2, ClaimEnters
  <2>. QED
    BY <1>0, <2>2, <2>3
<1>3. ASSUME NEW c \in Callers, NEW a \in Accounts, IncrReplyLost(c, a)
      PROVE  occ'[b] = Cardinality(Claims(b)') + lost'[b]
  <2>1. Claims(b)' = Claims(b)
    BY <1>3 DEF IncrReplyLost, Claims
  <2>. QED
    BY <1>0, <1>3, <2>1 DEF IncrReplyLost
<1>4. ASSUME NEW c \in Callers, Undo(c) \/ Release(c)
      PROVE  occ'[b] = Cardinality(Claims(b)') + lost'[b]
  <2>1. /\ pc[c] \in {"over", "held"} /\ pc' = [pc EXCEPT ![c] = "idle"]
        /\ acct' = [acct EXCEPT ![c] = NoAccount]
        /\ occ' = [occ EXCEPT ![acct[c]] = Minus1(@)] /\ lost' = lost
    BY <1>4 DEF Undo, Release
  <2>2. /\ acct[c] \in Accounts
        /\ Cardinality(Claims(b)') =
              IF b = acct[c] THEN Cardinality(Claims(b)) - 1
                             ELSE Cardinality(Claims(b))
        /\ b = acct[c] => Cardinality(Claims(b)) > 0
    BY <2>1, ClaimLeaves
  <2>. QED
    BY <1>0, <2>1, <2>2 DEF Minus1
<1>5. ASSUME NEW c \in Callers, NeverReturned(c)
      PROVE  occ'[b] = Cardinality(Claims(b)') + lost'[b]
  <2>1. /\ pc[c] \in {"over", "held"} /\ pc' = [pc EXCEPT ![c] = "idle"]
        /\ acct' = [acct EXCEPT ![c] = NoAccount]
        /\ lost' = [lost EXCEPT ![acct[c]] = @ + 1] /\ occ' = occ
    BY <1>5 DEF NeverReturned
  <2>2. /\ acct[c] \in Accounts
        /\ Cardinality(Claims(b)') =
              IF b = acct[c] THEN Cardinality(Claims(b)) - 1
                             ELSE Cardinality(Claims(b))
    BY <2>1, ClaimLeaves
  <2>. QED
    BY <1>0, <2>1, <2>2
<1>6. CASE UNCHANGED vars
  BY <1>0, <1>6 DEF vars, Claims
<1>. QED
  BY <1>1, <1>2, <1>3, <1>4, <1>5, <1>6 DEF Next

\* The store's counter is exactly what is claimed plus what failures lost.
THEOREM CountersAlwaysExact == Spec => []CountersExact
<1>1. Init => CountersExact
  <2> SUFFICES ASSUME Init, NEW a \in Accounts
               PROVE  occ[a] = Cardinality(Claims(a)) + lost[a]
    BY DEF CountersExact
  <2>1. Claims(a) = {}
    BY DEF Init, Claims
  <2>. QED
    BY <2>1, FS_EmptySet DEF Init
<1>2. TypeOK /\ CountersExact /\ [Next]_vars => CountersExact'
  BY CountersExactStep
<1>. QED
  BY <1>1, <1>2, TypeCorrect, PTL DEF Spec
-----------------------------------------------------------------------------
\* The holders of an account are among its claims, so an exact counter bounds
\* them: this is why comparing IncrOccupancy's result with the limit is enough.
LEMMA CounterBoundsHolders ==
    ASSUME TypeOK, CountersExact, NEW a \in Accounts
    PROVE  Cardinality(Holders(a)) <= occ[a]
BY ClaimsFinite DEF TypeOK, CountersExact

\* No race between FilterAvailable, Acquire and Release, and no failure, puts an
\* account in more hands than its largest limit.
THEOREM HoldersAlwaysWithinLimit == Spec => []HoldersWithinLimit
<1>1. Init => HoldersWithinLimit
  <2> SUFFICES ASSUME Init, NEW a \in Accounts
               PROVE  Cardinality(Holders(a)) <= peak[a]
    BY DEF HoldersWithinLimit
  <2>1. Cardinality(Holders(a)) = 0
    <3>1. Holders(a) = {}
      BY DEF Init, Holders
    <3>. QED
      BY <3>1, FS_EmptySet
  <2>2. peak[a] \in Nat
    BY LimitsNatural DEF Init
  <2>. QED
    BY <2>1, <2>2
<1>2. ASSUME TypeOK, TypeOK', CountersExact, CountersExact', HoldersWithinLimit,
             [Next]_vars
      PROVE  HoldersWithinLimit'
  <2> SUFFICES ASSUME NEW b \in Accounts
               PROVE  Cardinality(Holders(b)') <= peak'[b]
    BY DEF HoldersWithinLimit
  <2>0. /\ Cardinality(Holders(b)) <= peak[b] /\ peak[b] \in Nat /\ peak'[b] \in Nat
        /\ Cardinality(Holders(b)) \in Nat /\ Cardinality(Holders(b)') \in Nat
        /\ occ[b] \in Nat /\ occ'[b] \in Nat
    BY <1>2, LimitsNatural, ClaimsFinite, ClaimsFiniteNext DEF HoldersWithinLimit, TypeOK
  <2>1. ASSUME NEW a \in Accounts, NEW l \in LimitValues, RaiseLimit(a, l)
        PROVE  Cardinality(Holders(b)') <= peak'[b]
    <3>1. Holders(b)' = Holders(b) /\ peak[b] <= peak'[b]
      BY <1>2, <2>0, <2>1, LimitsNatural DEF RaiseLimit, Holders, TypeOK
    <3>. QED
      BY <2>0, <3>1
  <2>2. ASSUME NEW c \in Callers, NEW a \in Accounts, NEW l \in LimitValues,
               l <= peak[a], Acquire(c, a, l)
        PROVE  Cardinality(Holders(b)') <= peak'[b]
    <3>1. CASE b = a
      <4>1. occ'[b] <= peak'[b]
        <5>1. occ'[b] = occ[b] + 1 /\ occ[b] + 1 <= l /\ peak'[b] = peak[b]
          BY <1>2, <2>2, <3>1 DEF Acquire, TypeOK
        <5>2. l \in Nat /\ l <= peak[b]
          BY <2>2, <3>1, LimitsNatural
        <5>. QED
          BY <2>0, <5>1, <5>2
      <4>2. Cardinality(Holders(b)') <= occ'[b]
        BY <1>2, ClaimsFiniteNext DEF TypeOK, CountersExact
      <4>. QED
        BY <2>0, <4>1, <4>2
    <3>2. CASE b # a
      <4>1. Holders(b)' = Holders(b)
        <5>1. pc[c] = "idle" /\ pc' = [pc EXCEPT ![c] = "held"]
              /\ acct' = [acct EXCEPT ![c] = a]
          BY <2>2 DEF Acquire
        <5>2. pc \in [Callers -> PcValues] /\ DOMAIN acct = Callers
          BY <1>2 DEF TypeOK
        <5>. QED
          BY <3>2, <5>1, <5>2 DEF Holders
      <4>. QED
        BY <2>0, <2>2, <4>1 DEF Acquire
    <3>. QED
      BY <3>1, <3>2
  <2>3. ASSUME peak' = peak, Holders(b)' \subseteq Holders(b)
        PROVE  Cardinality(Holders(b)') <= peak'[b]
    BY <2>0, <2>3, ClaimsFinite, ClaimsFiniteNext, FS_Subset
  <2>4. ASSUME NEW c \in Callers, NEW a \in Accounts, NEW l \in LimitValues, Overshoot(c, a, l)
        PROVE  peak' = peak /\ Holders(b)' \subseteq Holders(b)
    BY <1>2, <2>4 DEF Overshoot, Holders, TypeOK
  <2>5. ASSUME NEW c \in Callers, NEW a \in Accounts, IncrReplyLost(c, a)
        PROVE  peak' = peak /\ Holders(b)' \subseteq Holders(b)
    BY <2>5 DEF IncrReplyLost, Holders
  <2>6. ASSUME NEW c \in Callers, Undo(c) \/ Release(c) \/ NeverReturned(c)
        PROVE  peak' = peak /\ Holders(b)' \subseteq Holders(b)
    BY <1>2, <2>6 DEF Undo, Release, NeverReturned, Holders, TypeOK
  <2>7. CASE UNCHANGED vars
    BY <2>3, <2>7 DEF vars, Holders
  <2>. QED
    BY <1>2, <2>1, <2>2, <2>3, <2>4, <2>5, <2>6, <2>7 DEF Next
<1>. QED
  BY <1>1, <1>2, TypeCorrect, CountersAlwaysExact, PTL DEF Spec

-----------------------------------------------------------------------------
\* The counting protocol implements the slot pool.  Acquire is Take, Release and
\* a dead caller are Give, a higher limit is Raise, and the rest is invisible.
LEMMA PoolInit == Init => Pool!Init
<1> SUFFICES ASSUME Init PROVE Pool!Init
  OBVIOUS
<1>1. HeldBy = [c \in Callers |-> NoAccount]
  BY DEF Init, HeldBy
<1>2. peak \in [Accounts -> Nat]
  BY LimitsNatural DEF Init
<1>. QED
  BY <1>1, <1>2 DEF Pool!Init

\* SlotPool counts with its own instance of FiniteSets.
LEMMA SameCardinality == \A S : Pool!Cardinality(S) = Cardinality(S)
BY DEF Pool!Cardinality, Cardinality

LEMMA PoolStep ==
    ASSUME TypeOK, CountersExact, [Next]_vars
    PROVE  [Pool!Next]_Pool!poolVars
<1>0. \A a \in Accounts : Pool!Holders(a) = Holders(a)
  BY NoAccountFresh DEF Pool!Holders, HeldBy, Holders, TypeOK
<1>1. ASSUME NEW a \in Accounts, NEW l \in LimitValues, RaiseLimit(a, l)
      PROVE  Pool!Next
  <2>1. HeldBy' = HeldBy
    BY <1>1 DEF RaiseLimit, HeldBy
  <2>2. Pool!Raise(a)
    BY <1>1, <2>1, LimitsNatural DEF RaiseLimit, Pool!Raise, TypeOK
  <2>. QED
    BY <2>2 DEF Pool!Next
<1>2. ASSUME NEW c \in Callers, NEW a \in Accounts, NEW l \in LimitValues,
             l <= peak[a], Acquire(c, a, l)
      PROVE  Pool!Next
  <2>1. HeldBy[c] = NoAccount
    BY <1>2 DEF Acquire, HeldBy
  <2>2. HeldBy' = [HeldBy EXCEPT ![c] = a]
    BY <1>2 DEF Acquire, HeldBy, TypeOK
  <2>3. Cardinality(Holders(a)) < peak[a]
    <3>1. /\ occ[a] \in Nat /\ occ[a] + 1 <= l /\ l \in Nat /\ peak[a] \in Nat
          /\ Cardinality(Holders(a)) \in Nat
      BY <1>2, LimitsNatural, ClaimsFinite DEF Acquire, TypeOK
    <3>. QED
      BY <1>2, <3>1, CounterBoundsHolders
  <2>4. Pool!Take(c, a)
    BY <1>0, <1>2, <2>1, <2>2, <2>3, SameCardinality DEF Pool!Take, Acquire
  <2>. QED
    BY <2>4 DEF Pool!Next
<1>3. ASSUME NEW c \in Callers, NEW a \in Accounts, NEW l \in LimitValues, Overshoot(c, a, l)
      PROVE  UNCHANGED Pool!poolVars
  <2>1. HeldBy' = HeldBy
    BY <1>3 DEF Overshoot, HeldBy, TypeOK
  <2>. QED
    BY <1>3, <2>1 DEF Overshoot, Pool!poolVars
<1>4. ASSUME NEW c \in Callers, NEW a \in Accounts, IncrReplyLost(c, a)
      PROVE  UNCHANGED Pool!poolVars
  BY <1>4 DEF IncrReplyLost, Pool!poolVars, HeldBy
<1>5. ASSUME NEW c \in Callers, pc[c] = "over", peak' = peak,
             pc' = [pc EXCEPT ![c] = "idle"],
             acct' = [acct EXCEPT ![c] = NoAccount]
      PROVE  UNCHANGED Pool!poolVars
  <2>1. HeldBy' = HeldBy
    BY <1>5 DEF HeldBy, TypeOK
  <2>. QED
    BY <1>5, <2>1 DEF Pool!poolVars
<1>6. ASSUME NEW c \in Callers, pc[c] = "held", peak' = peak,
             pc' = [pc EXCEPT ![c] = "idle"],
             acct' = [acct EXCEPT ![c] = NoAccount]
      PROVE  Pool!Next
  <2>1. HeldBy' = [HeldBy EXCEPT ![c] = NoAccount] /\ HeldBy[c] # NoAccount
    BY <1>6 DEF HeldBy, TypeOK
  <2>2. Pool!Give(c)
    BY <1>6, <2>1 DEF Pool!Give
  <2>. QED
    BY <2>2 DEF Pool!Next
<1>7. CASE UNCHANGED vars
  BY <1>7 DEF vars, Pool!poolVars, HeldBy
<1>8. ASSUME NEW c \in Callers, Undo(c)
      PROVE  UNCHANGED Pool!poolVars
  BY <1>5, <1>8 DEF Undo
<1>9. ASSUME NEW c \in Callers, Release(c)
      PROVE  Pool!Next
  BY <1>6, <1>9 DEF Release
<1>10. ASSUME NEW c \in Callers, NeverReturned(c)
       PROVE  [Pool!Next]_Pool!poolVars
  BY <1>5, <1>6, <1>10 DEF NeverReturned
<1>. QED
  BY <1>1, <1>2, <1>3, <1>4, <1>7, <1>8, <1>9, <1>10 DEF Next

THEOREM ImplementsSlotPool == Spec => PoolSpec
<1>1. Spec => []TypeOK /\ []CountersExact
  BY TypeCorrect, CountersAlwaysExact
<1>. QED
  BY <1>1, PoolInit, PoolStep, PTL DEF Spec, PoolSpec, Pool!Spec
=============================================================================
