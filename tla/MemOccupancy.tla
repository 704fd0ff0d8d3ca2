---------------------------- MODULE MemOccupancy ----------------------------
(***************************************************************************)
(* The in-memory OccupancyStore under FixedLimit, for one account, at the  *)
(* grain of its atomic instructions.  A sync.Map holds a pointer to the    *)
(* account's counter; IncrOccupancy fetches the pointer and then adds;     *)
(* DecrOccupancy fetches the pointer, runs a compare-and-swap loop, and    *)
(* deletes the map entry after it has brought the counter to zero.  A      *)
(* pointer outlives its map entry in the hands of whoever fetched it.      *)
(*                                                                         *)
(*   idle -> add -> held, or over when the sum is above the limit          *)
(*   held, over -> load -> swap -> idle, or delete when zero was reached   *)
(***************************************************************************)
EXTENDS Naturals, FiniteSets

CONSTANTS Callers,
          Limit,       \* FixedLimit.getLimit of the account
          MaxStray     \* bound: no Acquire begins once stray has reached it

ASSUME CallersFinite == IsFiniteSet(Callers)
ASSUME LimitIsNatural == Limit \in Nat

VARIABLES key,     \* the counter the map points to, or Nobody
          val,     \* val[r]: value of counter r
          pc, ref, \* where goroutine c stands, and the counter it has fetched
          seen,    \* the value its compare-and-swap expects
          stray    \* history: units that went to counters out of the map

vars == <<key, val, pc, ref, seen, stray>>

\* A counter in nobody's hands is garbage, so one more than callers is enough.
Nobody == 0
Refs == 1..(Cardinality(Callers) + 1)

PcValues == {"idle", "add", "over", "held", "load", "swap", "delete"}

Holders == {c \in Callers : pc[c] = "held"}

\* Goroutines that have added one and not yet taken it back.
Owing == {c \in Callers : pc[c] \in {"held", "over", "load", "swap"}}

Counted == IF key = Nobody THEN 0 ELSE val[key]

-----------------------------------------------------------------------------
Init == /\ key = Nobody
        /\ val = [r \in Refs |-> 0]
        /\ pc = [c \in Callers |-> "idle"]
        /\ ref = [c \in Callers |-> Nobody]
        /\ seen = [c \in Callers |-> 0]
        /\ stray = 0

Unused == {r \in Refs : r # key /\ \A c \in Callers : ref[c] # r}

\* The pointer in the map, or that of a new counter which LoadOrStore puts there.
LoadOrCreate(c, next) ==
    /\ IF key # Nobody
       THEN ref' = [ref EXCEPT ![c] = key] /\ UNCHANGED <<key, val>>
       ELSE LET r == CHOOSE r \in Unused : TRUE
            IN  /\ key' = r
                /\ ref' = [ref EXCEPT ![c] = r]
                /\ val' = [val EXCEPT ![r] = 0]
    /\ pc' = [pc EXCEPT ![c] = next]
    /\ UNCHANGED <<seen, stray>>

IncrFetch(c) == pc[c] = "idle" /\ stray < MaxStray /\ LoadOrCreate(c, "add")

\* Mutant of Add: the limit is not looked at.
KeepsRefused(c) == /\ pc[c] = "add"
                   /\ val' = [val EXCEPT ![ref[c]] = @ + 1]
                   /\ pc' = [pc EXCEPT ![c] = "held"]
                   /\ ref' = [ref EXCEPT ![c] = Nobody]
                   /\ stray' = IF ref[c] = key THEN stray ELSE stray + 1
                   /\ UNCHANGED <<key, seen>>

\* counter.Add(1) and the comparison with the limit.
Add(c) == /\ pc[c] = "add"
          /\ val' = [val EXCEPT ![ref[c]] = @ + 1]
          /\ pc' = [pc EXCEPT ![c] = IF val[ref[c]] + 1 > Limit THEN "over" ELSE "held"]
          /\ ref' = [ref EXCEPT ![c] = Nobody]
          /\ stray' = IF ref[c] = key THEN stray ELSE stray + 1
          /\ UNCHANGED <<key, seen>>

\* Release, or the decrement of a refused Acquire.
DecrFetch(c) == pc[c] \in {"held", "over"} /\ LoadOrCreate(c, "load")

\* Mutant of Load: no early return at zero.
LoadsZeroToo(c) == /\ pc[c] = "load"
                   /\ pc' = [pc EXCEPT ![c] = "swap"]
                   /\ seen' = [seen EXCEPT ![c] = val[ref[c]]]
                   /\ UNCHANGED <<key, val, ref, stray>>

\* counter.Load(): a counter at zero is left alone.
Load(c) == /\ pc[c] = "load"
           /\ IF val[ref[c]] = 0
              THEN /\ pc' = [pc EXCEPT ![c] = "idle"]
                   /\ ref' = [ref EXCEPT ![c] = Nobody]
                   /\ UNCHANGED seen
              ELSE /\ pc' = [pc EXCEPT ![c] = "swap"]
                   /\ seen' = [seen EXCEPT ![c] = val[ref[c]]]
                   /\ UNCHANGED ref
           /\ UNCHANGED <<key, val, stray>>

\* Mutant of Swap: a plain store in place of the compare-and-swap.
StoreInsteadOfSwap(c) ==
    /\ pc[c] = "swap"
    /\ val' = [val EXCEPT ![ref[c]] = seen[c] - 1]
    /\ pc' = [pc EXCEPT ![c] = IF seen[c] = 1 THEN "delete" ELSE "idle"]
    /\ ref' = [ref EXCEPT ![c] = Nobody]
    /\ seen' = [seen EXCEPT ![c] = 0]
    /\ UNCHANGED <<key, stray>>

\* CompareAndSwap(cur, cur-1); on failure the loop loads again.
Swap(c) == /\ pc[c] = "swap"
           /\ IF val[ref[c]] = seen[c]
              THEN /\ val' = [val EXCEPT ![ref[c]] = @ - 1]
                   /\ pc' = [pc EXCEPT ![c] = IF seen[c] = 1 THEN "delete" ELSE "idle"]
                   /\ ref' = [ref EXCEPT ![c] = Nobody]
              ELSE pc' = [pc EXCEPT ![c] = "load"] /\ UNCHANGED <<val, ref>>
           /\ seen' = [seen EXCEPT ![c] = 0]
           /\ UNCHANGED <<key, stray>>

\* occupancyStore.Delete: whatever counter the key has by now is dropped.
Delete(c) == /\ pc[c] = "delete"
             /\ key' = Nobody
             /\ stray' = stray + Counted
             /\ pc' = [pc EXCEPT ![c] = "idle"]
             /\ UNCHANGED <<val, ref, seen>>

\* The bound has stopped everyone.
Finished == /\ \A c \in Callers : pc[c] = "idle"
            /\ stray >= MaxStray
            /\ UNCHANGED vars

Next == \/ \E c \in Callers : \/ IncrFetch(c) \/ Add(c) \/ DecrFetch(c)
                              \/ Load(c) \/ Swap(c) \/ Delete(c)
        \/ Finished

Spec == Init /\ [][Next]_vars

-----------------------------------------------------------------------------
\* Values stay natural numbers, a goroutine holds a pointer exactly between
\* fetching it and its last use of it, and never swaps a zero for less.
TypeOK == /\ key \in Refs \cup {Nobody}
          /\ val \in [Refs -> Nat]
          /\ pc \in [Callers -> PcValues]
          /\ ref \in [Callers -> Refs \cup {Nobody}]
          /\ \A c \in Callers : ref[c] # Nobody <=> pc[c] \in {"add", "load", "swap"}
          /\ seen \in [Callers -> Nat]
          /\ \A c \in Callers : pc[c] = "swap" => seen[c] > 0
          /\ stray \in Nat

\* The counter in the map never counts a slot nobody owes: the store errs only
\* towards forgetting, so an account is never shut out by a phantom holder.
NoPhantoms == Counted <= Cardinality(Owing)

\* What the store forgets is at most what strayed: additions to a counter that
\* was already out of the map, and counts dropped with their map entry.  The
\* limit is exceeded by no more than that.
ForgetsOnlyStrays == Cardinality(Owing) <= Counted + stray
ExcessBounded == Cardinality(Holders) <= Limit + stray

\* ARCHITECTURE.md: an account handed out must be within its concurrency limit.
HoldersWithinLimit == Cardinality(Holders) <= Limit
=============================================================================
