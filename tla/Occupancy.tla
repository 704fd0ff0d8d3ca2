------------------------------ MODULE Occupancy ------------------------------
(***************************************************************************)
(* FixedLimit and AdaptiveLimit over an atomic OccupancyStore (Redis,      *)
(* MySQL, SQLite): Acquire increments the account's counter and looks at   *)
(* the value that came back; above the limit it decrements again and       *)
(* refuses.  ReportSuccess and ReportFailure begin with Release, one more  *)
(* decrement.  The limit an attempt compares with is the one its account   *)
(* snapshot (FixedLimit, metadata) or the tracked usage (AdaptiveLimit)    *)
(* gave it, so it may be out of date: an attempt may use any limit that    *)
(* was in force at some time.                                              *)
(*                                                                         *)
(* The store may fail: an error from IncrOccupancy makes Acquire refuse,   *)
(* an error from DecrOccupancy is dropped, and a process may die between   *)
(* Pick and Report.  MaxFaults bounds how often that happens.              *)
(***************************************************************************)
EXTENDS Naturals, FiniteSets

CONSTANTS Callers, Accounts, NoAccount,
          LimitValues,   \* limits getLimit or calculateLimit may return
          MaxFaults      \* bound: store errors and dead callers in a behaviour

ASSUME CallersFinite == IsFiniteSet(Callers)
ASSUME LimitsNatural == LimitValues \subseteq Nat
ASSUME NoAccountFresh == NoAccount \notin Accounts
ASSUME FaultsNatural == MaxFaults \in Nat

VARIABLES occ,     \* occ[a]: the store's counter of account a
          peak,    \* peak[a]: the largest limit in force for a so far
          pc,      \* pc[c]: where caller c stands
          acct,    \* acct[c]: the account c is trying or holding
          lost,    \* lost[a]: increments of a that nobody will take back
          faults   \* faults so far

vars == <<occ, peak, pc, acct, lost, faults>>

\* "idle": no slot, "over": incremented past the limit and about to undo it,
\* "held": Acquire returned true and no report has been made.
PcValues == {"idle", "over", "held"}

Claims(a) == {c \in Callers : acct[c] = a /\ pc[c] \in {"over", "held"}}
Holders(a) == {c \in Callers : acct[c] = a /\ pc[c] = "held"}

-----------------------------------------------------------------------------
\* DecrOccupancy: one less, never below zero.
Minus1(n) == IF n > 0 THEN n - 1 ELSE 0

Init == /\ occ = [a \in Accounts |-> 0]
        /\ peak \in [Accounts -> LimitValues]
        /\ pc = [c \in Callers |-> "idle"]
        /\ acct = [c \in Callers |-> NoAccount]
        /\ lost = [a \in Accounts |-> 0]
        /\ faults = 0

\* An operator edits the account's metadata, or usage makes the adaptive limit
\* grow.  A lower limit changes nothing here: attempts may use older ones.
RaiseLimit(a, l) == /\ l > peak[a]
                    /\ peak' = [peak EXCEPT ![a] = l]
                    /\ UNCHANGED <<occ, pc, acct, lost, faults>>

\* Mutant of Acquire: an off-by-one in the comparison with the limit.
AcquireTakesOneTooMany(c, a, l) ==
    /\ pc[c] = "idle"
    /\ occ[a] <= l
    /\ occ' = [occ EXCEPT ![a] = @ + 1]
    /\ pc' = [pc EXCEPT ![c] = "held"]
    /\ acct' = [acct EXCEPT ![c] = a]
    /\ UNCHANGED <<peak, lost, faults>>

\* IncrOccupancy returns a value within the limit: the slot is granted.
Acquire(c, a, l) == /\ pc[c] = "idle"
                    /\ occ[a] + 1 <= l
                    /\ occ' = [occ EXCEPT ![a] = @ + 1]
                    /\ pc' = [pc EXCEPT ![c] = "held"]
                    /\ acct' = [acct EXCEPT ![c] = a]
                    /\ UNCHANGED <<peak, lost, faults>>

\* The value is above the limit: the increment has happened all the same.
Overshoot(c, a, l) == /\ pc[c] = "idle"
                      /\ occ[a] + 1 > l
                      /\ occ' = [occ EXCEPT ![a] = @ + 1]
                      /\ pc' = [pc EXCEPT ![c] = "over"]
                      /\ acct' = [acct EXCEPT ![c] = a]
                      /\ UNCHANGED <<peak, lost, faults>>

\* Mutants of Undo: the account stays named, or the counter is left alone.
UndoKeepsTheAccount(c) == /\ pc[c] = "over"
                          /\ occ' = [occ EXCEPT ![acct[c]] = Minus1(@)]
                          /\ pc' = [pc EXCEPT ![c] = "idle"]
                          /\ UNCHANGED <<acct, peak, lost, faults>>

ForgetsToUndo(c) == /\ pc[c] = "over"
                    /\ pc' = [pc EXCEPT ![c] = "idle"]
                    /\ acct' = [acct EXCEPT ![c] = NoAccount]
                    /\ UNCHANGED <<occ, peak, lost, faults>>

\* The refused attempt takes its increment back.
Undo(c) == /\ pc[c] = "over"
           /\ occ' = [occ EXCEPT ![acct[c]] = Minus1(@)]
           /\ pc' = [pc EXCEPT ![c] = "idle"]
           /\ acct' = [acct EXCEPT ![c] = NoAccount]
           /\ UNCHANGED <<peak, lost, faults>>

\* ReportSuccess or ReportFailure: Release is its first statement.
Release(c) == /\ pc[c] = "held"
              /\ occ' = [occ EXCEPT ![acct[c]] = Minus1(@)]
              /\ pc' = [pc EXCEPT ![c] = "idle"]
              /\ acct' = [acct EXCEPT ![c] = NoAccount]
              /\ UNCHANGED <<peak, lost, faults>>

\* IncrOccupancy reports an error although the store has counted: Acquire
\* refuses and does not decrement.
IncrReplyLost(c, a) == /\ pc[c] = "idle"
                       /\ faults < MaxFaults
                       /\ faults' = faults + 1
                       /\ occ' = [occ EXCEPT ![a] = @ + 1]
                       /\ lost' = [lost EXCEPT ![a] = @ + 1]
                       /\ UNCHANGED <<peak, pc, acct>>

\* DecrOccupancy fails and its error is dropped (in Undo and in Release), or
\* the process dies before it decrements: nobody returns the slot.
NeverReturned(c) == /\ pc[c] \in {"over", "held"}
                    /\ faults < MaxFaults
                    /\ faults' = faults + 1
                    /\ lost' = [lost EXCEPT ![acct[c]] = @ + 1]
                    /\ pc' = [pc EXCEPT ![c] = "idle"]
                    /\ acct' = [acct EXCEPT ![c] = NoAccount]
                    /\ UNCHANGED <<occ, peak>>

Next == \/ \E a \in Accounts, l \in LimitValues : RaiseLimit(a, l)
        \/ \E c \in Callers, a \in Accounts, l \in LimitValues :
              /\ l <= peak[a]
              /\ Acquire(c, a, l) \/ Overshoot(c, a, l)
        \/ \E c \in Callers, a \in Accounts : IncrReplyLost(c, a)
        \/ \E c \in Callers : Undo(c) \/ Release(c) \/ NeverReturned(c)

Spec == Init /\ [][Next]_vars

-----------------------------------------------------------------------------
\* The counters are natural numbers, and a caller names an account exactly
\* while it owes that account a decrement (Acquire, Release).
TypeOK == /\ occ \in [Accounts -> Nat]
          /\ peak \in [Accounts -> LimitValues]
          /\ pc \in [Callers -> PcValues]
          /\ acct \in [Callers -> Accounts \cup {NoAccount}]
          /\ \A c \in Callers : acct[c] = NoAccount <=> pc[c] = "idle"
          /\ lost \in [Accounts -> Nat]
          /\ faults \in Nat

\* The store's counter is exactly the slots held, plus the attempts that have
\* overshot and not yet undone it, plus what failures have lost: no interleaving
\* of IncrOccupancy and DecrOccupancy loses or invents a slot, and the floor at
\* zero in DecrOccupancy never swallows a decrement.
CountersExact ==
    \A a \in Accounts : occ[a] = Cardinality(Claims(a)) + lost[a]

\* However many callers race between FilterAvailable and Acquire, and whatever
\* fails, an account is never in more hands than the largest limit it ever had.
HoldersWithinLimit ==
    \A a \in Accounts : Cardinality(Holders(a)) <= peak[a]

\* The counting protocol implements the slot pool: a grant takes a slot that is
\* free at that moment, and an overshoot, its undo and a lost reply are
\* invisible to the other callers' slots.
HeldBy == [c \in Callers |-> IF pc[c] = "held" THEN acct[c] ELSE NoAccount]

Pool == INSTANCE SlotPool WITH holds <- HeldBy, cap <- peak

PoolSpec == Pool!Spec
=============================================================================
