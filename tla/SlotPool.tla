------------------------------ MODULE SlotPool ------------------------------
(***************************************************************************)
(* What an occupancy controller promises the rest of the pool: every       *)
(* account offers a number of slots, a caller that was handed the account  *)
(* holds one of them until it reports back, and an account is never handed *)
(* to more callers than the largest limit it has been configured with.     *)
(* Nothing is said about counters, rejected attempts or stores.            *)
(***************************************************************************)
EXTENDS Naturals, FiniteSets

CONSTANTS Callers,    \* the calls in flight: a request between Pick and Report
          Accounts,   \* account IDs
          NoAccount   \* "this caller holds nothing"

VARIABLES holds,      \* holds[c]: the account handed to caller c, or NoAccount
          cap         \* cap[a]: the largest limit configured for a so far

poolVars == <<holds, cap>>

Holders(a) == {c \in Callers : holds[c] = a}

Init == /\ holds = [c \in Callers |-> NoAccount]
        /\ cap \in [Accounts -> Nat]

Raise(a) == /\ cap'[a] \in Nat /\ cap'[a] > cap[a]
            /\ cap' = [cap EXCEPT ![a] = cap'[a]]
            /\ UNCHANGED holds

Take(c, a) == /\ holds[c] = NoAccount
              /\ Cardinality(Holders(a)) < cap[a]
              /\ holds' = [holds EXCEPT ![c] = a]
              /\ UNCHANGED cap

Give(c) == /\ holds[c] # NoAccount
           /\ holds' = [holds EXCEPT ![c] = NoAccount]
           /\ UNCHANGED cap

Next == \/ \E a \in Accounts : Raise(a)
        \/ \E c \in Callers, a \in Accounts : Take(c, a)
        \/ \E c \in Callers : Give(c)

Spec == Init /\ [][Next]_poolVars
=============================================================================
