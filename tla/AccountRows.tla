---------------------------- MODULE AccountRows ----------------------------
(***************************************************************************)
(* What every AccountStorage promises of its accounts (storage/interface): *)
(* an account is added only where there is none, with version 1, and it is *)
(* changed only from the version that the caller has read, which then goes *)
(* up by one.  Any number of accounts may be removed at once.              *)
(***************************************************************************)
EXTENDS Integers

CONSTANTS Callers, Ids, NoId, Statuses, NoAccount

VARIABLES accounts,    \* the stored account of an id, or NoAccount
          copy         \* copy[u]: the account a caller has read to change it

vars == <<accounts, copy>>

Nothing == [id |-> NoId, row |-> NoAccount]

Init == accounts = [i \in Ids |-> NoAccount] /\ copy = [u \in Callers |-> Nothing]

Read(u, i) == /\ accounts[i] # NoAccount
              /\ copy' = [copy EXCEPT ![u] = [id |-> i, row |-> accounts[i]]]
              /\ UNCHANGED accounts

Forget(u) == copy' = [copy EXCEPT ![u] = Nothing] /\ UNCHANGED accounts

Add(i, s) == /\ accounts[i] = NoAccount
             /\ accounts' = [accounts EXCEPT ![i] = [status |-> s, version |-> 1]]
             /\ UNCHANGED copy

Update(u, s) ==
    LET i == copy[u].id IN
    /\ i # NoId /\ accounts[i] # NoAccount
    /\ accounts[i].version = copy[u].row.version
    /\ accounts' = [accounts EXCEPT ![i] = [status |-> s, version |-> @.version + 1]]
    /\ copy' = [copy EXCEPT ![u] = Nothing]

Remove(S) == /\ accounts' = [i \in Ids |-> IF i \in S THEN NoAccount ELSE accounts[i]]
             /\ UNCHANGED copy

Next == \/ \E u \in Callers : \/ \E i \in Ids : Read(u, i)
                              \/ Forget(u)
                              \/ \E s \in Statuses : Update(u, s)
        \/ \E i \in Ids, s \in Statuses : Add(i, s)
        \/ \E S \in SUBSET Ids : Remove(S)

Spec == Init /\ [][Next]_vars
=============================================================================
