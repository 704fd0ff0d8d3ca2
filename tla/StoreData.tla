----------------------------- MODULE StoreData -----------------------------
(***************************************************************************)
(* What the Redis, MySQL and SQLite stores keep: accounts, providers with  *)
(* the counts of their accounts, and which accounts have failures in their *)
(* statistics.  Redis has indexes besides: sets of account ids under the   *)
(* keys below, and the list of providers.  An account is its status and    *)
(* its version here, a provider its counts.                                *)
(***************************************************************************)
EXTENDS Integers, FiniteSets, Sequences

CONSTANTS Ids, Providers,
          ProviderOf,      \* [Ids -> Providers]
          TypeOf, NameOf,  \* [Providers -> Seq(STRING)]: how the type and the name are spelled
          Unavailable      \* the statuses other than available

Statuses == {"available"} \cup Unavailable

Types == {TypeOf[p] : p \in Providers}
Names == {NameOf[p] : p \in Providers}

\* No id, and no provider; the type and the name of no one.
None == "none"
NoOne == <<>>

ASSUME StoreParameters == /\ ProviderOf \in [Ids -> Providers]
                          /\ None \notin Ids \cup Providers \cup Statuses
                          /\ "available" \notin Unavailable

\* Type and name identify a provider: they are the primary key of the SQL tables, and joined
\* by "/" the key of Redis.  For that no type has a "/" in it; a name may have one.
ASSUME Spelling ==
    /\ TypeOf \in [Providers -> Seq(STRING) \ {NoOne}]
    /\ NameOf \in [Providers -> Seq(STRING) \ {NoOne}]
    /\ \A p \in Providers : \A k \in 1..Len(TypeOf[p]) : TypeOf[p][k] # "/"
    /\ \A p, q \in Providers : TypeOf[p] = TypeOf[q] /\ NameOf[p] = NameOf[q] => p = q

NoAccount == [status |-> None, version |-> 0]
NoProvider == [count |-> -1, avail |-> -1]
Empty == [count |-> 0, avail |-> 0]

New(s) == [status |-> s, version |-> 1]
One(s) == IF s = "available" THEN 1 ELSE 0
Floored(n) == IF n < 0 THEN 0 ELSE n

\* The counts of a provider after the given changes; without the provider nothing changes.
Counted(prov, n, a) ==
    IF prov = NoProvider THEN prov ELSE [count |-> prov.count + n, avail |-> prov.avail + a]
CountedFloored(prov, n, a) ==
    IF prov = NoProvider THEN prov
    ELSE [count |-> Floored(prov.count + n), avail |-> Floored(prov.avail + a)]

StoredIn(db) == {i \in Ids : db.accounts[i] # NoAccount}
AccountsIn(db, p) == {i \in StoredIn(db) : ProviderOf[i] = p}
AvailableIn(db, p) == {i \in AccountsIn(db, p) : db.accounts[i].status = "available"}

\* SearchFilter; NoOne and None are the zero values of its fields.
Filters == [type : Types \cup {NoOne}, name : Names \cup {NoOne},
            status : Statuses \cup {None}]
Wanted(f, i, s) == /\ f.type \in {NoOne, TypeOf[ProviderOf[i]]}
                   /\ f.name \in {NoOne, NameOf[ProviderOf[i]]}
                   /\ f.status \in {None, s}
=============================================================================
