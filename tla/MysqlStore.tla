----------------------------- MODULE MysqlStore -----------------------------
(***************************************************************************)
(* What the calls of the MySQL store do to a database db.  Foreign keys    *)
(* hold always: an account needs its provider, statistics need their       *)
(* account, and both are deleted along.  Transactions run at REPEATABLE    *)
(* READ: a SELECT reads a snapshot (`seen`), UPDATE and DELETE work on the *)
(* row as it is, and the locks they take make the rest of the transaction  *)
(* one step.  A transaction that InnoDB rolls back, as it does with one of *)
(* two AddAccount that share a provider and wait for each other, changes   *)
(* nothing.                                                                *)
(***************************************************************************)
EXTENDS StoreData

MysqlAddAccount(db, i, s) ==
    IF db.accounts[i] # NoAccount \/ db.providers[ProviderOf[i]] = NoProvider THEN db
    ELSE [db EXCEPT !.accounts[i] = New(s),
                    !.providers[ProviderOf[i]] = Counted(@, 1, One(s))]

\* WHERE id=? AND version=?
MysqlAffected(db, i, version) == db.accounts[i] # NoAccount /\ db.accounts[i].version = version

MysqlUpdateOther(db, i, version) ==
    IF ~MysqlAffected(db, i, version) THEN db
    ELSE [db EXCEPT !.accounts[i].version = @ + 1]

AlwaysCounts(seen, s) == IF s = "available" THEN 1 ELSE -1                 \* mutant
AvailableDelta(seen, s) == One(s) - One(seen.status)

\* The counts follow the status of the snapshot.
MysqlUpdateStatus(db, i, version, seen, s) ==
    IF ~MysqlAffected(db, i, version) THEN db
    ELSE [db EXCEPT !.accounts[i] = [status |-> s, version |-> version + 1],
                    !.providers[ProviderOf[i]] =
                       IF AvailableDelta(seen, s) = 0 THEN @
                       ELSE CountedFloored(@, 0, AvailableDelta(seen, s))]

\* The account goes, with its statistics, and is counted down, even if it has gone before.
MysqlRemoveAccount(db, i, seen) ==
    [db EXCEPT !.accounts[i] = NoAccount,
               !.failing = @ \ {i},
               !.providers[ProviderOf[i]] = CountedFloored(@, -1, -One(seen.status))]

MysqlSearchAccounts(db, f) == {i \in StoredIn(db) : Wanted(f, i, db.accounts[i].status)}

MysqlDeleted(db, S) ==
    [db EXCEPT !.accounts = [i \in Ids |-> IF i \in S THEN NoAccount ELSE @[i]],
               !.failing = @ \ S]

\* One DELETE; the counts of the providers stay.
MysqlRemoveAccounts(db, f) == MysqlDeleted(db, MysqlSearchAccounts(db, f))

\* A single upsert, refused for an account that is not there.
MysqlIncrFailure(db, i) ==
    IF db.accounts[i] = NoAccount THEN db ELSE [db EXCEPT !.failing = @ \cup {i}]

MysqlAddProvider(db, p) ==
    IF db.providers[p] # NoProvider THEN db ELSE [db EXCEPT !.providers[p] = Empty]

\* Every column but the counts.
MysqlUpdateProvider(db, p) == db

KeepsAccounts(db, p) == [db EXCEPT !.providers[p] = NoProvider]            \* mutant
\* ON DELETE CASCADE
MysqlRemoveProvider(db, p) ==
    [MysqlDeleted(db, AccountsIn(db, p)) EXCEPT !.providers[p] = NoProvider]
=============================================================================
