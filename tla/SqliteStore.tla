---------------------------- MODULE SqliteStore ----------------------------
(***************************************************************************)
(* What the calls of the SQLite store do to a database db.  A transaction  *)
(* sees one state and fails if another one has written since, so a call is *)
(* one step.  Foreign keys are a setting of a connection, made on the one  *)
(* that opens the database only: fk says whether the connection that the   *)
(* pool gives to this call enforces them.                                  *)
(***************************************************************************)
EXTENDS StoreData

SqliteAddAccount(db, i, s, fk) ==
    IF db.accounts[i] # NoAccount \/ (fk /\ db.providers[ProviderOf[i]] = NoProvider) THEN db
    ELSE [db EXCEPT !.accounts[i] = New(s),
                    !.providers[ProviderOf[i]] = Counted(@, 1, One(s))]

\* WHERE id=? AND version=?
SqliteAffected(db, i, version) == db.accounts[i] # NoAccount /\ db.accounts[i].version = version

SqliteUpdateOther(db, i, version) ==
    IF ~SqliteAffected(db, i, version) THEN db
    ELSE [db EXCEPT !.accounts[i].version = @ + 1]

SqliteUpdateStatus(db, i, version, s) ==
    IF ~SqliteAffected(db, i, version) THEN db
    ELSE [db EXCEPT !.accounts[i] = [status |-> s, version |-> version + 1],
                    !.providers[ProviderOf[i]] =
                       CountedFloored(@, 0, One(s) - One(db.accounts[i].status))]

SqliteSearchAccounts(db, f) == {i \in StoredIn(db) : Wanted(f, i, db.accounts[i].status)}

\* ON DELETE CASCADE takes the statistics of the accounts along.
SqliteDeleted(db, S, fk) ==
    [db EXCEPT !.accounts = [i \in Ids |-> IF i \in S THEN NoAccount ELSE @[i]],
               !.failing = IF fk THEN @ \ S ELSE @]

SqliteRemoveAccount(db, i, fk) ==
    IF db.accounts[i] = NoAccount THEN db
    ELSE [SqliteDeleted(db, {i}, fk) EXCEPT
             !.providers[ProviderOf[i]] =
                CountedFloored(@, -1, -One(db.accounts[i].status))]

\* One DELETE; the counts of the providers stay.
SqliteRemoveAccounts(db, f, fk) == SqliteDeleted(db, SqliteSearchAccounts(db, f), fk)

\* The upsert; the count is read back in a second statement.
SqliteIncrFailure(db, i, fk) ==
    IF fk /\ db.accounts[i] = NoAccount THEN db ELSE [db EXCEPT !.failing = @ \cup {i}]

SqliteAddProvider(db, p) ==
    IF db.providers[p] # NoProvider THEN db ELSE [db EXCEPT !.providers[p] = Empty]

\* Every column, counts included.
SqliteUpdateProvider(db, p, info) ==
    IF db.providers[p] = NoProvider THEN db ELSE [db EXCEPT !.providers[p] = info]

SqliteRemoveProvider(db, p, fk) ==
    IF db.providers[p] = NoProvider THEN db
    ELSE [SqliteDeleted(db, IF fk THEN AccountsIn(db, p) ELSE {}, fk) EXCEPT
             !.providers[p] = NoProvider]
=============================================================================
