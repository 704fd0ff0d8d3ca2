---------------------------- MODULE SharedStore ----------------------------
(***************************************************************************)
(* Several processes use one Redis, MySQL or SQLite store of accounts and  *)
(* providers.  A call is as many steps as it makes trips to the database:  *)
(*                                                                         *)
(*   Redis    HGETALL, then a script that knows what was read; removing a  *)
(*            provider or many accounts is a search, SMEMBERS and HGETALL, *)
(*            and a loop of removals                                       *)
(*   MySQL    SELECT in a transaction, then the locked rest of it          *)
(*   SQLite   one step                                                     *)
(*                                                                         *)
(* UpdateAccount and UpdateProvider come after a read by the caller: the   *)
(* reports, the health checks and the commands read, change and store.  A  *)
(* caller may end, or meet an error, between any two steps.                *)
(*                                                                         *)
(* Not found, already exists, conflict: db stays as it is.                 *)
(*                                                                         *)
(* Bounds: MaxAdds accounts added, an id given to the commands perhaps     *)
(* more than once, MaxProviderAdds providers, MaxVersion, and MaxFailing   *)
(* accounts with failures at a time.                                       *)
(***************************************************************************)
EXTENDS RedisStore, MysqlStore, SqliteStore, Functions

CONSTANTS Callers, Backends, MaxAdds, MaxProviderAdds, MaxVersion, MaxFailing

ASSUME Bounds == {MaxAdds, MaxProviderAdds, MaxVersion, MaxFailing} \subseteq Nat
ASSUME FiniteIds == IsFiniteSet(Ids)

VARIABLES backend,
          db,           \* accounts, providers, failing; index and listed of Redis
          call,         \* call[u]: what u is about
          lax,          \* history: a SQLite call ran without foreign keys
          adds,         \* adds[i]: how often the id i has been added
          providerAdds

counters == <<adds, providerAdds>>
vars == <<backend, db, call, lax, counters>>

\* id and row: the account read; seen: the account as the call has read it again;
\* info: the provider read; todo: the accounts a loop has still to remove, and then,
\* in a cascade, the provider.
Idle == [pc |-> "idle", id |-> None, row |-> NoAccount, seen |-> NoAccount,
         prov |-> None, info |-> NoProvider, todo |-> {}, cascade |-> FALSE]

Init == /\ backend \in Backends
        /\ db = [accounts |-> [i \in Ids |-> NoAccount],
                 providers |-> [p \in Providers |-> NoProvider],
                 failing |-> {}, index |-> {}, listed |-> {}]
        /\ call = [u \in Callers |-> Idle]
        /\ lax = FALSE
        /\ adds = [i \in Ids |-> 0] /\ providerAdds = 0

At(u, pc) == call[u].pc = pc
Goes(u, c) == call' = [call EXCEPT ![u] = c]
On(b, next) == backend = b /\ db' = next

\* Foreign keys are enforced, or else it is SQLite and the connection does not.
Connection(fk) == (fk \/ backend = "sqlite") /\ lax' = (lax \/ ~fk)

-----------------------------------------------------------------------------
AddAccount(u, i, s, fk) ==
    /\ At(u, "idle") /\ FoldFunction(+, 0, adds) < MaxAdds
    /\ Connection(fk)
    /\ \/ On("redis", RedisAddAccount(db, i, s))
       \/ On("mysql", MysqlAddAccount(db, i, s))
       \/ On("sqlite", SqliteAddAccount(db, i, s, fk))
    /\ adds' = [adds EXCEPT ![i] = IF db' = db THEN @ ELSE @ + 1]
    /\ UNCHANGED <<backend, call, providerAdds>>

AddProvider(u, p) ==
    /\ At(u, "idle") /\ providerAdds < MaxProviderAdds
    /\ \/ On("redis", RedisAddProvider(db, p))
       \/ On("mysql", MysqlAddProvider(db, p))
       \/ On("sqlite", SqliteAddProvider(db, p))
    /\ providerAdds' = providerAdds + 1
    /\ UNCHANGED <<backend, call, lax, adds>>

\* GetAccount, by a caller that means to change the account.
GetAccount(u, i) ==
    /\ At(u, "idle") /\ db.accounts[i] # NoAccount /\ db.accounts[i].version < MaxVersion
    /\ Goes(u, [Idle EXCEPT !.pc = "copy", !.id = i, !.row = db.accounts[i]])
    /\ UNCHANGED <<backend, db, lax, counters>>

\* UpdateAccount begins: HGETALL, or SELECT status.
PrepareUpdate(u) ==
    /\ At(u, "copy") /\ backend # "sqlite"
    /\ Goes(u, IF db.accounts[call[u].id] = NoAccount THEN Idle
               ELSE [call[u] EXCEPT !.pc = "update", !.seen = db.accounts[call[u].id]])
    /\ UNCHANGED <<backend, db, lax, counters>>

UpdateStatus(u, s) ==
    LET c == call[u] IN
    /\ \/ At(u, "update") /\ On("redis", RedisUpdateStatus(db, c.id, c.row.version, c.seen, s))
       \/ At(u, "update") /\ On("mysql", MysqlUpdateStatus(db, c.id, c.row.version, c.seen, s))
       \/ At(u, "copy") /\ On("sqlite", SqliteUpdateStatus(db, c.id, c.row.version, s))
    /\ Goes(u, Idle)
    /\ UNCHANGED <<backend, lax, counters>>

\* UpdateAccount without the status: the SQL stores need no SELECT.
UpdateOther(u) ==
    LET c == call[u] IN
    /\ \/ At(u, "update") /\ On("redis", RedisUpdateOther(db, c.id, c.row.version))
       \/ At(u, "copy") /\ On("mysql", MysqlUpdateOther(db, c.id, c.row.version))
       \/ At(u, "copy") /\ On("sqlite", SqliteUpdateOther(db, c.id, c.row.version))
    /\ Goes(u, Idle)
    /\ UNCHANGED <<backend, lax, counters>>

\* RemoveAccount begins.
PrepareRemove(u, i) ==
    /\ At(u, "idle") /\ backend # "sqlite" /\ db.accounts[i] # NoAccount
    /\ Goes(u, [Idle EXCEPT !.pc = "remove", !.id = i, !.seen = db.accounts[i]])
    /\ UNCHANGED <<backend, db, lax, counters>>

\* The next removal of a loop begins; an account that has gone is passed over.
PrepareNext(u, i) ==
    /\ At(u, "loop") /\ i \in call[u].todo
    /\ Goes(u, IF db.accounts[i] = NoAccount THEN [call[u] EXCEPT !.todo = @ \ {i}]
               ELSE [call[u] EXCEPT !.todo = @ \ {i}, !.pc = "remove", !.id = i,
                                    !.seen = db.accounts[i]])
    /\ UNCHANGED <<backend, db, lax, counters>>

RemoveAccount(u) ==
    LET c == call[u] IN
    /\ At(u, "remove")
    /\ \/ On("redis", RedisRemoveAccount(db, c.id, c.seen)) /\ Goes(u, [c EXCEPT !.pc = "stats", !.seen = NoAccount])
       \/ On("mysql", MysqlRemoveAccount(db, c.id, c.seen)) /\ Goes(u, Idle)
    /\ UNCHANGED <<backend, lax, counters>>

\* Redis: RemoveStats is a call of its own, after the script.
RemoveStats(u) ==
    LET c == call[u] IN
    /\ At(u, "stats")
    /\ db' = RedisRemoveStats(db, c.id)
    /\ Goes(u, IF c.prov = None THEN Idle
               ELSE [c EXCEPT !.pc = "loop", !.id = None])
    /\ UNCHANGED <<backend, lax, counters>>

RemoveAtOnce(u, i, fk) ==
    /\ At(u, "idle") /\ db.accounts[i] # NoAccount
    /\ Connection(fk)
    /\ On("sqlite", SqliteRemoveAccount(db, i, fk))
    /\ UNCHANGED <<backend, call, counters>>

\* The filter of the remove command and of the cascade: one provider.
OfProvider(p) == [type |-> TypeOf[p], name |-> NameOf[p], status |-> None]

\* Redis: RemoveProvider begins, if the provider is there.
PrepareCascade(u, p) ==
    /\ At(u, "idle") /\ backend = "redis" /\ db.providers[p] # NoProvider
    /\ Goes(u, [Idle EXCEPT !.pc = "cascade", !.prov = p, !.cascade = TRUE])
    /\ UNCHANGED <<backend, db, lax, counters>>

\* The search for the accounts, with which RemoveAccounts begins: SMEMBERS ...
ListMembers(u, p) ==
    LET members == RedisMembers(db, OfProvider(p))
        listing == [call[u] EXCEPT !.pc = IF members = {} THEN "loop" ELSE "fetch",
                                   !.prov = p, !.todo = members]
    IN  /\ \/ At(u, "idle") /\ backend = "redis"
           \/ At(u, "cascade") /\ call[u].prov = p
        /\ Goes(u, listing)
        /\ UNCHANGED <<backend, db, lax, counters>>

\* ... and HGETALL.
FetchMembers(u) ==
    /\ At(u, "fetch")
    /\ Goes(u, [call[u] EXCEPT !.pc = "loop", !.todo = @ \cap StoredIn(db)])
    /\ UNCHANGED <<backend, db, lax, counters>>

LoopDone(u) ==
    /\ At(u, "loop") /\ call[u].todo = {}
    /\ db' = IF call[u].cascade THEN RedisRemoveProvider(db, call[u].prov) ELSE db
    /\ Goes(u, Idle)
    /\ UNCHANGED <<backend, lax, counters>>

RemoveAccounts(u, p, fk) ==
    /\ At(u, "idle") /\ AccountsIn(db, p) # {}
    /\ Connection(fk)
    /\ \/ On("mysql", MysqlRemoveAccounts(db, OfProvider(p)))
       \/ On("sqlite", SqliteRemoveAccounts(db, OfProvider(p), fk))
    /\ UNCHANGED <<backend, call, counters>>

RemoveProvider(u, p, fk) ==
    /\ At(u, "idle") /\ db.providers[p] # NoProvider
    /\ Connection(fk)
    /\ \/ On("mysql", MysqlRemoveProvider(db, p))
       \/ On("sqlite", SqliteRemoveProvider(db, p, fk))
    /\ UNCHANGED <<backend, call, counters>>

GetProvider(u, p) ==
    /\ At(u, "idle") /\ db.providers[p] # NoProvider
    /\ Goes(u, [Idle EXCEPT !.pc = "info", !.prov = p, !.info = db.providers[p]])
    /\ UNCHANGED <<backend, db, lax, counters>>

\* Redis asks whether the provider exists, and then sets it.
PrepareProvider(u) ==
    /\ At(u, "info") /\ backend = "redis"
    /\ Goes(u, IF db.providers[call[u].prov] = NoProvider THEN Idle
               ELSE [call[u] EXCEPT !.pc = "set"])
    /\ UNCHANGED <<backend, db, lax, counters>>

UpdateProvider(u) ==
    LET c == call[u] IN
    /\ \/ At(u, "set") /\ On("redis", RedisUpdateProvider(db, c.prov, c.info))
       \/ At(u, "info") /\ On("mysql", MysqlUpdateProvider(db, c.prov))
       \/ At(u, "info") /\ On("sqlite", SqliteUpdateProvider(db, c.prov, c.info))
    /\ Goes(u, Idle)
    /\ UNCHANGED <<backend, lax, counters>>

\* A report of a failure, for an account that may have gone since it was picked.
IncrFailure(u, i, fk) ==
    /\ At(u, "idle") /\ Cardinality(db.failing \cup {i}) <= MaxFailing
    /\ Connection(fk)
    /\ \/ On("redis", RedisIncrFailure(db, i))
       \/ On("mysql", MysqlIncrFailure(db, i))
       \/ On("sqlite", SqliteIncrFailure(db, i, fk))
    /\ UNCHANGED <<backend, call, counters>>

\* The caller ends or gives up.
GiveUp(u) == /\ ~At(u, "idle")
             /\ Goes(u, Idle)
             /\ UNCHANGED <<backend, db, lax, counters>>

Next == \E u \in Callers :
           \/ \E i \in Ids, fk \in BOOLEAN :
                 \/ \E s \in Statuses : AddAccount(u, i, s, fk)
                 \/ RemoveAtOnce(u, i, fk) \/ IncrFailure(u, i, fk)
           \/ \E i \in Ids : GetAccount(u, i) \/ PrepareRemove(u, i) \/ PrepareNext(u, i)
           \/ PrepareUpdate(u) \/ (\E s \in Statuses : UpdateStatus(u, s)) \/ UpdateOther(u)
           \/ RemoveAccount(u) \/ RemoveStats(u) \/ FetchMembers(u) \/ LoopDone(u)
           \/ \E p \in Providers :
                 \/ AddProvider(u, p) \/ GetProvider(u, p)
                 \/ PrepareCascade(u, p) \/ ListMembers(u, p)
                 \/ \E fk \in BOOLEAN : RemoveAccounts(u, p, fk) \/ RemoveProvider(u, p, fk)
           \/ PrepareProvider(u) \/ UpdateProvider(u) \/ GiveUp(u)

Spec == Init /\ [][Next]_vars

-----------------------------------------------------------------------------
Rows == [status : Statuses, version : Nat \ {0}] \cup {NoAccount}
Counts == [count : Nat, avail : Nat] \cup {NoProvider}
Databases == [accounts : [Ids -> Rows], providers : [Providers -> Counts],
              failing : SUBSET Ids, index : SUBSET (Keys \X Ids), listed : SUBSET Providers]
Calls == [pc : {"idle", "copy", "update", "remove", "stats", "cascade", "fetch", "loop",
                "info", "set"},
          id : Ids \cup {None}, row : Rows, seen : Rows, prov : Providers \cup {None},
          info : Counts, todo : SUBSET Ids, cascade : BOOLEAN]

\* What the next step of a call needs.
Equipped(c) == /\ c.pc \in {"copy", "update", "remove", "stats"} => c.id \in Ids
               /\ c.pc \in {"copy", "update"} => c.row # NoAccount
               /\ c.pc \in {"update", "remove"} => c.seen # NoAccount
               /\ c.pc \in {"cascade", "fetch", "loop", "info", "set"} => c.prov \in Providers
               /\ c.pc \in {"info", "set"} => c.info # NoProvider

\* Counts never fall below zero, an account has a status and a version, and every call
\* has what its next step needs.
TypeOK == /\ backend \in Backends
          /\ db \in Databases
          /\ call \in [Callers -> Calls]
          /\ \A u \in Callers : Equipped(call[u])

\* Whatever the store and whoever else writes, accounts are added, changed and removed as
\* the interface promises: a change goes through only from the version that was read.
Copies == [u \in Callers |->
              IF call[u].pc \in {"copy", "update"} THEN [id |-> call[u].id, row |-> call[u].row]
              ELSE [id |-> None, row |-> NoAccount]]
Contract == INSTANCE AccountRows WITH accounts <- db.accounts, copy <- Copies, NoId <- None
RowsSpec == Contract!Spec

\* The searches of the resolver and of the removals, by type and name and perhaps status,
\* find in Redis what they find in the SQL stores, unless the id of an account was used
\* before: a change of the old account can then put the new one into the wrong group.
SearchesAgree ==
    backend = "redis" =>
       \A f \in Filters : f.type # NoOne /\ f.name # NoOne =>
          LET once == {i \in Ids : adds[i] <= 1}
          IN  RedisSearchAccounts(db, f) \cap once = MysqlSearchAccounts(db, f) \cap once

\* An entry of an index that its account no longer has, and a listed provider that is not
\* stored, or the reverse.
DeadEntries == {e \in db.index : db.accounts[e[2]] = NoAccount
                                 \/ e \notin Entries(e[2], db.accounts[e[2]].status)}
Unlisted == {p \in Providers : (p \in db.listed) # (db.providers[p] # NoProvider)}

\* u's view of the account, or of the provider, is out of date.
StaleAccount(u) == /\ call[u].pc \in {"remove", "update"}
                   /\ call[u].seen # db.accounts[call[u].id]
StaleProvider(u) == /\ call[u].pc \in {"set", "info"}
                    /\ call[u].info # db.providers[call[u].prov]

\* The indexes of Redis and its list of providers go wrong only in a removal or a change
\* of an account, or an update of a provider, that others overtook.
IndexDriftNeedsRace ==
    [][backend = "redis" /\ db' # db =>
          /\ DeadEntries' \subseteq DeadEntries
             \/ \E u \in Callers : (RemoveAccount(u) \/ \E s \in Statuses : UpdateStatus(u, s))
                                   /\ StaleAccount(u)
          /\ Unlisted' \subseteq Unlisted
             \/ \E u \in Callers : UpdateProvider(u) /\ StaleProvider(u)]_vars

\* A step changes the counts of a provider, by which the resolver decides, exactly as it
\* changes its accounts.
Follows(p) ==
    LET a == db.providers[p]
        b == db'.providers[p]
    IN  /\ b.count - a.count = Cardinality(AccountsIn(db', p)) - Cardinality(AccountsIn(db, p))
        /\ b.avail - a.avail = Cardinality(AvailableIn(db', p)) - Cardinality(AvailableIn(db, p))

\* Too low already: less than the accounts there are.
Short(p) == \/ db.providers[p].count < Cardinality(AccountsIn(db, p))
            \/ db.providers[p].avail < Cardinality(AvailableIn(db, p))

\* The exceptions: a removal, a change, or a provider stored back, that others overtook; the DELETE
\* of many accounts in the SQL stores; and counts that are short already, which the floor
\* keeps at zero.
CountsFollowAccounts ==
    [][\A p \in Providers :
          db' # db /\ db.providers[p] # NoProvider /\ db'.providers[p] # NoProvider =>
             \/ Follows(p)
             \/ Short(p)
             \/ \E u \in Callers : \/ (RemoveAccount(u) \/ \E s \in Statuses : UpdateStatus(u, s))
                                      /\ StaleAccount(u)
                                   \/ UpdateProvider(u) /\ StaleProvider(u)
                                   \/ \E fk \in BOOLEAN : RemoveAccounts(u, p, fk)]_vars

\* MySQL keeps no account without its provider, and no statistics without their account;
\* SQLite does as long as every call runs on a connection with foreign keys.
NothingOrphaned ==
    backend = "mysql" \/ (backend = "sqlite" /\ ~lax) =>
       /\ \A i \in StoredIn(db) : db.providers[ProviderOf[i]] # NoProvider
       /\ db.failing \subseteq StoredIn(db)
=============================================================================
