----------------------------- MODULE RedisStore -----------------------------
(***************************************************************************)
(* What the calls of the Redis store do to a database db.  A Lua script is *)
(* one operator, since Redis runs it as a whole; what the Go code reads    *)
(* before it calls the script comes in as `seen`.                          *)
(***************************************************************************)
EXTENDS StoreData

Join(t, n) == t \o <<"/">> \o n

GlobalKey == <<"accounts:index">>
TypeKey(t) == <<"accounts:type:">> \o t
ProviderKey(t, n) == <<"accounts:provider:">> \o Join(t, n)
GroupKey(t, n, s) == <<"accounts:group:">> \o Join(Join(t, n), <<s>>)

AllIndexKeys(i, s) ==
    LET t == TypeOf[ProviderOf[i]]
        n == NameOf[ProviderOf[i]]
    IN  {GlobalKey, TypeKey(t), ProviderKey(t, n), GroupKey(t, n, s)}
Keys == UNION {AllIndexKeys(i, s) : i \in Ids, s \in Statuses}
Entries(i, s) == AllIndexKeys(i, s) \X {i}

\* The script adds the counts only to a provider that is there; it need not be.
RedisAddAccount(db, i, s) ==
    IF db.accounts[i] # NoAccount THEN db
    ELSE [db EXCEPT !.accounts[i] = New(s),
                    !.index = @ \cup Entries(i, s),
                    !.providers[ProviderOf[i]] = Counted(@, 1, One(s))]

IgnoresVersion(row, version) == row # NoAccount                            \* mutant
MayUpdate(row, version) == row # NoAccount /\ row.version = version

\* Without a change of status: the keys are not used.
RedisUpdateOther(db, i, version) ==
    IF ~MayUpdate(db.accounts[i], version) THEN db
    ELSE [db EXCEPT !.accounts[i].version = @ + 1]

LeavesOldGroup(db, i, seen, s) == db.index \cup Entries(i, s)              \* mutant
\* Keys of the status read before the script give way to those of the new one.
MovedIndex(db, i, seen, s) ==
    (db.index \ (Entries(i, seen.status) \ Entries(i, s)))
       \cup (Entries(i, s) \ Entries(i, seen.status))

\* The counts follow the status that the script finds.
RedisUpdateStatus(db, i, version, seen, s) ==
    LET row == db.accounts[i] IN
    IF ~MayUpdate(row, version) THEN db
    ELSE [db EXCEPT !.accounts[i] = [status |-> s, version |-> row.version + 1],
                    !.index = MovedIndex(db, i, seen, s),
                    !.providers[ProviderOf[i]] = CountedFloored(@, 0, One(s) - One(row.status))]

WithoutFloor(prov, seen) == Counted(prov, -1, -One(seen.status))           \* mutant
CountedDown(prov, seen) == CountedFloored(prov, -1, -One(seen.status))

\* The script does not look whether the account is still there, nor at its status.
RedisRemoveAccount(db, i, seen) ==
    [db EXCEPT !.accounts[i] = NoAccount,
               !.index = @ \ Entries(i, seen.status),
               !.providers[ProviderOf[i]] = CountedDown(@, seen)]

RedisRemoveStats(db, i) == [db EXCEPT !.failing = @ \ {i}]

\* HINCRBY makes the hash when it is not there.
RedisIncrFailure(db, i) == [db EXCEPT !.failing = @ \cup {i}]

RedisAddProvider(db, p) ==
    IF db.providers[p] # NoProvider THEN db
    ELSE [db EXCEPT !.providers[p] = Empty, !.listed = @ \cup {p}]

\* HSET of all fields, counts included, whether or not the hash is there by now.
RedisUpdateProvider(db, p, info) == [db EXCEPT !.providers[p] = info]

RedisRemoveProvider(db, p) == [db EXCEPT !.providers[p] = NoProvider, !.listed = @ \ {p}]

-----------------------------------------------------------------------------
\* The set that a filter is looked up in: a status counts only together with type and name.
GroupOfProvider(f) == IF f.type # NoOne /\ f.name # NoOne THEN ProviderKey(f.type, f.name)
                      ELSE GlobalKey                                       \* mutant
ResolveIndexKey(f) ==
    CASE f.type # NoOne /\ f.name # NoOne /\ f.status # None -> GroupKey(f.type, f.name, f.status)
      [] f.type # NoOne /\ f.name # NoOne /\ f.status = None -> ProviderKey(f.type, f.name)
      [] f.type # NoOne /\ f.name = NoOne -> TypeKey(f.type)
      [] f.type = NoOne -> GlobalKey

\* SMEMBERS, and then HGETALL of every member: those without a hash are left out.
RedisMembers(db, f) == LET key == ResolveIndexKey(f) IN {i \in Ids : <<key, i>> \in db.index}
RedisSearchAccounts(db, f) == RedisMembers(db, f) \cap StoredIn(db)
=============================================================================
