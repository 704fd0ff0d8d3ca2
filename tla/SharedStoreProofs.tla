------------------------- MODULE SharedStoreProofs -------------------------
(***************************************************************************)
(* Theorems about SharedStore, for any callers, accounts and providers and *)
(* any bounds: type correctness, the promise of the AccountStorage         *)
(* interface as a refinement, that MySQL, and SQLite with foreign keys,    *)
(* orphan nothing; which steps make the counts of a provider, the indexes  *)
(* of Redis and its list of providers go wrong, and where the searches of  *)
(* the stores agree.                                                       *)
(***************************************************************************)
EXTENDS SharedStore, TLAPS, FiniteSetTheorems, SequenceTheorems

USE DEF Statuses, None, NoAccount, NoProvider, Empty

-----------------------------------------------------------------------------
\* The counts after a change are counts.
LEMMA CountsStayCounts ==
    ASSUME NEW c \in Counts, NEW s \in Statuses, NEW t \in Statuses
    PROVE  /\ Counted(c, 1, One(s)) \in Counts
           /\ CountedFloored(c, -1, -One(s)) \in Counts
           /\ CountedFloored(c, 0, One(s) - One(t)) \in Counts
  BY DEF Counts, Counted, CountedFloored, Floored, One

\* What the indexes hold for an account are entries.
LEMMA EntriesAreEntries ==
    ASSUME NEW i \in Ids, NEW s \in Statuses
    PROVE  Entries(i, s) \subseteq Keys \X Ids
  BY DEF Entries, Keys

\* Every call of a store leads from a database to a database.
LEMMA RedisTypes ==
    ASSUME StoreParameters, NEW d \in Databases, NEW i \in Ids, NEW s \in Statuses, NEW v \in Nat,
           NEW seen \in Rows, seen # NoAccount, NEW p \in Providers, NEW info \in Counts
    PROVE  /\ RedisAddAccount(d, i, s) \in Databases
           /\ RedisUpdateOther(d, i, v) \in Databases
           /\ RedisUpdateStatus(d, i, v, seen, s) \in Databases
           /\ RedisRemoveAccount(d, i, seen) \in Databases
           /\ RedisRemoveStats(d, i) \in Databases
           /\ RedisIncrFailure(d, i) \in Databases
           /\ RedisAddProvider(d, p) \in Databases
           /\ RedisUpdateProvider(d, p, info) \in Databases
           /\ RedisRemoveProvider(d, p) \in Databases
  <1> USE DEF Databases
  <1>0. /\ d.accounts[i] \in Rows /\ ProviderOf[i] \in Providers
        /\ d.providers[ProviderOf[i]] \in Counts
    BY DEF StoreParameters
  <1>1. RedisAddAccount(d, i, s) \in Databases
    <2>1. New(s) \in Rows
      BY DEF New, Rows
    <2>2. Counted(d.providers[ProviderOf[i]], 1, One(s)) \in Counts
      BY <1>0, CountsStayCounts
    <2> QED BY <1>0, <2>1, <2>2, EntriesAreEntries DEF RedisAddAccount
  <1>2. RedisUpdateOther(d, i, v) \in Databases
    BY <1>0, SMTT(30) DEF RedisUpdateOther, MayUpdate, Rows
  <1>3. RedisUpdateStatus(d, i, v, seen, s) \in Databases
    <2> SUFFICES ASSUME MayUpdate(d.accounts[i], v) PROVE RedisUpdateStatus(d, i, v, seen, s) \in Databases
      BY DEF RedisUpdateStatus
    <2>1. /\ [status |-> s, version |-> d.accounts[i].version + 1] \in Rows
          /\ d.accounts[i].status \in Statuses
      BY <1>0 DEF MayUpdate, Rows
    <2>2. CountedFloored(d.providers[ProviderOf[i]], 0, One(s) - One(d.accounts[i].status))
             \in Counts
      BY <1>0, <2>1, CountsStayCounts
    <2>3. MovedIndex(d, i, seen, s) \in SUBSET (Keys \X Ids)
      BY EntriesAreEntries DEF MovedIndex
    <2> QED BY <1>0, <2>1, <2>2, <2>3 DEF RedisUpdateStatus
  <1>4. RedisRemoveAccount(d, i, seen) \in Databases
    <2>1. CountedDown(d.providers[ProviderOf[i]], seen) \in Counts
      BY <1>0, CountsStayCounts DEF CountedDown, Rows
    <2>2. NoAccount \in Rows
      BY DEF Rows
    <2> QED BY <1>0, <2>1, <2>2 DEF RedisRemoveAccount
  <1>5. RedisRemoveStats(d, i) \in Databases /\ RedisIncrFailure(d, i) \in Databases
    BY DEF RedisRemoveStats, RedisIncrFailure
  <1>6. RedisAddProvider(d, p) \in Databases
    BY DEF RedisAddProvider, Counts
  <1>7. RedisUpdateProvider(d, p, info) \in Databases
    BY DEF RedisUpdateProvider
  <1>8. RedisRemoveProvider(d, p) \in Databases
    BY DEF RedisRemoveProvider, Counts
  <1> QED BY <1>1, <1>2, <1>3, <1>4, <1>5, <1>6, <1>7, <1>8

LEMMA MysqlTypes ==
    ASSUME StoreParameters, NEW d \in Databases, NEW i \in Ids, NEW s \in Statuses, NEW v \in Nat,
           NEW seen \in Rows, seen # NoAccount, NEW p \in Providers, NEW f
    PROVE  /\ MysqlAddAccount(d, i, s) \in Databases
           /\ MysqlUpdateOther(d, i, v) \in Databases
           /\ MysqlUpdateStatus(d, i, v, seen, s) \in Databases
           /\ MysqlRemoveAccount(d, i, seen) \in Databases
           /\ MysqlRemoveAccounts(d, f) \in Databases
           /\ MysqlIncrFailure(d, i) \in Databases
           /\ MysqlAddProvider(d, p) \in Databases
           /\ MysqlUpdateProvider(d, p) \in Databases
           /\ MysqlRemoveProvider(d, p) \in Databases
  <1> USE DEF Databases
  <1>0. /\ d.accounts[i] \in Rows /\ ProviderOf[i] \in Providers
        /\ d.providers[ProviderOf[i]] \in Counts
        /\ NoAccount \in Rows /\ NoProvider \in Counts /\ Empty \in Counts
        /\ New(s) \in Rows
        /\ seen.status \in Statuses
    BY DEF StoreParameters, Rows, Counts, New
  <1>1. MysqlAddAccount(d, i, s) \in Databases
    <2>1. Counted(d.providers[ProviderOf[i]], 1, One(s)) \in Counts
      BY <1>0, CountsStayCounts
    <2> QED BY <1>0, <2>1 DEF MysqlAddAccount
  <1>2. MysqlUpdateOther(d, i, v) \in Databases
    BY <1>0, SMTT(30) DEF MysqlUpdateOther, MysqlAffected, Rows
  <1>3. MysqlUpdateStatus(d, i, v, seen, s) \in Databases
    <2>1. [status |-> s, version |-> v + 1] \in Rows
      BY DEF Rows
    <2>2. CountedFloored(d.providers[ProviderOf[i]], 0, AvailableDelta(seen, s)) \in Counts
      BY <1>0, CountsStayCounts DEF AvailableDelta
    <2> QED BY <1>0, <2>1, <2>2 DEF MysqlUpdateStatus
  <1>4. MysqlRemoveAccount(d, i, seen) \in Databases
    <2>1. CountedFloored(d.providers[ProviderOf[i]], -1, -One(seen.status)) \in Counts
      BY <1>0, CountsStayCounts
    <2> QED BY <1>0, <2>1 DEF MysqlRemoveAccount
  <1>5. ASSUME NEW D PROVE MysqlDeleted(d, D) \in Databases
    BY <1>0 DEF MysqlDeleted
  <1>6. MysqlRemoveAccounts(d, f) \in Databases
    BY <1>5 DEF MysqlRemoveAccounts
  <1>7. MysqlIncrFailure(d, i) \in Databases
    BY DEF MysqlIncrFailure
  <1>8. MysqlAddProvider(d, p) \in Databases /\ MysqlUpdateProvider(d, p) \in Databases
    BY <1>0 DEF MysqlAddProvider, MysqlUpdateProvider
  <1>9. MysqlRemoveProvider(d, p) \in Databases
    <2>1. MysqlDeleted(d, AccountsIn(d, p)) \in Databases
      BY <1>5
    <2> QED BY <1>0, <2>1 DEF MysqlRemoveProvider
  <1> QED BY <1>1, <1>2, <1>3, <1>4, <1>6, <1>7, <1>8, <1>9

LEMMA SqliteTypes ==
    ASSUME StoreParameters, NEW d \in Databases, NEW i \in Ids, NEW s \in Statuses, NEW v \in Nat,
           NEW p \in Providers, NEW info \in Counts, NEW f, NEW fk \in BOOLEAN
    PROVE  /\ SqliteAddAccount(d, i, s, fk) \in Databases
           /\ SqliteUpdateOther(d, i, v) \in Databases
           /\ SqliteUpdateStatus(d, i, v, s) \in Databases
           /\ SqliteRemoveAccount(d, i, fk) \in Databases
           /\ SqliteRemoveAccounts(d, f, fk) \in Databases
           /\ SqliteIncrFailure(d, i, fk) \in Databases
           /\ SqliteAddProvider(d, p) \in Databases
           /\ SqliteUpdateProvider(d, p, info) \in Databases
           /\ SqliteRemoveProvider(d, p, fk) \in Databases
  <1> USE DEF Databases
  <1>0. /\ d.accounts[i] \in Rows /\ ProviderOf[i] \in Providers
        /\ d.providers[ProviderOf[i]] \in Counts
        /\ NoAccount \in Rows /\ NoProvider \in Counts /\ Empty \in Counts
        /\ New(s) \in Rows
        /\ d.accounts[i] # NoAccount => d.accounts[i].status \in Statuses
    BY DEF StoreParameters, Rows, Counts, New
  <1>1. SqliteAddAccount(d, i, s, fk) \in Databases
    <2>1. Counted(d.providers[ProviderOf[i]], 1, One(s)) \in Counts
      BY <1>0, CountsStayCounts
    <2> QED BY <1>0, <2>1 DEF SqliteAddAccount
  <1>2. SqliteUpdateOther(d, i, v) \in Databases
    BY <1>0, SMTT(30) DEF SqliteUpdateOther, SqliteAffected, Rows
  <1>3. SqliteUpdateStatus(d, i, v, s) \in Databases
    <2> SUFFICES ASSUME SqliteAffected(d, i, v) PROVE SqliteUpdateStatus(d, i, v, s) \in Databases
      BY DEF SqliteUpdateStatus
    <2>1. [status |-> s, version |-> v + 1] \in Rows
      BY DEF Rows
    <2>2. CountedFloored(d.providers[ProviderOf[i]], 0, One(s) - One(d.accounts[i].status))
             \in Counts
      BY <1>0, CountsStayCounts DEF SqliteAffected
    <2> QED BY <1>0, <2>1, <2>2 DEF SqliteUpdateStatus
  <1>4. ASSUME NEW D PROVE SqliteDeleted(d, D, fk) \in Databases
    BY <1>0 DEF SqliteDeleted
  <1>5. SqliteRemoveAccount(d, i, fk) \in Databases
    <2> SUFFICES ASSUME d.accounts[i] # NoAccount PROVE SqliteRemoveAccount(d, i, fk) \in Databases
      BY DEF SqliteRemoveAccount
    <2>1. SqliteDeleted(d, {i}, fk) \in Databases
      BY <1>4
    <2>2. CountedFloored(SqliteDeleted(d, {i}, fk).providers[ProviderOf[i]], -1,
                         -One(d.accounts[i].status)) \in Counts
      BY <1>0, <2>1, CountsStayCounts
    <2> QED BY <1>0, <2>1, <2>2 DEF SqliteRemoveAccount
  <1>6. SqliteRemoveAccounts(d, f, fk) \in Databases
    BY <1>4 DEF SqliteRemoveAccounts
  <1>7. SqliteIncrFailure(d, i, fk) \in Databases
    BY DEF SqliteIncrFailure
  <1>8. SqliteAddProvider(d, p) \in Databases /\ SqliteUpdateProvider(d, p, info) \in Databases
    BY <1>0 DEF SqliteAddProvider, SqliteUpdateProvider
  <1>9. SqliteRemoveProvider(d, p, fk) \in Databases
    <2>1. SqliteDeleted(d, IF fk THEN AccountsIn(d, p) ELSE {}, fk) \in Databases
      BY <1>4
    <2> QED BY <1>0, <2>1 DEF SqliteRemoveProvider
  <1> QED BY <1>1, <1>2, <1>3, <1>5, <1>6, <1>7, <1>8, <1>9

-----------------------------------------------------------------------------
\* A call that goes on with what its next step needs leaves the calls as they should be.
LEMMA CallsStayCalls ==
    ASSUME TypeOK, NEW u \in Callers, NEW c \in Calls, Equipped(c), Goes(u, c)
    PROVE  call' \in [Callers -> Calls] /\ \A w \in Callers : Equipped(call'[w])
  BY DEF TypeOK, Goes

\* So does one that ends.
LEMMA IdleIsACall == Idle \in Calls /\ Equipped(Idle)
  BY DEF Idle, Calls, Equipped, Rows, Counts

\* What a call holds.
LEMMA CallParts ==
    ASSUME NEW c \in Calls, Equipped(c)
    PROVE  /\ c.pc \in {"copy", "update", "remove", "stats"} => c.id \in Ids
           /\ c.row.version \in Nat
           /\ c.seen \in Rows
           /\ c.pc \in {"update", "remove"} => c.seen # NoAccount
           /\ c.pc \in {"cascade", "fetch", "loop", "info", "set"} => c.prov \in Providers
           /\ c.info \in Counts
  BY DEF Calls, Equipped, Rows

\* The steps that look for the accounts of a provider, to remove them.
Searching(u) == FetchMembers(u) \/ \E p \in Providers : PrepareCascade(u, p) \/ ListMembers(u, p)

\* They read, and the call goes on with what they have found.
LEMMA SearchGoesOn ==
    ASSUME TypeOK, NEW u \in Callers, Searching(u)
    PROVE  /\ UNCHANGED <<backend, db, lax, counters>>
           /\ backend = "redis" \/ call[u].pc \in {"cascade", "fetch"}
           /\ call[u].pc \notin {"copy", "update"}
           /\ \E c \in Calls : /\ Goes(u, c) /\ Equipped(c)
                               /\ c.pc \in {"cascade", "fetch", "loop"}
                               /\ c.id \in {None, call[u].id}
  <1>0. call[u] \in Calls /\ Equipped(call[u]) /\ Idle \in Calls /\ Idle.id = None
    BY IdleIsACall DEF TypeOK, Idle
  <1>1. ASSUME NEW p \in Providers, PrepareCascade(u, p)
        PROVE  /\ UNCHANGED <<backend, db, lax, counters>>
               /\ backend = "redis" /\ call[u].pc = "idle"
               /\ \E c \in Calls : /\ Goes(u, c) /\ Equipped(c)
                                   /\ c.pc \in {"cascade", "fetch", "loop"}
                                   /\ c.id \in {None, call[u].id}
    <2> DEFINE c == [Idle EXCEPT !.pc = "cascade", !.prov = p, !.cascade = TRUE]
    <2>1. c \in Calls /\ c.pc = "cascade" /\ c.id = None /\ c.prov = p
      <3> HIDE DEF NoAccount, NoProvider, Idle, None
      <3> QED BY <1>0 DEF Calls
    <2>2. Equipped(c)
      BY <2>1 DEF Equipped
    <2>3. Goes(u, c)
      BY <1>1 DEF PrepareCascade
    <2> HIDE DEF c
    <2> QED BY <1>1, <2>1, <2>2, <2>3 DEF PrepareCascade, At
  <1>2. ASSUME NEW p \in Providers, ListMembers(u, p)
        PROVE  /\ UNCHANGED <<backend, db, lax, counters>>
               /\ (backend = "redis" /\ call[u].pc = "idle") \/ call[u].pc = "cascade"
               /\ \E c \in Calls : /\ Goes(u, c) /\ Equipped(c)
                                   /\ c.pc \in {"cascade", "fetch", "loop"}
                                   /\ c.id \in {None, call[u].id}
    <2> DEFINE S == RedisMembers(db, OfProvider(p))
               pc == IF S = {} THEN "loop" ELSE "fetch"
               c == [call[u] EXCEPT !.pc = pc, !.prov = p, !.todo = S]
    <2>0. S \in SUBSET Ids /\ pc \in {"fetch", "loop"}
      BY DEF RedisMembers
    <2>1. Goes(u, c)
      BY <1>2 DEF ListMembers
    <2> HIDE DEF S, pc
    <2>2. c \in Calls /\ Equipped(c) /\ c.pc = pc /\ c.id = call[u].id
      BY <1>0, <2>0 DEF Calls, Equipped
    <2> HIDE DEF c
    <2> QED BY <1>2, <2>0, <2>1, <2>2 DEF ListMembers, At
  <1>3. ASSUME FetchMembers(u)
        PROVE  /\ UNCHANGED <<backend, db, lax, counters>>
               /\ call[u].pc = "fetch"
               /\ \E c \in Calls : /\ Goes(u, c) /\ Equipped(c)
                                   /\ c.pc \in {"cascade", "fetch", "loop"}
                                   /\ c.id \in {None, call[u].id}
    <2> DEFINE S == call[u].todo \cap StoredIn(db)
               c == [call[u] EXCEPT !.pc = "loop", !.todo = S]
    <2>0. S \in SUBSET Ids
      BY DEF StoredIn
    <2>1. Goes(u, c)
      BY <1>0, <1>3 DEF FetchMembers
    <2> HIDE DEF S
    <2>2. c \in Calls /\ Equipped(c) /\ c.pc = "loop" /\ c.id = call[u].id
      BY <1>0, <1>3, <2>0 DEF FetchMembers, At, Calls, Equipped
    <2> HIDE DEF c
    <2> QED BY <1>3, <2>1, <2>2 DEF FetchMembers, At
  <1> QED BY <1>1, <1>2, <1>3 DEF Searching

\* Rows and counts are well formed in every state, no count is below zero, and every call
\* has what its next step needs.
THEOREM TypeCorrect == Spec => []TypeOK
  <1>1. Init => TypeOK
    <2>1. NoAccount \in Rows /\ NoProvider \in Counts
      BY DEF Rows, Counts
    <2> QED BY <2>1, IdleIsACall DEF Init, TypeOK, Databases
  <1>2. TypeOK /\ [Next]_vars => TypeOK'
    <2> SUFFICES ASSUME TypeOK, [Next]_vars PROVE TypeOK'
      OBVIOUS
    <2> USE StoreParameters
    <2>0. db \in Databases /\ backend \in Backends
      BY DEF TypeOK
    <2>a. ASSUME NEW u \in Callers
          PROVE  call[u] \in Calls /\ Equipped(call[u])
      BY DEF TypeOK
    <2>b. ASSUME db' \in Databases, UNCHANGED <<backend, call>> PROVE TypeOK'
      BY <2>b DEF TypeOK
    <2>c. ASSUME db' \in Databases, UNCHANGED backend,
                 NEW u \in Callers, NEW c \in Calls, Equipped(c), Goes(u, c)
          PROVE  TypeOK'
      BY <2>c, <2>0, CallsStayCalls DEF TypeOK
    <2>d. ASSUME NEW i \in Ids, db.accounts[i] # NoAccount
          PROVE  db.accounts[i] \in Rows
      BY <2>0 DEF Databases
    <2>1. ASSUME NEW u \in Callers, NEW i \in Ids, NEW s \in Statuses, NEW fk \in BOOLEAN,
                 AddAccount(u, i, s, fk)
          PROVE  TypeOK'
      <3>1. /\ RedisAddAccount(db, i, s) \in Databases
            /\ MysqlAddAccount(db, i, s) \in Databases
            /\ SqliteAddAccount(db, i, s, fk) \in Databases
        <4>1. New(s) \in Rows /\ New(s) # NoAccount /\ Empty \in Counts /\ ProviderOf[i] \in Providers
          BY DEF New, Rows, Counts
        <4> QED BY <2>0, <4>1, RedisTypes, MysqlTypes, SqliteTypes
      <3> QED BY <2>1, <2>b, <3>1 DEF AddAccount, On
    <2>2. ASSUME NEW u \in Callers, NEW p \in Providers, AddProvider(u, p)
          PROVE  TypeOK'
      <3>1. /\ RedisAddProvider(db, p) \in Databases
            /\ MysqlAddProvider(db, p) \in Databases
            /\ SqliteAddProvider(db, p) \in Databases
        BY <2>0 DEF Databases, Counts, RedisAddProvider, MysqlAddProvider, SqliteAddProvider
      <3> QED BY <2>2, <2>b, <3>1 DEF AddProvider, On
    <2>3. ASSUME NEW u \in Callers, NEW i \in Ids, GetAccount(u, i)
          PROVE  TypeOK'
      <3> DEFINE c == [Idle EXCEPT !.pc = "copy", !.id = i, !.row = db.accounts[i]]
      <3>1. c \in Calls /\ Equipped(c)
        BY <2>3, <2>d, IdleIsACall DEF GetAccount, Idle, Calls, Equipped
      <3> QED BY <2>3, <2>c, <2>0, <3>1 DEF GetAccount
    <2>4. ASSUME NEW u \in Callers, PrepareUpdate(u)
          PROVE  TypeOK'
      <3> DEFINE i == call[u].id
                 c == [call[u] EXCEPT !.pc = "update", !.seen = db.accounts[i]]
      <3>0. i \in Ids
        BY <2>4, <2>a, CallParts DEF PrepareUpdate, At
      <3>1. db.accounts[i] # NoAccount => c \in Calls /\ Equipped(c)
        BY <2>4, <2>a, <2>d, <3>0, ZenonT(40) DEF PrepareUpdate, At, Calls, Equipped
      <3> QED BY <2>4, <2>c, <2>0, <3>1, IdleIsACall DEF PrepareUpdate
    <2>5. ASSUME NEW u \in Callers, NEW s \in Statuses, UpdateStatus(u, s)
          PROVE  TypeOK'
      <3> DEFINE c == call[u]
      <3>1. At(u, "update") => RedisUpdateStatus(db, c.id, c.row.version, c.seen, s) \in Databases
                               /\ MysqlUpdateStatus(db, c.id, c.row.version, c.seen, s) \in Databases
        <4> SUFFICES ASSUME At(u, "update")
                     PROVE  /\ RedisUpdateStatus(db, c.id, c.row.version, c.seen, s) \in Databases
                            /\ MysqlUpdateStatus(db, c.id, c.row.version, c.seen, s) \in Databases
          OBVIOUS
        <4>1. /\ c.id \in Ids /\ c.row.version \in Nat /\ c.seen \in Rows /\ c.seen # NoAccount
              /\ c.info \in Counts
              /\ ProviderOf[c.id] \in Providers
          BY <2>a, CallParts DEF At
        <4> HIDE DEF c
        <4> QED BY <2>0, <4>1, RedisTypes, MysqlTypes
      <3>2. At(u, "copy") => SqliteUpdateStatus(db, c.id, c.row.version, s) \in Databases
        <4> SUFFICES ASSUME At(u, "copy")
                     PROVE  SqliteUpdateStatus(db, c.id, c.row.version, s) \in Databases
          OBVIOUS
        <4>1. /\ c.id \in Ids /\ c.row.version \in Nat /\ c.info \in Counts
              /\ ProviderOf[c.id] \in Providers
          BY <2>a, CallParts DEF At
        <4> HIDE DEF c
        <4> QED BY <2>0, <4>1, SqliteTypes
      <3> QED BY <2>5, <2>c, <3>1, <3>2, IdleIsACall DEF UpdateStatus, On
    <2>6. ASSUME NEW u \in Callers, UpdateOther(u)
          PROVE  TypeOK'
      <3> DEFINE c == call[u]
      <3>1. At(u, "update") \/ At(u, "copy") =>
               /\ RedisUpdateOther(db, c.id, c.row.version) \in Databases
               /\ MysqlUpdateOther(db, c.id, c.row.version) \in Databases
               /\ SqliteUpdateOther(db, c.id, c.row.version) \in Databases
        <4> SUFFICES ASSUME At(u, "update") \/ At(u, "copy")
                     PROVE  /\ RedisUpdateOther(db, c.id, c.row.version) \in Databases
                            /\ MysqlUpdateOther(db, c.id, c.row.version) \in Databases
                            /\ SqliteUpdateOther(db, c.id, c.row.version) \in Databases
          OBVIOUS
        <4>1. /\ c.id \in Ids /\ c.row.version \in Nat /\ c.info \in Counts
              /\ ProviderOf[c.id] \in Providers
          BY <2>a, CallParts DEF At
        <4>2. New("available") \in Rows /\ New("available") # NoAccount
          BY DEF New, Rows
        <4> HIDE DEF c
        <4> QED BY <2>0, <4>1, <4>2, RedisTypes, MysqlTypes, SqliteTypes
      <3> QED BY <2>6, <2>c, <3>1, IdleIsACall DEF UpdateOther, On
    <2>7. ASSUME NEW u \in Callers, NEW i \in Ids, PrepareRemove(u, i)
          PROVE  TypeOK'
      <3> DEFINE c == [Idle EXCEPT !.pc = "remove", !.id = i, !.seen = db.accounts[i]]
      <3>1. c \in Calls /\ Equipped(c)
        BY <2>7, <2>d, IdleIsACall DEF PrepareRemove, Idle, Calls, Equipped
      <3> QED BY <2>7, <2>c, <2>0, <3>1 DEF PrepareRemove
    <2>8. ASSUME NEW u \in Callers, NEW i \in Ids, PrepareNext(u, i)
          PROVE  TypeOK'
      <3> DEFINE c == [call[u] EXCEPT !.todo = @ \ {i}]
                 e == [call[u] EXCEPT !.todo = @ \ {i}, !.pc = "remove", !.id = i,
                                      !.seen = db.accounts[i]]
      <3>1. c \in Calls /\ Equipped(c)
        BY <2>8, <2>a DEF PrepareNext, At, Calls, Equipped
      <3>2. ASSUME db.accounts[i] # NoAccount PROVE e \in Calls /\ Equipped(e)
        <4>1. call[u] \in Calls /\ db.accounts[i] \in Rows
          BY <2>a, <2>d, <3>2
        <4>2. /\ e \in Calls /\ e.pc = "remove" /\ e.id = i
              /\ e.seen = db.accounts[i]
          <5> HIDE DEF NoAccount, NoProvider, None
          <5> QED BY <4>1 DEF Calls
        <4> QED BY <3>2, <4>2 DEF Equipped
      <3> QED BY <2>8, <2>c, <2>0, <3>1, <3>2 DEF PrepareNext
    <2>9. ASSUME NEW u \in Callers, RemoveAccount(u)
          PROVE  TypeOK'
      <3> DEFINE c == call[u]
                 e == [c EXCEPT !.pc = "stats", !.seen = NoAccount]
      <3>0. /\ c.id \in Ids /\ c.row.version \in Nat /\ c.seen \in Rows /\ c.seen # NoAccount
            /\ c.info \in Counts /\ c.seen.status \in Statuses
            /\ ProviderOf[c.id] \in Providers
        BY <2>9, <2>a, CallParts DEF RemoveAccount, At, Rows
      <3>1. e \in Calls /\ Equipped(e)
        <4>1. NoAccount \in Rows
          BY DEF Rows
        <4>2. c \in Calls
          BY <2>a
        <4>3. e \in Calls /\ e.pc = "stats" /\ e.id = c.id
          BY <4>1, <4>2 DEF Calls
        <4> QED BY <4>3, <3>0 DEF Equipped
      <3>2. RedisRemoveAccount(db, c.id, c.seen) \in Databases
            /\ MysqlRemoveAccount(db, c.id, c.seen) \in Databases
        <4> HIDE DEF c
        <4> QED BY <2>0, <3>0, RedisTypes, MysqlTypes
      <3> QED BY <2>9, <2>c, <3>1, <3>2, IdleIsACall DEF RemoveAccount, On
    <2>10. ASSUME NEW u \in Callers, RemoveStats(u)
           PROVE  TypeOK'
      <3> DEFINE e == [call[u] EXCEPT !.pc = "loop", !.id = None]
      <3>1. call[u].prov # None => e \in Calls /\ Equipped(e)
        <4>1. NoAccount \in Rows /\ "loop" # "stats"
          BY DEF Rows
        <4>2. call[u] \in Calls /\ (call[u].prov # None => call[u].prov \in Providers)
          BY <2>a DEF Calls
        <4> QED BY <4>1, <4>2 DEF Calls, Equipped
      <3>2. RedisRemoveStats(db, call[u].id) \in Databases
        BY <2>0 DEF RedisRemoveStats, Databases
      <3> QED BY <2>10, <2>c, <3>1, <3>2, IdleIsACall DEF RemoveStats
    <2>11. ASSUME NEW u \in Callers, NEW i \in Ids, NEW fk \in BOOLEAN, RemoveAtOnce(u, i, fk)
           PROVE  TypeOK'
      <3>1. SqliteRemoveAccount(db, i, fk) \in Databases
        <4>1. ProviderOf[i] \in Providers /\ Empty \in Counts /\ 0 \in Nat
              /\ "available" \in Statuses
          BY DEF Counts
        <4> QED BY <2>0, <4>1, SqliteTypes
      <3> QED BY <2>11, <2>b, <3>1 DEF RemoveAtOnce, On
    <2>12. ASSUME NEW u \in Callers, Searching(u)
           PROVE  TypeOK'
      BY <2>12, <2>c, <2>0, SearchGoesOn
    <2>13. ASSUME NEW u \in Callers, LoopDone(u)
           PROVE  TypeOK'
      <3>1. RedisRemoveProvider(db, call[u].prov) \in Databases
        BY <2>0 DEF RedisRemoveProvider, Databases, Counts
      <3> QED BY <2>13, <2>c, <2>0, <3>1, IdleIsACall DEF LoopDone
    <2>14. ASSUME NEW u \in Callers, NEW p \in Providers, NEW fk \in BOOLEAN,
                  RemoveAccounts(u, p, fk)
           PROVE  TypeOK'
      <3>1. ASSUME NEW D PROVE MysqlDeleted(db, D) \in Databases /\ SqliteDeleted(db, D, fk) \in Databases
        BY <2>0 DEF MysqlDeleted, SqliteDeleted, Databases, Rows
      <3> QED BY <2>14, <2>b, <3>1
              DEF RemoveAccounts, On, MysqlRemoveAccounts, SqliteRemoveAccounts
    <2>15. ASSUME NEW u \in Callers, NEW p \in Providers, NEW fk \in BOOLEAN,
                  RemoveProvider(u, p, fk)
           PROVE  TypeOK'
      <3>1. ASSUME NEW D PROVE MysqlDeleted(db, D) \in Databases /\ SqliteDeleted(db, D, fk) \in Databases
        BY <2>0 DEF MysqlDeleted, SqliteDeleted, Databases, Rows
      <3>2. ASSUME NEW d \in Databases PROVE [d EXCEPT !.providers[p] = NoProvider] \in Databases
        BY DEF Databases, Counts
      <3>3. MysqlRemoveProvider(db, p) \in Databases /\ SqliteRemoveProvider(db, p, fk) \in Databases
        BY <2>0, <3>1, <3>2 DEF MysqlRemoveProvider, SqliteRemoveProvider
      <3> QED BY <2>15, <2>b, <3>3 DEF RemoveProvider, On
    <2>16. ASSUME NEW u \in Callers, NEW p \in Providers, GetProvider(u, p)
           PROVE  TypeOK'
      <3> DEFINE c == [Idle EXCEPT !.pc = "info", !.prov = p, !.info = db.providers[p]]
      <3>1. c \in Calls /\ Equipped(c)
        BY <2>16, <2>0, IdleIsACall DEF GetProvider, Idle, Calls, Equipped, Databases
      <3> QED BY <2>16, <2>c, <2>0, <3>1 DEF GetProvider
    <2>17. ASSUME NEW u \in Callers, PrepareProvider(u)
           PROVE  TypeOK'
      <3> DEFINE c == [call[u] EXCEPT !.pc = "set"]
      <3>1. c \in Calls /\ Equipped(c)
        BY <2>17, <2>a DEF PrepareProvider, At, Calls, Equipped
      <3> QED BY <2>17, <2>c, <2>0, <3>1, IdleIsACall DEF PrepareProvider
    <2>18. ASSUME NEW u \in Callers, UpdateProvider(u)
           PROVE  TypeOK'
      <3> DEFINE c == call[u]
      <3>0. c.prov \in Providers /\ c.info \in Counts
        BY <2>18, <2>a, CallParts DEF UpdateProvider, At
      <3>1. /\ RedisUpdateProvider(db, c.prov, c.info) \in Databases
            /\ MysqlUpdateProvider(db, c.prov) \in Databases
            /\ SqliteUpdateProvider(db, c.prov, c.info) \in Databases
        <4> HIDE DEF c
        <4> QED BY <2>0, <3>0
                DEF Databases, RedisUpdateProvider, MysqlUpdateProvider, SqliteUpdateProvider
      <3> QED BY <2>18, <2>c, <3>1, IdleIsACall DEF UpdateProvider, On
    <2>19. ASSUME NEW u \in Callers, NEW i \in Ids, NEW fk \in BOOLEAN, IncrFailure(u, i, fk)
           PROVE  TypeOK'
      <3>1. /\ RedisIncrFailure(db, i) \in Databases
            /\ MysqlIncrFailure(db, i) \in Databases
            /\ SqliteIncrFailure(db, i, fk) \in Databases
        BY <2>0 DEF Databases, RedisIncrFailure, MysqlIncrFailure, SqliteIncrFailure
      <3> QED BY <2>19, <2>b, <3>1 DEF IncrFailure, On
    <2>20. ASSUME NEW u \in Callers, GiveUp(u)
           PROVE  TypeOK'
      BY <2>20, <2>c, <2>0, IdleIsACall DEF GiveUp
    <2>21. CASE UNCHANGED vars
      BY <2>21, <2>b, <2>0 DEF vars
    <2> QED BY <2>1, <2>2, <2>3, <2>4, <2>5, <2>6, <2>7, <2>8, <2>9, <2>10, <2>11, <2>12, <2>13,
               <2>14, <2>15, <2>16, <2>17, <2>18, <2>19, <2>20, <2>21 DEF Next, Searching
  <1> QED BY <1>1, <1>2, PTL DEF Spec

-----------------------------------------------------------------------------
\* The contract's view of a call: the account that it has read to change it.
CopyOf(c) == IF c.pc \in {"copy", "update"} THEN [id |-> c.id, row |-> c.row]
             ELSE [id |-> None, row |-> NoAccount]

\* A step of one call changes the contract's view of that call only.
LEMMA CopiesFollow ==
    ASSUME TypeOK, NEW u \in Callers, NEW c, Goes(u, c)
    PROVE  Copies' = [Copies EXCEPT ![u] = CopyOf(c)]
  BY DEF TypeOK, Goes, Copies, CopyOf

\* A call that holds no copy before and after is not seen.
LEMMA CopiesStay ==
    ASSUME TypeOK, NEW u \in Callers, NEW c, Goes(u, c), CopyOf(c) = CopyOf(call[u])
    PROVE  Copies' = Copies
  <1>1. Copies' = [Copies EXCEPT ![u] = CopyOf(c)]
    BY CopiesFollow
  <1>2. Copies = [w \in Callers |-> CopyOf(call[w])]
    BY DEF Copies, CopyOf
  <1> HIDE DEF Copies
  <1> QED BY <1>1, <1>2

\* A call that ends without having changed an account forgets its copy.
LEMMA EndForgets ==
    ASSUME TypeOK, NEW u \in Callers, Goes(u, Idle), UNCHANGED db
    PROVE  Contract!Next
  <1>1. Copies' = [Copies EXCEPT ![u] = Contract!Nothing]
    BY CopiesFollow DEF CopyOf, Idle, Contract!Nothing
  <1> QED BY <1>1 DEF Contract!Next, Contract!Forget

\* A stored account that is written with the next version, by a call that has read the
\* version it finds, is an update; a call that finds another version forgets its copy.
LEMMA WriteUpdates ==
    ASSUME StoreParameters, TypeOK, NEW u \in Callers, NEW s \in Statuses, Goes(u, Idle),
           call[u].pc \in {"copy", "update"},
           db.accounts[call[u].id] # NoAccount,
           db.accounts[call[u].id].version = call[u].row.version,
           db'.accounts = [db.accounts EXCEPT
                              ![call[u].id] = [status |-> s, version |-> call[u].row.version + 1]]
    PROVE  Contract!Next
  <1> DEFINE i == call[u].id
  <1>1. i \in Ids /\ i # None
    BY DEF TypeOK, Equipped, StoreParameters
  <1>2. Copies' = [Copies EXCEPT ![u] = Contract!Nothing]
    BY CopiesFollow DEF CopyOf, Idle, Contract!Nothing
  <1>3. Copies[u] = [id |-> i, row |-> call[u].row]
    BY DEF Copies
  <1>4. db'.accounts = [db.accounts EXCEPT ![i] = [status |-> s, version |-> @.version + 1]]
    BY <1>1 DEF TypeOK, Databases
  <1>5. Contract!Update(u, s)
    BY <1>1, <1>2, <1>3, <1>4 DEF Contract!Update, Contract!Nothing
  <1> QED BY <1>5 DEF Contract!Next

\* Accounts that go, by any call, are a removal.
LEMMA DropRemoves ==
    ASSUME NEW S \in SUBSET Ids, Copies' = Copies,
           db'.accounts = [i \in Ids |-> IF i \in S THEN NoAccount ELSE db.accounts[i]]
    PROVE  Contract!Next
  BY DEF Contract!Next, Contract!Remove

\* Whichever store is used, and however the calls of its users interleave, accounts are
\* added only where there is none and changed only from the version that the caller has
\* read: the promise of AccountStorage, and of UpdateAccount's optimistic locking.
THEOREM ImplementsContract == Spec => RowsSpec
  <1>1. Init => Contract!Init
    BY DEF Init, Contract!Init, Contract!Nothing, Copies, Idle
  <1>2. TypeOK /\ [Next]_vars => [Contract!Next]_<<db.accounts, Copies>>
    <2> SUFFICES ASSUME TypeOK, [Next]_vars
                 PROVE  Contract!Next \/ UNCHANGED <<db.accounts, Copies>>
      OBVIOUS
    <2> USE StoreParameters
    <2>0. db \in Databases /\ db.accounts \in [Ids -> Rows]
      BY DEF TypeOK, Databases
    <2>a. ASSUME NEW u \in Callers
          PROVE  call[u] \in Calls /\ Equipped(call[u])
      BY DEF TypeOK
    <2>b. ASSUME UNCHANGED <<db, call>>
          PROVE  UNCHANGED <<db.accounts, Copies>>
      BY <2>b DEF Copies
    <2>c. UNCHANGED call => Copies' = Copies
      BY DEF Copies
    <2>1. ASSUME NEW u \in Callers, NEW i \in Ids, NEW s \in Statuses, NEW fk \in BOOLEAN,
                 AddAccount(u, i, s, fk)
          PROVE  Contract!Next \/ UNCHANGED <<db.accounts, Copies>>
      <3>1. \/ db' = db
            \/ /\ db.accounts[i] = NoAccount
               /\ db'.accounts = [db.accounts EXCEPT ![i] = New(s)]
        BY <2>1, <2>0 DEF AddAccount, On, RedisAddAccount, MysqlAddAccount, SqliteAddAccount, Databases
      <3>2. db' # db => Contract!Add(i, s)
        BY <2>1, <3>1, <2>c DEF AddAccount, Contract!Add, New
      <3> QED BY <2>1, <3>2, <2>c DEF AddAccount, Contract!Next
    <2>2. ASSUME NEW u \in Callers, NEW p \in Providers, AddProvider(u, p)
          PROVE  UNCHANGED <<db.accounts, Copies>>
      BY <2>2, <2>c, <2>0 DEF AddProvider, On, RedisAddProvider, MysqlAddProvider, SqliteAddProvider,
                              Databases
    <2>3. ASSUME NEW u \in Callers, NEW i \in Ids, GetAccount(u, i)
          PROVE  Contract!Next
      <3> DEFINE c == [Idle EXCEPT !.pc = "copy", !.id = i, !.row = db.accounts[i]]
      <3>1. CopyOf(c) = [id |-> i, row |-> db.accounts[i]]
        BY DEF CopyOf, Idle
      <3>2. Copies' = [Copies EXCEPT ![u] = [id |-> i, row |-> db.accounts[i]]]
        BY <2>3, <3>1, CopiesFollow DEF GetAccount
      <3> QED BY <2>3, <3>2 DEF GetAccount, Contract!Next, Contract!Read
    <2>4. ASSUME NEW u \in Callers, PrepareUpdate(u)
          PROVE  Contract!Next \/ UNCHANGED <<db.accounts, Copies>>
      <3> DEFINE c == [call[u] EXCEPT !.pc = "update", !.seen = db.accounts[call[u].id]]
      <3>1. CASE db.accounts[call[u].id] = NoAccount
        BY <2>4, <3>1, EndForgets DEF PrepareUpdate
      <3>2. CASE db.accounts[call[u].id] # NoAccount
        <4>1. CopyOf(c) = CopyOf(call[u])
          BY <2>4, <2>a DEF PrepareUpdate, At, CopyOf, Calls
        <4> QED BY <2>4, <3>2, <4>1, CopiesStay DEF PrepareUpdate
      <3> QED BY <3>1, <3>2
    <2>5. ASSUME NEW u \in Callers, NEW s \in Statuses, UpdateStatus(u, s)
          PROVE  Contract!Next
      <3> DEFINE i == call[u].id
                 v == call[u].row.version
      <3>0. call[u].pc \in {"copy", "update"} /\ Goes(u, Idle) /\ i \in Ids
        BY <2>5, <2>a DEF UpdateStatus, At, Equipped
      <3>1. \/ db' = db
            \/ /\ db.accounts[i] # NoAccount /\ db.accounts[i].version = v
               /\ db'.accounts = [db.accounts EXCEPT ![i] = [status |-> s, version |-> v + 1]]
        <4>1. CASE At(u, "update") /\ On("redis", RedisUpdateStatus(db, i, v, call[u].seen, s))
          BY <4>1, <2>0, <3>0 DEF On, RedisUpdateStatus, MayUpdate, Databases
        <4>2. CASE At(u, "update") /\ On("mysql", MysqlUpdateStatus(db, i, v, call[u].seen, s))
          BY <4>2, <2>0, <3>0 DEF On, MysqlUpdateStatus, MysqlAffected, Databases
        <4>3. CASE At(u, "copy") /\ On("sqlite", SqliteUpdateStatus(db, i, v, s))
          BY <4>3, <2>0, <3>0 DEF On, SqliteUpdateStatus, SqliteAffected, Databases
        <4> QED BY <2>5, <4>1, <4>2, <4>3 DEF UpdateStatus
      <3> QED BY <3>0, <3>1, EndForgets, WriteUpdates
    <2>6. ASSUME NEW u \in Callers, UpdateOther(u)
          PROVE  Contract!Next
      <3> DEFINE i == call[u].id
                 v == call[u].row.version
                 s == db.accounts[i].status
      <3>0. call[u].pc \in {"copy", "update"} /\ Goes(u, Idle) /\ i \in Ids
        BY <2>6, <2>a DEF UpdateOther, At, Equipped
      <3>1. \/ db' = db
            \/ /\ db.accounts[i] # NoAccount /\ db.accounts[i].version = v
               /\ db'.accounts = [db.accounts EXCEPT ![i].version = @ + 1]
        BY <2>6, <2>0, <3>0
           DEF UpdateOther, On, RedisUpdateOther, MayUpdate, MysqlUpdateOther, MysqlAffected,
               SqliteUpdateOther, SqliteAffected, Databases
      <3>2. db.accounts[i] # NoAccount /\ db.accounts[i].version = v =>
               /\ s \in Statuses
               /\ [db.accounts EXCEPT ![i].version = @ + 1]
                     = [db.accounts EXCEPT ![i] = [status |-> s, version |-> v + 1]]
        BY <2>0, <3>0 DEF Rows
      <3> HIDE DEF s
      <3> QED BY <3>0, <3>1, <3>2, EndForgets, WriteUpdates
    <2>7. ASSUME NEW u \in Callers, NEW i \in Ids, PrepareRemove(u, i)
          PROVE  UNCHANGED <<db.accounts, Copies>>
      <3>1. CopyOf([Idle EXCEPT !.pc = "remove", !.id = i, !.seen = db.accounts[i]])
               = CopyOf(call[u])
        BY <2>7 DEF PrepareRemove, At, CopyOf, Idle
      <3> QED BY <2>7, <3>1, CopiesStay DEF PrepareRemove
    <2>8. ASSUME NEW u \in Callers, NEW i \in Ids, PrepareNext(u, i)
          PROVE  UNCHANGED <<db.accounts, Copies>>
      <3> DEFINE c == [call[u] EXCEPT !.todo = @ \ {i}]
                 e == [call[u] EXCEPT !.todo = @ \ {i}, !.pc = "remove", !.id = i,
                                      !.seen = db.accounts[i]]
      <3>1. CopyOf(c) = CopyOf(call[u]) /\ CopyOf(e) = CopyOf(call[u])
        BY <2>8, <2>a DEF PrepareNext, At, CopyOf, Calls
      <3>2. Goes(u, c) \/ Goes(u, e)
        BY <2>8 DEF PrepareNext
      <3> HIDE DEF c, e
      <3> QED BY <2>8, <3>1, <3>2, CopiesStay DEF PrepareNext
    <2>9. ASSUME NEW u \in Callers, RemoveAccount(u)
          PROVE  Contract!Next
      <3> DEFINE e == [call[u] EXCEPT !.pc = "stats", !.seen = NoAccount]
      <3>1. CopyOf(e) = CopyOf(call[u]) /\ CopyOf(Idle) = CopyOf(call[u])
        BY <2>9, <2>a DEF RemoveAccount, At, CopyOf, Calls, Idle
      <3>2. Goes(u, e) \/ Goes(u, Idle)
        BY <2>9 DEF RemoveAccount
      <3>3. call[u].id \in Ids
        BY <2>9, <2>a DEF RemoveAccount, At, Equipped
      <3>4. db'.accounts = [i \in Ids |-> IF i \in {call[u].id} THEN NoAccount ELSE db.accounts[i]]
        <4>1. db'.accounts = [db.accounts EXCEPT ![call[u].id] = NoAccount]
          BY <2>9, <2>0 DEF RemoveAccount, On, RedisRemoveAccount, MysqlRemoveAccount, Databases
        <4> QED BY <2>0, <3>3, <4>1
      <3>5. Copies' = Copies
        <4> HIDE DEF e
        <4> QED BY <3>1, <3>2, CopiesStay
      <3> QED BY <3>3, <3>4, <3>5, DropRemoves
    <2>10. ASSUME NEW u \in Callers, RemoveStats(u)
           PROVE  UNCHANGED <<db.accounts, Copies>>
      <3> DEFINE e == [call[u] EXCEPT !.pc = "loop", !.id = None]
      <3>1. CopyOf(e) = CopyOf(call[u]) /\ CopyOf(Idle) = CopyOf(call[u])
        BY <2>10, <2>a DEF RemoveStats, At, CopyOf, Calls, Idle
      <3>2. Goes(u, e) \/ Goes(u, Idle)
        BY <2>10 DEF RemoveStats
      <3>3. UNCHANGED db.accounts
        BY <2>10, <2>0 DEF RemoveStats, RedisRemoveStats, Databases
      <3> HIDE DEF e
      <3> QED BY <3>1, <3>2, <3>3, CopiesStay
    <2>11. ASSUME NEW u \in Callers, NEW i \in Ids, NEW fk \in BOOLEAN, RemoveAtOnce(u, i, fk)
           PROVE  Contract!Next
      <3>1. db'.accounts = [j \in Ids |-> IF j \in {i} THEN NoAccount ELSE db.accounts[j]]
        BY <2>11, <2>0 DEF RemoveAtOnce, On, SqliteRemoveAccount, SqliteDeleted, Databases
      <3> QED BY <2>11, <3>1, <2>c, DropRemoves DEF RemoveAtOnce
    <2>12. ASSUME NEW u \in Callers, Searching(u)
           PROVE  UNCHANGED <<db.accounts, Copies>>
      <3>1. PICK c \in Calls : Goes(u, c) /\ c.pc \in {"cascade", "fetch", "loop"}
        BY <2>12, SearchGoesOn
      <3>2. CopyOf(c) = CopyOf(call[u])
        BY <2>12, <3>1, SearchGoesOn DEF CopyOf
      <3> QED BY <2>12, <3>1, <3>2, CopiesStay, SearchGoesOn
    <2>13. ASSUME NEW u \in Callers, LoopDone(u)
           PROVE  UNCHANGED <<db.accounts, Copies>>
      <3>1. CopyOf(Idle) = CopyOf(call[u])
        BY <2>13 DEF LoopDone, At, CopyOf, Idle
      <3>2. UNCHANGED db.accounts
        BY <2>13, <2>0 DEF LoopDone, RedisRemoveProvider, Databases
      <3> QED BY <2>13, <3>1, <3>2, CopiesStay DEF LoopDone
    <2>14. ASSUME NEW u \in Callers, NEW p \in Providers, NEW fk \in BOOLEAN,
                  RemoveAccounts(u, p, fk)
           PROVE  Contract!Next
      <3>0. ASSUME NEW D
            PROVE  /\ MysqlDeleted(db, D).accounts
                         = [j \in Ids |-> IF j \in D THEN NoAccount ELSE db.accounts[j]]
                   /\ SqliteDeleted(db, D, fk).accounts
                         = [j \in Ids |-> IF j \in D THEN NoAccount ELSE db.accounts[j]]
        BY <2>0 DEF MysqlDeleted, SqliteDeleted, Databases
      <3> DEFINE D == MysqlSearchAccounts(db, OfProvider(p))
      <3>1. /\ D \in SUBSET Ids
            /\ D = SqliteSearchAccounts(db, OfProvider(p))
        BY DEF MysqlSearchAccounts, SqliteSearchAccounts, StoredIn
      <3>2. db'.accounts = [j \in Ids |-> IF j \in D THEN NoAccount ELSE db.accounts[j]]
        <4> HIDE DEF D
        <4> QED BY <2>14, <3>0, <3>1 DEF RemoveAccounts, On, MysqlRemoveAccounts, SqliteRemoveAccounts, D
      <3> QED BY <2>14, <3>1, <3>2, <2>c, DropRemoves DEF RemoveAccounts
    <2>15. ASSUME NEW u \in Callers, NEW p \in Providers, NEW fk \in BOOLEAN,
                  RemoveProvider(u, p, fk)
           PROVE  Contract!Next
      <3>0. ASSUME NEW D
            PROVE  /\ [MysqlDeleted(db, D) EXCEPT !.providers[p] = NoProvider].accounts
                         = [j \in Ids |-> IF j \in D THEN NoAccount ELSE db.accounts[j]]
                   /\ [SqliteDeleted(db, D, fk) EXCEPT !.providers[p] = NoProvider].accounts
                         = [j \in Ids |-> IF j \in D THEN NoAccount ELSE db.accounts[j]]
        BY <2>0 DEF MysqlDeleted, SqliteDeleted, Databases
      <3> DEFINE A == AccountsIn(db, p)
                 D == IF backend = "mysql" \/ fk THEN A ELSE {}
                 dropped == [j \in Ids |-> IF j \in D THEN NoAccount ELSE db.accounts[j]]
      <3>1. D \in SUBSET Ids
        BY DEF AccountsIn, StoredIn
      <3>2. db'.accounts = dropped
        <4>1. CASE On("mysql", MysqlRemoveProvider(db, p))
          <5>1. D = A
            BY <4>1 DEF On
          <5> HIDE DEF D
          <5> QED BY <4>1, <5>1, <3>0 DEF On, MysqlRemoveProvider
        <4>2. CASE On("sqlite", SqliteRemoveProvider(db, p, fk))
          <5>1. D = IF fk THEN A ELSE {}
            BY <4>2 DEF On
          <5>2. db.providers[p] # NoProvider
            BY <2>15 DEF RemoveProvider
          <5> HIDE DEF D
          <5>3. db' = [SqliteDeleted(db, D, fk) EXCEPT !.providers[p] = NoProvider]
            BY <4>2, <5>1, <5>2 DEF On, SqliteRemoveProvider
          <5> QED BY <5>3, <3>0
        <4> QED BY <2>15, <4>1, <4>2 DEF RemoveProvider
      <3> QED BY <2>15, <3>1, <3>2, <2>c, DropRemoves DEF RemoveProvider
    <2>16. ASSUME NEW u \in Callers, NEW p \in Providers, GetProvider(u, p)
           PROVE  UNCHANGED <<db.accounts, Copies>>
      <3>1. CopyOf([Idle EXCEPT !.pc = "info", !.prov = p, !.info = db.providers[p]])
               = CopyOf(call[u])
        BY <2>16 DEF GetProvider, At, CopyOf, Idle
      <3> QED BY <2>16, <3>1, CopiesStay DEF GetProvider
    <2>17. ASSUME NEW u \in Callers, PrepareProvider(u)
           PROVE  UNCHANGED <<db.accounts, Copies>>
      <3> DEFINE e == [call[u] EXCEPT !.pc = "set"]
      <3>1. CopyOf(e) = CopyOf(call[u]) /\ CopyOf(Idle) = CopyOf(call[u])
        BY <2>17, <2>a DEF PrepareProvider, At, CopyOf, Calls, Idle
      <3>2. Goes(u, e) \/ Goes(u, Idle)
        BY <2>17 DEF PrepareProvider
      <3> HIDE DEF e
      <3> QED BY <2>17, <3>1, <3>2, CopiesStay DEF PrepareProvider
    <2>18. ASSUME NEW u \in Callers, UpdateProvider(u)
           PROVE  UNCHANGED <<db.accounts, Copies>>
      <3>1. CopyOf(Idle) = CopyOf(call[u])
        BY <2>18 DEF UpdateProvider, At, CopyOf, Idle
      <3>2. UNCHANGED db.accounts
        BY <2>18, <2>0 DEF UpdateProvider, On, RedisUpdateProvider, MysqlUpdateProvider,
                           SqliteUpdateProvider, Databases
      <3> QED BY <2>18, <3>1, <3>2, CopiesStay DEF UpdateProvider
    <2>19. ASSUME NEW u \in Callers, NEW i \in Ids, NEW fk \in BOOLEAN, IncrFailure(u, i, fk)
           PROVE  UNCHANGED <<db.accounts, Copies>>
      BY <2>19, <2>c, <2>0 DEF IncrFailure, On, RedisIncrFailure, MysqlIncrFailure,
                               SqliteIncrFailure, Databases
    <2>20. ASSUME NEW u \in Callers, GiveUp(u)
           PROVE  Contract!Next
      BY <2>20, EndForgets DEF GiveUp
    <2>21. CASE UNCHANGED vars
      BY <2>21, <2>b DEF vars
    <2> QED BY <2>1, <2>2, <2>3, <2>4, <2>5, <2>6, <2>7, <2>8, <2>9, <2>10, <2>11, <2>12, <2>13,
               <2>14, <2>15, <2>16, <2>17, <2>18, <2>19, <2>20, <2>21, ZenonT(40) DEF Next, Searching
  <1> QED BY <1>1, <1>2, TypeCorrect, PTL DEF Spec, RowsSpec, Contract!Spec, Contract!vars

-----------------------------------------------------------------------------
\* Every account has its provider, and only accounts have statistics.
Whole(d) == \A i \in Ids : /\ d.accounts[i] # NoAccount => d.providers[ProviderOf[i]] # NoProvider
                           /\ i \in d.failing => d.accounts[i] # NoAccount

RedisOnly == {"cascade", "fetch", "stats", "loop", "set"}
USE DEF RedisOnly

\* NothingOrphaned alone is not inductive: a loop of removals, as Redis runs it, would end with
\* the provider removed under accounts added meanwhile.  No other store has such loops.
Enforced == backend = "mysql" \/ (backend = "sqlite" /\ ~lax)
Integrity == /\ Enforced => Whole(db)
             /\ \A u \in Callers : call[u].pc \in RedisOnly => backend = "redis"

-----------------------------------------------------------------------------
\* No change of the counts makes a provider disappear.
LEMMA CountingKeepsProviders ==
    ASSUME NEW c \in Counts, c # NoProvider, NEW s \in Statuses, NEW t \in Statuses
    PROVE  /\ Counted(c, 1, One(s)) # NoProvider
           /\ CountedFloored(c, -1, -One(s)) # NoProvider
           /\ CountedFloored(c, 0, One(s) - One(t)) # NoProvider
  BY DEF Counts, Counted, CountedFloored, Floored, One

\* A call leaves a whole database whole, whichever of the two stores it is made to.
LEMMA AddWhole ==
    ASSUME StoreParameters, NEW d \in Databases, Whole(d), NEW i \in Ids, NEW s \in Statuses
    PROVE  Whole(MysqlAddAccount(d, i, s)) /\ Whole(SqliteAddAccount(d, i, s, TRUE))
  <1> USE DEF Databases, Whole
  <1>0. /\ \A j \in Ids : ProviderOf[j] \in Providers
        /\ d.providers[ProviderOf[i]] \in Counts
    BY DEF StoreParameters
  <1>1. d.providers[ProviderOf[i]] # NoProvider =>
           Counted(d.providers[ProviderOf[i]], 1, One(s)) # NoProvider
    BY <1>0, CountingKeepsProviders
  <1>2. New(s) # NoAccount
    BY DEF New
  <1> QED BY <1>0, <1>1, <1>2 DEF MysqlAddAccount, SqliteAddAccount

\* A change of the status.
LEMMA MysqlStatusWhole ==
    ASSUME StoreParameters, NEW d \in Databases, Whole(d), NEW i \in Ids, NEW s \in Statuses,
           NEW v \in Nat, NEW seen \in Rows, seen # NoAccount
    PROVE  Whole(MysqlUpdateStatus(d, i, v, seen, s))
  <1> USE DEF Databases, Whole
  <1>0. /\ \A j \in Ids : ProviderOf[j] \in Providers
        /\ d.providers[ProviderOf[i]] \in Counts /\ seen.status \in Statuses
    BY DEF StoreParameters, Rows
  <1>1. d.providers[ProviderOf[i]] # NoProvider =>
           CountedFloored(d.providers[ProviderOf[i]], 0, AvailableDelta(seen, s)) # NoProvider
    BY <1>0, CountingKeepsProviders DEF AvailableDelta
  <1>2. [status |-> s, version |-> v + 1] # NoAccount
    OBVIOUS
  <1> QED BY <1>0, <1>1, <1>2 DEF MysqlUpdateStatus, MysqlAffected

\* The same of SQLite.
LEMMA SqliteStatusWhole ==
    ASSUME StoreParameters, NEW d \in Databases, Whole(d), NEW i \in Ids, NEW s \in Statuses,
           NEW v \in Nat
    PROVE  Whole(SqliteUpdateStatus(d, i, v, s))
  <1> USE DEF Databases, Whole
  <1>0. /\ \A j \in Ids : ProviderOf[j] \in Providers
        /\ d.providers[ProviderOf[i]] \in Counts
        /\ d.accounts[i] # NoAccount => d.accounts[i].status \in Statuses
    BY DEF StoreParameters, Rows
  <1>1. d.accounts[i] # NoAccount =>
           CountedFloored(d.providers[ProviderOf[i]], 0, One(s) - One(d.accounts[i].status))
              # NoProvider
    BY <1>0, CountingKeepsProviders
  <1>2. [status |-> s, version |-> v + 1] # NoAccount
    OBVIOUS
  <1> QED BY <1>0, <1>1, <1>2 DEF SqliteUpdateStatus, SqliteAffected

\* Any other change of an account.
LEMMA OtherWhole ==
    ASSUME StoreParameters, NEW d \in Databases, Whole(d), NEW i \in Ids, NEW v \in Nat
    PROVE  Whole(MysqlUpdateOther(d, i, v)) /\ Whole(SqliteUpdateOther(d, i, v))
  <1> USE DEF Databases, Whole
  <1>1. d.accounts[i] # NoAccount => [d.accounts[i] EXCEPT !.version = @ + 1] # NoAccount
    BY DEF Rows
  <1> QED BY <1>1 DEF MysqlUpdateOther, MysqlAffected, SqliteUpdateOther, SqliteAffected

\* The removal of one account.
LEMMA MysqlRemoveWhole ==
    ASSUME StoreParameters, NEW d \in Databases, Whole(d), NEW i \in Ids,
           NEW seen \in Rows, seen # NoAccount
    PROVE  Whole(MysqlRemoveAccount(d, i, seen))
  <1> USE DEF Databases, Whole
  <1>0. /\ \A j \in Ids : ProviderOf[j] \in Providers
        /\ d.providers[ProviderOf[i]] \in Counts /\ seen.status \in Statuses
    BY DEF StoreParameters, Rows
  <1>1. d.providers[ProviderOf[i]] # NoProvider =>
           CountedFloored(d.providers[ProviderOf[i]], -1, -One(seen.status)) # NoProvider
    BY <1>0, CountingKeepsProviders
  <1> QED BY <1>0, <1>1 DEF MysqlRemoveAccount

\* The same of SQLite.
LEMMA SqliteRemoveWhole ==
    ASSUME StoreParameters, NEW d \in Databases, Whole(d), NEW i \in Ids
    PROVE  Whole(SqliteRemoveAccount(d, i, TRUE))
  <1> USE DEF Databases, Whole
  <1>0. /\ \A j \in Ids : ProviderOf[j] \in Providers
        /\ d.providers[ProviderOf[i]] \in Counts
        /\ d.accounts[i] # NoAccount => d.accounts[i].status \in Statuses
    BY DEF StoreParameters, Rows
  <1>1. d.accounts[i] # NoAccount =>
           CountedFloored(d.providers[ProviderOf[i]], -1, -One(d.accounts[i].status)) # NoProvider
    BY <1>0, CountingKeepsProviders
  <1> QED BY <1>0, <1>1 DEF SqliteRemoveAccount, SqliteDeleted

\* A failure that is counted for an account, which may have gone.
LEMMA IncrWhole ==
    ASSUME NEW d \in Databases, Whole(d), NEW i \in Ids
    PROVE  Whole(MysqlIncrFailure(d, i)) /\ Whole(SqliteIncrFailure(d, i, TRUE))
  BY DEF Databases, Whole, MysqlIncrFailure, SqliteIncrFailure

\* The removal of the accounts of a provider, and of the provider with its accounts.
LEMMA RemoveManyWhole ==
    ASSUME StoreParameters, NEW d \in Databases, Whole(d), NEW p \in Providers
    PROVE  /\ Whole(MysqlRemoveAccounts(d, OfProvider(p)))
           /\ Whole(SqliteRemoveAccounts(d, OfProvider(p), TRUE))
           /\ Whole(MysqlRemoveProvider(d, p))
           /\ Whole(SqliteRemoveProvider(d, p, TRUE))
  <1> USE DEF Databases, Whole
  <1>0. \A j \in Ids : ProviderOf[j] \in Providers
    BY DEF StoreParameters
  <1>1. Whole(MysqlRemoveAccounts(d, OfProvider(p)))
    BY DEF MysqlRemoveAccounts, MysqlDeleted
  <1>2. Whole(SqliteRemoveAccounts(d, OfProvider(p), TRUE))
    BY DEF SqliteRemoveAccounts, SqliteDeleted
  <1>3. Whole(MysqlRemoveProvider(d, p))
    BY <1>0 DEF MysqlRemoveProvider, MysqlDeleted, AccountsIn, StoredIn
  <1>4. Whole(SqliteRemoveProvider(d, p, TRUE))
    BY <1>0 DEF SqliteRemoveProvider, SqliteDeleted, AccountsIn, StoredIn
  <1> QED BY <1>1, <1>2, <1>3, <1>4

-----------------------------------------------------------------------------
\* MySQL keeps no account without its provider and no statistics without their account,
\* and nor does SQLite while every call runs on a connection with foreign keys.
THEOREM NothingIsOrphaned == Spec => []NothingOrphaned
  <1>1. Init => Integrity
    BY DEF Init, Integrity, Enforced, Whole, Idle
  <1>2. TypeOK /\ Integrity /\ [Next]_vars => Integrity'
    <2> SUFFICES ASSUME TypeOK, Integrity, [Next]_vars PROVE Integrity'
      OBVIOUS
    <2> USE StoreParameters
    <2>0. db \in Databases /\ backend \in Backends
      BY DEF TypeOK
    <2>a. ASSUME NEW u \in Callers
          PROVE  call[u] \in Calls /\ Equipped(call[u])
      BY DEF TypeOK
    <2>b. ASSUME UNCHANGED <<backend, call>>, Enforced' => Enforced,
                 Enforced' /\ Whole(db) => Whole(db')
          PROVE  Integrity'
      BY <2>b DEF Integrity
    <2>c. ASSUME UNCHANGED backend, Enforced' => Enforced, Enforced' /\ Whole(db) => Whole(db'),
                 NEW u \in Callers, NEW c, Goes(u, c),
                 c.pc \in RedisOnly => backend = "redis"
          PROVE  Integrity'
      BY <2>c, CallsStayCalls DEF Integrity, TypeOK, Goes
    <2>d. UNCHANGED <<backend, lax>> => (Enforced' <=> Enforced)
      BY DEF Enforced
    <2>e. ASSUME NEW fk \in BOOLEAN, Connection(fk), UNCHANGED backend
          PROVE  /\ Enforced' => Enforced
                 /\ Enforced' /\ backend = "sqlite" => fk = TRUE
      BY <2>e DEF Connection, Enforced
    <2>f. Idle.pc = "idle"
      BY DEF Idle
    <2>1. ASSUME NEW u \in Callers, NEW i \in Ids, NEW s \in Statuses, NEW fk \in BOOLEAN,
                 AddAccount(u, i, s, fk)
          PROVE  Integrity'
      <3>1. Enforced' /\ Whole(db) => Whole(db')
        <4> SUFFICES ASSUME Enforced', Whole(db) PROVE Whole(db')
          OBVIOUS
        <4>1. Whole(MysqlAddAccount(db, i, s)) /\ Whole(SqliteAddAccount(db, i, s, TRUE))
          BY <2>0, AddWhole
        <4> QED BY <2>1, <2>e, <4>1 DEF AddAccount, On, Enforced
      <3> QED BY <2>1, <2>b, <2>e, <3>1 DEF AddAccount
    <2>2. ASSUME NEW u \in Callers, NEW p \in Providers, AddProvider(u, p)
          PROVE  Integrity'
      <3>1. Enforced' /\ Whole(db) => Whole(db')
        BY <2>2, <2>0 DEF AddProvider, On, Enforced, MysqlAddProvider, SqliteAddProvider, Whole,
                         Databases
      <3> QED BY <2>2, <2>b, <2>d, <3>1 DEF AddProvider
    <2>3. ASSUME NEW u \in Callers, NEW i \in Ids, GetAccount(u, i)
          PROVE  Integrity'
      <3> DEFINE c == [Idle EXCEPT !.pc = "copy", !.id = i, !.row = db.accounts[i]]
      <3>1. c.pc \notin RedisOnly
        BY DEF Idle
      <3> QED BY <2>3, <2>c, <2>d, <3>1 DEF GetAccount
    <2>4. ASSUME NEW u \in Callers, PrepareUpdate(u)
          PROVE  Integrity'
      <3> DEFINE c == [call[u] EXCEPT !.pc = "update", !.seen = db.accounts[call[u].id]]
      <3>1. c.pc \notin RedisOnly /\ Idle.pc \notin RedisOnly
        BY <2>a DEF Idle, Calls
      <3>2. Goes(u, c) \/ Goes(u, Idle)
        BY <2>4 DEF PrepareUpdate
      <3> HIDE DEF c
      <3> QED BY <2>4, <2>c, <2>d, <3>1, <3>2 DEF PrepareUpdate
    <2>5. ASSUME NEW u \in Callers, NEW s \in Statuses, UpdateStatus(u, s)
          PROVE  Integrity'
      <3>0. /\ call[u].id \in Ids /\ call[u].row.version \in Nat /\ call[u].seen \in Rows
            /\ At(u, "update") => call[u].seen # NoAccount
        BY <2>5, <2>a, CallParts DEF UpdateStatus, At
      <3>1. Enforced' /\ Whole(db) => Whole(db')
        BY <2>5, <3>0, <2>0, MysqlStatusWhole, SqliteStatusWhole DEF UpdateStatus, On, Enforced
      <3> QED BY <2>5, <2>c, <2>d, <2>f, <3>1 DEF UpdateStatus
    <2>6. ASSUME NEW u \in Callers, UpdateOther(u)
          PROVE  Integrity'
      <3>0. call[u].id \in Ids /\ call[u].row.version \in Nat
        BY <2>6, <2>a, CallParts DEF UpdateOther, At
      <3>1. Enforced' /\ Whole(db) => Whole(db')
        BY <2>6, <3>0, <2>0, OtherWhole DEF UpdateOther, On, Enforced
      <3> QED BY <2>6, <2>c, <2>d, <2>f, <3>1 DEF UpdateOther
    <2>7. ASSUME NEW u \in Callers, NEW i \in Ids, PrepareRemove(u, i)
          PROVE  Integrity'
      <3> DEFINE c == [Idle EXCEPT !.pc = "remove", !.id = i, !.seen = db.accounts[i]]
      <3>1. c.pc \notin RedisOnly
        BY DEF Idle
      <3> QED BY <2>7, <2>c, <2>d, <3>1 DEF PrepareRemove
    <2>8. ASSUME NEW u \in Callers, NEW i \in Ids, PrepareNext(u, i)
          PROVE  Integrity'
      <3> DEFINE c == [call[u] EXCEPT !.todo = @ \ {i}]
                 e == [call[u] EXCEPT !.todo = @ \ {i}, !.pc = "remove", !.id = i,
                                      !.seen = db.accounts[i]]
      <3>1. backend = "redis"
        BY <2>8 DEF PrepareNext, At, Integrity
      <3>2. Goes(u, c) \/ Goes(u, e)
        BY <2>8 DEF PrepareNext
      <3> HIDE DEF c, e
      <3> QED BY <2>8, <2>c, <2>d, <3>1, <3>2 DEF PrepareNext
    <2>9. ASSUME NEW u \in Callers, RemoveAccount(u)
          PROVE  Integrity'
      <3> DEFINE e == [call[u] EXCEPT !.pc = "stats", !.seen = NoAccount]
      <3>0. call[u].id \in Ids /\ call[u].seen \in Rows /\ call[u].seen # NoAccount
        BY <2>9, <2>a, CallParts DEF RemoveAccount, At
      <3>1. Enforced' /\ Whole(db) => Whole(db')
        BY <2>9, <3>0, <2>0, MysqlRemoveWhole DEF RemoveAccount, On, Enforced
      <3>2. (backend = "redis" /\ Goes(u, e)) \/ Goes(u, Idle)
        BY <2>9 DEF RemoveAccount, On
      <3> HIDE DEF e
      <3> QED BY <2>9, <2>c, <2>d, <2>f, <3>1, <3>2 DEF RemoveAccount
    <2>10. ASSUME NEW u \in Callers, RemoveStats(u)
           PROVE  Integrity'
      <3> DEFINE e == [call[u] EXCEPT !.pc = "loop", !.id = None]
      <3>1. backend = "redis"
        BY <2>10 DEF RemoveStats, At, Integrity
      <3>2. Goes(u, e) \/ Goes(u, Idle)
        BY <2>10 DEF RemoveStats
      <3> HIDE DEF e
      <3> QED BY <2>10, <2>c, <2>d, <3>1, <3>2 DEF RemoveStats, Enforced
    <2>11. ASSUME NEW u \in Callers, NEW i \in Ids, NEW fk \in BOOLEAN, RemoveAtOnce(u, i, fk)
           PROVE  Integrity'
      <3>1. Enforced' /\ Whole(db) => Whole(db')
        BY <2>11, <2>e, <2>0, SqliteRemoveWhole DEF RemoveAtOnce, On
      <3> QED BY <2>11, <2>b, <2>e, <3>1 DEF RemoveAtOnce
    <2>12. ASSUME NEW u \in Callers, Searching(u)
           PROVE  Integrity'
      <3>1. PICK c : Goes(u, c)
        BY <2>12, SearchGoesOn
      <3>2. backend = "redis" /\ UNCHANGED <<backend, db, lax>>
        BY <2>12, SearchGoesOn DEF Integrity
      <3> QED BY <2>c, <2>d, <3>1, <3>2
    <2>13. ASSUME NEW u \in Callers, LoopDone(u)
           PROVE  Integrity'
      <3>1. backend = "redis"
        BY <2>13 DEF LoopDone, At, Integrity
      <3> QED BY <2>13, <2>c, <2>d, <3>1 DEF LoopDone, Enforced
    <2>14. ASSUME NEW u \in Callers, NEW p \in Providers, NEW fk \in BOOLEAN,
                  RemoveAccounts(u, p, fk)
           PROVE  Integrity'
      <3>1. Enforced' /\ Whole(db) => Whole(db')
        <4>1. \/ backend = "mysql" /\ db' = MysqlRemoveAccounts(db, OfProvider(p))
              \/ backend = "sqlite" /\ db' = SqliteRemoveAccounts(db, OfProvider(p), fk)
          BY <2>14 DEF RemoveAccounts, On
        <4>2. backend = "sqlite" /\ Enforced' => fk
          BY <2>14, <2>e DEF RemoveAccounts
        <4>3. CASE fk
          BY <4>1, <4>3, <2>0, RemoveManyWhole, ZenonT(40)
        <4>4. CASE ~fk
          BY <4>1, <4>2, <4>4, <2>0, RemoveManyWhole, ZenonT(40)
        <4> QED BY <4>3, <4>4
      <3> QED BY <2>14, <2>b, <2>e, <3>1 DEF RemoveAccounts
    <2>15. ASSUME NEW u \in Callers, NEW p \in Providers, NEW fk \in BOOLEAN,
                  RemoveProvider(u, p, fk)
           PROVE  Integrity'
      <3>1. Enforced' /\ Whole(db) => Whole(db')
        <4>1. \/ backend = "mysql" /\ db' = MysqlRemoveProvider(db, p)
              \/ backend = "sqlite" /\ db' = SqliteRemoveProvider(db, p, fk)
          BY <2>15 DEF RemoveProvider, On
        <4>2. backend = "sqlite" /\ Enforced' => fk
          BY <2>15, <2>e DEF RemoveProvider
        <4>3. CASE fk
          BY <4>1, <4>3, <2>0, RemoveManyWhole, ZenonT(40)
        <4>4. CASE ~fk
          BY <4>1, <4>2, <4>4, <2>0, RemoveManyWhole, ZenonT(40)
        <4> QED BY <4>3, <4>4
      <3> QED BY <2>15, <2>b, <2>e, <3>1 DEF RemoveProvider
    <2>16. ASSUME NEW u \in Callers, NEW p \in Providers, GetProvider(u, p)
           PROVE  Integrity'
      <3> DEFINE c == [Idle EXCEPT !.pc = "info", !.prov = p, !.info = db.providers[p]]
      <3>1. c.pc \notin RedisOnly
        BY DEF Idle
      <3> QED BY <2>16, <2>c, <2>d, <3>1 DEF GetProvider
    <2>17. ASSUME NEW u \in Callers, PrepareProvider(u)
           PROVE  Integrity'
      <3> DEFINE e == [call[u] EXCEPT !.pc = "set"]
      <3>1. (Goes(u, e) \/ Goes(u, Idle)) /\ backend = "redis"
        BY <2>17 DEF PrepareProvider
      <3> HIDE DEF e
      <3> QED BY <2>17, <2>c, <2>d, <3>1 DEF PrepareProvider
    <2>18. ASSUME NEW u \in Callers, UpdateProvider(u)
           PROVE  Integrity'
      <3>0. /\ call[u].prov \in Providers /\ call[u].info \in Counts
            /\ At(u, "info") => call[u].info # NoProvider
        BY <2>18, <2>a, CallParts DEF UpdateProvider, At, Equipped
      <3>1. Enforced' /\ Whole(db) => Whole(db')
        BY <2>18, <3>0, <2>0 DEF UpdateProvider, On, Enforced, MysqlUpdateProvider,
                                 SqliteUpdateProvider, Whole, Databases
      <3> QED BY <2>18, <2>c, <2>d, <2>f, <3>1 DEF UpdateProvider
    <2>19. ASSUME NEW u \in Callers, NEW i \in Ids, NEW fk \in BOOLEAN, IncrFailure(u, i, fk)
           PROVE  Integrity'
      <3>1. Enforced' /\ Whole(db) => Whole(db')
        BY <2>19, <2>e, <2>0, IncrWhole, ZenonT(40) DEF IncrFailure, On, Enforced
      <3> QED BY <2>19, <2>b, <2>e, <3>1 DEF IncrFailure
    <2>20. ASSUME NEW u \in Callers, GiveUp(u)
           PROVE  Integrity'
      BY <2>20, <2>c, <2>d, <2>f DEF GiveUp
    <2>21. CASE UNCHANGED vars
      BY <2>21, <2>b, <2>d DEF vars
    <2> QED BY <2>1, <2>2, <2>3, <2>4, <2>5, <2>6, <2>7, <2>8, <2>9, <2>10, <2>11, <2>12, <2>13,
               <2>14, <2>15, <2>16, <2>17, <2>18, <2>19, <2>20, <2>21 DEF Next, Searching
  <1>3. TypeOK /\ Integrity => NothingOrphaned
    BY DEF TypeOK, Databases, Integrity, Enforced, Whole, NothingOrphaned, StoredIn
  <1> QED BY <1>1, <1>2, <1>3, TypeCorrect, PTL DEF Spec

-----------------------------------------------------------------------------
\* The number of members of two sets that differ in one element at most.
LEMMA OneMember ==
    ASSUME NEW S, IsFiniteSet(S), NEW T, NEW i, \A x : x # i => (x \in S <=> x \in T)
    PROVE  /\ Cardinality(S) \in Nat /\ Cardinality(T) \in Nat
           /\ Cardinality(T) = Cardinality(S) + (IF i \in T THEN 1 ELSE 0)
                                             - (IF i \in S THEN 1 ELSE 0)
  <1> DEFINE B == S \ {i}
  <1>1. IsFiniteSet(B) /\ i \notin B
    BY FS_Subset
  <1>2. Cardinality(B) \in Nat /\ Cardinality(B \cup {i}) = Cardinality(B) + 1
    BY <1>1, FS_AddElement, FS_CardinalityType
  <1>3. S = IF i \in S THEN B \cup {i} ELSE B
    OBVIOUS
  <1>4. T = IF i \in T THEN B \cup {i} ELSE B
    OBVIOUS
  <1> HIDE DEF B
  <1>5. /\ Cardinality(S) = IF i \in S THEN Cardinality(B) + 1 ELSE Cardinality(B)
        /\ Cardinality(T) = IF i \in T THEN Cardinality(B) + 1 ELSE Cardinality(B)
    BY <1>2, <1>3, <1>4
  <1> QED BY <1>2, <1>5

\* One account, if it is there.
Here(row) == IF row = NoAccount THEN 0 ELSE 1

\* Where one account at most has changed, the accounts of its provider are more or less by
\* what it is and was, and those of the other providers are the same.
LEMMA OneAccount ==
    ASSUME StoreParameters, FiniteIds, NEW d \in Databases, NEW e \in Databases, NEW i \in Ids,
           \A j \in Ids \ {i} : e.accounts[j] = d.accounts[j],
           NEW p \in Providers
    PROVE  /\ Cardinality(AccountsIn(d, p)) \in Nat /\ Cardinality(AccountsIn(e, p)) \in Nat
           /\ Cardinality(AvailableIn(d, p)) \in Nat /\ Cardinality(AvailableIn(e, p)) \in Nat
           /\ p # ProviderOf[i] =>
                 /\ AccountsIn(e, p) = AccountsIn(d, p)
                 /\ AvailableIn(e, p) = AvailableIn(d, p)
           /\ p = ProviderOf[i] =>
                 /\ Cardinality(AccountsIn(e, p)) = Cardinality(AccountsIn(d, p))
                       + Here(e.accounts[i]) - Here(d.accounts[i])
                 /\ Cardinality(AvailableIn(e, p)) = Cardinality(AvailableIn(d, p))
                       + One(e.accounts[i].status) - One(d.accounts[i].status)
  <1>1. IsFiniteSet(AccountsIn(d, p)) /\ IsFiniteSet(AvailableIn(d, p))
    <2>1. AccountsIn(d, p) \subseteq Ids /\ AvailableIn(d, p) \subseteq Ids
      BY DEF AccountsIn, AvailableIn, StoredIn
    <2> QED BY <2>1, FS_Subset DEF FiniteIds
  <1>2. /\ \A x : x # i => (x \in AccountsIn(d, p) <=> x \in AccountsIn(e, p))
        /\ \A x : x # i => (x \in AvailableIn(d, p) <=> x \in AvailableIn(e, p))
    BY DEF AccountsIn, AvailableIn, StoredIn
  <1>3. /\ i \in AccountsIn(d, p) <=> p = ProviderOf[i] /\ d.accounts[i] # NoAccount
        /\ i \in AccountsIn(e, p) <=> p = ProviderOf[i] /\ e.accounts[i] # NoAccount
        /\ i \in AvailableIn(d, p) <=> p = ProviderOf[i] /\ d.accounts[i].status = "available"
        /\ i \in AvailableIn(e, p) <=> p = ProviderOf[i] /\ e.accounts[i].status = "available"
    BY DEF AccountsIn, AvailableIn, StoredIn
  <1>4. /\ Cardinality(AccountsIn(d, p)) \in Nat /\ Cardinality(AccountsIn(e, p)) \in Nat
        /\ Cardinality(AccountsIn(e, p)) = Cardinality(AccountsIn(d, p))
              + (IF i \in AccountsIn(e, p) THEN 1 ELSE 0) - (IF i \in AccountsIn(d, p) THEN 1 ELSE 0)
    <2> HIDE DEF NoAccount
    <2> QED BY <1>1, <1>2, OneMember
  <1>5. /\ Cardinality(AvailableIn(d, p)) \in Nat /\ Cardinality(AvailableIn(e, p)) \in Nat
        /\ Cardinality(AvailableIn(e, p)) = Cardinality(AvailableIn(d, p))
              + (IF i \in AvailableIn(e, p) THEN 1 ELSE 0)
              - (IF i \in AvailableIn(d, p) THEN 1 ELSE 0)
    BY <1>1, <1>2, OneMember
  <1>6. ASSUME p # ProviderOf[i]
        PROVE  AccountsIn(e, p) = AccountsIn(d, p) /\ AvailableIn(e, p) = AvailableIn(d, p)
    <2>1. \A x : (x \in AccountsIn(e, p) <=> x \in AccountsIn(d, p))
                 /\ (x \in AvailableIn(e, p) <=> x \in AvailableIn(d, p))
      BY <1>2, <1>3, <1>6
    <2> QED BY <2>1
  <1>7. ASSUME p = ProviderOf[i]
        PROVE  /\ Cardinality(AccountsIn(e, p)) = Cardinality(AccountsIn(d, p))
                       + Here(e.accounts[i]) - Here(d.accounts[i])
               /\ Cardinality(AvailableIn(e, p)) = Cardinality(AvailableIn(d, p))
                       + One(e.accounts[i].status) - One(d.accounts[i].status)
    BY <1>3, <1>4, <1>5, <1>7 DEF Here, One
  <1> QED BY <1>4, <1>5, <1>6, <1>7

-----------------------------------------------------------------------------
\* Follows and Short of any two databases.
FollowsIn(d, e, p) ==
    /\ e.providers[p].count - d.providers[p].count
          = Cardinality(AccountsIn(e, p)) - Cardinality(AccountsIn(d, p))
    /\ e.providers[p].avail - d.providers[p].avail
          = Cardinality(AvailableIn(e, p)) - Cardinality(AvailableIn(d, p))
ShortIn(d, p) == \/ d.providers[p].count < Cardinality(AccountsIn(d, p))
                 \/ d.providers[p].avail < Cardinality(AvailableIn(d, p))
CountsFollow(d, e, p) == d.providers[p] # NoProvider /\ e.providers[p] # NoProvider =>
                      FollowsIn(d, e, p) \/ ShortIn(d, p)

\* One account is changed and its provider counts the change, with a floor or without.
RightChange(d, e, i, row, n, a) ==
    /\ e.accounts = [d.accounts EXCEPT ![i] = row]
    /\ n \in Int /\ n = Here(row) - Here(d.accounts[i])
    /\ a \in Int /\ a = One(row.status) - One(d.accounts[i].status)
    /\ \/ e.providers = [d.providers EXCEPT ![ProviderOf[i]] = Counted(@, n, a)]
       \/ e.providers = [d.providers EXCEPT ![ProviderOf[i]] = CountedFloored(@, n, a)]
       \/ e.providers = d.providers /\ n = 0 /\ a = 0

\* The floor bites only where the count is short.
LEMMA CountedRight ==
    ASSUME StoreParameters, FiniteIds, NEW d \in Databases, NEW e \in Databases, NEW i \in Ids,
           NEW p \in Providers, NEW row, NEW n, NEW a, RightChange(d, e, i, row, n, a)
    PROVE  CountsFollow(d, e, p)
  <1>a. ProviderOf[i] \in Providers
    BY DEF StoreParameters
  <1>b. e.accounts[i] = row /\ \A j \in Ids \ {i} : e.accounts[j] = d.accounts[j]
    BY DEF Databases, RightChange
  <1>c. \A r \in Providers \ {ProviderOf[i]} : e.providers[r] = d.providers[r]
    BY <1>a DEF Databases, RightChange
  <1>d. \/ e.providers[ProviderOf[i]] = Counted(d.providers[ProviderOf[i]], n, a)
        \/ e.providers[ProviderOf[i]] = CountedFloored(d.providers[ProviderOf[i]], n, a)
        \/ e.providers[ProviderOf[i]] = d.providers[ProviderOf[i]] /\ n = 0 /\ a = 0
    BY <1>a DEF Databases, RightChange
  <1>e. /\ n \in Int /\ n = Here(e.accounts[i]) - Here(d.accounts[i])
        /\ a \in Int /\ a = One(e.accounts[i].status) - One(d.accounts[i].status)
    BY <1>b DEF RightChange
  <1> SUFFICES ASSUME d.providers[p] # NoProvider, e.providers[p] # NoProvider
               PROVE  FollowsIn(d, e, p) \/ ShortIn(d, p)
    BY DEF CountsFollow
  <1>1. d.providers[p].count \in Nat /\ d.providers[p].avail \in Nat
    BY DEF Databases, Counts
  <1>2. CASE p # ProviderOf[i]
    <2>1. e.providers[p] = d.providers[p]
      BY <1>c, <1>2
    <2>2. AccountsIn(e, p) = AccountsIn(d, p) /\ AvailableIn(e, p) = AvailableIn(d, p)
      BY <1>b, <1>2, OneAccount
    <2>3. /\ Cardinality(AccountsIn(d, p)) \in Nat
          /\ Cardinality(AvailableIn(d, p)) \in Nat
      BY <1>b, OneAccount
    <2> QED BY <1>1, <2>1, <2>2, <2>3 DEF FollowsIn
  <1>3. CASE p = ProviderOf[i]
    <2> DEFINE m == Cardinality(AccountsIn(d, p))
               k == Cardinality(AvailableIn(d, p))
    <2>1. /\ m \in Nat /\ k \in Nat
          /\ Cardinality(AccountsIn(e, p)) \in Nat /\ Cardinality(AvailableIn(e, p)) \in Nat
      BY <1>b, OneAccount
    <2>2. /\ Here(d.accounts[i]) \in {0, 1} /\ Here(e.accounts[i]) \in {0, 1}
          /\ One(d.accounts[i].status) \in {0, 1} /\ One(e.accounts[i].status) \in {0, 1}
      BY DEF Here, One
    <2>3. /\ Cardinality(AccountsIn(e, p)) = m + Here(e.accounts[i]) - Here(d.accounts[i])
          /\ Cardinality(AvailableIn(e, p))
                = k + One(e.accounts[i].status) - One(d.accounts[i].status)
      BY <1>b, <1>3, OneAccount
    <2>4. Cardinality(AccountsIn(e, p)) = m + n /\ Cardinality(AvailableIn(e, p)) = k + a
      <3> HIDE DEF m, k, NoAccount
      <3> QED BY <1>e, <2>1, <2>2, <2>3
    <2> HIDE DEF m, k
    <2>5. CASE e.providers[p] = [count |-> d.providers[p].count + n,
                                 avail |-> d.providers[p].avail + a]
      <3>1. e.providers[p].count = d.providers[p].count + n /\ e.providers[p].avail = d.providers[p].avail + a
        BY <2>5
      <3>2. /\ Cardinality(AccountsIn(e, p)) = Cardinality(AccountsIn(d, p)) + n
            /\ Cardinality(AvailableIn(e, p)) = Cardinality(AvailableIn(d, p)) + a
            /\ Cardinality(AccountsIn(d, p)) \in Nat /\ Cardinality(AvailableIn(d, p)) \in Nat
        BY <2>1, <2>4 DEF m, k
      <3>3. /\ e.providers[p].count - d.providers[p].count = n
            /\ e.providers[p].avail - d.providers[p].avail = a
        BY <1>e, <1>1, <3>1
      <3>4. /\ Cardinality(AccountsIn(e, p)) - Cardinality(AccountsIn(d, p)) = n
            /\ Cardinality(AvailableIn(e, p)) - Cardinality(AvailableIn(d, p)) = a
        BY <1>e, <3>2
      <3> QED BY <3>3, <3>4, Zenon DEF FollowsIn
    <2>6. CASE e.providers[p] = CountedFloored(d.providers[p], n, a)
      <3>1. e.providers[p] = [count |-> Floored(d.providers[p].count + n),
                              avail |-> Floored(d.providers[p].avail + a)]
        BY <2>6 DEF CountedFloored
      <3>2. m + n >= 0 /\ k + a >= 0
        BY <1>e, <2>1, <2>4
      <3>3. CASE d.providers[p].count + n < 0
        <4>1. d.providers[p].count < m
          BY <1>e, <1>1, <2>1, <3>2, <3>3
        <4> QED BY <4>1 DEF ShortIn, m
      <3>4. CASE d.providers[p].avail + a < 0
        <4>1. d.providers[p].avail < k
          BY <1>e, <1>1, <2>1, <3>2, <3>4
        <4> QED BY <4>1 DEF ShortIn, k
      <3>5. CASE ~(d.providers[p].count + n < 0) /\ ~(d.providers[p].avail + a < 0)
        BY <2>5, <3>1, <3>5 DEF Floored
      <3> QED BY <3>3, <3>4, <3>5
    <2>7. CASE e.providers[p] = d.providers[p] /\ n = 0 /\ a = 0
      BY <1>e, <1>1, <2>1, <2>4, <2>7 DEF FollowsIn, m, k
    <2> QED BY <1>3, <1>d, <2>5, <2>6, <2>7 DEF Counted
  <1> QED BY <1>2, <1>3

\* The accounts of a provider are the same, and it is the same, or it comes or goes.
LEMMA CountedAlike ==
    ASSUME StoreParameters, FiniteIds, NEW d \in Databases, NEW e \in Databases, NEW p \in Providers,
           \A j \in Ids : ProviderOf[j] = p => e.accounts[j] = d.accounts[j]
                          \/ (e.accounts[j] # NoAccount /\ d.accounts[j] # NoAccount
                              /\ e.accounts[j].status = d.accounts[j].status),
           e.providers[p] \in {d.providers[p], NoProvider} \/ d.providers[p] = NoProvider
    PROVE  CountsFollow(d, e, p)
  <1>1. \A j : (j \in AccountsIn(e, p) <=> j \in AccountsIn(d, p))
               /\ (j \in AvailableIn(e, p) <=> j \in AvailableIn(d, p))
    BY DEF AccountsIn, AvailableIn, StoredIn
  <1>2. AccountsIn(e, p) = AccountsIn(d, p) /\ AvailableIn(e, p) = AvailableIn(d, p)
    BY <1>1
  <1>3. Cardinality(AccountsIn(d, p)) \in Nat /\ Cardinality(AvailableIn(d, p)) \in Nat
    <2>1. IsFiniteSet(AccountsIn(d, p)) /\ IsFiniteSet(AvailableIn(d, p))
      <3>1. AccountsIn(d, p) \subseteq Ids /\ AvailableIn(d, p) \subseteq Ids
        BY DEF AccountsIn, AvailableIn, StoredIn
      <3> QED BY <3>1, FS_Subset DEF FiniteIds
    <2> QED BY <2>1, FS_CardinalityType
  <1>4. d.providers[p] # NoProvider => d.providers[p].count \in Nat /\ d.providers[p].avail \in Nat
    BY DEF Databases, Counts
  <1> HIDE DEF NoProvider
  <1>5. d.providers[p] # NoProvider /\ e.providers[p] # NoProvider => e.providers[p] = d.providers[p]
    OBVIOUS
  <1> QED BY <1>2, <1>3, <1>4, <1>5 DEF CountsFollow, FollowsIn

-----------------------------------------------------------------------------
\* What rows are worth.
LEMMA RowWorth ==
    /\ \A s \in Statuses, v \in Nat :
          LET row == [status |-> s, version |-> v]
          IN  Here(row) = 1 /\ row.status = s /\ row # NoAccount
    /\ Here(NoAccount) = 0 /\ One(NoAccount.status) = 0 /\ NoAccount \in Rows
    /\ \A r \in Rows : r # NoAccount => /\ Here(r) = 1 /\ r.status \in Statuses
                                        /\ r.version + 1 \in Nat \ {0}
    /\ \A s : One(s) \in Int
    /\ \A s \in Statuses, v \in Nat \ {0} : [status |-> s, version |-> v] \in Rows
    /\ \A s \in Statuses : New(s) = [status |-> s, version |-> 1]
  <1> USE DEF Here, One, Rows, New
  <1>1. \A s \in Statuses, v \in Nat :
           LET row == [status |-> s, version |-> v]
           IN  Here(row) = 1 /\ row.status = s /\ row # NoAccount
    BY StoreParameters
  <1>2. \A r \in Rows : r # NoAccount => /\ Here(r) = 1 /\ r.status \in Statuses
                                         /\ r.version + 1 \in Nat \ {0}
    OBVIOUS
  <1> QED BY <1>1, <1>2

\* A change of an account that leaves the counts, and its status, alone.
LEMMA VersionPut ==
    ASSUME StoreParameters, FiniteIds, NEW d \in Databases, NEW i \in Ids,
           d.accounts[i] # NoAccount,
           NEW e \in Databases, e.accounts = [d.accounts EXCEPT ![i].version = @ + 1],
           e.providers = d.providers, NEW p \in Providers
    PROVE  CountsFollow(d, e, p)
  <1>1. d.accounts[i] \in Rows
    BY DEF Databases
  <1>2. /\ e.accounts[i] = [d.accounts[i] EXCEPT !.version = @ + 1]
        /\ \A j \in Ids \ {i} : e.accounts[j] = d.accounts[j]
    BY DEF Databases
  <1>3. e.accounts[i] # NoAccount /\ e.accounts[i].status = d.accounts[i].status
    BY <1>1, <1>2 DEF Rows
  <1> QED BY <1>2, <1>3, CountedAlike

\* An account that is added, changed in its status, or removed.
LEMMA AddCounts ==
    ASSUME StoreParameters, FiniteIds, NEW d \in Databases, NEW i \in Ids, NEW s \in Statuses,
           d.accounts[i] = NoAccount,
           NEW e \in Databases, e.accounts = [d.accounts EXCEPT ![i] = New(s)],
           e.providers = [d.providers EXCEPT ![ProviderOf[i]] = Counted(@, 1, One(s))],
           NEW p \in Providers
    PROVE  CountsFollow(d, e, p)
  <1>1. /\ 1 = Here(New(s)) - Here(d.accounts[i])
        /\ One(s) = One(New(s).status) - One(d.accounts[i].status) /\ One(s) \in Int
    BY RowWorth
  <1>2. RightChange(d, e, i, New(s), 1, One(s))
    BY <1>1 DEF RightChange
  <1> QED BY <1>2, CountedRight
LEMMA StatusCounts ==
    ASSUME StoreParameters, FiniteIds, NEW d \in Databases, NEW i \in Ids, NEW s \in Statuses,
           NEW w \in Nat, d.accounts[i] # NoAccount, NEW a, a = One(s) - One(d.accounts[i].status),
           NEW e \in Databases,
           e.accounts = [d.accounts EXCEPT ![i] = [status |-> s, version |-> w]],
           \/ e.providers = [d.providers EXCEPT ![ProviderOf[i]] = CountedFloored(@, 0, a)]
           \/ e.providers = d.providers /\ a = 0,
           NEW p \in Providers
    PROVE  CountsFollow(d, e, p)
  <1> DEFINE row == [status |-> s, version |-> w]
  <1>1. d.accounts[i] \in Rows
    BY DEF Databases
  <1>2. 0 = Here(row) - Here(d.accounts[i]) /\ a = One(row.status) - One(d.accounts[i].status)
        /\ a \in Int
    BY <1>1, RowWorth
  <1> HIDE DEF row
  <1>3. RightChange(d, e, i, row, 0, a)
    BY <1>2 DEF RightChange, row
  <1> QED BY <1>3, CountedRight
LEMMA RemoveCounts ==
    ASSUME StoreParameters, FiniteIds, NEW d \in Databases, NEW i \in Ids,
           d.accounts[i] # NoAccount, NEW a, a = -One(d.accounts[i].status),
           NEW e \in Databases, e.accounts = [d.accounts EXCEPT ![i] = NoAccount],
           e.providers = [d.providers EXCEPT ![ProviderOf[i]] = CountedFloored(@, -1, a)],
           NEW p \in Providers
    PROVE  CountsFollow(d, e, p)
  <1>1. d.accounts[i] \in Rows
    BY DEF Databases
  <1>2. /\ -1 = Here(NoAccount) - Here(d.accounts[i])
        /\ a = One(NoAccount.status) - One(d.accounts[i].status) /\ a \in Int
    BY <1>1, RowWorth
  <1>3. RightChange(d, e, i, NoAccount, -1, a)
    BY <1>2 DEF RightChange
  <1> QED BY <1>3, CountedRight

-----------------------------------------------------------------------------
\* The changes of Redis, unless they have read something else than they find.
LEMMA RedisCounts ==
    ASSUME StoreParameters, FiniteIds, NEW d \in Databases, NEW i \in Ids, NEW s \in Statuses,
           NEW v \in Nat, NEW p \in Providers
    PROVE  /\ CountsFollow(d, RedisAddAccount(d, i, s), p)
           /\ CountsFollow(d, RedisUpdateOther(d, i, v), p)
           /\ d.accounts[i] # NoAccount =>
                 /\ CountsFollow(d, RedisUpdateStatus(d, i, v, d.accounts[i], s), p)
                 /\ CountsFollow(d, RedisRemoveAccount(d, i, d.accounts[i]), p)
  <1> DEFINE old == d.accounts[i]
             q == ProviderOf[i]
  <1>0. old \in Rows /\ q \in Providers /\ New(s) \in Rows /\ New(s) # NoAccount /\ Empty \in Counts
    BY RowWorth DEF Databases, StoreParameters, New, Counts
  <1>1. /\ RedisAddAccount(d, i, s) \in Databases /\ RedisUpdateOther(d, i, v) \in Databases
        /\ old # NoAccount =>
              /\ RedisUpdateStatus(d, i, v, old, s) \in Databases
              /\ RedisRemoveAccount(d, i, old) \in Databases
    BY <1>0, RedisTypes
  <1>2. CountsFollow(d, d, p)
    BY CountedAlike
  <1>3. CountsFollow(d, RedisAddAccount(d, i, s), p)
    <2> DEFINE e == RedisAddAccount(d, i, s)
    <2>1. IF old # NoAccount THEN e = d
          ELSE /\ e.accounts = [d.accounts EXCEPT ![i] = New(s)]
               /\ e.providers = [d.providers EXCEPT ![q] = Counted(@, 1, One(s))]
      BY DEF RedisAddAccount, Databases
    <2>2. e \in Databases
      BY <1>1
    <2> HIDE DEF e
    <2>3. CountsFollow(d, e, p)
      BY <1>2, <2>1, <2>2, AddCounts
    <2> QED BY <2>3 DEF e
  <1>4. CountsFollow(d, RedisUpdateOther(d, i, v), p)
    <2> DEFINE e == RedisUpdateOther(d, i, v)
    <2>1. IF old = NoAccount \/ old.version # v THEN e = d
          ELSE /\ e.accounts = [d.accounts EXCEPT ![i].version = @ + 1]
               /\ e.providers = d.providers
      BY DEF RedisUpdateOther, MayUpdate, Databases
    <2>2. e \in Databases
      BY <1>1
    <2> HIDE DEF e
    <2>3. CountsFollow(d, e, p)
      BY <1>2, <2>1, <2>2, VersionPut
    <2> QED BY <2>3 DEF e
  <1>5. ASSUME old # NoAccount
        PROVE  CountsFollow(d, RedisUpdateStatus(d, i, v, old, s), p)
    <2> DEFINE e == RedisUpdateStatus(d, i, v, old, s)
               a == One(s) - One(old.status)
               w == old.version + 1
    <2>1. IF ~MayUpdate(old, v) THEN e = d
          ELSE /\ e.accounts = [d.accounts EXCEPT ![i] = [status |-> s, version |-> w]]
               /\ e.providers = [d.providers EXCEPT ![q] = CountedFloored(@, 0, a)]
      BY DEF RedisUpdateStatus, Databases
    <2>2. e \in Databases /\ w \in Nat /\ a = One(s) - One(old.status)
      BY <1>0, <1>1, <1>5, RowWorth
    <2> HIDE DEF e, a, w
    <2>3. CountsFollow(d, e, p)
      BY <1>2, <1>5, <2>1, <2>2, StatusCounts
    <2> QED BY <2>3 DEF e
  <1>6. ASSUME old # NoAccount
        PROVE  CountsFollow(d, RedisRemoveAccount(d, i, old), p)
    <2> DEFINE e == RedisRemoveAccount(d, i, old)
               a == -One(old.status)
    <2>1. /\ e.accounts = [d.accounts EXCEPT ![i] = NoAccount]
          /\ e.providers = [d.providers EXCEPT ![q] = CountedFloored(@, -1, a)]
      BY DEF RedisRemoveAccount, Databases, CountedDown
    <2>2. e \in Databases /\ a = -One(old.status)
      BY <1>1, <1>6
    <2> HIDE DEF e, a
    <2>3. CountsFollow(d, e, p)
      BY <1>6, <2>1, <2>2, RemoveCounts
    <2> QED BY <2>3 DEF e
  <1> QED BY <1>3, <1>4, <1>5, <1>6

\* The changes of MySQL, unless their snapshot is old.
LEMMA MysqlCounts ==
    ASSUME StoreParameters, FiniteIds, NEW d \in Databases, NEW i \in Ids, NEW s \in Statuses,
           NEW v \in Nat, NEW p \in Providers
    PROVE  /\ CountsFollow(d, MysqlAddAccount(d, i, s), p)
           /\ CountsFollow(d, MysqlUpdateOther(d, i, v), p)
           /\ d.accounts[i] # NoAccount =>
                 /\ CountsFollow(d, MysqlUpdateStatus(d, i, v, d.accounts[i], s), p)
                 /\ CountsFollow(d, MysqlRemoveAccount(d, i, d.accounts[i]), p)
  <1> DEFINE old == d.accounts[i]
             q == ProviderOf[i]
  <1>0. old \in Rows /\ q \in Providers /\ New(s) \in Rows /\ New(s) # NoAccount
    BY RowWorth DEF Databases, StoreParameters, New
  <1>1. /\ MysqlAddAccount(d, i, s) \in Databases /\ MysqlUpdateOther(d, i, v) \in Databases
        /\ old # NoAccount =>
              /\ MysqlUpdateStatus(d, i, v, old, s) \in Databases
              /\ MysqlRemoveAccount(d, i, old) \in Databases
    BY <1>0, MysqlTypes
  <1>2. CountsFollow(d, d, p)
    BY CountedAlike
  <1>3. CountsFollow(d, MysqlAddAccount(d, i, s), p)
    <2> DEFINE e == MysqlAddAccount(d, i, s)
    <2>1. IF old # NoAccount \/ d.providers[q] = NoProvider THEN e = d
          ELSE /\ e.accounts = [d.accounts EXCEPT ![i] = New(s)]
               /\ e.providers = [d.providers EXCEPT ![q] = Counted(@, 1, One(s))]
      BY DEF MysqlAddAccount, Databases
    <2>2. e \in Databases
      BY <1>1
    <2> HIDE DEF e, NoProvider
    <2>3. CountsFollow(d, e, p)
      BY <1>2, <2>1, <2>2, AddCounts
    <2> QED BY <2>3 DEF e
  <1>4. CountsFollow(d, MysqlUpdateOther(d, i, v), p)
    <2> DEFINE e == MysqlUpdateOther(d, i, v)
    <2>1. IF old = NoAccount \/ old.version # v THEN e = d
          ELSE /\ e.accounts = [d.accounts EXCEPT ![i].version = @ + 1]
               /\ e.providers = d.providers
      BY DEF MysqlUpdateOther, MysqlAffected, Databases
    <2>2. e \in Databases
      BY <1>1
    <2> HIDE DEF e
    <2>3. CountsFollow(d, e, p)
      BY <1>2, <2>1, <2>2, VersionPut
    <2> QED BY <2>3 DEF e
  <1>5. ASSUME old # NoAccount
        PROVE  CountsFollow(d, MysqlUpdateStatus(d, i, v, old, s), p)
    <2> DEFINE e == MysqlUpdateStatus(d, i, v, old, s)
               a == One(s) - One(old.status)
               w == v + 1
    <2>1. \/ e = d
          \/ /\ e.accounts = [d.accounts EXCEPT ![i] = [status |-> s, version |-> w]]
             /\ \/ e.providers = [d.providers EXCEPT ![q] = CountedFloored(@, 0, a)]
                \/ a = 0 /\ e.providers = [d.providers EXCEPT ![q] = @]
      BY DEF MysqlUpdateStatus, AvailableDelta, Databases
    <2>2. [d.providers EXCEPT ![q] = @] = d.providers
      BY DEF Databases
    <2>3. e \in Databases /\ w \in Nat /\ a = One(s) - One(old.status)
      BY <1>1, <1>5
    <2> HIDE DEF e, a, w
    <2>4. CountsFollow(d, e, p)
      BY <1>2, <1>5, <2>1, <2>2, <2>3, StatusCounts, SMTT(30)
    <2> QED BY <2>4 DEF e
  <1>6. ASSUME old # NoAccount
        PROVE  CountsFollow(d, MysqlRemoveAccount(d, i, old), p)
    <2> DEFINE e == MysqlRemoveAccount(d, i, old)
               a == -One(old.status)
    <2>1. /\ e.accounts = [d.accounts EXCEPT ![i] = NoAccount]
          /\ e.providers = [d.providers EXCEPT ![q] = CountedFloored(@, -1, a)]
      BY DEF MysqlRemoveAccount, Databases
    <2>2. e \in Databases /\ a = -One(old.status)
      BY <1>1, <1>6
    <2> HIDE DEF e, a
    <2>3. CountsFollow(d, e, p)
      BY <1>6, <2>1, <2>2, RemoveCounts
    <2> QED BY <2>3 DEF e
  <1> QED BY <1>3, <1>4, <1>5, <1>6

\* The changes of SQLite, which reads and writes in one.
LEMMA SqliteCounts ==
    ASSUME StoreParameters, FiniteIds, NEW d \in Databases, NEW i \in Ids, NEW s \in Statuses,
           NEW v \in Nat, NEW p \in Providers, NEW fk \in BOOLEAN
    PROVE  /\ CountsFollow(d, SqliteAddAccount(d, i, s, fk), p)
           /\ CountsFollow(d, SqliteUpdateOther(d, i, v), p)
           /\ CountsFollow(d, SqliteUpdateStatus(d, i, v, s), p)
           /\ CountsFollow(d, SqliteRemoveAccount(d, i, fk), p)
  <1> DEFINE old == d.accounts[i]
             q == ProviderOf[i]
  <1>0. old \in Rows /\ q \in Providers /\ Empty \in Counts
    BY RowWorth DEF Databases, StoreParameters, Counts
  <1>1. /\ SqliteAddAccount(d, i, s, fk) \in Databases /\ SqliteUpdateOther(d, i, v) \in Databases
        /\ SqliteUpdateStatus(d, i, v, s) \in Databases
        /\ SqliteRemoveAccount(d, i, fk) \in Databases
    BY <1>0, SqliteTypes
  <1>2. CountsFollow(d, d, p)
    BY CountedAlike
  <1>3. CountsFollow(d, SqliteAddAccount(d, i, s, fk), p)
    <2> DEFINE e == SqliteAddAccount(d, i, s, fk)
    <2>1. \/ e = d
          \/ /\ old = NoAccount
             /\ e.accounts = [d.accounts EXCEPT ![i] = New(s)]
             /\ e.providers = [d.providers EXCEPT ![q] = Counted(@, 1, One(s))]
      BY DEF SqliteAddAccount, Databases
    <2>2. e \in Databases
      BY <1>1
    <2> HIDE DEF e
    <2>3. CountsFollow(d, e, p)
      BY <1>2, <2>1, <2>2, AddCounts
    <2> QED BY <2>3 DEF e
  <1>4. CountsFollow(d, SqliteUpdateOther(d, i, v), p)
    <2> DEFINE e == SqliteUpdateOther(d, i, v)
    <2>1. IF old = NoAccount \/ old.version # v THEN e = d
          ELSE /\ e.accounts = [d.accounts EXCEPT ![i].version = @ + 1]
               /\ e.providers = d.providers
      BY DEF SqliteUpdateOther, SqliteAffected, Databases
    <2>2. e \in Databases
      BY <1>1
    <2> HIDE DEF e
    <2>3. CountsFollow(d, e, p)
      BY <1>2, <2>1, <2>2, VersionPut
    <2> QED BY <2>3 DEF e
  <1>5. CountsFollow(d, SqliteUpdateStatus(d, i, v, s), p)
    <2> DEFINE e == SqliteUpdateStatus(d, i, v, s)
               a == One(s) - One(old.status)
               w == v + 1
    <2>1. \/ e = d
          \/ /\ old # NoAccount
             /\ e.accounts = [d.accounts EXCEPT ![i] = [status |-> s, version |-> w]]
             /\ e.providers = [d.providers EXCEPT ![q] = CountedFloored(@, 0, a)]
      BY DEF SqliteUpdateStatus, SqliteAffected, Databases
    <2>2. e \in Databases /\ w \in Nat /\ a = One(s) - One(old.status)
      BY <1>1
    <2> HIDE DEF e, a, w
    <2>3. CountsFollow(d, e, p)
      BY <1>2, <2>1, <2>2, StatusCounts
    <2> QED BY <2>3 DEF e
  <1>6. CountsFollow(d, SqliteRemoveAccount(d, i, fk), p)
    <2> DEFINE e == SqliteRemoveAccount(d, i, fk)
               a == -One(old.status)
    <2>0. [j \in Ids |-> IF j \in {i} THEN NoAccount ELSE d.accounts[j]]
             = [d.accounts EXCEPT ![i] = NoAccount]
      BY DEF Databases
    <2>1. \/ e = d
          \/ /\ old # NoAccount
             /\ e.accounts = [d.accounts EXCEPT ![i] = NoAccount]
             /\ e.providers = [d.providers EXCEPT ![q] = CountedFloored(@, -1, a)]
      BY <2>0 DEF SqliteRemoveAccount, SqliteDeleted, Databases
    <2>2. e \in Databases /\ a = -One(old.status)
      BY <1>1
    <2> HIDE DEF e, a
    <2>3. CountsFollow(d, e, p)
      BY <1>2, <2>1, <2>2, RemoveCounts
    <2> QED BY <2>3 DEF e
  <1> QED BY <1>3, <1>4, <1>5, <1>6

-----------------------------------------------------------------------------
\* The accounts of one provider removed, and a provider removed with them: the others
\* keep theirs.
LEMMA RemovalCounts ==
    ASSUME StoreParameters, FiniteIds, NEW d \in Databases, NEW q \in Providers,
           NEW fk \in BOOLEAN, NEW p \in Providers
    PROVE  /\ p # q => /\ CountsFollow(d, MysqlRemoveAccounts(d, OfProvider(q)), p)
                       /\ CountsFollow(d, SqliteRemoveAccounts(d, OfProvider(q), fk), p)
           /\ CountsFollow(d, MysqlRemoveProvider(d, q), p)
           /\ CountsFollow(d, SqliteRemoveProvider(d, q, fk), p)
  <1> DEFINE S == MysqlSearchAccounts(d, OfProvider(q))
  <1>1. \A j \in Ids : ProviderOf[j] # q => j \notin S /\ j \notin AccountsIn(d, q)
    <2>1. TypeOf[q] # NoOne /\ NameOf[q] # NoOne
      BY Spelling
    <2>2. \A r \in Providers : TypeOf[r] = TypeOf[q] /\ NameOf[r] = NameOf[q] => r = q
      BY Spelling
    <2>3. \A j \in Ids : ProviderOf[j] \in Providers
      BY StoreParameters
    <2> QED BY <2>1, <2>2, <2>3 DEF MysqlSearchAccounts, Wanted, OfProvider, AccountsIn
  <1>2. SqliteSearchAccounts(d, OfProvider(q)) = S
    BY DEF MysqlSearchAccounts, SqliteSearchAccounts
  <1> HIDE DEF S
  <1>3. ASSUME NEW f, NEW i \in Ids, NEW s \in Statuses
        PROVE  /\ MysqlRemoveAccounts(d, f) \in Databases
               /\ SqliteRemoveAccounts(d, f, fk) \in Databases
               /\ MysqlRemoveProvider(d, q) \in Databases
               /\ SqliteRemoveProvider(d, q, fk) \in Databases
    <2>1. New(s) \in Rows /\ New(s) # NoAccount /\ Empty \in Counts
      BY RowWorth DEF Counts, New
    <2> QED BY <2>1, MysqlTypes, SqliteTypes
  <1>4. ASSUME Ids = {}
        PROVE  /\ MysqlRemoveAccounts(d, OfProvider(q)) \in Databases
               /\ SqliteRemoveAccounts(d, OfProvider(q), fk) \in Databases
               /\ MysqlRemoveProvider(d, q) \in Databases
               /\ SqliteRemoveProvider(d, q, fk) \in Databases
    BY <1>4 DEF Databases, Counts, MysqlRemoveAccounts, SqliteRemoveAccounts, MysqlRemoveProvider,
                SqliteRemoveProvider, MysqlDeleted, SqliteDeleted
  <1>5. /\ MysqlRemoveAccounts(d, OfProvider(q)) \in Databases
        /\ SqliteRemoveAccounts(d, OfProvider(q), fk) \in Databases
        /\ MysqlRemoveProvider(d, q) \in Databases
        /\ SqliteRemoveProvider(d, q, fk) \in Databases
    BY <1>3, <1>4
  <1>6. ASSUME p # q
        PROVE  /\ CountsFollow(d, MysqlRemoveAccounts(d, OfProvider(q)), p)
               /\ CountsFollow(d, SqliteRemoveAccounts(d, OfProvider(q), fk), p)
    <2> DEFINE e == MysqlRemoveAccounts(d, OfProvider(q))
               g == SqliteRemoveAccounts(d, OfProvider(q), fk)
    <2>1. /\ e.providers = d.providers /\ g.providers = d.providers
          /\ \A j \in Ids : ProviderOf[j] = p => /\ e.accounts[j] = d.accounts[j]
                                                 /\ g.accounts[j] = d.accounts[j]
      BY <1>1, <1>2, <1>6 DEF MysqlRemoveAccounts, MysqlDeleted, SqliteRemoveAccounts,
                              SqliteDeleted, Databases, S
    <2>2. e \in Databases /\ g \in Databases
      BY <1>5
    <2> HIDE DEF e, g
    <2>3. CountsFollow(d, e, p) /\ CountsFollow(d, g, p)
      BY <2>1, <2>2, CountedAlike
    <2> QED BY <2>3 DEF e, g
  <1>7. CountsFollow(d, MysqlRemoveProvider(d, q), p)
    <2> DEFINE e == MysqlRemoveProvider(d, q)
    <2>1. e \in Databases
      BY <1>5
    <2>2. e.providers = [d.providers EXCEPT ![q] = NoProvider]
      BY DEF MysqlRemoveProvider, MysqlDeleted, Databases
    <2>3. CASE p = q
      <3>1. e.providers[p] = NoProvider
        BY <2>2, <2>3 DEF Databases
      <3> QED BY <3>1 DEF CountsFollow
    <2>4. CASE p # q
      <3>1. e.providers[p] = d.providers[p]
        BY <2>2, <2>4 DEF Databases
      <3>2. \A j \in Ids : ProviderOf[j] = p => e.accounts[j] = d.accounts[j]
        BY <1>1, <2>4 DEF MysqlRemoveProvider, MysqlDeleted, Databases
      <3> HIDE DEF e
      <3>3. CountsFollow(d, e, p)
        BY <2>1, <3>1, <3>2, CountedAlike
      <3> QED BY <3>3 DEF e
    <2> QED BY <2>3, <2>4
  <1>8. CountsFollow(d, SqliteRemoveProvider(d, q, fk), p)
    <2> DEFINE e == SqliteRemoveProvider(d, q, fk)
    <2>1. e \in Databases
      BY <1>5
    <2>2. CASE d.providers[q] = NoProvider
      <3>1. e = d
        BY <2>2 DEF SqliteRemoveProvider
      <3>2. CountsFollow(d, d, p)
        BY CountedAlike
      <3> QED BY <3>1, <3>2
    <2>3. CASE d.providers[q] # NoProvider
      <3>0. e.providers = [d.providers EXCEPT ![q] = NoProvider]
        BY <2>3 DEF SqliteRemoveProvider, SqliteDeleted, Databases
      <3>1. CASE p = q
        <4>1. e.providers[p] = NoProvider
          BY <3>0, <3>1 DEF Databases
        <4> QED BY <4>1 DEF CountsFollow
      <3>2. CASE p # q
        <4>1. e.providers[p] = d.providers[p]
          BY <3>0, <3>2 DEF Databases
        <4>2. \A j \in Ids : ProviderOf[j] = p => e.accounts[j] = d.accounts[j]
          BY <1>1, <2>3, <3>2 DEF SqliteRemoveProvider, SqliteDeleted, Databases
        <4> HIDE DEF e
        <4>3. CountsFollow(d, e, p)
          BY <2>1, <4>1, <4>2, CountedAlike
        <4> QED BY <4>3 DEF e
      <3> QED BY <3>1, <3>2
    <2> QED BY <2>2, <2>3
  <1> QED BY <1>6, <1>7, <1>8

\* What others overtook, or the DELETE of many accounts.
CountsExcused(p) ==
    \E u \in Callers : \/ (RemoveAccount(u) \/ \E s \in Statuses : UpdateStatus(u, s))
                          /\ StaleAccount(u)
                       \/ UpdateProvider(u) /\ StaleProvider(u)
                       \/ \E fk \in BOOLEAN : RemoveAccounts(u, p, fk)

\* Whatever store it is and whoever else uses it, a step changes the counts of a provider as
\* it changes its accounts, but for a call that was overtaken, the DELETE of many accounts,
\* and counts that are short already: nothing else, in any number of calls, makes them drift.
THEOREM CountsAreFollowed == Spec => CountsFollowAccounts
  <1>1. ASSUME TypeOK, TypeOK', [Next]_vars, NEW p \in Providers
        PROVE  CountsFollow(db, db', p) \/ CountsExcused(p)
    <2> USE StoreParameters, FiniteIds
    <2>0. db \in Databases /\ db' \in Databases
      BY <1>1 DEF TypeOK
    <2>a. ASSUME NEW u \in Callers
          PROVE  call[u] \in Calls /\ Equipped(call[u])
      BY <1>1 DEF TypeOK
    <2>b. CountsFollow(db, db, p)
      BY <2>0, CountedAlike
    <2>c. ASSUME db'.accounts = db.accounts, db'.providers = db.providers
          PROVE  CountsFollow(db, db', p)
      BY <2>0, <2>c, CountedAlike
    <2>1. ASSUME NEW u \in Callers, NEW i \in Ids, NEW s \in Statuses, NEW fk \in BOOLEAN,
                 AddAccount(u, i, s, fk)
          PROVE  CountsFollow(db, db', p)
      <3>1. /\ CountsFollow(db, RedisAddAccount(db, i, s), p)
            /\ CountsFollow(db, MysqlAddAccount(db, i, s), p)
            /\ CountsFollow(db, SqliteAddAccount(db, i, s, fk), p)
        <4>1. 0 \in Nat
          OBVIOUS
        <4> QED BY <2>0, <4>1, RedisCounts, MysqlCounts, SqliteCounts
      <3> QED BY <2>1, <3>1 DEF AddAccount, On
    <2>2. ASSUME NEW u \in Callers, NEW q \in Providers, AddProvider(u, q)
          PROVE  CountsFollow(db, db', p)
      <3>1. /\ db'.accounts = db.accounts
            /\ db'.providers[p] = db.providers[p] \/ db.providers[p] = NoProvider
        <4>1. \/ db' = RedisAddProvider(db, q)
              \/ db' = MysqlAddProvider(db, q)
              \/ db' = SqliteAddProvider(db, q)
          BY <2>2 DEF AddProvider, On
        <4>2. db' = db \/ (/\ db.providers[q] = NoProvider
                          /\ db'.accounts = db.accounts
                          /\ db'.providers = [db.providers EXCEPT ![q] = Empty])
          BY <4>1, <2>0 DEF RedisAddProvider, MysqlAddProvider, SqliteAddProvider, Databases
        <4> QED BY <4>2, <2>0 DEF Databases
      <3> QED BY <2>0, <3>1, CountedAlike
    <2>3. ASSUME NEW u \in Callers, NEW s \in Statuses, UpdateStatus(u, s)
          PROVE  CountsFollow(db, db', p) \/ CountsExcused(p)
      <3> DEFINE i == call[u].id
                 v == call[u].row.version
      <3>0. i \in Ids /\ v \in Nat
        BY <2>3, <2>a, CallParts DEF UpdateStatus, At
      <3>1. CASE StaleAccount(u)
        BY <2>3, <3>1 DEF CountsExcused
      <3>2. ASSUME At(u, "update"), ~StaleAccount(u)
            PROVE  db.accounts[i] # NoAccount /\ call[u].seen = db.accounts[i]
        BY <3>2, <2>a, CallParts DEF At, StaleAccount
      <3>3. /\ CountsFollow(db, SqliteUpdateStatus(db, i, v, s), p)
            /\ db.accounts[i] # NoAccount =>
                  /\ CountsFollow(db, RedisUpdateStatus(db, i, v, db.accounts[i], s), p)
                  /\ CountsFollow(db, MysqlUpdateStatus(db, i, v, db.accounts[i], s), p)
        <4> HIDE DEF i, v
        <4>1. TRUE \in BOOLEAN
          OBVIOUS
        <4> QED BY <2>0, <3>0, <4>1, RedisCounts, MysqlCounts, SqliteCounts
      <3>4. CASE ~StaleAccount(u)
        BY <2>3, <3>2, <3>3, <3>4 DEF UpdateStatus, On
      <3> QED BY <3>1, <3>4
    <2>4. ASSUME NEW u \in Callers, UpdateOther(u)
          PROVE  CountsFollow(db, db', p)
      <3> DEFINE i == call[u].id
                 v == call[u].row.version
      <3>0. i \in Ids /\ v \in Nat
        BY <2>4, <2>a, CallParts DEF UpdateOther, At
      <3>1. /\ CountsFollow(db, RedisUpdateOther(db, i, v), p)
            /\ CountsFollow(db, MysqlUpdateOther(db, i, v), p)
            /\ CountsFollow(db, SqliteUpdateOther(db, i, v), p)
        <4> HIDE DEF i, v
        <4>1. TRUE \in BOOLEAN /\ "available" \in Statuses
          OBVIOUS
        <4> QED BY <2>0, <3>0, <4>1, RedisCounts, MysqlCounts, SqliteCounts
      <3> QED BY <2>4, <3>1 DEF UpdateOther, On
    <2>5. ASSUME NEW u \in Callers, RemoveAccount(u)
          PROVE  CountsFollow(db, db', p) \/ CountsExcused(p)
      <3> DEFINE i == call[u].id
      <3>0. i \in Ids
        BY <2>5, <2>a, CallParts DEF RemoveAccount, At
      <3>1. CASE StaleAccount(u)
        BY <2>5, <3>1 DEF CountsExcused
      <3>2. CASE ~StaleAccount(u)
        <4>1. db.accounts[i] # NoAccount /\ call[u].seen = db.accounts[i]
          BY <2>5, <3>2, <2>a, CallParts DEF At, StaleAccount, RemoveAccount
        <4>2. /\ CountsFollow(db, RedisRemoveAccount(db, i, db.accounts[i]), p)
              /\ CountsFollow(db, MysqlRemoveAccount(db, i, db.accounts[i]), p)
          <5> HIDE DEF i
          <5>1. 0 \in Nat /\ "available" \in Statuses
            OBVIOUS
          <5> QED BY <2>0, <3>0, <4>1, <5>1, RedisCounts, MysqlCounts
        <4> QED BY <2>5, <4>1, <4>2 DEF RemoveAccount, On
      <3> QED BY <3>1, <3>2
    <2>6. ASSUME NEW u \in Callers, NEW i \in Ids, NEW fk \in BOOLEAN, RemoveAtOnce(u, i, fk)
          PROVE  CountsFollow(db, db', p)
      <3>1. CountsFollow(db, SqliteRemoveAccount(db, i, fk), p)
        <4>1. 0 \in Nat /\ "available" \in Statuses
          OBVIOUS
        <4> QED BY <2>0, <4>1, SqliteCounts
      <3> QED BY <2>6, <3>1 DEF RemoveAtOnce, On
    <2>7. ASSUME NEW u \in Callers, LoopDone(u)
          PROVE  CountsFollow(db, db', p)
      <3>1. /\ db'.accounts = db.accounts
            /\ db'.providers[p] \in {db.providers[p], NoProvider}
        BY <2>7, <2>0 DEF LoopDone, RedisRemoveProvider, Databases
      <3> QED BY <2>0, <3>1, CountedAlike
    <2>8. ASSUME NEW u \in Callers, NEW q \in Providers, NEW fk \in BOOLEAN,
                 RemoveAccounts(u, q, fk)
          PROVE  CountsFollow(db, db', p) \/ CountsExcused(p)
      <3>1. CASE p = q
        BY <2>8, <3>1 DEF CountsExcused
      <3>2. CASE p # q
        BY <2>8, <2>0, <3>2, RemovalCounts DEF RemoveAccounts, On
      <3> QED BY <3>1, <3>2
    <2>9. ASSUME NEW u \in Callers, NEW q \in Providers, NEW fk \in BOOLEAN,
                 RemoveProvider(u, q, fk)
          PROVE  CountsFollow(db, db', p)
      BY <2>9, <2>0, RemovalCounts DEF RemoveProvider, On
    <2>10. ASSUME NEW u \in Callers, UpdateProvider(u)
           PROVE  CountsFollow(db, db', p) \/ CountsExcused(p)
      <3> DEFINE q == call[u].prov
      <3>1. CASE StaleProvider(u)
        BY <2>10, <3>1 DEF CountsExcused
      <3>2. CASE ~StaleProvider(u)
        <4>1. q \in Providers /\ call[u].info = db.providers[q]
          BY <2>10, <3>2, <2>a, CallParts DEF UpdateProvider, At, StaleProvider
        <4>2. /\ db'.accounts = db.accounts
              /\ db'.providers[p] = db.providers[p]
          BY <2>10, <2>0, <4>1 DEF UpdateProvider, On, RedisUpdateProvider, MysqlUpdateProvider,
                                   SqliteUpdateProvider, Databases
        <4> QED BY <2>0, <4>2, CountedAlike
      <3> QED BY <3>1, <3>2
    <2>11. ASSUME NEW u \in Callers, NEW i \in Ids, NEW fk \in BOOLEAN, IncrFailure(u, i, fk)
           PROVE  CountsFollow(db, db', p)
      <3>1. db'.accounts = db.accounts /\ db'.providers = db.providers
        BY <2>11, <2>0 DEF IncrFailure, On, RedisIncrFailure, MysqlIncrFailure, SqliteIncrFailure,
                           Databases
      <3> QED BY <2>c, <3>1
    <2>12. ASSUME NEW u \in Callers, RemoveStats(u)
           PROVE  CountsFollow(db, db', p)
      <3>1. db'.accounts = db.accounts /\ db'.providers = db.providers
        BY <2>12, <2>0 DEF RemoveStats, RedisRemoveStats, Databases
      <3> QED BY <2>c, <3>1
    <2>13. CASE UNCHANGED db
      BY <2>13, <2>b
    <2>14. ASSUME NEW u \in Callers
           PROVE  /\ \A i \in Ids : GetAccount(u, i) \/ PrepareRemove(u, i) \/ PrepareNext(u, i)
                                       => UNCHANGED db
                  /\ PrepareUpdate(u) \/ PrepareProvider(u) \/ GiveUp(u) => UNCHANGED db
                  /\ \A q \in Providers : GetProvider(u, q) => UNCHANGED db
                  /\ \A q \in Providers : PrepareCascade(u, q) \/ ListMembers(u, q) => UNCHANGED db
                  /\ FetchMembers(u) => UNCHANGED db
      BY DEF GetAccount, PrepareRemove, PrepareNext, PrepareUpdate, PrepareProvider, GiveUp,
             GetProvider, PrepareCascade, ListMembers, FetchMembers
    <2> QED BY <1>1, <2>1, <2>2, <2>3, <2>4, <2>5, <2>6, <2>7, <2>8, <2>9, <2>10, <2>11, <2>12,
               <2>13, <2>14 DEF Next, vars
  <1>2. TypeOK /\ TypeOK' /\ [Next]_vars =>
           [\A p \in Providers :
              db' # db /\ db.providers[p] # NoProvider /\ db'.providers[p] # NoProvider =>
                 \/ Follows(p)
                 \/ Short(p)
                 \/ \E u \in Callers : \/ (RemoveAccount(u) \/ \E s \in Statuses : UpdateStatus(u, s))
                                          /\ StaleAccount(u)
                                       \/ UpdateProvider(u) /\ StaleProvider(u)
                                       \/ \E fk \in BOOLEAN : RemoveAccounts(u, p, fk)]_vars
    <2> HIDE DEF NoProvider
    <2> SUFFICES ASSUME TypeOK, TypeOK', [Next]_vars, NEW p \in Providers,
                        db' # db, db.providers[p] # NoProvider, db'.providers[p] # NoProvider
                 PROVE  Follows(p) \/ Short(p) \/ CountsExcused(p)
      BY DEF CountsExcused
    <2>1. CountsFollow(db, db', p) \/ CountsExcused(p)
      BY <1>1
    <2> QED BY <2>1, Zenon DEF CountsFollow, FollowsIn, ShortIn, Follows, Short
  <1> QED BY <1>2, TypeCorrect, PTL DEF Spec, CountsFollowAccounts

-----------------------------------------------------------------------------
\* DeadEntries and Unlisted of any database.
DeadIn(d) == {e \in d.index : d.accounts[e[2]] = NoAccount
                              \/ e \notin Entries(e[2], d.accounts[e[2]].status)}
UnlistedIn(d) == {p \in Providers : (p \in d.listed) # (d.providers[p] # NoProvider)}

\* No entry dies, and no provider is listed wrongly, from d to e.
NoDrift(d, e) == DeadIn(e) \subseteq DeadIn(d) /\ UnlistedIn(e) \subseteq UnlistedIn(d)

\* The entries of an account are its own.
LEMMA OwnEntries ==
    ASSUME NEW i, NEW s, NEW e \in Entries(i, s)
    PROVE  e[2] = i
  BY DEF Entries

\* Where only one account and its entries change, and what it still has not is gone, no entry dies.
LEMMA EntriesLive ==
    ASSUME NEW d \in Databases, NEW e \in Databases, NEW i \in Ids,
           \A j \in Ids \ {i} : e.accounts[j] = d.accounts[j],
           \A x \in e.index : x[2] # i => x \in d.index,
           \A x \in e.index : x[2] = i =>
              \/ x \in d.index /\ (d.accounts[i] = NoAccount
                                   \/ x \notin Entries(i, d.accounts[i].status))
              \/ e.accounts[i] # NoAccount /\ x \in Entries(i, e.accounts[i].status)
    PROVE  DeadIn(e) \subseteq DeadIn(d)
  <1> SUFFICES ASSUME NEW x \in e.index,
                      e.accounts[x[2]] = NoAccount \/ x \notin Entries(x[2], e.accounts[x[2]].status)
               PROVE  x \in DeadIn(d)
    BY DEF DeadIn
  <1>1. x[2] \in Ids
    BY DEF Databases
  <1>2. CASE x[2] = i
    BY <1>2 DEF DeadIn
  <1>3. CASE x[2] # i
    BY <1>1, <1>3 DEF DeadIn
  <1> QED BY <1>2, <1>3

\* What counts the accounts of a provider leaves the listing as it is.
LEMMA ListingStays ==
    ASSUME NEW d \in Databases, NEW e \in Databases, e.listed = d.listed,
           \A p \in Providers : e.providers[p] = NoProvider <=> d.providers[p] = NoProvider
    PROVE  UnlistedIn(e) \subseteq UnlistedIn(d)
  BY DEF UnlistedIn

\* The calls of Redis about an account, unless they have read something else than they find.
LEMMA RedisAccountsNoDrift ==
    ASSUME StoreParameters, NEW d \in Databases, NEW i \in Ids, NEW s \in Statuses, NEW v \in Nat
    PROVE  /\ NoDrift(d, RedisAddAccount(d, i, s))
           /\ NoDrift(d, RedisUpdateOther(d, i, v))
           /\ d.accounts[i] # NoAccount =>
                 /\ NoDrift(d, RedisUpdateStatus(d, i, v, d.accounts[i], s))
                 /\ NoDrift(d, RedisRemoveAccount(d, i, d.accounts[i]))
  <1> DEFINE old == d.accounts[i]
             q == ProviderOf[i]
             c == d.providers[q]
  <1>0. /\ old \in Rows /\ q \in Providers /\ c \in Counts
        /\ New(s) \in Rows /\ New(s) # NoAccount /\ New(s).status = s /\ Empty \in Counts
    BY RowWorth DEF Databases, StoreParameters, New, Counts
  <1>1. /\ RedisAddAccount(d, i, s) \in Databases /\ RedisUpdateOther(d, i, v) \in Databases
        /\ old # NoAccount =>
              /\ RedisUpdateStatus(d, i, v, old, s) \in Databases
              /\ RedisRemoveAccount(d, i, old) \in Databases
    <2>1. PICK p \in Providers : TRUE
      BY <1>0
    <2> QED BY <1>0, <2>1, RedisTypes, SMTT(30)
  <1>2. NoDrift(d, d)
    BY DEF NoDrift
  <1>a. ASSUME NEW e \in Databases, e.listed = d.listed, NEW w,
               e.providers = [d.providers EXCEPT ![q] = w], w = NoProvider <=> c = NoProvider
        PROVE  UnlistedIn(e) \subseteq UnlistedIn(d)
    <2>1. \A p \in Providers : e.providers[p] = NoProvider <=> d.providers[p] = NoProvider
      <3> HIDE DEF NoProvider
      <3> QED BY <1>a, <1>0 DEF Databases
    <2> QED BY <1>a, <2>1, ListingStays
  <1>3. NoDrift(d, RedisAddAccount(d, i, s))
    <2> DEFINE e == RedisAddAccount(d, i, s)
               w == Counted(c, 1, One(s))
    <2>1. IF old # NoAccount THEN e = d
          ELSE /\ e.accounts = [d.accounts EXCEPT ![i] = New(s)]
               /\ e.index = d.index \cup Entries(i, s)
               /\ e.listed = d.listed
               /\ e.providers = [d.providers EXCEPT ![q] = w]
      BY DEF RedisAddAccount, Databases
    <2>2. e \in Databases
      BY <1>1
    <2>3. w = NoProvider <=> c = NoProvider
      BY <1>0, CountingKeepsProviders DEF Counted
    <2> HIDE DEF e, w
    <2>4. ASSUME old = NoAccount PROVE NoDrift(d, e)
      <3>1. /\ e.accounts[i] = New(s)
            /\ \A j \in Ids \ {i} : e.accounts[j] = d.accounts[j]
        BY <2>1, <2>4 DEF Databases
      <3>2. /\ \A x \in e.index : x[2] # i => x \in d.index
            /\ \A x \in e.index : x \in d.index \/ x \in Entries(i, s)
        BY <2>1, <2>4, OwnEntries
      <3>3. DeadIn(e) \subseteq DeadIn(d)
        BY <1>0, <2>2, <2>4, <3>1, <3>2, EntriesLive
      <3> QED BY <1>a, <2>1, <2>2, <2>3, <2>4, <3>3 DEF NoDrift
    <2>5. NoDrift(d, e)
      BY <1>2, <2>1, <2>4
    <2> QED BY <2>5 DEF e
  <1>4. NoDrift(d, RedisUpdateOther(d, i, v))
    <2> DEFINE e == RedisUpdateOther(d, i, v)
    <2>1. IF old = NoAccount \/ old.version # v THEN e = d
          ELSE /\ e.accounts = [d.accounts EXCEPT ![i].version = @ + 1]
               /\ e.providers = d.providers /\ e.index = d.index /\ e.listed = d.listed
      BY DEF RedisUpdateOther, MayUpdate, Databases
    <2>2. e \in Databases
      BY <1>1
    <2> HIDE DEF e
    <2>3. ASSUME ~(old = NoAccount \/ old.version # v) PROVE NoDrift(d, e)
      <3>1. /\ e.accounts[i] = [old EXCEPT !.version = @ + 1]
            /\ \A j \in Ids \ {i} : e.accounts[j] = d.accounts[j]
        BY <2>1, <2>3 DEF Databases
      <3>2. e.accounts[i] # NoAccount /\ e.accounts[i].status = old.status
        BY <1>0, <2>3, <3>1 DEF Rows
      <3>3. DeadIn(e) \subseteq DeadIn(d)
        BY <2>1, <2>2, <2>3, <3>1, <3>2, EntriesLive
      <3>4. UnlistedIn(e) \subseteq UnlistedIn(d)
        BY <2>1, <2>2, <2>3, ListingStays
      <3> QED BY <3>3, <3>4 DEF NoDrift
    <2>4. NoDrift(d, e)
      BY <1>2, <2>1, <2>3
    <2> QED BY <2>4 DEF e
  <1>5. ASSUME old # NoAccount
        PROVE  NoDrift(d, RedisUpdateStatus(d, i, v, old, s))
    <2> DEFINE e == RedisUpdateStatus(d, i, v, old, s)
               row == [status |-> s, version |-> old.version + 1]
               w == CountedFloored(c, 0, One(s) - One(old.status))
    <2>1. IF ~MayUpdate(old, v) THEN e = d
          ELSE /\ e.accounts = [d.accounts EXCEPT ![i] = row]
               /\ e.index = MovedIndex(d, i, old, s)
               /\ e.listed = d.listed
               /\ e.providers = [d.providers EXCEPT ![q] = w]
      BY DEF RedisUpdateStatus, Databases
    <2>2. e \in Databases
      BY <1>1, <1>5
    <2>3. w = NoProvider <=> c = NoProvider
      <3>1. old.status \in Statuses
        BY <1>0, <1>5 DEF Rows
      <3> QED BY <1>0, <3>1, CountingKeepsProviders DEF CountedFloored
    <2>4. row.status = s /\ row # NoAccount
      OBVIOUS
    <2> HIDE DEF e, w, row
    <2>5. ASSUME MayUpdate(old, v) PROVE NoDrift(d, e)
      <3>1. /\ e.accounts[i] = row
            /\ \A j \in Ids \ {i} : e.accounts[j] = d.accounts[j]
        BY <2>1, <2>5 DEF Databases
      <3>2. /\ \A x \in e.index : x[2] # i => x \in d.index
            /\ \A x \in e.index : \/ x \in d.index /\ x \notin Entries(i, old.status)
                                  \/ x \in Entries(i, s)
        BY <2>1, <2>5, OwnEntries DEF MovedIndex
      <3>3. DeadIn(e) \subseteq DeadIn(d)
        BY <2>2, <2>4, <3>1, <3>2, EntriesLive
      <3> QED BY <1>a, <2>1, <2>2, <2>3, <2>5, <3>3 DEF NoDrift
    <2>6. NoDrift(d, e)
      BY <1>2, <2>1, <2>5
    <2> QED BY <2>6 DEF e
  <1>6. ASSUME old # NoAccount
        PROVE  NoDrift(d, RedisRemoveAccount(d, i, old))
    <2> DEFINE e == RedisRemoveAccount(d, i, old)
               w == CountedFloored(c, -1, -One(old.status))
    <2>1. /\ e.accounts = [d.accounts EXCEPT ![i] = NoAccount]
          /\ e.index = d.index \ Entries(i, old.status)
          /\ e.listed = d.listed
          /\ e.providers = [d.providers EXCEPT ![q] = w]
      BY DEF RedisRemoveAccount, Databases, CountedDown
    <2>2. e \in Databases
      BY <1>1, <1>6
    <2>3. w = NoProvider <=> c = NoProvider
      <3>1. old.status \in Statuses
        BY <1>0, <1>6 DEF Rows
      <3> QED BY <1>0, <3>1, CountingKeepsProviders DEF CountedFloored
    <2> HIDE DEF e, w
    <2>4. \A j \in Ids \ {i} : e.accounts[j] = d.accounts[j]
      BY <2>1 DEF Databases
    <2>5. \A x \in e.index : x \in d.index /\ x \notin Entries(i, old.status)
      BY <2>1
    <2>6. DeadIn(e) \subseteq DeadIn(d)
      BY <2>2, <2>4, <2>5, EntriesLive
    <2>7. NoDrift(d, e)
      BY <1>a, <2>1, <2>2, <2>3, <2>6 DEF NoDrift
    <2> QED BY <2>7 DEF e
  <1> QED BY <1>3, <1>4, <1>5, <1>6

\* The calls of Redis about a provider, unless what is stored back is not what is there.
LEMMA RedisProvidersNoDrift ==
    ASSUME NEW d \in Databases, NEW p \in Providers
    PROVE  /\ NoDrift(d, RedisAddProvider(d, p))
           /\ NoDrift(d, RedisUpdateProvider(d, p, d.providers[p]))
           /\ NoDrift(d, RedisRemoveProvider(d, p))
  <1>1. ASSUME NEW e, e.accounts = d.accounts, e.index = d.index
        PROVE  DeadIn(e) \subseteq DeadIn(d)
    BY <1>1 DEF DeadIn
  <1>2. NoDrift(d, RedisAddProvider(d, p))
    <2> DEFINE e == RedisAddProvider(d, p)
    <2>1. e.accounts = d.accounts /\ e.index = d.index
      BY DEF RedisAddProvider, Databases
    <2>2. UnlistedIn(e) \subseteq UnlistedIn(d)
      BY DEF RedisAddProvider, Databases, UnlistedIn
    <2> QED BY <1>1, <2>1, <2>2 DEF NoDrift
  <1>3. NoDrift(d, RedisUpdateProvider(d, p, d.providers[p]))
    <2> DEFINE e == RedisUpdateProvider(d, p, d.providers[p])
    <2>1. e.accounts = d.accounts /\ e.index = d.index
      BY DEF RedisUpdateProvider, Databases
    <2>2. UnlistedIn(e) \subseteq UnlistedIn(d)
      BY DEF RedisUpdateProvider, Databases, UnlistedIn
    <2> QED BY <1>1, <2>1, <2>2 DEF NoDrift
  <1>4. NoDrift(d, RedisRemoveProvider(d, p))
    <2> DEFINE e == RedisRemoveProvider(d, p)
    <2>1. e.accounts = d.accounts /\ e.index = d.index
      BY DEF RedisRemoveProvider, Databases
    <2>2. UnlistedIn(e) \subseteq UnlistedIn(d)
      BY DEF RedisRemoveProvider, Databases, UnlistedIn
    <2> QED BY <1>1, <2>1, <2>2 DEF NoDrift
  <1> QED BY <1>2, <1>3, <1>4

\* Even when it is overtaken, a call about an account leaves the list of providers alone.
LEMMA RacedDrift ==
    ASSUME StoreParameters, NEW d \in Databases, NEW i \in Ids, NEW s \in Statuses, NEW v \in Nat,
           NEW seen \in Rows, seen # NoAccount
    PROVE  /\ UnlistedIn(RedisUpdateStatus(d, i, v, seen, s)) \subseteq UnlistedIn(d)
           /\ UnlistedIn(RedisRemoveAccount(d, i, seen)) \subseteq UnlistedIn(d)
  <1> DEFINE q == ProviderOf[i]
             c == d.providers[q]
  <1>0. /\ d.accounts[i] \in Rows /\ q \in Providers /\ c \in Counts
        /\ seen.status \in Statuses
        /\ d.accounts[i] # NoAccount => d.accounts[i].status \in Statuses
    BY DEF Databases, StoreParameters, Rows
  <1>a. /\ RedisUpdateStatus(d, i, v, seen, s) \in Databases
        /\ RedisRemoveAccount(d, i, seen) \in Databases
    BY <1>0, RedisTypes
  <1>b. ASSUME NEW e \in Databases, e.listed = d.listed, NEW w,
               e.providers = [d.providers EXCEPT ![q] = w], w = NoProvider <=> c = NoProvider
        PROVE  UnlistedIn(e) \subseteq UnlistedIn(d)
    <2>1. \A r \in Providers : e.providers[r] = NoProvider <=> d.providers[r] = NoProvider
      <3> HIDE DEF NoProvider
      <3> QED BY <1>b, <1>0 DEF Databases
    <2> QED BY <1>b, <2>1, ListingStays
  <1>1. UnlistedIn(RedisUpdateStatus(d, i, v, seen, s)) \subseteq UnlistedIn(d)
    <2> DEFINE e == RedisUpdateStatus(d, i, v, seen, s)
               w == CountedFloored(c, 0, One(s) - One(d.accounts[i].status))
    <2>1. \/ e = d
          \/ /\ d.accounts[i] # NoAccount
             /\ e.listed = d.listed
             /\ e.providers = [d.providers EXCEPT ![q] = w]
      BY DEF RedisUpdateStatus, MayUpdate, Databases
    <2>2. d.accounts[i] # NoAccount => (w = NoProvider <=> c = NoProvider)
      BY <1>0, CountingKeepsProviders DEF CountedFloored
    <2> HIDE DEF w
    <2> QED BY <1>a, <1>b, <2>1, <2>2
  <1>2. UnlistedIn(RedisRemoveAccount(d, i, seen)) \subseteq UnlistedIn(d)
    <2> DEFINE e == RedisRemoveAccount(d, i, seen)
               w == CountedFloored(c, -1, -One(seen.status))
    <2>1. /\ e.listed = d.listed
          /\ e.providers = [d.providers EXCEPT ![q] = w]
      BY DEF RedisRemoveAccount, CountedDown, Databases
    <2>2. w = NoProvider <=> c = NoProvider
      BY <1>0, CountingKeepsProviders DEF CountedFloored
    <2> HIDE DEF w
    <2> QED BY <1>a, <1>b, <2>1, <2>2
  <1> QED BY <1>1, <1>2

\* A step about an account, or about a provider, that was overtaken.
AccountRaced == \E u \in Callers : (RemoveAccount(u) \/ \E s \in Statuses : UpdateStatus(u, s))
                                   /\ StaleAccount(u)
ProviderRaced == \E u \in Callers : UpdateProvider(u) /\ StaleProvider(u)

\* The indexes of Redis and its list of providers go wrong in no other step than a removal
\* or a change of an account, or an update of a provider, that others overtook.
THEOREM DriftNeedsRace == Spec => IndexDriftNeedsRace
  <1> DEFINE Drifts == /\ DeadIn(db') \subseteq DeadIn(db) \/ AccountRaced
                       /\ UnlistedIn(db') \subseteq UnlistedIn(db) \/ ProviderRaced
  <1>1. ASSUME TypeOK, TypeOK', [Next]_vars, backend = "redis"
        PROVE  Drifts
    <2> USE StoreParameters
    <2>0. db \in Databases /\ db' \in Databases
      BY <1>1 DEF TypeOK
    <2>a. ASSUME NEW u \in Callers
          PROVE  call[u] \in Calls /\ Equipped(call[u])
      BY <1>1 DEF TypeOK
    <2>b. NoDrift(db, db') => Drifts
      BY DEF NoDrift
    <2>c. ASSUME UNCHANGED db PROVE Drifts
      BY <2>c, <2>b DEF NoDrift
    <2>d. Empty \in Counts /\ 0 \in Nat
      BY DEF Counts
    <2>1. ASSUME NEW u \in Callers, NEW i \in Ids, NEW s \in Statuses, NEW fk \in BOOLEAN,
                 AddAccount(u, i, s, fk)
          PROVE  Drifts
      <3>1. db' = RedisAddAccount(db, i, s)
        BY <1>1, <2>1 DEF AddAccount, On
      <3> QED BY <2>0, <2>b, <2>d, <3>1, RedisAccountsNoDrift
    <2>2. ASSUME NEW u \in Callers, NEW s \in Statuses, UpdateStatus(u, s)
          PROVE  Drifts
      <3> DEFINE i == call[u].id
                 v == call[u].row.version
      <3>0. /\ At(u, "update")
            /\ db' = RedisUpdateStatus(db, i, v, call[u].seen, s)
        BY <1>1, <2>2 DEF UpdateStatus, On
      <3>1. /\ i \in Ids /\ v \in Nat /\ call[u].seen \in Rows /\ call[u].seen # NoAccount
            /\ ProviderOf[i] \in Providers
        BY <2>a, <3>0, CallParts DEF At
      <3>2. CASE StaleAccount(u)
        <4>1. UnlistedIn(db') \subseteq UnlistedIn(db)
          <5> HIDE DEF i, v
          <5> QED BY <2>0, <2>d, <3>0, <3>1, RacedDrift
        <4> QED BY <2>2, <3>2, <4>1 DEF AccountRaced
      <3>3. CASE ~StaleAccount(u)
        <4>1. call[u].seen = db.accounts[i]
          BY <3>0, <3>3 DEF StaleAccount, At
        <4> HIDE DEF i, v
        <4> QED BY <2>0, <2>b, <3>0, <3>1, <4>1, RedisAccountsNoDrift
      <3> QED BY <3>2, <3>3
    <2>3. ASSUME NEW u \in Callers, UpdateOther(u)
          PROVE  Drifts
      <3> DEFINE i == call[u].id
                 v == call[u].row.version
      <3>0. At(u, "update") /\ db' = RedisUpdateOther(db, i, v)
        BY <1>1, <2>3 DEF UpdateOther, On
      <3>1. i \in Ids /\ v \in Nat /\ "available" \in Statuses
        BY <2>a, <3>0, CallParts DEF At
      <3> HIDE DEF i, v
      <3> QED BY <2>0, <2>b, <3>0, <3>1, RedisAccountsNoDrift
    <2>4. ASSUME NEW u \in Callers, RemoveAccount(u)
          PROVE  Drifts
      <3> DEFINE i == call[u].id
      <3>0. At(u, "remove") /\ db' = RedisRemoveAccount(db, i, call[u].seen)
        BY <1>1, <2>4 DEF RemoveAccount, On
      <3>1. /\ i \in Ids /\ call[u].seen \in Rows /\ call[u].seen # NoAccount
            /\ ProviderOf[i] \in Providers /\ "available" \in Statuses
        BY <2>a, <3>0, CallParts DEF At
      <3>2. CASE StaleAccount(u)
        <4>1. UnlistedIn(db') \subseteq UnlistedIn(db)
          <5> HIDE DEF i
          <5> QED BY <2>0, <2>d, <3>0, <3>1, RacedDrift
        <4> QED BY <2>4, <3>2, <4>1 DEF AccountRaced
      <3>3. CASE ~StaleAccount(u)
        <4>1. call[u].seen = db.accounts[i]
          BY <3>0, <3>3 DEF StaleAccount, At
        <4> HIDE DEF i
        <4> QED BY <2>0, <2>b, <2>d, <3>0, <3>1, <4>1, RedisAccountsNoDrift
      <3> QED BY <3>2, <3>3
    <2>5. ASSUME NEW u \in Callers, UpdateProvider(u)
          PROVE  Drifts
      <3> DEFINE q == call[u].prov
      <3>0. At(u, "set") /\ db' = RedisUpdateProvider(db, q, call[u].info)
        BY <1>1, <2>5 DEF UpdateProvider, On
      <3>1. q \in Providers /\ call[u].info \in Counts
        BY <2>a, <3>0, CallParts DEF At
      <3>2. CASE StaleProvider(u)
        <4>1. DeadIn(db') \subseteq DeadIn(db)
          BY <2>0, <3>0, <3>1 DEF RedisUpdateProvider, DeadIn, Databases
        <4> QED BY <2>5, <3>2, <4>1 DEF ProviderRaced
      <3>3. CASE ~StaleProvider(u)
        <4>1. call[u].info = db.providers[q]
          BY <3>0, <3>3 DEF StaleProvider, At
        <4> HIDE DEF q
        <4> QED BY <2>0, <2>b, <3>0, <3>1, <4>1, RedisProvidersNoDrift
      <3> QED BY <3>2, <3>3
    <2>6. ASSUME NEW u \in Callers, NEW p \in Providers, AddProvider(u, p)
          PROVE  Drifts
      <3>1. db' = RedisAddProvider(db, p)
        BY <1>1, <2>6 DEF AddProvider, On
      <3> QED BY <2>0, <2>b, <3>1, RedisProvidersNoDrift
    <2>7. ASSUME NEW u \in Callers, LoopDone(u)
          PROVE  Drifts
      <3>1. call[u].prov \in Providers
        BY <2>7, <2>a, CallParts DEF LoopDone, At
      <3>2. db' = RedisRemoveProvider(db, call[u].prov) \/ db' = db
        BY <2>7 DEF LoopDone
      <3> QED BY <2>0, <2>b, <2>c, <3>1, <3>2, RedisProvidersNoDrift
    <2>8. ASSUME NEW u \in Callers, RemoveStats(u)
          PROVE  Drifts
      <3>1. call[u].id \in Ids /\ db' = RedisRemoveStats(db, call[u].id)
        BY <2>8, <2>a, CallParts DEF RemoveStats, At
      <3> QED BY <2>0, <2>b, <3>1 DEF NoDrift, DeadIn, UnlistedIn, RedisRemoveStats, Databases
    <2>9. ASSUME NEW u \in Callers, NEW i \in Ids, NEW fk \in BOOLEAN, IncrFailure(u, i, fk)
          PROVE  Drifts
      <3>1. db' = RedisIncrFailure(db, i)
        BY <1>1, <2>9 DEF IncrFailure, On
      <3> QED BY <2>0, <2>b, <3>1 DEF NoDrift, DeadIn, UnlistedIn, RedisIncrFailure, Databases
    <2>10. ASSUME NEW u \in Callers
           PROVE  /\ \A i \in Ids, fk \in BOOLEAN : ~RemoveAtOnce(u, i, fk)
                  /\ \A p \in Providers, fk \in BOOLEAN : /\ ~RemoveAccounts(u, p, fk)
                                                          /\ ~RemoveProvider(u, p, fk)
      BY <1>1 DEF RemoveAtOnce, RemoveAccounts, RemoveProvider, On
    <2>11. ASSUME NEW u \in Callers
           PROVE  /\ \A i \in Ids : GetAccount(u, i) \/ PrepareRemove(u, i) \/ PrepareNext(u, i)
                                       => UNCHANGED db
                  /\ PrepareUpdate(u) \/ PrepareProvider(u) \/ GiveUp(u) => UNCHANGED db
                  /\ \A q \in Providers : GetProvider(u, q) => UNCHANGED db
                  /\ \A q \in Providers : PrepareCascade(u, q) \/ ListMembers(u, q) => UNCHANGED db
                  /\ FetchMembers(u) => UNCHANGED db
      BY DEF GetAccount, PrepareRemove, PrepareNext, PrepareUpdate, PrepareProvider, GiveUp,
             GetProvider, PrepareCascade, ListMembers, FetchMembers
    <2> HIDE DEF Drifts
    <2> QED BY <1>1, <2>c, <2>1, <2>2, <2>3, <2>4, <2>5, <2>6, <2>7, <2>8, <2>9, <2>10, <2>11
            DEF Next, vars
  <1>2. TypeOK /\ TypeOK' /\ [Next]_vars =>
           [backend = "redis" /\ db' # db =>
              /\ DeadEntries' \subseteq DeadEntries
                 \/ \E u \in Callers : (RemoveAccount(u) \/ \E s \in Statuses : UpdateStatus(u, s))
                                       /\ StaleAccount(u)
              /\ Unlisted' \subseteq Unlisted
                 \/ \E u \in Callers : UpdateProvider(u) /\ StaleProvider(u)]_vars
    <2>1. /\ DeadEntries = DeadIn(db) /\ DeadEntries' = DeadIn(db')
          /\ Unlisted = UnlistedIn(db) /\ Unlisted' = UnlistedIn(db')
      BY DEF DeadEntries, DeadIn, Unlisted, UnlistedIn
    <2> QED BY <1>1, <2>1 DEF AccountRaced, ProviderRaced
  <1> QED BY <1>2, TypeCorrect, PTL DEF Spec, IndexDriftNeedsRace

-----------------------------------------------------------------------------
\* The entries of account i are those of its status.
Indexed(d, i) == {e \in d.index : e[2] = i} = Entries(i, d.accounts[i].status)

\* What a call about account i has read is not ahead of what is stored, nor of what it has
\* read again; and a version is read with the status it was written with.
Behind(c, i, row) ==
    c.id = i =>
       /\ c.pc \in {"copy", "update"} => c.row.version <= row.version
       /\ c.pc = "update" => /\ c.row.version <= c.seen.version
                             /\ c.seen.version <= row.version
                             /\ c.seen.version = row.version => c.seen = row

\* Nobody has had to do with account i.
Untouched(i) == /\ db.accounts[i] = NoAccount
                /\ \A e \in db.index : e[2] # i
                /\ \A u \in Callers : call[u].id # i

\* In Redis an account whose id is used for the first time is in the groups of its status.
Grouped(i) == adds[i] <= 1 =>
                 /\ adds[i] = 0 => Untouched(i)
                 /\ db.accounts[i] # NoAccount =>
                       /\ Indexed(db, i)
                       /\ \A u \in Callers : Behind(call[u], i, db.accounts[i])
InItsGroups == /\ adds \in [Ids -> Nat]
               /\ backend = "redis" => \A i \in Ids : Grouped(i)

\* A step leaves account i and its entries as they are; the call of u goes on or is another.
RowStays(d, e, i) == /\ e.accounts[i] = d.accounts[i]
                     /\ \A x : x[2] = i => (x \in e.index <=> x \in d.index)
CallStays(c, e, i) == e.id = i => /\ c.id = i \/ db.accounts[i] # NoAccount
                                  /\ db.accounts[i] # NoAccount /\ Behind(c, i, db.accounts[i])
                                        => Behind(e, i, db.accounts[i])

\* Then the account stays in its groups.
LEMMA GroupedStays ==
    ASSUME NEW i \in Ids, Grouped(i), adds'[i] = adds[i], RowStays(db, db', i),
           \A u \in Callers : CallStays(call[u], call'[u], i)
    PROVE  Grouped(i)'
  <1>1. db'.accounts[i] = db.accounts[i]
    BY DEF RowStays
  <1>2. Indexed(db, i) => Indexed(db', i)
    <2>1. \A x : (x \in {e \in db'.index : e[2] = i} <=> x \in {e \in db.index : e[2] = i})
      BY DEF RowStays
    <2>2. {e \in db'.index : e[2] = i} = {e \in db.index : e[2] = i}
      BY <2>1
    <2> QED BY <1>1, <2>2 DEF Indexed
  <1>3. Untouched(i) => Untouched(i)'
    BY DEF Untouched, RowStays, CallStays
  <1>4. ASSUME NEW u \in Callers, db.accounts[i] # NoAccount, Behind(call[u], i, db.accounts[i])
        PROVE  Behind(call'[u], i, db'.accounts[i])
    <2>1. CASE call'[u].id = i
      BY <1>1, <1>4, <2>1 DEF CallStays
    <2>2. CASE call'[u].id # i
      BY <2>2 DEF Behind
    <2> QED BY <2>1, <2>2
  <1> QED BY <1>1, <1>2, <1>3, <1>4 DEF Grouped

\* An account that somebody is removing or changing has been added.
LEMMA GroupedRemoval ==
    ASSUME NEW i \in Ids, Grouped(i), adds'[i] = adds[i], db'.accounts[i] = NoAccount,
           NEW u \in Callers, call[u].id = i
    PROVE  Grouped(i)'
  BY DEF Grouped, Untouched

\* A change is made from what is stored, or it is not made.
LEMMA GroupedChange ==
    ASSUME NEW i \in Ids, Grouped(i), adds'[i] = adds[i], db \in Databases,
           db.accounts[i] # NoAccount, db'.accounts[i] # NoAccount,
           db'.accounts[i].version = db.accounts[i].version + 1,
           Indexed(db, i) => Indexed(db', i),
           TypeOK, \A u \in Callers : call'[u] = call[u] \/ call'[u].id # i
    PROVE  Grouped(i)'
  <1>1. db.accounts[i].version \in Nat
    BY DEF Databases, Rows
  <1>2. ASSUME NEW u \in Callers, Behind(call[u], i, db.accounts[i])
        PROVE  Behind(call'[u], i, db'.accounts[i])
    <2>1. call[u].row.version \in Nat /\ call[u].seen.version \in Nat
      <3>1. call[u].row \in Rows /\ call[u].seen \in Rows
        BY DEF TypeOK, Calls
      <3> QED BY <3>1 DEF Rows
    <2>2. CASE call'[u].id # i
      BY <2>2 DEF Behind
    <2>3. CASE call'[u] = call[u]
      BY <1>1, <1>2, <2>1, <2>3 DEF Behind
    <2> QED BY <2>2, <2>3
  <1>3. adds[i] = 0 => FALSE
    BY DEF Grouped, Untouched
  <1> QED BY <1>2, <1>3 DEF Grouped

\* The entries of the other accounts are not moved, and those of the account are the new ones.
LEMMA IndexMoves ==
    ASSUME NEW d, NEW i, NEW s, NEW old
    PROVE  /\ \A x : x[2] # i => (x \in MovedIndex(d, i, old, s) <=> x \in d.index)
           /\ {e \in d.index : e[2] = i} = Entries(i, old.status) =>
                 {e \in MovedIndex(d, i, old, s) : e[2] = i} = Entries(i, s)
  <1>1. \A t, x : x \in Entries(i, t) => x[2] = i
    BY OwnEntries
  <1>2. \A x : x[2] # i => (x \in MovedIndex(d, i, old, s) <=> x \in d.index)
    BY <1>1 DEF MovedIndex
  <1>3. ASSUME {e \in d.index : e[2] = i} = Entries(i, old.status)
        PROVE  {e \in MovedIndex(d, i, old, s) : e[2] = i} = Entries(i, s)
    <2>1. \A x : x \in {e \in MovedIndex(d, i, old, s) : e[2] = i} <=> x \in Entries(i, s)
      BY <1>1, <1>3 DEF MovedIndex
    <2> QED BY <2>1
  <1> QED BY <1>2, <1>3

\* Joined by "/", a type without "/" and a name can be told apart again.
LEMMA JoinSplits ==
    ASSUME NEW S, "/" \in S, NEW t \in Seq(S), NEW v \in Seq(S), NEW n \in Seq(S), NEW w \in Seq(S),
           \A k \in 1..Len(t) : t[k] # "/", \A k \in 1..Len(v) : v[k] # "/",
           Join(t, n) = Join(v, w)
    PROVE  t = v /\ n = w
  <1> DEFINE x == Join(t, n)
             y == Join(v, w)
  <1>1. /\ x \in Seq(S) /\ Len(x) = Len(t) + 1 + Len(n)
        /\ \A k \in 1..Len(t) : x[k] = t[k]
        /\ x[Len(t) + 1] = "/"
        /\ \A k \in 1..Len(n) : x[Len(t) + 1 + k] = n[k]
    BY DEF Join
  <1>2. /\ y \in Seq(S) /\ Len(y) = Len(v) + 1 + Len(w)
        /\ \A k \in 1..Len(v) : y[k] = v[k]
        /\ y[Len(v) + 1] = "/"
        /\ \A k \in 1..Len(w) : y[Len(v) + 1 + k] = w[k]
    BY DEF Join
  <1>3. x = y
    OBVIOUS
  <1> HIDE DEF x, y
  <1>4. Len(t) \in Nat /\ Len(v) \in Nat /\ Len(n) \in Nat /\ Len(w) \in Nat
    OBVIOUS
  <1>5. ~(Len(t) < Len(v))
    <2> SUFFICES ASSUME Len(t) < Len(v) PROVE FALSE
      OBVIOUS
    <2>1. Len(t) + 1 \in 1..Len(v)
      BY <1>4
    <2> QED BY <2>1, <1>1, <1>2, <1>3
  <1>6. ~(Len(v) < Len(t))
    <2> SUFFICES ASSUME Len(v) < Len(t) PROVE FALSE
      OBVIOUS
    <2>1. Len(v) + 1 \in 1..Len(t)
      BY <1>4
    <2> QED BY <2>1, <1>1, <1>2, <1>3
  <1>7. Len(t) = Len(v) /\ Len(n) = Len(w)
    BY <1>1, <1>2, <1>3, <1>4, <1>5, <1>6
  <1>8. \A k \in 1..Len(t) : t[k] = v[k]
    BY <1>1, <1>2, <1>3, <1>7
  <1>9. \A k \in 1..Len(n) : n[k] = w[k]
    BY <1>1, <1>2, <1>3, <1>7
  <1>10. t = v
    BY <1>7, <1>8, SeqEqual
  <1>11. n = w
    BY <1>7, <1>9, SeqEqual
  <1> QED BY <1>10, <1>11

\* A key begins with the kind of its index.
Under(a, x) == <<a>> \o x

LEMMA UnderSplits ==
    ASSUME NEW S, NEW a \in S, NEW b \in S, NEW x \in Seq(S), NEW y \in Seq(S),
           Under(a, x) = Under(b, y)
    PROVE  a = b /\ x = y
  <1> DEFINE p == Under(a, x)
             q == Under(b, y)
  <1>1. Len(p) = 1 + Len(x) /\ p[1] = a /\ \A k \in 1..Len(x) : p[k + 1] = x[k]
    BY DEF Under
  <1>2. Len(q) = 1 + Len(y) /\ q[1] = b /\ \A k \in 1..Len(y) : q[k + 1] = y[k]
    BY DEF Under
  <1>3. p = q
    OBVIOUS
  <1> HIDE DEF p, q
  <1>4. a = b /\ Len(x) = Len(y)
    BY <1>1, <1>2, <1>3
  <1>5. \A k \in 1..Len(x) : x[k] = y[k]
    BY <1>1, <1>2, <1>3, <1>4
  <1> QED BY <1>4, <1>5, SeqEqual

\* What comes after the last "/" can be told apart, too.
LEMMA EndSplits ==
    ASSUME NEW S, "/" \in S, NEW x \in Seq(S), NEW y \in Seq(S), NEW a \in S, NEW b \in S,
           Join(x, <<a>>) = Join(y, <<b>>)
    PROVE  x = y /\ a = b
  <1> DEFINE p == Join(x, <<a>>)
             q == Join(y, <<b>>)
  <1>1. /\ Len(p) = Len(x) + 2 /\ p[Len(x) + 2] = a
        /\ \A k \in 1..Len(x) : p[k] = x[k]
    BY DEF Join
  <1>2. /\ Len(q) = Len(y) + 2 /\ q[Len(y) + 2] = b
        /\ \A k \in 1..Len(y) : q[k] = y[k]
    BY DEF Join
  <1>3. p = q
    OBVIOUS
  <1> HIDE DEF p, q
  <1>4. Len(x) = Len(y)
    BY <1>1, <1>2, <1>3
  <1>5. a = b /\ \A k \in 1..Len(x) : x[k] = y[k]
    BY <1>1, <1>2, <1>3, <1>4
  <1> QED BY <1>4, <1>5

\* The spelling of a name, and of a type.
Word(n) == n \in Seq(STRING)
Plain(t) == Word(t) /\ \A k \in 1..Len(t) : t[k] # "/"

\* The index keys of two types, names and statuses are different.
LEMMA KeysApart ==
    ASSUME NEW t, Plain(t), NEW v, Plain(v), NEW n, Word(n), NEW w, Word(w),
           NEW g \in Statuses, NEW s \in Statuses
    PROVE  /\ ProviderKey(t, n) \notin {GlobalKey, TypeKey(v), GroupKey(v, w, s)}
           /\ ProviderKey(t, n) = ProviderKey(v, w) <=> t = v /\ n = w
           /\ GroupKey(t, n, g) \notin {GlobalKey, TypeKey(v), ProviderKey(v, w)}
           /\ GroupKey(t, n, g) = GroupKey(v, w, s) <=> t = v /\ n = w /\ g = s
  <1> DEFINE S == STRING \cup Statuses \cup {"/", "accounts:index", "accounts:type:",
                                            "accounts:provider:", "accounts:group:"}
             global == "accounts:index"
             type == "accounts:type:"
             provider == "accounts:provider:"
             group == "accounts:group:"
             none == <<>>
  <1>a. /\ g \in S /\ s \in S /\ "/" \in S
        /\ global \in S /\ type \in S /\ provider \in S /\ group \in S
    OBVIOUS
  <1>b. ASSUME NEW x \in Seq(STRING) PROVE x \in Seq(S)
    OBVIOUS
  <1>c. t \in Seq(S) /\ v \in Seq(S) /\ n \in Seq(S) /\ w \in Seq(S)
    BY <1>b DEF Plain, Word
  <1>d. none \in Seq(S)
    OBVIOUS
  <1>1. /\ GlobalKey = Under(global, none) /\ TypeKey(v) = Under(type, v)
        /\ ProviderKey(t, n) = Under(provider, Join(t, n))
        /\ ProviderKey(v, w) = Under(provider, Join(v, w))
        /\ GroupKey(t, n, g) = Under(group, Join(Join(t, n), <<g>>))
        /\ GroupKey(v, w, s) = Under(group, Join(Join(v, w), <<s>>))
    <2>1. <<global>> \o none = <<global>>
      BY <1>a, <1>d
    <2> QED BY <2>1 DEF GlobalKey, TypeKey, ProviderKey, GroupKey, Under
  <1>2. group # provider /\ provider # global /\ provider # type /\ group # global /\ group # type
    OBVIOUS
  <1> HIDE DEF S, global, type, provider, group, none
  <1>3. ASSUME NEW x \in Seq(S), NEW y \in Seq(S)
        PROVE  Join(x, y) \in Seq(S)
    BY <1>a DEF Join
  <1>4. <<g>> \in Seq(S) /\ <<s>> \in Seq(S)
    BY <1>a
  <1> DEFINE J == Join(t, n)
             K == Join(v, w)
             L == Join(J, <<g>>)
             M == Join(K, <<s>>)
  <1>5. J \in Seq(S) /\ K \in Seq(S)
    BY <1>c, <1>3
  <1>6. L \in Seq(S) /\ M \in Seq(S)
    BY <1>3, <1>4, <1>5
  <1>7. \A a, b \in S : \A x, y \in Seq(S) : Under(a, x) = Under(b, y) => a = b /\ x = y
    BY UnderSplits
  <1>8. J = K => t = v /\ n = w
    BY <1>a, <1>c, JoinSplits DEF Plain
  <1>9. L = M => J = K /\ g = s
    <2> HIDE DEF J, K
    <2> QED BY <1>a, <1>5, EndSplits
  <1>10. t = v /\ n = w => J = K
    OBVIOUS
  <1>11. J = K /\ g = s => L = M
    OBVIOUS
  <1> HIDE DEF J, K, L, M
  <1>12. /\ ProviderKey(t, n) = Under(provider, J) /\ ProviderKey(v, w) = Under(provider, K)
         /\ GroupKey(t, n, g) = Under(group, L) /\ GroupKey(v, w, s) = Under(group, M)
    BY <1>1 DEF J, K, L, M
  <1>13. ProviderKey(t, n) \notin {GlobalKey, TypeKey(v), GroupKey(v, w, s)}
    BY <1>a, <1>c, <1>d, <1>1, <1>2, <1>5, <1>6, <1>7, <1>12
  <1>14. GroupKey(t, n, g) \notin {GlobalKey, TypeKey(v), ProviderKey(v, w)}
    BY <1>a, <1>c, <1>d, <1>1, <1>2, <1>5, <1>6, <1>7, <1>12
  <1>15. ProviderKey(t, n) = ProviderKey(v, w) <=> J = K
    BY <1>a, <1>5, <1>7, <1>12
  <1>16. GroupKey(t, n, g) = GroupKey(v, w, s) <=> L = M
    BY <1>a, <1>6, <1>7, <1>12
  <1> QED BY <1>8, <1>9, <1>10, <1>11, <1>13, <1>14, <1>15, <1>16

\* The keys of an account of provider r with status s.
KeysOf(r, s) == {GlobalKey, TypeKey(TypeOf[r]), ProviderKey(TypeOf[r], NameOf[r]),
                 GroupKey(TypeOf[r], NameOf[r], s)}

\* So a filter finds the keys of an account only if it asks for them.
LEMMA KeysOfFilter ==
    ASSUME StoreParameters, Spelling, NEW p \in Providers, NEW q \in Providers, NEW r \in Providers,
           NEW g \in Statuses, NEW s \in Statuses
    PROVE  /\ ProviderKey(TypeOf[p], NameOf[q]) \in KeysOf(r, s)
                 <=> TypeOf[p] = TypeOf[r] /\ NameOf[q] = NameOf[r]
           /\ GroupKey(TypeOf[p], NameOf[q], g) \in KeysOf(r, s)
                 <=> TypeOf[p] = TypeOf[r] /\ NameOf[q] = NameOf[r] /\ g = s
  <1> DEFINE t == TypeOf[p]
             v == TypeOf[r]
             n == NameOf[q]
             w == NameOf[r]
  <1>1. Plain(t) /\ Plain(v) /\ Word(n) /\ Word(w)
    BY Spelling DEF Plain, Word
  <1> HIDE DEF t, v, n, w
  <1>2. /\ ProviderKey(t, n) \notin {GlobalKey, TypeKey(v), GroupKey(v, w, s)}
        /\ ProviderKey(t, n) = ProviderKey(v, w) <=> t = v /\ n = w
        /\ GroupKey(t, n, g) \notin {GlobalKey, TypeKey(v), ProviderKey(v, w)}
        /\ GroupKey(t, n, g) = GroupKey(v, w, s) <=> t = v /\ n = w /\ g = s
    BY <1>1, KeysApart
  <1>3. LET keys == {GlobalKey, TypeKey(v), ProviderKey(v, w), GroupKey(v, w, s)}
        IN  /\ ProviderKey(t, n) \in keys <=> t = v /\ n = w
            /\ GroupKey(t, n, g) \in keys <=> t = v /\ n = w /\ g = s
    BY <1>2
  <1> QED BY <1>3 DEF t, v, n, w, KeysOf

\* The searches by type and name, and perhaps status, find in Redis what they find in the SQL
\* stores, whatever the callers do, for every account whose id is used for the first time.
THEOREM SearchesFindTheSame == Spec => []SearchesAgree
  <1>1. Init => InItsGroups
    <2> SUFFICES ASSUME Init PROVE InItsGroups
      OBVIOUS
    <2>1. \A i \in Ids : adds[i] = 0 /\ Untouched(i)
      BY StoreParameters DEF Init, Untouched, Idle
    <2>2. adds \in [Ids -> Nat] /\ \A i \in Ids : db.accounts[i] = NoAccount
      BY DEF Init
    <2> QED BY <2>1, <2>2 DEF InItsGroups, Grouped
  <1>2. TypeOK /\ InItsGroups /\ [Next]_vars => InItsGroups'
    <2> SUFFICES ASSUME TypeOK, InItsGroups, [Next]_vars PROVE InItsGroups'
      OBVIOUS
    <2> USE StoreParameters
    <2>0. db \in Databases /\ adds \in [Ids -> Nat]
      BY DEF TypeOK, InItsGroups
    <2>a. ASSUME NEW u \in Callers
          PROVE  call[u] \in Calls /\ Equipped(call[u])
      BY DEF TypeOK
    <2>b. ASSUME backend' = backend, adds' = adds,
                 backend = "redis" => \A i \in Ids : Grouped(i) => Grouped(i)'
          PROVE  InItsGroups'
      BY <2>b DEF InItsGroups
    <2>c. ASSUME backend' = backend, adds' = adds, backend # "redis"
          PROVE  InItsGroups'
      BY <2>c DEF InItsGroups
    <2>d. ASSUME NEW u \in Callers, NEW c, Goes(u, c)
          PROVE  call'[u] = c /\ \A w \in Callers \ {u} : call'[w] = call[w]
      BY <2>d DEF Goes, TypeOK
    \* Nothing is written.
    <2>e. ASSUME NEW u \in Callers, NEW c, Goes(u, c), UNCHANGED <<backend, db, adds>>,
                 \A i \in Ids : CallStays(call[u], c, i)
          PROVE  InItsGroups'
      <3>1. ASSUME NEW i \in Ids PROVE \A w \in Callers : CallStays(call[w], call'[w], i)
        BY <2>e, <2>d DEF CallStays
      <3>2. \A i \in Ids : RowStays(db, db', i)
        BY <2>e DEF RowStays
      <3> QED BY <2>b, <2>e, <3>1, <3>2, GroupedStays
    \* The accounts and their entries stay, and nobody begins.
    <2>f. ASSUME UNCHANGED <<backend, adds>>, db'.accounts = db.accounts, db'.index = db.index,
                 \A i \in Ids, w \in Callers : call'[w] = call[w] \/ call'[w].id # i
          PROVE  InItsGroups'
      <3>1. \A i \in Ids, w \in Callers : CallStays(call[w], call'[w], i)
        BY <2>f DEF CallStays
      <3>2. \A i \in Ids : RowStays(db, db', i)
        BY <2>f DEF RowStays
      <3> QED BY <2>b, <2>f, <3>1, <3>2, GroupedStays
    <2>g. Idle.id = None /\ \A i \in Ids : i # None
      BY DEF Idle, StoreParameters
    <2>h. ASSUME NEW u \in Callers, Goes(u, Idle)
          PROVE  \A i \in Ids, w \in Callers : call'[w] = call[w] \/ call'[w].id # i
      BY <2>d, <2>g, <2>h
    <2>1. ASSUME NEW u \in Callers, NEW i \in Ids, NEW s \in Statuses, NEW fk \in BOOLEAN,
                 AddAccount(u, i, s, fk)
          PROVE  InItsGroups'
      <3>0. UNCHANGED <<backend, call>> /\ adds' = [adds EXCEPT ![i] = IF db' = db THEN @ ELSE @ + 1]
        BY <2>1 DEF AddAccount
      <3>1. adds' \in [Ids -> Nat]
        BY <2>0, <3>0
      <3>2. ASSUME backend = "redis", NEW j \in Ids, Grouped(j)
            PROVE  Grouped(j)'
        <4>1. db' = RedisAddAccount(db, i, s)
          BY <2>1, <3>2 DEF AddAccount, On
        <4>2. CASE db' = db
          <5>1. adds'[j] = adds[j]
            BY <2>0, <3>0, <4>2
          <5>2. RowStays(db, db', j) /\ \A w \in Callers : CallStays(call[w], call'[w], j)
            BY <3>0, <4>2 DEF RowStays, CallStays
          <5> QED BY <3>2, <5>1, <5>2, GroupedStays
        <4>3. CASE db' # db
          <5>1. /\ db.accounts[i] = NoAccount
                /\ db'.accounts = [db.accounts EXCEPT ![i] = New(s)]
                /\ db'.index = db.index \cup Entries(i, s)
            BY <2>0, <4>1, <4>3 DEF RedisAddAccount, Databases
          <5>2. CASE j # i
            <6>1. RowStays(db, db', j)
              BY <2>0, <5>1, <5>2, OwnEntries DEF RowStays, Databases
            <6>2. \A w \in Callers : CallStays(call[w], call'[w], j)
              BY <3>0 DEF CallStays
            <6>3. adds'[j] = adds[j]
              BY <2>0, <3>0, <5>2
            <6> QED BY <3>2, <6>1, <6>2, <6>3, GroupedStays
          <5>3. CASE j = i
            <6>1. adds'[i] = adds[i] + 1 /\ adds[i] \in Nat
              BY <2>0, <3>0, <4>3
            <6>2. db'.accounts[i] = New(s) /\ New(s).status = s
              BY <2>0, <5>1 DEF Databases, New
            <6>3. ASSUME adds[i] = 0
                  PROVE  Indexed(db', i) /\ \A w \in Callers : Behind(call'[w], i, db'.accounts[i])
              <7>1. Untouched(i)
                BY <3>2, <5>3, <6>3 DEF Grouped
              <7>2. {e \in db'.index : e[2] = i} = Entries(i, s)
                <8>1. \A x : x \in {e \in db'.index : e[2] = i} <=> x \in Entries(i, s)
                  BY <5>1, <7>1, OwnEntries DEF Untouched
                <8> QED BY <8>1
              <7> QED BY <3>0, <6>2, <7>1, <7>2 DEF Indexed, Behind, Untouched
            <6> QED BY <5>3, <6>1, <6>3 DEF Grouped
          <5> QED BY <5>2, <5>3
        <4> QED BY <4>2, <4>3
      <3> QED BY <3>0, <3>1, <3>2 DEF InItsGroups
    <2>2. ASSUME NEW u \in Callers, NEW p \in Providers, AddProvider(u, p)
          PROVE  InItsGroups'
      <3>1. db'.accounts = db.accounts /\ db'.index = db.index
        <4>1. \/ db' = RedisAddProvider(db, p)
              \/ db' = MysqlAddProvider(db, p)
              \/ db' = SqliteAddProvider(db, p)
          BY <2>2 DEF AddProvider, On
        <4> QED BY <2>0, <4>1 DEF RedisAddProvider, MysqlAddProvider, SqliteAddProvider, Databases
      <3> QED BY <2>2, <2>f, <3>1 DEF AddProvider
    <2>3. ASSUME NEW u \in Callers, NEW i \in Ids, GetAccount(u, i)
          PROVE  InItsGroups'
      <3> DEFINE c == [Idle EXCEPT !.pc = "copy", !.id = i, !.row = db.accounts[i]]
      <3>0. c.pc = "copy" /\ c.id = i /\ c.row = db.accounts[i] /\ db.accounts[i].version \in Nat
        BY <2>0 DEF Idle, Databases, Rows
      <3>1. Goes(u, c) /\ db.accounts[i] # NoAccount
        BY <2>3 DEF GetAccount
      <3> HIDE DEF c
      <3>2. \A j \in Ids : CallStays(call[u], c, j)
        BY <3>0, <3>1 DEF CallStays, Behind
      <3> QED BY <2>3, <2>e, <3>1, <3>2 DEF GetAccount, counters
    <2>4. ASSUME NEW u \in Callers, PrepareUpdate(u)
          PROVE  InItsGroups'
      <3> DEFINE i == call[u].id
                 c == [call[u] EXCEPT !.pc = "update", !.seen = db.accounts[i]]
      <3>0. /\ c.pc = "update" /\ c.id = i /\ c.row = call[u].row /\ c.seen = db.accounts[i]
            /\ i \in Ids /\ call[u].pc = "copy" /\ db.accounts[i].version \in Nat
        BY <2>4, <2>0, <2>a, CallParts DEF PrepareUpdate, At, Calls, Databases, Rows
      <3>1. Goes(u, c) \/ Goes(u, Idle)
        BY <2>4 DEF PrepareUpdate
      <3> HIDE DEF c
      <3>2. \A j \in Ids : CallStays(call[u], c, j) /\ CallStays(call[u], Idle, j)
        BY <2>g, <3>0 DEF CallStays, Behind
      <3> QED BY <2>4, <2>e, <3>1, <3>2 DEF PrepareUpdate, counters
    <2>5. ASSUME NEW u \in Callers, NEW s \in Statuses, UpdateStatus(u, s)
          PROVE  InItsGroups'
      <3> DEFINE i == call[u].id
                 v == call[u].row.version
                 old == db.accounts[i]
                 seen == call[u].seen
      <3>0. UNCHANGED <<backend, adds>> /\ Goes(u, Idle)
        BY <2>5 DEF UpdateStatus, counters
      <3>1. CASE backend # "redis"
        BY <2>c, <3>0, <3>1
      <3>2. ASSUME backend = "redis", NEW j \in Ids, Grouped(j)
            PROVE  Grouped(j)'
        <4>0. /\ At(u, "update") /\ db' = RedisUpdateStatus(db, i, v, seen, s)
              /\ i \in Ids /\ v \in Nat /\ seen \in Rows /\ old \in Rows
          BY <2>5, <3>2, <2>0, <2>a, CallParts DEF UpdateStatus, On, At, Databases
        <4>a. /\ adds'[j] = adds[j]
              /\ \A w \in Callers : call'[w] = call[w] \/ call'[w].id # j
              /\ \A w \in Callers : CallStays(call[w], call'[w], j)
          BY <2>h, <3>0 DEF CallStays
        <4>1. CASE ~MayUpdate(old, v)
          <5>1. RowStays(db, db', j)
            BY <4>0, <4>1 DEF RedisUpdateStatus, RowStays
          <5> QED BY <3>2, <4>a, <5>1, GroupedStays
        <4>2. CASE MayUpdate(old, v)
          <5>1. /\ db'.accounts = [db.accounts EXCEPT ![i] = [status |-> s, version |-> old.version + 1]]
                /\ db'.index = MovedIndex(db, i, seen, s)
            BY <2>0, <4>0, <4>2 DEF RedisUpdateStatus, Databases
          <5>2. CASE j # i
            <6>1. RowStays(db, db', j)
              BY <2>0, <4>0, <5>1, <5>2, IndexMoves DEF RowStays, Databases
            <6> QED BY <3>2, <4>a, <6>1, GroupedStays
          <5>3. CASE j = i
            <6>1. /\ old # NoAccount /\ old.version = v /\ old.version \in Nat
              BY <4>0, <4>2 DEF MayUpdate, Rows
            <6>2. /\ db'.accounts[i].status = s /\ db'.accounts[i] # NoAccount
                  /\ db'.accounts[i].version = old.version + 1
              BY <2>0, <4>0, <5>1 DEF Databases
            <6>3. adds[i] <= 1 => Indexed(db, i) /\ Behind(call[u], i, old)
              BY <3>2, <5>3, <6>1 DEF Grouped
            <6>4. adds[i] <= 1 => seen = old
              <7>1. seen.version \in Nat
                BY <4>0 DEF Rows
              <7> QED BY <4>0, <6>1, <6>3, <7>1 DEF Behind, At
            <6>5. adds[i] <= 1 /\ Indexed(db, i) => Indexed(db', i)
              BY <5>1, <6>2, <6>4, IndexMoves DEF Indexed
            <6>6. CASE adds[i] <= 1
              <7> HIDE DEF i, old, v
              <7> QED BY <2>0, <3>2, <4>a, <5>3, <6>1, <6>2, <6>5, <6>6, GroupedChange DEF old
            <6>7. CASE ~(adds[i] <= 1)
              BY <4>a, <5>3, <6>7 DEF Grouped
            <6> QED BY <6>6, <6>7
          <5> QED BY <5>2, <5>3
        <4> QED BY <4>1, <4>2
      <3> QED BY <2>b, <3>0, <3>2
    <2>6. ASSUME NEW u \in Callers, UpdateOther(u)
          PROVE  InItsGroups'
      <3> DEFINE i == call[u].id
                 v == call[u].row.version
                 old == db.accounts[i]
      <3>0. UNCHANGED <<backend, adds>> /\ Goes(u, Idle)
        BY <2>6 DEF UpdateOther, counters
      <3>2. ASSUME backend = "redis", NEW j \in Ids, Grouped(j)
            PROVE  Grouped(j)'
        <4>0. /\ At(u, "update") /\ db' = RedisUpdateOther(db, i, v)
              /\ i \in Ids /\ old \in Rows
          BY <2>6, <3>2, <2>0, <2>a, CallParts DEF UpdateOther, On, At, Databases
        <4>a. /\ adds'[j] = adds[j]
              /\ \A w \in Callers : call'[w] = call[w] \/ call'[w].id # j
              /\ \A w \in Callers : CallStays(call[w], call'[w], j)
          BY <2>h, <3>0 DEF CallStays
        <4>1. CASE ~MayUpdate(old, v)
          <5>1. RowStays(db, db', j)
            BY <4>0, <4>1 DEF RedisUpdateOther, RowStays
          <5> QED BY <3>2, <4>a, <5>1, GroupedStays
        <4>2. CASE MayUpdate(old, v)
          <5>1. /\ db'.accounts = [db.accounts EXCEPT ![i].version = @ + 1]
                /\ db'.index = db.index
            BY <2>0, <4>0, <4>2 DEF RedisUpdateOther, Databases
          <5>2. CASE j # i
            <6>1. RowStays(db, db', j)
              BY <2>0, <4>0, <5>1, <5>2 DEF RowStays, Databases
            <6> QED BY <3>2, <4>a, <6>1, GroupedStays
          <5>3. CASE j = i
            <6>1. old # NoAccount
              BY <4>2 DEF MayUpdate
            <6>2. db'.accounts[i] = [old EXCEPT !.version = @ + 1]
              BY <2>0, <4>0, <5>1 DEF Databases
            <6>3. /\ db'.accounts[i].status = old.status /\ db'.accounts[i] # NoAccount
                  /\ db'.accounts[i].version = old.version + 1
              BY <4>0, <6>1, <6>2 DEF Rows
            <6>4. Indexed(db, i) => Indexed(db', i)
              BY <5>1, <6>3 DEF Indexed
            <6> HIDE DEF i, old
            <6> QED BY <2>0, <3>2, <4>a, <5>3, <6>1, <6>3, <6>4, GroupedChange DEF old
          <5> QED BY <5>2, <5>3
        <4> QED BY <4>1, <4>2
      <3> QED BY <2>b, <3>0, <3>2
    <2>7. ASSUME NEW u \in Callers, NEW i \in Ids, PrepareRemove(u, i)
          PROVE  InItsGroups'
      <3> DEFINE c == [Idle EXCEPT !.pc = "remove", !.id = i, !.seen = db.accounts[i]]
      <3>0. c.pc = "remove" /\ c.id = i
        BY DEF Idle
      <3>1. Goes(u, c) /\ db.accounts[i] # NoAccount
        BY <2>7 DEF PrepareRemove
      <3> HIDE DEF c
      <3>2. \A j \in Ids : CallStays(call[u], c, j)
        BY <3>0, <3>1 DEF CallStays, Behind
      <3> QED BY <2>7, <2>e, <3>1, <3>2 DEF PrepareRemove, counters
    <2>8. ASSUME NEW u \in Callers, NEW i \in Ids, PrepareNext(u, i)
          PROVE  InItsGroups'
      <3> DEFINE b == [call[u] EXCEPT !.todo = @ \ {i}]
                 c == [call[u] EXCEPT !.todo = @ \ {i}, !.pc = "remove", !.id = i,
                                      !.seen = db.accounts[i]]
      <3>0. /\ b.id = call[u].id /\ b.pc = "loop"
            /\ c.pc = "remove" /\ c.id = i
        BY <2>8, <2>a DEF PrepareNext, At, Calls
      <3>1. Goes(u, b) \/ (Goes(u, c) /\ db.accounts[i] # NoAccount)
        BY <2>8 DEF PrepareNext
      <3> HIDE DEF b, c
      <3>2. /\ \A j \in Ids : CallStays(call[u], b, j)
            /\ db.accounts[i] # NoAccount => \A j \in Ids : CallStays(call[u], c, j)
        BY <3>0 DEF CallStays, Behind
      <3> QED BY <2>8, <2>e, <3>1, <3>2 DEF PrepareNext, counters
    <2>9. ASSUME NEW u \in Callers, RemoveAccount(u)
          PROVE  InItsGroups'
      <3> DEFINE i == call[u].id
                 seen == call[u].seen
                 c == [call[u] EXCEPT !.pc = "stats", !.seen = NoAccount]
      <3>0. UNCHANGED <<backend, adds>>
        BY <2>9 DEF RemoveAccount, counters
      <3>2. ASSUME backend = "redis", NEW j \in Ids, Grouped(j)
            PROVE  Grouped(j)'
        <4>0. /\ db' = RedisRemoveAccount(db, i, seen) /\ Goes(u, c) /\ i \in Ids
              /\ c.id = i /\ c.pc = "stats"
          BY <2>9, <3>2, <2>a, CallParts DEF RemoveAccount, On, At, Calls
        <4>1. /\ db'.accounts = [db.accounts EXCEPT ![i] = NoAccount]
              /\ db'.index = db.index \ Entries(i, seen.status)
          BY <2>0, <4>0 DEF RedisRemoveAccount, Databases
        <4>2. CASE j # i
          <5>1. RowStays(db, db', j)
            BY <2>0, <4>0, <4>1, <4>2, OwnEntries DEF RowStays, Databases
          <5>2. \A w \in Callers : CallStays(call[w], call'[w], j)
            <6> HIDE DEF c
            <6> QED BY <2>d, <4>0, <4>2 DEF CallStays
          <5> QED BY <3>0, <3>2, <5>1, <5>2, GroupedStays
        <4>3. CASE j = i
          <5>1. db'.accounts[i] = NoAccount
            BY <2>0, <4>0, <4>1 DEF Databases
          <5> QED BY <3>0, <3>2, <4>3, <5>1, GroupedRemoval
        <4> QED BY <4>2, <4>3
      <3> QED BY <2>b, <3>0, <3>2
    <2>10. ASSUME NEW u \in Callers, RemoveStats(u)
           PROVE  InItsGroups'
      <3> DEFINE c == [call[u] EXCEPT !.pc = "loop", !.id = None]
      <3>0. c.id = None
        BY <2>a DEF Calls
      <3>1. Goes(u, c) \/ Goes(u, Idle)
        BY <2>10 DEF RemoveStats
      <3> HIDE DEF c
      <3>2. \A i \in Ids, w \in Callers : call'[w] = call[w] \/ call'[w].id # i
        BY <2>d, <2>g, <3>0, <3>1
      <3>3. db'.accounts = db.accounts /\ db'.index = db.index
        BY <2>10, <2>0 DEF RemoveStats, RedisRemoveStats, Databases
      <3> QED BY <2>10, <2>f, <3>2, <3>3 DEF RemoveStats, counters
    <2>11. ASSUME NEW u \in Callers, Searching(u)
           PROVE  InItsGroups'
      <3>1. PICK c \in Calls : /\ Goes(u, c) /\ c.pc \in {"cascade", "fetch", "loop"}
                              /\ c.id \in {None, call[u].id}
        BY <2>11, SearchGoesOn
      <3>2. \A i \in Ids : CallStays(call[u], c, i)
        BY <2>g, <3>1 DEF CallStays, Behind
      <3> QED BY <2>11, <2>e, <3>1, <3>2, SearchGoesOn DEF counters
    <2>12. ASSUME NEW u \in Callers, LoopDone(u)
           PROVE  InItsGroups'
      <3>1. db'.accounts = db.accounts /\ db'.index = db.index
        BY <2>12, <2>0 DEF LoopDone, RedisRemoveProvider, Databases
      <3> QED BY <2>12, <2>f, <2>h, <3>1 DEF LoopDone, counters
    <2>13. ASSUME NEW u \in Callers, NEW p \in Providers, GetProvider(u, p)
           PROVE  InItsGroups'
      <3> DEFINE c == [Idle EXCEPT !.pc = "info", !.prov = p, !.info = db.providers[p]]
      <3>0. c.id = None
        BY DEF Idle
      <3>1. Goes(u, c)
        BY <2>13 DEF GetProvider
      <3> HIDE DEF c
      <3>2. \A i \in Ids : CallStays(call[u], c, i)
        BY <2>g, <3>0 DEF CallStays
      <3> QED BY <2>13, <2>e, <3>1, <3>2 DEF GetProvider, counters
    <2>14. ASSUME NEW u \in Callers, PrepareProvider(u)
           PROVE  InItsGroups'
      <3> DEFINE c == [call[u] EXCEPT !.pc = "set"]
      <3>0. c.id = call[u].id /\ c.pc = "set"
        BY <2>a DEF Calls
      <3>1. Goes(u, c) \/ Goes(u, Idle)
        BY <2>14 DEF PrepareProvider
      <3> HIDE DEF c
      <3>2. \A i \in Ids : CallStays(call[u], c, i) /\ CallStays(call[u], Idle, i)
        BY <2>g, <3>0 DEF CallStays, Behind
      <3> QED BY <2>14, <2>e, <3>1, <3>2 DEF PrepareProvider, counters
    <2>15. ASSUME NEW u \in Callers, UpdateProvider(u)
           PROVE  InItsGroups'
      <3>1. db'.accounts = db.accounts /\ db'.index = db.index
        BY <2>15, <2>0 DEF UpdateProvider, On, RedisUpdateProvider, MysqlUpdateProvider,
                           SqliteUpdateProvider, Databases
      <3> QED BY <2>15, <2>f, <2>h, <3>1 DEF UpdateProvider, counters
    <2>16. ASSUME NEW u \in Callers, NEW i \in Ids, NEW fk \in BOOLEAN, IncrFailure(u, i, fk)
           PROVE  InItsGroups'
      <3>1. db'.accounts = db.accounts /\ db'.index = db.index
        BY <2>16, <2>0 DEF IncrFailure, On, RedisIncrFailure, MysqlIncrFailure, SqliteIncrFailure,
                           Databases
      <3> QED BY <2>16, <2>f, <3>1 DEF IncrFailure, counters
    <2>17. ASSUME NEW u \in Callers, GiveUp(u)
           PROVE  InItsGroups'
      <3>1. \A i \in Ids : CallStays(call[u], Idle, i)
        BY <2>g DEF CallStays
      <3> QED BY <2>17, <2>e, <3>1 DEF GiveUp, counters
    \* The rest are not calls of Redis.
    <2>18. ASSUME NEW u \in Callers
           PROVE  /\ \A i \in Ids, fk \in BOOLEAN : RemoveAtOnce(u, i, fk) => InItsGroups'
                  /\ \A p \in Providers, fk \in BOOLEAN :
                        RemoveAccounts(u, p, fk) \/ RemoveProvider(u, p, fk) => InItsGroups'
      BY <2>c DEF RemoveAtOnce, RemoveAccounts, RemoveProvider, On, counters
    <2>19. CASE UNCHANGED vars
      BY <2>19, <2>f DEF vars, counters
    <2> QED BY <2>1, <2>2, <2>3, <2>4, <2>5, <2>6, <2>7, <2>8, <2>9, <2>10, <2>11, <2>12, <2>13,
               <2>14, <2>15, <2>16, <2>17, <2>18, <2>19 DEF Next, Searching
  <1>3. TypeOK /\ InItsGroups => SearchesAgree
    <2> SUFFICES ASSUME TypeOK, InItsGroups, backend = "redis",
                        NEW f \in Filters, f.type # NoOne, f.name # NoOne,
                        NEW i \in Ids, adds[i] <= 1
                 PROVE  i \in RedisSearchAccounts(db, f) <=> i \in MysqlSearchAccounts(db, f)
      BY DEF SearchesAgree, RedisSearchAccounts, MysqlSearchAccounts, StoredIn
    <2> DEFINE t == TypeOf[ProviderOf[i]]
               n == NameOf[ProviderOf[i]]
               s == db.accounts[i].status
    <2>1. CASE db.accounts[i] = NoAccount
      BY <2>1 DEF RedisSearchAccounts, MysqlSearchAccounts, StoredIn
    <2>2. ASSUME db.accounts[i] # NoAccount
          PROVE  i \in RedisSearchAccounts(db, f) <=> i \in MysqlSearchAccounts(db, f)
      <3>1. Indexed(db, i)
        BY <2>2 DEF InItsGroups, Grouped
      <3>2. <<ResolveIndexKey(f), i>> \in db.index <=> ResolveIndexKey(f) \in AllIndexKeys(i, s)
        <4>1. <<ResolveIndexKey(f), i>>[2] = i
          OBVIOUS
        <4>2. <<ResolveIndexKey(f), i>> \in db.index <=> <<ResolveIndexKey(f), i>> \in Entries(i, s)
          BY <3>1, <4>1 DEF Indexed
        <4> QED BY <4>2 DEF Entries
      <3>3. ProviderOf[i] \in Providers /\ s \in Statuses
        BY <2>2, StoreParameters DEF TypeOK, Databases, Rows
      <3>4. PICK p, q \in Providers : f.type = TypeOf[p] /\ f.name = NameOf[q]
        BY DEF Filters, Types, Names
      <3>5. PICK r \in Providers : r = ProviderOf[i]
        BY <3>3
      <3>6. PICK z \in Statuses : z = s
        BY <3>3
      <3>7. AllIndexKeys(i, s) = KeysOf(r, z) /\ t = TypeOf[r] /\ n = NameOf[r]
        BY <3>5, <3>6 DEF AllIndexKeys, KeysOf
      <3>8. ASSUME NEW g \in Statuses
            PROVE  /\ ProviderKey(TypeOf[p], NameOf[q]) \in KeysOf(r, z)
                         <=> TypeOf[p] = TypeOf[r] /\ NameOf[q] = NameOf[r]
                   /\ GroupKey(TypeOf[p], NameOf[q], g) \in KeysOf(r, z)
                         <=> TypeOf[p] = TypeOf[r] /\ NameOf[q] = NameOf[r] /\ g = z
        BY StoreParameters, Spelling, KeysOfFilter
      <3> HIDE DEF s, t, n
      <3>9. f.status = None => (ResolveIndexKey(f) \in AllIndexKeys(i, s)
                                   <=> f.type = t /\ f.name = n)
        <4>1. "available" \in Statuses
          OBVIOUS
        <4> QED BY <3>4, <3>7, <3>8, <4>1 DEF ResolveIndexKey
      <3>10. f.status # None => (ResolveIndexKey(f) \in AllIndexKeys(i, s)
                                    <=> f.type = t /\ f.name = n /\ f.status = s)
        <4>1. f.status # None => f.status \in Statuses
          BY DEF Filters
        <4> QED BY <3>4, <3>6, <3>7, <3>8, <4>1 DEF ResolveIndexKey
      <3> QED BY <2>2, <3>2, <3>9, <3>10
              DEF RedisSearchAccounts, RedisMembers, MysqlSearchAccounts, StoredIn, Wanted,
                  s, t, n
    <2> QED BY <2>1, <2>2
  <1> QED BY <1>1, <1>2, <1>3, TypeCorrect, PTL DEF Spec
=============================================================================
