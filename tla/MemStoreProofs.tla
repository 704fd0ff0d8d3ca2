--------------------------- MODULE MemStoreProofs ---------------------------
(***************************************************************************)
(* Theorems about MemStore, for any finite sets of threads and accounts    *)
(* and any providers.  acctMu and provMu are held by the one thread that   *)
(* is between the two locks it needs, and the counts of a provider are its *)
(* accounts, but for what calls under way have still to count.             *)
(***************************************************************************)
EXTENDS MemStore, FiniteSetTheorems, TLAPS

\* The local variables of a thread, and where it needs a provider.
Local == [pc : {"idle", "count", "countall", "cascade", "update"},
          prov : Providers \cup {NoProvider},
          added : SUBSET Accounts, removed : SUBSET Accounts,
          gained : SUBSET Accounts, lost : SUBSET Accounts, read : Nat \X Nat]
Equipped(t) == me[t].pc \in {"cascade", "update"} => me[t].prov \in Providers

\* A thread owes changes of the counts only while it waits for provMu.  What it has added
\* is still there then, since it has kept acctMu; what it has removed may be there again.
Settled(t) == me[t].pc \notin {"count", "countall"} =>
                 /\ me[t].added = {} /\ me[t].removed = {}
                 /\ me[t].gained = {} /\ me[t].lost = {}
Protected(t) == /\ me[t].pc # "count" => me[t].added = {} /\ me[t].gained = {}
                /\ \A a \in me[t].added : status[a] # "none"
                /\ \A a \in me[t].gained : status[a] = "Available"

TInv == /\ TypeOK
        /\ me \in [Threads -> Local]
        /\ \A t \in Threads : Equipped(t) /\ Settled(t) /\ Protected(t)
IInv == TInv /\ CountsTrue

\* Who holds the locks.
Locks == \A t \in Threads : /\ acctMu = t <=> me[t].pc = "count"
                            /\ provMu = t <=> me[t].pc = "cascade"

-----------------------------------------------------------------------------
\* What a thread is when it has nothing to do.
LEMMA IdleTypes ==
    /\ Idle \in Local /\ Idle.pc = "idle"
    /\ Idle.added = {} /\ Idle.removed = {} /\ Idle.gained = {} /\ Idle.lost = {}
  BY DEF Idle, Local

\* Counts never fall below zero.
LEMMA CountsStayNatural ==
    ASSUME NEW n \in [Providers -> Nat], NEW more \in SUBSET Accounts,
           NEW less \in SUBSET Accounts
    PROVE  Counted(n, more, less) \in [Providers -> Nat]
  <1>1. ASSUME NEW p \in Providers, NEW S \in SUBSET Accounts
        PROVE  Cardinality(In(p, S)) \in Nat
    <2>1. IsFiniteSet(In(p, S))
      <3>1. In(p, S) \in SUBSET Accounts
        BY DEF In
      <3> QED BY <3>1, FiniteInstance, FS_Subset
    <2> QED BY <2>1, FS_CardinalityType
  <1>2. ASSUME NEW p \in Providers
        PROVE  Changed(n[p], Cardinality(In(p, more)) - Cardinality(In(p, less))) \in Nat
    <2>1. /\ Cardinality(In(p, more)) \in Nat
          /\ Cardinality(In(p, less)) \in Nat
      BY <1>1
    <2> QED BY <2>1 DEF Changed
  <1> QED BY <1>2 DEF Counted

\* A step that changes the local variables of one thread.
LEMMA BecomesTypes ==
    ASSUME TInv, NEW t \in Threads, NEW y \in Local, me' = [me EXCEPT ![t] = y],
           y.pc \in {"count", "countall"}
    PROVE  /\ me' \in [Threads -> Local]
           /\ me'[t] = y
           /\ \A u \in Threads \ {t} : me'[u] = me[u]
           /\ \A u \in Threads : Equipped(u)' /\ Settled(u)'
  <1>1. me'[t] = y /\ \A u \in Threads \ {t} : me'[u] = me[u]
    BY DEF TInv
  <1> QED BY <1>1 DEF TInv, Equipped, Settled

\* What a thread owes after it has changed accounts.
Owing(next, m, l, g, h) ==
    [Idle EXCEPT !.pc = next, !.added = m, !.removed = l, !.gained = g, !.lost = h]

LEMMA OwingTypes ==
    ASSUME NEW m \in SUBSET Accounts, NEW l \in SUBSET Accounts,
           NEW g \in SUBSET Accounts, NEW h \in SUBSET Accounts,
           NEW next \in {"count", "countall"}
    PROVE  LET y == Owing(next, m, l, g, h)
           IN  /\ y \in Local /\ y.pc = next
               /\ y.added = m /\ y.removed = l /\ y.gained = g /\ y.lost = h
  BY DEF Owing, Idle, Local

\* A thread whose call is over.
LEMMA BackToIdle ==
    ASSUME TInv, NEW t \in Threads, me' = [me EXCEPT ![t] = Idle]
    PROVE  /\ me' \in [Threads -> Local]
           /\ me'[t] = Idle /\ me'[t].pc = "idle"
           /\ \A u \in Threads \ {t} : me'[u] = me[u]
           /\ \A u \in Threads : Equipped(u)' /\ Settled(u)'
  <1>1. me'[t] = Idle /\ (\A u \in Threads \ {t} : me'[u] = me[u]) /\ Idle.pc = "idle"
    BY IdleTypes DEF TInv
  <1> QED BY <1>1, IdleTypes DEF TInv, Equipped, Settled

\* A thread that was idle and has taken acctMu for what it changed holds it alone.
LEMMA TakesAcctMu ==
    ASSUME TInv, NEW t \in Threads, Begins(t), acctMu = NoThread, acctMu' = t,
           NEW m \in SUBSET Accounts, NEW l \in SUBSET Accounts,
           NEW g \in SUBSET Accounts, NEW h \in SUBSET Accounts,
           Owes(t, "count", m, l, g, h),
           status' \in [Accounts -> Status \cup {"none"}],
           \A a \in m : status'[a] # "none",
           \A a \in g : status'[a] = "Available",
           UNCHANGED <<total, avail, known, provMu, drift>>
    PROVE  TInv'
  <1>0. "count" \in {"count", "countall"}
    OBVIOUS
  <1>1. /\ me' \in [Threads -> Local] /\ me'[t].pc = "count"
        /\ me'[t].added = m /\ me'[t].gained = g
        /\ \A u \in Threads \ {t} : me'[u] = me[u]
        /\ \A u \in Threads : Equipped(u)' /\ Settled(u)'
    <2> DEFINE y == Owing("count", m, l, g, h)
    <2>1. /\ y \in Local /\ y.pc = "count" /\ y.added = m /\ y.gained = g
      BY <1>0, OwingTypes
    <2>2. me' = [me EXCEPT ![t] = y]
      BY DEF Owes, Owing
    <2> HIDE DEF y
    <2> QED BY <2>1, <2>2, BecomesTypes
  <1>2. calls' \in 0..MaxCalls /\ me[t].pc = "idle"
    BY CallsNatural DEF Begins, TInv, TypeOK
  <1>3. \A u \in Threads : me[u].pc # "count"
    BY NoThreadFresh DEF TInv, TypeOK
  <1>4. Locks'
    BY <1>1, <1>2, <1>3, NoThreadFresh DEF TInv, TypeOK, Locks
  <1>5. \A u \in Threads : Protected(u)'
    BY <1>1, <1>3 DEF TInv, Protected
  <1> QED BY <1>1, <1>2, <1>4, <1>5 DEF TInv, TypeOK, Locks

-----------------------------------------------------------------------------
\* Every step keeps types and locks, and protects what has been added.
LEMMA TypeStep == ASSUME TInv, [Next]_vars PROVE TInv'
  <1>ty. /\ status \in [Accounts -> Status \cup {"none"}]
         /\ total \in [Providers -> Nat] /\ avail \in [Providers -> Nat]
         /\ known \subseteq Providers /\ drift \subseteq known
         /\ calls \in 0..MaxCalls /\ Locks
         /\ me \in [Threads -> Local]
         /\ \A t \in Threads : me[t] \in Local /\ Equipped(t) /\ Settled(t) /\ Protected(t)
    BY DEF TInv, TypeOK, Locks
  <1>b. ASSUME NEW t \in Threads, Begins(t)
        PROVE  calls' \in 0..MaxCalls /\ me[t].pc = "idle"
    BY <1>b, <1>ty, CallsNatural DEF Begins
  <1>n. ASSUME acctMu = NoThread
        PROVE  \A u \in Threads : me[u].added = {} /\ me[u].gained = {}
    BY <1>n, <1>ty, NoThreadFresh DEF Locks, Protected
  <1>q. ASSUME status' \in [Accounts -> Status \cup {"none"}],
               total' \in [Providers -> Nat], avail' \in [Providers -> Nat],
               known' \subseteq Providers, drift' \subseteq known',
               calls' \in 0..MaxCalls, Locks', me' \in [Threads -> Local],
               \A t \in Threads : Equipped(t)' /\ Settled(t)' /\ Protected(t)'
        PROVE  TInv'
    BY <1>q DEF TInv, TypeOK, Locks
  <1>e. /\ \A a \in Accounts : {a} \in SUBSET Accounts
        /\ \A c \in BOOLEAN, a \in Accounts : If(c, a) \in SUBSET Accounts
        /\ {} \in SUBSET Accounts
    BY DEF If
  <1>1. ASSUME NEW t \in Threads, NEW a \in Accounts, NEW s \in Status, AddAccount(t, a, s)
        PROVE  TInv'
    <2>1. /\ status' \in [Accounts -> Status \cup {"none"}] /\ status'[a] = s
          /\ s # "none"
      BY <1>1, <1>ty DEF AddAccount, Status
    <2>2. If(s = "Available", a) \in SUBSET Accounts /\ {a} \in SUBSET Accounts
          /\ \A b \in If(s = "Available", a) : status'[b] = "Available"
          /\ \A d \in {a} : status'[d] # "none"
      BY <2>1 DEF If
    <2> QED BY <1>1, <1>e, <2>1, <2>2, TakesAcctMu DEF AddAccount
  <1>2. ASSUME NEW t \in Threads, NEW a \in Accounts, NEW s \in Status, UpdateAccount(t, a, s)
        PROVE  TInv'
    <2>1. /\ status' \in [Accounts -> Status \cup {"none"}] /\ status'[a] = s
      BY <1>2, <1>ty DEF UpdateAccount
    <2>2. /\ If(s = "Available", a) \in SUBSET Accounts
          /\ If(status[a] = "Available", a) \in SUBSET Accounts
          /\ \A b \in If(s = "Available", a) : status'[b] = "Available"
      BY <2>1 DEF If
    <2> QED BY <1>2, <1>e, <2>1, <2>2, TakesAcctMu DEF UpdateAccount
  <1>3. ASSUME NEW t \in Threads, NEW a \in Accounts, RemoveAccount(t, a)
        PROVE  TInv'
    <2>1. status' \in [Accounts -> Status \cup {"none"}]
      BY <1>3, <1>ty DEF RemoveAccount
    <2>2. If(status[a] = "Available", a) \in SUBSET Accounts /\ {a} \in SUBSET Accounts
      BY DEF If
    <2> QED BY <1>3, <1>e, <2>1, <2>2, TakesAcctMu DEF RemoveAccount
  <1>4. ASSUME NEW t \in Threads, NEW gone \in SUBSET Accounts, RemoveAccounts(t, gone)
        PROVE  TInv'
    <2>1. status' \in [Accounts -> Status \cup {"none"}]
      BY <1>4, <1>ty DEF RemoveAccounts
    <2>2. /\ me' \in [Threads -> Local] /\ me'[t].pc = "countall"
          /\ me'[t].added = {} /\ me'[t].gained = {}
          /\ \A u \in Threads \ {t} : me'[u] = me[u]
          /\ \A u \in Threads : Equipped(u)' /\ Settled(u)'
      <3> DEFINE h == {a \in gone : status[a] = "Available"}
                 y == Owing("countall", {}, gone, {}, h)
      <3>1. /\ y \in Local /\ y.pc = "countall" /\ y.added = {} /\ y.gained = {}
        <4>1. "countall" \in {"count", "countall"} /\ h \in SUBSET Accounts
          OBVIOUS
        <4> QED BY <4>1, <1>e, OwingTypes
      <3>2. me' = [me EXCEPT ![t] = y]
        BY <1>4 DEF RemoveAccounts, Owes, Owing
      <3> HIDE DEF y
      <3> QED BY <3>1, <3>2, BecomesTypes
    <2>3. /\ UNCHANGED <<total, avail, known, acctMu, provMu, drift>>
          /\ calls' \in 0..MaxCalls /\ me[t].pc = "idle" /\ acctMu = NoThread
      BY <1>4, <1>b DEF RemoveAccounts
    <2>4. Locks'
      BY <2>2, <2>3, <1>ty DEF Locks
    <2>5. \A u \in Threads : Protected(u)'
      BY <2>2, <2>3, <1>n DEF Protected
    <2> QED BY <2>1, <2>2, <2>3, <2>4, <2>5, <1>ty, <1>q
  <1>5. ASSUME NEW t \in Threads, NEW p \in Providers, AddProvider(t, p)
        PROVE  TInv'
    <2>1. calls' \in 0..MaxCalls
      BY <1>5, <1>b DEF AddProvider
    <2>2. /\ total' \in [Providers -> Nat] /\ avail' \in [Providers -> Nat]
          /\ known' \subseteq Providers /\ drift' \subseteq known'
          /\ UNCHANGED <<status, acctMu, provMu, me>>
      BY <1>5, <1>ty DEF AddProvider
    <2>3. Locks' /\ \A u \in Threads : Equipped(u)' /\ Settled(u)' /\ Protected(u)'
      BY <2>2, <1>ty DEF Locks, Equipped, Settled, Protected
    <2> QED BY <2>1, <2>2, <2>3, <1>ty, <1>q
  <1>6. ASSUME NEW t \in Threads, NEW p \in Providers, RemoveProvider(t, p)
        PROVE  TInv'
    <2>1. /\ calls' \in 0..MaxCalls /\ me[t].pc = "idle"
          /\ provMu = NoThread /\ provMu' = t
          /\ UNCHANGED <<status, total, avail, known, acctMu, drift>>
      BY <1>6, <1>b DEF RemoveProvider
    <2>2. me' = [me EXCEPT ![t] = [me[t] EXCEPT !.pc = "cascade", !.prov = p]]
      BY <1>6, <1>ty DEF RemoveProvider
    <2>3. /\ me' \in [Threads -> Local] /\ me'[t].pc = "cascade" /\ me'[t].prov = p
          /\ me'[t].added = me[t].added /\ me'[t].removed = me[t].removed
          /\ me'[t].gained = me[t].gained /\ me'[t].lost = me[t].lost
          /\ \A u \in Threads \ {t} : me'[u] = me[u]
      BY <2>2, <1>ty DEF Local
    <2>4. Locks' /\ \A u \in Threads : Equipped(u)'
      BY <2>1, <2>3, <1>ty, NoThreadFresh DEF Locks, Equipped
    <2>5. \A u \in Threads : Settled(u)' /\ Protected(u)'
      BY <2>1, <2>3, <1>ty DEF Settled, Protected
    <2> QED BY <2>1, <2>3, <2>4, <2>5, <1>ty, <1>q
  <1>7. ASSUME NEW t \in Threads, NEW p \in Providers, GetProvider(t, p)
        PROVE  TInv'
    <2>1. /\ calls' \in 0..MaxCalls /\ me[t].pc = "idle"
          /\ UNCHANGED <<status, total, avail, known, acctMu, provMu, drift>>
      BY <1>7, <1>b DEF GetProvider
    <2>2. me' = [me EXCEPT ![t] = [me[t] EXCEPT !.pc = "update", !.prov = p,
                                                !.read = <<total[p], avail[p]>>]]
      BY <1>7, <1>ty DEF GetProvider
    <2>3. /\ me' \in [Threads -> Local] /\ me'[t].pc = "update" /\ me'[t].prov = p
          /\ me'[t].added = me[t].added /\ me'[t].removed = me[t].removed
          /\ me'[t].gained = me[t].gained /\ me'[t].lost = me[t].lost
          /\ \A u \in Threads \ {t} : me'[u] = me[u]
      BY <2>2, <1>ty, ZenonT(40) DEF Local
    <2>4. Locks' /\ \A u \in Threads : Equipped(u)'
      BY <2>1, <2>3, <1>ty DEF Locks, Equipped
    <2>5. \A u \in Threads : Settled(u)' /\ Protected(u)'
      BY <2>1, <2>3, <1>ty DEF Settled, Protected
    <2> QED BY <2>1, <2>3, <2>4, <2>5, <1>ty, <1>q
  <1>8. ASSUME NEW t \in Threads, Count(t) PROVE TInv'
    <2>1. /\ me[t].added \in SUBSET Accounts /\ me[t].removed \in SUBSET Accounts
          /\ me[t].gained \in SUBSET Accounts /\ me[t].lost \in SUBSET Accounts
          /\ me[t].pc \in {"count", "countall"} /\ provMu = NoThread
      BY <1>8, <1>ty DEF Count, Local
    <2>2. total' \in [Providers -> Nat] /\ avail' \in [Providers -> Nat]
      BY <1>8, <1>ty, <2>1, CountsStayNatural DEF Count
    <2>3. /\ me' \in [Threads -> Local] /\ me'[t] = Idle /\ me'[t].pc = "idle"
          /\ \A u \in Threads \ {t} : me'[u] = me[u]
          /\ \A u \in Threads : Equipped(u)' /\ Settled(u)'
      BY <1>8, BackToIdle DEF Count
    <2>4. /\ acctMu' = IF acctMu = t THEN NoThread ELSE acctMu
          /\ UNCHANGED <<status, known, provMu, drift, calls>>
      BY <1>8 DEF Count
    <2>5. Locks'
      BY <2>1, <2>3, <2>4, <1>ty, NoThreadFresh DEF Locks
    <2>6. \A u \in Threads : Protected(u)'
      BY <2>3, <2>4, <1>ty, IdleTypes DEF Protected
    <2> QED BY <2>2, <2>3, <2>4, <2>5, <2>6, <1>ty, <1>q
  <1>9. ASSUME NEW t \in Threads, Cascade(t) PROVE TInv'
    <2>1. /\ status' \in [Accounts -> Status \cup {"none"}]
          /\ known' \subseteq Providers /\ drift' \subseteq known'
          /\ me[t].pc = "cascade" /\ provMu' = NoThread /\ acctMu = NoThread
          /\ UNCHANGED <<total, avail, acctMu, calls>>
      BY <1>9, <1>ty DEF Cascade
    <2>2. /\ me' \in [Threads -> Local] /\ me'[t] = Idle /\ me'[t].pc = "idle"
          /\ \A u \in Threads \ {t} : me'[u] = me[u]
          /\ \A u \in Threads : Equipped(u)' /\ Settled(u)'
      BY <1>9, BackToIdle DEF Cascade
    <2>3. Locks'
      BY <2>1, <2>2, <1>ty, NoThreadFresh DEF Locks
    <2>4. \A u \in Threads : Protected(u)'
      BY <2>1, <2>2, <1>n, IdleTypes DEF Protected
    <2> QED BY <2>1, <2>2, <2>3, <2>4, <1>ty, <1>q
  <1>10. ASSUME NEW t \in Threads, UpdateProvider(t) PROVE TInv'
    <2>1. /\ me[t].prov \in Providers /\ me[t].read[1] \in Nat /\ me[t].read[2] \in Nat
          /\ me[t].pc = "update"
      BY <1>10, <1>ty DEF UpdateProvider, Equipped, Local
    <2>2. /\ total' \in [Providers -> Nat] /\ avail' \in [Providers -> Nat]
          /\ drift' \subseteq known
      <3>1. CASE me[t].prov \in known
        BY <1>10, <2>1, <3>1, <1>ty DEF UpdateProvider
      <3>2. CASE me[t].prov \notin known
        BY <1>10, <2>1, <3>2, <1>ty DEF UpdateProvider
      <3> QED BY <3>1, <3>2
    <2>3. /\ me' \in [Threads -> Local] /\ me'[t] = Idle /\ me'[t].pc = "idle"
          /\ \A u \in Threads \ {t} : me'[u] = me[u]
          /\ \A u \in Threads : Equipped(u)' /\ Settled(u)'
      BY <1>10, BackToIdle DEF UpdateProvider
    <2>4. UNCHANGED <<status, known, acctMu, provMu, calls>>
      BY <1>10 DEF UpdateProvider
    <2>5. Locks'
      BY <2>1, <2>3, <2>4, <1>ty DEF Locks
    <2>6. \A u \in Threads : Protected(u)'
      BY <2>3, <2>4, <1>ty, IdleTypes DEF Protected
    <2> QED BY <2>2, <2>3, <2>4, <2>5, <2>6, <1>ty, <1>q
  <1>11. ASSUME UNCHANGED vars PROVE TInv'
    <2>1. Locks' /\ \A u \in Threads : Equipped(u)' /\ Settled(u)' /\ Protected(u)'
      BY <1>11, <1>ty DEF vars, Locks, Equipped, Settled, Protected
    <2> QED BY <1>11, <2>1, <1>ty, <1>q DEF vars
  <1> QED BY <1>1, <1>2, <1>3, <1>4, <1>5, <1>6, <1>7, <1>8, <1>9, <1>10, <1>11 DEF Next

-----------------------------------------------------------------------------
\* The kinds of change that threads have still to count, and the accounts there are.
Added == [t \in Threads |-> me[t].added]
Removed == [t \in Threads |-> me[t].removed]
Gained == [t \in Threads |-> me[t].gained]
Lost == [t \in Threads |-> me[t].lost]
Kinds == [Threads -> SUBSET Accounts]

StoredNow == {a \in Accounts : status[a] # "none"}
AvailableNow == {a \in Accounts : status[a] = "Available"}

\* A count n, owed changes and accounts S agree for provider p.
Agree(n, more, less, S, p) == n[p] + Owed(more, less, p) = Cardinality(In(p, S))

\* Sets of accounts, and of what is owed, are finite.
LEMMA Finite ==
    ASSUME NEW p \in Providers
    PROVE  /\ \A S \in SUBSET Accounts : /\ In(p, S) \in SUBSET Accounts
                                         /\ IsFiniteSet(In(p, S))
                                         /\ Cardinality(In(p, S)) \in Nat
           /\ \A kind \in Kinds : /\ IsFiniteSet(Uncounted(kind, p))
                                  /\ Cardinality(Uncounted(kind, p)) \in Nat
  <1>1. ASSUME NEW S \in SUBSET Accounts
        PROVE  /\ In(p, S) \in SUBSET Accounts
               /\ IsFiniteSet(In(p, S)) /\ Cardinality(In(p, S)) \in Nat
    <2>1. In(p, S) \in SUBSET Accounts
      BY DEF In
    <2>2. IsFiniteSet(In(p, S))
      BY <2>1, FiniteInstance, FS_Subset
    <2> QED BY <2>1, <2>2, FS_CardinalityType
  <1>2. ASSUME NEW kind \in Kinds
        PROVE  IsFiniteSet(Uncounted(kind, p)) /\ Cardinality(Uncounted(kind, p)) \in Nat
    <2>1. Uncounted(kind, p) \in SUBSET (Threads \X Accounts)
      BY DEF Uncounted
    <2>2. IsFiniteSet(Threads \X Accounts)
      BY FiniteInstance, FS_Product
    <2>3. IsFiniteSet(Uncounted(kind, p))
      BY <2>1, <2>2, FS_Subset
    <2> QED BY <2>3, FS_CardinalityType
  <1> QED BY <1>1, <1>2

\* What all threads owe is what t owes and what the others owe.
LEMMA UncountedSplit ==
    ASSUME NEW kind \in Kinds, NEW t \in Threads, NEW p \in Providers
    PROVE  Cardinality(Uncounted(kind, p)) =
             Cardinality(Uncounted([kind EXCEPT ![t] = {}], p)) + Cardinality(In(p, kind[t]))
  <1> DEFINE others == Uncounted([kind EXCEPT ![t] = {}], p)
             own == {t} \X In(p, kind[t])
  <1>1. /\ [kind EXCEPT ![t] = {}] \in Kinds /\ kind[t] \in SUBSET Accounts
    BY DEF Kinds
  <1>2. /\ IsFiniteSet(others) /\ Cardinality(others) \in Nat
        /\ IsFiniteSet(In(p, kind[t])) /\ Cardinality(In(p, kind[t])) \in Nat
    BY <1>1, Finite
  <1>3. IsFiniteSet({t}) /\ Cardinality({t}) = 1
    BY FS_Singleton
  <1>4. IsFiniteSet(own) /\ Cardinality(own) = 1 * Cardinality(In(p, kind[t]))
    BY <1>2, <1>3, FS_Product
  <1>5. Uncounted(kind, p) = others \cup own
    BY <1>1 DEF Uncounted, In, Kinds
  <1>6. others \cap own = {}
    BY <1>1 DEF Uncounted, In, Kinds
  <1> HIDE DEF others, own
  <1>7. Cardinality(others \cup own) =
          Cardinality(others) + Cardinality(own) - Cardinality(others \cap own)
    BY <1>2, <1>4, FS_Union
  <1>8. Cardinality({}) = 0
    BY FS_EmptySet
  <1>9. Cardinality(Uncounted(kind, p)) = Cardinality(others) + Cardinality(In(p, kind[t]))
    <2>1. Cardinality(others \cap own) = 0
      BY <1>6, <1>8
    <2>2. Cardinality(own) = Cardinality(In(p, kind[t]))
      BY <1>2, <1>4
    <2>3. Cardinality(Uncounted(kind, p)) = Cardinality(others) + Cardinality(own) - 0
      BY <1>5, <1>7, <2>1
    <2> QED BY <1>2, <2>2, <2>3
  <1> QED BY <1>9 DEF others

\* What all threads owe after t has come to owe S instead.
LEMMA UncountedChange ==
    ASSUME NEW kind \in Kinds, NEW t \in Threads, NEW p \in Providers, NEW S \in SUBSET Accounts
    PROVE  Cardinality(Uncounted([kind EXCEPT ![t] = S], p)) =
             Cardinality(Uncounted(kind, p)) - Cardinality(In(p, kind[t]))
                                             + Cardinality(In(p, S))
  <1> DEFINE changed == [kind EXCEPT ![t] = S]
             others == [kind EXCEPT ![t] = {}]
  <1>1. /\ changed \in Kinds /\ others \in Kinds /\ kind[t] \in SUBSET Accounts
        /\ changed[t] = S /\ [changed EXCEPT ![t] = {}] = others
    BY DEF Kinds
  <1> HIDE DEF changed, others
  <1>2. Cardinality(Uncounted(changed, p)) =
          Cardinality(Uncounted(others, p)) + Cardinality(In(p, S))
    BY <1>1, UncountedSplit
  <1>3. Cardinality(Uncounted(kind, p)) =
          Cardinality(Uncounted(others, p)) + Cardinality(In(p, kind[t]))
    BY UncountedSplit DEF others
  <1>4. /\ Cardinality(Uncounted(others, p)) \in Nat /\ Cardinality(Uncounted(kind, p)) \in Nat
        /\ Cardinality(Uncounted(changed, p)) \in Nat
        /\ Cardinality(In(p, S)) \in Nat /\ Cardinality(In(p, kind[t])) \in Nat
    BY <1>1, Finite
  <1>5. Cardinality(Uncounted(changed, p)) =
          Cardinality(Uncounted(kind, p)) - Cardinality(In(p, kind[t])) + Cardinality(In(p, S))
    BY <1>2, <1>3, <1>4
  <1> QED BY <1>5 DEF changed

\* If nobody but t owes anything of a kind, what all threads owe is what t owes.
LEMMA OwedByOne ==
    ASSUME NEW kind \in Kinds, NEW t \in Threads, NEW p \in Providers,
           \A u \in Threads \ {t} : kind[u] = {}
    PROVE  Cardinality(Uncounted(kind, p)) = Cardinality(In(p, kind[t]))
  <1> DEFINE none == [kind EXCEPT ![t] = {}]
  <1>1. none \in Kinds /\ kind[t] \in SUBSET Accounts
    BY DEF Kinds
  <1>2. Uncounted(none, p) = {}
    BY DEF Uncounted, Kinds
  <1>3. Cardinality(Uncounted(none, p)) = 0
    BY <1>2, FS_EmptySet
  <1>4. Cardinality(In(p, kind[t])) \in Nat
    BY <1>1, Finite
  <1>5. Cardinality(Uncounted(kind, p)) =
          Cardinality(Uncounted(none, p)) + Cardinality(In(p, kind[t]))
    BY UncountedSplit
  <1> HIDE DEF none
  <1> QED BY <1>3, <1>4, <1>5

\* The accounts of a provider after some came and others went.
LEMMA Turnover ==
    ASSUME NEW S \in SUBSET Accounts, NEW m \in SUBSET Accounts, NEW l \in SUBSET Accounts,
           NEW p \in Providers, m \cap S = {}, l \subseteq S
    PROVE  Cardinality(In(p, (S \cup m) \ l)) =
             Cardinality(In(p, S)) + Cardinality(In(p, m)) - Cardinality(In(p, l))
  <1>1. \A T \in SUBSET Accounts : /\ In(p, T) \in SUBSET Accounts /\ IsFiniteSet(In(p, T))
                                   /\ Cardinality(In(p, T)) \in Nat
    BY Finite
  <1>2. /\ In(p, (S \cup m) \ l) = (In(p, S) \cup In(p, m)) \ In(p, l)
        /\ In(p, S) \cap In(p, m) = {}
        /\ (In(p, S) \cup In(p, m)) \cap In(p, l) = In(p, l)
    BY DEF In
  <1>3. Cardinality({}) = 0
    BY FS_EmptySet
  <1> DEFINE s == In(p, S)
             k == In(p, m)
             g == In(p, l)
  <1>4. /\ IsFiniteSet(s) /\ IsFiniteSet(k) /\ IsFiniteSet(g)
        /\ Cardinality(s) \in Nat /\ Cardinality(k) \in Nat /\ Cardinality(g) \in Nat
    BY <1>1
  <1> HIDE DEF s, k, g
  <1>5. /\ IsFiniteSet(s \cup k)
        /\ Cardinality(s \cup k) = Cardinality(s) + Cardinality(k) - Cardinality(s \cap k)
    BY <1>4, FS_Union
  <1>6. Cardinality((s \cup k) \ g) = Cardinality(s \cup k) - Cardinality((s \cup k) \cap g)
    BY <1>5, FS_Difference
  <1>7. /\ s \cap k = {} /\ (s \cup k) \cap g = g
        /\ In(p, (S \cup m) \ l) = (s \cup k) \ g
    BY <1>2 DEF s, k, g
  <1>8. Cardinality(In(p, (S \cup m) \ l)) = Cardinality(s) + Cardinality(k) - Cardinality(g)
    <2>1. Cardinality(s \cap k) = 0
      BY <1>3, <1>7
    <2>2. Cardinality((s \cup k) \cap g) = Cardinality(g)
      BY <1>7
    <2>3. Cardinality(In(p, (S \cup m) \ l)) = Cardinality((s \cup k) \ g)
      BY <1>7
    <2> QED BY <1>4, <1>5, <1>6, <2>1, <2>2, <2>3
  <1> QED BY <1>8 DEF s, k, g

-----------------------------------------------------------------------------
\* Accounts change, and who changed them owes it: count and accounts still agree.
LEMMA ChangeOwed ==
    ASSUME NEW n \in [Providers -> Nat], NEW more \in Kinds, NEW less \in Kinds,
           NEW t \in Threads, NEW S \in SUBSET Accounts, NEW m \in SUBSET Accounts,
           NEW l \in SUBSET Accounts, NEW p \in Providers,
           more[t] = {}, less[t] = {}, m \cap S = {}, l \subseteq S,
           Agree(n, more, less, S, p)
    PROVE  Agree(n, [more EXCEPT ![t] = m], [less EXCEPT ![t] = l], (S \cup m) \ l, p)
  <1>1. Cardinality(In(p, (S \cup m) \ l)) =
          Cardinality(In(p, S)) + Cardinality(In(p, m)) - Cardinality(In(p, l))
    BY Turnover
  <1>2. Cardinality(Uncounted([more EXCEPT ![t] = m], p)) =
          Cardinality(Uncounted(more, p)) - Cardinality(In(p, more[t])) + Cardinality(In(p, m))
    BY UncountedChange, ZenonT(40)
  <1>3. Cardinality(Uncounted([less EXCEPT ![t] = l], p)) =
          Cardinality(Uncounted(less, p)) - Cardinality(In(p, less[t])) + Cardinality(In(p, l))
    BY UncountedChange, ZenonT(40)
  <1>4. Cardinality(In(p, more[t])) = 0 /\ Cardinality(In(p, less[t])) = 0
    <2>1. In(p, more[t]) = {} /\ In(p, less[t]) = {}
      BY DEF In
    <2> QED BY <2>1, FS_EmptySet
  <1>5. /\ Cardinality(In(p, S)) \in Nat /\ Cardinality(In(p, m)) \in Nat
        /\ Cardinality(In(p, l)) \in Nat
        /\ Cardinality(Uncounted(more, p)) \in Nat /\ Cardinality(Uncounted(less, p)) \in Nat
    BY Finite
  <1>6. n[p] \in Nat
    OBVIOUS
  <1> QED BY <1>1, <1>2, <1>3, <1>4, <1>5, <1>6 DEF Agree, Owed

\* t settles what it owes.  The floor at zero does not bite: what others have added is
\* among the accounts there are.
LEMMA ChangeCounted ==
    ASSUME NEW n \in [Providers -> Nat], NEW more \in Kinds, NEW less \in Kinds,
           NEW t \in Threads, NEW S \in SUBSET Accounts, NEW p \in Providers, p \in known,
           Cardinality(Uncounted(more, p)) <= Cardinality(In(p, S)),
           Agree(n, more, less, S, p)
    PROVE  Agree(Counted(n, more[t], less[t]), [more EXCEPT ![t] = {}],
                 [less EXCEPT ![t] = {}], S, p)
  <1>1. Cardinality(Uncounted(more, p)) =
          Cardinality(Uncounted([more EXCEPT ![t] = {}], p)) + Cardinality(In(p, more[t]))
    BY UncountedSplit
  <1>2. Cardinality(Uncounted(less, p)) =
          Cardinality(Uncounted([less EXCEPT ![t] = {}], p)) + Cardinality(In(p, less[t]))
    BY UncountedSplit
  <1>3. /\ more[t] \in SUBSET Accounts /\ less[t] \in SUBSET Accounts
        /\ [more EXCEPT ![t] = {}] \in Kinds /\ [less EXCEPT ![t] = {}] \in Kinds
    BY DEF Kinds
  <1>4. /\ Cardinality(In(p, S)) \in Nat /\ Cardinality(In(p, more[t])) \in Nat
        /\ Cardinality(In(p, less[t])) \in Nat
        /\ Cardinality(Uncounted([more EXCEPT ![t] = {}], p)) \in Nat
        /\ Cardinality(Uncounted([less EXCEPT ![t] = {}], p)) \in Nat
    BY <1>3, Finite
  <1>5. Counted(n, more[t], less[t])[p] =
          Changed(n[p], Cardinality(In(p, more[t])) - Cardinality(In(p, less[t])))
    BY DEF Counted
  <1>6. n[p] \in Nat
    OBVIOUS
  <1>7. Counted(n, more[t], less[t])[p] =
          n[p] + (Cardinality(In(p, more[t])) - Cardinality(In(p, less[t])))
    BY <1>1, <1>2, <1>4, <1>5, <1>6 DEF Agree, Owed, Changed
  <1> QED BY <1>1, <1>2, <1>4, <1>6, <1>7 DEF Agree, Owed

\* CountsTrue, in these terms.
InTerms ==
    /\ Added \in Kinds /\ Removed \in Kinds /\ Gained \in Kinds /\ Lost \in Kinds
    /\ \A t \in Threads : /\ Added[t] = me[t].added /\ Removed[t] = me[t].removed
                          /\ Gained[t] = me[t].gained /\ Lost[t] = me[t].lost
    /\ StoredNow \in SUBSET Accounts /\ AvailableNow \in SUBSET Accounts
    /\ total \in [Providers -> Nat] /\ avail \in [Providers -> Nat]
    /\ known \subseteq Providers
    /\ CountsTrue <=> \A p \in known \ drift :
                         /\ Agree(total, Added, Removed, StoredNow, p)
                         /\ Agree(avail, Gained, Lost, AvailableNow, p)

LEMMA Terms == TInv => InTerms
  <1> SUFFICES ASSUME TInv PROVE InTerms
    OBVIOUS
  <1>1. \A t \in Threads : me[t] \in Local
    BY DEF TInv
  <1>2. /\ Added \in Kinds /\ Removed \in Kinds /\ Gained \in Kinds /\ Lost \in Kinds
    BY <1>1 DEF Added, Removed, Gained, Lost, Kinds, Local
  <1>3. \A p \in Providers : /\ AccountsOf(p) = In(p, StoredNow)
                             /\ AvailableOf(p) = In(p, AvailableNow)
    BY DEF AccountsOf, AvailableOf, In, StoredNow, AvailableNow
  <1>4. known \subseteq Providers
    BY DEF TInv, TypeOK
  <1>5. \A p : OwedTotal(p) = Owed(Added, Removed, p) /\ OwedAvail(p) = Owed(Gained, Lost, p)
    BY DEF OwedTotal, OwedAvail, Added, Removed, Gained, Lost
  <1>6. CountsTrue <=> \A p \in known \ drift :
                          /\ Agree(total, Added, Removed, StoredNow, p)
                          /\ Agree(avail, Gained, Lost, AvailableNow, p)
    BY <1>3, <1>4, <1>5 DEF CountsTrue, Agree
  <1>7. \A t \in Threads : /\ Added[t] = me[t].added /\ Removed[t] = me[t].removed
                           /\ Gained[t] = me[t].gained /\ Lost[t] = me[t].lost
    BY DEF Added, Removed, Gained, Lost
  <1>8. StoredNow \in SUBSET Accounts /\ AvailableNow \in SUBSET Accounts
    BY DEF StoredNow, AvailableNow
  <1>9. total \in [Providers -> Nat] /\ avail \in [Providers -> Nat]
    BY DEF TInv, TypeOK
  <1> QED BY <1>2, <1>4, <1>6, <1>7, <1>8, <1>9 DEF InTerms

LEMMA TermsNext == TInv' => InTerms'
  BY Terms, PTL

\* A call has changed accounts, from the sets of before to those of now, and owes that.
LEMMA OwesWhatItDid ==
    ASSUME TInv, TInv', CountsTrue, NEW t \in Threads, me[t].pc = "idle",
           NEW m \in SUBSET Accounts, NEW l \in SUBSET Accounts,
           NEW g \in SUBSET Accounts, NEW h \in SUBSET Accounts,
           NEW next, Owes(t, next, m, l, g, h),
           m \cap StoredNow = {}, l \subseteq StoredNow,
           StoredNow' = (StoredNow \cup m) \ l,
           g \cap AvailableNow = {}, h \subseteq AvailableNow,
           AvailableNow' = (AvailableNow \cup g) \ h,
           UNCHANGED <<total, avail, known, drift>>
    PROVE  CountsTrue'
  <1>1. InTerms /\ InTerms'
    BY Terms, TermsNext
  <1>2. /\ Added[t] = {} /\ Removed[t] = {} /\ Gained[t] = {} /\ Lost[t] = {}
    BY <1>1 DEF TInv, Settled, InTerms
  <1>3. /\ me'[t].added = m /\ me'[t].removed = l /\ me'[t].gained = g /\ me'[t].lost = h
        /\ \A u \in Threads \ {t} : me'[u] = me[u]
    <2>1. LET y == [Idle EXCEPT !.pc = next, !.added = m, !.removed = l,
                                !.gained = g, !.lost = h]
          IN  /\ y.added = m /\ y.removed = l /\ y.gained = g /\ y.lost = h
              /\ me' = [me EXCEPT ![t] = y]
      BY DEF Owes, Idle
    <2> QED BY <2>1 DEF TInv
  <1>4. /\ Added' = [Added EXCEPT ![t] = m] /\ Removed' = [Removed EXCEPT ![t] = l]
        /\ Gained' = [Gained EXCEPT ![t] = g] /\ Lost' = [Lost EXCEPT ![t] = h]
    BY <1>1, <1>3 DEF InTerms, Kinds, Added, Removed, Gained, Lost
  <1>5. ASSUME NEW p \in known \ drift
        PROVE  /\ Agree(total, Added', Removed', StoredNow', p)
               /\ Agree(avail, Gained', Lost', AvailableNow', p)
    <2>1. /\ Agree(total, Added, Removed, StoredNow, p) /\ p \in Providers
          /\ Agree(avail, Gained, Lost, AvailableNow, p)
      BY <1>1 DEF InTerms
    <2>2. Agree(total, [Added EXCEPT ![t] = m], [Removed EXCEPT ![t] = l],
                (StoredNow \cup m) \ l, p)
      BY <1>1, <1>2, <2>1, ChangeOwed DEF InTerms
    <2>3. Agree(avail, [Gained EXCEPT ![t] = g], [Lost EXCEPT ![t] = h],
                (AvailableNow \cup g) \ h, p)
      BY <1>1, <1>2, <2>1, ChangeOwed DEF InTerms
    <2> QED BY <1>4, <2>2, <2>3
  <1>6. \A p \in known' \ drift' : /\ Agree(total', Added', Removed', StoredNow', p)
                                   /\ Agree(avail', Gained', Lost', AvailableNow', p)
    BY <1>5
  <1> QED BY <1>1, <1>6 DEF InTerms, Agree

\* What threads have added is among the accounts there are: only the holder of acctMu has
\* added any that are not counted.
LEMMA AddedAreThere ==
    ASSUME TInv, NEW p \in Providers
    PROVE  /\ Cardinality(Uncounted(Added, p)) <= Cardinality(In(p, StoredNow))
           /\ Cardinality(Uncounted(Gained, p)) <= Cardinality(In(p, AvailableNow))
  <1>1. InTerms
    BY Terms
  <1>2. CASE \E t \in Threads : me[t].pc = "count"
    <2>1. PICK t \in Threads : me[t].pc = "count"
      BY <1>2
    <2>2. \A u \in Threads \ {t} : me[u].pc # "count"
      BY <2>1 DEF TInv, TypeOK
    <2>3. \A u \in Threads \ {t} : Added[u] = {} /\ Gained[u] = {}
      BY <1>1, <2>2 DEF TInv, Protected, InTerms
    <2>4. /\ Cardinality(Uncounted(Added, p)) = Cardinality(In(p, Added[t]))
          /\ Cardinality(Uncounted(Gained, p)) = Cardinality(In(p, Gained[t]))
      BY <1>1, <2>3, OwedByOne DEF InTerms
    <2>5. Added[t] \subseteq StoredNow /\ Gained[t] \subseteq AvailableNow
      BY <1>1 DEF TInv, Protected, InTerms, StoredNow, AvailableNow, Kinds
    <2>6. /\ In(p, Added[t]) \in SUBSET In(p, StoredNow)
          /\ In(p, Gained[t]) \in SUBSET In(p, AvailableNow)
      BY <2>5 DEF In
    <2>7. IsFiniteSet(In(p, StoredNow)) /\ IsFiniteSet(In(p, AvailableNow))
      BY <1>1, Finite DEF InTerms
    <2>8. /\ Cardinality(In(p, Added[t])) <= Cardinality(In(p, StoredNow))
          /\ Cardinality(In(p, Gained[t])) <= Cardinality(In(p, AvailableNow))
      BY <2>6, <2>7, FS_Subset
    <2> QED BY <2>4, <2>8
  <1>3. CASE ~ \E t \in Threads : me[t].pc = "count"
    <2>1. \A u \in Threads : Added[u] = {} /\ Gained[u] = {}
      BY <1>1, <1>3 DEF TInv, Protected, InTerms
    <2>2. Uncounted(Added, p) = {} /\ Uncounted(Gained, p) = {}
      BY <2>1 DEF Uncounted
    <2>3. Cardinality(Uncounted(Added, p)) = 0 /\ Cardinality(Uncounted(Gained, p)) = 0
      BY <2>2, FS_EmptySet
    <2>4. Cardinality(In(p, StoredNow)) \in Nat /\ Cardinality(In(p, AvailableNow)) \in Nat
      BY <1>1, Finite DEF InTerms
    <2> QED BY <2>3, <2>4
  <1> QED BY <1>2, <1>3

-----------------------------------------------------------------------------
\* Every step keeps the counts true.
LEMMA CountsStep == ASSUME TInv, CountsTrue, [Next]_vars PROVE CountsTrue'
  <1>0. TInv' /\ InTerms /\ InTerms'
    BY TypeStep, Terms, TermsNext
  <1>b. ASSUME NEW t \in Threads, Begins(t)
        PROVE  me[t].pc = "idle"
    BY <1>b DEF Begins
  <1>st. status \in [Accounts -> Status \cup {"none"}]
    BY DEF TInv, TypeOK
  <1>e. {} \in SUBSET Accounts
    OBVIOUS
  <1>same. ASSUME \A t \in Threads : /\ me'[t].added = me[t].added
                                     /\ me'[t].removed = me[t].removed
                                     /\ me'[t].gained = me[t].gained
                                     /\ me'[t].lost = me[t].lost
           PROVE  Added' = Added /\ Removed' = Removed /\ Gained' = Gained /\ Lost' = Lost
    BY <1>same DEF Added, Removed, Gained, Lost
  <1>q. ASSUME \A p \in known' \ drift' : /\ Agree(total', Added', Removed', StoredNow', p)
                                          /\ Agree(avail', Gained', Lost', AvailableNow', p)
        PROVE  CountsTrue'
    BY <1>0, <1>q DEF InTerms, Agree
  <1>h. \A p \in known \ drift : /\ Agree(total, Added, Removed, StoredNow, p)
                                 /\ Agree(avail, Gained, Lost, AvailableNow, p)
    BY <1>0 DEF InTerms
  <1>1. ASSUME NEW t \in Threads, NEW a \in Accounts, NEW s \in Status, AddAccount(t, a, s)
        PROVE  CountsTrue'
    <2> DEFINE g == If(s = "Available", a)
    <2>1. /\ status' = [status EXCEPT ![a] = s] /\ status[a] = "none" /\ s # "none"
          /\ UNCHANGED <<total, avail, known, drift>>
          /\ Owes(t, "count", {a}, {}, g, {}) /\ me[t].pc = "idle"
      BY <1>1, <1>b DEF AddAccount, Status
    <2>2. /\ {a} \cap StoredNow = {} /\ StoredNow' = (StoredNow \cup {a}) \ {}
      BY <2>1, <1>st DEF StoredNow
    <2>3. /\ g \in SUBSET Accounts /\ g \cap AvailableNow = {}
          /\ AvailableNow' = (AvailableNow \cup g) \ {}
      BY <2>1, <1>st DEF AvailableNow, If
    <2> HIDE DEF g
    <2> QED BY <1>0, <1>e, <2>1, <2>2, <2>3, OwesWhatItDid
  <1>2. ASSUME NEW t \in Threads, NEW a \in Accounts, NEW s \in Status, UpdateAccount(t, a, s)
        PROVE  CountsTrue'
    <2> DEFINE g == If(s = "Available", a)
               h == If(status[a] = "Available", a)
    <2>1. /\ status' = [status EXCEPT ![a] = s] /\ status[a] # "none" /\ status[a] # s
          /\ s # "none" /\ UNCHANGED <<total, avail, known, drift>>
          /\ Owes(t, "count", {}, {}, g, h) /\ me[t].pc = "idle"
      BY <1>2, <1>b DEF UpdateAccount, Status
    <2>2. StoredNow' = (StoredNow \cup {}) \ {}
      BY <2>1, <1>st DEF StoredNow
    <2>3. /\ g \in SUBSET Accounts /\ g \cap AvailableNow = {}
          /\ h \in SUBSET Accounts /\ h \subseteq AvailableNow
          /\ AvailableNow' = (AvailableNow \cup g) \ h
      BY <2>1, <1>st DEF AvailableNow, If
    <2> HIDE DEF g, h
    <2> QED BY <1>0, <1>e, <2>1, <2>2, <2>3, OwesWhatItDid
  <1>3. ASSUME NEW t \in Threads, NEW a \in Accounts, RemoveAccount(t, a)
        PROVE  CountsTrue'
    <2> DEFINE h == If(status[a] = "Available", a)
    <2>1. /\ status' = [status EXCEPT ![a] = "none"] /\ status[a] # "none"
          /\ UNCHANGED <<total, avail, known, drift>>
          /\ Owes(t, "count", {}, {a}, {}, h) /\ me[t].pc = "idle"
      BY <1>3, <1>b DEF RemoveAccount
    <2>2. {a} \subseteq StoredNow /\ StoredNow' = (StoredNow \cup {}) \ {a}
      BY <2>1, <1>st DEF StoredNow
    <2>3. /\ h \in SUBSET Accounts /\ h \subseteq AvailableNow
          /\ AvailableNow' = (AvailableNow \cup {}) \ h
      BY <2>1, <1>st DEF AvailableNow, If
    <2> HIDE DEF h
    <2> QED BY <1>0, <1>e, <2>1, <2>2, <2>3, OwesWhatItDid
  <1>4. ASSUME NEW t \in Threads, NEW gone \in SUBSET Accounts, RemoveAccounts(t, gone)
        PROVE  CountsTrue'
    <2> DEFINE h == {a \in gone : status[a] = "Available"}
    <2>1. /\ status' = [a \in Accounts |-> IF a \in gone THEN "none" ELSE status[a]]
          /\ \A a \in gone : status[a] # "none"
          /\ UNCHANGED <<total, avail, known, drift>>
          /\ Owes(t, "countall", {}, gone, {}, h) /\ me[t].pc = "idle"
      BY <1>4, <1>b DEF RemoveAccounts
    <2>2. gone \subseteq StoredNow /\ StoredNow' = (StoredNow \cup {}) \ gone
      BY <2>1, <1>st DEF StoredNow
    <2>3. /\ h \in SUBSET Accounts /\ h \subseteq AvailableNow
          /\ AvailableNow' = (AvailableNow \cup {}) \ h
      BY <2>1, <1>st DEF AvailableNow
    <2> HIDE DEF h
    <2> QED BY <1>0, <1>e, <2>1, <2>2, <2>3, OwesWhatItDid
  <1>5. ASSUME NEW t \in Threads, NEW p \in Providers, AddProvider(t, p)
        PROVE  CountsTrue'
    <2>1. /\ UNCHANGED <<status, me>> /\ known' = known \cup {p} /\ p \notin known
          /\ total' = [total EXCEPT ![p] = 0] /\ avail' = [avail EXCEPT ![p] = 0]
          /\ drift' = IF Orphaned(p) THEN drift \cup {p} ELSE drift
      BY <1>5 DEF AddProvider
    <2>2. /\ Added' = Added /\ Removed' = Removed /\ Gained' = Gained /\ Lost' = Lost
          /\ StoredNow' = StoredNow /\ AvailableNow' = AvailableNow
      BY <2>1, <1>same DEF StoredNow, AvailableNow
    <2>3. total'[p] = 0 /\ avail'[p] = 0
          /\ \A r \in Providers \ {p} : total'[r] = total[r] /\ avail'[r] = avail[r]
      BY <2>1, <1>0 DEF InTerms
    <2>4. ASSUME NEW r \in known' \ drift', r # p
          PROVE  Agree(total', Added, Removed, StoredNow, r)
                 /\ Agree(avail', Gained, Lost, AvailableNow, r)
      <3>1. r \in known \ drift /\ r \in Providers
        BY <2>1, <2>4, <1>0 DEF InTerms
      <3> QED BY <3>1, <2>3, <2>4, <1>h DEF Agree
    <2>5. ASSUME p \notin drift'
          PROVE  Agree(total', Added, Removed, StoredNow, p)
                 /\ Agree(avail', Gained, Lost, AvailableNow, p)
      <3>1. ~Orphaned(p)
        BY <2>1, <2>5
      <3>2. AccountsOf(p) = In(p, StoredNow) /\ AvailableOf(p) = In(p, AvailableNow)
        BY DEF AccountsOf, AvailableOf, In, StoredNow, AvailableNow
      <3>3. /\ Cardinality(In(p, StoredNow)) = Owed(Added, Removed, p)
            /\ Cardinality(In(p, AvailableNow)) = Owed(Gained, Lost, p)
        BY <3>1, <3>2 DEF Orphaned, OwedTotal, OwedAvail, Added, Removed, Gained, Lost
      <3>4. Cardinality(In(p, StoredNow)) \in Nat /\ Cardinality(In(p, AvailableNow)) \in Nat
        BY <1>0, Finite DEF InTerms
      <3> QED BY <2>3, <3>3, <3>4 DEF Agree
    <2> QED BY <2>2, <2>4, <2>5, <1>q
  <1>6. ASSUME NEW t \in Threads, NEW p \in Providers,
               RemoveProvider(t, p) \/ GetProvider(t, p)
        PROVE  CountsTrue'
    <2>1. UNCHANGED <<status, total, avail, known, drift>>
      BY <1>6 DEF RemoveProvider, GetProvider
    <2>2. \A u \in Threads : /\ me'[u].added = me[u].added /\ me'[u].removed = me[u].removed
                             /\ me'[u].gained = me[u].gained /\ me'[u].lost = me[u].lost
      <3>1. me \in [Threads -> Local]
        BY DEF TInv
      <3>2. CASE RemoveProvider(t, p)
        <4>1. me' = [me EXCEPT ![t] = [me[t] EXCEPT !.pc = "cascade", !.prov = p]]
          BY <3>1, <3>2 DEF RemoveProvider
        <4> QED BY <3>1, <4>1 DEF Local
      <3>3. CASE GetProvider(t, p)
        <4>1. me' = [me EXCEPT ![t] = [me[t] EXCEPT !.pc = "update", !.prov = p,
                                                    !.read = <<total[p], avail[p]>>]]
          BY <3>1, <3>3 DEF GetProvider
        <4> QED BY <3>1, <4>1 DEF Local
      <3> QED BY <1>6, <3>2, <3>3
    <2>3. /\ Added' = Added /\ Removed' = Removed /\ Gained' = Gained /\ Lost' = Lost
          /\ StoredNow' = StoredNow /\ AvailableNow' = AvailableNow
      BY <2>1, <2>2, <1>same DEF StoredNow, AvailableNow
    <2> QED BY <2>1, <2>3, <1>h, <1>q
  <1>7. ASSUME NEW t \in Threads, Count(t) PROVE CountsTrue'
    <2>1. /\ total' = Counted(total, me[t].added, me[t].removed)
          /\ avail' = Counted(avail, me[t].gained, me[t].lost)
          /\ me' = [me EXCEPT ![t] = Idle]
          /\ UNCHANGED <<status, known, drift>>
      BY <1>7 DEF Count
    <2>2. StoredNow' = StoredNow /\ AvailableNow' = AvailableNow
      BY <2>1 DEF StoredNow, AvailableNow
    <2>3. me'[t] = Idle /\ \A u \in Threads \ {t} : me'[u] = me[u]
      BY <2>1 DEF TInv
    <2>4. /\ Added' = [Added EXCEPT ![t] = {}] /\ Removed' = [Removed EXCEPT ![t] = {}]
          /\ Gained' = [Gained EXCEPT ![t] = {}] /\ Lost' = [Lost EXCEPT ![t] = {}]
      BY <1>0, <2>3, IdleTypes DEF InTerms, Kinds, Added, Removed, Gained, Lost
    <2>5. /\ total' = Counted(total, Added[t], Removed[t])
          /\ avail' = Counted(avail, Gained[t], Lost[t])
      BY <2>1, <1>0 DEF InTerms
    <2>6. ASSUME NEW p \in known \ drift
          PROVE  /\ Agree(total', Added', Removed', StoredNow, p)
                 /\ Agree(avail', Gained', Lost', AvailableNow, p)
      <3>1. /\ p \in Providers /\ Agree(total, Added, Removed, StoredNow, p)
            /\ Agree(avail, Gained, Lost, AvailableNow, p)
        BY <1>0, <1>h DEF InTerms
      <3>2. /\ Cardinality(Uncounted(Added, p)) <= Cardinality(In(p, StoredNow))
            /\ Cardinality(Uncounted(Gained, p)) <= Cardinality(In(p, AvailableNow))
        BY <3>1, AddedAreThere
      <3>3. Agree(Counted(total, Added[t], Removed[t]), [Added EXCEPT ![t] = {}],
                  [Removed EXCEPT ![t] = {}], StoredNow, p)
        BY <1>0, <3>1, <3>2, ChangeCounted DEF InTerms
      <3>4. Agree(Counted(avail, Gained[t], Lost[t]), [Gained EXCEPT ![t] = {}],
                  [Lost EXCEPT ![t] = {}], AvailableNow, p)
        BY <1>0, <3>1, <3>2, ChangeCounted DEF InTerms
      <3> QED BY <2>4, <2>5, <3>3, <3>4
    <2> QED BY <2>1, <2>2, <2>6, <1>q
  <1>8. ASSUME NEW t \in Threads, Cascade(t) PROVE CountsTrue'
    <2> DEFINE q == me[t].prov
    <2>1. /\ status' = [a \in Accounts |-> IF Home[a] = q THEN "none" ELSE status[a]]
          /\ known' = known \ {q} /\ drift' = drift \ {q}
          /\ me' = [me EXCEPT ![t] = Idle] /\ me[t].pc = "cascade"
          /\ UNCHANGED <<total, avail>>
      BY <1>8 DEF Cascade
    <2>2. \A u \in Threads : /\ me'[u].added = me[u].added /\ me'[u].removed = me[u].removed
                             /\ me'[u].gained = me[u].gained /\ me'[u].lost = me[u].lost
      <3>1. /\ me[t].added = {} /\ me[t].removed = {} /\ me[t].gained = {} /\ me[t].lost = {}
        BY <2>1 DEF TInv, Settled
      <3>2. me'[t] = Idle /\ \A u \in Threads \ {t} : me'[u] = me[u]
        BY <2>1 DEF TInv
      <3> QED BY <3>1, <3>2, IdleTypes
    <2>3. Added' = Added /\ Removed' = Removed /\ Gained' = Gained /\ Lost' = Lost
      BY <2>2, <1>same
    <2> HIDE DEF q
    <2>4. \A p \in Providers \ {q} : /\ In(p, StoredNow') = In(p, StoredNow)
                                     /\ In(p, AvailableNow') = In(p, AvailableNow)
      BY <2>1 DEF In, StoredNow, AvailableNow
    <2>5. ASSUME NEW p \in known' \ drift'
          PROVE  /\ Agree(total', Added', Removed', StoredNow', p)
                 /\ Agree(avail', Gained', Lost', AvailableNow', p)
      <3>1. p \in known \ drift /\ p \in Providers \ {q}
        BY <2>1, <1>0 DEF InTerms
      <3>2. /\ In(p, StoredNow') = In(p, StoredNow) /\ In(p, AvailableNow') = In(p, AvailableNow)
        BY <2>4, <3>1
      <3>3. /\ Agree(total, Added, Removed, StoredNow, p)
            /\ Agree(avail, Gained, Lost, AvailableNow, p)
        BY <3>1, <1>h
      <3> QED BY <2>1, <2>3, <3>2, <3>3 DEF Agree
    <2> QED BY <2>5, <1>q
  <1>9. ASSUME NEW t \in Threads, UpdateProvider(t) PROVE CountsTrue'
    <2> DEFINE q == me[t].prov
    <2>1. /\ me' = [me EXCEPT ![t] = Idle] /\ me[t].pc = "update"
          /\ UNCHANGED <<status, known>>
      BY <1>9 DEF UpdateProvider
    <2>2. \A u \in Threads : /\ me'[u].added = me[u].added /\ me'[u].removed = me[u].removed
                             /\ me'[u].gained = me[u].gained /\ me'[u].lost = me[u].lost
      <3>1. /\ me[t].added = {} /\ me[t].removed = {} /\ me[t].gained = {} /\ me[t].lost = {}
        BY <2>1 DEF TInv, Settled
      <3>2. me'[t] = Idle /\ \A u \in Threads \ {t} : me'[u] = me[u]
        BY <2>1 DEF TInv
      <3> QED BY <3>1, <3>2, IdleTypes
    <2>3. /\ Added' = Added /\ Removed' = Removed /\ Gained' = Gained /\ Lost' = Lost
          /\ StoredNow' = StoredNow /\ AvailableNow' = AvailableNow
      BY <2>1, <2>2, <1>same DEF StoredNow, AvailableNow
    <2>4. ASSUME NEW p \in known' \ drift'
          PROVE  p \in known \ drift /\ total'[p] = total[p] /\ avail'[p] = avail[p]
      <3>1. p \in known /\ p \in Providers
        BY <2>1, <1>0 DEF InTerms
      <3>2. CASE q \notin known
        BY <1>9, <3>1, <3>2 DEF UpdateProvider
      <3>3. CASE q \in known /\ me[t].read = <<total[q], avail[q]>>
        <4>1. /\ total' = [total EXCEPT ![q] = me[t].read[1]]
              /\ avail' = [avail EXCEPT ![q] = me[t].read[2]] /\ drift' = drift
          BY <1>9, <3>3 DEF UpdateProvider
        <4>2. me[t].read[1] = total[q] /\ me[t].read[2] = avail[q]
          BY <3>3
        <4> QED BY <1>0, <3>1, <4>1, <4>2 DEF InTerms
      <3>4. CASE q \in known /\ me[t].read # <<total[q], avail[q]>>
        <4>1. /\ total' = [total EXCEPT ![q] = me[t].read[1]]
              /\ avail' = [avail EXCEPT ![q] = me[t].read[2]] /\ drift' = drift \cup {q}
          BY <1>9, <3>4 DEF UpdateProvider
        <4> QED BY <1>0, <3>1, <4>1 DEF InTerms
      <3> QED BY <3>2, <3>3, <3>4
    <2>5. ASSUME NEW p \in known' \ drift'
          PROVE  /\ Agree(total', Added', Removed', StoredNow', p)
                 /\ Agree(avail', Gained', Lost', AvailableNow', p)
      BY <2>3, <2>4, <1>h DEF Agree
    <2> QED BY <2>5, <1>q
  <1>10. ASSUME UNCHANGED vars PROVE CountsTrue'
    <2>1. /\ UNCHANGED <<total, avail, known, drift>> /\ Added' = Added /\ Removed' = Removed
          /\ Gained' = Gained /\ Lost' = Lost
          /\ StoredNow' = StoredNow /\ AvailableNow' = AvailableNow
      BY <1>10, <1>same DEF vars, StoredNow, AvailableNow
    <2> QED BY <2>1, <1>h, <1>q
  <1> QED BY <1>1, <1>2, <1>3, <1>4, <1>5, <1>6, <1>7, <1>8, <1>9, <1>10 DEF Next

-----------------------------------------------------------------------------
LEMMA InvariantHolds == Spec => []IInv
  <1>1. Init => IInv
    <2> SUFFICES ASSUME Init PROVE IInv
      OBVIOUS
    <2>1. /\ \A t \in Threads : me[t] = Idle /\ me \in [Threads -> Local]
          /\ Zero \in [Providers -> Nat] /\ "none" \in Status \cup {"none"}
      BY IdleTypes DEF Init, Zero
    <2>2. TypeOK
      BY <2>1, IdleTypes, NoThreadFresh, CallsNatural DEF Init, TypeOK
    <2>3. \A t \in Threads : Equipped(t) /\ Settled(t) /\ Protected(t)
      BY <2>1, IdleTypes DEF Equipped, Settled, Protected
    <2>4. me \in [Threads -> Local]
      BY IdleTypes DEF Init
    <2>5. CountsTrue
      BY DEF CountsTrue, Init
    <2> QED BY <2>2, <2>3, <2>4, <2>5 DEF IInv, TInv
  <1>2. IInv /\ [Next]_vars => IInv'
    BY TypeStep, CountsStep DEF IInv
  <1> QED BY <1>1, <1>2, PTL DEF Spec

\* In every reachable state the locks are where the threads that need two of them
\* are, and the counts on which the resolver decides are natural numbers.
THEOREM TypeCorrect == Spec => []TypeOK
  <1>1. IInv => TypeOK
    BY DEF IInv, TInv
  <1> QED BY <1>1, InvariantHolds, PTL

\* The counts of a provider are its accounts, but for what calls under way have still to
\* count, unless a stale copy of the provider was stored or it was added around accounts:
\* however the calls of AddAccount, UpdateAccount, RemoveAccount and RemoveAccounts, and the
\* removals of whole providers, interleave.
THEOREM CountsAreTrue == Spec => []CountsTrue
  <1>1. IInv => CountsTrue
    BY DEF IInv
  <1> QED BY <1>1, InvariantHolds, PTL
=============================================================================
