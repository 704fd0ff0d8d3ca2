------------------------------ MODULE MemStore ------------------------------
(***************************************************************************)
(* The in-memory AccountStorage and ProviderStorage.  Accounts are guarded *)
(* by acctMu and providers by provMu, and a provider keeps the number of   *)
(* its accounts and of those that are Available, on which the resolver     *)
(* decides whether the provider can be picked at all.  Whatever changes    *)
(* accounts has to change the counts, under the other lock:                *)
(*                                                                         *)
(*   AddAccount, UpdateAccount, RemoveAccount   hold acctMu, take provMu   *)
(*   RemoveAccounts     has let go of acctMu when it takes provMu          *)
(*   RemoveProvider     holds provMu, takes acctMu                         *)
(*                                                                         *)
(* What a call does between taking a lock and the next lock is one step.   *)
(* The counts are also written by whoever updates a provider: the model    *)
(* discovery of the health checks and the provider update command read the *)
(* provider, change a field and store all of it.                           *)
(*                                                                         *)
(* Bound: MaxCalls calls that find something to do.                        *)
(***************************************************************************)
EXTENDS Integers, FiniteSets

CONSTANTS Threads, NoThread, Providers, NoProvider, Accounts,
          Home,        \* [Accounts -> Providers]: ProviderKey of an account
          MaxCalls

ASSUME NoThreadFresh == NoThread \notin Threads
ASSUME HomesAreProviders == Home \in [Accounts -> Providers]
ASSUME FiniteInstance == IsFiniteSet(Threads) /\ IsFiniteSet(Accounts)
ASSUME CallsNatural == MaxCalls \in Nat

VARIABLES status,         \* the stored status of an account, or "none"
          total, avail,   \* AccountCount and AvailableAccountCount
          known,          \* the providers stored
          acctMu, provMu, \* the thread that holds the lock for writing
          me,             \* me[t]: the local variables of thread t
          drift,          \* history: providers whose counts something else replaced
          calls

vars == <<status, total, avail, known, acctMu, provMu, me, drift, calls>>

Status == {"Available", "CoolingDown", "Banned"}

\* What t has done to accounts and not to the counts: added and removed; gained and lost,
\* those that have become Available or are it no longer.  read: the counts in the copy of
\* the provider that t will store.
Idle == [pc |-> "idle", prov |-> NoProvider, added |-> {}, removed |-> {},
         gained |-> {}, lost |-> {}, read |-> <<0, 0>>]
Zero == [p \in Providers |-> 0]

AccountsOf(p) == {a \in Accounts : Home[a] = p /\ status[a] # "none"}
AvailableOf(p) == {a \in AccountsOf(p) : status[a] = "Available"}

-----------------------------------------------------------------------------
Init == /\ status = [a \in Accounts |-> "none"]
        /\ total = Zero /\ avail = Zero
        /\ known = {}
        /\ acctMu = NoThread /\ provMu = NoThread
        /\ me = [t \in Threads |-> Idle]
        /\ drift = {}
        /\ calls = 0

Begins(t) == me[t].pc = "idle" /\ calls < MaxCalls /\ calls' = calls + 1

\* t goes on to the counts of the providers whose accounts it has changed.
Owes(t, next, added, removed, gained, lost) ==
    me' = [me EXCEPT ![t] = [Idle EXCEPT !.pc = next, !.added = added, !.removed = removed,
                                         !.gained = gained, !.lost = lost]]

If(cond, a) == IF cond THEN {a} ELSE {}

AddAccount(t, a, s) ==
    /\ Begins(t) /\ acctMu = NoThread /\ status[a] = "none"
    /\ status' = [status EXCEPT ![a] = s]
    /\ acctMu' = t
    /\ Owes(t, "count", {a}, {}, If(s = "Available", a), {})
    /\ UNCHANGED <<total, avail, known, provMu, drift>>

\* Mutant of UpdateAccount: a change between two other statuses is counted too.
CountsEveryChange(t, a, s) ==
    /\ Begins(t) /\ acctMu = NoThread /\ status[a] \notin {"none", s}
    /\ status' = [status EXCEPT ![a] = s]
    /\ acctMu' = t
    /\ Owes(t, "count", {}, {}, If(s = "Available", a), If(s # "Available", a))
    /\ UNCHANGED <<total, avail, known, provMu, drift>>

\* UpdateAccount with a new status; only then are the counts looked at.
UpdateAccount(t, a, s) ==
    /\ Begins(t) /\ acctMu = NoThread /\ status[a] \notin {"none", s}
    /\ status' = [status EXCEPT ![a] = s]
    /\ acctMu' = t
    /\ Owes(t, "count", {}, {}, If(s = "Available", a), If(status[a] = "Available", a))
    /\ UNCHANGED <<total, avail, known, provMu, drift>>

RemoveAccount(t, a) ==
    /\ Begins(t) /\ acctMu = NoThread /\ status[a] # "none"
    /\ status' = [status EXCEPT ![a] = "none"]
    /\ acctMu' = t
    /\ Owes(t, "count", {}, {a}, {}, If(status[a] = "Available", a))
    /\ UNCHANGED <<total, avail, known, provMu, drift>>

\* RemoveAccounts removes whatever its filter matches, and releases acctMu.
RemoveAccounts(t, gone) ==
    /\ Begins(t) /\ acctMu = NoThread
    /\ gone # {} /\ \A a \in gone : status[a] # "none"
    /\ status' = [a \in Accounts |-> IF a \in gone THEN "none" ELSE status[a]]
    /\ Owes(t, "countall", {}, gone, {}, {a \in gone : status[a] = "Available"})
    /\ UNCHANGED <<total, avail, known, acctMu, provMu, drift>>

WithoutFloor(n, d) == n + d     \* mutant

\* A count is never brought below zero.
Changed(n, d) == IF n + d > 0 THEN n + d ELSE 0

In(p, S) == {a \in S : Home[a] = p}

\* The counts of a provider that is not stored are nobody's.
Counted(n, more, less) ==
    [p \in Providers |->
        IF p \in known THEN Changed(n[p], Cardinality(In(p, more)) - Cardinality(In(p, less)))
        ELSE n[p]]

\* t takes provMu, changes the counts and releases what it holds.
Count(t) == /\ me[t].pc \in {"count", "countall"} /\ provMu = NoThread
            /\ total' = Counted(total, me[t].added, me[t].removed)
            /\ avail' = Counted(avail, me[t].gained, me[t].lost)
            /\ acctMu' = IF acctMu = t THEN NoThread ELSE acctMu
            /\ me' = [me EXCEPT ![t] = Idle]
            /\ UNCHANGED <<status, known, provMu, drift, calls>>

\* What all threads together have still to count of one kind, each account once for each
\* thread; kind[t] is what t has of it.
Uncounted(kind, p) == {e \in Threads \X Accounts : e[2] \in kind[e[1]] /\ Home[e[2]] = p}
Owed(more, less, p) == Cardinality(Uncounted(more, p)) - Cardinality(Uncounted(less, p))

OwedTotal(p) == Owed([t \in Threads |-> me[t].added], [t \in Threads |-> me[t].removed], p)
OwedAvail(p) == Owed([t \in Threads |-> me[t].gained], [t \in Threads |-> me[t].lost], p)

\* The counts of a new provider start at zero, even if it has accounts already that
\* nobody is about to count, or a RemoveAccounts is about to count earlier ones.
Orphaned(p) == \/ Cardinality(AccountsOf(p)) # OwedTotal(p)
               \/ Cardinality(AvailableOf(p)) # OwedAvail(p)

AddProvider(t, p) ==
    /\ Begins(t) /\ provMu = NoThread /\ p \notin known
    /\ known' = known \cup {p}
    /\ total' = [total EXCEPT ![p] = 0] /\ avail' = [avail EXCEPT ![p] = 0]
    /\ drift' = IF Orphaned(p) THEN drift \cup {p} ELSE drift
    /\ UNCHANGED <<status, acctMu, provMu, me>>

\* RemoveProvider keeps provMu while it waits for acctMu.
RemoveProvider(t, p) ==
    /\ Begins(t) /\ provMu = NoThread /\ p \in known
    /\ provMu' = t
    /\ me' = [me EXCEPT ![t].pc = "cascade", ![t].prov = p]
    /\ UNCHANGED <<status, total, avail, known, acctMu, drift>>

Cascade(t) == /\ me[t].pc = "cascade" /\ acctMu = NoThread
              /\ status' = [a \in Accounts |-> IF Home[a] = me[t].prov THEN "none"
                                               ELSE status[a]]
              /\ known' = known \ {me[t].prov}
              /\ drift' = drift \ {me[t].prov}
              /\ provMu' = NoThread
              /\ me' = [me EXCEPT ![t] = Idle]
              /\ UNCHANGED <<total, avail, acctMu, calls>>

\* A whole provider is read, to be stored again with other models or settings.
GetProvider(t, p) ==
    /\ Begins(t) /\ provMu = NoThread /\ p \in known
    /\ me' = [me EXCEPT ![t].pc = "update", ![t].prov = p,
                        ![t].read = <<total[p], avail[p]>>]
    /\ UNCHANGED <<status, total, avail, known, acctMu, provMu, drift>>

\* UpdateProvider: full replacement, the counts included.
UpdateProvider(t) ==
    LET p == me[t].prov
    IN  /\ me[t].pc = "update" /\ provMu = NoThread
        /\ IF p \in known
           THEN /\ total' = [total EXCEPT ![p] = me[t].read[1]]
                /\ avail' = [avail EXCEPT ![p] = me[t].read[2]]
                /\ drift' = IF me[t].read = <<total[p], avail[p]>> THEN drift
                            ELSE drift \cup {p}
           ELSE UNCHANGED <<total, avail, drift>>
        /\ me' = [me EXCEPT ![t] = Idle]
        /\ UNCHANGED <<status, known, acctMu, provMu, calls>>

Next == \E t \in Threads :
           \/ \E a \in Accounts : \/ RemoveAccount(t, a)
                                  \/ \E s \in Status : \/ AddAccount(t, a, s)
                                                       \/ UpdateAccount(t, a, s)
           \/ \E gone \in SUBSET Accounts : RemoveAccounts(t, gone)
           \/ \E p \in Providers : \/ AddProvider(t, p) \/ RemoveProvider(t, p)
                                   \/ GetProvider(t, p)
           \/ Count(t) \/ Cascade(t) \/ UpdateProvider(t)

Spec == Init /\ [][Next]_vars

-----------------------------------------------------------------------------
\* Every variable has its type, and a lock is held exactly by the thread that is
\* between the two locks it needs.
TypeOK == /\ status \in [Accounts -> Status \cup {"none"}]
          /\ total \in [Providers -> Nat] /\ avail \in [Providers -> Nat]
          /\ known \subseteq Providers /\ drift \subseteq known
          /\ \A t \in Threads : /\ acctMu = t <=> me[t].pc = "count"
                                /\ provMu = t <=> me[t].pc = "cascade"
          /\ calls \in 0..MaxCalls

\* The counts of a provider are its accounts, but for the changes that calls under
\* way have still to count: however AddAccount, UpdateAccount, RemoveAccount and
\* RemoveAccounts interleave, and with the floor at zero, nothing is counted twice
\* or not at all.  Only a stale copy stored by UpdateProvider, or a provider added
\* around accounts it has already, makes the counts drift.
CountsTrue ==
    \A p \in known \ drift :
       /\ total[p] + OwedTotal(p) = Cardinality(AccountsOf(p))
       /\ avail[p] + OwedAvail(p) = Cardinality(AvailableOf(p))

\* store.go: the fine-grained locks make concurrent use safe, so no two calls wait
\* for each other's lock.
NoDeadlyEmbrace ==
    ~ \E t, u \in Threads : me[t].pc = "cascade" /\ me[u].pc = "count"
=============================================================================
