-------------------------- MODULE SelectorsProofs ---------------------------
(***************************************************************************)
(* Theorems about Pick, and about Pick with its strategies, for any        *)
(* callers, people, providers, accounts, limits, configurations and        *)
(* bounds.  First Pick alone, whatever it chooses: types, the retry loop's *)
(* bookkeeping, what the result has to do with the request, the counting   *)
(* protocol of Occupancy, and that an undisturbed Pick gives up only for   *)
(* want of room.  Then the strategies: they only resolve choices that Pick *)
(* leaves open, so all that is proved of Pick holds with them; least_used  *)
(* and affinity keep what they promise.                                    *)
(***************************************************************************)
EXTENDS Selectors, FiniteSetTheorems, TLAPS

USE NoneIsFresh, BoundsAreNatural

\* Pick.

\* Where a Pick owes a decrement, and where it has not tried an account yet.
Slot == {"undo", "stamp", "giveback"}
Fresh == {"exact", "list", "group", "accounts", "filter"}

\* The invariant of a Pick's local variables.  The retry loop: as many accounts are excluded
\* as attempts were made, all from the pool.  The failover loop and the fallback: whatever is
\* listed, chosen or tried is what the request allows.
Bookkeeping(x) ==
    /\ IsFiniteSet(x.excl) /\ Cardinality(x.excl) = x.att
    /\ x.excl \subseteq x.pool
    /\ x.acct \notin x.excl
    /\ x.pc \in Fresh => x.excl = {} /\ x.att = 0
    /\ x.pc \in Slot => x.acct \in x.pool /\ x.att <= MaxRetries
Allowed(x) ==
    /\ \A p \in x.cands : AllowsType(x.req, p)
    /\ x.pc = "exact" => ~x.auto
    /\ x.pc \in {"list", "group"} => x.auto
    /\ x.pc \in Fresh \cup {"select"} \cup Slot =>
          IF x.auto THEN x.req.kind = "exact" => x.req.failover ELSE x.req.kind = "exact"
    /\ x.pc \in {"accounts", "filter", "select", "held"} \cup Slot =>
          x.prov \in Providers /\ Honours(x.req, x.prov)
    /\ x.pc \in {"filter", "select"} \cup Slot => \A a \in x.pool : Home[a] = x.prov
    /\ x.pc = "held" => x.acct \in Accounts /\ Home[x.acct] = x.prov
Good(x) == x \in Call /\ Bookkeeping(x) /\ Allowed(x)

IInv == TypeOK /\ \A c \in Callers : Bookkeeping(call[c]) /\ Allowed(call[c])

-----------------------------------------------------------------------------
\* Nothing has been tried at the start.
LEMMA NothingExcluded == IsFiniteSet({}) /\ Cardinality({}) = 0
  BY FS_EmptySet

\* A caller outside a Pick.
LEMMA IdleIsGood == Good(Idle)
  <1>1. Idle \in Call
    <2>1. AnyProvider(FALSE) \in Requests
      <3>1. AnyProvider(FALSE) \in {AnyProvider(f) : f \in BOOLEAN}
        OBVIOUS
      <3>2. {AnyProvider(f) : f \in BOOLEAN} \subseteq Requests
        BY SMT DEF Requests, Exact, OfType, AnyProvider, Types
      <3> QED BY <3>1, <3>2
    <2>2. "idle" \in PcValues /\ "none" \in Errors /\ 0 \in 0..(MaxRetries + 1)
      BY DEF PcValues, Errors
    <2> QED BY <2>1, <2>2 DEF Idle, Call
  <1> QED BY <1>1, NothingExcluded DEF Good, Idle, Bookkeeping, Allowed, Fresh, Slot

\* Calm is of no concern.
LEMMA CalmIsFree ==
    ASSUME NEW x, Good(x)
    PROVE  Good([x EXCEPT !.calm = FALSE])
  <1> DEFINE y == [x EXCEPT !.calm = FALSE]
  <1>1. y \in Call
    BY DEF Good, Call
  <1>2. /\ y.pc = x.pc /\ y.req = x.req /\ y.auto = x.auto /\ y.cands = x.cands
        /\ y.prov = x.prov /\ y.pool = x.pool /\ y.excl = x.excl /\ y.att = x.att
        /\ y.acct = x.acct
    BY DEF Good, Call
  <1> HIDE DEF y
  <1>3. Bookkeeping(y) /\ Allowed(y)
    BY <1>2 DEF Good, Bookkeeping, Allowed
  <1> QED BY <1>1, <1>3 DEF Good, y

\* A Pick that fails.
LEMMA FailsGood ==
    ASSUME NEW x, Good(x), NEW e \in Errors
    PROVE  Good(Fails(x, e)) /\ Good(AutoFails(x, e))
  <1>1. ASSUME NEW f \in Errors
        PROVE  Good(Fails(x, f))
    <2>1. Fails(x, f) \in Call
      <3>1. Idle \in Call
        BY IdleIsGood DEF Good
      <3>2. x.req \in Requests /\ x.auto \in BOOLEAN /\ x.calm \in BOOLEAN /\ "failed" \in PcValues
        BY DEF Good, Call, PcValues
      <3> QED BY <3>1, <3>2 DEF Fails, Call
    <2> QED BY <2>1, NothingExcluded DEF Good, Fails, Idle, Bookkeeping, Allowed, Fresh, Slot
  <1>2. x.err \in Errors
    BY DEF Good, Call
  <1> QED BY <1>1, <1>2 DEF AutoFails

\* Errors of an exact Pick.
LEMMA ExactFailsGood ==
    ASSUME NEW x, Good(x), x.pc \in Fresh \cup {"select"} \cup Slot, ~x.auto, NEW e \in Errors
    PROVE  Good(ExactFails(x, e))
  <1>1. CASE ~x.req.failover
    BY <1>1, FailsGood DEF ExactFails
  <1>2. CASE x.req.failover
    <2> DEFINE y == [x EXCEPT !.pc = "list", !.err = e, !.auto = TRUE, !.prov = NoProvider,
                              !.pool = {}, !.excl = {}, !.att = 0]
    <2>1. y \in Call
      <3>1. "list" \in PcValues /\ 0 \in 0..(MaxRetries + 1)
        BY DEF PcValues
      <3> QED BY <3>1 DEF Good, Call
    <2>2. Good(y)
      BY <1>2, <2>1, NothingExcluded DEF Good, Call, Bookkeeping, Allowed, Fresh, Slot
    <2> QED BY <1>2, <2>2 DEF ExactFails
  <1> QED BY <1>1, <1>2

\* Errors of a provider, in either mode.
LEMMA ProviderFailsGood ==
    ASSUME NEW x, Good(x), x.pc \in {"accounts", "filter", "select"} \cup Slot, NEW e \in Errors
    PROVE  Good(ProviderFails(x, e))
  <1>1. CASE ~x.auto
    BY <1>1, ExactFailsGood DEF ProviderFails, Fresh
  <1>2. CASE x.auto /\ ~(x.req.failover /\ e \in Retriable)
    BY <1>2, FailsGood DEF ProviderFails
  <1>3. CASE x.auto /\ x.req.failover /\ e \in Retriable
    <2> DEFINE y == [x EXCEPT !.pc = "group", !.tried = @ \cup {x.prov}, !.pool = {},
                              !.excl = {}, !.att = 0]
    <2>1. y \in Call
      <3>1. "group" \in PcValues /\ 0 \in 0..(MaxRetries + 1) /\ x.prov \in Providers
        BY DEF PcValues, Good, Allowed
      <3> QED BY <3>1 DEF Good, Call
    <2>2. Good(y)
      BY <1>3, <2>1, NothingExcluded DEF Good, Call, Bookkeeping, Allowed, Fresh, Slot
    <2> QED BY <1>3, <2>2 DEF ProviderFails
  <1> QED BY <1>1, <1>2, <1>3

\* One more attempt, on an account of the pool that has not been tried.
LEMMA NextAttemptGood ==
    ASSUME NEW x, Good(x), x.pc \in {"select"} \cup Slot,
           x.acct \in x.pool, x.att <= MaxRetries
    PROVE  Good(NextAttempt(x))
  <1> DEFINE y == NextAttempt(x)
  <1>0. x.acct \notin x.excl /\ IsFiniteSet(x.excl) /\ x.att = Cardinality(x.excl)
    BY DEF Good, Bookkeeping
  <1>1. IsFiniteSet(x.excl \cup {x.acct}) /\ Cardinality(x.excl \cup {x.acct}) = x.att + 1
    BY <1>0, FS_AddElement
  <1>2. y = [x EXCEPT !.pc = "select", !.excl = x.excl \cup {x.acct}, !.att = x.att + 1,
                      !.acct = NoAccount]
    BY DEF NextAttempt
  <1>3. y \in Call
    <2>1. "select" \in PcValues /\ x.att + 1 \in 0..(MaxRetries + 1)
          /\ x.excl \cup {x.acct} \subseteq Accounts
      BY DEF PcValues, Good, Call, Bookkeeping
    <2> QED BY <1>2, <2>1 DEF Good, Call
  <1>4. Bookkeeping(y)
    BY <1>1, <1>2 DEF Good, Call, Bookkeeping, Fresh, Slot
  <1>5. Allowed(y)
    BY <1>2 DEF Good, Call, Allowed, Fresh, Slot
  <1> QED BY <1>3, <1>4, <1>5 DEF Good

-----------------------------------------------------------------------------
AllGood == call \in [Callers -> Call] /\ \A c \in Callers : Good(call[c])

\* A step that gives one caller good variables, and ends the calm of others perhaps.
LEMMA OneMoves ==
    ASSUME AllGood, NEW c \in Callers, NEW y, Good(y),
           \/ Local(c, y)
           \/ Visible(c, y)
           \/ call' = [call EXCEPT ![c] = [y EXCEPT !.calm = FALSE]]
    PROVE  AllGood'
  <1>1. Good([y EXCEPT !.calm = FALSE])
    BY CalmIsFree
  <1>2. ASSUME NEW d \in Callers
        PROVE  Good([call[d] EXCEPT !.calm = FALSE])
    BY CalmIsFree DEF AllGood
  <1>3. \A d \in Callers : Good(call'[d])
    BY <1>1, <1>2 DEF AllGood, Local, Visible
  <1>4. \A d \in Callers : call'[d] \in Call
    BY <1>3 DEF Good
  <1>5. DOMAIN call' = Callers /\ call' = [d \in Callers |-> call'[d]]
    BY DEF AllGood, Local, Visible
  <1> QED BY <1>3, <1>4, <1>5 DEF AllGood

\* The variables outside of Pick.
Outside == /\ avail \subseteq Accounts
           /\ provState \in [Providers -> ProvStates]
           /\ occ \in [Accounts -> Nat]
           /\ lost \in [Accounts -> Nat]
           /\ picks \in [Callers -> 0..MaxPicks]
           /\ trouble \in 0..MaxTrouble
           /\ faults \in 0..MaxTrouble

\* The invariant in two halves.
LEMMA TwoHalves == IInv <=> Outside /\ AllGood
  BY DEF IInv, TypeOK, Outside, AllGood, Good

\* Counters and bounds stay what they are.
LEMMA OutsideStep ==
    ASSUME IInv, [Next]_vars
    PROVE  Outside'
  <1> USE DEF Outside
  <1>0. Outside /\ AllGood
    BY TwoHalves
  <1>a. ASSUME NEW a \in Accounts
        PROVE  /\ [occ EXCEPT ![a] = @ + 1] \in [Accounts -> Nat]
               /\ [occ EXCEPT ![a] = Minus1(@)] \in [Accounts -> Nat]
               /\ [lost EXCEPT ![a] = @ + 1] \in [Accounts -> Nat]
    BY <1>0 DEF Minus1
  <1>b. ASSUME MayFail
        PROVE  trouble + 1 \in 0..MaxTrouble /\ faults + 1 \in 0..MaxTrouble
    BY <1>b, <1>0 DEF MayFail
  <1>c. ASSUME NEW c \in Callers, call[c].pc \in Slot \cup {"held"}
        PROVE  call[c].acct \in Accounts
    BY <1>c, <1>0 DEF AllGood, Good, Call, Bookkeeping, Allowed, Slot
  <1>d. ASSUME NEW c \in Callers, NEW a, a \in Choices(call[c])
        PROVE  a \in Accounts
    BY <1>d, <1>0 DEF AllGood, Good, Call, Choices
  <1>e. ASSUME NEW a \in Accounts, Decrement(a)
        PROVE  /\ occ' \in [Accounts -> Nat] /\ lost' \in [Accounts -> Nat]
               /\ faults' \in 0..MaxTrouble
    BY <1>e, <1>0, <1>a, <1>b DEF Decrement
  <1>1. ASSUME NEW c \in Callers, NEW r \in Asked, Begin(c, r)
        PROVE  Outside'
    BY <1>1, <1>0 DEF Begin, env
  <1>2. ASSUME NEW c \in Callers, Working(c)
        PROVE  Outside'
    <2>1. CASE ResolveExact(c) \/ Cancel(c) \/ ReadAccounts(c) \/ FilterAvailable(c)
               \/ SelectNone(c) \/ Return(c)
      BY <2>1, <1>0 DEF ResolveExact, Cancel, ReadAccounts, FilterAvailable, SelectNone, Return, env
    <2>2. CASE Undo(c) \/ GiveBack(c)
      BY <2>2, <1>0, <1>c, <1>e DEF Undo, GiveBack, env, Slot
    <2>3. CASE StampFails(c) \/ ReadFails(c)
      BY <2>3, <1>0, <1>b DEF StampFails, ReadFails, Broken, env
    <2> QED BY <1>2, <2>1, <2>2, <2>3 DEF Working
  <1>3. ASSUME NEW c \in Callers, List(c) \/ Group(c)
        PROVE  Outside'
    BY <1>3, <1>0 DEF List, Group, env
  <1>4. ASSUME NEW c \in Callers, NEW a \in Accounts, TryAccount(c, a)
        PROVE  Outside'
    BY <1>4, <1>0, <1>a DEF TryAccount, env
  <1>5. ASSUME NEW c \in Callers, NEW a \in Accounts, IncrFails(c, a)
        PROVE  Outside'
    BY <1>5, <1>0, <1>a, <1>b DEF IncrFails, Broken, env
  <1>6. ASSUME NEW c \in Callers, Report(c)
        PROVE  Outside'
    BY <1>6, <1>0, <1>c, <1>e DEF Report, env
  <1>7. ASSUME NEW c \in Callers, SeesError(c) \/ Die(c)
        PROVE  Outside'
    BY <1>7, <1>0, <1>a, <1>b, <1>c DEF SeesError, Die, env, Slot
  <1>8. ASSUME NEW a \in Accounts, StatusChanges(a)
        PROVE  Outside'
    BY <1>8, <1>0, <1>b DEF StatusChanges, Disturb
  <1>9. ASSUME NEW p \in Providers, NEW s \in ProvStates, ProviderChanges(p, s)
        PROVE  Outside'
    BY <1>9, <1>0, <1>b DEF ProviderChanges, Disturb
  <1>10. CASE UNCHANGED vars
    BY <1>10, <1>0 DEF vars
  <1> QED BY <1>1, <1>2, <1>3, <1>4, <1>5, <1>6, <1>7, <1>8, <1>9, <1>10
             DEF Next, Step, Finished

-----------------------------------------------------------------------------
\* Trying an account: on the way to a refusal or to a slot.
LEMMA ChosenGood ==
    ASSUME NEW x, Good(x), x.pc = "select", NEW a \in Choices(x)
    PROVE  /\ x.att <= MaxRetries
           /\ Good([x EXCEPT !.acct = a])
           /\ Good([x EXCEPT !.acct = a, !.pc = "undo"])
           /\ Good([x EXCEPT !.acct = a, !.pc = "stamp"])
  <1>1. x.att <= MaxRetries /\ a \in x.pool /\ a \notin x.excl
    BY DEF Choices
  <1>2. a \in Accounts /\ "undo" \in PcValues /\ "stamp" \in PcValues
    BY <1>1 DEF Good, Call, PcValues
  <1>3. ASSUME NEW s \in {"select", "undo", "stamp"}
        PROVE  Good([x EXCEPT !.acct = a, !.pc = s])
    <2> DEFINE y == [x EXCEPT !.acct = a, !.pc = s]
    <2>1. y \in Call
      BY <1>2, <1>3 DEF Good, Call
    <2>2. /\ y.pc = s /\ y.acct = a /\ y.req = x.req /\ y.auto = x.auto /\ y.cands = x.cands
          /\ y.prov = x.prov /\ y.pool = x.pool /\ y.excl = x.excl /\ y.att = x.att
      BY DEF Good, Call
    <2> HIDE DEF y
    <2>3. Bookkeeping(y) /\ Allowed(y)
      BY <1>1, <1>3, <2>2 DEF Good, Bookkeeping, Allowed, Fresh, Slot
    <2> QED BY <2>1, <2>3 DEF Good, y
  <1>4. [x EXCEPT !.acct = a] = [x EXCEPT !.acct = a, !.pc = "select"]
    BY DEF Good, Call
  <1> QED BY <1>1, <1>3, <1>4

\* What pickExact and pickAuto do up to the choice of a provider.
LEMMA BeginGood ==
    ASSUME NEW r \in Requests
    PROVE  Good([Idle EXCEPT !.req = r, !.calm = TRUE, !.auto = r.kind # "exact",
                             !.pc = IF r.kind = "exact" THEN "exact" ELSE "list"])
  <1> DEFINE y == [Idle EXCEPT !.req = r, !.calm = TRUE, !.auto = r.kind # "exact",
                               !.pc = IF r.kind = "exact" THEN "exact" ELSE "list"]
  <1>1. y \in Call
    <2>1. Idle \in Call
      BY IdleIsGood DEF Good
    <2>2. "exact" \in PcValues /\ "list" \in PcValues
      BY DEF PcValues
    <2> QED BY <2>1, <2>2 DEF Idle, Call
  <1>2. /\ y.pc = IF r.kind = "exact" THEN "exact" ELSE "list"
        /\ y.auto = (r.kind # "exact")
        /\ y.req = r /\ y.cands = {} /\ y.pool = {} /\ y.excl = {} /\ y.att = 0
        /\ y.acct = NoAccount
    BY DEF Idle
  <1> HIDE DEF y
  <1>3. Bookkeeping(y)
    BY <1>2, NothingExcluded DEF Bookkeeping, Fresh, Slot
  <1>4. Allowed(y)
    BY <1>2 DEF Allowed, Fresh, Slot
  <1> QED BY <1>1, <1>3, <1>4 DEF Good, y

\* A provider that may be used, its accounts, and those that have room.
LEMMA ChoosesGood ==
    ASSUME NEW x, Good(x), x.pc \in Fresh, NEW p \in Providers, Honours(x.req, p)
    PROVE  Good([x EXCEPT !.pc = "accounts", !.prov = p])
  <1> DEFINE y == [x EXCEPT !.pc = "accounts", !.prov = p]
  <1>1. y \in Call
    BY DEF Good, Call, PcValues
  <1>2. /\ y.pc = "accounts" /\ y.prov = p /\ y.req = x.req /\ y.auto = x.auto
        /\ y.cands = x.cands /\ y.pool = x.pool /\ y.excl = x.excl /\ y.att = x.att
        /\ y.acct = x.acct
    BY DEF Good, Call
  <1> HIDE DEF y
  <1>3. Bookkeeping(y) /\ Allowed(y)
    BY <1>2 DEF Good, Bookkeeping, Allowed, Fresh, Slot
  <1> QED BY <1>1, <1>3 DEF Good, y
LEMMA PoolGood ==
    ASSUME NEW x, Good(x), NEW as \in SUBSET Accounts, \A a \in as : Home[a] = x.prov,
           NEW s \in {"filter", "select"},
           x.pc \in {"accounts", "filter"}
    PROVE  Good([x EXCEPT !.pc = s, !.pool = as])
  <1> DEFINE y == [x EXCEPT !.pc = s, !.pool = as]
  <1>1. y \in Call
    BY DEF Good, Call, PcValues
  <1>2. /\ y.pc = s /\ y.pool = as /\ y.prov = x.prov /\ y.req = x.req /\ y.auto = x.auto
        /\ y.cands = x.cands /\ y.excl = x.excl /\ y.att = x.att
        /\ y.acct = x.acct
    BY DEF Good, Call
  <1> HIDE DEF y
  <1>3. Bookkeeping(y) /\ Allowed(y)
    BY <1>2 DEF Good, Bookkeeping, Allowed, Fresh, Slot
  <1> QED BY <1>1, <1>3 DEF Good, y

\* The candidates of ResolveProviders, and an exact provider.
LEMMA CandidatesGood ==
    ASSUME NEW x, Good(x), x.pc = "list", NEW ps \in SUBSET Providers,
           \A p \in ps : AllowsType(x.req, p)
    PROVE  Good([x EXCEPT !.pc = "group", !.cands = ps])
  <1> DEFINE y == [x EXCEPT !.pc = "group", !.cands = ps]
  <1>1. y \in Call
    BY DEF Good, Call, PcValues
  <1>2. /\ y.pc = "group" /\ y.pool = x.pool /\ y.prov = x.prov /\ y.req = x.req
        /\ y.auto = x.auto /\ y.cands = ps /\ y.excl = x.excl /\ y.att = x.att
        /\ y.acct = x.acct
    BY DEF Good, Call
  <1> HIDE DEF y
  <1>3. Bookkeeping(y) /\ Allowed(y)
    BY <1>2 DEF Good, Bookkeeping, Allowed, Fresh, Slot
  <1> QED BY <1>1, <1>3 DEF Good, y
LEMMA ExactKey ==
    ASSUME NEW x, Good(x), x.pc = "exact"
    PROVE  x.req.key \in Providers /\ Honours(x.req, x.req.key)
  <1>1. x.req \in Requests /\ x.req.kind = "exact"
    BY DEF Good, Call, Allowed, Fresh
  <1>2. x.req.key \in Providers
    BY <1>1 DEF Requests, Exact, OfType, AnyProvider
  <1> QED BY <1>1, <1>2 DEF Honours, AllowsType

\* A slot taken, stamped or to be given back.
LEMMA StampedGood ==
    ASSUME NEW x, Good(x), x.pc = "stamp"
    PROVE  /\ Good([x EXCEPT !.pc = "giveback"])
           /\ Good([Idle EXCEPT !.pc = "held", !.req = x.req, !.prov = x.prov,
                                !.acct = x.acct])
  <1>0. x.acct \in x.pool /\ x.acct \in Accounts /\ Home[x.acct] = x.prov
        /\ x.prov \in Providers /\ x.req \in Requests /\ Honours(x.req, x.prov)
    BY DEF Good, Call, Bookkeeping, Allowed, Slot
  <1>1. Good([x EXCEPT !.pc = "giveback"])
    <2> DEFINE y == [x EXCEPT !.pc = "giveback"]
    <2>1. y \in Call
      BY DEF Good, Call, PcValues
    <2>2. /\ y.pc = "giveback" /\ y.pool = x.pool /\ y.prov = x.prov /\ y.req = x.req
          /\ y.auto = x.auto /\ y.cands = x.cands /\ y.excl = x.excl /\ y.att = x.att
          /\ y.acct = x.acct
      BY DEF Good, Call
    <2> HIDE DEF y
    <2>3. Bookkeeping(y) /\ Allowed(y)
      BY <2>2 DEF Good, Bookkeeping, Allowed, Fresh, Slot
    <2> QED BY <2>1, <2>3 DEF Good, y
  <1>2. Good([Idle EXCEPT !.pc = "held", !.req = x.req, !.prov = x.prov, !.acct = x.acct])
    <2> DEFINE y == [Idle EXCEPT !.pc = "held", !.req = x.req, !.prov = x.prov,
                                 !.acct = x.acct]
    <2>1. y \in Call
      <3>1. Idle \in Call
        BY IdleIsGood DEF Good
      <3> QED BY <3>1, <1>0 DEF Idle, Call, PcValues
    <2>2. /\ y.pc = "held" /\ y.prov = x.prov /\ y.req = x.req /\ y.acct = x.acct
          /\ y.cands = {} /\ y.pool = {} /\ y.excl = {} /\ y.att = 0
      BY DEF Idle
    <2> HIDE DEF y
    <2>3. Bookkeeping(y) /\ Allowed(y)
      BY <2>2, <1>0, NothingExcluded DEF Bookkeeping, Allowed, Fresh, Slot
    <2> QED BY <2>1, <2>3 DEF Good, y
  <1> QED BY <1>1, <1>2

-----------------------------------------------------------------------------
\* A Pick between its statements: no outcome of any of them breaks the invariant.
LEMMA GoodStep ==
    ASSUME IInv, [Next]_vars
    PROVE  AllGood'
  <1>0. Outside /\ AllGood
    BY TwoHalves
  <1>a. \A c \in Callers : Good(call[c]) /\ call[c] \in Call
    BY <1>0 DEF AllGood, Good
  <1>1. ASSUME NEW c \in Callers, NEW r \in Asked, Begin(c, r)
        PROVE  AllGood'
    <2>1. r \in Requests
      BY StartIsSound
    <2> QED BY <1>0, <1>1, <2>1, BeginGood, OneMoves DEF Begin
  <1>2. ASSUME NEW c \in Callers, ResolveExact(c)
        PROVE  AllGood'
    <2> DEFINE x == call[c]
               e == ExactError(x.req.key)
               y == IF e = "none" THEN [x EXCEPT !.pc = "accounts", !.prov = x.req.key]
                                  ELSE ExactFails(x, e)
    <2>1. Good(x) /\ x.pc = "exact" /\ Local(c, y)
      BY <1>2, <1>a DEF ResolveExact
    <2>2. e \in Errors
      BY DEF ExactError, Errors
    <2>3. ~x.auto
      BY <2>1 DEF Good, Allowed
    <2>4. Good([x EXCEPT !.pc = "accounts", !.prov = x.req.key])
      BY <2>1, ExactKey, ChoosesGood DEF Fresh
    <2>5. Good(ExactFails(x, e))
      BY <2>1, <2>2, <2>3, ExactFailsGood DEF Fresh
    <2>6. Good(y)
      BY <2>4, <2>5
    <2> QED BY <1>0, <2>1, <2>6, OneMoves
  <1>3. ASSUME NEW c \in Callers, List(c)
        PROVE  AllGood'
    <2> DEFINE x == call[c]
               ps == {p \in Providers : Candidate(p) /\ AllowsType(x.req, p)}
               y == IF ps = {} THEN AutoFails(x, "ModelNotSupported")
                               ELSE [x EXCEPT !.pc = "group", !.cands = ps]
    <2>1. Good(x) /\ x.pc = "list" /\ Local(c, y)
      BY <1>3, <1>a DEF List
    <2>2. Good(AutoFails(x, "ModelNotSupported"))
      BY <2>1, FailsGood DEF Errors
    <2>3. Good([x EXCEPT !.pc = "group", !.cands = ps])
      <3>1. ps \in SUBSET Providers /\ \A p \in ps : AllowsType(x.req, p)
        OBVIOUS
      <3> QED BY <2>1, <3>1, CandidatesGood
    <2>4. Good(y)
      BY <2>2, <2>3
    <2> QED BY <1>0, <2>1, <2>4, OneMoves
  <1>4. ASSUME NEW c \in Callers, Group(c)
        PROVE  AllGood'
    <2> DEFINE x == call[c]
    <2>1. Good(x) /\ x.pc = "group"
      BY <1>4, <1>a DEF Group
    <2>2. CASE Local(c, AutoFails(x, "NoAvailableProvider"))
      <3>1. Good(AutoFails(x, "NoAvailableProvider"))
        BY <2>1, FailsGood DEF Errors
      <3> QED BY <1>0, <2>2, <3>1, OneMoves
    <2>3. ASSUME NEW p \in x.cands \ x.tried,
                 Local(c, [x EXCEPT !.pc = "accounts", !.prov = p])
          PROVE  AllGood'
      <3>1. p \in Providers /\ AllowsType(x.req, p)
            /\ (x.req.kind = "exact" => x.req.failover)
        BY <2>1, <2>3 DEF Good, Call, Allowed, Fresh
      <3>2. Good([x EXCEPT !.pc = "accounts", !.prov = p])
        BY <2>1, <3>1, ChoosesGood DEF Fresh, Honours
      <3> QED BY <1>0, <2>3, <3>2, OneMoves
    <2> QED BY <1>4, <2>2, <2>3 DEF Group
  <1>5. ASSUME NEW c \in Callers, Cancel(c)
        PROVE  AllGood'
    <2>1. Good([call[c] EXCEPT !.calm = FALSE])
      BY <1>a, CalmIsFree
    <2>2. Good(AutoFails([call[c] EXCEPT !.calm = FALSE], "Canceled"))
      BY <2>1, FailsGood DEF Errors
    <2> QED BY <1>0, <1>5, <2>2, OneMoves DEF Cancel
  <1>6. ASSUME NEW c \in Callers, ReadAccounts(c)
        PROVE  AllGood'
    <2> DEFINE x == call[c]
               as == {a \in avail : Home[a] = x.prov}
               y == IF as = {} THEN ProviderFails(x, "NoAvailableAccount")
                               ELSE [x EXCEPT !.pc = "filter", !.pool = as]
    <2>1. Good(x) /\ x.pc = "accounts" /\ Local(c, y)
      BY <1>6, <1>a DEF ReadAccounts
    <2>2. Good(ProviderFails(x, "NoAvailableAccount"))
      BY <2>1, ProviderFailsGood DEF Errors
    <2>3. Good([x EXCEPT !.pc = "filter", !.pool = as])
      <3>1. as \in SUBSET Accounts /\ \A a \in as : Home[a] = x.prov
        BY <1>0 DEF Outside
      <3> QED BY <2>1, <3>1, PoolGood
    <2>4. Good(y)
      BY <2>2, <2>3
    <2> QED BY <1>0, <2>1, <2>4, OneMoves
  <1>7. ASSUME NEW c \in Callers, FilterAvailable(c)
        PROVE  AllGood'
    <2> DEFINE x == call[c]
               free == {a \in x.pool : occ[a] < Limit[a]}
               y == IF free = {} THEN ProviderFails(x, "OccupancyFull")
                                 ELSE [x EXCEPT !.pc = "select", !.pool = free]
    <2>1. Good(x) /\ x.pc = "filter" /\ Local(c, y)
      BY <1>7, <1>a DEF FilterAvailable
    <2>2. Good(ProviderFails(x, "OccupancyFull"))
      BY <2>1, ProviderFailsGood DEF Errors
    <2>3. Good([x EXCEPT !.pc = "select", !.pool = free])
      <3>1. free \in SUBSET Accounts /\ \A a \in free : Home[a] = x.prov
        BY <2>1 DEF Good, Call, Allowed
      <3> QED BY <2>1, <3>1, PoolGood
    <2>4. Good(y)
      BY <2>2, <2>3
    <2> QED BY <1>0, <2>1, <2>4, OneMoves
  <1>8. ASSUME NEW c \in Callers, SelectNone(c)
        PROVE  AllGood'
    <2> DEFINE e == IF call[c].att > MaxRetries THEN "MaxRetriesExceeded"
                                                ELSE "NoAvailableAccount"
    <2>1. e \in Errors
      BY DEF Errors
    <2>2. Good(ProviderFails(call[c], e))
      BY <1>8, <1>a, <2>1, ProviderFailsGood DEF SelectNone
    <2> QED BY <1>0, <1>8, <2>2, OneMoves DEF SelectNone
  <1>9. ASSUME NEW c \in Callers, NEW a \in Accounts, TryAccount(c, a)
        PROVE  AllGood'
    <2> DEFINE x == call[c]
               y == [x EXCEPT !.acct = a,
                              !.pc = IF occ[a] + 1 > Limit[a] THEN "undo" ELSE "stamp"]
    <2>1. Good(x) /\ x.pc = "select" /\ a \in Choices(x) /\ Visible(c, y)
      BY <1>9, <1>a DEF TryAccount
    <2>2. Good(y)
      BY <2>1, ChosenGood
    <2> QED BY <1>0, <2>1, <2>2, OneMoves
  <1>10. ASSUME NEW c \in Callers, NEW a \in Accounts, IncrFails(c, a)
         PROVE  AllGood'
    <2> DEFINE x == [call[c] EXCEPT !.acct = a]
               y == [call[c] EXCEPT !.acct = a, !.calm = FALSE]
    <2>1. Good(x) /\ call[c].att <= MaxRetries
          /\ call[c].pc = "select" /\ a \in Choices(call[c]) /\ call[c] \in Call
      BY <1>10, <1>a, ChosenGood DEF IncrFails
    <2>2. x.pc = "select" /\ x.acct = a /\ x.att <= MaxRetries /\ a \in x.pool
      BY <2>1 DEF Call, Choices
    <2>3. y = [x EXCEPT !.calm = FALSE]
      BY <2>1 DEF Call
    <2>4. Good(y) /\ y.pc = "select" /\ y.acct = a /\ y.att <= MaxRetries /\ a \in y.pool
      BY <2>1, <2>2, <2>3, CalmIsFree DEF Good, Call
    <2> HIDE DEF x, y
    <2>5. Good(NextAttempt(x)) /\ Good(NextAttempt(y))
      BY <2>1, <2>2, <2>4, NextAttemptGood
    <2>6. \/ call' = [call EXCEPT ![c] = [NextAttempt(x) EXCEPT !.calm = FALSE]]
          \/ Visible(c, NextAttempt(y))
      BY <1>10 DEF IncrFails, Broken, x, y
    <2> QED BY <1>0, <2>5, <2>6, OneMoves
  <1>11. ASSUME NEW c \in Callers, Undo(c) \/ GiveBack(c)
         PROVE  AllGood'
    <2>1. call[c].pc \in Slot /\ Visible(c, NextAttempt(call[c]))
      BY <1>11 DEF Undo, GiveBack, Slot
    <2>2. Good(NextAttempt(call[c]))
      BY <1>a, <2>1, NextAttemptGood DEF Good, Bookkeeping
    <2> QED BY <1>0, <2>1, <2>2, OneMoves
  <1>12. ASSUME NEW c \in Callers, Return(c)
         PROVE  AllGood'
    BY <1>0, <1>12, <1>a, StampedGood, OneMoves DEF Return
  <1>13. ASSUME NEW c \in Callers, StampFails(c)
         PROVE  AllGood'
    BY <1>0, <1>13, <1>a, StampedGood, OneMoves DEF StampFails, Broken
  <1>14. ASSUME NEW c \in Callers, ReadFails(c)
         PROVE  AllGood'
    <2> DEFINE x == call[c]
    <2>0. Good(x) /\ "StoreError" \in Errors
      BY <1>a DEF Errors
    <2>1. ASSUME NEW y, Good(y), Broken(c, y)
          PROVE  AllGood'
      BY <1>0, <2>1, OneMoves DEF Broken
    <2>2. ASSUME x.pc = "exact"
          PROVE  Good(ExactFails(x, "StoreError"))
      BY <2>0, <2>2, ExactFailsGood DEF Fresh, Good, Allowed
    <2>3. Good(AutoFails(x, "StoreError"))
      BY <2>0, FailsGood
    <2>4. ASSUME x.pc = "accounts"
          PROVE  Good(ProviderFails(x, "StoreError"))
      BY <2>0, <2>4, ProviderFailsGood
    <2>5. ASSUME x.pc = "filter"
          PROVE  Good([x EXCEPT !.pc = "select"])
      <3>1. x.pool \in SUBSET Accounts /\ \A a \in x.pool : Home[a] = x.prov
        BY <2>0, <2>5 DEF Good, Call, Allowed
      <3>2. Good([x EXCEPT !.pc = "select", !.pool = x.pool])
        BY <2>0, <2>5, <3>1, PoolGood
      <3>3. [x EXCEPT !.pc = "select", !.pool = x.pool] = [x EXCEPT !.pc = "select"]
        BY <2>0 DEF Good, Call
      <3> QED BY <3>2, <3>3
    <2> QED BY <1>14, <2>1, <2>2, <2>3, <2>4, <2>5 DEF ReadFails
  <1>15. ASSUME NEW c \in Callers, Report(c) \/ SeesError(c) \/ Die(c)
         PROVE  AllGood'
    BY <1>0, <1>15, IdleIsGood, OneMoves DEF Report, SeesError, Die
  <1>16. ASSUME Disturb
         PROVE  AllGood'
    <2>1. \A c \in Callers : Good(call'[c])
      BY <1>16, <1>a, CalmIsFree DEF Disturb
    <2> QED BY <1>16, <2>1 DEF AllGood, Disturb, Good
  <1>17. CASE UNCHANGED vars
    BY <1>17, <1>0 DEF vars, AllGood, Good, Bookkeeping, Allowed
  <1>18. ASSUME NEW c \in Callers, Step(c)
         PROVE  AllGood'
    BY <1>18, <1>2, <1>3, <1>4, <1>5, <1>6, <1>7, <1>8, <1>9, <1>10, <1>11, <1>12, <1>13,
       <1>14 DEF Step, Working
  <1> QED BY <1>1, <1>15, <1>16, <1>17, <1>18
             DEF Next, Finished, StatusChanges, ProviderChanges

\* Types and bookkeeping hold in the first state, and no step ends them.
LEMMA InvariantStarts == Init => IInv
  <1> SUFFICES ASSUME Init
               PROVE  IInv
    OBVIOUS
  <1>1. Outside
    BY StartIsSound DEF Init, Outside
  <1>2. AllGood
    BY IdleIsGood DEF Init, AllGood, Good
  <1> QED BY <1>1, <1>2, TwoHalves
LEMMA InvariantStays == IInv /\ [Next]_vars => IInv'
  <1> SUFFICES ASSUME IInv, [Next]_vars
               PROVE  IInv'
    OBVIOUS
  <1>1. Outside' /\ AllGood'
    BY OutsideStep, GoodStep
  <1> QED BY <1>1 DEF IInv, TypeOK, Outside, AllGood, Good
LEMMA Invariant == Spec => []IInv
  <1> QED BY InvariantStarts, InvariantStays, PTL DEF Spec

\* Every variable has its type; in particular the retry counter of
\* acquireFromAccounts never passes maxRetries + 1.
THEOREM TypeCorrect == Spec => []TypeOK
  <1>1. IInv => TypeOK
    BY DEF IInv
  <1> QED BY <1>1, Invariant, PTL

\* The attempts acquireFromAccounts counts are attempts on different accounts of
\* those that passed the filter, whatever the retry bound and however the stores fail.
THEOREM AttemptsDistinct == Spec => []AttemptsAreDistinct
  <1>1. IInv => AttemptsAreDistinct
    BY DEF IInv, Bookkeeping, AttemptsAreDistinct
  <1> QED BY <1>1, Invariant, PTL

\* The account a Pick hands out belongs to the provider it names, and the
\* provider is one the request allows, on every path through fallback and failover.
THEOREM ResultHonours == Spec => []ResultHonoursRequest
  <1>1. IInv => ResultHonoursRequest
    BY DEF IInv, Allowed, ResultHonoursRequest
  <1> QED BY <1>1, Invariant, PTL

-----------------------------------------------------------------------------
\* What the protocol sees of a Pick: whether it owes a decrement, and to which account.
Owes(x) == CASE x.pc = "undo" -> "over"
             [] x.pc \in {"stamp", "giveback", "held"} -> "held"
             [] OTHER -> "idle"
InDebtTo(x) == IF Owes(x) = "idle" THEN NoAccount ELSE x.acct
SeenPc == [c \in Callers |-> ProtocolPc(c)]
SeenAcct == [c \in Callers |-> IF ProtocolPc(c) = "idle" THEN NoAccount ELSE call[c].acct]
seen == <<occ, Limit, SeenPc, SeenAcct, lost, faults>>

\* Calm is not part of it, and neither is what another caller does.
LEMMA OneIsSeen ==
    ASSUME call \in [Callers -> Call], NEW c \in Callers, NEW y \in Call,
           \/ Local(c, y)
           \/ Visible(c, y)
           \/ call' = [call EXCEPT ![c] = [y EXCEPT !.calm = FALSE]]
    PROVE  /\ SeenPc' = [SeenPc EXCEPT ![c] = Owes(y)]
           /\ SeenAcct' = [SeenAcct EXCEPT ![c] = InDebtTo(y)]
  <1>1. ASSUME NEW x \in Call
        PROVE  LET z == [x EXCEPT !.calm = FALSE] IN z.pc = x.pc /\ z.acct = x.acct
    BY DEF Call
  <1>2. ASSUME NEW d \in Callers
        PROVE  IF d = c THEN call'[d].pc = y.pc /\ call'[d].acct = y.acct
                        ELSE call'[d].pc = call[d].pc /\ call'[d].acct = call[d].acct
    <2>1. call[d] \in Call
      OBVIOUS
    <2>2. CASE Local(c, y)
      BY <2>2 DEF Local
    <2>3. CASE Visible(c, y)
      BY <2>3, <2>1, <1>1 DEF Visible
    <2>4. CASE call' = [call EXCEPT ![c] = [y EXCEPT !.calm = FALSE]]
      BY <2>4, <1>1
    <2> QED BY <2>2, <2>3, <2>4
  <1> QED BY <1>2, ZenonT(40) DEF SeenPc, SeenAcct, ProtocolPc, Owes, InDebtTo

\* A step that leaves the caller's debt and the counters alone is a stutter.
LEMMA DebtKept ==
    ASSUME call \in [Callers -> Call], NEW c \in Callers, NEW y \in Call,
           \/ Local(c, y)
           \/ Visible(c, y)
           \/ call' = [call EXCEPT ![c] = [y EXCEPT !.calm = FALSE]],
           Owes(y) = Owes(call[c]), InDebtTo(y) = InDebtTo(call[c]),
           UNCHANGED <<occ, lost, faults>>
    PROVE  UNCHANGED seen
  <1>1. SeenPc' = [SeenPc EXCEPT ![c] = Owes(y)] /\ SeenAcct' = [SeenAcct EXCEPT ![c] = InDebtTo(y)]
    BY OneIsSeen
  <1>2. SeenPc[c] = Owes(call[c]) /\ SeenAcct[c] = InDebtTo(call[c])
    BY DEF SeenPc, SeenAcct, ProtocolPc, Owes, InDebtTo
  <1>3. [SeenPc EXCEPT ![c] = Owes(y)] = SeenPc /\ [SeenAcct EXCEPT ![c] = InDebtTo(y)] = SeenAcct
    <2>1. SeenPc[c] = Owes(y) /\ SeenAcct[c] = InDebtTo(y)
      BY <1>2
    <2>2. ASSUME NEW S, NEW f \in [Callers -> S]
          PROVE  [f EXCEPT ![c] = f[c]] = f
      OBVIOUS
    <2>3. /\ SeenPc \in [Callers -> {SeenPc[d] : d \in Callers}]
          /\ SeenAcct \in [Callers -> {SeenAcct[d] : d \in Callers}]
      BY DEF SeenPc, SeenAcct
    <2> QED BY <2>1, <2>2, <2>3
  <1> QED BY <1>1, <1>3 DEF seen

\* A Pick that gives up, starts over or goes on to another account owes nothing.
LEMMA NoDebtLeft ==
    ASSUME NEW x, Good(x), NEW e
    PROVE  /\ Owes(Idle) = "idle"
           /\ Owes(AutoFails(x, e)) = "idle"
           /\ Owes(ExactFails(x, e)) = "idle"
           /\ Owes(ProviderFails(x, e)) = "idle"
           /\ Owes(NextAttempt(x)) = "idle"
  <1>1. \A f : Owes(Fails(x, f)) = "idle"
    BY DEF Fails, Idle, Owes
  <1>2. Owes(AutoFails(x, e)) = "idle" /\ Owes(ExactFails(x, e)) = "idle"
    BY <1>1 DEF Good, Call, AutoFails, ExactFails, Owes
  <1>3. Owes(ProviderFails(x, e)) = "idle"
    BY <1>2 DEF Good, Call, ProviderFails, Owes
  <1> QED BY <1>2, <1>3 DEF Good, Call, NextAttempt, Idle, Owes

\* A decrement by whoever owes it is a step of the protocol, failed or not.
LEMMA DebtPaid ==
    ASSUME IInv, NEW c \in Callers, call[c].pc \in Slot \cup {"held"},
           NEW y \in Call, Owes(y) = "idle",
           Visible(c, y) \/ Local(c, y),
           \/ Decrement(call[c].acct)
           \/ /\ MayFail /\ faults' = faults + 1
              /\ lost' = [lost EXCEPT ![call[c].acct] = @ + 1]
              /\ UNCHANGED occ
    PROVE  Protocol!Next
  <1>0. Outside /\ AllGood /\ call \in [Callers -> Call]
    BY TwoHalves DEF AllGood
  <1>1. /\ SeenPc' = [SeenPc EXCEPT ![c] = "idle"]
        /\ SeenAcct' = [SeenAcct EXCEPT ![c] = NoAccount]
    BY <1>0, OneIsSeen DEF InDebtTo
  <1>2. /\ SeenPc[c] = IF call[c].pc = "undo" THEN "over" ELSE "held"
        /\ SeenAcct[c] = call[c].acct
    BY DEF SeenPc, SeenAcct, ProtocolPc, Slot
  <1>3. CASE occ' = [occ EXCEPT ![call[c].acct] = Minus1(@)] /\ UNCHANGED <<lost, faults>>
    <2>1. CASE call[c].pc = "undo"
      <3>1. Protocol!Undo(c)
        BY <1>1, <1>2, <1>3, <2>1
           DEF Protocol!Undo, Protocol!Minus1, Minus1, SeenPc, SeenAcct
      <3> QED BY <3>1 DEF Protocol!Next
    <2>2. CASE call[c].pc # "undo"
      <3>1. Protocol!Release(c)
        BY <1>1, <1>2, <1>3, <2>2
           DEF Protocol!Release, Protocol!Minus1, Minus1, SeenPc, SeenAcct
      <3> QED BY <3>1 DEF Protocol!Next
    <2> QED BY <2>1, <2>2
  <1>4. CASE /\ MayFail /\ faults' = faults + 1
             /\ lost' = [lost EXCEPT ![call[c].acct] = @ + 1]
             /\ UNCHANGED occ
    <2>1. faults < MaxTrouble
      BY <1>0, <1>4 DEF MayFail, Outside
    <2>2. Protocol!NeverReturned(c)
      BY <1>1, <1>2, <1>4, <2>1 DEF Protocol!NeverReturned, SeenPc, SeenAcct
    <2> QED BY <2>2 DEF Protocol!Next
  <1> QED BY <1>3, <1>4 DEF Decrement

\* Every step of a Pick is a step of the protocol, or it cannot see it.
LEMMA ProtocolStep ==
    ASSUME IInv, IInv', [Next]_vars
    PROVE  [Protocol!Next]_seen
  <1>0. /\ Outside /\ AllGood /\ call \in [Callers -> Call] /\ call' \in [Callers -> Call]
        /\ \A c \in Callers : Good(call[c]) /\ call[c] \in Call
    BY TwoHalves DEF AllGood, Good, IInv, TypeOK
  <1>1. ASSUME NEW c \in Callers, NEW y, Owes(y) = "idle", Owes(call[c]) = "idle",
               Local(c, y) \/ Broken(c, y), y \in Call,
               UNCHANGED <<occ, lost, faults>>
        PROVE  UNCHANGED seen
    BY <1>0, <1>1, DebtKept DEF InDebtTo, Broken
  <1>2. ASSUME NEW c \in Callers, call[c].pc \notin Slot \cup {"held"}
        PROVE  Owes(call[c]) = "idle"
    BY <1>2 DEF Owes, Slot
  <1>3. ASSUME NEW c \in Callers, NEW y, Local(c, y)
        PROVE  y \in Call
    BY <1>0, <1>3 DEF Local
  <1>4. ASSUME NEW c \in Callers, NEW r \in Asked, Begin(c, r)
        PROVE  UNCHANGED seen
    <2> DEFINE y == [Idle EXCEPT !.req = r, !.calm = TRUE, !.auto = r.kind # "exact",
                                 !.pc = IF r.kind = "exact" THEN "exact" ELSE "list"]
    <2>1. Owes(y) = "idle"
      BY DEF Owes, Idle
    <2>2. Local(c, y) /\ call[c].pc = "idle" /\ UNCHANGED <<occ, lost, faults>>
      BY <1>4 DEF Begin
    <2> HIDE DEF y
    <2> QED BY <1>1, <1>2, <1>3, <2>1, <2>2 DEF Slot
  <1>5. ASSUME NEW c \in Callers,
               ResolveExact(c) \/ List(c) \/ Group(c) \/ Cancel(c) \/ ReadAccounts(c)
                 \/ FilterAvailable(c) \/ SelectNone(c) \/ SeesError(c)
        PROVE  UNCHANGED seen
    <2>1. call[c].pc \notin Slot \cup {"held"} /\ UNCHANGED <<occ, lost, faults>>
      BY <1>5 DEF ResolveExact, List, Group, Cancel, ReadAccounts, FilterAvailable,
                  SelectNone, SeesError, Slot
    <2>2. \E y : Local(c, y) /\ Owes(y) = "idle"
      <3>0. Good(call[c]) /\ Good([call[c] EXCEPT !.calm = FALSE])
        BY <1>0, CalmIsFree
      <3>1. \A e : /\ Owes(ExactFails(call[c], e)) = "idle"
                   /\ Owes(AutoFails(call[c], e)) = "idle"
                   /\ Owes(ProviderFails(call[c], e)) = "idle"
                   /\ Owes(AutoFails([call[c] EXCEPT !.calm = FALSE], e)) = "idle"
                   /\ Owes(Idle) = "idle"
        BY <3>0, NoDebtLeft
      <3>2. /\ \A p : Owes([call[c] EXCEPT !.pc = "accounts", !.prov = p]) = "idle"
            /\ \A p : Owes([call[c] EXCEPT !.pc = "group", !.cands = p]) = "idle"
            /\ \A p : Owes([call[c] EXCEPT !.pc = "filter", !.pool = p]) = "idle"
            /\ \A p : Owes([call[c] EXCEPT !.pc = "select", !.pool = p]) = "idle"
        BY <3>0 DEF Good, Call, Owes
      <3> HIDE DEF Owes
      <3>3. CASE ResolveExact(c)
        BY <3>1, <3>2, <3>3 DEF ResolveExact
      <3>4. CASE List(c)
        BY <3>1, <3>2, <3>4 DEF List
      <3>5. CASE Group(c)
        BY <3>1, <3>2, <3>5 DEF Group
      <3>6. CASE Cancel(c)
        BY <3>1, <3>6 DEF Cancel
      <3>7. CASE ReadAccounts(c)
        BY <3>1, <3>2, <3>7 DEF ReadAccounts
      <3>8. CASE FilterAvailable(c)
        BY <3>1, <3>2, <3>8 DEF FilterAvailable
      <3>9. CASE SelectNone(c) \/ SeesError(c)
        BY <3>1, <3>9 DEF SelectNone, SeesError
      <3> QED BY <1>5, <3>3, <3>4, <3>5, <3>6, <3>7, <3>8, <3>9
    <2> QED BY <1>1, <1>2, <1>3, <2>1, <2>2
  <1>6. ASSUME NEW c \in Callers, ReadFails(c)
        PROVE  UNCHANGED seen
    <2>1. call[c].pc \notin Slot \cup {"held"} /\ UNCHANGED <<occ, lost, faults>>
      BY <1>6 DEF ReadFails, Slot
    <2>2. PICK y : Broken(c, y) /\ Owes(y) = "idle" /\ Owes([y EXCEPT !.calm = FALSE]) = "idle"
                   /\ [y EXCEPT !.calm = FALSE] \in Call
      <3>0. Good(call[c]) /\ call[c] \in Call
        BY <1>0
      <3>1. ASSUME NEW y, Good(y), Owes(y) = "idle", Broken(c, y)
            PROVE  /\ Broken(c, y) /\ Owes(y) = "idle"
                   /\ Owes([y EXCEPT !.calm = FALSE]) = "idle"
                   /\ [y EXCEPT !.calm = FALSE] \in Call
        BY <3>1, CalmIsFree DEF Good, Call, Owes
      <3>2. "StoreError" \in Errors
        BY DEF Errors
      <3>3. CASE call[c].pc = "exact" /\ Broken(c, ExactFails(call[c], "StoreError"))
        <4>1. ~call[c].auto
          BY <3>0, <3>3 DEF Good, Allowed
        <4>2. Good(ExactFails(call[c], "StoreError")) /\ Owes(ExactFails(call[c], "StoreError")) = "idle"
          BY <3>0, <3>2, <3>3, <4>1, ExactFailsGood, NoDebtLeft DEF Fresh
        <4> QED BY <3>1, <3>3, <4>2
      <3>4. CASE call[c].pc = "list" /\ Broken(c, AutoFails(call[c], "StoreError"))
        BY <3>0, <3>1, <3>2, <3>4, FailsGood, NoDebtLeft
      <3>5. CASE call[c].pc = "accounts" /\ Broken(c, ProviderFails(call[c], "StoreError"))
        BY <3>0, <3>1, <3>2, <3>5, ProviderFailsGood, NoDebtLeft
      <3>6. CASE call[c].pc = "filter" /\ Broken(c, [call[c] EXCEPT !.pc = "select"])
        <4> DEFINE y == [call[c] EXCEPT !.pc = "select"]
        <4>1. y \in Call /\ Owes(y) = "idle" /\ Owes([y EXCEPT !.calm = FALSE]) = "idle"
              /\ [y EXCEPT !.calm = FALSE] \in Call
          BY <3>0 DEF Call, PcValues, Owes
        <4> QED BY <3>6, <4>1
      <3> QED BY <1>6, <3>3, <3>4, <3>5, <3>6 DEF ReadFails
    <2>3. Local(c, [y EXCEPT !.calm = FALSE])
      BY <2>2 DEF Broken, Local
    <2> QED BY <1>1, <1>2, <2>1, <2>2, <2>3
  <1>7. ASSUME NEW c \in Callers, Return(c) \/ StampFails(c)
        PROVE  UNCHANGED seen
    <2>0. Good(call[c]) /\ call[c] \in Call /\ call[c].pc = "stamp"
          /\ UNCHANGED <<occ, lost, faults>>
      BY <1>0, <1>7 DEF Return, StampFails
    <2>1. CASE Return(c)
      <3> DEFINE y == [Idle EXCEPT !.pc = "held", !.req = call[c].req,
                                   !.prov = call[c].prov, !.acct = call[c].acct]
      <3>1. y \in Call
        BY <2>0, StampedGood DEF Good
      <3>2. Owes(y) = Owes(call[c]) /\ InDebtTo(y) = InDebtTo(call[c])
        BY <2>0 DEF Owes, InDebtTo, Idle
      <3>3. Local(c, y)
        BY <2>1 DEF Return
      <3> QED BY <1>0, <2>0, <3>1, <3>2, <3>3, DebtKept
    <2>2. CASE StampFails(c)
      <3> DEFINE y == [call[c] EXCEPT !.pc = "giveback"]
      <3>1. y \in Call
        BY <2>0, StampedGood DEF Good
      <3>2. Owes(y) = Owes(call[c]) /\ InDebtTo(y) = InDebtTo(call[c])
        BY <2>0 DEF Owes, InDebtTo, Call
      <3>3. call' = [call EXCEPT ![c] = [y EXCEPT !.calm = FALSE]]
        BY <2>2 DEF StampFails, Broken
      <3> QED BY <1>0, <2>0, <3>1, <3>2, <3>3, DebtKept
    <2> QED BY <1>7, <2>1, <2>2
  <1>8. ASSUME NEW c \in Callers, NEW a \in Accounts, TryAccount(c, a)
        PROVE  Protocol!Next
    <2> DEFINE over == occ[a] + 1 > Limit[a]
               y == [call[c] EXCEPT !.acct = a, !.pc = IF over THEN "undo" ELSE "stamp"]
    <2>0. Good(call[c]) /\ call[c] \in Call /\ call[c].pc = "select" /\ a \in Choices(call[c])
          /\ Visible(c, y) /\ occ' = [occ EXCEPT ![a] = @ + 1] /\ UNCHANGED <<lost, faults>>
      BY <1>0, <1>8 DEF TryAccount
    <2>1. Good(y)
      BY <2>0, ChosenGood
    <2>2. y \in Call /\ Owes(y) = (IF over THEN "over" ELSE "held") /\ InDebtTo(y) = a
      BY <2>0, <2>1 DEF Good, Call, Owes, InDebtTo
    <2> HIDE DEF y
    <2>3. /\ SeenPc' = [SeenPc EXCEPT ![c] = IF over THEN "over" ELSE "held"]
          /\ SeenAcct' = [SeenAcct EXCEPT ![c] = a]
      BY <1>0, <2>0, <2>2, OneIsSeen
    <2>4. SeenPc[c] = "idle"
      BY <2>0 DEF SeenPc, ProtocolPc
    <2>5. Limit[a] \in {Limit[b] : b \in Accounts} /\ Limit[a] \in Nat /\ occ[a] \in Nat
      BY <1>0, LimitIsNatural DEF Outside
    <2>6. CASE over
      <3>1. Protocol!Overshoot(c, a, Limit[a])
        BY <2>0, <2>3, <2>4, <2>6 DEF Protocol!Overshoot, SeenPc, SeenAcct
      <3> QED BY <3>1, <2>5 DEF Protocol!Next
    <2>7. CASE ~over
      <3>1. Protocol!Acquire(c, a, Limit[a])
        BY <2>0, <2>3, <2>4, <2>5, <2>7 DEF Protocol!Acquire, SeenPc, SeenAcct
      <3> QED BY <3>1, <2>5 DEF Protocol!Next
    <2> QED BY <2>6, <2>7
  <1>9. ASSUME NEW c \in Callers, NEW a \in Accounts, IncrFails(c, a)
        PROVE  Protocol!Next \/ UNCHANGED seen
    <2> DEFINE x == [call[c] EXCEPT !.acct = a]
               y == [call[c] EXCEPT !.acct = a, !.calm = FALSE]
    <2>0. Good(call[c]) /\ call[c] \in Call /\ call[c].pc = "select" /\ a \in Choices(call[c])
          /\ call[c].att <= MaxRetries
      BY <1>0, <1>9, ChosenGood DEF IncrFails
    <2>1. Good(x) /\ y = [x EXCEPT !.calm = FALSE] /\ x.pc = "select" /\ x.acct = a
          /\ x.att <= MaxRetries /\ a \in x.pool
      BY <2>0, ChosenGood DEF Call, Choices
    <2>2. Good(y) /\ y.pc = "select" /\ y.acct = a /\ y.att <= MaxRetries /\ a \in y.pool
      BY <2>1, CalmIsFree DEF Good, Call
    <2>4. Owes(call[c]) = "idle" /\ SeenPc[c] = "idle"
      BY <2>0 DEF Owes, SeenPc, ProtocolPc
    <2>5. CASE Broken(c, NextAttempt(x)) /\ UNCHANGED <<occ, lost, faults>>
      <3> HIDE DEF x
      <3>1. Good(NextAttempt(x)) /\ Owes(NextAttempt(x)) = "idle"
        BY <2>1, NextAttemptGood, NoDebtLeft
      <3>2. NextAttempt(x) \in Call
        BY <3>1 DEF Good
      <3> QED BY <1>1, <2>4, <2>5, <3>1, <3>2
    <2>6. CASE /\ MayFail /\ faults' = faults + 1
               /\ occ' = [occ EXCEPT ![a] = @ + 1]
               /\ lost' = [lost EXCEPT ![a] = @ + 1]
               /\ Visible(c, NextAttempt(y))
      <3> HIDE DEF y
      <3>1. NextAttempt(y) \in Call /\ Owes(NextAttempt(y)) = "idle"
        BY <2>2, NextAttemptGood, NoDebtLeft DEF Good
      <3>2. SeenPc' = [SeenPc EXCEPT ![c] = "idle"] /\ SeenAcct' = [SeenAcct EXCEPT ![c] = NoAccount]
        BY <1>0, <2>6, <3>1, OneIsSeen DEF InDebtTo
      <3>3. SeenPc' = SeenPc /\ SeenAcct' = SeenAcct
        BY <3>2, <2>4 DEF SeenPc, SeenAcct
      <3>4. faults < MaxTrouble
        BY <1>0, <2>6 DEF MayFail, Outside
      <3>5. Protocol!IncrReplyLost(c, a)
        BY <2>4, <2>6, <3>3, <3>4 DEF Protocol!IncrReplyLost, SeenPc, SeenAcct
      <3> QED BY <3>5 DEF Protocol!Next
    <2> QED BY <1>9, <2>5, <2>6 DEF IncrFails
  <1>10. ASSUME NEW c \in Callers, Undo(c) \/ GiveBack(c)
         PROVE  Protocol!Next
    <2>1. /\ call[c].pc \in Slot /\ Decrement(call[c].acct)
          /\ Visible(c, NextAttempt(call[c]))
      BY <1>10 DEF Undo, GiveBack, Slot
    <2>2. NextAttempt(call[c]) \in Call /\ Owes(NextAttempt(call[c])) = "idle"
      BY <1>0, <2>1, NextAttemptGood, NoDebtLeft DEF Good, Bookkeeping
    <2> QED BY <2>1, <2>2, DebtPaid
  <1>11. ASSUME NEW c \in Callers, Report(c) \/ Die(c)
         PROVE  Protocol!Next
    <2>1. Idle \in Call /\ Owes(Idle) = "idle"
      BY IdleIsGood, NoDebtLeft DEF Good
    <2> QED BY <1>11, <2>1, DebtPaid DEF Report, Die, Slot
  <1>12. ASSUME Disturb
         PROVE  UNCHANGED seen
    <2>1. \A c \in Callers : call'[c].pc = call[c].pc /\ call'[c].acct = call[c].acct
      BY <1>0, <1>12 DEF Disturb, Call
    <2> QED BY <1>12, <2>1 DEF Disturb, seen, SeenPc, SeenAcct, ProtocolPc
  <1>13. CASE UNCHANGED vars
    BY <1>13 DEF vars, seen, SeenPc, SeenAcct, ProtocolPc
  <1> QED BY <1>4, <1>5, <1>6, <1>7, <1>8, <1>9, <1>10, <1>11, <1>12, <1>13
             DEF Next, Step, Working, Finished, StatusChanges, ProviderChanges

\* So do the first states.
LEMMA ProtocolInit == Init => Protocol!Init
  BY LimitIsNatural DEF Init, Protocol!Init, ProtocolPc, Idle

\* Pick, its callers' reports and their deaths follow the counting protocol of
\* Occupancy, for any number of callers, providers and accounts: on no path through the
\* retry and failover loops is a slot returned twice, or kept by a Pick that goes on.
THEOREM ImplementsOccupancy == Spec => OccupancySpec
  <1>1. IInv /\ IInv' /\ [Next]_vars => [Protocol!Next]_seen
    BY ProtocolStep
  <1> QED BY <1>1, ProtocolInit, Invariant, PTL
             DEF Spec, OccupancySpec, Protocol!Spec, Protocol!vars, seen, SeenPc, SeenAcct

-----------------------------------------------------------------------------
\* The invariant of a Pick that nobody has interfered with.  It is never refused, what it
\* has read is still true, and as long as it looks for another provider, every account in
\* reach belongs to a candidate it has not tried.
Undisturbed(x) ==
    x.calm =>
      /\ x.pc \notin {"undo", "giveback"}
      /\ x.pc \in {"exact", "list"} \/ ~x.auto => x.tried = {}
      /\ x.pc \in {"group", "accounts", "filter"} /\ x.auto /\ x.req.failover =>
            \A a \in Reachable(x.req) : Home[a] \in x.cands \ x.tried
      /\ x.pc = "filter" => x.pool = {a \in avail : Home[a] = x.prov}
      /\ x.pc = "select" => /\ x.att = 0 /\ x.excl = {} /\ x.pool # {}
                            /\ \A a \in x.pool : occ[a] < Limit[a]
      /\ x.pc = "failed" /\ (x.req.failover \/ ~x.auto) => Reachable(x.req) = {}

AllUndisturbed == \A c \in Callers : Undisturbed(call[c])

\* A caller whose calm is over, one that has nothing to do, and one that has a slot.
LEMMA NotCalm ==
    /\ \A x : ~x.calm => Undisturbed(x) /\ Undisturbed(x)'
    /\ \A x : x.pc = "stamp" /\ (x.auto \/ x.tried = {}) => Undisturbed(x)'
    /\ Undisturbed(Idle) /\ Undisturbed(Idle)'
  BY DEF Undisturbed, Idle

\* A local step of c: what the others have read is still true.
LEMMA LocalKeeps ==
    ASSUME AllUndisturbed, AllGood, NEW c \in Callers, NEW y, Undisturbed(y),
           call' = [call EXCEPT ![c] = y], UNCHANGED <<env, occ>>
    PROVE  AllUndisturbed'
  <1>1. \A r : Reachable(r)' = Reachable(r)
    BY DEF Reachable, Candidate, HasAvailable, env
  <1>2. \A x : Undisturbed(x) => Undisturbed(x)'
    BY <1>1 DEF Undisturbed, env
  <1>3. \A d \in Callers : call'[d] = IF d = c THEN y ELSE call[d]
    BY DEF AllGood
  <1>4. \A d \in Callers : Undisturbed(call'[d])
    BY <1>3 DEF AllUndisturbed
  <1> QED BY <1>2, <1>4 DEF AllUndisturbed

\* A visible step of c: nobody else is calm any more.
LEMMA VisibleEnds ==
    ASSUME AllGood, NEW c \in Callers, NEW y, Visible(c, y),
           ~y.calm \/ (y.pc = "stamp" /\ (y.auto \/ y.tried = {}))
    PROVE  AllUndisturbed'
  <1>1. Undisturbed(call[c])'
    <2>1. call'[c] = y
      BY DEF Visible
    <2> QED BY <2>1, NotCalm
  <1>2. ASSUME NEW d \in Callers, d # c
        PROVE  Undisturbed(call[d])'
    <2>1. call'[d] = [call[d] EXCEPT !.calm = FALSE] /\ call[d] \in Call
      BY <1>2 DEF AllGood, Visible
    <2>2. ~(call'[d].calm)
      BY <2>1 DEF Call
    <2> QED BY <2>2, NotCalm
  <1> QED BY <1>1, <1>2 DEF AllUndisturbed

\* Errors of a Pick that is still calm are kept only if nothing was in reach.
LEMMA FailsUndisturbed ==
    ASSUME NEW x, NEW e,
           x.calm /\ (x.req.failover \/ ~x.auto) => Reachable(x.req) = {}
    PROVE  Undisturbed(Fails(x, e)) /\ Undisturbed(AutoFails(x, e))
  <1>1. \A f : Undisturbed(Fails(x, f))
    <2> TAKE f
    <2>1. /\ Fails(x, f).pc = "failed" /\ Fails(x, f).req = x.req /\ Fails(x, f).tried = {}
          /\ Fails(x, f).auto = x.auto /\ Fails(x, f).calm = x.calm
      BY DEF Fails, Idle
    <2> QED BY <2>1 DEF Undisturbed
  <1> QED BY <1>1 DEF AutoFails

\* An exact Pick turns to other providers, or has had no choice.
LEMMA ExactUndisturbed ==
    ASSUME NEW x, Good(x), NEW e, Undisturbed(x), ~x.auto,
           x.calm /\ ~x.req.failover => Reachable(x.req) = {}
    PROVE  Undisturbed(ExactFails(x, e))
  <1>1. CASE ~x.req.failover
    BY <1>1, FailsUndisturbed DEF ExactFails
  <1>2. CASE x.req.failover
    <2> DEFINE y == [x EXCEPT !.pc = "list", !.err = e, !.auto = TRUE, !.prov = NoProvider,
                              !.pool = {}, !.excl = {}, !.att = 0]
    <2>1. y.pc = "list" /\ y.calm = x.calm /\ y.tried = x.tried
      BY DEF Good, Call
    <2>2. ExactFails(x, e) = y
      BY <1>2 DEF ExactFails
    <2> HIDE DEF y
    <2> QED BY <2>1, <2>2 DEF Undisturbed
  <1> QED BY <1>1, <1>2

\* The provider at hand has no account in reach: an automatic Pick goes on to the others.
LEMMA ProviderUndisturbed ==
    ASSUME NEW x, Good(x), x.pc \in {"accounts", "filter", "select"}, Undisturbed(x),
           NEW e \in Retriable, x.calm => x.pc # "select",
           x.calm => \A a \in Reachable(x.req) : Home[a] # x.prov
    PROVE  Undisturbed(ProviderFails(x, e))
  <1>1. CASE ~x.auto
    <2>1. x.calm /\ ~x.req.failover => Reachable(x.req) = {}
      BY <1>1 DEF Good, Allowed, Fresh, Honours, Reachable
    <2> QED BY <1>1, <2>1, ExactUndisturbed DEF ProviderFails
  <1>2. CASE x.auto /\ ~x.req.failover
    BY <1>2, FailsUndisturbed DEF ProviderFails
  <1>3. CASE x.auto /\ x.req.failover
    <2> DEFINE y == [x EXCEPT !.pc = "group", !.tried = x.tried \cup {x.prov}, !.pool = {},
                              !.excl = {}, !.att = 0]
    <2>1. /\ y.pc = "group" /\ y.calm = x.calm /\ y.tried = x.tried \cup {x.prov}
          /\ y.cands = x.cands /\ y.req = x.req /\ y.auto = x.auto
      BY DEF Good, Call
    <2>2. ProviderFails(x, e) = y
      BY <1>3 DEF ProviderFails
    <2> HIDE DEF y
    <2>3. x.calm => \A a \in Reachable(x.req) : Home[a] \in x.cands \ x.tried
      BY <1>3 DEF Undisturbed
    <2>4. x.calm => \A a \in Reachable(x.req) : Home[a] \in y.cands \ y.tried
      BY <2>1, <2>3
    <2>5. y.auto /\ x.calm = y.calm
      BY <1>3, <2>1
    <2>6. Undisturbed(y)
      BY <2>1, <2>4, <2>5 DEF Undisturbed
    <2> QED BY <2>2, <2>6
  <1> QED BY <1>1, <1>2, <1>3

-----------------------------------------------------------------------------
\* The steps that end without an account, up to the choice of a provider.
LEMMA ResolvesUndisturbed ==
    ASSUME IInv, AllUndisturbed, NEW c \in Callers,
           ResolveExact(c) \/ List(c) \/ Group(c) \/ Cancel(c)
    PROVE  AllUndisturbed'
  <1> DEFINE x == call[c]
  <1>0. /\ AllGood /\ Good(x) /\ x \in Call /\ Undisturbed(x)
        /\ provState \in [Providers -> ProvStates] /\ UNCHANGED <<env, occ>>
    BY TwoHalves DEF AllGood, Good, Outside, AllUndisturbed,
                     ResolveExact, List, Group, Cancel
  <1>1. ASSUME NEW y, Local(c, y), Undisturbed(y)
        PROVE  AllUndisturbed'
    BY <1>0, <1>1, LocalKeeps DEF Local
  <1>2. ASSUME x.pc \in {"exact", "group"}
        PROVE  \A p : Undisturbed([x EXCEPT !.pc = "accounts", !.prov = p])
    <2> TAKE p
    <2> DEFINE y == [x EXCEPT !.pc = "accounts", !.prov = p]
    <2>1. /\ y.pc = "accounts" /\ y.calm = x.calm /\ y.tried = x.tried
          /\ y.cands = x.cands /\ y.req = x.req /\ y.auto = x.auto
      BY <1>0 DEF Call
    <2>2. IF x.pc = "exact" THEN ~x.auto ELSE x.auto
      BY <1>0, <1>2 DEF Good, Allowed
    <2> HIDE DEF y, x
    <2> QED BY <1>0, <1>2, <2>1, <2>2 DEF Undisturbed
  <1>3. CASE ResolveExact(c)
    <2> DEFINE e == ExactError(x.req.key)
    <2>1. x.pc = "exact" /\ Local(c, IF e = "none" THEN [x EXCEPT !.pc = "accounts", !.prov = x.req.key]
                                     ELSE ExactFails(x, e))
      BY <1>3 DEF ResolveExact
    <2>2. ~x.auto /\ x.req.kind = "exact" /\ x.req.key \in Providers
      BY <1>0, <2>1, ExactKey DEF Good, Allowed, Fresh
    <2>3. e # "none" => ~Candidate(x.req.key)
      BY <1>0, <2>2 DEF ExactError, Candidate, ProvStates
    <2>4. e # "none" /\ ~x.req.failover => Reachable(x.req) = {}
      BY <2>2, <2>3 DEF Reachable, Honours
    <2> HIDE DEF x, e
    <2>5. e # "none" => Undisturbed(ExactFails(x, e))
      BY <1>0, <2>2, <2>4, ExactUndisturbed
    <2>6. Undisturbed([x EXCEPT !.pc = "accounts", !.prov = x.req.key])
      <3>1. x.pc \in {"exact", "group"}
        BY <2>1
      <3> QED BY <1>2, <3>1, Zenon
    <2> QED BY <1>1, <2>1, <2>5, <2>6
  <1>4. CASE List(c)
    <2> DEFINE ps == {p \in Providers : Candidate(p) /\ AllowsType(x.req, p)}
               y == [x EXCEPT !.pc = "group", !.cands = ps]
    <2>1. x.pc = "list" /\ Local(c, IF ps = {} THEN AutoFails(x, "ModelNotSupported") ELSE y)
      BY <1>4 DEF List
    <2>2. \A a \in Reachable(x.req) : a \in Accounts => Home[a] \in ps
      BY HomeIsProvider DEF Reachable, Honours
    <2>3. Reachable(x.req) \subseteq Accounts
      BY TwoHalves DEF Outside, Reachable
    <2>4. ps = {} => Undisturbed(AutoFails(x, "ModelNotSupported"))
      BY <2>2, <2>3, FailsUndisturbed
    <2>5. /\ y.pc = "group" /\ y.calm = x.calm /\ y.tried = x.tried
          /\ y.cands = ps /\ y.req = x.req /\ y.auto = x.auto
      BY <1>0 DEF Call
    <2>6. x.auto /\ (x.calm => x.tried = {})
      BY <1>0, <2>1 DEF Good, Allowed, Undisturbed
    <2> HIDE DEF x, y, ps
    <2>7. y.auto
      BY <2>5, <2>6
    <2>8. y.calm => \A a \in Reachable(y.req) : Home[a] \in y.cands \ y.tried
      BY <2>2, <2>3, <2>5, <2>6
    <2>9. Undisturbed(y)
      BY <2>5, <2>7, <2>8 DEF Undisturbed
    <2> QED BY <1>1, <2>1, <2>4, <2>9
  <1>5. CASE Group(c)
    <2> DEFINE left == x.cands \ x.tried
    <2>1. x.pc = "group" /\ x.auto
      BY <1>0, <1>5 DEF Good, Allowed, Group
    <2>2. left = {} => Undisturbed(AutoFails(x, "NoAvailableProvider"))
      <3>1. left = {} /\ x.calm /\ (x.req.failover \/ ~x.auto) => Reachable(x.req) = {}
        BY <1>0, <2>1 DEF Undisturbed
      <3> HIDE DEF left, x
      <3> QED BY <3>1, FailsUndisturbed
    <2>3. \/ left = {} /\ Local(c, AutoFails(x, "NoAvailableProvider"))
          \/ \E p \in left : Local(c, [x EXCEPT !.pc = "accounts", !.prov = p])
      BY <1>5 DEF Group
    <2> HIDE DEF x, left
    <2>4. \A p : Undisturbed([x EXCEPT !.pc = "accounts", !.prov = p])
      <3>1. x.pc \in {"exact", "group"}
        BY <2>1
      <3> QED BY <1>2, <3>1, Zenon
    <2> QED BY <1>1, <2>2, <2>3, <2>4
  <1>6. CASE Cancel(c)
    <2> DEFINE y == [x EXCEPT !.calm = FALSE]
    <2>1. ~y.calm /\ Local(c, AutoFails(y, "Canceled"))
      BY <1>0, <1>6 DEF Cancel, Call
    <2> HIDE DEF x, y
    <2>2. Undisturbed(AutoFails(y, "Canceled"))
      BY <2>1, FailsUndisturbed
    <2> QED BY <1>1, <2>1, <2>2
  <1> QED BY <1>3, <1>4, <1>5, <1>6

\* The steps from the accounts of a provider to one of them.  A calm Pick that has accounts
\* to choose from is granted the first it tries.
LEMMA AccountsUndisturbed ==
    ASSUME IInv, AllUndisturbed, NEW c \in Callers,
           \/ ReadAccounts(c) \/ FilterAvailable(c) \/ SelectNone(c)
           \/ \E a \in Accounts : TryAccount(c, a)
    PROVE  AllUndisturbed'
  <1> DEFINE x == call[c]
  <1>0. /\ AllGood /\ Good(x) /\ x \in Call /\ Undisturbed(x)
    BY TwoHalves DEF AllGood, Good, AllUndisturbed
  <1>1. ASSUME NEW y, Local(c, y), Undisturbed(y), UNCHANGED <<env, occ>>
        PROVE  AllUndisturbed'
    BY <1>0, <1>1, LocalKeeps DEF Local
  <1>2. CASE ReadAccounts(c)
    <2> DEFINE as == {a \in avail : Home[a] = x.prov}
               y == [x EXCEPT !.pc = "filter", !.pool = as]
    <2>1. /\ x.pc = "accounts" /\ UNCHANGED <<env, occ>>
          /\ Local(c, IF as = {} THEN ProviderFails(x, "NoAvailableAccount") ELSE y)
      BY <1>2 DEF ReadAccounts
    <2>2. as = {} => \A a \in Reachable(x.req) : Home[a] # x.prov
      BY DEF Reachable
    <2>3. /\ y.pc = "filter" /\ y.calm = x.calm /\ y.tried = x.tried /\ y.pool = as
          /\ y.cands = x.cands /\ y.req = x.req /\ y.auto = x.auto /\ y.prov = x.prov
      BY <1>0 DEF Call
    <2>4. Undisturbed(y)
      <3> HIDE DEF y, x
      <3> QED BY <1>0, <2>1, <2>3 DEF Undisturbed
    <2> HIDE DEF x, as, y
    <2>5. as = {} => Undisturbed(ProviderFails(x, "NoAvailableAccount"))
      BY <1>0, <2>1, <2>2, ProviderUndisturbed DEF Retriable
    <2> QED BY <1>1, <2>1, <2>4, <2>5
  <1>3. CASE FilterAvailable(c)
    <2> DEFINE free == {a \in x.pool : occ[a] < Limit[a]}
               y == [x EXCEPT !.pc = "select", !.pool = free]
    <2>1. /\ x.pc = "filter" /\ UNCHANGED <<env, occ>>
          /\ Local(c, IF free = {} THEN ProviderFails(x, "OccupancyFull") ELSE y)
      BY <1>3 DEF FilterAvailable
    <2>2. x.calm /\ free = {} => \A a \in Reachable(x.req) : Home[a] # x.prov
      BY <1>0, <2>1 DEF Reachable, Undisturbed
    <2>3. /\ y.pc = "select" /\ y.calm = x.calm /\ y.tried = x.tried /\ y.pool = free
          /\ y.cands = x.cands /\ y.req = x.req /\ y.auto = x.auto
          /\ y.att = x.att /\ y.excl = x.excl
      BY <1>0 DEF Call
    <2>4. x.att = 0 /\ x.excl = {}
      BY <1>0, <2>1 DEF Good, Bookkeeping, Fresh
    <2>5. free # {} => Undisturbed(y)
      <3>1. \A a \in free : occ[a] < Limit[a]
        OBVIOUS
      <3> HIDE DEF y, x, free
      <3> QED BY <1>0, <2>1, <2>3, <2>4, <3>1 DEF Undisturbed
    <2> HIDE DEF x, free, y
    <2>6. free = {} => Undisturbed(ProviderFails(x, "OccupancyFull"))
      BY <1>0, <2>1, <2>2, ProviderUndisturbed DEF Retriable
    <2> QED BY <1>1, <2>1, <2>5, <2>6
  <1>4. CASE SelectNone(c)
    <2> DEFINE e == IF x.att > MaxRetries THEN "MaxRetriesExceeded" ELSE "NoAvailableAccount"
    <2>1. /\ x.pc = "select" /\ Choices(x) = {} /\ UNCHANGED <<env, occ>>
          /\ Local(c, ProviderFails(x, e))
      BY <1>4 DEF SelectNone
    <2>2. ~x.calm
      BY <1>0, <2>1 DEF Undisturbed, Choices
    <2>3. e \in Retriable
      BY DEF Retriable
    <2> HIDE DEF x, e
    <2>4. Undisturbed(ProviderFails(x, e))
      BY <1>0, <2>1, <2>2, <2>3, ProviderUndisturbed
    <2> QED BY <1>1, <2>1, <2>4
  <1>5. ASSUME NEW a \in Accounts, TryAccount(c, a)
        PROVE  AllUndisturbed'
    <2> DEFINE y == [x EXCEPT !.acct = a, !.pc = IF occ[a] + 1 > Limit[a] THEN "undo" ELSE "stamp"]
    <2>1. x.pc = "select" /\ a \in Choices(x) /\ Visible(c, y)
      BY <1>5 DEF TryAccount
    <2>2. x.calm => occ[a] < Limit[a]
      BY <1>0, <2>1 DEF Undisturbed, Choices
    <2>3. occ[a] \in Nat /\ Limit[a] \in Nat
      BY LimitIsNatural, TwoHalves DEF Outside
    <2>4. /\ y.calm = x.calm /\ y.tried = x.tried /\ y.auto = x.auto
          /\ y.pc = IF occ[a] + 1 > Limit[a] THEN "undo" ELSE "stamp"
      BY <1>0 DEF Call
    <2>5. x.calm => y.pc = "stamp"
      BY <2>2, <2>3, <2>4
    <2>6. x.calm => x.auto \/ x.tried = {}
      BY <1>0 DEF Undisturbed
    <2> HIDE DEF x, y
    <2>7. ~y.calm \/ (y.pc = "stamp" /\ (y.auto \/ y.tried = {}))
      <3>1. CASE x.calm /\ x.auto
        BY <2>4, <2>5, <3>1
      <3>2. CASE x.calm /\ x.tried = {}
        BY <2>4, <2>5, <3>2
      <3>3. CASE ~x.calm
        <4>1. ~y.calm
          BY <2>4, <3>3, Zenon
        <4> QED BY <4>1
      <3> QED BY <2>6, <3>1, <3>2, <3>3
    <2> QED BY <1>0, <2>1, <2>7, VisibleEnds
  <1> QED BY <1>2, <1>3, <1>4, <1>5

\* Failures, refusals and changes from outside end a Pick's calm, and so do reports.
LEMMA CalmEnds ==
    ASSUME IInv, AllUndisturbed, NEW c \in Callers,
           \/ Undo(c) \/ GiveBack(c) \/ Report(c) \/ StampFails(c) \/ ReadFails(c)
           \/ \E a \in Accounts : IncrFails(c, a)
    PROVE  AllUndisturbed'
  <1> DEFINE x == call[c]
  <1>0. /\ AllGood /\ Good(x) /\ x \in Call /\ Undisturbed(x)
    BY TwoHalves DEF AllGood, Good, AllUndisturbed
  <1>1. ASSUME NEW y, y \in Call, Broken(c, y), UNCHANGED <<env, occ>>
        PROVE  AllUndisturbed'
    <2> DEFINE z == [y EXCEPT !.calm = FALSE]
    <2>1. ~z.calm /\ call' = [call EXCEPT ![c] = z]
      BY <1>1 DEF Broken, Call
    <2> HIDE DEF z
    <2> QED BY <1>0, <1>1, <2>1, NotCalm, LocalKeeps
  <1>2. CASE Undo(c) \/ GiveBack(c)
    <2> DEFINE y == NextAttempt(x)
    <2>1. ~x.calm /\ Visible(c, y)
      BY <1>0, <1>2 DEF Undisturbed, Undo, GiveBack
    <2>2. ~y.calm
      BY <1>0, <2>1 DEF NextAttempt, Call
    <2> HIDE DEF x, y
    <2>3. ~y.calm \/ (y.pc = "stamp" /\ (y.auto \/ y.tried = {}))
      BY <2>2, Zenon
    <2> QED BY <1>0, <2>1, <2>3, VisibleEnds
  <1>3. CASE Report(c)
    <2> DEFINE y == Idle
    <2>1. Visible(c, y) /\ ~y.calm
      BY <1>3 DEF Report, Idle
    <2> HIDE DEF y
    <2>2. ~y.calm \/ (y.pc = "stamp" /\ (y.auto \/ y.tried = {}))
      BY <2>1, Zenon
    <2> QED BY <1>0, <2>1, <2>2, VisibleEnds
  <1>4. CASE StampFails(c)
    <2>1. [x EXCEPT !.pc = "giveback"] \in Call
      BY <1>0 DEF Call, PcValues
    <2> QED BY <1>1, <1>4, <2>1 DEF StampFails
  <1>5. CASE ReadFails(c)
    <2>0. UNCHANGED <<env, occ>>
      BY <1>5 DEF ReadFails
    <2>1. CASE x.pc = "exact" /\ Broken(c, ExactFails(x, "StoreError"))
      <3>1. ~x.auto
        BY <1>0, <2>1 DEF Good, Allowed
      <3>2. ExactFails(x, "StoreError") \in Call
        BY <1>0, <2>1, <3>1, ExactFailsGood DEF Fresh, Errors, Good
      <3> QED BY <1>1, <2>0, <2>1, <3>2
    <2>2. CASE x.pc = "list" /\ Broken(c, AutoFails(x, "StoreError"))
      <3>1. AutoFails(x, "StoreError") \in Call
        BY <1>0, FailsGood DEF Errors, Good
      <3> QED BY <1>1, <2>0, <2>2, <3>1
    <2>3. CASE x.pc = "accounts" /\ Broken(c, ProviderFails(x, "StoreError"))
      <3>1. ProviderFails(x, "StoreError") \in Call
        BY <1>0, <2>3, ProviderFailsGood DEF Errors, Good
      <3> QED BY <1>1, <2>0, <2>3, <3>1
    <2>4. CASE x.pc = "filter" /\ Broken(c, [x EXCEPT !.pc = "select"])
      <3>1. [x EXCEPT !.pc = "select"] \in Call
        BY <1>0 DEF Call, PcValues
      <3> QED BY <1>1, <2>0, <2>4, <3>1
    <2> QED BY <1>5, <2>1, <2>2, <2>3, <2>4 DEF ReadFails
  <1>6. ASSUME NEW a \in Accounts, IncrFails(c, a)
        PROVE  AllUndisturbed'
    <2> DEFINE y == [x EXCEPT !.acct = a]
               z == [x EXCEPT !.acct = a, !.calm = FALSE]
    <2>1. Good(x) /\ x.pc = "select" /\ a \in Choices(x) /\ x.att <= MaxRetries /\ Good(y)
      BY <1>0, <1>6, ChosenGood DEF IncrFails
    <2>2. CASE Broken(c, NextAttempt(y)) /\ UNCHANGED <<env, occ>>
      <3>1. y.pc = "select" /\ y.acct = a /\ y.att <= MaxRetries /\ a \in y.pool
        BY <1>0, <2>1 DEF Call, Choices
      <3>2. NextAttempt(y) \in Call
        BY <2>1, <3>1, NextAttemptGood DEF Good
      <3> QED BY <1>1, <2>2, <3>2
    <2>3. CASE Visible(c, NextAttempt(z))
      <3> DEFINE w == NextAttempt(z)
      <3>1. ~w.calm
        BY <1>0 DEF NextAttempt, Call
      <3>2. Visible(c, w)
        BY <2>3
      <3> HIDE DEF w, x
      <3>3. ~w.calm \/ (w.pc = "stamp" /\ (w.auto \/ w.tried = {}))
        BY <3>1, Zenon
      <3> QED BY <1>0, <3>2, <3>3, VisibleEnds
    <2> QED BY <1>6, <2>2, <2>3 DEF IncrFails
  <1> QED BY <1>2, <1>3, <1>4, <1>5, <1>6

\* The remaining steps.
LEMMA UndisturbedStep ==
    ASSUME IInv, AllUndisturbed, [Next]_vars
    PROVE  AllUndisturbed'
  <1>0. AllGood /\ \A c \in Callers : call[c] \in Call
    BY TwoHalves DEF AllGood
  <1>1. ASSUME NEW c \in Callers, NEW y, Local(c, y), Undisturbed(y), UNCHANGED <<env, occ>>
        PROVE  AllUndisturbed'
    BY <1>0, <1>1, LocalKeeps DEF Local
  <1>2. ASSUME NEW c \in Callers, NEW r \in Asked, Begin(c, r)
        PROVE  AllUndisturbed'
    <2> DEFINE y == [Idle EXCEPT !.req = r, !.calm = TRUE, !.auto = r.kind # "exact",
                                 !.pc = IF r.kind = "exact" THEN "exact" ELSE "list"]
    <2>1. Local(c, y) /\ UNCHANGED <<env, occ>>
      BY <1>2 DEF Begin
    <2>2. y.pc \in {"exact", "list"} /\ y.tried = {}
      BY DEF Idle
    <2> HIDE DEF y
    <2>3. Undisturbed(y)
      BY <2>2 DEF Undisturbed
    <2> QED BY <1>1, <2>1, <2>3
  <1>3. ASSUME NEW c \in Callers, Return(c)
        PROVE  AllUndisturbed'
    <2> DEFINE y == [Idle EXCEPT !.pc = "held", !.req = call[c].req,
                                 !.prov = call[c].prov, !.acct = call[c].acct]
    <2>1. Local(c, y) /\ UNCHANGED <<env, occ>> /\ ~y.calm
      BY <1>3 DEF Return, Idle
    <2> HIDE DEF y
    <2> QED BY <1>1, <2>1, NotCalm
  <1>4. ASSUME NEW c \in Callers, SeesError(c) \/ Die(c)
        PROVE  AllUndisturbed'
    BY <1>1, <1>4, NotCalm DEF SeesError, Die
  <1>5. ASSUME Disturb
        PROVE  AllUndisturbed'
    <2>1. \A c \in Callers : ~(call'[c].calm)
      BY <1>0, <1>5 DEF Disturb, Call
    <2> QED BY <2>1, NotCalm DEF AllUndisturbed
  <1>6. CASE UNCHANGED vars
    BY <1>6 DEF vars, env, AllUndisturbed, Undisturbed, Reachable, Candidate, HasAvailable
  <1> QED BY <1>2, <1>3, <1>4, <1>5, <1>6,
             ResolvesUndisturbed, AccountsUndisturbed, CalmEnds
             DEF Next, Step, Working, Finished, StatusChanges, ProviderChanges

\* A Pick that nobody interferes with, and no store lets down, fails only if it could not
\* have succeeded: with failover or for an exact provider, no account in reach is below its
\* limit.  For any number of providers and accounts, however long the failover loop.
THEOREM CompleteUndisturbed == Spec => []CompleteWhenUndisturbed
  <1>1. Init => AllUndisturbed
    BY NotCalm DEF Init, AllUndisturbed
  <1>2. IInv /\ AllUndisturbed /\ [Next]_vars => AllUndisturbed'
    BY UndisturbedStep
  <1>3. AllUndisturbed => CompleteWhenUndisturbed
    BY DEF AllUndisturbed, Undisturbed, CompleteWhenUndisturbed
  <1> QED BY <1>1, <1>2, <1>3, Invariant, PTL DEF Spec

-----------------------------------------------------------------------------
\* Pick with its strategies.

\* A store of a strategy fails: Pick goes on as if nothing had happened.
StrategyFails == /\ MayFail /\ trouble' = trouble + 1
                 /\ UNCHANGED <<env, occ, lost, call, picks, faults>>

-----------------------------------------------------------------------------
\* Every step with strategies is a step of Pick, a failure that Pick does not see, or
\* nothing to Pick.
LEMMA PickStep ==
    ASSUME IInv, [SelNext]_allvars
    PROVE  [Next \/ StrategyFails]_vars
  <1>1. ASSUME NEW c \in Callers, Step(c) \/ Report(c) \/ SeesError(c)
        PROVE  Next
    BY <1>1 DEF Next
  <1>2. ASSUME NEW c \in Callers, SelStep(c)
        PROVE  [Next \/ StrategyFails]_vars
    <2>1. CASE ListCounts(c)
      BY <1>1, <2>1 DEF ListCounts, Step
    <2>2. CASE GroupSelect(c)
      BY <1>1, <2>2 DEF GroupSelect, Step
    <2>3. CASE Select(c) \/ ScanEnds(c)
      BY <2>3 DEF Select, ScanEnds
    <2>4. CASE ScanNext(c)
      BY <2>4 DEF ScanNext, StrategyFails
    <2>5. CASE MakeBinding(c) \/ LookupFails(c)
      BY <2>5 DEF MakeBinding, LookupFails, StrategyFails
    <2>6. CASE Acquire(c)
      <3> DEFINE a == sel[c].want
      <3>1. TryAccount(c, a) \/ IncrFails(c, a)
        BY <2>6 DEF Acquire
      <3>2. a \in Choices(call[c])
        BY <3>1 DEF TryAccount, IncrFails
      <3>3. a \in Accounts
        BY <3>2 DEF Choices, IInv, TypeOK, Call
      <3> QED BY <1>1, <3>1, <3>3 DEF Step
    <2>7. CASE Proceed(c)
      BY <1>1, <2>7 DEF Proceed, Step
    <2> QED BY <1>2, <2>1, <2>2, <2>3, <2>4, <2>5, <2>6, <2>7 DEF SelStep
  <1>3. ASSUME NEW c \in Callers, NEW r \in Asked, BeginSelecting(c, r)
        PROVE  Next
    BY <1>3 DEF BeginSelecting, Next
  <1>4. ASSUME NEW c \in Callers, ReportCall(c)
        PROVE  Next
    BY <1>1, <1>4 DEF ReportCall
  <1>5. ASSUME NEW c \in Callers, IncrCalls(c)
        PROVE  [StrategyFails]_vars
    BY <1>5 DEF IncrCalls, StrategyFails
  <1>6. ASSUME NEW a \in Accounts, StatusChanges(a)
        PROVE  Next
    BY <1>6 DEF Next
  <1>7. CASE Finished \/ UNCHANGED allvars \/ \E a \in Accounts : RemoveStats(a)
    BY <1>7 DEF Finished, allvars, RemoveStats
  <1> QED BY <1>1, <1>2, <1>3, <1>4, <1>5, <1>6, <1>7 DEF SelNext

\* Failures of this kind disturb nothing that Pick keeps.
LEMMA FailureIsHarmless ==
    ASSUME IInv, StrategyFails
    PROVE  /\ IInv'
           /\ AllUndisturbed => AllUndisturbed'
           /\ UNCHANGED seen
  <1>1. trouble' \in 0..MaxTrouble
    BY DEF StrategyFails, MayFail, IInv, TypeOK
  <1>2. IInv'
    BY <1>1 DEF StrategyFails, env, IInv, TypeOK
  <1>3. AllUndisturbed => AllUndisturbed'
    BY DEF StrategyFails, env, AllUndisturbed, Undisturbed, Reachable, Candidate, HasAvailable
  <1>4. UNCHANGED seen
    BY DEF StrategyFails, seen, SeenPc, SeenAcct, ProtocolPc
  <1> QED BY <1>2, <1>3, <1>4

\* What holds of Pick alone, and its debts, with strategies.
PickInv == IInv /\ AllUndisturbed

LEMMA PickHolds ==
    SelSpec => []PickInv /\ [][Next \/ StrategyFails]_vars /\ [][Protocol!Next]_seen
  <1>1. SelInit => PickInv
    BY InvariantStarts, NotCalm DEF SelInit, Init, AllUndisturbed, PickInv
  <1>2. PickInv /\ [SelNext]_allvars => [Next \/ StrategyFails]_vars
    BY PickStep DEF PickInv
  <1>3. PickInv /\ [SelNext]_allvars => PickInv' /\ [Protocol!Next]_seen
    <2> SUFFICES ASSUME PickInv, [SelNext]_allvars
                 PROVE  PickInv' /\ [Protocol!Next]_seen
      OBVIOUS
    <2>1. [Next]_vars \/ StrategyFails
      BY <1>2
    <2>2. CASE [Next]_vars
      BY <2>2, InvariantStays, UndisturbedStep, ProtocolStep DEF PickInv
    <2>3. CASE StrategyFails
      BY <2>3, FailureIsHarmless DEF PickInv
    <2> QED BY <2>1, <2>2, <2>3
  <1> QED BY <1>1, <1>2, <1>3, PTL DEF SelSpec

\* With strategies, Pick is still Pick: whatever a GroupSelector or a Selector chooses, it
\* chooses among what Pick offers, and no failure of a store it reads or writes shows.
THEOREM SelectingIsPicking == SelSpec => Init /\ [][Next \/ StrategyFails]_vars
  <1>1. SelInit => Init
    BY DEF SelInit
  <1> QED BY <1>1, PickHolds, PTL DEF SelSpec

\* So what was proved of Pick for any choice holds for the choices of every strategy, bound
\* accounts that are gone or full included: the retry loop tries different accounts, the
\* result is one the request allows, and an undisturbed Pick fails only if it must.
THEOREM PickKeepsItsPromises ==
    SelSpec => [](/\ TypeOK /\ AttemptsAreDistinct
                  /\ ResultHonoursRequest /\ CompleteWhenUndisturbed)
  <1>1. PickInv => /\ TypeOK /\ AttemptsAreDistinct
                   /\ ResultHonoursRequest /\ CompleteWhenUndisturbed
    BY DEF PickInv, IInv, Bookkeeping, AttemptsAreDistinct, Allowed, ResultHonoursRequest,
           AllUndisturbed, Undisturbed, CompleteWhenUndisturbed
  <1> QED BY <1>1, PickHolds, PTL

\* And slots are counted as the protocol of Occupancy wants it.
THEOREM SelectingImplementsOccupancy == SelSpec => OccupancySpec
  <1>1. SelInit => Protocol!Init
    BY ProtocolInit DEF SelInit
  <1> QED BY <1>1, PickHolds, PTL
             DEF SelSpec, OccupancySpec, Protocol!Spec, Protocol!vars, seen, SeenPc, SeenAcct
-----------------------------------------------------------------------------
\* The types of the variables that the strategies keep.
Sizes == {Cardinality(S) : S \in SUBSET Accounts}
Scans == [on : BOOLEAN, seen : SUBSET Accounts, kept : SUBSET Accounts,
          best : Accounts \cup {NoAccount}, least : Nat, blind : BOOLEAN]
StoreCalls == [op : {"none", "bind", "count"}, level : Levels \cup {"none"},
               target : Accounts \cup Providers \cup {NoAccount, NoProvider}]
Locals == [listed : [Providers -> Sizes], missed : BOOLEAN, want : Accounts \cup {NoAccount},
           scan : Scans, next : StoreCalls, alone : BOOLEAN]

SelShape == /\ conf \in Configurations
            /\ calls \in [Accounts -> Nat]
            /\ sel \in [Callers -> Locals]
            /\ DOMAIN bound = Levels
            /\ DOMAIN served = People

\* What LeastUsed promises of one run over its candidates, if n are the calls.
Holds(s, n) == /\ s.scan.kept \subseteq s.scan.seen
               /\ ~s.scan.blind => \A a \in s.scan.kept : s.scan.least <= n[a]
EachHolds == \A c \in Callers : Holds(sel[c], calls)

\* The first account that a strategy wants, the first provider it has listed.
LEMMA FreshLocals == FreshSel \in Locals /\ Nothing \in StoreCalls /\ NoScan \in Scans
  <1>1. 0 \in Sizes
    BY FS_EmptySet DEF Sizes
  <1>2. Nothing \in StoreCalls
    BY DEF Nothing, StoreCalls
  <1>3. NoScan \in Scans
    BY DEF NoScan, Scans
  <1> QED BY <1>1, <1>2, <1>3 DEF FreshSel, Locals

\* A strategy chooses one of its candidates.
LEMMA SimpleChooses ==
    ASSUME conf \in Configurations, NEW S, Fallback("acct") # "least_used"
    PROVE  Simple(S) \subseteq S
  <1>1. Fallback("acct") \in {"round_robin", "priority", "weighted"}
    BY DEF Fallback, Configurations, SimpleSelectors
  <1> QED BY <1>1 DEF Simple, RoundRobin, Weighted, Priority

\* As long as calls are only counted up, nothing that was read becomes too high.
LEMMA HoldsOn ==
    ASSUME NEW n \in [Accounts -> Nat], NEW m \in [Accounts -> Nat],
           \A a \in Accounts : n[a] <= m[a],
           NEW s \in Locals, Holds(s, n)
    PROVE  Holds(s, m)
  <1>1. s.scan.kept \subseteq Accounts /\ s.scan.least \in Nat
    BY DEF Locals, Scans
  <1> QED BY <1>1 DEF Holds

\* One caller's strategies move, and calls are only counted up.
LEMMA OneSelects ==
    ASSUME SelShape, EachHolds, NEW c \in Callers, NEW s \in Locals,
           Sets(c, s), Holds(s, calls'),
           calls' \in [Accounts -> Nat], \A a \in Accounts : calls[a] <= calls'[a],
           DOMAIN bound' = Levels, DOMAIN served' = People, UNCHANGED conf
    PROVE  SelShape' /\ EachHolds'
  <1>1. sel' \in [Callers -> Locals]
    BY DEF Sets, SelShape
  <1>2. ASSUME NEW d \in Callers
        PROVE  Holds(sel'[d], calls')
    <2>1. CASE d = c
      BY <2>1 DEF Sets, SelShape
    <2>2. CASE d # c
      <3>1. sel'[d] = sel[d] /\ sel[d] \in Locals
        BY <2>2 DEF Sets, SelShape
      <3> QED BY <3>1, HoldsOn DEF SelShape, EachHolds
    <2> QED BY <2>1, <2>2
  <1> QED BY <1>1, <1>2 DEF SelShape, EachHolds
\* A caller's strategies that keep all but what call they owe and what they want.
LEMMA Rewanted ==
    ASSUME NEW s \in Locals
    PROVE  /\ \A n \in StoreCalls :
                 /\ [s EXCEPT !.next = n] \in Locals /\ [s EXCEPT !.next = n].scan = s.scan
                 /\ \A w \in Accounts \cup {NoAccount} :
                       /\ [s EXCEPT !.want = w, !.next = n] \in Locals
                       /\ [s EXCEPT !.want = w, !.next = n].scan = s.scan
                       /\ [s EXCEPT !.missed = FALSE, !.want = w, !.next = n] \in Locals
                       /\ [s EXCEPT !.missed = FALSE, !.want = w, !.next = n].scan = s.scan
                 /\ [s EXCEPT !.missed = FALSE, !.next = n] \in Locals
                 /\ [s EXCEPT !.missed = FALSE, !.next = n].scan = s.scan
           /\ [s EXCEPT !.missed = TRUE] \in Locals /\ [s EXCEPT !.missed = TRUE].scan = s.scan
           /\ [s EXCEPT !.alone = FALSE] \in Locals /\ [s EXCEPT !.alone = FALSE].scan = s.scan
  BY DEF Locals

\* The calls that may be owed.
LEMMA OwedCalls ==
    ASSUME NEW c \in Callers, NEW t \in Accounts \cup Providers \cup {NoAccount, NoProvider},
           NEW level \in Levels
    PROVE  Owed(c, level, t) \in StoreCalls /\ CountCall(t) \in StoreCalls
  BY DEF Owed, Bind, Nothing, CountCall, StoreCalls

LEMMA EachStepHolds ==
    ASSUME IInv, IInv', SelShape, EachHolds, [SelNext]_allvars
    PROVE  SelShape' /\ EachHolds'
  <1> DEFINE CountedUp == /\ calls' \in [Accounts -> Nat]
                          /\ \A a \in Accounts : calls[a] <= calls'[a]
  <1>0. UNCHANGED calls => CountedUp
    BY DEF SelShape
  <1>a. \A c \in Callers : /\ sel[c] \in Locals /\ Holds(sel[c], calls)
                           /\ call[c] \in Call /\ call'[c] \in Call
    BY DEF SelShape, EachHolds, IInv, TypeOK
  <1>b. UNCHANGED <<conf, calls, sel, bound, served>> => SelShape' /\ EachHolds'
    BY DEF SelShape, EachHolds
  <1>c. UNCHANGED served => DOMAIN served' = People
    BY DEF SelShape
  <1>d. ASSUME NEW c \in Callers, NEW s \in Locals, Sets(c, s), UNCHANGED <<conf, calls, bound>>,
               Holds(s, calls), DOMAIN served' = People
        PROVE  SelShape' /\ EachHolds'
    <2>1. DOMAIN bound' = Levels
      BY <1>d DEF SelShape
    <2> QED BY <1>d, <1>0, <2>1, OneSelects
  <1>e. ASSUME NEW c \in Callers, NEW s \in Locals, Sets(c, s), UNCHANGED <<conf, calls, bound>>,
               s.scan = sel[c].scan \/ s.scan = NoScan, DOMAIN served' = People
        PROVE  SelShape' /\ EachHolds'
    <2>1. Holds(s, calls)
      BY <1>a, <1>e DEF Holds, NoScan
    <2> QED BY <1>d, <1>e, <2>1
  <1>1. ASSUME NEW c \in Callers, ListCounts(c)
        PROVE  SelShape' /\ EachHolds'
    <2> DEFINE n == [p \in Providers |-> Cardinality({a \in avail : Home[a] = p})]
               s == [sel[c] EXCEPT !.listed = n]
    <2>1. n \in [Providers -> Sizes]
      BY DEF Sizes, IInv, TypeOK
    <2>2. s \in Locals /\ s.scan = sel[c].scan
      BY <1>a, <2>1 DEF Locals
    <2>3. Sets(c, s) /\ UNCHANGED <<conf, calls, bound, served>>
      BY <1>1 DEF ListCounts
    <2> HIDE DEF s
    <2> QED BY <1>c, <1>e, <2>2, <2>3
  <1>2. ASSUME NEW c \in Callers, GroupSelect(c)
        PROVE  SelShape' /\ EachHolds'
    <2> DEFINE n == Owed(c, "group", call'[c].prov)
               s == [sel[c] EXCEPT !.missed = FALSE, !.next = n]
    <2>0. call'[c].prov \in Accounts \cup Providers \cup {NoAccount, NoProvider}
      BY <1>a DEF Call
    <2>1. n \in StoreCalls
      BY <2>0, OwedCalls DEF Levels
    <2>2. s \in Locals /\ s.scan = sel[c].scan
      BY <1>a, <2>1, Rewanted
    <2>3. UNCHANGED sel \/ Sets(c, s)
      BY <1>2 DEF GroupSelect
    <2>4. UNCHANGED <<conf, calls, bound, served>>
      BY <1>2 DEF GroupSelect
    <2> HIDE DEF s
    <2> QED BY <1>b, <1>c, <1>e, <2>2, <2>3, <2>4
  <1>3. ASSUME NEW c \in Callers, Select(c)
        PROVE  SelShape' /\ EachHolds'
    <2> DEFINE as == Choices(call[c])
    <2>0. UNCHANGED <<conf, calls, bound, served>> /\ as \subseteq Accounts
      BY <1>3, <1>a DEF Select, Choices, Call
    <2>h. Hit(c, "acct", as) \subseteq as
      BY DEF Hit
    <2>1. ASSUME NEW a \in as, Sets(c, [sel[c] EXCEPT !.want = a])
          PROVE  SelShape' /\ EachHolds'
      <3> DEFINE s == [sel[c] EXCEPT !.want = a]
      <3>1. s \in Locals /\ s.scan = sel[c].scan
        BY <1>a, <2>0 DEF Locals
      <3>2. Sets(c, s)
        BY <2>1
      <3> HIDE DEF s
      <3> QED BY <1>c, <1>e, <2>0, <3>1, <3>2
    <2>2. ASSUME NEW a \in as,
                 Sets(c, [sel[c] EXCEPT !.missed = FALSE, !.want = a, !.next = Owed(c, "acct", a)])
          PROVE  SelShape' /\ EachHolds'
      <3> DEFINE s == [sel[c] EXCEPT !.missed = FALSE, !.want = a, !.next = Owed(c, "acct", a)]
      <3>0. Owed(c, "acct", a) \in StoreCalls /\ a \in Accounts
        BY <2>0, OwedCalls DEF Levels
      <3> DEFINE z(n) == [sel[c] EXCEPT !.missed = FALSE, !.want = a, !.next = n]
      <3>k. \A n \in StoreCalls : z(n) \in Locals /\ z(n).scan = sel[c].scan
        BY <1>a, <3>0 DEF Locals
      <3>1. s \in Locals /\ s.scan = sel[c].scan
        BY <3>0, <3>k
      <3>2. Sets(c, s)
        BY <2>2
      <3> HIDE DEF s
      <3> QED BY <1>c, <1>e, <2>0, <3>1, <3>2
    <2>3. ASSUME Sets(c, [sel[c] EXCEPT !.missed = FALSE, !.scan = [NoScan EXCEPT !.on = TRUE]])
          PROVE  SelShape' /\ EachHolds'
      <3> DEFINE t == [NoScan EXCEPT !.on = TRUE]
                 s == [sel[c] EXCEPT !.missed = FALSE, !.scan = t]
      <3>1. t \in Scans /\ t.kept = {} /\ t.seen = {}
        BY FreshLocals DEF Scans, NoScan
      <3>2. s \in Locals /\ s.scan = t
        BY <1>a, <3>1 DEF Locals
      <3>3. Holds(s, calls)
        BY <3>1, <3>2 DEF Holds
      <3>4. Sets(c, s)
        BY <2>3
      <3> HIDE DEF s
      <3> QED BY <1>c, <1>d, <2>0, <3>2, <3>3, <3>4
    <2>4. Fallback("acct") # "least_used" => Simple(as) \subseteq as
      BY SimpleChooses DEF SelShape
    <2> QED BY <1>3, <2>h, <2>1, <2>2, <2>3, <2>4 DEF Select
  <1>4. ASSUME NEW c \in Callers, ScanNext(c)
        PROVE  SelShape' /\ EachHolds'
    <2>0. UNCHANGED <<conf, calls, bound, served>> /\ Choices(call[c]) \subseteq Accounts
      BY <1>4, <1>a DEF ScanNext, Choices, Call
    <2>1. PICK a \in Choices(call[c]), failed \in BOOLEAN :
             \E n \in {calls[a], 0} : Look(c, a, n, failed) /\ (n = calls[a] \/ failed)
      BY <1>4 DEF ScanNext
    <2>2. PICK n \in {calls[a], 0} : Look(c, a, n, failed) /\ (n = calls[a] \/ failed)
      BY <2>1
    <2> DEFINE s == sel[c].scan
               t == [s EXCEPT !.seen = @ \cup {a}, !.kept = @ \cup {a}, !.blind = @ \/ failed]
               v == IF Beats(s, a, n) THEN [t EXCEPT !.best = a, !.least = n] ELSE t
               z == [sel[c] EXCEPT !.scan = v]
    <2>3. a \in Accounts /\ n \in Nat /\ calls[a] \in Nat /\ s \in Scans
      BY <1>a, <2>0 DEF SelShape, Locals
    <2>4. /\ t \in Scans /\ t.seen = s.seen \cup {a} /\ t.kept = s.kept \cup {a}
          /\ t.least = s.least /\ (~t.blind => ~s.blind /\ ~failed)
      BY <2>3 DEF Scans
    <2>5. v \in Scans /\ v.seen = t.seen /\ v.kept = t.kept /\ v.blind = t.blind
          /\ v.least = IF Beats(s, a, n) THEN n ELSE s.least
      BY <2>3, <2>4 DEF Scans
    <2>6. z \in Locals /\ z.scan = v /\ Sets(c, z)
      BY <1>a, <2>2, <2>5 DEF Locals, Look
    <2>7. Holds(z, calls)
      <3>0. s.kept \subseteq s.seen
        BY <1>a DEF Holds
      <3>k. v.kept \subseteq v.seen
        BY <2>4, <2>5, <3>0
      <3> SUFFICES ASSUME ~v.blind, NEW b \in v.kept PROVE v.least <= calls[b]
        BY <2>6, <3>k DEF Holds
      <3>1. ~s.blind /\ ~failed /\ n = calls[a]
        BY <2>2, <2>4, <2>5
      <3>2. b \in s.kept => s.least <= calls[b] /\ s.seen # {}
        BY <1>a, <3>0, <3>1 DEF Holds
      <3>3. s.least \in Nat /\ b \in Accounts /\ calls[b] \in Nat /\ (b = a \/ b \in s.kept)
        BY <2>3, <2>4, <2>5 DEF Scans, SelShape
      <3>4. CASE Beats(s, a, n)
        BY <2>3, <2>5, <3>1, <3>2, <3>3, <3>4 DEF Beats
      <3>5. CASE ~Beats(s, a, n)
        BY <2>3, <2>5, <3>1, <3>2, <3>3, <3>5 DEF Beats
      <3> QED BY <3>4, <3>5
    <2> HIDE DEF z
    <2> QED BY <1>c, <1>d, <2>0, <2>6, <2>7
  <1>5. ASSUME NEW c \in Callers, ScanEnds(c)
        PROVE  SelShape' /\ EachHolds'
    <2> DEFINE b == sel[c].scan.best
               s == [sel[c] EXCEPT !.want = b, !.next = Owed(c, "acct", b)]
    <2>1. s \in Locals /\ s.scan = sel[c].scan
      <3>1. b \in Accounts \cup {NoAccount}
        BY <1>a DEF Locals, Scans
      <3> QED BY <1>a, <3>1, OwedCalls, Rewanted DEF Levels
    <2>2. Sets(c, s) /\ UNCHANGED <<conf, calls, bound, served>>
      BY <1>5 DEF ScanEnds
    <2> HIDE DEF s
    <2> QED BY <1>c, <1>e, <2>1, <2>2
  <1>6. ASSUME NEW c \in Callers, Acquire(c)
        PROVE  SelShape' /\ EachHolds'
    <2> DEFINE s == [sel[c] EXCEPT !.want = NoAccount, !.scan = NoScan]
    <2>1. s \in Locals /\ s.scan = NoScan
      BY <1>a, FreshLocals DEF Locals
    <2>2. Sets(c, s) /\ UNCHANGED <<conf, calls, bound, served>>
      BY <1>6 DEF Acquire
    <2> HIDE DEF s
    <2> QED BY <1>c, <1>e, <2>1, <2>2
  <1>7. ASSUME NEW c \in Callers, ReportCall(c)
        PROVE  SelShape' /\ EachHolds'
    <2> DEFINE n == CountCall(call[c].acct)
               s == [sel[c] EXCEPT !.next = n]
    <2>1. n \in StoreCalls
      BY <1>a, OwedCalls DEF Call, Levels
    <2>2. s \in Locals /\ s.scan = sel[c].scan
      BY <1>a, <2>1, Rewanted
    <2>3. Sets(c, s) /\ UNCHANGED <<conf, calls, bound, served>>
      BY <1>7 DEF ReportCall
    <2> HIDE DEF s
    <2> QED BY <1>c, <1>e, <2>2, <2>3
  <1>8. ASSUME NEW c \in Callers, IncrCalls(c)
        PROVE  SelShape' /\ EachHolds'
    <2> DEFINE s == [sel[c] EXCEPT !.next = Nothing]
               a == sel[c].next.target
    <2>1. s \in Locals /\ s.scan = sel[c].scan
      BY <1>a, FreshLocals, Rewanted
    <2>2. /\ Sets(c, s) /\ UNCHANGED <<conf, bound, served>>
          /\ calls' = [calls EXCEPT ![a] = @ + 1] \/ UNCHANGED calls
      BY <1>8 DEF IncrCalls
    <2>3. CountedUp
      BY <1>0, <2>2 DEF SelShape
    <2>4. Holds(s, calls')
      <3>1. Holds(s, calls)
        BY <1>a, <2>1 DEF Holds
      <3> HIDE DEF s
      <3> QED BY <2>1, <2>3, <3>1, HoldsOn DEF SelShape
    <2>5. DOMAIN bound' = Levels /\ DOMAIN served' = People
      BY <2>2 DEF SelShape
    <2> HIDE DEF s
    <2> QED BY <2>1, <2>2, <2>3, <2>4, <2>5, OneSelects
  <1>9. ASSUME UNCHANGED <<conf, calls>>, DOMAIN bound' = Levels, DOMAIN served' = People,
               DOMAIN sel' = Callers, sel' = [d \in Callers |-> sel'[d]],
               \A d \in Callers : /\ sel'[d] \in Locals
                                  /\ sel'[d].scan = sel[d].scan \/ sel'[d].scan = NoScan
        PROVE  SelShape' /\ EachHolds'
    <2>1. \A d \in Callers : Holds(sel'[d], calls)
      BY <1>a, <1>9 DEF Holds, NoScan
    <2> QED BY <1>9, <2>1 DEF SelShape, EachHolds
  <1>10. ASSUME NEW c \in Callers, NEW r \in Asked, BeginSelecting(c, r)
         PROVE  SelShape' /\ EachHolds'
    <2> DEFINE lone(d) == [sel[d] EXCEPT !.alone = FALSE]
               new(b) == [FreshSel EXCEPT !.alone = b]
    <2>1. \A d \in Callers : lone(d) \in Locals /\ lone(d).scan = sel[d].scan
      BY <1>a, Rewanted
    <2>2. \A b \in BOOLEAN : new(b) \in Locals /\ new(b).scan = NoScan
      BY FreshLocals DEF FreshSel, Locals
    <2>3. /\ DOMAIN sel' = Callers /\ sel' = [d \in Callers |-> sel'[d]]
          /\ \E b \in BOOLEAN : sel'[c] = new(b)
          /\ \A d \in Callers \ {c} : sel'[d] = lone(d) \/ sel'[d] = sel[d]
      BY <1>10 DEF BeginSelecting
    <2>4. UNCHANGED <<conf, calls, bound>> /\ DOMAIN served' = People /\ DOMAIN bound' = Levels
      BY <1>10 DEF BeginSelecting, SelShape
    <2> HIDE DEF lone, new
    <2>5. \A d \in Callers : /\ sel'[d] \in Locals
                             /\ sel'[d].scan = sel[d].scan \/ sel'[d].scan = NoScan
      BY <1>a, <2>1, <2>2, <2>3
    <2> QED BY <1>9, <2>3, <2>4, <2>5
  <1>11. ASSUME NEW c \in Callers, MakeBinding(c)
         PROVE  SelShape' /\ EachHolds'
    <2> DEFINE rest(d) == [sel[d] EXCEPT !.next = Nothing]
               lone(s) == [s EXCEPT !.alone = FALSE]
    <2>1. ASSUME NEW s \in Locals
          PROVE  lone(s) \in Locals /\ lone(s).scan = s.scan
      BY Rewanted
    <2>2. ASSUME NEW d \in Callers
          PROVE  /\ rest(d) \in Locals /\ rest(d).scan = sel[d].scan
      BY <1>a, FreshLocals, Rewanted
    <2>3. /\ DOMAIN sel' = Callers /\ sel' = [d \in Callers |-> sel'[d]]
          /\ \A d \in Callers : sel'[d] \in {sel[d], rest(d), lone(sel[d]), lone(rest(d))}
      BY <1>11 DEF MakeBinding, SelShape
    <2>4. UNCHANGED <<conf, calls>> /\ DOMAIN served' = People /\ DOMAIN bound' = Levels
      BY <1>11 DEF MakeBinding, SelShape
    <2> HIDE DEF lone, rest
    <2>5. \A d \in Callers : sel'[d] \in Locals /\ sel'[d].scan = sel[d].scan
      BY <1>a, <2>1, <2>2, <2>3
    <2> QED BY <1>9, <2>3, <2>4, <2>5
  <1>12. ASSUME NEW c \in Callers, Proceed(c)
         PROVE  SelShape' /\ EachHolds'
    <2>1. UNCHANGED <<conf, bound, calls, sel>> /\ DOMAIN served' = People
      BY <1>12 DEF Proceed, SelShape
    <2> QED BY <2>1 DEF SelShape, EachHolds
  <1>14. ASSUME NEW c \in Callers, LookupFails(c)
         PROVE  SelShape' /\ EachHolds'
    <2> DEFINE s == [sel[c] EXCEPT !.missed = TRUE]
    <2>1. s \in Locals /\ s.scan = sel[c].scan
      BY <1>a, Rewanted
    <2>2. Sets(c, s) /\ UNCHANGED <<conf, calls, bound, served>>
      BY <1>14 DEF LookupFails
    <2> HIDE DEF s
    <2> QED BY <1>c, <1>e, <2>1, <2>2
  <1>15. ASSUME NEW a \in Accounts, RemoveStats(a)
         PROVE  SelShape' /\ EachHolds'
    <2> DEFINE t(d) == [sel[d].scan EXCEPT !.kept = sel[d].scan.kept \ {a}]
    <2>1. /\ UNCHANGED <<conf, bound, served>> /\ calls' = [calls EXCEPT ![a] = 0]
          /\ sel' = [d \in Callers |-> [sel[d] EXCEPT !.scan.kept = @ \ {a}]]
      BY <1>15 DEF RemoveStats
    <2>2. ASSUME NEW d \in Callers
          PROVE  /\ t(d) \in Scans /\ t(d).kept = sel[d].scan.kept \ {a}
                 /\ t(d).seen = sel[d].scan.seen /\ t(d).least = sel[d].scan.least
                 /\ t(d).blind = sel[d].scan.blind
      <3>1. sel[d].scan \in Scans
        BY <1>a DEF Locals
      <3> QED BY <3>1 DEF Scans
    <2>3. ASSUME NEW d \in Callers
          PROVE  sel'[d] \in Locals /\ sel'[d].scan = t(d)
      <3>1. sel'[d] = [sel[d] EXCEPT !.scan = t(d)]
        BY <1>a, <2>1 DEF Locals
      <3> HIDE DEF t
      <3> QED BY <1>a, <2>2, <3>1 DEF Locals
    <2> HIDE DEF t
    <2>4. ASSUME NEW d \in Callers
          PROVE  Holds(sel'[d], calls')
      <3>1. Holds(sel[d], calls) /\ sel[d].scan.kept \subseteq Accounts
        BY <1>a DEF Locals, Scans
      <3>2. \A b \in Accounts \ {a} : calls'[b] = calls[b]
        BY <2>1 DEF SelShape
      <3> QED BY <2>2, <2>3, <3>1, <3>2 DEF Holds
    <2>5. calls' \in [Accounts -> Nat] /\ DOMAIN sel' = Callers /\ sel' = [d \in Callers |-> sel'[d]]
      BY <2>1 DEF SelShape
    <2> QED BY <2>1, <2>3, <2>4, <2>5 DEF SelShape, EachHolds
  <1>13. CASE UNCHANGED selvars
    BY <1>b, <1>13 DEF selvars
  <1> QED BY <1>1, <1>2, <1>3, <1>4, <1>5, <1>6, <1>7, <1>8, <1>10, <1>11, <1>12, <1>13,
             <1>14, <1>15 DEF SelNext, SelStep, allvars

\* So do the first states, and the steps of Pick are those that were proved about.
SelInv == PickInv /\ SelShape /\ EachHolds

LEMMA SelInvHolds == SelSpec => []SelInv
  <1>1. SelInit => SelShape /\ EachHolds
    <2> SUFFICES ASSUME SelInit PROVE SelShape /\ EachHolds
      OBVIOUS
    <2>1. /\ conf \in Configurations /\ calls \in [Accounts -> Nat]
          /\ DOMAIN bound = Levels /\ DOMAIN served = People
      BY ConfsAreBuildable DEF SelInit
    <2>2. sel \in [Callers -> Locals] /\ \A c \in Callers : sel[c].scan.kept = {}
      <3>1. FreshSel.scan.kept = {}
        BY DEF FreshSel, NoScan
      <3> QED BY <3>1, FreshLocals DEF SelInit
    <2> QED BY <2>1, <2>2 DEF SelShape, EachHolds, Holds
  <1>2. PickInv /\ PickInv' /\ SelShape /\ EachHolds /\ [SelNext]_allvars
           => SelShape' /\ EachHolds'
    BY EachStepHolds DEF PickInv
  <1>3. SelSpec => SelInit /\ [][SelNext]_allvars
    BY PTL DEF SelSpec
  <1> QED BY <1>1, <1>2, <1>3, PickHolds, PTL DEF SelInv

\* LeastUsed reads its candidates one after the other while calls are counted and accounts
\* removed behind its back; still no candidate it could read and whose statistics exist has
\* fewer calls than the one it holds best had when it was read.  For any number of callers
\* and candidates.
THEOREM LeastUsed == SelSpec => []LeastUsedHolds
  <1>1. SelInv => LeastUsedHolds
    BY DEF SelInv, EachHolds, Holds, LeastUsedHolds
  <1> QED BY <1>1, SelInvHolds, PTL

-----------------------------------------------------------------------------
\* Affinity, under configuration k, for a person w that is bound to B[level].  What a caller's
\* selectors have under way fits where its Pick is.
Tied(k, w, x, s) ==
    /\ s.want # NoAccount => x.pc = "select" /\ s.want \in Choices(x)
    /\ s.scan.on => /\ x.pc = "select" /\ Choices(x) # {} /\ s.scan.seen \subseteq Choices(x)
                    /\ s.scan.seen # {} => s.scan.best \in s.scan.seen
    /\ s.scan.on /\ s.want = NoAccount => s.next = Nothing
    /\ s.next.op = "bind" =>
          /\ k[s.next.level] = "affinity" /\ w.user # NoUser
          /\ \/ s.next = Bind("acct", s.want) /\ s.want # NoAccount
             \/ s.next = Bind("group", x.prov) /\ x.pc = "accounts"

\* A Pick that runs alone for its key is bound to what it has chosen, or is about to be.
Settled == {"accounts", "filter", "select"} \cup Slot
Promised(k, B, x, s) ==
    s.alone =>
       /\ k.acct = "affinity" =>
             /\ s.want # NoAccount => s.next = Bind("acct", s.want) \/ B["acct"] = {s.want}
             /\ x.pc = "stamp" => B["acct"] = {x.acct}
       /\ k.group = "affinity" /\ x.auto /\ x.pc \in Settled =>
             s.next = Bind("group", x.prov) \/ B["group"] = {x.prov}

\* What the service v of a person promises.
Followed(k, B, v) == /\ k.acct = "affinity" /\ v.acct # NoAccount => B["acct"] = {v.acct}
                     /\ k.group = "affinity" /\ v.prov # NoProvider => B["group"] = {v.prov}

Bindings(w) == [l \in Levels |-> Bound(l, w)]
EachTied == \A c \in Callers : Tied(conf, Who[c], call[c], sel[c])
EachPromised ==
    ~Collides => \A c \in Callers :
        Who[c].user # NoUser => Promised(conf, Bindings(Who[c]), call[c], sel[c])
EachFollowed ==
    ~Collides => \A w \in People :
        w.user # NoUser => Followed(conf, Bindings(w), served[w])

\* Two Picks under one key are not alone, and what people were served with is forgotten
\* while another Pick runs under their key.
Solo == \A c, d \in Callers :
           c # d /\ SameKey(Who[c], Who[d]) /\ InPick(c) /\ InPick(d) => ~sel[c].alone
Rested == \A c \in Callers : InPick(c) =>
             \A u \in People : SameKey(u, Who[c]) => served[u] = Unserved

AffinityInv == EachTied /\ EachPromised /\ EachFollowed /\ Solo /\ Rested

-----------------------------------------------------------------------------
\* Unless the levels collide, they have stores of their own.
LEMMA StoresDiffer ==
    ASSUME conf \in Configurations, ~Collides, conf["acct"] = "affinity", conf["group"] = "affinity"
    PROVE  StoreOf("acct") # StoreOf("group")
  BY DEF Collides, StoreOf, Configurations

\* What is bound depends on the bindings only.
LEMMA BoundStays ==
    ASSUME UNCHANGED <<conf, bound>>
    PROVE  Collides' = Collides /\ \A w : Bindings(w)' = Bindings(w)
  BY DEF Collides, Bindings, Bound, StoreOf

\* A step that binds v to t.
Binds(level, v, t) ==
    /\ conf[level] = "affinity" /\ v.user # NoUser /\ UNCHANGED conf
    /\ bound' = [bound EXCEPT ![StoreOf(level)] =
                    SetAffinity(bound[StoreOf(level)], AffinityKey(v), t)]

\* A binding that is made holds, and unless one was spilled the others hold still.
LEMMA BindingMade ==
    ASSUME SelShape, NEW level \in Levels, NEW v, NEW t, Binds(level, v, t)
    PROVE  /\ Bound(level, v)' = {t}
           /\ \A l \in Levels : \A w : StoreOf(l) # StoreOf(level) => Bound(l, w)' = Bound(l, w)
           /\ DOMAIN bound[StoreOf(level)] \subseteq DOMAIN bound'[StoreOf(level)] =>
                 \A l \in Levels : \A w :
                    AffinityKey(w) # AffinityKey(v) => Bound(l, w)' = Bound(l, w)
  <1> DEFINE st == StoreOf(level)
             old == bound[st]
             new == SetAffinity(old, AffinityKey(v), t)
  <1> USE DEF Binds
  <1>0. /\ \A l \in Levels : StoreOf(l) \in Levels /\ StoreOf(l)' = StoreOf(l)
        /\ DOMAIN bound = Levels
    BY DEF SelShape, StoreOf, Levels
  <1>1. \A s \in Levels : bound'[s] = IF s = st THEN new ELSE bound[s]
    BY <1>0
  <1>2. /\ AffinityKey(v) \in DOMAIN new /\ new[AffinityKey(v)] = t
        /\ DOMAIN old \subseteq DOMAIN new =>
              \A k : k # AffinityKey(v) => /\ k \in DOMAIN new <=> k \in DOMAIN old
                                           /\ k \in DOMAIN old => new[k] = old[k]
    BY DEF SetAffinity, Emptied
  <1> HIDE DEF new, old
  <1>3. Bound(level, v)' = {t}
    <2>1. bound'[st] = new
      BY <1>0, <1>1
    <2> QED BY <1>0, <1>2, <2>1 DEF Bound
  <1>4. ASSUME NEW l \in Levels, NEW w, StoreOf(l) # st
        PROVE  Bound(l, w)' = Bound(l, w)
    BY <1>0, <1>1, <1>4 DEF Bound
  <1>5. ASSUME DOMAIN old \subseteq DOMAIN new, NEW l \in Levels, NEW w,
               AffinityKey(w) # AffinityKey(v), StoreOf(l) = st
        PROVE  Bound(l, w)' = Bound(l, w)
    <2> DEFINE k == AffinityKey(w)
    <2>1. bound'[st] = new /\ bound[st] = old
      BY <1>0, <1>1 DEF old
    <2>2. (k \in DOMAIN new <=> k \in DOMAIN old) /\ (k \in DOMAIN old => new[k] = old[k])
      BY <1>2, <1>5
    <2> QED BY <1>0, <1>5, <2>1, <2>2 DEF Bound
  <1>6. bound'[st] = new /\ bound[st] = old
    BY <1>0, <1>1 DEF old
  <1> QED BY <1>3, <1>4, <1>5, <1>6
-----------------------------------------------------------------------------
\* Two states of a Pick that differ in nothing that matters here.
Alike(x, y) == /\ y.pc = x.pc /\ y.auto = x.auto /\ y.prov = x.prov /\ y.acct = x.acct
               /\ Choices(y) = Choices(x)
OnlyMoves(c) == \A d \in Callers \ {c} : Alike(call[d], call'[d])

\* They keep the same invariants, and giving up being alone does no harm.
LEMMA AlikeKeeps ==
    ASSUME NEW x, NEW y, Alike(x, y), NEW s, NEW t,
           t.want = s.want, t.scan.on = s.scan.on, t.scan.seen = s.scan.seen,
           t.scan.best = s.scan.best, t.next = s.next, t.alone => s.alone
    PROVE  /\ \A k, w : Tied(k, w, x, s) => Tied(k, w, y, t)
           /\ \A k, B : Promised(k, B, x, s) => Promised(k, B, y, t)
  BY DEF Alike, Tied, Promised

\* What a step of one caller does to the others, and, calm apart, to itself.
Blurred(x) == {x, [x EXCEPT !.calm = FALSE]}
LEMMA OthersAlike ==
    ASSUME call \in [Callers -> Call], NEW c \in Callers, NEW y,
           \/ Local(c, y)
           \/ Visible(c, y)
           \/ call' = [call EXCEPT ![c] = [y EXCEPT !.calm = FALSE]]
    PROVE  OnlyMoves(c) /\ call'[c] \in Blurred(y)
  <1>1. ASSUME NEW x \in Call
        PROVE  Alike(x, x) /\ Alike(x, [x EXCEPT !.calm = FALSE])
    BY DEF Call, Alike, Choices
  <1>2. ASSUME NEW d \in Callers \ {c}
        PROVE  call'[d] \in {call[d], [call[d] EXCEPT !.calm = FALSE]}
    BY DEF Local, Visible
  <1>3. call'[c] \in Blurred(y)
    BY DEF Local, Visible, Blurred
  <1>4. ASSUME NEW d \in Callers \ {c}
        PROVE  Alike(call[d], call'[d])
    <2>1. call[d] \in Call
      OBVIOUS
    <2> QED BY <2>1, <1>1, <1>2
  <1> QED BY <1>3, <1>4 DEF OnlyMoves

\* Errors end the choice of an account.
Errant(x, z) == \E e : z \in {ProviderFails(x, e), ExactFails(x, e), AutoFails(x, e)}

LEMMA ErrorsMove ==
    ASSUME NEW x \in Call, NEW z, Errant(x, z)
    PROVE  \A y \in Blurred(z) : y.pc \in {"list", "group", "failed"}
  <1>0. SUFFICES ASSUME NEW y \in Blurred(z)
                 PROVE  y.pc \in {"list", "group", "failed"}
    OBVIOUS
  <1>a. PICK e : z \in {ProviderFails(x, e), ExactFails(x, e), AutoFails(x, e)}
    BY DEF Errant
  <1> USE DEF Blurred
  <1>1. \A f : Fails(x, f).pc = "failed" /\ [Fails(x, f) EXCEPT !.calm = FALSE].pc = "failed"
    BY DEF Fails, Idle
  <1>2. ASSUME z = ExactFails(x, e)
        PROVE  y.pc \in {"list", "group", "failed"}
    BY <1>1, <1>2, ZenonT(40) DEF ExactFails, Call
  <1>3. ASSUME z = AutoFails(x, e)
        PROVE  y.pc \in {"list", "group", "failed"}
    BY <1>1, <1>3 DEF AutoFails
  <1>4. ASSUME z = ProviderFails(x, e)
        PROVE  y.pc \in {"list", "group", "failed"}
    BY <1>2, <1>3, <1>4 DEF ProviderFails, Call
  <1> QED BY <1>a, <1>2, <1>3, <1>4

\* The steps of a Pick that choose nothing.
Continues(x, y) ==
    \/ y.pc \in {"list", "group", "failed"}
    \/ x.pc = "stamp" /\ y.pc = "held"
    \/ x.pc = "exact" /\ y.pc = "accounts" /\ y.auto = x.auto
    \/ /\ x.pc \in Settled \ {"select"} /\ y.pc \in {"filter", "select", "giveback"}
       /\ y.auto = x.auto /\ y.prov = x.prov

LEMMA WorkingMoves ==
    ASSUME call \in [Callers -> Call], NEW c \in Callers, Working(c)
    PROVE  /\ OnlyMoves(c) /\ InPick(c)
           /\ call[c].pc = "select" => Choices(call[c]) = {}
           /\ Continues(call[c], call'[c])
  <1> DEFINE x == call[c]
             Moved == OnlyMoves(c) /\ Continues(x, call'[c])
  <1>a. InPick(c) /\ (x.pc = "select" => Choices(x) = {})
    BY DEF Working, InPick, ResolveExact, Cancel, ReadAccounts, FilterAvailable, SelectNone, Undo,
           Return, StampFails, GiveBack, ReadFails
  <1>b. SUFFICES Moved
    BY <1>a
  <1>0. x \in Call
    OBVIOUS
  <1>1. ASSUME NEW z, Errant(x, z), Local(c, z) \/ Broken(c, z)
        PROVE  Moved
    <2>1. OnlyMoves(c) /\ call'[c] \in Blurred(z)
      BY <1>1, OthersAlike DEF Broken
    <2> QED BY <1>0, <1>1, <2>1, ErrorsMove DEF Continues
  <1>2. ASSUME NEW z \in Call, Local(c, z) \/ Broken(c, z) \/ Visible(c, z), Continues(x, z)
        PROVE  Moved
    <2>1. OnlyMoves(c) /\ call'[c] \in Blurred(z)
      BY <1>2, OthersAlike DEF Broken
    <2>2. Continues(x, [z EXCEPT !.calm = FALSE])
      BY <1>2 DEF Continues, Call
    <2> QED BY <1>2, <2>1, <2>2 DEF Blurred
  <1>3. CASE ResolveExact(c)
    <2> DEFINE z == [x EXCEPT !.pc = "accounts", !.prov = x.req.key]
               e == ExactError(x.req.key)
    <2>1. CASE e = "none"
      <3>1. x.pc = "exact" /\ Local(c, z)
        BY <1>3, <2>1 DEF ResolveExact
      <3>2. OnlyMoves(c) /\ call'[c] \in Blurred(z)
        BY <3>1, OthersAlike
      <3>3. \A y \in Blurred(z) : y.pc = "accounts" /\ y.auto = x.auto
        BY <1>0 DEF Call, Blurred
      <3> QED BY <3>1, <3>2, <3>3 DEF Continues
    <2>2. CASE e # "none"
      BY <1>3, <1>1, <2>2 DEF ResolveExact, Errant
    <2> QED BY <2>1, <2>2
  <1>4. CASE Cancel(c)
    <2> DEFINE w == [x EXCEPT !.calm = FALSE]
               z == AutoFails(w, "Canceled")
    <2>1. w \in Call /\ Local(c, z)
      BY <1>0, <1>4 DEF Call, Cancel
    <2>2. OnlyMoves(c) /\ call'[c] \in Blurred(z)
      BY <2>1, OthersAlike
    <2> QED BY <2>1, <2>2, ErrorsMove DEF Continues, Errant
  <1>5. CASE ReadAccounts(c)
    <2> DEFINE as == {a \in avail : Home[a] = x.prov}
               z == [x EXCEPT !.pc = "filter", !.pool = as]
    <2>1. CASE as = {}
      BY <1>1, <1>5, <2>1 DEF ReadAccounts, Errant
    <2>2. CASE as # {}
      <3>1. x.pc = "accounts" /\ Local(c, z)
        BY <1>5, <2>2 DEF ReadAccounts
      <3>2. OnlyMoves(c) /\ call'[c] \in Blurred(z)
        BY <3>1, OthersAlike
      <3>3. \A y \in Blurred(z) :
               y.pc = "filter" /\ y.auto = x.auto /\ y.prov = x.prov
        BY <1>0 DEF Call, Blurred
      <3> QED BY <3>1, <3>2, <3>3 DEF Continues, Settled, Slot
    <2> QED BY <2>1, <2>2
  <1>6. CASE FilterAvailable(c)
    <2> DEFINE free == {a \in x.pool : occ[a] < Limit[a]}
               z == [x EXCEPT !.pc = "select", !.pool = free]
    <2>1. CASE free = {}
      BY <1>1, <1>6, <2>1 DEF FilterAvailable, Errant
    <2>2. CASE free # {}
      <3>1. x.pc = "filter" /\ Local(c, z)
        BY <1>6, <2>2 DEF FilterAvailable
      <3>2. z \in Call /\ z.pc = "select" /\ z.auto = x.auto /\ z.prov = x.prov
        BY <1>0 DEF Call, PcValues
      <3> HIDE DEF z
      <3> QED BY <1>2, <3>1, <3>2 DEF Continues, Settled, Slot
    <2> QED BY <2>1, <2>2
  <1>7. CASE SelectNone(c)
    BY <1>1, <1>7 DEF SelectNone, Errant
  <1>8. CASE Undo(c) \/ GiveBack(c)
    <2> DEFINE z == NextAttempt(x)
    <2>1. x.pc \in {"undo", "giveback"} /\ Visible(c, z)
      BY <1>8 DEF Undo, GiveBack
    <2>2. OnlyMoves(c) /\ call'[c] \in Blurred(z)
      BY <2>1, OthersAlike
    <2>3. \A y \in Blurred(z) :
             y.pc = "select" /\ y.auto = x.auto /\ y.prov = x.prov
      BY <1>0, ZenonT(40) DEF Call, NextAttempt, Blurred
    <2> QED BY <2>1, <2>2, <2>3 DEF Continues, Settled, Slot
  <1>9. CASE Return(c)
    <2> DEFINE z == [Idle EXCEPT !.pc = "held", !.req = x.req, !.prov = x.prov, !.acct = x.acct]
    <2>1. x.pc = "stamp" /\ Local(c, z)
      BY <1>9 DEF Return
    <2>2. OnlyMoves(c) /\ call'[c] \in Blurred(z)
      BY <2>1, OthersAlike
    <2>3. \A y \in Blurred(z) : y.pc = "held"
      BY DEF Idle, Blurred
    <2> QED BY <2>1, <2>2, <2>3 DEF Continues
  <1>10. CASE StampFails(c)
    <2> DEFINE z == [x EXCEPT !.pc = "giveback"]
    <2>1. x.pc = "stamp" /\ Broken(c, z)
      BY <1>10 DEF StampFails
    <2>2. z \in Call /\ z.pc = "giveback" /\ z.auto = x.auto /\ z.prov = x.prov
      BY <1>0 DEF Call, PcValues
    <2> HIDE DEF z
    <2> QED BY <1>2, <2>1, <2>2 DEF Continues, Settled, Slot
  <1>11. CASE ReadFails(c)
    <2> DEFINE z == [x EXCEPT !.pc = "select"]
    <2>1. CASE x.pc = "filter"
      <3>1. Broken(c, z)
        BY <1>11, <2>1 DEF ReadFails
      <3>2. z \in Call /\ z.pc = "select" /\ z.auto = x.auto /\ z.prov = x.prov
        BY <1>0 DEF Call, PcValues
      <3> HIDE DEF z
      <3> QED BY <1>2, <2>1, <3>1, <3>2 DEF Continues, Settled, Slot
    <2>2. CASE x.pc # "filter"
      BY <1>1, <1>11, <2>2 DEF ReadFails, Errant
    <2> QED BY <2>1, <2>2
  <1> QED BY <1>3, <1>4, <1>5, <1>6, <1>7, <1>8, <1>9, <1>10, <1>11 DEF Working

\* The steps in which a Pick gets a list of providers, a provider or an account; and those
\* that begin a Pick or end what came of it.
LEMMA ChoosingMoves ==
    ASSUME call \in [Callers -> Call], NEW c \in Callers
    PROVE  /\ List(c) => /\ OnlyMoves(c) /\ call[c].pc = "list"
                         /\ call'[c].pc \in {"group", "failed"}
           /\ Group(c) => /\ OnlyMoves(c) /\ call[c].pc = "group"
                          /\ IF call[c].cands \ call[c].tried = {} THEN call'[c].pc = "failed"
                                                                   ELSE call'[c].pc = "accounts"
           /\ \A a : TryAccount(c, a) \/ IncrFails(c, a) =>
                 /\ OnlyMoves(c) /\ call[c].pc = "select"
                 /\ call'[c].auto = call[c].auto /\ call'[c].prov = call[c].prov
                 /\ call'[c].pc \in {"select", "stamp", "undo"}
                 /\ call'[c].pc = "stamp" => call'[c].acct = a
           /\ \A r : Begin(c, r) =>
                 OnlyMoves(c) /\ call[c].pc = "idle" /\ call'[c].pc \in {"exact", "list"}
           /\ Report(c) \/ SeesError(c) =>
                 OnlyMoves(c) /\ call[c].pc \in {"held", "failed"} /\ call'[c].pc = "idle"
  <1> DEFINE x == call[c]
  <1>0. x \in Call
    OBVIOUS
  <1>1. ASSUME List(c)
        PROVE  OnlyMoves(c) /\ x.pc = "list" /\ call'[c].pc \in {"group", "failed"}
    <2> DEFINE ps == {p \in Providers : Candidate(p) /\ AllowsType(x.req, p)}
               e == AutoFails(x, "ModelNotSupported")
               z == [x EXCEPT !.pc = "group", !.cands = ps]
    <2>1. x.pc = "list" /\ (Local(c, e) \/ Local(c, z))
      BY <1>1 DEF List
    <2>2. OnlyMoves(c) /\ (call'[c] \in Blurred(e) \/ call'[c] \in Blurred(z))
      BY <2>1, OthersAlike
    <2>3. \A y \in Blurred(z) : y.pc = "group"
      BY <1>0 DEF Call, Blurred
    <2>4. \A y \in Blurred(e) : y.pc = "failed"
      BY DEF AutoFails, Fails, Idle, Blurred
    <2> QED BY <2>1, <2>2, <2>3, <2>4
  <1>2. ASSUME Group(c)
        PROVE  /\ OnlyMoves(c) /\ x.pc = "group"
               /\ IF x.cands \ x.tried = {} THEN call'[c].pc = "failed"
                                            ELSE call'[c].pc = "accounts"
    <2> DEFINE left == x.cands \ x.tried
               e == AutoFails(x, "NoAvailableProvider")
               z(p) == [x EXCEPT !.pc = "accounts", !.prov = p]
    <2>1. ASSUME left = {}
          PROVE  OnlyMoves(c) /\ call'[c].pc = "failed"
      <3>1. Local(c, e)
        BY <1>2, <2>1 DEF Group
      <3>2. OnlyMoves(c) /\ call'[c] \in Blurred(e)
        BY <3>1, OthersAlike
      <3>3. \A y \in Blurred(e) : y.pc = "failed"
        BY DEF AutoFails, Fails, Idle, Blurred
      <3> QED BY <3>2, <3>3
    <2>2. ASSUME left # {}
          PROVE  OnlyMoves(c) /\ call'[c].pc = "accounts"
      <3>1. PICK p : Local(c, z(p))
        BY <1>2, <2>2 DEF Group
      <3>2. OnlyMoves(c) /\ call'[c] \in Blurred(z(p))
        BY <3>1, OthersAlike
      <3>3. \A y \in Blurred(z(p)) : y.pc = "accounts"
        BY <1>0 DEF Call, Blurred
      <3> QED BY <3>2, <3>3
    <2> QED BY <1>2, <2>1, <2>2 DEF Group
  <1>3. ASSUME NEW a, TryAccount(c, a) \/ IncrFails(c, a)
        PROVE  /\ OnlyMoves(c) /\ x.pc = "select"
               /\ call'[c].auto = x.auto /\ call'[c].prov = x.prov
               /\ call'[c].pc \in {"select", "stamp", "undo"}
               /\ call'[c].pc = "stamp" => call'[c].acct = a
    <2> DEFINE z(v) == [x EXCEPT !.acct = a, !.pc = v]
               n == NextAttempt([x EXCEPT !.acct = a])
               m == NextAttempt([x EXCEPT !.acct = a, !.calm = FALSE])
    <2>1. x.pc = "select"
      BY <1>3 DEF TryAccount, IncrFails
    <2>2. PICK y : /\ y \in {z("undo"), z("stamp"), n, m}
                   /\ Visible(c, y) \/ Broken(c, y)
      BY <1>3 DEF TryAccount, IncrFails
    <2>3. OnlyMoves(c) /\ call'[c] \in Blurred(y)
      BY <2>2, OthersAlike DEF Broken
    <2> DEFINE Fits(u) == /\ u.auto = x.auto /\ u.prov = x.prov
                          /\ u.pc \in {"select", "stamp", "undo"}
                          /\ u.pc = "stamp" => u.acct = a
    <2>4. \A u \in Blurred(z("undo")) : Fits(u)
      BY <1>0, ZenonT(40) DEF Call, Blurred
    <2>5. \A u \in Blurred(z("stamp")) : Fits(u)
      BY <1>0, ZenonT(40) DEF Call, Blurred
    <2>6. \A u \in Blurred(n) \cup Blurred(m) : Fits(u)
      <3>1. Fits(n) /\ Fits(m)
        BY <1>0 DEF Call, NextAttempt
      <3>2. Fits([n EXCEPT !.calm = FALSE])
        BY <1>0 DEF Call, NextAttempt
      <3>3. Fits([m EXCEPT !.calm = FALSE])
        BY <1>0 DEF Call, NextAttempt
      <3> HIDE DEF Fits, n, m
      <3> QED BY <3>1, <3>2, <3>3 DEF Blurred
    <2> HIDE DEF Fits, z, n, m
    <2>7. Fits(call'[c])
      BY <2>2, <2>3, <2>4, <2>5, <2>6
    <2> QED BY <2>1, <2>3, <2>7 DEF Fits
  <1>4. ASSUME NEW r, Begin(c, r)
        PROVE  OnlyMoves(c) /\ x.pc = "idle" /\ call'[c].pc \in {"exact", "list"}
    <2> DEFINE y == [Idle EXCEPT !.req = r, !.calm = TRUE, !.auto = r.kind # "exact",
                                 !.pc = IF r.kind = "exact" THEN "exact" ELSE "list"]
    <2>1. x.pc = "idle" /\ Local(c, y)
      BY <1>4 DEF Begin
    <2>2. OnlyMoves(c) /\ call'[c] \in Blurred(y)
      BY <2>1, OthersAlike
    <2>3. \A u \in Blurred(y) : u.pc \in {"exact", "list"}
      BY DEF Idle, Blurred
    <2> QED BY <2>1, <2>2, <2>3
  <1>5. ASSUME Report(c) \/ SeesError(c)
        PROVE  OnlyMoves(c) /\ x.pc \in {"held", "failed"} /\ call'[c].pc = "idle"
    <2>1. x.pc \in {"held", "failed"} /\ (Local(c, Idle) \/ Visible(c, Idle))
      BY <1>5 DEF Report, SeesError
    <2>2. OnlyMoves(c) /\ call'[c] \in Blurred(Idle)
      BY <2>1, OthersAlike
    <2>3. Idle.pc = "idle" /\ [Idle EXCEPT !.calm = FALSE].pc = "idle"
      BY DEF Idle
    <2> QED BY <2>1, <2>2, <2>3 DEF Blurred
  <1> QED BY <1>1, <1>2, <1>3, <1>4, <1>5

-----------------------------------------------------------------------------
\* A step that binds nothing, serves nobody and begins no Pick.
LEMMA AffinityKept ==
    ASSUME AffinityInv, UNCHANGED <<conf, bound, served>>,
           \A d \in Callers :
              /\ InPick(d)' => InPick(d)
              /\ sel'[d].alone => sel[d].alone
              /\ Tied(conf, Who[d], call'[d], sel'[d])
              /\ ~Collides /\ Who[d].user # NoUser =>
                    Promised(conf, Bindings(Who[d]), call'[d], sel'[d])
    PROVE  AffinityInv'
  <1>1. Collides' = Collides /\ \A w : Bindings(w)' = Bindings(w)
    BY BoundStays
  <1>2. Who' = Who
    BY DEF Who
  <1>3. EachTied' /\ Solo' /\ Rested'
    BY <1>2 DEF AffinityInv, EachTied, Solo, Rested
  <1>4. EachPromised' /\ EachFollowed'
    BY <1>1, <1>2 DEF AffinityInv, EachPromised, EachFollowed
  <1> QED BY <1>3, <1>4 DEF AffinityInv

\* The same, if it is a step of caller c.
LEMMA OneKeeps ==
    ASSUME AffinityInv, UNCHANGED <<conf, bound, served>>, NEW c \in Callers, OnlyMoves(c),
           InPick(c)' => InPick(c), \A d \in Callers \ {c} : sel'[d] = sel[d],
           sel'[c].alone => sel[c].alone,
           Tied(conf, Who[c], call'[c], sel'[c]),
           ~Collides /\ Who[c].user # NoUser =>
              Promised(conf, Bindings(Who[c]), call'[c], sel'[c])
    PROVE  AffinityInv'
  <1>1. ASSUME NEW d \in Callers \ {c}
        PROVE  /\ InPick(d)' => InPick(d)
               /\ sel'[d].alone => sel[d].alone
               /\ Tied(conf, Who[d], call'[d], sel'[d])
               /\ ~Collides /\ Who[d].user # NoUser =>
                    Promised(conf, Bindings(Who[d]), call'[d], sel'[d])
    <2>1. Alike(call[d], call'[d]) /\ sel'[d] = sel[d]
      BY DEF OnlyMoves
    <2>2. InPick(d)' => InPick(d)
      BY <2>1 DEF Alike, InPick
    <2>3. /\ Tied(conf, Who[d], call[d], sel[d])
          /\ ~Collides /\ Who[d].user # NoUser =>
                Promised(conf, Bindings(Who[d]), call[d], sel[d])
      BY DEF AffinityInv, EachTied, EachPromised
    <2> QED BY <2>1, <2>2, <2>3, AlikeKeeps
  <1> QED BY <1>1, AffinityKept

\* A person is bound to one target at most.
LEMMA BoundOnce == \A level, w, v : v \in Bound(level, w) => Bound(level, w) = {v}
  BY DEF Bound

\* A caller whose selectors have nothing under way, and one whose selectors owe no binding.
LEMMA Aside ==
    ASSUME NEW y, NEW s, s.want = NoAccount, ~s.scan.on, s.next.op # "bind",
           y.pc \notin Settled
    PROVE  \A k, w, B : Tied(k, w, y, s) /\ Promised(k, B, y, s)
  BY DEF Tied, Promised, Settled, Slot

LEMMA OpsDiffer ==
    /\ Nothing.op # "bind"
    /\ \A a : CountCall(a).op # "bind"
    /\ \A level, t : Bind(level, t).op = "bind"
    /\ \A level, t : Bind(level, t).level = level /\ Bind(level, t).target = t
    /\ \A level, t : Bind(level, t) # Nothing
  BY DEF Nothing, CountCall, Bind

\* The steps of the selectors, and those that end what came of a Pick.
LEMMA GroupKeeps ==
    ASSUME SelInv, SelInv', AffinityInv, NEW c \in Callers,
           ListCounts(c) \/ GroupSelect(c) \/ ReportCall(c)
    PROVE  AffinityInv'
  <1> DEFINE x == call[c]
             y == call'[c]
             s == sel[c]
             t == sel'[c]
             w == Who[c]
             B == Bindings(w)
  <1>0. /\ call \in [Callers -> Call] /\ s \in Locals /\ t \in Locals
        /\ sel \in [Callers -> Locals]
        /\ Tied(conf, w, x, s)
        /\ B["group"] = Bound("group", w)
    BY DEF SelInv, PickInv, IInv, TypeOK, SelShape, AffinityInv, EachTied, Bindings, Levels
  <1>1. CASE ListCounts(c) \/ ReportCall(c)
    <2>1. /\ OnlyMoves(c) /\ x.pc \in {"list", "held"} /\ y.pc \in {"group", "failed", "idle"}
          /\ InPick(c)' => InPick(c)
      <3>1. List(c) \/ Report(c)
        BY <1>1 DEF ListCounts, ReportCall
      <3>2. OnlyMoves(c) /\ x.pc \in {"list", "held"} /\ y.pc \in {"group", "failed", "idle"}
            /\ (x.pc = "list" \/ y.pc = "idle")
        BY <1>0, <3>1, ChoosingMoves DEF Report
      <3> QED BY <3>2 DEF InPick
    <2>2. /\ UNCHANGED <<conf, bound, served>> /\ \A d \in Callers \ {c} : sel'[d] = sel[d]
          /\ t.want = s.want /\ t.scan = s.scan /\ t.alone = s.alone
      BY <1>0, <1>1 DEF ListCounts, ReportCall, Sets, Locals
    <2>3. t.next.op # "bind"
      <3>1. CASE ListCounts(c)
        <4>1. t.next = s.next /\ s.next = Nothing
          BY <1>0, <3>1 DEF ListCounts, Sets, Locals, Ready
        <4> QED BY <4>1, OpsDiffer
      <3>2. CASE ReportCall(c)
        <4>1. t.next = CountCall(x.acct)
          BY <1>0, <3>2 DEF ReportCall, Sets, Locals
        <4> QED BY <4>1, OpsDiffer
      <3> QED BY <1>1, <3>1, <3>2
    <2>4. t.want = NoAccount /\ ~t.scan.on
      BY <1>0, <2>1, <2>2 DEF Tied
    <2>5. Tied(conf, w, y, t) /\ Promised(conf, B, y, t)
      BY <2>1, <2>3, <2>4, Aside DEF Settled, Slot
    <2> QED BY <2>1, <2>2, <2>5, OneKeeps
  <1>2. CASE GroupSelect(c)
    <2> DEFINE left == x.cands \ x.tried
               hit == Bound("group", w) \cap left
    <2>1. /\ OnlyMoves(c) /\ x.pc = "group"
          /\ IF left = {} THEN y.pc = "failed" ELSE y.pc = "accounts"
      BY <1>0, <1>2, ChoosingMoves DEF GroupSelect
    <2>2. /\ UNCHANGED <<conf, bound, served>>
          /\ \/ left = {} /\ UNCHANGED sel
             \/ left # {} /\ y.prov \in Bound("group", w) /\ UNCHANGED sel
             \/ left # {} /\ Sets(c, [s EXCEPT !.missed = FALSE, !.next = Owed(c, "group", y.prov)])
      BY <1>2 DEF GroupSelect, Hit
    <2>3. /\ s.want = NoAccount /\ ~s.scan.on /\ s.next = Nothing
      BY <1>0, <1>2, <2>1 DEF Tied, GroupSelect, Ready
    <2>4. ASSUME UNCHANGED sel, left = {}
          PROVE  Tied(conf, w, y, t) /\ Promised(conf, B, y, t)
      BY <2>1, <2>3, <2>4, Aside, OpsDiffer DEF Settled, Slot
    <2>5. ASSUME UNCHANGED sel, left # {}, y.prov \in Bound("group", w)
          PROVE  Tied(conf, w, y, t) /\ Promised(conf, B, y, t)
      <3>1. B["group"] = {y.prov}
        BY <1>0, <2>5, BoundOnce
      <3> QED BY <2>1, <2>3, <2>5, <3>1, OpsDiffer DEF Tied, Promised
    <2>6. ASSUME left # {}, Sets(c, [s EXCEPT !.missed = FALSE, !.next = Owed(c, "group", y.prov)])
          PROVE  /\ Tied(conf, w, y, t)
                 /\ w.user # NoUser => Promised(conf, B, y, t)
      <3>1. /\ t.want = s.want /\ t.scan = s.scan /\ t.alone = s.alone
            /\ t.next = Owed(c, "group", y.prov)
        BY <1>0, <2>6 DEF Sets, Locals
      <3>2. IF conf["group"] = "affinity" /\ w.user # NoUser
            THEN t.next = Bind("group", y.prov) ELSE t.next = Nothing
        BY <3>1 DEF Owed
      <3> HIDE DEF x, y, s, t, w, B
      <3> QED BY <2>1, <2>3, <2>6, <3>1, <3>2, OpsDiffer DEF Tied, Promised
    <2>7. /\ Tied(conf, w, y, t)
          /\ w.user # NoUser => Promised(conf, B, y, t)
      BY <2>2, <2>4, <2>5, <2>6
    <2>8. t.alone => s.alone
      BY <1>0, <2>2 DEF Sets, Locals
    <2>9. \A d \in Callers \ {c} : sel'[d] = sel[d]
      BY <1>0, <2>2 DEF Sets
    <2>10. InPick(c)
      BY <2>1 DEF InPick
    <2> QED BY <2>1, <2>2, <2>7, <2>8, <2>9, <2>10, OneKeeps
  <1> QED BY <1>1, <1>2

LEMMA SelectKeeps ==
    ASSUME SelInv, SelInv', AffinityInv, NEW c \in Callers,
           Select(c) \/ ScanNext(c) \/ ScanEnds(c) \/ IncrCalls(c)
    PROVE  AffinityInv'
  <1> DEFINE x == call[c]
             s == sel[c]
             t == sel'[c]
             w == Who[c]
             B == Bindings(w)
  <1>0. /\ call \in [Callers -> Call] /\ s \in Locals /\ t \in Locals
        /\ sel \in [Callers -> Locals] /\ conf \in Configurations
        /\ Tied(conf, w, x, s)
        /\ ~Collides /\ w.user # NoUser => Promised(conf, B, x, s)
        /\ B["acct"] = Bound("acct", w)
    BY DEF SelInv, PickInv, IInv, TypeOK, SelShape, AffinityInv, EachTied, EachPromised,
           Bindings, Levels
  <1>1. UNCHANGED <<conf, bound, served, call>> /\ \E z : Sets(c, z)
    BY DEF Select, ScanNext, ScanEnds, IncrCalls, Look, vars
  <1>2. SUFFICES /\ t.alone = s.alone
                 /\ Tied(conf, w, x, t)
                 /\ ~Collides /\ w.user # NoUser => Promised(conf, B, x, t)
    <2>1. OnlyMoves(c) /\ (InPick(c)' => InPick(c))
      BY <1>1 DEF OnlyMoves, Alike, InPick
    <2>2. \A d \in Callers \ {c} : sel'[d] = sel[d]
      BY <1>0, <1>1 DEF Sets
    <2> QED BY <1>1, <1>2, <2>1, <2>2, OneKeeps
  <1>3. ASSUME NEW a \in Choices(x), x.pc = "select", s.next = Nothing,
               t.want = a, t.alone = s.alone, s.want = NoAccount,
               t.scan = s.scan,
               \/ t.next = Nothing /\ a \in Bound("acct", w)
               \/ t.next = Owed(c, "acct", a)
        PROVE  /\ t.alone = s.alone
               /\ Tied(conf, w, x, t)
               /\ ~Collides /\ w.user # NoUser => Promised(conf, B, x, t)
    <2>1. a # NoAccount
      BY <1>0 DEF Choices, Call
    <2>2. \/ t.next = Nothing /\ B["acct"] = {a}
          \/ /\ conf["acct"] = "affinity" /\ w.user # NoUser
             /\ t.next = Bind("acct", a)
          \/ /\ ~(conf["acct"] = "affinity" /\ w.user # NoUser)
             /\ t.next = Nothing
      BY <1>0, <1>3, BoundOnce DEF Owed
    <2> HIDE DEF x, s, t, w, B
    <2>3. Tied(conf, w, x, t)
      BY <1>0, <1>3, <2>1, <2>2, OpsDiffer DEF Tied
    <2>4. ~Collides /\ w.user # NoUser => Promised(conf, B, x, t)
      BY <1>0, <1>3, <2>1, <2>2, OpsDiffer DEF Promised
    <2> QED BY <1>3, <2>3, <2>4
  <1>4. CASE Select(c)
    <2> DEFINE as == Choices(x)
    <2>0. /\ x.pc = "select" /\ s.next = Nothing /\ s.want = NoAccount /\ ~s.scan.on
          /\ as # {}
      BY <1>4 DEF Select, Chooses, Ready
    <2>1. ASSUME NEW a \in as, a \in Bound("acct", w), Sets(c, [s EXCEPT !.want = a])
          PROVE  /\ t.alone = s.alone
                 /\ Tied(conf, w, x, t)
                 /\ ~Collides /\ w.user # NoUser => Promised(conf, B, x, t)
      <3>1. t.want = a /\ t.alone = s.alone /\ t.scan = s.scan /\ t.next = s.next
        BY <1>0, <2>1 DEF Sets, Locals
      <3> HIDE DEF x, s, t, w, B
      <3> QED BY <1>3, <2>0, <2>1, <3>1
    <2>2. ASSUME NEW a \in as,
                 Sets(c, [s EXCEPT !.missed = FALSE, !.want = a, !.next = Owed(c, "acct", a)])
          PROVE  /\ t.alone = s.alone
                 /\ Tied(conf, w, x, t)
                 /\ ~Collides /\ w.user # NoUser => Promised(conf, B, x, t)
      <3>1. /\ t.want = a /\ t.alone = s.alone /\ t.scan = s.scan
            /\ t.next = Owed(c, "acct", a)
        BY <1>0, <2>2 DEF Sets, Locals
      <3> HIDE DEF x, s, t, w, B
      <3> QED BY <1>3, <2>0, <2>2, <3>1
    <2>3. ASSUME Sets(c, [s EXCEPT !.missed = FALSE, !.scan = [NoScan EXCEPT !.on = TRUE]])
          PROVE  /\ t.alone = s.alone
                 /\ Tied(conf, w, x, t)
                 /\ ~Collides /\ w.user # NoUser => Promised(conf, B, x, t)
      <3>1. /\ t.want = s.want /\ t.alone = s.alone /\ t.next = s.next
            /\ t.scan = [NoScan EXCEPT !.on = TRUE]
        BY <1>0, <2>3 DEF Sets, Locals
      <3>2. t.scan.seen = {}
        BY <3>1 DEF NoScan
      <3> HIDE DEF x, s, t, w, B
      <3> QED BY <1>0, <2>0, <3>1, <3>2, OpsDiffer DEF Tied, Promised
    <2>4. Fallback("acct") # "least_used" => Simple(as) \subseteq as
      BY <1>0, SimpleChooses
    <2>5. \/ \E a \in Bound("acct", w) \cap as : Sets(c, [s EXCEPT !.want = a])
          \/ \E a \in as :
                Sets(c, [s EXCEPT !.missed = FALSE, !.want = a, !.next = Owed(c, "acct", a)])
          \/ Sets(c, [s EXCEPT !.missed = FALSE, !.scan = [NoScan EXCEPT !.on = TRUE]])
      BY <1>4, <2>4 DEF Select, Hit
    <2> QED BY <2>1, <2>2, <2>3, <2>5
  <1>5. CASE ScanNext(c)
    <2>0. PICK a \in Choices(x) : \E n, f : Look(c, a, n, f)
      BY <1>5 DEF ScanNext
    <2>1. PICK n, f : Look(c, a, n, f)
      BY <2>0
    <2>2. /\ t.want = s.want /\ t.alone = s.alone /\ t.next = s.next
          /\ t.scan.seen = s.scan.seen \cup {a} /\ t.scan.on = s.scan.on
          /\ (t.scan.best = s.scan.best /\ s.scan.seen # {}) \/ t.scan.best = a
      BY <1>0, <2>1 DEF Look, Sets, Locals, Scans, Beats
    <2>3. s.scan.on /\ s.want = NoAccount
      BY <1>5 DEF ScanNext, Scanning
    <2> HIDE DEF x, s, t, w, B
    <2> QED BY <1>0, <2>1, <2>2, <2>3, OpsDiffer DEF Tied, Promised
  <1>6. CASE ScanEnds(c)
    <2> DEFINE a == s.scan.best
    <2>1. /\ t.want = a /\ t.alone = s.alone /\ t.scan = s.scan
          /\ t.next = Owed(c, "acct", a)
      BY <1>0, <1>6 DEF ScanEnds, Sets, Locals
    <2>2. s.scan.on /\ s.want = NoAccount
      BY <1>6 DEF ScanEnds, Scanning
    <2>3. a \in Choices(x) /\ x.pc = "select" /\ s.next = Nothing
      BY <1>0, <1>6, <2>2 DEF Tied, ScanEnds
    <2> HIDE DEF x, s, t, w, B, a
    <2> QED BY <1>3, <2>1, <2>2, <2>3
  <1>7. CASE IncrCalls(c)
    <2>1. /\ t.want = s.want /\ t.alone = s.alone /\ t.scan = s.scan /\ t.next = Nothing
          /\ s.next.op = "count"
      BY <1>0, <1>7 DEF IncrCalls, Sets, Locals
    <2> HIDE DEF x, s, t, w, B
    <2> QED BY <1>0, <2>1, OpsDiffer DEF Tied, Promised
  <1> QED BY <1>4, <1>5, <1>6, <1>7

\* Steps that touch nothing but what GetAffinity answered and what is kept of the statistics.
LEMMA NotesKeep ==
    ASSUME SelInv, AffinityInv,
           \/ \E c \in Callers : LookupFails(c)
           \/ \E a \in Accounts : RemoveStats(a)
    PROVE  AffinityInv'
  <1>1. UNCHANGED <<conf, bound, served, call>>
    BY DEF LookupFails, RemoveStats, vars
  <1>2. ASSUME NEW d \in Callers
        PROVE  /\ sel'[d].want = sel[d].want /\ sel'[d].scan.on = sel[d].scan.on
               /\ sel'[d].scan.seen = sel[d].scan.seen /\ sel'[d].scan.best = sel[d].scan.best
               /\ sel'[d].next = sel[d].next /\ sel'[d].alone = sel[d].alone
    <2>1. sel[d] \in Locals /\ sel[d].scan \in Scans /\ sel \in [Callers -> Locals]
      BY DEF SelInv, SelShape, Locals
    <2>2. CASE \E c \in Callers : LookupFails(c)
      <3>1. sel'[d] = sel[d] \/ sel'[d] = [sel[d] EXCEPT !.missed = TRUE]
        BY <2>1, <2>2 DEF LookupFails, Sets
      <3> QED BY <2>1, <3>1 DEF Locals
    <2>3. CASE \E a \in Accounts : RemoveStats(a)
      <3>1. PICK a : sel'[d] = [sel[d] EXCEPT !.scan.kept = @ \ {a}]
        BY <2>3 DEF RemoveStats
      <3> QED BY <2>1, <3>1 DEF Locals, Scans
    <2> QED BY <2>2, <2>3
  <1>3. ASSUME NEW d \in Callers
        PROVE  /\ Tied(conf, Who[d], call'[d], sel'[d])
               /\ ~Collides /\ Who[d].user # NoUser =>
                     Promised(conf, Bindings(Who[d]), call'[d], sel'[d])
    <2>1. Alike(call[d], call'[d])
      BY <1>1 DEF Alike
    <2>2. /\ Tied(conf, Who[d], call[d], sel[d])
          /\ ~Collides /\ Who[d].user # NoUser =>
                Promised(conf, Bindings(Who[d]), call[d], sel[d])
      BY DEF AffinityInv, EachTied, EachPromised
    <2> QED BY <1>2, <2>1, <2>2, AlikeKeeps
  <1>4. \A d \in Callers : (InPick(d)' => InPick(d)) /\ (sel'[d].alone => sel[d].alone)
    BY <1>1, <1>2 DEF InPick
  <1> QED BY <1>1, <1>3, <1>4, AffinityKept

LEMMA AcquireKeeps ==
    ASSUME SelInv, SelInv', AffinityInv, NEW c \in Callers, Acquire(c)
    PROVE  AffinityInv'
  <1> DEFINE x == call[c]
             y == call'[c]
             s == sel[c]
             t == sel'[c]
             w == Who[c]
             B == Bindings(w)
  <1>0. /\ call \in [Callers -> Call] /\ s \in Locals /\ sel \in [Callers -> Locals]
        /\ ~Collides /\ w.user # NoUser => Promised(conf, B, x, s)
    BY DEF SelInv, PickInv, IInv, TypeOK, SelShape, AffinityInv, EachPromised
  <1>1. TryAccount(c, s.want) \/ IncrFails(c, s.want)
    BY DEF Acquire
  <1>2. /\ OnlyMoves(c) /\ x.pc = "select" /\ y.auto = x.auto /\ y.prov = x.prov
        /\ y.pc \in {"select", "stamp", "undo"} /\ (y.pc = "stamp" => y.acct = s.want)
    BY <1>0, <1>1, ChoosingMoves
  <1>3. /\ t.want = NoAccount /\ ~t.scan.on /\ t.next = Nothing /\ t.alone = s.alone
        /\ s.next = Nothing /\ s.want # NoAccount
    BY <1>0 DEF Acquire, Sets, Locals, NoScan, Ready
  <1>4. UNCHANGED <<conf, bound, served>> /\ \A d \in Callers \ {c} : sel'[d] = sel[d]
    BY <1>0 DEF Acquire, Sets
  <1>5. InPick(c)
    BY <1>2 DEF InPick
  <1>6. /\ Tied(conf, w, y, t)
        /\ ~Collides /\ w.user # NoUser => Promised(conf, B, y, t)
    <2> HIDE DEF x, y, s, t, w, B
    <2>1. Tied(conf, w, y, t)
      BY <1>3, OpsDiffer DEF Tied
    <2>2. ~Collides /\ w.user # NoUser => Promised(conf, B, y, t)
      BY <1>0, <1>2, <1>3, OpsDiffer DEF Promised, Settled, Slot
    <2> QED BY <2>1, <2>2
  <1> QED BY <1>2, <1>3, <1>4, <1>5, <1>6, OneKeeps

\* The rest of Pick; at its return the person is served, and it is bound to what served it.
LEMMA ProceedKeeps ==
    ASSUME SelInv, AffinityInv, NEW c \in Callers, Proceed(c)
    PROVE  AffinityInv'
  <1> DEFINE x == call[c]
             y == call'[c]
             s == sel[c]
             w == Who[c]
             B == Bindings(w)
             v == [acct |-> x.acct, prov |-> IF x.auto THEN x.prov ELSE NoProvider]
  <1>0. /\ call \in [Callers -> Call] /\ s \in Locals /\ conf \in Configurations
        /\ DOMAIN served = People
        /\ Tied(conf, w, x, s)
        /\ ~Collides /\ w.user # NoUser => Promised(conf, B, x, s)
        /\ x.pc = "exact" => ~x.auto
    BY DEF SelInv, PickInv, IInv, TypeOK, SelShape, AffinityInv, EachPromised, EachTied, Allowed
  <1>1. /\ OnlyMoves(c) /\ InPick(c) /\ Continues(x, y)
        /\ x.pc = "select" => Choices(x) = {}
    BY <1>0, WorkingMoves DEF Proceed
  <1>2. UNCHANGED <<conf, bound, sel>> /\ s.next = Nothing
    BY DEF Proceed, Ready
  <1>3. s.want = NoAccount /\ ~s.scan.on
    BY <1>0, <1>1 DEF Tied
  <1>4. /\ Tied(conf, w, y, s)
        /\ ~Collides /\ w.user # NoUser => Promised(conf, B, y, s)
    <2> HIDE DEF x, y, s, w, B
    <2>1. Tied(conf, w, y, s)
      BY <1>2, <1>3, OpsDiffer DEF Tied
    <2>2. ~Collides /\ w.user # NoUser => Promised(conf, B, y, s)
      BY <1>0, <1>1, <1>2, <1>3, OpsDiffer DEF Promised, Continues, Settled, Slot
    <2> QED BY <2>1, <2>2
  <1>5. CASE UNCHANGED served
    BY <1>1, <1>2, <1>4, <1>5, OneKeeps
  <1>6. CASE served' = [served EXCEPT ![w] = v] /\ x.pc = "stamp" /\ y.pc = "held" /\ s.alone
    <2>1. ~Collides /\ w.user # NoUser => Followed(conf, B, v)
      <3>1. ~Collides /\ w.user # NoUser =>
               /\ conf.acct = "affinity" => B["acct"] = {x.acct}
               /\ conf.group = "affinity" /\ x.auto => B["group"] = {x.prov}
        <4> HIDE DEF x, y, s, w, B
        <4> QED BY <1>0, <1>2, <1>6, OpsDiffer DEF Promised, Settled, Slot
      <3> HIDE DEF x, B, w
      <3> QED BY <3>1 DEF Followed
    <2>2. w \in People
      BY <1>0 DEF Who, Configurations
    <2>3. Collides' = Collides /\ (\A u : Bindings(u)' = Bindings(u)) /\ Who' = Who
      BY <1>2, BoundStays DEF Who
    <2>4. \A u \in People : served'[u] = IF u = w THEN v ELSE served[u]
      BY <1>0, <1>6, <2>2
    <2>5. \A d \in Callers \ {c} : Alike(call[d], call'[d])
      BY <1>1 DEF OnlyMoves
    <2>6. EachTied' /\ EachPromised'
      <3>1. ASSUME NEW d \in Callers
            PROVE  /\ Tied(conf, Who[d], call'[d], sel[d])
                   /\ ~Collides /\ Who[d].user # NoUser =>
                         Promised(conf, Bindings(Who[d]), call'[d], sel[d])
        <4>1. CASE d = c
          BY <1>4, <4>1
        <4>2. CASE d # c
          <5>1. /\ Tied(conf, Who[d], call[d], sel[d])
                /\ ~Collides /\ Who[d].user # NoUser =>
                      Promised(conf, Bindings(Who[d]), call[d], sel[d])
            BY DEF AffinityInv, EachTied, EachPromised
          <5> QED BY <2>5, <4>2, <5>1, AlikeKeeps
        <4> QED BY <4>1, <4>2
      <3> QED BY <1>2, <2>3, <3>1 DEF EachTied, EachPromised
    <2>7. EachFollowed'
      <3> HIDE DEF v
      <3> QED BY <1>2, <2>1, <2>3, <2>4 DEF AffinityInv, EachFollowed
    <2>8. \A d \in Callers : InPick(d)' <=> InPick(d) /\ d # c
      BY <1>6, <2>5 DEF InPick, Alike
    <2>9. Solo'
      BY <1>2, <2>3, <2>8 DEF AffinityInv, Solo
    <2>10. ASSUME NEW d \in Callers, InPick(d)'
           PROVE  \A u \in People : SameKey(u, Who[d]) => served'[u] = Unserved
      <3>1. InPick(d) /\ d # c
        BY <2>8, <2>10
      <3>2. ~SameKey(w, Who[d])
        BY <1>1, <1>6, <3>1 DEF AffinityInv, Solo
      <3> QED BY <2>4, <3>1, <3>2 DEF AffinityInv, Rested
    <2>11. Rested'
      BY <2>3, <2>10 DEF Rested, Unserved
    <2> QED BY <2>6, <2>7, <2>9, <2>11 DEF AffinityInv
  <1>7. \/ UNCHANGED served
        \/ served' = [served EXCEPT ![w] = v] /\ x.pc = "stamp" /\ y.pc = "held" /\ s.alone
    BY DEF Proceed
  <1> QED BY <1>5, <1>6, <1>7

\* A Pick that begins is alone, or none of those for its person is.
LEMMA BeginKeeps ==
    ASSUME SelInv, AffinityInv, NEW c \in Callers, NEW r \in Asked, BeginSelecting(c, r)
    PROVE  AffinityInv'
  <1> DEFINE w == Who[c]
             rivals == {d \in Callers \ {c} : SameKey(Who[d], w) /\ InPick(d)}
  <1>0. /\ call \in [Callers -> Call] /\ sel \in [Callers -> Locals] /\ conf \in Configurations
        /\ DOMAIN served = People /\ \A d \in Callers : Who[d] \in People
    BY DEF SelInv, PickInv, IInv, TypeOK, SelShape, Who, Configurations
  <1>1. OnlyMoves(c) /\ call'[c].pc \in {"exact", "list"}
    BY <1>0, ChoosingMoves DEF BeginSelecting
  <1>2. /\ UNCHANGED <<conf, bound>>
        /\ served' = [u \in People |-> IF SameKey(u, w) THEN Unserved ELSE served[u]]
    BY DEF BeginSelecting
  <1>3. Collides' = Collides /\ (\A u : Bindings(u)' = Bindings(u)) /\ Who' = Who
    BY <1>2, BoundStays DEF Who
  <1>4. /\ sel'[c] = [FreshSel EXCEPT !.alone = rivals = {}]
        /\ \A d \in Callers \ {c} :
              sel'[d] = IF d \in rivals THEN [sel[d] EXCEPT !.alone = FALSE] ELSE sel[d]
    BY DEF BeginSelecting
  <1>5. /\ sel'[c].want = NoAccount /\ ~(sel'[c].scan.on) /\ sel'[c].next = Nothing
        /\ sel'[c].alone => rivals = {}
    <2> HIDE DEF rivals
    <2>1. sel'[c].want = NoAccount /\ sel'[c].scan = NoScan /\ sel'[c].next = Nothing
      BY <1>4 DEF FreshSel
    <2>2. sel'[c].alone = (rivals = {})
      BY <1>4 DEF FreshSel
    <2>3. ~NoScan.on
      BY DEF NoScan
    <2> QED BY <2>1, <2>2, <2>3
  <1>6. ASSUME NEW d \in Callers \ {c}
        PROVE  /\ sel'[d].want = sel[d].want /\ sel'[d].scan = sel[d].scan
               /\ sel'[d].next = sel[d].next
               /\ sel'[d].alone => sel[d].alone /\ d \notin rivals
               /\ Alike(call[d], call'[d]) /\ (InPick(d)' <=> InPick(d))
    <2>1. sel[d] \in Locals
      BY <1>0
    <2>2. Alike(call[d], call'[d]) /\ (InPick(d)' <=> InPick(d))
      BY <1>1 DEF OnlyMoves, Alike, InPick
    <2>3. CASE d \in rivals
      <3>1. sel'[d] = [sel[d] EXCEPT !.alone = FALSE]
        BY <1>4, <2>3
      <3> QED BY <2>1, <2>2, <3>1 DEF Locals
    <2>4. CASE d \notin rivals
      BY <1>4, <2>2, <2>4
    <2> QED BY <2>3, <2>4
  <1> HIDE DEF rivals
  <1>7. ASSUME NEW d \in Callers
        PROVE  /\ Tied(conf, Who[d], call'[d], sel'[d])
               /\ ~Collides /\ Who[d].user # NoUser =>
                     Promised(conf, Bindings(Who[d]), call'[d], sel'[d])
    <2>1. CASE d = c
      BY <1>1, <1>5, <2>1, Aside, OpsDiffer DEF Settled, Slot
    <2>2. CASE d # c
      <3>1. /\ Tied(conf, Who[d], call[d], sel[d])
            /\ ~Collides /\ Who[d].user # NoUser =>
                  Promised(conf, Bindings(Who[d]), call[d], sel[d])
        BY DEF AffinityInv, EachTied, EachPromised
      <3> QED BY <1>6, <2>2, <3>1, AlikeKeeps
    <2> QED BY <2>1, <2>2
  <1>8. EachTied' /\ EachPromised'
    BY <1>2, <1>3, <1>7 DEF EachTied, EachPromised
  <1>9. \A u \in People : served'[u] = IF SameKey(u, w) THEN Unserved ELSE served[u]
    BY <1>0, <1>2
  <1>10. EachFollowed'
    <2>1. \A k, B : Followed(k, B, Unserved)
      BY DEF Followed, Unserved
    <2> QED BY <1>2, <1>3, <1>9, <2>1 DEF AffinityInv, EachFollowed
  <1>11. Rested'
    <2>1. ASSUME NEW d \in Callers, InPick(d)'
          PROVE  \A u \in People : SameKey(u, Who[d]) => served'[u] = Unserved
      <3>1. CASE d = c
        BY <1>9, <3>1
      <3>2. CASE d # c
        BY <1>6, <1>9, <2>1, <3>2 DEF AffinityInv, Rested
      <3> QED BY <3>1, <3>2
    <2> QED BY <1>3, <2>1 DEF Rested, Unserved
  <1>12. Solo'
    <2>1. ASSUME NEW d \in Callers, NEW e \in Callers, d # e, SameKey(Who[d], Who[e]),
                 InPick(d)', InPick(e)'
          PROVE  ~(sel'[d].alone)
      <3>1. CASE d = c
        <4>1. e \in rivals
          BY <1>6, <2>1, <3>1 DEF rivals, SameKey
        <4> QED BY <1>5, <3>1, <4>1
      <3>2. CASE e = c
        <4>1. d \in rivals
          BY <1>6, <2>1, <3>2 DEF rivals, SameKey
        <4> QED BY <1>6, <2>1, <3>2, <4>1
      <3>3. CASE d # c /\ e # c
        BY <1>6, <2>1, <3>3 DEF AffinityInv, Solo
      <3> QED BY <3>1, <3>2, <3>3
    <2> QED BY <1>3, <2>1 DEF Solo
  <1> QED BY <1>8, <1>10, <1>11, <1>12 DEF AffinityInv

\* A binding is made, or the store fails.  Whoever loses a binding over it is promised
\* nothing any more.
LEMMA BindKeeps ==
    ASSUME SelInv, AffinityInv, NEW c \in Callers, MakeBinding(c)
    PROVE  AffinityInv'
  <1> DEFINE x == call[c]
             s == sel[c]
  <1>v. PICK w, n, l, t : w = Who[c] /\ n = s.next /\ l = n.level /\ t = n.target
    OBVIOUS
  <1> DEFINE st == StoreOf(l)
             spilled == ~(DOMAIN bound[st] \subseteq DOMAIN bound'[st])
  <1>0. /\ call \in [Callers -> Call] /\ sel \in [Callers -> Locals] /\ conf \in Configurations
        /\ SelShape /\ DOMAIN served = People /\ \A d \in Callers : Who[d] \in People
        /\ call' = call /\ conf' = conf /\ Who' = Who
    BY DEF SelInv, PickInv, IInv, TypeOK, SelShape, Who, Configurations, MakeBinding, vars
  <1>a. ASSUME NEW d \in Callers
        PROVE  /\ Tied(conf, Who[d], call[d], sel[d])
               /\ ~Collides /\ Who[d].user # NoUser =>
                     Promised(conf, Bindings(Who[d]), call[d], sel[d])
    BY DEF AffinityInv, EachTied, EachPromised
  <1>1. /\ n.op = "bind" /\ conf[l] = "affinity" /\ w.user # NoUser
        /\ \/ l = "acct" /\ t = s.want /\ s.want # NoAccount /\ x.pc = "select"
           \/ l = "group" /\ t = x.prov /\ x.pc = "accounts" /\ s.want = NoAccount
    <2>1. n.op = "bind"
      BY <1>v DEF MakeBinding
    <2> QED BY <1>a, <1>v, <2>1, OpsDiffer DEF Tied
  <1>2. InPick(c) /\ l \in Levels /\ st \in Levels
    BY <1>1 DEF InPick, Levels, StoreOf
  <1> DEFINE after == [sel EXCEPT ![c].next = Nothing]
             m == SetAffinity(bound[st], AffinityKey(w), t)
  <1>b. /\ \A d \in Callers \ {c} : after[d] = sel[d]
        /\ after[c].next = Nothing /\ after[c].want = s.want /\ after[c].scan = s.scan
        /\ after[c].alone = s.alone
        /\ after \in [Callers -> Locals]
    BY <1>0, FreshLocals DEF Locals
  <1>3. CASE UNCHANGED <<bound, served>> /\ sel' = [after EXCEPT ![c].alone = FALSE]
    <2>1. /\ sel'[c].next = Nothing /\ sel'[c].want = s.want /\ sel'[c].scan = s.scan
          /\ sel'[c].alone = FALSE /\ \A d \in Callers \ {c} : sel'[d] = sel[d]
      BY <1>b, <1>3 DEF Locals
    <2>2. Tied(conf, w, x, sel'[c]) /\ \A B : Promised(conf, B, x, sel'[c])
      BY <1>a, <2>1, OpsDiffer DEF Tied, Promised
    <2>3. OnlyMoves(c)
      BY <1>0 DEF OnlyMoves, Alike
    <2> QED BY <1>v, <1>0, <1>2, <1>3, <2>1, <2>2, <2>3, OneKeeps
  <1>4. CASE /\ bound' = [bound EXCEPT ![st] = m]
             /\ served' = IF spilled THEN [u \in People |-> Unserved] ELSE served
             /\ sel' = [d \in Callers |-> IF spilled /\ d # c
                                          THEN [after[d] EXCEPT !.alone = FALSE] ELSE after[d]]
    <2>1. /\ Bound(l, w)' = {t}
          /\ \A k \in Levels : \A u : StoreOf(k) # st => Bound(k, u)' = Bound(k, u)
          /\ ~spilled => \A k \in Levels : \A u :
                AffinityKey(u) # AffinityKey(w) => Bound(k, u)' = Bound(k, u)
      BY <1>0, <1>1, <1>2, <1>4, BindingMade, ZenonT(40) DEF Binds
    <2>2. /\ sel'[c].next = Nothing /\ sel'[c].want = s.want /\ sel'[c].scan = s.scan
          /\ sel'[c].alone = s.alone
      BY <1>b, <1>4
    <2>3. ASSUME NEW d \in Callers \ {c}
          PROVE  /\ sel'[d].want = sel[d].want /\ sel'[d].scan = sel[d].scan
                 /\ sel'[d].next = sel[d].next
                 /\ sel'[d].alone => sel[d].alone /\ ~spilled
      <3> HIDE DEF spilled, after
      <3>1. sel'[d] = IF spilled THEN [sel[d] EXCEPT !.alone = FALSE] ELSE sel[d]
        BY <1>b, <1>4
      <3>2. sel[d] \in Locals
        BY <1>0
      <3>3. CASE spilled
        BY <3>1, <3>2, <3>3 DEF Locals
      <3>4. CASE ~spilled
        BY <3>1, <3>4
      <3> QED BY <3>3, <3>4
    <2>4. Collides' = Collides
      BY <1>0 DEF Collides
    <2>5. \A u \in People : served'[u] = IF spilled THEN Unserved ELSE served[u]
      BY <1>4
    <2>6. ASSUME NEW u \in People, ~SameKey(u, w), ~spilled
          PROVE  Bindings(u)' = Bindings(u)
      <3>1. AffinityKey(u) # AffinityKey(w)
        BY <2>6 DEF SameKey
      <3>2. \A k \in Levels : Bound(k, u)' = Bound(k, u)
        BY <2>1, <2>6, <3>1
      <3> QED BY <3>2 DEF Bindings
    <2> HIDE DEF spilled, after, m, st
    <2>7. EachTied'
      <3>1. ASSUME NEW d \in Callers
            PROVE  Tied(conf, Who[d], call[d], sel'[d])
        <4>1. CASE d = c
          BY <1>a, <2>2, <4>1, OpsDiffer DEF Tied
        <4>2. CASE d # c
          <5>1. Alike(call[d], call[d])
            BY DEF Alike
          <5> QED BY <1>a, <2>3, <4>2, <5>1, AlikeKeeps
        <4> QED BY <4>1, <4>2
      <3> QED BY <1>0, <3>1 DEF EachTied
    <2>8. EachPromised'
      <3>1. ASSUME ~Collides, NEW d \in Callers, Who[d].user # NoUser
            PROVE  Promised(conf, Bindings(Who[d])', call[d], sel'[d])
        <4>1. CASE d = c
          <5> DEFINE B == Bindings(w)
                     D == Bindings(w)'
          <5>0. Promised(conf, B, x, s)
            BY <1>v, <1>a, <3>1, <4>1
          <5>1. /\ B["group"] = Bound("group", w) /\ D["group"] = Bound("group", w)'
                /\ B["acct"] = Bound("acct", w) /\ D["acct"] = Bound("acct", w)'
            BY DEF Bindings, Levels
          <5>2. l = "acct" /\ conf["group"] = "affinity" => D["group"] = B["group"]
            BY <1>0, <1>1, <2>1, <3>1, <5>1, StoresDiffer DEF Levels, st
          <5>3. l = "acct" => D["acct"] = {s.want}
            BY <1>1, <2>1, <5>1
          <5>4. l = "group" => D["group"] = {x.prov}
            BY <1>1, <2>1, <5>1
          <5> HIDE DEF B, D
          <5>5. Promised(conf, D, x, sel'[c])
            BY <1>v, <1>1, <2>2, <5>0, <5>2, <5>3, <5>4, OpsDiffer DEF Promised, Settled, Slot
          <5>6. Bindings(Who[d])' = Bindings(w)'
            <6>1. Who'[d] = w
              BY <1>0, <1>v, <4>1
            <6> QED BY <6>1 DEF Bindings
          <5> QED BY <1>v, <4>1, <5>5, <5>6 DEF D
        <4>2. CASE d # c /\ SameKey(Who[d], w)
          <5>1. InPick(d) => ~sel[d].alone
            BY <1>v, <1>2, <4>2 DEF AffinityInv, Solo
          <5>2. ASSUME ~InPick(d)
                PROVE  \A D : Promised(conf, D, call[d], sel'[d])
            <6>1. sel[d].want = NoAccount /\ call[d].pc \notin Settled
              BY <1>a, <5>2 DEF Tied, InPick, Settled, Slot
            <6> QED BY <2>3, <4>2, <6>1 DEF Promised, Settled, Slot
          <5>3. ASSUME ~(sel'[d].alone)
                PROVE  \A D : Promised(conf, D, call[d], sel'[d])
            BY <5>3 DEF Promised
          <5> QED BY <2>3, <4>2, <5>1, <5>2, <5>3
        <4>3. CASE d # c /\ ~SameKey(Who[d], w)
          <5>1. CASE ~spilled
            <6>1. Bindings(Who[d])' = Bindings(Who[d])
              BY <1>0, <2>6, <4>3, <5>1
            <6>2. Alike(call[d], call[d])
              BY DEF Alike
            <6> QED BY <1>a, <2>3, <3>1, <4>3, <6>1, <6>2, AlikeKeeps
          <5>2. CASE spilled
            BY <2>3, <4>3, <5>2 DEF Promised
          <5> QED BY <5>1, <5>2
        <4> QED BY <4>1, <4>2, <4>3
      <3> QED BY <1>0, <2>4, <3>1 DEF EachPromised
    <2>9. EachFollowed'
      <3>1. \A k, B : Followed(k, B, Unserved)
        BY DEF Followed, Unserved
      <3>2. \A u \in People : SameKey(u, w) => served[u] = Unserved
        BY <1>v, <1>2 DEF AffinityInv, Rested
      <3>3. ASSUME ~Collides, NEW u \in People, u.user # NoUser
            PROVE  Followed(conf, Bindings(u)', served'[u])
        <4>1. CASE spilled \/ SameKey(u, w)
          BY <2>5, <3>1, <3>2, <4>1
        <4>2. CASE ~spilled /\ ~SameKey(u, w)
          BY <2>5, <2>6, <3>3, <4>2 DEF AffinityInv, EachFollowed
        <4> QED BY <4>1, <4>2
      <3> QED BY <1>0, <2>4, <3>3 DEF EachFollowed
    <2>10. \A d \in Callers : (InPick(d)' <=> InPick(d)) /\ (sel'[d].alone => sel[d].alone)
      BY <1>0, <2>2, <2>3 DEF InPick
    <2>11. Solo' /\ Rested'
      <3>1. Solo'
        BY <1>0, <2>10 DEF AffinityInv, Solo
      <3>2. ASSUME NEW d \in Callers, InPick(d)'
            PROVE  \A u \in People : SameKey(u, Who[d]) => served'[u] = Unserved
        BY <1>0, <2>5, <2>10, <3>2 DEF AffinityInv, Rested
      <3>3. Rested'
        BY <1>0, <3>2 DEF Rested, Unserved
      <3> QED BY <3>1, <3>3
    <2> QED BY <2>7, <2>8, <2>9, <2>11 DEF AffinityInv
  <1>5. \/ UNCHANGED <<bound, served>> /\ sel' = [after EXCEPT ![c].alone = FALSE]
        \/ /\ bound' = [bound EXCEPT ![st] = m]
           /\ served' = IF spilled THEN [u \in People |-> Unserved] ELSE served
           /\ sel' = [d \in Callers |-> IF spilled /\ d # c
                                        THEN [after[d] EXCEPT !.alone = FALSE] ELSE after[d]]
    <2> DEFINE gone == ~(DOMAIN bound[st] \subseteq DOMAIN m)
    <2>1. \/ UNCHANGED <<bound, served>> /\ sel' = [after EXCEPT ![c].alone = FALSE]
          \/ /\ bound' = [bound EXCEPT ![st] = m]
             /\ served' = IF gone THEN [u \in People |-> Unserved] ELSE served
             /\ sel' = [d \in Callers |-> IF gone /\ d # c
                                          THEN [after[d] EXCEPT !.alone = FALSE] ELSE after[d]]
      BY <1>v DEF MakeBinding
    <2>2. bound' = [bound EXCEPT ![st] = m] => bound'[st] = m
      BY <1>0, <1>2 DEF SelShape
    <2> HIDE DEF m, after, st
    <2> QED BY <2>1, <2>2
  <1> QED BY <1>3, <1>4, <1>5

\* The steps that are no business of a strategy.
LEMMA RestKeeps ==
    ASSUME SelInv, AffinityInv, UNCHANGED selvars,
           \/ \E c \in Callers : SeesError(c)
           \/ \E a \in Accounts : StatusChanges(a)
           \/ UNCHANGED vars
    PROVE  AffinityInv'
  <1>0. /\ call \in [Callers -> Call] /\ UNCHANGED <<conf, bound, served, sel>>
        /\ \A d \in Callers : /\ Tied(conf, Who[d], call[d], sel[d])
                              /\ ~Collides /\ Who[d].user # NoUser =>
                                    Promised(conf, Bindings(Who[d]), call[d], sel[d])
    BY DEF SelInv, PickInv, IInv, TypeOK, AffinityInv, EachTied, EachPromised, selvars
  <1>1. ASSUME NEW c \in Callers, SeesError(c)
        PROVE  AffinityInv'
    <2>1. OnlyMoves(c) /\ call[c].pc = "failed" /\ call'[c].pc = "idle"
      BY <1>0, <1>1, ChoosingMoves DEF SeesError
    <2>2. sel[c].want = NoAccount /\ ~(sel[c].scan.on) /\ sel[c].next.op # "bind"
      BY <1>0, <2>1 DEF Tied
    <2>3. /\ Tied(conf, Who[c], call'[c], sel[c])
          /\ Promised(conf, Bindings(Who[c]), call'[c], sel[c])
      BY <2>1, <2>2, Aside DEF Settled, Slot
    <2>4. ~InPick(c)'
      BY <2>1 DEF InPick
    <2> QED BY <1>0, <2>1, <2>3, <2>4, OneKeeps
  <1>2. ASSUME \A d \in Callers : Alike(call[d], call'[d])
        PROVE  AffinityInv'
    <2>1. ASSUME NEW d \in Callers
          PROVE  /\ InPick(d)' => InPick(d)
                 /\ Tied(conf, Who[d], call'[d], sel[d])
                 /\ ~Collides /\ Who[d].user # NoUser =>
                       Promised(conf, Bindings(Who[d]), call'[d], sel[d])
      <3>1. InPick(d)' => InPick(d)
        BY <1>2 DEF InPick, Alike
      <3> QED BY <1>0, <1>2, <3>1, AlikeKeeps
    <2> QED BY <1>0, <2>1, AffinityKept
  <1>3. ASSUME NEW a \in Accounts, StatusChanges(a)
        PROVE  \A d \in Callers : Alike(call[d], call'[d])
    BY <1>0, <1>3 DEF StatusChanges, Disturb, Alike, Choices, Call
  <1>4. ASSUME UNCHANGED vars
        PROVE  \A d \in Callers : Alike(call[d], call'[d])
    BY <1>4 DEF vars, Alike
  <1> QED BY <1>1, <1>2, <1>3, <1>4

LEMMA AffinityStep ==
    ASSUME SelInv, SelInv', AffinityInv, [SelNext]_allvars
    PROVE  AffinityInv'
  <1>1. CASE UNCHANGED allvars
    BY <1>1, RestKeeps DEF allvars
  <1>2. CASE Finished /\ UNCHANGED selvars
    BY <1>2, RestKeeps DEF Finished
  <1> QED BY <1>1, <1>2, BeginKeeps, GroupKeeps, SelectKeeps, AcquireKeeps, ProceedKeeps, BindKeeps,
             NotesKeep, RestKeeps DEF SelNext, SelStep

\* Affinity keeps its promise through retries and failover, for any number of callers and
\* people and any size of the store: what a person is bound to after a Pick is what served it,
\* until another Pick under the same key, a full map or a failed write comes between; people
\* whose names join to one key count as one.
THEOREM BindingFollows == SelSpec => []BindingFollowsService
  <1>1. SelInit => AffinityInv
    <2> SUFFICES ASSUME SelInit PROVE AffinityInv
      OBVIOUS
    <2>1. \A c \in Callers : call[c].pc = "idle" /\ sel[c] = FreshSel
      BY DEF SelInit, Init, Idle
    <2>2. /\ FreshSel.want = NoAccount /\ ~FreshSel.scan.on /\ FreshSel.next = Nothing
      BY DEF FreshSel, NoScan
    <2>3. \A c \in Callers : ~InPick(c)
      BY <2>1 DEF InPick
    <2>4. EachTied /\ EachPromised
      BY <2>1, <2>2, Aside, OpsDiffer DEF EachTied, EachPromised, Settled, Slot
    <2>5. EachFollowed
      BY DEF SelInit, EachFollowed, Followed, Unserved
    <2> QED BY <2>3, <2>4, <2>5 DEF AffinityInv, Solo, Rested
  <1>2. SelInv /\ SelInv' /\ AffinityInv /\ [SelNext]_allvars => AffinityInv'
    BY AffinityStep
  <1>3. AffinityInv => BindingFollowsService
    <2>1. \A w : Bindings(w)["acct"] = Bound("acct", w) /\ Bindings(w)["group"] = Bound("group", w)
      BY DEF Bindings, Levels
    <2> QED BY <2>1 DEF AffinityInv, EachFollowed, Followed, BindingFollowsService
  <1>4. SelSpec => SelInit /\ [][SelNext]_allvars
    BY PTL DEF SelSpec
  <1> QED BY <1>1, <1>2, <1>3, <1>4, SelInvHolds, PTL
=============================================================================
