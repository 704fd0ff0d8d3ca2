-------------------------------- MODULE Pick --------------------------------
(***************************************************************************)
(* defaultBalancer.Pick and the slot it hands out, one atomic store call   *)
(* per step, for callers that run side by side:                            *)
(*                                                                         *)
(*   exact -> ResolveProvider                  (mode 1)                    *)
(*   list  -> ResolveProviders                 (mode 2, 3, and fallback)   *)
(*   group -> filterProviders, GroupSelector   (top of the failover loop)  *)
(*   accounts -> ResolveAccounts                                           *)
(*   filter   -> OccupancyController.FilterAvailable                       *)
(*   select   -> excludeAccounts, Selector, IncrOccupancy                  *)
(*   undo     -> DecrOccupancy of a refused Acquire                        *)
(*   stamp    -> StatsStore.UpdateLastUsed                                 *)
(*   giveback -> Release after UpdateLastUsed failed                       *)
(*   held     -> the call is in the caller's hands until it reports        *)
(*   failed   -> Pick returned an error                                    *)
(*                                                                         *)
(* Selectors may choose anything they are offered.  Meanwhile other actors *)
(* change account statuses and provider settings, and stores fail.         *)
(* Bounds: MaxPicks per caller, and MaxTrouble changes from outside, store *)
(* errors and decrements that never happen, together.                      *)
(***************************************************************************)
EXTENDS Naturals, FiniteSets

CONSTANTS Callers, Providers, Accounts, NoProvider, NoAccount,
          TypeOf,       \* [Providers -> provider types]
          Home,         \* [Accounts -> Providers]: ProviderKey of an account
          Limit,        \* [Accounts -> Nat]: FixedLimit.getLimit
          MaxRetries,   \* maxRetries after Pick has applied the default
          Asked,        \* bound: the requests the callers make
          StartAvail,   \* bound: initial values of avail
          StartState,   \* bound: initial values of provState
          MaxPicks, MaxTrouble

ASSUME LimitIsNatural == Limit \in [Accounts -> Nat]
ASSUME HomeIsProvider == Home \in [Accounts -> Providers]
ASSUME BoundsAreNatural == MaxRetries \in Nat /\ MaxPicks \in Nat /\ MaxTrouble \in Nat
ASSUME NoneIsFresh == NoAccount \notin Accounts /\ NoProvider \notin Providers

VARIABLES avail,      \* accounts whose stored status is Available
          provState,  \* what ResolveProvider would say of a provider, counts apart
          occ,        \* the OccupancyStore's counters
          lost,       \* increments nobody takes back
          call,       \* call[c]: the local variables of caller c's Pick
          picks,      \* picks[c]: Picks caller c has begun
          trouble,    \* changes from outside and store errors so far
          faults      \* decrements that never happened, increments misreported

vars == <<avail, provState, occ, lost, call, picks, trouble, faults>>
env == <<avail, provState>>

MayFail == trouble + faults < MaxTrouble    \* something may still go wrong

ProvStates == {"ok", "missing", "inactive", "nomodel"}
PcValues == {"idle", "exact", "list", "group", "accounts", "filter", "select",
             "undo", "stamp", "giveback", "held", "failed"}
Errors == {"none", "ProviderNotFound", "NoAvailableProvider", "ModelNotSupported",
           "NoAccount", "NoAvailableAccount", "OccupancyFull",
           "MaxRetriesExceeded", "StoreError", "Canceled"}

\* The three dispatch modes of PickRequest.ProviderKey.
Exact(p, f) == [kind |-> "exact", key |-> p, failover |-> f]
OfType(t, f) == [kind |-> "type", key |-> t, failover |-> f]
AnyProvider(f) == [kind |-> "auto", key |-> NoProvider, failover |-> f]

Types == {TypeOf[p] : p \in Providers}
Requests == {Exact(p, f) : p \in Providers, f \in BOOLEAN}
            \cup {OfType(t, f) : t \in Types, f \in BOOLEAN}
            \cup {AnyProvider(f) : f \in BOOLEAN}

ASSUME StartIsSound == /\ Asked \subseteq Requests
                       /\ StartAvail \subseteq SUBSET Accounts
                       /\ StartState \subseteq [Providers -> ProvStates]

Idle == [pc |-> "idle", req |-> AnyProvider(FALSE), auto |-> FALSE, cands |-> {},
         tried |-> {}, prov |-> NoProvider, pool |-> {}, excl |-> {}, att |-> 0,
         acct |-> NoAccount, err |-> "none", calm |-> FALSE]

-----------------------------------------------------------------------------
\* Only active providers that support the model and count an available account
\* are candidates; the count is AvailableAccountCount.
HasAvailable(p) == \E a \in avail : Home[a] = p
Candidate(p) == provState[p] = "ok" /\ HasAvailable(p)

\* A type in the request, or the type of the exact provider, restricts the list.
AllowsType(r, p) == CASE r.kind = "exact" -> TypeOf[p] = TypeOf[r.key]
                      [] r.kind = "type"  -> TypeOf[p] = r.key
                      [] OTHER            -> TRUE

\* Errors after which the failover loop goes on to another provider.
Retriable == {"NoAvailableAccount", "MaxRetriesExceeded", "OccupancyFull"}

-----------------------------------------------------------------------------
\* Where an error takes a Pick.  pickAuto returns its error, unless it ran as the
\* fallback of an exact Pick: then the exact error, kept in err, is returned.
Fails(x, e) == [Idle EXCEPT !.pc = "failed", !.req = x.req, !.auto = x.auto,
                            !.calm = x.calm, !.err = e]
AutoFails(x, e) == Fails(x, IF x.req.kind = "exact" THEN x.err ELSE e)

\* Mutant of ExactFails: failover is not asked for.
AlwaysFallsBack(x, e) ==
    [x EXCEPT !.pc = "list", !.err = e, !.auto = TRUE, !.prov = NoProvider,
              !.pool = {}, !.excl = {}, !.att = 0]

\* pickExact failed: give up, or start over as pickAuto with a fresh request.
ExactFails(x, e) ==
    IF x.req.failover
    THEN [x EXCEPT !.pc = "list", !.err = e, !.auto = TRUE, !.prov = NoProvider,
                   !.pool = {}, !.excl = {}, !.att = 0]
    ELSE Fails(x, e)

\* Mutants of ProviderFails: the failover loop forgets the provider it tried, or
\* an occupied provider ends the loop.
ForgetsTried(x, e) ==
    IF ~x.auto THEN ExactFails(x, e)
    ELSE IF x.req.failover /\ e \in Retriable
         THEN [x EXCEPT !.pc = "group", !.pool = {}, !.excl = {}, !.att = 0]
         ELSE AutoFails(x, e)
FullEndsLoop(x, e) ==
    IF ~x.auto THEN ExactFails(x, e)
    ELSE IF x.req.failover /\ e \in Retriable \ {"OccupancyFull"}
         THEN [x EXCEPT !.pc = "group", !.tried = @ \cup {x.prov}, !.pool = {},
                        !.excl = {}, !.att = 0]
         ELSE AutoFails(x, e)

\* No account could be had from the chosen provider.
ProviderFails(x, e) ==
    IF ~x.auto THEN ExactFails(x, e)
    ELSE IF x.req.failover /\ e \in Retriable
         THEN [x EXCEPT !.pc = "group", !.tried = @ \cup {x.prov}, !.pool = {},
                        !.excl = {}, !.att = 0]
         ELSE AutoFails(x, e)

\* Mutant of NextAttempt: the refused account is not excluded.
RetriesSameAccount(x) ==
    [x EXCEPT !.pc = "select", !.att = @ + 1, !.acct = NoAccount]

\* The account is excluded and the retry loop counts one more attempt.
NextAttempt(x) ==
    [x EXCEPT !.pc = "select", !.excl = @ \cup {x.acct}, !.att = @ + 1,
              !.acct = NoAccount]

-----------------------------------------------------------------------------
\* Local step of c: nothing another caller can see.
Local(c, x) == call' = [call EXCEPT ![c] = x]

\* A step of c that changes what others see ends their calm.
Visible(c, x) ==
    call' = [d \in Callers |->
               IF d = c THEN x ELSE [call[d] EXCEPT !.calm = FALSE]]

\* A store error reaches c; its own calm is over.
Broken(c, x) == /\ MayFail
                /\ trouble' = trouble + 1
                /\ call' = [call EXCEPT ![c] = [x EXCEPT !.calm = FALSE]]

Minus1(n) == IF n > 0 THEN n - 1 ELSE 0

\* DecrOccupancy, which either happens or fails; its error is dropped.
Decrement(a) ==
    \/ occ' = [occ EXCEPT ![a] = Minus1(@)] /\ UNCHANGED <<lost, faults>>
    \/ /\ MayFail
       /\ faults' = faults + 1
       /\ lost' = [lost EXCEPT ![a] = @ + 1]
       /\ UNCHANGED occ
-----------------------------------------------------------------------------
Init == /\ avail \in StartAvail
        /\ provState \in StartState
        /\ occ = [a \in Accounts |-> 0]
        /\ lost = [a \in Accounts |-> 0]
        /\ call = [c \in Callers |-> Idle]
        /\ picks = [c \in Callers |-> 0]
        /\ trouble = 0 /\ faults = 0

Begin(c, r) ==
    /\ call[c].pc = "idle" /\ picks[c] < MaxPicks
    /\ picks' = [picks EXCEPT ![c] = @ + 1]
    /\ Local(c, [Idle EXCEPT !.req = r, !.calm = TRUE,
                             !.auto = r.kind # "exact",
                             !.pc = IF r.kind = "exact" THEN "exact" ELSE "list"])
    /\ UNCHANGED <<env, occ, lost, trouble, faults>>

\* ResolveProvider: its checks in their order, and what pickExact makes of them.
ExactError(p) == CASE provState[p] = "missing"  -> "ProviderNotFound"
                   [] provState[p] = "inactive" -> "NoAvailableProvider"
                   [] provState[p] = "nomodel"  -> "ModelNotSupported"
                   [] ~HasAvailable(p)          -> "NoAccount"
                   [] OTHER                     -> "none"

ResolveExact(c) == LET x == call[c]
                       e == ExactError(x.req.key)
                   IN  /\ x.pc = "exact"
                       /\ Local(c, IF e = "none"
                                   THEN [x EXCEPT !.pc = "accounts", !.prov = x.req.key]
                                   ELSE ExactFails(x, e))
                       /\ UNCHANGED <<env, occ, lost, picks, trouble, faults>>

\* ResolveProviders: no candidate at all is reported as an unsupported model.
List(c) == LET x == call[c]
               ps == {p \in Providers : Candidate(p) /\ AllowsType(x.req, p)}
           IN  /\ x.pc = "list"
               /\ Local(c, IF ps = {} THEN AutoFails(x, "ModelNotSupported")
                           ELSE [x EXCEPT !.pc = "group", !.cands = ps])
               /\ UNCHANGED <<env, occ, lost, picks, trouble, faults>>

\* Top of the failover loop: a provider not yet tried, if there is one.
Group(c) == LET x == call[c]
                left == x.cands \ x.tried
            IN  /\ x.pc = "group"
                /\ \/ /\ left = {}
                      /\ Local(c, AutoFails(x, "NoAvailableProvider"))
                   \/ \E p \in left :
                         Local(c, [x EXCEPT !.pc = "accounts", !.prov = p])
                /\ UNCHANGED <<env, occ, lost, picks, trouble, faults>>

\* The caller's context is done when the loop looks at it.
Cancel(c) == /\ call[c].pc = "group"
             /\ Local(c, AutoFails([call[c] EXCEPT !.calm = FALSE], "Canceled"))
             /\ UNCHANGED <<env, occ, lost, picks, trouble, faults>>

\* ResolveAccounts reads the Available accounts of the provider once.
ReadAccounts(c) == LET x == call[c]
                       as == {a \in avail : Home[a] = x.prov}
                   IN  /\ x.pc = "accounts"
                       /\ Local(c, IF as = {} THEN ProviderFails(x, "NoAvailableAccount")
                                   ELSE [x EXCEPT !.pc = "filter", !.pool = as])
                       /\ UNCHANGED <<env, occ, lost, picks, trouble, faults>>

\* FilterAvailable drops the accounts whose counter has reached the limit.
FilterAvailable(c) == LET x == call[c]
                          free == {a \in x.pool : occ[a] < Limit[a]}
                      IN  /\ x.pc = "filter"
                          /\ Local(c, IF free = {} THEN ProviderFails(x, "OccupancyFull")
                                      ELSE [x EXCEPT !.pc = "select", !.pool = free])
                          /\ UNCHANGED <<env, occ, lost, picks, trouble, faults>>

\* Mutant of Choices: the retry bound is not looked at.
UnboundedChoices(x) == x.pool \ x.excl

\* The selector may choose any account that is offered.
Choices(x) == IF x.att <= MaxRetries THEN x.pool \ x.excl ELSE {}

\* The loop ends without an account: its bound is looked at first.
SelectNone(c) == LET x == call[c]
                 IN  /\ x.pc = "select" /\ Choices(x) = {}
                     /\ Local(c, ProviderFails(x, IF x.att > MaxRetries
                                                  THEN "MaxRetriesExceeded"
                                                  ELSE "NoAvailableAccount"))
                     /\ UNCHANGED <<env, occ, lost, picks, trouble, faults>>

\* Mutant of TryAccount: an off-by-one in the comparison with the limit.
TakesOneTooMany(c, a) ==
    LET x == call[c]
    IN  /\ x.pc = "select" /\ a \in Choices(x)
        /\ occ' = [occ EXCEPT ![a] = @ + 1]
        /\ Visible(c, [x EXCEPT !.acct = a,
                                !.pc = IF occ[a] + 1 > Limit[a] + 1 THEN "undo" ELSE "stamp"])
        /\ UNCHANGED <<env, lost, picks, trouble, faults>>

\* Selector.Select, then IncrOccupancy and the look at its result.
TryAccount(c, a) ==
    LET x == call[c]
    IN  /\ x.pc = "select" /\ a \in Choices(x)
        /\ occ' = [occ EXCEPT ![a] = @ + 1]
        /\ Visible(c, [x EXCEPT !.acct = a,
                                !.pc = IF occ[a] + 1 > Limit[a] THEN "undo" ELSE "stamp"])
        /\ UNCHANGED <<env, lost, picks, trouble, faults>>

\* IncrOccupancy fails: Acquire refuses, whether or not the store has counted.
IncrFails(c, a) ==
    LET x == call[c]
    IN  /\ x.pc = "select" /\ a \in Choices(x)
        /\ \/ /\ Broken(c, NextAttempt([x EXCEPT !.acct = a]))
              /\ UNCHANGED <<occ, lost, faults>>
           \/ /\ MayFail /\ faults' = faults + 1
              /\ occ' = [occ EXCEPT ![a] = @ + 1]
              /\ lost' = [lost EXCEPT ![a] = @ + 1]
              /\ Visible(c, NextAttempt([x EXCEPT !.acct = a, !.calm = FALSE]))
              /\ UNCHANGED trouble
        /\ UNCHANGED <<env, picks>>

\* The refused increment is taken back and the account is not tried again.
Undo(c) == /\ call[c].pc = "undo"
           /\ Decrement(call[c].acct)
           /\ Visible(c, NextAttempt(call[c]))
           /\ UNCHANGED <<env, picks, trouble>>

\* UpdateLastUsed succeeds and Pick returns the account.
Return(c) == /\ call[c].pc = "stamp"
             /\ Local(c, [Idle EXCEPT !.pc = "held", !.req = call[c].req,
                                   !.prov = call[c].prov, !.acct = call[c].acct])
             /\ UNCHANGED <<env, occ, lost, picks, trouble, faults>>

\* UpdateLastUsed fails: the slot goes back before the next attempt.
StampFails(c) == /\ call[c].pc = "stamp"
                 /\ Broken(c, [call[c] EXCEPT !.pc = "giveback"])
                 /\ UNCHANGED <<env, occ, lost, picks, faults>>

GiveBack(c) == /\ call[c].pc = "giveback"
               /\ Decrement(call[c].acct)
               /\ Visible(c, NextAttempt(call[c]))
               /\ UNCHANGED <<env, picks, trouble>>

\* A read fails.  FilterAvailable then keeps every account; ResolveProvider,
\* ResolveProviders and ResolveAccounts end what they were called for.
ReadFails(c) == LET x == call[c]
                IN  /\ \/ x.pc = "exact" /\ Broken(c, ExactFails(x, "StoreError"))
                       \/ x.pc = "list" /\ Broken(c, AutoFails(x, "StoreError"))
                       \/ x.pc = "accounts" /\ Broken(c, ProviderFails(x, "StoreError"))
                       \/ x.pc = "filter" /\ Broken(c, [x EXCEPT !.pc = "select"])
                    /\ UNCHANGED <<env, occ, lost, picks, faults>>

\* The statements of a running Pick that choose nothing, and all of them.
Working(c) == \/ ResolveExact(c) \/ Cancel(c) \/ ReadAccounts(c) \/ FilterAvailable(c)
              \/ SelectNone(c) \/ Undo(c) \/ Return(c) \/ StampFails(c) \/ GiveBack(c)
              \/ ReadFails(c)
Step(c) == \/ Working(c) \/ List(c) \/ Group(c)
           \/ \E a \in Accounts : TryAccount(c, a) \/ IncrFails(c, a)

\* The caller reports the call (Release is the first statement of both reports),
\* or it has seen the error.
Report(c) == /\ call[c].pc = "held"
             /\ Decrement(call[c].acct)
             /\ Visible(c, Idle)
             /\ UNCHANGED <<env, picks, trouble>>

SeesError(c) == /\ call[c].pc = "failed"
                /\ Local(c, Idle)
                /\ UNCHANGED <<env, occ, lost, picks, trouble, faults>>

\* The process dies holding a slot, and nobody returns it.
Die(c) == /\ call[c].pc \in {"undo", "stamp", "giveback", "held"}
          /\ MayFail /\ faults' = faults + 1
          /\ lost' = [lost EXCEPT ![call[c].acct] = @ + 1]
          /\ Local(c, Idle)
          /\ UNCHANGED <<env, occ, picks, trouble>>

\* Reports, health checks and operators change what Pick reads.
Disturb == /\ MayFail /\ trouble' = trouble + 1
           /\ call' = [c \in Callers |-> [call[c] EXCEPT !.calm = FALSE]]
           /\ UNCHANGED <<occ, lost, picks, faults>>
StatusChanges(a) == /\ avail' = IF a \in avail THEN avail \ {a} ELSE avail \cup {a}
                    /\ UNCHANGED provState
                    /\ Disturb
ProviderChanges(p, s) == /\ provState[p] # s
                         /\ provState' = [provState EXCEPT ![p] = s]
                         /\ UNCHANGED avail
                         /\ Disturb

\* Every caller has had its last Pick.
Finished == /\ \A c \in Callers : call[c].pc = "idle" /\ picks[c] = MaxPicks
            /\ UNCHANGED vars

Next == \/ \E c \in Callers, r \in Asked : Begin(c, r)
        \/ \E c \in Callers : Step(c) \/ Report(c) \/ SeesError(c) \/ Die(c)
        \/ \E a \in Accounts : StatusChanges(a)
        \/ \E p \in Providers, s \in ProvStates : ProviderChanges(p, s)
        \/ Finished

\* A goroutine inside Pick keeps running, as long as the stores answer.
Spec == Init /\ [][Next]_vars /\ \A c \in Callers : WF_vars(Step(c))

-----------------------------------------------------------------------------
Call == [pc : PcValues, req : Requests, auto : BOOLEAN, cands : SUBSET Providers,
         tried : SUBSET Providers, prov : Providers \cup {NoProvider},
         pool : SUBSET Accounts, excl : SUBSET Accounts, att : 0..(MaxRetries + 1),
         acct : Accounts \cup {NoAccount}, err : Errors, calm : BOOLEAN]

\* Every variable has its type; in particular the retry counter of
\* acquireFromAccounts never passes maxRetries + 1.
TypeOK == /\ avail \subseteq Accounts
          /\ provState \in [Providers -> ProvStates]
          /\ occ \in [Accounts -> Nat]
          /\ lost \in [Accounts -> Nat]
          /\ call \in [Callers -> Call]
          /\ picks \in [Callers -> 0..MaxPicks]
          /\ trouble \in 0..MaxTrouble
          /\ faults \in 0..MaxTrouble

\* Pick implements the counting protocol: on every path through the retry and
\* failover loops, with every store call failing somewhere, a Pick owes at most
\* one decrement, it never starts another attempt while it owes one, and the
\* account it hands out is the one whose slot it took.
ProtocolPc(c) == CASE call[c].pc = "undo" -> "over"
                   [] call[c].pc \in {"stamp", "giveback", "held"} -> "held"
                   [] OTHER -> "idle"

Protocol == INSTANCE Occupancy WITH
                MaxFaults <- MaxTrouble,
                peak <- Limit, LimitValues <- {Limit[a] : a \in Accounts},
                pc <- [c \in Callers |-> ProtocolPc(c)],
                acct <- [c \in Callers |-> IF ProtocolPc(c) = "idle" THEN NoAccount
                                           ELSE call[c].acct]

OccupancySpec == Protocol!Spec

\* The attempts that acquireFromAccounts counts are attempts on different
\* accounts, all of them among those that passed the filter: ExcludeAccountIDs
\* and the counter stay in step on every path through the loop.
AttemptsAreDistinct ==
    \A c \in Callers : LET x == call[c]
                       IN  /\ Cardinality(x.excl) = x.att
                           /\ x.excl \subseteq x.pool
                           /\ x.acct \notin x.excl

\* The account handed out belongs to the provider the result names, and the
\* provider is one the request allows: fallback from an exact provider may leave
\* it for another of its type, and only if failover is on.
Honours(r, p) == /\ AllowsType(r, p)
                 /\ r.kind = "exact" /\ ~r.failover => p = r.key
ResultHonoursRequest ==
    \A c \in Callers : LET x == call[c]
                       IN  x.pc = "held" => /\ Home[x.acct] = x.prov
                                            /\ Honours(x.req, x.prov)

\* A Pick that nobody interferes with, and no store lets down, fails only if it
\* could not have succeeded: with failover, or for an exact provider, no account
\* in reach is available below its limit.
Reachable(r) == {a \in avail : /\ Candidate(Home[a])
                               /\ Honours(r, Home[a])
                               /\ occ[a] < Limit[a]}
CompleteWhenUndisturbed ==
    \A c \in Callers : LET x == call[c]
                       IN  x.pc = "failed" /\ x.calm /\ (x.req.failover \/ ~x.auto)
                              => Reachable(x.req) = {}

\* Every Pick returns: the retry loop and the failover loop around it end,
\* however often other callers win the race for a slot.
PickReturns ==
    \A c \in Callers : call[c].pc \notin {"idle", "held", "failed"}
                          ~> call[c].pc \in {"idle", "held", "failed"}
=============================================================================
