-------------------------- MODULE AccountLifecycle --------------------------
(***************************************************************************)
(* The status of one account, and everyone who writes it at the same time  *)
(* through UpdateAccount, which refuses a stale version:                   *)
(*   reporters  ReportSuccess and ReportFailure, with the quota callback   *)
(*              of newUsageTrackerWithCooldown;                            *)
(*   checkers   the health checker with NewDefaultReportCallback;          *)
(*   daemons    the health checker with the callback of the health command *)
(*              (persistHealthReport);                                     *)
(*   operators  whoever disables or enables an account, or edits it.       *)
(* A step is one call to a store.  Deadlines are values of a small clock;  *)
(* 0 is the nil pointer.                                                   *)
(*                                                                         *)
(* Bounds: MaxReports calls reported and rounds of a daemon, together;     *)
(* MaxEvents suggestions of checks that talk to the platform, operator     *)
(* writes and store errors, together; and MaxNow, at which every deadline  *)
(* has passed.                                                             *)
(***************************************************************************)
EXTENDS Naturals, Sequences

CONSTANTS Reporters, Checkers, Daemons,
          Managed,        \* the checkers whose callback has a CooldownManager, which is optional
          Crews,          \* bound: the sets of threads that run side by side
          Threshold,      \* dynamicThreshold: consecutive failures that trip
          Findings,       \* bound: what the platform checks suggest in this run
          MaxReports, MaxEvents, MaxNow

ASSUME ThresholdPositive == Threshold \in Nat \ {0}
ASSUME BoundsNatural == MaxReports \in Nat /\ MaxEvents \in Nat /\ MaxNow \in Nat

VARIABLES acct,     \* the stored account: status, deadlines, version
          fails,    \* ConsecutiveFailures, counted up to Threshold
          me,       \* me[t]: the local variables of thread t
          now,      \* the clock
          reports, events     \* how much of the bounds is spent

vars == <<acct, fails, me, now, reports, events>>

spent == <<reports, events>>

Threads == Reporters \cup Checkers \cup Daemons

ASSUME CrewsAreThreads == Crews \subseteq SUBSET Threads /\ Managed \subseteq Checkers

Status == {"Available", "CoolingDown", "CircuitOpen", "Expired", "Invalidated",
           "Banned", "Disabled"}
Deadlines == 0..(MaxNow + 1)
Account == [status : Status, cool : Deadlines, circ : Deadlines, ver : Nat]

\* Suggestions: a status, or "refreshed": Available and a new credential.
Suggestions == Status \cup {"refreshed"}

\* A circuit is opened by reports, never by a check.
ASSUME FindingsAreSuggestions == Findings \subseteq Suggestions \ {"CircuitOpen"}

New == [status |-> "Available", cool |-> 0, circ |-> 0, ver |-> 1]
None == [New EXCEPT !.ver = 0]     \* no copy of the account

PcValues == {"off", "idle", "quota", "cool", "stats", "closing", "record", "close", "reset",
             "judge", "put", "again", "putagain", "checks", "fetch", "apply", "persist"}

\* snap is t's copy of the account, base what it was when t read it; todo are the
\* suggestions to apply, dirty whether snap has to be written.
Idle == [pc |-> "idle", snap |-> None, base |-> None, then |-> "idle",
         limited |-> FALSE, n |-> 0, todo |-> <<>>, dirty |-> FALSE]
Off == [Idle EXCEPT !.pc = "off"]     \* this thread does not run at all

Local == [pc : PcValues, snap : Account, base : Account, then : PcValues,
          limited : BOOLEAN, n : 0..Threshold, todo : Seq(Suggestions),
          dirty : BOOLEAN]

-----------------------------------------------------------------------------
\* StartCooldown and RecordFailure set a deadline in the future.
Later == now + 1

\* IsCooldownExpired, IsCircuitOpenExpired: nil counts as expired.
Passed(d) == d <= now \/ now = MaxNow

Cooled(a) == [a EXCEPT !.status = "CoolingDown", !.cool = Later]
Tripped(a) == [a EXCEPT !.status = "CircuitOpen", !.circ = Later]
Closed(a) == [a EXCEPT !.status = IF @ = "CircuitOpen" THEN "Available" ELSE @, !.circ = 0]

Goto(t, l) == me' = [me EXCEPT ![t].pc = l]
Return(t) == me' = [me EXCEPT ![t] = Idle]

\* t is done with its copy of the account.
Proceed(t, l) == IF l = "idle" THEN Return(t)
                 ELSE me' = [me EXCEPT ![t].pc = l, ![t].snap = None, ![t].base = None]

\* GetAccount: t works on a copy of what is stored.
Reads(t, l, copy) ==
    me' = [me EXCEPT ![t].pc = l, ![t].snap = copy, ![t].base = acct]

KeepsVersion(a) == a     \* mutant

\* UpdateAccount of a current version: the fields are stored, Version++.
Stored(a) == [a EXCEPT !.ver = @ + 1]

AlwaysCurrent(t) == TRUE     \* mutant
Current(t) == me[t].snap.ver = acct.ver

\* UpdateAccount by t: the next statement is "ok", or "conflict".
Put(t, ok, conflict) ==
    IF Current(t)
    THEN acct' = Stored(me[t].snap) /\ Proceed(t, ok)
    ELSE UNCHANGED acct /\ IF conflict = "again" THEN Goto(t, "again")
                            ELSE Proceed(t, conflict)

NewReport == reports < MaxReports /\ reports' = reports + 1 /\ UNCHANGED events
NewEvent == events < MaxEvents /\ events' = events + 1 /\ UNCHANGED reports

-----------------------------------------------------------------------------
Init == /\ acct = New
        /\ fails = 0
        /\ \E crew \in Crews : me = [t \in Threads |-> IF t \in crew THEN Idle ELSE Off]
        /\ now = 0
        /\ reports = 0 /\ events = 0

\* ---- ReportSuccess

\* IncrSuccess zeroes the failures.  RecordUsage may then find a rule over its
\* safety ratio and call the quota callback, or fail and end the report.
Success(r) == /\ me[r].pc = "idle" /\ NewReport
              /\ fails' = 0
              /\ \/ Return(r)
                 \/ \E q \in {"quota", "stats"} :
                       me' = [me EXCEPT ![r].pc = q, ![r].then = "stats"]
              /\ UNCHANGED <<acct, now>>

\* GetStats: only failures counted since IncrSuccess lead to the circuit breaker.
Stats(r) == /\ me[r].pc = "stats"
            /\ Goto(r, IF fails > 0 THEN "closing" ELSE "reset")
            /\ UNCHANGED <<acct, fails, now, spent>>

ReadToClose(r) == /\ me[r].pc = "closing"
                  /\ Reads(r, "record", acct)
                  /\ UNCHANGED <<acct, fails, now, spent>>

\* CircuitBreaker.RecordSuccess, then CircuitOpen becomes Available.
RecordSuccess(r) ==
    /\ me[r].pc = "record"
    /\ fails' = 0
    /\ me' = [me EXCEPT ![r].snap = Closed(@),
                        ![r].pc = IF me[r].snap.status = "CircuitOpen" THEN "close"
                                  ELSE "reset"]
    /\ UNCHANGED <<acct, now, spent>>

Close(r) == /\ me[r].pc = "close"
            /\ Put(r, "reset", "idle")
            /\ UNCHANGED <<fails, now, spent>>

ResetFailures(r) == /\ me[r].pc = "reset"
                    /\ fails' = 0
                    /\ Return(r)
                    /\ UNCHANGED <<acct, now, spent>>

\* ---- the quota callback

\* Mutant of QuotaCallback: the status is not looked at.
CoolsAnyStatus(r) == /\ me[r].pc = "quota"
                   /\ Reads(r, "cool", Cooled(acct))
                   /\ UNCHANGED <<acct, fails, now, spent>>

\* Only an Available account is sent to cool down.
QuotaCallback(r) == /\ me[r].pc = "quota"
                    /\ IF acct.status = "Available" THEN Reads(r, "cool", Cooled(acct))
                       ELSE Goto(r, me[r].then)
                    /\ UNCHANGED <<acct, fails, now, spent>>

QuotaPut(r) == /\ me[r].pc = "cool"
               /\ Put(r, me[r].then, me[r].then)
               /\ UNCHANGED <<fails, now, spent>>

\* ---- ReportFailure

\* IncrFailure returns the failures in a row; a rate limit counts as one too.
Failure(r, limited) ==
    /\ me[r].pc = "idle" /\ NewReport
    /\ fails' = IF fails < Threshold THEN fails + 1 ELSE fails
    /\ \E q \in {"quota", "judge"} :
          me' = [me EXCEPT ![r].pc = q, ![r].then = "judge", ![r].limited = limited,
                           ![r].n = fails']
    /\ UNCHANGED <<acct, now>>

\* GetAccount; a rate limit cools down, enough failures in a row trip.
Judge(r) == /\ me[r].pc = "judge"
            /\ CASE me[r].limited        -> Reads(r, "put", Cooled(acct))
                 [] ~me[r].limited /\ me[r].n >= Threshold -> Reads(r, "put", Tripped(acct))
                 [] OTHER                -> Return(r)
            /\ UNCHANGED <<acct, fails, now, spent>>

FailurePut(r) == /\ me[r].pc = "put"
                 /\ Put(r, "idle", "again")
                 /\ UNCHANGED <<fails, now, spent>>

\* Mutant of ReadAgain: the status is carried over without its deadline.
ReadAgainForgetsDeadlines(r) ==
    /\ me[r].pc = "again"
    /\ IF acct.status \in {"Banned", "Invalidated", "Disabled", "CircuitOpen"} THEN Return(r)
       ELSE Reads(r, "putagain", [acct EXCEPT !.status = me[r].snap.status])
    /\ UNCHANGED <<acct, fails, now, spent>>

\* After a conflict the latest version gets the same status and deadlines,
\* unless it is in a graver status.
ReadAgain(r) ==
    /\ me[r].pc = "again"
    /\ IF acct.status \in {"Banned", "Invalidated", "Disabled", "CircuitOpen"} THEN Return(r)
       ELSE Reads(r, "putagain", [me[r].snap EXCEPT !.ver = acct.ver])
    /\ UNCHANGED <<acct, fails, now, spent>>

PutAgain(r) == /\ me[r].pc = "putagain"
               /\ Put(r, "idle", "idle")
               /\ UNCHANGED <<fails, now, spent>>

\* ---- health checks

\* TargetProvider hands out a copy of the account.
Look(h) == /\ me[h].pc = "idle"
           /\ IF h \in Daemons THEN NewReport ELSE UNCHANGED spent
           /\ Reads(h, "checks", acct)
           /\ UNCHANGED <<acct, fails, now>>

\* Mutant of Recovery: nothing is ever suggested.
NeverRecovers(a) == <<>>

\* RecoveryCheck looks at the copy; it suggests nothing for other statuses.
Recovery(a) == IF \/ a.status = "CoolingDown" /\ Passed(a.cool)
                  \/ a.status = "CircuitOpen" /\ Passed(a.circ)
               THEN <<"Available">> ELSE <<>>

\* The checks run; those that talk to the platform may suggest a status, before
\* or after RecoveryCheck does.  Then the callback reads the account afresh.
RunChecks(h) ==
    LET found == Recovery(me[h].snap)
    IN  /\ me[h].pc = "checks"
        /\ \/ /\ me' = [me EXCEPT ![h].pc = "fetch", ![h].todo = found]
              /\ UNCHANGED spent
           \/ \E s \in Findings, first \in BOOLEAN :
                 /\ NewEvent
                 /\ me' = [me EXCEPT ![h].pc = "fetch",
                                     ![h].todo = IF first THEN <<s>> \o found
                                                 ELSE found \o <<s>>]
        /\ UNCHANGED <<acct, fails, now>>

\* ---- NewDefaultReportCallback

Fetch(h) == /\ me[h].pc = "fetch" /\ h \in Checkers
            /\ Reads(h, "apply", acct)
            /\ UNCHANGED <<acct, fails, now, spent>>

\* Mutant of Suggested: the status is stored without looking at it.
StoresSuggestion(h, a, s, until) == [a EXCEPT !.status = s]

\* handleCooldown: the CooldownManager always sets a deadline; without one there is one only
\* if the report carries it.
Cooling(h, a, until) == IF h \in Managed \/ until THEN Cooled(a)
                        ELSE [a EXCEPT !.status = "CoolingDown"]

\* handleSuggestedStatus.
Suggested(h, a, s, until) ==
    CASE s \in {"Available", "refreshed"} /\ a.status # "Available" ->
           [a EXCEPT !.status = "Available", !.cool = 0, !.circ = 0]
      [] s = "CoolingDown" /\ a.status \in {"Available", "CircuitOpen"} -> Cooling(h, a, until)
      [] s \notin {"Available", "refreshed", "CoolingDown"} -> [a EXCEPT !.status = s]
      [] OTHER -> a

\* One result at a time, in order, with a cooldown_until or without; a refreshed credential
\* is stored in any case.
Apply(h) ==
    /\ me[h].pc = "apply" /\ me[h].todo # <<>>
    /\ \E until \in BOOLEAN :
          LET s == Head(me[h].todo)
              a == Suggested(h, me[h].snap, s, until)
          IN  me' = [me EXCEPT ![h].todo = Tail(@), ![h].snap = a,
                               ![h].dirty = @ \/ s = "refreshed" \/ a # me[h].snap]
    /\ UNCHANGED <<acct, fails, now, spent>>

\* What UpdateAccount returns is ignored.
Persist(h) == /\ me[h].pc = "apply" /\ me[h].todo = <<>>
              /\ IF me[h].dirty THEN Put(h, "idle", "idle")
                 ELSE Return(h) /\ UNCHANGED acct
              /\ UNCHANGED <<fails, now, spent>>

\* ---- persistHealthReport of the health command

\* The last suggestion is the new status, and without one the account becomes
\* Available; a deadline is set if the suggestion to cool down came with one.
Reported(a, todo, until) ==
    LET s == IF todo = <<>> THEN "Available" ELSE todo[Len(todo)]
    IN  CASE s = "refreshed" -> [a EXCEPT !.status = "Available"]
          [] s = "CoolingDown" /\ until -> Cooled(a)
          [] OTHER -> [a EXCEPT !.status = s]

DaemonFetch(d) == /\ me[d].pc = "fetch" /\ d \in Daemons
                  /\ \E until \in BOOLEAN :
                        Reads(d, "persist", Reported(acct, me[d].todo, until))
                  /\ UNCHANGED <<acct, fails, now, spent>>

DaemonPut(d) == /\ me[d].pc = "persist"
                /\ Put(d, "idle", "idle")
                /\ UNCHANGED <<fails, now, spent>>

\* ---- everyone

\* A store call of t fails.  The quota callback gives up on its own, GetStats
\* counts as no failures, and any other thread ends what it was doing.
StoreFails(t) ==
    /\ me[t].pc \notin {"off", "idle", "checks"}
    /\ NewEvent
    /\ CASE me[t].pc \in {"quota", "cool"} -> Goto(t, me[t].then)
         [] me[t].pc = "stats" -> Goto(t, "reset")
         [] OTHER -> Return(t)
    /\ UNCHANGED <<acct, fails, now>>

\* An operator's UpdateAccount, or one of account update, which leaves the status.
Operator(s) == /\ NewEvent
               /\ acct' = Stored([acct EXCEPT !.status = s])
               /\ UNCHANGED <<fails, me, now>>

Tick == now < MaxNow /\ now' = now + 1 /\ UNCHANGED <<acct, fails, me, spent>>

ReporterStep(r) == \/ Stats(r) \/ ReadToClose(r) \/ RecordSuccess(r) \/ Close(r)
                   \/ ResetFailures(r) \/ QuotaCallback(r) \/ QuotaPut(r)
                   \/ Judge(r) \/ FailurePut(r) \/ ReadAgain(r) \/ PutAgain(r)
CheckerStep(h) == \/ Look(h) \/ RunChecks(h) \/ Fetch(h) \/ Apply(h) \/ Persist(h)
                  \/ DaemonFetch(h) \/ DaemonPut(h)

Next == \/ \E r \in Reporters : \/ Success(r) \/ ReporterStep(r)
                                \/ \E limited \in BOOLEAN : Failure(r, limited)
        \/ \E h \in Checkers \cup Daemons : CheckerStep(h)
        \/ \E t \in Threads : StoreFails(t)
        \/ \E s \in {acct.status, "Available", "Disabled"} : Operator(s)
        \/ Tick

\* Time passes, and the ticker of backgroundLoop keeps running the checks.
Spec == /\ Init /\ [][Next]_vars
        /\ WF_vars(Tick)
        /\ \A r \in Reporters : WF_vars(ReporterStep(r))
        /\ \A h \in Checkers \cup Daemons : WF_vars(CheckerStep(h))

-----------------------------------------------------------------------------
\* Every variable has its type; a credential refreshed is never taken for a status.
TypeOK == /\ acct \in Account
          /\ fails \in 0..Threshold
          /\ me \in [Threads -> Local]
          /\ now \in 0..MaxNow
          /\ reports \in Nat /\ events \in Nat

\* A version names one content: whoever still has the current version has read
\* what is stored now.  Every write of UpdateAccount counts Version up.
VersionNamesContent ==
    \A t \in Threads : /\ me[t].base.ver = me[t].snap.ver
                       /\ me[t].base.ver <= acct.ver
                       /\ me[t].base.ver = acct.ver => me[t].base = acct

\* The step is a write of t, one of its UpdateAccount calls that succeeds.
Writes(t, labels) == me[t].pc \in labels /\ me'[t] # me[t] /\ acct' # acct

\* No update is lost: whoever writes the account has read exactly what its write
\* replaces, be it a report, its retry, the quota callback or a health check.
NoLostUpdate == [][\A t \in Threads : Writes(t, PcValues) => me[t].base = acct]_vars

\* The decisions that look at the status before they write still hold at the
\* write: the quota callback cools down only an Available account, and the retry
\* after a conflict overwrites neither a terminal status nor an open circuit.
ChecksHoldAtWrite ==
    [][\A r \in Reporters :
          /\ Writes(r, {"cool"}) => acct.status = "Available"
          /\ Writes(r, {"putagain"}) =>
                acct.status \notin {"Banned", "Invalidated", "Disabled", "CircuitOpen"}]_vars

\* An account whose circuit is open always has a time at which it may come back; nil would
\* count as expired at once.  A cooling account has one too, unless a suggestion to cool down
\* without a deadline is stored as it came: by the health command, or by a health check whose
\* callback has no CooldownManager.
Timeless(a) == \/ a.status = "CoolingDown" /\ a.cool = 0
               \/ a.status = "CircuitOpen" /\ a.circ = 0
DeadlinesSet == [][Timeless(acct') /\ ~Timeless(acct) =>
                      /\ acct'.status = "CoolingDown"
                      /\ \/ \E d \in Daemons : Writes(d, {"persist"})
                         \/ \E h \in Checkers \ Managed : Writes(h, {"apply"})]_vars

\* With a health checker running, a cooling account or an open circuit does not
\* stay so for ever, once calls are no longer failing.
Recovers == acct.status \in {"CoolingDown", "CircuitOpen"} /\ (\E h \in Checkers : me[h].pc # "off")
               ~> acct.status \notin {"CoolingDown", "CircuitOpen"}

\* account-lifecycle.md: Invalidated, Banned and Disabled are not left but by a
\* human.
TerminalStays ==
    [][acct.status \in {"Invalidated", "Banned", "Disabled"} /\ me' # me
          => acct'.status \in {"Invalidated", "Banned", "Disabled"}]_vars
=============================================================================
