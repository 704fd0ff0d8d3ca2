-------------------------- MODULE HealthScheduler --------------------------
(***************************************************************************)
(* defaultHealthChecker: checks are registered with an interval, sorted by *)
(* their dependencies, and run against every target by a background loop   *)
(* that Start spawns and Stop ends.  A run of the loop is one generation:  *)
(* Start makes its context and its done channel under the lock, but the    *)
(* goroutine looks at c.done (`defer close(c.done)`) only when it begins,  *)
(* and by then the field may hold the channel of the next generation.      *)
(*                                                                         *)
(* The loop scans all targets once, in the order of the dependencies, and  *)
(* then runs on every tick the checks whose interval is over.  Time is     *)
(* counted by the ticks the loop takes: age is how long ago a check ran,   *)
(* up to the longest interval.  A check passes (or warns) or fails (or     *)
(* errs) as it likes; what a report leads to is the business of            *)
(* AccountLifecycle.                                                       *)
(*                                                                         *)
(* Bounds: MaxStarts generations, MaxInterval the longest interval,        *)
(* MaxChanges calls of Register, Unregister and changes of leadership; a   *)
(* check of the same name always depends on the same checks.               *)
(***************************************************************************)
EXTENDS Integers, Sequences, FiniteSets, Functions

CONSTANTS Callers,                 \* whoever calls Start and Stop
          Checks, Targets,
          Programs,                \* bound: what may be registered when the program starts,
                                   \* with dependencies and intervals (0 for none)
          NewIntervals,            \* bound: the intervals of what is registered later
          MaxInterval, MaxStarts, MaxChanges

ASSUME ScheduleData == /\ IsFiniteSet(Checks)
                       /\ Programs \subseteq [enabled : SUBSET Checks,
                                               dependsOn : [Checks -> SUBSET Checks],
                                               interval : [Checks -> 0..MaxInterval]]
                       /\ NewIntervals \subseteq 0..MaxInterval
                       /\ MaxStarts \in Nat /\ MaxInterval \in Nat /\ MaxChanges \in Nat

VARIABLES dependsOn,   \* the dependencies of each check
          enabled,     \* the checks registered, but for those that are disabled
          interval,    \* their intervals
          sortedChecks,\* their order as cached, or <<>> with sortErr
          sortErr,
          leader,      \* what the elector says; without one always TRUE
          starts,      \* generations so far; channel g and context g are those of run g
          running,     \* c.cancel: the generation it cancels, or 0
          cancelled,   \* the generations whose context is cancelled
          closed,      \* the done channels closed
          panicked,    \* a channel was closed twice
          loop,        \* loop[g]: the goroutine of generation g
          waits,       \* waits[u]: the channel that u's Stop waits for, or 0
          late,        \* history: a Start overtook a goroutine that had not begun
          changes

control == <<starts, running, waits>>
registry == <<dependsOn, enabled, interval, sortedChecks, sortErr, leader, changes>>
vars == <<control, registry, cancelled, closed, panicked, loop, late>>

Gens == 1..MaxStarts
Orders(S) == {q \in [1..Cardinality(S) -> S] : Range(q) = S}

-----------------------------------------------------------------------------
\* Kahn's algorithm.  inDegree counts dependencies among the checks at hand only; the
\* maps are iterated in any order, q and what is appended to it included.
InDegree(S) == [x \in S |-> Cardinality(dependsOn[x] \cap S)]

StartsAnywhere(S) == {[queue |-> q, degree |-> InDegree(S), sorted |-> <<>>] : q \in Orders(S)}  \* mutant

Ready(S) == {[queue |-> q, degree |-> InDegree(S), sorted |-> <<>>] :
                q \in Orders({x \in S : InDegree(S)[x] = 0})}

\* One round of the loop over the queue, which leaves a state with an empty queue alone.
Round(st) ==
    LET x == Head(st.queue)
        next == {y \in DOMAIN st.degree : x \in dependsOn[y]}
        less == [y \in DOMAIN st.degree |-> IF y \in next THEN st.degree[y] - 1 ELSE st.degree[y]]
        free == {y \in next : less[y] = 0}
    IN  IF st.queue = <<>> THEN {st}
        ELSE {[queue |-> Tail(st.queue) \o f, degree |-> less, sorted |-> Append(st.sorted, x)] :
                 f \in Orders(free)}

\* The loop ends within as many rounds as there are checks: none is queued twice.
Kahn(S) ==
    LET after[n \in 0..Cardinality(S)] ==
            IF n = 0 THEN Ready(S) ELSE UNION {Round(st) : st \in after[n - 1]}
    IN  after

TopologicalSort(S) == {st.sorted : st \in Kahn(S)[Cardinality(S)]}

\* rebuildSortedChecksLocked: the order is nil when there is a cycle.
Rebuild(S) == \E s \in TopologicalSort(S) :
                 /\ sortErr' = (Len(s) # Cardinality(S))
                 /\ sortedChecks' = IF sortErr' THEN <<>> ELSE s

-----------------------------------------------------------------------------
\* todo: the targets still to come; left and results: the checks still to run against the
\* target at hand in a scan, and those that did; due and owed: all checks of a tick, and
\* those still to run against the target at hand; age: by lastRun, which starts empty.
NoLoop == [pc |-> "none", chan |-> 0, tick |-> 0, todo |-> {}, left |-> <<>>,
           results |-> <<>>, due |-> {}, owed |-> {}, age |-> [x \in Checks |-> MaxInterval]]

Init == /\ \E p \in Programs :
              enabled = p.enabled /\ dependsOn = p.dependsOn /\ interval = p.interval
        /\ \E s \in TopologicalSort(enabled) :
              /\ sortErr = (Len(s) # Cardinality(enabled))
              /\ sortedChecks = IF sortErr THEN <<>> ELSE s
        /\ leader \in BOOLEAN
        /\ starts = 0 /\ running = 0 /\ cancelled = {} /\ closed = {} /\ panicked = FALSE
        /\ loop = [g \in Gens |-> NoLoop]
        /\ waits = [u \in Callers |-> 0]
        /\ late = FALSE /\ changes = 0

Changes == changes < MaxChanges /\ changes' = changes + 1

\* A schedule with interval n; it overrides the one that the check may have.
Register(x, n) == /\ Changes
                  /\ enabled' = enabled \cup {x}
                  /\ interval' = [interval EXCEPT ![x] = n]
                  /\ Rebuild(enabled')
                  /\ UNCHANGED <<control, dependsOn, leader, cancelled, closed, panicked, loop, late>>

\* Unregister, or Register with a schedule that is not enabled: nothing looks at such a one.
Unregister(x) == /\ Changes /\ x \in enabled
                 /\ enabled' = enabled \ {x}
                 /\ Rebuild(enabled')
                 /\ UNCHANGED <<control, dependsOn, interval, leader, cancelled, closed, panicked,
                                loop, late>>

\* Another instance becomes the leader, or this one does.
Elect == /\ Changes /\ leader' = ~leader
         /\ UNCHANGED <<control, dependsOn, enabled, interval, sortedChecks, sortErr, cancelled,
                        closed, panicked, loop, late>>

\* Start: an error while a run is there; lastRun starts empty.
Start(u) == /\ waits[u] = 0 /\ running = 0 /\ starts < MaxStarts /\ ~panicked
            /\ starts' = starts + 1 /\ running' = starts + 1
            /\ loop' = [loop EXCEPT ![starts + 1].pc = "new"]
            /\ late' = (late \/ \E g \in Gens : loop[g].pc = "new")
            /\ UNCHANGED <<registry, cancelled, closed, panicked, waits>>

\* Stop, under the lock: c.cancel is reset.  A Stop that finds it reset returns at once,
\* whether or not the loop that another Stop waits for has ended.
Stop(u) == /\ waits[u] = 0 /\ ~panicked
           /\ \/ running = 0 /\ UNCHANGED vars
              \/ /\ running # 0 /\ running' = 0
                 /\ waits' = [waits EXCEPT ![u] = running]
                 /\ UNCHANGED <<starts, registry, cancelled, closed, panicked, loop, late>>

\* After the unlock Stop cancels the context.
Cancel(u) == /\ waits[u] \notin cancelled \cup {0} /\ ~panicked
             /\ cancelled' = cancelled \cup {waits[u]}
             /\ UNCHANGED <<control, registry, closed, panicked, loop, late>>

\* The context that Start was given is cancelled.  c.cancel stays as it is, so no Start
\* succeeds before a Stop although the loop will end.
CancelParent == /\ running \notin cancelled \cup {0} /\ ~panicked
                /\ cancelled' = cancelled \cup {running}
                /\ UNCHANGED <<control, registry, closed, panicked, loop, late>>

WaitsForNoOne(u) ==        \* mutant
    /\ waits[u] # 0 /\ ~panicked
    /\ waits' = [waits EXCEPT ![u] = 0]
    /\ UNCHANGED <<starts, running, registry, cancelled, closed, panicked, loop, late>>

\* And waits for c.done.
Stopped(u) == /\ waits[u] \in cancelled \cap closed /\ ~panicked
              /\ waits' = [waits EXCEPT ![u] = 0]
              /\ UNCHANGED <<starts, running, registry, cancelled, closed, panicked, loop,
                             late>>

-----------------------------------------------------------------------------
Step(g, at) == loop[g].pc = at /\ ~panicked

MadeOnce(g) == 1        \* mutant: one channel for all runs
ChannelSeen(g) == starts

Scans(l) == [l EXCEPT !.pc = IF leader THEN "scan" ELSE "arm",
                      !.todo = IF leader THEN Targets ELSE {}]

\* The goroutine begins: it evaluates c.done and whether it is the leader.
Begin(g) == /\ Step(g, "new")
            /\ loop' = [loop EXCEPT ![g] = Scans([@ EXCEPT !.chan = ChannelSeen(g)])]
            /\ UNCHANGED <<control, registry, cancelled, closed, panicked, late>>

Ended(l) == [NoLoop EXCEPT !.pc = "ended", !.chan = l.chan]

\* The deferred close.
Close(g) == /\ closed' = closed \cup {loop[g].chan}
            /\ panicked' = (loop[g].chan \in closed)
            /\ loop' = [loop EXCEPT ![g] = Ended(@)]

\* runFullScan: the next target, for which RunAll takes the order cached now, if any.
NextTarget(g, t) ==
    /\ Step(g, "scan") /\ loop[g].left = <<>> /\ t \in loop[g].todo /\ g \notin cancelled
    /\ loop' = [loop EXCEPT ![g].todo = @ \ {t}, ![g].left = sortedChecks,
                            ![g].results = <<>>]
    /\ UNCHANGED <<control, registry, cancelled, closed, panicked, late>>

\* The scan is over, or given up.
ScanDone(g) ==
    /\ Step(g, "scan") /\ loop[g].left = <<>>
    /\ loop[g].todo = {} \/ g \in cancelled
    /\ loop' = [loop EXCEPT ![g] = [NoLoop EXCEPT !.pc = "arm", !.chan = loop[g].chan]]
    /\ UNCHANGED <<control, registry, cancelled, closed, panicked, late>>

LooksAtFailuresOnly(x, rs) ==      \* mutant
    \E i \in DOMAIN rs : rs[i].check \in dependsOn[x] /\ rs[i].status = "failed"

\* A dependency has failed or was skipped itself.
ShouldSkip(x, rs) ==
    \E i \in DOMAIN rs : rs[i].check \in dependsOn[x] /\ rs[i].status \in {"failed", "skipped"}

Outcomes(x, rs) == IF ShouldSkip(x, rs) THEN {"skipped"} ELSE {"passed", "failed"}

\* The next check of RunAll; the report is handed over after the last.
RunCheck(g) ==
    /\ Step(g, "scan") /\ loop[g].left # <<>>
    /\ \E s \in Outcomes(Head(loop[g].left), loop[g].results) :
          loop' = [loop EXCEPT ![g].left = Tail(@),
                               ![g].results = Append(@, [check |-> Head(loop[g].left),
                                                         status |-> s])]
    /\ UNCHANGED <<control, registry, cancelled, closed, panicked, late>>

SetMin(S) == CHOOSE n \in S : \A m \in S : n <= m

\* The checks that ticks run at all: enabled, with an interval above 0.
Ticking == {x \in enabled : interval[x] > 0}
MinInterval == SetMin({interval[x] : x \in Ticking})

LeavesWithoutClosing(g) ==     \* mutant
    /\ Step(g, "arm")
    /\ loop' = [loop EXCEPT ![g] = IF Ticking = {} THEN Ended(@)
                                   ELSE [@ EXCEPT !.pc = "select", !.tick = MinInterval]]
    /\ UNCHANGED <<closed, panicked, control, registry, cancelled, late>>

\* getMinInterval, once: with no check for ticks the loop returns for good.
Arm(g) == /\ Step(g, "arm")
          /\ IF Ticking = {} THEN Close(g)
             ELSE /\ loop' = [loop EXCEPT ![g].pc = "select", ![g].tick = MinInterval]
                  /\ UNCHANGED <<closed, panicked>>
          /\ UNCHANGED <<control, registry, cancelled, late>>

\* <-ctx.Done()
Done(g) == /\ Step(g, "select") /\ g \in cancelled
           /\ Close(g)
           /\ UNCHANGED <<control, registry, cancelled, late>>

Older(l) == [x \in Checks |-> IF l.age[x] + l.tick < MaxInterval THEN l.age[x] + l.tick
                              ELSE MaxInterval]

\* <-ticker.C, and tickRun up to the list of the checks that are due.
Tick(g) ==
    /\ Step(g, "select")
    /\ LET older == Older(loop[g])
           due == {x \in Ticking : older[x] >= interval[x]}
       IN  IF leader /\ due # {}
           THEN loop' = [loop EXCEPT ![g].pc = "tick", ![g].age = older, ![g].due = due,
                                     ![g].todo = Targets]
           ELSE loop' = [loop EXCEPT ![g].age = older]
    /\ UNCHANGED <<control, registry, cancelled, closed, panicked, late>>

TickTarget(g, t) ==
    /\ Step(g, "tick") /\ loop[g].owed = {} /\ t \in loop[g].todo
    /\ loop' = [loop EXCEPT ![g].todo = @ \ {t}, ![g].owed = loop[g].due]
    /\ UNCHANGED <<control, registry, cancelled, closed, panicked, late>>

\* The next due check, in the order of a map: no result before it keeps it from running.
TickCheck(g) ==
    /\ Step(g, "tick") /\ loop[g].owed # {} /\ g \notin cancelled
    /\ \E x \in loop[g].owed : loop' = [loop EXCEPT ![g].owed = @ \ {x}]
    /\ UNCHANGED <<control, registry, cancelled, closed, panicked, late>>

BackToSelect(l) == [NoLoop EXCEPT !.pc = "select", !.chan = l.chan, !.tick = l.tick,
                               !.age = l.age]

\* The context is cancelled before a check: the results of the target are dropped.
TickGivenUp(g) ==
    /\ Step(g, "tick") /\ loop[g].owed # {} /\ g \in cancelled
    /\ loop' = [loop EXCEPT ![g] = BackToSelect(@)]
    /\ UNCHANGED <<control, registry, cancelled, closed, panicked, late>>

NeverRan(l) == l.age       \* mutant
Ran(l) == [x \in Checks |-> IF x \in l.due THEN 0 ELSE l.age[x]]

\* After the last target lastRun is set.
TickDone(g) ==
    /\ Step(g, "tick") /\ loop[g].owed = {} /\ loop[g].todo = {}
    /\ loop' = [loop EXCEPT ![g] = [BackToSelect(@) EXCEPT !.age = Ran(loop[g])]]
    /\ UNCHANGED <<control, registry, cancelled, closed, panicked, late>>

Loop(g) == \/ Begin(g) \/ ScanDone(g) \/ RunCheck(g) \/ Arm(g) \/ Done(g) \/ Tick(g)
           \/ TickCheck(g) \/ TickGivenUp(g) \/ TickDone(g)
           \/ \E t \in Targets : NextTarget(g, t) \/ TickTarget(g, t)

Next == \/ \E x \in Checks : \/ Unregister(x)
                             \/ \E n \in NewIntervals : Register(x, n)
        \/ Elect \/ CancelParent
        \/ \E u \in Callers : Start(u) \/ Stop(u) \/ Cancel(u) \/ Stopped(u)
        \/ \E g \in Gens : Loop(g)

Spec == Init /\ [][Next]_vars

\* Goroutines go on, checks return, and select takes a cancellation that stays there.
Fairness == \A g \in Gens : WF_vars(Loop(g)) /\ SF_vars(Done(g))
FairSpec == Spec /\ Fairness /\ \A u \in Callers : WF_vars(Cancel(u)) /\ WF_vars(Stopped(u))

-----------------------------------------------------------------------------
\* The cached order has every enabled check once, after all it depends on; it is missing
\* exactly if some of the checks wait for each other.
OrderHonoursDependencies ==
    /\ sortErr <=> \E S \in (SUBSET enabled) \ {{}} : \A x \in S : dependsOn[x] \cap S # {}
    /\ ~sortErr => /\ Range(sortedChecks) = enabled
                   /\ Len(sortedChecks) = Cardinality(enabled)
                   /\ \A i, j \in DOMAIN sortedChecks :
                         sortedChecks[j] \in dependsOn[sortedChecks[i]] => j < i

\* Whatever is registered or removed meanwhile: in a report of the full scan a check that
\* depends, over any number of others, on one that failed is skipped.
ScanSkipsDependents ==
    \A g \in Gens : loop[g].pc = "scan" =>
       LET rs == loop[g].results
       IN  \A i, j \in DOMAIN rs : /\ rs[j].check \in dependsOn[rs[i].check]
                                   /\ rs[j].status \in {"failed", "skipped"}
                                   => rs[i].status = "skipped"

\* A done channel is closed twice, which panics, only if Start overtook the goroutine of
\* an earlier run that was stopped before it began.
ClosedOnce == panicked => late

\* When the Stop of a run has returned its loop has ended: no check of that run is still to
\* come.  It is not said of a Stop that found another one there before it.
StopMeansStopped ==
    ~late => \A g \in 1..starts :
                g # running /\ (\A u \in Callers : waits[u] # g) => loop[g].pc = "ended"

\* Stop returns, however far the loop has got.
StopReturns == \A u \in Callers : waits[u] # 0 ~> waits[u] = 0 \/ late

\* A check that stays enabled with an interval above 0 is run over and over by a loop that
\* is left alone, has got to its ticks and goes on being the leader.  (Without an interval
\* it runs in full scans only, and ticks stop for good if no check had one at their start.)
Serves(g, x) == /\ running = g /\ leader /\ x \in Ticking /\ ~late
                /\ loop[g].pc \in {"select", "tick"}
ChecksComeRound ==
    \A g \in Gens : \A x \in Checks : <>[]Serves(g, x) => []<>(loop[g].age[x] = 0)
=============================================================================
