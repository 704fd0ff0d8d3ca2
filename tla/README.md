# A TLA+ model of lumin-acpool

lumin-acpool is a Go library that shares a pool of accounts on AI platforms among
concurrent requests. A request asks the balancer for an account (`Pick`), makes its
call, and reports how it went (`ReportSuccess`, `ReportFailure`). Everything that keeps
this safe lives in stores that many goroutines, and with a database many processes, write
at the same time: concurrency counters, account statuses with a version number, provider
counts, statistics. This directory models that core in TLA+, checks it with TLC on small
instances, and proves the most important facts with TLAPS for instances of any size.

## 1. The system

| component (source) | state | operations | talks to |
|---|---|---|---|
| Balancer, `balancer/` | none of its own; local variables of a `Pick` | `Pick` in three modes (exact provider, provider type, any) with a retry loop over accounts, a failover loop over providers and a fallback from exact to automatic; `ReportSuccess`, `ReportFailure` | resolver, selectors, occupancy controller, statistics, usage tracker, account storage |
| Occupancy controllers, `balancer/occupancy/` | configured limits | `FilterAvailable`, `Acquire`, `Release` | occupancy store |
| Occupancy stores, `storage/*/occupancy.go` | one counter per account | increment, floored decrement, read | – |
| Resolver, `resolver/` | none | which providers and accounts are candidates | account and provider storage |
| Selectors, `selector/` | the strategies configured | choose one candidate, of accounts or of providers | affinity store, statistics |
| Affinity stores, `storage/*/affinity.go` | who is bound to which account or provider | get, set; the in-memory map is emptied when full | – |
| Account and provider storage, `storage/{memory,redis,mysql,sqlite}/` | accounts with status, deadlines and version; providers with the counts of their accounts; in Redis indexes besides | add, update, remove, search; `UpdateAccount` refuses a stale version | each other: every change of an account changes provider counts |
| Statistics stores | calls, failures in a row | atomic increments and resets | – |
| Circuit breaker, cooldown | none; thresholds and durations | trip, start cooling: change the copy of an account they are given | – |
| Usage tracker, usage stores | a usage row per rule and window | record, calibrate, is the quota available; calls back when a rule nears its limit | account storage, by the callback of `newUsageTrackerWithCooldown` |
| Health checker, `health/` | registered checks in order, `cancel` and `done` of the background loop | `Register`, `Start`, `Stop`, scans and ticks; checks suggest statuses, usage rules, models | the report callback, which writes account, provider and usage |
| Command line, `cli/` | configuration | add, update, remove accounts and providers; a health daemon with a callback of its own; `bootstrap` builds a balancer | storage, health checker, selectors |

**What is hard here.** Nothing is transactional across calls: `Pick` reads a provider, then
its accounts, then counters, and only then increments one; a report reads an account,
decides, and writes it several calls later; a usage row is addressed by a position that was
read a call before; the in-memory store guards accounts and provider counts with two locks;
Redis calls read first and run a script then. Store calls fail, and most errors on the way
back (`DecrOccupancy`, `UpdateAccount` in callbacks) are dropped. Processes die between
`Pick` and the report, and between two trips to a database. Callers race for the last slot;
reports, the quota callback, health checks and operators race for the status; `Start` and
`Stop` race with the goroutine they are about.

**What makes it correct**, by component:

* *Occupancy*: no account in more hands than its limit; counters neither lose nor invent
  slots, except those that a failure leaves behind.
* *Pick*: every path through the loops owes at most one decrement; it ends; what it returns is
  what was asked for; undisturbed, it finds an account if there is one.
* *Selectors*: a binding names what last served under its key; LeastUsed chooses by what it read.
* *Account status*: no write replaces what its writer has not read; a decision taken on a
  status still holds when it is written; terminal statuses are left by humans only; cooling
  and open circuits end, but not before their deadline.
* *Stores*: accounts change only from the version read; provider counts and indexes follow the
  stored accounts; nothing outlives what it belongs to; the locks do not deadlock.
* *Usage*: a row counts what the platform counts, availability follows the counts; every crossing of a
  limit is reported.
* *Health checker*: in a full scan checks run after what they depend on and are skipped when that has
  failed (ticks look at no dependency, see section 3); checks with an interval come round;
  `Start` and `Stop` in any order neither hang nor close a channel twice.

The list of hazards, each at its line, is in `PROJECT.json`.

## 2. The modules

```
SlotPool <- implemented by - Occupancy <- implemented by - Pick <- extended by - Selectors
                                 |                          |
                          OccupancyProofs                          SelectorsProofs

StoreData <- RedisStore, MysqlStore, SqliteStore      what one call does to the data
                          |
AccountRows <- implemented by - SharedStore           processes and their trips
                                     |
                             SharedStoreProofs

MemOccupancy     - MemOccupancyProofs        one counter of the in-memory store
AccountLifecycle - AccountLifecycleProofs    one account's status and its writers
MemStore         - MemStoreProofs            two locks and the provider counts
UsageTracker     - UsageTrackerProofs        the usage rows of an account
HealthScheduler  - HealthSchedulerProofs     the background loop of the health checker
MC_*                                         instances for TLC
```

**`SlotPool`** is the abstract promise of an occupancy controller: callers hold accounts, and
`Take` needs a free slot. It translates no code.

**`Occupancy`** is the counting protocol of `FixedLimit` and `AdaptiveLimit` over a store with
atomic operations (Redis, MySQL, SQLite). `Acquire` and `Overshoot` are the two outcomes of
`IncrOccupancy` compared with the limit, `Undo` the decrement of a refused attempt, `Release` the
first statement of both reports. `IncrReplyLost` and `NeverReturned` are the failures: a reply
lost after the store has counted; a decrement that fails, or whose process dies. An attempt may
use any limit that was in force at some time, because the account it looks at may be old.

**`Pick`** is `defaultBalancer.Pick` at the grain of store calls. `call[c]` is
the stack of caller `c`: the request, the candidates, providers tried, accounts excluded, the
attempt counter, the account in hand, the first error of an exact Pick. Every action names the
function it stands for. `ProviderFails`, `ExactFails` and `AutoFails` are the three places an error
goes to. Selectors choose anything offered, so its results hold for every strategy. Other
actors change statuses and providers between any two steps, stores fail (`Broken`, `MayFail`), and a
caller's context may be done at the top of the failover loop. The history field `calm` says that
nothing has interfered with this Pick. Provider counts are derived from statuses here; how
they can differ is the subject of `MemStore` and `SharedStore`.

**`Selectors`** is `Pick` with the ten strategies in place of "any choice". Affinity at
either level is a read of the binding (which may fail, and is then taken for a miss: `LookupFails`), the
fallback's choice and a write (`MakeBinding`) in steps of their own; `LeastUsed` reads the calls of its
candidates one by one (`ScanNext`) while `IncrCalls` counts and `RemoveStats` deletes behind its back.
A user or a model is a sequence of parts and colons, because `AffinityKey` joins the two with a colon as
`buildAffinityKey` does, so that different people may have one key (`SameKey`). A fallback
that calls no store, and so depends on its candidates only, is part of the step that looks the binding up (`Select`). Lists are shuffled before they are sorted, so candidates
that rank alike, positions of round robin and random weights are choices. The remaining
steps of a Pick are those of `Pick` (`Working`, `TryAccount`, `Return`).

**`MemOccupancy`** is the in-memory counter for one account, one atomic instruction per step: fetch
the pointer from the `sync.Map` (or put a new one), add, load, compare-and-swap, delete the
entry. The history variable `stray` counts the units that went to counters outside the map.

**`AccountLifecycle`** is one account as `UpdateAccount` sees it: status, the two deadlines, version.
Reporters run `ReportSuccess`, `ReportFailure` with its retry, and the quota callback; checkers run the
health checks and `NewDefaultReportCallback`; daemons the callback of the health command;
operators write at any time. The default callback has a `CooldownManager` for the checkers in `Managed`
only, since it is optional (`ReportHandlerDeps`); without it a suggestion to cool down sets the deadline that the
report carries, or none (`Cooling`). A thread's `snap` is its copy of the account, `base` what the account was
when it read it. What a platform check suggests is a choice from `Findings`. The clock has
`MaxNow + 1` values; at the last one every deadline has passed. `Crews` names the sets of
threads that run side by side; the others are `Off`.

**`MemStore`** is the in-memory account and provider storage. A step is what a call does between
taking a lock and taking the next. `added`, `removed`, `gained` and `lost` are the accounts a
call has changed and not yet counted; `drift` names the providers whose counts were replaced by a
stale copy (`UpdateProvider` stores counts it read earlier) or were started at zero around accounts that
existed: whatever then is wrong with these counts is outside `CountsTrue`. A provider loaded from a file with counts of its own is treated as one that starts
at zero.

**`StoreData`**, **`RedisStore`**, **`MysqlStore`**, **`SqliteStore`** say what one atomic piece of a
call does to the data: a Lua script, the locked part of a transaction, a whole SQLite
transaction. They are pure operators from a database to a database, so the three stores can be laid
side by side. Redis has index sets and a provider list that its scripts maintain from what the Go code
read before. Their keys are type, name and status joined by slashes, as in `account_helper.go` (`Join`);
members of the provider list and keys of provider hashes are joined likewise. `Spelling`
assumes that no type has a slash in it (a name may): with one, `a/b` and `c` have the keys of `a` and `b/c`, and
Redis takes the two providers for one where the SQL stores, whose primary key is the pair, keep them
apart. MySQL has foreign keys; SQLite has them on the connection that opened the database
only (`fk` is the choice of connection). **`SharedStore`** runs them: callers make one trip after
the other, may give up in between (`GiveUp`), and one of the three stores is chosen at the
start. Removing a provider from Redis is its EXISTS (`PrepareCascade`), SMEMBERS (`ListMembers`), the pipeline of
HGETALL (`FetchMembers`), two trips for each account and the last script (`LoopDone`). **`AccountRows`** is the abstract specification, the contract of `AccountStorage`.

**`UsageTracker`** is the tracker of one account over its rows: `RecordUsage` reads the list, finds
its rules and increments by position; calibration from a response and by a health check read and
write rows; windows end with the clock. Rows that were saved anew and lists that left rows out are the
two ways a position goes wrong (`misled`, `mixed`). A count says of every request how often it is counted,
which lets the properties compare it with what the platform has counted; `EstimatedUsed` adds it up.
Lists with rows left out are the positions of a set taken in their order (`InOrder`, `At`). A request or
check that writes several rows carries them as a list of `Write`s, one per store call. `crossed` is a
history variable: the rules a request has taken to the limit and nobody has reported. `skew` is the offset of
SQLite's local window ends against `datetime('now')`. A rule of `Width` 0 has one window without end (a nil
`WindowEnd`), one of `Total` 0 no limit to reach, and `InitRules` leaves out the rules that are not in `Valid`. Of
`RemoteRemain` a row keeps whether it is zero (`spent`), as it is after a 429.

**`HealthScheduler`** is `defaultHealthChecker`: the registry with its topological order
(`Kahn`, the algorithm of `topologicalSort`: `Round` is one turn of its loop, and maps are iterated in any order), `Start` and `Stop` with their channels, and the background
loop with its full scan and its ticks. A run of the loop is a generation; `Begin` evaluates `c.done`
when the goroutine starts, as `defer close(c.done)` does. `Stop` is three steps (c.cancel reset under the lock,
`Cancel` after the unlock, the wait), a second `Stop` that finds `c.cancel` reset returns at once, and whoever gave
`Start` its context may cancel it (`CancelParent`); then the loop ends but `Start` says "already running"
until somebody calls `Stop`. A check may be registered again with another interval or as disabled, and its
interval may be 0: such a check runs in scans only.

## 3. What TLC checks

Bounds are CONSTANTS named in the modules. Each was chosen so that every action fires
and every property can be broken by a plausible mutation of the code; `PROJECT.json` lists one
mutation per property, and the mutant operators stand beside the definitions they mutate.

| run | instance | shows |
|---|---|---|
| `occupancy_safety` | 3 callers, 2 accounts, limits 1..2, one failure | counters exact, limit kept, `SlotPool` implemented. Three callers are needed for an overshoot to be seen by a third party |
| `pick` | 2 callers with one Pick each, 3 providers of 2 types, 5 accounts with one slot each, 1 retry, 2 disturbances, requests for `p1` with and without failover, for its type, and for anything | attempts distinct, result honours the request, complete when undisturbed, `Occupancy` implemented. Three accounts on `p1` let the retry bound stop a Pick while accounts are left |
| `selectors` | 2 callers with one Pick each, 2 providers, 3 accounts, one disturbance, 6 configurations of strategies, fallbacks, affinity caps and who picks: one user with two models, two people who share a key, one person twice, nobody | bindings follow service, LeastUsed holds, every Pick returns |
| `mem_occupancy` | 3 goroutines, limit 1, at most 2 stray units before no new call begins | no phantom holders; what is forgotten is bounded by what strayed |
| `mem_occupancy_limit` | the same, 1 stray unit | **violated**: two callers hold an account whose limit is 1 |
| `lifecycle` | a daemon with a reporter and a checker that has a CooldownManager, or with two reporters; or a reporter and a checker without; 2 reports or rounds, 1 event, threshold 1 | no lost update, decisions hold at the write, deadlines set but for the named exceptions, cooling and open circuits end. Two reporters make the conflict and the retry of a report happen, a checker beside them the ones of a callback |
| `lifecycle_terminal` | a reporter and a checker, 1 report, 1 event | **violated**: Banned is overwritten |
| `memstore` | 3 threads, 2 providers, 3 accounts, 7 calls | counts true but for drift. Three threads let two others change accounts while a `RemoveAccounts` is between its two locks |
| `memstore_deadlock` | the same, 3 calls | **violated**: two calls wait for each other's lock |
| `usage` | 2 requests and a health check, two rules of one source: one with windows of two ticks, a total and a limit of 2, and one with neither an end nor a total; 3 ticks, 1 reset | estimates exact, answers follow the platform, crossings reported, wrong rows only after a shift. The second row makes the positions go wrong when the first one's window has ended |
| `health` | 2 callers, 4 checks, of which two are registered at the start, one without an interval and one with the longest; a third makes a chain of three and the fourth a circle; 2 starts, 1 change of the registry or of the leader | order, skipping, one close per channel, Stop waits and returns, checks come round. Two starts are what the overtaken goroutine needs |
| `sharedstore` | 2 processes, 2 accounts of one provider with a slash in its name, 3 statuses, 3 stores, 2 accounts and 1 provider added, versions to 2, 1 account with failures at a time | the contract of `AccountRows`; searches, indexes, counts and foreign keys but for the named exceptions. Two processes between two trips are all these races need; with two statuses other than available an account moves between groups without a change of the counts |

In `BindingFollowsService`, `CountsFollowAccounts`, `IndexDriftNeedsRace`, `CountsTrue`, `DeadlinesSet`, `ClosedOnce`
and `WrongRowNeedsShift` the exceptions are part of the statement: they say that the code goes
wrong in these ways and no other. Each exception happens in the run that checks it.

Deadlock is not checked where calls or time are bounded and everyone comes to rest (`lifecycle`, `memstore`,
`usage`, `health`, `sharedstore`), in `memstore` also because the program can really deadlock,
and in runs that look for a counterexample.

**Fairness.** `Pick` and `Selectors` have weak fairness of each caller's own steps: a goroutine in `Pick`
keeps running and its store calls return. Reports are not fair: a caller may hold an account for
ever. `AccountLifecycle` has weak fairness of the clock, of reporters inside a report, and of the
checkers: `backgroundLoop` is driven by a ticker, so a round always follows. Nothing is assumed
of operators, of new reports or of failures; `Recovers` therefore holds once the bounded
reports and events are spent, which stands for "calls are no longer failing". `HealthScheduler` has weak
fairness of the loop (checks return), strong fairness of its `ctx.Done()` case, because Go's `select`
takes a ready case at random among the ready ones, and weak fairness of a `Stop` that is to cancel its
context or whose channel is closed.

**Disagreements found** (quoted in `PROJECT.json`, `findings`), first those that a run shows by a
counterexample:

1. The in-memory `DecrOccupancy` deletes the map entry of a counter that may have been incremented
   again, so the limit can be exceeded. `ExcessBounded` says by how much.
2. `RemoveProvider` takes the two locks of the in-memory store in the opposite order to every other call.
3. A report can overwrite Banned, Invalidated and Disabled; only its retry looks at the status.

and then those where a property states what the code does and a document says otherwise:

4. A 429 marks the rules of its source as exhausted (`RemoteRemain = 0`), and `usage-and-cooldown.md` says that
   availability is `EstimatedRemain > 0`. The code compares `EstimatedUsed` with the total and never looks
   at the mark, so an account may be called available right after a 429 (`AnswerFollowsPlatform`). The mark is seen only
   by what uses the remaining quota: `AdaptiveLimit`, `MinRemainRatio`, the display of the command line.
5. `ARCHITECTURE.md` says that LeastUsed chooses the account with the most quota left; it chooses the one with the
   fewest calls (`LeastUsedHolds`).
6. The comment of `buildAffinityKey` says that requests for different models do not disturb each other; two pairs of user and
   model that join to one key do (`BindingFollowsService`, which promises a binding until the next Pick under its key).

**Other behaviour that the models make visible**, each a hazard or an exception of a property:

* `ReportSuccess` zeroes the failures before it looks at them, so it closes an open circuit only if a
  concurrent failure is counted in between (`Success` and what follows it in `AccountLifecycle`).
* The health daemon makes a cooling account Available whenever no check has a suggestion.
* A cooling account may be stored without a deadline, which counts as one that has passed: by the health
  command, and by the default callback if it has no `CooldownManager` and the report no `cooldown_until` (`DeadlinesSet`).
  An open circuit always has its deadline.
* Ticks ignore dependencies: `tickRun` runs the checks that are due in the order of a map and skips none, whatever
  has failed before; only full scans and `RunAll` skip (`ScanSkipsDependents`). A check without an interval runs in scans but
  in no tick, and a loop that finds no check with an interval when its scan ends is over for good (`Arm`).
* A `SearchAccounts` of Redis drops what its index does not cover: a status or a name counts only if type and name are
  given both (`storage/redis/account.go:78-89`). `SearchesAgree` is stated for the filters that have both, which are those of
  the resolver and of the removals; for the others Redis finds more than the SQL stores do.
* `bootstrap` gives one affinity store to both levels, which build the same key: each overwrites the
  other's binding (`Collides`).
* Round robin works on a list that has just been shuffled, so its position means nothing.
* A usage count goes to the wrong rule after a window has ended, or after a calibration has saved the
  rows anew (`WrongRowNeedsShift`); SQLite compares local window ends with UTC (`skew`).
* The goroutine of the background loop may take the channel of the next `Start` (`late`): a `Stop` then
  waits for ever or a channel is closed twice.
* SQLite enforces foreign keys on one connection of its pool only (`lax`).
* In Redis two removals of one account count its provider down twice, and a provider that is updated while
  it is removed comes back. `RemoveAccounts` of the SQL stores leaves the counts alone.

## 4. What is proved

Proofs are in `*Proofs.tla`; they use the named assumptions on constants (finite sets of callers,
natural limits and bounds, positive threshold, types without a slash in `SharedStore`) and nothing else, so they hold for any number of callers,
goroutines, reporters, checkers, daemons, providers and accounts.

* **`OccupancyProofs`**. The invariant is `TypeOK /\ CountersExact`. Its core is what a
  step does to the set `Claims(a)` (`ClaimEnters`, `ClaimLeaves`): each action moves the counter and the set
  together. The floor at zero never bites because a caller about to decrement is itself a claim.
  `HoldersWithinLimit` needs one more step: a grant compares the value after its own increment, which
  counts every holder. The same facts give `ImplementsSlotPool`: `Acquire` is `Take`, `Release` is `Give`,
  `RaiseLimit` is `Raise`, everything else stutters or, for a holder that dies, is `Give`.
* **`SelectorsProofs`**, first part: `Pick` alone, whatever it chooses. The invariant has two parts per caller. `Bookkeeping`: as many accounts are excluded as
  attempts were counted, all of them from the pool, the account in hand is not among them, and while a decrement is
  owed the bound has not been passed. `Allowed`: candidates, the chosen provider and its pool are what the
  request permits, and an exact request runs as an automatic one only with failover; without this the result
  could not be related to the request that is several steps old. A lemma per way the record changes
  (`ExactFailsGood`, `NextAttemptGood`, `PoolGood`, ...) says that it stays good, and `GoodStep` goes through the
  actions. `TypeCorrect`, `AttemptsDistinct` and `ResultHonours` follow. `ImplementsOccupancy` maps a Pick to what it owes
  (`Owes`, `InDebtTo`): steps that leave the debt alone stutter, `DebtPaid` shows every decrement, failed
  or not, to be one of the protocol. With `OccupancyProofs`, the slots taken by Picks of a finite
  set of callers stay within the limits. `CompleteUndisturbed` says of a Pick that fails what it has looked at on the
  way: the invariant `Undisturbed` follows each stage (the exact provider, the providers still to be tried, the accounts of
  the one being tried) and says that what has been passed over had no free slot, as long as nothing disturbed the Pick.
* **`MemOccupancyProofs`**. `NoPhantoms` alone is not inductive: whoever has fetched a counter that has
  since left the map still owes a decrement, but not to the counter that is counted now. The invariant `Accounted`
  therefore bounds the counter in the map by the goroutines whose decrement will see it (`InMap`), and what
  it lacks by `stray`. `NoPhantoms` and the two bounds follow.
* **`AccountLifecycleProofs`**. `StepShape` reduces every action to three shapes: a thread moves, perhaps
  taking a fresh copy; it commits a copy whose version is current; or the threads are left alone. The invariant is `TypeOK`,
  positive versions, `VersionNamesContent` and `Decided` (a thread about to write from the
  quota callback, or to retry, holds a base with the status its check needs). A commit with a current version
  then replaces exactly its base: `NoLostUpdate` and `ChecksHoldAtWrite`.
  `DeadlinesSet` speaks of the stored account while the mistakes are made in copies. The strengthening `Kept` follows the copies: one that has its status without the
  deadline was read so, except in the hands of the health command or of a checker that is not in `Managed`, and then it
  is a cooling one; what a report is about to write has its deadline. It assumes that checks do not suggest to open a circuit, as none of them does.
* **`MemStoreProofs`**. `TypeOK` of the in-memory store: each lock is held by exactly the thread that is between the
  two locks it needs, and the counts never fall below zero. `CountsTrue` compares a count with a set of accounts and with
  what all threads owe; what they owe is a set of pairs (`Uncounted`), so a step that adds or takes pairs changes
  its size by theirs. The floor at zero would break it if a count could be brought below zero: `Protected` says that the
  accounts a thread has added or gained and not counted are stored with that status for as long as it holds
  `acctMu`, and `Settled` that two threads owe nothing of this kind at once; so there are at least as many
  accounts as are owed and the floor never bites.
* **`SharedStoreProofs`**. `TypeCorrect` shows for each store that every script and transaction takes
  well-formed data to well-formed data, counts floored at zero included, and that every call has what its next
  step needs (`Equipped`). `ImplementsContract` maps every step of every store to a step of `AccountRows` or a
  stutter: the scripts and the SQL compare the version they were given with the one stored.
  `NothingOrphaned` is made inductive by `Integrity`, which adds that
  loops of removals run over Redis only: their last step, the removal of a provider without its accounts, would
  break it in the other stores. Of the counts, `OneAccount` says by how much the accounts of a provider change where one account
  does, `CountedRight` that the floor at zero bites only where a count is short already; one lemma per store
  (`RedisCounts`, `MysqlCounts`, `SqliteCounts`) shows that each write counts what it changes if it has read what it
  finds, and `CountsAreFollowed` goes through the steps. `DriftNeedsRace` does the same for the entries of the indexes
  (`EntriesLive`) and the list of providers (`ListingStays`). `SearchesFindTheSame` needs an invariant about the calls under way,
  `InItsGroups`: what a call has read of an account is not newer than the account, and its second reading not older than its first
  (`Behind`), so a script that finds the version it was given was prepared from the status it finds. That fails for
  an id used before, whose versions begin again; for an id never used the invariant says that nobody knows it (`Untouched`). That
  an index entry belongs to one provider rests on the joined keys being different for different providers and statuses
  (`KeysApart`): a key is split at its first slash (`JoinSplits`), which is where `Spelling` comes in, and before its
  status, which is always its last part (`EndSplits`).
* **`SelectorsProofs`**, second part: `PickStep` shows every step with strategies to be a step of `Pick`, a step `Pick` does not see,
  or `StrategyFails`: a store that a strategy reads or writes fails, which changes the environment and no Pick. So
  everything proved of `Pick` holds with the strategies (`PickKeepsItsPromises`, `SelectingImplementsOccupancy`).
  `LeastUsed` needs that the calls of an account are counted up until its statistics are removed, and that the scan then
  no longer vouches for it (`EachHolds`). `BindingFollows` compares a binding with a service
  that is retries and failovers old: `Tied` says where in a Pick a choice or a write can be under way, `Promised` that a Pick
  which runs alone for its key has bound what it has chosen or is about to, `Solo` that of two Picks under one key neither
  is alone, and `Rested` that what was served under a key is forgotten while a Pick under it runs. Bindings of other keys and of
  the other level stay as they are unless the map is emptied or the levels collide (`Collides`). Nothing is assumed of how keys are
  joined: people whose keys coincide are rivals and share the binding.

* **`UsageTrackerProofs`**. Rows are addressed by positions, so the lemmas come first: what `InOrder` and `At` return
  (`Positions`, `Selection`), that a list shown without gaps agrees with what is stored (`UsagesShown`), windows (`Windows`)
  and the sizes of counts (`TicketsAreFinite`, `OnceEach`). `TypeOK` is made inductive by `Prepared`: what a request or
  check has still to write names different positions of the list it has read, and what it will save has no rule twice.
  `EachOriented` adds that whoever is not misled has read the rules that still are at these positions, which gives
  `WrongRowNeedsShift`. `EstimateExact` speaks of stored rows, but rows are read, kept in hand and written steps later:
  `ExactInv` says it of what is stored and of everything in hand (`SettledRight`), as rows of a window that has begun; a row
  that is current after a tick was then current before it. A request on its way is counted exactly in the rows it has come to, and
  nobody calibrates beside it unless it is excused (`UnderwayRight`). With a clock that agrees, a row
  is shown exactly while its window is the current one, so `AnswerFollowsPlatform` follows by counting.
  `CrossingIsReported` needs `Looming`: a rule still to be reported has a row that shows it. The proof showed an exception
  that the run is too small for: with two rules of one source, a row that is gone after an increment makes the
  next one fail, and `RecordUsage` returns without looking at the rule it has already taken to the limit
  (`Fails` in `Incr`). The property names this exception; the theorem covers any number of rules of a source.
* **`HealthSchedulerProofs`**. `Kahn` is a function defined by itself; that such a function exists, and all that is said
  about it, goes by the least number of rounds for which it would fail (`LeastOf`). `KahnInv` is the invariant of
  the loop in `topologicalSort`: queue and order hold different checks, each check's degree counts the dependencies
  it still misses, and those with none left are exactly the ones queued or sorted; so the queue is empty after as many rounds as there are
  checks (`Sorts`), which the bound of `Kahn` relies on, and what is left over then waits for itself (`CirclesShow`). `OrderHonours` follows for any
  dependencies, where the run has a chain and a circle of three checks. `ScanSkips` needs `NoneBefore`: no
  check that has run depends on one still to come, which an order cached before the scan keeps whatever is registered
  meanwhile. For the ends of runs, `LoopStep` reduces every step of a goroutine to going on, beginning, or ending with a close. As
  long as no `Start` overtook a goroutine that had not begun, only the last generation can be new, each holds its own
  channel (`OwnChannel`), and a channel is closed exactly if its goroutine has ended; `NoDoubleClose` and
  `StopsForGood` follow, and `NobodyWaitsInVain`, the safety half of `StopReturns`: whoever waits in `Stop` waits for a
  run that is not the current one and has closed its channel or is still there to end.

With this every invariant and every action property that a run checks is stated by a theorem, the refinements included. Only model-checked are
the liveness properties (`PickReturns`, `Recovers`, `StopReturns`, `ChecksComeRound`), which are out of the
prover's reach as `ENABLED` is.

## 5. Not modelled

* Request data: models and tags are reduced to which providers and accounts qualify, users to whom a binding is for.
* `AdaptiveLimit.calculateLimit`, thresholds and durations: any value in a set.
* `SearchFilter.ExtraCond` and its four evaluators: nothing but tests sets it.
* What happens on the platforms: probes, discovery, token refreshes. Checks suggest what they like; a credential is
  not part of the account, so a refresh that is dropped after a conflict is a write that does not happen.
* The searches and indexes of the in-memory store, which are computed under the lock of the change they follow.
* `ErrModelRequired` and configuration errors of `New`, which change no state; flags, files and output of the
  commands.
* A double report of the same Pick, which returns another caller's slot: callers are assumed to report once.

## 6. The plan

Done, in this order: the occupancy protocol with its proofs, `Pick`, the in-memory counter, the account
lifecycle with its proofs, the in-memory store, the usage tracker, the health checker, the database stores with
their proofs, the selectors, the proofs about `Pick`, about deadlines, about the in-memory store, about counts,
indexes and searches of the database stores, about the selectors, the usage tracker and the health checker.

Left, most useful first:

1. `AdaptiveLimit.calculateLimit` composed with `UsageTracker`, so that the limit of `Occupancy` follows usage.
2. The evaluators of `ExtraCond` against one reference semantics, once something sets it.
