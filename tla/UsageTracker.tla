---------------------------- MODULE UsageTracker ----------------------------
(***************************************************************************)
(* The usage tracker of one account and the usage rows it keeps in a store.*)
(* A row belongs to a rule, and estimates how much of the rule's quota is  *)
(* used in the current window: what the platform said at the last          *)
(* calibration (remote) and what was counted here since (local).           *)
(*                                                                         *)
(* The tracker addresses a row by the position it has in the list that     *)
(* GetCurrentUsages returned, which leaves out rows whose window has ended; *)
(* the store takes it for a position among all rows.  And the list is read *)
(* in one call of the store, and used in the calls that follow.            *)
(*                                                                         *)
(* A count is kept as the requests that make it up: remote[c] + local[c]   *)
(* is how often request c is counted.  Of RemoteRemain a row keeps whether *)
(* it is 0 (spent), as it is after a 429.  Time is a clock of ticks;       *)
(* window w of a rule is the ticks w * Width .. (w + 1) * Width - 1, and a *)
(* rule of width 0 has one window, whose end is nil.                       *)
(*                                                                         *)
(* Bounds: MaxTime ticks, MaxResets calls of InitRules and Remove,         *)
(* MaxChecks health checks; every request is made once.                    *)
(***************************************************************************)
EXTENDS Integers, Sequences, FiniteSets, Functions

CONSTANTS Calls, Syncs, Sources,
          SourceOf,   \* [Calls -> Sources]
          Rules,      \* the account's rules, a sequence without repetitions
          Source,     \* [rules -> Sources]: what the rule counts
          Valid,      \* the rules that are valid: InitRules leaves out the others
          Width,      \* [rules -> Nat]: length of the rule's window, 0 if it has no end
          Total,      \* [rules -> Nat]: the rule's quota, 0 if there is none to reach
          Limit,      \* [rules -> Nat]: SafetyRatio * Total, rounded up
          MaxTime, MaxResets, MaxChecks

RuleSet == Range(Rules)

ASSUME RuleData == /\ IsFiniteSet(Calls) /\ Calls \cap Syncs = {}
                   /\ Rules \in Seq(RuleSet) /\ IsInjective(Rules)
                   /\ SourceOf \in [Calls -> Sources] /\ Source \in [RuleSet -> Sources]
                   /\ Valid \subseteq RuleSet
                   /\ Width \in [RuleSet -> Nat] /\ Total \in [RuleSet -> Nat]
                   /\ Limit \in [RuleSet -> Nat \ {0}]
                   /\ {MaxTime, MaxResets, MaxChecks} \subseteq Nat

VARIABLES memory,    \* whether the rows are kept in memory, or in Redis, MySQL or SQLite
          skew,      \* by how much SQLite closes a window late (early is negative)
          now,
          list,      \* the account's rows, in the order of rule_index
          platform,  \* platform[r]: the requests the platform counts in this window
          me,        \* me[w]: the local variables of request or health check w
          crossed,   \* history: rules a request took to the limit, not yet reported
          excused,   \* history: requests that ran into a calibration or a window's end
          mixed,     \* history: a row was written that belongs to another rule
          resets, checks

time == <<memory, skew, now>>
vars == <<time, list, platform, me, crossed, excused, mixed, resets, checks>>

None == [c \in Calls |-> 0]
Once(S) == [c \in Calls |-> IF c \in S THEN 1 ELSE 0]
Plus(f, g) == [c \in Calls |-> f[c] + g[c]]

\* A nil WindowEnd: the row is shown at any time, so it ends when no clock can see it.
Never == MaxTime + 1
WindowEnd(r, t) == IF Width[r] = 0 THEN Never ELSE (t \div Width[r] + 1) * Width[r] - 1

\* A TrackedUsage.
Row(r, remote, spent, end) ==
    [rule |-> r, remote |-> remote, spent |-> spent, local |-> None, end |-> end]

\* u.RemoteUsed + u.LocalUsed: how often requests are counted, each time one element.
EstimatedUsed(u) ==
    Cardinality(UNION {{c} \X (1..(u.remote[c] + u.local[c])) : c \in Calls})

\* u.EstimatedUsed() / u.Rule.Total >= SafetyRatio, for a rule with a total.  That a row
\* is marked as spent makes no difference.
HeedsMark(u) == EstimatedUsed(u) >= Limit[u.rule] \/ u.spent    \* mutant
AtLimit(u) == Total[u.rule] > 0 /\ EstimatedUsed(u) >= Limit[u.rule]

\* window_end >= now or nil.  SQLite compares the local time it stored with the time in UTC.
InWindow(u) == now <= u.end + skew

\* The positions I in their order, and what s has at them.
InOrder(I) == [n \in 1..Cardinality(I) |->
                  CHOOSE i \in I : Cardinality({j \in I : j <= i}) = n]
At(s, I) == [n \in 1..Cardinality(I) |-> s[InOrder(I)[n]]]

GetCurrentUsages == At(list, {i \in DOMAIN list : InWindow(list[i])})

\* Something is shown after something that is not: positions do not agree.
Shifted == \E i, j \in DOMAIN list : i < j /\ ~InWindow(list[i]) /\ InWindow(list[j])

-----------------------------------------------------------------------------
\* todo: the positions to write, with remote and end in a calibration; fresh: what to
\* save after that; misled, a history variable: positions read may be wrong by now.
Idle == [pc |-> "idle", seen |-> <<>>, todo |-> <<>>, fresh |-> <<>>, stats |-> <<>>,
         misled |-> FALSE]
Done == [Idle EXCEPT !.pc = "done"]

\* RecordUsage is over: the request was answered, or turned down with a 429.
Counted == {Done, [Idle EXCEPT !.pc = "limited"]}

Init == /\ memory \in BOOLEAN
        /\ skew \in IF memory THEN {0} ELSE {-1, 0, 1}
        /\ now = 0
        /\ list = <<>>
        /\ platform = [r \in RuleSet |-> {}]
        /\ me = [w \in Calls \cup Syncs |-> Idle]
        /\ crossed = {} /\ excused = {} /\ mixed = FALSE
        /\ resets = 0 /\ checks = 0

Counting == {c \in Calls : me[c].pc \in {"served", "incr"}}
Calibrating == {w \in Calls \cup Syncs : me[w].pc \in {"fetched", "write"}}

\* To write what the platform said, and the end of the window, at position i.
Write(i, remote, spent, end) == [at |-> i, remote |-> remote, spent |-> spent, end |-> end]

OfSource(s, us) == InOrder({i \in DOMAIN us : Source[us[i].rule] = s})

\* What w remembers of the rows it has just read.
Read(w, next) == [me[w] EXCEPT !.pc = next, !.seen = GetCurrentUsages, !.misled = Shifted]

\* The rows have been saved anew: positions read earlier may be wrong.
Mislead(m) == [w \in DOMAIN m |-> IF m[w].pc \in {"incr", "write"}
                                  THEN [m[w] EXCEPT !.misled = TRUE] ELSE m[w]]

OneBased(w) == me[w].todo[1].at + 1     \* mutant

\* The row that w writes next, and whether it belongs to the rule that w means.
Position(w) == me[w].todo[1].at
WrongRow(w) == /\ Position(w) \in DOMAIN list
               /\ list[Position(w)].rule # me[w].seen[me[w].todo[1].at].rule

\* A row the store does not have: an error in memory, ignored elsewhere.
NoRow(w) == Position(w) \notin DOMAIN list
Fails(w) == NoRow(w) /\ list # <<>> /\ memory

-----------------------------------------------------------------------------
\* The platform answers request c: every rule of its source counts it there.
Serve(c) == /\ me[c].pc = "idle"
            /\ platform' = [r \in RuleSet |-> IF Source[r] = SourceOf[c]
                                              THEN platform[r] \cup {c} ELSE platform[r]]
            /\ me' = [me EXCEPT ![c].pc = "served"]
            /\ excused' = IF Calibrating # {} THEN excused \cup {c} ELSE excused
            /\ UNCHANGED <<time, list, crossed, mixed, resets, checks>>

\* RecordUsage, the first read: the positions of the rules of the source.
RecordUsage(c) ==
    LET us == GetCurrentUsages
        at == OfSource(SourceOf[c], us)
    IN  /\ me[c].pc = "served"
        /\ \E next \in IF us = <<>> THEN Counted
                       ELSE {[Read(c, "incr") EXCEPT
                                !.todo = [n \in DOMAIN at |-> Write(at[n], None, FALSE, 0)]]} :
              me' = [me EXCEPT ![c] = next]
        /\ excused' = IF us # list THEN excused \cup {c} ELSE excused
        /\ UNCHANGED <<time, list, platform, crossed, mixed, resets, checks>>

\* Rules that the change from list to new takes to the limit.
TakenOver(new) == {list[i].rule : i \in {j \in DOMAIN list :
                      InWindow(list[j]) /\ ~AtLimit(list[j]) /\ AtLimit(new[j])}}

\* IncrLocalUsed of one position.  If it fails, RecordUsage does not look whether a rule has
\* reached the limit; then crossed keeps what others will look at.
Incr(c) ==
    LET new == IF NoRow(c) THEN list ELSE [list EXCEPT ![Position(c)].local[c] = @ + 1]
    IN  /\ me[c].pc = "incr" /\ me[c].todo # <<>>
        /\ list' = new
        /\ crossed' = IF Fails(c) THEN {r \in crossed : \E d \in Counting \ {c} :
                                           Source[r] = SourceOf[d]}
                      ELSE crossed \cup {r \in TakenOver(new) : Source[r] = SourceOf[c]}
        /\ mixed' = (mixed \/ WrongRow(c))
        /\ \E next \in IF Fails(c) THEN Counted ELSE {[me[c] EXCEPT !.todo = Tail(@)]} :
              me' = [me EXCEPT ![c] = next]
        /\ excused' = IF Fails(c) \/ me[c].misled THEN excused \cup {c} ELSE excused
        /\ UNCHANGED <<time, platform, resets, checks>>

ChecksWhatItRead(c) == me[c].seen       \* mutant
ToCheck(c) == GetCurrentUsages

\* The rows are read again, and OnQuotaExhausted is called for the first rule of the
\* source that has reached the safety ratio.
Check(c) ==
    LET over == {u \in Range(ToCheck(c)) : Source[u.rule] = SourceOf[c] /\ AtLimit(u)}
    IN  /\ me[c].pc = "incr" /\ me[c].todo = <<>>
        /\ crossed' = IF over = {} THEN crossed
                      ELSE {r \in crossed : Source[r] # SourceOf[c]}
        /\ \E next \in Counted : me' = [me EXCEPT ![c] = next]
        /\ UNCHANGED <<time, list, platform, excused, mixed, resets, checks>>

-----------------------------------------------------------------------------
\* The platform has nothing left of rule r.
UsedUp(r) == Cardinality(platform[r]) >= Total[r]

\* The health check asks the platform for its counts of some of the rules.
Fetch(k, I) ==
    LET asked == At(Rules, I)
    IN  /\ me[k].pc = "idle" /\ I # {}
        /\ checks < MaxChecks /\ checks' = checks + 1
        /\ me' = [me EXCEPT ![k].pc = "fetched",
                            ![k].stats = [i \in DOMAIN asked |->
                                             Row(asked[i], Once(platform[asked[i]]),
                                                 UsedUp(asked[i]), WindowEnd(asked[i], now))]]
        /\ excused' = excused \cup Counting
        /\ UNCHANGED <<time, list, platform, crossed, mixed, resets>>

ComparesPointers(us, r) == FALSE        \* mutant

\* Two rules are the same if they agree in source, granularity and window size.
Has(us, r) == \E i \in DOMAIN us : us[i].rule = r
PositionOf(r, us) == CHOOSE i \in DOMAIN us : us[i].rule = r

\* Calibrate reads the rows: those that are shown will be calibrated one by one, and if
\* a rule has none, what was read is saved afterwards with the rule's row added.
ReadToCalibrate(k) ==
    LET us == GetCurrentUsages
        stats == me[k].stats
        known == {n \in DOMAIN stats : Has(us, stats[n].rule)}
        old == At(stats, known)
        added == At(stats, DOMAIN stats \ known)
        asRead == [i \in DOMAIN us |-> IF Has(old, us[i].rule)
                                       THEN old[PositionOf(us[i].rule, old)] ELSE us[i]]
    IN  /\ me[k].pc = "fetched"
        /\ me' = [me EXCEPT ![k] =
                    [Read(k, "write") EXCEPT
                        !.stats = <<>>,
                        !.todo = [n \in DOMAIN old |-> Write(PositionOf(old[n].rule, us),
                                                       old[n].remote, old[n].spent, old[n].end)],
                        !.fresh = IF added = <<>> THEN <<>> ELSE asRead \o added]]
        /\ UNCHANGED <<time, list, platform, crossed, excused, mixed, resets, checks>>

\* CalibrateFromResponse: after a 429, what was counted for the rules of the source
\* becomes what the platform counted, and the rules are marked as spent.
CalibrateFromResponse(c) ==
    LET us == GetCurrentUsages
        at == OfSource(SourceOf[c], us)
    IN  /\ me[c].pc = "limited"
        /\ me' = [me EXCEPT ![c] =
                    IF us = <<>> THEN Done
                    ELSE [Read(c, "write") EXCEPT
                            !.todo = [n \in DOMAIN at |->
                                         Write(at[n], Plus(us[at[n]].remote, us[at[n]].local),
                                               TRUE, us[at[n]].end)]]]
        /\ excused' = IF us = <<>> THEN excused ELSE excused \cup Counting
        /\ UNCHANGED <<time, list, platform, crossed, mixed, resets, checks>>

\* The health check will be back, the request will not.
Returned(w) == IF w \in Syncs THEN Idle ELSE Done

\* crossed, once the rows are new: a rule whose row is below the limit again, ended, or
\* gone has not to be reported any more.
StillCrossed(new) == {r \in crossed : \E i \in DOMAIN new :
                         new[i].rule = r /\ InWindow(new[i]) /\ AtLimit(new[i])}

KeepsLocal(u, todo) == [u EXCEPT !.remote = todo.remote, !.spent = todo.spent,
                                 !.end = todo.end]   \* mutant

\* What the platform said and the window are replaced, the local count is reset.
Rewritten(u, todo) == Row(u.rule, todo.remote, todo.spent, todo.end)

\* CalibrateRule of one position.
CalibrateRule(w) ==
    LET new == IF NoRow(w) THEN list
               ELSE [list EXCEPT ![Position(w)] = Rewritten(@, me[w].todo[1])]
    IN  /\ me[w].pc = "write" /\ me[w].todo # <<>>
        /\ list' = new
        /\ crossed' = StillCrossed(new)
        /\ mixed' = (mixed \/ WrongRow(w))
        /\ me' = [me EXCEPT ![w] = IF Fails(w) THEN Returned(w)
                                   ELSE [me[w] EXCEPT !.todo = Tail(@)]]
        /\ UNCHANGED <<time, platform, excused, resets, checks>>

\* SaveUsages at the end of Calibrate, if a rule was new; and the return.
Finish(w) ==
    /\ me[w].pc = "write" /\ me[w].todo = <<>>
    /\ IF me[w].fresh = <<>>
       THEN me' = [me EXCEPT ![w] = Returned(w)] /\ UNCHANGED <<list, crossed>>
       ELSE /\ list' = me[w].fresh
            /\ crossed' = StillCrossed(me[w].fresh)
            /\ me' = Mislead([me EXCEPT ![w] = Returned(w)])
    /\ UNCHANGED <<time, platform, excused, mixed, resets, checks>>

-----------------------------------------------------------------------------
\* A refresh of the usage rules, or the removal of the account: the counts are lost.
Reset(new) == /\ resets < MaxResets /\ resets' = resets + 1
              /\ list' = new
              /\ crossed' = {}
              /\ excused' = excused \cup {c \in Calls : me[c].pc # "idle"}
              /\ me' = Mislead(me)
              /\ UNCHANGED <<time, platform, mixed, checks>>

InitRules ==
    LET kept == At(Rules, {i \in DOMAIN Rules : Rules[i] \in Valid})
    IN  Reset([i \in DOMAIN kept |-> Row(kept[i], None, FALSE, WindowEnd(kept[i], now))])

Remove == list # <<>> /\ Reset(<<>>)

\* Time passes; where a window ends, the platform starts to count from zero.
Tick == LET ends == {r \in RuleSet : WindowEnd(r, now) = now}
        IN  /\ now < MaxTime /\ now' = now + 1
            /\ platform' = [r \in RuleSet |-> IF r \in ends THEN {} ELSE platform[r]]
            /\ excused' = IF ends # {} THEN excused \cup Counting ELSE excused
            /\ crossed' = {r \in crossed : \A i \in DOMAIN list :
                             list[i].rule = r => now + 1 <= list[i].end + skew}
            /\ UNCHANGED <<memory, skew, list, me, mixed, resets, checks>>

Next == \/ \E c \in Calls : \/ Serve(c) \/ RecordUsage(c) \/ Incr(c) \/ Check(c)
                            \/ CalibrateFromResponse(c)
        \/ \E k \in Syncs : ReadToCalibrate(k) \/ \E I \in SUBSET DOMAIN Rules : Fetch(k, I)
        \/ \E w \in Calls \cup Syncs : CalibrateRule(w) \/ Finish(w)
        \/ InitRules \/ Remove \/ Tick

Spec == Init /\ [][Next]_vars

-----------------------------------------------------------------------------
\* IsQuotaAvailable: no rule that is shown has reached the safety ratio.
IsQuotaAvailable == \A u \in Range(GetCurrentUsages) : ~AtLimit(u)

Rows == [rule : RuleSet, remote : [Calls -> Nat], spent : BOOLEAN, local : [Calls -> Nat],
         end : Nat]
Writes == [at : Nat \ {0}, remote : [Calls -> Nat], spent : BOOLEAN, end : Nat]
Locals == [pc : {"idle", "served", "incr", "limited", "fetched", "write", "done"},
           seen : Seq(Rows), todo : Seq(Writes), fresh : Seq(Rows), stats : Seq(Rows),
           misled : BOOLEAN]

\* Every variable has its type; a rule has at most one row.
TypeOK == /\ memory \in BOOLEAN /\ skew \in IF memory THEN {0} ELSE {-1, 0, 1}
          /\ now \in 0..MaxTime /\ resets \in 0..MaxResets /\ checks \in 0..MaxChecks
          /\ list \in Seq(Rows) /\ IsInjective([i \in DOMAIN list |-> list[i].rule])
          /\ platform \in [RuleSet -> SUBSET Calls]
          /\ me \in [Calls \cup Syncs -> Locals]
          /\ crossed \subseteq RuleSet /\ excused \subseteq Calls /\ mixed \in BOOLEAN

\* As long as every write has met the row it was meant for, a row of the current window
\* counts every request that is through exactly as the platform does, once if the rule
\* counts its source and not at all if it does not: the requests excused are those that
\* overlapped a calibration, a reset or the end of a window, or could not see all rows.
EstimateExact ==
    ~mixed => \A i \in DOMAIN list : \A c \in Calls \ excused :
                 LET u == list[i]
                 IN  me[c].pc \in {"limited", "write", "done"} /\ u.end = WindowEnd(u.rule, now)
                     => u.remote[c] + u.local[c] = Once(platform[u.rule])[c]

\* With a clock that agrees, and when no request is excused or under way, the account is
\* said to be available exactly if the platform's counts of the rules that have a total
\* and a row of the current window are all below the safety ratio.  A 429 alone changes
\* nothing: docs/design-docs/usage-and-cooldown.md:33,40 and tracker.go:26 have it that the rule
\* is marked as exhausted (RemoteRemain = 0) and then unavailable, but the mark is not looked at.
AnswerFollowsPlatform ==
    skew = 0 /\ ~mixed /\ excused = {} /\ Counting = {} =>
       (IsQuotaAvailable <=> \A u \in Range(list) :
           u.end = WindowEnd(u.rule, now) /\ Total[u.rule] > 0
               => Cardinality(platform[u.rule]) < Limit[u.rule])

\* A row of another rule is written only if the list that was read left out an earlier
\* row, or rows were saved anew since: positions go wrong for no other reason.
WrongRowNeedsShift ==
    [][mixed' /\ ~mixed => \E w \in Calls \cup Syncs :
          me[w].todo # me'[w].todo /\ me[w].misled]_vars

\* A rule that requests have taken to the safety ratio is reported through
\* OnQuotaExhausted: until then a request is still to look, unless the last that was to
\* found a row gone and returned its error.
CrossingIsReported ==
    \A r \in crossed : \E c \in Counting : Source[r] = SourceOf[c]
=============================================================================
