----------------------------- MODULE Selectors ------------------------------
(***************************************************************************)
(* Pick with the strategies that choose for it, instead of any choice at   *)
(* all.  A GroupSelector is consulted at pc "group", a Selector at pc      *)
(* "select"; both work on lists that rand.Shuffle has put in random order, *)
(* so of candidates that rank alike any may come first.  What a strategy   *)
(* reads or writes outside its candidates is a step of its own:            *)
(*   affinity    GetAffinity, then the fallback, then SetAffinity          *)
(*   least_used  GetStats, account by account                              *)
(* A name (a UserID, a model) is the sequence of the parts that colons     *)
(* separate and the colons themselves, for colons join names into keys.    *)
(* The strategies in use (conf) never change while the process runs.       *)
(* Bounds: those of Pick; Confs, the configurations tried.                 *)
(***************************************************************************)
EXTENDS Pick, Sequences

CONSTANTS People,       \* those the callers pick for: [user, model]
          AcctPriority, \* [Accounts -> Nat]: Account.Priority
          ProvPriority, \* [Providers -> Nat]: ProviderInfo.Priority
          Confs         \* bound: the configurations tried

VARIABLES conf,    \* the strategies bootstrap has built, and who the callers are
          bound,   \* bound[s]: bindings of affinity store s, key to target
          calls,   \* StatsStore: TotalCalls
          sel,     \* sel[c]: the local variables of caller c's selectors
          served   \* ghost: the last Pick of a person, if nothing came between it and now

selvars == <<conf, bound, calls, sel, served>>
allvars == <<vars, selvars>>

Who == conf.who
NoUser == <<>>      \* the empty UserID
Levels == {"group", "acct"}

\* What a configuration may ask for.  An affinity strategy never falls back on
\* another one; cap is WithMaxAffinityEntries, and shared says that both levels
\* got one store, as bootstrap does.
SimpleSelectors == {"round_robin", "priority", "weighted", "least_used"}
SimpleGroupSelectors == {"round_robin", "priority", "weighted", "most_available"}
Configurations ==
    [acct : SimpleSelectors \cup {"affinity"}, acctFallback : SimpleSelectors,
     group : SimpleGroupSelectors \cup {"affinity"},
     groupFallback : SimpleGroupSelectors, shared : BOOLEAN, cap : Nat \ {0},
     who : [Callers -> People]]

ASSUME ConfsAreBuildable == Confs \subseteq Configurations

\* The strategy that chooses when no binding does.
Fallback(level) == IF conf[level] # "affinity" THEN conf[level]
                   ELSE IF level = "acct" THEN conf.acctFallback ELSE conf.groupFallback

-----------------------------------------------------------------------------
\* Simple strategies, as the candidates they may choose.
RoundRobin(as) == as      \* the next position of a list in random order
GroupRoundRobin(ps) == ps
Weighted(as) == as        \* no weight is below one, so any can be drawn
GroupWeighted(ps) == ps
Priority(as) == {a \in as : \A b \in as : AcctPriority[b] <= AcctPriority[a]}

\* n: the AvailableAccountCounts that came with the list of providers.
Above(x, y) == x[1] > y[1] \/ (x[1] = y[1] /\ x[2] > y[2])
GroupPriority(ps, n) ==
    {p \in ps : ~\E q \in ps : Above(<<ProvPriority[q], n[q]>>, <<ProvPriority[p], n[p]>>)}
GroupMostAvailable(ps, n) ==
    {p \in ps : ~\E q \in ps : Above(<<n[q], ProvPriority[q]>>, <<n[p], ProvPriority[p]>>)}

Simple(as) == CASE Fallback("acct") = "round_robin" -> RoundRobin(as)
                [] Fallback("acct") = "weighted"    -> Weighted(as)
                [] Fallback("acct") = "priority"    -> Priority(as)
SimpleGroup(ps, n) == CASE Fallback("group") = "round_robin"    -> GroupRoundRobin(ps)
                        [] Fallback("group") = "weighted"       -> GroupWeighted(ps)
                        [] Fallback("group") = "priority"       -> GroupPriority(ps, n)
                        [] Fallback("group") = "most_available" -> GroupMostAvailable(ps, n)

-----------------------------------------------------------------------------
\* Both levels build the same key, and two people may share it: user u:x with model m
\* has that of user u with model x:m.
AffinityKey(w) == w.user \o <<":">> \o w.model
SameKey(v, w) == AffinityKey(v) = AffinityKey(w)
StoreOf(level) == IF conf.shared THEN "acct" ELSE level

\* What a GetAffinity that succeeds finds: what the key is bound to, if anything.
Bound(level, w) ==
    IF conf[level] # "affinity" \/ w.user = NoUser THEN {}
    ELSE {bound[s][k] : s \in {StoreOf(level)},
                        k \in DOMAIN bound[StoreOf(level)] \cap {AffinityKey(w)}}

\* A full map is emptied before anything is bound, even a key it holds already.
Emptied(m) == IF Cardinality(DOMAIN m) >= conf.cap THEN [k \in {} |-> NoAccount] ELSE m

\* Mutant of SetAffinity: a binding stays as it is once made.
BindsOnce(m, k, t) == IF k \in DOMAIN m THEN m
                      ELSE [x \in DOMAIN m \cup {k} |-> IF x = k THEN t ELSE m[x]]
SetAffinity(m, k, t) == [x \in DOMAIN Emptied(m) \cup {k} |->
                            IF x = k THEN t ELSE Emptied(m)[x]]

-----------------------------------------------------------------------------
\* The local variables: counts of the listed providers; whether GetAffinity has just
\* failed; the account chosen; the run of LeastUsed over its candidates; the call still
\* to be made, if any; and, ghost, whether this Pick ran alone for its key and its
\* bindings lasted.  kept is a ghost as well: those read whose statistics still exist.
NoScan == [on |-> FALSE, seen |-> {}, kept |-> {}, best |-> NoAccount, least |-> 0,
           blind |-> FALSE]
Nothing == [op |-> "none", level |-> "none", target |-> NoAccount]
Bind(level, t) == [op |-> "bind", level |-> level, target |-> t]
CountCall(a) == [op |-> "count", level |-> "none", target |-> a]

FreshSel == [listed |-> [p \in Providers |-> 0], missed |-> FALSE, want |-> NoAccount,
             scan |-> NoScan, next |-> Nothing, alone |-> FALSE]
Unserved == [acct |-> NoAccount, prov |-> NoProvider]

InPick(c) == call[c].pc \notin {"idle", "held", "failed"}
Ready(c) == sel[c].next = Nothing      \* no store call of a selector is due

Sets(c, s) == sel' = [sel EXCEPT ![c] = s]

\* The binding a fallback's choice calls for.
Owed(c, level, t) == IF conf[level] = "affinity" /\ Who[c].user # NoUser
                     THEN Bind(level, t) ELSE Nothing
-----------------------------------------------------------------------------
SelInit == /\ Init
           /\ conf \in Confs
           /\ bound = [s \in Levels |-> [k \in {} |-> NoAccount]]
           /\ calls = [a \in Accounts |-> 0]
           /\ sel = [c \in Callers |-> FreshSel]
           /\ served = [w \in People |-> Unserved]

\* Others who are picking under the same key are no longer alone.
BeginSelecting(c, r) ==
    LET rivals == {d \in Callers \ {c} : SameKey(Who[d], Who[c]) /\ InPick(d)}
    IN  /\ Ready(c) /\ Begin(c, r)
        /\ sel' = [d \in Callers |-> IF d = c THEN [FreshSel EXCEPT !.alone = rivals = {}]
                                     ELSE IF d \in rivals THEN [sel[d] EXCEPT !.alone = FALSE]
                                     ELSE sel[d]]
        /\ served' = [w \in People |-> IF SameKey(w, Who[c]) THEN Unserved ELSE served[w]]
        /\ UNCHANGED <<conf, bound, calls>>

\* The list carries a copy of every count.
ListCounts(c) ==
    /\ Ready(c) /\ List(c)
    /\ Sets(c, [sel[c] EXCEPT !.listed = [p \in Providers |->
                    Cardinality({a \in avail : Home[a] = p})]])
    /\ UNCHANGED <<conf, bound, calls, served>>

\* GetAffinity of the Select that comes next fails, which Select takes for a miss.
Chooses(c, level) == CASE level = "group" -> call[c].pc = "group"
                                             /\ call[c].cands \ call[c].tried # {}
                       [] level = "acct"  -> /\ call[c].pc = "select" /\ Choices(call[c]) # {}
                                             /\ sel[c].want = NoAccount /\ ~sel[c].scan.on
LookupFails(c) ==
    /\ \E level \in Levels : Chooses(c, level) /\ conf[level] = "affinity"
    /\ Who[c].user # NoUser /\ Ready(c) /\ ~sel[c].missed
    /\ MayFail /\ trouble' = trouble + 1
    /\ Sets(c, [sel[c] EXCEPT !.missed = TRUE])
    /\ UNCHANGED <<env, occ, lost, call, picks, faults, conf, bound, calls, served>>

\* What Select makes of the answer.
Hit(c, level, cands) == IF sel[c].missed THEN {} ELSE Bound(level, Who[c]) \cap cands

\* GroupSelector.Select: the bound provider if it is a candidate, or else what the
\* fallback chooses, to be bound next.
GroupSelect(c) ==
    LET left == call[c].cands \ call[c].tried
        hit == Hit(c, "group", left)
    IN  /\ Ready(c) /\ Group(c)
        /\ \/ /\ left = {} /\ UNCHANGED sel
           \/ /\ left # {} /\ hit # {} /\ call'[c].prov \in hit /\ UNCHANGED sel
           \/ /\ left # {} /\ hit = {}
              /\ call'[c].prov \in SimpleGroup(left, sel[c].listed)
              /\ Sets(c, [sel[c] EXCEPT !.missed = FALSE,
                                        !.next = Owed(c, "group", call'[c].prov)])
        /\ UNCHANGED <<conf, bound, calls, served>>

\* Selector.Select: GetAffinity, and the fallback up to the first GetStats of LeastUsed.
Select(c) ==
    LET as == Choices(call[c])
        hit == Hit(c, "acct", as)
    IN  /\ Chooses(c, "acct") /\ Ready(c)
        /\ \/ \E a \in hit : Sets(c, [sel[c] EXCEPT !.want = a])
           \/ /\ hit = {} /\ Fallback("acct") # "least_used"
              /\ \E a \in Simple(as) :
                    Sets(c, [sel[c] EXCEPT !.missed = FALSE, !.want = a,
                                           !.next = Owed(c, "acct", a)])
           \/ /\ hit = {} /\ Fallback("acct") = "least_used"
              /\ Sets(c, [sel[c] EXCEPT !.missed = FALSE, !.scan = [NoScan EXCEPT !.on = TRUE]])
        /\ UNCHANGED <<vars, conf, bound, calls, served>>

\* Mutant of Beats: a higher priority beats fewer calls.
PriorityFirst(s, a, n) == \/ s.seen = {}
                          \/ AcctPriority[a] > AcctPriority[s.best] \/ n < s.least
\* The candidate a, read with n calls, replaces the best so far.
Beats(s, a, n) == \/ s.seen = {}
                  \/ n < s.least
                  \/ n = s.least /\ AcctPriority[a] > AcctPriority[s.best]

Look(c, a, n, failed) ==
    LET s == sel[c].scan
        t == [s EXCEPT !.seen = @ \cup {a}, !.kept = @ \cup {a}, !.blind = @ \/ failed]
    IN  Sets(c, [sel[c] EXCEPT !.scan = IF Beats(s, a, n)
                                        THEN [t EXCEPT !.best = a, !.least = n] ELSE t])

Scanning(c) == sel[c].scan.on /\ sel[c].want = NoAccount

\* GetStats of the next candidate; an error counts as no calls.
ScanNext(c) ==
    /\ Scanning(c)
    /\ \E a \in Choices(call[c]) \ sel[c].scan.seen :
          \/ Look(c, a, calls[a], FALSE) /\ UNCHANGED vars
          \/ /\ MayFail /\ trouble' = trouble + 1
             /\ Look(c, a, 0, TRUE)
             /\ UNCHANGED <<env, occ, lost, call, picks, faults>>
    /\ UNCHANGED <<conf, bound, calls, served>>

ScanEnds(c) ==
    /\ Scanning(c)
    /\ Choices(call[c]) \subseteq sel[c].scan.seen
    /\ Sets(c, [sel[c] EXCEPT !.want = sel[c].scan.best,
                              !.next = Owed(c, "acct", sel[c].scan.best)])
    /\ UNCHANGED <<vars, conf, bound, calls, served>>

\* SetAffinity.  Bindings that go because the map was full are nobody's promise
\* any more; an error of a database is swallowed.
MakeBinding(c) ==
    LET n == sel[c].next
        st == StoreOf(n.level)
        m == SetAffinity(bound[st], AffinityKey(Who[c]), n.target)
        spilled == ~(DOMAIN bound[st] \subseteq DOMAIN m)
        after == [sel EXCEPT ![c].next = Nothing]
    IN  /\ n.op = "bind"
        /\ \/ /\ bound' = [bound EXCEPT ![st] = m]
              /\ served' = IF spilled THEN [w \in People |-> Unserved] ELSE served
              /\ sel' = [d \in Callers |-> IF spilled /\ d # c
                                           THEN [after[d] EXCEPT !.alone = FALSE] ELSE after[d]]
              /\ UNCHANGED vars
           \/ /\ MayFail /\ trouble' = trouble + 1
              /\ sel' = [after EXCEPT ![c].alone = FALSE]
              /\ UNCHANGED <<env, occ, lost, call, picks, faults, bound, served>>
        /\ UNCHANGED <<conf, calls>>

\* Acquire of the account chosen, whether it is had or not.
Acquire(c) == /\ Ready(c) /\ sel[c].want # NoAccount
              /\ \/ TryAccount(c, sel[c].want) \/ IncrFails(c, sel[c].want)
              /\ Sets(c, [sel[c] EXCEPT !.want = NoAccount, !.scan = NoScan])
              /\ UNCHANGED <<conf, bound, calls, served>>

\* The rest of Pick; at its return the ghost notes who was served by whom.
Proceed(c) ==
    /\ Ready(c) /\ ~sel[c].missed /\ Working(c)
    /\ served' = IF call[c].pc = "stamp" /\ call'[c].pc = "held" /\ sel[c].alone
                 THEN [served EXCEPT ![Who[c]] =
                          [acct |-> call[c].acct,
                           prov |-> IF call[c].auto THEN call[c].prov ELSE NoProvider]]
                 ELSE served
    /\ UNCHANGED <<conf, bound, calls, sel>>

\* A report releases the slot and then counts the call, unless the store fails.
ReportCall(c) == /\ Report(c)
                 /\ Sets(c, [sel[c] EXCEPT !.next = CountCall(call[c].acct)])
                 /\ UNCHANGED <<conf, bound, calls, served>>
IncrCalls(c) == /\ sel[c].next.op = "count"
                /\ \/ /\ calls' = [calls EXCEPT ![sel[c].next.target] = @ + 1]
                      /\ UNCHANGED vars
                   \/ /\ MayFail /\ trouble' = trouble + 1
                      /\ UNCHANGED <<calls, env, occ, lost, call, picks, faults>>
                /\ Sets(c, [sel[c] EXCEPT !.next = Nothing])
                /\ UNCHANGED <<conf, bound, served>>

\* RemoveAccount deletes the statistics of an account, which is available no longer.
RemoveStats(a) == /\ a \notin avail /\ calls[a] # 0
                  /\ calls' = [calls EXCEPT ![a] = 0]
                  /\ sel' = [c \in Callers |-> [sel[c] EXCEPT !.scan.kept = @ \ {a}]]
                  /\ UNCHANGED <<vars, conf, bound, served>>

\* One statement of a running Pick, its selectors included.
SelStep(c) == \/ ListCounts(c) \/ LookupFails(c) \/ GroupSelect(c) \/ Select(c)
              \/ ScanNext(c) \/ ScanEnds(c) \/ MakeBinding(c) \/ Acquire(c) \/ Proceed(c)

SelNext == \/ \E c \in Callers, r \in Asked : BeginSelecting(c, r)
           \/ \E c \in Callers : SelStep(c) \/ ReportCall(c) \/ IncrCalls(c)
           \/ \E a \in Accounts : RemoveStats(a)
           \/ /\ \/ \E c \in Callers : SeesError(c)
                 \/ \E a \in Accounts : StatusChanges(a)
              /\ UNCHANGED selvars
           \/ Finished /\ (\A c \in Callers : Ready(c)) /\ UNCHANGED selvars

SelSpec == SelInit /\ [][SelNext]_allvars /\ \A c \in Callers : WF_allvars(SelStep(c))

-----------------------------------------------------------------------------
\* With both levels on affinity and one store for both, which is what bootstrap
\* builds, each level overwrites the binding of the other.
Collides == conf.acct = "affinity" /\ conf.group = "affinity" /\ conf.shared

\* Affinity keeps its promise through retries and failover: whatever accounts and
\* providers a Pick tried before, what its person is bound to afterwards is what
\* served them, until another Pick under the same key, be it for the same person or
\* for one whose user and model join to the same key, a full map or a write that
\* failed comes between.  It does not hold where the levels collide.
BindingFollowsService ==
    ~Collides => \A w \in People :
        /\ conf.acct = "affinity" /\ w.user # NoUser /\ served[w].acct # NoAccount
              => Bound("acct", w) = {served[w].acct}
        /\ conf.group = "affinity" /\ w.user # NoUser /\ served[w].prov # NoProvider
              => Bound("group", w) = {served[w].prov}

\* LeastUsed, which goes by the number of calls and not by the quota that is left, reads
\* its candidates one after the other while calls are counted and accounts removed behind
\* its back; still, when it chooses, no candidate has fewer calls than the chosen one had
\* when it was read, unless its statistics were deleted since or a read failed.
LeastUsedHolds ==
    \A c \in Callers : LET s == sel[c].scan
                       IN  ~s.blind => \A a \in s.kept : s.least <= calls[a]
=============================================================================
