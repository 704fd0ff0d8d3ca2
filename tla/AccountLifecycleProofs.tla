----------------------- MODULE AccountLifecycleProofs -----------------------
(***************************************************************************)
(* Theorems about AccountLifecycle, for any number of reporters, health    *)
(* checkers and daemons.  The optimistic lock of UpdateAccount does its    *)
(* work: no update of the account is lost, and decisions that look at the  *)
(* status still hold when they are written.  And status and deadline go    *)
(* together: only the health command stores an account that cools down, or *)
(* whose circuit is open, without a time at which that ends.               *)
(***************************************************************************)
EXTENDS AccountLifecycle, SequenceTheorems, TLAPS

LEMMA LocalTypes ==
    /\ None \in Account /\ New \in Account
    /\ Idle \in Local /\ Off \in Local
    /\ None.ver = 0
<1>1. /\ None \in Account /\ New \in Account
      /\ Idle \in Local
      /\ None.ver = 0
  BY BoundsNatural, ThresholdPositive
     DEF None, New, Account, Status, Deadlines, Idle, Local, PcValues, Suggestions
<1>2. Off \in Local
  <2>1. "off" \in PcValues
    BY DEF PcValues
  <2>. HIDE DEF Idle
  <2>. QED
    BY <1>1, <2>1 DEF Off, Local
<1>. QED
  BY <1>1, <1>2

LEMMA CopyTypes ==
    ASSUME now \in 0..MaxNow, NEW a \in Account
    PROVE  /\ Cooled(a) \in Account /\ Cooled(a).ver = a.ver
           /\ Tripped(a) \in Account /\ Tripped(a).ver = a.ver
           /\ Closed(a) \in Account /\ Closed(a).ver = a.ver
           /\ Stored(a) \in Account /\ Stored(a).ver = a.ver + 1
           /\ \A s \in Status : /\ [a EXCEPT !.status = s] \in Account
                                /\ [a EXCEPT !.status = s].ver = a.ver
           /\ \A h, until : \A s \in Suggestions :
                 /\ Suggested(h, a, s, until) \in Account
                 /\ Suggested(h, a, s, until).ver = a.ver
<1>f. /\ a = [status |-> a.status, cool |-> a.cool, circ |-> a.circ, ver |-> a.ver]
      /\ a.status \in Status /\ a.cool \in Deadlines /\ a.circ \in Deadlines
      /\ a.ver \in Nat
  BY DEF Account
<1>d. /\ Later \in Deadlines /\ 0 \in Deadlines
      /\ {"Available", "CoolingDown", "CircuitOpen"} \subseteq Status
  BY BoundsNatural DEF Later, Deadlines, Status
<1>a. Cooled(a) \in Account /\ Cooled(a).ver = a.ver
  BY <1>f, <1>d DEF Cooled, Account
<1>b. Tripped(a) \in Account /\ Tripped(a).ver = a.ver
  BY <1>f, <1>d DEF Tripped, Account
<1>g. Closed(a) \in Account /\ Closed(a).ver = a.ver
  <2>1. CASE a.status = "CircuitOpen"
    <3>1. Closed(a) = [a EXCEPT !.status = "Available", !.circ = 0]
      BY <2>1 DEF Closed
    <3>. QED
      BY <3>1, <1>f, <1>d DEF Account
  <2>2. CASE a.status # "CircuitOpen"
    <3>1. Closed(a) = [a EXCEPT !.circ = 0]
      BY <2>2, <1>f DEF Closed
    <3>. QED
      BY <3>1, <1>f, <1>d DEF Account
  <2>. QED
    BY <2>1, <2>2
<1>c. Stored(a) \in Account /\ Stored(a).ver = a.ver + 1
  BY <1>f DEF Stored, Account
<1>e. \A s \in Status : /\ [a EXCEPT !.status = s] \in Account
                         /\ [a EXCEPT !.status = s].ver = a.ver
  BY <1>f DEF Account
<1>3. ASSUME NEW h, NEW until
      PROVE  Cooling(h, a, until) \in Account /\ Cooling(h, a, until).ver = a.ver
  <2>1. Cooling(h, a, until) = Cooled(a) \/ Cooling(h, a, until) = [a EXCEPT !.status = "CoolingDown"]
    BY DEF Cooling
  <2>2. [a EXCEPT !.status = "CoolingDown"] \in Account
        /\ [a EXCEPT !.status = "CoolingDown"].ver = a.ver
    BY <1>e, <1>d
  <2>. QED
    BY <1>a, <2>1, <2>2
<1>2. ASSUME NEW h, NEW until, NEW s \in Suggestions
      PROVE  /\ Suggested(h, a, s, until) \in Account
             /\ Suggested(h, a, s, until).ver = a.ver
  <2>1. CASE s \in {"Available", "refreshed"} /\ a.status # "Available"
    <3>1. Suggested(h, a, s, until) = [a EXCEPT !.status = "Available", !.cool = 0, !.circ = 0]
      BY <2>1 DEF Suggested
    <3>. QED
      BY <3>1, <1>f, <1>d DEF Account
  <2>2. CASE s = "CoolingDown" /\ a.status \in {"Available", "CircuitOpen"}
    BY <2>2, <1>3 DEF Suggested
  <2>3. CASE s \notin {"Available", "refreshed", "CoolingDown"}
    <3>1. Suggested(h, a, s, until) = [a EXCEPT !.status = s] /\ s \in Status
      BY <2>3 DEF Suggested, Suggestions
    <3>. QED
      BY <3>1, <1>e
  <2>4. CASE /\ ~(s \in {"Available", "refreshed"} /\ a.status # "Available")
             /\ ~(s = "CoolingDown" /\ a.status \in {"Available", "CircuitOpen"})
             /\ s \in {"Available", "refreshed", "CoolingDown"}
    BY <2>4 DEF Suggested
  <2>. QED
    BY <2>1, <2>2, <2>3, <2>4
<1>. QED
  BY <1>a, <1>b, <1>c, <1>e, <1>g, <1>2

-----------------------------------------------------------------------------
\* What the ways in which a thread goes on do to types.

LEMMA MoveTypes ==
    ASSUME TypeOK, NEW t \in Threads, NEW l \in PcValues,
           Return(t) \/ Goto(t, l) \/ Proceed(t, l)
    PROVE  me' \in [Threads -> Local]
<1>1. me[t] \in Local
  BY DEF TypeOK
<1>2. CASE Return(t)
  BY <1>2, LocalTypes DEF Return, TypeOK
<1>3. CASE Goto(t, l)
  <2>1. [me[t] EXCEPT !.pc = l] \in Local
    BY <1>1 DEF Local
  <2>. QED
    BY <1>3, <2>1 DEF Goto, TypeOK
<1>4. CASE Proceed(t, l) /\ l # "idle"
  <2>1. [me[t] EXCEPT !.pc = l, !.snap = None, !.base = None] \in Local
    BY <1>1, LocalTypes DEF Local
  <2>2. me' = [me EXCEPT ![t] = [me[t] EXCEPT !.pc = l, !.snap = None, !.base = None]]
    BY <1>4 DEF Proceed, TypeOK
  <2>. QED
    BY <2>1, <2>2 DEF TypeOK
<1>5. Proceed(t, "idle") => Return(t)
  BY DEF Proceed
<1>. QED
  BY <1>2, <1>3, <1>4, <1>5

LEMMA ReadTypes ==
    ASSUME TypeOK, NEW t \in Threads, NEW l \in PcValues, NEW copy \in Account,
           Reads(t, l, copy)
    PROVE  me' \in [Threads -> Local]
<1>1. me[t] \in Local /\ acct \in Account
  BY DEF TypeOK
<1>2. [me[t] EXCEPT !.pc = l, !.snap = copy, !.base = acct] \in Local
  BY <1>1 DEF Local
<1>3. me' = [me EXCEPT ![t] = [me[t] EXCEPT !.pc = l, !.snap = copy, !.base = acct]]
  BY DEF Reads, TypeOK
<1>. QED
  BY <1>2, <1>3 DEF TypeOK

LEMMA PutTypes ==
    ASSUME TypeOK, NEW t \in Threads, NEW ok \in PcValues, NEW conflict \in PcValues,
           Put(t, ok, conflict)
    PROVE  acct' \in Account /\ me' \in [Threads -> Local]
<1>1. me[t].snap \in Account
  BY DEF TypeOK, Local
<1>2. acct' \in Account
  BY <1>1, CopyTypes DEF Put, TypeOK
<1>3. Proceed(t, ok) \/ Goto(t, "again") \/ Proceed(t, conflict)
  BY DEF Put
<1>4. "again" \in PcValues
  BY DEF PcValues
<1>. QED
  BY <1>2, <1>3, <1>4, MoveTypes

LEMMA Singleton == ASSUME NEW S, NEW x \in S PROVE <<x>> \in Seq(S)
OBVIOUS

\* Suggestions of RecoveryCheck and of the daemon's callback.
LEMMA SuggestionTypes ==
    ASSUME now \in 0..MaxNow, NEW a \in Account, NEW todo \in Seq(Suggestions),
           NEW until \in BOOLEAN
    PROVE  /\ Recovery(a) \in Seq(Suggestions)
           /\ Reported(a, todo, until) \in Account
           /\ Reported(a, todo, until).ver = a.ver
<1>1. Recovery(a) \in Seq(Suggestions)
  <2>1. "Available" \in Suggestions
    BY DEF Suggestions, Status
  <2>2. Recovery(a) = <<"Available">> \/ Recovery(a) = <<>>
    BY DEF Recovery
  <2>3. <<"Available">> \in Seq(Suggestions) /\ <<>> \in Seq(Suggestions)
    BY <2>1, Singleton
  <2>. QED
    BY <2>2, <2>3
<1>2. "Available" \in Suggestions /\ "Available" \in Status
  BY DEF Suggestions, Status
<1>0. /\ Cooled(a) \in Account /\ Cooled(a).ver = a.ver
      /\ \A x \in Status : /\ [a EXCEPT !.status = x] \in Account
                           /\ [a EXCEPT !.status = x].ver = a.ver
  BY CopyTypes
<1> DEFINE s == IF todo = <<>> THEN "Available" ELSE todo[Len(todo)]
<1>3. s \in Suggestions
  BY <1>2
<1>4. Reported(a, todo, until) = CASE s = "refreshed" -> [a EXCEPT !.status = "Available"]
                                   [] s = "CoolingDown" /\ until -> Cooled(a)
                                   [] OTHER -> [a EXCEPT !.status = s]
  BY DEF Reported
<1> HIDE DEF s
<1>5. CASE s = "refreshed"
  <2>1. Reported(a, todo, until) = [a EXCEPT !.status = "Available"]
    BY <1>4, <1>5
  <2>. QED
    BY <2>1, <1>0, <1>1, <1>2
<1>6. CASE s = "CoolingDown" /\ until
  <2>1. Reported(a, todo, until) = Cooled(a)
    BY <1>4, <1>6
  <2>. QED
    BY <2>1, <1>0, <1>1
<1>7. CASE s # "refreshed" /\ ~(s = "CoolingDown" /\ until)
  <2>1. Reported(a, todo, until) = [a EXCEPT !.status = s]
    BY <1>4, <1>7
  <2>2. s \in Status
    BY <1>3, <1>7 DEF Suggestions
  <2>. QED
    BY <2>1, <2>2, <1>0, <1>1
<1>. QED
  BY <1>5, <1>6, <1>7

LEMMA SpentTypes ==
    ASSUME TypeOK, NewReport \/ NewEvent \/ UNCHANGED spent
    PROVE  reports' \in Nat /\ events' \in Nat
BY DEF TypeOK, NewReport, NewEvent, spent

-----------------------------------------------------------------------------
\* Every step keeps the types.
LEMMA TypeStep == ASSUME TypeOK, [Next]_vars PROVE TypeOK'
<1>pc. \A l \in {"idle", "quota", "cool", "stats", "closing", "record", "close", "reset",
                 "judge", "put", "again", "putagain", "checks", "fetch", "apply",
                 "persist"} : l \in PcValues
  BY DEF PcValues
<1>ty. /\ acct \in Account /\ fails \in 0..Threshold /\ now \in 0..MaxNow
       /\ \A t \in Threads : /\ me[t] \in Local
                             /\ me[t].then \in PcValues
                             /\ me[t].snap \in Account
                             /\ me[t].todo \in Seq(Suggestions)
  BY DEF TypeOK, Local
<1>me. ASSUME NEW t \in Threads, NEW v \in Local, me' = [me EXCEPT ![t] = v]
       PROVE  me' \in [Threads -> Local]
  BY <1>me DEF TypeOK
<1>1. ASSUME NEW r \in Reporters, Success(r)
      PROVE  TypeOK'
  <2>1. r \in Threads
    BY DEF Threads
  <2>2. ASSUME NEW q \in {"quota", "stats"},
               me' = [me EXCEPT ![r].pc = q, ![r].then = "stats"]
        PROVE  me' \in [Threads -> Local]
    <3>1. [me[r] EXCEPT !.pc = q, !.then = "stats"] \in Local
      BY <1>ty, <1>pc, <2>1 DEF Local
    <3>2. me' = [me EXCEPT ![r] = [me[r] EXCEPT !.pc = q, !.then = "stats"]]
      BY <2>1, <2>2 DEF TypeOK
    <3>. QED
      BY <2>1, <3>1, <3>2, <1>me
  <2>3. me' \in [Threads -> Local]
    BY <1>1, <2>1, <2>2, <1>pc, MoveTypes DEF Success
  <2>. QED
    BY <1>1, <2>3, SpentTypes, ThresholdPositive DEF Success, TypeOK
<1>2. ASSUME NEW r \in Reporters, NEW limited \in BOOLEAN, Failure(r, limited)
      PROVE  TypeOK'
  <2>1. r \in Threads
    BY DEF Threads
  <2>2. fails' \in 0..Threshold
    BY <1>2, <1>ty, ThresholdPositive DEF Failure
  <2>3. PICK q \in {"quota", "judge"} :
           me' = [me EXCEPT ![r].pc = q, ![r].then = "judge", ![r].limited = limited,
                            ![r].n = fails']
    BY <1>2 DEF Failure
  <2>4. [me[r] EXCEPT !.pc = q, !.then = "judge", !.limited = limited, !.n = fails']
           \in Local
    BY <1>ty, <1>pc, <2>1, <2>2 DEF Local
  <2>5. me' = [me EXCEPT ![r] = [me[r] EXCEPT !.pc = q, !.then = "judge",
                                              !.limited = limited, !.n = fails']]
    BY <2>1, <2>3 DEF TypeOK
  <2>. QED
    BY <1>2, <2>1, <2>2, <2>4, <2>5, <1>me, SpentTypes DEF Failure, TypeOK
<1>3. ASSUME NEW r \in Reporters, ReporterStep(r)
      PROVE  TypeOK'
  <2>1. r \in Threads
    BY DEF Threads
  <2> USE <1>ty, <1>pc, <2>1
  <2>2. CASE Stats(r)
    <3>1. Goto(r, "closing") \/ Goto(r, "reset")
      BY <2>2 DEF Stats
    <3>. QED
      BY <2>2, <3>1, MoveTypes, SpentTypes DEF Stats, TypeOK
  <2>3. CASE ReadToClose(r)
    BY <2>3, ReadTypes, SpentTypes DEF ReadToClose, TypeOK
  <2>4. CASE RecordSuccess(r)
    <3> DEFINE a == Closed(me[r].snap)
               l == IF me[r].snap.status = "CircuitOpen" THEN "close" ELSE "reset"
    <3>1. a \in Account /\ l \in PcValues
      BY CopyTypes
    <3>2. me' = [me EXCEPT ![r] = [me[r] EXCEPT !.snap = a, !.pc = l]]
      BY <2>4 DEF RecordSuccess, TypeOK
    <3> HIDE DEF a, l
    <3>3. [me[r] EXCEPT !.snap = a, !.pc = l] \in Local
      BY <3>1 DEF Local
    <3>4. me' \in [Threads -> Local]
      BY <3>2, <3>3, <1>me
    <3>. QED
      BY <2>4, <3>4, SpentTypes, ThresholdPositive DEF RecordSuccess, TypeOK
  <2>5. CASE Close(r)
    BY <2>5, PutTypes, SpentTypes DEF Close, TypeOK
  <2>6. CASE ResetFailures(r)
    BY <2>6, MoveTypes, SpentTypes, ThresholdPositive DEF ResetFailures, TypeOK
  <2>7. CASE QuotaCallback(r)
    <3>1. Reads(r, "cool", Cooled(acct)) \/ Goto(r, me[r].then)
      BY <2>7 DEF QuotaCallback
    <3>2. Cooled(acct) \in Account
      BY CopyTypes
    <3>. QED
      BY <2>7, <3>1, <3>2, ReadTypes, MoveTypes, SpentTypes DEF QuotaCallback, TypeOK
  <2>8. CASE QuotaPut(r)
    BY <2>8, PutTypes, SpentTypes DEF QuotaPut, TypeOK
  <2>9. CASE Judge(r)
    <3>1. \/ Reads(r, "put", Cooled(acct)) \/ Reads(r, "put", Tripped(acct))
          \/ Return(r)
      BY <2>9 DEF Judge
    <3>2. Cooled(acct) \in Account /\ Tripped(acct) \in Account
      BY CopyTypes
    <3>. QED
      BY <2>9, <3>1, <3>2, ReadTypes, MoveTypes, SpentTypes DEF Judge, TypeOK
  <2>10. CASE FailurePut(r)
    BY <2>10, PutTypes, SpentTypes DEF FailurePut, TypeOK
  <2>11. CASE ReadAgain(r)
    <3>1. Return(r) \/ Reads(r, "putagain", [me[r].snap EXCEPT !.ver = acct.ver])
      BY <2>11 DEF ReadAgain
    <3>2. [me[r].snap EXCEPT !.ver = acct.ver] \in Account
      BY DEF Account
    <3>. QED
      BY <2>11, <3>1, <3>2, ReadTypes, MoveTypes, SpentTypes DEF ReadAgain, TypeOK
  <2>12. CASE PutAgain(r)
    BY <2>12, PutTypes, SpentTypes DEF PutAgain, TypeOK
  <2>. QED
    BY <1>3, <2>2, <2>3, <2>4, <2>5, <2>6, <2>7, <2>8, <2>9, <2>10, <2>11, <2>12
       DEF ReporterStep
<1>4. ASSUME NEW h \in Checkers \cup Daemons, CheckerStep(h)
      PROVE  TypeOK'
  <2>1. h \in Threads
    BY DEF Threads
  <2> USE <1>ty, <1>pc, <2>1
  <2>2. CASE Look(h)
    <3>1. NewReport \/ UNCHANGED spent
      BY <2>2 DEF Look
    <3>. QED
      BY <2>2, <3>1, ReadTypes, SpentTypes DEF Look, TypeOK
  <2>3. CASE RunChecks(h)
    <3> DEFINE found == Recovery(me[h].snap)
    <3>1. found \in Seq(Suggestions)
      BY SuggestionTypes
    <3>2. PICK w \in Seq(Suggestions) : me' = [me EXCEPT ![h].pc = "fetch", ![h].todo = w]
      <4>1. CASE me' = [me EXCEPT ![h].pc = "fetch", ![h].todo = found]
        BY <3>1, <4>1
      <4>2. ASSUME NEW s \in Findings, NEW first \in BOOLEAN,
                   me' = [me EXCEPT ![h].pc = "fetch",
                                    ![h].todo = IF first THEN <<s>> \o found
                                                ELSE found \o <<s>>]
            PROVE  \E w \in Seq(Suggestions) :
                      me' = [me EXCEPT ![h].pc = "fetch", ![h].todo = w]
        <5>1. <<s>> \in Seq(Suggestions)
          BY FindingsAreSuggestions, Singleton
        <5>2. <<s>> \o found \in Seq(Suggestions) /\ found \o <<s>> \in Seq(Suggestions)
          BY <3>1, <5>1, ConcatProperties
        <5> HIDE DEF found
        <5>. QED
          BY <4>2, <5>2
      <4>. QED
        BY <2>3, <4>1, <4>2 DEF RunChecks
    <3>3. [me[h] EXCEPT !.pc = "fetch", !.todo = w] \in Local
      BY DEF Local
    <3>4. me' = [me EXCEPT ![h] = [me[h] EXCEPT !.pc = "fetch", !.todo = w]]
      BY <3>2 DEF TypeOK
    <3>5. NewEvent \/ UNCHANGED spent
      BY <2>3 DEF RunChecks
    <3>. QED
      BY <2>3, <3>3, <3>4, <3>5, <1>me, SpentTypes DEF RunChecks, TypeOK
  <2>4. CASE Fetch(h)
    BY <2>4, ReadTypes, SpentTypes DEF Fetch, TypeOK
  <2>5. CASE Apply(h)
    <3>0. PICK until \in BOOLEAN :
             LET z == Head(me[h].todo)
                 c == Suggested(h, me[h].snap, z, until)
             IN  me' = [me EXCEPT ![h].todo = Tail(@), ![h].snap = c,
                                  ![h].dirty = @ \/ z = "refreshed" \/ c # me[h].snap]
      BY <2>5 DEF Apply
    <3> DEFINE s == Head(me[h].todo)
               a == Suggested(h, me[h].snap, s, until)
               d == me[h].dirty \/ s = "refreshed" \/ a # me[h].snap
    <3>1. s \in Suggestions /\ Tail(me[h].todo) \in Seq(Suggestions)
      BY <2>5, HeadTailProperties DEF Apply
    <3>2. a \in Account
      BY <3>1, CopyTypes
    <3>3. d \in BOOLEAN
      OBVIOUS
    <3>4. me' = [me EXCEPT ![h] = [me[h] EXCEPT !.todo = Tail(me[h].todo), !.snap = a,
                                                !.dirty = d]]
      BY <3>0 DEF TypeOK, Local
    <3> HIDE DEF a, d
    <3>5. [me[h] EXCEPT !.todo = Tail(me[h].todo), !.snap = a, !.dirty = d] \in Local
      BY <3>1, <3>2, <3>3 DEF Local
    <3>. QED
      BY <2>5, <3>4, <3>5, <1>me, SpentTypes DEF Apply, TypeOK
  <2>6. CASE Persist(h)
    <3>1. Put(h, "idle", "idle") \/ (Return(h) /\ UNCHANGED acct)
      BY <2>6 DEF Persist
    <3>. QED
      BY <2>6, <3>1, PutTypes, MoveTypes, SpentTypes DEF Persist, TypeOK
  <2>7. CASE DaemonFetch(h)
    <3>1. PICK until \in BOOLEAN : Reads(h, "persist", Reported(acct, me[h].todo, until))
      BY <2>7 DEF DaemonFetch
    <3>2. Reported(acct, me[h].todo, until) \in Account
      BY SuggestionTypes
    <3>. QED
      BY <2>7, <3>1, <3>2, ReadTypes, SpentTypes DEF DaemonFetch, TypeOK
  <2>8. CASE DaemonPut(h)
    BY <2>8, PutTypes, SpentTypes DEF DaemonPut, TypeOK
  <2>. QED
    BY <1>4, <2>2, <2>3, <2>4, <2>5, <2>6, <2>7, <2>8 DEF CheckerStep
<1>5. ASSUME NEW t \in Threads, StoreFails(t)
      PROVE  TypeOK'
  <2>1. Goto(t, me[t].then) \/ Goto(t, "reset") \/ Return(t)
    BY <1>5 DEF StoreFails
  <2>2. me' \in [Threads -> Local]
    BY <2>1, <1>ty, <1>pc, MoveTypes
  <2>. QED
    BY <1>5, <2>2, SpentTypes DEF StoreFails, TypeOK
<1>6. ASSUME NEW s \in {acct.status, "Available", "Disabled"}, Operator(s)
      PROVE  TypeOK'
  <2>1. s \in Status
    BY <1>ty DEF Account, Status
  <2>2. [acct EXCEPT !.status = s] \in Account
    BY <1>ty, <2>1, CopyTypes
  <2>3. acct' \in Account
    BY <1>6, <1>ty, <2>2, CopyTypes DEF Operator
  <2>. QED
    BY <1>6, <2>3, SpentTypes DEF Operator, TypeOK
<1>7. CASE Tick
  BY <1>7, BoundsNatural, SpentTypes DEF Tick, TypeOK
<1>8. CASE UNCHANGED vars
  BY <1>8 DEF vars, TypeOK
<1>. QED
  BY <1>1, <1>2, <1>3, <1>4, <1>5, <1>6, <1>7, <1>8 DEF Next

\* Type correctness, for every number of threads and every bound: in particular
\* a refreshed credential never becomes a status.
THEOREM TypeCorrect == Spec => []TypeOK
<1>1. Init => TypeOK
  BY LocalTypes, ThresholdPositive, BoundsNatural DEF Init, TypeOK
<1>2. TypeOK /\ [Next]_vars => TypeOK'
  BY TypeStep
<1>. QED
  BY <1>1, <1>2, PTL DEF Spec

-----------------------------------------------------------------------------
\* The invariant.  A version alone does not say that the account is unchanged:
\* t's copy has to have the version it was read with, and no other content may
\* ever have had that version.  Decided is what t knew of the copy it read when
\* it decided to write.

Grave == {"Banned", "Invalidated", "Disabled", "CircuitOpen"}

Decided(t) == /\ me[t].then \in {"idle", "stats", "judge"}
              /\ me[t].pc = "cool" => me[t].base.status = "Available"
              /\ me[t].pc = "putagain" => me[t].base.status \notin Grave

IInv == /\ TypeOK
        /\ acct.ver > 0
        /\ VersionNamesContent
        /\ \A t \in Threads : Decided(t)

\* What a step of t may do to copies and to the account.
Untouched(t) == \A u \in Threads \ {t} : me'[u] = me[u]
KeepsCopy(t) == me'[t].base = me[t].base /\ me'[t].snap.ver = me[t].snap.ver
DropsCopy(t) == me'[t].base = None /\ me'[t].snap = None
TakesCopy(t) == me'[t].base = acct /\ me'[t].snap.ver = acct.ver

Moves(t) == /\ Untouched(t) /\ Decided(t)'
            /\ acct' = acct
            /\ KeepsCopy(t) \/ DropsCopy(t) \/ TakesCopy(t)
Commits(t) == /\ Untouched(t) /\ Decided(t)'
              /\ Current(t) /\ acct'.ver = acct.ver + 1
              /\ DropsCopy(t)

LEMMA ReturnMoves ==
    ASSUME TypeOK, NEW t \in Threads, Return(t)
    PROVE  Untouched(t) /\ Decided(t)' /\ DropsCopy(t)
<1>1. me'[t] = Idle /\ Untouched(t)
  BY DEF Return, TypeOK, Untouched
<1>. QED
  BY <1>1 DEF Idle, Decided, DropsCopy

LEMMA GotoMoves ==
    ASSUME TypeOK, NEW t \in Threads, Decided(t),
           NEW l \in PcValues \ {"cool", "putagain"}, Goto(t, l)
    PROVE  Untouched(t) /\ Decided(t)' /\ KeepsCopy(t)
<1>1. me'[t] = [me[t] EXCEPT !.pc = l] /\ Untouched(t) /\ me[t] \in Local
  BY DEF Goto, TypeOK, Untouched
<1>. QED
  BY <1>1 DEF Local, Decided, KeepsCopy

LEMMA ProceedMoves ==
    ASSUME TypeOK, NEW t \in Threads, Decided(t),
           NEW l \in PcValues \ {"cool", "putagain"}, Proceed(t, l)
    PROVE  Untouched(t) /\ Decided(t)' /\ DropsCopy(t)
<1>1. CASE l = "idle"
  BY <1>1, ReturnMoves DEF Proceed
<1>2. CASE l # "idle"
  <2>1. me'[t] = [me[t] EXCEPT !.pc = l, !.snap = None, !.base = None] /\ Untouched(t)
    BY <1>2 DEF Proceed, TypeOK, Untouched
  <2>2. me[t] \in Local
    BY DEF TypeOK
  <2>. QED
    BY <2>1, <2>2 DEF Local, Decided, DropsCopy
<1>. QED
  BY <1>1, <1>2

LEMMA ReadMoves ==
    ASSUME TypeOK, NEW t \in Threads, Decided(t), NEW l \in PcValues,
           NEW copy \in Account, copy.ver = acct.ver,
           l = "cool" => acct.status = "Available",
           l = "putagain" => acct.status \notin Grave,
           Reads(t, l, copy)
    PROVE  Untouched(t) /\ Decided(t)' /\ TakesCopy(t)
<1>1. /\ me'[t] = [me[t] EXCEPT !.pc = l, !.snap = copy, !.base = acct]
      /\ Untouched(t) /\ me[t] \in Local
  BY DEF Reads, TypeOK, Untouched
<1>. QED
  BY <1>1 DEF Local, Decided, TakesCopy

LEMMA PutMoves ==
    ASSUME TypeOK, NEW t \in Threads, Decided(t),
           NEW ok \in PcValues \ {"cool", "putagain"},
           NEW conflict \in PcValues \ {"cool", "putagain"},
           Put(t, ok, conflict)
    PROVE  Moves(t) \/ Commits(t)
<1>1. CASE Current(t)
  <2>1. me[t].snap \in Account
    BY DEF TypeOK, Local
  <2>2. acct'.ver = acct.ver + 1
    BY <1>1, <2>1, CopyTypes DEF Put, Current, TypeOK
  <2>3. Proceed(t, ok)
    BY <1>1 DEF Put
  <2>. QED
    BY <1>1, <2>2, <2>3, ProceedMoves DEF Commits
<1>2. CASE ~Current(t)
  <2>1. acct' = acct /\ (Goto(t, "again") \/ Proceed(t, conflict))
    BY <1>2 DEF Put
  <2>2. "again" \in PcValues \ {"cool", "putagain"}
    BY DEF PcValues
  <2>. QED
    BY <2>1, <2>2, GotoMoves, ProceedMoves DEF Moves
<1>. QED
  BY <1>1, <1>2

\* Every step is a move or a commit of one thread, or leaves the threads alone.
LEMMA StepShape ==
    ASSUME IInv, [Next]_vars
    PROVE  \/ \E t \in Threads : Moves(t) \/ Commits(t)
           \/ me' = me /\ (acct' = acct \/ acct'.ver = acct.ver + 1)
<1>pc. \A l \in {"idle", "quota", "stats", "closing", "record", "close", "reset", "judge",
                 "put", "again", "checks", "fetch", "apply", "persist"} :
          l \in PcValues \ {"cool", "putagain"}
  BY DEF PcValues
<1>wr. "cool" \in PcValues /\ "putagain" \in PcValues
  BY DEF PcValues
<1>ty. /\ TypeOK /\ acct \in Account /\ now \in 0..MaxNow
       /\ \A t \in Threads : /\ me[t] \in Local
                             /\ me[t].snap \in Account
                             /\ me[t].todo \in Seq(Suggestions)
                             /\ Decided(t)
                             /\ me[t].then \in PcValues \ {"cool", "putagain"}
  BY DEF IInv, TypeOK, Local, Decided, PcValues
<1>1. ASSUME NEW r \in Reporters, Success(r)
      PROVE  Moves(r) /\ r \in Threads
  <2>1. r \in Threads
    BY DEF Threads
  <2>2. CASE Return(r)
    BY <1>1, <1>ty, <2>1, <2>2, ReturnMoves DEF Success, Moves
  <2>3. ASSUME NEW q \in {"quota", "stats"},
               me' = [me EXCEPT ![r].pc = q, ![r].then = "stats"]
        PROVE  Moves(r)
    <3>1. me'[r] = [me[r] EXCEPT !.pc = q, !.then = "stats"] /\ Untouched(r)
      BY <1>ty, <2>1, <2>3 DEF TypeOK, Untouched
    <3>2. Decided(r)' /\ KeepsCopy(r)
      BY <1>ty, <2>1, <3>1 DEF Local, Decided, KeepsCopy
    <3>. QED
      BY <1>1, <3>1, <3>2 DEF Success, Moves
  <2>. QED
    BY <1>1, <2>1, <2>2, <2>3 DEF Success
<1>2. ASSUME NEW r \in Reporters, NEW limited \in BOOLEAN, Failure(r, limited)
      PROVE  Moves(r) /\ r \in Threads
  <2>1. r \in Threads
    BY DEF Threads
  <2>2. PICK q \in {"quota", "judge"} :
           me' = [me EXCEPT ![r].pc = q, ![r].then = "judge", ![r].limited = limited,
                            ![r].n = fails']
    BY <1>2 DEF Failure
  <2>3. /\ me'[r] = [me[r] EXCEPT !.pc = q, !.then = "judge", !.limited = limited,
                                  !.n = fails']
        /\ Untouched(r)
    BY <1>ty, <2>1, <2>2 DEF TypeOK, Untouched
  <2>4. Decided(r)' /\ KeepsCopy(r)
    BY <1>ty, <2>1, <2>3 DEF Local, Decided, KeepsCopy
  <2>. QED
    BY <1>2, <2>1, <2>3, <2>4 DEF Failure, Moves
<1>3. ASSUME NEW r \in Reporters, ReporterStep(r)
      PROVE  (Moves(r) \/ Commits(r)) /\ r \in Threads
  <2>1. r \in Threads
    BY DEF Threads
  <2> USE <1>pc, <1>wr, <1>ty, <2>1
  <2>2. CASE Stats(r)
    <3>1. Goto(r, "closing") \/ Goto(r, "reset")
      BY <2>2 DEF Stats
    <3>. QED
      BY <2>2, <3>1, GotoMoves DEF Stats, Moves
  <2>3. CASE ReadToClose(r)
    BY <2>3, ReadMoves DEF ReadToClose, Moves
  <2>4. CASE RecordSuccess(r)
    <3> DEFINE a == Closed(me[r].snap)
               l == IF me[r].snap.status = "CircuitOpen" THEN "close" ELSE "reset"
    <3>1. a.ver = me[r].snap.ver /\ l \notin {"cool", "putagain"}
      BY CopyTypes
    <3>2. me'[r] = [me[r] EXCEPT !.snap = a, !.pc = l] /\ Untouched(r)
      BY <2>4 DEF RecordSuccess, TypeOK, Untouched
    <3> HIDE DEF a, l
    <3>3. Decided(r)' /\ KeepsCopy(r)
      BY <3>1, <3>2 DEF Local, Decided, KeepsCopy
    <3>. QED
      BY <2>4, <3>2, <3>3 DEF RecordSuccess, Moves
  <2>5. CASE Close(r)
    BY <2>5, PutMoves DEF Close
  <2>6. CASE ResetFailures(r)
    BY <2>6, ReturnMoves DEF ResetFailures, Moves
  <2>7. CASE QuotaCallback(r)
    <3>1. CASE acct.status = "Available" /\ Reads(r, "cool", Cooled(acct))
      <4>1. Cooled(acct) \in Account /\ Cooled(acct).ver = acct.ver
        BY CopyTypes
      <4>. QED
        BY <2>7, <3>1, <4>1, ReadMoves DEF QuotaCallback, Moves
    <3>2. CASE Goto(r, me[r].then)
      BY <2>7, <3>2, GotoMoves DEF QuotaCallback, Moves
    <3>. QED
      BY <2>7, <3>1, <3>2 DEF QuotaCallback
  <2>8. CASE QuotaPut(r)
    BY <2>8, PutMoves DEF QuotaPut
  <2>9. CASE Judge(r)
    <3>1. \/ Reads(r, "put", Cooled(acct)) \/ Reads(r, "put", Tripped(acct))
          \/ Return(r)
      BY <2>9 DEF Judge
    <3>2. /\ Cooled(acct) \in Account /\ Cooled(acct).ver = acct.ver
          /\ Tripped(acct) \in Account /\ Tripped(acct).ver = acct.ver
      BY CopyTypes
    <3>. QED
      BY <2>9, <3>1, <3>2, ReadMoves, ReturnMoves DEF Judge, Moves
  <2>10. CASE FailurePut(r)
    BY <2>10, PutMoves DEF FailurePut
  <2>11. CASE ReadAgain(r)
    <3>1. CASE Return(r)
      BY <2>11, <3>1, ReturnMoves DEF ReadAgain, Moves
    <3>2. CASE /\ acct.status \notin Grave
               /\ Reads(r, "putagain", [me[r].snap EXCEPT !.ver = acct.ver])
      <4>1. /\ [me[r].snap EXCEPT !.ver = acct.ver] \in Account
            /\ [me[r].snap EXCEPT !.ver = acct.ver].ver = acct.ver
        BY DEF Account
      <4>. QED
        BY <2>11, <3>2, <4>1, ReadMoves DEF ReadAgain, Moves
    <3>. QED
      BY <2>11, <3>1, <3>2 DEF ReadAgain, Grave
  <2>12. CASE PutAgain(r)
    BY <2>12, PutMoves DEF PutAgain
  <2>. QED
    BY <1>3, <2>2, <2>3, <2>4, <2>5, <2>6, <2>7, <2>8, <2>9, <2>10, <2>11, <2>12
       DEF ReporterStep
<1>4. ASSUME NEW h \in Checkers \cup Daemons, CheckerStep(h)
      PROVE  (Moves(h) \/ Commits(h)) /\ h \in Threads
  <2>1. h \in Threads
    BY DEF Threads
  <2> USE <1>pc, <1>wr, <1>ty, <2>1
  <2>2. CASE Look(h)
    BY <2>2, ReadMoves DEF Look, Moves
  <2>3. CASE RunChecks(h)
    <3>1. PICK w : me' = [me EXCEPT ![h].pc = "fetch", ![h].todo = w]
      BY <2>3 DEF RunChecks
    <3>2. me'[h] = [me[h] EXCEPT !.pc = "fetch", !.todo = w] /\ Untouched(h)
      BY <3>1 DEF TypeOK, Untouched
    <3>3. Decided(h)' /\ KeepsCopy(h)
      BY <3>2 DEF Local, Decided, KeepsCopy
    <3>. QED
      BY <2>3, <3>2, <3>3 DEF RunChecks, Moves
  <2>4. CASE Fetch(h)
    BY <2>4, ReadMoves DEF Fetch, Moves
  <2>5. CASE Apply(h)
    <3>0. PICK until \in BOOLEAN :
             LET z == Head(me[h].todo)
                 c == Suggested(h, me[h].snap, z, until)
             IN  me' = [me EXCEPT ![h].todo = Tail(@), ![h].snap = c,
                                  ![h].dirty = @ \/ z = "refreshed" \/ c # me[h].snap]
      BY <2>5 DEF Apply
    <3> DEFINE s == Head(me[h].todo)
               a == Suggested(h, me[h].snap, s, until)
               d == me[h].dirty \/ s = "refreshed" \/ a # me[h].snap
    <3>1. s \in Suggestions
      BY <2>5, HeadTailProperties DEF Apply
    <3>6. me[h].snap \in Account /\ now \in 0..MaxNow
      BY <1>ty DEF TypeOK, Local
    <3>7. \A x \in Account : \A z \in Suggestions : Suggested(h, x, z, until).ver = x.ver
      BY <3>6, CopyTypes
    <3>2. a.ver = me[h].snap.ver
      BY <3>1, <3>6, <3>7
    <3>3. /\ me'[h] = [me[h] EXCEPT !.todo = Tail(me[h].todo), !.snap = a, !.dirty = d]
          /\ Untouched(h)
      BY <3>0 DEF TypeOK, Local, Untouched
    <3>4. me[h].pc = "apply"
      BY <2>5 DEF Apply
    <3> HIDE DEF a, d
    <3>5. Decided(h)' /\ KeepsCopy(h)
      BY <3>2, <3>3, <3>4 DEF Local, Decided, KeepsCopy
    <3>. QED
      BY <2>5, <3>3, <3>5 DEF Apply, Moves
  <2>6. CASE Persist(h)
    <3>1. Put(h, "idle", "idle") \/ (Return(h) /\ UNCHANGED acct)
      BY <2>6 DEF Persist
    <3>. QED
      BY <3>1, PutMoves, ReturnMoves DEF Moves
  <2>7. CASE DaemonFetch(h)
    <3>1. PICK until \in BOOLEAN : Reads(h, "persist", Reported(acct, me[h].todo, until))
      BY <2>7 DEF DaemonFetch
    <3>2. /\ Reported(acct, me[h].todo, until) \in Account
          /\ Reported(acct, me[h].todo, until).ver = acct.ver
      BY SuggestionTypes
    <3>. QED
      BY <2>7, <3>1, <3>2, ReadMoves DEF DaemonFetch, Moves
  <2>8. CASE DaemonPut(h)
    BY <2>8, PutMoves DEF DaemonPut
  <2>. QED
    BY <1>4, <2>2, <2>3, <2>4, <2>5, <2>6, <2>7, <2>8 DEF CheckerStep
<1>5. ASSUME NEW t \in Threads, StoreFails(t)
      PROVE  Moves(t)
  <2>1. Goto(t, me[t].then) \/ Goto(t, "reset") \/ Return(t)
    BY <1>5 DEF StoreFails
  <2>2. acct' = acct
    BY <1>5 DEF StoreFails
  <2>. QED
    BY <1>ty, <1>pc, <2>1, <2>2, GotoMoves, ReturnMoves DEF Moves
<1>6. ASSUME NEW s \in {acct.status, "Available", "Disabled"}, Operator(s)
      PROVE  me' = me /\ acct'.ver = acct.ver + 1
  <2>1. s \in Status
    BY <1>ty DEF Account, Status
  <2>2. [acct EXCEPT !.status = s] \in Account /\ [acct EXCEPT !.status = s].ver = acct.ver
    BY <1>ty, <2>1, CopyTypes
  <2>. QED
    BY <1>6, <1>ty, <2>2, CopyTypes DEF Operator
<1>7. Tick \/ UNCHANGED vars => me' = me /\ acct' = acct
  BY DEF Tick, vars
<1>. QED
  BY <1>1, <1>2, <1>3, <1>4, <1>5, <1>6, <1>7 DEF Next

\* The invariant is inductive.
LEMMA Inductive == ASSUME IInv, [Next]_vars PROVE IInv'
<1>1. TypeOK'
  BY TypeStep DEF IInv
<1>ty. /\ acct.ver \in Nat /\ acct.ver > 0 /\ acct'.ver \in Nat
       /\ \A t \in Threads : me[t].base.ver \in Nat
  BY <1>1 DEF IInv, TypeOK, Local, Account
<1>2. ASSUME NEW t \in Threads, Moves(t)
      PROVE  IInv'
  <2>1. acct'.ver > 0 /\ \A u \in Threads : Decided(u)'
    BY <1>2, <1>ty DEF Moves, Untouched, IInv, Decided
  <2>2. ASSUME NEW u \in Threads
        PROVE  (/\ me[u].base.ver = me[u].snap.ver
                /\ me[u].base.ver <= acct.ver
                /\ me[u].base.ver = acct.ver => me[u].base = acct)'
    <3>1. CASE u # t \/ KeepsCopy(t)
      BY <1>2, <3>1 DEF Moves, Untouched, KeepsCopy, IInv, VersionNamesContent
    <3>2. CASE u = t /\ DropsCopy(t)
      BY <1>2, <1>ty, <3>2, LocalTypes DEF Moves, DropsCopy
    <3>3. CASE u = t /\ TakesCopy(t)
      BY <1>2, <1>ty, <3>3 DEF Moves, TakesCopy
    <3>. QED
      BY <1>2, <3>1, <3>2, <3>3 DEF Moves
  <2>. QED
    BY <1>1, <2>1, <2>2 DEF IInv, VersionNamesContent
<1>3. ASSUME NEW t \in Threads, Commits(t)
      PROVE  IInv'
  <2>1. acct'.ver > 0 /\ \A u \in Threads : Decided(u)'
    BY <1>3, <1>ty DEF Commits, Untouched, IInv, Decided
  <2>2. ASSUME NEW u \in Threads
        PROVE  (/\ me[u].base.ver = me[u].snap.ver
                /\ me[u].base.ver <= acct.ver
                /\ me[u].base.ver = acct.ver => me[u].base = acct)'
    <3>1. CASE u # t
      BY <1>3, <1>ty, <3>1 DEF Commits, Untouched, IInv, VersionNamesContent
    <3>2. CASE u = t
      BY <1>3, <1>ty, <3>2, LocalTypes DEF Commits, DropsCopy
    <3>. QED
      BY <3>1, <3>2
  <2>. QED
    BY <1>1, <2>1, <2>2 DEF IInv, VersionNamesContent
<1>4. ASSUME me' = me, acct' = acct \/ acct'.ver = acct.ver + 1
      PROVE  IInv'
  <2>1. acct'.ver > 0 /\ \A u \in Threads : Decided(u)'
    BY <1>4, <1>ty DEF IInv, Decided
  <2>2. VersionNamesContent'
    BY <1>4, <1>ty DEF IInv, VersionNamesContent
  <2>. QED
    BY <1>1, <2>1, <2>2 DEF IInv
<1>. QED
  BY <1>2, <1>3, <1>4, StepShape

LEMMA InvariantHolds == Spec => []IInv
<1>1. Init => IInv
  <2>1. Init => TypeOK
    BY LocalTypes, ThresholdPositive, BoundsNatural DEF Init, TypeOK
  <2>2. Init => /\ acct.ver > 0
                /\ \A t \in Threads : Decided(t)
    BY DEF Init, New, Idle, Off, Decided
  <2>3. Init => VersionNamesContent
    BY LocalTypes DEF Init, VersionNamesContent, New, Idle, Off
  <2>. QED
    BY <2>1, <2>2, <2>3 DEF IInv
<1>2. IInv /\ [Next]_vars => IInv'
  BY Inductive
<1>. QED
  BY <1>1, <1>2, PTL DEF Spec

\* A write of t that succeeds is a commit of t, and its copy is the account.
LEMMA WritersAreCurrent ==
    ASSUME IInv, [Next]_vars, NEW t \in Threads, NEW labels, Writes(t, labels)
    PROVE  me[t].base = acct
<1>1. acct' # acct /\ me'[t] # me[t]
  BY DEF Writes
<1>2. PICK u \in Threads : Commits(u)
  BY <1>1, StepShape DEF Moves
<1>3. u = t
  BY <1>1, <1>2 DEF Commits, Untouched
<1>. QED
  BY <1>2, <1>3 DEF Commits, Current, IInv, VersionNamesContent

-----------------------------------------------------------------------------
\* A version names one content, whoever writes and however often.
THEOREM VersionsNameContents == Spec => []VersionNamesContent
BY InvariantHolds, PTL DEF IInv

\* No update of the account is lost: every successful write, of any number of
\* reporters, health checkers and daemons, replaces exactly what was read for it.
THEOREM UpdatesAreNotLost == Spec => NoLostUpdate
<1>1. IInv /\ [Next]_vars => [\A t \in Threads : Writes(t, PcValues) => me[t].base = acct]_vars
  BY WritersAreCurrent
<1>. QED
  BY <1>1, InvariantHolds, PTL DEF Spec, NoLostUpdate

\* A cooldown that the quota callback decides on lands on an Available account,
\* and the retry of a report never on a terminal status or an open circuit.
THEOREM DecisionsHoldAtWrite == Spec => ChecksHoldAtWrite
<1>1. ASSUME IInv, [Next]_vars, NEW r \in Reporters
      PROVE  /\ Writes(r, {"cool"}) => acct.status = "Available"
             /\ Writes(r, {"putagain"}) => acct.status \notin Grave
  <2>1. r \in Threads
    BY DEF Threads
  <2>2. Decided(r)
    BY <1>1, <2>1 DEF IInv
  <2>3. Writes(r, {"cool"}) => acct.status = "Available"
    BY <1>1, <2>1, <2>2, WritersAreCurrent DEF Writes, Decided
  <2>4. Writes(r, {"putagain"}) => acct.status \notin Grave
    BY <1>1, <2>1, <2>2, WritersAreCurrent DEF Writes, Decided
  <2>. QED
    BY <2>3, <2>4
<1>2. IInv /\ [Next]_vars =>
         [\A r \in Reporters :
             /\ Writes(r, {"cool"}) => acct.status = "Available"
             /\ Writes(r, {"putagain"}) =>
                   acct.status \notin {"Banned", "Invalidated", "Disabled", "CircuitOpen"}]_vars
  BY <1>1 DEF Grave
<1>. QED
  BY <1>2, InvariantHolds, PTL DEF Spec, ChecksHoldAtWrite

-----------------------------------------------------------------------------
\* From here on: status and deadline.
USE DEF Timeless

\* Where a thread holds a copy that it has sent to cool down or tripped.
Sentenced == {"cool", "put", "again", "putagain"}

\* A health check without a CooldownManager has sent its copy x.snap to cool down.
Hasty(t, x) == x.pc = "apply" /\ t \in Checkers \ Managed /\ x.snap.status = "CoolingDown"

\* The invariant, of a thread t with local variables x.  A copy without its deadline was read
\* so, but in the health command or as above; a copy about to be written by a report has its
\* deadline.
Kept(t, x) == /\ x.pc # "persist" => (Timeless(x.snap) => Timeless(x.base) \/ Hasty(t, x))
              /\ x.pc \in Sentenced => ~Timeless(x.snap)
              /\ x.pc = "persist" => t \in Daemons /\ (Timeless(x.snap) =>
                                        Timeless(x.base) \/ x.snap.status = "CoolingDown")
              /\ x.pc = "apply" => t \in Checkers
              /\ \A i \in DOMAIN x.todo : x.todo[i] # "CircuitOpen"
AllKept == \A t \in Threads : Kept(t, me[t])

-----------------------------------------------------------------------------
\* What the circuit breaker, the cooldown and the checks make of a copy.
LEMMA Timed ==
    ASSUME now \in 0..MaxNow, NEW a \in Account
    PROVE  /\ ~Timeless(None) /\ ~Timeless(Cooled(a)) /\ ~Timeless(Tripped(a))
           /\ Timeless(Closed(a)) => Timeless(a)
           /\ Timeless(Stored(a)) => Timeless(a)
           /\ \A v : Timeless([a EXCEPT !.ver = v]) => Timeless(a)
           /\ \A s \in {a.status, "Available", "Disabled"} :
                 Timeless([a EXCEPT !.status = s]) => Timeless(a)
           /\ \A h, until : \A s \in Suggestions \ {"CircuitOpen"} :
                 Timeless(Suggested(h, a, s, until)) =>
                    \/ Suggested(h, a, s, until) = a
                    \/ h \notin Managed /\ Suggested(h, a, s, until).status = "CoolingDown"
  <1>0. /\ a.status \in Status /\ a.cool \in Deadlines /\ a.circ \in Deadlines
        /\ a = [status |-> a.status, cool |-> a.cool, circ |-> a.circ, ver |-> a.ver]
    BY DEF Account
  <1>1. Later # 0
    BY BoundsNatural DEF Later
  <1>2. ~Timeless(None) /\ ~Timeless(Cooled(a)) /\ ~Timeless(Tripped(a))
    BY <1>0, <1>1 DEF None, New, Cooled, Tripped
  <1>3. Timeless(Closed(a)) => Timeless(a)
    <2>1. CASE a.status = "CircuitOpen"
      <3>1. Closed(a) = [a EXCEPT !.status = "Available", !.circ = 0]
        BY <2>1 DEF Closed
      <3> QED BY <3>1, <1>0
    <2>2. CASE a.status # "CircuitOpen"
      <3>1. Closed(a) = [a EXCEPT !.circ = 0]
        BY <2>2, <1>0 DEF Closed
      <3> QED BY <3>1, <2>2, <1>0
    <2> QED BY <2>1, <2>2
  <1>4. /\ Timeless(Stored(a)) => Timeless(a)
        /\ \A v : Timeless([a EXCEPT !.ver = v]) => Timeless(a)
    BY <1>0 DEF Stored
  <1>5. \A s \in {a.status, "Available", "Disabled"} :
           Timeless([a EXCEPT !.status = s]) => Timeless(a)
    BY <1>0
  <1>6. ASSUME NEW h, NEW until, NEW s \in Suggestions \ {"CircuitOpen"},
               Timeless(Suggested(h, a, s, until))
        PROVE  \/ Suggested(h, a, s, until) = a
               \/ h \notin Managed /\ Suggested(h, a, s, until).status = "CoolingDown"
    <2>1. CASE s \in {"Available", "refreshed"}
      <3>1. Suggested(h, a, s, until) = [a EXCEPT !.status = "Available", !.cool = 0, !.circ = 0]
            \/ Suggested(h, a, s, until) = a
        BY <2>1 DEF Suggested
      <3> QED BY <3>1, <1>0, <1>6
    <2>2. CASE s = "CoolingDown"
      <3>1. Suggested(h, a, s, until) = Cooling(h, a, until) \/ Suggested(h, a, s, until) = a
        BY <2>2 DEF Suggested
      <3>2. \/ Cooling(h, a, until) = Cooled(a)
            \/ h \notin Managed /\ Cooling(h, a, until) = [a EXCEPT !.status = "CoolingDown"]
        BY DEF Cooling
      <3>3. [a EXCEPT !.status = "CoolingDown"].status = "CoolingDown"
        BY <1>0
      <3> QED BY <3>1, <3>2, <3>3, <1>2, <1>6
    <2>3. CASE s \notin {"Available", "refreshed", "CoolingDown"}
      <3>1. Suggested(h, a, s, until) = [a EXCEPT !.status = s]
        BY <2>3 DEF Suggested
      <3> QED BY <3>1, <2>3, <1>0, <1>6
    <2> QED BY <2>1, <2>2, <2>3
  <1> QED BY <1>2, <1>3, <1>4, <1>5, <1>6

\* The ways a thread goes on.
LEMMA ReturnKeeps ==
    ASSUME TypeOK, NEW t \in Threads, Return(t)
    PROVE  Kept(t, me'[t]) /\ Untouched(t)
  <1>1. me'[t] = Idle /\ Untouched(t)
    BY DEF Return, TypeOK, Untouched
  <1> QED BY <1>1 DEF Idle, None, New, Kept, Hasty, Sentenced
LEMMA GotoKeeps ==
    ASSUME TypeOK, NEW t \in Threads, Kept(t, me[t]), me[t].pc \notin {"persist", "apply"},
           NEW l \in PcValues \ {"persist", "apply"}, l \in Sentenced => me[t].pc \in Sentenced,
           Goto(t, l)
    PROVE  Kept(t, me'[t]) /\ Untouched(t)
  <1>1. me'[t] = [me[t] EXCEPT !.pc = l] /\ Untouched(t) /\ me[t] \in Local
    BY DEF Goto, TypeOK, Untouched
  <1> QED BY <1>1 DEF Kept, Hasty, Local
LEMMA ProceedKeeps ==
    ASSUME TypeOK, NEW t \in Threads, Kept(t, me[t]),
           NEW l \in PcValues \ ({"persist", "apply"} \cup Sentenced), Proceed(t, l)
    PROVE  Kept(t, me'[t]) /\ Untouched(t)
  <1>1. CASE l = "idle"
    BY <1>1, ReturnKeeps DEF Proceed
  <1>2. CASE l # "idle"
    <2>1. /\ me'[t] = [me[t] EXCEPT !.pc = l, !.snap = None, !.base = None]
          /\ Untouched(t) /\ me[t] \in Local
      BY <1>2 DEF Proceed, TypeOK, Untouched
    <2>2. ~Timeless(None)
      BY DEF None, New
    <2> QED BY <2>1, <2>2 DEF Kept, Hasty, Local
  <1> QED BY <1>1, <1>2
LEMMA ReadKeeps ==
    ASSUME TypeOK, NEW t \in Threads, Kept(t, me[t]), NEW l \in PcValues, NEW copy \in Account,
           IF l = "persist" THEN t \in Daemons ELSE Timeless(copy) => Timeless(acct),
           l = "persist" /\ Timeless(copy) => Timeless(acct) \/ copy.status = "CoolingDown",
           l = "apply" => t \in Checkers,
           l \in Sentenced => ~Timeless(copy),
           Reads(t, l, copy)
    PROVE  Kept(t, me'[t]) /\ Untouched(t)
  <1>1. /\ me'[t] = [me[t] EXCEPT !.pc = l, !.snap = copy, !.base = acct]
        /\ Untouched(t) /\ me[t] \in Local
    BY DEF Reads, TypeOK, Untouched
  <1>2. l \in Sentenced => l # "persist"
    BY DEF Sentenced
  <1> QED BY <1>1, <1>2 DEF Kept, Hasty, Local

\* A write: what is stored lacks its deadline only if it did before, or by a suggestion that
\* came without one.
Lawful == Timeless(acct') /\ ~Timeless(acct) =>
             /\ acct'.status = "CoolingDown"
             /\ \/ \E d \in Daemons : Writes(d, {"persist"})
                \/ \E h \in Checkers \ Managed : Writes(h, {"apply"})
LEMMA PutKeeps ==
    ASSUME IInv, NEW t \in Threads, Kept(t, me[t]),
           NEW ok \in PcValues \ ({"persist", "apply"} \cup Sentenced),
           NEW conflict \in PcValues \ ({"persist", "apply"} \cup (Sentenced \ {"again"})),
           conflict = "again" => me[t].pc = "put",
           me[t].pc \in {"persist", "apply"} => ok = "idle",
           Put(t, ok, conflict)
    PROVE  Kept(t, me'[t]) /\ Untouched(t) /\ Lawful
  <1>0. TypeOK /\ me[t] \in Local /\ me[t].snap \in Account /\ now \in 0..MaxNow
    BY DEF IInv, TypeOK, Local
  <1>1. CASE Current(t)
    <2>1. acct' = Stored(me[t].snap) /\ Proceed(t, ok)
      BY <1>1 DEF Put
    <2>2. me[t].base = acct
      BY <1>1 DEF Current, IInv, VersionNamesContent
    <2>3. Timeless(acct') => Timeless(me[t].snap)
      BY <1>0, <2>1, Timed
    <2>6. acct'.status = me[t].snap.status
      BY <1>0, <2>1 DEF Stored, Account
    <2>4. CASE me[t].pc \notin {"persist", "apply"}
      BY <1>0, <2>1, <2>2, <2>3, <2>4, ProceedKeeps DEF Lawful, Kept, Hasty
    <2>5. CASE me[t].pc \in {"persist", "apply"}
      <3>1. me'[t] = Idle
        BY <1>0, <2>1, <2>5 DEF Proceed, Return, TypeOK
      <3>2. me'[t] # me[t]
        BY <3>1, <2>5 DEF Idle
      <3>3. acct' # acct \/ acct' = acct
        OBVIOUS
      <3>4. Lawful
        <4> SUFFICES ASSUME Timeless(acct'), ~Timeless(acct)
                     PROVE  /\ acct'.status = "CoolingDown"
                            /\ \/ \E d \in Daemons : Writes(d, {"persist"})
                               \/ \E h \in Checkers \ Managed : Writes(h, {"apply"})
          BY DEF Lawful
        <4>1. Timeless(me[t].snap) /\ ~Timeless(me[t].base) /\ acct' # acct
          BY <2>2, <2>3
        <4>2. CASE me[t].pc = "persist"
          <5>1. t \in Daemons /\ me[t].snap.status = "CoolingDown"
            BY <4>1, <4>2 DEF Kept
          <5>2. Writes(t, {"persist"})
            BY <3>2, <4>1, <4>2 DEF Writes
          <5> QED BY <2>6, <5>1, <5>2
        <4>3. CASE me[t].pc = "apply"
          <5>1. t \in Checkers \ Managed /\ me[t].snap.status = "CoolingDown"
            BY <4>1, <4>3 DEF Kept, Hasty
          <5>2. Writes(t, {"apply"})
            BY <3>2, <4>1, <4>3 DEF Writes
          <5> QED BY <2>6, <5>1, <5>2
        <4> QED BY <2>5, <4>2, <4>3
      <3> QED BY <1>0, <2>1, <3>4, ProceedKeeps
    <2> QED BY <2>4, <2>5
  <1>2. CASE ~Current(t)
    <2>1. acct' = acct
      BY <1>2 DEF Put
    <2>2. Lawful
      BY <2>1 DEF Lawful
    <2>3. CASE conflict = "again"
      <3>1. Goto(t, "again") /\ me[t].pc = "put"
        BY <1>2, <2>3 DEF Put
      <3> QED BY <1>0, <2>2, <3>1, GotoKeeps DEF Sentenced, PcValues
    <2>4. CASE conflict # "again"
      <3>1. Proceed(t, conflict)
        BY <1>2, <2>4 DEF Put
      <3> QED BY <1>0, <2>2, <2>4, <3>1, ProceedKeeps
    <2> QED BY <2>3, <2>4
  <1> QED BY <1>1, <1>2

-----------------------------------------------------------------------------
\* Every action keeps copies and deadlines together.
LEMMA KeptStep ==
    ASSUME IInv, AllKept, [Next]_vars
    PROVE  AllKept' /\ Lawful
  <1> DEFINE Fine(t) == Kept(t, me'[t]) /\ Untouched(t) /\ Lawful
  <1>ty. /\ TypeOK /\ acct \in Account /\ now \in 0..MaxNow
         /\ \A t \in Threads : /\ me[t] \in Local /\ me[t].snap \in Account
                               /\ me[t].todo \in Seq(Suggestions)
                               /\ me[t].then \in {"idle", "stats", "judge"}
                               /\ Kept(t, me[t])
    BY DEF IInv, TypeOK, Local, Decided, AllKept
  <1>pc. \A l \in {"idle", "stats", "judge", "reset", "closing", "record", "checks", "fetch",
                   "quota", "close"} :
            l \in PcValues \ ({"persist", "apply"} \cup Sentenced)
    BY DEF PcValues, Sentenced
  <1>sn. /\ \A l \in Sentenced : l \in PcValues /\ l # "persist" /\ l # "apply"
         /\ "persist" \in PcValues /\ "apply" \in PcValues
    BY DEF PcValues, Sentenced
  <1>a. acct' = acct => Lawful
    BY DEF Lawful
  <1>r. Reporters \subseteq Threads /\ Checkers \cup Daemons \subseteq Threads
    BY DEF Threads
  <1>1. ASSUME NEW r \in Reporters, Success(r) \/ \E limited \in BOOLEAN : Failure(r, limited)
        PROVE  Fine(r)
    <2>1. CASE Return(r)
      BY <1>1, <1>a, <1>r, <1>ty, <2>1, ReturnKeeps DEF Success, Failure
    <2>2. CASE \E q \in {"quota", "stats"} :
                  me' = [me EXCEPT ![r].pc = q, ![r].then = "stats"]
      <3>0. PICK q \in {"quota", "stats"} : me' = [me EXCEPT ![r].pc = q, ![r].then = "stats"]
        BY <2>2
      <3>2. r \in Threads /\ me[r] \in Local /\ Kept(r, me[r]) /\ me[r].pc = "idle"
        BY <1>1, <1>r, <1>ty DEF Success, Failure
      <3>3. /\ me'[r].pc = q /\ me'[r].snap = me[r].snap /\ me'[r].base = me[r].base
            /\ me'[r].todo = me[r].todo /\ Untouched(r)
        BY <1>ty, <3>0, <3>2 DEF TypeOK, Local, Untouched
      <3>1. Kept(r, me'[r]) /\ Untouched(r)
        BY <3>0, <3>2, <3>3 DEF Kept, Hasty, Sentenced
      <3> QED BY <1>1, <1>a, <3>1 DEF Success, Failure
    <2>3. CASE \E limited \in BOOLEAN : Failure(r, limited)
      <3>1. PICK q \in {"quota", "judge"}, limited \in BOOLEAN :
               me' = [me EXCEPT ![r].pc = q, ![r].then = "judge", ![r].limited = limited,
                                ![r].n = fails']
        BY <2>3 DEF Failure
      <3>2. Kept(r, me'[r]) /\ Untouched(r)
        BY <1>r, <1>ty, <2>3, <3>1 DEF Failure, TypeOK, Local, Kept, Hasty, Sentenced, Untouched
      <3> QED BY <1>a, <2>3, <3>2 DEF Failure
    <2> QED BY <1>1, <2>1, <2>2, <2>3 DEF Success
  <1>2. ASSUME NEW r \in Reporters, ReporterStep(r)
        PROVE  Fine(r)
    <2>0. r \in Threads /\ Kept(r, me[r]) /\ me[r] \in Local
      BY <1>r, <1>ty
    <2>1. CASE Stats(r)
      BY <1>a, <1>pc, <1>ty, <2>0, <2>1, GotoKeeps DEF Stats, Sentenced
    <2>2. CASE ReadToClose(r)
      BY <1>a, <1>pc, <1>ty, <2>0, <2>2, ReadKeeps DEF ReadToClose
    <2>3. CASE RecordSuccess(r)
      <3>1. /\ me'[r] = [me[r] EXCEPT !.snap = Closed(@),
                                      !.pc = IF me[r].snap.status = "CircuitOpen" THEN "close"
                                             ELSE "reset"]
            /\ Untouched(r) /\ me[r].pc = "record"
        BY <1>ty, <2>0, <2>3 DEF RecordSuccess, TypeOK, Untouched
      <3>2. Timeless(Closed(me[r].snap)) => Timeless(me[r].snap)
        BY <1>ty, <2>0, Timed
      <3>3. Kept(r, me'[r])
        BY <2>0, <3>1, <3>2 DEF Kept, Hasty, Local, Sentenced
      <3> QED BY <1>a, <2>3, <3>1, <3>3 DEF RecordSuccess
    <2>4. CASE Close(r)
      BY <1>pc, <2>0, <2>4, PutKeeps DEF Close, Sentenced
    <2>5. CASE ResetFailures(r)
      BY <1>a, <1>ty, <2>0, <2>5, ReturnKeeps DEF ResetFailures
    <2>6. CASE QuotaCallback(r)
      <3>1. CASE Reads(r, "cool", Cooled(acct))
        BY <1>a, <1>sn, <1>ty, <2>0, <2>6, <3>1, Timed, CopyTypes, ReadKeeps
           DEF QuotaCallback, Sentenced
      <3>2. CASE Goto(r, me[r].then)
        BY <1>a, <1>pc, <1>ty, <2>0, <2>6, <3>2, GotoKeeps DEF QuotaCallback, Sentenced
      <3> QED BY <2>6, <3>1, <3>2 DEF QuotaCallback
    <2>7. CASE QuotaPut(r)
      BY <1>pc, <1>ty, <2>0, <2>7, PutKeeps DEF QuotaPut, Sentenced
    <2>8. CASE Judge(r)
      <3>1. CASE Reads(r, "put", Cooled(acct))
        BY <1>a, <1>sn, <1>ty, <2>0, <2>8, <3>1, Timed, CopyTypes, ReadKeeps
           DEF Judge, Sentenced
      <3>2. CASE Reads(r, "put", Tripped(acct))
        BY <1>a, <1>sn, <1>ty, <2>0, <2>8, <3>2, Timed, CopyTypes, ReadKeeps
           DEF Judge, Sentenced
      <3>3. CASE Return(r)
        BY <1>a, <1>ty, <2>0, <2>8, <3>3, ReturnKeeps DEF Judge
      <3> QED BY <2>8, <3>1, <3>2, <3>3 DEF Judge
    <2>9. CASE FailurePut(r)
      BY <1>pc, <1>sn, <2>0, <2>9, PutKeeps DEF FailurePut, Sentenced
    <2>10. CASE ReadAgain(r)
      <3>1. CASE Return(r)
        BY <1>a, <1>ty, <2>0, <2>10, <3>1, ReturnKeeps DEF ReadAgain
      <3>2. CASE Reads(r, "putagain", [me[r].snap EXCEPT !.ver = acct.ver])
        <4> DEFINE copy == [me[r].snap EXCEPT !.ver = acct.ver]
        <4>1. copy \in Account
          BY <1>ty, <2>0 DEF Account
        <4>2. ~Timeless(me[r].snap)
          BY <2>0, <2>10 DEF ReadAgain, Kept, Sentenced
        <4>3. ~Timeless(copy)
          BY <1>ty, <2>0, <4>2, Timed
        <4> HIDE DEF copy
        <4> QED BY <1>a, <1>sn, <1>ty, <2>0, <2>10, <3>2, <4>1, <4>3, ReadKeeps
                   DEF ReadAgain, Sentenced, copy
      <3> QED BY <2>10, <3>1, <3>2 DEF ReadAgain
    <2>11. CASE PutAgain(r)
      BY <1>pc, <2>0, <2>11, PutKeeps DEF PutAgain, Sentenced
    <2> QED BY <1>2, <2>1, <2>2, <2>3, <2>4, <2>5, <2>6, <2>7, <2>8, <2>9, <2>10, <2>11
               DEF ReporterStep
  <1>3. ASSUME NEW h \in Checkers \cup Daemons, CheckerStep(h)
        PROVE  Fine(h)
    <2>0. h \in Threads /\ Kept(h, me[h]) /\ me[h] \in Local /\ me[h].snap \in Account
          /\ me[h].todo \in Seq(Suggestions)
      BY <1>r, <1>ty
    <2>1. CASE Look(h)
      BY <1>a, <1>pc, <1>ty, <2>0, <2>1, ReadKeeps DEF Look
    <2>2. CASE RunChecks(h)
      <3>1. PICK todo : /\ me' = [me EXCEPT ![h].pc = "fetch", ![h].todo = todo]
                        /\ \A i \in DOMAIN todo : todo[i] # "CircuitOpen"
        <4> DEFINE found == Recovery(me[h].snap)
        <4>1. found = <<>> \/ found = <<"Available">>
          BY DEF Recovery
        <4>2. \A i \in DOMAIN found : found[i] # "CircuitOpen"
          BY <4>1
        <4>3. ASSUME NEW s \in Findings
              PROVE  /\ \A i \in DOMAIN (<<s>> \o found) : (<<s>> \o found)[i] # "CircuitOpen"
                     /\ \A i \in DOMAIN (found \o <<s>>) : (found \o <<s>>)[i] # "CircuitOpen"
          <5>1. s # "CircuitOpen"
            BY FindingsAreSuggestions
          <5>2. CASE found = <<>>
            BY <5>1, <5>2
          <5>3. CASE found = <<"Available">>
            BY <5>1, <5>3
          <5> QED BY <4>1, <5>2, <5>3
        <4> HIDE DEF found
        <4> QED BY <2>2, <4>2, <4>3, ZenonT(40) DEF RunChecks, found
      <3>2. /\ me'[h] = [me[h] EXCEPT !.pc = "fetch", !.todo = todo]
            /\ Untouched(h) /\ me[h].pc = "checks" /\ acct' = acct
        BY <1>ty, <2>0, <2>2, <3>1 DEF RunChecks, TypeOK, Untouched
      <3>4. /\ me'[h].pc = "fetch" /\ me'[h].snap = me[h].snap /\ me'[h].base = me[h].base
            /\ me'[h].todo = todo
        BY <2>0, <3>2 DEF Local
      <3>3. Kept(h, me'[h])
        BY <2>0, <3>1, <3>2, <3>4 DEF Kept, Hasty, Sentenced
      <3> QED BY <1>a, <3>2, <3>3
    <2>3. CASE Fetch(h)
      BY <1>a, <1>sn, <1>ty, <2>0, <2>3, ReadKeeps DEF Fetch, Sentenced
    <2>4. CASE Apply(h)
      <3>0. PICK until \in BOOLEAN :
               LET z == Head(me[h].todo)
                   c == Suggested(h, me[h].snap, z, until)
               IN  me' = [me EXCEPT ![h].todo = Tail(@), ![h].snap = c,
                                    ![h].dirty = @ \/ z = "refreshed" \/ c # me[h].snap]
        BY <2>4 DEF Apply
      <3> DEFINE s == Head(me[h].todo)
                 rest == Tail(me[h].todo)
                 a == Suggested(h, me[h].snap, s, until)
      <3>1. /\ me'[h] = [me[h] EXCEPT !.todo = rest, !.snap = a,
                                      !.dirty = @ \/ s = "refreshed" \/ a # me[h].snap]
            /\ Untouched(h)
        BY <1>ty, <2>0, <3>0 DEF TypeOK, Untouched
      <3>5. me[h].pc = "apply" /\ acct' = acct /\ me[h].todo # <<>>
        BY <2>4 DEF Apply
      <3>2. s \in Suggestions /\ s # "CircuitOpen"
            /\ \A i \in DOMAIN rest : rest[i] # "CircuitOpen"
        <4>1. s = me[h].todo[1] /\ 1 \in DOMAIN me[h].todo
              /\ \A i \in DOMAIN rest : i + 1 \in DOMAIN me[h].todo /\ rest[i] = me[h].todo[i + 1]
          BY <2>0, <3>5, HeadTailProperties
        <4> QED BY <2>0, <4>1 DEF Kept
      <3>3. Timeless(a) => a = me[h].snap \/ (h \notin Managed /\ a.status = "CoolingDown")
        BY <1>ty, <2>0, <3>2, Timed
      <3>6. h \in Checkers
        BY <2>0, <3>5 DEF Kept
      <3> HIDE DEF s, rest, a
      <3>7. /\ me'[h].pc = "apply" /\ me'[h].snap = a /\ me'[h].base = me[h].base
            /\ me'[h].todo = rest
        BY <2>0, <3>1, <3>5 DEF Local
      <3>8. Timeless(a) => Timeless(me[h].base) \/ Hasty(h, me'[h])
        BY <2>0, <3>3, <3>5, <3>6, <3>7 DEF Kept, Hasty
      <3>4. Kept(h, me'[h])
        BY <3>2, <3>6, <3>7, <3>8 DEF Kept, Sentenced
      <3> QED BY <1>a, <3>1, <3>4, <3>5
    <2>5. CASE Persist(h)
      <3>1. CASE me[h].dirty
        BY <1>pc, <2>0, <2>5, <3>1, PutKeeps DEF Persist, Sentenced
      <3>2. CASE ~me[h].dirty
        BY <1>a, <1>ty, <2>0, <2>5, <3>2, ReturnKeeps DEF Persist
      <3> QED BY <3>1, <3>2
    <2>6. CASE DaemonFetch(h)
      <3>1. PICK until \in BOOLEAN : Reads(h, "persist", Reported(acct, me[h].todo, until))
        BY <2>6 DEF DaemonFetch
      <3>2. Reported(acct, me[h].todo, until) \in Account
        BY <1>ty, <2>0, SuggestionTypes
      <3> DEFINE copy == Reported(acct, me[h].todo, until)
      <3>3. Timeless(copy) => Timeless(acct) \/ copy.status = "CoolingDown"
        <4> DEFINE s == IF me[h].todo = <<>> THEN "Available" ELSE me[h].todo[Len(me[h].todo)]
        <4>1. s # "CircuitOpen"
          <5>1. me[h].todo # <<>> => Len(me[h].todo) \in DOMAIN me[h].todo
            BY <2>0
          <5> QED BY <2>0, <5>1 DEF Kept
        <4>2. \/ copy = [acct EXCEPT !.status = "Available"] \/ copy = Cooled(acct)
              \/ copy = [acct EXCEPT !.status = s]
          BY DEF Reported
        <4>3. ~Timeless(Cooled(acct))
          BY <1>ty, Timed
        <4> HIDE DEF s, copy
        <4> QED BY <1>ty, <4>1, <4>2, <4>3 DEF Account
      <3> HIDE DEF copy
      <3>4. Reads(h, "persist", copy) /\ copy \in Account
        BY <3>1, <3>2 DEF copy
      <3>5. h \in Daemons /\ acct' = acct
        BY <2>6 DEF DaemonFetch
      <3> QED BY <1>a, <1>sn, <1>ty, <2>0, <3>3, <3>4, <3>5, ReadKeeps DEF Sentenced
    <2>7. CASE DaemonPut(h)
      BY <1>pc, <2>0, <2>7, PutKeeps DEF DaemonPut, Sentenced
    <2> QED BY <1>3, <2>1, <2>2, <2>3, <2>4, <2>5, <2>6, <2>7 DEF CheckerStep
  <1>4. ASSUME NEW t \in Threads, StoreFails(t)
        PROVE  Fine(t)
    <2>1. CASE me[t].pc \in {"quota", "cool"} /\ Goto(t, me[t].then)
      BY <1>4, <1>a, <1>pc, <1>ty, <2>1, GotoKeeps DEF StoreFails, Sentenced
    <2>2. CASE me[t].pc = "stats" /\ Goto(t, "reset")
      BY <1>4, <1>a, <1>pc, <1>ty, <2>2, GotoKeeps DEF StoreFails, Sentenced
    <2>3. CASE Return(t)
      BY <1>4, <1>a, <1>ty, <2>3, ReturnKeeps DEF StoreFails
    <2> QED BY <1>4, <2>1, <2>2, <2>3 DEF StoreFails
  <1>5. ASSUME NEW s \in {acct.status, "Available", "Disabled"}, Operator(s)
        PROVE  AllKept' /\ Lawful
    <2>1. [acct EXCEPT !.status = s] \in Account
      BY <1>ty, CopyTypes DEF Account, Status
    <2>4. Timeless([acct EXCEPT !.status = s]) => Timeless(acct)
      BY <1>ty, Timed
    <2>5. ASSUME NEW a \in Account, Timeless(Stored(a)) PROVE Timeless(a)
      BY <1>ty, <2>5, Timed
    <2>2. Timeless(acct') => Timeless(acct)
      BY <1>5, <2>1, <2>4, <2>5 DEF Operator
    <2>3. me' = me
      BY <1>5 DEF Operator
    <2> QED BY <2>2, <2>3 DEF AllKept, Lawful
  <1>6. ASSUME Tick \/ UNCHANGED vars
        PROVE  AllKept' /\ Lawful
    <2>1. me' = me /\ acct' = acct
      BY <1>6 DEF Tick, vars
    <2> QED BY <1>a, <2>1 DEF AllKept
  <1>7. ASSUME NEW t \in Threads, Fine(t)
        PROVE  AllKept' /\ Lawful
    BY <1>7 DEF AllKept, Untouched
  <1> HIDE DEF Fine
  <1> QED BY <1>1, <1>2, <1>3, <1>4, <1>5, <1>6, <1>7, <1>r DEF Next

\* An open circuit has a time at which it may close: reports, their retries, the quota
\* callback, health checks, the health command and operators never store it without its
\* deadline.  So it is with an account that cools down, but for the suggestions to cool down
\* without a deadline that the health command, or a health check whose callback has no
\* CooldownManager, stores as they come.
THEOREM DeadlinesAreSet == Spec => DeadlinesSet
  <1>1. Init => AllKept
    BY DEF Init, AllKept, Kept, Hasty, Idle, Off, None, New, Sentenced
  <1>2. IInv /\ AllKept /\ [Next]_vars => AllKept' /\ Lawful
    BY KeptStep
  <1>3. IInv /\ AllKept /\ [Next]_vars
           => [Timeless(acct') /\ ~Timeless(acct) =>
                  /\ acct'.status = "CoolingDown"
                  /\ \/ \E d \in Daemons : Writes(d, {"persist"})
                     \/ \E h \in Checkers \ Managed : Writes(h, {"apply"})]_vars
    BY <1>2 DEF Lawful
  <1>4. Spec => []AllKept
    BY <1>1, <1>2, InvariantHolds, PTL DEF Spec
  <1> QED BY <1>3, <1>4, InvariantHolds, PTL DEF Spec, DeadlinesSet
=============================================================================
