---------------------------- MODULE Suites_proofs ----------------------------
(***************************************************************************)
(* Theorems about the suites that judge a program under test: the server   *)
(* of the performance suite, the database of the API suite and of the      *)
(* state suite, the workspaces of the CLI suite, the traces of the         *)
(* state-machine suite, the policy of the formal suite and the schedules   *)
(* of the concurrency suite, for any bounds.                               *)
(***************************************************************************)
EXTENDS PerformanceSuite, ApiSuite, StateSuite, CliSuite, WorkflowSuite, FormalSuite,
        ScheduleSuite, FiniteSetTheorems, SequenceTheorems, TLAPS

(***************************** performance suite ***************************)

\* A case that threw past its `finally` had a malformed URL; one that is over has
\* stopped its server.
Released ==
  /\ place = "thrown" => bench.url = "malformed"
  /\ place = "done" => server = "none"

\* Unless its ready URL is malformed, a case leaves no server behind, whatever throws
\* or fails in it (the `finally` of verifyOneCase), for any samples, probes and times.
THEOREM ServersAreStopped == PerformanceSpec => []ServerIsStopped
<1>1. PerformanceInit => Released
  BY DEF PerformanceInit, Released
<1>2. Released /\ [PerformanceStep]_performanceVars => Released'
  <2> SUFFICES ASSUME Released, [PerformanceStep]_performanceVars PROVE Released'
    OBVIOUS
  <2>1. CASE BenchSetup \/ WaitOver \/ Measure \/ Freeze \/ JudgeBench \/ BenchThrows
    BY <2>1 DEF Released, BenchSetup, WaitOver, Measure, Freeze, JudgeBench, BenchThrows, Goes
  <2>2. CASE StartServe
    BY <2>2 DEF Released, StartServe, Goes
  <2>3. CASE StopServe
    BY <2>3 DEF Released, StopServe, Goes
  <2>4. CASE ProbeStep
    BY <2>4 DEF Released, ProbeStep, Attempt, AnswerBelow500, AnswerBad, ProbeTimeout, waitFrame
  <2>5. CASE Tick \/ ServerDies
    BY <2>5 DEF Released, Tick, ServerDies, waitFrame
  <2>6. CASE UNCHANGED performanceVars
    BY <2>6 DEF Released, performanceVars
  <2> QED
    BY <2>1, <2>2, <2>3, <2>4, <2>5, <2>6 DEF PerformanceStep, RunnerOfBench
<1>3. Released => ServerIsStopped
  BY DEF Released, ServerIsStopped
<1> QED
  BY <1>1, <1>2, <1>3, PTL DEF PerformanceSpec

(******************************** API suite ********************************)

\* The order of the parts of a case.
LEMMA PartsInOrder ==
  /\ Following("setup") = "before" /\ Following("before") = "main" /\ Following("main") = "auth"
  /\ Following("auth") = "matrix" /\ Following("matrix") = "again" /\ Following("again") = "retry"
  /\ Following("retry") = "after" /\ Following("after") = "teardown" /\ Following("teardown") = "done"
  BY DEF Following, Parts

\* No request is under way outside the parts that send some; what the snapshots show is
\* what was there, and is there unless late work has changed it.
SnapshotsTell ==
  /\ part \in {"setup", "before", "after", "teardown", "done"} \cup Requesting
  /\ part \notin Requesting => wire = "idle"
  /\ shots.before \in {Blank, start}
  /\ part \in {"setup", "before"} => shots.before = Blank
  /\ part \notin {"teardown", "done"} => ~untouched /\ late = {}
  /\ part = "teardown" => /\ shots.after \in {Blank, store} \/ late # {}
                          /\ untouched => shots.before = shots.after
  /\ store \in {0, 1} /\ shots \in [{"before", "after"} -> 0 .. Blank]

\* Work of a request that failed where failures are judged belongs to a case that failed:
\* a repeated request that fails like the first is one, as the first was judged.
FailuresTold ==
  /\ afloat \subseteq {"judged", "unseen"} /\ late \subseteq afloat
  /\ "judged" \in afloat => refused # {}
  /\ api.repeat \in Nat \ {0} /\ sent \in Nat /\ (part \in {"setup", "before"} => sent = 0)
  /\ first = NoResponse => \/ part \in {"setup", "before"} \/ (part = "main" /\ sent = 0)
                           \/ refused # {}

\* A failed request is refused, or repeats one that was.
LEMMA FailureIsTold ==
  ASSUME FailuresTold, RequestFails, part \in Requesting
  PROVE  FailuresTold'
<1>1. /\ UNCHANGED <<api, part, late>> /\ sent' = sent + 1 /\ Uses(NoResponse)
      /\ afloat' = afloat \cup {IF part = "main" /\ sent > 0 THEN "unseen" ELSE "judged"}
  BY DEF RequestFails, Resolve
<1>2. NoResponse.status = 0
  BY DEF NoResponse
<1>3. CASE part = "main" /\ sent > 0
  <2>1. UNCHANGED <<first, refused>>
    BY <1>1, <1>3 DEF Uses
  <2> QED
    BY <1>1, <1>3, <2>1 DEF FailuresTold
<1>4. SUFFICES ASSUME refused' # {}
               PROVE  FailuresTold'
  <2>1. CASE part = "main" /\ sent = 0
    <3>1. Judged("status_code", NoResponse.status = 200)
      BY <1>1, <2>1 DEF Uses
    <3> QED
      BY <1>2, <3>1 DEF Judged, Refuse
  <2>2. CASE part = "auth"
    <3>1. Judged("auth_invariant", NoResponse.status = 403)
      BY <1>1, <2>2 DEF Uses
    <3> QED
      BY <1>2, <3>1 DEF Judged, Refuse
  <2>3. CASE part = "matrix"
    <3>1. Judged("auth_matrix", NoResponse.status \in {200, 403})
      BY <1>1, <2>3 DEF Uses
    <3> QED
      BY <1>2, <3>1 DEF Judged, Refuse
  <2>4. CASE part = "again"
    <3>1. Judged("idempotency", NoResponse = first)
      BY <1>1, <2>4 DEF Uses
    <3>2. first = NoResponse => refused # {}
      BY <2>4 DEF FailuresTold
    <3> QED
      BY <3>1, <3>2 DEF Judged, Refuse
  <2>5. CASE part = "retry"
    <3>1. Judged("retry_behavior", NoResponse.status = 200)
      BY <1>1, <2>5 DEF Uses
    <3> QED
      BY <1>2, <3>1 DEF Judged, Refuse
  <2> QED
    BY <1>3, <2>1, <2>2, <2>3, <2>4, <2>5 DEF Requesting, FailuresTold
<1> QED
  BY <1>1, <1>4 DEF FailuresTold, Requesting

\* A response that ends is not mistaken for none, and clears no failure.
LEMMA AnswerIsUsed ==
  ASSUME NEW r, r # NoResponse, part \in Requesting, Uses(r)
  PROVE  /\ refused \subseteq refused'
         /\ first' = first \/ first' = r
         /\ part = "main" /\ sent = 0 => first' = r
<1>1. ASSUME NEW o, NEW ok, Judged(o, ok) PROVE refused \subseteq refused'
  BY <1>1 DEF Judged, Refuse
<1>2. CASE part = "main"
  BY <1>1, <1>2 DEF Uses
<1>3. CASE part = "auth"
  BY <1>1, <1>3 DEF Uses
<1>4. CASE part = "matrix"
  BY <1>1, <1>4 DEF Uses
<1>5. CASE part = "again"
  BY <1>1, <1>5 DEF Uses
<1>6. CASE part = "retry"
  BY <1>1, <1>6 DEF Uses
<1> QED
  BY <1>2, <1>3, <1>4, <1>5, <1>6 DEF Requesting

\* Where a database declared `unchanged` passed and both snapshots were read, only work
\* that went on after the second can have changed it, and only of requests whose failure
\* nobody saw unless the case failed, for any number of requests of each kind.
THEOREM WritesAreNoticed == ApiSpec => []NoWriteEscapes
<1> DEFINE Inv == SnapshotsTell /\ FailuresTold
<1>1. ApiInit => Inv
  <2> SUFFICES ASSUME ApiInit PROVE Inv
    OBVIOUS
  <2>1. api.repeat \in Nat \ {0}
    BY ApiAssumption DEF ApiInit, ApiCases
  <2> QED
    BY <2>1 DEF ApiInit, SnapshotsTell, FailuresTold, Requesting, Blank
<1>2. SnapshotsTell /\ [ApiStep]_apiVars => SnapshotsTell'
  <2> SUFFICES ASSUME SnapshotsTell, [ApiStep]_apiVars PROVE SnapshotsTell'
    OBVIOUS
  <2>1. CASE Hook
    BY <2>1, PartsInOrder DEF SnapshotsTell, Hook, Requesting
  <2>2. CASE SnapshotFirst
    <3>0. /\ part = "before" /\ part' = "main" /\ start' = store
          /\ UNCHANGED <<wire, store, untouched, late>>
      BY <2>2, PartsInOrder DEF SnapshotFirst
    <3>1. shots' = shots \/ shots' = [shots EXCEPT !["before"] = store]
      BY <2>2 DEF SnapshotFirst, Shoots
    <3>2. shots' \in [{"before", "after"} -> 0 .. Blank] /\ shots'["before"] \in {Blank, store}
      BY <3>0, <3>1 DEF SnapshotsTell, Blank, Requesting
    <3> QED
      BY <3>0, <3>2 DEF SnapshotsTell, Requesting
  <2>3. CASE SnapshotLast
    <3>1. /\ part = "after" /\ part' = "teardown" /\ UNCHANGED <<wire, store, start, late>>
          /\ \E shot \in {store, Blank} :
                /\ shots' = [shots EXCEPT !["after"] = shot]
                /\ untouched' => shots["before"] = shot
      BY <2>3, PartsInOrder DEF SnapshotLast
    <3>2. /\ shots' \in [{"before", "after"} -> 0 .. Blank]
          /\ shots'["before"] = shots["before"] /\ shots'["after"] \in {Blank, store}
          /\ untouched' => shots["before"] = shots'["after"]
      BY <3>1 DEF SnapshotsTell, Blank
    <3> QED
      BY <3>1, <3>2 DEF SnapshotsTell, Requesting
  <2>4. CASE Send \/ Serve \/ EndResponse \/ RequestFails \/ BreakOff
    <3>1. /\ part \in Requesting /\ UNCHANGED <<part, shots, start, untouched, late>>
          /\ store' \in {0, 1}
      BY <2>4 DEF SnapshotsTell, Send, Serve, EndResponse, RequestFails, BreakOff, Resolve
    <3> QED
      BY <3>1 DEF SnapshotsTell, Requesting
  <2>5. CASE ServeLate
    BY <2>5 DEF SnapshotsTell, ServeLate, Requesting
  <2>6. CASE NextPart
    BY <2>6, PartsInOrder DEF SnapshotsTell, NextPart, Requesting
  <2>7. CASE UNCHANGED apiVars
    BY <2>7 DEF SnapshotsTell, apiVars
  <2> QED
    BY <2>1, <2>2, <2>3, <2>4, <2>5, <2>6, <2>7 DEF ApiStep
<1>3. SnapshotsTell /\ FailuresTold /\ [ApiStep]_apiVars => FailuresTold'
  <2> SUFFICES ASSUME SnapshotsTell, FailuresTold, [ApiStep]_apiVars PROVE FailuresTold'
    OBVIOUS
  <2>1. CASE RequestFails
    BY <2>1, FailureIsTold DEF SnapshotsTell, RequestFails
  <2>2. CASE EndResponse
    <3>1. PICK status \in {200, 403, 500} : Resolve([status |-> status, shows |-> store])
      BY <2>2 DEF EndResponse
    <3>2. /\ UNCHANGED <<api, part, late>> /\ sent' = sent + 1 /\ part \in Requesting
          /\ afloat \subseteq afloat' /\ afloat' \subseteq afloat \cup {"unseen"}
      BY <2>2, <3>1 DEF EndResponse, Resolve, SnapshotsTell
    <3>3. [status |-> status, shows |-> store] # NoResponse
      BY DEF NoResponse
    <3>4. /\ refused \subseteq refused' /\ (first' = first \/ first' # NoResponse)
          /\ part = "main" /\ sent = 0 => first' # NoResponse
      BY <3>1, <3>2, <3>3, AnswerIsUsed DEF Resolve
    <3>5. /\ afloat' \subseteq {"judged", "unseen"} /\ late' \subseteq afloat'
          /\ "judged" \in afloat' => refused' # {}
      BY <3>2, <3>4 DEF FailuresTold
    <3> QED
      BY <3>2, <3>4, <3>5 DEF FailuresTold, Requesting
  <2>3. CASE Hook
    <3>1. /\ UNCHANGED <<api, sent, first, afloat, late>> /\ refused \subseteq refused'
          /\ part \in {"setup", "teardown"} /\ part' = (IF part = "setup" THEN "before" ELSE "done")
      BY <2>3, PartsInOrder DEF Hook, Refuse
    <3> QED
      BY <3>1 DEF FailuresTold
  <2>8. CASE SnapshotFirst
    <3>1. UNCHANGED <<api, sent, first, afloat, late>> /\ part = "before" /\ part' = "main"
      BY <2>8, PartsInOrder DEF SnapshotFirst
    <3>2. refused \subseteq refused'
      BY <2>8 DEF SnapshotFirst, Shoots, Refuse
    <3>3. sent = 0
      BY <3>1 DEF FailuresTold
    <3> QED
      BY <3>1, <3>2, <3>3 DEF FailuresTold
  <2>4. CASE SnapshotLast
    <3>1. /\ UNCHANGED <<api, sent, first, afloat, late>> /\ refused \subseteq refused'
          /\ part = "after" /\ part' = "teardown"
      BY <2>4, PartsInOrder DEF SnapshotLast, Judged, Refuse
    <3> QED
      BY <3>1 DEF FailuresTold
  <2>5. CASE Send \/ Serve \/ ServeLate \/ BreakOff
    BY <2>5 DEF FailuresTold, Send, Serve, ServeLate, BreakOff
  <2>6. CASE NextPart
    BY <2>6, PartsInOrder DEF FailuresTold, NextPart, Quota, Requesting
  <2>7. CASE UNCHANGED apiVars
    BY <2>7 DEF FailuresTold, apiVars
  <2> QED
    BY <2>1, <2>2, <2>3, <2>4, <2>5, <2>6, <2>7, <2>8 DEF ApiStep
<1>4. Inv => NoWriteEscapes
  <2> SUFFICES ASSUME SnapshotsTell, FailuresTold, part = "teardown", untouched,
                      Blank \notin {shots.before, shots.after}, store # start
               PROVE  "unseen" \in late \/ ("judged" \in late /\ refused # {})
    BY DEF NoWriteEscapes
  <2>1. late # {}
    BY DEF SnapshotsTell
  <2> QED
    BY <2>1 DEF FailuresTold
<1> QED
  BY <1>1, <1>2, <1>3, <1>4, PTL DEF ApiSpec

(******************************* state suite *******************************)

Early == {"orchestration", "fixtures", "setup", "before"}
Unjudged == Early \cup {"migrate", "migrated", "down", "undone", "safety", "command", "after"}

\* Where a case stands: nothing is judged before both snapshots, none is taken before
\* its turn, and a rollback is run only against a snapshot.
Staged ==
  /\ at \in Unjudged \cup {"writes"} => passed = {}
  /\ at \in Early => snaps["before"] = Nothing
  /\ at \in Unjudged => snaps["after"] = Nothing
  /\ at \in {"rollback", "rolled"} => snaps["before"] # Nothing
  /\ snaps = [p \in {"before", "after"} |-> snaps[p]]
  /\ marks = [p \in {"before", "after", "rolled"} |-> marks[p]]

\* A snapshot shows what the database really was, and what passed was compared with it.
Contained ==
  ~spec.masked =>
    /\ \A p \in {"before", "after"} : snaps[p] # Nothing => snaps[p] = marks[p]
    /\ "unexpected_writes" \in passed => Changed(marks["before"], marks["after"]) \subseteq spec.allowed
    /\ "transaction_rollback" \in passed =>
         /\ at \in {"budgets", "reset", "stop", "done"}
         /\ spec.rollback = "unchanged" => marks["rolled"] = marks["before"]

\* At the start nothing was taken and nothing passed.
LEMMA StagedInit == StateInit => Staged /\ Contained
  BY DEF StateInit, Staged, Contained, Early, Unjudged

\* A failed or held check adds nothing to what passed.
LEMMA FailuresAddNothing == (ExitCode \/ Fails \/ \E ok \in BOOLEAN : Holds(ok)) => passed' = passed
  BY DEF ExitCode, Fails, Holds, verdictVars

\* One snapshot: what is taken of a phase is what the database is now.
LEMMA TakenNow ==
  ASSUME Staged, NEW p \in {"before", "after"}, Takes(p)
  PROVE  /\ passed' = passed
         /\ marks' = [marks EXCEPT ![p] = db]
         /\ snaps' = snaps \/ snaps' = [snaps EXCEPT ![p] = View(db)]
         /\ snaps' = [q \in {"before", "after"} |-> snaps'[q]]
         /\ marks' = [q \in {"before", "after", "rolled"} |-> marks'[q]]
         /\ marks'[p] = db /\ (snaps'[p] = snaps[p] \/ snaps'[p] = View(db))
         /\ \A q \in {"before", "after"} \ {p} : snaps'[q] = snaps[q] /\ marks'[q] = marks[q]
<1>1. passed' = passed
  BY FailuresAddNothing DEF Takes, verdictVars
<1>2. marks' = [marks EXCEPT ![p] = db] /\ (snaps' = snaps \/ snaps' = [snaps EXCEPT ![p] = View(db)])
  BY DEF Takes, AdapterSnapshot
<1> QED
  BY <1>1, <1>2 DEF Staged

\* The commands of a case that are judged by nothing but their exit.
Plain ==
  Orchestrate \/ Fixtures \/ Setup \/ Migrate \/ SnapshotMigrated \/ MigrateDown \/ JudgeDown
    \/ ActionSafety \/ Command \/ Rollback \/ Budgets \/ Throws \/ ResetFixtures \/ StopOrchestration

\* Such a step goes forward and leaves snapshots and verdicts alone.
LEMMA PlainGoesOn ==
  ASSUME Plain
  PROVE  /\ UNCHANGED <<spec, snaps, marks>> /\ passed' = passed
         /\ at' \in Early => at \in Early
         /\ at' \in Unjudged => at \in Unjudged
         /\ at' # "writes" /\ at' \notin {"tenants", "log"}
         /\ at' \in {"rollback", "rolled"} => at = "rollback"
         /\ at \in {"budgets", "reset", "stop", "done"} => at' \in {"budgets", "reset", "stop", "done"}
<1> USE DEF Early, Unjudged, Goto, dbVars, verdictVars
<1>1. CASE Orchestrate \/ Fixtures \/ Setup
  <2>1. passed' = passed
    BY <1>1, FailuresAddNothing DEF Orchestrate, Fixtures, Setup
  <2> QED
    BY <1>1, <2>1 DEF Orchestrate, Fixtures, Setup
<1>2. CASE Migrate \/ SnapshotMigrated
  <2>1. passed' = passed
    BY <1>2, FailuresAddNothing DEF Migrate, SnapshotMigrated
  <2> QED
    BY <1>2, <2>1 DEF Migrate, SnapshotMigrated
<1>3. CASE MigrateDown \/ JudgeDown
  <2>1. passed' = passed
    BY <1>3, FailuresAddNothing DEF MigrateDown, JudgeDown
  <2> QED
    BY <1>3, <2>1 DEF MigrateDown, JudgeDown
<1>4. CASE ActionSafety \/ Command
  <2>1. passed' = passed
    BY <1>4, FailuresAddNothing DEF ActionSafety, Command
  <2> QED
    BY <1>4, <2>1 DEF ActionSafety, Command
<1>5. CASE Rollback \/ Budgets
  <2>1. passed' = passed
    BY <1>5, FailuresAddNothing DEF Rollback, Budgets
  <2> QED
    BY <1>5, <2>1 DEF Rollback, Budgets
<1>6. CASE Throws \/ ResetFixtures \/ StopOrchestration
  BY <1>6 DEF Throws, ResetFixtures, StopOrchestration
<1> QED
  BY <1>1, <1>2, <1>3, <1>4, <1>5, <1>6 DEF Plain

\* A check that compares both snapshots sees what the database really was.
LEMMA VerdictsAdd ==
  ASSUME NEW o, NEW ok \in BOOLEAN, Verdict(o, ok)
  PROVE  passed' = passed \/ (ok /\ passed' = passed \cup {o})
  BY DEF Verdict, Fails

\* Every step of a state suite case keeps what the stages tell and what passed contained.
LEMMA StagedStep ==
  Staged /\ Contained /\ [StateStep]_stateVars => Staged' /\ Contained'
<1> SUFFICES ASSUME Staged, Contained, [StateStep]_stateVars PROVE Staged' /\ Contained'
  OBVIOUS
<1>1. CASE Plain
  BY <1>1, PlainGoesOn DEF Staged, Contained, Changed
<1>2. CASE SnapshotBefore
  <2>1. at = "before" /\ at' \in {"migrate", "safety"} /\ UNCHANGED spec /\ Takes("before")
    BY <1>2 DEF SnapshotBefore, Goto
  <2>2. passed = {} /\ snaps["before"] = Nothing /\ snaps["after"] = Nothing
    BY <2>1 DEF Staged, Early, Unjudged
  <2>3. Staged'
    BY <2>1, <2>2, TakenNow DEF Staged, Early, Unjudged
  <2>4. Contained'
    BY <2>1, <2>2, TakenNow DEF Contained, View
  <2> QED
    BY <2>3, <2>4
<1>3. CASE SnapshotAfter
  <2>1. at = "after" /\ at' = "writes" /\ UNCHANGED spec /\ Takes("after")
    BY <1>3 DEF SnapshotAfter, Goto
  <2>2. passed = {} /\ snaps["after"] = Nothing
    BY <2>1 DEF Staged, Early, Unjudged
  <2>3. Staged'
    BY <2>1, <2>2, TakenNow DEF Staged, Early, Unjudged
  <2>4. Contained'
    BY <2>1, <2>2, TakenNow DEF Contained, View
  <2> QED
    BY <2>3, <2>4
<1>4. CASE VerifyWrites
  <2>1. at = "writes" /\ at' = "tenants" /\ UNCHANGED <<spec, snaps, marks>>
    BY <1>4 DEF VerifyWrites, Goto, dbVars
  <2>2. passed = {}
    BY <2>1 DEF Staged
  <2>3. \/ passed' = passed
        \/ Compared /\ WritesOk /\ passed' = passed \cup {"unexpected_writes"}
    BY <1>4, VerdictsAdd DEF VerifyWrites, verdictVars, WritesOk
  <2>4. Staged'
    BY <2>1 DEF Staged, Early, Unjudged
  <2>5. ASSUME ~spec.masked, Compared, WritesOk
        PROVE  Changed(marks["before"], marks["after"]) \subseteq spec.allowed
    <3>1. snaps["before"] = marks["before"] /\ snaps["after"] = marks["after"]
      BY <2>5 DEF Contained, Compared
    <3> QED
      BY <2>5, <3>1 DEF WritesOk, Changed
  <2>6. Contained'
    BY <2>1, <2>2, <2>3, <2>5 DEF Contained, Changed
  <2> QED
    BY <2>4, <2>6
<1>5. CASE VerifyTenants \/ VerifyQueryLog
  <2>1. /\ at \in {"tenants", "log"} /\ UNCHANGED <<spec, snaps, marks>>
        /\ at' \in {"log", "budgets"} \/ (at' = "rollback" /\ snaps["before"] # Nothing)
    BY <1>5 DEF VerifyTenants, VerifyQueryLog, Goto, dbVars
  <2>2. passed' = passed \/ passed' = passed \cup {"tenant_isolation"}
    BY <1>5, VerdictsAdd, FailuresAddNothing
       DEF VerifyTenants, VerifyQueryLog, verdictVars, TenantsOk, QueryLogOk
  <2>3. Staged'
    BY <2>1 DEF Staged, Early, Unjudged
  <2>4. Contained'
    BY <2>1, <2>2 DEF Contained, Changed
  <2> QED
    BY <2>3, <2>4
<1>6. CASE JudgeRollback
  <2>1. /\ at = "rolled" /\ at' = "budgets" /\ UNCHANGED <<spec, db, snaps>>
        /\ marks' = [marks EXCEPT !["rolled"] = db]
    BY <1>6 DEF JudgeRollback, Goto
  <2>2. /\ passed' = passed \/ passed' = passed \cup {"transaction_rollback"}
        /\ spec.rollback = "unchanged" /\ passed' # passed => Restored
    BY <1>6, VerdictsAdd DEF JudgeRollback, Restored, Fails
  <2>3. Staged'
    BY <2>1 DEF Staged, Early, Unjudged
  <2>4. /\ marks'["before"] = marks["before"] /\ marks'["after"] = marks["after"]
        /\ marks'["rolled"] = db
    BY <2>1 DEF Staged
  <2>5. ~spec.masked => "transaction_rollback" \notin passed
    BY <2>1 DEF Contained
  <2>6. ~spec.masked /\ Restored => db = marks["before"]
    BY <2>1 DEF Restored, View, Contained, Staged
  <2>7. Contained'
    BY <2>1, <2>2, <2>4, <2>5, <2>6 DEF Contained, Changed
  <2> QED
    BY <2>3, <2>7
<1>7. CASE UNCHANGED stateVars
  BY <1>7 DEF stateVars, Staged, Contained, Changed
<1> QED
  BY <1>1, <1>2, <1>3, <1>4, <1>5, <1>6, <1>7 DEF StateStep, Plain

\* What a case lets pass is true of the database itself, for any tables and tenants.
THEOREM PassedIsContained == StateSpec => []PassIsContained
<1>1. Contained => PassIsContained
  BY DEF Contained, PassIsContained, Real
<1> QED
  BY <1>1, StagedInit, StagedStep, PTL DEF StateSpec

(******************************** CLI suite ********************************)

FileTrees == [Files -> Nat]
Execution == [command : Tools, start : FileTrees, exit : Nat, says : Nat, after : FileTrees]

\* What a command does is one of its outcomes over the files it found, or it was cut off.
DoneBy(e, command, files) ==
  /\ e \in Execution /\ e.command = command /\ e.start = files
  /\ e.exit = 0 => \E o \in Outcomes(command, files) : e.says = o.says /\ e.after = o.after

\* All commands but the random one have one outcome.
LEMMA OnlyRandomVaries ==
  ASSUME NEW c \in Tools, c # "random", NEW files, NEW o \in Outcomes(c, files), NEW p \in Outcomes(c, files)
  PROVE  o = p
  BY DEF Outcomes, Tools

\* An outcome is words and files.
LEMMA OutcomeTypes ==
  ASSUME NEW c \in Tools, NEW files \in FileTrees, NEW o \in Outcomes(c, files)
  PROVE  o.says \in Nat /\ o.after \in FileTrees
<1>1. CASE c = "pure" \/ c = "random"
  BY <1>1 DEF Outcomes, FileTrees, Files
<1>2. CASE c = "escapes"
  BY <1>2 DEF Outcomes, FileTrees, Files
<1>3. CASE c = "logs"
  BY <1>3 DEF Outcomes, FileTrees, Files
<1> QED
  BY <1>1, <1>2, <1>3 DEF Tools

\* One execution is appended, and it is one of the command over the workspace.
LEMMA ExecutesOne ==
  ASSUME NEW c \in Tools, repo \in FileTrees, Execute(c)
  PROVE  \E e : /\ executions' = Append(executions, e) /\ DoneBy(e, c, Workspace)
                /\ repo' \in FileTrees /\ (cli.isolated => repo' = repo)
<1>1. Workspace \in FileTrees
  BY DEF Workspace, FileTrees
<1>2. PICK o \in Outcomes(c, Workspace) \cup {[says |-> 0, after |-> Workspace]} :
        /\ executions' = Append(executions,
             [command |-> c, start |-> Workspace, exit |-> IF o.says = 0 THEN 124 ELSE 0,
              says |-> o.says, after |-> o.after])
        /\ repo' = IF cli.isolated THEN repo ELSE o.after
  BY Zenon DEF Execute
<1>3. o.says \in Nat /\ o.after \in FileTrees
  BY <1>1, <1>2, OutcomeTypes
<1>4. o.says # 0 => o \in Outcomes(c, Workspace)
  BY <1>2
<1> DEFINE exit == IF o.says = 0 THEN 124 ELSE 0
           e == [command |-> c, start |-> Workspace, exit |-> exit, says |-> o.says, after |-> o.after]
<1>5. exit \in Nat /\ (exit = 0 => o.says # 0)
  OBVIOUS
<1>6. e \in Execution
  BY <1>1, <1>3, <1>5, Zenon DEF Execution
<1>7. e.command = c /\ e.start = Workspace /\ e.exit = exit /\ e.says = o.says /\ e.after = o.after
  OBVIOUS
<1>8. DoneBy(e, c, Workspace)
  BY <1>4, <1>5, <1>6, <1>7, Zenon DEF DoneBy
<1> QED
  BY <1>2, <1>3, <1>8, Zenon

\* The facts of a case, and its executions: all over the same files if it has
\* workspaces of its own, the first one of the command under test.
CliCaseFacts ==
  /\ cli.repeat \in Nat \ {0} /\ (cli.reference # "none" => cli.reference \in Tools)
  /\ cli.oracle \in {"exact", "none", "no_crash"}
  /\ tested \in Tools /\ repo \in FileTrees
FirstIsTested == executions # <<>> => executions[1].command = tested
ExecutionsTell ==
  /\ executions \in Seq(Execution)
  /\ cliPart \in {"again", "reference"} => executions # <<>>
  /\ FirstIsTested
  /\ cli.isolated =>
       \A i \in DOMAIN executions : DoneBy(executions[i], executions[i].command, Workspace)

\* At the start of a case nothing was executed and nothing judged.
LEMMA ExecutionsInit == CliInit => CliCaseFacts /\ ExecutionsTell /\ DifferenceIsTheCommands
<1> SUFFICES ASSUME CliInit PROVE CliCaseFacts /\ ExecutionsTell /\ DifferenceIsTheCommands
  OBVIOUS
<1>1. /\ cli.repeat \in Nat \ {0} /\ (cli.reference # "none" => cli.reference \in Tools)
      /\ cli.oracle \in {"exact", "none", "no_crash"}
  BY CliAssumption DEF CliInit, CliCases
<1>2. tested \in Tools /\ repo \in FileTrees
  BY DEF CliInit, FileTrees, Files
<1>3. executions = <<>> /\ cliPart = "first" /\ cliVerdicts = {}
  BY DEF CliInit
<1> QED
  BY <1>1, <1>2, <1>3 DEF CliCaseFacts, ExecutionsTell, FirstIsTested, DifferenceIsTheCommands

\* One more execution keeps all that, and it is the last.
LEMMA ExecutionKeeps ==
  ASSUME CliCaseFacts, ExecutionsTell, NEW c \in Tools, Execute(c), UNCHANGED <<cli, tested>>,
         executions = <<>> => c = tested, cliPart' \in {"again", "reference"} => executions # <<>>
  PROVE  /\ CliCaseFacts' /\ ExecutionsTell'
         /\ \A i \in DOMAIN executions : i \in DOMAIN executions' /\ executions'[i] = executions[i]
         /\ Len(executions') = Len(executions) + 1 /\ executions'[Len(executions')].command = c
<1>1. PICK e : /\ executions' = Append(executions, e) /\ DoneBy(e, c, Workspace)
               /\ repo' \in FileTrees /\ (cli.isolated => repo' = repo)
  BY ExecutesOne DEF CliCaseFacts
<1>2. e \in Execution /\ e.command = c /\ executions \in Seq(Execution)
  BY <1>1 DEF DoneBy, ExecutionsTell
<1>3. /\ executions' \in Seq(Execution) /\ Len(executions') = Len(executions) + 1 /\ Len(executions) \in Nat
      /\ DOMAIN executions = 1 .. Len(executions) /\ DOMAIN executions' = 1 .. Len(executions')
      /\ \A i \in DOMAIN executions : executions'[i] = executions[i]
      /\ executions'[Len(executions')] = e
  BY <1>1, <1>2
<1>4. CliCaseFacts'
  BY <1>1 DEF CliCaseFacts
<1>5. FirstIsTested'
  <2>1. CASE executions = <<>>
    BY <1>2, <1>3, <2>1 DEF FirstIsTested
  <2>2. CASE executions # <<>>
    BY <1>2, <1>3, <2>2 DEF FirstIsTested, ExecutionsTell
  <2> QED
    BY <2>1, <2>2
<1>6. cli.isolated => Workspace' = Workspace
  BY <1>1 DEF Workspace
<1>7. ASSUME cli.isolated, NEW i \in DOMAIN executions'
      PROVE  DoneBy(executions'[i], executions'[i].command, Workspace')
  <2>1. CASE i \in DOMAIN executions
    BY <1>3, <1>6, <1>7, <2>1, Zenon DEF ExecutionsTell
  <2>2. CASE i = Len(executions')
    BY <1>1, <1>2, <1>3, <1>6, <1>7, <2>2, Zenon
  <2> QED
    BY <1>3, <2>1, <2>2
<1>8. executions' # <<>>
  BY <1>3
<1>9. ExecutionsTell'
  <2>1. cli'.isolated => \A i \in DOMAIN executions' : DoneBy(executions'[i], executions'[i].command, Workspace')
    BY <1>7
  <2> QED
    BY <1>3, <1>5, <1>8, <2>1 DEF ExecutionsTell, DoneBy
<1> QED
  BY <1>2, <1>3, <1>4, <1>9

\* Two executions of one command over the same files behave alike, unless the command
\* is the random one or one of them was cut off.
LEMMA SameFilesSameBehaviour ==
  ASSUME NEW files, NEW c \in Tools, c # "random", NEW a, NEW b,
         DoneBy(a, c, files), DoneBy(b, c, files), a.exit = 0, b.exit = 0
  PROVE  SameBehaviour(a, b)
<1>1. PICK o \in Outcomes(c, files) : a.says = o.says /\ a.after = o.after
  BY DEF DoneBy
<1>2. PICK p \in Outcomes(c, files) : b.says = p.says /\ b.after = p.after
  BY DEF DoneBy
<1>3. o = p
  BY <1>1, <1>2, OnlyRandomVaries
<1>4. a.start = files /\ b.start = files
  BY DEF DoneBy
<1> QED
  BY <1>1, <1>2, <1>3, <1>4 DEF SameBehaviour, FilesChanged

ToBlame == tested = "random" \/ \E i \in DOMAIN executions : executions[i].exit # 0

\* What a comparison with the first execution may add to the verdicts.
LEMMA ComparedWithFirst ==
  ASSUME CliCaseFacts, ExecutionsTell, executions # <<>>, NEW c \in Tools, Execute(c),
         UNCHANGED <<cli, tested>>, cli.isolated, c = tested,
         ~SameBehaviour(executions'[Len(executions')], executions[1])
  PROVE  ToBlame'
<1>0. cliPart' \in {"again", "reference"} => executions # <<>>
  OBVIOUS
<1>1. /\ ExecutionsTell' /\ executions'[Len(executions')].command = c
      /\ \A i \in DOMAIN executions : i \in DOMAIN executions' /\ executions'[i] = executions[i]
      /\ Len(executions') = Len(executions) + 1
  BY <1>0, ExecutionKeeps
<1>2. /\ 1 \in DOMAIN executions /\ executions'[1] = executions[1] /\ 1 \in DOMAIN executions'
      /\ Len(executions') \in DOMAIN executions'
  BY <1>1 DEF ExecutionsTell
<1>3. executions'[1].command = c
  BY <1>1, <1>2 DEF ExecutionsTell, FirstIsTested
<1>4. \A i \in DOMAIN executions' : DoneBy(executions'[i], executions'[i].command, Workspace')
  BY <1>1 DEF ExecutionsTell
<1>5. DoneBy(executions'[1], c, Workspace') /\ DoneBy(executions'[Len(executions')], c, Workspace')
  BY <1>1, <1>2, <1>3, <1>4
<1>6. \/ c = "random" \/ executions'[1].exit # 0 \/ executions'[Len(executions')].exit # 0
  BY <1>2, <1>5, SameFilesSameBehaviour
<1> QED
  BY <1>2, <1>6 DEF ToBlame

\* Every step of a command suite case keeps what the executions tell.
LEMMA CliStepKeeps ==
  CliCaseFacts /\ ExecutionsTell /\ DifferenceIsTheCommands /\ [CliStep]_cliVars
    => CliCaseFacts' /\ ExecutionsTell' /\ DifferenceIsTheCommands'
<1> SUFFICES ASSUME CliCaseFacts, ExecutionsTell, DifferenceIsTheCommands, [CliStep]_cliVars
             PROVE  CliCaseFacts' /\ ExecutionsTell' /\ DifferenceIsTheCommands'
  OBVIOUS
<1>0. DifferenceIsTheCommands <=>
        (cli.isolated =>
           /\ <<"deterministic", "fail">> \in cliVerdicts => ToBlame
           /\ <<"differential_reference", "fail">> \in cliVerdicts => ToBlame \/ cli.reference # tested)
  BY DEF DifferenceIsTheCommands, ToBlame
<1>1. CASE RunCase
  <2>1. /\ cliPart = "first" /\ Execute(tested) /\ UNCHANGED <<cli, tested, cliPart, cliVerdicts>>
    BY <1>1 DEF RunCase
  <2>2. tested \in Tools
    BY DEF CliCaseFacts
  <2>3. /\ CliCaseFacts' /\ ExecutionsTell'
        /\ \A i \in DOMAIN executions : i \in DOMAIN executions' /\ executions'[i] = executions[i]
    BY <2>1, <2>2, ExecutionKeeps
  <2>4. ToBlame => ToBlame'
    BY <2>1, <2>3 DEF ToBlame
  <2> QED
    BY <1>0, <2>1, <2>3, <2>4 DEF DifferenceIsTheCommands, ToBlame
<1>2. CASE JudgeFirst
  <2>1. /\ cliPart' = "again" /\ Len(executions) = cli.repeat /\ UNCHANGED <<cli, tested, repo, executions>>
        /\ cliVerdicts' = JudgedOfFirst(FirstRun)
    BY <1>2 DEF JudgeFirst
  <2>2. executions # <<>>
    BY <2>1 DEF CliCaseFacts, ExecutionsTell
  <2>3. ExecutionsTell' /\ CliCaseFacts'
    BY <2>1, <2>2 DEF ExecutionsTell, CliCaseFacts, FirstIsTested, Workspace
  <2>4. <<"deterministic", "fail">> \notin cliVerdicts' /\ <<"differential_reference", "fail">> \notin cliVerdicts'
    <3>1. \A o, ok : Judgement(o, ok)[1] = o
      BY DEF Judgement
    <3>2. \A v \in OutputContracts(FirstRun) : v[1] = "stdout_contract"
      <4>1. cli.oracle = "exact" \/ cli.oracle = "none" \/ cli.oracle = "no_crash"
        BY DEF CliCaseFacts
      <4> QED
        BY <4>1 DEF OutputContracts, Judgement
    <3>3. \A v \in JudgedOfFirst(FirstRun) :
             v[1] \in {"exit_code", "stdout_contract", "filesystem_effects", "stdout_exact"}
      BY <3>1, <3>2 DEF JudgedOfFirst, FilesystemEffects
    <3> QED
      BY <2>1, <3>3
  <2> QED
    BY <2>3, <2>4 DEF DifferenceIsTheCommands
<1>3. CASE RunAgain
  <2>1. /\ cliPart = "again" /\ cliPart' = "reference" /\ UNCHANGED <<cli, tested>>
        /\ \/ UNCHANGED <<repo, executions, cliVerdicts>>
           \/ /\ Execute(tested)
              /\ cliVerdicts' = cliVerdicts \cup
                   {Judgement("deterministic", SameBehaviour(executions'[Len(executions')], FirstRun))}
    BY <1>3 DEF RunAgain, Compare
  <2>2. tested \in Tools /\ executions # <<>>
    BY <2>1 DEF CliCaseFacts, ExecutionsTell
  <2>3. CASE UNCHANGED <<repo, executions, cliVerdicts>>
    BY <2>1, <2>2, <2>3 DEF CliCaseFacts, ExecutionsTell, FirstIsTested, Workspace, DifferenceIsTheCommands
  <2>4. ASSUME Execute(tested), cliVerdicts' = cliVerdicts \cup
                   {Judgement("deterministic", SameBehaviour(executions'[Len(executions')], FirstRun))}
        PROVE  CliCaseFacts' /\ ExecutionsTell' /\ DifferenceIsTheCommands'
    <3>1. /\ CliCaseFacts' /\ ExecutionsTell'
          /\ \A i \in DOMAIN executions : i \in DOMAIN executions' /\ executions'[i] = executions[i]
      BY <2>1, <2>2, <2>4, ExecutionKeeps
    <3>2. ToBlame => ToBlame'
      BY <2>1, <3>1 DEF ToBlame
    <3>3. cli.isolated /\ ~SameBehaviour(executions'[Len(executions')], FirstRun) => ToBlame'
      BY <2>1, <2>2, <2>4, ComparedWithFirst DEF FirstRun
    <3>4. \A v \in cliVerdicts' \ cliVerdicts :
             \/ v = <<"deterministic", "pass">>
             \/ v = <<"deterministic", "fail">> /\ ~SameBehaviour(executions'[Len(executions')], FirstRun)
      BY <2>4 DEF Judgement
    <3> HIDE DEF ToBlame
    <3>5. cli.isolated =>
            /\ <<"deterministic", "fail">> \in cliVerdicts' => ToBlame'
            /\ <<"differential_reference", "fail">> \in cliVerdicts' => ToBlame' \/ cli.reference # tested
      BY <1>0, <3>2, <3>3, <3>4
    <3> QED
      BY <2>1, <3>1, <3>5 DEF DifferenceIsTheCommands, ToBlame
  <2> QED
    BY <2>1, <2>3, <2>4
<1>4. CASE RunReference
  <2>1. /\ cliPart = "reference" /\ cliPart' = "cleanup" /\ UNCHANGED <<cli, tested>>
        /\ \/ UNCHANGED <<repo, executions, cliVerdicts>>
           \/ /\ cli.reference # "none" /\ Execute(cli.reference)
              /\ cliVerdicts' = cliVerdicts \cup
                   {Judgement("differential_reference", SameBehaviour(executions'[Len(executions')], FirstRun))}
    BY <1>4 DEF RunReference, Compare
  <2>2. tested \in Tools /\ executions # <<>>
    BY <2>1 DEF CliCaseFacts, ExecutionsTell
  <2>3. CASE UNCHANGED <<repo, executions, cliVerdicts>>
    BY <2>1, <2>2, <2>3 DEF CliCaseFacts, ExecutionsTell, FirstIsTested, Workspace, DifferenceIsTheCommands
  <2>4. ASSUME cli.reference # "none", Execute(cli.reference), cliVerdicts' = cliVerdicts \cup
                   {Judgement("differential_reference", SameBehaviour(executions'[Len(executions')], FirstRun))}
        PROVE  CliCaseFacts' /\ ExecutionsTell' /\ DifferenceIsTheCommands'
    <3>0. cli.reference \in Tools
      BY <2>4 DEF CliCaseFacts
    <3>1. /\ CliCaseFacts' /\ ExecutionsTell'
          /\ \A i \in DOMAIN executions : i \in DOMAIN executions' /\ executions'[i] = executions[i]
      BY <2>1, <2>2, <2>4, <3>0, ExecutionKeeps
    <3>2. ToBlame => ToBlame'
      BY <2>1, <3>1 DEF ToBlame
    <3>3. cli.isolated /\ cli.reference = tested
            /\ ~SameBehaviour(executions'[Len(executions')], FirstRun) => ToBlame'
      BY <2>1, <2>2, <2>4, <3>0, ComparedWithFirst DEF FirstRun
    <3>4. \A v \in cliVerdicts' \ cliVerdicts :
             \/ v = <<"differential_reference", "pass">>
             \/ v = <<"differential_reference", "fail">> /\ ~SameBehaviour(executions'[Len(executions')], FirstRun)
      BY <2>4 DEF Judgement
    <3> HIDE DEF ToBlame
    <3>5. cli.isolated =>
            /\ <<"deterministic", "fail">> \in cliVerdicts' => ToBlame'
            /\ <<"differential_reference", "fail">> \in cliVerdicts' => ToBlame' \/ cli.reference # tested
      BY <1>0, <3>2, <3>3, <3>4
    <3> QED
      BY <2>1, <3>1, <3>5 DEF DifferenceIsTheCommands, ToBlame
  <2> QED
    BY <2>1, <2>3, <2>4
<1>5. CASE CleanUp \/ ExecutionThrows
  <2>1. UNCHANGED <<cli, tested, repo, executions, cliVerdicts>> /\ cliPart' \in {"done", "threw"}
    BY <1>5 DEF CleanUp, ExecutionThrows
  <2> QED
    BY <2>1 DEF CliCaseFacts, ExecutionsTell, FirstIsTested, Workspace, DifferenceIsTheCommands
<1>6. CASE UNCHANGED cliVars
  BY <1>6 DEF cliVars, CliCaseFacts, ExecutionsTell, FirstIsTested, Workspace, DifferenceIsTheCommands
<1> QED
  BY <1>1, <1>2, <1>3, <1>4, <1>5, <1>6 DEF CliStep

\* In workspaces of its own a case that fails for being nondeterministic, or differs
\* from its reference, has the command or a cut-off to blame, for any number of runs.
THEOREM DifferencesAreTheCommands == CliSpec => []DifferenceIsTheCommands
  BY ExecutionsInit, CliStepKeeps, PTL DEF CliSpec

(*************************** state-machine suite ***************************)

\* A set of naturals that is not empty has a least element.
LEMMA LeastNatural ==
  ASSUME NEW S \in SUBSET Nat, S # {}
  PROVE  \E n \in S : \A m \in S : n <= m
<1> DEFINE less == {ss \in Nat \X Nat : ss[1] < ss[2]}
<1>1. IsWellFoundedOn(less, Nat)
  BY NatLessThanWellFounded, Zenon DEF OpToRel
<1>2. \A m, n \in Nat : <<m, n>> \notin less => n <= m
  OBVIOUS
<1> HIDE DEF less
<1>3. PICK n \in S : \A m \in S : ~ (<<m, n>> \in less)
  BY <1>1, WFMin
<1>4. ASSUME NEW m \in S PROVE n <= m
  BY <1>2, <1>3, <1>4
<1> QED
  BY <1>4

\* Induction over the naturals for a set: no least element is missing.
LEMMA InductionOverSet ==
  ASSUME NEW S, 0 \in S, \A n \in Nat : n \in S => n + 1 \in S
  PROVE  Nat \subseteq S
<1> SUFFICES ASSUME Nat \ S # {} PROVE FALSE
  OBVIOUS
<1>1. PICK n \in Nat \ S : \A m \in Nat \ S : n <= m
  BY LeastNatural
<1>2. n - 1 \in Nat /\ n - 1 \in S
  BY <1>1
<1> QED
  BY <1>1, <1>2

\* One round of replayModel.
ReplayStart == [states |-> <<workflow.initial>>, invalid |-> FALSE]
Round(r, n) ==
  LET t == FindTransition(r.states[n], workflow.asked[n])
  IN IF t = Unknown THEN [states |-> Append(r.states, r.states[n]), invalid |-> TRUE]
                    ELSE [r EXCEPT !.states = Append(@, t.to)]

\* The rounds up to one number, in the order of the loop.
ReplaysTo(g, n) == g = [m \in 0 .. n |-> IF m = 0 THEN ReplayStart ELSE Round(g[m - 1], m)]

\* For every number of rounds there is the function of the replays up to it.
LEMMA PrefixesExist == \A n \in Nat : \E g : ReplaysTo(g, n)
<1> DEFINE S == {n \in Nat : \E g : ReplaysTo(g, n)}
<1>1. 0 \in S
  <2>1. ReplaysTo([m \in 0 .. 0 |-> ReplayStart], 0)
    BY DEF ReplaysTo
  <2> QED
    BY <2>1
<1>2. ASSUME NEW n \in Nat, n \in S PROVE n + 1 \in S
  <2>1. PICK g : ReplaysTo(g, n)
    BY <1>2
  <2> DEFINE h == [m \in 0 .. n + 1 |-> IF m = n + 1 THEN Round(g[n], n + 1) ELSE g[m]]
  <2>2. \A m \in 0 .. n : g[m] = IF m = 0 THEN ReplayStart ELSE Round(g[m - 1], m)
    BY <2>1 DEF ReplaysTo
  <2>3. \A m \in 0 .. n + 1 : h[m] = IF m = 0 THEN ReplayStart ELSE Round(h[m - 1], m)
    BY <2>2
  <2>4. h = [m \in 0 .. n + 1 |-> h[m]]
    OBVIOUS
  <2> HIDE DEF h
  <2>5. ReplaysTo(h, n + 1)
    BY <2>3, <2>4, Zenon DEF ReplaysTo
  <2> QED
    BY <2>5
<1> HIDE DEF S
<1>3. Nat \subseteq S
  BY <1>1, <1>2, InductionOverSet
<1> QED
  BY <1>3 DEF S

\* Two such functions agree where both are defined.
LEMMA PrefixesAgree ==
  ASSUME NEW n \in Nat, NEW k \in Nat, n <= k, NEW g, ReplaysTo(g, n), NEW h, ReplaysTo(h, k)
  PROVE  g[n] = h[n]
<1> DEFINE S == {m \in Nat : m <= n => g[m] = h[m]}
<1>1. /\ \A m \in 0 .. n : g[m] = IF m = 0 THEN ReplayStart ELSE Round(g[m - 1], m)
      /\ \A m \in 0 .. k : h[m] = IF m = 0 THEN ReplayStart ELSE Round(h[m - 1], m)
  BY DEF ReplaysTo
<1>2. 0 \in S
  BY <1>1
<1>3. ASSUME NEW m \in Nat, m \in S PROVE m + 1 \in S
  BY <1>1, <1>3
<1>4. Nat \subseteq S
  <2> HIDE DEF S
  <2> QED
    BY <1>2, <1>3, InductionOverSet
<1> QED
  BY <1>4

\* The recursive definition has a value: the rounds, one after the other.
LEMMA ReplayUnfolds ==
  /\ Replay[0] = ReplayStart
  /\ \A n \in Nat : Replay[n + 1] = Round(Replay[n], n + 1)
<1> DEFINE upTo(n) == CHOOSE g : ReplaysTo(g, n)
           F == [n \in Nat |-> upTo(n)[n]]
           isReplay(f) == f = [n \in Nat |-> IF n = 0 THEN ReplayStart ELSE Round(f[n - 1], n)]
<1>1. \A n \in Nat : ReplaysTo(upTo(n), n)
  BY PrefixesExist
<1>2. upTo(0)[0] = ReplayStart
  <2>1. ReplaysTo(upTo(0), 0)
    BY <1>1
  <2> HIDE DEF upTo
  <2> QED
    BY <2>1 DEF ReplaysTo
<1>3. ASSUME NEW n \in Nat, n # 0 PROVE upTo(n)[n] = Round(upTo(n - 1)[n - 1], n)
  <2>1. ReplaysTo(upTo(n), n) /\ ReplaysTo(upTo(n - 1), n - 1) /\ n - 1 \in Nat
    BY <1>1, <1>3
  <2> HIDE DEF upTo
  <2>2. upTo(n)[n] = Round(upTo(n)[n - 1], n)
    BY <1>3, <2>1 DEF ReplaysTo
  <2>3. upTo(n - 1)[n - 1] = upTo(n)[n - 1]
    BY <1>3, <2>1, PrefixesAgree
  <2> QED
    BY <2>2, <2>3
<1>4. isReplay(F)
  <2> HIDE DEF upTo
  <2>1. \A n \in Nat : F[n] = IF n = 0 THEN ReplayStart ELSE Round(F[n - 1], n)
    BY <1>2, <1>3
  <2>2. F = [n \in Nat |-> F[n]]
    OBVIOUS
  <2> HIDE DEF F
  <2> QED
    BY <2>1, <2>2
<1>5. Replay = CHOOSE f : isReplay(f)
  BY DEF Replay, ReplayStart, Round
<1> HIDE DEF F
<1>6. isReplay(Replay)
  <2> HIDE DEF isReplay
  <2> QED
    BY <1>4, <1>5
<1>7. \A n \in Nat : Replay[n] = IF n = 0 THEN ReplayStart ELSE Round(Replay[n - 1], n)
  <2> QED
    BY <1>6
<1> QED
  BY <1>7

\* What a case declares, as far as the judges look at it.
WorkflowFacts ==
  /\ Len(workflow.asked) \in Nat
  /\ Len(workflow.model) \in Nat
  /\ \A i \in 1 .. Len(workflow.model) : workflow.model[i].to \in WorkflowStates

\* Commands and model of a case are finite sequences.
LEMMA WorkflowCaseFacts == WorkflowInit => WorkflowFacts
<1> SUFFICES ASSUME WorkflowInit PROVE WorkflowFacts
  OBVIOUS
<1>1. workflow.asked \in UpTo(WorkflowCommands, MaxCommands) /\ workflow.model \in UpTo(Transitions, MaxTransitions)
  <2>1. workflow \in [initial : WorkflowStates \cup {Unknown}, declared : {"none", "name", "where", "whole"},
                      asked : UpTo(WorkflowCommands, MaxCommands), model : UpTo(Transitions, MaxTransitions)]
    BY DEF WorkflowInit, WorkflowCases
  <2> QED
    BY <2>1
<1>2. ASSUME NEW A, NEW n \in Nat, NEW s \in UpTo(A, n)
      PROVE  Len(s) \in Nat /\ \A i \in 1 .. Len(s) : s[i] \in A
  BY <1>2 DEF UpTo
<1>3. \A t \in Transitions : t.to \in WorkflowStates
  BY DEF Transitions
<1> QED
  BY <1>1, <1>2, <1>3, WorkflowAssumption DEF WorkflowFacts

\* A transition that is found leads to a state.
LEMMA FoundLeadsOn ==
  ASSUME WorkflowFacts, NEW s, NEW c, FindTransition(s, c) # Unknown
  PROVE  FindTransition(s, c).to \in WorkflowStates
<1>1. Matching(s, c) # {} /\ Matching(s, c) \subseteq 1 .. Len(workflow.model)
  BY DEF FindTransition, Matching
<1>2. Matching(s, c) \in SUBSET Nat
  BY <1>1 DEF WorkflowFacts
<1>3. \E i \in Matching(s, c) : \A j \in Matching(s, c) : i <= j
  BY <1>1, <1>2, LeastNatural
<1> DEFINE i == CHOOSE i \in Matching(s, c) : \A j \in Matching(s, c) : i <= j
<1>4. i \in Matching(s, c)
  BY <1>3
<1>5. FindTransition(s, c) = workflow.model[i]
  BY <1>1 DEF FindTransition
<1> HIDE DEF i
<1> QED
  BY <1>1, <1>4, <1>5 DEF WorkflowFacts

\* What the replay of n commands has gone through: each state by the transition found
\* from the one before, or unchanged where there is none, which it notes.
Takes1(states, i) == FindTransition(states[i], workflow.asked[i])
ReplayedTo(r, n) ==
  /\ r = [states |-> r.states, invalid |-> r.invalid] /\ r.invalid \in BOOLEAN
  /\ r.states \in Seq(WorkflowStates) /\ Len(r.states) = n + 1 /\ r.states[1] = workflow.initial
  /\ \A i \in 1 .. n : Takes1(r.states, i) # Unknown => r.states[i + 1] = Takes1(r.states, i).to
  /\ r.invalid <=> \E i \in 1 .. n : Takes1(r.states, i) = Unknown

\* One more round keeps what a replay says of the model.
LEMMA RoundGoesOn ==
  ASSUME WorkflowFacts, NEW n \in Nat, NEW r, ReplayedTo(r, n)
  PROVE  ReplayedTo(Round(r, n + 1), n + 1)
<1> DEFINE t == FindTransition(r.states[n + 1], workflow.asked[n + 1])
           next == IF t = Unknown THEN r.states[n + 1] ELSE t.to
           q == Round(r, n + 1)
<1>1. /\ r.states \in Seq(WorkflowStates) /\ Len(r.states) = n + 1
      /\ \A i \in 1 .. n + 1 : r.states[i] \in WorkflowStates
  BY DEF ReplayedTo
<1>2. next \in WorkflowStates
  BY <1>1, FoundLeadsOn
<1>3. q = [states |-> Append(r.states, next), invalid |-> (r.invalid \/ t = Unknown)]
  <2>1. r = [states |-> r.states, invalid |-> r.invalid] /\ r.invalid \in BOOLEAN
    BY DEF ReplayedTo
  <2> HIDE DEF t
  <2>2. CASE t = Unknown
    BY <2>2 DEF Round, t
  <2>3. CASE t # Unknown
    BY <2>1, <2>3 DEF Round, t
  <2> QED
    BY <2>2, <2>3
<1> HIDE DEF q
<1>4. /\ q.states = Append(r.states, next) /\ q.invalid = (r.invalid \/ t = Unknown)
      /\ q = [states |-> q.states, invalid |-> q.invalid] /\ q.invalid \in BOOLEAN
  BY <1>3
<1>5. /\ q.states \in Seq(WorkflowStates) /\ Len(q.states) = n + 2
      /\ \A i \in 1 .. n + 1 : q.states[i] = r.states[i]
      /\ q.states[n + 2] = next
  BY <1>1, <1>2, <1>4
<1>6. /\ \A i \in 1 .. n : Takes1(q.states, i) = Takes1(r.states, i)
      /\ Takes1(q.states, n + 1) = t
  BY <1>5 DEF Takes1
<1> HIDE DEF t
<1>7. ASSUME NEW i \in 1 .. n + 1, Takes1(q.states, i) # Unknown
      PROVE  q.states[i + 1] = Takes1(q.states, i).to
  <2>1. CASE i = n + 1
    BY <1>5, <1>6, <1>7, <2>1
  <2>2. CASE i \in 1 .. n
    <3>1. i + 1 \in 1 .. n + 1
      BY <2>2
    <3>2. q.states[i + 1] = r.states[i + 1]
      BY <1>5, <3>1
    <3> QED
      BY <1>6, <1>7, <2>2, <3>2 DEF ReplayedTo
  <2> QED
    BY <2>1, <2>2
<1>8. q.invalid <=> \E i \in 1 .. n + 1 : Takes1(q.states, i) = Unknown
  <2>1. r.invalid <=> \E i \in 1 .. n : Takes1(r.states, i) = Unknown
    BY DEF ReplayedTo
  <2>2. 1 .. n + 1 = (1 .. n) \cup {n + 1}
    OBVIOUS
  <2> QED
    BY <1>4, <1>6, <2>1, <2>2
<1>9. q.states[1] = workflow.initial
  BY <1>5 DEF ReplayedTo
<1> QED
  BY <1>4, <1>5, <1>7, <1>8, <1>9 DEF ReplayedTo, q

\* So the replay of a case with a declared initial state takes the found transitions.
LEMMA ReplayTells ==
  ASSUME WorkflowFacts, workflow.initial \in WorkflowStates
  PROVE  ReplayedTo(Reference, Len(workflow.asked))
<1> DEFINE S == {n \in Nat : ReplayedTo(Replay[n], n)}
<1>1. 0 \in S
  <2> DEFINE r == Replay[0]
  <2>1. r = [states |-> <<workflow.initial>>, invalid |-> FALSE]
    BY ReplayUnfolds DEF ReplayStart
  <2>2. <<workflow.initial>> \in Seq(WorkflowStates) /\ Len(<<workflow.initial>>) = 0 + 1
    OBVIOUS
  <2> HIDE DEF r
  <2>3. r.states = <<workflow.initial>> /\ r.invalid = FALSE /\ r = [states |-> r.states, invalid |-> r.invalid]
    BY <2>1
  <2>4. r.states \in Seq(WorkflowStates) /\ Len(r.states) = 0 + 1 /\ r.states[1] = workflow.initial
    BY <2>2, <2>3
  <2>5. \A i \in 1 .. 0 : FALSE
    OBVIOUS
  <2>6. ReplayedTo(r, 0)
    BY <2>3, <2>4, <2>5 DEF ReplayedTo
  <2> QED
    BY <2>6 DEF r
<1>2. ASSUME NEW n \in Nat, n \in S PROVE n + 1 \in S
  BY <1>2, RoundGoesOn, ReplayUnfolds
<1> HIDE DEF S
<1>3. Nat \subseteq S
  BY <1>1, <1>2, InductionOverSet
<1> QED
  BY <1>3 DEF S, Reference, WorkflowFacts

\* A complete trace of steps that reports its commands as asked is accepted step by step
\* from the name of the initial state just when it is the replay.
LEMMA JudgesMean ==
  ASSUME WorkflowFacts, workflow.initial \in WorkflowStates, ReportsAsAsked, Complete,
         printed.form # "objects"
  PROVE  ~Reference.invalid /\ StatesOf(trace) = Reference.states
           <=> trace[1].state = workflow.initial /\ \A i \in 2 .. Len(trace) : StepOk(i)
<1> DEFINE n == Len(workflow.asked)
           r == Reference
<1>1. ReplayedTo(r, n) /\ n \in Nat /\ Len(trace) = n + 1
  BY ReplayTells DEF WorkflowFacts, Complete
<1>2. \A i \in 1 .. n : Reported(i + 1) = workflow.asked[i]
  <2>1. \A i \in 1 .. n : i + 1 \in 2 .. Len(trace) /\ (i + 1) - 1 = i
    BY <1>1
  <2> QED
    BY <2>1 DEF ReportsAsAsked, Asked
<1>3. StatesOf(trace) = r.states <=> \A i \in 1 .. n + 1 : trace[i].state = r.states[i]
  <2>1. r.states \in Seq(WorkflowStates) /\ Len(r.states) = n + 1
    BY <1>1 DEF ReplayedTo
  <2>2. r.states = [i \in 1 .. n + 1 |-> r.states[i]]
    BY <1>1, <2>1
  <2>3. StatesOf(trace) = [i \in 1 .. n + 1 |-> trace[i].state]
    BY <1>1 DEF StatesOf
  <2> HIDE DEF r, n
  <2> QED
    BY <2>2, <2>3
<1>4. \A i \in 1 .. n :
         StepOk(i + 1) <=> /\ FindTransition(trace[i].state, workflow.asked[i]) # Unknown
                           /\ FindTransition(trace[i].state, workflow.asked[i]).to = trace[i + 1].state
  <2> SUFFICES ASSUME NEW i \in 1 .. n
               PROVE  StepOk(i + 1) <=>
                        /\ FindTransition(trace[i].state, workflow.asked[i]) # Unknown
                        /\ FindTransition(trace[i].state, workflow.asked[i]).to = trace[i + 1].state
    OBVIOUS
  <2>1. (i + 1) - 1 = i /\ Reported(i + 1) = workflow.asked[i]
    BY <1>1, <1>2
  <2> QED
    BY <2>1 DEF StepOk, NameAt
<1>5. (\A i \in 2 .. Len(trace) : StepOk(i)) <=> \A i \in 1 .. n : StepOk(i + 1)
  <2>1. \A i \in 2 .. Len(trace) : i - 1 \in 1 .. n /\ (i - 1) + 1 = i
    BY <1>1
  <2>2. \A i \in 1 .. n : i + 1 \in 2 .. Len(trace)
    BY <1>1
  <2> QED
    BY <2>1, <2>2
<1> HIDE DEF n, r
<1>6. ASSUME ~r.invalid, \A i \in 1 .. n + 1 : trace[i].state = r.states[i]
      PROVE  trace[1].state = workflow.initial /\ \A i \in 1 .. n : StepOk(i + 1)
  <2>1. trace[1].state = workflow.initial
    BY <1>1, <1>6 DEF ReplayedTo
  <2>2. ASSUME NEW i \in 1 .. n PROVE StepOk(i + 1)
    <3>1. i \in 1 .. n + 1 /\ i + 1 \in 1 .. n + 1
      BY <1>1
    <3>2. Takes1(r.states, i) # Unknown /\ r.states[i + 1] = Takes1(r.states, i).to
      BY <1>1, <1>6 DEF ReplayedTo
    <3> QED
      BY <1>4, <1>6, <3>1, <3>2 DEF Takes1
  <2> QED
    BY <2>1, <2>2
<1>7. ASSUME trace[1].state = workflow.initial, \A i \in 1 .. n : StepOk(i + 1)
      PROVE  ~r.invalid /\ \A i \in 1 .. n + 1 : trace[i].state = r.states[i]
  <2> DEFINE S == {m \in Nat : m <= n => trace[m + 1].state = r.states[m + 1]}
  <2>1. 0 \in S
    BY <1>1, <1>7 DEF ReplayedTo
  <2>2. ASSUME NEW m \in Nat, m \in S PROVE m + 1 \in S
    <3>1. CASE m + 1 > n
      BY <1>1, <3>1
    <3>2. CASE m + 1 <= n
      <4>1. m + 1 \in 1 .. n /\ trace[m + 1].state = r.states[m + 1]
        BY <1>1, <2>2, <3>2
      <4>2. Takes1(r.states, m + 1) # Unknown /\ Takes1(r.states, m + 1).to = trace[(m + 1) + 1].state
        BY <1>4, <1>7, <4>1 DEF Takes1
      <4>3. r.states[(m + 1) + 1] = Takes1(r.states, m + 1).to
        BY <1>1, <4>1, <4>2 DEF ReplayedTo
      <4> QED
        BY <4>2, <4>3
    <3> QED
      BY <1>1, <3>1, <3>2
  <2>3. Nat \subseteq S
    <3> HIDE DEF S
    <3> QED
      BY <2>1, <2>2, InductionOverSet
  <2>4. \A i \in 1 .. n + 1 : trace[i].state = r.states[i]
    <3> SUFFICES ASSUME NEW i \in 1 .. n + 1 PROVE trace[i].state = r.states[i]
      OBVIOUS
    <3>1. i - 1 \in Nat /\ i - 1 <= n /\ (i - 1) + 1 = i
      BY <1>1
    <3>2. i - 1 \in S
      BY <2>3, <3>1
    <3> QED
      BY <3>1, <3>2
  <2>5. ASSUME NEW i \in 1 .. n PROVE Takes1(r.states, i) # Unknown
    <3>1. i \in 1 .. n + 1
      BY <1>1
    <3> QED
      BY <1>4, <1>7, <2>4, <3>1 DEF Takes1
  <2> QED
    BY <1>1, <2>4, <2>5 DEF ReplayedTo
<1> QED
  BY <1>3, <1>5, <1>6, <1>7 DEF r

\* The opinions are of the trace, and nothing changes it once it is judged.
Opined ==
  /\ WorkflowFacts /\ workflow.initial \in WorkflowStates \cup {Unknown}
  /\ workflow.declared \in {"none", "name", "where", "whole"}
  /\ workflow.declared # "none" => workflow.initial # Unknown
  /\ turn = "done" =>
        /\ opinions.initial = InitialOpinion /\ opinions.transitions = TransitionsOpinion
        /\ opinions.reference = ReferenceOpinion

\* Opinions depend on the case and its trace only.
LEMMA OpinionsStay ==
  ASSUME UNCHANGED <<workflow, printed, trace>>
  PROVE  /\ InitialOpinion' = InitialOpinion /\ TransitionsOpinion' = TransitionsOpinion
         /\ ReferenceOpinion' = ReferenceOpinion
<1>1. InitialOpinion' = InitialOpinion /\ TransitionsOpinion' = TransitionsOpinion
  BY DEF InitialOpinion, StateMatches, NameAt, TransitionsOpinion, StepOk, FindTransition, Matching, Reported, Asked
<1>2. Replay' = Replay
  <2>1. workflow' = workflow
    OBVIOUS
  <2> QED
    BY <2>1 DEF Replay, FindTransition, Matching
<1> QED
  BY <1>1, <1>2 DEF ReferenceOpinion, Reference, StatesOf

\* Every step keeps that opinions, once given, are the ones of the case.
LEMMA OpinedStep == Opined /\ [WorkflowStep]_workflowVars => Opined'
<1> SUFFICES ASSUME Opined, [WorkflowStep]_workflowVars PROVE Opined'
  OBVIOUS
<1>1. CASE Observe \/ ReplayFails
  <2>1. UNCHANGED workflow /\ turn' = "judge"
    BY <1>1 DEF Observe, ReplayFails
  <2> QED
    BY <2>1 DEF Opined, WorkflowFacts
<1>2. CASE Judge
  <2>1. /\ UNCHANGED <<workflow, printed, trace>>
        /\ opinions'.initial = InitialOpinion /\ opinions'.transitions = TransitionsOpinion
        /\ opinions'.reference = ReferenceOpinion
    BY <1>2 DEF Judge
  <2> QED
    BY <2>1, OpinionsStay DEF Opined, WorkflowFacts
<1>3. CASE UNCHANGED workflowVars
  <2>1. UNCHANGED <<workflow, printed, trace, opinions, turn>>
    BY <1>3 DEF workflowVars
  <2> QED
    BY <2>1, OpinionsStay DEF Opined, WorkflowFacts
<1> QED
  BY <1>1, <1>2, <1>3 DEF WorkflowStep

\* The step-by-step judgement of a complete trace and the replay of the model agree on the
\* names of its states, and on its start as far as it is declared by a name, for any
\* states, commands, transitions and traces.
THEOREM TheJudgesAgree == WorkflowSpec => []JudgesAgree
<1>1. WorkflowInit => Opined
  <2> SUFFICES ASSUME WorkflowInit PROVE Opined
    OBVIOUS
  <2>1. /\ workflow.initial \in WorkflowStates \cup {Unknown}
        /\ workflow.declared \in {"none", "name", "where", "whole"}
        /\ workflow.declared = "none" <=> workflow.initial = Unknown
    BY DEF WorkflowInit, WorkflowCases
  <2>2. turn = "replay"
    BY DEF WorkflowInit
  <2> QED
    BY <2>1, <2>2, WorkflowCaseFacts DEF Opined
<1>2. Opined => JudgesAgree
  <2> SUFFICES ASSUME Opined, turn = "done", workflow.model # <<>>, workflow.declared # "none",
                      printed.form # "objects", ReportsAsAsked, Complete
               PROVE  /\ opinions.reference = "pass" =>
                           /\ opinions.transitions = "pass"
                           /\ workflow.declared = "name" => opinions.initial = "pass"
                      /\ opinions.initial = "pass" /\ opinions.transitions = "pass"
                           /\ workflow.declared # "where" => opinions.reference = "pass"
    BY DEF JudgesAgree
  <2>1. /\ WorkflowFacts /\ workflow.initial \in WorkflowStates
        /\ opinions.initial = InitialOpinion /\ opinions.transitions = TransitionsOpinion
        /\ opinions.reference = ReferenceOpinion
    BY DEF Opined
  <2>2. trace # <<>>
    BY <2>1 DEF Complete, WorkflowFacts
  <2>3. /\ workflow.declared = "name" => (opinions.initial = "pass" <=> trace[1].state = workflow.initial)
        /\ workflow.declared # "where" /\ opinions.initial = "pass" => trace[1].state = workflow.initial
    BY <2>1, <2>2 DEF InitialOpinion, StateMatches, NameAt, Opinion
  <2>4. /\ opinions.transitions = "pass" <=> \A i \in 2 .. Len(trace) : StepOk(i)
        /\ opinions.reference = "pass" <=> ~Reference.invalid /\ StatesOf(trace) = Reference.states
    BY <2>1, <2>2 DEF TransitionsOpinion, ReferenceOpinion, Opinion
  <2>5. ~Reference.invalid /\ StatesOf(trace) = Reference.states
          <=> trace[1].state = workflow.initial /\ \A i \in 2 .. Len(trace) : StepOk(i)
    BY <2>1, JudgesMean
  <2> QED
    BY <2>3, <2>4, <2>5
<1> QED
  BY <1>1, <1>2, OpinedStep, PTL DEF WorkflowSpec

(******************************* formal suite ******************************)

Forms == {"absent", "empty", "own", "sarif", "generic", "junit", "lines", "prose"}
Docs == [form : Forms, level : Levels, cex : BOOLEAN, run : Nat]
Analyses == [exit : {"none", "expected", "other"}, output : Docs, report : Docs]

\* Every finding carries the form of the document it was read from.
LEMMA FindingsNameTheirForm ==
  ASSUME NEW d \in Docs, NEW tool, NEW f \in FindingsIn(d, tool)
  PROVE  f.key[1] = d.form
<1>1. \A severity, kind, named : Finding(d, severity, kind, named).key[1] = d.form
  BY DEF Finding
<1>2. \A severity, kind, named :
         [Finding(d, severity, kind, named) EXCEPT !.cex = FALSE, !.file = FALSE].key[1] = d.form
  BY DEF Finding
<1>3. \A g \in ToolJson(d, tool) : g.key[1] = d.form
  <2>1. CASE tool = "semgrep" /\ d.form = "own"
    BY <2>1 DEF ToolJson, Finding
  <2>2. CASE tool = "cargo" /\ d.form = "own"
    BY <2>2 DEF ToolJson, Finding
  <2>3. CASE tool = "cargo" /\ d.form # "own"
    <3> DEFINE x == [Finding(d, "info", "", FALSE) EXCEPT !.cex = FALSE, !.file = FALSE]
    <3>1. ToolJson(d, tool) = {x}
      BY <2>3 DEF ToolJson
    <3>2. x.key[1] = d.form
      BY DEF Finding
    <3> HIDE DEF x
    <3> QED
      BY <3>1, <3>2
  <2>4. CASE tool = "cbmc" /\ d.form = "own"
    BY <2>4 DEF ToolJson, Finding
  <2>5. CASE tool \notin {"semgrep", "cargo", "cbmc"} \/ (tool # "cargo" /\ d.form # "own")
    BY <2>5 DEF ToolJson
  <2> QED
    BY <2>1, <2>2, <2>3, <2>4, <2>5
<1>4. \A g \in GenericJson(d) : g.key[1] = d.form
  BY <1>1 DEF GenericJson
<1>5. \A g \in PlainText(d) : g.key[1] = d.form
  <2>1. CASE d.form = "lines"
    BY <1>1, <2>1 DEF PlainText
  <2>2. CASE d.form = "prose"
    <3> DEFINE x == Finding(d, "high", "counterexample", FALSE)
               y == Finding(d, "error", "", FALSE)
    <3>1. PlainText(d) = {x} \/ PlainText(d) = {y} \/ PlainText(d) = {}
      BY <2>2 DEF PlainText, Docs
    <3>2. x.key[1] = d.form /\ y.key[1] = d.form
      BY DEF Finding
    <3> HIDE DEF x, y
    <3> QED
      BY <3>1, <3>2
  <2>3. CASE d.form # "lines" /\ d.form # "prose"
    BY <2>3 DEF PlainText
  <2> QED
    BY <2>1, <2>2, <2>3
<1>6. CASE d.form \in {"absent", "empty"}
  BY <1>6 DEF FindingsIn
<1>7. CASE d.form \in {"own", "sarif", "generic"}
  BY <1>3, <1>4, <1>7 DEF FindingsIn
<1>8. CASE d.form = "junit"
  BY <1>1, <1>8 DEF FindingsIn
<1>9. CASE d.form \in {"lines", "prose"}
  BY <1>5, <1>9 DEF FindingsIn
<1> QED
  BY <1>6, <1>7, <1>8, <1>9 DEF Docs, Forms

\* What a document says in a form its parser knows is found, at least as severe as it says.
LEMMA OwnWordsAreFound ==
  ASSUME NEW d \in Docs, NEW tool, d.form = "own" \/ d.form = "lines", d.level # "none"
  PROVE  \E f \in FindingsIn(d, tool) : RankOf[f.severity] \in Nat /\ RankOf[f.severity] >= RankOf[d.level]
<1>1. \A severity, kind, named : Finding(d, severity, kind, named).severity = severity
  BY DEF Finding
<1>2. \A otherwise : Stated(d, otherwise) = d.level
  BY DEF Stated
<1>3. d.level \in {"warning", "high"}
  BY DEF Docs, Levels
<1>4. /\ RankOf[d.level] \in Nat /\ RankOf["high"] \in Nat
      /\ RankOf[d.level] >= RankOf[d.level] /\ RankOf["high"] >= RankOf[d.level]
  BY <1>3 DEF RankOf
<1>5. CASE d.form = "lines"
  <2>1. FindingsIn(d, tool) = PlainText(d)
    BY <1>5 DEF FindingsIn
  <2> DEFINE f == Finding(d, d.level, IF d.cex THEN "counterexample" ELSE "", FALSE)
  <2>2. f \in PlainText(d)
    <3>1. PlainText(d) = {Finding(d, Stated(d, IF d.cex THEN "high" ELSE "warning"),
                                  IF d.cex THEN "counterexample" ELSE "", FALSE)}
      BY <1>5 DEF PlainText
    <3>2. Stated(d, IF d.cex THEN "high" ELSE "warning") = d.level
      BY DEF Stated
    <3> QED
      BY <3>1, <3>2
  <2>3. f.severity = d.level
    BY DEF Finding
  <2> HIDE DEF f
  <2> QED
    BY <1>4, <2>1, <2>2, <2>3
<1>6. CASE d.form = "own"
  <2>0. FindingsIn(d, tool) = IF ToolJson(d, tool) # {} THEN ToolJson(d, tool) ELSE GenericJson(d)
    BY <1>6 DEF FindingsIn
  <2>1. CASE tool = "cbmc"
    <3> DEFINE f == Finding(d, "high", "counterexample", TRUE)
    <3>1. f \in ToolJson(d, tool)
      BY <1>6, <2>1 DEF ToolJson
    <3>2. f.severity = "high"
      BY DEF Finding
    <3> HIDE DEF f
    <3> QED
      BY <1>4, <2>0, <3>1, <3>2
  <2>2. CASE tool \in {"semgrep", "cargo"}
    <3> DEFINE f == Finding(d, d.level, "", TRUE)
    <3>1. f \in ToolJson(d, tool)
      BY <1>2, <1>6, <2>2 DEF ToolJson
    <3>2. f.severity = d.level
      BY DEF Finding
    <3> HIDE DEF f
    <3> QED
      BY <1>4, <2>0, <3>1, <3>2
  <2>3. CASE tool \notin {"semgrep", "cargo", "cbmc"}
    <3>1. ToolJson(d, tool) = {}
      BY <1>6, <2>3 DEF ToolJson
    <3> DEFINE f == Finding(d, d.level, "", d.form # "sarif")
    <3>2. f \in GenericJson(d)
      BY <1>2 DEF GenericJson
    <3>3. f.severity = d.level
      BY DEF Finding
    <3> HIDE DEF f
    <3> QED
      BY <1>4, <2>0, <3>1, <3>2, <3>3
  <2> QED
    BY <2>1, <2>2, <2>3
<1> QED
  BY <1>5, <1>6

\* The policy read off the goal is the threshold the gate takes.
LEMMA PolicyIsThreshold ==
  ASSUME NEW c, NEW p \in Policy(c)
  PROVE  Threshold(c) = p /\ p # ""
  BY DEF Policy, Threshold

\* Where only one of output and report is in a form the parser knows, what it says that
\* the policy forbids blocks: the other cannot hide it.
LEMMA ForbiddenWordsBlock ==
  ASSUME NEW a \in Analyses, NEW c, NEW p \in Policy(c),
         NEW d \in {a.output, a.report}, d.form = "own" \/ d.form = "lines",
         Cardinality({x \in {a.output, a.report} : x.form = "own" \/ x.form = "lines"}) = 1,
         d.level # "none", RankOf[d.level] >= RankOf[p]
  PROVE  Blocking(c, FindingsOf(a, c.tool)) # {}
<1> DEFINE own == {x \in {a.output, a.report} : x.form = "own" \/ x.form = "lines"}
<1>1. a.output \in Docs /\ a.report \in Docs /\ d \in Docs
  BY DEF Analyses
<1>2. PICK f \in FindingsIn(d, c.tool) : RankOf[f.severity] \in Nat /\ RankOf[f.severity] >= RankOf[d.level]
  BY <1>1, OwnWordsAreFound
<1>3. f.key[1] = d.form
  BY <1>1, FindingsNameTheirForm
<1>4. f \in FindingsOf(a, c.tool)
  <2>1. CASE d = a.output
    BY <1>2, <2>1 DEF FindingsOf
  <2>2. CASE d # a.output
    <3>1. d = a.report
      BY <2>2
    <3>2. IsFiniteSet(own)
      <4>1. IsFiniteSet({a.output} \cup {a.report})
        BY FS_Singleton, FS_Union
      <4>2. own \in SUBSET ({a.output} \cup {a.report})
        OBVIOUS
      <4> HIDE DEF own
      <4> QED
        BY <4>1, <4>2, FS_Subset
    <3>3. PICK x : own = {x}
      <4> HIDE DEF own
      <4>1. Cardinality(own) = 1
        BY DEF own
      <4> QED
        BY <3>2, <4>1, FS_Singleton
    <3>4. ~(a.output.form = "own" \/ a.output.form = "lines")
      <4>1. d \in own
        OBVIOUS
      <4>2. a.output.form = "own" \/ a.output.form = "lines" => a.output \in own
        OBVIOUS
      <4> HIDE DEF own
      <4> QED
        BY <2>2, <3>3, <4>1, <4>2
    <3>5. \A g \in FindingsIn(a.output, c.tool) : g.key # f.key
      BY <1>1, <1>3, <3>4, FindingsNameTheirForm
    <3> QED
      BY <3>1, <3>5 DEF FindingsOf
  <2> QED
    BY <2>1, <2>2
<1>5. Threshold(c) = p /\ p # "" /\ p \in {"warning", "high"}
  BY PolicyIsThreshold DEF Policy
<1>6. RankOf[p] \in Nat /\ RankOf[d.level] \in Nat
  <2>1. RankOf["warning"] \in Nat /\ RankOf["high"] \in Nat
    BY DEF RankOf
  <2>2. d.level \in {"warning", "high"}
    BY <1>1 DEF Docs, Levels
  <2> QED
    BY <1>5, <2>1, <2>2
<1>7. RankOf[f.severity] >= RankOf[Threshold(c)]
  <2>1. \A x, y, z \in Nat : x >= y /\ y >= z => x >= z
    OBVIOUS
  <2> QED
    BY <1>2, <1>5, <1>6, <2>1
<1> QED
  BY <1>4, <1>5, <1>7 DEF Blocking

\* What one judged analysis adds: a failure of a binding case whose analyzer failed or
\* whose findings block, and nothing but coverage fails an advisory case.
LEMMA JudgedAdds ==
  ASSUME NEW c, NEW a, c = Case
  PROVE  LET new == JudgedFindings(c, a) IN
         /\ IsFiniteSet(new)
         /\ ~c.advisory /\ a.exit # "expected" => \E r \in new : r[3] = "fail"
         /\ ~c.advisory /\ Blocking(c, FindingsOf(a, c.tool)) # {} => \E r \in new : r[3] = "fail"
         /\ formal.requires = "" /\ c.advisory => \A r \in new : r[3] # "fail"
<1> DEFINE findings == FindingsOf(a, c.tool)
           quiet == Blocking(c, findings) = {}
           covered == CoverageRecords(c, findings)
           r1 == PassOrGap("tool_specific_parser", HasAdapter(c.tool))
           r2 == PassOrGap("artifact_hashes", c.covers)
           r3 == Record("counterexample_extraction", "pass")
           r4 == BindingVerdict("severity_gate", quiet)
           r5 == BindingVerdict(Category[c.tool], Succeeded(a) /\ quiet)
           r6 == BindingVerdict("analyzer_success", Succeeded(a))
           judged == {r1, r2, r3, r4, r5, r6}
<1>1. JudgedFindings(c, a) = covered \cup judged
  BY DEF JudgedFindings
<1>2. IsFiniteSet(judged)
  <2> HIDE DEF r1, r2, r3, r4, r5, r6
  <2>1. IsFiniteSet({r1}) /\ IsFiniteSet({r2}) /\ IsFiniteSet({r3}) /\ IsFiniteSet({r4})
          /\ IsFiniteSet({r5}) /\ IsFiniteSet({r6})
    BY FS_Singleton
  <2>2. IsFiniteSet(((((({r1} \cup {r2}) \cup {r3}) \cup {r4}) \cup {r5}) \cup {r6}))
    BY <2>1, FS_Union
  <2>3. ((((({r1} \cup {r2}) \cup {r3}) \cup {r4}) \cup {r5}) \cup {r6}) = judged
    OBVIOUS
  <2> QED
    BY <2>2, <2>3
<1>3. PICK x, y : covered = {x, y}
  BY DEF CoverageRecords
<1>4. IsFiniteSet(covered)
  <2>1. IsFiniteSet({x}) /\ IsFiniteSet({y})
    BY FS_Singleton
  <2>2. IsFiniteSet({x} \cup {y}) /\ {x} \cup {y} = {x, y}
    BY <2>1, FS_Union
  <2> QED
    BY <1>3, <2>2
<1>5. IsFiniteSet(covered \cup judged)
  BY <1>2, <1>4, FS_Union
<1>6. \A o, s : Record(o, s)[3] = s
  BY DEF Record
<1>7. formal.requires = "" => \A r \in covered : r[3] # "fail"
  BY <1>6, ZenonT(40) DEF CoverageRecords, FileMissing, FunctionMissing, PassOrGap
<1>8. /\ r1[3] # "fail" /\ r2[3] # "fail" /\ r3[3] # "fail"
      /\ c.advisory => r4[3] # "fail" /\ r5[3] # "fail" /\ r6[3] # "fail"
  BY <1>6 DEF PassOrGap, BindingVerdict
<1>9. ~c.advisory /\ a.exit # "expected" => r6[3] = "fail"
  BY <1>6 DEF BindingVerdict, Succeeded
<1>10. ~c.advisory /\ ~quiet => r4[3] = "fail"
  BY <1>6 DEF BindingVerdict
<1> HIDE DEF r1, r2, r3, r4, r5, r6, covered
<1>11. c.advisory /\ formal.requires = "" => \A r \in covered \cup judged : r[3] # "fail"
  BY <1>7, <1>8
<1> HIDE DEF judged
<1>12. {r4, r6} \subseteq covered \cup judged
  BY DEF judged
<1> QED
  BY <1>1, <1>5, <1>9, <1>10, <1>11, <1>12

Failing == {r \in records : r[3] = "fail"}
\* A binding case whose analyzer failed, or said in its own words what the policy forbids.
Condemned(i) ==
  LET c == formal.cases[i]
  IN /\ Analyzed(i) /\ ~c.advisory
     /\ \/ analyses[i].exit = "other"
        \/ \E d \in OwnWords(i), p \in Policy(c) :
             Cardinality(OwnWords(i)) = 1 /\ d.level # "none" /\ RankOf[d.level] >= RankOf[p]

\* The counterexample and the failures come together, every condemned case that has been
\* judged has its failure, and but for coverage only binding cases fail.
RunTyped ==
  /\ formal.cases \in Seq(FormalCases) /\ analyses \in Seq(Analyses) /\ report \in Docs
  /\ formalPart = "select" => analyses = <<>> /\ records = {}
  /\ formalPart = "judge" => analyses # <<>> /\ analyses[Len(analyses)].exit # "none"
FailuresTell ==
  /\ IsFiniteSet(records) /\ (example = <<>> <=> Failing = {})
  /\ \A i \in DOMAIN analyses :
        (i # Len(analyses) \/ formalPart # "judge") /\ Condemned(i) => Failing # {}
  /\ (formalPart # "done" \/ analyses # <<>>) /\ formal.requires = "" /\ Failing # {} =>
        \E i \in DOMAIN analyses : Analyzed(i) /\ ~formal.cases[i].advisory
  /\ formalPart = "done" /\ analyses # <<>> =>
        /\ summary.fails = Cardinality(Failing)
        /\ summary.status = IF example = <<>> THEN "pass" ELSE "fail"

\* The invariant of a formal run holds at its start.
LEMMA RunStarts == FormalInit => RunTyped /\ FailuresTell
<1> SUFFICES ASSUME FormalInit PROVE RunTyped /\ FailuresTell
  OBVIOUS
<1>1. analyses = <<>> /\ records = {} /\ example = <<>> /\ formalPart = "select"
  BY DEF FormalInit
<1>2. formal.cases \in Seq(FormalCases)
  <2>1. \A c \in FormalCases : Again(c) \in FormalCases
    BY DEF FormalCases, Again
  <2>2. \A c \in FormalCases : <<c>> \in Seq(FormalCases) /\ <<c, Again(c)>> \in Seq(FormalCases)
    BY <2>1
  <2>3. formal.cases \in CaseLists
    BY DEF FormalInit
  <2> QED
    BY <2>2, <2>3 DEF CaseLists
<1>3. report \in Docs
  <2>1. Absent \in Docs
    BY DEF Docs, Forms, Levels, Absent
  <2>2. [form |-> "sarif", level |-> "high", cex |-> FALSE, run |-> 0] \in Docs
    BY DEF Docs, Forms, Levels
  <2> QED
    BY <2>1, <2>2 DEF FormalInit
<1>4. Failing = {} /\ IsFiniteSet(records)
  BY <1>1, FS_EmptySet DEF Failing
<1>5. analyses \in Seq(Analyses) /\ DOMAIN analyses = {}
  BY <1>1
<1> QED
  BY <1>1, <1>2, <1>3, <1>4, <1>5 DEF RunTyped, FailuresTell

\* What Adds keeps, and what it adds to the failures.
LEMMA AddsFailures ==
  ASSUME NEW new, Adds(new), IsFiniteSet(new), IsFiniteSet(records), example = <<>> <=> Failing = {}
  PROVE  /\ IsFiniteSet(records') /\ (example' = <<>> <=> Failing' = {})
         /\ Failing' = Failing \cup {r \in new : r[3] = "fail"}
<1>1. records' = records \cup new
  BY DEF Adds
<1>2. IsFiniteSet(records')
  BY <1>1, FS_Union
<1>3. Failing' = Failing \cup {r \in new : r[3] = "fail"}
  BY <1>1 DEF Failing
<1>4. example' = IF example = <<>> /\ \E r \in new : r[3] = "fail"
                 THEN <<CHOOSE r \in new : r[3] = "fail">> ELSE example
  BY DEF Adds
<1>5. \A x : <<x>> # <<>>
  OBVIOUS
<1>6. example' = <<>> <=> Failing' = {}
  BY <1>3, <1>4, <1>5
<1> QED
  BY <1>2, <1>3, <1>6

\* What an analyzer prints is a document.
LEMMA DocumentsAreDocs ==
  ASSUME NEW tool \in Analyzers, NEW n \in Nat
  PROVE  Documents(tool, n) \subseteq Docs
<1>1. Writes[tool] \subseteq Forms
  <2>1. tool \in {"semgrep", "cargo", "cbmc", "tlc", "eslint"}
    BY DEF Analyzers, Category
  <2> QED
    BY <2>1 DEF Writes, Forms
<1>2. [form |-> "empty", level |-> "none", cex |-> FALSE, run |-> n] \in Docs
  BY DEF Docs, Forms, Levels
<1> QED
  BY <1>1, <1>2 DEF Documents, Docs

\* One analysis more leaves the earlier ones as they are.
LEMMA EarlierStay ==
  ASSUME NEW x \in Analyses, analyses \in Seq(Analyses), analyses' = Append(analyses, x), UNCHANGED formal
  PROVE  /\ analyses' \in Seq(Analyses) /\ analyses' # <<>> /\ Len(analyses') = Len(analyses) + 1
         /\ analyses'[Len(analyses')] = x /\ DOMAIN analyses' = DOMAIN analyses \cup {Len(analyses')}
         /\ \A i \in DOMAIN analyses :
              /\ analyses'[i] = analyses[i] /\ i # Len(analyses')
              /\ Condemned(i)' = Condemned(i) /\ Analyzed(i)' = Analyzed(i)
<1>1. /\ analyses' \in Seq(Analyses) /\ Len(analyses') = Len(analyses) + 1 /\ Len(analyses) \in Nat
      /\ analyses'[Len(analyses')] = x /\ DOMAIN analyses = 1 .. Len(analyses)
      /\ DOMAIN analyses' = 1 .. Len(analyses')
      /\ \A i \in DOMAIN analyses : analyses'[i] = analyses[i]
  OBVIOUS
<1>2. analyses' # <<>> /\ DOMAIN analyses' = DOMAIN analyses \cup {Len(analyses')}
  BY <1>1
<1>3. ASSUME NEW i \in DOMAIN analyses
      PROVE  i # Len(analyses') /\ Condemned(i)' = Condemned(i) /\ Analyzed(i)' = Analyzed(i)
  <2>1. i \in DOMAIN analyses' /\ analyses'[i] = analyses[i] /\ i # Len(analyses')
    BY <1>1
  <2>2. Analyzed(i)' = Analyzed(i)
    BY <2>1 DEF Analyzed
  <2>3. OwnWords(i)' = OwnWords(i)
    BY <2>1 DEF OwnWords
  <2>4. \A c : Policy(c)' = Policy(c)
    BY DEF Policy
  <2>5. Condemned(i)' = Condemned(i)
    BY <2>1, <2>2, <2>3, <2>4 DEF Condemned
  <2> QED
    BY <2>1, <2>2, <2>5
<1> QED
  BY <1>1, <1>2, <1>3

\* Choosing the cases keeps the invariant of a formal run.
LEMMA SelectTells == RunTyped /\ FailuresTell /\ SelectCases => RunTyped' /\ FailuresTell'
<1> SUFFICES ASSUME RunTyped, FailuresTell, SelectCases PROVE RunTyped' /\ FailuresTell'
  OBVIOUS
<1>1. /\ formalPart = "select" /\ analyses = <<>> /\ records = {} /\ UNCHANGED <<formal, report, analyses>>
      /\ formalPart' \in {"case", "done"}
  BY DEF SelectCases, RunTyped
<1>2. PICK status \in {"fail", "gap"}, o \in {"case_selection", "tool_coverage"} :
        /\ Adds({<<0, o, status>>}) /\ (formalPart' = "case" => status = "gap")
  BY DEF SelectCases
<1>3. /\ IsFiniteSet(records') /\ (example' = <<>> <=> Failing' = {})
      /\ Failing' = Failing \cup {r \in {<<0, o, status>>} : r[3] = "fail"}
  BY <1>2, AddsFailures, FS_Singleton DEF FailuresTell
<1>4. Failing = {}
  BY <1>1 DEF Failing
<1>5. formalPart' = "case" => Failing' = {}
  BY <1>2, <1>3, <1>4
<1>6. RunTyped'
  BY <1>1 DEF RunTyped
<1>7. DOMAIN analyses' = {}
  BY <1>1
<1> QED
  BY <1>1, <1>3, <1>5, <1>6, <1>7 DEF FailuresTell

\* A case with nothing to run keeps the invariant of a formal run.
LEMMA PassTells == RunTyped /\ FailuresTell /\ PassCase => RunTyped' /\ FailuresTell'
<1> SUFFICES ASSUME RunTyped, FailuresTell, PassCase PROVE RunTyped' /\ FailuresTell'
  OBVIOUS
<1> DEFINE x == [exit |-> "none", output |-> Absent, report |-> Absent]
<1>1. /\ formalPart = "case" /\ analyses' = Append(analyses, x)
      /\ UNCHANGED <<formal, report, formalPart, summary>>
  BY DEF PassCase
<1>2. /\ x \in Analyses /\ x.exit = "none"
  BY DEF Analyses, Docs, Forms, Levels, Absent
<1> HIDE DEF x
<1>3. /\ IsFiniteSet(records') /\ (example' = <<>> <=> Failing' = {}) /\ Failing' = Failing
  <2>1. CASE Selected(Upcoming)
    <3> DEFINE new == {<<Upcoming, o, "gap">> : o \in {"analyzer_success", "severity_gate", "formal_coverage_map"}}
    <3>1. Adds(new)
      BY <2>1 DEF PassCase
    <3>2. IsFiniteSet(new)
      <4> DEFINE a == <<Upcoming, "analyzer_success", "gap">>
                 b == <<Upcoming, "severity_gate", "gap">>
                 d == <<Upcoming, "formal_coverage_map", "gap">>
      <4>1. new = ({a} \cup {b}) \cup {d}
        OBVIOUS
      <4> HIDE DEF a, b, d, new
      <4> QED
        BY <4>1, FS_Singleton, FS_Union
    <3>3. {r \in new : r[3] = "fail"} = {}
      OBVIOUS
    <3> HIDE DEF new
    <3> QED
      BY <3>1, <3>2, <3>3, AddsFailures DEF FailuresTell
  <2>2. CASE ~Selected(Upcoming)
    BY <2>2 DEF PassCase, FailuresTell, Failing
  <2> QED
    BY <2>1, <2>2
<1>4. /\ analyses' \in Seq(Analyses) /\ analyses' # <<>> /\ Len(analyses') = Len(analyses) + 1
      /\ analyses'[Len(analyses')] = x /\ DOMAIN analyses' = DOMAIN analyses \cup {Len(analyses')}
      /\ \A i \in DOMAIN analyses :
           /\ analyses'[i] = analyses[i] /\ i # Len(analyses')
           /\ Condemned(i)' = Condemned(i) /\ Analyzed(i)' = Analyzed(i)
  BY <1>1, <1>2, EarlierStay DEF RunTyped
<1>5. \A i : i = Len(analyses') => ~Condemned(i)'
  BY <1>2, <1>4 DEF Condemned, Analyzed
<1>6. RunTyped'
  BY <1>1, <1>4 DEF RunTyped
<1>7. \A i \in DOMAIN analyses' : Condemned(i)' => Failing' # {}
  BY <1>1, <1>3, <1>4, <1>5 DEF FailuresTell
<1>8. formal.requires = "" /\ Failing' # {} => \E i \in DOMAIN analyses' : Analyzed(i)' /\ ~formal.cases[i].advisory
  BY <1>1, <1>3, <1>4 DEF FailuresTell
<1> QED
  BY <1>1, <1>3, <1>6, <1>7, <1>8 DEF FailuresTell

\* A run of an analyzer keeps the invariant of a formal run.
LEMMA AnalyzerTells == RunTyped /\ FailuresTell /\ RunAnalyzer => RunTyped' /\ FailuresTell'
<1> SUFFICES ASSUME RunTyped, FailuresTell, RunAnalyzer PROVE RunTyped' /\ FailuresTell'
  OBVIOUS
<1> DEFINE c == formal.cases[Upcoming]
<1>1. /\ formalPart = "case" /\ formalPart' = "judge" /\ Upcoming \in DOMAIN formal.cases
      /\ UNCHANGED <<formal, records, example, summary>>
  BY DEF RunAnalyzer
<1>2. PICK exit \in {"expected", "other"}, output \in Documents(c.tool, Upcoming),
           left \in (IF c.reports THEN Documents(c.tool, Upcoming) ELSE {}) \cup {report} :
        /\ report' = left
        /\ analyses' = Append(analyses, [exit |-> exit, output |-> output,
                                         report |-> IF c.reports THEN left ELSE Absent])
  BY Zenon DEF RunAnalyzer
<1>3. c.tool \in Analyzers /\ Upcoming \in Nat
  <2>1. c \in FormalCases
    BY <1>1 DEF RunTyped
  <2>2. c.tool \in Analyzers
    <3> HIDE DEF c
    <3> QED
      BY <2>1 DEF FormalCases
  <2> QED
    BY <2>2 DEF RunTyped, Upcoming
<1> DEFINE read == IF c.reports THEN left ELSE Absent
           x == [exit |-> exit, output |-> output, report |-> read]
<1>4. output \in Docs /\ left \in Docs /\ read \in Docs
  <2>1. Documents(c.tool, Upcoming) \subseteq Docs
    BY <1>3, DocumentsAreDocs
  <2>2. Absent \in Docs
    BY DEF Docs, Forms, Levels, Absent
  <2> QED
    BY <1>2, <2>1, <2>2 DEF RunTyped
<1> HIDE DEF c, read
<1>5. x \in Analyses /\ x.exit # "none"
  <2>1. exit \in {"none", "expected", "other"} /\ exit # "none"
    BY <1>2
  <2>2. x \in Analyses
    BY <1>4, <2>1, Zenon DEF Analyses
  <2> QED
    BY <2>1, <2>2
<1>6. analyses' = Append(analyses, x)
  BY <1>2 DEF read
<1> HIDE DEF x
<1>7. /\ analyses' \in Seq(Analyses) /\ analyses' # <<>> /\ Len(analyses') = Len(analyses) + 1
      /\ analyses'[Len(analyses')] = x /\ DOMAIN analyses' = DOMAIN analyses \cup {Len(analyses')}
      /\ \A i \in DOMAIN analyses :
           /\ analyses'[i] = analyses[i] /\ i # Len(analyses')
           /\ Condemned(i)' = Condemned(i) /\ Analyzed(i)' = Analyzed(i)
  BY <1>1, <1>5, <1>6, EarlierStay DEF RunTyped
<1>8. Failing' = Failing
  BY <1>1 DEF Failing
<1>9. RunTyped'
  BY <1>1, <1>2, <1>4, <1>5, <1>7 DEF RunTyped
<1>10. \A i \in DOMAIN analyses' : i # Len(analyses') /\ Condemned(i)' => Failing' # {}
  BY <1>1, <1>7, <1>8 DEF FailuresTell
<1>11. formal.requires = "" /\ Failing' # {} => \E i \in DOMAIN analyses' : Analyzed(i)' /\ ~formal.cases[i].advisory
  BY <1>1, <1>7, <1>8 DEF FailuresTell
<1> QED
  BY <1>1, <1>8, <1>9, <1>10, <1>11 DEF FailuresTell

\* Judging an analysis keeps the invariant of a formal run.
LEMMA JudgementTells == RunTyped /\ FailuresTell /\ JudgeAnalysis => RunTyped' /\ FailuresTell'
<1> SUFFICES ASSUME RunTyped, FailuresTell, JudgeAnalysis PROVE RunTyped' /\ FailuresTell'
  OBVIOUS
<1> DEFINE n == Len(analyses)
           a == analyses[n]
           c == Case
           new == JudgedFindings(c, a)
<1>1. /\ formalPart = "judge" /\ formalPart' = "case" /\ Adds(new)
      /\ UNCHANGED <<formal, report, analyses, summary>>
  BY DEF JudgeAnalysis
<1>2. /\ IsFiniteSet(new)
      /\ ~c.advisory /\ a.exit # "expected" => \E r \in new : r[3] = "fail"
      /\ ~c.advisory /\ Blocking(c, FindingsOf(a, c.tool)) # {} => \E r \in new : r[3] = "fail"
      /\ formal.requires = "" /\ c.advisory => \A r \in new : r[3] # "fail"
  BY JudgedAdds
<1>3. n \in DOMAIN analyses /\ a \in Analyses /\ a.exit # "none" /\ c = formal.cases[n]
  BY <1>1 DEF RunTyped, Case
<1>4. Condemned(n) => \E r \in new : r[3] = "fail"
  <2>1. CASE a.exit = "other"
    BY <1>2, <1>3, <2>1 DEF Condemned
  <2>2. ASSUME ~c.advisory, NEW d \in OwnWords(n), NEW p \in Policy(c),
               Cardinality(OwnWords(n)) = 1, d.level # "none", RankOf[d.level] >= RankOf[p]
        PROVE  \E r \in new : r[3] = "fail"
    <3>1. OwnWords(n) = {x \in {a.output, a.report} : x.form = "own" \/ x.form = "lines"}
      BY DEF OwnWords
    <3>2. d \in {a.output, a.report} /\ (d.form = "own" \/ d.form = "lines")
      BY <3>1
    <3> HIDE DEF a, c, n, new
    <3>3. Blocking(c, FindingsOf(a, c.tool)) # {}
      BY <1>3, <2>2, <3>1, <3>2, ForbiddenWordsBlock
    <3> QED
      BY <1>2, <2>2, <3>3
  <2>3. CASE Condemned(n) /\ a.exit # "other"
    BY <1>3, <2>2, <2>3 DEF Condemned
  <2> QED
    BY <2>1, <2>3
<1>5. Analyzed(n)
  BY <1>3 DEF Analyzed
<1> HIDE DEF new
<1>6. /\ IsFiniteSet(records') /\ (example' = <<>> <=> Failing' = {})
      /\ Failing' = Failing \cup {r \in new : r[3] = "fail"}
  BY <1>1, <1>2, AddsFailures DEF FailuresTell
<1>7. \A i : Condemned(i)' = Condemned(i) /\ Analyzed(i)' = Analyzed(i)
  BY <1>1 DEF Condemned, Analyzed, OwnWords, Policy
<1>8. \A i \in DOMAIN analyses : Condemned(i) => Failing' # {}
  <2>1. \A i \in DOMAIN analyses : i # n /\ Condemned(i) => Failing # {}
    BY DEF FailuresTell
  <2> HIDE DEF n
  <2> QED
    BY <1>4, <1>6, <2>1
<1>9. formal.requires = "" /\ Failing' # {} => \E i \in DOMAIN analyses : Analyzed(i) /\ ~formal.cases[i].advisory
  <2>1. CASE Failing # {}
    BY <1>1, <2>1 DEF FailuresTell
  <2>2. CASE \E r \in new : r[3] = "fail"
    BY <1>2, <1>3, <1>5, <2>2
  <2> QED
    BY <1>6, <2>1, <2>2
<1>10. RunTyped'
  BY <1>1 DEF RunTyped
<1> HIDE DEF n, a, c
<1> QED
  BY <1>1, <1>6, <1>7, <1>8, <1>9, <1>10 DEF FailuresTell

\* The summary keeps the invariant of a formal run.
LEMMA PublishTells == RunTyped /\ FailuresTell /\ PublishReports => RunTyped' /\ FailuresTell'
<1> SUFFICES ASSUME RunTyped, FailuresTell, PublishReports PROVE RunTyped' /\ FailuresTell'
  OBVIOUS
<1>1. /\ formalPart = "case" /\ formalPart' = "done"
      /\ summary'.fails = Cardinality(Failing)
      /\ summary'.status = IF example = <<>> THEN "pass" ELSE "fail"
      /\ UNCHANGED <<formal, report, analyses, records, example>>
  BY DEF PublishReports, Failing
<1>2. Failing' = Failing /\ \A i : Condemned(i)' = Condemned(i) /\ Analyzed(i)' = Analyzed(i)
  BY <1>1 DEF Failing, Condemned, Analyzed, OwnWords, Policy
<1>3. RunTyped'
  BY <1>1 DEF RunTyped
<1> QED
  BY <1>1, <1>2, <1>3 DEF FailuresTell

\* The verdict, the counted failures and the policy of a goal tell one story, for any
\* number of cases and whatever their analyzers print.
THEOREM VerdictsFollowThePolicy == FormalSpec => []VerdictFollowsPolicy
<1>1. RunTyped /\ FailuresTell /\ [FormalStep]_formalVars => RunTyped' /\ FailuresTell'
  <2> SUFFICES ASSUME RunTyped, FailuresTell, UNCHANGED formalVars PROVE RunTyped' /\ FailuresTell'
    BY SelectTells, PassTells, AnalyzerTells, JudgementTells, PublishTells DEF FormalStep
  <2>1. UNCHANGED <<formal, report, analyses, formalPart, records, example, summary>>
    BY DEF formalVars
  <2>2. Failing' = Failing /\ \A i : Condemned(i)' = Condemned(i) /\ Analyzed(i)' = Analyzed(i)
    BY <2>1 DEF Failing, Condemned, Analyzed, OwnWords, Policy
  <2> QED
    BY <2>1, <2>2 DEF RunTyped, FailuresTell
<1>2. RunTyped /\ FailuresTell => VerdictFollowsPolicy
  <2> SUFFICES ASSUME RunTyped, FailuresTell, formalPart = "done", NEW k \in DOMAIN analyses, Selected(k)
               PROVE  /\ summary.fails > 0 <=> summary.status = "fail"
                      /\ \A i \in DOMAIN analyses : Condemned(i) => summary.status = "fail"
                      /\ formal.requires = "" /\ (\A i \in DOMAIN analyses : Analyzed(i) => formal.cases[i].advisory)
                           => summary.status = "pass"
    BY DEF VerdictFollowsPolicy, Condemned
  <2>1. analyses # <<>>
    OBVIOUS
  <2>2. summary.fails = Cardinality(Failing) /\ summary.status = IF example = <<>> THEN "pass" ELSE "fail"
    BY <2>1 DEF FailuresTell
  <2>3. IsFiniteSet(Failing)
    <3>1. Failing \in SUBSET records
      BY DEF Failing
    <3> QED
      BY <3>1, FS_Subset DEF FailuresTell
  <2>4. Cardinality(Failing) \in Nat /\ (Cardinality(Failing) = 0 <=> Failing = {})
    BY <2>3, FS_CardinalityType, FS_EmptySet
  <2>5. summary.status = "fail" <=> Failing # {}
    BY <2>2 DEF FailuresTell
  <2>6. summary.status = "pass" <=> Failing = {}
    BY <2>2 DEF FailuresTell
  <2>7. \A i \in DOMAIN analyses : Condemned(i) => Failing # {}
    BY DEF FailuresTell
  <2>8. formal.requires = "" /\ Failing # {} => \E i \in DOMAIN analyses : Analyzed(i) /\ ~formal.cases[i].advisory
    BY <2>1 DEF FailuresTell
  <2>9. summary.fails > 0 <=> summary.status = "fail"
    BY <2>2, <2>4, <2>5
  <2>10. \A i \in DOMAIN analyses : Condemned(i) => summary.status = "fail"
    BY <2>5, <2>7
  <2>11. formal.requires = "" /\ (\A i \in DOMAIN analyses : Analyzed(i) => formal.cases[i].advisory)
           => summary.status = "pass"
    BY <2>6, <2>8
  <2> QED
    BY <2>9, <2>10, <2>11
<1> QED
  BY <1>1, <1>2, RunStarts, PTL DEF FormalSpec

(***************************** concurrency suite ***************************)

\* A sequence without its last element.
LEMMA WithoutLast ==
  ASSUME NEW S, NEW s \in Seq(S), s # <<>>
  PROVE  /\ Front(s) \in Seq(S) /\ Len(Front(s)) = Len(s) - 1 /\ Len(s) \in Nat \ {0}
         /\ \A k \in 1 .. Len(s) - 1 : Front(s)[k] = s[k]
<1>1. Len(s) \in Nat \ {0} /\ \A i \in 1 .. Len(s) - 1 : s[i] \in S
  OBVIOUS
<1> DEFINE f == SubSeq(s, 1, Len(s) - 1)
<1>2. /\ f \in Seq(S) /\ Len(f) = (IF 1 <= Len(s) - 1 THEN (Len(s) - 1) - 1 + 1 ELSE 0)
      /\ \A i \in 1 .. (Len(s) - 1) - 1 + 1 : f[i] = s[1 + i - 1]
  BY <1>1, SubSeqProperties
<1>3. Front(s) = f
  BY DEF Front
<1> HIDE DEF f
<1> QED
  BY <1>1, <1>2, <1>3

\* A sequence with one place taken out of it.
LEMMA Removed ==
  ASSUME NEW S, NEW s \in Seq(S), NEW i \in 1 .. Len(s)
  PROVE  /\ RemoveAt(s, i) \in Seq(S) /\ Len(RemoveAt(s, i)) = Len(s) - 1 /\ Len(s) \in Nat
         /\ \A k \in 1 .. Len(s) - 1 : RemoveAt(s, i)[k] = IF k < i THEN s[k] ELSE s[k + 1]
<1> DEFINE a == SubSeq(s, 1, i - 1)
           b == SubSeq(s, i + 1, Len(s))
<1>1. Len(s) \in Nat /\ i \in Int /\ \A k \in 1 .. Len(s) : s[k] \in S
  OBVIOUS
<1>2. a \in Seq(S) /\ Len(a) = i - 1 /\ \A k \in 1 .. i - 1 : a[k] = s[k]
  <2>1. /\ a \in Seq(S) /\ Len(a) = (IF 1 <= i - 1 THEN (i - 1) - 1 + 1 ELSE 0)
        /\ \A k \in 1 .. (i - 1) - 1 + 1 : a[k] = s[1 + k - 1]
    BY <1>1, SubSeqProperties
  <2> QED
    BY <1>1, <2>1
<1>3. b \in Seq(S) /\ Len(b) = Len(s) - i /\ \A k \in 1 .. Len(s) - i : b[k] = s[i + k]
  <2>1. /\ b \in Seq(S) /\ Len(b) = (IF i + 1 <= Len(s) THEN Len(s) - (i + 1) + 1 ELSE 0)
        /\ \A k \in 1 .. Len(s) - (i + 1) + 1 : b[k] = s[(i + 1) + k - 1]
    BY <1>1, SubSeqProperties
  <2> QED
    BY <1>1, <2>1
<1>4. RemoveAt(s, i) = a \o b
  BY DEF RemoveAt
<1> HIDE DEF a, b
<1>5. /\ a \o b \in Seq(S) /\ Len(a \o b) = Len(a) + Len(b)
      /\ \A k \in 1 .. Len(a) + Len(b) : (a \o b)[k] = IF k <= Len(a) THEN a[k] ELSE b[k - Len(a)]
  BY <1>2, <1>3, ConcatProperties
<1>6. ASSUME NEW k \in 1 .. Len(s) - 1 PROVE (a \o b)[k] = IF k < i THEN s[k] ELSE s[k + 1]
  <2>1. CASE k < i
    BY <1>1, <1>2, <1>3, <1>5, <2>1
  <2>2. CASE ~(k < i)
    <3>1. (a \o b)[k] = b[k - (i - 1)] /\ k - (i - 1) \in 1 .. Len(s) - i
      BY <1>1, <1>2, <1>3, <1>5, <2>2
    <3>2. i + (k - (i - 1)) = k + 1
      BY <1>1
    <3> QED
      BY <1>3, <2>2, <3>1, <3>2
  <2> QED
    BY <2>1, <2>2
<1> QED
  BY <1>1, <1>2, <1>3, <1>4, <1>5, <1>6

\* A sequence with an element put in at one place.
LEMMA Inserted ==
  ASSUME NEW S, NEW s \in Seq(S), NEW i \in 1 .. Len(s) + 1, NEW e \in S
  PROVE  /\ InsertAt(s, i, e) \in Seq(S) /\ Len(InsertAt(s, i, e)) = Len(s) + 1 /\ Len(s) \in Nat
         /\ \A k \in 1 .. Len(s) + 1 :
              InsertAt(s, i, e)[k] = IF k < i THEN s[k] ELSE IF k = i THEN e ELSE s[k - 1]
<1> DEFINE a == SubSeq(s, 1, i - 1)
           b == SubSeq(s, i, Len(s))
           c == a \o <<e>>
<1>1. Len(s) \in Nat /\ i \in Int /\ \A k \in 1 .. Len(s) : s[k] \in S
  OBVIOUS
<1>2. a \in Seq(S) /\ Len(a) = i - 1 /\ \A k \in 1 .. i - 1 : a[k] = s[k]
  <2>1. /\ a \in Seq(S) /\ Len(a) = (IF 1 <= i - 1 THEN (i - 1) - 1 + 1 ELSE 0)
        /\ \A k \in 1 .. (i - 1) - 1 + 1 : a[k] = s[1 + k - 1]
    BY <1>1, SubSeqProperties
  <2> QED
    BY <1>1, <2>1
<1>3. b \in Seq(S) /\ Len(b) = Len(s) - i + 1 /\ \A k \in 1 .. Len(s) - i + 1 : b[k] = s[i + k - 1]
  <2>1. /\ b \in Seq(S) /\ Len(b) = (IF i <= Len(s) THEN Len(s) - i + 1 ELSE 0)
        /\ \A k \in 1 .. Len(s) - i + 1 : b[k] = s[i + k - 1]
    BY <1>1, SubSeqProperties
  <2> QED
    BY <1>1, <2>1
<1>4. InsertAt(s, i, e) = c \o b
  BY DEF InsertAt
<1>5. <<e>> \in Seq(S) /\ Len(<<e>>) = 1 /\ <<e>>[1] = e
  OBVIOUS
<1> HIDE DEF a, b
<1>6. /\ c \in Seq(S) /\ Len(c) = i
      /\ \A k \in 1 .. i : c[k] = IF k < i THEN s[k] ELSE e
  <2>1. /\ c \in Seq(S) /\ Len(c) = Len(a) + Len(<<e>>)
        /\ \A k \in 1 .. Len(a) + Len(<<e>>) : c[k] = IF k <= Len(a) THEN a[k] ELSE <<e>>[k - Len(a)]
    BY <1>2, <1>5, ConcatProperties
  <2> HIDE DEF c
  <2>2. ASSUME NEW k \in 1 .. i PROVE c[k] = IF k < i THEN s[k] ELSE e
    <3>1. CASE k < i
      BY <1>1, <1>2, <1>5, <2>1, <3>1
    <3>2. CASE k = i
      BY <1>1, <1>2, <1>5, <2>1, <3>2
    <3> QED
      BY <3>1, <3>2
  <2> QED
    BY <1>1, <1>2, <1>5, <2>1, <2>2
<1> HIDE DEF c
<1>7. /\ c \o b \in Seq(S) /\ Len(c \o b) = Len(c) + Len(b)
      /\ \A k \in 1 .. Len(c) + Len(b) : (c \o b)[k] = IF k <= Len(c) THEN c[k] ELSE b[k - Len(c)]
  BY <1>3, <1>6, ConcatProperties
<1>8. ASSUME NEW k \in 1 .. Len(s) + 1
      PROVE  (c \o b)[k] = IF k < i THEN s[k] ELSE IF k = i THEN e ELSE s[k - 1]
  <2>1. CASE k <= i
    BY <1>1, <1>3, <1>6, <1>7, <2>1
  <2>2. CASE k > i
    <3>1. (c \o b)[k] = b[k - i] /\ k - i \in 1 .. Len(s) - i + 1
      BY <1>1, <1>3, <1>6, <1>7, <2>2
    <3> QED
      BY <1>1, <1>3, <2>2, <3>1
  <2>3. k <= i \/ k > i
    BY <1>1
  <2> QED
    BY <2>1, <2>2, <2>3, Zenon
<1> QED
  BY <1>1, <1>3, <1>4, <1>6, <1>7, <1>8

\* Every event has its one place in an order.
LEMMA OrderPlaces ==
  ASSUME NEW o \in Orders
  PROVE  /\ o \in Seq(Events) /\ Len(o) = NumEvents
         /\ \A e \in Events : /\ Place(o, e) \in Events /\ o[Place(o, e)] = e /\ Has(o, e)
                              /\ \A i \in Events : o[i] = e => i = Place(o, e)
<1>0. NumEvents \in Nat
  BY ScheduleAssumption
<1>1. o \in [Events -> Events] /\ \A i, j \in Events : i # j => o[i] # o[j]
  BY DEF Orders
<1>2. o \in Seq(Events) /\ Len(o) = NumEvents
  BY <1>0, <1>1 DEF Events
<1>3. IsFiniteSet(Events)
  BY <1>0, FS_Interval DEF Events
<1>4. o \in Injection(Events, Events)
  BY <1>1 DEF Injection, IsInjective
<1>5. o \in Surjection(Events, Events)
  BY <1>3, <1>4, FS_Injection
<1>6. \A e \in Events : \E i \in 1 .. Len(o) : o[i] = e
  BY <1>2, <1>5 DEF Surjection, Events
<1>7. ASSUME NEW e \in Events
      PROVE  /\ Place(o, e) \in Events /\ o[Place(o, e)] = e /\ Has(o, e)
             /\ \A i \in Events : o[i] = e => i = Place(o, e)
  <2>1. Place(o, e) \in 1 .. Len(o) /\ o[Place(o, e)] = e
    BY <1>6 DEF Place
  <2>2. Has(o, e)
    BY <1>6 DEF Has
  <2> QED
    BY <1>1, <1>2, <2>1, <2>2 DEF Events
<1> QED
  BY <1>2, <1>7

\* A call of walk: the events of the prefix and the rest are all the events, each once.
Calls ==
  {c \in [prefix : Seq(Events), rest : Seq(Events), at : Nat] :
     /\ c.at \in 1 .. Len(c.rest) + 1 /\ Len(c.prefix) + Len(c.rest) = NumEvents
     /\ \A i, j \in 1 .. Len(c.prefix) : c.prefix[i] = c.prefix[j] => i = j
     /\ \A i, j \in 1 .. Len(c.rest) : c.rest[i] = c.rest[j] => i = j
     /\ \A e \in Events : Has(c.prefix, e) <=> ~Has(c.rest, e)}

\* What a call of walk will still find: the orders it has not tried that obey the constraints.
Ahead(o, c) ==
  /\ \A i \in 1 .. Len(c.prefix) : o[i] = c.prefix[i]
  /\ c.rest # <<>> => \E j \in c.at .. Len(c.rest) : o[Len(c.prefix) + 1] = c.rest[j]
Left(c) == {o \in Extensions : Ahead(o, c)}

\* A call with nothing left to place finds its prefix, if that obeys the constraints.
LEMMA CompletedCall ==
  ASSUME NEW c \in Calls, c.rest = <<>>
  PROVE  Left(c) = IF Satisfies(c.prefix) THEN {c.prefix} ELSE {}
<1>0. NumEvents \in Nat /\ c.prefix \in Seq(Events) /\ Len(c.prefix) = NumEvents
  BY ScheduleAssumption DEF Calls
<1>1. c.prefix \in [Events -> Events]
  BY <1>0 DEF Events
<1>2. c.prefix \in Orders
  BY <1>0, <1>1 DEF Calls, Orders, Events
<1>3. ASSUME NEW o \in Orders, Ahead(o, c) PROVE o = c.prefix
  <2>1. o \in [Events -> Events] /\ \A i \in Events : o[i] = c.prefix[i]
    BY <1>0, <1>3 DEF Ahead, Orders, Events
  <2> QED
    BY <1>1, <2>1
<1>4. Ahead(c.prefix, c)
  BY DEF Ahead
<1> QED
  BY <1>2, <1>3, <1>4 DEF Left, Extensions

\* A call whose loop is over finds nothing more.
LEMMA ExhaustedCall ==
  ASSUME NEW c \in Calls, c.rest # <<>>, c.at > Len(c.rest)
  PROVE  Left(c) = {}
<1>1. c.at \in Nat /\ Len(c.rest) \in Nat
  BY DEF Calls
<1> QED
  BY <1>1 DEF Left, Ahead

\* The event tried, and what is left to try.
Advanced(c) == [c EXCEPT !.at = c.at + 1]

\* What a call will still find is what it finds after the event at `at`, or with it.
LEMMA AdvancedCall ==
  ASSUME NEW c \in Calls, c.at <= Len(c.rest)
  PROVE  /\ Advanced(c) \in Calls /\ c.rest # <<>> /\ c.at \in 1 .. Len(c.rest)
         /\ \A o : o \in Left(c) <=> \/ o \in Left(Advanced(c))
                                     \/ /\ o \in Extensions /\ o[Len(c.prefix) + 1] = c.rest[c.at]
                                        /\ \A i \in 1 .. Len(c.prefix) : o[i] = c.prefix[i]
<1>1. /\ c.at \in 1 .. Len(c.rest) /\ Len(c.rest) \in Nat /\ c.rest # <<>>
      /\ c.rest \in Seq(Events) /\ c.prefix \in Seq(Events) /\ c.at + 1 \in Nat
  BY DEF Calls
<1>2. Advanced(c) = [prefix |-> c.prefix, rest |-> c.rest, at |-> c.at + 1]
  BY DEF Calls, Advanced
<1>3. Advanced(c) \in Calls
  BY <1>1, <1>2 DEF Calls
<1>4. \A j : j \in c.at .. Len(c.rest) <=> j = c.at \/ j \in c.at + 1 .. Len(c.rest)
  BY <1>1
<1> QED
  BY <1>1, <1>2, <1>3, <1>4 DEF Left, Ahead

\* One event more is placed, and one fewer left to place.
LEMMA OneMorePlaced ==
  ASSUME NEW n \in Nat, NEW m \in Nat, NEW k \in 1 .. m, n + m = NumEvents
  PROVE  /\ (n + 1) + (m - 1) = NumEvents /\ 1 \in 1 .. (m - 1) + 1 /\ n + 1 \in Events
         /\ m - 1 # 0 => n + 2 \in Events
<1>1. m >= 1 /\ NumEvents \in Nat /\ NumEvents = n + m
  BY ScheduleAssumption
<1> QED
  BY <1>1 DEF Events

\* No order that obeys the constraints has an event where the search skips it.
LEMMA PrunedCall ==
  ASSUME NEW c \in Calls, c.at <= Len(c.rest), test.before \in Seq(Pairs),
         Impossible(c.rest[c.at], c.rest)
  PROVE  Left(c) = Left(Advanced(c))
<1> DEFINE e == c.rest[c.at]
<1>1. /\ c.at \in 1 .. Len(c.rest) /\ c.prefix \in Seq(Events) /\ e \in Events
      /\ Len(c.prefix) \in Nat /\ Len(c.prefix) + 1 \in Events
  <2>1. /\ c.at \in 1 .. Len(c.rest) /\ c.prefix \in Seq(Events) /\ c.rest \in Seq(Events)
        /\ Len(c.prefix) + Len(c.rest) = NumEvents
    BY AdvancedCall DEF Calls
  <2>2. Len(c.prefix) \in Nat /\ Len(c.rest) \in Nat /\ e \in Events
    BY <2>1
  <2> HIDE DEF e
  <2>3. Len(c.prefix) + 1 \in Events
    BY <2>1, <2>2, OneMorePlaced
  <2> QED
    BY <2>1, <2>2, <2>3
<1>2. PICK k \in 1 .. Len(test.before) : test.before[k][2] = e /\ Has(c.rest, test.before[k][1])
  BY DEF Impossible
<1> DEFINE a == test.before[k][1]
<1>3. a \in Events /\ a # e
  BY <1>2 DEF Pairs
<1>4. ~Has(c.prefix, a)
  BY <1>2, <1>3 DEF Calls
<1> HIDE DEF e
<1>5. ASSUME NEW o \in Extensions, o[Len(c.prefix) + 1] = e,
             \A i \in 1 .. Len(c.prefix) : o[i] = c.prefix[i]
      PROVE  FALSE
  <2>1. o \in Orders /\ Satisfies(o)
    BY DEF Extensions
  <2>2. Place(o, e) = Len(c.prefix) + 1 /\ Has(o, e) /\ Has(o, a)
    BY <1>1, <1>3, <1>5, <2>1, OrderPlaces
  <2>3. Place(o, a) < Place(o, e)
    BY <1>2, <2>1, <2>2 DEF Satisfies
  <2>4. Place(o, a) \in 1 .. Len(c.prefix) /\ o[Place(o, a)] = a
    <3>1. Place(o, a) \in Events /\ o[Place(o, a)] = a
      BY <1>3, <2>1, OrderPlaces
    <3>2. Place(o, a) \in Nat \ {0} /\ Place(o, a) < Len(c.prefix) + 1
      BY <2>2, <2>3, <3>1 DEF Events
    <3> QED
      BY <1>1, <3>1, <3>2
  <2>5. Has(c.prefix, a)
    BY <1>5, <2>4 DEF Has
  <2> QED
    BY <1>4, <2>5
<1>6. \A o : o \in Left(c) <=> \/ o \in Left(Advanced(c))
                            \/ /\ o \in Extensions /\ o[Len(c.prefix) + 1] = e
                               /\ \A i \in 1 .. Len(c.prefix) : o[i] = c.prefix[i]
  BY AdvancedCall DEF e
<1>7. \A o : o \in Left(c) <=> o \in Left(Advanced(c))
  BY <1>5, <1>6
<1> QED
  BY <1>7

\* A call and the one it makes for an event: together they find what the first would,
\* and none of it twice.
LEMMA ChildCall ==
  ASSUME NEW c \in Calls, c.at <= Len(c.rest)
  PROVE  /\ Child(c) \in Calls
         /\ Left(c) = Left(Advanced(c)) \cup Left(Child(c))
         /\ Left(Advanced(c)) \cap Left(Child(c)) = {}
<1> DEFINE e == c.rest[c.at]
           n == Len(c.prefix)
           p == Append(c.prefix, e)
           r == RemoveAt(c.rest, c.at)
<1>1. /\ c.at \in 1 .. Len(c.rest) /\ c.prefix \in Seq(Events) /\ c.rest \in Seq(Events)
      /\ n + Len(c.rest) = NumEvents /\ n \in Nat /\ Len(c.rest) \in Nat /\ e \in Events
      /\ \A i, j \in 1 .. n : c.prefix[i] = c.prefix[j] => i = j
      /\ \A i, j \in 1 .. Len(c.rest) : c.rest[i] = c.rest[j] => i = j
      /\ \A x \in Events : Has(c.prefix, x) <=> ~Has(c.rest, x)
  BY AdvancedCall DEF Calls
<1>2. /\ p \in Seq(Events) /\ Len(p) = n + 1 /\ p[n + 1] = e
      /\ \A i \in 1 .. n : p[i] = c.prefix[i]
  BY <1>1, AppendProperties
<1>3. /\ r \in Seq(Events) /\ Len(r) = Len(c.rest) - 1
      /\ \A k \in 1 .. Len(c.rest) - 1 : r[k] = IF k < c.at THEN c.rest[k] ELSE c.rest[k + 1]
  BY <1>1, Removed
<1>4. Child(c) = [prefix |-> p, rest |-> r, at |-> 1]
  BY DEF Child
<1>5. Has(c.rest, e) /\ ~Has(c.prefix, e)
  BY <1>1 DEF Has
<1> HIDE DEF p, r, n, e
<1>6. \A i, j \in 1 .. Len(p) : p[i] = p[j] => i = j
  <2>1. \A i \in 1 .. Len(p) : i \in 1 .. n \/ i = n + 1
    BY <1>1, <1>2
  <2>2. \A i \in 1 .. n : c.prefix[i] # e
    BY <1>5 DEF Has, n
  <2> QED
    BY <1>1, <1>2, <2>1, <2>2
<1>7. \A k \in 1 .. Len(r) : \E j \in 1 .. Len(c.rest) : j # c.at /\ r[k] = c.rest[j] /\ j = IF k < c.at THEN k ELSE k + 1
  BY <1>1, <1>3
<1>8. \A i, j \in 1 .. Len(r) : r[i] = r[j] => i = j
  <2> SUFFICES ASSUME NEW i \in 1 .. Len(r), NEW j \in 1 .. Len(r), r[i] = r[j] PROVE i = j
    OBVIOUS
  <2>1. (IF i < c.at THEN i ELSE i + 1) = (IF j < c.at THEN j ELSE j + 1)
    BY <1>1, <1>7
  <2>2. i \in Nat /\ j \in Nat /\ c.at \in Nat
    BY <1>1, <1>3
  <2> QED
    BY <2>1, <2>2
<1>9. \A x \in Events : Has(r, x) <=> Has(c.rest, x) /\ x # e
  <2> SUFFICES ASSUME NEW x \in Events PROVE Has(r, x) <=> Has(c.rest, x) /\ x # e
    OBVIOUS
  <2>1. ASSUME Has(r, x) PROVE Has(c.rest, x) /\ x # e
    BY <1>1, <1>7, <2>1 DEF Has, e
  <2>2. ASSUME Has(c.rest, x), x # e PROVE Has(r, x)
    <3>1. PICK j \in 1 .. Len(c.rest) : c.rest[j] = x
      BY <2>2 DEF Has
    <3>2. j # c.at
      BY <2>2, <3>1 DEF e
    <3>3. CASE j < c.at
      <4>1. j \in 1 .. Len(r) /\ r[j] = x
        BY <1>1, <1>3, <3>1, <3>3
      <4> QED
        BY <4>1 DEF Has
    <3>4. CASE j > c.at
      <4>1. j - 1 \in 1 .. Len(r) /\ r[j - 1] = x
        BY <1>1, <1>3, <3>1, <3>4
      <4> QED
        BY <4>1 DEF Has
    <3>5. j < c.at \/ j > c.at
      BY <1>1, <3>2
    <3> QED
      BY <3>3, <3>4, <3>5
  <2> QED
    BY <2>1, <2>2
<1>10. \A x \in Events : Has(p, x) <=> Has(c.prefix, x) \/ x = e
  <2>1. \A i \in 1 .. Len(p) : i \in 1 .. n \/ i = n + 1
    BY <1>1, <1>2
  <2>2. 1 .. n \subseteq 1 .. Len(p) /\ n + 1 \in 1 .. Len(p)
    BY <1>1, <1>2
  <2> QED
    BY <1>2, <2>1, <2>2 DEF Has, n
<1>11. Child(c) \in Calls
  <2>1. Len(p) + Len(r) = NumEvents /\ 1 \in 1 .. Len(r) + 1
    <3>1. /\ c.at \in 1 .. Len(c.rest) /\ n + Len(c.rest) = NumEvents /\ n \in Nat /\ Len(c.rest) \in Nat
          /\ Len(p) = n + 1 /\ Len(r) = Len(c.rest) - 1
      BY <1>1, <1>2, <1>3
    <3>2. (n + 1) + (Len(c.rest) - 1) = NumEvents /\ 1 \in 1 .. (Len(c.rest) - 1) + 1
      BY <3>1, OneMorePlaced
    <3> QED
      BY <3>1, <3>2, Zenon
  <2>2. \A x \in Events : Has(p, x) <=> ~Has(r, x)
    BY <1>1, <1>5, <1>9, <1>10
  <2>3. Child(c) \in [prefix : Seq(Events), rest : Seq(Events), at : Nat]
    BY <1>2, <1>3, <1>4
  <2>4. Child(c).prefix = p /\ Child(c).rest = r /\ Child(c).at = 1
    BY <1>4
  <2> HIDE DEF Child
  <2> QED
    BY <1>6, <1>8, <2>1, <2>2, <2>3, <2>4 DEF Calls
<1>12. ASSUME NEW o \in Extensions
       PROVE  o \in Left(Child(c)) <=> o[n + 1] = e /\ \A i \in 1 .. n : o[i] = c.prefix[i]
  <2>1. (\A i \in 1 .. Len(p) : o[i] = p[i]) <=> o[n + 1] = e /\ \A i \in 1 .. n : o[i] = c.prefix[i]
    <3>1. \A i : i \in 1 .. Len(p) <=> i \in 1 .. n \/ i = n + 1
      BY <1>1, <1>2
    <3> QED
      BY <1>2, <3>1
  <2>2. ASSUME \A i \in 1 .. Len(p) : o[i] = p[i], r # <<>>
        PROVE  \E j \in 1 .. Len(r) : o[n + 2] = r[j]
    <3>1. Len(r) \in Nat \ {0} /\ n + 2 \in Events
      <4>1. Len(r) \in Nat /\ Len(r) # 0
        BY <1>3, <2>2
      <4>2. /\ n + Len(c.rest) = NumEvents /\ n \in Nat /\ Len(c.rest) \in Nat
            /\ c.at \in 1 .. Len(c.rest) /\ Len(r) = Len(c.rest) - 1
        BY <1>1, <1>3
      <4> QED
        BY <4>1, <4>2, OneMorePlaced
    <3>2. o \in [Events -> Events] /\ \A i, j \in Events : i # j => o[i] # o[j]
      BY DEF Extensions, Orders
    <3>3. ~Has(p, o[n + 2])
      <4>1. ASSUME NEW i \in 1 .. Len(p), p[i] = o[n + 2] PROVE FALSE
        <5>1. i \in Events /\ i # n + 2
          BY <1>1, <1>2, <3>1 DEF Events
        <5> QED
          BY <2>2, <3>1, <3>2, <4>1, <5>1
      <4> QED
        BY <4>1 DEF Has
    <3>4. Has(r, o[n + 2])
      BY <1>1, <1>5, <1>9, <1>10, <3>1, <3>2, <3>3
    <3> QED
      BY <3>4 DEF Has
  <2>3. Ahead(o, Child(c)) <=> /\ \A i \in 1 .. Len(p) : o[i] = p[i]
                               /\ r # <<>> => \E j \in 1 .. Len(r) : o[n + 2] = r[j]
    <3>1. Len(p) + 1 = n + 2
      BY <1>1, <1>2
    <3> QED
      BY <1>4, <3>1 DEF Ahead
  <2> QED
    BY <2>1, <2>2, <2>3 DEF Left
<1>13. \A o : o \in Left(c) <=> \/ o \in Left(Advanced(c))
                             \/ /\ o \in Extensions /\ o[n + 1] = e
                                /\ \A i \in 1 .. n : o[i] = c.prefix[i]
  BY AdvancedCall DEF e, n
<1>14. Left(Child(c)) \subseteq Extensions
  BY DEF Left
<1>15. \A o : o \in Left(c) <=> o \in Left(Advanced(c)) \/ o \in Left(Child(c))
  BY <1>12, <1>13, <1>14
<1>16. ASSUME NEW o \in Left(Advanced(c)), o \in Left(Child(c)) PROVE FALSE
  <2>1. o[n + 1] = e
    BY <1>12, <1>14, <1>16
  <2>2. Advanced(c) = [prefix |-> c.prefix, rest |-> c.rest, at |-> c.at + 1] /\ c.rest # <<>>
    <3>1. c.rest # <<>>
      BY AdvancedCall
    <3> QED
      BY <3>1 DEF Calls, Advanced
  <2>3. PICK j \in c.at + 1 .. Len(c.rest) : o[n + 1] = c.rest[j]
    BY <2>2 DEF Left, Ahead, n
  <2>4. j \in 1 .. Len(c.rest) /\ j # c.at
    BY <1>1, <2>3
  <2>5. c.rest[j] = c.rest[c.at]
    BY <2>1, <2>3 DEF e
  <2> QED
    BY <1>1, <2>4, <2>5
<1> QED
  BY <1>11, <1>15, <1>16

\* Between two calls of walk: no order has been found twice, none that was found is
\* still ahead, no two open calls have the same one ahead, and none is missed.
Searched(walks, orders) ==
  /\ walks \in Seq(Calls) /\ orders \in Seq(Extensions)
  /\ \A i, j \in 1 .. Len(orders) : orders[i] = orders[j] => i = j
  /\ \A i \in 1 .. Len(orders) : \A k \in 1 .. Len(walks) : orders[i] \notin Left(walks[k])
  /\ \A j, k \in 1 .. Len(walks) : j # k => Left(walks[j]) \cap Left(walks[k]) = {}
  /\ \A o \in Extensions : Has(orders, o) \/ \E k \in 1 .. Len(walks) : o \in Left(walks[k])

\* A call that finds nothing more returns.
LEMMA ReturnSearched ==
  ASSUME NEW walks, NEW orders, Searched(walks, orders), walks # <<>>, Left(Last(walks)) = {}
  PROVE  Searched(Front(walks), orders)
<1>1. /\ Front(walks) \in Seq(Calls) /\ Len(Front(walks)) = Len(walks) - 1 /\ Len(walks) \in Nat \ {0}
      /\ \A k \in 1 .. Len(walks) - 1 : Front(walks)[k] = walks[k]
  BY WithoutLast DEF Searched
<1>2. Left(walks[Len(walks)]) = {}
  BY DEF Last
<1>3. \A k \in 1 .. Len(walks) : k \in 1 .. Len(Front(walks)) \/ k = Len(walks)
  BY <1>1
<1>4. \A k \in 1 .. Len(Front(walks)) : k \in 1 .. Len(walks) /\ Front(walks)[k] = walks[k]
  BY <1>1
<1> QED
  BY <1>1, <1>2, <1>3, <1>4 DEF Searched

\* A call that finds one order returns it.
LEMMA FindSearched ==
  ASSUME NEW walks, NEW orders, Searched(walks, orders), walks # <<>>,
         NEW x, Left(Last(walks)) = {x}
  PROVE  Searched(Front(walks), Append(orders, x))
<1> DEFINE n == Len(walks)
           m == Len(orders)
           more == Append(orders, x)
<1>1. /\ Front(walks) \in Seq(Calls) /\ Len(Front(walks)) = n - 1 /\ n \in Nat \ {0}
      /\ \A k \in 1 .. n - 1 : Front(walks)[k] = walks[k]
  BY WithoutLast DEF Searched
<1>2. Left(walks[n]) = {x}
  BY DEF Last
<1>3. x \in Extensions
  BY <1>2 DEF Left
<1>4. /\ more \in Seq(Extensions) /\ Len(more) = m + 1 /\ m \in Nat /\ more[m + 1] = x
      /\ \A i \in 1 .. m : more[i] = orders[i]
  BY <1>3, AppendProperties DEF Searched
<1>5. \A k \in 1 .. n : k \in 1 .. Len(Front(walks)) \/ k = n
  BY <1>1
<1>6. \A k \in 1 .. Len(Front(walks)) : k \in 1 .. n /\ k # n /\ Front(walks)[k] = walks[k]
  BY <1>1
<1>7. \A i \in 1 .. Len(more) : i \in 1 .. m \/ i = m + 1
  BY <1>4
<1>8. n \in 1 .. n /\ 1 .. m \subseteq 1 .. Len(more) /\ m + 1 \in 1 .. Len(more)
  BY <1>1, <1>4
<1> HIDE DEF n, m, more
<1>9. \A i \in 1 .. m : orders[i] # x
  BY <1>2, <1>8 DEF Searched, n, m
<1>10. \A i, j \in 1 .. Len(more) : more[i] = more[j] => i = j
  BY <1>4, <1>7, <1>9 DEF Searched, m
<1>11. \A k \in 1 .. Len(Front(walks)) : x \notin Left(Front(walks)[k])
  BY <1>2, <1>6, <1>8 DEF Searched, n
<1>12. \A i \in 1 .. Len(more) : \A k \in 1 .. Len(Front(walks)) : more[i] \notin Left(Front(walks)[k])
  BY <1>4, <1>6, <1>7, <1>11 DEF Searched, n, m
<1>13. \A j, k \in 1 .. Len(Front(walks)) : j # k => Left(Front(walks)[j]) \cap Left(Front(walks)[k]) = {}
  BY <1>6 DEF Searched, n
<1>14. ASSUME NEW o \in Extensions
       PROVE  Has(more, o) \/ \E k \in 1 .. Len(Front(walks)) : o \in Left(Front(walks)[k])
  <2>1. CASE Has(orders, o)
    BY <1>4, <1>8, <2>1 DEF Has, m
  <2>2. ASSUME NEW k \in 1 .. n, o \in Left(walks[k])
        PROVE  Has(more, o) \/ \E l \in 1 .. Len(Front(walks)) : o \in Left(Front(walks)[l])
    <3>1. CASE k = n
      BY <1>2, <1>4, <1>8, <2>2, <3>1 DEF Has
    <3>2. CASE k # n
      BY <1>5, <1>6, <2>2, <3>2
    <3> QED
      BY <3>1, <3>2
  <2> QED
    BY <2>1, <2>2 DEF Searched, n
<1> QED
  BY <1>1, <1>4, <1>10, <1>12, <1>13, <1>14 DEF Searched, more

\* A call goes on to its next event with the same orders ahead.
LEMMA SkipSearched ==
  ASSUME NEW walks, NEW orders, Searched(walks, orders), walks # <<>>,
         NEW a \in Calls, Left(Last(walks)) = Left(a)
  PROVE  Searched([walks EXCEPT ![Len(walks)] = a], orders)
<1> DEFINE n == Len(walks)
           others == [walks EXCEPT ![n] = a]
<1>1. walks \in Seq(Calls) /\ n \in 1 .. n /\ n \in Nat
  BY DEF Searched
<1>2. /\ others \in Seq(Calls) /\ Len(others) = n
      /\ \A k \in 1 .. n : others[k] = IF k = n THEN a ELSE walks[k]
  BY <1>1, ExceptSeq
<1>3. Left(walks[n]) = Left(a)
  BY DEF Last
<1> HIDE DEF others, n
<1>4. \A k \in 1 .. n : Left(others[k]) = Left(walks[k])
  BY <1>2, <1>3
<1> QED
  BY <1>2, <1>4 DEF Searched, others, n

\* A call that makes another one shares its orders with it.
LEMMA BranchSearched ==
  ASSUME NEW walks, NEW orders, Searched(walks, orders), walks # <<>>,
         NEW a \in Calls, NEW b \in Calls, Left(Last(walks)) = Left(a) \cup Left(b),
         Left(a) \cap Left(b) = {}
  PROVE  Searched(Append([walks EXCEPT ![Len(walks)] = a], b), orders)
<1> DEFINE n == Len(walks)
           others == [walks EXCEPT ![n] = a]
           more == Append(others, b)
<1>1. walks \in Seq(Calls) /\ n \in 1 .. n /\ n \in Nat
  BY DEF Searched
<1>2. /\ others \in Seq(Calls) /\ Len(others) = n
      /\ \A k \in 1 .. n : others[k] = IF k = n THEN a ELSE walks[k]
  BY <1>1, ExceptSeq
<1>3. Left(walks[n]) = Left(a) \cup Left(b)
  BY DEF Last
<1> HIDE DEF others, n
<1>4. /\ more \in Seq(Calls) /\ Len(more) = n + 1 /\ more[n + 1] = b
      /\ \A k \in 1 .. n : more[k] = others[k]
  BY <1>2, AppendProperties
<1> HIDE DEF more
<1>5. \A k \in 1 .. Len(more) : \/ k = n + 1 /\ more[k] = b
                                \/ k = n /\ more[k] = a
                                \/ k \in 1 .. n /\ k # n /\ more[k] = walks[k]
  <2>1. \A k \in 1 .. Len(more) : k = n + 1 \/ k \in 1 .. n
    BY <1>1, <1>4
  <2>2. \A k \in 1 .. n : more[k] = IF k = n THEN a ELSE walks[k]
    BY <1>2, <1>4
  <2> QED
    <3>1. \A k : k = n + 1 => more[k] = b
      BY <1>4
    <3>2. \A k \in 1 .. n : k # n => more[k] = walks[k]
      BY <2>2
    <3>3. n \in 1 .. n => more[n] = a
      BY <2>2
    <3> QED
      BY <1>1, <2>1, <3>1, <3>2, <3>3
<1>6. \A k \in 1 .. n : k \in 1 .. Len(more) /\ n + 1 \in 1 .. Len(more)
  BY <1>1, <1>4
<1>7. \A k \in 1 .. n : k # n => Left(walks[k]) \cap (Left(a) \cup Left(b)) = {}
  BY <1>1, <1>3 DEF Searched, n
<1>8. \A i \in 1 .. Len(orders) : orders[i] \notin Left(a) \cup Left(b)
  BY <1>1, <1>3 DEF Searched, n
<1>9. \A i \in 1 .. Len(orders) : \A k \in 1 .. Len(more) : orders[i] \notin Left(more[k])
  BY <1>5, <1>8 DEF Searched, n
<1>10. ASSUME NEW j \in 1 .. Len(more), NEW k \in 1 .. Len(more), j # k
       PROVE  Left(more[j]) \cap Left(more[k]) = {}
  <2>1. \A i, l \in 1 .. n : i # l => Left(walks[i]) \cap Left(walks[l]) = {}
    BY DEF Searched, n
  <2> QED
    BY <1>5, <1>7, <1>10, <2>1
<1>11. ASSUME NEW o \in Extensions
       PROVE  Has(orders, o) \/ \E k \in 1 .. Len(more) : o \in Left(more[k])
  <2>1. ASSUME NEW k \in 1 .. n, o \in Left(walks[k])
        PROVE  \E l \in 1 .. Len(more) : o \in Left(more[l])
    <3>1. CASE k = n
      BY <1>1, <1>2, <1>3, <1>4, <1>6, <2>1, <3>1
    <3>2. CASE k # n
      BY <1>2, <1>4, <1>6, <2>1, <3>2
    <3> QED
      BY <3>1, <3>2
  <2> QED
    BY <2>1 DEF Searched, n
<1>12. orders \in Seq(Extensions) /\ \A i, j \in 1 .. Len(orders) : orders[i] = orders[j] => i = j
  BY DEF Searched
<1> QED
  BY <1>4, <1>9, <1>10, <1>11, <1>12 DEF Searched, more, others, n

\* The search of a case, its repair and its plan.
CaseTyped ==
  /\ test.before \in Seq(Pairs) /\ test.limit \in Nat
  /\ test.declared \in Seq([id : {"d1", "sys-1"}, source : {"declared"}, order : Seq(Events)])
SearchInv ==
  /\ CaseTyped
  /\ TooMany => stack = <<>> /\ found = <<InOrder>>
  /\ ~TooMany => Searched(stack, found)
  /\ ~TooMany /\ doing # "walk" /\ Len(found) < test.limit => stack = <<>>

\* At first every order that obeys the constraints is ahead of the one open call, unless
\* there are too many events for a call.
LEMMA SearchBegins == ScheduleInit => SearchInv
<1> SUFFICES ASSUME ScheduleInit PROVE SearchInv
  OBVIOUS
<1> DEFINE root == [prefix |-> <<>>, rest |-> InOrder, at |-> 1]
<1>1. NumEvents \in Nat /\ NumEvents >= 1 /\ Limits \subseteq Nat
  BY ScheduleAssumption
<1>2. InOrder \in Seq(Events) /\ Len(InOrder) = NumEvents /\ \A e \in Events : InOrder[e] = e
  BY <1>1 DEF InOrder, Events
<1>3. Reverse(InOrder) \in Seq(Events)
  <2>1. \A i \in Events : NumEvents - i + 1 \in Events
    BY <1>1 DEF Events
  <2>2. Reverse(InOrder) = [i \in Events |-> InOrder[(NumEvents - i) + 1]]
    BY <1>2 DEF Reverse, Events
  <2>3. Reverse(InOrder) \in [Events -> Events]
    BY <1>2, <2>1, <2>2
  <2> QED
    BY <1>1, <2>3 DEF Events
<1>4. CaseTyped
  <2>1. test \in ScheduleCases
    BY DEF ScheduleInit
  <2>2. test.before \in UNION {[1 .. n -> Pairs] : n \in 0 .. MaxBefore} /\ test.limit \in Limits
    BY <2>1 DEF ScheduleCases
  <2>3. test.declared \in {<<>>, <<Schedule("d1", "declared", InOrder)>>,
                          <<Schedule("sys-1", "declared", Reverse(InOrder))>>}
    BY <2>1 DEF ScheduleCases
  <2>4. test.before \in Seq(Pairs)
    BY <2>2, ScheduleAssumption
  <2> DEFINE D == [id : {"d1", "sys-1"}, source : {"declared"}, order : Seq(Events)]
  <2>5. ASSUME NEW o \in Seq(Events)
        PROVE  Schedule("d1", "declared", o) \in D /\ Schedule("sys-1", "declared", o) \in D
    BY DEF Schedule
  <2>6. test.declared \in Seq(D)
    <3>1. Schedule("d1", "declared", InOrder) \in D /\ Schedule("sys-1", "declared", Reverse(InOrder)) \in D
      BY <1>2, <1>3, <2>5
    <3> HIDE DEF D
    <3>2. <<>> \in Seq(D) /\ \A x \in D : <<x>> \in Seq(D)
      OBVIOUS
    <3> QED
      BY <2>3, <3>1, <3>2, Zenon
  <2> QED
    BY <1>1, <2>2, <2>4, <2>6 DEF CaseTyped
<1>5. /\ doing = "walk"
      /\ IF TooMany THEN stack = <<>> /\ found = <<InOrder>> ELSE stack = <<root>> /\ found = <<>>
  BY DEF ScheduleInit
<1>6. root \in Calls
  <2>1. \A e \in Events : Has(InOrder, e)
    BY <1>2 DEF Has, Events
  <2>2. \A i, j \in 1 .. Len(InOrder) : InOrder[i] = InOrder[j] => i = j
    BY <1>2 DEF Events
  <2>3. \A e : ~Has(<<>>, e)
    BY DEF Has
  <2>4. <<>> \in Seq(Events) /\ Len(<<>>) = 0 /\ 1 \in 1 .. Len(InOrder) + 1 /\ 0 + NumEvents = NumEvents
    BY <1>1, <1>2
  <2> QED
    BY <1>2, <2>1, <2>2, <2>3, <2>4 DEF Calls
<1>7. Left(root) = Extensions
  <2>1. ASSUME NEW o \in Extensions PROVE Ahead(o, root)
    <3>1. o[1] \in Events
      BY <1>1 DEF Extensions, Orders, Events
    <3>2. o[1] \in 1 .. Len(InOrder) /\ o[1] = InOrder[o[1]]
      BY <1>2, <3>1 DEF Events
    <3> QED
      BY <3>2 DEF Ahead
  <2> QED
    BY <2>1 DEF Left
<1> HIDE DEF root
<1>8. Searched(<<root>>, <<>>)
  <2>1. <<root>> \in Seq(Calls) /\ Len(<<root>>) = 1 /\ <<root>>[1] = root /\ <<>> \in Seq(Extensions) /\ Len(<<>>) = 0
    BY <1>6
  <2> QED
    BY <1>7, <2>1 DEF Searched
<1> QED
  BY <1>4, <1>5, <1>8 DEF SearchInv

\* Every step of walk leaves each such order found or ahead, once.
LEMMA SearchStep == SearchInv /\ [ScheduleStep]_scheduleVars => SearchInv'
<1> SUFFICES ASSUME SearchInv, [ScheduleStep]_scheduleVars PROVE SearchInv'
  OBVIOUS
<1>0. /\ CaseTyped
      /\ ~TooMany => Searched(stack, found)
      /\ ~TooMany /\ doing # "walk" /\ Len(found) < test.limit => stack = <<>>
  BY DEF SearchInv
<1>1. UNCHANGED test
  BY DEF ScheduleStep, Walk, Draw, RepairPair, NextPass, BuildPlan, AddSchedule, PlanIsBuilt,
     RunSchedule, JudgeCase, scheduleVars
<1>2. CaseTyped' /\ TooMany' = TooMany
  BY <1>0, <1>1 DEF CaseTyped, TooMany
<1>t. CASE TooMany
  <2>1. stack = <<>> /\ found = <<InOrder>>
    BY <1>t DEF SearchInv
  <2>2. ~Walk
    BY <2>1 DEF Walk
  <2>3. UNCHANGED <<stack, found>>
    BY <2>2 DEF ScheduleStep, Draw, RepairPair, NextPass, BuildPlan, AddSchedule, PlanIsBuilt,
       RunSchedule, JudgeCase, scheduleVars, searchVars
  <2>4. InOrder' = InOrder
    BY DEF InOrder, Events
  <2> QED
    BY <1>2, <1>t, <2>1, <2>3, <2>4 DEF SearchInv
<1>n. SUFFICES ASSUME ~TooMany PROVE SearchInv'
  BY <1>t
<1>3. ASSUME Searched(stack', found') PROVE Searched(stack, found)'
  <2>1. \A o : Satisfies(o)' <=> Satisfies(o)
    BY <1>1 DEF Satisfies
  <2>2. Extensions' = Extensions
    BY <2>1 DEF Extensions
  <2>3. \A c : Left(c)' = Left(c)
    BY <2>2 DEF Left, Ahead
  <2> QED
    BY <1>3, <2>2, <2>3 DEF Searched
<1>4. CASE Walk
  <2> DEFINE call == Last(stack)
             advanced == [stack EXCEPT ![Len(stack)].at = call.at + 1]
  <2>1. doing = "walk" /\ stack # <<>> /\ UNCHANGED doing
    BY <1>4 DEF Walk
  <2>2. call \in Calls /\ stack \in Seq(Calls) /\ call = stack[Len(stack)]
    BY <1>0, <1>n, <2>1 DEF Searched, Last
  <2>3. advanced = [stack EXCEPT ![Len(stack)] = Advanced(call)]
    BY <2>2 DEF Advanced
  <2>4. \/ /\ call.rest = <<>> /\ stack' = Front(stack)
           /\ found' = IF Satisfies(call.prefix) THEN Append(found, call.prefix) ELSE found
        \/ call.rest # <<>> /\ call.at > Len(call.rest) /\ stack' = Front(stack) /\ UNCHANGED found
        \/ /\ call.at <= Len(call.rest) /\ UNCHANGED found
           /\ stack' = IF Impossible(call.rest[call.at], call.rest)
                         THEN advanced ELSE Append(advanced, Child(call))
    BY <1>4 DEF Walk
  <2> HIDE DEF call, advanced
  <2>5. CASE /\ call.rest = <<>> /\ stack' = Front(stack)
             /\ found' = IF Satisfies(call.prefix) THEN Append(found, call.prefix) ELSE found
    <3>1. Left(call) = IF Satisfies(call.prefix) THEN {call.prefix} ELSE {}
      BY <2>2, <2>5, CompletedCall
    <3>2. ASSUME Satisfies(call.prefix) PROVE Searched(stack', found')
      BY <1>0, <1>n, <2>1, <2>5, <3>1, <3>2, FindSearched DEF call
    <3>3. ASSUME ~Satisfies(call.prefix) PROVE Searched(stack', found')
      BY <1>0, <1>n, <2>1, <2>5, <3>1, <3>3, ReturnSearched DEF call
    <3>4. Searched(stack', found')
      BY <3>2, <3>3
    <3> QED
      BY <1>2, <1>3, <1>n, <2>1, <3>4 DEF SearchInv
  <2>6. CASE call.rest # <<>> /\ call.at > Len(call.rest) /\ stack' = Front(stack) /\ UNCHANGED found
    <3>1. Left(call) = {}
      BY <2>2, <2>6, ExhaustedCall
    <3>2. Searched(stack', found')
      BY <1>0, <1>n, <2>1, <2>6, <3>1, ReturnSearched DEF call
    <3> QED
      BY <1>2, <1>3, <1>n, <2>1, <3>2 DEF SearchInv
  <2>7. CASE /\ call.at <= Len(call.rest) /\ UNCHANGED found
             /\ stack' = IF Impossible(call.rest[call.at], call.rest)
                           THEN advanced ELSE Append(advanced, Child(call))
    <3>1. Advanced(call) \in Calls
      BY <2>2, <2>7, AdvancedCall
    <3>2. ASSUME Impossible(call.rest[call.at], call.rest) PROVE Searched(stack', found')
      <4>1. Left(call) = Left(Advanced(call))
        BY <1>0, <1>n, <2>2, <2>7, <3>2, PrunedCall DEF CaseTyped
      <4> QED
        BY <1>0, <1>n, <2>1, <2>3, <2>7, <3>1, <3>2, <4>1, SkipSearched DEF call
    <3>3. ASSUME ~Impossible(call.rest[call.at], call.rest) PROVE Searched(stack', found')
      <4>1. /\ Child(call) \in Calls /\ Left(call) = Left(Advanced(call)) \cup Left(Child(call))
            /\ Left(Advanced(call)) \cap Left(Child(call)) = {}
        BY <2>2, <2>7, ChildCall
      <4> QED
        BY <1>0, <1>n, <2>1, <2>3, <2>7, <3>1, <3>3, <4>1, BranchSearched DEF call
    <3>4. Searched(stack', found')
      BY <3>2, <3>3
    <3> QED
      BY <1>2, <1>3, <1>n, <2>1, <3>4 DEF SearchInv
  <2> QED
    BY <2>4, <2>5, <2>6, <2>7
<1>5. ASSUME UNCHANGED <<stack, found>>,
             doing' # "walk" /\ Len(found) < test.limit => doing # "walk" \/ stack = <<>>
      PROVE  SearchInv'
  <2>1. Searched(stack, found)'
    BY <1>0, <1>3, <1>5, <1>n
  <2> QED
    BY <1>0, <1>1, <1>2, <1>5, <1>n, <2>1 DEF SearchInv
<1>6. CASE Draw
  <2>1. Len(found) \in Nat /\ test.limit \in Nat
    BY <1>0 DEF Searched, CaseTyped
  <2> QED
    BY <1>5, <1>6, <2>1 DEF Draw, searchVars
<1>7. CASE RepairPair \/ NextPass \/ BuildPlan \/ AddSchedule \/ PlanIsBuilt \/ RunSchedule \/ JudgeCase
  BY <1>5, <1>7 DEF RepairPair, NextPass, BuildPlan, AddSchedule, PlanIsBuilt, RunSchedule, JudgeCase,
     searchVars
<1>8. CASE UNCHANGED scheduleVars
  BY <1>5, <1>8 DEF scheduleVars, searchVars
<1> QED
  BY <1>4, <1>6, <1>7, <1>8 DEF ScheduleStep

\* The search with its pruning finds each order that obeys the constraints once, and all
\* of them unless the limit stopped it, for any number of events that is explored at all,
\* any constraints and limit (enumerateOrders).
THEOREM SearchesAreExhaustive == ScheduleSpec => []ExplorationIsExhaustive
<1>1. SearchInv => ExplorationIsExhaustive
  <2> SUFFICES ASSUME SearchInv, doing # "walk", ~TooMany
               PROVE  /\ ToSet(found) \subseteq Extensions
                      /\ Len(found) = Cardinality(ToSet(found))
                      /\ Len(found) < test.limit => ToSet(found) = Extensions
    BY DEF ExplorationIsExhaustive
  <2>1. /\ found \in Seq(Extensions) /\ Len(found) \in Nat /\ DOMAIN found = 1 .. Len(found)
        /\ \A i, j \in 1 .. Len(found) : found[i] = found[j] => i = j
        /\ found \in [1 .. Len(found) -> Extensions]
    BY DEF SearchInv, Searched
  <2>2. ToSet(found) \subseteq Extensions
    BY <2>1 DEF ToSet
  <2>3. found \in Bijection(1 .. Len(found), ToSet(found))
    BY <2>1 DEF ToSet, Bijection, Injection, Surjection, IsInjective
  <2>4. Cardinality(ToSet(found)) = Len(found)
    <3>1. ExistsBijection(1 .. Len(found), ToSet(found))
      BY <2>3 DEF ExistsBijection
    <3> QED
      BY <2>1, <3>1, FS_CountingElements
  <2>5. ASSUME Len(found) < test.limit PROVE Extensions \subseteq ToSet(found)
    <3>1. stack = <<>> /\ Len(stack) = 0
      BY <2>5 DEF SearchInv
    <3>2. \A o \in Extensions : Has(found, o)
      BY <3>1 DEF SearchInv, Searched
    <3> QED
      BY <2>1, <3>2 DEF Has, ToSet
  <2> QED
    BY <2>2, <2>4, <2>5
<1> QED
  BY <1>1, SearchBegins, SearchStep, PTL DEF ScheduleSpec

\* Repairing a pair permutes the order.
LEMMA MovedIsOrder ==
  ASSUME NEW o \in Orders, NEW p \in Pairs, Violated(o, p)
  PROVE  Moved(o, p) \in Orders
<1> DEFINE x == Place(o, p[1])
           y == Place(o, p[2])
           r == RemoveAt(o, x)
           m == InsertAt(r, y, p[1])
           from(k) == IF k < y THEN k ELSE IF k = y THEN x ELSE IF k - 1 < x THEN k - 1 ELSE k
<1>1. /\ NumEvents \in Nat /\ o \in Seq(Events) /\ Len(o) = NumEvents /\ p[1] \in Events
      /\ x \in 1 .. NumEvents /\ y \in 1 .. NumEvents /\ o[x] = p[1] /\ y < x
  <2>1. p[1] \in Events /\ p[2] \in Events
    BY DEF Pairs
  <2>2. o \in Seq(Events) /\ Len(o) = NumEvents /\ x \in Events /\ y \in Events /\ o[x] = p[1]
    BY <2>1, OrderPlaces
  <2>3. x > y
    BY DEF Violated
  <2> HIDE DEF x, y
  <2>4. NumEvents \in Nat /\ Events = 1 .. NumEvents
    BY ScheduleAssumption DEF Events
  <2>5. y < x
    BY <2>2, <2>3, <2>4
  <2> QED
    BY <2>1, <2>2, <2>4, <2>5
<1> HIDE DEF x, y
<1>2. /\ r \in Seq(Events) /\ Len(r) = NumEvents - 1
      /\ \A k \in 1 .. NumEvents - 1 : r[k] = IF k < x THEN o[k] ELSE o[k + 1]
  BY <1>1, Removed
<1> HIDE DEF r
<1>3. y \in 1 .. Len(r) + 1 /\ Len(r) + 1 = NumEvents
  BY <1>1, <1>2
<1>4. /\ m \in Seq(Events) /\ Len(m) = Len(r) + 1
      /\ \A k \in 1 .. Len(r) + 1 : m[k] = IF k < y THEN r[k] ELSE IF k = y THEN p[1] ELSE r[k - 1]
  <2>1. r \in Seq(Events) /\ p[1] \in Events /\ y \in 1 .. Len(r) + 1
    BY <1>1, <1>2, <1>3
  <2> QED
    BY <2>1, Inserted, SMTT(40)
<1> HIDE DEF m
<1>5. \A k \in 1 .. NumEvents : from(k) \in 1 .. NumEvents
  BY <1>1
<1>6. ASSUME NEW k \in 1 .. NumEvents PROVE m[k] = o[from(k)]
  <2>1. m[k] = IF k < y THEN r[k] ELSE IF k = y THEN p[1] ELSE r[k - 1]
    BY <1>3, <1>4
  <2>2. CASE k < y
    <3>1. k \in 1 .. NumEvents - 1 /\ k < x
      BY <1>1, <2>2
    <3> QED
      BY <1>2, <2>1, <2>2, <3>1
  <2>3. CASE k = y
    BY <1>1, <2>1, <2>3
  <2>4. CASE k > y
    <3>1. k - 1 \in 1 .. NumEvents - 1 /\ (k - 1) + 1 = k /\ ~(k < y) /\ k # y
      BY <1>1, <2>4
    <3>2. r[k - 1] = IF k - 1 < x THEN o[k - 1] ELSE o[k]
      BY <1>2, <3>1
    <3> QED
      BY <2>1, <3>1, <3>2
  <2> QED
    BY <1>1, <2>2, <2>3, <2>4
<1>7. \A i, j \in 1 .. NumEvents : i # j => from(i) # from(j)
  BY <1>1
<1> HIDE DEF from
<1>8. \A i, j \in Events : i # j => o[i] # o[j]
  BY DEF Orders
<1>9. m \in [Events -> Events]
  BY <1>1, <1>3, <1>4 DEF Events
<1>10. \A i, j \in Events : i # j => m[i] # m[j]
  BY <1>5, <1>6, <1>7, <1>8 DEF Events
<1>11. Moved(o, p) = m
  BY DEF Moved, m, r, x, y
<1> QED
  BY <1>9, <1>10, <1>11 DEF Orders

\* An order that breaks no pair obeys the constraints.
LEMMA UnbrokenObeys ==
  ASSUME NEW o \in Orders, test.before \in Seq(Pairs),
         \A i \in 1 .. Len(test.before) : ~Violated(o, test.before[i])
  PROVE  Satisfies(o)
<1>1. ASSUME NEW i \in 1 .. Len(test.before)
      PROVE  Place(o, test.before[i][1]) < Place(o, test.before[i][2])
  <2> DEFINE p == test.before[i]
  <2>1. p[1] \in Events /\ p[2] \in Events /\ p[1] # p[2]
    BY DEF Pairs
  <2> HIDE DEF p
  <2>2. /\ Place(o, p[1]) \in Events /\ o[Place(o, p[1])] = p[1]
        /\ Place(o, p[2]) \in Events /\ o[Place(o, p[2])] = p[2]
    BY <2>1, OrderPlaces
  <2>3. Place(o, p[1]) # Place(o, p[2])
    BY <2>1, <2>2
  <2>4. ~(Place(o, p[1]) > Place(o, p[2]))
    BY DEF Violated, p
  <2>5. Place(o, p[1]) < Place(o, p[2])
    BY <2>2, <2>3, <2>4 DEF Events
  <2> QED
    BY <2>5 DEF p
<1> QED
  BY <1>1 DEF Satisfies

\* A schedule of the plan is declared, explored or the repaired one.
PlannedOnes ==
  {s \in [id : {"d1", "sys-1", "sys-2", "sys-3", "sys-n", "stress-1"},
          source : {"declared", "exploration", "stress"}, order : Seq(Events)] :
     /\ s.source = "exploration" /\ ~TooMany => s.order \in Extensions
     /\ s.source = "stress" => s.order = drawn}

\* Once a pass has changed nothing so far, the pairs behind it are in order.
RepairInv ==
  /\ doing # "walk" => drawn \in Orders
  /\ doing = "repair" => pairAt \in 1 .. Len(test.before) + 1
  /\ doing = "repair" /\ ~swapped =>
       \A i \in 1 .. Len(test.before) : i < pairAt => ~Violated(drawn, test.before[i])
  /\ doing \notin {"walk", "repair"} /\ ~swapped =>
       \A i \in 1 .. Len(test.before) : ~Violated(drawn, test.before[i])
  /\ plan \in Seq(PlannedOnes) /\ added \in Nat
  /\ doing \in {"walk", "repair"} => plan = <<>>

\* What uniqueByOrder goes through.
LEMMA CandidatesArePlanned ==
  ASSUME SearchInv, RepairInv, doing = "plan"
  PROVE  Candidates \in Seq(PlannedOnes)
<1>1. \A o \in Orders : o \in Seq(Events)
  BY OrderPlaces
<1>2. test.declared \in Seq(PlannedOnes)
  <2> DEFINE D == [id : {"d1", "sys-1"}, source : {"declared"}, order : Seq(Events)]
  <2>1. D \subseteq PlannedOnes
    BY DEF PlannedOnes
  <2>2. test.declared \in Seq(D)
    BY DEF SearchInv, CaseTyped
  <2> HIDE DEF D
  <2> QED
    BY <2>1, <2>2
<1>3. Explored \in Seq(PlannedOnes)
  <2>1. /\ Len(found) \in Nat
        /\ \A i \in 1 .. Len(found) : found[i] \in Orders /\ (~TooMany => found[i] \in Extensions)
    <3>1. CASE TooMany
      <4>1. found = <<InOrder>>
        BY <3>1 DEF SearchInv
      <4>2. InOrder \in Orders
        BY DEF InOrder, Orders
      <4> QED
        BY <3>1, <4>1, <4>2
    <3>2. CASE ~TooMany
      BY <3>2 DEF SearchInv, Searched, Extensions
    <3> QED
      BY <3>1, <3>2
  <2>2. \A i \in 1 .. Len(found) : found[i] \in Seq(Events)
    BY <1>1, <2>1
  <2>3. ExploredId[1] = "sys-1" /\ ExploredId[2] = "sys-2" /\ ExploredId[3] = "sys-3"
    BY DEF ExploredId
  <2>4. ASSUME NEW i \in 1 .. Len(found)
        PROVE  Schedule(IF i <= 3 THEN ExploredId[i] ELSE "sys-n", "exploration", found[i]) \in PlannedOnes
    <3>1. (IF i <= 3 THEN ExploredId[i] ELSE "sys-n") \in {"sys-1", "sys-2", "sys-3", "sys-n"}
      BY <2>1, <2>3
    <3> QED
      BY <2>1, <2>2, <3>1 DEF PlannedOnes, Schedule
  <2>5. Explored \in [1 .. Len(found) -> PlannedOnes]
    BY <2>4 DEF Explored
  <2> QED
    BY <2>1, <2>5
<1>4. <<Schedule("stress-1", "stress", drawn)>> \in Seq(PlannedOnes)
  <2>1. drawn \in Seq(Events)
    BY <1>1 DEF RepairInv
  <2>2. Schedule("stress-1", "stress", drawn) \in PlannedOnes
    BY <2>1 DEF PlannedOnes, Schedule
  <2> QED
    BY <2>2
<1>5. test.declared \o Explored \in Seq(PlannedOnes)
  BY <1>2, <1>3, ConcatProperties
<1>6. (test.declared \o Explored) \o <<Schedule("stress-1", "stress", drawn)>> \in Seq(PlannedOnes)
  BY <1>4, <1>5, ConcatProperties
<1> QED
  BY <1>6 DEF Candidates

\* Every step keeps the drawn order an order of all events, and in a pass without a move
\* the pairs behind it unbroken.
LEMMA RepairStep == SearchInv /\ RepairInv /\ [ScheduleStep]_scheduleVars => RepairInv'
<1> SUFFICES ASSUME SearchInv, RepairInv, [ScheduleStep]_scheduleVars PROVE RepairInv'
  OBVIOUS
<1>0. UNCHANGED test /\ test.before \in Seq(Pairs) /\ Len(test.before) \in Nat
  BY DEF ScheduleStep, Walk, Draw, RepairPair, NextPass, BuildPlan, AddSchedule, PlanIsBuilt,
     RunSchedule, JudgeCase, scheduleVars, SearchInv, CaseTyped
<1>a. \A o, i : Violated(o, test.before[i])' <=> Violated(o, test.before[i])
  BY <1>0 DEF Violated, Place
<1>b. UNCHANGED drawn => PlannedOnes' = PlannedOnes
  BY <1>0 DEF PlannedOnes, Extensions, Satisfies, TooMany
<1>c. <<>> \in Seq(PlannedOnes')
  OBVIOUS
<1>1. CASE Walk
  BY <1>1, <1>c DEF Walk, RepairInv, repairVars, resultVars
<1>2. CASE Draw
  BY <1>0, <1>2, <1>c DEF Draw, RepairInv, resultVars
<1>3. CASE RepairPair
  <2> DEFINE p == test.before[pairAt]
  <2>1. /\ doing = "repair" /\ UNCHANGED <<doing, plan, added>> /\ pairAt' = pairAt + 1
        /\ pairAt \in 1 .. Len(test.before) /\ drawn \in Orders /\ plan = <<>> /\ added \in Nat
    BY <1>0, <1>3 DEF RepairPair, resultVars, RepairInv
  <2>2. \/ Violated(drawn, p) /\ drawn' = Moved(drawn, p) /\ swapped' = TRUE
        \/ ~Violated(drawn, p) /\ UNCHANGED <<drawn, swapped>>
    BY <1>3 DEF RepairPair
  <2>3. p \in Pairs
    BY <1>0, <2>1
  <2>4. pairAt' \in 1 .. Len(test.before) + 1 /\ \A i \in Nat : i < pairAt' => i < pairAt \/ i = pairAt
    BY <1>0, <2>1
  <2> HIDE DEF p
  <2>5. CASE Violated(drawn, p) /\ drawn' = Moved(drawn, p) /\ swapped' = TRUE
    <3>1. drawn' \in Orders
      BY <2>1, <2>3, <2>5, MovedIsOrder
    <3> QED
      BY <1>0, <1>c, <2>1, <2>4, <2>5, <3>1 DEF RepairInv
  <2>6. CASE ~Violated(drawn, p) /\ UNCHANGED <<drawn, swapped>>
    <3>1. ASSUME ~swapped, NEW i \in 1 .. Len(test.before), i < pairAt' PROVE ~Violated(drawn, test.before[i])
      <4>1. i < pairAt \/ i = pairAt
        BY <2>4, <3>1
      <4> QED
        BY <2>1, <2>6, <3>1, <4>1 DEF RepairInv, p
    <3>2. ~swapped' => \A i \in 1 .. Len(test'.before) : i < pairAt' => ~Violated(drawn', test'.before[i])
      BY <1>0, <2>6, <3>1
    <3> QED
      BY <1>0, <1>a, <1>c, <2>1, <2>4, <2>6, <3>2 DEF RepairInv
  <2> QED
    BY <2>2, <2>5, <2>6
<1>4. CASE NextPass
  <2>1. /\ doing = "repair" /\ UNCHANGED <<doing, drawn, plan, added>> /\ pairAt' = 1 /\ drawn \in Orders
        /\ plan = <<>> /\ added \in Nat
    BY <1>4 DEF NextPass, RepairInv, resultVars
  <2>2. pairAt' \in 1 .. Len(test.before) + 1 /\ \A i \in 1 .. Len(test.before) : ~(i < pairAt')
    BY <1>0, <2>1
  <2> QED
    BY <1>0, <1>c, <2>1, <2>2 DEF RepairInv
<1>5. CASE BuildPlan
  <2>1. /\ doing = "repair" /\ doing' = "plan" /\ UNCHANGED <<drawn, plan, added, swapped>>
        /\ pairAt > Len(test.before)
    BY <1>5 DEF BuildPlan, resultVars, repairVars
  <2>2. \A i \in 1 .. Len(test.before) : i < pairAt
    BY <1>0, <2>1 DEF RepairInv
  <2> QED
    BY <1>0, <1>a, <1>b, <2>1, <2>2 DEF RepairInv
<1>6. ASSUME doing \notin {"walk", "repair"}, doing' \notin {"walk", "repair"}, UNCHANGED repairVars,
             plan' \in Seq(PlannedOnes), added' \in Nat
      PROVE  RepairInv'
  BY <1>0, <1>a, <1>b, <1>6 DEF RepairInv, repairVars
<1>7. CASE AddSchedule
  <2>1. /\ doing = "plan" /\ UNCHANGED <<doing, repairVars>> /\ added \in Nat /\ added' = added + 1
        /\ added < Len(Candidates)
        /\ plan' = plan \/ plan' = Append(plan, Candidates[added + 1])
        /\ plan \in Seq(PlannedOnes)
    BY <1>7 DEF AddSchedule, RepairInv
  <2>2. Candidates \in Seq(PlannedOnes)
    BY <2>1, CandidatesArePlanned
  <2>3. Candidates[added + 1] \in PlannedOnes
    <3>1. added + 1 \in 1 .. Len(Candidates)
      BY <2>1, <2>2
    <3> QED
      BY <2>2, <3>1
  <2>4. plan' \in Seq(PlannedOnes)
    BY <2>1, <2>3
  <2> QED
    BY <1>6, <2>1, <2>4
<1>8. CASE PlanIsBuilt \/ RunSchedule \/ JudgeCase
  BY <1>6, <1>8 DEF PlanIsBuilt, RunSchedule, JudgeCase, resultVars, RepairInv
<1>9. CASE UNCHANGED scheduleVars
  BY <1>0, <1>a, <1>b, <1>9 DEF scheduleVars, repairVars, resultVars, RepairInv
<1> QED
  BY <1>1, <1>2, <1>3, <1>4, <1>5, <1>7, <1>8, <1>9 DEF ScheduleStep

\* Every schedule made for a case obeys its constraints, for any number of events and
\* pairs, unless the guard of repairOrder ended a repair in a pass that still changed
\* the order; the schedules of the search only if the events are few enough for one.
THEOREM RepairedSchedulesObey == ScheduleSpec => [](~swapped => SchedulesObey)
<1>1. ScheduleInit => RepairInv
  BY DEF ScheduleInit, RepairInv
<1>2. SearchInv /\ RepairInv => (~swapped => SchedulesObey)
  <2> SUFFICES ASSUME SearchInv, RepairInv, ~swapped,
                      NEW i \in 1 .. Len(plan), plan[i].source # "declared",
                      plan[i].source = "exploration" => ~TooMany
               PROVE  Satisfies(plan[i].order)
    BY DEF SchedulesObey
  <2>1. plan \in Seq(PlannedOnes) /\ plan[i] \in PlannedOnes /\ plan # <<>>
    BY DEF RepairInv
  <2>2. CASE plan[i].source = "exploration" /\ ~TooMany
    BY <2>1, <2>2 DEF PlannedOnes, Extensions
  <2>3. CASE plan[i].source = "stress"
    <3>1. plan[i].order = drawn
      BY <2>1, <2>3 DEF PlannedOnes
    <3>2. drawn \in Orders /\ \A j \in 1 .. Len(test.before) : ~Violated(drawn, test.before[j])
      BY <2>1 DEF RepairInv
    <3> QED
      BY <3>1, <3>2, UnbrokenObeys DEF SearchInv, CaseTyped
  <2> QED
    BY <2>1, <2>2, <2>3 DEF PlannedOnes
<1> QED
  BY <1>1, <1>2, SearchBegins, SearchStep, RepairStep, PTL DEF ScheduleSpec
=============================================================================
