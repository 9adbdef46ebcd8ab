-------------------------- MODULE PerformanceSuite --------------------------
(* One case of the performance suite (goal_performance_suite.cjs): the       *)
(* server that is started for it and polled until it answers (waitForUrl),   *)
(* the alternating samples of baseline and candidate, the baseline file, the *)
(* two judgements against a baseline, and the `finally` that stops the       *)
(* server.  One metric, to be minimised; times are samples of it.            *)
EXTENDS Naturals, Sequences, FiniteSets

CONSTANTS
  Times, NoBase,   \* values of the metric; no baseline
  Repeat,          \* samples of a case
  Deadline,        \* clock ticks until the readiness wait gives up
  MaxProbes        \* probes of one wait (bound of the model: the code has none)

ASSUME PerformanceAssumption ==
  /\ Times \subseteq Nat /\ IsFiniteSet(Times) /\ NoBase \notin Nat
  /\ Repeat \in Nat \ {0} /\ Deadline \in Nat /\ MaxProbes \in Nat \ {0}

VARIABLES
  bench,      \* what goal and case declare
  place,      \* where verifyOneCase is
  server,     \* the process group of the serve command
  clock, ready, flying, pausing,   \* waitForUrl: the promise, open requests, timers
  times, baseTimes,                \* samples, and those of the baseline command
  file,       \* the baseline file
  broken,     \* obligations that failed
  guard, claim   \* verdicts of the two comparisons

probeVars == <<clock, ready, flying, pausing>>
sampleVars == <<times, baseTimes>>
benchVars == <<file, broken, guard, claim>>
performanceVars == <<bench, place, server, probeVars, sampleVars, benchVars>>

Benches ==
  {b \in [serves : BOOLEAN, url : {"none", "good", "malformed"}, paired : BOOLEAN,
          goalBase : Times \cup {NoBase}, freezes : BOOLEAN] : b.url # "none" => b.serves}

PerformanceInit ==
  /\ bench \in Benches
  /\ file \in Times \cup {NoBase}
  /\ place = "setup" /\ server = "none"
  /\ clock = 0 /\ ready = "idle" /\ flying = 0 /\ pausing = 0
  /\ times = <<>> /\ baseTimes = <<>>
  /\ broken = {} /\ guard = "none" /\ claim = "none"

Goes(p) == place' = p

(********************************* the server *******************************)

\* A failing setup hook is a failure, and the case goes on.
BenchSetup ==
  /\ place = "setup" /\ Goes("serve")
  /\ UNCHANGED broken \/ broken' = broken \cup {"setup"}
  /\ UNCHANGED <<bench, server, probeVars, sampleVars, file, guard, claim>>

\* The server is not yet under the `finally`; a malformed URL throws out of the case.
StartServe ==
  /\ place = "serve"
  /\ server' = IF bench.serves THEN "running" ELSE "none"
  /\ CASE bench.url = "good" -> Goes("wait") /\ ready' = "waiting" /\ flying' = 1
       [] bench.url = "malformed" -> Goes("thrown") /\ UNCHANGED <<ready, flying>>
       [] OTHER -> Goes("measure") /\ UNCHANGED <<ready, flying>>
  /\ UNCHANGED <<bench, clock, pausing, sampleVars, benchVars>>

\* The server may die by itself at any time.
ServerDies ==
  /\ server = "running" /\ server' = "none"
  /\ UNCHANGED <<bench, place, probeVars, sampleVars, benchVars>>

Settle(r) == ready' = IF ready = "waiting" THEN r ELSE ready
\* retry(): gives up behind the deadline, else the next attempt is in 250 ms.
Retry(n) ==
  IF clock >= Deadline THEN Settle("no") /\ UNCHANGED pausing
                       ELSE pausing' = pausing + n /\ UNCHANGED ready
waitFrame == <<bench, place, server, sampleVars, benchVars>>

Attempt ==
  /\ pausing > 0 /\ pausing' = pausing - 1 /\ flying' = flying + 1
  /\ UNCHANGED <<clock, ready, waitFrame>>
AnswerBelow500 ==
  /\ flying > 0 /\ server = "running" /\ flying' = flying - 1 /\ Settle("yes")
  /\ UNCHANGED <<clock, pausing, waitFrame>>
\* A status of 500 or a failing connection.
AnswerBad ==
  /\ flying > 0 /\ flying' = flying - 1 /\ Retry(1)
  /\ UNCHANGED <<clock, waitFrame>>
\* After three seconds the request is destroyed, which is an 'error' too: two retries.
ProbeTimeout ==
  /\ flying > 0 /\ flying + pausing < MaxProbes
  /\ flying' = flying - 1 /\ Retry(2)
  /\ UNCHANGED <<clock, waitFrame>>
Tick ==
  /\ ready # "idle" /\ flying + pausing > 0 /\ clock < Deadline /\ clock' = clock + 1
  /\ UNCHANGED <<ready, flying, pausing, waitFrame>>

\* Whether the server was ready is noted in the trace and not looked at.
WaitOver ==
  /\ place = "wait" /\ ready \in {"yes", "no"} /\ Goes("measure")
  /\ UNCHANGED <<bench, server, probeVars, sampleVars, benchVars>>

(********************************* the samples ******************************)

\* One round: the baseline command, whose exit code is not looked at, then the
\* candidate's, whose wrong exit code ends the rounds.
Measure ==
  /\ place = "measure" /\ Len(times) < Repeat /\ "metric_capture" \notin broken
  /\ \E t \in Times : times' = Append(times, t)
  /\ IF bench.paired THEN \E t \in Times : baseTimes' = Append(baseTimes, t) ELSE UNCHANGED baseTimes
  /\ UNCHANGED broken \/ broken' = broken \cup {"metric_capture"}
  /\ UNCHANGED <<bench, place, server, probeVars, file, guard, claim>>

\* percentile(sorted, 0.5): the element at ceil(n / 2).
Median(s) == CHOOSE t \in {s[i] : i \in 1 .. Len(s)} :
               /\ 2 * Cardinality({i \in 1 .. Len(s) : s[i] < t}) < Len(s)
               /\ 2 * Cardinality({i \in 1 .. Len(s) : s[i] <= t}) >= Len(s)
Current == Median(times)

\* freeze-baselines writes what was measured before it is judged.
Freeze ==
  /\ place = "measure" /\ (Len(times) = Repeat \/ "metric_capture" \in broken)
  /\ Goes("judge")
  /\ file' = IF bench.freezes /\ times # <<>> THEN Current ELSE file
  /\ UNCHANGED <<bench, server, probeVars, sampleVars, broken, guard, claim>>

(******************************** judgements ********************************)

First(a, b) == IF a # NoBase THEN a ELSE b
\* The baseline measured in the rounds counts more than the file as it was read.
Measured(before) == IF baseTimes # <<>> THEN Median(baseTimes) ELSE before
\* checkRegressionGuard: the goal's own baseline first; from zero nothing regresses.
GuardBase(before) == First(bench.goalBase, Measured(before))
GuardVerdict(base) ==
  IF base = NoBase THEN "gap" ELSE IF base # 0 /\ Current > base THEN "fail" ELSE "pass"
\* checkNoiseAdjustedConfidence: the goal's own baseline last; better than zero is none.
ClaimBase(before) == First(Measured(before), bench.goalBase)
ClaimVerdict(base) ==
  IF base = NoBase THEN "gap" ELSE IF base # 0 /\ Current < base THEN "pass" ELSE "fail"

JudgeBench ==
  /\ place = "judge" /\ times # <<>> /\ Goes("stop")
  /\ \E before \in Times \cup {NoBase} :
       /\ ~bench.freezes => before = file      \* else the file as it was before
       /\ guard' = GuardVerdict(GuardBase(before))
       /\ claim' = ClaimVerdict(ClaimBase(before))
       /\ broken' = broken \cup (IF guard' = "fail" THEN {"regression_guard"} ELSE {})
                          \cup (IF claim' = "fail" THEN {"noise_adjusted_confidence"} ELSE {})
  /\ UNCHANGED <<bench, server, probeVars, sampleVars, file>>

\* The browser or an artifact throws inside the `try`.
\* Mutant: the server is stopped at the end of the `try`.
BenchThrowsPast ==
  /\ place \in {"measure", "judge"} /\ Goes("thrown")
  /\ UNCHANGED <<bench, server, probeVars, sampleVars, benchVars>>
BenchThrows ==
  /\ place \in {"measure", "judge"} /\ Goes("stop")
  /\ UNCHANGED <<bench, server, probeVars, sampleVars, benchVars>>

\* `finally`: SIGTERM and SIGKILL to the process group.
StopServe ==
  /\ place = "stop" /\ Goes("done") /\ server' = "none"
  /\ UNCHANGED <<bench, probeVars, sampleVars, benchVars>>

ProbeStep == Attempt \/ AnswerBelow500 \/ AnswerBad \/ ProbeTimeout
RunnerOfBench ==
  BenchSetup \/ StartServe \/ WaitOver \/ Measure \/ Freeze \/ JudgeBench \/ BenchThrows \/ StopServe
PerformanceStep == RunnerOfBench \/ ProbeStep \/ Tick \/ ServerDies
PerformanceSpec == PerformanceInit /\ [][PerformanceStep]_performanceVars

(******************************** properties ********************************)

\* Unless its ready URL is malformed, a case leaves no server behind, whatever throws
\* or fails in it (the `finally` of verifyOneCase).
ServerIsStopped == place \in {"done", "thrown"} /\ bench.url # "malformed" => server = "none"

\* The wait for the server ends although its attempts multiply, whether the server
\* answers or not (the deadline of waitForUrl).
WaitIsOver == (place = "wait") ~> (place # "wait")

\* Not so in the code: at most one probe is under way.
OneProbe == flying + pausing <= 1

\* Not so in the code: nothing polls the server while it is measured.
NoProbeWhileMeasuring == place = "measure" => flying + pausing = 0

\* Not so in the code: no metric counts as improved and as regressed at once.  The two
\* checks take the goal's baseline and the file in opposite orders.
ChecksAgree == ~(guard = "fail" /\ claim = "pass")

\* Not so in the code: what is frozen as the baseline is a run that passed.
FrozenFromPassing == place = "done" /\ bench.freezes => broken = {}
=============================================================================
