----------------------------- MODULE ChildCalls -----------------------------
(* One call of a model (model_router.cjs, callModel) or of a command under   *)
(* test (goal_cli_runner.cjs, runCliCommand).  A command is a shell, the     *)
(* leader of its process group in the router's case, and at most one helper  *)
(* it started, which may trap SIGTERM, hold the output pipes or have left    *)
(* the group.  Node settles a command on 'close': the shell has ended and    *)
(* nobody holds the pipes any more.  Time is counted in ticks and added when *)
(* an attempt settles or a pause ends.                                       *)
EXTENDS Integers

CONSTANTS
  MaxAttempts,   \* MAX_ATTEMPTS_CEILING
  MaxDelay,      \* MAX_RETRY_DELAY_MS_CEILING
  RetryBudget,   \* MAX_TOTAL_RETRY_MS
  TimeLimit,     \* timeoutMs of one attempt
  Grace          \* EXTERNAL_COMMAND_KILL_GRACE_MS

ASSUME CallAssumption == {MaxAttempts, MaxDelay, RetryBudget, TimeLimit, Grace} \subseteq Nat \ {0}

VARIABLES
  request,    \* what is called, and the options of the call
  adapter,    \* how the command behaves, the same at every attempt
  callPc,     \* of the attempt, or how the call ended
  attempt, elapsed,
  leader, helper,
  timedOut, overflow,
  answer      \* the reply the caller got

callVars == <<request, adapter, callPc, attempt, elapsed, leader, helper, timedOut, overflow, answer>>
procVars == <<leader, helper, timedOut, overflow>>
fixedVars == <<request, adapter>>

Replies == [shape : {"object", "text", "broken", "bulky"}, fits : BOOLEAN, cut : BOOLEAN]
NoReply == [shape |-> "broken", fits |-> FALSE, cut |-> FALSE]
CallOver == {"returned", "failed"}

\* The clamps on what the caller asked for.
AllowedAttempts == IF request.attempts > MaxAttempts THEN MaxAttempts ELSE request.attempts
Delay == IF request.delay > MaxDelay THEN MaxDelay ELSE request.delay

Requests == [runner : {"http", "command", "suite"}, schema : BOOLEAN, partialOk : BOOLEAN,
             attempts : 1 .. MaxAttempts + 1, delay : {0, 1, MaxDelay + 1}]
Adapters == [leaderTraps : BOOLEAN, traps : BOOLEAN, holds : BOOLEAN, grouped : BOOLEAN]

CallInit ==
  /\ request \in Requests /\ adapter \in Adapters
  /\ callPc = "dispatch" /\ attempt = 1 /\ elapsed = 0
  /\ leader = "none" /\ helper = FALSE /\ timedOut = FALSE /\ overflow = FALSE
  /\ answer = NoReply

(*************************** which replies pass *****************************)

\* maybeParseStructured and validateSchemaShape: only a schema asks for anything.
StructureOk(r) == request.schema => r.fits
TruncationOk(r) == r.cut => request.partialOk

\* readBodyBounded: a body over the ceiling is refused, announced or counted.
BodyFits(r) == r.shape # "bulky"
\* postJson: a body that is not a JSON object, or that the timer cut off, is an error.
PostJsonOk(r) == BodyFits(r) /\ r.shape = "object"
\* The three adapters; an answer without any text passes when no schema is asked for.
HttpAccepts(r) == PostJsonOk(r) /\ StructureOk(r) /\ TruncationOk(r)

\* Output that looks like JSON must parse; plain text passes unless a schema was asked for.
ParsesAsAsked(r) == r.shape = "object" \/ (r.shape = "text" /\ ~request.schema /\ ~r.cut)
CommandAccepts(r) ==
  /\ ~timedOut /\ ~overflow /\ leader = "exit0"
  /\ ParsesAsAsked(r) /\ StructureOk(r) /\ TruncationOk(r)

(****************************** the retry loop ******************************)

Answer(r) == callPc' = "returned" /\ answer' = r /\ UNCHANGED attempt

\* An attempt failed: the budget is looked at, then the attempts, then the pause.
AttemptFails ==
  /\ UNCHANGED answer
  /\ IF elapsed' >= RetryBudget \/ attempt = AllowedAttempts
       THEN callPc' = "failed" /\ UNCHANGED attempt
       ELSE IF Delay > 0
              THEN callPc' = "pause" /\ UNCHANGED attempt
              ELSE callPc' = "dispatch" /\ attempt' = attempt + 1

PauseFor(n) ==
  /\ callPc = "pause"
  /\ elapsed' = elapsed + n
  /\ callPc' = "dispatch" /\ attempt' = attempt + 1
  /\ UNCHANGED <<fixedVars, procVars, answer>>
Growing == IF Delay * attempt > MaxDelay THEN MaxDelay ELSE Delay * attempt
Pause == PauseFor(IF Growing > RetryBudget - elapsed THEN RetryBudget - elapsed ELSE Growing)

\* One HTTP attempt: an answer within the timeout, or else no key, a bad status, a
\* refused or lost body, the timer.
CallHttp ==
  /\ callPc = "dispatch" /\ request.runner = "http"
  /\ \E t \in 0 .. TimeLimit :
       /\ elapsed' = elapsed + t
       /\ \/ t < TimeLimit /\ \E r \in Replies : HttpAccepts(r) /\ Answer(r)
          \/ AttemptFails
  /\ UNCHANGED <<fixedVars, procVars>>

(******************************* the command ********************************)

Spawn ==
  /\ callPc = "dispatch" /\ request.runner # "http"
  /\ callPc' = "running" /\ leader' = "runs"
  /\ helper' \in BOOLEAN
  /\ timedOut' = FALSE /\ overflow' = FALSE
  /\ UNCHANGED <<fixedVars, attempt, elapsed, answer>>

\* A command that cannot be started, or 'error' before anything ran.
SpawnFails ==
  /\ callPc = "dispatch" /\ request.runner = "command"
  /\ UNCHANGED <<fixedVars, procVars, elapsed>>
  /\ AttemptFails

LeaderExits ==
  /\ leader = "runs" /\ callPc \notin CallOver
  /\ leader' \in {"exit0", "exit1"}
  /\ UNCHANGED <<fixedVars, callPc, attempt, elapsed, helper, timedOut, overflow, answer>>

HelperExits ==
  /\ helper /\ helper' = FALSE
  /\ UNCHANGED <<fixedVars, callPc, attempt, elapsed, leader, timedOut, overflow, answer>>

Terminate ==
  /\ leader' = IF leader = "runs" /\ ~adapter.leaderTraps THEN "killed" ELSE leader
  /\ helper' = (helper /\ (adapter.traps \/ ~adapter.grouped))
KillGroup ==
  /\ leader' = IF leader = "runs" THEN "killed" ELSE leader
  /\ helper' = (helper /\ ~adapter.grouped)
KillLeader ==
  /\ leader' = IF leader = "runs" THEN "killed" ELSE leader
  /\ UNCHANGED helper

\* More output than the buffer takes: the router terminates the group once and
\* remembers why, the suites' runner cuts the text and kills the shell.
Overflow ==
  /\ callPc \in {"running", "grace"} /\ ~overflow
  /\ leader = "runs" \/ (helper /\ adapter.holds)
  /\ overflow' = TRUE
  /\ IF request.runner = "suite" THEN KillLeader ELSE Terminate
  /\ UNCHANGED <<fixedVars, callPc, attempt, elapsed, timedOut, answer>>

TimerFires ==
  /\ callPc = "running" /\ timedOut' = TRUE
  /\ IF request.runner = "suite"
       THEN callPc' = "killed" /\ KillLeader
       ELSE callPc' = "grace" /\ Terminate
  /\ UNCHANGED <<fixedVars, attempt, elapsed, overflow, answer>>

GraceEndsQuietly ==
  /\ callPc = "grace" /\ callPc' = "killed"
  /\ UNCHANGED <<fixedVars, procVars, attempt, elapsed, answer>>
GraceEnds ==
  /\ callPc = "grace" /\ callPc' = "killed" /\ KillGroup
  /\ UNCHANGED <<fixedVars, attempt, elapsed, timedOut, overflow, answer>>

PipesClosed == leader \notin {"none", "runs"} /\ ~(helper /\ adapter.holds)

\* How long the attempt took, by the timer that ran last.
Took(t) == CASE callPc = "running" -> t \in 0 .. TimeLimit
             [] callPc = "grace" -> t \in TimeLimit .. TimeLimit + Grace
             [] callPc = "killed" -> t = TimeLimit + Grace

\* 'close': both timers are cleared and the outcome is judged.
Close ==
  /\ callPc \in {"running", "grace", "killed"} /\ PipesClosed
  /\ request.runner = "command"
  /\ \E t \in 0 .. TimeLimit + Grace : Took(t) /\ elapsed' = elapsed + t
  /\ \E r \in Replies :
       IF CommandAccepts(r) THEN Answer(r) ELSE AttemptFails
  /\ UNCHANGED <<fixedVars, procVars>>

\* The suites' runner hands on whatever there is, with the exit code and `timedOut`.
CloseSuite ==
  /\ callPc \in {"running", "killed"} /\ PipesClosed
  /\ request.runner = "suite"
  /\ Answer([NoReply EXCEPT !.cut = overflow])
  /\ UNCHANGED <<fixedVars, procVars, elapsed>>

RunnerStep == CallHttp \/ Spawn \/ SpawnFails \/ TimerFires \/ GraceEnds \/ Close \/ CloseSuite \/ Pause
CallStep == RunnerStep \/ LeaderExits \/ HelperExits \/ Overflow

(******************************** properties ********************************)

\* What the router returns came from a command that exited with 0, within its
\* time and its buffer, fits the schema, and is complete unless the caller said
\* that a part will do (callExternalCommandProvider, enforceTruncationPolicy).
AnswerIsWhole ==
  callPc = "returned" /\ request.runner # "suite" =>
    /\ request.schema => answer.fits
    /\ answer.cut => request.partialOk
    /\ request.runner = "command" => ~overflow /\ ~timedOut /\ leader = "exit0"

\* The command lets go of its pipes when it is killed: what the router kills is
\* the group, what the suites' runner kills is the shell alone.
LetsGo == IF request.runner = "suite" THEN ~adapter.holds ELSE adapter.grouped \/ ~adapter.holds

\* However often and however long it was asked to retry, a call is over after the
\* retry budget and one more attempt (callModel's ceilings and pauses).
CallIsBounded ==
  attempt <= MaxAttempts /\ (LetsGo => elapsed <= RetryBudget + TimeLimit + Grace)

\* A call under way ends, also when the command traps SIGTERM and holds its pipes,
\* unless a process out of the kill's reach holds them (spawnExternalCommand's two timers).
CallEnds == (callPc \in {"running", "pause"} /\ LetsGo) ~> (callPc \in CallOver)

\* Not so in the code: a command killed for its timeout leaves nothing running.  The
\* kill timer is cleared when the pipes close, before a trapping helper was killed.
GroupIsDead == callPc \in CallOver /\ timedOut /\ adapter.grouped => ~helper
\* Not so in the code: the last pause is cut to end at the budget, and an attempt follows.
NoAttemptAtBudget == callPc = "dispatch" => elapsed < RetryBudget
\* Not so in the code: a helper that floods the pipes after the shell exited with 0
\* leaves a cut output that looks complete.
SuiteOutputIsWhole ==
  callPc = "returned" /\ request.runner = "suite" /\ leader = "exit0" /\ ~timedOut => ~answer.cut
=============================================================================
