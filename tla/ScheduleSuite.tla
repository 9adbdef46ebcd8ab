--------------------------- MODULE ScheduleSuite ----------------------------
(* One case of the concurrency suite (goal_concurrency_suite.cjs): the plan  *)
(* of schedules - declared, explored within a limit, drawn at random and     *)
(* repaired -, two runs of the program under test for each, and the          *)
(* judgement.  Events are numbers in the order of the case file.  The seeded *)
(* shuffle is any permutation.  A program follows the schedule it is given,  *)
(* goes its own way (the order of the case file), or hangs.                  *)
EXTENDS Integers, Sequences, FiniteSets, SequencesExt

CONSTANTS
  NumEvents,
  Caps,         \* how many events enumerateOrders still explores: {8} in the code
  MaxBefore,    \* constraints of a case
  Limits,       \* values of exploration.max_schedules
  MaxPasses,    \* the guard of repairOrder, 100 in the code
  MaxRunnable   \* a longer plan is made but not run (bound of the model)

ASSUME ScheduleAssumption ==
  /\ NumEvents \in Nat \ {0} /\ Caps \subseteq Nat /\ MaxBefore \in Nat /\ MaxPasses \in Nat \ {0}
  /\ Limits \subseteq Nat \ {0} /\ MaxRunnable \in Nat

VARIABLES
  test,      \* the case
  doing,
  stack,     \* enumerateOrders: the calls of walk that are open, the innermost last
  found,     \* its result so far
  drawn, pass, pairAt, swapped,   \* repairOrder of the drawn order
  plan,      \* what buildSchedulePlan returns
  added,     \* uniqueByOrder: schedules it has gone through
  observed,  \* one observation per run
  verdicts   \* what was judged, in order
searchVars == <<stack, found>>
repairVars == <<drawn, pass, pairAt, swapped>>
resultVars == <<plan, added, observed, verdicts>>
scheduleVars == <<test, doing, searchVars, repairVars, resultVars>>

Events == 1 .. NumEvents
InOrder == [i \in Events |-> i]
Orders == {o \in [Events -> Events] : \A i, j \in Events : i # j => o[i] # o[j]}
Pairs == {p \in Events \X Events : p[1] # p[2]}
Place(o, e) == CHOOSE i \in 1 .. Len(o) : o[i] = e
Has(o, e) == \E i \in 1 .. Len(o) : o[i] = e
Schedule(id, source, order) == [id |-> id, source |-> source, order |-> order]

ScheduleCases ==
  [before : UNION {[1 .. n -> Pairs] : n \in 0 .. MaxBefore}, limit : Limits, cap : Caps,
   declared : {<<>>, <<Schedule("d1", "declared", InOrder)>>,
               <<Schedule("sys-1", "declared", Reverse(InOrder))>>},
   timeout : BOOLEAN, strict : BOOLEAN]

\* More events than that are not explored: the events of the case file, in their order
\* and checked against no constraint, are the one order found.
TooMany == NumEvents > test.cap

ScheduleInit ==
  /\ test \in ScheduleCases
  /\ doing = "walk"
  /\ IF TooMany THEN stack = <<>> /\ found = <<InOrder>>
                ELSE stack = <<[prefix |-> <<>>, rest |-> InOrder, at |-> 1]>> /\ found = <<>>
  /\ drawn = <<>> /\ pass = 0 /\ pairAt = 1 /\ swapped = FALSE
  /\ plan = <<>> /\ added = 0 /\ observed = <<>> /\ verdicts = <<>>

(********************************* the plan *********************************)

\* Only pairs of events that both occur are looked at.
Satisfies(o) ==
  \A i \in 1 .. Len(test.before) :
    LET p == test.before[i] IN Has(o, p[1]) /\ Has(o, p[2]) => Place(o, p[1]) < Place(o, p[2])

\* An event that must come after one still to be placed is not tried.
ImpossibleSwapped(e, rest) == \E i \in 1 .. Len(test.before) : test.before[i][1] = e /\ Has(rest, test.before[i][2])
Impossible(e, rest) == \E i \in 1 .. Len(test.before) : test.before[i][2] = e /\ Has(rest, test.before[i][1])
Child(call) == [prefix |-> Append(call.prefix, call.rest[call.at]),
                rest |-> RemoveAt(call.rest, call.at), at |-> 1]

\* The innermost call is about to try the event at `at`, or to return.
Walk ==
  /\ doing = "walk" /\ stack # <<>> /\ Len(found) < test.limit
  /\ LET call == Last(stack)
         advanced == [stack EXCEPT ![Len(stack)].at = call.at + 1]
     IN  \/ /\ call.rest = <<>>
            /\ stack' = Front(stack)
            /\ found' = IF Satisfies(call.prefix) THEN Append(found, call.prefix) ELSE found
         \/ /\ call.rest # <<>> /\ call.at > Len(call.rest)
            /\ stack' = Front(stack) /\ UNCHANGED found
         \/ /\ call.at <= Len(call.rest)
            /\ stack' = IF Impossible(call.rest[call.at], call.rest)
                          THEN advanced ELSE Append(advanced, Child(call))
            /\ UNCHANGED found
  /\ UNCHANGED <<test, doing, repairVars, resultVars>>

\* The walk is over, or returns from every call because the limit is reached;
\* then an order is drawn for the stress run.
Draw ==
  /\ doing = "walk" /\ (stack = <<>> \/ Len(found) >= test.limit)
  /\ drawn' \in Orders
  /\ doing' = "repair" /\ pass' = 1 /\ pairAt' = 1 /\ swapped' = FALSE
  /\ UNCHANGED <<test, searchVars, resultVars>>

\* Move the first event of a violated pair to where the second is.
MovedBehind(o, p) == InsertAt(RemoveAt(o, Place(o, p[1])), Place(o, p[2]) + 1, p[1])
Moved(o, p) == InsertAt(RemoveAt(o, Place(o, p[1])), Place(o, p[2]), p[1])
Violated(o, p) == Place(o, p[1]) > Place(o, p[2])

RepairPair ==
  /\ doing = "repair" /\ pairAt <= Len(test.before)
  /\ LET p == test.before[pairAt] IN
       IF Violated(drawn, p)
         THEN drawn' = Moved(drawn, p) /\ swapped' = TRUE
         ELSE UNCHANGED <<drawn, swapped>>
  /\ pairAt' = pairAt + 1
  /\ UNCHANGED <<test, doing, pass, searchVars, resultVars>>

NextPass ==
  /\ doing = "repair" /\ pairAt > Len(test.before) /\ swapped /\ pass < MaxPasses
  /\ pass' = pass + 1 /\ pairAt' = 1 /\ swapped' = FALSE
  /\ UNCHANGED <<test, doing, drawn, searchVars, resultVars>>

ExploredId == <<"sys-1", "sys-2", "sys-3">>
Explored == [i \in 1 .. Len(found) |->
              Schedule(IF i <= 3 THEN ExploredId[i] ELSE "sys-n", "exploration", found[i])]

Candidates == test.declared \o Explored \o <<Schedule("stress-1", "stress", drawn)>>

BuildPlan ==
  /\ doing = "repair" /\ pairAt > Len(test.before) /\ (~swapped \/ pass = MaxPasses)
  /\ doing' = "plan"
  /\ UNCHANGED <<test, searchVars, repairVars, resultVars>>

\* Schedules of one source with one order (or none) count once; ids do not matter.
AddSchedule ==
  /\ doing = "plan" /\ added < Len(Candidates)
  /\ LET s == Candidates[added + 1]
         listed == \E i \in 1 .. Len(plan) : <<plan[i].order, plan[i].source>> = <<s.order, s.source>>
     IN  plan' = IF listed THEN plan ELSE Append(plan, s)
  /\ added' = added + 1
  /\ UNCHANGED <<test, doing, observed, verdicts, searchVars, repairVars>>

PlanIsBuilt ==
  /\ doing = "plan" /\ added = Len(Candidates)
  /\ doing' = IF Len(plan) <= MaxRunnable THEN "run" ELSE "end"
  /\ UNCHANGED <<test, searchVars, repairVars, resultVars>>

(********************************* the runs *********************************)

\* runObservation: the next of the two runs of a schedule.
RunSchedule ==
  /\ doing = "run" /\ Len(observed) < 2 * Len(plan)
  /\ LET s == plan[1 + Len(observed) \div 2] IN
       \E o \in {[sched |-> s, order |-> s.order, timedOut |-> FALSE],
                 [sched |-> s, order |-> InOrder, timedOut |-> FALSE],
                 [sched |-> s, order |-> <<>>, timedOut |-> TRUE]} :
         observed' = Append(observed, o)
  /\ UNCHANGED <<test, doing, plan, added, verdicts, searchVars, repairVars>>

Of(P(_)) == SelectSeq(observed, P)
\* The first of the failing observations is the one a verdict shows.
VerdictOn(id, failing) ==
  [id |-> id, status |-> IF failing = <<>> THEN "pass" ELSE "fail",
   shown |-> IF failing = <<>> THEN {} ELSE {failing[1].sched}]
Gap(id) == [id |-> id, status |-> "gap", shown |-> {}]

CommandVerdict == VerdictOn("command_success", Of(LAMBDA o : o.timedOut /\ ~test.timeout))

\* Here both events of a pair must occur.
Keeps(o, p) == Has(o, p[1]) /\ Has(o, p[2]) /\ Place(o, p[1]) < Place(o, p[2])
OrderingVerdict ==
  IF test.before = <<>> THEN Gap("ordering_guarantees")
  ELSE VerdictOn("ordering_guarantees",
         Of(LAMBDA o : \E i \in 1 .. Len(test.before) : ~Keeps(o.order, test.before[i])))

TimeoutVerdict == VerdictOn("timeout_behavior", Of(LAMBDA o : o.timedOut # test.timeout))

\* Runs are grouped by the schedule's id; the failures name the id, and no schedule.
DeterminismVerdict ==
  LET torn == \E i, j \in 1 .. Len(observed) :
                /\ observed[i].sched.id = observed[j].sched.id
                /\ observed[i].order # observed[j].order
  IN [id |-> "deterministic_scheduling", status |-> IF torn THEN "fail" ELSE "pass", shown |-> {}]

StressVerdict == VerdictOn("stress_replay", Of(LAMBDA o : o.sched.source = "stress" /\ o.timedOut))

\* A strict case allows one order of events and asks for the last of them.
RaceVerdict ==
  VerdictOn("race_condition", Of(LAMBDA o : test.strict /\ o.order # InOrder))

\* A timeout is a deadlock unless it was expected; the last event must be reached.
DeadlockVerdict ==
  IF ~test.strict THEN Gap("deadlock_livelock")
  ELSE VerdictOn("deadlock_livelock",
         Of(LAMBDA o : (o.timedOut /\ ~test.timeout) \/ ~Has(o.order, NumEvents)))

TemporalVerdict ==
  IF ~test.strict THEN Gap("temporal_invariants")
  ELSE VerdictOn("temporal_invariants", Of(LAMBDA o : ~Has(o.order, NumEvents)))

JudgeCase ==
  /\ doing = "run" /\ Len(observed) = 2 * Len(plan)
  /\ verdicts' = <<CommandVerdict, OrderingVerdict, TimeoutVerdict, DeterminismVerdict, StressVerdict,
                   RaceVerdict, DeadlockVerdict, TemporalVerdict>>
  /\ doing' = "end"
  /\ UNCHANGED <<test, plan, added, observed, searchVars, repairVars>>

\* runConcurrencySuiteVerification and writeCorpusCase: the first failure is the
\* counterexample, and its schedule is what the corpus replays.
Failures == SelectSeq(verdicts, LAMBDA v : v.status = "fail")
Status == IF Failures = <<>> THEN "pass" ELSE "fail"
CorpusSchedule == Failures[1].shown

ScheduleStep ==
  \/ Walk \/ Draw \/ RepairPair \/ NextPass
  \/ BuildPlan \/ AddSchedule \/ PlanIsBuilt \/ RunSchedule \/ JudgeCase

ScheduleSpec == ScheduleInit /\ [][ScheduleStep]_scheduleVars

(******************************** properties ********************************)

\* The constraints leave some order: every order of all events that satisfies them.
Extensions == {o \in Orders : Satisfies(o)}

\* Every schedule made for a case, by shuffle and repair or by search, obeys the case's
\* happens-before constraints, unless no order does or the case has more events than are
\* explored: then the schedule "explored" is the order of the case file, which may break
\* them (enumerateOrders, repairOrder).
SchedulesObey ==
  \A i \in 1 .. Len(plan) :
    /\ plan[i].source # "declared" /\ Extensions # {}
    /\ plan[i].source = "exploration" => ~TooMany
    => Satisfies(plan[i].order)

\* The search with its pruning finds each order that obeys the constraints once,
\* and all of them unless the limit stopped it (walk of enumerateOrders).  A case with
\* more events than are explored has no search.
ExplorationIsExhaustive ==
  doing # "walk" /\ ~TooMany =>
    /\ ToSet(found) \subseteq Extensions
    /\ Len(found) = Cardinality(ToSet(found))
    /\ Len(found) < test.limit => ToSet(found) = Extensions

\* Not so in the code: what is called explored obeys the constraints, however many events.
ExploredObey ==
  \A i \in 1 .. Len(plan) : plan[i].source = "exploration" => Satisfies(plan[i].order)

\* Not so in the code: a run that differs from another one of the same schedule is
\* what a determinism failure means.  A declared schedule may be called sys-1 too.
DeterminismBlamesProgram ==
  \A k \in 1 .. Len(verdicts) :
    verdicts[k].id = "deterministic_scheduling" /\ verdicts[k].status = "fail" =>
      \E i, j \in 1 .. Len(observed) :
        observed[i].sched = observed[j].sched /\ observed[i].order # observed[j].order

\* Not so in the code: the counterexample written to the corpus has the schedule
\* it was found with.
CorpusReplays == Status = "fail" => CorpusSchedule # {}
=============================================================================
