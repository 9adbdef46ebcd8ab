--------------------------- MODULE WorkflowSuite ---------------------------
(* One case of the state-machine suite (goal_state_machine_suite.cjs): the   *)
(* trace the program under test prints for a sequence of commands is judged  *)
(* step by step against the declared transitions, as a whole against the     *)
(* replay of the model, and for what it covers.                              *)
EXTENDS Naturals, Sequences, FiniteSets

CONSTANTS
  WorkflowStates, WorkflowCommands,
  Unknown,          \* no state, no command, or '*' in a transition
  MaxTransitions, MaxCommands

ASSUME WorkflowAssumption ==
  /\ IsFiniteSet(WorkflowStates) /\ IsFiniteSet(WorkflowCommands)
  /\ Unknown \notin WorkflowStates \cup WorkflowCommands
  /\ MaxTransitions \in Nat /\ MaxCommands \in Nat

VARIABLES
  workflow,   \* what the case declares
  printed,    \* what the program printed
  trace,      \* what normalizeTrace makes of it
  opinions,   \* the status of each obligation
  turn

workflowVars == <<workflow, printed, trace, opinions, turn>>

UpTo(S, n) == UNION {[1 .. k -> S] : k \in 0 .. n}
Transitions == [from : WorkflowStates \cup {Unknown}, on : WorkflowCommands \cup {Unknown}, to : WorkflowStates]
Entries == [state : WorkflowStates, command : WorkflowCommands \cup {Unknown}]

\* How the initial state is declared: not at all; by a name alone, as a text or as a
\* `state`, `status`, `phase`, `screen`, `mode` or `step` of an object; as an object with
\* none of them but a `where`; as any other object.  `initial` is its name to stateName.
WorkflowCases ==
  {w \in [initial : WorkflowStates \cup {Unknown}, declared : {"none", "name", "where", "whole"},
          asked : UpTo(WorkflowCommands, MaxCommands), model : UpTo(Transitions, MaxTransitions)] :
     w.declared = "none" <=> w.initial = Unknown}

WorkflowInit ==
  /\ workflow \in WorkflowCases
  /\ printed = [form |-> "nothing", steps |-> <<>>, rest |-> FALSE]
  /\ trace = <<>> /\ opinions = <<>> /\ turn = "replay"

Asked(i) == IF i \in 1 .. Len(workflow.asked) THEN workflow.asked[i] ELSE Unknown

(********************************* the model ********************************)

Covers(pattern, x) == pattern = Unknown \/ pattern = x
\* findTransition: the first that matches; none is Unknown.
Matching(s, c) == {i \in 1 .. Len(workflow.model) : Covers(workflow.model[i].from, s) /\ Covers(workflow.model[i].on, c)}
FindTransition(s, c) ==
  IF Matching(s, c) = {} THEN Unknown
  ELSE workflow.model[CHOOSE i \in Matching(s, c) : \A j \in Matching(s, c) : i <= j]

\* replayModel: a command without a transition is noted and leaves the state.
Replay[n \in Nat] ==
  IF n = 0 THEN [states |-> <<workflow.initial>>, invalid |-> FALSE]
  ELSE LET r == Replay[n - 1]
           t == FindTransition(r.states[n], workflow.asked[n])
       IN IF t = Unknown THEN [states |-> Append(r.states, r.states[n]), invalid |-> TRUE]
                         ELSE [r EXCEPT !.states = Append(@, t.to)]
Reference == Replay[Len(workflow.asked)]

(******************************** the replay ********************************)

\* normalizeTrace: a list of steps, of state objects or of states, or only the state at
\* the end.
Normalized(form, steps) ==
  CASE form \in {"steps", "objects"} -> steps
    [] form = "states" -> [i \in 1 .. Len(steps) |->
         [state |-> steps[i].state, command |-> IF i = 1 THEN Unknown ELSE Asked(i - 1)]]
    [] form = "final" /\ steps # <<>> ->
         (IF workflow.initial = Unknown THEN <<>> ELSE <<[state |-> workflow.initial, command |-> Unknown]>>)
           \o <<[state |-> steps[Len(steps)].state, command |-> Asked(Len(workflow.asked))]>>
    [] OTHER -> <<>>

\* observeTrace: the command fails, prints no JSON, or prints some trace.  Nobody looks at
\* the command of a first step; those of state objects are left out.  `rest`: the
\* first state is the declared one in all that a name does not tell, or satisfies its
\* `where`.  For a state at the end `steps` is that state alone, and the trace starts with the
\* declared state itself.
Observe ==
  /\ turn = "replay" /\ turn' = "judge"
  /\ \E form \in {"steps", "objects", "states", "final"}, steps \in UpTo(Entries, MaxCommands + 1),
        rest \in BOOLEAN :
       /\ \A i \in 1 .. Len(steps) : i = 1 \/ form # "steps" => steps[i].command = Unknown
       /\ workflow.declared \in {"none", "name"} => rest
       /\ form = "final" => Len(steps) <= 1 /\ (workflow.declared = "whole" => rest)
       /\ printed' = [form |-> form, steps |-> steps, rest |-> rest]
       /\ trace' = Normalized(form, steps)
  /\ UNCHANGED <<workflow, opinions>>
ReplayFails ==
  /\ turn = "replay" /\ turn' = "judge"
  /\ printed' = [form |-> "nothing", steps |-> <<>>, rest |-> FALSE] /\ trace' = <<>>
  /\ UNCHANGED <<workflow, opinions>>

(********************************** judging *********************************)

Opinion(ok) == IF ok THEN "pass" ELSE "fail"
StatesOf(t) == [i \in 1 .. Len(t) |-> t[i].state]
Reported(i) == IF trace[i].command # Unknown THEN trace[i].command ELSE Asked(i - 1)

\* stateName(step.state): a state object that stands for its step has no `state` of its own
\* (its name may be a `status`), so it has no name here; for traceStates it has.
NameAt(i) == IF printed.form = "objects" THEN Unknown ELSE trace[i].state

\* stateMatches, against the declared initial state.
StateMatches ==
  /\ workflow.declared # "where" => NameAt(1) = workflow.initial
  /\ workflow.declared # "name" => printed.rest
InitialOpinion ==
  IF workflow.declared = "none" THEN "gap" ELSE Opinion(trace = <<>> \/ StateMatches)

\* Mutant: the target of the transition is not compared.
StepDeclared(i) == FindTransition(NameAt(i - 1), Reported(i)) # Unknown
\* verifyValidTransitions: each step by the command the program reports for it.
StepOk(i) ==
  LET t == FindTransition(NameAt(i - 1), Reported(i)) IN t # Unknown /\ t.to = NameAt(i)
TransitionsOpinion ==
  IF workflow.model = <<>> THEN "gap" ELSE Opinion(\A i \in 2 .. Len(trace) : StepOk(i))

ReferenceOpinion ==
  IF workflow.model = <<>> THEN "gap"
  ELSE Opinion(~Reference.invalid /\ StatesOf(trace) = Reference.states)

\* transitionCoverage: which (from, command, to) the trace shows, declared ones by
\* their patterns.
Observed == {<<NameAt(i - 1), Reported(i), NameAt(i)>> : i \in 2 .. Len(trace)}
Declared == {<<t.from, t.on, t.to>> : t \in {workflow.model[i] : i \in 1 .. Len(workflow.model)}}
CoverageOpinion ==
  IF Declared = {} \/ ~(Declared \subseteq Observed) THEN "gap" ELSE "pass"

\* verifyOneCase: a gap is no failure.  The second replay, the final state, impossible
\* states and invariants are judged on their own and left out.
Judge ==
  /\ turn = "judge" /\ turn' = "done"
  /\ opinions' = [replay |-> Opinion(trace # <<>>), initial |-> InitialOpinion,
                  transitions |-> TransitionsOpinion, reference |-> ReferenceOpinion,
                  coverage |-> CoverageOpinion]
  /\ UNCHANGED <<workflow, printed, trace>>

WorkflowStep == Observe \/ ReplayFails \/ Judge
WorkflowSpec == WorkflowInit /\ [][WorkflowStep]_workflowVars

(******************************** properties ********************************)

ReportsAsAsked == \A i \in 2 .. Len(trace) : Reported(i) = Asked(i - 1)
Complete == Len(trace) = Len(workflow.asked) + 1

\* The two judgements of a complete trace of steps that reports the commands it was asked
\* agree on the names of its states.  The trace that the model replays is accepted step by
\* step, and its start where a name is declared; a trace that is accepted step by step from
\* the declared start is the one the model replays, unless the start is declared by a
\* `where` (verifyValidTransitions, stateMatches, replayModel).
JudgesAgree ==
  /\ turn = "done" /\ workflow.model # <<>> /\ workflow.declared # "none"
  /\ printed.form # "objects" /\ ReportsAsAsked /\ Complete
  => /\ opinions.reference = "pass" =>
          opinions.transitions = "pass" /\ (workflow.declared = "name" => opinions.initial = "pass")
     /\ opinions.initial = "pass" /\ opinions.transitions = "pass" /\ workflow.declared # "where" =>
          opinions.reference = "pass"

\* Not so in the code: the judges agree on every state.  The replay compares names: a
\* declared {name: a} and an observed {name: a, x: 1} differ for the initial state alone,
\* and state objects that stand for their steps have names for the replay alone.
JudgesAlwaysAgree ==
  turn = "done" /\ workflow.model # <<>> /\ workflow.declared # "none" /\ ReportsAsAsked /\ Complete =>
    (opinions.reference = "pass" <=> opinions.initial = "pass" /\ opinions.transitions = "pass")

\* Not so in the code: a program that ends where the model does passes, in whatever
\* form it answers.  The state at the end is judged as one step by the last command.
RightAnswerPasses ==
  turn = "done" /\ printed.form = "final" /\ printed.steps # <<>> /\ ~Reference.invalid
    /\ printed.steps[Len(printed.steps)].state = Reference.states[Len(Reference.states)]
    => opinions.transitions # "fail" /\ opinions.reference # "fail"
=============================================================================
