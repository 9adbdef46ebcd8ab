---------------------------- MODULE MCSharedFiles ----------------------------
(* The parts of the program in which several processes take part and that   *)
(* have no action in common: the manifest of a batch and its lock, the lanes *)
(* of a baton batch, the files of a session and of a goal, the branches made *)
(* of a session, and a call of a model or a command with the processes it    *)
(* starts.  A behaviour is one of one part: `side` says which, and the       *)
(* others rest in an initial state.                                          *)
EXTENDS ManifestLock, BatonLanes, SessionFiles, Finalize, ChildCalls

VARIABLE side
mcVars == <<vars, batonVars, sessionVars, finalizeVars, callVars, side>>

\* The pins come first: TLC need not combine the cases of all parts.
MCInit ==
  /\ side \in {"manifest", "lanes", "session", "branches", "call"}
  /\ side # "call" => /\ request = CHOOSE r \in Requests : TRUE
                      /\ adapter = CHOOSE a \in Adapters : TRUE
  /\ Init /\ BatonInit /\ SessionInit /\ FinalizeInit /\ CallInit
  /\ side # "branches" => /\ touched = [i \in Entries |-> {}]
                          /\ commitFiles = touched /\ taken = {}

ManifestOf(A) == side = "manifest" /\ A
  /\ UNCHANGED <<side, batonVars, sessionVars, finalizeVars, callVars>>
LanesOf(A) == side = "lanes" /\ A
  /\ UNCHANGED <<side, vars, sessionVars, finalizeVars, callVars>>
SessionOf(A) == side = "session" /\ A
  /\ UNCHANGED <<side, vars, batonVars, finalizeVars, callVars>>
BranchesOf(A) == side = "branches" /\ A
  /\ UNCHANGED <<side, vars, batonVars, sessionVars, callVars>>
CallOf(A) == side = "call" /\ A
  /\ UNCHANGED <<side, vars, batonVars, sessionVars, finalizeVars>>

MCNext ==
  \/ ManifestOf(Next) \/ LanesOf(BatonNext) \/ SessionOf(SessionStep) \/ BranchesOf(FinalizeStep)
  \/ CallOf(CallStep)

\* The fairness of each part; when a command ends is nobody's duty.
MCFairness ==
  /\ \A p \in Procs : WF_mcVars(ManifestOf(Progress(p)))
  /\ WF_mcVars(LanesOf(OrchestratorStep))
  /\ \A w \in Workers : WF_mcVars(LanesOf(WorkerStep(w)))
  /\ WF_mcVars(CallOf(RunnerStep))

MCSpec == MCInit /\ [][MCNext]_mcVars /\ MCFairness
=============================================================================
