-------------------------- MODULE MCOvernightParts --------------------------
(* An overnight batch and the parts its attempts are made of: the batch with *)
(* its waves, reviewers and promotion, the reservation of a target, the      *)
(* ledgers that keep batches off each other's targets, the patch engine, and *)
(* the attempt itself.  A behaviour is one of one part: `side` says which,   *)
(* and the others rest in an initial state.                                  *)
EXTENDS OvernightBatch, TargetLock, TargetNovelty, PatchEngine, SurfaceAttempt

VARIABLE side
mcVars == <<batchVars, lockVars, noveltyVars, patchVars, vars, side>>

\* The pins come first: TLC need not combine the cases of all parts.
MCInit ==
  /\ side \in {"batch", "lock", "novelty", "patch", "attempt"}
  /\ side # "lock" => host = [w \in Workers |-> CHOOSE p \in Processes : TRUE]
  /\ side # "attempt" => mode = CHOOSE m \in Modes : TRUE
  /\ BatchInit /\ LockInit /\ NoveltyInit /\ PatchInit /\ Init

BatchOf(A) == side = "batch" /\ A
  /\ UNCHANGED <<side, lockVars, noveltyVars, patchVars, vars>>
LockOf(A) == side = "lock" /\ A
  /\ UNCHANGED <<side, batchVars, noveltyVars, patchVars, vars>>
NoveltyOf(A) == side = "novelty" /\ A
  /\ UNCHANGED <<side, batchVars, lockVars, patchVars, vars>>
PatchOf(A) == side = "patch" /\ A
  /\ UNCHANGED <<side, batchVars, lockVars, noveltyVars, vars>>
AttemptOf(A) == side = "attempt" /\ A
  /\ UNCHANGED <<side, batchVars, lockVars, noveltyVars, patchVars>>

MCNext ==
  \/ BatchOf(BatchNext) \/ LockOf(LockNext) \/ NoveltyOf(NoveltyNext) \/ PatchOf(PatchNext)
  \/ AttemptOf(Next)

\* The batch's loop, the patch engine and the attempt go on; reviewers, promoters and
\* the other program are nobody's duty.
MCFairness ==
  /\ WF_mcVars(BatchOf(Loop)) /\ WF_mcVars(PatchOf(Engine))
  /\ WF_mcVars(AttemptOf(Next))
MCSpec == MCInit /\ [][MCNext]_mcVars /\ MCFairness
=============================================================================
