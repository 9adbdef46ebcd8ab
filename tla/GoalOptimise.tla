---------------------------- MODULE GoalOptimise ----------------------------
(***************************************************************************)
(* lib/goal_optimise_runner.cjs: an agent proposes operations on the       *)
(* artifacts of a goal, the goal's suites verify the result, and it is     *)
(* kept if a target metric improved and none regressed beyond the budget.  *)
(*                                                                         *)
(* The evidence ledger is append-only and read in one way: a card shows    *)
(* the latest record of the current artifact hash.  So the ledger is the   *)
(* latest record of every content the artifacts have had.  A verdict is    *)
(* PASS_EVIDENCED or not; what a suite measures is an arbitrary choice,    *)
(* and so is which call throws.  Suites are quiet or noisy for good: quiet *)
(* ones report the same of the same content, noisy ones report samples,    *)
(* and whether a bootstrap interval over samples accepts is any choice.    *)
(***************************************************************************)
EXTENDS Integers, Sequences, SequencesExt

CONSTANTS
    Contents,      \* what the artifacts can hold
    Targets,       \* goal.metrics.targets
    Maximized,     \* those with direction "maximize"
    Values,        \* values a metric can take
    Missing,       \* a metric the suite did not report
    Threshold,     \* target.threshold, in percent
    MaxRegression, \* acceptance.max_metric_regression, in percent
    RoundLimit,    \* --rounds
    RestoreFaults  \* may restoring the artifacts from the snapshot fail?

ASSUME TargetAssumption == Maximized \subseteq Targets
ASSUME ValueAssumption  == Values \subseteq Nat /\ Missing \notin Values
ASSUME BudgetAssumption == Threshold \in Nat /\ MaxRegression \in Nat
ASSUME LimitAssumption  == RoundLimit \in Nat /\ RestoreFaults \in BOOLEAN

VARIABLES
    pc,        \* where the loop is
    round,     \* rounds of this run
    noisy,     \* do the suites report samples, another result each time?
    artifact,  \* what is on disk
    evidence,  \* the latest record of each content
    champion,  \* championCard
    handle,    \* rollbackHandle: the content before the candidate
    lineage,   \* history: the contents that were champion in this run
    strayed    \* history: a restore failed in this run

vars == <<pc, round, noisy, artifact, evidence, champion, handle, lineage, strayed>>

Metrics == [Targets -> Values \cup {Missing}]
Card    == [recorded : BOOLEAN, passes : BOOLEAN, metrics : Metrics]
NoCard  == [recorded |-> FALSE, passes |-> FALSE, metrics |-> [t \in Targets |-> Missing]]
Records == {c \in Card : c.recorded}

(* Every variable stays in its range.                                      *)
TypeOK ==
    /\ pc \in {"start", "round", "challenge", "judge", "stopped"}
    /\ round \in 0..RoundLimit
    /\ noisy \in BOOLEAN /\ strayed \in BOOLEAN
    /\ artifact \in Contents /\ handle \in Contents
    /\ evidence \in [Contents -> Card] /\ champion \in Card
    /\ lineage \in Seq(Contents)

Init ==
    /\ pc = "stopped" /\ round = 0 /\ noisy \in BOOLEAN
    /\ artifact \in Contents /\ handle = artifact
    /\ evidence = [c \in Contents |-> NoCard] /\ champion = NoCard
    /\ lineage = <<>> /\ strayed = FALSE

(* metricDelta: the relative gain in percent, compared without dividing.   *)
(* From a zero champion every other value counts as the worst regression.  *)
Gain(t, old, new) == 100 * (IF t \in Maximized THEN new - old ELSE old - new)
Comparable(old, new) == old # Missing /\ new # Missing
Improves(t, old, new) == Comparable(old, new) /\ old # 0 /\ Gain(t, old, new) > Threshold * old
Regresses(t, old, new) ==
    Comparable(old, new) /\ IF old = 0 THEN new # 0 ELSE Gain(t, old, new) < -MaxRegression * old

(* evaluateCandidate; its mutant forgets the protected metrics.            *)
AcceptsAnyGain(old, new) == \E t \in Targets : Improves(t, old.metrics[t], new.metrics[t])
Accepts(old, new) ==
    /\ \A t \in Targets : ~Regresses(t, old.metrics[t], new.metrics[t])
    /\ \E t \in Targets : Improves(t, old.metrics[t], new.metrics[t])

(* runGoalVerify measures what is on disk and appends the record; a quiet  *)
(* suite reports what it reported before.                                  *)
Verify ==
    \E r \in Records :
      /\ ~noisy /\ evidence[artifact].recorded => r = evidence[artifact]
      /\ evidence' = [evidence EXCEPT ![artifact] = r]
-----------------------------------------------------------------------------
(* The loop is started, again perhaps: with the artifacts as they are.     *)
Start ==
    /\ pc = "stopped"
    /\ pc' = "start" /\ round' = 0 /\ lineage' = <<>> /\ strayed' = FALSE
    /\ UNCHANGED <<noisy, artifact, evidence, champion, handle>>

(* A discovery blocker, a throw, or a champion that is not PASS_EVIDENCED  *)
(* ends the run before its first round.                                    *)
Blocked ==
    /\ pc = "start" /\ pc' = "stopped"
    /\ UNCHANGED <<round, noisy, artifact, evidence, champion, handle, lineage, strayed>>
VerifyChampion ==
    /\ pc = "start"
    /\ Verify
    /\ champion' = evidence'[artifact]
    /\ IF champion'.passes
       THEN pc' = "round" /\ lineage' = <<artifact>>
       ELSE pc' = "stopped" /\ UNCHANGED lineage
    /\ UNCHANGED <<round, noisy, artifact, handle, strayed>>

(* The round limit, an agent that failed, or one that has no operations.   *)
Stop ==
    /\ pc = "round" /\ pc' = "stopped"
    /\ UNCHANGED <<round, noisy, artifact, evidence, champion, handle, lineage, strayed>>

(* applyOperationSet; the result may be the content it started from.       *)
Apply ==
    /\ pc = "round" /\ round < RoundLimit
    /\ pc' = "challenge" /\ handle' = artifact
    /\ artifact' \in Contents
    /\ UNCHANGED <<round, noisy, evidence, champion, lineage, strayed>>

(* It throws: apply_reject.  The engine restores what it wrote; the card   *)
(* stays the champion's even when that fails.                              *)
ApplyThrows ==
    /\ pc = "round" /\ round < RoundLimit
    /\ round' = round + 1
    /\ \/ UNCHANGED <<artifact, strayed>>
       \/ RestoreFaults /\ artifact' \in Contents \ {artifact} /\ strayed' = TRUE
    /\ UNCHANGED <<pc, noisy, evidence, champion, handle, lineage>>

VerifyChallenger ==
    /\ pc = "challenge"
    /\ Verify
    /\ pc' = "judge"
    /\ UNCHANGED <<round, noisy, artifact, champion, handle, lineage, strayed>>

(* A throw out of the verification, or the death of the process, ends the  *)
(* run with the candidate on disk: there is no handler around it.          *)
Abandon ==
    /\ pc \in {"challenge", "judge"}
    /\ pc' = "stopped"
    /\ UNCHANGED <<round, noisy, artifact, evidence, champion, handle, lineage, strayed>>

(* accept: the challenger's card becomes the champion's.                   *)
Accept ==
    /\ pc = "judge"
    /\ evidence[artifact].passes /\ (noisy \/ Accepts(champion, evidence[artifact]))
    /\ pc' = "round" /\ round' = round + 1
    /\ champion' = evidence[artifact]
    /\ lineage' = Append(lineage, artifact)
    /\ UNCHANGED <<noisy, artifact, evidence, handle, strayed>>

(* rollbackOperationSet passes over a file that cannot be restored.        *)
RollbackForgotten == UNCHANGED <<artifact, strayed>>
Rollback ==
    \/ artifact' = handle /\ UNCHANGED strayed
    \/ RestoreFaults /\ UNCHANGED artifact /\ strayed' = (strayed \/ artifact # handle)

(* verify_reject and metric_reject: roll back, and look the card of what   *)
(* is on disk now up again.                                                *)
RefreshFromChallenger == champion' = evidence[artifact]
Refresh == champion' = evidence[artifact']
Reject ==
    /\ pc = "judge"
    /\ evidence[artifact].passes => noisy \/ ~Accepts(champion, evidence[artifact])
    /\ Rollback /\ Refresh
    /\ pc' = "round" /\ round' = round + 1
    /\ UNCHANGED <<noisy, evidence, handle, lineage>>

Next ==
    \/ Start \/ Blocked \/ VerifyChampion \/ Stop \/ Apply \/ ApplyThrows
    \/ VerifyChallenger \/ Abandon \/ Accept \/ Reject

Spec == Init /\ [][Next]_vars
-----------------------------------------------------------------------------
(* "Failed verification rolls back the candidate" (xo-optimise/SKILL.md):  *)
(* unless a restore failed, every round starts from the artifacts the run  *)
(* accepted last, or began with.                                           *)
RoundStartsAtChampion ==
    pc = "round" /\ ~strayed => artifact = Last(lineage)

(* The card a round compares its candidate with, kept in memory across     *)
(* rounds, is the one the ledger shows for the artifacts on disk.  Only a  *)
(* set of operations that was applied in part and not restored gets past   *)
(* it.                                                                     *)
CardIsCurrent ==
    pc = "round" /\ ~strayed => champion = evidence[artifact]

(* With a quiet suite the loop never goes on from a champion that does not *)
(* pass: rejecting a candidate that happens to leave the artifacts as they *)
(* were does not make it forget that.                                      *)
ChampionVerified ==
    pc = "round" /\ ~strayed /\ ~noisy => champion.passes

(* With a quiet suite that reports every target, and no regression budget, *)
(* the search makes progress: it never returns to artifacts it has left.   *)
Complete == \A c \in Contents : evidence[c].recorded => \A t \in Targets : evidence[c].metrics[t] # Missing
NeverReturns ==
    MaxRegression = 0 /\ ~noisy /\ ~strayed /\ Complete
      => \A i, j \in 1..Len(lineage) : lineage[i] = lineage[j] => i = j
=============================================================================
