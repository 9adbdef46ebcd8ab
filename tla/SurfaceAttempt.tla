--------------------------- MODULE SurfaceAttempt ---------------------------
(***************************************************************************)
(* One attempt on one surface: runSurfaceAttempt and the three executors   *)
(* it dispatches to (legacy, staged, planner-only) in overnight_engine.cjs.*)
(*                                                                         *)
(* A proposal is the set of files it edits plus a number: the n-th         *)
(* proposal the attempt obtained.  The worktree is the set of proposals    *)
(* whose edits are in it, so {} is the base commit.  What a model, a gate, *)
(* a validation command or a reviewer answers is an arbitrary choice, and  *)
(* so is which awaited call throws.                                        *)
(***************************************************************************)
EXTENDS Integers, FiniteSets

CONSTANTS
    Modes,         \* proposal modes the configuration may ask for
    Paths,         \* files a proposal may edit
    RepairTurns,   \* adapter.defaults.repairTurns
    RestoreFaults  \* may restoring a file from the snapshot fail?

ASSUME ModesAssumption   == Modes \subseteq {"legacy", "staged", "planner-only"}
ASSUME RepairAssumption  == RepairTurns \in Nat
ASSUME RestoreAssumption == RestoreFaults \in BOOLEAN

VARIABLES
    pc,        \* the statement the attempt is at
    mode,      \* proposalMode
    proposal,  \* report.proposal: [id, files], id 0 before the first one
    turns,     \* report.repairTurnsUsed
    calls,     \* calls made to the proposer so far
    cleared,   \* proposals that passed the gates after they were obtained
    tree,      \* proposals whose edits are in the worktree
    applied,   \* appliedPatchSet: [id, base], base being the snapshotted tree
    residue,   \* a restore failed, so the worktree may hold stale edits
    diff,      \* report.diffSummary.files
    quick,     \* the tree that passed quick validation, {} before
    full,      \* the tree that passed full validation, {} before
    audit,     \* report.audit: [verdict, id, files] as the auditor saw it
    head,      \* what the attempt's branch committed, {} before
    recorded,  \* report.commit is set
    lock,      \* the attempt's reservation of its target is in place
    worktree,  \* the worktree directory
    outcome,   \* report.outcome
    published  \* finalizeSurfaceAttempt ran to its end

git       == <<tree, applied, residue, head, worktree>>
judgement == <<cleared, quick, full, audit, diff>>
report    == <<outcome, recorded, published>>
proposer  == <<proposal, turns, calls>>
vars == <<pc, mode, lock, git, judgement, report, proposer>>

NoProposal == [id |-> 0, files |-> {}]
NoPatch    == [id |-> 0, base |-> {}]
NoAudit    == [verdict |-> "none", id |-> 0, files |-> {}]

(* The staged and planner-only executors cap the repair turns at one.      *)
Budget == IF mode = "legacy" \/ RepairTurns = 0 THEN RepairTurns ELSE 1

(* Every variable stays in its range: the control variables ...            *)
ControlOK ==
    /\ pc \in {"create", "baseline", "context", "propose", "plan", "window", "edit",
               "check", "gate", "apply", "repair", "reapply", "quick", "requick", "full",
               "audit", "commit", "release", "publish", "remove", "done"}
    /\ mode \in Modes
    /\ worktree \in {"absent", "present"}
    /\ outcome \in {"failed", "discarded", "kept", "pending-audit", "plan-only"}
    /\ residue \in BOOLEAN /\ recorded \in BOOLEAN
    /\ lock \in BOOLEAN /\ published \in BOOLEAN
(* ... and the data.                                                       *)
DataOK ==
    /\ proposal.id \in Nat /\ proposal.files \subseteq Paths
    /\ turns \in Nat /\ calls \in Nat
    /\ cleared \subseteq Nat /\ tree \subseteq Nat /\ head \subseteq Nat
    /\ quick \subseteq Nat /\ full \subseteq Nat
    /\ applied.id \in Nat /\ applied.base \subseteq Nat
    /\ diff \subseteq Paths
    /\ audit.verdict \in {"none", "accept", "deferred"}
    /\ audit.id \in Nat /\ audit.files \subseteq Paths
(* The type invariant: both.                                               *)
TypeOK == ControlOK /\ DataOK

Init ==
    /\ pc = "create" /\ mode \in Modes /\ proposal = NoProposal
    /\ turns = 0 /\ calls = 0 /\ cleared = {} /\ tree = {} /\ applied = NoPatch
    /\ residue = FALSE /\ diff = {} /\ quick = {} /\ full = {} /\ audit = NoAudit
    /\ head = {} /\ recorded = FALSE /\ lock = FALSE
    /\ worktree = "absent" /\ outcome = "failed" /\ published = FALSE
-----------------------------------------------------------------------------
(* How an executor ends: every early return and every catch clause leads   *)
(* to the finally block of runSurfaceAttempt.                              *)
Discard == /\ outcome' = "discarded" /\ pc' = "release"
           /\ UNCHANGED <<recorded, published>>
Fail    == /\ outcome' = "failed" /\ pc' = "release"
           /\ UNCHANGED <<recorded, published>>

(* rollbackAppliedPatchSet: put the snapshot back, file by file; a file    *)
(* that cannot be written is passed over.                                  *)
RollbackForgotten == UNCHANGED <<tree, residue>>
Rollback ==
    \/ tree' = applied.base /\ UNCHANGED residue
    \/ RestoreFaults /\ residue' = TRUE /\ UNCHANGED tree

(* An exception inside the executor: the outer catch rolls back whatever   *)
(* appliedPatchSet still names, even when it was rolled back before.       *)
CatchForgetsRollback == Fail /\ UNCHANGED <<tree, residue, applied, worktree>>
Catch ==
    /\ Fail
    /\ IF applied.id # 0 THEN Rollback ELSE UNCHANGED <<tree, residue>>
    /\ UNCHANGED <<applied, worktree>>

(* applyPatchSetBounded: all blocks land, or the engine restores what it   *)
(* wrote and throws.                                                       *)
Land ==
    /\ tree' = tree \cup {proposal.id}
    /\ applied' = [id |-> proposal.id, base |-> tree]
    /\ UNCHANGED residue
Reject ==
    \/ UNCHANGED <<tree, residue>>
    \/ RestoreFaults /\ tree' = tree \cup {proposal.id} /\ residue' = TRUE

(* loadStructuredResponseWithRepair: up to k repair turns, k + 1 calls.    *)
Load(k) == /\ calls' = calls + k + 1
           /\ turns' = turns + k

NewProposal(files) == proposal' = [id |-> proposal.id + 1, files |-> files]

(* checkRepairCompatibility, and recheckProposalAfterRepair around it: a   *)
(* repair keeps to the files of the proposal it repairs and goes through   *)
(* the gates again.                                                        *)
Compatible(files) == files # {} /\ files \subseteq proposal.files
RecheckSkipsGates(files) == Compatible(files) /\ UNCHANGED cleared
Recheck(files) == Compatible(files) /\ cleared' = cleared \cup {proposal.id + 1}
-----------------------------------------------------------------------------
(* createWorktree: git worktree add, then the node_modules link.  A throw  *)
(* before the add leaves nothing, one from the link leaves the worktree;   *)
(* in both cases worktreeCreated is still false and nothing is removed.    *)
CreateWorktree ==
    /\ pc = "create"
    /\ \/ pc' = "baseline" /\ worktree' = "present"
       \/ pc' = "done" /\ worktree' \in {"absent", "present"}
    /\ UNCHANGED <<mode, lock, tree, applied, residue, head, judgement, report, proposer>>

(* The status write, the event and the baseline run may throw straight     *)
(* out of the attempt; a dirty worktree is a failed attempt; and an empty  *)
(* context pack is a discarded one.                                        *)
Baseline ==
    /\ pc = "baseline"
    /\ \/ pc' = "context" /\ UNCHANGED report
       \/ pc' = "remove" /\ UNCHANGED report
       \/ Fail
    /\ UNCHANGED <<mode, lock, git, judgement, proposer>>
Context ==
    /\ pc = "context"
    /\ \/ pc' = (IF mode = "legacy" THEN "propose" ELSE "plan") /\ UNCHANGED report
       \/ Discard
       \/ Fail
    /\ UNCHANGED <<mode, lock, git, judgement, proposer>>

(* Legacy: the first proposal.  Turns are recorded only when the load      *)
(* succeeds.                                                               *)
Propose ==
    /\ pc = "propose"
    /\ \E k \in 0..RepairTurns :
         \/ /\ Load(k)
            /\ \E files \in SUBSET Paths :
                 /\ NewProposal(files)
                 /\ IF files = {} THEN Discard ELSE pc' = "gate" /\ UNCHANGED report
         \/ /\ calls' = calls + k + 1
            /\ Fail
            /\ UNCHANGED <<proposal, turns>>
    /\ UNCHANGED <<mode, lock, git, judgement>>

(* Staged and planner-only: a pinned plan (staged only) or one the planner *)
(* returns, the planner gate, and the reservation of its target.  The      *)
(* planner-only attempt ends here and gives its reservation back.          *)
Plan ==
    /\ pc = "plan"
    /\ \/ mode = "staged" /\ UNCHANGED <<calls, turns>>
       \/ \E k \in 0..Budget : Load(k)
    /\ \/ pc' = "window" /\ mode = "staged" /\ lock' = TRUE /\ UNCHANGED report
       \/ /\ mode = "planner-only"
          /\ outcome' = "plan-only" /\ pc' = "release"
          /\ UNCHANGED <<recorded, published, lock>>
       \/ (Discard \/ Fail) /\ UNCHANGED lock
    /\ UNCHANGED <<mode, proposal, git, judgement>>
PlannerFails ==
    /\ pc = "plan"
    /\ \E k \in 0..Budget : calls' = calls + k + 1
    /\ Discard
    /\ UNCHANGED <<mode, lock, proposal, turns, git, judgement>>

Window ==
    /\ pc = "window"
    /\ \/ pc' = "edit" /\ UNCHANGED report
       \/ Discard
    /\ UNCHANGED <<mode, lock, git, judgement, proposer>>

(* Staged: the editor's proposal, with the repair turns the planner left.  *)
Edit ==
    /\ pc = "edit"
    /\ \E k \in 0..(Budget - turns) :
         \/ /\ Load(k)
            /\ \E files \in SUBSET Paths : NewProposal(files)
            /\ pc' = "check" /\ UNCHANGED report
         \/ /\ calls' = calls + k + 1
            /\ Discard
            /\ UNCHANGED <<proposal, turns>>
    /\ UNCHANGED <<mode, lock, git, judgement>>

(* Staged: validateStagedEditorProposal and its single repair of a missed  *)
(* anchor.  The repair may not touch a file the first proposal did not.    *)
StagedCheck ==
    /\ pc = "check"
    /\ \/ proposal.files # {} /\ pc' = "gate" /\ UNCHANGED <<report, proposer>>
       \/ Discard /\ UNCHANGED proposer
    /\ UNCHANGED <<mode, lock, git, judgement>>
StagedRepair ==
    /\ pc = "check" /\ turns < Budget /\ proposal.files # {}
    /\ calls' = calls + 1
    /\ \/ /\ turns' = turns + 1
          /\ \E files \in SUBSET Paths :
               /\ NewProposal(files)
               /\ \/ Compatible(files) /\ pc' = "gate" /\ UNCHANGED report
                  \/ Discard
       \/ Discard /\ turns' = turns + 1 /\ UNCHANGED proposal
       \/ Fail /\ UNCHANGED <<turns, proposal>>
    /\ UNCHANGED <<mode, lock, git, judgement>>

(* gateProposal, the novelty check and (staged) the reference check.       *)
Gate ==
    /\ pc = "gate"
    /\ \/ cleared' = cleared \cup {proposal.id} /\ pc' = "apply" /\ UNCHANGED report
       \/ Discard /\ UNCHANGED cleared
    /\ UNCHANGED <<mode, lock, git, quick, full, audit, diff, proposer>>

Apply ==
    /\ pc = "apply"
    /\ \/ /\ Land
          /\ diff' = proposal.files
          /\ pc' = "quick" /\ UNCHANGED report
       \/ /\ Reject
          /\ IF mode = "legacy"
             THEN IF turns < RepairTurns THEN pc' = "repair" /\ UNCHANGED report ELSE Fail
             ELSE Discard
          /\ UNCHANGED <<applied, diff>>
    /\ UNCHANGED <<mode, lock, head, worktree, cleared, quick, full, audit, proposer>>

(* Legacy: one proposer call to repair a patch that did not apply or did   *)
(* not parse; recheckProposalAfterRepair keeps it to the original files    *)
(* and puts it through the gates again.                                    *)
Repair ==
    /\ pc = "repair"
    /\ calls' = calls + 1
    /\ \/ /\ turns' = turns + 1
          /\ \E files \in SUBSET Paths :
               /\ NewProposal(files)
               /\ \/ Recheck(files) /\ pc' = "reapply" /\ UNCHANGED report
                  \/ Discard /\ UNCHANGED cleared
          /\ UNCHANGED git
       \/ Catch /\ UNCHANGED <<turns, proposal, cleared, head>>
    /\ UNCHANGED <<mode, lock, quick, full, audit, diff>>

(* The repaired patch is applied once.  After an apply repair the summary  *)
(* of the diff is taken from it; after a syntax repair the summary of the  *)
(* first patch stays.                                                      *)
Reapply ==
    /\ pc = "reapply"
    /\ \/ /\ Land
          /\ IF applied.id = 0 THEN pc' = "quick" /\ diff' = proposal.files
                               ELSE pc' = "requick" /\ UNCHANGED diff
          /\ UNCHANGED report
       \/ /\ IF applied.id = 0 THEN Reject ELSE Rollback \/ Reject
          /\ Fail /\ UNCHANGED <<applied, diff>>
    /\ UNCHANGED <<mode, lock, head, worktree, cleared, quick, full, audit, proposer>>

(* Quick validation passes, fails on a syntax error that a repair turn is  *)
(* left for (legacy, first run only), or fails.                            *)
QuickPasses ==
    /\ pc \in {"quick", "requick"}
    /\ quick' = tree /\ pc' = "full"
    /\ UNCHANGED <<mode, lock, git, cleared, full, audit, diff, report, proposer>>
QuickFails ==
    /\ pc \in {"quick", "requick"}
    /\ Rollback
    /\ \/ pc = "quick" /\ mode = "legacy" /\ turns < RepairTurns
          /\ pc' = "repair" /\ UNCHANGED report
       \/ Discard
    /\ UNCHANGED <<mode, lock, applied, head, worktree, judgement, proposer>>

FullValidation ==
    /\ pc = "full"
    /\ \/ full' = tree /\ pc' = "audit" /\ UNCHANGED <<report, tree, residue>>
       \/ Rollback /\ Discard /\ UNCHANGED full
    /\ UNCHANGED <<mode, lock, applied, head, worktree, cleared, quick, audit, diff, proposer>>

(* runAuditGate: the packet holds the proposal and the diff of the files   *)
(* in the summary, which is empty when git diff fails.                     *)
Audit ==
    /\ pc = "audit"
    /\ \/ \E v \in {"accept", "deferred"}, seen \in {diff, {}} :
            /\ audit' = [verdict |-> v, id |-> proposal.id, files |-> seen]
            /\ pc' = "commit" /\ UNCHANGED <<report, tree, residue, applied, worktree>>
       \/ Rollback /\ Discard /\ UNCHANGED <<audit, applied, worktree>>
       \/ Catch /\ UNCHANGED audit
    /\ UNCHANGED <<mode, lock, head, cleared, quick, full, diff, proposer>>

(* commitAcceptedIteration: nothing left to commit, a commit, a throw      *)
(* before the commit, or one after it (rev-parse).                         *)
Commit ==
    /\ pc = "commit"
    /\ \/ tree' = {} /\ Discard /\ UNCHANGED <<head, residue, applied, worktree>>
       \/ /\ head' = tree /\ recorded' = TRUE
          /\ outcome' = (IF audit.verdict = "accept" THEN "kept" ELSE "pending-audit")
          /\ pc' = "release" /\ UNCHANGED <<published, tree, residue, applied, worktree>>
       \/ head' \in {head, tree} /\ Catch
    /\ UNCHANGED <<mode, lock, judgement, proposer>>

(* The finally blocks: give the reservation back, then write artifacts,    *)
(* ledger and manifest, then remove the worktree.  Each may throw; a       *)
(* failed removal is swallowed.                                            *)
ReleaseSkipped ==
    /\ pc = "release" /\ pc' = "publish"
    /\ UNCHANGED <<mode, lock, git, judgement, report, proposer>>
Release ==
    /\ pc = "release"
    /\ lock' = FALSE /\ pc' = "publish"
    /\ UNCHANGED <<mode, git, judgement, report, proposer>>
Publish ==
    /\ pc = "publish"
    /\ published' \in BOOLEAN /\ pc' = "remove"
    /\ UNCHANGED <<mode, lock, git, judgement, outcome, recorded, proposer>>
RemoveWorktree ==
    /\ pc = "remove"
    /\ worktree' \in {"absent", "present"} /\ pc' = "done"
    /\ UNCHANGED <<mode, lock, tree, applied, residue, head, judgement, report, proposer>>

Done == pc = "done" /\ UNCHANGED vars

Next ==
    \/ CreateWorktree \/ Baseline \/ Context \/ Propose \/ Plan \/ PlannerFails \/ Window
    \/ Edit \/ StagedCheck \/ StagedRepair \/ Gate \/ Apply \/ Repair \/ Reapply
    \/ QuickPasses \/ QuickFails \/ FullValidation \/ Audit \/ Commit
    \/ Release \/ Publish \/ RemoveWorktree \/ Done

Spec == Init /\ [][Next]_vars

(* Every awaited call returns or throws: model calls, git and the          *)
(* validation commands all run to an end of some kind.                     *)
FairSpec == Spec /\ WF_vars(Next)
-----------------------------------------------------------------------------
(* What the attempt commits went through everything that guards a commit:  *)
(* the gates saw this very proposal (also when it is a repair), the tree   *)
(* committed is the one both validations passed on, and an auditor judged  *)
(* or deferred that proposal and not an earlier one.                       *)
CommitIsVetted ==
    head # {} => /\ proposal.id \in cleared
                 /\ quick = head /\ full = head
                 /\ audit.id = proposal.id /\ audit.id \in head

(* Unless a restore failed, a commit holds the edits of one proposal: a    *)
(* patch that was rolled back for repair leaves nothing behind in it.      *)
CommitIsOneProposal == head # {} /\ ~residue => head = {proposal.id}

(* The diff the auditor reads covers every file the commit changes, also   *)
(* when a syntax repair replaced the patch the summary was taken from.     *)
AuditSeesCommit ==
    head # {} /\ audit.files # {} => proposal.files \subseteq audit.files

(* An attempt reported without a commit has given the base commit back:    *)
(* nothing of it is left in the worktree unless a restore failed.  Only a  *)
(* failed attempt can leave a commit nobody recorded.                      *)
NoCommitNoTrace ==
    /\ pc \in {"release", "publish"} /\ ~recorded /\ ~residue => tree = {}
    /\ pc \in {"release", "publish"} /\ ~recorded /\ outcome = "discarded" => head = {}

(* The proposer is never called more often than the repair budget allows,  *)
(* however proposal, apply and validation repairs are combined.            *)
RepairBudget ==
    /\ turns <= Budget
    /\ calls <= Budget + (IF mode = "staged" THEN 2 ELSE 1)

(* Every attempt that began comes to an end, with its reservation given    *)
(* back.                                                                   *)
Ends == (pc # "create") ~> [](pc = "done" /\ ~lock)
=============================================================================
