-------------------------- MODULE Attempts_proofs ---------------------------
(***************************************************************************)
(* Theorems about what an attempt leaves behind: the patch engine that     *)
(* applies a change set, and the attempt on one surface around it.  For    *)
(* every number of files and edits, every set of modes, every repair       *)
(* budget, with or without faults.                                         *)
(***************************************************************************)
EXTENDS PatchEngine, SurfaceAttempt, TLAPS

-----------------------------------------------------------------------------
(* The patch engine.                                                       *)

\* What apply() holds in memory is never a patched text.
OrigUnpatched == \A f \in Files : ~orig[f].patched

\* Nothing is written before the commit loop.
NothingWrittenYet == patchPc \in {"hash", "read", "rejected"} => appliedFiles = {}

\* The rollback walk has dealt with every target behind it.
WalkedBack ==
  patchPc \in {"restore", "undo"} =>
    \A f \in Files : f > pos /\ disk[f].patched => f \in errors

PatchIInv ==
  /\ PatchTypeOK
  /\ OrigUnpatched
  /\ NothingWrittenYet
  /\ SnapshotCoversPatch
  /\ WalkedBack
  /\ HalfPatchReported

\* The number of files is a positive natural.
LEMMA NIsNat == N \in Nat /\ N >= 1
  BY PatchAssumption DEF PatchAssumption

\* No file carries the patch and nothing is applied at the start.
LEMMA InitPatchIInv == PatchInit => PatchIInv
  <1> SUFFICES ASSUME PatchInit PROVE PatchIInv
    OBVIOUS
  <1>1. Original \in Content /\ Absent \in Content /\ ~Original.patched /\ ~Absent.patched
    BY DEF Original, Absent, Content
  <1>2. disk \in [Files -> Content] /\ expected \in [Files -> Content] /\ orig \in [Files -> Content]
    BY <1>1 DEF PatchInit
  <1>3. patchPc \in {"hash", "read"}
    BY DEF PatchInit
  <1>4. pos \in Files
    BY NIsNat DEF PatchInit, Files
  <1>5. appliedFiles = {} /\ errors = {} /\ reported = {} /\ edits = 0 /\ faults = 0 /\ raced = FALSE
    BY DEF PatchInit
  <1>6. \A f \in Files : ~disk[f].patched /\ ~orig[f].patched
    BY <1>1 DEF PatchInit
  <1>7. PatchTypeOK
    BY <1>2, <1>3, <1>4, <1>5 DEF PatchTypeOK, Phases
  <1>. QED
    BY <1>3, <1>5, <1>6, <1>7
    DEF PatchIInv, OrigUnpatched, NothingWrittenYet, SnapshotCoversPatch, PatchedFiles, WalkedBack,
        HalfPatchReported

\* One entry of the rollback walk: on to the entry before it, or to the end.
LEMMA RestoreEntryType ==
  ASSUME PatchTypeOK, patchPc \in {"restore", "undo"}, NEW errs \in SUBSET Files, RestoreEntry(errs)
  PROVE  /\ errors' = errs
         /\ patchPc' \in Phases \cup Outcomes
         /\ pos' \in Files
         /\ reported' \in SUBSET Files
         /\ pos > 1 => pos' = pos - 1 /\ patchPc' = patchPc /\ reported' = reported
         /\ pos <= 1 => patchPc' \in {"failed", "undone"} /\ (patchPc' = "failed" => reported' = errs)
  <1>1. pos \in Nat /\ pos >= 1 /\ pos <= N /\ patchPc \in Phases \cup Outcomes /\ reported \in SUBSET Files
    BY NIsNat DEF PatchTypeOK, Files
  <1>2. CASE pos > 1
    <2>1. pos' = pos - 1 /\ patchPc' = patchPc /\ reported' = reported /\ errors' = errs
      BY <1>2 DEF RestoreEntry
    <2>2. pos - 1 \in Files /\ ~(pos <= 1)
      BY NIsNat, <1>1, <1>2 DEF Files
    <2>. QED
      BY <1>1, <1>2, <2>1, <2>2
  <1>3. CASE ~(pos > 1)
    <2>1. patchPc' \in {"failed", "undone"} /\ pos' = pos /\ errors' = errs
      BY <1>3 DEF RestoreEntry
    <2>2. reported' \in {errs, {}} /\ (patchPc' = "failed" => reported' = errs)
      BY <1>3 DEF RestoreEntry
    <2>. QED
      BY <1>1, <1>3, <2>1, <2>2 DEF PatchTypeOK, Outcomes
  <1>. QED
    BY <1>2, <1>3

\* Every step, and a stutter, keeps the variables in their types.
LEMMA PatchTypePreserved == PatchTypeOK /\ [PatchNext]_patchVars => PatchTypeOK'
  <1> SUFFICES ASSUME PatchTypeOK, [PatchNext]_patchVars PROVE PatchTypeOK'
    OBVIOUS
  <1> USE NIsNat DEF PatchTypeOK, Files
  <1>c. Absent \in Content /\ Original \in Content /\ \A c \in Content : Patched(c) \in Content
    BY DEF Absent, Original, Patched, Content
  <1>1. CASE Hash
    BY <1>1 DEF Hash, Advance, Phases
  <1>2. CASE Read
    BY <1>2 DEF Read, Advance, Phases
  <1>3. CASE PatchReject \/ Keep
    BY <1>3 DEF PatchReject, Keep, Outcomes
  <1>3a. CASE Drift
    BY <1>3a DEF Drift, PatchFail, Phases
  <1>3b. CASE Undo
    BY <1>3b DEF Undo, Phases
  <1>4. CASE Check
    BY <1>4 DEF Check, Phases
  <1>5. CASE Write
    BY <1>5, <1>c DEF Write, Advance, Phases
  <1>6. CASE WriteFault
    BY <1>6 DEF WriteFault, PatchFail, Phases
  <1>7. CASE Restore
    <2>1. patchPc' \in Phases \cup Outcomes /\ pos' \in Files /\ errors' \in SUBSET Files /\ reported' \in SUBSET Files
      BY <1>7, RestoreEntryType DEF Restore
    <2>2. disk' \in [Files -> Content]
      BY <1>7 DEF Restore
    <2>. QED
      BY <1>7, <2>1, <2>2 DEF Restore
  <1>8. CASE RestoreFault
    <2>1. patchPc' \in Phases \cup Outcomes /\ pos' \in Files /\ errors' \in SUBSET Files /\ reported' \in SUBSET Files
      <3>1. errors \cup {pos} \in SUBSET Files
        OBVIOUS
      <3>. QED
        BY <3>1, <1>8, RestoreEntryType DEF RestoreFault
    <2>. QED
      BY <1>8, <2>1 DEF RestoreFault
  <1>9. CASE PatchCrash
    BY <1>9 DEF PatchCrash, Outcomes
  <1>10. ASSUME NEW f \in Files, External(f) PROVE PatchTypeOK'
    <2>1. [text |-> edits + 2, patched |-> FALSE] \in Content
      BY DEF Content
    <2>2. disk' \in [Files -> Content]
      BY <1>10, <2>1, <1>c DEF External
    <2>3. raced' \in BOOLEAN
      BY <1>10 DEF External
    <2>. QED
      BY <1>10, <2>2, <2>3 DEF External
  <1>11. CASE UNCHANGED patchVars
    BY <1>11 DEF patchVars
  <1>. QED
    BY <1>1, <1>2, <1>3, <1>3a, <1>3b, <1>4, <1>5, <1>6, <1>7, <1>8, <1>9, <1>10, <1>11 DEF PatchNext, Engine

\* Only Write puts a patched text on disk, after noting it in the snapshot;
\* the walk restores or reports every noted target before it ends.
LEMMA PatchPreserved == PatchIInv /\ PatchTypeOK' /\ [PatchNext]_patchVars => PatchIInv'
  <1> SUFFICES ASSUME PatchIInv, PatchTypeOK', [PatchNext]_patchVars PROVE PatchIInv'
    OBVIOUS
  <1> USE NIsNat DEF PatchIInv, OrigUnpatched, NothingWrittenYet, SnapshotCoversPatch, PatchedFiles,
                     WalkedBack, HalfPatchReported
  <1>t. /\ disk \in [Files -> Content] /\ orig \in [Files -> Content]
        /\ pos \in Nat /\ pos >= 1 /\ pos <= N /\ pos \in Files
        /\ \A f \in Files : f \in Nat /\ f >= 1 /\ f <= N
    BY DEF PatchTypeOK, Files
  <1>1. CASE Hash
    BY <1>t, <1>1 DEF Hash, Advance
  <1>2. CASE Read
    <2>1. ~disk[pos].patched /\ UNCHANGED <<disk, appliedFiles, errors, reported>>
      BY <1>2 DEF Read, Resolves
    <2>2. \A f \in Files : ~orig'[f].patched
      BY <1>t, <1>2, <2>1 DEF Read
    <2>3. patchPc = "read" /\ patchPc' \in {"read", "check"}
      BY <1>2 DEF Read, Advance
    <2>. QED
      BY <1>t, <2>1, <2>2, <2>3
  <1>3. CASE PatchReject
    BY <1>t, <1>3 DEF PatchReject
  <1>4. CASE Check \/ Keep
    BY <1>t, <1>4 DEF Check, Keep
  <1>5. CASE Drift \/ WriteFault
    BY <1>t, <1>5 DEF Drift, WriteFault, PatchFail
  <1>6. CASE Undo
    BY <1>t, <1>6 DEF Undo
  <1>7. CASE Write
    <2>1. patchPc' \in {"check", "applied"} /\ appliedFiles' = appliedFiles \cup {pos} /\ patchPc = "write"
      BY <1>7 DEF Write, Advance
    <2>2. \A f \in Files \ {pos} : disk'[f] = disk[f]
      BY <1>t, <1>7 DEF Write
    <2>. QED
      BY <1>7, <2>1, <2>2 DEF Write
  <1>8. CASE Restore
    <2>1. patchPc \in {"restore", "undo"} /\ errors \in SUBSET Files /\ PatchTypeOK
      BY <1>8 DEF Restore, PatchTypeOK
    <2>2. RestoreEntry(errors) /\ UNCHANGED <<orig, appliedFiles>>
      BY <1>8 DEF Restore
    <2>3. \A f \in Files \ {pos} : disk'[f] = disk[f]
      BY <1>t, <1>8 DEF Restore
    <2>4. ~disk'[pos].patched
      BY <1>t, <1>8, <2>1 DEF Restore
    <2>5. \A f \in Files : disk'[f].patched => f \in appliedFiles
      BY <2>1, <2>3, <2>4
    <2>6. CASE pos > 1
      <3>1. pos' = pos - 1 /\ patchPc' = patchPc /\ reported' = reported /\ errors' = errors
        BY <2>1, <2>2, <2>6, RestoreEntryType
      <3>2. \A f \in Files : f > pos' => f = pos \/ f > pos
        BY <1>t, <3>1
      <3>3. \A f \in Files : f > pos' /\ disk'[f].patched => f \in errors
        BY <2>1, <2>3, <2>4, <3>2
      <3>. QED
        BY <2>1, <2>2, <2>5, <3>1, <3>3
    <2>7. CASE pos <= 1
      <3>1. patchPc' \in {"failed", "undone"} /\ (patchPc' = "failed" => reported' = errors)
        BY <2>1, <2>2, <2>7, RestoreEntryType
      <3>2. \A f \in Files : disk'[f].patched => f \in errors
        BY <1>t, <2>1, <2>3, <2>4, <2>7
      <3>. QED
        BY <2>2, <2>5, <3>1, <3>2
    <2>. QED
      BY <1>t, <2>6, <2>7
  <1>9. CASE RestoreFault
    <2>1. patchPc \in {"restore", "undo"} /\ errors \cup {pos} \in SUBSET Files /\ PatchTypeOK
      BY <1>9, <1>t DEF RestoreFault, PatchTypeOK
    <2>2. RestoreEntry(errors \cup {pos}) /\ UNCHANGED <<disk, orig, appliedFiles>>
      BY <1>9 DEF RestoreFault
    <2>3. errors' = errors \cup {pos}
      BY <2>1, <2>2, RestoreEntryType
    <2>6. CASE pos > 1
      <3>1. pos' = pos - 1 /\ patchPc' = patchPc /\ reported' = reported
        BY <2>1, <2>2, <2>6, RestoreEntryType
      <3>2. \A f \in Files : f > pos' => f = pos \/ f > pos
        BY <1>t, <3>1
      <3>3. \A f \in Files : f > pos' /\ disk[f].patched => f \in errors'
        BY <2>1, <2>3, <3>2
      <3>4. SnapshotCoversPatch' /\ OrigUnpatched' /\ NothingWrittenYet' /\ HalfPatchReported'
        BY <2>1, <2>2, <3>1
      <3>5. WalkedBack'
        BY <2>2, <3>1, <3>3
      <3>. QED
        BY <3>4, <3>5
    <2>7. CASE pos <= 1
      <3>1. patchPc' \in {"failed", "undone"} /\ (patchPc' = "failed" => reported' = errors')
        BY <2>1, <2>2, <2>3, <2>7, RestoreEntryType
      <3>2. \A f \in Files : disk[f].patched => f \in errors'
        <4> SUFFICES ASSUME NEW f \in Files, disk[f].patched PROVE f \in errors'
          OBVIOUS
        <4>1. f = pos \/ f > pos
          BY <1>t, <2>7
        <4>. QED
          BY <2>1, <2>3, <4>1
      <3>. QED
        BY <2>1, <2>2, <3>1, <3>2
    <2>. QED
      BY <1>t, <2>6, <2>7
  <1>10. CASE PatchCrash
    BY <1>t, <1>10 DEF PatchCrash
  <1>11. ASSUME NEW f \in Files, External(f) PROVE PatchIInv'
    <2>1. ~disk'[f].patched /\ \A g \in Files \ {f} : disk'[g] = disk[g]
      BY <1>t, <1>11 DEF External, Absent, Original
    <2>2. UNCHANGED <<orig, appliedFiles, patchPc, pos, errors, reported>> /\ patchPc \in Phases
      BY <1>11 DEF External
    <2>. QED
      BY <1>t, <2>1, <2>2 DEF Phases
  <1>12. CASE UNCHANGED patchVars
    BY <1>t, <1>12 DEF patchVars
  <1>. QED
    BY <1>1, <1>2, <1>3, <1>4, <1>5, <1>6, <1>7, <1>8, <1>9, <1>10, <1>11, <1>12 DEF PatchNext, Engine

\* The inductive invariant of the patch engine holds in every behaviour.
THEOREM PatchIInvHolds == PatchSpec => []PatchIInv
  <1>1. PatchInit => PatchIInv
    BY InitPatchIInv
  <1>2. PatchIInv /\ [PatchNext]_patchVars => PatchIInv'
    BY PatchTypePreserved, PatchPreserved DEF PatchIInv
  <1>. QED
    BY <1>1, <1>2, PTL DEF PatchSpec

\* An apply that throws accounts for every target still carrying the patch.
THEOREM FailureAccountsForPatch == PatchSpec => []HalfPatchReported
  BY PatchIInvHolds, PTL DEF PatchIInv

\* The snapshot of a live engine names every target it has written.
THEOREM SnapshotComplete == PatchSpec => []SnapshotCoversPatch
  BY PatchIInvHolds, PTL DEF PatchIInv

\* Every variable stays in its type.
THEOREM PatchTypeCorrect == PatchSpec => []PatchTypeOK
  BY PatchIInvHolds, PTL DEF PatchIInv

\* Between a passed re-hash and the rename the target still holds what
\* preflight hashed, unless another program wrote meanwhile.
Rehashed == patchPc = "write" => raced \/ expected[pos] = Absent \/ disk[pos] = expected[pos]

\* Whatever is written outside the window between re-hash and rename replaces
\* bytes that preflight hashed.
THEOREM DriftIsCaught == PatchSpec => ManifestCatchesDrift
  <1>1. PatchInit => Rehashed
    BY DEF PatchInit, Rehashed
  <1>2. PatchTypeOK /\ Rehashed /\ [PatchNext]_patchVars => Rehashed'
    <2> SUFFICES ASSUME PatchTypeOK, Rehashed, [PatchNext]_patchVars, patchPc' = "write"
                 PROVE  raced' \/ expected'[pos'] = Absent \/ disk'[pos'] = expected'[pos']
      BY DEF Rehashed
    <2>1. CASE Check
      BY <2>1 DEF Check
    <2>2. ASSUME NEW f \in Files, External(f)
          PROVE  raced' \/ expected'[pos'] = Absent \/ disk'[pos'] = expected'[pos']
      BY <2>2 DEF External, Rehashed, PatchTypeOK
    <2>3. CASE UNCHANGED patchVars
      BY <2>3 DEF patchVars, Rehashed
    <2>4. CASE Hash \/ Read \/ PatchReject \/ Drift \/ Write \/ WriteFault \/ Keep \/ Undo \/ PatchCrash
      BY <2>4 DEF Hash, Read, PatchReject, Drift, Write, WriteFault, Keep, Undo, PatchCrash, Advance, PatchFail
    <2>5. CASE Restore \/ RestoreFault
      BY <2>5 DEF Restore, RestoreFault, RestoreEntry
    <2>. QED
      BY <2>1, <2>2, <2>3, <2>4, <2>5 DEF PatchNext, Engine
  <1>3. PatchTypeOK /\ Rehashed /\ [PatchNext]_patchVars
          => [\A f \in appliedFiles' \ appliedFiles :
                raced \/ expected[f] = Absent \/ disk[f] = expected[f]]_patchVars
    <2> SUFFICES ASSUME PatchTypeOK, Rehashed, [PatchNext]_patchVars, NEW f \in appliedFiles' \ appliedFiles
                 PROVE  raced \/ expected[f] = Absent \/ disk[f] = expected[f]
      OBVIOUS
    <2>1. appliedFiles' = appliedFiles \/ Write
      BY DEF PatchNext, Engine, Hash, Read, PatchReject, Check, Drift, WriteFault, Keep, Undo, Restore,
             RestoreFault, PatchCrash, External, patchVars
    <2>2. f = pos /\ patchPc = "write"
      BY <2>1 DEF Write
    <2>. QED
      BY <2>2 DEF Rehashed
  <1>. QED
    BY <1>1, <1>2, <1>3, PatchTypeCorrect, PTL DEF PatchSpec, ManifestCatchesDrift

-----------------------------------------------------------------------------
(* One attempt on one surface.                                             *)

Judging == {"quick", "requick", "full", "audit", "commit"}
Ended   == {"release", "publish", "remove", "done"}

(* What holds on the way to a commit: the current proposal has passed the  *)
(* gates before it is applied, its edits are in the tree while it is being *)
(* judged, and every judgement already given is about that tree.           *)
Vetting ==
    /\ pc \in {"apply", "reapply"} \cup Judging => proposal.id \in cleared
    /\ pc \in Judging => proposal.id \in tree
    /\ pc \in {"full", "audit", "commit"} => quick = tree
    /\ pc \in {"audit", "commit"} => full = tree
    /\ pc = "commit" => audit.id = proposal.id
    /\ pc \notin Ended => head = {}
    /\ CommitIsVetted

-----------------------------------------------------------------------------
(* The control variables keep their types whatever the data are.           *)
LEMMA ControlStep == ControlOK /\ [Next]_vars => ControlOK'
<1> SUFFICES ASSUME ControlOK, [Next]_vars PROVE ControlOK'
  OBVIOUS
<1> USE DEF ControlOK, git, report
<1>1. CASE CreateWorktree
  BY <1>1 DEF CreateWorktree
<1>2. CASE Baseline
  BY <1>2 DEF Baseline, Fail
<1>3. CASE Context
  BY <1>3 DEF Context, Fail, Discard
<1>4. CASE Propose
  BY <1>4 DEF Propose, Fail, Discard
<1>5. CASE Plan
  BY <1>5 DEF Plan, Fail, Discard
<1>6. CASE PlannerFails
  BY <1>6 DEF PlannerFails, Discard
<1>7. CASE Window
  BY <1>7 DEF Window, Discard
<1>8. CASE Edit
  BY <1>8 DEF Edit, Discard
<1>9. CASE StagedCheck
  BY <1>9 DEF StagedCheck, Discard
<1>10. CASE StagedRepair
  BY <1>10 DEF StagedRepair, Discard, Fail
<1>11. CASE Gate
  BY <1>11 DEF Gate, Discard
<1>12. CASE Apply
  BY <1>12 DEF Apply, Land, Reject, Fail, Discard
<1>13. CASE Repair
  BY <1>13 DEF Repair, Recheck, Discard, Catch, Fail, Rollback
<1>14. CASE Reapply
  BY <1>14 DEF Reapply, Land, Reject, Rollback, Fail
<1>15. CASE QuickPasses
  BY <1>15 DEF QuickPasses
<1>16. CASE QuickFails
  BY <1>16 DEF QuickFails, Rollback, Discard
<1>17. CASE FullValidation
  BY <1>17 DEF FullValidation, Rollback, Discard
<1>18. CASE Audit
  BY <1>18 DEF Audit, Rollback, Discard, Catch, Fail
<1>19. CASE Commit
  BY <1>19 DEF Commit, Rollback, Discard, Catch, Fail
<1>20. CASE Release \/ Publish \/ RemoveWorktree
  BY <1>20 DEF Release, Publish, RemoveWorktree
<1>21. CASE Done \/ UNCHANGED vars
  BY <1>21 DEF Done, vars
<1> QED
  BY <1>1, <1>2, <1>3, <1>4, <1>5, <1>6, <1>7, <1>8, <1>9, <1>10, <1>11, <1>12, <1>13,
   <1>14, <1>15, <1>16, <1>17, <1>18, <1>19, <1>20, <1>21 DEF Next

(* Proposals stay numbered subsets of the files, and every judgement stays *)
(* a set of proposal numbers.                                              *)
LEMMA BudgetType == Budget \in Nat
  BY RepairAssumption DEF Budget

\* The rollback of a caught attempt leaves a set of proposals in the worktree and what was applied
\* alone.
LEMMA CatchRestores == DataOK /\ Catch => tree' \subseteq Nat /\ applied' = applied
  BY DEF DataOK, Catch, Rollback

\* Every step keeps the types of the worktree, the proposals and the judgements.
LEMMA DataStep == DataOK /\ [Next]_vars => DataOK'
<1> SUFFICES ASSUME DataOK, [Next]_vars PROVE DataOK'
  OBVIOUS
<1> USE RepairAssumption DEF DataOK, git, judgement, proposer
<1>1. CASE CreateWorktree
  BY <1>1 DEF CreateWorktree
<1>2. CASE Baseline
  BY <1>2 DEF Baseline
<1>3. CASE Context
  BY <1>3 DEF Context
<1>4. CASE Propose
  BY <1>4 DEF Propose, Load, NewProposal
<1>5. CASE Plan
  BY <1>5, BudgetType DEF Plan, Load
<1>6. CASE PlannerFails
  BY <1>6, BudgetType DEF PlannerFails
<1>7. CASE Window
  BY <1>7 DEF Window
<1>8. CASE Edit
  BY <1>8, BudgetType DEF Edit, Load, NewProposal
<1>9. CASE StagedCheck
  BY <1>9 DEF StagedCheck
<1>10. CASE StagedRepair
  BY <1>10 DEF StagedRepair, NewProposal
<1>11. CASE Gate
  BY <1>11 DEF Gate
<1>12. CASE Apply
  BY <1>12 DEF Apply, Land, Reject
<1>13. CASE Repair
  <2>1. calls' \in Nat /\ UNCHANGED <<quick, full, audit, diff, head>>
    BY <1>13 DEF Repair
  <2>2. cleared' \subseteq Nat
    <3>1. cleared' = cleared \/ cleared' = cleared \cup {proposal.id + 1}
      BY <1>13, Zenon DEF Repair, Recheck
    <3>2. cleared \subseteq Nat /\ proposal.id + 1 \in Nat
      OBVIOUS
    <3> QED
      BY <3>1, <3>2
  <2>3. turns' \in Nat
    BY <1>13 DEF Repair
  <2>4. proposal'.id \in Nat /\ proposal'.files \subseteq Paths
    BY <1>13 DEF Repair, NewProposal
  <2>5. tree' \subseteq Nat /\ applied' = applied
    BY <1>13, CatchRestores DEF Repair
  <2> QED
    BY <2>1, <2>2, <2>3, <2>4, <2>5
<1>14. CASE Reapply
  BY <1>14 DEF Reapply, Land, Reject, Rollback
<1>15. CASE QuickPasses
  BY <1>15 DEF QuickPasses
<1>16. CASE QuickFails
  BY <1>16 DEF QuickFails, Rollback
<1>17. CASE FullValidation
  BY <1>17 DEF FullValidation, Rollback
<1>18. CASE Audit
  <2>1. UNCHANGED <<head, cleared, quick, full, diff, proposal, turns, calls>>
    BY <1>18 DEF Audit
  <2>2. audit'.verdict \in {"none", "accept", "deferred"} /\ audit'.id \in Nat /\ audit'.files \subseteq Paths
    BY <1>18 DEF Audit
  <2>3. tree' \subseteq Nat /\ applied' = applied
    BY <1>18, CatchRestores DEF Audit, Rollback
  <2> QED
    BY <2>1, <2>2, <2>3
<1>19. CASE Commit
  BY <1>19, CatchRestores DEF Commit
<1>20. CASE Release \/ Publish \/ RemoveWorktree
  BY <1>20 DEF Release, Publish, RemoveWorktree
<1>21. CASE Done \/ UNCHANGED vars
  BY <1>21 DEF Done, vars
<1> QED
  BY <1>1, <1>2, <1>3, <1>4, <1>5, <1>6, <1>7, <1>8, <1>9, <1>10, <1>11, <1>12, <1>13,
   <1>14, <1>15, <1>16, <1>17, <1>18, <1>19, <1>20, <1>21 DEF Next

(* The variables keep their types.                                         *)
THEOREM AttemptTypeCorrect == Spec => []TypeOK
<1>1. Init => ControlOK
  BY DEF Init, ControlOK
<1>2. Init => DataOK
  BY DEF Init, DataOK, NoProposal, NoPatch, NoAudit
<1> QED
  BY <1>1, <1>2, ControlStep, DataStep, PTL DEF Spec, TypeOK

-----------------------------------------------------------------------------
(* Whatever the attempt commits passed the gates, both validations and an  *)
(* auditor: the proposal that is committed, not one it replaced.           *)
THEOREM CommitsAreVetted == Spec => []CommitIsVetted
<1>1. Init => Vetting
  BY DEF Init, Vetting, Judging, Ended, CommitIsVetted
<1>2. Vetting /\ [Next]_vars => Vetting'
  <2> SUFFICES ASSUME Vetting, [Next]_vars PROVE Vetting'
    OBVIOUS
  <2> USE DEF Vetting, Judging, Ended, CommitIsVetted, git, judgement, report, proposer
  <2>1. CASE CreateWorktree
    BY <2>1 DEF CreateWorktree
  <2>2. CASE Baseline
    BY <2>2 DEF Baseline, Fail
  <2>3. CASE Context
    BY <2>3 DEF Context, Fail, Discard
  <2>4. CASE Propose
    BY <2>4 DEF Propose, NewProposal, Fail, Discard
  <2>5. CASE Plan
    BY <2>5 DEF Plan, Fail, Discard
  <2>6. CASE PlannerFails
    BY <2>6 DEF PlannerFails, Discard
  <2>7. CASE Window
    BY <2>7 DEF Window, Discard
  <2>8. CASE Edit
    BY <2>8 DEF Edit, NewProposal, Discard
  <2>9. CASE StagedCheck
    BY <2>9 DEF StagedCheck, Discard
  <2>10. CASE StagedRepair
    BY <2>10 DEF StagedRepair, NewProposal, Discard, Fail
  <2>11. CASE Gate
    BY <2>11 DEF Gate, Discard
  <2>12. CASE Apply
    BY <2>12 DEF Apply, Land, Reject, Fail, Discard
  <2>13. CASE Repair
    BY <2>13 DEF Repair, NewProposal, Recheck, Discard, Catch, Fail
  <2>14. CASE Reapply
    BY <2>14 DEF Reapply, Land, Fail
  <2>15. CASE QuickPasses
    BY <2>15 DEF QuickPasses
  <2>16. CASE QuickFails
    BY <2>16 DEF QuickFails, Discard
  <2>17. CASE FullValidation
    BY <2>17 DEF FullValidation, Discard
  <2>18. CASE Audit
    BY <2>18 DEF Audit, Discard, Catch, Fail
  <2>19. CASE Commit
    BY <2>19 DEF Commit, Discard, Catch, Fail
  <2>20. CASE Release \/ Publish \/ RemoveWorktree
    BY <2>20 DEF Release, Publish, RemoveWorktree
  <2>21. CASE Done \/ UNCHANGED vars
    BY <2>21 DEF Done, vars
  <2> QED
    BY <2>1, <2>2, <2>3, <2>4, <2>5, <2>6, <2>7, <2>8, <2>9, <2>10, <2>11, <2>12, <2>13,
       <2>14, <2>15, <2>16, <2>17, <2>18, <2>19, <2>20, <2>21 DEF Next
<1>3. Vetting => CommitIsVetted
  BY DEF Vetting
<1> QED
  BY <1>1, <1>2, <1>3, PTL DEF Spec

-----------------------------------------------------------------------------
(* Where the edits of an attempt are, as long as every restore worked: the *)
(* tree is the base commit until a patch lands, then holds the edits of    *)
(* the current proposal only, and what a rollback puts back is the base.   *)
InTree ==
    /\ pc \in {"check", "gate", "apply", "repair", "reapply"} \cup Judging => proposal.id # 0
    /\ pc \in {"create", "baseline", "context", "propose", "plan", "window", "edit", "check",
              "gate", "apply"} => applied.id = 0
    /\ pc \in Judging => applied.id # 0
    /\ pc \notin Ended => ~recorded /\ head = {}
    /\ ~residue =>
          /\ applied.base = {}
          /\ pc \notin Judging \cup Ended => tree = {}
          /\ pc \in Judging => tree = {proposal.id}
          /\ head \subseteq {proposal.id}
          /\ pc \in {"release", "publish"} /\ ~recorded => tree = {}
    /\ pc \in {"release", "publish"} /\ ~recorded /\ outcome = "discarded" => head = {}

\* Every step keeps the worktree at one proposal, or at none.
LEMMA InTreeStep == DataOK /\ InTree /\ [Next]_vars => InTree'
<1> SUFFICES ASSUME DataOK, InTree, [Next]_vars PROVE InTree'
  OBVIOUS
<1> USE DEF DataOK, InTree, Judging, Ended, git, judgement, report, proposer
<1>1. CASE CreateWorktree
  BY <1>1 DEF CreateWorktree
<1>2. CASE Baseline
  BY <1>2 DEF Baseline, Fail
<1>3. CASE Context
  BY <1>3 DEF Context, Fail, Discard
<1>4. CASE Propose
  BY <1>4 DEF Propose, NewProposal, Fail, Discard
<1>5. CASE Plan
  BY <1>5 DEF Plan, Fail, Discard
<1>6. CASE PlannerFails
  BY <1>6 DEF PlannerFails, Discard
<1>7. CASE Window
  BY <1>7 DEF Window, Discard
<1>8. CASE Edit
  BY <1>8 DEF Edit, NewProposal, Discard
<1>9. CASE StagedCheck
  BY <1>9 DEF StagedCheck, Discard
<1>10. CASE StagedRepair
  BY <1>10 DEF StagedRepair, NewProposal, Discard, Fail
<1>11. CASE Gate
  BY <1>11 DEF Gate, Discard
<1>12. CASE Apply
  BY <1>12 DEF Apply, Land, Reject, Fail, Discard
<1>13. CASE Repair
  <2>0. pc = "repair" /\ head = {} /\ ~recorded /\ recorded' = recorded
    BY <1>13 DEF Repair, Discard, Catch, Fail
  <2>1. CASE NewProposal(proposal'.files) /\ UNCHANGED git
    <3>1. proposal'.id # 0
      BY <2>1 DEF NewProposal
    <3>2. pc' \in {"reapply", "release"}
      BY <1>13 DEF Repair, Discard, Catch, Fail
    <3> QED
      BY <2>0, <2>1, <3>1, <3>2
  <2>2. CASE Catch /\ UNCHANGED <<proposal, head>>
    BY <2>0, <2>2 DEF Catch, Rollback, Fail
  <2> QED
    BY <1>13, <2>1, <2>2 DEF Repair, NewProposal
<1>14. CASE Reapply
  BY <1>14 DEF Reapply, Land, Reject, Rollback, Fail
<1>15. CASE QuickPasses
  BY <1>15 DEF QuickPasses
<1>16. CASE QuickFails
  BY <1>16 DEF QuickFails, Rollback, Discard
<1>17. CASE FullValidation
  BY <1>17 DEF FullValidation, Rollback, Discard
<1>18. CASE Audit
  BY <1>18 DEF Audit, Rollback, Discard, Catch, Fail
<1>19. CASE Commit
  BY <1>19 DEF Commit, Rollback, Discard, Catch, Fail
<1>20. CASE Release \/ Publish \/ RemoveWorktree
  BY <1>20 DEF Release, Publish, RemoveWorktree
<1>21. CASE Done \/ UNCHANGED vars
  <2>1. UNCHANGED vars
    BY <1>21 DEF Done
  <2>2. /\ UNCHANGED <<pc, proposal, applied, recorded, head, residue, tree, outcome>>
    BY <2>1 DEF vars
  <2> QED
    BY <2>2
<1> QED
  BY <1>1, <1>2, <1>3, <1>4, <1>5, <1>6, <1>7, <1>8, <1>9, <1>10, <1>11, <1>12, <1>13,
   <1>14, <1>15, <1>16, <1>17, <1>18, <1>19, <1>20, <1>21 DEF Next

(* An attempt reported without a commit has given the base commit back,    *)
(* whichever early return, catch clause or finally block it ended in; and  *)
(* a discarded one has committed nothing.                                  *)
THEOREM AttemptLeavesNoTrace == Spec => []NoCommitNoTrace
<1>1. Init => DataOK /\ InTree
  BY DEF Init, DataOK, InTree, Judging, Ended, NoProposal, NoPatch, NoAudit
<1>2. InTree => NoCommitNoTrace
  BY DEF InTree, NoCommitNoTrace
<1> QED
  BY <1>1, <1>2, DataStep, InTreeStep, PTL DEF Spec

(* A commit holds the edits of one proposal: a patch that was rolled back  *)
(* for a repair leaves nothing behind in it.                               *)
THEOREM CommitsHoldOneProposal == Spec => []CommitIsOneProposal
<1>1. Init => DataOK /\ InTree
  BY DEF Init, DataOK, InTree, Judging, Ended, NoProposal, NoPatch, NoAudit
<1>2. InTree => CommitIsOneProposal
  BY DEF InTree, CommitIsOneProposal
<1> QED
  BY <1>1, <1>2, DataStep, InTreeStep, PTL DEF Spec

(* What the summary of the diff covers: every file of the proposal that is *)
(* being judged, also when that proposal is the repair of the one that the *)
(* summary was taken from.                                                 *)
Summarised ==
    /\ pc \in Judging \cup {"requick"} => proposal.files \subseteq diff
    /\ pc \in {"repair", "reapply"} /\ applied.id # 0 => proposal.files \subseteq diff
    /\ pc = "commit" => audit.files \in {diff, {}}
    /\ AuditSeesCommit

\* Every step keeps the proposal's files in the diff that validation and audits are given.
LEMMA SummarisedStep == InTree /\ Summarised /\ [Next]_vars => Summarised'
<1> SUFFICES ASSUME InTree, Summarised, [Next]_vars PROVE Summarised'
  OBVIOUS
<1>0. /\ pc \notin Ended => head = {}
      /\ pc \in {"gate", "apply"} => applied.id = 0
  BY DEF InTree, Judging, Ended
<1> USE <1>0 DEF Summarised, AuditSeesCommit, Judging, Ended, git, judgement, report, proposer
<1>1. CASE CreateWorktree
  BY <1>1 DEF CreateWorktree
<1>2. CASE Baseline
  BY <1>2 DEF Baseline, Fail
<1>3. CASE Context
  BY <1>3 DEF Context, Fail, Discard
<1>4. CASE Propose
  BY <1>4 DEF Propose, Load, NewProposal, Fail, Discard
<1>5. CASE Plan
  BY <1>5 DEF Plan, Load, Fail, Discard
<1>6. CASE PlannerFails
  BY <1>6 DEF PlannerFails, Discard
<1>7. CASE Window
  BY <1>7 DEF Window, Discard
<1>8. CASE Edit
  BY <1>8 DEF Edit, Load, NewProposal, Discard
<1>9. CASE StagedCheck
  BY <1>9 DEF StagedCheck, Discard
<1>10. CASE StagedRepair
  BY <1>10 DEF StagedRepair, NewProposal, Compatible, Discard, Fail
<1>11. CASE Gate
  BY <1>11 DEF Gate, Discard
<1>12. CASE Apply
  BY <1>12 DEF Apply, Land, Reject, Fail, Discard
<1>13. CASE Repair
  BY <1>13 DEF Repair, NewProposal, Recheck, Compatible, Discard, Catch, Fail
<1>14. CASE Reapply
  BY <1>14 DEF Reapply, Land, Reject, Fail
<1>15. CASE QuickPasses
  BY <1>15 DEF QuickPasses
<1>16. CASE QuickFails
  BY <1>16 DEF QuickFails, Discard
<1>17. CASE FullValidation
  BY <1>17 DEF FullValidation, Discard
<1>18. CASE Audit
  BY <1>18 DEF Audit, Discard, Catch, Fail
<1>19. CASE Commit
  BY <1>19 DEF Commit, Discard, Catch, Fail
<1>20. CASE Release \/ Publish \/ RemoveWorktree
  BY <1>20 DEF Release, Publish, RemoveWorktree
<1>21. CASE Done \/ UNCHANGED vars
  BY <1>21 DEF Done, vars
<1> QED
  BY <1>1, <1>2, <1>3, <1>4, <1>5, <1>6, <1>7, <1>8, <1>9, <1>10, <1>11, <1>12, <1>13,
   <1>14, <1>15, <1>16, <1>17, <1>18, <1>19, <1>20, <1>21 DEF Next

(* The diff that the auditor reads covers every file of the commit.        *)
THEOREM AuditorsSeeTheCommit == Spec => []AuditSeesCommit
<1>1. Init => DataOK /\ InTree /\ Summarised
  BY DEF Init, DataOK, InTree, Summarised, AuditSeesCommit, Judging, Ended, NoProposal, NoPatch,
     NoAudit
<1>2. Summarised => AuditSeesCommit
  BY DEF Summarised
<1> QED
  BY <1>1, <1>2, DataStep, InTreeStep, SummarisedStep, PTL DEF Spec

(* The calls made so far are one more than the repair turns used, two more *)
(* once the editor of a staged attempt was asked, and a repair turn is     *)
(* taken only while one is left.                                           *)
Spent ==
    /\ turns <= Budget
    /\ pc \in {"create", "baseline", "context", "propose", "plan"} => turns = 0 /\ calls = 0
    /\ pc = "propose" => mode = "legacy"
    /\ pc = "plan" => mode # "legacy"
    /\ pc \in {"window", "edit", "check"} => mode = "staged"
    /\ pc \in {"repair", "reapply"} => mode = "legacy"
    /\ pc = "repair" => turns < RepairTurns
    /\ mode # "staged" /\ pc \notin Ended => calls <= turns + 1
    /\ pc \in {"window", "edit"} => calls <= turns + 1
    /\ mode = "staged" /\ pc \notin Ended => calls <= turns + 2
    /\ RepairBudget

\* Every step keeps the count of repair turns and calls within the budget.
LEMMA SpentStep == ControlOK /\ DataOK /\ Spent /\ [Next]_vars => Spent'
<1> SUFFICES ASSUME ControlOK, DataOK, Spent, [Next]_vars PROVE Spent'
  OBVIOUS
<1>0. /\ turns \in Nat /\ calls \in Nat /\ RepairTurns \in Nat /\ mode' = mode
      /\ mode \in {"legacy", "staged", "planner-only"}
      /\ Budget \in Nat /\ Budget' = Budget
      /\ mode = "legacy" => Budget = RepairTurns
  <2>1. mode' = mode
    BY Zenon DEF Next, CreateWorktree, Baseline, Context, Propose, Plan, PlannerFails, Window, Edit, StagedCheck,
     StagedRepair, Gate, Apply, Repair, Reapply, QuickPasses, QuickFails, FullValidation, Audit, Commit,
     Release, Publish, RemoveWorktree, Done, vars
  <2>2. mode \in {"legacy", "staged", "planner-only"}
    BY ModesAssumption DEF ControlOK
  <2> QED
    BY <2>1, <2>2, RepairAssumption, BudgetType DEF DataOK, Budget
<1> USE <1>0 DEF Spent, RepairBudget, Judging, Ended, git, judgement, report, proposer
<1>1. CASE CreateWorktree
  BY <1>1 DEF CreateWorktree
<1>2. CASE Baseline
  BY <1>2 DEF Baseline, Fail
<1>3. CASE Context
  BY <1>3 DEF Context, Fail, Discard
<1>4. CASE Propose
  BY <1>4 DEF Propose, Load, NewProposal, Fail, Discard
<1>5. CASE Plan
  BY <1>5 DEF Plan, Load, Fail, Discard
<1>6. CASE PlannerFails
  BY <1>6 DEF PlannerFails, Discard
<1>7. CASE Window
  BY <1>7 DEF Window, Discard
<1>8. CASE Edit
  BY <1>8 DEF Edit, Load, NewProposal, Discard
<1>9. CASE StagedCheck
  BY <1>9 DEF StagedCheck, Discard
<1>10. CASE StagedRepair
  BY <1>10 DEF StagedRepair, NewProposal, Compatible, Discard, Fail
<1>11. CASE Gate
  BY <1>11 DEF Gate, Discard
<1>12. CASE Apply
  BY <1>12 DEF Apply, Land, Reject, Fail, Discard
<1>13. CASE Repair
  BY <1>13 DEF Repair, NewProposal, Recheck, Compatible, Discard, Catch, Fail
<1>14. CASE Reapply
  BY <1>14 DEF Reapply, Land, Reject, Fail
<1>15. CASE QuickPasses
  BY <1>15 DEF QuickPasses
<1>16. CASE QuickFails
  BY <1>16 DEF QuickFails, Discard
<1>17. CASE FullValidation
  BY <1>17 DEF FullValidation, Discard
<1>18. CASE Audit
  BY <1>18 DEF Audit, Discard, Catch, Fail
<1>19. CASE Commit
  BY <1>19 DEF Commit, Discard, Catch, Fail
<1>20. CASE Release \/ Publish \/ RemoveWorktree
  BY <1>20 DEF Release, Publish, RemoveWorktree
<1>21. CASE Done \/ UNCHANGED vars
  BY <1>21 DEF Done, vars
<1> QED
  BY <1>1, <1>2, <1>3, <1>4, <1>5, <1>6, <1>7, <1>8, <1>9, <1>10, <1>11, <1>12, <1>13,
   <1>14, <1>15, <1>16, <1>17, <1>18, <1>19, <1>20, <1>21 DEF Next

(* The proposer is never called more often than the budget of repair turns *)
(* allows, however the repairs are combined.                               *)
THEOREM RepairsAreBudgeted == Spec => []RepairBudget
<1>0. Init => ControlOK
  BY DEF Init, ControlOK
<1>1. Init => DataOK
  BY DEF Init, DataOK, NoProposal, NoPatch, NoAudit
<1>2. Init => Spent
  <2> SUFFICES ASSUME Init PROVE Spent
    OBVIOUS
  <2>1. turns = 0 /\ calls = 0 /\ pc = "create" /\ Budget \in Nat
    BY BudgetType DEF Init
  <2>2. RepairBudget
    BY <2>1 DEF RepairBudget
  <2> QED
    BY <2>1, <2>2 DEF Spent, Ended
<1>3. Spent => RepairBudget
  BY DEF Spent
<1> QED
  BY <1>0, <1>1, <1>2, <1>3, ControlStep, DataStep, SpentStep, PTL DEF Spec
=============================================================================
