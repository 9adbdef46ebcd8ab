----------------------------- MODULE PatchEngine -----------------------------
(***************************************************************************)
(* One patch set through lib/overnight_patch_engine.cjs (applyPatchSet,    *)
(* rollbackAppliedPatchSet, preflightPatchSet) or its twin                 *)
(* lib/change_set_engine.cjs, on the primitives of                         *)
(* lib/patch_engine_common.cjs.  Files are 1 .. N in the order of the      *)
(* first operation on each.                                                *)
(*                                                                         *)
(*   hash    preflight: record the bytes of every target   (UseManifest)   *)
(*   read    read every target, compute its new text in memory             *)
(*   check   re-hash one target against the manifest       (UseManifest)   *)
(*   write   temp file + rename over that target                           *)
(*   restore reverse walk over the written targets, on an error or when    *)
(*           the caller rejects the applied patch                          *)
(*                                                                         *)
(* Another program may edit, delete or revert a target between any two     *)
(* steps, and any write of the engine may fail.  A text is a number: 0 is  *)
(* an absent file, the k-th external edit installs k, and "patched" marks  *)
(* the result of the patch on a text.                                      *)
(***************************************************************************)
EXTENDS Naturals

CONSTANTS
  N,            \* number of files the patch set touches
  UseManifest,  \* TRUE: overnight engine; FALSE: bin/xoloop-apply-proposal
  Matching,     \* texts in which the SEARCH blocks resolve
  MaxEdits,     \* bound: steps of the other program
  MaxFaults     \* bound: writes of the engine that fail

ASSUME PatchAssumption ==
  /\ N \in Nat \ {0}
  /\ UseManifest \in BOOLEAN
  /\ Matching \in SUBSET (Nat \ {0})
  /\ MaxEdits \in Nat
  /\ MaxFaults \in Nat

VARIABLES
  disk,       \* [Files -> Content]
  expected,   \* verificationManifest: the bytes preflight saw
  orig,       \* entry.original / beforeContent: the text apply() read
  appliedFiles,    \* snapshot entries with applied: true
  patchPc, pos,    \* the phase and the file it is at
  raced,      \* did the other program write between the re-hash and the rename
  errors,     \* rollbackErrors: targets that could not be restored
  reported,   \* the part of them the caller is told
  edits, faults

patchVars == <<disk, expected, orig, appliedFiles, patchPc, pos, raced, errors, reported, edits, faults>>

Files == 1 .. N
Content == [text : Nat, patched : BOOLEAN]
Absent == [text |-> 0, patched |-> FALSE]
Original == [text |-> 1, patched |-> FALSE]
Patched(c) == [c EXCEPT !.patched = TRUE]
Resolves(c) == c.text \in Matching /\ ~c.patched

Phases == {"hash", "read", "check", "write", "applied", "restore", "undo"}
Outcomes == {"kept", "rejected", "failed", "undone", "crashed"}

PatchInit ==
  /\ disk = [f \in Files |-> Original]
  /\ expected = [f \in Files |-> Absent]
  /\ orig = [f \in Files |-> Absent]
  /\ appliedFiles = {}
  /\ patchPc = IF UseManifest THEN "hash" ELSE "read"
  /\ pos = 1
  /\ raced = FALSE
  /\ errors = {} /\ reported = {}
  /\ edits = 0 /\ faults = 0

\* The phase is done with the file at pos: go to the next file, or on.
Advance(again, next) ==
  IF pos < N THEN patchPc' = again /\ pos' = pos + 1 ELSE patchPc' = next /\ pos' = 1

\* preflightPatchSet: hash the raw bytes.  An unreadable target gets no
\* manifest entry (Absent), and its failure is left for apply() to find.
Hash ==
  /\ patchPc = "hash"
  /\ expected' = [expected EXCEPT ![pos] = disk[pos]]
  /\ Advance("hash", "read")
  /\ UNCHANGED <<disk, orig, appliedFiles, raced, errors, reported, edits, faults>>

\* applyPatchSet reads a target and resolves its SEARCH blocks in memory ...
Read ==
  /\ patchPc = "read"
  /\ Resolves(disk[pos])
  /\ orig' = [orig EXCEPT ![pos] = disk[pos]]
  /\ Advance("read", "check")
  /\ UNCHANGED <<disk, expected, appliedFiles, raced, errors, reported, edits, faults>>

\* ... and throws before anything is written if one does not resolve.
PatchReject ==
  /\ patchPc = "read"
  /\ ~Resolves(disk[pos])
  /\ patchPc' = "rejected"
  /\ UNCHANGED <<disk, expected, orig, appliedFiles, pos, raced, errors, reported, edits, faults>>

\* Mutant of Fail: the walk starts behind the failing file.
FailSkips == patchPc' = "restore" /\ pos' = IF pos > 2 THEN pos - 2 ELSE 1

\* The throw in the commit loop: rollbackFromSnapshot walks from the end.
PatchFail == patchPc' = "restore" /\ pos' = N

\* Re-hash the live bytes against the manifest entry, if there is one.
Check ==
  /\ patchPc = "check"
  /\ expected[pos] = Absent \/ disk[pos] = expected[pos]
  /\ patchPc' = "write"
  /\ raced' = FALSE
  /\ UNCHANGED <<disk, expected, orig, appliedFiles, pos, errors, reported, edits, faults>>

\* PATCH_VERIFICATION_DRIFT.
Drift ==
  /\ patchPc = "check"
  /\ expected[pos] # Absent /\ disk[pos] # expected[pos]
  /\ PatchFail
  /\ UNCHANGED <<disk, expected, orig, appliedFiles, raced, errors, reported, edits, faults>>

\* writeTempThenRename of the text computed from what apply() read.
Write ==
  /\ patchPc = "write"
  /\ disk' = [disk EXCEPT ![pos] = Patched(orig[pos])]
  /\ appliedFiles' = appliedFiles \cup {pos}
  /\ Advance("check", "applied")
  /\ UNCHANGED <<expected, orig, raced, errors, reported, edits, faults>>

\* The temp file or the rename fails; the target is as it was.
WriteFault ==
  /\ patchPc = "write"
  /\ faults < MaxFaults /\ faults' = faults + 1
  /\ PatchFail
  /\ UNCHANGED <<disk, expected, orig, appliedFiles, raced, errors, reported, edits>>

\* The caller keeps the patch, or calls rollbackAppliedPatchSet.
Keep ==
  /\ patchPc = "applied"
  /\ patchPc' = "kept"
  /\ UNCHANGED <<disk, expected, orig, appliedFiles, pos, raced, errors, reported, edits, faults>>

Undo ==
  /\ patchPc = "applied"
  /\ patchPc' = "undo" /\ pos' = N
  /\ UNCHANGED <<disk, expected, orig, appliedFiles, raced, errors, reported, edits, faults>>

\* rollbackFromSnapshot at one entry: only written targets are restored, a
\* failure is noted and the walk goes on.  The thrown error carries the notes;
\* rollbackAppliedPatchSet returns nothing, so there they are dropped.
RestoreEntry(errs) ==
  LET last == IF patchPc = "restore" THEN "failed" ELSE "undone" IN
  /\ errors' = errs
  /\ IF pos > 1
     THEN pos' = pos - 1 /\ UNCHANGED <<patchPc, reported>>
     ELSE /\ patchPc' = last
          /\ reported' = IF patchPc = "restore" THEN errs ELSE {}
          /\ UNCHANGED pos

Restore ==
  /\ patchPc \in {"restore", "undo"}
  /\ disk' = IF pos \in appliedFiles THEN [disk EXCEPT ![pos] = orig[pos]] ELSE disk
  /\ RestoreEntry(errors)
  /\ UNCHANGED <<expected, orig, appliedFiles, raced, edits, faults>>

RestoreFault ==
  /\ patchPc \in {"restore", "undo"}
  /\ pos \in appliedFiles
  /\ faults < MaxFaults /\ faults' = faults + 1
  /\ RestoreEntry(errors \cup {pos})
  /\ UNCHANGED <<disk, expected, orig, appliedFiles, raced, edits>>

Engine ==
  \/ Hash \/ Read \/ PatchReject \/ Check \/ Drift \/ Write \/ WriteFault
  \/ Keep \/ Undo \/ Restore \/ RestoreFault

\* The engine's process dies between two system calls.
PatchCrash ==
  /\ patchPc \in Phases
  /\ patchPc' = "crashed"
  /\ UNCHANGED <<disk, expected, orig, appliedFiles, pos, raced, errors, reported, edits, faults>>

\* Another program writes a target: a text of its own, nothing, or the text
\* the file started with.
External(f) ==
  /\ patchPc \in Phases
  /\ edits < MaxEdits /\ edits' = edits + 1
  /\ \/ disk' = [disk EXCEPT ![f] = [text |-> edits + 2, patched |-> FALSE]]
     \/ disk' = [disk EXCEPT ![f] = Absent]
     \/ disk' = [disk EXCEPT ![f] = Original]
  /\ raced' = (raced \/ (patchPc = "write" /\ f = pos))
  /\ UNCHANGED <<expected, orig, appliedFiles, patchPc, pos, errors, reported, faults>>

PatchNext == Engine \/ PatchCrash \/ \E f \in Files : External(f)

PatchSpec == PatchInit /\ [][PatchNext]_patchVars

\* The engine is synchronous code: once entered it runs to its end.
PatchFairSpec == PatchSpec /\ WF_patchVars(Engine)
-----------------------------------------------------------------------------
\* Every variable stays in its range.
PatchTypeOK ==
  /\ disk \in [Files -> Content]
  /\ expected \in [Files -> Content]
  /\ orig \in [Files -> Content]
  /\ appliedFiles \in SUBSET Files
  /\ patchPc \in Phases \cup Outcomes
  /\ pos \in Files
  /\ raced \in BOOLEAN
  /\ errors \in SUBSET Files
  /\ reported \in SUBSET Files
  /\ edits \in Nat
  /\ faults \in Nat

PatchedFiles == {f \in Files : disk[f].patched}

\* applyPatchSet that throws leaves no half-applied patch behind: a target
\* still carrying the patch is in the rollbackErrors of the thrown error, even
\* when other programs wrote to the targets and writes failed on the way.
HalfPatchReported == patchPc = "failed" => PatchedFiles \subseteq reported

\* While the engine runs, a target holds the patch only if its snapshot entry
\* says so: a rollback at this point would find everything there is to undo.
SnapshotCoversPatch == patchPc # "crashed" => PatchedFiles \subseteq appliedFiles

\* A rename replaces the very text the new content was computed from, unless
\* the other program wrote inside the window between re-hash and rename: a
\* concurrent writer is "detected and rejected rather than silently
\* overwritten" (overnight_patch_engine.cjs:341-344).
DriftNeverOverwritten ==
  [][\A f \in appliedFiles' \ appliedFiles : raced \/ disk[f] = orig[f]]_patchVars

\* What the manifest does give: outside that window only the very bytes that
\* preflight hashed are replaced.  (Not the same: an edit that is undone again
\* between the read and the re-hash passes, and preflight makes no entry for a
\* target it could not read.)
ManifestCatchesDrift ==
  [][\A f \in appliedFiles' \ appliedFiles :
       raced \/ expected[f] = Absent \/ disk[f] = expected[f]]_patchVars

\* A patch set that was rejected, failed or undone, with every restore
\* successful and nobody else writing, leaves the files as they were.
UndoneIsOriginal ==
  patchPc \in {"rejected", "failed", "undone"} /\ errors = {} /\ edits = 0
    => \A f \in Files : disk[f] = Original

\* A rollback tells its caller about every target it could not restore
\* (patch_engine_common.cjs:184-188).
RollbackFailuresReported ==
  patchPc \in {"failed", "undone"} => errors \subseteq reported

\* Started, the engine decides: kept, rejected, failed, undone or dead.
Decides == <>(patchPc \in Outcomes)
=============================================================================
