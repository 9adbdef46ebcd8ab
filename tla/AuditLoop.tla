------------------------------ MODULE AuditLoop ------------------------------
(***************************************************************************)
(* xoloop-audit: an auditor reads the target, a fixer proposes a change    *)
(* set, the change-set engine applies it and a command may validate it; a  *)
(* round that is refused is rolled back and ends the loop.  Both callers   *)
(* are programs that answer anything, or fail.                             *)
(*                                                                         *)
(* A file's content is the round that wrote it, 0 as it was.  The writes   *)
(* of one change set are PatchEngine's; here they are one step.            *)
(***************************************************************************)
EXTENDS Integers, FiniteSets

CONSTANTS Names,          \* the paths that a finding or a change set may name
          TargetFiles,    \* target.files
          Escapes,        \* names that are links to a file outside target.cwd
          NoFile,         \* the file of a finding that names none
          MaxRepairs,     \* maxRounds
          MaxUnrestored   \* bound on rollbacks that fail to restore a file

ASSUME AuditAssumption ==
    /\ TargetFiles \subseteq Names /\ Escapes \subseteq Names /\ NoFile \notin Names
    /\ TargetFiles \ Escapes # {}       \* AUDIT_TARGET_FILES_REQUIRED_FOR_APPLY_MODE
    /\ MaxRepairs \in Nat \ {0} /\ MaxUnrestored \in Nat

VARIABLES
    aMode, absolute, validates,   \* the mode; how target.files are written; --validate
    apc, auditRound, outcome,     \* outcome: the reason, or "converged"
    blocking,                     \* findings at or above the severity floor, by file
    asked,                        \* the findings that the fixer was shown
    change,                       \* the files of the change set
    files,                        \* contents
    before,                       \* preApplySnapshot and the engine's own
    audited,                      \* the contents that the last answered audit read
    unrestored                    \* files that a rollback could not restore

auditVars == <<aMode, absolute, validates, apc, auditRound, outcome, blocking, asked, change,
               files, before, audited, unrestored>>
auditConfig == <<aMode, absolute, validates>>

AuditInit ==
    /\ aMode \in {"read-only", "proposal-only", "apply"}
    /\ absolute \in BOOLEAN /\ validates \in BOOLEAN
    /\ apc = "audit" /\ auditRound = 1 /\ outcome = "none"
    /\ blocking = {} /\ asked = {} /\ change = {}
    /\ files = [n \in Names |-> 0] /\ before = files /\ audited = files
    /\ unrestored = {}

EndAudit(reason) == apc' = "done" /\ outcome' = reason
Continue(next) == apc' = next /\ UNCHANGED outcome

\* The scope of the runner is canonical: what a link leads to must be in the root.
InScope(name) == name \in TargetFiles \ Escapes

\* The scope of the fixer is lexical first: canonicalizeRepoRelative makes nothing of
\* an absolute path, so a target that is written as one leaves an empty allowlist.
FixerScope == IF absolute THEN {} ELSE TargetFiles \ Escapes

-----------------------------------------------------------------------------
\* The findings of the auditor and the static ones.  Read-only stops after them.
Audit(found) ==
    /\ apc = "audit"
    /\ blocking' = found /\ audited' = files
    /\ IF found = {} THEN EndAudit("converged")
       ELSE IF aMode = "read-only" THEN EndAudit("read-only") ELSE Continue("fix")
    /\ UNCHANGED <<auditConfig, auditRound, asked, change, files, before, unrestored>>

\* No answer, an empty one, or one with neither a finding nor the word that says
\* there is none: an error, never a clean audit.
AuditFails ==
    /\ apc = "audit" /\ EndAudit("threw")
    /\ UNCHANGED <<auditConfig, auditRound, blocking, asked, change, files, before, audited,
                   unrestored>>

\* The fixer sees the findings in its scope, and answers with files to change.
Fix(answer) ==
    /\ apc = "fix"
    /\ asked' = blocking \cap FixerScope
    /\ asked' = {} => answer = {}
    /\ change' = answer
    /\ IF answer = {} THEN EndAudit("no-fix-proposed")
       ELSE IF aMode = "proposal-only" THEN EndAudit("proposal-only-mode")
       ELSE IF \E n \in answer : ~InScope(n) THEN EndAudit("path-scope-violation")
       ELSE Continue("apply")
    /\ UNCHANGED <<auditConfig, auditRound, blocking, files, before, audited, unrestored>>

FixerFails ==
    /\ apc = "fix" /\ blocking \cap FixerScope # {} /\ EndAudit("threw")
    /\ UNCHANGED <<auditConfig, auditRound, blocking, asked, change, files, before, audited,
                   unrestored>>

\* The end of a round whose change set stays.
KeepFix ==
    /\ auditRound' = auditRound + 1
    /\ IF auditRound = MaxRepairs THEN EndAudit("max-rounds-exhausted") ELSE Continue("audit")

Written(names) == [n \in Names |-> IF n \in names THEN auditRound ELSE files[n]]

SnapshotOnce == IF auditRound = 1 THEN before' = files ELSE UNCHANGED before
Snapshot == before' = files

ApplyFix ==
    /\ apc = "apply"
    /\ Snapshot
    /\ files' = Written(change)
    /\ IF validates THEN Continue("validate") /\ UNCHANGED auditRound ELSE KeepFix
    /\ UNCHANGED <<auditConfig, blocking, asked, change, audited, unrestored>>

\* An operation does not fit, or the write of a file fails after those of others: the
\* engine restores them, and the runner does again with the handle of the error.
ApplyFails(lost) ==
    /\ apc = "apply"
    /\ lost \subseteq change /\ Cardinality(unrestored \cup lost) <= MaxUnrestored
    /\ Snapshot
    /\ files' = Written(lost) /\ unrestored' = unrestored \cup lost
    /\ EndAudit("apply-failed")
    /\ UNCHANGED <<auditConfig, auditRound, blocking, asked, change, audited>>

ValidateFix ==
    /\ apc = "validate" /\ KeepFix
    /\ UNCHANGED <<auditConfig, blocking, asked, change, files, before, audited, unrestored>>

\* The command failed or could not run: rollbackChangeSet, which reports no file that
\* it could not restore, so that the manual rollback behind it does not run.
ValidationFails(lost, reason) ==
    /\ apc = "validate"
    /\ lost \subseteq change /\ Cardinality(unrestored \cup lost) <= MaxUnrestored
    /\ files' = [n \in Names |-> IF n \in change \ lost THEN before[n] ELSE files[n]]
    /\ unrestored' = unrestored \cup lost
    /\ EndAudit(reason)
    /\ UNCHANGED <<auditConfig, auditRound, blocking, asked, change, before, audited>>

AuditStep ==
    \/ \E found \in SUBSET (Names \cup {NoFile}) : Audit(found)
    \/ \E answer \in SUBSET Names : Fix(answer)
    \/ \E lost \in SUBSET Names :
          \/ ApplyFails(lost)
          \/ \E reason \in {"validation-failed", "validation-threw"} :
                ValidationFails(lost, reason)
    \/ AuditFails \/ FixerFails \/ ApplyFix \/ ValidateFix

AuditSpec == AuditInit /\ [][AuditStep]_auditVars

-----------------------------------------------------------------------------
Rejections == {"apply-failed", "validation-failed", "validation-threw",
               "path-scope-violation", "no-fix-proposed"}
AuditTypeOK ==
    /\ aMode \in {"read-only", "proposal-only", "apply"}
    /\ {absolute, validates} \subseteq BOOLEAN
    /\ apc \in {"audit", "fix", "apply", "validate", "done"}
    /\ outcome \in Rejections \cup {"none", "converged", "read-only", "threw",
                                    "proposal-only-mode", "max-rounds-exhausted"}
    /\ auditRound \in 1..MaxRepairs + 1
    /\ blocking \subseteq Names \cup {NoFile} /\ {asked, change, unrestored} \subseteq SUBSET Names
    /\ {files, before, audited} \subseteq [Names -> 0..MaxRepairs]

\* When the loop ends on a verdict, the files are those that the last audit read, but
\* for what a rollback could not restore: a refused round leaves nothing behind and
\* takes nothing of an earlier round away, and "converged" says no finding of these
\* very files.
EndsAsAudited ==
    outcome \in Rejections \cup {"converged"} =>
        /\ \A n \in Names \ unrestored : files[n] = audited[n]
        /\ outcome = "converged" => blocking = {}

\* Whatever the auditor and the fixer answer, no file outside the target changes, nor
\* one that a link of the target leads to outside the root.
WritesInScope == \A n \in Names : files[n] # 0 => n \in TargetFiles \ Escapes

\* A blocking finding of a target file is shown to the fixer.
ScopedFindingIsAsked ==
    outcome = "no-fix-proposed" => blocking \cap (TargetFiles \ Escapes) \subseteq asked
=============================================================================
