------------------------- MODULE ChangeLoops_proofs -------------------------
(***************************************************************************)
(* Theorems about the loops that let a model change the user's files, and  *)
(* about what those changes are judged by: Autoresearch and AuditLoop, the *)
(* apply of a proposal (ApplyProposal) and of a list of operations         *)
(* (OperationSets), the evidence cards of VerifyEvidence and the gap       *)
(* ledger of DiscoveryGaps.  For any iterations, judges, files, links,     *)
(* cases, observations, changes and operations, with the faults and the    *)
(* outside writes that the modules allow.                                  *)
(***************************************************************************)
EXTENDS Autoresearch, AuditLoop, VerifyEvidence, DiscoveryGaps, ApplyProposal, OperationSets,
        NaturalsInduction, WellFoundedInduction, TLAPS

(* Research.  Between an apply and the end of its iteration the files are  *)
(* HEAD and the change of this iteration, and `undo` is HEAD.              *)
Changing == {"validate", "council", "commit", "rollback"}

\* What HEAD holds, and whose quick commands passed, is of iterations so far.
Past ==
    /\ iter \in Nat
    /\ \A i \in head : i \in Nat /\ i <= iter /\ (rpc \notin {"count", "done"} => i < iter)
    /\ \A i \in green : i \in Nat /\ i <= iter
                        /\ (rpc \in {"propose", "apply", "validate"} => i < iter)

\* What may be committed: kept by the decision, approved where the council has to be
\* asked, and without a failed command on a baseline without one.
Vetted(i) ==
    /\ i \in worthy
    /\ council /\ ~failOpen /\ i \in green => i \in approved
    /\ sound => i \in green

\* HEAD has been vetted, and what is about to be committed has been; the council is
\* asked about what the validation let through.
HeadVetted ==
    /\ \A i \in head : Vetted(i)
    /\ rpc = "commit" => Vetted(iter)
    /\ rpc = "council" => iter \in worthy \cap green

\* While no git command and no restore has failed: where the contents stand.
Clean ==
    rfaults = 0 =>
        /\ rpc \in Changing => undo = head /\ disk = head \cup {iter}
        /\ rpc \notin Changing => disk = head
        /\ kind = "loop" =>
              /\ index = head
              /\ IF rpc \in Changing THEN junk \subseteq kept \cup {iter} ELSE junk \subseteq kept

ResearchIInv ==
    /\ rfaults \in Nat /\ kind \in {"loop", "section"} /\ council \in BOOLEAN
    /\ {failOpen, sound} \subseteq BOOLEAN
    /\ Past /\ HeadVetted /\ Clean

\* Nothing is proposed, applied or committed yet.
LEMMA ResearchInitIInv == ResearchInit => ResearchIInv
  BY DEF ResearchInit, ResearchIInv, Past, HeadVetted, Clean, Changing

\* The configuration of a run stays, and faults only add up.
LEMMA ResearchTypes ==
    ASSUME ResearchIInv, [ResearchStep]_researchVars
    PROVE  rfaults' \in Nat /\ UNCHANGED config
  <1> USE DEF ResearchIInv, config
  <1>1. ASSUME NEW b, CommitFails(b) \/ RollbackFails(b)
        PROVE  rfaults' \in Nat /\ UNCHANGED config
    BY <1>1 DEF CommitFails, RollbackFails
  <1>2. ASSUME NEW c, NEW b, SkipIteration(c) \/ Propose(c, b) \/ ApplyProposal(b) \/ Commit(b)
        PROVE  rfaults' \in Nat /\ UNCHANGED config
    BY <1>2 DEF SkipIteration, Propose, ApplyProposal, Commit
  <1>3. ASSUME NEW b, NEW c, NEW d, ValidateProposal(b, c, d) \/ Council(b, c)
        PROVE  rfaults' \in Nat /\ UNCHANGED config
    BY <1>3 DEF ValidateProposal, Council
  <1>4. CASE RollbackProposal \/ EndIteration
    BY <1>4 DEF RollbackProposal, EndIteration
  <1>5. CASE UNCHANGED researchVars
    BY <1>5 DEF researchVars
  <1>. QED
    BY <1>1, <1>2, <1>3, <1>4, <1>5 DEF ResearchStep

\* An iteration gets one number, later than those before it.
LEMMA PastPreserved == ASSUME ResearchIInv, [ResearchStep]_researchVars PROVE Past'
  <1> USE DEF ResearchIInv, Past, workspace, gates
  <1>1. ASSUME NEW c, NEW b, SkipIteration(c) \/ Propose(c, b) PROVE Past'
    BY <1>1 DEF SkipIteration, Propose, GoOn
  <1>2. ASSUME NEW b, ApplyProposal(b) PROVE Past'
    BY <1>2 DEF ApplyProposal
  <1>3. ASSUME NEW keep, NEW quick, NEW litter, ValidateProposal(keep, quick, litter)
        PROVE  Past'
    BY <1>3 DEF ValidateProposal
  <1>4. ASSUME NEW answered, NEW wins, Council(answered, wins) PROVE Past'
    BY <1>4 DEF Council
  <1>5. ASSUME NEW b, Commit(b) PROVE Past'
    BY <1>5 DEF Commit
  <1>6. ASSUME NEW b, CommitFails(b) \/ RollbackFails(b) PROVE Past'
    BY <1>6 DEF CommitFails, RollbackFails
  <1>7. CASE RollbackProposal
    BY <1>7 DEF RollbackProposal
  <1>8. CASE EndIteration
    BY <1>8 DEF EndIteration, GoOn
  <1>9. CASE UNCHANGED researchVars
    BY <1>9 DEF researchVars
  <1>. QED
    BY <1>1, <1>2, <1>3, <1>4, <1>5, <1>6, <1>7, <1>8, <1>9 DEF ResearchStep

\* Only a commit adds to HEAD, and only a gate that lets a change through leads to it.
LEMMA VettedPreserved == ASSUME ResearchIInv, [ResearchStep]_researchVars PROVE HeadVetted'
  <1> USE DEF ResearchIInv, HeadVetted, Vetted, Past, workspace, gates
  <1>0. UNCHANGED <<council, failOpen, sound>>
    BY ResearchTypes DEF config
  <1>1. ASSUME NEW c, NEW b, SkipIteration(c) \/ Propose(c, b) PROVE HeadVetted'
    BY <1>0, <1>1 DEF SkipIteration, Propose, GoOn
  <1>2. ASSUME NEW b, ApplyProposal(b) PROVE HeadVetted'
    BY <1>0, <1>2 DEF ApplyProposal
  <1>3. ASSUME NEW keep \in BOOLEAN, NEW quick \in BOOLEAN, NEW litter,
               ValidateProposal(keep, quick, litter)
        PROVE  HeadVetted'
    <2>1. iter \notin head /\ iter \notin green
      BY <1>3 DEF ValidateProposal
    <2>. QED
      BY <1>0, <1>3, <2>1 DEF ValidateProposal
  <1>4. ASSUME NEW answered \in BOOLEAN, NEW wins \in BOOLEAN, Council(answered, wins)
        PROVE  HeadVetted'
    BY <1>0, <1>4 DEF Council, CouncilKeeps
  <1>5. ASSUME NEW b \in BOOLEAN, Commit(b) PROVE HeadVetted'
    BY <1>0, <1>5 DEF Commit
  <1>6. ASSUME NEW b, CommitFails(b) \/ RollbackFails(b) PROVE HeadVetted'
    BY <1>0, <1>6 DEF CommitFails, RollbackFails
  <1>7. CASE RollbackProposal
    BY <1>0, <1>7 DEF RollbackProposal
  <1>8. CASE EndIteration
    BY <1>0, <1>8 DEF EndIteration, GoOn
  <1>9. CASE UNCHANGED researchVars
    BY <1>0, <1>9 DEF researchVars
  <1>10. Decisions \subseteq BOOLEAN /\ Verdicts \subseteq BOOLEAN
    <2>1. \A r, slower, faster, signal : Keep(r, slower, faster, signal) \in BOOLEAN
      BY DEF Keep
    <2>2. \A ballots : ChallengerWins(ballots) \in BOOLEAN
      BY DEF ChallengerWins
    <2>. QED
      BY <2>1, <2>2 DEF Decisions, Verdicts
  <1>. QED
    BY <1>1, <1>2, <1>3, <1>4, <1>5, <1>6, <1>7, <1>8, <1>9, <1>10 DEF ResearchStep

\* The proofs of Clean's steps are about iterations in which nothing failed: with a
\* fault before or in the step there is nothing to show.
LEMMA CleanPreserved == ResearchIInv /\ [ResearchStep]_researchVars => Clean'
  <1> SUFFICES ASSUME ResearchIInv, [ResearchStep]_researchVars, rfaults' = 0 PROVE Clean'
    BY DEF Clean
  <1> USE DEF ResearchIInv, Clean, Changing, config, workspace, gates
  <1>1. ASSUME NEW c, NEW b, SkipIteration(c) \/ Propose(c, b) PROVE Clean'
    BY <1>1 DEF SkipIteration, Propose, GoOn
  <1>2. ASSUME NEW b \in BOOLEAN, ApplyProposal(b) PROVE Clean'
    BY <1>2 DEF ApplyProposal
  <1>3. ASSUME NEW keep, NEW quick, NEW litter, ValidateProposal(keep, quick, litter)
        PROVE  Clean'
    <2>1. rpc' \in {"rollback", "council", "commit"} /\ rpc = "validate"
      BY <1>3 DEF ValidateProposal
    <2>2. junk' \subseteq junk \cup {iter}
      BY <1>3 DEF ValidateProposal
    <2>. QED
      BY <1>3, <2>1, <2>2 DEF ValidateProposal
  <1>4. ASSUME NEW answered, NEW wins, Council(answered, wins) PROVE Clean'
    <2>1. rpc' \in {"rollback", "commit"} /\ rpc = "council"
      BY <1>4 DEF Council
    <2>. QED
      BY <1>4, <2>1 DEF Council
  <1>5. ASSUME NEW staged \in BOOLEAN, Commit(staged) PROVE Clean'
    <2>1. undo = head /\ disk = head \cup {iter} /\ rfaults = 0
      BY <1>5 DEF Commit
    <2>2. disk' = head' /\ index' = head'
      BY <1>5, <2>1 DEF Commit
    <2>. QED
      BY <1>5, <2>1, <2>2 DEF Commit
  <1>6. ASSUME NEW resets \in BOOLEAN, CommitFails(resets) PROVE Clean'
    BY <1>6 DEF CommitFails, ResetIndex
  <1>7. CASE RollbackProposal
    BY <1>7 DEF RollbackProposal, CleanJunk
  <1>8. ASSUME NEW b, RollbackFails(b) PROVE Clean'
    BY <1>8 DEF RollbackFails
  <1>9. CASE EndIteration
    BY <1>9 DEF EndIteration, GoOn
  <1>10. CASE UNCHANGED researchVars
    BY <1>10 DEF researchVars
  <1>. QED
    BY <1>1, <1>2, <1>3, <1>4, <1>5, <1>6, <1>7, <1>8, <1>9, <1>10 DEF ResearchStep

\* The inductive invariant of the research loops holds in every behaviour.
THEOREM ResearchInductive == ResearchSpec => []ResearchIInv
  <1>1. ResearchInit => ResearchIInv
    BY ResearchInitIInv
  <1>2. ResearchIInv /\ [ResearchStep]_researchVars => ResearchIInv'
    BY ResearchTypes, PastPreserved, VettedPreserved, CleanPreserved DEF ResearchIInv, config
  <1>. QED
    BY <1>1, <1>2, PTL DEF ResearchSpec

\* Whatever models propose and judges answer, HEAD holds only what the validation let
\* through and, where its quick commands all passed, a council that was asked for and
\* may not be missing; on a baseline without a failure that is all of HEAD.
THEOREM ResearchCommitsVetted == ResearchSpec => []CommitsWereVetted
  <1>1. ResearchIInv => CommitsWereVetted
    BY DEF ResearchIInv, HeadVetted, Vetted, CommitsWereVetted
  <1>. QED
    BY <1>1, ResearchInductive, PTL

\* Unless git or a restore failed, every iteration starts from HEAD: files, index and
\* untracked files.
THEOREM IterationsStartAtHead == ResearchSpec => []StartsAtHead
  <1>1. ResearchIInv => StartsAtHead
    BY DEF ResearchIInv, Clean, Changing, StartsAtHead
  <1>. QED
    BY <1>1, ResearchInductive, PTL
-----------------------------------------------------------------------------
(* Audit.  Up to the apply the files are what the auditor read; then the   *)
(* snapshot is.                                                            *)
TargetScope == TargetFiles \ Escapes

AuditTypes ==
    /\ apc \in {"audit", "fix", "apply", "validate", "done"}
    /\ {files, before, audited} \subseteq [Names -> Nat] /\ auditRound \in Nat

\* What is applied, or may be put back, is in the scope of the target.
Scoped ==
    /\ apc \in {"apply", "validate"} => change \subseteq TargetScope
    /\ \A n \in Names : n \notin TargetScope => files[n] = 0 /\ before[n] = 0

\* No verdict before the end; until the apply the files are those of the last audit,
\* after it the snapshot is, and the change set made all the difference.
AsAudited ==
    /\ apc # "done" => outcome = "none"
    /\ apc \in {"fix", "apply"} => files = audited
    /\ apc = "validate" => /\ before = audited
                           /\ \A n \in Names \ change : files[n] = before[n]
    /\ EndsAsAudited

AuditIInv == AuditTypes /\ Scoped /\ AsAudited

\* No file is written before the first round.
LEMMA AuditInitIInv == AuditInit => AuditIInv
  BY DEF AuditInit, AuditIInv, AuditTypes, Scoped, AsAudited, EndsAsAudited, Rejections

\* The contents are written with the number of a round.
LEMMA AuditTypesPreserved == AuditIInv /\ [AuditStep]_auditVars => AuditTypes'
  <1> SUFFICES ASSUME AuditIInv, [AuditStep]_auditVars PROVE AuditTypes'
    OBVIOUS
  <1> USE DEF AuditIInv, AuditTypes, EndAudit, Continue
  <1>1. ASSUME NEW found, Audit(found) PROVE AuditTypes'
    BY <1>1 DEF Audit
  <1>2. ASSUME NEW answer, Fix(answer) PROVE AuditTypes'
    BY <1>2 DEF Fix
  <1>3. CASE ApplyFix
    BY <1>3 DEF ApplyFix, Snapshot, Written, KeepFix
  <1>4. ASSUME NEW lost, ApplyFails(lost) PROVE AuditTypes'
    BY <1>4 DEF ApplyFails, Snapshot, Written
  <1>5. ASSUME NEW lost, NEW reason, ValidationFails(lost, reason) PROVE AuditTypes'
    BY <1>5 DEF ValidationFails
  <1>6. CASE AuditFails \/ FixerFails
    BY <1>6 DEF AuditFails, FixerFails
  <1>7. CASE ValidateFix
    BY <1>7 DEF ValidateFix, KeepFix
  <1>8. CASE UNCHANGED auditVars
    BY <1>8 DEF auditVars
  <1>. QED
    BY <1>1, <1>2, <1>3, <1>4, <1>5, <1>6, <1>7, <1>8 DEF AuditStep

\* A change set reaches the apply only through the scope check of its round, and a
\* rollback restores what a round in scope had written.
LEMMA ScopedPreserved == AuditIInv /\ [AuditStep]_auditVars => Scoped'
  <1> SUFFICES ASSUME AuditIInv, [AuditStep]_auditVars PROVE Scoped'
    OBVIOUS
  <1> USE DEF AuditIInv, AuditTypes, Scoped, TargetScope, EndAudit, Continue
  <1>1. ASSUME NEW found, Audit(found) PROVE Scoped'
    BY <1>1 DEF Audit
  <1>2. ASSUME NEW answer, Fix(answer) PROVE Scoped'
    BY <1>2 DEF Fix, InScope
  <1>3. CASE ApplyFix
    BY <1>3 DEF ApplyFix, Snapshot, Written, KeepFix
  <1>4. ASSUME NEW lost, ApplyFails(lost) PROVE Scoped'
    BY <1>4 DEF ApplyFails, Snapshot, Written
  <1>5. ASSUME NEW lost, NEW reason, ValidationFails(lost, reason) PROVE Scoped'
    BY <1>5 DEF ValidationFails
  <1>6. CASE AuditFails \/ FixerFails
    BY <1>6 DEF AuditFails, FixerFails
  <1>7. CASE ValidateFix
    BY <1>7 DEF ValidateFix, KeepFix
  <1>8. CASE UNCHANGED auditVars
    BY <1>8 DEF auditVars
  <1>. QED
    BY <1>1, <1>2, <1>3, <1>4, <1>5, <1>6, <1>7, <1>8 DEF AuditStep

\* A round that is refused takes back its own change set and nothing else.
LEMMA AsAuditedPreserved == AuditIInv /\ [AuditStep]_auditVars => AsAudited'
  <1> SUFFICES ASSUME AuditIInv, [AuditStep]_auditVars PROVE AsAudited'
    OBVIOUS
  <1> USE DEF AuditIInv, AuditTypes, AsAudited, EndsAsAudited, Rejections, EndAudit, Continue
  <1>1. ASSUME NEW found, Audit(found) PROVE AsAudited'
    BY <1>1 DEF Audit
  <1>2. ASSUME NEW answer, Fix(answer) PROVE AsAudited'
    BY <1>2 DEF Fix
  <1>3. CASE ApplyFix
    <2>1. /\ before' = files /\ audited' = audited /\ change' = change
          /\ files' = Written(change)
      BY <1>3 DEF ApplyFix, Snapshot
    <2>2. \A n \in Names \ change : files'[n] = before'[n]
      BY <2>1 DEF Written
    <2>3. CASE validates
      BY <1>3, <2>1, <2>2, <2>3 DEF ApplyFix
    <2>4. CASE ~validates
      BY <1>3, <2>4 DEF ApplyFix, KeepFix
    <2>. QED
      BY <2>3, <2>4
  <1>4. ASSUME NEW lost, ApplyFails(lost) PROVE AsAudited'
    <2>1. files = audited /\ audited' = audited /\ unrestored' = unrestored \cup lost
      BY <1>4 DEF ApplyFails
    <2>2. \A n \in Names \ lost : files'[n] = audited[n]
      BY <1>4, <2>1 DEF ApplyFails, Written
    <2>. QED
      BY <1>4, <2>1, <2>2 DEF ApplyFails
  <1>5. ASSUME NEW lost, NEW reason \in {"validation-failed", "validation-threw"},
               ValidationFails(lost, reason)
        PROVE  AsAudited'
    <2>1. \A n \in Names \ lost : files'[n] = audited[n]
      BY <1>5 DEF ValidationFails
    <2>. QED
      BY <1>5, <2>1 DEF ValidationFails
  <1>6. CASE AuditFails \/ FixerFails
    BY <1>6 DEF AuditFails, FixerFails
  <1>7. CASE ValidateFix
    BY <1>7 DEF ValidateFix, KeepFix
  <1>8. CASE UNCHANGED auditVars
    BY <1>8 DEF auditVars
  <1>. QED
    BY <1>1, <1>2, <1>3, <1>4, <1>5, <1>6, <1>7, <1>8 DEF AuditStep

\* The inductive invariant of the audit loop holds in every behaviour.
THEOREM AuditInductive == AuditSpec => []AuditIInv
  <1>1. AuditInit => AuditIInv
    BY AuditInitIInv
  <1>2. AuditIInv /\ [AuditStep]_auditVars => AuditIInv'
    BY AuditTypesPreserved, ScopedPreserved, AsAuditedPreserved DEF AuditIInv
  <1>. QED
    BY <1>1, <1>2, PTL DEF AuditSpec

\* Whatever auditor and fixer answer, only files of the target change.
THEOREM AuditWritesInScope == AuditSpec => []WritesInScope
  <1>1. AuditIInv => WritesInScope
    BY DEF AuditIInv, Scoped, TargetScope, WritesInScope
  <1>. QED
    BY <1>1, AuditInductive, PTL

\* A verdict is one about the files as the auditor last read them.
THEOREM AuditVerdictIsOfTheFiles == AuditSpec => []EndsAsAudited
  <1>1. AuditIInv => EndsAsAudited
    BY DEF AuditIInv, AsAudited
  <1>. QED
    BY <1>1, AuditInductive, PTL

(****************************** verify evidence *****************************)

\* A set of naturals that is not empty has a least element.
LEMMA LeastNatural ==
  ASSUME NEW S \in SUBSET Nat, S # {}
  PROVE  \E n \in S : \A m \in S : n <= m
<1> DEFINE less == {ss \in Nat \X Nat : ss[1] < ss[2]}
<1>1. IsWellFoundedOn(less, Nat)
  BY NatLessThanWellFounded, Zenon DEF OpToRel
<1>2. \A m, n \in Nat : <<m, n>> \notin less => n <= m
  OBVIOUS
<1> HIDE DEF less
<1>3. PICK n \in S : \A m \in S : ~ (<<m, n>> \in less)
  BY <1>1, WFMin
<1>4. ASSUME NEW m \in S PROVE n <= m
  BY <1>2, <1>3, <1>4
<1> QED
  BY <1>4

\* A set of numbers up to k that is not empty has a greatest element.
LEMMA GreatestNatural ==
  ASSUME NEW k \in Nat, NEW S \in SUBSET (1 .. k), S # {}
  PROVE  \E n \in S : \A m \in S : m <= n
<1> DEFINE R == {k - n : n \in S}
<1>1. R \in SUBSET Nat /\ R # {}
  <2>1. \A n \in S : n \in 1 .. k /\ k - n \in Nat
    OBVIOUS
  <2>2. PICK n \in S : TRUE
    OBVIOUS
  <2>3. k - n \in R
    OBVIOUS
  <2> QED
    BY <2>1, <2>3
<1>2. \E n \in R : \A m \in R : n <= m
  <2> HIDE DEF R
  <2> QED
    BY <1>1, LeastNatural
<1>3. PICK n \in S : \A m \in R : k - n <= m
  BY <1>2
<1>4. ASSUME NEW m \in S PROVE m <= n
  <2>1. k - m \in R
    OBVIOUS
  <2> QED
    BY <1>3, <2>1
<1> QED
  BY <1>4
\* What checks say of the cases they are of, when none of them is a gap: one fails where
\* a case differs from its baseline, and else every obligation has a pass.
Says(checks, p, b, done) ==
    (\A v \in checks : v[2] # "gap") =>
        /\ (\E v \in checks : v[2] = "fail") <=> (\E c \in done : p[c] # b[c])
        /\ done # {} => <<"baseline_present", "pass">> \in checks
        /\ done # {} /\ (\A c \in done : p[c] = b[c]) => <<"behaviour", "pass">> \in checks

ContentsTyped ==
    /\ product \in [Cases -> Observations]
    /\ baseline \in [Cases -> Observations \cup {NoBaseline}]
    /\ \E S : records \in Seq(S)
RunningTyped ==
    \/ running = Idle
    \/ /\ running = [active |-> TRUE, manifest |-> running.manifest, todo |-> running.todo,
                     freeze |-> running.freeze, checks |-> running.checks,
                     whole |-> running.whole, moved |-> running.moved]
       /\ running.whole \in BOOLEAN /\ running.moved \in BOOLEAN
       /\ running.todo \subseteq Cases

\* A verification that no edit disturbs says of the cases it has done what they are, its
\* own new baselines included; so a record of all cases says it of the contents in its hash.
RunningSays ==
    running.active /\ running.whole /\ ~running.moved =>
        Says(running.checks, product, baseline, Cases \ running.todo)
RecordSays(r) ==
    r.whole /\ ~r.moved => Says(r.checks, r.hash[1], r.hash[2], Cases)
RecordsSay == \A i \in 1 .. Len(records) : RecordSays(records[i])

EvidenceIInv == ContentsTyped /\ RunningTyped /\ RunningSays /\ RecordsSay

\* Nothing runs and nothing is recorded.
LEMMA EvidenceInitIInv == EvidenceInit => EvidenceIInv
  <1> SUFFICES ASSUME EvidenceInit PROVE EvidenceIInv
    OBVIOUS
  <1>1. records \in Seq({}) /\ Len(records) = 0
    BY DEF EvidenceInit
  <1> QED
    BY <1>1 DEF EvidenceInit, EvidenceIInv, ContentsTyped, RunningTyped, RunningSays, RecordsSay, Idle

\* One more case, and what is compared or frozen of it.
LEMMA CompareSays ==
  ASSUME ContentsTyped, NEW checks, NEW done, NEW c \in Cases, c \notin done,
         Says(checks, product, baseline, done)
  PROVE  Says(checks \cup CompareCase(c), product, baseline, done \cup {c})
  <1>1. CASE baseline[c] = NoBaseline
    <2>1. <<"baseline_present", "gap">> \in CompareCase(c)
      BY <1>1 DEF CompareCase
    <2> QED
      BY <2>1 DEF Says
  <1>2. CASE baseline[c] # NoBaseline /\ product[c] = baseline[c]
    <2>1. CompareCase(c) = {<<"baseline_present", "pass">>, <<"behaviour", "pass">>}
      BY <1>2 DEF CompareCase
    <2> QED
      BY <1>2, <2>1 DEF Says
  <1>3. CASE baseline[c] # NoBaseline /\ product[c] # baseline[c]
    <2>1. CompareCase(c) = {<<"baseline_present", "pass">>, <<"behaviour", "fail">>}
      BY <1>3 DEF CompareCase
    <2> DEFINE more == checks \cup CompareCase(c)
    <2>2. <<"baseline_present", "pass">> \in more /\ <<"behaviour", "fail">> \in more
      BY <2>1
    <2> HIDE DEF more
    <2>3. \E v \in more : v[2] = "fail"
      BY <2>2
    <2>4. \E d \in done \cup {c} : product[d] # baseline[d]
      BY <1>3
    <2>5. Says(more, product, baseline, done \cup {c})
      BY <2>2, <2>3, <2>4 DEF Says
    <2> QED
      BY <2>5 DEF more
  <1> QED
    BY <1>1, <1>2, <1>3

\* Writing the first baseline of a case is right to say that the case passed.
LEMMA FreezeSays ==
  ASSUME ContentsTyped, NEW checks, NEW done \in SUBSET Cases, NEW c \in Cases, c \notin done,
         Says(checks, product, baseline, done)
  PROVE  Says(checks \cup AllPass, product, [baseline EXCEPT ![c] = product[c]], done \cup {c})
  <1> DEFINE new == [baseline EXCEPT ![c] = product[c]]
  <1>1. AllPass = {<<"baseline_present", "pass">>, <<"behaviour", "pass">>}
    BY DEF AllPass, Obligations
  <1>2. new[c] = product[c] /\ \A d \in done : new[d] = baseline[d]
    BY DEF ContentsTyped
  <1> HIDE DEF new
  <1>3. /\ (\E v \in checks \cup AllPass : v[2] = "fail") <=> \E v \in checks : v[2] = "fail"
        /\ (\A v \in checks \cup AllPass : v[2] # "gap") <=> \A v \in checks : v[2] # "gap"
    BY <1>1
  <1>4. (\E d \in done \cup {c} : product[d] # new[d]) <=> \E d \in done : product[d] # baseline[d]
    BY <1>2
  <1>5. Says(checks \cup AllPass, product, new, done \cup {c})
    BY <1>1, <1>3, <1>4 DEF Says
  <1> QED
    BY <1>5 DEF new

\* Each step of a verification, of an edit and of a record keeps what is said.
LEMMA EvidenceStepKeeps == EvidenceIInv /\ [EvidenceStep]_evidenceVars => EvidenceIInv'
  <1> SUFFICES ASSUME EvidenceIInv, [EvidenceStep]_evidenceVars PROVE EvidenceIInv'
    OBVIOUS
  <1> USE DEF EvidenceIInv
  <1>1. ASSUME NEW freeze \in BOOLEAN, NEW selected \in {Cases} \cup {{c} : c \in Cases},
               StartVerify(selected, freeze)
        PROVE  EvidenceIInv'
    <2>1. ContentsTyped' /\ RecordsSay'
      BY <1>1 DEF StartVerify, ContentsTyped, RecordsSay
    <2>2. selected \subseteq Cases
      OBVIOUS
    <2>3. running' = [active |-> TRUE, manifest |-> manifest, todo |-> selected, freeze |-> freeze,
                   checks |-> {}, whole |-> selected = Cases, moved |-> FALSE]
      BY <1>1 DEF StartVerify
    <2>4. RunningTyped'
      BY <2>2, <2>3 DEF RunningTyped
    <2>5. RunningSays'
      BY <2>3 DEF RunningSays, Says
    <2> QED
      BY <2>1, <2>4, <2>5
  <1>2. ASSUME NEW c \in Cases, VerifyCase(c) PROVE EvidenceIInv'
    <2>1. running.active /\ c \in running.todo /\ running # Idle
      BY <1>2 DEF VerifyCase, Idle
    <2>2. /\ product' = product /\ records' = records
          /\ baseline' = IF running.freeze THEN [baseline EXCEPT ![c] = product[c]] ELSE baseline
          /\ running' = [running EXCEPT !.todo = @ \ {c},
                           !.checks = @ \cup IF running.freeze THEN AllPass ELSE CompareCase(c)]
      BY <1>2 DEF VerifyCase
    <2>3. ContentsTyped' /\ RecordsSay'
      BY <2>2 DEF ContentsTyped, RecordsSay
    <2> DEFINE more == IF running.freeze THEN AllPass ELSE CompareCase(c)
    <2>4. running' = [active |-> TRUE, manifest |-> running.manifest, todo |-> running.todo \ {c},
                      freeze |-> running.freeze, checks |-> running.checks \cup more,
                      whole |-> running.whole, moved |-> running.moved]
      <3> HIDE DEF more
      <3>1. running' = [running EXCEPT !.todo = @ \ {c}, !.checks = @ \cup more]
        BY <2>2 DEF more
      <3> QED
        BY <2>1, <3>1 DEF RunningTyped
    <2>5. RunningTyped'
      BY <2>1, <2>4 DEF RunningTyped
    <2>6. RunningSays'
      <3> SUFFICES ASSUME running'.active, running'.whole, ~running'.moved
                   PROVE  Says(running'.checks, product, baseline', Cases \ running'.todo)
        BY <2>2 DEF RunningSays
      <3>1. Says(running.checks, product, baseline, Cases \ running.todo)
        BY <2>1, <2>4 DEF RunningSays
      <3>2. /\ running'.checks = running.checks \cup more
            /\ Cases \ running'.todo = (Cases \ running.todo) \cup {c}
        BY <2>1, <2>4
      <3>3. CASE running.freeze
        <4>1. baseline' = [baseline EXCEPT ![c] = product[c]] /\ more = AllPass
          BY <2>2, <3>3
        <4>2. c \notin Cases \ running.todo
          BY <2>1
        <4>3. Cases \ running.todo \in SUBSET Cases
          OBVIOUS
        <4> DEFINE done == Cases \ running.todo
        <4> HIDE DEF more, done
        <4>4. Says(running.checks \cup AllPass, product, [baseline EXCEPT ![c] = product[c]], done \cup {c})
          BY <3>1, <4>2, <4>3, FreezeSays DEF done
        <4> QED
          BY <3>2, <4>1, <4>4 DEF done
      <3>4. CASE ~running.freeze
        BY <2>1, <2>2, <3>1, <3>2, <3>4, CompareSays
      <3> QED
        BY <3>3, <3>4
    <2> QED
      BY <2>3, <2>5, <2>6
  <1>3. ASSUME NEW c \in Cases, NEW o \in Observations, EditProduct(c, o) PROVE EvidenceIInv'
    <2>1. ContentsTyped' /\ RecordsSay'
      BY <1>3 DEF EditProduct, ContentsTyped, RecordsSay
    <2>2. running' = IF running.active THEN [running EXCEPT !.moved = TRUE] ELSE Idle
      BY <1>3 DEF EditProduct
    <2>3. CASE running = Idle
      BY <2>1, <2>2, <2>3 DEF RunningTyped, RunningSays, Idle
    <2>4. CASE running # Idle
      <3>1. running.active
        BY <2>4 DEF RunningTyped
      <3> DEFINE yes == TRUE
      <3>2. running' = [running EXCEPT !.moved = yes]
        BY <2>2, <3>1
      <3>3. running' = [active |-> TRUE, manifest |-> running.manifest, todo |-> running.todo,
                        freeze |-> running.freeze, checks |-> running.checks,
                        whole |-> running.whole, moved |-> yes]
        <4>1. running = [active |-> TRUE, manifest |-> running.manifest, todo |-> running.todo,
                         freeze |-> running.freeze, checks |-> running.checks,
                         whole |-> running.whole, moved |-> running.moved]
          BY <2>4 DEF RunningTyped
        <4> HIDE DEF yes
        <4> QED
          BY <3>1, <3>2, <4>1
      <3>4. RunningTyped' /\ RunningSays'
        BY <2>4, <3>3 DEF RunningTyped, RunningSays
      <3> QED
        BY <2>1, <3>4
    <2> QED
      BY <2>3, <2>4
  <1>4. CASE AppendRecord
    <2> DEFINE r == [manifest |-> running.manifest, hash |-> ArtifactHash, checks |-> running.checks,
                     whole |-> running.whole, moved |-> running.moved]
    <2>1. /\ records' = Append(records, r) /\ running' = Idle /\ running.active
          /\ running.todo = {} /\ product' = product /\ baseline' = baseline
      BY <1>4 DEF AppendRecord
    <2>2. RecordSays(r)
      BY <2>1 DEF RunningSays, RecordSays, ArtifactHash
    <2> HIDE DEF r
    <2>3. PICK S : records \in Seq(S)
      BY DEF ContentsTyped
    <2>4. records \in Seq(S \cup {r})
      BY <2>3
    <2>5. /\ records' \in Seq(S \cup {r}) /\ Len(records') = Len(records) + 1
          /\ \A i \in 1 .. Len(records) : records'[i] = records[i]
          /\ records'[Len(records) + 1] = r /\ Len(records) \in Nat
      BY <2>1, <2>4
    <2>6. ContentsTyped' /\ RunningTyped' /\ RunningSays'
      BY <2>1, <2>5 DEF ContentsTyped, RunningTyped, RunningSays, Idle
    <2>7. RecordsSay'
      BY <2>2, <2>5 DEF RecordsSay
    <2> QED
      BY <2>6, <2>7
  <1>5. CASE VerifyDies
    <2>1. running' = Idle /\ ~running'.active
      BY <1>5 DEF VerifyDies, Idle
    <2> QED
      BY <1>5, <2>1 DEF VerifyDies, ContentsTyped, RunningTyped, RunningSays, RecordsSay
  <1>6. CASE EditManifest \/ UNCHANGED evidenceVars
    <2>1. UNCHANGED <<product, baseline, records, running>>
      BY <1>6 DEF EditManifest, evidenceVars
    <2> QED
      BY <2>1 DEF ContentsTyped, RunningTyped, RunningSays, RecordsSay
  <1> QED
    BY <1>1, <1>2, <1>3, <1>4, <1>5, <1>6 DEF EvidenceStep

\* The card reads one of the records whose hash is of now.
LEMMA LatestIsCurrent ==
  ASSUME ContentsTyped, HasCurrent
  PROVE  \E i \in CurrentRecords : Latest = records[i]
  <1>1. Len(records) \in Nat
    BY DEF ContentsTyped
  <1>2. CurrentRecords \in SUBSET (1 .. Len(records)) /\ CurrentRecords # {}
    BY DEF CurrentRecords, HasCurrent
  <1>3. \E i \in CurrentRecords : \A j \in CurrentRecords : j <= i
    BY <1>1, <1>2, GreatestNatural
  <1> QED
    BY <1>3 DEF Latest

\* What the card says of a trusted record is true of what is on disk now: the record has
\* the contents of now in its hash, and its checks say of all cases what they are.
THEOREM CardsTellTheTruth == EvidenceSpec => []CardTellsTruth
  <1>1. EvidenceIInv => CardTellsTruth
    <2> SUFFICES ASSUME EvidenceIInv, HasCurrent, Trusted(Latest)
                 PROVE  (Verdict = "PASS_EVIDENCED") = (\A c \in Cases : product[c] = baseline[c])
      BY DEF CardTellsTruth
    <2>1. PICK i \in CurrentRecords : Latest = records[i]
      BY LatestIsCurrent DEF EvidenceIInv
    <2>2. i \in 1 .. Len(records) /\ records[i].hash = <<product, baseline>>
      BY <2>1 DEF CurrentRecords, ArtifactHash
    <2>3. Latest.whole /\ ~Latest.moved /\ \A v \in Latest.checks : v[2] # "gap"
      BY DEF Trusted, Gap
    <2>4. Says(Latest.checks, product, baseline, Cases)
      BY <2>1, <2>2, <2>3 DEF EvidenceIInv, RecordsSay, RecordSays
    <2>5. /\ Failed(Latest) <=> \E c \in Cases : product[c] # baseline[c]
          /\ <<"baseline_present", "pass">> \in Latest.checks
          /\ (\A c \in Cases : product[c] = baseline[c]) => <<"behaviour", "pass">> \in Latest.checks
      BY <2>3, <2>4, EvidenceAssumption DEF Says, Failed
    <2>6. CASE \A c \in Cases : product[c] = baseline[c]
      <3>1. ~Failed(Latest) /\ MissingObligations(Latest) = {}
        BY <2>5, <2>6 DEF MissingObligations, Passed, Obligations
      <3>2. Verdict = "PASS_EVIDENCED"
        BY <3>1 DEF Verdict
      <3> QED
        BY <2>6, <3>2
    <2>7. CASE \E c \in Cases : product[c] # baseline[c]
      <3>1. Verdict = "FAIL"
        BY <2>5, <2>7 DEF Verdict
      <3> QED
        BY <2>7, <3>1
    <2> QED
      BY <2>6, <2>7
  <1> QED
    BY <1>1, EvidenceInitIInv, EvidenceStepKeeps, PTL DEF EvidenceSpec

\* An edit of the artifacts to something that no record was taken of leaves the card
\* without current evidence.
THEOREM EditsMakeStale == EvidenceSpec => EditMakesStale
  <1>1. [EvidenceStep]_evidenceVars =>
           [product' \notin {records[i].hash[1] : i \in 1..Len(records)}
              => Verdict' \in {"NO_EVIDENCE", "STALE"}]_product
    <2> SUFFICES ASSUME [EvidenceStep]_evidenceVars, product' # product,
                        product' \notin {records[i].hash[1] : i \in 1..Len(records)}
                 PROVE  Verdict' \in {"NO_EVIDENCE", "STALE"}
      OBVIOUS
    <2>1. records' = records
      BY DEF EvidenceStep, StartVerify, VerifyCase, EditProduct, AppendRecord, VerifyDies,
             EditManifest, evidenceVars
    <2>2. \A i \in 1 .. Len(records) : records[i].hash # <<product', baseline'>>
      OBVIOUS
    <2>3. ~HasCurrent'
      BY <2>1, <2>2 DEF HasCurrent, CurrentRecords, ArtifactHash
    <2> QED
      BY <2>3 DEF Verdict
  <1> QED
    BY <1>1, PTL DEF EvidenceSpec, EditMakesStale
(********************************* discovery ********************************)

\* A gap is settled by the proofs when the last run of some harness on the content that
\* was judged saw all that the gap requires of it.
Shown(ledger, gap) ==
  \E requirement \in Requires[gap] : \E i \in 1 .. ledger.runs :
     /\ proofs[i].kind = requirement[1] /\ proofs[i].of = ledger.judged
     /\ \A j \in i + 1 .. ledger.runs : proofs[j].kind = requirement[1] => proofs[j].of # ledger.judged
     /\ \A o \in requirement[2], c \in proofs[i].ran : <<o, c>> \notin ledger.judged.broken

\* A ledger that was judged: of the gaps that its scan met, those that do not block are
\* accepted there or shown.
Honest(ledger) ==
  /\ ledger.runs \in Nat /\ ledger.runs <= Len(proofs)
  /\ \A gap \in GapsIn(ledger.scanned) \ ledger.blocking :
        gap \in ledger.accepted \/ Shown(ledger, gap)

ProofsTyped == \E S : proofs \in Seq(S)
DiscoveryTyped ==
  \/ discovery = NoLedger
  \/ /\ discovery = [state |-> discovery.state, accepts |-> discovery.accepts,
                     scanned |-> discovery.scanned, ledger |-> discovery.ledger]
     /\ discovery.state \in {"scanned", "judged", "writing"}
LedgersHonest ==
  /\ discovery.state \in {"judged", "writing"} => Honest(discovery.ledger)
  /\ gapLedger.state = "whole" => Honest(gapLedger)
GateHolds ==
  gate.says = "go" /\ gapLedger.state = "whole" =>
     gapLedger.blocking \subseteq gate.accepted \cup gapLedger.accepted

DiscoveryIInv == ProofsTyped /\ DiscoveryTyped /\ LedgersHonest /\ GateHolds

\* What covers a gap is the last current run of a harness, with every requirement seen.
LEMMA CoveredIsShown ==
  ASSUME ProofsTyped, NEW gap \in {"route", "block", "mock", "review"}, Covered(gap),
         NEW ledger, ledger.runs = Len(proofs), ledger.judged = repo
  PROVE  Shown(ledger, gap)
  <1>1. PICK requirement \in Requires[gap] :
           requirement[2] \subseteq Evidence(requirement[1]).passed \ Evidence(requirement[1]).failed
    BY DEF Covered
  <1>2. requirement[2] # {} /\ requirement[1] \in Kinds
    BY DEF Requires, Kinds
  <1> DEFINE k == requirement[1]
             last == CHOOSE i \in Current(k) : \A j \in Current(k) : j <= i
  <1>3. Len(proofs) \in Nat
    BY DEF ProofsTyped
  <1>4. Current(k) # {} /\ Current(k) \in SUBSET (1 .. Len(proofs))
    BY <1>1, <1>2 DEF Evidence, Current
  <1>5. \E i \in Current(k) : \A j \in Current(k) : j <= i
    BY <1>3, <1>4, GreatestNatural
  <1>6. last \in Current(k) /\ \A j \in Current(k) : j <= last
    BY <1>5
  <1>7. Evidence(k) = [passed |-> PassedIn(proofs[last].of, proofs[last].ran, ObligationsOf[k]),
                       failed |-> FailedIn(proofs[last].of, proofs[last].ran, ObligationsOf[k])]
    BY <1>1, <1>2, <1>4 DEF Evidence
  <1> HIDE DEF last
  <1>8. last \in 1 .. Len(proofs) /\ proofs[last].kind = k /\ proofs[last].of = repo
    BY <1>6 DEF Current, IsCurrent
  <1>9. \A j \in last + 1 .. Len(proofs) : proofs[j].kind = k => proofs[j].of # repo
    BY <1>3, <1>6, <1>8 DEF Current, IsCurrent
  <1>10. \A o \in requirement[2], c \in proofs[last].ran : <<o, c>> \notin repo.broken
    <2>1. requirement[2] \subseteq Evidence(k).passed \ Evidence(k).failed
      BY <1>1
    <2> DEFINE p == proofs[last]
    <2>2. /\ Evidence(k).passed = PassedIn(p.of, p.ran, ObligationsOf[k])
          /\ Evidence(k).failed = FailedIn(p.of, p.ran, ObligationsOf[k])
      BY <1>7
    <2> HIDE DEF k, p
    <2>3. \A o \in requirement[2], c \in p.ran : <<o, c>> \notin p.of.broken
      BY <2>1, <2>2 DEF PassedIn, FailedIn
    <2> QED
      BY <1>8, <2>3 DEF p
  <1> QED
    BY <1>8, <1>9, <1>10 DEF Shown

\* Only a run is added to the proofs, behind those that a ledger was judged by.
LEMMA HonestStays ==
  ASSUME ProofsTyped, UNCHANGED <<action, policy>>,
         proofs' = proofs \/ \E p : proofs' = Append(proofs, p)
  PROVE  ProofsTyped' /\ \A l : Honest(l) => Honest(l)'
  <1>1. PICK S : proofs \in Seq(S)
    BY DEF ProofsTyped
  <1>2. /\ ProofsTyped' /\ Len(proofs) <= Len(proofs)' /\ Len(proofs)' \in Nat /\ Len(proofs) \in Nat
        /\ \A i \in 1 .. Len(proofs) : proofs'[i] = proofs[i]
    <2>1. CASE proofs' = proofs
      BY <1>1, <2>1 DEF ProofsTyped
    <2>2. ASSUME NEW p, proofs' = Append(proofs, p)
          PROVE  /\ proofs' \in Seq(S \cup {p}) /\ Len(proofs') = Len(proofs) + 1 /\ Len(proofs) \in Nat
                 /\ \A i \in 1 .. Len(proofs) : proofs'[i] = proofs[i]
      <3>1. proofs \in Seq(S \cup {p})
        BY <1>1
      <3> QED
        BY <2>2, <3>1
    <2>3. CASE \E p : proofs' = Append(proofs, p)
      <3>1. PICK p : proofs' = Append(proofs, p)
        BY <2>3
      <3>2. /\ proofs' \in Seq(S \cup {p}) /\ Len(proofs') = Len(proofs) + 1 /\ Len(proofs) \in Nat
            /\ \A i \in 1 .. Len(proofs) : proofs'[i] = proofs[i]
        BY <2>2, <3>1
      <3> QED
        BY <3>2 DEF ProofsTyped
    <2> QED
      BY <2>1, <2>3
  <1>3. ASSUME NEW l, Honest(l) PROVE Honest(l)'
    <2>1. l.runs \in Nat /\ l.runs <= Len(proofs)
      BY <1>3 DEF Honest
    <2>2. \A i \in 1 .. l.runs : proofs'[i] = proofs[i]
      BY <1>2, <2>1
    <2>3. ASSUME NEW gap, Shown(l, gap) PROVE Shown(l, gap)'
      <3>1. PICK requirement \in Requires[gap], i \in 1 .. l.runs :
               /\ proofs[i].kind = requirement[1] /\ proofs[i].of = l.judged
               /\ \A j \in i + 1 .. l.runs : proofs[j].kind = requirement[1] => proofs[j].of # l.judged
               /\ \A o \in requirement[2], c \in proofs[i].ran : <<o, c>> \notin l.judged.broken
        BY <2>3 DEF Shown
      <3>2. \A j \in i + 1 .. l.runs : j \in 1 .. l.runs
        BY <2>1
      <3> QED
        BY <2>2, <3>1, <3>2 DEF Shown
    <2>4. GapsIn(l.scanned)' = GapsIn(l.scanned)
      BY DEF GapsIn, Level
    <2> QED
      BY <1>2, <1>3, <2>1, <2>3, <2>4 DEF Honest
  <1> QED
    BY <1>2, <1>3

\* The gaps that a scan can meet, and what it makes of a dangerous action that no one allows.
LEMMA GapNames ==
  ASSUME policy \in DOMAIN PolicyLevel
  PROVE  /\ \A content : GapsIn(content) \subseteq {"route", "block", "mock", "review"}
         /\ "danger" \in action /\ "allowed" \notin action /\ policy # "allows" =>
               Level \in {"block", "mock"}
  <1>1. PolicyLevel[policy] \in {"", "block"} \/ (policy = "allows" /\ PolicyLevel[policy] = "safe")
    <2>1. policy \in {"absent", "unparsable", "allows", "blocks"}
      BY DEF PolicyLevel
    <2>2. /\ PolicyLevel["absent"] = "" /\ PolicyLevel["unparsable"] = ""
          /\ PolicyLevel["allows"] = "safe" /\ PolicyLevel["blocks"] = "block"
      BY DEF PolicyLevel
    <2> QED
      BY <2>1, <2>2
  <1>2. WordsLevel(action) \in {"safe", "block", "mock", "review"}
    BY DEF WordsLevel
  <1>3. "danger" \in action /\ "allowed" \notin action => WordsLevel(action) \in {"block", "mock"}
    BY DEF WordsLevel
  <1> HIDE DEF PolicyLevel, WordsLevel
  <1>4. Level \in {"safe", "block", "mock", "review"}
    BY <1>1, <1>2 DEF Level
  <1> QED
    BY <1>1, <1>3, <1>4 DEF Level, GapsIn

\* Nothing is scanned and nothing is written.
LEMMA DiscoveryInitIInv == DiscoveryInit => DiscoveryIInv /\ policy \in DOMAIN PolicyLevel
  <1> SUFFICES ASSUME DiscoveryInit PROVE DiscoveryIInv /\ policy \in DOMAIN PolicyLevel
    OBVIOUS
  <1>1. proofs \in Seq({})
    BY DEF DiscoveryInit
  <1> QED
    BY <1>1 DEF DiscoveryInit, DiscoveryIInv, ProofsTyped, DiscoveryTyped, LedgersHonest, GateHolds,
                NoLedger, Unasked

\* A judged ledger stays honest through every later edit, run and rewrite.
LEMMA DiscoveryStepKeeps ==
  ASSUME DiscoveryIInv, policy \in DOMAIN PolicyLevel, [DiscoveryStep]_discoveryVars
  PROVE  DiscoveryIInv' /\ policy' = policy
  <1> USE DEF DiscoveryIInv
  <1>1. /\ UNCHANGED <<action, policy>>
        /\ proofs' = proofs \/ \E p : proofs' = Append(proofs, p)
    BY DEF DiscoveryStep, discoveryVars, Scan, Judge, OpenLedger, FillLedger, ScannerStops, Edit,
           SetHarness, VerifyHarness, Gate
  <1>2. ProofsTyped' /\ \A l : Honest(l) => Honest(l)'
    BY <1>1, HonestStays
  <1>4. ASSUME NEW accepts \in Acceptable, Scan(accepts) PROVE DiscoveryIInv'
    BY <1>2, <1>4 DEF Scan, DiscoveryTyped, LedgersHonest, GateHolds, NoLedger
  <1>5. CASE Judge
    <2> DEFINE open == {g \in GapsIn(discovery.scanned) : Blocks(g, discovery.accepts)}
               new == [state |-> "whole", scanned |-> discovery.scanned, judged |-> repo,
                       runs |-> Len(proofs), accepted |-> discovery.accepts, blocking |-> open]
    <2>1. /\ discovery.state = "scanned"
          /\ discovery' = [discovery EXCEPT !.state = "judged", !.ledger = new]
          /\ UNCHANGED <<gapLedger, gate>>
      BY <1>5 DEF Judge
    <2>2. /\ new.scanned = discovery.scanned /\ new.judged = repo /\ new.runs = Len(proofs)
          /\ new.accepted = discovery.accepts /\ new.blocking = open
      OBVIOUS
    <2> HIDE DEF new
    <2>3. Honest(new)
      <3>1. Len(proofs) \in Nat
        BY DEF ProofsTyped
      <3>2. ASSUME NEW gap \in GapsIn(new.scanned) \ new.blocking, gap \notin new.accepted
            PROVE  Shown(new, gap)
        <4>1. gap \in {"route", "block", "mock", "review"}
          BY <2>2, <3>2, GapNames
        <4>2. Covered(gap)
          BY <2>2, <3>2 DEF Blocks
        <4> QED
          BY <2>2, <4>1, <4>2, CoveredIsShown
      <3> QED
        BY <2>2, <3>1, <3>2 DEF Honest
    <2>4. \A l : l = new => Honest(l)'
      BY <1>2, <2>3
    <2>5. discovery' = [state |-> "judged", accepts |-> discovery.accepts,
                        scanned |-> discovery.scanned, ledger |-> new]
      <3>1. discovery = [state |-> discovery.state, accepts |-> discovery.accepts,
                         scanned |-> discovery.scanned, ledger |-> discovery.ledger]
        BY <2>1 DEF DiscoveryTyped, NoLedger
      <3> QED
        BY <2>1, <3>1
    <2> QED
      BY <1>1, <1>2, <2>1, <2>4, <2>5 DEF DiscoveryTyped, LedgersHonest, GateHolds
  <1>6. CASE OpenLedger
    <2>1. /\ discovery.state = "judged" /\ gapLedger' = Torn /\ gate' = gate
          /\ discovery' = [discovery EXCEPT !.state = "writing"]
      BY <1>6 DEF OpenLedger
    <2>2. discovery' = [state |-> "writing", accepts |-> discovery.accepts,
                        scanned |-> discovery.scanned, ledger |-> discovery.ledger]
      <3>1. discovery = [state |-> discovery.state, accepts |-> discovery.accepts,
                         scanned |-> discovery.scanned, ledger |-> discovery.ledger]
        BY <2>1 DEF DiscoveryTyped, NoLedger
      <3> QED
        BY <2>1, <3>1
    <2>3. discovery'.ledger = discovery.ledger /\ gapLedger'.state # "whole"
      BY <2>1, <2>2 DEF Torn
    <2> QED
      BY <1>1, <1>2, <2>1, <2>2, <2>3 DEF DiscoveryTyped, LedgersHonest, GateHolds
  <1>7. CASE FillLedger /\ gate = Unasked
    <2>1. /\ discovery.state = "writing" /\ gapLedger' = discovery.ledger /\ gate' = Unasked
          /\ discovery' = NoLedger
      BY <1>7 DEF FillLedger
    <2>2. Honest(discovery.ledger)
      BY <2>1 DEF LedgersHonest
    <2>3. GateHolds' /\ DiscoveryTyped'
      BY <2>1 DEF GateHolds, DiscoveryTyped, Unasked
    <2> QED
      BY <1>1, <1>2, <2>1, <2>2, <2>3 DEF LedgersHonest, NoLedger
  <1>8. CASE ScannerStops
    BY <1>2, <1>8 DEF ScannerStops, DiscoveryTyped, LedgersHonest, GateHolds, NoLedger
  <1>9. ASSUME NEW accepted \in Acceptable, NEW asks \in BOOLEAN, Gate(accepted, asks)
        PROVE  DiscoveryIInv'
    BY <1>2, <1>9 DEF Gate, DiscoveryTyped, LedgersHonest, GateHolds, Blockers
  <1>10. ASSUME UNCHANGED <<gapLedger, discovery, gate>> PROVE DiscoveryIInv'
    BY <1>2, <1>10 DEF DiscoveryTyped, LedgersHonest, GateHolds
  <1>11. ASSUME NEW content, NEW k, NEW ran,
                Edit(content) \/ SetHarness(k) \/ VerifyHarness(k, ran)
         PROVE  DiscoveryIInv'
    BY <1>10, <1>11 DEF Edit, SetHarness, VerifyHarness
  <1>12. CASE UNCHANGED discoveryVars
    BY <1>10, <1>12 DEF discoveryVars
  <1> QED
    BY <1>1, <1>4, <1>5, <1>6, <1>7, <1>8, <1>9, <1>11, <1>12 DEF DiscoveryStep

\* A goal that a whole ledger lets through leaves no gap open that its scan met: what does
\* not block is accepted or shown, what blocks is accepted by the goal, and a dangerous
\* action that no one allows is one of the gaps.
THEOREM GatesLeaveNoneOpen == DiscoverySpec => []GateLeavesNoneOpen
  <1> DEFINE I == DiscoveryIInv /\ policy \in DOMAIN PolicyLevel
  <1>1. ASSUME NEW gap, Shown(gapLedger, gap) \/ gap \in gapLedger.accepted \cup gate.accepted
        PROVE  Settled(gapLedger, gap)
    BY <1>1 DEF Shown, Settled
  <1>2. I => GateLeavesNoneOpen
    <2> SUFFICES ASSUME I, gate.says = "go", gapLedger.state = "whole"
                 PROVE  /\ Settled(gapLedger, "route")
                        /\ gapLedger.scanned.has /\ "danger" \in action /\ "allowed" \notin action
                              /\ policy # "allows" =>
                             \E gap \in {"block", "mock"} : Settled(gapLedger, gap)
      BY DEF GateLeavesNoneOpen
    <2>1. \A gap \in GapsIn(gapLedger.scanned) : Settled(gapLedger, gap)
      BY <1>1 DEF DiscoveryIInv, LedgersHonest, GateHolds, Honest
    <2>2. "route" \in GapsIn(gapLedger.scanned)
      BY DEF GapsIn
    <2>3. ASSUME gapLedger.scanned.has, "danger" \in action, "allowed" \notin action, policy # "allows"
          PROVE  \E gap \in {"block", "mock"} : Settled(gapLedger, gap)
      <3>1. Level \in {"block", "mock"}
        BY <2>3, GapNames
      <3>2. Level \in GapsIn(gapLedger.scanned)
        BY <2>3, <3>1 DEF GapsIn
      <3> QED
        BY <2>1, <3>1, <3>2
    <2> QED
      BY <2>1, <2>2, <2>3
  <1>3. I /\ [DiscoveryStep]_discoveryVars => I'
    BY DiscoveryStepKeeps
  <1>4. DiscoveryInit => I
    BY DiscoveryInitIInv
  <1> HIDE DEF I
  <1> QED
    BY <1>2, <1>3, <1>4, PTL DEF DiscoverySpec
(****************************** applied proposals ***************************)

\* Induction over the naturals for a set: no least element is missing.
LEMMA InductionOverSet ==
  ASSUME NEW S, 0 \in S, \A n \in Nat : n \in S => n + 1 \in S
  PROVE  Nat \subseteq S
<1> SUFFICES ASSUME Nat \ S # {} PROVE FALSE
  OBVIOUS
<1>1. PICK n \in Nat \ S : \A m \in Nat \ S : n <= m
  BY LeastNatural
<1>2. n - 1 \in Nat /\ n - 1 \in S
  BY <1>1
<1> QED
  BY <1>1, <1>2

\* The in-memory pass after each number of operations.
Untouched(start) == [files |-> start, threw |-> FALSE]
IsPass(g, start, n) ==
  g = [m \in 0 .. n |-> IF m = 0 THEN Untouched(start) ELSE Staged(g[m - 1], given.changes[m])]

\* For every number of operations there is the function of the in-memory passes up to it.
LEMMA PassesExist == \A start : \A n \in Nat : \E g : IsPass(g, start, n)
<1> SUFFICES ASSUME NEW start PROVE \A n \in Nat : \E g : IsPass(g, start, n)
  OBVIOUS
<1> DEFINE S == {n \in Nat : \E g : IsPass(g, start, n)}
<1>1. 0 \in S
  <2>1. IsPass([m \in 0 .. 0 |-> Untouched(start)], start, 0)
    BY DEF IsPass
  <2> QED
    BY <2>1
<1>2. ASSUME NEW n \in Nat, n \in S PROVE n + 1 \in S
  <2>1. PICK g : IsPass(g, start, n)
    BY <1>2
  <2> DEFINE h == [m \in 0 .. n + 1 |-> IF m = n + 1 THEN Staged(g[n], given.changes[n + 1]) ELSE g[m]]
  <2>2. \A m \in 0 .. n : g[m] = IF m = 0 THEN Untouched(start) ELSE Staged(g[m - 1], given.changes[m])
    BY <2>1 DEF IsPass
  <2>3. \A m \in 0 .. n + 1 :
           h[m] = IF m = 0 THEN Untouched(start) ELSE Staged(h[m - 1], given.changes[m])
    BY <2>2
  <2>4. h = [m \in 0 .. n + 1 |-> h[m]]
    OBVIOUS
  <2> HIDE DEF h
  <2>5. IsPass(h, start, n + 1)
    BY <2>3, <2>4, Zenon DEF IsPass
  <2> QED
    BY <2>5
<1> HIDE DEF S
<1>3. Nat \subseteq S
  BY <1>1, <1>2, InductionOverSet
<1> QED
  BY <1>3 DEF S

\* The recursive definition has a value: what the operations make of the files, one after
\* the other.
LEMMA EditedIsAPass ==
  ASSUME Len(given.changes) \in Nat, NEW start
  PROVE  \E g : IsPass(g, start, Len(given.changes)) /\ Edited(start) = g[Len(given.changes)]
<1> DEFINE n == Len(given.changes)
           g == CHOOSE g : IsPass(g, start, n)
<1>1. IsPass(g, start, n)
  BY PassesExist
<1>2. Edited(start) = g[n]
  BY DEF Edited, IsPass, Untouched
<1> QED
  BY <1>1, <1>2

\* What the pass has made of the files after n operations, unless it threw.
PassedOn(acc, start, n) ==
  /\ acc = [files |-> acc.files, threw |-> acc.threw] /\ acc.threw \in BOOLEAN
  /\ acc.files = [p \in Places |-> acc.files[p]]
  /\ ~acc.threw =>
        /\ \A i \in 1 .. n : given.changes[i].path \in Places
        /\ \A p \in Places : (\A i \in 1 .. n : given.changes[i].path # p) => acc.files[p] = start[p]

\* One more operation keeps what a pass says of the files it changed.
LEMMA StagedGoesOn ==
  ASSUME NEW start, NEW n \in Nat, NEW acc, PassedOn(acc, start, n)
  PROVE  PassedOn(Staged(acc, given.changes[n + 1]), start, n + 1)
<1> DEFINE c == given.changes[n + 1]
<1>1. CASE acc.threw \/ c.path \notin Places \/ ~AppliesOnce(c, acc.files[c.path])
  <2> DEFINE yes == TRUE
             new == [acc EXCEPT !.threw = yes]
  <2>1. Staged(acc, c) = new
    BY <1>1 DEF Staged
  <2>2. new = [files |-> acc.files, threw |-> yes]
    <3> HIDE DEF yes
    <3> QED
      BY DEF PassedOn
  <2>3. PassedOn(new, start, n + 1)
    <3>1. new.files = acc.files /\ new.threw = yes
      BY <2>2
    <3> HIDE DEF new
    <3> QED
      BY <2>2, <3>1 DEF PassedOn
  <2> QED
    BY <2>1, <2>3
<1>2. CASE ~acc.threw /\ c.path \in Places /\ AppliesOnce(c, acc.files[c.path])
  <2> DEFINE text == Changed(c, acc.files[c.path])
             new == [acc EXCEPT !.files[c.path] = text]
  <2>1. Staged(acc, c) = new
    BY <1>2 DEF Staged
  <2> HIDE DEF text
  <2>2. new = [files |-> [acc.files EXCEPT ![c.path] = text], threw |-> acc.threw]
    BY DEF PassedOn
  <2>3. /\ new.files = [p \in Places |-> new.files[p]] /\ new.threw = acc.threw
        /\ \A p \in Places : p # c.path => new.files[p] = acc.files[p]
        /\ new = [files |-> new.files, threw |-> new.threw]
    BY <2>2 DEF PassedOn
  <2> HIDE DEF new
  <2>4. /\ \A i \in 1 .. n : given.changes[i].path \in Places
        /\ \A p \in Places : (\A i \in 1 .. n : given.changes[i].path # p) => acc.files[p] = start[p]
    BY <1>2 DEF PassedOn
  <2>5. \A i \in 1 .. n + 1 : i \in 1 .. n \/ i = n + 1
    OBVIOUS
  <2>6. PassedOn(new, start, n + 1)
    BY <1>2, <2>3, <2>4, <2>5 DEF PassedOn
  <2> QED
    BY <2>1, <2>6
<1> QED
  BY <1>1, <1>2

\* A pass that does not throw touches known files only, and leaves the others.
LEMMA EditedPasses ==
  ASSUME Len(given.changes) \in Nat, NEW start, start = [p \in Places |-> start[p]]
  PROVE  PassedOn(Edited(start), start, Len(given.changes))
<1> DEFINE n == Len(given.changes)
<1>1. PICK g : IsPass(g, start, n) /\ Edited(start) = g[n]
  BY EditedIsAPass
<1>2. \A m \in 0 .. n : g[m] = IF m = 0 THEN Untouched(start) ELSE Staged(g[m - 1], given.changes[m])
  BY <1>1 DEF IsPass
<1> DEFINE S == {m \in Nat : m <= n => PassedOn(g[m], start, m)}
<1>3. 0 \in S
  <2>1. g[0] = Untouched(start)
    <3>1. 0 \in 0 .. n
      OBVIOUS
    <3> HIDE DEF n
    <3>2. g[0] = IF 0 = 0 THEN Untouched(start) ELSE Staged(g[0 - 1], given.changes[0])
      BY <1>2, <3>1, Zenon
    <3> QED
      BY <3>2
  <2>2. PassedOn(Untouched(start), start, 0)
    BY DEF PassedOn, Untouched
  <2> QED
    BY <2>1, <2>2
<1>4. ASSUME NEW m \in Nat, m \in S PROVE m + 1 \in S
  <2> SUFFICES ASSUME m + 1 <= n PROVE PassedOn(g[m + 1], start, m + 1)
    OBVIOUS
  <2>1. PassedOn(g[m], start, m)
    BY <1>4
  <2>2. g[m + 1] = Staged(g[m], given.changes[m + 1])
    <3>1. m + 1 \in 0 .. n /\ m + 1 # 0 /\ (m + 1) - 1 = m
      OBVIOUS
    <3>2. g[m + 1] = Staged(g[(m + 1) - 1], given.changes[m + 1])
      BY <1>2, <3>1
    <3> QED
      BY <3>1, <3>2
  <2> QED
    BY <2>1, <2>2, StagedGoesOn
<1>5. Nat \subseteq S
  <2> HIDE DEF S
  <2> QED
    BY <1>3, <1>4, InductionOverSet
<1> QED
  BY <1>1, <1>5

Meant == Edited(atStart)
ProposalTyped ==
  /\ Len(given.changes) \in Nat /\ DOMAIN given.changes = 1 .. Len(given.changes)
  /\ atStart = [p \in Places |-> atStart[p]] /\ tree = [p \in Places |-> tree[p]]
  /\ bridgeStep # "done" => slips \in Nat

\* Until the first rename nothing has happened; then the files renamed into place are what
\* the operations mean, and the others as they were.
NothingYet ==
  bridgeStep \in {"read", "gates", "apply"} =>
    tree = atStart /\ replaced = {} /\ passed = "none" /\ told = Untold
HalfWritten ==
  bridgeStep = "write" =>
    /\ passed = "none" /\ told = Untold
    /\ \A p \in Places : tree[p] = IF p \in replaced THEN Meant.files[p] ELSE atStart[p]
WholeWritten ==
  /\ bridgeStep \in {"write", "measure", "undo"} => replaced \subseteq Touched /\ ~Meant.threw
  /\ bridgeStep = "measure" =>
       /\ told = Untold /\ replaced = Touched /\ passed # "no"
       /\ slips = 0 => tree = Meant.files
SizeIsOfTheStart ==
  bridgeStep \notin {"read", "gates", "done"} /\ given.simplify => sizeBefore = Measured(atStart)
StepsTyped ==
  bridgeStep \in {"read", "gates", "apply", "write", "measure", "undo", "done"}

ProposalIInv ==
  /\ ProposalTyped /\ NothingYet /\ HalfWritten /\ WholeWritten /\ SizeIsOfTheStart /\ StepsTyped
  /\ bridgeStep = "undo" => told = Untold
  /\ ExitTellsTheDisk

\* The invariant of a proposal holds at its start.
LEMMA ProposalInitIInv == ProposalInit => ProposalIInv
<1> SUFFICES ASSUME ProposalInit PROVE ProposalIInv
  OBVIOUS
<1>1. PICK n \in 1 .. MaxChanges : given.changes \in [1 .. n -> Changes]
  BY DEF ProposalInit
<1>2. Len(given.changes) = n /\ DOMAIN given.changes = 1 .. n /\ n \in Nat
  BY <1>1, ProposalAssumption
<1>3. ProposalTyped
  BY <1>2 DEF ProposalInit, ProposalTyped, Beginning
<1> QED
  BY <1>3 DEF ProposalInit, ProposalIInv, NothingYet, HalfWritten, WholeWritten, SizeIsOfTheStart,
              StepsTyped, ExitTellsTheDisk, Untold

\* What a pass that does not throw has to do with the files.
LEMMA MeantFiles ==
  ASSUME ProposalTyped, ~Meant.threw
  PROVE  /\ Touched \subseteq Places
         /\ Meant.files = [p \in Places |-> Meant.files[p]]
         /\ \A p \in Places \ Touched : Meant.files[p] = atStart[p]
<1>1. PassedOn(Meant, atStart, Len(given.changes))
  BY EditedPasses DEF ProposalTyped, Meant
<1>2. Touched = {given.changes[i].path : i \in 1 .. Len(given.changes)}
  BY DEF Touched, ProposalTyped
<1> HIDE DEF Meant
<1> QED
  BY <1>1, <1>2 DEF PassedOn

\* The next file to write is one of those that are left.
LEMMA NextIsUnwritten ==
  ASSUME ProposalTyped, Unwritten # {}
  PROVE  NextFile \in Unwritten
<1> DEFINE S == {i \in DOMAIN given.changes : given.changes[i].path \in Unwritten}
<1>1. S # {} /\ S \in SUBSET Nat
  BY DEF Unwritten, Touched, ProposalTyped
<1>2. PICK i \in S : \A j \in S : i <= j
  BY <1>1, LeastNatural
<1>3. \E k \in DOMAIN given.changes :
        /\ given.changes[k].path \in Unwritten
        /\ \A j \in DOMAIN given.changes : given.changes[j].path \in Unwritten => k <= j
  BY <1>2
<1> QED
  BY <1>3 DEF NextFile

\* Files that were put back are as the call found them.
LEMMA PutBackRestores ==
  ASSUME ProposalTyped, NEW failed \in SUBSET replaced, PutBack(failed), replaced \subseteq Places
  PROVE  /\ unput' = {} => \A p \in replaced : tree'[p] = atStart[p]
         /\ tree' = [p \in Places |-> tree'[p]]
  BY DEF PutBack, ProposalTyped

\* What is fixed by the call: what its operations mean, the files they touch, and the size
\* of what it found.
LEMMA ProposalStays ==
  ASSUME UNCHANGED <<given, atStart>>
  PROVE  /\ Meant' = Meant /\ Touched' = Touched
         /\ Measured(atStart)' = Measured(atStart)
<1>1. Touched' = Touched
  BY DEF Touched
<1>2. Meant' = Meant
  BY DEF Meant, Edited
<1>3. Measured(atStart)' = Measured(atStart)
  BY <1>1 DEF Measured
<1> QED
  BY <1>1, <1>2, <1>3

\* Every step keeps the invariant of a proposal.
LEMMA ProposalStepKeeps == ProposalIInv /\ [ProposalStep]_proposalVars => ProposalIInv'
<1> SUFFICES ASSUME ProposalIInv, [ProposalStep]_proposalVars PROVE ProposalIInv'
  OBVIOUS
<1>0. UNCHANGED <<given, atStart>>
  BY DEF ProposalStep, proposalVars, ReadProposal, PassGates, RefuseChanges, WriteFile, WriteFails,
         Validate, Measure, UndoChanges
<1>s. Meant' = Meant /\ Touched' = Touched /\ Measured(atStart)' = Measured(atStart)
  BY <1>0, ProposalStays
<1>a. /\ ProposalTyped /\ NothingYet /\ HalfWritten /\ WholeWritten /\ SizeIsOfTheStart /\ StepsTyped
      /\ bridgeStep = "undo" => told = Untold
      /\ ExitTellsTheDisk
  BY DEF ProposalIInv
<1>b. ~Meant.threw => /\ Touched \subseteq Places
                      /\ Meant.files = [p \in Places |-> Meant.files[p]]
                      /\ \A p \in Places \ Touched : Meant.files[p] = atStart[p]
  BY <1>a, MeantFiles
<1>1. CASE ReadProposal
  BY <1>0, <1>s, <1>a, <1>1 DEF ReadProposal, Report, Proceed, ProposalIInv, ProposalTyped, NothingYet,
       HalfWritten, WholeWritten, SizeIsOfTheStart, StepsTyped, ExitTellsTheDisk, Untold
<1>2. CASE PassGates
  <2>1. /\ bridgeStep = "gates" /\ sizeBefore' = IF given.simplify THEN Measured(tree) ELSE Nothing
        /\ UNCHANGED <<given, tree, atStart, passed, replaced, unput, slips>>
        /\ \/ Proceed("apply")
           \/ Report(1, FALSE, FALSE)
    BY <1>2 DEF PassGates
  <2>2. given.simplify => sizeBefore' = Measured(atStart)
    BY <1>a, <2>1 DEF NothingYet
  <2> QED
    BY <1>0, <1>s, <1>a, <2>1, <2>2 DEF Report, Proceed, ProposalIInv, ProposalTyped, NothingYet,
       HalfWritten, WholeWritten, SizeIsOfTheStart, StepsTyped, ExitTellsTheDisk, Untold
<1>3. CASE RefuseChanges
  BY <1>0, <1>s, <1>a, <1>3 DEF RefuseChanges, Report, Proceed, ProposalIInv, ProposalTyped, NothingYet,
       HalfWritten, WholeWritten, SizeIsOfTheStart, StepsTyped, ExitTellsTheDisk, Untold
<1>4. CASE WriteFile
  <2>1. /\ bridgeStep \in {"apply", "write"} /\ Unwritten # {} /\ (bridgeStep = "apply" => ~Edited(tree).threw)
        /\ tree' = [tree EXCEPT ![NextFile] = Meant.files[NextFile]]
        /\ replaced' = replaced \cup {NextFile}
        /\ bridgeStep' = "write" /\ UNCHANGED told
        /\ UNCHANGED <<given, atStart, sizeBefore, passed, unput, slips>>
    BY <1>4 DEF WriteFile, Proceed, Meant
  <2>2. ~Meant.threw
    BY <1>a, <2>1 DEF NothingYet, WholeWritten, Meant
  <2>3. NextFile \in Touched \ replaced /\ NextFile \in Places
    BY <1>a, <1>b, <2>1, <2>2, NextIsUnwritten DEF Unwritten
  <2>4. replaced \subseteq Touched /\ passed = "none" /\ told = Untold
    BY <1>a, <2>1 DEF NothingYet, HalfWritten, WholeWritten
  <2>5. \A p \in Places : tree[p] = IF p \in replaced THEN Meant.files[p] ELSE atStart[p]
    BY <1>a, <2>1 DEF NothingYet, HalfWritten
  <2> HIDE DEF Meant
  <2>6. /\ tree' = [p \in Places |-> tree'[p]]
        /\ \A p \in Places : tree'[p] = IF p \in replaced' THEN Meant.files[p] ELSE atStart[p]
    BY <1>a, <2>1, <2>3, <2>5 DEF ProposalTyped
  <2>7. ProposalTyped' /\ NothingYet' /\ HalfWritten' /\ WholeWritten'
    BY <1>s, <1>a, <2>1, <2>2, <2>3, <2>4, <2>6 DEF ProposalTyped, NothingYet, HalfWritten, WholeWritten
  <2>8. SizeIsOfTheStart' /\ StepsTyped' /\ ExitTellsTheDisk'
    BY <1>s, <1>a, <2>1, <2>4 DEF SizeIsOfTheStart, StepsTyped, ExitTellsTheDisk, Untold
  <2> QED
    BY <2>1, <2>7, <2>8 DEF ProposalIInv
<1>5. ASSUME NEW failed \in SUBSET replaced, PutBack(failed), NEW exit \in {1, 2}, NEW b \in BOOLEAN, NEW c \in BOOLEAN,
             Report(exit, b, c), UNCHANGED <<given, atStart, replaced>>,
             bridgeStep \in {"apply", "write", "undo"}
      PROVE  ProposalIInv'
  <2>1. replaced \subseteq Places
    BY <1>a, <1>b, <1>5 DEF NothingYet, WholeWritten
  <2>2. /\ unput' = {} => \A p \in replaced : tree'[p] = atStart[p]
        /\ tree' = [p \in Places |-> tree'[p]]
    BY <1>a, <1>5, <2>1, PutBackRestores
  <2>3. told'.exit = exit /\ bridgeStep' = "done"
    BY <1>5 DEF Report
  <2>4. ExitTellsTheDisk'
    BY <1>5, <2>2, <2>3 DEF ExitTellsTheDisk
  <2>5. ProposalTyped'
    BY <1>a, <1>5, <2>2, <2>3 DEF ProposalTyped
  <2> QED
    BY <2>3, <2>4, <2>5 DEF ProposalIInv, NothingYet, HalfWritten, WholeWritten, SizeIsOfTheStart, StepsTyped
<1>6. CASE Validate
  <2>1. /\ bridgeStep = "write" /\ Unwritten = {}
        /\ UNCHANGED <<given, atStart, sizeBefore, replaced, unput>>
    BY <1>6 DEF Validate
  <2>2. replaced = Touched /\ told = Untold /\ passed = "none" /\ ~Meant.threw
    BY <1>a, <2>1 DEF HalfWritten, WholeWritten, Unwritten
  <2>3. tree = Meant.files
    BY <1>a, <1>b, <2>1, <2>2 DEF HalfWritten, ProposalTyped
  <2>4. CASE Fatal /\ UNCHANGED <<tree, passed, slips>>
    BY <1>s, <1>a, <2>1, <2>4 DEF Fatal, Report, ProposalIInv, ProposalTyped, NothingYet, HalfWritten,
       WholeWritten, SizeIsOfTheStart, StepsTyped, ExitTellsTheDisk
  <2>5. ASSUME bridgeStep' \in {"measure", "undo"}, UNCHANGED told, bridgeStep' = "measure" => passed' # "no",
               \/ UNCHANGED <<tree, slips>>
               \/ slips' = slips + 1 /\ tree' = [tree EXCEPT ![Lib] = Append(@, Branch)]
        PROVE  ProposalIInv'
    <3>1. ProposalTyped' /\ (slips' = 0 => tree' = Meant.files)
      BY <1>a, <2>1, <2>3, <2>5 DEF ProposalTyped
    <3>2. ExitTellsTheDisk'
      BY <2>2, <2>5 DEF ExitTellsTheDisk, Untold
    <3> QED
      BY <1>s, <1>a, <2>1, <2>2, <2>5, <3>1, <3>2 DEF ProposalIInv, NothingYet, HalfWritten, WholeWritten,
           SizeIsOfTheStart, StepsTyped
  <2> QED
    BY <1>6, <2>2, <2>4, <2>5 DEF Validate, Proceed
<1>7. CASE Measure
  <2>1. /\ bridgeStep = "measure"
        /\ UNCHANGED <<given, tree, atStart, sizeBefore, passed, replaced, unput, slips>>
        /\ \/ bridgeStep' = "undo" /\ UNCHANGED told
           \/ /\ given.simplify => Improved(sizeBefore, Measured(tree))
              /\ told' = [exit |-> 0, applied |-> TRUE, rolledBack |-> FALSE] /\ bridgeStep' = "done"
    BY <1>7 DEF Measure, NowMeasured, Proceed, Report
  <2>2. /\ told = Untold /\ replaced = Touched /\ passed # "no" /\ ~Meant.threw
        /\ slips = 0 => tree = Meant.files
        /\ given.simplify => sizeBefore = Measured(atStart)
    BY <1>a, <2>1 DEF WholeWritten, SizeIsOfTheStart
  <2>3. Measured(tree)' = Measured(tree)
    BY <1>s, <2>1 DEF Measured
  <2>4. (Edited(atStart).files)' = Meant.files
    BY <1>s DEF Meant
  <2>5. ExitTellsTheDisk'
    BY <1>s, <2>1, <2>2, <2>3, <2>4 DEF ExitTellsTheDisk, Untold
  <2> QED
    BY <1>s, <1>a, <2>1, <2>2, <2>5 DEF ProposalIInv, ProposalTyped, NothingYet, HalfWritten, WholeWritten,
       SizeIsOfTheStart, StepsTyped
<1>8. CASE UNCHANGED proposalVars
  <2>1. UNCHANGED <<tree, bridgeStep, sizeBefore, passed, replaced, unput, slips, told>>
    BY <1>8 DEF proposalVars
  <2>2. Measured(tree)' = Measured(tree)
    BY <1>s, <2>1 DEF Measured
  <2>3. ExitTellsTheDisk'
    BY <1>0, <1>s, <1>a, <2>1, <2>2 DEF ExitTellsTheDisk, Meant
  <2> QED
    BY <1>0, <1>s, <1>a, <2>1, <2>3 DEF ProposalIInv, ProposalTyped, NothingYet, HalfWritten, WholeWritten,
       SizeIsOfTheStart, StepsTyped
<1>9. CASE WriteFails
  <2>1. PICK failed \in Failing : PutBack(failed)
    BY <1>9 DEF WriteFails
  <2> QED
    BY <1>5, <1>9, <2>1 DEF WriteFails, Failing
<1>10. CASE UndoChanges
  <2>1. PICK failed \in Failing : PutBack(failed)
    BY <1>10 DEF UndoChanges
  <2> QED
    BY <1>5, <1>10, <2>1 DEF UndoChanges, Failing
<1> QED
  BY <1>1, <1>2, <1>3, <1>4, <1>6, <1>7, <1>8, <1>9, <1>10 DEF ProposalStep

\* An exit code tells what is on disk: 0 the whole proposal, measured as it is now, and 1
\* or 2 the files that the call found, wherever each restore went well.
THEOREM ExitCodesTellTheDisk == ProposalSpec => []ExitTellsTheDisk
<1>1. ProposalIInv => ExitTellsTheDisk
  BY DEF ProposalIInv
<1> QED
  BY <1>1, ProposalInitIInv, ProposalStepKeeps, PTL DEF ProposalSpec
(******************************* operation sets *****************************)

\* A sequence with one more element, or with one element changed.
LEMMA Appended ==
  ASSUME NEW S, NEW q \in Seq(S), NEW e
  PROVE  /\ Append(q, e) \in Seq(S \cup {e}) /\ Len(Append(q, e)) = Len(q) + 1 /\ Len(q) \in Nat
         /\ \A k \in 1 .. Len(q) : Append(q, e)[k] = q[k]
         /\ Append(q, e)[Len(q) + 1] = e
<1>1. q \in Seq(S \cup {e})
  OBVIOUS
<1> QED
  BY <1>1

\* Replacing one element of a sequence changes that element and nothing else.
LEMMA Replaced ==
  ASSUME NEW S, NEW q \in Seq(S), NEW i \in 1 .. Len(q), NEW e
  PROVE  /\ [q EXCEPT ![i] = e] \in Seq(S \cup {e}) /\ Len([q EXCEPT ![i] = e]) = Len(q)
         /\ Len(q) \in Nat
         /\ \A k \in 1 .. Len(q) : [q EXCEPT ![i] = e][k] = IF k = i THEN e ELSE q[k]
<1> DEFINE r == [q EXCEPT ![i] = e]
<1>1. Len(q) \in Nat /\ q = [k \in 1 .. Len(q) |-> q[k]] /\ \A k \in 1 .. Len(q) : q[k] \in S
  OBVIOUS
<1>2. DOMAIN r = 1 .. Len(q) /\ r = [k \in 1 .. Len(q) |-> IF k = i THEN e ELSE q[k]]
  BY <1>1
<1>3. \A k \in 1 .. Len(q) : (IF k = i THEN e ELSE q[k]) \in S \cup {e}
  BY <1>1
<1>4. r \in [1 .. Len(q) -> S \cup {e}]
  BY <1>2, <1>3
<1> HIDE DEF r
<1>5. r \in Seq(S \cup {e}) /\ Len(r) = Len(q)
  BY <1>1, <1>4
<1>6. \A k \in 1 .. Len(q) : r[k] = IF k = i THEN e ELSE q[k]
  BY <1>2
<1> QED
  BY <1>1, <1>5, <1>6 DEF r

\* The three passes over the operations: the dry run, the plan, and what they mean, after
\* each number of operations.
NothingTried(on) == [cache |-> on, creates |-> {}, failed |-> FALSE]
NothingStaged == [inPlace |-> <<>>, creates |-> <<>>, threw |-> FALSE]
IsDryRun(g, ops, on, n) ==
  g = [m \in 0 .. n |-> IF m = 0 THEN NothingTried(on) ELSE Try(g[m - 1], ops[m], on)]
IsPlanning(g, ops, on, n) ==
  g = [m \in 0 .. n |-> IF m = 0 THEN NothingStaged ELSE Stage(g[m - 1], ops[m], on)]
IsMeaning(g, ops, on, n) ==
  g = [m \in 0 .. n |-> IF m = 0 THEN on ELSE Done(g[m - 1], ops[m])]

\* Each of them exists, for any number of operations.
LEMMA DryRunsExist == \A ops, on : \A n \in Nat : \E g : IsDryRun(g, ops, on, n)
<1> SUFFICES ASSUME NEW ops, NEW on PROVE \A n \in Nat : \E g : IsDryRun(g, ops, on, n)
  OBVIOUS
<1> DEFINE S == {n \in Nat : \E g : IsDryRun(g, ops, on, n)}
<1>1. 0 \in S
  <2>1. IsDryRun([m \in 0 .. 0 |-> NothingTried(on)], ops, on, 0)
    BY DEF IsDryRun
  <2> QED
    BY <2>1
<1>2. ASSUME NEW n \in Nat, n \in S PROVE n + 1 \in S
  <2>1. PICK g : IsDryRun(g, ops, on, n)
    BY <1>2
  <2> DEFINE h == [m \in 0 .. n + 1 |-> IF m = n + 1 THEN Try(g[n], ops[n + 1], on) ELSE g[m]]
  <2>2. \A m \in 0 .. n : g[m] = IF m = 0 THEN NothingTried(on) ELSE Try(g[m - 1], ops[m], on)
    BY <2>1 DEF IsDryRun
  <2>3. \A m \in 0 .. n + 1 : h[m] = IF m = 0 THEN NothingTried(on) ELSE Try(h[m - 1], ops[m], on)
    BY <2>2
  <2>4. h = [m \in 0 .. n + 1 |-> h[m]]
    OBVIOUS
  <2> HIDE DEF h
  <2>5. IsDryRun(h, ops, on, n + 1)
    BY <2>3, <2>4, Zenon DEF IsDryRun
  <2> QED
    BY <2>5
<1> HIDE DEF S
<1>3. Nat \subseteq S
  BY <1>1, <1>2, InductionOverSet
<1> QED
  BY <1>3 DEF S

\* For every number of operations there is the function of the plans up to it.
LEMMA PlanningsExist == \A ops, on : \A n \in Nat : \E g : IsPlanning(g, ops, on, n)
<1> SUFFICES ASSUME NEW ops, NEW on PROVE \A n \in Nat : \E g : IsPlanning(g, ops, on, n)
  OBVIOUS
<1> DEFINE S == {n \in Nat : \E g : IsPlanning(g, ops, on, n)}
<1>1. 0 \in S
  <2>1. IsPlanning([m \in 0 .. 0 |-> NothingStaged], ops, on, 0)
    BY DEF IsPlanning
  <2> QED
    BY <2>1
<1>2. ASSUME NEW n \in Nat, n \in S PROVE n + 1 \in S
  <2>1. PICK g : IsPlanning(g, ops, on, n)
    BY <1>2
  <2> DEFINE h == [m \in 0 .. n + 1 |-> IF m = n + 1 THEN Stage(g[n], ops[n + 1], on) ELSE g[m]]
  <2>2. \A m \in 0 .. n : g[m] = IF m = 0 THEN NothingStaged ELSE Stage(g[m - 1], ops[m], on)
    BY <2>1 DEF IsPlanning
  <2>3. \A m \in 0 .. n + 1 : h[m] = IF m = 0 THEN NothingStaged ELSE Stage(h[m - 1], ops[m], on)
    BY <2>2
  <2>4. h = [m \in 0 .. n + 1 |-> h[m]]
    OBVIOUS
  <2> HIDE DEF h
  <2>5. IsPlanning(h, ops, on, n + 1)
    BY <2>3, <2>4, Zenon DEF IsPlanning
  <2> QED
    BY <2>5
<1> HIDE DEF S
<1>3. Nat \subseteq S
  BY <1>1, <1>2, InductionOverSet
<1> QED
  BY <1>3 DEF S

\* For every number of operations there is the function of their meanings up to it.
LEMMA MeaningsExist == \A ops, on : \A n \in Nat : \E g : IsMeaning(g, ops, on, n)
<1> SUFFICES ASSUME NEW ops, NEW on PROVE \A n \in Nat : \E g : IsMeaning(g, ops, on, n)
  OBVIOUS
<1> DEFINE S == {n \in Nat : \E g : IsMeaning(g, ops, on, n)}
<1>1. 0 \in S
  <2>1. IsMeaning([m \in 0 .. 0 |-> on], ops, on, 0)
    BY DEF IsMeaning
  <2> QED
    BY <2>1
<1>2. ASSUME NEW n \in Nat, n \in S PROVE n + 1 \in S
  <2>1. PICK g : IsMeaning(g, ops, on, n)
    BY <1>2
  <2> DEFINE h == [m \in 0 .. n + 1 |-> IF m = n + 1 THEN Done(g[n], ops[n + 1]) ELSE g[m]]
  <2>2. \A m \in 0 .. n : g[m] = IF m = 0 THEN on ELSE Done(g[m - 1], ops[m])
    BY <2>1 DEF IsMeaning
  <2>3. \A m \in 0 .. n + 1 : h[m] = IF m = 0 THEN on ELSE Done(h[m - 1], ops[m])
    BY <2>2
  <2>4. h = [m \in 0 .. n + 1 |-> h[m]]
    OBVIOUS
  <2> HIDE DEF h
  <2>5. IsMeaning(h, ops, on, n + 1)
    BY <2>3, <2>4, Zenon DEF IsMeaning
  <2> QED
    BY <2>5
<1> HIDE DEF S
<1>3. Nat \subseteq S
  BY <1>1, <1>2, InductionOverSet
<1> QED
  BY <1>3 DEF S

\* The recursive definitions have a value.
LEMMA PassesOverOperations ==
  ASSUME NEW ops, NEW on, Len(ops) \in Nat
  PROVE  /\ \E g : IsDryRun(g, ops, on, Len(ops)) /\ Simulated(ops, on) = g[Len(ops)]
         /\ \E g : IsPlanning(g, ops, on, Len(ops)) /\ Planned(ops, on) = g[Len(ops)]
         /\ \E g : IsMeaning(g, ops, on, Len(ops)) /\ Meaning(ops, on) = g[Len(ops)]
<1> DEFINE n == Len(ops)
           s == CHOOSE g : IsDryRun(g, ops, on, n)
           p == CHOOSE g : IsPlanning(g, ops, on, n)
           d == CHOOSE g : IsMeaning(g, ops, on, n)
<1>1. IsDryRun(s, ops, on, n) /\ Simulated(ops, on) = s[n]
  <2>1. IsDryRun(s, ops, on, n)
    BY DryRunsExist
  <2> QED
    BY <2>1 DEF Simulated, IsDryRun, NothingTried
<1>2. IsPlanning(p, ops, on, n) /\ Planned(ops, on) = p[n]
  <2>1. IsPlanning(p, ops, on, n)
    BY PlanningsExist
  <2> QED
    BY <2>1 DEF Planned, IsPlanning, NothingStaged
<1>3. IsMeaning(d, ops, on, n) /\ Meaning(ops, on) = d[n]
  <2>1. IsMeaning(d, ops, on, n)
    BY MeaningsExist
  <2> QED
    BY <2>1 DEF Meaning, IsMeaning
<1> QED
  BY <1>1, <1>2, <1>3

\* An operation that is allowed names a file of the scope.
OpTyped(o) == Allowed(o) => o.path \in IrPaths
IsEntry(e) == e = [path |-> e.path, before |-> e.before, after |-> e.after]

DryRunTyped(s) ==
  /\ s = [cache |-> s.cache, creates |-> s.creates, failed |-> s.failed] /\ s.failed \in BOOLEAN
PlanTyped(p) ==
  /\ p = [inPlace |-> p.inPlace, creates |-> p.creates, threw |-> p.threw] /\ p.threw \in BOOLEAN
  /\ \E S : p.inPlace \in Seq(S)
  /\ \E S : p.creates \in Seq(S)

\* The dry run and the plan agree, on whether they fail and on every text.
SameEdits(s, p, on) ==
  /\ \A k \in 1 .. Len(p.inPlace) :
        LET e == p.inPlace[k]
        IN IsEntry(e) /\ e.path \in IrPaths /\ e.before = on[e.path] /\ e.before # Absent /\ e.after = s.cache[e.path]
  /\ \A j, k \in 1 .. Len(p.inPlace) : p.inPlace[j].path = p.inPlace[k].path => j = k
  /\ \A q \in IrPaths : (\A k \in 1 .. Len(p.inPlace) : p.inPlace[k].path # q) => s.cache[q] = on[q]
SameCreates(s, p, on) ==
  /\ s.creates = {p.creates[k].path : k \in 1 .. Len(p.creates)}
  /\ \A k \in 1 .. Len(p.creates) :
        LET e == p.creates[k] IN e.path \in IrPaths /\ e.before = Absent /\ on[e.path] = Absent
  /\ \A j, k \in 1 .. Len(p.creates) : p.creates[j].path = p.creates[k].path => j = k
\* And the texts are what the operations mean.
SameMeaning(d, s, p) ==
  /\ \A k \in 1 .. Len(p.creates) : d[p.creates[k].path] = p.creates[k].after
  /\ \A q \in IrPaths \ s.creates : d[q] = s.cache[q]

Agree(s, p, d, on) ==
  /\ DryRunTyped(s) /\ PlanTyped(p) /\ s.failed = p.threw
  /\ ~p.threw =>
       /\ s.cache = [q \in IrPaths |-> s.cache[q]] /\ d = [q \in IrPaths |-> d[q]]
       /\ SameEdits(s, p, on) /\ SameCreates(s, p, on) /\ SameMeaning(d, s, p)

\* A failure is never taken back.
LEMMA FailedStays ==
  ASSUME NEW s, NEW o, NEW on, DryRunTyped(s)
  PROVE  DryRunTyped(Try(s, o, on)) /\ (s.failed => Try(s, o, on).failed)
<1> DEFINE yes == TRUE
           text == AppliedTo(o, s.cache[o.path])
<1>1. Try(s, o, on) \in {[s EXCEPT !.failed = yes], [s EXCEPT !.creates = @ \cup {o.path}],
                         [s EXCEPT !.cache[o.path] = text]}
  BY Zenon DEF Try
<1>2. yes \in BOOLEAN /\ yes
  OBVIOUS
<1> HIDE DEF yes, text
<1>3. CASE Try(s, o, on) = [s EXCEPT !.failed = yes]
  <2>1. Try(s, o, on) = [cache |-> s.cache, creates |-> s.creates, failed |-> yes]
    BY <1>3 DEF DryRunTyped
  <2> QED
    BY <1>2, <2>1 DEF DryRunTyped
<1>4. CASE Try(s, o, on) = [s EXCEPT !.creates = @ \cup {o.path}]
  <2>1. Try(s, o, on) = [cache |-> s.cache, creates |-> s.creates \cup {o.path}, failed |-> s.failed]
    BY <1>4 DEF DryRunTyped
  <2> QED
    BY <2>1 DEF DryRunTyped
<1>5. CASE Try(s, o, on) = [s EXCEPT !.cache[o.path] = text]
  <2>1. Try(s, o, on) = [cache |-> [s.cache EXCEPT ![o.path] = text], creates |-> s.creates, failed |-> s.failed]
    BY <1>5 DEF DryRunTyped
  <2> QED
    BY <2>1 DEF DryRunTyped
<1> QED
  BY <1>1, <1>3, <1>4, <1>5

\* A plan that threw stays one that threw.
LEMMA ThrownStays ==
  ASSUME NEW p, NEW o, NEW on, PlanTyped(p), p.threw \/ Stage(p, o, on) = [p EXCEPT !.threw = TRUE]
  PROVE  PlanTyped(Stage(p, o, on)) /\ Stage(p, o, on).threw
<1> DEFINE yes == TRUE
<1>1. Stage(p, o, on) = [p EXCEPT !.threw = yes] /\ yes \in BOOLEAN /\ yes
  BY DEF Stage
<1> HIDE DEF yes
<1>2. Stage(p, o, on) = [inPlace |-> p.inPlace, creates |-> p.creates, threw |-> yes]
  BY <1>1 DEF PlanTyped
<1> QED
  BY <1>1, <1>2 DEF PlanTyped

\* One operation: where neither has failed, the two refuse the same, and go on alike.
LEMMA CreatesAgree ==
  ASSUME NEW s, NEW p, NEW d, NEW on, NEW o, Agree(s, p, d, on), ~p.threw, OpTyped(o), Allowed(o),
         o.op = "create_file", o.path \notin s.creates, on[o.path] = Absent
  PROVE  Agree(Try(s, o, on), Stage(p, o, on), Done(d, o), on)
<1> DEFINE e == [path |-> o.path, before |-> Absent, after |-> o.text]
           s2 == Try(s, o, on)
           p2 == Stage(p, o, on)
           d2 == Done(d, o)
<1>0. o.path \in IrPaths
  BY DEF OpTyped
<1>1. s2 = [s EXCEPT !.creates = @ \cup {o.path}]
  BY DEF Try
<1>2. s2 = [cache |-> s.cache, creates |-> s.creates \cup {o.path}, failed |-> s.failed]
  BY <1>1 DEF Agree, DryRunTyped
<1>3. p2 = [p EXCEPT !.creates = Append(@, e)]
  BY DEF Stage, Agree, SameCreates
<1>4. e.path = o.path /\ e.before = Absent /\ e.after = o.text
  OBVIOUS
<1> HIDE DEF e
<1>5. p2 = [inPlace |-> p.inPlace, creates |-> Append(p.creates, e), threw |-> p.threw]
  BY <1>3 DEF Agree, PlanTyped
<1>6. PICK S : p.creates \in Seq(S)
  BY DEF Agree, PlanTyped
<1> DEFINE c2 == Append(p.creates, e)
<1>7. /\ c2 \in Seq(S \cup {e}) /\ Len(c2) = Len(p.creates) + 1 /\ Len(p.creates) \in Nat
      /\ \A k \in 1 .. Len(p.creates) : c2[k] = p.creates[k]
      /\ c2[Len(p.creates) + 1] = e
  BY <1>6, Appended
<1> HIDE DEF c2
<1>8. d2 = [d EXCEPT ![o.path] = o.text]
  BY DEF Done
<1>9. d2 = [q \in IrPaths |-> IF q = o.path THEN o.text ELSE d[q]]
  BY <1>0, <1>8 DEF Agree
<1> HIDE DEF s2, p2, d2
<1>10. /\ s2.cache = s.cache /\ s2.creates = s.creates \cup {o.path} /\ s2.failed = s.failed
       /\ p2.inPlace = p.inPlace /\ p2.creates = c2 /\ p2.threw = p.threw
  BY <1>2, <1>5 DEF c2
<1>11. DryRunTyped(s2) /\ PlanTyped(p2) /\ s2.failed = p2.threw
  BY <1>2, <1>5, <1>7, <1>10 DEF Agree, DryRunTyped, PlanTyped, c2
<1>12. SameEdits(s2, p2, on)
  BY <1>10 DEF Agree, SameEdits
<1>13. \A k \in 1 .. Len(c2) : k \in 1 .. Len(p.creates) \/ k = Len(p.creates) + 1
  BY <1>7
<1>14. \A k \in 1 .. Len(p.creates) : p.creates[k].path \in s.creates
  BY DEF Agree, SameCreates
<1>15. SameCreates(s2, p2, on)
  <2>1. s2.creates = {c2[k].path : k \in 1 .. Len(c2)}
    BY <1>4, <1>7, <1>10, <1>13 DEF Agree, SameCreates
  <2>2. \A k \in 1 .. Len(c2) : c2[k].path \in IrPaths /\ c2[k].before = Absent /\ on[c2[k].path] = Absent
    BY <1>0, <1>4, <1>7, <1>13 DEF Agree, SameCreates
  <2>3. \A j, k \in 1 .. Len(c2) : c2[j].path = c2[k].path => j = k
    BY <1>4, <1>7, <1>13, <1>14 DEF Agree, SameCreates
  <2> QED
    BY <1>10, <2>1, <2>2, <2>3 DEF SameCreates
<1>16. SameMeaning(d2, s2, p2)
  <2>1. \A k \in 1 .. Len(c2) : d2[c2[k].path] = c2[k].after
    BY <1>0, <1>4, <1>7, <1>9, <1>13, <1>14 DEF Agree, SameCreates, SameMeaning
  <2>2. \A q \in IrPaths \ s2.creates : d2[q] = s2.cache[q]
    BY <1>9, <1>10 DEF Agree, SameMeaning
  <2> QED
    BY <1>10, <2>1, <2>2 DEF SameMeaning
<1>17. Agree(s2, p2, d2, on)
  BY <1>9, <1>10, <1>11, <1>12, <1>15, <1>16 DEF Agree
<1> QED
  BY <1>17 DEF s2, p2, d2

\* An edit that applies does the same in the dry run, in the plan and in the reference.
LEMMA EditsAgree ==
  ASSUME NEW s, NEW p, NEW d, NEW on, NEW o, Agree(s, p, d, on), ~p.threw, OpTyped(o), Allowed(o),
         o.op # "create_file", Readable(s.cache[o.path]), ExactlyOnce(s.cache[o.path], o.needle)
  PROVE  Agree(Try(s, o, on), Stage(p, o, on), Done(d, o), on)
<1> DEFINE q == o.path
           text == s.cache[q]
           after == AppliedTo(o, text)
           known == {k \in 1 .. Len(p.inPlace) : p.inPlace[k].path = q}
           i == CHOOSE k \in known : TRUE
           s2 == Try(s, o, on)
           p2 == Stage(p, o, on)
           d2 == Done(d, o)
<1>0. q \in IrPaths
  BY DEF OpTyped
<1>a. /\ s = [cache |-> s.cache, creates |-> s.creates, failed |-> s.failed]
      /\ p = [inPlace |-> p.inPlace, creates |-> p.creates, threw |-> p.threw]
      /\ s.cache = [r \in IrPaths |-> s.cache[r]] /\ d = [r \in IrPaths |-> d[r]]
      /\ SameEdits(s, p, on) /\ SameCreates(s, p, on) /\ SameMeaning(d, s, p)
      /\ s.failed \in BOOLEAN /\ s.failed = p.threw /\ \E S : p.creates \in Seq(S)
  BY DEF Agree, DryRunTyped, PlanTyped
<1>b. PICK S : p.inPlace \in Seq(S)
  BY DEF Agree, PlanTyped
<1>c. /\ known = {} => text = on[q]
      /\ known # {} => i \in known /\ p.inPlace[i].after = text
  <2>1. known = {} => text = on[q]
    BY <1>0, <1>a DEF SameEdits
  <2>2. known # {} => i \in known
    OBVIOUS
  <2> HIDE DEF i
  <2>3. known # {} => p.inPlace[i].after = text
    BY <1>a, <2>2 DEF SameEdits
  <2> QED
    BY <2>1, <2>2, <2>3
<1>1. s2 = [s EXCEPT !.cache[q] = after]
  BY DEF Try, OnceInDryRun, ExactlyOnce
<1>2. d2 = [d EXCEPT ![q] = AppliedTo(o, d[q])]
  BY DEF Done
<1>3. on[q] # Absent
  <2>1. known # {} => on[q] # Absent
    BY <1>a, <1>c DEF SameEdits
  <2> QED
    BY <1>c, <2>1 DEF Readable
<1>4. q \notin s.creates
  BY <1>3, <1>a DEF SameCreates
<1>5. d[q] = text
  BY <1>0, <1>4, <1>a DEF SameMeaning
<1> HIDE DEF after, text
<1>6. s2 = [cache |-> [s.cache EXCEPT ![q] = after], creates |-> s.creates, failed |-> s.failed]
  BY <1>1, <1>a
<1>7. d2 = [r \in IrPaths |-> IF r = q THEN after ELSE d[r]]
  BY <1>0, <1>2, <1>5, <1>a DEF after
<1> HIDE DEF s2, d2
<1>8. /\ s2.cache = [r \in IrPaths |-> IF r = q THEN after ELSE s.cache[r]]
      /\ s2.creates = s.creates /\ s2.failed = s.failed
  BY <1>0, <1>6, <1>a
<1>9. DryRunTyped(s2)
  BY <1>6, <1>8, <1>a DEF DryRunTyped
<1>10. ASSUME NEW q2, NEW T, q2 \in Seq(T),
              p2 = [inPlace |-> q2, creates |-> p.creates, threw |-> p.threw],
              \A k \in 1 .. Len(q2) : /\ IsEntry(q2[k]) /\ q2[k].path \in IrPaths
                                      /\ q2[k].before = on[q2[k].path]
                                      /\ q2[k].after = IF q2[k].path = q THEN after ELSE s.cache[q2[k].path]
                                      /\ on[q2[k].path] # Absent,
              \A j, k \in 1 .. Len(q2) : q2[j].path = q2[k].path => j = k,
              \A r \in IrPaths \ {q} : (\A k \in 1 .. Len(q2) : q2[k].path # r) => s.cache[r] = on[r],
              \E k \in 1 .. Len(q2) : q2[k].path = q
       PROVE  Agree(s2, p2, d2, on)
  <2> HIDE DEF p2, q, known, i
  <2>1. p2.inPlace = q2 /\ p2.creates = p.creates /\ p2.threw = p.threw
    BY <1>10
  <2>2. PlanTyped(p2)
    BY <1>10, <1>a, <2>1 DEF PlanTyped
  <2>3. SameEdits(s2, p2, on)
    BY <1>8, <1>10, <2>1 DEF SameEdits
  <2>4. SameCreates(s2, p2, on)
    BY <1>8, <1>a, <2>1 DEF SameCreates
  <2>5. SameMeaning(d2, s2, p2)
    <3>1. \A k \in 1 .. Len(p.creates) : p.creates[k].path \in s.creates /\ p.creates[k].path \in IrPaths
      BY <1>a DEF SameCreates
    <3>2. \A k \in 1 .. Len(p.creates) : d2[p.creates[k].path] = p.creates[k].after
      BY <1>4, <1>7, <1>a, <3>1 DEF SameMeaning, q
    <3>3. \A r \in IrPaths \ s.creates : d2[r] = s2.cache[r]
      BY <1>7, <1>8, <1>a DEF SameMeaning
    <3> QED
      BY <1>8, <2>1, <3>2, <3>3 DEF SameMeaning
  <2> QED
    BY <1>7, <1>8, <1>9, <1>a, <2>1, <2>2, <2>3, <2>4, <2>5 DEF Agree
<1>11. ASSUME known = {} PROVE Agree(s2, p2, d2, on)
  <2> DEFINE e == [path |-> q, before |-> on[q], after |-> after]
             q2 == Append(p.inPlace, e)
  <2>1. p2 = [p EXCEPT !.inPlace = Append(@, e)]
    BY <1>11, <1>c DEF Stage, text, after
  <2>2. e.path = q /\ e.before = on[q] /\ e.after = after /\ IsEntry(e)
    BY DEF IsEntry
  <2> HIDE DEF e
  <2>3. p2 = [inPlace |-> q2, creates |-> p.creates, threw |-> p.threw]
    BY <1>a, <2>1
  <2>4. /\ q2 \in Seq(S \cup {e}) /\ Len(q2) = Len(p.inPlace) + 1 /\ Len(p.inPlace) \in Nat
        /\ \A k \in 1 .. Len(p.inPlace) : q2[k] = p.inPlace[k]
        /\ q2[Len(p.inPlace) + 1] = e
    BY <1>b, Appended
  <2>5. \A k \in 1 .. Len(p.inPlace) : p.inPlace[k].path # q
    BY <1>11
  <2> HIDE DEF q2, p2, q, known, i
  <2>6. \A k \in 1 .. Len(q2) : k \in 1 .. Len(p.inPlace) \/ k = Len(p.inPlace) + 1
    BY <2>4
  <2>7. \A k \in 1 .. Len(q2) : /\ IsEntry(q2[k]) /\ q2[k].path \in IrPaths
                                /\ q2[k].before = on[q2[k].path]
                                /\ q2[k].after = IF q2[k].path = q THEN after ELSE s.cache[q2[k].path]
                                /\ on[q2[k].path] # Absent
    <3>1. ASSUME NEW k \in 1 .. Len(p.inPlace)
          PROVE  /\ IsEntry(p.inPlace[k]) /\ p.inPlace[k].path \in IrPaths
                 /\ p.inPlace[k].before = on[p.inPlace[k].path]
                 /\ p.inPlace[k].after = s.cache[p.inPlace[k].path]
                 /\ on[p.inPlace[k].path] # Absent
      BY <1>a DEF SameEdits
    <3>2. /\ IsEntry(e) /\ e.path \in IrPaths /\ e.before = on[e.path]
          /\ e.after = after /\ e.path = q /\ on[e.path] # Absent
      BY <1>0, <1>3, <2>2
    <3> QED
      BY <2>4, <2>5, <2>6, <3>1, <3>2
  <2>8. \A j, k \in 1 .. Len(q2) : q2[j].path = q2[k].path => j = k
    BY <1>a, <2>2, <2>4, <2>5, <2>6 DEF SameEdits
  <2>9. \A r \in IrPaths \ {q} : (\A k \in 1 .. Len(q2) : q2[k].path # r) => s.cache[r] = on[r]
    BY <1>a, <2>4, <2>6 DEF SameEdits
  <2>10. \E k \in 1 .. Len(q2) : q2[k].path = q
    BY <2>2, <2>4
  <2>11. q2 \in Seq(S \cup {e})
    BY <2>4
  <2> QED
    BY <1>10, <2>3, <2>7, <2>8, <2>9, <2>10, <2>11
<1>12. ASSUME known # {} PROVE Agree(s2, p2, d2, on)
  <2> DEFINE q2 == [p.inPlace EXCEPT ![i].after = after]
             e == [path |-> q, before |-> on[q], after |-> after]
  <2>1. p2 = [p EXCEPT !.inPlace[i].after = after]
    BY <1>12, <1>c DEF Stage, text, after
  <2>2. p2 = [inPlace |-> q2, creates |-> p.creates, threw |-> p.threw]
    BY <1>a, <2>1
  <2>3. i \in 1 .. Len(p.inPlace) /\ p.inPlace[i].path = q
    BY <1>12, <1>c
  <2>4. [p.inPlace[i] EXCEPT !.after = after] = e
    <3>1. /\ p.inPlace[i] = [path |-> p.inPlace[i].path, before |-> p.inPlace[i].before,
                             after |-> p.inPlace[i].after]
          /\ p.inPlace[i].path = q /\ p.inPlace[i].before = on[q]
      BY <1>a, <2>3 DEF SameEdits, IsEntry
    <3> HIDE DEF i, q
    <3> QED
      BY <3>1
  <2>5. e.path = q /\ e.before = on[q] /\ e.after = after /\ IsEntry(e)
    BY DEF IsEntry
  <2>6. q2 = [p.inPlace EXCEPT ![i] = e]
    BY <2>4
  <2> HIDE DEF e, q2, i, p2, known, q
  <2>7. /\ q2 \in Seq(S \cup {e}) /\ Len(q2) = Len(p.inPlace) /\ Len(p.inPlace) \in Nat
        /\ \A k \in 1 .. Len(p.inPlace) : q2[k] = IF k = i THEN e ELSE p.inPlace[k]
    BY <1>b, <2>3, <2>6, Replaced
  <2>8. \A k \in 1 .. Len(p.inPlace) : q2[k].path = p.inPlace[k].path /\ (k # i => p.inPlace[k].path # q)
    BY <1>a, <2>3, <2>5, <2>7 DEF SameEdits
  <2>9. \A k \in 1 .. Len(q2) : /\ IsEntry(q2[k]) /\ q2[k].path \in IrPaths
                                /\ q2[k].before = on[q2[k].path]
                                /\ q2[k].after = IF q2[k].path = q THEN after ELSE s.cache[q2[k].path]
                                /\ on[q2[k].path] # Absent
    BY <1>0, <1>3, <1>a, <2>5, <2>7, <2>8 DEF SameEdits
  <2>10. \A j, k \in 1 .. Len(q2) : q2[j].path = q2[k].path => j = k
    BY <1>a, <2>7, <2>8 DEF SameEdits
  <2>11. \A r \in IrPaths \ {q} : (\A k \in 1 .. Len(q2) : q2[k].path # r) => s.cache[r] = on[r]
    BY <1>a, <2>7, <2>8 DEF SameEdits
  <2>12. \E k \in 1 .. Len(q2) : q2[k].path = q
    BY <2>3, <2>7, <2>8
  <2>13. q2 \in Seq(S \cup {e})
    BY <2>7
  <2> QED
    BY <1>10, <2>2, <2>9, <2>10, <2>11, <2>12, <2>13
<1>13. Agree(s2, p2, d2, on)
  BY <1>11, <1>12
<1> QED
  BY <1>13 DEF s2, p2, d2

\* One more operation keeps dry run, plan and reference in agreement.
LEMMA AgreeGoesOn ==
  ASSUME NEW s, NEW p, NEW d, NEW on, NEW o, Agree(s, p, d, on), OpTyped(o)
  PROVE  Agree(Try(s, o, on), Stage(p, o, on), Done(d, o), on)
<1>0. DryRunTyped(Try(s, o, on)) /\ (s.failed => Try(s, o, on).failed)
  BY FailedStays DEF Agree
<1>1. ASSUME Try(s, o, on).failed, p.threw \/ Stage(p, o, on) = [p EXCEPT !.threw = TRUE]
      PROVE  Agree(Try(s, o, on), Stage(p, o, on), Done(d, o), on)
  <2>1. PlanTyped(Stage(p, o, on)) /\ Stage(p, o, on).threw
    BY <1>1, ThrownStays DEF Agree
  <2>2. Try(s, o, on).failed = Stage(p, o, on).threw
    BY <1>0, <1>1, <2>1 DEF DryRunTyped, PlanTyped
  <2> QED
    BY <1>0, <2>1, <2>2 DEF Agree
<1>2. CASE p.threw
  BY <1>0, <1>1, <1>2 DEF Agree
<1>3. ASSUME ~p.threw, Try(s, o, on) = [s EXCEPT !.failed = TRUE], Stage(p, o, on) = [p EXCEPT !.threw = TRUE]
      PROVE  Agree(Try(s, o, on), Stage(p, o, on), Done(d, o), on)
  <2>1. Try(s, o, on).failed
    BY <1>3 DEF Agree, DryRunTyped
  <2> QED
    BY <1>1, <1>3, <2>1
<1>4. CASE ~p.threw /\ ~Allowed(o)
  BY <1>3, <1>4, Zenon DEF Try, Stage
<1>5. CASE ~p.threw /\ Allowed(o) /\ o.op = "create_file"
  <2>1. o.path \in s.creates <=> \E k \in 1 .. Len(p.creates) : p.creates[k].path = o.path
    BY <1>5 DEF Agree, SameCreates
  <2>2. CASE o.path \in s.creates \/ on[o.path] # Absent
    <3>1. Try(s, o, on) = [s EXCEPT !.failed = TRUE]
      BY <1>5, <2>2 DEF Try
    <3>2. Stage(p, o, on) = [p EXCEPT !.threw = TRUE]
      BY <1>5, <2>1, <2>2 DEF Stage
    <3> QED
      BY <1>3, <1>5, <3>1, <3>2
  <2>3. CASE o.path \notin s.creates /\ on[o.path] = Absent
    BY <1>5, <2>3, CreatesAgree
  <2> QED
    BY <2>2, <2>3
<1>6. CASE ~p.threw /\ Allowed(o) /\ o.op # "create_file"
  <2> DEFINE q == o.path
             text == s.cache[q]
             known == {k \in 1 .. Len(p.inPlace) : p.inPlace[k].path = q}
             i == CHOOSE k \in known : TRUE
             read == IF known = {} THEN on[q] ELSE p.inPlace[i].after
  <2>1. CASE Readable(text) /\ ExactlyOnce(text, o.needle)
    BY <1>6, <2>1, EditsAgree
  <2>2. CASE ~(Readable(text) /\ ExactlyOnce(text, o.needle))
    <3>1. Try(s, o, on) = [s EXCEPT !.failed = TRUE]
      BY <1>6, <2>2 DEF Try, OnceInDryRun, ExactlyOnce
    <3>2. read = text
      <4>1. SameEdits(s, p, on) /\ q \in IrPaths
        BY <1>6 DEF Agree, OpTyped
      <4>2. known # {} => i \in known
        OBVIOUS
      <4> HIDE DEF i
      <4>3. known # {} => p.inPlace[i].after = text
        BY <4>1, <4>2 DEF SameEdits
      <4>4. known = {} => text = on[q]
        BY <4>1 DEF SameEdits
      <4> QED
        BY <4>3, <4>4
    <3>3. ~Readable(read) \/ ~ExactlyOnce(read, o.needle)
      <4> HIDE DEF read, text
      <4> QED
        BY <2>2, <3>2
    <3>4. Stage(p, o, on) = [p EXCEPT !.threw = TRUE]
      BY <1>6, <3>3 DEF Stage
    <3> QED
      BY <1>3, <1>6, <3>1, <3>4
  <2> QED
    BY <2>1, <2>2
<1> QED
  BY <1>2, <1>4, <1>5, <1>6 DEF Agree

\* Dry run, plan and reference agree about every list of operations.
LEMMA PassesAgree ==
  ASSUME NEW ops, NEW on, Len(ops) \in Nat, \A i \in 1 .. Len(ops) : OpTyped(ops[i]),
         on = [q \in IrPaths |-> on[q]]
  PROVE  Agree(Simulated(ops, on), Planned(ops, on), Meaning(ops, on), on)
<1> DEFINE n == Len(ops)
<1>1. PICK s : IsDryRun(s, ops, on, n) /\ Simulated(ops, on) = s[n]
  BY PassesOverOperations
<1>2. PICK p : IsPlanning(p, ops, on, n) /\ Planned(ops, on) = p[n]
  BY PassesOverOperations
<1>3. PICK d : IsMeaning(d, ops, on, n) /\ Meaning(ops, on) = d[n]
  BY PassesOverOperations
<1>4. \A m \in 0 .. n : s[m] = IF m = 0 THEN NothingTried(on) ELSE Try(s[m - 1], ops[m], on)
  BY <1>1 DEF IsDryRun
<1>5. \A m \in 0 .. n : p[m] = IF m = 0 THEN NothingStaged ELSE Stage(p[m - 1], ops[m], on)
  BY <1>2 DEF IsPlanning
<1>6. \A m \in 0 .. n : d[m] = IF m = 0 THEN on ELSE Done(d[m - 1], ops[m])
  BY <1>3 DEF IsMeaning
<1> DEFINE S == {m \in Nat : m <= n => Agree(s[m], p[m], d[m], on)}
<1>7. 0 \in S
  <2>0. 0 \in 0 .. n
    OBVIOUS
  <2> HIDE DEF n
  <2>1. s[0] = NothingTried(on) /\ p[0] = NothingStaged /\ d[0] = on
    <3>1. s[0] = IF 0 = 0 THEN NothingTried(on) ELSE Try(s[0 - 1], ops[0], on)
      BY <1>4, <2>0, Zenon
    <3>2. p[0] = IF 0 = 0 THEN NothingStaged ELSE Stage(p[0 - 1], ops[0], on)
      BY <1>5, <2>0, Zenon
    <3>3. d[0] = IF 0 = 0 THEN on ELSE Done(d[0 - 1], ops[0])
      BY <1>6, <2>0, Zenon
    <3> QED
      BY <3>1, <3>2, <3>3
  <2>2. <<>> \in Seq({}) /\ Len(<<>>) = 0
    OBVIOUS
  <2>3. DryRunTyped(NothingTried(on)) /\ PlanTyped(NothingStaged)
    BY <2>2 DEF DryRunTyped, PlanTyped, NothingTried, NothingStaged
  <2>4. /\ NothingTried(on).cache = on /\ NothingTried(on).creates = {} /\ ~NothingTried(on).failed
        /\ NothingStaged.inPlace = <<>> /\ NothingStaged.creates = <<>> /\ ~NothingStaged.threw
        /\ NothingTried(on).failed = NothingStaged.threw
    BY DEF NothingTried, NothingStaged
  <2>5. Agree(NothingTried(on), NothingStaged, on, on)
    BY <2>2, <2>3, <2>4 DEF Agree, SameEdits, SameCreates, SameMeaning
  <2> QED
    BY <2>1, <2>5
<1>8. ASSUME NEW m \in Nat, m \in S PROVE m + 1 \in S
  <2> SUFFICES ASSUME m + 1 <= n PROVE Agree(s[m + 1], p[m + 1], d[m + 1], on)
    OBVIOUS
  <2>1. Agree(s[m], p[m], d[m], on)
    BY <1>8
  <2>2. m + 1 \in 0 .. n /\ m + 1 # 0 /\ (m + 1) - 1 = m /\ m + 1 \in 1 .. Len(ops)
    OBVIOUS
  <2>3. s[m + 1] = Try(s[m], ops[m + 1], on)
    <3>1. s[m + 1] = Try(s[(m + 1) - 1], ops[m + 1], on)
      BY <1>4, <2>2
    <3> QED
      BY <2>2, <3>1
  <2>4. p[m + 1] = Stage(p[m], ops[m + 1], on)
    <3>1. p[m + 1] = Stage(p[(m + 1) - 1], ops[m + 1], on)
      BY <1>5, <2>2
    <3> QED
      BY <2>2, <3>1
  <2>5. d[m + 1] = Done(d[m], ops[m + 1])
    <3>1. d[m + 1] = Done(d[(m + 1) - 1], ops[m + 1])
      BY <1>6, <2>2
    <3> QED
      BY <2>2, <3>1
  <2>6. OpTyped(ops[m + 1])
    BY <2>2
  <2> QED
    BY <2>1, <2>3, <2>4, <2>5, <2>6, AgreeGoesOn
<1>9. Nat \subseteq S
  <2> HIDE DEF S
  <2> QED
    BY <1>7, <1>8, InductionOverSet
<1>10. Agree(s[n], p[n], d[n], on)
  BY <1>9
<1> QED
  BY <1>1, <1>2, <1>3, <1>10

\* The writes of a plan: one for each path, from the text that was there to what the
\* operations mean; and they mean nothing for another path.
PlanTells(places, ops, on) ==
  /\ \E S : places \in Seq(S)
  /\ \A k \in 1 .. Len(places) :
        /\ places[k].path \in IrPaths /\ places[k].before = on[places[k].path]
        /\ places[k].after = Meaning(ops, on)[places[k].path]
  /\ \A j, k \in 1 .. Len(places) : places[j].path = places[k].path => j = k
  /\ \A q \in IrPaths : (\A k \in 1 .. Len(places) : places[k].path # q) => Meaning(ops, on)[q] = on[q]
  /\ Meaning(ops, on) = [q \in IrPaths |-> Meaning(ops, on)[q]]

\* The places of a plan that did not throw are the files the operations change, each once.
LEMMA PlansTell ==
  ASSUME NEW ops, NEW on, Len(ops) \in Nat, \A i \in 1 .. Len(ops) : OpTyped(ops[i]),
         on = [q \in IrPaths |-> on[q]], ~Planned(ops, on).threw
  PROVE  PlanTells(Planned(ops, on).inPlace \o Planned(ops, on).creates, ops, on)
<1> DEFINE s == Simulated(ops, on)
           p == Planned(ops, on)
           d == Meaning(ops, on)
           a == p.inPlace
           b == p.creates
           places == a \o b
<1>1. Agree(s, p, d, on)
  BY PassesAgree
<1> HIDE DEF s, p, d
<1>2. /\ d = [q \in IrPaths |-> d[q]]
      /\ SameEdits(s, p, on) /\ SameCreates(s, p, on) /\ SameMeaning(d, s, p)
  BY <1>1 DEF Agree, p
<1>3. PICK S : a \in Seq(S)
  BY <1>1 DEF Agree, PlanTyped
<1>4. PICK T : b \in Seq(T)
  BY <1>1 DEF Agree, PlanTyped
<1> HIDE DEF a, b
<1>5. a \in Seq(S \cup T) /\ b \in Seq(S \cup T)
  BY <1>3, <1>4
<1>6. /\ places \in Seq(S \cup T) /\ Len(places) = Len(a) + Len(b) /\ Len(a) \in Nat /\ Len(b) \in Nat
      /\ \A k \in 1 .. Len(a) : places[k] = a[k]
      /\ \A k \in 1 .. Len(b) : places[Len(a) + k] = b[k]
  BY <1>5
<1> HIDE DEF places
<1>7. \A k \in 1 .. Len(places) : k \in 1 .. Len(a) \/ \E i \in 1 .. Len(b) : k = Len(a) + i
  <2> SUFFICES ASSUME NEW k \in 1 .. Len(places), k \notin 1 .. Len(a)
               PROVE  \E i \in 1 .. Len(b) : k = Len(a) + i
    OBVIOUS
  <2>1. k - Len(a) \in 1 .. Len(b) /\ k = Len(a) + (k - Len(a))
    BY <1>6
  <2> QED
    BY <2>1
<1>8. \A k \in 1 .. Len(a) : /\ a[k].path \in IrPaths /\ a[k].before = on[a[k].path] /\ on[a[k].path] # Absent
                             /\ a[k].after = d[a[k].path] /\ a[k].path \notin s.creates
  BY <1>2 DEF SameEdits, SameCreates, SameMeaning, a
<1>9. \A k \in 1 .. Len(b) : /\ b[k].path \in IrPaths /\ b[k].before = on[b[k].path] /\ on[b[k].path] = Absent
                             /\ b[k].after = d[b[k].path]
  BY <1>2 DEF SameCreates, SameMeaning, b
<1>10. /\ \A j, k \in 1 .. Len(a) : a[j].path = a[k].path => j = k
       /\ \A j, k \in 1 .. Len(b) : b[j].path = b[k].path => j = k
  BY <1>2 DEF SameEdits, SameCreates, a, b
<1>11. \A k \in 1 .. Len(places) : /\ places[k].path \in IrPaths /\ places[k].before = on[places[k].path]
                                   /\ places[k].after = d[places[k].path]
  BY <1>6, <1>7, <1>8, <1>9
<1>12. \A j, k \in 1 .. Len(places) : places[j].path = places[k].path => j = k
  <2> SUFFICES ASSUME NEW j \in 1 .. Len(places), NEW k \in 1 .. Len(places),
                      places[j].path = places[k].path
               PROVE  j = k
    OBVIOUS
  <2>1. CASE j \in 1 .. Len(a) /\ k \in 1 .. Len(a)
    BY <1>6, <1>10, <2>1
  <2>2. ASSUME NEW i \in 1 .. Len(b), NEW l \in 1 .. Len(b), j = Len(a) + i, k = Len(a) + l PROVE j = k
    <3>1. places[j] = b[i] /\ places[k] = b[l]
      BY <1>6, <2>2
    <3> QED
      BY <1>10, <2>2, <3>1
  <2>3. ASSUME NEW i \in 1 .. Len(a), NEW l \in 1 .. Len(b) PROVE places[i].path # places[Len(a) + l].path
    BY <1>6, <1>8, <1>9
  <2> QED
    BY <1>7, <2>1, <2>2, <2>3
<1>13. ASSUME NEW q \in IrPaths, \A k \in 1 .. Len(places) : places[k].path # q PROVE d[q] = on[q]
  <2>1. \A k \in 1 .. Len(a) : a[k].path # q
    <3>1. \A k \in 1 .. Len(a) : k \in 1 .. Len(places)
      BY <1>6
    <3> QED
      BY <1>6, <1>13, <3>1
  <2>2. \A k \in 1 .. Len(b) : b[k].path # q
    <3>1. \A k \in 1 .. Len(b) : Len(a) + k \in 1 .. Len(places)
      BY <1>6
    <3> QED
      BY <1>6, <1>13, <3>1
  <2>3. q \notin s.creates
    BY <1>2, <2>2 DEF SameCreates, b
  <2>4. d[q] = s.cache[q]
    BY <1>2, <2>3 DEF SameMeaning
  <2> QED
    BY <1>2, <2>1, <2>4 DEF SameEdits, a
<1>14. PlanTells(places, ops, on)
  BY <1>2, <1>6, <1>11, <1>12, <1>13 DEF PlanTells, d
<1> QED
  BY <1>14 DEF places, a, b, p

IrTyped ==
  /\ Len(operations) \in Nat /\ DOMAIN operations = 1 .. Len(operations)
  /\ \A i \in 1 .. Len(operations) : OpTyped(operations[i])
  /\ irDisk = [q \in IrPaths |-> irDisk[q]] /\ original = [q \in IrPaths |-> original[q]]
  /\ outside \in Nat /\ irVetted \in BOOLEAN
  /\ irStage \in {"vet", "plan", "refused", "write", "applied", "back", "undone"}

\* Where nobody else writes: until the plan is made the disk is the original one; the plan
\* is of a vetted proposal; what was renamed into place and not yet restored is what the
\* operations mean, and the rest is original.
BeforeThePlan ==
  /\ irStage \in {"plan", "refused"} => irDisk = original
  /\ irStage = "plan" => irVetted = ~Refuses
  /\ irStage = "refused" => ~irVetted
AsPlanned ==
  irStage \in {"write", "applied", "back", "undone"} =>
    /\ irVetted /\ PlanTells(toPlace, operations, original)
    /\ written \in 0 .. Len(toPlace)
    /\ irStage \in {"write", "applied"} => ~restoreFailed
    /\ irStage = "applied" => written = Len(toPlace)
    /\ irStage = "undone" => written = 0
    /\ ~restoreFailed =>
         /\ \A k \in 1 .. written : irDisk[toPlace[k].path] = toPlace[k].after
         /\ \A q \in IrPaths : (\A k \in 1 .. written : toPlace[k].path # q) => irDisk[q] = original[q]
NotRestoredYet == irStage \in {"vet", "plan"} => ~restoreFailed /\ written = 0

IrIInv == IrTyped /\ (outside = 0 => BeforeThePlan /\ AsPlanned /\ NotRestoredYet)

\* The invariant of an apply holds at its start.
LEMMA IrInitIInv == IrInit => IrIInv
<1> SUFFICES ASSUME IrInit PROVE IrIInv
  OBVIOUS
<1>1. PICK n \in 1 .. MaxOps : operations \in [1 .. n -> Operations]
  BY DEF IrInit
<1>2. Len(operations) = n /\ DOMAIN operations = 1 .. n /\ n \in Nat
  BY <1>1, OperationAssumption
<1>3. \A o \in Operations : OpTyped(o)
  BY DEF Operations, OpTyped, Allowed, IrPaths
<1>4. \A i \in 1 .. n : operations[i] \in Operations
  BY <1>1
<1>5. irDisk = [q \in IrPaths |-> irDisk[q]]
  <2>1. PICK t : irDisk = [src |-> t, new |-> Absent]
    BY DEF IrInit
  <2> QED
    BY <2>1 DEF IrPaths
<1>6. IrTyped
  BY <1>2, <1>3, <1>4, <1>5 DEF IrInit, IrTyped
<1> QED
  BY <1>6 DEF IrInit, IrIInv, BeforeThePlan, AsPlanned, NotRestoredYet

\* What the operations mean is fixed while they and the original disk are.
LEMMA IrFixed ==
  ASSUME UNCHANGED <<operations, original, toPlace>>
  PROVE  PlanTells(toPlace, operations, original)' <=> PlanTells(toPlace, operations, original)
  BY DEF PlanTells

\* Every step keeps the invariant of an apply.
LEMMA IrStepKeeps == IrIInv /\ [IrStep]_irVars => IrIInv'
<1> SUFFICES ASSUME IrIInv, [IrStep]_irVars PROVE IrIInv'
  OBVIOUS
<1>a. /\ IrTyped
      /\ outside = 0 => BeforeThePlan /\ AsPlanned /\ NotRestoredYet
  BY DEF IrIInv
<1>0. operations' = operations
  BY DEF IrStep, irVars, Vet, PlanOperations, RenameTarget, WriteThrows, AllWritten, CallerRollsBack,
         RestoreEntry, Restored, OtherWrites
<1>1. CASE Vet
  <2>1. /\ irStage' = "plan" /\ original' = irDisk
        /\ irVetted' = ((\A i \in DOMAIN operations : WellFormed(operations[i]))
                          /\ ~Simulated(operations, irDisk).failed)
        /\ UNCHANGED <<operations, irDisk, toPlace, written, outside, restoreFailed>> /\ irStage = "vet"
    BY <1>1 DEF Vet
  <2>2. Agree(Simulated(operations, irDisk), Planned(operations, irDisk), Meaning(operations, irDisk), irDisk)
    BY <1>a, PassesAgree DEF IrTyped
  <2>3. Simulated(operations, irDisk).failed = Planned(operations, irDisk).threw
    BY <2>2 DEF Agree
  <2>4. irVetted' = ~Refuses
    BY <2>1, <2>3 DEF Refuses
  <2>5. Refuses' = Refuses
    BY <2>1 DEF Refuses
  <2>6. IrTyped'
    BY <1>a, <2>1 DEF IrTyped
  <2> QED
    BY <1>a, <2>1, <2>4, <2>5, <2>6 DEF IrIInv, BeforeThePlan, AsPlanned, NotRestoredYet
<1>2. CASE PlanOperations
  <2>1. /\ irStage = "plan"
        /\ UNCHANGED <<operations, irDisk, original, irVetted, vettedTexts, written, outside, restoreFailed>>
    BY <1>2 DEF PlanOperations
  <2>2. IrTyped'
    BY <1>a, <1>2, <2>1 DEF IrTyped, PlanOperations
  <2>3. CASE Refuses
    <3>1. irStage' = "refused" /\ UNCHANGED toPlace
      BY <1>2, <2>3 DEF PlanOperations
    <3> QED
      BY <1>a, <2>1, <2>2, <2>3, <3>1 DEF IrIInv, BeforeThePlan, AsPlanned, NotRestoredYet
  <2>4. CASE ~Refuses
    <3>1. /\ irStage' = "write"
          /\ toPlace' = Planned(operations, irDisk).inPlace \o Planned(operations, irDisk).creates
      BY <1>2, <2>4 DEF PlanOperations
    <3>2. ~Planned(operations, irDisk).threw
      BY <2>4 DEF Refuses
    <3> DEFINE places == Planned(operations, irDisk).inPlace \o Planned(operations, irDisk).creates
    <3>3. PlanTells(places, operations, irDisk)
      BY <1>a, <3>2, PlansTell DEF IrTyped
    <3>4. toPlace' = places
      BY <3>1
    <3> HIDE DEF places
    <3>5. ASSUME outside = 0 PROVE AsPlanned'
      <4>1. irDisk = original /\ irVetted /\ ~restoreFailed /\ written = 0
        BY <1>a, <2>1, <2>4, <3>5 DEF BeforeThePlan, NotRestoredYet
      <4>2. PlanTells(toPlace, operations, original)'
        BY <2>1, <3>3, <3>4, <4>1 DEF PlanTells
      <4>3. Len(places) \in Nat
        BY <3>3 DEF PlanTells
      <4> QED
        BY <2>1, <3>1, <3>4, <4>1, <4>2, <4>3 DEF AsPlanned
    <3> QED
      BY <2>1, <2>2, <3>1, <3>5 DEF IrIInv, BeforeThePlan, NotRestoredYet
  <2> QED
    BY <2>3, <2>4
<1>3. ASSUME UNCHANGED <<operations, original, irVetted, toPlace, outside>>, IrTyped',
             irStage \in {"write", "applied", "back", "undone"},
             irStage' \in {"write", "applied", "back", "undone"},
             outside = 0 => /\ written' \in 0 .. Len(toPlace)
                            /\ irStage' \in {"write", "applied"} => ~restoreFailed'
                            /\ irStage' = "applied" => written' = Len(toPlace)
                            /\ irStage' = "undone" => written' = 0
                            /\ ~restoreFailed' =>
                                 /\ \A k \in 1 .. written' : irDisk'[toPlace[k].path] = toPlace[k].after
                                 /\ \A q \in IrPaths : (\A k \in 1 .. written' : toPlace[k].path # q) => irDisk'[q] = original[q]
      PROVE  IrIInv'
  BY <1>a, <1>3, IrFixed DEF IrIInv, BeforeThePlan, AsPlanned, NotRestoredYet
<1>b. ASSUME outside = 0, irStage \in {"write", "applied", "back", "undone"}
      PROVE  /\ Len(toPlace) \in Nat /\ written \in 0 .. Len(toPlace)
             /\ irStage \in {"write", "applied"} => ~restoreFailed
             /\ irStage = "applied" => written = Len(toPlace)
             /\ irStage = "undone" => written = 0
             /\ \A k \in 1 .. Len(toPlace) : toPlace[k].path \in IrPaths /\ toPlace[k].before = original[toPlace[k].path]
             /\ \A j, k \in 1 .. Len(toPlace) : toPlace[j].path = toPlace[k].path => j = k
             /\ ~restoreFailed =>
                  /\ \A k \in 1 .. written : irDisk[toPlace[k].path] = toPlace[k].after
                  /\ \A q \in IrPaths : (\A k \in 1 .. written : toPlace[k].path # q) => irDisk[q] = original[q]
  BY <1>a, <1>b DEF AsPlanned, PlanTells
<1>4. CASE RenameTarget
  <2> DEFINE t == toPlace[written + 1]
  <2>1. /\ irStage = "write" /\ written < Len(toPlace)
        /\ irDisk' = [irDisk EXCEPT ![t.path] = t.after] /\ written' = written + 1
        /\ UNCHANGED <<operations, original, irVetted, irStage, toPlace, outside, restoreFailed>>
    BY <1>4 DEF RenameTarget, Target
  <2>2. IrTyped'
    BY <1>a, <2>1 DEF IrTyped
  <2>3. ASSUME outside = 0
        PROVE  /\ written' \in 0 .. Len(toPlace) /\ ~restoreFailed'
               /\ \A k \in 1 .. written' : irDisk'[toPlace[k].path] = toPlace[k].after
               /\ \A q \in IrPaths : (\A k \in 1 .. written' : toPlace[k].path # q) => irDisk'[q] = original[q]
    <3>1. /\ written \in 0 .. Len(toPlace) /\ Len(toPlace) \in Nat /\ written + 1 \in 1 .. Len(toPlace)
          /\ t.path \in IrPaths /\ ~restoreFailed
      BY <1>b, <2>1, <2>3
    <3>2. \A q \in IrPaths : irDisk'[q] = IF q = t.path THEN t.after ELSE irDisk[q]
      BY <1>a, <2>1, <3>1 DEF IrTyped
    <3>3. \A k \in 1 .. written : k \in 1 .. Len(toPlace) /\ toPlace[k].path # t.path
      BY <1>b, <2>1, <2>3, <3>1
    <3>4. \A k \in 1 .. written : toPlace[k].path \in IrPaths /\ irDisk'[toPlace[k].path] = toPlace[k].after
      BY <1>b, <2>1, <2>3, <3>1, <3>2, <3>3
    <3>5. \A k \in 1 .. written + 1 : k \in 1 .. written \/ k = written + 1
      BY <3>1
    <3>6. \A k \in 1 .. written + 1 : irDisk'[toPlace[k].path] = toPlace[k].after
      BY <3>1, <3>2, <3>4, <3>5
    <3>7. ASSUME NEW q \in IrPaths, \A k \in 1 .. written + 1 : toPlace[k].path # q PROVE irDisk'[q] = original[q]
      <4>1. q # t.path /\ \A k \in 1 .. written : toPlace[k].path # q
        BY <3>1, <3>7
      <4> QED
        BY <1>b, <2>1, <2>3, <3>1, <3>2, <4>1
    <3> QED
      BY <2>1, <3>1, <3>6, <3>7
  <2> QED
    BY <1>3, <2>1, <2>2, <2>3
<1>5. CASE WriteThrows \/ AllWritten \/ CallerRollsBack \/ Restored
  <2>1. /\ UNCHANGED <<operations, irDisk, original, irVetted, toPlace, written, outside, restoreFailed>>
        /\ irStage \in {"write", "applied", "back"} /\ irStage' \in {"applied", "back", "undone"}
        /\ irStage' = "applied" => irStage = "write" /\ written = Len(toPlace)
        /\ irStage' = "undone" => written = 0
    BY <1>5 DEF WriteThrows, AllWritten, CallerRollsBack, Restored
  <2>2. IrTyped'
    BY <1>a, <2>1 DEF IrTyped
  <2> QED
    BY <1>3, <1>b, <2>1, <2>2
<1>6. CASE RestoreEntry
  <2> DEFINE t == toPlace[written]
  <2>1. /\ irStage = "back" /\ written > 0 /\ written' = written - 1
        /\ \/ irDisk' = [irDisk EXCEPT ![t.path] = t.before] /\ restoreFailed' = restoreFailed
           \/ irDisk' = irDisk /\ restoreFailed' = TRUE
        /\ UNCHANGED <<operations, original, irVetted, irStage, toPlace, outside>>
    BY <1>6 DEF RestoreEntry
  <2>2. IrTyped'
    BY <1>a, <2>1 DEF IrTyped
  <2>3. ASSUME outside = 0 PROVE written' \in 0 .. Len(toPlace)
    BY <1>b, <2>1, <2>3
  <2>4. ASSUME outside = 0, ~restoreFailed'
        PROVE  /\ \A k \in 1 .. written' : irDisk'[toPlace[k].path] = toPlace[k].after
               /\ \A q \in IrPaths : (\A k \in 1 .. written' : toPlace[k].path # q) => irDisk'[q] = original[q]
    <3>1. /\ written \in 1 .. Len(toPlace) /\ Len(toPlace) \in Nat /\ ~restoreFailed
          /\ t.path \in IrPaths /\ t.before = original[t.path]
          /\ irDisk' = [irDisk EXCEPT ![t.path] = t.before]
      BY <1>b, <2>1, <2>4
    <3>2. \A q \in IrPaths : irDisk'[q] = IF q = t.path THEN original[q] ELSE irDisk[q]
      BY <1>a, <3>1 DEF IrTyped
    <3>3. \A k \in 1 .. written - 1 : k \in 1 .. Len(toPlace) /\ k \in 1 .. written /\ toPlace[k].path # t.path
      BY <1>b, <2>1, <2>4, <3>1
    <3>4. \A k \in 1 .. written - 1 : irDisk'[toPlace[k].path] = toPlace[k].after
      BY <1>b, <2>1, <2>4, <3>1, <3>2, <3>3
    <3>5. \A k \in 1 .. written : k \in 1 .. written - 1 \/ k = written
      BY <3>1
    <3>6. ASSUME NEW q \in IrPaths, \A k \in 1 .. written - 1 : toPlace[k].path # q PROVE irDisk'[q] = original[q]
      <4>1. q = t.path \/ \A k \in 1 .. written : toPlace[k].path # q
        BY <3>5, <3>6
      <4> QED
        BY <1>b, <2>1, <2>4, <3>1, <3>2, <4>1
    <3> QED
      BY <2>1, <3>4, <3>6
  <2> QED
    BY <1>3, <2>1, <2>2, <2>3, <2>4
<1>7. CASE OtherWrites
  <2>1. /\ outside' = outside + 1 /\ outside \in Nat
        /\ UNCHANGED <<operations, original, irVetted, irStage>>
        /\ \E q \in IrPaths, t \in {Absent, <<0>>} : irDisk' = [irDisk EXCEPT ![q] = t]
    BY <1>a, <1>7 DEF OtherWrites, IrTyped
  <2>2. PICK q, t : irDisk' = [irDisk EXCEPT ![q] = t]
    BY <2>1
  <2>3. irDisk' = [r \in IrPaths |-> irDisk'[r]]
    BY <1>a, <2>2 DEF IrTyped
  <2>4. IrTyped' /\ outside' # 0
    BY <1>a, <2>1, <2>3 DEF IrTyped
  <2> QED
    BY <2>4 DEF IrIInv
<1>8. CASE UNCHANGED irVars
  <2>1. UNCHANGED <<operations, irDisk, original, irVetted, irStage, toPlace, written, outside, restoreFailed>>
    BY <1>8 DEF irVars
  <2>2. Refuses' = Refuses
    BY <2>1 DEF Refuses
  <2> QED
    BY <1>a, <2>1, <2>2, IrFixed DEF IrIInv, IrTyped, BeforeThePlan, AsPlanned, NotRestoredYet
<1> QED
  BY <1>1, <1>2, <1>4, <1>5, <1>6, <1>7, <1>8 DEF IrStep

\* The preflight keeps its word and the apply is all or nothing: where nobody else writes,
\* exactly what the dry run failed is refused, what is applied is what the operations mean
\* one after the other, and what is undone leaves the original disk.
THEOREM DryRunsAreKept == IrSpec => []DryRunIsKept
<1>1. IrIInv => DryRunIsKept
  <2> SUFFICES ASSUME IrIInv, outside = 0
               PROVE  /\ irStage \in {"write", "applied"} => irVetted
                      /\ irStage = "refused" => ~irVetted /\ irDisk = original
                      /\ irStage = "applied" => irDisk = Meaning(operations, original)
                      /\ irStage = "undone" /\ ~restoreFailed => irDisk = original
    BY DEF DryRunIsKept
  <2>1. IrTyped /\ BeforeThePlan /\ AsPlanned
    BY DEF IrIInv
  <2>2. ASSUME irStage = "applied" PROVE irDisk = Meaning(operations, original)
    <3> DEFINE d == Meaning(operations, original)
    <3>1. /\ PlanTells(toPlace, operations, original) /\ written = Len(toPlace) /\ ~restoreFailed
          /\ \A k \in 1 .. written : irDisk[toPlace[k].path] = toPlace[k].after
          /\ \A q \in IrPaths : (\A k \in 1 .. written : toPlace[k].path # q) => irDisk[q] = original[q]
      BY <2>1, <2>2 DEF AsPlanned
    <3> HIDE DEF d
    <3>2. /\ d = [q \in IrPaths |-> d[q]]
          /\ \A k \in 1 .. Len(toPlace) : toPlace[k].after = d[toPlace[k].path]
          /\ \A q \in IrPaths : (\A k \in 1 .. Len(toPlace) : toPlace[k].path # q) => d[q] = original[q]
      BY <3>1 DEF PlanTells, d
    <3>3. \A q \in IrPaths : irDisk[q] = d[q]
      BY <3>1, <3>2
    <3>4. irDisk = d
      BY <2>1, <3>2, <3>3 DEF IrTyped
    <3> QED
      BY <3>4 DEF d
  <2>3. ASSUME irStage = "undone", ~restoreFailed PROVE irDisk = original
    <3>1. written = 0 /\ \A q \in IrPaths : (\A k \in 1 .. written : toPlace[k].path # q) => irDisk[q] = original[q]
      BY <2>1, <2>3 DEF AsPlanned
    <3>2. \A q \in IrPaths : irDisk[q] = original[q]
      BY <3>1
    <3> QED
      BY <2>1, <3>2 DEF IrTyped
  <2> QED
    BY <2>1, <2>2, <2>3 DEF BeforeThePlan, AsPlanned
<1> QED
  BY <1>1, IrInitIInv, IrStepKeeps, PTL DEF IrSpec

=============================================================================
