------------------------- MODULE BuildModes_proofs --------------------------
(***************************************************************************)
(* Theorems about the ways from a wish or an error to a change: BUILD mode *)
(* and its checkpoint, the pipeline over the directive queue, the reports  *)
(* of errors, the directives made of signals.  For any number of features, *)
(* reviewers, directives, hosts and codes, with the crashes and faults     *)
(* that the modules allow.                                                 *)
(***************************************************************************)
EXTENDS XoPipeline, FeatureBuild, ErrorReports, SignalDirectives, FiniteSetTheorems,
        SequenceTheorems, TLAPS

-----------------------------------------------------------------------------
(* BUILD mode and the checkpoint.                                          *)

\* A reviewer's process at work has a feature, and the builder has written one
\* revision for each build that ended.
ReviewsHaveFeatures == \A r \in Reviewers : rpc[r] # "idle" => rfeature[r] \in Features
OneRevisionPerBuild == IF bpc = "idle" THEN rev <= builds ELSE rev < builds
BuildTyped == BuildTypeOK /\ ReviewsHaveFeatures /\ OneRevisionPerBuild

\* Nothing is built or reviewed yet.
LEMMA BuildTypeInit == BuildInit => BuildTyped
<1> SUFFICES ASSUME BuildInit PROVE BuildTyped
  OBVIOUS
<1>1. {MaxBuilds, MaxDrafts, MaxFaults, MaxRepairTurns} \subseteq Nat
  BY BuildAssumption
<1> QED
  BY <1>1 DEF BuildInit, BuildTyped, BuildTypeOK, ReviewsHaveFeatures, OneRevisionPerBuild, Statuses, NoBundle

\* A step of the builder or of a reviewer keeps every variable in its range.
LEMMA BuildTypeStep == BuildTyped /\ [BuildNext]_buildVars => BuildTyped'
<1> SUFFICES ASSUME BuildTyped, [BuildNext]_buildVars PROVE BuildTyped'
  OBVIOUS
<1>c. MaxBuilds \in Nat /\ MaxDrafts \in Nat /\ MaxFaults \in Nat /\ MaxRepairTurns \in Nat
  BY BuildAssumption
<1> USE DEF BuildTyped, BuildTypeOK, ReviewsHaveFeatures, OneRevisionPerBuild
<1>1. CASE WriteTests
  BY <1>c, <1>1 DEF WriteTests, reviewer, repo
<1>2. CASE WriteCode
  BY <1>c, <1>2 DEF WriteCode, reviewer, repo
<1>w. ASSUME NEW s \in {"build_failed", "awaiting_approval"}, bpc # "idle", WriteBundle(s)
      PROVE  /\ rev' \in 1 .. MaxBuilds /\ rev' <= builds
             /\ bundle' \in [Features -> [status : Statuses, rev : 0 .. MaxBuilds]]
  <2>1. rev' = rev + 1 /\ rev' \in 1 .. MaxBuilds /\ rev' <= builds
    BY <1>c, <1>w DEF WriteBundle
  <2>2. [status |-> s, rev |-> rev'] \in [status : Statuses, rev : 0 .. MaxBuilds]
    BY <1>c, <2>1 DEF Statuses
  <2> QED
    BY <1>w, <2>1, <2>2 DEF WriteBundle
<1>3. CASE BuildFails
  <2>1. bpc # "idle" /\ bpc' = "idle" /\ WriteBundle("build_failed")
    BY <1>3 DEF BuildFails, WriteBundle
  <2> QED
    BY <1>w, <1>3, <2>1 DEF BuildFails, reviewer, repo
<1>4. CASE ProposeFeature
  <2>1. bpc # "idle" /\ bpc' = "idle" /\ WriteBundle("awaiting_approval") /\ rev' = rev + 1
    BY <1>4 DEF ProposeFeature, WriteBundle
  <2>2. rev' \in 1 .. MaxBuilds /\ proven' \subseteq 1 .. MaxBuilds
    BY <1>w, <1>4, <2>1 DEF ProposeFeature
  <2> QED
    BY <1>w, <1>4, <2>1, <2>2 DEF ProposeFeature, reviewer, repo
<1>5. ASSUME NEW applied \in BOOLEAN, NEW total \in 0 .. 1, NEW passed \in 0 .. 1,
             RedTurn(applied, total, passed)
      PROVE  BuildTyped'
  BY <1>c, <1>5 DEF RedTurn, Repair, reviewer, repo
<1>6. ASSUME NEW applied \in BOOLEAN, NEW full \in BOOLEAN, NEW redPassed \in 0 .. 1,
             NEW greenFailed \in 0 .. 1, GreenTurn(applied, redPassed, greenFailed, full)
      PROVE  BuildTyped'
  BY <1>c, <1>6 DEF GreenTurn, Repair, reviewer, repo
<1>7. ASSUME NEW f \in Features, StartBuild(f) PROVE BuildTyped'
  BY <1>c, <1>7 DEF StartBuild, reviewer, repo
<1>8. ASSUME NEW r \in Reviewers, NEW s \in {"rejected", "revision_requested", "approved"},
             rpc[r] # "idle", SaveBundle(r, s)
      PROVE  BuildTyped'
  BY <1>c, <1>8 DEF SaveBundle, builder, repo, Statuses
<1>9. ASSUME NEW r \in Reviewers, NEW fits \in BOOLEAN, ApplyProposal(r, fits) PROVE BuildTyped'
  <2>1. /\ handle' \in [Reviewers -> 0 .. MaxBuilds]
        /\ tree' \in [Features -> 0 .. MaxBuilds]
    BY <1>9 DEF ApplyProposal
  <2>2. rpc' \in [Reviewers -> {"idle", "approve", "reject", "revise", "validate", "commit", "save"}]
    BY <1>9 DEF ApplyProposal
  <2>3. ReviewsHaveFeatures'
    BY <1>9 DEF ApplyProposal
  <2> QED
    BY <1>9, <2>1, <2>2, <2>3 DEF ApplyProposal, builder
<1>10. ASSUME NEW r \in Reviewers, NEW passes \in BOOLEAN, Validate(r, passes) PROVE BuildTyped'
  <2>1. rpc[r] = "validate" /\ UNCHANGED <<bundle, builder, rcopy, rfeature, handle, contended, index, head, log, foreign, faults>>
    BY <1>10 DEF Validate
  <2>2. rfeature[r] \in Features
    BY <2>1
  <2>3. tree' \in [Features -> 0 .. MaxBuilds]
    BY <1>10, <2>2 DEF Validate, RollBack
  <2>4. rpc' \in [Reviewers -> {"idle", "approve", "reject", "revise", "validate", "commit", "save"}]
    BY <1>10 DEF Validate, RollBack
  <2>5. ReviewsHaveFeatures'
    BY <1>10, <2>1, <2>2 DEF Validate, RollBack
  <2> QED
    BY <2>1, <2>3, <2>4, <2>5 DEF builder
<1>11. ASSUME NEW r \in Reviewers, NEW hook \in BOOLEAN, Commit(r, hook) PROVE BuildTyped'
  <2> DEFINE staged == [index EXCEPT ![rfeature[r]] = tree[rfeature[r]]]
             taken == {g \in Features : staged[g] # head[g]}
  <2>1. staged \in [Features -> 0 .. MaxBuilds] /\ rfeature[r] \in Features
    BY <1>11 DEF Commit
  <2>2. {staged[g] : g \in taken} \subseteq 0 .. MaxBuilds
    BY <2>1
  <2> HIDE DEF staged, taken
  <2>3. /\ rpc[r] = "commit" /\ index' = staged
        /\ UNCHANGED <<bundle, builder, rcopy, rfeature, handle, contended>>
        /\ \/ /\ head' = staged /\ log' = log \cup {staged[g] : g \in taken}
              /\ foreign' = foreign \cup {staged[g] : g \in taken \ {rfeature[r]}}
              /\ rpc' = [rpc EXCEPT ![r] = "save"] /\ UNCHANGED <<tree, faults>>
           \/ /\ hook \/ faults < MaxFaults
              /\ faults' = (IF hook THEN faults ELSE faults + 1)
              /\ RollBack(r) /\ UNCHANGED <<head, log, foreign>>
    BY <1>11 DEF Commit, staged, taken
  <2>4. /\ head' \in [Features -> 0 .. MaxBuilds] /\ index' \in [Features -> 0 .. MaxBuilds]
        /\ tree' \in [Features -> 0 .. MaxBuilds] /\ log' \subseteq 0 .. MaxBuilds
        /\ foreign' \subseteq 0 .. MaxBuilds
    <3>1. {staged[g] : g \in taken \ {rfeature[r]}} \subseteq 0 .. MaxBuilds
      BY <2>2
    <3>2. log' \subseteq 0 .. MaxBuilds /\ foreign' \subseteq 0 .. MaxBuilds
      BY <2>2, <2>3, <3>1
    <3>3. head' \in [Features -> 0 .. MaxBuilds] /\ index' \in [Features -> 0 .. MaxBuilds]
      BY <2>1, <2>3
    <3>4. tree' \in [Features -> 0 .. MaxBuilds]
      BY <2>1, <2>3 DEF RollBack
    <3> QED
      BY <3>2, <3>3, <3>4
  <2>5. faults' \in 0 .. MaxFaults
    BY <1>c, <2>3
  <2>6. /\ rpc' \in [Reviewers -> {"idle", "approve", "reject", "revise", "validate", "commit", "save"}]
        /\ ReviewsHaveFeatures'
    <3>1. rpc' = [rpc EXCEPT ![r] = "save"] \/ rpc' = [rpc EXCEPT ![r] = "idle"]
      BY <2>3 DEF RollBack
    <3>2. rfeature' = rfeature
      BY <2>3
    <3> QED
      BY <2>1, <3>1, <3>2
  <2>7. UNCHANGED <<bundle, builder, rcopy, rfeature, handle, contended>>
    BY <2>3
  <2> QED
    BY <2>4, <2>5, <2>6, <2>7 DEF builder
<1>12. ASSUME NEW r \in Reviewers, ReviewerDies(r) PROVE BuildTyped'
  BY <1>c, <1>12 DEF ReviewerDies, builder, repo
<1>13. ASSUME NEW r \in Reviewers, NEW f \in Features, NEW op \in {"approve", "reject", "revise"},
              LoadPending(r, f, op)
       PROVE  BuildTyped'
  BY <1>c, <1>13 DEF LoadPending, builder, repo
<1>14. CASE UNCHANGED buildVars
  BY <1>14 DEF buildVars, builder, reviewer, repo
<1> QED
  BY <1>1, <1>2, <1>3, <1>4, <1>5, <1>6, <1>7, <1>8, <1>9, <1>10, <1>11, <1>12, <1>13, <1>14
     DEF BuildNext, BuildStep, ReviewStep, RejectFeature, ReviseFeature, FinishApproval

\* BUILD mode stays within its types, whatever interleaves.
THEOREM BuildTypeCorrect == BuildSpec => []BuildTypeOK
<1>1. BuildTyped => BuildTypeOK
  BY DEF BuildTyped
<1> QED
  BY <1>1, BuildTypeInit, BuildTypeStep, PTL DEF BuildSpec


\* What a builder in the green phase holds went through the red phase, what it is
\* about to propose through the delta as well, and what a reviewer read is proven:
\* without these the bundle could be rewritten with something that is not.
RedThenGreen ==
    /\ bpc \in {"impl", "codeRepair", "green", "bundle"} => redOf = testDraft
    /\ bpc = "bundle" => greenOf = <<testDraft, codeDraft>>
ReviewsAreProven == \A r \in Reviewers : rpc[r] # "idle" => rcopy[r].rev \in proven
ProvenInv == RedThenGreen /\ BundleWasProven /\ ReviewsAreProven

\* A step keeps the drafts, the bundles and the copies of them proven.
LEMMA ProvenStep == BuildTyped /\ ProvenInv /\ [BuildNext]_buildVars => ProvenInv'
<1> SUFFICES ASSUME BuildTyped, ProvenInv, [BuildNext]_buildVars PROVE ProvenInv'
  OBVIOUS
<1>t. /\ bundle \in [Features -> [status : Statuses, rev : 0 .. MaxBuilds]]
      /\ rcopy \in [Reviewers -> [status : Statuses, rev : 0 .. MaxBuilds]]
      /\ rpc \in [Reviewers -> {"idle", "approve", "reject", "revise", "validate", "commit", "save"}]
      /\ rfeature \in [Reviewers -> Features \cup {NoFeature}]
      /\ MaxBuilds \in Nat
  BY BuildAssumption DEF BuildTyped, BuildTypeOK
<1> USE DEF ProvenInv, RedThenGreen, BundleWasProven, ReviewsAreProven
<1>1. CASE WriteTests
  BY <1>1 DEF WriteTests, reviewer
<1>2. CASE WriteCode
  BY <1>2 DEF WriteCode, reviewer
<1>3. CASE BuildFails
  BY <1>t, <1>3 DEF BuildFails, WriteBundle, reviewer
<1>4. CASE ProposeFeature
  <2>1. /\ bundle' = [bundle EXCEPT ![bfeature] = [status |-> "awaiting_approval", rev |-> rev + 1]]
        /\ proven' = proven \cup {rev + 1} /\ bpc' = "idle" /\ UNCHANGED <<rpc, rcopy>>
    BY <1>4 DEF ProposeFeature, WriteBundle, reviewer
  <2>2. ASSUME NEW f \in Features, bundle'[f].status \in {"awaiting_approval", "approved"}
        PROVE  bundle'[f].rev \in proven'
    BY <1>t, <2>1, <2>2
  <2> QED
    BY <1>t, <2>1, <2>2
<1>5. ASSUME NEW applied \in BOOLEAN, NEW total \in 0 .. 1, NEW passed \in 0 .. 1,
             RedTurn(applied, total, passed)
      PROVE  ProvenInv'
  BY <1>5 DEF RedTurn, Repair, reviewer
<1>6. ASSUME NEW applied \in BOOLEAN, NEW full \in BOOLEAN, NEW redPassed \in 0 .. 1,
             NEW greenFailed \in 0 .. 1, GreenTurn(applied, redPassed, greenFailed, full)
      PROVE  ProvenInv'
  BY <1>6 DEF GreenTurn, Repair, reviewer
<1>7. ASSUME NEW f \in Features, StartBuild(f) PROVE ProvenInv'
  BY <1>7 DEF StartBuild, reviewer
<1>8. ASSUME NEW r \in Reviewers, NEW s \in {"rejected", "revision_requested", "approved"},
             rpc[r] # "idle", SaveBundle(r, s)
      PROVE  ProvenInv'
  <2>1. /\ bundle' = [bundle EXCEPT ![rfeature[r]] = [rcopy[r] EXCEPT !.status = s]]
        /\ rpc' = [rpc EXCEPT ![r] = "idle"] /\ UNCHANGED <<rcopy, builder>>
    BY <1>8 DEF SaveBundle
  <2>2. [rcopy[r] EXCEPT !.status = s].rev \in proven
    BY <1>t, <1>8
  <2>3. ASSUME NEW f \in Features PROVE bundle'[f].status \in {"awaiting_approval", "approved"} =>
                                         bundle'[f].rev \in proven'
    <3>1. bundle'[f] = bundle[f] \/ bundle'[f] = [rcopy[r] EXCEPT !.status = s]
      BY <1>t, <2>1
    <3> QED
      BY <2>1, <2>2, <3>1 DEF builder
  <2> QED
    BY <1>t, <2>1, <2>3 DEF builder
<1>9. ASSUME NEW r \in Reviewers, NEW fits \in BOOLEAN, ApplyProposal(r, fits) PROVE ProvenInv'
  BY <1>t, <1>9 DEF ApplyProposal, builder
<1>10. ASSUME NEW r \in Reviewers, NEW passes \in BOOLEAN, Validate(r, passes) PROVE ProvenInv'
  BY <1>t, <1>10 DEF Validate, RollBack, builder
<1>11. ASSUME NEW r \in Reviewers, NEW hook \in BOOLEAN, Commit(r, hook) PROVE ProvenInv'
  <2>1. /\ rpc[r] = "commit" /\ UNCHANGED <<bundle, builder, rcopy>>
        /\ rpc' = [rpc EXCEPT ![r] = "save"] \/ rpc' = [rpc EXCEPT ![r] = "idle"]
    BY <1>11 DEF Commit, RollBack
  <2> QED
    BY <1>t, <2>1 DEF builder
<1>12. ASSUME NEW r \in Reviewers, ReviewerDies(r) PROVE ProvenInv'
  BY <1>t, <1>12 DEF ReviewerDies, builder
<1>13. ASSUME NEW r \in Reviewers, NEW f \in Features, NEW op \in {"approve", "reject", "revise"},
              LoadPending(r, f, op)
       PROVE  ProvenInv'
  BY <1>t, <1>13 DEF LoadPending, builder
<1>14. CASE UNCHANGED buildVars
  BY <1>14 DEF buildVars, builder, reviewer
<1> QED
  BY <1>1, <1>2, <1>3, <1>4, <1>5, <1>6, <1>7, <1>8, <1>9, <1>10, <1>11, <1>12, <1>13, <1>14
     DEF BuildNext, BuildStep, ReviewStep, RejectFeature, ReviseFeature, FinishApproval

\* What awaits approval, or was approved, is a pair of test and code operations
\* that the red phase and the delta accepted together (runBuildPipeline,
\* loadBundle, saveBundle), for any number of reviewers at once.
THEOREM ProposalsAreProven == BuildSpec => []BundleWasProven
<1>1. BuildInit => ProvenInv
  BY DEF BuildInit, ProvenInv, RedThenGreen, BundleWasProven, ReviewsAreProven, NoBundle
<1>2. ProvenInv => BundleWasProven
  BY DEF ProvenInv
<1> QED
  BY <1>1, <1>2, BuildTypeInit, BuildTypeStep, ProvenStep, PTL DEF BuildSpec

\* Two reviewers at work on one feature have made it contended (LoadPending).
FeatureEach ==
    \A r, q \in Reviewers :
        /\ rpc[r] # "idle" /\ rpc[q] # "idle" /\ rfeature[r] = rfeature[q]
        /\ rfeature[r] \notin contended
        => r = q

\* From the operations to the saved status, unless the feature is contended: the
\* files are the ones the reviewer read until the commit, and HEAD then holds them,
\* whatever else its index took.
ReviewedIsApplied ==
    \A r \in Reviewers : rpc[r] \in {"validate", "commit"} /\ rfeature[r] \notin contended =>
        tree[rfeature[r]] = rcopy[r].rev
HeadIsLogged == \A f \in Features : head[f] \in log \cup {0}
SavesCommitted ==
    \A r \in Reviewers : rpc[r] = "save" /\ rfeature[r] \notin contended => rcopy[r].rev \in log
CommitInv ==
    FeatureEach /\ ReviewedIsApplied /\ HeadIsLogged /\ SavesCommitted /\ ApprovedIsCommitted

\* A step keeps the way to the commit.
LEMMA CommitStep == BuildTyped /\ ProvenInv /\ CommitInv /\ [BuildNext]_buildVars => CommitInv'
<1> SUFFICES ASSUME BuildTyped, ProvenInv, CommitInv, [BuildNext]_buildVars PROVE CommitInv'
  OBVIOUS
<1>t. /\ bundle \in [Features -> [status : Statuses, rev : 0 .. MaxBuilds]]
      /\ rcopy \in [Reviewers -> [status : Statuses, rev : 0 .. MaxBuilds]]
      /\ rpc \in [Reviewers -> {"idle", "approve", "reject", "revise", "validate", "commit", "save"}]
      /\ rfeature \in [Reviewers -> Features \cup {NoFeature}]
      /\ tree \in [Features -> 0 .. MaxBuilds] /\ index \in [Features -> 0 .. MaxBuilds]
      /\ head \in [Features -> 0 .. MaxBuilds]
      /\ \A r \in Reviewers : rpc[r] # "idle" => rfeature[r] \in Features
      /\ proven \subseteq 1 .. MaxBuilds /\ MaxBuilds \in Nat
  BY BuildAssumption DEF BuildTyped, BuildTypeOK, ReviewsHaveFeatures
<1>p. \A r \in Reviewers : rpc[r] # "idle" => rcopy[r].rev \in proven
  BY DEF ProvenInv, ReviewsAreProven
<1> USE DEF CommitInv, FeatureEach, ReviewedIsApplied, HeadIsLogged, SavesCommitted, ApprovedIsCommitted
\* The builder writes only the bundle of its feature, which is not approved then.
<1>1. ASSUME UNCHANGED <<reviewer, repo>>,
             \/ UNCHANGED bundle
             \/ \E s \in {"build_failed", "awaiting_approval"} : WriteBundle(s)
      PROVE  CommitInv'
  <2>1. ASSUME NEW f \in Features, bundle'[f].status = "approved" PROVE bundle'[f] = bundle[f]
    BY <1>t, <1>1, <2>1 DEF WriteBundle
  <2> QED
    BY <1>1, <2>1 DEF reviewer, repo
<1>2. CASE BuildStep \/ \E f \in Features : StartBuild(f)
  BY <1>1, <1>2 DEF BuildStep, WriteTests, WriteCode, BuildFails, ProposeFeature, RedTurn, GreenTurn, StartBuild
<1>3. ASSUME NEW r \in Reviewers, NEW s \in {"rejected", "revision_requested", "approved"},
             rpc[r] # "idle", s = "approved" => rpc[r] = "save", SaveBundle(r, s)
      PROVE  CommitInv'
  <2>1. /\ bundle' = [bundle EXCEPT ![rfeature[r]] = [rcopy[r] EXCEPT !.status = s]]
        /\ rpc' = [rpc EXCEPT ![r] = "idle"] /\ UNCHANGED <<rcopy, rfeature, contended, repo>>
    BY <1>3 DEF SaveBundle
  <2>2. [rcopy[r] EXCEPT !.status = s].rev = rcopy[r].rev /\ [rcopy[r] EXCEPT !.status = s].status = s
    BY <1>t
  <2>3. ASSUME NEW f \in Features \ contended, bundle'[f].status = "approved"
        PROVE  bundle'[f].rev \in log'
    <3>0. log' = log
      BY <2>1 DEF repo
    <3>1. CASE f # rfeature[r]
      <4>1. bundle'[f] = bundle[f]
        BY <1>t, <2>1, <3>1
      <4> QED
        BY <2>3, <3>0, <4>1
    <3>2. CASE f = rfeature[r]
      <4>1. bundle'[f] = [rcopy[r] EXCEPT !.status = s]
        BY <1>t, <2>1, <3>2
      <4> QED
        BY <1>3, <2>2, <2>3, <3>0, <3>2, <4>1
    <3> QED
      BY <3>1, <3>2
  <2> QED
    BY <1>t, <2>1, <2>3 DEF repo
\* The operations of another reviewer are on the files of another feature.
<1>4. ASSUME NEW r \in Reviewers, rpc[r] # "idle", NEW v \in 0 .. MaxBuilds, NEW to \in {"idle", "validate"},
             tree' = [tree EXCEPT ![rfeature[r]] = v], rpc' = [rpc EXCEPT ![r] = to],
             to = "validate" => v = rcopy[r].rev,
             UNCHANGED <<bundle, rcopy, rfeature, contended, head, log>>
      PROVE  CommitInv'
  <2>1. ASSUME NEW q \in Reviewers, rpc'[q] \in {"validate", "commit"}, rfeature[q] \notin contended
        PROVE  tree'[rfeature[q]] = rcopy[q].rev
    <3>1. CASE q = r
      BY <1>t, <1>4, <2>1, <3>1
    <3>2. CASE q # r
      <4>1. rpc[q] \in {"validate", "commit"} /\ rfeature[q] # rfeature[r]
        BY <1>t, <1>4, <2>1, <3>2
      <4> QED
        BY <1>t, <1>4, <2>1, <4>1
    <3> QED
      BY <3>1, <3>2
  <2>2. FeatureEach'
    BY <1>t, <1>4
  <2>3. HeadIsLogged' /\ SavesCommitted' /\ ApprovedIsCommitted'
    BY <1>t, <1>4
  <2>4. ReviewedIsApplied'
    BY <1>4, <2>1
  <2> QED
    BY <2>2, <2>3, <2>4
<1>5. ASSUME NEW r \in Reviewers, NEW from \in {"approve", "reject", "revise", "validate", "commit"},
             NEW to \in {"idle", "approve", "reject", "revise", "validate", "commit"},
             rpc[r] # "idle", rpc' = [rpc EXCEPT ![r] = to], to = "commit" => rpc[r] = "validate", to # "validate",
             UNCHANGED <<bundle, rcopy, rfeature, contended, tree, head, log>>
      PROVE  CommitInv'
  BY <1>t, <1>5
<1>6. ASSUME NEW r \in Reviewers, NEW fits \in BOOLEAN, ApplyProposal(r, fits) PROVE CommitInv'
  <2>1. CASE fits
    BY <1>t, <1>4, <1>6, <2>1 DEF ApplyProposal
  <2>2. CASE ~fits
    BY <1>5, <1>6, <2>2 DEF ApplyProposal
  <2> QED
    BY <2>1, <2>2
<1>7. ASSUME NEW r \in Reviewers, NEW passes \in BOOLEAN, Validate(r, passes) PROVE CommitInv'
  <2>1. handle[r] \in 0 .. MaxBuilds
    BY DEF BuildTyped, BuildTypeOK
  <2>2. CASE passes
    BY <1>5, <1>7, <2>2 DEF Validate
  <2>3. CASE ~passes
    BY <1>4, <1>7, <2>1, <2>3 DEF Validate, RollBack
  <2> QED
    BY <2>2, <2>3
\* The commit takes the whole index, the reviewer's file as it is in the tree.
<1>8. ASSUME NEW r \in Reviewers, NEW hook \in BOOLEAN, Commit(r, hook) PROVE CommitInv'
  <2> DEFINE staged == [index EXCEPT ![rfeature[r]] = tree[rfeature[r]]]
             taken == {g \in Features : staged[g] # head[g]}
  <2>1. rpc[r] = "commit" /\ rfeature[r] \in Features /\ staged \in [Features -> 0 .. MaxBuilds]
    BY <1>t, <1>8 DEF Commit
  <2>2. rfeature[r] \notin contended => staged[rfeature[r]] = rcopy[r].rev /\ rcopy[r].rev \in proven
    BY <1>t, <1>p, <2>1
  <2>3. handle[r] \in 0 .. MaxBuilds
    BY DEF BuildTyped, BuildTypeOK
  <2> HIDE DEF staged, taken
  <2>4. CASE /\ head' = staged /\ log' = log \cup {staged[g] : g \in taken}
             /\ rpc' = [rpc EXCEPT ![r] = "save"] /\ UNCHANGED <<bundle, rcopy, rfeature, contended, tree>>
    <3>1. \A g \in Features : staged[g] \in log' \cup {0}
      BY <2>4 DEF taken
    <3>2. rfeature[r] \notin contended => rcopy[r].rev \in log'
      BY <1>t, <2>1, <2>2, <3>1
    <3>3. FeatureEach' /\ ReviewedIsApplied'
      BY <1>t, <2>1, <2>4
    <3>4. SavesCommitted'
      <4>1. ASSUME NEW q \in Reviewers, rpc'[q] = "save", rfeature[q] \notin contended
            PROVE  rcopy[q].rev \in log'
        BY <1>t, <2>4, <3>2, <4>1
      <4> QED
        BY <2>4, <4>1
    <3>5. HeadIsLogged' /\ ApprovedIsCommitted'
      BY <2>4, <3>1
    <3> QED
      BY <3>3, <3>4, <3>5
  <2>5. CASE RollBack(r) /\ UNCHANGED <<bundle, rcopy, rfeature, contended, head, log>>
    BY <1>4, <2>1, <2>3, <2>5 DEF RollBack
  <2> QED
    BY <1>8, <2>4, <2>5 DEF Commit, staged, taken
<1>9. ASSUME NEW r \in Reviewers, ReviewerDies(r) PROVE CommitInv'
  BY <1>t, <1>9 DEF ReviewerDies, repo
<1>10. ASSUME NEW r \in Reviewers, NEW f \in Features, NEW op \in {"approve", "reject", "revise"},
              LoadPending(r, f, op)
       PROVE  CommitInv'
  BY <1>t, <1>10 DEF LoadPending, repo
<1>11. CASE UNCHANGED buildVars
  BY <1>11 DEF buildVars, reviewer, repo
<1> QED
  BY <1>2, <1>3, <1>6, <1>7, <1>8, <1>9, <1>10, <1>11
     DEF BuildNext, ReviewStep, RejectFeature, ReviseFeature, FinishApproval

\* A bundle that says approved names a proposal whose code is in the history of HEAD
\* (approveFeature saves the status after git commit), for any number of reviewers
\* and builds, except of the features that two reviewers were at work on at once.
THEOREM ApprovalsAreCommitted == BuildSpec => []ApprovedIsCommitted
<1>1. BuildInit => CommitInv
  BY DEF BuildInit, CommitInv, FeatureEach, ReviewedIsApplied, HeadIsLogged, SavesCommitted, ApprovedIsCommitted, NoBundle
<1>2. BuildInit => ProvenInv
  BY DEF BuildInit, ProvenInv, RedThenGreen, BundleWasProven, ReviewsAreProven, NoBundle
<1>3. CommitInv => ApprovedIsCommitted
  BY DEF CommitInv
<1> QED
  BY <1>1, <1>2, <1>3, BuildTypeInit, BuildTypeStep, ProvenStep, CommitStep, PTL DEF BuildSpec

-----------------------------------------------------------------------------
(* The pipeline and its improve loop.                                      *)

\* The counts of a loop never outrun its rounds, and a loop that goes on has a
\* round left.
LoopBounds ==
    /\ misses <= round
    /\ summary.improvements <= round /\ summary.neutrals <= round /\ summary.regressions <= round
    /\ ipc # "off" => round < MaxRounds
LoopTyped == LoopTypeOK /\ LoopBounds

Summaries == [improvements : 0 .. MaxRounds, neutrals : 0 .. MaxRounds,
              regressions : 0 .. MaxRounds, saturated : BOOLEAN, error : BOOLEAN]

\* The end of a round counts it once, and only what it was.
LEMMA EndRoundCounts ==
  ASSUME LoopTyped, round < MaxRounds, NEW kind \in {"improvements", "neutrals", "regressions"},
         NEW checked \in BOOLEAN, EndRound(kind, checked)
  PROVE  /\ round' = round + 1 /\ round' \in 0 .. MaxRounds /\ misses' \in 0 .. round'
         /\ ipc' \in {"off", "round"} /\ (ipc' # "off" => round' < MaxRounds)
         /\ summary' \in Summaries /\ summary'.error = summary.error
         /\ summary'.improvements <= round' /\ summary'.neutrals <= round'
         /\ summary'.regressions <= round'
         /\ summary'.improvements = (IF kind = "improvements" THEN summary.improvements + 1
                                                              ELSE summary.improvements)
<1> DEFINE m == IF kind = "improvements" THEN 0 ELSE misses + 1
           sat == checked /\ m >= SaturationWindow
<1>c. MaxRounds \in Nat /\ SaturationWindow \in Nat
  BY LoopAssumption
<1>t. round \in 0 .. MaxRounds /\ misses \in 0 .. MaxRounds /\ misses <= round
  BY DEF LoopTyped, LoopTypeOK, LoopBounds
<1>s. /\ summary \in Summaries
      /\ summary.improvements <= round /\ summary.neutrals <= round /\ summary.regressions <= round
  BY DEF LoopTyped, LoopTypeOK, LoopBounds, Summaries
<1>1. /\ round' = round + 1 /\ misses' = m
      /\ ipc' = IF sat \/ round' = MaxRounds THEN "off" ELSE "round"
  BY Zenon DEF EndRound
<1>2. summary' = [summary EXCEPT ![kind] = summary[kind] + 1, !.saturated = sat]
  BY Zenon DEF EndRound
<1>3. m \in 0 .. round'
  <2>1. misses + 1 \in 0 .. round'
    BY <1>c, <1>t, <1>1
  <2> QED
    BY <1>c, <1>t, <1>1, <2>1
<1>b. sat \in BOOLEAN
  OBVIOUS
<1> HIDE DEF m, sat
<1>4. /\ round' = round + 1 /\ round' \in 0 .. MaxRounds /\ misses' \in 0 .. round'
      /\ ipc' \in {"off", "round"} /\ (ipc' # "off" => round' < MaxRounds)
  BY <1>c, <1>t, <1>1, <1>3
<1> DEFINE k == summary[kind] + 1
<1>5. summary[kind] \in 0 .. round /\ k \in 0 .. round' /\ k \in 0 .. MaxRounds
  BY <1>c, <1>t, <1>s, <1>4 DEF Summaries
<1> HIDE DEF k
<1>6. CASE kind = "improvements"
  <2>1. summary' = [summary EXCEPT !.improvements = k, !.saturated = sat]
    BY <1>2, <1>6, Zenon DEF k
  <2>2. summary' \in Summaries
    BY <1>5, <1>s, <1>b, <2>1, Zenon DEF Summaries
  <2>3. /\ summary'.improvements = k /\ summary'.neutrals = summary.neutrals
        /\ summary'.regressions = summary.regressions /\ summary'.error = summary.error
    BY <1>s, <2>1 DEF Summaries
  <2> QED
    BY <1>4, <1>5, <1>6, <1>s, <1>t, <2>2, <2>3 DEF k, Summaries
<1>7. CASE kind = "neutrals"
  <2>1. summary' = [summary EXCEPT !.neutrals = k, !.saturated = sat]
    BY <1>2, <1>7, Zenon DEF k
  <2>2. summary' \in Summaries
    BY <1>5, <1>s, <1>b, <2>1, Zenon DEF Summaries
  <2>3. /\ summary'.neutrals = k /\ summary'.improvements = summary.improvements
        /\ summary'.regressions = summary.regressions /\ summary'.error = summary.error
    BY <1>s, <2>1 DEF Summaries
  <2> QED
    BY <1>4, <1>5, <1>7, <1>s, <1>t, <2>2, <2>3 DEF Summaries
<1>8. CASE kind = "regressions"
  <2>1. summary' = [summary EXCEPT !.regressions = k, !.saturated = sat]
    BY <1>2, <1>8, Zenon DEF k
  <2>2. summary' \in Summaries
    BY <1>5, <1>s, <1>b, <2>1, Zenon DEF Summaries
  <2>3. /\ summary'.regressions = k /\ summary'.improvements = summary.improvements
        /\ summary'.neutrals = summary.neutrals /\ summary'.error = summary.error
    BY <1>s, <2>1 DEF Summaries
  <2> QED
    BY <1>4, <1>5, <1>8, <1>s, <1>t, <2>2, <2>3 DEF Summaries
<1> QED
  BY <1>6, <1>7, <1>8

\* What a round of the loop may do to the code: write a new version and keep the
\* one it replaced, or end with that one restored, a restore that failed, or an
\* improvement counted.
RoundEnded ==
    /\ ipc' \in {"off", "round"} /\ UNCHANGED <<fresh, before>>
    /\ summary'.error = summary.error
    /\ \/ code' = (IF ipc = "challenge" THEN before ELSE code) /\ UNCHANGED leftover
          /\ summary'.improvements = summary.improvements
       \/ leftover' /\ UNCHANGED code /\ summary'.improvements = summary.improvements
       \/ UNCHANGED <<code, leftover>> /\ summary'.improvements = summary.improvements + 1

\* A round keeps the loop in its bounds and moves the code only as said.
LEMMA RoundShape ==
  ASSUME LoopTyped, Round
  PROVE  LoopTyped' /\ (ApplyPatch \/ RoundEnded) /\ ipc # "off"
<1>c. MaxRounds \in Nat /\ MaxVersion \in Nat
  BY LoopAssumption
<1>t. LoopTypeOK /\ LoopBounds
  BY DEF LoopTyped
<1>1. CASE ApplyPatch
  BY <1>c, <1>t, <1>1 DEF ApplyPatch, LoopTyped, LoopTypeOK, LoopBounds
<1>2. ASSUME NEW kind \in {"improvements", "neutrals", "regressions"}, NEW checked \in BOOLEAN,
             ipc # "off", EndRound(kind, checked), UNCHANGED <<fresh, before>>,
             code' \in 0 .. MaxVersion, champion' \in 0 .. MaxVersion, leftover' \in BOOLEAN
      PROVE  LoopTyped'
  <2>1. round < MaxRounds
    BY <1>t, <1>2 DEF LoopBounds
  <2> QED
    BY <1>c, <1>t, <1>2, <2>1, EndRoundCounts DEF LoopTyped, LoopTypeOK, LoopBounds, Summaries
<1>3. ASSUME NEW kind \in {"improvements", "neutrals", "regressions"}, NEW checked \in BOOLEAN,
             ipc # "off", EndRound(kind, checked), UNCHANGED <<fresh, before>>,
             \/ kind = "improvements" /\ UNCHANGED <<code, leftover>>
             \/ /\ kind # "improvements"
                /\ \/ code' = (IF ipc = "challenge" THEN before ELSE code) /\ UNCHANGED leftover
                   \/ leftover' = TRUE /\ UNCHANGED code
      PROVE  RoundEnded
  <2>1. round < MaxRounds
    BY <1>t, <1>3 DEF LoopBounds
  <2>2. /\ ipc' \in {"off", "round"} /\ summary'.error = summary.error
        /\ summary'.improvements = (IF kind = "improvements" THEN summary.improvements + 1
                                                             ELSE summary.improvements)
    BY <1>3, <2>1, EndRoundCounts
  <2> QED
    BY <1>3, <2>2 DEF RoundEnded
<1>r. /\ code \in 0 .. MaxVersion /\ before \in 0 .. MaxVersion /\ champion \in 0 .. MaxVersion
      /\ leftover \in BOOLEAN
  BY <1>t DEF LoopTypeOK
<1>4. CASE NoPatch
  <2>1. ipc = "round" /\ EndRound("neutrals", TRUE) /\ UNCHANGED <<code, fresh, before, champion, leftover>>
    BY <1>4 DEF NoPatch
  <2> QED
    BY <1>2, <1>3, <1>r, <2>1
<1>5. ASSUME NEW restored \in BOOLEAN, BenchmarkThrows(restored) PROVE LoopTyped' /\ RoundEnded /\ ipc # "off"
  <2>1. /\ ipc = "challenge" /\ EndRound("neutrals", FALSE) /\ UNCHANGED <<fresh, before, champion>>
        /\ \/ code' = before /\ UNCHANGED leftover
           \/ leftover' = TRUE /\ UNCHANGED code
    BY <1>5 DEF BenchmarkThrows, Rollback
  <2> QED
    BY <1>2, <1>3, <1>r, <2>1
<1>6. ASSUME NEW exit \in {0, 1}, NEW restored \in BOOLEAN, NEW rebased \in BOOLEAN,
             Challenge(exit, restored, rebased)
      PROVE  LoopTyped' /\ RoundEnded /\ ipc # "off"
  <2>1. \/ /\ champion' \in {code, champion} /\ EndRound("improvements", TRUE)
           /\ UNCHANGED <<code, leftover>>
        \/ /\ Rollback(restored) /\ UNCHANGED champion
           /\ EndRound("regressions", TRUE) \/ EndRound("neutrals", TRUE)
    BY <1>6 DEF Challenge
  <2>2. ipc = "challenge" /\ UNCHANGED <<fresh, before>>
    BY <1>6 DEF Challenge
  <2>3. CASE /\ champion' \in {code, champion} /\ EndRound("improvements", TRUE)
             /\ UNCHANGED <<code, leftover>>
    BY <1>2, <1>3, <1>r, <2>2, <2>3
  <2>4. ASSUME NEW kind \in {"regressions", "neutrals"}, Rollback(restored), UNCHANGED champion,
               EndRound(kind, TRUE)
        PROVE  LoopTyped' /\ RoundEnded
    <3>1. \/ code' = before /\ UNCHANGED leftover
          \/ leftover' = TRUE /\ UNCHANGED code
      BY <2>4 DEF Rollback
    <3> QED
      BY <1>2, <1>3, <1>r, <2>2, <2>4, <3>1
  <2> QED
    BY <2>1, <2>2, <2>3, <2>4
<1> QED
  BY <1>1, <1>4, <1>5, <1>6, <1>2, <1>3, <1>r DEF Round, ApplyPatch, NoPatch

\* The run, the queue and the loop are in their ranges, and the loop in its rounds.
PipelineTyped == TypeOK /\ LoopBounds

\* Nothing has run yet.
LEMMA PipelineTypeInit == Init => PipelineTyped
<1> SUFFICES ASSUME Init PROVE PipelineTyped
  OBVIOUS
<1>1. /\ MaxRounds \in Nat \ {0} /\ MaxVersion \in Nat
      /\ MaxEdits \in Nat /\ MaxRuns \in Nat /\ MaxMishaps \in Nat
  BY LoopAssumption, QueueAssumption
<1>2. LoopTypeOK /\ LoopBounds
  <2>1. summary = NoSummary /\ round = 0
    BY DEF Init, LoopInit
  <2>2. NoSummary \in [improvements : 0 .. MaxRounds, neutrals : 0 .. MaxRounds,
                       regressions : 0 .. MaxRounds, saturated : BOOLEAN, error : BOOLEAN]
    BY <1>1 DEF NoSummary
  <2>3. NoSummary.improvements = 0 /\ NoSummary.neutrals = 0 /\ NoSummary.regressions = 0
    BY DEF NoSummary
  <2>4. LoopBounds
    BY <1>1, <2>1, <2>3 DEF Init, LoopInit, LoopBounds
  <2>5. /\ code \in 0 .. MaxVersion /\ fresh \in 0 .. MaxVersion /\ champion \in 0 .. MaxVersion
        /\ before \in 0 .. MaxVersion /\ round \in 0 .. MaxRounds /\ misses \in 0 .. MaxRounds
    BY <1>1 DEF Init, LoopInit
  <2>6. ipc \in {"off", "round", "challenge"} /\ leftover \in BOOLEAN
    BY DEF Init, LoopInit
  <2>7. summary \in [improvements : 0 .. MaxRounds, neutrals : 0 .. MaxRounds,
                     regressions : 0 .. MaxRounds, saturated : BOOLEAN, error : BOOLEAN]
    BY <2>1, <2>2, Zenon
  <2> QED
    BY <2>4, <2>5, <2>6, <2>7, Zenon DEF LoopTypeOK
<1>3. /\ place \in [Directives -> SUBSET Folders] /\ text \in [Directives -> 0 .. MaxEdits]
      /\ seen \in [Directives -> 0 .. MaxEdits] /\ done \in [Directives -> 0 .. 2]
  BY <1>1 DEF Init, Folders
<1> QED
  BY <1>1, <1>2, <1>3 DEF Init, TypeOK, PipelineTyped

\* The baseline of a loop is taken, or refused, before its first round.
LEMMA StartLoopShape ==
  ASSUME LoopTyped, NEW exit \in {0, 1}, StartLoop(exit)
  PROVE  LoopTyped' /\ UNCHANGED <<code, leftover>> /\ ipc = "off" /\ summary'.improvements = 0
<1>c. MaxRounds \in Nat \ {0}
  BY LoopAssumption
<1>1. /\ UNCHANGED <<code, fresh, before, leftover>> /\ ipc = "off"
      /\ ipc' \in {ipc, "round"} /\ champion' \in {champion, code} /\ round' = 0 /\ misses' = 0
      /\ \/ summary' = [NoSummary EXCEPT !.error = TRUE]
         \/ summary' = NoSummary
  BY DEF StartLoop
<1>2. /\ summary' \in Summaries
      /\ summary'.improvements = 0 /\ summary'.neutrals = 0 /\ summary'.regressions = 0
  <2>1. /\ NoSummary \in Summaries
        /\ NoSummary.improvements = 0 /\ NoSummary.neutrals = 0 /\ NoSummary.regressions = 0
    BY <1>c DEF Summaries, NoSummary
  <2>2. CASE summary' = NoSummary
    BY <2>1, <2>2
  <2>3. CASE summary' = [NoSummary EXCEPT !.error = TRUE]
    <3>1. [NoSummary EXCEPT !.error = TRUE] \in Summaries
      BY <2>1, Zenon DEF Summaries
    <3>2. /\ [NoSummary EXCEPT !.error = TRUE].improvements = NoSummary.improvements
          /\ [NoSummary EXCEPT !.error = TRUE].neutrals = NoSummary.neutrals
          /\ [NoSummary EXCEPT !.error = TRUE].regressions = NoSummary.regressions
      BY <2>1 DEF Summaries
    <3> QED
      BY <2>1, <2>3, <3>1, <3>2
  <2> QED
    BY <1>1, <2>2, <2>3
<1> QED
  BY <1>c, <1>1, <1>2 DEF LoopTyped, LoopTypeOK, LoopBounds, Summaries

\* A run that ends, or dies, forgets its loop.
LEMMA ForgetRunShape ==
  ASSUME LoopTyped, ForgetRun, UNCHANGED <<code, fresh>>, leftover' \in BOOLEAN
  PROVE  LoopTyped'
<1>c. MaxRounds \in Nat \ {0} /\ MaxVersion \in Nat
  BY LoopAssumption
<1>1. /\ summary' \in Summaries
      /\ summary'.improvements = 0 /\ summary'.neutrals = 0 /\ summary'.regressions = 0
  BY <1>c DEF Summaries, NoSummary, ForgetRun
<1> QED
  BY <1>c, <1>1 DEF ForgetRun, LoopTyped, LoopTypeOK, LoopBounds, Summaries

\* The phase after one of the six is a phase, or the report.
LEMMA FollowingPhase == \A p \in Phases : Following(p) \in Phases \cup {"report"}
<1> SUFFICES ASSUME NEW p \in Phases PROVE Following(p) \in Phases \cup {"report"}
  OBVIOUS
<1> DEFINE i == CHOOSE i \in 1 .. 6 : Order[i] = p
<1>1. i \in 1 .. 6
  BY DEF Phases
<1> HIDE DEF i
<1>2. i + 1 \in 2 .. 7
  BY <1>1
<1>3. \A j \in 2 .. 7 : Order[j] \in Phases \cup {"report"}
  <2>1. \A j \in 2 .. 6 : Order[j] \in Phases
    BY DEF Phases
  <2>2. Order[7] = "report"
    BY DEF Order
  <2> QED
    BY <2>1, <2>2
<1> QED
  BY <1>2, <1>3, Zenon DEF Following, i

\* Improve comes before the final polish, the final polish before the report.
LEMMA LastPhases ==
  /\ {"build", "polish", "fuzz", "benchmark", "improve", "finalPolish"} = Phases
  /\ Following("improve") = "finalPolish" /\ Following("finalPolish") = "report"
<1>1. \A i \in 1 .. 6 : /\ Order[i] = "improve" <=> i = 5
                        /\ Order[i] = "finalPolish" <=> i = 6
  BY DEF Order
<1>2. /\ (CHOOSE i \in 1 .. 6 : Order[i] = "improve") = 5
      /\ (CHOOSE i \in 1 .. 6 : Order[i] = "finalPolish") = 6
  BY <1>1
<1>3. Order[6] = "finalPolish" /\ Order[7] = "report"
  BY DEF Order
<1>4. Phases = {Order[1], Order[2], Order[3], Order[4], Order[5], Order[6]}
  BY DEF Phases
<1> QED
  BY <1>2, <1>3, <1>4 DEF Following, Order

\* A step of the operator, the run or a crash keeps all of it in its ranges.
LEMMA PipelineTypeStep == PipelineTyped /\ [Next]_vars => PipelineTyped'
<1> SUFFICES ASSUME PipelineTyped, [Next]_vars PROVE PipelineTyped'
  OBVIOUS
<1>c. /\ MaxEdits \in Nat /\ MaxRuns \in Nat /\ MaxMishaps \in Nat
      /\ OptIns \subseteq SUBSET {"build", "fuzz", "benchmark"}
  BY QueueAssumption
<1>p. /\ {"build", "polish", "fuzz", "benchmark", "improve", "finalPolish"} = Phases
      /\ \A p \in Phases : Following(p) \in Phases \cup {"report"}
  BY FollowingPhase, LastPhases
<1>l. LoopTyped
  BY DEF PipelineTyped, TypeOK, LoopTyped
<1> DEFINE QueueOK ==
      /\ place \in [Directives -> SUBSET Folders]
      /\ text \in [Directives -> 0 .. MaxEdits] /\ seen \in [Directives -> 0 .. MaxEdits]
      /\ phase \in Phases \cup {"idle", "report"} /\ active \subseteq Phases
      /\ allowed \subseteq {"build", "fuzz", "benchmark"}
      /\ todo \subseteq Directives /\ cur \in Directives \cup {NoDirective}
      /\ runner \in {"ok", "pending", "retryable", "failed"} /\ loaded \in 0 .. MaxEdits
      /\ entries \subseteq Directives
      /\ result \in [Phases -> {"none", "running", "ok", "failed", "skipped"}]
      /\ measured \in [{"fuzz", "benchmark"} -> -1 .. MaxVersion]
      /\ done \in [Directives -> 0 .. 2] /\ told \subseteq Directives /\ cut \subseteq Directives
      /\ runs \in 0 .. MaxRuns /\ mishaps \in 0 .. MaxMishaps
<1>t. QueueOK
  BY DEF PipelineTyped, TypeOK
<1>q. QueueOK' /\ LoopTyped' => PipelineTyped'
  BY DEF PipelineTyped, TypeOK, LoopTyped
<1>u. UNCHANGED loopVars => LoopTyped'
  BY <1>l DEF loopVars, LoopTyped, LoopTypeOK, LoopBounds
<1>1. ASSUME NEW d \in Directives, ApproveDirective(d) \/ SkipDirective(d) \/ EditDirective(d)
      PROVE  PipelineTyped'
  <2>1. place' \in [Directives -> SUBSET Folders] /\ text' \in [Directives -> 0 .. MaxEdits]
    BY <1>c, <1>t, <1>1 DEF ApproveDirective, SkipDirective, EditDirective, Folders
  <2> QED
    BY <1>t, <1>q, <1>u, <1>1, <2>1 DEF ApproveDirective, SkipDirective, EditDirective, runVars
<1>2. ASSUME NEW requested \in Requests, NEW optins \in OptIns, StartRun(requested, optins)
      PROVE  PipelineTyped'
  <2>1. active' \subseteq Phases /\ allowed' \subseteq {"build", "fuzz", "benchmark"} /\ runs' \in 0 .. MaxRuns
    BY <1>c, <1>t, <1>2 DEF StartRun, ActivePhases
  <2> QED
    BY <1>p, <1>t, <1>q, <1>u, <1>2, <2>1 DEF StartRun
<1>f. ASSUME NEW p \in Phases, NEW how \in {"ok", "failed", "skipped"}, Finish(p, how)
      PROVE  /\ phase' \in Phases \cup {"idle", "report"}
             /\ result' \in [Phases -> {"none", "running", "ok", "failed", "skipped"}]
  BY <1>p, <1>t, <1>f DEF Finish
<1>3. ASSUME NEW p \in Phases, SkipPhase(p) \/ Polish(p) PROVE PipelineTyped'
  <2>1. Finish(p, "skipped") \/ Finish(p, "ok")
    BY <1>3 DEF SkipPhase, Polish
  <2>2. /\ phase' \in Phases \cup {"idle", "report"}
        /\ result' \in [Phases -> {"none", "running", "ok", "failed", "skipped"}]
    BY <1>f, <2>1
  <2> QED
    BY <1>t, <1>q, <1>u, <1>3, <2>2 DEF SkipPhase, Polish
<1>4. CASE AdmitDirectives
  <2>1. /\ phase' \in Phases \cup {"idle", "report"}
        /\ result' \in [Phases -> {"none", "running", "ok", "failed", "skipped"}]
    BY <1>p, <1>f, <1>t, <1>4 DEF AdmitDirectives
  <2>2. todo' \subseteq Directives /\ seen' \in [Directives -> 0 .. MaxEdits]
    BY <1>t, <1>4 DEF AdmitDirectives
  <2> QED
    BY <1>t, <1>q, <1>u, <1>4, <2>1, <2>2 DEF AdmitDirectives
<1>5. ASSUME NEW d \in Directives, NEW r \in [kind : Kinds, transient : BOOLEAN], RunDirective(d, r)
      PROVE  PipelineTyped'
  <2>1. done' \in [Directives -> 0 .. 2] /\ loaded' \in 0 .. MaxEdits
    BY <1>t, <1>5 DEF RunDirective
  <2>2. runner' \in {"ok", "pending", "retryable", "failed"}
    BY <1>5 DEF RunDirective, Classify
  <2> QED
    BY <1>t, <1>q, <1>u, <1>5, <2>1, <2>2 DEF RunDirective
<1>6. CASE KeepDirective
  BY <1>t, <1>q, <1>u, <1>6 DEF KeepDirective
<1>7. CASE ArchiveDirective
  <2>1. place' \in [Directives -> SUBSET Folders]
    BY <1>t, <1>7 DEF ArchiveDirective, Folders
  <2> QED
    BY <1>t, <1>q, <1>u, <1>7, <2>1 DEF ArchiveDirective
<1>8. ASSUME NEW copied \in BOOLEAN, NEW unlinks \in BOOLEAN, FailToArchive(copied, unlinks)
      PROVE  PipelineTyped'
  <2>1. place' \in [Directives -> SUBSET Folders]
    <3>1. place[cur] \subseteq Folders
      BY <1>t, <1>8 DEF FailToArchive
    <3> QED
      BY <1>t, <1>8, <3>1 DEF FailToArchive, Folders
  <2>2. entries' \subseteq Directives /\ mishaps' \in 0 .. MaxMishaps
    BY <1>c, <1>t, <1>8 DEF FailToArchive
  <2> QED
    BY <1>t, <1>q, <1>u, <1>8, <2>1, <2>2 DEF FailToArchive
<1>9. CASE FinishBuild
  BY <1>f, <1>p, <1>t, <1>q, <1>u, <1>9 DEF FinishBuild
<1>10. ASSUME NEW p \in Phases, NEW how \in {"ok", "failed", "skipped"}, Measure(p, how)
       PROVE  PipelineTyped'
  <2>1. code \in 0 .. MaxVersion /\ MaxVersion \in Nat
    BY <1>l, LoopAssumption DEF LoopTyped, LoopTypeOK
  <2>2. measured' \in [{"fuzz", "benchmark"} -> -1 .. MaxVersion]
    BY <1>t, <1>10, <2>1 DEF Measure
  <2> QED
    BY <1>f, <1>t, <1>q, <1>u, <1>10, <2>2 DEF Measure
<1>11. ASSUME NEW exit \in {0, 1}, EnterImprove(exit) PROVE PipelineTyped'
  <2>1. LoopTyped'
    BY <1>l, <1>u, <1>11, StartLoopShape DEF EnterImprove
  <2>2. /\ phase' \in Phases \cup {"idle", "report"}
        /\ result' \in [Phases -> {"none", "running", "ok", "failed", "skipped"}]
    BY <1>p, <1>f, <1>t, <1>11 DEF EnterImprove
  <2> QED
    BY <1>t, <1>q, <1>11, <2>1, <2>2 DEF EnterImprove
<1>12. CASE ImproveRound
  <2>1. LoopTyped' /\ UNCHANGED queueVars
    BY <1>l, <1>12, RoundShape DEF ImproveRound
  <2> QED
    BY <1>t, <1>q, <2>1 DEF queueVars
<1>13. CASE LeaveImprove
  BY <1>f, <1>p, <1>t, <1>q, <1>u, <1>13 DEF LeaveImprove
<1>g. ASSUME ForgetRun
      PROVE  /\ seen' \in [Directives -> 0 .. MaxEdits]
             /\ result' \in [Phases -> {"none", "running", "ok", "failed", "skipped"}]
             /\ measured' \in [{"fuzz", "benchmark"} -> -1 .. MaxVersion]
             /\ phase' \in Phases \cup {"idle", "report"} /\ active' \subseteq Phases
             /\ allowed' \subseteq {"build", "fuzz", "benchmark"} /\ todo' \subseteq Directives
             /\ cur' \in Directives \cup {NoDirective} /\ entries' \subseteq Directives
             /\ runner' \in {"ok", "pending", "retryable", "failed"} /\ loaded' \in 0 .. MaxEdits
  BY <1>c, <1>g, LoopAssumption DEF ForgetRun
<1>14. CASE Report
  <2>1. LoopTyped'
    BY <1>l, <1>14, ForgetRunShape DEF Report, LoopTyped, LoopTypeOK
  <2>2. ForgetRun /\ told' \subseteq Directives
    BY <1>t, <1>14 DEF Report
  <2>3. UNCHANGED <<place, text, done, cut, runs, mishaps>>
    BY <1>14 DEF Report
  <2> QED
    BY <1>g, <1>t, <1>q, <2>1, <2>2, <2>3
<1>15. ASSUME NEW copied \in BOOLEAN, Crash(copied) PROVE PipelineTyped'
  <2>1. LoopTyped'
    BY <1>l, <1>15, ForgetRunShape DEF Crash, LoopTyped, LoopTypeOK
  <2>2. place' \in [Directives -> SUBSET Folders] /\ mishaps' \in 0 .. MaxMishaps
    BY <1>c, <1>t, <1>15 DEF Crash, Folders
  <2>3. ForgetRun /\ cut' \subseteq Directives
    BY <1>t, <1>15 DEF Crash
  <2>4. UNCHANGED <<text, done, told, runs>>
    BY <1>15 DEF Crash
  <2> QED
    BY <1>g, <1>t, <1>q, <2>1, <2>2, <2>3, <2>4
<1>16. CASE UNCHANGED vars
  BY <1>t, <1>q, <1>u, <1>16 DEF vars, queueVars
<1> QED
  BY <1>1, <1>2, <1>3, <1>4, <1>5, <1>6, <1>7, <1>8, <1>9, <1>10, <1>11, <1>12, <1>13, <1>14, <1>15, <1>16
     DEF Next, Operator, Step

\* The pipeline stays within its types over runs, edits and crashes.
THEOREM PipelineTypeCorrect == Spec => []TypeOK
<1>1. PipelineTyped => TypeOK
  BY DEF PipelineTyped
<1> QED
  BY <1>1, PipelineTypeInit, PipelineTypeStep, PTL DEF Spec

\* A directive is in hand, or left to run, only in the running build phase.
RunsInBuild ==
    cur # NoDirective \/ todo # {} =>
        phase = "build" /\ "build" \in active /\ result["build"] = "running"

\* Somebody has been, or will be, told about the directive, or a crash took it.
Accounted == told \cup entries \cup cut

\* A directive that succeeded and is not accounted for does not run again: it is
\* about to be filed, or it is filed and out of the queue.  It may not wait in the
\* queue, and the operator may not approve it anew.
FiledOnce ==
    \A d \in Directives : done[d] >= 1 /\ d \notin Accounted =>
        /\ d \notin todo
        /\ \/ cur = d /\ runner = "ok"
           \/ "history" \in place[d] /\ "approved" \notin place[d]
QueueInv == RunsInBuild /\ FiledOnce /\ NoneLostInSilence /\ NoSilentReplay

\* Improve runs in its phase, and its result is there only in the later ones.
ImproveInPhase ==
    /\ result["improve"] = "running" => phase = "improve" /\ "improve" \in active
    /\ result["improve"] \notin {"none", "running"} => phase \in {"finalPolish", "report"}
    /\ ipc # "off" => phase = "improve" /\ result["improve"] = "running" /\ ~summary.error
    /\ summary.error => summary.improvements = 0

\* The code that a failed round would leave: the one the challenge replaced.
Baseline == IF ipc = "challenge" THEN before ELSE code
Improved == result["improve"] \in {"running", "ok"} /\ summary.improvements > 0

\* What was measured is what a loop without an improvement or a failed restore leaves.
MeasuredBaseline ==
    ~leftover /\ ~Improved =>
        \A p \in {"fuzz", "benchmark"} : result[p] = "ok" => measured[p] = Baseline
ReportInv == ImproveInPhase /\ MeasuredBaseline

\* A step of the run, the operator or a crash keeps the queue accounted for.
LEMMA QueueStep == PipelineTyped /\ QueueInv /\ [Next]_vars => QueueInv'
<1> SUFFICES ASSUME PipelineTyped, QueueInv, [Next]_vars PROVE QueueInv'
  OBVIOUS
<1>t. /\ place \in [Directives -> SUBSET Folders] /\ done \in [Directives -> 0 .. 2]
      /\ result \in [Phases -> {"none", "running", "ok", "failed", "skipped"}]
      /\ todo \subseteq Directives /\ cur \in Directives \cup {NoDirective}
      /\ runner \in {"ok", "pending", "retryable", "failed"}
  BY DEF PipelineTyped, TypeOK
<1>p. {"build", "polish", "fuzz", "benchmark", "improve", "finalPolish"} = Phases
  BY LastPhases
<1> DEFINE Filed == FiledOnce /\ NoneLostInSilence /\ NoSilentReplay
<1>i. RunsInBuild /\ Filed
  BY DEF QueueInv
<1>q. RunsInBuild' /\ Filed' => QueueInv'
  BY DEF QueueInv
\* Steps that leave the directives and what is known of them alone.
<1>s. ASSUME UNCHANGED <<place, done, todo, cur, runner, told, entries, cut>> PROVE Filed'
  BY <1>i, <1>s DEF FiledOnce, NoneLostInSilence, NoSilentReplay, Accounted
\* A phase other than build ends: nothing is in hand or left to run.
<1>f. ASSUME NEW p \in Phases, NEW how \in {"ok", "failed", "skipped"}, phase = p, Finish(p, how),
             p # "build" \/ (cur = NoDirective /\ todo = {}) , UNCHANGED <<todo, cur>>
      PROVE  RunsInBuild'
  BY <1>i, <1>f DEF RunsInBuild
<1>1. ASSUME NEW d \in Directives, ApproveDirective(d) \/ SkipDirective(d) PROVE QueueInv'
  <2>1. /\ place[d] = {"pending"} /\ UNCHANGED runVars
        /\ \E to \in {"approved", "skipped"} : place' = [place EXCEPT ![d] = {to}]
    BY <1>1 DEF ApproveDirective, SkipDirective
  <2>2. FiledOnce'
    <3> SUFFICES ASSUME NEW e \in Directives, done[e] >= 1, e \notin Accounted
                 PROVE  /\ e \notin todo
                        /\ (cur = e /\ runner = "ok") \/ ("history" \in place'[e] /\ "approved" \notin place'[e])
      BY <2>1 DEF FiledOnce, runVars, Accounted
    <3>1. /\ e \notin todo
          /\ (cur = e /\ runner = "ok") \/ ("history" \in place[e] /\ "approved" \notin place[e])
      BY <1>i DEF FiledOnce
    <3>2. CASE e = d
      BY <2>1, <3>1, <3>2
    <3>3. CASE e # d
      BY <1>t, <2>1, <3>1, <3>3
    <3> QED
      BY <3>2, <3>3
  <2>3. NoneLostInSilence' /\ NoSilentReplay'
    BY <1>i, <1>t, <2>1 DEF NoneLostInSilence, NoSilentReplay, runVars
  <2> QED
    BY <1>i, <1>q, <2>1, <2>2, <2>3 DEF RunsInBuild, runVars
<1>2. ASSUME NEW d \in Directives, EditDirective(d) PROVE QueueInv'
  BY <1>i, <1>q, <1>s, <1>2 DEF EditDirective, runVars, RunsInBuild
<1>3. ASSUME NEW requested \in Requests, NEW optins \in OptIns, StartRun(requested, optins)
      PROVE  QueueInv'
  BY <1>i, <1>q, <1>s, <1>3 DEF StartRun, RunsInBuild
<1>4. ASSUME NEW p \in Phases, SkipPhase(p) \/ Polish(p) PROVE QueueInv'
  <2>1. /\ p # "build" \/ p \notin active
        /\ UNCHANGED <<place, done, todo, cur, runner, told, entries, cut>>
    BY <1>4 DEF SkipPhase, Polish
  <2>2. p # "build" \/ (cur = NoDirective /\ todo = {})
    BY <1>i, <2>1 DEF RunsInBuild
  <2>3. phase = p /\ (Finish(p, "skipped") \/ Finish(p, "ok"))
    BY <1>4 DEF SkipPhase, Polish
  <2> QED
    BY <1>f, <1>q, <1>s, <2>1, <2>2, <2>3
\* A directive that is admitted is in the queue, so it is not filed.
<1>5. CASE AdmitDirectives
  <2> DEFINE plain == {d \in Directives : "approved" \in place[d]} \ Links
  <2>1. /\ phase = "build" /\ "build" \in active /\ cur = NoDirective /\ todo = {}
        /\ UNCHANGED <<place, active, done, cur, runner, told, entries, cut>>
    BY <1>5 DEF AdmitDirectives
  <2>2. CASE todo' = plain /\ result' = [result EXCEPT !["build"] = "running"] /\ UNCHANGED phase
    <3>1. RunsInBuild'
      BY <1>t, <1>p, <2>1, <2>2 DEF RunsInBuild
    <3>2. FiledOnce'
      <4>1. \A d \in Directives : done[d] >= 1 /\ d \notin Accounted => d \notin plain
        BY <1>i, <2>1, QueueAssumption DEF FiledOnce
      <4> HIDE DEF plain
      <4> QED
        BY <1>i, <2>1, <2>2, <4>1 DEF FiledOnce, Accounted
    <3>3. NoneLostInSilence' /\ NoSilentReplay'
      BY <1>i, <2>1, <2>2 DEF NoneLostInSilence, NoSilentReplay, Accounted
    <3> QED
      BY <1>q, <3>1, <3>2, <3>3
  <2>3. CASE Finish("build", "skipped") /\ UNCHANGED <<todo, seen>>
    BY <1>f, <1>p, <1>q, <1>s, <2>1, <2>3
  <2> QED
    BY <1>5, <2>2, <2>3 DEF AdmitDirectives
\* What runs is admitted, hence never ran well before, or that is accounted for.
<1>6. ASSUME NEW d \in Directives, NEW r \in [kind : Kinds, transient : BOOLEAN], RunDirective(d, r)
      PROVE  QueueInv'
  <2>1. /\ phase = "build" /\ d \in todo /\ cur = NoDirective
        /\ todo' = todo \ {d} /\ cur' = d /\ runner' = Classify(r)
        /\ done' = [done EXCEPT ![d] = IF IsOk(r) /\ done[d] < 2 THEN done[d] + 1 ELSE done[d]]
        /\ UNCHANGED <<place, phase, active, entries, result, told, cut>>
    BY <1>6 DEF RunDirective
  <2>2. IsOk(r) => runner' = "ok"
    BY <2>1 DEF Classify
  <2>3. done[d] = 0 \/ d \in Accounted
    BY <1>i, <1>t, <2>1 DEF FiledOnce
  <2>4. done'[d] = done[d] \/ (IsOk(r) /\ done'[d] = done[d] + 1)
    BY <1>t, <2>1
  <2>5. FiledOnce'
    <3> SUFFICES ASSUME NEW e \in Directives, done'[e] >= 1, e \notin Accounted
                 PROVE  /\ e \notin todo'
                        /\ (cur' = e /\ runner' = "ok") \/ ("history" \in place[e] /\ "approved" \notin place[e])
      BY <2>1 DEF FiledOnce, Accounted
    <3>1. CASE e = d
      BY <1>t, <2>1, <2>2, <2>3, <2>4, <3>1
    <3>2. CASE e # d
      BY <1>i, <1>t, <2>1, <3>2, QueueAssumption DEF FiledOnce
    <3> QED
      BY <3>1, <3>2
  <2>6. NoSilentReplay'
    BY <1>i, <1>t, <2>1, <2>3, <2>4 DEF NoSilentReplay, Accounted
  <2>7. NoneLostInSilence' /\ RunsInBuild'
    BY <1>i, <2>1 DEF NoneLostInSilence, RunsInBuild
  <2> QED
    BY <1>q, <2>5, <2>6, <2>7
<1>7. CASE KeepDirective
  <2>1. /\ cur # NoDirective /\ cur' = NoDirective /\ runner # "ok"
        /\ UNCHANGED <<place, done, todo, phase, active, result, told, entries, cut>>
    BY <1>7 DEF KeepDirective, ShouldArchive
  <2>2. Filed'
    BY <1>i, <2>1 DEF FiledOnce, NoneLostInSilence, NoSilentReplay, Accounted
  <2> QED
    BY <1>i, <1>q, <2>1, <2>2 DEF RunsInBuild
<1>8. CASE ArchiveDirective
  <2>1. /\ cur \in Directives /\ cur' = NoDirective
        /\ place' = [place EXCEPT ![cur] = (place[cur] \ {"approved"}) \cup {"history"}]
        /\ UNCHANGED <<done, todo, phase, active, result, told, entries, cut>>
    BY <1>t, <1>8 DEF ArchiveDirective
  <2>2. /\ "history" \in place'[cur] /\ "approved" \notin place'[cur]
        /\ \A e \in Directives \ {cur} : place'[e] = place[e]
    BY <1>t, <2>1
  <2>3. Filed'
    BY <1>i, <2>1, <2>2 DEF FiledOnce, NoneLostInSilence, NoSilentReplay, Accounted
  <2> QED
    BY <1>i, <1>q, <2>1, <2>3 DEF RunsInBuild
<1>9. ASSUME NEW copied \in BOOLEAN, NEW unlinks \in BOOLEAN, FailToArchive(copied, unlinks)
      PROVE  QueueInv'
  <2>1. /\ cur \in Directives /\ cur' = NoDirective /\ entries' = entries \cup {cur}
        /\ \E v : place' = [place EXCEPT ![cur] = v]
        /\ UNCHANGED <<done, todo, phase, active, result, told, cut>>
    BY <1>t, <1>9 DEF FailToArchive
  <2>2. /\ cur \in Accounted' /\ Accounted \subseteq Accounted'
        /\ \A e \in Directives \ {cur} : place'[e] = place[e]
    BY <1>t, <2>1 DEF Accounted
  <2>3. FiledOnce'
    BY <1>i, <2>1, <2>2 DEF FiledOnce
  <2>4. NoneLostInSilence' /\ NoSilentReplay'
    BY <1>i, <2>1, <2>2 DEF NoneLostInSilence, NoSilentReplay, Accounted
  <2> QED
    BY <1>i, <1>q, <2>1, <2>3, <2>4 DEF RunsInBuild
<1>10. CASE FinishBuild
  BY <1>f, <1>p, <1>q, <1>s, <1>10 DEF FinishBuild
<1>11. ASSUME NEW p \in Phases, NEW how \in {"ok", "failed", "skipped"}, Measure(p, how)
       PROVE  QueueInv'
  BY <1>f, <1>q, <1>s, <1>11 DEF Measure
<1>12. ASSUME NEW exit \in {0, 1}, EnterImprove(exit) PROVE QueueInv'
  <2>1. /\ phase = "improve" /\ UNCHANGED <<place, active, todo, cur, runner, done, told, entries, cut>>
    BY <1>12 DEF EnterImprove
  <2>2. cur = NoDirective /\ todo = {}
    BY <1>i, <2>1 DEF RunsInBuild
  <2> QED
    BY <1>q, <1>s, <2>1, <2>2 DEF RunsInBuild
<1>13. CASE ImproveRound
  BY <1>i, <1>q, <1>s, <1>13 DEF ImproveRound, queueVars, RunsInBuild
<1>14. CASE LeaveImprove
  <2>1. /\ phase = "improve" /\ UNCHANGED <<place, active, todo, cur, runner, done, told, entries, cut>>
    BY <1>14 DEF LeaveImprove
  <2>2. cur = NoDirective /\ todo = {}
    BY <1>i, <2>1 DEF RunsInBuild
  <2> QED
    BY <1>q, <1>s, <2>1, <2>2 DEF RunsInBuild
<1>15. CASE Report
  <2>1. /\ phase = "report" /\ told' = told \cup entries /\ entries' = {} /\ UNCHANGED <<place, done, cut>>
        /\ todo' = {} /\ cur' = NoDirective
    BY <1>15 DEF Report, ForgetRun
  <2>2. cur = NoDirective /\ todo = {}
    BY <1>i, <2>1 DEF RunsInBuild
  <2>3. Filed'
    BY <1>i, <1>t, <2>1, <2>2, QueueAssumption DEF FiledOnce, NoneLostInSilence, NoSilentReplay, Accounted
  <2> QED
    BY <1>q, <2>1, <2>3 DEF RunsInBuild
<1>16. ASSUME NEW copied \in BOOLEAN, Crash(copied) PROVE QueueInv'
  <2>1. /\ cut' = cut \cup entries \cup (IF cur = NoDirective THEN {} ELSE {cur})
        /\ place' = (IF copied THEN [place EXCEPT ![cur] = place[cur] \cup {"history"}] ELSE place)
        /\ copied => cur # NoDirective
        /\ entries' = {} /\ UNCHANGED <<told, done>> /\ todo' = {} /\ cur' = NoDirective
    BY <1>16 DEF Crash, ForgetRun
  <2>2. Accounted \subseteq Accounted' /\ (cur # NoDirective => cur \in Accounted')
    BY <2>1 DEF Accounted
  <2>3. \A e \in Directives : place[e] \subseteq place'[e] /\ (e # cur => place'[e] = place[e])
    BY <1>t, <2>1
  <2>4. FiledOnce'
    BY <1>i, <2>1, <2>2, <2>3, QueueAssumption DEF FiledOnce
  <2>5. NoneLostInSilence' /\ NoSilentReplay'
    BY <1>i, <2>1, <2>2, <2>3 DEF NoneLostInSilence, NoSilentReplay, Accounted
  <2> QED
    BY <1>q, <2>1, <2>4, <2>5 DEF RunsInBuild
<1>17. CASE UNCHANGED vars
  BY <1>i, <1>q, <1>s, <1>17 DEF vars, queueVars, RunsInBuild
<1> QED
  BY <1>1, <1>2, <1>3, <1>4, <1>5, <1>6, <1>7, <1>8, <1>9, <1>10, <1>11, <1>12, <1>13, <1>14, <1>15, <1>16, <1>17
     DEF Next, Operator, Step

\* No directive is in hand or was run when the first run starts.
LEMMA QueueInit == Init => QueueInv
<1> SUFFICES ASSUME Init PROVE QueueInv
  OBVIOUS
<1>1. /\ cur = NoDirective /\ todo = {} /\ \A d \in Directives : done[d] = 0 /\ place[d] = {"pending"}
  BY DEF Init
<1> QED
  BY <1>1 DEF QueueInv, RunsInBuild, FiledOnce, NoneLostInSilence, NoSilentReplay

\* A directive that no folder holds any more is in a report, in the results being
\* built, or among those a crash took (completeDirective and its fallback).
THEOREM DirectivesAreAccountedFor == Spec => []NoneLostInSilence
<1>1. QueueInv => NoneLostInSilence
  BY DEF QueueInv
<1> QED
  BY <1>1, PipelineTypeInit, PipelineTypeStep, QueueInit, QueueStep, PTL DEF Spec

\* A directive succeeds twice only when its filing failed and the report says so,
\* or a crash came between (phaseBuild, classify, completeDirective).
THEOREM ReplaysAreReported == Spec => []NoSilentReplay
<1>1. QueueInv => NoSilentReplay
  BY DEF QueueInv
<1> QED
  BY <1>1, PipelineTypeInit, PipelineTypeStep, QueueInit, QueueStep, PTL DEF Spec


\* A step keeps the measurements those of the code that improve left.
LEMMA ReportsStayCurrent == PipelineTyped /\ QueueInv /\ ReportInv /\ [Next]_vars => ReportInv'
<1> SUFFICES ASSUME PipelineTyped, QueueInv, ReportInv, [Next]_vars PROVE ReportInv'
  OBVIOUS
<1>t. /\ result \in [Phases -> {"none", "running", "ok", "failed", "skipped"}]
      /\ measured \in [{"fuzz", "benchmark"} -> -1 .. MaxVersion]
      /\ LoopTyped /\ summary.improvements \in Nat
  <2>1. LoopTyped
    BY DEF PipelineTyped, TypeOK, LoopTyped
  <2>2. summary.improvements \in Nat
    BY <2>1, LoopAssumption DEF LoopTyped, LoopTypeOK
  <2> QED
    BY <2>1, <2>2 DEF PipelineTyped, TypeOK
<1>p. {"build", "polish", "fuzz", "benchmark", "improve", "finalPolish"} = Phases
  BY LastPhases
<1>i. ImproveInPhase /\ MeasuredBaseline
  BY DEF ReportInv
<1>q. ImproveInPhase' /\ MeasuredBaseline' => ReportInv'
  BY DEF ReportInv
\* Steps of the queue, the operator and the build phase.
<1>s. ASSUME UNCHANGED <<loopVars, active, result, measured>>, phase' = phase \/ phase = "idle"
      PROVE  ReportInv'
  BY <1>i, <1>q, <1>s DEF loopVars, ImproveInPhase, MeasuredBaseline, Baseline, Improved
\* A phase ends; the measurements it took are of the code as it is.
<1>f. ASSUME NEW p \in Phases, NEW how \in {"ok", "failed", "skipped"}, phase = p, Finish(p, how),
             UNCHANGED <<loopVars, active>>, ipc = "off",
             \/ UNCHANGED measured /\ p \notin {"fuzz", "benchmark"}
             \/ /\ p \in {"fuzz", "benchmark"}
                /\ measured' = [measured EXCEPT ![p] = IF how = "ok" THEN code ELSE measured[p]],
             p = "improve" => ~Improved \/ how = "ok"
      PROVE  ReportInv'
  <2>1. /\ result' = [result EXCEPT ![p] = how] /\ phase' = Following(p) /\ code' = code /\ ipc' = ipc
        /\ leftover' = leftover /\ summary' = summary
    BY <1>f DEF Finish, loopVars
  <2>2. ImproveInPhase'
    <3>1. CASE p = "improve"
      BY <1>i, <1>f, <1>t, <1>p, <2>1, <3>1, LastPhases DEF ImproveInPhase
    <3>2. CASE p = "finalPolish"
      BY <1>i, <1>f, <1>t, <1>p, <2>1, <3>2, LastPhases DEF ImproveInPhase
    <3>3. CASE p \notin {"improve", "finalPolish"}
      BY <1>i, <1>f, <1>t, <1>p, <2>1, <3>3 DEF ImproveInPhase
    <3> QED
      BY <3>1, <3>2, <3>3
  <2>3. ~leftover' /\ ~Improved' => ~leftover /\ ~Improved
    <3>1. CASE p = "improve"
      BY <1>f, <1>t, <1>p, <2>1, <3>1 DEF Improved
    <3>2. CASE p # "improve"
      BY <1>t, <1>p, <2>1, <3>2 DEF Improved
    <3> QED
      BY <3>1, <3>2
  <2>4. ASSUME ~leftover', ~Improved', NEW m \in {"fuzz", "benchmark"}, result'[m] = "ok"
        PROVE  measured'[m] = Baseline'
    <3>1. Baseline' = code /\ Baseline = code
      BY <1>f, <2>1 DEF Baseline
    <3>2. CASE m = p
      BY <1>f, <1>t, <1>p, <2>1, <2>4, <3>1, <3>2
    <3>3. CASE m # p
      <4>1. result[m] = "ok" /\ measured'[m] = measured[m]
        BY <1>f, <1>t, <1>p, <2>1, <2>4, <3>3
      <4> QED
        BY <1>i, <2>3, <2>4, <3>1, <4>1 DEF MeasuredBaseline
    <3> QED
      BY <3>2, <3>3
  <2> QED
    BY <1>q, <2>2, <2>4 DEF MeasuredBaseline
<1>o. phase # "improve" => ipc = "off"
  BY <1>i DEF ImproveInPhase
<1>1. ASSUME NEW d \in Directives, ApproveDirective(d) \/ SkipDirective(d) \/ EditDirective(d)
      PROVE  ReportInv'
  BY <1>s, <1>1 DEF ApproveDirective, SkipDirective, EditDirective, runVars
<1>2. ASSUME NEW requested \in Requests, NEW optins \in OptIns, StartRun(requested, optins)
      PROVE  ReportInv'
  <2>1. /\ phase = "idle" /\ phase' = "build" /\ UNCHANGED <<loopVars, result, measured>>
    BY <1>2 DEF StartRun
  <2>2. result["improve"] = "none"
    BY <1>i, <2>1 DEF ImproveInPhase
  <2> QED
    BY <1>i, <1>q, <2>1, <2>2 DEF loopVars, ImproveInPhase, MeasuredBaseline, Baseline, Improved
<1>3. ASSUME NEW p \in Phases, SkipPhase(p) PROVE ReportInv'
  <2>1. phase = p /\ p \notin active /\ Finish(p, "skipped") /\ UNCHANGED <<loopVars, active, measured>>
    BY <1>3 DEF SkipPhase
  <2>2. p = "improve" => result["improve"] = "none" /\ ipc = "off" /\ ~Improved
    BY <1>i, <1>t, <1>p, <2>1 DEF ImproveInPhase, Improved
  <2>3. ipc = "off"
    BY <1>o, <2>1, <2>2
  <2>4. CASE p \notin {"fuzz", "benchmark"}
    BY <1>f, <2>1, <2>2, <2>3, <2>4
  <2>5. CASE p \in {"fuzz", "benchmark"}
    <3>1. measured' = [measured EXCEPT ![p] = IF "skipped" = "ok" THEN code ELSE measured[p]]
      BY <1>t, <2>1, <2>5
    <3> QED
      BY <1>f, <2>1, <2>2, <2>3, <2>5, <3>1
  <2> QED
    BY <2>4, <2>5
<1>4. CASE AdmitDirectives
  <2>1. /\ phase = "build" /\ UNCHANGED <<loopVars, active, measured>>
        /\ \/ result' = [result EXCEPT !["build"] = "running"] /\ phase' = phase
           \/ Finish("build", "skipped")
    BY <1>4 DEF AdmitDirectives
  <2>2. CASE result' = [result EXCEPT !["build"] = "running"] /\ phase' = phase
    <3>1. /\ result'["improve"] = result["improve"] /\ result'["fuzz"] = result["fuzz"]
          /\ result'["benchmark"] = result["benchmark"]
      BY <1>t, <1>p, <2>2
    <3> QED
      BY <1>i, <1>q, <2>1, <2>2, <3>1 DEF loopVars, ImproveInPhase, MeasuredBaseline, Baseline, Improved
  <2>3. CASE Finish("build", "skipped")
    BY <1>f, <1>o, <1>p, <2>1, <2>3
  <2> QED
    BY <2>1, <2>2, <2>3
<1>5. ASSUME NEW d \in Directives, NEW r \in [kind : Kinds, transient : BOOLEAN], RunDirective(d, r)
      PROVE  ReportInv'
  BY <1>s, <1>5 DEF RunDirective
<1>6. CASE KeepDirective \/ ArchiveDirective
  BY <1>s, <1>6 DEF KeepDirective, ArchiveDirective
<1>7. ASSUME NEW copied \in BOOLEAN, NEW unlinks \in BOOLEAN, FailToArchive(copied, unlinks)
      PROVE  ReportInv'
  BY <1>s, <1>7 DEF FailToArchive
<1>8. CASE FinishBuild
  BY <1>f, <1>o, <1>p, <1>8 DEF FinishBuild
<1>9. ASSUME NEW p \in Phases, Polish(p) PROVE ReportInv'
  BY <1>f, <1>o, <1>9 DEF Polish
<1>10. ASSUME NEW p \in Phases, NEW how \in {"ok", "failed", "skipped"}, Measure(p, how)
       PROVE  ReportInv'
  BY <1>f, <1>o, <1>10 DEF Measure
<1>11. ASSUME NEW exit \in {0, 1}, EnterImprove(exit) PROVE ReportInv'
  <2>1. /\ phase = "improve" /\ "improve" \in active /\ result["improve"] = "none"
        /\ UNCHANGED <<active, measured>>
    BY <1>11 DEF EnterImprove
  <2>2. ipc = "off" /\ ~Improved
    BY <1>i, <2>1 DEF ImproveInPhase, Improved
  <2>3. CASE StartLoop(exit) /\ result' = [result EXCEPT !["improve"] = "running"] /\ UNCHANGED phase
    <3>1. UNCHANGED <<code, leftover>> /\ summary'.improvements = 0
      BY <1>t, <2>3, StartLoopShape
    <3>2. /\ result'["improve"] = "running" /\ result'["fuzz"] = result["fuzz"]
          /\ result'["benchmark"] = result["benchmark"]
      BY <1>t, <1>p, <2>3
    <3>3. ipc' = "off" \/ (ipc' = "round" /\ ~summary'.error)
      BY <2>2, <2>3 DEF StartLoop, NoSummary
    <3> QED
      BY <1>i, <1>q, <2>1, <2>2, <2>3, <3>1, <3>2, <3>3
         DEF ImproveInPhase, MeasuredBaseline, Baseline, Improved
  <2>4. CASE Finish("improve", "skipped") /\ UNCHANGED loopVars
    BY <1>f, <1>p, <2>1, <2>2, <2>4
  <2> QED
    BY <1>11, <2>3, <2>4 DEF EnterImprove
\* A round moves the code and its baseline together, or says that it improved it.
<1>12. CASE ImproveRound
  <2>1. phase = "improve" /\ UNCHANGED <<phase, active, result, measured>> /\ Round
    BY <1>12 DEF ImproveRound, queueVars
  <2>2. (ApplyPatch \/ RoundEnded) /\ ipc # "off"
    BY <1>t, <2>1, RoundShape
  <2>3. result["improve"] = "running"
    BY <1>i, <2>2 DEF ImproveInPhase
  <2>4. CASE ApplyPatch
    BY <1>i, <1>q, <2>1, <2>3, <2>4 DEF ApplyPatch, ImproveInPhase, MeasuredBaseline, Baseline, Improved
  <2>5. CASE RoundEnded
    <3>1. ~summary.error
      BY <1>i, <2>2 DEF ImproveInPhase
    <3> QED
      BY <1>i, <1>q, <1>t, <2>1, <2>2, <2>3, <2>5, <3>1
         DEF RoundEnded, ImproveInPhase, MeasuredBaseline, Baseline, Improved
  <2> QED
    BY <2>2, <2>4, <2>5
<1>13. CASE LeaveImprove
  <2>1. /\ phase = "improve" /\ ipc = "off" /\ UNCHANGED <<loopVars, active, measured>>
        /\ \/ Finish("improve", "failed") /\ summary.error
           \/ Finish("improve", "ok")
    BY <1>13 DEF LeaveImprove
  <2>2. summary.error => ~Improved
    BY <1>i DEF ImproveInPhase, Improved
  <2> QED
    BY <1>f, <1>p, <2>1, <2>2
<1>14. CASE Report \/ \E copied \in BOOLEAN : Crash(copied)
  <2>1. ForgetRun
    BY <1>14 DEF Report, Crash
  <2>2. /\ ipc' = "off" /\ \A p \in Phases : result'[p] = "none"
        /\ summary' = NoSummary
    BY <2>1 DEF ForgetRun
  <2>3. NoSummary.improvements = 0
    BY DEF NoSummary
  <2> QED
    BY <1>p, <1>q, <2>2, <2>3 DEF ImproveInPhase, MeasuredBaseline
<1>15. CASE UNCHANGED vars
  BY <1>s, <1>15 DEF vars, queueVars
<1> QED
  BY <1>1, <1>2, <1>3, <1>4, <1>5, <1>6, <1>7, <1>8, <1>9, <1>10, <1>11, <1>12, <1>13, <1>14, <1>15
     DEF Next, Operator, Step

\* A report without failure that asks for no revalidation speaks of the code on
\* disk (xo_pipeline.cjs's order of phases, rollbackOperationSet, buildXoSummary).
THEOREM ReportsAreCurrent == Spec => []CleanReportIsCurrent
<1>1. Init => ReportInv
  <2> SUFFICES ASSUME Init PROVE ReportInv
    OBVIOUS
  <2>1. ipc = "off" /\ summary = NoSummary /\ \A p \in Phases : result[p] = "none"
    BY DEF Init, LoopInit
  <2>2. NoSummary.improvements = 0
    BY DEF NoSummary
  <2> QED
    BY <2>1, <2>2, LastPhases DEF ReportInv, ImproveInPhase, MeasuredBaseline
<1>2. ReportInv => CleanReportIsCurrent
  BY DEF ReportInv, ImproveInPhase, MeasuredBaseline, CleanReportIsCurrent, NeedsRevalidation,
         Improved, Baseline
<1> QED
  BY <1>1, <1>2, PipelineTypeInit, PipelineTypeStep, QueueInit, QueueStep, ReportsStayCurrent, PTL DEF Spec

-----------------------------------------------------------------------------
(* The reports of errors.                                                  *)

\* What a host has sent, it sent at times that are past.
SentInPast ==
    /\ now \in Nat /\ sent \in [Hosts -> Seq(Nat)]
    /\ \A h \in Hosts : \A i \in DOMAIN sent[h] : sent[h][i] <= now
\* The reports a sequence of times has in a set of them.
SentIn(times, span) == {i \in DOMAIN times : times[i] \in span}
Limited(times) ==
    \A t \in 0 .. MaxClock : Cardinality(SentIn(times, t .. t + Hour - 1)) <= MaxPerHour
RateInv == SentInPast /\ \A h \in Hosts : Limited(sent[h])

\* The invariant says what the property says.
LEMMA RateIsLimited == RateInv => RollingLimit
<1> SUFFICES ASSUME RateInv, NEW h \in Hosts, NEW t \in 0 .. MaxClock
             PROVE  Cardinality({i \in DOMAIN sent[h] : sent[h][i] \in t .. t + Hour - 1}) <= MaxPerHour
  BY Zenon DEF RollingLimit
<1>1. Cardinality(SentIn(sent[h], t .. t + Hour - 1)) <= MaxPerHour
  BY DEF RateInv, Limited
<1> QED
  BY <1>1, Zenon DEF SentIn

\* One report more is one more in the spans that hold its time, and no other.
LEMMA OneReportMore ==
  ASSUME NEW times \in Seq(Nat), NEW t \in Nat, NEW span
  PROVE  /\ IsFiniteSet(SentIn(times, span))
         /\ SentIn(Append(times, t), span) =
              (IF t \in span THEN SentIn(times, span) \cup {Len(times) + 1} ELSE SentIn(times, span))
         /\ t \in span => Cardinality(SentIn(Append(times, t), span)) = Cardinality(SentIn(times, span)) + 1
<1>1. IsFiniteSet(SentIn(times, span))
  <2>1. IsFiniteSet(1 .. Len(times))
    BY FS_Interval
  <2>2. SentIn(times, span) \in SUBSET (1 .. Len(times))
    BY DEF SentIn
  <2> QED
    BY <2>1, <2>2, FS_Subset
<1>2. SentIn(Append(times, t), span) =
        (IF t \in span THEN SentIn(times, span) \cup {Len(times) + 1} ELSE SentIn(times, span))
  BY DEF SentIn
<1>3. Len(times) + 1 \notin SentIn(times, span)
  BY DEF SentIn
<1>4. ASSUME t \in span
      PROVE  Cardinality(SentIn(Append(times, t), span)) = Cardinality(SentIn(times, span)) + 1
  BY <1>1, <1>2, <1>3, <1>4, FS_AddElement
<1> QED
  BY <1>1, <1>2, <1>4

\* A step of a host, the operator or the tracker keeps the limit: a report passes
\* only when the hour that ends now has room, and that hour holds every earlier
\* report of a span of an hour with the new one in it.
LEMMA RateStep == RateInv /\ [ReportStep]_reportVars => RateInv'
<1> SUFFICES ASSUME RateInv, [ReportStep]_reportVars PROVE RateInv'
  OBVIOUS
<1>c. Hour \in Nat \ {0} /\ MaxPerHour \in Nat \ {0} /\ MaxClock \in Nat
  BY ReportAssumption
<1>i. SentInPast /\ \A h \in Hosts : Limited(sent[h])
  BY DEF RateInv
<1>s. ASSUME UNCHANGED sent, now' \in Nat, now' >= now PROVE RateInv'
  <2>1. SentInPast'
    <3>1. ASSUME NEW h \in Hosts, NEW i \in DOMAIN sent[h] PROVE sent[h][i] <= now'
      <4>1. sent[h][i] \in Nat /\ sent[h][i] <= now /\ now \in Nat
        BY <1>i DEF SentInPast
      <4> QED
        BY <1>s, <4>1
    <3> QED
      BY <1>i, <1>s, <3>1 DEF SentInPast
  <2> QED
    BY <1>i, <1>s, <2>1 DEF RateInv
<1>1. CASE ClockTicks
  BY <1>i, <1>s, <1>1 DEF ClockTicks, SentInPast
<1>2. ASSUME UNCHANGED <<sent, now>> PROVE RateInv'
  BY <1>i, <1>s, <1>2 DEF SentInPast
<1>3. ASSUME NEW h \in Hosts, UncaughtError(h) PROVE RateInv'
  <2>1. sent' = [sent EXCEPT ![h] = <<>>] /\ now' = now
    BY <1>3 DEF UncaughtError
  <2>2. sent' \in [Hosts -> Seq(Nat)] /\ DOMAIN sent'[h] = {}
    BY <1>i, <2>1 DEF SentInPast
  <2>3. SentInPast'
    BY <1>i, <2>1, <2>2 DEF SentInPast
  <2>4. Limited(<<>>)
    <3>1. ASSUME NEW span PROVE SentIn(<<>>, span) = {}
      BY DEF SentIn
    <3> QED
      BY <1>c, <3>1, FS_EmptySet DEF Limited
  <2>5. ASSUME NEW g \in Hosts PROVE sent'[g] = (IF g = h THEN <<>> ELSE sent[g])
    BY <1>i, <2>1 DEF SentInPast
  <2> QED
    BY <1>i, <2>3, <2>4, <2>5 DEF RateInv
<1>4. ASSUME NEW h \in Hosts, Admit(h), ~ UNCHANGED sent PROVE RateInv'
  <2>1. /\ ~(InLastHour(h) >= MaxPerHour) /\ now' = now
        /\ sent' = [sent EXCEPT ![h] = Append(sent[h], now)]
    BY <1>4, Zenon DEF Admit
  <2> DEFINE times == sent[h]
             recent == {i \in DOMAIN times : now - times[i] < Hour}
  <2>2. times \in Seq(Nat) /\ now \in Nat /\ \A i \in DOMAIN times : times[i] \in Nat /\ times[i] <= now
    BY <1>i DEF SentInPast
  <2>3. IsFiniteSet(recent) /\ Cardinality(recent) \in Nat /\ Cardinality(recent) < MaxPerHour
    <3>0. DOMAIN times = 1 .. Len(times) /\ Len(times) \in Nat
      BY <2>2
    <3>i. ASSUME NEW n \in Nat PROVE IsFiniteSet(1 .. n)
      BY FS_Interval
    <3>a. IsFiniteSet(1 .. Len(times))
      BY <3>0, <3>i
    <3>b. recent \subseteq DOMAIN times
      OBVIOUS
    <3>1. recent \in SUBSET (1 .. Len(times)) /\ IsFiniteSet(1 .. Len(times))
      BY <3>0, <3>a, <3>b
    <3>2. IsFiniteSet(recent)
      BY <3>1, FS_Subset
    <3>3. Cardinality(recent) \in Nat
      BY <3>2, FS_CardinalityType
    <3>4. ~(Cardinality(recent) >= MaxPerHour)
      BY <2>1 DEF InLastHour
    <3> QED
      BY <1>c, <3>2, <3>3, <3>4
  <2>4. Limited(Append(times, now))
   <3> SUFFICES ASSUME NEW t \in 0 .. MaxClock
                PROVE  Cardinality(SentIn(Append(times, now), t .. t + Hour - 1)) <= MaxPerHour
     BY DEF Limited
    <3> DEFINE span == t .. t + Hour - 1
    <3>1. CASE now \in span
      <4>1. SentIn(times, span) \in SUBSET recent
        BY <1>c, <2>2, <3>1 DEF SentIn
      <4>2. IsFiniteSet(SentIn(times, span)) /\ Cardinality(SentIn(times, span)) <= Cardinality(recent)
        BY <2>3, <4>1, FS_Subset
      <4>3. Cardinality(SentIn(times, span)) \in Nat
        BY <4>2, FS_CardinalityType
      <4>4. Cardinality(SentIn(Append(times, now), span)) = Cardinality(SentIn(times, span)) + 1
        BY <2>2, <3>1, OneReportMore
      <4> HIDE DEF span, recent
      <4> QED
        BY <1>c, <2>3, <4>2, <4>3, <4>4 DEF span
    <3>2. CASE now \notin span
      <4>1. SentIn(Append(times, now), span) = SentIn(times, span)
        BY <2>2, <3>2, OneReportMore
      <4> QED
        BY <1>i, <4>1 DEF Limited
    <3> QED
      BY <3>1, <3>2
  <2>5. SentInPast'
    <3>1. Append(times, now) \in Seq(Nat)
      BY <2>2
    <3>2. \A i \in DOMAIN Append(times, now) : Append(times, now)[i] <= now
      BY <2>2
    <3>3. ASSUME NEW g \in Hosts PROVE sent'[g] = (IF g = h THEN Append(times, now) ELSE sent[g])
      BY <1>i, <2>1 DEF SentInPast
    <3> HIDE DEF times
    <3> QED
      BY <1>i, <2>1, <3>1, <3>2, <3>3 DEF SentInPast
  <2>6. ASSUME NEW g \in Hosts PROVE sent'[g] = (IF g = h THEN Append(times, now) ELSE sent[g])
    BY <1>i, <2>1 DEF SentInPast
  <2> QED
    BY <1>i, <2>4, <2>5, <2>6 DEF RateInv
<1>5. ASSUME NEW h \in Hosts, Admit(h) PROVE RateInv'
  BY <1>2, <1>4, <1>5 DEF Admit
<1> QED
  BY <1>1, <1>2, <1>3, <1>5
     DEF ReportStep, SaveConsent, InstallReporter, Capture, Flush, CallFails, SearchExistingIssue,
         CreateOrUpdateIssue, CloseIssue, reportVars

\* Whatever hour one looks at, a process submits at most the limit in it
\* (createRateLimiter), for any limit and length of the hour.
THEOREM SubmissionsAreLimited == ReportSpec => []RollingLimit
<1>1. ReportInit => RateInv
  <2> SUFFICES ASSUME ReportInit PROVE RateInv
    OBVIOUS
  <2>1. now = 0 /\ sent = [h \in Hosts |-> <<>>]
    BY DEF ReportInit
  <2>2. Limited(<<>>)
    <3>1. ASSUME NEW span PROVE SentIn(<<>>, span) = {}
      BY DEF SentIn
    <3> QED
      BY <3>1, FS_EmptySet, ReportAssumption DEF Limited
  <2> QED
    BY <2>1, <2>2 DEF RateInv, SentInPast
<1> QED
  BY <1>1, RateIsLimited, RateStep, PTL DEF ReportSpec

-----------------------------------------------------------------------------
(* The directives made of signals.                                         *)

\* A file name: the slug of a code, with or without a count.
Names == Seq({"a-b"} \cup Nat)
Nth(slug, n) == IF n = 1 THEN slug ELSE Append(slug, n)

\* Counting on gives another name each time.
LEMMA NthIsInjective ==
  ASSUME NEW slug \in Names, NEW m \in Nat, NEW n \in Nat, Nth(slug, m) = Nth(slug, n)
  PROVE  m = n
<1>1. ASSUME NEW k \in Nat
      PROVE  Len(Append(slug, k)) = Len(slug) + 1 /\ Append(slug, k)[Len(slug) + 1] = k
  BY AppendProperties DEF Names
<1>2. Len(slug) \in Nat
  BY DEF Names
<1>3. CASE m = 1 /\ n # 1
  BY <1>1, <1>2, <1>3 DEF Nth
<1>4. CASE m # 1 /\ n = 1
  BY <1>1, <1>2, <1>4 DEF Nth
<1>5. CASE m # 1 /\ n # 1
  BY <1>1, <1>5 DEF Nth
<1> QED
  BY <1>3, <1>4, <1>5

\* One count more than there are names finds one that is not used: the search of
\* generateDirectives ends, with a name no earlier directive of the run has.
LEMMA FreeNameIsFree ==
  ASSUME generated \in Seq(Names), NEW slug \in Names
  PROVE  FreeName(slug) \in Names /\ FreeName(slug) \notin ToSet(generated)
<1> DEFINE used == ToSet(generated)
           counts == 1 .. Len(generated) + 1
           free == {n \in counts : Nth(slug, n) \notin used}
<1>1. Len(generated) \in Nat /\ DOMAIN generated = 1 .. Len(generated)
  OBVIOUS
<1>2. IsFiniteSet(used) /\ Cardinality(used) <= Len(generated)
  <2>1. generated \in Surjection(1 .. Len(generated), used)
    BY <1>1 DEF Surjection, ToSet
  <2>2. IsFiniteSet(1 .. Len(generated)) /\ Cardinality(1 .. Len(generated)) = Len(generated)
    BY <1>1, FS_Interval
  <2> HIDE DEF used
  <2> QED
    BY <2>1, <2>2, FS_Surjection
<1>3. IsFiniteSet(counts) /\ Cardinality(counts) = Len(generated) + 1
  BY <1>1, FS_Interval
<1>4. free # {}
  <2> SUFFICES ASSUME free = {} PROVE FALSE
    OBVIOUS
  <2> DEFINE f == [n \in counts |-> Nth(slug, n)]
  <2>1. f \in [counts -> used]
    OBVIOUS
  <2>2. Cardinality(used) \in Nat
    BY <1>2, FS_CardinalityType
  <2>3. Cardinality(used) < Cardinality(counts)
    BY <1>1, <1>2, <1>3, <2>2
  <2>4. PICK x \in counts, y \in counts : x # y /\ f[x] = f[y]
    <3> HIDE DEF f, counts, used
    <3> QED
      BY <1>2, <1>3, <2>1, <2>3, FS_PigeonHole
  <2>5. x \in Nat /\ y \in Nat /\ Nth(slug, x) = Nth(slug, y)
    BY <1>1, <2>4
  <2> QED
    BY <2>4, <2>5, NthIsInjective
<1>5. \E n \in free : \A m \in free : n <= m
  <2>1. free \subseteq Nat
    BY <1>1
  <2> HIDE DEF free
  <2> DEFINE less == {ss \in Nat \X Nat : ss[1] < ss[2]}
  <2>a. IsWellFoundedOn(less, Nat)
    BY NatLessThanWellFounded, Zenon DEF OpToRel
  <2>b. \A m, n \in Nat : <<m, n>> \notin less => n <= m
    OBVIOUS
  <2> HIDE DEF less
  <2>2. PICK n \in free : \A m \in free : ~ (<<m, n>> \in less)
    BY <1>4, <2>a, <2>1, WFMin
  <2>3. ASSUME NEW m \in free PROVE n <= m
    BY <2>1, <2>2, <2>3, <2>b
  <2> QED
    BY <2>3
<1>6. FreeName(slug) = Nth(slug, CHOOSE n \in free : \A m \in free : n <= m)
  BY Zenon DEF FreeName, Nth
<1> DEFINE n == CHOOSE n \in free : \A m \in free : n <= m
<1>7. n \in free
  <2> HIDE DEF free
  <2> QED
    BY <1>5
<1>8. n \in Nat /\ Nth(slug, n) \notin used
  BY <1>1, <1>7
<1> HIDE DEF n, used
<1>9. Nth(slug, n) \in Names
  BY <1>8, AppendProperties DEF Names, Nth
<1> QED
  BY <1>6, <1>8, <1>9 DEF n, used

\* The codes are three, the signals no more.
LEMMA SignalsAreFew == IsFiniteSet(AggregateErrors)
<1>1. IsFiniteSet(ErrorCodes)
  <2>1. IsFiniteSet({"A_B"}) /\ IsFiniteSet({"A_B"} \cup {"A-B"})
    BY FS_Singleton, FS_AddElement
  <2>2. IsFiniteSet({"A_B"} \cup {"A-B"} \cup {"A-B-2"})
    BY <2>1, FS_AddElement
  <2>3. ErrorCodes = {"A_B"} \cup {"A-B"} \cup {"A-B-2"}
    BY DEF ErrorCodes
  <2> QED
    BY <2>2, <2>3
<1> DEFINE known == {c \in ErrorCodes : FrequencyOf(c) > 0}
           signal(c) == [code |-> c, frequency |-> FrequencyOf(c), affected |-> Cardinality(Affected(c)),
                         confidence |-> Lower(100, (100 * FrequencyOf(c)) \div Cardinality(ScanBatchReports))]
           f == [c \in known |-> signal(c)]
<1>2. IsFiniteSet(known)
  BY <1>1, FS_Subset
<1>3. AggregateErrors = {signal(c) : c \in known}
  BY Zenon DEF AggregateErrors
<1> HIDE DEF known, signal
<1>4. f \in Surjection(known, AggregateErrors)
  BY <1>3 DEF Surjection
<1> HIDE DEF f
<1> QED
  BY <1>2, <1>4, FS_Surjection

\* An order of a finite set without repetition has all of it.
LEMMA OrderHasAll ==
  ASSUME NEW S, IsFiniteSet(S), NEW order \in SetToSeqs(S)
  PROVE  order \in Seq(S) /\ \A a \in S : \E i \in 1 .. Len(order) : order[i] = a
<1> DEFINE D == 1 .. Cardinality(S)
<1>1. Cardinality(S) \in Nat
  BY FS_CardinalityType
<1>2. order \in [D -> S] /\ \A i, j \in D : i # j => order[i] # order[j]
  BY DEF SetToSeqs
<1>3. order \in Injection(D, S)
  BY <1>2 DEF Injection, IsInjective
<1>4. Cardinality(D) = Cardinality(S)
  BY <1>1, FS_Interval
<1>5. order \in Surjection(D, S)
  <2> HIDE DEF D
  <2> QED
    BY <1>3, <1>4, FS_Injection
<1>6. order \in Seq(S) /\ Len(order) = Cardinality(S)
  BY <1>1, <1>2
<1> QED
  BY <1>5, <1>6 DEF Surjection

\* The engine's signals are those the run goes through, each is written, left out
\* for good reason or still to come, and each name is in use once.
Waiting(a) == \E i \in 1 .. Len(toWrite) : toWrite[i] = a
Written(a) == \E name \in ToSet(generated) : outDir[name] = a
WritesInv ==
    signals.adapter = "engine" /\ ~options.dryRun =>
        /\ generated \in Seq(Names) /\ ToSet(generated) \subseteq DOMAIN outDir
        /\ toWrite # Unread =>
              /\ toWrite \in Seq(AggregateErrors)
              /\ \A a \in AggregateErrors : Kept(a) => Waiting(a) \/ Written(a)

\* What the adapter found and was told stays; so do its signals and which are kept.
LEMMA SignalsStay ==
  ASSUME UNCHANGED <<signals, options>>
  PROVE  AggregateErrors' = AggregateErrors /\ \A a : Kept(a)' = Kept(a)
<1>1. AggregateErrors' = AggregateErrors
  BY SMT DEF AggregateErrors, FrequencyOf, Affected, ScanBatchReports, FoldSet, MapThenFoldSet
<1>2. ASSUME NEW a PROVE Kept(a)' = Kept(a)
  BY Zenon DEF Kept, Eligible, ScoreOf, ThumbsUp
<1> QED
  BY <1>1, <1>2

\* A step of the adapter loses no signal: a name that is written is free.
LEMMA WritesStep == WritesInv /\ [SignalStep]_signalVars => WritesInv'
<1> SUFFICES ASSUME WritesInv, [SignalStep]_signalVars, signals'.adapter = "engine", ~options'.dryRun
             PROVE  /\ generated' \in Seq(Names) /\ ToSet(generated') \subseteq DOMAIN outDir'
                    /\ toWrite' # Unread =>
                          /\ toWrite' \in Seq(AggregateErrors')
                          /\ \A a \in AggregateErrors' : Kept(a)' => Waiting(a)' \/ Written(a)'
  BY Zenon DEF WritesInv
<1>0. UNCHANGED <<signals, options>>
  BY DEF SignalStep, Collect, WriteDirective, RunFix, signalVars
<1>1. AggregateErrors' = AggregateErrors /\ \A a : Kept(a)' = Kept(a)
  BY <1>0, SignalsStay
<1>2. /\ signals.adapter = "engine" /\ ~options.dryRun
      /\ generated \in Seq(Names) /\ ToSet(generated) \subseteq DOMAIN outDir
      /\ toWrite # Unread =>
            /\ toWrite \in Seq(AggregateErrors)
            /\ \A a \in AggregateErrors : Kept(a) => Waiting(a) \/ Written(a)
  BY <1>0 DEF WritesInv
<1>3. CASE Collect
  <2>1. toWrite' \in SetToSeqs(AggregateErrors) /\ UNCHANGED <<outDir, generated>>
    BY <1>2, <1>3 DEF Collect, Aggregated
  <2>2. toWrite' \in Seq(AggregateErrors) /\ \A a \in AggregateErrors : Waiting(a)'
    BY <2>1, SignalsAreFew, OrderHasAll DEF Waiting
  <2> QED
    BY <1>1, <1>2, <2>1, <2>2
<1>4. CASE WriteDirective
  <2> DEFINE a == Head(toWrite)
             name == FreeName(SlugOf(a.code))
  <2>1. toWrite # Unread /\ toWrite # <<>> /\ toWrite \in Seq(AggregateErrors) /\ toWrite' = Tail(toWrite)
    BY <1>2, <1>4 DEF WriteDirective
  <2>2. /\ a \in AggregateErrors /\ toWrite' \in Seq(AggregateErrors)
        /\ \A b : Waiting(b) => b = a \/ Waiting(b)'
    <3>1. a = toWrite[1] /\ a \in AggregateErrors /\ toWrite' \in Seq(AggregateErrors)
      BY <2>1
    <3>2. Len(toWrite') = Len(toWrite) - 1 /\ \A i \in 1 .. Len(toWrite') : toWrite'[i] = toWrite[i + 1]
      BY <2>1, HeadTailProperties
    <3>3. ASSUME NEW b, NEW i \in 1 .. Len(toWrite), toWrite[i] = b, b # a PROVE Waiting(b)'
      <4>1. i # 1 /\ Len(toWrite) \in Nat
        BY <2>1, <3>1, <3>3
      <4>2. i - 1 \in 1 .. Len(toWrite') /\ toWrite'[i - 1] = b
        BY <3>2, <3>3, <4>1
      <4> QED
        BY <4>2 DEF Waiting
    <3> QED
      BY <3>1, <3>3 DEF Waiting
  <2>3. CASE ~Kept(a)
    <3>1. UNCHANGED <<outDir, generated>>
      BY <1>4, <2>3 DEF WriteDirective
    <3>2. \A b : Written(b) => Written(b)'
      BY <3>1 DEF Written
    <3> QED
      BY <1>1, <1>2, <2>1, <2>2, <2>3, <3>1, <3>2
  <2>4. CASE Kept(a)
    <3>1. /\ outDir' = [n \in DOMAIN outDir \cup {name} |-> IF n = name THEN a ELSE outDir[n]]
          /\ generated' = Append(generated, name)
      BY <1>2, <1>4, <2>4 DEF WriteDirective, Writes, NameFor
    <3>2. name \in Names /\ name \notin ToSet(generated)
      <4>1. SlugOf(a.code) \in Names
        <5>1. \A S : \A x, y \in S : <<x, y>> \in Seq(S) /\ <<x>> \in Seq(S)
          OBVIOUS
        <5>2. "a-b" \in {"a-b"} \cup Nat /\ 2 \in {"a-b"} \cup Nat
          OBVIOUS
        <5>3. <<"a-b", 2>> \in Names /\ <<"a-b">> \in Names
          BY <5>1, <5>2, Zenon DEF Names
        <5> QED
          BY <5>3 DEF SlugOf
      <4> QED
        BY <1>2, <4>1, FreeNameIsFree
    <3> HIDE DEF name
    <3>3. generated' \in Seq(Names) /\ ToSet(generated') = ToSet(generated) \cup {name}
      BY <1>2, <3>1, <3>2 DEF ToSet
    <3> HIDE DEF a
    <3>4. \A b : b = a \/ Written(b) => Written(b)'
      BY <1>2, <3>1, <3>2, <3>3 DEF Written
    <3>5. ToSet(generated') \subseteq DOMAIN outDir'
      BY <1>2, <3>1, <3>3
    <3> QED
      BY <1>1, <1>2, <2>1, <2>2, <3>3, <3>4, <3>5
  <2> QED
    BY <2>3, <2>4
<1>5. CASE RunFix
  BY <1>2, <1>5 DEF RunFix
<1>6. CASE UNCHANGED signalVars
  <2>1. UNCHANGED <<toWrite, outDir, generated>>
    BY <1>6 DEF signalVars
  <2>2. \A a : (Waiting(a) => Waiting(a)') /\ (Written(a) => Written(a)')
    BY <2>1 DEF Waiting, Written
  <2> QED
    BY <1>1, <1>2, <2>1, <2>2
<1> QED
  BY <1>3, <1>4, <1>5, <1>6 DEF SignalStep

\* Every signal of a batch that was good enough has its directive on disk when the
\* engine adapter has run, and no later one has taken its file (generateDirectives).
THEOREM SignalsHaveTheirFiles == SignalSpec => []EverySignalHasItsFile
<1>1. SignalInit => WritesInv
  <2> SUFFICES ASSUME SignalInit PROVE WritesInv
    OBVIOUS
  <2>1. generated = <<>> /\ toWrite = Unread
    BY DEF SignalInit
  <2> QED
    BY <2>1 DEF WritesInv, ToSet
<1>2. WritesInv => EverySignalHasItsFile
  <2> SUFFICES ASSUME WritesInv, signals.adapter = "engine", toWrite = <<>>, ~options.dryRun,
                      NEW a \in AggregateErrors, Kept(a)
               PROVE  \E name \in ToSet(generated) : outDir[name] = a
    BY Zenon DEF EverySignalHasItsFile
  <2>1. toWrite # Unread /\ ~Waiting(a)
    BY DEF Unread, Waiting
  <2> QED
    BY <2>1 DEF WritesInv, Written
<1> QED
  BY <1>1, <1>2, WritesStep, PTL DEF SignalSpec

=============================================================================
