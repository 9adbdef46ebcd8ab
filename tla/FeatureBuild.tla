---------------------------- MODULE FeatureBuild -----------------------------
(***************************************************************************)
(* BUILD mode: the red and green phases of build_pipeline.cjs with the     *)
(* delta of delta_validator.cjs, and the checkpoint at which a reviewer    *)
(* approves, rejects or sends back the proposal (feature_checkpoint.cjs).  *)
(*                                                                         *)
(* The builder and the reviewers are processes that share the review       *)
(* bundle of the feature, the working tree and the git index, and take no  *)
(* lock on any of them.                                                    *)
(***************************************************************************)
EXTENDS Integers, FiniteSets

CONSTANTS Features, Reviewers, NoFeature,
          MaxRepairTurns,               \* options.maxRepairTurns
          MaxBuilds, MaxDrafts, MaxFaults   \* bounds

ASSUME BuildAssumption ==
    /\ NoFeature \notin Features /\ MaxRepairTurns \in Nat
    /\ {MaxBuilds, MaxDrafts, MaxFaults} \subseteq Nat

VARIABLES
    bundle,   \* [Features -> [status, rev]], review-bundle.json; rev 0: none
    proven,   \* revisions whose pair of operations went through red and green
    bpc, bfeature, turn,   \* the builder: where it is, its feature, its repair turn
    testDraft, codeDraft,           \* drafts it holds: numbers, 0 before there is one
    redOf, greenOf,        \* drafts the red phase and the delta accepted last
    drafts, rev,           \* drafts written so far; revisions written so far
    rpc, rcopy, rfeature, handle,  \* [Reviewers -> ...]: step, bundle read, feature,
                                   \* tree to roll back to
    tree, index, head,     \* [Features -> revision] whose code its files are there; 0: none
    log,      \* revisions whose code is in the history of HEAD
    foreign,  \* revisions that a commit made for another feature took along
    contended,  \* features that two reviewers were at work on at once
    builds, faults

builder == <<bpc, bfeature, turn, testDraft, codeDraft, redOf, greenOf, drafts, rev, proven, builds>>
reviewer == <<rpc, rcopy, rfeature, handle, contended>>
repo == <<tree, index, head, log, foreign>>
buildVars == <<bundle, builder, reviewer, repo, faults>>

NoBundle == [status |-> "none", rev |-> 0]

BuildInit ==
    /\ bundle = [f \in Features |-> NoBundle] /\ proven = {}
    /\ bpc = "idle" /\ bfeature = NoFeature /\ turn = 0
    /\ testDraft = 0 /\ codeDraft = 0 /\ redOf = 0 /\ greenOf = <<0, 0>> /\ drafts = 0 /\ rev = 0
    /\ rpc = [r \in Reviewers |-> "idle"] /\ rcopy = [r \in Reviewers |-> NoBundle]
    /\ rfeature = [r \in Reviewers |-> NoFeature] /\ handle = [r \in Reviewers |-> 0]
    /\ tree = [f \in Features |-> 0] /\ index = tree /\ head = tree
    /\ log = {} /\ foreign = {} /\ contended = {} /\ builds = 0 /\ faults = 0

-----------------------------------------------------------------------------
(* The builder: runBuildPipeline *)

StartBuild(f) ==
    /\ bpc = "idle" /\ builds < MaxBuilds
    /\ builds' = builds + 1 /\ bfeature' = f /\ bpc' = "spec" /\ turn' = 0
    /\ testDraft' = 0 /\ codeDraft' = 0 /\ redOf' = 0 /\ greenOf' = <<0, 0>>
    /\ UNCHANGED <<bundle, drafts, rev, proven, reviewer, repo, faults>>

\* writeReviewBundle replaces whatever bundle the feature has.
WriteBundle(status) ==
    /\ rev' = rev + 1
    /\ bundle' = [bundle EXCEPT ![bfeature] = [status |-> status, rev |-> rev + 1]]
    /\ bpc' = "idle"

\* buildFailureResult: an agent, the parser or a phase threw.
BuildFails ==
    /\ bpc # "idle"
    /\ WriteBundle("build_failed")
    /\ UNCHANGED <<bfeature, turn, testDraft, codeDraft, redOf, greenOf, drafts, proven, builds,
                   reviewer, repo, faults>>

\* Mutant of WriteTests: tests that were repaired are not run red again.
WriteTestsOnce ==
    /\ bpc \in {"spec", "specRepair"} /\ drafts < MaxDrafts
    /\ drafts' = drafts + 1 /\ testDraft' = drafts + 1
    /\ bpc' = IF bpc = "specRepair" THEN "impl" ELSE "red"
    /\ UNCHANGED <<bundle, bfeature, turn, codeDraft, redOf, greenOf, rev, proven, builds,
                   reviewer, repo, faults>>

\* Agent A writes the tests; after a failed turn, the repair prompt writes them anew.
WriteTests ==
    /\ bpc \in {"spec", "specRepair"} /\ drafts < MaxDrafts
    /\ drafts' = drafts + 1 /\ testDraft' = drafts + 1
    /\ bpc' = "red"
    /\ UNCHANGED <<bundle, bfeature, turn, codeDraft, redOf, greenOf, rev, proven, builds,
                   reviewer, repo, faults>>

\* A turn that fails asks for a repair until the turns are used up.
Repair(state) == /\ turn < MaxRepairTurns /\ turn' = turn + 1 /\ bpc' = state

\* runRedPhase, one turn in an empty directory: every test of the draft must run
\* and fail.  An apply error, no test at all and a test that passes are repaired.
RedTurn(applied, total, passed) ==
    /\ bpc = "red" /\ passed <= total
    /\ IF applied /\ passed = 0 /\ total > 0
       THEN /\ redOf' = testDraft /\ turn' = 0 /\ bpc' = "impl"
       ELSE Repair("specRepair") /\ UNCHANGED redOf
    /\ UNCHANGED <<bundle, bfeature, testDraft, codeDraft, greenOf, drafts, rev, proven, builds,
                   reviewer, repo, faults>>

WriteCode ==
    /\ bpc \in {"impl", "codeRepair"} /\ drafts < MaxDrafts
    /\ drafts' = drafts + 1 /\ codeDraft' = drafts + 1
    /\ bpc' = "green"
    /\ UNCHANGED <<bundle, bfeature, turn, testDraft, redOf, greenOf, rev, proven, builds,
                   reviewer, repo, faults>>

\* validateRedGreenDelta: no test passes without the code, none fails with it,
\* and the full validation succeeds.
DeltaOk(redPassed, greenFailed, full) == redPassed = 0 /\ greenFailed = 0 /\ full

GreenTurn(applied, redPassed, greenFailed, full) ==
    /\ bpc = "green"
    /\ IF applied /\ DeltaOk(redPassed, greenFailed, full)
       THEN /\ greenOf' = <<testDraft, codeDraft>> /\ bpc' = "bundle" /\ UNCHANGED turn
       ELSE Repair("codeRepair") /\ UNCHANGED greenOf
    /\ UNCHANGED <<bundle, bfeature, testDraft, codeDraft, redOf, drafts, rev, proven, builds,
                   reviewer, repo, faults>>

ProposeFeature ==
    /\ bpc = "bundle"
    /\ WriteBundle("awaiting_approval")
    /\ proven' = IF redOf = testDraft /\ greenOf = <<testDraft, codeDraft>> THEN proven \cup {rev + 1}
                                                               ELSE proven
    /\ UNCHANGED <<bfeature, turn, testDraft, codeDraft, redOf, greenOf, drafts, builds,
                   reviewer, repo, faults>>

-----------------------------------------------------------------------------
(* A reviewer's process: loadBundle and assertPending, then the operation *)

LoadPending(r, f, op) ==
    /\ rpc[r] = "idle" /\ bundle[f].status = "awaiting_approval"
    /\ rcopy' = [rcopy EXCEPT ![r] = bundle[f]]
    /\ rfeature' = [rfeature EXCEPT ![r] = f]
    /\ rpc' = [rpc EXCEPT ![r] = op]
    /\ contended' = IF \E q \in Reviewers : rpc[q] # "idle" /\ rfeature[q] = f
                    THEN contended \cup {f} ELSE contended
    /\ UNCHANGED <<bundle, builder, handle, repo, faults>>

\* saveBundle writes the copy that was read, with its new status.
SaveBundle(r, status) ==
    /\ bundle' = [bundle EXCEPT ![rfeature[r]] = [rcopy[r] EXCEPT !.status = status]]
    /\ rpc' = [rpc EXCEPT ![r] = "idle"]
    /\ UNCHANGED <<builder, rcopy, rfeature, handle, contended, repo, faults>>

RejectFeature(r) == rpc[r] = "reject" /\ SaveBundle(r, "rejected")
ReviseFeature(r) == rpc[r] = "revise" /\ SaveBundle(r, "revision_requested")

\* approveFeature applies proposal.operations, the code of the revision; its
\* testOperations are applied by nobody and never reach the tree.  An operation that no
\* longer fits throws and leaves the tree alone.
ApplyProposal(r, fits) ==
    /\ rpc[r] = "approve"
    /\ IF fits
       THEN /\ handle' = [handle EXCEPT ![r] = tree[rfeature[r]]]
            /\ tree' = [tree EXCEPT ![rfeature[r]] = rcopy[r].rev]
            /\ rpc' = [rpc EXCEPT ![r] = "validate"]
       ELSE rpc' = [rpc EXCEPT ![r] = "idle"] /\ UNCHANGED <<handle, tree>>
    /\ UNCHANGED <<bundle, builder, rcopy, rfeature, contended, index, head, log, foreign, faults>>

RollBack(r) == /\ tree' = [tree EXCEPT ![rfeature[r]] = handle[r]]
               /\ rpc' = [rpc EXCEPT ![r] = "idle"]

Validate(r, passes) ==
    /\ rpc[r] = "validate"
    /\ IF passes THEN rpc' = [rpc EXCEPT ![r] = "commit"] /\ UNCHANGED tree
                 ELSE RollBack(r)
    /\ UNCHANGED <<bundle, builder, rcopy, rfeature, handle, contended, index, head, log,
                   foreign, faults>>

\* Mutant of Commit: the exit code of git commit is not looked at.
CommitRegardless(r, hook) ==
    LET f      == rfeature[r]
        staged == [index EXCEPT ![f] = tree[f]]
        taken  == {g \in Features : staged[g] # head[g]}
    IN  /\ rpc[r] = "commit"
        /\ index' = staged
        /\ IF hook /\ taken # {}
           THEN /\ head' = staged
                /\ log' = log \cup {staged[g] : g \in taken}
                /\ foreign' = foreign \cup {staged[g] : g \in taken \ {f}}
                /\ rpc' = [rpc EXCEPT ![r] = "save"]
                /\ UNCHANGED <<tree, faults>>
           ELSE /\ hook \/ faults < MaxFaults
                /\ faults' = IF hook THEN faults ELSE faults + 1
                /\ rpc' = [rpc EXCEPT ![r] = "save"]
                /\ UNCHANGED <<tree, head, log, foreign>>
        /\ UNCHANGED <<bundle, builder, rcopy, rfeature, handle, contended>>

\* git add, git commit: the commit takes the whole index.  It fails when nothing
\* is staged, or in a hook; the files are then rolled back, the index is not.
Commit(r, hook) ==
    LET f      == rfeature[r]
        staged == [index EXCEPT ![f] = tree[f]]
        taken  == {g \in Features : staged[g] # head[g]}
    IN  /\ rpc[r] = "commit"
        /\ index' = staged
        /\ IF hook /\ taken # {}
           THEN /\ head' = staged
                /\ log' = log \cup {staged[g] : g \in taken}
                /\ foreign' = foreign \cup {staged[g] : g \in taken \ {f}}
                /\ rpc' = [rpc EXCEPT ![r] = "save"]
                /\ UNCHANGED <<tree, faults>>
           ELSE /\ hook \/ faults < MaxFaults
                /\ faults' = IF hook THEN faults ELSE faults + 1
                /\ RollBack(r)
                /\ UNCHANGED <<head, log, foreign>>
        /\ UNCHANGED <<bundle, builder, rcopy, rfeature, handle, contended>>

FinishApproval(r) == rpc[r] = "save" /\ SaveBundle(r, "approved")

\* The reviewer's process dies.
ReviewerDies(r) ==
    /\ rpc[r] # "idle" /\ faults < MaxFaults
    /\ faults' = faults + 1
    /\ rpc' = [rpc EXCEPT ![r] = "idle"]
    /\ UNCHANGED <<bundle, builder, rcopy, rfeature, handle, contended, repo>>

-----------------------------------------------------------------------------
BuildStep ==
    \/ WriteTests \/ WriteCode \/ BuildFails \/ ProposeFeature
    \/ \E applied \in BOOLEAN, total, passed \in 0..1 : RedTurn(applied, total, passed)
    \/ \E applied, full \in BOOLEAN, redPassed, greenFailed \in 0..1 :
           GreenTurn(applied, redPassed, greenFailed, full)

ReviewStep(r) ==
    \/ RejectFeature(r) \/ ReviseFeature(r) \/ FinishApproval(r)
    \/ \E ok \in BOOLEAN : ApplyProposal(r, ok) \/ Validate(r, ok) \/ Commit(r, ok)

BuildNext ==
    \/ BuildStep
    \/ \E f \in Features : StartBuild(f)
    \/ \E r \in Reviewers : ReviewStep(r) \/ ReviewerDies(r)
    \/ \E r \in Reviewers, f \in Features, op \in {"approve", "reject", "revise"} :
           LoadPending(r, f, op)

BuildFairness == WF_buildVars(BuildStep) /\ \A r \in Reviewers : WF_buildVars(ReviewStep(r))
BuildSpec == BuildInit /\ [][BuildNext]_buildVars /\ BuildFairness

-----------------------------------------------------------------------------
Statuses == {"none", "build_failed", "awaiting_approval", "approved", "rejected",
             "revision_requested"}
BuildTypeOK ==
    /\ bundle \in [Features -> [status : Statuses, rev : 0..MaxBuilds]]
    /\ proven \subseteq 1..MaxBuilds /\ rev \in 0..MaxBuilds /\ drafts \in 0..MaxDrafts
    /\ bpc \in {"idle", "spec", "specRepair", "red", "impl", "codeRepair", "green", "bundle"}
    /\ bfeature \in Features \cup {NoFeature} /\ turn \in 0..MaxRepairTurns
    /\ {testDraft, codeDraft, redOf} \subseteq 0..MaxDrafts
    /\ greenOf \in (0..MaxDrafts) \X (0..MaxDrafts)
    /\ rpc \in [Reviewers -> {"idle", "approve", "reject", "revise", "validate",
                              "commit", "save"}]
    /\ rcopy \in [Reviewers -> [status : Statuses, rev : 0..MaxBuilds]]
    /\ rfeature \in [Reviewers -> Features \cup {NoFeature}]
    /\ handle \in [Reviewers -> 0..MaxBuilds]
    /\ {tree, index, head} \subseteq [Features -> 0..MaxBuilds]
    /\ log \subseteq 0..MaxBuilds /\ foreign \subseteq 0..MaxBuilds /\ contended \subseteq Features
    /\ builds \in 0..MaxBuilds /\ faults \in 0..MaxFaults

\* What awaits approval, or was approved, is a pair of test and code operations
\* that the red phase and the delta accepted together, after however many repairs
\* of either, and whoever rewrote the bundle in between.
BundleWasProven ==
    \A f \in Features :
        bundle[f].status \in {"awaiting_approval", "approved"} => bundle[f].rev \in proven

\* A bundle that says approved names a proposal whose code is in the history of HEAD,
\* whatever builds, faults, deaths and reviewers of other features interleave with the
\* approval.  Two reviewers of the same feature at once may break it, one rolling back
\* what the other then records as approved: nothing locks the bundle or the files.
ApprovedIsCommitted ==
    \A f \in Features \ contended : bundle[f].status = "approved" => bundle[f].rev \in log

\* A build that started writes its bundle, and a reviewer's process that started
\* comes to its end.
BuildEnds == /\ (bpc # "idle") ~> (bpc = "idle")
             /\ \A r \in Reviewers : (rpc[r] # "idle") ~> (rpc[r] = "idle")

\* A commit made for a feature holds that feature's files only.
CommitIsOneFeature == foreign = {}
=============================================================================
