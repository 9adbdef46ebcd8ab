# Formal verification of XOLoop

TLA+ models of the stateful core of XOLoop (`src/plugins/xoloop/`), the TLC
runs that check them and the theorems TLAPS proves about them. File names
below are relative to `src/plugins/xoloop/lib/` unless they say otherwise.

1. [The system](#1-the-system)
2. [The models](#2-the-models)
3. [The runs and their bounds](#3-the-runs-and-their-bounds)
4. [The proofs](#4-the-proofs)
5. [Disagreements between code and documentation](#5-disagreements-between-code-and-documentation)
6. [What is not covered](#6-what-is-not-covered)
7. [The plan](#7-the-plan)

To use it, in this directory: `tlc -config MCSharedFiles.cfg MCSharedFiles`
checks a run, `tlapm SharedFiles_proofs.tla` the proofs of a module.
`PROJECT.json` lists components, runs, hazards and theorems, and for every
definition the lines of the source it stands for.

## 1. The system

XOLoop lets coding agents change a repository and keeps only the changes that
pass its gates. Everything that matters about it is shared state on a disk:
files being edited, worktrees, lock directories, one JSON manifest per batch,
a queue of directives, an append-only evidence ledger per goal. Several
processes (batches in parallel, an MCP server, a person resolving an audit or
approving a directive, an editor) work on it with little coordination, and any
of them can die.

| Component | State it keeps | Operations | What makes it correct |
|---|---|---|---|
| Manifest store, `overnight_manifest` | `manifest.json`, `.manifest.lock/` | locked read-modify-write with a poll loop and a timeout | one writer at a time, no update lost, waits end |
| Target reservations, `overnight_engine` 470-653 | one lock directory with `meta.json` per target | acquire, steal when stale, release | a target has one holder, a refusal is justified, nothing leaks |
| Novelty gates, `overnight_engine_cooldown` | the ledgers of all batches | gate a plan against one's own and the last siblings' | what a ledger in sight names is not tried again |
| Surface attempt, `overnight_engine` (+ `_proposal`, `_repair`, `overnight_staged`, `overnight_audit_gate`) | worktree, branch, attempt report | propose, gate, apply, repair, validate, audit, commit, publish | only vetted work is committed; every attempt ends and cleans up |
| Overnight batch, `overnight_engine`, `overnight_engine_deferred` | the manifest: surfaces, ledger, commits | waves of attempts, deferred audits, promotion, cleanup | ledger, freezes, reports and promotion tell one story |
| Patch engines, `overnight_patch_engine`, `change_set_engine`, `patch_engine_common`, `operation_ir` | the target files, a snapshot, a hash manifest | preflight, apply, roll back | all or nothing; the preflight and the apply agree; failures are reported |
| Goal optimise loop, `goal_optimise_runner`, `goal_evidence` | artifacts, evidence ledger, the champion's card | rounds: apply, verify, accept or roll back | the champion is what is on disk, verified, and only gets better |
| Verify runner, `goal_verify_runner`, `goal_manifest`, `goal_tradeoffs` | evidence ledger, tradeoff ledger, goal manifest | run suites, record, build a card, decide tradeoffs | a card never shows evidence of other artifacts |
| Verification suites, `goal_*_suite`, `goal_general_io` | servers, workspaces, databases, baselines, corpora while a case runs | run a case, judge it, clean up | a pass is true of what ran; what was started is stopped |
| Discovery and its gate, `goal_discovery` | `.xoloop/discovery.json` | scan, judge gaps, accept, gate the optimise loop | what the gate lets through has no open gap |
| Baton lanes, `cli_baton_autoresearch`, `baton_*` | lane manifest, worktrees, heartbeats | start, reclaim, pause, requeue, archive, promote | a lane's branch is a chain of single, vetted attempts |
| Autoresearch, `autoresearch_loop` | workspace, index, HEAD, token budget | iterations: change, validate, council, commit or roll back | every iteration starts where HEAD is |
| Audit mode, `audit_runner` | target files, snapshots | audit, fix, apply, validate, audit again | the verdict is about the files that are left |
| Build mode, `build_pipeline`, `delta_validator`, `feature_checkpoint` | review bundle, tree, index | red and green phase, approve, reject, revise | what is approved was proven, and is committed |
| Pipeline, directives, improve loop, `xo_pipeline`, `directive_*`, `improve_runner`, `benchmark_*` | the directive queue, the code, the report | six phases, filing, champion against challenger | nothing approved is lost or replayed in silence; the report is about the code on disk |
| Session, bridge, finalize, `xoloop_session`, `bin/xoloop-apply-proposal.cjs`, `bin/xoloop-finalize.cjs` | `session.md`, `session.jsonl`, `ideas.md`, branches | create, append, rewrite; apply one proposal; group and branch | no entry lost; the exit code tells what is on disk; branches are independent |
| Error reports and signals, `error_reporter`, `report_deduplicator`, `*_signal_adapter`, `minimax_triage` | buffers, an hourly window, directive files | capture, flush, search, file; write directives | rates kept, no duplicates, no signal overwritten |
| Model router and commands, `model_router`, `goal_cli_runner` | a child process, its pipes and timers | attempt, pause, kill | every call ends |
| Rest: loaders, scanners, front ends, prompts | files they read | parse, match, print | input and output |

How they meet: a batch runs surface attempts; an attempt reserves its target,
asks the novelty gates, changes its worktree through the patch engine and
records itself with one locked manifest update; reviewers, promotion and
cleanup work on the same manifest later or meanwhile. The optimise loop asks
discovery's gate first, then applies operation sets and lets the verify runner
judge them, which runs the suites and writes the evidence. The pipeline runs the
build mode for directives and the improve loop over one code; signals and the
operator fill the queue it works on. Bridge, audit and autoresearch use the
change-set engine on the user's checkout.

The hard behaviours, each listed with its line under `hazards` in
`PROJECT.json`: unlocked reads followed by locked writes, a lock made of two
file-system steps, deaths between two steps, the k-th of n writes failing and a
restore failing after it, an edit by another program between reading and
writing, repairs that replace a proposal after it was judged, a card kept in
memory while what it describes changes, processes that outlive the command that
started them, two pieces of code that judge the same thing.

## 2. The models

A definition whose name says what is wrong with it (`MkdirRecursive`,
`RollbackForgotten`) stands before the definition it is a variant of: it is a
plausible bug, used to make sure that the property which should catch it does.
No specification uses one. A definition introduced by "Not so" states what a
reader might expect and the code does not do; section 5 lists those that a run
shows and section 6 the others.

### The overnight engine

**ManifestStore, ManifestLock.** `ManifestStore` is the promise: an update of
the manifest is one indivisible step. `ManifestLock` is the code, one action
per system call: `Mkdir`, `Poll` (an EEXIST and a sleep), `Timeout`, `Load`,
`Rename`, `Throw` (the callback), `Unlock` (the `finally`), plus `Crash` at any
point and `DeleteStaleLock`, the operator doing what the timeout error asks
for, once nobody is inside. The manifest is the number of updates of each
process it contains, which is exactly enough to see one being lost.

**TargetLock.** `acquireTargetLock`, `isLockStale`, `releaseTargetLock`, again
one action per system call, with the pid in `meta.json` and the ten-minute age
limit. Functions are synchronous, so workers of one Node process interleave
only between calls, workers of different processes everywhere. `LockInit`
places the workers in processes in every way.

**TargetNovelty.** Batches open their directory, plan, gate against their own
ledger and their siblings', reserve, work, release, publish. Of the siblings the
gate reads the last `MaxSiblings` by name (200 in the code), of each of them the
first `SiblingCap` entries (500). Batches are numbered in the order of the names
of their directories and open in any order, so that a new one may come before
or after those that are there. The order of release and publication is the
code's, and what an entry names differs between staged and planner-only
attempts. The reservation is an ideal lock here; TargetLock says how far the
real one is from it.

**PatchEngine.** A patch set over files `1..N`: hash (preflight), read and
compute, re-hash (`Check`), write by temp file and rename, on an error the
walk back over the snapshot; later perhaps `Undo`. Another program edits,
deletes or reverts any file between any two steps, writes and restores may
fail, the process may die. `UseManifest` distinguishes the overnight engine
(TRUE) from the proposal bridge (FALSE). A text is a number and a bit that
says whether the patch is in it.

**SurfaceAttempt.** `runSurfaceAttempt` and its three executors. A proposal is
its number and its set of files, the worktree is the set of proposals whose
edits are in it, so "two proposals in one commit" and "leftovers after a
rollback" are states one can see. Answers of models, gates, validations and
auditors are arbitrary; every awaited call may throw. Three kinds of repair
share one budget.

**OvernightBatch.** The wave loop, with an attempt as start and end (opened up
in SurfaceAttempt), the record of its outcome in the manifest as one step
(justified by ManifestLock), deferred audits by concurrent `Reviewers`
(`PickPending` from an unlocked read, `RewriteReport`, `UpdateManifest`),
promotion as a read of the accepted commits followed by cherry-picks, cleanup.
A reviewer that dies half-way is one that takes no further step.

### Loops that change code, and what judges them

**GoalOptimise.** `runOptimiseLoop`. Artifacts have one of finitely many
contents; the ledger is the latest record per content, because cards are only
ever looked up that way. Quiet suites report the same for the same content;
noisy ones report samples, so both a repeated measurement and the decision of
the bootstrap interval are any choice. Gains are relative, in percent, compared
without dividing; a champion of 0 makes every other value a regression, as
`metricDelta` has it. A run may end between apply and decision with the
candidate on disk, and the next run begins there.

**VerifyEvidence.** `xoloop-verify run`, `freeze-baselines` and `card` on a
frontend suite: all or some cases are observed and compared, the record goes to
the ledger under the hashes of the manifest and the product, the card looks for
the last record with the hashes of now. A user edits product and manifest, a
run dies before its record. A hash is the content it is taken of.

**DiscoveryGaps.** Scan, judgement and writing of the discovery ledger, whose
file is empty in between and stays so if the scanner stops; the safety level of
an action and the policy file that allows it; acceptance in the ledger and in
the goal; and the gate. Edits and verify runs, whole or of one case, come in
between. One route gap and one safety gap per level stand for the gap rules.

**OperationSets.** `operation_ir`: the dry run and the apply are separate code
over the same disk, so they are separate actions here, over files of a few
tokens: create, replace, insert, anchors that match once, never or twice,
temporary files, renames, restore. Another process writes once.

**ApplyProposal.** One call of the bridge from request to exit code: the gates
of simplify and docs mode, which judge each operation against the disk, apply,
benchmark, validation, second measurement, rollback.

**Autoresearch.** `runAutoresearchLoop` and `runSectionLoop` with `kind` as the
difference: scope, approval, council, index reset, clean-up of litter and token
budget belong to the first. The files, the index and HEAD are sets of
iterations. The decision on a validation and the verdict of its quick commands
are two things: on a baseline that fails, a change is kept that fails no more of
them and is faster, and such a one goes past the council. Git commands and
restores may fail.

**AuditLoop.** `runAuditFixLoop` in its three modes with the scope of the fixer
and of the writes, links that lead out of the root, both rollbacks, and the way
the CLI calls it.

**BatonLanes.** An orchestrator, worker processes in worktrees, a restarted
orchestrator and the operator's pause, requeue, archive, promote and cleanup. A
commit is the sequence of the attempts it descends from. Workers and the
orchestrator may die; a stale heartbeat reclaims a lane.

**ImproveLoop, XoPipeline.** `XoPipeline` extends `ImproveLoop`: its fifth phase
is the loop. The operator approves, skips and edits directives at any time; a
directive is run, filed with each file-system step able to fail, or left
queued. Only queue and code survive a crash. What the benchmark measures of a
version of the code is a constant function.

**FeatureBuild.** Builder and reviewers share review bundle, tree and index
without a lock. A draft is a number and a revision of the bundle a pair of a
test draft and a code draft, so that a pair nobody proved is a state one can
see. Approval applies the operations of the code; those of the test never reach
the tree, so tree, index and history say of a revision where its code is.
`contended` is a history variable: the features that two reviewers were at work
on at once.

**SessionFiles.** Every call that writes the session's three files, the
tradeoff ledger or the goal manifest, as its system calls: exclusive create,
append, read, rewrite. An entry is the number of the call that wrote it.

**Finalize.** The loop of `buildGroups` over the pairs of kept entries, one
union a step, the loop that collects the groups, and for each group a branch:
the commits of `baseSha..HEAD` taken where HEAD is then, looked at one by one,
then cherry-picked, any pick failing. `root[i]` is what `find(i)` returns, so a
union moves a whole class at once.

**ErrorReports, SignalDirectives.** The first: hosts with consent, handlers, a
buffer, a rolling window and a tracker that is searched before an issue is
filed. The second: the three adapters that write a directive file per signal,
and what each does when two signals have one name.

**ChildCalls.** An attempt of a model or command: a shell, a helper that may
trap SIGTERM, hold the pipes or leave the process group, two kill timers, and
the pauses and the budget of the retries, in ticks of a clock.

### The suites

One module per suite, one behaviour per case. The program under test is
external and does anything its suite can tell apart.

| Module | Suite | What a behaviour does |
|---|---|---|
| ScheduleSuite | concurrency | explores (up to `cap` events: 8 in the code, more give the declared order unchecked), draws and repairs schedules; two runs of each under a program that follows them, ignores them or hangs; judgement and corpus |
| StateSuite | state | hooks, migration, snapshots, transaction, rollback, generated matrix, masks, the `finally`; a command writes one row and may fail after it |
| WorkflowSuite | state machine | a printed trace of steps, states, state objects or one final state, with the start declared by name, by `where` or as a whole object; judged step by step, against the replay of the model, and for coverage |
| PerformanceSuite | performance | starts a server, probes it until a deadline, samples, compares with a baseline twice, freezes, stops |
| ApiSuite | API | two snapshots around primary, denied, matrix, repeated and retried requests of which any may write; the server may go on with a request that was answered or given up, until the case ends; hooks may write |
| CliSuite | CLI and general io | executions in workspaces or in the repository, contracts, filesystem effects, clean-up |
| FormalSuite | formal/static | an analyzer's output and report file read into findings, deduplicated and judged under a policy |

### Sum modules

`MCSharedFiles`, `MCChangeLoops`, `MCBuildModes`, `MCOvernightParts` and
`MCSuiteVerdicts` put several components that do not call
each other into one run: the variable `side` is chosen at the start, only that
component moves, the others rest in one initial state. This is a sum and not a
product, so a property of a component means in it what it means alone. Where
components do interact, the interaction is inside a module: XoPipeline with
ImproveLoop, OvernightBatch with its reviewers, TargetNovelty with sibling
batches, DiscoveryGaps with verify runs, BatonLanes with its operator.

## 3. The runs and their bounds

| Run | Parts | Distinct states | Result |
|---|---|---|---|
| `shared_files` | ManifestLock, BatonLanes, SessionFiles, Finalize, ChildCalls | 329,000 | all hold |
| `change_loops` | GoalOptimise, VerifyEvidence, DiscoveryGaps, OperationSets, ApplyProposal, Autoresearch, AuditLoop | 8,887,000 | all hold |
| `build_modes` | XoPipeline with ImproveLoop, FeatureBuild, ErrorReports, SignalDirectives | 2,180,000 | all hold |
| `overnight_parts` | OvernightBatch, TargetLock, TargetNovelty, PatchEngine, SurfaceAttempt | 1,206,000 | all hold |
| `suite_verdicts` | ScheduleSuite, StateSuite, WorkflowSuite, PerformanceSuite, ApiSuite, CliSuite, FormalSuite | 9,903,000 | all hold |
| `target_lock_race` | TargetLock, two workers, no crash | | `ReservedOnce` violated |
| `session_finalize` | Finalize | | `GroupsAreReplayed` violated |
| `audit_cli` | AuditLoop | | `ScopedFindingIsAsked` violated |
| `verify_gaps` | VerifyEvidence | | `GapsAreShown` violated |
| `state_actions` | StateSuite | | `BlockedNeverRuns` violated |
| `two_reviewers` | OvernightBatch, two reviewers | | `PromotedWereKept` violated |
| `target_novelty_repeat` | TargetNovelty, two batches | | `TriedOnce` violated |

What each property says, and the instance it is checked on:

**shared_files.** Three updaters with one poll and one update each (a call that
throws is repeated), one deletion of a stale lock; two lanes with one worker at
a time, two attempts per lane, two runs of the batch, one mishap (a death or a
command); two processes with three calls on the session's files and one death;
every session of three kept entries over two files; two attempts of a call under
a budget of three ticks, a timeout of two and a grace of one.
- `RefinesStore`: whatever locks, temporary files and copies there are, every
  step is an update of the atomic store or none at all. Exclusion and the
  absence of lost updates follow.
- `LaneIsChain`: the accepted commits of a lane are a chain from the base, each
  the parent of the next, so that promotion picks nothing that lacks its
  foundation. It holds through pauses, crashes and reclaims as long as no run
  begins while workers of another live (section 6).
- `CommitIsOneAttempt`: a commit holds the edits of the one attempt that was
  reviewed for it, whatever a dead worker left in the worktree.
- `BatonEnds`: a batch and its workers come to an end, whoever dies.
- `RecordedStays`: what a call recorded stays recorded; of the rewritten files,
  unless two calls that rewrite the same one overlapped or a process died in
  one.
- `BranchesAreIndependent`: no file belongs to two groups, no branch holds a
  commit of another, the first branch has all of its commits in order.
- `CallEnds`: a call ends, unless a process out of the kill's reach holds the
  pipes.

**change_loops.** Two contents, two metrics (one of them maximised) with values
0 to 2 or missing, three rounds, restores that fail; two cases with two
observations and two records; one scan, two verify runs and one edit; two
operations on files of up to three tokens and one outside write; proposals of
two changes with one fault; three research iterations, two judges, one fault;
an audit of three names, one of them a link out of the root, with two rounds
and one file that is not restored.
- `ChampionVerified`, `NeverReturns`: with a quiet suite the loop goes on only
  from a champion that passes, and with no regression budget it never comes
  back to artifacts it has left.
- `CardTellsTruth`: with a record of all cases that shows no gap and was not
  edited under, the card's verdict is what the product on disk does.
- `GateLeavesNoneOpen`: what the gate lets through has no gap of the ledger
  open: each was accepted, or seen by the last run of a harness on the content
  that was judged.
- `DryRunIsKept`: the apply refuses what the preflight failed and writes what
  the operations mean; a failed one leaves the disk as it was, but for restores
  that failed.
- `ExitTellsTheDisk`: exit 0 means the whole proposal is on disk, validated and
  in simplify mode simpler; 1 and 2 mean the tree is as it was.
- `StartsAtHead`: no change, staged blob or litter of an iteration that was
  thrown away is there for the next one to commit.
- `CommitsWereVetted`: HEAD holds only changes whose validation was decided to
  keep. With a council that may not be missing, those whose quick commands all
  passed were kept by it, and that is all of them if the baseline did not fail.
- `EndsAsAudited`: the verdict is about the files as the last audit read them.

**build_modes.** Two directives, one of them a symlink, two runs, one edit, one
mishap, two improve rounds over three versions of the code; two features, two
reviewers, one repair turn, two builds, four drafts, one fault; one host, two
codes, four errors, two reports an hour of two ticks; two surfaces with up to
two errors of each of three codes, two of which make one file name, two issues.
- `NoneLostInSilence`, `NoSilentReplay`: an approved directive no folder holds
  any more was reported; one that succeeded runs again only if its filing failed
  or a process died around it.
- `CleanReportIsCurrent`: a report without failure that asks for no
  revalidation is about the code on disk.
- `RunEnds`: a started run ends, whatever its phases throw.
- `BundleWasProven`: what awaits approval is a pair of tests and code that red
  phase and delta accepted together, after repairs of either.
- `ApprovedIsCommitted`: an approved bundle names a proposal whose code is in
  HEAD's history, unless two reviewers were at work on that feature at once.
- `RollingLimit`: no hour, wherever it begins, holds more reports than allowed.
- `EverySignalHasItsFile`: no later signal took the directive file of an
  earlier one (engine adapter).

**overnight_parts.** Two surfaces, three attempts each, four in all, one
reviewer: two strikes cool a surface down, so three attempts are needed for one
that is cooled. Three workers in two processes placed in every way, one death
and one expired lock; three batches (two staged), one target, two attempts, one
sibling read and one entry of it, so that a third batch pushes another out of
sight, and an entry that names none stands for one of another target; three
files with three edits and two faults, the fewest for a file before, at and
after the failing one; all modes, two files and two repair turns, so that two
kinds of repair meet.
- `LedgerTellsCommits`: a commit waits, or is accepted, exactly as long as its
  ledger entry says so, with one reviewer at a time. `BatchEnds`: once its waves
  have begun the loop ends, whatever reviewers do.
- `ReservedWithinProcess`: within a process and the age limit a target has one
  holder. `ClosedStaysClosed`: a target that an entry in a batch's sight names,
  and that the batch is not past its gate with, stays closed to it until a new
  directory pushes the entry out of sight; the batch does not work on it.
  `HalfPatchReported`: what a failed apply left patched is in its rollback
  errors. `CommitIsVetted`: a commit is the very tree both validations passed
  on, of a proposal that gates and auditor saw, repairs included.
  `NoCommitNoTrace`: an attempt reported without a commit left nothing in the
  worktree. `Ends`: every attempt ends and gives its target back.

**suite_verdicts.** Three events and up to two constraints, a limit that cuts
the search and one that does not, three events explored or too many to be; one
table and two tenants; two states, two commands, up to two transitions and
traces of up to three steps; two executions of a command; one formal case under
every policy, and two that share a report; two metric values, two samples, three
probes; one request of each kind with one retry. The names of states and
commands of workflows are symmetric.
- `SchedulesObey`, `ExplorationIsExhaustive`: repaired and searched schedules
  obey the constraints unless no order does; unless cut off, the search finds
  each order once. A case with too many events is not searched, and its
  "explored" order is excepted (`ExploredObey` in section 5).
- `PassIsContained`: what a state case passes is true of the database itself,
  masked columns excepted.
- `JudgesAgree`: a complete trace of steps that the model replays is accepted
  step by step, and one that is accepted step by step from its declared start is
  the one replayed, as far as the names of states go and unless it is declared
  by a `where`.
- `DifferenceIsTheCommands`: a case with workspaces fails for being
  nondeterministic only where the command or a cut-off is to blame.
- `VerdictFollowsPolicy`: status, counted failures and policy tell one story,
  and advisory cases fail a run for nothing but coverage.
- `ServerIsStopped`: unless its ready URL is malformed a case leaves no server.
- `NoWriteEscapes`: where `unchanged` passed on two readable snapshots and the
  database is not what it was, the server wrote after the second snapshot, for a
  request it had answered, for a repeated one, whose failure nobody judges, or
  for one whose failure failed the case.

Why the bounds are enough: two contenders and a third that arrives while one
waits show every order of lock operations; a second update, crash or expiry
only repeats the first from a state with fewer actors; a fault allowed once
strikes at every place it can. Where an instance sums components, each has all
of its bounds to itself. `CHECK_DEADLOCK FALSE` appears where the bounds or the
program itself end the behaviour: an updater that has made its updates, a case
that is judged, a batch at its limit.

Fairness, always weak and only of what the code schedules itself: each updater's
own steps (a timer fires, a synchronous call returns); the steps of the baton
orchestrator and of its living workers; the pipeline's own steps; the wave loop;
the patch engine, which is synchronous; the attempt, whose awaited calls all
return or throw; the runner of a call, of a benchmark and of a request case,
with its clock and probe. Nothing obliges a process to call, to crash or to
recover, a reviewer, promoter or operator to act, a command to end, a server to
stop by itself or a response to arrive whole.

## 4. The proofs

Every theorem is about the specification of one component, for all values of
its constants under the named assumptions of its module (`PROJECT.json` lists
the theorems). The bounds that keep TLC's state space finite stay parameters:
any number of processes, lanes, files, features, cases, operations or ticks.
Each argument is an inductive invariant, given here with the reason why the
property alone is not one.

**SharedFiles_proofs** (ManifestLock, BatonLanes, SessionFiles, Finalize)

- The lock: exclusion alone is not inductive. `HolderHasDir` says that whoever
  is inside has the directory, so no `rmSync` takes another's lock;
  `SnapshotCurrent` that what a process is about to write was computed from the
  current manifest. From these follow `LockIsExclusive`, `UpdatesSurvive` and,
  because a `Rename` then adds exactly one update to the current manifest,
  `StoreIsRefined`: the lock implements the atomic store.
- `RecordsStay`: unless two rewriting calls of one file overlapped or a process
  died in one (`raced`), what a call has read is still what the file holds when
  it writes, and an empty file belongs to the call that is about to fill it
  (`DocKept`, `IdeasKept`, `DecisionsKept`).
- `LanesAreChains`, `CommitsAreOneAttempt`: unless two runs held one lane at
  once (`overlap`), there is one worker to a lane (`OneWorkerEach`), it works on
  the lane's latest commit and validates its own edits only (`OnLatest`), and
  the copy of the lanes that a wave began with is still true of those that
  wait (`SeenIsFresh`).
- `BranchesIndependent`: the property speaks of finished groups and branches
  only. The invariant says of every pair compared so far that its roots agree if
  the entries share a file (`PairsLoop`), that a group is what has one root
  (`GroupsLoop`), that list and branch touch the group's files (`BranchLoop`),
  and for the first branch that the first n commits were looked at (`Listed`)
  and that branch and remaining list together are the session's commits of the
  group (`FirstBranch`): a pick moves a commit from one to the other.

**Reservations_proofs** (TargetLock, TargetNovelty)

- `OwnerOnRecord` for any workers and processes, crashes and expiries included;
  `OneProcessReservesOnce` from an invariant that says which labels of a single
  process may coexist and that an unexpired directory with a live owner is
  never found stale.
- Exclusion between batches, no repetition within one: a target in work is
  reserved by its worker (`Reserved`) and one worked on is on the ledger or
  still in hand (`Remembered`).
- `ClosedTargetsStayClosed`, for any number of batches and any window: ledgers
  only grow (`ExploredGrows`), and while there are no more siblings than the
  gate reads it reads them all (`UncrowdedReadsAll`), so that only a directory
  opened beyond that can take an entry out of sight. The race of `TriedOnce`,
  two batches that are both past their gates, is outside of what it says.

**Attempts_proofs** (PatchEngine, SurfaceAttempt)

- `FailureAccountsForPatch` and `SnapshotComplete` from an invariant that ties
  the walk back to its position: behind it every patched file is in the list of
  errors. `DriftIsCaught` is an action property: a checked file still has the
  hashed bytes unless the other program wrote in between.
- `CommitsAreVetted` from `Vetting`: what holds of the current proposal at each
  stage on the way to the commit, also after a repair has replaced it.
- `AttemptLeavesNoTrace` and `CommitsHoldOneProposal` from `InTree`: unless a
  restore failed, worktree and HEAD hold at each stage the one current proposal
  or nothing. `AuditorsSeeTheCommit` from `Summarised`: the diff taken before
  the gates still covers a proposal that a repair put in its place.
  `RepairsAreBudgeted` from `Spent`, which counts calls against turns in each of
  the three executors.

**OvernightBatch_proofs.** `FreezesWhileCommitted` for any number of reviewers;
`OneCommit` and `LedgerIsTrue` under `ASSUME SoleReviewer`: one review at a
time. The assumption is needed: with two reviewers of opposite verdicts TLC
refutes both, and `PromotedWereKept` (section 5).

**GoalOptimise_proofs.** `Held` says that between apply and decision the
rollback handle leads back to the champion and, with quiet suites, that the
champion's card is still the ledger's. `SearchMakesProgress` shows that an
accepted candidate is better in a strict partial order (`AcceptedIsBetter`,
`BetterIsTransitive`) which the lineage follows, for any number of metrics and
any threshold, if no regression is allowed, the suites are quiet and every
target is reported. Each of these conditions is a hypothesis of the property,
because without it the loop may come back to artifacts it has left.

**ChangeLoops_proofs** (Autoresearch, AuditLoop, VerifyEvidence, DiscoveryGaps,
ApplyProposal, OperationSets)

- `IterationsStartAtHead` and `ResearchCommitsVetted` from an invariant that
  follows one iteration's change through files, index and HEAD: unless a command
  failed, only the current iteration is ahead of HEAD, and the handle of its
  rollback leads back there. The second needs to know of the iteration at hand
  what was decided and what the quick commands said (`Vetted`), since the
  council is asked only after both. `AuditVerdictIsOfTheFiles` and
  `AuditWritesInScope` from one that says what the snapshot of the round
  restores.
- `CardsTellTheTruth`: a verification that no edit disturbs says of the cases
  done so far what they are, also when it has just written their baselines
  itself (`RunningSays`); a whole record says it of the contents in its hash
  (`RecordsSay`), so it does not matter how often these were left and come back
  to. It uses that a suite has a case, which the runner enforces
  (`goal_frontend_suite.cjs:753-757` fails without one). `EditsMakeStale` is
  its counterpart, a property of every step that edits.
- `GatesLeaveNoneOpen`: every ledger that was judged is honest about the scan it
  was judged from (`Honest`), however long ago that was.
- `ExitCodesTellTheDisk`: between the first rename and the last, the files
  renamed into place have the text that the in-memory pass computed and the
  others the one found (`HalfWritten`, `WholeWritten`).
- `DryRunsAreKept`: dry run, plan and meaning of a list of operations are three
  recursive functions over it. `Agree` relates the three after each prefix: they
  fail at the same operation, stage the same edits of the same texts and create
  the same files. One operation more keeps it (`AgreeGoesOn`); from the whole
  list it gives the table of writes (`PlansTell`) that the renames and the
  restores then work off (`AsPlanned`).

**BuildModes_proofs** (FeatureBuild, XoPipeline, ErrorReports, SignalDirectives)

- `ProposalsAreProven`: what the builder holds in the green phase went through
  the red one, and what it is about to propose through both (`RedThenGreen`).
- `ApprovalsAreCommitted`: for a feature that one reviewer at a time was at work
  on, the code in the tree is that of the bundle the reviewer read until the
  commit (`ReviewedIsApplied`), whatever reviewers of other features and builds
  do. Features that two were at work on at once are excepted in the property
  (`contended`): the checkpoint takes no lock, and TLC finds the reviewer who
  rolls back what another then records as approved.
- `DirectivesAreAccountedFor`, `ReplaysAreReported`: a directive that succeeded
  and is in no report is about to be filed, or is filed and out of the queue
  (`FiledOnce`), so neither a rerun nor an operator's second approval reaches
  it.
- `ReportsAreCurrent`: while no improvement was kept and no restore failed, what
  fuzz and benchmark measured is the code that a failed round would leave
  (`MeasuredBaseline`).
- `SubmissionsAreLimited`: the limiter looks at the hour before now; the
  property is about every hour. The step is a count of the times in a window
  that ends later than the last of them (`Limited`, `SentInPast`).
- `SignalsHaveTheirFiles`: each signal worth keeping is written or still to come
  (`WritesInv`); a pigeonhole argument (`FreeNameIsFree`) shows that the search
  for a free name always ends on one.

**Suites_proofs** (PerformanceSuite, ApiSuite, StateSuite, CliSuite,
WorkflowSuite, FormalSuite, ScheduleSuite)

- `ServersAreStopped`, `WritesAreNoticed`, `PassedIsContained`,
  `DifferencesAreTheCommands`: what was recorded of the system under test is
  what it was at that point, and what can write after it was last looked at is
  named (`SnapshotsTell`, `Staged`, `Contained`, `ExecutionsTell`). Of API
  requests that is the server's work on requests the case is through with:
  `FailuresTold` says that a request whose failure is judged has failed the case
  by then.
- `TheJudgesAgree`: two pieces of code judge one trace, step by step and by
  replaying the model, and its start by name, `where` or whole object. The
  replay up to a step is related to the trace up to there (`RoundGoesOn`) for
  every length.
- `VerdictsFollowThePolicy`: an analysis that the policy condemns has its
  failing record as soon as it is judged, and the other way round
  (`FailuresTell`).
- `SearchesAreExhaustive`: every order that obeys the constraints is found or
  ahead of exactly one open call of `walk` (`Searched`). A call's orders are
  split between the rest of its loop and the call it makes (`ChildCall`);
  skipping an event loses none (`PrunedCall`, which needs that an order has a
  place for every event: `OrderPlaces`). It is about cases that are searched at
  all, whatever number of events that is.
- `RepairedSchedulesObey`: a move permutes the order (`MovedIsOrder`), and when
  a pass has moved nothing so far, the pairs behind it are unbroken
  (`RepairInv`). Its hypothesis `~swapped` says that the guard on passes did not
  end the repair in a pass that still moved an event; that it never does is
  checked up to the bounds only.

**Recursive functions.** `Replay`, `Edited`, `Simulated`, `Planned` and
`Meaning` are recursive functions over the length of a list. That such a
definition has the value its equation gives is itself proved: a set of naturals
that contains 0 and each successor of its members contains all
(`InductionOverSet`, from the well-foundedness of the naturals), hence for every
length there is a function that satisfies the equation up to it (`PassesExist`,
`DryRunsExist`, `PlanningsExist`, `MeaningsExist`, `PrefixesExist`) and two of
them agree.

Only model-checked:

- Liveness under fairness (`BatonEnds`, `RunEnds`, `BatchEnds`, `Ends`,
  `CallEnds`), which with ENABLED is out of the prover's reach.
- That the number of passes `repairOrder` allows is enough (`SchedulesObey`
  without the hypothesis of `RepairedSchedulesObey`): for any length and any
  pairs it need not be.

No module declares a RECURSIVE operator.

## 5. Disagreements between code and documentation

Each has a run that violates the documented property; `PROJECT.json` quotes the
lines.

1. `ReservedOnce`: a reservation between its `mkdir` and its `meta.json` counts
   as stale, so another process steals it (`overnight_engine.cjs:542`); the
   comment says the metadata takes no part in the protocol.
2. `GroupsAreReplayed`: after its first branch finalize stays on it, so the
   commits of the second group are not found and an empty branch is reported as
   made (`bin/xoloop-finalize.cjs:140`).
3. `ScopedFindingIsAsked`: the audit CLI passes an absolute path, the fixer's
   allowlist is of relative names and ends up empty: no finding of the target is
   ever shown to the fixer (`bin/xoloop-audit.cjs:78`).
4. `GapsAreShown`: obligations are discharged per name and not per case, so one
   case's pass hides another's missing baseline and the card says
   PASS_EVIDENCED (`goal_verify_runner.cjs:533`).
5. `BlockedNeverRuns`: a state case's migration runs before its words are looked
   at, and is then reported as blocked (`goal_state_suite.cjs:1030`).
6. `PromotedWereKept`: two reviewers pick one pending commit from unlocked
   reads; the second rejects what the first accepted, the ledger says discarded,
   the commit stays accepted and is promoted
   (`overnight_engine_deferred.cjs:119`).
7. `TriedOnce`: a target is released before its ledger entry is published, and a
   sibling that passed its gate earlier works on it again
   (`overnight_engine.cjs:2342`).

Met while modelling, written into the modules as "Not so" or as a condition of
a property, without a run of their own:

- Overnight: the bridge passes no verification manifest, so an edit in between
  is overwritten (`DriftNeverOverwritten`); undoing a patch drops the list of
  files it could not restore (`RollbackFailuresReported`); behind 200 newer
  directories a target that was tried is open again (`ClosedForGood`).
  Promotion takes a status of `validated` to mean that its validation failed
  (`overnight_engine.cjs:2669`).
- Pipeline: completing a directive never compares the fingerprint it was run
  with (`FiledIsWhatRan`); the overnight CLI passes no opt-ins, so build, fuzz
  and benchmark always skip from it; a build directive that awaits approval
  stays queued and is built again by every run; `approve` applies the operations
  but not the test operations; with unlimited rounds and a benchmark that always
  throws improve does not end (`improve_runner.cjs:497` skips the check).
- Bridge: with two operations simplify removes an exported symbol that each
  alone would keep (`PublicApiIsKept`); insertions of a docs proposal are not
  looked at (`DocsKeepLogic`); an error after the write exits with 3 and
  `applied: false` (`UnappliedIsNotThere`); errors of its rollback are dropped.
- Autoresearch: on a failing baseline a change that fails no more of its quick
  commands and is faster is committed without the council that was asked for
  (`CommitsWereReviewed`), although the comment at
  `autoresearch_loop.cjs:1235-1239` says that a change never reviewed cannot be
  committed.
- Discovery: a ledger that is being written or whose writer died lets every goal
  through unless discovery is required (`TornLedgerStops`); the gate asks
  neither its age nor what it was made of (`GateKnowsTheCode`); a safety gap is
  named by its level, so that accepting it accepts actions found later; a policy
  file that does not parse is skipped.
- Suites: a formal case's uncovered files fail instead of leaving a gap
  (`UncoveredIsGap`), its counterexamples may pass (`CounterexampleFails`) and a
  report of an earlier run is judged (`ReportsAreOfThisRun`); a CLI case without
  an oracle fails where a gap is promised (`MissingOracleIsGap`); declared
  schedules without an order share one key and only the first runs; a failure of
  determinism is written to the corpus without its schedule (`CorpusReplays`); a
  workflow that answers with its final state alone has that judged as one step
  of the last command (`RightAnswerPasses`); a start declared as an object is
  compared whole and a replayed one by name, and state objects that stand for
  their steps have names for the replay only, so that the two judges contradict
  each other (`JudgesAlwaysAgree`); with more than eight events the schedule
  called explored is the declared order, checked against nothing
  (`ExploredObey`); a repeated request that times out fails nothing and may be
  worked after the last snapshot (`QuietCaseIsUnchanged`); the state suite
  passes rows stolen from another tenant (`ForeignRowsStay`); an API database
  with two unreadable snapshots passes (`PassComparedSnapshots`); the probes of
  a benchmark overlap and go on while it measures, its two judgements may
  contradict each other and its baseline may be frozen from a failure
  (`OneProbe`, `NoProbeWhileMeasuring`, `ChecksAgree`, `FrozenFromPassing`).
- Calls: the last pause is cut to end at the budget and an attempt follows; a
  helper that left the group survives a timeout (`GroupIsDead`); output cut
  after an exit of 0 is taken for whole (`SuiteOutputIsWhole`).
- Reports: two hosts search before either files, so a code gets two issues
  (`OneOpenIssue`); the triage parses fields under names the reporter does not
  write; slugs of triage and issue groups collide and one file takes another's
  place (`OtherSignalsHaveTheirFiles`), whose directive then runs twice
  (`EachIsFixed`).
- Session: a process that dies between creating and filling `session.md` leaves
  an empty file that later calls resume from (`SessionIsWhole`).

## 6. What is not covered

Conditions of checked properties that the code does not ensure:

- Baton's claim token is never compared. A restarted orchestrator puts a second
  worker into the worktree of one that is alive; `LaneIsChain` and
  `CommitIsOneAttempt` are stated for behaviours in which that did not happen
  (`overlap`). The dirty tree of a dead worker rejects later waves.
  `createWorktree` that throws after `git worktree add` leaks the directory: the
  one hazard without a property.
- `RecordedStays` excepts overlapping rewrites, `ApprovedIsCommitted` features
  that two reviewers were at work on at once, `LedgerTellsCommits` holds with
  one reviewer: none of these takes a lock. `ClosedStaysClosed` excepts batches
  that are past their gates, and ledgers pushed out of sight.
- `NoWriteEscapes` excepts what the server does after the last snapshot: nobody
  looks at the database any more.
- `CardTellsTruth` excepts edits while the suites run: the hash is taken after
  them. A record of some cases (`--case`) masks the full one before it.
- Even with the manifest an edit that is undone again between read and re-hash
  is accepted by the patch engine; the bytes are the same then, so
  `ManifestCatchesDrift` is stated about bytes. A crash in the middle of a patch
  leaves some files patched: nothing in the code recovers that.

Abstracted: contents of prompts, patches, diffs and reports; anchor resolution
in PatchEngine (a choice; OperationSets resolves them in token sequences);
creation and deletion of files by a change set; reuse of the pid of a dead
process; an operator who deletes a lock in use; wording and layout of issues,
cards and reports; an editor beside the optimise loop.

Not modelled, with the reason:

- The source scanners of discovery, most of its gap rules, the goal maker's
  choice of targets: sequential pattern matching over text; each form of rule
  has one representative.
- Playwright capture, the runtime lab and JSON canonicalization: input and
  output of external programs; their outcome is a suite's observation.
- Fuzz generators and shrinking, the scores of slop and simplicity, the
  tournament's scores: random generation or arithmetic over text.
- Objective, adapter and YAML loaders, init, MCP front end, command-line
  wrappers, skills and hooks: argument parsing, schema checks and dispatch
  without state of their own. How the CLIs call the library is part of the
  modules of what they call, where it matters.
- Providers and request bodies of the model router, the Minimax client, library
  swap, `council_reviewer`, which has no caller; examples and tests.

## 7. The plan

Done, in this order: ManifestStore and ManifestLock, TargetLock, PatchEngine,
SurfaceAttempt, TargetNovelty, OvernightBatch, GoalOptimise, with their
theorems; then BatonLanes, Autoresearch, AuditLoop, VerifyEvidence, ImproveLoop
and XoPipeline, FeatureBuild, SessionFiles, Finalize, the suites, OperationSets,
ErrorReports, SignalDirectives, ChildCalls, ApplyProposal, DiscoveryGaps; then
the theorems about these, in SharedFiles_proofs, ChangeLoops_proofs,
BuildModes_proofs and Suites_proofs.

Every invariant and action property of a passing run is now a theorem
(`SchedulesObey` under the hypothesis of section 4). Left, most important first:

1. Refinements: `TargetLock` within one process implements the ideal
   reservation of `TargetNovelty`; `SurfaceAttempt` implements the attempt step
   of `OvernightBatch`; `GoalOptimise`'s verification is a step of
   `VerifyEvidence`.
2. Models: creations and deletions in PatchEngine, the polish phase's own loop,
   the research tournament, the runtime lab.
