------------------------------ MODULE BatonLanes ------------------------------
(***************************************************************************)
(* The CLI baton batch (cli_baton_autoresearch.cjs): an orchestrator runs  *)
(* waves of worker processes, one lane and one git worktree each; the      *)
(* workers, a restarted orchestrator and the operator's commands share the *)
(* batch manifest and the worktrees.                                       *)
(*                                                                         *)
(* A commit is the sequence of the attempts it descends from, the base     *)
(* commit the empty sequence.  Every update of the manifest is one step:   *)
(* updateBatchManifest runs it under the directory lock.                   *)
(***************************************************************************)
EXTENDS Integers, FiniteSets, Sequences, SequencesExt

CONSTANTS NumLanes,
          Parallel,           \* baton.maxParallelWorkers
          AttemptsPerLane,    \* options.attemptsPerLane
          Reviewers, Veto,    \* council roles; those in VETO_ROLES
          Quorum,             \* council.quorum
          MaxRuns, MaxMishaps           \* bounds

Lanes == 1..NumLanes
Runs == 1..MaxRuns
Workers == Lanes \X Runs      \* a run has at most one worker alive per lane

ASSUME BatonAssumption ==
    /\ {NumLanes, Parallel, AttemptsPerLane, MaxRuns} \subseteq Nat \ {0}
    /\ {Quorum, MaxMishaps} \subseteq Nat /\ Veto \subseteq Reviewers

VARIABLES
    lane,     \* [Lanes -> record], the manifest's lanes
    paused,   \* manifest.paused
    picks,    \* [Lanes -> commits], what the last promotion cherry-picked
    tree,     \* [Lanes -> [there, head, edits]]: worktree, the commit it has checked
              \* out and the attempts whose uncommitted edits it holds
    branches, \* <<lane, attempt>> of every branch there is
    content,  \* <<lane, commit, edits>> of every commit made
    opc, run, wave, queue,   \* the orchestrator: step, run number, wave, lanes left
    seen,     \* its copy of the lanes, read when the wave began
    wk,       \* [Workers -> record], the worker processes
    op,       \* the operator's command under way
    overlap,  \* a wave began while a worker of an earlier run was alive, or a
              \* worktree was removed under a worker
    mishaps   \* deaths and operator's commands so far

orch == <<opc, run, wave, queue, seen>>
git == <<tree, branches, content>>
batonVars == <<lane, paused, picks, git, orch, wk, op, overlap, mishaps>>

Base == <<>>
NoTree == [there |-> FALSE, head |-> Base, edits |-> {}]
NoWorker == [pc |-> "none", attempt |-> 0, latest |-> Base, outcome |-> "failed"]
NewLane == [status |-> "pending", tries |-> 0, active |-> 0, owner |-> 0,
            latest |-> Base, accepted |-> <<>>]
NoOp == [kind |-> "none", lane |-> 1]

Alive(w) == wk[w].pc # "none"
LiveIn(l) == {r \in Runs : Alive(<<l, r>>)}
IsDirtyNever(l) == FALSE
IsDirty(l) == tree[l].edits # {}
Move(w, state) == wk' = [wk EXCEPT ![w].pc = state]

BatonInit ==
    /\ lane = [l \in Lanes |-> NewLane] /\ paused = FALSE /\ picks = [l \in Lanes |-> <<>>]
    /\ tree = [l \in Lanes |-> NoTree] /\ branches = {} /\ content = {}
    /\ opc = "idle" /\ run = 0 /\ wave = 0 /\ queue = {} /\ seen = lane
    /\ wk = [w \in Workers |-> NoWorker] /\ op = NoOp
    /\ overlap = FALSE /\ mishaps = 0

-----------------------------------------------------------------------------
(* The orchestrator: runCliBatonBatch and runBatchWave *)

StartBatch ==
    /\ opc \in {"idle", "done", "failed"} /\ run < MaxRuns
    /\ run' = run + 1 /\ wave' = 0 /\ opc' = "wave"
    /\ UNCHANGED <<lane, paused, picks, git, queue, seen, wk, op, overlap, mishaps>>

\* reclaimStaleLaneWorkers: an attempt whose process is gone is given up.  The
\* expired heartbeat that it also asks for is taken to come in time.
Reclaimed(l) ==
    IF lane[l].active # 0 /\ (lane[l].owner = 0 \/ ~Alive(<<l, lane[l].owner>>))
    THEN [lane[l] EXCEPT !.status = "pending", !.active = 0, !.owner = 0]
    ELSE lane[l]

\* A lane has attempts left.  Archived lanes and lanes with a live worker pass,
\* and no lane ever has the status paused.
Runnable(record) == record.tries < AttemptsPerLane /\ record.status # "paused"

StartWave ==
    /\ opc = "wave"
    /\ IF wave = AttemptsPerLane \/ paused
       THEN opc' = "done" /\ UNCHANGED <<lane, wave, queue, seen, overlap>>
       ELSE /\ lane' = [l \in Lanes |-> Reclaimed(l)] /\ seen' = lane'
            /\ queue' = {l \in Lanes : Runnable(lane'[l])}
            /\ wave' = wave + 1 /\ opc' = "chunk"
            /\ overlap' = (overlap \/ \E w \in Workers : Alive(w))
    /\ UNCHANGED <<paused, picks, git, run, wk, op, mishaps>>

\* prepareLaneForAttempt: checkout -B in a clean worktree, worktree add -b where
\* there is none, which needs the branch name to be free.
CanPrepare(l) == IF tree[l].there THEN ~IsDirty(l)
                                  ELSE <<l, seen[l].tries + 1>> \notin branches

\* The lanes of a chunk are prepared and their workers spawned.  One that cannot be
\* prepared rejects Promise.all: the batch throws and leaves the others running.
StartChunk ==
    LET chunk == {l \in queue : Cardinality({k \in queue : k < l}) < Parallel}
        ready == {l \in chunk : CanPrepare(l)}
    IN  /\ opc = "chunk"
        /\ IF queue = {} \/ paused
           THEN opc' = "wave" /\ queue' = {} /\ UNCHANGED <<git, wk>>
           ELSE /\ queue' = queue \ chunk
                /\ opc' = IF ready = chunk THEN "wait" ELSE "failed"
                /\ tree' = [l \in Lanes |->
                      IF l \in ready
                      THEN [there |-> TRUE, head |-> seen[l].latest, edits |-> tree[l].edits]
                      ELSE tree[l]]
                /\ branches' = branches \cup {<<l, seen[l].tries + 1>> : l \in ready}
                /\ wk' = [w \in Workers |->
                      IF w[1] \in ready /\ w[2] = run
                      THEN [NoWorker EXCEPT !.pc = "load", !.attempt = seen[w[1]].tries + 1]
                      ELSE wk[w]]
                /\ UNCHANGED content
        /\ UNCHANGED <<lane, paused, picks, run, wave, seen, op, overlap, mishaps>>

EndChunkWhenCleared ==
    /\ opc = "wait" /\ \A l \in Lanes : lane[l].active = 0 /\ ~Alive(<<l, run>>)
    /\ opc' = "chunk"
    /\ UNCHANGED <<lane, paused, picks, git, run, wave, queue, seen, wk, op, overlap,
                   mishaps>>
EndChunk ==
    /\ opc = "wait" /\ \A l \in Lanes : ~Alive(<<l, run>>)
    /\ opc' = "chunk"
    /\ UNCHANGED <<lane, paused, picks, git, run, wave, queue, seen, wk, op, overlap,
                   mishaps>>

\* The orchestrator's process dies; its workers go on.
OrchestratorDies ==
    /\ opc \in {"wave", "chunk", "wait"} /\ mishaps < MaxMishaps
    /\ opc' = "failed" /\ mishaps' = mishaps + 1
    /\ UNCHANGED <<lane, paused, picks, git, run, wave, queue, seen, wk, op, overlap>>

-----------------------------------------------------------------------------
(* A worker: runCliBatonWorker *)

LoadManifest(w) ==
    /\ wk[w].pc = "load"
    /\ wk' = [wk EXCEPT ![w].pc = "claim", ![w].latest = lane[w[1]].latest]
    /\ UNCHANGED <<lane, paused, picks, git, orch, op, overlap, mishaps>>

SetLaneRunning(w) ==
    /\ wk[w].pc = "claim"
    /\ lane' = [lane EXCEPT ![w[1]].status = "running", ![w[1]].active = wk[w].attempt,
                            ![w[1]].owner = w[2], ![w[1]].tries = wk[w].attempt]
    /\ Move(w, "propose")
    /\ UNCHANGED <<paused, picks, git, orch, op, overlap, mishaps>>

\* The worker has its outcome and goes on to its finally block.
Settle(w, outcome, latest) ==
    wk' = [wk EXCEPT ![w].pc = "finish", ![w].outcome = outcome, ![w].latest = latest]
GiveUp(w, outcome) == Settle(w, outcome, wk[w].latest)

\* aggregateCouncilDecision.  A vote of "low" is a review of low signal.
CouncilOutcome(votes) ==
    LET For(v) == {r \in Reviewers : votes[r] = v}
    IN  IF \/ Reviewers # {} /\ For("low") = Reviewers
           \/ For("reject") \cap Veto # {} \/ Cardinality(For("reject")) >= 2
        THEN "reject"
        ELSE IF Cardinality(For("accept")) >= (IF Quorum = 0 THEN 1 ELSE Quorum) THEN "accept"
        ELSE IF For("accept") = {} /\ For("revise") = {} THEN "reject" ELSE "revise"

Votes == {"accept", "revise", "reject", "low"}
Outcomes == {CouncilOutcome(votes) : votes \in [Reviewers -> Votes]}

\* The tree must be clean; the model proposes and the council reviews.  A proposal
\* that does not parse fails whatever the council says of it.
ProposeAndReview(w, parsed, outcome) ==
    /\ wk[w].pc = "propose"
    /\ IF IsDirty(w[1]) \/ ~tree[w[1]].there \/ ~parsed THEN GiveUp(w, "failed")
       ELSE IF outcome # "accept" THEN GiveUp(w, "discarded")
       ELSE Move(w, "apply")
    /\ UNCHANGED <<lane, paused, picks, git, orch, op, overlap, mishaps>>

\* validateProposalScope, the second check of the tree, and the change set.
ApplyProposal(w, inScope) ==
    LET l == w[1]
    IN  /\ wk[w].pc = "apply"
        /\ IF ~inScope \/ ~tree[l].there \/ IsDirty(l)
           THEN GiveUp(w, "failed") /\ UNCHANGED tree
           ELSE /\ tree' = [tree EXCEPT ![l].edits = @ \cup {wk[w].attempt}]
                /\ Move(w, "validate")
        /\ UNCHANGED <<lane, paused, picks, branches, content, orch, op, overlap, mishaps>>

\* The gates and commitAcceptedIteration; what is not committed is rolled back.
\* "kept": the decision keeps it and something is staged.
Decide(w, verdict) ==
    LET l == w[1]
        commit == Append(tree[l].head, wk[w].attempt)
    IN  /\ wk[w].pc = "validate"
        /\ IF verdict = "kept" /\ tree[l].there
           THEN /\ tree' = [tree EXCEPT ![l].head = commit, ![l].edits = {}]
                /\ content' = content \cup {<<l, commit, tree[l].edits>>}
                /\ Settle(w, "kept", commit)
           ELSE /\ tree' = [tree EXCEPT ![l].edits = @ \ {wk[w].attempt}]
                /\ GiveUp(w, IF tree[l].there THEN verdict ELSE "failed")
                /\ UNCHANGED content
        /\ UNCHANGED <<lane, paused, picks, branches, orch, op, overlap, mishaps>>

FinalStateOverwrites(record, outcome, latest) ==
    [record EXCEPT !.status = outcome, !.active = 0, !.owner = 0, !.latest = latest,
                   !.accepted = IF outcome = "kept" THEN <<latest>> ELSE @]
\* finalizeLane: the new commit when kept, else the one that the worker read at its
\* start.  The claim token is not compared.
FinalState(record, outcome, latest) ==
    [record EXCEPT !.status = outcome, !.active = 0, !.owner = 0,
                   !.latest = IF latest # Base THEN latest ELSE @,
                   !.accepted = IF outcome = "kept" /\ ~Contains(@, latest)
                                THEN Append(@, latest) ELSE @]

FinalizeLane(w) ==
    LET l == w[1]
    IN  /\ wk[w].pc = "finish"
        /\ lane' = [lane EXCEPT ![l] = FinalState(@, wk[w].outcome, wk[w].latest)]
        /\ wk' = [wk EXCEPT ![w] = NoWorker]
        /\ UNCHANGED <<paused, picks, git, orch, op, overlap, mishaps>>

WorkerDies(w) ==
    /\ Alive(w) /\ mishaps < MaxMishaps
    /\ mishaps' = mishaps + 1 /\ wk' = [wk EXCEPT ![w] = NoWorker]
    /\ UNCHANGED <<lane, paused, picks, git, orch, op, overlap>>

-----------------------------------------------------------------------------
(* The operator's commands *)

SetPaused(b) ==
    /\ mishaps < MaxMishaps /\ paused # b
    /\ paused' = b /\ mishaps' = mishaps + 1
    /\ UNCHANGED <<lane, picks, git, orch, wk, op, overlap>>

RequeueLane(l) ==
    /\ mishaps < MaxMishaps
    /\ lane' = [lane EXCEPT ![l].status = "pending"] /\ mishaps' = mishaps + 1
    /\ UNCHANGED <<paused, picks, git, orch, wk, op, overlap>>

\* archive and cleanup look for an active attempt in the manifest, remove the
\* worktree and its branch, and archive then overwrites the lane's record.
CheckIdle(l, kind) ==
    /\ op = NoOp /\ mishaps < MaxMishaps /\ lane[l].active = 0
    /\ op' = [kind |-> kind, lane |-> l] /\ mishaps' = mishaps + 1
    /\ UNCHANGED <<lane, paused, picks, git, orch, wk, overlap>>

RemoveLane(removeBranch) ==
    LET l == op.lane
    IN  /\ op # NoOp
        /\ tree' = [tree EXCEPT ![l] = NoTree]
        /\ branches' = IF removeBranch THEN branches \ {<<l, lane[l].tries>>} ELSE branches
        /\ lane' = IF op.kind = "archive"
                   THEN [lane EXCEPT ![l].status = "archived", ![l].active = 0, ![l].owner = 0]
                   ELSE lane
        /\ overlap' = (overlap \/ LiveIn(l) # {})
        /\ op' = NoOp
        /\ UNCHANGED <<paused, picks, content, orch, wk, mishaps>>

\* promoteCliBatonBatch: from the base, every lane's accepted commits in order, until
\* one conflicts.
Promote(conflict) ==
    /\ mishaps < MaxMishaps /\ mishaps' = mishaps + 1
    /\ picks' = [l \in Lanes |-> IF l < conflict THEN lane[l].accepted ELSE <<>>]
    /\ UNCHANGED <<lane, paused, git, orch, wk, op, overlap>>

-----------------------------------------------------------------------------
OrchestratorStep == StartWave \/ StartChunk \/ EndChunk
WorkerStep(w) ==
    \/ LoadManifest(w) \/ SetLaneRunning(w) \/ FinalizeLane(w)
    \/ \E parsed \in BOOLEAN, outcome \in Outcomes : ProposeAndReview(w, parsed, outcome)
    \/ \E inScope \in BOOLEAN : ApplyProposal(w, inScope)
    \/ \E verdict \in {"kept", "discarded", "failed"} : Decide(w, verdict)
OperatorStep ==
    \/ \E b \in BOOLEAN : SetPaused(b) \/ RemoveLane(b)
    \/ \E l \in Lanes : \/ RequeueLane(l) \/ CheckIdle(l, "archive") \/ CheckIdle(l, "cleanup")
                        \/ Promote(l) \/ Promote(l + 1)

BatonNext == \/ StartBatch \/ OrchestratorStep \/ OrchestratorDies \/ OperatorStep
        \/ \E w \in Workers : WorkerStep(w) \/ WorkerDies(w)

BatonFairness == WF_batonVars(OrchestratorStep) /\ \A w \in Workers : WF_batonVars(WorkerStep(w))
BatonSpec == BatonInit /\ [][BatonNext]_batonVars /\ BatonFairness

-----------------------------------------------------------------------------
Commits == UNION {[1..n -> 1..AttemptsPerLane] : n \in 0..AttemptsPerLane}

BatonTypeOK ==
    /\ \A l \in Lanes :
          /\ lane[l].status \in {"pending", "running", "kept", "discarded", "failed",
                                 "archived"}
          /\ lane[l].tries \in 0..AttemptsPerLane /\ lane[l].active \in 0..AttemptsPerLane
          /\ lane[l].owner \in 0..MaxRuns
          /\ tree[l].edits \subseteq 1..AttemptsPerLane
    /\ opc \in {"idle", "wave", "chunk", "wait", "done", "failed"}
    /\ run \in 0..MaxRuns /\ wave \in 0..AttemptsPerLane /\ queue \subseteq Lanes
    /\ \A w \in Workers : wk[w].pc \in {"none", "load", "claim", "propose", "apply",
                                        "validate", "finish"}
    /\ {paused, overlap} \subseteq BOOLEAN

\* The accepted commits of a lane are a chain from the base commit, each the parent
\* of the next and the last one the lane's latest: what a promotion cherry-picks in
\* order never lacks a change that a later one was made on.  It holds through
\* pauses, crashes, reclaims and batches that are run again, as long as no run
\* begins while the workers of another are alive.
LaneIsChain ==
    ~overlap => \A l \in Lanes :
        /\ Len(lane[l].accepted) = Len(lane[l].latest)
        /\ \A i \in DOMAIN lane[l].accepted :
               lane[l].accepted[i] = SubSeq(lane[l].latest, 1, i)

\* A commit holds the edits of the one attempt that was reviewed and validated for
\* it, whatever an earlier worker that died left in the worktree.
CommitIsOneAttempt ==
    ~overlap => \A c \in content : c[3] = {Last(c[2])}

\* A batch that is started comes to its end, and so does every worker, whatever
\* dies and whatever the operator does meanwhile.
BatonEnds ==
    /\ (opc \in {"wave", "chunk", "wait"}) ~> (opc \in {"done", "failed"})
    /\ \A w \in Workers : Alive(w) ~> ~Alive(w)
=============================================================================
