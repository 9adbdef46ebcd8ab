--------------------------- MODULE OvernightBatch ---------------------------
(***************************************************************************)
(* One overnight batch: the wave loop of runOvernightBatch, the reviewers  *)
(* that call resolveDeferredAudit while it runs or after it, promotion to  *)
(* the integration branch, and cleanup.  An attempt is one step from its   *)
(* start to its result here (SurfaceAttempt opens it up); the manifest     *)
(* update that records it is atomic (ManifestLock shows why).              *)
(***************************************************************************)
EXTENDS Integers, Sequences, FiniteSets

CONSTANTS
    Surfaces,         \* objective.allowedSurfaces
    Reviewers,        \* callers of resolveDeferredAudit
    AttemptLimit,     \* attempts per surface
    MaxTotalAttempts, \* attempts of the batch
    None              \* null

ASSUME LimitsAssumption == AttemptLimit \in Nat \ {0} /\ MaxTotalAttempts \in Nat \ {0}
ASSUME NoneAssumption   == None \notin Surfaces

VARIABLES
    phase,     \* where runOvernightBatch is
    wave,      \* runnableSurfaceIds not yet reached in this wave
    busy,      \* the surface being attempted, or None
    fresh,     \* no attempt was made in this wave yet
    total,     \* totalAttemptsStarted
    strikes,   \* no-benefit entries of the surface the attempt started from
    status,    \* manifest.status
    entries,   \* manifest.ledger, per surface: outcome of its n-th attempt
    frozen,    \* surfaceState.frozen
    cooled,    \* surfaceState.cooled
    pending,   \* surfaceState.pendingAuditCommits, as attempt numbers
    accepted,  \* surfaceState.acceptedCommits, as attempt numbers
    reports,   \* outcome in each attempt's report.json
    leftover,  \* surfaces whose worktree could not be removed
    review,    \* per reviewer: [pc, surface, attempt, verdict]
    promotion  \* promoteOvernightBatch: [pc, left, picked, status]

loop      == <<phase, wave, busy, fresh, total, strikes>>
manifest  == <<status, entries, frozen, cooled, pending, accepted>>
batchVars == <<loop, manifest, reports, leftover, review, promotion>>

Results == {"kept", "pending-audit", "no-benefit", "discarded", "cooled", "failed", "plan-only"}
Attempts == Surfaces \X (1..AttemptLimit)
Idle     == [pc |-> "idle", surface |-> None, attempt |-> 0, verdict |-> "none"]

(* Every variable stays in its range.                                      *)
BatchTypeOK ==
    /\ phase \in {"wave", "surfaces", "attempt", "done", "crashed"}
    /\ wave \subseteq Surfaces /\ busy \in Surfaces \cup {None} /\ fresh \in BOOLEAN
    /\ total \in 0..MaxTotalAttempts /\ strikes \in Nat
    /\ status \in {"running", "awaiting-promotion"}
    /\ entries \in [Surfaces -> Seq(Results)]
    /\ frozen \in [Surfaces -> BOOLEAN] /\ cooled \in [Surfaces -> BOOLEAN]
    /\ pending \in [Surfaces -> SUBSET Nat] /\ accepted \in [Surfaces -> SUBSET Nat]
    /\ reports \in [Surfaces -> Seq(Results)]
    /\ leftover \subseteq Surfaces
    /\ review \in [Reviewers -> [pc : {"idle", "report", "update"}, surface : Surfaces \cup {None},
                                 attempt : Nat, verdict : {"none", "accept", "reject"}]]
    /\ promotion.pc \in {"idle", "pick"}
    /\ promotion.left \subseteq Surfaces \X Nat /\ promotion.picked \subseteq Surfaces \X Nat
    /\ promotion.status \in {"none", "blocked", "ready", "validated"}

BatchInit ==
    /\ phase = "wave" /\ wave = {} /\ busy = None /\ fresh = TRUE /\ total = 0 /\ strikes = 0
    /\ status = "running"
    /\ entries = [s \in Surfaces |-> <<>>]
    /\ frozen = [s \in Surfaces |-> FALSE] /\ cooled = [s \in Surfaces |-> FALSE]
    /\ pending = [s \in Surfaces |-> {}] /\ accepted = [s \in Surfaces |-> {}]
    /\ reports = [s \in Surfaces |-> <<>>]
    /\ leftover = {}
    /\ review = [r \in Reviewers |-> Idle]
    /\ promotion = [pc |-> "idle", left |-> {}, picked |-> {}, status |-> "none"]

(* attemptCount grows with every ledger entry, in the same update.         *)
AttemptCount(s) == Len(entries[s])
Runnable(s) == AttemptCount(s) < AttemptLimit /\ ~frozen[s] /\ ~cooled[s]

(* shouldCoolSurfaceDown counts the entries that brought no benefit.       *)
NoBenefit(s) == Cardinality({n \in 1..Len(entries[s]) : entries[s][n] = "no-benefit"})
-----------------------------------------------------------------------------
(* The top of the loop: reload the manifest and collect what may run; an   *)
(* empty wave ends the batch.                                              *)
StartWave ==
    /\ phase = "wave"
    /\ IF \A s \in Surfaces : ~Runnable(s)
       THEN phase' = "done" /\ status' = "awaiting-promotion" /\ UNCHANGED <<wave, fresh>>
       ELSE /\ phase' = "surfaces" /\ wave' = {s \in Surfaces : Runnable(s)} /\ fresh' = TRUE
            /\ UNCHANGED status
    /\ UNCHANGED <<busy, total, strikes, entries, frozen, cooled, pending, accepted,
                   reports, leftover, review, promotion>>

(* The next surface of the wave, looked at again in a fresh manifest.  A   *)
(* worktree left behind by an earlier attempt makes createWorktree throw,  *)
(* and nothing catches it.                                                 *)
TakeSurface ==
    /\ phase = "surfaces"
    /\ \E s \in wave :
         /\ wave' = wave \ {s}
         /\ \/ ~Runnable(s) /\ UNCHANGED <<phase, busy, strikes>>
            \/ /\ Runnable(s) /\ s \notin leftover
               /\ phase' = "attempt" /\ busy' = s /\ strikes' = NoBenefit(s)
            \/ /\ Runnable(s) /\ s \in leftover
               /\ phase' = "crashed" /\ UNCHANGED <<busy, strikes>>
    /\ UNCHANGED <<fresh, total, manifest, reports, leftover, review, promotion>>

NextSurface == total < MaxTotalAttempts /\ TakeSurface

(* writeAttemptArtifacts and finalizeSurfaceAttempt.  A surface with two   *)
(* strikes when the attempt began cannot get past the gates any more.      *)
(* Removing the worktree may fail silently, and the status and history     *)
(* files written behind the manifest may throw the batch away.             *)
MayEnd(o) == strikes >= 2 => o \notin {"kept", "pending-audit", "plan-only"}
FinishUntracked(s, o, n) ==
    /\ accepted' = IF o = "kept" THEN [accepted EXCEPT ![s] = @ \cup {n}] ELSE accepted
    /\ frozen' = [frozen EXCEPT ![s] = @ \/ o \in {"kept", "pending-audit"}]
    /\ UNCHANGED pending
RecordCommit(s, o, n) ==
    /\ accepted' = IF o = "kept" THEN [accepted EXCEPT ![s] = @ \cup {n}] ELSE accepted
    /\ pending' = IF o = "pending-audit" THEN [pending EXCEPT ![s] = @ \cup {n}] ELSE pending
    /\ frozen' = [frozen EXCEPT ![s] = @ \/ o \in {"kept", "pending-audit"}]
FinishAttempt ==
    /\ phase = "attempt"
    /\ \E o \in Results :
         /\ MayEnd(o) /\ (o = "cooled" => strikes >= 2)
         /\ entries' = [entries EXCEPT ![busy] = Append(@, o)]
         /\ reports' = [reports EXCEPT ![busy] = Append(@, o)]
         /\ cooled' = [cooled EXCEPT ![busy] = o = "cooled"]
         /\ RecordCommit(busy, o, AttemptCount(busy) + 1)
    /\ leftover' \in {leftover, leftover \cup {busy}}
    /\ \/ phase' = "surfaces" /\ fresh' = FALSE /\ total' = total + 1
       \/ phase' = "crashed" /\ UNCHANGED <<fresh, total>>
    /\ busy' = None
    /\ UNCHANGED <<wave, strikes, status, review, promotion>>

(* The attempt throws before its ledger entry is in the manifest, with or  *)
(* without a report.json on disk: the batch dies as "running".             *)
AttemptThrows ==
    /\ phase = "attempt"
    /\ phase' = "crashed" /\ busy' = None
    /\ leftover' \in {leftover, leftover \cup {busy}}
    /\ \/ UNCHANGED reports
       \/ \E o \in Results : reports' = [reports EXCEPT ![busy] = Append(@, o)]
    /\ UNCHANGED <<wave, fresh, total, strikes, manifest, review, promotion>>

(* The end of a wave: over when it made no attempt or the total is used.   *)
EndWaveLoops ==
    /\ phase = "surfaces" /\ (wave = {} \/ total = MaxTotalAttempts)
    /\ phase' = "wave"
    /\ UNCHANGED <<wave, busy, fresh, total, strikes, manifest, reports, leftover, review, promotion>>
EndWave ==
    /\ phase = "surfaces" /\ (wave = {} \/ total = MaxTotalAttempts)
    /\ IF fresh \/ total = MaxTotalAttempts
       THEN phase' = "done" /\ status' = "awaiting-promotion"
       ELSE phase' = "wave" /\ UNCHANGED status
    /\ UNCHANGED <<wave, busy, fresh, total, strikes, entries, frozen, cooled, pending, accepted,
                   reports, leftover, review, promotion>>
-----------------------------------------------------------------------------
(* resolveDeferredAudit: pick a pending attempt from an unlocked read,     *)
(* rewrite its report, then update the manifest under the lock.            *)
PickPending(r) ==
    /\ review[r].pc = "idle"
    /\ \E s \in Surfaces, v \in {"accept", "reject"} : \E n \in pending[s] :
         review' = [review EXCEPT ![r] = [pc |-> "report", surface |-> s, attempt |-> n, verdict |-> v]]
    /\ UNCHANGED <<loop, manifest, reports, leftover, promotion>>

(* A rejected attempt is discarded as audit-reject, one of the reasons     *)
(* that shouldCoolSurfaceDown counts as no benefit.                        *)
Resolution(v) == IF v = "accept" THEN "kept" ELSE "no-benefit"
RewriteReport(r) ==
    /\ review[r].pc = "report"
    /\ reports' = [reports EXCEPT ![review[r].surface][review[r].attempt] = Resolution(review[r].verdict)]
    /\ review' = [review EXCEPT ![r].pc = "update"]
    /\ UNCHANGED <<loop, manifest, leftover, promotion>>

Accepts(v)    == v = "accept"
UpdateManifest(r) ==
    LET s == review[r].surface
        n == review[r].attempt
        v == review[r].verdict
    IN /\ review[r].pc = "update"
       /\ pending' = [pending EXCEPT ![s] = @ \ {n}]
       /\ accepted' = IF Accepts(v) THEN [accepted EXCEPT ![s] = @ \cup {n}] ELSE accepted
       /\ frozen' = [frozen EXCEPT ![s] = pending'[s] # {} \/ accepted'[s] # {}]
       /\ entries' = [entries EXCEPT ![s][n] = Resolution(v)]
       /\ review' = [review EXCEPT ![r] = Idle]
       /\ UNCHANGED <<loop, status, cooled, reports, leftover, promotion>>
-----------------------------------------------------------------------------
(* promoteOvernightBatch: read the accepted commits once, reset the        *)
(* integration branch, cherry-pick until one conflicts, validate, and      *)
(* write the result.                                                       *)
StartPromotion ==
    /\ promotion.pc = "idle"
    /\ promotion' = [promotion EXCEPT
         !.pc = "pick", !.picked = {},
         !.left = {a \in Attempts : a[2] \in accepted[a[1]]}]
    /\ UNCHANGED <<loop, manifest, reports, leftover, review>>

CherryPick ==
    /\ promotion.pc = "pick"
    /\ \E a \in promotion.left :
         promotion' = [promotion EXCEPT !.left = @ \ {a}, !.picked = @ \cup {a}]
    /\ UNCHANGED <<loop, manifest, reports, leftover, review>>

FinishPromotion ==
    /\ promotion.pc = "pick"
    /\ \/ promotion.left # {} /\ promotion' = [promotion EXCEPT !.pc = "idle", !.status = "blocked"]
       \/ /\ promotion.left = {}
          /\ \E verdict \in {"ready", "validated"} :
               promotion' = [promotion EXCEPT !.pc = "idle", !.status = verdict]
    /\ UNCHANGED <<loop, manifest, reports, leftover, review>>

(* cleanupOvernightBatch removes what worktrees it finds, at any time.     *)
Cleanup ==
    /\ leftover # {} /\ leftover' = {}
    /\ UNCHANGED <<loop, manifest, reports, review, promotion>>

Loop == StartWave \/ NextSurface \/ FinishAttempt \/ AttemptThrows \/ EndWave

BatchNext ==
    \/ Loop
    \/ \E r \in Reviewers : PickPending(r) \/ RewriteReport(r) \/ UpdateManifest(r)
    \/ StartPromotion \/ CherryPick \/ FinishPromotion \/ Cleanup

BatchSpec == BatchInit /\ [][BatchNext]_batchVars

(* The loop is one process that runs whenever it can; nothing else has to. *)
FairBatchSpec == BatchSpec /\ WF_batchVars(Loop)
-----------------------------------------------------------------------------
(* The commits of a surface are what its ledger says: one waits for its    *)
(* audit, or is accepted, exactly as long as the entry of its attempt is   *)
(* "pending-audit", or "kept".  So no commit falls out of the reviewers'   *)
(* sight, none is reviewed for ever, and promotion takes what was kept.    *)
LedgerTellsCommits ==
    \A s \in Surfaces, n \in 1..AttemptLimit :
      /\ n \in pending[s]  <=> n <= Len(entries[s]) /\ entries[s][n] = "pending-audit"
      /\ n \in accepted[s] <=> n <= Len(entries[s]) /\ entries[s][n] = "kept"

(* A surface is closed to new attempts exactly while it has a commit that  *)
(* is accepted or may still be.                                            *)
FrozenWhileCommitted ==
    \A s \in Surfaces : frozen[s] <=> pending[s] \cup accepted[s] # {}

(* Every surface hands at most one commit to promotion, so two commits     *)
(* made from the same base for the same surface never meet there.          *)
OneCommitPerSurface ==
    \A s \in Surfaces : \A n, m \in pending[s] \cup accepted[s] : n = m

(* "Promote kept overnight commits into one integration branch" (the       *)
(* description of the promote_batch tool): nothing else is picked.  So for *)
(* one reviewer; not so for two, who both pick a pending commit from an    *)
(* unlocked read: the second turns down what the first has accepted and a  *)
(* promotion has taken.                                                    *)
PromotedWereKept ==
    \A a \in promotion.picked : entries[a[1]][a[2]] = "kept"

(* When no review is under way, the reports of the attempts in the ledger  *)
(* tell the same story as the ledger.                                      *)
ReportsSettled ==
    (\A r \in Reviewers : review[r].pc = "idle")
      => \A s \in Surfaces, n \in 1..AttemptLimit :
           n <= Len(entries[s]) => reports[s][n] = entries[s][n]

(* The batch stops of its own accord only when nothing is left to try.     *)
NothingLeftToTry ==
    [][phase' = "done" /\ phase # "done" => total = MaxTotalAttempts \/ \A s \in Surfaces : ~Runnable(s)]_batchVars

(* Once its waves have begun the loop comes to an end, whatever reviewers  *)
(* and promoters do.                                                       *)
BatchEnds == phase = "surfaces" ~> phase \in {"done", "crashed"}
=============================================================================
