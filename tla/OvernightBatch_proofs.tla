------------------------ MODULE OvernightBatch_proofs ------------------------
(***************************************************************************)
(* Theorems about OvernightBatch for any surfaces and any limits.  A       *)
(* surface is frozen exactly while it has a commit, however many reviewers *)
(* there are.  That it never has two, and that the ledger tells which it   *)
(* has, needs that reviews do not overlap: SoleReviewer.  The code takes   *)
(* no lock to ensure it; with two reviewers TLC refutes both.              *)
(***************************************************************************)
EXTENDS OvernightBatch, SequenceTheorems, TLAPS

(* The types the proofs need, one variable at a time.                      *)
ManifestOK ==
    /\ entries \in [Surfaces -> Seq(Results)]
    /\ frozen \in [Surfaces -> BOOLEAN]
    /\ pending \in [Surfaces -> SUBSET Nat]
    /\ accepted \in [Surfaces -> SUBSET Nat]
LoopOK   == wave \subseteq Surfaces /\ (phase = "attempt" => busy \in Surfaces)
ReviewOK == review \in [Reviewers -> [pc : {"idle", "report", "update"},
                                      surface : Surfaces \cup {None},
                                      attempt : Nat,
                                      verdict : {"none", "accept", "reject"}]]
UnderReview ==
    \A r \in Reviewers : review[r].pc # "idle" => review[r].surface \in Surfaces

SoleReviewer == \A q, r \in Reviewers : q = r

(* What an attempt's end does to the four fields of the manifest.          *)
Finished(s, o) ==
    /\ entries' = [entries EXCEPT ![s] = Append(@, o)]
    /\ accepted' = IF o = "kept" THEN [accepted EXCEPT ![s] = @ \cup {Len(entries[s]) + 1}] ELSE accepted
    /\ pending' = IF o = "pending-audit" THEN [pending EXCEPT ![s] = @ \cup {Len(entries[s]) + 1}] ELSE pending
    /\ frozen' = [frozen EXCEPT ![s] = @ \/ o \in {"kept", "pending-audit"}]

(* What a review's end does to them.                                       *)
Resolved(s, n, v) ==
    /\ entries' = [entries EXCEPT ![s][n] = Resolution(v)]
    /\ pending' = [pending EXCEPT ![s] = @ \ {n}]
    /\ accepted' = IF v = "accept" THEN [accepted EXCEPT ![s] = @ \cup {n}] ELSE accepted
    /\ frozen' = [frozen EXCEPT ![s] = pending'[s] # {} \/ accepted'[s] # {}]

Commits == <<entries, frozen, pending, accepted>>

(* Only the end of an attempt and the end of a review touch the commits.   *)
LEMMA StepOnCommits ==
  ASSUME [BatchNext]_batchVars
  PROVE  \/ UNCHANGED Commits
         \/ /\ phase = "attempt" /\ phase' # "attempt" /\ UNCHANGED <<review, promotion>>
            /\ \E o \in Results : Finished(busy, o)
         \/ \E r \in Reviewers :
              /\ review[r].pc = "update" /\ UNCHANGED <<phase, busy, promotion>>
              /\ review' = [review EXCEPT ![r] = Idle]
              /\ Resolved(review[r].surface, review[r].attempt, review[r].verdict)
  <1>1. CASE FinishAttempt
    <2>1. \E o \in Results : Finished(busy, o)
      BY <1>1 DEF FinishAttempt, RecordCommit, AttemptCount, Finished
    <2>. QED
      BY <1>1, <2>1 DEF FinishAttempt
  <1>2. ASSUME NEW r \in Reviewers, UpdateManifest(r)
        PROVE  /\ review[r].pc = "update" /\ UNCHANGED <<phase, busy, promotion>>
               /\ review' = [review EXCEPT ![r] = Idle]
               /\ Resolved(review[r].surface, review[r].attempt, review[r].verdict)
    BY <1>2 DEF UpdateManifest, Resolved, Accepts, loop
  <1>3. CASE StartWave \/ NextSurface \/ AttemptThrows \/ EndWave
    BY <1>3 DEF StartWave, NextSurface, TakeSurface, AttemptThrows, EndWave, Commits, manifest
  <1>4. CASE \E r \in Reviewers : PickPending(r) \/ RewriteReport(r)
    BY <1>4 DEF PickPending, RewriteReport, Commits, manifest
  <1>5. CASE StartPromotion \/ CherryPick \/ FinishPromotion \/ Cleanup
    BY <1>5 DEF StartPromotion, CherryPick, FinishPromotion, Cleanup, Commits, manifest
  <1>6. CASE UNCHANGED batchVars
    BY <1>6 DEF batchVars, Commits, manifest
  <1>. QED
    BY <1>1, <1>2, <1>3, <1>4, <1>5, <1>6 DEF BatchNext, Loop

(* A surface is attempted only if it was not frozen when it was taken.     *)
LEMMA StepOnBusy ==
  ASSUME LoopOK, [BatchNext]_batchVars, phase' = "attempt"
  PROVE  \/ phase = "attempt" /\ busy' = busy
         \/ busy' \in Surfaces /\ ~frozen[busy'] /\ UNCHANGED <<Commits, review>>
  <1>1. CASE StartWave \/ FinishAttempt \/ AttemptThrows \/ EndWave
    BY <1>1 DEF StartWave, FinishAttempt, AttemptThrows, EndWave
  <1>2. CASE NextSurface
    BY <1>2 DEF NextSurface, TakeSurface, Runnable, manifest, Commits, LoopOK
  <1>3. ASSUME NEW r \in Reviewers, PickPending(r) \/ RewriteReport(r) \/ UpdateManifest(r)
        PROVE  phase = "attempt" /\ busy' = busy
    BY <1>3 DEF PickPending, RewriteReport, UpdateManifest, loop
  <1>4. CASE StartPromotion \/ CherryPick \/ FinishPromotion \/ Cleanup \/ UNCHANGED batchVars
    BY <1>4 DEF StartPromotion, CherryPick, FinishPromotion, Cleanup, loop, batchVars
  <1>. QED
    BY <1>1, <1>2, <1>3, <1>4 DEF BatchNext, Loop

(* A review starts with a pending commit and keeps to it until it ends.    *)
LEMMA StepOnReview ==
  ASSUME ManifestOK, ReviewOK, [BatchNext]_batchVars, NEW r \in Reviewers, review'[r].pc # "idle"
  PROVE  \/ /\ review'[r].surface \in Surfaces /\ review'[r].attempt \in Nat
            /\ review'[r].attempt \in pending[review'[r].surface] /\ UNCHANGED Commits
         \/ /\ review[r].pc # "idle"
            /\ review'[r].surface = review[r].surface /\ review'[r].attempt = review[r].attempt
  <1>1. CASE StartWave \/ NextSurface \/ FinishAttempt \/ AttemptThrows \/ EndWave
    BY <1>1 DEF StartWave, NextSurface, TakeSurface, FinishAttempt, AttemptThrows, EndWave
  <1>2. ASSUME NEW q \in Reviewers, PickPending(q)
        PROVE  \/ /\ review'[r].surface \in Surfaces /\ review'[r].attempt \in Nat
                  /\ review'[r].attempt \in pending[review'[r].surface] /\ UNCHANGED Commits
               \/ review'[r] = review[r]
    <2>1. CASE q = r
      <3>1. PICK s \in Surfaces, v \in {"accept", "reject"} : \E n \in pending[s] :
              review' = [review EXCEPT ![q] = [pc |-> "report", surface |-> s, attempt |-> n, verdict |-> v]]
        BY <1>2 DEF PickPending
      <3>. PICK n \in pending[s] :
              review' = [review EXCEPT ![q] = [pc |-> "report", surface |-> s, attempt |-> n, verdict |-> v]]
        BY <3>1
      <3>2. review'[r].surface = s /\ review'[r].attempt = n
        BY <2>1 DEF ReviewOK
      <3>3. n \in Nat
        BY DEF ManifestOK
      <3>. QED
        BY <1>2, <3>2, <3>3 DEF PickPending, manifest, Commits
    <2>2. CASE q # r
      BY <1>2, <2>2 DEF PickPending, ReviewOK
    <2>. QED
      BY <2>1, <2>2
  <1>3. ASSUME NEW q \in Reviewers, RewriteReport(q)
        PROVE  /\ review[r].pc # "idle"
               /\ review'[r].surface = review[r].surface /\ review'[r].attempt = review[r].attempt
    <2>1. review'[r] = IF q = r THEN [review[r] EXCEPT !.pc = "update"] ELSE review[r]
      BY <1>3 DEF RewriteReport, ReviewOK
    <2>. QED
      BY <1>3, <2>1 DEF RewriteReport, ReviewOK
  <1>4. ASSUME NEW q \in Reviewers, UpdateManifest(q) PROVE review'[r] = review[r]
    <2>1. review' = [review EXCEPT ![q] = Idle]
      BY <1>4 DEF UpdateManifest
    <2>2. q # r
      BY <2>1 DEF ReviewOK, Idle
    <2>. QED
      BY <2>1, <2>2 DEF ReviewOK
  <1>5. CASE StartPromotion \/ CherryPick \/ FinishPromotion \/ Cleanup \/ UNCHANGED batchVars
    BY <1>5 DEF StartPromotion, CherryPick, FinishPromotion, Cleanup, batchVars
  <1>. QED
    BY <1>1, <1>2, <1>3, <1>4, <1>5 DEF BatchNext, Loop
-----------------------------------------------------------------------------
Types == ManifestOK /\ LoopOK /\ ReviewOK /\ UnderReview

(* The end of an attempt and the end of a review keep the manifest typed.  *)
LEMMA FinishedType ==
  ASSUME ManifestOK, NEW s \in Surfaces, NEW o \in Results, Finished(s, o)
  PROVE  ManifestOK'
  <1>1. entries' \in [Surfaces -> Seq(Results)]
    BY DEF Finished, ManifestOK
  <1>2. Len(entries[s]) + 1 \in Nat
    BY DEF ManifestOK
  <1>3. pending' \in [Surfaces -> SUBSET Nat] /\ accepted' \in [Surfaces -> SUBSET Nat]
    BY <1>2 DEF Finished, ManifestOK
  <1>4. frozen' \in [Surfaces -> BOOLEAN]
    BY DEF Finished, ManifestOK
  <1>. QED
    BY <1>1, <1>3, <1>4 DEF ManifestOK

\* Resolving a commit keeps the types of the manifest.
LEMMA ResolvedType ==
  ASSUME ManifestOK, NEW s \in Surfaces, NEW n \in Nat, NEW v, Resolved(s, n, v)
  PROVE  ManifestOK'
  <1>1. entries' \in [Surfaces -> Seq(Results)]
    <2>1. Resolution(v) \in Results
      BY DEF Resolution, Results
    <2>2. [entries[s] EXCEPT ![n] = Resolution(v)] \in Seq(Results)
      <3>1. entries[s] \in [1..Len(entries[s]) -> Results] /\ Len(entries[s]) \in Nat
        BY LenProperties DEF ManifestOK
      <3>2. [entries[s] EXCEPT ![n] = Resolution(v)] \in [1..Len(entries[s]) -> Results]
        BY <2>1, <3>1
      <3>. QED
        BY <3>1, <3>2, SeqDef
    <2>. QED
      BY <2>2 DEF Resolved, ManifestOK
  <1>2. pending' \in [Surfaces -> SUBSET Nat] /\ accepted' \in [Surfaces -> SUBSET Nat]
    BY DEF Resolved, ManifestOK
  <1>3. frozen' \in [Surfaces -> BOOLEAN]
    BY DEF Resolved, ManifestOK
  <1>. QED
    BY <1>1, <1>2, <1>3 DEF ManifestOK

(* The types hold from the start, and every step keeps them.               *)
LEMMA InitTypes == BatchInit => Types
  <1> SUFFICES ASSUME BatchInit PROVE Types
    OBVIOUS
  <1>1. ManifestOK
    BY DEF BatchInit, ManifestOK
  <1>2. LoopOK
    BY DEF BatchInit, LoopOK
  <1>3. ReviewOK /\ UnderReview
    BY DEF BatchInit, Idle, ReviewOK, UnderReview
  <1>. QED
    BY <1>1, <1>2, <1>3 DEF Types

\* Every step keeps the types.
LEMMA TypesStep == Types /\ [BatchNext]_batchVars => Types'
  <1> SUFFICES ASSUME Types, [BatchNext]_batchVars PROVE Types'
    OBVIOUS
  <1>t. ManifestOK /\ LoopOK /\ ReviewOK /\ UnderReview
    BY DEF Types
  <1>1. ManifestOK'
    <2>1. CASE UNCHANGED Commits
      BY <1>t, <2>1 DEF Commits, ManifestOK
    <2>2. CASE phase = "attempt" /\ \E o \in Results : Finished(busy, o)
      BY <1>t, <2>2, FinishedType DEF LoopOK
    <2>3. ASSUME NEW r \in Reviewers, review[r].pc = "update",
                 Resolved(review[r].surface, review[r].attempt, review[r].verdict)
          PROVE  ManifestOK'
      <3>1. review[r].surface \in Surfaces /\ review[r].attempt \in Nat
        BY <1>t, <2>3 DEF ReviewOK, UnderReview
      <3>. QED
        BY <1>t, <2>3, <3>1, ResolvedType
    <2>. QED
      BY <2>1, <2>2, <2>3, StepOnCommits
  <1>2. LoopOK'
    <2>1. phase' = "attempt" => busy' \in Surfaces
      BY <1>t, StepOnBusy DEF LoopOK
    <2>2. wave' \subseteq Surfaces
      <3>1. CASE StartWave
        BY <1>t, <3>1 DEF StartWave, LoopOK
      <3>2. CASE NextSurface
        BY <1>t, <3>2 DEF NextSurface, TakeSurface, LoopOK
      <3>3. CASE FinishAttempt \/ AttemptThrows \/ EndWave \/ StartPromotion \/ CherryPick
                 \/ FinishPromotion \/ Cleanup \/ UNCHANGED batchVars
        BY <1>t, <3>3 DEF FinishAttempt, AttemptThrows, EndWave, StartPromotion, CherryPick,
                          FinishPromotion, Cleanup, loop, batchVars, LoopOK
      <3>4. ASSUME NEW r \in Reviewers, PickPending(r) \/ RewriteReport(r) \/ UpdateManifest(r)
            PROVE  wave' = wave
        BY <3>4 DEF PickPending, RewriteReport, UpdateManifest, loop
      <3>. QED
        BY <1>t, <3>1, <3>2, <3>3, <3>4 DEF BatchNext, Loop, LoopOK
    <2>. QED
      BY <2>1, <2>2 DEF LoopOK
  <1>3. ReviewOK'
    <2>1. ASSUME NEW r \in Reviewers, PickPending(r) PROVE ReviewOK'
      <3>1. PICK s \in Surfaces, v \in {"accept", "reject"} : \E n \in pending[s] :
              review' = [review EXCEPT ![r] = [pc |-> "report", surface |-> s, attempt |-> n, verdict |-> v]]
        BY <2>1 DEF PickPending
      <3>2. pending[s] \subseteq Nat
        BY <1>t DEF ManifestOK
      <3>. QED
        BY <1>t, <3>1, <3>2 DEF ReviewOK
    <2>2. ASSUME NEW r \in Reviewers, RewriteReport(r) PROVE ReviewOK'
      BY <1>t, <2>2 DEF RewriteReport, ReviewOK
    <2>3. ASSUME NEW r \in Reviewers, UpdateManifest(r) PROVE ReviewOK'
      <3>1. review' = [review EXCEPT ![r] = Idle]
        BY <2>3 DEF UpdateManifest
      <3>. QED
        BY <1>t, <3>1 DEF ReviewOK, Idle
    <2>4. CASE Loop \/ StartPromotion \/ CherryPick \/ FinishPromotion \/ Cleanup \/ UNCHANGED batchVars
      <3>1. review' = review
        BY <2>4 DEF Loop, StartWave, NextSurface, TakeSurface, FinishAttempt, AttemptThrows, EndWave,
                    StartPromotion, CherryPick, FinishPromotion, Cleanup, batchVars
      <3>. QED
        BY <1>t, <3>1 DEF ReviewOK
    <2>. QED
      BY <2>1, <2>2, <2>3, <2>4 DEF BatchNext
  <1>4. UnderReview'
    BY <1>t, StepOnReview DEF UnderReview
  <1>. QED
    BY <1>1, <1>2, <1>3, <1>4 DEF Types
-----------------------------------------------------------------------------
(* Both ends leave a surface frozen exactly if it has a commit.            *)
LEMMA FreezeStep == Types /\ FrozenWhileCommitted /\ [BatchNext]_batchVars => FrozenWhileCommitted'
  <1> SUFFICES ASSUME Types, FrozenWhileCommitted, [BatchNext]_batchVars, NEW s \in Surfaces
               PROVE  frozen'[s] <=> pending'[s] \cup accepted'[s] # {}
    BY DEF FrozenWhileCommitted
  <1>t. ManifestOK /\ (frozen[s] <=> pending[s] \cup accepted[s] # {})
    BY DEF Types, FrozenWhileCommitted
  <1>1. CASE UNCHANGED Commits
    BY <1>t, <1>1 DEF Commits
  <1>2. ASSUME NEW o \in Results, Finished(busy, o)
        PROVE  frozen'[s] <=> pending'[s] \cup accepted'[s] # {}
    BY <1>t, <1>2 DEF Finished, ManifestOK
  <1>3. ASSUME NEW r \in Reviewers,
               Resolved(review[r].surface, review[r].attempt, review[r].verdict)
        PROVE  frozen'[s] <=> pending'[s] \cup accepted'[s] # {}
    BY <1>t, <1>3 DEF Resolved, ManifestOK
  <1>. QED
    BY <1>1, <1>2, <1>3, StepOnCommits

(* A surface is closed to new attempts exactly while it has a commit that  *)
(* is accepted or may still be, with any number of reviewers.              *)
THEOREM FreezesWhileCommitted == BatchSpec => []FrozenWhileCommitted
  <1>1. BatchInit => Types /\ FrozenWhileCommitted
    BY InitTypes DEF BatchInit, FrozenWhileCommitted
  <1>. QED
    BY <1>1, TypesStep, FreezeStep, PTL DEF BatchSpec
-----------------------------------------------------------------------------
(* What non-overlapping reviews keep: the ledger tells the commits, there  *)
(* is one at most per surface, the surface being attempted has none, and   *)
(* what is under review is still pending.                                  *)
Told ==
    \A s \in Surfaces, n \in Nat :
      /\ n \in pending[s]  <=> n \in 1..Len(entries[s]) /\ entries[s][n] = "pending-audit"
      /\ n \in accepted[s] <=> n \in 1..Len(entries[s]) /\ entries[s][n] = "kept"
BusyOpen == phase = "attempt" => ~frozen[busy]
ReviewPending ==
    \A r \in Reviewers : review[r].pc # "idle" => review[r].attempt \in pending[review[r].surface]

CommitInv ==
    /\ Types /\ FrozenWhileCommitted
    /\ Told /\ OneCommitPerSurface /\ BusyOpen /\ ReviewPending

\* The invariant of the commits holds at the start.
LEMMA InitCommitInv == BatchInit => CommitInv
  <1> SUFFICES ASSUME BatchInit PROVE CommitInv
    OBVIOUS
  <1>1. Types
    BY InitTypes
  <1>2. FrozenWhileCommitted /\ Told /\ OneCommitPerSurface
    BY DEF BatchInit, FrozenWhileCommitted, Told, OneCommitPerSurface
  <1>3. BusyOpen /\ ReviewPending
    BY DEF BatchInit, BusyOpen, ReviewPending, Idle
  <1>. QED
    BY <1>1, <1>2, <1>3 DEF CommitInv

(* A step that leaves the commits alone may take a surface or start a      *)
(* review, from what the manifest says now.                                *)
LEMMA QuietStep ==
  ASSUME CommitInv, [BatchNext]_batchVars, UNCHANGED Commits
  PROVE  Told' /\ OneCommitPerSurface' /\ BusyOpen' /\ ReviewPending'
  <1>t. ManifestOK /\ LoopOK /\ ReviewOK
    BY DEF CommitInv, Types
  <1>1. Told' /\ OneCommitPerSurface'
    BY DEF Commits, CommitInv, Told, OneCommitPerSurface
  <1>2. BusyOpen'
    BY <1>t, StepOnBusy DEF Commits, CommitInv, BusyOpen
  <1>3. ReviewPending'
    BY <1>t, StepOnReview DEF Commits, CommitInv, ReviewPending
  <1>. QED
    BY <1>1, <1>2, <1>3

(* The attempt that ends is on a surface without a commit, so the commit   *)
(* it may bring is the only one there.                                     *)
LEMMA FinishStep ==
  ASSUME CommitInv, NEW o \in Results, Finished(busy, o),
         phase = "attempt", phase' # "attempt", UNCHANGED <<review, promotion>>
  PROVE  Told' /\ OneCommitPerSurface' /\ BusyOpen' /\ ReviewPending'
  <1>t. ManifestOK /\ busy \in Surfaces /\ UnderReview
    BY DEF CommitInv, Types, LoopOK
  <1>n. Len(entries[busy]) \in Nat
    BY <1>t DEF ManifestOK
  <1>e. pending[busy] = {} /\ accepted[busy] = {}
    BY <1>t DEF CommitInv, BusyOpen, FrozenWhileCommitted
  <1>g. \A s \in Surfaces : pending[s] \subseteq pending'[s] /\ accepted[s] \subseteq accepted'[s]
    BY <1>t DEF Finished, ManifestOK
  <1>1. ASSUME NEW s \in Surfaces, NEW n \in Nat
        PROVE  /\ n \in pending'[s]  <=> n \in 1..Len(entries'[s]) /\ entries'[s][n] = "pending-audit"
               /\ n \in accepted'[s] <=> n \in 1..Len(entries'[s]) /\ entries'[s][n] = "kept"
    <2>o. /\ n \in pending[s]  <=> n \in 1..Len(entries[s]) /\ entries[s][n] = "pending-audit"
          /\ n \in accepted[s] <=> n \in 1..Len(entries[s]) /\ entries[s][n] = "kept"
      BY DEF CommitInv, Told
    <2>1. CASE s # busy
      <3>1. entries'[s] = entries[s] /\ pending'[s] = pending[s] /\ accepted'[s] = accepted[s]
        BY <1>t, <2>1 DEF Finished, ManifestOK
      <3>. QED
        BY <2>o, <3>1
    <2>2. CASE s = busy
      <3>1. entries'[s] = Append(entries[s], o)
        BY <1>t, <2>2 DEF Finished, ManifestOK
      <3>2. entries[s] \in Seq(Results)
        BY <1>t DEF ManifestOK
      <3>3. /\ Len(entries'[s]) = Len(entries[s]) + 1 /\ entries'[s][Len(entries[s]) + 1] = o
            /\ \A k \in 1..Len(entries[s]) : entries'[s][k] = entries[s][k]
        BY <3>1, <3>2
      <3>4. /\ n \in pending'[s]  <=> n \in pending[s] \/ (o = "pending-audit" /\ n = Len(entries[s]) + 1)
            /\ n \in accepted'[s] <=> n \in accepted[s] \/ (o = "kept" /\ n = Len(entries[s]) + 1)
        BY <1>t, <2>2 DEF Finished, ManifestOK
      <3>. QED
        BY <1>n, <2>2, <2>o, <3>3, <3>4
    <2>. QED
      BY <2>1, <2>2
  <1>2. OneCommitPerSurface'
    BY <1>t, <1>e DEF Finished, ManifestOK, CommitInv, OneCommitPerSurface
  <1>3. BusyOpen'
    BY DEF BusyOpen
  <1>4. ReviewPending'
    BY <1>t, <1>g DEF CommitInv, ReviewPending, UnderReview
  <1>. QED
    BY <1>1, <1>2, <1>3, <1>4 DEF Told

(* The only review under way resolves a commit that is still pending, on a *)
(* surface that is frozen and so not the one being attempted.              *)
LEMMA ReviewStep ==
  ASSUME SoleReviewer, CommitInv, NEW r \in Reviewers, review[r].pc = "update",
         Resolved(review[r].surface, review[r].attempt, review[r].verdict),
         review' = [review EXCEPT ![r] = Idle], UNCHANGED <<phase, busy, promotion>>
  PROVE  Told' /\ OneCommitPerSurface' /\ BusyOpen' /\ ReviewPending'
  <1> DEFINE s == review[r].surface
             n == review[r].attempt
             v == review[r].verdict
  <1>t. ManifestOK /\ s \in Surfaces /\ n \in Nat /\ n \in pending[s]
    BY DEF CommitInv, Types, ReviewOK, UnderReview, ReviewPending
  <1>e. n \in 1..Len(entries[s]) /\ entries[s][n] = "pending-audit" /\ n \notin accepted[s]
    BY <1>t DEF CommitInv, Told
  <1>r. Resolved(s, n, v)
    OBVIOUS
  <1> HIDE DEF s, n, v
  <1>1. ASSUME NEW z \in Surfaces, NEW m \in Nat
        PROVE  /\ m \in pending'[z]  <=> m \in 1..Len(entries'[z]) /\ entries'[z][m] = "pending-audit"
               /\ m \in accepted'[z] <=> m \in 1..Len(entries'[z]) /\ entries'[z][m] = "kept"
    <2>o. /\ m \in pending[z]  <=> m \in 1..Len(entries[z]) /\ entries[z][m] = "pending-audit"
          /\ m \in accepted[z] <=> m \in 1..Len(entries[z]) /\ entries[z][m] = "kept"
      BY DEF CommitInv, Told
    <2>1. CASE z # s
      <3>1. entries'[z] = entries[z] /\ pending'[z] = pending[z] /\ accepted'[z] = accepted[z]
        BY <1>t, <1>r, <2>1 DEF Resolved, ManifestOK
      <3>. QED
        BY <2>o, <3>1
    <2>2. CASE z = s
      <3>1. entries'[z] = [entries[z] EXCEPT ![n] = Resolution(v)] /\ entries[z] \in Seq(Results)
        BY <1>t, <1>r, <2>2 DEF Resolved, ManifestOK
      <3>2. Resolution(v) \in Results /\ Resolution(v) # "pending-audit"
            /\ (Resolution(v) = "kept" <=> v = "accept")
        BY DEF Resolution, Results
      <3>3. /\ Len(entries'[z]) = Len(entries[z])
            /\ \A k \in 1..Len(entries[z]) :
                 entries'[z][k] = IF k = n THEN Resolution(v) ELSE entries[z][k]
        BY <1>e, <2>2, <3>1, <3>2, ExceptSeq
      <3>4. /\ m \in pending'[z] <=> m \in pending[z] /\ m # n
            /\ m \in accepted'[z] <=> m \in accepted[z] \/ (v = "accept" /\ m = n)
        BY <1>t, <1>r, <2>2 DEF Resolved, ManifestOK
      <3>. QED
        BY <1>e, <2>2, <2>o, <3>2, <3>3, <3>4
    <2>. QED
      BY <2>1, <2>2
  <1>2. OneCommitPerSurface'
    <2>1. \A z \in Surfaces : pending'[z] \cup accepted'[z] \subseteq pending[z] \cup accepted[z]
      BY <1>t, <1>r DEF Resolved, ManifestOK
    <2>. QED
      BY <2>1 DEF CommitInv, OneCommitPerSurface
  <1>3. BusyOpen'
    <2> SUFFICES ASSUME phase = "attempt" PROVE ~frozen'[busy]
      BY DEF BusyOpen
    <2>1. ~frozen[busy] /\ busy \in Surfaces
      BY DEF CommitInv, BusyOpen, Types, LoopOK
    <2>2. busy # s
      BY <1>t, <2>1 DEF CommitInv, FrozenWhileCommitted
    <2>. QED
      BY <1>t, <1>r, <2>1, <2>2 DEF Resolved, ManifestOK
  <1>4. ReviewPending'
    <2>1. \A q \in Reviewers : q = r /\ review'[q] = Idle
      BY DEF SoleReviewer, CommitInv, Types, ReviewOK
    <2>. QED
      BY <2>1 DEF ReviewPending, Idle
  <1>. QED
    BY <1>1, <1>2, <1>3, <1>4 DEF Told

(* The commit invariant is inductive when reviews do not overlap.          *)
LEMMA CommitInvHolds == ASSUME SoleReviewer PROVE BatchSpec => []CommitInv
  <1>1. CommitInv /\ [BatchNext]_batchVars => CommitInv'
    <2> SUFFICES ASSUME CommitInv, [BatchNext]_batchVars PROVE CommitInv'
      OBVIOUS
    <2>1. Types' /\ FrozenWhileCommitted'
      BY TypesStep, FreezeStep DEF CommitInv
    <2>2. Told' /\ OneCommitPerSurface' /\ BusyOpen' /\ ReviewPending'
      BY StepOnCommits, QuietStep, FinishStep, ReviewStep
    <2>. QED
      BY <2>1, <2>2 DEF CommitInv
  <1>. QED
    BY <1>1, InitCommitInv, PTL DEF BatchSpec

(* With one reviewer at a time, a surface never has two commits that       *)
(* promotion could pick.                                                   *)
THEOREM OneCommit == ASSUME SoleReviewer PROVE BatchSpec => []OneCommitPerSurface
  <1>1. CommitInv => OneCommitPerSurface
    BY DEF CommitInv
  <1>. QED
    BY <1>1, CommitInvHolds, PTL

(* With one reviewer at a time, ledger and commits never disagree.         *)
THEOREM LedgerIsTrue == ASSUME SoleReviewer PROVE BatchSpec => []LedgerTellsCommits
  <1>1. CommitInv => LedgerTellsCommits
    <2> SUFFICES ASSUME CommitInv, NEW s \in Surfaces, NEW n \in 1..AttemptLimit
                 PROVE  /\ n \in pending[s]  <=> n <= Len(entries[s]) /\ entries[s][n] = "pending-audit"
                        /\ n \in accepted[s] <=> n <= Len(entries[s]) /\ entries[s][n] = "kept"
      BY DEF LedgerTellsCommits
    <2>1. n \in Nat /\ n >= 1 /\ Len(entries[s]) \in Nat
      BY LimitsAssumption DEF LimitsAssumption, CommitInv, Types, ManifestOK
    <2>2. n \in 1..Len(entries[s]) <=> n <= Len(entries[s])
      BY <2>1
    <2>. QED
      BY <2>1, <2>2 DEF CommitInv, Told
  <1>. QED
    BY <1>1, CommitInvHolds, PTL
=============================================================================
