---------------------------- MODULE TargetNovelty ----------------------------
(***************************************************************************)
(* How parallel batches keep off each other's targets: the planner gate    *)
(* reads the ledgers of all batches (overnight_engine_cooldown.cjs), the   *)
(* target is reserved after the gate, and the attempt gives the            *)
(* reservation back before it adds its own ledger entry                    *)
(* (overnight_engine.cjs).  All batches work on one objective and one      *)
(* surface.  The reservation itself is an ideal lock here: at most one     *)
(* live holder, taken over when its holder has died; TargetLock models how *)
(* it is made of directories.                                              *)
(***************************************************************************)
EXTENDS Integers, Sequences, FiniteSets

CONSTANTS
    Batches,       \* orchestrators, one batch each, numbered in the order of
                   \* the names of their directories
    Targets,       \* source targets a planner may pick
    StagedBatches, \* batches in staged mode; the others are planner-only
    BatchAttempts, \* attempts of each batch
    MaxSiblings,   \* sibling directories read, the last by name (200 in the code)
    SiblingCap,    \* ledger entries read from each sibling (500 in the code)
    MayCrash,      \* can an orchestrator die?
    NoTarget       \* null

ASSUME ModeAssumption   == StagedBatches \subseteq Batches
ASSUME BatchAssumption  == Batches \subseteq Nat /\ IsFiniteSet(Batches)
ASSUME LimitAssumption  == BatchAttempts \in Nat /\ SiblingCap \in Nat /\ MaxSiblings \in Nat
ASSUME NullAssumption   == NoTarget \notin Targets /\ NoTarget \notin Batches
ASSUME CrashAssumption  == MayCrash \in BOOLEAN

VARIABLES
    batchPc,       \* where each batch's current attempt is
    plan,     \* report.plan.sourceTarget of that attempt
    known,    \* report.sourceTarget: what its ledger entry will name
    ledger,   \* manifest.ledger of each batch, as the targets its entries name
    holder,   \* who reserved each target
    worked    \* history: the targets each batch has reserved and worked on

noveltyVars == <<batchPc, plan, known, ledger, holder, worked>>

(* Every variable stays in its range.                                      *)
NoveltyTypeOK ==
    /\ batchPc \in [Batches -> {"new", "plan", "gate", "reserve", "work", "release", "publish", "dead"}]
    /\ plan \in [Batches -> Targets \cup {NoTarget}]
    /\ known \in [Batches -> Targets \cup {NoTarget}]
    /\ ledger \in [Batches -> Seq(Targets \cup {NoTarget})]
    /\ holder \in [Targets -> Batches \cup {NoTarget}]
    /\ worked \in [Batches -> SUBSET Targets]

NoveltyInit ==
    /\ batchPc = [b \in Batches |-> "new"]
    /\ plan = [b \in Batches |-> NoTarget]
    /\ known = [b \in Batches |-> NoTarget]
    /\ ledger = [b \in Batches |-> <<>>]
    /\ holder = [t \in Targets |-> NoTarget]
    /\ worked = [b \in Batches |-> {}]

(* mergedLedgerForNovelty: the whole ledger of the batch itself and a      *)
(* capped prefix of the siblings', as they are on disk now; of the         *)
(* siblings, loadSiblingLedgerEntries reads the last MaxSiblings by name.  *)
Listed == {b \in Batches : batchPc[b] # "new"}
Siblings(b) == {c \in Listed \ {b} : Cardinality({d \in Listed \ {b} : d > c}) < MaxSiblings}

Named(s, n) == {s[i] : i \in {j \in 1..Len(s) : j <= n}}
Explored(b) == Named(ledger[b], Len(ledger[b]))
                 \cup UNION {Named(ledger[c], SiblingCap) : c \in Siblings(b)}
-----------------------------------------------------------------------------
(* The directory of the batch is made, with an empty ledger in it.         *)
OpenBatch(b) ==
    /\ batchPc[b] = "new"
    /\ batchPc' = [batchPc EXCEPT ![b] = "plan"]
    /\ UNCHANGED <<plan, known, ledger, holder, worked>>

(* The planner answers: the prompt lists explored targets as a hint only.  *)
PlanTarget(b) ==
    /\ batchPc[b] = "plan" /\ Len(ledger[b]) < BatchAttempts
    /\ \E t \in Targets : plan' = [plan EXCEPT ![b] = t]
    /\ known' = [known EXCEPT ![b] = NoTarget]
    /\ batchPc' = [batchPc EXCEPT ![b] = "gate"]
    /\ UNCHANGED <<ledger, holder, worked>>

(* gatePlannerDecision: a target some ledger names is a duplicate-target.  *)
(* The staged executor records the target right after the gate.            *)
GateOwnLedgerOnly(b) ==
    /\ batchPc[b] = "gate"
    /\ batchPc' = [batchPc EXCEPT ![b] = IF plan[b] \in Named(ledger[b], Len(ledger[b])) THEN "publish" ELSE "reserve"]
    /\ UNCHANGED <<plan, known, ledger, holder, worked>>
PassGate(b) ==
    /\ batchPc[b] = "gate"
    /\ IF plan[b] \in Explored(b)
       THEN batchPc' = [batchPc EXCEPT ![b] = "publish"] /\ UNCHANGED known
       ELSE /\ batchPc' = [batchPc EXCEPT ![b] = "reserve"]
            /\ known' = IF b \in StagedBatches THEN [known EXCEPT ![b] = plan[b]] ELSE known
    /\ UNCHANGED <<plan, ledger, holder, worked>>

(* acquireTargetLock: refused while a live batch holds the target; the     *)
(* planner-only executor records the target once it has it.                *)
Available(t) == holder[t] \in Batches => batchPc[holder[t]] = "dead"
Reserve(b) ==
    /\ batchPc[b] = "reserve" /\ Available(plan[b])
    /\ holder' = [holder EXCEPT ![plan[b]] = b]
    /\ known' = [known EXCEPT ![b] = plan[b]]
    /\ worked' = [worked EXCEPT ![b] = @ \cup {plan[b]}]
    /\ batchPc' = [batchPc EXCEPT ![b] = "work"]
    /\ UNCHANGED <<plan, ledger>>
Refused(b) ==
    /\ batchPc[b] = "reserve" /\ ~Available(plan[b])
    /\ batchPc' = [batchPc EXCEPT ![b] = "publish"]
    /\ UNCHANGED <<plan, known, ledger, holder, worked>>

Work(b) ==
    /\ batchPc[b] = "work"
    /\ batchPc' = [batchPc EXCEPT ![b] = "release"]
    /\ UNCHANGED <<plan, known, ledger, holder, worked>>

(* The finally blocks: releaseTargetLock first, the ledger entry after it. *)
ReleaseTarget(b) ==
    /\ batchPc[b] = "release"
    /\ holder' = [holder EXCEPT ![plan[b]] = IF @ = b THEN NoTarget ELSE @]
    /\ batchPc' = [batchPc EXCEPT ![b] = "publish"]
    /\ UNCHANGED <<plan, known, ledger, worked>>
PublishEntry(b) ==
    /\ batchPc[b] = "publish"
    /\ ledger' = [ledger EXCEPT ![b] = Append(@, known[b])]
    /\ batchPc' = [batchPc EXCEPT ![b] = "plan"]
    /\ UNCHANGED <<plan, known, holder, worked>>

BatchCrash(b) ==
    /\ MayCrash /\ batchPc[b] \notin {"new", "dead"}
    /\ batchPc' = [batchPc EXCEPT ![b] = "dead"]
    /\ UNCHANGED <<plan, known, ledger, holder, worked>>

NoveltyNext == \E b \in Batches :
    \/ OpenBatch(b) \/ PlanTarget(b) \/ PassGate(b) \/ Reserve(b) \/ Refused(b) \/ Work(b)
    \/ ReleaseTarget(b) \/ PublishEntry(b) \/ BatchCrash(b)

NoveltySpec == NoveltyInit /\ [][NoveltyNext]_noveltyVars
-----------------------------------------------------------------------------
(* A batch never works twice on a target, not even on one it lost to       *)
(* another batch in between: its own entry is on disk before it plans      *)
(* again.                                                                  *)
NoRepeatWithinBatch ==
    [][\A b \in Batches : batchPc[b] = "reserve" /\ batchPc'[b] = "work" => plan[b] \notin worked[b]]_noveltyVars

(* Two live batches never work on one target at the same time.             *)
Working(b) == batchPc[b] \in {"work", "release"}
NeverTogether ==
    \A b, c \in Batches : Working(b) /\ Working(c) /\ plan[b] = plan[c] => b = c

(* Once a ledger a batch reads names a target, and the batch is not past   *)
(* its gate with it already, the batch never works on it again; what is    *)
(* closed to it stays closed, except that where there are more siblings    *)
(* than the gate reads, a new directory may push an older one out of its   *)
(* sight.  Not excluded: two batches both past their gates, one of which   *)
(* gives the target back before its entry is in its ledger (TriedOnce).    *)
OnTheWay(b, t) == plan[b] = t /\ batchPc[b] \in {"reserve", "work", "release"}
Closed(b, t)   == b \in Listed /\ t \in Explored(b) /\ ~OnTheWay(b, t)
Crowded        == Cardinality(Listed) > MaxSiblings + 1
ClosedStaysClosed ==
    [][\A b \in Batches, t \in Targets : Closed(b, t) =>
         /\ Closed(b, t)' \/ (Crowded' /\ Listed' # Listed)
         /\ t \in worked'[b] => t \in worked[b]]_noveltyVars

(* Not so, where there are more siblings than the gate reads: a target     *)
(* closed to a batch is closed to it for good.                             *)
ClosedForGood == [][\A b \in Batches, t \in Targets : Closed(b, t) => Closed(b, t)']_noveltyVars

(* The comment on gatePlannerDecision: novelty checks span sibling batches *)
(* so that work another batch already tried is never re-proposed.  Not so: *)
(* a batch may pass its gate, find the target free again and work on it    *)
(* before, or without, the entry of the batch that tried it.               *)
TriedOnce == \A b, c \in Batches : b # c => worked[b] \cap worked[c] = {}
=============================================================================
