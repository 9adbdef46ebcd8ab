------------------------ MODULE Reservations_proofs -------------------------
(***************************************************************************)
(* Theorems about the two things that keep workers of overnight batches    *)
(* from working on the same target: the reservation on disk, and the       *)
(* novelty of a planned target.  For any number of processes, batches and  *)
(* targets.                                                                *)
(***************************************************************************)
EXTENDS TargetLock, TargetNovelty, FiniteSetTheorems, TLAPS

-----------------------------------------------------------------------------
(* The reservation on disk.                                                *)

\* No pid on record belongs to an epoch its process has not reached.
RecordIsPast == \A pid \in meta : pid[2] <= epoch[pid[1]]

OwnerInv == LockTypeOK /\ RecordIsPast /\ OwnerOnRecordHolds

\* Initially there is no directory, nobody on record and every worker idle.
LEMMA InitOwnerInv == LockInit => OwnerInv
  <1> SUFFICES ASSUME LockInit PROVE OwnerInv
    OBVIOUS
  <1>1. RecordIsPast /\ OwnerOnRecordHolds
    BY DEF LockInit, RecordIsPast, OwnerOnRecordHolds
  <1>2. lockPc \in [Workers -> Labels] /\ epoch \in [Processes -> Nat]
    BY DEF LockInit, Labels
  <1>3. acquires \in [Workers -> Nat] /\ expiries \in Nat
    BY DEF LockInit
  <1>4. dir \in BOOLEAN /\ expired \in BOOLEAN /\ meta \in SUBSET Pids /\ host \in [Workers -> Processes]
    BY DEF LockInit
  <1>. QED
    BY <1>1, <1>2, <1>3, <1>4 DEF OwnerInv, LockTypeOK

\* Every step, and a stutter, keeps the variables in their types.
LEMMA LockTypePreserved == LockTypeOK /\ [LockNext]_lockVars => LockTypeOK'
  <1> SUFFICES ASSUME LockTypeOK, [LockNext]_lockVars PROVE LockTypeOK'
    OBVIOUS
  <1> USE LockAssumption DEF LockAssumption, LockTypeOK, Labels, Goto, fsVars, envVars
  <1>1. ASSUME NEW w \in Workers, Acquire(w) PROVE LockTypeOK'
    <2>1. lockPc' \in [Workers -> Labels] /\ acquires' \in [Workers -> Nat]
      BY <1>1 DEF Acquire, Mkdir, MkdirExists
    <2>2. dir' \in BOOLEAN /\ expired' \in BOOLEAN /\ meta' \in SUBSET Pids
      BY <1>1 DEF Acquire, Mkdir, MkdirExists
    <2>. QED
      BY <1>1, <2>1, <2>2 DEF Acquire
  <1>2. ASSUME NEW w \in Workers, WriteMeta1(w) \/ WriteMeta2(w) PROVE LockTypeOK'
    <2>1. Pid(w) \in Pids
      BY DEF Pid, Pids
    <2>2. lockPc' \in [Workers -> Labels]
      BY <1>2 DEF WriteMeta1, WriteMeta2, WriteMeta
    <2>3. expired' \in BOOLEAN /\ meta' \in SUBSET Pids
      BY <1>2, <2>1 DEF WriteMeta1, WriteMeta2, WriteMeta
    <2>. QED
      BY <1>2, <2>2, <2>3 DEF WriteMeta1, WriteMeta2, WriteMeta
  <1>3. ASSUME NEW w \in Workers, WriteMetaFails(w) PROVE LockTypeOK'
    BY <1>3 DEF WriteMetaFails
  <1>4. ASSUME NEW w \in Workers, StatDir(w) \/ ReadMeta(w) PROVE LockTypeOK'
    BY <1>4 DEF StatDir, ReadMeta
  <1>5. ASSUME NEW w \in Workers, RemoveStale(w) PROVE LockTypeOK'
    BY <1>5 DEF RemoveStale
  <1>6. ASSUME NEW w \in Workers, Steal(w) PROVE LockTypeOK'
    BY <1>6 DEF Steal, Mkdir, MkdirExists
  <1>7. ASSUME NEW w \in Workers, ReleaseMeta(w) PROVE LockTypeOK'
    BY <1>7 DEF ReleaseMeta
  <1>8. ASSUME NEW w \in Workers, ReleaseDir(w) PROVE LockTypeOK'
    BY <1>8 DEF ReleaseDir
  <1>9. ASSUME NEW p \in Processes, ProcessDies(p) PROVE LockTypeOK'
    BY <1>9 DEF ProcessDies
  <1>10. CASE Expire
    BY <1>10 DEF Expire
  <1>11. CASE UNCHANGED lockVars
    BY <1>11 DEF lockVars
  <1>. QED
    BY <1>1, <1>2, <1>3, <1>4, <1>5, <1>6, <1>7, <1>8, <1>9, <1>10, <1>11 DEF LockNext, Step

\* meta.json gets a pid only from a worker that becomes a holder by writing
\* it, and a holder ends by unlinking whatever is on record.
LEMMA OwnerPreserved == OwnerInv /\ [LockNext]_lockVars => OwnerOnRecordHolds'
  <1> SUFFICES ASSUME LockTypeOK, RecordIsPast, OwnerOnRecordHolds, [LockNext]_lockVars
               PROVE  OwnerOnRecordHolds'
    BY DEF OwnerInv
  <1> USE LockAssumption
      DEF LockAssumption, LockTypeOK, Labels, Goto, fsVars, envVars, OwnerOnRecordHolds, PidAlive
  <1>1. ASSUME NEW w \in Workers, Acquire(w) PROVE OwnerOnRecordHolds'
    <2>1. CASE Mkdir(w, "write1")
      BY <1>1, <2>1 DEF Acquire, Mkdir
    <2>2. CASE MkdirExists(w, "stat")
      BY <1>1, <2>2 DEF Acquire, MkdirExists
    <2>. QED
      BY <1>1, <2>1, <2>2 DEF Acquire
  <1>2. ASSUME NEW w \in Workers, WriteMeta1(w) \/ WriteMeta2(w)
        PROVE  OwnerOnRecordHolds'
    <2>1. meta' = {Pid(w)} /\ lockPc'[w] = "holding" /\ host' = host
      BY <1>2 DEF WriteMeta1, WriteMeta2, WriteMeta
    <2>2. Pid(w)[1] = host[w]
      BY DEF Pid
    <2>. QED
      BY <2>1, <2>2
  <1>3. ASSUME NEW w \in Workers, WriteMetaFails(w) PROVE OwnerOnRecordHolds'
    BY <1>3 DEF WriteMetaFails
  <1>4. ASSUME NEW w \in Workers, StatDir(w) \/ ReadMeta(w) PROVE OwnerOnRecordHolds'
    BY <1>4 DEF StatDir, ReadMeta
  <1>5. ASSUME NEW w \in Workers, RemoveStale(w) \/ ReleaseMeta(w)
        PROVE  OwnerOnRecordHolds'
    BY <1>5 DEF RemoveStale, ReleaseMeta
  <1>6. ASSUME NEW w \in Workers, Steal(w) PROVE OwnerOnRecordHolds'
    <2>1. CASE Mkdir(w, "write2")
      BY <1>6, <2>1 DEF Steal, Mkdir
    <2>2. CASE MkdirExists(w, "idle")
      BY <1>6, <2>2 DEF Steal, MkdirExists
    <2>. QED
      BY <1>6, <2>1, <2>2 DEF Steal
  <1>7. ASSUME NEW w \in Workers, ReleaseDir(w) PROVE OwnerOnRecordHolds'
    BY <1>7 DEF ReleaseDir
  <1>8. ASSUME NEW p \in Processes, ProcessDies(p) PROVE OwnerOnRecordHolds'
    <2> SUFFICES ASSUME NEW pid \in meta, epoch'[pid[1]] = pid[2]
                 PROVE  \E w \in Workers : host[w] = pid[1] /\ lockPc'[w] = "holding"
      BY <1>8 DEF ProcessDies
    <2>1. pid[1] \in Processes /\ pid[2] \in Nat
      BY DEF Pids
    <2>2. CASE pid[1] # p
      BY <1>8, <2>1, <2>2 DEF ProcessDies
    <2>3. CASE pid[1] = p
      \* a pid of p made before the crash is at most the old epoch
      <3>1. pid[2] = epoch[p] + 1
        BY <1>8, <2>3 DEF ProcessDies
      <3>2. pid[2] <= epoch[p]
        BY <2>3 DEF RecordIsPast
      <3>. QED
        BY <1>8, <3>1, <3>2
    <2>. QED
      BY <2>2, <2>3
  <1>9. CASE Expire
    BY <1>9 DEF Expire
  <1>10. CASE UNCHANGED lockVars
    BY <1>10 DEF lockVars
  <1>. QED
    BY <1>1, <1>2, <1>3, <1>4, <1>5, <1>6, <1>7, <1>8, <1>9, <1>10 DEF LockNext, Step

\* A crash only moves epochs forward, and a write records the current one.
LEMMA RecordPreserved == OwnerInv /\ [LockNext]_lockVars => RecordIsPast'
  <1> SUFFICES ASSUME LockTypeOK, RecordIsPast, [LockNext]_lockVars PROVE RecordIsPast'
    BY DEF OwnerInv
  <1> USE LockAssumption DEF LockAssumption, LockTypeOK, RecordIsPast
  <1>1. ASSUME NEW w \in Workers, WriteMeta1(w) \/ WriteMeta2(w) PROVE RecordIsPast'
    <2>1. meta' = {Pid(w)} /\ epoch' = epoch
      BY <1>1 DEF WriteMeta1, WriteMeta2, WriteMeta, envVars
    <2>2. Pid(w)[1] = host[w] /\ Pid(w)[2] = epoch[host[w]]
      BY DEF Pid
    <2>3. epoch[host[w]] \in Nat
      OBVIOUS
    <2>. QED
      BY <2>1, <2>2, <2>3
  <1>2. ASSUME NEW w \in Workers, Step(w), ~WriteMeta1(w), ~WriteMeta2(w)
        PROVE  meta' \subseteq meta /\ epoch' = epoch
    BY <1>2 DEF Step, Acquire, Mkdir, MkdirExists, WriteMetaFails, StatDir, ReadMeta,
                RemoveStale, Steal, ReleaseMeta, ReleaseDir, fsVars, envVars
  <1>3. ASSUME NEW p \in Processes, ProcessDies(p) PROVE RecordIsPast'
    <2> SUFFICES ASSUME NEW pid \in meta PROVE pid[2] <= epoch'[pid[1]]
      BY <1>3 DEF ProcessDies, fsVars
    <2>1. pid[1] \in Processes /\ pid[2] \in Nat /\ pid[2] <= epoch[pid[1]]
      BY DEF Pids
    <2>2. epoch'[pid[1]] \in {epoch[pid[1]], epoch[pid[1]] + 1}
      BY <1>3, <2>1 DEF ProcessDies
    <2>. QED
      BY <2>1, <2>2
  <1>4. CASE Expire
    BY <1>4 DEF Expire
  <1>5. CASE UNCHANGED lockVars
    BY <1>5 DEF lockVars
  <1>. QED
    BY <1>1, <1>2, <1>3, <1>4, <1>5 DEF LockNext

\* Whoever meta.json names, if alive, runs a worker that holds the lock: the
\* evidence isLockStale judges freshness by is never a leftover.
THEOREM OwnerOnRecord == LockSpec => []OwnerOnRecordHolds
  <1>1. LockInit => OwnerInv
    BY InitOwnerInv
  <1>2. OwnerInv /\ [LockNext]_lockVars => OwnerInv'
    BY LockTypePreserved, RecordPreserved, OwnerPreserved DEF OwnerInv
  <1>. QED
    BY <1>1, <1>2, PTL DEF LockSpec, OwnerInv

\* Every variable stays in its type.
THEOREM LockTypeCorrect == LockSpec => []LockTypeOK
  <1>1. LockInit => LockTypeOK
    BY InitOwnerInv DEF OwnerInv
  <1>. QED
    BY <1>1, LockTypePreserved, PTL DEF LockSpec
-----------------------------------------------------------------------------
\* No step moves a worker to another process, and the count of expiries only
\* grows.
LEMMA HostIsFixed == LockTypeOK /\ [LockNext]_lockVars => host' = host /\ expiries' >= expiries
  <1> SUFFICES ASSUME LockTypeOK, [LockNext]_lockVars PROVE host' = host /\ expiries' >= expiries
    OBVIOUS
  <1>t. expiries \in Nat
    BY DEF LockTypeOK
  <1>1. ASSUME NEW w \in Workers, Step(w) PROVE host' = host /\ expiries' = expiries
    BY <1>1 DEF Step, Acquire, WriteMeta1, WriteMeta2, WriteMeta, WriteMetaFails, StatDir,
                ReadMeta, RemoveStale, Steal, ReleaseMeta, ReleaseDir, envVars
  <1>2. ASSUME NEW p \in Processes, ProcessDies(p) PROVE host' = host /\ expiries' = expiries
    BY <1>2 DEF ProcessDies
  <1>3. CASE Expire
    BY <1>t, <1>3 DEF Expire
  <1>4. CASE UNCHANGED lockVars
    BY <1>t, <1>4 DEF lockVars
  <1>. QED
    BY <1>t, <1>1, <1>2, <1>3, <1>4 DEF LockNext

\* In one process: acquire and release never overlap, a lock in use is on
\* record as owned by the live process, and a worker that goes on to make or
\* write a directory does so while nobody holds the lock.
SerialInv ==
  /\ ~expired
  /\ \A v, w \in Workers :
       lockPc[v] \notin {"idle", "holding"} /\ lockPc[w] \notin {"idle", "holding"} => v = w
  /\ ReservedOnce
  /\ \A w \in Workers : lockPc[w] = "holding" => dir /\ meta = {Pid(w)}
  /\ \A v, w \in Workers :
       lockPc[v] \in {"write1", "remove", "mkdir2", "write2", "rmdir"} => lockPc[w] # "holding"

\* The serial invariant is inductive when all workers share a process, until
\* a lock outlives its TTL.
LEMMA SerialPreserved ==
  LockTypeOK /\ OneHost /\ expiries' = 0 /\ SerialInv /\ [LockNext]_lockVars => SerialInv'
  <1> SUFFICES ASSUME LockTypeOK, OneHost, expiries' = 0, SerialInv, [LockNext]_lockVars
               PROVE  SerialInv'
    OBVIOUS
  <1>t. LockTypeOK'
    BY LockTypePreserved
  <1>s. ASSUME NEW w \in Workers, Scheduled(w), NEW v \in Workers \ {w}
        PROVE  lockPc[v] \in {"idle", "holding"}
    BY <1>s DEF Scheduled, OneHost
  <1>p. ASSUME NEW v \in Workers, NEW w \in Workers PROVE Pid(v) = Pid(w)
    BY DEF Pid, OneHost
  <1>h. host' = host /\ expiries' >= expiries
    BY HostIsFixed
  <1>f. ASSUME epoch' = epoch, NEW w \in Workers PROVE Pid(w)' = Pid(w)
    BY <1>f, <1>h DEF Pid
  <1> USE <1>t DEF SerialInv, ReservedOnce, LockTypeOK, Goto
  <1>1. ASSUME NEW w \in Workers, Acquire(w) PROVE SerialInv'
    <2>1. CASE Mkdir(w, "write1")
      BY <1>1, <1>s, <1>f, <2>1 DEF Acquire, Mkdir, envVars
    <2>2. CASE MkdirExists(w, "stat")
      BY <1>1, <1>s, <1>f, <2>2 DEF Acquire, MkdirExists, fsVars, envVars
    <2>. QED
      BY <1>1, <2>1, <2>2 DEF Acquire
  <1>2. ASSUME NEW w \in Workers, WriteMeta1(w) \/ WriteMeta2(w) PROVE SerialInv'
    <2>1. \A v \in Workers \ {w} : lockPc[v] = "idle" /\ lockPc'[v] = "idle"
      BY <1>2, <1>s DEF WriteMeta1, WriteMeta2, WriteMeta
    <2>2. lockPc'[w] = "holding" /\ dir' /\ meta' = {Pid(w)} /\ epoch' = epoch
      BY <1>2 DEF WriteMeta1, WriteMeta2, WriteMeta, envVars
    <2>3. ~expired'
      BY <1>2 DEF WriteMeta1, WriteMeta2, WriteMeta
    <2>. QED
      BY <1>f, <2>1, <2>2, <2>3
  <1>3. ASSUME NEW w \in Workers, WriteMetaFails(w) PROVE SerialInv'
    BY <1>3, <1>s, <1>f DEF WriteMetaFails, fsVars, envVars
  <1>4. ASSUME NEW w \in Workers, StatDir(w) PROVE SerialInv'
    BY <1>4, <1>s, <1>f DEF StatDir, fsVars, envVars
  <1>5. ASSUME NEW w \in Workers, ReadMeta(w) PROVE SerialInv'
    <2>1. (\E v \in Workers : lockPc[v] = "holding") => lockPc'[w] = "idle"
      <3> SUFFICES ASSUME NEW v \in Workers, lockPc[v] = "holding" PROVE lockPc'[w] = "idle"
        OBVIOUS
      <3>1. PidAlive(Pid(v)) /\ Pid(v) \in meta
        BY DEF PidAlive, Pid
      <3>. QED
        BY <1>5, <3>1 DEF ReadMeta
    <2>2. lockPc'[w] \in {"idle", "remove"} /\ \A v \in Workers \ {w} : lockPc'[v] = lockPc[v]
      BY <1>5 DEF ReadMeta
    <2>3. UNCHANGED <<dir, meta, expired, epoch>> /\ lockPc[w] = "read"
      BY <1>5 DEF ReadMeta, fsVars, envVars
    <2>. QED
      BY <1>5, <1>s, <1>f, <2>1, <2>2, <2>3 DEF ReadMeta
  <1>6. ASSUME NEW w \in Workers, RemoveStale(w) PROVE SerialInv'
    BY <1>6, <1>s, <1>f DEF RemoveStale, envVars
  <1>7. ASSUME NEW w \in Workers, Steal(w) PROVE SerialInv'
    <2>1. CASE Mkdir(w, "write2")
      BY <1>7, <1>s, <1>f, <2>1 DEF Steal, Mkdir, envVars
    <2>2. CASE MkdirExists(w, "idle")
      BY <1>7, <1>s, <1>f, <2>2 DEF Steal, MkdirExists, fsVars, envVars
    <2>. QED
      BY <1>7, <2>1, <2>2 DEF Steal
  <1>8. ASSUME NEW w \in Workers, ReleaseMeta(w) PROVE SerialInv'
    <2>1. \A v \in Workers \ {w} : lockPc[v] = "idle" /\ lockPc'[v] = "idle"
      BY <1>8, <1>s DEF ReleaseMeta
    <2>2. lockPc'[w] = "rmdir" /\ expired' = expired
      BY <1>8 DEF ReleaseMeta
    <2>. QED
      BY <2>1, <2>2
  <1>9. ASSUME NEW w \in Workers, ReleaseDir(w) PROVE SerialInv'
    BY <1>9, <1>s, <1>f DEF ReleaseDir, envVars
  <1>10. ASSUME NEW p \in Processes, ProcessDies(p) PROVE SerialInv'
    <2>1. CASE \E w \in Workers : host[w] = p
      BY <1>10, <2>1 DEF ProcessDies, fsVars, OneHost
    <2>2. CASE \A w \in Workers : host[w] # p
      <3>1. lockPc' = lockPc
        BY <1>10, <2>2 DEF ProcessDies
      <3>2. \A w \in Workers : Pid(w)' = Pid(w)
        BY <1>10, <2>2, LockAssumption DEF ProcessDies, Pid, LockAssumption
      <3>. QED
        BY <1>10, <3>1, <3>2 DEF ProcessDies, fsVars
    <2>. QED
      BY <2>1, <2>2
  <1>11. CASE Expire
    BY <1>11 DEF Expire
  <1>12. CASE UNCHANGED lockVars
    BY <1>12, <1>f DEF lockVars
  <1>. QED
    BY <1>1, <1>2, <1>3, <1>4, <1>5, <1>6, <1>7, <1>8, <1>9, <1>10, <1>11, <1>12 DEF LockNext, Step

\* Workers of one process reserve a target one at a time, across any number
\* of crashes of that process, as long as no reservation outlives the TTL.
THEOREM OneProcessReservesOnce == LockSpec => []ReservedWithinProcess
  <1> DEFINE Inv == LockTypeOK /\ (OneHost /\ expiries = 0 => SerialInv)
  <1>1. LockInit => Inv
    <2> SUFFICES ASSUME LockInit PROVE Inv
      OBVIOUS
    <2>1. LockTypeOK
      BY InitOwnerInv DEF OwnerInv
    <2>. QED
      BY <2>1 DEF LockInit, SerialInv, ReservedOnce
  <1>2. Inv /\ [LockNext]_lockVars => Inv'
    <2> SUFFICES ASSUME Inv, [LockNext]_lockVars, OneHost', expiries' = 0 PROVE SerialInv'
      BY LockTypePreserved
    <2>1. host' = host /\ expiries' >= expiries
      BY HostIsFixed
    <2>2. OneHost /\ expiries = 0
      BY <2>1 DEF OneHost, LockTypeOK
    <2>. QED
      BY <2>2, SerialPreserved
  <1>3. Inv => ReservedWithinProcess
    BY DEF SerialInv, ReservedWithinProcess
  <1>. QED
    BY <1>1, <1>2, <1>3, PTL DEF LockSpec

-----------------------------------------------------------------------------
(* The novelty of planned targets.                                         *)

(* Past the planner, an attempt has a target.                              *)
Planned == \A b \in Batches : batchPc[b] \notin {"new", "plan", "dead"} => plan[b] \in Targets

(* What a batch has worked on is in its own ledger, or is what its current *)
(* attempt will put there; and nothing it worked on gets past its gate.    *)
Remembered ==
    \A b \in Batches :
      /\ \A t \in worked[b] :
           \/ t \in Named(ledger[b], Len(ledger[b]))
           \/ batchPc[b] \in {"work", "release", "publish", "dead"} /\ known[b] = t
      /\ batchPc[b] = "reserve" => plan[b] \notin worked[b]

(* Whoever is at work still has its reservation.                           *)
Reserved == \A b \in Batches : Working(b) => holder[plan[b]] = b

NoveltyInv == NoveltyTypeOK /\ Planned /\ Remembered /\ Reserved
-----------------------------------------------------------------------------
(* A new entry adds its target to what the ledger names, and no more.      *)
LEMMA NamedAppend ==
    ASSUME NEW S, NEW s \in Seq(S), NEW x \in S
    PROVE  Named(Append(s, x), Len(Append(s, x))) = Named(s, Len(s)) \cup {x}
<1>1. \A i \in 1..Len(s) : Append(s, x)[i] = s[i]
  OBVIOUS
<1>2. Len(Append(s, x)) = Len(s) + 1 /\ Append(s, x)[Len(s) + 1] = x /\ Len(s) \in Nat
  OBVIOUS
<1>3. ASSUME NEW y \in Named(Append(s, x), Len(Append(s, x)))
      PROVE  y \in Named(s, Len(s)) \cup {x}
  BY <1>1, <1>2, <1>3 DEF Named
<1>4. ASSUME NEW y \in Named(s, Len(s)) \cup {x}
      PROVE  y \in Named(Append(s, x), Len(Append(s, x)))
  BY <1>1, <1>2, <1>4 DEF Named
<1> QED
  BY <1>3, <1>4

(* The variables keep their types.                                         *)
LEMMA PlannedStep == NoveltyTypeOK /\ Planned /\ [NoveltyNext]_noveltyVars => Planned'
  BY DEF NoveltyTypeOK, Planned, NoveltyNext, noveltyVars, OpenBatch, PlanTarget, PassGate, Reserve, Refused, Work, ReleaseTarget, PublishEntry, BatchCrash

\* Every step keeps the types of the ledgers, the reservations and the workers.
LEMMA NoveltyTypeStep == NoveltyTypeOK /\ Planned /\ [NoveltyNext]_noveltyVars => NoveltyTypeOK'
<1> SUFFICES ASSUME NoveltyTypeOK, Planned, [NoveltyNext]_noveltyVars PROVE NoveltyTypeOK'
  OBVIOUS
<1> USE NullAssumption DEF NoveltyTypeOK
<1>1. CASE UNCHANGED noveltyVars
  BY <1>1 DEF noveltyVars
<1>2. ASSUME NEW b \in Batches,
             OpenBatch(b) \/ PlanTarget(b) \/ PassGate(b) \/ Reserve(b) \/ Refused(b) \/ Work(b)
               \/ ReleaseTarget(b) \/ BatchCrash(b)
      PROVE  NoveltyTypeOK'
  <2>1. CASE PlanTarget(b)
    BY <2>1 DEF PlanTarget
  <2>2. CASE PassGate(b)
    BY <2>2 DEF PassGate
  <2>3. CASE Reserve(b)
    BY <2>3 DEF Reserve, Planned
  <2>4. CASE OpenBatch(b) \/ Refused(b) \/ Work(b) \/ BatchCrash(b)
    BY <2>4 DEF OpenBatch, Refused, Work, BatchCrash
  <2>5. CASE ReleaseTarget(b)
    BY <2>5 DEF ReleaseTarget
  <2> QED
    BY <1>2, <2>1, <2>2, <2>3, <2>4, <2>5
<1>3. ASSUME NEW b \in Batches, PublishEntry(b) PROVE NoveltyTypeOK'
  <2>1. Append(ledger[b], known[b]) \in Seq(Targets \cup {NoTarget})
    OBVIOUS
  <2> QED
    BY <1>3, <2>1 DEF PublishEntry
<1> QED
  BY <1>1, <1>2, <1>3 DEF NoveltyNext

\* Every step keeps a batch's targets on its ledger or on one of its workers.
LEMMA RememberedStep == NoveltyTypeOK /\ Remembered /\ [NoveltyNext]_noveltyVars => Remembered'
<1> SUFFICES ASSUME NoveltyTypeOK, Remembered, [NoveltyNext]_noveltyVars PROVE Remembered'
  OBVIOUS
<1> USE DEF Remembered, NoveltyTypeOK
<1>1. CASE UNCHANGED noveltyVars
  BY <1>1 DEF noveltyVars
<1>2. ASSUME NEW b \in Batches, PlanTarget(b) PROVE Remembered'
  BY <1>2 DEF PlanTarget
<1>3. ASSUME NEW b \in Batches, PassGate(b) PROVE Remembered'
  BY <1>3, ZenonT(40) DEF PassGate, Explored
<1>4. ASSUME NEW b \in Batches, Reserve(b) PROVE Remembered'
  <2>1. /\ batchPc[b] = "reserve" /\ UNCHANGED <<plan, ledger>>
        /\ known' = [known EXCEPT ![b] = plan[b]]
        /\ worked' = [worked EXCEPT ![b] = worked[b] \cup {plan[b]}]
        /\ batchPc' = [batchPc EXCEPT ![b] = "work"]
    BY <1>4, Zenon DEF Reserve
  <2>2. ASSUME NEW c \in Batches, c # b
        PROVE  UNCHANGED <<ledger[c], batchPc[c], known[c], worked[c], plan[c]>>
    BY <2>1, <2>2
  <2>3. /\ ledger'[b] = ledger[b] /\ batchPc'[b] = "work" /\ known'[b] = plan[b]
        /\ worked'[b] = worked[b] \cup {plan[b]}
    BY <2>1
  <2>4. \A t \in worked[b] : t \in Named(ledger[b], Len(ledger[b]))
    BY <2>1
  <2> QED
    BY <2>2, <2>3, <2>4
<1>5. ASSUME NEW b \in Batches, OpenBatch(b) \/ Refused(b) \/ Work(b) \/ ReleaseTarget(b) \/ BatchCrash(b)
      PROVE  Remembered'
  BY <1>5 DEF OpenBatch, Refused, Work, ReleaseTarget, BatchCrash
<1>6. ASSUME NEW b \in Batches, PublishEntry(b) PROVE Remembered'
  <2>1. Named(Append(ledger[b], known[b]), Len(Append(ledger[b], known[b])))
          = Named(ledger[b], Len(ledger[b])) \cup {known[b]}
    <3>1. ledger[b] \in Seq(Targets \cup {NoTarget}) /\ known[b] \in Targets \cup {NoTarget}
      OBVIOUS
    <3> QED
      BY <3>1, NamedAppend
  <2>2. ledger'[b] = Append(ledger[b], known[b])
    BY <1>6 DEF PublishEntry
  <2>3. Named(ledger'[b], Len(ledger'[b])) = Named(ledger[b], Len(ledger[b])) \cup {known[b]}
    BY <2>1, <2>2
  <2>4. ASSUME NEW c \in Batches, c # b
        PROVE  ledger'[c] = ledger[c] /\ batchPc'[c] = batchPc[c]
    BY <1>6, <2>4 DEF PublishEntry
  <2>5. batchPc[b] = "publish" /\ batchPc'[b] = "plan" /\ UNCHANGED <<plan, known, worked>>
    BY <1>6 DEF PublishEntry
  <2> QED
    BY <2>3, <2>4, <2>5
<1> QED
  BY <1>1, <1>2, <1>3, <1>4, <1>5, <1>6 DEF NoveltyNext

\* Every step keeps a worked-on target reserved for the one worker on it.
LEMMA ReservedStep == NoveltyTypeOK /\ Planned /\ Reserved /\ [NoveltyNext]_noveltyVars => Reserved'
<1> SUFFICES ASSUME NoveltyTypeOK, Planned, Reserved, [NoveltyNext]_noveltyVars PROVE Reserved'
  OBVIOUS
<1> USE NullAssumption DEF Reserved, Working, NoveltyTypeOK
<1>1. CASE UNCHANGED noveltyVars
  BY <1>1 DEF noveltyVars
<1>2. ASSUME NEW b \in Batches,
             OpenBatch(b) \/ PlanTarget(b) \/ PassGate(b) \/ Refused(b) \/ Work(b) \/ PublishEntry(b) \/ BatchCrash(b)
      PROVE  Reserved'
  <2>1. CASE PlanTarget(b)
    BY <2>1 DEF PlanTarget
  <2>2. CASE OpenBatch(b) \/ PassGate(b) \/ Refused(b) \/ Work(b) \/ PublishEntry(b) \/ BatchCrash(b)
    BY <2>2 DEF OpenBatch, PassGate, Refused, Work, PublishEntry, BatchCrash
  <2> QED
    BY <1>2, <2>1, <2>2
<1>3. ASSUME NEW b \in Batches, Reserve(b) PROVE Reserved'
  <2>1. ASSUME NEW c \in Batches, c # b, Working(c), plan[c] = plan[b] PROVE FALSE
    BY <1>3, <2>1 DEF Reserve, Available
  <2>2. /\ holder' = [holder EXCEPT ![plan[b]] = b] /\ plan' = plan
        /\ batchPc' = [batchPc EXCEPT ![b] = "work"] /\ plan[b] \in Targets \cup {NoTarget}
    BY <1>3 DEF Reserve
  <2>3. plan[b] \in Targets
    BY <1>3 DEF Reserve, Planned
  <2> QED
    BY <2>1, <2>2, <2>3
<1>4. ASSUME NEW b \in Batches, ReleaseTarget(b) PROVE Reserved'
  BY <1>4 DEF ReleaseTarget
<1> QED
  BY <1>1, <1>2, <1>3, <1>4 DEF NoveltyNext

\* The inductive invariant holds of every behaviour.
LEMMA NoveltyInvHolds == NoveltySpec => []NoveltyInv
<1>1. NoveltyInit => NoveltyInv
  BY DEF NoveltyInit, NoveltyInv, NoveltyTypeOK, Planned, Remembered, Reserved, Working
<1>2. NoveltyInv /\ [NoveltyNext]_noveltyVars => NoveltyInv'
  BY NoveltyTypeStep, PlannedStep, RememberedStep, ReservedStep DEF NoveltyInv
<1> QED
  BY <1>1, <1>2, PTL DEF NoveltySpec

(* The variables keep their types.                                         *)
THEOREM NoveltyTypeCorrect == NoveltySpec => []NoveltyTypeOK
  BY NoveltyInvHolds, PTL DEF NoveltyInv

(* Two live batches are never at work on one target.                       *)
THEOREM TargetsAreExclusive == NoveltySpec => []NeverTogether
<1>1. NoveltyInv => NeverTogether
  BY DEF NoveltyInv, Reserved, NeverTogether
<1> QED
  BY <1>1, NoveltyInvHolds, PTL

(* A batch never comes back to a target it has worked on.                  *)
THEOREM BatchesDoNotRepeat == NoveltySpec => NoRepeatWithinBatch
<1>1. NoveltyInv /\ [NoveltyNext]_noveltyVars =>
        [\A b \in Batches : batchPc[b] = "reserve" /\ batchPc'[b] = "work" => plan[b] \notin worked[b]]_noveltyVars
  BY DEF NoveltyInv, Remembered
<1> QED
  BY <1>1, NoveltyInvHolds, PTL DEF NoveltySpec, NoRepeatWithinBatch

(* What the first k entries of a ledger name, they name for good.          *)
LEMMA NamedPrefix ==
    ASSUME NEW S, NEW s \in Seq(S), NEW x \in S, NEW k
    PROVE  Named(s, k) \subseteq Named(Append(s, x), k)
<1>1. \A i \in 1..Len(s) : i \in 1..Len(Append(s, x)) /\ Append(s, x)[i] = s[i]
  OBVIOUS
<1> QED
  BY <1>1 DEF Named

\* Where there are no more siblings than the gate reads, it reads them all.
LEMMA UncrowdedReadsAll == ~Crowded => \A b \in Listed : Siblings(b) = Listed \ {b}
<1> SUFFICES ASSUME ~Crowded, NEW b \in Listed, NEW c \in Listed \ {b}
             PROVE  Cardinality({d \in Listed \ {b} : d > c}) < MaxSiblings
  BY DEF Siblings
<1> DEFINE Above == {d \in Listed \ {b} : d > c}
           Others == (Listed \ {b}) \ {c}
<1>1. IsFiniteSet(Listed)
  BY BatchAssumption, FS_Subset DEF Listed
<1>2. /\ Cardinality(Listed \ {b}) = Cardinality(Listed) - 1 /\ IsFiniteSet(Listed \ {b})
      /\ Cardinality(Listed) \in Nat
  BY <1>1, FS_RemoveElement, FS_CardinalityType
<1>3. Cardinality(Others) = Cardinality(Listed \ {b}) - 1 /\ IsFiniteSet(Others)
  BY <1>2, FS_RemoveElement
<1>4. Above \subseteq Others
  BY BatchAssumption DEF Listed
<1>5. Cardinality(Above) <= Cardinality(Others) /\ Cardinality(Above) \in Nat
  BY <1>3, <1>4, FS_Subset, FS_CardinalityType
<1> HIDE DEF Above, Others
<1>6. Cardinality(Above) < MaxSiblings
  BY <1>2, <1>3, <1>5, LimitAssumption DEF Crowded
<1> QED
  BY <1>6 DEF Above

\* The same of the next state.
LEMMA UncrowdedReadsAllNext == (~Crowded => \A b \in Listed : Siblings(b) = Listed \ {b})'
  BY UncrowdedReadsAll, PTL

\* What a batch can read only grows, until new directories crowd some out.
LEMMA ExploredGrows ==
    ASSUME NoveltyTypeOK, [NoveltyNext]_noveltyVars, NEW b \in Listed
    PROVE  b \in Listed' /\ (Explored(b) \subseteq Explored(b)' \/ (Crowded' /\ Listed' # Listed))
<1> USE DEF NoveltyTypeOK
<1>1. Listed \subseteq Listed' /\ Listed' \subseteq Batches
  BY DEF Listed, NoveltyNext, noveltyVars, OpenBatch, PlanTarget, PassGate, Reserve, Refused, Work, ReleaseTarget, PublishEntry, BatchCrash
<1>2. ASSUME NEW d \in Batches, NEW k
      PROVE  Named(ledger[d], k) \subseteq Named(ledger'[d], k)
  <2>1. CASE \E c \in Batches : PublishEntry(c)
    <3>1. PICK c \in Batches : PublishEntry(c)
      BY <2>1
    <3>2. ledger'[d] = IF d = c THEN Append(ledger[c], known[c]) ELSE ledger[d]
      BY <3>1 DEF PublishEntry
    <3>3. Named(ledger[c], k) \subseteq Named(Append(ledger[c], known[c]), k)
      <4>1. ledger[c] \in Seq(Targets \cup {NoTarget}) /\ known[c] \in Targets \cup {NoTarget}
        OBVIOUS
      <4> QED
        BY <4>1, NamedPrefix
    <3> QED
      BY <3>2, <3>3
  <2>2. CASE \A c \in Batches : ~PublishEntry(c)
    <3>1. ledger' = ledger
      BY <2>2 DEF NoveltyNext, noveltyVars, OpenBatch, PlanTarget, PassGate, Reserve, Refused, Work, ReleaseTarget, BatchCrash
    <3> QED
      BY <3>1
  <2> QED
    BY <2>1, <2>2
<1>3. Named(ledger[b], Len(ledger[b])) \subseteq Named(ledger'[b], Len(ledger'[b]))
  <2>1. Named(ledger[b], Len(ledger[b])) \subseteq Named(ledger'[b], Len(ledger[b]))
    BY <1>2 DEF Listed
  <2>2. Named(ledger'[b], Len(ledger[b])) \subseteq Named(ledger'[b], Len(ledger'[b]))
    BY DEF Named
  <2> QED
    BY <2>1, <2>2
<1>4. Siblings(b) \subseteq Siblings(b)' \/ (Crowded' /\ Listed' # Listed)
  <2>1. CASE Listed' = Listed
    BY <2>1 DEF Siblings
  <2>2. CASE ~Crowded'
    <3>1. b \in Listed'
      BY <1>1
    <3>3. Siblings(b)' = Listed' \ {b}
      BY <2>2, <3>1, UncrowdedReadsAllNext
    <3> QED
      BY <1>1, <3>3 DEF Siblings
  <2> QED
    BY <2>1, <2>2
<1>5. ASSUME NEW c \in Siblings(b) PROVE Named(ledger[c], SiblingCap) \subseteq Named(ledger'[c], SiblingCap)
  BY <1>2, <1>5 DEF Siblings, Listed
<1>6. CASE Siblings(b) \subseteq Siblings(b)'
  <2>1. ASSUME NEW t \in Explored(b) PROVE t \in Explored(b)'
    <3>1. CASE t \in Named(ledger[b], Len(ledger[b]))
      BY <1>3, <3>1 DEF Explored
    <3>2. CASE \E c \in Siblings(b) : t \in Named(ledger[c], SiblingCap)
      BY <1>5, <1>6, <3>2 DEF Explored
    <3> QED
      BY <2>1, <3>1, <3>2 DEF Explored
  <2> QED
    BY <1>1, <2>1
<1> QED
  BY <1>1, <1>4, <1>6

\* Once a batch can read that a target was tried, it does not work on it
\* again, unless new directories crowd the entry out or it was past its gate.
THEOREM ClosedTargetsStayClosed == NoveltySpec => ClosedStaysClosed
<1>1. ASSUME NoveltyInv, [NoveltyNext]_noveltyVars, NEW b \in Batches, NEW t \in Targets, Closed(b, t)
      PROVE  /\ Closed(b, t)' \/ (Crowded' /\ Listed' # Listed)
             /\ t \in worked'[b] => t \in worked[b]
  <2> USE DEF NoveltyInv, NoveltyTypeOK
  <2>1. b \in Listed /\ t \in Explored(b) /\ ~OnTheWay(b, t)
    BY <1>1 DEF Closed
  <2>2. b \in Listed' /\ (Explored(b) \subseteq Explored(b)' \/ (Crowded' /\ Listed' # Listed))
    BY <1>1, <2>1, ExploredGrows
  <2>3. ~OnTheWay(b, t)' /\ (t \in worked'[b] => t \in worked[b])
    <3>t. batchPc \in [Batches -> {"new", "plan", "gate", "reserve", "work", "release", "publish", "dead"}]
      BY <1>1
    <3>f. plan[b] = t => batchPc[b] \notin {"reserve", "work", "release"}
      BY <2>1 DEF OnTheWay
    <3>1. ASSUME NEW c \in Batches, OpenBatch(c) \/ PlanTarget(c) \/ PublishEntry(c) \/ BatchCrash(c)
          PROVE  ~OnTheWay(b, t)' /\ worked' = worked
      <4>1. worked' = worked /\ batchPc'[b] \in {batchPc[b], "plan", "gate", "dead"}
        BY <3>1, <3>t DEF OpenBatch, PlanTarget, PublishEntry, BatchCrash
      <4>2. batchPc'[b] = batchPc[b] => plan'[b] = plan[b] \/ batchPc[b] = "gate"
        <5>1. CASE PlanTarget(c)
          <6>1. plan \in [Batches -> Targets \cup {NoTarget}]
            BY <1>1
          <6>2. c = b => batchPc[b] = "plan" /\ batchPc'[b] = "gate"
            BY <3>t, <5>1 DEF PlanTarget
          <6>3. c # b => plan'[b] = plan[b]
            BY <5>1, <6>1 DEF PlanTarget
          <6> QED
            BY <6>2, <6>3
        <5>2. CASE OpenBatch(c) \/ PublishEntry(c) \/ BatchCrash(c)
          BY <5>2 DEF OpenBatch, PublishEntry, BatchCrash
        <5> QED
          BY <3>1, <5>1, <5>2
      <4> QED
        BY <3>f, <4>1, <4>2 DEF OnTheWay
    <3>2. ASSUME NEW c \in Batches, PassGate(c)
          PROVE  ~OnTheWay(b, t)' /\ worked' = worked
      <4>1. worked' = worked /\ plan' = plan
        BY <3>2 DEF PassGate
      <4>2. CASE plan[b] = t /\ c = b
        <5>1. batchPc'[b] = "publish"
          BY <2>1, <3>2, <3>t, <4>2 DEF PassGate
        <5> QED
          BY <4>1, <5>1 DEF OnTheWay
      <4>3. CASE plan[b] # t
        BY <4>1, <4>3 DEF OnTheWay
      <4>4. CASE c # b
        <5>1. batchPc'[b] = batchPc[b]
          BY <3>2, <3>t, <4>4 DEF PassGate
        <5> QED
          BY <3>f, <4>1, <5>1 DEF OnTheWay
      <4> QED
        BY <4>2, <4>3, <4>4
    <3>3. ASSUME NEW c \in Batches, Reserve(c)
          PROVE  ~OnTheWay(b, t)' /\ (t \in worked'[b] => t \in worked[b])
      BY <2>1, <3>3 DEF Reserve, OnTheWay
    <3>4. ASSUME NEW c \in Batches, Refused(c) \/ Work(c) \/ ReleaseTarget(c)
          PROVE  ~OnTheWay(b, t)' /\ worked' = worked
      <4>1. worked' = worked /\ plan' = plan
        BY <3>4 DEF Refused, Work, ReleaseTarget
      <4>2. batchPc'[b] = batchPc[b] \/ batchPc[b] \in {"reserve", "work", "release"}
        BY <3>4, <3>t DEF Refused, Work, ReleaseTarget
      <4>3. CASE plan[b] # t
        BY <4>1, <4>3 DEF OnTheWay
      <4> QED
        BY <3>f, <4>1, <4>2, <4>3 DEF OnTheWay
    <3>5. CASE UNCHANGED noveltyVars
      BY <2>1, <3>5 DEF noveltyVars, OnTheWay
    <3> QED
      BY <1>1, <3>1, <3>2, <3>3, <3>4, <3>5 DEF NoveltyNext
  <2> QED
    BY <2>1, <2>2, <2>3 DEF Closed
<1>2. NoveltyInv /\ [NoveltyNext]_noveltyVars =>
        [\A b \in Batches, t \in Targets : Closed(b, t) =>
           /\ Closed(b, t)' \/ (Crowded' /\ Listed' # Listed)
           /\ t \in worked'[b] => t \in worked[b]]_noveltyVars
  BY <1>1
<1> QED
  BY <1>2, NoveltyInvHolds, PTL DEF NoveltySpec, ClosedStaysClosed
=============================================================================
