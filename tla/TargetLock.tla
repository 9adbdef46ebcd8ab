----------------------------- MODULE TargetLock -----------------------------
(***************************************************************************)
(* lib/overnight_engine.cjs: acquireTargetLock, isLockStale and            *)
(* releaseTargetLock, the reservation of one (surface, path, symbol) by    *)
(* the overnight workers that would otherwise edit the same code.          *)
(*                                                                         *)
(* The lock is a directory with a meta.json inside.  acquire and release   *)
(* are synchronous functions: two async workers of one Node process never  *)
(* interleave inside them, workers of different processes do, at every     *)
(* file-system call.  A process that dies restarts under a new pid; what   *)
(* its workers left on disk stays.                                         *)
(***************************************************************************)
EXTENDS Naturals, FiniteSets

CONSTANTS
  Workers,      \* surface attempts after the same target
  Processes,    \* the Node processes they run in
  MaxCrashes,   \* bound: process deaths
  MaxExpiries,  \* bound: times the directory outlives TARGET_LOCK_TTL_MS
  MaxAcquires   \* bound: acquisitions one worker starts

ASSUME LockAssumption ==
  /\ MaxCrashes \in Nat
  /\ MaxExpiries \in Nat
  /\ MaxAcquires \in Nat

VARIABLES
  host,       \* [Workers -> Processes]: the process each worker runs in
  dir,        \* does the lock directory exist
  meta,       \* {} or {pid}: the pid in its meta.json
  expired,    \* is its mtime older than the TTL
  lockPc,         \* where each worker is
  epoch,      \* [Processes -> Nat]: a process and its epoch make a pid
  expiries,   \* times the TTL ran out
  acquires    \* acquisitions each worker has started

lockVars == <<host, dir, meta, expired, lockPc, epoch, expiries, acquires>>
fsVars == <<dir, meta, expired>>
envVars == <<host, epoch, expiries>>

Labels == {"idle", "write1", "stat", "read", "remove", "mkdir2", "write2",
           "holding", "rmdir"}

Pids == Processes \X Nat
Pid(w) == <<host[w], epoch[host[w]]>>
PidDead(pid) == FALSE  \* mutant of PidAlive: kill(pid, 0) misread
PidAlive(pid) == epoch[pid[1]] = pid[2]

\* acquire and release run to their end before another worker of the same
\* process is scheduled.
Scheduled(w) ==
  \A v \in Workers \ {w} : host[v] = host[w] => lockPc[v] \in {"idle", "holding"}

Goto(w, label) == lockPc' = [lockPc EXCEPT ![w] = label]

\* Any placement: async tasks of one process, a process each, or a mixture.
LockInit ==
  /\ host \in [Workers -> Processes]
  /\ dir = FALSE /\ meta = {} /\ expired = FALSE
  /\ lockPc = [w \in Workers |-> "idle"]
  /\ epoch = [p \in Processes |-> 0]
  /\ expiries = 0
  /\ acquires = [w \in Workers |-> 0]

\* mkdirSync: the directory is new, and empty until meta.json is written ...
Mkdir(w, next) ==
  /\ ~dir
  /\ dir' = TRUE /\ meta' = {} /\ expired' = FALSE
  /\ Goto(w, next)

\* ... or EEXIST.
MkdirExists(w, next) ==
  /\ dir
  /\ Goto(w, next)
  /\ UNCHANGED fsVars

\* Attempt 1 of acquireTargetLock.
Acquire(w) ==
  /\ lockPc[w] = "idle" /\ Scheduled(w)
  /\ acquires[w] < MaxAcquires
  /\ acquires' = [acquires EXCEPT ![w] = @ + 1]
  /\ Mkdir(w, "write1") \/ MkdirExists(w, "stat")
  /\ UNCHANGED envVars

\* meta.json goes into whatever directory is at lockPath now; creating the
\* entry renews the directory's mtime, overwriting it does not.
WriteMeta(w, from) ==
  /\ lockPc[w] = from /\ Scheduled(w)
  /\ dir
  /\ meta' = {Pid(w)}
  /\ expired' = IF meta = {} THEN FALSE ELSE expired
  /\ Goto(w, "holding")
  /\ UNCHANGED <<dir, envVars, acquires>>

\* ENOENT: the directory has been removed meanwhile; the acquisition fails
\* closed ('lock-setup-failed', 'stale-steal-failed').
WriteMetaFails(w) ==
  /\ lockPc[w] \in {"write1", "write2"} /\ Scheduled(w)
  /\ ~dir
  /\ Goto(w, "idle")
  /\ UNCHANGED <<fsVars, envVars, acquires>>

WriteMeta1(w) == WriteMeta(w, "write1")
WriteMeta2(w) == WriteMeta(w, "write2")

\* isLockStale: one stat ...
StatDir(w) ==
  /\ lockPc[w] = "stat" /\ Scheduled(w)
  /\ Goto(w, IF dir /\ ~expired THEN "read" ELSE "remove")
  /\ UNCHANGED <<fsVars, envVars, acquires>>

\* ... then meta.json: no owner on record, or a dead one, is stale; a live
\* owner means 'in-flight'.
ReadMeta(w) ==
  /\ lockPc[w] = "read" /\ Scheduled(w)
  /\ Goto(w, IF \E pid \in meta : PidAlive(pid) THEN "idle" ELSE "remove")
  /\ UNCHANGED <<fsVars, envVars, acquires>>

\* The steal removes whatever directory is at lockPath by now ...
RemoveStale(w) ==
  /\ lockPc[w] = "remove" /\ Scheduled(w)
  /\ dir' = FALSE /\ meta' = {} /\ expired' = FALSE
  /\ Goto(w, "mkdir2")
  /\ UNCHANGED <<envVars, acquires>>

\* ... and makes its own, unless somebody was faster ('stale-steal-raced').
Steal(w) ==
  /\ lockPc[w] = "mkdir2" /\ Scheduled(w)
  /\ Mkdir(w, "write2") \/ MkdirExists(w, "idle")
  /\ UNCHANGED <<envVars, acquires>>

\* releaseTargetLock: unlink meta.json, whoever wrote it ...
ReleaseMeta(w) ==
  /\ lockPc[w] = "holding" /\ Scheduled(w)
  /\ meta' = {}
  /\ Goto(w, "rmdir")
  /\ UNCHANGED <<dir, expired, envVars, acquires>>

\* ... and rmdir, which fails quietly when a meta.json has appeared since.
ReleaseDir(w) ==
  /\ lockPc[w] = "rmdir" /\ Scheduled(w)
  /\ dir' = (dir /\ meta # {})
  /\ expired' = (expired /\ dir')
  /\ Goto(w, "idle")
  /\ UNCHANGED <<meta, envVars, acquires>>

\* A process dies and comes back: its workers are gone, its files are not.
ProcessDies(p) ==
  /\ epoch[p] < MaxCrashes
  /\ epoch' = [epoch EXCEPT ![p] = @ + 1]
  /\ lockPc' = [w \in Workers |-> IF host[w] = p THEN "idle" ELSE lockPc[w]]
  /\ UNCHANGED <<host, fsVars, expiries, acquires>>

\* TARGET_LOCK_TTL_MS passes since the directory was last touched.
Expire ==
  /\ dir /\ ~expired
  /\ expiries < MaxExpiries
  /\ expired' = TRUE
  /\ expiries' = expiries + 1
  /\ UNCHANGED <<host, dir, meta, lockPc, epoch, acquires>>

Step(w) ==
  \/ Acquire(w) \/ WriteMeta1(w) \/ WriteMeta2(w) \/ WriteMetaFails(w)
  \/ StatDir(w) \/ ReadMeta(w) \/ RemoveStale(w) \/ Steal(w)
  \/ ReleaseMeta(w) \/ ReleaseDir(w)

LockNext ==
  \/ \E w \in Workers : Step(w)
  \/ \E p \in Processes : ProcessDies(p)
  \/ Expire

LockSpec == LockInit /\ [][LockNext]_lockVars
-----------------------------------------------------------------------------
\* Every variable stays in its range.
LockTypeOK ==
  /\ host \in [Workers -> Processes]
  /\ dir \in BOOLEAN
  /\ meta \in SUBSET Pids
  /\ expired \in BOOLEAN
  /\ lockPc \in [Workers -> Labels]
  /\ epoch \in [Processes -> Nat]
  /\ expiries \in Nat
  /\ acquires \in [Workers -> Nat]

Inside == {"write1", "write2", "holding", "rmdir"}

\* A reservation belongs to one worker at a time.
ReservedOnce ==
  \A v, w \in Workers : lockPc[v] = "holding" /\ lockPc[w] = "holding" => v = w

OneHost == \A v, w \in Workers : host[v] = host[w]

\* It does between the async tasks of one process, across crashes of that
\* process, as long as no reservation outlives the TTL.
ReservedWithinProcess == OneHost /\ expiries = 0 => ReservedOnce

\* The pid in meta.json is that of a process with a worker that holds the
\* lock, or of a dead process.  So what makes isLockStale answer 'fresh' is
\* never a leftover: releases, thefts and late writes of meta.json included.
OwnerOnRecordHolds ==
  \A pid \in meta :
    PidAlive(pid) => \E w \in Workers : host[w] = pid[1] /\ lockPc[w] = "holding"

\* A worker is turned away as 'in-flight' only while another one really holds
\* a reservation.
RefusalJustified ==
  [][\A w \in Workers :
       lockPc[w] = "read" /\ lockPc'[w] = "idle" /\ epoch' = epoch
         => \E v \in Workers \ {w} : lockPc[v] = "holding"]_lockVars

\* Without a crash the directory never outlives the workers responsible for
\* it: some worker is about to write its meta.json, holds it or removes it.
NoLeakWithoutCrash ==
  dir /\ (\A p \in Processes : epoch[p] = 0) => \E w \in Workers : lockPc[w] \in Inside
=============================================================================
