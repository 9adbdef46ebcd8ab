---------------------------- MODULE ManifestLock ----------------------------
(***************************************************************************)
(* lib/overnight_manifest.cjs: withManifestLock and                        *)
(* updateOvernightManifest.  Every process that changes manifest.json      *)
(* (batch runs, deferred-audit resolvers, promotion, cleanup) goes through *)
(*   mkdir(.manifest.lock), polled until a timeout;                        *)
(*   read manifest.json, mutate a clone, write a temp file, rename it;     *)
(*   rmSync(.manifest.lock) in a finally block.                            *)
(* Each system call is a step of its own.  A process can die at any point; *)
(* nothing in the code takes over the lock directory it leaves behind, the *)
(* error message asks the operator to delete it.                           *)
(***************************************************************************)
EXTENDS Naturals

CONSTANTS
  Procs,        \* processes that update the manifest of one batch
  MaxPolls,     \* sleeps that fit in timeoutMs (10000 / 50 in the code)
  MaxUpdates,   \* bound: updates one process makes
  MaxDeletes    \* bound: how often the operator deletes a stale lock

ASSUME BoundsAssumption ==
  /\ MaxPolls \in Nat
  /\ MaxUpdates \in Nat
  /\ MaxDeletes \in Nat

VARIABLES
  lockDir,      \* does .manifest.lock exist
  manifest,     \* [Procs -> Nat]: updates of each process manifest.json holds
  pc,           \* where each process is
  snap,         \* the manifest a process read under the lock
  polls,        \* sleeps spent waiting for the lock in the current call
  returned,     \* updates reported to the caller as done
  deletes       \* stale locks the operator has deleted

vars == <<lockDir, manifest, pc, snap, polls, returned, deletes>>

Running == {"idle", "waiting", "locked", "loaded", "renamed", "aborting"}
Critical == {"locked", "loaded", "renamed", "aborting"}
Ended == {"timeout", "crashed"}

Zero == [p \in Procs |-> 0]

Init ==
  /\ lockDir = FALSE
  /\ manifest = Zero
  /\ pc = [p \in Procs |-> "idle"]
  /\ snap = [p \in Procs |-> Zero]
  /\ polls = Zero
  /\ returned = Zero
  /\ deletes = 0

\* updateOvernightManifest is called: startedAt = Date.now().
Call(p) ==
  /\ pc[p] = "idle"
  /\ returned[p] < MaxUpdates
  /\ pc' = [pc EXCEPT ![p] = "waiting"]
  /\ polls' = [polls EXCEPT ![p] = 0]
  /\ UNCHANGED <<lockDir, manifest, snap, returned, deletes>>

\* Mutant of Mkdir: mkdirSync(recursive) does not fail on an existing directory.
MkdirRecursive(p) ==
  /\ pc[p] = "waiting"
  /\ lockDir' = TRUE
  /\ pc' = [pc EXCEPT ![p] = "locked"]
  /\ UNCHANGED <<manifest, snap, polls, returned, deletes>>

\* mkdirSync succeeds.
Mkdir(p) ==
  /\ pc[p] = "waiting"
  /\ ~lockDir
  /\ lockDir' = TRUE
  /\ pc' = [pc EXCEPT ![p] = "locked"]
  /\ UNCHANGED <<manifest, snap, polls, returned, deletes>>

\* EEXIST before the timeout: sleep(pollMs) and try again.
Poll(p) ==
  /\ pc[p] = "waiting"
  /\ lockDir
  /\ polls[p] < MaxPolls
  /\ polls' = [polls EXCEPT ![p] = @ + 1]
  /\ UNCHANGED <<lockDir, manifest, pc, snap, returned, deletes>>

\* EEXIST at or after the timeout: MANIFEST_LOCK_TIMEOUT, no update is made.
Timeout(p) ==
  /\ pc[p] = "waiting"
  /\ lockDir
  /\ polls[p] = MaxPolls
  /\ pc' = [pc EXCEPT ![p] = "timeout"]
  /\ UNCHANGED <<lockDir, manifest, snap, polls, returned, deletes>>

\* loadOvernightManifest inside the lock, cloned for the mutation.
Load(p) ==
  /\ pc[p] = "locked"
  /\ snap' = [snap EXCEPT ![p] = manifest]
  /\ pc' = [pc EXCEPT ![p] = "loaded"]
  /\ UNCHANGED <<lockDir, manifest, polls, returned, deletes>>

\* mutate() returned; writeJsonAtomic renames the temp file over
\* manifest.json.  What is written is the clone, not what the file holds now.
Rename(p) ==
  /\ pc[p] = "loaded"
  /\ manifest' = [snap[p] EXCEPT ![p] = @ + 1]
  /\ pc' = [pc EXCEPT ![p] = "renamed"]
  /\ UNCHANGED <<lockDir, snap, polls, returned, deletes>>

\* The load, mutate() or the write throws: the finally block still runs.
Throw(p) ==
  /\ pc[p] \in {"locked", "loaded"}
  /\ pc' = [pc EXCEPT ![p] = "aborting"]
  /\ UNCHANGED <<lockDir, manifest, snap, polls, returned, deletes>>

\* finally: rmSync(lockPath, recursive, force); the call returns or rethrows.
Unlock(p) ==
  /\ pc[p] \in {"renamed", "aborting"}
  /\ lockDir' = FALSE
  /\ returned' = IF pc[p] = "renamed"
                 THEN [returned EXCEPT ![p] = @ + 1] ELSE returned
  /\ pc' = [pc EXCEPT ![p] = "idle"]
  /\ UNCHANGED <<manifest, snap, polls, deletes>>

\* The process dies.  A lock directory it made stays where it is.
Crash(p) ==
  /\ pc[p] \in Running
  /\ pc' = [pc EXCEPT ![p] = "crashed"]
  /\ UNCHANGED <<lockDir, manifest, snap, polls, returned, deletes>>

\* The fix the timeout error proposes: the operator deletes the lock
\* directory, having made sure that no process is inside it.
DeleteStaleLock ==
  /\ lockDir
  /\ \A p \in Procs : pc[p] \notin Critical
  /\ deletes < MaxDeletes
  /\ lockDir' = FALSE
  /\ deletes' = deletes + 1
  /\ UNCHANGED <<manifest, pc, snap, polls, returned>>

Step(p) ==
  \/ Call(p) \/ Mkdir(p) \/ Poll(p) \/ Timeout(p)
  \/ Load(p) \/ Rename(p) \/ Throw(p) \/ Unlock(p)

Next == DeleteStaleLock \/ \E p \in Procs : Step(p) \/ Crash(p)

Spec == Init /\ [][Next]_vars

\* A process that runs keeps running: its timer fires and its synchronous
\* calls return.  Crashes and the operator are not obliged to happen, and
\* nothing obliges a process to make a call.
Progress(p) ==
  Mkdir(p) \/ Poll(p) \/ Timeout(p) \/ Load(p) \/ Rename(p) \/ Throw(p) \/ Unlock(p)

FairSpec == Spec /\ \A p \in Procs : WF_vars(Progress(p))
-----------------------------------------------------------------------------
\* Every variable stays in its range.
TypeOK ==
  /\ lockDir \in BOOLEAN
  /\ manifest \in [Procs -> Nat]
  /\ pc \in [Procs -> Running \cup Ended]
  /\ snap \in [Procs -> [Procs -> Nat]]
  /\ polls \in [Procs -> 0 .. MaxPolls]
  /\ returned \in [Procs -> Nat]
  /\ deletes \in 0 .. MaxDeletes

\* withManifestLock admits one process at a time between its mkdir and its
\* rmSync, however processes poll, time out, throw or die around it.
MutualExclusion ==
  \A p, q \in Procs : pc[p] \in Critical /\ pc[q] \in Critical => p = q

\* The lock directory exists whenever a process is inside it, so no rmSync of
\* one process ever removes the lock of another.
HolderHasDir == \A p \in Procs : pc[p] \in Critical => lockDir

\* The clone a process is about to write is the current manifest: nobody has
\* renamed another version into place since it was read.
SnapshotCurrent == \A p \in Procs : pc[p] = "loaded" => snap[p] = manifest

\* An update that was reported to its caller is in manifest.json for good,
\* whatever other processes write later and wherever they crash.
NoLostUpdate ==
  \A p \in Procs :
    /\ pc[p] = "renamed" => manifest[p] = returned[p] + 1
    /\ pc[p] # "renamed" => manifest[p] >= returned[p]
    /\ pc[p] \in Running \ {"renamed"} => manifest[p] = returned[p]

\* A caller waiting for the lock always gets an answer: the lock or the
\* timeout error, even when the holder died and its directory is never removed.
WaitEnds == \A p \in Procs : pc[p] = "waiting" ~> pc[p] # "waiting"

\* The promised store is what manifest.json holds, whatever lock, temp files and
\* copies there are: every step of this module is one of its updates or leaves it
\* alone.
Store == INSTANCE ManifestStore WITH Procs <- Procs, store <- manifest
RefinesStore == Store!StoreSpec
=============================================================================
