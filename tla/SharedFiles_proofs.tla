------------------------- MODULE SharedFiles_proofs -------------------------
(***************************************************************************)
(* Theorems about the files that several processes share: the manifest of  *)
(* a batch under its lock, the files of a session and of a goal, the lanes *)
(* of a baton batch, the branches made of a session.  For any number of    *)
(* processes, calls, lanes, workers, runs and entries, with the crashes    *)
(* and the operator's commands that the modules allow.                     *)
(***************************************************************************)
EXTENDS ManifestLock, BatonLanes, SessionFiles, Finalize, SequenceTheorems, TLAPS

-----------------------------------------------------------------------------
(* The manifest and its lock.                                              *)

ManifestIInv == TypeOK /\ MutualExclusion /\ HolderHasDir /\ SnapshotCurrent /\ NoLostUpdate

\* No process is inside, nothing is written: the invariant holds initially.
LEMMA InitManifestIInv == Init => ManifestIInv
  <1> SUFFICES ASSUME Init PROVE ManifestIInv
    OBVIOUS
  <1>1. TypeOK
    <2>1. Zero \in [Procs -> Nat] /\ Zero \in [Procs -> 0 .. MaxPolls]
      BY BoundsAssumption DEF BoundsAssumption, Zero
    <2>2. deletes \in 0 .. MaxDeletes
      <3>1. deletes = 0
        BY DEF Init
      <3>. QED
        BY <3>1, BoundsAssumption DEF BoundsAssumption
    <2>3. pc \in [Procs -> Running \cup Ended]
      BY DEF Init, Running
    <2>. QED
      BY <2>1, <2>2, <2>3 DEF Init, TypeOK
  <1>2. MutualExclusion /\ HolderHasDir
    BY DEF Init, MutualExclusion, HolderHasDir, Critical
  <1>3. SnapshotCurrent /\ NoLostUpdate
    BY DEF Init, SnapshotCurrent, NoLostUpdate, Zero
  <1>. QED
    BY <1>1, <1>2, <1>3 DEF ManifestIInv

\* Every step, and a stutter, keeps the variables in their types.
LEMMA ManifestTypePreserved == TypeOK /\ [Next]_vars => TypeOK'
  <1> SUFFICES ASSUME TypeOK, [Next]_vars PROVE TypeOK'
    OBVIOUS
  <1> USE DEF TypeOK
  <1>1. ASSUME NEW p \in Procs, Call(p) PROVE TypeOK'
    BY <1>1, BoundsAssumption DEF BoundsAssumption, Call, Running
  <1>2. ASSUME NEW p \in Procs, Mkdir(p) PROVE TypeOK'
    BY <1>2 DEF Mkdir, Running
  <1>3. ASSUME NEW p \in Procs, Poll(p) PROVE TypeOK'
    BY <1>3, BoundsAssumption DEF BoundsAssumption, Poll
  <1>4. ASSUME NEW p \in Procs, Timeout(p) PROVE TypeOK'
    BY <1>4 DEF Timeout, Ended
  <1>5. ASSUME NEW p \in Procs, Load(p) PROVE TypeOK'
    BY <1>5 DEF Load, Running
  <1>6. ASSUME NEW p \in Procs, Rename(p) PROVE TypeOK'
    BY <1>6 DEF Rename, Running
  <1>7. ASSUME NEW p \in Procs, Throw(p) PROVE TypeOK'
    BY <1>7 DEF Throw, Running
  <1>8. ASSUME NEW p \in Procs, Unlock(p) PROVE TypeOK'
    <2>1. pc' \in [Procs -> Running \cup Ended]
      BY <1>8 DEF Unlock, Running
    <2>2. returned' \in [Procs -> Nat]
      BY <1>8 DEF Unlock
    <2>. QED
      BY <1>8, <2>1, <2>2 DEF Unlock
  <1>9. ASSUME NEW p \in Procs, Crash(p) PROVE TypeOK'
    BY <1>9 DEF Crash, Ended
  <1>10. CASE DeleteStaleLock
    <2>1. deletes' \in 0 .. MaxDeletes
      <3>. HIDE DEF TypeOK
      <3>1. deletes \in 0 .. MaxDeletes
        BY DEF TypeOK
      <3>. QED
        BY <3>1, <1>10, BoundsAssumption DEF BoundsAssumption, DeleteStaleLock
    <2>. QED
      BY <2>1, <1>10 DEF DeleteStaleLock
  <1>11. CASE UNCHANGED vars
    BY <1>11 DEF vars
  <1>. QED
    BY <1>1, <1>2, <1>3, <1>4, <1>5, <1>6, <1>7, <1>8, <1>9, <1>10, <1>11 DEF Next, Step

\* Only mkdir lets a process in, and it fails while one is inside; only an
\* rmSync by the process inside, or a deletion while nobody is, removes the
\* directory.
LEMMA LockPreserved ==
  TypeOK /\ MutualExclusion /\ HolderHasDir /\ [Next]_vars
    => MutualExclusion' /\ HolderHasDir'
  <1> SUFFICES ASSUME TypeOK, MutualExclusion, HolderHasDir, [Next]_vars
               PROVE  MutualExclusion' /\ HolderHasDir'
    OBVIOUS
  <1> USE DEF TypeOK, MutualExclusion, HolderHasDir, Critical
  <1>1. ASSUME NEW p \in Procs, Call(p) \/ Poll(p) \/ Timeout(p) \/ Crash(p)
        PROVE  MutualExclusion' /\ HolderHasDir'
    BY <1>1 DEF Call, Poll, Timeout, Crash
  <1>2. ASSUME NEW p \in Procs, Mkdir(p) PROVE MutualExclusion' /\ HolderHasDir'
    BY <1>2 DEF Mkdir
  <1>3. ASSUME NEW p \in Procs, Load(p) \/ Rename(p) \/ Throw(p)
        PROVE  MutualExclusion' /\ HolderHasDir'
    BY <1>3 DEF Load, Rename, Throw
  <1>4. ASSUME NEW p \in Procs, Unlock(p) PROVE MutualExclusion' /\ HolderHasDir'
    BY <1>4 DEF Unlock
  <1>5. CASE DeleteStaleLock
    BY <1>5 DEF DeleteStaleLock
  <1>6. CASE UNCHANGED vars
    BY <1>6 DEF vars
  <1>. QED
    BY <1>1, <1>2, <1>3, <1>4, <1>5, <1>6 DEF Next, Step

\* A rename needs the lock, so it disturbs no other process's clone, and the
\* clone it writes holds every update made so far.
LEMMA ContentPreserved == ManifestIInv /\ [Next]_vars => SnapshotCurrent' /\ NoLostUpdate'
  <1> SUFFICES ASSUME ManifestIInv, [Next]_vars PROVE SnapshotCurrent' /\ NoLostUpdate'
    OBVIOUS
  <1> USE DEF ManifestIInv, TypeOK, SnapshotCurrent, NoLostUpdate, Running
  <1>1. ASSUME NEW p \in Procs, Call(p) \/ Mkdir(p) \/ Poll(p) \/ Timeout(p)
        PROVE  SnapshotCurrent' /\ NoLostUpdate'
    BY <1>1 DEF Call, Mkdir, Poll, Timeout
  <1>2. ASSUME NEW p \in Procs, Load(p) PROVE SnapshotCurrent' /\ NoLostUpdate'
    BY <1>2 DEF Load
  <1>3. ASSUME NEW p \in Procs, Rename(p) PROVE SnapshotCurrent' /\ NoLostUpdate'
    <2>1. snap[p] = manifest /\ manifest' = [manifest EXCEPT ![p] = @ + 1]
      BY <1>3 DEF Rename
    <2>2. \A q \in Procs \ {p} : pc[q] \notin {"loaded"}
      BY <1>3 DEF Rename, MutualExclusion, Critical
    <2>. QED
      BY <1>3, <2>1, <2>2 DEF Rename
  <1>4. ASSUME NEW p \in Procs, Throw(p) PROVE SnapshotCurrent' /\ NoLostUpdate'
    BY <1>4 DEF Throw
  <1>5. ASSUME NEW p \in Procs, Unlock(p) PROVE SnapshotCurrent' /\ NoLostUpdate'
    BY <1>5 DEF Unlock
  <1>6. ASSUME NEW p \in Procs, Crash(p) PROVE SnapshotCurrent' /\ NoLostUpdate'
    BY <1>6 DEF Crash
  <1>7. CASE DeleteStaleLock
    BY <1>7 DEF DeleteStaleLock
  <1>8. CASE UNCHANGED vars
    BY <1>8 DEF vars
  <1>. QED
    BY <1>1, <1>2, <1>3, <1>4, <1>5, <1>6, <1>7, <1>8 DEF Next, Step

\* The inductive invariant of withManifestLock holds in every behaviour.
THEOREM ManifestIInvHolds == Spec => []ManifestIInv
  <1>1. Init => ManifestIInv
    BY InitManifestIInv
  <1>2. ManifestIInv /\ [Next]_vars => ManifestIInv'
    BY ManifestTypePreserved, LockPreserved, ContentPreserved DEF ManifestIInv
  <1>. QED
    BY <1>1, <1>2, PTL DEF Spec

\* Every variable of the lock protocol stays in its type.
THEOREM ManifestTypeCorrect == Spec => []TypeOK
  BY ManifestIInvHolds, PTL DEF ManifestIInv

\* However many processes share a batch, one at a time is between its mkdir
\* and its rmSync.
THEOREM LockIsExclusive == Spec => []MutualExclusion
  BY ManifestIInvHolds, PTL DEF ManifestIInv

\* An update updateOvernightManifest reported is never lost, through any
\* number of crashes, timeouts and stale locks deleted by the operator.
THEOREM UpdatesSurvive == Spec => []NoLostUpdate
  BY ManifestIInvHolds, PTL DEF ManifestIInv

\* The lock protocol implements the atomic store: every step is one whole
\* read-modify-write of one caller, or does not touch the manifest.
THEOREM StoreIsRefined == Spec => RefinesStore
  <1>1. Init => Store!StoreInit
    BY DEF Init, Store!StoreInit, Zero
  <1>2. ASSUME ManifestIInv, [Next]_vars PROVE [Store!StoreNext]_manifest
    <2> USE DEF Store!StoreNext, Store!Update
    <2>1. ASSUME NEW p \in Procs, Rename(p) PROVE Store!StoreNext
      BY <1>2, <2>1 DEF Rename, ManifestIInv, SnapshotCurrent
    <2>2. ASSUME NEW p \in Procs, Step(p), ~Rename(p) PROVE UNCHANGED manifest
      BY <2>2 DEF Step, Call, Mkdir, Poll, Timeout, Load, Throw, Unlock
    <2>3. ASSUME NEW p \in Procs, Crash(p) PROVE UNCHANGED manifest
      BY <2>3 DEF Crash
    <2>4. CASE DeleteStaleLock
      BY <2>4 DEF DeleteStaleLock
    <2>5. CASE UNCHANGED vars
      BY <2>5 DEF vars
    <2>. QED
      BY <1>2, <2>1, <2>2, <2>3, <2>4, <2>5 DEF Next
  <1>. QED
    BY <1>1, <1>2, ManifestIInvHolds, PTL DEF Spec, RefinesStore, Store!StoreSpec

-----------------------------------------------------------------------------
(* The files of a session and of a goal.                                   *)

Steps == {"start", "fill", "bare", "whole", "append", "ledger", "load", "manifest"}
ActiveCall == [kind : CallKinds, id : Ids, seen : SUBSET Ids, at : Steps]
CallsTyped == /\ call \in [Processes -> ActiveCall \cup {NoCall}]
              /\ done \in [CallKinds -> SUBSET Ids]
FilesTyped ==
    /\ doc \in [form : {"absent", "empty", "bare", "whole"}, tried : SUBSET Ids]
    /\ ideas \in [form : {"absent", "empty", "whole"}, listed : SUBSET Ids]
    /\ docFd \in Processes \cup {NoProcess}
    /\ sessionLog \subseteq Ids /\ decided \subseteq Ids /\ accepted \subseteq Ids
    /\ calls \in 0..MaxCalls /\ deaths \in 0..MaxDeaths

(* A call of a kind is under way.                                          *)
LEMMA KindIsActive ==
  ASSUME CallsTyped, NEW p \in Processes, call[p].kind \in CallKinds
  PROVE  call[p] # NoCall /\ call[p] \in ActiveCall
<1>1. NoCall.kind \notin CallKinds
  BY DEF NoCall, CallKinds
<1>2. call[p] \in ActiveCall \cup {NoCall}
  BY DEF CallsTyped
<1> QED
  BY <1>1, <1>2

(* How the steps of a call change the table of calls.                      *)
LEMMA CallMoves ==
  ASSUME CallsTyped, NEW p \in Processes, call[p] # NoCall
  PROVE  /\ \A at \in Steps : Goto(p, at) => CallsTyped'
         /\ \A at \in Steps, entries \in SUBSET Ids : See(p, at, entries) => CallsTyped'
         /\ Return(p) => CallsTyped'
         /\ CallThrows(p) => CallsTyped'
<1>1. call[p] \in ActiveCall
  BY DEF CallsTyped
<1>2. ASSUME NEW at \in Steps, Goto(p, at) PROVE CallsTyped'
  <2>1. [call[p] EXCEPT !.at = at] \in ActiveCall
    BY <1>1 DEF ActiveCall
  <2> QED
    BY <1>2, <2>1 DEF CallsTyped, Goto
<1>3. ASSUME NEW at \in Steps, NEW entries \in SUBSET Ids, See(p, at, entries) PROVE CallsTyped'
  <2>1. [call[p] EXCEPT !.at = at, !.seen = entries] \in ActiveCall
    BY <1>1 DEF ActiveCall
  <2> QED
    BY <1>3, <2>1 DEF CallsTyped, See
<1>4. call[p].kind \in CallKinds /\ call[p].id \in Ids
  BY <1>1 DEF ActiveCall
<1>5. Return(p) => CallsTyped'
  BY <1>4 DEF CallsTyped, Return
<1>6. CallThrows(p) => CallsTyped'
  BY DEF CallsTyped, CallThrows
<1> QED
  BY <1>2, <1>3, <1>5, <1>6

(* The calls and the files keep their types.                               *)
LEMMA SessionTypeStep ==
  CallsTyped /\ FilesTyped /\ [SessionStep]_sessionVars => CallsTyped' /\ FilesTyped'
<1> SUFFICES ASSUME CallsTyped, FilesTyped, [SessionStep]_sessionVars
             PROVE  CallsTyped' /\ FilesTyped'
  OBVIOUS
<1> USE SessionAssumption DEF FilesTyped, goalFiles, Counted
<1>0. ASSUME NEW p \in Processes, call[p].kind \in CallKinds
      PROVE  /\ call[p] # NoCall /\ call[p].id \in Ids /\ call[p].seen \subseteq Ids
  BY <1>0, KindIsActive DEF ActiveCall
<1>1. ASSUME NEW p \in Processes, NEW kind \in CallKinds, Begin(p, kind)
      PROVE  CallsTyped' /\ FilesTyped'
  <2>1. calls + 1 \in Ids
    BY <1>1 DEF Begin, Ids
  <2>2. [kind |-> kind, at |-> "start", id |-> calls + 1, seen |-> {}] \in ActiveCall
    BY <2>1 DEF ActiveCall, Steps
  <2>3. CallsTyped'
    BY <1>1, <2>2 DEF CallsTyped, Begin
  <2> QED
    BY <1>1, <2>1, <2>3 DEF Begin, Ids
<1>2. ASSUME NEW p \in Processes, CreateDoc(p) PROVE CallsTyped' /\ FilesTyped'
  <2>1. call[p] # NoCall
    BY <1>2, <1>0 DEF CreateDoc, At, CallKinds
  <2>2. CallsTyped'
    <3>1. Goto(p, "fill") \/ Return(p)
      BY <1>2 DEF CreateDoc
    <3> QED
      BY <3>1, <2>1, CallMoves DEF Steps
  <2>3. FilesTyped'
    BY <1>2, <1>0 DEF CreateDoc, At, CallKinds
  <2> QED
    BY <2>2, <2>3
<1>3. ASSUME NEW p \in Processes, FillDoc(p) PROVE CallsTyped' /\ FilesTyped'
  <2>1. call[p] # NoCall
    BY <1>3, <1>0 DEF FillDoc, At, CallKinds
  <2>2. CallsTyped'
    BY <1>3, <1>0, <2>1, CallMoves DEF Steps, At, CallKinds, FillDoc
  <2>3. FilesTyped'
    BY <1>3, <1>0 DEF FillDoc, At, CallKinds
  <2> QED
    BY <2>2, <2>3
<1>4. ASSUME NEW p \in Processes, ReadDoc(p) PROVE CallsTyped' /\ FilesTyped'
  <2>1. call[p] # NoCall
    BY <1>4, <1>0 DEF ReadDoc, At, CallKinds
  <2>2. CallsTyped'
    BY <1>4, <1>0, <2>1, CallMoves DEF Steps, At, CallKinds, ReadDoc
  <2>3. FilesTyped'
    BY <1>4, <1>0 DEF ReadDoc, At, CallKinds
  <2> QED
    BY <2>2, <2>3
<1>5. ASSUME NEW p \in Processes, RenameDoc(p) PROVE CallsTyped' /\ FilesTyped'
  <2>1. call[p] # NoCall
    BY <1>5, <1>0 DEF RenameDoc, CallKinds
  <2>2. CallsTyped'
    BY <1>5, <1>0, <2>1, CallMoves DEF Steps, At, CallKinds, RenameDoc
  <2>3. FilesTyped'
    BY <1>5, <1>0 DEF RenameDoc, CallKinds
  <2> QED
    BY <2>2, <2>3
<1>6. ASSUME NEW p \in Processes, AppendLog(p) PROVE CallsTyped' /\ FilesTyped'
  <2>1. call[p] # NoCall
    BY <1>6, <1>0 DEF AppendLog, At, CallKinds
  <2>2. CallsTyped'
    BY <1>6, <1>0, <2>1, CallMoves DEF Steps, At, CallKinds, AppendLog
  <2>3. FilesTyped'
    BY <1>6, <1>0 DEF AppendLog, At, CallKinds
  <2> QED
    BY <2>2, <2>3
<1>7. ASSUME NEW p \in Processes, CreateIdeas(p) PROVE CallsTyped' /\ FilesTyped'
  <2>1. call[p] # NoCall
    BY <1>7, <1>0 DEF CreateIdeas, At, CallKinds
  <2>2. CallsTyped'
    <3>1. Goto(p, "fill") \/ Goto(p, "append")
      BY <1>7 DEF CreateIdeas
    <3> QED
      BY <3>1, <2>1, CallMoves DEF Steps
  <2>3. FilesTyped'
    BY <1>7, <1>0 DEF CreateIdeas, At, CallKinds
  <2> QED
    BY <2>2, <2>3
<1>8. ASSUME NEW p \in Processes, FillIdeas(p) PROVE CallsTyped' /\ FilesTyped'
  <2>1. call[p] # NoCall
    BY <1>8, <1>0 DEF FillIdeas, At, CallKinds
  <2>2. CallsTyped'
    BY <1>8, <1>0, <2>1, CallMoves DEF Steps, At, CallKinds, FillIdeas
  <2>3. FilesTyped'
    BY <1>8, <1>0 DEF FillIdeas, At, CallKinds
  <2> QED
    BY <2>2, <2>3
<1>9. ASSUME NEW p \in Processes, AppendIdea(p) PROVE CallsTyped' /\ FilesTyped'
  <2>1. call[p] # NoCall
    BY <1>9, <1>0 DEF AppendIdea, At, CallKinds
  <2>2. CallsTyped'
    BY <1>9, <1>0, <2>1, CallMoves DEF Steps, At, CallKinds, AppendIdea
  <2>3. FilesTyped'
    BY <1>9, <1>0 DEF AppendIdea, At, CallKinds
  <2> QED
    BY <2>2, <2>3
<1>10. ASSUME NEW p \in Processes, ReadDecisions(p) PROVE CallsTyped' /\ FilesTyped'
  <2>1. call[p] # NoCall
    BY <1>10, <1>0 DEF ReadDecisions, At, CallKinds
  <2>2. CallsTyped'
    BY <1>10, <1>0, <2>1, CallMoves DEF Steps, At, CallKinds, ReadDecisions
  <2>3. FilesTyped'
    BY <1>10, <1>0 DEF ReadDecisions, At, CallKinds
  <2> QED
    BY <2>2, <2>3
<1>11. ASSUME NEW p \in Processes, WriteDecisions(p) PROVE CallsTyped' /\ FilesTyped'
  <2>1. call[p] # NoCall
    BY <1>11, <1>0 DEF WriteDecisions, At, CallKinds
  <2>2. CallsTyped'
    BY <1>11, <1>0, <2>1, CallMoves DEF Steps, At, CallKinds, WriteDecisions
  <2>3. FilesTyped'
    BY <1>11, <1>0 DEF WriteDecisions, At, CallKinds
  <2> QED
    BY <2>2, <2>3
<1>12. ASSUME NEW p \in Processes, LoadGoal(p) PROVE CallsTyped' /\ FilesTyped'
  <2>1. call[p] # NoCall
    BY <1>12, <1>0 DEF LoadGoal, At, CallKinds
  <2>2. CallsTyped'
    BY <1>12, <1>0, <2>1, CallMoves DEF Steps, At, CallKinds, LoadGoal
  <2>3. FilesTyped'
    BY <1>12, <1>0 DEF LoadGoal, At, CallKinds
  <2> QED
    BY <2>2, <2>3
<1>13. ASSUME NEW p \in Processes, WriteGoal(p) PROVE CallsTyped' /\ FilesTyped'
  <2>1. call[p] # NoCall
    BY <1>13, <1>0 DEF WriteGoal, At, CallKinds
  <2>2. CallsTyped'
    BY <1>13, <1>0, <2>1, CallMoves DEF Steps, At, CallKinds, WriteGoal
  <2>3. FilesTyped'
    BY <1>13, <1>0 DEF WriteGoal, At, CallKinds
  <2> QED
    BY <2>2, <2>3
<1>14. ASSUME NEW p \in Processes, ProcessDies(p) PROVE CallsTyped' /\ FilesTyped'
  <2>1. call[p] # NoCall
    BY <1>14 DEF ProcessDies
  <2>2. CallsTyped'
    BY <1>14, <1>0, <2>1, CallMoves DEF Steps, At, CallKinds, ProcessDies
  <2>3. FilesTyped'
    BY <1>14, <1>0 DEF ProcessDies, CallKinds
  <2> QED
    BY <2>2, <2>3
<1>15. CASE UNCHANGED sessionVars
  BY <1>15 DEF sessionVars, CallsTyped
<1> QED
  BY <1>1, <1>2, <1>3, <1>4, <1>5, <1>6, <1>7, <1>8, <1>9, <1>10,
   <1>11, <1>12, <1>13, <1>14, <1>15 DEF SessionStep

(* What keeps the records of a session as long as no two calls raced.  A   *)
(* call that reads and rewrites a file is alone with it ...                *)
Calls(p, kind) == call[p].kind = kind

Alone ==
    \A p, q \in Processes :
        /\ Calls(p, "tried") /\ Calls(q, "tried") => p = q
        /\ Calls(p, "decide") /\ Calls(q, "decide") => p = q
        /\ ~(Calls(p, "init") /\ Calls(q, "tried"))

(* ... the document is empty only while its creator is about to fill it,   *)
(* when nothing was recorded in it yet ...                                 *)
DocKept ==
    /\ doc.form # "bare"
    /\ doc.form = "empty" => docFd \in Processes /\ At(docFd, "init", "fill")
    /\ doc.form = "absent" => done["tried"] = {} /\ done["init"] = {}
    /\ \A p \in Processes :
          /\ At(p, "init", "fill") => doc.form # "absent" /\ done["tried"] = {}
          /\ ~At(p, "tried", "bare")
          /\ At(p, "tried", "whole") => call[p].seen = doc.tried
    /\ done["tried"] \subseteq doc.tried

(* ... the same goes for the list of ideas, which a second call may append *)
(* to once it is whole ...                                                 *)
IdeasKept ==
    /\ ideas.form # "whole" => done["idea"] = {}
    /\ ideas.form # "whole" => \A p, q \in Processes :
                                  Calls(p, "idea") /\ Calls(q, "idea") => p = q
    /\ ideas.form = "empty" => \E p \in Processes : At(p, "idea", "fill")
    /\ \A p \in Processes : /\ At(p, "idea", "fill") => ideas.form = "empty"
                            /\ At(p, "idea", "append") => ideas.form = "whole"
    /\ done["idea"] \subseteq ideas.listed

(* ... and what a decision has read is still what the files hold.          *)
DecisionsKept ==
    /\ \A p \in Processes :
          /\ At(p, "decide", "ledger") => call[p].seen = decided
          /\ At(p, "decide", "load") \/ At(p, "decide", "manifest") => call[p].id \in decided
          /\ At(p, "decide", "manifest") => call[p].seen = accepted
    /\ done["decide"] \subseteq decided \cap accepted

RecordedInv == /\ done["log"] \subseteq sessionLog
               /\ ~raced => Alone /\ DocKept /\ IdeasKept /\ DecisionsKept

(* What the steps of a call leave in the table of calls and of results.    *)
OthersWait(p) == \A q \in Processes : q # p => call'[q] = call[q]
Moved(p, at, entries) == /\ call'[p].kind = call[p].kind /\ call'[p].id = call[p].id
                         /\ call'[p].at = at /\ call'[p].seen = entries
                         /\ OthersWait(p) /\ done' = done
Left(p) == call'[p].kind = "none" /\ OthersWait(p)
Recorded(p) ==
    \A k \in CallKinds : done'[k] = IF k = call[p].kind THEN done[k] \cup {call[p].id} ELSE done[k]

\* What the four ways out of a step (on, reading, returning, throwing) do to the calls.
LEMMA CallShapes ==
  ASSUME CallsTyped, NEW p \in Processes, call[p] # NoCall
  PROVE  /\ \A at \in Steps : Goto(p, at) => Moved(p, at, call[p].seen)
         /\ \A at \in Steps, entries \in SUBSET Ids : See(p, at, entries) => Moved(p, at, entries)
         /\ Return(p) => Left(p) /\ Recorded(p)
         /\ CallThrows(p) => Left(p) /\ done' = done
<1>1. call[p] \in ActiveCall /\ call \in [Processes -> ActiveCall \cup {NoCall}]
  BY DEF CallsTyped
<1>2. ASSUME NEW c, call' = [call EXCEPT ![p] = c] PROVE call'[p] = c /\ OthersWait(p)
  BY <1>1, <1>2 DEF OthersWait
<1>3. ASSUME NEW at \in Steps, Goto(p, at) PROVE Moved(p, at, call[p].seen)
  <2>1. call'[p] = [call[p] EXCEPT !.at = at] /\ OthersWait(p) /\ done' = done
    BY <1>1, <1>2, <1>3 DEF Goto
  <2> QED
    BY <1>1, <2>1 DEF Moved, ActiveCall
<1>4. ASSUME NEW at \in Steps, NEW entries \in SUBSET Ids, See(p, at, entries)
      PROVE  Moved(p, at, entries)
  <2>1. call' = [call EXCEPT ![p] = [call[p] EXCEPT !.at = at, !.seen = entries]]
    BY <1>1, <1>4 DEF See, ActiveCall
  <2>2. call'[p] = [call[p] EXCEPT !.at = at, !.seen = entries] /\ OthersWait(p) /\ done' = done
    BY <1>2, <1>4, <2>1 DEF See
  <2> QED
    BY <1>1, <2>2 DEF Moved, ActiveCall
<1>5. ASSUME Return(p) PROVE Left(p) /\ Recorded(p)
  <2>1. Left(p)
    BY <1>2, <1>5 DEF Return, Left, NoCall
  <2>2. Recorded(p)
    BY <1>1, <1>5 DEF CallsTyped, Return, ActiveCall, Recorded
  <2> QED
    BY <2>1, <2>2
<1>6. ASSUME CallThrows(p) PROVE Left(p) /\ done' = done
  BY <1>2, <1>6 DEF CallThrows, Left, NoCall
<1> QED
  BY <1>3, <1>4, <1>5, <1>6

(* Every step that starts no race and kills no process keeps the records.  *)
LEMMA RecordsStep ==
  CallsTyped /\ FilesTyped /\ RecordedInv /\ [SessionStep]_sessionVars => RecordedInv'
<1> SUFFICES ASSUME CallsTyped, FilesTyped, RecordedInv, [SessionStep]_sessionVars
             PROVE  RecordedInv'
  OBVIOUS
<1> USE DEF CallKinds
<1>0. /\ done["log"] \subseteq sessionLog
      /\ ~raced => Alone /\ DocKept /\ IdeasKept /\ DecisionsKept
  BY DEF RecordedInv
<1>1. ASSUME NEW p \in Processes, NEW kind \in CallKinds, Begin(p, kind) PROVE RecordedInv'
  <2>1. /\ call'[p].kind = kind /\ call'[p].at = "start" /\ OthersWait(p)
        /\ UNCHANGED <<doc, docFd, sessionLog, ideas, decided, accepted, done>>
        /\ call[p].kind = "none"
    <3>1. call' = [call EXCEPT ![p] = [kind |-> kind, at |-> "start", id |-> calls + 1,
                                       seen |-> {}]]
      BY <1>1 DEF Begin
    <3>2. call'[p].kind = kind /\ call'[p].at = "start" /\ OthersWait(p)
      <4>1. call \in [Processes -> ActiveCall \cup {NoCall}]
        BY DEF CallsTyped
      <4> QED
        BY <3>1, <4>1 DEF OthersWait
    <3>3. call[p].kind = "none"
      <4>1. call[p] = NoCall
        BY <1>1 DEF Begin
      <4>2. NoCall.kind = "none"
        BY DEF NoCall
      <4> QED
        BY <4>1, <4>2
    <3> QED
      BY <1>1, <3>2, <3>3 DEF Begin, goalFiles
  <2>2. ASSUME ~raced'
        PROVE  /\ ~raced
               /\ \A q \in Processes : q # p =>
                     /\ kind \in {"tried", "decide"} => call[q].kind # kind
                     /\ ~(kind = "init" /\ call[q].kind = "tried")
                     /\ ~(kind = "tried" /\ call[q].kind = "init")
                     /\ kind = "idea" /\ ideas.form # "whole" => call[q].kind # "idea"
    BY <1>1, <2>2 DEF Begin
  <2>3. ASSUME ~raced' PROVE Alone'
    BY <1>0, <2>1, <2>2, <2>3 DEF OthersWait, Alone, Calls
  <2>4. ASSUME ~raced' PROVE DocKept'
    BY <1>0, <2>1, <2>2, <2>4 DEF OthersWait, DocKept, At
  <2>5. ASSUME ~raced' PROVE IdeasKept'
    BY <1>0, <2>1, <2>2, <2>5 DEF OthersWait, IdeasKept, At, Calls
  <2>6. ASSUME ~raced' PROVE DecisionsKept'
    BY <1>0, <2>1, <2>2, <2>6 DEF OthersWait, DecisionsKept, At
  <2> QED
    BY <1>0, <2>1, <2>3, <2>4, <2>5, <2>6 DEF RecordedInv
<1>2. ASSUME NEW p \in Processes, CreateDoc(p) PROVE RecordedInv'
  <2>0. call[p].kind = "init" /\ call[p].at = "start" /\ call[p] # NoCall /\ raced' = raced
    BY <1>2, KindIsActive DEF CreateDoc, At, Counted
  <2>1. \/ Goto(p, "fill") /\ doc.form = "absent" /\ doc'.form = "empty" /\ doc'.tried = doc.tried /\ docFd' = p
        \/ Return(p) /\ doc.form # "absent" /\ UNCHANGED <<doc, docFd>>
    BY <1>2 DEF CreateDoc, FilesTyped
  <2>2. \/ Moved(p, "fill", call[p].seen) /\ doc.form = "absent" /\ doc'.form = "empty" /\ doc'.tried = doc.tried /\ docFd' = p
        \/ Left(p) /\ Recorded(p) /\ doc.form # "absent" /\ UNCHANGED <<doc, docFd>>
    BY <2>0, <2>1, CallShapes DEF Steps, FilesTyped
  <2>3. ideas' = ideas /\ UNCHANGED <<decided, accepted>> /\ sessionLog' = sessionLog
    BY <1>2 DEF CreateDoc, goalFiles
  <2>4. ASSUME ~raced PROVE Alone'
    BY <1>0, <2>0, <2>2, <2>3, <2>4 DEF Moved, Left, OthersWait, Recorded, Alone, Calls
  <2>5. ASSUME ~raced PROVE DocKept'
    BY <1>0, <2>0, <2>2, <2>3, <2>5 DEF Moved, Left, OthersWait, Recorded, DocKept, Alone, At, Calls
  <2>6. ASSUME ~raced PROVE IdeasKept'
    BY <1>0, <2>0, <2>2, <2>3, <2>6 DEF Moved, Left, OthersWait, Recorded, IdeasKept, At, Calls
  <2>7. ASSUME ~raced PROVE DecisionsKept'
    BY <1>0, <2>0, <2>2, <2>3, <2>7 DEF Moved, Left, OthersWait, Recorded, DecisionsKept, Alone, At, Calls
  <2>8. done'["log"] \subseteq sessionLog'
    BY <1>0, <2>0, <2>2, <2>3 DEF Moved, Recorded
  <2> QED
    BY <2>0, <2>4, <2>5, <2>6, <2>7, <2>8 DEF RecordedInv
<1>3. ASSUME NEW p \in Processes, FillDoc(p) PROVE RecordedInv'
  <2>0. call[p].kind = "init" /\ call[p].at = "fill" /\ call[p] # NoCall /\ raced' = raced
    BY <1>3, KindIsActive DEF FillDoc, At, Counted
  <2>1. \/ Return(p) /\ docFd = p /\ doc'.form = "whole" /\ doc'.tried = {} /\ docFd' = docFd
        \/ Return(p) /\ docFd # p /\ UNCHANGED <<doc, docFd>>
    BY <1>3 DEF FillDoc, FilesTyped
  <2>2. \/ Left(p) /\ Recorded(p) /\ docFd = p /\ doc'.form = "whole" /\ doc'.tried = {} /\ docFd' = docFd
        \/ Left(p) /\ Recorded(p) /\ docFd # p /\ UNCHANGED <<doc, docFd>>
    BY <2>0, <2>1, CallShapes DEF Steps, FilesTyped
  <2>3. ideas' = ideas /\ UNCHANGED <<decided, accepted>> /\ sessionLog' = sessionLog
    BY <1>3 DEF FillDoc, goalFiles
  <2>4. ASSUME ~raced PROVE Alone'
    BY <1>0, <2>0, <2>2, <2>3, <2>4 DEF Moved, Left, OthersWait, Recorded, Alone, Calls
  <2>5. ASSUME ~raced PROVE DocKept'
    BY <1>0, <2>0, <2>2, <2>3, <2>5 DEF Moved, Left, OthersWait, Recorded, DocKept, Alone, At, Calls
  <2>6. ASSUME ~raced PROVE IdeasKept'
    BY <1>0, <2>0, <2>2, <2>3, <2>6 DEF Moved, Left, OthersWait, Recorded, IdeasKept, At, Calls
  <2>7. ASSUME ~raced PROVE DecisionsKept'
    BY <1>0, <2>0, <2>2, <2>3, <2>7 DEF Moved, Left, OthersWait, Recorded, DecisionsKept, Alone, At, Calls
  <2>8. done'["log"] \subseteq sessionLog'
    BY <1>0, <2>0, <2>2, <2>3 DEF Moved, Recorded
  <2> QED
    BY <2>0, <2>4, <2>5, <2>6, <2>7, <2>8 DEF RecordedInv
<1>4. ASSUME NEW p \in Processes, ReadDoc(p) PROVE RecordedInv'
  <2>0. call[p].kind = "tried" /\ call[p].at = "start" /\ call[p] # NoCall /\ raced' = raced
    BY <1>4, KindIsActive DEF ReadDoc, At, Counted
  <2>1. \/ CallThrows(p)
        \/ See(p, "bare", {}) /\ doc.form = "empty"
        \/ See(p, doc.form, doc.tried) /\ doc.form \in {"bare", "whole"}
    BY <1>4 DEF ReadDoc, FilesTyped
  <2>2. \/ Left(p) /\ done' = done
        \/ Moved(p, "bare", {}) /\ doc.form = "empty"
        \/ Moved(p, doc.form, doc.tried) /\ doc.form \in {"bare", "whole"}
    BY <2>0, <2>1, CallShapes DEF Steps, FilesTyped
  <2>3. UNCHANGED <<doc, docFd>> /\ ideas' = ideas /\ UNCHANGED <<decided, accepted>> /\ sessionLog' = sessionLog
    BY <1>4 DEF ReadDoc, goalFiles
  <2>4. ASSUME ~raced PROVE Alone'
    BY <1>0, <2>0, <2>2, <2>3, <2>4 DEF Moved, Left, OthersWait, Recorded, Alone, Calls
  <2>5. ASSUME ~raced PROVE DocKept'
    BY <1>0, <2>0, <2>2, <2>3, <2>5 DEF Moved, Left, OthersWait, Recorded, DocKept, Alone, At, Calls
  <2>6. ASSUME ~raced PROVE IdeasKept'
    BY <1>0, <2>0, <2>2, <2>3, <2>6 DEF Moved, Left, OthersWait, Recorded, IdeasKept, At, Calls
  <2>7. ASSUME ~raced PROVE DecisionsKept'
    BY <1>0, <2>0, <2>2, <2>3, <2>7 DEF Moved, Left, OthersWait, Recorded, DecisionsKept, Alone, At, Calls
  <2>8. done'["log"] \subseteq sessionLog'
    BY <1>0, <2>0, <2>2, <2>3 DEF Moved, Recorded
  <2> QED
    BY <2>0, <2>4, <2>5, <2>6, <2>7, <2>8 DEF RecordedInv
<1>5. ASSUME NEW p \in Processes, RenameDoc(p) PROVE RecordedInv'
  <2>0. call[p].kind = "tried" /\ call[p].at \in {"bare", "whole"} /\ call[p] # NoCall /\ raced' = raced
    BY <1>5, KindIsActive DEF RenameDoc, At, Counted
  <2>1. Return(p) /\ doc'.form = call[p].at /\ doc'.tried = call[p].seen \cup {call[p].id}
    BY <1>5 DEF RenameDoc, FilesTyped
  <2>2. Left(p) /\ Recorded(p) /\ doc'.form = call[p].at /\ doc'.tried = call[p].seen \cup {call[p].id}
    BY <2>0, <2>1, CallShapes DEF Steps, FilesTyped
  <2>3. ideas' = ideas /\ UNCHANGED <<decided, accepted>> /\ sessionLog' = sessionLog
    BY <1>5 DEF RenameDoc, goalFiles
  <2>4. ASSUME ~raced PROVE Alone'
    BY <1>0, <2>0, <2>2, <2>3, <2>4 DEF Moved, Left, OthersWait, Recorded, Alone, Calls
  <2>5. ASSUME ~raced PROVE DocKept'
    BY <1>0, <2>0, <2>2, <2>3, <2>5 DEF Moved, Left, OthersWait, Recorded, DocKept, Alone, At, Calls
  <2>6. ASSUME ~raced PROVE IdeasKept'
    BY <1>0, <2>0, <2>2, <2>3, <2>6 DEF Moved, Left, OthersWait, Recorded, IdeasKept, At, Calls
  <2>7. ASSUME ~raced PROVE DecisionsKept'
    BY <1>0, <2>0, <2>2, <2>3, <2>7 DEF Moved, Left, OthersWait, Recorded, DecisionsKept, Alone, At, Calls
  <2>8. done'["log"] \subseteq sessionLog'
    BY <1>0, <2>0, <2>2, <2>3 DEF Moved, Recorded
  <2> QED
    BY <2>0, <2>4, <2>5, <2>6, <2>7, <2>8 DEF RecordedInv
<1>6. ASSUME NEW p \in Processes, AppendLog(p) PROVE RecordedInv'
  <2>0. call[p].kind = "log" /\ call[p].at = "start" /\ call[p] # NoCall /\ raced' = raced
    BY <1>6, KindIsActive DEF AppendLog, At, Counted
  <2>1. Return(p) /\ sessionLog' = sessionLog \cup {call[p].id}
    BY <1>6 DEF AppendLog, FilesTyped
  <2>2. Left(p) /\ Recorded(p) /\ sessionLog' = sessionLog \cup {call[p].id}
    BY <2>0, <2>1, CallShapes DEF Steps, FilesTyped
  <2>3. UNCHANGED <<doc, docFd>> /\ ideas' = ideas /\ UNCHANGED <<decided, accepted>>
    BY <1>6 DEF AppendLog, goalFiles
  <2>4. ASSUME ~raced PROVE Alone'
    BY <1>0, <2>0, <2>2, <2>3, <2>4 DEF Moved, Left, OthersWait, Recorded, Alone, Calls
  <2>5. ASSUME ~raced PROVE DocKept'
    BY <1>0, <2>0, <2>2, <2>3, <2>5 DEF Moved, Left, OthersWait, Recorded, DocKept, Alone, At, Calls
  <2>6. ASSUME ~raced PROVE IdeasKept'
    BY <1>0, <2>0, <2>2, <2>3, <2>6 DEF Moved, Left, OthersWait, Recorded, IdeasKept, At, Calls
  <2>7. ASSUME ~raced PROVE DecisionsKept'
    BY <1>0, <2>0, <2>2, <2>3, <2>7 DEF Moved, Left, OthersWait, Recorded, DecisionsKept, Alone, At, Calls
  <2>8. done'["log"] \subseteq sessionLog'
    BY <1>0, <2>0, <2>2, <2>3 DEF Moved, Recorded
  <2> QED
    BY <2>0, <2>4, <2>5, <2>6, <2>7, <2>8 DEF RecordedInv
<1>7. ASSUME NEW p \in Processes, CreateIdeas(p) PROVE RecordedInv'
  <2>0. call[p].kind = "idea" /\ call[p].at = "start" /\ call[p] # NoCall /\ raced' = raced
    BY <1>7, KindIsActive DEF CreateIdeas, At, Counted
  <2>1. \/ Goto(p, "fill") /\ ideas.form = "absent" /\ ideas'.form = "empty" /\ ideas'.listed = ideas.listed
        \/ Goto(p, "append") /\ ideas.form # "absent" /\ ideas' = ideas
    BY <1>7 DEF CreateIdeas, FilesTyped
  <2>2. \/ Moved(p, "fill", call[p].seen) /\ ideas.form = "absent" /\ ideas'.form = "empty" /\ ideas'.listed = ideas.listed
        \/ Moved(p, "append", call[p].seen) /\ ideas.form # "absent" /\ ideas' = ideas
    BY <2>0, <2>1, CallShapes DEF Steps, FilesTyped
  <2>3. UNCHANGED <<doc, docFd>> /\ UNCHANGED <<decided, accepted>> /\ sessionLog' = sessionLog
    BY <1>7 DEF CreateIdeas, goalFiles
  <2>4. ASSUME ~raced PROVE Alone'
    BY <1>0, <2>0, <2>2, <2>3, <2>4 DEF Moved, Left, OthersWait, Recorded, Alone, Calls
  <2>5. ASSUME ~raced PROVE DocKept'
    BY <1>0, <2>0, <2>2, <2>3, <2>5 DEF Moved, Left, OthersWait, Recorded, DocKept, Alone, At, Calls
  <2>6. ASSUME ~raced PROVE IdeasKept'
    <3>1. CASE Moved(p, "fill", call[p].seen) /\ ideas.form = "absent" /\ ideas'.form = "empty"
                 /\ ideas'.listed = ideas.listed
      BY <1>0, <2>0, <2>6, <3>1 DEF Moved, OthersWait, IdeasKept, At, Calls
    <3>2. CASE Moved(p, "append", call[p].seen) /\ ideas.form # "absent" /\ ideas' = ideas
      <4>1. ideas.form = "whole"
        BY <1>0, <2>0, <2>6, <3>2 DEF FilesTyped, IdeasKept, At, Calls
      <4> QED
        BY <1>0, <2>0, <2>6, <3>2, <4>1 DEF Moved, OthersWait, IdeasKept, At, Calls
    <3> QED
      BY <2>2, <3>1, <3>2
  <2>7. ASSUME ~raced PROVE DecisionsKept'
    BY <1>0, <2>0, <2>2, <2>3, <2>7 DEF Moved, Left, OthersWait, Recorded, DecisionsKept, Alone, At, Calls
  <2>8. done'["log"] \subseteq sessionLog'
    BY <1>0, <2>0, <2>2, <2>3 DEF Moved, Recorded
  <2> QED
    BY <2>0, <2>4, <2>5, <2>6, <2>7, <2>8 DEF RecordedInv
<1>8. ASSUME NEW p \in Processes, FillIdeas(p) PROVE RecordedInv'
  <2>0. call[p].kind = "idea" /\ call[p].at = "fill" /\ call[p] # NoCall /\ raced' = raced
    BY <1>8, KindIsActive DEF FillIdeas, At, Counted
  <2>1. Goto(p, "append") /\ ideas'.form = "whole" /\ ideas'.listed = {}
    BY <1>8 DEF FillIdeas, FilesTyped
  <2>2. Moved(p, "append", call[p].seen) /\ ideas'.form = "whole" /\ ideas'.listed = {}
    BY <2>0, <2>1, CallShapes DEF Steps, FilesTyped
  <2>3. UNCHANGED <<doc, docFd>> /\ UNCHANGED <<decided, accepted>> /\ sessionLog' = sessionLog
    BY <1>8 DEF FillIdeas, goalFiles
  <2>4. ASSUME ~raced PROVE Alone'
    BY <1>0, <2>0, <2>2, <2>3, <2>4 DEF Moved, Left, OthersWait, Recorded, Alone, Calls
  <2>5. ASSUME ~raced PROVE DocKept'
    BY <1>0, <2>0, <2>2, <2>3, <2>5 DEF Moved, Left, OthersWait, Recorded, DocKept, Alone, At, Calls
  <2>6. ASSUME ~raced PROVE IdeasKept'
    BY <1>0, <2>0, <2>2, <2>3, <2>6 DEF Moved, Left, OthersWait, Recorded, IdeasKept, At, Calls
  <2>7. ASSUME ~raced PROVE DecisionsKept'
    BY <1>0, <2>0, <2>2, <2>3, <2>7 DEF Moved, Left, OthersWait, Recorded, DecisionsKept, Alone, At, Calls
  <2>8. done'["log"] \subseteq sessionLog'
    BY <1>0, <2>0, <2>2, <2>3 DEF Moved, Recorded
  <2> QED
    BY <2>0, <2>4, <2>5, <2>6, <2>7, <2>8 DEF RecordedInv
<1>9. ASSUME NEW p \in Processes, AppendIdea(p) PROVE RecordedInv'
  <2>0. call[p].kind = "idea" /\ call[p].at = "append" /\ call[p] # NoCall /\ raced' = raced
    BY <1>9, KindIsActive DEF AppendIdea, At, Counted
  <2>1. Return(p) /\ ideas'.form = ideas.form /\ ideas'.listed = ideas.listed \cup {call[p].id}
    BY <1>9 DEF AppendIdea, FilesTyped
  <2>2. Left(p) /\ Recorded(p) /\ ideas'.form = ideas.form /\ ideas'.listed = ideas.listed \cup {call[p].id}
    BY <2>0, <2>1, CallShapes DEF Steps, FilesTyped
  <2>3. UNCHANGED <<doc, docFd>> /\ UNCHANGED <<decided, accepted>> /\ sessionLog' = sessionLog
    BY <1>9 DEF AppendIdea, goalFiles
  <2>4. ASSUME ~raced PROVE Alone'
    BY <1>0, <2>0, <2>2, <2>3, <2>4 DEF Moved, Left, OthersWait, Recorded, Alone, Calls
  <2>5. ASSUME ~raced PROVE DocKept'
    BY <1>0, <2>0, <2>2, <2>3, <2>5 DEF Moved, Left, OthersWait, Recorded, DocKept, Alone, At, Calls
  <2>6. ASSUME ~raced PROVE IdeasKept'
    BY <1>0, <2>0, <2>2, <2>3, <2>6 DEF Moved, Left, OthersWait, Recorded, IdeasKept, At, Calls
  <2>7. ASSUME ~raced PROVE DecisionsKept'
    BY <1>0, <2>0, <2>2, <2>3, <2>7 DEF Moved, Left, OthersWait, Recorded, DecisionsKept, Alone, At, Calls
  <2>8. done'["log"] \subseteq sessionLog'
    BY <1>0, <2>0, <2>2, <2>3 DEF Moved, Recorded
  <2> QED
    BY <2>0, <2>4, <2>5, <2>6, <2>7, <2>8 DEF RecordedInv
<1>10. ASSUME NEW p \in Processes, ReadDecisions(p) PROVE RecordedInv'
  <2>0. call[p].kind = "decide" /\ call[p].at = "start" /\ call[p] # NoCall /\ raced' = raced
    BY <1>10, KindIsActive DEF ReadDecisions, At, Counted
  <2>1. See(p, "ledger", decided)
    BY <1>10 DEF ReadDecisions, FilesTyped
  <2>2. Moved(p, "ledger", decided)
    BY <2>0, <2>1, CallShapes DEF Steps, FilesTyped
  <2>3. UNCHANGED <<doc, docFd>> /\ ideas' = ideas /\ UNCHANGED <<decided, accepted>> /\ sessionLog' = sessionLog
    BY <1>10 DEF ReadDecisions, goalFiles
  <2>4. ASSUME ~raced PROVE Alone'
    BY <1>0, <2>0, <2>2, <2>3, <2>4 DEF Moved, Left, OthersWait, Recorded, Alone, Calls
  <2>5. ASSUME ~raced PROVE DocKept'
    BY <1>0, <2>0, <2>2, <2>3, <2>5 DEF Moved, Left, OthersWait, Recorded, DocKept, Alone, At, Calls
  <2>6. ASSUME ~raced PROVE IdeasKept'
    BY <1>0, <2>0, <2>2, <2>3, <2>6 DEF Moved, Left, OthersWait, Recorded, IdeasKept, At, Calls
  <2>7. ASSUME ~raced PROVE DecisionsKept'
    BY <1>0, <2>0, <2>2, <2>3, <2>7 DEF Moved, Left, OthersWait, Recorded, DecisionsKept, Alone, At, Calls
  <2>8. done'["log"] \subseteq sessionLog'
    BY <1>0, <2>0, <2>2, <2>3 DEF Moved, Recorded
  <2> QED
    BY <2>0, <2>4, <2>5, <2>6, <2>7, <2>8 DEF RecordedInv
<1>11. ASSUME NEW p \in Processes, WriteDecisions(p) PROVE RecordedInv'
  <2>0. call[p].kind = "decide" /\ call[p].at = "ledger" /\ call[p] # NoCall /\ raced' = raced
    BY <1>11, KindIsActive DEF WriteDecisions, At, Counted
  <2>1. Goto(p, "load") /\ decided' = call[p].seen \cup {call[p].id} /\ accepted' = accepted
    BY <1>11 DEF WriteDecisions, FilesTyped
  <2>2. Moved(p, "load", call[p].seen) /\ decided' = call[p].seen \cup {call[p].id} /\ accepted' = accepted
    BY <2>0, <2>1, CallShapes DEF Steps, FilesTyped
  <2>3. UNCHANGED <<doc, docFd>> /\ ideas' = ideas /\ sessionLog' = sessionLog
    BY <1>11 DEF WriteDecisions, goalFiles
  <2>4. ASSUME ~raced PROVE Alone'
    BY <1>0, <2>0, <2>2, <2>3, <2>4 DEF Moved, Left, OthersWait, Recorded, Alone, Calls
  <2>5. ASSUME ~raced PROVE DocKept'
    BY <1>0, <2>0, <2>2, <2>3, <2>5 DEF Moved, Left, OthersWait, Recorded, DocKept, Alone, At, Calls
  <2>6. ASSUME ~raced PROVE IdeasKept'
    BY <1>0, <2>0, <2>2, <2>3, <2>6 DEF Moved, Left, OthersWait, Recorded, IdeasKept, At, Calls
  <2>7. ASSUME ~raced PROVE DecisionsKept'
    BY <1>0, <2>0, <2>2, <2>3, <2>7 DEF Moved, Left, OthersWait, Recorded, DecisionsKept, Alone, At, Calls
  <2>8. done'["log"] \subseteq sessionLog'
    BY <1>0, <2>0, <2>2, <2>3 DEF Moved, Recorded
  <2> QED
    BY <2>0, <2>4, <2>5, <2>6, <2>7, <2>8 DEF RecordedInv
<1>12. ASSUME NEW p \in Processes, LoadGoal(p) PROVE RecordedInv'
  <2>0. call[p].kind = "decide" /\ call[p].at = "load" /\ call[p] # NoCall /\ raced' = raced
    BY <1>12, KindIsActive DEF LoadGoal, At, Counted
  <2>1. See(p, "manifest", accepted)
    BY <1>12 DEF LoadGoal, FilesTyped
  <2>2. Moved(p, "manifest", accepted)
    BY <2>0, <2>1, CallShapes DEF Steps, FilesTyped
  <2>3. UNCHANGED <<doc, docFd>> /\ ideas' = ideas /\ UNCHANGED <<decided, accepted>> /\ sessionLog' = sessionLog
    BY <1>12 DEF LoadGoal, goalFiles
  <2>4. ASSUME ~raced PROVE Alone'
    BY <1>0, <2>0, <2>2, <2>3, <2>4 DEF Moved, Left, OthersWait, Recorded, Alone, Calls
  <2>5. ASSUME ~raced PROVE DocKept'
    BY <1>0, <2>0, <2>2, <2>3, <2>5 DEF Moved, Left, OthersWait, Recorded, DocKept, Alone, At, Calls
  <2>6. ASSUME ~raced PROVE IdeasKept'
    BY <1>0, <2>0, <2>2, <2>3, <2>6 DEF Moved, Left, OthersWait, Recorded, IdeasKept, At, Calls
  <2>7. ASSUME ~raced PROVE DecisionsKept'
    BY <1>0, <2>0, <2>2, <2>3, <2>7 DEF Moved, Left, OthersWait, Recorded, DecisionsKept, Alone, At, Calls
  <2>8. done'["log"] \subseteq sessionLog'
    BY <1>0, <2>0, <2>2, <2>3 DEF Moved, Recorded
  <2> QED
    BY <2>0, <2>4, <2>5, <2>6, <2>7, <2>8 DEF RecordedInv
<1>13. ASSUME NEW p \in Processes, WriteGoal(p) PROVE RecordedInv'
  <2>0. call[p].kind = "decide" /\ call[p].at = "manifest" /\ call[p] # NoCall /\ raced' = raced
    BY <1>13, KindIsActive DEF WriteGoal, At, Counted
  <2>1. Return(p) /\ decided' = decided /\ accepted' = call[p].seen \cup {call[p].id}
    BY <1>13 DEF WriteGoal, FilesTyped
  <2>2. Left(p) /\ Recorded(p) /\ decided' = decided /\ accepted' = call[p].seen \cup {call[p].id}
    BY <2>0, <2>1, CallShapes DEF Steps, FilesTyped
  <2>3. UNCHANGED <<doc, docFd>> /\ ideas' = ideas /\ sessionLog' = sessionLog
    BY <1>13 DEF WriteGoal, goalFiles
  <2>4. ASSUME ~raced PROVE Alone'
    BY <1>0, <2>0, <2>2, <2>3, <2>4 DEF Moved, Left, OthersWait, Recorded, Alone, Calls
  <2>5. ASSUME ~raced PROVE DocKept'
    BY <1>0, <2>0, <2>2, <2>3, <2>5 DEF Moved, Left, OthersWait, Recorded, DocKept, Alone, At, Calls
  <2>6. ASSUME ~raced PROVE IdeasKept'
    BY <1>0, <2>0, <2>2, <2>3, <2>6 DEF Moved, Left, OthersWait, Recorded, IdeasKept, At, Calls
  <2>7. ASSUME ~raced PROVE DecisionsKept'
    BY <1>0, <2>0, <2>2, <2>3, <2>7 DEF Moved, Left, OthersWait, Recorded, DecisionsKept, Alone, At, Calls
  <2>8. done'["log"] \subseteq sessionLog'
    BY <1>0, <2>0, <2>2, <2>3 DEF Moved, Recorded
  <2> QED
    BY <2>0, <2>4, <2>5, <2>6, <2>7, <2>8 DEF RecordedInv
<1>14. ASSUME NEW p \in Processes, ProcessDies(p) PROVE RecordedInv'
  BY <1>0, <1>14 DEF ProcessDies, CallThrows, RecordedInv
<1>15. CASE UNCHANGED sessionVars
  BY <1>0, <1>15 DEF sessionVars, RecordedInv, Alone, DocKept, IdeasKept, DecisionsKept, At, Calls
<1> QED
  BY <1>1, <1>2, <1>3, <1>4, <1>5, <1>6, <1>7, <1>8, <1>9, <1>10,
   <1>11, <1>12, <1>13, <1>14, <1>15 DEF SessionStep

(* What a call recorded stays recorded: in the log always, in the other    *)
(* files unless two calls that rewrite the same file overlapped or a       *)
(* process died in a call.                                                 *)
THEOREM RecordsStay == SessionSpec => []RecordedStays
<1>1. SessionInit => CallsTyped /\ FilesTyped
  <2>1. MaxCalls \in Nat /\ MaxDeaths \in Nat
    BY SessionAssumption
  <2>2. SessionInit => CallsTyped
    BY DEF SessionInit, CallsTyped
  <2> QED
    BY <2>1, <2>2 DEF SessionInit, FilesTyped
<1>2. SessionInit => RecordedInv
  <2> SUFFICES ASSUME SessionInit PROVE RecordedInv
    OBVIOUS
  <2>1. \A p \in Processes : call[p].kind = "none"
    BY DEF SessionInit, NoCall
  <2>2. \A k \in CallKinds : done[k] = {}
    BY DEF SessionInit
  <2>3. doc.form = "absent" /\ ideas.form = "absent"
    BY DEF SessionInit
  <2> QED
    BY <2>1, <2>2, <2>3 DEF RecordedInv, Alone, DocKept, IdeasKept, DecisionsKept, At, Calls, CallKinds
<1>3. RecordedInv /\ FilesTyped => RecordedStays
  BY DEF RecordedInv, RecordedStays, DocKept, IdeasKept, DecisionsKept, FilesTyped
<1> QED
  BY <1>1, <1>2, <1>3, SessionTypeStep, RecordsStep, PTL DEF SessionSpec

(* The variables of the session keep their types.                          *)
THEOREM SessionTypeCorrect == SessionSpec => []SessionTypeOK
<1>1. SessionInit => CallsTyped /\ FilesTyped
  <2>1. MaxCalls \in Nat /\ MaxDeaths \in Nat
    BY SessionAssumption
  <2>2. SessionInit => CallsTyped
    BY DEF SessionInit, CallsTyped
  <2> QED
    BY <2>1, <2>2 DEF SessionInit, FilesTyped
<1>2. CallsTyped /\ FilesTyped => SessionTypeOK
  <2>1. NoCall.kind = "none" /\ NoCall.seen = {}
    BY DEF NoCall
  <2>2. ASSUME CallsTyped, NEW p \in Processes
        PROVE  call[p].kind \in CallKinds \cup {"none"} /\ call[p].seen \subseteq Ids
    BY <2>1, <2>2 DEF CallsTyped, ActiveCall
  <2> QED
    BY <2>2 DEF FilesTyped, SessionTypeOK
<1> QED
  BY <1>1, <1>2, SessionTypeStep, PTL DEF SessionSpec

-----------------------------------------------------------------------------
(* The lanes of a baton batch.                                             *)

LaneStatus == {"pending", "running", "kept", "discarded", "failed", "archived"}
Attempts == 0..AttemptsPerLane
Owners == 0..MaxRuns
History == Seq(Nat)
LaneRecord == [status : LaneStatus, tries : Attempts, active : Attempts, owner : Owners,
               latest : History, accepted : Seq(History)]
TreeRecord == [there : BOOLEAN, head : History, edits : SUBSET (1..AttemptsPerLane)]
WorkerPc == {"none", "load", "claim", "propose", "apply", "validate", "finish"}
WorkerRecord == [pc : WorkerPc, attempt : Attempts, latest : History,
                 outcome : {"kept", "discarded", "failed"}]
LanesTyped ==
    /\ lane \in [Lanes -> LaneRecord] /\ seen \in [Lanes -> LaneRecord]
    /\ tree \in [Lanes -> TreeRecord] /\ wk \in [Workers -> WorkerRecord]
    /\ \A w \in Workers : wk[w].pc # "none" => wk[w].attempt # 0
    /\ queue \subseteq Lanes /\ \A l \in queue : seen[l].tries < AttemptsPerLane
    /\ opc \in {"idle", "wave", "chunk", "wait", "done", "failed"}
    /\ run \in Owners /\ wave \in Attempts
    /\ op \in [kind : {"none", "archive", "cleanup"}, lane : Lanes]
    /\ paused \in BOOLEAN /\ overlap \in BOOLEAN

(* While no run began beside the workers of another: a lane has one worker *)
(* alive, none when a chunk is about to start, and only workers of its own *)
(* run when the orchestrator waits for a chunk ...                         *)
OneWorkerEach ==
    /\ \A w, v \in Workers : wk[w].pc # "none" /\ wk[v].pc # "none" /\ w[1] = v[1] => w = v
    /\ opc = "chunk" => \A w \in Workers : wk[w].pc = "none"
    /\ opc = "wait" => \A w \in Workers :
                           wk[w].pc # "none" => w[2] = run /\ w[1] \notin queue

(* ... the copy of the lanes that the wave began with is still true of the *)
(* lanes it has left ...                                                   *)
SeenIsFresh == opc \in {"chunk", "wait"} => \A l \in queue : seen[l].latest = lane[l].latest

(* ... a worker works on its lane's latest commit, and what it validates   *)
(* is its own edits and nothing else ...                                   *)
WorksOnLatest(w) ==
    LET l == w[1]
    IN  /\ wk[w].pc \in {"load", "claim", "propose", "apply", "validate"} =>
               tree[l].there /\ tree[l].head = lane[l].latest
        /\ wk[w].pc \in {"claim", "propose", "apply", "validate"} =>
               wk[w].latest = lane[l].latest
        /\ wk[w].pc = "validate" => tree[l].edits = {wk[w].attempt}
        /\ wk[w].pc = "finish" =>
               wk[w].latest = IF wk[w].outcome = "kept"
                              THEN Append(lane[l].latest, wk[w].attempt) ELSE lane[l].latest
OnLatest == \A w \in Workers : WorksOnLatest(w)

(* ... and the lanes are chains of commits of one attempt each.            *)
IsChain(record) ==
    /\ Len(record.accepted) = Len(record.latest)
    /\ \A i \in 1..Len(record.accepted) : record.accepted[i] = SubSeq(record.latest, 1, i)

Chains == \A l \in Lanes : IsChain(lane[l])
OneAttemptEach == \A c \in content : c[3] = {Last(c[2])}

LanesInv ==
    ~overlap => OneWorkerEach /\ SeenIsFresh /\ OnLatest /\ Chains /\ OneAttemptEach

(* The variables of the lanes keep their types: what the steps write is    *)
(* again a record of a lane, a tree or a worker.                           *)
LEMMA BatonConstants ==
  /\ NumLanes \in Nat /\ NumLanes >= 1 /\ AttemptsPerLane \in Nat /\ AttemptsPerLane >= 1
  /\ MaxRuns \in Nat /\ MaxRuns >= 1
  /\ Base \in History /\ 1 \in Lanes /\ 0 \in Attempts /\ 0 \in Owners
  BY BatonAssumption DEF Base, Lanes, Attempts, Owners, History

\* A worker is a pair of a lane and the run that owns it.
LEMMA WorkerIndex == ASSUME NEW w \in Workers PROVE w[1] \in Lanes /\ w[2] \in Owners
  BY BatonConstants DEF Workers, Runs, Owners

\* The six statuses of a lane.
LEMMA Statuses == {"pending", "running", "kept", "discarded", "failed", "archived"} \subseteq LaneStatus
  BY DEF LaneStatus

\* The record of a finished attempt is a lane record.
LEMMA FinalStateType ==
  ASSUME NEW record \in LaneRecord, NEW outcome \in {"kept", "discarded", "failed"},
         NEW latest \in History
  PROVE  FinalState(record, outcome, latest) \in LaneRecord
<1>1. record.latest \in History /\ record.accepted \in Seq(History)
  BY DEF LaneRecord
<1>2. Append(record.accepted, latest) \in Seq(History)
  BY <1>1, AppendProperties
<1>3. ASSUME NEW s \in History, NEW a \in Seq(History)
      PROVE  [record EXCEPT !.status = outcome, !.active = 0, !.owner = 0, !.latest = s,
                            !.accepted = a] \in LaneRecord
  <2>1. outcome \in LaneStatus /\ 0 \in Attempts /\ 0 \in Owners
    BY BatonConstants, Statuses
  <2> QED
    BY <2>1, <1>3, Zenon DEF LaneRecord
<1> DEFINE s == IF latest # Base THEN latest ELSE record.latest
           a == IF outcome = "kept" /\ ~Contains(record.accepted, latest)
                THEN Append(record.accepted, latest) ELSE record.accepted
<1>4. s \in History /\ a \in Seq(History)
  BY <1>1, <1>2
<1>5. FinalState(record, outcome, latest) =
        [record EXCEPT !.status = outcome, !.active = 0, !.owner = 0, !.latest = s, !.accepted = a]
  BY Zenon DEF FinalState
<1> HIDE DEF s, a
<1> QED
  BY <1>3, <1>4, <1>5

(* The records that the orchestrator and the operator write.               *)
LEMMA LaneUpdates ==
  ASSUME NEW record \in LaneRecord
  PROVE  /\ [record EXCEPT !.status = "pending", !.active = 0, !.owner = 0] \in LaneRecord
         /\ [record EXCEPT !.status = "archived", !.active = 0, !.owner = 0] \in LaneRecord
         /\ [record EXCEPT !.status = "pending"] \in LaneRecord
<1>1. {"pending", "archived"} \subseteq LaneStatus /\ 0 \in Attempts /\ 0 \in Owners
  BY BatonConstants, Statuses
<1>2. "pending" \in LaneStatus /\ "archived" \in LaneStatus
  BY <1>1
<1> QED
  BY <1>1, <1>2, Zenon DEF LaneRecord

\* The record of a claimed lane is a lane record.
LEMMA ClaimUpdate ==
  ASSUME NEW record \in LaneRecord, NEW a \in Attempts, NEW r \in Owners
  PROVE  [record EXCEPT !.status = "running", !.active = a, !.owner = r, !.tries = a] \in LaneRecord
<1>1. "running" \in LaneStatus
  BY Statuses
<1> QED
  BY <1>1, Zenon DEF LaneRecord

\* A worker that goes on keeps its type.
LEMMA WorkerUpdates ==
  ASSUME NEW c \in WorkerRecord, NEW s \in WorkerPc, NEW h \in History,
         NEW o \in {"kept", "discarded", "failed"}
  PROVE  /\ [c EXCEPT !.pc = s] \in WorkerRecord
         /\ [c EXCEPT !.pc = s, !.latest = h] \in WorkerRecord
         /\ [c EXCEPT !.pc = s, !.outcome = o, !.latest = h] \in WorkerRecord
  BY Zenon DEF WorkerRecord

\* An idle worker is a worker record.
LEMMA NoWorkerType == NoWorker \in WorkerRecord /\ NoWorker.pc = "none"
  BY BatonConstants DEF NoWorker, WorkerRecord, WorkerPc

\* Edits and commits keep the type of a worktree.
LEMMA TreeUpdates ==
  ASSUME NEW c \in TreeRecord, NEW h \in History, NEW e \in SUBSET (1..AttemptsPerLane)
  PROVE  /\ [c EXCEPT !.edits = e] \in TreeRecord
         /\ [c EXCEPT !.head = h, !.edits = e] \in TreeRecord
         /\ NoTree \in TreeRecord
<1>1. NoTree \in TreeRecord
  BY BatonConstants DEF NoTree, TreeRecord
<1> QED
  BY <1>1, Zenon DEF TreeRecord

\* Every step keeps the types of lanes, worktrees and workers.
LEMMA LanesTypeStep == LanesTyped /\ [BatonNext]_batonVars => LanesTyped'
<1> SUFFICES ASSUME LanesTyped, [BatonNext]_batonVars PROVE LanesTyped'
  OBVIOUS
<1> USE BatonConstants DEF git, orch
<1>0. /\ lane \in [Lanes -> LaneRecord] /\ seen \in [Lanes -> LaneRecord]
      /\ tree \in [Lanes -> TreeRecord] /\ wk \in [Workers -> WorkerRecord]
      /\ \A w \in Workers : wk[w].pc # "none" => wk[w].attempt # 0
      /\ queue \subseteq Lanes /\ \A l \in queue : seen[l].tries < AttemptsPerLane
      /\ opc \in {"idle", "wave", "chunk", "wait", "done", "failed"}
      /\ run \in Owners /\ wave \in Attempts
      /\ op \in [kind : {"none", "archive", "cleanup"}, lane : Lanes]
      /\ paused \in BOOLEAN /\ overlap \in BOOLEAN
  BY DEF LanesTyped
<1>1. CASE StartBatch
  <2>1. run + 1 \in Owners
    BY <1>0, <1>1 DEF StartBatch, Owners
  <2> QED
    BY <1>0, <1>1, <2>1 DEF StartBatch, LanesTyped
<1>2. CASE StartWave
  <2>1. ASSUME NEW l \in Lanes PROVE Reclaimed(l) \in LaneRecord
    BY <1>0, <2>1, LaneUpdates DEF Reclaimed
  <2>2. CASE wave = AttemptsPerLane \/ paused
    BY <1>0, <1>2, <2>2 DEF StartWave, LanesTyped
  <2>3. CASE ~(wave = AttemptsPerLane \/ paused)
    <3>1. /\ lane' = [l \in Lanes |-> Reclaimed(l)] /\ seen' = lane'
          /\ queue' = {l \in Lanes : Runnable(lane'[l])}
          /\ wave' = wave + 1 /\ opc' = "chunk" /\ overlap' \in BOOLEAN
          /\ UNCHANGED <<tree, wk, run, op, paused>>
      BY <1>2, <2>3 DEF StartWave
    <3>2. lane' \in [Lanes -> LaneRecord]
      BY <2>1, <3>1
    <3>3. \A l \in queue' : seen'[l].tries < AttemptsPerLane
      BY <3>1 DEF Runnable
    <3>4. wave' \in Attempts
      BY <1>0, <2>3, <3>1 DEF Attempts
    <3> QED
      BY <1>0, <3>1, <3>2, <3>3, <3>4 DEF LanesTyped
  <2> QED
    BY <2>2, <2>3
<1>3. CASE StartChunk
  <2> DEFINE chunk == {l \in queue : Cardinality({k \in queue : k < l}) < Parallel}
             ready == {l \in chunk : CanPrepare(l)}
  <2>0. ready \subseteq queue /\ ready \subseteq Lanes
    BY <1>0
  <2>1. /\ queue' \subseteq queue /\ opc' \in {"wave", "wait", "failed"}
        /\ UNCHANGED <<lane, seen, run, wave, op, paused, overlap>>
        /\ \/ UNCHANGED <<tree, wk>>
           \/ /\ tree' = [l \in Lanes |->
                      IF l \in ready
                      THEN [there |-> TRUE, head |-> seen[l].latest, edits |-> tree[l].edits]
                      ELSE tree[l]]
              /\ wk' = [w \in Workers |->
                      IF w[1] \in ready /\ w[2] = run
                      THEN [NoWorker EXCEPT !.pc = "load", !.attempt = seen[w[1]].tries + 1]
                      ELSE wk[w]]
    BY <1>3 DEF StartChunk
  <2> HIDE DEF chunk, ready
  <2>2. CASE UNCHANGED <<tree, wk>>
    BY <1>0, <2>1, <2>2 DEF LanesTyped
  <2>3. CASE /\ tree' = [l \in Lanes |->
                      IF l \in ready
                      THEN [there |-> TRUE, head |-> seen[l].latest, edits |-> tree[l].edits]
                      ELSE tree[l]]
             /\ wk' = [w \in Workers |->
                      IF w[1] \in ready /\ w[2] = run
                      THEN [NoWorker EXCEPT !.pc = "load", !.attempt = seen[w[1]].tries + 1]
                      ELSE wk[w]]
    <3>0. ASSUME NEW l \in ready
          PROVE  /\ seen[l].latest \in History /\ tree[l].edits \in SUBSET (1..AttemptsPerLane)
                 /\ seen[l].tries + 1 \in Attempts /\ seen[l].tries + 1 # 0
      <4>1. seen[l] \in LaneRecord /\ tree[l] \in TreeRecord /\ seen[l].tries < AttemptsPerLane
        BY <1>0, <2>0, <3>0
      <4>2. seen[l].tries \in Attempts /\ seen[l].latest \in History
        BY <4>1 DEF LaneRecord
      <4> QED
        BY <4>1, <4>2 DEF TreeRecord, Attempts
    <3>1. tree' \in [Lanes -> TreeRecord]
      <4>1. ASSUME NEW l \in Lanes PROVE tree'[l] \in TreeRecord
        BY <1>0, <2>3, <3>0, <4>1 DEF TreeRecord
      <4> QED
        BY <2>3, <4>1
    <3>2. ASSUME NEW w \in Workers
          PROVE  wk'[w] \in WorkerRecord /\ (wk'[w].pc # "none" => wk'[w].attempt # 0)
      <4>1. CASE w[1] \in ready /\ w[2] = run
        <5>1. wk'[w] = [pc |-> "load", attempt |-> seen[w[1]].tries + 1, latest |-> Base,
                        outcome |-> "failed"]
          BY <2>3, <4>1 DEF NoWorker
        <5>2. seen[w[1]].tries + 1 \in Attempts /\ seen[w[1]].tries + 1 # 0
          BY <3>0, <4>1
        <5> QED
          BY <5>1, <5>2 DEF WorkerRecord, WorkerPc
      <4>2. CASE ~(w[1] \in ready /\ w[2] = run)
        BY <1>0, <2>3, <4>2
      <4> QED
        BY <4>1, <4>2
    <3>3. wk' \in [Workers -> WorkerRecord]
      BY <2>3, <3>2
    <3>4. queue' \subseteq Lanes /\ \A l \in queue' : seen'[l].tries < AttemptsPerLane
      BY <1>0, <2>1
    <3> QED
      BY <1>0, <2>1, <3>1, <3>2, <3>3, <3>4 DEF LanesTyped
  <2> QED
    BY <2>1, <2>2, <2>3
<1>4. CASE EndChunk \/ OrchestratorDies
  BY <1>0, <1>4 DEF EndChunk, OrchestratorDies, LanesTyped
<1>5. ASSUME NEW w \in Workers, WorkerStep(w) \/ WorkerDies(w) PROVE LanesTyped'
  <2>0. w[1] \in Lanes /\ w[2] \in Owners
    BY WorkerIndex
  <2>1. wk[w] \in WorkerRecord /\ lane[w[1]] \in LaneRecord /\ tree[w[1]] \in TreeRecord
    BY <1>0, <2>0
  <2>2. /\ wk[w].attempt \in Attempts /\ wk[w].latest \in History /\ wk[w].pc \in WorkerPc
        /\ wk[w].outcome \in {"kept", "discarded", "failed"} /\ lane[w[1]].latest \in History
        /\ tree[w[1]].edits \in SUBSET (1..AttemptsPerLane) /\ tree[w[1]].head \in History
    BY <2>1 DEF WorkerRecord, LaneRecord, TreeRecord
  <2>3. {"claim", "propose", "apply", "validate", "finish"} \subseteq WorkerPc
    BY DEF WorkerPc
  <2>4. wk[w].pc # "none" => wk[w].attempt \in 1..AttemptsPerLane
    BY <1>0, <2>2 DEF Attempts
  <2>5. ASSUME NEW c \in WorkerRecord, wk' = [wk EXCEPT ![w] = c], c.pc # "none" => c.attempt # 0,
               lane' \in [Lanes -> LaneRecord], tree' \in [Lanes -> TreeRecord],
               UNCHANGED <<orch, op, paused, overlap>>
        PROVE  LanesTyped'
    BY <1>0, <2>5 DEF LanesTyped
  <2>6. ASSUME NEW s \in WorkerPc, wk' = [wk EXCEPT ![w].pc = s], wk[w].pc # "none",
               lane' \in [Lanes -> LaneRecord], tree' \in [Lanes -> TreeRecord],
               UNCHANGED <<orch, op, paused, overlap>>
        PROVE  LanesTyped'
    <3>1. [wk[w] EXCEPT !.pc = s] \in WorkerRecord
      BY <2>1, <2>6, WorkerUpdates
    <3>2. [wk[w] EXCEPT !.pc = s].attempt # 0
      BY <1>0, <2>1, <2>6 DEF WorkerRecord
    <3>3. wk' = [wk EXCEPT ![w] = [wk[w] EXCEPT !.pc = s]]
      BY <2>6, Zenon
    <3> QED
      BY <2>5, <2>6, <3>1, <3>2, <3>3
  <2>7. ASSUME NEW o \in {"kept", "discarded", "failed"}, NEW h \in History, Settle(w, o, h),
               wk[w].pc # "none", lane' = lane, tree' \in [Lanes -> TreeRecord],
               UNCHANGED <<orch, op, paused, overlap>>
        PROVE  LanesTyped'
    <3>1. [wk[w] EXCEPT !.pc = "finish", !.outcome = o, !.latest = h] \in WorkerRecord
      BY <2>1, <2>3, WorkerUpdates
    <3>2. [wk[w] EXCEPT !.pc = "finish", !.outcome = o, !.latest = h].attempt # 0
      BY <1>0, <2>1, <2>7 DEF WorkerRecord
    <3>3. wk' = [wk EXCEPT ![w] = [wk[w] EXCEPT !.pc = "finish", !.outcome = o, !.latest = h]]
      BY <2>7, Zenon DEF Settle
    <3> QED
      BY <1>0, <2>5, <2>7, <3>1, <3>2, <3>3
  <2>8. CASE LoadManifest(w)
    <3>1. [wk[w] EXCEPT !.pc = "claim", !.latest = lane[w[1]].latest] \in WorkerRecord
      BY <2>1, <2>2, <2>3, WorkerUpdates
    <3>2. wk' = [wk EXCEPT ![w] = [wk[w] EXCEPT !.pc = "claim", !.latest = lane[w[1]].latest]]
      BY <2>8, Zenon DEF LoadManifest
    <3>3. [wk[w] EXCEPT !.pc = "claim", !.latest = lane[w[1]].latest].attempt # 0
      BY <1>0, <2>1, <2>8 DEF LoadManifest, WorkerRecord
    <3> QED
      BY <1>0, <2>5, <2>8, <3>1, <3>2, <3>3 DEF LoadManifest
  <2>9. CASE SetLaneRunning(w)
    <3> DEFINE r == [lane[w[1]] EXCEPT !.status = "running", !.active = wk[w].attempt,
                                       !.owner = w[2], !.tries = wk[w].attempt]
    <3>1. r \in LaneRecord
      BY <2>0, <2>1, <2>2, ClaimUpdate
    <3>2. lane' = [lane EXCEPT ![w[1]] = r]
      BY <2>9, Zenon DEF SetLaneRunning
    <3> HIDE DEF r
    <3>3. lane' \in [Lanes -> LaneRecord]
      BY <1>0, <3>1, <3>2
    <3> QED
      BY <1>0, <2>3, <2>6, <2>9, <3>3 DEF SetLaneRunning, Move
  <2>10. ASSUME NEW parsed \in BOOLEAN, NEW outcome \in Outcomes,
                ProposeAndReview(w, parsed, outcome)
         PROVE  LanesTyped'
    <3>1. /\ Settle(w, "failed", wk[w].latest) \/ Settle(w, "discarded", wk[w].latest) \/ Move(w, "apply")
          /\ wk[w].pc # "none" /\ UNCHANGED <<lane, tree, orch, op, paused, overlap>>
      BY <2>10 DEF ProposeAndReview, GiveUp
    <3> QED
      BY <1>0, <2>2, <2>3, <2>6, <2>7, <3>1 DEF Move
  <2>11. ASSUME NEW inScope \in BOOLEAN, ApplyProposal(w, inScope) PROVE LanesTyped'
    <3>1. wk[w].pc # "none" /\ UNCHANGED <<lane, orch, op, paused, overlap>>
      BY <2>11 DEF ApplyProposal
    <3>2. CASE Settle(w, "failed", wk[w].latest) /\ tree' = tree
      BY <1>0, <2>2, <2>7, <3>1, <3>2
    <3>3. CASE tree' = [tree EXCEPT ![w[1]].edits = @ \cup {wk[w].attempt}] /\ Move(w, "validate")
      <4> DEFINE c == [tree[w[1]] EXCEPT !.edits = tree[w[1]].edits \cup {wk[w].attempt}]
      <4>1. c \in TreeRecord
        BY <2>1, <2>2, <2>4, <3>1, TreeUpdates
      <4>2. tree' = [tree EXCEPT ![w[1]] = c]
        BY <3>3, Zenon
      <4> HIDE DEF c
      <4>3. tree' \in [Lanes -> TreeRecord]
        BY <1>0, <4>1, <4>2
      <4> QED
        BY <1>0, <2>3, <2>6, <3>1, <3>3, <4>3 DEF Move
    <3> QED
      BY <2>11, <3>2, <3>3 DEF ApplyProposal, GiveUp
  <2>12. ASSUME NEW verdict \in {"kept", "discarded", "failed"}, Decide(w, verdict) PROVE LanesTyped'
    <3> DEFINE commit == Append(tree[w[1]].head, wk[w].attempt)
    <3>0. commit \in History /\ wk[w].pc # "none" /\ UNCHANGED <<lane, orch, op, paused, overlap>>
      <4>1. wk[w].attempt \in Nat /\ tree[w[1]].head \in Seq(Nat)
        BY <2>2 DEF Attempts, History
      <4> QED
        BY <2>12, <4>1, AppendProperties DEF Decide, History
    <3>1. CASE tree' = [tree EXCEPT ![w[1]].head = commit, ![w[1]].edits = {}]
               /\ Settle(w, "kept", commit)
      <4> DEFINE c == [tree[w[1]] EXCEPT !.head = commit, !.edits = {}]
      <4>1. c \in TreeRecord
        BY <2>1, <3>0, TreeUpdates
      <4>2. tree' = [tree EXCEPT ![w[1]] = c]
        BY <3>1, <1>0, <2>0, Zenon
      <4> HIDE DEF c, commit
      <4>3. tree' \in [Lanes -> TreeRecord]
        BY <1>0, <4>1, <4>2
      <4> QED
        BY <2>7, <3>0, <3>1, <4>3
    <3>2. CASE /\ tree' = [tree EXCEPT ![w[1]].edits = @ \ {wk[w].attempt}]
               /\ \E o \in {"discarded", "failed"} : Settle(w, o, wk[w].latest)
      <4> DEFINE c == [tree[w[1]] EXCEPT !.edits = tree[w[1]].edits \ {wk[w].attempt}]
      <4>1. c \in TreeRecord
        BY <2>1, <2>2, TreeUpdates
      <4>2. tree' = [tree EXCEPT ![w[1]] = c]
        BY <3>2, Zenon
      <4> HIDE DEF c
      <4>3. tree' \in [Lanes -> TreeRecord]
        BY <1>0, <4>1, <4>2
      <4> QED
        BY <2>2, <2>7, <3>0, <3>2, <4>3
    <3>3. \/ tree' = [tree EXCEPT ![w[1]].head = commit, ![w[1]].edits = {}] /\ Settle(w, "kept", commit)
          \/ /\ tree' = [tree EXCEPT ![w[1]].edits = @ \ {wk[w].attempt}]
             /\ \E o \in {"discarded", "failed"} : Settle(w, o, wk[w].latest)
      BY <2>12 DEF Decide, GiveUp
    <3> QED
      BY <3>1, <3>2, <3>3
  <2>13. CASE FinalizeLane(w)
    <3> DEFINE r == FinalState(lane[w[1]], wk[w].outcome, wk[w].latest)
    <3>1. r \in LaneRecord
      BY <2>1, <2>2, FinalStateType
    <3>2. lane' = [lane EXCEPT ![w[1]] = r]
      BY <2>13, Zenon DEF FinalizeLane
    <3> HIDE DEF r
    <3>3. lane' \in [Lanes -> LaneRecord]
      BY <1>0, <3>1, <3>2
    <3> QED
      BY <1>0, <2>5, <2>13, <3>3, NoWorkerType DEF FinalizeLane
  <2>14. CASE WorkerDies(w)
    BY <1>0, <2>5, <2>14, NoWorkerType DEF WorkerDies
  <2> QED
    BY <1>5, <2>8, <2>9, <2>10, <2>11, <2>12, <2>13, <2>14 DEF WorkerStep
<1>6. CASE OperatorStep
  <2>1. ASSUME NEW l \in Lanes, RequeueLane(l) PROVE LanesTyped'
    <3>1. [lane[l] EXCEPT !.status = "pending"] \in LaneRecord
      BY <1>0, LaneUpdates
    <3>2. lane' = [lane EXCEPT ![l] = [lane[l] EXCEPT !.status = "pending"]]
      BY <2>1, Zenon DEF RequeueLane
    <3>3. lane' \in [Lanes -> LaneRecord]
      BY <1>0, <3>1, <3>2
    <3> QED
      BY <1>0, <2>1, <3>3 DEF RequeueLane, LanesTyped
  <2>2. ASSUME NEW b \in BOOLEAN, RemoveLane(b) PROVE LanesTyped'
    <3>0. op.lane \in Lanes
      BY <1>0
    <3> DEFINE l == op.lane
               r == [lane[l] EXCEPT !.status = "archived", !.active = 0, !.owner = 0]
    <3>1. r \in LaneRecord
      BY <1>0, <3>0, LaneUpdates
    <3>2. lane' = [lane EXCEPT ![l] = r] \/ lane' = lane
      BY <1>0, <3>0, <2>2, Zenon DEF RemoveLane
    <3>3. tree' \in [Lanes -> TreeRecord]
      <4>1. NoTree \in TreeRecord
        BY DEF NoTree, TreeRecord
      <4> QED
        BY <1>0, <2>2, <4>1 DEF RemoveLane
    <3>4. /\ UNCHANGED <<paused, orch, wk>> /\ overlap' \in BOOLEAN
          /\ op' = [kind |-> "none", lane |-> 1]
      BY <1>0, <2>2 DEF RemoveLane, NoOp
    <3> HIDE DEF r
    <3>5. lane' \in [Lanes -> LaneRecord]
      BY <1>0, <3>1, <3>2
    <3> QED
      BY <1>0, <3>3, <3>4, <3>5 DEF LanesTyped
  <2>3. ASSUME NEW b \in BOOLEAN, SetPaused(b) PROVE LanesTyped'
    BY <1>0, <2>3 DEF SetPaused, LanesTyped
  <2>4. ASSUME NEW l \in Lanes, NEW kind \in {"archive", "cleanup"}, CheckIdle(l, kind)
        PROVE  LanesTyped'
    BY <1>0, <2>4 DEF CheckIdle, LanesTyped
  <2>5. ASSUME NEW n, Promote(n) PROVE LanesTyped'
    BY <1>0, <2>5 DEF Promote, LanesTyped
  <2> QED
    BY <1>6, <2>1, <2>2, <2>3, <2>4, <2>5 DEF OperatorStep
<1>7. CASE UNCHANGED batonVars
  BY <1>0, <1>7 DEF batonVars, LanesTyped
<1> QED
  BY <1>1, <1>2, <1>3, <1>4, <1>5, <1>6, <1>7 DEF BatonNext, OrchestratorStep

(* The next commit of a lane extends its chain; it is none of the commits  *)
(* accepted before, which are all shorter.                                 *)
LEMMA ChainGrows ==
  ASSUME NEW record \in LaneRecord, IsChain(record), NEW a \in Nat,
         NEW next \in History, next = Append(record.latest, a)
  PROVE  IsChain(FinalState(record, "kept", next)) /\ FinalState(record, "kept", next).latest = next
<1>1. record.latest \in Seq(Nat) /\ record.accepted \in Seq(Seq(Nat))
  BY DEF LaneRecord, History
<1> DEFINE n == Len(record.latest)
<1>2. n \in Nat /\ Len(next) = n + 1 /\ next # Base /\ next \in Seq(Nat)
  BY <1>1, AppendProperties, LenProperties DEF Base
<1>3. ASSUME NEW i \in 1..n PROVE SubSeq(next, 1, i) = SubSeq(record.latest, 1, i)
  BY <1>1, <1>2, <1>3
<1>4. SubSeq(next, 1, n + 1) = next
  BY <1>1, <1>2
<1>5. ~Contains(record.accepted, next)
  <2>1. ASSUME NEW i \in 1..Len(record.accepted) PROVE record.accepted[i] # next
    <3>1. i \in 1..n /\ record.accepted[i] = SubSeq(record.latest, 1, i)
      BY <2>1 DEF IsChain
    <3>2. Len(record.accepted[i]) = i
      BY <1>1, <3>1
    <3> QED
      BY <1>2, <3>1, <3>2
  <2> QED
    BY <2>1 DEF Contains
<1> DEFINE acc == Append(record.accepted, next)
<1>6. /\ FinalState(record, "kept", next).latest = next
      /\ FinalState(record, "kept", next).accepted = acc
  BY <1>2, <1>5, SMT DEF FinalState, LaneRecord
<1>7. Len(record.accepted) = n
  BY DEF IsChain
<1>8. Len(acc) = n + 1 /\ \A i \in 1..n + 1 : acc[i] = IF i = n + 1 THEN next ELSE record.accepted[i]
  <2>1. record.accepted \in Seq(Seq(Nat)) /\ next \in Seq(Nat)
    BY <1>1, <1>2
  <2>2. /\ Len(acc) = Len(record.accepted) + 1 /\ acc[Len(record.accepted) + 1] = next
        /\ \A i \in 1..Len(record.accepted) : acc[i] = record.accepted[i]
    BY <2>1, AppendProperties
  <2> HIDE DEF acc, n
  <2>3. Len(acc) = n + 1 /\ acc[n + 1] = next /\ \A i \in 1..n : acc[i] = record.accepted[i]
    BY <1>7, <2>2
  <2>4. \A i \in 1..n + 1 : i = n + 1 \/ i \in 1..n
    BY <1>2
  <2> QED
    BY <2>3, <2>4
<1>9. ASSUME NEW i \in 1..n + 1 PROVE acc[i] = SubSeq(next, 1, i)
  <2>1. CASE i = n + 1
    BY <1>4, <1>8, <2>1
  <2>2. CASE i # n + 1
    <3>1. i \in 1..n
      BY <1>2, <2>2
    <3> QED
      BY <1>3, <1>7, <1>8, <2>2, <3>1 DEF IsChain
  <2> QED
    BY <2>1, <2>2
<1> HIDE DEF acc, n
<1> QED
  BY <1>2, <1>6, <1>8, <1>9 DEF IsChain

(* A lane whose attempt was not kept stays as it is.                       *)
LEMMA ChainStays ==
  ASSUME NEW record \in LaneRecord, IsChain(record), NEW outcome \in {"discarded", "failed"}
  PROVE  LET final == FinalState(record, outcome, record.latest)
         IN  IsChain(final) /\ final.latest = record.latest
<1> DEFINE final == FinalState(record, outcome, record.latest)
<1>1. final.latest = record.latest /\ final.accepted = record.accepted
  BY SMT DEF FinalState, LaneRecord
<1> HIDE DEF final
<1>2. IsChain(final)
  BY <1>1 DEF IsChain
<1> QED
  BY <1>1, <1>2 DEF final

(* A worker's step as the other workers see it: they are on other lanes.   *)
OnlyWorker(w) == \A v \in Workers : v # w => wk'[v] = wk[v]
OnlyLane(l) == \A k \in Lanes : k # l => tree'[k] = tree[k] /\ lane'[k] = lane[k]

\* A worker's step on its lane leaves every other worker on the head it started from.
LEMMA OthersUndisturbed ==
  ASSUME NEW w \in Workers, wk[w].pc # "none", OneWorkerEach, OnLatest,
         OnlyWorker(w), OnlyLane(w[1]), NEW v \in Workers, v # w
  PROVE  WorksOnLatest(v)'
<1>1. CASE wk[v].pc = "none"
  BY <1>1 DEF OnlyWorker, WorksOnLatest
<1>2. CASE wk[v].pc # "none"
  <2>1. v[1] # w[1]
    BY <1>2 DEF OneWorkerEach
  <2>2. UNCHANGED <<tree[v[1]], lane[v[1]], wk[v]>>
    BY <2>1, WorkerIndex DEF OnlyWorker, OnlyLane
  <2> QED
    BY <2>2 DEF OnLatest, WorksOnLatest
<1> QED
  BY <1>1, <1>2

\* A worker that goes on stays the only one of its lane.
LEMMA WorkerStaysAlone ==
  ASSUME NEW w \in Workers, wk[w].pc # "none", OneWorkerEach, OnlyWorker(w), UNCHANGED orch
  PROVE  OneWorkerEach'
<1>1. UNCHANGED <<opc, run, queue>>
  BY DEF orch
<1>2. \A v \in Workers : wk'[v].pc # "none" => wk[v].pc # "none"
  BY DEF OnlyWorker
<1> QED
  BY <1>1, <1>2 DEF OneWorkerEach

(* A lane with a worker alive is not among those the wave has left.        *)
LEMMA WaveLeavesWorkersAlone ==
  ASSUME NEW w \in Workers, wk[w].pc # "none", OneWorkerEach, SeenIsFresh, queue \subseteq Lanes,
         OnlyLane(w[1]), UNCHANGED orch
  PROVE  SeenIsFresh'
<1>1. UNCHANGED <<opc, queue, seen>>
  BY DEF orch
<1>2. opc \in {"chunk", "wait"} => w[1] \notin queue
  BY DEF OneWorkerEach
<1> QED
  BY <1>1, <1>2 DEF SeenIsFresh, OnlyLane

\* Every step keeps the invariant of the lanes.
LEMMA LanesInvStep == LanesTyped /\ LanesInv /\ [BatonNext]_batonVars => LanesInv'
<1> SUFFICES ASSUME LanesTyped, LanesInv, [BatonNext]_batonVars, ~overlap'
             PROVE  (OneWorkerEach /\ SeenIsFresh /\ OnLatest /\ Chains /\ OneAttemptEach)'
  BY DEF LanesInv
<1> DEFINE Kept == (OneWorkerEach /\ SeenIsFresh /\ OnLatest /\ Chains /\ OneAttemptEach)'
<1>a. /\ lane \in [Lanes -> LaneRecord] /\ seen \in [Lanes -> LaneRecord]
      /\ tree \in [Lanes -> TreeRecord] /\ wk \in [Workers -> WorkerRecord]
      /\ \A w \in Workers : wk[w].pc # "none" => wk[w].attempt # 0
      /\ queue \subseteq Lanes /\ op.lane \in Lanes
  BY DEF LanesTyped
<1>b. ~overlap
  BY DEF BatonNext, StartBatch, OrchestratorStep, StartWave, StartChunk, EndChunk,
         OrchestratorDies, OperatorStep, SetPaused, RemoveLane, RequeueLane, CheckIdle, Promote,
         WorkerStep, LoadManifest, SetLaneRunning, FinalizeLane, ProposeAndReview, ApplyProposal,
         Decide, WorkerDies, batonVars
<1>c. OneWorkerEach /\ SeenIsFresh /\ OnLatest /\ Chains /\ OneAttemptEach
  BY <1>b DEF LanesInv
<1>d. ASSUME UNCHANGED <<lane, tree, wk, content>>, opc' \notin {"chunk", "wait"} PROVE Kept
  BY <1>c, <1>d DEF OneWorkerEach, SeenIsFresh, OnLatest, WorksOnLatest, Chains, IsChain,
     OneAttemptEach
<1>1. CASE StartBatch
  BY <1>1, <1>d DEF StartBatch, git
<1>2. CASE StartWave
  <2>1. CASE wave = AttemptsPerLane \/ paused
    BY <1>2, <2>1, <1>d DEF StartWave, git
  <2>2. CASE ~(wave = AttemptsPerLane \/ paused)
    <3>1. /\ lane' = [l \in Lanes |-> Reclaimed(l)] /\ seen' = lane' /\ opc' = "chunk"
          /\ UNCHANGED <<tree, wk, content>> /\ queue' \subseteq Lanes
          /\ \A w \in Workers : wk[w].pc = "none"
      BY <1>2, <2>2 DEF StartWave, git, Alive
    <3>2. ASSUME NEW l \in Lanes PROVE lane'[l].latest = lane[l].latest /\ lane'[l].accepted = lane[l].accepted
      BY <1>a, <3>1, <3>2 DEF Reclaimed, LaneRecord
    <3>3. OneWorkerEach' /\ OnLatest'
      BY <3>1 DEF OneWorkerEach, OnLatest, WorksOnLatest
    <3>4. SeenIsFresh' /\ OneAttemptEach'
      BY <1>c, <3>1 DEF SeenIsFresh, OneAttemptEach
    <3>5. Chains'
      BY <1>c, <3>2 DEF Chains, IsChain
    <3> QED
      BY <3>3, <3>4, <3>5
  <2> QED
    BY <2>1, <2>2
<1>3. CASE StartChunk
  <2> DEFINE chunk == {l \in queue : Cardinality({k \in queue : k < l}) < Parallel}
             ready == {l \in chunk : CanPrepare(l)}
  <2>1. /\ UNCHANGED <<lane, seen, run, content>> /\ opc = "chunk"
        /\ \/ opc' = "wave" /\ UNCHANGED <<tree, wk>>
           \/ /\ queue' = queue \ chunk /\ opc' \in {"wait", "failed"}
              /\ tree' = [l \in Lanes |->
                      IF l \in ready
                      THEN [there |-> TRUE, head |-> seen[l].latest, edits |-> tree[l].edits]
                      ELSE tree[l]]
              /\ wk' = [w \in Workers |->
                      IF w[1] \in ready /\ w[2] = run
                      THEN [NoWorker EXCEPT !.pc = "load", !.attempt = seen[w[1]].tries + 1]
                      ELSE wk[w]]
    BY <1>3 DEF StartChunk, git
  <2>2. CASE opc' = "wave" /\ UNCHANGED <<tree, wk>>
    BY <1>d, <2>1, <2>2
  <2>3. ready \subseteq chunk /\ chunk \subseteq queue
    OBVIOUS
  <2> HIDE DEF chunk, ready
  <2>4. CASE /\ queue' = queue \ chunk /\ opc' \in {"wait", "failed"}
             /\ tree' = [l \in Lanes |->
                     IF l \in ready
                     THEN [there |-> TRUE, head |-> seen[l].latest, edits |-> tree[l].edits]
                     ELSE tree[l]]
             /\ wk' = [w \in Workers |->
                     IF w[1] \in ready /\ w[2] = run
                     THEN [NoWorker EXCEPT !.pc = "load", !.attempt = seen[w[1]].tries + 1]
                     ELSE wk[w]]
    <3>1. \A w \in Workers : wk[w].pc = "none"
      BY <1>c, <2>1 DEF OneWorkerEach
    <3>2. ASSUME NEW w \in Workers, wk'[w].pc # "none"
          PROVE  w[1] \in ready /\ w[2] = run /\ wk'[w].pc = "load"
      <4>1. w[1] \in ready /\ w[2] = run
        BY <2>4, <3>1, <3>2
      <4>2. wk'[w] = [pc |-> "load", attempt |-> seen[w[1]].tries + 1, latest |-> Base,
                      outcome |-> "failed"]
        BY <2>4, <4>1 DEF NoWorker
      <4> QED
        BY <4>1, <4>2
    <3>3. \A w, v \in Workers : w[1] = v[1] /\ w[2] = v[2] => w = v
      BY DEF Workers
    <3>4. OneWorkerEach'
      BY <2>1, <2>3, <2>4, <3>2, <3>3 DEF OneWorkerEach
    <3>5. SeenIsFresh'
      BY <1>c, <2>1, <2>4 DEF SeenIsFresh
    <3>6. OnLatest'
      <4>1. ASSUME NEW w \in Workers, wk'[w].pc # "none"
            PROVE  tree'[w[1]].there /\ tree'[w[1]].head = lane'[w[1]].latest
        <5>1. w[1] \in ready /\ w[1] \in Lanes
          BY <3>2, <4>1, WorkerIndex
        <5>2. seen[w[1]].latest = lane[w[1]].latest
          BY <1>c, <2>1, <2>3, <5>1 DEF SeenIsFresh
        <5> QED
          BY <2>1, <2>4, <5>1, <5>2
      <4> QED
        BY <3>2, <4>1 DEF OnLatest, WorksOnLatest
    <3>7. Chains' /\ OneAttemptEach'
      BY <1>c, <2>1 DEF Chains, IsChain, OneAttemptEach
    <3> QED
      BY <3>4, <3>5, <3>6, <3>7
  <2> QED
    BY <2>1, <2>2, <2>4
<1>4. CASE EndChunk
  <2>1. /\ opc = "wait" /\ opc' = "chunk" /\ UNCHANGED <<lane, tree, wk, content, run, queue, seen>>
        /\ \A l \in Lanes : wk[<<l, run>>].pc = "none"
    BY <1>4 DEF EndChunk, git, Alive
  <2>2. ASSUME NEW w \in Workers PROVE wk[w].pc = "none"
    <3>1. w = <<w[1], w[2]>> /\ w[1] \in Lanes
      BY DEF Workers
    <3> QED
      BY <1>c, <2>1, <3>1 DEF OneWorkerEach
  <2> QED
    BY <1>c, <2>1, <2>2 DEF OneWorkerEach, SeenIsFresh, OnLatest, WorksOnLatest, Chains, IsChain,
       OneAttemptEach
<1>5. CASE OrchestratorDies
  BY <1>5, <1>d DEF OrchestratorDies, git
<1>6. ASSUME NEW w \in Workers, WorkerStep(w) \/ WorkerDies(w) PROVE Kept
  <2>0. w[1] \in Lanes /\ wk[w] \in WorkerRecord /\ lane[w[1]] \in LaneRecord /\ tree[w[1]] \in TreeRecord
    BY <1>a, WorkerIndex
  <2>1. UNCHANGED orch
    BY <1>6 DEF WorkerStep, LoadManifest, SetLaneRunning, FinalizeLane, ProposeAndReview,
       ApplyProposal, Decide, WorkerDies
  <2>2. ASSUME wk[w].pc # "none", OnlyWorker(w), OnlyLane(w[1]), WorksOnLatest(w)',
               IsChain(lane[w[1]])', OneAttemptEach'
        PROVE  Kept
    <3>1. OneWorkerEach' /\ SeenIsFresh'
      BY <1>a, <1>c, <2>1, <2>2, WorkerStaysAlone, WaveLeavesWorkersAlone
    <3>2. OnLatest'
      BY <1>c, <2>2, OthersUndisturbed DEF OnLatest
    <3>3. Chains'
      BY <1>c, <2>2 DEF Chains, OnlyLane, IsChain
    <3> QED
      BY <2>2, <3>1, <3>2, <3>3
  <2>3. IsChain(lane[w[1]]) /\ WorksOnLatest(w)
    BY <1>c, <2>0 DEF Chains, OnLatest
  <2>4. UNCHANGED content => OneAttemptEach'
    BY <1>c DEF OneAttemptEach
  <2>5. ASSUME NEW c, wk' = [wk EXCEPT ![w] = c] PROVE wk'[w] = c /\ OnlyWorker(w)
    BY <1>a, <2>5 DEF OnlyWorker
  <2>6. UNCHANGED <<lane, tree>> => OnlyLane(w[1])
    BY DEF OnlyLane
  <2>7. CASE LoadManifest(w)
    <3>1. wk' = [wk EXCEPT ![w] = [wk[w] EXCEPT !.pc = "claim", !.latest = lane[w[1]].latest]]
      BY <2>7, Zenon DEF LoadManifest
    <3>2. wk'[w].pc = "claim" /\ wk'[w].latest = lane[w[1]].latest /\ OnlyWorker(w)
      BY <2>0, <2>5, <3>1, ZenonT(40) DEF WorkerRecord
    <3>3. wk[w].pc = "load" /\ UNCHANGED <<lane, tree, content>>
      BY <2>7 DEF LoadManifest, git
    <3>4. WorksOnLatest(w)'
      BY <2>3, <3>2, <3>3 DEF WorksOnLatest
    <3>5. IsChain(lane[w[1]])' /\ OneAttemptEach' /\ OnlyLane(w[1])
      BY <2>3, <2>4, <2>6, <3>3
    <3> QED
      BY <2>2, <3>2, <3>3, <3>4, <3>5
  <2>8. CASE SetLaneRunning(w)
    <3>1. wk' = [wk EXCEPT ![w] = [wk[w] EXCEPT !.pc = "propose"]]
      BY <2>8, Zenon DEF SetLaneRunning, Move
    <3>2. wk'[w].pc = "propose" /\ wk'[w].latest = wk[w].latest /\ OnlyWorker(w)
      BY <2>0, <2>5, <3>1 DEF WorkerRecord
    <3>3. wk[w].pc = "claim" /\ UNCHANGED <<tree, content>>
      BY <2>8 DEF SetLaneRunning, git
    <3>4. lane' = [lane EXCEPT ![w[1]] = [lane[w[1]] EXCEPT !.status = "running",
                     !.active = wk[w].attempt, !.owner = w[2], !.tries = wk[w].attempt]]
      BY <2>8, Zenon DEF SetLaneRunning
    <3>5. lane'[w[1]].latest = lane[w[1]].latest /\ lane'[w[1]].accepted = lane[w[1]].accepted
      BY <1>a, <2>0, <3>4 DEF LaneRecord
    <3>6. OnlyLane(w[1])
      BY <1>a, <3>3, <3>4 DEF OnlyLane
    <3>7. WorksOnLatest(w)'
      BY <2>3, <3>2, <3>3, <3>5 DEF WorksOnLatest
    <3>8. IsChain(lane[w[1]])' /\ OneAttemptEach'
      BY <2>3, <2>4, <3>3, <3>5 DEF IsChain
    <3> QED
      BY <2>2, <3>2, <3>3, <3>6, <3>7, <3>8
  <2>9. ASSUME NEW o \in {"discarded", "failed"}, Settle(w, o, wk[w].latest), UNCHANGED <<lane, content>>,
               OnlyLane(w[1]), wk[w].pc \in {"propose", "apply", "validate"}
        PROVE  Kept
    <3>1. wk' = [wk EXCEPT ![w] = [wk[w] EXCEPT !.pc = "finish", !.outcome = o, !.latest = wk[w].latest]]
      BY <2>9, Zenon DEF Settle
    <3>2. /\ wk'[w].pc = "finish" /\ wk'[w].latest = wk[w].latest /\ wk'[w].outcome = o
          /\ OnlyWorker(w)
      BY <2>0, <2>5, <3>1, ZenonT(40) DEF WorkerRecord
    <3>3. WorksOnLatest(w)'
      BY <2>3, <2>9, <3>2 DEF WorksOnLatest
    <3>4. IsChain(lane[w[1]])' /\ OneAttemptEach'
      BY <2>3, <2>4, <2>9
    <3> QED
      BY <2>2, <2>9, <3>2, <3>3, <3>4
  <2>10. ASSUME NEW parsed \in BOOLEAN, NEW outcome \in Outcomes,
                ProposeAndReview(w, parsed, outcome)
         PROVE  Kept
    <3>1. wk[w].pc = "propose" /\ UNCHANGED <<lane, tree, content>>
      BY <2>10 DEF ProposeAndReview, git
    <3>2. CASE \E o \in {"discarded", "failed"} : Settle(w, o, wk[w].latest)
      BY <2>6, <2>9, <3>1, <3>2
    <3>3. CASE Move(w, "apply")
      <4>1. wk' = [wk EXCEPT ![w] = [wk[w] EXCEPT !.pc = "apply"]]
        BY <3>3, Zenon DEF Move
      <4>2. wk'[w].pc = "apply" /\ wk'[w].latest = wk[w].latest /\ OnlyWorker(w)
        BY <2>0, <2>5, <4>1 DEF WorkerRecord
      <4> QED
        BY <2>2, <2>3, <2>4, <2>6, <3>1, <4>2 DEF WorksOnLatest, IsChain
    <3> QED
      BY <2>10, <3>2, <3>3 DEF ProposeAndReview, GiveUp
  <2>11. ASSUME NEW inScope \in BOOLEAN, ApplyProposal(w, inScope) PROVE Kept
    <3>1. wk[w].pc = "apply" /\ UNCHANGED <<lane, content>>
      BY <2>11 DEF ApplyProposal
    <3>2. CASE Settle(w, "failed", wk[w].latest) /\ UNCHANGED tree
      BY <2>6, <2>9, <3>1, <3>2
    <3>3. CASE /\ ~IsDirty(w[1]) /\ Move(w, "validate")
               /\ tree' = [tree EXCEPT ![w[1]].edits = @ \cup {wk[w].attempt}]
      <4>1. wk' = [wk EXCEPT ![w] = [wk[w] EXCEPT !.pc = "validate"]]
        BY <3>3, Zenon DEF Move
      <4>2. /\ wk'[w].pc = "validate" /\ wk'[w].latest = wk[w].latest /\ OnlyWorker(w)
            /\ wk'[w].attempt = wk[w].attempt
        BY <2>0, <2>5, <4>1 DEF WorkerRecord
      <4>3. tree' = [tree EXCEPT ![w[1]] = [tree[w[1]] EXCEPT
                       !.edits = tree[w[1]].edits \cup {wk[w].attempt}]]
        BY <3>3, Zenon
      <4>4. /\ tree'[w[1]].there = tree[w[1]].there /\ tree'[w[1]].head = tree[w[1]].head
            /\ tree'[w[1]].edits = {wk[w].attempt}
        BY <1>a, <2>0, <3>3, <4>3 DEF TreeRecord, IsDirty
      <4>5. OnlyLane(w[1])
        BY <1>a, <3>1, <4>3 DEF OnlyLane
      <4> QED
        BY <2>2, <2>3, <2>4, <3>1, <4>2, <4>4, <4>5 DEF WorksOnLatest, IsChain
    <3> QED
      BY <2>11, <3>2, <3>3 DEF ApplyProposal, GiveUp
  <2>12. ASSUME NEW verdict \in {"kept", "discarded", "failed"}, Decide(w, verdict) PROVE Kept
    <3> DEFINE commit == Append(tree[w[1]].head, wk[w].attempt)
    <3>1. wk[w].pc = "validate" /\ UNCHANGED lane
      BY <2>12 DEF Decide
    <3>2. CASE /\ tree' = [tree EXCEPT ![w[1]].head = commit, ![w[1]].edits = {}]
               /\ content' = content \cup {<<w[1], commit, tree[w[1]].edits>>}
               /\ Settle(w, "kept", commit)
      <4>1. wk' = [wk EXCEPT ![w] = [wk[w] EXCEPT !.pc = "finish", !.outcome = "kept", !.latest = commit]]
        BY <3>2, Zenon DEF Settle
      <4>2. /\ wk'[w].pc = "finish" /\ wk'[w].latest = commit /\ wk'[w].outcome = "kept"
            /\ wk'[w].attempt = wk[w].attempt /\ OnlyWorker(w)
        <5> HIDE DEF commit
        <5>1. OnlyWorker(w) /\ wk'[w] = [wk[w] EXCEPT !.pc = "finish", !.outcome = "kept", !.latest = commit]
          BY <2>5, <4>1
        <5> QED
          BY <2>0, <5>1 DEF WorkerRecord
      <4>3. OnlyLane(w[1])
        BY <1>a, <3>1, <3>2 DEF OnlyLane
      <4>4. Last(commit) = wk[w].attempt
        <5>1. wk[w].attempt \in Nat /\ tree[w[1]].head \in Seq(Nat)
          BY <2>0, BatonConstants DEF WorkerRecord, TreeRecord, Attempts, History
        <5> QED
          BY <5>1, AppendProperties, LenProperties DEF Last
      <4>5. tree[w[1]].edits = {wk[w].attempt} /\ tree[w[1]].head = lane[w[1]].latest
        BY <2>3, <3>1 DEF WorksOnLatest
      <4>6. OneAttemptEach'
        <5> HIDE DEF commit
        <5>1. ASSUME NEW c \in content' PROVE c[3] = {Last(c[2])}
          BY <1>c, <3>2, <4>4, <4>5, <5>1 DEF OneAttemptEach
        <5> QED
          BY <5>1 DEF OneAttemptEach
      <4> QED
        BY <2>2, <2>3, <3>1, <4>2, <4>3, <4>5, <4>6 DEF WorksOnLatest, IsChain
    <3>3. CASE /\ tree' = [tree EXCEPT ![w[1]].edits = @ \ {wk[w].attempt}] /\ UNCHANGED content
               /\ \E o \in {"discarded", "failed"} : Settle(w, o, wk[w].latest)
      <4>1. OnlyLane(w[1])
        BY <1>a, <3>1, <3>3 DEF OnlyLane
      <4> QED
        BY <2>9, <3>1, <3>3, <4>1
    <3>4. \/ /\ tree' = [tree EXCEPT ![w[1]].head = commit, ![w[1]].edits = {}]
             /\ content' = content \cup {<<w[1], commit, tree[w[1]].edits>>}
             /\ Settle(w, "kept", commit)
          \/ /\ tree' = [tree EXCEPT ![w[1]].edits = @ \ {wk[w].attempt}] /\ UNCHANGED content
             /\ \E o \in {"discarded", "failed"} : Settle(w, o, wk[w].latest)
      BY <2>12 DEF Decide, GiveUp
    <3> QED
      BY <3>2, <3>3, <3>4
  <2>13. CASE FinalizeLane(w)
    <3> DEFINE final == FinalState(lane[w[1]], wk[w].outcome, wk[w].latest)
    <3>1. wk[w].pc = "finish" /\ UNCHANGED <<tree, content>>
      BY <2>13 DEF FinalizeLane, git
    <3>2. lane' = [lane EXCEPT ![w[1]] = final]
      BY <2>13, Zenon DEF FinalizeLane
    <3>3. wk'[w].pc = "none" /\ OnlyWorker(w)
      BY <2>5, <2>13, NoWorkerType DEF FinalizeLane
    <3>4. IsChain(final)
      <4>1. CASE wk[w].outcome = "kept"
        <5>1. wk[w].attempt \in Nat /\ wk[w].latest \in History
          BY <2>0, BatonConstants DEF WorkerRecord, Attempts
        <5>2. wk[w].latest = Append(lane[w[1]].latest, wk[w].attempt)
          BY <2>3, <3>1, <4>1 DEF WorksOnLatest
        <5> QED
          BY <2>0, <2>3, <4>1, <5>1, <5>2, ChainGrows
      <4>2. CASE wk[w].outcome # "kept"
        <5>1. wk[w].outcome \in {"discarded", "failed"} /\ wk[w].latest = lane[w[1]].latest
          BY <2>0, <2>3, <3>1, <4>2 DEF WorkerRecord, WorksOnLatest
        <5> QED
          BY <2>0, <2>3, <5>1, ChainStays
      <4> QED
        BY <4>1, <4>2
    <3> HIDE DEF final
    <3>5. OnlyLane(w[1]) /\ lane'[w[1]] = final
      BY <1>a, <2>0, <3>1, <3>2 DEF OnlyLane
    <3>6. WorksOnLatest(w)'
      BY <3>3 DEF WorksOnLatest
    <3>7. IsChain(lane[w[1]])'
      BY <3>4, <3>5 DEF IsChain
    <3> QED
      BY <2>2, <2>4, <3>1, <3>3, <3>5, <3>6, <3>7
  <2>14. CASE WorkerDies(w)
    <3>1. wk'[w].pc = "none" /\ OnlyWorker(w) /\ wk[w].pc # "none"
      BY <2>5, <2>14, NoWorkerType DEF WorkerDies, Alive
    <3>2. UNCHANGED <<lane, tree, content>>
      BY <2>14 DEF WorkerDies, git
    <3> QED
      BY <2>2, <2>3, <2>4, <2>6, <3>1, <3>2 DEF WorksOnLatest, IsChain
  <2> QED
    BY <1>6, <2>7, <2>8, <2>10, <2>11, <2>12, <2>13, <2>14 DEF WorkerStep
<1>7. CASE OperatorStep
  <2>1. ASSUME UNCHANGED <<orch, wk, content>>,
               \A l \in Lanes : lane'[l].latest = lane[l].latest /\ lane'[l].accepted = lane[l].accepted,
               \A w \in Workers : wk[w].pc # "none" => tree'[w[1]] = tree[w[1]]
        PROVE  Kept
    <3>1. OneWorkerEach' /\ OneAttemptEach'
      BY <1>c, <2>1 DEF OneWorkerEach, OneAttemptEach, orch
    <3>2. SeenIsFresh'
      BY <1>a, <1>c, <2>1 DEF SeenIsFresh, orch
    <3>3. ASSUME NEW w \in Workers PROVE WorksOnLatest(w)'
      <4>1. w[1] \in Lanes /\ WorksOnLatest(w)
        BY <1>c, WorkerIndex DEF OnLatest
      <4>2. CASE wk[w].pc = "none"
        BY <2>1, <4>2 DEF WorksOnLatest
      <4>3. CASE wk[w].pc # "none"
        BY <2>1, <4>1, <4>3 DEF WorksOnLatest
      <4> QED
        BY <4>2, <4>3
    <3>4. Chains'
      BY <1>c, <2>1 DEF Chains, IsChain
    <3> QED
      BY <3>1, <3>2, <3>3, <3>4 DEF OnLatest
  <2>2. ASSUME NEW l \in Lanes, RequeueLane(l) PROVE Kept
    <3>1. lane' = [lane EXCEPT ![l] = [lane[l] EXCEPT !.status = "pending"]]
      BY <2>2, Zenon DEF RequeueLane
    <3>2. ASSUME NEW k \in Lanes PROVE lane'[k].latest = lane[k].latest /\ lane'[k].accepted = lane[k].accepted
      BY <1>a, <3>1 DEF LaneRecord
    <3> QED
      BY <2>1, <2>2, <3>2 DEF RequeueLane, git
  <2>3. ASSUME NEW b \in BOOLEAN, RemoveLane(b) PROVE Kept
    <3> DEFINE l == op.lane
    <3>1. /\ tree' = [tree EXCEPT ![l] = NoTree] /\ UNCHANGED <<orch, wk, content>>
          /\ LiveIn(l) = {}
      BY <2>3 DEF RemoveLane
    <3>2. \/ lane' = [lane EXCEPT ![l] = [lane[l] EXCEPT !.status = "archived", !.active = 0, !.owner = 0]]
          \/ lane' = lane
      BY <1>a, <2>3, Zenon DEF RemoveLane
    <3>3. ASSUME NEW k \in Lanes PROVE lane'[k].latest = lane[k].latest /\ lane'[k].accepted = lane[k].accepted
      <4> HIDE DEF l
      <4>1. CASE lane' = [lane EXCEPT ![l] = [lane[l] EXCEPT !.status = "archived", !.active = 0, !.owner = 0]]
        <5>1. CASE k = l
          BY <1>a, <4>1, <5>1 DEF LaneRecord
        <5>2. CASE k # l
          BY <1>a, <4>1, <5>2
        <5> QED
          BY <5>1, <5>2
      <4> QED
        BY <3>2, <4>1
    <3>4. ASSUME NEW w \in Workers, wk[w].pc # "none" PROVE w[1] # l
      <4>1. w = <<w[1], w[2]>> /\ w[2] \in Runs
        BY DEF Workers
      <4> QED
        BY <3>1, <3>4, <4>1 DEF LiveIn, Alive
    <3>5. ASSUME NEW w \in Workers, wk[w].pc # "none" PROVE tree'[w[1]] = tree[w[1]]
      BY <1>a, <3>1, <3>4, <3>5, WorkerIndex
    <3> QED
      BY <2>1, <3>1, <3>3, <3>5
  <2>4. ASSUME UNCHANGED <<lane, git, orch, wk>> PROVE Kept
    BY <2>1, <2>4 DEF git
  <2> QED
    BY <1>7, <2>2, <2>3, <2>4 DEF OperatorStep, SetPaused, CheckIdle, Promote
<1>8. CASE UNCHANGED batonVars
  BY <1>c, <1>8 DEF batonVars, git, orch, OneWorkerEach, SeenIsFresh, OnLatest, WorksOnLatest, Chains,
     IsChain, OneAttemptEach
<1> QED
  BY <1>1, <1>2, <1>3, <1>4, <1>5, <1>6, <1>7, <1>8 DEF BatonNext, OrchestratorStep

\* Types and invariant of the lanes hold of every behaviour.
LEMMA LanesInvHolds == BatonSpec => [](LanesTyped /\ LanesInv)
<1>1. BatonInit => LanesTyped
  <2> SUFFICES ASSUME BatonInit PROVE LanesTyped
    OBVIOUS
  <2>1. NewLane \in LaneRecord
    BY BatonConstants, Statuses DEF NewLane, LaneRecord, History
  <2>2. NoTree \in TreeRecord
    BY BatonConstants DEF NoTree, TreeRecord
  <2>3. lane \in [Lanes -> LaneRecord] /\ seen \in [Lanes -> LaneRecord]
    BY <2>1 DEF BatonInit
  <2>4. tree \in [Lanes -> TreeRecord]
    BY <2>2 DEF BatonInit
  <2>5. wk \in [Workers -> WorkerRecord] /\ \A w \in Workers : wk[w].pc = "none"
    BY NoWorkerType DEF BatonInit
  <2>6. /\ queue = {} /\ opc = "idle" /\ run = 0 /\ wave = 0 /\ paused = FALSE /\ overlap = FALSE
        /\ op = [kind |-> "none", lane |-> 1]
    BY DEF BatonInit, NoOp
  <2> QED
    BY <2>3, <2>4, <2>5, <2>6, BatonConstants DEF LanesTyped
<1>2. BatonInit => LanesInv
  <2> SUFFICES ASSUME BatonInit PROVE LanesInv
    OBVIOUS
  <2>1. \A w \in Workers : wk[w].pc = "none"
    BY NoWorkerType DEF BatonInit
  <2>2. \A l \in Lanes : lane[l].latest = <<>> /\ lane[l].accepted = <<>>
    BY DEF BatonInit, NewLane, Base
  <2>3. queue = {} /\ content = {} /\ opc = "idle"
    BY DEF BatonInit
  <2>4. Chains
    BY <2>2 DEF Chains, IsChain
  <2> QED
    BY <2>1, <2>3, <2>4 DEF LanesInv, OneWorkerEach, SeenIsFresh, OnLatest, WorksOnLatest, OneAttemptEach
<1> QED
  BY <1>1, <1>2, LanesTypeStep, LanesInvStep, PTL DEF BatonSpec

(* The accepted commits of a lane are a chain from the base commit, and a  *)
(* promotion picks each after the one it was made on.                      *)
THEOREM LanesAreChains == BatonSpec => []LaneIsChain
<1>1. LanesTyped /\ LanesInv => LaneIsChain
  <2> SUFFICES ASSUME LanesTyped, LanesInv, ~overlap, NEW l \in Lanes
               PROVE  /\ Len(lane[l].accepted) = Len(lane[l].latest)
                      /\ \A i \in DOMAIN lane[l].accepted : lane[l].accepted[i] = SubSeq(lane[l].latest, 1, i)
    BY DEF LaneIsChain
  <2>1. IsChain(lane[l])
    BY DEF LanesInv, Chains
  <2>2. DOMAIN lane[l].accepted = 1..Len(lane[l].accepted)
    BY DEF LanesTyped, LaneRecord
  <2> QED
    BY <2>1, <2>2 DEF IsChain
<1> QED
  BY <1>1, LanesInvHolds, PTL

(* A commit holds the edits of the one attempt it was accepted for.        *)
THEOREM CommitsAreOneAttempt == BatonSpec => []CommitIsOneAttempt
<1>1. LanesInv => CommitIsOneAttempt
  BY DEF LanesInv, OneAttemptEach, CommitIsOneAttempt
<1> QED
  BY <1>1, LanesInvHolds, PTL
-----------------------------------------------------------------------------
(* Finalize.  The invariant says of every phase what it has done so far:   *)
(* the pairs compared, the entries put into groups, what the branch of the *)
(* moment has and will get, and how many of the session's commits have     *)
(* been looked at for the first branch.                                    *)

\* Entries that share a file and were compared have one root, and all of them do when
\* the comparisons are over.
PairsLoop ==
    /\ pair[2] = NumEntries + 1 => pair[1] = NumEntries
    /\ fpc = "union" => groups = <<>> /\ row = 1
    /\ fpc = "union" => \A i, j \in Entries :
           i < j /\ Overlap(i, j) /\ (i < pair[1] \/ (i = pair[1] /\ j < pair[2])) => root[i] = root[j]
    /\ fpc # "union" => \A i, j \in Entries : Overlap(i, j) => root[i] = root[j]

\* A group is what has one root, and every entry met so far is in a group.
GroupsLoop ==
    /\ \A k \in DOMAIN groups : groups[k] \subseteq 1 .. row - 1
    /\ \A k, m \in DOMAIN groups : \A i \in groups[k], j \in groups[m] : root[i] = root[j] <=> k = m
    /\ \A i \in 1 .. row - 1 : \E k \in DOMAIN groups : i \in groups[k]
    /\ Grouped => row = NumEntries + 1

\* The branches, and what the current one has and will get, touch their groups' files.
Picked(commits) == \A c \in Range(commits) : Touches(c, groups[Current])
BranchLoop ==
    /\ ~Grouped => made = <<>>
    /\ Len(made) <= Len(groups)
    /\ fpc \in {"list", "pick"} => Current <= Len(groups)
    /\ fpc = "list" => Picked(todo)
    /\ fpc = "pick" => Picked(head \o todo)
    /\ \A k \in DOMAIN made : \A c \in Range(made[k].commits) : Touches(c, groups[k])

\* For the first branch: the first n commits have been looked at, those that touch the
\* group's files are kept.
Listed(n) ==
    /\ Len(listed) = NumEntries - n
    /\ \A i \in DOMAIN listed : listed[i] = n + i
    /\ Range(todo) = {c \in 1..n : Touches(c, groups[1])}
    /\ InOrder(todo)

\* What the first branch has and will get are the session's commits of its group.
WholeSession(commits) == Range(commits) = Session(groups[1]) /\ InOrder(commits)
FirstBranch ==
    /\ made = <<>> /\ fpc # "pick" => head = [i \in Entries |-> i]
    /\ made = <<>> /\ fpc = "list" => \E n \in 0..NumEntries : Listed(n)
    /\ made = <<>> /\ fpc = "pick" => WholeSession(head \o todo)
    /\ made # <<>> /\ made[1].ok => WholeSession(made[1].commits)
FinalizeIInv == FinalizeTypeOK /\ PairsLoop /\ GroupsLoop /\ BranchLoop /\ FirstBranch

\* The pair compared next: only the pair just compared joins those before it.
LEMMA NextPair ==
  ASSUME NEW n \in Nat, NEW i \in 1 .. n, NEW j \in i + 1 .. n, NEW p,
         p = IF j < n THEN <<i, j + 1>> ELSE <<i + 1, i + 2>>
  PROVE  /\ p[1] \in 1 .. n /\ p[2] \in p[1] + 1 .. n + 1
         /\ p[2] = n + 1 => p[1] = n
         /\ \A a, b \in 1 .. n : a < b /\ (a < p[1] \/ (a = p[1] /\ b < p[2])) =>
                a < i \/ (a = i /\ b < j) \/ (a = i /\ b = j)
  <1>1. CASE j < n
    <2>1. p[1] = i /\ p[2] = j + 1
      BY <1>1
    <2>. QED
      BY <1>1, <2>1
  <1>2. CASE ~(j < n)
    <2>1. p[1] = i + 1 /\ p[2] = i + 2 /\ j = n
      BY <1>2
    <2>. QED
      BY <2>1
  <1>. QED
    BY <1>1, <1>2

\* The type invariant, first and in every step.
LEMMA InitFinalizeType == ASSUME FinalizeInit PROVE FinalizeTypeOK
  <1>. USE FinalizeAssumption DEF FinalizeInit, Entries
  <1>1. {touched, commitFiles} \subseteq [Entries -> SUBSET Files]
    OBVIOUS
  <1>2. head \in Seq(Entries)
    <2>. DEFINE s == [i \in Entries |-> i]
    <2>1. NumEntries \in Nat /\ s \in [1 .. NumEntries -> Entries]
      OBVIOUS
    <2>. HIDE DEF s
    <2>2. s \in Seq(Entries)
      BY <2>1, IsASeq
    <2>. QED
      BY <2>2 DEF s
  <1>. QED
    BY <1>1, <1>2, SMT DEF FinalizeTypeOK

\* Every step, and a stutter, keeps the variables in their types.
LEMMA FinalizeTypePreserved ==
  ASSUME FinalizeTypeOK, [FinalizeStep]_finalizeVars
  PROVE  FinalizeTypeOK'
  <1>. USE FinalizeAssumption DEF FinalizeTypeOK
  <1>1. CASE Compare
    <2>1. pair[1] \in 1 .. NumEntries /\ pair[2] \in pair[1] + 1 .. NumEntries
      <3>1. pair[2] \in pair[1] + 1 .. NumEntries + 1 /\ pair[1] \in Nat /\ pair[2] <= NumEntries
        BY <1>1 DEF Compare, Entries
      <3>. HIDE DEF FinalizeTypeOK
      <3>. QED
        BY <3>1 DEF Entries, FinalizeTypeOK
    <2>2. pair'[1] \in Entries /\ pair'[2] \in pair'[1] + 1 .. NumEntries + 1
      <3>2. pair' = IF pair[2] < NumEntries THEN <<pair[1], pair[2] + 1>> ELSE <<pair[1] + 1, pair[1] + 2>>
        BY <1>1 DEF Compare
      <3>. HIDE DEF FinalizeTypeOK
      <3>. QED
        BY <2>1, <3>2, NextPair, FinalizeAssumption DEF Entries
    <2>3. root' \in [Entries -> Entries]
      <3>1. root \in [Entries -> Entries]
        OBVIOUS
      <3>. HIDE DEF FinalizeTypeOK
      <3>2. pair[1] \in Entries /\ pair[2] \in Entries
        BY <2>1 DEF Entries
      <3>. QED
        BY <1>1, <3>1, <3>2 DEF Compare
    <2>. QED
      BY <1>1, <2>2, <2>3 DEF Compare
  <1>2. CASE Compared \/ Collected \/ Refuse \/ NameTaken \/ Finish
    BY <1>2 DEF Compared, Collected, Refuse, NameTaken, Finish, groupVars
  <1>3. CASE Collect
    <2>1. row \in Entries /\ row' \in 1 .. NumEntries + 1
      <3>1. row \in 1 .. NumEntries + 1
        OBVIOUS
      <3>. HIDE DEF FinalizeTypeOK
      <3>. QED
        BY <1>3, <3>1 DEF Collect, Entries
    <2>2. groups' \in Seq(SUBSET Entries)
      <3>. DEFINE mine(k) == \E i \in groups[k] : root[i] = root[row]
                  Joined == [k \in DOMAIN groups |-> IF mine(k) THEN groups[k] \cup {row} ELSE groups[k]]
      <3>1. Append(groups, {row}) \in Seq(SUBSET Entries)
        BY <2>1, AppendProperties
      <3>2. \A k \in 1 .. Len(groups) : groups[k] \in SUBSET Entries
        BY ElementOfSeq
      <3>3. Joined \in [1 .. Len(groups) -> SUBSET Entries]
        <4>. HIDE DEF mine
        <4>. QED
          BY <3>2, <2>1
      <3>4. Joined \in Seq(SUBSET Entries)
        <4>. HIDE DEF Joined, FinalizeTypeOK
        <4>. QED
          <5>1. Len(groups) \in Nat
            BY LenProperties
          <5>. QED
            BY <3>3, <5>1
      <3>. QED
        BY <1>3, <3>1, <3>4 DEF Collect
    <2>. QED
      BY <1>3, <2>1, <2>2 DEF Collect
  <1>4. CASE ListCommits
    BY <1>4 DEF ListCommits, groupVars
  <1>5. CASE ShowCommit
    <2>1. Head(listed) \in Entries /\ Tail(listed) \in Seq(Entries)
      BY <1>5, HeadTailProperties DEF ShowCommit
    <2>. QED
      BY <1>5, <2>1 DEF ShowCommit, groupVars
  <1>6. CASE CreateBranch
    BY <1>6 DEF CreateBranch, groupVars
  <1>7. CASE Pick
    <2>1. Head(todo) \in Entries /\ Tail(todo) \in Seq(Entries)
      BY <1>7, HeadTailProperties DEF Pick
    <2>. QED
      BY <1>7, <2>1 DEF Pick, groupVars
  <1>8. CASE PickFails \/ BranchDone
    <2>1. PICK ok \in BOOLEAN : made' = Append(made, [commits |-> head, ok |-> ok])
      BY <1>8 DEF PickFails, BranchDone, Made
    <2>2. made' \in Seq([commits : Seq(Entries), ok : BOOLEAN])
      BY <2>1, AppendProperties
    <2>3. head' \in Seq(Entries) /\ UNCHANGED <<touched, commitFiles, taken, groupVars, listed, todo>>
      <3>1. (head' = head \/ head' = <<>>) /\ UNCHANGED <<touched, commitFiles, taken, groupVars, listed, todo>>
        BY <1>8 DEF PickFails, BranchDone
      <3>. QED
        BY <3>1, EmptySeq
    <2>4. fpc' \in {"next", "failed"}
      BY <1>8 DEF PickFails, BranchDone
    <2>. QED
      BY <2>2, <2>3, <2>4 DEF groupVars
  <1>9. CASE UNCHANGED finalizeVars
    BY <1>9 DEF finalizeVars, groupVars
  <1>. QED
    BY <1>1, <1>2, <1>3, <1>4, <1>5, <1>6, <1>7, <1>8, <1>9 DEF FinalizeStep

\* A step leaves what was touched and committed alone, and the groups too once it is not in
\* the loops.
LEMMA SessionIsRead ==
  ASSUME [FinalizeStep]_finalizeVars
  PROVE  /\ UNCHANGED <<touched, commitFiles>>
         /\ fpc = "union" \/ UNCHANGED <<root, pair>>
         /\ fpc = "collect" \/ UNCHANGED <<groups, row>>
  BY DEF FinalizeStep, Compare, Compared, Collect, Collected, Refuse, ListCommits, ShowCommit,
         CreateBranch, NameTaken, Pick, PickFails, BranchDone, Finish, finalizeVars, groupVars

\* A union merges whole roots, so that what was equal stays equal.
LEMMA PairsLoopPreserved ==
  ASSUME FinalizeTypeOK, PairsLoop, [FinalizeStep]_finalizeVars
  PROVE  PairsLoop'
  <1>0. \A i, j : Overlap(i, j)' <=> Overlap(i, j)
    BY SessionIsRead DEF Overlap
  <1>1. CASE Compare
    <2>. DEFINE i == pair[1]
                j == pair[2]
    <2>1. i \in 1 .. NumEntries /\ j \in i + 1 .. NumEntries
      BY <1>1 DEF FinalizeTypeOK, Compare, Entries
    <2>2. pair' = IF j < NumEntries THEN <<i, j + 1>> ELSE <<i + 1, i + 2>>
      BY <1>1 DEF Compare
    <2>. HIDE DEF i, j
    <2>3. pair'[2] = NumEntries + 1 => pair'[1] = NumEntries
      BY <2>1, <2>2, NextPair, FinalizeAssumption
    <2>4. ASSUME NEW a \in Entries, NEW b \in Entries, a < b, Overlap(a, b),
                 a < pair'[1] \/ (a = pair'[1] /\ b < pair'[2])
          PROVE  root'[a] = root'[b]
      <3>1. a < i \/ (a = i /\ b < j) \/ (a = i /\ b = j)
        BY <2>1, <2>2, <2>4, NextPair, FinalizeAssumption DEF Entries
      <3>2. root[a] = root[b] \/ (a = i /\ b = j)
        BY <3>1, <2>4, <1>1 DEF PairsLoop, Compare, i, j
      <3>3. root' = IF Overlap(i, j)
                    THEN [k \in Entries |-> IF root[k] = root[i] THEN root[j] ELSE root[k]]
                    ELSE root
        BY <1>1 DEF Compare, i, j
      <3>. QED
        BY <3>2, <3>3, <2>4
    <2>5. fpc = "union" /\ fpc' = "union" /\ groups' = groups /\ row' = row
      BY <1>1 DEF Compare
    <2>. QED
      BY <2>3, <2>4, <2>5, <1>0 DEF PairsLoop
  <1>2. CASE Compared
    <2>1. pair[1] = NumEntries
      BY <1>2, FinalizeAssumption DEF PairsLoop, Compared, FinalizeTypeOK, Entries
    <2>2. ASSUME NEW a \in Entries, NEW b \in Entries, Overlap(a, b)
          PROVE  root[a] = root[b]
      <3>1. Overlap(b, a)
        BY <2>2 DEF Overlap
      <3>2. a = b \/ (a < b /\ a < pair[1]) \/ (b < a /\ b < pair[1])
        BY <2>1, FinalizeAssumption DEF Entries
      <3>. QED
        BY <3>1, <3>2, <2>2, <1>2 DEF PairsLoop, Compared
    <2>. QED
      BY <2>2, <1>0, <1>2 DEF PairsLoop, Compared, groupVars
  <1>3. CASE ~(Compare \/ Compared)
    <2>1. UNCHANGED <<root, pair>> /\ (fpc' = "union" <=> fpc = "union") /\ (fpc = "union" => UNCHANGED <<groups, row>>)
      BY <1>3 DEF FinalizeStep, Collect, Collected, Refuse, ListCommits, ShowCommit,
         CreateBranch, NameTaken, Pick, PickFails, BranchDone, Finish, finalizeVars, groupVars
    <2>. QED
      BY <2>1, <1>0 DEF PairsLoop
  <1>. QED
    BY <1>1, <1>2, <1>3

\* An entry joins the one group of its root, or founds it.
LEMMA GroupsLoopPreserved ==
  ASSUME FinalizeTypeOK, PairsLoop, GroupsLoop, [FinalizeStep]_finalizeVars
  PROVE  GroupsLoop'
  <1>1. CASE Collect
    <2>. DEFINE mine(k) == \E i \in groups[k] : root[i] = root[row]
    <2>0. row \in Nat \ {0} /\ row' = row + 1 /\ root' = root /\ fpc = "collect" /\ fpc' = "collect"
      BY <1>1 DEF Collect, FinalizeTypeOK
    <2>1. ASSUME NEW k \in DOMAIN groups PROVE row \notin groups[k]
      BY <2>0, <2>1 DEF GroupsLoop
    <2>2. 1 .. row' - 1 = 1 .. row - 1 \cup {row}
      BY <2>0
    <2>3. CASE \E k \in DOMAIN groups : mine(k)
      <3>1. PICK k \in DOMAIN groups : mine(k)
        BY <2>3
      <3>2. DOMAIN groups' = DOMAIN groups /\ \A m \in DOMAIN groups :
              groups'[m] = IF mine(m) THEN groups[m] \cup {row} ELSE groups[m]
        BY <2>3, <1>1 DEF Collect
      <3>3. \A m \in DOMAIN groups : mine(m) <=> m = k
        BY <3>1 DEF GroupsLoop
      <3>4. \A m \in DOMAIN groups : groups'[m] = IF m = k THEN groups[m] \cup {row} ELSE groups[m]
        BY <3>2, <3>3
      <3>5. \A m \in DOMAIN groups : \A i \in groups[m] : root[i] = root[row] <=> m = k
        BY <3>1 DEF GroupsLoop
      <3>. HIDE DEF mine
      <3>6. \A m \in DOMAIN groups : groups'[m] \subseteq 1 .. row' - 1
        BY <3>4, <2>2 DEF GroupsLoop
      <3>7. ASSUME NEW a \in DOMAIN groups, NEW b \in DOMAIN groups, NEW i \in groups'[a], NEW j \in groups'[b]
            PROVE  root[i] = root[j] <=> a = b
        <4>1. i \in groups[a] \/ (i = row /\ a = k)
          BY <3>4
        <4>2. j \in groups[b] \/ (j = row /\ b = k)
          BY <3>4
        <4>. QED
          BY <4>1, <4>2, <3>5 DEF GroupsLoop
      <3>8. \A i \in 1 .. row' - 1 : \E m \in DOMAIN groups : i \in groups'[m]
        BY <3>4, <2>2, <3>1 DEF GroupsLoop
      <3>. QED
        BY <3>2, <3>6, <3>7, <3>8, <2>0 DEF GroupsLoop, Grouped
    <2>4. CASE ~ \E k \in DOMAIN groups : mine(k)
      <3>0. groups' = Append(groups, {row}) /\ groups \in Seq(SUBSET Entries) /\ {row} \in SUBSET Entries
        BY <2>4, <1>1 DEF Collect, FinalizeTypeOK, Entries
      <3>1. \A m \in DOMAIN groups : \A i \in groups[m] : root[i] # root[row]
        BY <2>4
      <3>. HIDE DEF mine
      <3>2. /\ Len(groups) \in Nat /\ DOMAIN groups = 1 .. Len(groups)
            /\ DOMAIN groups' = 1 .. Len(groups) + 1
            /\ \A m \in DOMAIN groups : groups'[m] = groups[m]
            /\ groups'[Len(groups) + 1] = {row}
        BY <3>0, AppendProperties, LenProperties
      <3>3. DOMAIN groups' = DOMAIN groups \cup {Len(groups) + 1} /\ Len(groups) + 1 \notin DOMAIN groups
        BY <3>2
      <3>6. \A m \in DOMAIN groups' : groups'[m] \subseteq 1 .. row' - 1
        BY <3>2, <3>3, <2>2 DEF GroupsLoop
      <3>7. ASSUME NEW a \in DOMAIN groups', NEW b \in DOMAIN groups', NEW i \in groups'[a], NEW j \in groups'[b]
            PROVE  root[i] = root[j] <=> a = b
        <4>1. (a \in DOMAIN groups /\ i \in groups[a]) \/ (i = row /\ a = Len(groups) + 1)
          BY <3>2, <3>3
        <4>2. (b \in DOMAIN groups /\ j \in groups[b]) \/ (j = row /\ b = Len(groups) + 1)
          BY <3>2, <3>3
        <4>. QED
          BY <4>1, <4>2, <3>1, <3>3 DEF GroupsLoop
      <3>8. \A i \in 1 .. row' - 1 : \E m \in DOMAIN groups' : i \in groups'[m]
        BY <3>2, <3>3, <2>2 DEF GroupsLoop
      <3>. QED
        BY <3>6, <3>7, <3>8, <2>0 DEF GroupsLoop, Grouped
    <2>. QED
      BY <2>3, <2>4
  <1>2. CASE fpc = "union"
    <2>1. groups = <<>> /\ row = 1 /\ groups' = groups /\ row' = row /\ fpc' \in {"union", "collect"}
      BY <1>2 DEF PairsLoop, FinalizeStep, Compare, Compared, Collect, Collected, Refuse, ListCommits, ShowCommit,
         CreateBranch, NameTaken, Pick, PickFails, BranchDone, Finish, finalizeVars, groupVars
    <2>. QED
      BY <2>1 DEF GroupsLoop, Grouped
  <1>3. CASE Collected
    <2>1. UNCHANGED <<root, groups, row>> /\ row = NumEntries + 1
      BY <1>3, FinalizeAssumption DEF Collected, FinalizeTypeOK, groupVars
    <2>. QED
      BY <2>1 DEF GroupsLoop
  <1>4. CASE ~(fpc = "union") /\ ~Collect /\ ~Collected
    <2>1. UNCHANGED <<root, groups, row>> /\ Grouped' = Grouped
      BY <1>4 DEF Grouped, FinalizeStep, Compare, Compared, Refuse, ListCommits, ShowCommit,
         CreateBranch, NameTaken, Pick, PickFails, BranchDone, Finish, finalizeVars, groupVars
    <2>. QED
      BY <2>1 DEF GroupsLoop
  <1>. QED
    BY <1>1, <1>2, <1>3, <1>4

\* An appended element is added to the range.
LEMMA RangeAppended ==
  ASSUME NEW S, NEW s \in Seq(S), NEW e \in S
  PROVE  Range(Append(s, e)) = Range(s) \cup {e}
  <1>1. DOMAIN Append(s, e) = DOMAIN s \cup {Len(s) + 1} /\ Len(s) + 1 \notin DOMAIN s
    BY AppendProperties, LenProperties
  <1>2. \A i \in DOMAIN s : Append(s, e)[i] = s[i]
    BY AppendProperties, LenProperties
  <1>3. Append(s, e)[Len(s) + 1] = e
    BY AppendProperties
  <1>. QED
    BY <1>1, <1>2, <1>3 DEF Range

\* What is on the branch, followed by what is still to be picked, is the same sequence
\* before and after a pick.
LEMMA PickMovesTheCommit ==
  ASSUME NEW S, NEW s \in Seq(S), NEW t \in Seq(S), t # <<>>
  PROVE  Append(s, Head(t)) \o Tail(t) = s \o t
  <1>1. Head(t) \in S /\ Tail(t) \in Seq(S)
    BY HeadTailProperties
  <1>2. Append(s, Head(t)) = s \o <<Head(t)>>
    BY <1>1, AppendIsConcat
  <1>3. <<Head(t)>> \o Tail(t) = t
    BY <1>1, HeadTailProperties, ConcatProperties
  <1>4. <<Head(t)>> \in Seq(S)
    BY <1>1
  <1>. QED
    BY <1>1, <1>2, <1>3, <1>4, ConcatAssociative

\* With the groups made, what a commit touches stays what it is.
LEMMA TouchesStays ==
  ASSUME UNCHANGED <<touched, commitFiles, groups>>
  PROVE  /\ (\A k \in DOMAIN made' : \A c \in Range(made'[k].commits) : Touches(c, groups[k]))
            => (\A k \in DOMAIN made : \A c \in Range(made[k].commits) : Touches(c, groups[k]))'
         /\ (\A c \in Range(todo') : Touches(c, groups[Current'])) => Picked(todo)'
         /\ (\A c \in Range(head' \o todo') : Touches(c, groups[Current'])) => Picked(head \o todo)'
         /\ Session(groups[1])' = Session(groups[1])
         /\ \A n : {c \in 1..n : Touches(c, groups[1])'} = {c \in 1..n : Touches(c, groups[1])}
  <1>1. touched' = touched /\ commitFiles' = commitFiles /\ groups' = groups
    OBVIOUS
  <1>2. \A g : FilesOf(g)' = FilesOf(g)
    BY <1>1 DEF FilesOf
  <1>. QED
    BY <1>1 DEF Touches, FilesOf, Picked, Session

\* No commit that leaves the group's files alone gets into the list, nor onto the branch.
LEMMA BranchLoopPreserved ==
  ASSUME FinalizeTypeOK, PairsLoop, BranchLoop, [FinalizeStep]_finalizeVars
  PROVE  BranchLoop'
  <1>. DEFINE MadeOf(k) == \A c \in Range(made'[k].commits) : Touches(c, groups[k])
  <1>1. CASE fpc \in {"union", "collect"}
    <2>1. made = <<>> /\ made' = <<>> /\ fpc' \in {"union", "collect", "next"}
      BY <1>1 DEF BranchLoop, Grouped, FinalizeStep, Compare, Compared, Collect, Collected, Refuse,
         ListCommits, ShowCommit, CreateBranch, NameTaken, Pick, PickFails, BranchDone, Finish,
         finalizeVars, groupVars
    <2>2. groups' \in Seq(SUBSET Entries)
      BY FinalizeTypePreserved DEF FinalizeTypeOK
    <2>3. Len(made') = 0 /\ Len(groups') \in Nat /\ DOMAIN made' = {}
      BY <2>1, <2>2, LenProperties
    <2>. QED
      BY <2>1, <2>3 DEF BranchLoop, Grouped
  <1>2. CASE fpc \notin {"union", "collect"}
    <2>0. UNCHANGED <<touched, commitFiles, groups>> /\ Grouped'
      BY <1>2 DEF Grouped, FinalizeStep, Compare, Compared, Collect, Collected, Refuse,
         ListCommits, ShowCommit, CreateBranch, NameTaken, Pick, PickFails, BranchDone, Finish,
         finalizeVars, groupVars
    <2>1. CASE ListCommits
      <3>1. todo' = <<>> /\ made' = made /\ fpc' = "list" /\ Current <= Len(groups)
        BY <2>1 DEF ListCommits
      <3>2. Range(todo') = {}
        BY <3>1 DEF Range
      <3>. QED
        BY <3>1, <3>2, <2>0, TouchesStays DEF BranchLoop, Current
    <2>2. CASE ShowCommit
      <3>1. made' = made /\ fpc = "list" /\ fpc' = "list" /\ Head(listed) \in Entries /\ todo \in Seq(Entries)
        BY <2>2, HeadTailProperties DEF ShowCommit, FinalizeTypeOK
      <3>2. \A c \in Range(todo') : c \in Range(todo) \/ (c = Head(listed) /\ Touches(c, groups[Current]))
        BY <2>2, <3>1, RangeAppended DEF ShowCommit
      <3>3. \A c \in Range(todo') : Touches(c, groups[Current'])
        BY <3>1, <3>2 DEF BranchLoop, Picked, Current
      <3>. QED
        BY <3>1, <3>3, <2>0, TouchesStays DEF BranchLoop, Current
    <2>3. CASE CreateBranch
      <3>1. made' = made /\ fpc = "list" /\ fpc' = "pick" /\ head' = <<>> /\ todo' = todo /\ todo \in Seq(Entries)
        BY <2>3 DEF CreateBranch, FinalizeTypeOK
      <3>2. head' \o todo' = todo
        BY <3>1, ConcatEmptySeq
      <3>3. \A c \in Range(head' \o todo') : Touches(c, groups[Current'])
        BY <3>1, <3>2 DEF BranchLoop, Picked, Current
      <3>. QED
        BY <3>1, <3>3, <2>0, TouchesStays DEF BranchLoop, Current
    <2>4. CASE Pick
      <3>1. made' = made /\ fpc = "pick" /\ fpc' = "pick" /\ {head, todo} \subseteq Seq(Entries) /\ todo # <<>>
        BY <2>4 DEF Pick, FinalizeTypeOK
      <3>2. head' \o todo' = head \o todo
        BY <3>1, <2>4, PickMovesTheCommit DEF Pick
      <3>3. \A c \in Range(head' \o todo') : Touches(c, groups[Current'])
        BY <3>1, <3>2 DEF BranchLoop, Picked, Current
      <3>. QED
        BY <3>1, <3>3, <2>0, TouchesStays DEF BranchLoop, Current
    <2>5. CASE PickFails \/ BranchDone
      <3>1. fpc = "pick" /\ fpc' \in {"next", "failed"} /\ {head, todo} \subseteq Seq(Entries)
        BY <2>5 DEF PickFails, BranchDone, FinalizeTypeOK
      <3>2. PICK ok \in BOOLEAN : made' = Append(made, [commits |-> head, ok |-> ok])
        BY <2>5 DEF PickFails, BranchDone, Made
      <3>3. /\ Len(made) \in Nat /\ Len(made') = Len(made) + 1 /\ DOMAIN made' = 1 .. Len(made) + 1
            /\ \A k \in 1 .. Len(made) : made'[k] = made[k]
            /\ made'[Len(made) + 1] = [commits |-> head, ok |-> ok]
        <4>1. made \in Seq([commits : Seq(Entries), ok : BOOLEAN])
          BY DEF FinalizeTypeOK
        <4>2. [commits |-> head, ok |-> ok] \in [commits : Seq(Entries), ok : BOOLEAN]
          BY <3>1
        <4>. QED
          BY <4>1, <4>2, <3>2, AppendProperties, LenProperties
      <3>4. Range(head) \subseteq Range(head \o todo)
        BY <3>1, ConcatProperties, LenProperties DEF Range
      <3>5. \A k \in DOMAIN made : MadeOf(k)
        BY <3>3, LenProperties DEF BranchLoop, FinalizeTypeOK
      <3>6. MadeOf(Current)
        BY <3>1, <3>3, <3>4 DEF BranchLoop, Picked, Current
      <3>7. \A k \in DOMAIN made' : MadeOf(k)
        <4>1. DOMAIN made = 1 .. Len(made)
          BY LenProperties DEF FinalizeTypeOK
        <4>2. DOMAIN made' = DOMAIN made \cup {Current}
          BY <3>3, <4>1 DEF Current
        <4>. HIDE DEF MadeOf
        <4>. QED
          BY <4>2, <3>5, <3>6
      <3>8. Len(made') <= Len(groups')
        BY <3>1, <3>3, <2>0 DEF BranchLoop, Current
      <3>. QED
        BY <3>1, <3>7, <3>8, <2>0, TouchesStays DEF BranchLoop
    <2>6. CASE Refuse \/ NameTaken \/ Finish
      BY <2>6, <2>0, TouchesStays DEF BranchLoop, Refuse, NameTaken, Finish
    <2>7. CASE UNCHANGED finalizeVars
      BY <2>7, <2>0, TouchesStays DEF BranchLoop, finalizeVars, Picked, Current
    <2>. QED
      BY <1>2, <2>1, <2>2, <2>3, <2>4, <2>5, <2>6, <2>7
         DEF FinalizeStep, Compare, Compared, Collect, Collected
  <1>. QED
    BY <1>1, <1>2

\* The next commit is looked at: the first n + 1 have been.
LEMMA OneMoreListed ==
  ASSUME NEW n \in 0..NumEntries, Listed(n), FinalizeTypeOK, ShowCommit, groups' = groups,
         UNCHANGED <<touched, commitFiles>>, Current = 1
  PROVE  n + 1 \in 0..NumEntries /\ Listed(n + 1)'
  <1>0. NumEntries \in Nat /\ listed \in Seq(Entries) /\ todo \in Seq(Entries) /\ listed # <<>>
    BY FinalizeAssumption DEF FinalizeTypeOK, ShowCommit
  <1>1. /\ Len(listed) \in Nat /\ Len(listed) = NumEntries - n /\ Len(listed) # 0
        /\ DOMAIN listed = 1 .. Len(listed)
    BY <1>0, EmptySeq, LenProperties DEF Listed
  <1>2. n + 1 \in 0..NumEntries /\ n + 1 \in Entries
    BY <1>1, <1>0 DEF Entries
  <1>3. Head(listed) = n + 1
    <2>1. listed[1] = n + 1
      BY <1>1 DEF Listed
    <2>. QED
      BY <2>1, <1>0
  <1>4. listed' \in Seq(Entries) /\ Len(listed') = Len(listed) - 1 /\ \A i \in 1 .. Len(listed') : listed'[i] = listed[i + 1]
    BY <1>0, HeadTailProperties DEF ShowCommit
  <1>5. Len(listed') = NumEntries - (n + 1)
    BY <1>1, <1>4, <1>0
  <1>6. \A i \in DOMAIN listed' : listed'[i] = (n + 1) + i
    <2>1. DOMAIN listed' = 1 .. Len(listed')
      BY <1>4, LenProperties
    <2>2. ASSUME NEW i \in 1 .. Len(listed') PROVE listed'[i] = (n + 1) + i
      <3>1. i + 1 \in 1 .. Len(listed) /\ i \in Nat
        BY <1>1, <1>4
      <3>2. listed[i + 1] = n + (i + 1)
        BY <3>1, <1>1 DEF Listed
      <3>. QED
        BY <3>1, <3>2, <1>4
    <2>. QED
      BY <2>1, <2>2
  <1>7. todo' = IF Touches(n + 1, groups[1]) THEN Append(todo, n + 1) ELSE todo
    BY <1>3 DEF ShowCommit
  <1>8. 1 .. n + 1 = 1 .. n \cup {n + 1} /\ n + 1 \notin 1 .. n
    OBVIOUS
  <1>9. Range(todo') = {c \in 1 .. n + 1 : Touches(c, groups[1])}
    BY <1>0, <1>2, <1>7, <1>8, RangeAppended DEF Listed
  <1>10. InOrder(todo')
    <2>1. CASE todo' = Append(todo, n + 1)
      <3>1. \A i \in DOMAIN todo : todo[i] \in 1 .. n
        BY DEF Listed, Range
      <3>2. /\ Len(todo) \in Nat /\ DOMAIN todo = 1 .. Len(todo) /\ DOMAIN todo' = 1 .. Len(todo) + 1
            /\ \A i \in 1 .. Len(todo) : todo'[i] = todo[i]
            /\ todo'[Len(todo) + 1] = n + 1
        BY <2>1, <1>0, <1>2, AppendProperties, LenProperties
      <3>3. ASSUME NEW i \in DOMAIN todo', NEW j \in DOMAIN todo', i < j
            PROVE  todo'[i] < todo'[j]
        <4>1. i \in DOMAIN todo /\ (j \in DOMAIN todo \/ j = Len(todo) + 1)
          BY <3>2, <3>3
        <4>2. CASE j \in DOMAIN todo
          BY <4>1, <4>2, <3>2, <3>3 DEF Listed, InOrder
        <4>3. CASE j = Len(todo) + 1
          <5>1. todo'[i] \in 1 .. n /\ todo'[j] = n + 1
            BY <4>1, <4>3, <3>1, <3>2
          <5>. QED
            BY <5>1
        <4>. QED
          BY <4>1, <4>2, <4>3
      <3>. QED
        BY <3>3 DEF InOrder
    <2>2. CASE todo' = todo
      BY <2>2 DEF Listed
    <2>. QED
      BY <2>1, <2>2, <1>7
  <1>11. {c \in 1 .. n + 1 : Touches(c, groups[1])'} = {c \in 1 .. n + 1 : Touches(c, groups[1])}
    BY TouchesStays
  <1>. QED
    BY <1>2, <1>5, <1>6, <1>9, <1>10, <1>11 DEF Listed, InOrder

\* Until the first branch is made HEAD holds the whole session; then the branch and its
\* list together hold the session's commits of the first group.
LEMMA FirstBranchPreserved ==
  ASSUME FinalizeTypeOK, PairsLoop, BranchLoop, FirstBranch, [FinalizeStep]_finalizeVars
  PROVE  FirstBranch'
  <1>0. made = <<>> => Current = 1
    BY DEF Current
  <1>1. CASE fpc \in {"union", "collect"}
    <2>1. made = <<>> /\ made' = <<>> /\ fpc' \in {"union", "collect", "next"} /\ head' = head
      BY <1>1 DEF BranchLoop, Grouped, FinalizeStep, Compare, Compared, Collect, Collected, Refuse,
         ListCommits, ShowCommit, CreateBranch, NameTaken, Pick, PickFails, BranchDone, Finish,
         finalizeVars, groupVars
    <2>2. head = [i \in Entries |-> i]
      BY <1>1, <2>1 DEF FirstBranch
    <2>. QED
      BY <2>1, <2>2 DEF FirstBranch
  <1>2. CASE fpc \notin {"union", "collect"}
    <2>0. UNCHANGED <<touched, commitFiles, groups>>
      BY <1>2 DEF Grouped, FinalizeStep, Compare, Compared, Collect, Collected, Refuse,
         ListCommits, ShowCommit, CreateBranch, NameTaken, Pick, PickFails, BranchDone, Finish,
         finalizeVars, groupVars
    <2>1. CASE ListCommits
      <3>1. todo' = <<>> /\ listed' = head /\ made' = made /\ head' = head /\ fpc = "next" /\ fpc' = "list"
        BY <2>1 DEF ListCommits
      <3>2. ASSUME made = <<>> PROVE Listed(0)'
        <4>1. listed' = [i \in Entries |-> i] /\ NumEntries \in Nat
          BY <3>1, <3>2, FinalizeAssumption DEF FirstBranch
        <4>2. Len(listed') = NumEntries - 0 /\ \A i \in DOMAIN listed' : listed'[i] = 0 + i
          BY <4>1 DEF Entries
        <4>3. Range(todo') = {} /\ InOrder(todo')
          BY <3>1 DEF Range, InOrder
        <4>. QED
          BY <4>2, <4>3 DEF Listed, InOrder
      <3>3. 0 \in 0 .. NumEntries
        BY FinalizeAssumption
      <3>. QED
        BY <3>1, <3>2, <3>3, <2>0, TouchesStays DEF FirstBranch, WholeSession, InOrder
    <2>2. CASE ShowCommit
      <3>1. made' = made /\ fpc = "list" /\ fpc' = "list" /\ head' = head
        BY <2>2 DEF ShowCommit
      <3>2. made = <<>> => \E n \in 0 .. NumEntries : Listed(n)'
        <4>1. SUFFICES ASSUME made = <<>> PROVE \E n \in 0 .. NumEntries : Listed(n)'
          OBVIOUS
        <4>2. PICK n \in 0 .. NumEntries : Listed(n)
          BY <4>1, <3>1 DEF FirstBranch
        <4>3. n + 1 \in 0 .. NumEntries /\ Listed(n + 1)'
          BY <4>1, <4>2, <1>0, <2>0, <2>2, OneMoreListed
        <4>. QED
          BY <4>3
      <3>. QED
        BY <3>1, <3>2, <2>0, TouchesStays DEF FirstBranch, WholeSession, InOrder
    <2>3. CASE CreateBranch
      <3>1. made' = made /\ fpc = "list" /\ fpc' = "pick" /\ head' = <<>> /\ todo' = todo /\ todo \in Seq(Entries) /\ listed = <<>>
        BY <2>3 DEF CreateBranch, FinalizeTypeOK
      <3>2. head' \o todo' = todo
        BY <3>1, ConcatEmptySeq
      <3>3. ASSUME made = <<>> PROVE WholeSession(todo)
        <4>1. PICK n \in 0 .. NumEntries : Listed(n)
          BY <3>1, <3>3 DEF FirstBranch
        <4>2. n = NumEntries
          BY <3>1, <4>1, FinalizeAssumption DEF Listed
        <4>. QED
          BY <4>1, <4>2 DEF Listed, WholeSession, Session, Entries
      <3>. QED
        BY <3>1, <3>2, <3>3, <2>0, TouchesStays DEF FirstBranch, WholeSession, InOrder
    <2>4. CASE Pick
      <3>1. made' = made /\ fpc = "pick" /\ fpc' = "pick" /\ {head, todo} \subseteq Seq(Entries) /\ todo # <<>>
        BY <2>4 DEF Pick, FinalizeTypeOK
      <3>2. head' \o todo' = head \o todo
        BY <3>1, <2>4, PickMovesTheCommit DEF Pick
      <3>. QED
        BY <3>1, <3>2, <2>0, TouchesStays DEF FirstBranch, WholeSession, InOrder
    <2>5. CASE PickFails \/ BranchDone
      <3>1. fpc = "pick" /\ fpc' \in {"next", "failed"} /\ {head, todo} \subseteq Seq(Entries)
        BY <2>5 DEF PickFails, BranchDone, FinalizeTypeOK
      <3>2. PICK ok \in BOOLEAN : made' = Append(made, [commits |-> head, ok |-> ok]) /\ (ok => todo = <<>>)
        BY <2>5 DEF PickFails, BranchDone, Made
      <3>3. /\ Len(made) \in Nat /\ made' # <<>>
            /\ \A k \in 1 .. Len(made) : made'[k] = made[k]
            /\ made'[Len(made) + 1] = [commits |-> head, ok |-> ok]
        <4>1. made \in Seq([commits : Seq(Entries), ok : BOOLEAN])
          BY DEF FinalizeTypeOK
        <4>2. [commits |-> head, ok |-> ok] \in [commits : Seq(Entries), ok : BOOLEAN]
          BY <3>1
        <4>. QED
          BY <4>1, <4>2, <3>2, AppendProperties, LenProperties
      <3>4. ASSUME made'[1].ok PROVE WholeSession(made'[1].commits)
        <4>1. CASE made = <<>>
          <5>1. made'[1] = [commits |-> head, ok |-> ok] /\ ok
            BY <3>3, <3>4, <4>1
          <5>2. head \o todo = head
            BY <5>1, <3>1, <3>2, ConcatEmptySeq
          <5>. QED
            BY <5>1, <5>2, <4>1, <3>1 DEF FirstBranch
        <4>2. CASE made # <<>>
          <5>1. 1 \in 1 .. Len(made)
            BY <4>2, <3>3, EmptySeq DEF FinalizeTypeOK
          <5>. QED
            BY <5>1, <4>2, <3>3, <3>4 DEF FirstBranch
        <4>. QED
          BY <4>1, <4>2
      <3>. QED
        BY <3>1, <3>3, <3>4, <2>0, TouchesStays DEF FirstBranch, WholeSession, InOrder
    <2>6. CASE Refuse \/ NameTaken \/ Finish
      <3>1. UNCHANGED <<head, made>> /\ fpc # "pick" /\ fpc' \in {"failed", "done"}
        BY <2>6 DEF Refuse, NameTaken, Finish
      <3>. QED
        BY <3>1, <2>0, TouchesStays DEF FirstBranch, WholeSession, InOrder
    <2>7. CASE UNCHANGED finalizeVars
      <3>1. \A n : Listed(n)' <=> Listed(n)
        BY <2>0, <2>7, TouchesStays DEF Listed, InOrder, finalizeVars
      <3>. QED
        BY <3>1, <2>0, <2>7, TouchesStays DEF FirstBranch, WholeSession, InOrder, finalizeVars
    <2>. QED
      BY <1>2, <2>1, <2>2, <2>3, <2>4, <2>5, <2>6, <2>7
         DEF FinalizeStep, Compare, Compared, Collect, Collected
  <1>. QED
    BY <1>1, <1>2

\* Nothing is compared and no branch made: the invariant holds initially.
LEMMA InitFinalizeIInv == FinalizeInit => FinalizeIInv
  <1> SUFFICES ASSUME FinalizeInit PROVE FinalizeIInv
    OBVIOUS
  <1>1. PairsLoop
    <2>1. pair = <<1, 2>> /\ fpc = "union" /\ groups = <<>> /\ row = 1
      BY DEF FinalizeInit
    <2>2. pair[1] = 1 /\ pair[2] = 2
      BY <2>1
    <2>. QED
      BY <2>1, <2>2, FinalizeAssumption DEF PairsLoop, Entries
  <1>2. GroupsLoop
    BY DEF FinalizeInit, GroupsLoop, Grouped
  <1>3. BranchLoop
    BY DEF FinalizeInit, BranchLoop, Grouped
  <1>4. FirstBranch
    BY DEF FinalizeInit, FirstBranch
  <1>. QED
    BY <1>1, <1>2, <1>3, <1>4, InitFinalizeType DEF FinalizeIInv

\* The invariant holds of every behaviour.
THEOREM FinalizeIInvHolds == FinalizeSpec => []FinalizeIInv
  <1>1. FinalizeIInv /\ [FinalizeStep]_finalizeVars => FinalizeIInv'
    BY FinalizeTypePreserved, PairsLoopPreserved, GroupsLoopPreserved, BranchLoopPreserved, FirstBranchPreserved
       DEF FinalizeIInv
  <1>. QED
    BY <1>1, InitFinalizeIInv, PTL DEF FinalizeSpec

\* Entries that share a file have one root, and a root has one group.
LEMMA IndependentFromInv == FinalizeIInv => BranchesAreIndependent
  <1> SUFFICES ASSUME FinalizeIInv PROVE BranchesAreIndependent
    OBVIOUS
  <1>. USE DEF FinalizeIInv
  <1>1. Grouped => \A i, j \in Entries : Overlap(i, j) => root[i] = root[j]
    BY DEF Grouped, PairsLoop
  <1>2. Grouped => \A i \in Entries : \E k \in DOMAIN groups : i \in groups[k]
    BY FinalizeAssumption DEF Grouped, GroupsLoop, Entries
  <1>3. ASSUME Grouped, NEW i \in Entries, NEW j \in Entries, Overlap(i, j)
        PROVE  \E k \in DOMAIN groups : {i, j} \subseteq groups[k]
    <2>1. PICK k \in DOMAIN groups : i \in groups[k]
      BY <1>2, <1>3
    <2>2. PICK m \in DOMAIN groups : j \in groups[m]
      BY <1>2, <1>3
    <2>3. k = m
      BY <2>1, <2>2, <1>1, <1>3 DEF GroupsLoop
    <2>. QED
      BY <2>1, <2>2, <2>3
  <1>4. ASSUME Grouped, NEW k \in DOMAIN groups, NEW m \in DOMAIN groups, k # m
        PROVE  FilesOf(groups[k]) \cap FilesOf(groups[m]) = {}
    <2>1. SUFFICES ASSUME NEW f, f \in FilesOf(groups[k]), f \in FilesOf(groups[m]) PROVE FALSE
      OBVIOUS
    <2>2. PICK i \in groups[k] : f \in touched[i]
      BY <2>1 DEF FilesOf
    <2>3. PICK j \in groups[m] : f \in touched[j]
      BY <2>1 DEF FilesOf
    <2>4. i \in Entries /\ j \in Entries
      BY <1>4, FinalizeAssumption DEF GroupsLoop, Entries
    <2>. QED
      BY <2>2, <2>3, <2>4, <1>1, <1>4 DEF Overlap, GroupsLoop
  <1>. QED
    BY <1>3, <1>4 DEF BranchesAreIndependent, BranchLoop, FirstBranch, WholeSession

\* The branches of buildGroups and createGroupBranch can be reviewed on their own: entries
\* that share a file share a group, groups share no file, no branch holds a commit that
\* leaves its group's files alone, and the branch made first has all of its group's
\* commits in their order.  For any log of entries, any commits and any branch names taken.
THEOREM BranchesIndependent == FinalizeSpec => []BranchesAreIndependent
  BY FinalizeIInvHolds, IndependentFromInv, PTL
=============================================================================
