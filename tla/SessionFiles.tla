----------------------------- MODULE SessionFiles -----------------------------
(***************************************************************************)
(* The files that several xoloop processes write without a lock: session.md, *)
(* session.jsonl and ideas.md of a session, and tradeoffs.json and the       *)
(* manifest of a goal.  A call is a few system calls, and those of other     *)
(* processes come in between; a process may die between two of them.         *)
(*                                                                           *)
(* An entry of a file is the number of the call that wrote it.               *)
(***************************************************************************)
EXTENDS Integers, FiniteSets

CONSTANTS Processes, NoProcess, MaxCalls, MaxDeaths
ASSUME SessionAssumption ==
    NoProcess \notin Processes /\ {MaxCalls, MaxDeaths} \subseteq Nat

VARIABLES
    doc,          \* session.md: [form, tried]
    docFd,        \* the process whose open file is session.md, and none other
    sessionLog,   \* session.jsonl
    ideas,        \* ideas.md: [form, listed]
    decided,      \* tradeoffs.json
    accepted,     \* acceptance.accepted_tradeoffs in goal.yaml
    call,         \* what every process is doing
    calls, deaths,
    done,         \* history: the calls that returned, of every kind
    raced         \* history: unprotected calls overlapped, or a process died

sessionVars == <<doc, docFd, sessionLog, ideas, decided, accepted, call, calls, deaths,
                 done, raced>>
goalFiles == <<decided, accepted>>

CallKinds == {"init", "tried", "log", "idea", "decide"}
NoCall == [kind |-> "none", at |-> "", id |-> 0, seen |-> {}]

SessionInit ==
    /\ doc = [form |-> "absent", tried |-> {}] /\ docFd = NoProcess
    /\ sessionLog = {} /\ ideas = [form |-> "absent", listed |-> {}]
    /\ decided = {} /\ accepted = {}
    /\ call = [p \in Processes |-> NoCall]
    /\ calls = 0 /\ deaths = 0 /\ done = [k \in CallKinds |-> {}] /\ raced = FALSE

-----------------------------------------------------------------------------
Begin(p, kind) ==
    /\ call[p] = NoCall /\ calls < MaxCalls
    /\ calls' = calls + 1
    /\ call' = [call EXCEPT ![p] = [kind |-> kind, at |-> "start", id |-> calls + 1, seen |-> {}]]
    /\ raced' = (raced \/ \E q \in Processes \ {p} :
                    \/ kind \in {"tried", "decide"} /\ call[q].kind = kind
                    \/ {kind, call[q].kind} = {"init", "tried"}
                    \/ kind = "idea" /\ call[q].kind = "idea" /\ ideas.form # "whole")
    /\ UNCHANGED <<doc, docFd, sessionLog, ideas, goalFiles, deaths, done>>

At(p, kind, at) == call[p].kind = kind /\ call[p].at = at
Goto(p, at) == call' = [call EXCEPT ![p].at = at] /\ UNCHANGED done
See(p, at, entries) == /\ call' = [call EXCEPT ![p].at = at, ![p].seen = entries]
                       /\ UNCHANGED done
Return(p) == /\ call' = [call EXCEPT ![p] = NoCall]
             /\ done' = [done EXCEPT ![call[p].kind] = @ \cup {call[p].id}]
CallThrows(p) == call' = [call EXCEPT ![p] = NoCall] /\ UNCHANGED done
Counted == <<calls, deaths, raced>>

-----------------------------------------------------------------------------
\* Mutant of CreateDoc: the file is created without the exclusive flag.
CreateDocAnyway(p) ==
    /\ At(p, "init", "start")
    /\ doc' = [form |-> "empty", tried |-> {}] /\ docFd' = p /\ Goto(p, "fill")
    /\ UNCHANGED <<sessionLog, ideas, goalFiles, Counted>>

\* initSession: an exclusive create, then the write; whoever finds the file resumes.
CreateDoc(p) ==
    /\ At(p, "init", "start")
    /\ IF doc.form = "absent"
       THEN doc' = [doc EXCEPT !.form = "empty"] /\ docFd' = p /\ Goto(p, "fill")
       ELSE UNCHANGED <<doc, docFd>> /\ Return(p)
    /\ UNCHANGED <<sessionLog, ideas, goalFiles, Counted>>

\* The write goes to the file that was created, which a rename may have replaced.
FillDoc(p) ==
    /\ At(p, "init", "fill")
    /\ doc' = IF docFd = p THEN [form |-> "whole", tried |-> {}] ELSE doc
    /\ Return(p)
    /\ UNCHANGED <<docFd, sessionLog, ideas, goalFiles, Counted>>

\* appendToTried: read, insert below the heading, write and rename.  A document
\* without the heading, or an empty one, gets a section of its own.
ReadDoc(p) ==
    /\ At(p, "tried", "start")
    /\ IF doc.form = "absent" THEN CallThrows(p)
       ELSE IF doc.form = "empty" THEN See(p, "bare", {}) ELSE See(p, doc.form, doc.tried)
    /\ UNCHANGED <<doc, docFd, sessionLog, ideas, goalFiles, Counted>>
RenameDoc(p) ==
    /\ call[p].kind = "tried" /\ call[p].at \in {"bare", "whole"}
    /\ doc' = [form |-> call[p].at, tried |-> call[p].seen \cup {call[p].id}]
    /\ docFd' = NoProcess
    /\ Return(p)
    /\ UNCHANGED <<sessionLog, ideas, goalFiles, Counted>>

\* appendLedgerEntry: one O_APPEND write.
AppendLog(p) ==
    /\ At(p, "log", "start")
    /\ sessionLog' = sessionLog \cup {call[p].id}
    /\ Return(p)
    /\ UNCHANGED <<doc, docFd, ideas, goalFiles, Counted>>

\* appendIdea: when there is no file, an exclusive create and the header, which goes
\* to offset 0 and over what was appended meanwhile.  Then the idea is appended.
CreateIdeas(p) ==
    /\ At(p, "idea", "start")
    /\ IF ideas.form = "absent"
       THEN ideas' = [ideas EXCEPT !.form = "empty"] /\ Goto(p, "fill")
       ELSE UNCHANGED ideas /\ Goto(p, "append")
    /\ UNCHANGED <<doc, docFd, sessionLog, goalFiles, Counted>>
FillIdeas(p) ==
    /\ At(p, "idea", "fill")
    /\ ideas' = [form |-> "whole", listed |-> {}]
    /\ Goto(p, "append")
    /\ UNCHANGED <<doc, docFd, sessionLog, goalFiles, Counted>>
AppendIdea(p) ==
    /\ At(p, "idea", "append")
    /\ ideas' = [ideas EXCEPT !.listed = @ \cup {call[p].id}]
    /\ Return(p)
    /\ UNCHANGED <<doc, docFd, sessionLog, goalFiles, Counted>>

\* decideTradeoff reads and writes the ledger, then the manifest.
ReadDecisions(p) ==
    /\ At(p, "decide", "start") /\ See(p, "ledger", decided)
    /\ UNCHANGED <<doc, docFd, sessionLog, ideas, goalFiles, Counted>>
WriteDecisions(p) ==
    /\ At(p, "decide", "ledger")
    /\ decided' = call[p].seen \cup {call[p].id} /\ Goto(p, "load")
    /\ UNCHANGED <<doc, docFd, sessionLog, ideas, accepted, Counted>>
LoadGoal(p) ==
    /\ At(p, "decide", "load") /\ See(p, "manifest", accepted)
    /\ UNCHANGED <<doc, docFd, sessionLog, ideas, goalFiles, Counted>>
WriteGoal(p) ==
    /\ At(p, "decide", "manifest")
    /\ accepted' = call[p].seen \cup {call[p].id} /\ Return(p)
    /\ UNCHANGED <<doc, docFd, sessionLog, ideas, decided, Counted>>

ProcessDies(p) ==
    /\ call[p] # NoCall /\ deaths < MaxDeaths
    /\ deaths' = deaths + 1 /\ raced' = TRUE /\ CallThrows(p)
    /\ UNCHANGED <<doc, docFd, sessionLog, ideas, goalFiles, calls>>

SessionStep ==
    \E p \in Processes :
       \/ \E kind \in CallKinds : Begin(p, kind)
       \/ CreateDoc(p) \/ FillDoc(p) \/ ReadDoc(p) \/ RenameDoc(p) \/ AppendLog(p)
       \/ CreateIdeas(p) \/ FillIdeas(p) \/ AppendIdea(p)
       \/ ReadDecisions(p) \/ WriteDecisions(p) \/ LoadGoal(p) \/ WriteGoal(p)
       \/ ProcessDies(p)

SessionSpec == SessionInit /\ [][SessionStep]_sessionVars

-----------------------------------------------------------------------------
Ids == 1..MaxCalls
SessionTypeOK ==
    /\ doc \in [form : {"absent", "empty", "bare", "whole"}, tried : SUBSET Ids]
    /\ docFd \in Processes \cup {NoProcess}
    /\ ideas \in [form : {"absent", "empty", "whole"}, listed : SUBSET Ids]
    /\ {sessionLog, decided, accepted} \subseteq SUBSET Ids
    /\ \A p \in Processes : call[p].kind \in CallKinds \cup {"none"} /\ call[p].seen \subseteq Ids
    /\ calls \in 0..MaxCalls /\ deaths \in 0..MaxDeaths

\* What a call recorded stays recorded.  Of the log always; of the document, the
\* ideas and the decisions on tradeoffs unless two calls that read and rewrite the
\* same file overlapped, or one of them a creation, or a process died in a call.  Two
\* processes that start the same session at once are safe.
RecordedStays ==
    /\ done["log"] \subseteq sessionLog
    /\ ~raced => /\ done["tried"] \subseteq doc.tried
                 /\ done["idea"] \subseteq ideas.listed
                 /\ done["decide"] \subseteq decided \cap accepted
                 /\ done["init"] # {} => doc.form \in {"empty", "whole"}

\* A session that was started keeps its objective and its scope.
SessionIsWhole == done["init"] # {} => doc.form \in {"empty", "whole"}
=============================================================================
