------------------------------- MODULE Finalize -------------------------------
(***************************************************************************)
(* bin/xoloop-finalize.cjs: the kept entries of a session are grouped by the*)
(* files they share, and every group gets a branch off the merge base with *)
(* the session's commits that touch its files.                             *)
(*                                                                         *)
(* Entry i of the ledger was committed as commit i.  A cherry-picked commit*)
(* keeps its number: its files and its change are the same.                *)
(***************************************************************************)
EXTENDS Integers, Sequences, SequencesExt, FiniteSets

CONSTANTS Files, NumEntries
ASSUME FinalizeAssumption == NumEntries \in Nat \ {0}
Entries == 1..NumEntries

VARIABLES
    touched,      \* filesTouched of every kept entry
    commitFiles,  \* what git shows of every commit: other files may be in it
    taken,        \* groups whose branch name exists already
    head,         \* the commits between the merge base and HEAD
    root, pair,   \* buildGroups: what find returns; the two entries compared next
    groups, row,  \* the groups; the entry that is put into one next
    listed, todo, \* baseCommits not looked at yet; relevantCommits not picked yet
    made,         \* what became of every group so far: [commits, ok]
    fpc

groupVars == <<root, pair, groups, row>>
finalizeVars == <<touched, commitFiles, taken, head, groupVars, listed, todo, made, fpc>>

FinalizeInit ==
    /\ touched \in [Entries -> SUBSET Files]
    /\ commitFiles \in {touched} \cup
           {[touched EXCEPT ![i] = @ \cup {f}] : i \in Entries, f \in Files}
    /\ \E g \in Entries : taken \in {{}, {g}}
    /\ head = [i \in Entries |-> i]
    /\ root = [i \in Entries |-> i] /\ pair = <<1, 2>> /\ groups = <<>> /\ row = 1
    /\ listed = <<>> /\ todo = <<>> /\ made = <<>> /\ fpc = "union"

-----------------------------------------------------------------------------
Overlap(i, j) == touched[i] \cap touched[j] # {}

\* The two loops of buildGroups over the pairs i < j.
Compare ==
    /\ fpc = "union" /\ pair[2] <= NumEntries
    /\ LET i == pair[1]  j == pair[2] IN
         /\ root' = IF Overlap(i, j)
                    THEN [k \in Entries |-> IF root[k] = root[i] THEN root[j] ELSE root[k]]
                    ELSE root
         /\ pair' = IF j < NumEntries THEN <<i, j + 1>> ELSE <<i + 1, i + 2>>
    /\ UNCHANGED <<touched, commitFiles, taken, head, groups, row, listed, todo, made, fpc>>

Compared ==
    /\ fpc = "union" /\ pair[2] > NumEntries /\ fpc' = "collect"
    /\ UNCHANGED <<touched, commitFiles, taken, head, groupVars, listed, todo, made>>

\* groupsMap keeps the groups in the order of their first entries, which is the order
\* of their rounds.
Collect ==
    /\ fpc = "collect" /\ row <= NumEntries
    /\ LET mine(k) == \E i \in groups[k] : root[i] = root[row] IN
         groups' = IF \E k \in DOMAIN groups : mine(k)
                   THEN [k \in DOMAIN groups |-> IF mine(k) THEN groups[k] \cup {row} ELSE groups[k]]
                   ELSE Append(groups, {row})
    /\ row' = row + 1
    /\ UNCHANGED <<touched, commitFiles, taken, head, root, pair, listed, todo, made, fpc>>

Collected ==
    /\ fpc = "collect" /\ row > NumEntries /\ fpc' = "next"
    /\ UNCHANGED <<touched, commitFiles, taken, head, groupVars, listed, todo, made>>

FilesOf(group) == UNION {touched[i] : i \in group}
Touches(c, group) == commitFiles[c] \cap FilesOf(group) # {}

-----------------------------------------------------------------------------
Current == Len(made) + 1
Made(ok) == made' = Append(made, [commits |-> head, ok |-> ok])

\* A dirty tree without --allow-dirty, or a base that does not resolve: exit 1.
Refuse ==
    /\ fpc = "next" /\ made = <<>> /\ fpc' = "failed"
    /\ UNCHANGED <<touched, commitFiles, taken, head, groupVars, listed, todo, made>>

\* Mutant of ListCommits: the checkout has moved HEAD to the base before.
ListCommitsLate ==
    /\ fpc = "next" /\ Current <= Len(groups)
    /\ listed' = <<>> /\ todo' = <<>> /\ fpc' = "list"
    /\ UNCHANGED <<touched, commitFiles, taken, head, groupVars, made>>

\* createGroupBranch lists baseSha..HEAD, whatever HEAD is ...
ListCommits ==
    /\ fpc = "next" /\ Current <= Len(groups)
    /\ listed' = head /\ todo' = <<>> /\ fpc' = "list"
    /\ UNCHANGED <<touched, commitFiles, taken, head, groupVars, made>>

\* ... keeps the commits in which git shows a file of the group ...
ShowCommit ==
    /\ fpc = "list" /\ listed # <<>>
    /\ todo' = IF Touches(Head(listed), groups[Current]) THEN Append(todo, Head(listed)) ELSE todo
    /\ listed' = Tail(listed)
    /\ UNCHANGED <<touched, commitFiles, taken, head, groupVars, made, fpc>>

\* ... and checks out a new branch at the base.
CreateBranch ==
    /\ fpc = "list" /\ listed = <<>> /\ Current \notin taken
    /\ head' = <<>> /\ fpc' = "pick"
    /\ UNCHANGED <<touched, commitFiles, taken, groupVars, listed, todo, made>>

NameTaken ==
    /\ fpc = "list" /\ listed = <<>> /\ Current \in taken
    /\ fpc' = "failed"
    /\ UNCHANGED <<touched, commitFiles, taken, head, groupVars, listed, todo, made>>

Pick ==
    /\ fpc = "pick" /\ todo # <<>>
    /\ head' = Append(head, Head(todo)) /\ todo' = Tail(todo)
    /\ UNCHANGED <<touched, commitFiles, taken, groupVars, listed, made, fpc>>

\* The pick is aborted and the base checked out; the branch stays as it is.
PickFails ==
    /\ fpc = "pick" /\ todo # <<>>
    /\ Made(FALSE) /\ head' = <<>> /\ fpc' = "failed"
    /\ UNCHANGED <<touched, commitFiles, taken, groupVars, listed, todo>>

BranchDone ==
    /\ fpc = "pick" /\ todo = <<>> /\ Made(TRUE) /\ fpc' = "next"
    /\ UNCHANGED <<touched, commitFiles, taken, head, groupVars, listed, todo>>

Finish ==
    /\ fpc = "next" /\ Current > Len(groups) /\ fpc' = "done"
    /\ UNCHANGED <<touched, commitFiles, taken, head, groupVars, listed, todo, made>>

FinalizeStep ==
    \/ Compare \/ Compared \/ Collect \/ Collected
    \/ Refuse \/ ListCommits \/ ShowCommit \/ CreateBranch \/ NameTaken
    \/ Pick \/ PickFails \/ BranchDone \/ Finish
FinalizeSpec == FinalizeInit /\ [][FinalizeStep]_finalizeVars

-----------------------------------------------------------------------------
FinalizeTypeOK ==
    /\ {touched, commitFiles} \subseteq [Entries -> SUBSET Files]
    /\ taken \subseteq Entries /\ root \in [Entries -> Entries]
    /\ pair[1] \in Entries /\ pair[2] \in pair[1] + 1 .. NumEntries + 1
    /\ groups \in Seq(SUBSET Entries) /\ row \in 1 .. NumEntries + 1
    /\ {head, listed, todo} \subseteq Seq(Entries)
    /\ made \in Seq([commits : Seq(Entries), ok : BOOLEAN])
    /\ fpc \in {"union", "collect", "next", "list", "pick", "failed", "done"}

\* What the session committed for a group.
Session(group) == {c \in Entries : Touches(c, group)}
InOrder(commits) == \A i, j \in DOMAIN commits : i < j => commits[i] < commits[j]
Grouped == fpc \notin {"union", "collect"}

\* Branches can be reviewed and merged on their own: no file belongs to two groups
\* and every entry to one; no branch holds a commit that leaves its group's files
\* alone; and the branch made first has all of its commits, in their order.
BranchesAreIndependent ==
    /\ Grouped => \A i, j \in Entries : Overlap(i, j) =>
           \E k \in DOMAIN groups : {i, j} \subseteq groups[k]
    /\ \A k, m \in DOMAIN groups : Grouped /\ k # m => FilesOf(groups[k]) \cap FilesOf(groups[m]) = {}
    /\ \A k \in DOMAIN made : \A c \in Range(made[k].commits) : Touches(c, groups[k])
    /\ made # <<>> /\ made[1].ok =>
           Range(made[1].commits) = Session(groups[1]) /\ InOrder(made[1].commits)

\* Every branch reported as made has the session's commits of its group: "creates one
\* independent branch per group".
GroupsAreReplayed ==
    \A k \in DOMAIN made : made[k].ok => Session(groups[k]) \subseteq Range(made[k].commits)
=============================================================================
