---------------------------- MODULE ApplyProposal ----------------------------
(* One call of bin/xoloop-apply-proposal.cjs: the proposal passes the gates  *)
(* of its mode (xo_simplify_engine.cjs, xo_docs_engine.cjs), is written by   *)
(* change_set_engine.cjs, benchmarked, validated and, in simplify mode,      *)
(* measured again; a failure afterwards rolls it back.  The skill that made  *)
(* the proposal learns of all this from the report and the exit code only.   *)
EXTENDS Naturals, Sequences, FiniteSets, SequencesExt

CONSTANTS MaxChanges, MaxSlips   \* bounds: operations of a proposal, faults of a call

ASSUME ProposalAssumption == MaxChanges \in Nat \ {0} /\ MaxSlips \in Nat

VARIABLES
  given,         \* the proposal and the flags of the call
  tree,          \* the files
  atStart,       \* the files as the call found them
  bridgeStep,    \* the next part of main, or "done"
  sizeBefore,    \* simplifyBaseline.total
  passed,        \* the validation's verdict, "none" before or without one
  replaced,      \* files renamed into place: the applied entries of the snapshot
  unput,         \* files whose restore failed
  slips,         \* faults so far
  told           \* the report and the exit code

proposalVars == <<given, tree, atStart, bridgeStep, sizeBefore, passed, replaced, unput, slips, told>>

(* A file is a sequence of lines, by what the gates and metrics see of them: *)
(* a definition of an exported symbol, its entry in the export list, a       *)
(* branch of logic, a comment.  A symbol may have two definitions, one for   *)
(* each platform or overload.                                                *)
Def == "def"
List == "list"
Branch == "branch"
Note == "note"
Lib == "lib"
Doc == "README"
Test == "tests/lib"
Places == {Lib, Doc, Test}
Beginning == [p \in Places |-> IF p = Lib THEN <<Def, List, Def, Branch>> ELSE <<Note>>]

Changes ==
  [kind : {"replace_once"}, path : {Lib},
   match : {<<Def, List>>, <<Def, Branch>>, <<Branch>>, <<Def>>},
   put : {<<>>, <<List>>, <<Branch>>, <<Note>>}]
    \cup [kind : {"insert_once"}, path : {Lib}, match : {<<List>>, <<Def>>}, put : {<<Branch>>, <<Note>>}]
    \cup [kind : {"replace_once"}, path : {Doc, Test}, match : {<<Note>>}, put : {<<>>, <<Note, Note>>}]
    \cup [kind : {"create_file"}, path : {Doc}, match : {<<>>}, put : {<<Note>>}]
    \cup [kind : {"replace_once"}, path : {"elsewhere"}, match : {<<Note>>}, put : {<<>>}]

Nothing == [sloc |-> 0, cyclomatic |-> 0, exports |-> 0]
Untold == [exit |-> 4, applied |-> FALSE, rolledBack |-> FALSE]   \* no report yet

ProposalInit ==
  /\ given \in [changes : UNION {[1 .. n -> Changes] : n \in 1 .. MaxChanges},
                simplify : BOOLEAN, docs : BOOLEAN, validates : BOOLEAN, timeoutOk : BOOLEAN]
  /\ tree = Beginning /\ atStart = tree /\ bridgeStep = "read" /\ sizeBefore = Nothing
  /\ passed = "none" /\ replaced = {} /\ unput = {} /\ slips = 0 /\ told = Untold

(******************************* operations *********************************)

\* A match in text, one line further at a time.
Matches(text, match) ==
  {i \in 1 .. Len(text) - Len(match) + 1 : SubSeq(text, i, i + Len(match) - 1) = match}
\* applyReplaceOnce; applyInsertAfterOnce keeps its anchor.
AppliesOnce(c, text) == Cardinality(Matches(text, c.match)) = 1
Changed(c, text) ==
  LET i == CHOOSE i \in Matches(text, c.match) : \A j \in Matches(text, c.match) : i <= j
      old == IF c.kind = "insert_once" THEN c.match ELSE <<>>
  IN SubSeq(text, 1, i - 1) \o old \o c.put \o SubSeq(text, i + Len(c.match), Len(text))

\* The in-memory pass of applyChangeSet: every operation on what the last one left.
Staged(acc, c) ==
  IF acc.threw \/ c.path \notin Places \/ ~AppliesOnce(c, acc.files[c.path])
  THEN [acc EXCEPT !.threw = TRUE]
  ELSE [acc EXCEPT !.files[c.path] = Changed(c, acc.files[c.path])]
Edited(start) ==
  LET after[n \in 0 .. Len(given.changes)] ==
        IF n = 0 THEN [files |-> start, threw |-> FALSE]
        ELSE Staged(after[n - 1], given.changes[n])
  IN after[Len(given.changes)]
Touched == {given.changes[i].path : i \in DOMAIN given.changes}

(******************************** the gates *********************************)

\* scanExports and hasDefinition.
ExportsOf(text) == {x \in {List} : x \in ToSet(text)}
HasDefinition(text) == Def \in ToSet(text)

\* validateSimplifyProposal: tests are not touched, and no replacement takes an
\* exported symbol or the last definition of one from the file as it is on disk.
TakesExport(c) ==
  LET after == IF Matches(tree[Lib], c.match) = {} THEN tree[Lib] ELSE Changed(c, tree[Lib])
  IN /\ c.kind = "replace_once" /\ c.path = Lib
     /\ \/ ExportsOf(tree[Lib]) \ ExportsOf(after) # {}
        \/ ExportsOf(after) # {} /\ ~HasDefinition(after) /\ HasDefinition(tree[Lib])
SimplifyGate == \A i \in DOMAIN given.changes :
  given.changes[i].path # Test /\ ~TakesExport(given.changes[i])

\* isDocblockEdit: what is left of both sides without the comments is the same.
Logic(text) == SelectSeq(text, LAMBDA x : x # Note)
DocblockEdit(c) == Logic(c.match) = Logic(c.put)
\* validateDocsProposal: document files are free, in others a replacement is a
\* docblock edit; an insertion is not looked at.
DocsGate == \A i \in DOMAIN given.changes :
  LET c == given.changes[i]
  IN c.path # Doc /\ c.kind = "replace_once" => DocblockEdit(c)

\* measureComplexity, summed over the touched files.
MeasuredOver(there, contents) ==
  LET Size(p) == Len(Logic(contents[p]))
      Branches(p) == 1 + Len(SelectSeq(contents[p], LAMBDA x : x = Branch))
      Add(f(_)) == FoldLeft(LAMBDA n, p : n + f(p), 0, SetToSeq(there))
  IN [sloc |-> Add(Size), cyclomatic |-> Add(Branches),
      exports |-> Add(LAMBDA p : Cardinality(ExportsOf(contents[p])))]
Measured(contents) == MeasuredOver(Touched \cap Places, contents)
\* aggregateMetric and verifyMetricImprovement.
Improved(earlier, after) ==
  /\ \E d \in DOMAIN earlier : after[d] < earlier[d]
  /\ \A d \in DOMAIN earlier : after[d] <= earlier[d]

(********************************** main ************************************)

Report(exit, applied, rolledBack) ==
  told' = [exit |-> exit, applied |-> applied, rolledBack |-> rolledBack] /\ bridgeStep' = "done"
Proceed(step) == bridgeStep' = step /\ UNCHANGED told

\* The proposal does not parse, or normalizeChangeSet knows the kind of an operation not.
Normal == \A i \in DOMAIN given.changes : given.changes[i].kind # "create_file"
ReadProposal ==
  /\ bridgeStep = "read"
  /\ \/ Report(1, FALSE, FALSE)
     \/ Normal /\ Proceed("gates")
  /\ UNCHANGED <<given, tree, atStart, sizeBefore, passed, replaced, unput, slips>>

PassGates ==
  /\ bridgeStep = "gates"
  /\ IF (given.simplify => SimplifyGate) /\ (given.docs => DocsGate)
     THEN Proceed("apply") ELSE Report(1, FALSE, FALSE)
  /\ sizeBefore' = IF given.simplify THEN Measured(tree) ELSE Nothing
  /\ UNCHANGED <<given, tree, atStart, passed, replaced, unput, slips>>

\* The in-memory pass throws before anything is written.
RefuseChanges ==
  /\ bridgeStep = "apply" /\ Edited(tree).threw /\ Report(1, FALSE, FALSE)
  /\ UNCHANGED <<given, tree, atStart, sizeBefore, passed, replaced, unput, slips>>

\* writeTempThenRename, the touched files in the order of their first operation.
Unwritten == Touched \ replaced
NextFile ==
  given.changes[CHOOSE i \in DOMAIN given.changes :
    /\ given.changes[i].path \in Unwritten
    /\ \A j \in DOMAIN given.changes : given.changes[j].path \in Unwritten => i <= j].path
WriteFile ==
  /\ bridgeStep \in {"apply", "write"} /\ Unwritten # {} /\ (bridgeStep = "apply" => ~Edited(tree).threw)
  /\ tree' = [tree EXCEPT ![NextFile] = Edited(atStart).files[NextFile]]
  /\ replaced' = replaced \cup {NextFile}
  /\ Proceed("write")
  /\ UNCHANGED <<given, atStart, sizeBefore, passed, unput, slips>>

\* rollbackFromSnapshot: the applied entries get the content they were read with; one
\* that cannot be restored does not keep the others from it.
PutBack(failed) ==
  /\ tree' = [p \in Places |-> IF p \in replaced \ failed THEN atStart[p] ELSE tree[p]]
  /\ unput' = failed /\ slips' = slips + Cardinality(failed)
Failing == {f \in SUBSET replaced : slips + Cardinality(f) <= MaxSlips}

\* A write of applyChangeSet fails: it restores what it wrote and throws.
WriteFails ==
  /\ bridgeStep \in {"apply", "write"} /\ Unwritten # {} /\ (bridgeStep = "apply" => ~Edited(tree).threw)
  /\ \E f \in Failing : PutBack(f)
  /\ Report(1, FALSE, FALSE)
  /\ UNCHANGED <<given, atStart, sizeBefore, passed, replaced>>

\* --benchmark and --validate: a timeout that is no number makes spawnSync throw, and
\* main().catch reports a fatal error.  The command may itself write to the tree, and
\* a timeout of it counts as a failure.  The benchmark's exit code decides nothing.
Fatal == Report(3, FALSE, FALSE)
Validate ==
  /\ bridgeStep = "write" /\ Unwritten = {}
  /\ IF ~given.validates THEN Proceed("measure") /\ UNCHANGED <<tree, passed, slips>>
     ELSE IF ~given.timeoutOk THEN Fatal /\ UNCHANGED <<tree, passed, slips>>
     ELSE /\ passed' \in {"yes", "no"}
          /\ Proceed(IF passed' = "yes" THEN "measure" ELSE "undo")
          /\ \/ UNCHANGED <<tree, slips>>
             \/ /\ slips < MaxSlips /\ slips' = slips + 1
                /\ tree' = [tree EXCEPT ![Lib] = Append(@, Branch)]
  /\ UNCHANGED <<given, atStart, sizeBefore, replaced, unput>>

\* The metric gate of simplify mode, on the files as they are now.
\* Mutant: it measures what the proposal made of the files it found.
PlannedMeasured == Measured(Edited(atStart).files)
NowMeasured == Measured(tree)
Measure ==
  /\ bridgeStep = "measure"
  /\ IF given.simplify /\ ~Improved(sizeBefore, NowMeasured)
     THEN Proceed("undo") ELSE Report(0, TRUE, FALSE)
  /\ UNCHANGED <<given, tree, atStart, sizeBefore, passed, replaced, unput, slips>>

\* rollbackAppliedChangeSet returns nothing, so the report's rollbackErrors is null.
UndoChanges ==
  /\ bridgeStep = "undo"
  /\ \E f \in Failing : PutBack(f)
  /\ Report(2, TRUE, TRUE)
  /\ UNCHANGED <<given, atStart, sizeBefore, passed, replaced>>

ProposalStep ==
  \/ ReadProposal \/ PassGates \/ RefuseChanges \/ WriteFile \/ WriteFails
  \/ Validate \/ Measure \/ UndoChanges

ProposalSpec == ProposalInit /\ [][ProposalStep]_proposalVars

(******************************** properties ********************************)

\* The skill keeps or drops an iteration by the exit code: 0 means the whole proposal
\* is on disk, its validation passed and, in simplify mode, the tree as it is now is
\* simpler than the one the call found; 1 and 2 mean the tree is as it was, where
\* every restore succeeded.
ExitTellsTheDisk ==
  /\ told.exit = 0 =>
       /\ replaced = Touched /\ passed # "no"
       /\ slips = 0 => tree = Edited(atStart).files
       /\ given.simplify => Improved(Measured(atStart), Measured(tree))
  /\ told.exit \in {1, 2} /\ unput = {} => \A p \in replaced : tree[p] = atStart[p]

\* Not so: simplify removes no exported symbol.  Two operations that each leave the
\* other definition are judged one by one against the disk.
PublicApiIsKept ==
  told.exit = 0 /\ given.simplify => HasDefinition(tree[Lib]) /\ ExportsOf(tree[Lib]) # {}
\* Not so: a docs proposal changes no logic of a source file.  Insertions are not looked at.
DocsKeepLogic ==
  told.exit = 0 /\ given.docs /\ slips = 0 => Logic(tree[Lib]) = Logic(atStart[Lib])
\* Not so: what is reported as not applied is not there.  A fatal error after the write
\* reports neither the write nor a rollback.
UnappliedIsNotThere == told.exit \in 1 .. 3 /\ ~told.applied /\ unput = {} => tree = atStart
\* Not so: rolled back means restored.  The errors of the restore are dropped.
RolledBackIsRestored == told.rolledBack => \A p \in replaced : tree[p] = atStart[p]
=============================================================================
