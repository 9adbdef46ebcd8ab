---------------------------- MODULE OperationSets ----------------------------
(* A proposal's operations (operation_ir.cjs): preflightOperationSet judges  *)
(* them in a dry run, applyOperationSet judges them again, stages them in    *)
(* memory and renames the files into place, and a failed write or a caller   *)
(* whose validation failed (rollbackOperationSet) restores the snapshot.     *)
(* The two judgements are two pieces of code over the same disk.             *)
EXTENDS Naturals, Sequences, FiniteSets

CONSTANTS MaxText, MaxOps, MaxOutside   \* bounds: tokens in a file, operations, outside writes

ASSUME OperationAssumption == MaxText \in Nat /\ MaxOps \in Nat /\ MaxOutside \in Nat

VARIABLES
  operations,    \* what the proposal asks for
  irDisk,        \* the files
  original,      \* the disk when the preflight ran
  irVetted,      \* the preflight found no failure
  vettedTexts,   \* the contents it vetted, where the caller passes them on
  irStage,       \* vet, plan, write, back, or how the call ended
  toPlace,       \* the writes in order: in-place files first, then new files
  written,       \* how many of them were renamed into place
  outside,       \* writes of other processes
  restoreFailed  \* a restore failed

irVars == <<operations, irDisk, original, irVetted, vettedTexts, irStage, toPlace, written,
            outside, restoreFailed>>

(* A text is a sequence of tokens, of which one ends a line. *)
Nl == 1
Tokens == {0, Nl}
Texts == UNION {[1 .. n -> Tokens] : n \in 0 .. MaxText}
Absent == <<2>>               \* no file
NotUtf8 == <<3>>              \* UTF-16, a NUL or malformed UTF-8 (readTextOrReject)
IrPaths == {"src", "new"}
Unchecked == [p \in IrPaths |-> NotUtf8]   \* a caller without a manifest
OutOfScope == "elsewhere"

Needles == {<<0>>, <<0, 0>>}
Operations ==
  [op : {"replace_exact"}, path : {"src"}, needle : Needles, text : {<<>>, <<0>>}]
    \cup [op : {"insert_after", "insert_before"}, path : IrPaths, needle : Needles, text : {<<0>>}]
    \cup [op : {"create_file"}, path : IrPaths \cup {OutOfScope}, needle : {<<>>}, text : {<<0>>}]
    \cup [op : {"replace_exact"}, path : {"src"}, needle : {<<>>}, text : {<<>>}]

IrInit ==
  /\ operations \in UNION {[1 .. n -> Operations] : n \in 1 .. MaxOps}
  /\ irDisk \in {[src |-> t, new |-> Absent] : t \in Texts \cup {Absent, NotUtf8}}
  /\ original = irDisk /\ irVetted = FALSE /\ vettedTexts = irDisk
  /\ irStage = "vet" /\ toPlace = <<>> /\ written = 0 /\ outside = 0 /\ restoreFailed = FALSE

(***************************** one operation ********************************)

\* normalizeOperation and normalizePath
WellFormed(o) == o.op = "create_file" \/ o.needle # <<>>
Allowed(o) == o.path # OutOfScope
Readable(text) == text \notin {Absent, NotUtf8}

\* findAllOccurrences goes on behind a match, countOccurrencesStride1 one token
\* further: the first says where, the second whether it is the only place.
StartsIn(text, needle) ==
  {i \in 1 .. Len(text) - Len(needle) + 1 : SubSeq(text, i, i + Len(needle) - 1) = needle}
FirstStart(text, needle) ==
  CHOOSE i \in StartsIn(text, needle) : \A j \in StartsIn(text, needle) : i <= j
ApartFrom(text, needle) ==
  {i \in StartsIn(text, needle) : i >= FirstStart(text, needle) + Len(needle)}
ExactlyOnce(text, needle) == Cardinality(StartsIn(text, needle)) = 1
\* The preflight has its own copy of ensureExactlyOnce.
\* Mutant: it counts the matches that do not overlap.
OnceApart(text, needle) == StartsIn(text, needle) # {} /\ ApartFrom(text, needle) = {}
OnceInDryRun(text, needle) == Cardinality(StartsIn(text, needle)) = 1

\* applyOneOperation: an insertion goes behind, or before, the line of the anchor.
AfterLine(text, i) ==
  LET ends == {k \in i .. Len(text) : text[k] = Nl}
  IN IF ends = {} THEN Len(text) ELSE CHOOSE k \in ends : \A l \in ends : k <= l
BeforeLine(text, i) ==
  LET ends == {k \in 1 .. i - 1 : text[k] = Nl}
  IN IF ends = {} THEN 0 ELSE CHOOSE k \in ends : \A l \in ends : l <= k
Spliced(text, keep, from, insert) ==
  SubSeq(text, 1, keep) \o insert \o SubSeq(text, from, Len(text))
AppliedTo(o, text) ==
  LET i == FirstStart(text, o.needle)
      cut == IF o.op = "insert_after" THEN AfterLine(text, i) ELSE BeforeLine(text, i)
  IN IF o.op = "replace_exact" THEN Spliced(text, i - 1, i + Len(o.needle), o.text)
     ELSE Spliced(text, cut, cut + 1, o.text)

(******************************* the preflight ******************************)

\* The dry run keeps its own cache and goes on behind a failure.
Try(acc, o, on) ==
  LET text == acc.cache[o.path]
      taken == o.path \in acc.creates \/ on[o.path] # Absent
  IN IF ~Allowed(o) THEN [acc EXCEPT !.failed = TRUE]
     ELSE IF o.op = "create_file"
     THEN IF taken THEN [acc EXCEPT !.failed = TRUE]
          ELSE [acc EXCEPT !.creates = @ \cup {o.path}]
     ELSE IF Readable(text) /\ OnceInDryRun(text, o.needle)
     THEN [acc EXCEPT !.cache[o.path] = AppliedTo(o, text)]
     ELSE [acc EXCEPT !.failed = TRUE]
Simulated(ops, on) ==
  LET after[n \in 0 .. Len(ops)] ==
        IF n = 0 THEN [cache |-> on, creates |-> {}, failed |-> FALSE]
        ELSE Try(after[n - 1], ops[n], on)
  IN after[Len(ops)]

Vet ==
  /\ irStage = "vet" /\ irStage' = "plan"
  /\ irVetted' = ((\A i \in DOMAIN operations : WellFormed(operations[i]))
                 /\ ~Simulated(operations, irDisk).failed)
  /\ original' = irDisk /\ vettedTexts' \in {irDisk, Unchecked}
  /\ UNCHANGED <<operations, irDisk, toPlace, written, outside, restoreFailed>>

(******************************* the planning *******************************)

\* ensureExactlyOnce throws, so the first failing operation ends the planning.
Stage(acc, o, on) ==
  LET known == {k \in 1 .. Len(acc.inPlace) : acc.inPlace[k].path = o.path}
      text == IF known = {} THEN on[o.path]
              ELSE acc.inPlace[CHOOSE k \in known : TRUE].after
      entry == [path |-> o.path, before |-> on[o.path], after |-> AppliedTo(o, text)]
  IN IF acc.threw \/ ~Allowed(o) THEN [acc EXCEPT !.threw = TRUE]
     ELSE IF o.op = "create_file"
     THEN IF on[o.path] # Absent \/ \E k \in 1 .. Len(acc.creates) : acc.creates[k].path = o.path
          THEN [acc EXCEPT !.threw = TRUE]
          ELSE [acc EXCEPT !.creates =
                  Append(@, [path |-> o.path, before |-> Absent, after |-> o.text])]
     ELSE IF ~Readable(text) \/ ~ExactlyOnce(text, o.needle)
     THEN [acc EXCEPT !.threw = TRUE]
     ELSE IF known = {} THEN [acc EXCEPT !.inPlace = Append(@, entry)]
     ELSE [acc EXCEPT !.inPlace[CHOOSE k \in known : TRUE].after = AppliedTo(o, text)]
Planned(ops, on) ==
  LET after[n \in 0 .. Len(ops)] ==
        IF n = 0 THEN [inPlace |-> <<>>, creates |-> <<>>, threw |-> FALSE]
        ELSE Stage(after[n - 1], ops[n], on)
  IN after[Len(ops)]

Refuses ==
  \/ \E i \in DOMAIN operations : ~WellFormed(operations[i])
  \/ Planned(operations, irDisk).threw

\* The callers apply what the preflight let pass; the apply does not rely on it.
PlanOperations ==
  /\ irStage = "plan"
  /\ IF Refuses
     THEN irStage' = "refused" /\ UNCHANGED toPlace
     ELSE LET plan == Planned(operations, irDisk)
          IN irStage' = "write" /\ toPlace' = plan.inPlace \o plan.creates
  /\ UNCHANGED <<operations, irDisk, original, irVetted, vettedTexts, written, outside, restoreFailed>>

(******************************** the commit ********************************)

Target == toPlace[written + 1]
\* What is compared just before the rename: bytes against the manifest, or that a
\* path to create is still free.
StillAsPlanned ==
  IF Target.before = Absent THEN irDisk[Target.path] = Absent
  ELSE vettedTexts = Unchecked \/ irDisk[Target.path] = vettedTexts[Target.path]

\* writeTempThenRename, and the snapshot entry is marked applied.
RenameTarget ==
  /\ irStage = "write" /\ written < Len(toPlace) /\ StillAsPlanned
  /\ irDisk' = [irDisk EXCEPT ![Target.path] = Target.after] /\ written' = written + 1
  /\ UNCHANGED <<operations, original, irVetted, vettedTexts, irStage, toPlace, outside, restoreFailed>>

\* Drift, a path that was taken, or an I/O error: the applied entries are restored.
WriteThrows ==
  /\ irStage = "write" /\ written < Len(toPlace) /\ irStage' = "back"
  /\ UNCHANGED <<operations, irDisk, original, irVetted, vettedTexts, toPlace, written, outside, restoreFailed>>

AllWritten ==
  /\ irStage = "write" /\ written = Len(toPlace) /\ irStage' = "applied"
  /\ UNCHANGED <<operations, irDisk, original, irVetted, vettedTexts, toPlace, written, outside, restoreFailed>>

\* rollbackOperationSet on the handle: it walks the same snapshot.
CallerRollsBack ==
  /\ irStage = "applied" /\ irStage' = "back"
  /\ UNCHANGED <<operations, irDisk, original, irVetted, vettedTexts, toPlace, written, outside, restoreFailed>>

\* rollbackFromSnapshot, from the last write to the first; an error of one entry is
\* recorded and the walk goes on.
RestoreEntry ==
  /\ irStage = "back" /\ written > 0 /\ written' = written - 1
  /\ \/ irDisk' = [irDisk EXCEPT ![toPlace[written].path] = toPlace[written].before]
        /\ UNCHANGED restoreFailed
     \/ UNCHANGED irDisk /\ restoreFailed' = TRUE
  /\ UNCHANGED <<operations, original, irVetted, vettedTexts, irStage, toPlace, outside>>

Restored ==
  /\ irStage = "back" /\ written = 0 /\ irStage' = "undone"
  /\ UNCHANGED <<operations, irDisk, original, irVetted, vettedTexts, toPlace, written, outside, restoreFailed>>

\* Another process edits, creates or removes a file.
OtherWrites ==
  /\ outside < MaxOutside /\ outside' = outside + 1
  /\ irStage \in {"plan", "write", "back"}
  /\ \E p \in IrPaths, t \in {Absent, <<0>>} : irDisk[p] # t /\ irDisk' = [irDisk EXCEPT ![p] = t]
  /\ UNCHANGED <<operations, original, irVetted, vettedTexts, irStage, toPlace, written, restoreFailed>>

IrStep ==
  \/ Vet \/ PlanOperations \/ RenameTarget \/ WriteThrows \/ AllWritten
  \/ CallerRollsBack \/ RestoreEntry \/ Restored \/ OtherWrites

IrSpec == IrInit /\ [][IrStep]_irVars

(******************************** properties ********************************)

\* What the operations mean: one after the other, each on the file the last one left,
\* with exactly one place to act on in every one of them.
Done(d, o) == [d EXCEPT ![o.path] = IF o.op = "create_file" THEN o.text ELSE AppliedTo(o, d[o.path])]
Meaning(ops, on) ==
  LET after[n \in 0 .. Len(ops)] == IF n = 0 THEN on ELSE Done(after[n - 1], ops[n])
  IN after[Len(ops)]

\* The preflight and the apply agree, and the apply is all or nothing: where nobody
\* else writes, applyOperationSet refuses exactly what preflightOperationSet failed,
\* what it applied is what the operations mean in their order, and a failed or
\* rolled-back one leaves the disk as it was, unless a restore failed.
DryRunIsKept ==
  outside = 0 =>
    /\ irStage \in {"write", "applied"} => irVetted
    /\ irStage = "refused" => ~irVetted /\ irDisk = original
    /\ irStage = "applied" => irDisk = Meaning(operations, original)
    /\ irStage = "undone" /\ ~restoreFailed => irDisk = original
=============================================================================
