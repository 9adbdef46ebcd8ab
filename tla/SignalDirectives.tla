--------------------------- MODULE SignalDirectives ---------------------------
(* The adapters that turn signals into directive files: reports of overnight *)
(* batches (engine_signal_adapter.cjs), the issues of a tracker              *)
(* (github_signal_adapter.cjs), and the issues the error reporter filed      *)
(* (minimax_triage.cjs, which may also run the directives it wrote).  Each   *)
(* names the file after its signal, and two signals may give one name.       *)
EXTENDS Naturals, Sequences, FiniteSets, SequencesExt

CONSTANTS MinSample, MaxErrors, MaxIssues   \* the sample an engine signal needs; bounds of the input

ASSUME SignalAssumption == {MinSample, MaxErrors, MaxIssues} \subseteq Nat

VARIABLES
  signals,       \* the adapter and what it found: reports or issues
  options,       \* minScore, dryRun, and the observation days or the autoFix
  toWrite,       \* the aggregated signals, the first of them next
  outDir,        \* the directive files: name and the signal that wrote it last
  generated,     \* the names the adapter lists as written
  fixed          \* the directives the triage ran, as it found them on disk

signalVars == <<signals, options, toWrite, outDir, generated, fixed>>

ErrorCodes == {"A_B", "A-B", "A-B-2"}
\* The file name of a code: all that is no letter or digit becomes a dash.
SlugOf(e) == IF e = "A-B-2" THEN <<"a-b", 2>> ELSE <<"a-b">>
Severity(e) == IF e = "A_B" THEN 4 ELSE 3
LogOf(n) == CASE n = 0 -> 0 [] n = 1 -> 69 [] n = 2 -> 110 [] OTHER -> 139  \* log1p, hundredths
Lower(a, b) == IF a < b THEN a ELSE b

Surfaces == {"s1", "s2"}
Corrupt == [c \in {} |-> 0]
Reports == {Corrupt} \cup [ErrorCodes -> 0 .. MaxErrors]
Words == {"crash", "slow"}
TrackerIssues == [words : SUBSET Words, bug : BOOLEAN, ups : {0, 1}]
Unparsable == [code |-> "none", versions |-> 0]
Unread == <<[code |-> "unread"]>>
FiledIssues == {Unparsable} \cup [code : ErrorCodes, versions : {0, 1}]

SignalInit ==
  /\ \/ signals \in [adapter : {"engine"}, found : [Surfaces -> Reports]]
     \/ \E n \in 1 .. MaxIssues :
          \/ signals \in [adapter : {"github"}, found : [1 .. n -> TrackerIssues]]
          \/ signals \in [adapter : {"triage"}, found : [1 .. n -> FiledIssues]]
  /\ options \in [minScore : {0, 200}, dryRun : BOOLEAN, further : BOOLEAN]
  /\ toWrite = Unread /\ outDir = [name \in {} |-> Corrupt]
  /\ generated = <<>> /\ fixed = <<>>

(******************************** the engine ********************************)

\* scanBatchReports: what cannot be read is skipped.
ScanBatchReports == {s \in Surfaces : signals.found[s] # Corrupt}

\* aggregateErrors: frequency, surfaces and confidence of each code, by frequency.
FrequencyOf(e) == FoldSet(LAMBDA s, sum : sum + signals.found[s][e], 0, ScanBatchReports)
Affected(e) == {s \in ScanBatchReports : signals.found[s][e] > 0}
AggregateErrors ==
  LET known == {c \in ErrorCodes : FrequencyOf(c) > 0}
      share(c) == Lower(100, (100 * FrequencyOf(c)) \div Cardinality(ScanBatchReports))
  IN {[code |-> c, frequency |-> FrequencyOf(c), affected |-> Cardinality(Affected(c)),
       confidence |-> share(c)] : c \in known}

\* scoreDirective, and the triage's copy of it
ScoreOf(a) == (Severity(a.code) * a.frequency * LogOf(a.affected) * a.confidence) \div 100

\* checkEligibility: enough samples, days of observation and confidence
Eligible(a) == a.frequency > MinSample /\ options.further /\ a.confidence > 70

(******************************** the tracker *******************************)

\* classifyIssue counts keywords; of a group the most frequent type decides, and the
\* type weighs in the score alone.
GroupSeverity(group) ==
  LET bugs == {i \in group : signals.found[i].bug}
  IN IF 2 * Cardinality(bugs) >= Cardinality(group) THEN 3 ELSE 2

\* groupRelatedIssues: the word most issues share takes them, then the next word
\* takes what is left where it still has two; the others stay alone.
GroupRelatedIssues ==
  LET With(w) == {i \in DOMAIN signals.found : w \in signals.found[i].words}
      FirstOf(s) == CHOOSE i \in s : \A j \in s : i <= j
      shared == {w \in Words : Cardinality(With(w)) >= 2}
      Before(v, w) == \/ Cardinality(With(v)) > Cardinality(With(w))
                      \/ /\ Cardinality(With(v)) = Cardinality(With(w))
                         /\ \/ FirstOf(With(v)) < FirstOf(With(w))
                            \/ FirstOf(With(v)) = FirstOf(With(w)) /\ v = "crash"
      Take(acc, w) ==
        LET left == With(w) \ acc.assigned
        IN IF Cardinality(left) < 2 THEN acc
           ELSE [assigned |-> acc.assigned \cup left,
                 groups |-> acc.groups \cup {[code |-> <<{w}>>, issues |-> left]}]
      clusters == FoldLeft(Take, [assigned |-> {}, groups |-> {}], SetToSortSeq(shared, Before))
  IN clusters.groups
       \cup {[code |-> <<signals.found[i].words, i>>, issues |-> {i}] :
               i \in DOMAIN signals.found \ clusters.assigned}

ThumbsUp(group) == Cardinality({i \in group : signals.found[i].ups > 0})
ScoreGroup(g) ==
  (GroupSeverity(g.issues) * LogOf(ThumbsUp(g.issues)) * LogOf(Cardinality(g.issues))) \div 100

(******************************** the triage ********************************)

\* parseIssueReport wants a mapping with `errorCode`; other issues count for nothing.
ParsedIssues == {i \in DOMAIN signals.found : signals.found[i] # Unparsable}
AggregateIssues ==
  LET Of(c) == {i \in ParsedIssues : signals.found[i].code = c}
  IN {[code |-> c, frequency |-> Cardinality(Of(c)),
       affected |-> IF \E i \in Of(c) : signals.found[i].versions > 0 THEN 1 ELSE 0,
       confidence |-> (100 * Cardinality(Of(c))) \div Cardinality(ParsedIssues)] :
      c \in {c \in ErrorCodes : Of(c) # {}}}

(******************************* one adapter run ****************************)

Aggregated ==
  CASE signals.adapter = "engine" -> AggregateErrors
    [] signals.adapter = "github" -> GroupRelatedIssues
    [] signals.adapter = "triage" -> AggregateIssues

\* The sort by frequency keeps the order of first sight among equals; the groups keep
\* the order they were found in.
Collect ==
  /\ toWrite = Unread
  /\ \E order \in SetToSeqs(Aggregated) :
       /\ signals.adapter # "github" =>
            \A i, j \in DOMAIN order : i < j => order[i].frequency >= order[j].frequency
       /\ toWrite' = order
  /\ UNCHANGED <<signals, options, outDir, generated, fixed>>

Kept(a) ==
  CASE signals.adapter = "engine" -> Eligible(a) /\ ScoreOf(a) >= options.minScore
    [] signals.adapter = "triage" -> ScoreOf(a) >= options.minScore
    [] signals.adapter = "github" -> options.minScore = 0 \/ ThumbsUp(a.issues) > 0

\* Mutant: the first name, whether or not this run has used it.
FirstName(slug) == slug
\* generateDirectives counts on until this run has not used the name.
FreeName(slug) ==
  LET Nth(n) == IF n = 1 THEN slug ELSE Append(slug, n)
      free == {n \in 1 .. Len(generated) + 1 : Nth(n) \notin ToSet(generated)}
  IN Nth(CHOOSE n \in free : \A m \in free : n <= m)

\* The names of issue groups: the shared word, or the words of the lone title.
GroupName(g) == IF Cardinality(g.issues) > 1 THEN g.code ELSE <<g.code[1]>>
NameFor(a) ==
  CASE signals.adapter = "engine" -> FreeName(SlugOf(a.code))
    [] signals.adapter = "triage" -> SlugOf(a.code)
    [] signals.adapter = "github" -> GroupName(a)

Writes(name, a) ==
  IF options.dryRun THEN UNCHANGED outDir
  ELSE outDir' = [n \in DOMAIN outDir \cup {name} |-> IF n = name THEN a ELSE outDir[n]]

WriteDirective ==
  /\ toWrite \notin {<<>>, Unread} /\ toWrite' = Tail(toWrite)
  /\ IF Kept(Head(toWrite))
     THEN LET name == NameFor(Head(toWrite))
          IN Writes(name, Head(toWrite)) /\ generated' = Append(generated, name)
     ELSE UNCHANGED <<outDir, generated>>
  /\ UNCHANGED <<signals, options, fixed>>

\* runTriageCycle, autoFix: each listed path in turn; a runner that throws is passed over.
RunFix ==
  /\ signals.adapter = "triage" /\ options.further /\ ~options.dryRun
  /\ toWrite = <<>> /\ Len(fixed) < Len(generated)
  /\ \E proposes \in BOOLEAN :
       fixed' = Append(fixed, [from |-> outDir[generated[Len(fixed) + 1]], proposed |-> proposes])
  /\ UNCHANGED <<signals, options, toWrite, outDir, generated>>

SignalStep == Collect \/ WriteDirective \/ RunFix
SignalSpec == SignalInit /\ [][SignalStep]_signalVars

(******************************** properties ********************************)

\* Every signal of a batch that was good enough has its directive on disk when the
\* engine adapter has run, and no later one has taken its file (generateDirectives,
\* "so we don't silently overwrite the first directive with the second").
EverySignalHasItsFile ==
  signals.adapter = "engine" /\ toWrite = <<>> /\ ~options.dryRun =>
    \A a \in {b \in AggregateErrors : Kept(b)} :
      \E name \in ToSet(generated) : outDir[name] = a

\* Not so in the code: the same of the triage and of the issue groups.  They have no
\* counter, and codes or titles with one slug share one file.
OtherSignalsHaveTheirFiles ==
  toWrite = <<>> /\ ~options.dryRun => Cardinality(DOMAIN outDir) = Len(generated)
\* Not so in the code: the triage runs a directive of each code it lists.
EachIsFixed ==
  Len(fixed) = Len(generated) =>
    \A i, j \in DOMAIN fixed : fixed[i].from = fixed[j].from => i = j
=============================================================================
