----------------------------- MODULE FormalSuite -----------------------------
(* The formal/static suite (goal_formal_suite.cjs): for each case an         *)
(* analyzer is run, what it printed and the report it was told to leave are  *)
(* read into findings, and the findings, the exit and the coverage are       *)
(* judged.  The analyzer is external.  A document carries one finding, the   *)
(* report of a case is one file.                                             *)
EXTENDS Naturals, Sequences, FiniteSets

CONSTANTS MaxCases   \* bound of the cases of a goal

ASSUME FormalAssumption == MaxCases \in Nat \ {0}

VARIABLES
  formal,        \* the goal and its cases
  report,        \* the report file: a document or Absent
  analyses,      \* what the analyzer of each case left: its exit, its output, the report read
  formalPart,    \* the part of runFormalSuiteVerification that is next
  records,       \* verifications: <<case, obligation, status>>, case 0 for the goal
  example,       \* the counterexample kept: <<>> or <<<<case, obligation>>>>
  summary        \* what the CI reports count, and the status

formalVars == <<formal, report, analyses, formalPart, records, example, summary>>

(********************************** documents *******************************)

Absent == [form |-> "absent", level |-> "none", cex |-> FALSE, run |-> 0]
Levels == {"none", "warning", "high"}     \* "none": the finding states no severity
RankOf == [none |-> 0, info |-> 1, warning |-> 2, high |-> 4, error |-> 4, critical |-> 5]
Category == [semgrep |-> "security_analysis", cargo |-> "type_check", cbmc |-> "symbolic_execution",
             tlc |-> "model_check", eslint |-> "lint"]
Analyzers == DOMAIN Category
\* TOOL_ADAPTERS: eslint has no parser of its own.
HasAdapter(tool) == tool # "eslint"

\* The forms a tool writes: its own JSON, SARIF, generic JSON, JUnit, `file:line:` lines
\* or prose; JSON that is cut off is read as prose.
Writes == [semgrep |-> {"own", "sarif"}, cargo |-> {"own", "sarif"}, cbmc |-> {"own", "prose"},
           tlc |-> {"prose"}, eslint |-> {"generic", "junit", "lines"}]
Documents(tool, case) ==
  {[form |-> "empty", level |-> "none", cex |-> FALSE, run |-> case]}
    \cup {d \in [form : Writes[tool], level : Levels, cex : BOOLEAN, run : {case}] :
            d.cex => d.form # "sarif" /\ d.level = "none"}

(******************************** normalisation *****************************)

Finding(d, severity, kind, named) ==
  [key |-> <<d.form, named>>, severity |-> severity,
   cex |-> kind = "counterexample" \/ d.cex, file |-> d.form # "prose", function |-> named]
Stated(d, otherwise) == IF d.level = "none" THEN otherwise ELSE d.level

\* parseToolJsonObject: what the tool's own parser makes of JSON.  The cargo parser takes
\* any object for a compiler message, and finds no severity or place in another.
ToolJson(d, tool) ==
  CASE tool = "semgrep" /\ d.form = "own" -> {Finding(d, Stated(d, "warning"), "", TRUE)}
    [] tool = "cargo" /\ d.form = "own" -> {Finding(d, Stated(d, "info"), "", TRUE)}
    [] tool = "cargo" /\ d.form # "own" -> {[Finding(d, "info", "", FALSE) EXCEPT !.cex = FALSE, !.file = FALSE]}
    [] tool = "cbmc" /\ d.form = "own" -> {Finding(d, "high", "counterexample", TRUE)}
    [] OTHER -> {}
\* parseJsonObject
GenericJson(d) ==
  {Finding(d, Stated(d, IF d.form = "sarif" THEN "warning" ELSE "info"), "", d.form # "sarif")}
\* parsePlainText, and for prose the parsers of the tools' own words: text that neither
\* claims a counterexample nor an error is nothing.
PlainText(d) ==
  CASE d.form = "lines" ->
         {Finding(d, Stated(d, IF d.cex THEN "high" ELSE "warning"),
                  IF d.cex THEN "counterexample" ELSE "", FALSE)}
    [] d.form = "prose" /\ d.cex -> {Finding(d, "high", "counterexample", FALSE)}
    [] d.form = "prose" /\ ~d.cex /\ d.level = "high" -> {Finding(d, "error", "", FALSE)}
    [] OTHER -> {}

FindingsIn(d, tool) ==
  CASE d.form \in {"absent", "empty"} -> {}
    [] d.form \in {"own", "sarif", "generic"} ->
         IF ToolJson(d, tool) # {} THEN ToolJson(d, tool) ELSE GenericJson(d)
    [] d.form = "junit" -> {Finding(d, "high", "", FALSE)}
    [] OTHER -> PlainText(d)

\* normalizeReports: of two findings with one key the first stays, whatever its severity.
FindingsOf(a, tool) ==
  LET ofOutput == FindingsIn(a.output, tool)
  IN ofOutput \cup {f \in FindingsIn(a.report, tool) : \A g \in ofOutput : g.key # f.key}

(******************************* the goal's cases ***************************)

FormalCases ==
  [tool : Analyzers, command : BOOLEAN, advisory : BOOLEAN, threshold : {"", "warning"},
   reports : BOOLEAN, covers : BOOLEAN]

\* A second case runs the first one's analyzer again, advisory where that one binds and
\* the other way round; the report file of both is the same.
Again(c) == [c EXCEPT !.advisory = ~@]
CaseLists ==
  {<<c>> : c \in FormalCases} \cup
  {<<c, Again(c)>> : c \in {k \in FormalCases : /\ MaxCases > 1 /\ k.command /\ k.reports
                                                /\ ~k.covers /\ k.threshold = ""}}

\* A goal may require the file, or the function, that the findings are in; --case may
\* name the one case, or none there is.
FormalInit ==
  /\ formal \in [cases : CaseLists, threshold : {"", "high"}, requires : {"", "file", "function"},
                 only : 0 .. 2]
  /\ Len(formal.cases) > 1 => formal.only = 0 /\ formal.requires = "" /\ formal.threshold = "high"
  /\ report \in {Absent, [form |-> "sarif", level |-> "high", cex |-> FALSE, run |-> 0]}
  /\ analyses = <<>> /\ formalPart = "select" /\ records = {} /\ example = <<>>
  /\ summary = [fails |-> 0, status |-> "none"]

Case == formal.cases[Len(analyses)]
Selected(i) == formal.only \in {0, i}
Adds(new) ==
  /\ records' = records \cup new
  /\ example' = IF example = <<>> /\ \E r \in new : r[3] = "fail"
                THEN <<CHOOSE r \in new : r[3] = "fail">> ELSE example

(********************************* judgements *******************************)

Record(obligation, status) == <<Len(analyses), obligation, status>>
PassOrGap(obligation, ok) == Record(obligation, IF ok THEN "pass" ELSE "gap")
\* What does not hold is a gap if the case is advisory, and else a failure.
BindingVerdict(obligation, ok) ==
  Record(obligation, IF ok THEN "pass" ELSE IF Case.advisory THEN "gap" ELSE "fail")

\* severityThreshold.  Mutant: the category's default before the case's own.
CategoryFirst(c) ==
  IF Category[c.tool] = "security_analysis" THEN "high"
  ELSE IF c.threshold # "" THEN c.threshold ELSE formal.threshold
Threshold(c) ==
  IF c.threshold # "" THEN c.threshold
  ELSE IF Category[c.tool] = "security_analysis" THEN "high"
  ELSE formal.threshold

Blocking(c, findings) ==
  {f \in findings : Threshold(c) # "" /\ RankOf[f.severity] >= RankOf[Threshold(c)]}

Counterexamples(c, findings) ==
  {f \in findings : f.cex \/ ( /\ Category[c.tool] \in {"model_check", "symbolic_execution"}
                               /\ RankOf[f.severity] >= RankOf["high"])}

\* coverageMap: what the case claims and what a finding names is covered.
FileMissing(c, findings) ==
  formal.requires = "file" /\ ~c.covers /\ \A f \in findings : ~f.file
FunctionMissing(c, findings) ==
  formal.requires = "function" /\ ~c.covers /\ \A f \in findings : ~f.function
CoverageRecords(c, findings) ==
  {IF FileMissing(c, findings) \/ FunctionMissing(c, findings)
   THEN Record("formal_coverage_map", "fail")
   ELSE PassOrGap("formal_coverage_map", c.covers \/ \E f \in findings : f.file),
   IF FunctionMissing(c, findings) THEN Record("function_module_coverage", "fail")
   ELSE PassOrGap("function_module_coverage", c.covers \/ \E f \in findings : f.file \/ f.function)}

Succeeded(a) == a.exit = "expected"
JudgedFindings(c, a) ==
  LET findings == FindingsOf(a, c.tool)
      quiet == Blocking(c, findings) = {}
  IN CoverageRecords(c, findings) \cup
     {PassOrGap("tool_specific_parser", HasAdapter(c.tool)),
      PassOrGap("artifact_hashes", c.covers),
      Record("counterexample_extraction", "pass"),
      BindingVerdict("severity_gate", quiet),
      BindingVerdict(Category[c.tool], Succeeded(a) /\ quiet),
      BindingVerdict("analyzer_success", Succeeded(a))}

(********************************** the run *********************************)

SelectCases ==
  /\ formalPart = "select"
  /\ IF \A i \in DOMAIN formal.cases : ~Selected(i)
     THEN /\ formalPart' = "done" /\ summary' = [fails |-> 0, status |-> "fail"]
          /\ Adds({<<0, "case_selection", "fail">>})
     ELSE /\ formalPart' = "case" /\ UNCHANGED summary
          /\ Adds({<<0, "tool_coverage", "gap">>})
  /\ UNCHANGED <<formal, report, analyses>>

Upcoming == Len(analyses) + 1

\* A case that is not selected, or has no command, is not analyzed.  Of the obligations
\* those that pass whatever happens are left out, here and in JudgedFindings.
PassCase ==
  /\ formalPart = "case" /\ Upcoming \in DOMAIN formal.cases
  /\ ~(Selected(Upcoming) /\ formal.cases[Upcoming].command)
  /\ analyses' = Append(analyses, [exit |-> "none", output |-> Absent, report |-> Absent])
  /\ IF Selected(Upcoming)
     THEN Adds({<<Upcoming, o, "gap">> :
                  o \in {"analyzer_success", "severity_gate", "formal_coverage_map"}})
     ELSE UNCHANGED <<records, example>>
  /\ UNCHANGED <<formal, report, formalPart, summary>>

\* The command ends, and may have left the report it was told to leave;
\* collectReportFiles takes the file that is there, if there is one.
RunAnalyzer ==
  /\ formalPart = "case" /\ Upcoming \in DOMAIN formal.cases
  /\ Selected(Upcoming) /\ formal.cases[Upcoming].command
  /\ LET c == formal.cases[Upcoming]
     IN \E exit \in {"expected", "other"}, output \in Documents(c.tool, Upcoming),
           left \in (IF c.reports THEN Documents(c.tool, Upcoming) ELSE {}) \cup {report} :
          /\ output.form = "empty" \/ left \in {report} \/ left.form = output.form
          /\ report' = left
          /\ analyses' = Append(analyses, [exit |-> exit, output |-> output,
                                           report |-> IF c.reports THEN left ELSE Absent])
  /\ formalPart' = "judge" /\ UNCHANGED <<formal, records, example, summary>>

JudgeAnalysis ==
  /\ formalPart = "judge" /\ formalPart' = "case"
  /\ Adds(JudgedFindings(Case, analyses[Len(analyses)]))
  /\ UNCHANGED <<formal, report, analyses, summary>>

\* writeFormalCiReports counts the records; the status follows the counterexample.
PublishReports ==
  /\ formalPart = "case" /\ Len(analyses) = Len(formal.cases) /\ formalPart' = "done"
  /\ summary' = [fails |-> Cardinality({r \in records : r[3] = "fail"}),
                 status |-> IF example = <<>> THEN "pass" ELSE "fail"]
  /\ UNCHANGED <<formal, report, analyses, records, example>>

FormalStep == SelectCases \/ PassCase \/ RunAnalyzer \/ JudgeAnalysis \/ PublishReports
FormalSpec == FormalInit /\ [][FormalStep]_formalVars

(******************************** properties ********************************)

Analyzed(i) == i \in DOMAIN analyses /\ analyses[i].exit # "none"
\* What the analyzer of a case wrote for itself, in a form its parser knows.
OwnWords(i) ==
  {d \in {analyses[i].output, analyses[i].report} : d.form = "own" \/ d.form = "lines"}
\* The policy that holds for a case, read off the goal: the case's own before the one for
\* security tools, and that before the goal's.
Policy(c) ==
  {p \in {"warning", "high"} :
     \/ c.threshold = p
     \/ c.threshold = "" /\ Category[c.tool] = "security_analysis" /\ p = "high"
     \/ c.threshold = "" /\ Category[c.tool] # "security_analysis" /\ formal.threshold = p}

\* The verdict, the CI summary and the policy tell one story: the counted failures and the
\* status agree; a binding case whose analyzer failed, or said in its own words what the
\* policy forbids, fails the run; and advisory cases fail it for nothing but coverage
\* (severityThreshold, verifyOneCase, writeFormalCiReports).  A report that repeats the
\* output is left out: of the two severities the first counts.
VerdictFollowsPolicy ==
  (formalPart = "done" /\ \E i \in DOMAIN analyses : Selected(i)) =>
    /\ summary.fails > 0 <=> summary.status = "fail"
    /\ \A i \in DOMAIN analyses :
         LET c == formal.cases[i]
         IN Analyzed(i) /\ ~c.advisory =>
              /\ analyses[i].exit = "other" => summary.status = "fail"
              /\ \A d \in OwnWords(i), p \in Policy(c) :
                   Cardinality(OwnWords(i)) = 1 /\ d.level # "none" /\ RankOf[d.level] >= RankOf[p]
                     => summary.status = "fail"
    /\ formal.requires = "" /\ (\A i \in DOMAIN analyses : Analyzed(i) => formal.cases[i].advisory)
         => summary.status = "pass"

\* Not so in the code: uncovered declared files, functions and modules remain a gap
\* (docs/VERIFY_MODE.md); they fail the run, of an advisory case too.
UncoveredIsGap ==
  \A r \in records : r[2] \in {"formal_coverage_map", "function_module_coverage"} => r[3] # "fail"
\* Not so in the code: a counterexample of a model checker or a symbolic executor fails
\* the run (docs/VERIFY_MODE.md); without a severity policy only the exit code does.
CounterexampleFails ==
  formalPart = "done" =>
    \A i \in DOMAIN analyses :
      Analyzed(i) /\ ~formal.cases[i].advisory
        /\ Counterexamples(formal.cases[i], FindingsOf(analyses[i], formal.cases[i].tool)) # {}
        => summary.status = "fail"
\* Not so in the code: what is judged is of this run; a report that an earlier run or
\* another case left is read like the case's own.
ReportsAreOfThisRun ==
  \A i \in DOMAIN analyses : analyses[i].report.form # "absent" => analyses[i].report.run = i
=============================================================================
