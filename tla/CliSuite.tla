------------------------------ MODULE CliSuite ------------------------------
(* One case of the CLI suite (goal_cli_suite.cjs, verifyOneCase) or of the   *)
(* general-io suite (goal_general_io.cjs): the executions of the command,    *)
(* each in a workspace of its own or all in the repository, what is judged   *)
(* of them, and the clean-up.  The command is external: it prints what it    *)
(* reads of the files it finds and writes some of them, or is cut off.       *)
EXTENDS Naturals, Sequences, FiniteSets

CONSTANTS MaxRuns   \* bound of what a case declares as repeat

ASSUME CliAssumption == MaxRuns \in Nat \ {0}

VARIABLES
  cli,           \* what the case and its goal declare
  tested,        \* the command under test
  repo,          \* the files of the repository
  executions,    \* the executions so far
  spaces,        \* workspaces on disk, by execution
  cliPart,       \* the part of verifyOneCase that is next
  cliVerdicts,   \* obligations with their pass, fail or gap
  corpus         \* a corpus file was written

cliVars == <<cli, tested, repo, executions, spaces, cliPart, cliVerdicts, corpus>>

Files == {"src", "log", "out"}
Artifacts == {"src"}          \* what a workspace gets of the repository
Tools == {"pure", "logs", "random", "escapes"}

CliCases ==
  {c \in [suite : {"cli-suite", "general-io"}, isolated : BOOLEAN, repeat : 1 .. MaxRuns,
          oracle : {"exact", "none", "no_crash"}, deterministic : BOOLEAN,
          reference : {"none"} \cup Tools, forbids : BOOLEAN, keeps : BOOLEAN] :
     /\ c.suite = "general-io" =>
          ~c.isolated /\ c.repeat = 1 /\ c.keeps /\ ~c.forbids /\ c.oracle # "no_crash"
     /\ c.oracle = "no_crash" => c.repeat = 1}

CliInit ==
  /\ cli \in CliCases /\ tested \in Tools
  /\ repo \in {[src |-> 1, log |-> n, out |-> 0] : n \in {0, 1}}
  /\ executions = <<>> /\ spaces = {} /\ cliPart = "first"
  /\ cliVerdicts = {} /\ corpus = FALSE

(********************************* the command ******************************)

\* What a command may do with the files it finds; 0 is no file.
Outcomes(command, files) ==
  CASE command = "pure" -> {[says |-> 1, after |-> [files EXCEPT !.out = 1]]}
    [] command = "random" -> {[says |-> n, after |-> [files EXCEPT !.out = 1]] : n \in {1, 2}}
    [] command = "escapes" -> {[says |-> 1, after |-> [files EXCEPT !.src = 2]]}
    [] command = "logs" -> {[says |-> 1 + files.log,
                             after |-> [files EXCEPT !.log = IF @ = 0 THEN 1 ELSE @]]}

(******************************** one execution *****************************)

\* prepareWorkspace and copyPath: a fresh copy of the artifacts, or the repository.
\* Mutant: the workspace of the case is prepared once.
WorkspaceOnce ==
  IF cli.isolated /\ executions # <<>> THEN executions[Len(executions)].after
  ELSE IF cli.isolated THEN [f \in Files |-> IF f \in Artifacts THEN repo[f] ELSE 0]
  ELSE repo
Workspace ==
  IF cli.isolated THEN [f \in Files |-> IF f \in Artifacts THEN repo[f] ELSE 0] ELSE repo

\* executeCase: a snapshot, the command, a snapshot.  A command that is cut off
\* (its time or its output limit) has an exit code all the same.
Execute(command) ==
  \E o \in Outcomes(command, Workspace) \cup {[says |-> 0, after |-> Workspace]} :
    /\ executions' = Append(executions,
         [command |-> command, start |-> Workspace, exit |-> IF o.says = 0 THEN 124 ELSE 0,
          says |-> o.says, after |-> o.after])
    /\ spaces' = IF cli.isolated THEN spaces \cup {Len(executions) + 1} ELSE spaces
    /\ repo' = IF cli.isolated THEN repo ELSE o.after

\* snapshotTree and diffSnapshots
FilesChanged(e) == {f \in Files : e.start[f] # e.after[f]}

(********************************* judgements *******************************)

FirstRun == executions[1]
Judgement(obligation, ok) == <<obligation, IF ok THEN "pass" ELSE "fail">>
Failed(v) == v[2] = "fail"

\* checkOutputContracts: an oracle that is null is a gap.  The cases generated for
\* no_crash delete theirs, and what is undefined is not null: it is compared.
OutputContracts(e) ==
  {CASE cli.oracle = "exact" -> Judgement("stdout_contract", e.says = 1)
     [] cli.oracle = "none" -> <<"stdout_contract", "gap">>
     [] cli.oracle = "no_crash" -> Judgement("stdout_contract", FALSE)}

\* checkExpectedFiles and isAllowedWrite: the case allows its output file.
FilesystemEffects(e) ==
  {Judgement("filesystem_effects", cli.forbids => FilesChanged(e) \subseteq {"out"})}

\* Of all repeated executions the first is judged.
JudgedOfFirst(e) ==
  IF cli.suite = "cli-suite"
  THEN {Judgement("exit_code", e.exit = 0)} \cup OutputContracts(e) \cup FilesystemEffects(e)
  ELSE {Judgement("exit_code", e.exit = 0)}
         \cup (IF cli.oracle = "exact" THEN {Judgement("stdout_exact", e.says = 1)} ELSE {})

\* The CLI suite compares what the two did to the files too.
SameBehaviour(a, b) ==
  /\ a.exit = b.exit /\ a.says = b.says
  /\ cli.suite = "cli-suite" => FilesChanged(a) = FilesChanged(b)

(******************************** verifyOneCase *****************************)

RunCase ==
  /\ cliPart = "first" /\ Len(executions) < cli.repeat /\ Execute(tested)
  /\ UNCHANGED <<cli, tested, cliPart, cliVerdicts, corpus>>

JudgeFirst ==
  /\ cliPart = "first" /\ Len(executions) = cli.repeat /\ cliPart' = "again"
  /\ cliVerdicts' = JudgedOfFirst(FirstRun)
  /\ UNCHANGED <<cli, tested, repo, executions, spaces, corpus>>

Compare(here, obligation, wanted, command, then) ==
  /\ cliPart = here /\ cliPart' = then
  /\ IF wanted
     THEN /\ Execute(command)
          /\ cliVerdicts' = cliVerdicts \cup
               {Judgement(obligation, SameBehaviour(executions'[Len(executions')], FirstRun))}
     ELSE UNCHANGED <<repo, executions, spaces, cliVerdicts>>
  /\ UNCHANGED <<cli, tested, corpus>>

RunAgain == Compare("again", "deterministic", cli.deterministic, tested, "reference")
RunReference ==
  Compare("reference", "differential_reference", cli.reference # "none", cli.reference, "cleanup")

\* The `finally`: the workspaces of the executions that are known, unless kept.
CleanUp ==
  /\ cliPart = "cleanup" /\ cliPart' = "done"
  /\ spaces' = IF cli.keeps THEN spaces ELSE spaces \ DOMAIN executions
  /\ corpus' = (cli.oracle = "no_crash" /\ \E v \in cliVerdicts : Failed(v))
  /\ UNCHANGED <<cli, tested, repo, executions, cliVerdicts>>

\* Copying or reading the workspace throws (executeCase): the workspace is not yet in
\* the list the `finally` walks, and the suite ends with the error.
ExecutionThrows ==
  /\ cliPart \in {"first", "again", "reference"} /\ cliPart' = "threw"
  /\ cliPart = "first" => Len(executions) < cli.repeat
  /\ cliPart = "again" => cli.deterministic
  /\ cliPart = "reference" => cli.reference # "none"
  /\ spaces' = (IF cli.keeps THEN spaces ELSE {})
                 \cup (IF cli.isolated THEN {Len(executions) + 1} ELSE {})
  /\ UNCHANGED <<cli, tested, repo, executions, cliVerdicts, corpus>>

CliStep == RunCase \/ JudgeFirst \/ RunAgain \/ RunReference \/ CleanUp \/ ExecutionThrows
CliSpec == CliInit /\ [][CliStep]_cliVars

(******************************** properties ********************************)

\* A case that runs in workspaces of its own fails for being nondeterministic, or for
\* differing from its reference, only where the command or a cut-off is to blame: both
\* executions found the same files, whatever the earlier ones left (prepareWorkspace).
DifferenceIsTheCommands ==
  cli.isolated =>
    LET toBlame == tested = "random" \/ \E i \in DOMAIN executions : executions[i].exit # 0
    IN /\ <<"deterministic", "fail">> \in cliVerdicts => toBlame
       /\ <<"differential_reference", "fail">> \in cliVerdicts => toBlame \/ cli.reference # tested

\* Not so in the code without a workspace: a command that reads what it wrote differs
\* from itself.
RerunsFindTheSameFiles ==
  \A i, j \in DOMAIN executions : executions[i].start = executions[j].start
\* Not so in the code: a case without an output oracle is a gap, never a failure
\* (docs/VERIFY_MODE.md: missing stdout/stderr oracles remain explicit gaps).
MissingOracleIsGap ==
  <<"stdout_contract", "fail">> \in cliVerdicts => cli.oracle = "exact"
\* Not so in the code: no workspace is left behind, unless the case keeps it.
NoWorkspaceLeaks == cliPart \in {"done", "threw"} /\ ~cli.keeps => spaces = {}
\* Not so in the code: a case passes its filesystem effects only if every execution did.
EveryExecutionIsJudged ==
  cli.suite = "cli-suite" /\ cli.forbids /\ cliPart = "done" /\ <<"filesystem_effects", "pass">> \in cliVerdicts =>
    \A i \in 1 .. cli.repeat : FilesChanged(executions[i]) \subseteq {"out"}
=============================================================================
