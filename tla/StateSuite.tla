----------------------------- MODULE StateSuite -----------------------------
(* One case of the state suite (goal_state_suite.cjs, verifyOneCase): the    *)
(* commands a case may have, in the code's order, over a database of one row *)
(* per table; what each snapshot shows of it; the checks; and the `finally`  *)
(* that resets the fixtures and stops what was started.  A command of the    *)
(* case writes at most one row and may fail after writing.                   *)
EXTENDS Naturals, FiniteSets, Sequences

CONSTANTS Tables, Tenants, Mine    \* Mine: the tenant the case is allowed to write for

ASSUME StateAssumption == IsFiniteSet(Tables) /\ IsFiniteSet(Tenants) /\ Mine \in Tenants

VARIABLES
  spec,      \* what the case declares
  at,        \* the step that comes next
  db, seed,  \* the database, and what the reset command makes of it
  snaps,     \* the snapshots taken, by phase
  marks,     \* what the database really was when the checks looked at it
  calls,     \* phases whose command was run, in order
  clean,     \* no obligation failed: no counterexample
  passed     \* obligations that passed, of those that compare the database

stateVars == <<spec, at, db, seed, snaps, marks, calls, clean, passed>>
dbVars == <<db, seed, snaps, marks>>
verdictVars == <<clean, passed>>

Rows == [tenant : Tenants, value : {0, 1}]
Nothing == [t \in {} |-> t]      \* a snapshot that was not taken, or failed

StateCases ==
  {s \in [allowed : SUBSET Tables, unchanged : BOOLEAN,
          masked : BOOLEAN, migrates : BOOLEAN, down : BOOLEAN, risky : BOOLEAN,
          rollback : {"none", "any", "unchanged"}, starts : BOOLEAN, resets : BOOLEAN] :
     s.down => s.migrates}

StateInit ==
  /\ spec \in StateCases
  /\ \E x \in Tenants : seed = [t \in Tables |-> [tenant |-> x, value |-> 0]]
  /\ db = seed
  /\ at = "orchestration"
  /\ snaps = [p \in {"before", "after"} |-> Nothing]
  /\ marks = [p \in {"before", "after", "rolled"} |-> Nothing]
  /\ calls = <<>> /\ clean = TRUE /\ passed = {}

(********************************* commands *********************************)

WritesOneRow == \E t \in Tables, r \in Rows : db' = [db EXCEPT ![t] = r]
Run(phase) == calls' = Append(calls, phase)
Ran(phase) == \E i \in 1 .. Len(calls) : calls[i] = phase
Goto(next) == at' = next
Fails == clean' = FALSE /\ UNCHANGED passed
Holds(ok) == IF ok THEN UNCHANGED verdictVars ELSE Fails
Verdict(obligation, ok) == IF ok THEN passed' = passed \cup {obligation} /\ UNCHANGED clean
                                 ELSE Fails
ExitCode == UNCHANGED verdictVars \/ Fails

\* runOrchestration: a start that fails is a failure, and the case goes on.
Orchestrate ==
  /\ at = "orchestration" /\ Goto("fixtures")
  /\ IF spec.starts
       THEN Run("start") /\ ExitCode
       ELSE UNCHANGED <<calls, verdictVars>>
  /\ UNCHANGED <<spec, dbVars>>

\* runFixtureStrategy: reset before, then seed; either may fail.
Fixtures ==
  /\ at = "fixtures" /\ Goto("setup")
  /\ IF spec.resets
       THEN /\ Run("reset")
            /\ \/ db' = seed /\ UNCHANGED verdictVars
               \/ WritesOneRow /\ Fails
       ELSE UNCHANGED <<calls, verdictVars, db>>
  /\ UNCHANGED <<spec, seed, snaps, marks>>

Setup ==
  /\ at = "setup" /\ Goto("before")
  /\ UNCHANGED db \/ WritesOneRow
  /\ ExitCode
  /\ UNCHANGED <<spec, seed, snaps, marks, calls>>

\* canonicalizeSnapshot: masked columns show one value for all.
View(d) == IF spec.masked THEN [t \in Tables |-> [d[t] EXCEPT !.value = 0]] ELSE d
\* runAdapterSnapshot: a dump of the tables by a command, a file or a client of the database.
AdapterSnapshot(phase) == snaps' = [snaps EXCEPT ![phase] = View(db)]
Takes(phase) ==
  /\ marks' = [marks EXCEPT ![phase] = db]
  /\ \/ AdapterSnapshot(phase) /\ UNCHANGED verdictVars
     \/ UNCHANGED snaps /\ Fails
     \/ UNCHANGED <<snaps, verdictVars>>      \* none declared, or it printed nothing
  /\ UNCHANGED <<db, seed>>

SnapshotBefore ==
  /\ at = "before" /\ Takes("before")
  /\ Goto(IF spec.migrates THEN "migrate" ELSE "safety")
  /\ UNCHANGED <<spec, calls>>

Migrate ==
  /\ at = "migrate" /\ Run("migration") /\ WritesOneRow /\ ExitCode
  /\ Goto("migrated")
  /\ UNCHANGED <<spec, seed, snaps, marks>>
\* The snapshot after the migration is only shown; without it the case fails.
SnapshotMigrated ==
  /\ at = "migrated"
  /\ UNCHANGED verdictVars \/ Fails
  /\ Goto(IF spec.down /\ snaps["before"] # Nothing THEN "down" ELSE "safety")
  /\ UNCHANGED <<spec, dbVars, calls>>
MigrateDown ==
  /\ at = "down" /\ Run("down") /\ ExitCode
  /\ db' = marks["before"] \/ WritesOneRow
  /\ Goto("undone")
  /\ UNCHANGED <<spec, seed, snaps, marks>>
\* The snapshot is taken and compared in one step: nothing runs in between.
JudgeDown ==
  /\ at = "undone" /\ Goto("safety")
  /\ \/ View(db) = snaps["before"] /\ UNCHANGED verdictVars
     \/ Fails          \* another snapshot, or none
  /\ UNCHANGED <<spec, dbVars, calls>>

\* verifyActionSafety looks at the words of all commands of the case, and only
\* the command that has not run yet is held back.
ActionSafety ==
  /\ at = "safety"
  /\ Holds(~spec.risky)
  /\ Goto(IF spec.risky THEN "after" ELSE "command")
  /\ UNCHANGED <<spec, dbVars, calls>>

Command ==
  /\ at = "command" /\ Run("command") /\ WritesOneRow /\ ExitCode
  /\ Goto("after")
  /\ UNCHANGED <<spec, seed, snaps, marks>>
SnapshotAfter ==
  /\ at = "after" /\ Takes("after") /\ Goto("writes")
  /\ UNCHANGED <<spec, calls>>

(********************************** checks **********************************)

Compared == snaps["before"] # Nothing /\ snaps["after"] # Nothing
Changed(a, b) == {t \in Tables : a[t] # b[t]}

\* Mutant: a case without a list may write anywhere.
WritesOkListed == spec.allowed = {} \/ Changed(snaps["before"], snaps["after"]) \subseteq spec.allowed
\* verifyWriteAllowlist: without a list any change is unexpected.
WritesOk == LET writes == Changed(snaps["before"], snaps["after"]) IN
            IF spec.unchanged THEN writes = {} ELSE writes \subseteq spec.allowed
VerifyWrites ==
  /\ at = "writes" /\ Goto("tenants")
  /\ IF Compared THEN Verdict("unexpected_writes", WritesOk) ELSE UNCHANGED verdictVars
  /\ UNCHANGED <<spec, dbVars, calls>>

\* verifyTenantIsolation: a changed row belongs to the tenant it has afterwards.
TenantsOk == \A t \in Changed(snaps["before"], snaps["after"]) : snaps["after"][t].tenant = Mine
VerifyTenants ==
  /\ at = "tenants" /\ Goto("log")
  /\ IF Compared THEN Verdict("tenant_isolation", TenantsOk) ELSE UNCHANGED verdictVars
  /\ UNCHANGED <<spec, dbVars, calls>>

\* verifyQueryLog: the log is the program's, and may tell of any tables.
QueryLogOk(logged) ==
  /\ spec.allowed # {} => logged \subseteq spec.allowed
  /\ Compared => Changed(snaps["before"], snaps["after"]) \subseteq logged
VerifyQueryLog ==
  /\ at = "log" /\ Goto(IF spec.rollback # "none" /\ snaps["before"] # Nothing THEN "rollback" ELSE "budgets")
  /\ \E logged \in SUBSET Tables : Holds(QueryLogOk(logged))
  /\ UNCHANGED <<spec, dbVars, calls>>

Rollback ==
  /\ at = "rollback" /\ Run("rollback")
  /\ db' = marks["before"] \/ WritesOneRow
  /\ \/ UNCHANGED verdictVars /\ Goto("rolled")
     \/ Fails /\ Goto("budgets")
  /\ UNCHANGED <<spec, seed, snaps, marks>>
\* Asked to, the case compares; a rollback snapshot that was not taken differs.
Restored == View(db) = snaps["before"]
JudgeRollback ==
  /\ at = "rolled" /\ Goto("budgets")
  /\ marks' = [marks EXCEPT !["rolled"] = db]
  /\ IF spec.rollback = "unchanged"
       THEN Verdict("transaction_rollback", Restored) \/ Fails
       ELSE Verdict("transaction_rollback", TRUE)      \* whatever the rollback left
  /\ UNCHANGED <<spec, db, seed, snaps, calls>>

\* verifyBudgets, and the teardown hook.
Budgets ==
  /\ at = "budgets" /\ Goto("reset")
  /\ ExitCode
  /\ UNCHANGED <<spec, dbVars, calls>>

\* Writing an artifact throws: the rest of the case is skipped.
Throws ==
  /\ at \in {"before", "migrated", "undone", "after", "writes", "tenants", "log", "rolled"}
  /\ Goto("reset")
  /\ UNCHANGED <<spec, dbVars, calls, verdictVars>>

\* `finally`: the exit codes of both commands are ignored.
ResetFixtures ==
  /\ at = "reset" /\ Goto("stop")
  /\ IF spec.resets THEN Run("resetAfter") /\ (db' = seed \/ WritesOneRow)
                    ELSE UNCHANGED <<calls, db>>
  /\ UNCHANGED <<spec, seed, snaps, marks, verdictVars>>
StopOrchestration ==
  /\ at = "stop" /\ Goto("done")
  /\ IF spec.starts THEN Run("stop") ELSE UNCHANGED calls
  /\ UNCHANGED <<spec, dbVars, verdictVars>>

StateStep ==
  \/ Orchestrate \/ Fixtures \/ Setup \/ SnapshotBefore
  \/ Migrate \/ SnapshotMigrated \/ MigrateDown \/ JudgeDown
  \/ ActionSafety \/ Command \/ SnapshotAfter
  \/ VerifyWrites \/ VerifyTenants \/ VerifyQueryLog
  \/ Rollback \/ JudgeRollback \/ Budgets
  \/ Throws \/ ResetFixtures \/ StopOrchestration
StateSpec == StateInit /\ [][StateStep]_stateVars

(******************************** properties ********************************)

Real(phase) == marks[phase]

\* What a case lets pass is true of the database itself: nothing outside the allowed
\* tables differs from what was before migration and command, and a passed rollback
\* brought everything back.  Masks are excepted: they hide a write from every check.
PassIsContained ==
  ~spec.masked =>
    /\ "unexpected_writes" \in passed => Changed(Real("before"), Real("after")) \subseteq spec.allowed
    /\ "transaction_rollback" \in passed /\ spec.rollback = "unchanged" => Real("rolled") = Real("before")

\* Whatever fails or throws, the fixtures are reset and then what was started is
\* stopped, once each and after every other command (`finally` of verifyOneCase).
EnvironmentIsReleased ==
  at = "done" =>
    calls = SelectSeq(calls, LAMBDA c : c \notin {"resetAfter", "stop"})
              \o (IF spec.resets THEN <<"resetAfter">> ELSE <<>>)
              \o (IF spec.starts THEN <<"stop">> ELSE <<>>)

\* Not so in the code: a case whose commands look destructive runs none of them.  Its
\* migration has run before anybody looks.
BlockedNeverRuns == spec.risky => ~Ran("migration") /\ ~Ran("command")

\* Not so in the code: a passed tenant check means that no other tenant's row was
\* touched.  A row taken over from another tenant is judged by its new tenant.
ForeignRowsStay ==
  "tenant_isolation" \in passed /\ ~spec.masked =>
    \A t \in Tables : Real("before")[t].tenant # Mine => Real("after")[t] = Real("before")[t]
=============================================================================
