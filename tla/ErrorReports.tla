----------------------------- MODULE ErrorReports -----------------------------
(* The self-reporting of errors: consent in .xoanon/config.json and the      *)
(* process handlers (auto_reporter_install.cjs), the reporter that collects  *)
(* and batches (error_reporter.cjs), and the submission that searches the    *)
(* tracker before it files an issue (report_deduplicator.cjs).  Each host is *)
(* a process of its own; the tracker is external and shared.                 *)
EXTENDS Naturals, Sequences, FiniteSets

CONSTANTS Hosts, Codes, MaxCaptures, MaxPerHour, Hour, MaxClock

ASSUME ReportAssumption == {MaxCaptures, MaxPerHour, Hour} \subseteq Nat \ {0} /\ MaxClock \in Nat

VARIABLES
  config,        \* config.json: the analytics section, and whether other settings are there
  reporter,      \* per host: installed by consent, reports of this hour, and since when
  pending,       \* per host and code: errors captured since the last flush
  batch,         \* per host: flushed reports that are to be submitted
  sent,          \* per host: when the limiter let a report pass, all of them
  submission,    \* per host: the report under way and what the search found
  issues,        \* the tracker
  captured,      \* errors captured so far, a bound
  now            \* the clock

reportVars == <<config, reporter, pending, batch, sent, submission, issues, captured, now>>

Off == [on |-> FALSE, count |-> 0, since |-> 0]
Unsearched == 99
Idle == [code |-> "none", count |-> 0, found |-> Unsearched]

ReportInit ==
  /\ config \in [analytics : {"none", "on"}, others : BOOLEAN, broken : BOOLEAN]
  /\ config.broken => config.analytics = "none"
  /\ reporter = [h \in Hosts |-> Off]
  /\ pending = [h \in Hosts |-> [c \in Codes |-> 0]]
  /\ batch = [h \in Hosts |-> <<>>] /\ sent = [h \in Hosts |-> <<>>]
  /\ submission = [h \in Hosts |-> Idle]
  /\ issues = <<>> /\ captured = 0 /\ now = 0

(********************************* consent **********************************)

\* A file that does not parse is replaced, and what else it held with it.
SaveConsent ==
  /\ \A h \in Hosts : ~reporter[h].on
  /\ \E consent \in {"on", "off"} :
       /\ config.analytics # consent
       /\ config' = [analytics |-> consent, others |-> config.others /\ ~config.broken,
                     broken |-> FALSE]
  /\ UNCHANGED <<reporter, pending, batch, sent, submission, issues, captured, now>>

\* loadConsentConfig, isConsentGiven and install: without consent the reporter does nothing.
ConsentGiven == ~config.broken /\ config.analytics = "on"
InstallReporter(h) ==
  /\ ~reporter[h].on /\ ConsentGiven
  /\ reporter' = [reporter EXCEPT ![h] = [on |-> TRUE, count |-> 0, since |-> now]]
  /\ UNCHANGED <<config, pending, batch, sent, submission, issues, captured, now>>

(******************************** collecting ********************************)

\* report(): its hour starts anew with the first report after it ended.
Capture(h, c) ==
  /\ reporter[h].on /\ captured < MaxCaptures /\ captured' = captured + 1
  /\ LET anew == now - reporter[h].since > Hour
         count == IF anew THEN 0 ELSE reporter[h].count
         since == IF anew THEN now ELSE reporter[h].since
     IN IF count >= MaxPerHour
        THEN /\ reporter' = [reporter EXCEPT ![h].count = count, ![h].since = since]
             /\ UNCHANGED pending
        ELSE /\ reporter' = [reporter EXCEPT ![h].count = count + 1, ![h].since = since]
             /\ pending' = [pending EXCEPT ![h][c] = @ + 1]
  /\ UNCHANGED <<config, batch, sent, submission, issues, now>>

\* An uncaught error is reported and thrown again: the process ends, and what was
\* not flushed with it.  An unhandled rejection is a Capture.
UncaughtError(h) ==
  /\ reporter[h].on /\ reporter' = [reporter EXCEPT ![h] = Off]
  /\ pending' = [pending EXCEPT ![h] = [c \in Codes |-> 0]]
  /\ batch' = [batch EXCEPT ![h] = <<>>] /\ sent' = [sent EXCEPT ![h] = <<>>]
  /\ submission' = [submission EXCEPT ![h] = Idle]
  /\ UNCHANGED <<config, issues, captured, now>>

\* flush and batchReports: one report per code, with its count.
Flush(h) ==
  /\ batch[h] = <<>> /\ \E c \in Codes : pending[h][c] > 0
  /\ \E order \in [1 .. Cardinality({c \in Codes : pending[h][c] > 0}) ->
                   {c \in Codes : pending[h][c] > 0}] :
       /\ \A i, j \in DOMAIN order : order[i] = order[j] => i = j
       /\ batch' = [batch EXCEPT ![h] =
                      [i \in DOMAIN order |-> [code |-> order[i], count |-> pending[h][order[i]]]]]
  /\ pending' = [pending EXCEPT ![h] = [c \in Codes |-> 0]]
  /\ UNCHANGED <<config, reporter, sent, submission, issues, captured, now>>

(******************************* submitting *********************************)

\* createRateLimiter keeps the times of the hour that ends now.
\* Mutant: the limiter counts by the clock's hours, as the reporter does by its own.
InClockHour(h) == Cardinality({i \in DOMAIN sent[h] : sent[h][i] \div Hour = now \div Hour})
InLastHour(h) == Cardinality({i \in DOMAIN sent[h] : now - sent[h][i] < Hour})

\* shouldReport throws over the limit, and the report is the host's to drop.
Admit(h) ==
  /\ submission[h] = Idle /\ batch[h] # <<>> /\ batch' = [batch EXCEPT ![h] = Tail(@)]
  /\ IF InLastHour(h) >= MaxPerHour
     THEN UNCHANGED <<sent, submission>>
     ELSE /\ sent' = [sent EXCEPT ![h] = Append(@, now)]
          /\ submission' = [submission EXCEPT ![h] =
                              [code |-> Head(batch[h]).code, count |-> Head(batch[h]).count,
                               found |-> Unsearched]]
  /\ UNCHANGED <<config, reporter, pending, issues, captured, now>>

OpenFor(c) == {i \in DOMAIN issues : issues[i].code = c /\ issues[i].open}

\* ghApi: a call that fails throws, and the report is lost.
CallFails(h) ==
  /\ submission[h] # Idle /\ submission' = [submission EXCEPT ![h] = Idle]
  /\ UNCHANGED <<config, reporter, pending, batch, sent, issues, captured, now>>

\* searchExistingIssue: the first open issue with the code in its title, or none.
SearchExistingIssue(h) ==
  /\ submission[h] # Idle /\ submission[h].found = Unsearched
  /\ submission' = [submission EXCEPT ![h].found =
       IF OpenFor(submission[h].code) = {} THEN 0
       ELSE CHOOSE i \in OpenFor(submission[h].code) :
              \A j \in OpenFor(submission[h].code) : i <= j]
  /\ UNCHANGED <<config, reporter, pending, batch, sent, issues, captured, now>>

\* The second half of createOrUpdateIssue.  It reads `occurrences`, which no batched
\* report has: its `count` is dropped and every comment says one.
CreateOrUpdateIssue(h) ==
  /\ submission[h] # Idle /\ submission[h].found # Unsearched
  /\ submission' = [submission EXCEPT ![h] = Idle]
  /\ issues' = IF submission[h].found = 0
               THEN Append(issues, [code |-> submission[h].code, open |-> TRUE, comments |-> 0])
               ELSE [issues EXCEPT ![submission[h].found].comments = @ + 1]
  /\ UNCHANGED <<config, reporter, pending, batch, sent, captured, now>>

\* The maintainers close an issue.
CloseIssue(i) ==
  /\ issues[i].open /\ issues' = [issues EXCEPT ![i].open = FALSE]
  /\ UNCHANGED <<config, reporter, pending, batch, sent, submission, captured, now>>

ClockTicks ==
  /\ now < MaxClock /\ now' = now + 1
  /\ UNCHANGED <<config, reporter, pending, batch, sent, submission, issues, captured>>

ReportStep ==
  \/ SaveConsent \/ ClockTicks
  \/ \E h \in Hosts : \/ InstallReporter(h) \/ UncaughtError(h) \/ Flush(h) \/ Admit(h)
                      \/ CallFails(h) \/ SearchExistingIssue(h) \/ CreateOrUpdateIssue(h)
                      \/ \E c \in Codes : Capture(h, c)
  \/ \E i \in DOMAIN issues : CloseIssue(i)

ReportSpec == ReportInit /\ [][ReportStep]_reportVars

(******************************** properties ********************************)

\* Whatever hour one looks at, a host submits at most the limit in it (createRateLimiter:
\* a rolling window, over bursts that straddle the hours of the clock).
RollingLimit ==
  \A h \in Hosts, t \in 0 .. MaxClock :
    Cardinality({i \in DOMAIN sent[h] : sent[h][i] \in t .. t + Hour - 1}) <= MaxPerHour

\* Not so in the code: a code has one open issue.  Two hosts search before either
\* files, and both find none.
OneOpenIssue == \A c \in Codes : Cardinality(OpenFor(c)) <= 1
=============================================================================
