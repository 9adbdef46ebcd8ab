---------------------------- MODULE DiscoveryGaps ----------------------------
(* Discovery and its gate (goal_discovery.cjs): a scan of the repository     *)
(* finds surfaces and actions that no harness covers, writes them with what  *)
(* was accepted to .xoloop/discovery.json, and the optimise loop reads that  *)
(* ledger before its first round.  Edits, verify runs and decisions of the   *)
(* user happen in between.  What the scanners find is an API route and,      *)
(* perhaps, one action, destructive or not, without sensitive data; a hash   *)
(* is the content that it is taken of.                                       *)
EXTENDS Naturals, Sequences

CONSTANTS MaxRepoEdits, MaxProofs, MaxScans   \* bounds of edits, verify runs and discoveries

ASSUME DiscoveryAssumption == {MaxRepoEdits, MaxProofs, MaxScans} \subseteq Nat

VARIABLES
  repo,          \* what is in the repository: whether the action is there, what is broken
  action,        \* the words the action is found by
  policy,        \* what the safety policy's file says of it
  harness,       \* the kinds of harness whose goal.yaml is there and loads
  proofs,        \* the records of the verify runs
  gapLedger,     \* .xoloop/discovery.json
  discovery,     \* the discovery under way: its scan and its ledger
  gate,          \* what the gate of the optimise loop said, with what accepted
  used          \* edits and discoveries

discoveryVars == <<repo, action, policy, harness, proofs, gapLedger, discovery, gate, used>>

(******************************* safety of an action ************************)

Actions == {{"safe"}, {"mutates"}, {"danger"}, {"danger", "safe", "allowed"}, {"danger", "mocked"},
            {"danger", "mutates", "outside"}}

\* policyDecision: a file that cannot be read or parsed decides nothing (loadSafetyPolicy).
PolicyLevel == [absent |-> "", unparsable |-> "", allows |-> "safe", blocks |-> "block"]

\* classifySafetyText.
WordsLevel(words) ==
  IF \/ "outside" \in words /\ words \cap {"mutates", "danger"} # {}
     \/ {"danger", "mocked"} \subseteq words
  THEN "mock"
  ELSE IF "danger" \in words /\ "allowed" \notin words THEN "block"
  ELSE IF "mutates" \in words /\ "safe" \notin words THEN "review"
  ELSE IF "safe" \in words THEN "safe" ELSE "review"
Level == IF PolicyLevel[policy] # "" THEN PolicyLevel[policy] ELSE WordsLevel(action)

(*********************************** gaps ***********************************)

\* gapsForSurface, safetyGaps: a gap is named for the surface, or for the level, not for
\* the action; none of the rules is of low severity.
GapsIn(content) == {"route"} \cup (IF content.has /\ Level # "safe" THEN {Level} ELSE {})

Kinds == {"api", "state"}
ObligationsOf == [api |-> {"schema", "replay"}, state |-> {"writes"}]
\* coverage_requirements: what each kind of harness must show.
Requires ==
  [route |-> {<<"api", {"schema", "replay"}>>},
   block |-> {<<"api", {"replay"}>>, <<"state", {"writes"}>>},
   mock |-> {<<"api", {"schema", "replay"}>>, <<"state", {"writes"}>>},
   review |-> {<<"api", {"schema"}>>}]

\* What a run of the cases `ran` of a suite sees of a content.
PassedIn(content, ran, obligations) ==
  {o \in obligations : \E c \in ran : <<o, c>> \notin content.broken}
FailedIn(content, ran, obligations) ==
  {o \in obligations : \E c \in ran : <<o, c>> \in content.broken}

\* currentVerificationRecords: those of the harness that have the hash of now.
IsOfKind(p, k) == p.kind = k
IsCurrent(p, k) == p.kind = k /\ p.of = repo
Current(k) == {i \in 1 .. Len(proofs) : IsCurrent(proofs[i], k)}
\* harnessEvidenceFromGoal: what the last of them says.
Evidence(k) ==
  IF k \notin harness \/ Current(k) = {} THEN [passed |-> {}, failed |-> {}]
  ELSE LET p == proofs[CHOOSE i \in Current(k) : \A j \in Current(k) : j <= i]
       IN [passed |-> PassedIn(p.of, p.ran, ObligationsOf[k]),
           failed |-> FailedIn(p.of, p.ran, ObligationsOf[k])]

\* coverageForGap: one harness with one of the requirements is enough.
Covered(gap) ==
  \E requirement \in Requires[gap] :
     LET seen == Evidence(requirement[1])
     IN requirement[2] \subseteq seen.passed \ seen.failed

\* makeGap, coveredGap: blocks_optimization.
Blocks(gap, accepts) == gap \notin accepts /\ ~Covered(gap)

(********************************* discovery ********************************)

NoLedger == [state |-> "none"]
Torn == [state |-> "torn"]
Unasked == [says |-> "unasked", accepted |-> {}]
Acceptable == {{}, {"route"}, {"block", "mock"}}

RepoContents ==
  {[has |-> FALSE, broken |-> {}]}
    \cup [has : {TRUE}, broken : {{}, {<<"replay", 1>>}, {<<"replay", 2>>}, {<<"writes", 1>>}}]

\* The policy's file has something to say of an action that the words alone would block,
\* and of one that they would call safe.
DiscoveryInit ==
  /\ action \in Actions /\ policy \in DOMAIN PolicyLevel
  /\ policy # "absent" => action \in {{"danger"}, {"safe"}}
  /\ repo \in RepoContents
  /\ harness = Kinds /\ proofs = <<>> /\ gapLedger = NoLedger /\ discovery = NoLedger
  /\ gate = Unasked /\ used = [edits |-> 0, scans |-> 0]

\* discoverRepo, first part: the scanners read the repository, with what the caller
\* accepts: `discover` and `make-goal` with --accept-gaps, or the suite's accepted_gaps.
Scan(accepts) ==
  /\ discovery = NoLedger /\ used.scans < MaxScans
  /\ discovery' = [state |-> "scanned", accepts |-> accepts, scanned |-> repo, ledger |-> NoLedger]
  /\ used' = [used EXCEPT !.scans = @ + 1]
  /\ UNCHANGED <<repo, action, policy, harness, proofs, gapLedger, gate>>

\* discoverRepo, then: the evidence of the harnesses is read, and the gaps are judged.
Judge ==
  /\ discovery.state = "scanned"
  /\ LET found == GapsIn(discovery.scanned)
     IN discovery' = [discovery EXCEPT !.state = "judged",
          !.ledger = [state |-> "whole", scanned |-> discovery.scanned, judged |-> repo,
                      runs |-> Len(proofs), accepted |-> discovery.accepts,
                      blocking |-> {g \in found : Blocks(g, discovery.accepts)}]]
  /\ UNCHANGED <<repo, action, policy, harness, proofs, gapLedger, gate, used>>

\* writeDiscoveryReport and `discover --write`: writeFileSync empties the file, then fills it.
OpenLedger ==
  /\ discovery.state = "judged"
  /\ gapLedger' = Torn
  /\ discovery' = [discovery EXCEPT !.state = "writing"]
  /\ UNCHANGED <<repo, action, policy, harness, proofs, gate, used>>
FillLedger ==
  /\ discovery.state = "writing"
  /\ gapLedger' = discovery.ledger
  /\ discovery' = NoLedger
  /\ UNCHANGED <<repo, action, policy, harness, proofs, gate, used>>
\* The process ends in the middle, or prints what it found and writes nothing.
ScannerStops ==
  /\ discovery # NoLedger /\ discovery' = NoLedger
  /\ UNCHANGED <<repo, action, policy, harness, proofs, gapLedger, gate, used>>

(******************************** the others ********************************)

\* An edit by a user, or by the rounds of an optimise loop.
Edit(content) ==
  /\ content # repo /\ used.edits < MaxRepoEdits
  /\ repo' = content /\ used' = [used EXCEPT !.edits = @ + 1]
  /\ UNCHANGED <<action, policy, harness, proofs, gapLedger, discovery, gate>>

\* An edit after which a goal.yaml does not load, or `xoloop-verify create --force`.
SetHarness(k) ==
  /\ used.edits < MaxRepoEdits
  /\ harness' = IF k \in harness THEN harness \ {k} ELSE harness \cup {k}
  /\ used' = [used EXCEPT !.edits = @ + 1]
  /\ UNCHANGED <<repo, action, policy, proofs, gapLedger, discovery, gate>>

\* `xoloop-verify run`, with --case or without.
VerifyHarness(k, ran) ==
  /\ k \in harness /\ Len(proofs) < MaxProofs
  /\ proofs' = Append(proofs, [kind |-> k, of |-> repo, ran |-> ran])
  /\ UNCHANGED <<repo, action, policy, harness, gapLedger, discovery, gate, used>>

\* discoveryOptimizationBlocker, for a goal whose manifest accepts gaps and may ask for a
\* ledger: of one that is missing or does not parse nothing is asked otherwise.
Blockers(ledger, accepted) == ledger.blocking \ (accepted \cup ledger.accepted)
Gate(accepted, asks) ==
  /\ gate' = [says |-> IF gapLedger.state = "whole"
                       THEN IF Blockers(gapLedger, accepted) = {} THEN "go" ELSE "blocked"
                       ELSE IF asks THEN "missing" ELSE "go",
              accepted |-> accepted]
  /\ UNCHANGED <<repo, action, policy, harness, proofs, gapLedger, discovery, used>>

\* The ledger is looked at once, and stays what it was then.
DiscoveryStep ==
  /\ gate = Unasked
  /\ \/ \E accepts \in Acceptable : Scan(accepts)
     \/ Judge \/ OpenLedger \/ FillLedger \/ ScannerStops
     \/ \E content \in RepoContents : Edit(content)
     \/ \E k \in Kinds : SetHarness(k)
     \/ \E k \in Kinds, ran \in {{1}, {1, 2}} : VerifyHarness(k, ran)
     \/ \E accepted \in Acceptable, asks \in BOOLEAN : Gate(accepted, asks)

DiscoverySpec == DiscoveryInit /\ [][DiscoveryStep]_discoveryVars

(******************************** properties ********************************)

\* A gap of a ledger is settled: accepted by the user there or in the goal, or the last run
\* of some harness on the very content judged saw all that the gap requires of it.
Settled(ledger, gap) ==
  \/ gap \in ledger.accepted \cup gate.accepted
  \/ \E requirement \in Requires[gap] : \E i \in 1 .. ledger.runs :
        /\ proofs[i].kind = requirement[1] /\ proofs[i].of = ledger.judged
        /\ \A j \in i + 1 .. ledger.runs : proofs[j].kind = requirement[1] => proofs[j].of # ledger.judged
        /\ \A o \in requirement[2], c \in proofs[i].ran : <<o, c>> \notin ledger.judged.broken
\* A goal that a whole ledger lets through leaves no gap open that its scan met, and no
\* dangerous action but one marked or allowed by the policy (discoverRepo, the evidence
\* it reads and discoveryOptimizationBlocker).
GateLeavesNoneOpen ==
  gate.says = "go" /\ gapLedger.state = "whole" =>
    /\ Settled(gapLedger, "route")
    /\ gapLedger.scanned.has /\ "danger" \in action /\ "allowed" \notin action /\ policy # "allows" =>
         \E gap \in {"block", "mock"} : Settled(gapLedger, gap)

\* Not so: a ledger that is being written, or whose writer died, lets every goal through
\* that does not require one (readDiscoveryLedger).
TornLedgerStops == gapLedger.state = "torn" => gate.says # "go"
\* Not so: the gate asks neither the age of the ledger nor what it was made of.
GateKnowsTheCode ==
  gate.says = "go" /\ gapLedger.state = "whole" => gapLedger.judged = repo
=============================================================================
