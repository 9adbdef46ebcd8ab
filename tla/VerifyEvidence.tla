---------------------------- MODULE VerifyEvidence ----------------------------
(***************************************************************************)
(* xoloop-verify run, freeze-baselines and card, on a frontend suite: every *)
(* case is observed and compared with its baseline, a record of it all goes *)
(* to the evidence file under the hashes of the manifest and of the         *)
(* artifacts and baselines, and the card reads the last record with the     *)
(* hashes of now.  A user may edit the artifacts at any time.               *)
(*                                                                         *)
(* What the artifacts do is one observation for every case.  A hash is the  *)
(* content that it is taken of.                                            *)
(***************************************************************************)
EXTENDS Integers, Sequences, FiniteSets

CONSTANTS Cases, Observations,
          NoBaseline,       \* the baseline of a case that has none
          MaxRecords        \* bound on verification runs

\* A suite without cases fails before it observes anything (runFrontendSuiteVerification).
ASSUME EvidenceAssumption ==
    Cases # {} /\ NoBaseline \notin Observations /\ MaxRecords \in Nat

VARIABLES
    product, baseline,      \* by case
    manifest,               \* the number of edits of goal.yaml
    records,                \* evidence.jsonl
    running,                \* the verification under way, or none
    starts                  \* of verification runs

evidenceVars == <<product, baseline, manifest, records, running, starts>>

Idle == [active |-> FALSE]
EvidenceInit ==
    /\ product \in [Cases -> Observations]
    /\ baseline = [c \in Cases |-> NoBaseline]
    /\ manifest = 0 /\ records = <<>> /\ running = Idle /\ starts = 0

-----------------------------------------------------------------------------
\* artifactHash: the artifacts and the inputs of their verification.
HashOfArtifacts == <<product>>
ArtifactHash == <<product, baseline>>

\* currentVerificationRecords, latestRecord.
CurrentRecords ==
    {i \in 1..Len(records) : records[i].manifest = manifest /\ records[i].hash = ArtifactHash}
HasCurrent == CurrentRecords # {}
Latest == records[CHOOSE i \in CurrentRecords : \A j \in CurrentRecords : j <= i]

\* requiredObligations, and those that no verification of the record passed.
Obligations == {"baseline_present", "behaviour"}
Passed(r) == {v[1] : v \in {w \in r.checks : w[2] = "pass"}}
MissingObligations(r) == Obligations \ Passed(r)
Failed(r) == \E v \in r.checks : v[2] = "fail"       \* the first one is the counterexample

\* buildVerifyCard.
Verdict ==
    IF ~HasCurrent THEN IF records = <<>> THEN "NO_EVIDENCE" ELSE "STALE"
    ELSE IF Failed(Latest) THEN "FAIL"
    ELSE IF MissingObligations(Latest) # {} THEN "PASS_WITH_GAPS" ELSE "PASS_EVIDENCED"

-----------------------------------------------------------------------------
\* runGoalVerify loads the manifest and selects the cases: all, or that of --case.
StartVerify(selected, freeze) ==
    /\ ~running.active /\ starts < MaxRecords
    /\ starts' = starts + 1
    /\ running' = [active |-> TRUE, manifest |-> manifest, todo |-> selected, freeze |-> freeze,
                   checks |-> {}, whole |-> selected = Cases, moved |-> FALSE]
    /\ UNCHANGED <<product, baseline, manifest, records>>

\* verifyOneCase: the observation is the new baseline, is compared with the old one,
\* or finds none.
CompareCase(c) ==
    IF baseline[c] = NoBaseline THEN {<<"baseline_present", "gap">>}
    ELSE {<<"baseline_present", "pass">>,
          <<"behaviour", IF product[c] = baseline[c] THEN "pass" ELSE "fail">>}
AllPass == {<<o, "pass">> : o \in Obligations}

VerifyCase(c) ==
    /\ running.active /\ c \in running.todo
    /\ baseline' = IF running.freeze THEN [baseline EXCEPT ![c] = product[c]] ELSE baseline
    /\ running' = [running EXCEPT !.todo = @ \ {c},
                     !.checks = @ \cup IF running.freeze THEN AllPass ELSE CompareCase(c)]
    /\ UNCHANGED <<product, manifest, records, starts>>

\* The hash of the manifest is that of the loaded one; the artifacts are hashed now.
AppendRecord ==
    /\ running.active /\ running.todo = {}
    /\ records' = Append(records, [manifest |-> running.manifest, hash |-> ArtifactHash,
                     checks |-> running.checks,
                     whole |-> running.whole, moved |-> running.moved])
    /\ running' = Idle
    /\ UNCHANGED <<product, baseline, manifest, starts>>

\* A suite throws or the process is killed: nothing is recorded.
VerifyDies ==
    /\ running.active /\ running' = Idle
    /\ UNCHANGED <<product, baseline, manifest, records, starts>>

EditProduct(c, o) ==
    /\ product[c] # o
    /\ product' = [product EXCEPT ![c] = o]
    /\ running' = IF running.active THEN [running EXCEPT !.moved = TRUE] ELSE Idle
    /\ UNCHANGED <<baseline, manifest, records, starts>>

\* goal.yaml, edited by hand or by the decision on a tradeoff.
EditManifest ==
    /\ manifest = 0 /\ manifest' = 1
    /\ UNCHANGED <<product, baseline, records, running, starts>>

EvidenceStep ==
    \/ \E freeze \in BOOLEAN, selected \in {Cases} \cup {{c} : c \in Cases} :
          StartVerify(selected, freeze)
    \/ \E c \in Cases : VerifyCase(c) \/ \E o \in Observations : EditProduct(c, o)
    \/ AppendRecord \/ VerifyDies \/ EditManifest

EvidenceSpec == EvidenceInit /\ [][EvidenceStep]_evidenceVars

-----------------------------------------------------------------------------
Checks == Obligations \X {"pass", "fail", "gap"}
EvidenceTypeOK ==
    /\ product \in [Cases -> Observations]
    /\ baseline \in [Cases -> Observations \cup {NoBaseline}]
    /\ manifest \in 0..1 /\ starts \in 0..MaxRecords
    /\ Len(records) <= starts
    /\ \A i \in 1..Len(records) : records[i].checks \subseteq Checks
    /\ running = Idle \/ (running.todo \subseteq Cases /\ running.checks \subseteq Checks)

Gap(r) == \E v \in r.checks : v[2] = "gap"
Trusted(r) == r.whole /\ ~r.moved /\ ~Gap(r)

\* A card reports evidence of what is on disk, under the manifest of now: when its
\* record is of all cases, found no gap, and no one edited the artifacts while it ran,
\* PASS_EVIDENCED means that every case does what its baseline says, and FAIL that one
\* does not.  No sequence of edits, reverts, new baselines and aborted runs breaks it.
CardTellsTruth ==
    HasCurrent /\ Trusted(Latest) =>
        (Verdict = "PASS_EVIDENCED") = (\A c \in Cases : product[c] = baseline[c])

\* A record speaks for nothing but the contents it was taken of: an edit that is not
\* an undo makes a card stale.
EditMakesStale ==
    [][product' \notin {records[i].hash[1] : i \in 1..Len(records)}
        => Verdict' \in {"NO_EVIDENCE", "STALE"}]_product

\* PASS_EVIDENCED hides no gap.
GapsAreShown == Verdict = "PASS_EVIDENCED" => ~Gap(Latest)
=============================================================================
