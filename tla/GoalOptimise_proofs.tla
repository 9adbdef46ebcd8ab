------------------------ MODULE GoalOptimise_proofs ------------------------
(***************************************************************************)
(* Theorems about the optimise loop, for every set of contents, targets    *)
(* and values, every threshold and budget, and with or without restore     *)
(* faults.                                                                 *)
(***************************************************************************)
EXTENDS GoalOptimise, TLAPS

(* While a candidate is on disk and no restore failed, the handle leads    *)
(* back to the champion; with a quiet suite the card in memory is still    *)
(* the champion's and still passes, whatever the candidate's record is.    *)
InRound == pc \in {"round", "challenge", "judge"} /\ ~strayed
Base    == IF pc = "round" THEN artifact ELSE handle
Held ==
    InRound =>
      /\ lineage # <<>>
      /\ Base = Last(lineage)
      /\ ~noisy => champion = evidence[Base] /\ champion.passes /\ champion.recorded

(* A candidate is only made while there are rounds left to count it.       *)
Counted == pc \in {"challenge", "judge"} => round < RoundLimit

(* What is judged has been measured.                                       *)
Measured == pc = "judge" => evidence[artifact].recorded

IInv == TypeOK /\ Counted /\ Measured /\ Held /\ CardIsCurrent

\* The last of the artifacts accepted so far is one of the contents.
LEMMA LastIsContent == \A s \in Seq(Contents) : s # <<>> => Last(s) \in Contents
  BY DEF Last

\* What was appended is last.
LEMMA AppendLast ==
    \A s \in Seq(Contents), c \in Contents :
      /\ Append(s, c) \in Seq(Contents) /\ Append(s, c) # <<>>
      /\ Last(Append(s, c)) = c
  BY DEF Last

\* The card of contents nobody measured is a card.
LEMMA NoCardIsCard == NoCard \in Card
  BY DEF NoCard, Card, Metrics

(* A verification records what is on disk, leaves every other content's    *)
(* record alone, and with a quiet suite leaves every record there is.      *)
LEMMA VerifyRecords ==
  ASSUME TypeOK, Verify
  PROVE  /\ evidence' \in [Contents -> Card]
         /\ evidence'[artifact].recorded
         /\ \A c \in Contents \ {artifact} : evidence'[c] = evidence[c]
         /\ ~noisy => \A c \in Contents : evidence[c].recorded => evidence'[c] = evidence[c]
  BY DEF Verify, TypeOK, Records

(* Every variable keeps its type, one group of variables at a time.        *)
LEMMA EmptyAndSingle == <<>> \in Seq(Contents) /\ \A c \in Contents : <<c>> \in Seq(Contents)
  OBVIOUS

\* Every step keeps the types of the control variables and the count of the rounds.
LEMMA ControlStep ==
  ASSUME TypeOK, Counted, [Next]_vars
  PROVE  /\ pc' \in {"start", "round", "challenge", "judge", "stopped"} /\ round' \in 0..RoundLimit
         /\ Counted'
<1> USE DEF Counted
<1>1. pc \in {"start", "round", "challenge", "judge", "stopped"} /\ round \in 0..RoundLimit
  BY DEF TypeOK
<1>2. CASE Start \/ VerifyChampion \/ Apply \/ VerifyChallenger \/ UNCHANGED vars
  BY <1>1, <1>2, LimitAssumption DEF Start, VerifyChampion, Apply, VerifyChallenger, vars
<1>3. CASE Blocked \/ Stop \/ Abandon
  BY <1>1, <1>3 DEF Blocked, Stop, Abandon
<1>4. CASE ApplyThrows
  BY <1>1, <1>4, LimitAssumption DEF ApplyThrows
<1>5. CASE Accept \/ Reject
  <2>1. pc = "judge" /\ pc' = "round" /\ round' = round + 1
    BY <1>5 DEF Accept, Reject
  <2> QED
    BY <1>1, <2>1, LimitAssumption
<1> QED
  BY <1>2, <1>3, <1>4, <1>5 DEF Next

\* Every step keeps the types of the two fault flags.
LEMMA FlagStep == TypeOK /\ [Next]_vars => noisy' \in BOOLEAN /\ strayed' \in BOOLEAN
<1> SUFFICES ASSUME TypeOK, [Next]_vars PROVE noisy' \in BOOLEAN /\ strayed' \in BOOLEAN
  OBVIOUS
<1>1. noisy \in BOOLEAN /\ strayed \in BOOLEAN
  BY DEF TypeOK
<1>2. noisy' = noisy
  BY DEF Next, vars, Start, Blocked, VerifyChampion, Stop, Apply, ApplyThrows, VerifyChallenger,
    Abandon, Accept, Reject
<1>3. strayed' = strayed \/ strayed' \in BOOLEAN
  BY Zenon DEF Next, vars, Start, Blocked, VerifyChampion, Stop, Apply, ApplyThrows,
    VerifyChallenger, Abandon, Accept, Reject, Rollback
<1> QED
  BY <1>1, <1>2, <1>3

\* Every step keeps the types of the artifacts, cards and lineage.
LEMMA DataStep ==
  ASSUME TypeOK, [Next]_vars
  PROVE  /\ artifact' \in Contents /\ handle' \in Contents
         /\ evidence' \in [Contents -> Card] /\ champion' \in Card
         /\ lineage' \in Seq(Contents)
<1>1. /\ artifact \in Contents /\ handle \in Contents
      /\ evidence \in [Contents -> Card] /\ champion \in Card
      /\ lineage \in Seq(Contents)
  BY DEF TypeOK
<1>2. CASE Start
  BY <1>1, <1>2, EmptyAndSingle DEF Start
<1>3. CASE Blocked \/ Stop \/ Abandon \/ UNCHANGED vars
  BY <1>1, <1>3 DEF Blocked, Stop, Abandon, vars
<1>4. CASE VerifyChampion
  <2>1. evidence' \in [Contents -> Card]
    BY <1>4, VerifyRecords DEF VerifyChampion
  <2>2. lineage' = <<artifact>> \/ lineage' = lineage
    BY <1>4 DEF VerifyChampion
  <2>3. champion' = evidence'[artifact] /\ UNCHANGED <<artifact, handle>>
    BY <1>4 DEF VerifyChampion
  <2>4. lineage' \in Seq(Contents)
    BY <1>1, <2>2, EmptyAndSingle
  <2> QED
    BY <1>1, <2>1, <2>3, <2>4
<1>5. CASE Apply \/ ApplyThrows
  BY <1>1, <1>5 DEF Apply, ApplyThrows
<1>6. CASE VerifyChallenger
  BY <1>1, <1>6, VerifyRecords DEF VerifyChallenger
<1>7. CASE Accept
  BY <1>1, <1>7, AppendLast DEF Accept
<1>8. CASE Reject
  BY <1>1, <1>8 DEF Reject, Rollback, Refresh
<1> QED
  BY <1>2, <1>3, <1>4, <1>5, <1>6, <1>7, <1>8 DEF Next

\* Every step keeps the type invariant.
LEMMA TypeStep == TypeOK /\ Counted /\ [Next]_vars => TypeOK' /\ Counted'
  BY ControlStep, FlagStep, DataStep DEF TypeOK

\* The inductive invariant holds at the start.
LEMMA InitHolds == Init => IInv
<1> SUFFICES ASSUME Init PROVE IInv
  OBVIOUS
<1>1. TypeOK
  <2>1. noisy \in BOOLEAN /\ strayed \in BOOLEAN
    BY DEF Init
  <2>2. evidence \in [Contents -> Card] /\ champion \in Card /\ lineage \in Seq(Contents)
    BY NoCardIsCard, EmptyAndSingle DEF Init
  <2>3. artifact \in Contents /\ handle \in Contents /\ pc = "stopped" /\ round \in 0..RoundLimit
    BY LimitAssumption DEF Init
  <2> QED
    BY <2>1, <2>2, <2>3 DEF TypeOK
<1>2. Counted /\ Measured /\ Held /\ CardIsCurrent
  BY DEF Init, Counted, Measured, Held, InRound, CardIsCurrent
<1> QED
  BY <1>1, <1>2 DEF IInv

(* The heart of it: a rejected candidate is gone, and the card looked up   *)
(* afterwards is the one the round began with.                             *)
LEMMA RejectRestores ==
  ASSUME TypeOK, Held, Reject, ~strayed'
  PROVE  artifact' = handle /\ champion' = evidence[handle] /\ ~strayed /\ pc' = "round"
<1>1. artifact' = handle /\ ~strayed
  <2>1. CASE artifact' = handle /\ UNCHANGED strayed
    BY <2>1
  <2>2. CASE UNCHANGED artifact /\ strayed' = (strayed \/ artifact # handle)
    BY <2>2, Zenon
  <2> QED
    BY <2>1, <2>2 DEF Reject, Rollback
<1> QED
  BY <1>1 DEF Reject, Refresh

\* Every step keeps disk, handle and card in memory together.
LEMMA HeldStep == IInv /\ [Next]_vars => Measured' /\ Held' /\ CardIsCurrent'
<1> SUFFICES ASSUME IInv, [Next]_vars PROVE Measured' /\ Held' /\ CardIsCurrent'
  OBVIOUS
<1> USE DEF IInv, Measured, Held, InRound, Base, CardIsCurrent
<1>1. CASE Start
  BY <1>1 DEF Start
<1>2. CASE Blocked \/ Stop \/ Abandon
  BY <1>2 DEF Blocked, Stop, Abandon
<1>3. CASE VerifyChampion
  <2>1. evidence'[artifact].recorded
    BY <1>3, VerifyRecords DEF VerifyChampion
  <2>2. CASE champion'.passes
    <3>1. lineage' = <<artifact>> /\ pc' = "round" /\ artifact' = artifact
      BY <1>3, <2>2 DEF VerifyChampion
    <3>2. lineage' # <<>> /\ Last(lineage') = artifact
      BY <3>1 DEF Last
    <3> QED
      BY <1>3, <2>1, <2>2, <3>1, <3>2 DEF VerifyChampion
  <2>3. CASE ~champion'.passes
    BY <1>3, <2>3 DEF VerifyChampion
  <2> QED
    BY <2>2, <2>3
<1>4. CASE Apply
  BY <1>4 DEF Apply
<1>5. CASE ApplyThrows
  BY <1>5 DEF ApplyThrows
<1>6. CASE VerifyChallenger
  <2>1. Verify /\ TypeOK /\ handle \in Contents
    BY <1>6 DEF VerifyChallenger, TypeOK
  <2>2. ~noisy /\ evidence[handle].recorded => evidence'[handle] = evidence[handle]
    BY <2>1, VerifyRecords
  <2>3. evidence'[artifact].recorded
    BY <2>1, VerifyRecords
  <2> QED
    BY <1>6, <2>2, <2>3 DEF VerifyChallenger
<1>7. CASE Accept
  <2>1. lineage' # <<>> /\ Last(lineage') = artifact
    BY <1>7, AppendLast DEF Accept, TypeOK
  <2>2. evidence[artifact].passes /\ evidence[artifact].recorded
    BY <1>7 DEF Accept
  <2> QED
    BY <1>7, <2>1, <2>2 DEF Accept
<1>8. CASE Reject
  BY <1>8, RejectRestores DEF Reject
<1>9. CASE UNCHANGED vars
  BY <1>9 DEF vars
<1> QED
  BY <1>1, <1>2, <1>3, <1>4, <1>5, <1>6, <1>7, <1>8, <1>9 DEF Next

-----------------------------------------------------------------------------
(* The invariant holds of every run.                                       *)
THEOREM IInvHolds == Spec => []IInv
<1>1. Init => IInv
  BY InitHolds
<1>2. IInv /\ [Next]_vars => IInv'
  BY TypeStep, HeldStep DEF IInv
<1> QED
  BY <1>1, <1>2, PTL DEF Spec

(* Every variable of the loop keeps its type.                              *)
THEOREM TypeCorrect == Spec => []TypeOK
<1>1. IInv => TypeOK
  BY DEF IInv
<1> QED
  BY <1>1, IInvHolds, PTL

(* A rejected candidate is gone: without a failed restore every round      *)
(* starts from the artifacts accepted last.                                *)
THEOREM RoundsStartClean == Spec => []RoundStartsAtChampion
<1>1. IInv => RoundStartsAtChampion
  BY DEF IInv, Held, InRound, Base, RoundStartsAtChampion
<1> QED
  BY <1>1, IInvHolds, PTL

(* The card in memory is the ledger's card of the artifacts on disk, with  *)
(* noisy suites as well as quiet ones.                                     *)
THEOREM CardFollowsDisk == Spec => []CardIsCurrent
<1>1. IInv => CardIsCurrent
  BY DEF IInv
<1> QED
  BY <1>1, IInvHolds, PTL

(* With a quiet suite the loop goes on only from a champion that passes.   *)
THEOREM ChampionPasses == Spec => []ChampionVerified
<1>1. IInv => ChampionVerified
  BY DEF IInv, Held, InRound, Base, ChampionVerified
<1> QED
  BY <1>1, IInvHolds, PTL

-----------------------------------------------------------------------------
(* Why the search never returns: with no regression budget a decision to   *)
(* accept means better, and better is a strict partial order on complete   *)
(* measurements, which the lineage follows.                                *)
AtLeast(t, old, new) == IF t \in Maximized THEN new >= old ELSE new <= old
Better(old, new) ==
    /\ \A t \in Targets : AtLeast(t, old[t], new[t])
    /\ \E t \in Targets : ~AtLeast(t, new[t], old[t])

Known  == \A i \in 1..Len(lineage) : evidence[lineage[i]].recorded
Climbs ==
    MaxRegression = 0 /\ ~noisy /\ ~strayed /\ Complete
      => \A i, j \in 1..Len(lineage) :
           i < j => Better(evidence[lineage[i]].metrics, evidence[lineage[j]].metrics)

Measurement == [Targets -> Nat]

\* A threshold is no negative share of a measurement.
LEMMA BudgetIsNonNegative == \A old \in Nat : Threshold * old >= 0
  BY BudgetAssumption, SMT

\* With no regression budget an accepted card is better than the one before it.
LEMMA AcceptedIsBetter ==
  ASSUME MaxRegression = 0, NEW old, NEW new, Accepts(old, new),
         old.metrics \in Measurement, new.metrics \in Measurement,
         \A t \in Targets : old.metrics[t] # Missing /\ new.metrics[t] # Missing
  PROVE  Better(old.metrics, new.metrics)
<1>1. ASSUME NEW t \in Targets PROVE AtLeast(t, old.metrics[t], new.metrics[t])
  <2>1. old.metrics[t] \in Nat /\ new.metrics[t] \in Nat
    BY DEF Measurement
  <2>2. ~Regresses(t, old.metrics[t], new.metrics[t])
    BY DEF Accepts
  <2>3. CASE old.metrics[t] = 0
    BY <2>1, <2>2, <2>3 DEF Regresses, Comparable, AtLeast
  <2>4. CASE old.metrics[t] # 0
    <3>1. ~(Gain(t, old.metrics[t], new.metrics[t]) < -MaxRegression * old.metrics[t])
      BY <2>2, <2>4 DEF Regresses, Comparable
    <3>2. -MaxRegression * old.metrics[t] = 0
      BY <2>1
    <3> QED
      BY <2>1, <3>1, <3>2 DEF Gain, AtLeast
  <2> QED
    BY <2>3, <2>4
<1>2. PICK t \in Targets : Improves(t, old.metrics[t], new.metrics[t])
  BY DEF Accepts
<1>3. ~AtLeast(t, new.metrics[t], old.metrics[t])
  <2>1. old.metrics[t] \in Nat /\ new.metrics[t] \in Nat
    BY DEF Measurement
  <2>2. Gain(t, old.metrics[t], new.metrics[t]) > Threshold * old.metrics[t]
    BY <1>2 DEF Improves
  <2>3. Threshold * old.metrics[t] >= 0 /\ Threshold * old.metrics[t] \in Int
    BY <2>1, BudgetIsNonNegative, BudgetAssumption
  <2> QED
    BY <2>1, <2>2, <2>3 DEF Gain, AtLeast
<1> QED
  BY <1>1, <1>2, <1>3 DEF Better

\* Better measurements of better ones are better.
LEMMA BetterIsTransitive ==
  ASSUME NEW a \in Measurement, NEW b \in Measurement, NEW c \in Measurement,
         Better(a, b), Better(b, c)
  PROVE  Better(a, c)
<1>1. \A t \in Targets : a[t] \in Nat /\ b[t] \in Nat /\ c[t] \in Nat
  BY DEF Measurement
<1>2. \A t \in Targets : AtLeast(t, a[t], b[t]) /\ AtLeast(t, b[t], c[t])
  BY DEF Better
<1>3. \A t \in Targets : AtLeast(t, a[t], c[t])
  BY <1>1, <1>2 DEF AtLeast
<1>4. PICK t \in Targets : ~AtLeast(t, b[t], a[t])
  BY DEF Better
<1>5. ~AtLeast(t, c[t], a[t])
  BY <1>1, <1>2, <1>4 DEF AtLeast
<1> QED
  BY <1>3, <1>4, <1>5 DEF Better

\* No measurement is better than itself.
LEMMA BetterIsIrreflexive == ASSUME NEW a \in Measurement PROVE ~Better(a, a)
  BY DEF Measurement, Better, AtLeast

\* With a complete suite a record measures every target.
LEMMA CompleteIsMeasured ==
  ASSUME TypeOK, Complete, NEW c \in Contents, evidence[c].recorded
  PROVE  /\ evidence[c].metrics \in Measurement
         /\ \A t \in Targets : evidence[c].metrics[t] # Missing
<1>1. evidence[c].metrics \in [Targets -> Values \cup {Missing}]
  BY DEF TypeOK, Card, Metrics
<1>2. \A t \in Targets : evidence[c].metrics[t] # Missing
  BY DEF Complete
<1>3. \A t \in Targets : evidence[c].metrics[t] \in Nat
  BY <1>1, <1>2, ValueAssumption
<1> QED
  BY <1>1, <1>2, <1>3 DEF Measurement

(* Recorded contents stay recorded, and with a quiet suite their records   *)
(* stay as they are; so a ledger that ends up complete was complete.       *)
LEMMA RecordsStay ==
  ASSUME TypeOK, [Next]_vars
  PROVE  /\ \A c \in Contents : evidence[c].recorded => evidence'[c].recorded
         /\ ~noisy => \A c \in Contents : evidence[c].recorded => evidence'[c] = evidence[c]
         /\ noisy' = noisy
<1>1. CASE UNCHANGED evidence
  BY <1>1 DEF Next, vars, Start, Blocked, VerifyChampion, Stop, Apply, ApplyThrows,
    VerifyChallenger, Abandon, Accept, Reject
<1>2. CASE Verify /\ noisy' = noisy
  <2>1. \A c \in Contents : evidence[c].recorded => evidence'[c].recorded
    BY <1>2, VerifyRecords
  <2> QED
    BY <1>2, <2>1, VerifyRecords
<1>3. UNCHANGED evidence \/ (Verify /\ noisy' = noisy)
  BY DEF Next, vars, Start, Blocked, VerifyChampion, Stop, Apply, ApplyThrows,
    VerifyChallenger, Abandon, Accept, Reject
<1> QED
  BY <1>1, <1>2, <1>3

\* With a quiet suite records only come: complete after a step is complete before.
LEMMA CompleteBefore ==
  ASSUME TypeOK, [Next]_vars, ~noisy, Complete'
  PROVE  Complete
  BY RecordsStay DEF Complete

\* Every step keeps a record of each artifact of the lineage.
LEMMA KnownStep == IInv /\ Known /\ [Next]_vars => Known'
<1> SUFFICES ASSUME IInv, Known, [Next]_vars PROVE Known'
  OBVIOUS
<1>1. TypeOK /\ Measured /\ lineage \in Seq(Contents) /\ artifact \in Contents
  BY DEF IInv, TypeOK
<1>2. \A i \in 1..Len(lineage) : lineage[i] \in Contents
  BY <1>1
<1>3. CASE UNCHANGED lineage
  BY <1>1, <1>2, <1>3, RecordsStay DEF Known
<1>4. CASE lineage' = <<>>
  BY <1>4 DEF Known
<1>5. CASE VerifyChampion /\ lineage' = <<artifact>>
  <2>1. evidence'[artifact].recorded
    BY <1>1, <1>5, VerifyRecords DEF VerifyChampion
  <2> QED
    BY <1>5, <2>1 DEF Known
<1>6. CASE Accept
  <2>1. lineage' = Append(lineage, artifact) /\ evidence' = evidence /\ evidence[artifact].recorded
    BY <1>1, <1>6 DEF Accept, Measured
  <2> QED
    BY <1>1, <2>1 DEF Known
<1>7. UNCHANGED lineage \/ lineage' = <<>> \/ (VerifyChampion /\ lineage' = <<artifact>>) \/ Accept
  BY DEF Next, vars, Start, Blocked, VerifyChampion, Stop, Apply, ApplyThrows, VerifyChallenger,
    Abandon, Reject
<1> QED
  BY <1>3, <1>4, <1>5, <1>6, <1>7

(* An accepted candidate is better than the champion, which is at least as *)
(* good as everything before it.                                           *)
LEMMA AcceptClimbs ==
  ASSUME IInv, Known, Climbs, Accept,
         MaxRegression = 0, ~noisy, ~strayed, Complete
  PROVE  \A i \in 1..Len(lineage) : Better(evidence[lineage[i]].metrics, evidence[artifact].metrics)
<1> DEFINE n == Len(lineage)
           m(i) == evidence[lineage[i]].metrics
           new == evidence[artifact].metrics
<1>1. TypeOK /\ lineage \in Seq(Contents) /\ artifact \in Contents
  BY DEF IInv, TypeOK
<1>2. lineage # <<>> /\ champion = evidence[Last(lineage)]
  BY DEF IInv, Held, InRound, Base, Accept
<1>3. n \in 1..n /\ champion = evidence[lineage[n]]
  BY <1>1, <1>2 DEF Last
<1>4. \A i \in 1..n : lineage[i] \in Contents /\ evidence[lineage[i]].recorded
  BY <1>1 DEF Known
<1>5. \A i \in 1..n : m(i) \in Measurement /\ \A t \in Targets : m(i)[t] # Missing
  BY <1>1, <1>4, CompleteIsMeasured
<1>6. new \in Measurement /\ \A t \in Targets : new[t] # Missing
  BY <1>1, CompleteIsMeasured DEF IInv, Measured, Accept
<1>7. Better(m(n), new)
  <2>1. Accepts(champion, evidence[artifact])
    BY DEF Accept
  <2> QED
    BY <1>3, <1>5, <1>6, <2>1, AcceptedIsBetter
<1>8. ASSUME NEW i \in 1..n PROVE Better(m(i), new)
  <2>1. CASE i = n
    BY <1>7, <2>1
  <2>2. CASE i < n
    <3>1. Better(m(i), m(n))
      BY <1>3, <2>2 DEF Climbs
    <3> QED
      BY <1>3, <1>5, <1>6, <1>7, <3>1, BetterIsTransitive
  <2> QED
    BY <1>8, <2>1, <2>2
<1> QED
  BY <1>8

\* Every step keeps the lineage climbing.
LEMMA ClimbStep == IInv /\ Known /\ Climbs /\ [Next]_vars => Climbs'
<1> SUFFICES ASSUME IInv, Known, Climbs, [Next]_vars,
                    MaxRegression = 0, ~noisy', ~strayed', Complete'
             PROVE  \A i, j \in 1..Len(lineage') :
                      i < j => Better(evidence'[lineage'[i]].metrics, evidence'[lineage'[j]].metrics)
  BY DEF Climbs
<1>1. TypeOK /\ lineage \in Seq(Contents) /\ artifact \in Contents
  BY DEF IInv, TypeOK
<1>2. ~noisy /\ Complete
  BY <1>1, RecordsStay, CompleteBefore
<1>3. \A i \in 1..Len(lineage) : evidence'[lineage[i]] = evidence[lineage[i]]
  BY <1>1, <1>2, RecordsStay DEF Known
<1>4. CASE UNCHANGED lineage /\ ~strayed
  BY <1>2, <1>3, <1>4 DEF Climbs
<1>5. CASE lineage' = <<>>
  BY <1>5
<1>6. CASE lineage' = <<artifact>>
  BY <1>6
<1>7. CASE Accept
  <2>1. lineage' = Append(lineage, artifact) /\ evidence' = evidence /\ ~strayed
    BY <1>7 DEF Accept
  <2>2. \A i \in 1..Len(lineage) : Better(evidence[lineage[i]].metrics, evidence[artifact].metrics)
    BY <1>2, <1>7, <2>1, AcceptClimbs
  <2>3. \A i, j \in 1..Len(lineage) :
          i < j => Better(evidence[lineage[i]].metrics, evidence[lineage[j]].metrics)
    BY <1>2, <2>1 DEF Climbs
  <2>4. Len(lineage') = Len(lineage) + 1 /\ lineage'[Len(lineage) + 1] = artifact
    BY <1>1, <2>1
  <2>5. \A i \in 1..Len(lineage) : lineage'[i] = lineage[i]
    BY <1>1, <2>1
  <2>6. ASSUME NEW i \in 1..Len(lineage'), NEW j \in 1..Len(lineage'), i < j
        PROVE  Better(evidence'[lineage'[i]].metrics, evidence'[lineage'[j]].metrics)
    <3>1. i \in 1..Len(lineage) /\ (j \in 1..Len(lineage) \/ j = Len(lineage) + 1)
      BY <1>1, <2>4, <2>6
    <3> QED
      BY <2>1, <2>2, <2>3, <2>4, <2>5, <2>6, <3>1
  <2> QED
    BY <2>6
<1>8. \/ UNCHANGED lineage /\ ~strayed
      \/ lineage' = <<>> \/ lineage' = <<artifact>> \/ Accept
  <2>1. CASE Start \/ Accept
    BY <2>1 DEF Start
  <2>2. CASE Reject
    BY <1>1, <2>2, RejectRestores DEF IInv, Reject
  <2>3. CASE ApplyThrows
    BY <2>3 DEF ApplyThrows
  <2>4. CASE ~(Start \/ Accept \/ Reject \/ ApplyThrows)
    BY <2>4 DEF Next, vars, Blocked, VerifyChampion, Stop, Apply, VerifyChallenger, Abandon
  <2> QED
    BY <2>1, <2>2, <2>3, <2>4
<1> QED
  BY <1>4, <1>5, <1>6, <1>7, <1>8

(* With a quiet suite that reports every target and no regression budget   *)
(* the loop never accepts artifacts it has accepted before.                *)
THEOREM SearchMakesProgress == Spec => []NeverReturns
<1>1. Init => Known /\ Climbs
  BY DEF Init, Known, Climbs
<1>2. IInv /\ Known /\ Climbs /\ [Next]_vars => Known' /\ Climbs'
  BY KnownStep, ClimbStep
<1>3. IInv /\ Known /\ Climbs => NeverReturns
  <2> SUFFICES ASSUME IInv, Known, Climbs, MaxRegression = 0, ~noisy, ~strayed, Complete,
                      NEW i \in 1..Len(lineage), NEW j \in 1..Len(lineage), lineage[i] = lineage[j]
               PROVE  i = j
    BY DEF NeverReturns
  <2>1. TypeOK /\ lineage[i] \in Contents /\ evidence[lineage[i]].recorded
    BY DEF IInv, TypeOK, Known
  <2>2. ~Better(evidence[lineage[i]].metrics, evidence[lineage[i]].metrics)
    BY <2>1, CompleteIsMeasured, BetterIsIrreflexive
  <2>3. ~(i < j) /\ ~(j < i)
    BY <2>2 DEF Climbs
  <2> QED
    BY <2>3
<1> QED
  BY <1>1, <1>2, <1>3, IInvHolds, PTL DEF Spec
=============================================================================
