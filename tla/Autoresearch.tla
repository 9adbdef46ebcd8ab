----------------------------- MODULE Autoresearch -----------------------------
(***************************************************************************)
(* The two research loops that change a workspace: runAutoresearchLoop,    *)
(* with its path scope, approval gate, council, index reset, clean-up of   *)
(* validation litter and token budget, and runSectionLoop, which has none  *)
(* of these.  One iteration asks a model for a change set, applies it,     *)
(* validates it, and commits it or rolls it back.                          *)
(*                                                                         *)
(* Contents are sets of iterations: those whose change is in the files, in *)
(* the index, in HEAD; and those whose validation left untracked files.    *)
(***************************************************************************)
EXTENDS Integers, FiniteSets, Functions

CONSTANTS MaxIterations,
          TokenBudget, MaxTokens,    \* finalBudget; the most that a response costs
          Judges, Scores, VetoScore, \* the council, the rubric's marks, its veto mark
          MaxFaults                  \* bound on git commands and restores that fail

ASSUME ResearchAssumption ==
    /\ {MaxIterations, TokenBudget, MaxTokens, MaxFaults} \subseteq Nat
    /\ Judges # {} /\ IsFiniteSet(Judges) /\ Scores \subseteq Nat

VARIABLES
    kind, council, failOpen,   \* which loop; enableCouncil; councilFailOpen
    sound,                     \* no command of the baseline failed
    rpc, iter,
    disk, index, head, junk,   \* contents
    undo,                      \* the files before the change set of this iteration
    worthy, green, approved,   \* iterations the decision on the validation kept; whose
                               \* quick commands all passed; that the council kept
    kept,                      \* iterations that ended as kept
    judged,                    \* what the council compared the last challenger with
    tokens, spent, counted,    \* of this response; of all; report.usage.totalModelTokens
    rfaults

config == <<kind, council, failOpen, sound>>
gates == <<worthy, green, approved>>
workspace == <<disk, index, head, junk>>
researchVars == <<config, rpc, iter, workspace, undo, gates, kept, judged,
                  tokens, spent, counted, rfaults>>

Unjudged == {0}

ResearchInit ==
    /\ kind \in {"loop", "section"} /\ council \in BOOLEAN /\ failOpen \in BOOLEAN /\ sound \in BOOLEAN
    /\ kind = "section" => ~council
    /\ ~council => ~failOpen
    /\ rpc = "propose" /\ iter = 1
    /\ disk = {} /\ index = {} /\ head = {} /\ junk = {} /\ undo = {}
    /\ worthy = {} /\ green = {} /\ approved = {} /\ kept = {} /\ judged = Unjudged
    /\ tokens = 0 /\ spent = 0 /\ counted = 0 /\ rfaults = 0

-----------------------------------------------------------------------------
\* One round of the council on the marks that each judge gave <<champion, challenger>>:
\* pickWinner on the means, a veto mark from any judge, and the champion at a tie.
ChallengerWins(ballots) ==
    LET Total(side) == SumFunction([j \in Judges |-> ballots[j][side]])
    IN  /\ \A j \in Judges : ballots[j][2] # VetoScore
        /\ Total(2) > Total(1)

Verdicts == {ChallengerWins(ballots) : ballots \in [Judges -> Scores \X Scores]}

\* buildDecisionSummary of either loop.
Keep(noRegression, slower, faster, signal) == noRegression /\ ~slower /\ (faster \/ signal)

Decisions == {Keep(r, slower, faster, signal) :
                  r, slower, faster, signal \in BOOLEAN}

\* The next iteration, or the end of the loop.
GoOn(stop) == /\ iter' = iter + 1
              /\ rpc' = IF stop \/ iter = MaxIterations THEN "done" ELSE "propose"

\* The model fails every retry, answers what does not parse, or proposes a change
\* that is out of scope or sensitive: the iteration is recorded and the loop
\* continues, past the accounting of its tokens.
SkipIteration(cost) ==
    /\ rpc = "propose"
    /\ spent' = spent + cost
    /\ GoOn(FALSE)
    /\ UNCHANGED <<config, workspace, undo, gates, kept, judged, tokens, counted, rfaults>>

\* The end of an iteration that ran: its tokens count, and may exhaust the budget.
EndIteration ==
    /\ rpc = "count"
    /\ counted' = counted + tokens /\ tokens' = 0
    /\ GoOn(kind = "loop" /\ counted' > TokenBudget)
    /\ UNCHANGED <<config, workspace, undo, gates, kept, judged, spent, rfaults>>

\* A proposal with a change set that the gates let through, or with none at all.
Propose(cost, changes) ==
    /\ rpc = "propose"
    /\ spent' = spent + cost /\ tokens' = cost
    /\ rpc' = IF changes THEN "apply" ELSE "count"
    /\ UNCHANGED <<config, iter, workspace, undo, gates, kept, judged, counted, rfaults>>

\* applyChangeSet leaves the files alone when an operation does not fit.
ApplyProposal(fits) ==
    /\ rpc = "apply"
    /\ undo' = disk
    /\ IF fits THEN disk' = disk \cup {iter} /\ rpc' = "validate"
               ELSE rpc' = "count" /\ UNCHANGED disk
    /\ UNCHANGED <<config, iter, index, head, junk, gates, kept, judged, tokens, spent,
                   counted, rfaults>>

\* The quick commands pass or not, then perhaps the full ones; they may leave untracked
\* files behind.  No failure of a quick command is no worse than a baseline without one.
\* The council is asked about a kept change whose quick commands all passed: one that
\* fails no more of them than the baseline did, and is faster, goes on without it.
ValidateProposal(keep, quick, litter) ==
    /\ rpc = "validate"
    /\ keep /\ sound => quick
    /\ junk' = IF litter THEN junk \cup {iter} ELSE junk
    /\ worthy' = IF keep THEN worthy \cup {iter} ELSE worthy
    /\ green' = IF quick THEN green \cup {iter} ELSE green
    /\ rpc' = IF ~keep THEN "rollback" ELSE IF council /\ quick THEN "council" ELSE "commit"
    /\ UNCHANGED <<config, iter, disk, index, head, undo, approved, kept, judged, tokens,
                   spent, counted, rfaults>>

\* The champion that the judges see is read from the files now, with the change in
\* them.  An unavailable council keeps only when the caller said so.
CouncilKeepsUnreviewed(answered, wins) == wins \/ ~answered
CouncilKeeps(answered, wins) == IF answered THEN wins ELSE failOpen
Council(answered, wins) ==
    /\ rpc = "council"
    /\ judged' = IF answered THEN disk ELSE judged
    /\ approved' = IF answered /\ wins THEN approved \cup {iter} ELSE approved
    /\ rpc' = IF CouncilKeeps(answered, wins) THEN "commit" ELSE "rollback"
    /\ UNCHANGED <<config, iter, workspace, undo, worthy, green, kept, tokens, spent, counted,
                   rfaults>>

\* git add and git commit of the files of the change set.  When nothing is staged the
\* iteration is kept without a commit; when git fails, autoresearch resets the index.
Commit(staged) ==
    /\ rpc = "commit"
    /\ IF staged THEN head' = head \cup {iter} /\ UNCHANGED disk
                 ELSE disk' = undo /\ UNCHANGED head
    /\ index' = disk'
    /\ kept' = kept \cup {iter} /\ rpc' = "count"
    /\ UNCHANGED <<config, iter, junk, undo, gates, judged, tokens, spent, counted,
                   rfaults>>

ResetIndex(resets) == index' = IF kind = "loop" /\ resets THEN head ELSE disk
CommitFails(resets) ==
    /\ rpc = "commit" /\ (resets \/ rfaults < MaxFaults)
    /\ rfaults' = IF resets THEN rfaults ELSE rfaults + 1
    /\ ResetIndex(resets)
    /\ rpc' = "rollback"
    /\ UNCHANGED <<config, iter, disk, head, junk, undo, gates, kept, judged, tokens,
                   spent, counted>>

\* workspaceRollback: the untracked files that are new, then the change set.  The
\* section loop restores the files only.
CleanNothing == UNCHANGED junk
CleanJunk == junk' = IF kind = "loop" THEN junk \ {iter} ELSE junk
RollbackProposal ==
    /\ rpc = "rollback"
    /\ CleanJunk
    /\ disk' = undo /\ rpc' = "count"
    /\ UNCHANGED <<config, iter, index, head, undo, gates, kept, judged, tokens, spent,
                   counted, rfaults>>

\* git clean fails, or a file cannot be restored.
RollbackFails(cleaned) ==
    /\ rpc = "rollback" /\ rfaults < MaxFaults
    /\ rfaults' = rfaults + 1 /\ rpc' = "count"
    /\ IF cleaned THEN CleanJunk /\ UNCHANGED disk ELSE disk' = undo /\ UNCHANGED junk
    /\ UNCHANGED <<config, iter, index, head, undo, gates, kept, judged, tokens, spent,
                   counted>>

-----------------------------------------------------------------------------
Costs == 0..MaxTokens
ResearchStep ==
    \/ \E cost \in Costs : SkipIteration(cost) \/ \E b \in BOOLEAN : Propose(cost, b)
    \/ \E fits \in BOOLEAN : ApplyProposal(fits)
    \/ \E keep \in Decisions, quick, litter \in BOOLEAN :
           ValidateProposal(keep, quick, litter)
    \/ \E answered \in BOOLEAN, wins \in Verdicts : Council(answered, wins)
    \/ \E b \in BOOLEAN : Commit(b) \/ CommitFails(b) \/ RollbackFails(b)
    \/ RollbackProposal \/ EndIteration

ResearchFairness == WF_researchVars(ResearchStep)
ResearchSpec == ResearchInit /\ [][ResearchStep]_researchVars /\ ResearchFairness

-----------------------------------------------------------------------------
Iterations == 1..MaxIterations
ResearchTypeOK ==
    /\ kind \in {"loop", "section"} /\ {council, failOpen, sound} \subseteq BOOLEAN
    /\ rpc \in {"propose", "apply", "validate", "council", "commit", "rollback", "count",
                "done"}
    /\ {disk, index, head, junk, undo, worthy, green, approved, kept} \subseteq SUBSET Iterations
    /\ judged = Unjudged \/ judged \subseteq Iterations
    /\ iter \in 1..MaxIterations + 1 /\ tokens \in Costs
    /\ {spent, counted} \subseteq 0..MaxIterations * MaxTokens /\ rfaults \in 0..MaxFaults

\* Every iteration starts where HEAD is: no change, staged blob or litter of an
\* iteration that was thrown away is there for the next one to commit, unless a git
\* command or a restore failed.  Only autoresearch cleans the index and the litter.
StartsAtHead ==
    (rpc = "propose" /\ rfaults = 0) =>
        /\ disk = head
        /\ kind = "loop" => index = head /\ junk \subseteq kept

\* HEAD holds only changes that the decision on their validation kept.  Where a council
\* was asked for and may not be missing, each of them whose quick commands all passed was
\* approved by it; and all of them are such if the baseline had no failure.
CommitsWereVetted ==
    /\ head \subseteq worthy
    /\ council /\ ~failOpen => head \cap green \subseteq approved
    /\ sound => head \subseteq green

\* Not so in the code, whose comment (autoresearch_loop.cjs:1235-1239) says that "we
\* cannot commit a change that was never reviewed": on a baseline that fails, a change
\* that fails no more of its quick commands and is faster is committed unseen.
CommitsWereReviewed == council /\ ~failOpen => head \subseteq approved

\* The loop stops, whatever fails.
ResearchEnds == <>(rpc = "done")

\* The tokens spent stay within the budget and the response that exhausted it.
SpendIsBounded == kind = "loop" => spent <= TokenBudget + MaxTokens

\* The council compares a challenger with the files as they were before it.
ChampionIsBaseline == [][judged' # judged => judged' = undo]_judged
=============================================================================
