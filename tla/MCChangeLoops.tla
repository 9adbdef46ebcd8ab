---------------------------- MODULE MCChangeLoops ----------------------------
(* What changes the user's files and judges the change: the optimise loop,   *)
(* the operations it applies and the ledger of gaps it starts from, the      *)
(* evidence of the verify runs, the research loops, the audit loop, and the  *)
(* bridge that applies a proposal.  A behaviour is one of one part: `side`   *)
(* says which, and the others rest in an initial state.                      *)
EXTENDS GoalOptimise, VerifyEvidence, Autoresearch, AuditLoop, OperationSets, ApplyProposal,
        DiscoveryGaps

VARIABLE side
mcVars == <<vars, evidenceVars, researchVars, auditVars, irVars, proposalVars,
            discoveryVars, side>>

\* The pins come first: TLC need not combine the initial states of all parts.
MCInit ==
  /\ side \in {"optimise", "verify", "research", "audit", "operations", "proposal", "discovery"}
  /\ side # "optimise" => artifact = (CHOOSE c \in Contents : TRUE) /\ noisy = FALSE
  /\ side # "verify" => product = [c \in Cases |-> CHOOSE o \in Observations : TRUE]
  /\ side # "research" => kind = "loop" /\ council = FALSE /\ sound = TRUE
  /\ side # "audit" => aMode = "apply" /\ absolute = FALSE /\ validates = FALSE
  /\ side # "operations" => /\ operations = <<CHOOSE o \in Operations : TRUE>>
                            /\ irDisk = [src |-> Absent, new |-> Absent]
  /\ side # "proposal" => given = [changes |-> <<CHOOSE c \in Changes : TRUE>>, simplify |-> FALSE,
                                   docs |-> FALSE, validates |-> FALSE, timeoutOk |-> TRUE]
  /\ side # "discovery" => /\ action = {"safe"} /\ policy = "absent"
                           /\ repo = [has |-> FALSE, broken |-> {}]
  /\ Init /\ EvidenceInit /\ ResearchInit /\ AuditInit /\ IrInit /\ ProposalInit
  /\ DiscoveryInit

OptimiseOf(A) == side = "optimise" /\ A
  /\ UNCHANGED <<side, evidenceVars, researchVars, auditVars, irVars, proposalVars, discoveryVars>>
VerifyOf(A) == side = "verify" /\ A
  /\ UNCHANGED <<side, vars, researchVars, auditVars, irVars, proposalVars, discoveryVars>>
ResearchOf(A) == side = "research" /\ A
  /\ UNCHANGED <<side, vars, evidenceVars, auditVars, irVars, proposalVars, discoveryVars>>
AuditOf(A) == side = "audit" /\ A
  /\ UNCHANGED <<side, vars, evidenceVars, researchVars, irVars, proposalVars, discoveryVars>>
OperationsOf(A) == side = "operations" /\ A
  /\ UNCHANGED <<side, vars, evidenceVars, researchVars, auditVars, proposalVars, discoveryVars>>
ProposalOf(A) == side = "proposal" /\ A
  /\ UNCHANGED <<side, vars, evidenceVars, researchVars, auditVars, irVars, discoveryVars>>

DiscoveryOf(A) == side = "discovery" /\ A
  /\ UNCHANGED <<side, vars, evidenceVars, researchVars, auditVars, irVars, proposalVars>>

MCNext ==
  \/ OptimiseOf(Next) \/ VerifyOf(EvidenceStep) \/ ResearchOf(ResearchStep)
  \/ AuditOf(AuditStep) \/ OperationsOf(IrStep) \/ ProposalOf(ProposalStep)
  \/ DiscoveryOf(DiscoveryStep)

MCSpec == MCInit /\ [][MCNext]_mcVars
=============================================================================
