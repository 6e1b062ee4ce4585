--------------------------- MODULE MCIntelligence ---------------------------
(***************************************************************************)
(* The recent-intelligence pipeline with its workers, and the rules and    *)
(* algorithms one input at a time.  They share no state, so `mode` chooses *)
(* which one runs; fair are the passes of the pipeline and its clock.      *)
(***************************************************************************)
EXTENDS MCRecentPipeline, MCAlgorithms

VARIABLE mode
inVars == <<mode, mcVars, input>>
Runs(m) == mode = m

IntelligenceInit ==
  /\ mode \in {"pipeline", "rules"}
  /\ AlgInit
  /\ MCInit
  /\ Runs("rules") => scenario = "coverage" /\ rcRows = <<>> /\ rcWorld.missing = {}

IntelligenceNext ==
  /\ mode' = mode
  /\ \/ Runs("pipeline") /\ MCNext /\ UNCHANGED input
     \/ Runs("rules") /\ AlgNext /\ UNCHANGED mcVars

IntelligenceSpec ==
  /\ IntelligenceInit /\ [][IntelligenceNext]_inVars
  /\ WF_mcVars(Runs("pipeline") /\ RecentTick /\ UNCHANGED scenario /\ InScenario')
  /\ \A p \in Workers : WF_mcVars(Runs("pipeline") /\ PassStep(p) /\ UNCHANGED scenario)
=============================================================================
