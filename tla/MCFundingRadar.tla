--------------------------- MODULE MCFundingRadar ---------------------------
(* Instances of FundingRadar for TLC. *)
EXTENDS FundingRadar

\* The policy's defaults (FundingRadarConfig of src/config.rs): two kinds of
\* evidence for a preparation, 70 for an alert.
DefaultRequired   == 2
DefaultConfidence == 70

\* One kind that only counts and one that also ends the case.
BothKinds == {"fanout", "deployment"}

CONSTANT Second   \* the ingester that is only at work while no operator is

\* A behaviour has either operators, or a second ingester, infrastructure
\* transfers and crashes beside the worker loop.
VARIABLE solo
radarVars == <<solo, vars>>

OneEvaluator == \A o \in Operators : epc[o] = "idle"
OneIngester  == /\ aborts = 0
                /\ \A i \in Ingesters : job[i] # NoJob =>
                      i # Second /\ job[i][1] \notin InfraSignatures
InInstance   == IF solo THEN OneEvaluator ELSE OneIngester

RadarInit == solo \in BOOLEAN /\ Init
RadarNext == Next /\ UNCHANGED solo /\ InInstance'
RadarSpec == RadarInit /\ [][RadarNext]_radarVars /\ Fairness

\* While the worker loop is the only evaluator, a deployed or dismissed case
\* keeps its stage: neither a transfer that comes again nor a crash of the pass
\* reopens it (evaluate_radar_case, ingest_funding_event).
SoloTerminalIsFinal == [][solo => KeepsTerminal]_vars

\* While the worker loop is the only evaluator, a promotion at alert confidence
\* gets its outbox row although the loop may crash before it claims one
\* (pending_funding_alerts).
SoloPromotionIsAlerted == solo => PromotionIsAlerted

=============================================================================
