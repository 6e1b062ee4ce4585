-------------------------- MODULE MCRecentPipeline --------------------------
(***************************************************************************)
(* Instances of RecentPipeline.  The anchor A is related to a target whose  *)
(* identity contains the old delimiter, so that under the delimiter-joined  *)
(* encoding it shares a key with a different fact about the anchor A|rel|B. *)
(***************************************************************************)
EXTENDS RecentPipeline

CONSTANTS w1, w2, p1, p2

MCAnchor == <<"A">>
MCTarget == <<"B", "rel", "C">>
Estimated == [confidence |-> "estimated", evidence |-> {"e1"}]
Exact == [confidence |-> "exact", evidence |-> {"e1", "e2"}]
MCRelations == {Estimated, Exact}
MCMissing == {{}, {"deployer"}}
MCLegacy ==
  {[anchor |-> MCAnchor, target |-> MCTarget, rel |-> Exact, enc |-> e] : e \in {"063", "065"}}
  \union
  {[anchor |-> <<"A", "rel", "B">>, target |-> <<"C">>, rel |-> Exact, enc |-> "063"]}
MCRetractions ==
  {[anchor |-> MCAnchor, status |-> "superseded", truth |-> "confirmed"],
   [anchor |-> <<"Z">>, status |-> "erroneous", truth |-> "confirmed"]}
MCScopeOf == [p \in Workers |-> w1]

\* One behaviour varies either the coverage or the relation and its
\* retraction: the two share no row, and their product is out of reach.
VARIABLE scenario
mcVars == <<rcVars, scenario>>

CoverageOnly == /\ rcWorld.relation = NoRelation
                /\ \A i \in DOMAIN rcRows : rcRows[i].type = "coverage_disclosure"
RelationsOnly == /\ rcWorld.missing = {}
                 /\ rcClock = 0
                 /\ \A i \in DOMAIN rcRows : rcRows[i].type # "coverage_disclosure"

InScenario == IF scenario = "coverage" THEN CoverageOnly ELSE RelationsOnly

MCInit == scenario \in {"coverage", "relations"} /\ RecentInit /\ InScenario
MCNext == RecentNext /\ UNCHANGED scenario /\ InScenario'
MCSpec == MCInit /\ [][MCNext]_mcVars
=============================================================================
