----------------------------- MODULE Algorithms -----------------------------
(***************************************************************************)
(* The pure algorithms over the inputs they are given: one state per       *)
(* input, one action per algorithm, and each property as an invariant of   *)
(* the states that hold an input of its algorithm.  The inputs are         *)
(* constants, about which only the types the code reads them with are      *)
(* assumed.                                                                *)
(***************************************************************************)
EXTENDS RecentResolver, CaseRepair, Scoring, Replay, ForgeRules

CONSTANTS ResolverInputs, CitationInputs, StoreInputs, SwapInputs, RateInputs, TradeInputs,
          ReplayInputs, MetricInputs, ActionInputs, AutonomyInputs, HealthInputs, PoolInputs,
          RevivalInputs, EntryInputs, DecisionInputs, LineInputs

-----------------------------------------------------------------------------
(* What the code's types say of an input.                                  *)

Actions == TradeActions \cup LpActions
Thresholds == [sample : Int, days : Int, drawdown : Int, ci : Int, approval : BOOLEAN]
Guards == [thresholds : Thresholds, sample : Int, days : Int, drawdown : Int, ci : Int,
           approved : BOOLEAN, evidence : SUBSET STRING]
Signals == [success : Int, now : Int, cadence : Int, stale : BOOLEAN, failures : Nat,
            disabled : BOOLEAN]
Candidates == [id : Nat, role : {"mandatory", "vendor", "fallback"}, health : STRING, weight : Nat,
               latency : Int, cost : Int, usable : BOOLEAN]
Components == [class : STRING, name : STRING, pass : {"yes", "no", "unknown"}]

\* source_id is the primary key of the registry.
DistinctIds(cands) == \A i, j \in DOMAIN cands : i # j => cands[i].id # cands[j].id

\* A line without a group declares no keys.
IsLine(l) == /\ l.keys \in Seq(Range(l.keys)) /\ l.grouped \in BOOLEAN
             /\ ~l.grouped => l.keys = <<>>

ASSUME RulesAssumption ==
  /\ ActionInputs \subseteq [switches : SUBSET [mode : {"halt", "exit_only"}, active : BOOLEAN],
                              action : TradeActions]
  /\ AutonomyInputs \subseteq [phase : Range(RolloutPhases), action : Actions, guard : Guards]
  /\ HealthInputs \subseteq Seq(Signals)
  /\ PoolInputs \subseteq {p \in Seq(Candidates) : DistinctIds(p)}
  /\ \A x \in RevivalInputs : x.memory \in Seq(Range(x.memory)) /\ x.evidence \in Seq(Range(x.evidence))
  /\ EntryInputs \subseteq [clusters : Nat, buys : Nat, lifecycle : BOOLEAN, age : Int, liquidity : Int,
                             flags : SUBSET STRING, marketAge : Int, skill : Int, copyability : Int,
                             completeness : Int]
  /\ DecisionInputs \subseteq [evidence : BOOLEAN, freshness : BOOLEAN, missing : BOOLEAN,
                                components : Seq(Components)]
  /\ \A x \in LineInputs : x \in Seq(Range(x)) /\ \A i \in DOMAIN x : IsLine(x[i])

Keys == [chain : STRING, id : STRING]
Anchors == [token : Keys, deployer : Keys, funder : Keys, authority : Keys, feePayer : Keys,
            factory : Keys, socials : Seq(Keys)]
Nodes == [type : STRING, key : Keys]
GraphEdges == [type : STRING, from : Keys, to : Keys, truth : STRING, evidence : SUBSET STRING,
               validFrom : Int, validUntil : Int, occurred : Int]
Bindings == [platform : STRING, user : STRING, handles : SUBSET STRING]

\* No ref is upstream of itself: there dependency_roots does not return.
WalksEnd(deps) ==
  \A i \in DOMAIN deps : LET root == DependencyRoot(deps, deps[i][2]) IN Upstream(deps, root) = root

ASSUME ResolverAssumption ==
  /\ ResolverInputs \subseteq [anchor : Anchors, nodes : Seq(Nodes), edges : Seq(GraphEdges),
                                bindings : SUBSET Bindings, now : Int]
  /\ \A x \in CitationInputs : x.deps \in Seq(STRING \X STRING) /\ WalksEnd(x.deps)

\* Ids and dedup keys are primary keys, events and alerts are of cases that
\* exist, and only a scalar has a pair without a key.
CaseRows == [group : STRING, first : Nat, facts : Nat, stage : DOMAIN StageRank, score : Nat,
             evidence : SUBSET (STRING \X Nat)]
IsStore(s) ==
  /\ s = [cases |-> s.cases, events |-> s.events, alerts |-> s.alerts, uidx |-> s.uidx,
          caseColumn |-> s.caseColumn]
  /\ DOMAIN s.cases \subseteq Nat /\ IsFiniteSet(DOMAIN s.cases)
  /\ \A id \in DOMAIN s.cases :
       /\ s.cases[id] \in CaseRows
       /\ s.cases[id].evidence = ScalarEvidence \/ \A kv \in s.cases[id].evidence : kv[1] # ""
  /\ \A e \in DOMAIN s.events : s.events[e] \in DOMAIN s.cases
  /\ s.alerts \subseteq [subject : DOMAIN s.cases, dest : STRING, state : STRING, case : Nat]
  /\ \A a, b \in s.alerts : a.subject = b.subject /\ a.dest = b.dest => a = b

ASSUME StoreAssumption == \A s \in StoreInputs : IsStore(s)

\* Quantities and prices are not negative; an amount that does not parse is zero.
IsSwap(s) == /\ s.side \in {"buy", "sell"} /\ s.amount \in Nat /\ s.usd \in Nat /\ s.time \in Int
Rates == [win : Int, hold : Int, mev : Int, liquidity : Int, roi : Int, early : Int, trades : Int,
          agreement : Int]

ASSUME ScoringAssumption ==
  /\ \A x \in SwapInputs : x \in Seq(Range(x)) /\ \A i \in DOMAIN x : IsSwap(x[i])
  /\ RateInputs \subseteq Rates

\* ORDER BY observed_at delivers snapshots by their time, those of one moment in any order.
Snapshots == {s \in Seq([at : Nat, value : Nat \cup {Unknown}]) :
                \A i, j \in DOMAIN s : i <= j => s[i].at <= s[j].at}

ASSUME ReplayAssumption ==
  /\ \A x \in ReplayInputs : x.time \in Nat /\ \A r \in x.rows : r.at \in Nat
  /\ MetricInputs \subseteq [rows : Snapshots, signal : Nat]

-----------------------------------------------------------------------------
VARIABLE input
NoInput == [kind |-> "none", given |-> <<>>]
Of(kind) == input.kind = kind
Give(kind, X) == \E x \in X : input' = [kind |-> kind, given |-> x]

AlgInit == input = NoInput
AlgNext ==
  /\ Of("none")
  /\ \/ Give("resolve", ResolverInputs)
     \/ Give("groups", CitationInputs)
     \/ Give("repair", StoreInputs)
     \/ Give("swaps", SwapInputs)
     \/ Give("rates", RateInputs)
     \/ Give("history", TradeInputs)
     \/ Give("replay", ReplayInputs)
     \/ Give("metrics", MetricInputs)
     \/ Give("intent", IntentStates)
     \/ Give("action", ActionInputs)
     \/ Give("autonomy", AutonomyInputs)
     \/ Give("health", HealthInputs)
     \/ Give("pool", PoolInputs)
     \/ Give("stage", DOMAIN StrategyStages)
     \/ Give("revival", RevivalInputs)
     \/ Give("entry", EntryInputs)
     \/ Give("decision", DecisionInputs)
     \/ Give("lines", LineInputs)
AlgSpec == AlgInit /\ [][AlgNext]_input

\* Chain aliases decide nothing in resolve_candidates.
ResolverAliasesAgree == Of("resolve") => AliasesAgree(input.given)
\* Weak edges never lift a relation of resolve_candidates.
ResolverWeakEdges == Of("resolve") => WeakEdgesNeverPromote(input.given)
\* No self relation and no factory as common deployer in resolve_candidates.
ResolverNoSelfOrFactory == Of("resolve") => NoSelfOrFactoryRelation(input.given)
\* Reposts of one source share a dependency group.
GroupsFollowCopies == Of("groups") => CopiesShareAGroup(input.given.deps, input.given.r1, input.given.r2)
\* The case repair of db.rs loses no event, no evidence and no first funding.
RepairHistory == Of("repair") => RepairKeepsHistory(input.given)
\* The case repair never forgets a delivery.
RepairSent == Of("repair") => RepairKeepsSent(input.given)
\* The case repair leaves unique outbox keys of cases that exist.
RepairKeys == Of("repair") => RepairKeysUnique(input.given)
\* cost_basis.rs conserves cost.
BasisConserved == Of("swaps") => CostIsConserved(input.given)
\* cost_basis.rs does not depend on the order of delivery.
BasisOrderFree == Of("swaps") => DeliveryOrderIsIrrelevant(input.given)
\* cost_basis.rs never mixes wallets.
BasisPerWallet == Of("swaps") => WalletsDoNotMix(input.given)
\* skill_score is monotone in the win rate.
SkillMonotone == Of("rates") => SkillRewardsWinning(input.given)
\* copyability_score is monotone in the holding time.
CopyabilityMonotone == Of("rates") => LongerHoldCopiesBetter(input.given)
\* replay.rs never looks ahead.
ReplayNeverLooksAhead == Of("replay") => NoLookAhead(input.given)
\* paper_metrics takes the first known liquidity of each horizon.
PaperFirstKnown == Of("metrics") => MetricsAreFirstKnown(input.given)
\* No intent is submitted twice.
IntentsNeverResubmit == Of("intent") => IntentNeverResubmits(input.given)
\* The kill switch's exit-only rule and autonomy's first rung are the same trades.
SwitchesAgreeWithAutonomy == Of("action") => RiskClassesAgree(input.given)
\* No configuration weakens the frozen autonomy minimum.
AutonomyMinimum == Of("autonomy") => PermittedMeetsFrozenMinimum(input.given)
\* A source needs two good signals to be up.
HealthUpIsEarned == Of("health") => UpTakesTwoGoodSignals(input.given)
\* Provider selection depends neither on order nor on losers.
ProviderSelectionStable == Of("pool") => SelectionIgnoresOrder(input.given)
\* A live strategy passed shadow, paper, validation and approval.
StrategyGates == Of("stage") => LiveOnlyAfterShadowAndPaper(input.given)
\* Failure memory is no evidence for a revival.
RevivalEvidence == Of("revival") => MemoryIsNotEvidence(input.given)
\* Missing data never opens the entry gate.
GateFailsClosed == Of("entry") => MissingNeverHelps(input.given)
\* Contradicting or doubled results never approve a decision.
DecisionsNeedOneVoice == Of("decision") => DoubledResultsNeverApprove(input.given)
\* Correlation groups are connected components.
PortfolioGroups == Of("lines") => GroupsAreComponents(input.given)

\* What resolve_candidates relates is related: no spelling, weak edge, self
\* relation or copy of one source adds to it.
ResolverIsSound ==
  ResolverAliasesAgree /\ ResolverWeakEdges /\ ResolverNoSelfOrFactory /\ GroupsFollowCopies
\* The case repair merges duplicates without losing history, deliveries or keys.
RepairLosesNothing == RepairHistory /\ RepairSent /\ RepairKeys
\* The cost basis is the wallet's own money, once, in any order of delivery, and
\* the scores on top of it reward winning and holding.
ScoringIsExact ==
  BasisConserved /\ BasisOrderFree /\ BasisPerWallet /\ SkillMonotone /\ CopyabilityMonotone
\* A replay knows what was known then, and measures what came first after.
ReplayIsHonest == ReplayNeverLooksAhead /\ PaperFirstKnown
\* No intent is submitted twice, none is without an end; the exit-only rule and
\* autonomy class trades alike; no configuration lets autonomy act on less than the
\* frozen minimum; and no strategy is live that skipped a stage.
ExecutionIsBounded ==
  IntentsNeverResubmit /\ SwitchesAgreeWithAutonomy /\ AutonomyMinimum /\ StrategyGates
\* Doubt is refused: missing, stale, doubled or correlated input never counts in
\* favour of a source, a revival, an entry or a decision.
DoubtIsRefused ==
  /\ HealthUpIsEarned /\ ProviderSelectionStable /\ RevivalEvidence
  /\ GateFailsClosed /\ DecisionsNeedOneVoice /\ PortfolioGroups

\* A wallet that wins every trade reaches the skill an entry asks for.
SkillIsReachable == Of("history") => FlawlessWalletQualifies(input.given)
\* The matched cost of a token is at most what was paid for it.
FifoCostIsPaid == Of("history") => MatchedCostIsPaid(input.given)
\* The case repair leaves no duplicate identity behind.
RepairComplete == Of("repair") => RepairLeavesNoDuplicates(input.given)
=============================================================================
