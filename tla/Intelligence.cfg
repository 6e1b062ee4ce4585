SPECIFICATION IntelligenceSpec
CONSTANTS
  p1 = p1
  p2 = p2
  w1 = w1
  w2 = w2
  Workers = {p1, p2}
  Workspaces = {w1}
  ScopeOf <- MCScopeOf
  Anchor <- MCAnchor
  Target <- MCTarget
  Relations <- MCRelations
  MissingSets <- MCMissing
  LegacyFacts <- MCLegacy
  Retractions <- MCRetractions
  RefreshSeconds = 2
  WindowSeconds = 0
  MaxClock = 2
  MaxChanges = 2
  ResolverInputs <- MCResolverInputs
  CitationInputs <- MCCitationInputs
  StoreInputs <- MCStoreInputs
  SwapInputs <- MCSwapInputs
  RateInputs <- MCRateInputs
  TradeInputs <- MCTradeInputs
  ReplayInputs <- MCReplayInputs
  MetricInputs <- MCMetricInputs
  ActionInputs <- MCActionInputs
  AutonomyInputs <- MCAutonomyInputs
  HealthInputs <- MCHealthInputs
  PoolInputs <- MCPoolInputs
  RevivalInputs <- MCRevivalInputs
  EntryInputs <- MCEntryInputs
  DecisionInputs <- MCDecisionInputs
  LineInputs <- MCLineInputs
CHECK_DEADLOCK FALSE
INVARIANTS
    FactsAreStoredOnce
    ResolverIsSound
    RepairLosesNothing
    ScoringIsExact
    ReplayIsHonest
    ExecutionIsBounded
    DoubtIsRefused
PROPERTIES
    ViewsAreHonest
    CoverageConverges
