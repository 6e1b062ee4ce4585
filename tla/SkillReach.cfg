SPECIFICATION AlgSpec
CONSTANTS
  ResolverInputs <- MCResolverInputs
  CitationInputs <- MCCitationInputs
  StoreInputs <- MCStoreInputs
  SwapInputs <- MCSwapInputs
  RateInputs <- MCRateInputs
  TradeInputs <- MCTradeInputs
  ReplayInputs <- MCReplayInputs
  MetricInputs <- MCMetricInputs
  ActionInputs <- MCActionInputs
  AutonomyInputs <- MCAutonomyInputs
  HealthInputs <- MCHealthInputs
  PoolInputs <- MCPoolInputs
  RevivalInputs <- MCRevivalInputs
  EntryInputs <- MCEntryInputs
  DecisionInputs <- MCDecisionInputs
  LineInputs <- MCLineInputs
CHECK_DEADLOCK FALSE
INVARIANT SkillIsReachable
