SPECIFICATION MCSpec
CONSTANTS
  p1 = p1
  p2 = p2
  w1 = w1
  w2 = w2
  Workers = {p1, p2}
  Workspaces = {w1}
  ScopeOf <- MCScopeOf
  Anchor <- MCAnchor
  Target <- MCTarget
  Relations <- MCRelations
  MissingSets <- MCMissing
  LegacyFacts <- MCLegacy
  Retractions <- MCRetractions
  RefreshSeconds = 2
  WindowSeconds = 0
  MaxClock = 2
  MaxChanges = 2
PROPERTY ChangedIsPublishedAtOnce
