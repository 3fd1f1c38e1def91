SPECIFICATION Spec
CONSTANTS
  MaxSeq = 3
  MaxInflight = 2
  Budget = 2
  MaxRuns = 2
  MaxBreaks = 1
  W = 2
  EveryN = 2
  MaxStarts = 3
  Total = 2
  MaxFailures = 2
  MaxIncidents = 1
  MaxChain = 4
  MaxTimes = 4
INVARIANTS SuccessIsComplete ResendsExact PassedIsTrue NeverLeftPaused VerifierAgrees SeriesExact
PROPERTIES MainReturns ImplementsExactlyOnce CampaignEnds
CHECK_DEADLOCK FALSE
