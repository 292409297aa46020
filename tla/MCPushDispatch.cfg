CONSTANTS
  NumRanks = 2
  NumSMs = 2
  NumExperts = 1
  NumRows = 2
  Routings <- MCRoutings
  FirstEpoch = 4
  MaxLaunches = 2
  DoneMod = 5
SPECIFICATION FairSpec
INVARIANTS PoolMatchesCounts CleanAtStart
PROPERTIES LaunchesComplete
