CONSTANTS
  NumSMs = 2
  BlockM = 2
  MaxRanks = 2
  Setups <- MCSetups
  Searches <- AllSearches
SPECIFICATION FairSpec
INVARIANTS SourceRight BlocksHold AllLoaded
PROPERTIES LaunchesComplete
