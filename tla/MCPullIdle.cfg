CONSTANTS
  NumSMs = 3
  BlockM = 2
  MaxRanks = 1
  Setups <- IdleSetups
  Searches = {}
SPECIFICATION FairSpec
PROPERTIES LaunchesComplete
\* The launch may stop for ever: that is what the run shows.
CHECK_DEADLOCK FALSE
