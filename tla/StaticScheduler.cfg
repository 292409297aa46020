CONSTANTS
  NumSMs = 2
  NumExperts = 4
  PerWave = 2
  NumL1BlockNs = 3
  NumL2BlockNs = 2
  BlockM = 2
  MaxTokens = 3
SPECIFICATION FairSpec
INVARIANTS InTurn PoolBlockRight
PROPERTIES LaunchEnds
