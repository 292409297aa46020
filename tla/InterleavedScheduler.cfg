CONSTANTS
  NumSMs = 2
  NumMBlocks = 1
  NumL1BlockNs = 3
  NumL2BlockNs = 3
  NumL1KSplits = 2
  NumL2KSplits = 2
  MaxSplitKPoolBlocks = 1
  NumStages = 2
  L1KStages = 2
  L2KStages = 3
  KBlocksPerStage = 1
  L1PerL2KBlock = 1
  L2KPerL1Block = 1
SPECIFICATION FairSpec
INVARIANTS EveryTaskOnce NoL1BehindItsReader PayloadRead MaskMeansComplete FlagsReset
PROPERTIES LaunchEnds
