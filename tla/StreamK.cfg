CONSTANTS
  NumSMs = 3
  NumMBlocks = 1
  NumL1BlockNs = 2
  NumL2BlockNs = 2
  L1Units = 1
  L2Units = 4
  KBlocksPerStage = 1
  L1PerL2KBlock = 1
  L2KPerL1Block = 2
  Lookahead = 2
SPECIFICATION FairSpec
INVARIANTS SlotsHold SegmentsAgree SlotsApart TilesOnce
PROPERTIES LaunchEnds
