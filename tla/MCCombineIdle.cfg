CONSTANTS
  NumSMs = 2
  RingSize = 1
  SeqMod = 3
  FirstSeq = 1
  Tasks = {"k1", "k2"}
  MaxLaunches = 2
  MaxRanks = 2
  MaxWarps = 2
  Setups <- IdleSetups
SPECIFICATION FairSpec
INVARIANTS EpochReadBeforeBump
