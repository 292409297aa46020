CONSTANTS
  NumRanks = 2
  NumSMs = 2
  DoneMod = 7
  MaxBarriers = 12
  Setups <- MCSetups
SPECIFICATION FairSpec
INVARIANTS NoEarlyReturn
PROPERTIES ImplementsBarrier RanksEnd
