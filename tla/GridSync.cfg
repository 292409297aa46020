CONSTANTS
  NumSMs = 4
  FinishSumTag = 4
  MaxSyncs = 4
SPECIFICATION FairSpec
INVARIANTS NoEarlyReturn WordReusable
PROPERTIES ImplementsBarrier
