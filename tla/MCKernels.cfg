CONSTANTS
  Kernels <- MCKernels
SPECIFICATION FairSpec
INVARIANTS OperandsHold ReadsRight PeersAlive ResultsRight
PROPERTIES KernelsEnd
