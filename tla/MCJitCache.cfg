CONSTANTS
  p1 = p1
  p2 = p2
  n1 = n1
  n2 = n2
  k1 = k1
  Processes = {p1, p2}
  Nodes = {n1, n2}
  Keys = {k1}
  NodeOf <- MCNodeOf
  Calls <- MCCalls
  Dumping = {p2}
  MaxCalls = 2
  MaxFaults = 2
  NoDir = NoDir
SPECIFICATION FairSpec
INVARIANTS CacheComplete NoFalseAlarm
PROPERTIES Immutable CallsReturn
