SPECIFICATION Spec
CONSTANTS
  MaxConvid = 2
  Flows <- MCFlows
  MaxPackets = 2
  MaxJoins = 3
INVARIANTS
  BothWays
PROPERTY InOrder
CHECK_DEADLOCK FALSE
