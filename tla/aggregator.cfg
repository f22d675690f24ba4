SPECIFICATION FairSpec
CONSTANTS
  Clients <- MCClients
  Cmdlines <- MCCmdlines
  Argvs <- MCArgvs
  Broken <- MCBroken
  MaxStarting = 2
INVARIANTS
  RunsHeldArgv
  TunnelEndsMeet
PROPERTIES
  StartsWhileUp
CHECK_DEADLOCK FALSE
