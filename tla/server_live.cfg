SPECIFICATION WarmFairSpec
CONSTANTS
  Convids = {10}
  Addrs = {pub}
  PrivateAddrs = {}
  None = None
  g_use_consistent_hashing = TRUE
  MaxConns = 3
INVARIANTS
  RegisteredIsRead
  OneClient
PROPERTIES
  SilentMemberRemoved
  ReaderEnds
