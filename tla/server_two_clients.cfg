SPECIFICATION Spec
CONSTANTS
  Convids = {10, 11}
  Addrs = {pub}
  PrivateAddrs = {}
  None = None
  g_use_consistent_hashing = TRUE
  MaxConns = 2
INVARIANT OneClient
