SPECIFICATION Spec
CONSTANTS
  Convids = {10, 11}
  Addrs = {pub}
  PrivateAddrs = {}
  None = None
  g_use_consistent_hashing = FALSE
  MaxConns = 2
INVARIANTS
  TypeOK
  RingMatchesTable
  TableEntriesUsable
  TunSpawnedOnce
PROPERTY ImplementsTables
