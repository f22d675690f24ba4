SPECIFICATION FairSpec
CONSTANTS
  s1 = s1
  s2 = s2
  eth0 = eth0
  wlan0 = wlan0
  Srcs = {s1}
  Ifaces = {eth0}
  IfnameOf <- OneWan
  RouteThreads = {t1, t2}
  IfaceThread = ifaces
  HelloThreads = {}
  None = None
  TunnelId = 1
  SlotSpan = 0
  SlotLimit = 100
  g_mux_max = 1
  g_use_consistent_hashing = TRUE
  MaxConns = 2
PROPERTIES
  RouteGetsConnected
  FailedMemberLeaves
  DefaultRouteFollows
  LockReleased
