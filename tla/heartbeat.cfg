SPECIFICATION Spec
CONSTANTS
  PingEvery = 4
  Recycle = 14
  MaxHello = 10
  ReadDeadline = 10
  g_client_max_rxtimeouts = 2
  MaxStall = 4
  MaxDelay = 2
  TenSeconds = 20
INVARIANTS
  TypeOK
  HealthyStays
  SilentGoneInTime
