SPECIFICATION Spec
CONSTANTS
  Clients <- MCClients
  AllowClients <- MCAllow
  Loopback <- MCLoopback
  NoPrefix = NoPrefix
  ByteBits = 2
  Qps = 1
  Burst = 3
  Second = 2
  MaximumClients = 2
  CleanupInterval = 2
  IdleTime = 1
  NoCall = NoCall
  NoWindow = NoWindow
  Horizon = 5
INVARIANTS
  WindowBounded
  OnlyActiveClientsKeepOut
  AdmittedAreListed
CHECK_DEADLOCK FALSE
