SPECIFICATION Spec
CONSTANTS
  r1 = r1  r2 = r2  r3 = r3
  n1 = n1  n2 = n2
  f1 = f1  f2 = f2  f3 = f3
  Requests = {r1, r2, r3}
  Names = {n1, n2}
  Forwarders = {f1, f2}
  NameOf <- MCNameOf
  RootNames = {n2}
  Route <- MCRoute
  Txids = {1, 2}
  ChannelsPerForwarder = 1
  MaxTasks = 3
  MaxWaiters = 2
  UdpMultipleForwarding = 2
  Timeout = 1
  MaxTransactions = 2
  MaxTcpTasks = 0
INVARIANTS
  PendingIffInFlight
  IndexesAgree
  WaitersAreReachable
  AtMostOneReply
  ChannelLoadExact
PROPERTIES
  ImplementsService
SYMMETRY MCSymmetry
