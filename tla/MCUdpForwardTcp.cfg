SPECIFICATION Spec
CONSTANTS
  r1 = r1  r2 = r2  r3 = r3
  n1 = n1  n2 = n2
  f1 = f1  f2 = f2  f3 = f3
  Requests = {r1, r2, r3}
  Names = {n1}
  Forwarders = {f1, f2, f3}
  NameOf <- MCNameOfOne
  RootNames = {}
  Route <- MCRouteOne
  Txids = {1}
  ChannelsPerForwarder = 1
  MaxTasks = 2
  MaxWaiters = 2
  UdpMultipleForwarding = 3
  Timeout = 1
  MaxTransactions = 2
  MaxTcpTasks = 1
INVARIANTS
  WithinCapacity
PROPERTIES
  OwnFailureNeverMasksAnswer
SYMMETRY MCSymmetryOne
