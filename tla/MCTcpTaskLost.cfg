SPECIFICATION Spec
CONSTANTS
  Fds = {3, 4, 5}
  None = None
  Listeners = {l4}
  MaxTasks = 3
  MaxTcpClients = 2
  Timeout = 1
  Pause = 1
INVARIANTS
  ClientsAreOwned
CHECK_DEADLOCK FALSE
