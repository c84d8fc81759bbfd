\* An application that has an object in use and ends its Connection.
SPECIFICATION FairShutdown
CONSTANTS
  c1 = c1
  Destructor = Destructor
  Sender = Sender
  Free = Free
  Clients <- TwoClients
  MaxSends = 1
  MaxHandles = 1
  SocketCap = 1
  MaxSpurious = 0
  Closes = TRUE
PROPERTIES HandlesReleased
\* The system stops when the threads have ended.
CHECK_DEADLOCK FALSE
