\* An application that may end its Connection at any time.
SPECIFICATION FairShutdown
CONSTANTS
  c1 = c1
  Destructor = Destructor
  Sender = Sender
  Free = Free
  Clients <- TwoClients
  MaxSends = 3
  MaxHandles = 2
  SocketCap = 1
  MaxSpurious = 1
  Closes = TRUE
INVARIANTS FrontOfNonEmpty WelcomeFirst SleepsOnlyWhenEmpty AtMostOneMore
PROPERTIES ImplementsChannel Delivered SendReturns InterruptEndsWait
\* The system stops when the threads have ended.
CHECK_DEADLOCK FALSE
