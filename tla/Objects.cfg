\* One object that two threads receive and one that a single thread receives.
SPECIFICATION FairSpec
CONSTANTS
  t1 = t1
  t2 = t2
  g1 = g1
  g2 = g2
  o1 = o1
  None = None
  Receiver = Receiver
  Threads <- TwoThreads
  Oids <- TwoOids
  Owned <- OneOwned
  Wraps <- Partly
  MaxWraps = 2
INVARIANTS InUseUnlessReplaced PrivateInUse ReceiverNeverWaits
PROPERTIES ReleasesComplete
\* The system stops when every thread is done, or on a fault.
CHECK_DEADLOCK FALSE
