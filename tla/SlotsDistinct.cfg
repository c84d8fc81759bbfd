\* Two threads, no shared names, three calls each.
SPECIFICATION FairSpec
CONSTANTS
  t1 = t1
  t2 = t2
  n1 = n1
  n2 = n2
  n3 = n3
  Absent = Absent
  Null = Null
  Threads <- TwoThreads
  Names <- ThreeNames
  Uses <- Distinct
  MaxCalls = 3
  AbortsOnRace = TRUE
INVARIANTS OwnReply SlotsHeld NoSlotLeak SetWritesLiveFuture
PROPERTIES SetOnce ImplementsRpc CallsReturn
\* The system stops when every thread has made its calls, or on a fault.
CHECK_DEADLOCK FALSE
