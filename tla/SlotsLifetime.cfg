\* One thread makes one call: the Future and the receiver that wakes it.
SPECIFICATION Spec
CONSTANTS
  t1 = t1
  t2 = t2
  n1 = n1
  n2 = n2
  n3 = n3
  Absent = Absent
  Null = Null
  Threads <- OneThread
  Names <- ThreeNames
  Uses <- Alone
  MaxCalls = 1
  AbortsOnRace = TRUE
INVARIANTS NotifiesLiveFuture
\* The system stops when every thread has made its calls, or on a fault.
CHECK_DEADLOCK FALSE
