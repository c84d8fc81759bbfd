\* Two threads make one call each under the same slot name.
SPECIFICATION Spec
CONSTANTS
  t1 = t1
  t2 = t2
  n1 = n1
  n2 = n2
  n3 = n3
  Absent = Absent
  Null = Null
  Threads <- TwoThreads
  Names <- ThreeNames
  Uses <- Shared
  MaxCalls = 1
  AbortsOnRace = TRUE
INVARIANTS OwnReply
\* The system stops when every thread has made its calls, or on a fault.
CHECK_DEADLOCK FALSE
