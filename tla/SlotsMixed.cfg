\* Two threads with one name in common and one of their own each.
SPECIFICATION Spec
CONSTANTS
  t1 = t1
  t2 = t2
  n1 = n1
  n2 = n2
  n3 = n3
  Absent = Absent
  Null = Null
  Threads <- TwoThreads
  Names <- ThreeNames
  Uses <- Mixed
  MaxCalls = 2
  AbortsOnRace = TRUE
INVARIANTS TypeOK NameIsolation
\* The system stops when every thread has made its calls, or on a fault.
CHECK_DEADLOCK FALSE
