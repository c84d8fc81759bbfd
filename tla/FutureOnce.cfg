\* Three threads call Get, one calls Set once.
SPECIFICATION FairSpec
CONSTANTS
  r1 = r1
  r2 = r2
  r3 = r3
  Setter = Setter
  Free = Free
  Absent = Absent
  Torn = Torn
  Readers <- ThreeReaders
  MaxSets = 1
  MaxSpurious = 1
INVARIANTS NoTornRead WakeInv
PROPERTIES ImplementsPromise GetsReturn
\* The system stops when every reader has its value.
CHECK_DEADLOCK FALSE
