\* Two threads that use the API of one Connection.
SPECIFICATION FairSpec
CONSTANTS
  t1 = t1
  t2 = t2
  w1 = w1
  w2 = w2
  w3 = w3
  w4 = w4
  None = None
  Threads <- TwoThreads
  Workers <- FourWorkers
  Names <- AllNames
  Calls <- Program
  FirstIds <- FirstObjectIDs
INVARIANTS TypeOK OwnAnswer SlotsAgree OnlySameQuestionsClash ClassesStored ObjectsFound RunsOnObject
PROPERTIES CallsReturn
\* The system stops when every thread is done, or on a fault.
CHECK_DEADLOCK FALSE
