\* Types that the proxies misreport or that Serialize does not write.
SPECIFICATION Spec
CONSTANTS
  None = None
  Write <- WireWrite
  Read <- WireRead
  Items <- WireItems
  Class <- Overlooked
  Passed <- OverlookedArgs
  Result <- OverlookedResults
  MaxCalls = 1
INVARIANTS ReportedTypesAreTaken
\* The system stops when A has made its calls.
CHECK_DEADLOCK FALSE
