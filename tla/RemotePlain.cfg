\* The types that Serialize writes, two calls under way.
SPECIFICATION Spec
CONSTANTS
  None = None
  Write <- WireWrite
  Read <- WireRead
  Items <- WireItems
  Class <- Plain
  Passed <- PlainArgs
  Result <- PlainResults
  MaxCalls = 2
INVARIANTS InStep ArgumentsArrive ResultsReturn TypedCallsAreSent CallsAnswered SlotsOwned RoundTrip
\* The system stops when A has made its calls.
CHECK_DEADLOCK FALSE
