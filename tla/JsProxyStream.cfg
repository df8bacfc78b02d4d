CONSTANTS
  Inputs <- InputsHere
  Outputs <- OutputsHere
  Buffers = {1, 2}
SPECIFICATION StreamSpec
INVARIANTS FailureReported SocketReleased
PROPERTIES ImplementsPipes ReadsEnd
CHECK_DEADLOCK FALSE
