\* One stream and user code that makes four calls, from anywhere.
SPECIFICATION Spec
CONSTANTS
  r = r
  w = w
  Readers = {r}
  Writers = {w}
  Transforms = {}
  CustomFinal = {w}
  CustomDestroy = {w}
  Hwm <- MCHwm
  Uses = {"data", "read", "iterate", "write"}
  CallsInFailure = FALSE
  Answers = {"now", "later", "fail", "empty"}
  Total = 2
  MaxCalls = 4
INVARIANTS
  ChunksConserved
  EndIsComplete
  WritesKeepOrder
  CallbacksAreTruthful
  LifecycleOrder
PROPERTIES
  ReaderGoesOn
  WriterGoesOn
CHECK_DEADLOCK FALSE
