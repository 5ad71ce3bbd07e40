\* Two requests of one object, four calls of open() and abort().  The
\* handlers that run while the body is accepted do not call the object.
SPECIFICATION Spec
CONSTANTS
  MaxSends = 2
  MaxCalls = 4
  Modes = {TRUE, FALSE}
  Timeouts = {TRUE, FALSE}
  Reentrant = {"unsent", "opened", "headers", "done", "loadstart",
               "load", "error", "abort", "timeout", "loadend"}
INVARIANTS
  OneOutcome
  ResponseIsOfLastRequest
PROPERTIES
  SendSettles
CHECK_DEADLOCK FALSE
