\* An administrator against the calls of a Connect agent or of a v2 agent.
SPECIFICATION Spec
CONSTANTS
  Null = Null
  slow = slow
  fast = fast
  Default = slow
  Runtimes <- MCRuntimes
  Days <- MCDays
  Installed <- MCInstalled
  Admins = {a1}
  Calls = {c1}
  Requests <- MCRequests
  Edits = {1}
  Links = {"connect", "v2", "offline"}
  Moves <- MCMoves
  Refusals = {"failed"}
  MaxAttempts = 2
  MaxRevision = 2
INVARIANTS
  RevisionMeaning
  AppliedWasRun
PROPERTIES
  DeliveryStaysClosed
CHECK_DEADLOCK FALSE
