\* An administrator against a watch: safety and liveness.
SPECIFICATION FairSpec
CONSTANTS
  Null = Null
  slow = slow
  fast = fast
  Default = slow
  Runtimes <- MCRuntimes
  Days <- MCDays
  Installed <- MCInstalled
  Admins = {a1}
  Calls = {c1}
  Requests <- MCRequests
  Edits = {0, 1}
  Links = {"connect"}
  Moves = {}
  Refusals = {}
  MaxAttempts = 2
  MaxRevision = 2
PROPERTIES
  WatcherServed
CHECK_DEADLOCK FALSE
