\* The host restores a revision after the daemon acknowledged it and after the
\* next revision was saved.
SPECIFICATION Spec
CONSTANTS
  MaxRevision = 2
  MaxTime = 0
  NonceLifetime = 2
  LeaseLifetime = 1
  ClockSkew = 0
  Requests <- MCApprovalRequests
  Effects <- MCEffects
  Profiles <- MCNoProfiles
  Modes = {1}
  SupportedSets <- MCAllActions
  Services = {s1}
  Startups = {d1}
  OperationIds = {o1}
  ReceiptIds = {k1, k2, k3}
  NoService = NoService
  NoStartup = NoStartup
SYMMETRY Symmetry
VIEW View
INVARIANTS
  RestoredSnapshotNeverAuthorizes
CHECK_DEADLOCK FALSE
