\* Two revisions, two host operations and three reports; an approval stands
\* for three ticks and a lease for two.  No change of identity.
SPECIFICATION Spec
CONSTANTS
  MaxRevision = 2
  MaxTime = 3
  NonceLifetime = 3
  LeaseLifetime = 2
  ClockSkew = 0
  Requests <- MCApprovalRequests
  Effects <- MCEffects
  Profiles <- MCNoProfiles
  Modes = {1}
  SupportedSets <- MCAllActions
  Services = {s1}
  Startups = {d1}
  OperationIds = {o1, o2}
  ReceiptIds = {k1, k2, k3}
  NoService = NoService
  NoStartup = NoStartup
SYMMETRY Symmetry
VIEW View
INVARIANTS
  ApprovalClaimedOnce
  AppliedWasApprovedAndDone
  RestoredDesiredDenied
PROPERTIES
  HostWorkInsideApproval
  NoLateAcknowledgement
  ReapprovalOnlyAfterLapse
  CursorCoversSnapshot
  ImplementsTrack
CHECK_DEADLOCK FALSE
