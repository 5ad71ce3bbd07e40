\* A service that may be converted to another user, agents that support
\* different host actions, two services, and the ordinary track's profile.
SPECIFICATION Spec
CONSTANTS
  MaxRevision = 2
  MaxTime = 0
  NonceLifetime = 1
  LeaseLifetime = 1
  ClockSkew = 0
  Requests <- MCIdentityRequests
  Effects <- MCEffects
  Profiles <- MCProfiles
  Modes = {1, 2}
  SupportedSets <- MCSomeActions
  Services = {s1, s2}
  Startups = {d1, d2}
  OperationIds = {o1}
  ReceiptIds = {k1, k2}
  NoService = NoService
  NoStartup = NoStartup
SYMMETRY Symmetry
VIEW View
INVARIANTS
  TypeOK
PROPERTIES
  ProfileFollowsAcknowledgement
CHECK_DEADLOCK FALSE
