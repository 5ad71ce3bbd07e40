\* The two readers against every handler, each in its own scope.
SPECIFICATION ReadSpec
CONSTANTS
  MaxRevision = 2
  MaxTime = 1
  NonceLifetime = 1
  LeaseLifetime = 1
  ClockSkew = 0
  Requests <- MCGateRequests
  Effects <- MCEffects
  Profiles <- MCNoProfiles
  Modes = {1}
  SupportedSets <- MCAllActions
  Services = {s1}
  Startups = {d1}
  OperationIds = {o1}
  ReceiptIds = {k1, k2, k3}
  NoService = NoService
  NoStartup = NoStartup
  MaxAttempts = 2
  Readers = {"state", "gate"}
VIEW View
CONSTRAINT Scope
PROPERTIES
  ReadIsOneMoment
  ReaderExpiresOnlyLapsed
  GateAnswerWasTrue
CHECK_DEADLOCK FALSE
