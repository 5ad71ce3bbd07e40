\* An object that is opened twice, for a login or for another request, with
\* listeners before or after open(), and a fetch().
SPECIFICATION Spec
CONSTANTS
  Objects = {o1}
  Fetches = {f1}
  MaxOpens = 2
INVARIANTS
  NavigationIsEarned
  SuccessIsHidden
PROPERTIES
  AttemptEnds
CHECK_DEADLOCK FALSE
