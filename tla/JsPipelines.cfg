\* A source of three chunks, a Transform that adds one, and a destination with
\* room for one: answers at once, later or with an error, and one destroy() by
\* user code on any of the three, with an error or without.
SPECIFICATION Spec
CONSTANTS
  src = src
  mid = mid
  dst = dst
  Readers = {src, mid}
  Writers = {mid, dst}
  Transforms = {mid}
  CustomFinal = {dst}
  CustomDestroy = {}
  Hwm <- MCHwm
  Chain <- MCChain
  Total = 3
  Trailer = TRUE
  Answers = {"now", "later", "fail"}
  Aborts <- MCAborts
  Watched = {dst}
INVARIANTS
  SuccessIsComplete
  FailureDestroysAll
PROPERTIES
  PipelineSettles
CHECK_DEADLOCK FALSE
