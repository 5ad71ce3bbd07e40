\* A file of three chunks is copied; any call of fs may fail, and user code may
\* call destroy() on either stream, with an error or without.
SPECIFICATION CopySpec
CONSTANTS
  src = src
  mid = mid
  dst = dst
  Readers = {src}
  Writers = {dst}
  Transforms = {}
  CustomFinal = {dst}
  CustomDestroy = {src, dst}
  Hwm <- MCHwm
  Chain <- MCChain
  Total = 3
  Trailer = FALSE
  Answers = {}
  Aborts <- MCAborts
  Watched = {}
  Faults = {"fs.open", "fs.read", "fs.write"}
  PipedLate = FALSE
INVARIANTS
  FinishedCopyIsExact
  FsCallsTakeTurns
PROPERTIES
  CopyEnds
CHECK_DEADLOCK FALSE
