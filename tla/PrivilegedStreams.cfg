\* Two handlers, other processes, an ordinary stream and a rescue stream. No
\* symmetry: the run checks liveness too.
SPECIFICATION WatchSpec
CONSTANTS
  MaxSequence = 2
  MaxAttempts = 2
  Writers = {h1, h2}
  Watchers = {w1, w2}
  Rescue = {w2}
INVARIANTS
  NoLostWakeup
  AtMostOneLateMessage
PROPERTIES
  WatcherCatchesUp
  RevokedStreamEnds
