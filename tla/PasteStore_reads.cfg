\* Two reads of a version with one read left, which is replaced, and the sweep.
SPECIFICATION Spec
CONSTANTS
  w1 = w1
  w2 = w2
  d1 = d1
  r1 = r1
  r2nd = r2nd
  Direct <- MCTwo
  Multipart <- MCNoWrite
  Deletes <- MCNoWrite
  Readers <- MCReaders
  None = None
  Limited <- MCOne
  Limit = 1
  Lifetime = 3
  Grace = 3
  Staleness = 1
  RequestSpan = 1
  LostAcks = FALSE
  Horizon = 4
  LastInstant = 6
INVARIANTS
  TypeOK
  FoundDirectVersionIsServed
\* requests and the clock stop at their bounds
CHECK_DEADLOCK FALSE
