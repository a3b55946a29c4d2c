\* Writes that fail or are acknowledged late, while the sweep runs to its end.
SPECIFICATION FairSpec
CONSTANTS
  w1 = w1
  w2 = w2
  d1 = d1
  r1 = r1
  r2nd = r2nd
  Direct <- MCOne
  Multipart <- MCOther
  Deletes <- MCDeletes
  Readers <- MCNoWrite
  None = None
  Limited <- MCOne
  Limit = 1
  Lifetime = 3
  Grace = 3
  Staleness = 1
  RequestSpan = 1
  LostAcks = TRUE
  Horizon = 2
  LastInstant = 9
INVARIANTS
  LiveObjectPresent
  RetiredIsReplaced
PROPERTIES
  OrphanIsReclaimed
\* requests and the clock stop at their bounds
CHECK_DEADLOCK FALSE
