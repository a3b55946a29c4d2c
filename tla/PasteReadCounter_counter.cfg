\* Any interleaving of requests, alarms and crashes of one counter.
SPECIFICATION FairSpec
CONSTANTS
  Limit <- MCLimit
  ExpiresAt <- MCExpiresAt
  OriginalExpiresAt <- MCOriginalExpiresAt
  Horizon <- MCHorizon
INVARIANTS
  TypeOK
  OpenVersionIsCounted
  TombstoneHolds
PROPERTIES
  ImplementsAllowance
  StorageIsReclaimed
\* the clock stops at the bound
CHECK_DEADLOCK FALSE
