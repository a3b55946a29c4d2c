\* One version, not verified: the link breaks, the page reloads, the user pauses,
\* resumes and stops, and the sender answers before the receiver goes on.
SPECIFICATION FairSpec
CONSTANTS
  Sizes <- OneVersion
  Verified = {}
  Window = 2
  AckInterval = 1
  CheckpointInterval = 1
  MaxRetries = 1
  MaxRepairs = 1
  LateAnswers = FALSE
  Overlaps = FALSE
  MaxLinks = 2
  MaxClicks = 2
  MaxFaults = 1
INVARIANTS
  TypeOK
  CompletedFileIsExact
  BoundedBacklog
PROPERTIES
  TransferSettles
\* the transfer ends at a bound or when both are idle
CHECK_DEADLOCK FALSE
