\* The file is replaced while a receiver connects: two downloads on one channel.
SPECIFICATION Spec
CONSTANTS
  Sizes <- TwoVersions
  Verified = {}
  Window = 2
  AckInterval = 1
  CheckpointInterval = 1
  MaxRetries = 1
  MaxRepairs = 1
  LateAnswers = FALSE
  Overlaps = FALSE
  MaxLinks = 2
  MaxClicks = 0
  MaxFaults = 0
INVARIANTS
  CompletedFileIsExact
\* the transfer ends at a bound or when both are idle
CHECK_DEADLOCK FALSE
