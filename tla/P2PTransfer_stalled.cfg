\* The sender may learn late that its answer was taken: a download it ignored.
SPECIFICATION FairSpec
CONSTANTS
  Sizes <- OneVersion
  Verified = {}
  Window = 2
  AckInterval = 1
  CheckpointInterval = 1
  MaxRetries = 1
  MaxRepairs = 1
  LateAnswers = TRUE
  Overlaps = FALSE
  MaxLinks = 2
  MaxClicks = 0
  MaxFaults = 0
PROPERTIES
  TransferSettles
\* the transfer ends at a bound or when both are idle
CHECK_DEADLOCK FALSE
