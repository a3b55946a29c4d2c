\* The sender replaces the file twice; all versions are verified and blocks repaired.
SPECIFICATION Spec
CONSTANTS
  Sizes <- ThreeVersions
  Verified <- AllVersions
  Window = 2
  AckInterval = 1
  CheckpointInterval = 1
  MaxRetries = 1
  MaxRepairs = 1
  LateAnswers = TRUE
  Overlaps = FALSE
  MaxLinks = 2
  MaxClicks = 1
  MaxFaults = 1
INVARIANTS
  VerifiedFileIsWhole
  CheckpointIsDurable
  VersionIsRetained
\* the transfer ends at a bound or when both are idle
CHECK_DEADLOCK FALSE
