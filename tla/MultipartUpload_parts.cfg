\* An upload whose parts are sent two at a time, with every request lost,
\* late or cancelled at any moment.
SPECIFICATION FairSpec
CONSTANTS
  PartSize = 5
  HeaderSize = 2
  TagSize = 1
  MaxSize = 14
  Uploads <- MCUploads
  Concurrency = 2
INVARIANTS
  TypeOK
  PublishedIsWhole
  CompletionIsAccepted
PROPERTIES
  NothingSentAfterRelease
  UploadIsReleased
  UploadEnds
\* An upload ends.
CHECK_DEADLOCK FALSE
