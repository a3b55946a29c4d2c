\* A transfer of two parts and a file of its own, to a camera or from files, with one
\* failure and one interruption.
SPECIFICATION FairSpec
CONSTANTS
  w1 = w1
  Count = 2
  Streams <- MCStreams
  Workers <- MCWorkers
  Symbols = 2
  EarlySwitch = FALSE
  MaxInFlight = 2
  MaxDetours = 1
  MaxFaults = 1
INVARIANTS
  NothingLeaked
  ReceivedIsPersisted
  QuietBetweenAttempts
  DoneIsReceived
PROPERTIES
  WholeApngIsRead
  PartsAreKept
  ReceiverReturns
\* the page is left, or the user does nothing more
CHECK_DEADLOCK FALSE
