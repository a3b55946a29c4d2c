\* Two receivers, one slot that may be opened to everybody.  The object sleeps
\* and crashes, also in the middle of a release.
SPECIFICATION Spec
CONSTANTS
  p1 = p1
  p2 = p2
  Peers <- MCPeers
  SenderRole = SenderRole
  Nobody = Nobody
  HeartbeatInterval = 1
  HeartbeatTimeout = 3
  ReconnectGrace = 2
  Limits <- MCLimits
  Windows <- MCWindows
  MaxConnections = 3
  MaxInits = 1
  MaxRestarts = 1
  Horizon = 2
  LastInstant = 3
  HibernateWhileClosing = TRUE
SYMMETRY PeerSymmetry
INVARIANTS
  TypeOK
  DeadlineHasAlarm
  CountsCoverMembers
  OneLiveSocketPerRole
PROPERTIES
  ImplementsSlots
  SlotKeptUnlessOverdue
\* the clock and the connections stop at their bounds
CHECK_DEADLOCK FALSE
