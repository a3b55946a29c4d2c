\* A restart strands the slot of a paired receiver.
SPECIFICATION Spec
CONSTANTS
  p1 = p1
  p2 = p2
  Peers <- MCPeers
  SenderRole = SenderRole
  Nobody = Nobody
  HeartbeatInterval = 1
  HeartbeatTimeout = 3
  ReconnectGrace = 1
  Limits <- MCOneSlot
  Windows <- MCOneWindow
  MaxConnections = 3
  MaxInits = 1
  MaxRestarts = 1
  Horizon = 2
  LastInstant = 2
  HibernateWhileClosing = FALSE
SYMMETRY PeerSymmetry
INVARIANTS
  NoStrandedSlot
\* the clock and the connections stop at their bounds
CHECK_DEADLOCK FALSE
