\* Two receivers and one slot, past every deadline: slots and rooms are given back.
SPECIFICATION FairSpec
CONSTANTS
  p1 = p1
  p2 = p2
  Peers <- MCPeers
  SenderRole = SenderRole
  Nobody = Nobody
  HeartbeatInterval = 1
  HeartbeatTimeout = 3
  ReconnectGrace = 1
  Limits <- MCOneSlot
  Windows <- MCOneWindow
  MaxConnections = 3
  MaxInits = 1
  MaxRestarts = 0
  Horizon = 2
  LastInstant = 5
  HibernateWhileClosing = FALSE
INVARIANTS
  RoomIsWatched
PROPERTIES
  SlotIsSettled
  ExpiredRoomIsDeleted
  SilentSocketIsClosed
\* the clock and the connections stop at their bounds
CHECK_DEADLOCK FALSE
