------------------------------ MODULE P2PRoom ------------------------------
(***************************************************************************)
(* The signaling room of a P2P transfer: a Durable Object                  *)
(* (worker/p2p/room.ts) that admits one sender and its receivers over      *)
(* hibernatable WebSockets, stores who holds a slot (RoomMembership) and   *)
(* keeps one alarm for the heartbeat, the receivers' reconnect grace and   *)
(* the room's expiry.  worker/p2p.ts creates and updates rooms.            *)
(*                                                                         *)
(* One action is one event of the object.  The platform delivers no event  *)
(* while a handler awaits its storage (input gates), so a handler is       *)
(* atomic except where it awaits something else: a connecting socket is    *)
(* accepted (SenderConnect, ReceiverConnect) and, after the TURN           *)
(* credentials were fetched, announced (FinishConnect).  An alarm is       *)
(* delivered at its time or later, in any order with the events due then.  *)
(*                                                                         *)
(* In-memory state: sender, receivers.  Everything else is stored, or is   *)
(* a socket the platform holds.  Left out: ICE servers, the relayed offers,*)
(* answers and candidates, and the text of the messages; they change no    *)
(* state of the room.  Each run chooses its unit of time (15 or 30 seconds).*)
(***************************************************************************)
EXTENDS RoomMembership

CONSTANTS
  SenderRole,           \* the role of the sender's socket
  Nobody,               \* the owner of a socket that does not exist
  HeartbeatInterval,    \* P2P_HEARTBEAT_INTERVAL_MS: 30 s
  HeartbeatTimeout,     \* P2P_HEARTBEAT_TIMEOUT_MS: 90 s
  ReconnectGrace,       \* P2P_SIGNAL_RECONNECT_GRACE_MS: 30 s
  Limits,               \* the values of maxTransfers a request may ask for
  Windows,              \* the expiration windows a request may ask for
  MaxConnections,       \* bound: sockets ever accepted
  MaxInits,             \* bound: rooms ever created under this name
  MaxRestarts,          \* bound: crashes and deployments
  Horizon,              \* bound: clients act before this instant
  LastInstant,          \* bound: the clock stops here
  HibernateWhileClosing \* may the object sleep between close() and webSocketClose?

ASSUME RoomAssumption ==
  /\ SenderRole \notin Peers
  /\ Nobody \notin Peers \cup {SenderRole}
  /\ HeartbeatInterval \in Nat \ {0}
  /\ HeartbeatTimeout \in Nat \ {0}
  /\ ReconnectGrace \in Nat \ {0}
  /\ Limits \subseteq Nat
  /\ Windows \subseteq Nat
  /\ MaxConnections \in Nat
  /\ MaxInits \in Nat
  /\ MaxRestarts \in Nat
  /\ Horizon \in Nat
  /\ LastInstant \in Nat
  /\ HibernateWhileClosing \in BOOLEAN

VARIABLES
  now,
  exists,       \* the room's keys (sender token, options) are stored
  expiresAt,    \* stored; read as 0 when there is no room
  membership,   \* stored: limit, counts and receiver states
  cleanupAt,    \* stored: receiverCleanupAt, the reconnect grace deadlines
  alarm,        \* the alarm of the object
  sender,       \* memory: the sender's socket
  receivers,    \* memory: the socket of each receiver
  sockets,      \* platform: the accepted sockets with their attachments
  connections,  \* sockets accepted so far; a socket's number orders connectedAt
  connecting,   \* accepted sockets whose TURN credentials are still fetched
  inits,        \* rooms created so far
  restarts      \* crashes and deployments so far

vars == <<now, exists, expiresAt, membership, cleanupAt, alarm, sender,
          receivers, sockets, connections, connecting, inits, restarts>>

Never == -1       \* no deadline, no alarm, no unanswered ping
NoSocket == 0

SocketIds == 1..MaxConnections

Gone == [who |-> Nobody, link |-> "gone", pingAt |-> Never]
Opened(who) == [who |-> who, link |-> "open", pingAt |-> Never]
TerminalSocket(p) == [who |-> p, link |-> "closing", pingAt |-> Never]

Sockets == [who : Peers \cup {SenderRole, Nobody},
            link : {"open", "closing", "gone"}, pingAt : Nat \cup {Never}]

Earliest(times) ==
  IF times \ {Never} = {} THEN Never
  ELSE CHOOSE t \in times \ {Never} : \A u \in times \ {Never} : t <= u

\* close() on some sockets: they stay until the platform reports them closed.
ClosedIn(socks, closed) ==
  [c \in SocketIds |->
     IF c \in closed /\ socks[c].link = "open"
     THEN [socks[c] EXCEPT !.link = "closing"]
     ELSE socks[c]]

HasOpen(socks) == \E c \in SocketIds : socks[c].link = "open"

Current(c) ==
  \/ sockets[c].who = SenderRole /\ sender = c
  \/ sockets[c].who \in Peers /\ receivers[sockets[c].who] = c

-----------------------------------------------------------------------------
(* The end of a handler: what it stored, and the alarm that follows.       *)

\* closeRoomAfterSenderLeft: every socket is closed, the storage is emptied.
CloseRoom(socks) ==
  /\ sockets' = ClosedIn(socks, SocketIds)
  /\ sender' = NoSocket
  /\ receivers' = [p \in Peers |-> NoSocket]
  /\ exists' = FALSE
  /\ expiresAt' = 0
  /\ membership' = NoMembership
  /\ cleanupAt' = [p \in Peers |-> Never]
  /\ alarm' = Never

\* As NextAlarmAt, but the receivers' deadlines are forgotten.
DeadlineBlindAlarmAt(expiry, deadlines, snd, socks) ==
  Earliest({IF snd = NoSocket \/ expiry > now THEN expiry ELSE Never,
            IF HasOpen(socks) THEN now + HeartbeatInterval ELSE Never})

\* As NextAlarmAt, but the expiry of the room is forgotten.
ExpiryBlindAlarmAt(expiry, deadlines, snd, socks) ==
  Earliest({IF HasOpen(socks) THEN now + HeartbeatInterval ELSE Never}
           \cup {deadlines[p] : p \in Peers})

\* The earliest of the room's expiry (once it passed, only without a sender),
\* the receivers' deadlines and the next heartbeat.
NextAlarmAt(expiry, deadlines, snd, socks) ==
  Earliest({IF snd = NoSocket \/ expiry > now THEN expiry ELSE Never,
            IF HasOpen(socks) THEN now + HeartbeatInterval ELSE Never}
           \cup {deadlines[p] : p \in Peers})

\* rescheduleRoomAlarm, for a handler that leaves these memberships, deadlines
\* and sockets.  An alarm time that is already past closes the room.
Reschedule(expiry, members, deadlines, snd, rcv, socks) ==
  LET next == NextAlarmAt(expiry, deadlines, snd, socks) IN
  \/ /\ next # Never /\ next <= now
     /\ CloseRoom(socks)
  \/ /\ next = Never \/ next > now
     /\ alarm' = next
     /\ expiresAt' = expiry
     /\ membership' = members
     /\ cleanupAt' = deadlines
     /\ sender' = snd
     /\ receivers' = rcv
     /\ sockets' = socks
     /\ UNCHANGED exists

Without(deadlines, p) == [deadlines EXCEPT ![p] = Never]

-----------------------------------------------------------------------------
Init ==
  /\ now = 0
  /\ exists = FALSE
  /\ expiresAt = 0
  /\ membership = NoMembership
  /\ cleanupAt = [p \in Peers |-> Never]
  /\ alarm = Never
  /\ sender = NoSocket
  /\ receivers = [p \in Peers |-> NoSocket]
  /\ sockets = [c \in SocketIds |-> Gone]
  /\ connections = 0
  /\ connecting = 0
  /\ inits = 0
  /\ restarts = 0

\* status().active: handleP2PCreate takes a name only when it is false.
Active ==
  \/ now < expiresAt
  \/ sender # NoSocket
  \/ \E p \in Peers : receivers[p] # NoSocket \/ cleanupAt[p] # Never

\* initRoom: whatever the object stored before is deleted.
InitRoom(window, limit) ==
  /\ exists' = TRUE
  /\ expiresAt' = now + window
  /\ membership' = [NoMembership EXCEPT !.maxTransfers = limit]
  /\ cleanupAt' = [p \in Peers |-> Never]
  /\ alarm' = now + window

\* handleP2PCreate: the status of the room, then its initialisation.  They are two calls
\* of the object, with the fetch of TURN credentials between them; nobody else calls a
\* room before its random name is known, unless two requests draw the same name.
CreateRoom(window, limit) ==
  /\ now < Horizon
  /\ inits < MaxInits
  /\ ~Active
  /\ InitRoom(window, limit)
  /\ inits' = inits + 1
  /\ UNCHANGED <<now, sender, receivers, sockets, connections, connecting, restarts>>

\* handleP2PUpdate and updateRoom, with the sender's token.
UpdateRoom(window, limit) ==
  /\ now < Horizon
  /\ exists
  /\ Reschedule(now + window, [membership EXCEPT !.maxTransfers = limit],
                cleanupAt, sender, receivers, sockets)
  /\ UNCHANGED <<now, connections, connecting, inits, restarts>>

-----------------------------------------------------------------------------
(* Connecting.                                                             *)

Accept ==
  /\ now < Horizon
  /\ connections < MaxConnections
  /\ connections' = connections + 1

\* The token is checked, the socket accepted, a socket it replaces closed.
SenderConnect ==
  /\ exists
  /\ Accept
  /\ sender' = connections'
  /\ sockets' = [ClosedIn(sockets, {sender}) EXCEPT ![connections'] = Opened(SenderRole)]
  /\ connecting' = connecting + 1
  /\ UNCHANGED <<now, exists, expiresAt, membership, cleanupAt, alarm, receivers,
                 inits, restarts>>

IsReconnect(p) ==
  \/ receivers[p] # NoSocket
  \/ cleanupAt[p] > now
  \/ Resumable(membership, p)

\* Not refused with 410 (the link expired) or 429 (no slot is free).
Admitted(p) == IsReconnect(p) \/ (now < expiresAt /\ CanAdd(membership, p))

\* A finished receiver whose grace passed is only told so.
IsTerminal(p) == membership.peerState[p] = "successful" /\ ~IsReconnect(p)

ReceiverConnect(p) ==
  /\ ~IsTerminal(p)
  /\ Admitted(p)
  /\ Accept
  /\ receivers' = [receivers EXCEPT ![p] = connections']
  /\ sockets' = [ClosedIn(sockets, {receivers[p]}) EXCEPT ![connections'] = Opened(p)]
  /\ cleanupAt' = Without(cleanupAt, p)
  /\ connecting' = connecting + 1
  /\ UNCHANGED <<now, exists, expiresAt, membership, alarm, sender, inits, restarts>>

\* terminalReceiverSocket: accepted and closed at once, never in receivers.
ReceiverRefused(p) ==
  /\ IsTerminal(p)
  /\ Accept
  /\ sockets' = [sockets EXCEPT ![connections'] = TerminalSocket(p)]
  /\ UNCHANGED <<now, exists, expiresAt, membership, cleanupAt, alarm, sender,
                 receivers, connecting, inits, restarts>>

\* currentIceServers returned: "ready" and "peer-joined" go out.
FinishConnect ==
  /\ connecting > 0
  /\ connecting' = connecting - 1
  /\ Reschedule(expiresAt, membership, cleanupAt, sender, receivers, sockets)
  /\ UNCHANGED <<now, connections, inits, restarts>>

-----------------------------------------------------------------------------
(* Messages: only from a socket that is open and current.                  *)

FromSender ==
  /\ now < Horizon
  /\ sender # NoSocket
  /\ sockets[sender].link = "open"

FromReceiver(p) ==
  /\ now < Horizon
  /\ receivers[p] # NoSocket
  /\ sockets[receivers[p]].link = "open"

\* receiver-paired.  Without a free slot the receiver is rejected.
SenderPairs(p) ==
  /\ FromSender
  /\ receivers[p] # NoSocket
  /\ membership' = RecordPaired(membership, p)
  /\ \/ /\ PairAccepted(membership, p)
        /\ UNCHANGED <<receivers, sockets>>
     \/ /\ ~PairAccepted(membership, p)
        /\ receivers' = [receivers EXCEPT ![p] = NoSocket]
        /\ sockets' = ClosedIn(sockets, {receivers[p]})
  /\ UNCHANGED <<now, exists, expiresAt, cleanupAt, alarm, sender, connections,
                 connecting, inits, restarts>>

\* transfer-complete, for a receiver that is connected.
TransferComplete(p) ==
  /\ FromSender
  /\ receivers[p] # NoSocket
  /\ membership' = RecordSuccessful(membership, p, TRUE)
  /\ UNCHANGED <<now, exists, expiresAt, cleanupAt, alarm, sender, receivers, sockets,
                 connections, connecting, inits, restarts>>

SenderLeave ==
  /\ FromSender
  /\ CloseRoom(sockets)
  /\ UNCHANGED <<now, connections, connecting, inits, restarts>>

\* transfer-checkpoint and transfer-checkpoint-clear.
Checkpoint(p) ==
  /\ FromReceiver(p)
  /\ membership' \in {RecordResumable(membership, p), ClearResumable(membership, p)}
  /\ UNCHANGED <<now, exists, expiresAt, cleanupAt, alarm, sender, receivers, sockets,
                 connections, connecting, inits, restarts>>

\* transfer-abandon: the slot goes, the alarm is left as it was.
Abandon(p) ==
  /\ FromReceiver(p)
  /\ membership' = Release(membership, p, TRUE)
  /\ receivers' = [receivers EXCEPT ![p] = NoSocket]
  /\ sockets' = ClosedIn(sockets, {receivers[p]})
  /\ UNCHANGED <<now, exists, expiresAt, cleanupAt, alarm, sender, connections,
                 connecting, inits, restarts>>

\* receiver-leave: resumable only if that could be recorded, released otherwise.
ReceiverLeave(p, resumable) ==
  /\ FromReceiver(p)
  /\ LET left == IF resumable /\ ResumeAccepted(membership, p)
                 THEN RecordResumable(membership, p)
                 ELSE Release(membership, p, TRUE)
     IN Reschedule(expiresAt, left, Without(cleanupAt, p), sender,
                   [receivers EXCEPT ![p] = NoSocket], ClosedIn(sockets, {receivers[p]}))
  /\ UNCHANGED <<now, connections, connecting, inits, restarts>>

\* pong: the heartbeat's ping was answered.
Pong(c) ==
  /\ Current(c)
  /\ sockets[c].link = "open"
  /\ sockets[c].pingAt # Never
  /\ sockets' = [sockets EXCEPT ![c].pingAt = Never]
  /\ UNCHANGED <<now, exists, expiresAt, membership, cleanupAt, alarm, sender, receivers,
                 connections, connecting, inits, restarts>>

-----------------------------------------------------------------------------
(* Disconnecting, alarms and restarts.                                     *)

SenderGone(socks) ==
  \/ /\ expiresAt <= now
     /\ CloseRoom(socks)
  \/ /\ expiresAt > now
     /\ Reschedule(expiresAt, membership, cleanupAt, NoSocket, receivers, socks)

\* As ReceiverGone, but no deadline is stored: nothing will release the slot.
DeadlinelessReceiverGone(p, socks) ==
  Reschedule(expiresAt, membership, cleanupAt, sender, [receivers EXCEPT ![p] = NoSocket], socks)

ReceiverGone(p, socks) ==
  Reschedule(expiresAt, membership, [cleanupAt EXCEPT ![p] = now + ReconnectGrace],
             sender, [receivers EXCEPT ![p] = NoSocket], socks)

\* webSocketClose, webSocketError and disconnect.  A socket that was replaced,
\* rejected or left is not the current one: its close changes nothing.
Disconnect(c) ==
  /\ sockets[c].link \in {"open", "closing"}
  /\ sockets[c].link = "open" => now < Horizon
  /\ LET socks == [sockets EXCEPT ![c] = Gone] IN
     \/ /\ Current(c) /\ sockets[c].who = SenderRole
        /\ SenderGone(socks)
     \/ /\ Current(c) /\ sockets[c].who # SenderRole
        /\ ReceiverGone(sockets[c].who, socks)
     \/ /\ ~Current(c)
        /\ sockets' = socks
        /\ UNCHANGED <<exists, expiresAt, membership, cleanupAt, alarm, sender, receivers>>
  /\ UNCHANGED <<now, connections, connecting, inits, restarts>>

\* As Heartbeat, but a socket that did not answer is pinged again.
RepingingHeartbeat(socks) ==
  [c \in SocketIds |-> IF socks[c].link # "open" THEN socks[c] ELSE [socks[c] EXCEPT !.pingAt = now]]

\* sendHeartbeat: ping an answered socket, close one silent for the timeout.
Heartbeat(socks) ==
  [c \in SocketIds |->
     IF socks[c].link # "open" THEN socks[c]
     ELSE IF socks[c].pingAt = Never THEN [socks[c] EXCEPT !.pingAt = now]
     ELSE IF now - socks[c].pingAt >= HeartbeatTimeout THEN [socks[c] EXCEPT !.link = "closing"]
     ELSE socks[c]]

AlarmDue == alarm # Never /\ now >= alarm

\* As Settled, but the time of the deadline is not looked at.
HastySettled(p) == cleanupAt[p] # Never

\* cleanupExpiredReceivers: a deadline goes when it passed or its receiver is back.
Settled(p) == cleanupAt[p] # Never /\ (receivers[p] # NoSocket \/ cleanupAt[p] <= now)
Released == {p \in Peers : Settled(p) /\ receivers[p] = NoSocket}

\* As Alarm, but the room is kept for a sender that left before it expired.
WaitingAlarm ==
  /\ AlarmDue
  /\ LET deadlines == [p \in Peers |-> IF Settled(p) THEN Never ELSE cleanupAt[p]] IN
     /\ sockets' = Heartbeat(sockets)
     /\ membership' = ReleaseAll(membership, Released)
     /\ cleanupAt' = deadlines
     /\ alarm' = Earliest({IF HasOpen(Heartbeat(sockets)) THEN now + HeartbeatInterval ELSE Never}
                          \cup {deadlines[p] : p \in Peers})
     /\ UNCHANGED <<exists, expiresAt, sender, receivers>>
  /\ UNCHANGED <<now, connections, connecting, inits, restarts>>

\* alarm(): heartbeat, receivers whose grace passed, then the room's own expiry.
Alarm ==
  /\ AlarmDue
  /\ LET socks == Heartbeat(sockets)
         deadlines == [p \in Peers |-> IF Settled(p) THEN Never ELSE cleanupAt[p]]
         next == Earliest({IF sender = NoSocket THEN expiresAt ELSE Never,
                           IF HasOpen(socks) THEN now + HeartbeatInterval ELSE Never}
                          \cup {deadlines[p] : p \in Peers})
     IN
     \/ /\ sender = NoSocket /\ now >= expiresAt
        /\ CloseRoom(socks)
     \/ /\ sender # NoSocket \/ now < expiresAt
        /\ alarm' = IF next > now THEN next ELSE Never
        /\ sockets' = socks
        /\ membership' = ReleaseAll(membership, Released)
        /\ cleanupAt' = deadlines
        /\ UNCHANGED <<exists, expiresAt, sender, receivers>>
  /\ UNCHANGED <<now, connections, connecting, inits, restarts>>

\* The constructor after a sleep: the newest open socket of each role wins.
OpenOf(who) == {c \in SocketIds : sockets[c].who = who /\ sockets[c].link = "open"}
Newest(ids) == IF ids = {} THEN NoSocket ELSE CHOOSE c \in ids : \A d \in ids : d <= c

\* As Hibernate, but the receivers are not restored.
SenderOnlyHibernate ==
  /\ HibernateWhileClosing
  /\ connecting = 0
  /\ sender' = Newest(OpenOf(SenderRole))
  /\ receivers' = [p \in Peers |-> NoSocket]
  /\ sockets' = ClosedIn(sockets, OpenOf(SenderRole) \ {sender'})
  /\ UNCHANGED <<now, exists, expiresAt, membership, cleanupAt, alarm, connections,
                 connecting, inits, restarts>>

Hibernate ==
  /\ HibernateWhileClosing
  /\ connecting = 0
  /\ sender' = Newest(OpenOf(SenderRole))
  /\ receivers' = [p \in Peers |-> Newest(OpenOf(p))]
  /\ sockets' = ClosedIn(sockets, SocketIds \ ({sender'} \cup {receivers'[p] : p \in Peers}))
  /\ UNCHANGED <<now, exists, expiresAt, membership, cleanupAt, alarm, connections,
                 connecting, inits, restarts>>

\* A crash or a deployment: every socket is cut without an event, memory is lost.
Restarted ==
  /\ restarts < MaxRestarts
  /\ restarts' = restarts + 1
  /\ sockets' = [c \in SocketIds |-> Gone]
  /\ sender' = NoSocket
  /\ receivers' = [p \in Peers |-> NoSocket]
  /\ connecting' = 0
  /\ UNCHANGED <<now, exists, expiresAt, cleanupAt, alarm, connections, inits>>

Restart == Restarted /\ UNCHANGED membership

\* A crash inside setPeerState, called by abandon, leave or the alarm.
RestartInRelease(p) ==
  /\ Restarted
  /\ \/ /\ FromReceiver(p)
        /\ membership' = ReleaseCut(membership, p, TRUE)
     \/ /\ AlarmDue /\ p \in Released
        /\ \E before \in SUBSET (Released \ {p}) :
             membership' = ReleaseCut(ReleaseAll(membership, before), p, FALSE)

\* Bound: after Horizon the clock may run on until the last deadlines have passed.
Tick ==
  /\ now < LastInstant
  /\ now >= Horizon => connecting = 0 /\ \A c \in SocketIds : sockets[c].link # "closing"
  /\ now' = now + 1
  /\ UNCHANGED <<exists, expiresAt, membership, cleanupAt, alarm, sender, receivers, sockets,
                 connections, connecting, inits, restarts>>

Step ==
  \/ \E window \in Windows, limit \in Limits :
       CreateRoom(window, limit) \/ UpdateRoom(window, limit)
  \/ SenderConnect
  \/ \E p \in Peers : ReceiverConnect(p) \/ ReceiverRefused(p)
  \/ FinishConnect
  \/ \E p \in Peers : SenderPairs(p) \/ TransferComplete(p)
  \/ SenderLeave
  \/ \E p \in Peers : Checkpoint(p) \/ Abandon(p)
  \/ \E p \in Peers, resumable \in BOOLEAN : ReceiverLeave(p, resumable)
  \/ \E c \in SocketIds : Pong(c) \/ Disconnect(c)
  \/ Alarm
  \/ Tick

Next ==
  \/ Step
  \/ Hibernate
  \/ Restart
  \/ \E p \in Peers : RestartInRelease(p)

Spec == Init /\ [][Next]_vars

\* Liveness assumes what the platform guarantees: time passes, a due alarm is
\* delivered, a socket that was closed is reported closed, a fetch returns.
FairSpec ==
  /\ Init
  /\ [][Step]_vars
  /\ WF_vars(Tick)
  /\ WF_vars(Alarm)
  /\ WF_vars(FinishConnect)
  /\ \A c \in SocketIds : WF_vars(sockets[c].link = "closing" /\ Disconnect(c))

-----------------------------------------------------------------------------
(* Properties.                                                             *)

\* The variables hold what the code stores; counts are safe integers >= 0.
TypeOK ==
  /\ now \in Nat
  /\ exists \in BOOLEAN
  /\ expiresAt \in Nat
  /\ membership \in Membership
  /\ membership.pairedCount >= 0 /\ membership.successfulCount >= 0
  /\ cleanupAt \in [Peers -> Nat \cup {Never}]
  /\ alarm \in Nat \cup {Never}
  /\ sender \in SocketIds \cup {NoSocket}
  /\ receivers \in [Peers -> SocketIds \cup {NoSocket}]
  /\ sockets \in [SocketIds -> Sockets]
  /\ connections \in 0..MaxConnections
  /\ connecting \in Nat
  /\ inits \in Nat
  /\ restarts \in Nat

\* The counts are derived data, written apart from the keys they count.  They
\* never fall below the keys, whatever crash cuts a release short, so the limit
\* is never passed; without a crash they are exact.
CountsCoverMembers ==
  /\ membership.pairedCount >= Cardinality(Members(membership))
  /\ membership.successfulCount = Cardinality(Successful(membership))
  /\ restarts = 0 => membership.pairedCount = Cardinality(Members(membership))

\* A role has one live socket: every open socket is the current one of its
\* role, also after a reconnect replaced it or a sleep rebuilt the object.
OneLiveSocketPerRole ==
  \A c \in SocketIds : sockets[c].link = "open" => Current(c)

\* A pending deadline is never missed: an alarm is set for it or for earlier.
DeadlineHasAlarm ==
  \A p \in Peers : cleanupAt[p] # Never => alarm # Never /\ alarm <= cleanupAt[p]

\* A stored room is never forgotten: an alarm is set, or a socket it waits for
\* is about to be reported closed or announced, and sets one then.
RoomIsWatched ==
  exists =>
    \/ alarm # Never
    \/ connecting > 0
    \/ \E c \in SocketIds : Current(c) /\ sockets[c].link = "closing"

\* A slot that is neither finished nor checkpointed belongs to a receiver that
\* is connected or that the alarm will release: nobody else could free it, and
\* the receiver itself is refused (429) once its deadline is gone.
NoStrandedSlot ==
  \A p \in Peers :
    membership.peerState[p] = "paired" => receivers[p] # NoSocket \/ cleanupAt[p] # Never

\* Why the paired receiver p may lose its slot: it gave it back (the object
\* may crash then), its sender left, the room expired or was updated to expire at
\* once, or it stayed away for longer than the grace period.
Overdue(p) == receivers[p] = NoSocket /\ cleanupAt[p] # Never /\ cleanupAt[p] <= now

MayLoseSlot(p) ==
  \/ Abandon(p)
  \/ \E resumable \in BOOLEAN : ReceiverLeave(p, resumable)
  \/ FromReceiver(p) /\ RestartInRelease(p)
  \/ SenderLeave
  \/ sender' = NoSocket /\ (now >= expiresAt \/ \E limit \in Limits : UpdateRoom(0, limit))
  \/ Overdue(p)

LosesSlot(p) == membership.peerState[p] = "paired" /\ membership'.peerState[p] = "none"

\* A connected receiver keeps its slot, and one that lost its socket keeps it for
\* the grace period, through crashes and restarts: no clean-up is for it, nor takes
\* its slot with another's.  But the code closes the whole room when it reschedules
\* the alarm while the deadline of any receiver that is away is overdue.
SlotKeptUnlessOverdue ==
  [][\A p \in Peers :
       LosesSlot(p) => MayLoseSlot(p) \/ (~exists' /\ \E q \in Peers : Overdue(q))]_vars

\* The room implements the promise about slots.
Slots == INSTANCE ReceiverSlots WITH
  limit <- membership.maxTransfers,
  slots <- Members(membership),
  finished <- Successful(membership)

ImplementsSlots == Slots!Spec

\* A disconnected receiver comes back or its slot is given back.
SlotIsSettled ==
  \A p \in Peers :
    (membership.peerState[p] = "paired" /\ receivers[p] = NoSocket /\ now < Horizon)
      ~> (membership.peerState[p] # "paired" \/ receivers[p] # NoSocket)

\* An expired room whose sender is gone is deleted, unless the sender returns
\* or extends it.
ExpiredRoomIsDeleted ==
  (exists /\ sender = NoSocket /\ now >= expiresAt /\ now < Horizon)
    ~> (~exists \/ sender # NoSocket \/ now < expiresAt)

\* A socket that no longer answers is closed, unless it answers after all.
SilentSocketIsClosed ==
  \A c \in SocketIds :
    (sockets[c].link = "open" /\ sockets[c].pingAt # Never /\ now < Horizon)
      ~> (sockets[c].link # "open" \/ sockets[c].pingAt = Never)

=============================================================================
