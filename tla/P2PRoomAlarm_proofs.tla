------------------------- MODULE P2PRoomAlarm_proofs -------------------------
(***************************************************************************)
(* The sockets, the deadlines and the alarm of a P2P room, for any set of  *)
(* receivers, any intervals and any number of sockets, sleeps and crashes: *)
(* a role has one live socket, no deadline is missed, a room is never left *)
(* without anything that wakes it, and a slot is lost only for a reason.   *)
(***************************************************************************)
EXTENDS P2PRoom_proofs, WellFoundedInduction

-----------------------------------------------------------------------------
(* The invariants.                                                         *)

\* The sender's and the receivers' sockets in memory are accepted sockets of these
\* roles, and no other socket is open.
Wired(snd, rcv, socks) ==
  /\ snd # NoSocket => socks[snd].who = SenderRole /\ socks[snd].link # "gone"
  /\ \A p \in Peers :
       rcv[p] # NoSocket => socks[rcv[p]].who = p /\ socks[rcv[p]].link # "gone"
  /\ \A c \in SocketIds : socks[c].link = "open" =>
       \/ socks[c].who = SenderRole /\ snd = c
       \/ socks[c].who \in Peers /\ rcv[socks[c].who] = c

\* The numbers of the sockets that are still to be accepted are free.
Unused(socks, accepted) == \A c \in SocketIds : c > accepted => socks[c] = Gone

SocketInv == Wired(sender, receivers, sockets) /\ Unused(sockets, connections)

\* A receiver with a deadline is away.
Away(rcv, deadlines) == \A p \in Peers : deadlines[p] # Never => rcv[p] = NoSocket

DeadlineInv == DeadlineHasAlarm /\ Away(receivers, cleanupAt)

\* A room without an alarm waits for a credential fetch, or for the close of the
\* current socket, and then no socket is open.
WatchInv ==
  exists =>
    \/ alarm # Never
    \/ connecting > 0
    \/ /\ ~HasOpen(sockets)
       /\ \E c \in SocketIds : Current(c) /\ sockets[c].link = "closing"
-----------------------------------------------------------------------------
(* The earliest time, and the alarm that follows from it.                  *)

LEMMA EarliestIsLeast ==
  ASSUME NEW times, times \subseteq Nat \cup {Never}, times \ {Never} # {}
  PROVE  /\ Earliest(times) \in times \ {Never}
         /\ \A t \in times \ {Never} : Earliest(times) <= t
<1>1. times \ {Never} \subseteq Nat
  BY DEF Never
<1>2. PICK first \in times \ {Never} :
        \A t \in times \ {Never} : ~(<<t, first>> \in OpToRel(<, Nat))
  BY <1>1, NatLessThanWellFounded, WFMin
<1>3. ASSUME NEW t \in times \ {Never}
      PROVE  first <= t
  <2>1. t \in Nat /\ first \in Nat
    BY <1>1
  <2>2. t < first => <<t, first>> \in OpToRel(<, Nat)
    <3>1. <<t, first>> \in Nat \X Nat /\ <<t, first>>[1] = t /\ <<t, first>>[2] = first
      BY <2>1
    <3>2. QED
      BY <3>1, Zenon DEF OpToRel
  <2>3. <<t, first>> \notin OpToRel(<, Nat)
    BY <1>2, Zenon
  <2>4. ~(t < first)
    BY <2>2, <2>3, Zenon
  <2>5. QED
    BY <2>1, <2>4
<1>4. QED
  BY <1>3 DEF Earliest

LEMMA NoTimeIsNever ==
  ASSUME NEW times, times \ {Never} = {}
  PROVE  Earliest(times) = Never
BY DEF Earliest

Times(expiry, deadlines, snd, socks) ==
  {IF snd = NoSocket \/ expiry > now THEN expiry ELSE Never,
   IF HasOpen(socks) THEN now + HeartbeatInterval ELSE Never}
  \cup {deadlines[p] : p \in Peers}

\* rescheduleRoomAlarm sets the alarm for the first of the room's times, which is
\* past only when the room expired without a sender or a deadline is overdue.
LEMMA NextAlarm ==
  ASSUME now \in Nat, NEW expiry \in Nat, NEW deadlines \in [Peers -> Nat \cup {Never}],
         NEW snd, NEW socks, NEW next, next = NextAlarmAt(expiry, deadlines, snd, socks)
  PROVE  /\ next \in Nat \cup {Never}
         /\ \A p \in Peers : deadlines[p] # Never => next # Never /\ next <= deadlines[p]
         /\ next = Never => snd # NoSocket /\ ~HasOpen(socks)
         /\ next # Never /\ next <= now =>
              \/ snd = NoSocket /\ expiry <= now
              \/ \E p \in Peers : deadlines[p] # Never /\ deadlines[p] <= now
<1> DEFINE times == Times(expiry, deadlines, snd, socks)
<1>1. times \subseteq Nat \cup {Never} /\ now + HeartbeatInterval > now
  BY RoomAssumption DEF Times
<1>2. next = Earliest(times)
  BY DEF NextAlarmAt, Times
<1>3. /\ \A p \in Peers : deadlines[p] \in times
      /\ snd = NoSocket => expiry \in times
      /\ HasOpen(socks) => now + HeartbeatInterval \in times
      /\ now + HeartbeatInterval # Never /\ expiry # Never
  BY RoomAssumption DEF Times, Never
<1>4. \A t \in times \ {Never} :
        \/ t > now
        \/ snd = NoSocket /\ t = expiry
        \/ \E p \in Peers : t = deadlines[p]
  BY <1>1 DEF Times
<1> HIDE DEF times
<1>5. CASE times \ {Never} = {}
  <2>1. next = Never
    BY <1>2, <1>5, NoTimeIsNever
  <2>2. QED
    BY <1>3, <1>5, <2>1
<1>6. CASE times \ {Never} # {}
  <2>1. next \in times \ {Never} /\ \A t \in times \ {Never} : next <= t
    BY <1>1, <1>2, <1>6, EarliestIsLeast
  <2>2. next \in Nat /\ next # Never
    BY <1>1, <2>1
  <2>3. QED
    BY <1>3, <1>4, <2>1, <2>2
<1>7. QED
  BY <1>5, <1>6

-----------------------------------------------------------------------------
(* The sockets.                                                            *)

\* Sockets that only close or disappear from use stay wired.
Fewer(socks, left) ==
  /\ left \in [SocketIds -> Sockets]
  /\ \A c \in SocketIds :
       /\ left[c].who = socks[c].who
       /\ left[c].link = "gone" <=> socks[c].link = "gone"
       /\ left[c].link = "open" => socks[c].link = "open"
       /\ socks[c] = Gone => left[c] = Gone

LEMMA FewerIsWired ==
  ASSUME NEW snd, NEW rcv, NEW socks, NEW left, Fewer(socks, left), Wired(snd, rcv, socks),
         snd \in SocketIds \cup {NoSocket}, rcv \in [Peers -> SocketIds \cup {NoSocket}]
  PROVE  Wired(snd, rcv, left) /\ \A n : Unused(socks, n) => Unused(left, n)
BY DEF Fewer, Wired, Unused

LEMMA ClosedIsFewer ==
  ASSUME NEW socks \in [SocketIds -> Sockets], NEW closed
  PROVE  /\ Fewer(socks, ClosedIn(socks, closed))
         /\ \A c \in SocketIds : ClosedIn(socks, closed)[c].link = "open" => c \notin closed
         /\ \A c \in SocketIds : c \notin closed => ClosedIn(socks, closed)[c] = socks[c]
<1>1. ASSUME NEW c \in SocketIds
      PROVE  /\ ClosedIn(socks, closed)[c] \in Sockets
             /\ ClosedIn(socks, closed)[c].who = socks[c].who
             /\ ClosedIn(socks, closed)[c].link = "gone" <=> socks[c].link = "gone"
             /\ ClosedIn(socks, closed)[c].link = "open" => socks[c].link = "open" /\ c \notin closed
             /\ socks[c] = Gone => ClosedIn(socks, closed)[c] = Gone
             /\ c \notin closed => ClosedIn(socks, closed)[c] = socks[c]
  <2>1. socks[c] \in Sockets
    OBVIOUS
  <2>2. ClosedIn(socks, closed)[c] =
          IF c \in closed /\ socks[c].link = "open"
          THEN [socks[c] EXCEPT !.link = "closing"] ELSE socks[c]
    BY DEF ClosedIn
  <2>3. QED
    BY <2>1, <2>2 DEF Sockets, Gone
<1>2. ClosedIn(socks, closed) \in [SocketIds -> Sockets]
  BY <1>1 DEF ClosedIn
<1>3. QED
  BY <1>1, <1>2 DEF Fewer

LEMMA HeartbeatIsFewer ==
  ASSUME NEW socks \in [SocketIds -> Sockets], now \in Nat
  PROVE  Fewer(socks, Heartbeat(socks))
<1>1. ASSUME NEW c \in SocketIds
      PROVE  /\ Heartbeat(socks)[c] \in Sockets
             /\ Heartbeat(socks)[c].who = socks[c].who
             /\ Heartbeat(socks)[c].link = "gone" <=> socks[c].link = "gone"
             /\ Heartbeat(socks)[c].link = "open" => socks[c].link = "open"
             /\ socks[c] = Gone => Heartbeat(socks)[c] = Gone
  <2>1. socks[c] \in Sockets
    OBVIOUS
  <2>2. Heartbeat(socks)[c] \in {socks[c], [socks[c] EXCEPT !.pingAt = now],
                                 [socks[c] EXCEPT !.link = "closing"]}
    BY DEF Heartbeat
  <2>3. socks[c].link # "open" => Heartbeat(socks)[c] = socks[c]
    BY DEF Heartbeat
  <2>4. QED
    BY <2>1, <2>2, <2>3 DEF Sockets, Gone
<1>2. Heartbeat(socks) \in [SocketIds -> Sockets]
  BY <1>1 DEF Heartbeat
<1>3. QED
  BY <1>1, <1>2 DEF Fewer

\* A socket that is accepted becomes the current one of its role.
LEMMA AcceptedIsWired ==
  ASSUME NEW snd \in SocketIds \cup {NoSocket}, NEW rcv \in [Peers -> SocketIds \cup {NoSocket}],
         NEW socks \in [SocketIds -> Sockets], NEW n \in SocketIds, NEW who,
         Wired(snd, rcv, socks), socks[n] = Gone,
         NEW left, left = [ClosedIn(socks, {IF who = SenderRole THEN snd ELSE rcv[who]})
                             EXCEPT ![n] = Opened(who)]
  PROVE  /\ who = SenderRole => Wired(n, rcv, left)
         /\ who \in Peers => Wired(snd, [rcv EXCEPT ![who] = n], left)
<1> DEFINE old == IF who = SenderRole THEN snd ELSE rcv[who]
           closed == ClosedIn(socks, {old})
<1>1. /\ Fewer(socks, closed)
      /\ \A c \in SocketIds : closed[c].link = "open" => c # old
  BY ClosedIsFewer
<1>2. /\ left[n] = Opened(who)
      /\ \A c \in SocketIds : c # n => left[c] = closed[c]
  BY <1>1 DEF Fewer
<1>3. Opened(who).who = who /\ Opened(who).link = "open"
  BY DEF Opened
<1>4. snd # n /\ \A p \in Peers : rcv[p] # n
  BY RoomAssumption DEF Wired, Gone, SocketIds, NoSocket
<1>5. n # NoSocket /\ \A c \in SocketIds : c # NoSocket
  BY DEF SocketIds, NoSocket
<1> HIDE DEF closed, old
<1>6. \A c \in SocketIds : c # n =>
        /\ left[c].who = socks[c].who
        /\ left[c].link = "gone" <=> socks[c].link = "gone"
        /\ left[c].link = "open" => socks[c].link = "open" /\ c # old
  BY <1>1, <1>2 DEF Fewer
<1>7. SenderRole \notin Peers
  BY RoomAssumption
<1>8. CASE who = SenderRole
  <2>1. old = snd
    BY <1>8 DEF old
  <2>2. \A p \in Peers : rcv[p] # NoSocket => left[rcv[p]].who = p /\ left[rcv[p]].link # "gone"
    <3>1. \A p \in Peers : rcv[p] # NoSocket => rcv[p] \in SocketIds
      OBVIOUS
    <3>2. QED
      BY <1>4, <1>6, <3>1 DEF Wired
  <2>3. ASSUME NEW c \in SocketIds, left[c].link = "open"
        PROVE  (left[c].who = SenderRole /\ n = c) \/ (left[c].who \in Peers /\ rcv[left[c].who] = c)
    BY <1>2, <1>3, <1>6, <1>8, <2>1, <2>3 DEF Wired
  <2>4. Wired(n, rcv, left)
    BY <1>2, <1>3, <1>8, <2>2, <2>3 DEF Wired
  <2>5. QED
    BY <1>7, <1>8, <2>4
<1>9. CASE who \in Peers
  <2> DEFINE rcvs == [rcv EXCEPT ![who] = n]
  <2>1. old = rcv[who]
    BY <1>7, <1>9 DEF old
  <2>2. rcvs[who] = n /\ \A p \in Peers : p # who => rcvs[p] = rcv[p]
    BY <1>9
  <2> HIDE DEF rcvs
  <2>3. \A p \in Peers : rcvs[p] # NoSocket => left[rcvs[p]].who = p /\ left[rcvs[p]].link # "gone"
    <3>1. \A p \in Peers : rcv[p] # NoSocket => rcv[p] \in SocketIds
      OBVIOUS
    <3>2. left[rcvs[who]].who = who /\ left[rcvs[who]].link # "gone"
      BY <1>2, <1>3, <2>2
    <3>3. ASSUME NEW p \in Peers, p # who, rcvs[p] # NoSocket
          PROVE  left[rcvs[p]].who = p /\ left[rcvs[p]].link # "gone"
      <4>1. rcvs[p] = rcv[p] /\ rcv[p] \in SocketIds /\ rcv[p] # n
        BY <1>4, <2>2, <3>1, <3>3
      <4>2. QED
        BY <1>6, <3>3, <4>1 DEF Wired
    <3>4. QED
      BY <3>2, <3>3
  <2>4. ASSUME NEW c \in SocketIds, left[c].link = "open"
        PROVE  (left[c].who = SenderRole /\ snd = c) \/ (left[c].who \in Peers /\ rcvs[left[c].who] = c)
    <3>1. CASE c = n
      BY <1>2, <1>3, <1>9, <2>2, <3>1
    <3>2. CASE c # n
      <4>1. socks[c].link = "open" /\ c # rcv[who] /\ left[c].who = socks[c].who
        BY <1>6, <2>1, <2>4, <3>2
      <4>2. CASE socks[c].who = SenderRole /\ snd = c
        BY <4>1, <4>2
      <4>3. CASE socks[c].who \in Peers /\ rcv[socks[c].who] = c
        BY <2>2, <4>1, <4>3
      <4>4. QED
        BY <4>1, <4>2, <4>3 DEF Wired
    <3>3. QED
      BY <3>1, <3>2
  <2>5. snd # NoSocket => left[snd].who = SenderRole /\ left[snd].link # "gone"
    BY <1>4, <1>6 DEF Wired
  <2>6. Wired(snd, rcvs, left)
    BY <2>3, <2>4, <2>5 DEF Wired
  <2>7. QED
    BY <1>7, <1>9, <2>6 DEF rcvs
<1>10. QED
  BY <1>8, <1>9

\* A socket the room does not use is no role's socket.
LEMMA CurrentIsWired ==
  ASSUME Wired(sender, receivers, sockets), NEW c \in SocketIds
  PROVE  /\ Current(c) <=> sender = c \/ \E p \in Peers : receivers[p] = c
         /\ Current(c) /\ sockets[c].who = SenderRole =>
              sender = c /\ \A p \in Peers : receivers[p] # c
         /\ Current(c) /\ sockets[c].who # SenderRole =>
              /\ sockets[c].who \in Peers /\ receivers[sockets[c].who] = c /\ sender # c
              /\ \A p \in Peers : receivers[p] = c => p = sockets[c].who
<1>1. NoSocket \notin SocketIds
  BY DEF SocketIds, NoSocket
<1>2. SenderRole \notin Peers
  BY RoomAssumption
<1>3. sender = c => sockets[c].who = SenderRole
  BY <1>1 DEF Wired
<1>4. \A p \in Peers : receivers[p] = c => sockets[c].who = p
  BY <1>1 DEF Wired
<1>5. QED
  BY <1>2, <1>3, <1>4 DEF Current

-----------------------------------------------------------------------------
(* The end of a handler.                                                   *)

\* What a handler changes, and the counters it does not.
StoreTypes ==
  /\ exists \in BOOLEAN
  /\ expiresAt \in Nat
  /\ cleanupAt \in [Peers -> Nat \cup {Never}]
  /\ alarm \in Nat \cup {Never}
  /\ sender \in SocketIds \cup {NoSocket}
  /\ receivers \in [Peers -> SocketIds \cup {NoSocket}]
  /\ sockets \in [SocketIds -> Sockets]

CounterTypes ==
  /\ now \in Nat
  /\ connections \in 0..MaxConnections
  /\ connecting \in Nat
  /\ inits \in Nat
  /\ restarts \in Nat

\* The inductive invariant of the sockets and the alarm.
RoomInv == StoreTypes /\ CounterTypes /\ SocketInv /\ DeadlineInv

LEMMA CloseRoomEffect ==
  ASSUME NEW snd \in SocketIds \cup {NoSocket}, NEW rcv \in [Peers -> SocketIds \cup {NoSocket}],
         NEW socks \in [SocketIds -> Sockets], Wired(snd, rcv, socks), NEW n, Unused(socks, n),
         CloseRoom(socks)
  PROVE  StoreTypes' /\ Wired(sender', receivers', sockets') /\ Unused(sockets', n) /\ DeadlineInv'
<1>1. /\ sockets' = ClosedIn(socks, SocketIds)
      /\ sender' = NoSocket
      /\ receivers' = [p \in Peers |-> NoSocket]
      /\ exists' = FALSE /\ expiresAt' = 0 /\ alarm' = Never
      /\ cleanupAt' = [p \in Peers |-> Never]
  BY DEF CloseRoom
<1>2. /\ Fewer(socks, sockets')
      /\ \A c \in SocketIds : sockets'[c].link # "open"
  BY <1>1, ClosedIsFewer
<1>3. sockets' \in [SocketIds -> Sockets] /\ Unused(sockets', n)
  BY <1>2, FewerIsWired DEF Fewer
<1>4. StoreTypes'
  BY <1>1, <1>3 DEF StoreTypes
<1>5. Wired(sender', receivers', sockets')
  BY <1>1, <1>2 DEF Wired
<1>6. DeadlineInv'
  BY <1>1 DEF DeadlineInv, DeadlineHasAlarm, Away
<1>7. QED
  BY <1>3, <1>4, <1>5, <1>6

LEMMA RescheduleEffect ==
  ASSUME now \in Nat, exists \in BOOLEAN, NEW expiry \in Nat, NEW members,
         NEW deadlines \in [Peers -> Nat \cup {Never}],
         NEW snd \in SocketIds \cup {NoSocket}, NEW rcv \in [Peers -> SocketIds \cup {NoSocket}],
         NEW socks \in [SocketIds -> Sockets], Wired(snd, rcv, socks), NEW n, Unused(socks, n),
         Away(rcv, deadlines),
         Reschedule(expiry, members, deadlines, snd, rcv, socks)
  PROVE  StoreTypes' /\ Wired(sender', receivers', sockets') /\ Unused(sockets', n) /\ DeadlineInv'
<1> DEFINE next == NextAlarmAt(expiry, deadlines, snd, socks)
<1>1. /\ next \in Nat \cup {Never}
      /\ \A p \in Peers : deadlines[p] # Never => next # Never /\ next <= deadlines[p]
  BY NextAlarm
<1> HIDE DEF next
<1>2. CASE CloseRoom(socks)
  BY <1>2, CloseRoomEffect
<1>3. CASE /\ alarm' = next /\ expiresAt' = expiry /\ cleanupAt' = deadlines /\ sender' = snd
           /\ receivers' = rcv /\ sockets' = socks /\ UNCHANGED exists
  BY <1>1, <1>3 DEF StoreTypes, DeadlineInv, DeadlineHasAlarm, Away
<1>4. QED
  BY <1>2, <1>3 DEF Reschedule, next

-----------------------------------------------------------------------------
(* The events.                                                             *)

LEMMA CreateRoomKeepsInv ==
  ASSUME RoomInv, NEW window \in Windows, NEW limit \in Limits, CreateRoom(window, limit)
  PROVE  RoomInv'
<1>1. now + window \in Nat
  BY RoomAssumption DEF RoomInv, CounterTypes
<1>2. /\ exists' = TRUE /\ expiresAt' = now + window /\ alarm' = now + window
      /\ cleanupAt' = [p \in Peers |-> Never]
      /\ inits' = inits + 1
      /\ UNCHANGED <<now, sender, receivers, sockets, connections, connecting, restarts>>
  BY DEF CreateRoom, InitRoom
<1>3. QED
  BY <1>1, <1>2
     DEF RoomInv, StoreTypes, CounterTypes, SocketInv, DeadlineInv, DeadlineHasAlarm, Away

LEMMA UpdateRoomKeepsInv ==
  ASSUME RoomInv, NEW window \in Windows, NEW limit \in Limits, UpdateRoom(window, limit)
  PROVE  RoomInv'
<1>1. now + window \in Nat
  BY RoomAssumption DEF RoomInv, CounterTypes
<1>2. UNCHANGED <<now, connections, connecting, inits, restarts>>
  BY DEF UpdateRoom
<1>3. StoreTypes' /\ Wired(sender', receivers', sockets') /\ Unused(sockets', connections)
      /\ DeadlineInv'
  BY <1>1, RescheduleEffect
     DEF UpdateRoom, RoomInv, StoreTypes, CounterTypes, SocketInv, DeadlineInv
<1>4. QED
  BY <1>2, <1>3 DEF RoomInv, CounterTypes, SocketInv

LEMMA SenderConnectKeepsInv ==
  ASSUME RoomInv, SenderConnect
  PROVE  RoomInv'
<1> DEFINE n == connections + 1
<1>1. /\ n \in SocketIds /\ n \in 0..MaxConnections /\ sockets[n] = Gone
      /\ connecting + 1 \in Nat
  BY RoomAssumption
     DEF RoomInv, CounterTypes, SocketInv, Unused, SenderConnect, Accept, SocketIds
<1>2. /\ connections' = n /\ sender' = n /\ connecting' = connecting + 1
      /\ sockets' = [ClosedIn(sockets, {sender}) EXCEPT ![n] = Opened(SenderRole)]
      /\ UNCHANGED <<now, exists, expiresAt, cleanupAt, alarm, receivers, inits, restarts>>
  BY DEF SenderConnect, Accept
<1>3. Fewer(sockets, ClosedIn(sockets, {sender}))
  BY ClosedIsFewer DEF RoomInv, StoreTypes
<1>4. Opened(SenderRole) \in Sockets
  BY DEF Opened, Sockets
<1>5. sockets' \in [SocketIds -> Sockets]
  BY <1>2, <1>3, <1>4 DEF Fewer
<1>6. Wired(sender', receivers', sockets')
  BY <1>1, <1>2, AcceptedIsWired DEF RoomInv, StoreTypes, SocketInv
<1>7. Unused(ClosedIn(sockets, {sender}), connections)
  BY <1>3, FewerIsWired DEF RoomInv, StoreTypes, SocketInv
<1>8. Unused(sockets', connections')
  <2>1. \A c \in SocketIds : c > n => c > connections /\ c # n
    BY DEF RoomInv, CounterTypes, SocketIds
  <2>2. \A c \in SocketIds : c # n => sockets'[c] = ClosedIn(sockets, {sender})[c]
    BY <1>2, <1>3 DEF Fewer
  <2>3. QED
    BY <1>2, <1>7, <2>1, <2>2 DEF Unused
<1> HIDE DEF n
<1>9. StoreTypes' /\ CounterTypes' /\ DeadlineInv'
  BY <1>1, <1>2, <1>5
     DEF RoomInv, StoreTypes, CounterTypes, DeadlineInv, DeadlineHasAlarm, Away
<1>10. QED
  BY <1>6, <1>8, <1>9 DEF RoomInv, SocketInv

LEMMA ReceiverConnectKeepsInv ==
  ASSUME RoomInv, NEW p \in Peers, ReceiverConnect(p)
  PROVE  RoomInv'
<1> DEFINE n == connections + 1
           old == ClosedIn(sockets, {receivers[p]})
<1>1. /\ n \in SocketIds /\ n \in 0..MaxConnections /\ sockets[n] = Gone
      /\ connecting + 1 \in Nat
  BY RoomAssumption
     DEF RoomInv, CounterTypes, SocketInv, Unused, ReceiverConnect, Accept, SocketIds
<1>2. /\ connections' = n /\ connecting' = connecting + 1
      /\ receivers' = [receivers EXCEPT ![p] = n]
      /\ sockets' = [old EXCEPT ![n] = Opened(p)]
      /\ cleanupAt' = [cleanupAt EXCEPT ![p] = Never]
      /\ UNCHANGED <<now, exists, expiresAt, alarm, sender, inits, restarts>>
  BY DEF ReceiverConnect, Accept, Without
<1>3. Fewer(sockets, old)
  BY ClosedIsFewer DEF RoomInv, StoreTypes
<1>4. Opened(p) \in Sockets
  BY DEF Opened, Sockets
<1>5. sockets' \in [SocketIds -> Sockets]
  BY <1>2, <1>3, <1>4 DEF Fewer
<1>6. Wired(sender', receivers', sockets')
  <2>1. old = ClosedIn(sockets, {IF p = SenderRole THEN sender ELSE receivers[p]})
    BY RoomAssumption
  <2>2. QED
    BY <1>1, <1>2, <2>1, AcceptedIsWired DEF RoomInv, StoreTypes, SocketInv
<1>7. Unused(old, connections)
  BY <1>3, FewerIsWired DEF RoomInv, StoreTypes, SocketInv
<1>8. Unused(sockets', connections')
  <2>1. \A c \in SocketIds : c > n => c > connections /\ c # n
    BY DEF RoomInv, CounterTypes, SocketIds
  <2>2. \A c \in SocketIds : c # n => sockets'[c] = old[c]
    BY <1>2, <1>3 DEF Fewer
  <2>3. QED
    BY <1>2, <1>7, <2>1, <2>2 DEF Unused
<1> HIDE DEF n, old
<1>9. cleanupAt' \in [Peers -> Nat \cup {Never}] /\ receivers' \in [Peers -> SocketIds \cup {NoSocket}]
  BY <1>1, <1>2 DEF RoomInv, StoreTypes
<1>10. StoreTypes' /\ CounterTypes'
  BY <1>1, <1>2, <1>5, <1>9 DEF RoomInv, StoreTypes, CounterTypes
<1>11. DeadlineInv'
  BY <1>2, <1>9 DEF RoomInv, StoreTypes, DeadlineInv, DeadlineHasAlarm, Away
<1>12. QED
  BY <1>6, <1>8, <1>10, <1>11 DEF RoomInv, SocketInv

LEMMA ReceiverRefusedKeepsInv ==
  ASSUME RoomInv, NEW p \in Peers, ReceiverRefused(p)
  PROVE  RoomInv'
<1> DEFINE n == connections + 1
<1>1. n \in SocketIds /\ n \in 0..MaxConnections /\ sockets[n] = Gone
  BY RoomAssumption
     DEF RoomInv, CounterTypes, SocketInv, Unused, ReceiverRefused, Accept, SocketIds
<1>2. /\ connections' = n
      /\ sockets' = [sockets EXCEPT ![n] = TerminalSocket(p)]
      /\ UNCHANGED <<now, exists, expiresAt, cleanupAt, alarm, sender, receivers,
                     connecting, inits, restarts>>
  BY DEF ReceiverRefused, Accept
<1>3. TerminalSocket(p) \in Sockets /\ TerminalSocket(p).link = "closing"
  BY DEF TerminalSocket, Sockets
<1>4. /\ sockets' \in [SocketIds -> Sockets] /\ sockets'[n] = TerminalSocket(p)
      /\ \A c \in SocketIds : c # n => sockets'[c] = sockets[c]
  BY <1>1, <1>2, <1>3 DEF RoomInv, StoreTypes
<1>5. sender # n /\ \A q \in Peers : receivers[q] # n
  BY <1>1 DEF RoomInv, StoreTypes, SocketInv, Wired, Gone, SocketIds, NoSocket
<1>6. Wired(sender', receivers', sockets')
  <2>1. \A c \in SocketIds : sockets'[c].link = "open" => sockets'[c] = sockets[c]
    BY <1>3, <1>4
  <2>2. \A c \in SocketIds : (sender = c \/ \E q \in Peers : receivers[q] = c) =>
          sockets'[c] = sockets[c]
    BY <1>4, <1>5
  <2>3. sender # NoSocket => sockets'[sender] = sockets[sender]
    BY <2>2 DEF RoomInv, StoreTypes
  <2>4. \A q \in Peers : receivers[q] # NoSocket => sockets'[receivers[q]] = sockets[receivers[q]]
    BY <2>2 DEF RoomInv, StoreTypes
  <2>5. QED
    BY <1>2, <2>1, <2>3, <2>4 DEF RoomInv, SocketInv, Wired
<1>7. Unused(sockets', connections')
  BY <1>2, <1>4 DEF Unused, RoomInv, SocketInv, CounterTypes, SocketIds
<1> HIDE DEF n
<1>8. StoreTypes' /\ CounterTypes' /\ DeadlineInv'
  BY <1>1, <1>2, <1>4
     DEF RoomInv, StoreTypes, CounterTypes, DeadlineInv, DeadlineHasAlarm, Away
<1>9. QED
  BY <1>6, <1>7, <1>8 DEF RoomInv, SocketInv

LEMMA FinishConnectKeepsInv ==
  ASSUME RoomInv, FinishConnect
  PROVE  RoomInv'
<1>1. /\ connecting' = connecting - 1 /\ connecting > 0
      /\ UNCHANGED <<now, connections, inits, restarts>>
  BY DEF FinishConnect
<1>2. StoreTypes' /\ Wired(sender', receivers', sockets') /\ Unused(sockets', connections)
      /\ DeadlineInv'
  BY RescheduleEffect
     DEF FinishConnect, RoomInv, StoreTypes, CounterTypes, SocketInv, DeadlineInv
<1>3. QED
  BY <1>1, <1>2 DEF RoomInv, CounterTypes, SocketInv

\* A receiver that is turned away or leaves: its socket is closed and forgotten.
LEMMA DismissedIsWired ==
  ASSUME RoomInv, NEW p \in Peers, NEW r, NEW left,
         r = [receivers EXCEPT ![p] = NoSocket], left = ClosedIn(sockets, {receivers[p]})
  PROVE  /\ r \in [Peers -> SocketIds \cup {NoSocket}] /\ left \in [SocketIds -> Sockets]
         /\ Wired(sender, r, left) /\ Unused(left, connections)
         /\ \A deadlines : Away(receivers, deadlines) => Away(r, deadlines)
<1>1. /\ sender \in SocketIds \cup {NoSocket}
      /\ receivers \in [Peers -> SocketIds \cup {NoSocket}]
      /\ sockets \in [SocketIds -> Sockets]
      /\ Wired(sender, receivers, sockets) /\ Unused(sockets, connections)
  BY DEF RoomInv, StoreTypes, SocketInv
<1>2. /\ r \in [Peers -> SocketIds \cup {NoSocket}]
      /\ \A q \in Peers : r[q] = IF q = p THEN NoSocket ELSE receivers[q]
  BY <1>1
<1>3. /\ Fewer(sockets, left)
      /\ \A c \in SocketIds : left[c].link = "open" => c # receivers[p]
  BY <1>1, ClosedIsFewer
<1>4. left \in [SocketIds -> Sockets]
  BY <1>3 DEF Fewer
<1>5. Wired(sender, receivers, left) /\ Unused(left, connections)
  BY <1>1, <1>3, FewerIsWired
<1>6. Wired(sender, r, left)
  <2>1. ASSUME NEW c \in SocketIds, left[c].link = "open"
        PROVE  \/ left[c].who = SenderRole /\ sender = c
               \/ left[c].who \in Peers /\ r[left[c].who] = c
    <3>1. \/ left[c].who = SenderRole /\ sender = c
          \/ left[c].who \in Peers /\ receivers[left[c].who] = c
      BY <1>5, <2>1 DEF Wired
    <3>2. c # receivers[p]
      BY <1>3, <2>1
    <3>3. QED
      BY <1>2, <3>1, <3>2
  <2>2. \A q \in Peers : r[q] # NoSocket => left[r[q]].who = q /\ left[r[q]].link # "gone"
    BY <1>2, <1>5 DEF Wired
  <2>3. sender # NoSocket => left[sender].who = SenderRole /\ left[sender].link # "gone"
    BY <1>5 DEF Wired
  <2>4. QED
    BY <2>1, <2>2, <2>3 DEF Wired
<1>7. QED
  BY <1>2, <1>4, <1>5, <1>6 DEF Away

LEMMA SenderPairsKeepsInv ==
  ASSUME RoomInv, NEW p \in Peers, SenderPairs(p)
  PROVE  RoomInv'
<1>1. UNCHANGED <<now, exists, expiresAt, cleanupAt, alarm, sender, connections,
                  connecting, inits, restarts>>
  BY DEF SenderPairs
<1>2. CASE UNCHANGED <<receivers, sockets>>
  BY <1>1, <1>2
     DEF RoomInv, StoreTypes, CounterTypes, SocketInv, DeadlineInv, DeadlineHasAlarm, Away
<1>3. CASE /\ receivers' = [receivers EXCEPT ![p] = NoSocket]
           /\ sockets' = ClosedIn(sockets, {receivers[p]})
  <2>1. /\ receivers' \in [Peers -> SocketIds \cup {NoSocket}]
        /\ sockets' \in [SocketIds -> Sockets]
        /\ Wired(sender, receivers', sockets') /\ Unused(sockets', connections)
        /\ Away(receivers', cleanupAt)
    BY <1>3, DismissedIsWired DEF RoomInv, DeadlineInv
  <2>2. QED
    BY <1>1, <2>1
       DEF RoomInv, StoreTypes, CounterTypes, SocketInv, DeadlineInv, DeadlineHasAlarm
<1>4. QED
  BY <1>2, <1>3 DEF SenderPairs

LEMMA AbandonKeepsInv ==
  ASSUME RoomInv, NEW p \in Peers, Abandon(p)
  PROVE  RoomInv'
<1>1. /\ receivers' = [receivers EXCEPT ![p] = NoSocket]
      /\ sockets' = ClosedIn(sockets, {receivers[p]})
      /\ UNCHANGED <<now, exists, expiresAt, cleanupAt, alarm, sender, connections,
                     connecting, inits, restarts>>
  BY DEF Abandon
<1>2. /\ receivers' \in [Peers -> SocketIds \cup {NoSocket}]
      /\ sockets' \in [SocketIds -> Sockets]
      /\ Wired(sender, receivers', sockets') /\ Unused(sockets', connections)
      /\ Away(receivers', cleanupAt)
  BY <1>1, DismissedIsWired DEF RoomInv, DeadlineInv
<1>3. QED
  BY <1>1, <1>2
     DEF RoomInv, StoreTypes, CounterTypes, SocketInv, DeadlineInv, DeadlineHasAlarm

LEMMA ReceiverLeaveKeepsInv ==
  ASSUME RoomInv, NEW p \in Peers, NEW resumable \in BOOLEAN, ReceiverLeave(p, resumable)
  PROVE  RoomInv'
<1>1. UNCHANGED <<now, connections, connecting, inits, restarts>>
  BY DEF ReceiverLeave
<1>2. PICK r, left, deadlines, members :
        /\ r = [receivers EXCEPT ![p] = NoSocket] /\ left = ClosedIn(sockets, {receivers[p]})
        /\ deadlines = [cleanupAt EXCEPT ![p] = Never]
        /\ Reschedule(expiresAt, members, deadlines, sender, r, left)
  BY DEF ReceiverLeave, Without
<1>3. /\ r \in [Peers -> SocketIds \cup {NoSocket}] /\ left \in [SocketIds -> Sockets]
      /\ Wired(sender, r, left) /\ Unused(left, connections) /\ Away(r, cleanupAt)
  BY <1>2, DismissedIsWired DEF RoomInv, DeadlineInv
<1>4. deadlines \in [Peers -> Nat \cup {Never}] /\ Away(r, deadlines)
  BY <1>2, <1>3 DEF RoomInv, StoreTypes, Away
<1>5. StoreTypes' /\ Wired(sender', receivers', sockets') /\ Unused(sockets', connections)
      /\ DeadlineInv'
  BY <1>2, <1>3, <1>4, RescheduleEffect DEF RoomInv, StoreTypes, CounterTypes
<1>6. QED
  BY <1>1, <1>5 DEF RoomInv, CounterTypes, SocketInv

LEMMA PongKeepsInv ==
  ASSUME RoomInv, NEW c \in SocketIds, Pong(c)
  PROVE  RoomInv'
<1>1. /\ sockets' = [sockets EXCEPT ![c].pingAt = Never] /\ sockets[c].link = "open"
      /\ UNCHANGED <<now, exists, expiresAt, cleanupAt, alarm, sender, receivers,
                     connections, connecting, inits, restarts>>
  BY DEF Pong
<1>2. sockets \in [SocketIds -> Sockets] /\ sockets[c] \in Sockets
  BY DEF RoomInv, StoreTypes
<1>3. [sockets[c] EXCEPT !.pingAt = Never] \in Sockets
  BY <1>2 DEF Sockets
<1>4. /\ sockets' \in [SocketIds -> Sockets]
      /\ \A d \in SocketIds : sockets'[d].who = sockets[d].who /\ sockets'[d].link = sockets[d].link
      /\ \A d \in SocketIds : d # c => sockets'[d] = sockets[d]
  BY <1>1, <1>2, <1>3 DEF Sockets
<1>5. Fewer(sockets, sockets')
  BY <1>1, <1>4 DEF Fewer, Gone
<1>6. SocketInv'
  BY <1>1, <1>5, FewerIsWired DEF RoomInv, StoreTypes, SocketInv
<1>7. QED
  BY <1>1, <1>4, <1>6
     DEF RoomInv, StoreTypes, CounterTypes, DeadlineInv, DeadlineHasAlarm, Away

\* A socket the platform reported closed leaves the others wired.
LEMMA DisconnectedIsWired ==
  ASSUME RoomInv, NEW c \in SocketIds,
         NEW r \in [Peers -> SocketIds \cup {NoSocket}],
         \A p \in Peers : r[p] = IF receivers[p] = c THEN NoSocket ELSE receivers[p]
  PROVE  /\ [sockets EXCEPT ![c] = Gone] \in [SocketIds -> Sockets]
         /\ Unused([sockets EXCEPT ![c] = Gone], connections)
         /\ sender # c => Wired(sender, r, [sockets EXCEPT ![c] = Gone])
         /\ sender = c => Wired(NoSocket, r, [sockets EXCEPT ![c] = Gone])
<1> DEFINE s == IF sender = c THEN NoSocket ELSE sender
           left == [sockets EXCEPT ![c] = Gone]
<1>1. Gone \in Sockets /\ Gone.link = "gone"
  BY DEF Gone, Sockets
<1>2. /\ left \in [SocketIds -> Sockets] /\ left[c] = Gone
      /\ \A d \in SocketIds : d # c => left[d] = sockets[d]
  BY <1>1 DEF RoomInv, StoreTypes
<1>3. Unused(left, connections)
  BY <1>2 DEF Unused, RoomInv, SocketInv
<1>4. /\ c # NoSocket /\ s # c /\ (s = sender \/ s = NoSocket)
      /\ \A p \in Peers : r[p] # c /\ (r[p] = receivers[p] \/ r[p] = NoSocket)
  BY DEF SocketIds, NoSocket
<1> HIDE DEF left, s
<1>5. s # NoSocket => left[s].who = SenderRole /\ left[s].link # "gone"
  BY <1>2, <1>4 DEF RoomInv, StoreTypes, SocketInv, Wired
<1>6. ASSUME NEW p \in Peers, r[p] # NoSocket
      PROVE  left[r[p]].who = p /\ left[r[p]].link # "gone"
  <2>1. r[p] = receivers[p] /\ r[p] # c /\ r[p] \in SocketIds
    BY <1>4, <1>6
  <2>2. left[r[p]] = sockets[receivers[p]]
    BY <1>2, <2>1
  <2>3. QED
    BY <1>6, <2>1, <2>2 DEF RoomInv, SocketInv, Wired
<1>7. Wired(s, r, left)
  <2>1. ASSUME NEW d \in SocketIds, left[d].link = "open"
        PROVE  (left[d].who = SenderRole /\ s = d) \/ (left[d].who \in Peers /\ r[left[d].who] = d)
    <3>1. d # c /\ left[d] = sockets[d]
      BY <1>1, <1>2, <2>1
    <3>2. \/ sockets[d].who = SenderRole /\ sender = d
          \/ sockets[d].who \in Peers /\ receivers[sockets[d].who] = d
      BY <2>1, <3>1 DEF RoomInv, SocketInv, Wired
    <3>3. QED
      BY <3>1, <3>2 DEF s
  <2>2. QED
    BY <1>5, <1>6, <2>1 DEF Wired
<1>8. QED
  BY <1>2, <1>3, <1>7 DEF left, s

LEMMA DisconnectKeepsInv ==
  ASSUME RoomInv, NEW c \in SocketIds, Disconnect(c)
  PROVE  RoomInv'
<1> DEFINE left == [sockets EXCEPT ![c] = Gone]
           who == sockets[c].who
<1>1. UNCHANGED <<now, connections, connecting, inits, restarts>>
  BY DEF Disconnect
<1>2. /\ Wired(sender, receivers, sockets) /\ NoSocket # c
      /\ sender \in SocketIds \cup {NoSocket}
      /\ receivers \in [Peers -> SocketIds \cup {NoSocket}]
      /\ cleanupAt \in [Peers -> Nat \cup {Never}]
      /\ now \in Nat /\ exists \in BOOLEAN /\ expiresAt \in Nat
  BY DEF RoomInv, StoreTypes, CounterTypes, SocketInv, SocketIds, NoSocket
<1>3. CASE Current(c) /\ who = SenderRole /\ SenderGone(left)
  <2>1. sender = c /\ \A p \in Peers : receivers[p] # c
    BY <1>2, <1>3, CurrentIsWired
  <2>2. left \in [SocketIds -> Sockets] /\ Wired(NoSocket, receivers, left) /\ Unused(left, connections)
    BY <1>2, <2>1, DisconnectedIsWired
  <2> HIDE DEF left
  <2>3. StoreTypes' /\ Wired(sender', receivers', sockets') /\ Unused(sockets', connections)
        /\ DeadlineInv'
    <3>1. CASE CloseRoom(left)
      BY <1>2, <2>2, <3>1, CloseRoomEffect
    <3>2. CASE Reschedule(expiresAt, membership, cleanupAt, NoSocket, receivers, left)
      BY <1>2, <2>2, <3>2, RescheduleEffect DEF RoomInv, DeadlineInv
    <3>3. QED
      BY <1>3, <3>1, <3>2 DEF SenderGone
  <2>4. QED
    BY <1>1, <2>3 DEF RoomInv, CounterTypes, SocketInv
<1>4. CASE Current(c) /\ who # SenderRole /\ ReceiverGone(who, left)
  <2> DEFINE r == [receivers EXCEPT ![who] = NoSocket]
             deadlines == [cleanupAt EXCEPT ![who] = now + ReconnectGrace]
  <2>1. /\ who \in Peers /\ receivers[who] = c /\ sender # c
        /\ \A p \in Peers : receivers[p] = c => p = who
    BY <1>2, <1>4, CurrentIsWired
  <2>2. now + ReconnectGrace \in Nat
    BY <1>2, RoomAssumption
  <2>3. /\ r \in [Peers -> SocketIds \cup {NoSocket}] /\ deadlines \in [Peers -> Nat \cup {Never}]
        /\ \A p \in Peers : r[p] = IF p = who THEN NoSocket ELSE receivers[p]
        /\ \A p \in Peers : p # who => deadlines[p] = cleanupAt[p]
    BY <1>2, <2>1, <2>2
  <2>4. Away(r, deadlines)
    BY <2>3 DEF RoomInv, DeadlineInv, Away
  <2>5. Reschedule(expiresAt, membership, deadlines, sender, r, left)
    BY <1>4 DEF ReceiverGone
  <2> HIDE DEF r, deadlines, who
  <2>6. left \in [SocketIds -> Sockets] /\ Wired(sender, r, left) /\ Unused(left, connections)
    <3>1. \A p \in Peers : r[p] = IF receivers[p] = c THEN NoSocket ELSE receivers[p]
      BY <2>1, <2>3
    <3>2. QED
      BY <2>1, <2>3, <3>1, DisconnectedIsWired
  <2> HIDE DEF left
  <2>7. StoreTypes' /\ Wired(sender', receivers', sockets') /\ Unused(sockets', connections)
        /\ DeadlineInv'
    BY <1>2, <2>3, <2>4, <2>5, <2>6, RescheduleEffect
  <2>8. QED
    BY <1>1, <2>7 DEF RoomInv, CounterTypes, SocketInv
<1>5. CASE /\ ~Current(c) /\ sockets' = left
           /\ UNCHANGED <<exists, expiresAt, membership, cleanupAt, alarm, sender, receivers>>
  <2>1. sender # c /\ \A p \in Peers : receivers[p] # c
    BY <1>2, <1>5, CurrentIsWired
  <2>2. left \in [SocketIds -> Sockets] /\ Wired(sender, receivers, left) /\ Unused(left, connections)
    BY <1>2, <2>1, DisconnectedIsWired
  <2> HIDE DEF left
  <2>3. QED
    BY <1>1, <1>5, <2>2
       DEF RoomInv, StoreTypes, CounterTypes, SocketInv, DeadlineInv, DeadlineHasAlarm, Away
<1>6. QED
  BY <1>3, <1>4, <1>5 DEF Disconnect

\* The alarm keeps the deadlines that are still to come, and is set again for the first.
LEMMA AlarmKeepsInv ==
  ASSUME RoomInv, Alarm
  PROVE  RoomInv'
<1> DEFINE socks == Heartbeat(sockets)
           deadlines == [p \in Peers |-> IF Settled(p) THEN Never ELSE cleanupAt[p]]
           times == {IF sender = NoSocket THEN expiresAt ELSE Never,
                     IF HasOpen(socks) THEN now + HeartbeatInterval ELSE Never}
                    \cup {deadlines[p] : p \in Peers}
           next == Earliest(times)
<1>1. UNCHANGED <<now, connections, connecting, inits, restarts>>
  BY DEF Alarm
<1>2. /\ Wired(sender, receivers, sockets) /\ Unused(sockets, connections)
      /\ sender \in SocketIds \cup {NoSocket}
      /\ receivers \in [Peers -> SocketIds \cup {NoSocket}]
      /\ sockets \in [SocketIds -> Sockets]
      /\ cleanupAt \in [Peers -> Nat \cup {Never}]
      /\ now \in Nat /\ exists \in BOOLEAN /\ expiresAt \in Nat
      /\ Away(receivers, cleanupAt)
  BY DEF RoomInv, StoreTypes, CounterTypes, SocketInv, DeadlineInv
<1>3. socks \in [SocketIds -> Sockets] /\ Wired(sender, receivers, socks) /\ Unused(socks, connections)
  <2>1. Fewer(sockets, socks)
    BY <1>2, HeartbeatIsFewer
  <2>2. socks \in [SocketIds -> Sockets]
    BY <2>1 DEF Fewer
  <2>3. QED
    BY <1>2, <2>1, <2>2, FewerIsWired
<1>4. CASE CloseRoom(socks)
  <2>1. StoreTypes' /\ Wired(sender', receivers', sockets') /\ Unused(sockets', connections)
        /\ DeadlineInv'
    BY <1>2, <1>3, <1>4, CloseRoomEffect
  <2>2. QED
    BY <1>1, <2>1 DEF RoomInv, CounterTypes, SocketInv
<1>5. CASE /\ sender # NoSocket \/ now < expiresAt
           /\ alarm' = IF next > now THEN next ELSE Never
           /\ sockets' = socks /\ cleanupAt' = deadlines
           /\ UNCHANGED <<exists, expiresAt, sender, receivers>>
  <2>1. /\ deadlines \in [Peers -> Nat \cup {Never}]
        /\ \A p \in Peers : deadlines[p] # Never =>
             receivers[p] = NoSocket /\ deadlines[p] > now
    BY <1>2 DEF Settled, Away
  <2>2. /\ times \subseteq Nat \cup {Never}
        /\ \A t \in times : t # Never => t > now
        /\ \A p \in Peers : deadlines[p] \in times
    BY <1>2, <1>5, <2>1, RoomAssumption
  <2>3. now > Never
    BY <1>2 DEF Never
  <2> HIDE DEF times, deadlines, socks
  <2>4. /\ next \in Nat \cup {Never}
        /\ \A p \in Peers : deadlines[p] # Never => next > now /\ next <= deadlines[p]
    <3>1. CASE times \ {Never} = {}
      BY <2>2, <3>1, NoTimeIsNever
    <3>2. CASE times \ {Never} # {}
      BY <2>2, <3>2, EarliestIsLeast
    <3>3. QED
      BY <3>1, <3>2
  <2> HIDE DEF next
  <2>5. alarm' \in Nat \cup {Never}
    BY <1>5, <2>4
  <2>6. StoreTypes'
    BY <1>2, <1>3, <1>5, <2>1, <2>5 DEF StoreTypes
  <2>7. SocketInv'
    BY <1>1, <1>3, <1>5 DEF SocketInv
  <2>8. DeadlineInv'
    <3>1. ASSUME NEW p \in Peers, deadlines[p] # Never
          PROVE  alarm' # Never /\ alarm' <= deadlines[p] /\ receivers[p] = NoSocket
      <4>1. next > now /\ next <= deadlines[p] /\ receivers[p] = NoSocket
        BY <2>1, <2>4, <3>1
      <4>2. alarm' = next
        BY <1>5, <4>1
      <4>3. QED
        BY <1>2, <4>1, <4>2 DEF Never
    <3>2. QED
      BY <1>5, <3>1 DEF DeadlineInv, DeadlineHasAlarm, Away
  <2>9. QED
    BY <1>1, <2>6, <2>7, <2>8 DEF RoomInv, CounterTypes
<1>6. QED
  BY <1>4, <1>5 DEF Alarm

\* The newest socket of a role is the only open one, so the object wakes as it was
\* but for the sockets that were closing.
LEMMA NewestIsOpen ==
  ASSUME NEW ids \in SUBSET SocketIds, NEW only, \A c \in ids : c = only
  PROVE  /\ Newest(ids) \in SocketIds \cup {NoSocket}
         /\ Newest(ids) # NoSocket => Newest(ids) \in ids
         /\ \A c \in ids : Newest(ids) = c
<1>1. CASE ids = {}
  BY <1>1 DEF Newest
<1>2. CASE ids # {}
  <2>1. only \in ids /\ only \in SocketIds
    BY <1>2
  <2>2. only <= only
    BY <2>1 DEF SocketIds
  <2>3. \A d \in ids : d <= only
    BY <2>2
  <2>4. Newest(ids) \in ids
    BY <1>2, <2>1, <2>3 DEF Newest
  <2>5. QED
    BY <2>4
<1>3. QED
  BY <1>1, <1>2

LEMMA HibernateKeepsInv ==
  ASSUME RoomInv, Hibernate
  PROVE  RoomInv'
<1> DEFINE kept == {sender'} \cup {receivers'[p] : p \in Peers}
<1>1. /\ sender' = Newest(OpenOf(SenderRole))
      /\ receivers' = [p \in Peers |-> Newest(OpenOf(p))]
      /\ sockets' = ClosedIn(sockets, SocketIds \ kept)
      /\ UNCHANGED <<now, exists, expiresAt, cleanupAt, alarm, connections,
                     connecting, inits, restarts>>
  BY DEF Hibernate
<1>2. /\ Wired(sender, receivers, sockets) /\ Unused(sockets, connections)
      /\ sender \in SocketIds \cup {NoSocket}
      /\ receivers \in [Peers -> SocketIds \cup {NoSocket}]
      /\ sockets \in [SocketIds -> Sockets]
  BY DEF RoomInv, StoreTypes, SocketInv
<1>3. SenderRole \notin Peers
  BY RoomAssumption
<1>4. /\ OpenOf(SenderRole) \in SUBSET SocketIds
      /\ \A c \in OpenOf(SenderRole) : c = sender
  BY <1>2, <1>3 DEF OpenOf, Wired
<1>5. \A p \in Peers : OpenOf(p) \in SUBSET SocketIds /\ \A c \in OpenOf(p) : c = receivers[p]
  BY <1>2, <1>3 DEF OpenOf, Wired
<1>6. /\ sender' \in SocketIds \cup {NoSocket}
      /\ sender' # NoSocket => sender' \in OpenOf(SenderRole)
      /\ \A c \in OpenOf(SenderRole) : sender' = c
  BY <1>1, <1>4, NewestIsOpen
<1>7. ASSUME NEW p \in Peers
      PROVE  /\ receivers'[p] \in SocketIds \cup {NoSocket}
             /\ receivers'[p] # NoSocket => receivers'[p] \in OpenOf(p)
             /\ \A c \in OpenOf(p) : receivers'[p] = c
  <2>1. receivers'[p] = Newest(OpenOf(p))
    BY <1>1
  <2>2. QED
    BY <1>5, <2>1, NewestIsOpen
<1>8. receivers' \in [Peers -> SocketIds \cup {NoSocket}]
  BY <1>1, <1>7
<1>9. /\ Fewer(sockets, sockets')
      /\ \A c \in SocketIds : c \in kept => sockets'[c] = sockets[c]
      /\ \A c \in SocketIds : sockets'[c].link = "open" => sockets[c].link = "open" /\ c \in kept
  BY <1>1, <1>2, ClosedIsFewer DEF Fewer
<1>10. /\ sender' \in kept /\ \A p \in Peers : receivers'[p] \in kept
  OBVIOUS
<1> HIDE DEF kept
<1>11. sender' # NoSocket => sockets'[sender'].who = SenderRole /\ sockets'[sender'].link # "gone"
  BY <1>6, <1>9, <1>10 DEF OpenOf
<1>12. \A p \in Peers : receivers'[p] # NoSocket =>
         sockets'[receivers'[p]].who = p /\ sockets'[receivers'[p]].link # "gone"
  BY <1>7, <1>9, <1>10 DEF OpenOf
<1>13. ASSUME NEW c \in SocketIds, sockets'[c].link = "open"
       PROVE  \/ sockets'[c].who = SenderRole /\ sender' = c
              \/ sockets'[c].who \in Peers /\ receivers'[sockets'[c].who] = c
  <2>1. sockets[c].link = "open" /\ sockets'[c] = sockets[c]
    BY <1>9, <1>13
  <2>2. c \in OpenOf(sockets[c].who)
    BY <2>1 DEF OpenOf
  <2>3. sockets[c].who \in Peers \cup {SenderRole}
    BY <1>2, <2>1 DEF Wired
  <2>4. QED
    BY <1>6, <1>7, <2>1, <2>2, <2>3
<1>14. Wired(sender', receivers', sockets')
  BY <1>11, <1>12, <1>13 DEF Wired
<1>15. Unused(sockets', connections)
  BY <1>2, <1>9, FewerIsWired
<1>16. ASSUME NEW p \in Peers, cleanupAt[p] # Never
       PROVE  receivers'[p] = NoSocket
  <2>1. receivers[p] = NoSocket
    BY <1>16 DEF RoomInv, DeadlineInv, Away
  <2>2. OpenOf(p) = {}
    BY <1>5, <2>1 DEF SocketIds, NoSocket
  <2>3. QED
    BY <1>7, <2>2
<1>17. StoreTypes'
  BY <1>1, <1>6, <1>8, <1>9 DEF RoomInv, StoreTypes, Fewer
<1>18. CounterTypes' /\ DeadlineInv'
  BY <1>1, <1>16 DEF RoomInv, CounterTypes, DeadlineInv, DeadlineHasAlarm, Away
<1>19. QED
  BY <1>1, <1>14, <1>15, <1>17, <1>18 DEF RoomInv, SocketInv

LEMMA RestartedKeepsInv ==
  ASSUME RoomInv, Restarted
  PROVE  RoomInv'
<1>1. /\ sockets' = [c \in SocketIds |-> Gone] /\ sender' = NoSocket
      /\ receivers' = [p \in Peers |-> NoSocket] /\ connecting' = 0 /\ restarts' = restarts + 1
      /\ UNCHANGED <<now, exists, expiresAt, cleanupAt, alarm, connections, inits>>
  BY DEF Restarted
<1>2. Gone \in Sockets /\ Gone.link # "open"
  BY DEF Gone, Sockets
<1>3. sockets' \in [SocketIds -> Sockets] /\ \A c \in SocketIds : sockets'[c] = Gone
  BY <1>1, <1>2
<1>4. SocketInv'
  BY <1>1, <1>2, <1>3 DEF SocketInv, Wired, Unused
<1>5. QED
  BY <1>1, <1>3, <1>4
     DEF RoomInv, StoreTypes, CounterTypes, DeadlineInv, DeadlineHasAlarm, Away

LEMMA InitRoomInv == Init => RoomInv
<1> SUFFICES ASSUME Init PROVE RoomInv
  OBVIOUS
<1>1. Gone \in Sockets /\ Gone.link # "open"
  BY DEF Gone, Sockets
<1>2. sockets \in [SocketIds -> Sockets] /\ \A c \in SocketIds : sockets[c] = Gone
  BY <1>1 DEF Init
<1>3. SocketInv
  BY <1>1, <1>2 DEF Init, SocketInv, Wired, Unused
<1>4. StoreTypes /\ DeadlineInv
  BY <1>2 DEF Init, StoreTypes, DeadlineInv, DeadlineHasAlarm, Away
<1>5. CounterTypes
  BY RoomAssumption DEF Init, CounterTypes
<1>6. QED
  BY <1>3, <1>4, <1>5 DEF RoomInv

\* The invariant is inductive.
LEMMA NextRoomInv == RoomInv /\ [Next]_vars => RoomInv'
<1> SUFFICES ASSUME RoomInv, [Next]_vars
             PROVE  RoomInv'
  OBVIOUS
<1>1. ASSUME NEW window \in Windows, NEW limit \in Limits,
             CreateRoom(window, limit) \/ UpdateRoom(window, limit)
      PROVE  RoomInv'
  BY <1>1, CreateRoomKeepsInv, UpdateRoomKeepsInv
<1>2. ASSUME SenderConnect \/ FinishConnect \/ Alarm \/ Hibernate
      PROVE  RoomInv'
  BY <1>2, SenderConnectKeepsInv, FinishConnectKeepsInv, AlarmKeepsInv, HibernateKeepsInv
<1>3. ASSUME NEW p \in Peers,
             ReceiverConnect(p) \/ ReceiverRefused(p) \/ SenderPairs(p) \/ Abandon(p)
      PROVE  RoomInv'
  BY <1>3, ReceiverConnectKeepsInv, ReceiverRefusedKeepsInv, SenderPairsKeepsInv, AbandonKeepsInv
<1>4. ASSUME NEW p \in Peers, NEW resumable \in BOOLEAN, ReceiverLeave(p, resumable)
      PROVE  RoomInv'
  BY <1>4, ReceiverLeaveKeepsInv
<1>5. ASSUME NEW c \in SocketIds, Pong(c) \/ Disconnect(c)
      PROVE  RoomInv'
  BY <1>5, PongKeepsInv, DisconnectKeepsInv
<1>6. ASSUME SenderLeave
      PROVE  RoomInv'
  <2>1. CloseRoom(sockets) /\ UNCHANGED <<now, connections, connecting, inits, restarts>>
    BY <1>6 DEF SenderLeave
  <2>2. StoreTypes' /\ Wired(sender', receivers', sockets') /\ Unused(sockets', connections)
        /\ DeadlineInv'
    BY <2>1, CloseRoomEffect DEF RoomInv, StoreTypes, SocketInv
  <2>3. QED
    BY <2>1, <2>2 DEF RoomInv, CounterTypes, SocketInv
<1>7. ASSUME Restart \/ \E p \in Peers : RestartInRelease(p)
      PROVE  RoomInv'
  BY <1>7, RestartedKeepsInv DEF Restart, RestartInRelease
<1>8. ASSUME UNCHANGED <<exists, expiresAt, cleanupAt, alarm, sender, receivers, sockets,
                         connections, connecting, inits, restarts>>, now' \in Nat
      PROVE  RoomInv'
  BY <1>8
     DEF RoomInv, StoreTypes, CounterTypes, SocketInv, DeadlineInv, DeadlineHasAlarm, Away
<1>9. ASSUME NEW p \in Peers, TransferComplete(p) \/ Checkpoint(p)
      PROVE  RoomInv'
  BY <1>8, <1>9 DEF TransferComplete, Checkpoint, RoomInv, CounterTypes
<1>10. ASSUME Tick \/ UNCHANGED vars
       PROVE  RoomInv'
  BY <1>8, <1>10 DEF Tick, vars, RoomInv, CounterTypes
<1>11. QED
  BY <1>1, <1>2, <1>3, <1>4, <1>5, <1>6, <1>7, <1>9, <1>10 DEF Next, Step

LEMMA RoomInvariance == Spec => []RoomInv
BY InitRoomInv, NextRoomInv, PTL DEF Spec

-----------------------------------------------------------------------------
(* The theorems.                                                           *)

\* What the room stores and remembers has its type, and the counts of its receivers
\* are never negative.
THEOREM RoomIsTyped == Spec => []TypeOK
<1>1. SlotInv /\ RoomInv => TypeOK
  <2> SUFFICES ASSUME SlotInv, RoomInv PROVE TypeOK
    OBVIOUS
  <2>1. /\ membership \in Membership /\ membership.pairedCount \in Int
        /\ membership.pairedCount - Cardinality(Members(membership)) >= 0
        /\ membership.successfulCount = Cardinality(Successful(membership))
        /\ Cardinality(Members(membership)) \in Nat /\ Cardinality(Successful(membership)) \in Nat
    BY FiniteMembers DEF SlotInv, Covered, Surplus, Membership
  <2>2. QED
    BY <2>1 DEF RoomInv, StoreTypes, CounterTypes, TypeOK
<1>2. QED
  BY <1>1, SlotInvariance, RoomInvariance, PTL

\* Two live sockets of one role never coexist: a reconnect closes the socket it
\* replaces, and a sleep, which rebuilds the room from the accepted sockets, finds
\* one open socket of each role at most.
THEOREM OneSocketOfEachRole == Spec => []OneLiveSocketPerRole
<1>1. RoomInv => OneLiveSocketPerRole
  BY DEF RoomInv, SocketInv, Wired, OneLiveSocketPerRole, Current
<1>2. QED
  BY <1>1, RoomInvariance, PTL

\* A receiver's deadline always has an alarm that comes in time for it, though each
\* handler computes the one alarm of the object anew.
THEOREM NoDeadlineIsMissed == Spec => []DeadlineHasAlarm
<1>1. RoomInv => DeadlineHasAlarm
  BY DEF RoomInv, DeadlineInv
<1>2. QED
  BY <1>1, RoomInvariance, PTL

-----------------------------------------------------------------------------
(* Why a slot is lost.                                                     *)

\* The key that setPeerState writes.
LEMMA SetPeerStateKey ==
  ASSUME NEW m \in Membership, NEW q \in Peers, NEW next, NEW n, n = SetPeerState(m, q, next)
  PROVE  n.peerState = [m.peerState EXCEPT ![q] = next]
<1>1. m = [maxTransfers |-> m.maxTransfers, pairedCount |-> m.pairedCount,
           successfulCount |-> m.successfulCount, peerState |-> m.peerState]
  BY DEF Membership
<1>2. QED
  BY <1>1 DEF SetPeerState

\* The receiver p is paired in m and has no key in n.
Unpairs(m, n, p) == m.peerState[p] = "paired" /\ n.peerState[p] = "none"

\* n is m after none but a release of p.
OnlyFreed(m, n, p) ==
  /\ n # m /\ \A limit : n # [m EXCEPT !.maxTransfers = limit]
  /\ \A q \in Peers :
       /\ n # RecordPaired(m, q)
       /\ n # RecordSuccessful(m, q, TRUE)
       /\ n # RecordResumable(m, q)
       /\ n # ClearResumable(m, q)
       /\ n = Release(m, q, TRUE) => q = p
       /\ \A force : n = ReleaseCut(m, q, force) => q = p
  /\ \A released : n = ReleaseAll(m, released) => p \in released

\* Only a release of the receiver itself takes the slot of a paired receiver.
LEMMA OnlyReleaseUnpairs ==
  ASSUME NEW m \in Membership, NEW p \in Peers, NEW n, Unpairs(m, n, p)
  PROVE  OnlyFreed(m, n, p)
<1>0. m.peerState[p] = "paired" /\ n.peerState[p] = "none"
  BY DEF Unpairs
<1>1. n # m /\ \A limit : n # [m EXCEPT !.maxTransfers = limit]
  BY <1>0 DEF Membership
<1>2. \A q \in Peers : \A next : n = SetPeerState(m, q, next) => q = p /\ next = "none"
  <2> SUFFICES ASSUME NEW q \in Peers, NEW next, n = SetPeerState(m, q, next)
               PROVE  q = p /\ next = "none"
    OBVIOUS
  <2>1. n.peerState = [m.peerState EXCEPT ![q] = next] /\ m.peerState \in [Peers -> PeerState]
    BY SetPeerStateKey DEF Membership
  <2>2. QED
    BY <1>0, <2>1
<1>3. ASSUME NEW q \in Peers
      PROVE  /\ n # RecordPaired(m, q)
             /\ n # RecordSuccessful(m, q, TRUE)
             /\ n # RecordResumable(m, q)
             /\ n # ClearResumable(m, q)
             /\ n = Release(m, q, TRUE) => q = p
  <2>1. \A next : n = SetPeerState(m, q, next) => q = p /\ next = "none"
    BY <1>2
  <2>2. n # RecordPaired(m, q) /\ n # RecordSuccessful(m, q, TRUE)
    BY <1>1, <2>1 DEF RecordPaired, RecordSuccessful
  <2>3. n # RecordResumable(m, q) /\ n # ClearResumable(m, q)
    BY <1>1, <2>1 DEF RecordResumable, ClearResumable
  <2>4. n = Release(m, q, TRUE) => q = p
    BY <1>1, <2>1 DEF Release
  <2>5. QED
    BY <2>2, <2>3, <2>4
<1>4. ASSUME NEW q \in Peers, NEW force, n = ReleaseCut(m, q, force)
      PROVE  q = p
  <2>1. n = [m EXCEPT !.peerState[q] = "none"]
    BY <1>1, <1>4 DEF ReleaseCut
  <2>2. n.peerState = [m.peerState EXCEPT ![q] = "none"]
    BY <2>1 DEF Membership
  <2>3. QED
    BY <1>0, <2>2 DEF Membership
<1>5. ASSUME NEW released, n = ReleaseAll(m, released)
      PROVE  p \in released
  <2> DEFINE freed == {q \in released : m.peerState[q] \in Releasable(FALSE)}
             states == [q \in Peers |-> IF q \in freed THEN "none" ELSE m.peerState[q]]
             count == m.pairedCount - Cardinality(freed)
  <2>1. n = [m EXCEPT !.peerState = states, !.pairedCount = count]
    BY <1>5 DEF ReleaseAll
  <2>2. states[p] # "none" \/ p \in freed
    BY <1>0
  <2> HIDE DEF states, count
  <2>3. n.peerState = states
    BY <2>1 DEF Membership
  <2>4. QED
    BY <1>0, <2>2, <2>3
<1>6. QED
  BY <1>1, <1>3, <1>4, <1>5 DEF OnlyFreed

\* Rescheduling the alarm closes the room only when it expired without a sender or
\* a deadline is overdue.
LEMMA RescheduleClosesOverdue ==
  ASSUME now \in Nat, NEW expiry \in Nat, NEW members,
         NEW deadlines \in [Peers -> Nat \cup {Never}], NEW snd, NEW rcv, NEW socks,
         Reschedule(expiry, members, deadlines, snd, rcv, socks)
  PROVE  \/ membership' = members
         \/ sender' = NoSocket /\ snd = NoSocket /\ expiry <= now
         \/ ~exists' /\ \E p \in Peers : deadlines[p] # Never /\ deadlines[p] <= now
<1> DEFINE next == NextAlarmAt(expiry, deadlines, snd, socks)
<1>1. next # Never /\ next <= now =>
        \/ snd = NoSocket /\ expiry <= now
        \/ \E p \in Peers : deadlines[p] # Never /\ deadlines[p] <= now
  BY NextAlarm
<1> HIDE DEF next
<1>2. CASE next # Never /\ next <= now /\ CloseRoom(socks)
  BY <1>1, <1>2 DEF CloseRoom
<1>3. CASE membership' = members
  BY <1>3
<1>4. QED
  BY <1>2, <1>3 DEF Reschedule, next

\* A slot that is lost was given back, or was overdue, or its room was.
LEMMA LostForAReason ==
  ASSUME SlotInv, RoomInv, Next, NEW p \in Peers, LosesSlot(p)
  PROVE  MayLoseSlot(p) \/ (~exists' /\ \E q \in Peers : Overdue(q))
<1> DEFINE Excused == MayLoseSlot(p) \/ (~exists' /\ \E q \in Peers : Overdue(q))
<1>1. /\ membership \in Membership /\ membership.peerState[p] = "paired"
      /\ membership'.peerState[p] = "none"
      /\ now \in Nat /\ expiresAt \in Nat /\ cleanupAt \in [Peers -> Nat \cup {Never}]
  BY DEF SlotInv, RoomInv, StoreTypes, CounterTypes, LosesSlot
<1>2. /\ membership' # membership
      /\ \A limit : membership' # [membership EXCEPT !.maxTransfers = limit]
      /\ \A q \in Peers :
           /\ membership' # RecordPaired(membership, q)
           /\ membership' # RecordSuccessful(membership, q, TRUE)
           /\ membership' # RecordResumable(membership, q)
           /\ membership' # ClearResumable(membership, q)
           /\ membership' = Release(membership, q, TRUE) => q = p
           /\ \A force : membership' = ReleaseCut(membership, q, force) => q = p
      /\ \A released : membership' = ReleaseAll(membership, released) => p \in released
  <2>1. Unpairs(membership, membership', p)
    BY <1>1 DEF Unpairs
  <2>2. OnlyFreed(membership, membership', p)
    BY <1>1, <2>1, OnlyReleaseUnpairs
  <2>3. QED
    BY <2>2 DEF OnlyFreed
<1>3. \A q \in Peers : cleanupAt[q] # Never /\ cleanupAt[q] <= now => Overdue(q)
  BY DEF RoomInv, DeadlineInv, Away, Overdue
<1>4. \A q \in Released : Overdue(q)
  BY <1>1 DEF Released, Settled, Overdue
<1>5. sender' = NoSocket /\ expiresAt <= now => Excused
  BY <1>1 DEF MayLoseSlot
<1>6. ASSUME NEW window \in Windows, NEW limit \in Limits, CreateRoom(window, limit)
      PROVE  Excused
  BY <1>1, <1>5, <1>6 DEF CreateRoom, Active
<1>7. ASSUME NEW window \in Windows, NEW limit \in Limits, UpdateRoom(window, limit)
      PROVE  Excused
  <2>1. now + window \in Nat /\ window \in Nat
    BY <1>1, RoomAssumption
  <2>2. \/ membership' = [membership EXCEPT !.maxTransfers = limit]
        \/ sender' = NoSocket /\ sender = NoSocket /\ now + window <= now
        \/ ~exists' /\ \E q \in Peers : cleanupAt[q] # Never /\ cleanupAt[q] <= now
    BY <1>1, <1>7, <2>1, RescheduleClosesOverdue DEF UpdateRoom
  <2>3. now + window <= now => window = 0
    BY <1>1, <2>1
  <2>4. window = 0 => UpdateRoom(0, limit)
    BY <1>7
  <2>5. sender' = NoSocket /\ window = 0 => MayLoseSlot(p)
    BY <2>4 DEF MayLoseSlot
  <2>6. QED
    BY <1>2, <1>3, <2>2, <2>3, <2>5
<1>8. ASSUME FinishConnect
      PROVE  Excused
  <2>1. \/ membership' = membership
        \/ sender' = NoSocket /\ sender = NoSocket /\ expiresAt <= now
        \/ ~exists' /\ \E q \in Peers : cleanupAt[q] # Never /\ cleanupAt[q] <= now
    BY <1>1, <1>8, RescheduleClosesOverdue DEF FinishConnect
  <2>2. QED
    BY <1>2, <1>3, <1>5, <2>1
<1>9. ASSUME NEW q \in Peers, SenderPairs(q) \/ TransferComplete(q) \/ Checkpoint(q)
      PROVE  Excused
  BY <1>2, <1>9 DEF SenderPairs, TransferComplete, Checkpoint
<1>10. ASSUME NEW q \in Peers, Abandon(q)
       PROVE  Excused
  BY <1>2, <1>10 DEF Abandon, MayLoseSlot
<1>11. ASSUME NEW q \in Peers, NEW resumable \in BOOLEAN, ReceiverLeave(q, resumable)
       PROVE  Excused
  <2> DEFINE left == IF resumable /\ ResumeAccepted(membership, q)
                     THEN RecordResumable(membership, q)
                     ELSE Release(membership, q, TRUE)
  <2>1. PICK members, deadlines, r, socks :
          /\ members = left
          /\ deadlines = [cleanupAt EXCEPT ![q] = Never]
          /\ Reschedule(expiresAt, members, deadlines, sender, r, socks)
    BY <1>11 DEF ReceiverLeave, Without
  <2>2. /\ deadlines \in [Peers -> Nat \cup {Never}]
        /\ \A o \in Peers : deadlines[o] # Never => deadlines[o] = cleanupAt[o]
    BY <1>1, <2>1
  <2>3. \/ membership' = members
        \/ sender' = NoSocket /\ sender = NoSocket /\ expiresAt <= now
        \/ ~exists' /\ \E o \in Peers : deadlines[o] # Never /\ deadlines[o] <= now
    BY <1>1, <2>1, <2>2, RescheduleClosesOverdue
  <2>4. membership' = members => Excused
    BY <1>2, <1>11, <2>1 DEF MayLoseSlot
  <2>5. QED
    BY <1>3, <1>5, <2>2, <2>3, <2>4
<1>12. ASSUME NEW c \in SocketIds, Pong(c)
       PROVE  Excused
  BY <1>2, <1>12 DEF Pong
<1>13. ASSUME NEW c \in SocketIds, Disconnect(c)
       PROVE  Excused
  <2> DEFINE left == [sockets EXCEPT ![c] = Gone]
             who == sockets[c].who
  <2>1. CASE SenderGone(left)
    <3>1. CASE CloseRoom(left) /\ expiresAt <= now
      BY <1>5, <3>1 DEF CloseRoom
    <3>2. CASE Reschedule(expiresAt, membership, cleanupAt, NoSocket, receivers, left)
      <4>1. \/ membership' = membership
            \/ sender' = NoSocket /\ expiresAt <= now
            \/ ~exists' /\ \E q \in Peers : cleanupAt[q] # Never /\ cleanupAt[q] <= now
        BY <1>1, <3>2, RescheduleClosesOverdue
      <4>2. QED
        BY <1>2, <1>3, <1>5, <4>1
    <3>3. QED
      BY <2>1, <3>1, <3>2 DEF SenderGone
  <2>2. CASE Current(c) /\ who # SenderRole /\ ReceiverGone(who, left)
    <3> DEFINE deadlines == [cleanupAt EXCEPT ![who] = now + ReconnectGrace]
    <3>1. who \in Peers
      BY <2>2, CurrentIsWired DEF RoomInv, SocketInv
    <3>2. now + ReconnectGrace \in Nat /\ now + ReconnectGrace > now
      BY <1>1, RoomAssumption
    <3>3. /\ deadlines \in [Peers -> Nat \cup {Never}]
          /\ \A q \in Peers : deadlines[q] # Never /\ deadlines[q] <= now =>
               cleanupAt[q] # Never /\ cleanupAt[q] <= now
      BY <1>1, <3>1, <3>2
    <3> HIDE DEF left
    <3>4. \/ membership' = membership
          \/ sender' = NoSocket /\ sender = NoSocket /\ expiresAt <= now
          \/ ~exists' /\ \E q \in Peers : deadlines[q] # Never /\ deadlines[q] <= now
      <4>1. PICK r, d : d = deadlines /\ Reschedule(expiresAt, membership, d, sender, r, left)
        BY <2>2 DEF ReceiverGone
      <4> HIDE DEF deadlines
      <4>2. QED
        BY <1>1, <3>3, <4>1, RescheduleClosesOverdue
    <3>5. QED
      BY <1>2, <1>3, <1>5, <3>3, <3>4
  <2>3. CASE UNCHANGED membership
    BY <1>2, <2>3
  <2>4. QED
    BY <1>13, <2>1, <2>2, <2>3 DEF Disconnect
<1>14. ASSUME Alarm
       PROVE  Excused
  <2>1. CASE CloseRoom(Heartbeat(sockets)) /\ now >= expiresAt
    BY <1>1, <1>5, <2>1 DEF CloseRoom
  <2>2. CASE membership' = ReleaseAll(membership, Released)
    BY <1>2, <1>4, <2>2 DEF MayLoseSlot
  <2>3. QED
    BY <1>14, <2>1, <2>2 DEF Alarm
<1>15. ASSUME NEW q \in Peers, RestartInRelease(q)
       PROVE  Excused
  <2>1. CASE FromReceiver(q) /\ membership' = ReleaseCut(membership, q, TRUE)
    BY <1>2, <1>15, <2>1 DEF MayLoseSlot
  <2>2. CASE /\ q \in Released
             /\ \E before \in SUBSET (Released \ {q}) :
                  membership' = ReleaseCut(ReleaseAll(membership, before), q, FALSE)
    <3>1. PICK before \in SUBSET (Released \ {q}) :
            membership' = ReleaseCut(ReleaseAll(membership, before), q, FALSE)
      BY <2>2
    <3> DEFINE m == ReleaseAll(membership, before)
    <3>2. m \in Membership
      <4>1. before \in SUBSET Peers
        BY DEF Released
      <4>2. QED
        BY <1>1, <4>1, ReleaseAllEffect DEF Balanced
    <3>3. membership' = ReleaseCut(m, q, FALSE)
      BY <3>1
    <3>4. m.peerState[p] = "none" => p \in before
      <4>1. Unpairs(membership, m, p) => OnlyFreed(membership, m, p)
        BY <1>1, OnlyReleaseUnpairs
      <4>2. QED
        BY <1>1, <4>1 DEF Unpairs, OnlyFreed
    <3>5. m.peerState[p] \in {"none", "paired"}
      <4> DEFINE freed == {o \in before : membership.peerState[o] \in Releasable(FALSE)}
                 states == [o \in Peers |-> IF o \in freed THEN "none" ELSE membership.peerState[o]]
                 count == membership.pairedCount - Cardinality(freed)
      <4>1. m = [membership EXCEPT !.peerState = states, !.pairedCount = count]
        BY DEF ReleaseAll
      <4>2. states[p] \in {"none", "paired"}
        BY <1>1
      <4> HIDE DEF states, count, m
      <4>3. m.peerState = states
        BY <1>1, <4>1 DEF Membership
      <4>4. QED
        BY <4>2, <4>3
    <3> HIDE DEF m
    <3>6. m.peerState[p] = "paired" => q = p
      <4>1. Unpairs(m, membership', p) => OnlyFreed(m, membership', p)
        BY <3>2, OnlyReleaseUnpairs
      <4>2. QED
        BY <1>1, <3>3, <4>1 DEF Unpairs, OnlyFreed
    <3>7. p \in Released
      BY <2>2, <3>4, <3>5, <3>6
    <3>8. QED
      BY <1>4, <3>7 DEF MayLoseSlot
  <2>3. QED
    BY <1>15, <2>1, <2>2 DEF RestartInRelease
<1>16. ASSUME SenderLeave
       PROVE  Excused
  BY <1>16 DEF MayLoseSlot
<1>17. ASSUME NEW q \in Peers, ReceiverConnect(q) \/ ReceiverRefused(q)
       PROVE  Excused
  BY <1>2, <1>17 DEF ReceiverConnect, ReceiverRefused
<1>18. ASSUME SenderConnect \/ Tick \/ Hibernate \/ Restart
       PROVE  Excused
  BY <1>2, <1>18 DEF SenderConnect, Tick, Hibernate, Restart
<1> HIDE DEF Excused
<1>19. Excused
  BY <1>6, <1>7, <1>8, <1>9, <1>10, <1>11, <1>12, <1>13, <1>14, <1>15, <1>16, <1>17, <1>18
     DEF Next, Step
<1>20. QED
  BY <1>19 DEF Excused

\* The slot of a receiver that is paired is lost only when the receiver or the sender
\* gave it back, the room expired, or the receiver stayed away beyond its grace
\* period; or because the room was closed for another receiver that was overdue.
THEOREM SlotsAreKept == Spec => SlotKeptUnlessOverdue
<1>1. SlotInv /\ RoomInv /\ [Next]_vars =>
        [\A p \in Peers :
           LosesSlot(p) => MayLoseSlot(p) \/ (~exists' /\ \E q \in Peers : Overdue(q))]_vars
  BY LostForAReason
<1>2. QED
  BY <1>1, SlotInvariance, RoomInvariance, PTL DEF Spec, SlotKeptUnlessOverdue

-----------------------------------------------------------------------------
(* What wakes a room.                                                      *)

\* The sender's socket, while it is neither open nor forgotten, is about to be
\* reported closed.
LEMMA ClosingSenderWakes ==
  ASSUME StoreTypes', Wired(sender, receivers, sockets)', sender' # NoSocket, ~HasOpen(sockets)'
  PROVE  WatchInv'
<1>1. sender' \in SocketIds /\ sockets'[sender'] \in Sockets
  BY DEF StoreTypes
<1>2. sockets'[sender'].who = SenderRole /\ sockets'[sender'].link = "closing"
  BY <1>1 DEF Wired, HasOpen, Sockets
<1>3. Current(sender)'
  BY <1>2 DEF Current
<1>4. QED
  BY <1>1, <1>2, <1>3 DEF WatchInv

\* rescheduleRoomAlarm leaves an alarm, no room, or a sender whose socket is closing.
LEMMA RescheduleWakes ==
  ASSUME now \in Nat, NEW expiry \in Nat, NEW members,
         NEW deadlines \in [Peers -> Nat \cup {Never}], NEW snd, NEW rcv, NEW socks,
         Reschedule(expiry, members, deadlines, snd, rcv, socks),
         StoreTypes', Wired(sender, receivers, sockets)'
  PROVE  WatchInv'
<1> DEFINE next == NextAlarmAt(expiry, deadlines, snd, socks)
<1>1. next = Never => snd # NoSocket /\ ~HasOpen(socks)
  BY NextAlarm
<1> HIDE DEF next
<1>2. CASE CloseRoom(socks)
  BY <1>2 DEF CloseRoom, WatchInv
<1>3. CASE alarm' = next /\ sender' = snd /\ sockets' = socks
  <2>1. CASE next # Never
    BY <1>3, <2>1 DEF WatchInv
  <2>2. CASE next = Never
    <3>1. sender' # NoSocket /\ ~HasOpen(sockets)'
      BY <1>1, <1>3, <2>2
    <3>2. QED
      BY <3>1, ClosingSenderWakes
  <2>3. QED
    BY <2>1, <2>2
<1>4. QED
  BY <1>2, <1>3 DEF Reschedule, next

\* While a socket is open the room has an alarm or a credential fetch.
LEMMA OpenRoomIsWatched ==
  ASSUME WatchInv, NEW c \in SocketIds, sockets[c].link = "open",
         UNCHANGED <<exists, alarm, connecting>>
  PROVE  WatchInv'
BY DEF WatchInv, HasOpen

LEMMA StepKeepsWatch ==
  ASSUME RoomInv, RoomInv', WatchInv, Step
  PROVE  WatchInv'
<1>1. /\ now \in Nat /\ expiresAt \in Nat /\ cleanupAt \in [Peers -> Nat \cup {Never}]
      /\ sender \in SocketIds \cup {NoSocket}
      /\ receivers \in [Peers -> SocketIds \cup {NoSocket}]
      /\ sockets \in [SocketIds -> Sockets]
      /\ connections \in Nat /\ connecting \in Nat
      /\ Wired(sender, receivers, sockets) /\ Unused(sockets, connections)
  BY RoomAssumption DEF RoomInv, StoreTypes, CounterTypes, SocketInv
<1>2. StoreTypes' /\ Wired(sender, receivers, sockets)'
  BY DEF RoomInv, SocketInv
<1>3. ASSUME NEW window \in Windows, NEW limit \in Limits, CreateRoom(window, limit)
      PROVE  WatchInv'
  <2>1. alarm' = now + window /\ now + window \in Nat
    BY <1>1, <1>3, RoomAssumption DEF CreateRoom, InitRoom
  <2>2. QED
    BY <2>1 DEF WatchInv, Never
<1>4. ASSUME NEW window \in Windows, NEW limit \in Limits, UpdateRoom(window, limit)
      PROVE  WatchInv'
  <2>1. now + window \in Nat
    BY <1>1, RoomAssumption
  <2>2. QED
    BY <1>1, <1>2, <1>4, <2>1, RescheduleWakes DEF UpdateRoom
<1>5. ASSUME SenderConnect \/ \E p \in Peers : ReceiverConnect(p)
      PROVE  WatchInv'
  <2>1. connecting' = connecting + 1
    BY <1>5 DEF SenderConnect, ReceiverConnect
  <2>2. QED
    BY <1>1, <2>1 DEF WatchInv
<1>6. ASSUME NEW p \in Peers, ReceiverRefused(p)
      PROVE  WatchInv'
  <2> DEFINE n == connections + 1
  <2>1. /\ n \in SocketIds /\ sockets[n] = Gone
        /\ sockets' = [sockets EXCEPT ![n] = TerminalSocket(p)]
        /\ UNCHANGED <<exists, alarm, connecting, sender, receivers>>
    BY <1>1, <1>6, RoomAssumption DEF ReceiverRefused, Accept, SocketIds, Unused
  <2> HIDE DEF n
  <2>2. \A c \in SocketIds : sockets'[c].link = "open" => sockets[c].link = "open"
    BY <1>1, <2>1 DEF TerminalSocket
  <2>3. ASSUME NEW c \in SocketIds, Current(c), sockets[c].link = "closing"
        PROVE  Current(c)' /\ sockets'[c].link = "closing"
    <3>1. sockets'[c] = sockets[c]
      BY <1>1, <2>1, <2>3 DEF Gone
    <3>2. QED
      BY <2>1, <2>3, <3>1 DEF Current
  <2>4. QED
    BY <2>1, <2>2, <2>3 DEF WatchInv, HasOpen
<1>7. ASSUME FinishConnect
      PROVE  WatchInv'
  BY <1>1, <1>2, <1>7, RescheduleWakes DEF FinishConnect
<1>8. ASSUME NEW p \in Peers,
             SenderPairs(p) \/ TransferComplete(p) \/ Checkpoint(p) \/ Abandon(p)
      PROVE  WatchInv'
  <2>1. PICK c \in SocketIds : sockets[c].link = "open"
    BY <1>1, <1>8
       DEF SenderPairs, TransferComplete, Checkpoint, Abandon, FromSender, FromReceiver
  <2>2. UNCHANGED <<exists, alarm, connecting>>
    BY <1>8 DEF SenderPairs, TransferComplete, Checkpoint, Abandon
  <2>3. QED
    BY <2>1, <2>2, OpenRoomIsWatched
<1>9. ASSUME SenderLeave
      PROVE  WatchInv'
  BY <1>9 DEF SenderLeave, CloseRoom, WatchInv
<1>10. ASSUME NEW p \in Peers, NEW resumable \in BOOLEAN, ReceiverLeave(p, resumable)
       PROVE  WatchInv'
  <2>1. PICK members, deadlines, r, socks :
          /\ deadlines = [cleanupAt EXCEPT ![p] = Never]
          /\ Reschedule(expiresAt, members, deadlines, sender, r, socks)
    BY <1>10 DEF ReceiverLeave, Without
  <2>2. deadlines \in [Peers -> Nat \cup {Never}]
    BY <1>1, <2>1
  <2>3. QED
    BY <1>1, <1>2, <2>1, <2>2, RescheduleWakes
<1>11. ASSUME NEW c \in SocketIds, Pong(c)
       PROVE  WatchInv'
  BY <1>11, OpenRoomIsWatched DEF Pong
<1>12. ASSUME NEW c \in SocketIds, Disconnect(c)
       PROVE  WatchInv'
  <2> DEFINE left == [sockets EXCEPT ![c] = Gone]
             who == sockets[c].who
  <2>1. CASE SenderGone(left)
    <3>1. CASE CloseRoom(left)
      BY <3>1 DEF CloseRoom, WatchInv
    <3>2. CASE Reschedule(expiresAt, membership, cleanupAt, NoSocket, receivers, left)
      BY <1>1, <1>2, <3>2, RescheduleWakes
    <3>3. QED
      BY <2>1, <3>1, <3>2 DEF SenderGone
  <2>2. CASE Current(c) /\ who # SenderRole /\ ReceiverGone(who, left)
    <3>1. PICK deadlines, r :
            /\ deadlines = [cleanupAt EXCEPT ![who] = now + ReconnectGrace]
            /\ Reschedule(expiresAt, membership, deadlines, sender, r, left)
      BY <2>2 DEF ReceiverGone
    <3>2. now + ReconnectGrace \in Nat
      BY <1>1, RoomAssumption
    <3>3. deadlines \in [Peers -> Nat \cup {Never}]
      BY <1>1, <3>1, <3>2
    <3> HIDE DEF left, who
    <3>4. QED
      BY <1>1, <1>2, <3>1, <3>3, RescheduleWakes
  <2>3. CASE /\ ~Current(c) /\ sockets' = left
             /\ UNCHANGED <<exists, expiresAt, membership, cleanupAt, alarm, sender, receivers>>
    <3>1. UNCHANGED connecting
      BY <1>12 DEF Disconnect
    <3>2. left[c] = Gone /\ \A d \in SocketIds : d # c => left[d] = sockets[d]
      BY <1>1
    <3>3. \A d \in SocketIds : sockets'[d].link = "open" => sockets[d].link = "open"
      BY <2>3, <3>2 DEF Gone
    <3>4. ASSUME NEW d \in SocketIds, Current(d), sockets[d].link = "closing"
          PROVE  Current(d)' /\ sockets'[d].link = "closing"
      <4>1. sockets'[d] = sockets[d]
        BY <2>3, <3>2, <3>4
      <4>2. QED
        BY <2>3, <3>4, <4>1 DEF Current
    <3>5. QED
      BY <2>3, <3>1, <3>3, <3>4 DEF WatchInv, HasOpen
  <2>4. QED
    BY <1>12, <2>1, <2>2, <2>3 DEF Disconnect
<1>13. ASSUME Alarm
       PROVE  WatchInv'
  <2> DEFINE socks == Heartbeat(sockets)
             deadlines == [p \in Peers |-> IF Settled(p) THEN Never ELSE cleanupAt[p]]
             times == {IF sender = NoSocket THEN expiresAt ELSE Never,
                       IF HasOpen(socks) THEN now + HeartbeatInterval ELSE Never}
                      \cup {deadlines[p] : p \in Peers}
             next == Earliest(times)
  <2>1. CASE CloseRoom(socks)
    BY <2>1 DEF CloseRoom, WatchInv
  <2>2. CASE /\ sender # NoSocket \/ now < expiresAt
             /\ alarm' = IF next > now THEN next ELSE Never
             /\ sockets' = socks
             /\ UNCHANGED sender
    <3>1. deadlines \in [Peers -> Nat \cup {Never}] /\ \A p \in Peers : deadlines[p] # Never => deadlines[p] > now
      BY <1>1 DEF Settled, RoomInv, DeadlineInv, Away
    <3>2. /\ times \subseteq Nat \cup {Never}
          /\ \A t \in times : t # Never => t > now
          /\ sender = NoSocket => expiresAt \in times
          /\ HasOpen(socks) => now + HeartbeatInterval \in times
          /\ expiresAt # Never /\ now + HeartbeatInterval # Never
      BY <1>1, <2>2, <3>1, RoomAssumption DEF Never
    <3> HIDE DEF times, deadlines, socks
    <3>3. CASE times \ {Never} = {}
      <4>1. sender' # NoSocket /\ ~HasOpen(sockets)'
        BY <2>2, <3>2, <3>3
      <4>2. QED
        BY <1>2, <4>1, ClosingSenderWakes
    <3>4. CASE times \ {Never} # {}
      <4>1. next > now /\ next # Never
        BY <3>2, <3>4, EarliestIsLeast
      <4>2. QED
        BY <2>2, <4>1 DEF WatchInv
    <3>5. QED
      BY <3>3, <3>4
  <2>3. QED
    BY <1>13, <2>1, <2>2 DEF Alarm
<1>14. ASSUME Tick
       PROVE  WatchInv'
  BY <1>14 DEF Tick, WatchInv, HasOpen, Current
<1>15. QED
  BY <1>3, <1>4, <1>5, <1>6, <1>7, <1>8, <1>9, <1>10, <1>11, <1>12, <1>13, <1>14 DEF Step

\* While the platform neither stops the object nor lets it sleep, a stored room has
\* an alarm, or a fetch or a close it waits for will set one: no handler leaves it
\* to be forgotten.
THEOREM RoomIsNeverForgotten == FairSpec => []RoomIsWatched
<1>1. Init => WatchInv
  BY DEF Init, WatchInv
<1>2. [Step]_vars => [Next]_vars
  BY DEF Next
<1>3. RoomInv /\ WatchInv /\ [Step]_vars => RoomInv' /\ WatchInv'
  <2> SUFFICES ASSUME RoomInv, WatchInv, [Step]_vars
               PROVE  RoomInv' /\ WatchInv'
    OBVIOUS
  <2>1. RoomInv'
    BY <1>2, NextRoomInv
  <2>2. CASE Step
    BY <2>1, <2>2, StepKeepsWatch
  <2>3. CASE UNCHANGED vars
    <3>1. UNCHANGED <<exists, alarm, connecting, sender, receivers, sockets>>
      BY <2>3 DEF vars
    <3>2. QED
      BY <2>1, <3>1 DEF WatchInv, HasOpen, Current
  <2>4. QED
    BY <2>1, <2>2, <2>3
<1>4. WatchInv => RoomIsWatched
  BY DEF WatchInv, RoomIsWatched
<1>5. Init /\ [][Step]_vars => []RoomIsWatched
  BY <1>1, <1>3, <1>4, InitRoomInv, PTL
<1>6. FairSpec => Init /\ [][Step]_vars
  BY PTL DEF FairSpec
<1>7. QED
  BY <1>5, <1>6, PTL

=============================================================================
