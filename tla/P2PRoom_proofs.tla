--------------------------- MODULE P2PRoom_proofs ---------------------------
(***************************************************************************)
(* The slots of a P2P room, for any set of receivers, limits, clocks and   *)
(* number of crashes.  Every event of the room changes the stored          *)
(* membership by one method of RoomMembership, by a new room, by a new     *)
(* limit or by a release that a crash cut short; so the counts always      *)
(* cover the receivers they count, and the room keeps the promise of       *)
(* ReceiverSlots.                                                          *)
(***************************************************************************)
EXTENDS P2PRoom, RoomMembership_proofs

\* What an event that is not a crash does to the membership m.
MemberMove(m, n) ==
  \/ n = m
  \/ \E limit \in Nat : n = [NoMembership EXCEPT !.maxTransfers = limit]
  \/ \E limit \in Nat : n = [m EXCEPT !.maxTransfers = limit]
  \/ \E p \in Peers : n = RecordPaired(m, p)
  \/ \E p \in Peers : n = RecordSuccessful(m, p, TRUE)
  \/ \E p \in Peers : n \in {RecordResumable(m, p), ClearResumable(m, p)}
  \/ \E p \in Peers : n = Release(m, p, TRUE)
  \/ \E released \in SUBSET Peers : n = ReleaseAll(m, released)

\* What a crash may leave of the membership m.
CutMove(m, n) ==
  \/ n = m
  \/ \E p \in Peers : n = ReleaseCut(m, p, TRUE)
  \/ \E p \in Peers, before \in SUBSET Peers : n = ReleaseCut(ReleaseAll(m, before), p, FALSE)

\* The same in terms of slots.
SlotMove(m, n) ==
  \/ Keeps(m, n)
  \/ \E p \in Peers : Takes(m, n, p) \/ Finishes(m, n, p)
  \/ \E released \in SUBSET Peers : GivesBack(m, n, released)
  \/ Members(n) = Members(m) /\ Successful(n) = Successful(m) /\ n.maxTransfers \in Nat
  \/ Members(n) = {} /\ Successful(n) = {} /\ n.maxTransfers \in Nat

\* The inductive invariant: the promise about the counts needs the exact surplus
\* of a room that never crashed, and the coverage of every other.
SlotInv ==
  /\ membership \in Membership
  /\ Covered(membership)
  /\ restarts \in Nat
  /\ restarts = 0 => Surplus(membership) = 0

\* What an empty storage is read as.
LEMMA NoMembershipType ==
  /\ NoMembership \in Membership /\ NoMembership = [NoMembership EXCEPT !.maxTransfers = 0]
  /\ NoMembership.pairedCount = 0 /\ NoMembership.successfulCount = 0
  /\ Members(NoMembership) = {} /\ Successful(NoMembership) = {}
<1> DEFINE states == [p \in Peers |-> "none"]
<1>1. states \in [Peers -> PeerState]
  BY DEF PeerState
<1>2. NoMembership = [maxTransfers |-> 0, pairedCount |-> 0, successfulCount |-> 0,
                      peerState |-> states]
  BY DEF NoMembership
<1>3. Members(NoMembership) = {} /\ Successful(NoMembership) = {}
  BY DEF NoMembership, Members, Successful
<1> HIDE DEF states
<1>4. NoMembership \in Membership
  BY <1>1, <1>2 DEF Membership
<1>5. NoMembership = [NoMembership EXCEPT !.maxTransfers = 0]
  BY <1>2
<1>6. NoMembership.pairedCount = 0 /\ NoMembership.successfulCount = 0
  BY <1>2
<1>7. QED
  BY <1>3, <1>4, <1>5, <1>6

\* A room that was just created has no members and counts none.
LEMMA EmptyMembership ==
  ASSUME NEW limit \in Nat, NEW n, n = [NoMembership EXCEPT !.maxTransfers = limit]
  PROVE  /\ n \in Membership /\ Covered(n) /\ Surplus(n) = 0
         /\ Members(n) = {} /\ Successful(n) = {} /\ n.maxTransfers = limit
<1>1. /\ n \in Membership
      /\ n.peerState = NoMembership.peerState /\ n.pairedCount = 0
      /\ n.successfulCount = 0 /\ n.maxTransfers = limit
  BY NoMembershipType DEF Membership
<1>2. Members(n) = Members(NoMembership) /\ Successful(n) = Successful(NoMembership)
  BY <1>1 DEF Members, Successful
<1>3. Cardinality(Members(n)) = 0 /\ Cardinality(Successful(n)) = 0
  BY <1>2, NoMembershipType, FS_EmptySet
<1>4. Surplus(n) = 0 /\ Covered(n)
  <2>1. Surplus(n) = 0
    BY <1>1, <1>3 DEF Surplus
  <2>2. QED
    BY <1>1, <1>3, <2>1 DEF Covered
<1>5. QED
  BY <1>1, <1>2, <1>4, NoMembershipType

\* A new limit leaves the members and their counts alone.
LEMMA LimitEffect ==
  ASSUME NEW m \in Membership, NEW limit \in Nat, NEW n, n = [m EXCEPT !.maxTransfers = limit]
  PROVE  /\ Balanced(m, n)
         /\ Members(n) = Members(m) /\ Successful(n) = Successful(m) /\ n.maxTransfers = limit
<1>1. n \in Membership
  BY DEF Membership
<1>2. /\ n.peerState = m.peerState /\ n.pairedCount = m.pairedCount
      /\ n.successfulCount = m.successfulCount /\ n.maxTransfers = limit
  BY DEF Membership
<1>3. Members(n) = Members(m) /\ Successful(n) = Successful(m)
  BY <1>2 DEF Members, Successful
<1>4. QED
  BY <1>1, <1>2, <1>3 DEF Balanced, Covered, Surplus

\* Every event but a crash keeps the counts as exact as they were.
LEMMA MemberMoveEffect ==
  ASSUME NEW m \in Membership, Covered(m), NEW n, MemberMove(m, n)
  PROVE  /\ n \in Membership /\ Covered(n) /\ (Surplus(m) = 0 => Surplus(n) = 0)
         /\ SlotMove(m, n)
<1>1. CASE n = m
  BY <1>1, UnchangedIsBalanced DEF Balanced, SlotMove
<1>2. CASE \E limit \in Nat : n = [NoMembership EXCEPT !.maxTransfers = limit]
  BY <1>2, EmptyMembership DEF SlotMove
<1>3. CASE \E limit \in Nat : n = [m EXCEPT !.maxTransfers = limit]
  BY <1>3, LimitEffect DEF Balanced, SlotMove
<1>4. CASE \E p \in Peers : n = RecordPaired(m, p)
  BY <1>4, RecordPairedEffect DEF Balanced, SlotMove
<1>5. CASE \E p \in Peers : n = RecordSuccessful(m, p, TRUE)
  BY <1>5, RecordSuccessfulEffect DEF Balanced, SlotMove
<1>6. CASE \E p \in Peers : n \in {RecordResumable(m, p), ClearResumable(m, p)}
  BY <1>6, CheckpointEffect DEF Balanced, SlotMove
<1>7. CASE \E p \in Peers : n = Release(m, p, TRUE)
  <2>1. PICK p \in Peers : n = Release(m, p, TRUE)
    BY <1>7
  <2>2. Balanced(m, n) /\ (Keeps(m, n) \/ GivesBack(m, n, {p}))
    BY <2>1, ReleaseEffect
  <2>3. {p} \in SUBSET Peers
    OBVIOUS
  <2>4. QED
    BY <2>2, <2>3 DEF Balanced, SlotMove
<1>8. CASE \E released \in SUBSET Peers : n = ReleaseAll(m, released)
  <2>1. PICK released \in SUBSET Peers : n = ReleaseAll(m, released)
    BY <1>8
  <2>2. Balanced(m, n) /\ GivesBack(m, n, {p \in released : m.peerState[p] = "paired"})
    BY <2>1, ReleaseAllEffect
  <2>3. {p \in released : m.peerState[p] = "paired"} \in SUBSET Peers
    OBVIOUS
  <2>4. QED
    BY <2>2, <2>3 DEF Balanced, SlotMove
<1>9. QED
  BY <1>1, <1>2, <1>3, <1>4, <1>5, <1>6, <1>7, <1>8 DEF MemberMove

\* A crash may raise the counts above the members, and takes only slots back.
LEMMA CutMoveEffect ==
  ASSUME NEW m \in Membership, Covered(m), NEW n, CutMove(m, n)
  PROVE  n \in Membership /\ Covered(n) /\ SlotMove(m, n)
<1>1. CASE n = m
  BY <1>1, UnchangedIsBalanced DEF SlotMove
<1>2. CASE \E p \in Peers : n = ReleaseCut(m, p, TRUE)
  <2>1. PICK p \in Peers : n = ReleaseCut(m, p, TRUE)
    BY <1>2
  <2>2. n \in Membership /\ Covered(n) /\ (Keeps(m, n) \/ GivesBack(m, n, {p}))
    BY <2>1, ReleaseCutEffect
  <2>3. {p} \in SUBSET Peers
    OBVIOUS
  <2>4. QED
    BY <2>2, <2>3 DEF SlotMove
<1>3. CASE \E p \in Peers, before \in SUBSET Peers : n = ReleaseCut(ReleaseAll(m, before), p, FALSE)
  <2>1. PICK p \in Peers, before \in SUBSET Peers : n = ReleaseCut(ReleaseAll(m, before), p, FALSE)
    BY <1>3
  <2> DEFINE k == ReleaseAll(m, before)
             freed == {q \in before : m.peerState[q] = "paired"}
  <2>2. Balanced(m, k) /\ GivesBack(m, k, freed)
    BY ReleaseAllEffect
  <2>3. k \in Membership /\ Covered(k)
    BY <2>2 DEF Balanced
  <2>4. n = ReleaseCut(k, p, FALSE)
    BY <2>1
  <2>5. freed \in SUBSET Peers /\ freed \cup {p} \in SUBSET Peers
    OBVIOUS
  <2> HIDE DEF k, freed
  <2>6. n \in Membership /\ Covered(n) /\ (Keeps(k, n) \/ GivesBack(k, n, {p}))
    BY <2>3, <2>4, ReleaseCutEffect
  <2>7. GivesBack(m, n, freed) \/ GivesBack(m, n, freed \cup {p})
    BY <2>2, <2>6 DEF GivesBack, Keeps
  <2>8. QED
    BY <2>5, <2>6, <2>7 DEF SlotMove
<1>4. QED
  BY <1>1, <1>2, <1>3 DEF CutMove

\* Every event of the room is one of these moves.
LEMMA NextMovesMembers ==
  ASSUME [Next]_vars
  PROVE  \/ MemberMove(membership, membership') /\ restarts' = restarts
         \/ CutMove(membership, membership') /\ restarts' = restarts + 1
<1> USE DEF MemberMove
<1>1. ASSUME NEW window \in Windows, NEW limit \in Limits, CreateRoom(window, limit)
      PROVE  MemberMove(membership, membership') /\ restarts' = restarts
  BY <1>1, RoomAssumption DEF CreateRoom, InitRoom
<1>2. ASSUME NEW window \in Windows, NEW limit \in Limits, UpdateRoom(window, limit)
      PROVE  MemberMove(membership, membership') /\ restarts' = restarts
  BY <1>2, RoomAssumption, NoMembershipType DEF UpdateRoom, Reschedule, CloseRoom
<1>3. ASSUME SenderConnect
      PROVE  MemberMove(membership, membership') /\ restarts' = restarts
  BY <1>3 DEF SenderConnect
<1>4. ASSUME NEW p \in Peers, ReceiverConnect(p) \/ ReceiverRefused(p)
      PROVE  MemberMove(membership, membership') /\ restarts' = restarts
  BY <1>4 DEF ReceiverConnect, ReceiverRefused
<1>5. ASSUME FinishConnect
      PROVE  MemberMove(membership, membership') /\ restarts' = restarts
  BY <1>5, NoMembershipType DEF FinishConnect, Reschedule, CloseRoom
<1>6. ASSUME NEW p \in Peers, SenderPairs(p)
      PROVE  MemberMove(membership, membership') /\ restarts' = restarts
  BY <1>6 DEF SenderPairs
<1>7. ASSUME NEW p \in Peers, TransferComplete(p)
      PROVE  MemberMove(membership, membership') /\ restarts' = restarts
  BY <1>7 DEF TransferComplete
<1>8. ASSUME SenderLeave
      PROVE  MemberMove(membership, membership') /\ restarts' = restarts
  BY <1>8, NoMembershipType DEF SenderLeave, CloseRoom
<1>9. ASSUME NEW p \in Peers, Checkpoint(p)
      PROVE  MemberMove(membership, membership') /\ restarts' = restarts
  BY <1>9 DEF Checkpoint
<1>10. ASSUME NEW p \in Peers, Abandon(p)
       PROVE  MemberMove(membership, membership') /\ restarts' = restarts
  BY <1>10 DEF Abandon
<1>11. ASSUME NEW p \in Peers, NEW resumable \in BOOLEAN, ReceiverLeave(p, resumable)
       PROVE  MemberMove(membership, membership') /\ restarts' = restarts
  BY <1>11, NoMembershipType DEF ReceiverLeave, Reschedule, CloseRoom
<1>12. ASSUME NEW c \in SocketIds, Pong(c)
       PROVE  MemberMove(membership, membership') /\ restarts' = restarts
  BY <1>12 DEF Pong
<1>13. ASSUME NEW c \in SocketIds, Disconnect(c)
       PROVE  MemberMove(membership, membership') /\ restarts' = restarts
  BY <1>13, NoMembershipType
     DEF Disconnect, SenderGone, ReceiverGone, Reschedule, CloseRoom
<1>14. ASSUME Alarm
       PROVE  MemberMove(membership, membership') /\ restarts' = restarts
  <2>1. Released \in SUBSET Peers
    BY DEF Released
  <2>2. QED
    BY <1>14, <2>1, NoMembershipType DEF Alarm, CloseRoom
<1>15. ASSUME Tick \/ Hibernate \/ UNCHANGED vars
       PROVE  MemberMove(membership, membership') /\ restarts' = restarts
  BY <1>15 DEF Tick, Hibernate, vars
<1>16. ASSUME Restart
       PROVE  CutMove(membership, membership') /\ restarts' = restarts + 1
  BY <1>16 DEF Restart, Restarted, CutMove
<1>17. ASSUME NEW p \in Peers, RestartInRelease(p)
       PROVE  CutMove(membership, membership') /\ restarts' = restarts + 1
  <2>1. \A before \in SUBSET (Released \ {p}) : before \in SUBSET Peers
    BY DEF Released
  <2>2. QED
    BY <1>17, <2>1 DEF RestartInRelease, Restarted, CutMove
<1> HIDE DEF MemberMove
<1>18. QED
  BY <1>1, <1>2, <1>3, <1>4, <1>5, <1>6, <1>7, <1>8, <1>9, <1>10, <1>11, <1>12, <1>13,
     <1>14, <1>15, <1>16, <1>17 DEF Next, Step

\* The first membership is empty.
LEMMA InitSlotInv == Init => SlotInv
BY NoMembershipType, EmptyMembership DEF Init, SlotInv

\* The invariant is inductive.
LEMMA NextSlotInv == SlotInv /\ [Next]_vars => SlotInv' /\ SlotMove(membership, membership')
<1> SUFFICES ASSUME SlotInv, [Next]_vars
             PROVE  SlotInv' /\ SlotMove(membership, membership')
  OBVIOUS
<1>1. membership \in Membership /\ Covered(membership) /\ restarts \in Nat
  BY DEF SlotInv
<1>2. CASE MemberMove(membership, membership') /\ restarts' = restarts
  <2>1. /\ membership' \in Membership /\ Covered(membership')
        /\ Surplus(membership) = 0 => Surplus(membership') = 0
        /\ SlotMove(membership, membership')
    BY <1>1, <1>2, MemberMoveEffect
  <2>2. QED
    BY <1>2, <2>1 DEF SlotInv
<1>3. CASE CutMove(membership, membership') /\ restarts' = restarts + 1
  <2>1. /\ membership' \in Membership /\ Covered(membership')
        /\ SlotMove(membership, membership')
    BY <1>1, <1>3, CutMoveEffect
  <2>2. restarts' \in Nat /\ restarts' # 0
    BY <1>1, <1>3
  <2>3. QED
    BY <2>1, <2>2 DEF SlotInv
<1>4. QED
  BY <1>2, <1>3, NextMovesMembers

\* SlotInv holds in every reachable state.
LEMMA SlotInvariance == Spec => []SlotInv
<1>1. SlotInv /\ [Next]_vars => SlotInv'
  BY NextSlotInv
<1>2. QED
  BY InitSlotInv, <1>1, PTL DEF Spec

\* The counts of roomState.ts never fall below the keys they count, whatever
\* crash cuts a release short, and are exact in a room that never crashed.
THEOREM CountsCover == Spec => []CountsCoverMembers
<1>1. SlotInv => CountsCoverMembers
  <2> SUFFICES ASSUME SlotInv PROVE CountsCoverMembers
    OBVIOUS
  <2>1. membership \in Membership /\ Covered(membership) /\ (restarts = 0 => Surplus(membership) = 0)
    BY DEF SlotInv
  <2>2. membership.pairedCount \in Int /\ Cardinality(Members(membership)) \in Nat
    BY <2>1, FiniteMembers DEF Membership
  <2>3. QED
    BY <2>1, <2>2 DEF CountsCoverMembers, Covered, Surplus
<1>2. QED
  BY <1>1, SlotInvariance, PTL

\* The room gives a slot only while one is free, never takes the slot of a finished
\* receiver, and takes none away when the limit is lowered: it implements
\* ReceiverSlots, across reconnects, alarms, sleeps and crashes.
THEOREM SlotsImplemented == Spec => ImplementsSlots
<1>1. Init => Slots!Init
  <2> SUFFICES ASSUME Init PROVE Slots!Init
    OBVIOUS
  <2>1. membership = [NoMembership EXCEPT !.maxTransfers = 0]
    BY NoMembershipType DEF Init
  <2>2. QED
    BY <2>1, EmptyMembership DEF Slots!Init
<1>2. SlotInv /\ [Next]_vars => [Slots!Next]_(Slots!vars)
  <2> SUFFICES ASSUME SlotInv, [Next]_vars
               PROVE  [Slots!Next]_(Slots!vars)
    OBVIOUS
  <2>1. SlotMove(membership, membership')
    BY NextSlotInv
  <2>2. ~Full(membership) => Slots!Free
    <3>1. Slots!Cardinality(Members(membership)) = Cardinality(Members(membership))
      BY DEF Slots!Cardinality, Cardinality
    <3>2. QED
      BY <3>1, FreeUnlessFull DEF SlotInv, Slots!Free
  <2>3. CASE Keeps(membership, membership')
    BY <2>3 DEF Keeps, Slots!vars
  <2>4. CASE \E p \in Peers : Takes(membership, membership', p) \/ Finishes(membership, membership', p)
    BY <2>2, <2>4 DEF Takes, Finishes, Slots!Next, Slots!Take, Slots!Finish
  <2>5. CASE \E released \in SUBSET Peers : GivesBack(membership, membership', released)
    BY <2>5 DEF GivesBack, Slots!Next, Slots!GiveBack
  <2>6. CASE /\ Members(membership') = Members(membership)
             /\ Successful(membership') = Successful(membership)
             /\ membership'.maxTransfers \in Nat
    BY <2>6 DEF Slots!Next, Slots!SetLimit
  <2>7. CASE /\ Members(membership') = {} /\ Successful(membership') = {}
             /\ membership'.maxTransfers \in Nat
    BY <2>7 DEF Slots!Next, Slots!Reset
  <2>8. QED
    BY <2>1, <2>3, <2>4, <2>5, <2>6, <2>7 DEF SlotMove
<1>3. QED
  BY <1>1, <1>2, SlotInvariance, PTL DEF Spec, ImplementsSlots, Slots!Spec

=============================================================================
