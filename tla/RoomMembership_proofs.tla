----------------------- MODULE RoomMembership_proofs -----------------------
(***************************************************************************)
(* What the operators of RoomMembership do to the receivers that hold a    *)
(* slot and to the counts kept beside them.  The central notion is the     *)
(* surplus of a membership: how far the stored count is above the number   *)
(* of receivers it counts.  Every method keeps it; only a release cut      *)
(* short by a crash changes it, and then it grows.                         *)
(***************************************************************************)
EXTENDS RoomMembership, FiniteSetTheorems, TLAPS

Surplus(m) == m.pairedCount - Cardinality(Members(m))

\* The count of finished receivers is exact, the count of slots at least high enough.
Covered(m) ==
  /\ Surplus(m) >= 0
  /\ m.successfulCount = Cardinality(Successful(m))

\* What a method may do to the slots: nothing, ...
Keeps(m, n) ==
  /\ Members(n) = Members(m)
  /\ Successful(n) = Successful(m)
  /\ n.maxTransfers = m.maxTransfers

\* ... give a free one to p, ...
Takes(m, n, p) ==
  /\ p \notin Members(m) /\ ~Full(m)
  /\ Members(n) = Members(m) \cup {p}
  /\ Successful(n) = Successful(m)
  /\ n.maxTransfers = m.maxTransfers

\* ... make it p's for good, ...
Finishes(m, n, p) ==
  /\ p \in Members(m) \/ ~Full(m)
  /\ Members(n) = Members(m) \cup {p}
  /\ Successful(n) = Successful(m) \cup {p}
  /\ n.maxTransfers = m.maxTransfers

\* ... or take those of unfinished receivers back.
GivesBack(m, n, released) ==
  /\ released \subseteq Members(m) \ Successful(m)
  /\ Members(n) = Members(m) \ released
  /\ Successful(n) = Successful(m)
  /\ n.maxTransfers = m.maxTransfers

\* What is true of the memberships before and after a method that was not cut short.
Balanced(m, n) ==
  /\ n \in Membership
  /\ Surplus(n) = Surplus(m)
  /\ Covered(m) => Covered(n)

\* The members and the finished receivers are finitely many.
LEMMA FiniteMembers ==
  ASSUME NEW m \in Membership
  PROVE  /\ IsFiniteSet(Members(m)) /\ Cardinality(Members(m)) \in Nat
         /\ IsFiniteSet(Successful(m)) /\ Cardinality(Successful(m)) \in Nat
         /\ Members(m) \subseteq Peers /\ Successful(m) \subseteq Members(m)
<1>1. Members(m) \in SUBSET Peers /\ Successful(m) \in SUBSET Peers
  BY DEF Members, Successful
<1>2. IsFiniteSet(Members(m)) /\ IsFiniteSet(Successful(m))
  BY <1>1, PeersAssumption, FS_Subset
<1>3. Successful(m) \subseteq Members(m)
  BY DEF Members, Successful
<1>4. QED
  BY <1>1, <1>2, <1>3, FS_CardinalityType

\* setPeerState changes one receiver, and the counts by as much as the keys.
LEMMA SetPeerStateEffect ==
  ASSUME NEW m \in Membership, NEW p \in Peers, NEW next \in PeerState,
         NEW n, n = SetPeerState(m, p, next)
  PROVE  /\ Balanced(m, n)
         /\ n.maxTransfers = m.maxTransfers
         /\ Members(n) = IF next = "none" THEN Members(m) \ {p} ELSE Members(m) \cup {p}
         /\ Successful(n) = IF next = "successful" THEN Successful(m) \cup {p}
                            ELSE Successful(m) \ {p}
<1>1. /\ m.peerState \in [Peers -> PeerState] /\ m.pairedCount \in Int
      /\ m.successfulCount \in Int /\ m.maxTransfers \in Nat
  BY DEF Membership
<1>2. /\ n.peerState = [m.peerState EXCEPT ![p] = next]
      /\ n.maxTransfers = m.maxTransfers
      /\ n.pairedCount = m.pairedCount + Indicator(next # "none")
                                       - Indicator(m.peerState[p] # "none")
      /\ n.successfulCount = m.successfulCount + Indicator(next = "successful")
                                               - Indicator(m.peerState[p] = "successful")
  BY DEF SetPeerState, Membership
<1>3. n \in Membership
  <2> DEFINE states == [m.peerState EXCEPT ![p] = next]
             paired == m.pairedCount + Indicator(next # "none")
                                     - Indicator(m.peerState[p] # "none")
             finished == m.successfulCount + Indicator(next = "successful")
                                           - Indicator(m.peerState[p] = "successful")
  <2>1. states \in [Peers -> PeerState]
    BY <1>1
  <2>2. paired \in Int /\ finished \in Int
    BY <1>1 DEF Indicator
  <2>3. n = [m EXCEPT !.peerState = states, !.pairedCount = paired, !.successfulCount = finished]
    BY DEF SetPeerState
  <2> HIDE DEF states, paired, finished
  <2>4. QED
    BY <2>1, <2>2, <2>3 DEF Membership
<1>4. Members(n) = IF next = "none" THEN Members(m) \ {p} ELSE Members(m) \cup {p}
  BY <1>1, <1>2 DEF Members
<1>5. Successful(n) = IF next = "successful" THEN Successful(m) \cup {p}
                      ELSE Successful(m) \ {p}
  BY <1>1, <1>2 DEF Successful
<1>6. /\ IsFiniteSet(Members(m)) /\ Cardinality(Members(m)) \in Nat
      /\ IsFiniteSet(Successful(m)) /\ Cardinality(Successful(m)) \in Nat
  BY FiniteMembers
<1>7. /\ Cardinality(Members(m) \cup {p}) = IF p \in Members(m) THEN Cardinality(Members(m))
                                            ELSE Cardinality(Members(m)) + 1
      /\ Cardinality(Members(m) \ {p}) = IF p \in Members(m) THEN Cardinality(Members(m)) - 1
                                         ELSE Cardinality(Members(m))
      /\ p \in Members(m) <=> m.peerState[p] # "none"
  <2>1. p \in Members(m) <=> m.peerState[p] # "none"
    BY DEF Members
  <2>2. QED
    BY <1>6, <2>1, FS_AddElement, FS_RemoveElement
<1>8. /\ Cardinality(Successful(m) \cup {p}) = IF p \in Successful(m)
                                               THEN Cardinality(Successful(m))
                                               ELSE Cardinality(Successful(m)) + 1
      /\ Cardinality(Successful(m) \ {p}) = IF p \in Successful(m)
                                            THEN Cardinality(Successful(m)) - 1
                                            ELSE Cardinality(Successful(m))
      /\ p \in Successful(m) <=> m.peerState[p] = "successful"
  <2>1. p \in Successful(m) <=> m.peerState[p] = "successful"
    BY DEF Successful
  <2>2. QED
    BY <1>6, <2>1, FS_AddElement, FS_RemoveElement
<1>9. Surplus(n) = Surplus(m)
  BY <1>1, <1>2, <1>4, <1>6, <1>7 DEF Surplus, Indicator
<1>10. Covered(m) => Covered(n)
  BY <1>1, <1>2, <1>5, <1>6, <1>8, <1>9 DEF Covered, Indicator
<1>11. QED
  BY <1>2, <1>3, <1>4, <1>5, <1>9, <1>10 DEF Balanced

\* The stored count is high enough, so a room that is not full has a free slot.
LEMMA FreeUnlessFull ==
  ASSUME NEW m \in Membership, Covered(m), ~Full(m)
  PROVE  m.maxTransfers = 0 \/ Cardinality(Members(m)) < m.maxTransfers
<1>1. /\ Cardinality(Members(m)) \in Nat /\ m.maxTransfers \in Nat /\ m.pairedCount \in Int
  BY FiniteMembers DEF Membership
<1>2. QED
  BY <1>1 DEF Covered, Surplus, Full

\* A method that changes nothing keeps everything.
LEMMA UnchangedIsBalanced ==
  ASSUME NEW m \in Membership
  PROVE  Balanced(m, m) /\ Keeps(m, m)
BY DEF Balanced, Keeps

\* recordPaired gives a slot only while one is free.
LEMMA RecordPairedEffect ==
  ASSUME NEW m \in Membership, NEW p \in Peers, NEW n, n = RecordPaired(m, p)
  PROVE  Balanced(m, n) /\ (Keeps(m, n) \/ Takes(m, n, p))
<1>1. CASE PairAccepted(m, p) /\ m.peerState[p] = "none"
  <2>1. n = SetPeerState(m, p, "paired")
    BY <1>1 DEF RecordPaired
  <2>2. ~Full(m) /\ p \notin Members(m) /\ p \notin Successful(m)
    BY <1>1 DEF PairAccepted, Members, Successful
  <2>3. "paired" \in PeerState
    BY DEF PeerState
  <2>4. PICK next \in PeerState : next = "paired" /\ n = SetPeerState(m, p, next)
    BY <2>1, <2>3
  <2>5. /\ Balanced(m, n) /\ n.maxTransfers = m.maxTransfers
        /\ Members(n) = Members(m) \cup {p} /\ Successful(n) = Successful(m) \ {p}
    BY <2>4, SetPeerStateEffect
  <2>6. QED
    BY <2>2, <2>5 DEF Takes
<1>2. CASE ~(PairAccepted(m, p) /\ m.peerState[p] = "none")
  <2>1. n = m
    BY <1>2 DEF RecordPaired
  <2>2. QED
    BY <2>1, UnchangedIsBalanced
<1>3. QED
  BY <1>1, <1>2

\* A receiver that finishes keeps the slot it holds, or takes one that is free.
LEMMA SetSuccessfulEffect ==
  ASSUME NEW m \in Membership, NEW p \in Peers, p \in Members(m) \/ ~Full(m),
         NEW n, n = SetPeerState(m, p, "successful")
  PROVE  Balanced(m, n) /\ Finishes(m, n, p)
<1>1. PICK next \in PeerState : next = "successful" /\ n = SetPeerState(m, p, next)
  BY DEF PeerState
<1>2. /\ Balanced(m, n) /\ n.maxTransfers = m.maxTransfers
      /\ Members(n) = Members(m) \cup {p} /\ Successful(n) = Successful(m) \cup {p}
  BY <1>1, SetPeerStateEffect
<1>3. QED
  BY <1>2 DEF Finishes

\* recordSuccessful gives a slot for good, also to a receiver that never paired,
\* but then only while one is free.
LEMMA RecordSuccessfulEffect ==
  ASSUME NEW m \in Membership, NEW p \in Peers, NEW n, n = RecordSuccessful(m, p, TRUE)
  PROVE  Balanced(m, n) /\ (Keeps(m, n) \/ Finishes(m, n, p))
<1>1. CASE m.peerState[p] = "none" /\ Full(m)
  <2>1. n = m
    BY <1>1 DEF RecordSuccessful
  <2>2. QED
    BY <2>1, UnchangedIsBalanced
<1>2. CASE m.peerState[p] # "none" \/ ~Full(m)
  <2>1. n = SetPeerState(m, p, "successful")
    BY <1>2 DEF RecordSuccessful
  <2>2. p \in Members(m) \/ ~Full(m)
    BY <1>2 DEF Members
  <2>3. QED
    BY <2>1, <2>2, SetSuccessfulEffect
<1>3. QED
  BY <1>1, <1>2

\* A checkpoint, and its withdrawal, move no slot.
LEMMA CheckpointEffect ==
  ASSUME NEW m \in Membership, NEW p \in Peers,
         NEW n \in {RecordResumable(m, p), ClearResumable(m, p)}
  PROVE  Balanced(m, n) /\ Keeps(m, n)
<1>1. CASE n = m
  BY <1>1, UnchangedIsBalanced
<1>2. CASE n # m
  <2>1. PICK next \in {"paired", "resumable"} : n = SetPeerState(m, p, next)
    BY <1>2 DEF RecordResumable, ClearResumable
  <2>2. m.peerState[p] \in {"paired", "resumable"}
    BY <1>2 DEF RecordResumable, ClearResumable, ResumeAccepted, Resumable
  <2>3. p \in Members(m) /\ p \notin Successful(m)
    BY <2>2 DEF Members, Successful
  <2>4. next \in PeerState /\ next # "none" /\ next # "successful"
    BY DEF PeerState
  <2>5. /\ Balanced(m, n) /\ n.maxTransfers = m.maxTransfers
        /\ Members(n) = Members(m) \cup {p} /\ Successful(n) = Successful(m) \ {p}
    BY <2>1, <2>4, SetPeerStateEffect
  <2>6. QED
    BY <2>3, <2>5 DEF Keeps
<1>3. QED
  BY <1>1, <1>2

\* release takes back the slot of a receiver that has not finished.
LEMMA ReleaseEffect ==
  ASSUME NEW m \in Membership, NEW p \in Peers, NEW force \in BOOLEAN,
         NEW n, n = Release(m, p, force)
  PROVE  Balanced(m, n) /\ (Keeps(m, n) \/ GivesBack(m, n, {p}))
<1>1. CASE m.peerState[p] \in Releasable(force)
  <2>1. n = SetPeerState(m, p, "none")
    BY <1>1 DEF Release
  <2>2. p \in Members(m) /\ p \notin Successful(m)
    BY <1>1 DEF Members, Successful, Releasable
  <2>3. "none" \in PeerState
    BY DEF PeerState
  <2>4. PICK next \in PeerState : next = "none" /\ n = SetPeerState(m, p, next)
    BY <2>1, <2>3
  <2>5. /\ Balanced(m, n) /\ n.maxTransfers = m.maxTransfers
        /\ Members(n) = Members(m) \ {p} /\ Successful(n) = Successful(m) \ {p}
    BY <2>4, SetPeerStateEffect
  <2>6. QED
    BY <2>2, <2>5 DEF GivesBack
<1>2. CASE m.peerState[p] \notin Releasable(force)
  <2>1. n = m
    BY <1>2 DEF Release
  <2>2. QED
    BY <2>1, UnchangedIsBalanced
<1>3. QED
  BY <1>1, <1>2

\* The alarm's clean-up takes back the slots of the receivers it releases.
LEMMA ReleaseAllEffect ==
  ASSUME NEW m \in Membership, NEW released \in SUBSET Peers,
         NEW n, n = ReleaseAll(m, released)
  PROVE  /\ Balanced(m, n)
         /\ GivesBack(m, n, {p \in released : m.peerState[p] = "paired"})
<1> DEFINE freed == {p \in released : m.peerState[p] \in Releasable(FALSE)}
           states == [p \in Peers |-> IF p \in freed THEN "none" ELSE m.peerState[p]]
           paired == m.pairedCount - Cardinality(freed)
<1>1. /\ m.peerState \in [Peers -> PeerState] /\ m.pairedCount \in Int
      /\ m.successfulCount \in Int /\ m.maxTransfers \in Nat
  BY DEF Membership
<1>2. n = [m EXCEPT !.peerState = states, !.pairedCount = paired]
  BY DEF ReleaseAll
<1>3. freed = {p \in released : m.peerState[p] = "paired"}
  BY DEF Releasable
<1>4. freed \subseteq Members(m) /\ freed \cap Successful(m) = {}
  BY <1>3 DEF Members, Successful
<1>5. /\ IsFiniteSet(Members(m)) /\ Cardinality(Members(m)) \in Nat
      /\ IsFiniteSet(freed) /\ Cardinality(freed) \in Nat
  BY <1>4, FiniteMembers, FS_Subset, FS_CardinalityType
<1>6. states \in [Peers -> PeerState]
  BY <1>1 DEF PeerState
<1>7. n \in Membership
  <2>1. paired \in Int
    BY <1>1, <1>5
  <2> HIDE DEF states, paired
  <2>2. QED
    BY <1>2, <1>6, <2>1 DEF Membership
<1>8. /\ n.maxTransfers = m.maxTransfers /\ n.successfulCount = m.successfulCount
      /\ n.peerState = states /\ n.pairedCount = paired
  <2> HIDE DEF states, paired
  <2>1. QED
    BY <1>2 DEF Membership
<1>9. Members(n) = Members(m) \ freed
  BY <1>4, <1>8 DEF Members
<1>10. Successful(n) = Successful(m)
  BY <1>4, <1>8 DEF Successful
<1>11. Cardinality(Members(n)) = Cardinality(Members(m)) - Cardinality(freed)
  <2>1. Members(m) \cap freed = freed
    BY <1>4
  <2> HIDE DEF freed
  <2>2. QED
    BY <1>5, <1>9, <2>1, FS_Difference
<1>12. Surplus(n) = Surplus(m)
  <2> HIDE DEF freed
  <2>1. QED
    BY <1>1, <1>5, <1>8, <1>11 DEF Surplus
<1>13. Balanced(m, n)
  BY <1>7, <1>8, <1>10, <1>12 DEF Balanced, Covered
<1>14. GivesBack(m, n, freed)
  BY <1>4, <1>8, <1>9, <1>10 DEF GivesBack
<1>15. QED
  BY <1>3, <1>13, <1>14

\* A release cut short by a crash frees the slot and leaves the counts: the count
\* of slots may be too high afterwards, never too low.
LEMMA ReleaseCutEffect ==
  ASSUME NEW m \in Membership, NEW p \in Peers, NEW force \in BOOLEAN,
         NEW n, n = ReleaseCut(m, p, force)
  PROVE  /\ n \in Membership
         /\ Covered(m) => Covered(n)
         /\ Keeps(m, n) \/ GivesBack(m, n, {p})
<1>1. CASE m.peerState[p] \in Releasable(force)
  <2> DEFINE states == [m.peerState EXCEPT ![p] = "none"]
  <2>1. states \in [Peers -> PeerState]
    BY DEF Membership, PeerState
  <2>2. n = [m EXCEPT !.peerState = states]
    BY <1>1 DEF ReleaseCut
  <2>3. /\ n \in Membership
        /\ n.maxTransfers = m.maxTransfers /\ n.pairedCount = m.pairedCount
        /\ n.successfulCount = m.successfulCount /\ n.peerState = states
    <3> HIDE DEF states
    <3>1. QED
      BY <2>1, <2>2 DEF Membership
  <2>4. p \in Members(m) /\ p \notin Successful(m)
    BY <1>1 DEF Members, Successful, Releasable
  <2>5. m.peerState \in [Peers -> PeerState] /\ m.pairedCount \in Int
    BY DEF Membership
  <2>6. Members(n) = Members(m) \ {p}
    BY <2>3, <2>5 DEF Members
  <2>7. Successful(n) = Successful(m)
    BY <2>3, <2>4, <2>5 DEF Successful
  <2>8. /\ Cardinality(Members(n)) = Cardinality(Members(m)) - 1
        /\ Cardinality(Members(m)) \in Nat
    BY <2>4, <2>6, FiniteMembers, FS_RemoveElement
  <2>9. Covered(m) => Covered(n)
    <3> HIDE DEF states
    <3>1. QED
      BY <2>3, <2>5, <2>7, <2>8 DEF Covered, Surplus
  <2>10. GivesBack(m, n, {p})
    BY <2>3, <2>4, <2>6, <2>7 DEF GivesBack
  <2>11. QED
    BY <2>3, <2>9, <2>10
<1>2. CASE m.peerState[p] \notin Releasable(force)
  <2>1. n = m
    BY <1>2 DEF ReleaseCut
  <2>2. QED
    BY <2>1, UnchangedIsBalanced DEF Balanced
<1>3. QED
  BY <1>1, <1>2

=============================================================================
