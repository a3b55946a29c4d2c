--------------------------- MODULE RoomMembership ---------------------------
(***************************************************************************)
(* The receiver membership of a P2P room as it is stored                   *)
(* (worker/p2p/roomState.ts): one key per receiver, the two counts derived *)
(* from them, and the limit.  The operators are the methods of             *)
(* P2PRoomMembershipStore: a membership in, the stored membership and the  *)
(* method's answer out.                                                    *)
(***************************************************************************)
EXTENDS Integers, FiniteSets

CONSTANT Peers

ASSUME PeersAssumption == IsFiniteSet(Peers)

\* "none": no key is stored for the receiver.
PeerState == {"none", "paired", "resumable", "successful"}

Membership ==
  [maxTransfers : Nat, pairedCount : Int, successfulCount : Int,
   peerState : [Peers -> PeerState]]

\* What is read from an empty storage: storedCount(undefined) is 0.
NoMembership ==
  [maxTransfers |-> 0, pairedCount |-> 0, successfulCount |-> 0,
   peerState |-> [p \in Peers |-> "none"]]

Members(m) == {p \in Peers : m.peerState[p] # "none"}
Successful(m) == {p \in Peers : m.peerState[p] = "successful"}

Indicator(condition) == IF condition THEN 1 ELSE 0

\* A limit of 0 is no limit.
Full(m) == m.maxTransfers > 0 /\ m.pairedCount >= m.maxTransfers

\* The key and the counts that follow from it.  Adding or changing a key is one
\* put; a removed key is deleted BEFORE the counts are put (see ReleaseCut).
SetPeerState(m, p, next) ==
  [m EXCEPT
     !.peerState[p] = next,
     !.pairedCount = @ + Indicator(next # "none") - Indicator(m.peerState[p] # "none"),
     !.successfulCount = @ + Indicator(next = "successful")
                           - Indicator(m.peerState[p] = "successful")]

Resumable(m, p) == m.peerState[p] = "resumable"

CanAdd(m, p) == Resumable(m, p) \/ (m.peerState[p] = "none" /\ ~Full(m))

PairAccepted(m, p) ==
  \/ m.peerState[p] \in {"paired", "resumable"}
  \/ m.peerState[p] = "none" /\ ~Full(m)

\* As RecordPaired, but the limit is not checked again when the sender pairs.
UncheckedRecordPaired(m, p) ==
  IF m.peerState[p] = "none" THEN SetPeerState(m, p, "paired") ELSE m

RecordPaired(m, p) ==
  IF PairAccepted(m, p) /\ m.peerState[p] = "none" THEN SetPeerState(m, p, "paired") ELSE m

\* A receiver that never paired may finish only while a slot is free.
RecordSuccessful(m, p, connected) ==
  IF m.peerState[p] = "none" /\ (~connected \/ Full(m))
  THEN m
  ELSE SetPeerState(m, p, "successful")

ResumeAccepted(m, p) == m.peerState[p] \in {"paired", "resumable"}

RecordResumable(m, p) ==
  IF ResumeAccepted(m, p) THEN SetPeerState(m, p, "resumable") ELSE m

ClearResumable(m, p) ==
  IF Resumable(m, p) THEN SetPeerState(m, p, "paired") ELSE m

\* The states a release frees: a finished receiver never gives its slot back,
\* a checkpointed one only when it is forced to.
Releasable(force) == IF force THEN {"paired", "resumable"} ELSE {"paired"}

\* As Release, but a receiver that holds no slot is released too.
UnguardedRelease(m, p, force) ==
  IF m.peerState[p] \in Releasable(force) \cup {"none"}
  THEN [m EXCEPT !.peerState[p] = "none", !.pairedCount = @ - 1]
  ELSE m

Release(m, p, force) ==
  IF m.peerState[p] \in Releasable(force) THEN SetPeerState(m, p, "none") ELSE m

\* Unforced releases of several receivers, one after the other.
ReleaseAll(m, released) ==
  LET freed == {p \in released : m.peerState[p] \in Releasable(FALSE)} IN
  [m EXCEPT
     !.peerState = [p \in Peers |-> IF p \in freed THEN "none" ELSE @[p]],
     !.pairedCount = @ - Cardinality(freed)]

\* As ReleaseCut, but the counts are put before the key is deleted.
CountsFirstReleaseCut(m, p, force) ==
  IF m.peerState[p] \in Releasable(force)
  THEN [m EXCEPT !.pairedCount = @ - 1]
  ELSE m

\* A release cut short by a crash: the key is deleted, the counts are not put.
ReleaseCut(m, p, force) ==
  IF m.peerState[p] \in Releasable(force) THEN [m EXCEPT !.peerState[p] = "none"] ELSE m

=============================================================================
