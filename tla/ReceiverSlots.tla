--------------------------- MODULE ReceiverSlots ---------------------------
(***************************************************************************)
(* What a P2P room promises about its receivers, whatever sockets, timers  *)
(* and counters it keeps: a receiver takes a slot only while one is free,  *)
(* a receiver that finished holds its slot until the room itself is gone,  *)
(* and lowering the limit takes no slot away.                              *)
(***************************************************************************)
EXTENDS Naturals, FiniteSets

CONSTANT Peers

VARIABLES
  limit,      \* 0: unlimited
  slots,      \* the receivers that hold a slot
  finished    \* those of them whose transfer is complete

vars == <<limit, slots, finished>>

Init == limit = 0 /\ slots = {} /\ finished = {}

Free == limit = 0 \/ Cardinality(slots) < limit

Take(p) ==
  /\ p \notin slots
  /\ Free
  /\ slots' = slots \cup {p}
  /\ UNCHANGED <<limit, finished>>

\* A receiver may finish before its pairing was recorded: it takes its slot then.
Finish(p) ==
  /\ p \in slots \/ Free
  /\ slots' = slots \cup {p}
  /\ finished' = finished \cup {p}
  /\ UNCHANGED limit

GiveBack(released) ==
  /\ released \subseteq slots \ finished
  /\ slots' = slots \ released
  /\ UNCHANGED <<limit, finished>>

SetLimit ==
  /\ limit' \in Nat
  /\ UNCHANGED <<slots, finished>>

\* The room is closed, or initialised anew.
Reset ==
  /\ limit' \in Nat
  /\ slots' = {}
  /\ finished' = {}

Next ==
  \/ \E p \in Peers : Take(p) \/ Finish(p)
  \/ \E released \in SUBSET Peers : GiveBack(released)
  \/ SetLimit
  \/ Reset

Spec == Init /\ [][Next]_vars

=============================================================================
