--------------------------- MODULE ReadAllowance ---------------------------
(***************************************************************************)
(* What a read limit promises, whatever stores it: one published version   *)
(* of a paste may be read at most Limit times, only between its            *)
(* publication and its closing (its deletion, its replacement or its       *)
(* expiry), and a closed version never opens again.                        *)
(***************************************************************************)
EXTENDS Naturals

CONSTANT Limit      \* the number of reads the version was published with

VARIABLES
  phase,            \* "unpublished", "open" or "closed"
  granted           \* how many reads were allowed so far

vars == <<phase, granted>>

Init ==
  /\ phase = "unpublished"
  /\ granted = 0

Publish ==
  /\ phase = "unpublished"
  /\ phase' = "open"
  /\ UNCHANGED granted

Grant ==
  /\ phase = "open"
  /\ granted < Limit
  /\ granted' = granted + 1
  /\ UNCHANGED phase

Close ==
  /\ phase # "closed"
  /\ phase' = "closed"
  /\ UNCHANGED granted

Next == Publish \/ Grant \/ Close

Spec == Init /\ [][Next]_vars

=============================================================================
