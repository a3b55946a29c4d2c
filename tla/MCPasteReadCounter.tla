------------------------ MODULE MCPasteReadCounter ------------------------
(* A version with two reads that replaces a longer-lived one: it expires   *)
(* at 2, its counter is cleaned at 3, requests arrive before 4.             *)
EXTENDS PasteReadCounter

MCLimit == 2
MCExpiresAt == 2
MCOriginalExpiresAt == 3
MCHorizon == 4

\* The deadline the counter was initialised with is reached before the clock stops.
ASSUME MCBounds == MCOriginalExpiresAt <= MCHorizon /\ MCExpiresAt <= MCHorizon
===========================================================================
