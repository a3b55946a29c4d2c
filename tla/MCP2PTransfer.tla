--------------------------- MODULE MCP2PTransfer ---------------------------
(* Instances of P2PTransfer for TLC. *)
EXTENDS P2PTransfer

OneVersion == <<3>>
TwoVersions == <<3, 2>>
\* Two versions of one size, which a manifest does not tell apart, and a third one.
ThreeVersions == <<2, 2, 1>>
AllVersions == 1..3
=============================================================================
