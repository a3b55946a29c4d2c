----------------------------- MODULE MCP2PRoom -----------------------------
(* Two receivers compete for the slots of a room that may be updated.      *)
EXTENDS P2PRoom, TLC

CONSTANTS p1, p2

MCPeers == {p1, p2}
MCOnePeer == {p1}
MCLimits == {0, 1}
MCOneSlot == {1}
\* "0" is an expiration the code accepts.
MCWindows == {0, 1}
MCOneWindow == {1}
MCLongWindow == {5}
PeerSymmetry == Permutations(MCPeers)
============================================================================
