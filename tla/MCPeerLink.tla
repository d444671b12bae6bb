---------------------------- MODULE MCPeerLink ----------------------------
(* Model values for PeerLink; sockets are interchangeable.                 *)
EXTENDS PeerLink, TLC

CONSTANTS a1, a2, b1, r1, x, y

Symmetry == Permutations(Conn)

=============================================================================
