------------------------------ MODULE MCPairing ------------------------------
(* Two daemons and the connections they may open between them.             *)
EXTENDS Pairing, TLC

CONSTANTS c1, c2

(* The two ends are alike, and so are the connections. *)
Symmetry == Permutations({A, B}) \cup Permutations(Conn)
=============================================================================
