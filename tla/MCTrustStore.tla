---------------------------- MODULE MCTrustStore ----------------------------
(* Two goroutines, two devices, two tokens: enough for one call to be in   *)
(* the middle of its file operations while another waits for writeMu, and  *)
(* for a device to be paired again under a new token.                      *)
EXTENDS TrustStore, TLC

CONSTANTS d1, d2, t1, t2, n1, n2, s1, p1, p2

(* The members of each set are interchangeable. *)
Symmetry ==
  Permutations(Device) \cup Permutations(Token) \cup Permutations(Name) \cup Permutations(Proc)
=============================================================================
