----------------------------- MODULE MCRoster -----------------------------
(* Model values for Roster: a peer with an address on the LAN and an IPv6  *)
(* one, which this machine sees from home and from elsewhere.              *)
EXTENDS Roster, TLC

CONSTANTS p1, lan4, glob6, t1, t2, c1

MCKind == [a \in Address |-> IF a = glob6 THEN "global6" ELSE "ipv4"]

Home == [own |-> {}, nets |-> {lan4, glob6}, primary |-> {lan4}]
Away == [own |-> {}, nets |-> {glob6}, primary |-> {}]

MCViews == {Home, Away}

Symmetry == Permutations(Timer)

=============================================================================
