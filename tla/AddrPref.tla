------------------------------ MODULE AddrPref ------------------------------
(***************************************************************************)
(* Which of the addresses a peer advertises this daemon will dial          *)
(* (discovery/browse.go, addrPref).  An address is a record of what score  *)
(* asks about it; a view is what localAddrPref found on this machine: its  *)
(* own addresses, those inside one of its subnets, and those inside the    *)
(* subnet of the route to the wider network.                               *)
(***************************************************************************)
EXTENDS Naturals, Integers

CONSTANTS Address, Kind

\* What net.IP says of an address.
Kinds == {"ipv4", "auto4", "global6", "link6", "unusable"}

ASSUME KindAssumption == Kind \in [Address -> Kinds]

IPv4(a) == Kind[a] \in {"ipv4", "auto4"}

(* localAddrPref.  The primary subnet is that of a udp4 route, so it holds *)
(* IPv4 addresses only, and it is one of the local subnets; an own address *)
(* lies in the subnet it came with.                                        *)
View == {v \in [own : SUBSET Address, nets : SUBSET Address, primary : SUBSET Address] :
           /\ v.own \subseteq v.nets /\ v.primary \subseteq v.nets
           /\ \A a \in v.primary : IPv4(a)}

(* Without the network: ordinary IPv4, routable IPv6, 169.254/16, fe80::.  *)
Base(a) ==
  CASE Kind[a] = "ipv4"    -> 8
    [] Kind[a] = "auto4"   -> 2
    [] Kind[a] = "global6" -> 4
    [] Kind[a] = "link6"   -> 1
    [] OTHER               -> -1

(* score: higher is better, negative is unusable.                         *)
Score(v, a) ==
  IF Base(a) < 0 THEN -1
  ELSE Base(a) + (IF a \in v.primary THEN 4 ELSE 0) + (IF a \in v.nets THEN 2 ELSE 0)
               + (IF a \in v.own THEN 0 ELSE 1)

(* pick: the first of the best.  The order of the records is the           *)
(* network's, so it is any of the best.                                    *)
Pick(v, offered) ==
  {a \in offered : Score(v, a) >= 0 /\ \A b \in offered : Score(v, b) <= Score(v, a)}

=============================================================================
