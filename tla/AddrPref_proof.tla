--------------------------- MODULE AddrPref_proof ---------------------------
(***************************************************************************)
(* What pick never does, for every set of addresses and every view of the  *)
(* network that localAddrPref can return.                                  *)
(***************************************************************************)
EXTENDS AddrPref, TLAPS

(* An IPv6 address never lies in the primary subnet, so its bonuses do not *)
(* reach the base of an ordinary IPv4 address.                             *)
LEMMA IPv6Score ==
  ASSUME NEW v \in View, NEW a \in Address, ~IPv4(a)
  PROVE  Score(v, a) \in Int /\ Score(v, a) <= 7
<1>1. Kind[a] \in {"global6", "link6", "unusable"}
  BY KindAssumption DEF IPv4, Kinds
<1>2. a \notin v.primary
  BY DEF View
<1>3. Base(a) \in {-1, 1, 4}
  BY <1>1 DEF Base
<1> QED
  BY <1>2, <1>3 DEF Score

LEMMA OrdinaryScore ==
  ASSUME NEW v \in View, NEW a \in Address, Kind[a] = "ipv4"
  PROVE  Score(v, a) \in Int /\ Score(v, a) >= 8
<1>1. Base(a) = 8
  BY DEF Base
<1> QED
  BY <1>1 DEF Score

(* Among what a peer offers, an ordinary IPv4 address is never passed over *)
(* for an IPv6 one, whatever the bonuses of the subnets (browse.go:        *)
(* "preferring IPv4 and falling back to IPv6").                            *)
THEOREM PickPrefersIPv4 ==
  ASSUME NEW v \in View, NEW offered \in SUBSET Address,
         NEW a \in offered, Kind[a] = "ipv4"
  PROVE  \A b \in Pick(v, offered) : IPv4(b)
<1> SUFFICES ASSUME NEW b \in Pick(v, offered), ~IPv4(b)
             PROVE  FALSE
  OBVIOUS
<1>1. b \in Address /\ Score(v, a) <= Score(v, b)
  BY DEF Pick
<1>2. Score(v, a) \in Int /\ Score(v, a) >= 8
  BY OrdinaryScore
<1>3. Score(v, b) \in Int /\ Score(v, b) <= 7
  BY <1>1, IPv6Score
<1> QED
  BY <1>1, <1>2, <1>3
=============================================================================
