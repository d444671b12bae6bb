---------------------------- MODULE TrustLedger ----------------------------
(***************************************************************************)
(* What the trust store promises its callers, with no locks, temp files or *)
(* callers in it: the set of paired devices is one value, a copy of it is  *)
(* stable, and the copy only ever becomes the WHOLE current value.  Only a *)
(* power loss may take the copy back, to the last one that was permanent.  *)
(* TrustStore.tla, the translation of daemon/config/trust.go, implements   *)
(* this specification.                                                     *)
(***************************************************************************)
CONSTANTS Device, Name, Token, Stamp, Absent

Record == [name : Name, token : Token, seen : Stamp]
Store  == [Device -> Record \cup {Absent}]
Empty  == [d \in Device |-> Absent]

VARIABLES ledger,  \* what the running daemon believes
          stable,  \* what the next boot will find
          durable  \* what it will find after a power loss

vars == <<ledger, stable, durable>>

Init == ledger = Empty /\ stable = Empty /\ durable = Empty

(* A human paired d: any credential, whatever was there before. *)
Trust(d) ==
  /\ \E r \in Record : ledger' = [ledger EXCEPT ![d] = r]
  /\ UNCHANGED <<stable, durable>>

(* A human forgot d. *)
Forget(d) ==
  /\ ledger[d] # Absent
  /\ ledger' = [ledger EXCEPT ![d] = Absent]
  /\ UNCHANGED <<stable, durable>>

(* Book-keeping about a peer that is trusted: it neither creates a record  *)
(* nor changes the credential.                                             *)
Refresh(d) ==
  /\ ledger[d] # Absent
  /\ \E r \in Record :
       r.token = ledger[d].token /\ ledger' = [ledger EXCEPT ![d] = r]
  /\ UNCHANGED <<stable, durable>>

(* The stable copy becomes the current value, all of it at once. *)
Publish == stable' = ledger /\ UNCHANGED <<ledger, durable>>

(* What was published last is permanent. *)
Settle == durable' = stable /\ UNCHANGED <<ledger, stable>>

(* The process ends, or boots over a file it cannot read. *)
Lose == ledger' = Empty /\ UNCHANGED <<stable, durable>>

(* The power goes. *)
FallBack == ledger' = Empty /\ stable' = durable /\ UNCHANGED durable

(* The process boots. *)
Recall == ledger' = stable /\ UNCHANGED <<stable, durable>>

Next ==
  \/ \E d \in Device : Trust(d) \/ Forget(d) \/ Refresh(d)
  \/ Publish \/ Settle \/ Lose \/ FallBack \/ Recall

Spec == Init /\ [][Next]_vars
=============================================================================
