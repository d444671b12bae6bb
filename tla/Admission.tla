----------------------------- MODULE Admission -----------------------------
(***************************************************************************)
(* What stands between an unknown machine on the LAN and a pairing prompt  *)
(* in daemon/peer: the cap on sockets that have proved nothing yet         *)
(* (acquireHandshake, releaseHandshake), the reading and judging of the    *)
(* first frame (readHello, serveInbound), and the sliding-window limiter   *)
(* of pairing attempts per source address (rateLimiter).                   *)
(*                                                                         *)
(* A list of timestamps of the limiter is the set of the sockets that left *)
(* them there, each with the time at which it was granted: two grants in   *)
(* one tick stay two.  A socket stands for the goroutine that serves it.   *)
(***************************************************************************)
EXTENDS Naturals, FiniteSets

CONSTANTS
  Socket,          \* inbound connections
  From,            \* [Socket -> Source]: sourceKey of the remote address
  Source,
  MaxHandshakes,   \* maxPendingHandshakes
  Limit, Window,   \* the budget of pairing attempts, and its window in ticks
  SweepThreshold,  \* source addresses tolerated before a sweep
  MaxTime          \* bound of the clock

ASSUME SocketAssumption == IsFiniteSet(Socket) /\ From \in [Socket -> Source]
ASSUME NumberAssumption ==
  /\ MaxHandshakes \in Nat \ {0} /\ Limit \in Nat \ {0} /\ Window \in Nat \ {0}
  /\ SweepThreshold \in Nat /\ MaxTime \in Nat

VARIABLES
  now,      \* the clock
  phase,    \* [Socket -> Phase]: how far the goroutine of a socket is
  slots,    \* Manager.handshakes
  freed,    \* sockets whose release (a sync.OnceFunc) has run
  keys,     \* source addresses the limiter has an entry for
  hits,     \* rateLimiter.hits: [Source -> SUBSET Socket]
  at,       \* history: when a socket was granted an attempt
  granted   \* history: the sockets that were

vars == <<now, phase, slots, freed, keys, hits, at, granted>>

Phase == {"new", "upgrade", "hello", "verified", "stranger", "begin",
          "frames", "leaving", "gone"}

TypeOK ==
  /\ now \in 0..MaxTime
  /\ phase \in [Socket -> Phase]
  /\ slots \in 0..MaxHandshakes
  /\ freed \subseteq Socket
  /\ keys \subseteq Source /\ hits \in [Source -> SUBSET Socket]
  /\ at \in [Socket -> 0..MaxTime] /\ granted \subseteq Socket

Init ==
  /\ now = 0
  /\ phase = [s \in Socket |-> "new"]
  /\ slots = 0 /\ freed = {}
  /\ keys = {} /\ hits = [k \in Source |-> {}]
  /\ at = [s \in Socket |-> 0] /\ granted = {}

-----------------------------------------------------------------------------
(* The handshake slots.                                                    *)

Goto(s, p) == phase' = [phase EXCEPT ![s] = p]

(* acquireHandshake: a slot, or 503 and no socket at all.                  *)
AcquireHandshake(s) ==
  IF slots >= MaxHandshakes
  THEN UNCHANGED slots /\ Goto(s, "gone")
  ELSE slots' = slots + 1 /\ Goto(s, "upgrade")

(* Mutated: every path that releases gives a slot back.                    *)
Release_EveryTime(s) ==
  /\ freed' = freed \cup {s}
  /\ slots' = IF slots > 0 THEN slots - 1 ELSE slots

(* release: once per socket, whichever of its callers comes first.         *)
Release(s) ==
  /\ freed' = freed \cup {s}
  /\ slots' = IF s \notin freed /\ slots > 0 THEN slots - 1 ELSE slots

limiterVars == <<keys, hits, at, granted>>

(* handlePeer.  A request that is no GET, or that has an Origin header,    *)
(* goes away before it costs anything.                                     *)
HandlePeer(s) ==
  /\ phase[s] = "new"
  /\ \/ Goto(s, "gone") /\ UNCHANGED slots
     \/ AcquireHandshake(s)
  /\ UNCHANGED <<now, freed, limiterVars>>

(* websocket.Accept.  Its error path does not reach serveInbound.          *)
Upgrade(s) ==
  /\ phase[s] = "upgrade"
  /\ \/ Goto(s, "hello") /\ UNCHANGED <<slots, freed>>
     \/ Goto(s, "gone") /\ Release(s)
  /\ UNCHANGED <<now, limiterVars>>

-----------------------------------------------------------------------------
(* The first frame.                                                        *)

(* A hello that passes every check and whose token verifies, or does not.  *)
(* Both are up to the peer.                                                *)
ReadHello(s) ==
  /\ phase[s] = "hello"
  /\ \/ Goto(s, "verified")
     \/ Goto(s, "stranger")
  /\ UNCHANGED <<now, slots, freed, limiterVars>>

(* Every other outcome of readHello closes the socket: a read error, a     *)
(* binary frame, no envelope, another type, another protocol version, an   *)
(* invalid hello, this device's own id, or nothing within                  *)
(* handshakeTimeout.                                                       *)
NoHello(s) ==
  /\ phase[s] = "hello"
  /\ Goto(s, "leaving")
  /\ UNCHANGED <<now, slots, freed, limiterVars>>

(* acceptAuthenticated: the slot is given back once the socket is          *)
(* registered; a socket that died under peer:ready just leaves.            *)
AcceptAuthenticated(s) ==
  /\ phase[s] = "verified"
  /\ \/ Goto(s, "frames") /\ Release(s)
     \/ Goto(s, "leaving") /\ UNCHANGED <<slots, freed>>
  /\ UNCHANGED <<now, limiterVars>>

-----------------------------------------------------------------------------
(* The limiter.                                                            *)

(* Mutated: a timestamp exactly one window old still counts.               *)
Fresh_KeepsEdge(t) == {s \in Socket : at[s] + Window >= t}

(* prune keeps what is after now - window: a timestamp exactly one window  *)
(* old is out.                                                             *)
Fresh(t) == {s \in Socket : at[s] + Window > t}

Prune(k) == hits[k] \cap Fresh(now)

(* Mutated: a sweep drops every other key, whatever it still holds.        *)
Record_SweepsAll(s, kept) ==
  LET k == From[s] IN
  /\ keys' = IF Cardinality(keys \cup {k}) > SweepThreshold THEN {k} ELSE keys \cup {k}
  /\ hits' = [j \in Source |->
       IF j = k THEN kept \cup {s}
       ELSE IF Cardinality(keys \cup {k}) > SweepThreshold THEN {} ELSE hits[j]]

(* The attempt is added to its key; with too many keys, sweepLocked prunes *)
(* all others and drops those that end up empty.                           *)
Record(s, kept) ==
  LET k == From[s]
      sweep == Cardinality(keys \cup {k}) > SweepThreshold
  IN /\ keys' = IF sweep THEN {j \in keys : Prune(j) # {}} \cup {k} ELSE keys \cup {k}
     /\ hits' = [j \in Source |-> IF j = k THEN kept \cup {s} ELSE IF sweep THEN Prune(j) ELSE hits[j]]

(* A denied attempt leaves only the pruning behind.                        *)
Deny(s, kept) ==
  /\ keys' = keys \cup {From[s]}
  /\ hits' = [hits EXCEPT ![From[s]] = kept]
  /\ UNCHANGED <<at, granted>>

Allowed(s) == Cardinality(Prune(From[s])) < Limit

(* offerPairing asks the limiter before it makes anything for the attempt. *)
Allow(s) ==
  /\ phase[s] = "stranger"
  /\ LET kept == Prune(From[s]) IN
     IF Allowed(s)
     THEN /\ Record(s, kept)
          /\ at' = [at EXCEPT ![s] = now] /\ granted' = granted \cup {s}
          /\ Goto(s, "begin")
     ELSE Deny(s, kept) /\ Goto(s, "leaving")
  /\ UNCHANGED <<now, slots, freed>>

(* offerPairing: the registry of attempts, then peer:pair:required.  The   *)
(* device is busy (Pairing.tla has the registry), the nonce fails or the   *)
(* socket is dead: the socket leaves.  Otherwise the slot is given back    *)
(* while the humans decide.                                                *)
BeginPairing(s) ==
  /\ phase[s] = "begin"
  /\ \/ Goto(s, "leaving") /\ UNCHANGED <<slots, freed>>
     \/ Goto(s, "frames") /\ Release(s)
  /\ UNCHANGED <<now, limiterVars>>

-----------------------------------------------------------------------------
(* frameLoop ends: the far side went away, or the socket was closed.       *)
FramesEnd(s) ==
  /\ phase[s] = "frames"
  /\ Goto(s, "leaving")
  /\ UNCHANGED <<now, slots, freed, limiterVars>>

(* Mutated: only the paths that release by themselves do.                  *)
Leave_KeepsSlot(s) ==
  /\ phase[s] = "leaving"
  /\ Goto(s, "gone")
  /\ UNCHANGED <<now, slots, freed, limiterVars>>

(* The deferred calls of serveInbound: release, then teardown.             *)
Leave(s) ==
  /\ phase[s] = "leaving"
  /\ Release(s)
  /\ Goto(s, "gone")
  /\ UNCHANGED <<now, limiterVars>>

Tick ==
  /\ now < MaxTime
  /\ now' = now + 1
  /\ UNCHANGED <<phase, slots, freed, limiterVars>>

Serve(s) == Upgrade(s) \/ NoHello(s) \/ AcceptAuthenticated(s) \/ Allow(s) \/ BeginPairing(s) \/ Leave(s)

Next ==
  \/ \E s \in Socket : HandlePeer(s) \/ ReadHello(s) \/ Serve(s) \/ FramesEnd(s)
  \/ Tick

Spec == Init /\ [][Next]_vars

(* A goroutine goes on; waiting for the hello ends with handshakeTimeout.  *)
(* Nothing is assumed of the peer, the humans or the clock.                *)
FairSpec == Spec /\ \A s \in Socket : WF_vars(Serve(s))

-----------------------------------------------------------------------------
(* Sockets that cost a slot: between the guard and the proof or prompt,    *)
(* and those of them that are on their way out.                            *)
Holding(s) ==
  \/ phase[s] \in {"upgrade", "hello", "verified", "stranger", "begin"}
  \/ phase[s] = "leaving" /\ s \notin freed

(* The handshake counter is the number of sockets that have a slot, on     *)
(* every path through serveInbound: none is given back twice or kept, so   *)
(* the cap never shifts; and it is zero once all sockets are gone.         *)
SlotsMatch == slots = Cardinality({s \in Socket : Holding(s)})

InWindow(k, t) == {s \in granted : From[s] = k /\ at[s] + Window > t /\ at[s] <= t}

(* The budget of ratelimit.go: whatever window one looks at, ending at any *)
(* time so far, a source address was granted at most Limit attempts in it. *)
(* Neither pruning nor a sweep for other addresses forgets one too early.  *)
WindowLimit == \A k \in Source, t \in 0..now : Cardinality(InWindow(k, t)) <= Limit

(* A denial is earned: a source is refused only with Limit granted         *)
(* attempts in the window.  Attempts that were denied, and attempts of     *)
(* other addresses, never keep anybody out (ratelimit.go, "A denied        *)
(* attempt is deliberately NOT recorded").                                 *)
DenialIsEarned ==
  [][\A s \in Socket : phase[s] = "stranger" /\ phase'[s] = "leaving"
        => Cardinality(InWindow(From[s], now)) >= Limit]_vars

(* The cap is never reached for good: a full handshake table has room      *)
(* again, with no help from the peers that fill it.                        *)
CapIsTemporary == slots = MaxHandshakes ~> slots < MaxHandshakes
=============================================================================
