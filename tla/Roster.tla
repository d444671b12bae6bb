------------------------------- MODULE Roster -------------------------------
(***************************************************************************)
(* From an mDNS answer to the device list of a panel: the sighting table   *)
(* of discovery/browse.go, the event channel to main.consumeDiscovery, the *)
(* roster of server/devices.go with its sweeper, and the pushes of its     *)
(* snapshot: by the debounce timer, at once after a trust change, and in   *)
(* answer to devices:refresh.                                              *)
(*                                                                         *)
(* Time passes in units of browseCycle (10 s) and an instant is kept as    *)
(* its age, so the clock has no bound.  The sub-second debounce is a timer *)
(* that may fire at any time after it was set.  A pushed list is not kept  *)
(* as a value: "fresh" says whether it is still what Devices() would       *)
(* return.  There is one panel, always connected (ControlPlane.tla has the *)
(* sockets).                                                               *)
(***************************************************************************)
EXTENDS AddrPref, Sequences, FiniteSets

CONSTANTS
  Peer,         \* other daemons on the LAN, by their TXT id
  Views,        \* views of the local network this machine may have
  None,
  TTL,          \* DeviceOnlineTTL
  Refresh,      \* emitRefreshAfter
  Epsilon,      \* lastSeenEpsilon
  DropAfter,    \* deviceDropAfter
  QueueSize,    \* discoveryQueue
  Timer,        \* timer objects, each with the goroutine that runs its flush
  Caller        \* goroutines that push by themselves

(* Ages stop growing where nothing tells them apart any more.              *)
Kept == [addr : Address, seen : 0..TTL + 1, emitted : 0..Refresh]
Dev  == [addr : Address, lastSeen : 0..DropAfter + 1, online : BOOLEAN]

ASSUME RosterAssumption ==
  /\ None \notin Peer \cup Address \cup Timer \cup Caller /\ Timer \cap Caller = {}
  /\ None \notin Kept /\ None \notin Dev
  /\ TTL \in Nat /\ Refresh \in 0..TTL /\ DropAfter \in Nat /\ QueueSize \in Nat \ {0}
  (* 10 s and 10 s (DeviceTTL / 3): an event the browser thinks is due is   *)
  (* worth a push.                                                         *)
  /\ Epsilon \in 0..Refresh
  (* 30 s + 10 s and 60 s: the roster drops nobody who was heard in time.   *)
  /\ TTL + Refresh <= DropAfter
  /\ Views \subseteq View

Push == Timer \cup Caller

VARIABLES
  known,    \* browser.known: [addr, seen, emitted] or None
  events,   \* the channel from Browse to consumeDiscovery
  roster,   \* devByID: [addr, lastSeen, online] or None
  paired,   \* the peers in the trust store
  owing,    \* goroutines that changed the roster and have not scheduled yet
  devTimer, \* Server.devTimer
  timer,    \* [Timer -> "off" or "set"]
  telling,  \* a trust change not followed by its BroadcastDevices yet
  pc,       \* [Push -> Step]
  fresh,    \* [Push -> BOOLEAN]: what it has read so far still holds
  shown,    \* the panel's list is what Devices() would return
  excused   \* history: an older list came after it, or nobody had a change pushed

timerVars  == <<devTimer, timer>>
pushVars   == <<pc, fresh, shown, excused>>
vars == <<known, events, roster, paired, owing, timerVars, telling, pushVars>>

(* Devices reads the trust store and then the roster.                      *)
TrustRead  == {"roster", "queue"}
RosterRead == {"queue"}
Step       == {"idle", "flush", "devices"} \cup TrustRead

TypeOK ==
  /\ known \in [Peer -> Kept \cup {None}]
  /\ events \in Seq([kind : {"seen", "remove"}, peer : Peer, addr : Address])
  /\ Len(events) <= QueueSize
  /\ roster \in [Peer -> Dev \cup {None}] /\ paired \subseteq Peer
  /\ owing \subseteq {"consumer", "sweeper"}
  /\ devTimer \in Timer \cup {None} /\ timer \in [Timer -> {"off", "set"}]
  /\ telling \in BOOLEAN
  /\ pc \in [Push -> Step] /\ fresh \in [Push -> BOOLEAN]
  /\ shown \in BOOLEAN /\ excused \in BOOLEAN

Init ==
  /\ known = [p \in Peer |-> None] /\ events = <<>>
  /\ roster = [p \in Peer |-> None] /\ paired \in SUBSET Peer /\ owing = {}
  /\ devTimer = None /\ timer = [t \in Timer |-> "off"] /\ telling = FALSE
  /\ pc = [q \in Push |-> "idle"] /\ fresh = [q \in Push |-> TRUE]
  /\ shown = TRUE /\ excused = FALSE

-----------------------------------------------------------------------------
(* The browser.                                                            *)

Emit(k, p, a) == events' = Append(events, [kind |-> k, peer |-> p, addr |-> a])

(* send blocks while the channel is full.                                  *)
Room == Len(events) < QueueSize

(* Mutated: only a visible change is worth an event.                       *)
Due_Never(p) == FALSE

(* The last event of this device is so old that a sighting is one again.   *)
Due(p) == known[p].emitted >= Refresh

(* Mutated: a re-sighting that only moves the address is not a change.     *)
Changed_IgnoresAddress(p, a) == FALSE

Changed(p, a) == known[p].addr # a

(* observe, and send, which waits for room.  An answer with no id, with    *)
(* this daemon's own id, without a usable port or a usable address changes *)
(* nothing; "offered" are the addresses of one that is none of these.  The *)
(* view of the network is refreshed every cycle and may be any.            *)
Observe(p, offered) ==
  /\ Room
  /\ \E v \in Views : \E a \in Pick(v, offered) :
       LET new  == known[p] = None
           emit == new \/ Changed(p, a) \/ Due(p)
       IN /\ known' = [known EXCEPT ![p] = [addr |-> a, seen |-> 0,
                                            emitted |-> IF emit THEN 0 ELSE known[p].emitted]]
          /\ IF emit THEN Emit("seen", p, a) ELSE UNCHANGED events
  /\ UNCHANGED <<roster, paired, owing, timerVars, telling, pushVars>>

(* browser.sweep: nothing but the clock says that a peer is gone.          *)
Expire(p) ==
  /\ known[p] # None /\ known[p].seen > TTL /\ Room
  /\ known' = [known EXCEPT ![p] = None]
  /\ Emit("remove", p, known[p].addr)
  /\ UNCHANGED <<roster, paired, owing, timerVars, telling, pushVars>>

-----------------------------------------------------------------------------
(* The roster.                                                             *)

Stale(d) == d.lastSeen > TTL

(* A list for which the roster, or the trust store, was read before it     *)
(* moved is no longer what Devices() would return.                         *)
Outdate(read) ==
  /\ fresh' = [q \in Push |-> fresh[q] /\ pc[q] \notin read]
  /\ shown' = FALSE /\ excused' = FALSE

(* "who" has changed the roster and will schedule a push.                  *)
Owe(who) ==
  /\ owing' = owing \cup {who}
  /\ Outdate(RosterRead)

DeviceChanged(prev, next) ==
  \/ prev.addr # next.addr \/ prev.online # next.online
  \/ prev.lastSeen - next.lastSeen >= Epsilon

(* UpsertDevice.  A sighting not worth a push still moves LastSeen.        *)
Upsert(p, d) ==
  /\ roster' = [roster EXCEPT ![p] = d]
  /\ IF roster[p] = None \/ DeviceChanged(roster[p], d) THEN Owe("consumer")
     ELSE /\ UNCHANGED owing
          /\ IF roster[p] = d THEN UNCHANGED <<fresh, shown, excused>>
             ELSE Outdate(RosterRead)

(* RemoveDevice.                                                           *)
Remove(p) ==
  /\ roster' = [roster EXCEPT ![p] = None]
  /\ IF roster[p] = None THEN UNCHANGED <<owing, fresh, shown, excused>> ELSE Owe("consumer")

(* consumeDiscovery handles one event and then the next.                   *)
Consume ==
  /\ events # <<>> /\ "consumer" \notin owing
  /\ LET e == Head(events) IN
     IF e.kind = "seen" THEN Upsert(e.peer, [addr |-> e.addr, lastSeen |-> 0, online |-> TRUE])
     ELSE Remove(e.peer)
  /\ events' = Tail(events)
  /\ UNCHANGED <<known, paired, timerVars, telling, pc>>

Aged(p) ==
  IF roster[p] = None \/ (p \notin paired /\ roster[p].lastSeen > DropAfter) THEN None
  ELSE [roster[p] EXCEPT !.online = @ /\ ~Stale(roster[p])]

(* SweepDevices, by its ticker or by a panel that asks for the devices.    *)
SweepDevices(who) ==
  /\ roster' = [p \in Peer |-> Aged(p)]
  /\ IF roster' = roster THEN UNCHANGED <<owing, fresh, shown, excused>> ELSE Owe(who)

Sweep ==
  /\ "sweeper" \notin owing /\ \E p \in Peer : Aged(p) # roster[p]
  /\ SweepDevices("sweeper")
  /\ UNCHANGED <<known, events, paired, timerVars, telling, pc>>

-----------------------------------------------------------------------------
(* The debounce.                                                           *)

(* scheduleDevicesBroadcast.  A pending timer starts over, unless the      *)
(* window is too old.                                                      *)
Schedule(who) ==
  /\ who \in owing
  /\ owing' = owing \ {who}
  /\ IF devTimer = None
     THEN \E t \in Timer : /\ timer[t] = "off" /\ pc[t] = "idle"
                           /\ timer' = [timer EXCEPT ![t] = "set"] /\ devTimer' = t
     ELSE /\ timer' \in {timer, [timer EXCEPT ![devTimer] = "set"]}
          /\ UNCHANGED devTimer
  /\ UNCHANGED <<known, events, roster, paired, telling, pushVars>>

Goto(q, s) == pc' = [pc EXCEPT ![q] = s]

(* The timer fires: its flush runs on a goroutine of its own.              *)
Fire(t) ==
  /\ timer[t] = "set" /\ pc[t] = "idle"
  /\ timer' = [timer EXCEPT ![t] = "off"]
  /\ Goto(t, "flush")
  /\ UNCHANGED <<known, events, roster, paired, owing, devTimer, telling, fresh,
                 shown, excused>>

(* flushDevices forgets devTimer, be it its own or a later one.            *)
Flush(t) ==
  /\ pc[t] = "flush"
  /\ devTimer' = None
  /\ Goto(t, "devices")
  /\ UNCHANGED <<known, events, roster, paired, owing, timer, telling, fresh,
                 shown, excused>>

-----------------------------------------------------------------------------
(* Pushes.                                                                 *)

(* A pairing completes, or Forget revokes one: the peer layer has changed  *)
(* the trust store and will have the list pushed, one change at a time.    *)
TrustChange(p) ==
  /\ ~telling
  /\ paired' = IF p \in paired THEN paired \ {p} ELSE paired \cup {p}
  /\ telling' = TRUE
  /\ Outdate(TrustRead)
  /\ UNCHANGED <<known, events, roster, owing, timerVars, pc>>

(* A Forget whose write fails is answered with an error: the store in      *)
(* memory has lost the device, and no push follows.                        *)
ForgetFails(p) ==
  /\ p \in paired /\ paired' = paired \ {p}
  /\ fresh' = [q \in Push |-> fresh[q] /\ pc[q] \notin TrustRead]
  /\ shown' = FALSE /\ excused' = TRUE
  /\ UNCHANGED <<known, events, roster, owing, timerVars, telling, pc>>

(* stopDeviceTimer.                                                        *)
StopTimer ==
  /\ devTimer' = None
  /\ timer' = IF devTimer = None THEN timer ELSE [timer EXCEPT ![devTimer] = "off"]

(* BroadcastDevices: the pending push is cancelled, for this one.          *)
BroadcastDevices(q) ==
  /\ telling /\ pc[q] = "idle"
  /\ telling' = FALSE
  /\ StopTimer
  /\ Goto(q, "devices")
  /\ UNCHANGED <<known, events, roster, paired, owing, fresh, shown, excused>>

(* devices:refresh: age the roster first, then answer.                     *)
DevicesRefresh(q) ==
  /\ pc[q] = "idle" /\ "sweeper" \notin owing
  /\ SweepDevices("sweeper")
  /\ Goto(q, "devices")
  /\ UNCHANGED <<known, events, paired, timerVars, telling>>

(* Devices: which devices are paired, and then under devMu the roster.     *)
(* The last read, of the paired devices that are not in it, only meets     *)
(* changes that have outdated the first.                                   *)
Devices(q) ==
  /\ \/ pc[q] = "devices" /\ Goto(q, "roster")
     \/ pc[q] = "roster" /\ Goto(q, "queue")
  /\ UNCHANGED <<known, events, roster, paired, owing, timerVars, telling, fresh, shown, excused>>

(* Mutated: the debounce is cancelled once this push is out.               *)
Queue_StopsTimer(q) ==
  /\ pc[q] = "queue"
  /\ Goto(q, "idle")
  /\ StopTimer
  /\ shown' = fresh[q] /\ excused' = (~fresh[q] /\ (shown \/ excused))
  /\ fresh' = [fresh EXCEPT ![q] = TRUE]
  /\ UNCHANGED <<known, events, roster, paired, owing, telling>>

(* Broadcast: the list is queued behind whatever was queued before it.     *)
Queue(q) ==
  /\ pc[q] = "queue"
  /\ Goto(q, "idle")
  /\ shown' = fresh[q] /\ excused' = (~fresh[q] /\ (shown \/ excused))
  /\ fresh' = [fresh EXCEPT ![q] = TRUE]
  /\ UNCHANGED <<known, events, roster, paired, owing, timerVars, telling>>

-----------------------------------------------------------------------------
Older(n, cap) == IF n < cap THEN n + 1 ELSE n

(* Ten seconds pass.  Handling an event takes no such time.  A device that *)
(* is stale from now on is listed as offline from now on.                  *)
Tick ==
  LET d(p) == [roster[p] EXCEPT !.lastSeen = Older(@, DropAfter + 1)] IN
  /\ events = <<>>
  /\ known' = [p \in Peer |-> IF known[p] = None THEN None
                 ELSE [known[p] EXCEPT !.seen = Older(@, TTL + 1), !.emitted = Older(@, Refresh)]]
  /\ roster' = [p \in Peer |-> IF roster[p] = None THEN None ELSE d(p)]
  /\ IF \E p \in Peer : roster[p] # None /\ roster[p].online /\ ~Stale(roster[p]) /\ Stale(d(p))
     THEN Outdate(RosterRead) ELSE UNCHANGED <<fresh, shown, excused>>
  /\ UNCHANGED <<events, paired, owing, timerVars, telling, pc>>

Next ==
  \/ \E p \in Peer : \/ \E offered \in SUBSET Address : Observe(p, offered)
                     \/ Expire(p) \/ TrustChange(p) \/ ForgetFails(p)
  \/ Consume \/ Sweep \/ Tick
  \/ \E w \in {"consumer", "sweeper"} : Schedule(w)
  \/ \E t \in Timer : Fire(t) \/ Flush(t)
  \/ \E q \in Caller : BroadcastDevices(q) \/ DevicesRefresh(q)
  \/ \E q \in Push : Devices(q) \/ Queue(q)

Spec == Init /\ [][Next]_vars

-----------------------------------------------------------------------------
(* A push that will still show the roster and the trust store as they are. *)
Owed ==
  \/ owing # {} \/ telling \/ \E t \in Timer : timer[t] # "off"
  \/ \E q \in Push : pc[q] \in {"flush", "devices"} \/ (pc[q] # "idle" /\ fresh[q])
  \/ \E p \in Peer : Aged(p) # roster[p]

(* Once nothing is on its way, the panel's list is the current one,        *)
(* LastSeen included, unless a push of an older reading went out after a   *)
(* newer one or the change was a Forget that failed: the debounce, its     *)
(* cancelling and its resets, and a flush that forgets a later timer never *)
(* lose a change.                                                          *)
PanelIsCurrent == ~shown /\ ~excused => Owed

HeardWithin(p, n) == known[p] # None /\ known[p].seen <= n

(* A device is listed as offline, or not at all, only when it has not      *)
(* answered for all but the last Refresh of the TTL; and as online only    *)
(* when it has answered within the TTL.                                    *)
StatusIsEarned ==
  events = <<>> => \A p \in Peer :
    LET online == roster[p] # None /\ roster[p].online /\ ~Stale(roster[p])
    IN IF online THEN HeardWithin(p, TTL) ELSE ~HeardWithin(p, TTL - Refresh)

(* The roster has the address the browser last picked, for every device    *)
(* that is not about to expire.                                            *)
RosterMirrorsBrowser ==
  events = <<>> => \A p \in Peer :
    HeardWithin(p, TTL) => roster[p] # None /\ roster[p].addr = known[p].addr
=============================================================================
