---------------------------- MODULE Roster_proof ----------------------------
(***************************************************************************)
(* The safety properties of Roster, for any number of peers, addresses,    *)
(* timers and callers, any size of the event channel and any of its        *)
(* periods.  The inductive invariant has two parts: what a push that is    *)
(* under way or owed makes up for, and, peer by peer, what the events that *)
(* wait in the channel will make of the roster.                            *)
(***************************************************************************)
EXTENDS Roster, TLAPS

Message == [kind : {"seen", "remove"}, peer : Peer, addr : Address]

(* TypeOK in four parts, one for each group of actions.                    *)
BrowserType ==
  /\ known \in [Peer -> Kept \cup {None}]
  /\ events \in Seq(Message) /\ Len(events) <= QueueSize

RosterType ==
  /\ roster \in [Peer -> Dev \cup {None}] /\ paired \subseteq Peer
  /\ owing \subseteq {"consumer", "sweeper"} /\ telling \in BOOLEAN

TimerType == devTimer \in Timer \cup {None} /\ timer \in [Timer -> {"off", "set"}]

PushType ==
  /\ pc \in [Push -> Step] /\ fresh \in [Push -> BOOLEAN]
  /\ shown \in BOOLEAN /\ excused \in BOOLEAN

LEMMA TypeParts == TypeOK <=> BrowserType /\ RosterType /\ TimerType /\ PushType
  BY DEF TypeOK, BrowserType, RosterType, TimerType, PushType, Message

LEMMA TypePartsNext == BrowserType' /\ RosterType' /\ TimerType' /\ PushType' => TypeOK'
  BY DEF TypeOK, BrowserType, RosterType, TimerType, PushType, Message

LEMMA TypeInit == Init => TypeOK
<1> SUFFICES ASSUME Init PROVE TypeOK
  OBVIOUS
<1> USE RosterAssumption DEF Init
<1>1. BrowserType
  BY DEF BrowserType
<1>2. RosterType /\ TimerType /\ PushType
  BY DEF RosterType, TimerType, PushType, Step
<1> QED
  BY <1>1, <1>2, TypeParts

(* What a step leaves alone keeps its type.                                *)
LEMMA Same ==
  /\ BrowserType /\ UNCHANGED <<known, events>> => BrowserType'
  /\ RosterType /\ UNCHANGED <<roster, paired, owing, telling>> => RosterType'
  /\ TimerType /\ UNCHANGED timerVars => TimerType'
  /\ PushType /\ UNCHANGED pushVars => PushType'
  BY DEF BrowserType, RosterType, TimerType, PushType, timerVars, pushVars

(* An event fits behind the others while there is room.                    *)
LEMMA EmitType ==
  ASSUME BrowserType, Room, NEW k \in {"seen", "remove"}, NEW p \in Peer, NEW a \in Address,
         Emit(k, p, a)
  PROVE  events' \in Seq(Message) /\ Len(events') <= QueueSize
<1>1. [kind |-> k, peer |-> p, addr |-> a] \in Message
  BY DEF Message
<1> QED
  BY <1>1, RosterAssumption DEF Emit, Room, BrowserType

LEMMA OutdateType ==
  ASSUME PushType, UNCHANGED pc, Outdate(TrustRead) \/ Outdate(RosterRead)
  PROVE  PushType'
  BY DEF PushType, Outdate

LEMMA ObserveType ==
  ASSUME TypeOK, NEW p \in Peer, NEW offered \in SUBSET Address, Observe(p, offered)
  PROVE  TypeOK'
<1>0. BrowserType /\ RosterType /\ TimerType /\ PushType
  BY TypeParts
<1>1. PICK v \in Views : \E a \in Pick(v, offered) :
        LET emit == known[p] = None \/ Changed(p, a) \/ Due(p)
        IN /\ known' = [known EXCEPT ![p] = [addr |-> a, seen |-> 0,
                                             emitted |-> IF emit THEN 0 ELSE known[p].emitted]]
           /\ IF emit THEN Emit("seen", p, a) ELSE UNCHANGED events
  BY DEF Observe
<1>2. PICK a \in Pick(v, offered) :
        LET emit == known[p] = None \/ Changed(p, a) \/ Due(p)
        IN /\ known' = [known EXCEPT ![p] = [addr |-> a, seen |-> 0,
                                             emitted |-> IF emit THEN 0 ELSE known[p].emitted]]
           /\ IF emit THEN Emit("seen", p, a) ELSE UNCHANGED events
  BY <1>1
<1>3. a \in Address
  BY DEF Pick
<1> DEFINE emit == known[p] = None \/ Changed(p, a) \/ Due(p)
           em   == IF emit THEN 0 ELSE known[p].emitted
<1>4. em \in 0..Refresh
  <2>1. CASE emit
    BY <2>1, RosterAssumption
  <2>2. CASE ~emit
    BY <1>0, <2>2 DEF BrowserType, Kept
  <2> QED
    BY <2>1, <2>2
<1>5. [addr |-> a, seen |-> 0, emitted |-> em] \in Kept
  BY <1>3, <1>4, RosterAssumption DEF Kept
<1>6. known' = [known EXCEPT ![p] = [addr |-> a, seen |-> 0, emitted |-> em]]
  BY <1>2
<1>7. known' \in [Peer -> Kept \cup {None}]
  BY <1>0, <1>5, <1>6 DEF BrowserType
<1>8. events' \in Seq(Message) /\ Len(events') <= QueueSize
  BY <1>0, <1>2, <1>3, EmitType DEF Observe, BrowserType
<1>9. BrowserType'
  BY <1>7, <1>8 DEF BrowserType
<1> QED
  BY <1>0, <1>9, Same, TypePartsNext DEF Observe

LEMMA ExpireType ==
  ASSUME TypeOK, NEW p \in Peer, Expire(p)
  PROVE  TypeOK'
<1>0. BrowserType /\ RosterType /\ TimerType /\ PushType
  BY TypeParts
<1>1. known[p].addr \in Address
  BY <1>0 DEF BrowserType, Kept, Expire
<1>2. events' \in Seq(Message) /\ Len(events') <= QueueSize
  BY <1>0, <1>1, EmitType DEF Expire
<1>3. known' \in [Peer -> Kept \cup {None}]
  BY <1>0 DEF BrowserType, Expire
<1>4. BrowserType'
  BY <1>2, <1>3 DEF BrowserType
<1> QED
  BY <1>0, <1>4, Same, TypePartsNext DEF Expire

LEMMA ConsumeType ==
  ASSUME TypeOK, Consume
  PROVE  TypeOK'
<1>0. BrowserType /\ RosterType /\ TimerType /\ PushType
  BY TypeParts
<1> DEFINE m == Head(events)
<1>1. m \in Message /\ events' \in Seq(Message) /\ Len(events') <= QueueSize
  BY <1>0, RosterAssumption DEF BrowserType, Consume
<1>2. BrowserType'
  BY <1>0, <1>1 DEF BrowserType, Consume
<1>3. [addr |-> m.addr, lastSeen |-> 0, online |-> TRUE] \in Dev /\ m.peer \in Peer
  BY <1>1, RosterAssumption DEF Message, Dev
<1>4. roster' \in [Peer -> Dev \cup {None}] /\ owing' \subseteq {"consumer", "sweeper"}
  BY <1>0, <1>3 DEF RosterType, Consume, Upsert, Remove, Owe
<1>5. PushType'
  BY <1>0, OutdateType, Same DEF Consume, Upsert, Remove, Owe, pushVars
<1>6. RosterType'
  BY <1>0, <1>4 DEF RosterType, Consume
<1>7. TimerType'
  BY <1>0, Same DEF Consume
<1> QED
  BY <1>2, <1>5, <1>6, <1>7, TypePartsNext

LEMMA AgedType == ASSUME TypeOK, NEW p \in Peer PROVE Aged(p) \in Dev \cup {None}
<1>1. CASE Aged(p) = None
  BY <1>1
<1>2. CASE Aged(p) # None
  <2>1. roster[p] \in Dev
    BY <1>2 DEF TypeOK, Aged
  <2> DEFINE on == roster[p].online /\ ~Stale(roster[p])
  <2>2. on \in BOOLEAN
    OBVIOUS
  <2> HIDE DEF on
  <2>3. [roster[p] EXCEPT !.online = on] \in Dev
    BY <2>1, <2>2 DEF Dev
  <2> QED
    BY <1>2, <2>3, Zenon DEF Aged, on
<1> QED
  BY <1>1, <1>2

LEMMA SweepType ==
  ASSUME TypeOK, SweepDevices("sweeper"), UNCHANGED <<paired, telling>>
  PROVE  /\ RosterType'
         /\ UNCHANGED pc => PushType'
         /\ fresh' \in [Push -> BOOLEAN] /\ shown' \in BOOLEAN /\ excused' \in BOOLEAN
<1>0. RosterType /\ PushType
  BY TypeParts
<1>1. roster' \in [Peer -> Dev \cup {None}]
  BY AgedType DEF SweepDevices
<1>2. owing' \subseteq {"consumer", "sweeper"}
  BY <1>0 DEF RosterType, SweepDevices, Owe
<1>3. fresh' \in [Push -> BOOLEAN] /\ shown' \in BOOLEAN /\ excused' \in BOOLEAN
  BY <1>0 DEF PushType, SweepDevices, Owe, Outdate
<1> QED
  BY <1>0, <1>1, <1>2, <1>3 DEF RosterType, PushType

LEMMA OlderType == \A n \in Nat, cap \in Nat : n <= cap => Older(n, cap) \in 0..cap
  BY DEF Older

LEMMA TickType ==
  ASSUME TypeOK, Tick
  PROVE  TypeOK'
<1>0. BrowserType /\ RosterType /\ TimerType /\ PushType
  BY TypeParts
<1>1. ASSUME NEW p \in Peer, known[p] # None
      PROVE  [known[p] EXCEPT !.seen = Older(@, TTL + 1), !.emitted = Older(@, Refresh)] \in Kept
  <2>1. known[p] \in Kept
    BY <1>0, <1>1 DEF BrowserType
  <2>2. Older(known[p].seen, TTL + 1) \in 0..(TTL + 1) /\ Older(known[p].emitted, Refresh) \in 0..Refresh
    BY <2>1, OlderType, RosterAssumption DEF Kept
  <2> QED
    BY <2>1, <2>2 DEF Kept
<1>2. known' \in [Peer -> Kept \cup {None}]
  BY <1>1 DEF Tick
<1>3. ASSUME NEW p \in Peer, roster[p] # None
      PROVE  [roster[p] EXCEPT !.lastSeen = Older(@, DropAfter + 1)] \in Dev
  <2>1. roster[p] \in Dev
    BY <1>0, <1>3 DEF RosterType
  <2>2. Older(roster[p].lastSeen, DropAfter + 1) \in 0..(DropAfter + 1)
    BY <2>1, OlderType, RosterAssumption DEF Dev
  <2> QED
    BY <2>1, <2>2 DEF Dev
<1>4. roster' \in [Peer -> Dev \cup {None}]
  BY <1>3 DEF Tick
<1>5. PushType'
  BY <1>0, OutdateType, Same DEF Tick, pushVars
<1>6. BrowserType' /\ RosterType'
  BY <1>0, <1>2, <1>4 DEF BrowserType, RosterType, Tick
<1> QED
  BY <1>0, <1>5, <1>6, Same, TypePartsNext DEF Tick, timerVars

LEMMA ScheduleType ==
  ASSUME TypeOK, NEW w \in {"consumer", "sweeper"}, Schedule(w)
  PROVE  TypeOK'
<1>0. BrowserType /\ RosterType /\ TimerType /\ PushType
  BY TypeParts
<1>1. TimerType'
  BY <1>0 DEF TimerType, Schedule
<1>2. RosterType'
  BY <1>0 DEF RosterType, Schedule
<1> QED
  BY <1>0, <1>1, <1>2, Same, TypePartsNext DEF Schedule, timerVars, pushVars

LEMMA TimerStepType ==
  ASSUME TypeOK, NEW t \in Timer, Fire(t) \/ Flush(t)
  PROVE  TypeOK'
<1>0. BrowserType /\ RosterType /\ TimerType /\ PushType
  BY TypeParts
<1>1. TimerType' /\ PushType'
  BY <1>0 DEF TimerType, PushType, Push, Step, Fire, Flush, Goto
<1> QED
  BY <1>0, <1>1, Same, TypePartsNext DEF Fire, Flush

LEMMA TrustChangeType ==
  ASSUME TypeOK, NEW p \in Peer, TrustChange(p) \/ ForgetFails(p)
  PROVE  TypeOK'
<1>0. BrowserType /\ RosterType /\ TimerType /\ PushType
  BY TypeParts
<1>1. RosterType' /\ PushType'
  <2>1. CASE TrustChange(p)
    BY <1>0, <2>1, OutdateType DEF RosterType, TrustChange
  <2>2. CASE ForgetFails(p)
    BY <1>0, <2>2 DEF RosterType, PushType, ForgetFails
  <2> QED
    BY <2>1, <2>2
<1> QED
  BY <1>0, <1>1, Same, TypePartsNext DEF TrustChange, ForgetFails, timerVars

LEMMA PushStepType ==
  ASSUME TypeOK, NEW q \in Push, BroadcastDevices(q) \/ Devices(q) \/ Queue(q)
  PROVE  TypeOK'
<1>0. BrowserType /\ RosterType /\ TimerType /\ PushType
  BY TypeParts
<1>1. PushType'
  BY <1>0 DEF PushType, Step, TrustRead, BroadcastDevices, Devices, Queue, Goto
<1>2. TimerType'
  BY <1>0 DEF TimerType, BroadcastDevices, Devices, Queue, StopTimer, timerVars
<1>3. RosterType'
  BY <1>0 DEF RosterType, BroadcastDevices, Devices, Queue
<1> QED
  BY <1>0, <1>1, <1>2, <1>3, Same, TypePartsNext DEF BroadcastDevices, Devices, Queue

LEMMA RefreshType ==
  ASSUME TypeOK, NEW q \in Push, DevicesRefresh(q)
  PROVE  TypeOK'
<1>0. BrowserType /\ RosterType /\ TimerType /\ PushType
  BY TypeParts
<1>1. RosterType' /\ fresh' \in [Push -> BOOLEAN] /\ shown' \in BOOLEAN /\ excused' \in BOOLEAN
  BY SweepType DEF DevicesRefresh
<1>2. PushType'
  BY <1>0, <1>1 DEF PushType, Step, DevicesRefresh, Goto
<1> QED
  BY <1>0, <1>1, <1>2, Same, TypePartsNext DEF DevicesRefresh, timerVars

LEMMA TypeStep == TypeOK /\ [Next]_vars => TypeOK'
<1> SUFFICES ASSUME TypeOK, [Next]_vars PROVE TypeOK'
  OBVIOUS
<1>1. CASE Sweep
  <2>1. RosterType' /\ PushType'
    BY <1>1, SweepType DEF Sweep
  <2> QED
    BY <1>1, <2>1, Same, TypeParts, TypePartsNext DEF Sweep
<1>2. CASE UNCHANGED vars
  BY <1>2, Same, TypeParts, TypePartsNext DEF vars
<1>3. ASSUME NEW q \in Caller, BroadcastDevices(q) \/ DevicesRefresh(q) PROVE TypeOK'
  BY <1>3, PushStepType, RefreshType DEF Push
<1> QED
  BY <1>1, <1>2, <1>3, ObserveType, ExpireType, TrustChangeType, ConsumeType, TickType,
     ScheduleType, TimerStepType, PushStepType DEF Next

(* Every variable keeps its type: the event channel never holds more than  *)
(* its size, no timer is armed that is not one, and a device is kept only  *)
(* with an age the sweepers know (devices.go, browse.go).                  *)
THEOREM TypeCorrect == Spec => []TypeOK
  BY TypeInit, TypeStep, PTL DEF Spec

-----------------------------------------------------------------------------
(* The peers.  What the browser keeps, what is on its way and what the     *)
(* roster keeps of one peer.                                               *)

OfPeer(p) == {i \in DOMAIN events : events[i].peer = p}
Last(p, i)  == i \in OfPeer(p) /\ \A j \in OfPeer(p) : j <= i
First(p, i) == i \in OfPeer(p) /\ \A j \in OfPeer(p) : i <= j

(* The last event on its way says what the browser has.                    *)
Pending(p) ==
  \A i \in OfPeer(p) : Last(p, i) =>
    IF events[i].kind = "seen"
    THEN /\ known[p] # None /\ known[p].addr = events[i].addr
         /\ known[p].seen = 0 /\ known[p].emitted = 0
    ELSE known[p] = None

(* With nothing on its way the roster has what was emitted last.           *)
Mirror(p) ==
  /\ known[p].addr = roster[p].addr
  /\ known[p].emitted = (IF roster[p].lastSeen < Refresh THEN roster[p].lastSeen ELSE Refresh)
  /\ known[p].seen <= roster[p].lastSeen
  /\ \/ known[p].seen > TTL \/ known[p].seen = roster[p].lastSeen
     \/ roster[p].lastSeen - known[p].seen < Refresh

(* A device is missing only when the browser does not have it or is about  *)
(* to let it go, and then its next sighting is an event.                   *)
Settled(p) ==
  OfPeer(p) = {} =>
    /\ known[p] = None => roster[p] = None
    /\ known[p] # None /\ roster[p] = None => known[p].seen > TTL /\ known[p].emitted = Refresh
    /\ known[p] # None /\ roster[p] # None => Mirror(p)

OfflineIsStale(p) == roster[p] # None => roster[p].online \/ Stale(roster[p])

(* A sighting of p at this address that UpsertDevice will have pushed.     *)
Worth(p, a) == roster[p] = None \/ roster[p].addr # a \/ roster[p].lastSeen >= Refresh

FirstIsWorth(p) ==
  \A i \in OfPeer(p) : First(p, i) /\ events[i].kind = "seen" => Worth(p, events[i].addr)

(* Two sightings with nothing between them differ.                         *)
NextIsWorth(p) ==
  \A i, j \in OfPeer(p) :
    /\ i < j /\ \A k \in OfPeer(p) : k <= i \/ j <= k
    /\ events[i].kind = "seen" /\ events[j].kind = "seen"
    => events[i].addr # events[j].addr \/ Refresh = 0

PeerInv(p) ==
  /\ Pending(p) /\ Settled(p) /\ OfflineIsStale(p)
  /\ FirstIsWorth(p) /\ NextIsWorth(p)

LEMMA AppendStep ==
  ASSUME TypeOK, NEW m \in Message, events' = Append(events, m)
  PROVE  LET n == Len(events) + 1
         IN  /\ \A i \in DOMAIN events : i \in 1..Len(events) /\ events'[i] = events[i]
             /\ n \in Nat /\ events'[n] = m
             /\ \A p \in Peer \ {m.peer} : (OfPeer(p))' = OfPeer(p)
             /\ (OfPeer(m.peer))' = OfPeer(m.peer) \cup {n}
             /\ \A p \in Peer : \A i \in OfPeer(p) : i \in 1..Len(events) /\ events'[i] = events[i]
<1> DEFINE n == Len(events) + 1
<1>1. events \in Seq(Message)
  BY TypeParts DEF BrowserType
<1>2. DOMAIN events = 1..Len(events) /\ Len(events) \in Nat
  BY <1>1
<1>3. DOMAIN events' = DOMAIN events \cup {n} /\ events'[n] = m
  BY <1>1, <1>2
<1>4. \A i \in DOMAIN events : i \in 1..Len(events) /\ events'[i] = events[i]
  BY <1>1, <1>2
<1>5. n \in Nat
  BY <1>2
<1>6. \A p \in Peer \ {m.peer} : (OfPeer(p))' = OfPeer(p)
  BY <1>3, <1>4 DEF OfPeer
<1>7. (OfPeer(m.peer))' = OfPeer(m.peer) \cup {n}
  BY <1>3, <1>4 DEF OfPeer
<1>8. \A p \in Peer : \A i \in OfPeer(p) : i \in 1..Len(events) /\ events'[i] = events[i]
  BY <1>4 DEF OfPeer
<1> QED
  BY <1>3, <1>4, <1>5, <1>6, <1>7, <1>8

LEMMA TailStep ==
  ASSUME TypeOK, events # <<>>, events' = Tail(events)
  PROVE  /\ 1 \in OfPeer(Head(events).peer) /\ Head(events) = events[1] /\ events[1] \in Message
         /\ \A p \in Peer : (OfPeer(p))' = {i \in Nat \ {0} : i + 1 \in OfPeer(p)}
         /\ \A p \in Peer : \A i \in (OfPeer(p))' : i \in Nat /\ events'[i] = events[i + 1]
         /\ \A p \in Peer : OfPeer(p) \subseteq Nat \ {0}
<1>1. events \in Seq(Message)
  BY TypeParts DEF BrowserType
<1>2. DOMAIN events = 1..Len(events) /\ Len(events) \in Nat \ {0}
  BY <1>1
<1>3. DOMAIN events' = 1..(Len(events) - 1) /\ \A i \in DOMAIN events' : events'[i] = events[i + 1]
  BY <1>1, <1>2
<1>4. 1 \in OfPeer(Head(events).peer) /\ Head(events) = events[1] /\ events[1] \in Message
  BY <1>1, <1>2 DEF OfPeer
<1>5. ASSUME NEW p \in Peer
      PROVE  /\ (OfPeer(p))' = {i \in Nat \ {0} : i + 1 \in OfPeer(p)}
             /\ \A i \in (OfPeer(p))' : i \in Nat /\ events'[i] = events[i + 1]
             /\ OfPeer(p) \subseteq Nat \ {0}
  BY <1>2, <1>3 DEF OfPeer
<1> QED
  BY <1>4, <1>5

(* A step that leaves a peer alone.                                        *)
LEMMA PeerSame ==
  ASSUME NEW p \in Peer, PeerInv(p), known'[p] = known[p], roster'[p] = roster[p],
         (OfPeer(p))' = OfPeer(p), \A i \in OfPeer(p) : events'[i] = events[i]
  PROVE  (PeerInv(p))'
  BY DEF PeerInv, Pending, Settled, Mirror, OfflineIsStale, FirstIsWorth, NextIsWorth, Worth, Last, First, Stale
(* An event says nothing of the other peers.                               *)
LEMMA EmitOther ==
  ASSUME TypeOK, NEW k \in {"seen", "remove"}, NEW x \in Peer, NEW a \in Address, Emit(k, x, a),
         NEW p \in Peer \ {x}
  PROVE  (OfPeer(p))' = OfPeer(p) /\ \A i \in OfPeer(p) : events'[i] = events[i]
<1>1. [kind |-> k, peer |-> x, addr |-> a] \in Message
  BY DEF Message
<1> QED
  BY <1>1, AppendStep DEF Emit
(* What a peer needs for an event of its own to join the queue: the event  *)
(* is the last one, and only the first one answers to the roster.          *)
LEMMA PeerEmit ==
  ASSUME TypeOK, NEW x \in Peer, PeerInv(x), NEW k \in {"seen", "remove"}, NEW a \in Address,
         Emit(k, x, a), roster'[x] = roster[x],
         IF k = "seen"
         THEN /\ known'[x] # None /\ known'[x].addr = a
              /\ known'[x].seen = 0 /\ known'[x].emitted = 0
              /\ known[x] = None \/ known[x].addr # a \/ known[x].emitted >= Refresh
         ELSE known'[x] = None
  PROVE  (PeerInv(x))'
<1> DEFINE m == [kind |-> k, peer |-> x, addr |-> a]
           n == Len(events) + 1
<1>1. m \in Message /\ m.peer = x /\ m.kind = k /\ m.addr = a
  BY DEF Message
<1>2. /\ n \in Nat /\ events'[n] = m
      /\ (OfPeer(x))' = OfPeer(x) \cup {n}
      /\ \A i \in OfPeer(x) : i \in 1..Len(events) /\ events'[i] = events[i]
  BY <1>1, AppendStep DEF Emit
<1> HIDE DEF m
<1>3. \A i \in OfPeer(x) : i \in Nat /\ i < n /\ i # n
  BY <1>2
<1> HIDE DEF n
<1>4. \A i : (Last(x, i))' => i = n
  BY <1>2, <1>3 DEF Last
<1>5. (Pending(x))'
  BY <1>1, <1>2, <1>4 DEF Pending
<1>6. (Settled(x))' /\ (OfflineIsStale(x))'
  BY <1>2 DEF Settled, OfflineIsStale, PeerInv, Stale
<1>7. ASSUME k = "seen", OfPeer(x) = {} PROVE Worth(x, a)
  <2>1. CASE roster[x] = None
    BY <2>1 DEF Worth
  <2>2. CASE roster[x] # None
    <3>1. known[x] # None
      BY <1>7, <2>2 DEF PeerInv, Settled
    <3>2. Mirror(x)
      BY <1>7, <2>2, <3>1 DEF PeerInv, Settled
    <3>3. roster[x].lastSeen \in Nat
      BY <2>2, RosterAssumption DEF TypeOK, Dev
    <3> QED
      BY <1>7, <3>1, <3>2, <3>3, RosterAssumption DEF Mirror, Worth
  <2> QED
    BY <2>1, <2>2
<1>8. (FirstIsWorth(x))'
  <2> SUFFICES ASSUME NEW i \in (OfPeer(x))', (First(x, i))', events'[i].kind = "seen"
               PROVE  (Worth(x, events[i].addr))'
    BY DEF FirstIsWorth
  <2>1. CASE i = n
    <3>1. OfPeer(x) = {}
      BY <1>2, <1>3, <2>1 DEF First
    <3> QED
      BY <1>1, <1>2, <1>7, <2>1, <3>1 DEF Worth
  <2>2. CASE i # n
    <3>1. i \in OfPeer(x) /\ First(x, i) /\ events'[i] = events[i]
      BY <1>2, <2>2 DEF First
    <3> QED
      BY <3>1 DEF PeerInv, FirstIsWorth, Worth
  <2> QED
    BY <2>1, <2>2
<1>9. (NextIsWorth(x))'
  <2> SUFFICES ASSUME NEW i \in (OfPeer(x))', NEW j \in (OfPeer(x))', i < j,
                      \A h \in (OfPeer(x))' : h <= i \/ j <= h,
                      events'[i].kind = "seen", events'[j].kind = "seen"
               PROVE  events'[i].addr # events'[j].addr \/ Refresh = 0
    BY DEF NextIsWorth
  <2>0. i # n
    BY <1>2, <1>3
  <2>1. i \in OfPeer(x) /\ events'[i] = events[i]
    BY <1>2, <2>0
  <2>2. CASE j = n
    <3>1. Last(x, i)
      BY <1>2, <1>3, <2>1, <2>2 DEF Last
    <3>2. known[x] # None /\ known[x].addr = events[i].addr /\ known[x].emitted = 0
      BY <2>1, <3>1 DEF PeerInv, Pending
    <3> QED
      BY <1>1, <1>2, <2>1, <2>2, <3>2, RosterAssumption
  <2>3. CASE j # n
    <3>1. j \in OfPeer(x) /\ events'[j] = events[j]
      BY <1>2, <2>3
    <3>2. \A h \in OfPeer(x) : h <= i \/ j <= h
      BY <1>2
    <3> QED
      BY <2>1, <3>1, <3>2 DEF PeerInv, NextIsWorth
  <2> QED
    BY <2>2, <2>3
<1> QED
  BY <1>5, <1>6, <1>8, <1>9 DEF PeerInv

LEMMA ObservePeers ==
  ASSUME TypeOK, \A p \in Peer : PeerInv(p),
         NEW x \in Peer, NEW offered \in SUBSET Address, Observe(x, offered)
  PROVE  \A p \in Peer : (PeerInv(p))'
<1>1. PICK v \in Views : \E a \in Pick(v, offered) :
        LET emit == known[x] = None \/ Changed(x, a) \/ Due(x)
        IN /\ known' = [known EXCEPT ![x] = [addr |-> a, seen |-> 0,
                                             emitted |-> IF emit THEN 0 ELSE known[x].emitted]]
           /\ IF emit THEN Emit("seen", x, a) ELSE UNCHANGED events
  BY DEF Observe
<1>2. PICK a \in Pick(v, offered) :
        LET emit == known[x] = None \/ Changed(x, a) \/ Due(x)
        IN /\ known' = [known EXCEPT ![x] = [addr |-> a, seen |-> 0,
                                             emitted |-> IF emit THEN 0 ELSE known[x].emitted]]
           /\ IF emit THEN Emit("seen", x, a) ELSE UNCHANGED events
  BY <1>1
<1>3. a \in Address /\ roster' = roster
  BY DEF Pick, Observe
<1> DEFINE emit == known[x] = None \/ Changed(x, a) \/ Due(x)
<1>4. known \in [Peer -> Kept \cup {None}]
  BY DEF TypeOK
<1>5. \A p \in Peer \ {x} : known'[p] = known[p]
  BY <1>2, <1>4
<1>6. CASE emit
  <2>1. known'[x] = [addr |-> a, seen |-> 0, emitted |-> 0] /\ Emit("seen", x, a)
    BY <1>2, <1>4, <1>6
  <2>2. [addr |-> a, seen |-> 0, emitted |-> 0] # None
    BY <1>3, RosterAssumption DEF Kept
  <2>3. (PeerInv(x))'
    BY <1>3, <1>6, <2>1, <2>2, PeerEmit DEF Changed, Due
  <2>4. ASSUME NEW p \in Peer \ {x} PROVE (PeerInv(p))'
    BY <1>3, <1>5, <2>1, EmitOther, PeerSame
  <2> QED
    BY <2>3, <2>4
<1>7. CASE ~emit
  <2>1. /\ known'[x] = [addr |-> a, seen |-> 0, emitted |-> known[x].emitted] 
        /\ events' = events /\ known[x] # None /\ known[x].addr = a /\ ~(known[x].emitted >= Refresh)
    BY <1>2, <1>4, <1>7 DEF Changed, Due
  <2>2. known[x] \in Kept /\ known[x].emitted \in Nat /\ known[x].emitted < Refresh
    BY <1>4, <2>1, RosterAssumption DEF Kept
  <2>3. known'[x] # None
    BY <1>3, <2>1, <2>2, RosterAssumption DEF Kept
  <2>4. \A p \in Peer : (OfPeer(p))' = OfPeer(p)
    BY <2>1 DEF OfPeer
  <2>5. (Pending(x))'
    BY <2>1, <2>3, <2>4 DEF PeerInv, Pending, Last
  <2>6. (Settled(x))'
    <3> SUFFICES ASSUME OfPeer(x) = {} PROVE roster[x] # None /\ (Mirror(x))'
      BY <1>3, <2>3, <2>4 DEF Settled
    <3>1. roster[x] # None /\ Mirror(x)
      BY <2>1, <2>2, RosterAssumption DEF PeerInv, Settled
    <3>2. roster[x].lastSeen \in Nat
      BY <3>1, RosterAssumption DEF TypeOK, Dev
    <3>3. known[x].emitted = roster[x].lastSeen /\ roster[x].lastSeen < Refresh
      BY <2>2, <3>1, <3>2, RosterAssumption DEF Mirror
    <3> QED
      BY <1>3, <2>1, <3>1, <3>2, <3>3, RosterAssumption DEF Mirror
  <2>7. (OfflineIsStale(x))' /\ (FirstIsWorth(x))' /\ (NextIsWorth(x))'
    BY <1>3, <2>1, <2>4 DEF PeerInv, OfflineIsStale, FirstIsWorth, NextIsWorth, Worth, First, Stale
  <2>8. (PeerInv(x))'
    BY <2>5, <2>6, <2>7 DEF PeerInv
  <2>9. ASSUME NEW p \in Peer \ {x} PROVE (PeerInv(p))'
    BY <1>3, <1>5, <2>1, <2>4, PeerSame
  <2> QED
    BY <2>8, <2>9
<1> QED
  BY <1>6, <1>7

LEMMA ExpirePeers ==
  ASSUME TypeOK, \A p \in Peer : PeerInv(p), NEW x \in Peer, Expire(x)
  PROVE  \A p \in Peer : (PeerInv(p))'
<1>1. known \in [Peer -> Kept \cup {None}] /\ known[x].addr \in Address
  BY DEF TypeOK, Expire, Kept
<1>2. /\ known'[x] = None /\ \A p \in Peer \ {x} : known'[p] = known[p]
      /\ Emit("remove", x, known[x].addr) /\ roster' = roster
  BY <1>1 DEF Expire
<1>3. (PeerInv(x))'
  BY <1>1, <1>2, PeerEmit
<1>4. ASSUME NEW p \in Peer \ {x} PROVE (PeerInv(p))'
  BY <1>1, <1>2, EmitOther, PeerSame
<1> QED
  BY <1>3, <1>4
(* The consumer pushes every sighting it is given: the browser emits one   *)
(* only for a new address or after Refresh, and Epsilon is not longer.     *)
LEMMA SightingIsPushed ==
  ASSUME TypeOK, \A p \in Peer : PeerInv(p), events # <<>>, Head(events).kind = "seen"
  PROVE  LET m == Head(events)
             d == [addr |-> m.addr, lastSeen |-> 0, online |-> TRUE]
         IN  roster[m.peer] = None \/ DeviceChanged(roster[m.peer], d)
<1>1. PICK m : m = Head(events)
  OBVIOUS
<1>2. events \in Seq(Message)
  BY TypeParts DEF BrowserType
<1>3. m = events[1] /\ m \in Message /\ 1 \in OfPeer(m.peer) /\ \A j \in DOMAIN events : 1 <= j
  BY <1>1, <1>2 DEF OfPeer
<1>4. m.peer \in Peer /\ First(m.peer, 1)
  BY <1>3 DEF Message, First, OfPeer
<1>5. Worth(m.peer, m.addr)
  BY <1>3, <1>4 DEF PeerInv, FirstIsWorth
<1>6. CASE roster[m.peer] # None
  <2>1. roster[m.peer].lastSeen \in Nat
    BY <1>4, <1>6, RosterAssumption DEF TypeOK, Dev
  <2>2. roster[m.peer].addr # m.addr \/ roster[m.peer].lastSeen - 0 >= Epsilon
    BY <1>5, <1>6, <2>1, RosterAssumption DEF Worth
  <2>3. DeviceChanged(roster[m.peer], [addr |-> m.addr, lastSeen |-> 0, online |-> TRUE])
    BY <2>2 DEF DeviceChanged
  <2> QED
    BY <1>1, <2>3
<1> QED
  BY <1>1, <1>6

LEMMA ConsumePeers ==
  ASSUME TypeOK, \A p \in Peer : PeerInv(p), Consume
  PROVE  \A p \in Peer : (PeerInv(p))'
<1>0. PICK m, x : m = Head(events) /\ x = m.peer
  OBVIOUS
<1> DEFINE d == [addr |-> m.addr, lastSeen |-> 0, online |-> TRUE]
<1>1. events # <<>> /\ events' = Tail(events) /\ known' = known
  BY DEF Consume
<1>2. /\ 1 \in OfPeer(x) /\ m = events[1] /\ m \in Message
      /\ \A p \in Peer : (OfPeer(p))' = {i \in Nat \ {0} : i + 1 \in OfPeer(p)}
      /\ \A p \in Peer : \A i \in (OfPeer(p))' : i \in Nat /\ events'[i] = events[i + 1]
      /\ \A p \in Peer : OfPeer(p) \subseteq Nat \ {0}
  BY <1>0, <1>1, TailStep
<1>3. x \in Peer /\ m.kind \in {"seen", "remove"} /\ m.addr \in Address
  BY <1>0, <1>2 DEF Message
<1>4. /\ m.kind = "seen" => roster' = [roster EXCEPT ![x] = d]
      /\ m.kind # "seen" => roster' = [roster EXCEPT ![x] = None]
  BY <1>0 DEF Consume, Upsert, Remove
<1>5. roster \in [Peer -> Dev \cup {None}]
  BY DEF TypeOK
<1>6. d # None
  <2>1. d \in Dev
    BY <1>3, RosterAssumption DEF Dev
  <2> QED
    BY <2>1, RosterAssumption
<1>7. /\ m.kind = "seen" => roster'[x] = d
      /\ m.kind # "seen" => roster'[x] = None
      /\ \A p \in Peer \ {x} : roster'[p] = roster[p]
  BY <1>3, <1>4, <1>5
<1>8. \A p \in Peer : OfPeer(p) # {1} /\ 1 \in OfPeer(p) => (OfPeer(p))' # {}
  <2> SUFFICES ASSUME NEW p \in Peer, NEW i \in OfPeer(p), i # 1 PROVE (OfPeer(p))' # {}
    OBVIOUS
  <2>1. i \in Nat \ {0}
    BY <1>2
  <2>2. i - 1 \in Nat \ {0} /\ (i - 1) + 1 = i
    BY <2>1
  <2>3. i - 1 \in (OfPeer(p))'
    BY <1>2, <2>2
  <2> QED
    BY <2>3
<1>9. ASSUME NEW p \in Peer, NEW i, (Last(p, i))' PROVE i \in Nat /\ i + 1 \in OfPeer(p) /\ Last(p, i + 1)
  <2>1. i \in Nat \ {0} /\ i + 1 \in OfPeer(p)
    BY <1>2, <1>9 DEF Last
  <2>2. ASSUME NEW j \in OfPeer(p) PROVE j <= i + 1
    <3>1. j \in Nat \ {0}
      BY <1>2
    <3>2. CASE j = 1
      BY <2>1, <3>2
    <3>3. CASE j # 1
      <4>1. j - 1 \in Nat \ {0} /\ (j - 1) + 1 = j
        BY <3>1, <3>3
      <4>2. j - 1 \in (OfPeer(p))'
        BY <1>2, <4>1
      <4> QED
        BY <1>9, <2>1, <4>1, <4>2 DEF Last
    <3> QED
      BY <3>2, <3>3
  <2> QED
    BY <2>1, <2>2 DEF Last
<1>10. ASSUME NEW p \in Peer PROVE (Pending(p))'
  <2> SUFFICES ASSUME NEW i \in (OfPeer(p))', (Last(p, i))'
               PROVE  IF events'[i].kind = "seen"
                      THEN /\ known'[p] # None /\ known'[p].addr = events'[i].addr
                           /\ known'[p].seen = 0 /\ known'[p].emitted = 0
                      ELSE known'[p] = None
    BY DEF Pending
  <2>1. i + 1 \in OfPeer(p) /\ Last(p, i + 1) /\ events'[i] = events[i + 1]
    BY <1>2, <1>9
  <2> QED
    BY <1>1, <2>1 DEF PeerInv, Pending
<1>11. ASSUME NEW p \in Peer, NEW i \in (OfPeer(p))', NEW j \in (OfPeer(p))', i < j,
              \A h \in (OfPeer(p))' : h <= i \/ j <= h
       PROVE  /\ i + 1 \in OfPeer(p) /\ j + 1 \in OfPeer(p) /\ i + 1 < j + 1
              /\ \A h \in OfPeer(p) : h <= i + 1 \/ j + 1 <= h
  <2>1. i \in Nat \ {0} /\ i + 1 \in OfPeer(p) /\ j \in Nat \ {0} /\ j + 1 \in OfPeer(p)
    BY <1>2
  <2>2. ASSUME NEW h \in OfPeer(p) PROVE h <= i + 1 \/ j + 1 <= h
    <3>1. h \in Nat \ {0}
      BY <1>2
    <3>2. CASE h = 1
      BY <2>1, <3>2
    <3>3. CASE h # 1
      <4>1. h - 1 \in Nat \ {0} /\ (h - 1) + 1 = h
        BY <3>1, <3>3
      <4>2. h - 1 \in (OfPeer(p))'
        BY <1>2, <4>1
      <4> QED
        BY <1>11, <2>1, <3>1, <4>2
    <3> QED
      BY <3>2, <3>3
  <2> QED
    BY <1>11, <2>1, <2>2
<1>12. ASSUME NEW p \in Peer PROVE (NextIsWorth(p))'
  <2> SUFFICES ASSUME NEW i \in (OfPeer(p))', NEW j \in (OfPeer(p))', i < j,
                      \A h \in (OfPeer(p))' : h <= i \/ j <= h,
                      events'[i].kind = "seen", events'[j].kind = "seen"
               PROVE  events'[i].addr # events'[j].addr \/ Refresh = 0
    BY DEF NextIsWorth
  <2>1. /\ i + 1 \in OfPeer(p) /\ j + 1 \in OfPeer(p) /\ i + 1 < j + 1
        /\ \A h \in OfPeer(p) : h <= i + 1 \/ j + 1 <= h
    BY <1>11
  <2>2. events'[i] = events[i + 1] /\ events'[j] = events[j + 1]
    BY <1>2
  <2> QED
    BY <2>1, <2>2 DEF PeerInv, NextIsWorth
<1>13. (Settled(x))'
  <2> SUFFICES ASSUME (OfPeer(x))' = {}
               PROVE  /\ known[x] = None => roster'[x] = None
                      /\ known[x] # None /\ roster'[x] = None => known[x].seen > TTL /\ known[x].emitted = Refresh
                      /\ known[x] # None /\ roster'[x] # None => (Mirror(x))'
    BY <1>1 DEF Settled
  <2>1. OfPeer(x) = {1}
    BY <1>2, <1>3, <1>8
  <2>2. Last(x, 1)
    BY <2>1 DEF Last
  <2>3. CASE m.kind = "seen"
    <3>1. /\ known[x] # None /\ known[x].addr = m.addr
          /\ known[x].seen = 0 /\ known[x].emitted = 0
      BY <1>2, <1>3, <2>1, <2>2, <2>3 DEF PeerInv, Pending
    <3> QED
      BY <1>1, <1>6, <1>7, <2>3, <3>1, RosterAssumption DEF Mirror
  <2>4. CASE m.kind # "seen"
    <3>1. known[x] = None
      BY <1>2, <1>3, <2>1, <2>2, <2>4 DEF PeerInv, Pending
    <3> QED
      BY <1>7, <2>4, <3>1
  <2> QED
    BY <2>3, <2>4
<1>14. (OfflineIsStale(x))'
  BY <1>7 DEF OfflineIsStale
<1>15. (FirstIsWorth(x))'
  <2> SUFFICES ASSUME NEW i \in (OfPeer(x))', (First(x, i))', events'[i].kind = "seen"
               PROVE  roster'[x] = None \/ roster'[x].addr # events'[i].addr \/ roster'[x].lastSeen >= Refresh
    BY DEF FirstIsWorth, Worth
  <2>1. CASE m.kind = "seen"
    <3>1. i \in Nat \ {0} /\ i + 1 \in OfPeer(x) /\ events'[i] = events[i + 1]
      BY <1>2, <1>3
    <3>2. ASSUME NEW h \in OfPeer(x) PROVE h <= 1 \/ i + 1 <= h
      <4>1. h \in Nat \ {0}
        BY <1>2, <1>3
      <4>2. CASE h # 1
        <5>1. h - 1 \in Nat \ {0} /\ (h - 1) + 1 = h
          BY <4>1, <4>2
        <5>2. h - 1 \in (OfPeer(x))'
          BY <1>2, <1>3, <5>1
        <5> QED
          BY <3>1, <4>1, <5>2 DEF First
      <4> QED
        BY <4>2
    <3>3. 1 < i + 1
      BY <3>1
    <3>4. events[1].addr # events[i + 1].addr \/ Refresh = 0
      <4>1. NextIsWorth(x)
        BY <1>3 DEF PeerInv
      <4> QED
        BY <1>2, <2>1, <3>1, <3>2, <3>3, <4>1 DEF NextIsWorth
    <3> QED
      BY <1>2, <1>7, <2>1, <3>1, <3>4, RosterAssumption
  <2>2. CASE m.kind # "seen"
    BY <1>7, <2>2
  <2> QED
    BY <2>1, <2>2
<1>16. (PeerInv(x))'
  BY <1>3, <1>10, <1>12, <1>13, <1>14, <1>15 DEF PeerInv
<1>17. ASSUME NEW p \in Peer \ {x} PROVE (PeerInv(p))'
  <2>0. 1 \notin OfPeer(p)
    BY <1>2 DEF OfPeer
  <2>1. (OfPeer(p))' = {} => OfPeer(p) = {}
    <3> SUFFICES ASSUME NEW i \in OfPeer(p) PROVE (OfPeer(p))' # {}
      OBVIOUS
    <3>1. i \in Nat \ {0} /\ i # 1
      BY <1>2, <2>0
    <3>2. i - 1 \in Nat \ {0} /\ (i - 1) + 1 = i
      BY <3>1
    <3>3. i - 1 \in (OfPeer(p))'
      BY <1>2, <3>2
    <3> QED
      BY <3>3
  <2>2. (Settled(p))' /\ (OfflineIsStale(p))'
    BY <1>1, <1>7, <2>1 DEF PeerInv, Settled, Mirror, OfflineIsStale, Stale
  <2>3. (FirstIsWorth(p))'
    <3> SUFFICES ASSUME NEW i \in (OfPeer(p))', (First(p, i))', events'[i].kind = "seen"
                 PROVE  (Worth(p, events[i].addr))'
      BY DEF FirstIsWorth
    <3>1. i \in Nat \ {0} /\ i + 1 \in OfPeer(p) /\ events'[i] = events[i + 1]
      BY <1>2
    <3>2. ASSUME NEW h \in OfPeer(p) PROVE i + 1 <= h
      <4>1. h \in Nat \ {0} /\ h # 1
        BY <1>2, <2>0
      <4>2. h - 1 \in Nat \ {0} /\ (h - 1) + 1 = h
        BY <4>1
      <4>3. h - 1 \in (OfPeer(p))'
        BY <1>2, <4>2
      <4> QED
        BY <3>1, <4>1, <4>3 DEF First
    <3>3. First(p, i + 1)
      BY <3>1, <3>2 DEF First
    <3>4. Worth(p, events[i + 1].addr)
      BY <3>1, <3>3 DEF PeerInv, FirstIsWorth
    <3> QED
      BY <1>7, <3>1, <3>4 DEF Worth
  <2> QED
    BY <1>10, <1>12, <2>2, <2>3 DEF PeerInv
<1> QED
  BY <1>16, <1>17

(* Ageing the roster leaves who is listed, where, and since when, except   *)
(* that it lets go who the browser is about to let go.                     *)
LEMMA SweepPeers ==
  ASSUME TypeOK, \A p \in Peer : PeerInv(p), NEW who, SweepDevices(who),
         UNCHANGED <<known, events>>
  PROVE  \A p \in Peer : (PeerInv(p))'
<1> SUFFICES ASSUME NEW p \in Peer PROVE (PeerInv(p))'
  OBVIOUS
<1>1. /\ (OfPeer(p))' = OfPeer(p) /\ events' = events /\ known' = known
  BY DEF OfPeer
<1>2. roster'[p] = Aged(p)
  BY DEF SweepDevices
<1>3. (Pending(p))' /\ (NextIsWorth(p))'
  BY <1>1 DEF PeerInv, Pending, NextIsWorth, Last
<1>4. CASE roster[p] = None
  <2>1. roster'[p] = roster[p]
    BY <1>2, <1>4 DEF Aged
  <2> QED
    BY <1>1, <2>1, PeerSame
<1>5. CASE roster[p] # None
  <2>1. roster[p] \in Dev
    BY <1>5 DEF TypeOK
  <2>2. roster[p].lastSeen \in Nat
    BY <2>1, RosterAssumption DEF Dev
  <2>3. CASE Aged(p) = None
    <3>1. roster[p].lastSeen > DropAfter
      <4> SUFFICES ASSUME Aged(p) = [roster[p] EXCEPT !.online = @ /\ ~Stale(roster[p])] PROVE FALSE
        BY <1>5, <2>3 DEF Aged
      <4>1. PICK on \in BOOLEAN : on = (roster[p].online /\ ~Stale(roster[p]))
        OBVIOUS
      <4>2. [roster[p] EXCEPT !.online = on] \in Dev
        BY <2>1 DEF Dev
      <4> QED
        BY <2>3, <4>1, <4>2, RosterAssumption
    <3>2. (Settled(p))'
      <4> SUFFICES ASSUME OfPeer(p) = {}, known[p] # None
                   PROVE  known[p].seen > TTL /\ known[p].emitted = Refresh
        BY <1>1, <1>2, <2>3 DEF Settled
      <4>1. Mirror(p)
        BY <1>5 DEF PeerInv, Settled
      <4>2. known[p].seen \in Nat
        BY RosterAssumption DEF TypeOK, Kept
      <4> QED
        BY <2>2, <3>1, <4>1, <4>2, RosterAssumption DEF Mirror
    <3> QED
      BY <1>2, <1>3, <2>3, <3>2 DEF PeerInv, OfflineIsStale, FirstIsWorth, Worth
  <2>4. CASE Aged(p) # None
    <3>1. PICK on \in BOOLEAN : on = (roster[p].online /\ ~Stale(roster[p]))
      OBVIOUS
    <3>2. roster'[p] = [roster[p] EXCEPT !.online = on]
      BY <1>2, <2>4, <3>1 DEF Aged
    <3>3. /\ roster'[p] # None /\ roster'[p].addr = roster[p].addr
          /\ roster'[p].lastSeen = roster[p].lastSeen /\ roster'[p].online = on
      BY <1>2, <2>1, <2>4, <3>2 DEF Dev
    <3>4. (Settled(p))'
      BY <1>1, <1>5, <3>3 DEF PeerInv, Settled, Mirror
    <3>5. (OfflineIsStale(p))'
      BY <1>5, <3>1, <3>3 DEF PeerInv, OfflineIsStale, Stale
    <3>6. (FirstIsWorth(p))'
      BY <1>1, <1>5, <3>3 DEF PeerInv, FirstIsWorth, Worth, First
    <3> QED
      BY <1>3, <3>4, <3>5, <3>6 DEF PeerInv
  <2> QED
    BY <2>3, <2>4
<1> QED
  BY <1>4, <1>5

LEMMA TickPeers ==
  ASSUME TypeOK, \A p \in Peer : PeerInv(p), Tick
  PROVE  \A p \in Peer : (PeerInv(p))'
<1> SUFFICES ASSUME NEW p \in Peer PROVE (PeerInv(p))'
  OBVIOUS
<1>1. events = <<>> /\ events' = events
  BY DEF Tick
<1>2. OfPeer(p) = {} /\ (OfPeer(p))' = {}
  BY <1>1 DEF OfPeer
<1>3. (Pending(p))' /\ (FirstIsWorth(p))' /\ (NextIsWorth(p))'
  BY <1>2 DEF Pending, FirstIsWorth, NextIsWorth
<1>4. /\ known[p] = None => known'[p] = None
      /\ roster[p] = None => roster'[p] = None
  BY DEF Tick
<1>5. ASSUME known[p] # None
      PROVE  /\ known[p].seen \in 0..(TTL + 1) /\ known[p].emitted \in 0..Refresh
             /\ known'[p] \in Kept /\ known'[p] # None /\ known'[p].addr = known[p].addr
             /\ known'[p].seen = Older(known[p].seen, TTL + 1)
             /\ known'[p].emitted = Older(known[p].emitted, Refresh)
  <2>1. known[p] \in Kept
    BY <1>5 DEF TypeOK
  <2>2. known'[p] = [known[p] EXCEPT !.seen = Older(known[p].seen, TTL + 1),
                                     !.emitted = Older(known[p].emitted, Refresh)]
    BY <1>5 DEF Tick
  <2>3. /\ known'[p].addr = known[p].addr
        /\ known'[p].seen = Older(known[p].seen, TTL + 1)
        /\ known'[p].emitted = Older(known[p].emitted, Refresh)
    BY <2>1, <2>2 DEF Kept
  <2>4. Older(known[p].seen, TTL + 1) \in 0..(TTL + 1) /\ Older(known[p].emitted, Refresh) \in 0..Refresh
    BY <2>1, OlderType, RosterAssumption DEF Kept
  <2>5. known'[p] \in Kept
    BY <2>1, <2>2, <2>4 DEF Kept
  <2> QED
    BY <2>1, <2>3, <2>5, RosterAssumption DEF Kept
<1>6. ASSUME roster[p] # None
      PROVE  /\ roster[p].lastSeen \in 0..(DropAfter + 1)
             /\ roster'[p] # None /\ roster'[p].addr = roster[p].addr
             /\ roster'[p].online = roster[p].online
             /\ roster'[p].lastSeen = Older(roster[p].lastSeen, DropAfter + 1)
  <2>1. roster[p] \in Dev
    BY <1>6 DEF TypeOK
  <2>2. roster'[p] = [roster[p] EXCEPT !.lastSeen = Older(roster[p].lastSeen, DropAfter + 1)]
    BY <1>6 DEF Tick
  <2>3. Older(roster[p].lastSeen, DropAfter + 1) \in 0..(DropAfter + 1)
    BY <2>1, OlderType, RosterAssumption DEF Dev
  <2>4. roster'[p] \in Dev
    BY <2>1, <2>2, <2>3 DEF Dev
  <2> QED
    BY <2>1, <2>2, <2>4, RosterAssumption DEF Dev
<1>7. (OfflineIsStale(p))'
  <2> SUFFICES ASSUME roster[p] # None PROVE roster'[p].online \/ roster'[p].lastSeen > TTL
    BY <1>4 DEF OfflineIsStale, Stale
  <2> QED
    BY <1>6, RosterAssumption DEF PeerInv, OfflineIsStale, Stale, Older
<1>8. (Settled(p))'
  <2>1. CASE known[p] = None
    BY <1>2, <1>4, <2>1 DEF PeerInv, Settled
  <2>2. CASE known[p] # None /\ roster[p] = None
    <3>1. known[p].seen > TTL /\ known[p].emitted = Refresh
      BY <1>2, <2>2 DEF PeerInv, Settled
    <3> QED
      BY <1>4, <1>5, <2>2, <3>1, RosterAssumption DEF Settled, Older
  <2>3. CASE known[p] # None /\ roster[p] # None
    <3>1. Mirror(p)
      BY <1>2, <2>3 DEF PeerInv, Settled
    <3>2. (Mirror(p))'
      BY <1>5, <1>6, <2>3, <3>1, RosterAssumption DEF Mirror, Older
    <3> QED
      BY <1>5, <1>6, <2>3, <3>2 DEF Settled
  <2> QED
    BY <2>1, <2>2, <2>3
<1> QED
  BY <1>3, <1>7, <1>8 DEF PeerInv

LEMMA PeersStep ==
  ASSUME TypeOK, \A p \in Peer : PeerInv(p), [Next]_vars
  PROVE  \A p \in Peer : (PeerInv(p))'
<1>1. ASSUME UNCHANGED <<known, events, roster>> PROVE \A p \in Peer : (PeerInv(p))'
  BY <1>1, PeerSame DEF OfPeer
<1>2. ASSUME NEW p \in Peer, TrustChange(p) \/ ForgetFails(p) PROVE UNCHANGED <<known, events, roster>>
  BY <1>2 DEF TrustChange, ForgetFails
<1>3. ASSUME NEW w \in {"consumer", "sweeper"}, Schedule(w) PROVE UNCHANGED <<known, events, roster>>
  BY <1>3 DEF Schedule
<1>4. ASSUME NEW t \in Timer, Fire(t) \/ Flush(t) PROVE UNCHANGED <<known, events, roster>>
  BY <1>4 DEF Fire, Flush
<1>5. ASSUME NEW q \in Push, BroadcastDevices(q) \/ Devices(q) \/ Queue(q)
      PROVE  UNCHANGED <<known, events, roster>>
  BY <1>5 DEF BroadcastDevices, Devices, Queue
<1>6. ASSUME NEW q \in Caller, BroadcastDevices(q) PROVE UNCHANGED <<known, events, roster>>
  BY <1>6 DEF BroadcastDevices
<1>7. ASSUME Sweep PROVE \A p \in Peer : (PeerInv(p))'
  BY <1>7, SweepPeers DEF Sweep
<1>8. ASSUME NEW q \in Caller, DevicesRefresh(q) PROVE \A p \in Peer : (PeerInv(p))'
  BY <1>8, SweepPeers DEF DevicesRefresh
<1>9. CASE UNCHANGED vars
  BY <1>1, <1>9 DEF vars
<1> QED
  BY <1>1, <1>2, <1>3, <1>4, <1>5, <1>6, <1>7, <1>8, <1>9, ObservePeers, ExpirePeers,
     ConsumePeers, TickPeers DEF Next
-----------------------------------------------------------------------------
(* The pushes.                                                             *)

(* A push that has read nothing yet holds nothing old.                     *)
FreshInv == \A q \in Push : pc[q] \notin TrustRead => fresh[q]

(* The server remembers no timer that has fired and flushed.               *)
TimerInv == devTimer # None => timer[devTimer] = "set" \/ pc[devTimer] = "flush"

PushInv == FreshInv /\ TimerInv /\ PanelIsCurrent

IInv == TypeOK /\ PushInv /\ \A p \in Peer : PeerInv(p)

LEMMA OutdatePushes ==
  ASSUME TypeOK, FreshInv, Outdate(TrustRead) \/ Outdate(RosterRead),
         \A q \in Push : pc'[q] = pc[q] \/ {pc[q], pc'[q]} \cap TrustRead = {}
  PROVE  FreshInv'
  BY DEF TypeOK, Outdate, FreshInv, TrustRead, RosterRead

(* Whatever else a step does, it owes the panel nothing more.              *)
LEMMA PushSame ==
  ASSUME PushInv, UNCHANGED <<roster, paired, owing, telling, timerVars, pushVars>>
  PROVE  PushInv'
  BY DEF PushInv, FreshInv, TimerInv, PanelIsCurrent, Owed, Aged, Stale, timerVars, pushVars

LEMMA ConsumePushes ==
  ASSUME IInv, Consume
  PROVE  PushInv'
<1>0. TypeOK /\ PushInv
  BY DEF IInv
<1>1. UNCHANGED <<paired, timerVars, telling, pc>> /\ events # <<>>
  BY DEF Consume
<1>2. CASE Owe("consumer")
  <2>1. Outdate(RosterRead) /\ owing' # {}
    BY <1>2 DEF Owe
  <2>2. FreshInv'
    BY <1>0, <1>1, <2>1, OutdatePushes DEF PushInv
  <2>3. TimerInv'
    BY <1>0, <1>1 DEF PushInv, TimerInv, timerVars
  <2>4. PanelIsCurrent'
    BY <2>1 DEF PanelIsCurrent, Owed
  <2> QED
    BY <2>2, <2>3, <2>4 DEF PushInv
<1>3. CASE ~Owe("consumer")
  <2>1. CASE Head(events).kind = "seen"
    BY <1>0, <1>1, <1>3, <2>1, SightingIsPushed DEF IInv, Consume, Upsert
  <2>2. CASE Head(events).kind # "seen"
    <3>1. /\ roster' = [roster EXCEPT ![Head(events).peer] = None]
          /\ roster[Head(events).peer] = None
          /\ UNCHANGED <<owing, fresh, shown, excused>>
      BY <1>3, <2>2 DEF Consume, Remove
    <3>2. roster' = roster
      BY <1>0, <3>1 DEF TypeOK
    <3> QED
      BY <1>0, <1>1, <3>1, <3>2, PushSame DEF pushVars
  <2> QED
    BY <2>1, <2>2
<1> QED
  BY <1>2, <1>3

LEMMA SweepPushes ==
  ASSUME TypeOK, PushInv, Sweep
  PROVE  PushInv'
<1>1. UNCHANGED <<paired, timerVars, telling, pc>>
  BY DEF Sweep
<1>2. CASE Owe("sweeper")
  <2>1. Outdate(RosterRead) /\ owing' # {}
    BY <1>2 DEF Owe
  <2>2. FreshInv'
    BY <1>1, <2>1, OutdatePushes DEF PushInv
  <2>3. TimerInv' /\ PanelIsCurrent'
    BY <1>1, <2>1 DEF PushInv, TimerInv, PanelIsCurrent, Owed, timerVars
  <2> QED
    BY <2>2, <2>3 DEF PushInv
<1>3. CASE ~Owe("sweeper")
  <2>1. roster' = roster /\ UNCHANGED <<owing, fresh, shown, excused>>
    BY <1>3 DEF Sweep, SweepDevices
  <2> QED
    BY <1>1, <2>1, PushSame DEF pushVars
<1> QED
  BY <1>2, <1>3

LEMMA RefreshPushes ==
  ASSUME TypeOK, PushInv, NEW q \in Caller, DevicesRefresh(q)
  PROVE  PushInv'
<1>0. q \in Push /\ pc \in [Push -> Step]
  BY DEF TypeOK, Push
<1>1. /\ UNCHANGED <<paired, timerVars, telling>>
      /\ pc[q] = "idle" /\ pc'[q] = "devices" /\ \A r \in Push \ {q} : pc'[r] = pc[r]
  BY <1>0 DEF DevicesRefresh, Goto
<1>2. TimerInv'
  <2> SUFFICES ASSUME devTimer # None PROVE timer[devTimer] = "set" \/ pc'[devTimer] = "flush"
    BY <1>1 DEF TimerInv, timerVars
  <2>1. devTimer \in Push
    BY DEF TypeOK, Push
  <2> QED
    BY <1>1, <2>1 DEF PushInv, TimerInv
<1>3. PanelIsCurrent'
  BY <1>0, <1>1 DEF PanelIsCurrent, Owed
<1>4. CASE Owe("sweeper")
  <2>1. FreshInv'
    BY <1>1, <1>4, OutdatePushes DEF PushInv, Owe, TrustRead
  <2> QED
    BY <1>2, <1>3, <2>1 DEF PushInv
<1>5. CASE ~Owe("sweeper")
  <2>1. UNCHANGED <<fresh, shown, excused>>
    BY <1>5 DEF DevicesRefresh, SweepDevices
  <2>2. FreshInv'
    BY <1>1, <2>1 DEF PushInv, FreshInv, TrustRead
  <2> QED
    BY <1>2, <1>3, <2>2 DEF PushInv
<1> QED
  BY <1>4, <1>5
(* What the sweeper has something to do about.                             *)
Overdue(p) ==
  /\ roster[p] # None
  /\ \/ p \notin paired /\ roster[p].lastSeen > DropAfter
     \/ roster[p].online /\ roster[p].lastSeen > TTL

LEMMA AgedIsOverdue ==
  ASSUME TypeOK, NEW p \in Peer
  PROVE  Aged(p) # roster[p] <=> Overdue(p)
<1>1. CASE roster[p] = None
  BY <1>1 DEF Aged, Overdue
<1>2. CASE roster[p] # None /\ p \notin paired /\ roster[p].lastSeen > DropAfter
  BY <1>2 DEF Aged, Overdue
<1>3. CASE roster[p] # None /\ ~(p \notin paired /\ roster[p].lastSeen > DropAfter)
  <2>1. roster[p] \in Dev
    BY <1>3 DEF TypeOK
  <2>2. PICK on \in BOOLEAN : on = (roster[p].online /\ ~Stale(roster[p]))
    OBVIOUS
  <2>3. Aged(p) = [roster[p] EXCEPT !.online = on]
    BY <1>3, <2>2 DEF Aged
  <2>4. Aged(p) = roster[p] <=> on = roster[p].online
    BY <2>1, <2>2, <2>3 DEF Dev
  <2>5. roster[p].online \in BOOLEAN
    BY <2>1 DEF Dev
  <2> QED
    BY <1>3, <2>2, <2>4, <2>5 DEF Overdue, Stale
<1> QED
  BY <1>1, <1>2, <1>3

LEMMA AgedIsOverdueNext ==
  ASSUME TypeOK', NEW p \in Peer
  PROVE  (Aged(p))' # roster'[p] <=> (Overdue(p))'
<1>1. CASE roster'[p] = None
  BY <1>1 DEF Aged, Overdue
<1>2. CASE roster'[p] # None /\ p \notin paired' /\ roster'[p].lastSeen > DropAfter
  BY <1>2 DEF Aged, Overdue
<1>3. CASE roster'[p] # None /\ ~(p \notin paired' /\ roster'[p].lastSeen > DropAfter)
  <2>1. roster'[p] \in Dev
    BY <1>3 DEF TypeOK
  <2>2. PICK on \in BOOLEAN : on = (roster'[p].online /\ ~Stale(roster'[p]))
    OBVIOUS
  <2>3. (Aged(p))' = [roster'[p] EXCEPT !.online = on]
    BY <1>3, <2>2 DEF Aged, Stale
  <2>4. (Aged(p))' = roster'[p] <=> on = roster'[p].online
    BY <2>1, <2>2, <2>3 DEF Dev
  <2>5. roster'[p].online \in BOOLEAN
    BY <2>1 DEF Dev
  <2> QED
    BY <1>3, <2>2, <2>4, <2>5 DEF Overdue, Stale
<1> QED
  BY <1>1, <1>2, <1>3

(* A device that is overdue only gets older.                               *)
LEMMA TickPushes ==
  ASSUME TypeOK, TypeOK', PushInv, Tick
  PROVE  PushInv'
<1>1. UNCHANGED <<paired, owing, timerVars, telling, pc>>
  BY DEF Tick
<1>2. ASSUME NEW p \in Peer, roster[p] # None
      PROVE  /\ roster'[p] # None /\ roster'[p].online = roster[p].online
             /\ roster[p].lastSeen \in 0..(DropAfter + 1)
             /\ roster'[p].lastSeen = Older(roster[p].lastSeen, DropAfter + 1)
             /\ [roster[p] EXCEPT !.lastSeen = Older(@, DropAfter + 1)].lastSeen = roster'[p].lastSeen
  <2>1. roster[p] \in Dev
    BY <1>2 DEF TypeOK
  <2>2. roster'[p] = [roster[p] EXCEPT !.lastSeen = Older(roster[p].lastSeen, DropAfter + 1)]
    BY <1>2 DEF Tick
  <2>3. Older(roster[p].lastSeen, DropAfter + 1) \in 0..(DropAfter + 1)
    BY <2>1, OlderType, RosterAssumption DEF Dev
  <2>4. roster'[p] \in Dev
    BY <2>1, <2>2, <2>3 DEF Dev
  <2> QED
    BY <2>1, <2>2, <2>4, RosterAssumption DEF Dev
<1>3. ASSUME NEW p \in Peer, Overdue(p) PROVE (Overdue(p))'
  BY <1>1, <1>2, <1>3, RosterAssumption DEF Overdue, Older
<1>4. TimerInv'
  BY <1>1 DEF PushInv, TimerInv, timerVars
<1>5. CASE \E p \in Peer : roster[p] # None /\ roster[p].online /\ ~Stale(roster[p])
                           /\ Stale([roster[p] EXCEPT !.lastSeen = Older(@, DropAfter + 1)])
  <2>1. Outdate(RosterRead)
    BY <1>5 DEF Tick
  <2>2. FreshInv'
    BY <1>1, <2>1, OutdatePushes DEF PushInv
  <2>3. PICK p \in Peer : roster[p] # None /\ roster[p].online
                           /\ Stale([roster[p] EXCEPT !.lastSeen = Older(@, DropAfter + 1)])
    BY <1>5
  <2>4. (Overdue(p))'
    BY <1>2, <2>3 DEF Overdue, Stale
  <2>5. (Aged(p))' # roster'[p]
    BY <2>4, AgedIsOverdueNext
  <2> QED
    BY <1>4, <2>2, <2>5 DEF PushInv, PanelIsCurrent, Owed
<1>6. CASE ~\E p \in Peer : roster[p] # None /\ roster[p].online /\ ~Stale(roster[p])
                           /\ Stale([roster[p] EXCEPT !.lastSeen = Older(@, DropAfter + 1)])
  <2>1. UNCHANGED <<fresh, shown, excused>>
    BY <1>6 DEF Tick
  <2>2. FreshInv'
    BY <1>1, <2>1 DEF PushInv, FreshInv
  <2>3. ASSUME NEW p \in Peer, Aged(p) # roster[p] PROVE (Aged(p))' # roster'[p]
    BY <1>3, <2>3, AgedIsOverdue, AgedIsOverdueNext
  <2>4. PanelIsCurrent'
    BY <1>1, <2>1, <2>3 DEF PushInv, PanelIsCurrent, Owed, timerVars
  <2> QED
    BY <1>4, <2>2, <2>4 DEF PushInv
<1> QED
  BY <1>5, <1>6

LEMMA SchedulePushes ==
  ASSUME TypeOK, PushInv, NEW w \in {"consumer", "sweeper"}, Schedule(w)
  PROVE  PushInv'
<1>1. UNCHANGED <<roster, paired, telling, pushVars>>
  BY DEF Schedule
<1>2. FreshInv'
  BY <1>1 DEF PushInv, FreshInv, pushVars
<1>3. timer \in [Timer -> {"off", "set"}] /\ devTimer \in Timer \cup {None}
  BY DEF TypeOK
<1>4. CASE devTimer = None
  <2>1. PICK t \in Timer : timer' = [timer EXCEPT ![t] = "set"] /\ devTimer' = t
    BY <1>4 DEF Schedule
  <2>2. timer'[t] = "set"
    BY <1>3, <2>1
  <2> QED
    BY <1>2, <2>1, <2>2 DEF PushInv, TimerInv, PanelIsCurrent, Owed
<1>5. CASE devTimer # None
  <2>1. devTimer \in Timer /\ devTimer \in Push /\ devTimer' = devTimer
    BY <1>3, <1>5 DEF Schedule, Push
  <2>2. timer'[devTimer] = "set" \/ (timer'[devTimer] = timer[devTimer])
    BY <1>3, <1>5, <2>1 DEF Schedule
  <2>3. timer'[devTimer] = "set" \/ pc'[devTimer] = "flush"
    BY <1>1, <1>5, <2>2 DEF PushInv, TimerInv, pushVars
  <2>4. TimerInv'
    BY <2>1, <2>3 DEF TimerInv
  <2>5. Owed'
    BY <2>1, <2>3 DEF Owed
  <2> QED
    BY <1>2, <2>4, <2>5 DEF PushInv, PanelIsCurrent
<1> QED
  BY <1>4, <1>5

LEMMA TimerPushes ==
  ASSUME TypeOK, PushInv, NEW t \in Timer, Fire(t) \/ Flush(t)
  PROVE  PushInv'
<1>0. t \in Push /\ pc \in [Push -> Step]
  BY DEF TypeOK, Push
<1>1. UNCHANGED <<fresh, shown, excused>> /\ \A q \in Push \ {t} : pc'[q] = pc[q]
  BY <1>0 DEF Fire, Flush, Goto
<1>2. pc'[t] \in {"flush", "devices"} /\ pc[t] \in {"idle", "flush"}
  BY <1>0 DEF Fire, Flush, Goto
<1>3. FreshInv'
  BY <1>1, <1>2 DEF PushInv, FreshInv, TrustRead
<1>4. PanelIsCurrent'
  BY <1>0, <1>2 DEF PanelIsCurrent, Owed
<1>5. TimerInv'
  <2>1. CASE Flush(t)
    BY <2>1 DEF Flush, TimerInv
  <2>2. CASE Fire(t)
    <3> SUFFICES ASSUME devTimer # None PROVE timer'[devTimer] = "set" \/ pc'[devTimer] = "flush"
      BY <2>2 DEF Fire, TimerInv
    <3>1. devTimer \in Timer /\ devTimer \in Push
      BY DEF TypeOK, Push
    <3>2. pc'[t] = "flush" /\ timer' = [timer EXCEPT ![t] = "off"]
      BY <1>0, <2>2 DEF Fire, Goto
    <3>3. CASE devTimer = t
      BY <3>2, <3>3
    <3>4. CASE devTimer # t
      BY <1>1, <3>1, <3>2, <3>4 DEF PushInv, TimerInv, TypeOK
    <3> QED
      BY <3>3, <3>4
  <2> QED
    BY <2>1, <2>2
<1> QED
  BY <1>3, <1>4, <1>5 DEF PushInv

LEMMA TrustPushes ==
  ASSUME TypeOK, PushInv, NEW p \in Peer, TrustChange(p)
  PROVE  PushInv'
<1>1. FreshInv'
  BY OutdatePushes DEF PushInv, TrustChange
<1>2. TimerInv' /\ PanelIsCurrent'
  BY DEF PushInv, TimerInv, PanelIsCurrent, Owed, TrustChange, timerVars
<1> QED
  BY <1>1, <1>2 DEF PushInv

LEMMA ForgetFailsPushes ==
  ASSUME TypeOK, PushInv, NEW p \in Peer, ForgetFails(p)
  PROVE  PushInv'
<1>1. FreshInv'
  BY DEF PushInv, FreshInv, ForgetFails
<1>2. TimerInv' /\ PanelIsCurrent'
  BY DEF PushInv, TimerInv, PanelIsCurrent, ForgetFails, timerVars
<1> QED
  BY <1>1, <1>2 DEF PushInv

LEMMA BroadcastPushes ==
  ASSUME TypeOK, PushInv, NEW q \in Caller, BroadcastDevices(q)
  PROVE  PushInv'
<1>0. q \in Push /\ pc \in [Push -> Step]
  BY DEF TypeOK, Push
<1>1. /\ UNCHANGED <<fresh, shown, excused>> /\ devTimer' = None
      /\ pc[q] = "idle" /\ pc'[q] = "devices" /\ \A r \in Push \ {q} : pc'[r] = pc[r]
  BY <1>0 DEF BroadcastDevices, Goto, StopTimer
<1>2. FreshInv'
  BY <1>1 DEF PushInv, FreshInv, TrustRead
<1>3. TimerInv' /\ PanelIsCurrent'
  BY <1>0, <1>1 DEF TimerInv, PanelIsCurrent, Owed
<1> QED
  BY <1>2, <1>3 DEF PushInv

LEMMA DevicesPushes ==
  ASSUME TypeOK, PushInv, NEW q \in Push, Devices(q)
  PROVE  PushInv'
<1>0. pc \in [Push -> Step]
  BY DEF TypeOK
<1>1. /\ UNCHANGED <<timerVars, fresh, shown, excused>>
      /\ pc[q] \in {"devices", "roster"} /\ pc'[q] \in TrustRead /\ \A r \in Push \ {q} : pc'[r] = pc[r]
  BY <1>0 DEF Devices, Goto, TrustRead
<1>2. pc[q] = "devices" => fresh[q]
  BY DEF PushInv, FreshInv, TrustRead
<1>3. FreshInv'
  BY <1>1, <1>2 DEF PushInv, FreshInv
<1>4. TimerInv'
  <2> SUFFICES ASSUME devTimer # None PROVE timer[devTimer] = "set" \/ pc'[devTimer] = "flush"
    BY <1>1 DEF TimerInv, timerVars
  <2>1. devTimer \in Push
    BY DEF TypeOK, Push
  <2> QED
    BY <1>1, <2>1 DEF PushInv, TimerInv
<1>5. PanelIsCurrent'
  <2>1. CASE fresh[q]
    BY <1>1, <2>1 DEF PanelIsCurrent, Owed, TrustRead
  <2>2. CASE ~fresh[q]
    <3> SUFFICES ASSUME ~shown, ~excused PROVE Owed'
      BY <1>1 DEF PanelIsCurrent
    <3>1. Owed /\ UNCHANGED <<roster, paired, owing, telling>>
      BY DEF PushInv, PanelIsCurrent, Devices
    <3>2. \A p \in Peer : (Aged(p))' = Aged(p)
      BY <3>1 DEF Aged, Stale
    <3>3. CASE \E r \in Push : pc[r] \in {"flush", "devices"} \/ (pc[r] # "idle" /\ fresh[r])
      BY <1>1, <1>2, <2>2, <3>3 DEF Owed
    <3>4. CASE ~\E r \in Push : pc[r] \in {"flush", "devices"} \/ (pc[r] # "idle" /\ fresh[r])
      BY <1>1, <3>1, <3>2, <3>4 DEF Owed, timerVars
    <3> QED
      BY <3>3, <3>4
  <2> QED
    BY <2>1, <2>2
<1> QED
  BY <1>3, <1>4, <1>5 DEF PushInv

(* A list goes out.  An old one outdates the panel for good only when a    *)
(* newer one went out before it (excused); else the change that made it    *)
(* old still owes its own push.                                            *)
LEMMA QueuePushes ==
  ASSUME TypeOK, PushInv, NEW q \in Push, Queue(q)
  PROVE  PushInv'
<1>0. pc \in [Push -> Step] /\ fresh \in [Push -> BOOLEAN]
  BY DEF TypeOK
<1>1. /\ UNCHANGED <<roster, paired, owing, telling, timerVars>>
      /\ pc[q] = "queue" /\ pc'[q] = "idle" /\ \A r \in Push \ {q} : pc'[r] = pc[r]
      /\ shown' = fresh[q] /\ excused' = (~fresh[q] /\ (shown \/ excused))
      /\ fresh'[q] = TRUE /\ \A r \in Push \ {q} : fresh'[r] = fresh[r]
  BY <1>0 DEF Queue, Goto
<1>2. FreshInv'
  BY <1>1 DEF PushInv, FreshInv
<1>3. TimerInv'
  <2> SUFFICES ASSUME devTimer # None PROVE timer[devTimer] = "set" \/ pc'[devTimer] = "flush"
    BY <1>1 DEF TimerInv, timerVars
  <2>1. devTimer \in Push
    BY DEF TypeOK, Push
  <2> QED
    BY <1>1, <2>1 DEF PushInv, TimerInv
<1>4. PanelIsCurrent'
  <2> SUFFICES ASSUME ~fresh[q], ~shown, ~excused PROVE Owed'
    BY <1>0, <1>1 DEF PanelIsCurrent
  <2>1. Owed
    BY DEF PushInv, PanelIsCurrent
  <2>2. CASE \E p \in Peer : Aged(p) # roster[p]
    <3>1. \A p \in Peer : (Aged(p))' = Aged(p)
      BY <1>1 DEF Aged, Stale
    <3> QED
      BY <1>1, <2>2, <3>1 DEF Owed
  <2>3. CASE ~\E p \in Peer : Aged(p) # roster[p]
    BY <1>1, <2>1, <2>3 DEF Owed, timerVars
  <2> QED
    BY <2>2, <2>3
<1> QED
  BY <1>2, <1>3, <1>4 DEF PushInv

LEMMA PushesStep ==
  ASSUME IInv, TypeOK', [Next]_vars
  PROVE  PushInv'
<1>0. TypeOK /\ PushInv
  BY DEF IInv
<1>1. ASSUME NEW p \in Peer, NEW offered \in SUBSET Address, Observe(p, offered) PROVE PushInv'
  BY <1>0, <1>1, PushSame DEF Observe
<1>2. ASSUME NEW p \in Peer, Expire(p) PROVE PushInv'
  BY <1>0, <1>2, PushSame DEF Expire
<1>3. CASE UNCHANGED vars
  BY <1>0, <1>3, PushSame DEF vars
<1> QED
  BY <1>0, <1>1, <1>2, <1>3, TrustPushes, ForgetFailsPushes, ConsumePushes, SweepPushes, TickPushes, SchedulePushes,
     TimerPushes, BroadcastPushes, RefreshPushes, DevicesPushes, QueuePushes DEF Next

LEMMA IInvInit == Init => IInv
<1> SUFFICES ASSUME Init PROVE IInv
  OBVIOUS
<1>1. events = <<>> /\ \A p \in Peer : known[p] = None /\ roster[p] = None
  BY DEF Init
<1>2. \A p \in Peer : OfPeer(p) = {}
  BY <1>1 DEF OfPeer
<1>3. \A p \in Peer : PeerInv(p)
  BY <1>1, <1>2 DEF PeerInv, Pending, Settled, OfflineIsStale, FirstIsWorth, NextIsWorth
<1>4. PushInv
  BY DEF Init, PushInv, FreshInv, TimerInv, PanelIsCurrent
<1> QED
  BY <1>3, <1>4, TypeInit DEF IInv

LEMMA IInvAlways == Spec => []IInv
<1>1. IInv /\ [Next]_vars => IInv'
  <2> SUFFICES ASSUME IInv, [Next]_vars PROVE IInv'
    OBVIOUS
  <2>1. TypeOK'
    BY TypeStep DEF IInv
  <2>2. PushInv'
    BY <2>1, PushesStep
  <2>3. \A p \in Peer : (PeerInv(p))'
    BY PeersStep DEF IInv
  <2> QED
    BY <2>1, <2>2, <2>3 DEF IInv
<1> QED
  BY <1>1, IInvInit, PTL DEF Spec

(* The debounce, its resets, its cancelling by another push and a flush    *)
(* that forgets a later timer never lose a change (devices.go): for any    *)
(* number of peers, timers and callers, once nothing is on its way the     *)
(* panel has what Devices() returns, LastSeen included, unless a list read *)
(* earlier came after it or a Forget has failed.                           *)
THEOREM NoChangeIsLost == Spec => []PanelIsCurrent
<1>1. IInv => PanelIsCurrent
  BY DEF IInv, PushInv
<1> QED
  BY <1>1, IInvAlways, PTL

LEMMA NothingPending == events = <<>> => \A p \in Peer : OfPeer(p) = {}
  BY DEF OfPeer

(* A device is offline or missing only when it was not heard for all but   *)
(* the last Refresh of the TTL, and online only when it was heard within   *)
(* it, whatever the emission throttle of observe and the sweepers of the   *)
(* browser and of the roster do.                                           *)
THEOREM StatusEarned == Spec => []StatusIsEarned
<1>1. IInv => StatusIsEarned
  <2> SUFFICES ASSUME IInv, events = <<>>, NEW p \in Peer
               PROVE  LET online == roster[p] # None /\ roster[p].online /\ ~Stale(roster[p])
                      IN IF online THEN HeardWithin(p, TTL) ELSE ~HeardWithin(p, TTL - Refresh)
    BY DEF StatusIsEarned
  <2>1. OfPeer(p) = {} /\ Settled(p) /\ OfflineIsStale(p)
    BY NothingPending DEF IInv, PeerInv
  <2>2. known[p] # None => known[p].seen \in Nat
    BY RosterAssumption DEF IInv, TypeOK, Kept
  <2>3. CASE roster[p] = None
    BY <2>1, <2>2, <2>3, RosterAssumption DEF Settled, HeardWithin
  <2>4. CASE roster[p] # None
    <3>1. roster[p].lastSeen \in Nat
      BY <2>4, RosterAssumption DEF IInv, TypeOK, Dev
    <3>2. known[p] # None /\ Mirror(p)
      BY <2>1, <2>4 DEF Settled
    <3> QED
      BY <2>1, <2>2, <2>4, <3>1, <3>2, RosterAssumption DEF Mirror, OfflineIsStale, Stale, HeardWithin
  <2> QED
    BY <2>3, <2>4
<1> QED
  BY <1>1, IInvAlways, PTL

(* A device the browser has heard within the TTL is in the roster, at the  *)
(* address the browser picked last: no re-sighting that moves a device is  *)
(* throttled away, and no sweep drops one that still answers.              *)
THEOREM RosterMirrors == Spec => []RosterMirrorsBrowser
<1>1. IInv => RosterMirrorsBrowser
  <2> SUFFICES ASSUME IInv, events = <<>>, NEW p \in Peer, HeardWithin(p, TTL)
               PROVE  roster[p] # None /\ roster[p].addr = known[p].addr
    BY DEF RosterMirrorsBrowser
  <2>1. OfPeer(p) = {} /\ Settled(p)
    BY NothingPending DEF IInv, PeerInv
  <2>2. known[p] # None /\ known[p].seen \in Nat
    BY RosterAssumption DEF IInv, TypeOK, Kept, HeardWithin
  <2> QED
    BY <2>1, <2>2, RosterAssumption DEF Settled, Mirror, HeardWithin
<1> QED
  BY <1>1, IInvAlways, PTL
=============================================================================
