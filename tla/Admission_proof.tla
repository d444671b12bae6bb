--------------------------- MODULE Admission_proof ---------------------------
(***************************************************************************)
(* Proofs about Admission, for any number of sockets and source addresses, *)
(* any cap, budget and window.                                             *)
(***************************************************************************)
EXTENDS Admission, FiniteSetTheorems, TLAPS

-----------------------------------------------------------------------------
(* Types.                                                                  *)

LEMMA TypeInit == Init => TypeOK
  BY NumberAssumption DEF Init, TypeOK, Phase

LEMMA TypeStep == TypeOK /\ [Next]_vars => TypeOK'
<1> USE NumberAssumption, SocketAssumption DEF TypeOK, Phase
<1> SUFFICES ASSUME TypeOK, [Next]_vars PROVE TypeOK'
  OBVIOUS
<1>1. ASSUME NEW s \in Socket, HandlePeer(s) PROVE TypeOK'
  BY <1>1 DEF HandlePeer, AcquireHandshake, Goto, limiterVars
<1>2. ASSUME NEW s \in Socket, ReadHello(s) PROVE TypeOK'
  BY <1>2 DEF ReadHello, Goto, limiterVars
<1>3. ASSUME NEW s \in Socket, Upgrade(s) PROVE TypeOK'
  BY <1>3 DEF Upgrade, Release, Goto, limiterVars
<1>4. ASSUME NEW s \in Socket, NoHello(s) PROVE TypeOK'
  BY <1>4 DEF NoHello, Goto, limiterVars
<1>5. ASSUME NEW s \in Socket, AcceptAuthenticated(s) PROVE TypeOK'
  BY <1>5 DEF AcceptAuthenticated, Release, Goto, limiterVars
<1>6. ASSUME NEW s \in Socket, Allow(s) PROVE TypeOK'
  <2>1. From[s] \in Source /\ \A k \in Source : Prune(k) \in SUBSET Socket
    BY DEF Prune, Fresh
  <2>2. CASE Allowed(s)
    <3>1. keys' \subseteq Source /\ hits' \in [Source -> SUBSET Socket]
      BY <1>6, <2>1, <2>2 DEF Allow, Record
    <3> QED
      BY <1>6, <2>2, <3>1 DEF Allow, Goto
  <2>3. CASE ~Allowed(s)
    BY <1>6, <2>1, <2>3 DEF Allow, Deny, Goto
  <2> QED
    BY <2>2, <2>3
<1>7. ASSUME NEW s \in Socket, BeginPairing(s) PROVE TypeOK'
  BY <1>7 DEF BeginPairing, Release, Goto, limiterVars
<1>8. ASSUME NEW s \in Socket, Leave(s) PROVE TypeOK'
  BY <1>8 DEF Leave, Release, Goto, limiterVars
<1>9. ASSUME NEW s \in Socket, FramesEnd(s) PROVE TypeOK'
  BY <1>9 DEF FramesEnd, Goto, limiterVars
<1>10. CASE Tick
  BY <1>10 DEF Tick, limiterVars
<1>11. CASE UNCHANGED vars
  BY <1>11 DEF vars
<1> QED
  BY <1>1, <1>2, <1>3, <1>4, <1>5, <1>6, <1>7, <1>8, <1>9, <1>10, <1>11 DEF Next, Serve

(* Every variable keeps its type; the counter of handshakes never exceeds  *)
(* its cap (acquireHandshake, peer.go:452).                                *)
THEOREM TypeCorrect == Spec => []TypeOK
  BY TypeInit, TypeStep, PTL DEF Spec

-----------------------------------------------------------------------------
(* The slots.                                                              *)

HoldSet == {s \in Socket : Holding(s)}

(* What SlotsMatch needs: a socket gives its slot back before its frames   *)
(* begin, and not before it has one.                                       *)
SlotInv ==
  /\ SlotsMatch
  /\ \A s \in Socket : phase[s] = "frames" => s \in freed
  /\ \A s \in Socket : s \in freed => phase[s] \in {"frames", "leaving", "gone"}

LEMMA HoldFinite == IsFiniteSet(HoldSet) /\ Cardinality(HoldSet) \in Nat
  BY SocketAssumption, FS_Subset, FS_CardinalityType DEF HoldSet

(* A socket takes a slot.                                                  *)
LEMMA OneMore ==
  ASSUME NEW s, s \notin HoldSet, HoldSet' = HoldSet \cup {s},
         SlotsMatch, slots' = slots + 1
  PROVE  SlotsMatch'
<1>1. Cardinality(HoldSet \cup {s}) = Cardinality(HoldSet) + 1
  BY HoldFinite, FS_AddElement
<1>2. slots = Cardinality(HoldSet) /\ (SlotsMatch' <=> slots' = Cardinality(HoldSet'))
  BY DEF SlotsMatch, HoldSet
<1> QED
  BY <1>1, <1>2

(* A socket gives its slot back.                                           *)
LEMMA OneLess ==
  ASSUME NEW s \in HoldSet, HoldSet' = HoldSet \ {s}, SlotsMatch, s \notin freed,
         slots' = IF s \notin freed /\ slots > 0 THEN slots - 1 ELSE slots
  PROVE  SlotsMatch'
<1>1. Cardinality(HoldSet \ {s}) = Cardinality(HoldSet) - 1
  BY HoldFinite, FS_RemoveElement
<1>2. slots = Cardinality(HoldSet) /\ (SlotsMatch' <=> slots' = Cardinality(HoldSet'))
  BY DEF SlotsMatch, HoldSet
<1>3. Cardinality(HoldSet) \in Nat /\ Cardinality(HoldSet) # 0
  BY HoldFinite, FS_EmptySet
<1> QED
  BY <1>1, <1>2, <1>3

LEMMA SameSlots ==
  ASSUME HoldSet' = HoldSet, SlotsMatch, slots' = slots
  PROVE  SlotsMatch'
  BY DEF SlotsMatch, HoldSet

LEMMA SlotInit == Init => SlotInv
<1> SUFFICES ASSUME Init PROVE SlotInv
  OBVIOUS
<1>1. HoldSet = {}
  BY DEF Init, HoldSet, Holding
<1>2. Cardinality(HoldSet) = 0
  BY <1>1, FS_EmptySet
<1> QED
  BY <1>2 DEF Init, SlotInv, SlotsMatch, HoldSet

LEMMA SlotStep == TypeOK /\ SlotInv /\ [Next]_vars => SlotInv'
<1> SUFFICES ASSUME TypeOK, SlotInv, [Next]_vars PROVE SlotInv'
  OBVIOUS
<1> USE DEF TypeOK, SlotInv
<1>1. ASSUME NEW s \in Socket, HandlePeer(s) PROVE SlotInv'
  <2>1. s \notin HoldSet /\ s \notin freed
    BY <1>1 DEF HandlePeer, HoldSet, Holding
  <2>2. CASE phase' = [phase EXCEPT ![s] = "upgrade"]
    <3>1. HoldSet' = HoldSet \cup {s} /\ slots' = slots + 1
      BY <1>1, <2>2, <2>1 DEF HandlePeer, AcquireHandshake, Goto, HoldSet, Holding, limiterVars
    <3> QED
      BY <1>1, <2>1, <2>2, <3>1, OneMore DEF HandlePeer
  <2>3. CASE phase' = [phase EXCEPT ![s] = "gone"] /\ slots' = slots
    <3>1. HoldSet' = HoldSet
      BY <1>1, <2>1, <2>3 DEF HandlePeer, HoldSet, Holding
    <3> QED
      BY <1>1, <2>1, <2>3, <3>1, SameSlots DEF HandlePeer
  <2> QED
    BY <1>1, <2>2, <2>3 DEF HandlePeer, AcquireHandshake, Goto
<1>2. ASSUME NEW s \in Socket, NEW p \in Phase, phase[s] \in {"hello", "stranger", "begin", "verified"},
             phase' = [phase EXCEPT ![s] = p], UNCHANGED <<slots, freed>>,
             p \in {"verified", "stranger", "begin", "leaving"}
      PROVE  SlotInv'
  <2>1. HoldSet' = HoldSet
    BY <1>2 DEF HoldSet, Holding
  <2> QED
    BY <1>2, <2>1, SameSlots
<1>3. ASSUME NEW s \in Socket, NEW p \in {"frames", "gone"}, Release(s), Goto(s, p),
             phase[s] \in {"upgrade", "verified", "begin", "leaving"}, s \notin freed
      PROVE  SlotInv'
  <2>1. s \in HoldSet /\ HoldSet' = HoldSet \ {s}
    BY <1>3 DEF HoldSet, Holding, Goto, Release
  <2> QED
    BY <1>3, <2>1, OneLess DEF Release, Goto
<1>4. ASSUME NEW s \in Socket, Upgrade(s) PROVE SlotInv'
  <2>1. s \notin freed
    BY <1>4 DEF Upgrade
  <2>2. CASE Goto(s, "hello") /\ UNCHANGED <<slots, freed>>
    <3>1. HoldSet' = HoldSet
      BY <1>4, <2>1, <2>2 DEF Upgrade, Goto, HoldSet, Holding
    <3> QED
      BY <1>4, <2>1, <2>2, <3>1, SameSlots DEF Goto, Upgrade
  <2> QED
    BY <1>3, <1>4, <2>1, <2>2 DEF Upgrade
<1>5. ASSUME NEW s \in Socket, ReadHello(s) PROVE SlotInv'
  BY <1>2, <1>5 DEF ReadHello, Goto, Phase
<1>6. ASSUME NEW s \in Socket, NoHello(s) PROVE SlotInv'
  BY <1>2, <1>6 DEF NoHello, Goto, Phase
<1>7. ASSUME NEW s \in Socket, AcceptAuthenticated(s) PROVE SlotInv'
  <2>1. s \notin freed
    BY <1>7 DEF AcceptAuthenticated
  <2>2. CASE Goto(s, "leaving") /\ UNCHANGED <<slots, freed>>
    BY <1>2, <1>7, <2>2 DEF AcceptAuthenticated, Goto, Phase
  <2> QED
    BY <1>3, <1>7, <2>1, <2>2 DEF AcceptAuthenticated
<1>8. ASSUME NEW s \in Socket, Allow(s) PROVE SlotInv'
  BY <1>2, <1>8 DEF Allow, Goto, Phase
<1>9. ASSUME NEW s \in Socket, BeginPairing(s) PROVE SlotInv'
  <2>1. s \notin freed
    BY <1>9 DEF BeginPairing
  <2>2. CASE Goto(s, "leaving") /\ UNCHANGED <<slots, freed>>
    BY <1>2, <1>9, <2>2 DEF BeginPairing, Goto, Phase
  <2> QED
    BY <1>3, <1>9, <2>1, <2>2 DEF BeginPairing
<1>10. ASSUME NEW s \in Socket, Leave(s) PROVE SlotInv'
  <2>1. CASE s \notin freed
    BY <1>3, <1>10, <2>1 DEF Leave
  <2>2. CASE s \in freed
    <3>1. HoldSet' = HoldSet /\ slots' = slots /\ freed' = freed
      BY <1>10, <2>2 DEF Leave, Release, Goto, HoldSet, Holding
    <3> QED
      BY <1>10, <3>1, SameSlots DEF Leave, Goto
  <2> QED
    BY <2>1, <2>2
<1>11. ASSUME NEW s \in Socket, FramesEnd(s) PROVE SlotInv'
  <2>1. s \in freed
    BY <1>11 DEF FramesEnd
  <2>2. HoldSet' = HoldSet
    BY <1>11, <2>1 DEF FramesEnd, Goto, HoldSet, Holding
  <2> QED
    BY <1>11, <2>1, <2>2, SameSlots DEF FramesEnd, Goto
<1>12. CASE UNCHANGED <<phase, slots, freed>>
  <2>1. HoldSet' = HoldSet
    BY <1>12 DEF HoldSet, Holding
  <2> QED
    BY <1>12, <2>1, SameSlots
<1> QED
  BY <1>1, <1>4, <1>5, <1>6, <1>7, <1>8, <1>9, <1>10, <1>11, <1>12 DEF Next, Serve, Tick, vars

(* The handshake counter is the number of sockets that have a slot: on     *)
(* every path through handlePeer and serveInbound a slot is given back,    *)
(* and once (peer.go:453, listener.go:62).                                 *)
THEOREM SlotsAreMatched == Spec => []SlotsMatch
<1>1. Spec => []SlotInv
  BY TypeCorrect, SlotInit, SlotStep, PTL DEF Spec
<1>2. SlotInv => SlotsMatch
  BY DEF SlotInv
<1> QED
  BY <1>1, <1>2, PTL

-----------------------------------------------------------------------------
(* The limiter.                                                            *)

(* What the budget and the denials rest on: a granted attempt is in the    *)
(* past, and its socket past the limiter; no attempt inside the window is  *)
(* missing from its list; and a list has nothing but granted attempts.     *)
LimiterInv ==
  /\ \A s \in granted : at[s] <= now
  /\ \A s \in granted : phase[s] \notin {"new", "upgrade", "hello", "verified", "stranger"}
  /\ \A k \in Source : InWindow(k, now) \subseteq hits[k]
  /\ \A k \in Source : hits[k] \subseteq {s \in granted : From[s] = k}
  /\ WindowLimit

LEMMA LimiterInit == Init => LimiterInv
<1> SUFFICES ASSUME Init PROVE LimiterInv
  OBVIOUS
<1>1. \A k \in Source, t \in 0..now : InWindow(k, t) = {}
  BY DEF Init, InWindow
<1>2. WindowLimit
  BY <1>1, FS_EmptySet, NumberAssumption DEF WindowLimit
<1> QED
  BY <1>1, <1>2 DEF Init, LimiterInv, InWindow

(* Whatever an attempt is asked about, its list after pruning is what its  *)
(* source was granted inside the window.                                   *)
LEMMA PruneIsWindow ==
  ASSUME TypeOK, LimiterInv, NEW k \in Source
  PROVE  Prune(k) = InWindow(k, now) /\ IsFiniteSet(Prune(k))
<1>1. Prune(k) \subseteq Socket
  BY DEF Prune, Fresh
<1>2. IsFiniteSet(Prune(k))
  BY <1>1, SocketAssumption, FS_Subset
<1>3. InWindow(k, now) \subseteq Prune(k)
  BY DEF LimiterInv, TypeOK, InWindow, Prune, Fresh
<1>4. Prune(k) \subseteq InWindow(k, now)
  BY DEF LimiterInv, TypeOK, InWindow, Prune, Fresh
<1> QED
  BY <1>2, <1>3, <1>4

(* The lists after an attempt hold what is granted and inside the window.  *)
LEMMA ListsKept ==
  ASSUME TypeOK, LimiterInv, NEW s \in Socket, Allow(s), NEW k \in Source
  PROVE  /\ InWindow(k, now) \subseteq hits'[k]
         /\ hits'[k] \subseteq hits[k] \cup (IF k = From[s] THEN {s} ELSE {})
         /\ Allowed(s) /\ k = From[s] => s \in hits'[k]
<1>1. Prune(k) = InWindow(k, now) /\ Prune(k) \subseteq hits[k] /\ InWindow(k, now) \subseteq hits[k]
  BY PruneIsWindow DEF Prune, LimiterInv
<1>2. From[s] \in Source
  BY SocketAssumption
<1>3. CASE Allowed(s)
  BY <1>1, <1>2, <1>3 DEF Allow, Record
<1>4. CASE ~Allowed(s)
  BY <1>1, <1>2, <1>4 DEF Allow, Deny, TypeOK
<1> QED
  BY <1>3, <1>4

LEMMA GrantStep ==
  ASSUME TypeOK, LimiterInv, NEW s \in Socket, Allow(s), Allowed(s)
  PROVE  LimiterInv'
<1> USE SocketAssumption, NumberAssumption
<1> DEFINE k0      == From[s]
           W(k, t) == {x \in granted' : From[x] = k /\ at'[x] + Window > t /\ at'[x] <= t}
<1>1. /\ at' = [at EXCEPT ![s] = now] /\ granted' = granted \cup {s} /\ now' = now
      /\ phase' = [phase EXCEPT ![s] = "begin"] /\ phase[s] = "stranger"
  BY DEF Allow, Goto
<1>2. s \notin granted /\ k0 \in Source /\ now \in Nat /\ at \in [Socket -> Nat]
  BY <1>1 DEF LimiterInv, TypeOK
<1>3. granted \subseteq Socket
  BY DEF TypeOK
<1>4. at'[s] = now /\ \A x \in granted : at'[x] = at[x]
  BY <1>1, <1>2, <1>3
<1>5. ASSUME NEW k \in Source, NEW t \in 0..now, t # now \/ k # k0
      PROVE  W(k, t) = InWindow(k, t)
  <2>1. ~(From[s] = k /\ at'[s] + Window > t /\ at'[s] <= t)
    BY <1>2, <1>4, <1>5
  <2> QED
    BY <1>1, <1>4, <2>1 DEF InWindow
<1>6. W(k0, now) = InWindow(k0, now) \cup {s}
  <2>1. From[s] = k0 /\ at'[s] + Window > now /\ at'[s] <= now
    BY <1>2, <1>4
  <2> QED
    BY <1>1, <1>4, <2>1 DEF InWindow
<1>7. \A k \in Source, t \in 0..now : Cardinality(W(k, t)) <= Limit
  <2>1. Cardinality(W(k0, now)) <= Limit
    <3>1. Prune(k0) = InWindow(k0, now) /\ IsFiniteSet(Prune(k0))
      BY <1>2, PruneIsWindow
    <3>2. Cardinality(Prune(k0)) \in Nat /\ Cardinality(Prune(k0)) < Limit
      BY <3>1, FS_CardinalityType DEF Allowed
    <3>3. Cardinality(Prune(k0) \cup {s})
            = IF s \in Prune(k0) THEN Cardinality(Prune(k0)) ELSE Cardinality(Prune(k0)) + 1
      BY <3>1, FS_AddElement
    <3>4. W(k0, now) = Prune(k0) \cup {s}
      BY <1>6, <3>1
    <3> HIDE DEF k0, W
    <3> QED
      BY <3>2, <3>3, <3>4
  <2> TAKE k \in Source, t \in 0..now
  <2>2. CASE t = now /\ k = k0
    BY <2>1, <2>2
  <2>3. CASE t # now \/ k # k0
    BY <1>5, <2>3 DEF LimiterInv, WindowLimit
  <2> QED
    BY <2>2, <2>3
<1>8. WindowLimit'
  BY <1>1, <1>7 DEF WindowLimit, InWindow
<1>9. \A k \in Source : W(k, now) \subseteq hits'[k]
  <2> TAKE k \in Source
  <2>1. InWindow(k, now) \subseteq hits'[k] /\ (k = k0 => s \in hits'[k])
    BY ListsKept
  <2>2. W(k, now) \subseteq InWindow(k, now) \cup (IF k = k0 THEN {s} ELSE {})
    BY <1>2, <1>5, <1>6
  <2> QED
    BY <2>1, <2>2
<1>10. \A k \in Source : InWindow(k, now)' \subseteq hits'[k]
  BY <1>1, <1>9 DEF InWindow
<1>11. \A k \in Source : hits'[k] \subseteq {x \in granted' : From[x] = k}
  BY <1>1, <1>2, ListsKept DEF LimiterInv
<1>12. \A x \in granted' : at'[x] <= now'
  BY <1>1, <1>2, <1>4 DEF LimiterInv
<1>13. \A x \in granted' : phase'[x] \notin {"new", "upgrade", "hello", "verified", "stranger"}
  BY <1>1, <1>3 DEF LimiterInv, TypeOK
<1> QED
  BY <1>8, <1>10, <1>11, <1>12, <1>13 DEF LimiterInv

LEMMA DenyStep ==
  ASSUME TypeOK, LimiterInv, NEW s \in Socket, Allow(s), ~Allowed(s)
  PROVE  LimiterInv'
<1>1. UNCHANGED <<now, at, granted>> /\ phase' = [phase EXCEPT ![s] = "leaving"]
  BY DEF Allow, Deny, Goto
<1>2. \A k, t : InWindow(k, t)' = InWindow(k, t)
  BY <1>1 DEF InWindow
<1>3. WindowLimit'
  BY <1>1, <1>2 DEF LimiterInv, WindowLimit, InWindow
<1>4. hits'[From[s]] = Prune(From[s]) /\ \A k \in Source : k # From[s] => hits'[k] = hits[k]
  BY SocketAssumption DEF Allow, Deny, TypeOK
<1>5. \A k \in Source : InWindow(k, now)' \subseteq hits'[k]
  BY <1>1, <1>2, ListsKept
<1>6. \A k \in Source : hits'[k] \subseteq {x \in granted' : From[x] = k}
  BY <1>1, <1>4 DEF LimiterInv, Prune
<1>7. \A x \in granted' : phase'[x] \notin {"new", "upgrade", "hello", "verified", "stranger"}
  BY <1>1 DEF LimiterInv, TypeOK
<1> QED
  BY <1>1, <1>3, <1>5, <1>6, <1>7 DEF LimiterInv

LEMMA TickStep ==
  ASSUME TypeOK, LimiterInv, Tick
  PROVE  LimiterInv'
<1> USE NumberAssumption
<1>1. now' = now + 1 /\ UNCHANGED <<phase, hits, at, granted>>
  BY DEF Tick, limiterVars
<1>2. now \in Nat /\ at \in [Socket -> Nat] /\ granted \subseteq Socket
  BY DEF TypeOK
<1>3. \A k \in Source : InWindow(k, now + 1) \subseteq InWindow(k, now)
  BY <1>2 DEF InWindow, LimiterInv
<1>4. \A k, t : InWindow(k, t)' = {s \in granted : From[s] = k /\ at[s] + Window > t' /\ at[s] <= t'}
  BY <1>1 DEF InWindow
<1>5. \A k \in Source : InWindow(k, now)' \subseteq hits'[k]
  BY <1>1, <1>2, <1>3 DEF InWindow, LimiterInv
<1>6. \A k \in Source : Cardinality(InWindow(k, now + 1)) <= Limit
  <2> TAKE k \in Source
  <2>1. InWindow(k, now) \subseteq Socket
    BY <1>2 DEF InWindow
  <2>2. IsFiniteSet(InWindow(k, now))
    BY <2>1, SocketAssumption, FS_Subset
  <2>3. Cardinality(InWindow(k, now + 1)) <= Cardinality(InWindow(k, now))
    BY <1>3, <2>2, FS_Subset
  <2>4. Cardinality(InWindow(k, now)) <= Limit
    BY <1>2 DEF LimiterInv, WindowLimit
  <2>5. IsFiniteSet(InWindow(k, now + 1))
    BY <1>3, <2>2, FS_Subset
  <2>6. Cardinality(InWindow(k, now)) \in Nat /\ Cardinality(InWindow(k, now + 1)) \in Nat
    BY <2>2, <2>5, FS_CardinalityType
  <2> QED
    BY <2>3, <2>4, <2>6
<1>7. \A k \in Source, t \in 0..(now + 1) : Cardinality(InWindow(k, t)) <= Limit
  BY <1>2, <1>6 DEF LimiterInv, WindowLimit
<1>8. WindowLimit'
  BY <1>1, <1>7 DEF WindowLimit, InWindow
<1>9. \A x \in granted' : at'[x] <= now'
  BY <1>1, <1>2 DEF LimiterInv
<1> QED
  BY <1>1, <1>5, <1>8, <1>9 DEF LimiterInv

(* A step that has nothing to do with the limiter.                         *)
LEMMA OtherStep ==
  ASSUME TypeOK, LimiterInv, UNCHANGED <<now, hits, at, granted>>,
         \A x \in granted : phase'[x] = phase[x] \/ phase'[x] \in {"begin", "frames", "leaving", "gone"}
  PROVE  LimiterInv'
<1>1. \A k, t : InWindow(k, t)' = {s \in granted : From[s] = k /\ at[s] + Window > t' /\ at[s] <= t'}
  BY DEF InWindow
<1>2. \A k \in Source : InWindow(k, now)' = InWindow(k, now)
  BY DEF InWindow
<1>3. WindowLimit'
  BY DEF LimiterInv, WindowLimit, InWindow
<1> QED
  BY <1>2, <1>3 DEF LimiterInv

LEMMA LimiterStep == TypeOK /\ LimiterInv /\ [Next]_vars => LimiterInv'
<1> SUFFICES ASSUME TypeOK, LimiterInv, [Next]_vars PROVE LimiterInv'
  OBVIOUS
<1> USE DEF limiterVars, Goto
<1>1. ASSUME NEW s \in Socket, HandlePeer(s) PROVE LimiterInv'
  <2>1. s \notin granted
    BY <1>1 DEF HandlePeer, LimiterInv
  <2> QED
    BY <1>1, <2>1, OtherStep DEF HandlePeer, AcquireHandshake, TypeOK
<1>2. ASSUME NEW s \in Socket, Upgrade(s) PROVE LimiterInv'
  <2>1. s \notin granted
    BY <1>2 DEF Upgrade, LimiterInv
  <2> QED
    BY <1>2, <2>1, OtherStep DEF Upgrade, TypeOK
<1>3. ASSUME NEW s \in Socket, ReadHello(s) \/ NoHello(s) PROVE LimiterInv'
  <2>1. s \notin granted
    BY <1>3 DEF ReadHello, NoHello, LimiterInv
  <2> QED
    BY <1>3, <2>1, OtherStep DEF ReadHello, NoHello, TypeOK
<1>4. ASSUME NEW s \in Socket, AcceptAuthenticated(s) \/ BeginPairing(s) \/ Leave(s) \/ FramesEnd(s)
      PROVE  LimiterInv'
  BY <1>4, OtherStep DEF AcceptAuthenticated, BeginPairing, Leave, FramesEnd, TypeOK
<1>5. ASSUME NEW s \in Socket, Allow(s) PROVE LimiterInv'
  BY <1>5, GrantStep, DenyStep
<1>6. CASE Tick
  BY <1>6, TickStep
<1>7. CASE UNCHANGED vars
  BY <1>7, OtherStep DEF vars
<1> QED
  BY <1>1, <1>2, <1>3, <1>4, <1>5, <1>6, <1>7 DEF Next, Serve

LEMMA LimiterCorrect == Spec => [](TypeOK /\ LimiterInv)
  BY TypeCorrect, LimiterInit, LimiterStep, PTL DEF Spec

(* The budget: no source address was granted more than Limit attempts in   *)
(* any window, for every limit, window and sweep threshold (allow,         *)
(* sweepLocked and prune, ratelimit.go).                                   *)
THEOREM BudgetHolds == Spec => []WindowLimit
<1>1. LimiterInv => WindowLimit
  BY DEF LimiterInv
<1> QED
  BY <1>1, LimiterCorrect, PTL

(* A denial is earned: the limiter turns a source away only behind Limit   *)
(* granted attempts in the window; what it denied before never counts      *)
(* (allow, ratelimit.go:55).                                               *)
THEOREM DenialsAreEarned == Spec => DenialIsEarned
<1>1. ASSUME TypeOK, LimiterInv, [Next]_vars
      PROVE  [\A s \in Socket : phase[s] = "stranger" /\ phase'[s] = "leaving"
                => Cardinality(InWindow(From[s], now)) >= Limit]_vars
  <2> SUFFICES ASSUME NEW s \in Socket, phase[s] = "stranger", phase'[s] = "leaving", Next
               PROVE  Cardinality(InWindow(From[s], now)) >= Limit
    BY <1>1 DEF vars
  <2>1. Allow(s)
    BY <1>1 DEF TypeOK, Next, Serve, HandlePeer, AcquireHandshake, ReadHello, Upgrade, NoHello,
            AcceptAuthenticated, BeginPairing, Leave, FramesEnd, Tick, Goto, limiterVars, Allow
  <2>2. ~Allowed(s)
    BY <1>1, <2>1 DEF Allow, Goto, TypeOK
  <2>3. Prune(From[s]) = InWindow(From[s], now) /\ Cardinality(Prune(From[s])) \in Nat
    BY <1>1, SocketAssumption, PruneIsWindow, FS_CardinalityType
  <2> QED
    BY <2>2, <2>3, NumberAssumption DEF Allowed
<1> QED
  BY <1>1, LimiterCorrect, PTL DEF Spec, DenialIsEarned

=============================================================================
