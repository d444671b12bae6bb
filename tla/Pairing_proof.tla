---------------------------- MODULE Pairing_proof ----------------------------
(***************************************************************************)
(* What Pairing.tla guarantees for any number of connections, Forgets and  *)
(* failures.  The first inductive invariant, IInv, follows an accept from  *)
(* the driver that sent it: a frame on a wire, and an event in a queue,    *)
(* may only say what is already true of the end that sent it.  The second, *)
(* TokenInv, is about the attempts of the two ends against each other:     *)
(* which of them may still be decided while the other end is at another.   *)
(***************************************************************************)
EXTENDS Pairing, SequenceTheorems, TLAPS

\* The driver is inside completePairing and its token is stored.
Completing == {"storing", "registered", "announced"}

(* Which stages these are is a fact any step may need. *)
USE DEF Running, Completing

(* What has to be true before the frame f may be on its way to d. *)
True(d, c, f) ==
  /\ f = "accept" => local[Peer(d)][c]
  /\ f = "paired" => local[d][c] /\ local[Peer(d)][c] /\ promoted[Peer(d)][c]

(* The frames, and the events, that may wait at each end of a connection. *)
Sayable  == [d \in Side |-> [c \in Conn |-> {f \in Frame : True(d, c, f)}]]
Hearable == [d \in Side |-> [c \in Conn |-> {e \in Event : True(d, c, e)}]]

(* The wires, and the queues, whose every element is one of S there. *)
Channels(S, E) == {w \in [Side -> [Conn -> Seq(E)]] :
                     \A d \in Side, c \in Conn : w[d][c] \in Seq(S[d][c])}

(* The driver of an attempt that is under way is the registered one. *)
DriverOK(d, c) ==
  stage[d][c] \in Running => pending[d] = c

StageOK(d, c) ==
  /\ dialer[c] = None => stage[d][c] = "none"
  /\ stage[d][c] \notin {"reported", "ended"} => result[d][c] = "none"
  /\ stage[d][c] = "reported" => result[d][c] # "none"
  /\ result[d][c] # "twice"
  /\ stage[d][c] \in {"registered", "announced"} => promoted[d][c]

TrailOK(d, c) ==
  /\ remote[d][c] => local[Peer(d)][c]
  /\ trust[d] = c \/ stage[d][c] \in Completing \/ result[d][c] = "paired" =>
       local[d][c] /\ local[Peer(d)][c]
  /\ trust[d] = c \/ stage[d][c] = "storing" =>
       dialer[c] # None /\ (dialer[c] = d => promoted[Peer(d)][c])

AttemptInv ==
  \A d \in Side, c \in Conn : DriverOK(d, c) /\ StageOK(d, c) /\ TrailOK(d, c)

ChannelInv == wire \in Channels(Sayable, Frame) /\ events \in Channels(Hearable, Event)

IInv == TypeOK /\ ChannelInv /\ AttemptInv

-----------------------------------------------------------------------------
LEMMA PeerFacts ==
  ASSUME NEW d \in Side
  PROVE  Peer(d) \in Side /\ Peer(Peer(d)) = d /\ Peer(d) # d /\ d # None
         /\ \A e \in Side : e = d \/ e = Peer(d)
BY ConstantsApart DEF Side, Peer

LEMMA Singleton ==
  ASSUME NEW X, NEW x \in X
  PROVE  <<x>> \in Seq(X)
<1>1. <<x>> \in [1..1 -> X]
  OBVIOUS
<1> QED BY <1>1, SeqDef

(* Channels under the three things the code does to one of them. *)
LEMMA SetChannel ==
  ASSUME NEW S, NEW E, NEW w \in Channels(S, E), NEW d \in Side, NEW c \in Conn,
         NEW s \in Seq(S[d][c]), S[d][c] \subseteq E
  PROVE  [w EXCEPT ![d][c] = s] \in Channels(S, E)
<1>1. s \in Seq(E)
  BY SeqMonotonic
<1>2. [w EXCEPT ![d][c] = s] \in [Side -> [Conn -> Seq(E)]]
  BY <1>1 DEF Channels
<1>3. \A x \in Side, y \in Conn : [w EXCEPT ![d][c] = s][x][y] =
         IF x = d /\ y = c THEN s ELSE w[x][y]
  BY DEF Channels
<1> QED BY <1>2, <1>3 DEF Channels

LEMMA AppendChannel ==
  ASSUME NEW S, NEW E, NEW w \in Channels(S, E), NEW d \in Side, NEW c \in Conn,
         NEW s \in Seq(S[d][c]), S[d][c] \subseteq E
  PROVE  [w EXCEPT ![d][c] = @ \o s] \in Channels(S, E)
<1>1. w[d][c] \o s \in Seq(S[d][c])
  BY ConcatProperties DEF Channels
<1>2. [w EXCEPT ![d][c] = @ \o s] = [w EXCEPT ![d][c] = w[d][c] \o s]
  BY DEF Channels
<1> QED BY <1>1, <1>2, SetChannel

LEMMA TailChannel ==
  ASSUME NEW S, NEW E, NEW w \in Channels(S, E), NEW d \in Side, NEW c \in Conn,
         w[d][c] # <<>>, S[d][c] \subseteq E
  PROVE  /\ [w EXCEPT ![d][c] = Tail(@)] \in Channels(S, E)
         /\ Head(w[d][c]) \in S[d][c]
<1>1. Tail(w[d][c]) \in Seq(S[d][c]) /\ Head(w[d][c]) \in S[d][c]
  BY HeadTailProperties DEF Channels
<1>2. [w EXCEPT ![d][c] = Tail(@)] = [w EXCEPT ![d][c] = Tail(w[d][c])]
  BY DEF Channels
<1> QED BY <1>1, <1>2, SetChannel

LEMMA ChannelsGrow ==
  ASSUME NEW S, NEW T, NEW E, NEW w \in Channels(S, E),
         \A d \in Side, c \in Conn : S[d][c] \subseteq T[d][c]
  PROVE  w \in Channels(T, E)
<1>1. \A d \in Side, c \in Conn : w[d][c] \in Seq(T[d][c])
  <2> SUFFICES ASSUME NEW d \in Side, NEW c \in Conn PROVE w[d][c] \in Seq(T[d][c])
    OBVIOUS
  <2>1. w[d][c] \in Seq(S[d][c]) /\ S[d][c] \subseteq T[d][c]
    BY DEF Channels
  <2> QED BY <2>1, SeqMonotonic
<1> QED BY <1>1 DEF Channels

-----------------------------------------------------------------------------
(* Frames that say nothing of a decision may always be sent. *)
LEMMA Neutral ==
  ASSUME NEW d \in Side, NEW c \in Conn
  PROVE  /\ Sayable[d][c] = {f \in Frame : True(d, c, f)} /\ Sayable[d][c] \subseteq Frame
         /\ Hearable[d][c] = {f \in Event : True(d, c, f)} /\ Hearable[d][c] \subseteq Event
         /\ {"hello", "required", "reject", "signal", "eof"} \subseteq Sayable[d][c]
         /\ {"reject", "cancel"} \subseteq Hearable[d][c]
BY DEF Sayable, Hearable, Frame, Event, True

LEMMA DeliverKeeps ==
  ASSUME NEW S, NEW w \in Channels(S, Frame), NEW d \in Side, NEW c \in Conn,
         NEW s \in Seq(S[Peer(d)][c]), S[Peer(d)][c] \subseteq Frame
  PROVE  Deliver(w, d, c, s) \in Channels(S, Frame)
BY AppendChannel, PeerFacts DEF Deliver

LEMMA CloseKeeps ==
  ASSUME TypeOK, wire \in Channels(Sayable, Frame), NEW d \in Side, NEW c \in Conn,
         NEW s \in Seq(Sayable[Peer(d)][c]), Close(d, c, s)
  PROVE  /\ wire' \in Channels(Sayable, Frame)
         /\ sock' \in [Side -> [Conn -> {"none", "open", "closed"}]]
<1>1. Peer(d) \in Side
  BY PeerFacts
<1>2. s \o <<"eof">> \in Seq(Sayable[Peer(d)][c])
  <2>1. "eof" \in Sayable[Peer(d)][c]
    BY <1>1, Neutral
  <2>2. <<"eof">> \in Seq(Sayable[Peer(d)][c])
    BY <2>1, Singleton
  <2> QED BY <2>2, ConcatProperties
<1>3. Deliver(wire, d, c, s \o <<"eof">>) \in Channels(Sayable, Frame)
  BY <1>1, <1>2, Neutral, DeliverKeeps
<1>4. wire' = [Deliver(wire, d, c, s \o <<"eof">>) EXCEPT ![d][c] = <<>>]
  BY DEF Close
<1>5. <<>> \in Seq(Sayable[d][c])
  BY EmptySeq
<1>6. wire' \in Channels(Sayable, Frame)
  BY <1>3, <1>4, <1>5, Neutral, SetChannel
<1> QED BY <1>6 DEF Close, CloseSock, TypeOK, Open

(* While no driver takes a click and no socket is promoted, what may be    *)
(* said does not change.                                                   *)
LEMMA SayableUnchanged ==
  ASSUME UNCHANGED <<local, promoted>>
  PROVE  Sayable' = Sayable /\ Hearable' = Hearable
BY DEF Sayable, Hearable, True

(* They may say more once a driver has taken an accept or a socket has     *)
(* been promoted.                                                          *)
LEMMA SayableGrows ==
  ASSUME \A d \in Side, c \in Conn : /\ local[d][c] => local'[d][c]
                                     /\ promoted[d][c] => promoted'[d][c]
  PROVE  \A d \in Side, c \in Conn : /\ Sayable[d][c] \subseteq Sayable'[d][c]
                                     /\ Hearable[d][c] \subseteq Hearable'[d][c]
BY PeerFacts DEF Sayable, Hearable, True

LEMMA StageSet ==
  ASSUME TypeOK, NEW d \in Side, NEW c \in Conn, NEW s \in Stage, SetStage(d, c, s)
  PROVE  /\ stage' \in [Side -> [Conn -> Stage]]
         /\ stage'[d][c] = s
         /\ \A e \in Side, x \in Conn : (e # d \/ x # c) => stage'[e][x] = stage[e][x]
BY DEF TypeOK, SetStage

(* A step of one attempt at one end: what it must leave alone elsewhere,   *)
(* and what remains to be shown of the attempt itself.                     *)
LEMMA AttemptStep ==
  ASSUME IInv, NEW d \in Side, NEW c \in Conn,
         \A e \in Side, x \in Conn : (e # d \/ x # c) =>
           /\ stage'[e][x] = stage[e][x]
           /\ result'[e][x] = result[e][x]
           /\ remote'[e][x] = remote[e][x],
         UNCHANGED dialer,
         \A e \in Side : e # d => pending'[e] = pending[e] /\ trust'[e] = trust[e],
         pending'[d] = pending[d] \/ pending[d] \in {None, c},
         trust'[d] \in {trust[d], None, c},
         \A e \in Side, x \in Conn : /\ local[e][x] => local'[e][x]
                                     /\ promoted[e][x] => promoted'[e][x],
         DriverOK(d, c)' /\ StageOK(d, c)' /\ TrailOK(d, c)'
  PROVE  AttemptInv'
<1> SUFFICES ASSUME NEW e \in Side, NEW x \in Conn, e # d \/ x # c
             PROVE  DriverOK(e, x)' /\ StageOK(e, x)' /\ TrailOK(e, x)'
  BY DEF AttemptInv
<1>1. /\ stage'[e][x] = stage[e][x] /\ result'[e][x] = result[e][x]
      /\ remote'[e][x] = remote[e][x] /\ dialer'[x] = dialer[x]
      /\ trust'[e] = x => trust[e] = x
  BY ConstantsApart
<1>2. DriverOK(e, x) /\ StageOK(e, x) /\ TrailOK(e, x)
  BY DEF IInv, AttemptInv
<1>3. DriverOK(e, x)'
  BY <1>1, <1>2, ConstantsApart DEF DriverOK
<1>4. StageOK(e, x)'
  BY <1>1, <1>2 DEF StageOK
<1>5. TrailOK(e, x)'
  BY <1>1, <1>2, PeerFacts DEF TrailOK
<1> QED BY <1>3, <1>4, <1>5

(* A step that moves no attempt. *)
LEMMA QuietStep ==
  ASSUME IInv,
         UNCHANGED <<stage, dialer, pending, local, remote, promoted, result>>,
         \A e \in Side : trust'[e] \in {trust[e], None}
  PROVE  AttemptInv'
<1> SUFFICES ASSUME NEW e \in Side, NEW x \in Conn
             PROVE  DriverOK(e, x)' /\ StageOK(e, x)' /\ TrailOK(e, x)'
  BY DEF AttemptInv
<1>1. DriverOK(e, x) /\ StageOK(e, x) /\ TrailOK(e, x)
  BY DEF IInv, AttemptInv
<1>2. trust'[e] = x => trust[e] = x
  BY ConstantsApart
<1> QED BY <1>1, <1>2 DEF DriverOK, StageOK, TrailOK

(* A step after which the channels still carry what they may. *)
LEMMA Carried ==
  ASSUME UNCHANGED <<local, promoted>>,
         wire' \in Channels(Sayable, Frame), events' \in Channels(Hearable, Event)
  PROVE  /\ ChannelInv'
         /\ wire' \in [Side -> [Conn -> Seq(Frame)]]
         /\ events' \in [Side -> [Conn -> Seq(Event)]]
BY SayableUnchanged DEF Channels, ChannelInv

-----------------------------------------------------------------------------
(* Starting. *)

LEMMA StartCheckStep ==
  ASSUME IInv, NEW d \in Side, StartCheck(d)
  PROVE  IInv'
<1> USE DEF StartCheck, forgetVars
<1>1. TypeOK'
  BY DEF IInv, TypeOK
<1>2. ChannelInv'
  BY Carried DEF IInv, ChannelInv
<1>3. AttemptInv'
  BY QuietStep
<1> QED BY <1>1, <1>2, <1>3 DEF IInv

LEMMA StartBegins ==
  ASSUME IInv, NEW d \in Side, NEW c \in Conn,
         pending[d] = None, dialer[c] = None,
         starting' = [starting EXCEPT ![d] = FALSE],
         dialer' = [dialer EXCEPT ![c] = d],
         pending' = [pending EXCEPT ![d] = c],
         SetStage(d, c, "dialing"),
         UNCHANGED <<raced, local, remote, decision, events, wire, sock, promoted, live, trust,
                     result, shown, forgetVars, signalled>>
  PROVE  IInv'
<1> USE DEF forgetVars
<1>1. /\ stage' \in [Side -> [Conn -> Stage]]
      /\ stage'[d][c] = "dialing"
      /\ \A e \in Side, x \in Conn : (e # d \/ x # c) => stage'[e][x] = stage[e][x]
  BY StageSet DEF IInv, Stage
<1>2. /\ dialer' \in [Conn -> Side \cup {None}] /\ dialer'[c] = d
      /\ \A x \in Conn : x # c => dialer'[x] = dialer[x]
      /\ pending' \in [Side -> Conn \cup {None}] /\ pending'[d] = c
      /\ \A e \in Side : e # d => pending'[e] = pending[e]
      /\ starting' \in [Side -> BOOLEAN]
  BY DEF IInv, TypeOK
<1>3. TypeOK'
  BY <1>1, <1>2 DEF IInv, TypeOK
<1>4. ChannelInv'
  BY Carried DEF IInv, ChannelInv
<1>5. AttemptInv'
  <2> SUFFICES ASSUME NEW e \in Side, NEW x \in Conn
               PROVE  DriverOK(e, x)' /\ StageOK(e, x)' /\ TrailOK(e, x)'
    BY DEF AttemptInv
  <2>1. DriverOK(e, x) /\ StageOK(e, x) /\ TrailOK(e, x)
    BY DEF IInv, AttemptInv
  <2>2. stage[d][c] = "none" /\ d # None
    BY PeerFacts DEF IInv, AttemptInv, StageOK
  <2>3. DriverOK(e, x)'
    BY <2>1, <1>1, <1>2, ConstantsApart DEF DriverOK
  <2>4. StageOK(e, x)'
    <3>1. CASE e = d /\ x = c
      BY <3>1, <2>1, <2>2, <1>1, <1>2 DEF StageOK
    <3>2. CASE e # d \/ x # c
      BY <3>2, <2>1, <2>2, <1>1, <1>2 DEF StageOK
    <3> QED BY <3>1, <3>2
  <2>5. stage'[e][x] # "dialing" => stage'[e][x] = stage[e][x]
    BY <1>1
  <2>6. dialer[x] # None => dialer'[x] = dialer[x]
    BY <1>2
  <2>7. TrailOK(e, x)'
    BY <2>1, <2>5, <2>6 DEF TrailOK
  <2> QED BY <2>3, <2>4, <2>7
<1> QED BY <1>3, <1>4, <1>5 DEF IInv

LEMMA StartBeginStep ==
  ASSUME IInv, NEW d \in Side, StartBegin(d)
  PROVE  IInv'
<1>1. CASE pending[d] # None \/ \A c \in Conn : dialer[c] # None
  <2> USE DEF StartBegin, forgetVars
  <2>1. UNCHANGED <<dialer, pending, stage>> /\ starting' \in [Side -> BOOLEAN]
    BY <1>1 DEF IInv, TypeOK
  <2>2. TypeOK'
    BY <2>1 DEF IInv, TypeOK
  <2>3. ChannelInv'
    BY Carried DEF IInv, ChannelInv
  <2>4. AttemptInv'
    BY <2>1, QuietStep
  <2> QED BY <2>2, <2>3, <2>4 DEF IInv
<1>2. CASE pending[d] = None /\ \E c \in Conn : dialer[c] = None
  BY <1>2, StartBegins DEF StartBegin
<1> QED BY <1>1, <1>2
-----------------------------------------------------------------------------
(* The outbound half, up to the code on the screen. *)

LEMMA UnregisterFacts ==
  ASSUME TypeOK, ChannelInv, NEW d \in Side, NEW c \in Conn, Unregister(d, c)
  PROVE  /\ pending' \in [Side -> Conn \cup {None}]
         /\ \A e \in Side : e # d => pending'[e] = pending[e]
         /\ pending'[d] = pending[d] \/ pending[d] = c
         /\ events' \in Channels(Hearable, Event)
         /\ decision' \in [Side -> [Conn -> Click]]
         /\ remote' \in [Side -> [Conn -> BOOLEAN]]
         /\ remote'[d][c] = FALSE
         /\ \A e \in Side, x \in Conn : (e # d \/ x # c) => remote'[e][x] = remote[e][x]
<1>2. decision' \in [Side -> [Conn -> Click]]
  BY DEF Unregister, TypeOK, Click
<1>3. /\ pending' \in [Side -> Conn \cup {None}]
      /\ \A e \in Side : e # d => pending'[e] = pending[e]
      /\ pending'[d] = pending[d] \/ pending[d] = c
  BY DEF Unregister, TypeOK
<1>4. /\ remote' \in [Side -> [Conn -> BOOLEAN]]
      /\ remote'[d][c] = FALSE
      /\ \A e \in Side, x \in Conn : (e # d \/ x # c) => remote'[e][x] = remote[e][x]
  BY DEF Unregister, TypeOK
<1>5. events' \in Channels(Hearable, Event)
  BY EmptySeq, Neutral, SetChannel DEF Unregister, ChannelInv
<1> QED BY <1>2, <1>3, <1>4, <1>5

LEMMA AbortStep ==
  ASSUME IInv, NEW d \in Side, NEW c \in Conn, stage[d][c] \in {"dialing", "hello"}, Abort(d, c)
  PROVE  IInv'
<1> USE DEF forgetVars
<1>1. TypeOK /\ ChannelInv /\ Unregister(d, c) /\ Close(d, c, <<>>) /\ SetStage(d, c, "aborting")
      /\ UNCHANGED <<dialer, starting, raced, local, promoted, live, trust,
                     result, shown, forgetVars, signalled>>
  BY DEF IInv, Abort
<1>2. /\ stage' \in [Side -> [Conn -> Stage]]
      /\ stage'[d][c] = "aborting"
      /\ \A e \in Side, x \in Conn : (e # d \/ x # c) => stage'[e][x] = stage[e][x]
  BY <1>1, StageSet DEF Stage
<1>3. /\ wire' \in Channels(Sayable, Frame)
      /\ sock' \in [Side -> [Conn -> {"none", "open", "closed"}]]
  BY <1>1, EmptySeq, CloseKeeps DEF ChannelInv
<1>4. /\ pending' \in [Side -> Conn \cup {None}]
      /\ \A e \in Side : e # d => pending'[e] = pending[e]
      /\ pending'[d] = pending[d] \/ pending[d] = c
      /\ events' \in Channels(Hearable, Event)
      /\ decision' \in [Side -> [Conn -> Click]]
      /\ remote' \in [Side -> [Conn -> BOOLEAN]]
      /\ remote'[d][c] = FALSE
      /\ \A e \in Side, x \in Conn : (e # d \/ x # c) => remote'[e][x] = remote[e][x]
  BY <1>1, UnregisterFacts
<1>5. ChannelInv' /\ wire' \in [Side -> [Conn -> Seq(Frame)]]
      /\ events' \in [Side -> [Conn -> Seq(Event)]]
  BY <1>1, <1>3, <1>4, Carried
<1>6. TypeOK'
  BY <1>1, <1>2, <1>3, <1>4, <1>5 DEF TypeOK
<1>7. DriverOK(d, c)' /\ StageOK(d, c)' /\ TrailOK(d, c)'
  <2>1. StageOK(d, c) /\ TrailOK(d, c)
    BY DEF IInv, AttemptInv
  <2> QED BY <2>1, <1>1, <1>2, <1>4 DEF DriverOK, StageOK, TrailOK
<1>8. AttemptInv'
  BY <1>1, <1>2, <1>4, <1>7, AttemptStep
<1> QED BY <1>5, <1>6, <1>8 DEF IInv

LEMMA DialStep ==
  ASSUME IInv, NEW d \in Side, NEW c \in Conn, Dial(d, c)
  PROVE  IInv'
<1> USE DEF forgetVars
<1>1. TypeOK /\ ChannelInv /\ SetStage(d, c, "hello") /\ stage[d][c] = "dialing"
      /\ Peer(d) \in Side
      /\ UNCHANGED <<dialer, pending, starting, raced, local, remote, decision, events, promoted,
                     live, trust, result, shown, forgetVars, signalled>>
  BY PeerFacts DEF IInv, Dial
<1>2. /\ stage' \in [Side -> [Conn -> Stage]]
      /\ stage'[d][c] = "hello"
      /\ \A e \in Side, x \in Conn : (e # d \/ x # c) => stage'[e][x] = stage[e][x]
  BY <1>1, StageSet DEF Stage
<1>3. sock' \in [Side -> [Conn -> {"none", "open", "closed"}]]
  BY <1>1 DEF Dial, TypeOK
<1>4. wire' \in Channels(Sayable, Frame)
  <2>1. "hello" \in Sayable[Peer(d)][c] /\ Sayable[Peer(d)][c] \subseteq Frame
    BY <1>1, Neutral
  <2>2. <<"hello">> \in Seq(Sayable[Peer(d)][c])
    BY <2>1, Singleton
  <2> QED BY <1>1, <2>1, <2>2, SetChannel DEF Dial, ChannelInv
<1>5. ChannelInv' /\ wire' \in [Side -> [Conn -> Seq(Frame)]]
  BY <1>1, <1>4, Carried DEF ChannelInv
<1>6. TypeOK'
  BY <1>1, <1>2, <1>3, <1>5 DEF TypeOK
<1>7. DriverOK(d, c)' /\ StageOK(d, c)' /\ TrailOK(d, c)'
  <2>1. DriverOK(d, c) /\ StageOK(d, c) /\ TrailOK(d, c)
    BY DEF IInv, AttemptInv
  <2> QED BY <2>1, <1>1, <1>2 DEF DriverOK, StageOK, TrailOK
<1>8. AttemptInv'
  BY <1>1, <1>2, <1>7, AttemptStep
<1> QED BY <1>5, <1>6, <1>8 DEF IInv

LEMMA RequiredStep ==
  ASSUME IInv, NEW d \in Side, NEW c \in Conn, Required(d, c)
  PROVE  IInv'
<1> USE DEF forgetVars
<1>1. TypeOK /\ ChannelInv /\ SetStage(d, c, "await") /\ stage[d][c] = "hello"
      /\ UNCHANGED <<dialer, pending, starting, raced, local, remote, decision, events, sock,
                     promoted, live, trust, result, forgetVars, signalled>>
  BY DEF IInv, Required
<1>2. /\ stage' \in [Side -> [Conn -> Stage]]
      /\ stage'[d][c] = "await"
      /\ \A e \in Side, x \in Conn : (e # d \/ x # c) => stage'[e][x] = stage[e][x]
  BY <1>1, StageSet DEF Stage
<1>3. wire' \in Channels(Sayable, Frame)
  BY <1>1, Neutral, TailChannel DEF Required, ChannelInv
<1>4. ChannelInv' /\ wire' \in [Side -> [Conn -> Seq(Frame)]]
  BY <1>1, <1>3, Carried DEF ChannelInv
<1>5. shown' \in [Side -> BOOLEAN]
  BY DEF Required, IInv, TypeOK
<1>6. TypeOK'
  BY <1>1, <1>2, <1>4, <1>5 DEF TypeOK
<1>7. DriverOK(d, c)' /\ StageOK(d, c)' /\ TrailOK(d, c)'
  <2>1. DriverOK(d, c) /\ StageOK(d, c) /\ TrailOK(d, c)
    BY DEF IInv, AttemptInv
  <2> QED BY <2>1, <1>1, <1>2 DEF DriverOK, StageOK, TrailOK
<1>8. AttemptInv'
  BY <1>1, <1>2, <1>7, AttemptStep
<1> QED BY <1>4, <1>6, <1>8 DEF IInv

-----------------------------------------------------------------------------
(* The inbound half. *)

LEMMA OfferStep ==
  ASSUME IInv, NEW d \in Side, NEW c \in Conn, Offer(d, c)
  PROVE  IInv'
<1> USE DEF forgetVars
<1>1. TypeOK /\ ChannelInv /\ SetStage(d, c, "await") /\ stage[d][c] = "none"
      /\ pending[d] = None /\ dialer[c] # None /\ Peer(d) \in Side
      /\ UNCHANGED <<dialer, starting, raced, local, remote, decision, events, sock, promoted,
                     live, trust, result, forgetVars, signalled>>
  BY PeerFacts DEF IInv, Offer, Responder
<1>2. /\ stage' \in [Side -> [Conn -> Stage]]
      /\ stage'[d][c] = "await"
      /\ \A e \in Side, x \in Conn : (e # d \/ x # c) => stage'[e][x] = stage[e][x]
  BY <1>1, StageSet DEF Stage
<1>3. wire' \in Channels(Sayable, Frame)
  <2> DEFINE w == Deliver(wire, d, c, <<"required">>)
  <2>1. "required" \in Sayable[Peer(d)][c] /\ Sayable[Peer(d)][c] \subseteq Frame
        /\ Sayable[d][c] \subseteq Frame
    BY <1>1, Neutral
  <2>2. <<"required">> \in Seq(Sayable[Peer(d)][c])
    BY <2>1, Singleton
  <2>3. w \in Channels(Sayable, Frame)
    BY <1>1, <2>1, <2>2, DeliverKeeps DEF ChannelInv
  <2>4. w[d][c] = wire[d][c] /\ wire[d][c] # <<>>
    BY <1>1, PeerFacts DEF Offer, Deliver, ChannelInv, Channels
  <2>5. wire' = [w EXCEPT ![d][c] = Tail(@)]
    BY DEF Offer
  <2> HIDE DEF w
  <2> QED BY <2>1, <2>3, <2>4, <2>5, TailChannel
<1>4. ChannelInv' /\ wire' \in [Side -> [Conn -> Seq(Frame)]]
  BY <1>1, <1>3, Carried DEF ChannelInv
<1>5. /\ shown' \in [Side -> BOOLEAN]
      /\ pending' \in [Side -> Conn \cup {None}] /\ pending'[d] = c
      /\ \A e \in Side : e # d => pending'[e] = pending[e]
  BY DEF Offer, IInv, TypeOK
<1>6. TypeOK'
  BY <1>1, <1>2, <1>4, <1>5 DEF TypeOK
<1>7. DriverOK(d, c)' /\ StageOK(d, c)' /\ TrailOK(d, c)'
  <2>1. StageOK(d, c) /\ TrailOK(d, c)
    BY DEF IInv, AttemptInv
  <2> QED BY <2>1, <1>1, <1>2, <1>5 DEF DriverOK, StageOK, TrailOK
<1>8. AttemptInv'
  BY <1>1, <1>2, <1>5, <1>7, AttemptStep
<1> QED BY <1>4, <1>6, <1>8 DEF IInv

LEMMA RefuseStep ==
  ASSUME IInv, NEW d \in Side, NEW c \in Conn, Refuse(d, c)
  PROVE  IInv'
<1> USE DEF forgetVars
<1>1. TypeOK /\ ChannelInv /\ SetStage(d, c, "ended") /\ stage[d][c] = "none"
      /\ dialer[c] # None /\ Peer(d) \in Side
      /\ \E said \in {<<"reject">>, <<>>} : Close(d, c, said)
      /\ UNCHANGED <<dialer, pending, starting, raced, local, remote, decision, events, promoted,
                     live, trust, result, shown, forgetVars, signalled>>
  BY PeerFacts DEF IInv, Refuse, Responder
<1>2. /\ stage' \in [Side -> [Conn -> Stage]]
      /\ stage'[d][c] = "ended"
      /\ \A e \in Side, x \in Conn : (e # d \/ x # c) => stage'[e][x] = stage[e][x]
  BY <1>1, StageSet DEF Stage
<1>3. /\ wire' \in Channels(Sayable, Frame)
      /\ sock' \in [Side -> [Conn -> {"none", "open", "closed"}]]
  <2>1. "reject" \in Sayable[Peer(d)][c]
    BY <1>1, Neutral
  <2>2. {<<"reject">>, <<>>} \subseteq Seq(Sayable[Peer(d)][c])
    BY <2>1, Singleton, EmptySeq
  <2> QED BY <1>1, <2>2, CloseKeeps DEF ChannelInv
<1>4. ChannelInv' /\ wire' \in [Side -> [Conn -> Seq(Frame)]]
  BY <1>1, <1>3, Carried DEF ChannelInv
<1>5. TypeOK'
  BY <1>1, <1>2, <1>3, <1>4 DEF TypeOK
<1>6. DriverOK(d, c)' /\ StageOK(d, c)' /\ TrailOK(d, c)'
  <2>1. StageOK(d, c) /\ TrailOK(d, c)
    BY DEF IInv, AttemptInv
  <2> QED BY <2>1, <1>1, <1>2 DEF DriverOK, StageOK, TrailOK
<1>7. AttemptInv'
  BY <1>1, <1>2, <1>6, AttemptStep
<1> QED BY <1>4, <1>5, <1>7 DEF IInv
-----------------------------------------------------------------------------
(* The reader and the network: no attempt moves. *)

LEMMA ReadPairingFrameStep ==
  ASSUME IInv, NEW d \in Side, NEW c \in Conn, ReadPairingFrame(d, c)
  PROVE  IInv'
<1> USE DEF forgetVars
<1>1. TypeOK /\ ChannelInv
      /\ UNCHANGED <<dialer, stage, pending, starting, raced, local, remote, decision, sock,
                     promoted, live, trust, result, shown, forgetVars, signalled>>
  BY DEF IInv, ReadPairingFrame
<1>2. PICK f \in {"accept", "paired", "reject"} :
        wire[d][c] # <<>> /\ Head(wire[d][c]) = f /\ Push(d, c, f)
  BY DEF ReadPairingFrame, Reading
<1>3. wire' \in Channels(Sayable, Frame) /\ Head(wire[d][c]) \in Sayable[d][c]
  BY <1>1, <1>2, Neutral, TailChannel DEF ReadPairingFrame, ChannelInv
<1>4. events' \in Channels(Hearable, Event)
  <2>1. f \in Hearable[d][c] /\ Hearable[d][c] \subseteq Event
    BY <1>2, <1>3, Neutral DEF Event
  <2>2. <<f>> \in Seq(Hearable[d][c])
    BY <2>1, Singleton
  <2>3. [events EXCEPT ![d][c] = @ \o <<f>>] \in Channels(Hearable, Event)
    BY <1>1, <2>1, <2>2, AppendChannel DEF ChannelInv
  <2>4. [events EXCEPT ![d][c] = Append(@, f)] = [events EXCEPT ![d][c] = @ \o <<f>>]
    <3>1. events[d][c] \in Seq(Hearable[d][c])
      BY <1>1 DEF ChannelInv, Channels
    <3>2. Append(events[d][c], f) = events[d][c] \o <<f>>
      BY <3>1, AppendIsConcat
    <3> QED BY <3>2
  <2> QED BY <1>1, <1>2, <2>3, <2>4 DEF Push, ChannelInv
<1>5. ChannelInv' /\ wire' \in [Side -> [Conn -> Seq(Frame)]]
      /\ events' \in [Side -> [Conn -> Seq(Event)]]
  BY <1>1, <1>3, <1>4, Carried
<1>6. TypeOK'
  BY <1>1, <1>5 DEF TypeOK
<1>7. AttemptInv'
  BY <1>1, QuietStep
<1> QED BY <1>5, <1>6, <1>7 DEF IInv

LEMMA ReadSignalStep ==
  ASSUME IInv, NEW d \in Side, NEW c \in Conn, ReadSignal(d, c)
  PROVE  IInv'
<1> USE DEF forgetVars
<1>1. TypeOK /\ ChannelInv /\ wire[d][c] # <<>>
      /\ UNCHANGED <<dialer, stage, pending, starting, raced, local, remote, decision, events, sock,
                     promoted, live, trust, result, shown, forgetVars, signalled>>
  BY DEF IInv, ReadSignal, Reading
<1>2. wire' \in Channels(Sayable, Frame)
  BY <1>1, Neutral, TailChannel DEF ReadSignal, ChannelInv
<1>3. ChannelInv' /\ wire' \in [Side -> [Conn -> Seq(Frame)]]
  BY <1>1, <1>2, Carried DEF ChannelInv
<1>4. TypeOK'
  BY <1>1, <1>3 DEF TypeOK
<1>5. AttemptInv'
  BY <1>1, QuietStep
<1> QED BY <1>3, <1>4, <1>5 DEF IInv

LEMMA ReadEndsStep ==
  ASSUME IInv, NEW d \in Side, NEW c \in Conn, ReadEnds(d, c)
  PROVE  IInv'
<1> USE DEF forgetVars
<1>1. TypeOK /\ ChannelInv /\ Close(d, c, <<>>)
      /\ UNCHANGED <<dialer, stage, pending, starting, raced, local, remote, decision, events,
                     promoted, trust, result, shown, forgetVars, signalled>>
  BY DEF IInv, ReadEnds
<1>2. /\ wire' \in Channels(Sayable, Frame)
      /\ sock' \in [Side -> [Conn -> {"none", "open", "closed"}]]
  BY <1>1, EmptySeq, CloseKeeps DEF ChannelInv
<1>3. live' \in [Side -> Conn \cup {None}]
  BY DEF ReadEnds, IInv, TypeOK
<1>4. ChannelInv' /\ wire' \in [Side -> [Conn -> Seq(Frame)]]
  BY <1>1, <1>2, Carried DEF ChannelInv
<1>5. TypeOK'
  BY <1>1, <1>2, <1>3, <1>4 DEF TypeOK
<1>6. AttemptInv'
  BY <1>1, QuietStep
<1> QED BY <1>4, <1>5, <1>6 DEF IInv

LEMMA LinkBreaksStep ==
  ASSUME IInv, NEW c \in Conn, LinkBreaks(c)
  PROVE  IInv'
<1> USE DEF forgetVars
<1>1. TypeOK /\ ChannelInv
      /\ UNCHANGED <<dialer, stage, pending, starting, raced, local, remote, decision, events, sock,
                     promoted, live, trust, result, shown, forgetVars, signalled>>
  BY DEF IInv, LinkBreaks
<1>2. wire' \in Channels(Sayable, Frame)
  <2>1. \A d \in Side : <<"eof">> \in Seq(Sayable[d][c]) /\ <<"eof">> \in Seq(Frame)
    BY Neutral, Singleton DEF Frame
  <2>2. wire' \in [Side -> [Conn -> Seq(Frame)]]
    BY <1>1, <2>1 DEF LinkBreaks, ChannelInv, Channels
  <2>3. \A d \in Side, x \in Conn :
          wire'[d][x] = wire[d][x] \/ (x = c /\ wire'[d][x] = <<"eof">>)
    BY <1>1 DEF LinkBreaks, ChannelInv, Channels
  <2>4. \A d \in Side, x \in Conn : wire[d][x] \in Seq(Sayable[d][x])
    BY <1>1 DEF ChannelInv, Channels
  <2>5. \A d \in Side, x \in Conn : wire'[d][x] \in Seq(Sayable[d][x])
    BY <2>1, <2>3, <2>4
  <2> QED BY <2>2, <2>5 DEF Channels
<1>3. ChannelInv' /\ wire' \in [Side -> [Conn -> Seq(Frame)]]
  BY <1>1, <1>2, Carried DEF ChannelInv
<1>4. TypeOK'
  BY <1>1, <1>3 DEF TypeOK
<1>5. AttemptInv'
  BY <1>1, QuietStep
<1> QED BY <1>3, <1>4, <1>5 DEF IInv

-----------------------------------------------------------------------------
(* The humans, Forget and the panels: no attempt moves either. *)

LEMMA ConfirmStep ==
  ASSUME IInv, NEW d \in Side, NEW click \in {"accept", "reject"}, Confirm(d, click)
  PROVE  IInv'
<1> USE DEF forgetVars
<1>1. TypeOK /\ ChannelInv
      /\ UNCHANGED <<dialer, stage, pending, starting, raced, local, remote, events, wire, sock,
                     promoted, live, trust, result, shown, forgetVars, signalled>>
  BY DEF IInv, Confirm
<1>2. decision' \in [Side -> [Conn -> Click]]
  BY <1>1 DEF Confirm, TypeOK, Click
<1>3. ChannelInv'
  BY <1>1, Carried DEF ChannelInv
<1>4. TypeOK'
  BY <1>1, <1>2 DEF TypeOK
<1>5. AttemptInv'
  BY <1>1, QuietStep
<1> QED BY <1>3, <1>4, <1>5 DEF IInv

LEMMA ForgetCancelStep ==
  ASSUME IInv, NEW d \in Side, ForgetCancel(d)
  PROVE  IInv'
<1> USE DEF forgetVars
<1>1. TypeOK /\ ChannelInv
      /\ UNCHANGED <<dialer, stage, pending, starting, raced, local, remote, decision, wire, sock,
                     promoted, live, trust, result, shown, signalled>>
  BY DEF IInv, ForgetCancel
<1>2. events' \in Channels(Hearable, Event)
  <2>1. CASE UNCHANGED events
    BY <2>1, <1>1 DEF ChannelInv
  <2>2. CASE pending[d] # None /\ Push(d, pending[d], "cancel")
    <3>1. PICK c \in Conn : c = pending[d]
      BY <1>1, <2>2 DEF TypeOK
    <3>2. "cancel" \in Hearable[d][c] /\ Hearable[d][c] \subseteq Event
      BY Neutral
    <3>3. <<"cancel">> \in Seq(Hearable[d][c])
      BY <3>2, Singleton
    <3>4. [events EXCEPT ![d][c] = @ \o <<"cancel">>] \in Channels(Hearable, Event)
      BY <1>1, <3>2, <3>3, AppendChannel DEF ChannelInv
    <3>5. [events EXCEPT ![d][c] = Append(@, "cancel")]
            = [events EXCEPT ![d][c] = @ \o <<"cancel">>]
      <4>1. events[d][c] \in Seq(Hearable[d][c])
        BY <1>1 DEF ChannelInv, Channels
      <4>2. Append(events[d][c], "cancel") = events[d][c] \o <<"cancel">>
        BY <4>1, AppendIsConcat
      <4> QED BY <4>2
    <3> QED BY <1>1, <2>2, <3>1, <3>4, <3>5 DEF Push, ChannelInv
  <2> QED BY <2>1, <2>2 DEF ForgetCancel
<1>3. /\ forgets' \in 0..MaxForgets
      /\ forget' \in [Side -> {"idle", "remove", "close"}]
  <2>1. forgets + 1 \in 0..MaxForgets
    BY ConstantsApart DEF IInv, TypeOK, ForgetCancel
  <2> QED BY <1>1, <2>1 DEF TypeOK, ForgetCancel
<1>4. ChannelInv' /\ events' \in [Side -> [Conn -> Seq(Event)]]
  BY <1>1, <1>2, Carried DEF ChannelInv
<1>5. TypeOK'
  BY <1>1, <1>3, <1>4 DEF TypeOK
<1>6. AttemptInv'
  BY <1>1, QuietStep
<1> QED BY <1>4, <1>5, <1>6 DEF IInv

LEMMA ForgetRemoveStep ==
  ASSUME IInv, NEW d \in Side, ForgetRemove(d)
  PROVE  IInv'
<1> USE DEF forgetVars
<1>1. TypeOK /\ ChannelInv
      /\ UNCHANGED <<dialer, stage, pending, starting, raced, local, remote, decision, events, wire,
                     sock, promoted, live, result, shown, forgets, signalled>>
  BY DEF IInv, ForgetRemove
<1>2. /\ trust' \in [Side -> Conn \cup {None}]
      /\ \A e \in Side : trust'[e] \in {trust[e], None}
  BY <1>1 DEF ForgetRemove, TypeOK
<1>3. forget' \in [Side -> {"idle", "remove", "close"}]
  BY <1>1 DEF ForgetRemove, TypeOK
<1>4. ChannelInv'
  BY <1>1, Carried DEF ChannelInv
<1>5. TypeOK'
  BY <1>1, <1>2, <1>3 DEF TypeOK
<1>6. AttemptInv'
  BY <1>1, <1>2, QuietStep
<1> QED BY <1>4, <1>5, <1>6 DEF IInv

LEMMA ForgetCloseStep ==
  ASSUME IInv, NEW d \in Side, ForgetClose(d)
  PROVE  IInv'
<1> USE DEF forgetVars
<1>1. TypeOK /\ ChannelInv
      /\ UNCHANGED <<dialer, stage, pending, starting, raced, local, remote, decision, events,
                     promoted, trust, result, shown, forgets, signalled>>
  BY DEF IInv, ForgetClose
<1>2. /\ wire' \in Channels(Sayable, Frame)
      /\ sock' \in [Side -> [Conn -> {"none", "open", "closed"}]]
  <2>1. CASE live[d] = None
    BY <1>1, <2>1 DEF ForgetClose, ChannelInv, TypeOK
  <2>2. CASE live[d] # None
    <3>1. live[d] \in Conn /\ Close(d, live[d], <<>>)
      BY <1>1, <2>2 DEF ForgetClose, TypeOK
    <3> QED BY <1>1, <3>1, EmptySeq, CloseKeeps DEF ChannelInv
  <2> QED BY <2>1, <2>2
<1>3. live' \in [Side -> Conn \cup {None}]
  BY <1>1 DEF ForgetClose, TypeOK
<1>4. forget' \in [Side -> {"idle", "remove", "close"}]
  BY <1>1 DEF ForgetClose, TypeOK
<1>5. ChannelInv' /\ wire' \in [Side -> [Conn -> Seq(Frame)]]
  BY <1>1, <1>2, Carried DEF ChannelInv
<1>6. TypeOK'
  BY <1>1, <1>2, <1>3, <1>4, <1>5 DEF TypeOK
<1>7. AttemptInv'
  BY <1>1, QuietStep
<1> QED BY <1>5, <1>6, <1>7 DEF IInv

LEMMA SendSignalStep ==
  ASSUME IInv, NEW d \in Side, NEW c \in Conn, SendSignal(d, c)
  PROVE  IInv'
<1> USE DEF forgetVars
<1>1. TypeOK /\ ChannelInv /\ Peer(d) \in Side
      /\ UNCHANGED <<dialer, stage, pending, starting, raced, local, remote, decision, events, sock,
                     promoted, live, trust, result, shown, forgetVars>>
  BY PeerFacts DEF IInv, SendSignal
<1>2. wire' \in Channels(Sayable, Frame)
  <2>1. "signal" \in Sayable[Peer(d)][c] /\ Sayable[Peer(d)][c] \subseteq Frame
    BY <1>1, Neutral
  <2>2. <<"signal">> \in Seq(Sayable[Peer(d)][c])
    BY <2>1, Singleton
  <2> QED BY <1>1, <2>1, <2>2, DeliverKeeps DEF SendSignal, Send, ChannelInv
<1>3. signalled' \in [Side -> SUBSET Conn]
  BY <1>1 DEF SendSignal, TypeOK
<1>4. ChannelInv' /\ wire' \in [Side -> [Conn -> Seq(Frame)]]
  BY <1>1, <1>2, Carried DEF ChannelInv
<1>5. TypeOK'
  BY <1>1, <1>3, <1>4 DEF TypeOK
<1>6. AttemptInv'
  BY <1>1, QuietStep
<1> QED BY <1>4, <1>5, <1>6 DEF IInv
-----------------------------------------------------------------------------
(* The driver.  First the two ways out of its loop. *)

(* A reject, or nothing, goes out and the attempt fails. *)
LEMMA FailStep ==
  ASSUME IInv, NEW d \in Side, NEW c \in Conn, NEW notify \in BOOLEAN,
         stage[d][c] \in {"await", "storing"}, Fail(d, c, notify),
         events' \in Channels(Hearable, Event),
         decision' \in [Side -> [Conn -> Click]],
         local' \in [Side -> [Conn -> BOOLEAN]],
         \A e \in Side, x \in Conn : local[e][x] => local'[e][x],
         UNCHANGED <<driverUnchanged, remote>>
  PROVE  IInv'
<1> USE DEF forgetVars, driverUnchanged
<1>1. TypeOK /\ ChannelInv /\ SetStage(d, c, "failing")
      /\ Close(d, c, IF notify THEN <<"reject">> ELSE <<>>)
      /\ Peer(d) \in Side /\ UNCHANGED <<trust, raced>>
  BY PeerFacts DEF IInv, Fail
<1>2. /\ stage' \in [Side -> [Conn -> Stage]]
      /\ stage'[d][c] = "failing"
      /\ \A e \in Side, x \in Conn : (e # d \/ x # c) => stage'[e][x] = stage[e][x]
  BY <1>1, StageSet DEF Stage
<1>3. /\ wire' \in Channels(Sayable, Frame)
      /\ sock' \in [Side -> [Conn -> {"none", "open", "closed"}]]
  <2> DEFINE s == IF notify THEN <<"reject">> ELSE <<>>
  <2>1. "reject" \in Sayable[Peer(d)][c]
    BY <1>1, Neutral
  <2>2. s \in Seq(Sayable[Peer(d)][c])
    BY <2>1, Singleton, EmptySeq
  <2> HIDE DEF s
  <2>3. Close(d, c, s)
    BY <1>1 DEF s
  <2> QED BY <1>1, <2>2, <2>3, CloseKeeps DEF ChannelInv
<1>4. ChannelInv' /\ wire' \in [Side -> [Conn -> Seq(Frame)]]
      /\ events' \in [Side -> [Conn -> Seq(Event)]]
  <2>1. \A e \in Side, x \in Conn : /\ Sayable[e][x] \subseteq Sayable'[e][x]
                                    /\ Hearable[e][x] \subseteq Hearable'[e][x]
    BY SayableGrows
  <2>2. wire' \in Channels(Sayable', Frame) /\ events' \in Channels(Hearable', Event)
    BY <1>3, <2>1, ChannelsGrow
  <2> QED BY <2>2 DEF ChannelInv, Channels
<1>5. TypeOK'
  BY <1>1, <1>2, <1>3, <1>4 DEF TypeOK
<1>6. DriverOK(d, c)' /\ StageOK(d, c)' /\ TrailOK(d, c)'
  <2>1. DriverOK(d, c) /\ StageOK(d, c) /\ TrailOK(d, c)
    BY DEF IInv, AttemptInv
  <2> QED BY <2>1, <1>1, <1>2 DEF DriverOK, StageOK, TrailOK
<1>7. AttemptInv'
  BY <1>1, <1>2, <1>6, AttemptStep
<1> QED BY <1>4, <1>5, <1>7 DEF IInv

(* A token is stored: both humans have accepted, and if this is the        *)
(* dialer the responder has promoted its socket.                           *)
LEMMA StoreStep ==
  ASSUME IInv, NEW d \in Side, NEW c \in Conn, stage[d][c] = "await", Store(d, c),
         ChannelInv', wire' \in [Side -> [Conn -> Seq(Frame)]],
         events' \in [Side -> [Conn -> Seq(Event)]],
         decision' \in [Side -> [Conn -> Click]],
         local' \in [Side -> [Conn -> BOOLEAN]],
         \A e \in Side, x \in Conn : local[e][x] => local'[e][x],
         remote' \in [Side -> [Conn -> BOOLEAN]],
         \A e \in Side, x \in Conn : (e # d \/ x # c) => remote'[e][x] = remote[e][x],
         local'[d][c], local'[Peer(d)][c], dialer[c] = d => promoted[Peer(d)][c],
         UNCHANGED <<driverUnchanged, sock>>
  PROVE  IInv'
<1> USE DEF forgetVars, driverUnchanged
<1>1. TypeOK /\ SetStage(d, c, "storing")
  BY DEF IInv, Store
<1>2. /\ stage' \in [Side -> [Conn -> Stage]]
      /\ stage'[d][c] = "storing"
      /\ \A e \in Side, x \in Conn : (e # d \/ x # c) => stage'[e][x] = stage[e][x]
  BY <1>1, StageSet DEF Stage
<1>3. /\ trust' \in [Side -> Conn \cup {None}] /\ trust'[d] = c
      /\ \A e \in Side : e # d => trust'[e] = trust[e]
      /\ raced' \in BOOLEAN
  BY <1>1 DEF Store, TypeOK
<1>4. TypeOK'
  BY <1>1, <1>2, <1>3 DEF TypeOK
<1>5. DriverOK(d, c)' /\ StageOK(d, c)' /\ TrailOK(d, c)'
  <2>1. DriverOK(d, c) /\ StageOK(d, c) /\ TrailOK(d, c)
    BY DEF IInv, AttemptInv
  <2>2. DriverOK(d, c)' /\ StageOK(d, c)'
    BY <2>1, <1>2 DEF DriverOK, StageOK
  <2>3. dialer[c] # None
    BY <2>1 DEF StageOK
  <2> QED BY <2>1, <2>2, <2>3 DEF TrailOK
<1>6. /\ UNCHANGED <<dialer, pending, promoted, result>>
      /\ trust'[d] \in {trust[d], None, c}
      /\ \A e \in Side : e # d => pending'[e] = pending[e] /\ trust'[e] = trust[e]
      /\ \A e \in Side, x \in Conn : (e # d \/ x # c) =>
           /\ stage'[e][x] = stage[e][x]
           /\ result'[e][x] = result[e][x]
           /\ remote'[e][x] = remote[e][x]
      /\ \A e \in Side, x \in Conn : /\ local[e][x] => local'[e][x]
                                     /\ promoted[e][x] => promoted'[e][x]
  BY <1>2, <1>3
<1>7. AttemptInv'
  <2> HIDE DEF driverUnchanged
  <2> QED BY <1>5, <1>6, AttemptStep
<1> QED BY <1>4, <1>7 DEF IInv

(* Neither: the driver has heard something and waits on. *)
LEMMA WaitStep ==
  ASSUME IInv, NEW d \in Side, NEW c \in Conn,
         ChannelInv', wire' \in [Side -> [Conn -> Seq(Frame)]],
         events' \in [Side -> [Conn -> Seq(Event)]],
         decision' \in [Side -> [Conn -> Click]],
         local' \in [Side -> [Conn -> BOOLEAN]],
         \A e \in Side, x \in Conn : local[e][x] => local'[e][x],
         remote' \in [Side -> [Conn -> BOOLEAN]],
         \A e \in Side, x \in Conn : (e # d \/ x # c) => remote'[e][x] = remote[e][x],
         remote'[d][c] => local'[Peer(d)][c],
         UNCHANGED <<driverUnchanged, sock, stage, trust, raced>>
  PROVE  IInv'
<1> USE DEF forgetVars, driverUnchanged
<1>1. TypeOK'
  BY DEF IInv, TypeOK
<1>2. DriverOK(d, c)' /\ StageOK(d, c)' /\ TrailOK(d, c)'
  <2>1. DriverOK(d, c) /\ StageOK(d, c) /\ TrailOK(d, c)
    BY DEF IInv, AttemptInv
  <2> QED BY <2>1, PeerFacts DEF DriverOK, StageOK, TrailOK
<1>3. /\ UNCHANGED <<dialer, pending, promoted, result, stage, trust>>
      /\ \A e \in Side, x \in Conn : /\ local[e][x] => local'[e][x]
                                     /\ promoted[e][x] => promoted'[e][x]
  OBVIOUS
<1>4. AttemptInv'
  <2> HIDE DEF driverUnchanged
  <2> QED BY <1>2, <1>3, AttemptStep
<1> QED BY <1>1, <1>4 DEF IInv

LEMMA TakeRejectStep ==
  ASSUME IInv, NEW d \in Side, NEW c \in Conn, TakeReject(d, c)
  PROVE  IInv'
<1>1. TypeOK /\ ChannelInv /\ stage[d][c] = "await" /\ Fail(d, c, TRUE)
      /\ UNCHANGED <<driverUnchanged, local, remote, events>>
  BY DEF IInv, TakeReject
<1>2. decision' \in [Side -> [Conn -> Click]]
  BY <1>1 DEF TakeReject, TypeOK, Click
<1>3. /\ local' \in [Side -> [Conn -> BOOLEAN]]
      /\ events' \in Channels(Hearable, Event) /\ TRUE \in BOOLEAN
  BY <1>1 DEF TypeOK, ChannelInv
<1> QED BY <1>1, <1>2, <1>3, FailStep

LEMMA TakeAcceptStep ==
  ASSUME IInv, NEW d \in Side, NEW c \in Conn, TakeAccept(d, c)
  PROVE  IInv'
<1>1. TypeOK /\ ChannelInv /\ stage[d][c] = "await" /\ Peer(d) \in Side /\ Peer(Peer(d)) = d
      /\ UNCHANGED <<driverUnchanged, remote, events>>
  BY PeerFacts DEF IInv, TakeAccept
<1>2. decision' \in [Side -> [Conn -> Click]]
  BY <1>1 DEF TakeAccept, TypeOK, Click
<1>4. /\ local' \in [Side -> [Conn -> BOOLEAN]] /\ local'[d][c]
      /\ \A e \in Side, x \in Conn : local[e][x] => local'[e][x]
  BY <1>1 DEF TakeAccept, TypeOK
<1>5. /\ remote' \in [Side -> [Conn -> BOOLEAN]]
      /\ remote[d][c] => local[Peer(d)][c]
  BY <1>1 DEF IInv, TypeOK, AttemptInv, TrailOK
<1>6. \A e \in Side, x \in Conn : /\ Sayable[e][x] \subseteq Sayable'[e][x]
                                  /\ Hearable[e][x] \subseteq Hearable'[e][x]
  BY <1>1, <1>4, SayableGrows DEF driverUnchanged
<1>7. wire \in Channels(Sayable', Frame) /\ events' \in Channels(Hearable', Event)
  BY <1>1, <1>6, ChannelsGrow DEF ChannelInv
<1>8. CASE local[d][c] /\ UNCHANGED <<stage, sock, wire, trust, raced>>
  <2>1. ChannelInv' /\ wire' \in [Side -> [Conn -> Seq(Frame)]]
        /\ events' \in [Side -> [Conn -> Seq(Event)]]
    BY <1>7, <1>8 DEF ChannelInv, Channels
  <2> QED BY <1>1, <1>2, <1>4, <1>5, <1>8, <2>1, WaitStep
<1>9. CASE Fail(d, c, FALSE)
  <2>1. events' \in Channels(Hearable, Event) /\ FALSE \in BOOLEAN
    BY <1>1 DEF ChannelInv
  <2> QED BY <1>1, <1>2, <1>4, <1>9, <2>1, FailStep
<1>10. CASE /\ Send(d, c, "accept") /\ UNCHANGED sock
            /\ IF Mints(d, c, TRUE, remote[d][c]) THEN Store(d, c)
               ELSE UNCHANGED <<stage, trust, raced>>
  <2>1. wire' \in Channels(Sayable', Frame)
    <3>1. Sayable'[Peer(d)][c] = {f \in Frame : True(Peer(d), c, f)'}
      BY <1>1 DEF Sayable
    <3>2. "accept" \in Sayable'[Peer(d)][c] /\ Sayable'[Peer(d)][c] \subseteq Frame
      BY <1>1, <1>4, <3>1 DEF True, Frame
    <3>3. <<"accept">> \in Seq(Sayable'[Peer(d)][c])
      BY <3>2, Singleton
    <3> QED BY <1>7, <1>10, <3>2, <3>3, DeliverKeeps DEF Send
  <2>2. ChannelInv' /\ wire' \in [Side -> [Conn -> Seq(Frame)]]
        /\ events' \in [Side -> [Conn -> Seq(Event)]]
    BY <1>7, <2>1 DEF ChannelInv, Channels
  <2>3. CASE Mints(d, c, TRUE, remote[d][c]) /\ Store(d, c)
    <3>1. dialer[c] # d /\ local'[Peer(d)][c]
      BY <1>1, <1>4, <1>5, <2>3, PeerFacts DEF Mints, Responder
    <3> QED BY <1>1, <1>2, <1>4, <1>5, <1>10, <2>2, <2>3, <3>1, StoreStep
  <2>4. CASE UNCHANGED <<stage, trust, raced>>
    BY <1>1, <1>2, <1>4, <1>5, <1>10, <2>2, <2>4, WaitStep
  <2> QED BY <1>10, <2>3, <2>4
<1> QED BY <1>8, <1>9, <1>10 DEF TakeAccept

LEMMA TakeEventStep ==
  ASSUME IInv, NEW d \in Side, NEW c \in Conn, TakeEvent(d, c)
  PROVE  IInv'
<1>1. TypeOK /\ ChannelInv /\ stage[d][c] = "await" /\ events[d][c] # <<>>
      /\ UNCHANGED <<driverUnchanged, local, decision>>
  BY DEF IInv, TakeEvent
<1>2. /\ events' \in Channels(Hearable, Event)
      /\ Head(events[d][c]) \in Hearable[d][c]
  BY <1>1, Neutral, TailChannel DEF TakeEvent, ChannelInv
<1>3. True(d, c, Head(events[d][c]))
  BY <1>2, Neutral
<1>4. /\ decision' \in [Side -> [Conn -> Click]]
      /\ local' \in [Side -> [Conn -> BOOLEAN]]
      /\ \A e \in Side, x \in Conn : local[e][x] => local'[e][x]
  BY <1>1 DEF TypeOK
<1>5. CASE \E notify \in BOOLEAN : Fail(d, c, notify) /\ UNCHANGED remote
  BY <1>1, <1>2, <1>4, <1>5, FailStep
<1>6. CASE UNCHANGED <<sock, wire>>
  <2>1. UNCHANGED <<local, promoted>> /\ wire' \in Channels(Sayable, Frame)
    BY <1>1, <1>6 DEF driverUnchanged, ChannelInv
  <2>2. ChannelInv' /\ wire' \in [Side -> [Conn -> Seq(Frame)]]
        /\ events' \in [Side -> [Conn -> Seq(Event)]]
    BY <1>2, <2>1, Carried
  <2>3. CASE /\ Head(events[d][c]) = "accept"
             /\ remote' = [remote EXCEPT ![d][c] = TRUE]
             /\ IF Mints(d, c, local[d][c], TRUE) THEN Store(d, c)
                ELSE UNCHANGED <<stage, trust, raced>>
    <3>1. local'[Peer(d)][c]
      BY <1>1, <1>3, <2>3 DEF True
    <3>2. /\ remote' \in [Side -> [Conn -> BOOLEAN]]
          /\ \A e \in Side, x \in Conn : (e # d \/ x # c) => remote'[e][x] = remote[e][x]
      BY <1>1, <2>3 DEF TypeOK
    <3>3. CASE Mints(d, c, local[d][c], TRUE) /\ Store(d, c)
      <4>1. dialer[c] # d /\ local'[d][c]
        BY <1>1, <3>3, PeerFacts DEF Mints, Responder
      <4> QED BY <1>1, <1>4, <1>6, <2>2, <3>1, <3>2, <3>3, <4>1, StoreStep
    <3>4. CASE UNCHANGED <<stage, trust, raced>>
      BY <1>1, <1>4, <1>6, <2>2, <3>1, <3>2, <3>4, WaitStep
    <3> QED BY <2>3, <3>3, <3>4
  <2>4. CASE Head(events[d][c]) = "paired" /\ local[d][c] /\ Store(d, c) /\ UNCHANGED remote
    <3>1. local'[d][c] /\ local'[Peer(d)][c] /\ promoted[Peer(d)][c]
      BY <1>1, <1>3, <2>4 DEF True
    <3>2. /\ remote' \in [Side -> [Conn -> BOOLEAN]]
          /\ \A e \in Side, x \in Conn : (e # d \/ x # c) => remote'[e][x] = remote[e][x]
      BY <1>1, <2>4 DEF TypeOK
    <3> QED BY <1>1, <1>4, <1>6, <2>2, <2>4, <3>1, <3>2, StoreStep
  <2>5. \/ /\ Head(events[d][c]) = "accept"
           /\ remote' = [remote EXCEPT ![d][c] = TRUE]
           /\ IF Mints(d, c, local[d][c], TRUE) THEN Store(d, c)
              ELSE UNCHANGED <<stage, trust, raced>>
        \/ Head(events[d][c]) = "paired" /\ local[d][c] /\ Store(d, c) /\ UNCHANGED remote
        \/ \E notify \in BOOLEAN : Fail(d, c, notify) /\ UNCHANGED remote
    BY DEF TakeEvent
  <2> QED BY <1>5, <2>3, <2>4, <2>5
<1>7. UNCHANGED <<sock, wire>> \/ \E notify \in BOOLEAN : Fail(d, c, notify) /\ UNCHANGED remote
  BY DEF TakeEvent
<1> QED BY <1>5, <1>6, <1>7

LEMMA GivesUpStep ==
  ASSUME IInv, NEW d \in Side, NEW c \in Conn,
         Timeout(d, c) \/ SocketDied(d, c) \/ StoreFails(d, c)
  PROVE  IInv'
<1>1. TypeOK /\ ChannelInv /\ stage[d][c] \in {"await", "storing"}
      /\ UNCHANGED <<driverUnchanged, local, remote, decision, events>>
      /\ \E notify \in BOOLEAN : Fail(d, c, notify)
  BY DEF IInv, Timeout, SocketDied, StoreFails
<1>2. /\ events' \in Channels(Hearable, Event)
      /\ decision' \in [Side -> [Conn -> Click]]
      /\ local' \in [Side -> [Conn -> BOOLEAN]]
      /\ \A e \in Side, x \in Conn : local[e][x] => local'[e][x]
  BY <1>1 DEF TypeOK, ChannelInv
<1> QED BY <1>1, <1>2, FailStep

(* The socket is authenticated, so more may be said on it from here on;    *)
(* what is said at once is the end of the live one it replaces.            *)
LEMMA PromoteStep ==
  ASSUME IInv, NEW d \in Side, NEW c \in Conn, Promote(d, c)
  PROVE  IInv'
<1> USE DEF forgetVars
<1> DEFINE s == IF Responder(d, c) THEN "registered" ELSE "announced"
<1>1. TypeOK /\ ChannelInv /\ SetStage(d, c, s) /\ stage[d][c] = "storing"
      /\ live' = [live EXCEPT ![d] = c]
      /\ promoted' = [promoted EXCEPT ![d][c] = TRUE]
      /\ UNCHANGED <<dialer, pending, starting, raced, local, remote, decision, events, trust,
                     result, shown, forgetVars, signalled>>
  BY DEF IInv, Promote
<1>2. DriverOK(d, c) /\ StageOK(d, c) /\ TrailOK(d, c)
  BY DEF IInv, AttemptInv
<1>3. s \in {"registered", "announced"} /\ s \in Stage
  BY DEF Stage
<1> HIDE DEF s
<1>4. /\ stage' \in [Side -> [Conn -> Stage]]
      /\ stage'[d][c] = s
      /\ \A e \in Side, x \in Conn : (e # d \/ x # c) => stage'[e][x] = stage[e][x]
  BY <1>1, <1>3, StageSet
<1>5. /\ promoted' \in [Side -> [Conn -> BOOLEAN]] /\ promoted'[d][c]
      /\ \A e \in Side, x \in Conn : promoted[e][x] => promoted'[e][x]
      /\ live' \in [Side -> Conn \cup {None}]
  BY <1>1 DEF TypeOK
<1>6. /\ wire' \in Channels(Sayable, Frame)
      /\ sock' \in [Side -> [Conn -> {"none", "open", "closed"}]]
  <2>1. CASE live[d] \notin {None, c}
    <3>1. live[d] \in Conn /\ Close(d, live[d], <<>>)
      BY <1>1, <2>1 DEF Promote, TypeOK
    <3> QED BY <1>1, <3>1, EmptySeq, CloseKeeps DEF ChannelInv
  <2>2. CASE live[d] \in {None, c}
    BY <1>1, <2>2 DEF Promote, ChannelInv, TypeOK
  <2> QED BY <2>1, <2>2
<1>7. ChannelInv' /\ wire' \in [Side -> [Conn -> Seq(Frame)]]
  <2>1. \A e \in Side, x \in Conn : /\ Sayable[e][x] \subseteq Sayable'[e][x]
                                    /\ Hearable[e][x] \subseteq Hearable'[e][x]
    BY <1>1, <1>5, SayableGrows
  <2>2. wire' \in Channels(Sayable', Frame) /\ events' \in Channels(Hearable', Event)
    BY <1>1, <1>6, <2>1, ChannelsGrow DEF ChannelInv
  <2> QED BY <2>2 DEF ChannelInv, Channels
<1>8. TypeOK'
  BY <1>1, <1>4, <1>5, <1>6, <1>7 DEF TypeOK
<1>9. DriverOK(d, c)' /\ StageOK(d, c)' /\ TrailOK(d, c)'
  BY <1>1, <1>2, <1>3, <1>4, <1>5 DEF DriverOK, StageOK, TrailOK
<1>10. AttemptInv'
  <2>1. UNCHANGED <<dialer, pending, trust, local, remote, result>>
    BY <1>1
  <2>2. \A e \in Side, x \in Conn : (e # d \/ x # c) =>
          /\ stage'[e][x] = stage[e][x]
          /\ result'[e][x] = result[e][x]
          /\ remote'[e][x] = remote[e][x]
    BY <1>4, <2>1
  <2>3. /\ \A e \in Side : e # d => pending'[e] = pending[e] /\ trust'[e] = trust[e]
        /\ pending'[d] = pending[d] /\ trust'[d] = trust[d]
    BY <2>1
  <2>4. \A e \in Side, x \in Conn : /\ local[e][x] => local'[e][x]
                                    /\ promoted[e][x] => promoted'[e][x]
    BY <1>5, <2>1
  <2> QED BY <1>9, <2>1, <2>2, <2>3, <2>4, AttemptStep
<1> QED BY <1>7, <1>8, <1>10 DEF IInv

(* The token may be sent: this end is authenticated and both accepted. *)
LEMMA AnnounceStep ==
  ASSUME IInv, NEW d \in Side, NEW c \in Conn, Announce(d, c)
  PROVE  IInv'
<1> USE DEF forgetVars
<1>1. TypeOK /\ ChannelInv /\ SetStage(d, c, "announced") /\ stage[d][c] = "registered"
      /\ Peer(d) \in Side /\ Peer(Peer(d)) = d /\ Send(d, c, "paired")
      /\ UNCHANGED <<dialer, pending, starting, raced, local, remote, decision, events, sock,
                     promoted, live, trust, result, shown, forgetVars, signalled>>
  BY PeerFacts DEF IInv, Announce
<1>2. DriverOK(d, c) /\ StageOK(d, c) /\ TrailOK(d, c)
  BY DEF IInv, AttemptInv
<1>3. /\ stage' \in [Side -> [Conn -> Stage]]
      /\ stage'[d][c] = "announced"
      /\ \A e \in Side, x \in Conn : (e # d \/ x # c) => stage'[e][x] = stage[e][x]
  BY <1>1, StageSet DEF Stage
<1>4. wire' \in Channels(Sayable, Frame)
  <2>1. local[d][c] /\ local[Peer(d)][c] /\ promoted[d][c]
    BY <1>1, <1>2 DEF StageOK, TrailOK
  <2>2. "paired" \in Sayable[Peer(d)][c] /\ Sayable[Peer(d)][c] \subseteq Frame
    BY <1>1, <2>1, Neutral DEF True, Frame
  <2>3. <<"paired">> \in Seq(Sayable[Peer(d)][c])
    BY <2>2, Singleton
  <2> QED BY <1>1, <2>2, <2>3, DeliverKeeps DEF Send, ChannelInv
<1>5. ChannelInv' /\ wire' \in [Side -> [Conn -> Seq(Frame)]]
  BY <1>1, <1>4, Carried DEF ChannelInv
<1>6. TypeOK'
  BY <1>1, <1>3, <1>5 DEF TypeOK
<1>7. DriverOK(d, c)' /\ StageOK(d, c)' /\ TrailOK(d, c)'
  BY <1>1, <1>2, <1>3 DEF DriverOK, StageOK, TrailOK
<1>8. AttemptInv'
  BY <1>1, <1>3, <1>7, AttemptStep
<1> QED BY <1>5, <1>6, <1>8 DEF IInv

LEMMA ReportStep ==
  ASSUME IInv, NEW d \in Side, NEW c \in Conn, Report(d, c)
  PROVE  IInv'
<1> USE DEF forgetVars
<1>1. TypeOK /\ ChannelInv /\ stage[d][c] \in {"announced", "failing", "aborting"}
      /\ SetStage(d, c, IF stage[d][c] = "aborting" THEN "ended" ELSE "reported")
      /\ Tell(d, c, IF stage[d][c] = "announced" THEN "paired" ELSE "failed")
      /\ UNCHANGED <<dialer, pending, starting, raced, local, remote, decision, events, wire, sock,
                     promoted, live, trust, shown, forgetVars, signalled>>
  BY DEF IInv, Report
<1>2. DriverOK(d, c) /\ StageOK(d, c) /\ TrailOK(d, c)
  BY DEF IInv, AttemptInv
<1>3. /\ stage' \in [Side -> [Conn -> Stage]]
      /\ stage'[d][c] = IF stage[d][c] = "aborting" THEN "ended" ELSE "reported"
      /\ \A e \in Side, x \in Conn : (e # d \/ x # c) => stage'[e][x] = stage[e][x]
  BY <1>1, StageSet DEF Stage
<1>4. /\ result' \in [Side -> [Conn -> {"none", "paired", "failed", "twice"}]]
      /\ result'[d][c] = IF stage[d][c] = "announced" THEN "paired" ELSE "failed"
      /\ \A e \in Side, x \in Conn : (e # d \/ x # c) => result'[e][x] = result[e][x]
  BY <1>1, <1>2 DEF Tell, TypeOK, StageOK
<1>5. ChannelInv'
  BY <1>1, Carried DEF ChannelInv
<1>6. TypeOK'
  BY <1>1, <1>3, <1>4 DEF TypeOK
<1>7. DriverOK(d, c)' /\ StageOK(d, c)' /\ TrailOK(d, c)'
  BY <1>1, <1>2, <1>3, <1>4 DEF DriverOK, StageOK, TrailOK
<1>8. AttemptInv'
  BY <1>1, <1>3, <1>4, <1>7, AttemptStep
<1> QED BY <1>5, <1>6, <1>8 DEF IInv

LEMMA EndPairingStep ==
  ASSUME IInv, NEW d \in Side, NEW c \in Conn, EndPairing(d, c)
  PROVE  IInv'
<1> USE DEF forgetVars
<1>1. TypeOK /\ ChannelInv /\ Unregister(d, c) /\ SetStage(d, c, "ended")
      /\ stage[d][c] = "reported"
      /\ UNCHANGED <<dialer, starting, raced, local, wire, sock, promoted,
                     live, trust, result, shown, forgetVars, signalled>>
  BY DEF IInv, EndPairing
<1>2. /\ stage' \in [Side -> [Conn -> Stage]]
      /\ stage'[d][c] = "ended"
      /\ \A e \in Side, x \in Conn : (e # d \/ x # c) => stage'[e][x] = stage[e][x]
  BY <1>1, StageSet DEF Stage
<1>3. /\ pending' \in [Side -> Conn \cup {None}]
      /\ \A e \in Side : e # d => pending'[e] = pending[e]
      /\ pending'[d] = pending[d] \/ pending[d] = c
      /\ events' \in Channels(Hearable, Event)
      /\ decision' \in [Side -> [Conn -> Click]]
      /\ remote' \in [Side -> [Conn -> BOOLEAN]]
      /\ remote'[d][c] = FALSE
      /\ \A e \in Side, x \in Conn : (e # d \/ x # c) => remote'[e][x] = remote[e][x]
  BY <1>1, UnregisterFacts
<1>4. ChannelInv' /\ events' \in [Side -> [Conn -> Seq(Event)]]
  BY <1>1, <1>3, Carried DEF ChannelInv
<1>5. TypeOK'
  BY <1>1, <1>2, <1>3, <1>4 DEF TypeOK
<1>6. DriverOK(d, c)' /\ StageOK(d, c)' /\ TrailOK(d, c)'
  <2>1. StageOK(d, c) /\ TrailOK(d, c)
    BY DEF IInv, AttemptInv
  <2> QED BY <2>1, <1>1, <1>2, <1>3 DEF DriverOK, StageOK, TrailOK
<1>7. AttemptInv'
  BY <1>1, <1>2, <1>3, <1>6, AttemptStep
<1> QED BY <1>4, <1>5, <1>7 DEF IInv

-----------------------------------------------------------------------------
LEMMA InitIInv == Init => IInv
<1> SUFFICES ASSUME Init PROVE IInv
  OBVIOUS
<1>1. wire \in [Side -> [Conn -> Seq(Frame)]] /\ events \in [Side -> [Conn -> Seq(Event)]]
  BY EmptySeq DEF Init
<1>2. TypeOK
  <2>1. forgets \in 0..MaxForgets
    BY ConstantsApart DEF Init
  <2>2. forget \in [Side -> {"idle", "remove", "close"}]
    BY DEF Init
  <2>3. stage \in [Side -> [Conn -> Stage]]
    BY DEF Init, Stage
  <2> QED BY <1>1, <2>1, <2>2, <2>3 DEF Init, TypeOK, Click, NoClick
<1>3. ChannelInv
  BY <1>1, EmptySeq DEF Init, ChannelInv, Channels
<1>4. AttemptInv
  BY ConstantsApart DEF Init, AttemptInv, DriverOK, StageOK, TrailOK
<1> QED BY <1>2, <1>3, <1>4 DEF IInv

LEMMA StutterIInv == IInv /\ UNCHANGED vars => IInv'
<1> SUFFICES ASSUME IInv, UNCHANGED vars PROVE IInv'
  OBVIOUS
<1> USE DEF vars, forgetVars
<1>1. TypeOK'
  BY DEF IInv, TypeOK
<1>2. ChannelInv'
  BY Carried DEF IInv, ChannelInv
<1>3. AttemptInv'
  BY QuietStep
<1> QED BY <1>1, <1>2, <1>3 DEF IInv

LEMMA NextIInv == IInv /\ [Next]_vars => IInv'
<1> SUFFICES ASSUME IInv, [Next]_vars PROVE IInv'
  OBVIOUS
<1>1. ASSUME NEW d \in Side, NEW c \in Conn, Driver(d, c) PROVE IInv'
  BY <1>1, TakeRejectStep, TakeAcceptStep, TakeEventStep, GivesUpStep, PromoteStep,
     AnnounceStep, ReportStep, EndPairingStep DEF Driver
<1>2. ASSUME NEW d \in Side, NEW c \in Conn, Outbound(d, c) PROVE IInv'
  BY <1>2, DialStep, RequiredStep, AbortStep DEF Outbound, NoAnswer, Refused
<1>3. ASSUME NEW d \in Side, NEW c \in Conn, Inbound(d, c) PROVE IInv'
  BY <1>3, OfferStep, RefuseStep DEF Inbound
<1>4. ASSUME NEW d \in Side, NEW c \in Conn, Reader(d, c) PROVE IInv'
  BY <1>4, ReadPairingFrameStep, ReadSignalStep, ReadEndsStep DEF Reader
<1>5. ASSUME NEW d \in Side, Human(d) PROVE IInv'
  BY <1>5, StartCheckStep, StartBeginStep, ConfirmStep, ForgetCancelStep, ForgetRemoveStep,
     ForgetCloseStep DEF Human
<1> QED BY <1>1, <1>2, <1>3, <1>4, <1>5, SendSignalStep, LinkBreaksStep, StutterIInv DEF Next

LEMMA IInvAlways == Spec => []IInv
BY InitIInv, NextIInv, PTL DEF Spec

(* Every variable keeps its type; a driver's queue, for one, only ever     *)
(* holds the four events runPairing knows (pairing.go:16-35).              *)
THEOREM TypeCorrect == Spec => []TypeOK
<1>1. IInv => TypeOK
  BY DEF IInv
<1> QED BY <1>1, IInvAlways, PTL

(* However clicks, frames, deadlines and Forgets interleave over any       *)
(* number of connections, no daemon stores a token unless the drivers at   *)
(* both ends have taken an accept for that attempt (pairing.go:208-258).   *)
THEOREM BothHumans == Spec => []BothHumansAccepted
<1>1. IInv => BothHumansAccepted
  BY DEF IInv, AttemptInv, TrailOK, BothHumansAccepted
<1> QED BY <1>1, IInvAlways, PTL

(* A device never has two drivers (beginPairing, pairing.go:100-103).      *)
THEOREM OneDriver == Spec => []SingleDriver
<1>1. IInv => SingleDriver
  BY DEF IInv, AttemptInv, DriverOK, SingleDriver
<1> QED BY <1>1, IInvAlways, PTL

(* Each attempt is reported once, and "paired" only when both humans took  *)
(* it (peer.go:130).                                                       *)
THEOREM OneResult == Spec => []OneResultPerAttempt
<1>1. IInv => OneResultPerAttempt
  BY DEF IInv, AttemptInv, StageOK, TrailOK, OneResultPerAttempt
<1> QED BY <1>1, IInvAlways, PTL

(* The dialer holds a token only behind a responder that has stored it     *)
(* first (pairing.go:275-302).                                             *)
THEOREM ResponderFirst == Spec => []DialerNeverPairedAlone
<1>1. IInv => DialerNeverPairedAlone
  BY DEF IInv, AttemptInv, TrailOK, DialerNeverPairedAlone
<1> QED BY <1>1, IInvAlways, PTL
-----------------------------------------------------------------------------
(* Which token is stored.  The argument needs little of the state, so the  *)
(* steps are first reduced to what they do to it.                          *)

QuietFrame == Frame \ {"required"}

(* No code is on its way to d. *)
Silent(d, c) == wire[d][c] \in Seq(QuietFrame)

Active(d, c) == stage[d][c] \in Running

(* f changes nowhere but for d's end of c. *)
Elsewhere(f, g, d, c) == \A e \in Side, x \in Conn : e # d \/ x # c => g[e][x] = f[e][x]

MStay ==
  /\ UNCHANGED <<dialer, stage, local, promoted, trust, raced>>
  /\ \A e \in Side : starting'[e] => starting[e] \/ trust[e] = None

MForget(d) ==
  /\ UNCHANGED <<dialer, stage, local, promoted, raced, starting>>
  /\ trust'[d] = None /\ \A e \in Side : e # d => trust'[e] = trust[e]

MBegin(d, c) ==
  /\ starting[d] /\ ~starting'[d] /\ \A e \in Side : e # d => starting'[e] = starting[e]
  /\ dialer[c] = None /\ dialer'[c] = d /\ \A x \in Conn : x # c => dialer'[x] = dialer[x]
  /\ stage'[d][c] = "dialing" /\ Elsewhere(stage, stage', d, c)
  /\ pending[d] = None
  /\ UNCHANGED <<local, promoted, trust, raced>>

(* The ways of an attempt that shows no code and stores nothing. *)
Goes(s, t) ==
  \/ s = "dialing" /\ t = "hello"
  \/ s \in {"dialing", "hello"} /\ t = "aborting"
  \/ s \in {"none", "aborting", "reported"} /\ t = "ended"
  \/ s = "await" /\ t = "failing"
  \/ s = "storing" /\ t = "failing"
  \/ s = "registered" /\ t = "announced"
  \/ s \in {"announced", "failing"} /\ t = "reported"

MGo(d, c) ==
  /\ Goes(stage[d][c], stage'[d][c]) /\ Elsewhere(stage, stage', d, c)
  /\ UNCHANGED <<dialer, local, promoted, trust, raced, starting>>

(* The code is shown: it was offered to d, or d offers it. *)
MCode(d, c) ==
  /\ \/ stage[d][c] = "hello" /\ ~Silent(d, c)
     \/ stage[d][c] = "none" /\ dialer[c] = Peer(d) /\ pending[d] = None
  /\ stage'[d][c] = "await" /\ Elsewhere(stage, stage', d, c)
  /\ UNCHANGED <<dialer, local, promoted, trust, raced, starting>>

MAccept(d, c) ==
  /\ stage[d][c] = "await" /\ stage'[d][c] \in {"await", "failing"}
  /\ Elsewhere(stage, stage', d, c)
  /\ local'[d][c] /\ Elsewhere(local, local', d, c)
  /\ UNCHANGED <<dialer, promoted, trust, raced, starting>>

MStore(d, c) ==
  /\ stage[d][c] = "await" /\ stage'[d][c] = "storing" /\ Elsewhere(stage, stage', d, c)
  /\ trust'[d] = c /\ \A e \in Side : e # d => trust'[e] = trust[e]
  /\ raced' = (raced \/ starting[d])
  /\ local'[d][c] /\ Elsewhere(local, local', d, c)
  /\ local[Peer(d)][c] /\ (dialer[c] = d => promoted[Peer(d)][c])
  /\ UNCHANGED <<dialer, promoted, starting>>

MPromote(d, c) ==
  /\ stage[d][c] = "storing" /\ stage'[d][c] \in {"registered", "announced"}
  /\ Elsewhere(stage, stage', d, c)
  /\ promoted'[d][c] /\ Elsewhere(promoted, promoted', d, c)
  /\ UNCHANGED <<dialer, local, trust, raced, starting>>

(* Only an offer puts a code on a wire. *)
MWire ==
  \A d \in Side, c \in Conn :
    Silent(d, c) =>
      \/ (Silent(d, c))'
      \/ stage[Peer(d)][c] = "none" /\ stage'[Peer(d)][c] = "await" /\ pending[Peer(d)] = None

Move ==
  \/ MStay
  \/ \E d \in Side : MForget(d)
  \/ \E d \in Side, c \in Conn :
       MBegin(d, c) \/ MGo(d, c) \/ MCode(d, c) \/ MAccept(d, c) \/ MStore(d, c) \/ MPromote(d, c)

(* The channels whose every frame but the code may be sent. *)
Speaks(S) == \A d \in Side, c \in Conn : QuietFrame \subseteq S[d][c] /\ S[d][c] \subseteq Frame

LEMMA QuietFrames ==
  /\ {"hello", "accept", "paired", "reject", "signal", "eof"} = QuietFrame
  /\ <<>> \in Seq(QuietFrame)
  /\ \A f \in QuietFrame : <<f>> \in Seq(QuietFrame)
<1>1. {"hello", "accept", "paired", "reject", "signal", "eof"} = QuietFrame
  BY DEF QuietFrame, Frame
<1>2. \A f \in QuietFrame : <<f>> \in Seq(QuietFrame)
  BY Singleton
<1> QED BY <1>1, <1>2, EmptySeq

LEMMA SpeakDeliver ==
  ASSUME NEW S, Speaks(S), NEW w \in Channels(S, Frame), NEW d \in Side, NEW c \in Conn,
         NEW s \in Seq(QuietFrame)
  PROVE  Deliver(w, d, c, s) \in Channels(S, Frame)
<1>1. Peer(d) \in Side
  BY PeerFacts
<1>2. QuietFrame \subseteq S[Peer(d)][c] /\ S[Peer(d)][c] \subseteq Frame
  BY <1>1 DEF Speaks
<1>3. s \in Seq(S[Peer(d)][c])
  BY <1>2, SeqMonotonic
<1> QED BY <1>2, <1>3, DeliverKeeps

LEMMA SpeakClose ==
  ASSUME NEW S, Speaks(S), wire \in Channels(S, Frame), NEW d \in Side, NEW c \in Conn,
         NEW s \in Seq(QuietFrame), Close(d, c, s)
  PROVE  wire' \in Channels(S, Frame)
<1>1. s \o <<"eof">> \in Seq(QuietFrame)
  <2>1. <<"eof">> \in Seq(QuietFrame)
    BY QuietFrames
  <2> QED BY <2>1, ConcatProperties
<1>2. Deliver(wire, d, c, s \o <<"eof">>) \in Channels(S, Frame)
  BY <1>1, SpeakDeliver
<1>3. <<>> \in Seq(S[d][c]) /\ S[d][c] \subseteq Frame
  BY EmptySeq DEF Speaks
<1> QED BY <1>2, <1>3, SetChannel DEF Close

LEMMA SpeakTail ==
  ASSUME NEW S, Speaks(S), wire \in Channels(S, Frame), NEW d \in Side, NEW c \in Conn,
         wire[d][c] # <<>>, wire' = [wire EXCEPT ![d][c] = Tail(@)]
  PROVE  wire' \in Channels(S, Frame)
BY TailChannel DEF Speaks

(* Every step but an offer keeps to such channels. *)
LEMMA DriverSpeaks ==
  ASSUME IInv, NEW S, Speaks(S), wire \in Channels(S, Frame),
         NEW d \in Side, NEW c \in Conn, Driver(d, c)
  PROVE  wire' \in Channels(S, Frame)
<1>0. <<"accept">> \in Seq(QuietFrame) /\ <<"paired">> \in Seq(QuietFrame)
      /\ <<"eof">> \in Seq(QuietFrame) /\ <<"reject">> \in Seq(QuietFrame)
      /\ <<>> \in Seq(QuietFrame)
  BY QuietFrames
<1>1. ASSUME NEW notify \in BOOLEAN, Fail(d, c, notify) PROVE wire' \in Channels(S, Frame)
  <2>1. CASE notify
    BY <1>0, <1>1, <2>1, SpeakClose DEF Fail
  <2>2. CASE ~notify
    BY <1>0, <1>1, <2>2, SpeakClose DEF Fail
  <2> QED BY <2>1, <2>2
<1>2. CASE TakeReject(d, c) \/ Timeout(d, c) \/ SocketDied(d, c) \/ StoreFails(d, c)
  BY <1>1, <1>2 DEF TakeReject, Timeout, SocketDied, StoreFails
<1>3. CASE TakeAccept(d, c)
  <2>1. CASE Send(d, c, "accept")
    BY <1>0, <2>1, SpeakDeliver DEF Send
  <2>2. CASE UNCHANGED wire
    BY <2>2
  <2> QED BY <1>1, <1>3, <2>1, <2>2 DEF TakeAccept
<1>4. CASE TakeEvent(d, c)
  <2>1. CASE UNCHANGED wire
    BY <2>1
  <2> QED BY <1>1, <1>4, <2>1 DEF TakeEvent
<1>5. CASE Promote(d, c) \/ Announce(d, c)
  <2>1. CASE Announce(d, c)
    BY <1>0, <2>1, SpeakDeliver DEF Announce, Send
  <2>2. CASE Promote(d, c) /\ live[d] \notin {None, c}
    <3>1. live[d] \in Conn /\ Close(d, live[d], <<>>)
      BY <2>2 DEF Promote, IInv, TypeOK
    <3> QED BY <1>0, <3>1, SpeakClose
  <2>3. CASE Promote(d, c) /\ live[d] \in {None, c}
    BY <2>3 DEF Promote
  <2> QED BY <1>5, <2>1, <2>2, <2>3
<1>6. CASE Report(d, c) \/ EndPairing(d, c)
  BY <1>6 DEF Report, EndPairing
<1> QED BY <1>2, <1>3, <1>4, <1>5, <1>6 DEF Driver

LEMMA NextSpeaks ==
  ASSUME IInv, NEW S, Speaks(S), wire \in Channels(S, Frame), [Next]_vars,
         ~\E d \in Side, c \in Conn : Offer(d, c)
  PROVE  wire' \in Channels(S, Frame)
<1>0. <<"signal">> \in Seq(QuietFrame) /\ <<"reject">> \in Seq(QuietFrame)
      /\ <<"hello">> \in Seq(QuietFrame) /\ <<"eof">> \in Seq(QuietFrame)
      /\ <<>> \in Seq(QuietFrame)
  BY QuietFrames
<1>1. ASSUME NEW d \in Side, NEW c \in Conn, Outbound(d, c) PROVE wire' \in Channels(S, Frame)
  <2>1. CASE Dial(d, c)
    <3>1. Peer(d) \in Side
      BY PeerFacts
    <3>2. <<"hello">> \in Seq(S[Peer(d)][c]) /\ S[Peer(d)][c] \subseteq Frame
      BY <1>0, <3>1, SeqMonotonic DEF Speaks
    <3> QED BY <2>1, <3>1, <3>2, SetChannel DEF Dial
  <2>2. CASE NoAnswer(d, c) \/ Refused(d, c)
    BY <1>0, <2>2, SpeakClose DEF NoAnswer, Refused, Abort
  <2>3. CASE Required(d, c)
    BY <2>3, SpeakTail DEF Required
  <2> QED BY <1>1, <2>1, <2>2, <2>3 DEF Outbound
<1>2. ASSUME NEW d \in Side, NEW c \in Conn, Refuse(d, c) PROVE wire' \in Channels(S, Frame)
  BY <1>0, <1>2, SpeakClose DEF Refuse
<1>3. ASSUME NEW d \in Side, NEW c \in Conn, Reader(d, c) PROVE wire' \in Channels(S, Frame)
  <2>1. CASE ReadPairingFrame(d, c) \/ ReadSignal(d, c)
    BY <2>1, SpeakTail DEF ReadPairingFrame, ReadSignal, Reading
  <2>2. CASE ReadEnds(d, c)
    BY <1>0, <2>2, SpeakClose DEF ReadEnds
  <2> QED BY <1>3, <2>1, <2>2 DEF Reader
<1>4. ASSUME NEW d \in Side, NEW c \in Conn, SendSignal(d, c) PROVE wire' \in Channels(S, Frame)
  BY <1>0, <1>4, SpeakDeliver DEF SendSignal, Send
<1>5. ASSUME NEW d \in Side, Human(d) PROVE wire' \in Channels(S, Frame)
  <2>1. CASE ForgetClose(d)
    <3>1. CASE live[d] = None
      BY <2>1, <3>1 DEF ForgetClose
    <3>2. CASE live[d] # None
      <4>1. live[d] \in Conn
        BY <3>2 DEF IInv, TypeOK
      <4> QED BY <1>0, <2>1, <3>2, <4>1, SpeakClose DEF ForgetClose
    <3> QED BY <3>1, <3>2
  <2>2. CASE UNCHANGED wire
    BY <2>2
  <2> QED BY <1>5, <2>1, <2>2 DEF Human, StartCheck, StartBegin, Confirm, ForgetCancel, ForgetRemove
<1>6. ASSUME NEW c \in Conn, LinkBreaks(c) PROVE wire' \in Channels(S, Frame)
  <2>1. \A d \in Side : <<"eof">> \in Seq(S[d][c]) /\ <<"eof">> \in Seq(Frame)
    BY Singleton, QuietFrames DEF Speaks, Frame
  <2>2. wire' \in [Side -> [Conn -> Seq(Frame)]]
    BY <1>6, <2>1 DEF LinkBreaks, Channels
  <2>3. \A d \in Side, x \in Conn :
          wire'[d][x] = wire[d][x] \/ (x = c /\ wire'[d][x] = <<"eof">>)
    BY <1>6 DEF LinkBreaks, Channels
  <2>4. \A d \in Side, x \in Conn : wire[d][x] \in Seq(S[d][x])
    BY DEF Channels
  <2>5. \A d \in Side, x \in Conn : wire'[d][x] \in Seq(S[d][x])
    BY <2>1, <2>3, <2>4
  <2> QED BY <2>2, <2>5 DEF Channels
<1>7. CASE UNCHANGED vars
  BY <1>7 DEF vars
<1> QED BY <1>1, <1>2, <1>3, <1>4, <1>5, <1>6, <1>7, DriverSpeaks DEF Next, Inbound

LEMMA OfferWire ==
  ASSUME IInv, NEW e \in Side, NEW x \in Conn, Offer(e, x)
  PROVE  MWire
<1>1. /\ stage[e][x] = "none" /\ pending[e] = None /\ stage'[e][x] = "await"
      /\ wire[e][x] # <<>> /\ Peer(e) \in Side /\ Peer(Peer(e)) = e
      /\ wire' = [Deliver(wire, e, x, <<"required">>) EXCEPT ![e][x] = Tail(@)]
  BY PeerFacts DEF Offer, SetStage, IInv, TypeOK
<1>2. wire \in [Side -> [Conn -> Seq(Frame)]]
  BY DEF IInv, TypeOK
<1>3. \A d \in Side, c \in Conn : (d # Peer(e) \/ c # x) /\ (d # e \/ c # x) => wire'[d][c] = wire[d][c]
  BY <1>1, <1>2 DEF Deliver
<1>4. wire'[e][x] = Tail(wire[e][x])
  BY <1>1, <1>2, PeerFacts DEF Deliver
<1>5. wire[e][x] \in Seq(QuietFrame) => Tail(wire[e][x]) \in Seq(QuietFrame)
  BY <1>1, HeadTailProperties
<1> SUFFICES ASSUME NEW d \in Side, NEW c \in Conn, Silent(d, c), ~(d = Peer(e) /\ c = x)
             PROVE  (Silent(d, c))'
  BY <1>1 DEF MWire
<1> QED BY <1>3, <1>4, <1>5 DEF Silent

LEMMA WireMoves == IInv /\ [Next]_vars => MWire
<1> SUFFICES ASSUME IInv, [Next]_vars, ~\E d \in Side, c \in Conn : Offer(d, c) PROVE MWire
  BY OfferWire
<1>0. PICK S : S = [d \in Side |-> [c \in Conn |-> IF Silent(d, c) THEN QuietFrame ELSE Frame]]
  OBVIOUS
<1>1. Speaks(S)
  BY <1>0 DEF Speaks, QuietFrame
<1>2. wire \in Channels(S, Frame)
  BY <1>0 DEF IInv, TypeOK, Channels, Silent
<1>3. wire' \in Channels(S, Frame)
  BY <1>1, <1>2, NextSpeaks
<1>4. ASSUME NEW d \in Side, NEW c \in Conn, Silent(d, c) PROVE (Silent(d, c))'
  <2>1. S[d][c] = QuietFrame
    BY <1>0, <1>4
  <2> QED BY <1>3, <2>1 DEF Channels, Silent
<1> QED BY <1>4 DEF MWire
LEMMA StageMoves ==
  ASSUME TypeOK, NEW d \in Side, NEW c \in Conn, NEW s \in Stage, SetStage(d, c, s)
  PROVE  stage'[d][c] = s /\ Elsewhere(stage, stage', d, c)
BY StageSet DEF Elsewhere

LEMMA DriverMoves ==
  ASSUME IInv, NEW d \in Side, NEW c \in Conn, Driver(d, c)
  PROVE  Move
<1>0. TypeOK /\ TrailOK(d, c) /\ StageOK(d, c)
      /\ {"failing", "storing", "registered", "announced", "reported", "ended", "await"}
           \subseteq Stage
  BY DEF IInv, AttemptInv, Stage
<1>1. ASSUME NEW notify \in BOOLEAN, Fail(d, c, notify), stage[d][c] = "await",
             UNCHANGED <<driverUnchanged, local>>
      PROVE  MGo(d, c)
  <2>1. stage'[d][c] = "failing" /\ Elsewhere(stage, stage', d, c) /\ UNCHANGED <<trust, raced>>
    BY <1>0, <1>1, StageMoves DEF Fail
  <2> QED BY <1>1, <2>1 DEF MGo, Goes, driverUnchanged, Elsewhere
<1>2. CASE TakeReject(d, c)
  BY <1>1, <1>2 DEF TakeReject, Move
<1>3. CASE Timeout(d, c) \/ SocketDied(d, c)
  BY <1>1, <1>3 DEF Timeout, SocketDied, Move
<1>4. CASE StoreFails(d, c)
  <2>1. stage'[d][c] = "failing" /\ Elsewhere(stage, stage', d, c) /\ UNCHANGED <<trust, raced>>
    BY <1>0, <1>4, StageMoves DEF StoreFails, Fail
  <2>2. MGo(d, c)
    BY <1>4, <2>1 DEF MGo, Goes, driverUnchanged, StoreFails, Elsewhere
  <2> QED BY <2>2 DEF Move
<1>5. CASE TakeAccept(d, c)
  <2>1. /\ stage[d][c] = "await" /\ UNCHANGED <<driverUnchanged, remote, events>>
        /\ local'[d][c] /\ Elsewhere(local, local', d, c)
    BY <1>0, <1>5 DEF TakeAccept, TypeOK, Elsewhere
  <2>2. CASE Store(d, c) /\ Mints(d, c, TRUE, remote[d][c])
    <3>1. local[Peer(d)][c] /\ dialer[c] # d
      BY <1>0, <2>2, PeerFacts DEF Mints, Responder, TrailOK
    <3>2. stage'[d][c] = "storing" /\ Elsewhere(stage, stage', d, c)
      BY <1>0, <2>2, StageMoves DEF Store
    <3>3. MStore(d, c)
      BY <1>0, <2>1, <2>2, <3>1, <3>2 DEF MStore, Store, driverUnchanged, TypeOK
    <3> QED BY <3>3 DEF Move
  <2>3. CASE Fail(d, c, FALSE)
    <3>1. stage'[d][c] = "failing" /\ Elsewhere(stage, stage', d, c) /\ UNCHANGED <<trust, raced>>
      BY <1>0, <2>3, StageMoves DEF Fail
    <3>2. MAccept(d, c)
      BY <2>1, <3>1 DEF MAccept, driverUnchanged
    <3> QED BY <3>2 DEF Move
  <2>4. CASE UNCHANGED <<stage, trust, raced>>
    <3>1. MAccept(d, c)
      BY <2>1, <2>4 DEF MAccept, driverUnchanged, Elsewhere
    <3> QED BY <3>1 DEF Move
  <2> QED BY <1>5, <2>2, <2>3, <2>4 DEF TakeAccept
<1>6. CASE TakeEvent(d, c)
  <2>1. stage[d][c] = "await" /\ events[d][c] # <<>> /\ UNCHANGED <<driverUnchanged, local, decision>>
    BY <1>6 DEF TakeEvent
  <2>2. Head(events[d][c]) \in Hearable[d][c]
    BY <2>1, Neutral, TailChannel DEF IInv, ChannelInv
  <2>3. True(d, c, Head(events[d][c]))
    BY <2>2, Neutral
  <2>4. CASE Store(d, c)
    <3>1. stage'[d][c] = "storing" /\ Elsewhere(stage, stage', d, c)
      BY <1>0, <2>4, StageMoves DEF Store
    <3>2. \/ Head(events[d][c]) = "accept" /\ Mints(d, c, local[d][c], TRUE)
          \/ Head(events[d][c]) = "paired" /\ local[d][c]
      BY <1>0, <1>6, <2>1, <3>1, StageMoves DEF TakeEvent, Fail
    <3>3. local[d][c] /\ local[Peer(d)][c] /\ (dialer[c] = d => promoted[Peer(d)][c])
      BY <2>3, <3>2, PeerFacts DEF True, Mints, Responder
    <3>4. MStore(d, c)
      BY <1>0, <2>1, <2>4, <3>1, <3>3 DEF MStore, Store, driverUnchanged, TypeOK, Elsewhere
    <3> QED BY <3>4 DEF Move
  <2>5. CASE \E notify \in BOOLEAN : Fail(d, c, notify)
    BY <1>1, <2>1, <2>5 DEF Move
  <2>6. CASE UNCHANGED <<stage, trust, raced>>
    <3>1. MStay
      BY <2>1, <2>6 DEF MStay, driverUnchanged
    <3> QED BY <3>1 DEF Move
  <2> QED BY <1>6, <2>4, <2>5, <2>6 DEF TakeEvent
<1>7. CASE Promote(d, c)
  <2>1. /\ stage'[d][c] = IF Responder(d, c) THEN "registered" ELSE "announced"
        /\ Elsewhere(stage, stage', d, c) /\ stage[d][c] = "storing"
    BY <1>0, <1>7, StageMoves DEF Promote
  <2>2. promoted'[d][c] /\ Elsewhere(promoted, promoted', d, c)
    BY <1>0, <1>7 DEF Promote, TypeOK, Elsewhere
  <2>3. MPromote(d, c)
    BY <1>7, <2>1, <2>2 DEF MPromote, Promote
  <2> QED BY <2>3 DEF Move
<1>8. CASE Announce(d, c) \/ Report(d, c)
  <2>1. CASE Announce(d, c)
    <3>1. /\ stage'[d][c] = "announced" /\ Elsewhere(stage, stage', d, c)
          /\ stage[d][c] = "registered"
      BY <1>0, <2>1, StageMoves DEF Announce
    <3>2. MGo(d, c)
      BY <2>1, <3>1 DEF MGo, Goes, Announce
    <3> QED BY <3>2 DEF Move
  <2>2. CASE Report(d, c)
    <3>1. /\ stage'[d][c] = IF stage[d][c] = "aborting" THEN "ended" ELSE "reported"
          /\ Elsewhere(stage, stage', d, c)
          /\ stage[d][c] \in {"announced", "failing", "aborting"}
      BY <1>0, <2>2, StageMoves DEF Report
    <3>2. MGo(d, c)
      BY <2>2, <3>1 DEF MGo, Goes, Report
    <3> QED BY <3>2 DEF Move
  <2> QED BY <1>8, <2>1, <2>2
<1>9. CASE EndPairing(d, c)
  <2>1. stage'[d][c] = "ended" /\ Elsewhere(stage, stage', d, c) /\ stage[d][c] = "reported"
    BY <1>0, <1>9, StageMoves DEF EndPairing
  <2>2. MGo(d, c)
    BY <1>9, <2>1 DEF MGo, Goes, EndPairing, Elsewhere
  <2> QED BY <2>2 DEF Move
<1> QED BY <1>2, <1>3, <1>4, <1>5, <1>6, <1>7, <1>8, <1>9 DEF Driver

LEMMA NextMoves == IInv /\ [Next]_vars => Move
<1> SUFFICES ASSUME IInv, [Next]_vars PROVE Move
  OBVIOUS
<1>0. TypeOK /\ {"dialing", "hello", "aborting", "ended", "await"} \subseteq Stage
  BY DEF IInv, Stage
<1>1. ASSUME NEW d \in Side, NEW c \in Conn, Outbound(d, c) PROVE Move
  <2>1. CASE Dial(d, c)
    <3>1. stage'[d][c] = "hello" /\ Elsewhere(stage, stage', d, c) /\ stage[d][c] = "dialing"
      BY <1>0, <2>1, StageMoves DEF Dial
    <3>2. MGo(d, c)
      BY <2>1, <3>1 DEF MGo, Goes, Dial, Elsewhere
    <3> QED BY <3>2 DEF Move
  <2>2. CASE NoAnswer(d, c) \/ Refused(d, c)
    <3>1. stage'[d][c] = "aborting" /\ Elsewhere(stage, stage', d, c)
          /\ stage[d][c] \in {"dialing", "hello"} /\ Abort(d, c)
      BY <1>0, <2>2, StageMoves DEF NoAnswer, Refused, Abort
    <3>2. MGo(d, c)
      BY <3>1 DEF MGo, Goes, Abort, Elsewhere
    <3> QED BY <3>2 DEF Move
  <2>3. CASE Required(d, c)
    <3>1. stage'[d][c] = "await" /\ Elsewhere(stage, stage', d, c) /\ stage[d][c] = "hello"
      BY <1>0, <2>3, StageMoves DEF Required
    <3>2. ~Silent(d, c)
      <4> SUFFICES ASSUME wire[d][c] \in Seq(QuietFrame) PROVE Head(wire[d][c]) # "required"
        BY <2>3 DEF Required, Silent
      <4> QED BY <2>3, HeadTailProperties DEF Required, QuietFrame
    <3>3. MCode(d, c)
      BY <2>3, <3>1, <3>2 DEF MCode, Required
    <3> QED BY <3>3 DEF Move
  <2> QED BY <1>1, <2>1, <2>2, <2>3 DEF Outbound
<1>2. ASSUME NEW d \in Side, NEW c \in Conn, Inbound(d, c) PROVE Move
  <2>1. CASE Offer(d, c)
    <3>1. stage'[d][c] = "await" /\ Elsewhere(stage, stage', d, c) /\ stage[d][c] = "none"
      BY <1>0, <2>1, StageMoves DEF Offer
    <3>2. MCode(d, c)
      BY <2>1, <3>1 DEF MCode, Offer, Responder
    <3> QED BY <3>2 DEF Move
  <2>2. CASE Refuse(d, c)
    <3>1. stage'[d][c] = "ended" /\ Elsewhere(stage, stage', d, c) /\ stage[d][c] = "none"
      BY <1>0, <2>2, StageMoves DEF Refuse
    <3>2. MGo(d, c)
      BY <2>2, <3>1 DEF MGo, Goes, Refuse, Elsewhere
    <3> QED BY <3>2 DEF Move
  <2> QED BY <1>2, <2>1, <2>2 DEF Inbound
<1>3. ASSUME NEW d \in Side, NEW c \in Conn, Reader(d, c) \/ SendSignal(d, c) PROVE Move
  <2>1. MStay
    BY <1>3 DEF MStay, Reader, ReadPairingFrame, ReadSignal, ReadEnds, SendSignal
  <2> QED BY <2>1 DEF Move
<1>4. ASSUME NEW d \in Side, Human(d) PROVE Move
  <2>1. CASE StartBegin(d)
    <3>0. ~starting'[d] /\ \A e \in Side : e # d => starting'[e] = starting[e]
      BY <1>0, <2>1 DEF StartBegin, TypeOK
    <3>1. CASE UNCHANGED <<dialer, pending, stage>>
      <4>1. MStay
        BY <2>1, <3>0, <3>1 DEF MStay, StartBegin
      <4> QED BY <4>1 DEF Move
    <3>2. ASSUME NEW c \in Conn, pending[d] = None, dialer[c] = None,
                 dialer' = [dialer EXCEPT ![c] = d], SetStage(d, c, "dialing")
          PROVE  Move
      <4>1. stage'[d][c] = "dialing" /\ Elsewhere(stage, stage', d, c)
        BY <1>0, <3>2, StageMoves
      <4>2. dialer'[c] = d /\ \A x \in Conn : x # c => dialer'[x] = dialer[x]
        BY <1>0, <3>2 DEF TypeOK
      <4>3. MBegin(d, c)
        BY <2>1, <3>0, <3>2, <4>1, <4>2 DEF MBegin, StartBegin
      <4> QED BY <4>3 DEF Move
    <3> QED BY <2>1, <3>1, <3>2 DEF StartBegin
  <2>2. CASE ForgetRemove(d)
    <3>1. MForget(d)
      BY <1>0, <2>2 DEF MForget, ForgetRemove, TypeOK
    <3> QED BY <3>1 DEF Move
  <2>3. CASE StartCheck(d)
    <3>1. MStay
      BY <1>0, <2>3 DEF MStay, StartCheck, TypeOK
    <3> QED BY <3>1 DEF Move
  <2>4. CASE ForgetCancel(d) \/ ForgetClose(d)
    <3>1. MStay
      BY <2>4 DEF MStay, ForgetCancel, ForgetClose
    <3> QED BY <3>1 DEF Move
  <2>5. ASSUME NEW click \in {"accept", "reject"}, Confirm(d, click) PROVE Move
    <3>1. MStay
      BY <2>5 DEF MStay, Confirm
    <3> QED BY <3>1 DEF Move
  <2> QED BY <1>4, <2>1, <2>2, <2>3, <2>4, <2>5 DEF Human
<1>5. ASSUME NEW c \in Conn, LinkBreaks(c) PROVE Move
  <2>1. MStay
    BY <1>5 DEF MStay, LinkBreaks
  <2> QED BY <2>1 DEF Move
<1>6. CASE UNCHANGED vars
  <2>1. MStay
    BY <1>6 DEF MStay, vars
  <2> QED BY <2>1 DEF Move
<1> QED BY <1>1, <1>2, <1>3, <1>4, <1>5, <1>6, DriverMoves DEF Next

-----------------------------------------------------------------------------
(* The token invariant: what keeps an old token at one end from meeting a  *)
(* new one at the other.  Its heart is Aloof: once f has accepted c, an    *)
(* end e that still works on c keeps f's next attempt from getting ahead.  *)

(* A connection nobody has opened carries nothing. *)
Unused(d, c) == dialer[c] = None => ~local[d][c] /\ ~promoted[d][c] /\ Silent(d, c)

Dialled(d, c) == stage[d][c] \in {"dialing", "hello"} => dialer[c] = d

Unanswered(d, c) == stage[d][c] \in {"none", "dialing", "hello", "aborting"} => ~local[d][c]

Authentic(d, c) ==
  promoted[d][c] =>
    /\ local[d][c] /\ local[Peer(d)][c]
    /\ stage[d][c] \in {"registered", "announced", "reported", "ended"}

(* As long as the responder has not answered, its dialer shows no code. *)
Unheard(d, c) ==
  stage[Peer(d)][c] = "none" =>
    /\ Silent(d, c)
    /\ dialer[c] = d => stage[d][c] \notin {"await", "storing"} /\ ~local[d][c]

Starts(d) == ~raced /\ starting[d] => trust[d] = None

(* Until it stores, the dialer of an attempt holds no older token, *)
Dials(d, c) ==
  ~raced /\ dialer[c] = d /\ stage[d][c] \in {"dialing", "hello", "await"} => trust[d] = None

(* nor once it has accepted, until its responder has decided, *)
Accepts(d, c) ==
  ~raced /\ dialer[c] = d /\ local[d][c] /\ stage[Peer(d)][c] = "await" => trust[d] = None

(* and a responder that has stored its token keeps it for the dialer. *)
Awaits(d, c) ==
  dialer[c] = d /\ stage[d][c] = "await" /\ promoted[Peer(d)][c] => trust[Peer(d)] \in {None, c}

Stores(d, c) == stage[d][c] = "storing" => trust[d] \in {None, c}

Aloof(e, f, c, x) ==
  local[f][c] /\ Active(e, c) /\ Active(f, x) =>
    IF dialer[x] = f
    THEN /\ stage[f][x] \in {"dialing", "hello"} /\ Silent(f, x)
         /\ stage[e][x] \in {"none", "ended"}
    ELSE ~local[e][x]

PartOK(d, c) ==
  /\ Unused(d, c) /\ Dialled(d, c) /\ Unanswered(d, c) /\ Authentic(d, c) /\ Unheard(d, c)
  /\ Starts(d) /\ Dials(d, c) /\ Accepts(d, c) /\ Awaits(d, c) /\ Stores(d, c)
  /\ \A x \in Conn : x # c => Aloof(d, Peer(d), c, x)

TokenInv ==
  /\ \A d \in Side, c \in Conn : PartOK(d, c)
  /\ TokensAgreeUnlessRaced

LEMMA Opened ==
  ASSUME IInv, Move, NEW c \in Conn
  PROVE  /\ dialer'[c] = None => dialer[c] = None
         /\ dialer[c] # None => dialer'[c] = dialer[c]
<1> USE PeerFacts
<1> QED BY DEF Move, MStay, MForget, MBegin, MGo, MCode, MAccept, MStore, MPromote

(* What each end of an attempt may do, seen from that end. *)
LEMMA StageWays ==
  ASSUME Move, NEW d \in Side, NEW c \in Conn
  PROVE  \/ stage'[d][c] = stage[d][c]
         \/ MBegin(d, c) \/ MGo(d, c) \/ MCode(d, c) \/ MAccept(d, c) \/ MStore(d, c)
         \/ MPromote(d, c)
<1>1. CASE MStay \/ \E e \in Side : MForget(e)
  BY <1>1 DEF MStay, MForget
<1>2. ASSUME NEW e \in Side, NEW x \in Conn, e # d \/ x # c,
             MBegin(e, x) \/ MGo(e, x) \/ MCode(e, x) \/ MAccept(e, x) \/ MStore(e, x)
               \/ MPromote(e, x)
      PROVE  stage'[d][c] = stage[d][c]
  <2>1. Elsewhere(stage, stage', e, x)
    BY <1>2 DEF MBegin, MGo, MCode, MAccept, MStore, MPromote
  <2> QED BY <1>2, <2>1 DEF Elsewhere
<1> QED BY <1>1, <1>2 DEF Move

LEMMA LocalWays ==
  ASSUME Move, NEW d \in Side, NEW c \in Conn
  PROVE  local'[d][c] = local[d][c] \/ MAccept(d, c) \/ MStore(d, c)
<1>1. ASSUME UNCHANGED local PROVE local'[d][c] = local[d][c]
  BY <1>1
<1>2. CASE MStay \/ \E e \in Side : MForget(e)
  BY <1>1, <1>2 DEF MStay, MForget
<1>3. ASSUME NEW e \in Side, NEW x \in Conn,
             MBegin(e, x) \/ MGo(e, x) \/ MCode(e, x) \/ MPromote(e, x)
      PROVE  local'[d][c] = local[d][c]
  BY <1>1, <1>3 DEF MBegin, MGo, MCode, MPromote
<1>4. ASSUME NEW e \in Side, NEW x \in Conn, e # d \/ x # c, MAccept(e, x) \/ MStore(e, x)
      PROVE  local'[d][c] = local[d][c]
  <2>1. Elsewhere(local, local', e, x)
    BY <1>4 DEF MAccept, MStore
  <2> QED BY <1>4, <2>1 DEF Elsewhere
<1> QED BY <1>2, <1>3, <1>4 DEF Move

LEMMA NoLongerRaced ==
  ASSUME TypeOK, Move, ~raced'
  PROVE  ~raced
<1>1. ASSUME UNCHANGED raced PROVE ~raced
  BY <1>1
<1>2. ASSUME NEW d \in Side, NEW c \in Conn, MStore(d, c) PROVE ~raced
  BY <1>2 DEF MStore
<1> QED BY <1>1, <1>2 DEF Move, MStay, MForget, MBegin, MGo, MCode, MAccept, MPromote

LEMMA UnusedStep ==
  ASSUME IInv, IInv', Move, MWire, NEW d \in Side, NEW c \in Conn, PartOK(d, c)
  PROVE  (Unused(d, c))'
<1> SUFFICES ASSUME dialer'[c] = None
             PROVE  ~local'[d][c] /\ ~promoted'[d][c] /\ (Silent(d, c))'
  BY DEF Unused
<1>1. /\ dialer[c] = None /\ stage[d][c] = "none" /\ stage'[d][c] = "none"
      /\ stage'[Peer(d)][c] = "none"
  BY Opened, PeerFacts DEF IInv, AttemptInv, StageOK
<1>2. ~local[d][c] /\ ~promoted[d][c] /\ Silent(d, c)
  BY <1>1 DEF PartOK, Unused
<1>3. (Silent(d, c))'
  BY <1>1, <1>2 DEF MWire
<1>4. ~local'[d][c] /\ ~promoted'[d][c]
  BY <1>1, <1>2 DEF Move, MStay, MForget, MBegin, MGo, MCode, MAccept, MStore, MPromote, Elsewhere
<1> QED BY <1>3, <1>4

LEMMA PlainStep ==
  ASSUME IInv, IInv', Move, NEW d \in Side, NEW c \in Conn, PartOK(d, c)
  PROVE  (Dialled(d, c) /\ Unanswered(d, c))'
<1> USE DEF Dialled, Unanswered
<1> USE DEF Move, MStay, MForget, MBegin, MGo, MCode, MAccept, MStore, MPromote, Elsewhere
<1>1. (Dialled(d, c))'
  BY PeerFacts DEF PartOK, Goes, IInv, AttemptInv, StageOK
<1>2. (Unanswered(d, c))'
  BY PeerFacts DEF PartOK, Goes, IInv, AttemptInv, StageOK, Unused
<1> QED BY <1>1, <1>2

LEMMA AuthenticStep ==
  ASSUME IInv, Move, NEW d \in Side, NEW c \in Conn, PartOK(d, c)
  PROVE  (Authentic(d, c))'
<1>1. stage[d][c] = "storing" => local[d][c] /\ local[Peer(d)][c]
  BY DEF IInv, AttemptInv, TrailOK
<1> QED BY <1>1, PeerFacts DEF PartOK, Authentic, Goes, IInv, AttemptInv, StageOK, Unused,
      Move, MStay, MForget, MBegin, MGo, MCode, MAccept, MStore, MPromote, Elsewhere

LEMMA UnheardStep ==
  ASSUME IInv, IInv', Move, MWire, NEW d \in Side, NEW c \in Conn, PartOK(d, c)
  PROVE  (Unheard(d, c))'
<1> SUFFICES ASSUME stage'[Peer(d)][c] = "none"
             PROVE  /\ (Silent(d, c))'
                    /\ dialer'[c] = d => stage'[d][c] \notin {"await", "storing"} /\ ~local'[d][c]
  BY DEF Unheard
<1>0. Peer(d) \in Side /\ Peer(d) # d
  BY PeerFacts
<1>1. stage[Peer(d)][c] = "none"
  BY <1>0 DEF Goes, Move, MStay, MForget, MBegin, MGo, MCode, MAccept, MStore, MPromote, Elsewhere
<1>2. Silent(d, c) /\ (Silent(d, c))'
  BY <1>1 DEF PartOK, Unheard, MWire
<1>3. ASSUME dialer'[c] = d PROVE stage'[d][c] \notin {"await", "storing"} /\ ~local'[d][c]
  <2>1. dialer[c] = d => stage[d][c] \notin {"await", "storing"} /\ ~local[d][c]
    BY <1>1 DEF PartOK, Unheard
  <2>2. dialer[c] \in {d, None}
    BY <1>3, Opened
  <2>3. dialer[c] = None => stage[d][c] = "none" /\ ~local[d][c]
    BY DEF PartOK, Unused, IInv, AttemptInv, StageOK
  <2> QED BY <1>0, <1>2, <1>3, <2>1, <2>2, <2>3
        DEF Goes, Move, MStay, MForget, MBegin, MGo, MCode, MAccept, MStore, MPromote, Elsewhere
<1> QED BY <1>2, <1>3

(* Two attempts of one end are never both under way. *)
LEMMA OnePending ==
  ASSUME IInv, NEW d \in Side, NEW c \in Conn, NEW x \in Conn, Active(d, c)
  PROVE  pending[d] = c /\ pending[d] # None /\ (Active(d, x) => x = c)
BY ConstantsApart DEF IInv, AttemptInv, DriverOK, Active

LEMMA StartsStep ==
  ASSUME IInv, Move, NEW d \in Side, NEW c \in Conn, PartOK(d, c)
  PROVE  (Starts(d))'
<1>1. Starts(d)
  BY DEF PartOK
<1>2. ASSUME NEW e \in Side, NEW x \in Conn, MStore(e, x) PROVE (Starts(d))'
  BY <1>1, <1>2 DEF Starts, MStore
<1>3. ASSUME NEW e \in Side, NEW x \in Conn, MBegin(e, x) PROVE (Starts(d))'
  BY <1>1, <1>3 DEF Starts, MBegin
<1> QED BY <1>1, <1>2, <1>3 DEF Starts, Move, MStay, MForget, MGo, MCode, MAccept, MPromote

LEMMA DialsStep ==
  ASSUME IInv, IInv', Move, NEW d \in Side, NEW c \in Conn, PartOK(d, c)
  PROVE  (Dials(d, c))'
<1> SUFFICES ASSUME ~raced', dialer'[c] = d, stage'[d][c] \in {"dialing", "hello", "await"}
             PROVE  trust'[d] = None
  BY DEF Dials
<1>0. ~raced /\ Starts(d) /\ Dials(d, c)
  BY NoLongerRaced DEF PartOK, IInv
<1>1. ASSUME NEW x \in Conn, MStore(d, x) PROVE FALSE
  <2>1. stage[d][x] = "await" /\ x # c
    BY <1>1 DEF MStore
  <2>2. stage'[d][x] = "storing" /\ pending'[d] = c
    BY <1>1 DEF MStore, IInv, AttemptInv, DriverOK
  <2> QED BY <2>1, <2>2 DEF IInv, AttemptInv, DriverOK
<1>2. ASSUME NEW e \in Side, NEW x \in Conn, MBegin(e, x) PROVE trust'[d] = None
  <2>1. dialer[c] = None => stage[d][c] = "none"
    BY DEF IInv, AttemptInv, StageOK
  <2> QED BY <1>0, <1>2, <2>1, PeerFacts DEF MBegin, Elsewhere, Starts, Dials
<1>3. ASSUME NEW e \in Side, NEW x \in Conn, MStore(e, x), e # d PROVE trust'[d] = None
  BY <1>0, <1>3 DEF MStore, Elsewhere, Dials
<1>4. ASSUME NEW e \in Side, NEW x \in Conn, MCode(e, x) PROVE trust'[d] = None
  BY <1>0, <1>4, PeerFacts DEF MCode, Elsewhere, Dials
<1>5. ASSUME NEW e \in Side, NEW x \in Conn, MGo(e, x) PROVE trust'[d] = None
  BY <1>0, <1>5 DEF MGo, Goes, Elsewhere, Dials
<1>6. ASSUME NEW e \in Side, NEW x \in Conn, MAccept(e, x) \/ MPromote(e, x) PROVE trust'[d] = None
  BY <1>0, <1>6 DEF MAccept, MPromote, Elsewhere, Dials
<1>7. CASE MStay \/ \E e \in Side : MForget(e)
  BY <1>0, <1>7 DEF MStay, MForget, Dials
<1> QED BY <1>1, <1>2, <1>3, <1>4, <1>5, <1>6, <1>7 DEF Move

LEMMA AcceptsStep ==
  ASSUME IInv, IInv', Move, NEW d \in Side, NEW c \in Conn, PartOK(d, c), PartOK(Peer(d), c),
         \A x \in Conn : x # c => Aloof(Peer(d), d, c, x)
  PROVE  (Accepts(d, c))'
<1> SUFFICES ASSUME ~raced', dialer'[c] = d, local'[d][c], stage'[Peer(d)][c] = "await"
             PROVE  trust'[d] = None
  BY DEF Accepts
<1>0. /\ ~raced /\ Dials(d, c) /\ Accepts(d, c) /\ Peer(d) \in Side /\ Peer(d) # d
      /\ Peer(Peer(d)) = d
  BY PeerFacts, NoLongerRaced DEF PartOK, IInv
<1>1. dialer[c] = d \/ (dialer[c] = None /\ ~local[d][c] /\ stage[d][c] = "none")
  BY Opened DEF PartOK, Unused, IInv, AttemptInv, StageOK
<1>2. ASSUME NEW x \in Conn, MStore(d, x) PROVE trust'[d] = None
  <2>1. CASE x = c
    <3>1. promoted[Peer(d)][c] /\ stage[Peer(d)][c] = "await"
      BY <1>0, <1>2, <2>1, Opened DEF MStore, Elsewhere
    <3> QED BY <1>0, <3>1 DEF PartOK, Authentic
  <2>2. CASE x # c
    <3>1. local[d][c] /\ Active(Peer(d), c) /\ Active(d, x) /\ local[Peer(d)][x]
      BY <1>0, <1>2, <2>2 DEF MStore, Elsewhere, Active
    <3>2. Aloof(Peer(d), d, c, x) /\ stage[d][x] = "await"
      BY <1>2, <2>2 DEF MStore
    <3> QED BY <3>1, <3>2 DEF Aloof
  <2> QED BY <2>1, <2>2
<1>3. ASSUME NEW x \in Conn, MStore(Peer(d), x) PROVE trust'[d] = None
  BY <1>0, <1>1, <1>3 DEF MStore, Elsewhere, Accepts
<1>4. ASSUME NEW e \in Side, NEW x \in Conn, MAccept(e, x) PROVE trust'[d] = None
  BY <1>0, <1>1, <1>4 DEF MAccept, Elsewhere, Accepts, Dials
<1>5. ASSUME NEW e \in Side, NEW x \in Conn, MCode(e, x) PROVE trust'[d] = None
  <2>1. stage[Peer(d)][c] = "none" => ~local[d][c]
    BY <1>1 DEF PartOK, Unheard
  <2>2. stage[Peer(d)][c] = "hello" => dialer[c] = Peer(d)
    BY DEF PartOK, Dialled
  <2> QED BY <1>0, <1>1, <1>5, <2>1, <2>2 DEF MCode, Elsewhere, Accepts
<1>6. ASSUME NEW e \in Side, NEW x \in Conn, MGo(e, x) \/ MPromote(e, x) PROVE trust'[d] = None
  BY <1>0, <1>1, <1>6 DEF MGo, Goes, MPromote, Elsewhere, Accepts
<1>7. ASSUME NEW e \in Side, NEW x \in Conn, MBegin(e, x) PROVE trust'[d] = None
  BY <1>0, <1>1, <1>7 DEF MBegin, Elsewhere, Accepts
<1>8. CASE MStay \/ \E e \in Side : MForget(e)
  BY <1>0, <1>1, <1>8 DEF MStay, MForget, Accepts
<1> QED BY <1>2, <1>3, <1>4, <1>5, <1>6, <1>7, <1>8, PeerFacts DEF Move

LEMMA StoresStep ==
  ASSUME IInv, IInv', Move, NEW d \in Side, NEW c \in Conn, PartOK(d, c)
  PROVE  (Stores(d, c))'
<1> SUFFICES ASSUME stage'[d][c] = "storing" PROVE trust'[d] \in {None, c}
  BY DEF Stores
<1>1. ASSUME NEW x \in Conn, x # c, MStore(d, x) PROVE FALSE
  BY <1>1 DEF MStore, IInv, AttemptInv, DriverOK
<1>2. Stores(d, c)
  BY DEF PartOK
<1> QED BY <1>1, <1>2 DEF Stores, Goes,
      Move, MStay, MForget, MBegin, MGo, MCode, MAccept, MStore, MPromote, Elsewhere

LEMMA AwaitsStep ==
  ASSUME IInv, IInv', Move, NEW d \in Side, NEW c \in Conn, PartOK(d, c), PartOK(Peer(d), c),
         \A x \in Conn : x # c => Aloof(d, Peer(d), c, x)
  PROVE  (Awaits(d, c))'
<1> SUFFICES ASSUME dialer'[c] = d, stage'[d][c] = "await", promoted'[Peer(d)][c]
             PROVE  trust'[Peer(d)] \in {None, c}
  BY DEF Awaits
<1>0. /\ Awaits(d, c) /\ Peer(d) \in Side /\ Peer(d) # d /\ Peer(Peer(d)) = d
      /\ Stores(Peer(d), c) /\ Unanswered(d, c)
      /\ (promoted[Peer(d)][c] => local[Peer(d)][c] /\ local[d][c])
  BY PeerFacts DEF PartOK, Authentic
<1>1. dialer[c] = d \/ (dialer[c] = None /\ ~local[d][c] /\ stage[d][c] = "none")
  BY Opened DEF PartOK, Unused, IInv, AttemptInv, StageOK
<1>2. ASSUME NEW x \in Conn, MStore(Peer(d), x) PROVE trust'[Peer(d)] \in {None, c}
  <2>1. CASE x # c
    <3>1. local[Peer(d)][c] /\ Active(d, c) /\ Active(Peer(d), x) /\ local[d][x]
      BY <1>0, <1>2, <2>1 DEF MStore, Elsewhere, Active
    <3>2. Aloof(d, Peer(d), c, x) /\ stage[Peer(d)][x] = "await"
      BY <1>2, <2>1 DEF MStore
    <3> QED BY <3>1, <3>2 DEF Aloof
  <2> QED BY <1>2, <2>1 DEF MStore
<1>3. ASSUME NEW x \in Conn, MStore(d, x) PROVE trust'[Peer(d)] \in {None, c}
  BY <1>0, <1>1, <1>3 DEF MStore, Elsewhere, Awaits
<1>4. ASSUME NEW e \in Side, NEW x \in Conn, MPromote(e, x) PROVE trust'[Peer(d)] \in {None, c}
  BY <1>0, <1>1, <1>4 DEF MPromote, Elsewhere, Awaits, Stores
<1>5. ASSUME NEW e \in Side, NEW x \in Conn, MCode(e, x) PROVE trust'[Peer(d)] \in {None, c}
  BY <1>0, <1>1, <1>5 DEF MCode, Elsewhere, Awaits, Unanswered
<1>6. ASSUME NEW e \in Side, NEW x \in Conn, MGo(e, x) \/ MAccept(e, x)
      PROVE  trust'[Peer(d)] \in {None, c}
  BY <1>0, <1>1, <1>6 DEF MGo, Goes, MAccept, Elsewhere, Awaits
<1>7. ASSUME NEW e \in Side, NEW x \in Conn, MBegin(e, x) PROVE trust'[Peer(d)] \in {None, c}
  BY <1>0, <1>1, <1>7 DEF MBegin, Elsewhere, Awaits
<1>8. CASE MStay \/ \E e \in Side : MForget(e)
  BY <1>0, <1>1, <1>8 DEF MStay, MForget, Awaits
<1> QED BY <1>2, <1>3, <1>4, <1>5, <1>6, <1>7, <1>8, PeerFacts DEF Move

LEMMA AloofStep ==
  ASSUME IInv, IInv', Move, MWire, NEW e \in Side, NEW c \in Conn, NEW x \in Conn, x # c,
         Aloof(e, Peer(e), c, x),
         \A d \in Side : PartOK(d, c) /\ PartOK(d, x)
  PROVE  (Aloof(e, Peer(e), c, x))'
<1> DEFINE f == Peer(e)
<1>0. f \in Side /\ f # e /\ Peer(f) = e /\ \A d \in Side : d = e \/ d = f
  BY PeerFacts
<1> HIDE DEF f
<1> SUFFICES ASSUME local'[f][c], stage'[e][c] \in Running,
                    stage'[f][x] \in Running
             PROVE  IF dialer'[x] = f
                    THEN /\ stage'[f][x] \in {"dialing", "hello"} /\ (Silent(f, x))'
                         /\ stage'[e][x] \in {"none", "ended"}
                    ELSE ~local'[e][x]
  BY DEF Aloof, Active, f
<1>1. pending'[e] = c /\ pending'[f] = x
  BY <1>0 DEF IInv, AttemptInv, DriverOK
<1>2. stage'[e][x] \notin Running
  BY <1>1 DEF IInv, AttemptInv, DriverOK
<1>3. Silent(f, x) => (Silent(f, x))'
  BY <1>0, <1>2 DEF MWire
<1>4. local[f][c]
  <2> SUFFICES ASSUME MAccept(f, c) \/ MStore(f, c) PROVE FALSE
    BY <1>0, LocalWays
  <2>1. stage[f][c] = "await" /\ stage[f][x] = stage'[f][x]
    BY <1>0 DEF MAccept, MStore, Elsewhere
  <2> QED BY <1>0, <2>1 DEF IInv, AttemptInv, DriverOK
<1>5. Active(e, c)
  <2> SUFFICES ASSUME MBegin(e, c) \/ (MCode(e, c) /\ stage[e][c] = "none") PROVE FALSE
    BY StageWays DEF Active, Goes, MGo, MCode, MAccept, MStore, MPromote
  <2>1. CASE MBegin(e, c)
    BY <1>0, <1>4, <2>1 DEF MBegin, PartOK, Unused
  <2>2. CASE MCode(e, c) /\ stage[e][c] = "none"
    BY <1>0, <1>4, <2>2 DEF MCode, PartOK, Unheard, f
  <2> QED BY <2>1, <2>2
<1>6. pending[e] = c
  BY <1>5 DEF Active, IInv, AttemptInv, DriverOK
<1>7. CASE MBegin(f, x)
  <2>1. dialer[x] = None /\ dialer'[x] = f /\ stage'[f][x] = "dialing"
    BY <1>7 DEF MBegin
  <2>2. Silent(f, x)
    BY <1>0, <2>1 DEF PartOK, Unused
  <2>3. stage'[e][x] = "none"
    BY <1>0, <1>7, <2>1 DEF MBegin, Elsewhere, IInv, AttemptInv, StageOK
  <2> QED BY <1>3, <2>1, <2>2, <2>3
<1>8. CASE MCode(f, x) /\ stage[f][x] = "none"
  <2>1. dialer[x] = e /\ dialer'[x] # f /\ local'[e][x] = local[e][x]
    BY <1>0, <1>8 DEF MCode
  <2>2. ~local[e][x]
    BY <1>0, <1>8, <2>1 DEF PartOK, Unheard, f
  <2> QED BY <2>1, <2>2
<1>9. CASE ~MBegin(f, x) /\ ~(MCode(f, x) /\ stage[f][x] = "none")
  <2>1. Active(f, x)
    BY <1>0, <1>9, StageWays DEF Active, Goes, MGo, MCode, MAccept, MStore, MPromote
  <2>2. dialer[x] # None /\ dialer'[x] = dialer[x]
    BY <1>0, <2>1, Opened DEF Active, IInv, AttemptInv, StageOK
  <2>3. CASE dialer[x] = f
    <3>1. /\ stage[f][x] \in {"dialing", "hello"} /\ Silent(f, x)
          /\ stage[e][x] \in {"none", "ended"}
      BY <1>4, <1>5, <2>1, <2>3 DEF Aloof, f
    <3>2. stage'[f][x] \in {"dialing", "hello"}
      BY <1>0, <1>9, <3>1, StageWays DEF Goes, MGo, MCode, MAccept, MStore, MPromote
    <3>3. stage'[e][x] \in {"none", "ended"}
      BY <1>2, <2>2, <3>1, StageWays DEF Goes, MBegin, MGo, MCode, MAccept, MStore, MPromote
    <3> QED BY <1>3, <2>2, <2>3, <3>1, <3>2, <3>3
  <2>4. CASE dialer[x] # f
    <3>1. ~local[e][x]
      BY <1>4, <1>5, <2>1, <2>4 DEF Aloof, f
    <3>2. stage[e][x] # "await"
      BY <1>6 DEF IInv, AttemptInv, DriverOK
    <3>3. ~local'[e][x]
      BY <3>1, <3>2, LocalWays DEF MAccept, MStore
    <3> QED BY <2>2, <2>4, <3>3
  <2> QED BY <2>3, <2>4
<1> QED BY <1>7, <1>8, <1>9

LEMMA AgreeStep ==
  ASSUME IInv, IInv', Move, TokenInv
  PROVE  TokensAgreeUnlessRaced'
<1> SUFFICES ASSUME ~raced', trust'[A] # None, trust'[B] # None PROVE trust'[A] = trust'[B]
  BY DEF TokensAgreeUnlessRaced, TokensAgree
<1>1. ~raced /\ (trust[A] # None /\ trust[B] # None => trust[A] = trust[B])
  BY NoLongerRaced DEF TokenInv, TokensAgreeUnlessRaced, TokensAgree, IInv
<1>2. ASSUME NEW d \in Side, NEW c \in Conn, MStore(d, c) PROVE trust'[A] = trust'[B]
  <2>1. /\ Peer(d) \in Side /\ Peer(Peer(d)) = d /\ stage[d][c] = "await"
        /\ local[Peer(d)][c] /\ trust'[d] = c /\ trust'[Peer(d)] = trust[Peer(d)]
        /\ (dialer[c] = d => promoted[Peer(d)][c]) /\ trust'[Peer(d)] # None
    BY <1>2, PeerFacts DEF MStore, Side, Peer
  <2>2. dialer[c] \in Side
    BY <2>1 DEF IInv, AttemptInv, StageOK, TypeOK
  <2>3. CASE dialer[c] = d
    <3>1. trust[Peer(d)] = c
      BY <2>1, <2>3 DEF TokenInv, PartOK, Awaits
    <3> QED BY <2>1, <3>1 DEF Side, Peer
  <2>4. CASE dialer[c] = Peer(d)
    <3>1. trust[Peer(d)] = None
      BY <1>1, <2>1, <2>4 DEF TokenInv, PartOK, Accepts
    <3> QED BY <2>1, <3>1
  <2> QED BY <2>2, <2>3, <2>4, PeerFacts
<1>3. A \in Side /\ B \in Side
  BY DEF Side
<1> QED BY <1>1, <1>2, <1>3 DEF Move, MStay, MForget, MBegin, MGo, MCode, MAccept, MPromote

LEMMA TokenStep == IInv /\ IInv' /\ [Next]_vars /\ TokenInv => TokenInv'
<1> SUFFICES ASSUME IInv, IInv', [Next]_vars, TokenInv PROVE TokenInv'
  OBVIOUS
<1>1. Move /\ MWire
  BY NextMoves, WireMoves
<1>2. \A d \in Side, c \in Conn : PartOK(d, c)
  BY DEF TokenInv
<1>3. ASSUME NEW d \in Side, NEW c \in Conn PROVE (PartOK(d, c))'
  <2>1. Peer(d) \in Side /\ Peer(Peer(d)) = d
    BY PeerFacts
  <2>2. \A e \in Side, x \in Conn : x # c => Aloof(e, Peer(e), c, x)
    BY <1>2 DEF PartOK
  <2>3. (Unused(d, c) /\ Dialled(d, c) /\ Unanswered(d, c) /\ Authentic(d, c) /\ Unheard(d, c))'
    BY <1>1, <1>2, UnusedStep, PlainStep, AuthenticStep, UnheardStep
  <2>4. (Starts(d) /\ Dials(d, c) /\ Stores(d, c))'
    BY <1>1, <1>2, StartsStep, DialsStep, StoresStep
  <2>5. (Accepts(d, c))'
    BY <1>1, <1>2, <2>1, <2>2, AcceptsStep
  <2>6. (Awaits(d, c))'
    BY <1>1, <1>2, <2>1, <2>2, AwaitsStep
  <2>7. \A x \in Conn : x # c => (Aloof(d, Peer(d), c, x))'
    BY <1>1, <1>2, <2>2, AloofStep
  <2> QED BY <2>3, <2>4, <2>5, <2>6, <2>7 DEF PartOK
<1>4. TokensAgreeUnlessRaced'
  BY <1>1, AgreeStep
<1> QED BY <1>3, <1>4 DEF TokenInv

LEMMA InitTokenInv == Init => TokenInv
<1> SUFFICES ASSUME Init PROVE TokenInv
  OBVIOUS
<1>1. ASSUME NEW d \in Side, NEW c \in Conn PROVE PartOK(d, c)
  <2>1. Silent(d, c)
    BY EmptySeq DEF Init, Silent
  <2>2. \A x \in Conn : Aloof(d, Peer(d), c, x)
    BY DEF Init, Aloof, Active
  <2> QED BY <2>1, <2>2, PeerFacts, ConstantsApart DEF Init, PartOK, Unused, Dialled, Unanswered,
        Authentic, Unheard, Starts, Dials, Accepts, Awaits, Stores
<1>2. TokensAgreeUnlessRaced
  BY DEF Init, TokensAgreeUnlessRaced, TokensAgree, Side
<1> QED BY <1>1, <1>2 DEF TokenInv

(* Over any number of attempts, deadlines, lost sockets and Forgets, two   *)
(* daemons that trust each other hold the same token (pairing.go:272-273), *)
(* unless a token was stored between a pair:start's already-paired check   *)
(* and the attempt it starts (websocket.go:398-409).                       *)
THEOREM OneToken == Spec => []TokensAgreeUnlessRaced
<1>1. TokenInv => TokensAgreeUnlessRaced
  BY DEF TokenInv
<1> QED BY <1>1, InitTokenInv, TokenStep, IInvAlways, PTL DEF Spec

=============================================================================
