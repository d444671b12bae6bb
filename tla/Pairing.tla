------------------------------- MODULE Pairing -------------------------------
(***************************************************************************)
(* daemon/peer: how two daemons come to trust each other.  One of them     *)
(* dials without a token, the other offers six digits, a human at each end *)
(* compares them, and when both have accepted the responder mints a token, *)
(* stores it and sends it to the dialer, which stores it too.              *)
(*                                                                         *)
(* At each end several goroutines share the attempt: the reader of the     *)
(* socket, the driver that owns the state machine (runPairing), the        *)
(* control connections that carry the human's clicks, and Forget.  Every   *)
(* action below is one step of one of them.  A connection carries at most  *)
(* one attempt, so a connection names its attempt and its token as well.   *)
(*                                                                         *)
(* Left out: the daemon shutting down, frames no daemon sends (malformed,  *)
(* wrong version, wrong device id), and a NewToken that fails.             *)
(***************************************************************************)
EXTENDS Naturals, Sequences

CONSTANTS
  A, B,         \* the two daemons
  Conn,         \* connections the two daemons may open, each used once
  None,         \* no connection
  MaxForgets,   \* how often a human may forget the other device, at both ends together
  Signalling,   \* the panels may exchange a peer:signal once paired
  WriteFails,   \* TrustStore.Add may fail to write (TrustStore.tla)
  LinkFails     \* the network between the daemons may fail

ASSUME ConstantsApart ==
  A # B /\ None \notin {A, B} /\ None \notin Conn /\ MaxForgets \in Nat /\ Signalling \in BOOLEAN
  /\ WriteFails \in BOOLEAN /\ LinkFails \in BOOLEAN

Side    == {A, B}
Peer(d) == IF d = A THEN B ELSE A

\* The capacity of pairing.remote (pairing.go:75).
EventCap == 4

Frame == {"hello", "required", "accept", "paired", "reject", "signal", "eof"}
Event == {"accept", "paired", "reject", "cancel"}

(* Where an end of an attempt is.  "dialing" and "hello" belong to         *)
(* pairOutbound, "await" to the driver's loop, "storing", "registered" (the *)
(* responder's token is still to be sent) and "announced" to               *)
(* completePairing; "failing" is inside failPairing, "reported" after      *)
(* OnPairResult and before the deferred endPairing, and "aborting" inside  *)
(* abortPairing, which ends the pairing before it reports.                 *)
Stage == {"none", "dialing", "hello", "await", "storing", "registered", "announced",
          "failing", "reported", "aborting", "ended"}

\* The attempt has a driver, or a pairOutbound before it.
Running == {"dialing", "hello", "await", "storing", "registered", "announced",
            "failing", "reported"}

VARIABLES
  dialer,    \* [Conn -> Side or None]: who opened the connection
  stage,     \* [Side -> [Conn -> Stage]]
  pending,   \* Manager.pending: the attempt in flight, or None
  starting,  \* a pair:start has passed its already-paired check
  raced,     \* history: a token was stored while such a start was under way
  local,     \* localAccepted of the driver
  remote,    \* remoteAccepted of the driver
  decision,  \* pairing.decision, a channel of capacity one
  events,    \* pairing.remote
  wire,      \* frames on their way to a side, in order
  sock,      \* "none", "open" or "closed"
  promoted,  \* conn.paired
  live,      \* Manager.conns: the authenticated connection, or None
  trust,     \* TrustStore memory: the token held for the other device
  result,    \* what OnPairResult has said of the attempt
  shown,     \* this side's panels have displayed a code
  forget,    \* where Manager.Forget is
  forgets,   \* how many Forgets were started
  signalled  \* attempts on whose connection this side sent a peer:signal

forgetVars == <<forget, forgets>>
vars == <<dialer, stage, pending, starting, raced, local, remote, decision, events,
          wire, sock, promoted, live, trust, result, shown, forgetVars, signalled>>

NoClick == "none"
Click   == {"accept", "reject", NoClick}

TypeOK ==
  /\ dialer \in [Conn -> Side \cup {None}]
  /\ stage \in [Side -> [Conn -> Stage]]
  /\ pending \in [Side -> Conn \cup {None}]
  /\ starting \in [Side -> BOOLEAN] /\ raced \in BOOLEAN
  /\ local \in [Side -> [Conn -> BOOLEAN]]
  /\ remote \in [Side -> [Conn -> BOOLEAN]]
  /\ decision \in [Side -> [Conn -> Click]]
  /\ events \in [Side -> [Conn -> Seq(Event)]]
  /\ wire \in [Side -> [Conn -> Seq(Frame)]]
  /\ sock \in [Side -> [Conn -> {"none", "open", "closed"}]]
  /\ promoted \in [Side -> [Conn -> BOOLEAN]]
  /\ live \in [Side -> Conn \cup {None}]
  /\ trust \in [Side -> Conn \cup {None}]
  /\ result \in [Side -> [Conn -> {"none", "paired", "failed", "twice"}]]
  /\ shown \in [Side -> BOOLEAN]
  /\ forget \in [Side -> {"idle", "remove", "close"}]
  /\ forgets \in 0..MaxForgets
  /\ signalled \in [Side -> SUBSET Conn]

Init ==
  /\ dialer = [c \in Conn |-> None]
  /\ stage = [d \in Side |-> [c \in Conn |-> "none"]]
  /\ pending = [d \in Side |-> None]
  /\ starting = [d \in Side |-> FALSE] /\ raced = FALSE
  /\ local = [d \in Side |-> [c \in Conn |-> FALSE]]
  /\ remote = [d \in Side |-> [c \in Conn |-> FALSE]]
  /\ decision = [d \in Side |-> [c \in Conn |-> NoClick]]
  /\ events = [d \in Side |-> [c \in Conn |-> <<>>]]
  /\ wire = [d \in Side |-> [c \in Conn |-> <<>>]]
  /\ sock = [d \in Side |-> [c \in Conn |-> "none"]]
  /\ promoted = [d \in Side |-> [c \in Conn |-> FALSE]]
  /\ live = [d \in Side |-> None]
  /\ trust = [d \in Side |-> None]
  /\ result = [d \in Side |-> [c \in Conn |-> "none"]]
  /\ shown = [d \in Side |-> FALSE]
  /\ forget = [d \in Side |-> "idle"]
  /\ forgets = 0
  /\ signalled = [d \in Side |-> {}]

-----------------------------------------------------------------------------
(* Sockets.  A frame enqueued on an open socket is delivered in order      *)
(* unless the link breaks first (LinkBreaks); a closed end reads nothing.  *)

Responder(d, c) == dialer[c] = Peer(d)

Open(d, c) == sock[d][c] = "open"

Deliver(w, d, c, frames) ==
  IF Open(d, c) /\ Open(Peer(d), c) THEN [w EXCEPT ![Peer(d)][c] = @ \o frames] ELSE w

Send(d, c, frame) == wire' = Deliver(wire, d, c, <<frame>>)

(* closeWith: what was queued goes out first, then the close.  Closing a   *)
(* socket that was never opened, or twice, does nothing.                   *)
CloseSock(d, c) == IF Open(d, c) THEN [sock EXCEPT ![d][c] = "closed"] ELSE sock

Close(d, c, frames) ==
  /\ sock' = CloseSock(d, c)
  /\ wire' = [Deliver(wire, d, c, frames \o <<"eof">>) EXCEPT ![d][c] = <<>>]

(* pushEvent never blocks: a full queue drops the event. *)
Push(d, c, e) ==
  events' = IF Len(events[d][c]) < EventCap THEN [events EXCEPT ![d][c] = Append(@, e)]
            ELSE events

(* OnPairResult. *)
Tell(d, c, outcome) ==
  result' = [result EXCEPT ![d][c] = IF @ = "none" THEN outcome ELSE "twice"]

SetStage(d, c, s) == stage' = [stage EXCEPT ![d][c] = s]

(* endPairing: the attempt leaves the registry, and with it goes whatever  *)
(* was still in its channels and what its driver had heard.                *)
Unregister(d, c) ==
  /\ pending' = [pending EXCEPT ![d] = IF @ = c THEN None ELSE @]
  /\ events' = [events EXCEPT ![d][c] = <<>>]
  /\ decision' = [decision EXCEPT ![d][c] = NoClick]
  /\ remote' = [remote EXCEPT ![d][c] = FALSE]

-----------------------------------------------------------------------------
(* Starting.  handlePairStart looks the device up in the trust store and   *)
(* only then calls StartPairing, which registers the attempt.              *)

(* Mutated: a pair:start for a device that is paired already goes ahead. *)
StartCheck_Repairs(d) ==
  /\ ~starting[d]
  /\ \E c \in Conn : dialer[c] = None
  /\ starting' = [starting EXCEPT ![d] = TRUE]
  /\ UNCHANGED <<dialer, stage, pending, raced, local, remote, decision, events, wire, sock,
                 promoted, live, trust, result, shown, forgetVars, signalled>>

StartCheck(d) ==
  /\ ~starting[d] /\ trust[d] = None
  /\ \E c \in Conn : dialer[c] = None
  /\ starting' = [starting EXCEPT ![d] = TRUE]
  /\ UNCHANGED <<dialer, stage, pending, raced, local, remote, decision, events, wire, sock,
                 promoted, live, trust, result, shown, forgetVars, signalled>>

(* ErrPairInProgress when an attempt with that device is registered. *)
StartBegin(d) ==
  /\ starting[d]
  /\ starting' = [starting EXCEPT ![d] = FALSE]
  /\ \/ /\ pending[d] = None
        /\ \E c \in Conn :
             /\ dialer[c] = None
             /\ dialer' = [dialer EXCEPT ![c] = d]
             /\ pending' = [pending EXCEPT ![d] = c]
             /\ SetStage(d, c, "dialing")
     \/ /\ pending[d] # None \/ \A c \in Conn : dialer[c] # None
        /\ UNCHANGED <<dialer, pending, stage>>
  /\ UNCHANGED <<raced, local, remote, decision, events, wire, sock, promoted, live, trust,
                 result, shown, forgetVars, signalled>>

(* dial: the socket opens and peer:hello, without a token, is on its way.  *)
Dial(d, c) ==
  /\ stage[d][c] = "dialing"
  /\ SetStage(d, c, "hello")
  /\ sock' = [e \in Side |-> [sock[e] EXCEPT ![c] = "open"]]
  /\ wire' = [wire EXCEPT ![Peer(d)][c] = <<"hello">>]
  /\ UNCHANGED <<dialer, pending, starting, raced, local, remote, decision, events, promoted,
                 live, trust, result, shown, forgetVars, signalled>>

(* abortPairing: the attempt leaves the registry first, then the socket is *)
(* closed and the failure reported.                                        *)
Abort(d, c) ==
  /\ Unregister(d, c)
  /\ SetStage(d, c, "aborting")
  /\ Close(d, c, <<>>)
  /\ UNCHANGED <<dialer, starting, raced, local, promoted, live, trust,
                 result, shown, forgetVars, signalled>>

(* The dial fails, or no answer comes within handshakeTimeout. *)
NoAnswer(d, c) == stage[d][c] \in {"dialing", "hello"} /\ Abort(d, c)

(* pairOutbound reads the answer to its hello.  peer:pair:required puts    *)
(* the code on the screen and starts the driver.                           *)
Required(d, c) ==
  /\ stage[d][c] = "hello" /\ Open(d, c)
  /\ wire[d][c] # <<>> /\ Head(wire[d][c]) = "required"
  /\ wire' = [wire EXCEPT ![d][c] = Tail(@)]
  /\ SetStage(d, c, "await")
  /\ shown' = [shown EXCEPT ![d] = TRUE]
  /\ UNCHANGED <<dialer, pending, starting, raced, local, remote, decision, events, sock,
                 promoted, live, trust, result, forgetVars, signalled>>

Refused(d, c) ==
  /\ stage[d][c] = "hello" /\ Open(d, c)
  /\ wire[d][c] # <<>> /\ Head(wire[d][c]) # "required"
  /\ Abort(d, c)

(* Mutated: beginPairing's answer is ignored and a second attempt offered. *)
Offer_NotExclusive(d, c) ==
  /\ Responder(d, c) /\ stage[d][c] = "none" /\ Open(d, c)
  /\ wire[d][c] # <<>> /\ Head(wire[d][c]) = "hello"
  /\ pending' = [pending EXCEPT ![d] = c]
  /\ SetStage(d, c, "await")
  /\ wire' = [Deliver(wire, d, c, <<"required">>) EXCEPT ![d][c] = Tail(@)]
  /\ shown' = [shown EXCEPT ![d] = TRUE]
  /\ UNCHANGED <<dialer, starting, raced, local, remote, decision, events, sock, promoted,
                 live, trust, result, forgetVars, signalled>>

(* serveInbound, offerPairing: a hello without a token is offered a code,  *)
(* unless this side has an attempt with that device in flight.             *)
Offer(d, c) ==
  /\ Responder(d, c) /\ stage[d][c] = "none" /\ Open(d, c)
  /\ wire[d][c] # <<>> /\ Head(wire[d][c]) = "hello"
  /\ pending[d] = None
  /\ pending' = [pending EXCEPT ![d] = c]
  /\ SetStage(d, c, "await")
  /\ wire' = [Deliver(wire, d, c, <<"required">>) EXCEPT ![d][c] = Tail(@)]
  /\ shown' = [shown EXCEPT ![d] = TRUE]
  /\ UNCHANGED <<dialer, starting, raced, local, remote, decision, events, sock, promoted,
                 live, trust, result, forgetVars, signalled>>

(* The hello is refused before any attempt exists: another one is in       *)
(* flight, or the rate limiter says no (it may, at any hello).  A link     *)
(* that broke first ends the same way.  When the offer itself cannot be    *)
(* queued the attempt, registered a moment ago, ends without a word to     *)
(* either human.                                                           *)
Refuse(d, c) ==
  /\ Responder(d, c) /\ stage[d][c] = "none" /\ Open(d, c)
  /\ wire[d][c] # <<>>
  /\ SetStage(d, c, "ended")
  /\ \E said \in {<<"reject">>, <<>>} : Close(d, c, said)
  /\ UNCHANGED <<dialer, pending, starting, raced, local, remote, decision, events, promoted,
                 live, trust, result, shown, forgetVars, signalled>>

-----------------------------------------------------------------------------
(* frameLoop.  While the socket is not authenticated a frame belongs to    *)
(* the pairing exchange and must be on the pending attempt's own socket.   *)

Reading(d, c, frame) ==
  /\ stage[d][c] \in (Running \ {"dialing", "hello"}) \cup {"ended"}
  /\ Open(d, c)
  /\ wire[d][c] # <<>> /\ Head(wire[d][c]) = frame

ReadPairingFrame(d, c) ==
  /\ \E e \in {"accept", "paired", "reject"} :
       /\ Reading(d, c, e)
       /\ ~promoted[d][c] /\ pending[d] = c
       /\ Push(d, c, e)
  /\ wire' = [wire EXCEPT ![d][c] = Tail(@)]
  /\ UNCHANGED <<dialer, stage, pending, starting, raced, local, remote, decision, sock,
                 promoted, live, trust, result, shown, forgetVars, signalled>>

(* A peer:signal on an authenticated socket is relayed to the panel. *)
ReadSignal(d, c) ==
  /\ Reading(d, c, "signal") /\ promoted[d][c]
  /\ wire' = [wire EXCEPT ![d][c] = Tail(@)]
  /\ UNCHANGED <<dialer, stage, pending, starting, raced, local, remote, decision, events, sock,
                 promoted, live, trust, result, shown, forgetVars, signalled>>

(* Any other frame, and the end of the stream, ends the loop; the deferred *)
(* teardown takes the socket out of the registry.                          *)
ReadEnds(d, c) ==
  /\ \/ Reading(d, c, "eof")
     \/ \E e \in {"accept", "paired", "reject"} :
          Reading(d, c, e) /\ (promoted[d][c] \/ pending[d] # c)
     \/ Reading(d, c, "signal") /\ ~promoted[d][c]
  /\ Close(d, c, <<>>)
  /\ live' = [live EXCEPT ![d] = IF @ = c THEN None ELSE @]
  /\ UNCHANGED <<dialer, stage, pending, starting, raced, local, remote, decision, events,
                 promoted, trust, result, shown, forgetVars, signalled>>

(* Wi-Fi goes away: nothing in flight arrives. *)
LinkBreaks(c) ==
  /\ LinkFails
  /\ \E d \in Side : Open(d, c)
  /\ wire' = [d \in Side |-> IF Open(d, c) THEN [wire[d] EXCEPT ![c] = <<"eof">>]
                             ELSE wire[d]]
  /\ UNCHANGED <<dialer, stage, pending, starting, raced, local, remote, decision, events, sock,
                 promoted, live, trust, result, shown, forgetVars, signalled>>

-----------------------------------------------------------------------------
(* runPairing.  The select takes any one of the things that are ready.     *)

(* failPairing up to the closed socket; notify sends a reject first. *)
Fail(d, c, notify) ==
  /\ SetStage(d, c, "failing")
  /\ Close(d, c, IF notify THEN <<"reject">> ELSE <<>>)
  /\ UNCHANGED <<trust, raced>>

(* Mutated: the dialer mints a token of its own. *)
Mints_EitherEnd(d, c, here, there) == here /\ there

(* Mutated: the far human's accept is enough. *)
Mints_OneHuman(d, c, here, there) == Responder(d, c) /\ there

(* The responder, and nobody else, mints the token, on both accepts. *)
Mints(d, c, here, there) == Responder(d, c) /\ here /\ there

(* Both humans have accepted, or their token has arrived: completePairing  *)
(* begins with TrustStore.Add, which changes memory before it writes.      *)
Store(d, c) ==
  /\ SetStage(d, c, "storing")
  /\ trust' = [trust EXCEPT ![d] = c]
  /\ raced' = (raced \/ starting[d])

driverUnchanged == <<dialer, pending, starting, promoted, live, result, shown,
                     forgetVars, signalled>>

TakeReject(d, c) ==
  /\ stage[d][c] = "await" /\ decision[d][c] = "reject"
  /\ decision' = [decision EXCEPT ![d][c] = NoClick]
  /\ Fail(d, c, TRUE)
  /\ UNCHANGED <<driverUnchanged, local, remote, events>>

(* A second accept is ignored.  The accept is sent, or the socket is gone. *)
TakeAccept(d, c) ==
  /\ stage[d][c] = "await" /\ decision[d][c] = "accept"
  /\ decision' = [decision EXCEPT ![d][c] = NoClick]
  /\ local' = [local EXCEPT ![d][c] = TRUE]
  /\ \/ local[d][c] /\ UNCHANGED <<stage, sock, wire, trust, raced>>
     \/ ~local[d][c] /\ ~Open(d, c) /\ Fail(d, c, FALSE)
     \/ /\ ~local[d][c] /\ Open(d, c)
        /\ Send(d, c, "accept")
        /\ IF Mints(d, c, TRUE, remote[d][c]) THEN Store(d, c)
           ELSE UNCHANGED <<stage, trust, raced>>
        /\ UNCHANGED sock
  /\ UNCHANGED <<driverUnchanged, remote, events>>

TakeEvent(d, c) ==
  /\ stage[d][c] = "await" /\ events[d][c] # <<>>
  /\ events' = [events EXCEPT ![d][c] = Tail(@)]
  /\ LET e == Head(events[d][c]) IN
       \/ /\ e = "accept"
          /\ remote' = [remote EXCEPT ![d][c] = TRUE]
          /\ IF Mints(d, c, local[d][c], TRUE) THEN Store(d, c)
             ELSE UNCHANGED <<stage, trust, raced>>
          /\ UNCHANGED <<sock, wire>>
       \/ e = "reject" /\ Fail(d, c, FALSE) /\ UNCHANGED remote
       \/ /\ e = "cancel" \/ (e = "paired" /\ (Responder(d, c) \/ ~local[d][c]))
          /\ Fail(d, c, TRUE) /\ UNCHANGED remote
       \/ /\ e = "paired" /\ ~Responder(d, c) /\ local[d][c]
          /\ Store(d, c) /\ UNCHANGED <<sock, wire, remote>>
  /\ UNCHANGED <<driverUnchanged, local, decision>>

(* Mutated: only an attempt nobody has answered has a deadline. *)
Timeout_UntilAccepted(d, c) ==
  /\ stage[d][c] = "await" /\ ~local[d][c]
  /\ Fail(d, c, TRUE)
  /\ UNCHANGED <<driverUnchanged, local, remote, decision, events>>

(* pairTimeout: silence is a rejection. *)
Timeout(d, c) ==
  /\ stage[d][c] = "await"
  /\ Fail(d, c, TRUE)
  /\ UNCHANGED <<driverUnchanged, local, remote, decision, events>>

SocketDied(d, c) ==
  /\ stage[d][c] = "await" /\ ~Open(d, c)
  /\ Fail(d, c, FALSE)
  /\ UNCHANGED <<driverUnchanged, local, remote, decision, events>>

(* completePairing goes on: the socket is authenticated and takes the      *)
(* place of the live one, whose close it waits for.  Only the responder    *)
(* has something to announce.                                              *)
Promote(d, c) ==
  /\ stage[d][c] = "storing"
  /\ SetStage(d, c, IF Responder(d, c) THEN "registered" ELSE "announced")
  /\ promoted' = [promoted EXCEPT ![d][c] = TRUE]
  /\ live' = [live EXCEPT ![d] = c]
  /\ IF live[d] \notin {None, c} THEN Close(d, live[d], <<>>) ELSE UNCHANGED <<sock, wire>>
  /\ UNCHANGED <<dialer, pending, starting, raced, local, remote, decision, events, trust,
                 result, shown, forgetVars, signalled>>

(* The token goes out, or the socket has died meanwhile.  Until then a     *)
(* panel of this side may already have sent a signal.                      *)
Announce(d, c) ==
  /\ stage[d][c] = "registered"
  /\ SetStage(d, c, "announced")
  /\ Send(d, c, "paired")
  /\ UNCHANGED <<dialer, pending, starting, raced, local, remote, decision, events, sock,
                 promoted, live, trust, result, shown, forgetVars, signalled>>

(* Add could not write trusted.json. *)
StoreFails(d, c) ==
  /\ WriteFails
  /\ stage[d][c] = "storing"
  /\ Fail(d, c, TRUE)
  /\ UNCHANGED <<driverUnchanged, local, remote, decision, events>>

(* completePairing, failPairing and abortPairing report. *)
Report(d, c) ==
  /\ stage[d][c] \in {"announced", "failing", "aborting"}
  /\ SetStage(d, c, IF stage[d][c] = "aborting" THEN "ended" ELSE "reported")
  /\ Tell(d, c, IF stage[d][c] = "announced" THEN "paired" ELSE "failed")
  /\ UNCHANGED <<dialer, pending, starting, raced, local, remote, decision, events, wire, sock,
                 promoted, live, trust, shown, forgetVars, signalled>>

(* Mutated: the deferred end of the attempt reports it once more. *)
EndPairing_ReportsAgain(d, c) ==
  /\ stage[d][c] = "reported"
  /\ SetStage(d, c, "ended")
  /\ Unregister(d, c)
  /\ Tell(d, c, "failed")
  /\ UNCHANGED <<dialer, starting, raced, local, wire, sock, promoted,
                 live, trust, shown, forgetVars, signalled>>

(* The driver's deferred endPairing. *)
EndPairing(d, c) ==
  /\ stage[d][c] = "reported"
  /\ SetStage(d, c, "ended")
  /\ Unregister(d, c)
  /\ UNCHANGED <<dialer, starting, raced, local, wire, sock, promoted,
                 live, trust, result, shown, forgetVars, signalled>>

-----------------------------------------------------------------------------
(* Manager.Confirm.  Any panel that has displayed a code may answer it,    *)
(* more than once and late: the click names the device and not the code,   *)
(* so it goes to whichever attempt is in flight by then, if there is one   *)
(* and its buffer is empty, and is refused otherwise.                      *)
Confirm(d, click) ==
  /\ shown[d]
  /\ \E c \in Conn :
       /\ pending[d] = c /\ decision[d][c] = NoClick
       /\ decision' = [decision EXCEPT ![d][c] = click]
  /\ UNCHANGED <<dialer, stage, pending, starting, raced, local, remote, events, wire, sock,
                 promoted, live, trust, result, shown, forgetVars, signalled>>

(* Manager.Forget: cancel the attempt in flight, take the device out of    *)
(* the trust store, close its live connection.                             *)
ForgetCancel(d) ==
  /\ forget[d] = "idle" /\ forgets < MaxForgets
  /\ forgets' = forgets + 1
  /\ forget' = [forget EXCEPT ![d] = "remove"]
  /\ \/ pending[d] # None /\ Push(d, pending[d], "cancel")
     \/ pending[d] = None /\ UNCHANGED events
  /\ UNCHANGED <<dialer, stage, pending, starting, raced, local, remote, decision, wire, sock,
                 promoted, live, trust, result, shown, signalled>>

ForgetRemove(d) ==
  /\ forget[d] = "remove"
  /\ forget' = [forget EXCEPT ![d] = "close"]
  /\ trust' = [trust EXCEPT ![d] = None]
  /\ UNCHANGED <<dialer, stage, pending, starting, raced, local, remote, decision, events, wire,
                 sock, promoted, live, result, shown, forgets, signalled>>

ForgetClose(d) ==
  /\ forget[d] = "close"
  /\ forget' = [forget EXCEPT ![d] = "idle"]
  /\ live' = [live EXCEPT ![d] = None]
  /\ IF live[d] # None THEN Close(d, live[d], <<>>) ELSE UNCHANGED <<sock, wire>>
  /\ UNCHANGED <<dialer, stage, pending, starting, raced, local, remote, decision, events,
                 promoted, trust, result, shown, forgets, signalled>>

(* SendSignal to a trusted device over its live connection, once per       *)
(* connection.  Dialling with the token is not part of this module.        *)
SendSignal(d, c) ==
  /\ Signalling
  /\ trust[d] # None /\ live[d] = c /\ Open(d, c)
  /\ c \notin signalled[d]
  /\ signalled' = [signalled EXCEPT ![d] = @ \cup {c}]
  /\ Send(d, c, "signal")
  /\ UNCHANGED <<dialer, stage, pending, starting, raced, local, remote, decision, events, sock,
                 promoted, live, trust, result, shown, forgetVars>>

-----------------------------------------------------------------------------
Driver(d, c) ==
  \/ TakeReject(d, c) \/ TakeAccept(d, c) \/ TakeEvent(d, c)
  \/ Timeout(d, c) \/ SocketDied(d, c)
  \/ Promote(d, c) \/ StoreFails(d, c) \/ Announce(d, c)
  \/ Report(d, c) \/ EndPairing(d, c)

Outbound(d, c) == Dial(d, c) \/ NoAnswer(d, c) \/ Required(d, c) \/ Refused(d, c)

Inbound(d, c) == Offer(d, c) \/ Refuse(d, c)

Reader(d, c) == ReadPairingFrame(d, c) \/ ReadSignal(d, c) \/ ReadEnds(d, c)

Human(d) ==
  \/ StartCheck(d) \/ StartBegin(d)
  \/ \E click \in {"accept", "reject"} : Confirm(d, click)
  \/ ForgetCancel(d) \/ ForgetRemove(d) \/ ForgetClose(d)

Next ==
  \/ \E d \in Side, c \in Conn :
       Driver(d, c) \/ Outbound(d, c) \/ Inbound(d, c) \/ Reader(d, c) \/ SendSignal(d, c)
  \/ \E d \in Side : Human(d)
  \/ \E c \in Conn : LinkBreaks(c)

Spec == Init /\ [][Next]_vars

(* The deadline is a select case that stays ready, and select chooses      *)
(* among the ready ones at random, so it is taken in the end; what follows *)
(* is straight-line code.  Humans, readers and the network owe nothing.    *)
FairSpec ==
  Spec /\ \A d \in Side, c \in Conn :
            WF_vars(\/ Timeout(d, c) \/ Promote(d, c) \/ StoreFails(d, c) \/ Announce(d, c)
                    \/ Report(d, c) \/ EndPairing(d, c))

-----------------------------------------------------------------------------
(* A token is held only for an attempt that a human explicitly accepted at *)
(* this end AND at the other one, as far as each driver could tell         *)
(* (pairing.go:170-172, 244-249, 255-258).                                 *)
BothHumansAccepted ==
  \A d \in Side, c \in Conn : trust[d] = c => local[d][c] /\ local[Peer(d)][c]

(* The registry admits one attempt per device (pairing.go:100-103): every  *)
(* attempt whose driver or dial is running is the pending one, so two      *)
(* drivers never race over which token wins.                               *)
SingleDriver ==
  \A d \in Side, c \in Conn :
    stage[d][c] \in Running => pending[d] = c

(* peer.go:130, pairing.go:170-171: OnPairResult fires exactly once per    *)
(* attempt, and says "paired" only of an attempt both ends' humans took.   *)
OneResultPerAttempt ==
  \A d \in Side, c \in Conn :
    /\ result[d][c] # "twice"
    /\ stage[d][c] = "reported" => result[d][c] # "none"
    /\ result[d][c] = "paired" => local[d][c] /\ local[Peer(d)][c]

(* The dialer is never paired alone: it holds a token only after the       *)
(* responder has stored it and authenticated the socket                    *)
(* (pairing.go:275-278, 285-302).                                          *)
DialerNeverPairedAlone ==
  \A c \in Conn, d \in Side :
    dialer[c] = d /\ trust[d] = c => promoted[Peer(d)][c]

(* "Both ends run this with the same token" (pairing.go:272-273): two ends *)
(* that both trust each other hold the same token.                         *)
TokensAgree ==
  trust[A] # None /\ trust[B] # None => trust[A] = trust[B]

(* That holds as long as no token is stored between a pair:start's         *)
(* already-paired check and its attempt (websocket.go:398-409): whichever  *)
(* side of an attempt times out or loses its socket half way, an old token *)
(* at one end never meets a new one at the other.                          *)
TokensAgreeUnlessRaced == ~raced => TokensAgree

(* "failPairing ends a pairing without trust" (pairing.go:309): after a    *)
(* failed result the attempt's token is not in the store.                  *)
FailedMeansUntrusted ==
  \A d \in Side, c \in Conn : result[d][c] = "failed" => trust[d] # c

\* A human has been asked about the attempt and nothing reported of it.
Undecided(d, c) ==
  stage[d][c] \in Running \ {"dialing", "hello"} /\ result[d][c] = "none"

(* Every attempt that has reached a human is decided and reported: a       *)
(* deadline, a dead socket or an answer ends it, so there is always a time *)
(* to come at which none is waiting for its end (pairing.go:193-258).      *)
EveryPromptIsAnswered == []<>(\A d \in Side, c \in Conn : ~Undecided(d, c))
==============================================================================
