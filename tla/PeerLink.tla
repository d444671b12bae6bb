------------------------------ MODULE PeerLink ------------------------------
(***************************************************************************)
(* daemon/peer once two devices are paired: who dials, which of the        *)
(* sockets between them is the live one, how a signal travels over it, and *)
(* how a socket ends.  There are two daemons.  At each of them the         *)
(* following run at the same time: the calls of SendSignal, one reconnect  *)
(* loop, one reader per socket (serveInbound, or the serveConn that        *)
(* ensureConn starts), the closing of sockets, and Forget.                 *)
(*                                                                         *)
(* The write queue of a socket and the wire behind it are one sequence;    *)
(* an abrupt close loses any end of it.  Left out: the pairing exchange    *)
(* (Pairing.tla), the guards in front of the first frame (Admission.tla),  *)
(* and the daemon shutting down (ControlPlane.tla).                        *)
(***************************************************************************)
EXTENDS Naturals, Sequences

CONSTANTS
  A, B,                \* the two daemons
  SendersA, SendersB,  \* calls of SendSignal at each, one signal per call
  RetryA, RetryB,      \* at most one reconnect loop at each
  Conn,                \* sockets that may be opened, each used once
  None,
  SendBuffer,          \* sendBuffer (peer.go)
  MaxTries,            \* maxReconnectAttempts
  Forgetters,          \* ends whose human forgets the other device, once
  MaxFaults            \* how often the network may fail

Sender    == SendersA \cup SendersB
Retry     == RetryA \cup RetryB
Caller    == Sender \cup Retry
End       == {A, B}
Other(e)  == IF e = A THEN B ELSE A
At(k)     == IF k \in SendersA \cup RetryA THEN A ELSE B

ASSUME Apart ==
  /\ A # B /\ None \notin Conn \cup Caller \cup End
  /\ Sender \cap {"hello", "ready", "required", "close", "nothing"} = {}
  /\ Sender \cap Retry = {} /\ (SendersA \cup RetryA) \cap (SendersB \cup RetryB) = {}
  /\ SendBuffer \in Nat \ {0} /\ MaxTries \in Nat \ {0}
  /\ Forgetters \subseteq End /\ MaxFaults \in Nat

\* A signal is named by the call that sends it.
Frame == {"hello", "ready", "required", "close"} \cup Sender

(* A reader waits for the hello, registers its socket and loops.           *)
(* "pairing" is the loop of a socket that was not authenticated.           *)
Reader == {"none", "hello", "pairing", "register", "loop", "gone"}

(* SendSignal and the reconnect loop inside ensureConn: looking for a live *)
(* socket, joining or starting the dial, waiting for it, dialling, reading *)
(* the answer, registering; "live" holds a socket.                         *)
Call == {"idle", "timer", "ensure", "flight", "wait", "woken", "dial", "reply", "ready",
         "live", "sent", "refused"}

VARIABLES
  dialer,    \* [Conn -> End or None]
  out,       \* [Conn -> [End -> Seq(Frame)]]: what an end has queued and the other not read
  up,        \* [Conn -> [End -> "unused", "open", "closing" or "dead"]]
  reader,    \* [Conn -> [End -> Reader]]
  reg,       \* Manager.conns: the live socket to the other daemon, or None
  dialing,   \* Manager.dialing: the call that dials, or None
  call, via, \* where each call is, and its socket
  tries,     \* attempts of a reconnect loop
  trusted,   \* the other device is in the trust store
  addr,      \* Manager.addrs holds an address for it
  forget,    \* how far Forget has come
  arrived,   \* signals handed to OnSignal
  faults,    \* times the network has failed
  straddled  \* history: a handshake was under way when Forget looked for a socket

connVars == <<dialer, out, up, reader, faults>>
callVars == <<dialing, call, via, tries>>
endVars  == <<reg, trusted, addr, forget, arrived, straddled>>
vars     == <<connVars, callVars, endVars>>

TypeOK ==
  /\ dialer \in [Conn -> End \cup {None}]
  /\ out \in [Conn -> [End -> Seq(Frame)]]
  /\ up \in [Conn -> [End -> {"unused", "open", "closing", "dead"}]]
  /\ reader \in [Conn -> [End -> Reader]]
  /\ reg \in [End -> Conn \cup {None}]
  /\ dialing \in [End -> Caller \cup {None}]
  /\ call \in [Caller -> Call] /\ via \in [Caller -> Conn \cup {None}]
  /\ tries \in [Caller -> 0..MaxTries]
  /\ trusted \in [End -> BOOLEAN] /\ addr \in [End -> BOOLEAN]
  /\ forget \in [End -> {"no", "removed", "done"}]
  /\ faults \in 0..MaxFaults /\ arrived \subseteq Sender /\ straddled \in [End -> BOOLEAN]
  /\ \A c \in Conn, e \in End : Len(out[c][e]) <= SendBuffer

(* The devices are paired; discovery has told none, one or both of them    *)
(* where the other is.                                                     *)
Init ==
  /\ dialer = [c \in Conn |-> None]
  /\ out = [c \in Conn |-> [e \in End |-> <<>>]]
  /\ up = [c \in Conn |-> [e \in End |-> "unused"]]
  /\ reader = [c \in Conn |-> [e \in End |-> "none"]]
  /\ reg = [e \in End |-> None] /\ dialing = [e \in End |-> None]
  /\ call = [k \in Caller |-> "idle"] /\ via = [k \in Caller |-> None]
  /\ tries = [k \in Caller |-> 0]
  /\ trusted = [e \in End |-> TRUE] /\ addr \in [End -> BOOLEAN]
  /\ forget = [e \in End |-> "no"]
  /\ faults = 0 /\ arrived = {} /\ straddled = [e \in End |-> FALSE]

-----------------------------------------------------------------------------
(* Frames and closing.                                                     *)

Dead(c, e)   == up[c][e] = "dead"
Full(c, e)   == Len(out[c][e]) >= SendBuffer
Inbox(c, e)  == out[c][Other(e)]
Next1(c, e)  == IF Inbox(c, e) = <<>> THEN "nothing" ELSE Head(Inbox(c, e))
Eof(c, e)    == Dead(c, e) \/ (Inbox(c, e) = <<>> /\ Dead(c, Other(e)))
Take(c, e)   == out' = [out EXCEPT ![c][Other(e)] = Tail(@)]
Goto(c, e, r) == reader' = [reader EXCEPT ![c][e] = r]
Move(k, s)    == call' = [call EXCEPT ![k] = s]

(* A step that happens by itself when "due", and else by a network fault.  *)
FaultUnless(due) ==
  IF due THEN UNCHANGED faults ELSE faults < MaxFaults /\ faults' = faults + 1

(* hardClose: what has not left yet is lost, and what comes in is not read *)
(* any more.                                                               *)
HardClose(c, e) ==
  /\ up' = [up EXCEPT ![c][e] = "dead"]
  /\ IF Dead(c, e) THEN UNCHANGED out
     ELSE \E n \in IF Dead(c, Other(e)) THEN {0} ELSE 0 .. Len(out[c][e]) :
            out' = [out EXCEPT ![c] = [x \in End |-> IF x = e THEN SubSeq(@[e], 1, n) ELSE <<>>]]

(* enqueueFrame: refused on a dead socket, into nowhere when only the far  *)
(* end is dead; a full queue drops the socket.                             *)
Enqueue(c, e, f) ==
  IF \E x \in End : Dead(c, x) THEN UNCHANGED <<out, up>>
  ELSE IF Full(c, e) THEN HardClose(c, e)
  ELSE out' = [out EXCEPT ![c][e] = Append(@, f)] /\ UNCHANGED up

(* Mutated: the close frame does not wait for what is queued.              *)
CloseWith_Overtakes(c, e) ==
  IF up[c][e] = "open" /\ ~Full(c, e)
  THEN /\ up' = [up EXCEPT ![c][e] = "closing"]
       /\ out' = [out EXCEPT ![c][e] = <<"close">>]
  ELSE IF up[c][e] = "closing" THEN UNCHANGED <<out, up>>
  ELSE HardClose(c, e)

(* Mutated: the close frame is queued however full the queue is.           *)
CloseWith_Unbounded(c, e) ==
  IF up[c][e] = "open"
  THEN /\ up' = [up EXCEPT ![c][e] = "closing"]
       /\ out' = [out EXCEPT ![c][e] = Append(@, "close")]
  ELSE IF up[c][e] = "closing" THEN UNCHANGED <<out, up>>
  ELSE HardClose(c, e)

(* closeWith: the close frame goes behind what is queued, and the socket   *)
(* dies once it is out (CloseSent).                                        *)
CloseWith(c, e) ==
  IF up[c][e] = "open" /\ ~Full(c, e)
  THEN /\ up' = [up EXCEPT ![c][e] = "closing"]
       /\ out' = [out EXCEPT ![c][e] = Append(@, "close")]
  ELSE IF up[c][e] = "closing" THEN UNCHANGED <<out, up>>
  ELSE HardClose(c, e)

(* Mutated: a socket being replaced is dropped from the registry only.     *)
RegisterConn_KeepsOld(c, e) ==
  /\ reg' = [reg EXCEPT ![e] = c]
  /\ UNCHANGED <<out, up>>

(* registerConn: the newest socket is the live one, an older is closed.    *)
RegisterConn(c, e) ==
  /\ reg' = [reg EXCEPT ![e] = c]
  /\ IF reg[e] \in {None, c} THEN UNCHANGED <<out, up>> ELSE CloseWith(reg[e], e)

(* liveConn: a socket found dead leaves the registry here.                 *)
Live(e) == IF reg[e] # None /\ ~Dead(reg[e], e) THEN reg[e] ELSE None
PruneDead(e) == reg' = [reg EXCEPT ![e] = Live(e)]

-----------------------------------------------------------------------------
(* A call.                                                                 *)

(* SendSignal: only to a paired device.                                    *)
SendSignal(k) ==
  /\ k \in Sender /\ call[k] = "idle"
  /\ Move(k, IF trusted[At(k)] THEN "ensure" ELSE "refused")
  /\ UNCHANGED <<connVars, endVars, dialing, via, tries>>

(* Remember: discovery has seen the device; a paired one that is not       *)
(* connected is reconnected, by one loop at a time.                        *)
Remember(k) ==
  /\ k \in Retry /\ call[k] = "idle" /\ tries[k] = 0
  /\ addr' = [addr EXCEPT ![At(k)] = TRUE]
  /\ IF trusted[At(k)]
     THEN /\ PruneDead(At(k))
          /\ Move(k, IF Live(At(k)) = None THEN "timer" ELSE "idle")
     ELSE UNCHANGED <<reg, call>>
  /\ UNCHANGED <<connVars, dialing, via, tries, trusted, forget, arrived, straddled>>

(* scheduleReconnect: the backoff is over.                                 *)
ReconnectTimer(k) ==
  /\ call[k] = "timer"
  /\ IF trusted[At(k)] /\ Live(At(k)) = None
     THEN Move(k, "ensure") /\ tries' = [tries EXCEPT ![k] = @ + 1]
     ELSE Move(k, "idle") /\ UNCHANGED tries
  /\ IF trusted[At(k)] THEN PruneDead(At(k)) ELSE UNCHANGED reg
  /\ UNCHANGED <<connVars, dialing, via, trusted, addr, forget, arrived, straddled>>

(* An error from ensureConn ends a SendSignal; a reconnect loop has a few  *)
(* tries.                                                                  *)
AfterError(k) == IF k \in Retry /\ tries[k] < MaxTries THEN "timer" ELSE "refused"

(* ensureConn looks for a live socket, first and after a wait.             *)
EnsureLive(k) ==
  /\ call[k] \in {"ensure", "woken"}
  /\ PruneDead(At(k))
  /\ via' = [via EXCEPT ![k] = Live(At(k))]
  /\ Move(k, IF Live(At(k)) # None THEN "live"
             ELSE IF call[k] = "ensure" THEN "flight" ELSE AfterError(k))
  /\ UNCHANGED <<connVars, dialing, tries, trusted, addr, forget, arrived, straddled>>

(* Mutated: every call that finds no live socket dials for itself.         *)
EnsureFlight_NoJoin(k) ==
  /\ call[k] = "flight"
  /\ dialing' = [dialing EXCEPT ![At(k)] = k]
  /\ Move(k, "dial")
  /\ UNCHANGED <<connVars, endVars, via, tries>>

(* ensureConn: one dial per device; the others wait for it.                *)
EnsureFlight(k) ==
  /\ call[k] = "flight"
  /\ IF dialing[At(k)] # None
     THEN Move(k, "wait") /\ UNCHANGED dialing
     ELSE Move(k, "dial") /\ dialing' = [dialing EXCEPT ![At(k)] = k]
  /\ UNCHANGED <<connVars, endVars, via, tries>>

(* dial: the hello, with the token, is the first frame.                    *)
Dial(k, c) ==
  LET e == At(k) IN
  /\ call[k] = "dial" /\ trusted[e] /\ addr[e] /\ dialer[c] = None
  /\ dialer' = [dialer EXCEPT ![c] = e]
  /\ up' = [up EXCEPT ![c] = [x \in End |-> "open"]]
  /\ out' = [out EXCEPT ![c][e] = <<"hello">>]
  /\ Goto(c, Other(e), "hello")
  /\ via' = [via EXCEPT ![k] = c]
  /\ Move(k, "reply")
  /\ UNCHANGED <<faults, dialing, tries, endVars>>

(* Mutated: the waiters are not woken when the dial has failed.            *)
Return_WakesOnSuccess(k, s) ==
  /\ dialing' = [dialing EXCEPT ![At(k)] = None]
  /\ call' = [j \in Caller |-> IF j = k THEN s
                ELSE IF s = "live" /\ At(j) = At(k) /\ call[j] = "wait" THEN "woken" ELSE call[j]]

(* ensureConn returns; its deferred call ends the flight and wakes those   *)
(* who wait for it.                                                        *)
Return(k, s) ==
  /\ dialing' = [dialing EXCEPT ![At(k)] = None]
  /\ call' = [j \in Caller |-> IF j = k THEN s
                ELSE IF At(j) = At(k) /\ call[j] = "wait" THEN "woken" ELSE call[j]]

(* No token, no address, or nobody answers (every socket is used).         *)
DialFails(k) ==
  LET e == At(k) IN
  /\ call[k] = "dial"
  /\ FaultUnless(~trusted[e] \/ ~addr[e] \/ \A c \in Conn : dialer[c] # None)
  /\ Return(k, AfterError(k))
  /\ UNCHANGED <<dialer, out, up, reader, endVars, via, tries>>

(* peer:ready has been read.                                               *)
Reply(k) ==
  LET c == via[k] e == At(k) IN
  /\ call[k] = "reply" /\ ~Dead(c, e) /\ Next1(c, e) = "ready"
  /\ Take(c, e)
  /\ Move(k, "ready")
  /\ UNCHANGED <<faults, dialer, up, reader, dialing, via, tries, endVars>>

(* peer:pair:required: the peer no longer knows this device.               *)
Unpaired(k) ==
  LET c == via[k] e == At(k) IN
  /\ call[k] = "reply" /\ ~Dead(c, e) /\ Next1(c, e) = "required"
  /\ CloseWith(c, e)
  /\ Return(k, AfterError(k))
  /\ via' = [via EXCEPT ![k] = None]
  /\ UNCHANGED <<faults, dialer, reader, tries, endVars>>

(* No answer within handshakeTimeout, or a socket that closes instead.     *)
NoReply(k) ==
  LET c == via[k] e == At(k) IN
  /\ call[k] = "reply"
  /\ FaultUnless(Eof(c, e) \/ Next1(c, e) = "close")
  /\ HardClose(c, e)
  /\ Return(k, AfterError(k))
  /\ via' = [via EXCEPT ![k] = None]
  /\ UNCHANGED <<dialer, reader, tries, endVars>>

(* The socket is registered and its frame loop started.                    *)
Ready(k) ==
  LET c == via[k] e == At(k) IN
  /\ call[k] = "ready"
  /\ RegisterConn(c, e)
  /\ Goto(c, e, "loop")
  /\ Return(k, "live")
  /\ UNCHANGED <<faults, dialer, via, tries, trusted, addr, forget, arrived, straddled>>

(* SendSignal queues its frame.  A reconnect loop only wanted the socket.  *)
Queue(k) ==
  LET c == via[k] e == At(k) IN
  /\ call[k] = "live"
  /\ IF k \in Sender
     THEN Enqueue(c, e, k) /\ Move(k, IF Dead(c, e) \/ Full(c, e) THEN "refused" ELSE "sent")
     ELSE Move(k, "idle") /\ UNCHANGED <<out, up>>
  /\ UNCHANGED <<faults, dialer, reader, dialing, via, tries, endVars>>

-----------------------------------------------------------------------------
(* The reader of a socket.                                                 *)

(* serveInbound: a hello whose token verifies is answered with peer:ready; *)
(* any other is offered pairing, on a socket that stays unauthenticated.   *)
ReadHello(c, e) ==
  /\ reader[c][e] = "hello" /\ ~Dead(c, e) /\ Next1(c, e) = "hello"
  /\ out' = [out EXCEPT ![c] = [x \in End |->
       IF x = e THEN <<IF trusted[e] THEN "ready" ELSE "required">> ELSE Tail(@[x])]]
  /\ Goto(c, e, IF trusted[e] THEN "register" ELSE "pairing")
  /\ UNCHANGED <<faults, dialer, up, callVars, endVars>>

(* acceptAuthenticated: registerConn, then rememberInbound.                *)
Register(c, e) ==
  /\ reader[c][e] = "register"
  /\ RegisterConn(c, e)
  /\ addr' = [addr EXCEPT ![e] = TRUE]
  /\ Goto(c, e, "loop")
  /\ UNCHANGED <<faults, dialer, callVars, trusted, forget, arrived, straddled>>

(* handleSignalFrame.                                                      *)
ReadSignal(c, e) ==
  /\ reader[c][e] = "loop" /\ ~Dead(c, e) /\ Next1(c, e) \in Sender
  /\ arrived' = arrived \cup {Next1(c, e)}
  /\ Take(c, e)
  /\ UNCHANGED <<faults, dialer, up, reader, callVars, reg, trusted, addr, forget, straddled>>

ReadsEnd(c, e) ==
  reader[c][e] \in {"hello", "pairing", "loop"} /\ (Eof(c, e) \/ Next1(c, e) = "close")

(* Mutated: the registry entry is left behind.                             *)
Teardown_LeavesEntry(c, e) ==
  /\ ReadsEnd(c, e)
  /\ HardClose(c, e)
  /\ Goto(c, e, "gone")
  /\ UNCHANGED <<faults, dialer, callVars, endVars>>

(* The read fails, and teardown unregisters and closes the socket.         *)
Teardown(c, e) ==
  /\ ReadsEnd(c, e)
  /\ HardClose(c, e)
  /\ reg' = [reg EXCEPT ![e] = IF @ = c THEN None ELSE @]
  /\ Goto(c, e, "gone")
  /\ UNCHANGED <<faults, dialer, callVars, trusted, addr, forget, arrived, straddled>>

(* closeWith: the far end has answered the close frame, or closeGrace is   *)
(* over, which takes a network that fails.                                 *)
CloseSent(c, e) ==
  /\ up[c][e] = "closing"
  /\ FaultUnless(up[c][Other(e)] # "open")
  /\ HardClose(c, e)
  /\ UNCHANGED <<dialer, reader, callVars, endVars>>

(* A write or a keepalive fails: writeLoop returns and cancels the socket. *)
Break(c, e) ==
  /\ up[c][e] \in {"open", "closing"} /\ FaultUnless(FALSE)
  /\ HardClose(c, e)
  /\ UNCHANGED <<dialer, reader, callVars, endVars>>

-----------------------------------------------------------------------------
(* Forget: the record, then the socket.                                    *)

(* A token has been verified, or sent, for a socket not registered yet.    *)
Handshaking(e) ==
  \/ \E c \in Conn : reader[c][e] = "register"
  \/ \E k \in Caller : At(k) = e /\ call[k] \in {"reply", "ready"}

ForgetRemove(e) ==
  /\ e \in Forgetters /\ forget[e] = "no"
  /\ trusted' = [trusted EXCEPT ![e] = FALSE]
  /\ forget' = [forget EXCEPT ![e] = "removed"]
  /\ UNCHANGED <<connVars, callVars, reg, addr, arrived, straddled>>

(* Mutated: the socket of a forgotten device is left alone.                *)
ForgetClose_NoClose(e) ==
  /\ forget[e] = "removed"
  /\ straddled' = [straddled EXCEPT ![e] = Handshaking(e)]
  /\ forget' = [forget EXCEPT ![e] = "done"]
  /\ UNCHANGED <<connVars, callVars, reg, trusted, addr, arrived>>

ForgetClose(e) ==
  /\ forget[e] = "removed"
  /\ straddled' = [straddled EXCEPT ![e] = Handshaking(e)]
  /\ reg' = [reg EXCEPT ![e] = None]
  /\ IF Live(e) # None THEN CloseWith(Live(e), e) ELSE UNCHANGED <<out, up>>
  /\ forget' = [forget EXCEPT ![e] = "done"]
  /\ UNCHANGED <<faults, dialer, reader, callVars, trusted, addr, arrived>>

-----------------------------------------------------------------------------
CallStep(k) ==
  \/ ReconnectTimer(k) \/ EnsureLive(k) \/ EnsureFlight(k)
  \/ (\E c \in Conn : Dial(k, c)) \/ DialFails(k)
  \/ Reply(k) \/ Unpaired(k) \/ NoReply(k) \/ Ready(k) \/ Queue(k)

ReaderStep(c, e) ==
  ReadHello(c, e) \/ Register(c, e) \/ ReadSignal(c, e) \/ Teardown(c, e)

ForgetStep(e) == ForgetRemove(e) \/ ForgetClose(e)

Next ==
  \/ \E k \in Caller : SendSignal(k) \/ Remember(k) \/ CallStep(k)
  \/ \E c \in Conn, e \in End : ReaderStep(c, e) \/ CloseSent(c, e) \/ Break(c, e)
  \/ \E e \in End : ForgetStep(e)

Spec == Init /\ [][Next]_vars

(* Goroutines run: a call, a reader and a close each get their turn.       *)
(* Nobody has to send, to forget, or to cut the line.                      *)
Fairness ==
  /\ \A k \in Caller : WF_vars(CallStep(k))
  /\ \A c \in Conn, e \in End : WF_vars(ReaderStep(c, e)) /\ WF_vars(CloseSent(c, e))

FairSpec == Spec /\ Fairness

-----------------------------------------------------------------------------
(* Properties.                                                             *)

Dials(k) == call[k] \in {"dial", "reply", "ready"}

(* One dial at a time to a device: two calls that both find no live socket *)
(* must not open two sockets that evict each other (ensureConn,            *)
(* dialer.go:181).                                                         *)
SingleFlight == \A j, k \in Caller : At(j) = At(k) /\ Dials(j) /\ Dials(k) => j = k

(* A socket that an end has authenticated and that is still open is the    *)
(* one that end has registered: whichever socket is replaced, forgotten or *)
(* torn down, in whatever order, none stays open that nobody would close   *)
(* (registerConn, Forget, teardown).                                       *)
NoOrphanSocket ==
  \A c \in Conn, e \in End :
    reader[c][e] = "loop" /\ up[c][e] = "open" => reg[e] = c

(* A signal that SendSignal took is delivered, or still on its way, or its *)
(* socket has died at one end: a close never overtakes what was queued     *)
(* before it (outFrame, conn.go:33).                                       *)
Queued(c, e, k) == \E i \in 1 .. Len(out[c][e]) : out[c][e][i] = k
SignalsAccounted ==
  \A k \in Sender : call[k] = "sent" =>
    \/ k \in arrived \/ Queued(via[k], At(k), k)
    \/ \E e \in End : Dead(via[k], e)

(* Nothing is under way: no call, handshake, close, teardown or Forget.    *)
Quiet ==
  /\ \A k \in Caller : call[k] \in {"idle", "sent", "refused"}
  /\ \A c \in Conn, e \in End :
       /\ reader[c][e] \in {"none", "pairing", "loop", "gone"} /\ ~ReadsEnd(c, e)
       /\ Next1(c, e) \in Sender => Dead(c, e)
       /\ up[c][e] # "closing"
  /\ \A e \in End : forget[e] \in {"no", "done"}

(* When all is quiet the two registries name the same socket, or neither   *)
(* names one: no end sends signals into a socket that the other end has    *)
(* given up (registerConn's "converges both ends", peer.go:373).           *)
RegistriesAgree == Quiet => reg[A] = reg[B]

(* Forget leaves the forgotten device no connection, except one whose      *)
(* handshake was under way while Forget looked for a socket to close       *)
(* (Forget, peer.go:608; acceptAuthenticated registers without a second    *)
(* look at the store, listener.go:159).                                    *)
ForgottenIsCutOff ==
  \A e \in End : Quiet /\ forget[e] = "done" /\ reg[e] # None => straddled[e]

(* Two daemons that dial each other keep a socket: with a network that     *)
(* works and two devices that trust each other, somebody dialled and all   *)
(* is quiet, so they are connected (registerConn, peer.go:372: "keeping    *)
(* the newest converges both ends without a tie-break negotiation").       *)
MutualDialKeepsOne ==
  Quiet /\ (\E c \in Conn : dialer[c] # None) => reg[A] # None \/ reg[B] # None

(* Every SendSignal returns, also one that waits for the dial of another   *)
(* call: the flight ends on each of its error paths (ensureConn,           *)
(* dialer.go:201).                                                         *)
EverySendReturns ==
  \A k \in Sender : call[k] = "ensure" ~> call[k] \in {"sent", "refused"}

(* A socket that has died does not stay the live one of its device, though *)
(* nobody may ever ask for it again (serveConn's deferred teardown).       *)
DeadSocketUnregistered ==
  \A c \in Conn, e \in End : reg[e] = c /\ Dead(c, e) ~> reg[e] # c

=============================================================================
