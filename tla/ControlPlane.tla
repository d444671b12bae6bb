---------------------------- MODULE ControlPlane ----------------------------
(***************************************************************************)
(* daemon/server between the panels of the extension and the rest of the   *)
(* daemon, and the life of the daemon process (cmd/daemon/main.go).  For   *)
(* each panel a reader, which dispatches its requests one after another,   *)
(* and a writer, which drains its send queue; the goroutines that push,    *)
(* which are the callbacks of the peer layer; Server.Run with its shutdown;*)
(* and next to it the peer listener, the browse loop, the consumer of its  *)
(* events and the mDNS advertisement.                                      *)
(*                                                                         *)
(* A frame is named by what sends it.  A panel may stop reading at any     *)
(* time; the closing handshake, the write of a frame and a call of the     *)
(* peer layer take their time but end, with their timeouts at the latest.  *)
(***************************************************************************)
EXTENDS Naturals, SequencesExt

CONSTANTS
  Panel,       \* connections to /ws, each used once
  Event,       \* callbacks of the peer layer, each run once, on its own goroutine
  Results,     \* those of them that are OnPairResult
  Main,        \* the goroutine of Server.Run
  None,
  SendBuffer   \* sendBuffer (websocket.go)

ASSUME PanelAssumption ==
  /\ None \notin Panel \cup Event \cup {Main} /\ Main \notin Panel \cup Event
  /\ Panel \cap Event = {} /\ Results \subseteq Event
  /\ SendBuffer \in Nat \ {0}

Actor == Panel \cup Event \cup {Main}

\* The two frames of a callback (the device list is the second one of
\* OnPairResult), and for a panel its error or reply and its device list.
Frame == (Panel \cup Event) \X {"first", "devices"}

VARIABLES
  conn,     \* [Panel -> "new", "open", "closing" or "closed"]: the socket
  stuck,    \* panels that no longer read
  done,     \* panels whose ctx has been cancelled on its own
  send,     \* [Panel -> Seq(Frame)]: the queue of the writer
  reader,   \* [Panel -> Reader]: the goroutine of handleWebSocket
  writing,  \* panels whose writeLoop runs
  hub,      \* hub.clients
  job,      \* [Actor -> [left, to]]: frames an actor is to push, who is to get the first
  closes,   \* [Actor -> Panel or None]: the closeWith an actor is in
  run,      \* Server.Run
  root,     \* the root context is cancelled
  parts,    \* the goroutines next to it, the advertiser's watcher too, that live
  advert,   \* this device is announced by mDNS
  fired,    \* callbacks that have begun
  owed      \* history: [Panel -> SUBSET Frame], what is on its way to it

panelVars == <<conn, stuck, done, send, reader, writing, hub>>
jobVars   == <<job, closes>>
mainVars  == <<run, root, parts, advert>>
vars      == <<panelVars, jobVars, mainVars, fired, owed>>

Reader == {"none", "read", "call", "leaving", "gone"}
Part   == {"peers", "discovery", "watch"}
NoJob  == [left |-> <<>>, to |-> {}]

TypeOK ==
  /\ conn \in [Panel -> {"new", "open", "closing", "closed"}]
  /\ stuck \subseteq Panel /\ done \subseteq Panel
  /\ send \in [Panel -> Seq(Frame)] /\ \A c \in Panel : Len(send[c]) <= SendBuffer
  /\ reader \in [Panel -> Reader] /\ writing \subseteq Panel /\ hub \subseteq Panel
  /\ job \in [Actor -> [left : Seq(Frame), to : SUBSET Panel]]
  /\ closes \in [Actor -> Panel \cup {None}]
  /\ run \in {"serving", "closing", "returned"} /\ root \in BOOLEAN
  /\ parts \subseteq Part /\ advert \in BOOLEAN
  /\ fired \subseteq Event /\ owed \in [Panel -> SUBSET Frame]

(* What main.run has when its goroutines start.  (A daemon that could not  *)
(* advertise at all goes on without.)                                      *)
Init ==
  /\ conn = [c \in Panel |-> "new"] /\ stuck = {} /\ done = {}
  /\ send = [c \in Panel |-> <<>>] /\ reader = [c \in Panel |-> "none"]
  /\ writing = {} /\ hub = {}
  /\ job = [a \in Actor |-> NoJob] /\ closes = [a \in Actor |-> None]
  /\ run = "serving" /\ root = FALSE /\ parts = Part /\ advert = TRUE
  /\ fired = {} /\ owed = [c \in Panel |-> {}]

-----------------------------------------------------------------------------
(* Closing a panel.                                                        *)

(* Mutated: a panel does not live on the server's context.                 *)
Cancelled_OwnContext(c) == c \in done

(* The context of a panel: its own, below that of Run, below the root.     *)
Cancelled(c) == c \in done \/ root \/ run # "serving"

Live(c) == conn[c] = "open" /\ ~Cancelled(c)

(* What a panel is owed ends with its context.                             *)
Drop(c) == done' = done \cup {c} /\ owed' = [owed EXCEPT ![c] = {}]

(* closeWith: the first caller runs the closing handshake, and whoever     *)
(* else calls it waits for that to end.                                    *)
CloseWith(a, c) ==
  IF conn[c] = "closed" THEN UNCHANGED <<conn, closes>>
  ELSE /\ closes' = [closes EXCEPT ![a] = c]
       /\ conn' = [conn EXCEPT ![c] = "closing"]

(* The handshake is over, or its timeout: the context goes, and everybody  *)
(* who waited goes on.                                                     *)
CloseEnds(c) ==
  /\ conn[c] = "closing"
  /\ conn' = [conn EXCEPT ![c] = "closed"]
  /\ closes' = [a \in Actor |-> IF closes[a] = c THEN None ELSE closes[a]]
  /\ Drop(c)
  /\ UNCHANGED <<stuck, send, reader, writing, hub, job, mainVars, fired>>

(* Mutated: a full queue makes the sender wait for room.                   *)
Enqueue_Waits(a, c, f) ==
  /\ Cancelled(c) \/ Len(send[c]) < SendBuffer
  /\ send' = IF Cancelled(c) THEN send ELSE [send EXCEPT ![c] = Append(@, f)]
  /\ UNCHANGED <<conn, closes>>

(* Mutated: the queue takes whatever comes.                                *)
Enqueue_Unbounded(a, c, f) ==
  /\ send' = IF Cancelled(c) THEN send ELSE [send EXCEPT ![c] = Append(@, f)]
  /\ UNCHANGED <<conn, closes>>

(* enqueue: nothing for a panel whose context is gone; a panel whose queue *)
(* is full is closed, by whoever wanted to send to it.                     *)
Enqueue(a, c, f) ==
  IF Cancelled(c) THEN UNCHANGED <<send, conn, closes>>
  ELSE IF Len(send[c]) < SendBuffer
  THEN send' = [send EXCEPT ![c] = Append(@, f)] /\ UNCHANGED <<conn, closes>>
  ELSE UNCHANGED send /\ CloseWith(a, c)

-----------------------------------------------------------------------------
(* Pushing frames.                                                         *)

Idle(a) == job[a] = NoJob /\ closes[a] = None

(* An actor is to hand frames over: the first of them to the panels of to. *)
Push(a, frames, to) ==
  /\ job' = [job EXCEPT ![a] =
       IF to = {} /\ Len(frames) <= 1 THEN NoJob ELSE [left |-> frames, to |-> to]]
  /\ owed' = [c \in Panel |->
       IF c \in to /\ Live(c) THEN owed[c] \cup {Head(frames)} ELSE owed[c]]

(* Broadcast takes a snapshot of the hub for each frame.                   *)
Broadcast(a, frames) == Push(a, frames, hub)

(* The next panel of a Broadcast, in any order; the call for one panel     *)
(* ends before that for the next begins.                                   *)
Deliver(a, c) ==
  /\ c \in job[a].to /\ closes[a] = None
  /\ Enqueue(a, c, Head(job[a].left))
  /\ job' = [job EXCEPT ![a] =
       IF @.to = {c} /\ Len(@.left) = 1 THEN NoJob ELSE [left |-> @.left, to |-> @.to \ {c}]]
  /\ UNCHANGED <<stuck, done, reader, writing, hub, mainVars, fired, owed>>

(* One Broadcast is through, and the next begins.                          *)
NextFrame(a) ==
  /\ Len(job[a].left) > 1 /\ job[a].to = {} /\ closes[a] = None
  /\ Broadcast(a, Tail(job[a].left))
  /\ UNCHANGED <<panelVars, closes, mainVars, fired>>

(* Mutated: OnPairResult pushes the device list first.                     *)
Frames_ListFirst(e) ==
  IF e \in Results THEN <<<<e, "devices">>, <<e, "first">>>> ELSE <<<<e, "first">>>>

(* OnPairResult pushes the result and then the device list.                *)
Frames(e) ==
  IF e \in Results THEN <<<<e, "first">>, <<e, "devices">>>> ELSE <<<<e, "first">>>>

(* A callback of the peer layer, on its goroutine.                         *)
Callback(e) ==
  /\ e \notin fired
  /\ fired' = fired \cup {e}
  /\ Broadcast(e, Frames(e))
  /\ UNCHANGED <<panelVars, closes, mainVars>>

-----------------------------------------------------------------------------
(* A panel.                                                                *)

(* handleWebSocket, also for an upgrade that was under way when the server *)
(* began to shut down.                                                     *)
HandleWebSocket(c) ==
  /\ conn[c] = "new"
  /\ conn' = [conn EXCEPT ![c] = "open"]
  /\ hub' = hub \cup {c} /\ writing' = writing \cup {c}
  /\ reader' = [reader EXCEPT ![c] = "read"]
  /\ UNCHANGED <<stuck, done, send, jobVars, mainVars, fired, owed>>

To(c, s) == reader' = [reader EXCEPT ![c] = s]
Answered(c) == <<c, "first">> \notin owed[c]

(* An answer to the panel that asked, and to no other.                     *)
Answer(c) == Push(c, <<<<c, "first">>>>, {c})

(* dispatch.  What can be answered here is: a reply, or an error with its  *)
(* code.  pair:start, pair:confirm, pair:forget and the signals go to the  *)
(* peer layer.  A panel asks once its last answer is written.              *)
Dispatch(c) ==
  /\ reader[c] = "read" /\ Idle(c) /\ Live(c) /\ c \notin stuck /\ Answered(c)
  /\ \/ Answer(c) /\ UNCHANGED reader
     \/ To(c, "call") /\ UNCHANGED <<job, owed>>
  /\ UNCHANGED <<conn, stuck, done, send, writing, hub, closes, mainVars, fired>>

(* Mutated: an error of the peer layer is logged only.                     *)
Refuse_Silent(c) == UNCHANGED job /\ owed' = [owed EXCEPT ![c] = @ \cup {<<c, "first">>}]

(* relaySignal, handlePairStart, handlePairConfirm, handlePairForget:      *)
(* every error of the peer layer is answered with a code.                  *)
Refuse(c) == Answer(c)

(* The peer layer has done what was asked.  A forget pushes the devices.   *)
Accept(c) ==
  \/ UNCHANGED <<job, owed>>
  \/ /\ \A d \in Panel : <<c, "devices">> \notin owed[d]
     /\ Broadcast(c, <<<<c, "devices">>>>)

CallEnds(c) ==
  /\ reader[c] = "call" /\ To(c, "read")
  /\ Accept(c) \/ Refuse(c)
  /\ UNCHANGED <<conn, stuck, done, send, writing, hub, closes, mainVars, fired>>

(* readLoop ends, because the socket or the context does; the handler then *)
(* cancels the context and waits for the writer.                           *)
ReadEnds(c) ==
  /\ reader[c] = "read" /\ Idle(c) /\ (~Live(c) \/ c \in stuck)
  /\ To(c, "leaving") /\ Drop(c)
  /\ UNCHANGED <<conn, stuck, send, writing, hub, jobVars, mainVars, fired>>

(* The deferred calls of handleWebSocket.                                  *)
HandlerReturns(c) ==
  /\ reader[c] = "leaving" /\ c \notin writing
  /\ hub' = hub \ {c} /\ To(c, "gone")
  /\ CloseWith(c, c)
  /\ UNCHANGED <<stuck, done, send, writing, job, mainVars, fired, owed>>

(* writeLoop writes a frame.                                               *)
Write(c) ==
  /\ c \in writing /\ Live(c) /\ c \notin stuck /\ send[c] # <<>>
  /\ owed' = [owed EXCEPT ![c] = @ \ {Head(send[c])}]
  /\ send' = [send EXCEPT ![c] = Tail(@)]
  /\ UNCHANGED <<conn, stuck, done, reader, writing, hub, jobVars, mainVars, fired>>

(* writeLoop ends with the context; or a write or a keepalive ping fails   *)
(* or times out, and it cancels the context.  Nobody reads the queue then. *)
WriteEnds(c) ==
  /\ c \in writing /\ (~Live(c) \/ c \in stuck)
  /\ writing' = writing \ {c} /\ Drop(c) /\ send' = [send EXCEPT ![c] = <<>>]
  /\ UNCHANGED <<conn, stuck, reader, hub, jobVars, mainVars, fired>>

(* A panel is suspended, or its machine is: it neither reads nor answers.  *)
GetStuck(c) ==
  /\ Live(c) /\ c \notin stuck
  /\ stuck' = stuck \cup {c}
  /\ UNCHANGED <<conn, done, send, reader, writing, hub, jobVars, mainVars, fired, owed>>

-----------------------------------------------------------------------------
(* The daemon.                                                             *)

(* SIGINT or SIGTERM.                                                      *)
Signal ==
  /\ ~root /\ root' = TRUE
  /\ UNCHANGED <<panelVars, jobVars, run, parts, advert, fired, owed>>

(* Mutated: a server that stops does not take the daemon with it.          *)
ServeFails_Alone == UNCHANGED root

(* A server that stops by itself cancels the root context.                 *)
ServeFails == root' = TRUE

(* http.Serve of the control server fails: Run returns, and its deferred   *)
(* call cancels the context of every panel.                                *)
ControlFails ==
  /\ run = "serving" /\ ~root
  /\ run' = "returned" /\ ServeFails
  /\ UNCHANGED <<panelVars, jobVars, parts, advert, fired, owed>>

(* Run, cancelled: closeAll, with the panels there are.                    *)
Shutdown ==
  /\ run = "serving" /\ root
  /\ run' = "closing"
  /\ job' = [job EXCEPT ![Main] = [left |-> <<>>, to |-> hub]]
  /\ UNCHANGED <<panelVars, closes, root, parts, advert, fired, owed>>

(* closeAll closes the panels of its snapshot one by one.                  *)
CloseNext(c) ==
  /\ c \in job[Main].to /\ closes[Main] = None
  /\ CloseWith(Main, c)
  /\ job' = [job EXCEPT ![Main].to = @ \ {c}]
  /\ UNCHANGED <<stuck, done, send, reader, writing, hub, mainVars, fired, owed>>

(* http.Shutdown, which does not wait for a socket that was upgraded.      *)
RunReturns ==
  /\ run = "closing" /\ Idle(Main)
  /\ run' = "returned"
  /\ UNCHANGED <<panelVars, jobVars, root, parts, advert, fired, owed>>

(* peers.Run, and Browse with consumeDiscovery, return once the root       *)
(* context is cancelled.  Each may also end before: a peer listener that   *)
(* fails takes the daemon with it, an early end of Browse, which closes    *)
(* the channel consumeDiscovery reads, does not.                           *)
PartEnds(p) ==
  /\ p \in parts \ {"watch"}
  /\ parts' = parts \ {p}
  /\ IF p = "peers" /\ ~root THEN ServeFails ELSE UNCHANGED root
  /\ UNCHANGED <<panelVars, jobVars, run, advert, fired, owed>>

(* reregister, when the interfaces have changed or the last try failed: a  *)
(* failure leaves the daemon unannounced until the next.  The watcher may  *)
(* still take a tick that came before it has seen the cancel.              *)
Reregister ==
  /\ "watch" \in parts /\ advert' \in BOOLEAN
  /\ UNCHANGED <<panelVars, jobVars, run, root, parts, fired, owed>>

(* The advertiser's watch, cancelled: goodbye packets, and it is gone.     *)
Withdraw ==
  /\ root /\ "watch" \in parts
  /\ parts' = parts \ {"watch"} /\ advert' = FALSE
  /\ UNCHANGED <<panelVars, jobVars, run, root, fired, owed>>

JobStep(a) == NextFrame(a) \/ \E c \in Panel : Deliver(a, c)
PanelStep(c) == \/ CloseEnds(c) \/ CallEnds(c) \/ ReadEnds(c) \/ HandlerReturns(c)
                \/ Write(c) \/ WriteEnds(c) \/ JobStep(c)
RunStep == Shutdown \/ RunReturns \/ \E c \in Panel : CloseNext(c)
Unwind == RunStep \/ Withdraw \/ \E p \in Part : root /\ PartEnds(p)

Next ==
  \/ \E c \in Panel : HandleWebSocket(c) \/ Dispatch(c) \/ GetStuck(c) \/ PanelStep(c)
  \/ \E e \in Event : Callback(e) \/ JobStep(e)
  \/ Signal \/ ControlFails \/ RunStep \/ Reregister \/ Withdraw
  \/ \E p \in Part : PartEnds(p)

Spec == Init /\ [][Next]_vars

(* Goroutines go on, and what has a timeout ends: the closing handshake, a *)
(* write, a call of the peer layer.  Of the goroutines of one panel it is  *)
(* only assumed that one of them goes on, and nothing of the panels        *)
(* themselves, the callbacks or the signal.                                *)
FairSpec ==
  /\ Spec
  /\ \A c \in Panel : WF_vars(PanelStep(c))
  /\ \A e \in Event : WF_vars(JobStep(e))
  /\ WF_vars(Unwind)

-----------------------------------------------------------------------------
ToCome(c) == {Head(job[a].left) : a \in {a \in Actor : c \in job[a].to}}

(* While a panel lives, no frame pushed to it and no answer it is owed, an *)
(* error of the peer layer included, is lost or doubled: each is in its    *)
(* queue, once, or just being handed over, until it is written.  A queue   *)
(* that cannot take a frame costs the panel its connection and never a     *)
(* frame; websocket.go: "A silently dropped signal is the worst possible   *)
(* outcome here".                                                          *)
NothingIsLost ==
  \A c \in Panel : Live(c) => ToSet(send[c]) \cup ToCome(c) = owed[c] /\ IsInjective(send[c])

(* The result of a pairing comes before the device list it changed, also   *)
(* when another push comes between the two.                                *)
ResultBeforeList ==
  \A c \in Panel, e \in Results : Live(c) /\ <<e, "first">> \in owed[c] =>
    \A i \in DOMAIN send[c] : send[c][i] = <<e, "devices">> =>
      \E j \in 1..i : send[c][j] = <<e, "first">>

(* A callback of the peer layer comes back, whatever the panels do: the    *)
(* pairing or the socket it came from is not held up by one of them.       *)
CallbackReturns == \A e \in Event : e \in fired ~> Idle(e)

(* No half-alive daemon: once it is told to stop, or one of its servers    *)
(* has, every part of it returns and every panel is closed, those included *)
(* that came while it was shutting down.                                   *)
StopsAsAWhole ==
  root \/ run = "returned" \/ "peers" \notin parts ~>
    /\ run = "returned" /\ parts = {} /\ ~advert
    /\ \A c \in Panel : reader[c] \in {"none", "gone"} /\ Idle(c)
=============================================================================
