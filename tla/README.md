# Sharing: a verification project

Sharing moves files between two browsers on one LAN. A small Go daemon on each
machine finds the others, pairs with them and relays WebRTC signalling; a
browser extension talks to its own daemon over a loopback WebSocket and sends
the files themselves over a data channel. This directory holds TLA+ models of
the parts of that system whose correctness depends on the order of things,
the TLC runs that check them, and proofs checked by TLAPS.

Paths below are relative to `src/`. `PROJECT.json` lists components, runs,
hazards, the source lines of every definition, and the theorems.

## The system

| part | source | state | operations | talks to |
|---|---|---|---|---|
| trust store | `daemon/config/trust.go` | the peers map, `trusted.json`, two mutexes | Add, Remove, Touch, Rename, LoadTrustStoreAt, VerifyToken | called by the peer plane and the control plane |
| pairing | `daemon/peer/pairing.go`, `dialer.go`, `listener.go` | `Manager.pending`, one driver goroutine per attempt with its decision and event channels | StartPairing, offerPairing, runPairing, Confirm, Forget | the far daemon (frames), the panels (codes, clicks, results), the trust store |
| peer registry | `daemon/peer/peer.go`, `dialer.go`, `listener.go` | `conns`, `dialing`, addresses, reconnect loops | ensureConn, the token handshake, registerConn, SendSignal, Forget, Remember, scheduleReconnect, teardown | the far daemon, the trust store, the panels |
| peer socket | `daemon/peer/conn.go` | bounded write queue, a context | enqueue, closeWith, hardClose, reader and writer loops | the network |
| admission | `daemon/peer/listener.go`, `peer.go`, `ratelimit.go` | the handshake counter, attempts per address | handlePeer, readHello, acquire and release, allow, sweep | any machine on the LAN |
| control hub | `daemon/server/websocket.go`, `http.go` | connected panels, a send queue and two goroutines for each | pair:start/confirm/forget, signal relay, broadcast, Run and closeAll | panels, peer plane, roster |
| roster | `daemon/server/devices.go` | devices, last sightings, a debounce timer | UpsertDevice, RemoveDevice, SweepDevices, schedule, flush, BroadcastDevices | discovery, the hub |
| discovery | `daemon/discovery/` | the mDNS sightings, this machine's view of the network | observe, sweep, pick, advertise | the roster |
| wiring | `daemon/cmd/daemon/main.go` | the root context and the goroutines below it | start-up, one part stopping the others, consumeDiscovery | everything |
| config, wire messages | `daemon/config/config.go`, `daemon/protocol/` | none that changes | validation | everything |
| daemon client | `extension/lib/daemon.ts` | one socket, hello and retry timers | connect, request, scheduleReconnect | the hub |
| panel | `extension/entrypoints/sidepanel/useSharing.ts`, `extension/lib/session.ts` | one session, one consent prompt, one queue of sends, the pairing prompt | open and close sessions, route signals, answer prompts | daemon client, link, engine |
| WebRTC link | `extension/lib/webrtc.ts` | connection, channel, held ICE candidates, glare flags | offer, answer, candidate, close | the far panel through both daemons |
| transfer engine | `extension/lib/transfer.ts` | outgoing and incoming records, parked waits | sendFile, cancel, dispose, frame handlers | the link, the panel |

Hard in this code: a pairing attempt is shared by a socket reader, a driver, the
panels' clicks and Forget; the store is written by several goroutines with the
process free to die between two file operations; a file transfer has two ends
that cancel, time out and disappear on their own; two daemons may dial each
other at the same moment, and each may forget the other meanwhile; a panel that
stops reading sits between the daemon's callbacks and its shutdown; and the
device list is kept three times, with clocks and timers between the copies. What
makes each part correct:

* trust store: the file follows memory, an acknowledged pairing survives the
  death of the process, and a power loss as soon as the file system has made it
  permanent, a forgotten device stays forgotten, the write lock always has an
  owner who gives it back;
* pairing: no token without both humans, one result per attempt, no two drivers
  for a device, both ends with the same token, every prompt decided;
* transfer: nothing moves before consent, a delivered file is whole, a settled
  transfer stays settled, memory is bounded, neither end waits for ever;
* registry and socket: one dial at a time, no open socket outside the registry,
  registries that agree, no connection left to a forgotten device, a signal
  delivered or its socket dead, every send comes back;
* admission: slots given back exactly once, no more than the budget in any
  window, nobody denied without reason;
* hub and wiring: no frame lost to a living panel, no callback held up by one,
  a daemon that stops as a whole;
* roster and discovery: the panel ends up with the current list, a device is
  shown as its sightings say, with the address the browser picked.

## The modules

| module | models |
|---|---|
| `TrustLedger` | what the trust store promises: a set of records, changed one device at a time |
| `TrustStore` | `trust.go` down to write, flush, rename and chmod; implements `TrustLedger` |
| `Pairing` | one pair of daemons and the pairing attempts between them |
| `PeerLink` | the same two daemons once they are paired: dialling, the registry, signals, closes, Forget |
| `Admission` | what an unknown machine goes through before a pairing prompt or an authenticated socket |
| `ControlPlane` | the panels, the callbacks that push to them, and the life of the daemon process |
| `AddrPref` | which address of a peer is dialled |
| `Roster` | the browser's sightings, their channel, the roster, the pushes of the list; extends `AddrPref` |
| `Transfer` | one direction of a transfer engine pair over the data channel |
| `MC*` | model values, symmetry and function-valued constants for TLC |
| `TrustStore_proof`, `Pairing_proof`, `PeerLink_proof`, `Admission_proof`, `ControlPlane_proof`, `AddrPref_proof`, `Roster_proof`, `Transfer_proof` | the theorems about the module of that name |

How they fit: `Admission` ends where `Pairing` (a stranger) or `PeerLink` (a
token) begins; `Pairing` contains the store's memory, `TrustStore` the file
below it; callbacks of `Pairing` and `PeerLink` are the events of `ControlPlane`,
and a trust change of theirs is a push of `Roster`.

### TrustStore

`mem` is the map, `file` is `trusted.json` as a reader of the path finds it,
`flushed` says whether its bytes are on the disk, and `disk` is the file a power
loss would leave. A call of Add, Remove, Touch or Rename takes `writeMu` and
changes the map and copies it (`Mutate`, one step because `mu` is held);
`WriteTemp`, `SyncTemp`, `RenameTemp` and the two `Return`s are the file
operations of `writeLocked`. Every one of them may fail.

The two ways a daemon ends are kept apart. `Crash` is the death of the process:
the file system goes on, and readers keep seeing what was renamed. `PowerLoss`
takes `file` back to `disk`. `trust.go:443` renames and the directory is never
flushed, so a rename is permanent only when the file system gets to it
(`WriteBack`); before that the older `trusted.json` comes back, and a file
whose bytes were not flushed comes back torn. `Boot` reads the file, starts empty
if it does not parse, and copies a torn file aside. A file that exists but cannot be
read starts the store empty (`BootUnreadable`) and voids what was acknowledged
before. `kept` and `removed` record what callers were told, `late` the devices whose
last Add or Remove rests on a rename that is not permanent: a power loss voids what
was acknowledged about them, and nothing else.

`ImplementsLedger` is the refinement, with the ledger mapped to the map, its
stable copy to `file` and its durable copy to `disk`: each step is a ledger step or
a stutter, a boot recalls what was published last, and a power loss takes it back to
what was made permanent last, never to a part of a map.

### Pairing

Every goroutine that touches an attempt is there: pair:start's check and its
registration (`StartCheck`, `StartBegin`, two steps since nothing holds them
together), the dialer's own steps (`Dial` to `Abort`), the listener's
(`Offer`, `Refuse`), the socket readers (`ReadPairingFrame`, `ReadSignal`,
`ReadEnds`), the driver's select, one action per ready case (`TakeReject`,
`TakeAccept`, `TakeEvent`, `Timeout`, `SocketDied`), the steps of
`completePairing` and `failPairing` (`Promote`, which authenticates and registers
the socket, `Announce`, which queues the token, `StoreFails`, `Report`,
`EndPairing`), the humans (`Confirm`) and Forget in its three steps. `Refuse`
also stands for an offer that cannot be queued: its attempt is registered and ended
within one call, before anybody can see it. A
connection carries at most one attempt, so its name also names the attempt and
its token. The one-place decision buffer and the four-place event queue are
modelled with their capacity: what does not fit is dropped, as in `pushEvent`.
The trust store is its memory, and may refuse to write.

### PeerLink

A call (`call[k]`) is one SendSignal or one reconnect loop on its way through
`ensureConn`: looking for a live socket, joining the flight or starting it,
dialling, reading the answer, registering, queueing. `Return` is the deferred
function that ends the flight and wakes those who wait. A reader is
`serveInbound` or the `serveConn` that `ensureConn` starts. The write queue and
the wire behind it are one sequence, of which an abrupt close (`HardClose`)
loses any end; `CloseWith` is the orderly close, which waits for `CloseSent`.
The frame that announces a close stands in the queue behind what was there
before. `Forget` is two steps, as in the code: the record, then the socket.
`Remember` is modelled as its callers in the tests use it: the daemon's own
wiring never calls it.

### Admission

A socket stands for the goroutine that serves it, and its `phase` for how far it
has come: `HandlePeer`, `Upgrade`, the hello, then `AcceptAuthenticated` or
`Allow` and `BeginPairing`. `freed` is the `sync.OnceFunc` around the release.
A list of timestamps is the set of sockets that left them, each with its time.
`Record` contains the sweep that other addresses can trigger. `at` and `granted`
are histories: what was granted when, whatever the limiter still remembers.

### ControlPlane

Per panel a reader that dispatches one request at a time and a writer that
drains the queue; per callback its goroutine; and the goroutine of `Server.Run`.
An actor that pushes has a `job`: the frames it has left, and the panels of the
snapshot that are still to get the first of them. `Enqueue` either appends,
does nothing (the context is gone), or meets a full queue and closes the panel
itself, which holds the actor until the closing handshake is over (`closes`,
`CloseEnds`). A panel may get stuck at any time. `Cancelled` is the chain of
contexts, root, Run, panel. `Shutdown` to `RunReturns` is Run after the cancel,
and `PartEnds`, `ServeFails`, `Reregister` and `Withdraw` are the rest of
`main.run`: an early end of the peer listener takes the daemon with it, one of
Browse does not, and the advertiser's watcher may take one more tick after the
cancel before it withdraws. Requests
are abstracted to what they do to the queues: answered in `Dispatch`, or a call
of the peer layer that ends with an answer, with a device list for everybody, or
with nothing.

### Roster

Time passes in units of the browse cycle, and instants are kept as ages, so the
clock needs no bound. `known` is the browser's table, `events` the channel to
`consumeDiscovery`, `roster` the server's map. A change leaves its goroutine
owing a schedule (`owing`), because the roster lock is given up before
`scheduleDevicesBroadcast` takes it again. A timer object that has fired runs
its flush on a goroutine of its own: the step that forgets `devTimer` and the
ones that read and queue the list are separate. `Devices` reads the trust store
and then, under the roster lock, the roster, so a change may come between; its
third read, of the paired devices that are not in the roster, is merged with the
second, since it only meets changes that outdate the first. A list that was read
is `fresh` until the roster or the trust store moves; `shown` says whether the
one the panel has is still right. `ForgetFails` is a Forget whose write failed:
the store in memory has changed and nobody is told. `SweepDevices` is one step,
although it asks which devices are paired just before it takes the roster lock.
`Pick` is the address choice of `AddrPref`, with any
view of the network in each answer.

### Transfer

A sender's `loop` says where `sendFile` is waiting: for the answer, for the
file, or for the buffer. JavaScript runs a handler and the continuations it
wakes to the end, so each handler is one action: `HearAnswer` goes from the
frame through `settleAccept` to the start of the stream, `Drain` from
`bufferedamountlow` to the chunk the parked send writes. With `IOFails` the file
cannot be read, or the open channel refuses what is written: a start or a chunk
then settles the send as failed, while nobody looks at the result of a last word
(`Written`) or of an answer (`Reply`). `ReceiveStart` and
`Answer` are the two halves of `handleStart` around the consent prompt.
`Settled`/`AllSettled` are `settleOutgoing`. The channel is `buf` (what the
sender's browser has buffered), `net` and `toS`; each end's `chan` distinguishes
a close that has begun, one whose event has fired, and a connection that failed
under a channel that still says it is open. The panel's queue of sends and its
single consent prompt belong to the model; the other direction of the engine
shares only the channel with this one.

## The runs

| run | instance | what it shows |
|---|---|---|
| `TrustStoreFaults` | 2 devices, 2 tokens, 2 goroutines, failed writes, dying processes, power losses, unreadable files | a snapshot on its way to disk is the current memory; a forgotten device stays forgotten; an acknowledged pairing is never lost but to a power loss that meets an impermanent rename; refinement of the ledger; whoever holds `writeMu` is about to give it back |
| `PairingOneAttempt` | 1 connection, 1 Forget at either end, failing links and writes | both humans, one result, the dialer never paired alone, every attempt that showed a code is decided |
| `PairingTwoAttempts` | 2 connections opened from either end, in sequence or at once, failing writes, a signal on each | one driver per device, tokens agree, no click or signal of one attempt makes a token of another |
| `PeerLinkSafety` | 2 sockets, a signal from each end, a reconnect loop and a Forget, 1 network fault | single flight, no orphan socket, no signal overtaken, registries agree, a forgotten device is cut off |
| `PeerLinkLiveness` | 2 sockets, a signal and a reconnect loop at one end, a Forget at the other, 1 fault | every send returns, a dead socket leaves the registry |
| `Admission` | 4 sockets of 2 addresses, cap 2, budget 2 in a window of 2 ticks, a sweep above 1 key | slots match, the budget holds in every window, a denial is earned, a full table drains |
| `Roster` | 1 peer with an IPv4 and an IPv6 address, 2 views of the network, 2 timers, 1 caller, an event queue of 1, Forgets that fail | the panel's list is current or a push is on its way, a status is earned, the roster mirrors the browser |
| `ControlPlane` | 1 panel with a queue of 2, 2 callbacks, one of them a pairing result | nothing is lost, the result before the list, callbacks return, the daemon stops as a whole |
| `TransferSafety` | 2 files of up to 4 chunks, ceiling 3, marks 1 and 0, an ack every 2, all faults | types, consent, whole delivery, bounded buffer, no starved reception, settled once |
| `TransferLiveness` | 1 file, the same sizes and faults | every send returns, every accepted reception ends |

The largest, `TransferSafety`, has 3.0 million distinct states, `Roster` 1.9,
`PairingTwoAttempts` 1.3, `PairingOneAttempt` 1.0; none takes more than three
minutes with two workers.

Two runs look for a violation. `PeerLinkMutual` checks what the comment of
`registerConn` says (`daemon/peer/peer.go:372`): when two daemons dial each
other at the same moment, "keeping the newest converges both ends without a
tie-break negotiation". The newest socket need not be the same one at both
ends: A registers the socket it dialled and then the one it accepted, B does so
too, and each closes the socket that the other one keeps. Both sockets are gone
although no network fault occurred; a signal queued on one of them is lost with
it. `RegistriesAgree` says what does hold: once all is quiet, the two registries
name the same socket, or none.

`PairingWriteFails` checks the comment of `failPairing` (`daemon/peer/pairing.go:309`):
it "ends a pairing without trust". `TrustStore.Add` changes the map before it
writes, so when the write fails `completePairing` calls `failPairing`, both humans
are told that the pairing failed, and the token of the attempt stays in the store's
memory and verifies; the next write that succeeds, about any device, puts it into
`trusted.json` as well.

### Where the code departs from its documents

These are in the models as the code has them. The properties of the runs are
stated so that they say what holds nevertheless.

* Forget queues its cancel and does not wait for the driver, which may take the
  far accept first and store the token after Forget has removed the device
  (`peer.go:615`: "not the moment to let a pairing land behind their back").
* A handshake that verified its token before Forget registers its socket after
  Forget has looked for one (`listener.go:159`). `ForgottenIsCutOff` names this
  as the only exception.
* A click names the device and not the code, so an accept for an expired code
  can land on the next attempt (`messages.go:546`); `Confirm` also takes a click
  for an attempt already answered while its buffer is empty (`pairing.go:137`).
* When Add cannot write, the pairing is reported failed while the token stays in
  memory and verifies (`pairing.go:309`, the run `PairingWriteFails`); when Remove
  cannot write, its retry finds nothing in memory and answers without an error
  (`trust.go:246`), and the panels are not sent a new list (`websocket.go:457`).
* `trust.go:443` renames `trusted.json` into place and never flushes its
  directory, so a power loss may still undo an Add or a Remove that was
  acknowledged; the comments at `trust.go:385` and `trust.go:430` speak of a crash
  in the middle of a write only, and that file is never truncated.
* A signal the responder's panel sends at once may reach the dialer while it is
  still storing the token; its socket takes it for a stray frame and closes
  (`websocket.go:480`).
* A pair:start that checked the store before an inbound pairing finished may
  leave the daemons with different tokens: `TokensAgreeUnlessRaced` says that
  this is the only way.
* The sender of a file gives up after a timeout without a word; an accept given
  later leaves the receiver active (`useSharing.ts:280`). `ReceptionIsFed` makes
  it an exception.
* `devices.go:35` keeps an unpaired device as offline for twice the TTL, but the
  browser's EventRemove, at the TTL, takes it out of the roster first.
* Nothing calls `Manager.Remember`, so discovery triggers no reconnection and
  fills no address book (`peer.go:477`: "the wiring layer feeds discovery results
  in through here").
* A list that was read earlier can be queued after one read later, since a read
  and its Broadcast are not one step. `PanelIsCurrent` excepts this, and a Forget
  that failed, by `excused`; the next push repairs both.
* Run cancels the panels' contexts before closeAll, so the going-away frame of
  the shutdown is usually not sent.

### Bounds, and why they are enough

* TrustStore: two goroutines are enough for every race on `mu` and `writeMu`
  (a third only waits), two devices to see one writer's snapshot carry the
  other's change, two tokens and two names to tell an old record from a new one,
  one time of last contact, which nothing reads. The proofs
  remove these bounds.
* Pairing: a device has one attempt at a time, so two connections give every
  overlap of an attempt with the one before or beside it; a Forget at either end
  meets each stage of one. One connection suffices for what concerns a single
  attempt. `MaxForgets` is the only counter that is cut off: no Forget happens in
  the run with two attempts, and at most one in the other. Two Forgets, and a Forget
  between two attempts, are covered by the theorems alone.
* PeerLink: two sockets are what two daemons that dial each other open; one end
  has a second caller so that a flight is joined. A queue of two holds a hello
  or an answer with a signal behind it and is full with the close. `MaxTries`
  and `MaxFaults` are cut off at one: a loop that tries again starts where it
  started before, on an unused socket. `CloseSent` needs a fault when the far end
  never answers.
* Admission: three sockets of one address exceed its budget; the fourth, of
  another, makes the sweep run; the clock passes the edge of the window. The
  proofs remove all of these bounds.
* Roster: TTL 2, an event at least every cycle, dropped after 3, the least that
  satisfies the relations of the code's own periods. The ages stop
  growing where nothing tells them apart. One peer: the steps for two peers meet
  only in the debounce, which a change and an aging of one peer already share. Two
  timers, since the flush of one can overlap the next and no third.
* ControlPlane: a queue of two is filled by one pairing result. Panels share
  only the actors that push to them one after the other, so a second panel
  would add to what `closes` waits for, not to what can happen at the first; that
  `closeAll` comes to a second straggler is therefore not met by the run.
  `Dispatch` lets a panel ask only once its last answer is written, a guard the
  code does not have: it keeps the answers owed to a panel apart.
* Transfer: four chunks with a high mark of 1 fill the buffer, park the sender
  and wake it more than once; ceiling 3 lets files of 4 be refused; an ack every
  2 acks in the middle and at the end. The second file meets what the first left:
  a prompt, frames, a settled record. Liveness is checked with one file since a
  second starts only when the first send has returned.
* Symmetry is used on devices, tokens, names, goroutines, connections, sockets,
  timers and transfers in safety runs only (the refinement is a safety property
  too, and its mapping treats the permuted values alike). Runs turn the deadlock check off because
  everything here may come to rest: an attempt ends, a socket is used up, a daemon
  has stopped, every transfer id is used.

### Fairness

* `Pairing`: the deadline timer fires, and the driver finishes what it has begun.
  The deadline is one case of a select that chooses at random among the ready ones,
  so weak fairness of it alone is what the code owes. Neither human, nor the far
  end, nor the network, nor a reader owes anything.
* `PeerLink`: a call, a reader and a close each get their turn, and what has a
  timeout (a dial, the wait for an answer, closeGrace) ends. Nobody has to send
  or to forget.
* `Admission`: a goroutine goes on, and the wait for a hello ends with
  handshakeTimeout. Peers, humans and the clock owe nothing.
* `ControlPlane`: goroutines go on; the closing handshake, a write and a call of
  the peer layer end, with their timeouts at the latest. Nothing is assumed of
  the panels, and of the goroutines of one panel only that one of them goes on.
* `Transfer`: the accept timer fires, a read of the file answers, buffered
  frames go out while the channel is open, frames that arrived are dispatched,
  and a browser tells an end that the other has gone. No human ever owes an
  answer, a cancel or a close.
* `Roster` and `TrustStore` have no liveness property and no fairness:
  `PanelIsCurrent` says that a push is due, and that a due timer fires is up to the
  runtime; `WriteMuHasOwner` says that whoever holds the lock is a goroutine with
  file operations still to do, and that those come back is up to the system.

## Proofs

Every invariant the passing runs check, the two safety action properties and the
refinement are theorems, 36 with the type invariants: for any sets of devices, sockets, panels, files and
goroutines, any sizes and bounds, and faults at any time. Each proof module
states an inductive invariant `IInv`, shows that `Init` implies it and
that every step keeps it (one lemma per action), and reads the properties off.
The invariants were checked by TLC on the instances of the runs, and on some
with other bounds, before they were proved.

**`TrustStore_proof`**: `TypeCorrect`, `SnapshotsAreCurrent`, `LockHasOwner`,
`RemovalIsFinal`, `PairingIsDurable`, and `StoreImplementsLedger`: every step is a ledger step or
a stutter. None of the invariants is inductive. `IInv` adds that only the holder of
`writeMu` is inside a call and that its snapshot is the memory (`WriterInv`), that
the operation of the call under way agrees with the memory it has changed
(`CallInv`), and how file, disk, memory and the histories are related at every
stage (`HistoryInv`): an acknowledged record is in the memory and in a flushed
file, except between the lines of one call, and on the disk too unless its device is
`late`.

**`Pairing_proof`**: `TypeCorrect`, `BothHumans`, `OneDriver`, `OneResult`,
`ResponderFirst`, `OneToken`.

The first five follow an accept from the driver that took it. `ChannelInv` says
that every frame on a wire and every event in a queue says only what is already
true of the end that sent it: an accept frame means its sender's human accepted,
a paired frame means the responder has accepted, stored and authenticated.
`AttemptInv` has three parts per end and attempt: `DriverOK` (a running driver is
the registered one), `StageOK` (which results go with which stage) and `TrailOK`
(what a remote accept, a token or a result implies about both humans and about
the responder). The variables a frame speaks of only grow, so an old frame
stays true.

`OneToken` is about one attempt against the next. The steps are first reduced to
what they may do to tokens, stages and accepts (`Move`, with
`MWire` for the codes on the wires), then `TokenInv` is shown to survive each. Its
heart is `Aloof`: an end f has accepted an attempt the other end e is still
at, and f is at another one already. If f dialled that one, e has not taken part in
it and f has seen no code; if e did, e has not accepted it. In both
cases f cannot store the new attempt's token before e is done with the old one.
Around it: a dialer that has not stored holds no older token (`Dials`,
`Accepts`, from the already-paired check through `Starts`), and a responder that has stored
keeps its token for its dialer (`Awaits`). All of this needs `~raced`, since a token
stored between the check and the attempt breaks `Starts`.

**`PeerLink_proof`**: `TypeCorrect`, `OneFlight`, `NoOrphan`, `SignalsKept`,
`RegistriesConverge`, `ForgottenCutOff`. `FrameOK` says what a frame in a queue
tells of the two ends: a hello or its answer is the first frame of its socket,
before its reader has read anything, and an answer means the accepting end has
decided. `CallOK` says that a call holds the flight it dials in and the socket it says
it has, `SocketOK` which stages of the two ends go together, and that an open
socket nobody serves yet has a call that will register or close it;
`ForgetOK`, that after Forget nothing new verifies. `RegistriesConverge`
then needs no induction: at rest no call and no frame is left, so an end that
has registered an open socket faces an end that serves the same one.

**`Admission_proof`**: `TypeCorrect`, `SlotsAreMatched`, `BudgetHolds`,
`DenialsAreEarned` (an action property). `SlotInv` adds to the counter where a
socket may have released already, so that each path gives back a slot it has. The
other two rest on one fact (`PruneIsWindow`): after pruning, a list is
exactly what its address was granted inside the window. `LimiterInv` carries the two
halves of it: a sweep or a pruning loses nothing that is still inside, and a
denied attempt adds nothing. A grant then adds one to fewer than `Limit`, and changes
only the window that ends now; the clock only makes windows smaller.

**`ControlPlane_proof`**: `TypeCorrect`, `EveryFrameKept`, `ResultComesFirst`.
`QueueOK` says that what a live panel is owed is in its queue once or just being
handed over, and not both. To keep it, `JobInv` and `OwedInv` say who may be handing
over what: an actor's frames are its own, a callback that has not begun owes
nobody, the list of a pairing is owed to nobody while its result is still
being pushed, and a panel that has not come is in no snapshot. A panel whose queue
was full is closed, which ends what it is owed.

**`Roster_proof`**: `TypeCorrect`, `NoChangeIsLost`, `StatusEarned`,
`RosterMirrors`. Of the pushes: before its list is read a push holds nothing old
(`FreshInv`), the timer the server remembers is set or in its flush (`TimerInv`),
and `PanelIsCurrent` itself is kept by every step with the two. Of a peer: the last event in the channel says what the
browser has (`Pending`), and with none there the roster has what was emitted last
(`Settled`, `Mirror`); an offline record is a stale one (`OfflineIsStale`); and
each sighting in the channel will be news to the roster (`FirstIsWorth`,
`NextIsWorth`). `SightingIsPushed` is the lemma that joins discovery and roster:
every sighting the browser emits is worth a push. It needs `Epsilon <= Refresh`
(10 s, and a third of 30 s); TLC shows that a larger epsilon leaves the panel with
an old age. `TTL + Refresh <= DropAfter` (40 s against 60 s) keeps the sweeper from
dropping a peer the browser still hears.

**`Transfer_proof`**: `TypeCorrect`, `Consented`, `Whole`, `Bounded`,
`ReceptionsFed`, `SettlesOnce` (an action property). `FrameOK` says what a frame
that may still reach the receiver tells: a start is the first frame of its file and
meets no record, a chunk was consented to and is the successor of what is kept or
of a chunk in front of it, a complete is the sender's word. `AnswerOK` says the same of
the way back: an accept means yes, an ack counts no more than what is kept.
`TopOK` adds that the last chunk written is kept or on its way, so a complete
finds the whole file; `FedOK` is `ReceptionIsFed` from the start frame on.

**`AddrPref_proof`**: `PickPrefersIPv4`. The bonuses of an IPv6 address never reach
the base of an ordinary IPv4 one, because the primary subnet, found by a udp4
route, holds no IPv6 address.

The assumptions are those of the modules: the model values are distinct, the
bounds are numbers, the sockets of `Admission` finitely many, an address is of one
of the kinds `score` tells apart, and the relations between periods or marks
that the code's own constants satisfy (`LowWater < HighWater`, and the two of the
roster above).

Only model-checked: the liveness properties (`EveryPromptIsAnswered`, `CapIsTemporary`, `CallbackReturns`, `StopsAsAWhole`,
`DeadSocketUnregistered`, `ActiveReceptionEnds` and the two `EverySendReturns`),
because fairness is beyond the prover. `MutualDialKeepsOne` and
`FailedMeansUntrusted` are false.

`TypeOK` is an invariant of three runs (`PeerLink`, `ControlPlane` and `Transfer`)
and a theorem of every module with state. `OneResultPerAttempt` and
`DialerNeverPairedAlone` are checked by `PairingOneAttempt` only: their theorems cover
more connections, more Forgets and signals too. `ReceptionIsFed` and
`ActiveReceptionEnds` except the transfers the sender gave up without a word: they
say that there is no other way to starve a reception.

## What is not modelled

* The WebRTC link's negotiation, the session routing above it and the daemon
  client. The link's glare and its held candidates are decided together with the
  browser's RTCPeerConnection, whose state machine the repository does not
  contain; its close and its channel states, which it does decide, are in
  `Transfer`. The daemon client is one socket and one timer in one event loop.
* Daemon shutdown while an attempt, a handshake or a write is under way. (The death
  of the process during a write is in `TrustStore`.)
* Malformed, oversized or mis-addressed frames (an offer whose size is no number
  among them): validators reject them before any state changes. `Admission` and `PeerLink` have the closes they cause.
* `OnPeerState` reports, `SetDevices` (only tests call it), mDNS browse cycles
  and their backoff, TXT records.
* Cryptography, encodings, DNS, configuration, rendering.
* How long a chatty device can defer a push: the debounce timer is untimed in
  `Roster`, and `devicesMaxDelay` only says when a reset is skipped.
* Inline text (it leaves no state), progress events, a sender that streams
  more than it announced, and `createObjectURL` failing.

## Plan

1. done: `TrustLedger`, `TrustStore`, `Pairing`, `Transfer`, their runs, and
   the proofs of the first two.
2. done: `PeerLink`, `Admission`, `ControlPlane`, `Roster` over `AddrPref`, their
   runs, and the proofs of `Admission` and `AddrPref`.
3. done: `Transfer_proof`, `PeerLink_proof`, `ControlPlane_proof`, the rest of
   `Roster_proof` and the tokens of `Pairing_proof`: every safety property a run
   checks is a theorem.
4. done: power losses apart from the death of the process, the failed Forget, the
   failed pairing write, refused frames of the data channel.
5. next: what the liveness runs rest on and can be said as safety, such as that
   a parked wait always has its waker (`Transfer`), that a call waiting for
   a flight has one to wait for (`PeerLink`), and that some step of a goroutine
   inside a call is possible.
