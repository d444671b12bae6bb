------------------------------- MODULE Transfer -------------------------------
(***************************************************************************)
(* extension/lib/transfer.ts: files going from one panel to another over   *)
(* one ordered data channel.  The sender announces a file, the human at    *)
(* the receiver is asked, and only then do chunks flow, held back by the   *)
(* amount the channel has buffered.  Either end may cancel, the channel    *)
(* may break, and either panel may close its session at any moment.        *)
(*                                                                         *)
(* One direction is modelled: an engine's outgoing and incoming halves     *)
(* share nothing but the channel.  The panel runs its sends one after      *)
(* another (useSharing.ts enqueueSend) and shows one consent prompt at a   *)
(* time (askConsent).  JavaScript runs a handler and the continuations it  *)
(* wakes without interruption, so each of them is one action; the places   *)
(* where sendFile really waits are the values of "loop".                   *)
(*                                                                         *)
(* A file is measured in chunks, and a chunk is its position in the file.  *)
(* Inline text, which has no state, is left out; so is a sender that       *)
(* streams more than it announced, which no sender of this code does.      *)
(***************************************************************************)
EXTENDS Naturals, Sequences, FiniteSets

CONSTANTS
  Transfer,    \* transfer ids
  None,        \* no transfer
  Largest,     \* the largest file anybody sends, in chunks
  Ceiling,     \* maxInMemoryBytes
  HighWater, LowWater,  \* HIGH_WATER and BUFFERED_LOW
  AckEvery,    \* ACK_INTERVAL_BYTES
  Impatient,   \* the accept timeout may fire
  IOFails,     \* reading the file, and writing to an open channel, may fail
  LinkFails    \* the channel may break

ASSUME Sizes ==
  /\ None \notin Transfer
  /\ Largest \in Nat /\ Ceiling \in Nat
  /\ HighWater \in Nat /\ LowWater \in Nat /\ LowWater < HighWater
  /\ AckEvery \in Nat \ {0}
  /\ Impatient \in BOOLEAN /\ IOFails \in BOOLEAN /\ LinkFails \in BOOLEAN

Live   == {"pending", "active"}
Final  == {"complete", "cancelled", "failed"}
Status == {"none"} \cup Live \cup Final
End    == {"sender", "receiver"}

Frame ==
  [kind : {"start", "chunk", "complete", "cancel", "accept", "decline", "ack", "toolarge"},
   of : Transfer, n : 0..Largest]

VARIABLES
  size,       \* File.size
  loop,       \* where the sender's sendFile waits: for the answer, the file,
              \*   the buffer; "none" before it is called, "done" once it returned
  out,        \* status of the sender's record; it is in outgoing while Live
  sent,       \* chunks written
  confirmed,  \* ackedBytes
  inc,        \* status of the receiver's record; it is in incoming while Live
  got,        \* the chunks the receiver kept (a settled record has let go of them)
  acked,      \* bytes at its last ack
  prompt,     \* the transfer whose consent dialog is on its screen, or None
  buf,        \* what the sender's channel has buffered
  net,        \* frames on their way to the receiver
  toS,        \* frames on their way to the sender
  chan,       \* each end: "open"; "closing" until its close event; "closed";
              \*   "dead" when the connection failed under an open channel
  said,       \* history: what the human answered
  abandoned   \* history: transfers the sender gave up without a word

senderVars   == <<size, loop, out, sent, confirmed, abandoned>>
receiverVars == <<inc, got, acked, prompt, said>>
vars == <<senderVars, receiverVars, buf, net, toS, chan>>

TypeOK ==
  /\ size \in [Transfer -> 0..Largest]
  /\ loop \in [Transfer -> {"none", "accept", "read", "drain", "done"}]
  /\ out \in [Transfer -> Status] /\ inc \in [Transfer -> Status]
  /\ sent \in [Transfer -> 0..Largest] /\ \A t \in Transfer : sent[t] <= size[t]
  /\ confirmed \in [Transfer -> 0..Largest] /\ acked \in [Transfer -> 0..Largest]
  /\ got \in [Transfer -> Seq(1..Largest)]
  /\ prompt \in Transfer \cup {None}
  /\ buf \in Seq(Frame) /\ net \in Seq(Frame) /\ toS \in Seq(Frame)
  /\ chan \in [End -> {"open", "closing", "closed", "dead"}]
  /\ said \in [Transfer -> {"none", "yes", "no"}]
  /\ abandoned \in SUBSET Transfer

Init ==
  /\ size = [t \in Transfer |-> 0]
  /\ loop = [t \in Transfer |-> "none"]
  /\ out = [t \in Transfer |-> "none"] /\ inc = [t \in Transfer |-> "none"]
  /\ sent = [t \in Transfer |-> 0]
  /\ confirmed = [t \in Transfer |-> 0] /\ acked = [t \in Transfer |-> 0]
  /\ got = [t \in Transfer |-> <<>>]
  /\ prompt = None
  /\ buf = <<>> /\ net = <<>> /\ toS = <<>>
  /\ chan = [e \in End |-> "open"]
  /\ said = [t \in Transfer |-> "none"]
  /\ abandoned = {}

-----------------------------------------------------------------------------
(* The channel.  isOpen is the channel's own readyState, which stays open  *)
(* when the peer connection under it has failed.                           *)

IsOpen(e) == chan[e] \in {"open", "dead"}

Msg(kind, t, n) == [kind |-> kind, of |-> t, n |-> n]

IsChunk(f) == f.kind = "chunk"

(* bufferedAmount, in chunks: control frames weigh nothing. *)
Buffered(q) == Cardinality({i \in DOMAIN q : IsChunk(q[i])})

(* sendFrame of a last word, whose result nobody looks at.                 *)
Written(t, f) ==
  \/ IsOpen("sender") /\ buf' = Append(buf, f) /\ UNCHANGED abandoned
  \/ ~IsOpen("sender") /\ UNCHANGED <<buf, abandoned>>
  \/ IsOpen("sender") /\ IOFails /\ UNCHANGED buf /\ abandoned' = abandoned \cup {t}

(* An answer of the receiver, or its ack: nobody looks at the result.      *)
Reply(f) ==
  \/ (\A e \in End : chan[e] = "open") /\ toS' = Append(toS, f)
  \/ (IOFails \/ \E e \in End : chan[e] # "open") /\ UNCHANGED toS

Sending(t)   == out[t] \in Live
Receiving(t) == inc[t] \in Live

(* settleOutgoing with anything but "complete": a wait for the answer or   *)
(* for the buffer is woken and sendFile returns; a wait for the file       *)
(* notices when the file answers.                                          *)
Settled(t, status) ==
  /\ out' = [out EXCEPT ![t] = status]
  /\ loop' = [loop EXCEPT ![t] = IF @ \in {"accept", "drain"} THEN "done" ELSE @]

(* Mutated: a close that does not wake a send parked on the buffer. *)
AllSettled_LeavesWaiters(status) ==
  /\ out' = [t \in Transfer |-> IF Sending(t) THEN status ELSE out[t]]
  /\ loop' = [t \in Transfer |-> IF Sending(t) /\ loop[t] = "accept" THEN "done" ELSE loop[t]]

AllSettled(status) ==
  /\ out' = [t \in Transfer |-> IF Sending(t) THEN status ELSE out[t]]
  /\ loop' = [t \in Transfer |-> IF Sending(t) /\ loop[t] \in {"accept", "drain"}
                                 THEN "done" ELSE loop[t]]

-----------------------------------------------------------------------------
(* The sender. *)

(* sendFile, called by the panel's queue once the previous send returned. *)
SendFile(t) ==
  /\ loop[t] = "none" /\ \A u \in Transfer : loop[u] \in {"none", "done"}
  /\ \E n \in 0..Largest :
       /\ size' = [size EXCEPT ![t] = n]
       /\ \/ /\ IsOpen("sender") /\ buf' = Append(buf, Msg("start", t, n))
             /\ out' = [out EXCEPT ![t] = "pending"] /\ loop' = [loop EXCEPT ![t] = "accept"]
          \/ /\ ~IsOpen("sender") \/ IOFails
             /\ out' = [out EXCEPT ![t] = "failed"] /\ loop' = [loop EXCEPT ![t] = "done"]
             /\ UNCHANGED buf
  /\ UNCHANGED <<sent, confirmed, abandoned, receiverVars, net, toS, chan>>

(* waitForAccept gives up: the send is settled as declined, and nothing is *)
(* said to the receiver.                                                   *)
AcceptTimeout(t) ==
  /\ Impatient
  /\ loop[t] = "accept"
  /\ Settled(t, "cancelled")
  /\ abandoned' = abandoned \cup {t}
  /\ UNCHANGED <<size, sent, confirmed, receiverVars, buf, net, toS, chan>>

(* The file has more to give; and the channel holds enough already. *)
MoreToSend_OneTooMany(t) == sent[t] <= size[t]  \* Mutated: an off-by-one at the end
MoreToSend(t) == sent[t] < size[t]

Full_OneMore == Buffered(buf) > HighWater + 1   \* Mutated: an off-by-one at the mark
Full == Buffered(buf) > HighWater

(* Mutated: the same chunk is cut from the view again. *)
Put_SameChunk(t, q) ==
  /\ buf' = Append(q, Msg("chunk", t, sent[t] + 1))
  /\ loop' = [loop EXCEPT ![t] = "read"]
  /\ UNCHANGED sent

(* sendChunk once the buffer lets it. *)
Put(t, q) ==
  /\ buf' = Append(q, Msg("chunk", t, sent[t] + 1))
  /\ sent' = [sent EXCEPT ![t] = @ + 1]
  /\ loop' = [loop EXCEPT ![t] = "read"]

(* streamFile: the file has answered. *)
ReadChunk(t) ==
  /\ loop[t] = "read"
  /\ \/ /\ ~Sending(t)
        /\ loop' = [loop EXCEPT ![t] = "done"]
        /\ UNCHANGED <<out, sent, buf, abandoned>>
     \/ /\ Sending(t) /\ MoreToSend(t) /\ ~Full /\ IsOpen("sender")
        /\ Put(t, buf)
        /\ UNCHANGED <<out, abandoned>>
     \/ /\ Sending(t) /\ MoreToSend(t) /\ Full
        /\ loop' = [loop EXCEPT ![t] = "drain"]
        /\ UNCHANGED <<out, sent, buf, abandoned>>
     \/ /\ Sending(t) /\ MoreToSend(t) /\ ~Full /\ ~IsOpen("sender")
        /\ out' = [out EXCEPT ![t] = "failed"]
        /\ loop' = [loop EXCEPT ![t] = "done"]
        /\ UNCHANGED <<sent, buf, abandoned>>
     \/ /\ Sending(t) /\ ~MoreToSend(t)
        /\ Written(t, Msg("complete", t, 0))
        /\ out' = [out EXCEPT ![t] = "complete"]
        /\ loop' = [loop EXCEPT ![t] = "done"]
        /\ UNCHANGED sent
  /\ UNCHANGED <<size, confirmed, receiverVars, net, toS, chan>>

(* The file cannot be read any further, and streamFile throws; or the      *)
(* channel is open and refuses the chunk.                                  *)
ReadError(t) ==
  /\ IOFails
  /\ loop[t] = "read" /\ Sending(t)
  /\ out' = [out EXCEPT ![t] = "failed"]
  /\ loop' = [loop EXCEPT ![t] = "done"]
  /\ abandoned' = abandoned \cup {t}
  /\ UNCHANGED <<size, sent, confirmed, receiverVars, buf, net, toS, chan>>

(* Mutated: a cancel that settles the record and tells nobody. *)
CancelSend_Silent(t) ==
  /\ Sending(t)
  /\ Settled(t, "cancelled")
  /\ UNCHANGED <<size, sent, confirmed, abandoned, receiverVars, buf, net, toS, chan>>

CancelSend(t) ==
  /\ Sending(t)
  /\ Written(t, Msg("cancel", t, 0))
  /\ Settled(t, "cancelled")
  /\ UNCHANGED <<size, sent, confirmed, receiverVars, net, toS, chan>>

Hear(kinds, t) ==
  /\ chan["sender"] = "open"
  /\ toS # <<>> /\ Head(toS).kind \in kinds /\ Head(toS).of = t
  /\ toS' = Tail(toS)

(* Mutated: any answer ends the wait as an accept. *)
HearAnswer_AnyAccepts(t) ==
  /\ Hear({"accept", "decline"}, t)
  /\ IF loop[t] # "accept" THEN UNCHANGED <<out, loop>>
     ELSE out' = [out EXCEPT ![t] = "active"] /\ loop' = [loop EXCEPT ![t] = "read"]
  /\ UNCHANGED <<size, sent, confirmed, abandoned, receiverVars, buf, net, chan>>

(* An answer to a wait that is over is ignored. *)
HearAnswer(t) ==
  /\ Hear({"accept", "decline"}, t)
  /\ IF loop[t] # "accept" THEN UNCHANGED <<out, loop>>
     ELSE IF Head(toS).kind = "accept"
     THEN out' = [out EXCEPT ![t] = "active"] /\ loop' = [loop EXCEPT ![t] = "read"]
     ELSE Settled(t, "cancelled")
  /\ UNCHANGED <<size, sent, confirmed, abandoned, receiverVars, buf, net, chan>>

HearAck(t) ==
  /\ Hear({"ack"}, t)
  /\ confirmed' = IF Sending(t) THEN [confirmed EXCEPT ![t] = Head(toS).n] ELSE confirmed
  /\ UNCHANGED <<size, loop, out, sent, abandoned, receiverVars, buf, net, chan>>

HearCancel(t) ==
  /\ Hear({"cancel", "toolarge"}, t)
  /\ IF Sending(t)
     THEN Settled(t, IF Head(toS).kind = "toolarge" THEN "failed" ELSE "cancelled")
     ELSE UNCHANGED <<out, loop>>
  /\ UNCHANGED <<size, sent, confirmed, abandoned, receiverVars, buf, net, chan>>

-----------------------------------------------------------------------------
(* The receiver. *)

Receive(kind, t) ==
  /\ chan["receiver"] = "open"
  /\ net # <<>> /\ Head(net).kind = kind /\ Head(net).of = t
  /\ net' = Tail(net)

(* handleStart up to the consent prompt.  A file that cannot be held is    *)
(* refused; while a prompt is on the screen another offer is declined.     *)
ReceiveStart(t) ==
  /\ Receive("start", t)
  /\ \/ /\ Head(net).n > Ceiling
        /\ inc' = [inc EXCEPT ![t] = "failed"]
        /\ Reply(Msg("toolarge", t, 0))
        /\ UNCHANGED prompt
     \/ /\ Head(net).n <= Ceiling /\ prompt # None
        /\ inc' = [inc EXCEPT ![t] = "cancelled"]
        /\ Reply(Msg("decline", t, 0))
        /\ UNCHANGED prompt
     \/ /\ Head(net).n <= Ceiling /\ prompt = None
        /\ inc' = [inc EXCEPT ![t] = "pending"]
        /\ prompt' = t
        /\ UNCHANGED toS
  /\ UNCHANGED <<senderVars, got, acked, said, buf, chan>>

(* Mutated: no second look at incoming after the prompt. *)
Answer_NoRecheck(yes) ==
  /\ prompt # None
  /\ prompt' = None
  /\ said' = [said EXCEPT ![prompt] = IF yes THEN "yes" ELSE "no"]
  /\ inc' = [inc EXCEPT ![prompt] = IF yes THEN "active" ELSE "cancelled"]
  /\ Reply(Msg(IF yes THEN "accept" ELSE "decline", prompt, 0))
  /\ UNCHANGED <<senderVars, got, acked, buf, net, chan>>

(* The human answers and handleStart goes on, unless the transfer has been *)
(* settled meanwhile.                                                      *)
Answer(yes) ==
  /\ prompt # None
  /\ prompt' = None
  /\ said' = [said EXCEPT ![prompt] = IF yes THEN "yes" ELSE "no"]
  /\ IF Receiving(prompt)
     THEN /\ inc' = [inc EXCEPT ![prompt] = IF yes THEN "active" ELSE "cancelled"]
          /\ Reply(Msg(IF yes THEN "accept" ELSE "decline", prompt, 0))
     ELSE UNCHANGED <<inc, toS>>
  /\ UNCHANGED <<senderVars, got, acked, buf, net, chan>>

(* handleBinary: a chunk of a transfer that is not accepted is dropped. *)
ReceiveChunk(t) ==
  /\ Receive("chunk", t)
  /\ IF inc[t] = "active"
     THEN /\ got' = [got EXCEPT ![t] = Append(@, Head(net).n)]
          /\ IF Len(got'[t]) - acked[t] >= AckEvery
             THEN acked' = [acked EXCEPT ![t] = Len(got'[t])] /\ Reply(Msg("ack", t, Len(got'[t])))
             ELSE UNCHANGED <<acked, toS>>
     ELSE UNCHANGED <<got, acked, toS>>
  /\ UNCHANGED <<senderVars, inc, prompt, said, buf, chan>>

ReceiveComplete(t) ==
  /\ Receive("complete", t)
  /\ IF ~Receiving(t) THEN UNCHANGED <<inc, toS>>
     ELSE IF Len(got[t]) = size[t]
     THEN inc' = [inc EXCEPT ![t] = "complete"] /\ Reply(Msg("ack", t, size[t]))
     ELSE inc' = [inc EXCEPT ![t] = "failed"] /\ UNCHANGED toS
  /\ UNCHANGED <<senderVars, got, acked, prompt, said, buf, chan>>

ReceiveCancel(t) ==
  /\ Receive("cancel", t)
  /\ inc' = IF Receiving(t) THEN [inc EXCEPT ![t] = "cancelled"] ELSE inc
  /\ UNCHANGED <<senderVars, got, acked, prompt, said, buf, toS, chan>>

CancelReceive(t) ==
  /\ Receiving(t)
  /\ inc' = [inc EXCEPT ![t] = "cancelled"]
  /\ Reply(Msg("cancel", t, 0))
  /\ UNCHANGED <<senderVars, got, acked, prompt, said, buf, net, chan>>

-----------------------------------------------------------------------------
(* The channel, and the sessions on it. *)

(* A parked send goes on: it writes its chunk, or that fails.              *)
Woken(t, q) ==
  /\ loop[t] = "drain"
  /\ \/ Put(t, q) /\ UNCHANGED <<out, abandoned>>
     \/ /\ IOFails /\ Settled(t, "failed")
        /\ abandoned' = abandoned \cup {t} /\ buf' = q /\ UNCHANGED sent

(* The network takes the next frame.  bufferedamountlow fires when the     *)
(* amount falls to the threshold, and a parked send goes on at once.       *)
Drain ==
  /\ chan["sender"] = "open" /\ buf # <<>>
  /\ net' = IF chan["receiver"] = "open" THEN Append(net, Head(buf)) ELSE net
  /\ LET rest == Tail(buf)
         low  == Buffered(buf) > LowWater /\ Buffered(rest) <= LowWater
     IN IF low /\ \E t \in Transfer : loop[t] = "drain"
        THEN \E t \in Transfer : Woken(t, rest)
        ELSE buf' = rest /\ UNCHANGED <<sent, loop, out, abandoned>>
  /\ UNCHANGED <<size, confirmed, receiverVars, toS, chan>>

Stop(e, how) ==
  /\ chan' = [chan EXCEPT ![e] = how]
  /\ IF e = "sender" THEN toS' = <<>> /\ UNCHANGED net ELSE net' = <<>> /\ UNCHANGED toS

(* The channel of one end is closing: nothing goes out or comes in, and    *)
(* the close event is on its way.                                          *)
LinkBreaks(e) ==
  /\ LinkFails /\ chan[e] = "open"
  /\ Stop(e, "closing")
  /\ UNCHANGED <<senderVars, receiverVars, buf>>

(* The other end has gone. *)
PeerGone(e) ==
  /\ chan[e] = "open" /\ \E f \in End \ {e} : chan[f] # "open"
  /\ Stop(e, "closing")
  /\ UNCHANGED <<senderVars, receiverVars, buf>>

(* handleChannelClose. *)
FailSends ==
  AllSettled("failed") /\ UNCHANGED <<size, sent, confirmed, abandoned>>

(* Mutated: only the transfers that still wait for consent are failed. *)
FailReceptions_Pending ==
  /\ inc' = [t \in Transfer |-> IF inc[t] = "pending" THEN "failed" ELSE inc[t]]
  /\ UNCHANGED <<got, acked, prompt, said>>

FailReceptions ==
  /\ inc' = [t \in Transfer |-> IF Receiving(t) THEN "failed" ELSE inc[t]]
  /\ UNCHANGED <<got, acked, prompt, said>>

CloseEvent(e) ==
  /\ chan[e] = "closing"
  /\ Stop(e, "closed")
  /\ IF e = "sender" THEN FailSends /\ buf' = <<>> /\ UNCHANGED receiverVars
     ELSE FailReceptions /\ UNCHANGED <<senderVars, buf>>

(* The peer connection reaches "failed", which counts as a close though    *)
(* the channel's readyState does not change.                               *)
ConnectionFails(e) ==
  /\ LinkFails /\ chan[e] = "open"
  /\ Stop(e, "dead")
  /\ IF e = "sender" THEN FailSends /\ UNCHANGED receiverVars
     ELSE FailReceptions /\ UNCHANGED senderVars
  /\ UNCHANGED buf

(* closeSession: the prompt is taken down, the engine disposed and the     *)
(* link closed, with no word to the other end but the close itself.        *)
CloseSession(e) ==
  /\ chan[e] # "closed"
  /\ Stop(e, "closed")
  /\ IF e = "sender"
     THEN /\ AllSettled("cancelled")
          /\ buf' = <<>>
          /\ UNCHANGED <<size, sent, confirmed, abandoned, receiverVars>>
     ELSE /\ inc' = [t \in Transfer |-> IF Receiving(t) THEN "cancelled" ELSE inc[t]]
          /\ prompt' = None
          /\ UNCHANGED <<senderVars, got, acked, said, buf>>

-----------------------------------------------------------------------------
Sender(t) ==
  \/ SendFile(t) \/ AcceptTimeout(t) \/ ReadChunk(t) \/ ReadError(t) \/ CancelSend(t)
  \/ HearAnswer(t) \/ HearAck(t) \/ HearCancel(t)

Receiver(t) ==
  \/ ReceiveStart(t) \/ ReceiveChunk(t) \/ ReceiveComplete(t) \/ ReceiveCancel(t)
  \/ CancelReceive(t)

Channel(e) ==
  LinkBreaks(e) \/ PeerGone(e) \/ CloseEvent(e) \/ ConnectionFails(e) \/ CloseSession(e)

Next ==
  \/ \E t \in Transfer : Sender(t) \/ Receiver(t)
  \/ \E yes \in BOOLEAN : Answer(yes)
  \/ Drain
  \/ \E e \in End : Channel(e)

Spec == Init /\ [][Next]_vars

(* What this code and the browser owe: the accept timer fires, a read of   *)
(* the file answers, buffered frames go out, frames that arrived are       *)
(* handed to the engine, and an end learns that the other one has gone.    *)
(* Humans owe nothing.                                                     *)
FairSpec ==
  /\ Spec
  /\ \A t \in Transfer :
       /\ WF_vars(AcceptTimeout(t))
       /\ WF_vars(ReadChunk(t) \/ ReadError(t))
       /\ WF_vars(HearAnswer(t) \/ HearAck(t) \/ HearCancel(t))
       /\ WF_vars(ReceiveStart(t) \/ ReceiveChunk(t) \/ ReceiveComplete(t) \/ ReceiveCancel(t))
  /\ WF_vars(Drain)
  /\ \A e \in End : WF_vars(PeerGone(e)) /\ WF_vars(CloseEvent(e))

-----------------------------------------------------------------------------
(* "Nothing is ever accepted without a human answering" (useSharing.ts:280-*)
(* 283): no chunk leaves the sender, and none is kept, of a file the human *)
(* at the other end did not say yes to.                                    *)
ConsentGated ==
  \A t \in Transfer :
    sent[t] > 0 \/ got[t] # <<>> \/ inc[t] \in {"active", "complete"} => said[t] = "yes"

(* What the receiver keeps is the beginning of the file in order, never    *)
(* more than was written, and an ack never counts more than is kept; a     *)
(* file is handed over only when it is whole, and only if the sender also  *)
(* counts it as sent (transfer.ts:796-900).                                *)
DeliveredWhole ==
  \A t \in Transfer :
    /\ got[t] = [i \in 1..Len(got[t]) |-> i]
    /\ confirmed[t] <= Len(got[t]) /\ Len(got[t]) <= sent[t]
    /\ inc[t] = "complete" => Len(got[t]) = size[t] /\ out[t] = "complete"

(* A settled record stays as it was settled, at both ends, whatever answer,*)
(* cancel, close or timer comes late (transfer.ts:980, 998, webrtc.ts:     *)
(* 197-203).                                                               *)
SettledOnce ==
  [][\A t \in Transfer :
       /\ out[t] \in Final => out'[t] = out[t]
       /\ inc[t] \in Final => inc'[t] = inc[t]]_vars

(* The channel never buffers more than one chunk above HIGH_WATER          *)
(* (transfer.ts:603-611).                                                  *)
BufferBounded == Buffered(buf) <= HighWater + 1

(* The last word on t is on its way to the receiver. *)
LastWordComing(t) ==
  \E i \in DOMAIN (net \o buf) :
    (net \o buf)[i].of = t /\ (net \o buf)[i].kind \in {"complete", "cancel"}

Fed(t) ==
  inc[t] = "active" /\ (\A e \in End : chan[e] = "open")
    => Sending(t) \/ LastWordComing(t)

(* A transfer in progress at the receiver is one the sender is still       *)
(* sending, or its last word is on the way, unless the sender gave it up   *)
(* after a timeout, or could not read the file or write to the channel.    *)
ReceptionIsFed == \A t \in Transfer : Fed(t) \/ t \in abandoned

(* sendFile returns, so the panel's queue of sends goes on: no cancel,     *)
(* close or full buffer leaves it waiting for ever (transfer.ts:634-636).  *)
EverySendReturns ==
  \A t \in Transfer : loop[t] \in {"accept", "read", "drain"} ~> loop[t] = "done"

(* An accepted transfer ends at the receiver too: delivered, cancelled or  *)
(* failed, unless the sender gave it up without a word.                    *)
ActiveReceptionEnds ==
  \A t \in Transfer : inc[t] = "active" ~> inc[t] # "active" \/ t \in abandoned
===============================================================================
