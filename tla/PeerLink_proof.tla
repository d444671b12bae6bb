--------------------------- MODULE PeerLink_proof ---------------------------
(***************************************************************************)
(* The safety properties of PeerLink for any number of sockets, calls,     *)
(* queue sizes and network faults.  The inductive invariant says what a    *)
(* frame that waits on a socket tells of the two ends of it, and that a    *)
(* call holds the socket it says it holds.                                 *)
(***************************************************************************)
EXTENDS PeerLink, SequenceTheorems, TLAPS

(* Where the frame that "e" has queued at position i of c may be met.      *)
FrameOK(c, e, i) ==
  LET f == out[c][e][i] IN
  /\ f = "hello" =>
       i = 1 /\ dialer[c] = e /\ reader[c][Other(e)] = "hello" /\ ~Dead(c, Other(e))
  /\ f \in {"ready", "required"} =>
       /\ i = 1 /\ dialer[c] = Other(e) /\ reader[c][Other(e)] = "none"
       /\ \A k \in Caller : via[k] = c => call[k] # "ready"
       /\ reader[c][e] \in IF f = "ready" THEN {"register", "loop", "gone"}
                           ELSE {"pairing", "gone"}
  /\ f \in Sender => reader[c][e] \in {"loop", "gone"}

WireInv == \A c \in Conn, e \in End : \A i \in 1 .. Len(out[c][e]) : FrameOK(c, e, i)

(* A call that dials holds the flight of its device, and its socket is not *)
(* registered yet; one that has a socket found it registered.              *)
CallOK(k) ==
  /\ call[k] = "timer" => k \in Retry /\ tries[k] < MaxTries
  /\ Dials(k) => dialing[At(k)] = k
  /\ call[k] \in {"reply", "ready"} =>
       /\ via[k] \in Conn /\ dialer[via[k]] = At(k)
       /\ reader[via[k]][At(k)] = "none"
  /\ call[k] = "ready" => reader[via[k]][Other(At(k))] \in {"register", "loop", "gone"}
  /\ call[k] \in {"live", "sent"} =>
       via[k] \in Conn /\ reader[via[k]][At(k)] \in {"loop", "gone"}

CallInv == \A k \in Caller : CallOK(k)

(* An end that has not read the hello is the one that was dialled.  The    *)
(* end that dialled has a call that will register or close the socket.     *)
SocketOK(c, e) ==
  /\ dialer[c] = None => reader[c][e] = "none" /\ up[c][e] = "unused"
  /\ dialer[c] # None => up[c][e] # "unused"
  /\ dialer[c] = Other(e) => reader[c][e] # "none"
  /\ dialer[c] = e => reader[c][e] \in {"none", "loop", "gone"}
  /\ dialer[c] = e /\ reader[c][e] # "none" =>
       reader[c][Other(e)] \in {"register", "loop", "gone"}
  /\ dialer[c] = e /\ reader[c][e] = "none" /\ up[c][e] = "open" =>
       \E k \in Caller : At(k) = e /\ via[k] = c /\ call[k] \in {"reply", "ready"}
  /\ reg[e] = c => reader[c][e] = "loop"
  /\ reader[c][e] = "gone" => Dead(c, e)

SocketInv == \A c \in Conn, e \in End : SocketOK(c, e)

(* After Forget no token leaves and none verifies.                         *)
ForgetOK(e) ==
  /\ forget[e] # "no" => ~trusted[e]
  /\ forget[e] = "done" /\ ~straddled[e] => reg[e] = None /\ ~Handshaking(e)

ForgetInv == \A e \in End : ForgetOK(e)

IInv == /\ TypeOK /\ WireInv /\ CallInv /\ SocketInv /\ ForgetInv
        /\ NoOrphanSocket /\ SignalsAccounted

-----------------------------------------------------------------------------
LEMMA EndFacts ==
  ASSUME NEW e \in End
  PROVE  /\ Other(e) \in End /\ Other(Other(e)) = e /\ Other(e) # e /\ e # None
         /\ \A x \in End : x = e \/ x = Other(e)
BY Apart DEF End, Other

LEMMA CallerFacts ==
  ASSUME NEW k \in Caller
  PROVE  At(k) \in End /\ k # None
BY Apart DEF At, End

(* How the sockets look, whoever uses them.                                *)
Sockets ==
  /\ out \in [Conn -> [End -> Seq(Frame)]]
  /\ up \in [Conn -> [End -> {"unused", "open", "closing", "dead"}]]
  /\ \A c \in Conn, e \in End : Len(out[c][e]) <= SendBuffer

LEMMA SocketsTyped == TypeOK => Sockets
BY DEF TypeOK, Sockets

(* What a step does to the sockets, unless it opens one or answers a       *)
(* hello: a frame that is queued now was queued before, no further ahead,  *)
(* or is a close, or a signal on a socket that was registered; ...         *)
OnlyOlder ==
  \A c \in Conn, e \in End : \A i \in 1 .. Len(out'[c][e]) :
    \/ out'[c][e][i] = "close"
    \/ out'[c][e][i] \in Sender /\ reader[c][e] \in {"loop", "gone"}
    \/ \E j \in i .. Len(out[c][e]) : out'[c][e][i] = out[c][e][j]

(* ... a signal leaves a queue only at its head, to arrive, or when the    *)
(* socket dies; ...                                                        *)
Kept ==
  \A c \in Conn, e \in End : \A i \in 1 .. Len(out[c][e]) : out[c][e][i] \in Sender =>
    \/ out[c][e][i] \in arrived'
    \/ \E j \in 1 .. Len(out'[c][e]) : out'[c][e][j] = out[c][e][i]
    \/ \E x \in End : up'[c][x] = "dead"

(* ... an end that dies reads no more; and no end opens again.             *)
FreshDead ==
  \A c \in Conn, e \in End : up'[c][e] = "dead" => Dead(c, e) \/ out'[c][Other(e)] = <<>>

Ageing ==
  \A c \in Conn, e \in End :
    \/ up'[c][e] = up[c][e]
    \/ up[c][e] \in {"open", "closing"} /\ up'[c][e] \in {"closing", "dead"}

Tame == Sockets' /\ OnlyOlder /\ Kept /\ FreshDead /\ Ageing

(* What the closing of one end of a socket comes to.                       *)
Closes(c, e) ==
  /\ Tame
  /\ \A d \in Conn, x \in End : d # c \/ x # e => up'[d][x] = up[d][x]
  /\ up'[c][e] \in {"closing", "dead"}

LEMMA CutType ==
  ASSUME NEW S, NEW s \in Seq(S), NEW n \in 0 .. Len(s)
  PROVE  /\ SubSeq(s, 1, n) \in Seq(S) /\ Len(SubSeq(s, 1, n)) = n
         /\ \A i \in 1 .. n : SubSeq(s, 1, n)[i] = s[i]
BY SubSeqProperties

LEMMA TameIdle ==
  ASSUME Sockets, UNCHANGED <<out, up>>
  PROVE  Tame
<1>1. OnlyOlder
  BY LenProperties DEF OnlyOlder, Sockets
<1>2. Kept
  BY DEF Kept, Sockets
<1>3. Sockets' /\ FreshDead /\ Ageing
  BY DEF Sockets, FreshDead, Ageing, Dead
<1> QED BY <1>1, <1>2, <1>3 DEF Tame

(* Frames may be cut off the end of the queues of a socket that dies.      *)
LEMMA HardCloseCloses ==
  ASSUME Sockets, NEW c \in Conn, NEW e \in End, up[c][e] # "unused", HardClose(c, e)
  PROVE  Closes(c, e) /\ up'[c][e] = "dead"
<1>1. /\ up' \in [Conn -> [End -> {"unused", "open", "closing", "dead"}]]
      /\ up'[c][e] = "dead"
      /\ \A d \in Conn, x \in End : d # c \/ x # e => up'[d][x] = up[d][x]
  BY DEF Sockets, HardClose
<1>2. CASE Dead(c, e)
  <2>1. UNCHANGED <<out, up>>
    BY <1>1, <1>2 DEF HardClose, Sockets, Dead
  <2> QED BY <1>1, <2>1, TameIdle DEF Closes
<1>3. CASE ~Dead(c, e)
  <2>1. PICK n \in 0 .. Len(out[c][e]) :
          out' = [out EXCEPT ![c] = [x \in End |-> IF x = e THEN SubSeq(out[c][e], 1, n) ELSE <<>>]]
    <3>1. \A n \in {0} : n \in 0 .. Len(out[c][e])
      BY DEF Sockets
    <3> QED BY <1>3, <3>1 DEF HardClose
  <2>2. /\ SubSeq(out[c][e], 1, n) \in Seq(Frame) /\ Len(SubSeq(out[c][e], 1, n)) = n
        /\ \A i \in 1 .. n : SubSeq(out[c][e], 1, n)[i] = out[c][e][i]
    BY CutType DEF Sockets
  <2>3. /\ out'[c][e] = SubSeq(out[c][e], 1, n) /\ out'[c][Other(e)] = <<>>
        /\ \A d \in Conn, x \in End : d # c => out'[d][x] = out[d][x]
    BY <2>1, EndFacts DEF Sockets
  <2>4. out' \in [Conn -> [End -> Seq(Frame)]]
    <3>1. [x \in End |-> IF x = e THEN SubSeq(out[c][e], 1, n) ELSE <<>>] \in [End -> Seq(Frame)]
      BY <2>2
    <3> QED BY <2>1, <3>1 DEF Sockets
  <2>5. \A d \in Conn, x \in End :
          out[d][x] \in Seq(Frame) /\ Len(out[d][x]) <= SendBuffer /\ Len(out[d][x]) \in Nat
    BY LenProperties DEF Sockets
  <2>6. ASSUME NEW d \in Conn, NEW x \in End
        PROVE  /\ Len(out'[d][x]) <= SendBuffer
               /\ \A i \in 1 .. Len(out'[d][x]) :
                    i <= Len(out[d][x]) /\ out'[d][x][i] = out[d][x][i]
    <3>1. CASE d # c
      BY <2>3, <2>5, <3>1
    <3>2. CASE d = c /\ x = e
      BY <2>2, <2>3, <2>5, <3>2, Apart
    <3>3. CASE d = c /\ x = Other(e)
      BY <2>3, <3>3, Apart, EmptySeq
    <3> QED BY <3>1, <3>2, <3>3, EndFacts
  <2>7. OnlyOlder
    BY <2>4, <2>5, <2>6, LenProperties DEF OnlyOlder
  <2>8. Kept
    BY <1>1, <2>3, <2>5 DEF Kept
  <2>9. FreshDead
    BY <1>1, <2>3, EndFacts DEF FreshDead, Dead, Sockets
  <2>10. Ageing
    BY <1>1, <1>3 DEF Ageing, Dead, Sockets
  <2> QED BY <1>1, <2>4, <2>6, <2>7, <2>8, <2>9, <2>10 DEF Closes, Tame, Sockets
<1> QED BY <1>2, <1>3

LEMMA PutAtEnd ==
  ASSUME Sockets, NEW c \in Conn, NEW e \in End, NEW f \in Frame, ~Full(c, e),
         out' = [out EXCEPT ![c][e] = Append(out[c][e], f)],
         f = "close" \/ (f \in Sender /\ reader[c][e] \in {"loop", "gone"}),
         up' \in [Conn -> [End -> {"unused", "open", "closing", "dead"}]]
  PROVE  Sockets' /\ OnlyOlder /\ Kept
<1> DEFINE w == Append(out[c][e], f)
<1>1. /\ w \in Seq(Frame) /\ Len(w) = Len(out[c][e]) + 1
      /\ \A i \in 1 .. Len(out[c][e]) : w[i] = out[c][e][i]
      /\ w[Len(out[c][e]) + 1] = f
  BY AppendProperties DEF Sockets
<1>2. /\ out'[c][e] = w
      /\ \A d \in Conn, x \in End : d # c \/ x # e => out'[d][x] = out[d][x]
  BY DEF Sockets
<1>3. \A d \in Conn, x \in End : Len(out[d][x]) \in Nat
  BY LenProperties DEF Sockets
<1> HIDE DEF w
<1>4. Sockets'
  <2>1. out' \in [Conn -> [End -> Seq(Frame)]]
    BY <1>1 DEF Sockets, w
  <2>2. \A d \in Conn, x \in End : Len(out'[d][x]) <= SendBuffer
    BY <1>1, <1>2, <1>3, Apart DEF Sockets, Full
  <2> QED BY <2>1, <2>2 DEF Sockets
<1>5. OnlyOlder
  <2> SUFFICES ASSUME NEW d \in Conn, NEW x \in End, NEW i \in 1 .. Len(out'[d][x])
               PROVE  \/ out'[d][x][i] = "close"
                      \/ out'[d][x][i] \in Sender /\ reader[d][x] \in {"loop", "gone"}
                      \/ \E j \in i .. Len(out[d][x]) : out'[d][x][i] = out[d][x][j]
    BY DEF OnlyOlder
  <2>1. CASE d # c \/ x # e
    BY <1>2, <1>3, <2>1
  <2>2. CASE d = c /\ x = e
    BY <1>1, <1>2, <1>3, <2>2
  <2> QED BY <2>1, <2>2
<1>6. Kept
  BY <1>1, <1>2, <1>3 DEF Kept
<1> QED BY <1>4, <1>5, <1>6

LEMMA CloseWithCloses ==
  ASSUME Sockets, NEW c \in Conn, NEW e \in End, up[c][e] # "unused", CloseWith(c, e)
  PROVE  Closes(c, e)
<1>1. CASE up[c][e] = "open" /\ ~Full(c, e)
  <2>1. /\ up' = [up EXCEPT ![c][e] = "closing"]
        /\ out' = [out EXCEPT ![c][e] = Append(out[c][e], "close")]
    BY <1>1 DEF CloseWith, Sockets
  <2>2. up' \in [Conn -> [End -> {"unused", "open", "closing", "dead"}]]
    BY <2>1 DEF Sockets
  <2>3. Sockets' /\ OnlyOlder /\ Kept
    BY <1>1, <2>1, <2>2, PutAtEnd DEF Frame
  <2>4. /\ \A d \in Conn, x \in End : d # c \/ x # e => up'[d][x] = up[d][x]
        /\ up'[c][e] = "closing"
    BY <2>1 DEF Sockets
  <2>5. FreshDead /\ Ageing
    BY <1>1, <2>4 DEF FreshDead, Ageing, Dead
  <2> QED BY <2>3, <2>4, <2>5 DEF Closes, Tame
<1>2. CASE up[c][e] = "closing"
  BY <1>2, TameIdle DEF CloseWith, Closes
<1>3. CASE ~(up[c][e] = "open" /\ ~Full(c, e)) /\ up[c][e] # "closing"
  BY <1>3, HardCloseCloses DEF CloseWith
<1> QED BY <1>1, <1>2, <1>3

LEMMA TailFacts ==
  ASSUME NEW S, NEW w \in Seq(S), w # <<>>
  PROVE  /\ Tail(w) \in Seq(S) /\ Len(w) \in Nat /\ Head(w) = w[1] /\ 1 \in 1 .. Len(w)
         /\ Len(Tail(w)) = Len(w) - 1 /\ Len(Tail(w)) <= Len(w)
         /\ \A i \in 1 .. Len(Tail(w)) :
              i + 1 \in i .. Len(w) /\ i + 1 \in 1 .. Len(w) /\ Tail(w)[i] = w[i + 1]
         /\ \A i \in 2 .. Len(w) : i - 1 \in 1 .. Len(Tail(w)) /\ Tail(w)[i - 1] = w[i]
<1>1. /\ Tail(w) \in Seq(S) /\ Len(w) \in Nat /\ Head(w) = w[1]
      /\ Len(Tail(w)) = Len(w) - 1 /\ 1 \in 1 .. Len(w)
      /\ \A i \in 1 .. Len(Tail(w)) : Tail(w)[i] = w[i + 1]
  BY HeadTailProperties, LenProperties
<1> DEFINE v == Tail(w)
<1> HIDE DEF v
<1>2. Len(v) = Len(w) - 1 /\ \A i \in 1 .. Len(v) : v[i] = w[i + 1]
  BY <1>1 DEF v
<1>3. \A i \in 1 .. Len(v) : i + 1 \in i .. Len(w) /\ i + 1 \in 1 .. Len(w) /\ v[i] = w[i + 1]
  BY <1>1, <1>2
<1>4. ASSUME NEW i \in 2 .. Len(w) PROVE i - 1 \in 1 .. Len(v) /\ v[i - 1] = w[i]
  <2>1. i - 1 \in 1 .. Len(v) /\ (i - 1) + 1 = i
    BY <1>1, <1>2
  <2> QED BY <1>2, <2>1
<1> QED BY <1>1, <1>2, <1>3, <1>4 DEF v

(* A frame that has been read is gone; a signal that was has arrived.      *)
LEMMA TakeTame ==
  ASSUME Sockets, NEW c \in Conn, NEW e \in End, Inbox(c, e) # <<>>, Take(c, e),
         Head(Inbox(c, e)) \in Sender => Head(Inbox(c, e)) \in arrived',
         UNCHANGED up
  PROVE  /\ Tame
         /\ \A i \in 1 .. Len(out'[c][Other(e)]) :
              i + 1 \in 1 .. Len(Inbox(c, e)) /\ out'[c][Other(e)][i] = Inbox(c, e)[i + 1]
<1> DEFINE y == Other(e)
           w == out[c][y]
<1>1. y \in End
  BY EndFacts
<1>2. w \in Seq(Frame) /\ w # <<>> /\ Len(w) <= SendBuffer
  BY <1>1 DEF Sockets, Inbox
<1>0. /\ Tail(w) \in Seq(Frame) /\ Len(w) \in Nat /\ Head(w) = w[1] /\ 1 \in 1 .. Len(w)
      /\ Len(Tail(w)) = Len(w) - 1
      /\ \A i \in 1 .. Len(Tail(w)) :
           i + 1 \in i .. Len(w) /\ i + 1 \in 1 .. Len(w) /\ Tail(w)[i] = w[i + 1]
      /\ \A i \in 2 .. Len(w) : i - 1 \in 1 .. Len(Tail(w)) /\ Tail(w)[i - 1] = w[i]
  BY <1>2, TailFacts
<1>3. /\ out'[c][y] = Tail(w)
      /\ \A d \in Conn, x \in End : d # c \/ x # y => out'[d][x] = out[d][x]
      /\ out' \in [Conn -> [End -> Seq(Frame)]]
  BY <1>1, <1>0 DEF Take, Sockets
<1> DEFINE v == Tail(w)
<1> HIDE DEF w, y, v
<1>4. \A d \in Conn, x \in End : Len(out[d][x]) \in Nat
  BY LenProperties DEF Sockets
<1>5. Sockets'
  <2> SUFFICES ASSUME NEW d \in Conn, NEW x \in End PROVE Len(out'[d][x]) <= SendBuffer
    BY <1>3 DEF Sockets
  <2>1. CASE d # c \/ x # y
    BY <1>3, <2>1 DEF Sockets
  <2>2. CASE d = c /\ x = y
    BY <1>2, <1>0, <1>3, <2>2, Apart DEF v
  <2> QED BY <2>1, <2>2
<1>6. OnlyOlder
  <2> SUFFICES ASSUME NEW d \in Conn, NEW x \in End, NEW i \in 1 .. Len(out'[d][x])
               PROVE  \E j \in i .. Len(out[d][x]) : out'[d][x][i] = out[d][x][j]
    BY DEF OnlyOlder
  <2>1. CASE d # c \/ x # y
    <3>1. out'[d][x] = out[d][x] /\ i \in i .. Len(out[d][x])
      BY <1>3, <1>4, <2>1
    <3> QED BY <3>1
  <2>2. CASE d = c /\ x = y
    <3>1. i \in 1 .. Len(v) /\ out'[d][x][i] = v[i]
      BY <1>3, <2>2 DEF v
    <3>2. i + 1 \in i .. Len(w) /\ v[i] = w[i + 1]
      BY <1>0, <3>1 DEF v
    <3> QED BY <2>2, <3>1, <3>2 DEF w
  <2> QED BY <2>1, <2>2
<1>7. Kept
  <2> SUFFICES ASSUME NEW d \in Conn, NEW x \in End, NEW i \in 1 .. Len(out[d][x]),
                      out[d][x][i] \in Sender
               PROVE  \/ out[d][x][i] \in arrived'
                      \/ \E j \in 1 .. Len(out'[d][x]) : out'[d][x][j] = out[d][x][i]
    BY DEF Kept
  <2>1. CASE d # c \/ x # y
    BY <1>3, <2>1
  <2>2. CASE d = c /\ x = y /\ i = 1
    BY <1>0, <2>2 DEF Inbox, w, y
  <2>3. CASE d = c /\ x = y /\ i # 1
    <3>1. i - 1 \in 1 .. Len(v) /\ v[i - 1] = w[i]
      <4>1. i \in 2 .. Len(w)
        BY <1>0, <2>3 DEF w
      <4> QED BY <1>0, <4>1 DEF v
    <3> QED BY <1>3, <2>3, <3>1 DEF w, v
  <2> QED BY <2>1, <2>2, <2>3
<1>8. FreshDead /\ Ageing
  BY DEF FreshDead, Ageing, Dead
<1> QED BY <1>0, <1>3, <1>5, <1>6, <1>7, <1>8 DEF Tame, Inbox, w, y, v

LEMMA EnqueueTame ==
  ASSUME Sockets, NEW c \in Conn, NEW e \in End, NEW k \in Sender, up[c][e] # "unused",
         reader[c][e] \in {"loop", "gone"}, Enqueue(c, e, k)
  PROVE  /\ Tame
         /\ ~Dead(c, e) /\ ~Full(c, e) =>
              (\E j \in 1 .. Len(out'[c][e]) : out'[c][e][j] = k) \/ \E x \in End : up'[c][x] = "dead"
<1>1. CASE \E x \in End : Dead(c, x)
  BY <1>1, TameIdle DEF Enqueue, Dead
<1>2. CASE (\A x \in End : ~Dead(c, x)) /\ Full(c, e)
  BY <1>2, HardCloseCloses DEF Enqueue, Closes
<1>3. CASE (\A x \in End : ~Dead(c, x)) /\ ~Full(c, e)
  <2>1. out' = [out EXCEPT ![c][e] = Append(out[c][e], k)] /\ UNCHANGED up
    BY <1>3 DEF Enqueue, Sockets
  <2>2. k \in Frame
    BY DEF Frame
  <2>3. Sockets' /\ OnlyOlder /\ Kept
    BY <1>3, <2>1, <2>2, PutAtEnd DEF Sockets
  <2>4. FreshDead /\ Ageing
    BY <2>1 DEF FreshDead, Ageing, Dead
  <2>5. /\ out'[c][e] = Append(out[c][e], k)
        /\ Len(Append(out[c][e], k)) = Len(out[c][e]) + 1
        /\ Append(out[c][e], k)[Len(out[c][e]) + 1] = k
    BY <2>1, <2>2, AppendProperties DEF Sockets
  <2>6. Len(out[c][e]) + 1 \in 1 .. (Len(out[c][e]) + 1)
    BY LenProperties DEF Sockets
  <2> QED BY <2>3, <2>4, <2>5, <2>6 DEF Tame
<1> QED BY <1>1, <1>2, <1>3

(* The socket that is replaced is closed, and no other is touched.         *)
LEMMA RegisterTame ==
  ASSUME TypeOK, SocketInv, NEW c \in Conn, NEW e \in End, RegisterConn(c, e)
  PROVE  /\ Tame /\ reg' = [reg EXCEPT ![e] = c]
         /\ reg[e] \notin {None, c} => up'[reg[e]][e] # "open"
         /\ \A d \in Conn, x \in End : (d # reg[e] \/ x # e) => up'[d][x] = up[d][x]
<1>1. CASE reg[e] \in {None, c}
  <2>1. UNCHANGED <<out, up>>
    BY <1>1 DEF RegisterConn
  <2> QED BY <1>1, <2>1, TameIdle, SocketsTyped DEF RegisterConn
<1>2. CASE reg[e] \notin {None, c}
  <2>1. reg[e] \in Conn /\ CloseWith(reg[e], e) /\ reg' = [reg EXCEPT ![e] = c]
    BY <1>2 DEF RegisterConn, TypeOK
  <2>2. up[reg[e]][e] # "unused"
    <3>1. reader[reg[e]][e] = "loop"
      BY <2>1 DEF SocketInv, SocketOK
    <3> QED BY <2>1, <3>1 DEF SocketInv, SocketOK
  <2>3. Closes(reg[e], e)
    BY <2>1, <2>2, CloseWithCloses, SocketsTyped
  <2> QED BY <1>2, <2>1, <2>3 DEF Closes
<1> QED BY <1>1, <1>2

-----------------------------------------------------------------------------
(* How the readers move, but for a socket that is opened or whose hello is *)
(* read.                                                                   *)
Onward ==
  \A c \in Conn, e \in End :
    \/ reader'[c][e] = reader[c][e]
    \/ reader[c][e] = "register" /\ reader'[c][e] = "loop"
    \/ /\ reader[c][e] \in {"hello", "pairing", "loop"} /\ reader'[c][e] = "gone"
       /\ up'[c][e] = "dead"
    \/ /\ reader[c][e] = "none" /\ reader'[c][e] = "loop" /\ dialer[c] = e
       /\ \E k \in Caller : At(k) = e /\ via[k] = c /\ call[k] = "ready"

(* No call starts or ends a handshake with peer:ready in its inbox.        *)
ReadyHeard ==
  \A k \in Caller : call'[k] = "ready" =>
    \/ call[k] = "ready" /\ via'[k] = via[k]
    \/ \A i \in 1 .. Len(out'[via'[k]][Other(At(k))]) :
         out'[via'[k]][Other(At(k))][i] \notin {"ready", "required"}

LEMMA WireStep ==
  ASSUME IInv, Tame, Onward, UNCHANGED dialer, ReadyHeard,
         \A k \in Caller : call'[k] = "ready" => dialer[via'[k]] = At(k)
  PROVE  WireInv'
<1> SUFFICES ASSUME NEW c \in Conn, NEW e \in End, NEW i \in 1 .. Len(out'[c][e])
             PROVE  FrameOK(c, e, i)'
  BY DEF WireInv
<1> DEFINE f == out'[c][e][i]
           y == Other(e)
<1>1. y \in End /\ Other(y) = e /\ y # e
  BY EndFacts
<1>2. /\ f = "close" \/ (f \in Sender /\ reader[c][e] \in {"loop", "gone"})
         \/ \E j \in i .. Len(out[c][e]) : f = out[c][e][j]
      /\ Len(out[c][e]) \in Nat
  BY LenProperties DEF Tame, OnlyOlder, IInv, TypeOK
<1>3. f \in Sender => f \notin {"hello", "ready", "required", "close"}
  BY Apart
<1>4. CASE f = "close"
  BY <1>3, <1>4 DEF FrameOK
<1>5. CASE f \in Sender /\ reader[c][e] \in {"loop", "gone"}
  <2>1. reader'[c][e] \in {"loop", "gone"}
    BY <1>5 DEF Onward
  <2> QED BY <1>3, <1>5, <2>1 DEF FrameOK
<1>6. ASSUME NEW j \in i .. Len(out[c][e]), f = out[c][e][j] PROVE FrameOK(c, e, i)'
  <2>1. j \in 1 .. Len(out[c][e]) /\ (j = 1 => i = 1)
    BY <1>2
  <2>2. FrameOK(c, e, j)
    BY <2>1 DEF IInv, WireInv
  <2>3. CASE f = "hello"
    <3>1. j = 1 /\ dialer[c] = e /\ reader[c][y] = "hello" /\ ~Dead(c, y)
      BY <1>6, <2>2, <2>3 DEF FrameOK
    <3>2. up'[c][y] # "dead"
      BY <1>1, <3>1, EmptySeq DEF Tame, FreshDead
    <3>3. reader'[c][y] = "hello"
      BY <1>1, <3>1, <3>2 DEF Onward
    <3> QED BY <1>3, <2>1, <2>3, <3>1, <3>2, <3>3 DEF FrameOK, Dead
  <2>4. CASE f \in {"ready", "required"}
    <3>1. /\ j = 1 /\ dialer[c] = y /\ reader[c][y] = "none"
          /\ \A k \in Caller : via[k] = c => call[k] # "ready"
          /\ reader[c][e] \in IF f = "ready" THEN {"register", "loop", "gone"}
                              ELSE {"pairing", "gone"}
      BY <1>6, <2>2, <2>4 DEF FrameOK
    <3>2. reader'[c][y] = "none"
      BY <1>1, <3>1 DEF Onward
    <3>3. \A k \in Caller : via'[k] = c => call'[k] # "ready"
      BY <1>1, <2>4, <3>1 DEF ReadyHeard
    <3>4. reader'[c][e] \in IF f = "ready" THEN {"register", "loop", "gone"}
                              ELSE {"pairing", "gone"}
      BY <3>1 DEF Onward
    <3> QED BY <1>3, <2>1, <2>4, <3>1, <3>2, <3>3, <3>4 DEF FrameOK
  <2>5. CASE f \in Sender
    <3>1. reader[c][e] \in {"loop", "gone"}
      BY <1>6, <2>2, <2>5 DEF FrameOK
    <3>2. reader'[c][e] \in {"loop", "gone"}
      BY <3>1 DEF Onward
    <3> QED BY <1>3, <2>5, <3>2 DEF FrameOK
  <2>6. CASE f \notin {"hello", "ready", "required"} \cup Sender
    BY <2>6 DEF FrameOK
  <2> QED BY <2>3, <2>4, <2>5, <2>6
<1> QED BY <1>2, <1>4, <1>5, <1>6

(* What a step may do to a call: it stays as it is (one that waits for a   *)
(* dial may be woken), or moves and stays consistent; and it lets go of    *)
(* the socket it dials only once that is closed or registered.             *)
Stays(k) ==
  /\ call'[k] = call[k] \/ (call[k] = "wait" /\ call'[k] = "woken")
  /\ via'[k] = via[k] /\ tries'[k] = tries[k]

Follows(k) ==
  /\ CallOK(k)'
  /\ call[k] \in {"reply", "ready"} =>
       \/ call'[k] \in {"reply", "ready"} /\ via'[k] = via[k]
       \/ up'[via[k]][At(k)] # "open"
       \/ reader'[via[k]][At(k)] = "loop"
  /\ call'[k] \in {"reply", "ready"} => call[k] \in {"reply", "ready"}
  /\ k \in Sender /\ call'[k] = "sent" =>
       \/ call[k] = "sent" /\ via'[k] = via[k]
       \/ Queued(via[k], At(k), k)' /\ via'[k] = via[k]
       \/ \E x \in End : up'[via'[k]][x] = "dead"

(* What a step may do to the registry of an end.                           *)
RegFollows(e) ==
  /\ reg'[e] # None => reader'[reg'[e]][e] = "loop"
  /\ reg[e] # None /\ reg'[e] # reg[e] => up'[reg[e]][e] # "open"
  /\ \A c \in Conn : reader'[c][e] = "loop" /\ reader[c][e] # "loop" => reg'[e] = c

LEMMA StaysFollows ==
  ASSUME IInv, Onward, UNCHANGED dialer, NEW k \in Caller, Stays(k),
         Dials(k) => dialing'[At(k)] = k,
         call[k] \in {"reply", "ready"} => reader'[via[k]][At(k)] = "none"
  PROVE  Follows(k)
<1>1. CallOK(k) /\ At(k) \in End /\ Other(At(k)) \in End
  BY CallerFacts, EndFacts DEF IInv, CallInv
<1>2. CASE call[k] = "wait"
  BY <1>2 DEF Stays, Follows, CallOK, Dials
<1>3. CASE call[k] # "wait"
  <2>1. call'[k] = call[k] /\ via'[k] = via[k] /\ tries'[k] = tries[k]
    BY <1>3 DEF Stays
  <2>2. CallOK(k)'
    <3>1. call[k] = "timer" => k \in Retry /\ tries'[k] < MaxTries
      BY <1>1, <2>1 DEF CallOK
    <3>2. call[k] \in {"reply", "ready"} =>
            /\ via[k] \in Conn /\ dialer'[via[k]] = At(k)
            /\ reader'[via[k]][At(k)] = "none"
      BY <1>1 DEF CallOK
    <3>3. call[k] = "ready" => reader'[via[k]][Other(At(k))] \in {"register", "loop", "gone"}
      BY <1>1, <3>2 DEF CallOK, Onward
    <3>4. call[k] \in {"live", "sent"} =>
            via[k] \in Conn /\ reader'[via[k]][At(k)] \in {"loop", "gone"}
      BY <1>1 DEF CallOK, Onward
    <3> QED BY <2>1, <3>1, <3>2, <3>3, <3>4 DEF CallOK, Dials
  <2> QED BY <2>1, <2>2 DEF Follows
<1> QED BY <1>2, <1>3

LEMMA SocketStep ==
  ASSUME IInv, Tame, Onward, UNCHANGED dialer,
         \A k \in Caller : Follows(k), \A e \in End : RegFollows(e)
  PROVE  SocketInv'
<1> SUFFICES ASSUME NEW c \in Conn, NEW e \in End PROVE SocketOK(c, e)'
  BY DEF SocketInv
<1>1. SocketOK(c, e) /\ Other(e) \in End /\ e # None
  BY EndFacts DEF IInv, SocketInv
<1>2. /\ up'[c][e] = up[c][e]
         \/ (up[c][e] \in {"open", "closing"} /\ up'[c][e] \in {"closing", "dead"})
      /\ up'[c][Other(e)] = up[c][Other(e)]
         \/ (up[c][Other(e)] \in {"open", "closing"} /\ up'[c][Other(e)] \in {"closing", "dead"})
  BY <1>1 DEF Tame, Ageing
<1>3. \/ reader'[c][e] = reader[c][e]
      \/ reader[c][e] = "register" /\ reader'[c][e] = "loop"
      \/ /\ reader[c][e] \in {"hello", "pairing", "loop"} /\ reader'[c][e] = "gone"
         /\ up'[c][e] = "dead"
      \/ /\ reader[c][e] = "none" /\ reader'[c][e] = "loop" /\ dialer[c] = e
         /\ reader[c][Other(e)] \in {"register", "loop", "gone"}
  BY DEF Onward, IInv, CallInv, CallOK
<1>4. reader[c][Other(e)] \in {"register", "loop", "gone"} =>
        reader'[c][Other(e)] \in {"register", "loop", "gone"}
  BY <1>1 DEF Onward
<1>5. dialer[c] = None => reader'[c][e] = "none" /\ up'[c][e] = "unused"
  BY <1>1, <1>2, <1>3 DEF SocketOK
<1>6. /\ dialer[c] # None => up'[c][e] # "unused"
      /\ dialer[c] = Other(e) => reader'[c][e] # "none"
      /\ dialer[c] = e => reader'[c][e] \in {"none", "loop", "gone"}
  BY <1>1, <1>2, <1>3 DEF SocketOK
<1>7. dialer[c] = e /\ reader'[c][e] # "none" =>
        reader'[c][Other(e)] \in {"register", "loop", "gone"}
  BY <1>1, <1>3, <1>4 DEF SocketOK
<1>8. ASSUME dialer[c] = e, reader'[c][e] = "none", up'[c][e] = "open"
      PROVE  \E k \in Caller : At(k) = e /\ via'[k] = c /\ call'[k] \in {"reply", "ready"}
  <2>1. reader[c][e] = "none" /\ up[c][e] = "open"
    BY <1>2, <1>3, <1>8
  <2>2. PICK k \in Caller : At(k) = e /\ via[k] = c /\ call[k] \in {"reply", "ready"}
    BY <1>1, <1>8, <2>1 DEF SocketOK
  <2>3. call'[k] \in {"reply", "ready"} /\ via'[k] = via[k]
    BY <1>8, <2>2 DEF Follows
  <2> QED BY <2>2, <2>3
<1>9. reg'[e] = c => reader'[c][e] = "loop"
  BY Apart DEF RegFollows
<1>10. reader'[c][e] = "gone" => up'[c][e] = "dead"
  BY <1>1, <1>2, <1>3 DEF SocketOK, Dead
<1> QED BY <1>5, <1>6, <1>7, <1>8, <1>9, <1>10 DEF SocketOK, Dead

LEMMA OrphanStep ==
  ASSUME IInv, Tame, \A e \in End : RegFollows(e)
  PROVE  NoOrphanSocket'
<1> SUFFICES ASSUME NEW c \in Conn, NEW e \in End, reader'[c][e] = "loop", up'[c][e] = "open"
             PROVE  reg'[e] = c
  BY DEF NoOrphanSocket
<1>1. up[c][e] = "open"
  BY DEF Tame, Ageing
<1>2. CASE reader[c][e] = "loop"
  <2>1. reg[e] = c /\ c # None
    BY <1>1, <1>2, Apart DEF IInv, NoOrphanSocket
  <2> QED BY <2>1 DEF RegFollows
<1>3. CASE reader[c][e] # "loop"
  BY <1>3 DEF RegFollows
<1> QED BY <1>2, <1>3

LEMMA SignalsStep ==
  ASSUME IInv, Tame, arrived \subseteq arrived', \A k \in Caller : Follows(k)
  PROVE  SignalsAccounted'
<1> SUFFICES ASSUME NEW k \in Sender, call'[k] = "sent"
             PROVE  \/ k \in arrived' \/ Queued(via[k], At(k), k)'
                    \/ \E e \in End : up'[via'[k]][e] = "dead"
  BY DEF SignalsAccounted, Dead
<1>1. k \in Caller /\ Follows(k) /\ CallOK(k) /\ At(k) \in End
  BY CallerFacts DEF IInv, CallInv, Caller
<1>2. CASE call[k] = "sent" /\ via'[k] = via[k]
  <2>1. via[k] \in Conn
    BY <1>1, <1>2 DEF CallOK
  <2>2. CASE k \in arrived
    BY <2>2
  <2>3. CASE Queued(via[k], At(k), k)
    <3>1. PICK i \in 1 .. Len(out[via[k]][At(k)]) : out[via[k]][At(k)][i] = k
      BY <2>3 DEF Queued
    <3>2. \/ k \in arrived'
          \/ \E j \in 1 .. Len(out'[via[k]][At(k)]) : out'[via[k]][At(k)][j] = k
          \/ \E x \in End : up'[via[k]][x] = "dead"
      BY <1>1, <2>1, <3>1 DEF Tame, Kept
    <3> QED BY <1>2, <3>2 DEF Queued
  <2>4. CASE \E e \in End : Dead(via[k], e)
    <3>1. PICK e \in End : up[via[k]][e] = "dead"
      BY <2>4 DEF Dead
    <3>2. up'[via[k]][e] = "dead"
      BY <2>1, <3>1 DEF Tame, Ageing
    <3> QED BY <1>2, <3>2
  <2> QED BY <1>2, <2>2, <2>3, <2>4 DEF IInv, SignalsAccounted, Dead
<1>3. CASE Queued(via[k], At(k), k)' /\ via'[k] = via[k]
  BY <1>3 DEF Queued
<1>4. CASE \E x \in End : up'[via'[k]][x] = "dead"
  BY <1>4
<1> QED BY <1>1, <1>2, <1>3, <1>4 DEF Follows

LEMMA ForgetKept ==
  ASSUME IInv, Onward, \A k \in Caller : Follows(k), UNCHANGED <<trusted, forget, straddled>>,
         \A e \in End : reg'[e] \in {None, reg[e]} \/ Handshaking(e)
  PROVE  ForgetInv'
<1> SUFFICES ASSUME NEW e \in End PROVE ForgetOK(e)'
  BY DEF ForgetInv
<1>1. ForgetOK(e)
  BY DEF IInv, ForgetInv
<1>2. Handshaking(e)' => Handshaking(e)
  <2>1. \A c \in Conn : reader'[c][e] = "register" => reader[c][e] = "register"
    BY DEF Onward
  <2>2. \A k \in Caller : call'[k] \in {"reply", "ready"} => call[k] \in {"reply", "ready"}
    BY DEF Follows
  <2> QED BY <2>1, <2>2 DEF Handshaking
<1> QED BY <1>1, <1>2 DEF ForgetOK

(* What a step has to show, unless it opens a socket or reads a hello.     *)
LEMMA Carried ==
  ASSUME IInv, TypeOK', Tame, Onward, UNCHANGED dialer, ReadyHeard, arrived \subseteq arrived',
         \A k \in Caller : Follows(k), \A e \in End : RegFollows(e), ForgetInv'
  PROVE  IInv'
<1>1. CallInv'
  BY DEF Follows, CallInv
<1>2. \A k \in Caller : call'[k] = "ready" => dialer[via'[k]] = At(k)
  BY <1>1 DEF CallInv, CallOK
<1>3. WireInv'
  BY <1>2, WireStep
<1> QED BY <1>1, <1>3, SocketStep, OrphanStep, SignalsStep DEF IInv

-----------------------------------------------------------------------------
(* The steps of a call that touch no socket.                               *)

LEMMA PruneStep ==
  ASSUME TypeOK, NEW e \in End, PruneDead(e)
  PROVE  /\ reg' \in [End -> Conn \cup {None}] /\ reg'[e] = Live(e)
         /\ \A x \in End : reg'[x] = reg[x] \/ (reg'[x] = None /\ up[reg[x]][x] = "dead")
BY DEF TypeOK, PruneDead, Live, Dead

LEMMA CallOnly ==
  ASSUME IInv, TypeOK', UNCHANGED <<out, up, reader, dialer, trusted, forget, straddled, arrived>>,
         \A x \in End : reg'[x] = reg[x] \/ (reg'[x] = None /\ up[reg[x]][x] = "dead"),
         NEW k \in Caller, \A j \in Caller : j # k => Stays(j),
         call[k] \notin {"reply", "ready"}, call'[k] \notin {"reply", "ready", "sent"},
         CallOK(k)', \A j \in Caller : j # k /\ Dials(j) => dialing'[At(j)] = j
  PROVE  IInv'
<1>1. Tame
  BY TameIdle, SocketsTyped DEF IInv
<1>2. Onward
  BY DEF Onward
<1>3. ASSUME NEW j \in Caller PROVE Follows(j)
  <2>1. CASE j = k
    BY <2>1 DEF Follows
  <2>2. CASE j # k
    <3>1. call[j] \in {"reply", "ready"} => reader'[via[j]][At(j)] = "none"
      BY DEF IInv, CallInv, CallOK
    <3> QED BY <1>2, <2>2, <3>1, StaysFollows
  <2> QED BY <2>1, <2>2
<1>4. ReadyHeard
  BY DEF ReadyHeard, Stays
<1>5. ASSUME NEW x \in End PROVE RegFollows(x)
  <2>1. reg[x] # None => reg[x] \in Conn /\ reader[reg[x]][x] = "loop"
    BY DEF IInv, TypeOK, SocketInv, SocketOK
  <2> QED BY <2>1 DEF RegFollows
<1>6. ForgetInv'
  BY <1>2, <1>3, ForgetKept
<1> QED BY <1>1, <1>2, <1>3, <1>4, <1>5, <1>6, Carried

LEMMA SendSignalStep == ASSUME IInv, NEW k \in Caller, SendSignal(k) PROVE IInv'
<1>1. TypeOK' /\ \A j \in Caller : j # k => Stays(j)
  BY DEF IInv, TypeOK, SendSignal, Move, Call, Stays, connVars, endVars
<1>2. call[k] = "idle" /\ call'[k] \in {"ensure", "refused"}
  BY DEF IInv, TypeOK, SendSignal, Move
<1>3. CallOK(k)'
  BY <1>2 DEF CallOK, Dials
<1>4. \A j \in Caller : Dials(j) => dialing'[At(j)] = j
  BY DEF IInv, CallInv, CallOK, SendSignal
<1> QED BY <1>1, <1>2, <1>3, <1>4, CallOnly DEF SendSignal, connVars, endVars

LEMMA RememberStep == ASSUME IInv, NEW k \in Caller, Remember(k) PROVE IInv'
<1>0. At(k) \in End /\ k \in Retry /\ tries[k] = 0 /\ call[k] = "idle" /\ TypeOK
  BY CallerFacts DEF Remember, IInv
<1>1. /\ call'[k] \in {"timer", "idle"} /\ call' \in [Caller -> Call]
      /\ \A j \in Caller : j # k => Stays(j)
      /\ UNCHANGED <<out, up, reader, dialer, faults, dialing, via, tries, trusted, forget, arrived, straddled>>
      /\ addr' \in [End -> BOOLEAN]
  BY <1>0 DEF Remember, Move, TypeOK, Call, Stays, connVars
<1>2. /\ reg' \in [End -> Conn \cup {None}]
      /\ \A x \in End : reg'[x] = reg[x] \/ (reg'[x] = None /\ up[reg[x]][x] = "dead")
  BY <1>0, PruneStep DEF Remember, TypeOK
<1>3. TypeOK'
  BY <1>0, <1>1, <1>2 DEF TypeOK
<1>4. CallOK(k)'
  BY <1>0, <1>1, Apart DEF CallOK, Dials
<1>5. \A j \in Caller : Dials(j) => dialing'[At(j)] = j
  BY <1>1 DEF IInv, CallInv, CallOK
<1> QED BY <1>0, <1>1, <1>2, <1>3, <1>4, <1>5, CallOnly

LEMMA ReconnectTimerStep == ASSUME IInv, NEW k \in Caller, ReconnectTimer(k) PROVE IInv'
<1>0. At(k) \in End /\ call[k] = "timer" /\ TypeOK /\ tries[k] \in 0 .. MaxTries
      /\ tries[k] < MaxTries /\ MaxTries \in Nat
  BY CallerFacts, Apart DEF ReconnectTimer, IInv, CallInv, CallOK, TypeOK
<1>1. /\ call'[k] \in {"ensure", "idle"} /\ call' \in [Caller -> Call]
      /\ tries' \in [Caller -> 0 .. MaxTries]
      /\ \A j \in Caller : j # k => Stays(j)
      /\ UNCHANGED <<out, up, reader, dialer, faults, dialing, via, trusted, addr, forget, arrived, straddled>>
  <2>1. UNCHANGED <<out, up, reader, dialer, faults, dialing, via, trusted, addr, forget, arrived, straddled>>
    BY DEF ReconnectTimer, connVars
  <2>2. tries[k] + 1 \in 0 .. MaxTries
    BY <1>0
  <2>3. CASE trusted[At(k)] /\ Live(At(k)) = None
    <3>1. call' = [call EXCEPT ![k] = "ensure"] /\ tries' = [tries EXCEPT ![k] = tries[k] + 1]
      BY <1>0, <2>3 DEF ReconnectTimer, Move, TypeOK
    <3> QED BY <1>0, <2>1, <2>2, <3>1 DEF TypeOK, Call, Stays
  <2>4. CASE ~(trusted[At(k)] /\ Live(At(k)) = None)
    <3>1. call' = [call EXCEPT ![k] = "idle"] /\ tries' = tries
      BY <1>0, <2>4 DEF ReconnectTimer, Move, TypeOK
    <3> QED BY <1>0, <2>1, <3>1 DEF TypeOK, Call, Stays
  <2> QED BY <2>3, <2>4
<1>2. /\ reg' \in [End -> Conn \cup {None}]
      /\ \A x \in End : reg'[x] = reg[x] \/ (reg'[x] = None /\ up[reg[x]][x] = "dead")
  BY <1>0, PruneStep DEF ReconnectTimer, TypeOK
<1>3. TypeOK'
  BY <1>0, <1>1, <1>2 DEF TypeOK
<1>4. CallOK(k)'
  BY <1>1 DEF CallOK, Dials
<1>5. \A j \in Caller : Dials(j) => dialing'[At(j)] = j
  BY <1>1 DEF IInv, CallInv, CallOK
<1> QED BY <1>0, <1>1, <1>2, <1>3, <1>4, <1>5, CallOnly

LEMMA AfterErrorFacts ==
  ASSUME TypeOK, NEW k \in Caller
  PROVE  /\ AfterError(k) \in {"timer", "refused"}
         /\ AfterError(k) = "timer" => k \in Retry /\ tries[k] < MaxTries
BY DEF AfterError

LEMMA EnsureLiveStep == ASSUME IInv, NEW k \in Caller, EnsureLive(k) PROVE IInv'
<1>0. At(k) \in End /\ call[k] \in {"ensure", "woken"} /\ TypeOK
  BY CallerFacts DEF EnsureLive, IInv
<1>1. /\ call'[k] = (IF Live(At(k)) # None THEN "live"
                     ELSE IF call[k] = "ensure" THEN "flight" ELSE AfterError(k))
      /\ call' \in [Caller -> Call] /\ via'[k] = Live(At(k))
      /\ via' \in [Caller -> Conn \cup {None}]
      /\ \A j \in Caller : j # k => Stays(j)
      /\ UNCHANGED <<out, up, reader, dialer, faults, dialing, tries, trusted, addr, forget, arrived, straddled>>
  BY <1>0, AfterErrorFacts DEF EnsureLive, Move, TypeOK, Call, Stays, connVars, Live
<1>2. /\ reg' \in [End -> Conn \cup {None}]
      /\ \A x \in End : reg'[x] = reg[x] \/ (reg'[x] = None /\ up[reg[x]][x] = "dead")
  BY <1>0, PruneStep DEF EnsureLive
<1>3. TypeOK'
  BY <1>0, <1>1, <1>2 DEF TypeOK
<1>4. CallOK(k)'
  <2>1. Live(At(k)) # None => Live(At(k)) \in Conn /\ reader[Live(At(k))][At(k)] = "loop"
    BY <1>0 DEF Live, IInv, TypeOK, SocketInv, SocketOK
  <2>2. call'[k] \in {"live", "flight", "timer", "refused"}
    BY <1>1, <1>0, AfterErrorFacts
  <2>3. call'[k] = "timer" => k \in Retry /\ tries'[k] < MaxTries
    BY <1>0, <1>1, AfterErrorFacts
  <2>4. call'[k] = "live" => Live(At(k)) # None
    BY <1>0, <1>1, AfterErrorFacts
  <2> QED BY <1>1, <2>1, <2>2, <2>3, <2>4 DEF CallOK, Dials
<1>5. \A j \in Caller : Dials(j) => dialing'[At(j)] = j
  BY <1>1 DEF IInv, CallInv, CallOK
<1>6. call'[k] \notin {"reply", "ready", "sent"}
  BY <1>0, <1>1, AfterErrorFacts
<1> QED BY <1>0, <1>1, <1>2, <1>3, <1>4, <1>5, <1>6, CallOnly

LEMMA EnsureFlightStep == ASSUME IInv, NEW k \in Caller, EnsureFlight(k) PROVE IInv'
<1>0. At(k) \in End /\ call[k] = "flight" /\ TypeOK
  BY CallerFacts DEF EnsureFlight, IInv
<1>1. /\ \/ call'[k] = "wait" /\ UNCHANGED dialing
         \/ /\ call'[k] = "dial" /\ dialing[At(k)] = None
            /\ dialing' = [dialing EXCEPT ![At(k)] = k]
      /\ call' \in [Caller -> Call]
      /\ \A j \in Caller : j # k => Stays(j)
      /\ UNCHANGED <<out, up, reader, dialer, faults, via, tries, reg, trusted, addr, forget, arrived, straddled>>
  BY <1>0 DEF EnsureFlight, Move, TypeOK, Call, Stays, connVars, endVars
<1>2. TypeOK'
  BY <1>0, <1>1 DEF TypeOK
<1>3. CallOK(k)'
  BY <1>0, <1>1 DEF CallOK, Dials, TypeOK
<1>4. \A j \in Caller : j # k /\ Dials(j) => dialing'[At(j)] = j
  <2>1. \A j \in Caller : Dials(j) => dialing[At(j)] = j /\ j # None /\ At(j) \in End
    BY CallerFacts DEF IInv, CallInv, CallOK
  <2> QED BY <1>0, <1>1, <2>1 DEF TypeOK
<1>5. call'[k] \notin {"reply", "ready", "sent"}
  BY <1>1
<1> QED BY <1>0, <1>1, <1>2, <1>3, <1>4, <1>5, CallOnly

(* The flight is over: no other call was dialling.                         *)
LEMMA ReturnStep ==
  ASSUME IInv, NEW k \in Caller, NEW s \in Call, Return(k, s), Dials(k), UNCHANGED tries
  PROVE  /\ dialing' \in [End -> Caller \cup {None}] /\ call' \in [Caller -> Call]
         /\ call'[k] = s
         /\ \A j \in Caller : j # k /\ via'[j] = via[j] => Stays(j)
         /\ \A j \in Caller : j # k /\ Dials(j) => dialing'[At(j)] = j /\ At(j) # At(k)
<1>1. At(k) \in End /\ dialing[At(k)] = k /\ TypeOK
  BY CallerFacts DEF IInv, CallInv, CallOK
<1>2. /\ dialing' \in [End -> Caller \cup {None}] /\ call' \in [Caller -> Call]
      /\ call'[k] = s
      /\ \A j \in Caller : j # k /\ via'[j] = via[j] => Stays(j)
  BY <1>1 DEF Return, TypeOK, Stays, Call
<1>3. \A j \in Caller : Dials(j) => dialing[At(j)] = j /\ At(j) \in End
  BY CallerFacts DEF IInv, CallInv, CallOK
<1>4. ASSUME NEW j \in Caller, j # k, Dials(j) PROVE dialing'[At(j)] = j /\ At(j) # At(k)
  BY <1>1, <1>3, <1>4 DEF Return, TypeOK
<1> QED BY <1>2, <1>4

LEMMA FaultType ==
  ASSUME NEW due \in BOOLEAN, FaultUnless(due), faults \in 0 .. MaxFaults
  PROVE  faults' \in 0 .. MaxFaults
BY Apart DEF FaultUnless

LEMMA DialFailsStep == ASSUME IInv, NEW k \in Caller, DialFails(k) PROVE IInv'
<1>0. At(k) \in End /\ call[k] = "dial" /\ TypeOK /\ Dials(k)
  BY CallerFacts DEF DialFails, IInv, Dials
<1>1. /\ UNCHANGED <<out, up, reader, dialer, via, tries, reg, trusted, addr, forget, arrived, straddled>>
      /\ Return(k, AfterError(k)) /\ faults' \in 0 .. MaxFaults
  BY <1>0, FaultType DEF DialFails, endVars, TypeOK
<1>2. /\ dialing' \in [End -> Caller \cup {None}] /\ call' \in [Caller -> Call]
      /\ call'[k] = AfterError(k)
      /\ \A j \in Caller : j # k => Stays(j)
      /\ \A j \in Caller : j # k /\ Dials(j) => dialing'[At(j)] = j
  <2>1. AfterError(k) \in Call
    BY <1>0, AfterErrorFacts DEF Call
  <2> QED BY <1>0, <1>1, <2>1, ReturnStep
<1>3. TypeOK'
  BY <1>0, <1>1, <1>2 DEF TypeOK
<1>4. CallOK(k)'
  BY <1>0, <1>1, <1>2, AfterErrorFacts DEF CallOK, Dials
<1>5. call'[k] \notin {"reply", "ready", "sent"}
  BY <1>0, <1>2, AfterErrorFacts
<1> QED BY <1>0, <1>1, <1>2, <1>3, <1>4, <1>5, CallOnly

-----------------------------------------------------------------------------
(* The steps of a call on its socket.                                      *)

LEMMA RegKept ==
  ASSUME IInv, UNCHANGED <<reg, reader>>
  PROVE  \A e \in End : RegFollows(e)
<1> SUFFICES ASSUME NEW e \in End PROVE RegFollows(e)
  OBVIOUS
<1>1. reg[e] # None => reg[e] \in Conn /\ reader[reg[e]][e] = "loop"
  BY DEF IInv, TypeOK, SocketInv, SocketOK
<1> QED BY <1>1 DEF RegFollows

(* The socket of a call that dials has been opened.                        *)
LEMMA HeldSocket ==
  ASSUME IInv, NEW k \in Caller,
         call[k] \in {"reply", "ready", "live", "sent"}
  PROVE  via[k] \in Conn /\ At(k) \in End /\ up[via[k]][At(k)] # "unused"
<1>1. At(k) \in End /\ At(k) # None /\ CallOK(k) /\ via[k] \in Conn
  BY CallerFacts, EndFacts DEF IInv, CallInv, CallOK
<1>2. SocketOK(via[k], At(k))
  BY <1>1 DEF IInv, SocketInv
<1> QED BY <1>1, <1>2 DEF CallOK, SocketOK

LEMMA FirstFrame ==
  ASSUME Sockets, NEW c \in Conn, NEW e \in End, NEW f \in Frame, Next1(c, e) = f, f # "nothing"
  PROVE  /\ Inbox(c, e) # <<>> /\ Head(Inbox(c, e)) = f
         /\ 1 \in 1 .. Len(out[c][Other(e)]) /\ out[c][Other(e)][1] = f
<1>1. Inbox(c, e) # <<>> /\ Head(Inbox(c, e)) = f
  BY DEF Next1
<1>2. out[c][Other(e)] \in Seq(Frame)
  BY EndFacts DEF Sockets
<1> QED BY <1>1, <1>2, TailFacts DEF Inbox

LEMMA ReplyStep == ASSUME IInv, NEW k \in Caller, Reply(k) PROVE IInv'
<1> DEFINE c == via[k]
           e == At(k)
<1>0. call[k] = "reply" /\ TypeOK /\ Sockets /\ CallOK(k) /\ Dials(k)
  BY SocketsTyped DEF Reply, IInv, CallInv, Dials
<1>1. c \in Conn /\ e \in End /\ Other(e) \in End /\ up[c][e] # "unused"
  BY <1>0, HeldSocket, EndFacts
<1>2. /\ Inbox(c, e) # <<>> /\ Head(Inbox(c, e)) = "ready"
      /\ 1 \in 1 .. Len(out[c][Other(e)]) /\ out[c][Other(e)][1] = "ready"
  BY <1>0, <1>1, FirstFrame DEF Reply, Frame
<1>3. /\ Take(c, e) /\ call' = [call EXCEPT ![k] = "ready"]
      /\ UNCHANGED <<faults, dialer, up, reader, dialing, via, tries, reg, trusted, addr, forget,
                     arrived, straddled>>
  BY DEF Reply, Move, endVars
<1>4. /\ Tame
      /\ \A i \in 1 .. Len(out'[c][Other(e)]) :
           i + 1 \in 1 .. Len(out[c][Other(e)]) /\ out'[c][Other(e)][i] = out[c][Other(e)][i + 1]
  BY <1>0, <1>1, <1>2, <1>3, TakeTame, Apart DEF Inbox
<1>5. Onward
  BY <1>3 DEF Onward
<1>6. \A i \in 1 .. Len(out'[c][Other(e)]) : out'[c][Other(e)][i] \notin {"ready", "required"}
  <2> SUFFICES ASSUME NEW i \in 1 .. Len(out'[c][Other(e)]),
                      out'[c][Other(e)][i] \in {"ready", "required"}
               PROVE  FALSE
    OBVIOUS
  <2>1. FrameOK(c, Other(e), i + 1)
    BY <1>1, <1>4 DEF IInv, WireInv
  <2>2. out[c][Other(e)][i + 1] \in {"ready", "required"}
    BY <1>4
  <2>3. i + 1 = 1 /\ i >= 1 /\ i \in Int
    BY <2>1, <2>2 DEF FrameOK
  <2> QED BY <2>3
<1>7. ReadyHeard
  BY <1>3, <1>6 DEF ReadyHeard
<1>8. CallOK(k)'
  <2>1. reader[c][Other(e)] \in {"register", "loop", "gone"}
    <3>1. FrameOK(c, Other(e), 1)
      BY <1>1, <1>2 DEF IInv, WireInv
    <3> QED BY <1>2, <3>1 DEF FrameOK
  <2>2. call'[k] = "ready"
    BY <1>0, <1>3 DEF TypeOK
  <2> QED BY <1>0, <1>3, <2>1, <2>2 DEF CallOK, Dials
<1>9. ASSUME NEW j \in Caller PROVE Follows(j)
  <2>1. CASE j = k
    <3>1. call'[k] = "ready"
      BY <1>0, <1>3 DEF TypeOK
    <3> QED BY <1>0, <1>3, <1>8, <2>1, <3>1 DEF Follows
  <2>2. CASE j # k
    <3>1. Stays(j)
      BY <1>0, <1>3, <2>2 DEF Stays, TypeOK
    <3> QED BY <1>3, <1>5, <3>1, StaysFollows DEF IInv, CallInv, CallOK
  <2> QED BY <2>1, <2>2
<1>10. \A x \in End : RegFollows(x)
  BY <1>3, RegKept
<1>11. ForgetInv'
  BY <1>3, <1>5, <1>9, ForgetKept
<1>12. TypeOK'
  BY <1>0, <1>3, <1>4 DEF TypeOK, Tame, Sockets, Call
<1> QED BY <1>3, <1>4, <1>5, <1>7, <1>9, <1>10, <1>11, <1>12, Carried

(* A dial that fails closes its socket.                                    *)
LEMMA GiveUpStep ==
  ASSUME IInv, NEW k \in Caller, call[k] = "reply", Closes(via[k], At(k)),
         Return(k, AfterError(k)), via' = [via EXCEPT ![k] = None],
         faults' \in 0 .. MaxFaults, UNCHANGED <<dialer, reader, tries, endVars>>
  PROVE  IInv'
<1>0. TypeOK /\ Sockets /\ CallOK(k) /\ Dials(k) /\ AfterError(k) \in Call
  BY SocketsTyped, AfterErrorFacts DEF IInv, CallInv, Dials, Call
<1>1. Tame /\ up'[via[k]][At(k)] # "open"
  BY DEF Closes
<1>2. Onward
  BY DEF Onward
<1>3. /\ dialing' \in [End -> Caller \cup {None}] /\ call' \in [Caller -> Call]
      /\ call'[k] = AfterError(k) /\ via' \in [Caller -> Conn \cup {None}]
      /\ \A j \in Caller : j # k => Stays(j)
      /\ \A j \in Caller : j # k /\ Dials(j) => dialing'[At(j)] = j
  BY <1>0, ReturnStep DEF TypeOK
<1>4. TypeOK'
  BY <1>0, <1>1, <1>3 DEF TypeOK, Tame, Sockets, endVars
<1>5. call'[k] \notin {"reply", "ready", "sent"} /\ CallOK(k)'
  BY <1>0, <1>3, AfterErrorFacts DEF CallOK, Dials
<1>6. ASSUME NEW j \in Caller PROVE Follows(j)
  <2>1. CASE j = k
    BY <1>1, <1>5, <2>1 DEF Follows
  <2>2. CASE j # k
    BY <1>2, <1>3, <2>2, StaysFollows DEF IInv, CallInv, CallOK
  <2> QED BY <2>1, <2>2
<1>7. ReadyHeard
  BY <1>3, <1>5 DEF ReadyHeard, Stays
<1>8. \A x \in End : RegFollows(x)
  BY RegKept DEF endVars
<1>9. ForgetInv'
  BY <1>2, <1>6, ForgetKept DEF endVars
<1> QED BY <1>1, <1>2, <1>4, <1>6, <1>7, <1>8, <1>9, Carried DEF endVars

LEMMA UnpairedStep == ASSUME IInv, NEW k \in Caller, Unpaired(k) PROVE IInv'
<1>1. call[k] = "reply" /\ CloseWith(via[k], At(k)) /\ Sockets
  BY SocketsTyped DEF Unpaired, IInv
<1>2. Closes(via[k], At(k))
  BY <1>1, HeldSocket, CloseWithCloses
<1> QED BY <1>1, <1>2, GiveUpStep DEF Unpaired, IInv, TypeOK

LEMMA NoReplyStep == ASSUME IInv, NEW k \in Caller, NoReply(k) PROVE IInv'
<1>1. call[k] = "reply" /\ HardClose(via[k], At(k)) /\ Sockets
  BY SocketsTyped DEF NoReply, IInv
<1>2. Closes(via[k], At(k))
  BY <1>1, HeldSocket, HardCloseCloses
<1>3. faults' \in 0 .. MaxFaults
  BY FaultType DEF NoReply, IInv, TypeOK
<1> QED BY <1>1, <1>2, <1>3, GiveUpStep DEF NoReply

LEMMA ReadyStep == ASSUME IInv, NEW k \in Caller, Ready(k) PROVE IInv'
<1> DEFINE c == via[k]
           e == At(k)
<1>0. call[k] = "ready" /\ TypeOK /\ Sockets /\ CallOK(k) /\ Dials(k)
  BY SocketsTyped DEF Ready, IInv, CallInv, Dials
<1>1. c \in Conn /\ e \in End /\ c # None /\ dialer[c] = e /\ reader[c][e] = "none"
  BY <1>0, HeldSocket, Apart DEF CallOK
<1>2. /\ RegisterConn(c, e) /\ reader' = [reader EXCEPT ![c][e] = "loop"] /\ Return(k, "live")
      /\ UNCHANGED <<faults, dialer, via, tries, trusted, addr, forget, arrived, straddled>>
  BY DEF Ready, Goto
<1>3. /\ Tame /\ reg' = [reg EXCEPT ![e] = c]
      /\ reg[e] \notin {None, c} => up'[reg[e]][e] # "open"
  BY <1>0, <1>1, <1>2, RegisterTame DEF IInv
<1>4. /\ dialing' \in [End -> Caller \cup {None}] /\ call' \in [Caller -> Call]
      /\ call'[k] = "live" /\ \A j \in Caller : j # k => Stays(j)
      /\ \A j \in Caller : j # k /\ Dials(j) => dialing'[At(j)] = j /\ At(j) # e
  <2>1. "live" \in Call
    BY DEF Call
  <2> QED BY <1>0, <1>2, <2>1, ReturnStep
<1>5. /\ reader' \in [Conn -> [End -> Reader]] /\ reader'[c][e] = "loop"
      /\ \A d \in Conn, x \in End : d # c \/ x # e => reader'[d][x] = reader[d][x]
  BY <1>0, <1>1, <1>2 DEF TypeOK, Reader
<1>6. Onward
  BY <1>0, <1>1, <1>5 DEF Onward
<1>7. TypeOK'
  BY <1>0, <1>1, <1>2, <1>3, <1>4, <1>5 DEF TypeOK, Tame, Sockets
<1>8. ASSUME NEW j \in Caller PROVE Follows(j)
  <2>1. CASE j = k
    <3>1. CallOK(k)'
      BY <1>1, <1>2, <1>4, <1>5 DEF CallOK, Dials
    <3> QED BY <1>0, <1>4, <1>5, <2>1, <3>1 DEF Follows
  <2>2. CASE j # k
    <3>1. call[j] \in {"reply", "ready"} => reader'[via[j]][At(j)] = "none"
      <4>1. call[j] \in {"reply", "ready"} =>
              via[j] \in Conn /\ At(j) \in End /\ At(j) # e /\ reader[via[j]][At(j)] = "none"
        BY <1>4, <2>2, CallerFacts DEF IInv, CallInv, CallOK, Dials
      <4> QED BY <1>5, <4>1
    <3> QED BY <1>2, <1>4, <1>6, <2>2, <3>1, StaysFollows
  <2> QED BY <2>1, <2>2
<1>9. ReadyHeard
  BY <1>4 DEF ReadyHeard, Stays
<1>10. ASSUME NEW x \in End PROVE RegFollows(x)
  <2>1. reg[x] # None => reg[x] \in Conn /\ reader[reg[x]][x] = "loop"
    BY DEF IInv, TypeOK, SocketInv, SocketOK
  <2>2. CASE x = e
    BY <1>0, <1>1, <1>3, <1>5, <2>2 DEF RegFollows, TypeOK
  <2>3. CASE x # e
    BY <1>0, <1>1, <1>3, <1>5, <2>1, <2>3 DEF RegFollows, TypeOK
  <2> QED BY <2>2, <2>3
<1>11. ForgetInv'
  <2>1. Handshaking(e) /\ \A x \in End : x # e => reg'[x] = reg[x]
    BY <1>0, <1>1, <1>3 DEF Handshaking, TypeOK
  <2> QED BY <1>2, <1>6, <1>8, <2>1, ForgetKept
<1> QED BY <1>2, <1>3, <1>6, <1>7, <1>8, <1>9, <1>10, <1>11, Carried

LEMMA QueueStep == ASSUME IInv, NEW k \in Caller, Queue(k) PROVE IInv'
<1> DEFINE c == via[k]
           e == At(k)
<1>0. call[k] = "live" /\ TypeOK /\ Sockets /\ CallOK(k)
  BY SocketsTyped DEF Queue, IInv, CallInv
<1>1. /\ c \in Conn /\ e \in End /\ up[c][e] # "unused" /\ reader[c][e] \in {"loop", "gone"}
  BY <1>0, HeldSocket DEF CallOK
<1>2. UNCHANGED <<faults, dialer, reader, dialing, via, tries, reg, trusted, addr, forget,
                  arrived, straddled>>
  BY DEF Queue, endVars
<1>3. /\ Tame /\ call' \in [Caller -> Call] /\ call'[k] \in {"sent", "refused", "idle"}
      /\ \A j \in Caller : j # k => Stays(j)
      /\ k \in Sender /\ call'[k] = "sent" =>
           Queued(c, e, k)' \/ \E x \in End : up'[c][x] = "dead"
  <2>1. CASE k \in Sender
    <3>1. /\ Enqueue(c, e, k)
          /\ call' = [call EXCEPT ![k] = IF Dead(c, e) \/ Full(c, e) THEN "refused" ELSE "sent"]
      BY <2>1 DEF Queue, Move
    <3>2. /\ Tame
          /\ ~Dead(c, e) /\ ~Full(c, e) =>
               (\E j \in 1 .. Len(out'[c][e]) : out'[c][e][j] = k) \/ \E x \in End : up'[c][x] = "dead"
      BY <1>0, <1>1, <2>1, <3>1, EnqueueTame
    <3>3. call'[k] = IF Dead(c, e) \/ Full(c, e) THEN "refused" ELSE "sent"
      BY <1>0, <3>1 DEF TypeOK
    <3>4. call' \in [Caller -> Call] /\ \A j \in Caller : j # k => Stays(j)
      BY <1>0, <1>2, <3>1 DEF TypeOK, Call, Stays
    <3>5. Queued(c, e, k)' <=> \E j \in 1 .. Len(out'[c][e]) : out'[c][e][j] = k
      BY <1>2 DEF Queued
    <3> QED BY <3>2, <3>3, <3>4, <3>5
  <2>2. CASE k \notin Sender
    <3>1. UNCHANGED <<out, up>> /\ call' = [call EXCEPT ![k] = "idle"]
      BY <2>2 DEF Queue, Move
    <3> QED BY <1>0, <1>2, <2>2, <3>1, TameIdle DEF TypeOK, Call, Stays
  <2> QED BY <2>1, <2>2
<1>4. Onward
  BY <1>2 DEF Onward
<1>5. TypeOK'
  BY <1>0, <1>2, <1>3 DEF TypeOK, Tame, Sockets
<1>6. ASSUME NEW j \in Caller PROVE Follows(j)
  <2>1. CASE j = k
    <3>1. CallOK(k)'
      BY <1>1, <1>2, <1>3 DEF CallOK, Dials
    <3> QED BY <1>0, <1>2, <1>3, <2>1, <3>1 DEF Follows
  <2>2. CASE j # k
    BY <1>2, <1>3, <1>4, <2>2, StaysFollows DEF IInv, CallInv, CallOK
  <2> QED BY <2>1, <2>2
<1>7. ReadyHeard
  BY <1>3 DEF ReadyHeard, Stays
<1>8. \A x \in End : RegFollows(x)
  BY <1>2, RegKept
<1>9. ForgetInv'
  BY <1>2, <1>4, <1>6, ForgetKept
<1> QED BY <1>2, <1>3, <1>4, <1>5, <1>6, <1>7, <1>8, <1>9, Carried

-----------------------------------------------------------------------------
(* The steps of a reader, of the network and of Forget: no call moves.     *)

LEMMA NoCallMoves ==
  ASSUME IInv, Onward, UNCHANGED <<dialer, dialing, call, via, tries>>,
         \A c \in Conn, e \in End : reader[c][e] = "none" => reader'[c][e] = "none"
  PROVE  (\A k \in Caller : Follows(k)) /\ ReadyHeard
<1>1. ASSUME NEW k \in Caller PROVE Follows(k)
  <2>1. CallOK(k) /\ At(k) \in End
    BY CallerFacts DEF IInv, CallInv
  <2>2. Stays(k)
    BY DEF Stays
  <2>3. call[k] \in {"reply", "ready"} => reader'[via[k]][At(k)] = "none"
    BY <2>1 DEF CallOK
  <2> QED BY <2>1, <2>2, <2>3, StaysFollows DEF CallOK
<1> QED BY <1>1 DEF ReadyHeard

LEMMA RegisterStep == ASSUME IInv, NEW c \in Conn, NEW e \in End, Register(c, e) PROVE IInv'
<1>0. TypeOK /\ Sockets /\ c # None /\ reader[c][e] = "register"
  BY SocketsTyped, Apart DEF Register, IInv
<1>1. /\ RegisterConn(c, e) /\ reader' = [reader EXCEPT ![c][e] = "loop"]
      /\ UNCHANGED <<faults, dialer, dialing, call, via, tries, trusted, forget, arrived, straddled>>
      /\ addr' \in [End -> BOOLEAN]
  BY <1>0 DEF Register, Goto, callVars, TypeOK
<1>2. /\ Tame /\ reg' = [reg EXCEPT ![e] = c]
      /\ reg[e] \notin {None, c} => up'[reg[e]][e] # "open"
  BY <1>0, <1>1, RegisterTame DEF IInv
<1>3. /\ reader' \in [Conn -> [End -> Reader]] /\ reader'[c][e] = "loop"
      /\ \A d \in Conn, x \in End : d # c \/ x # e => reader'[d][x] = reader[d][x]
  BY <1>0, <1>1 DEF TypeOK, Reader
<1>4. Onward
  BY <1>0, <1>3 DEF Onward
<1>5. TypeOK'
  BY <1>0, <1>1, <1>2, <1>3 DEF TypeOK, Tame, Sockets
<1>6. (\A k \in Caller : Follows(k)) /\ ReadyHeard
  <2>1. \A d \in Conn, x \in End : reader[d][x] = "none" => reader'[d][x] = "none"
    BY <1>0, <1>3
  <2> QED BY <1>1, <1>4, <2>1, NoCallMoves
<1>7. ASSUME NEW x \in End PROVE RegFollows(x)
  <2>1. reg[x] # None => reg[x] \in Conn /\ reader[reg[x]][x] = "loop"
    BY DEF IInv, TypeOK, SocketInv, SocketOK
  <2>2. CASE x = e
    BY <1>0, <1>2, <1>3, <2>2 DEF RegFollows, TypeOK
  <2>3. CASE x # e
    BY <1>0, <1>2, <1>3, <2>1, <2>3 DEF RegFollows, TypeOK
  <2> QED BY <2>2, <2>3
<1>8. ForgetInv'
  <2>1. Handshaking(e) /\ \A x \in End : x # e => reg'[x] = reg[x]
    BY <1>0, <1>2 DEF Handshaking, TypeOK
  <2> QED BY <1>1, <1>4, <1>6, <2>1, ForgetKept
<1> QED BY <1>1, <1>2, <1>4, <1>5, <1>6, <1>7, <1>8, Carried

(* A step that touches neither the readers nor the registries.             *)
LEMMA SocketOnly ==
  ASSUME IInv, TypeOK', Tame, arrived \subseteq arrived',
         UNCHANGED <<dialer, reader, dialing, call, via, tries, reg, trusted, forget, straddled>>
  PROVE  IInv'
<1>1. Onward
  BY DEF Onward
<1>2. (\A k \in Caller : Follows(k)) /\ ReadyHeard
  BY <1>1, NoCallMoves
<1>3. \A x \in End : RegFollows(x)
  BY RegKept
<1>4. ForgetInv'
  BY <1>1, <1>2, ForgetKept
<1> QED BY <1>1, <1>2, <1>3, <1>4, Carried

LEMMA ReadSignalStep == ASSUME IInv, NEW c \in Conn, NEW e \in End, ReadSignal(c, e) PROVE IInv'
<1>0. TypeOK /\ Sockets
  BY SocketsTyped DEF IInv
<1>1. /\ Next1(c, e) \in Sender /\ Take(c, e) /\ arrived' = arrived \cup {Next1(c, e)}
      /\ UNCHANGED <<faults, dialer, up, reader, dialing, call, via, tries, reg, trusted, addr,
                     forget, straddled>>
  BY DEF ReadSignal, callVars
<1>2. Next1(c, e) # "nothing"
  BY <1>1, Apart
<1>3. Inbox(c, e) # <<>> /\ Head(Inbox(c, e)) = Next1(c, e)
  BY <1>2 DEF Next1
<1>4. Tame
  BY <1>0, <1>1, <1>3, TakeTame
<1>5. TypeOK'
  BY <1>0, <1>1, <1>4 DEF TypeOK, Tame, Sockets
<1> QED BY <1>1, <1>4, <1>5, SocketOnly

LEMMA CloseSentStep == ASSUME IInv, NEW c \in Conn, NEW e \in End, CloseSent(c, e) PROVE IInv'
<1>0. TypeOK /\ Sockets
  BY SocketsTyped DEF IInv
<1>1. /\ HardClose(c, e) /\ up[c][e] # "unused" /\ faults' \in 0 .. MaxFaults
      /\ UNCHANGED <<dialer, reader, dialing, call, via, tries, reg, trusted, addr, forget,
                     arrived, straddled>>
  BY <1>0, FaultType DEF CloseSent, callVars, endVars, TypeOK
<1>2. Tame
  BY <1>0, <1>1, HardCloseCloses DEF Closes
<1>3. TypeOK'
  BY <1>0, <1>1, <1>2 DEF TypeOK, Tame, Sockets
<1> QED BY <1>1, <1>2, <1>3, SocketOnly

LEMMA BreakStep == ASSUME IInv, NEW c \in Conn, NEW e \in End, Break(c, e) PROVE IInv'
<1>0. TypeOK /\ Sockets
  BY SocketsTyped DEF IInv
<1>1. /\ HardClose(c, e) /\ up[c][e] # "unused" /\ faults' \in 0 .. MaxFaults
      /\ UNCHANGED <<dialer, reader, dialing, call, via, tries, reg, trusted, addr, forget,
                     arrived, straddled>>
  BY <1>0, FaultType DEF Break, callVars, endVars, TypeOK
<1>2. Tame
  BY <1>0, <1>1, HardCloseCloses DEF Closes
<1>3. TypeOK'
  BY <1>0, <1>1, <1>2 DEF TypeOK, Tame, Sockets
<1> QED BY <1>1, <1>2, <1>3, SocketOnly

LEMMA TeardownStep == ASSUME IInv, NEW c \in Conn, NEW e \in End, Teardown(c, e) PROVE IInv'
<1>0. TypeOK /\ Sockets /\ c # None
  BY SocketsTyped, Apart DEF IInv
<1>1. /\ HardClose(c, e) /\ reader[c][e] \in {"hello", "pairing", "loop"}
      /\ reg' = [reg EXCEPT ![e] = IF reg[e] = c THEN None ELSE reg[e]]
      /\ reader' = [reader EXCEPT ![c][e] = "gone"]
      /\ UNCHANGED <<faults, dialer, dialing, call, via, tries, trusted, addr, forget,
                     arrived, straddled>>
  BY <1>0 DEF Teardown, ReadsEnd, Goto, callVars, TypeOK
<1>2. up[c][e] # "unused"
  BY <1>1 DEF IInv, SocketInv, SocketOK
<1>3. Tame /\ up'[c][e] = "dead"
  BY <1>0, <1>1, <1>2, HardCloseCloses DEF Closes
<1>4. /\ reader' \in [Conn -> [End -> Reader]] /\ reader'[c][e] = "gone"
      /\ \A d \in Conn, x \in End : d # c \/ x # e => reader'[d][x] = reader[d][x]
      /\ reg' \in [End -> Conn \cup {None}]
      /\ reg'[e] = IF reg[e] = c THEN None ELSE reg[e]
      /\ \A x \in End : x # e => reg'[x] = reg[x]
  BY <1>0, <1>1 DEF TypeOK, Reader
<1>5. Onward
  BY <1>1, <1>3, <1>4 DEF Onward
<1>6. TypeOK'
  BY <1>0, <1>1, <1>3, <1>4 DEF TypeOK, Tame, Sockets
<1>7. (\A k \in Caller : Follows(k)) /\ ReadyHeard
  <2>1. \A d \in Conn, x \in End : reader[d][x] = "none" => reader'[d][x] = "none"
    BY <1>1, <1>4
  <2> QED BY <1>1, <1>5, <2>1, NoCallMoves
<1>8. ASSUME NEW x \in End PROVE RegFollows(x)
  <2>1. reg[x] # None => reg[x] \in Conn /\ reader[reg[x]][x] = "loop"
    BY DEF IInv, TypeOK, SocketInv, SocketOK
  <2> QED BY <1>0, <1>3, <1>4, <2>1 DEF RegFollows
<1>9. ForgetInv'
  BY <1>1, <1>4, <1>5, <1>7, ForgetKept
<1> QED BY <1>1, <1>3, <1>5, <1>6, <1>7, <1>8, <1>9, Carried

LEMMA ForgetRemoveStep == ASSUME IInv, NEW e \in End, ForgetRemove(e) PROVE IInv'
<1>0. TypeOK /\ Sockets
  BY SocketsTyped DEF IInv
<1>1. /\ trusted' = [trusted EXCEPT ![e] = FALSE] /\ forget' = [forget EXCEPT ![e] = "removed"]
      /\ UNCHANGED <<dialer, out, up, reader, faults, dialing, call, via, tries, reg, addr,
                     arrived, straddled>>
  BY DEF ForgetRemove, connVars, callVars
<1>2. Tame /\ Onward
  BY <1>0, <1>1, TameIdle DEF Onward
<1>3. TypeOK'
  BY <1>0, <1>1 DEF TypeOK
<1>4. (\A k \in Caller : Follows(k)) /\ ReadyHeard
  BY <1>1, <1>2, NoCallMoves
<1>5. \A x \in End : RegFollows(x)
  BY <1>1, RegKept
<1>6. ASSUME NEW x \in End PROVE ForgetOK(x)'
  <2>1. ForgetOK(x) /\ (Handshaking(x)' <=> Handshaking(x))
    BY <1>1 DEF IInv, ForgetInv, Handshaking
  <2>2. /\ x = e => forget'[x] = "removed" /\ ~trusted'[x]
        /\ x # e => forget'[x] = forget[x] /\ trusted'[x] = trusted[x]
    BY <1>0, <1>1 DEF TypeOK
  <2> QED BY <1>1, <2>1, <2>2 DEF ForgetOK
<1> QED BY <1>1, <1>2, <1>3, <1>4, <1>5, <1>6, Carried DEF ForgetInv

LEMMA ForgetCloseStep == ASSUME IInv, NEW e \in End, ForgetClose(e) PROVE IInv'
<1>0. TypeOK /\ Sockets
  BY SocketsTyped DEF IInv
<1>1. /\ forget[e] = "removed"
      /\ straddled' = [straddled EXCEPT ![e] = Handshaking(e)]
      /\ reg' = [reg EXCEPT ![e] = None] /\ forget' = [forget EXCEPT ![e] = "done"]
      /\ IF Live(e) # None THEN CloseWith(Live(e), e) ELSE UNCHANGED <<out, up>>
      /\ UNCHANGED <<dialer, reader, faults, dialing, call, via, tries, trusted, addr, arrived>>
  BY DEF ForgetClose, callVars
<1>2. reg[e] # None => reg[e] \in Conn /\ reader[reg[e]][e] = "loop" /\ up[reg[e]][e] # "unused"
  BY DEF IInv, TypeOK, SocketInv, SocketOK
<1>3. Tame /\ (reg[e] # None => up'[reg[e]][e] # "open")
  <2>1. CASE Live(e) # None
    <3>1. Live(e) = reg[e] /\ reg[e] # None
      BY <2>1 DEF Live
    <3>2. Closes(reg[e], e)
      BY <1>0, <1>1, <1>2, <2>1, <3>1, CloseWithCloses
    <3> QED BY <3>2 DEF Closes
  <2>2. CASE Live(e) = None
    <3>1. UNCHANGED <<out, up>>
      BY <1>1, <2>2
    <3> QED BY <1>0, <1>2, <2>2, <3>1, TameIdle DEF Live, Dead
  <2> QED BY <2>1, <2>2
<1>4. Onward
  BY <1>1 DEF Onward
<1>5. TypeOK'
  <2>1. Handshaking(e) \in BOOLEAN
    BY DEF Handshaking
  <2> QED BY <1>0, <1>1, <1>3, <2>1 DEF TypeOK, Tame, Sockets
<1>6. (\A k \in Caller : Follows(k)) /\ ReadyHeard
  BY <1>1, <1>4, NoCallMoves
<1>7. ASSUME NEW x \in End PROVE RegFollows(x)
  <2>1. reg[x] # None => reg[x] \in Conn /\ reader[reg[x]][x] = "loop"
    BY DEF IInv, TypeOK, SocketInv, SocketOK
  <2> QED BY <1>0, <1>1, <1>3, <2>1 DEF RegFollows, TypeOK
<1>8. ASSUME NEW x \in End PROVE ForgetOK(x)'
  <2>1. ForgetOK(x) /\ (Handshaking(x)' <=> Handshaking(x))
    BY <1>1 DEF IInv, ForgetInv, Handshaking
  <2>2. CASE x = e
    <3>1. forget'[e] = "done" /\ reg'[e] = None /\ (straddled'[e] <=> Handshaking(e))
      BY <1>0, <1>1 DEF TypeOK
    <3> QED BY <1>1, <2>1, <2>2, <3>1 DEF ForgetOK
  <2>3. CASE x # e
    <3>1. forget'[x] = forget[x] /\ reg'[x] = reg[x] /\ straddled'[x] = straddled[x]
      BY <1>0, <1>1, <2>3 DEF TypeOK
    <3> QED BY <1>1, <2>1, <3>1 DEF ForgetOK
  <2> QED BY <2>2, <2>3
<1> QED BY <1>1, <1>3, <1>4, <1>5, <1>6, <1>7, <1>8, Carried DEF ForgetInv

-----------------------------------------------------------------------------
(* A socket is opened.                                                     *)

LEMMA DialStep == ASSUME IInv, NEW k \in Caller, NEW c \in Conn, Dial(k, c) PROVE IInv'
<1> DEFINE e == At(k)
           y == Other(e)
           h == <<"hello">>
<1>0. /\ TypeOK /\ e \in End /\ y \in End /\ e # y /\ Other(y) = e /\ e # None /\ y # None
      /\ c # None /\ call[k] = "dial" /\ trusted[e] /\ dialer[c] = None
      /\ \A x \in End : x = e \/ x = y
  BY CallerFacts, EndFacts, Apart DEF Dial, IInv
<1>1. /\ dialer' = [dialer EXCEPT ![c] = e] /\ up' = [up EXCEPT ![c] = [x \in End |-> "open"]]
      /\ out' = [out EXCEPT ![c][e] = h] /\ reader' = [reader EXCEPT ![c][y] = "hello"]
      /\ via' = [via EXCEPT ![k] = c] /\ call' = [call EXCEPT ![k] = "reply"]
      /\ UNCHANGED <<faults, dialing, tries, reg, trusted, addr, forget, arrived, straddled>>
  BY DEF Dial, Goto, Move, endVars
<1>2. /\ dialer'[c] = e /\ out'[c][e] = h /\ out'[c][y] = out[c][y]
      /\ reader'[c][y] = "hello" /\ reader'[c][e] = reader[c][e] /\ via'[k] = c /\ call'[k] = "reply"
      /\ \A x \in End : up'[c][x] = "open"
      /\ \A d \in Conn : d # c => dialer'[d] = dialer[d]
      /\ \A d \in Conn, x \in End : d # c =>
           out'[d][x] = out[d][x] /\ up'[d][x] = up[d][x] /\ reader'[d][x] = reader[d][x]
      /\ \A j \in Caller : j # k => call'[j] = call[j] /\ via'[j] = via[j]
  BY <1>0, <1>1 DEF TypeOK
<1>3. \A x \in End : reader[c][x] = "none" /\ up[c][x] = "unused" /\ reg[x] # c
  BY <1>0 DEF IInv, SocketInv, SocketOK
<1>4. \A j \in Caller : call[j] \in {"reply", "ready", "live", "sent"} => via[j] # c
  BY <1>3, HeldSocket
<1>5. h \in Seq(Frame) /\ Len(h) = 1 /\ h[1] = "hello"
  BY DEF Frame
<1> HIDE DEF h
<1>6. TypeOK'
  <2>1. out' \in [Conn -> [End -> Seq(Frame)]]
    BY <1>0, <1>1, <1>5 DEF TypeOK
  <2>2. \A d \in Conn, x \in End : Len(out'[d][x]) <= SendBuffer
    <3> SUFFICES ASSUME NEW d \in Conn, NEW x \in End PROVE Len(out'[d][x]) <= SendBuffer
      OBVIOUS
    <3>1. CASE d = c /\ x = e
      <4>1. out'[d][x] = h
        BY <1>2, <3>1
      <4>2. Len(out'[d][x]) = 1
        BY <1>5, <4>1
      <4> QED BY <4>2, Apart
    <3>2. CASE d # c \/ x # e
      <4>1. out'[d][x] = out[d][x]
        BY <1>0, <1>2, <3>2
      <4> QED BY <1>0, <4>1 DEF TypeOK
    <3> QED BY <3>1, <3>2
  <2>3. /\ dialer' \in [Conn -> End \cup {None}]
        /\ up' \in [Conn -> [End -> {"unused", "open", "closing", "dead"}]]
        /\ reader' \in [Conn -> [End -> Reader]]
    BY <1>0, <1>1 DEF TypeOK, Reader
  <2>4. via' \in [Caller -> Conn \cup {None}] /\ call' \in [Caller -> Call]
    BY <1>0, <1>1 DEF TypeOK, Call
  <2> QED BY <1>0, <1>1, <2>1, <2>2, <2>3, <2>4 DEF TypeOK
<1>7. WireInv'
  <2> SUFFICES ASSUME NEW d \in Conn, NEW x \in End, NEW i \in 1 .. Len(out'[d][x])
               PROVE  FrameOK(d, x, i)'
    BY DEF WireInv
  <2>1. CASE d # c
    <3>1. FrameOK(d, x, i) /\ Other(x) \in End
      BY <1>2, <2>1, EndFacts DEF IInv, WireInv
    <3> QED BY <1>2, <2>1, <3>1 DEF FrameOK, Dead
  <2>2. CASE d = c /\ x = e
    <3>1. i = 1 /\ out'[c][e][i] = "hello"
      <4>1. out'[c][e] = h /\ i \in 1 .. Len(out'[c][e])
        BY <1>2, <2>2
      <4>2. i \in 1 .. 1
        BY <1>5, <4>1
      <4>3. i = 1
        BY <4>2
      <4> QED BY <1>5, <4>1, <4>3
    <3>2. "hello" \notin Sender /\ up'[c][y] # "dead"
      BY <1>0, <1>2, Apart
    <3> QED BY <1>0, <1>2, <2>2, <3>1, <3>2 DEF FrameOK, Dead
  <2>3. CASE d = c /\ x = y
    <3>1. FrameOK(c, y, i) /\ out'[c][y][i] = out[c][y][i]
      BY <1>2, <2>3 DEF IInv, WireInv
    <3>2. out[c][y][i] \notin {"hello", "ready", "required"} \cup Sender
      BY <1>0, <1>3, <3>1 DEF FrameOK
    <3> QED BY <2>3, <3>1, <3>2 DEF FrameOK
  <2> QED BY <1>0, <2>1, <2>2, <2>3
<1>8. CallInv'
  <2> SUFFICES ASSUME NEW j \in Caller PROVE CallOK(j)'
    BY DEF CallInv
  <2>1. CallOK(j) /\ At(j) \in End /\ Other(At(j)) \in End
    BY CallerFacts, EndFacts DEF IInv, CallInv
  <2>2. CASE j = k
    BY <1>0, <1>1, <1>2, <1>3, <2>1, <2>2 DEF CallOK, Dials
  <2>3. CASE j # k
    BY <1>1, <1>2, <1>4, <2>1, <2>3 DEF CallOK, Dials
  <2> QED BY <2>2, <2>3
<1>9. SocketInv'
  <2> SUFFICES ASSUME NEW d \in Conn, NEW x \in End PROVE SocketOK(d, x)'
    BY DEF SocketInv
  <2>1. CASE d # c
    <3>1. SocketOK(d, x) /\ Other(x) \in End
      BY EndFacts DEF IInv, SocketInv
    <3>2. (\E j \in Caller : At(j) = x /\ via[j] = d /\ call[j] \in {"reply", "ready"})
            => \E j \in Caller : At(j) = x /\ via'[j] = d /\ call'[j] \in {"reply", "ready"}
      BY <1>0, <1>2
    <3> QED BY <1>1, <1>2, <2>1, <3>1, <3>2 DEF SocketOK, Dead
  <2>2. CASE d = c /\ x = e
    BY <1>0, <1>1, <1>2, <1>3, <2>2 DEF SocketOK
  <2>3. CASE d = c /\ x = y
    BY <1>0, <1>1, <1>2, <1>3, <2>3 DEF SocketOK
  <2> QED BY <1>0, <2>1, <2>2, <2>3
<1>10. ForgetInv'
  <2> SUFFICES ASSUME NEW x \in End PROVE ForgetOK(x)'
    BY DEF ForgetInv
  <2>1. ForgetOK(x)
    BY DEF IInv, ForgetInv
  <2>2. CASE x = e
    BY <1>0, <1>1, <2>1, <2>2 DEF ForgetOK
  <2>3. CASE x # e
    <3>1. Handshaking(x)' => Handshaking(x)
      BY <1>0, <1>2, <1>3, <2>3 DEF Handshaking
    <3> QED BY <1>1, <2>1, <3>1 DEF ForgetOK
  <2> QED BY <2>2, <2>3
<1>11. NoOrphanSocket'
  BY <1>0, <1>1, <1>2, <1>3 DEF IInv, NoOrphanSocket
<1>12. SignalsAccounted'
  <2> SUFFICES ASSUME NEW j \in Sender, call'[j] = "sent"
               PROVE  \/ j \in arrived' \/ Queued(via[j], At(j), j)'
                      \/ \E x \in End : up'[via'[j]][x] = "dead"
    BY DEF SignalsAccounted, Dead
  <2>1. j \in Caller /\ j # k /\ call[j] = "sent" /\ via'[j] = via[j]
    BY <1>2 DEF Caller
  <2>2. via[j] # c /\ via[j] \in Conn /\ At(j) \in End
    BY <1>4, <2>1, HeldSocket
  <2> QED BY <1>1, <1>2, <2>1, <2>2 DEF IInv, SignalsAccounted, Queued, Dead
<1> QED BY <1>6, <1>7, <1>8, <1>9, <1>10, <1>11, <1>12 DEF IInv

(* A hello is answered: the end that dialled waits for the answer.         *)
LEMMA ReadHelloStep == ASSUME IInv, NEW c \in Conn, NEW e \in End, ReadHello(c, e) PROVE IInv'
<1> DEFINE y == Other(e)
           w == out[c][y]
           h == <<IF trusted[e] THEN "ready" ELSE "required">>
           f == IF trusted[e] THEN "ready" ELSE "required"
           r == IF trusted[e] THEN "register" ELSE "pairing"
<1>0. /\ TypeOK /\ Sockets /\ y \in End /\ e # y /\ Other(y) = e /\ c # None
      /\ reader[c][e] = "hello" /\ ~Dead(c, e)
      /\ \A x \in End : x = e \/ x = y
  BY EndFacts, SocketsTyped, Apart DEF ReadHello, IInv
<1>1. /\ Inbox(c, e) # <<>> /\ 1 \in 1 .. Len(w) /\ w[1] = "hello"
  BY <1>0, FirstFrame DEF ReadHello, Frame
<1>2. dialer[c] = y /\ reader[c][y] = "none"
  <2>1. FrameOK(c, y, 1)
    BY <1>0, <1>1 DEF IInv, WireInv
  <2>2. dialer[c] = y
    BY <1>1, <2>1 DEF FrameOK
  <2> QED BY <1>0, <2>2 DEF IInv, SocketInv, SocketOK
<1>3. /\ out' = [out EXCEPT ![c] = [x \in End |-> IF x = e THEN h ELSE Tail(out[c][x])]]
      /\ reader' = [reader EXCEPT ![c][e] = r]
      /\ UNCHANGED <<faults, dialer, up, dialing, call, via, tries, reg, trusted, addr, forget,
                     arrived, straddled>>
  BY <1>0 DEF ReadHello, Goto, callVars, endVars, TypeOK
<1>4. /\ Tail(w) \in Seq(Frame) /\ Len(Tail(w)) <= Len(w) /\ Len(w) \in Nat /\ Len(Tail(w)) \in Nat
      /\ \A i \in 1 .. Len(Tail(w)) : i + 1 \in 1 .. Len(w) /\ Tail(w)[i] = w[i + 1]
  <2>1. w \in Seq(Frame) /\ w # <<>>
    BY <1>0, <1>1 DEF Sockets, Inbox
  <2> QED BY <2>1, TailFacts, LenProperties
<1>5. h \in Seq(Frame) /\ Len(h) = 1 /\ h[1] = f
  BY DEF Frame
<1> HIDE DEF h
<1>6. /\ out'[c][e] = h /\ out'[c][y] = Tail(w) /\ reader'[c][e] = r
      /\ \A d \in Conn, x \in End : d # c => out'[d][x] = out[d][x]
      /\ \A d \in Conn, x \in End : d # c \/ x # e => reader'[d][x] = reader[d][x]
  BY <1>0, <1>3 DEF TypeOK
<1>7. \A j \in Caller : call[j] \in {"ready", "live", "sent"} => via[j] # c
  BY <1>0, <1>2, CallerFacts DEF IInv, CallInv, CallOK
<1>8. TypeOK'
  <2>1. [x \in End |-> IF x = e THEN h ELSE Tail(out[c][x])] \in [End -> Seq(Frame)]
    BY <1>0, <1>4, <1>5
  <2>2. out' \in [Conn -> [End -> Seq(Frame)]]
    BY <1>0, <1>3, <2>1 DEF TypeOK
  <2>3. \A d \in Conn, x \in End : Len(out'[d][x]) <= SendBuffer
    <3> DEFINE n == Len(Tail(w))
    <3> HIDE DEF n
    <3>1. n <= SendBuffer
      BY <1>0, <1>4, Apart DEF TypeOK, n
    <3> SUFFICES ASSUME NEW d \in Conn, NEW x \in End PROVE Len(out'[d][x]) <= SendBuffer
      OBVIOUS
    <3>2. CASE d = c /\ x = e
      <4>1. out'[d][x] = h
        BY <1>6, <3>2
      <4>2. Len(out'[d][x]) = 1
        BY <1>5, <4>1
      <4> QED BY <4>2, Apart
    <3>3. CASE d = c /\ x = y
      BY <1>6, <3>1, <3>3 DEF n
    <3>4. CASE d # c
      BY <1>0, <1>6, <3>4 DEF TypeOK
    <3> QED BY <1>0, <3>2, <3>3, <3>4
  <2>4. reader' \in [Conn -> [End -> Reader]]
    BY <1>0, <1>3 DEF TypeOK, Reader
  <2> QED BY <1>0, <1>3, <2>2, <2>3, <2>4 DEF TypeOK
<1>9. WireInv'
  <2> SUFFICES ASSUME NEW d \in Conn, NEW x \in End, NEW i \in 1 .. Len(out'[d][x])
               PROVE  FrameOK(d, x, i)'
    BY DEF WireInv
  <2>1. CASE d # c
    <3>1. FrameOK(d, x, i) /\ Other(x) \in End
      BY <1>6, <2>1, EndFacts DEF IInv, WireInv
    <3> QED BY <1>3, <1>6, <2>1, <3>1 DEF FrameOK, Dead
  <2>2. CASE d = c /\ x = e
    <3>1. i = 1 /\ out'[c][e][i] = f
      <4>1. out'[c][e] = h /\ i \in 1 .. Len(out'[c][e])
        BY <1>6, <2>2
      <4>2. i \in 1 .. 1
        BY <1>5, <4>1
      <4>3. i = 1
        BY <4>2
      <4> QED BY <1>5, <4>1, <4>3
    <3>2. f \notin Sender /\ f \in {"ready", "required"}
      BY Apart
    <3>3. \A j \in Caller : via'[j] = c => call'[j] # "ready"
      BY <1>3, <1>7
    <3>4. dialer'[c] = y /\ reader'[c][y] = "none" /\ reader'[c][e] = r
      BY <1>0, <1>2, <1>3, <1>6
    <3> QED BY <2>2, <3>1, <3>2, <3>3, <3>4 DEF FrameOK
  <2>3. CASE d = c /\ x = y
    <3>0. i \in 1 .. Len(Tail(w)) /\ out'[c][y][i] = Tail(w)[i]
      BY <1>6, <2>3
    <3>1. i \in Nat /\ i >= 1 /\ i + 1 \in 1 .. Len(w) /\ out'[c][y][i] = w[i + 1]
      <4>1. i + 1 \in 1 .. Len(w) /\ Tail(w)[i] = w[i + 1]
        BY <1>4, <3>0
      <4> DEFINE m == Len(Tail(w))
      <4>2. m \in Nat /\ i \in 1 .. m
        BY <1>4, <3>0
      <4> HIDE DEF m
      <4>3. i \in Nat /\ i >= 1
        BY <4>2
      <4> QED BY <3>0, <4>1, <4>3
    <3>2. FrameOK(c, y, i + 1)
      BY <1>0, <3>1 DEF IInv, WireInv
    <3>3. i + 1 # 1
      BY <3>1
    <3>4. w[i + 1] \notin {"hello", "ready", "required"} \cup Sender
      BY <1>0, <1>2, <3>2, <3>3 DEF FrameOK
    <3> QED BY <2>3, <3>1, <3>4 DEF FrameOK
  <2> QED BY <1>0, <2>1, <2>2, <2>3
<1>10. CallInv'
  <2> SUFFICES ASSUME NEW j \in Caller PROVE CallOK(j)'
    BY DEF CallInv
  <2>1. CallOK(j) /\ At(j) \in End /\ Other(At(j)) \in End
    BY CallerFacts, EndFacts DEF IInv, CallInv
  <2>2. call[j] \in {"reply", "ready"} => reader'[via[j]][At(j)] = "none"
    BY <1>0, <1>6, <2>1 DEF CallOK
  <2>3. call[j] = "ready" => reader'[via[j]][Other(At(j))] \in {"register", "loop", "gone"}
    BY <1>6, <1>7, <2>1 DEF CallOK
  <2>4. call[j] \in {"live", "sent"} => reader'[via[j]][At(j)] \in {"loop", "gone"}
    BY <1>6, <1>7, <2>1 DEF CallOK
  <2> QED BY <1>3, <2>1, <2>2, <2>3, <2>4 DEF CallOK, Dials
<1>11. SocketInv'
  <2> SUFFICES ASSUME NEW d \in Conn, NEW x \in End PROVE SocketOK(d, x)'
    BY DEF SocketInv
  <2>1. SocketOK(d, x) /\ Other(x) \in End
    BY EndFacts DEF IInv, SocketInv
  <2>2. CASE d # c
    BY <1>3, <1>6, <2>1, <2>2 DEF SocketOK, Dead
  <2>3. CASE d = c /\ x = e
    BY <1>0, <1>2, <1>3, <1>6, <2>1, <2>3, Apart DEF SocketOK, Dead
  <2>4. CASE d = c /\ x = y
    BY <1>0, <1>2, <1>3, <1>6, <2>1, <2>4 DEF SocketOK, Dead
  <2> QED BY <1>0, <2>2, <2>3, <2>4
<1>12. ForgetInv'
  <2> SUFFICES ASSUME NEW x \in End PROVE ForgetOK(x)'
    BY DEF ForgetInv
  <2>1. ForgetOK(x)
    BY DEF IInv, ForgetInv
  <2>2. Handshaking(x)' => Handshaking(x) \/ trusted[x]
    BY <1>3, <1>6 DEF Handshaking
  <2> QED BY <1>3, <2>1, <2>2 DEF ForgetOK
<1>13. NoOrphanSocket'
  BY <1>0, <1>3, <1>6 DEF IInv, NoOrphanSocket
<1>14. SignalsAccounted'
  <2> SUFFICES ASSUME NEW j \in Sender, call[j] = "sent"
               PROVE  \/ j \in arrived \/ Queued(via[j], At(j), j)'
                      \/ \E x \in End : Dead(via[j], x)
    BY <1>3 DEF SignalsAccounted, Dead
  <2>1. j \in Caller /\ via[j] # c /\ via[j] \in Conn /\ At(j) \in End
    BY <1>7, HeldSocket DEF Caller
  <2> QED BY <1>3, <1>6, <2>1 DEF IInv, SignalsAccounted, Queued
<1> QED BY <1>8, <1>9, <1>10, <1>11, <1>12, <1>13, <1>14 DEF IInv

-----------------------------------------------------------------------------
LEMMA InitIInv == Init => IInv
<1> SUFFICES ASSUME Init PROVE IInv
  OBVIOUS
<1>1. \A c \in Conn, e \in End : out[c][e] = <<>> /\ Len(out[c][e]) = 0
  BY DEF Init
<1>2. TypeOK
  <2>1. out \in [Conn -> [End -> Seq(Frame)]]
    BY DEF Init
  <2>2. /\ reader \in [Conn -> [End -> Reader]] /\ call \in [Caller -> Call]
        /\ tries \in [Caller -> 0 .. MaxTries] /\ faults \in 0 .. MaxFaults
    BY Apart DEF Init, Reader, Call
  <2>3. \A c \in Conn, e \in End : Len(out[c][e]) <= SendBuffer
    BY <1>1, Apart
  <2> QED BY <2>1, <2>2, <2>3 DEF Init, TypeOK
<1>3. WireInv
  BY <1>1 DEF WireInv
<1>4. CallInv
  BY DEF Init, CallInv, CallOK, Dials
<1>5. SocketInv
  <2> SUFFICES ASSUME NEW c \in Conn, NEW e \in End PROVE SocketOK(c, e)
    BY DEF SocketInv
  <2>1. /\ dialer[c] = None /\ reader[c][e] = "none" /\ up[c][e] = "unused" /\ reg[e] = None
        /\ c # None /\ e # None /\ Other(e) # None
    BY EndFacts, Apart DEF Init
  <2> QED BY <2>1 DEF SocketOK
<1>6. ForgetInv
  BY DEF Init, ForgetInv, ForgetOK
<1>7. NoOrphanSocket
  BY DEF Init, NoOrphanSocket
<1>8. SignalsAccounted
  BY DEF Init, SignalsAccounted, Caller
<1> QED BY <1>2, <1>3, <1>4, <1>5, <1>6, <1>7, <1>8 DEF IInv

LEMMA NextIInv == IInv /\ [Next]_vars => IInv'
<1> SUFFICES ASSUME IInv, [Next]_vars PROVE IInv'
  OBVIOUS
<1>1. ASSUME NEW k \in Caller, SendSignal(k) \/ Remember(k) \/ CallStep(k) PROVE IInv'
  <2>1. CASE SendSignal(k)       BY <2>1, SendSignalStep
  <2>2. CASE Remember(k)         BY <2>2, RememberStep
  <2>3. CASE ReconnectTimer(k)   BY <2>3, ReconnectTimerStep
  <2>4. CASE EnsureLive(k)       BY <2>4, EnsureLiveStep
  <2>5. CASE EnsureFlight(k)     BY <2>5, EnsureFlightStep
  <2>6. CASE \E c \in Conn : Dial(k, c)
    BY <2>6, DialStep
  <2>7. CASE DialFails(k)        BY <2>7, DialFailsStep
  <2>8. CASE Reply(k)            BY <2>8, ReplyStep
  <2>9. CASE Unpaired(k)         BY <2>9, UnpairedStep
  <2>10. CASE NoReply(k)         BY <2>10, NoReplyStep
  <2>11. CASE Ready(k)           BY <2>11, ReadyStep
  <2>12. CASE Queue(k)           BY <2>12, QueueStep
  <2> QED BY <1>1, <2>1, <2>2, <2>3, <2>4, <2>5, <2>6, <2>7, <2>8, <2>9, <2>10, <2>11, <2>12
          DEF CallStep
<1>2. ASSUME NEW c \in Conn, NEW e \in End, ReaderStep(c, e) \/ CloseSent(c, e) \/ Break(c, e)
      PROVE  IInv'
  <2>1. CASE ReadHello(c, e)     BY <2>1, ReadHelloStep
  <2>2. CASE Register(c, e)      BY <2>2, RegisterStep
  <2>3. CASE ReadSignal(c, e)    BY <2>3, ReadSignalStep
  <2>4. CASE Teardown(c, e)      BY <2>4, TeardownStep
  <2>5. CASE CloseSent(c, e)     BY <2>5, CloseSentStep
  <2>6. CASE Break(c, e)         BY <2>6, BreakStep
  <2> QED BY <1>2, <2>1, <2>2, <2>3, <2>4, <2>5, <2>6 DEF ReaderStep
<1>3. ASSUME NEW e \in End, ForgetStep(e) PROVE IInv'
  BY <1>3, ForgetRemoveStep, ForgetCloseStep DEF ForgetStep
<1>4. CASE UNCHANGED vars
  <2>1. /\ UNCHANGED <<dialer, out, up, reader, faults, dialing, call, via, tries>>
        /\ UNCHANGED <<reg, trusted, addr, forget, arrived, straddled>>
    BY <1>4 DEF vars, connVars, callVars, endVars
  <2>2. TypeOK' /\ Tame
    BY <2>1, TameIdle, SocketsTyped DEF IInv, TypeOK
  <2> QED BY <2>1, <2>2, SocketOnly
<1> QED BY <1>1, <1>2, <1>3, <1>4 DEF Next

LEMMA IInvAlways == Spec => []IInv
BY InitIInv, NextIInv, PTL DEF Spec

-----------------------------------------------------------------------------
(* Theorems.                                                               *)

(* Every variable keeps its type, and no queue of a socket grows beyond    *)
(* sendBuffer (enqueueFrame, closeWith).                                   *)
THEOREM TypeCorrect == Spec => []TypeOK
BY IInvAlways, PTL DEF IInv

(* However many calls want a socket at once, one of them dials (ensureConn *)
(* and its flight).                                                        *)
THEOREM OneFlight == Spec => []SingleFlight
<1>1. IInv => SingleFlight
  BY DEF IInv, CallInv, CallOK, SingleFlight
<1> QED BY <1>1, IInvAlways, PTL

(* Whichever socket is replaced, forgotten or torn down, an open one that  *)
(* an end serves is the one it has registered (registerConn, teardown).    *)
THEOREM NoOrphan == Spec => []NoOrphanSocket
BY IInvAlways, PTL DEF IInv

(* A signal SendSignal took has arrived, is queued, or its socket has died *)
(* at one end (outFrame, closeWith).                                       *)
THEOREM SignalsKept == Spec => []SignalsAccounted
BY IInvAlways, PTL DEF IInv

(* When nothing is under way, an end's live socket is the other's too      *)
(* (registerConn's "converges both ends").                                 *)
LEMMA QuietConverges ==
  ASSUME IInv, Quiet, NEW e \in End, reg[e] # None
  PROVE  reg[Other(e)] = reg[e]
<1> DEFINE c == reg[e]
           y == Other(e)
<1>0. /\ TypeOK /\ Sockets /\ c \in Conn /\ y \in End /\ Other(y) = e /\ y # e
      /\ e # None /\ y # None
  BY EndFacts, SocketsTyped DEF IInv, TypeOK
<1>1. reader[c][e] = "loop" /\ SocketOK(c, e) /\ SocketOK(c, y)
  BY <1>0 DEF IInv, SocketInv, SocketOK
<1>2. ~Eof(c, e) /\ Next1(c, e) # "close"
  BY <1>0, <1>1 DEF Quiet, ReadsEnd
<1>3. ~Dead(c, e) /\ up[c][e] = "open"
  BY <1>0, <1>1, <1>2 DEF Eof, Dead, Quiet, SocketOK, TypeOK
<1>4. Inbox(c, e) = <<>>
  <2> SUFFICES ASSUME Inbox(c, e) # <<>> PROVE FALSE
    OBVIOUS
  <2> DEFINE w == out[c][y]
  <2>1. w \in Seq(Frame) /\ w # <<>>
    BY <1>0 DEF Sockets, Inbox
  <2>2. w[1] \in Frame /\ 1 \in 1 .. Len(w) /\ Next1(c, e) = w[1]
    <3>1. Head(w) = w[1] /\ 1 \in 1 .. Len(w) /\ Head(w) \in Frame
      BY <2>1, TailFacts, HeadTailProperties
    <3> QED BY <3>1 DEF Next1, Inbox
  <2>3. FrameOK(c, y, 1)
    BY <1>0, <2>2 DEF IInv, WireInv
  <2>4. w[1] \notin {"hello", "ready", "required"}
    BY <1>0, <1>1, <2>3 DEF FrameOK
  <2>5. w[1] \in Sender
    BY <1>2, <2>2, <2>4 DEF Frame
  <2> QED BY <1>0, <1>3, <2>2, <2>5 DEF Quiet
<1>5. ~Dead(c, y)
  BY <1>2, <1>4 DEF Eof
<1>6. up[c][y] = "open" /\ reader[c][y] \in {"none", "pairing", "loop"}
  BY <1>0, <1>1, <1>5 DEF Quiet, Dead, SocketOK, TypeOK
<1>7. reader[c][y] = "loop"
  <2>1. CASE dialer[c] = e
    BY <1>0, <1>1, <1>6, <2>1 DEF SocketOK
  <2>2. CASE dialer[c] = y
    <3>1. reader[c][y] = "none" =>
            \E k \in Caller : At(k) = y /\ via[k] = c /\ call[k] \in {"reply", "ready"}
      BY <1>1, <1>6, <2>2 DEF SocketOK
    <3> QED BY <1>1, <1>6, <2>2, <3>1 DEF SocketOK, Quiet
  <2>3. dialer[c] # None /\ dialer[c] \in End
    BY <1>0, <1>1 DEF SocketOK, TypeOK
  <2> QED BY <1>0, <2>1, <2>2, <2>3, EndFacts
<1> QED BY <1>0, <1>6, <1>7 DEF IInv, NoOrphanSocket

(* When no call, frame or timer is left, the two registries name the same  *)
(* socket, or neither names one (registerConn, removeConn).                *)
THEOREM RegistriesConverge == Spec => []RegistriesAgree
<1>1. IInv => RegistriesAgree
  <2> SUFFICES ASSUME IInv, Quiet PROVE reg[A] = reg[B]
    BY DEF RegistriesAgree
  <2>1. A \in End /\ B \in End /\ Other(A) = B /\ Other(B) = A
    BY Apart DEF End, Other
  <2>2. reg[A] # None => reg[B] = reg[A]
    BY <2>1, QuietConverges
  <2>3. reg[B] # None => reg[A] = reg[B]
    BY <2>1, QuietConverges
  <2> QED BY <2>2, <2>3
<1> QED BY <1>1, IInvAlways, PTL

(* Forget leaves no connection but one whose handshake it met (Forget,     *)
(* acceptAuthenticated).                                                   *)
THEOREM ForgottenCutOff == Spec => []ForgottenIsCutOff
<1>1. IInv => ForgottenIsCutOff
  BY DEF IInv, ForgetInv, ForgetOK, ForgottenIsCutOff
<1> QED BY <1>1, IInvAlways, PTL
=============================================================================
