---------------------------- MODULE Transfer_proof ----------------------------
(***************************************************************************)
(* The safety properties of Transfer for any number of files of any size,  *)
(* any ceiling and any marks of the buffer.  The inductive invariant says  *)
(* what every frame that may still reach the receiver tells of the two     *)
(* ends, and what every answer on its way back does.                       *)
(***************************************************************************)
EXTENDS Transfer, SequenceTheorems, FiniteSetTheorems, TLAPS

(* Everything the receiver may still be handed, in order.                  *)
Wire == net \o buf

ChunkOf(i, t) == Wire[i].kind = "chunk" /\ Wire[i].of = t

(* The frame at position i.  A start meets no record, and is the first     *)
(* frame of its transfer; a chunk is one the sender has written, later     *)
(* than those in front of it, and continues what the receiver keeps; a     *)
(* complete is the sender's own word.                                      *)
FrameOK(i) ==
  LET f == Wire[i] t == f.of IN
  /\ loop[t] # "none"
  /\ f.kind = "start" =>
       /\ inc[t] = "none"
       /\ \A j \in 1 .. Len(Wire) : Wire[j].of = t /\ j # i => i < j /\ Wire[j].kind # "start"
  /\ f.kind = "chunk" =>
       /\ said[t] = "yes" /\ 1 <= f.n /\ f.n <= sent[t]
       /\ \A j \in 1 .. Len(Wire) : ChunkOf(j, t) /\ j < i => Wire[j].n < f.n
       /\ inc[t] = "active" =>
            /\ Len(got[t]) < f.n
            /\ \/ f.n = Len(got[t]) + 1
               \/ \E j \in 1 .. Len(Wire) : ChunkOf(j, t) /\ j < i /\ Wire[j].n + 1 = f.n
  /\ f.kind = "complete" => out[t] = "complete" /\ said[t] = "yes"

WireInv == chan["receiver"] = "open" => \A i \in 1 .. Len(Wire) : FrameOK(i)

(* The last chunk written is kept, or on its way, while it can arrive.     *)
TopOK(t) ==
  IsOpen("sender") /\ chan["receiver"] = "open" /\ inc[t] = "active" =>
    \/ sent[t] = Len(got[t])
    \/ \E i \in 1 .. Len(Wire) : ChunkOf(i, t) /\ Wire[i].n = sent[t]

(* The frame at position i of those on their way to the sender.            *)
AnswerOK(i) ==
  LET f == toS[i] t == f.of IN
  /\ f.kind = "accept" => said[t] = "yes"
  /\ f.kind \in {"decline", "cancel", "toolarge"} => inc[t] \in Final
  /\ f.kind = "ack" => f.n <= Len(got[t])

AnswerInv == \A i \in 1 .. Len(toS) : AnswerOK(i)

SenderOK(t) ==
  /\ loop[t] = "none" => out[t] = "none" /\ inc[t] = "none"
  /\ loop[t] = "accept" => out[t] = "pending"
  /\ loop[t] \in {"read", "drain"} => said[t] = "yes"
  /\ loop[t] = "drain" => sent[t] < size[t] /\ Sending(t)

ReceiverOK(t) ==
  /\ inc[t] = "none" => said[t] = "none"
  /\ inc[t] = "pending" => prompt = t
  /\ prompt = t => said[t] = "none" /\ inc[t] \in {"pending", "cancelled", "failed"}

(* ReceptionIsFed, from the start of a transfer on.                        *)
FedOK(t) ==
  /\ \A e \in End : chan[e] = "open"
  /\ inc[t] \in Live \/ \E i \in 1 .. Len(Wire) : Wire[i].of = t /\ Wire[i].kind = "start"
  => \/ Sending(t) \/ t \in abandoned
     \/ \E i \in 1 .. Len(Wire) : Wire[i].of = t /\ Wire[i].kind \in {"complete", "cancel"}

EndsInv == \A t \in Transfer : SenderOK(t) /\ ReceiverOK(t) /\ TopOK(t) /\ FedOK(t)

IInv == /\ TypeOK /\ WireInv /\ AnswerInv /\ EndsInv
        /\ ConsentGated /\ DeliveredWhole /\ BufferBounded

-----------------------------------------------------------------------------
(* Sequences.                                                              *)

LEMMA AppendFacts ==
  ASSUME NEW S, NEW s \in Seq(S), NEW x \in S
  PROVE  /\ Append(s, x) \in Seq(S) /\ Len(s) \in Nat
         /\ Len(Append(s, x)) = Len(s) + 1 /\ Append(s, x)[Len(s) + 1] = x
         /\ \A i \in 1 .. Len(s) : Append(s, x)[i] = s[i]
BY AppendProperties, LenProperties

LEMMA TailFacts ==
  ASSUME NEW S, NEW s \in Seq(S), s # <<>>
  PROVE  /\ Tail(s) \in Seq(S) /\ Len(s) \in Nat /\ Len(s) >= 1 /\ Head(s) = s[1] /\ Head(s) \in S
         /\ Len(Tail(s)) = Len(s) - 1
         /\ \A i \in 1 .. Len(s) - 1 : Tail(s)[i] = s[i + 1]
<1>1. Len(s) \in Nat /\ Len(s) >= 1
  BY EmptySeq, LenProperties
<1> QED BY <1>1, HeadTailProperties

LEMMA AppendBehind ==
  ASSUME NEW S, NEW s \in Seq(S), NEW t \in Seq(S), NEW x \in S
  PROVE  s \o Append(t, x) = Append(s \o t, x)
<1>1. <<x>> \in Seq(S) /\ s \o t \in Seq(S)
  BY ConcatProperties
<1>2. Append(t, x) = t \o <<x>> /\ Append(s \o t, x) = (s \o t) \o <<x>>
  BY <1>1, AppendIsConcat
<1> QED BY <1>1, <1>2, ConcatAssociative

LEMMA HeadAcross ==
  ASSUME NEW S, NEW s \in Seq(S), NEW t \in Seq(S), t # <<>>
  PROVE  Append(s, Head(t)) \o Tail(t) = s \o t
<1>1. /\ Head(t) \in S /\ Tail(t) \in Seq(S) /\ <<Head(t)>> \in Seq(S) /\ Len(t) \in Nat
      /\ Len(t) >= 1 /\ Head(t) = t[1]
  BY TailFacts
<1>2. Append(s, Head(t)) = s \o <<Head(t)>>
  BY <1>1, AppendIsConcat
<1>3. <<Head(t)>> \o Tail(t) = t
  <2>1. 1 \in 1 .. Len(t) /\ Len(t) \in 1 .. Len(t)
    BY <1>1
  <2>2. SubSeq(t, 1, Len(t)) = <<t[1]>> \o SubSeq(t, 1 + 1, Len(t))
    BY <2>1, SubSeqRecursiveFirst
  <2>3. SubSeq(t, 1, Len(t)) = t /\ Tail(t) = SubSeq(t, 2, Len(t))
    BY SubSeqFull, TailIsSubSeq
  <2> QED BY <1>1, <2>2, <2>3
<1> QED BY <1>1, <1>2, <1>3, ConcatAssociative

LEMMA TailBefore ==
  ASSUME NEW S, NEW s \in Seq(S), NEW t \in Seq(S), s # <<>>
  PROVE  /\ (s \o t)[1] = Head(s) /\ Tail(s) \o t \in Seq(S)
         /\ Len(s \o t) = Len(Tail(s) \o t) + 1 /\ Len(Tail(s) \o t) \in Nat
         /\ \A i \in 1 .. Len(Tail(s) \o t) : (Tail(s) \o t)[i] = (s \o t)[i + 1]
<1> DEFINE u == Tail(s)
           m == Len(s)
           n == Len(t)
<1>1. /\ u \in Seq(S) /\ m \in Nat /\ n \in Nat /\ m >= 1 /\ Head(s) = s[1] /\ Len(u) = m - 1
      /\ \A i \in 1 .. m - 1 : u[i] = s[i + 1]
  BY TailFacts, LenProperties
<1>2. /\ Len(s \o t) = m + n
      /\ \A i \in 1 .. m + n : (s \o t)[i] = IF i <= m THEN s[i] ELSE t[i - m]
  BY ConcatProperties
<1>3. /\ u \o t \in Seq(S) /\ Len(u \o t) = (m - 1) + n
      /\ \A i \in 1 .. (m - 1) + n : (u \o t)[i] = IF i <= m - 1 THEN u[i] ELSE t[i - (m - 1)]
  BY <1>1, ConcatProperties
<1> HIDE DEF u, m, n
<1>4. ASSUME NEW i \in 1 .. (m - 1) + n PROVE (u \o t)[i] = (s \o t)[i + 1]
  <2>1. i + 1 \in 1 .. m + n
    BY <1>1
  <2>2. CASE i <= m - 1
    BY <1>1, <1>2, <1>3, <2>1, <2>2
  <2>3. CASE ~(i <= m - 1)
    <3>1. i - (m - 1) = (i + 1) - m /\ ~(i + 1 <= m)
      BY <1>1, <2>3
    <3> QED BY <1>2, <1>3, <2>1, <2>3, <3>1
  <2> QED BY <2>2, <2>3
<1>5. 1 \in 1 .. m + n
  BY <1>1
<1>6. (s \o t)[1] = Head(s)
  BY <1>1, <1>2, <1>5
<1> QED BY <1>1, <1>2, <1>3, <1>4, <1>6 DEF u

-----------------------------------------------------------------------------
(* What the channel has buffered.                                          *)
ChunksIn(q) == {i \in DOMAIN q : IsChunk(q[i])}

LEMMA ChunksFinite ==
  ASSUME NEW q \in Seq(Frame)
  PROVE  IsFiniteSet(ChunksIn(q)) /\ Cardinality(ChunksIn(q)) \in Nat /\ Buffered(q) = Cardinality(ChunksIn(q))
<1>1. DOMAIN q = 1 .. Len(q) /\ Len(q) \in Nat
  BY LenProperties
<1>2. IsFiniteSet(1 .. Len(q))
  BY <1>1, FS_Interval
<1>3. ChunksIn(q) \in SUBSET (1 .. Len(q))
  BY <1>1 DEF ChunksIn
<1>4. IsFiniteSet(ChunksIn(q))
  BY <1>2, <1>3, FS_Subset
<1> QED BY <1>4, FS_CardinalityType DEF Buffered, ChunksIn

LEMMA BufferedAppend ==
  ASSUME NEW q \in Seq(Frame), NEW f \in Frame
  PROVE  /\ Buffered(q) \in Nat
         /\ Buffered(Append(q, f)) = IF f.kind = "chunk" THEN Buffered(q) + 1 ELSE Buffered(q)
<1> DEFINE r == Append(q, f)
           n == Len(q)
<1>1. /\ r \in Seq(Frame) /\ n \in Nat /\ Len(r) = n + 1 /\ r[n + 1] = f
      /\ \A i \in 1 .. n : r[i] = q[i]
  BY AppendFacts
<1>2. DOMAIN q = 1 .. n /\ DOMAIN r = 1 .. (n + 1)
  <2>1. DOMAIN q = 1 .. Len(q)
    BY LenProperties
  <2>2. DOMAIN r = 1 .. Len(r)
    BY <1>1, LenProperties
  <2> QED BY <1>1, <2>1, <2>2
<1> HIDE DEF r, n
<1>3. n + 1 \notin ChunksIn(q)
  BY <1>1, <1>2 DEF ChunksIn
<1>4. ChunksIn(r) = IF f.kind = "chunk" THEN ChunksIn(q) \cup {n + 1} ELSE ChunksIn(q)
  BY <1>1, <1>2 DEF ChunksIn, IsChunk
<1>5. /\ IsFiniteSet(ChunksIn(q)) /\ Buffered(q) = Cardinality(ChunksIn(q)) /\ Buffered(q) \in Nat
      /\ Buffered(r) = Cardinality(ChunksIn(r))
  BY <1>1, ChunksFinite
<1>6. Cardinality(ChunksIn(q) \cup {n + 1}) = Cardinality(ChunksIn(q)) + 1
  BY <1>3, <1>5, FS_AddElement
<1> QED BY <1>4, <1>5, <1>6 DEF r

LEMMA BufferedTail ==
  ASSUME NEW q \in Seq(Frame), q # <<>>
  PROVE  Buffered(Tail(q)) \in Nat /\ Buffered(q) \in Nat /\ Buffered(Tail(q)) <= Buffered(q)
<1> DEFINE r == Tail(q)
           n == Len(q)
<1>1. /\ r \in Seq(Frame) /\ n \in Nat /\ n >= 1 /\ Len(r) = n - 1
      /\ \A i \in 1 .. n - 1 : r[i] = q[i + 1]
  BY TailFacts
<1>2. DOMAIN q = 1 .. n /\ DOMAIN r = 1 .. (n - 1)
  <2>1. DOMAIN q = 1 .. Len(q)
    BY LenProperties
  <2>2. DOMAIN r = 1 .. Len(r)
    BY <1>1, LenProperties
  <2> QED BY <1>1, <2>1, <2>2
<1>3. /\ IsFiniteSet(ChunksIn(q)) /\ Buffered(q) = Cardinality(ChunksIn(q)) /\ Buffered(q) \in Nat
      /\ IsFiniteSet(ChunksIn(r)) /\ Buffered(r) = Cardinality(ChunksIn(r)) /\ Buffered(r) \in Nat
  BY <1>1, ChunksFinite
<1> HIDE DEF r, n
<1> DEFINE g == [i \in ChunksIn(r) |-> i + 1]
<1>4. \A i \in ChunksIn(r) : i \in Nat /\ i + 1 \in ChunksIn(q)
  BY <1>1, <1>2 DEF ChunksIn
<1>5. g \in Injection(ChunksIn(r), ChunksIn(q))
  BY <1>4 DEF Injection, IsInjective
<1>6. Cardinality(ChunksIn(r)) <= Cardinality(ChunksIn(q))
  BY <1>3, <1>5, FS_Injection
<1> QED BY <1>3, <1>6 DEF r

-----------------------------------------------------------------------------
(* What a step does to the wire: a frame is put at its end, its end is cut *)
(* off when the sender's channel closes, or its first frame is taken.      *)
Grows(f) ==
  /\ Len(Wire') = Len(Wire) + 1 /\ Wire'[Len(Wire) + 1] = f
  /\ \A i \in 1 .. Len(Wire) : Wire'[i] = Wire[i]

CutOff ==
  /\ Len(Wire') <= Len(Wire)
  /\ \A i \in 1 .. Len(Wire') : Wire'[i] = Wire[i]

Shifts ==
  /\ Len(Wire) = Len(Wire') + 1
  /\ \A i \in 1 .. Len(Wire') : Wire'[i] = Wire[i + 1]

LEMMA WireType ==
  ASSUME TypeOK
  PROVE  Wire \in Seq(Frame) /\ Len(Wire) \in Nat /\ \A i \in 1 .. Len(Wire) : Wire[i] \in Frame
BY ConcatProperties, LenProperties, ElementOfSeq DEF TypeOK, Wire

LEMMA WireTypeNext ==
  ASSUME TypeOK'
  PROVE  Wire' \in Seq(Frame) /\ Len(Wire') \in Nat /\ \A i \in 1 .. Len(Wire') : Wire'[i] \in Frame
BY ConcatProperties, LenProperties, ElementOfSeq DEF TypeOK, Wire

LEMMA WirePut ==
  ASSUME TypeOK, NEW f \in Frame, UNCHANGED net, buf' = Append(buf, f)
  PROVE  Grows(f)
<1>1. Wire' = Append(Wire, f)
  BY AppendBehind DEF Wire, TypeOK
<1> QED BY <1>1, WireType, AppendFacts DEF Grows

LEMMA WireMove ==
  ASSUME TypeOK, buf # <<>>, net' = Append(net, Head(buf))
  PROVE  /\ buf' = Tail(buf) => Wire' = Wire
         /\ \A f \in Frame : buf' = Append(Tail(buf), f) => Grows(f)
<1>1. /\ Tail(buf) \in Seq(Frame) /\ Head(buf) \in Frame
      /\ Append(net, Head(buf)) \in Seq(Frame)
  BY TailFacts, AppendFacts DEF TypeOK
<1>2. Append(net, Head(buf)) \o Tail(buf) = Wire
  BY HeadAcross DEF TypeOK, Wire
<1>3. ASSUME NEW f \in Frame, buf' = Append(Tail(buf), f) PROVE Grows(f)
  <2>1. Wire' = Append(Wire, f)
    BY <1>1, <1>2, <1>3, AppendBehind DEF Wire
  <2> QED BY <2>1, WireType, AppendFacts DEF Grows
<1> QED BY <1>2, <1>3 DEF Wire

LEMMA WireCut ==
  ASSUME TypeOK, UNCHANGED net, buf' = <<>>
  PROVE  CutOff
<1>1. Wire' = net
  BY ConcatEmptySeq DEF Wire, TypeOK
<1>2. /\ Len(net) \in Nat /\ Len(buf) \in Nat /\ Len(Wire) = Len(net) + Len(buf)
      /\ \A i \in 1 .. Len(net) + Len(buf) : Wire[i] = IF i <= Len(net) THEN net[i] ELSE buf[i - Len(net)]
  BY ConcatProperties, LenProperties DEF Wire, TypeOK
<1> QED BY <1>1, <1>2 DEF CutOff

LEMMA WireTake ==
  ASSUME TypeOK, net # <<>>, net' = Tail(net), UNCHANGED buf
  PROVE  /\ Shifts /\ Wire[1] = Head(net) /\ 1 \in 1 .. Len(Wire) /\ Len(Wire') \in Nat
<1>1. /\ (net \o buf)[1] = Head(net)
      /\ Len(net \o buf) = Len(Tail(net) \o buf) + 1 /\ Len(Tail(net) \o buf) \in Nat
      /\ \A i \in 1 .. Len(Tail(net) \o buf) : (Tail(net) \o buf)[i] = (net \o buf)[i + 1]
  BY TailBefore DEF TypeOK
<1> QED BY <1>1 DEF Wire, Shifts

-----------------------------------------------------------------------------
(* Steps of the sender.                                                    *)

(* A frame that the sender may put on the wire.                            *)
NewOK(f) ==
  LET t == f.of IN
  /\ f \in Frame /\ loop'[t] # "none"
  /\ f.kind = "start" => loop[t] = "none" /\ out'[t] \in Live
  /\ f.kind = "chunk" =>
       said[t] = "yes" /\ f.n = sent[t] + 1 /\ sent'[t] = f.n /\ IsOpen("sender")
  /\ f.kind = "complete" => out'[t] = "complete" /\ said[t] = "yes"

WireMoves ==
  \/ Wire' = Wire
  \/ CutOff /\ ~IsOpen("sender")'
  \/ \E f \in Frame : Grows(f) /\ NewOK(f)

(* What a step of the sender may do to a transfer.                         *)
Moves(t) ==
  /\ loop[t] # "none" => loop'[t] # "none" /\ size'[t] = size[t]
  /\ out[t] = "complete" => out'[t] = "complete"
  /\ confirmed'[t] <= Len(got[t])
  /\ \/ sent'[t] = sent[t]
     \/ /\ sent'[t] = sent[t] + 1 /\ said[t] = "yes"
        /\ chan["receiver"] = "open" => Grows(Msg("chunk", t, sent'[t]))
  /\ Sending(t) /\ ~Sending(t)' /\ (\A e \in End : chan'[e] = "open") =>
       \/ t \in abandoned' \/ inc[t] \in Final
       \/ Grows(Msg("complete", t, 0)) \/ Grows(Msg("cancel", t, 0))
  /\ SenderOK(t)'

LEMMA WireSender ==
  ASSUME IInv, TypeOK', UNCHANGED <<inc, got, said>>, chan["receiver"] = "open",
         WireMoves, \A t \in Transfer : Moves(t)
  PROVE  \A i \in 1 .. Len(Wire') : FrameOK(i)'
<1> SUFFICES ASSUME NEW i \in 1 .. Len(Wire') PROVE FrameOK(i)'
  OBVIOUS
<1>1. /\ TypeOK /\ Len(Wire) \in Nat /\ Len(Wire') \in Nat
      /\ \A j \in 1 .. Len(Wire) : FrameOK(j) /\ Wire[j] \in Frame /\ Wire[j].of \in Transfer
      /\ Wire'[i] \in Frame /\ Wire'[i].of \in Transfer
  <2>1. Wire' \in Seq(Frame) /\ Len(Wire') \in Nat /\ \A j \in 1 .. Len(Wire') : Wire'[j] \in Frame
    BY WireTypeNext
  <2> QED BY <2>1, WireType DEF IInv, WireInv, Frame
<1>2. \A t \in Transfer :
        sent[t] \in Nat /\ sent'[t] \in Nat /\ sent[t] <= sent'[t] /\ Len(got[t]) \in Nat
  <2>1. \A t \in Transfer : sent[t] \in Nat /\ sent'[t] \in Nat
    BY DEF TypeOK, IInv
  <2>2. \A t \in Transfer : Len(got[t]) \in Nat
    BY <1>1, LenProperties DEF TypeOK
  <2> QED BY <2>1, <2>2 DEF Moves
<1>3. ASSUME i \in 1 .. Len(Wire), Wire'[i] = Wire[i],
             \A j \in 1 .. Len(Wire') : j \in 1 .. Len(Wire) => Wire'[j] = Wire[j],
             \A j \in 1 .. Len(Wire') : j \notin 1 .. Len(Wire) =>
               i < j /\ (Wire'[j].kind = "start" => loop[Wire'[j].of] = "none"),
             \A j \in 1 .. Len(Wire) : j < i => j \in 1 .. Len(Wire')
      PROVE  FrameOK(i)'
  <2> DEFINE f == Wire[i]
             t == f.of
  <2>1. FrameOK(i) /\ t \in Transfer /\ f \in Frame
    BY <1>1, <1>3
  <2>2. loop'[t] # "none" /\ loop[t] # "none"
    BY <2>1 DEF FrameOK, Moves
  <2>3. f.kind = "start" =>
          /\ inc'[t] = "none"
          /\ \A j \in 1 .. Len(Wire') : Wire'[j].of = t /\ j # i => i < j /\ Wire'[j].kind # "start"
    BY <1>3, <2>1, <2>2 DEF FrameOK
  <2>4. f.kind = "chunk" =>
          /\ said'[t] = "yes" /\ 1 <= f.n /\ f.n <= sent'[t]
          /\ \A j \in 1 .. Len(Wire') : Wire'[j].kind = "chunk" /\ Wire'[j].of = t /\ j < i => Wire'[j].n < f.n
    <3>1. f.kind = "chunk" => said'[t] = "yes" /\ 1 <= f.n /\ f.n <= sent[t]
      BY <2>1 DEF FrameOK
    <3>2. f.n <= sent[t] => f.n <= sent'[t]
      BY <1>2, <2>1 DEF Frame
    <3>3. f.kind = "chunk" => \A j \in 1 .. Len(Wire) : ChunkOf(j, t) /\ j < i => Wire[j].n < f.n
      BY <2>1 DEF FrameOK
    <3>4. \A j \in 1 .. Len(Wire') : j < i => j \in 1 .. Len(Wire)
      BY <1>1, <1>3
    <3> QED BY <1>3, <3>1, <3>2, <3>3, <3>4 DEF ChunkOf
  <2>5. f.kind = "chunk" /\ inc'[t] = "active" =>
          /\ Len(got'[t]) < f.n
          /\ \/ f.n = Len(got'[t]) + 1
             \/ \E j \in 1 .. Len(Wire') :
                  Wire'[j].kind = "chunk" /\ Wire'[j].of = t /\ j < i /\ Wire'[j].n + 1 = f.n
    <3>1. (\E j \in 1 .. Len(Wire) : ChunkOf(j, t) /\ j < i /\ Wire[j].n + 1 = f.n) =>
            \E j \in 1 .. Len(Wire') :
                  Wire'[j].kind = "chunk" /\ Wire'[j].of = t /\ j < i /\ Wire'[j].n + 1 = f.n
      BY <1>3 DEF ChunkOf
    <3> QED BY <2>1, <3>1 DEF FrameOK
  <2>6. f.kind = "complete" => out'[t] = "complete" /\ said'[t] = "yes"
    BY <2>1 DEF FrameOK, Moves
  <2> QED BY <1>3, <2>2, <2>3, <2>4, <2>5, <2>6 DEF FrameOK, ChunkOf
<1>4. CASE Wire' = Wire
  <2>1. \A j \in 1 .. Len(Wire') : j \in 1 .. Len(Wire) /\ Wire'[j] = Wire[j]
    BY <1>4
  <2> QED BY <1>3, <1>4, <2>1
<1>5. CASE CutOff
  <2>1. \A j \in 1 .. Len(Wire') : j \in 1 .. Len(Wire) /\ Wire'[j] = Wire[j]
    BY <1>1, <1>5 DEF CutOff
  <2>2. \A j \in 1 .. Len(Wire) : j < i => j \in 1 .. Len(Wire')
    BY <1>1
  <2> QED BY <1>3, <2>1, <2>2
<1>6. ASSUME NEW g \in Frame, Grows(g), NewOK(g) PROVE FrameOK(i)'
  <2> DEFINE m == Len(Wire)
             t == g.of
  <2>1. /\ Len(Wire') = m + 1 /\ Wire'[m + 1] = g
        /\ \A j \in 1 .. m : Wire'[j] = Wire[j]
    BY <1>6 DEF Grows
  <2>2. \A j \in 1 .. Len(Wire') : j \notin 1 .. m => j = m + 1
    BY <1>1, <2>1
  <2>3. CASE i \in 1 .. m
    <3>1. \A j \in 1 .. Len(Wire') : j \notin 1 .. m =>
            i < j /\ (Wire'[j].kind = "start" => loop[Wire'[j].of] = "none")
      BY <1>1, <1>6, <2>1, <2>2, <2>3 DEF NewOK
    <3>2. \A j \in 1 .. m : j < i => j \in 1 .. Len(Wire')
      BY <1>1, <2>1
    <3> QED BY <1>3, <2>1, <2>3, <3>1, <3>2
  <2>4. CASE i = m + 1
    <3>1. Wire'[i] = g /\ t \in Transfer /\ g.n \in Nat
      BY <2>1, <2>4, <1>6 DEF Frame
    <3>2. \A j \in 1 .. Len(Wire') : j # i => j \in 1 .. m /\ Wire'[j] = Wire[j] /\ j < i
      BY <1>1, <2>1, <2>4
    <3>3. \A j \in 1 .. m : Wire[j].of = t => loop[t] # "none"
      BY <1>1 DEF FrameOK
    <3>4. g.kind = "start" =>
            inc'[t] = "none" /\ \A j \in 1 .. Len(Wire') : j # i => Wire'[j].of # t
      <4>1. g.kind = "start" => loop[t] = "none" /\ inc[t] = "none"
        BY <1>6, <3>1 DEF NewOK, IInv, EndsInv, SenderOK
      <4> QED BY <3>2, <3>3, <4>1
    <3>5. ASSUME g.kind = "chunk"
          PROVE  /\ said'[t] = "yes" /\ 1 <= g.n /\ g.n <= sent'[t] /\ g.n = sent[t] + 1
                 /\ IsOpen("sender")
      BY <1>2, <1>6, <3>1, <3>5 DEF NewOK
    <3>6. ASSUME g.kind = "chunk", NEW j \in 1 .. Len(Wire'), Wire'[j].kind = "chunk",
                 Wire'[j].of = t, j < i
          PROVE  Wire'[j].n < g.n
      <4>1. j \in 1 .. m /\ Wire'[j] = Wire[j]
        BY <1>1, <2>4, <3>2, <3>6
      <4>2. Wire[j].n <= sent[t] /\ Wire[j].n \in Nat
        BY <1>1, <3>6, <4>1 DEF FrameOK, Frame
      <4> QED BY <1>2, <3>1, <3>5, <3>6, <4>1, <4>2
    <3>7. ASSUME g.kind = "chunk", inc'[t] = "active"
          PROVE  /\ Len(got'[t]) < g.n
                 /\ \/ g.n = Len(got'[t]) + 1
                    \/ \E j \in 1 .. Len(Wire') :
                         Wire'[j].kind = "chunk" /\ Wire'[j].of = t /\ j < i /\ Wire'[j].n + 1 = g.n
      <4>1. Len(got[t]) <= sent[t]
        BY <3>1 DEF IInv, DeliveredWhole
      <4>2. \/ sent[t] = Len(got[t])
            \/ \E j \in 1 .. m : ChunkOf(j, t) /\ Wire[j].n = sent[t]
        BY <3>1, <3>5, <3>7 DEF IInv, EndsInv, TopOK
      <4>3. (\E j \in 1 .. m : ChunkOf(j, t) /\ Wire[j].n = sent[t]) =>
              \E j \in 1 .. Len(Wire') :
                Wire'[j].kind = "chunk" /\ Wire'[j].of = t /\ j < i /\ Wire'[j].n + 1 = g.n
        <5>1. \A j \in 1 .. m : j \in 1 .. Len(Wire') /\ j < i
          BY <1>1, <2>1, <2>4
        <5> QED BY <2>1, <3>5, <3>7, <5>1 DEF ChunkOf
      <4> QED BY <1>2, <3>1, <3>5, <3>7, <4>1, <4>2, <4>3
    <3>8. loop'[t] # "none" /\ (g.kind = "complete" => out'[t] = "complete" /\ said'[t] = "yes")
      BY <1>6 DEF NewOK
    <3> QED BY <3>1, <3>4, <3>5, <3>6, <3>7, <3>8 DEF FrameOK, ChunkOf
  <2> QED BY <2>2, <2>3, <2>4
<1> QED BY <1>4, <1>5, <1>6 DEF WireMoves

LEMMA SenderStep ==
  ASSUME IInv, TypeOK', UNCHANGED <<inc, got, prompt, said>>, BufferBounded', AnswerInv',
         UNCHANGED chan["receiver"], chan'["sender"] = "open" => chan["sender"] = "open",
         IsOpen("sender")' => IsOpen("sender"), abandoned \subseteq abandoned',
         chan["receiver"] = "open" => WireMoves, \A t \in Transfer : Moves(t)
  PROVE  IInv'
<1>1. /\ TypeOK /\ Len(Wire) \in Nat
      /\ \A t \in Transfer :
           sent[t] \in Nat /\ sent'[t] \in Nat /\ sent[t] <= sent'[t] /\ Len(got[t]) \in Nat
  <2>1. \A t \in Transfer : sent[t] \in Nat /\ sent'[t] \in Nat
    BY DEF TypeOK, IInv
  <2>2. \A t \in Transfer : Len(got[t]) \in Nat
    BY LenProperties DEF TypeOK, IInv
  <2> QED BY <2>1, <2>2, WireType DEF Moves, IInv
<1>2. WireInv'
  BY WireSender DEF WireInv
<1>3. ASSUME NEW t \in Transfer PROVE TopOK(t)'
  <2> SUFFICES ASSUME IsOpen("sender"), chan["receiver"] = "open", inc[t] = "active",
                      IsOpen("sender")'
               PROVE  \/ sent'[t] = Len(got[t])
                      \/ \E i \in 1 .. Len(Wire') :
                           Wire'[i].kind = "chunk" /\ Wire'[i].of = t /\ Wire'[i].n = sent'[t]
    BY DEF TopOK, ChunkOf
  <2>1. CASE sent'[t] = sent[t]
    <3>1. \A i \in 1 .. Len(Wire) : i \in 1 .. Len(Wire') /\ Wire'[i] = Wire[i]
      BY <1>1 DEF WireMoves, Grows
    <3> QED BY <2>1, <3>1 DEF IInv, EndsInv, TopOK, ChunkOf
  <2>2. CASE sent'[t] # sent[t]
    <3>1. Grows(Msg("chunk", t, sent'[t]))
      BY <2>2 DEF Moves
    <3>2. /\ Len(Wire) + 1 \in 1 .. Len(Wire')
          /\ Wire'[Len(Wire) + 1] = Msg("chunk", t, sent'[t])
      BY <1>1, <3>1 DEF Grows
    <3> QED BY <3>2 DEF Msg
  <2> QED BY <2>1, <2>2
<1>4. ASSUME NEW t \in Transfer PROVE FedOK(t)'
  <2> SUFFICES ASSUME \A e \in End : chan'[e] = "open",
                      inc[t] \in Live \/ \E i \in 1 .. Len(Wire') :
                                           Wire'[i].of = t /\ Wire'[i].kind = "start"
               PROVE  \/ Sending(t)' \/ t \in abandoned'
                      \/ \E i \in 1 .. Len(Wire') :
                           Wire'[i].of = t /\ Wire'[i].kind \in {"complete", "cancel"}
    BY DEF FedOK
  <2>1. /\ chan["receiver"] = "open" /\ IsOpen("sender")'
        /\ \A e \in End : chan[e] = "open"
    BY DEF End, IsOpen
  <2>2. \A i \in 1 .. Len(Wire) : i \in 1 .. Len(Wire') /\ Wire'[i] = Wire[i]
    BY <1>1, <2>1 DEF WireMoves, Grows
  <2>3. CASE inc[t] \in Live \/ \E i \in 1 .. Len(Wire) : Wire[i].of = t /\ Wire[i].kind = "start"
    <3>1. \/ Sending(t) \/ t \in abandoned
          \/ \E i \in 1 .. Len(Wire) : Wire[i].of = t /\ Wire[i].kind \in {"complete", "cancel"}
      BY <2>1, <2>3 DEF IInv, EndsInv, FedOK
    <3>2. inc[t] \notin Final
      BY <2>1, <2>3 DEF IInv, WireInv, FrameOK, Final, Live
    <3>3. CASE Sending(t) /\ ~Sending(t)'
      <4>1. t \in abandoned' \/ Grows(Msg("complete", t, 0)) \/ Grows(Msg("cancel", t, 0))
        BY <3>2, <3>3 DEF Moves
      <4>2. Len(Wire) + 1 \in 1 .. (Len(Wire) + 1)
        BY <1>1
      <4> QED BY <4>1, <4>2 DEF Grows, Msg
    <3> QED BY <2>2, <3>1, <3>3
  <2>4. CASE ~(inc[t] \in Live \/ \E i \in 1 .. Len(Wire) : Wire[i].of = t /\ Wire[i].kind = "start")
    <3>1. PICK i \in 1 .. Len(Wire') : Wire'[i].of = t /\ Wire'[i].kind = "start"
      BY <2>4
    <3>2. ~(i \in 1 .. Len(Wire) /\ Wire'[i] = Wire[i])
      BY <2>4, <3>1
    <3>3. PICK f \in Frame : Grows(f) /\ NewOK(f)
      BY <1>1, <2>1, <3>1, <3>2 DEF WireMoves
    <3>4. Wire'[i] = f
      BY <1>1, <3>2, <3>3 DEF Grows
    <3> QED BY <3>1, <3>3, <3>4 DEF NewOK, Sending
  <2> QED BY <2>3, <2>4
<1>5. EndsInv'
  BY <1>3, <1>4 DEF EndsInv, IInv, Moves, ReceiverOK
<1>6. ConsentGated'
  BY DEF ConsentGated, IInv, Moves
<1>7. DeliveredWhole'
  <2> SUFFICES ASSUME NEW t \in Transfer
               PROVE  /\ got'[t] = [i \in 1..Len(got'[t]) |-> i]
                      /\ confirmed'[t] <= Len(got'[t]) /\ Len(got'[t]) <= sent'[t]
                      /\ inc'[t] = "complete" => Len(got'[t]) = size'[t] /\ out'[t] = "complete"
    BY DEF DeliveredWhole
  <2>1. /\ got[t] = [i \in 1..Len(got[t]) |-> i] /\ Len(got[t]) <= sent[t]
        /\ inc[t] = "complete" => Len(got[t]) = size[t] /\ out[t] = "complete"
    BY DEF IInv, DeliveredWhole
  <2>2. inc[t] = "complete" => size'[t] = size[t] /\ out'[t] = "complete"
    BY <2>1 DEF Moves, IInv, EndsInv, SenderOK
  <2>3. confirmed'[t] <= Len(got'[t])
    BY DEF Moves
  <2>4. Len(got'[t]) <= sent'[t]
    BY <1>1, <2>1
  <2> QED BY <2>1, <2>2, <2>3, <2>4
<1> QED BY <1>2, <1>5, <1>6, <1>7 DEF IInv

(* What is on its way back stays true.                                     *)
ReplyOK(f) ==
  LET t == f.of IN
  /\ f \in Frame
  /\ f.kind = "accept" => said'[t] = "yes"
  /\ f.kind \in {"decline", "cancel", "toolarge"} => inc'[t] \in Final
  /\ f.kind = "ack" => f.n <= Len(got'[t])

LEMMA AnswerStep ==
  ASSUME IInv, TypeOK',
         \/ toS' = toS \/ toS' = <<>> \/ (toS # <<>> /\ toS' = Tail(toS))
         \/ \E f \in Frame : toS' = Append(toS, f) /\ ReplyOK(f),
         \A t \in Transfer : /\ said[t] = "yes" => said'[t] = "yes"
                             /\ inc[t] \in Final => inc'[t] \in Final
                             /\ Len(got[t]) <= Len(got'[t])
  PROVE  AnswerInv'
<1> SUFFICES ASSUME NEW i \in 1 .. Len(toS') PROVE AnswerOK(i)'
  BY DEF AnswerInv
<1>1. /\ toS \in Seq(Frame) /\ Len(toS) \in Nat
      /\ \A j \in 1 .. Len(toS) : AnswerOK(j) /\ toS[j] \in Frame
  BY LenProperties, ElementOfSeq DEF IInv, TypeOK, AnswerInv
<1>2. \A t \in Transfer : Len(got[t]) \in Nat /\ Len(got'[t]) \in Nat
  BY LenProperties DEF IInv, TypeOK
<1>3. ASSUME NEW j \in 1 .. Len(toS), toS'[i] = toS[j] PROVE AnswerOK(i)'
  <2>1. AnswerOK(j) /\ toS[j].of \in Transfer /\ toS[j].n \in Nat
    BY <1>1 DEF Frame
  <2> QED BY <1>2, <1>3, <2>1 DEF AnswerOK
<1>4. CASE toS' = toS
  BY <1>3, <1>4
<1>5. CASE toS' = <<>>
  BY <1>5
<1>6. CASE toS # <<>> /\ toS' = Tail(toS)
  <2>1. /\ Len(Tail(toS)) = Len(toS) - 1
        /\ \A j \in 1 .. Len(toS) - 1 : Tail(toS)[j] = toS[j + 1]
    BY <1>1, <1>6, TailFacts
  <2>2. i \in 1 .. Len(toS) - 1
    BY <1>6, <2>1
  <2>3. i + 1 \in 1 .. Len(toS) /\ toS'[i] = toS[i + 1]
    <3>1. i + 1 \in 1 .. Len(toS)
      BY <1>1, <2>2
    <3>2. toS'[i] = Tail(toS)[i]
      BY <1>6
    <3> QED BY <2>1, <2>2, <3>1, <3>2
  <2> QED BY <1>3, <2>3
<1>7. ASSUME NEW f \in Frame, toS' = Append(toS, f), ReplyOK(f) PROVE AnswerOK(i)'
  <2>1. /\ Len(toS') = Len(toS) + 1 /\ toS'[Len(toS) + 1] = f
        /\ \A j \in 1 .. Len(toS) : toS'[j] = toS[j]
    BY <1>1, <1>7, AppendFacts
  <2>2. CASE i \in 1 .. Len(toS)
    BY <1>3, <2>1, <2>2
  <2>3. CASE i = Len(toS) + 1
    BY <1>7, <2>1, <2>3 DEF ReplyOK, AnswerOK
  <2>4. i \in 1 .. Len(toS) \/ i = Len(toS) + 1
    BY <1>1, <2>1
  <2> QED BY <2>2, <2>3, <2>4
<1> QED BY <1>4, <1>5, <1>6, <1>7

-----------------------------------------------------------------------------
(* The actions of the sender.                                              *)

LEMMA Typed ==
  ASSUME IInv
  PROVE  /\ TypeOK /\ HighWater \in Nat /\ LowWater \in Nat /\ LowWater < HighWater
         /\ Largest \in Nat
         /\ \A t \in Transfer : /\ SenderOK(t) /\ ReceiverOK(t) /\ TopOK(t) /\ FedOK(t)
                                /\ confirmed[t] <= Len(got[t])
BY Sizes DEF IInv, EndsInv, DeliveredWhole

(* A transfer that the step is not about.                                  *)
LEMMA Bystander ==
  ASSUME IInv, NEW t \in Transfer, UNCHANGED <<inc, got, prompt, said>>,
         loop'[t] = loop[t], size'[t] = size[t], out'[t] = out[t], confirmed'[t] = confirmed[t],
         sent'[t] = sent[t]
  PROVE  Moves(t)
BY Typed DEF Moves, SenderOK, Sending

LEMMA MsgType ==
  ASSUME NEW t \in Transfer, NEW n \in 0 .. Largest,
         NEW kind \in {"start", "chunk", "complete", "cancel", "accept", "decline", "ack", "toolarge"}
  PROVE  /\ Msg(kind, t, n) \in Frame /\ Msg(kind, t, n).kind = kind /\ Msg(kind, t, n).of = t
         /\ Msg(kind, t, n).n = n
BY DEF Msg, Frame

(* A control frame is written.                                             *)
LEMMA SentFacts ==
  ASSUME IInv, NEW f \in Frame, f.kind # "chunk", buf' = Append(buf, f), UNCHANGED net
  PROVE  buf' \in Seq(Frame) /\ BufferBounded' /\ Grows(f)
<1>1. TypeOK /\ buf \in Seq(Frame)
  BY Typed DEF TypeOK
<1>2. Buffered(buf') = Buffered(buf)
  BY <1>1, BufferedAppend
<1> QED BY <1>1, <1>2, WirePut, AppendFacts DEF IInv, BufferBounded

(* The last word is written, or the sender gives up without one.           *)
LEMMA WrittenFacts ==
  ASSUME IInv, NEW t \in Transfer, NEW f \in Frame, f.kind # "chunk", Written(t, f), UNCHANGED net
  PROVE  /\ buf' \in Seq(Frame) /\ BufferBounded'
         /\ Grows(f) \/ Wire' = Wire
         /\ IsOpen("sender") => Grows(f) \/ t \in abandoned'
         /\ abandoned' \in SUBSET Transfer /\ abandoned \subseteq abandoned'
<1>1. CASE buf' = Append(buf, f) /\ UNCHANGED abandoned
  BY <1>1, SentFacts, Typed DEF TypeOK
<1>2. CASE /\ UNCHANGED buf
           /\ \/ ~IsOpen("sender") /\ UNCHANGED abandoned
              \/ abandoned' = abandoned \cup {t}
  BY <1>2, Typed DEF IInv, BufferBounded, Wire, TypeOK
<1> QED BY <1>1, <1>2 DEF Written

LEMMA WireSame ==
  ASSUME IInv, UNCHANGED <<net, buf>>
  PROVE  WireMoves /\ BufferBounded'
BY DEF IInv, BufferBounded, WireMoves, Wire

LEMMA NoAnswer ==
  ASSUME IInv, TypeOK', toS' = toS \/ toS' = <<>> \/ (toS # <<>> /\ toS' = Tail(toS)),
         UNCHANGED <<inc, got, said>>
  PROVE  AnswerInv'
<1>1. \A t \in Transfer : Len(got[t]) \in Nat /\ Len(got[t]) <= Len(got'[t])
  BY LenProperties, Typed DEF TypeOK
<1> QED BY <1>1, AnswerStep

LEMMA SendFileStep == ASSUME IInv, NEW t \in Transfer, SendFile(t) PROVE IInv'
<1>0. TypeOK /\ loop[t] = "none" /\ out[t] = "none" /\ inc[t] = "none"
  BY Typed DEF SendFile, SenderOK
<1>1. PICK n \in 0 .. Largest :
        /\ size' = [size EXCEPT ![t] = n]
        /\ \/ /\ buf' = Append(buf, Msg("start", t, n))
              /\ out' = [out EXCEPT ![t] = "pending"] /\ loop' = [loop EXCEPT ![t] = "accept"]
           \/ /\ out' = [out EXCEPT ![t] = "failed"] /\ loop' = [loop EXCEPT ![t] = "done"]
              /\ UNCHANGED buf
  BY DEF SendFile
<1>2. UNCHANGED <<sent, confirmed, abandoned, inc, got, acked, prompt, said, net, toS, chan>>
  BY DEF SendFile, receiverVars
<1> DEFINE f == Msg("start", t, n)
<1>3. f \in Frame /\ f.kind = "start" /\ f.of = t
  BY MsgType
<1>4. /\ buf' \in Seq(Frame) /\ BufferBounded'
      /\ \/ Grows(f) /\ out'[t] = "pending" /\ loop'[t] = "accept"
         \/ Wire' = Wire /\ out'[t] = "failed" /\ loop'[t] = "done"
  <2>1. CASE /\ buf' = Append(buf, f) /\ out' = [out EXCEPT ![t] = "pending"]
             /\ loop' = [loop EXCEPT ![t] = "accept"]
    BY <1>0, <1>2, <1>3, <2>1, SentFacts DEF TypeOK
  <2>2. CASE /\ UNCHANGED buf /\ out' = [out EXCEPT ![t] = "failed"]
             /\ loop' = [loop EXCEPT ![t] = "done"]
    BY <1>0, <1>2, <2>2 DEF IInv, BufferBounded, TypeOK, Wire
  <2> QED BY <1>1, <2>1, <2>2
<1>5. /\ size'[t] = n
      /\ \A u \in Transfer : u # t => out'[u] = out[u] /\ loop'[u] = loop[u] /\ size'[u] = size[u]
      /\ size' \in [Transfer -> 0 .. Largest] /\ out' \in [Transfer -> Status]
      /\ loop' \in [Transfer -> {"none", "accept", "read", "drain", "done"}]
  BY <1>0, <1>1 DEF TypeOK, Status, Live, Final
<1>6. sent[t] = 0
  <2>1. said[t] # "yes"
    BY <1>0, Typed DEF ReceiverOK
  <2>2. ~(sent[t] > 0) /\ sent[t] \in 0 .. Largest
    BY <1>0, <2>1 DEF IInv, ConsentGated, TypeOK
  <2> QED BY <2>2, Sizes
<1>7. TypeOK'
  <2>1. \A u \in Transfer : sent'[u] <= size'[u]
    <3>1. sent'[t] = 0 /\ size'[t] \in 0 .. Largest
      BY <1>2, <1>5, <1>6
    <3>2. sent'[t] <= size'[t]
      BY <3>1, Sizes
    <3> QED BY <1>0, <1>2, <1>5, <3>2 DEF TypeOK
  <2> QED BY <1>0, <1>2, <1>4, <1>5, <2>1 DEF TypeOK
<1> HIDE DEF f
<1>8. WireMoves
  BY <1>3, <1>4, <1>5, <1>0 DEF WireMoves, NewOK, Live
<1>9. Moves(t)
  BY <1>0, <1>2, <1>4, <1>5, Typed DEF Moves, SenderOK, Sending, Live
<1>10. \A u \in Transfer : Moves(u)
  BY <1>2, <1>5, <1>9, Bystander
<1>11. AnswerInv'
  BY <1>2, <1>7, NoAnswer
<1> QED BY <1>2, <1>4, <1>7, <1>8, <1>10, <1>11, SenderStep DEF IsOpen

(* A step that ends a send, or lets it go on, without a frame.             *)
LEMMA QuietStep ==
  ASSUME IInv, NEW t \in Transfer, UNCHANGED <<size, sent, inc, got, acked, prompt, said, buf, net, chan>>,
         toS' = toS \/ (toS # <<>> /\ toS' = Tail(toS)),
         out' \in [Transfer -> Status],
         loop' \in [Transfer -> {"none", "accept", "read", "drain", "done"}],
         confirmed' \in [Transfer -> 0 .. Largest],
         abandoned' \in SUBSET Transfer, abandoned \subseteq abandoned',
         \A u \in Transfer \ {t} :
           out'[u] = out[u] /\ loop'[u] = loop[u] /\ confirmed'[u] = confirmed[u],
         Moves(t)
  PROVE  IInv'
<1>1. TypeOK'
  <2>1. toS' \in Seq(Frame)
    <3>1. toS \in Seq(Frame)
      BY Typed DEF TypeOK
    <3>2. toS # <<>> => Tail(toS) \in Seq(Frame)
      BY <3>1, TailFacts
    <3> QED BY <3>1, <3>2
  <2> QED BY <2>1, Typed DEF TypeOK
<1>2. \A u \in Transfer : Moves(u)
  BY Bystander
<1>3. AnswerInv'
  BY <1>1, NoAnswer
<1> QED BY <1>1, <1>2, <1>3, WireSame, SenderStep DEF IsOpen

LEMMA SettledFacts ==
  ASSUME TypeOK, NEW t \in Transfer, NEW status \in {"cancelled", "failed"}, Settled(t, status)
  PROVE  /\ out' \in [Transfer -> Status] /\ out'[t] = status
         /\ loop' \in [Transfer -> {"none", "accept", "read", "drain", "done"}]
         /\ loop'[t] = IF loop[t] \in {"accept", "drain"} THEN "done" ELSE loop[t]
         /\ \A u \in Transfer \ {t} : out'[u] = out[u] /\ loop'[u] = loop[u]
BY DEF Settled, TypeOK, Status, Live, Final

LEMMA AcceptTimeoutStep == ASSUME IInv, NEW t \in Transfer, AcceptTimeout(t) PROVE IInv'
<1>0. TypeOK /\ loop[t] = "accept" /\ out[t] = "pending" /\ t \in abandoned'
  BY Typed DEF AcceptTimeout, SenderOK
<1>1. /\ UNCHANGED <<size, sent, confirmed, inc, got, acked, prompt, said, buf, net, toS, chan>>
      /\ Settled(t, "cancelled") /\ abandoned' = abandoned \cup {t}
  BY DEF AcceptTimeout, receiverVars
<1>2. Moves(t)
  BY <1>0, <1>1, SettledFacts, Typed DEF Moves, SenderOK
<1>3. abandoned' \in SUBSET Transfer /\ confirmed' \in [Transfer -> 0 .. Largest]
  BY <1>0, <1>1 DEF TypeOK
<1> QED BY <1>0, <1>1, <1>2, <1>3, SettledFacts, QuietStep

LEMMA ReadErrorStep == ASSUME IInv, NEW t \in Transfer, ReadError(t) PROVE IInv'
<1>0. TypeOK /\ loop[t] = "read" /\ Sending(t)
  BY Typed DEF ReadError
<1>1. /\ UNCHANGED <<size, sent, confirmed, inc, got, acked, prompt, said, buf, net, toS, chan>>
      /\ abandoned' = abandoned \cup {t}
      /\ out' = [out EXCEPT ![t] = "failed"] /\ loop' = [loop EXCEPT ![t] = "done"]
  BY DEF ReadError, receiverVars
<1>2. /\ out' \in [Transfer -> Status] /\ out'[t] = "failed" /\ loop'[t] = "done"
      /\ loop' \in [Transfer -> {"none", "accept", "read", "drain", "done"}]
      /\ \A u \in Transfer \ {t} : out'[u] = out[u] /\ loop'[u] = loop[u]
  BY <1>0, <1>1 DEF TypeOK, Status, Final
<1>3. Moves(t)
  BY <1>0, <1>1, <1>2, Typed DEF Moves, SenderOK, Sending, Live
<1>4. abandoned' \in SUBSET Transfer /\ confirmed' \in [Transfer -> 0 .. Largest]
  BY <1>0, <1>1 DEF TypeOK
<1> QED BY <1>1, <1>2, <1>3, <1>4, QuietStep

LEMMA HeardFacts ==
  ASSUME IInv, NEW kinds, NEW t \in Transfer, Hear(kinds, t)
  PROVE  /\ toS # <<>> /\ toS' = Tail(toS) /\ Head(toS) \in Frame /\ Head(toS).kind \in kinds
         /\ Head(toS).of = t
         /\ Head(toS).kind = "accept" => said[t] = "yes"
         /\ Head(toS).kind \in {"decline", "cancel", "toolarge"} => inc[t] \in Final
         /\ Head(toS).kind = "ack" => Head(toS).n <= Len(got[t])
<1>1. toS # <<>> /\ toS' = Tail(toS) /\ Head(toS).kind \in kinds /\ Head(toS).of = t
  BY DEF Hear
<1>2. Head(toS) \in Frame /\ Head(toS) = toS[1] /\ 1 \in 1 .. Len(toS)
  BY <1>1, TailFacts, Typed DEF TypeOK
<1>3. AnswerOK(1)
  BY <1>2 DEF IInv, AnswerInv
<1> QED BY <1>1, <1>2, <1>3 DEF AnswerOK

LEMMA HearAnswerStep == ASSUME IInv, NEW t \in Transfer, HearAnswer(t) PROVE IInv'
<1>0. /\ TypeOK /\ toS # <<>> /\ toS' = Tail(toS) /\ Head(toS).kind \in {"accept", "decline"}
      /\ Head(toS).kind = "accept" => said[t] = "yes"
      /\ Head(toS).kind = "decline" => inc[t] \in Final
  BY HeardFacts, Typed DEF HearAnswer
<1>1. UNCHANGED <<size, sent, confirmed, abandoned, inc, got, acked, prompt, said, buf, net, chan>>
  BY DEF HearAnswer, receiverVars
<1>2. abandoned' \in SUBSET Transfer /\ confirmed' \in [Transfer -> 0 .. Largest]
  BY <1>0, <1>1 DEF TypeOK
<1>3. CASE loop[t] # "accept"
  <2>1. UNCHANGED <<out, loop>>
    BY <1>3 DEF HearAnswer
  <2>2. Moves(t)
    BY <1>1, <2>1, Bystander
  <2> QED BY <1>0, <1>1, <1>2, <2>1, <2>2, QuietStep DEF TypeOK
<1>4. CASE loop[t] = "accept" /\ Head(toS).kind = "accept"
  <2>1. out' = [out EXCEPT ![t] = "active"] /\ loop' = [loop EXCEPT ![t] = "read"]
    BY <1>4 DEF HearAnswer
  <2>2. /\ out' \in [Transfer -> Status] /\ out'[t] = "active" /\ loop'[t] = "read"
        /\ loop' \in [Transfer -> {"none", "accept", "read", "drain", "done"}]
        /\ \A u \in Transfer \ {t} : out'[u] = out[u] /\ loop'[u] = loop[u]
    BY <1>0, <2>1 DEF TypeOK, Status, Live
  <2>3. Moves(t)
    BY <1>0, <1>1, <1>4, <2>2, Typed DEF Moves, SenderOK, Sending, Live
  <2> QED BY <1>0, <1>1, <1>2, <2>2, <2>3, QuietStep
<1>5. CASE loop[t] = "accept" /\ Head(toS).kind = "decline"
  <2>1. Settled(t, "cancelled")
    BY <1>5 DEF HearAnswer
  <2>2. Moves(t)
    BY <1>0, <1>1, <1>5, <2>1, SettledFacts, Typed DEF Moves, SenderOK
  <2> QED BY <1>0, <1>1, <1>2, <2>1, <2>2, SettledFacts, QuietStep
<1> QED BY <1>0, <1>3, <1>4, <1>5

LEMMA HearAckStep == ASSUME IInv, NEW t \in Transfer, HearAck(t) PROVE IInv'
<1>0. /\ TypeOK /\ toS # <<>> /\ toS' = Tail(toS) /\ Head(toS) \in Frame
      /\ Head(toS).n <= Len(got[t])
  BY HeardFacts, Typed DEF HearAck
<1>1. /\ UNCHANGED <<size, loop, out, sent, abandoned, inc, got, acked, prompt, said, buf, net, chan>>
      /\ confirmed' = IF Sending(t) THEN [confirmed EXCEPT ![t] = Head(toS).n] ELSE confirmed
  BY DEF HearAck, receiverVars
<1>2. /\ confirmed' \in [Transfer -> 0 .. Largest]
      /\ \A u \in Transfer \ {t} : confirmed'[u] = confirmed[u]
      /\ confirmed'[t] \in {confirmed[t], Head(toS).n}
  BY <1>0, <1>1 DEF TypeOK, Frame
<1>3. Moves(t)
  BY <1>0, <1>1, <1>2, Typed DEF Moves, SenderOK, Sending
<1> QED BY <1>0, <1>1, <1>2, <1>3, QuietStep DEF TypeOK

LEMMA HearCancelStep == ASSUME IInv, NEW t \in Transfer, HearCancel(t) PROVE IInv'
<1>0. /\ TypeOK /\ toS # <<>> /\ toS' = Tail(toS) /\ inc[t] \in Final
  BY HeardFacts, Typed DEF HearCancel
<1>1. UNCHANGED <<size, sent, confirmed, abandoned, inc, got, acked, prompt, said, buf, net, chan>>
  BY DEF HearCancel, receiverVars
<1>2. abandoned' \in SUBSET Transfer /\ confirmed' \in [Transfer -> 0 .. Largest]
  BY <1>0, <1>1 DEF TypeOK
<1>3. CASE ~Sending(t)
  <2>1. UNCHANGED <<out, loop>>
    BY <1>3 DEF HearCancel
  <2>2. Moves(t)
    BY <1>1, <2>1, Bystander
  <2> QED BY <1>0, <1>1, <1>2, <2>1, <2>2, QuietStep DEF TypeOK
<1>4. CASE Sending(t)
  <2>1. PICK status \in {"cancelled", "failed"} : Settled(t, status)
    BY <1>4 DEF HearCancel
  <2>2. Moves(t)
    BY <1>0, <1>1, <1>4, <2>1, SettledFacts, Typed DEF Moves, SenderOK, Sending, Live
  <2> QED BY <1>0, <1>1, <1>2, <2>1, <2>2, SettledFacts, QuietStep
<1> QED BY <1>3, <1>4

LEMMA CancelSendStep == ASSUME IInv, NEW t \in Transfer, CancelSend(t) PROVE IInv'
<1>0. TypeOK /\ Sending(t) /\ Settled(t, "cancelled") /\ Written(t, Msg("cancel", t, 0))
  BY Typed DEF CancelSend
<1>1. UNCHANGED <<size, sent, confirmed, inc, got, acked, prompt, said, net, toS, chan>>
  BY DEF CancelSend, receiverVars
<1> DEFINE f == Msg("cancel", t, 0)
<1>2. f \in Frame /\ f.kind = "cancel" /\ f.of = t
  BY MsgType, Typed
<1>3. /\ buf' \in Seq(Frame) /\ BufferBounded'
      /\ Grows(f) \/ Wire' = Wire
      /\ IsOpen("sender") => Grows(f) \/ t \in abandoned'
      /\ abandoned' \in SUBSET Transfer /\ abandoned \subseteq abandoned'
  BY <1>0, <1>1, <1>2, WrittenFacts
<1>4. /\ loop[t] # "none" /\ loop'[t] # "none" /\ out'[t] = "cancelled"
      /\ \A u \in Transfer \ {t} : out'[u] = out[u] /\ loop'[u] = loop[u]
      /\ out' \in [Transfer -> Status]
      /\ loop' \in [Transfer -> {"none", "accept", "read", "drain", "done"}]
      /\ loop'[t] = IF loop[t] \in {"accept", "drain"} THEN "done" ELSE loop[t]
  BY <1>0, SettledFacts, Typed DEF SenderOK, Sending, Live
<1>5. TypeOK'
  BY <1>0, <1>1, <1>3, <1>4 DEF TypeOK
<1>6. Moves(t)
  <2>1. (\A e \in End : chan'[e] = "open") => Grows(Msg("cancel", t, 0)) \/ t \in abandoned'
    BY <1>1, <1>3 DEF End, IsOpen
  <2> QED BY <1>0, <1>1, <1>4, <2>1, Typed DEF Moves, SenderOK, Sending, Live
<1> HIDE DEF f
<1>7. WireMoves
  BY <1>2, <1>3, <1>4 DEF WireMoves, NewOK
<1>8. \A u \in Transfer : Moves(u)
  BY <1>1, <1>4, <1>6, Bystander
<1>9. AnswerInv'
  BY <1>1, <1>5, NoAnswer
<1> QED BY <1>1, <1>3, <1>5, <1>7, <1>8, <1>9, SenderStep DEF IsOpen

(* A chunk goes into the channel.                                          *)
LEMMA PutFacts ==
  ASSUME IInv, NEW t \in Transfer, NEW q \in Seq(Frame), Put(t, q),
         loop[t] \in {"read", "drain"}, sent[t] < size[t]
  PROVE  /\ Msg("chunk", t, sent[t] + 1) \in Frame /\ buf' = Append(q, Msg("chunk", t, sent[t] + 1))
         /\ buf' \in Seq(Frame) /\ Buffered(q) \in Nat /\ Buffered(buf') = Buffered(q) + 1
         /\ said[t] = "yes"
         /\ sent'[t] = sent[t] + 1 /\ loop'[t] = "read"
         /\ \A u \in Transfer \ {t} : sent'[u] = sent[u] /\ loop'[u] = loop[u]
         /\ sent' \in [Transfer -> 0 .. Largest] /\ (\A u \in Transfer : sent'[u] <= size[u])
         /\ loop' \in [Transfer -> {"none", "accept", "read", "drain", "done"}]
<1>1. /\ TypeOK /\ said[t] = "yes" /\ Largest \in Nat /\ sent[t] \in 0 .. Largest
      /\ size[t] \in 0 .. Largest
  BY Typed DEF SenderOK, TypeOK
<1>2. sent[t] + 1 \in 0 .. Largest /\ sent[t] + 1 <= size[t]
  BY <1>1
<1> DEFINE f == Msg("chunk", t, sent[t] + 1)
<1>3. f \in Frame /\ f.kind = "chunk"
  BY <1>2, MsgType
<1>4. /\ buf' = Append(q, f) /\ loop' = [loop EXCEPT ![t] = "read"]
      /\ sent' = [sent EXCEPT ![t] = sent[t] + 1]
  BY <1>1 DEF Put, TypeOK
<1> HIDE DEF f
<1>5. buf' \in Seq(Frame) /\ Buffered(q) \in Nat /\ Buffered(buf') = Buffered(q) + 1
  BY <1>3, <1>4, AppendFacts, BufferedAppend
<1>6. /\ sent'[t] = sent[t] + 1 /\ loop'[t] = "read"
      /\ \A u \in Transfer \ {t} : sent'[u] = sent[u] /\ loop'[u] = loop[u]
      /\ sent' \in [Transfer -> 0 .. Largest]
      /\ loop' \in [Transfer -> {"none", "accept", "read", "drain", "done"}]
  BY <1>1, <1>2, <1>4 DEF TypeOK
<1>7. \A u \in Transfer : sent'[u] <= size[u]
  BY <1>1, <1>2, <1>6 DEF TypeOK
<1> QED BY <1>1, <1>3, <1>4, <1>5, <1>6, <1>7 DEF f

(* ... which keeps to its marks, and to what the receiver waits for.       *)
LEMMA PutStep ==
  ASSUME IInv, NEW t \in Transfer, NEW q \in Seq(Frame), Put(t, q),
         loop[t] \in {"read", "drain"}, sent[t] < size[t], Buffered(q) <= HighWater,
         IsOpen("sender"), net' \in Seq(Frame),
         \A f \in Frame : chan["receiver"] = "open" /\ buf' = Append(q, f) => Grows(f),
         UNCHANGED <<size, out, confirmed, abandoned, inc, got, acked, prompt, said, toS, chan>>
  PROVE  IInv'
<1> DEFINE f == Msg("chunk", t, sent[t] + 1)
<1>0. TypeOK /\ HighWater \in Nat
  BY Typed
<1>1. /\ f \in Frame /\ buf' = Append(q, f) /\ buf' \in Seq(Frame) /\ Buffered(q) \in Nat
      /\ Buffered(buf') = Buffered(q) + 1 /\ said[t] = "yes"
      /\ sent'[t] = sent[t] + 1 /\ loop'[t] = "read"
      /\ \A u \in Transfer \ {t} : sent'[u] = sent[u] /\ loop'[u] = loop[u]
      /\ sent' \in [Transfer -> 0 .. Largest] /\ (\A u \in Transfer : sent'[u] <= size[u])
      /\ loop' \in [Transfer -> {"none", "accept", "read", "drain", "done"}]
  BY PutFacts
<1>2. f.kind = "chunk" /\ f.of = t /\ f.n = sent[t] + 1
  BY DEF Msg
<1>3. TypeOK'
  BY <1>0, <1>1 DEF TypeOK
<1>4. BufferBounded'
  BY <1>0, <1>1 DEF BufferBounded
<1>5. chan["receiver"] = "open" => Grows(f)
  BY <1>1
<1>6. Moves(t)
  <2>1. Grows(f) => Grows(Msg("chunk", t, sent'[t]))
    BY <1>1
  <2> QED BY <1>1, <1>5, <2>1, Typed DEF Moves, SenderOK, Sending
<1> HIDE DEF f
<1>7. chan["receiver"] = "open" => WireMoves
  BY <1>1, <1>2, <1>5 DEF WireMoves, NewOK
<1>8. \A u \in Transfer : Moves(u)
  BY <1>1, <1>6, Bystander
<1>9. AnswerInv'
  BY <1>3, NoAnswer
<1> QED BY <1>3, <1>4, <1>7, <1>8, <1>9, SenderStep DEF IsOpen

LEMMA ReadChunkStep == ASSUME IInv, NEW t \in Transfer, ReadChunk(t) PROVE IInv'
<1>0. TypeOK /\ loop[t] = "read" /\ said[t] = "yes"
  BY Typed DEF ReadChunk, SenderOK
<1>1. UNCHANGED <<size, confirmed, inc, got, acked, prompt, said, net, toS, chan>>
  BY DEF ReadChunk, receiverVars
<1>2. abandoned \in SUBSET Transfer /\ confirmed' \in [Transfer -> 0 .. Largest]
  BY <1>0, <1>1 DEF TypeOK
<1>3. CASE ~Sending(t) /\ loop' = [loop EXCEPT ![t] = "done"] /\ UNCHANGED <<out, sent, buf, abandoned>>
  <2>1. /\ loop' \in [Transfer -> {"none", "accept", "read", "drain", "done"}] /\ loop'[t] = "done"
        /\ \A u \in Transfer \ {t} : loop'[u] = loop[u]
    BY <1>0, <1>3 DEF TypeOK
  <2>2. Moves(t)
    BY <1>1, <1>3, <2>1, Typed DEF Moves, SenderOK, Sending
  <2> QED BY <1>0, <1>1, <1>2, <1>3, <2>1, <2>2, QuietStep DEF TypeOK
<1>4. CASE MoreToSend(t) /\ ~Full /\ IsOpen("sender") /\ Put(t, buf)
           /\ UNCHANGED <<out, abandoned>>
  <2>1. buf \in Seq(Frame) /\ net' \in Seq(Frame) /\ sent[t] < size[t]
    BY <1>0, <1>1, <1>4 DEF TypeOK, MoreToSend
  <2>2. Buffered(buf) <= HighWater
    BY <1>0, <1>4, <2>1, ChunksFinite, Typed DEF Full
  <2>3. \A f \in Frame : buf' = Append(buf, f) => Grows(f)
    BY <1>0, <1>1, WirePut
  <2> QED BY <1>0, <1>1, <1>4, <2>1, <2>2, <2>3, PutStep
<1>5. CASE /\ Sending(t) /\ MoreToSend(t) /\ loop' = [loop EXCEPT ![t] = "drain"]
           /\ UNCHANGED <<out, sent, buf, abandoned>>
  <2>1. /\ loop' \in [Transfer -> {"none", "accept", "read", "drain", "done"}] /\ loop'[t] = "drain"
        /\ \A u \in Transfer \ {t} : loop'[u] = loop[u]
    BY <1>0, <1>5 DEF TypeOK
  <2>2. Moves(t)
    <3>1. SenderOK(t)'
      BY <1>0, <1>1, <1>5, <2>1, Typed DEF SenderOK, Sending, MoreToSend
    <3> QED BY <1>0, <1>1, <1>5, <2>1, <3>1, Typed DEF Moves, Sending
  <2> QED BY <1>0, <1>1, <1>2, <1>5, <2>1, <2>2, QuietStep DEF TypeOK
<1>6. CASE /\ Sending(t) /\ ~IsOpen("sender") /\ out' = [out EXCEPT ![t] = "failed"]
           /\ loop' = [loop EXCEPT ![t] = "done"] /\ UNCHANGED <<sent, buf, abandoned>>
  <2>1. /\ out' \in [Transfer -> Status] /\ out'[t] = "failed" /\ loop'[t] = "done"
        /\ loop' \in [Transfer -> {"none", "accept", "read", "drain", "done"}]
        /\ \A u \in Transfer \ {t} : out'[u] = out[u] /\ loop'[u] = loop[u]
    BY <1>0, <1>6 DEF TypeOK, Status, Final
  <2>2. ~(\A e \in End : chan'[e] = "open")
    BY <1>1, <1>6 DEF End, IsOpen
  <2>3. Moves(t)
    BY <1>0, <1>1, <1>6, <2>1, <2>2, Typed DEF Moves, SenderOK, Sending, Live
  <2> QED BY <1>0, <1>1, <1>2, <1>6, <2>1, <2>3, QuietStep
<1>7. CASE /\ Sending(t) /\ Written(t, Msg("complete", t, 0))
           /\ out' = [out EXCEPT ![t] = "complete"]
           /\ loop' = [loop EXCEPT ![t] = "done"] /\ UNCHANGED sent
  <2> DEFINE f == Msg("complete", t, 0)
  <2>1. f \in Frame /\ f.kind = "complete" /\ f.of = t
    BY MsgType, Typed
  <2>2. /\ buf' \in Seq(Frame) /\ BufferBounded'
        /\ Grows(f) \/ Wire' = Wire
        /\ IsOpen("sender") => Grows(f) \/ t \in abandoned'
        /\ abandoned' \in SUBSET Transfer /\ abandoned \subseteq abandoned'
    BY <1>1, <1>7, <2>1, WrittenFacts
  <2>3. /\ out' \in [Transfer -> Status] /\ out'[t] = "complete" /\ loop'[t] = "done"
        /\ loop' \in [Transfer -> {"none", "accept", "read", "drain", "done"}]
        /\ \A u \in Transfer \ {t} : out'[u] = out[u] /\ loop'[u] = loop[u]
    BY <1>0, <1>7 DEF TypeOK, Status, Final
  <2>4. TypeOK'
    BY <1>0, <1>1, <1>7, <2>2, <2>3 DEF TypeOK
  <2>5. Moves(t)
    <3>1. (\A e \in End : chan'[e] = "open") => Grows(Msg("complete", t, 0)) \/ t \in abandoned'
      BY <1>1, <2>2 DEF End, IsOpen
    <3> QED BY <1>0, <1>1, <1>7, <2>3, <3>1, Typed DEF Moves, SenderOK, Sending, Live
  <2> HIDE DEF f
  <2>6. WireMoves
    BY <1>0, <2>1, <2>2, <2>3 DEF WireMoves, NewOK
  <2>7. \A u \in Transfer : Moves(u)
    BY <1>1, <1>7, <2>3, <2>5, Bystander
  <2>8. AnswerInv'
    BY <1>1, <2>4, NoAnswer
  <2> QED BY <1>1, <2>2, <2>4, <2>6, <2>7, <2>8, SenderStep DEF IsOpen
<1> QED BY <1>3, <1>4, <1>5, <1>6, <1>7 DEF ReadChunk

LEMMA DrainStep == ASSUME IInv, Drain PROVE IInv'
<1> DEFINE rest == Tail(buf)
<1>0. /\ TypeOK /\ chan["sender"] = "open" /\ buf # <<>> /\ buf \in Seq(Frame) /\ net \in Seq(Frame)
      /\ LowWater \in Nat /\ HighWater \in Nat /\ LowWater < HighWater
  BY Typed DEF Drain, TypeOK
<1>1. /\ rest \in Seq(Frame) /\ Head(buf) \in Frame
      /\ Buffered(rest) \in Nat /\ Buffered(buf) \in Nat /\ Buffered(rest) <= Buffered(buf)
  BY <1>0, TailFacts, BufferedTail
<1>2. /\ UNCHANGED <<size, confirmed, inc, got, acked, prompt, said, toS, chan>>
      /\ net' = IF chan["receiver"] = "open" THEN Append(net, Head(buf)) ELSE net
  BY DEF Drain, receiverVars
<1>3. net' \in Seq(Frame)
  BY <1>0, <1>1, <1>2, AppendFacts
<1>4. ASSUME NEW t \in Transfer, loop[t] = "drain", Put(t, rest), Buffered(rest) <= LowWater,
             UNCHANGED <<out, abandoned>>
      PROVE  IInv'
  <2>1. sent[t] < size[t] /\ Buffered(rest) <= HighWater /\ IsOpen("sender")
    BY <1>0, <1>1, <1>4, Typed DEF SenderOK, IsOpen
  <2>2. \A f \in Frame : chan["receiver"] = "open" /\ buf' = Append(rest, f) => Grows(f)
    BY <1>0, <1>2, WireMove
  <2> QED BY <1>1, <1>2, <1>3, <1>4, <2>1, <2>2, PutStep
<1>5. ASSUME buf' = rest, UNCHANGED sent, TypeOK', abandoned \subseteq abandoned',
             \A u \in Transfer : Moves(u)
      PROVE  IInv'
  <2>1. BufferBounded'
    BY <1>0, <1>1, <1>5 DEF IInv, BufferBounded
  <2>2. chan["receiver"] = "open" => WireMoves
    BY <1>0, <1>2, <1>5, WireMove DEF WireMoves
  <2>3. AnswerInv'
    BY <1>2, <1>5, NoAnswer
  <2> QED BY <1>2, <1>5, <2>1, <2>2, <2>3, SenderStep DEF IsOpen
<1>6. CASE buf' = rest /\ UNCHANGED <<sent, loop, out, abandoned>>
  <2>1. TypeOK'
    BY <1>0, <1>1, <1>2, <1>3, <1>6 DEF TypeOK
  <2>2. \A u \in Transfer : Moves(u)
    BY <1>2, <1>6, Bystander
  <2> QED BY <1>5, <1>6, <2>1, <2>2
<1>7. ASSUME NEW t \in Transfer, loop[t] = "drain", Settled(t, "failed"),
             abandoned' = abandoned \cup {t}, buf' = rest, UNCHANGED sent
      PROVE  IInv'
  <2>1. /\ out' \in [Transfer -> Status] /\ out'[t] = "failed" /\ loop'[t] = "done"
        /\ loop' \in [Transfer -> {"none", "accept", "read", "drain", "done"}]
        /\ \A u \in Transfer \ {t} : out'[u] = out[u] /\ loop'[u] = loop[u]
    BY <1>0, <1>7, SettledFacts
  <2>2. TypeOK'
    BY <1>0, <1>1, <1>2, <1>3, <1>7, <2>1 DEF TypeOK
  <2>3. out[t] # "complete"
    BY <1>0, <1>7, Typed DEF SenderOK, Sending, Live
  <2>4. Moves(t)
    BY <1>0, <1>2, <1>7, <2>1, <2>3, Typed DEF Moves, SenderOK, Sending, Live
  <2>5. \A u \in Transfer : Moves(u)
    BY <1>2, <1>7, <2>1, <2>4, Bystander
  <2> QED BY <1>5, <1>7, <2>2, <2>5
<1>8. CASE \E t \in Transfer : Woken(t, rest) /\ Buffered(rest) <= LowWater
  BY <1>4, <1>7, <1>8 DEF Woken
<1> QED BY <1>6, <1>8 DEF Drain

LEMMA ChanFacts ==
  ASSUME TypeOK, NEW e \in End, NEW how, chan' = [chan EXCEPT ![e] = how]
  PROVE  chan'[e] = how /\ (\A f \in End \ {e} : chan'[f] = chan[f]) /\ "sender" \in End /\ "receiver" \in End
BY DEF TypeOK, End

(* The channel of the sender ends.                                         *)
LEMMA SenderStops ==
  ASSUME IInv, NEW how \in {"closing", "closed", "dead"}, Stop("sender", how),
         how = "dead" => chan["sender"] = "open",
         buf' = buf \/ (buf' = <<>> /\ how = "closed"),
         UNCHANGED <<size, sent, confirmed, abandoned, inc, got, acked, prompt, said>>,
         UNCHANGED <<out, loop>> \/ \E status \in {"cancelled", "failed"} : AllSettled(status)
  PROVE  IInv'
<1>0. /\ TypeOK /\ chan' = [chan EXCEPT !["sender"] = how] /\ toS' = <<>> /\ UNCHANGED net
      /\ "sender" \in End /\ "receiver" \in End
  BY Typed DEF Stop, End
<1>1. /\ chan'["sender"] = how /\ chan'["receiver"] = chan["receiver"]
      /\ chan' \in [End -> {"open", "closing", "closed", "dead"}]
  BY <1>0 DEF TypeOK
<1>2. /\ out' \in [Transfer -> Status]
      /\ loop' \in [Transfer -> {"none", "accept", "read", "drain", "done"}]
      /\ \A u \in Transfer : \/ out'[u] = out[u] /\ loop'[u] = loop[u]
                             \/ /\ Sending(u) /\ out'[u] \in {"cancelled", "failed"}
                                /\ loop'[u] = IF loop[u] \in {"accept", "drain"} THEN "done" ELSE loop[u]
  <2>1. CASE UNCHANGED <<out, loop>>
    BY <1>0, <2>1 DEF TypeOK
  <2>2. ASSUME NEW status \in {"cancelled", "failed"}, AllSettled(status)
        PROVE  <1>2
    BY <1>0, <2>2 DEF AllSettled, TypeOK, Status, Final
  <2> QED BY <2>1, <2>2
<1>3. TypeOK'
  <2>1. <<>> \in Seq(Frame)
    BY EmptySeq
  <2>2. buf' \in Seq(Frame) /\ toS' \in Seq(Frame)
    BY <1>0, <2>1 DEF TypeOK
  <2> QED BY <1>0, <1>1, <1>2, <2>2 DEF TypeOK
<1>4. ASSUME NEW u \in Transfer PROVE Moves(u)
  <2>1. ~\A e \in End : chan'[e] = "open"
    BY <1>0, <1>1
  <2> QED BY <1>2, <2>1, Typed DEF Moves, SenderOK, Sending, Live
<1>5. BufferBounded'
  <2>1. Buffered(<<>>) = 0
    <3>1. ChunksIn(<<>>) = {}
      BY DEF ChunksIn
    <3>2. <<>> \in Seq(Frame)
      BY EmptySeq
    <3> QED BY <3>1, <3>2, ChunksFinite, FS_EmptySet
  <2>2. 0 <= HighWater + 1
    BY Sizes
  <2>3. CASE buf' = buf
    BY <2>3 DEF IInv, BufferBounded
  <2>4. CASE buf' = <<>>
    BY <2>1, <2>2, <2>4 DEF BufferBounded
  <2> QED BY <2>3, <2>4
<1>6. WireMoves
  <2>1. CASE buf' = buf
    BY <1>0, <2>1 DEF WireMoves, Wire
  <2>2. CASE buf' = <<>> /\ how = "closed"
    BY <1>0, <1>1, <2>2, WireCut DEF WireMoves, IsOpen
  <2> QED BY <2>1, <2>2
<1>7. AnswerInv'
  BY <1>0, <1>3, NoAnswer
<1> QED BY <1>1, <1>3, <1>4, <1>5, <1>6, <1>7, SenderStep DEF IsOpen

-----------------------------------------------------------------------------
(* Steps of the receiver.                                                  *)

(* What a step of the receiver may do to a transfer.                       *)
Gains(t) ==
  /\ said[t] = "yes" => said'[t] = "yes"
  /\ loop[t] = "none" => inc'[t] = "none"
  /\ Len(got[t]) <= Len(got'[t]) /\ Len(got'[t]) <= sent[t]
  /\ got'[t] = [i \in 1..Len(got'[t]) |-> i]
  /\ inc'[t] = "complete" => Len(got'[t]) = size[t] /\ out[t] = "complete"
  /\ got'[t] # <<>> \/ inc'[t] \in {"active", "complete"} => said'[t] = "yes"
  /\ ReceiverOK(t)'

LEMMA GotLen ==
  ASSUME TypeOK
  PROVE  \A t \in Transfer : Len(got[t]) \in Nat /\ sent[t] \in Nat /\ confirmed[t] \in Nat
<1>1. \A t \in Transfer : Len(got[t]) \in Nat
  BY LenProperties DEF TypeOK
<1>2. \A t \in Transfer : sent[t] \in Nat /\ confirmed[t] \in Nat
  BY DEF TypeOK
<1> QED BY <1>1, <1>2

LEMMA GotLenNext ==
  ASSUME TypeOK'
  PROVE  \A t \in Transfer : Len(got'[t]) \in Nat
BY LenProperties DEF TypeOK

LEMMA ReceiverStep ==
  ASSUME IInv, TypeOK', UNCHANGED <<size, loop, out, sent, confirmed, abandoned, buf>>,
         \A t \in Transfer : Gains(t), AnswerInv', WireInv',
         \A t \in Transfer : TopOK(t)' /\ FedOK(t)'
  PROVE  IInv'
<1>1. EndsInv'
  BY Typed DEF EndsInv, Gains, SenderOK, Sending
<1>2. ConsentGated'
  BY DEF IInv, ConsentGated, Gains
<1>3. DeliveredWhole'
  <2> SUFFICES ASSUME NEW t \in Transfer
               PROVE  /\ got'[t] = [i \in 1..Len(got'[t]) |-> i]
                      /\ confirmed'[t] <= Len(got'[t]) /\ Len(got'[t]) <= sent'[t]
                      /\ inc'[t] = "complete" => Len(got'[t]) = size'[t] /\ out'[t] = "complete"
    BY DEF DeliveredWhole
  <2>1. confirmed[t] <= Len(got[t]) /\ Len(got[t]) <= Len(got'[t])
    BY Typed DEF Gains
  <2>2. confirmed[t] <= Len(got'[t])
    BY <2>1, GotLen, GotLenNext, Typed
  <2> QED BY <2>2 DEF Gains
<1>4. BufferBounded'
  BY DEF IInv, BufferBounded
<1> QED BY <1>1, <1>2, <1>3, <1>4 DEF IInv

(* A transfer that the step is not about.                                  *)
LEMMA Aside ==
  ASSUME IInv, NEW t \in Transfer, UNCHANGED <<loop, size, out, sent>>,
         inc'[t] = inc[t], got'[t] = got[t], said'[t] = said[t], prompt' = t <=> prompt = t
  PROVE  Gains(t)
BY Typed, GotLen DEF IInv, DeliveredWhole, ConsentGated, Gains, SenderOK, ReceiverOK

LEMMA TakenWire ==
  ASSUME IInv, TypeOK', Shifts, 1 \in 1 .. Len(Wire), NEW t \in Transfer, Wire[1].of = t,
         chan["receiver"] = "open",
         UNCHANGED <<chan, loop, out, sent, abandoned, said>>,
         \A u \in Transfer \ {t} : inc'[u] = inc[u] /\ got'[u] = got[u],
         Wire[1].kind \in {"start", "chunk", "complete", "cancel"},
         Wire[1].kind # "chunk" => got'[t] = got[t],
         Wire[1].kind = "start" => inc'[t] # "active",
         Wire[1].kind \in {"complete", "cancel"} => inc'[t] \notin Live,
         Wire[1].kind = "chunk" =>
           /\ inc'[t] = inc[t]
           /\ inc[t] = "active" => Len(got'[t]) = Len(got[t]) + 1
  PROVE  WireInv' /\ \A u \in Transfer : TopOK(u)' /\ FedOK(u)'
<1> DEFINE m == Len(Wire')
<1>1. /\ TypeOK /\ m \in Nat /\ Len(Wire) = m + 1
      /\ \A i \in 1 .. m : i + 1 \in 1 .. Len(Wire) /\ Wire'[i] = Wire[i + 1]
      /\ \A i \in 1 .. Len(Wire) : FrameOK(i) /\ Wire[i] \in Frame /\ Wire[i].of \in Transfer
  <2>1. TypeOK /\ m \in Nat /\ Len(Wire) = m + 1 /\ \A i \in 1 .. m : Wire'[i] = Wire[i + 1]
    BY WireTypeNext, Typed DEF Shifts
  <2>2. \A i \in 1 .. Len(Wire) : FrameOK(i) /\ Wire[i] \in Frame
    BY <2>1, WireType DEF IInv, WireInv
  <2> HIDE DEF m
  <2>3. \A i \in 1 .. m : i + 1 \in 1 .. Len(Wire)
    BY <2>1
  <2> QED BY <2>1, <2>2, <2>3 DEF Frame
<1>2. \A i \in 1 .. Len(Wire) : i # 1 => i - 1 \in 1 .. m /\ Wire'[i - 1] = Wire[i]
  <2> SUFFICES ASSUME NEW i \in 1 .. Len(Wire), i # 1
               PROVE  i - 1 \in 1 .. m /\ Wire'[i - 1] = Wire[i]
    OBVIOUS
  <2>1. i - 1 \in 1 .. m /\ (i - 1) + 1 = i
    BY <1>1
  <2> QED BY <1>1, <2>1
<1> HIDE DEF m
<1>3. \A i \in 1 .. m : Wire'[i].of = t => Wire'[i].kind # "start"
  <2> SUFFICES ASSUME NEW i \in 1 .. m, Wire'[i].of = t, Wire'[i].kind = "start" PROVE FALSE
    OBVIOUS
  <2>1. FrameOK(i + 1) /\ i + 1 # 1 /\ Wire[i + 1] = Wire'[i] /\ ~(i + 1 < 1)
    BY <1>1
  <2> QED BY <2>1 DEF FrameOK
<1>4. \A u \in Transfer : Len(got[u]) \in Nat /\ Len(got'[u]) \in Nat /\ sent[u] \in Nat
  BY <1>1, GotLen, GotLenNext
<1>5. ASSUME Wire[1].kind = "chunk", inc[t] = "active"
      PROVE  Wire[1].n = Len(got'[t]) /\ Len(got'[t]) = Len(got[t]) + 1 /\ Wire[1].n <= sent[t]
  <2>1. FrameOK(1)
    BY <1>1
  <2>2. \A j \in 1 .. Len(Wire) : ~(j < 1)
    BY <1>1
  <2> QED BY <1>5, <2>1, <2>2 DEF FrameOK
<1>6. ASSUME NEW i \in 1 .. m PROVE FrameOK(i)'
  <2> DEFINE f == Wire[i + 1]
             u == f.of
  <2>1. /\ FrameOK(i + 1) /\ i + 1 \in 1 .. Len(Wire) /\ Wire'[i] = f /\ f \in Frame /\ u \in Transfer
        /\ f.n \in Nat
    BY <1>1 DEF Frame
  <2>2. f.kind = "start" =>
          /\ inc'[u] = "none"
          /\ \A j \in 1 .. m : Wire'[j].of = u /\ j # i => i < j /\ Wire'[j].kind # "start"
    <3>1. f.kind = "start" => u # t
      BY <1>3, <2>1
    <3>2. f.kind = "start" => \A j \in 1 .. Len(Wire) :
                                 Wire[j].of = u /\ j # i + 1 => i + 1 < j /\ Wire[j].kind # "start"
      BY <2>1 DEF FrameOK
    <3>3. \A j \in 1 .. m : j # i => j + 1 # i + 1
      OBVIOUS
    <3>4. \A j \in 1 .. m : i + 1 < j + 1 => i < j
      OBVIOUS
    <3> QED BY <1>1, <2>1, <3>1, <3>2, <3>3, <3>4 DEF FrameOK
  <2>3. f.kind = "chunk" =>
          /\ said'[u] = "yes" /\ 1 <= f.n /\ f.n <= sent'[u]
          /\ \A j \in 1 .. m : Wire'[j].kind = "chunk" /\ Wire'[j].of = u /\ j < i => Wire'[j].n < f.n
    <3>1. f.kind = "chunk" => \A j \in 1 .. Len(Wire) : ChunkOf(j, u) /\ j < i + 1 => Wire[j].n < f.n
      BY <2>1 DEF FrameOK
    <3>2. \A j \in 1 .. m : j < i => j + 1 < i + 1
      OBVIOUS
    <3> QED BY <1>1, <2>1, <3>1, <3>2 DEF FrameOK, ChunkOf
  <2>4. ASSUME f.kind = "chunk", inc'[u] = "active"
        PROVE  /\ Len(got'[u]) < f.n
               /\ \/ f.n = Len(got'[u]) + 1
                  \/ \E j \in 1 .. m :
                       Wire'[j].kind = "chunk" /\ Wire'[j].of = u /\ j < i /\ Wire'[j].n + 1 = f.n
    <3>1. inc[u] = "active"
      BY <2>1, <2>4 DEF Live
    <3>2. /\ Len(got[u]) < f.n
          /\ \/ f.n = Len(got[u]) + 1
             \/ \E j \in 1 .. Len(Wire) : ChunkOf(j, u) /\ j < i + 1 /\ Wire[j].n + 1 = f.n
      BY <2>1, <2>4, <3>1 DEF FrameOK
    <3>3. ASSUME NEW j \in 1 .. Len(Wire), j # 1, ChunkOf(j, u), j < i + 1, Wire[j].n + 1 = f.n
          PROVE  \E k \in 1 .. m :
                   Wire'[k].kind = "chunk" /\ Wire'[k].of = u /\ k < i /\ Wire'[k].n + 1 = f.n
      <4>1. j - 1 \in 1 .. m /\ Wire'[j - 1] = Wire[j]
        BY <1>2, <3>3
      <4>2. j - 1 < i
        BY <1>1, <3>3
      <4> QED BY <3>3, <4>1, <4>2 DEF ChunkOf
    <3>4. CASE u # t
      <4>1. got'[u] = got[u] /\ \A j \in 1 .. Len(Wire) : ChunkOf(j, u) => j # 1
        BY <2>1, <3>4 DEF ChunkOf
      <4> QED BY <3>2, <3>3, <4>1
    <3>5. CASE u = t /\ Wire[1].kind # "chunk"
      <4>1. got'[u] = got[u] /\ \A j \in 1 .. Len(Wire) : ChunkOf(j, u) => j # 1
        BY <3>5 DEF ChunkOf
      <4> QED BY <3>2, <3>3, <4>1
    <3>6. CASE u = t /\ Wire[1].kind = "chunk"
      <4>1. Wire[1].n = Len(got'[t]) /\ Len(got'[t]) = Len(got[t]) + 1
        BY <1>5, <3>1, <3>6
      <4>2. Wire[1].n < f.n
        <5>1. ChunkOf(1, u) /\ 1 < i + 1
          BY <3>6 DEF ChunkOf
        <5> QED BY <2>1, <2>4, <5>1 DEF FrameOK
      <4>3. f.n # Len(got[u]) + 1
        BY <1>4, <2>1, <3>6, <4>1, <4>2
      <4>4. PICK j \in 1 .. Len(Wire) : ChunkOf(j, u) /\ j < i + 1 /\ Wire[j].n + 1 = f.n
        BY <3>2, <4>3
      <4>5. j = 1 => f.n = Len(got'[u]) + 1
        BY <3>6, <4>1, <4>4
      <4> QED BY <3>3, <3>6, <4>1, <4>2, <4>4, <4>5
    <3> QED BY <3>4, <3>5, <3>6
  <2>5. loop'[u] # "none" /\ (f.kind = "complete" => out'[u] = "complete" /\ said'[u] = "yes")
    BY <2>1 DEF FrameOK
  <2> QED BY <2>1, <2>2, <2>3, <2>4, <2>5 DEF FrameOK, ChunkOf, m
<1>7. ASSUME NEW u \in Transfer PROVE TopOK(u)'
  <2> SUFFICES ASSUME IsOpen("sender"), inc'[u] = "active"
               PROVE  \/ sent[u] = Len(got'[u])
                      \/ \E i \in 1 .. m :
                           Wire'[i].kind = "chunk" /\ Wire'[i].of = u /\ Wire'[i].n = sent[u]
    BY DEF TopOK, ChunkOf, IsOpen, m
  <2>1. inc[u] = "active"
    BY DEF Live
  <2>2. \/ sent[u] = Len(got[u])
        \/ \E i \in 1 .. Len(Wire) : ChunkOf(i, u) /\ Wire[i].n = sent[u]
    BY <2>1, Typed DEF TopOK
  <2>3. ASSUME NEW i \in 1 .. Len(Wire), ChunkOf(i, u), Wire[i].n = sent[u], i # 1
        PROVE  \E k \in 1 .. m :
                 Wire'[k].kind = "chunk" /\ Wire'[k].of = u /\ Wire'[k].n = sent[u]
    BY <1>2, <2>3 DEF ChunkOf
  <2>4. CASE u # t \/ Wire[1].kind # "chunk"
    <3>1. got'[u] = got[u] /\ \A i \in 1 .. Len(Wire) : ChunkOf(i, u) => i # 1
      BY <2>4 DEF ChunkOf
    <3> QED BY <2>2, <2>3, <3>1
  <2>5. CASE u = t /\ Wire[1].kind = "chunk"
    <3>1. Wire[1].n = Len(got'[t]) /\ Len(got'[t]) = Len(got[t]) + 1 /\ Wire[1].n <= sent[t]
      BY <1>5, <2>1, <2>5
    <3>2. sent[u] # Len(got[u])
      BY <1>4, <2>5, <3>1
    <3>3. PICK i \in 1 .. Len(Wire) : ChunkOf(i, u) /\ Wire[i].n = sent[u]
      BY <2>2, <3>2
    <3> QED BY <2>3, <2>5, <3>1, <3>3
  <2> QED BY <2>4, <2>5
<1>8. ASSUME NEW u \in Transfer PROVE FedOK(u)'
  <2> SUFFICES ASSUME \A e \in End : chan[e] = "open",
                      inc'[u] \in Live \/ \E i \in 1 .. m : Wire'[i].of = u /\ Wire'[i].kind = "start"
               PROVE  \/ Sending(u) \/ u \in abandoned
                      \/ \E i \in 1 .. m : Wire'[i].of = u /\ Wire'[i].kind \in {"complete", "cancel"}
    BY DEF FedOK, Sending, m
  <2>1. inc[u] \in Live \/ \E i \in 1 .. Len(Wire) : Wire[i].of = u /\ Wire[i].kind = "start"
    <3>1. CASE u # t
      BY <1>1, <3>1
    <3>2. CASE u = t
      BY <1>3, <3>2
    <3> QED BY <3>1, <3>2
  <2>2. \/ Sending(u) \/ u \in abandoned
        \/ \E i \in 1 .. Len(Wire) : Wire[i].of = u /\ Wire[i].kind \in {"complete", "cancel"}
    BY <2>1, Typed DEF FedOK
  <2>3. \A i \in 1 .. Len(Wire) : Wire[i].of = u /\ Wire[i].kind \in {"complete", "cancel"} => i # 1
    BY <1>3
  <2> QED BY <1>2, <2>2, <2>3
<1> QED BY <1>6, <1>7, <1>8 DEF WireInv, m

(* A step that takes nothing from the wire: an answer, or a cancel.        *)
LEMMA AnswerWire ==
  ASSUME IInv, UNCHANGED <<size, loop, out, sent, abandoned, got, buf, net, chan>>,
         \A t \in Transfer :
           /\ said[t] = "yes" => said'[t] = "yes"
           /\ inc[t] = "none" => inc'[t] = "none"
           /\ inc'[t] \in Live => inc[t] \in Live
           /\ inc'[t] = "active" => inc[t] = "active" \/ said[t] # "yes"
  PROVE  WireInv' /\ \A u \in Transfer : TopOK(u)' /\ FedOK(u)'
<1>1. TypeOK /\ Wire' = Wire /\ \A i \in 1 .. Len(Wire) : Wire[i] \in Frame /\ Wire[i].of \in Transfer
  BY Typed, WireType DEF Wire, Frame
<1>2. ASSUME NEW i \in 1 .. Len(Wire), chan["receiver"] = "open" PROVE FrameOK(i)'
  <2>1. FrameOK(i) /\ Wire[i].of \in Transfer
    BY <1>1, <1>2 DEF IInv, WireInv
  <2> QED BY <1>1, <2>1 DEF FrameOK, ChunkOf
<1>3. ASSUME NEW u \in Transfer PROVE TopOK(u)'
  <2>1. CASE inc'[u] = "active" /\ inc[u] # "active"
    <3>1. ~(sent[u] > 0) /\ got[u] = <<>> /\ sent[u] \in Nat
      BY <1>1, <2>1 DEF IInv, ConsentGated, TypeOK
    <3>2. sent'[u] = Len(got'[u])
      BY <3>1
    <3> QED BY <3>2 DEF TopOK
  <2>2. CASE ~(inc'[u] = "active" /\ inc[u] # "active")
    BY <1>1, <2>2, Typed DEF TopOK, ChunkOf, IsOpen
  <2> QED BY <2>1, <2>2
<1>4. ASSUME NEW u \in Transfer PROVE FedOK(u)'
  BY <1>1, Typed DEF FedOK, Sending
<1> QED BY <1>1, <1>2, <1>3, <1>4 DEF WireInv

(* Nothing reaches a receiver whose channel has ended.                     *)
LEMMA ReceiverStops ==
  ASSUME chan'["receiver"] # "open"
  PROVE  WireInv' /\ \A u \in Transfer : TopOK(u)' /\ FedOK(u)'
BY DEF WireInv, TopOK, FedOK, End

(* The first frame of the wire is handed to the engine.                    *)
LEMMA ReceiveFacts ==
  ASSUME IInv, NEW kind, NEW t \in Transfer, Receive(kind, t), UNCHANGED buf
  PROVE  /\ chan["receiver"] = "open" /\ Shifts /\ 1 \in 1 .. Len(Wire) /\ Wire[1] = Head(net)
         /\ Wire[1].kind = kind /\ Wire[1].of = t /\ Wire[1] \in Frame /\ FrameOK(1)
         /\ net' \in Seq(Frame)
<1>1. TypeOK /\ chan["receiver"] = "open" /\ net # <<>> /\ net' = Tail(net)
  BY Typed DEF Receive
<1>2. net' \in Seq(Frame) /\ Head(net) \in Frame
  BY <1>1, TailFacts DEF TypeOK
<1>3. Shifts /\ Wire[1] = Head(net) /\ 1 \in 1 .. Len(Wire)
  BY <1>1, WireTake
<1> QED BY <1>1, <1>2, <1>3 DEF Receive, IInv, WireInv

LEMMA ReplyFacts ==
  ASSUME TypeOK, NEW f \in Frame, Reply(f)
  PROVE  toS' \in Seq(Frame) /\ (toS' = toS \/ toS' = Append(toS, f))
<1>1. toS \in Seq(Frame) /\ Append(toS, f) \in Seq(Frame)
  BY AppendFacts DEF TypeOK
<1>2. toS' = toS \/ toS' = Append(toS, f)
  BY DEF Reply
<1> QED BY <1>1, <1>2

-----------------------------------------------------------------------------
(* The actions of the receiver.                                            *)

LEMMA ReceiveStartStep == ASSUME IInv, NEW t \in Transfer, ReceiveStart(t) PROVE IInv'
<1>0. /\ TypeOK /\ Receive("start", t)
      /\ UNCHANGED <<size, loop, out, sent, confirmed, abandoned, got, acked, said, buf, chan>>
  BY Typed DEF ReceiveStart, senderVars
<1>1. /\ chan["receiver"] = "open" /\ Shifts /\ 1 \in 1 .. Len(Wire) /\ Wire[1].kind = "start"
      /\ Wire[1].of = t /\ FrameOK(1) /\ net' \in Seq(Frame)
  BY <1>0, ReceiveFacts
<1>2. inc[t] = "none" /\ loop[t] # "none" /\ said[t] = "none" /\ prompt # t
  BY <1>1, Typed DEF FrameOK, ReceiverOK
<1>3. /\ inc' \in [Transfer -> Status] /\ \A u \in Transfer \ {t} : inc'[u] = inc[u]
      /\ prompt' \in Transfer \cup {None} /\ toS' \in Seq(Frame)
      /\ \/ /\ inc'[t] \in {"failed", "cancelled"} /\ prompt' = prompt
            /\ toS' = toS \/ \E f \in Frame : /\ toS' = Append(toS, f) /\ f.of = t
                                              /\ f.kind \in {"toolarge", "decline"}
         \/ inc'[t] = "pending" /\ prompt = None /\ prompt' = t /\ toS' = toS
  <2>1. 0 \in 0 .. Largest
    BY Typed
  <2>2. CASE inc' = [inc EXCEPT ![t] = "failed"] /\ Reply(Msg("toolarge", t, 0)) /\ UNCHANGED prompt
    <3>1. Msg("toolarge", t, 0) \in Frame /\ Msg("toolarge", t, 0).of = t
          /\ Msg("toolarge", t, 0).kind = "toolarge"
      BY <2>1, MsgType
    <3>2. toS' \in Seq(Frame) /\ (toS' = toS \/ toS' = Append(toS, Msg("toolarge", t, 0)))
      BY <1>0, <2>2, <3>1, ReplyFacts
    <3> QED BY <1>0, <2>2, <3>1, <3>2 DEF TypeOK, Status, Final
  <2>3. CASE inc' = [inc EXCEPT ![t] = "cancelled"] /\ Reply(Msg("decline", t, 0)) /\ UNCHANGED prompt
    <3>1. Msg("decline", t, 0) \in Frame /\ Msg("decline", t, 0).of = t
          /\ Msg("decline", t, 0).kind = "decline"
      BY <2>1, MsgType
    <3>2. toS' \in Seq(Frame) /\ (toS' = toS \/ toS' = Append(toS, Msg("decline", t, 0)))
      BY <1>0, <2>3, <3>1, ReplyFacts
    <3> QED BY <1>0, <2>3, <3>1, <3>2 DEF TypeOK, Status, Final
  <2>4. CASE inc' = [inc EXCEPT ![t] = "pending"] /\ prompt = None /\ prompt' = t /\ UNCHANGED toS
    BY <1>0, <2>4 DEF TypeOK, Status, Live
  <2> QED BY <2>2, <2>3, <2>4 DEF ReceiveStart
<1>4. TypeOK'
  BY <1>0, <1>1, <1>3 DEF TypeOK
<1>5. AnswerInv'
  <2>1. \A u \in Transfer : inc[u] \in Final => inc'[u] \in Final
    BY <1>2, <1>3 DEF Final
  <2>2. \A u \in Transfer : Len(got[u]) <= Len(got'[u])
    BY <1>0, GotLen
  <2>3. \A f \in Frame : f.of = t /\ f.kind \in {"toolarge", "decline"} /\ inc'[t] \in {"failed", "cancelled"}
                           => ReplyOK(f)
    BY DEF ReplyOK, Final
  <2> QED BY <1>0, <1>3, <1>4, <2>1, <2>2, <2>3, AnswerStep
<1>6. ASSUME NEW u \in Transfer PROVE Gains(u)
  <2>1. CASE u # t
    <3>1. prompt' = u <=> prompt = u
      BY <1>3, <2>1, Sizes
    <3> QED BY <1>0, <1>3, <2>1, <3>1, Aside
  <2>2. CASE u = t
    <3>1. /\ got[t] = <<>> /\ Len(got[t]) \in Nat
          /\ got[t] = [i \in 1..Len(got[t]) |-> i] /\ Len(got[t]) <= sent[t]
      BY <1>0, <1>2, GotLen DEF IInv, ConsentGated, DeliveredWhole
    <3> QED BY <1>0, <1>2, <1>3, <2>2, <3>1 DEF Gains, ReceiverOK
  <2> QED BY <2>1, <2>2
<1>7. WireInv' /\ \A u \in Transfer : TopOK(u)' /\ FedOK(u)'
  BY <1>0, <1>1, <1>3, <1>4, TakenWire
<1> QED BY <1>0, <1>4, <1>5, <1>6, <1>7, ReceiverStep

LEMMA ReceiveChunkStep == ASSUME IInv, NEW t \in Transfer, ReceiveChunk(t) PROVE IInv'
<1>0. /\ TypeOK /\ Receive("chunk", t)
      /\ UNCHANGED <<size, loop, out, sent, confirmed, abandoned, inc, prompt, said, buf, chan>>
  BY Typed DEF ReceiveChunk, senderVars
<1>1. /\ chan["receiver"] = "open" /\ Shifts /\ 1 \in 1 .. Len(Wire) /\ Wire[1] = Head(net)
      /\ Wire[1].kind = "chunk" /\ Wire[1].of = t /\ Wire[1] \in Frame /\ FrameOK(1)
      /\ net' \in Seq(Frame)
  BY <1>0, ReceiveFacts
<1>2. CASE inc[t] # "active"
  <2>1. UNCHANGED <<got, acked, toS>>
    BY <1>2 DEF ReceiveChunk
  <2>2. TypeOK'
    BY <1>0, <1>1, <2>1 DEF TypeOK
  <2>3. \A u \in Transfer : Gains(u)
    BY <1>0, <2>1, Aside
  <2>4. AnswerInv'
    BY <1>0, <2>1, <2>2, NoAnswer
  <2>5. WireInv' /\ \A u \in Transfer : TopOK(u)' /\ FedOK(u)'
    BY <1>0, <1>1, <1>2, <2>1, <2>2, TakenWire
  <2> QED BY <1>0, <2>2, <2>3, <2>4, <2>5, ReceiverStep
<1>3. CASE inc[t] = "active"
  <2> DEFINE n == Head(net).n
             m == Len(got[t])
  <2>1. /\ n = m + 1 /\ m \in Nat /\ n \in 1 .. Largest /\ n <= sent[t] /\ said[t] = "yes"
        /\ loop[t] # "none"
    <3>1. \A j \in 1 .. Len(Wire) : ~(j < 1)
      OBVIOUS
    <3>2. n = m + 1 /\ n <= sent[t] /\ said[t] = "yes" /\ loop[t] # "none"
      BY <1>1, <1>3, <3>1 DEF FrameOK
    <3>3. m \in Nat /\ n \in 0 .. Largest
      BY <1>0, <1>1, GotLen DEF Frame
    <3> QED BY <3>2, <3>3
  <2>2. got' = [got EXCEPT ![t] = Append(@, n)]
    BY <1>3 DEF ReceiveChunk
  <2>3. /\ got'[t] = Append(got[t], n) /\ \A u \in Transfer \ {t} : got'[u] = got[u]
        /\ got[t] \in Seq(1 .. Largest)
    BY <1>0, <2>2 DEF TypeOK
  <2>4. /\ got'[t] \in Seq(1 .. Largest) /\ Len(got'[t]) = m + 1 /\ got'[t][m + 1] = m + 1
        /\ \A i \in 1 .. m : got'[t][i] = got[t][i]
    BY <2>1, <2>3, AppendFacts
  <2>5. got'[t] = [i \in 1 .. Len(got'[t]) |-> i]
    <3>1. \A i \in 1 .. m : got[t][i] = i
      BY DEF IInv, DeliveredWhole
    <3>2. DOMAIN got'[t] = 1 .. Len(got'[t])
      BY <2>4, LenProperties
    <3>3. \A i \in 1 .. Len(got'[t]) : got'[t][i] = i
      BY <2>1, <2>4, <3>1
    <3>4. got'[t] = [i \in 1 .. Len(got'[t]) |-> got'[t][i]]
      BY <2>4, <3>2
    <3> QED BY <3>3, <3>4
  <2> DEFINE f == Msg("ack", t, Len(got'[t]))
  <2>6. f \in Frame /\ f.kind = "ack" /\ f.of = t /\ f.n = Len(got'[t])
    BY <2>1, <2>4, MsgType
  <2>7. /\ acked' = acked \/ acked' = [acked EXCEPT ![t] = Len(got'[t])]
        /\ toS' \in Seq(Frame) /\ (toS' = toS \/ toS' = Append(toS, f))
    <3>1. CASE acked' = [acked EXCEPT ![t] = Len(got'[t])] /\ Reply(f)
      BY <1>0, <2>6, <3>1, ReplyFacts
    <3>2. CASE UNCHANGED <<acked, toS>>
      BY <1>0, <3>2 DEF TypeOK
    <3> QED BY <1>3, <3>1, <3>2 DEF ReceiveChunk
  <2> HIDE DEF n, m, f
  <2>8. TypeOK'
    <3>1. got' \in [Transfer -> Seq(1 .. Largest)]
      BY <1>0, <2>2, <2>3, <2>4 DEF TypeOK
    <3>2. acked' \in [Transfer -> 0 .. Largest]
      <4>1. Len(got'[t]) \in 0 .. Largest
        BY <2>1, <2>4
      <4> QED BY <1>0, <2>7, <4>1 DEF TypeOK
    <3> QED BY <1>0, <1>1, <2>7, <3>1, <3>2 DEF TypeOK
  <2>9. \A u \in Transfer : Len(got[u]) <= Len(got'[u])
    BY <2>1, <2>3, <2>4, <1>0, GotLen DEF m
  <2>10. AnswerInv'
    <3>1. ReplyOK(f)
      <4>1. Len(got'[t]) <= Len(got'[t])
        BY <2>1, <2>4
      <4> QED BY <2>6, <4>1 DEF ReplyOK
    <3> QED BY <1>0, <2>6, <2>7, <2>8, <2>9, <3>1, AnswerStep
  <2>11. ASSUME NEW u \in Transfer PROVE Gains(u)
    <3>1. CASE u # t
      BY <1>0, <2>3, <3>1, Aside
    <3>2. CASE u = t
      <4>1. ReceiverOK(t)' /\ inc'[t] # "complete" /\ inc'[t] = "active"
        BY <1>0, <1>3, Typed DEF ReceiverOK
      <4> QED BY <1>0, <2>1, <2>4, <2>5, <2>9, <3>2, <4>1 DEF Gains
    <3> QED BY <3>1, <3>2
  <2>12. WireInv' /\ \A u \in Transfer : TopOK(u)' /\ FedOK(u)'
    <3>1. Len(got'[t]) = Len(got[t]) + 1
      BY <2>4 DEF m
    <3> QED BY <1>0, <1>1, <2>3, <2>8, <3>1, TakenWire
  <2> QED BY <1>0, <2>8, <2>10, <2>11, <2>12, ReceiverStep
<1> QED BY <1>2, <1>3

LEMMA ReceiveCompleteStep == ASSUME IInv, NEW t \in Transfer, ReceiveComplete(t) PROVE IInv'
<1>0. /\ TypeOK /\ Receive("complete", t)
      /\ UNCHANGED <<size, loop, out, sent, confirmed, abandoned, got, acked, prompt, said, buf, chan>>
  BY Typed DEF ReceiveComplete, senderVars
<1>1. /\ chan["receiver"] = "open" /\ Shifts /\ 1 \in 1 .. Len(Wire) /\ Wire[1].kind = "complete"
      /\ Wire[1].of = t /\ FrameOK(1) /\ net' \in Seq(Frame)
  BY <1>0, ReceiveFacts
<1>2. loop[t] # "none" /\ out[t] = "complete" /\ said[t] = "yes"
  BY <1>1 DEF FrameOK
<1> DEFINE f == Msg("ack", t, size[t])
<1>3. f \in Frame /\ f.kind = "ack" /\ f.of = t /\ f.n = size[t]
  BY <1>0, MsgType DEF TypeOK
<1> HIDE DEF f
<1>4. /\ inc' \in [Transfer -> Status] /\ \A u \in Transfer \ {t} : inc'[u] = inc[u]
      /\ toS' \in Seq(Frame) /\ (toS' = toS \/ (toS' = Append(toS, f) /\ Len(got[t]) = size[t]))
      /\ inc[t] \in Final => inc'[t] = inc[t]
      /\ inc'[t] \notin Live
      /\ inc'[t] # inc[t] => inc'[t] \in {"complete", "failed"}
      /\ inc'[t] = "complete" /\ inc[t] # "complete" => Len(got[t]) = size[t]
  <2>1. CASE ~Receiving(t) /\ UNCHANGED <<inc, toS>>
    BY <1>0, <2>1 DEF TypeOK, Receiving, Live, Final
  <2>2. CASE /\ Receiving(t) /\ Len(got[t]) = size[t]
             /\ inc' = [inc EXCEPT ![t] = "complete"] /\ Reply(f)
    <3>1. toS' \in Seq(Frame) /\ (toS' = toS \/ toS' = Append(toS, f))
      BY <1>0, <1>3, <2>2, ReplyFacts
    <3> QED BY <1>0, <2>2, <3>1 DEF TypeOK, Receiving, Live, Final, Status
  <2>3. CASE Receiving(t) /\ inc' = [inc EXCEPT ![t] = "failed"] /\ UNCHANGED toS
    BY <1>0, <2>3 DEF TypeOK, Receiving, Live, Final, Status
  <2> QED BY <2>1, <2>2, <2>3 DEF ReceiveComplete, f
<1>5. TypeOK'
  BY <1>0, <1>1, <1>4 DEF TypeOK
<1>6. \A u \in Transfer : Len(got[u]) <= Len(got'[u])
  BY <1>0, GotLen
<1>7. AnswerInv'
  <2>1. \A u \in Transfer : inc[u] \in Final => inc'[u] \in Final
    BY <1>4
  <2>2. Len(got[t]) = size[t] => ReplyOK(f)
    <3>1. Len(got'[t]) = Len(got[t]) /\ Len(got[t]) <= Len(got'[t])
      BY <1>0, <1>6
    <3> QED BY <1>3, <3>1 DEF ReplyOK
  <2> QED BY <1>0, <1>3, <1>4, <1>5, <1>6, <2>1, <2>2, AnswerStep
<1>8. ASSUME NEW u \in Transfer PROVE Gains(u)
  <2>1. CASE u # t
    BY <1>0, <1>4, <2>1, Aside
  <2>2. CASE u = t
    <3>1. /\ got[t] = [i \in 1..Len(got[t]) |-> i] /\ Len(got[t]) <= sent[t]
          /\ inc[t] = "complete" => Len(got[t]) = size[t]
      BY DEF IInv, DeliveredWhole
    <3>2. inc[t] # "none" /\ prompt # t
      BY <1>0, <1>2, Typed DEF ReceiverOK
    <3>3. ReceiverOK(t)'
      BY <1>0, <1>2, <1>4, <3>2 DEF ReceiverOK, Live
    <3> QED BY <1>0, <1>2, <1>4, <1>6, <2>2, <3>1, <3>3 DEF Gains
  <2> QED BY <2>1, <2>2
<1>9. WireInv' /\ \A u \in Transfer : TopOK(u)' /\ FedOK(u)'
  BY <1>0, <1>1, <1>4, <1>5, TakenWire
<1> QED BY <1>0, <1>5, <1>7, <1>8, <1>9, ReceiverStep

(* A reception is settled, or was already, and nothing is answered.        *)
LEMMA SettledReception ==
  ASSUME IInv, NEW t \in Transfer, NEW status \in {"cancelled", "failed"},
         UNCHANGED <<loop, size, out, sent, got, said>>, prompt' \in {prompt, None},
         inc'[t] = IF Receiving(t) THEN status ELSE inc[t]
  PROVE  Gains(t) /\ (inc[t] \in Final => inc'[t] \in Final) /\ inc'[t] \notin Live
<1>1. /\ TypeOK /\ got[t] = [i \in 1..Len(got[t]) |-> i] /\ Len(got[t]) <= sent[t]
      /\ inc[t] = "complete" => Len(got[t]) = size[t] /\ out[t] = "complete"
      /\ got[t] # <<>> \/ inc[t] \in {"active", "complete"} => said[t] = "yes"
  BY Typed DEF IInv, DeliveredWhole, ConsentGated
<1>2. Len(got[t]) <= Len(got'[t])
  BY <1>1, GotLen
<1>3. (inc[t] \in Final => inc'[t] \in Final) /\ inc'[t] \notin Live
  BY DEF Final, Receiving, Live
<1>4. /\ inc[t] = "none" => inc'[t] = "none"
      /\ inc[t] # "none" => inc'[t] # "none"
      /\ inc'[t] = "complete" => inc[t] = "complete"
      /\ inc[t] \in {"pending", "cancelled", "failed"} => inc'[t] \in {"cancelled", "failed"}
      /\ inc'[t] # "pending" /\ inc'[t] # "active"
  BY DEF Receiving, Live
<1>5. ReceiverOK(t)'
  <2>1. prompt' = t => prompt = t
    BY Sizes
  <2> QED BY <1>4, <2>1, Typed DEF ReceiverOK
<1>6. loop[t] = "none" => inc'[t] = "none"
  BY <1>4, Typed DEF SenderOK
<1> QED BY <1>1, <1>2, <1>3, <1>4, <1>5, <1>6 DEF Gains

LEMMA ReceiveCancelStep == ASSUME IInv, NEW t \in Transfer, ReceiveCancel(t) PROVE IInv'
<1>0. /\ TypeOK /\ Receive("cancel", t)
      /\ UNCHANGED <<size, loop, out, sent, confirmed, abandoned, got, acked, prompt, said, buf, toS, chan>>
      /\ inc' = IF Receiving(t) THEN [inc EXCEPT ![t] = "cancelled"] ELSE inc
  BY Typed DEF ReceiveCancel, senderVars
<1>1. /\ chan["receiver"] = "open" /\ Shifts /\ 1 \in 1 .. Len(Wire) /\ Wire[1].kind = "cancel"
      /\ Wire[1].of = t /\ net' \in Seq(Frame)
  BY <1>0, ReceiveFacts
<1>2. /\ inc' \in [Transfer -> Status] /\ \A u \in Transfer \ {t} : inc'[u] = inc[u]
      /\ inc'[t] = IF Receiving(t) THEN "cancelled" ELSE inc[t]
  BY <1>0 DEF TypeOK, Status, Final
<1>3. TypeOK'
  BY <1>0, <1>1, <1>2 DEF TypeOK
<1>4. Gains(t) /\ (inc[t] \in Final => inc'[t] \in Final) /\ inc'[t] \notin Live
  BY <1>0, <1>2, SettledReception
<1>5. \A u \in Transfer : Gains(u)
  BY <1>0, <1>2, <1>4, Aside
<1>6. AnswerInv'
  <2>1. \A u \in Transfer : inc[u] \in Final => inc'[u] \in Final
    BY <1>2, <1>4
  <2>2. \A u \in Transfer : Len(got[u]) <= Len(got'[u])
    BY <1>0, GotLen
  <2> QED BY <1>0, <1>3, <2>1, <2>2, AnswerStep
<1>7. WireInv' /\ \A u \in Transfer : TopOK(u)' /\ FedOK(u)'
  BY <1>0, <1>1, <1>2, <1>3, <1>4, TakenWire
<1> QED BY <1>0, <1>3, <1>5, <1>6, <1>7, ReceiverStep

LEMMA CancelReceiveStep == ASSUME IInv, NEW t \in Transfer, CancelReceive(t) PROVE IInv'
<1> DEFINE f == Msg("cancel", t, 0)
<1>0. /\ TypeOK /\ Receiving(t) /\ inc' = [inc EXCEPT ![t] = "cancelled"] /\ Reply(f)
      /\ UNCHANGED <<size, loop, out, sent, confirmed, abandoned, got, acked, prompt, said, buf, net, chan>>
  BY Typed DEF CancelReceive, senderVars
<1>1. f \in Frame /\ f.kind = "cancel" /\ f.of = t
  <2>1. 0 \in 0 .. Largest
    BY Typed
  <2> QED BY <2>1, MsgType
<1> HIDE DEF f
<1>2. /\ inc' \in [Transfer -> Status] /\ \A u \in Transfer \ {t} : inc'[u] = inc[u]
      /\ inc'[t] = "cancelled"
      /\ toS' \in Seq(Frame) /\ (toS' = toS \/ toS' = Append(toS, f))
  <2>1. toS' \in Seq(Frame) /\ (toS' = toS \/ toS' = Append(toS, f))
    BY <1>0, <1>1, ReplyFacts
  <2> QED BY <1>0, <2>1 DEF TypeOK, Status, Final
<1>3. TypeOK'
  BY <1>0, <1>2 DEF TypeOK
<1>4. Gains(t) /\ (inc[t] \in Final => inc'[t] \in Final) /\ inc'[t] \notin Live
  BY <1>0, <1>2, SettledReception
<1>5. \A u \in Transfer : Gains(u)
  BY <1>0, <1>2, <1>4, Aside
<1>6. AnswerInv'
  <2>1. \A u \in Transfer : inc[u] \in Final => inc'[u] \in Final
    BY <1>2, <1>4
  <2>2. \A u \in Transfer : Len(got[u]) <= Len(got'[u])
    BY <1>0, GotLen
  <2>3. ReplyOK(f)
    BY <1>1, <1>2 DEF ReplyOK, Final
  <2> QED BY <1>0, <1>1, <1>2, <1>3, <2>1, <2>2, <2>3, AnswerStep
<1>7. WireInv' /\ \A u \in Transfer : TopOK(u)' /\ FedOK(u)'
  <2>1. inc[t] # "none"
    BY <1>0 DEF Receiving, Live
  <2>2. inc'[t] # "active" /\ inc'[t] \notin Live
    BY <1>2 DEF Live
  <2>3. \A u \in Transfer : /\ inc[u] = "none" => inc'[u] = "none"
                            /\ inc'[u] \in Live => inc[u] \in Live
                            /\ inc'[u] = "active" => inc[u] = "active"
    BY <1>2, <2>1, <2>2
  <2> QED BY <1>0, <2>3, AnswerWire
<1> QED BY <1>0, <1>3, <1>5, <1>6, <1>7, ReceiverStep

LEMMA AnswerActionStep == ASSUME IInv, NEW yes \in BOOLEAN, Answer(yes) PROVE IInv'
<1>a. PICK t \in Transfer : t = prompt
  BY Typed DEF Answer, TypeOK
<1> DEFINE f == Msg(IF yes THEN "accept" ELSE "decline", t, 0)
<1>0. /\ TypeOK /\ prompt = t /\ prompt' = None
      /\ said' = [said EXCEPT ![t] = IF yes THEN "yes" ELSE "no"]
      /\ UNCHANGED <<size, loop, out, sent, confirmed, abandoned, got, acked, buf, net, chan>>
  BY <1>a, Typed DEF Answer, senderVars
<1>1. /\ f \in Frame /\ f.kind = (IF yes THEN "accept" ELSE "decline") /\ f.of = t
  <2>1. 0 \in 0 .. Largest
    BY Typed
  <2> QED BY <1>0, <2>1, MsgType
<1>2. said[t] = "none" /\ inc[t] \in {"pending", "cancelled", "failed"} /\ t # None
  BY <1>0, Typed, Sizes DEF ReceiverOK
<1>3. /\ inc' \in [Transfer -> Status] /\ \A u \in Transfer \ {t} : inc'[u] = inc[u]
      /\ said' \in [Transfer -> {"none", "yes", "no"}] /\ \A u \in Transfer \ {t} : said'[u] = said[u]
      /\ said'[t] = (IF yes THEN "yes" ELSE "no")
      /\ toS' \in Seq(Frame)
      /\ \/ /\ Receiving(t) /\ inc'[t] = (IF yes THEN "active" ELSE "cancelled")
            /\ toS' = toS \/ toS' = Append(toS, f)
         \/ ~Receiving(t) /\ inc'[t] = inc[t] /\ toS' = toS
  <2>1. /\ said' \in [Transfer -> {"none", "yes", "no"}] /\ \A u \in Transfer \ {t} : said'[u] = said[u]
        /\ said'[t] = (IF yes THEN "yes" ELSE "no")
    BY <1>0 DEF TypeOK
  <2>2. CASE /\ Receiving(t) /\ inc' = [inc EXCEPT ![t] = IF yes THEN "active" ELSE "cancelled"]
             /\ Reply(f)
    <3>1. toS' \in Seq(Frame) /\ (toS' = toS \/ toS' = Append(toS, f))
      BY <1>0, <1>1, <2>2, ReplyFacts
    <3> QED BY <1>0, <2>1, <2>2, <3>1 DEF TypeOK, Status, Final, Live
  <2>3. CASE ~Receiving(t) /\ UNCHANGED <<inc, toS>>
    BY <1>0, <2>1, <2>3 DEF TypeOK
  <2> QED BY <1>0, <2>2, <2>3 DEF Answer
<1> HIDE DEF f
<1>4. TypeOK'
  BY <1>0, <1>3 DEF TypeOK
<1>5. \A u \in Transfer : Len(got[u]) <= Len(got'[u])
  BY <1>0, GotLen
<1>6. AnswerInv'
  <2>1. \A u \in Transfer : /\ said[u] = "yes" => said'[u] = "yes"
                            /\ inc[u] \in Final => inc'[u] \in Final
    BY <1>2, <1>3 DEF Receiving, Live, Final
  <2>2. Receiving(t) => ReplyOK(f)
    BY <1>1, <1>3 DEF ReplyOK, Final
  <2> QED BY <1>1, <1>3, <1>4, <1>5, <2>1, <2>2, AnswerStep
<1>7. ASSUME NEW u \in Transfer PROVE Gains(u)
  <2>1. CASE u # t
    <3>1. prompt' = u <=> prompt = u
      BY <1>0, <2>1, Sizes
    <3> QED BY <1>0, <1>3, <2>1, <3>1, Aside
  <2>2. CASE u = t
    <3>1. /\ got[t] = <<>> /\ got[t] = [i \in 1..Len(got[t]) |-> i] /\ Len(got[t]) <= sent[t]
      BY <1>0, <1>2 DEF IInv, ConsentGated, DeliveredWhole
    <3>2. inc[t] # "none" /\ loop[t] # "none"
      BY <1>0, <1>2, Typed DEF SenderOK
    <3>3. inc'[t] # "none" /\ inc'[t] # "pending" /\ inc'[t] # "complete"
          /\ (inc'[t] = "active" => said'[t] = "yes")
      BY <1>2, <1>3 DEF Receiving, Live
    <3>4. ReceiverOK(t)'
      BY <1>0, <1>2, <3>3 DEF ReceiverOK
    <3> QED BY <1>0, <1>2, <1>5, <2>2, <3>1, <3>2, <3>3, <3>4 DEF Gains
  <2> QED BY <2>1, <2>2
<1>8. WireInv' /\ \A u \in Transfer : TopOK(u)' /\ FedOK(u)'
  <2>1. \A u \in Transfer : /\ said[u] = "yes" => said'[u] = "yes"
                            /\ inc[u] = "none" => inc'[u] = "none"
                            /\ inc'[u] \in Live => inc[u] \in Live
                            /\ inc'[u] = "active" => inc[u] = "active" \/ said[u] # "yes"
    BY <1>2, <1>3 DEF Receiving, Live
  <2> QED BY <1>0, <2>1, AnswerWire
<1> QED BY <1>0, <1>4, <1>6, <1>7, <1>8, ReceiverStep

-----------------------------------------------------------------------------
(* The channel.                                                            *)

(* The channel of the receiver ends.                                       *)
LEMMA ReceptionStops ==
  ASSUME IInv, NEW how \in {"closing", "closed", "dead"}, Stop("receiver", how),
         UNCHANGED <<senderVars, got, acked, said, buf>>, prompt' \in {prompt, None},
         \/ inc' = inc /\ prompt' = prompt
         \/ \E status \in {"cancelled", "failed"} :
              inc' = [t \in Transfer |-> IF Receiving(t) THEN status ELSE inc[t]]
  PROVE  IInv'
<1>0. /\ TypeOK /\ chan' = [chan EXCEPT !["receiver"] = how] /\ net' = <<>> /\ UNCHANGED toS
      /\ UNCHANGED <<size, loop, out, sent, confirmed, abandoned, got, acked, said, buf>>
      /\ "receiver" \in End
  BY Typed DEF Stop, End, senderVars
<1>1. chan'["receiver"] = how /\ chan' \in [End -> {"open", "closing", "closed", "dead"}]
  BY <1>0 DEF TypeOK
<1>2. inc' \in [Transfer -> Status] /\ prompt' \in Transfer \cup {None}
  BY <1>0 DEF TypeOK, Status, Final
<1>3. TypeOK'
  <2>1. <<>> \in Seq(Frame)
    BY EmptySeq
  <2> QED BY <1>0, <1>1, <1>2, <2>1 DEF TypeOK
<1>4. ASSUME NEW t \in Transfer PROVE Gains(t) /\ (inc[t] \in Final => inc'[t] \in Final)
  <2>1. CASE inc' = inc /\ prompt' = prompt
    BY <1>0, <2>1, Aside
  <2>2. ASSUME NEW status \in {"cancelled", "failed"},
               inc' = [u \in Transfer |-> IF Receiving(u) THEN status ELSE inc[u]]
        PROVE  Gains(t) /\ (inc[t] \in Final => inc'[t] \in Final)
    BY <1>0, <2>2, SettledReception
  <2> QED BY <2>1, <2>2
<1>5. AnswerInv'
  <2>1. \A u \in Transfer : Len(got[u]) <= Len(got'[u])
    BY <1>0, GotLen
  <2> QED BY <1>0, <1>3, <1>4, <2>1, AnswerStep
<1>6. WireInv' /\ \A u \in Transfer : TopOK(u)' /\ FedOK(u)'
  BY <1>1, ReceiverStops
<1> QED BY <1>0, <1>3, <1>4, <1>5, <1>6, ReceiverStep

LEMMA LinkBreaksStep == ASSUME IInv, NEW e \in End, LinkBreaks(e) \/ PeerGone(e) PROVE IInv'
<1>1. /\ chan[e] = "open" /\ Stop(e, "closing") /\ UNCHANGED <<senderVars, receiverVars, buf>>
  BY DEF LinkBreaks, PeerGone
<1>2. CASE e = "sender"
  BY <1>1, <1>2, SenderStops DEF senderVars, receiverVars
<1>3. CASE e = "receiver"
  BY <1>1, <1>3, ReceptionStops DEF receiverVars
<1> QED BY <1>2, <1>3 DEF End

LEMMA CloseEventStep == ASSUME IInv, NEW e \in End, CloseEvent(e) PROVE IInv'
<1>1. CASE e = "sender"
  <2>1. /\ Stop("sender", "closed") /\ FailSends /\ buf' = <<>> /\ UNCHANGED receiverVars
    BY <1>1 DEF CloseEvent
  <2> QED BY <2>1, SenderStops DEF FailSends, receiverVars
<1>2. CASE e = "receiver"
  <2>1. Stop("receiver", "closed") /\ FailReceptions /\ UNCHANGED <<senderVars, buf>>
    BY <1>2 DEF CloseEvent
  <2> QED BY <2>1, ReceptionStops DEF FailReceptions
<1> QED BY <1>1, <1>2 DEF End

LEMMA ConnectionFailsStep == ASSUME IInv, NEW e \in End, ConnectionFails(e) PROVE IInv'
<1>1. CASE e = "sender"
  <2>1. /\ chan["sender"] = "open" /\ Stop("sender", "dead") /\ FailSends
        /\ UNCHANGED receiverVars /\ UNCHANGED buf
    BY <1>1 DEF ConnectionFails
  <2> QED BY <2>1, SenderStops DEF FailSends, receiverVars
<1>2. CASE e = "receiver"
  <2>1. Stop("receiver", "dead") /\ FailReceptions /\ UNCHANGED senderVars /\ UNCHANGED buf
    BY <1>2 DEF ConnectionFails
  <2> QED BY <2>1, ReceptionStops DEF FailReceptions
<1> QED BY <1>1, <1>2 DEF End

LEMMA CloseSessionStep == ASSUME IInv, NEW e \in End, CloseSession(e) PROVE IInv'
<1>1. CASE e = "sender"
  <2>1. /\ Stop("sender", "closed") /\ AllSettled("cancelled") /\ buf' = <<>>
        /\ UNCHANGED <<size, sent, confirmed, abandoned, receiverVars>>
    BY <1>1 DEF CloseSession
  <2> QED BY <2>1, SenderStops DEF receiverVars
<1>2. CASE e = "receiver"
  <2>1. /\ Stop("receiver", "closed") /\ prompt' = None
        /\ inc' = [t \in Transfer |-> IF Receiving(t) THEN "cancelled" ELSE inc[t]]
        /\ UNCHANGED <<senderVars, got, acked, said, buf>>
    BY <1>2 DEF CloseSession
  <2> QED BY <2>1, ReceptionStops
<1> QED BY <1>1, <1>2 DEF End

-----------------------------------------------------------------------------
LEMMA InitIInv == Init => IInv
<1> SUFFICES ASSUME Init PROVE IInv
  OBVIOUS
<1>1. /\ <<>> \in Seq(Frame) /\ <<>> \in Seq(1 .. Largest) /\ HighWater \in Nat /\ Largest \in Nat
  BY EmptySeq, Sizes
<1>2. TypeOK
  BY <1>1 DEF Init, TypeOK, Status
<1>3. Wire = <<>>
  BY <1>1, ConcatEmptySeq DEF Init, Wire
<1>4. WireInv /\ AnswerInv
  BY <1>3 DEF Init, WireInv, AnswerInv
<1>5. Buffered(buf) = 0
  <2>1. ChunksIn(<<>>) = {}
    BY DEF ChunksIn
  <2> QED BY <1>1, <2>1, ChunksFinite, FS_EmptySet DEF Init
<1>6. BufferBounded
  BY <1>1, <1>5 DEF BufferBounded
<1>7. ConsentGated /\ DeliveredWhole
  BY <1>1 DEF Init, ConsentGated, DeliveredWhole
<1>8. ASSUME NEW t \in Transfer PROVE SenderOK(t) /\ ReceiverOK(t) /\ TopOK(t) /\ FedOK(t)
  <2>1. SenderOK(t) /\ ReceiverOK(t)
    BY Sizes DEF Init, SenderOK, ReceiverOK
  <2>2. TopOK(t) /\ FedOK(t)
    BY <1>3 DEF Init, TopOK, FedOK, Live
  <2> QED BY <2>1, <2>2
<1> QED BY <1>2, <1>4, <1>6, <1>7, <1>8 DEF IInv, EndsInv

LEMMA NextIInv == IInv /\ [Next]_vars => IInv'
<1> SUFFICES ASSUME IInv, [Next]_vars PROVE IInv'
  OBVIOUS
<1>1. ASSUME NEW t \in Transfer, Sender(t) PROVE IInv'
  BY <1>1, SendFileStep, AcceptTimeoutStep, ReadChunkStep, ReadErrorStep, CancelSendStep,
     HearAnswerStep, HearAckStep, HearCancelStep DEF Sender
<1>2. ASSUME NEW t \in Transfer, Receiver(t) PROVE IInv'
  BY <1>2, ReceiveStartStep, ReceiveChunkStep, ReceiveCompleteStep, ReceiveCancelStep,
     CancelReceiveStep DEF Receiver
<1>3. ASSUME NEW yes \in BOOLEAN, Answer(yes) PROVE IInv'
  BY <1>3, AnswerActionStep
<1>4. CASE Drain
  BY <1>4, DrainStep
<1>5. ASSUME NEW e \in End, Channel(e) PROVE IInv'
  BY <1>5, LinkBreaksStep, CloseEventStep, ConnectionFailsStep, CloseSessionStep DEF Channel
<1>6. CASE UNCHANGED vars
  <2>1. UNCHANGED <<size, loop, out, sent, confirmed, abandoned, inc, got, acked, prompt, said>>
        /\ UNCHANGED <<buf, net, toS, chan>>
    BY <1>6 DEF vars, senderVars, receiverVars
  <2>2. TypeOK'
    BY <2>1, Typed DEF TypeOK
  <2>3. WireMoves /\ BufferBounded'
    BY <2>1, WireSame
  <2>4. AnswerInv'
    BY <2>1, <2>2, NoAnswer
  <2>5. \A u \in Transfer : Moves(u)
    BY <2>1, Bystander
  <2> QED BY <2>1, <2>2, <2>3, <2>4, <2>5, SenderStep DEF IsOpen
<1> QED BY <1>1, <1>2, <1>3, <1>4, <1>5, <1>6 DEF Next

LEMMA IInvAlways == Spec => []IInv
BY InitIInv, NextIInv, PTL DEF Spec

-----------------------------------------------------------------------------
(* Every variable keeps its type, whatever the steps of the two panels and *)
(* of the channel.                                                         *)
THEOREM TypeCorrect == Spec => []TypeOK
BY IInvAlways, PTL DEF IInv

(* No chunk of a file leaves the sender, and none is kept, before the      *)
(* human at the receiver said yes to it (useSharing.ts askConsent,         *)
(* transfer.ts handleStart and handleBinary).                              *)
THEOREM Consented == Spec => []ConsentGated
BY IInvAlways, PTL DEF IInv

(* What is kept is the beginning of the file in order; a file is handed    *)
(* over only when it is whole and the sender counts it as sent             *)
(* (transfer.ts handleBinary and handleComplete).                          *)
THEOREM Whole == Spec => []DeliveredWhole
BY IInvAlways, PTL DEF IInv

(* The channel never buffers more than one chunk above HIGH_WATER          *)
(* (transfer.ts sendChunk).                                                *)
THEOREM Bounded == Spec => []BufferBounded
BY IInvAlways, PTL DEF IInv

(* A transfer in progress at the receiver is one the sender is still       *)
(* sending, or its last word is on the way, unless the sender gave it up   *)
(* without one (transfer.ts waitForAccept and streamFile).                 *)
THEOREM ReceptionsFed == Spec => []ReceptionIsFed
<1>1. IInv => ReceptionIsFed
  <2> SUFFICES ASSUME IInv, NEW t \in Transfer, inc[t] = "active", \A e \in End : chan[e] = "open",
                      ~Sending(t), t \notin abandoned
               PROVE  LastWordComing(t)
    BY DEF ReceptionIsFed, Fed
  <2>1. PICK i \in 1 .. Len(Wire) : Wire[i].of = t /\ Wire[i].kind \in {"complete", "cancel"}
    BY Typed DEF FedOK, Live
  <2>2. DOMAIN Wire = 1 .. Len(Wire)
    BY Typed, WireType, LenProperties
  <2> QED BY <2>1, <2>2 DEF LastWordComing, Wire
<1> QED BY <1>1, IInvAlways, PTL

(* A settled record stays as it was settled at both ends, whatever answer, *)
(* cancel, close or timer comes late (transfer.ts settleOutgoing and       *)
(* settleIncoming).                                                        *)
THEOREM SettlesOnce == Spec => SettledOnce
<1> DEFINE Keeps == \A t \in Transfer : /\ out[t] \in Final => out'[t] = out[t]
                                        /\ inc[t] \in Final => inc'[t] = inc[t]
<1>1. ASSUME IInv, Next PROVE Keeps
  <2>0. TypeOK /\ \A t \in Transfer : SenderOK(t) /\ ReceiverOK(t)
    BY <1>1, Typed
  <2>1. ASSUME NEW t \in Transfer, Sender(t) PROVE Keeps
    <3>1. UNCHANGED inc
      BY <2>1 DEF Sender, SendFile, AcceptTimeout, ReadChunk, ReadError, CancelSend, HearAnswer,
                  HearAck, HearCancel, receiverVars
    <3>2. out' = out \/ (out[t] \notin Final /\ \E status \in Status : out' = [out EXCEPT ![t] = status])
      <4>1. CASE SendFile(t)
        BY <2>0, <4>1 DEF SendFile, SenderOK, Final, Status, Live
      <4>2. CASE AcceptTimeout(t)
        BY <2>0, <4>2 DEF AcceptTimeout, Settled, SenderOK, Final, Status, Live
      <4>3. CASE ReadChunk(t) \/ ReadError(t)
        BY <2>0, <4>3 DEF ReadChunk, ReadError, Sending, Final, Status, Live
      <4>4. CASE CancelSend(t)
        BY <2>0, <4>4 DEF CancelSend, Settled, Sending, Final, Status, Live
      <4>5. CASE HearAnswer(t)
        BY <2>0, <4>5 DEF HearAnswer, Settled, SenderOK, Final, Status, Live
      <4>6. CASE HearAck(t)
        BY <4>6 DEF HearAck
      <4>7. CASE HearCancel(t)
        BY <2>0, <4>7 DEF HearCancel, Settled, Sending, Final, Status, Live
      <4> QED BY <2>1, <4>1, <4>2, <4>3, <4>4, <4>5, <4>6, <4>7 DEF Sender
    <3> QED BY <2>0, <3>1, <3>2 DEF TypeOK
  <2>2. ASSUME NEW t \in Transfer, Receiver(t) PROVE Keeps
    <3>1. UNCHANGED out
      BY <2>2 DEF Receiver, ReceiveStart, ReceiveChunk, ReceiveComplete, ReceiveCancel,
                  CancelReceive, senderVars
    <3>2. inc' = inc \/ (inc[t] \notin Final /\ \E status \in Status : inc' = [inc EXCEPT ![t] = status])
      <4>1. CASE ReceiveStart(t)
        <5>1. Receive("start", t) /\ UNCHANGED buf
          BY <4>1 DEF ReceiveStart
        <5>2. inc[t] = "none"
          BY <1>1, <5>1, ReceiveFacts DEF FrameOK
        <5> QED BY <4>1, <5>2 DEF ReceiveStart, Final, Status, Live
      <4>2. CASE ReceiveChunk(t)
        BY <4>2 DEF ReceiveChunk
      <4>3. CASE ReceiveComplete(t)
        BY <4>3 DEF ReceiveComplete, Receiving, Final, Status, Live
      <4>4. CASE ReceiveCancel(t) \/ CancelReceive(t)
        BY <4>4 DEF ReceiveCancel, CancelReceive, Receiving, Final, Status, Live
      <4> QED BY <2>2, <4>1, <4>2, <4>3, <4>4 DEF Receiver
    <3> QED BY <2>0, <3>1, <3>2 DEF TypeOK
  <2>3. ASSUME NEW yes \in BOOLEAN, Answer(yes) PROVE Keeps
    <3>1. /\ UNCHANGED out
          /\ \/ inc' = inc
             \/ \E status \in Status : inc[prompt] \in Live /\ inc' = [inc EXCEPT ![prompt] = status]
      BY <2>3 DEF Answer, senderVars, Receiving, Status, Final, Live
    <3> QED BY <2>0, <3>1 DEF TypeOK, Live, Final
  <2>4. CASE Drain
    <3>1. UNCHANGED inc
      BY <2>4 DEF Drain, receiverVars
    <3>2. \/ UNCHANGED out
          \/ \E t \in Transfer : out[t] \in Live /\ out' = [out EXCEPT ![t] = "failed"]
      BY <2>0, <2>4 DEF Drain, Woken, Settled, SenderOK, Sending
    <3> QED BY <2>0, <3>1, <3>2 DEF TypeOK, Live, Final
  <2>5. ASSUME NEW e \in End, Channel(e) PROVE Keeps
    <3>1. out' = out \/ \E status \in Status : AllSettled(status)
      BY <2>5 DEF Channel, LinkBreaks, PeerGone, CloseEvent, ConnectionFails, CloseSession,
         FailSends, Status, Final, senderVars
    <3>2. \/ inc' = inc
          \/ \E status \in Status : inc' = [t \in Transfer |-> IF Receiving(t) THEN status ELSE inc[t]]
      BY <2>5 DEF Channel, LinkBreaks, PeerGone, CloseEvent, ConnectionFails, CloseSession,
         FailReceptions, Status, Final, receiverVars
    <3>3. \A t \in Transfer : out[t] \in Final => out'[t] = out[t]
      BY <3>1 DEF AllSettled, Sending, Live, Final
    <3>4. \A t \in Transfer : inc[t] \in Final => inc'[t] = inc[t]
      BY <3>2 DEF Receiving, Live, Final
    <3> QED BY <3>3, <3>4
  <2> QED BY <1>1, <2>1, <2>2, <2>3, <2>4, <2>5 DEF Next
<1>2. IInv /\ [Next]_vars => [Keeps]_vars
  BY <1>1
<1>3. Spec => [][Keeps]_vars
  BY <1>2, IInvAlways, PTL DEF Spec
<1> QED BY <1>3 DEF SettledOnce
=============================================================================
