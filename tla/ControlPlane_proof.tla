-------------------------- MODULE ControlPlane_proof --------------------------
(***************************************************************************)
(* The safety properties of ControlPlane for any number of panels and      *)
(* callbacks and any queue size.  A panel that lives is owed exactly what  *)
(* is in its queue and what some goroutine is just handing it; the         *)
(* inductive invariant adds who may be handing what, so that no frame is   *)
(* ever owed a second time while the first is still on its way.            *)
(***************************************************************************)
EXTENDS ControlPlane, SequenceTheorems, TLAPS

First(a) == <<a, "first">>
List(a)  == <<a, "devices">>

Pusher == Panel \cup Event

(* A panel that has not come yet is known to nobody.                       *)
NewInv ==
  \A c \in Panel : conn[c] = "new" =>
    /\ send[c] = <<>> /\ owed[c] = {} /\ c \notin hub
    /\ c \notin writing /\ reader[c] = "none"
    /\ \A a \in Actor : c \notin job[a].to

(* What a goroutine has left to push is its own: one frame, or the result  *)
(* of a pairing and then the device list, which nobody is owed yet.        *)
JobOK(a) ==
  /\ job[a].to # {} => job[a].left # <<>>
  /\ job[a].left # <<>> => Head(job[a].left) \in {First(a), List(a)}
  /\ Len(job[a].left) > 1 =>
       /\ Tail(job[a].left) = <<List(a)>>
       /\ \A c \in Panel : List(a) \notin owed[c]

JobInv == /\ \A a \in Pusher : JobOK(a)
          /\ job[Main].to # {} => run # "serving"

(* A callback that has not begun owes nobody, and a request that is in     *)
(* the peer layer has not been answered yet.                               *)
OwedInv ==
  /\ \A e \in Event \ fired : /\ job[e] = NoJob
                              /\ \A c \in Panel : First(e) \notin owed[c] /\ List(e) \notin owed[c]
  /\ \A c \in Panel : reader[c] = "call" => job[c] = NoJob /\ First(c) \notin owed[c]

(* What a live panel is owed is queued once or being handed over, and not  *)
(* both; a result it is still owed is queued in front of its list.         *)
QueueOK(c) ==
  /\ ToSet(send[c]) \cup ToCome(c) = owed[c] /\ IsInjective(send[c])
  /\ \A a \in Actor : c \in job[a].to => Head(job[a].left) \notin ToSet(send[c])
  /\ \A e \in Results : First(e) \in owed[c] =>
       \A i \in 1 .. Len(send[c]) : send[c][i] = List(e) =>
         \E j \in 1 .. Len(send[c]) : j <= i /\ send[c][j] = First(e)

QueueInv == \A c \in Panel : Live(c) => QueueOK(c)

IInv == TypeOK /\ NewInv /\ JobInv /\ OwedInv /\ QueueInv

-----------------------------------------------------------------------------
(* Frames and sequences.                                                   *)

LEMMA FrameFacts ==
  /\ \A a \in Pusher : First(a) \in Frame /\ List(a) \in Frame
  /\ \A a, b \in Pusher : First(a) # List(b)
  /\ \A a, b \in Pusher : First(a) = First(b) => a = b
  /\ \A a, b \in Pusher : List(a) = List(b) => a = b
  /\ Pusher \subseteq Actor /\ Main \in Actor /\ Main \notin Pusher /\ Panel \subseteq Pusher
  /\ Event \subseteq Pusher /\ Actor = Pusher \cup {Main} /\ Results \subseteq Event
  /\ SendBuffer \in Nat /\ SendBuffer > 0 /\ Panel \cap Event = {} /\ None \notin Panel
BY PanelAssumption DEF First, List, Frame, Pusher, Actor

(* The lists of frames a goroutine may be given to push.                   *)
LEMMA ListFacts ==
  ASSUME NEW x, NEW y
  PROVE  /\ <<x>> # <<>> /\ Len(<<x>>) = 1 /\ Head(<<x>>) = x
         /\ <<x, y>> # <<>> /\ Len(<<x, y>>) = 2 /\ Head(<<x, y>>) = x /\ Tail(<<x, y>>) = <<y>>
         /\ Len(<<>>) = 0
OBVIOUS

LEMMA ListTypes ==
  ASSUME NEW S, NEW x \in S, NEW y \in S
  PROVE  <<x>> \in Seq(S) /\ <<x, y>> \in Seq(S) /\ <<>> \in Seq(S)
OBVIOUS

LEMMA TailType ==
  ASSUME NEW S, NEW s \in Seq(S), s # <<>>
  PROVE  /\ Head(s) \in S /\ Tail(s) \in Seq(S) /\ Len(s) \in Nat /\ Len(s) >= 1
         /\ Head(s) = s[1] /\ Len(Tail(s)) = Len(s) - 1
         /\ \A i \in 1 .. Len(s) - 1 : Tail(s)[i] = s[i + 1]
<1>1. Len(s) \in Nat /\ Len(s) >= 1
  BY EmptySeq, LenProperties
<1> QED BY <1>1, HeadTailProperties, ElementOfSeq

(* Putting a new frame at the end of a queue.                              *)
LEMMA QueueAppend ==
  ASSUME NEW S, NEW s \in Seq(S), NEW x \in S
  PROVE  /\ Append(s, x) \in Seq(S) /\ Len(s) \in Nat /\ Len(Append(s, x)) = Len(s) + 1
         /\ Append(s, x)[Len(s) + 1] = x /\ \A i \in 1 .. Len(s) : Append(s, x)[i] = s[i]
         /\ ToSet(Append(s, x)) = ToSet(s) \cup {x}
         /\ IsInjective(s) /\ x \notin ToSet(s) => IsInjective(Append(s, x))
<1> DEFINE r == Append(s, x)
           n == Len(s)
<1>1. /\ r \in Seq(S) /\ n \in Nat /\ Len(r) = n + 1 /\ r[n + 1] = x
      /\ \A i \in 1 .. n : r[i] = s[i]
  BY AppendProperties, LenProperties
<1>2. DOMAIN s = 1 .. n /\ DOMAIN r = 1 .. (n + 1)
  <2>1. DOMAIN r = 1 .. Len(r) /\ DOMAIN s = 1 .. Len(s)
    BY <1>1, LenProperties
  <2> QED BY <1>1, <2>1
<1> HIDE DEF r, n
<1>3. \A i \in 1 .. (n + 1) : i \in 1 .. n \/ i = n + 1
  BY <1>1
<1>4. \A i \in 1 .. n : i \in 1 .. (n + 1) /\ i # n + 1
  BY <1>1
<1>5. n + 1 \in 1 .. (n + 1)
  BY <1>1
<1>6. ToSet(r) = ToSet(s) \cup {x}
  BY <1>1, <1>2, <1>3, <1>4, <1>5 DEF ToSet
<1>7. ASSUME IsInjective(s), x \notin ToSet(s) PROVE IsInjective(r)
  <2> SUFFICES ASSUME NEW i \in 1 .. (n + 1), NEW j \in 1 .. (n + 1), r[i] = r[j] PROVE i = j
    BY <1>2 DEF IsInjective
  <2>1. \A k \in 1 .. n : s[k] # x
    BY <1>2, <1>7 DEF ToSet
  <2> QED BY <1>1, <1>2, <1>3, <1>7, <2>1 DEF IsInjective
<1> QED BY <1>1, <1>6, <1>7 DEF r, n

(* Taking the first frame off a queue.                                     *)
LEMMA QueueTail ==
  ASSUME NEW S, NEW s \in Seq(S), s # <<>>, IsInjective(s)
  PROVE  /\ Head(s) \in ToSet(s) /\ ToSet(Tail(s)) = ToSet(s) \ {Head(s)} /\ IsInjective(Tail(s))
<1> DEFINE r == Tail(s)
           n == Len(s)
<1>1. /\ r \in Seq(S) /\ n \in Nat /\ n >= 1 /\ Len(r) = n - 1 /\ Head(s) = s[1]
      /\ \A i \in 1 .. n - 1 : r[i] = s[i + 1]
  BY TailType
<1>2. DOMAIN s = 1 .. n /\ DOMAIN r = 1 .. (n - 1)
  <2>1. DOMAIN r = 1 .. Len(r) /\ DOMAIN s = 1 .. Len(s)
    BY <1>1, LenProperties
  <2> QED BY <1>1, <2>1
<1> HIDE DEF r, n
<1>3. \A i \in 1 .. n : i = 1 \/ (i - 1 \in 1 .. (n - 1) /\ (i - 1) + 1 = i)
  BY <1>1
<1>4. \A i \in 1 .. (n - 1) : i + 1 \in 1 .. n /\ i + 1 # 1
  BY <1>1
<1>5. 1 \in 1 .. n
  BY <1>1
<1>6. \A i \in 1 .. n : s[i] = s[1] => i = 1
  BY <1>2, <1>5 DEF IsInjective
<1>7. \A i \in 1 .. n : i # 1 => r[i - 1] = s[i]
  BY <1>1, <1>3
<1>8. ToSet(r) = ToSet(s) \ {s[1]}
  <2>1. \A y \in ToSet(r) : y \in ToSet(s) /\ y # s[1]
    BY <1>1, <1>2, <1>4, <1>6 DEF ToSet
  <2>2. \A y \in ToSet(s) : y # s[1] => y \in ToSet(r)
    BY <1>2, <1>3, <1>7 DEF ToSet
  <2> QED BY <2>1, <2>2
<1>9. IsInjective(r)
  <2> SUFFICES ASSUME NEW i \in 1 .. (n - 1), NEW j \in 1 .. (n - 1), r[i] = r[j] PROVE i = j
    BY <1>2 DEF IsInjective
  <2>1. i + 1 \in 1 .. n /\ j + 1 \in 1 .. n /\ s[i + 1] = s[j + 1]
    BY <1>1, <1>4
  <2>2. i + 1 = j + 1
    BY <1>2, <2>1 DEF IsInjective
  <2> QED BY <2>2
<1>10. s[1] \in ToSet(s)
  BY <1>2, <1>5 DEF ToSet
<1> QED BY <1>1, <1>8, <1>9, <1>10 DEF r

-----------------------------------------------------------------------------
(* What a step does to the queues.                                         *)

LEMMA Typed ==
  ASSUME IInv
  PROVE  /\ TypeOK /\ \A c \in Panel : Live(c) => QueueOK(c)
         /\ \A a \in Pusher : JobOK(a)
         /\ \A a \in Actor : job[a].left \in Seq(Frame) /\ job[a].to \in SUBSET Panel
         /\ \A c \in Panel : conn[c] = "new" => ~Live(c)
BY DEF IInv, QueueInv, JobInv, TypeOK, Live

(* Nothing happens to the queue of c, nor to what is being handed to it.   *)
Same(c) ==
  /\ send'[c] = send[c] /\ owed'[c] = owed[c]
  /\ \A a \in Actor : /\ c \in job'[a].to <=> c \in job[a].to
                      /\ c \in job[a].to => Head(job'[a].left) = Head(job[a].left)

LEMMA QueueSame ==
  ASSUME IInv, NEW c \in Panel, Live(c), Same(c)
  PROVE  QueueOK(c)'
<1>1. ToCome(c)' = ToCome(c)
  BY DEF ToCome, Same
<1>2. QueueOK(c)
  BY Typed
<1> QED BY <1>1, <1>2 DEF QueueOK, Same

(* A step that pushes nothing.                                             *)
LEMMA CalmStep ==
  ASSUME IInv, TypeOK', UNCHANGED <<job, fired>>, run' = "serving" => run = "serving",
         \A c \in Panel :
           /\ owed'[c] \subseteq owed[c]
           /\ reader'[c] = "call" => reader[c] = "call" \/ (job[c] = NoJob /\ First(c) \notin owed[c])
           /\ conn'[c] = "new" => /\ conn[c] = "new" /\ send'[c] = <<>> /\ c \notin hub'
                                  /\ c \notin writing' /\ reader'[c] = "none"
           /\ Live(c)' => \/ conn[c] = "new" /\ send'[c] = send[c]
                          \/ Live(c) /\ send'[c] = send[c] /\ owed'[c] = owed[c]
                          \/ QueueOK(c)'
  PROVE  IInv'
<1>1. NewInv'
  BY DEF IInv, NewInv
<1>2. JobInv'
  <2>1. \A a \in Pusher : JobOK(a)'
    BY Typed DEF JobOK
  <2> QED BY <2>1 DEF IInv, JobInv
<1>3. OwedInv'
  BY DEF IInv, OwedInv
<1>4. ASSUME NEW c \in Panel, Live(c)' PROVE QueueOK(c)'
  <2>1. CASE conn[c] = "new" /\ send'[c] = send[c]
    <3>1. send'[c] = <<>> /\ owed'[c] = {} /\ \A a \in Actor : c \notin job'[a].to
      BY <2>1 DEF IInv, NewInv
    <3>2. ToCome(c)' = {}
      BY <3>1 DEF ToCome
    <3>3. ToSet(<<>>) = {} /\ IsInjective(<<>>)
      BY DEF ToSet, IsInjective
    <3> QED BY <3>1, <3>2, <3>3 DEF QueueOK
  <2>2. CASE Live(c) /\ send'[c] = send[c] /\ owed'[c] = owed[c]
    BY <2>2, QueueSame DEF Same
  <2> QED BY <1>4, <2>1, <2>2
<1> QED BY <1>1, <1>2, <1>3, <1>4 DEF IInv, QueueInv

(* A goroutine is given frames that nobody is owed yet.                    *)
LEMMA PushStep ==
  ASSUME IInv, NEW a \in Pusher, NEW frames \in Seq(Frame), NEW to \in SUBSET Panel,
         Push(a, frames, to), job[a].to = {}, frames # <<>>, Head(frames) \in {First(a), List(a)},
         Len(frames) > 1 => /\ Tail(frames) = <<List(a)>> /\ Head(frames) = First(a)
                            /\ \A c \in Panel : List(a) \notin owed[c],
         \A c \in to : Head(frames) \notin owed[c],
         Head(frames) = First(a) /\ a \in Results => \A c \in to : List(a) \notin owed[c],
         \A c \in to : conn[c] # "new",
         UNCHANGED <<conn, stuck, done, send, writing, hub, closes, mainVars>>,
         reader' \in [Panel -> Reader], fired' \subseteq Event, fired \subseteq fired',
         a \in Event => a \in fired',
         \A c \in Panel : \/ reader'[c] = reader[c] /\ (c = a => reader[c] # "call")
                          \/ reader[c] = "call" /\ reader'[c] = "read"
  PROVE  IInv'
<1> DEFINE x == Head(frames)
<1>0. /\ TypeOK /\ x \in Frame /\ a \in Actor
      /\ UNCHANGED <<run, root, parts, advert>>
      /\ \A c \in Panel : Live(c)' <=> Live(c)
  BY Typed, TailType, FrameFacts DEF mainVars, Live, Cancelled
<1>1. /\ \A b \in Actor : b # a => job'[b] = job[b]
      /\ \/ to = {} /\ Len(frames) <= 1 /\ job'[a] = NoJob
         \/ job'[a] = [left |-> frames, to |-> to]
      /\ job' \in [Actor -> [left : Seq(Frame), to : SUBSET Panel]]
  <2>1. NoJob \in [left : Seq(Frame), to : SUBSET Panel]
    BY EmptySeq DEF NoJob
  <2> QED BY <1>0, <2>1 DEF Push, TypeOK
<1>2. /\ job'[a].to = to /\ (to # {} => job'[a].left = frames)
      /\ job'[a].left = <<>> \/ job'[a].left = frames
  <2>1. NoJob.to = {} /\ NoJob.left = <<>>
    BY DEF NoJob
  <2>2. CASE to = {} /\ job'[a] = NoJob
    BY <2>1, <2>2
  <2>3. CASE job'[a] = [left |-> frames, to |-> to]
    BY <2>3
  <2> QED BY <1>1, <2>2, <2>3
<1>3. /\ owed' \in [Panel -> SUBSET Frame]
      /\ \A c \in Panel : owed'[c] = IF c \in to /\ Live(c) THEN owed[c] \cup {x} ELSE owed[c]
  BY <1>0 DEF Push, TypeOK
<1>4. \A b \in Pusher : b # a => x # First(b) /\ x # List(b)
  BY FrameFacts
<1> HIDE DEF x
<1>5. TypeOK'
  BY <1>0, <1>1, <1>3 DEF TypeOK
<1>6. NewInv'
  <2> SUFFICES ASSUME NEW c \in Panel, conn[c] = "new"
               PROVE  /\ send[c] = <<>> /\ owed'[c] = {} /\ c \notin hub
                      /\ c \notin writing /\ reader'[c] = "none"
                      /\ \A b \in Actor : c \notin job'[b].to
    BY DEF NewInv
  <2>1. /\ send[c] = <<>> /\ owed[c] = {} /\ c \notin hub
        /\ c \notin writing /\ reader[c] = "none"
        /\ \A b \in Actor : c \notin job[b].to
    BY DEF IInv, NewInv
  <2> QED BY <1>1, <1>2, <1>3, <2>1
<1>7. JobInv'
  <2>1. ASSUME NEW b \in Pusher PROVE JobOK(b)'
    <3>1. CASE b = a
      <4>1. \A c \in Panel : Len(frames) > 1 => List(a) \notin owed'[c]
        BY <1>3, FrameFacts DEF x
      <4>2. Len(<<>>) = 0
        OBVIOUS
      <4> QED BY <1>2, <3>1, <4>1, <4>2 DEF JobOK
    <3>2. CASE b # a
      <4>1. job'[b] = job[b] /\ JobOK(b)
        BY <1>1, <3>2, Typed, FrameFacts
      <4>2. \A c \in Panel : List(b) \notin owed[c] => List(b) \notin owed'[c]
        BY <1>3, <1>4, <3>2
      <4> QED BY <4>1, <4>2 DEF JobOK
    <3> QED BY <3>1, <3>2
  <2>2. job'[Main] = job[Main]
    BY <1>1, FrameFacts
  <2> QED BY <1>0, <2>1, <2>2 DEF IInv, JobInv
<1>8. OwedInv'
  <2>1. ASSUME NEW e \in Event, e \notin fired'
        PROVE  job'[e] = NoJob /\ \A c \in Panel : First(e) \notin owed'[c] /\ List(e) \notin owed'[c]
    <3>1. e # a /\ e \notin fired /\ e \in Pusher /\ e \in Actor
      BY <2>1, FrameFacts
    <3>2. job[e] = NoJob /\ \A c \in Panel : First(e) \notin owed[c] /\ List(e) \notin owed[c]
      BY <3>1 DEF IInv, OwedInv
    <3> QED BY <1>1, <1>3, <1>4, <3>1, <3>2
  <2>2. ASSUME NEW c \in Panel, reader'[c] = "call"
        PROVE  job'[c] = NoJob /\ First(c) \notin owed'[c]
    <3>1. reader[c] = "call" /\ c # a /\ c \in Pusher /\ c \in Actor
      BY <2>2, FrameFacts
    <3>2. job[c] = NoJob /\ First(c) \notin owed[c]
      BY <3>1 DEF IInv, OwedInv
    <3> QED BY <1>1, <1>3, <1>4, <3>1, <3>2
  <2> QED BY <2>1, <2>2 DEF OwedInv
<1>9. ASSUME NEW c \in Panel, Live(c) PROVE QueueOK(c)'
  <2>1. CASE c \notin to
    <3>1. Same(c)
      BY <1>1, <1>2, <1>3, <2>1 DEF Same
    <3> QED BY <1>9, <3>1, QueueSame
  <2>2. CASE c \in to
    <3>1. QueueOK(c) /\ x \notin owed[c] /\ owed'[c] = owed[c] \cup {x} /\ send'[c] = send[c]
      BY <1>3, <1>9, <2>2, Typed DEF x
    <3>2. ToCome(c)' = ToCome(c) \cup {x}
      <4>1. \A b \in Actor : c \in job'[b].to <=> c \in job[b].to \/ b = a
        BY <1>1, <1>2, <2>2
      <4>2. \A b \in Actor : c \in job'[b].to => Head(job'[b].left) = IF b = a THEN x ELSE Head(job[b].left)
        BY <1>1, <1>2, <2>2 DEF x
      <4>3. c \notin job[a].to
        OBVIOUS
      <4> QED BY <1>0, <4>1, <4>2, <4>3 DEF ToCome
    <3>3. x \notin ToSet(send[c])
      BY <3>1 DEF QueueOK
    <3>4. \A b \in Actor : c \in job'[b].to => Head(job'[b].left) \notin ToSet(send[c])
      <4>1. \A b \in Actor : b # a /\ c \in job'[b].to => c \in job[b].to /\ job'[b] = job[b]
        BY <1>1
      <4>2. Head(job'[a].left) = x
        BY <1>2, <2>2 DEF x
      <4> QED BY <3>1, <3>3, <4>1, <4>2 DEF QueueOK
    <3>5. ASSUME NEW e \in Results, First(e) \in owed'[c], NEW i \in 1 .. Len(send[c]), send[c][i] = List(e)
          PROVE  \E j \in 1 .. Len(send[c]) : j <= i /\ send[c][j] = First(e)
      <4>1. CASE First(e) \in owed[c]
        BY <3>1, <3>5, <4>1 DEF QueueOK
      <4>2. CASE First(e) = x
        <5>1. e = a /\ x = First(a)
          BY <1>4, <4>2, FrameFacts
        <5>2. List(e) \notin ToSet(send[c])
          BY <2>2, <3>1, <3>5, <5>1 DEF QueueOK, x
        <5>3. i \in DOMAIN send[c]
          BY <1>0, LenProperties DEF TypeOK
        <5> QED BY <3>5, <5>2, <5>3 DEF ToSet
      <4> QED BY <3>1, <3>5, <4>1, <4>2
    <3> QED BY <3>1, <3>2, <3>4, <3>5 DEF QueueOK
  <2> QED BY <2>1, <2>2
<1> QED BY <1>0, <1>5, <1>6, <1>7, <1>8, <1>9 DEF IInv, QueueInv

LEMMA CloseWithFacts ==
  ASSUME TypeOK, NEW a \in Actor, NEW c \in Panel, CloseWith(a, c)
  PROVE  /\ conn' \in [Panel -> {"new", "open", "closing", "closed"}]
         /\ closes' \in [Actor -> Panel \cup {None}]
         /\ \A d \in Panel : conn'[d] = conn[d] \/ conn'[d] = "closing"
<1>1. CASE UNCHANGED <<conn, closes>>
  BY <1>1 DEF TypeOK
<1>2. CASE closes' = [closes EXCEPT ![a] = c] /\ conn' = [conn EXCEPT ![c] = "closing"]
  BY <1>2 DEF TypeOK
<1> QED BY <1>1, <1>2 DEF CloseWith

(* The call for one panel of a Broadcast.                                  *)
LEMMA DeliverStep == ASSUME IInv, NEW a \in Pusher, NEW c \in Panel, Deliver(a, c) PROVE IInv'
<1> DEFINE x == Head(job[a].left)
<1>0. /\ TypeOK /\ a \in Actor /\ c \in job[a].to /\ Enqueue(a, c, x) /\ JobOK(a)
      /\ UNCHANGED <<stuck, done, reader, writing, hub, run, root, parts, advert, fired, owed>>
  BY Typed, FrameFacts DEF Deliver, mainVars
<1>1. job[a].left \in Seq(Frame) /\ job[a].left # <<>> /\ x \in Frame /\ x \in {First(a), List(a)}
  BY <1>0, Typed, TailType DEF JobOK
<1> HIDE DEF x
<1>2. /\ \A b \in Actor : b # a => job'[b] = job[b]
      /\ \/ job[a].to = {c} /\ job'[a] = NoJob
         \/ job'[a].left = job[a].left /\ job'[a].to = job[a].to \ {c}
      /\ job' \in [Actor -> [left : Seq(Frame), to : SUBSET Panel]]
  <2>1. NoJob \in [left : Seq(Frame), to : SUBSET Panel]
    BY EmptySeq DEF NoJob
  <2> DEFINE j == job[a]
             k == [left |-> j.left, to |-> j.to \ {c}]
  <2>2. j \in [left : Seq(Frame), to : SUBSET Panel]
    BY <1>0 DEF TypeOK
  <2>3. k.left = j.left /\ k.to = j.to \ {c} /\ k \in [left : Seq(Frame), to : SUBSET Panel]
    BY <2>2
  <2>4. job' = [job EXCEPT ![a] = IF j.to = {c} /\ Len(j.left) = 1 THEN NoJob ELSE k]
    BY DEF Deliver
  <2> HIDE DEF k
  <2>5. job'[a] = IF j.to = {c} /\ Len(j.left) = 1 THEN NoJob ELSE k
    BY <1>0, <2>4 DEF TypeOK
  <2>6. \A b \in Actor : b # a => job'[b] = job[b]
    BY <1>0, <2>4 DEF TypeOK
  <2>7. job' \in [Actor -> [left : Seq(Frame), to : SUBSET Panel]]
    BY <1>0, <2>1, <2>3, <2>4 DEF TypeOK
  <2> QED BY <2>3, <2>5, <2>6, <2>7
<1>3. job'[a].to = job[a].to \ {c} /\ (job'[a].left = <<>> \/ job'[a].left = job[a].left)
      /\ (job'[a].to # {} => job'[a].left = job[a].left)
  <2>1. NoJob.to = {} /\ NoJob.left = <<>>
    BY DEF NoJob
  <2> QED BY <1>2, <2>1
<1>4. /\ \/ /\ send' = [send EXCEPT ![c] = Append(@, x)] /\ ~Cancelled(c) /\ Len(send[c]) < SendBuffer
            /\ UNCHANGED <<conn, closes>>
         \/ UNCHANGED <<send, conn, closes>> /\ (Cancelled(c) \/ conn[c] = "closed")
         \/ /\ conn' = [conn EXCEPT ![c] = "closing"] /\ closes' = [closes EXCEPT ![a] = c]
            /\ UNCHANGED send
  BY <1>0 DEF Enqueue, CloseWith
<1>5. /\ send' \in [Panel -> Seq(Frame)] /\ \A d \in Panel : Len(send'[d]) <= SendBuffer
      /\ \A d \in Panel \ {c} : send'[d] = send[d]
  <2>1. CASE send' = [send EXCEPT ![c] = Append(@, x)] /\ Len(send[c]) < SendBuffer
    <3>1. Append(send[c], x) \in Seq(Frame) /\ Len(send[c]) \in Nat /\ Len(Append(send[c], x)) = Len(send[c]) + 1
      BY <1>0, <1>1, QueueAppend DEF TypeOK
    <3>2. Len(Append(send[c], x)) <= SendBuffer
      BY <2>1, <3>1, FrameFacts
    <3> QED BY <1>0, <2>1, <3>1, <3>2 DEF TypeOK
  <2>2. CASE UNCHANGED send
    BY <1>0, <2>2 DEF TypeOK
  <2> QED BY <1>4, <2>1, <2>2
<1>6. /\ conn' \in [Panel -> {"new", "open", "closing", "closed"}]
      /\ \A d \in Panel \ {c} : conn'[d] = conn[d]
      /\ conn'[c] = conn[c] \/ conn'[c] = "closing"
      /\ closes' \in [Actor -> Panel \cup {None}]
  BY <1>0, <1>4 DEF TypeOK
<1>7. TypeOK'
  BY <1>0, <1>2, <1>5, <1>6 DEF TypeOK
<1>8. NewInv'
  <2> SUFFICES ASSUME NEW d \in Panel, conn'[d] = "new"
               PROVE  /\ send'[d] = <<>> /\ owed[d] = {} /\ d \notin hub
                      /\ d \notin writing /\ reader[d] = "none"
                      /\ \A b \in Actor : d \notin job'[b].to
    BY <1>0 DEF NewInv
  <2>1. conn[d] = "new"
    BY <1>6
  <2>2. /\ send[d] = <<>> /\ owed[d] = {} /\ d \notin hub
        /\ d \notin writing /\ reader[d] = "none"
        /\ \A b \in Actor : d \notin job[b].to
    BY <2>1 DEF IInv, NewInv
  <2>3. d # c
    BY <1>0, <2>2
  <2> QED BY <1>2, <1>3, <1>5, <2>2, <2>3
<1>9. JobInv'
  <2>1. ASSUME NEW b \in Pusher PROVE JobOK(b)'
    <3>1. CASE b = a
      <4>1. Len(<<>>) = 0
        OBVIOUS
      <4> QED BY <1>0, <1>3, <3>1, <4>1 DEF JobOK
    <3>2. CASE b # a
      BY <1>0, <1>2, <3>2, Typed, FrameFacts DEF JobOK
    <3> QED BY <3>1, <3>2
  <2>2. job'[Main] = job[Main]
    BY <1>2, FrameFacts
  <2> QED BY <1>0, <2>1, <2>2 DEF IInv, JobInv
<1>10. OwedInv'
  <2>1. \A b \in Actor : job[b] = NoJob => b # a
    BY <1>0 DEF NoJob
  <2>2. \A b \in Actor : job[b] = NoJob => job'[b] = NoJob
    BY <1>2, <2>1
  <2> QED BY <1>0, <2>2, FrameFacts DEF IInv, OwedInv
<1>11. ASSUME NEW d \in Panel, Live(d)' PROVE QueueOK(d)'
  <2>1. conn[d] = "open" /\ Live(d) /\ QueueOK(d)
    BY <1>0, <1>6, <1>11, Typed DEF Live, Cancelled
  <2>2. CASE d # c
    <3>1. Same(d)
      BY <1>0, <1>2, <1>3, <1>5, <2>2 DEF Same
    <3> QED BY <2>1, <3>1, QueueSame
  <2>3. CASE d = c
    <3>1. conn'[c] = "open" /\ send' = [send EXCEPT ![c] = Append(@, x)]
      BY <1>0, <1>4, <1>11, <2>1, <2>3 DEF Live, TypeOK
    <3> DEFINE q == send[c]
               n == Len(q)
               r == Append(q, x)
    <3>2. send'[c] = r /\ q \in Seq(Frame)
      BY <1>0, <3>1 DEF TypeOK
    <3>3. /\ x \notin ToSet(q) /\ ToSet(q) \cup ToCome(c) = owed[c] /\ IsInjective(q)
          /\ \A b \in Actor : c \in job[b].to => Head(job[b].left) \notin ToSet(q)
      BY <1>0, <2>1, <2>3 DEF QueueOK, x
    <3>4. /\ n \in Nat /\ Len(r) = n + 1 /\ r[n + 1] = x /\ \A i \in 1 .. n : r[i] = q[i]
          /\ ToSet(r) = ToSet(q) \cup {x} /\ IsInjective(r)
      BY <1>1, <3>2, <3>3, QueueAppend
    <3> HIDE DEF q, n, r
    <3>5. \A b \in Actor : b # a /\ c \in job[b].to => Head(job[b].left) # x
      <4> SUFFICES ASSUME NEW b \in Actor, b # a, c \in job[b].to PROVE Head(job[b].left) # x
        OBVIOUS
      <4>1. b # Main
        BY <2>1 DEF IInv, JobInv, Live, Cancelled
      <4>2. b \in Pusher /\ Head(job[b].left) \in {First(b), List(b)}
        BY <4>1, Typed, FrameFacts DEF JobOK
      <4> QED BY <1>1, <4>2, FrameFacts
    <3>6. /\ \A b \in Actor : c \in job'[b].to <=> c \in job[b].to /\ b # a
          /\ \A b \in Actor : c \in job'[b].to => Head(job'[b].left) = Head(job[b].left)
      BY <1>2, <1>3
    <3>7. ToCome(c)' \cup {x} = ToCome(c)
      BY <1>0, <3>6 DEF ToCome, x
    <3>8. ToSet(r) \cup ToCome(c)' = owed'[c]
      BY <1>0, <3>3, <3>4, <3>7
    <3>9. \A b \in Actor : c \in job'[b].to => Head(job'[b].left) \notin ToSet(r)
      BY <3>3, <3>4, <3>5, <3>6
    <3>10. ASSUME NEW e \in Results, First(e) \in owed[c], NEW i \in 1 .. Len(r), r[i] = List(e)
           PROVE  \E j \in 1 .. Len(r) : j <= i /\ r[j] = First(e)
      <4>1. \A j \in 1 .. n : j \in 1 .. Len(r) /\ j <= n + 1
        BY <3>4
      <4>2. CASE i \in 1 .. n
        <5>1. q[i] = List(e)
          BY <3>4, <3>10, <4>2
        <5>2. PICK j \in 1 .. n : j <= i /\ q[j] = First(e)
          BY <2>1, <2>3, <3>10, <4>2, <5>1 DEF QueueOK, q, n
        <5> QED BY <3>4, <4>1, <5>2
      <4>3. CASE i = n + 1
        <5>1. x = List(e) /\ e \in Pusher
          BY <3>4, <3>10, <4>3, FrameFacts
        <5>2. a = e
          BY <1>1, <5>1, FrameFacts
        <5>3. First(e) \notin ToCome(c)
          <6> SUFFICES ASSUME NEW b \in Actor, c \in job[b].to, Head(job[b].left) = First(e) PROVE FALSE
            BY DEF ToCome
          <6>1. b = a
            <7>1. b # Main
              BY <2>1 DEF IInv, JobInv, Live, Cancelled
            <7>2. b \in Pusher /\ Head(job[b].left) \in {First(b), List(b)}
              BY <7>1, Typed, FrameFacts DEF JobOK
            <7> QED BY <5>1, <5>2, <7>2, FrameFacts
          <6> QED BY <5>1, <6>1, FrameFacts DEF x
        <5>4. First(e) \in ToSet(q)
          BY <3>3, <3>10, <5>3
        <5>5. DOMAIN q = 1 .. n
          BY <3>2, LenProperties DEF n
        <5>6. PICK j \in 1 .. n : q[j] = First(e)
          BY <5>4, <5>5 DEF ToSet
        <5> QED BY <3>4, <4>1, <4>3, <5>6
      <4> QED BY <3>4, <3>10, <4>2, <4>3
    <3> QED BY <1>0, <2>3, <3>2, <3>4, <3>8, <3>9, <3>10 DEF QueueOK
  <2> QED BY <2>2, <2>3
<1> QED BY <1>7, <1>8, <1>9, <1>10, <1>11 DEF IInv, QueueInv

(* writeLoop writes the frame at the head of the queue.                    *)
LEMMA WriteStep == ASSUME IInv, NEW c \in Panel, Write(c) PROVE IInv'
<1> DEFINE q == send[c]
           h == Head(q)
           r == Tail(q)
           n == Len(q)
<1>0. /\ TypeOK /\ Live(c) /\ QueueOK(c) /\ q # <<>> /\ q \in Seq(Frame)
      /\ owed' = [owed EXCEPT ![c] = @ \ {h}] /\ send' = [send EXCEPT ![c] = r]
      /\ UNCHANGED <<conn, stuck, done, reader, writing, hub, job, closes, run, root, parts, advert, fired>>
  BY Typed DEF Write, TypeOK, jobVars, mainVars
<1>1. /\ owed' \in [Panel -> SUBSET Frame] /\ owed'[c] = owed[c] \ {h} /\ send'[c] = r
      /\ \A d \in Panel \ {c} : owed'[d] = owed[d] /\ send'[d] = send[d]
  BY <1>0 DEF TypeOK
<1>2. /\ r \in Seq(Frame) /\ n \in Nat /\ n >= 1 /\ h = q[1] /\ Len(r) = n - 1
      /\ \A i \in 1 .. n - 1 : r[i] = q[i + 1]
  BY <1>0, TailType
<1>3. n <= SendBuffer
  BY <1>0 DEF TypeOK
<1>4. h \in ToSet(q) /\ ToSet(r) = ToSet(q) \ {h} /\ IsInjective(r)
  BY <1>0, QueueTail DEF QueueOK
<1> HIDE DEF q, h, r, n
<1>5. TypeOK'
  <2>1. Len(r) <= SendBuffer
    BY <1>2, <1>3, FrameFacts
  <2>2. \A d \in Panel : Len(send'[d]) <= SendBuffer
    BY <1>0, <1>1, <2>1 DEF TypeOK
  <2>3. send' \in [Panel -> Seq(Frame)]
    BY <1>0, <1>2 DEF TypeOK
  <2> QED BY <1>0, <1>1, <2>2, <2>3 DEF TypeOK
<1>6. QueueOK(c)'
  <2>1. /\ ToSet(q) \cup ToCome(c) = owed[c]
        /\ \A a \in Actor : c \in job[a].to => Head(job[a].left) \notin ToSet(q)
    BY <1>0 DEF QueueOK, q
  <2>2. ToCome(c)' = ToCome(c) /\ h \notin ToCome(c)
    BY <1>0, <1>4, <2>1 DEF ToCome
  <2>3. ToSet(r) \cup ToCome(c)' = owed'[c]
    BY <1>1, <1>4, <2>1, <2>2
  <2>4. ASSUME NEW e \in Results, First(e) \in owed'[c], NEW i \in 1 .. Len(r), r[i] = List(e)
        PROVE  \E j \in 1 .. Len(r) : j <= i /\ r[j] = First(e)
    <3>1. i + 1 \in 1 .. n /\ q[i + 1] = List(e) /\ First(e) \in owed[c] /\ First(e) # h
      BY <1>1, <1>2, <2>4
    <3>2. PICK j \in 1 .. n : j <= i + 1 /\ q[j] = First(e)
      BY <1>0, <3>1 DEF QueueOK, q, n
    <3>3. j # 1
      BY <1>2, <3>1, <3>2
    <3>4. j - 1 \in 1 .. n - 1 /\ j - 1 <= i /\ (j - 1) + 1 = j
      BY <1>2, <3>2, <3>3
    <3>5. r[j - 1] = First(e)
      BY <1>2, <3>2, <3>4
    <3> QED BY <1>2, <3>4, <3>5
  <2> QED BY <1>0, <1>1, <1>4, <2>1, <2>3, <2>4 DEF QueueOK
<1>7. ASSUME NEW d \in Panel
      PROVE  /\ owed'[d] \subseteq owed[d]
             /\ conn[d] = "new" => send'[d] = <<>> /\ d \notin hub /\ d \notin writing /\ reader[d] = "none"
             /\ Live(d)' => \/ Live(d) /\ send'[d] = send[d] /\ owed'[d] = owed[d]
                            \/ QueueOK(d)'
  <2>1. conn[c] = "open"
    BY <1>0 DEF Live
  <2> QED BY <1>0, <1>1, <1>6, <2>1 DEF IInv, NewInv, Live, Cancelled
<1> QED BY <1>0, <1>5, <1>7, CalmStep

-----------------------------------------------------------------------------
(* The actions.                                                            *)

LEMMA NextFrameStep == ASSUME IInv, NEW a \in Pusher, NextFrame(a) PROVE IInv'
<1> DEFINE left == job[a].left
           frames == Tail(left)
<1>1. /\ TypeOK /\ JobOK(a) /\ a \in Actor /\ left \in Seq(Frame) /\ Len(left) > 1 /\ job[a].to = {}
      /\ Push(a, frames, hub) /\ UNCHANGED <<panelVars, closes, mainVars, fired>>
  BY Typed, FrameFacts DEF NextFrame, Broadcast
<1>2. frames = <<List(a)>> /\ \A c \in Panel : List(a) \notin owed[c]
  BY <1>1 DEF JobOK
<1>3. /\ frames # <<>> /\ Len(frames) = 1 /\ Head(frames) = List(a) /\ List(a) \in Frame
  BY <1>2, ListFacts, FrameFacts
<1>4. frames \in Seq(Frame)
  BY <1>2, <1>3, ListTypes
<1>5. job[a] # NoJob
  BY <1>1 DEF NoJob
<1>6. /\ a \in Event => a \in fired'
      /\ \A c \in Panel : reader'[c] = reader[c] /\ (c = a => reader[c] # "call")
      /\ \A c \in hub : conn[c] # "new"
  BY <1>1, <1>5 DEF IInv, OwedInv, NewInv, TypeOK, panelVars
<1>7. /\ hub \in SUBSET Panel /\ reader' \in [Panel -> Reader] /\ fired' \subseteq Event
      /\ fired \subseteq fired'
  BY <1>1 DEF TypeOK, panelVars
<1> HIDE DEF frames
<1>8. List(a) # First(a)
  BY FrameFacts
<1>9. /\ Len(frames) > 1 => /\ Tail(frames) = <<List(a)>> /\ Head(frames) = First(a)
                             /\ \A c \in Panel : List(a) \notin owed[c]
      /\ Head(frames) \in {First(a), List(a)}
      /\ \A c \in hub : Head(frames) \notin owed[c]
      /\ Head(frames) = First(a) /\ a \in Results => \A c \in hub : List(a) \notin owed[c]
  BY <1>2, <1>3, <1>7, <1>8
<1>10. UNCHANGED <<conn, stuck, done, send, writing, hub, closes, mainVars>>
  BY <1>1 DEF panelVars
<1>11. \A c \in Panel : \/ reader'[c] = reader[c] /\ (c = a => reader[c] # "call")
                        \/ reader[c] = "call" /\ reader'[c] = "read"
  BY <1>6
<1> QED BY <1>1, <1>3, <1>4, <1>6, <1>7, <1>9, <1>10, <1>11, PushStep

LEMMA CallbackStep == ASSUME IInv, NEW e \in Event, Callback(e) PROVE IInv'
<1> DEFINE frames == Frames(e)
<1>1. /\ TypeOK /\ e \in Pusher /\ e \in Actor /\ e \notin fired /\ fired' = fired \cup {e}
      /\ Push(e, frames, hub) /\ UNCHANGED <<panelVars, closes, mainVars>>
  BY Typed, FrameFacts DEF Callback, Broadcast
<1>2. job[e] = NoJob /\ \A c \in Panel : First(e) \notin owed[c] /\ List(e) \notin owed[c]
  BY <1>1 DEF IInv, OwedInv
<1>3. job[e].to = {}
  BY <1>2 DEF NoJob
<1>4. /\ frames \in Seq(Frame) /\ frames # <<>> /\ Head(frames) = First(e)
      /\ Len(frames) > 1 => Tail(frames) = <<List(e)>>
  <2>1. frames = <<First(e), List(e)>> \/ frames = <<First(e)>>
    BY DEF Frames, First, List
  <2>2. First(e) \in Frame /\ List(e) \in Frame
    BY <1>1, FrameFacts
  <2> HIDE DEF frames
  <2>3. CASE frames = <<First(e), List(e)>>
    BY <2>2, <2>3, ListFacts, ListTypes
  <2>4. CASE frames = <<First(e)>>
    BY <2>2, <2>4, ListFacts, ListTypes
  <2> QED BY <2>1, <2>3, <2>4
<1>5. /\ hub \in SUBSET Panel /\ reader \in [Panel -> Reader] /\ fired' \subseteq Event
      /\ fired \subseteq fired' /\ e \in fired' /\ e \notin Panel
      /\ \A c \in hub : conn[c] # "new"
  BY <1>1, FrameFacts DEF IInv, NewInv, TypeOK
<1>6. UNCHANGED <<conn, stuck, done, send, reader, writing, hub, closes, mainVars>>
  BY <1>1 DEF panelVars
<1> HIDE DEF frames
<1> QED BY <1>1, <1>2, <1>3, <1>4, <1>5, <1>6, PushStep

(* An answer to the panel c.                                               *)
LEMMA AnswerStep ==
  ASSUME IInv, NEW c \in Panel, Answer(c), job[c].to = {}, conn[c] # "new",
         First(c) \notin owed[c],
         UNCHANGED <<conn, stuck, done, send, writing, hub, closes, mainVars, fired>>,
         \/ reader' = reader /\ reader[c] = "read"
         \/ reader[c] = "call" /\ reader' = [reader EXCEPT ![c] = "read"]
  PROVE  IInv'
<1> DEFINE frames == <<First(c)>>
<1>1. /\ TypeOK /\ c \in Pusher /\ c \in Actor /\ Push(c, frames, {c})
  BY Typed, FrameFacts DEF Answer, First
<1>2. /\ frames \in Seq(Frame) /\ frames # <<>> /\ Head(frames) = First(c) /\ Len(frames) = 1
  BY <1>1, FrameFacts, ListFacts, ListTypes
<1>3. c \notin Results /\ c \notin Event
  BY FrameFacts
<1>4. /\ reader' \in [Panel -> Reader] /\ fired' \subseteq Event /\ fired \subseteq fired'
      /\ \A d \in Panel : \/ reader'[d] = reader[d] /\ (d = c => reader[d] # "call")
                          \/ reader[d] = "call" /\ reader'[d] = "read"
  BY <1>1 DEF TypeOK, Reader
<1> HIDE DEF frames
<1>5. /\ Len(frames) > 1 => /\ Tail(frames) = <<List(c)>> /\ Head(frames) = First(c)
                             /\ \A d \in Panel : List(c) \notin owed[d]
      /\ Head(frames) \in {First(c), List(c)}
      /\ \A d \in {c} : Head(frames) \notin owed[d]
      /\ Head(frames) = First(c) /\ c \in Results => \A d \in {c} : List(c) \notin owed[d]
  BY <1>2, <1>3
<1>6. {c} \in SUBSET Panel /\ (\A d \in {c} : conn[d] # "new") /\ (c \in Event => c \in fired')
  BY <1>3
<1>7. UNCHANGED <<conn, stuck, done, send, writing, hub, closes, mainVars>>
  OBVIOUS
<1> QED BY <1>1, <1>2, <1>4, <1>5, <1>6, <1>7, PushStep

LEMMA DispatchStep == ASSUME IInv, NEW c \in Panel, Dispatch(c) PROVE IInv'
<1>1. /\ TypeOK /\ reader[c] = "read" /\ job[c] = NoJob /\ job[c].to = {} /\ First(c) \notin owed[c]
      /\ conn[c] = "open"
      /\ UNCHANGED <<conn, stuck, done, send, writing, hub, closes, mainVars, fired>>
  BY Typed DEF Dispatch, Idle, NoJob, Answered, First, Live
<1>2. CASE Answer(c) /\ UNCHANGED reader
  BY <1>1, <1>2, AnswerStep
<1>3. CASE To(c, "call") /\ UNCHANGED <<job, owed>>
  <2>1. UNCHANGED <<run, root, parts, advert>>
    BY <1>1 DEF mainVars
  <2>2. /\ reader' \in [Panel -> Reader] /\ reader'[c] = "call"
        /\ \A d \in Panel \ {c} : reader'[d] = reader[d]
    BY <1>1, <1>3 DEF To, TypeOK, Reader
  <2>3. TypeOK'
    BY <1>1, <1>3, <2>1, <2>2 DEF TypeOK
  <2>4. \A d \in Panel :
          /\ reader'[d] = "call" => reader[d] = "call" \/ (job[d] = NoJob /\ First(d) \notin owed[d])
          /\ conn[d] = "new" => /\ send[d] = <<>> /\ d \notin hub /\ d \notin writing
                                /\ reader'[d] = "none"
          /\ Live(d)' => Live(d)
    BY <1>1, <2>1, <2>2 DEF IInv, NewInv, Live, Cancelled
  <2> QED BY <1>1, <1>3, <2>1, <2>3, <2>4, CalmStep
<1> QED BY <1>2, <1>3 DEF Dispatch

LEMMA CallEndsStep == ASSUME IInv, NEW c \in Panel, CallEnds(c) PROVE IInv'
<1>1. /\ TypeOK /\ reader[c] = "call" /\ reader' = [reader EXCEPT ![c] = "read"]
      /\ job[c] = NoJob /\ First(c) \notin owed[c] /\ conn[c] # "new" /\ job[c].to = {}
      /\ UNCHANGED <<conn, stuck, done, send, writing, hub, closes, mainVars, fired>>
  BY Typed DEF CallEnds, To, IInv, OwedInv, NewInv, NoJob
<1>2. /\ reader' \in [Panel -> Reader] /\ reader'[c] = "read"
      /\ \A d \in Panel \ {c} : reader'[d] = reader[d]
  BY <1>1 DEF TypeOK, Reader
<1>3. CASE Refuse(c)
  BY <1>1, <1>3, AnswerStep DEF Refuse
<1>4. CASE UNCHANGED <<job, owed>>
  <2>1. UNCHANGED <<run, root, parts, advert>>
    BY <1>1 DEF mainVars
  <2>2. TypeOK'
    BY <1>1, <1>2, <1>4, <2>1 DEF TypeOK
  <2>3. \A d \in Panel :
          /\ reader'[d] = "call" => reader[d] = "call"
          /\ conn[d] = "new" => /\ send[d] = <<>> /\ d \notin hub /\ d \notin writing
                                /\ reader'[d] = "none"
          /\ Live(d)' => Live(d)
    BY <1>1, <1>2, <2>1 DEF IInv, NewInv, Live, Cancelled
  <2> QED BY <1>1, <1>4, <2>1, <2>2, <2>3, CalmStep
<1>5. CASE /\ \A d \in Panel : <<c, "devices">> \notin owed[d]
           /\ Broadcast(c, <<<<c, "devices">>>>)
  <2> DEFINE frames == <<List(c)>>
  <2>1. /\ c \in Pusher /\ c \in Actor /\ Push(c, frames, hub) /\ c \notin Event
        /\ \A d \in Panel : List(c) \notin owed[d]
    BY <1>5, FrameFacts DEF Broadcast, List
  <2>2. /\ frames \in Seq(Frame) /\ frames # <<>> /\ Head(frames) = List(c) /\ Len(frames) = 1
        /\ List(c) # First(c)
    BY <2>1, FrameFacts, ListFacts, ListTypes
  <2>3. /\ hub \in SUBSET Panel /\ fired' \subseteq Event /\ fired \subseteq fired'
        /\ \A d \in hub : conn[d] # "new"
        /\ \A d \in Panel : \/ reader'[d] = reader[d] /\ (d = c => reader[d] # "call")
                            \/ reader[d] = "call" /\ reader'[d] = "read"
    BY <1>1, <1>2 DEF IInv, NewInv, TypeOK
  <2> HIDE DEF frames
  <2>4. /\ Len(frames) > 1 => /\ Tail(frames) = <<List(c)>> /\ Head(frames) = First(c)
                               /\ \A d \in Panel : List(c) \notin owed[d]
        /\ Head(frames) \in {First(c), List(c)}
        /\ \A d \in hub : Head(frames) \notin owed[d]
        /\ Head(frames) = First(c) /\ c \in Results => \A d \in hub : List(c) \notin owed[d]
        /\ c \in Event => c \in fired'
    BY <2>1, <2>2, <2>3
  <2>5. UNCHANGED <<conn, stuck, done, send, writing, hub, closes, mainVars>>
    BY <1>1
  <2>6. job[c].to = {} /\ reader' \in [Panel -> Reader]
    BY <1>1, <1>2
  <2> QED BY <2>1, <2>2, <2>3, <2>4, <2>5, <2>6, PushStep
<1> QED BY <1>3, <1>4, <1>5 DEF CallEnds, Accept

(* A panel comes, goes, or is closed.                                      *)
LEMMA PanelsStep ==
  ASSUME IInv, NEW c \in Panel,
         HandleWebSocket(c) \/ CloseEnds(c) \/ ReadEnds(c) \/ HandlerReturns(c) \/ WriteEnds(c) \/ GetStuck(c)
  PROVE  IInv'
<1>0. /\ TypeOK /\ c \in Actor /\ <<>> \in Seq(Frame) /\ Len(<<>>) = 0 /\ SendBuffer \in Nat
      /\ UNCHANGED <<job, run, root, parts, advert, fired>>
  BY Typed, FrameFacts, EmptySeq DEF HandleWebSocket, CloseEnds, ReadEnds, HandlerReturns, WriteEnds,
     GetStuck, jobVars, mainVars
<1>1. ASSUME NEW d \in Panel, conn[d] = "new"
      PROVE  /\ send[d] = <<>> /\ d \notin hub /\ d \notin writing /\ reader[d] = "none"
  BY <1>1 DEF IInv, NewInv
<1>2. CASE HandleWebSocket(c)
  <2>1. TypeOK'
    BY <1>0, <1>2 DEF HandleWebSocket, TypeOK, Reader, jobVars, mainVars
  <2>2. \A d \in Panel : /\ owed'[d] = owed[d] /\ send'[d] = send[d]
                         /\ reader'[d] = "call" => reader[d] = "call"
                         /\ conn'[d] = "new" => /\ conn[d] = "new" /\ d \notin hub' /\ d \notin writing'
                                                /\ reader'[d] = "none"
                         /\ Live(d)' => conn[d] = "new" \/ Live(d)
    BY <1>0, <1>1, <1>2 DEF HandleWebSocket, TypeOK, Live, Cancelled
  <2> QED BY <1>0, <1>1, <2>1, <2>2, CalmStep
<1>3. CASE CloseEnds(c)
  <2>1. TypeOK'
    BY <1>0, <1>3 DEF CloseEnds, Drop, TypeOK, mainVars
  <2>2. \A d \in Panel : /\ owed'[d] \subseteq owed[d] /\ send'[d] = send[d]
                         /\ conn'[d] = "new" => conn[d] = "new"
                         /\ Live(d)' => Live(d) /\ owed'[d] = owed[d]
    BY <1>0, <1>3 DEF CloseEnds, Drop, TypeOK, Live, Cancelled
  <2>3. UNCHANGED <<hub, writing, reader>>
    BY <1>3 DEF CloseEnds
  <2> QED BY <1>0, <1>1, <2>1, <2>2, <2>3, CalmStep
<1>4. CASE ReadEnds(c)
  <2>1. TypeOK'
    BY <1>0, <1>4 DEF ReadEnds, Drop, To, TypeOK, Reader, jobVars, mainVars
  <2>2. \A d \in Panel : /\ owed'[d] \subseteq owed[d] /\ send'[d] = send[d]
                         /\ reader'[d] = "call" => reader[d] = "call"
                         /\ conn'[d] = "new" => conn[d] = "new" /\ reader'[d] = reader[d]
                         /\ Live(d)' => Live(d) /\ owed'[d] = owed[d]
    BY <1>0, <1>1, <1>4 DEF ReadEnds, Drop, To, TypeOK, Live, Cancelled
  <2>3. UNCHANGED <<hub, writing>>
    BY <1>4 DEF ReadEnds
  <2> QED BY <1>0, <1>1, <2>1, <2>2, <2>3, CalmStep
<1>5. CASE HandlerReturns(c)
  <2>1. TypeOK'
    <3>1. /\ conn' \in [Panel -> {"new", "open", "closing", "closed"}]
          /\ closes' \in [Actor -> Panel \cup {None}]
      BY <1>0, <1>5, CloseWithFacts DEF HandlerReturns
    <3>2. /\ UNCHANGED <<stuck, done, send, writing, owed>> /\ hub' = hub \ {c}
          /\ reader' = [reader EXCEPT ![c] = "gone"]
      BY <1>5 DEF HandlerReturns, To
    <3>3. reader' \in [Panel -> Reader]
      BY <1>0, <3>2 DEF TypeOK, Reader
    <3> QED BY <1>0, <3>1, <3>2, <3>3 DEF TypeOK
  <2>2. \A d \in Panel : /\ reader'[d] = "call" => reader[d] = "call"
                         /\ conn'[d] = "new" => conn[d] = "new" /\ reader'[d] = reader[d]
                         /\ Live(d)' => Live(d)
    BY <1>0, <1>1, <1>5 DEF HandlerReturns, To, CloseWith, TypeOK, Live, Cancelled
  <2>3. UNCHANGED <<writing, send, owed>> /\ hub' \subseteq hub
    BY <1>5 DEF HandlerReturns
  <2> QED BY <1>0, <1>1, <2>1, <2>2, <2>3, CalmStep
<1>6. CASE WriteEnds(c)
  <2>1. /\ UNCHANGED <<conn, stuck, reader, hub, closes>> /\ Drop(c) /\ writing' = writing \ {c}
        /\ send' = [send EXCEPT ![c] = <<>>]
    BY <1>6 DEF WriteEnds, jobVars
  <2>2. TypeOK'
    <3>1. send' \in [Panel -> Seq(Frame)] /\ \A d \in Panel : send'[d] = send[d] \/ send'[d] = <<>>
      BY <1>0, <2>1 DEF TypeOK
    <3>2. \A d \in Panel : Len(send'[d]) <= SendBuffer
      BY <1>0, <3>1 DEF TypeOK
    <3> QED BY <1>0, <2>1, <3>1, <3>2 DEF Drop, TypeOK
  <2>3. \A d \in Panel : /\ owed'[d] \subseteq owed[d] /\ (send'[d] = send[d] \/ send'[d] = <<>>)
                         /\ Live(d)' => Live(d) /\ owed'[d] = owed[d] /\ send'[d] = send[d]
    BY <1>0, <2>1 DEF Drop, TypeOK, Live, Cancelled
  <2> QED BY <1>0, <1>1, <2>1, <2>2, <2>3, CalmStep
<1>7. CASE GetStuck(c)
  <2>1. UNCHANGED <<conn, done, send, reader, writing, hub, closes, owed>> /\ stuck' = stuck \cup {c}
    BY <1>7 DEF GetStuck, jobVars
  <2>2. TypeOK'
    BY <1>0, <2>1 DEF TypeOK
  <2>3. \A d \in Panel : Live(d)' => Live(d)
    BY <1>0, <2>1 DEF Live, Cancelled
  <2> QED BY <1>0, <1>1, <2>1, <2>2, <2>3, CalmStep
<1> QED BY <1>2, <1>3, <1>4, <1>5, <1>6, <1>7

(* The daemon, without closeAll.                                           *)
LEMMA DaemonStep ==
  ASSUME IInv, Signal \/ ControlFails \/ RunReturns \/ Reregister \/ Withdraw \/ UNCHANGED vars
               \/ \E p \in Part : PartEnds(p)
  PROVE  IInv'
<1>1. /\ TypeOK /\ UNCHANGED <<conn, stuck, done, send, reader, writing, hub, job, closes, fired, owed>>
      /\ run' = "serving" => run = "serving"
      /\ run' \in {"serving", "closing", "returned"} /\ root' \in BOOLEAN /\ (root => root')
      /\ parts' \subseteq Part /\ advert' \in BOOLEAN
  BY Typed DEF Signal, ControlFails, RunReturns, Reregister, Withdraw, PartEnds, ServeFails, TypeOK,
     vars, panelVars, jobVars, mainVars
<1>2. TypeOK'
  BY <1>1 DEF TypeOK
<1>3. \A d \in Panel : /\ Live(d)' => Live(d)
                       /\ conn[d] = "new" => /\ send[d] = <<>> /\ d \notin hub /\ d \notin writing
                                             /\ reader[d] = "none"
  BY <1>1 DEF Live, Cancelled, IInv, NewInv
<1> QED BY <1>1, <1>2, <1>3, CalmStep

(* closeAll.                                                               *)
LEMMA CloseAllStep ==
  ASSUME IInv, Shutdown \/ \E c \in Panel : CloseNext(c)
  PROVE  IInv'
<1>0. /\ TypeOK /\ Main \in Actor
      /\ UNCHANGED <<stuck, done, send, reader, writing, hub, root, parts, advert, fired, owed>>
  BY Typed, FrameFacts DEF Shutdown, CloseNext, panelVars, mainVars
<1>1. /\ \A a \in Actor : a # Main => job'[a] = job[a]
      /\ job' \in [Actor -> [left : Seq(Frame), to : SUBSET Panel]]
      /\ job'[Main].to \subseteq hub \cup job[Main].to
      /\ conn' \in [Panel -> {"new", "open", "closing", "closed"}]
      /\ \A d \in Panel : conn'[d] = "new" => conn[d] = "new"
      /\ closes' \in [Actor -> Panel \cup {None}]
      /\ run' \in {"closing", "returned"}
  <2>1. CASE Shutdown
    <3>1. /\ run' = "closing" /\ UNCHANGED <<conn, closes>>
          /\ job' = [job EXCEPT ![Main] = [left |-> <<>>, to |-> hub]]
      BY <2>1 DEF Shutdown, panelVars
    <3>2. [left |-> <<>>, to |-> hub] \in [left : Seq(Frame), to : SUBSET Panel]
      BY <1>0, EmptySeq DEF TypeOK
    <3> QED BY <1>0, <3>1, <3>2 DEF TypeOK
  <2>2. ASSUME NEW c \in Panel, CloseNext(c) PROVE <1>1
    <3>1. /\ c \in job[Main].to /\ UNCHANGED run /\ CloseWith(Main, c)
          /\ job' = [job EXCEPT ![Main].to = @ \ {c}]
      BY <2>2 DEF CloseNext, mainVars
    <3>2. run \in {"closing", "returned"}
      BY <1>0, <3>1 DEF IInv, JobInv, TypeOK
    <3>3. /\ conn' \in [Panel -> {"new", "open", "closing", "closed"}]
          /\ \A d \in Panel : conn'[d] = "new" => conn[d] = "new"
          /\ closes' \in [Actor -> Panel \cup {None}]
      BY <1>0, <3>1, CloseWithFacts
    <3>4. /\ \A a \in Actor : a # Main => job'[a] = job[a]
          /\ job' \in [Actor -> [left : Seq(Frame), to : SUBSET Panel]]
          /\ job'[Main].to \subseteq hub \cup job[Main].to
      BY <1>0, <3>1 DEF TypeOK
    <3> QED BY <3>1, <3>2, <3>3, <3>4
  <2> QED BY <2>1, <2>2
<1>2. TypeOK'
  BY <1>0, <1>1 DEF TypeOK
<1>3. NewInv'
  <2> SUFFICES ASSUME NEW d \in Panel, conn'[d] = "new"
               PROVE  /\ send[d] = <<>> /\ owed[d] = {} /\ d \notin hub
                      /\ d \notin writing /\ reader[d] = "none"
                      /\ \A b \in Actor : d \notin job'[b].to
    BY <1>0 DEF NewInv
  <2>1. /\ send[d] = <<>> /\ owed[d] = {} /\ d \notin hub
        /\ d \notin writing /\ reader[d] = "none"
        /\ \A b \in Actor : d \notin job[b].to
    BY <1>1 DEF IInv, NewInv
  <2> QED BY <1>0, <1>1, <2>1
<1>4. JobInv'
  <2>1. \A a \in Pusher : JobOK(a)'
    BY <1>0, <1>1, Typed, FrameFacts DEF JobOK
  <2> QED BY <1>1, <2>1 DEF JobInv
<1>5. OwedInv'
  <2>1. \A a \in Pusher : job'[a] = job[a]
    BY <1>1, FrameFacts
  <2> QED BY <1>0, <2>1, FrameFacts DEF IInv, OwedInv
<1>6. \A c \in Panel : ~Live(c)'
  BY <1>1 DEF Live, Cancelled
<1> QED BY <1>2, <1>3, <1>4, <1>5, <1>6 DEF IInv, QueueInv

-----------------------------------------------------------------------------
LEMMA InitIInv == Init => IInv
<1> SUFFICES ASSUME Init PROVE IInv
  OBVIOUS
<1>1. /\ <<>> \in Seq(Frame) /\ Len(<<>>) = 0 /\ SendBuffer \in Nat
      /\ NoJob \in [left : Seq(Frame), to : SUBSET Panel] /\ NoJob.to = {} /\ NoJob.left = <<>>
  BY EmptySeq, FrameFacts DEF NoJob
<1>2. TypeOK
  <2>1. /\ send \in [Panel -> Seq(Frame)] /\ \A c \in Panel : Len(send[c]) <= SendBuffer
        /\ job \in [Actor -> [left : Seq(Frame), to : SUBSET Panel]]
    BY <1>1 DEF Init
  <2>2. /\ closes \in [Actor -> Panel \cup {None}] /\ owed \in [Panel -> SUBSET Frame]
        /\ reader \in [Panel -> Reader]
    BY DEF Init, Reader
  <2> QED BY <2>1, <2>2 DEF Init, TypeOK
<1>3. NewInv
  BY <1>1 DEF Init, NewInv
<1>4. JobInv
  BY <1>1, FrameFacts DEF Init, JobInv, JobOK
<1>5. OwedInv
  BY FrameFacts DEF Init, OwedInv
<1>6. QueueInv
  BY DEF Init, QueueInv, Live
<1> QED BY <1>2, <1>3, <1>4, <1>5, <1>6 DEF IInv

LEMMA NextIInv == IInv /\ [Next]_vars => IInv'
<1> SUFFICES ASSUME IInv, [Next]_vars PROVE IInv'
  OBVIOUS
<1>1. ASSUME NEW a \in Pusher, JobStep(a) PROVE IInv'
  BY <1>1, NextFrameStep, DeliverStep DEF JobStep
<1>2. ASSUME NEW c \in Panel, HandleWebSocket(c) \/ Dispatch(c) \/ GetStuck(c) \/ PanelStep(c) PROVE IInv'
  <2>1. CASE Dispatch(c)
    BY <2>1, DispatchStep
  <2>2. CASE HandleWebSocket(c) \/ GetStuck(c)
    BY <2>2, PanelsStep
  <2>3. CASE PanelStep(c)
    BY <2>3, <1>1, PanelsStep, CallEndsStep, WriteStep, FrameFacts DEF PanelStep
  <2> QED BY <1>2, <2>1, <2>2, <2>3
<1>3. ASSUME NEW e \in Event, Callback(e) \/ JobStep(e) PROVE IInv'
  BY <1>1, <1>3, CallbackStep, FrameFacts
<1>4. CASE Signal \/ ControlFails \/ Reregister \/ Withdraw \/ (\E p \in Part : PartEnds(p)) \/ UNCHANGED vars
  BY <1>4, DaemonStep
<1>5. CASE RunStep
  BY <1>5, DaemonStep, CloseAllStep DEF RunStep
<1> QED BY <1>2, <1>3, <1>4, <1>5 DEF Next

LEMMA IInvAlways == Spec => []IInv
BY InitIInv, NextIInv, PTL DEF Spec

-----------------------------------------------------------------------------
(* Every variable keeps its type, and no queue grows beyond sendBuffer     *)
(* (websocket.go wsConn.enqueue).                                          *)
THEOREM TypeCorrect == Spec => []TypeOK
BY IInvAlways, PTL DEF IInv

(* A live panel is owed exactly the frames that are queued for it, each    *)
(* once, or just being handed over (websocket.go enqueue and writeLoop,    *)
(* hub.Broadcast).                                                         *)
THEOREM EveryFrameKept == Spec => []NothingIsLost
<1>1. IInv => NothingIsLost
  BY Typed DEF NothingIsLost, QueueOK
<1> QED BY <1>1, IInvAlways, PTL

(* The result of a pairing is in front of the device list it changed in    *)
(* every queue that still holds both (main.go OnPairResult).               *)
THEOREM ResultComesFirst == Spec => []ResultBeforeList
<1>1. IInv => ResultBeforeList
  <2> SUFFICES ASSUME IInv, NEW c \in Panel, NEW e \in Results, Live(c), First(e) \in owed[c],
                      NEW i \in DOMAIN send[c], send[c][i] = List(e)
               PROVE  \E j \in 1..i : send[c][j] = First(e)
    BY DEF ResultBeforeList, First, List
  <2>1. DOMAIN send[c] = 1 .. Len(send[c]) /\ Len(send[c]) \in Nat
    BY Typed, LenProperties DEF TypeOK
  <2>2. PICK j \in 1 .. Len(send[c]) : j <= i /\ send[c][j] = First(e)
    BY <2>1, Typed DEF QueueOK
  <2>3. j \in 1 .. i
    BY <2>1, <2>2
  <2> QED BY <2>2, <2>3
<1> QED BY <1>1, IInvAlways, PTL
=============================================================================
