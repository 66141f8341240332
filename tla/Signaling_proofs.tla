-------------------------- MODULE Signaling_proofs --------------------------
(***************************************************************************)
(* What holds of the signaling client for any requests, gateways, queue    *)
(* and events: no event is lost, duplicated or reordered while the client  *)
(* is open, and every answer reaches the request it belongs to.            *)
(***************************************************************************)
EXTENDS Signaling, FiniteSetTheorems, SequenceTheorems, TLAPS

\* The steps a [Next]_vars step can be, as the proofs below take them apart.
LEMMA Steps ==
  [Next]_vars =>
    \/ Dial \/ DialFails \/ NamespaceReady \/ NamespaceTimeout \/ NamespaceClosed \/ OwnerCloses
    \/ GatewaySends \/ GatewaySendsEvent \/ GatewayAnswers \/ LinkFails
    \/ ReadFails \/ ReadClose \/ ReadNamespace \/ ReadEvent \/ ReadAttachment \/ ReadAck
    \/ Enqueue \/ DropOffered \/ DeadlinePasses \/ Dispatch \/ HandlerReturns \/ DispatchEnds
    \/ \E r \in Requests :
         \/ Allocate(r) \/ Register(r) \/ SendRequest(r) \/ SendFails(r)
         \/ TakeReply(r) \/ WaitEnds(r) \/ RequestTimeout(r)
    \/ UNCHANGED vars
  BY Zenon DEF Next, Connecting, Network, Reading, Offering, Dispatching, Asking, Waiting

LEMMA Constants ==
  /\ IsFiniteSet(Requests) /\ NoOne \notin Requests
  /\ Acks \in [Requests -> 1..2] /\ Size \in Seq(Nat)
  /\ Gateways \in Nat \ {0} /\ QueueDepth \in Nat \ {0} /\ MaxWire \in Nat \ {0}
  BY SignalingAssumption

LEMMA Sizes == Len(Size) \in Nat /\ Number = 1..Len(Size) /\ \A n \in Number : Size[n] \in Nat
  BY Constants, LenProperties DEF Number

-----------------------------------------------------------------------------
(* Frames and sequences of them.                                           *)

LEMMA FrameTypes ==
  ASSUME NEW f \in Frame
  PROVE  /\ f.type = "event" => f.n \in Number
         /\ f.type = "attachment" => f.part \in Part
         /\ f.type = "ack" => f.id \in Ids /\ f.of \in Requests /\ f.body \in {"key", "result"}
         /\ f.type \in {"connect", "close", "event", "attachment", "ack"}
  BY DEF Frame

LEMMA FramesMade ==
  /\ [type |-> "connect"] \in Frame /\ [type |-> "close"] \in Frame
  /\ \A n \in Number : [type |-> "event", n |-> n] \in Frame
  /\ \A n \in Number : \A j \in Nat \ {0} : Attachment(n, j) \in Frame
  /\ \A i \in Ids : \A r \in Requests : \A b \in {"key", "result"} :
       [type |-> "ack", id |-> i, of |-> r, body |-> b] \in Frame
  BY DEF Frame, Attachment, Part

LEMMA AttachmentFields ==
  \A n, j : /\ Attachment(n, j).type = "attachment" /\ Attachment(n, j).part = <<n, j>>
            /\ Attachment(n, j).part[1] = n /\ Attachment(n, j).part[2] = j
  BY DEF Attachment

LEMMA One ==
  ASSUME NEW f \in Frame
  PROVE  <<f>> \in Seq(Frame) /\ Len(<<f>>) = 1 /\ <<f>>[1] = f
  OBVIOUS

LEMMA Burst ==
  ASSUME NEW n \in Number
  PROVE  /\ EventFrames(n) \in Seq(Frame) /\ Len(EventFrames(n)) = Size[n] + 1
         /\ EventFrames(n)[1] = [type |-> "event", n |-> n]
         /\ \A i \in 2..(Size[n] + 1) : EventFrames(n)[i] = Attachment(n, i - 1)
<1> DEFINE h == [type |-> "event", n |-> n]
           a == [j \in 1..Size[n] |-> Attachment(n, j)]
<1>1. Size[n] \in Nat
  BY Sizes
<1>2. a \in Seq(Frame) /\ Len(a) = Size[n]
  <2>1. \A j \in 1..Size[n] : Attachment(n, j) \in Frame
    BY <1>1, FramesMade
  <2> QED BY <1>1, <2>1
<1>3. h \in Frame
  BY FramesMade
<1>4. <<h>> \in Seq(Frame) /\ Len(<<h>>) = 1 /\ <<h>>[1] = h
  BY <1>3, One
<1>5. EventFrames(n) = <<h>> \o a
  BY DEF EventFrames
<1> HIDE DEF h
<1>6. ASSUME NEW i \in 1..Size[n] PROVE a[i] = Attachment(n, i)
  OBVIOUS
<1> HIDE DEF a
<1>7. /\ <<h>> \o a \in Seq(Frame) /\ Len(<<h>> \o a) = Size[n] + 1
      /\ \A i \in 1..(1 + Size[n]) : (<<h>> \o a)[i] = IF i <= 1 THEN <<h>>[i] ELSE a[i - 1]
  BY <1>1, <1>2, <1>4, ConcatProperties
<1>8. (<<h>> \o a)[1] = h
  BY <1>1, <1>4, <1>7
<1>9. ASSUME NEW i \in 2..(Size[n] + 1) PROVE (<<h>> \o a)[i] = Attachment(n, i - 1)
  <2>1. i - 1 \in 1..Size[n] /\ i \in 1..(1 + Size[n]) /\ ~(i <= 1)
    BY <1>1
  <2> QED BY <1>6, <1>7, <2>1
<1> QED BY <1>5, <1>7, <1>8, <1>9 DEF h

-----------------------------------------------------------------------------
(* The attachments of an event follow its header.                          *)

Follows(q) ==
  \A i \in 1..Len(q) :
    /\ q[i].type = "event" /\ Size[q[i].n] > 0 =>
         i < Len(q) /\ q[i + 1] = Attachment(q[i].n, 1)
    /\ q[i].type = "attachment" /\ q[i].part[2] < Size[q[i].part[1]] =>
         i < Len(q) /\ q[i + 1] = Attachment(q[i].part[1], q[i].part[2] + 1)

LEMMA FollowsNone == Follows(<<>>)
  BY DEF Follows

LEMMA FollowsOne ==
  ASSUME NEW f \in Frame, f.type \notin {"event", "attachment"}
  PROVE  Follows(<<f>>)
  BY One DEF Follows

LEMMA FollowsBurst ==
  ASSUME NEW n \in Number
  PROVE  Follows(EventFrames(n))
<1> DEFINE q == EventFrames(n)
<1>1. /\ Len(q) = Size[n] + 1 /\ q[1] = [type |-> "event", n |-> n] /\ Size[n] \in Nat
      /\ \A i \in 2..(Size[n] + 1) : q[i] = Attachment(n, i - 1)
  BY Burst, Sizes
<1> HIDE DEF q
<1>2. q[1].type = "event" /\ q[1].n = n
  BY <1>1
<1>3. ASSUME NEW i \in 1..Len(q), q[i].type = "event", Size[q[i].n] > 0
      PROVE  i < Len(q) /\ q[i + 1] = Attachment(q[i].n, 1)
  <2>1. i = 1
    <3> SUFFICES ASSUME i # 1 PROVE FALSE
      OBVIOUS
    <3>1. i \in 2..(Size[n] + 1)
      BY <1>1
    <3> QED BY <1>1, <1>3, <3>1, AttachmentFields
  <2>2. 2 \in 2..(Size[n] + 1) /\ 1 < Size[n] + 1
    BY <1>1, <1>2, <1>3, <2>1
  <2> QED BY <1>1, <1>2, <2>1, <2>2
<1>4. ASSUME NEW i \in 1..Len(q), q[i].type = "attachment", q[i].part[2] < Size[q[i].part[1]]
      PROVE  i < Len(q) /\ q[i + 1] = Attachment(q[i].part[1], q[i].part[2] + 1)
  <2>1. i # 1
    BY <1>2, <1>4
  <2>2. i \in 2..(Size[n] + 1)
    BY <1>1, <2>1
  <2>3. q[i].part[1] = n /\ q[i].part[2] = i - 1
    <3>1. q[i] = Attachment(n, i - 1)
      BY <1>1, <2>2
    <3> QED BY <3>1, AttachmentFields
  <2>4. i - 1 < Size[n]
    BY <1>4, <2>3
  <2>5. i + 1 \in 2..(Size[n] + 1) /\ (i + 1) - 1 = (i - 1) + 1
    BY <1>1, <2>2, <2>4
  <2>6. q[i + 1] = Attachment(n, (i - 1) + 1)
    BY <1>1, <2>5
  <2> QED BY <1>1, <2>2, <2>3, <2>4, <2>6
<1> QED BY <1>3, <1>4 DEF Follows, q

LEMMA FollowsConcat ==
  ASSUME NEW q \in Seq(Frame), NEW b \in Seq(Frame), Follows(q), Follows(b)
  PROVE  Follows(q \o b)
<1> DEFINE w == q \o b
<1>1. /\ Len(w) = Len(q) + Len(b) /\ Len(q) \in Nat /\ Len(b) \in Nat
      /\ \A i \in 1..Len(w) : w[i] = IF i <= Len(q) THEN q[i] ELSE b[i - Len(q)]
  BY ConcatProperties, LenProperties
<1> HIDE DEF w
<1> SUFFICES ASSUME NEW i \in 1..Len(w)
             PROVE  /\ w[i].type = "event" /\ Size[w[i].n] > 0 =>
                         i < Len(w) /\ w[i + 1] = Attachment(w[i].n, 1)
                    /\ w[i].type = "attachment" /\ w[i].part[2] < Size[w[i].part[1]] =>
                         i < Len(w) /\ w[i + 1] = Attachment(w[i].part[1], w[i].part[2] + 1)
  BY DEF Follows, w
<1>2. CASE i <= Len(q)
  <2>1. w[i] = q[i] /\ i \in 1..Len(q)
    BY <1>1, <1>2
  <2>2. i < Len(q) => i < Len(w) /\ w[i + 1] = q[i + 1]
    <3>1. i < Len(q) => i + 1 \in 1..Len(w) /\ i + 1 <= Len(q)
      BY <1>1, <1>2
    <3> QED BY <1>1, <3>1
  <2> QED BY <2>1, <2>2 DEF Follows
<1>3. CASE ~(i <= Len(q))
  <2> DEFINE k == i - Len(q)
  <2>1. w[i] = b[k] /\ k \in 1..Len(b)
    BY <1>1, <1>3
  <2>2. k < Len(b) => i < Len(w) /\ w[i + 1] = b[k + 1]
    <3>1. k < Len(b) => i + 1 \in 1..Len(w) /\ ~(i + 1 <= Len(q)) /\ (i + 1) - Len(q) = k + 1
      BY <1>1, <1>3
    <3> QED BY <1>1, <3>1
  <2> HIDE DEF k
  <2> QED BY <2>1, <2>2 DEF Follows
<1> QED BY <1>2, <1>3

LEMMA FollowsTail ==
  ASSUME NEW q \in Seq(Frame), q # <<>>, Follows(q)
  PROVE  Follows(Tail(q))
<1> DEFINE t == Tail(q)
<1>1. /\ Len(t) = Len(q) - 1 /\ Len(q) \in Nat
      /\ \A i \in 1..Len(t) : t[i] = q[i + 1]
  BY HeadTailProperties, LenProperties
<1> HIDE DEF t
<1> SUFFICES ASSUME NEW i \in 1..Len(t)
             PROVE  /\ t[i].type = "event" /\ Size[t[i].n] > 0 =>
                         i < Len(t) /\ t[i + 1] = Attachment(t[i].n, 1)
                    /\ t[i].type = "attachment" /\ t[i].part[2] < Size[t[i].part[1]] =>
                         i < Len(t) /\ t[i + 1] = Attachment(t[i].part[1], t[i].part[2] + 1)
  BY DEF Follows, t
<1> DEFINE k == i + 1
<1>2. t[i] = q[k] /\ k \in 1..Len(q)
  BY <1>1
<1>3. k < Len(q) => i < Len(t) /\ t[i + 1] = q[k + 1]
  BY <1>1
<1> HIDE DEF k
<1> QED BY <1>2, <1>3 DEF Follows

-----------------------------------------------------------------------------
(* The headers in a sequence of frames are those of a+1 to b, in order.    *)

Ordered(q, a, b) ==
  /\ \A i \in 1..Len(q) : q[i].type = "event" => q[i].n \in (a + 1)..b
  /\ \A n \in (a + 1)..b : \E i \in 1..Len(q) : q[i].type = "event" /\ q[i].n = n
  /\ \A i, j \in 1..Len(q) :
       i < j /\ q[i].type = "event" /\ q[j].type = "event" => q[i].n < q[j].n

LEMMA OrderedNone == \A a \in Nat : Ordered(<<>>, a, a)
  BY DEF Ordered

LEMMA OrderedOne ==
  ASSUME NEW f \in Frame, f.type # "event", NEW a \in Nat
  PROVE  Ordered(<<f>>, a, a)
  BY One DEF Ordered

LEMMA OrderedBurst ==
  ASSUME NEW n \in Number
  PROVE  Ordered(EventFrames(n), n - 1, n)
<1> DEFINE q == EventFrames(n)
<1>1. /\ Len(q) = Size[n] + 1 /\ q[1] = [type |-> "event", n |-> n] /\ Size[n] \in Nat
      /\ \A i \in 2..(Size[n] + 1) : q[i] = Attachment(n, i - 1)
  BY Burst, Sizes
<1> HIDE DEF q
<1>2. q[1].type = "event" /\ q[1].n = n /\ 1 \in 1..Len(q) /\ n \in Nat
  BY <1>1, Sizes
<1>3. ASSUME NEW i \in 1..Len(q), q[i].type = "event" PROVE i = 1
  <2> SUFFICES ASSUME i # 1 PROVE FALSE
    OBVIOUS
  <2>1. i \in 2..(Size[n] + 1)
    BY <1>1
  <2>2. q[i] = Attachment(n, i - 1)
    BY <1>1, <2>1
  <2> QED BY <1>3, <2>2, AttachmentFields
<1>4. ((n - 1) + 1)..n = {n}
  BY <1>2
<1>5. \A i \in 1..Len(q) : q[i].type = "event" => q[i].n = n
  BY <1>2, <1>3
<1>6. \A i, j \in 1..Len(q) : q[i].type = "event" /\ q[j].type = "event" => ~(i < j)
  <2> SUFFICES ASSUME NEW i \in 1..Len(q), NEW j \in 1..Len(q), q[i].type = "event", q[j].type = "event"
               PROVE  ~(i < j)
    OBVIOUS
  <2>1. i = 1 /\ j = 1
    BY <1>3
  <2> QED BY <2>1
<1> QED BY <1>2, <1>4, <1>5, <1>6 DEF Ordered, q

LEMMA OrderedConcat ==
  ASSUME NEW q \in Seq(Frame), NEW p \in Seq(Frame), NEW a \in Nat, NEW b \in Nat, NEW c \in Nat,
         a <= b, b <= c, Ordered(q, a, b), Ordered(p, b, c)
  PROVE  Ordered(q \o p, a, c)
<1> DEFINE w == q \o p
<1>1. /\ Len(w) = Len(q) + Len(p) /\ Len(q) \in Nat /\ Len(p) \in Nat
      /\ \A i \in 1..Len(w) : w[i] = IF i <= Len(q) THEN q[i] ELSE p[i - Len(q)]
  BY ConcatProperties, LenProperties
<1> HIDE DEF w
<1>2. \A i \in 1..Len(q) : i \in 1..Len(w) /\ w[i] = q[i]
  BY <1>1
<1>3. ASSUME NEW k \in 1..Len(p) PROVE Len(q) + k \in 1..Len(w) /\ w[Len(q) + k] = p[k]
  <2>1. Len(q) + k \in 1..Len(w) /\ ~(Len(q) + k <= Len(q)) /\ (Len(q) + k) - Len(q) = k
    BY <1>1
  <2> QED BY <1>1, <2>1
<1>4. ASSUME NEW i \in 1..Len(w), i > Len(q) PROVE i - Len(q) \in 1..Len(p) /\ w[i] = p[i - Len(q)]
  BY <1>1, <1>4
<1>5. ASSUME NEW i \in 1..Len(w), w[i].type = "event" PROVE w[i].n \in (a + 1)..c
  <2>1. CASE i <= Len(q)
    <3>1. i \in 1..Len(q) /\ w[i] = q[i]
      BY <1>1, <2>1
    <3>2. q[i].n \in (a + 1)..b
      BY <1>5, <3>1 DEF Ordered
    <3> QED BY <3>1, <3>2
  <2>2. CASE i > Len(q)
    <3> DEFINE k == i - Len(q)
    <3>1. k \in 1..Len(p) /\ w[i] = p[k]
      BY <1>4, <2>2
    <3> HIDE DEF k
    <3>2. p[k].n \in (b + 1)..c
      BY <1>5, <3>1 DEF Ordered
    <3> QED BY <3>1, <3>2
  <2> QED BY <1>1, <2>1, <2>2
<1>6. ASSUME NEW n \in (a + 1)..c PROVE \E i \in 1..Len(w) : w[i].type = "event" /\ w[i].n = n
  <2>1. CASE n <= b
    <3>1. PICK i \in 1..Len(q) : q[i].type = "event" /\ q[i].n = n
      <4>1. n \in (a + 1)..b
        BY <2>1
      <4> QED BY <4>1 DEF Ordered
    <3> QED BY <1>2, <3>1
  <2>2. CASE n > b
    <3>1. PICK k \in 1..Len(p) : p[k].type = "event" /\ p[k].n = n
      <4>1. n \in (b + 1)..c
        BY <2>2
      <4> QED BY <4>1 DEF Ordered
    <3> QED BY <1>3, <3>1
  <2> QED BY <2>1, <2>2
<1>7. ASSUME NEW i \in 1..Len(w), NEW j \in 1..Len(w), i < j, w[i].type = "event", w[j].type = "event"
      PROVE  w[i].n < w[j].n
  <2>1. CASE j <= Len(q)
    <3>1. i \in 1..Len(q) /\ j \in 1..Len(q) /\ w[i] = q[i] /\ w[j] = q[j]
      BY <1>1, <1>7, <2>1
    <3> QED BY <1>7, <3>1 DEF Ordered
  <2>2. CASE i > Len(q)
    <3> DEFINE k == i - Len(q)
               l == j - Len(q)
    <3>1. k \in 1..Len(p) /\ w[i] = p[k] /\ l \in 1..Len(p) /\ w[j] = p[l] /\ k < l
      BY <1>1, <1>4, <1>7, <2>2
    <3> HIDE DEF k, l
    <3> QED BY <1>7, <3>1 DEF Ordered
  <2>3. CASE i <= Len(q) /\ j > Len(q)
    <3> DEFINE l == j - Len(q)
    <3>1. i \in 1..Len(q) /\ w[i] = q[i] /\ l \in 1..Len(p) /\ w[j] = p[l]
      BY <1>1, <1>4, <2>3
    <3> HIDE DEF l
    <3>2. q[i].n \in (a + 1)..b /\ p[l].n \in (b + 1)..c
      BY <1>7, <3>1 DEF Ordered
    <3>3. \A x \in (a + 1)..b : \A y \in (b + 1)..c : x < y
      OBVIOUS
    <3> QED BY <3>1, <3>2, <3>3
  <2> QED BY <1>1, <2>1, <2>2, <2>3
<1> QED BY <1>5, <1>6, <1>7 DEF Ordered, w

LEMMA TailIndices ==
  ASSUME NEW q \in Seq(Frame), q # <<>>
  PROVE  /\ Len(q) \in Nat /\ Len(q) > 0 /\ Head(q) = q[1] /\ Head(q) \in Frame
         /\ Tail(q) \in Seq(Frame) /\ Len(Tail(q)) = Len(q) - 1
         /\ \A i \in 1..Len(Tail(q)) : i + 1 \in 1..Len(q) /\ Tail(q)[i] = q[i + 1]
         /\ \A i \in 2..Len(q) : i - 1 \in 1..Len(Tail(q)) /\ Tail(q)[i - 1] = q[i]
<1>1. /\ Len(q) \in Nat /\ Len(q) > 0 /\ Head(q) = q[1] /\ Head(q) \in Frame
      /\ Tail(q) \in Seq(Frame) /\ Len(Tail(q)) = Len(q) - 1
      /\ \A i \in 1..Len(Tail(q)) : Tail(q)[i] = q[i + 1]
  BY HeadTailProperties, LenProperties, EmptySeq
<1>2. \A i \in 1..Len(Tail(q)) : i + 1 \in 1..Len(q)
  BY <1>1
<1>3. \A i \in 2..Len(q) : i - 1 \in 1..Len(Tail(q)) /\ (i - 1) + 1 = i
  BY <1>1
<1> QED BY <1>1, <1>2, <1>3

\* Reading another frame leaves the order, reading a header takes the next.
LEMMA OrderedTail ==
  ASSUME NEW q \in Seq(Frame), q # <<>>, NEW a \in Nat, NEW b \in Nat, Ordered(q, a, b)
  PROVE  /\ Head(q).type # "event" => Ordered(Tail(q), a, b)
         /\ Head(q).type = "event" => Head(q).n = a + 1 /\ a < b /\ Ordered(Tail(q), a + 1, b)
<1> DEFINE t == Tail(q)
<1>1. /\ Len(q) \in Nat /\ Len(q) > 0 /\ Head(q) = q[1] /\ Len(t) = Len(q) - 1
      /\ \A i \in 1..Len(t) : i + 1 \in 1..Len(q) /\ t[i] = q[i + 1]
      /\ \A i \in 2..Len(q) : i - 1 \in 1..Len(t) /\ t[i - 1] = q[i]
  BY TailIndices
<1> HIDE DEF t
<1>2. 1 \in 1..Len(q)
  BY <1>1
<1>3. ASSUME NEW i \in 1..Len(t), NEW j \in 1..Len(t), i < j, t[i].type = "event", t[j].type = "event"
      PROVE  t[i].n < t[j].n
  <2> DEFINE k == i + 1
             l == j + 1
  <2>1. k < l /\ k \in 1..Len(q) /\ l \in 1..Len(q) /\ t[i] = q[k] /\ t[j] = q[l]
    BY SMTT(30), <1>1, <1>3
  <2> HIDE DEF k, l
  <2> QED BY <1>3, <2>1 DEF Ordered
<1>4. ASSUME Head(q).type # "event" PROVE Ordered(t, a, b)
  <2>1. \A i \in 1..Len(t) : t[i].type = "event" => t[i].n \in (a + 1)..b
    BY <1>1 DEF Ordered
  <2>2. ASSUME NEW n \in (a + 1)..b PROVE \E i \in 1..Len(t) : t[i].type = "event" /\ t[i].n = n
    <3>1. PICK i \in 1..Len(q) : q[i].type = "event" /\ q[i].n = n
      BY DEF Ordered
    <3>2. i \in 2..Len(q)
      BY <1>1, <1>4, <3>1
    <3> QED BY <1>1, <3>1, <3>2
  <2> QED BY <1>3, <2>1, <2>2 DEF Ordered
<1>5. ASSUME Head(q).type = "event" PROVE Head(q).n = a + 1 /\ a < b /\ Ordered(t, a + 1, b)
  <2>1. q[1].type = "event" /\ q[1].n \in (a + 1)..b
    BY <1>1, <1>2, <1>5 DEF Ordered
  <2>2. a < b /\ a + 1 \in (a + 1)..b
    BY <2>1
  <2>3. PICK k \in 1..Len(q) : q[k].type = "event" /\ q[k].n = a + 1
    BY <2>2 DEF Ordered
  <2>4. q[1].n = a + 1
    <3>1. CASE k = 1
      BY <2>3, <3>1
    <3>2. CASE k # 1
      <4>1. 1 < k
        BY <1>1, <3>2
      <4>2. q[1].n < q[k].n
        BY <1>2, <2>1, <2>3, <4>1 DEF Ordered
      <4> QED BY <2>1, <2>3, <4>2
    <3> QED BY <3>1, <3>2
  <2>5. ASSUME NEW i \in 1..Len(t), t[i].type = "event" PROVE t[i].n \in ((a + 1) + 1)..b
    <3>1. i + 1 \in 1..Len(q) /\ t[i] = q[i + 1] /\ 1 < i + 1
      BY <1>1
    <3>2. q[i + 1].n \in (a + 1)..b
      BY <2>5, <3>1 DEF Ordered
    <3>3. q[1].n < q[i + 1].n
      BY <1>2, <2>1, <2>5, <3>1 DEF Ordered
    <3> QED BY <2>4, <3>1, <3>2, <3>3
  <2>6. ASSUME NEW n \in ((a + 1) + 1)..b PROVE \E i \in 1..Len(t) : t[i].type = "event" /\ t[i].n = n
    <3>1. PICK i \in 1..Len(q) : q[i].type = "event" /\ q[i].n = n
      <4>1. n \in (a + 1)..b
        OBVIOUS
      <4> QED BY <4>1 DEF Ordered
    <3>2. i # 1
      BY <2>4, <3>1
    <3>3. i \in 2..Len(q)
      BY <1>1, <3>2
    <3> QED BY <1>1, <3>1, <3>3
  <2>7. Ordered(t, a + 1, b)
    BY <1>3, <2>5, <2>6 DEF Ordered
  <2> QED BY <1>1, <2>2, <2>4, <2>7
<1> QED BY <1>4, <1>5 DEF t

-----------------------------------------------------------------------------
(* The shape of the state.                                                 *)

Request == [pc : {"idle", "allocated", "registered", "waiting", "ended"},
            first : Nat, reply : Requests \cup {NoOne}]
Asked == [id : Ids, of : Requests]

Flags ==
  /\ phase \in {"dialing", "namespace", "up", "failed"} /\ gateway \in 0..Gateways
  /\ link \in {"up", "silent", "down"}
  /\ ready \in BOOLEAN /\ done \in BOOLEAN /\ late \in BOOLEAN
  /\ reader \in {"none", "reading", "offering", "ended"}
  /\ worker \in {"none", "waiting", "handling", "ended"}

Carried ==
  /\ wire \in Seq(Frame) /\ sent \in 0..Len(Size)
  /\ offered \in Seq(Event) /\ pending \in Seq(Event)
  /\ queue \in Seq(Event) /\ handled \in Seq(Event)

Books ==
  /\ asked \subseteq Asked /\ counter \in Nat
  /\ handlers \in [Ids -> Requests \cup {NoOne}]
  /\ request \in [Requests -> Request]

LEMMA EventsMade ==
  /\ \A n \in Number : [n |-> n, parts |-> <<>>] \in Event
  /\ \A e \in Event : \A p \in Part :
       /\ [e EXCEPT !.parts = Append(@, p)] \in Event
       /\ [e EXCEPT !.parts = Append(@, p)].n = e.n
       /\ [e EXCEPT !.parts = Append(@, p)].parts = Append(e.parts, p)
<1>1. \A n \in Number : [n |-> n, parts |-> <<>>] \in Event
  BY EmptySeq DEF Event
<1>2. ASSUME NEW e \in Event, NEW p \in Part
      PROVE  /\ [e EXCEPT !.parts = Append(@, p)] \in Event
             /\ [e EXCEPT !.parts = Append(@, p)].n = e.n
             /\ [e EXCEPT !.parts = Append(@, p)].parts = Append(e.parts, p)
  <2>1. Append(e.parts, p) \in Seq(Part)
    BY DEF Event
  <2> QED BY <2>1 DEF Event
<1> QED BY <1>1, <1>2

LEMMA EventFields ==
  \A e \in Event : e.n \in Number /\ e.n \in Nat /\ e.parts \in Seq(Part) /\ Len(e.parts) \in Nat
                   /\ Size[e.n] \in Nat
  BY Sizes, LenProperties DEF Event

LEMMA OneEvent ==
  ASSUME NEW e \in Event
  PROVE  <<e>> \in Seq(Event) /\ Len(<<e>>) = 1 /\ <<e>>[1] = e /\ <<e>> # <<>> /\ Head(<<e>>) = e
  OBVIOUS

LEMMA NoEvents == <<>> \in Seq(Event) /\ <<>> \in Seq(Frame) /\ Len(<<>>) = 0
  BY EmptySeq

LEMMA ConcatEvents ==
  ASSUME NEW s \in Seq(Event), NEW t \in Seq(Event)
  PROVE  /\ s \o t \in Seq(Event) /\ Len(s \o t) = Len(s) + Len(t)
         /\ \A i \in 1..(Len(s) + Len(t)) : (s \o t)[i] = IF i <= Len(s) THEN s[i] ELSE t[i - Len(s)]
  BY ConcatProperties

\* What the gateway sends arrives behind what is under way.
LEMMA Sending ==
  ASSUME wire \in Seq(Frame), NEW b \in Seq(Frame), Deliver(b)
  PROVE  /\ wire' \in Seq(Frame) /\ Len(wire') = Len(wire) + Len(b) /\ ~done
         /\ \A i \in 1..Len(wire) : wire'[i] = wire[i]
         /\ \A i \in 1..Len(b) : wire'[Len(wire) + i] = b[i]
         /\ \A i \in 1..Len(wire') : i > Len(wire) => wire'[i] = b[i - Len(wire)]
<1>1. wire' = wire \o b /\ ~done
  BY DEF Deliver, Live
<1>2. /\ wire' \in Seq(Frame) /\ Len(wire') = Len(wire) + Len(b) /\ Len(wire) \in Nat /\ Len(b) \in Nat
      /\ \A i \in 1..Len(wire') : wire'[i] = IF i <= Len(wire) THEN wire[i] ELSE b[i - Len(wire)]
  BY <1>1, ConcatProperties, LenProperties
<1>3. \A i \in 1..Len(wire) : i \in 1..Len(wire')
  BY <1>2
<1>4. ASSUME NEW i \in 1..Len(b) PROVE wire'[Len(wire) + i] = b[i]
  <2>1. Len(wire) + i \in 1..Len(wire') /\ ~(Len(wire) + i <= Len(wire)) /\ (Len(wire) + i) - Len(wire) = i
    BY <1>2
  <2> QED BY <1>2, <2>1
<1>5. ASSUME NEW i \in 1..Len(wire'), i > Len(wire) PROVE wire'[i] = b[i - Len(wire)]
  BY <1>2, <1>5
<1>6. \A i \in 1..Len(wire) : wire'[i] = wire[i]
  BY <1>2, <1>3
<1> QED BY <1>1, <1>2, <1>4, <1>5, <1>6

-----------------------------------------------------------------------------
(* Joining events with their attachments, and counting them.               *)

PartsInOrder(e) == \A j \in 1..Len(e.parts) : e.parts[j] = <<e.n, j>>
AllWhole(s) == \A i \in 1..Len(s) : Whole(s[i])

\* The event that waits for attachments, and the next of them.
Awaited ==
  /\ Len(pending) = 1
  /\ Len(pending[1].parts) < Size[pending[1].n] /\ PartsInOrder(pending[1])
  /\ wire # <<>> /\ wire[1] = Attachment(pending[1].n, Len(pending[1].parts) + 1)

Assembly ==
  /\ Follows(wire)
  /\ reader = "offering" => Len(offered) = 1
  /\ reader # "offering" => offered = <<>>
  /\ pending # <<>> => Awaited
  /\ AllWhole(handled) /\ AllWhole(queue) /\ AllWhole(offered)

From(s, k) == \A i \in 1..Len(s) : s[i].n = k + i

Counted ==
  LET q == Len(handled)
      o == q + Len(queue)
      p == o + Len(offered)
      w == p + Len(pending)
  IN /\ From(handled, 0) /\ From(queue, q) /\ From(offered, o) /\ From(pending, p)
     /\ w <= sent /\ Ordered(wire, w, sent)

Counting == ~done => Counted

\* Steps that move no frame and no event.
LEMMA QuietEvents ==
  ASSUME Carried, Assembly, Counting, done => done',
         UNCHANGED <<wire, sent, reader, offered, pending, queue, handled>>
  PROVE  Carried' /\ Assembly' /\ Counting'
<1>1. Carried'
  BY DEF Carried
<1>2. Assembly'
  BY DEF Assembly, Awaited, AllWhole, Follows, Whole, PartsInOrder
<1>3. Counted => Counted'
  BY DEF Counted, From, Ordered
<1> QED BY <1>1, <1>2, <1>3 DEF Counting

\* A frame that is no event and no attachment is sent.
LEMMA SendOne ==
  ASSUME Carried, Assembly, Counting, NEW f \in Frame, f.type \notin {"event", "attachment"},
         Deliver(<<f>>), UNCHANGED <<sent, done, reader, offered, pending, queue, handled>>
  PROVE  Carried' /\ Assembly' /\ Counting'
<1>1. <<f>> \in Seq(Frame) /\ wire' = wire \o <<f>> /\ wire \in Seq(Frame)
  BY One DEF Deliver, Carried
<1>2. /\ wire' \in Seq(Frame) /\ \A i \in 1..Len(wire) : wire'[i] = wire[i]
      /\ Len(wire') = Len(wire) + 1
  BY <1>1, One, Sending
<1>3. Follows(wire')
  BY <1>1, FollowsOne, FollowsConcat DEF Assembly
<1>4. Counted => Ordered(wire', Len(handled) + Len(queue) + Len(offered) + Len(pending), sent)
  <2> SUFFICES ASSUME Counted
               PROVE  Ordered(wire', Len(handled) + Len(queue) + Len(offered) + Len(pending), sent)
    OBVIOUS
  <2> DEFINE w == Len(handled) + Len(queue) + Len(offered) + Len(pending)
  <2>1. w \in Nat /\ sent \in Nat /\ sent <= sent
    BY LenProperties, Sizes DEF Carried
  <2>2. Ordered(wire, w, sent) /\ w <= sent
    BY DEF Counted
  <2>3. Ordered(<<f>>, sent, sent)
    BY <2>1, OrderedOne
  <2> HIDE DEF w
  <2>4. Ordered(wire \o <<f>>, w, sent)
    BY <1>1, <2>1, <2>2, <2>3, OrderedConcat
  <2> QED BY <1>1, <2>4 DEF w
<1>5. Carried'
  BY <1>2 DEF Carried
<1>6. Assembly'
  <2>1. pending # <<>> => wire' # <<>> /\ wire'[1] = wire[1]
    <3>1. ASSUME pending # <<>> PROVE wire' # <<>> /\ wire'[1] = wire[1]
      <4>1. wire # <<>>
        BY <3>1 DEF Assembly, Awaited
      <4>2. 1 \in 1..Len(wire) /\ Len(wire') # 0
        BY <1>1, <1>2, <4>1, LenProperties, EmptySeq
      <4> QED BY <1>2, <4>2, EmptySeq
    <3> QED BY <3>1
  <2>2. pending' = pending /\ (Awaited => pending # <<>>)
    BY NoEvents DEF Awaited
  <2>3. pending # <<>> => Awaited'
    BY <2>1, <2>2 DEF Assembly, Awaited, PartsInOrder
  <2> QED BY <1>3, <2>3 DEF Assembly, AllWhole, Whole
<1>7. Counting'
  BY <1>4 DEF Counting, Counted, From
<1> QED BY <1>5, <1>6, <1>7

\* A frame that is no event and no attachment is read.
LEMMA ReadOne ==
  ASSUME Carried, Assembly, Counting, wire # <<>>, wire' = Tail(wire),
         Head(wire).type \notin {"event", "attachment"}, done => done',
         reader = "reading", reader' \in {"reading", "ended"},
         UNCHANGED <<sent, offered, pending, queue, handled>>
  PROVE  Carried' /\ Assembly' /\ Counting'
<1>1. wire \in Seq(Frame) /\ Head(wire) = wire[1] /\ Tail(wire) \in Seq(Frame)
  BY TailIndices DEF Carried
<1>2. pending = <<>>
  BY <1>1, AttachmentFields DEF Assembly, Awaited
<1>3. Follows(wire')
  BY <1>1, FollowsTail DEF Assembly
<1>4. offered = <<>>
  BY DEF Assembly
<1>5. Carried'
  BY <1>1 DEF Carried
<1>6. Assembly'
  BY <1>2, <1>3, <1>4 DEF Assembly, AllWhole, Whole
<1>7. Counted => Counted'
  <2> SUFFICES ASSUME Counted PROVE Counted'
    OBVIOUS
  <2> DEFINE w == Len(handled) + Len(queue) + Len(offered) + Len(pending)
  <2>1. w \in Nat /\ sent \in Nat
    BY LenProperties, Sizes DEF Carried
  <2>2. Ordered(wire, w, sent)
    BY DEF Counted
  <2> HIDE DEF w
  <2>3. Ordered(Tail(wire), w, sent)
    BY <1>1, <2>1, <2>2, OrderedTail
  <2> QED BY <2>3 DEF Counted, From, w
<1> QED BY <1>5, <1>6, <1>7 DEF Counting

LEMMA DialEvents ==
  ASSUME Dial
  PROVE  Carried' /\ Assembly' /\ Counting'
<1>1. /\ wire' = <<>> /\ sent' = 0 /\ reader' = "reading"
      /\ offered' = <<>> /\ pending' = <<>> /\ queue' = <<>> /\ handled' = <<>>
  BY DEF Dial
<1>2. Carried'
  BY <1>1, NoEvents, Sizes DEF Carried
<1>3. Assembly'
  BY <1>1, NoEvents, FollowsNone DEF Assembly, AllWhole, Follows
<1>4. Counting'
  <2>1. Ordered(<<>>, 0, 0)
    BY OrderedNone
  <2> QED BY <1>1, <2>1, NoEvents DEF Counting, Counted, From, Ordered
<1> QED BY <1>2, <1>3, <1>4

LEMMA SendEvent ==
  ASSUME Carried, Assembly, Counting, GatewaySendsEvent
  PROVE  Carried' /\ Assembly' /\ Counting'
<1> DEFINE n == sent + 1
           b == EventFrames(n)
<1>1. /\ sent < Len(Size) /\ sent' = n /\ Deliver(b)
      /\ UNCHANGED <<done, reader, offered, pending, queue, handled>>
  BY DEF GatewaySendsEvent, flags, eventVars
<1>2. sent \in Nat /\ n \in Number /\ n \in Nat /\ n - 1 = sent /\ n \in 0..Len(Size)
  BY <1>1, Sizes DEF Carried
<1>3. b \in Seq(Frame) /\ Follows(b) /\ Ordered(b, sent, n) /\ Len(b) \in Nat
  BY <1>2, Burst, FollowsBurst, OrderedBurst, LenProperties
<1> HIDE DEF n, b
<1>4. wire \in Seq(Frame) /\ wire' = wire \o b
  BY <1>1 DEF Deliver, Carried
<1>5. /\ wire' \in Seq(Frame) /\ \A i \in 1..Len(wire) : wire'[i] = wire[i]
      /\ Len(wire') = Len(wire) + Len(b)
  BY <1>1, <1>3, <1>4, Sending
<1>6. Carried'
  BY <1>1, <1>2, <1>5 DEF Carried
<1>7. Assembly'
  <2>1. Follows(wire')
    BY <1>3, <1>4, FollowsConcat DEF Assembly
  <2>2. pending # <<>> => wire' # <<>> /\ wire'[1] = wire[1]
    <3>1. ASSUME pending # <<>> PROVE wire' # <<>> /\ wire'[1] = wire[1]
      <4>1. wire # <<>>
        BY <3>1 DEF Assembly, Awaited
      <4>2. 1 \in 1..Len(wire) /\ Len(wire') # 0
        BY <1>3, <1>4, <1>5, <4>1, LenProperties, EmptySeq
      <4> QED BY <1>5, <4>2, EmptySeq
    <3> QED BY <3>1
  <2>3. pending # <<>> => Awaited'
    BY <1>1, <2>2 DEF Assembly, Awaited, PartsInOrder
  <2> QED BY <1>1, <2>1, <2>3 DEF Assembly, AllWhole, Whole
<1>8. Counted => Counted'
  <2> SUFFICES ASSUME Counted PROVE Counted'
    OBVIOUS
  <2> DEFINE w == Len(handled) + Len(queue) + Len(offered) + Len(pending)
  <2>1. w \in Nat
    BY LenProperties DEF Carried
  <2>2. Ordered(wire, w, sent) /\ w <= sent /\ sent <= n /\ w <= n
    BY <1>2, <2>1 DEF Counted
  <2> HIDE DEF w
  <2>3. Ordered(wire \o b, w, n)
    BY <1>2, <1>3, <1>4, <2>1, <2>2, OrderedConcat
  <2> QED BY <1>1, <1>4, <2>2, <2>3 DEF Counted, From, w
<1> QED BY <1>1, <1>6, <1>7, <1>8 DEF Counting

LEMMA ReadFailsEvents ==
  ASSUME Carried, Assembly, Counting, ReadFails
  PROVE  Carried' /\ Assembly' /\ Counting'
<1>1. /\ reader = "reading" /\ reader' = "ended" /\ done' = TRUE
      /\ UNCHANGED <<wire, sent, offered, pending, queue, handled>>
  BY DEF ReadFails, Close, gatewayVars, eventVars
<1>2. Carried'
  BY <1>1 DEF Carried
<1>3. Assembly'
  <2>1. offered' = <<>>
    BY <1>1 DEF Assembly
  <2>2. pending # <<>> => Awaited'
    BY <1>1 DEF Assembly, Awaited, PartsInOrder
  <2> QED BY <1>1, <2>1, <2>2 DEF Assembly, Follows, AllWhole, Whole
<1> QED BY <1>1, <1>2, <1>3 DEF Counting

\* What a reading step has taken from the wire and what is left.
LEMMA Taken ==
  ASSUME Carried, Assembly, NEW t, Take(t)
  PROVE  /\ reader = "reading" /\ offered = <<>> /\ wire # <<>> /\ wire' = Tail(wire)
         /\ wire \in Seq(Frame) /\ Head(wire) = wire[1] /\ Head(wire) \in Frame /\ Head(wire).type = t
         /\ wire' \in Seq(Frame) /\ Len(wire) \in Nat /\ Len(wire) > 0 /\ Len(wire') = Len(wire) - 1
         /\ \A i \in 1..Len(wire') : wire'[i] = wire[i + 1]
         /\ Follows(wire')
<1>1. /\ reader = "reading" /\ wire # <<>> /\ wire' = Tail(wire) /\ Head(wire).type = t
      /\ wire \in Seq(Frame) /\ Follows(wire) /\ offered = <<>>
  BY DEF Take, Carried, Assembly
<1>2. Follows(wire')
  BY <1>1, FollowsTail
<1> QED BY <1>1, <1>2, TailIndices

LEMMA ReadEventEvents ==
  ASSUME Carried, Assembly, Counting, ReadEvent
  PROVE  Carried' /\ Assembly' /\ Counting'
<1> DEFINE f == Head(wire)
           e == [n |-> f.n, parts |-> <<>>]
<1>1. /\ Take("event")
      /\ \/ Size[f.n] = 0 /\ Offer(e) /\ UNCHANGED pending
         \/ Size[f.n] > 0 /\ pending' = <<e>> /\ UNCHANGED <<reader, offered>>
      /\ UNCHANGED <<sent, done, queue, handled>>
  BY DEF ReadEvent, flags
<1>2. f = wire[1] /\ f \in Frame /\ f.type = "event" /\ f.n \in Number /\ e \in Event
  BY <1>1, Taken, FrameTypes, EventsMade
<1>3. pending = <<>> /\ offered = <<>> /\ reader = "reading"
  BY <1>1, <1>2, Taken, AttachmentFields DEF Assembly, Awaited
<1>4. e.n = f.n /\ e.parts = <<>> /\ Len(e.parts) = 0
  BY NoEvents
<1>5. Size[f.n] \in Nat /\ Len(wire) \in Nat /\ Len(wire) > 0 /\ 1 \in 1..Len(wire)
  BY <1>1, <1>2, Sizes, Taken
<1>6. /\ wire' \in Seq(Frame) /\ Follows(wire') /\ Len(wire') = Len(wire) - 1
      /\ wire' = Tail(wire) /\ wire \in Seq(Frame) /\ wire # <<>>
      /\ \A i \in 1..Len(wire') : wire'[i] = wire[i + 1]
  BY <1>1, Taken
<1> HIDE DEF e
<1>7. <<e>> \in Seq(Event) /\ Len(<<e>>) = 1 /\ <<e>>[1] = e /\ <<e>> # <<>>
  BY <1>2, OneEvent
<1>8. ASSUME Counted
      PROVE  /\ f.n = Len(handled) + Len(queue) + 1 /\ f.n <= sent /\ f.n \in Nat
             /\ Ordered(wire', f.n, sent)
  <2> DEFINE w == Len(handled) + Len(queue) + Len(offered) + Len(pending)
  <2>1. w \in Nat /\ sent \in Nat /\ w = Len(handled) + Len(queue)
    BY <1>3, NoEvents, LenProperties, Sizes DEF Carried
  <2>2. Ordered(wire, w, sent)
    BY <1>8 DEF Counted
  <2> HIDE DEF w
  <2>3. f.n = w + 1 /\ w < sent /\ Ordered(Tail(wire), w + 1, sent)
    BY <1>2, <1>6, <2>1, <2>2, OrderedTail
  <2> QED BY <1>6, <2>1, <2>3
<1>9. CASE Size[f.n] = 0 /\ Offer(e) /\ UNCHANGED pending
  <2>1. reader' = "offering" /\ offered' = <<e>> /\ pending' = <<>>
    BY <1>3, <1>9 DEF Offer
  <2>2. Carried'
    BY <1>1, <1>6, <1>7, <2>1, NoEvents DEF Carried
  <2>3. Whole(e)
    BY <1>4, <1>9 DEF Whole
  <2>4. AllWhole(<<e>>)
    <3>1. \A i \in 1..Len(<<e>>) : i = 1
      BY <1>7
    <3> QED BY <1>7, <2>3, <3>1 DEF AllWhole
  <2>5. Assembly'
    BY <1>1, <1>6, <1>7, <2>1, <2>4 DEF Assembly, AllWhole, Whole
  <2>6. Counted => Counted'
    <3> SUFFICES ASSUME Counted PROVE Counted'
      OBVIOUS
    <3> DEFINE o == Len(handled) + Len(queue)
    <3>1. o \in Nat /\ f.n = o + 1 /\ f.n <= sent /\ Ordered(wire', o + 1, sent)
      BY <1>8, LenProperties DEF Carried
    <3>2. From(<<e>>, o)
      <4>1. \A i \in 1..Len(<<e>>) : i = 1
        BY <1>7
      <4> QED BY <1>4, <1>7, <3>1, <4>1 DEF From
    <3>3. From(handled, 0) /\ From(queue, Len(handled)) /\ From(<<>>, o + 1)
      BY NoEvents DEF Counted, From
    <3>4. o + 1 + 0 = o + 1
      BY <3>1
    <3>5. /\ From(handled', 0) /\ From(queue', Len(handled')) /\ From(offered', Len(handled') + Len(queue'))
          /\ From(pending', Len(handled') + Len(queue') + Len(offered'))
      BY <1>1, <1>7, <2>1, <3>2, <3>3
    <3>6. Len(handled') + Len(queue') + Len(offered') + Len(pending') = o + 1
      BY <1>1, <1>7, <2>1, <3>1, NoEvents
    <3>7. o + 1 <= sent' /\ Ordered(wire', o + 1, sent')
      BY <1>1, <3>1
    <3> HIDE DEF o
    <3> QED BY <3>5, <3>6, <3>7 DEF Counted, From, Ordered
  <2> QED BY <1>1, <2>2, <2>5, <2>6 DEF Counting
<1>10. CASE Size[f.n] > 0 /\ pending' = <<e>> /\ UNCHANGED <<reader, offered>>
  <2>1. reader' = "reading" /\ offered' = <<>> /\ pending' = <<e>>
    BY <1>3, <1>10
  <2>2. Carried'
    BY <1>1, <1>6, <1>7, <2>1, NoEvents DEF Carried
  <2>3. 1 < Len(wire) /\ wire[2] = Attachment(f.n, 1)
    <3>1. 1 < Len(wire) /\ wire[1 + 1] = Attachment(f.n, 1)
      BY <1>2, <1>5, <1>10 DEF Assembly, Follows
    <3> QED BY <3>1
  <2>4. wire' # <<>> /\ wire'[1] = Attachment(f.n, 1)
    <3>1. 1 \in 1..Len(wire')
      BY <1>5, <1>6, <2>3
    <3>2. wire'[1] = wire[1 + 1] /\ Len(wire') > 0
      BY <1>6, <3>1
    <3> QED BY <2>3, <3>2, NoEvents
  <2>5. Awaited'
    <3>1. Len(<<e>>) = 1 /\ <<e>>[1] = e /\ e.n = f.n /\ Len(e.parts) = 0 /\ 0 + 1 = 1
      BY <1>4, <1>7
    <3>2. PartsInOrder(e)
      BY <1>4 DEF PartsInOrder
    <3> QED BY <1>10, <2>4, <3>1, <3>2 DEF Awaited, PartsInOrder
  <2>6. Assembly'
    BY SMTT(30), <1>1, <1>6, <2>1, <2>5, NoEvents DEF Assembly, AllWhole, Whole
  <2>7. Counted => Counted'
    <3> SUFFICES ASSUME Counted PROVE Counted'
      OBVIOUS
    <3> DEFINE o == Len(handled) + Len(queue)
    <3>1. o \in Nat /\ f.n = o + 1 /\ f.n <= sent /\ Ordered(wire', o + 1, sent) /\ o + 0 = o
      BY <1>8, LenProperties DEF Carried
    <3>2. From(<<e>>, o)
      <4>1. \A i \in 1..Len(<<e>>) : i = 1
        BY <1>7
      <4> QED BY <1>4, <1>7, <3>1, <4>1 DEF From
    <3>3. From(handled, 0) /\ From(queue, Len(handled)) /\ From(<<>>, o)
      BY NoEvents DEF Counted, From
    <3>4. Len(handled') + Len(queue') + Len(offered') = o
      BY <1>1, <2>1, <3>1, NoEvents
    <3>5. /\ From(handled', 0) /\ From(queue', Len(handled')) /\ From(offered', Len(handled') + Len(queue'))
          /\ From(pending', Len(handled') + Len(queue') + Len(offered'))
      BY <1>1, <2>1, <3>2, <3>3, <3>4
    <3>6. Len(handled') + Len(queue') + Len(offered') + Len(pending') = o + 1
      BY <1>7, <2>1, <3>4
    <3>7. o + 1 <= sent' /\ Ordered(wire', o + 1, sent')
      BY <1>1, <3>1
    <3> HIDE DEF o
    <3> QED BY <3>5, <3>6, <3>7 DEF Counted, From, Ordered
  <2> QED BY <1>1, <2>2, <2>6, <2>7 DEF Counting
<1> QED BY <1>1, <1>9, <1>10

LEMMA ReadAttachmentEvents ==
  ASSUME Carried, Assembly, Counting, ReadAttachment
  PROVE  Carried' /\ Assembly' /\ Counting'
<1> DEFINE d == Head(pending)
           e == [d EXCEPT !.parts = Append(@, Head(wire).part)]
<1>1. /\ Take("attachment") /\ pending # <<>>
      /\ \/ Len(e.parts) < Size[e.n] /\ pending' = <<e>> /\ UNCHANGED <<reader, offered>>
         \/ Len(e.parts) >= Size[e.n] /\ pending' = <<>> /\ Offer(e)
      /\ UNCHANGED <<sent, done, queue, handled>>
  BY DEF ReadAttachment, flags
<1>2. pending \in Seq(Event) /\ Len(pending) = 1 /\ d = pending[1] /\ d \in Event /\ 1 \in 1..Len(pending)
  <2>1. pending \in Seq(Event) /\ Awaited
    BY <1>1 DEF Carried, Assembly
  <2> QED BY <1>1, <2>1, HeadTailProperties DEF Awaited
<1> HIDE DEF d
<1>3. /\ Len(d.parts) \in Nat /\ Size[d.n] \in Nat /\ d.parts \in Seq(Part) /\ d.n \in Number
      /\ Len(d.parts) < Size[d.n] /\ PartsInOrder(d)
      /\ wire[1] = Attachment(d.n, Len(d.parts) + 1)
  BY <1>1, <1>2, EventFields DEF Assembly, Awaited
<1>4. /\ wire \in Seq(Frame) /\ Head(wire) = wire[1] /\ Head(wire) \in Frame /\ wire' = Tail(wire)
      /\ wire # <<>> /\ Len(wire) \in Nat /\ Len(wire) > 0 /\ 1 \in 1..Len(wire)
      /\ wire' \in Seq(Frame) /\ Follows(wire') /\ Len(wire') = Len(wire) - 1
      /\ reader = "reading" /\ offered = <<>> /\ Head(wire).type = "attachment"
      /\ \A i \in 1..Len(wire') : wire'[i] = wire[i + 1]
  BY <1>1, Taken
<1>5. /\ Head(wire).part \in Part /\ Head(wire).part = <<d.n, Len(d.parts) + 1>>
      /\ wire[1].type = "attachment" /\ wire[1].part[1] = d.n /\ wire[1].part[2] = Len(d.parts) + 1
  BY <1>3, <1>4, FrameTypes, AttachmentFields
<1>6. e \in Event /\ e.n = d.n /\ e.parts = Append(d.parts, <<d.n, Len(d.parts) + 1>>)
  BY <1>2, <1>5, EventsMade
<1> HIDE DEF e
<1>7. Len(e.parts) = Len(d.parts) + 1 /\ PartsInOrder(e)
  <2>1. /\ Len(e.parts) = Len(d.parts) + 1
        /\ \A j \in 1..Len(d.parts) : e.parts[j] = d.parts[j]
        /\ e.parts[Len(d.parts) + 1] = <<d.n, Len(d.parts) + 1>>
    BY <1>3, <1>6
  <2>2. ASSUME NEW j \in 1..Len(e.parts) PROVE e.parts[j] = <<e.n, j>>
    <3>1. CASE j = Len(d.parts) + 1
      BY <1>6, <2>1, <3>1
    <3>2. CASE j # Len(d.parts) + 1
      <4>1. j \in 1..Len(d.parts)
        BY <1>3, <2>1, <3>2
      <4> QED BY <1>3, <1>6, <2>1, <4>1 DEF PartsInOrder
    <3> QED BY <3>1, <3>2
  <2> QED BY <2>1, <2>2 DEF PartsInOrder
<1>8. <<e>> \in Seq(Event) /\ Len(<<e>>) = 1 /\ <<e>>[1] = e /\ <<e>> # <<>>
  BY <1>6, OneEvent
<1>9. ASSUME Counted
      PROVE  /\ From(<<e>>, Len(handled) + Len(queue))
             /\ Len(handled) + Len(queue) + 1 <= sent
             /\ Ordered(wire', Len(handled) + Len(queue) + 1, sent)
  <2> DEFINE o == Len(handled) + Len(queue)
  <2>1. o \in Nat /\ sent \in Nat /\ o + 0 = o /\ Len(offered) = 0
    BY <1>4, NoEvents, LenProperties, Sizes DEF Carried
  <2>2. Len(handled) + Len(queue) + Len(offered) + Len(pending) = o + 1
    BY <1>2, <2>1
  <2>3. Ordered(wire, o + 1, sent) /\ o + 1 <= sent /\ d.n = o + 1
    <3>1. Ordered(wire, o + 1, sent) /\ o + 1 <= sent
      BY <1>9, <2>2 DEF Counted
    <3>2. From(pending, o)
      BY <1>9, <2>1 DEF Counted
    <3> QED BY <1>2, <3>1, <3>2 DEF From
  <2> HIDE DEF o
  <2>4. Ordered(Tail(wire), o + 1, sent)
    <3>1. o + 1 \in Nat /\ Head(wire).type # "event"
      BY <1>4, <2>1
    <3> QED BY <1>4, <2>1, <2>3, <3>1, OrderedTail
  <2>5. From(<<e>>, o)
    <3>1. \A i \in 1..Len(<<e>>) : i = 1
      BY <1>8
    <3> QED BY <1>6, <1>8, <2>3, <3>1 DEF From
  <2> QED BY <1>4, <2>3, <2>4, <2>5 DEF o
<1>10. Len(handled) \in Nat /\ Len(queue) \in Nat /\ offered = <<>> /\ Len(offered) = 0
  BY <1>4, NoEvents, LenProperties DEF Carried
<1>11. CASE Len(e.parts) >= Size[e.n] /\ pending' = <<>> /\ Offer(e)
  <2>1. reader' = "offering" /\ offered' = <<e>> /\ pending' = <<>>
    BY <1>11 DEF Offer
  <2>2. Carried'
    BY <1>1, <1>4, <1>8, <2>1, NoEvents DEF Carried
  <2>3. Whole(e)
    BY <1>3, <1>6, <1>7, <1>11 DEF Whole, PartsInOrder
  <2>4. AllWhole(<<e>>)
    <3>1. \A i \in 1..Len(<<e>>) : i = 1
      BY <1>8
    <3> QED BY <1>8, <2>3, <3>1 DEF AllWhole
  <2>5. Assembly'
    BY <1>1, <1>4, <1>8, <2>1, <2>4 DEF Assembly, AllWhole, Whole
  <2>6. Counted => Counted'
    <3> SUFFICES ASSUME Counted PROVE Counted'
      OBVIOUS
    <3>1. /\ From(handled', 0) /\ From(queue', Len(handled')) /\ From(offered', Len(handled') + Len(queue'))
          /\ From(pending', Len(handled') + Len(queue') + Len(offered'))
      BY <1>1, <1>9, <2>1, NoEvents DEF Counted, From
    <3>2. Len(handled') + Len(queue') + Len(offered') + Len(pending') = Len(handled) + Len(queue) + 1
      BY <1>1, <1>8, <1>10, <2>1, NoEvents
    <3>3. /\ Len(handled') + Len(queue') + Len(offered') + Len(pending') <= sent'
          /\ Ordered(wire', Len(handled') + Len(queue') + Len(offered') + Len(pending'), sent')
      BY <1>1, <1>9, <3>2
    <3> QED BY <3>1, <3>3 DEF Counted, From, Ordered
  <2> QED BY <1>1, <2>2, <2>5, <2>6 DEF Counting
<1>12. CASE Len(e.parts) < Size[e.n] /\ pending' = <<e>> /\ UNCHANGED <<reader, offered>>
  <2>1. reader' = "reading" /\ offered' = <<>> /\ pending' = <<e>>
    BY <1>4, <1>12
  <2>2. Carried'
    BY <1>1, <1>4, <1>8, <2>1, NoEvents DEF Carried
  <2>3. wire' # <<>> /\ wire'[1] = Attachment(d.n, (Len(d.parts) + 1) + 1)
    <3>1. 1 < Len(wire) /\ wire[1 + 1] = Attachment(d.n, (Len(d.parts) + 1) + 1)
      BY <1>4, <1>5, <1>6, <1>7, <1>12 DEF Assembly, Follows
    <3>2. 1 \in 1..Len(wire') /\ Len(wire') > 0
      BY <1>4, <3>1
    <3>3. wire'[1] = wire[1 + 1]
      BY <1>4, <3>2
    <3> QED BY <3>1, <3>2, <3>3, NoEvents
  <2>4. Awaited'
    BY <1>6, <1>7, <1>8, <1>12, <2>1, <2>3 DEF Awaited, PartsInOrder
  <2>5. Assembly'
    <3>1. Follows(wire') /\ UNCHANGED <<queue, handled>>
      BY <1>1, <1>4
    <3>2. AllWhole(handled') /\ AllWhole(queue') /\ AllWhole(offered')
      BY <2>1, <3>1, NoEvents DEF Assembly, AllWhole
    <3> QED BY <2>1, <2>4, <3>1, <3>2 DEF Assembly, AllWhole, Whole, Follows
  <2>6. Counted => Counted'
    <3> SUFFICES ASSUME Counted PROVE Counted'
      OBVIOUS
    <3>1. Len(handled') + Len(queue') + Len(offered') = Len(handled) + Len(queue)
      BY <1>1, <1>10, <2>1, NoEvents
    <3>2. /\ From(handled', 0) /\ From(queue', Len(handled')) /\ From(offered', Len(handled') + Len(queue'))
          /\ From(pending', Len(handled') + Len(queue') + Len(offered'))
      BY <1>1, <1>9, <2>1, <3>1, NoEvents DEF Counted, From
    <3>3. Len(handled') + Len(queue') + Len(offered') + Len(pending') = Len(handled) + Len(queue) + 1
      BY <1>8, <2>1, <3>1
    <3>4. /\ Len(handled') + Len(queue') + Len(offered') + Len(pending') <= sent'
          /\ Ordered(wire', Len(handled') + Len(queue') + Len(offered') + Len(pending'), sent')
      BY <1>1, <1>9, <3>3
    <3> QED BY <3>2, <3>4 DEF Counted, From, Ordered
  <2> QED BY <1>1, <2>2, <2>5, <2>6 DEF Counting
<1> QED BY <1>1, <1>11, <1>12

LEMMA EnqueueEvents ==
  ASSUME Carried, Assembly, Counting, Enqueue
  PROVE  Carried' /\ Assembly' /\ Counting'
<1>1. /\ queue' = queue \o offered /\ offered' = <<>> /\ reader' = "reading" /\ Len(offered) = 1
      /\ UNCHANGED <<wire, sent, done, pending, handled>>
  BY DEF Enqueue, gatewayVars, flags, Assembly
<1>2. queue \in Seq(Event) /\ offered \in Seq(Event) /\ Len(queue) \in Nat /\ Len(handled) \in Nat
  BY LenProperties DEF Carried
<1>3. /\ queue' \in Seq(Event) /\ Len(queue') = Len(queue) + 1
      /\ \A i \in 1..Len(queue') : queue'[i] = IF i <= Len(queue) THEN queue[i] ELSE offered[i - Len(queue)]
  <2>1. queue \o offered \in Seq(Event) /\ Len(queue \o offered) = Len(queue) + 1
    BY <1>1, <1>2, ConcatEvents
  <2>2. \A i \in 1..(Len(queue) + Len(offered)) :
          (queue \o offered)[i] = IF i <= Len(queue) THEN queue[i] ELSE offered[i - Len(queue)]
    BY <1>2, ConcatEvents
  <2> QED BY <1>1, <2>1, <2>2
<1>4. ASSUME NEW i \in 1..Len(queue')
      PROVE  (i \in 1..Len(queue) /\ queue'[i] = queue[i]) \/ (i = Len(queue) + 1 /\ queue'[i] = offered[1])
  <2>1. CASE i <= Len(queue)
    BY <1>2, <1>3, <2>1
  <2>2. CASE ~(i <= Len(queue))
    <3>1. i = Len(queue) + 1 /\ i - Len(queue) = 1
      BY <1>2, <1>3, <2>2
    <3> QED BY <1>3, <2>2, <3>1
  <2> QED BY <2>1, <2>2
<1>5. Carried'
  BY <1>1, <1>3, NoEvents DEF Carried
<1>6. 1 \in 1..Len(offered)
  BY <1>1
<1>7. AllWhole(queue')
  BY <1>4, <1>6 DEF Assembly, AllWhole
<1>8. pending # <<>> => Awaited'
  BY <1>1 DEF Assembly, Awaited, PartsInOrder
<1>9. Assembly'
  <2>1. AllWhole(offered') /\ AllWhole(handled') /\ Follows(wire')
    BY <1>1, NoEvents DEF Assembly, AllWhole, Follows, Whole
  <2> QED BY <1>1, <1>7, <1>8, <2>1 DEF Assembly
<1>10. Counted => Counted'
  <2> SUFFICES ASSUME Counted PROVE Counted'
    OBVIOUS
  <2>1. From(queue', Len(handled))
    <3>1. offered[1].n = (Len(handled) + Len(queue)) + 1
      BY <1>6 DEF Counted, From
    <3>2. ASSUME NEW i \in 1..Len(queue') PROVE queue'[i].n = Len(handled) + i
      <4>1. CASE i \in 1..Len(queue) /\ queue'[i] = queue[i]
        BY <4>1 DEF Counted, From
      <4>2. CASE i = Len(queue) + 1 /\ queue'[i] = offered[1]
        <5>1. (Len(handled) + Len(queue)) + 1 = Len(handled) + (Len(queue) + 1)
          BY <1>2
        <5> QED BY <3>1, <4>2, <5>1
      <4> QED BY <1>4, <4>1, <4>2
    <3> QED BY <3>2 DEF From
  <2>2. Len(queue') = Len(queue) + Len(offered) /\ Len(offered') = 0
    BY <1>1, <1>3, NoEvents
  <2>3. Len(handled') + Len(queue') + Len(offered') = Len(handled) + Len(queue) + Len(offered)
    BY <1>1, <1>2, <2>2
  <2>4. From(offered', Len(handled') + Len(queue'))
    BY <1>1, <2>2 DEF From
  <2>5. From(handled', 0) /\ From(queue', Len(handled'))
    BY <1>1, <2>1 DEF Counted
  <2>6. /\ From(pending', Len(handled') + Len(queue') + Len(offered'))
        /\ Len(handled') + Len(queue') + Len(offered') + Len(pending') <= sent'
        /\ Ordered(wire', Len(handled') + Len(queue') + Len(offered') + Len(pending'), sent')
    BY <1>1, <2>3 DEF Counted
  <2> QED BY <2>4, <2>5, <2>6 DEF Counted, From, Ordered
<1> QED BY <1>1, <1>5, <1>9, <1>10 DEF Counting

LEMMA DropOfferedEvents ==
  ASSUME Carried, Assembly, Counting, DropOffered
  PROVE  Carried' /\ Assembly' /\ Counting'
<1>1. /\ done' /\ offered' = <<>> /\ reader' = "reading"
      /\ UNCHANGED <<wire, sent, pending, queue, handled>>
  BY DEF DropOffered, gatewayVars, flags
<1>2. Carried'
  BY <1>1, NoEvents DEF Carried
<1>3. pending # <<>> => Awaited'
  BY <1>1 DEF Assembly, Awaited, PartsInOrder
<1>4. Assembly'
  BY <1>1, <1>3, NoEvents DEF Assembly, AllWhole, Follows, Whole
<1> QED BY <1>1, <1>2, <1>4 DEF Counting

LEMMA DispatchEvents ==
  ASSUME Carried, Assembly, Counting, Dispatch
  PROVE  Carried' /\ Assembly' /\ Counting'
<1>1. /\ queue # <<>> /\ handled' = Append(handled, Head(queue)) /\ queue' = Tail(queue)
      /\ UNCHANGED <<wire, sent, done, reader, offered, pending>>
  BY DEF Dispatch, gatewayVars, flags
<1>2. /\ queue \in Seq(Event) /\ handled \in Seq(Event) /\ Len(queue) \in Nat /\ Len(handled) \in Nat
      /\ Len(queue) > 0 /\ Head(queue) = queue[1] /\ Head(queue) \in Event
      /\ queue' \in Seq(Event) /\ Len(queue') = Len(queue) - 1
      /\ \A i \in 1..Len(queue') : queue'[i] = queue[i + 1]
  BY <1>1, HeadTailProperties, LenProperties, EmptySeq DEF Carried
<1>3. /\ handled' \in Seq(Event) /\ Len(handled') = Len(handled) + 1
      /\ \A i \in 1..Len(handled) : handled'[i] = handled[i]
      /\ handled'[Len(handled) + 1] = queue[1]
  BY <1>1, <1>2
<1>4. ASSUME NEW i \in 1..Len(handled')
      PROVE  (i \in 1..Len(handled) /\ handled'[i] = handled[i])
             \/ (i = Len(handled) + 1 /\ handled'[i] = queue[1])
  BY <1>2, <1>3
<1>5. 1 \in 1..Len(queue) /\ \A i \in 1..Len(queue') : i + 1 \in 1..Len(queue)
  BY <1>2
<1>6. Carried'
  BY <1>1, <1>2, <1>3 DEF Carried
<1>7. AllWhole(handled') /\ AllWhole(queue')
  BY <1>2, <1>4, <1>5 DEF Assembly, AllWhole
<1>8. pending # <<>> => Awaited'
  BY <1>1 DEF Assembly, Awaited, PartsInOrder
<1>9. Assembly'
  BY <1>1, <1>7, <1>8 DEF Assembly, AllWhole, Follows, Whole
<1>10. Counted => Counted'
  <2> SUFFICES ASSUME Counted PROVE Counted'
    OBVIOUS
  <2>1. From(handled', 0)
    <3>1. queue[1].n = Len(handled) + 1
      BY <1>5 DEF Counted, From
    <3>2. \A i \in 1..Len(handled) : handled[i].n = 0 + i
      BY DEF Counted, From
    <3>3. ASSUME NEW i \in 1..Len(handled') PROVE handled'[i].n = 0 + i
      <4>1. CASE i \in 1..Len(handled) /\ handled'[i] = handled[i]
        BY <3>2, <4>1
      <4>2. CASE i = Len(handled) + 1 /\ handled'[i] = queue[1]
        BY <1>2, <3>1, <4>2
      <4> QED BY <1>4, <4>1, <4>2
    <3> QED BY <3>3 DEF From
  <2>2. From(queue', Len(handled'))
    <3>1. ASSUME NEW i \in 1..Len(queue') PROVE queue'[i].n = Len(handled') + i
      <4>1. queue[i + 1].n = Len(handled) + (i + 1)
        BY <1>5 DEF Counted, From
      <4> QED BY <1>2, <1>3, <4>1
    <3> QED BY <3>1 DEF From
  <2>3. Len(handled') + Len(queue') = Len(handled) + Len(queue)
    BY <1>2, <1>3
  <2>4. /\ From(offered', Len(handled') + Len(queue'))
        /\ From(pending', Len(handled') + Len(queue') + Len(offered'))
        /\ Len(handled') + Len(queue') + Len(offered') + Len(pending') <= sent'
        /\ Ordered(wire', Len(handled') + Len(queue') + Len(offered') + Len(pending'), sent')
    BY <1>1, <2>3 DEF Counted
  <2> QED BY <2>1, <2>2, <2>4 DEF Counted, From, Ordered
<1> QED BY <1>1, <1>6, <1>9, <1>10 DEF Counting

\* Every step keeps the events.
LEMMA EventsStep ==
  Carried /\ asked \subseteq Asked /\ Assembly /\ Counting /\ [Next]_vars
    => Carried' /\ Assembly' /\ Counting'
<1> SUFFICES ASSUME Carried, asked \subseteq Asked, Assembly, Counting, [Next]_vars
             PROVE  Carried' /\ Assembly' /\ Counting'
  OBVIOUS
<1> DEFINE Quiet == (done => done') /\ UNCHANGED <<wire, sent, reader, offered, pending, queue, handled>>
<1>q. Quiet => Carried' /\ Assembly' /\ Counting'
  BY QuietEvents
<1> USE DEF gatewayVars, eventVars, ackVars, flags
<1>1. CASE Dial
  BY <1>1, DialEvents
<1>2. CASE DialFails
  <2>1. Quiet
    BY <1>2 DEF DialFails
  <2> QED BY <1>q, <2>1
<1>3. CASE NamespaceReady
  <2>1. Quiet
    BY <1>3 DEF NamespaceReady
  <2> QED BY <1>q, <2>1
<1>4. CASE NamespaceTimeout
  <2>1. Quiet
    BY <1>4 DEF NamespaceTimeout, Close
  <2> QED BY <1>q, <2>1
<1>5. CASE NamespaceClosed
  <2>1. Quiet
    BY <1>5 DEF NamespaceClosed
  <2> QED BY <1>q, <2>1
<1>6. CASE OwnerCloses
  <2>1. Quiet
    BY <1>6 DEF OwnerCloses, Close
  <2> QED BY <1>q, <2>1
<1>7. CASE GatewaySends
  <2>1. /\ \E f \in {[type |-> "connect"], [type |-> "close"]} : Deliver(<<f>>)
        /\ UNCHANGED <<sent, done, reader, offered, pending, queue, handled>>
    BY <1>7 DEF GatewaySends
  <2>2. \A f \in {[type |-> "connect"], [type |-> "close"]} :
          f \in Frame /\ f.type \notin {"event", "attachment"}
    BY FramesMade
  <2> QED BY <2>1, <2>2, SendOne
<1>8. CASE GatewaySendsEvent
  BY <1>8, SendEvent
<1>9. CASE GatewayAnswers
  <2>1. PICK a \in asked, b \in {"key", "result"} :
          /\ Deliver(<<[type |-> "ack", id |-> a.id, of |-> a.of, body |-> b]>>)
          /\ UNCHANGED <<sent, done, reader, offered, pending, queue, handled>>
    BY <1>9 DEF GatewayAnswers
  <2> DEFINE f == [type |-> "ack", id |-> a.id, of |-> a.of, body |-> b]
  <2>2. a.id \in Ids /\ a.of \in Requests
    BY DEF Asked
  <2>3. f \in Frame /\ f.type \notin {"event", "attachment"}
    BY <2>2, FramesMade
  <2>4. Deliver(<<f>>)
    BY <2>1
  <2> HIDE DEF f
  <2> QED BY <2>1, <2>3, <2>4, SendOne
<1>10. CASE LinkFails
  <2>1. Quiet
    BY <1>10 DEF LinkFails
  <2> QED BY <1>q, <2>1
<1>11. CASE ReadFails
  BY <1>11, ReadFailsEvents
<1>12. CASE ReadClose
  <2>1. /\ wire # <<>> /\ wire' = Tail(wire) /\ Head(wire).type = "close" /\ done'
        /\ reader = "reading" /\ reader' = "ended"
        /\ UNCHANGED <<sent, offered, pending, queue, handled>>
    BY <1>12 DEF ReadClose, Take, Close
  <2> QED BY <2>1, ReadOne
<1>13. CASE ReadNamespace
  <2>1. /\ wire # <<>> /\ wire' = Tail(wire) /\ Head(wire).type = "connect" /\ (done => done')
        /\ reader = "reading" /\ reader' = "reading"
        /\ UNCHANGED <<sent, offered, pending, queue, handled>>
    BY <1>13 DEF ReadNamespace, Take
  <2> QED BY <2>1, ReadOne
<1>14. CASE ReadEvent
  BY <1>14, ReadEventEvents
<1>15. CASE ReadAttachment
  BY <1>15, ReadAttachmentEvents
<1>16. CASE ReadAck
  <2>1. /\ wire # <<>> /\ wire' = Tail(wire) /\ Head(wire).type = "ack" /\ (done => done')
        /\ reader = "reading" /\ reader' = "reading"
        /\ UNCHANGED <<sent, offered, pending, queue, handled>>
    BY <1>16 DEF ReadAck, Take
  <2> QED BY <2>1, ReadOne
<1>17. CASE Enqueue
  BY <1>17, EnqueueEvents
<1>18. CASE DropOffered
  BY <1>18, DropOfferedEvents
<1>19. CASE DeadlinePasses
  <2>1. Quiet
    BY <1>19 DEF DeadlinePasses
  <2> QED BY <1>q, <2>1
<1>20. CASE Dispatch
  BY <1>20, DispatchEvents
<1>21. CASE HandlerReturns
  <2>1. Quiet
    BY <1>21 DEF HandlerReturns
  <2> QED BY <1>q, <2>1
<1>22. CASE DispatchEnds
  <2>1. Quiet
    BY <1>22 DEF DispatchEnds
  <2> QED BY <1>q, <2>1
<1>23. ASSUME NEW r \in Requests,
              \/ Allocate(r) \/ Register(r) \/ SendRequest(r) \/ SendFails(r)
              \/ TakeReply(r) \/ WaitEnds(r) \/ RequestTimeout(r)
       PROVE  Carried' /\ Assembly' /\ Counting'
  <2>1. Quiet
    BY <1>23 DEF Allocate, Register, SendRequest, SendFails, TakeReply, WaitEnds, RequestTimeout
  <2> QED BY <1>q, <2>1
<1>24. CASE UNCHANGED vars
  <2>1. Quiet
    BY <1>24 DEF vars
  <2> QED BY <1>q, <2>1
<1> QED BY <1>1, <1>2, <1>3, <1>4, <1>5, <1>6, <1>7, <1>8, <1>9, <1>10, <1>11, <1>12, <1>13,
   <1>14, <1>15, <1>16, <1>17, <1>18, <1>19, <1>20, <1>21, <1>22, <1>23, <1>24, Steps

-----------------------------------------------------------------------------
(* Acknowledgement ids: who took them, who waits for them, who answers.    *)

Started == {r \in Requests : request[r].pc # "idle"}

\* Ids are given out in ascending order and never twice.
Numbered ==
  /\ counter <= 2 * Cardinality(Started)
  /\ \A r \in Requests :
       /\ request[r].pc = "idle" <=> request[r].first = 0
       /\ request[r].reply \in {r, NoOne}
       /\ \A i \in IdsOf(r) : i \in 1..counter
  /\ \A r, s \in Requests : r # s => IdsOf(r) \cap IdsOf(s) = {}

Registered ==
  /\ \A i \in Ids : handlers[i] # NoOne => i \in IdsOf(handlers[i])
  /\ \A r \in Requests : request[r].pc = "registered" => \A i \in IdsOf(r) : handlers[i] = r

\* Request r is on its way to the gateway or back with id i, and as long as
\* its caller waits the callback of i is there.
Sent(i, r) ==
  /\ r \in Requests /\ i \in IdsOf(r)
  /\ request[r].pc \in {"waiting", "ended"}
  /\ request[r].pc = "waiting" => handlers[i] = r

Owed == \A a \in asked : Sent(a.id, a.of)

Returned ==
  \A k \in 1..Len(wire) : wire[k].type = "ack" =>
    /\ Sent(wire[k].id, wire[k].of)
    /\ \A a \in asked : a.id # wire[k].id
    /\ \A l \in 1..Len(wire) : l # k /\ wire[l].type = "ack" => wire[l].id # wire[k].id

Answering == Numbered /\ Registered /\ Owed /\ Returned

LEMMA Ranges ==
  Books => \A r \in Requests :
    /\ Acks[r] \in 1..2 /\ request[r].first \in Nat /\ request[r] \in Request
    /\ request[r].first = 0 => IdsOf(r) = {}
    /\ request[r].first # 0 => IdsOf(r) = request[r].first..(request[r].first + Acks[r] - 1)
  BY Constants DEF Books, Request, IdsOf

LEMMA SameFirst ==
  ASSUME NEW r, request'[r].first = request[r].first
  PROVE  IdsOf(r)' = IdsOf(r)
  BY DEF IdsOf

LEMMA Counts ==
  Cardinality(Requests) \in Nat /\ Cardinality(Started) \in Nat
  /\ Cardinality(Started) <= Cardinality(Requests)
<1>1. IsFiniteSet(Requests) /\ Started \subseteq Requests
  BY Constants DEF Started
<1> QED BY <1>1, FS_Subset, FS_CardinalityType

\* The ids a request took are ids a frame can carry.
LEMMA IdsWithin ==
  ASSUME Books, Numbered, NEW r \in Requests
  PROVE  IdsOf(r) \subseteq Ids
<1>1. counter \in Nat /\ counter <= 2 * Cardinality(Requests)
  BY Counts DEF Books, Numbered
<1>2. \A i \in IdsOf(r) : i \in 1..counter
  BY DEF Numbered
<1> QED BY <1>1, <1>2, Counts DEF Ids

LEMMA AskEffect ==
  ASSUME Books, NEW r \in Requests, NEW pc \in {"registered", "waiting", "ended"}, Ask(r, pc)
  PROVE  /\ request' \in [Requests -> Request]
         /\ request'[r].pc = pc
         /\ \A s \in Requests : /\ request'[s].first = request[s].first
                                /\ request'[s].reply = request[s].reply
                                /\ s # r => request'[s] = request[s]
                                /\ IdsOf(s)' = IdsOf(s)
<1>1. request \in [Requests -> Request] /\ request' = [request EXCEPT ![r].pc = pc]
  BY DEF Books, Ask
<1>2. request' \in [Requests -> Request]
  BY <1>1 DEF Request
<1>3. request'[r] = [request[r] EXCEPT !.pc = pc] /\ request[r] \in Request
  BY <1>1
<1>4. request'[r].pc = pc /\ request'[r].first = request[r].first /\ request'[r].reply = request[r].reply
  BY <1>3 DEF Request
<1>5. ASSUME NEW s \in Requests, s # r PROVE request'[s] = request[s]
  BY <1>1, <1>5
<1>6. ASSUME NEW s \in Requests
      PROVE  request'[s].first = request[s].first /\ request'[s].reply = request[s].reply
  BY <1>4, <1>5
<1> QED BY <1>2, <1>4, <1>5, <1>6, SameFirst

\* Steps of the wire alone: what is still on it keeps its place in the order.
LEMMA StillSent ==
  ASSUME Owed, Returned, NEW d \in Nat, NEW X, asked' \subseteq asked,
         \A i, s : i \notin X /\ Sent(i, s) => Sent(i, s)',
         \A k \in 1..Len(wire') : wire'[k].type = "ack" =>
           k + d \in 1..Len(wire) /\ wire'[k] = wire[k + d] /\ wire'[k].id \notin X,
         \A a \in asked' : a.id \notin X
  PROVE  Owed' /\ Returned'
<1>1. Owed'
  <2>1. ASSUME NEW a \in asked' PROVE Sent(a.id, a.of)'
    <3>1. a \in asked /\ a.id \notin X
      OBVIOUS
    <3>2. Sent(a.id, a.of)
      BY <3>1 DEF Owed
    <3> QED BY <3>1, <3>2
  <2> QED BY <2>1 DEF Owed
<1>2. Returned'
  <2> SUFFICES ASSUME NEW k \in 1..Len(wire'), wire'[k].type = "ack"
               PROVE  /\ Sent(wire[k].id, wire[k].of)'
                      /\ \A a \in asked' : a.id # wire'[k].id
                      /\ \A l \in 1..Len(wire') : l # k /\ wire'[l].type = "ack" => wire'[l].id # wire'[k].id
    BY DEF Returned
  <2> DEFINE m == k + d
  <2>1. m \in 1..Len(wire) /\ wire'[k] = wire[m] /\ wire[m].id \notin X
    OBVIOUS
  <2>2. ASSUME NEW l \in 1..Len(wire'), l # k, wire'[l].type = "ack" PROVE wire'[l].id # wire[m].id
    <3> DEFINE n == l + d
    <3>1. n \in 1..Len(wire) /\ wire'[l] = wire[n] /\ n # m
      BY <2>2
    <3> HIDE DEF m, n
    <3> QED BY <2>1, <2>2, <3>1 DEF Returned
  <2> HIDE DEF m
  <2>3. Sent(wire[m].id, wire[m].of) /\ \A a \in asked : a.id # wire[m].id
    BY <2>1 DEF Returned
  <2>4. PICK i, s : i = wire[m].id /\ s = wire[m].of
    OBVIOUS
  <2>5. Sent(i, s)'
    BY <2>1, <2>3, <2>4
  <2>6. i = wire'[k].id /\ s = wire'[k].of
    BY <2>1, <2>4
  <2>7. Sent(wire[k].id, wire[k].of)'
    BY <2>5, <2>6
  <2> QED BY <2>1, <2>2, <2>3, <2>7
<1> QED BY <1>1, <1>2

LEMMA QuietAnswers ==
  ASSUME Books, Answering, UNCHANGED <<asked, counter, handlers, request>>, NEW d \in Nat,
         \A k \in 1..Len(wire') : wire'[k].type = "ack" =>
           k + d \in 1..Len(wire) /\ wire'[k] = wire[k + d]
  PROVE  Books' /\ Answering'
<1>1. \A i, s : Sent(i, s) => Sent(i, s)'
  BY DEF Sent, IdsOf
<1>2. Owed' /\ Returned'
  <2> DEFINE X == {}
  <2>1. /\ \A i, s : i \notin X /\ Sent(i, s) => Sent(i, s)'
        /\ \A k \in 1..Len(wire') : wire'[k].type = "ack" =>
             k + d \in 1..Len(wire) /\ wire'[k] = wire[k + d] /\ wire'[k].id \notin X
        /\ asked' \subseteq asked /\ \A a \in asked' : a.id \notin X
    BY <1>1
  <2> HIDE DEF X
  <2> QED BY <2>1, StillSent DEF Answering
<1>3. Numbered' /\ Registered'
  BY DEF Answering, Numbered, Registered, Started, IdsOf
<1>4. Books'
  BY DEF Books
<1> QED BY <1>2, <1>3, <1>4 DEF Answering

LEMMA StillAnswers ==
  ASSUME Books, Answering, UNCHANGED <<wire, asked, counter, handlers, request>>
  PROVE  Books' /\ Answering'
<1>1. ASSUME NEW k \in 1..Len(wire') PROVE k + 0 \in 1..Len(wire) /\ wire'[k] = wire[k + 0]
  <2>1. k + 0 = k
    OBVIOUS
  <2> QED BY <2>1
<1> QED BY <1>1, QuietAnswers

\* Frames that answer nothing are sent.
LEMMA SendAnswers ==
  ASSUME Carried, Books, Answering, NEW b \in Seq(Frame), Deliver(b),
         \A i \in 1..Len(b) : b[i].type # "ack",
         UNCHANGED <<asked, counter, handlers, request>>
  PROVE  Books' /\ Answering'
<1>1. /\ \A i \in 1..Len(wire) : wire'[i] = wire[i]
      /\ \A i \in 1..Len(wire') : i > Len(wire) => wire'[i] = b[i - Len(wire)]
      /\ Len(wire') = Len(wire) + Len(b) /\ Len(wire) \in Nat /\ Len(b) \in Nat
  BY Sending, LenProperties DEF Carried
<1>2. ASSUME NEW k \in 1..Len(wire'), wire'[k].type = "ack"
      PROVE  k + 0 \in 1..Len(wire) /\ wire'[k] = wire[k + 0]
  <2>1. CASE k > Len(wire)
    <3> DEFINE m == k - Len(wire)
    <3>1. m \in 1..Len(b) /\ wire'[k] = b[m]
      BY <1>1, <2>1
    <3> HIDE DEF m
    <3> QED BY <1>2, <3>1
  <2>2. CASE ~(k > Len(wire))
    <3>1. k \in 1..Len(wire) /\ k + 0 = k
      BY <1>1, <2>2
    <3> QED BY <1>1, <3>1
  <2> QED BY <2>1, <2>2
<1> QED BY <1>2, QuietAnswers

\* A frame is read.
LEMMA ReadAnswers ==
  ASSUME Carried, Books, Answering, wire # <<>>, wire' = Tail(wire),
         UNCHANGED <<asked, counter, handlers, request>>
  PROVE  Books' /\ Answering'
<1>1. \A i \in 1..Len(wire') : i + 1 \in 1..Len(wire) /\ wire'[i] = wire[i + 1]
  BY TailIndices DEF Carried
<1> QED BY <1>1, QuietAnswers

LEMMA DialAnswers ==
  ASSUME Dial
  PROVE  Books' /\ Answering'
<1>1. /\ wire' = <<>> /\ asked' = {} /\ counter' = 0 /\ handlers' = [i \in Ids |-> NoOne]
      /\ request' = [r \in Requests |-> NewRequest]
  BY DEF Dial
<1>2. ASSUME NEW r \in Requests
      PROVE  request'[r].pc = "idle" /\ request'[r].first = 0 /\ request'[r].reply = NoOne /\ IdsOf(r)' = {}
  BY <1>1 DEF NewRequest, IdsOf
<1>3. Books'
  BY <1>1 DEF Books, Request, NewRequest
<1>4. Numbered'
  <2>1. Started' = {}
    BY <1>2 DEF Started
  <2>2. Cardinality(Started') = 0
    BY <2>1, FS_EmptySet
  <2> QED BY <1>1, <1>2, <2>2 DEF Numbered
<1>5. Registered'
  BY <1>1, <1>2 DEF Registered
<1>6. Owed' /\ Returned'
  BY <1>1, NoEvents DEF Owed, Returned
<1> QED BY <1>3, <1>4, <1>5, <1>6 DEF Answering

LEMMA GatewayAnswersOne ==
  ASSUME Carried, Books, Answering, GatewayAnswers
  PROVE  Books' /\ Answering'
<1>1. PICK a \in asked, b \in {"key", "result"} :
        /\ Deliver(<<[type |-> "ack", id |-> a.id, of |-> a.of, body |-> b]>>)
        /\ asked' = asked \ {a} /\ UNCHANGED <<counter, handlers, request>>
  BY DEF GatewayAnswers, ackVars
<1> DEFINE f == [type |-> "ack", id |-> a.id, of |-> a.of, body |-> b]
<1>2. a \in Asked /\ a.id \in Ids /\ a.of \in Requests
  BY DEF Books, Asked
<1>3. f \in Frame /\ f.type = "ack" /\ f.id = a.id /\ f.of = a.of
  BY <1>2, FramesMade
<1>4. Deliver(<<f>>)
  BY <1>1
<1> HIDE DEF f
<1>5. <<f>> \in Seq(Frame) /\ Len(<<f>>) = 1 /\ <<f>>[1] = f
  BY <1>3, One
<1>6. /\ Len(wire) \in Nat /\ Len(wire') = Len(wire) + 1
      /\ \A i \in 1..Len(wire) : wire'[i] = wire[i]
      /\ wire'[Len(wire) + 1] = f
  <2>1. /\ wire \in Seq(Frame) /\ Len(wire) \in Nat /\ Len(wire') = Len(wire) + Len(<<f>>)
        /\ \A i \in 1..Len(wire) : wire'[i] = wire[i]
        /\ \A i \in 1..Len(<<f>>) : wire'[Len(wire) + i] = <<f>>[i]
    BY <1>4, <1>5, Sending, LenProperties DEF Carried
  <2>2. 1 \in 1..Len(<<f>>)
    BY <1>5
  <2> QED BY <1>5, <2>1, <2>2
<1>7. ASSUME NEW k \in 1..Len(wire')
      PROVE  (k \in 1..Len(wire) /\ wire'[k] = wire[k]) \/ (k = Len(wire) + 1 /\ wire'[k] = f)
  BY <1>6
<1>8. \A i, s : Sent(i, s) => Sent(i, s)'
  BY <1>1 DEF Sent, IdsOf
<1>9. \A c \in asked : c # a => c.id # a.id
  <2> SUFFICES ASSUME NEW c \in asked, c # a, c.id = a.id PROVE FALSE
    OBVIOUS
  <2>1. Sent(c.id, c.of) /\ Sent(a.id, a.of)
    BY DEF Answering, Owed
  <2>2. c.of = a.of
    BY <2>1 DEF Sent, Answering, Numbered
  <2> QED BY <2>2 DEF Books, Asked
<1>10. Owed'
  BY <1>1, <1>8 DEF Answering, Owed
<1>11. Returned'
  <2> SUFFICES ASSUME NEW k \in 1..Len(wire'), wire'[k].type = "ack"
               PROVE  /\ Sent(wire[k].id, wire[k].of)'
                      /\ \A c \in asked' : c.id # wire'[k].id
                      /\ \A l \in 1..Len(wire') : l # k /\ wire'[l].type = "ack" => wire'[l].id # wire'[k].id
    BY DEF Returned
  <2>1. CASE k \in 1..Len(wire) /\ wire'[k] = wire[k]
    <3>1. /\ Sent(wire[k].id, wire[k].of) /\ \A c \in asked : c.id # wire[k].id
          /\ \A l \in 1..Len(wire) : l # k /\ wire[l].type = "ack" => wire[l].id # wire[k].id
      BY <2>1 DEF Answering, Returned
    <3>2. PICK i, s : i = wire[k].id /\ s = wire[k].of
      OBVIOUS
    <3>3. i = wire'[k].id /\ s = wire'[k].of /\ Sent(i, s)'
      BY <1>8, <2>1, <3>1, <3>2
    <3>4. Sent(wire[k].id, wire[k].of)'
      BY <3>3
    <3>5. \A l \in 1..Len(wire') : l # k /\ wire'[l].type = "ack" => wire'[l].id # wire'[k].id
      BY <1>3, <1>7, <2>1, <3>1
    <3> QED BY <1>1, <2>1, <3>1, <3>4, <3>5
  <2>2. CASE k = Len(wire) + 1 /\ wire'[k] = f
    <3>1. Sent(a.id, a.of)
      BY DEF Answering, Owed
    <3>2. a.id = wire'[k].id /\ a.of = wire'[k].of /\ Sent(a.id, a.of)'
      BY <1>3, <1>8, <2>2, <3>1
    <3>3. Sent(wire[k].id, wire[k].of)'
      BY <3>2
    <3>4. \A c \in asked' : c.id # wire'[k].id
      BY <1>1, <1>9, <3>2
    <3>5. ASSUME NEW l \in 1..Len(wire'), l # k, wire'[l].type = "ack" PROVE wire'[l].id # wire'[k].id
      <4>1. l \in 1..Len(wire) /\ wire'[l] = wire[l]
        BY <1>7, <2>2, <3>5
      <4> QED BY <3>2, <3>5, <4>1 DEF Answering, Returned
    <3> QED BY <3>3, <3>4, <3>5
  <2> QED BY <1>7, <2>1, <2>2
<1>12. Numbered' /\ Registered'
  BY <1>1 DEF Answering, Numbered, Registered, Started, IdsOf
<1>13. Books'
  BY <1>1 DEF Books
<1> QED BY <1>10, <1>11, <1>12, <1>13 DEF Answering

\* The wire and what is owed stay as they are.
LEMMA KeptAnswers ==
  ASSUME Answering, UNCHANGED <<wire, asked>>, \A i, s : Sent(i, s) => Sent(i, s)'
  PROVE  Owed' /\ Returned'
<1> DEFINE X == {}
<1>1. ASSUME NEW k \in 1..Len(wire')
      PROVE  k + 0 \in 1..Len(wire) /\ wire'[k] = wire[k + 0] /\ wire'[k].id \notin X
  <2>1. k + 0 = k
    OBVIOUS
  <2> QED BY <2>1
<1>2. /\ asked' \subseteq asked /\ \A a \in asked' : a.id \notin X
      /\ \A i, s : i \notin X /\ Sent(i, s) => Sent(i, s)'
  OBVIOUS
<1> HIDE DEF X
<1> QED BY <1>1, <1>2, StillSent DEF Answering

\* The request a callback belongs to is the one its answer is for.
LEMMA ReadAckAnswers ==
  ASSUME Carried, Books, Answering, ReadAck
  PROVE  Books' /\ Answering'
<1> DEFINE f == Head(wire)
           r == handlers[f.id]
<1>1. /\ wire # <<>> /\ f.type = "ack" /\ wire' = Tail(wire)
      /\ handlers' = [handlers EXCEPT ![f.id] = NoOne]
      /\ request' = IF r = NoOne THEN request ELSE Answered(r, f)
      /\ UNCHANGED <<asked, counter>>
  BY DEF ReadAck, Take
<1>2. /\ Len(wire) \in Nat /\ Len(wire) > 0 /\ f = wire[1] /\ f \in Frame
      /\ \A i \in 1..Len(wire') : i + 1 \in 1..Len(wire) /\ wire'[i] = wire[i + 1]
  BY <1>1, TailIndices DEF Carried
<1>3. 1 \in 1..Len(wire) /\ f.id \in Ids /\ f.of \in Requests
  BY <1>1, <1>2, FrameTypes
<1>4. Sent(f.id, f.of) /\ \A a \in asked : a.id # f.id
  BY <1>1, <1>2, <1>3 DEF Answering, Returned
<1>5. \A k \in 1..Len(wire) : k # 1 /\ wire[k].type = "ack" => wire[k].id # f.id
  BY <1>1, <1>2, <1>3 DEF Answering, Returned
<1>6. r \in Requests \cup {NoOne} /\ (r # NoOne => r = f.of)
  <2>1. r \in Requests \cup {NoOne}
    BY <1>3 DEF Books
  <2>2. r # NoOne => f.id \in IdsOf(r)
    BY <1>3 DEF Answering, Registered
  <2>3. f.id \in IdsOf(f.of)
    BY <1>4 DEF Sent
  <2> QED BY <1>3, <2>1, <2>2, <2>3 DEF Answering, Numbered
<1> HIDE DEF f, r
<1>7. /\ request' \in [Requests -> Request]
      /\ \A s \in Requests : /\ request'[s].pc = request[s].pc /\ request'[s].first = request[s].first
                             /\ request'[s].reply \in {request[s].reply, s}
  <2>0. request \in [Requests -> Request]
    BY DEF Books
  <2>1. CASE request' = request
    BY <2>0, <2>1
  <2>2. CASE r # NoOne /\ request' = [request EXCEPT ![r].reply = r]
    <3>1. r \in Requests /\ request'[r] = [request[r] EXCEPT !.reply = r] /\ request[r] \in Request
      BY <1>6, <2>0, <2>2
    <3>2. request'[r].pc = request[r].pc /\ request'[r].first = request[r].first /\ request'[r].reply = r
      BY <3>1 DEF Request
    <3>3. \A s \in Requests : s # r => request'[s] = request[s]
      BY <2>0, <2>2
    <3>4. request' \in [Requests -> Request]
      BY <2>0, <2>2, <3>1 DEF Request
    <3> QED BY <3>2, <3>3, <3>4
  <2>3. request' = request \/ (r # NoOne /\ request' = [request EXCEPT ![r].reply = r])
    BY <1>1, <1>6 DEF Answered
  <2> QED BY <2>1, <2>2, <2>3
<1>8. handlers' \in [Ids -> Requests \cup {NoOne}] /\ \A i \in Ids : i # f.id => handlers'[i] = handlers[i]
  BY <1>1, <1>3 DEF Books
<1>9. handlers'[f.id] = NoOne
  BY <1>1, <1>3 DEF Books
<1>10. \A s \in Requests : IdsOf(s)' = IdsOf(s)
  BY <1>7, SameFirst
<1>11. Books'
  BY <1>1, <1>7, <1>8 DEF Books
<1>12. Started' = Started
  BY <1>7 DEF Started
<1>13. Numbered'
  BY <1>1, <1>7, <1>10, <1>12 DEF Answering, Numbered
<1>14. Registered'
  <2>1. ASSUME NEW i \in Ids, handlers'[i] # NoOne PROVE i \in IdsOf(handlers[i])'
    <3>1. i # f.id /\ handlers'[i] = handlers[i] /\ handlers[i] # NoOne /\ handlers[i] \in Requests
      BY <1>8, <1>9, <2>1 DEF Books
    <3>2. i \in IdsOf(handlers[i])
      BY <3>1 DEF Answering, Registered
    <3>3. PICK s \in Requests : s = handlers[i]
      BY <3>1
    <3>4. i \in IdsOf(s)' /\ s = handlers'[i]
      BY <1>10, <3>1, <3>2, <3>3
    <3> QED BY <3>4
  <2>2. ASSUME NEW s \in Requests, request'[s].pc = "registered", NEW i \in IdsOf(s)'
        PROVE  handlers'[i] = s
    <3>1. request[s].pc = "registered" /\ i \in IdsOf(s) /\ i \in Ids
      BY <1>7, <1>10, <2>2, IdsWithin DEF Answering
    <3>2. i # f.id
      <4>1. f.of # s
        BY <1>4, <3>1 DEF Sent
      <4> QED BY <1>3, <1>4, <3>1, <4>1 DEF Sent, Answering, Numbered
    <3> QED BY <1>8, <3>1, <3>2 DEF Answering, Registered
  <2> QED BY <2>1, <2>2 DEF Registered
<1>15. ASSUME NEW i, NEW s, i # f.id, Sent(i, s) PROVE Sent(i, s)'
  <2>1. s \in Requests /\ i \in IdsOf(s) /\ i \in Ids
    BY <1>15, IdsWithin DEF Sent, Answering
  <2>2. IdsOf(s)' = IdsOf(s) /\ request'[s].pc = request[s].pc /\ handlers'[i] = handlers[i]
    BY <1>7, <1>8, <1>10, <1>15, <2>1
  <2> QED BY <1>15, <2>2 DEF Sent
<1>16. Owed' /\ Returned'
  <2> DEFINE X == {f.id}
  <2>1. ASSUME NEW k \in 1..Len(wire'), wire'[k].type = "ack"
        PROVE  k + 1 \in 1..Len(wire) /\ wire'[k] = wire[k + 1] /\ wire'[k].id \notin X
    <3>1. k + 1 \in 1..Len(wire) /\ wire'[k] = wire[k + 1] /\ k + 1 # 1
      BY <1>2
    <3> DEFINE m == k + 1
    <3> HIDE DEF m
    <3>2. m \in 1..Len(wire) /\ wire'[k] = wire[m] /\ m # 1
      BY <3>1 DEF m
    <3>3. wire[m].id # f.id
      BY <1>5, <2>1, <3>2
    <3> QED BY <3>1, <3>2, <3>3
  <2>2. \A i, s : i \notin X /\ Sent(i, s) => Sent(i, s)'
    BY <1>15
  <2>3. asked' \subseteq asked /\ \A a \in asked' : a.id \notin X
    BY <1>1, <1>4
  <2> HIDE DEF X
  <2>4. 1 \in Nat
    OBVIOUS
  <2> QED BY <2>1, <2>2, <2>3, <2>4, StillSent DEF Answering
<1> QED BY <1>11, <1>13, <1>14, <1>16 DEF Answering

\* A request takes ids no other request has taken.
LEMMA AllocateAnswers ==
  ASSUME Carried, Books, Answering, NEW r \in Requests, Allocate(r)
  PROVE  Books' /\ Answering'
<1> DEFINE pc == IF Acks[r] = 1 THEN "registered" ELSE "allocated"
<1>1. /\ request[r].pc = "idle"
      /\ request' = [request EXCEPT ![r].pc = pc, ![r].first = counter + 1]
      /\ counter' = counter + Acks[r]
      /\ Acks[r] = 1 => handlers' = [handlers EXCEPT ![counter'] = r]
      /\ Acks[r] # 1 => handlers' = handlers
      /\ UNCHANGED <<wire, asked>>
  BY DEF Allocate, gatewayVars
<1>2. pc \in {"registered", "allocated"} /\ (Acks[r] = 1 <=> pc = "registered")
  OBVIOUS
<1> HIDE DEF pc
<1>3. Acks[r] \in 1..2 /\ counter \in Nat /\ request \in [Requests -> Request] /\ request[r].first = 0
  BY <1>1, Ranges DEF Books, Answering, Numbered
<1>4. counter' \in Nat /\ counter + 1 \in Nat /\ counter + 1 <= counter'
  BY <1>1, <1>3
<1>5. request'[r] = [request[r] EXCEPT !.pc = pc, !.first = counter + 1] /\ request[r] \in Request
  BY <1>1, <1>3
<1>6. request'[r].pc = pc /\ request'[r].first = counter + 1 /\ request'[r].reply = request[r].reply
  BY <1>5 DEF Request
<1>7. \A s \in Requests : s # r => request'[s] = request[s]
  BY <1>1, <1>3
<1>8. request' \in [Requests -> Request]
  BY <1>1, <1>2, <1>3, <1>4, <1>5 DEF Request
<1>9. IdsOf(r)' = (counter + 1)..counter' /\ IdsOf(r) = {}
  <2>1. (counter + 1) + Acks[r] - 1 = counter' /\ counter + 1 # 0
    BY <1>1, <1>3
  <2>2. IdsOf(r)' = (counter + 1)..((counter + 1) + Acks[r] - 1)
    BY <1>6, <2>1 DEF IdsOf
  <2> QED BY <1>3, <2>1, <2>2 DEF IdsOf
<1>10. \A s \in Requests : s # r => IdsOf(s)' = IdsOf(s)
  BY <1>7, SameFirst
<1>11. Cardinality(Started') = Cardinality(Started) + 1
  <2>1. Started' = Started \cup {r} /\ r \notin Started
    BY <1>1, <1>2, <1>6, <1>7 DEF Started
  <2>2. IsFiniteSet(Started)
    BY Constants, FS_Subset DEF Started
  <2> QED BY <2>1, <2>2, FS_AddElement
<1>12. Numbered'
  <2>1. counter' <= 2 * Cardinality(Started')
    BY <1>1, <1>3, <1>11, Counts DEF Answering, Numbered
  <2>2. ASSUME NEW s \in Requests
        PROVE  /\ request'[s].pc = "idle" <=> request'[s].first = 0
               /\ request'[s].reply \in {s, NoOne}
               /\ \A i \in IdsOf(s)' : i \in 1..counter'
    <3>1. CASE s = r
      <4>1. request'[s].pc # "idle" /\ request'[s].first # 0
        BY <1>2, <1>3, <1>6, <3>1
      <4>2. request'[s].reply \in {s, NoOne}
        BY <1>6, <3>1 DEF Answering, Numbered
      <4>3. \A i \in IdsOf(s)' : i \in 1..counter'
        BY <1>3, <1>4, <1>9, <3>1
      <4> QED BY <4>1, <4>2, <4>3
    <3>2. CASE s # r
      <4>1. request'[s] = request[s] /\ IdsOf(s)' = IdsOf(s)
        BY <1>7, <1>10, <3>2
      <4>2. \A i \in 1..counter : i \in 1..counter'
        BY <1>3, <1>4
      <4> QED BY <4>1, <4>2 DEF Answering, Numbered
    <3> QED BY <3>1, <3>2
  <2>3. ASSUME NEW s \in Requests, s # r PROVE IdsOf(s)' \cap IdsOf(r)' = {}
    <3>1. \A i \in IdsOf(s)' : i \in 1..counter
      BY <1>10, <2>3 DEF Answering, Numbered
    <3>2. \A i \in 1..counter : i \notin (counter + 1)..counter'
      BY <1>3, <1>4
    <3> QED BY <1>9, <3>1, <3>2
  <2>4. ASSUME NEW s \in Requests, NEW t \in Requests, s # t PROVE IdsOf(s)' \cap IdsOf(t)' = {}
    <3>1. CASE s # r /\ t # r
      BY <1>10, <2>4, <3>1 DEF Answering, Numbered
    <3>2. CASE s = r
      BY <2>3, <2>4, <3>2
    <3>3. CASE t = r
      BY <2>3, <2>4, <3>3
    <3> QED BY <3>1, <3>2, <3>3
  <2> QED BY <2>1, <2>2, <2>4 DEF Numbered
<1>13. counter' \in Ids
  <2>1. Cardinality(Started') <= Cardinality(Requests)
    <3>1. IsFiniteSet(Requests) /\ Started' \subseteq Requests
      BY Constants DEF Started
    <3> QED BY <3>1, FS_Subset
  <2>2. Cardinality(Started') \in Nat /\ Cardinality(Requests) \in Nat
    BY <1>11, Counts
  <2>3. counter' <= 2 * Cardinality(Started') /\ 1 <= counter'
    BY <1>3, <1>4, <1>12 DEF Numbered
  <2> QED BY <1>4, <2>1, <2>2, <2>3 DEF Ids
<1>14. /\ handlers' \in [Ids -> Requests \cup {NoOne}]
       /\ \A i \in Ids : i # counter' => handlers'[i] = handlers[i]
       /\ Acks[r] = 1 => handlers'[counter'] = r
       /\ Acks[r] # 1 => handlers'[counter'] = handlers[counter']
  BY <1>1, <1>13 DEF Books
<1>15. Books'
  BY <1>1, <1>4, <1>8, <1>14 DEF Books
<1>16. \A s \in Requests : \A i \in IdsOf(s) : i # counter'
  <2>1. \A i \in 1..counter : i # counter'
    BY <1>3, <1>4
  <2> QED BY <2>1 DEF Answering, Numbered
<1>17. Registered'
  <2>1. ASSUME NEW i \in Ids, handlers'[i] # NoOne PROVE i \in IdsOf(handlers[i])'
    <3>1. CASE Acks[r] = 1 /\ i = counter'
      <4>1. handlers'[i] = r /\ i \in IdsOf(r)'
        BY <1>4, <1>9, <1>14, <3>1
      <4>2. i \in IdsOf(r)' /\ handlers'[i] = r
        BY <4>1
      <4> QED BY <4>2
    <3>2. CASE ~(Acks[r] = 1 /\ i = counter')
      <4>1. handlers'[i] = handlers[i] /\ handlers[i] # NoOne /\ handlers[i] \in Requests
        BY <1>14, <2>1, <3>2 DEF Books
      <4>2. PICK s \in Requests : s = handlers[i]
        BY <4>1
      <4>3. i \in IdsOf(s)
        BY <4>1, <4>2 DEF Answering, Registered
      <4>4. s # r
        BY <1>9, <4>3
      <4>5. i \in IdsOf(s)' /\ s = handlers'[i]
        BY <1>10, <4>1, <4>2, <4>3, <4>4
      <4> QED BY <4>5
    <3> QED BY <3>1, <3>2
  <2>2. ASSUME NEW s \in Requests, request'[s].pc = "registered", NEW i \in IdsOf(s)'
        PROVE  handlers'[i] = s
    <3>1. CASE s = r
      <4>1. Acks[r] = 1
        BY <1>2, <1>6, <2>2, <3>1
      <4>2. i = counter'
        BY <1>1, <1>3, <1>9, <2>2, <3>1, <4>1
      <4> QED BY <1>14, <3>1, <4>1, <4>2
    <3>2. CASE s # r
      <4>1. request[s].pc = "registered" /\ i \in IdsOf(s) /\ i \in Ids /\ i # counter'
        BY <1>7, <1>10, <1>16, <2>2, <3>2, IdsWithin DEF Answering
      <4> QED BY <1>14, <4>1 DEF Answering, Registered
    <3> QED BY <3>1, <3>2
  <2> QED BY <2>1, <2>2 DEF Registered
<1>18. ASSUME NEW i, NEW s, Sent(i, s) PROVE Sent(i, s)'
  <2>1. s \in Requests /\ i \in IdsOf(s) /\ i \in Ids /\ i # counter' /\ s # r
    BY <1>1, <1>16, <1>18, IdsWithin DEF Sent, Answering
  <2>2. IdsOf(s)' = IdsOf(s) /\ request'[s] = request[s] /\ handlers'[i] = handlers[i]
    BY <1>7, <1>10, <1>14, <2>1
  <2> QED BY <1>18, <2>2 DEF Sent
<1>19. Owed' /\ Returned'
  BY <1>1, <1>18, KeptAnswers
<1> QED BY <1>12, <1>15, <1>17, <1>19 DEF Answering

\* An allocated request registers: its ids are its own.
LEMMA RegisterAnswers ==
  ASSUME Carried, Books, Answering, NEW r \in Requests, Register(r)
  PROVE  Books' /\ Answering'
<1>1. /\ request[r].pc = "allocated" /\ Ask(r, "registered")
      /\ handlers' = [i \in Ids |-> IF i \in IdsOf(r) THEN r ELSE handlers[i]]
      /\ counter' = LET top == request[r].first + Acks[r] - 1
                    IN IF counter < top THEN top ELSE counter
      /\ UNCHANGED <<wire, asked>>
  BY DEF Register, gatewayVars
<1>2. /\ request' \in [Requests -> Request] /\ request'[r].pc = "registered"
      /\ \A s \in Requests : /\ request'[s].first = request[s].first
                             /\ request'[s].reply = request[s].reply
                             /\ s # r => request'[s] = request[s]
                             /\ IdsOf(s)' = IdsOf(s)
  BY <1>1, AskEffect
<1>3. counter' = counter
  <2>1. /\ request[r].first # 0 /\ request[r].first \in Nat /\ Acks[r] \in 1..2
        /\ IdsOf(r) = request[r].first..(request[r].first + Acks[r] - 1)
    BY <1>1, Ranges DEF Answering, Numbered
  <2>2. request[r].first + Acks[r] - 1 \in IdsOf(r)
    BY <2>1
  <2>3. request[r].first + Acks[r] - 1 \in 1..counter /\ counter \in Nat
    BY <2>2 DEF Answering, Numbered, Books
  <2> QED BY <1>1, <2>1, <2>3
<1>4. handlers' \in [Ids -> Requests \cup {NoOne}]
  BY <1>1 DEF Books
<1>5. \A i \in Ids : handlers'[i] = IF i \in IdsOf(r) THEN r ELSE handlers[i]
  BY <1>1
<1>6. Books'
  BY <1>1, <1>2, <1>3, <1>4 DEF Books
<1>7. Numbered'
  <2>1. Started' = Started
    BY <1>1, <1>2 DEF Started
  <2>2. \A s \in Requests : request'[s].pc = "idle" <=> request[s].pc = "idle"
    BY <1>1, <1>2
  <2> QED BY <1>2, <1>3, <2>1, <2>2 DEF Answering, Numbered
<1>8. Registered'
  <2>1. ASSUME NEW i \in Ids, handlers'[i] # NoOne PROVE i \in IdsOf(handlers[i])'
    <3>1. CASE i \in IdsOf(r)
      <4>1. i \in IdsOf(r)' /\ handlers'[i] = r
        BY <1>2, <1>5, <3>1
      <4> QED BY <4>1
    <3>2. CASE i \notin IdsOf(r)
      <4>1. handlers'[i] = handlers[i] /\ handlers[i] # NoOne /\ handlers[i] \in Requests
        BY <1>5, <2>1, <3>2 DEF Books
      <4>2. PICK s \in Requests : s = handlers[i]
        BY <4>1
      <4>3. i \in IdsOf(s)
        BY <4>1, <4>2 DEF Answering, Registered
      <4>4. i \in IdsOf(s)' /\ s = handlers'[i]
        BY <1>2, <4>1, <4>2, <4>3
      <4> QED BY <4>4
    <3> QED BY <3>1, <3>2
  <2>2. ASSUME NEW s \in Requests, request'[s].pc = "registered", NEW i \in IdsOf(s)'
        PROVE  handlers'[i] = s
    <3>1. i \in IdsOf(s) /\ i \in Ids
      BY <1>2, IdsWithin DEF Answering
    <3>2. CASE s = r
      BY <1>5, <3>1, <3>2
    <3>3. CASE s # r
      <4>1. i \notin IdsOf(r) /\ request[s].pc = "registered"
        BY <1>2, <2>2, <3>1, <3>3 DEF Answering, Numbered
      <4> QED BY <1>5, <3>1, <4>1 DEF Answering, Registered
    <3> QED BY <3>2, <3>3
  <2> QED BY <2>1, <2>2 DEF Registered
<1>9. ASSUME NEW i, NEW s, Sent(i, s) PROVE Sent(i, s)'
  <2>1. s \in Requests /\ i \in IdsOf(s) /\ i \in Ids /\ s # r
    BY <1>1, <1>9, IdsWithin DEF Sent, Answering
  <2>2. i \notin IdsOf(r)
    BY <2>1 DEF Answering, Numbered
  <2>3. IdsOf(s)' = IdsOf(s) /\ request'[s] = request[s] /\ handlers'[i] = handlers[i]
    BY <1>2, <1>5, <2>1, <2>2
  <2> QED BY <1>9, <2>3 DEF Sent
<1>10. Owed' /\ Returned'
  BY <1>1, <1>9, KeptAnswers
<1> QED BY <1>6, <1>7, <1>8, <1>10 DEF Answering

\* A registered request is written: the gateway owes an answer for each id.
LEMMA SendRequestAnswers ==
  ASSUME Carried, Books, Answering, NEW r \in Requests, SendRequest(r)
  PROVE  Books' /\ Answering'
<1> DEFINE B == {[id |-> i, of |-> r] : i \in IdsOf(r)}
<1>1. /\ request[r].pc = "registered" /\ Ask(r, "waiting")
      /\ asked' = asked \/ asked' = asked \cup B
      /\ UNCHANGED <<wire, counter, handlers>>
  BY DEF SendRequest
<1>2. /\ request' \in [Requests -> Request] /\ request'[r].pc = "waiting"
      /\ \A s \in Requests : /\ request'[s].first = request[s].first
                             /\ request'[s].reply = request[s].reply
                             /\ s # r => request'[s] = request[s]
                             /\ IdsOf(s)' = IdsOf(s)
  BY <1>1, AskEffect
<1>3. \A i \in IdsOf(r) : i \in Ids /\ handlers[i] = r
  BY <1>1, IdsWithin DEF Answering, Registered
<1>4. ASSUME NEW a \in asked' PROVE a \in asked \/ (a.id \in IdsOf(r) /\ a.of = r /\ a \in Asked)
  BY <1>1, <1>3 DEF Asked
<1> HIDE DEF B
<1>5. Books'
  BY <1>1, <1>2, <1>4 DEF Books
<1>6. Numbered'
  <2>1. Started' = Started
    BY <1>1, <1>2 DEF Started
  <2>2. \A s \in Requests : request'[s].pc = "idle" <=> request[s].pc = "idle"
    BY <1>1, <1>2
  <2> QED BY <1>1, <1>2, <2>1, <2>2 DEF Answering, Numbered
<1>7. Registered'
  <2>1. ASSUME NEW i \in Ids, handlers'[i] # NoOne PROVE i \in IdsOf(handlers[i])'
    <3>1. handlers'[i] = handlers[i] /\ handlers[i] # NoOne /\ handlers[i] \in Requests
      BY <1>1, <2>1 DEF Books
    <3>2. PICK s \in Requests : s = handlers[i]
      BY <3>1
    <3>3. i \in IdsOf(s)
      BY <3>1, <3>2 DEF Answering, Registered
    <3>4. i \in IdsOf(s)' /\ s = handlers'[i]
      BY <1>2, <3>1, <3>2, <3>3
    <3> QED BY <3>4
  <2>2. \A s \in Requests : request'[s].pc = "registered" => request[s].pc = "registered"
    BY <1>2
  <2> QED BY <1>1, <1>2, <2>1, <2>2 DEF Answering, Registered
<1>8. ASSUME NEW i, NEW s, Sent(i, s) PROVE s # r /\ Sent(i, s)'
  <2>1. s \in Requests /\ i \in IdsOf(s) /\ s # r
    BY <1>1, <1>8 DEF Sent
  <2>2. IdsOf(s)' = IdsOf(s) /\ request'[s] = request[s] /\ handlers' = handlers
    BY <1>1, <1>2, <2>1
  <2> QED BY <1>8, <2>1, <2>2 DEF Sent
<1>9. ASSUME NEW i \in IdsOf(r) PROVE Sent(i, r)'
  BY <1>1, <1>2, <1>3 DEF Sent
<1>10. Owed'
  <2>1. ASSUME NEW a \in asked' PROVE Sent(a.id, a.of)'
    <3>1. CASE a \in asked
      <4>1. Sent(a.id, a.of)
        BY <3>1 DEF Answering, Owed
      <4> QED BY <1>8, <4>1
    <3>2. CASE a.id \in IdsOf(r) /\ a.of = r
      <4>1. Sent(a.id, r)'
        BY <1>9, <3>2
      <4> QED BY <3>2, <4>1
    <3> QED BY <1>4, <3>1, <3>2
  <2> QED BY <2>1 DEF Owed
<1>11. Returned'
  <2> SUFFICES ASSUME NEW k \in 1..Len(wire'), wire'[k].type = "ack"
               PROVE  /\ Sent(wire[k].id, wire[k].of)'
                      /\ \A a \in asked' : a.id # wire'[k].id
                      /\ \A l \in 1..Len(wire') : l # k /\ wire'[l].type = "ack" => wire'[l].id # wire'[k].id
    BY DEF Returned
  <2>1. /\ Sent(wire[k].id, wire[k].of) /\ \A a \in asked : a.id # wire[k].id
        /\ \A l \in 1..Len(wire) : l # k /\ wire[l].type = "ack" => wire[l].id # wire[k].id
    BY <1>1 DEF Answering, Returned
  <2>2. PICK i, s : i = wire[k].id /\ s = wire[k].of
    OBVIOUS
  <2>3. i = wire'[k].id /\ s = wire'[k].of /\ Sent(i, s)' /\ s # r /\ Sent(i, s)
    BY <1>1, <1>8, <2>1, <2>2
  <2>4. Sent(wire[k].id, wire[k].of)'
    BY <2>3
  <2>5. i \notin IdsOf(r)
    BY <2>3 DEF Sent, Answering, Numbered
  <2>6. ASSUME NEW a \in asked' PROVE a.id # wire'[k].id
    BY <1>4, <2>1, <2>2, <2>3, <2>5
  <2> QED BY <1>1, <2>1, <2>4, <2>6
<1> QED BY <1>5, <1>6, <1>7, <1>10, <1>11 DEF Answering

\* A request ends: before it was sent, or while its caller waited.
LEMMA EndsAnswers ==
  ASSUME Carried, Books, Answering, NEW r \in Requests, Ask(r, "ended"),
         request[r].pc \in {"registered", "waiting"}, UNCHANGED <<wire, asked, counter>>,
         handlers' \in {handlers, [i \in Ids |-> IF i \in IdsOf(r) THEN NoOne ELSE handlers[i]]}
  PROVE  Books' /\ Answering'
<1>1. /\ request' \in [Requests -> Request] /\ request'[r].pc = "ended"
      /\ \A s \in Requests : /\ request'[s].first = request[s].first
                             /\ request'[s].reply = request[s].reply
                             /\ s # r => request'[s] = request[s]
                             /\ IdsOf(s)' = IdsOf(s)
  BY AskEffect
<1>2. /\ handlers' \in [Ids -> Requests \cup {NoOne}]
      /\ \A i \in Ids : handlers'[i] \in {handlers[i], NoOne}
      /\ \A i \in Ids : i \notin IdsOf(r) => handlers'[i] = handlers[i]
  <2>1. CASE handlers' = handlers
    BY <2>1 DEF Books
  <2>2. CASE handlers' = [i \in Ids |-> IF i \in IdsOf(r) THEN NoOne ELSE handlers[i]]
    BY <2>2 DEF Books
  <2> QED BY <2>1, <2>2
<1>3. Books'
  BY <1>1, <1>2 DEF Books
<1>4. Numbered'
  <2>1. Started' = Started
    BY <1>1 DEF Started
  <2>2. \A s \in Requests : request'[s].pc = "idle" <=> request[s].pc = "idle"
    BY <1>1
  <2> QED BY <1>1, <2>1, <2>2 DEF Answering, Numbered
<1>5. Registered'
  <2>1. ASSUME NEW i \in Ids, handlers'[i] # NoOne PROVE i \in IdsOf(handlers[i])'
    <3>1. handlers'[i] = handlers[i] /\ handlers[i] # NoOne /\ handlers[i] \in Requests
      BY <1>2, <2>1 DEF Books
    <3>2. PICK s \in Requests : s = handlers[i]
      BY <3>1
    <3>3. i \in IdsOf(s)
      BY <3>1, <3>2 DEF Answering, Registered
    <3>4. i \in IdsOf(s)' /\ s = handlers'[i]
      BY <1>1, <3>1, <3>2, <3>3
    <3> QED BY <3>4
  <2>2. ASSUME NEW s \in Requests, request'[s].pc = "registered", NEW i \in IdsOf(s)'
        PROVE  handlers'[i] = s
    <3>1. s # r /\ request[s].pc = "registered" /\ i \in IdsOf(s) /\ i \in Ids
      BY <1>1, <2>2, IdsWithin DEF Answering
    <3>2. i \notin IdsOf(r)
      BY <3>1 DEF Answering, Numbered
    <3> QED BY <1>2, <3>1, <3>2 DEF Answering, Registered
  <2> QED BY <2>1, <2>2 DEF Registered
<1>6. ASSUME NEW i, NEW s, Sent(i, s) PROVE Sent(i, s)'
  <2>1. s \in Requests /\ i \in IdsOf(s) /\ i \in Ids
    BY <1>6, IdsWithin DEF Sent, Answering
  <2>2. CASE s = r
    BY <1>1, <2>1, <2>2 DEF Sent
  <2>3. CASE s # r
    <3>1. i \notin IdsOf(r)
      BY <2>1, <2>3 DEF Answering, Numbered
    <3>2. IdsOf(s)' = IdsOf(s) /\ request'[s] = request[s] /\ handlers'[i] = handlers[i]
      BY <1>1, <1>2, <2>1, <2>3, <3>1
    <3> QED BY <1>6, <3>2 DEF Sent
  <2> QED BY <2>2, <2>3
<1>7. Owed' /\ Returned'
  BY <1>6, KeptAnswers
<1> QED BY <1>3, <1>4, <1>5, <1>7 DEF Answering

\* Every step keeps the books and the answers.
LEMMA AnswersStep ==
  Carried /\ Books /\ Answering /\ [Next]_vars => Books' /\ Answering'
<1> SUFFICES ASSUME Carried, Books, Answering, [Next]_vars
             PROVE  Books' /\ Answering'
  OBVIOUS
<1> DEFINE Quiet == UNCHANGED <<wire, asked, counter, handlers, request>>
<1>q. Quiet => Books' /\ Answering'
  BY StillAnswers
<1> DEFINE Reading1 == wire # <<>> /\ wire' = Tail(wire) /\ UNCHANGED <<asked, counter, handlers, request>>
<1>r. Reading1 => Books' /\ Answering'
  BY ReadAnswers
<1> USE DEF gatewayVars, eventVars, ackVars, flags
<1>1. CASE Dial
  BY <1>1, DialAnswers
<1>2. CASE DialFails \/ NamespaceReady \/ NamespaceTimeout \/ NamespaceClosed \/ OwnerCloses
  <2>1. Quiet
    BY <1>2 DEF DialFails, NamespaceReady, NamespaceTimeout, NamespaceClosed, OwnerCloses
  <2> QED BY <1>q, <2>1
<1>3. CASE GatewaySends
  <2>1. PICK f \in {[type |-> "connect"], [type |-> "close"]} :
          Deliver(<<f>>) /\ UNCHANGED <<asked, counter, handlers, request>>
    BY <1>3 DEF GatewaySends
  <2>2. f \in Frame /\ f.type # "ack"
    BY FramesMade
  <2>3. <<f>> \in Seq(Frame) /\ \A i \in 1..Len(<<f>>) : <<f>>[i].type # "ack"
    BY <2>2, One
  <2> DEFINE b == <<f>>
  <2>4. b \in Seq(Frame) /\ Deliver(b) /\ \A i \in 1..Len(b) : b[i].type # "ack"
    BY <2>1, <2>3
  <2> HIDE DEF b
  <2> QED BY <2>1, <2>4, SendAnswers
<1>4. CASE GatewaySendsEvent
  <2> DEFINE b == EventFrames(sent + 1)
  <2>1. Deliver(b) /\ UNCHANGED <<asked, counter, handlers, request>> /\ sent < Len(Size)
    BY <1>4 DEF GatewaySendsEvent
  <2>2. sent + 1 \in Number
    BY <2>1, Sizes DEF Carried
  <2>3. /\ b \in Seq(Frame) /\ Len(b) = Size[sent + 1] + 1 /\ b[1].type = "event"
        /\ \A i \in 2..(Size[sent + 1] + 1) : b[i] = Attachment(sent + 1, i - 1)
    <3>1. [type |-> "event", n |-> sent + 1].type = "event"
      OBVIOUS
    <3> QED BY <2>2, <3>1, Burst
  <2> HIDE DEF b
  <2>4. ASSUME NEW i \in 1..Len(b) PROVE b[i].type # "ack"
    <3>1. CASE i = 1
      BY <2>3, <3>1
    <3>2. CASE i # 1
      <4>1. i \in 2..(Size[sent + 1] + 1)
        BY <2>2, <2>3, <3>2, Sizes
      <4> QED BY <2>3, <4>1, AttachmentFields
    <3> QED BY <3>1, <3>2
  <2> QED BY <2>1, <2>3, <2>4, SendAnswers
<1>5. CASE GatewayAnswers
  BY <1>5, GatewayAnswersOne
<1>6. CASE LinkFails \/ ReadFails
  <2>1. Quiet
    BY <1>6 DEF LinkFails, ReadFails
  <2> QED BY <1>q, <2>1
<1>7. CASE ReadClose \/ ReadNamespace
  <2>1. Reading1
    BY <1>7 DEF ReadClose, ReadNamespace, Take
  <2> QED BY <1>r, <2>1
<1>8. CASE ReadEvent \/ ReadAttachment
  <2>1. Reading1
    BY <1>8 DEF ReadEvent, ReadAttachment, Take
  <2> QED BY <1>r, <2>1
<1>9. CASE ReadAck
  BY <1>9, ReadAckAnswers
<1>10. CASE Enqueue \/ DropOffered \/ DeadlinePasses \/ Dispatch \/ HandlerReturns \/ DispatchEnds
  <2>1. Quiet
    BY <1>10 DEF Enqueue, DropOffered, DeadlinePasses, Dispatch, HandlerReturns, DispatchEnds
  <2> QED BY <1>q, <2>1
<1>11. ASSUME NEW r \in Requests, Allocate(r) PROVE Books' /\ Answering'
  BY <1>11, AllocateAnswers
<1>12. ASSUME NEW r \in Requests, Register(r) PROVE Books' /\ Answering'
  BY <1>12, RegisterAnswers
<1>13. ASSUME NEW r \in Requests, SendRequest(r) PROVE Books' /\ Answering'
  BY <1>13, SendRequestAnswers
<1>14. ASSUME NEW r \in Requests, SendFails(r) PROVE Books' /\ Answering'
  <2>1. /\ Ask(r, "ended") /\ request[r].pc \in {"registered", "waiting"}
        /\ handlers' \in {handlers, [i \in Ids |-> IF i \in IdsOf(r) THEN NoOne ELSE handlers[i]]}
        /\ UNCHANGED <<wire, asked, counter>>
    BY <1>14 DEF SendFails
  <2> QED BY <2>1, EndsAnswers
<1>15. ASSUME NEW r \in Requests, TakeReply(r) \/ WaitEnds(r) \/ RequestTimeout(r)
       PROVE  Books' /\ Answering'
  <2>1. /\ Ask(r, "ended") /\ request[r].pc \in {"registered", "waiting"}
        /\ handlers' = handlers /\ UNCHANGED <<wire, asked, counter>>
    BY <1>15 DEF TakeReply, WaitEnds, RequestTimeout
  <2> QED BY <2>1, EndsAnswers
<1>16. CASE UNCHANGED vars
  <2>1. Quiet
    BY <1>16 DEF vars
  <2> QED BY <1>q, <2>1
<1> QED BY <1>1, <1>2, <1>3, <1>4, <1>5, <1>6, <1>7, <1>8, <1>9, <1>10, <1>11, <1>12, <1>13,
   <1>14, <1>15, <1>16, Steps

LEMMA FlagsStep == Flags /\ [Next]_vars => Flags'
<1> SUFFICES ASSUME Flags, [Next]_vars PROVE Flags'
  OBVIOUS
<1> USE DEF Flags, flags, eventVars, gatewayVars
<1>1. Gateways \in Nat /\ Gateways > 0
  BY Constants
<1>2. NextGateway => phase' \in {"dialing", "failed"} /\ gateway' \in 0..Gateways
  BY <1>1 DEF NextGateway
<1>3. CASE Dial
  BY <1>3 DEF Dial
<1>4. CASE DialFails
  BY <1>2, <1>4 DEF DialFails
<1>5. CASE NamespaceReady
  BY <1>1, <1>5 DEF NamespaceReady
<1>6. CASE NamespaceTimeout
  BY <1>2, <1>6 DEF NamespaceTimeout, Close
<1>7. CASE NamespaceClosed
  BY <1>2, <1>7 DEF NamespaceClosed
<1>8. CASE OwnerCloses
  BY <1>8 DEF OwnerCloses, Close
<1>9. CASE GatewaySends
  BY <1>9 DEF GatewaySends
<1>10. CASE GatewaySendsEvent
  BY <1>10 DEF GatewaySendsEvent
<1>11. CASE GatewayAnswers
  BY <1>11 DEF GatewayAnswers
<1>12. CASE LinkFails
  BY <1>12 DEF LinkFails
<1>13. CASE ReadFails
  BY <1>13 DEF ReadFails, Close
<1>14. CASE ReadClose
  BY <1>14 DEF ReadClose, Take, Close
<1>15. CASE ReadNamespace
  BY <1>15 DEF ReadNamespace, Take
<1>16. CASE ReadEvent
  BY <1>16 DEF ReadEvent, Take, Offer
<1>17. CASE ReadAttachment
  BY <1>17 DEF ReadAttachment, Take, Offer
<1>18. CASE ReadAck
  BY <1>18 DEF ReadAck, Take
<1>19. CASE Enqueue
  BY <1>19 DEF Enqueue
<1>20. CASE DropOffered
  BY <1>20 DEF DropOffered
<1>21. CASE DeadlinePasses
  BY <1>21 DEF DeadlinePasses
<1>22. CASE Dispatch
  BY <1>22 DEF Dispatch
<1>23. CASE HandlerReturns
  BY <1>23 DEF HandlerReturns
<1>24. CASE DispatchEnds
  BY <1>24 DEF DispatchEnds
<1>25. ASSUME NEW r \in Requests,
              \/ Allocate(r) \/ Register(r) \/ SendRequest(r) \/ SendFails(r)
              \/ TakeReply(r) \/ WaitEnds(r) \/ RequestTimeout(r)
       PROVE  Flags'
  <2>1. UNCHANGED <<phase, gateway, link, ready, done, late, reader, worker>>
    BY <1>25 DEF Allocate, Register, SendRequest, SendFails, TakeReply, WaitEnds, RequestTimeout
  <2> QED BY <2>1
<1>26. CASE UNCHANGED vars
  BY <1>26 DEF vars
<1> QED BY <1>3, <1>4, <1>5, <1>6, <1>7, <1>8, <1>9, <1>10, <1>11, <1>12, <1>13, <1>14, <1>15,
   <1>16, <1>17, <1>18, <1>19, <1>20, <1>21, <1>22, <1>23, <1>24, <1>25, <1>26, Steps

-----------------------------------------------------------------------------
(* The inductive invariant and what follows from it.                       *)

IInv == Flags /\ Carried /\ Books /\ Assembly /\ Counting /\ Answering

LEMMA Initially == Init => IInv
<1> SUFFICES ASSUME Init PROVE IInv
  OBVIOUS
<1>1. Flags
  <2>1. Gateways \in Nat /\ Gateways > 0 /\ 1 \in 0..Gateways
    BY Constants
  <2> QED BY <2>1 DEF Init, Flags
<1>2. Carried
  BY NoEvents, Sizes DEF Init, Carried
<1>3. Books
  BY DEF Init, Books, Request, NewRequest
<1>4. Assembly
  BY NoEvents, FollowsNone DEF Init, Assembly, AllWhole
<1>5. Counting
  <2>1. Ordered(<<>>, 0, 0)
    BY OrderedNone
  <2> QED BY <2>1, NoEvents DEF Init, Counting, Counted, From
<1>6. \A r \in Requests :
        request[r].pc = "idle" /\ request[r].first = 0 /\ request[r].reply = NoOne /\ IdsOf(r) = {}
  BY DEF Init, NewRequest, IdsOf
<1>7. Numbered
  <2>1. Started = {}
    BY <1>6 DEF Started
  <2>2. Cardinality(Started) = 0
    BY <2>1, FS_EmptySet
  <2> QED BY <1>6, <2>2 DEF Init, Numbered
<1>8. Registered /\ Owed /\ Returned
  BY <1>6, NoEvents DEF Init, Registered, Owed, Returned
<1> QED BY <1>1, <1>2, <1>3, <1>4, <1>5, <1>7, <1>8 DEF IInv, Answering

\* The flags and the books are well formed, the attachments of an event follow
\* its header on the wire, the events known and under way are numbered without
\* a gap, and each id belongs to one request, whose callback is there while
\* its caller waits.
THEOREM Inductive == Spec => []IInv
<1>1. IInv /\ [Next]_vars => IInv'
  BY EventsStep, AnswersStep, FlagsStep DEF IInv, Books
<1> QED BY <1>1, Initially, PTL DEF Spec

\* Every variable of the client keeps its type (Client, Frame and Event).
THEOREM TypeIsKept == Spec => []TypeOK
<1>1. IInv => TypeOK
  <2> SUFFICES ASSUME IInv PROVE TypeOK
    OBVIOUS
  <2>1. Flags /\ Carried /\ Books
    BY DEF IInv
  <2>2. \A s \in {offered, pending, queue, handled} : s \in Seq(Event)
    BY <2>1 DEF Carried
  <2> QED BY <2>1, <2>2 DEF Flags, Carried, Books, TypeOK, Request, Asked
<1> QED BY <1>1, Inductive, PTL

\* What the client has read to the end, and all it knows of, in one sequence.
LEMMA Joined ==
  ASSUME Carried, Assembly
  PROVE  /\ Len(Read) = Len(handled) + Len(queue) + Len(offered)
         /\ Len(Known) = Len(Read) + Len(pending)
         /\ AllWhole(Read)
         /\ Counted => From(Known, 0)
<1> DEFINE a == handled \o queue
           b == a \o offered
           c == b \o pending
           A == Len(handled)
           Q == Len(queue)
           O == Len(offered)
           P == Len(pending)
<1>1. /\ handled \in Seq(Event) /\ queue \in Seq(Event) /\ offered \in Seq(Event) /\ pending \in Seq(Event)
      /\ A \in Nat /\ Q \in Nat /\ O \in Nat /\ P \in Nat
  BY LenProperties DEF Carried
<1> HIDE DEF A, Q, O, P
<1>2. /\ a \in Seq(Event) /\ Len(a) = A + Q
      /\ \A i \in 1..(A + Q) : a[i] = IF i <= A THEN handled[i] ELSE queue[i - A]
  <2>1. /\ a \in Seq(Event) /\ Len(a) = Len(handled) + Len(queue)
        /\ \A i \in 1..(Len(handled) + Len(queue)) :
             a[i] = IF i <= Len(handled) THEN handled[i] ELSE queue[i - Len(handled)]
    BY <1>1, ConcatEvents
  <2> HIDE DEF a
  <2> QED BY <2>1 DEF A, Q
<1>3. Read = b /\ Known = c
  BY DEF Read, Known
<1> HIDE DEF a
<1>4. /\ b \in Seq(Event) /\ Len(b) = A + Q + O
      /\ \A i \in 1..(A + Q + O) : b[i] = IF i <= A + Q THEN a[i] ELSE offered[i - (A + Q)]
  <2>1. /\ b \in Seq(Event) /\ Len(b) = Len(a) + Len(offered)
        /\ \A i \in 1..(Len(a) + Len(offered)) : b[i] = IF i <= Len(a) THEN a[i] ELSE offered[i - Len(a)]
    BY <1>1, <1>2, ConcatEvents
  <2> HIDE DEF b
  <2> QED BY <1>2, <2>1 DEF O
<1> HIDE DEF b
<1>5. /\ Len(c) = A + Q + O + P
      /\ \A i \in 1..(A + Q + O + P) : c[i] = IF i <= A + Q + O THEN b[i] ELSE pending[i - (A + Q + O)]
  <2>1. /\ Len(c) = Len(b) + Len(pending)
        /\ \A i \in 1..(Len(b) + Len(pending)) : c[i] = IF i <= Len(b) THEN b[i] ELSE pending[i - Len(b)]
    BY <1>1, <1>4, ConcatEvents
  <2> HIDE DEF c
  <2> QED BY <1>4, <2>1 DEF P
<1> HIDE DEF c
<1>6. ASSUME NEW i \in 1..(A + Q + O)
      PROVE  \/ i \in 1..A /\ b[i] = handled[i]
             \/ i - A \in 1..Q /\ b[i] = queue[i - A]
             \/ i - (A + Q) \in 1..O /\ b[i] = offered[i - (A + Q)]
  <2>1. CASE i <= A
    <3>1. i \in 1..(A + Q) /\ i \in 1..A /\ i <= A + Q
      BY <1>1, <2>1
    <3> QED BY <1>2, <1>4, <2>1, <3>1
  <2>2. CASE ~(i <= A) /\ i <= A + Q
    <3>1. i \in 1..(A + Q) /\ i - A \in 1..Q
      BY <1>1, <2>2
    <3> QED BY <1>2, <1>4, <2>2, <3>1
  <2>3. CASE ~(i <= A + Q)
    <3>1. i - (A + Q) \in 1..O
      BY <1>1, <2>3
    <3> QED BY <1>4, <2>3, <3>1
  <2> QED BY <1>1, <2>1, <2>2, <2>3
<1>7. ASSUME NEW i \in 1..(A + Q + O) PROVE Whole(b[i])
  BY <1>6 DEF Assembly, AllWhole, A, Q, O
<1>8. ASSUME Counted, NEW i \in 1..(A + Q + O) PROVE b[i].n = 0 + i
  <2>1. CASE i \in 1..A /\ b[i] = handled[i]
    BY <1>8, <2>1 DEF Counted, From, A
  <2>2. CASE i - A \in 1..Q /\ b[i] = queue[i - A]
    <3>1. queue[i - A].n = A + (i - A)
      BY <1>8, <2>2 DEF Counted, From, A, Q
    <3> QED BY <1>1, <2>2, <3>1
  <2>3. CASE i - (A + Q) \in 1..O /\ b[i] = offered[i - (A + Q)]
    <3>1. offered[i - (A + Q)].n = (A + Q) + (i - (A + Q))
      BY <1>8, <2>3 DEF Counted, From, A, Q, O
    <3> QED BY <1>1, <2>3, <3>1
  <2> QED BY <1>6, <2>1, <2>2, <2>3
<1>9. ASSUME Counted, NEW i \in 1..(A + Q + O + P) PROVE c[i].n = 0 + i
  <2>1. CASE i <= A + Q + O
    <3>1. i \in 1..(A + Q + O) /\ c[i] = b[i]
      BY <1>1, <1>5, <2>1
    <3> QED BY <1>8, <1>9, <3>1
  <2>2. CASE ~(i <= A + Q + O)
    <3>1. i - (A + Q + O) \in 1..P /\ c[i] = pending[i - (A + Q + O)]
      BY <1>1, <1>5, <2>2
    <3>2. pending[i - (A + Q + O)].n = (A + Q + O) + (i - (A + Q + O))
      BY <1>9, <3>1 DEF Counted, From, A, Q, O, P
    <3> QED BY <1>1, <3>1, <3>2
  <2> QED BY <2>1, <2>2
<1> QED BY <1>3, <1>4, <1>5, <1>7, <1>9 DEF AllWhole, From, A, Q, O, P

\* No event is lost, duplicated or reordered while the client is open, and an
\* event reaches its handler with its own attachments, all of them and in
\* order, for any number and size of events and any depth of the queue
\* (dispatchEvent, dispatchLoop, handleBinaryFrame, dispatchBinaryEvent).
THEOREM EventsAreConserved == Spec => []EventsConserved
<1>1. IInv => EventsConserved
  <2> SUFFICES ASSUME IInv PROVE EventsConserved
    OBVIOUS
  <2>1. Carried /\ Assembly /\ Counting
    BY DEF IInv
  <2>2. \A i \in 1..Len(Read) : Whole(Read[i])
    BY <2>1, Joined DEF AllWhole
  <2>3. ASSUME ~done
        PROVE  /\ \A i \in 1..Len(Known) : Known[i].n = i
               /\ {wire[i].n : i \in Headers} = (Len(Known) + 1)..sent
               /\ \A i, j \in Headers : i < j => wire[i].n < wire[j].n
    <3>1. Counted
      BY <2>1, <2>3 DEF Counting
    <3>2. From(Known, 0) /\ Len(Known) = Len(handled) + Len(queue) + Len(offered) + Len(pending)
      BY <2>1, <3>1, Joined
    <3>3. Ordered(wire, Len(Known), sent)
      BY <3>1, <3>2 DEF Counted
    <3>4. \A i \in 1..Len(Known) : Known[i].n = i
      BY <3>2 DEF From
    <3>5. DOMAIN wire = 1..Len(wire)
      BY <2>1 DEF Carried
    <3>6. \A i \in Headers : i \in 1..Len(wire) /\ wire[i].type = "event"
      BY <3>5 DEF Headers
    <3>7. \A i \in 1..Len(wire) : wire[i].type = "event" => i \in Headers
      BY <3>5 DEF Headers
    <3>8. {wire[i].n : i \in Headers} = (Len(Known) + 1)..sent
      <4>1. \A i \in Headers : wire[i].n \in (Len(Known) + 1)..sent
        BY <3>3, <3>6 DEF Ordered
      <4>2. \A n \in (Len(Known) + 1)..sent : \E i \in Headers : wire[i].n = n
        BY <3>3, <3>7 DEF Ordered
      <4> QED BY <4>1, <4>2
    <3>9. \A i, j \in Headers : i < j => wire[i].n < wire[j].n
      BY <3>3, <3>6 DEF Ordered
    <3> QED BY <3>4, <3>8, <3>9
  <2> QED BY <2>2, <2>3 DEF EventsConserved
<1> QED BY <1>1, Inductive, PTL

\* A caller takes the answer to its own request, and the callback of an answer
\* on its way is there while its caller waits, for any requests taking one or
\* two ids each (handleAckPacket, EmitBinaryWithAckCount, EmitBinaryWithAcks).
THEOREM AnswersFindTheirRequest == Spec => []AnswersReachTheirRequest
<1>1. IInv => AnswersReachTheirRequest
  <2> SUFFICES ASSUME IInv PROVE AnswersReachTheirRequest
    OBVIOUS
  <2>1. Numbered /\ Returned /\ DOMAIN wire = 1..Len(wire)
    BY DEF IInv, Answering, Carried
  <2> QED BY <2>1 DEF Numbered, Returned, Sent, AnswersReachTheirRequest
<1> QED BY <1>1, Inductive, PTL
=============================================================================
