----------------------------- MODULE Signaling -----------------------------
(***************************************************************************)
(* The signaling client (pkg/signaling/client.go) and the loop that picks  *)
(* a gateway for it (connectSignaling, cmd/uulink/multisession.go).        *)
(*                                                                         *)
(* One goroutine reads the socket: it answers pings, completes requests    *)
(* with the acknowledgements it reads, joins a binary event with the       *)
(* attachments that follow it, and puts events into a bounded queue.  A    *)
(* second goroutine takes events from the queue and runs their handlers.   *)
(* Callers send requests and wait for an acknowledgement, for the end of   *)
(* the connection or for a timeout.  The gateway is external: it numbers   *)
(* the events it sends, sends the frames of a binary event contiguously,   *)
(* and answers each acknowledgement id at most once.  Only the last client *)
(* connectSignaling made is kept: the ones it gave up on are closed.       *)
(***************************************************************************)
EXTENDS Integers, Sequences, FiniteSets

CONSTANTS
  Requests,       \* the requests callers make, each once per client
  Acks,           \* [Requests -> 1..2]: acknowledgement ids a request takes
  Gateways,       \* number of gateways the room lists
  QueueDepth,     \* capacity of the event queue (eventQueueDepth)
  Size,           \* attachments of each event the gateway may send on one
                  \* connection, in order; bounds their number
  MaxWire,        \* bound: frames under way from the gateway
  NoOne           \* not a request

ASSUME SignalingAssumption ==
  /\ IsFiniteSet(Requests) /\ NoOne \notin Requests
  /\ Acks \in [Requests -> 1..2]
  /\ {Gateways, QueueDepth, MaxWire} \subseteq Nat \ {0}
  /\ Size \in Seq(Nat)

VARIABLES
  phase,     \* of connectSignaling: dialing, namespace, up, failed
  gateway,   \* index of the gateway being tried; 0 once a client is returned
  link,      \* up; silent: nothing arrives any more; down: reads fail
  wire,      \* frames from the gateway, oldest first
  sent,      \* events the gateway has sent on this connection
  asked,     \* acknowledgements the gateway still owes: [id, of]
  ready,     \* readyCh is closed
  done,      \* done is closed: the client is closed
  reader,    \* the read loop: none, reading, offering, ended
  offered,   \* the event dispatchEvent is putting into the queue, if any
  late,      \* the read deadline passed while dispatchEvent was blocked
  pending,   \* pendingBinaryEvent, if any
  queue,     \* eventQueue
  worker,    \* the dispatch loop: none, waiting, handling, ended
  handled,   \* events given to handleEvent, in order
  counter,   \* ackCounter
  handlers,  \* ackHandlers: who waits for an id
  request    \* [Requests -> [pc, first, reply]]

gatewayVars == <<link, wire, sent, asked>>
eventVars   == <<offered, late, pending, queue, worker, handled>>
ackVars     == <<counter, handlers, request>>
flags       == <<ready, done>>
vars == <<phase, gateway, gatewayVars, flags, reader, eventVars, ackVars>>

Ids == 1..(2 * Cardinality(Requests))
Number == DOMAIN Size
Part == Number \X (Nat \ {0})
Event == [n : Number, parts : Seq(Part)]
Frame ==
  [type : {"connect", "close"}]
  \cup [type : {"event"}, n : Number]
  \cup [type : {"attachment"}, part : Part]
  \cup [type : {"ack"}, id : Ids, of : Requests, body : {"key", "result"}]

Attachment(n, j) == [type |-> "attachment", part |-> <<n, j>>]

NewRequest == [pc |-> "idle", first |-> 0, reply |-> NoOne]
IdsOf(r) == LET f == request[r].first IN IF f = 0 THEN {} ELSE f..(f + Acks[r] - 1)

-----------------------------------------------------------------------------
(* Connecting.                                                             *)

Init ==
  /\ phase = "dialing" /\ gateway = 1
  /\ link = "down" /\ wire = <<>> /\ sent = 0 /\ asked = {}
  /\ ready = FALSE /\ done = FALSE
  /\ reader = "none" /\ worker = "none"
  /\ offered = <<>> /\ late = FALSE /\ pending = <<>> /\ queue = <<>> /\ handled = <<>>
  /\ counter = 0
  /\ handlers = [i \in Ids |-> NoOne]
  /\ request = [r \in Requests |-> NewRequest]

\* The next gateway of the room's list, or none is left.
NextGateway ==
  IF gateway < Gateways
  THEN phase' = "dialing" /\ gateway' = gateway + 1
  ELSE phase' = "failed" /\ UNCHANGED gateway

\* Connect: the gateway accepts and opens, both loops start, "40" is sent.
Dial ==
  /\ phase = "dialing"
  /\ phase' = "namespace"
  /\ link' = "up" /\ wire' = <<>> /\ sent' = 0 /\ asked' = {}
  /\ ready' = FALSE /\ done' = FALSE
  /\ reader' = "reading" /\ worker' = "waiting"
  /\ offered' = <<>> /\ late' = FALSE /\ pending' = <<>> /\ queue' = <<>> /\ handled' = <<>>
  /\ counter' = 0
  /\ handlers' = [i \in Ids |-> NoOne]
  /\ request' = [r \in Requests |-> NewRequest]
  /\ UNCHANGED gateway

\* Connect: the dial fails, or no valid open packet arrives.
DialFails ==
  /\ phase = "dialing"
  /\ NextGateway
  /\ UNCHANGED <<gatewayVars, flags, reader, eventVars, ackVars>>

\* Close: the first call closes done and the socket.
Close == done' = TRUE

NamespaceReady ==
  /\ phase = "namespace" /\ ready
  /\ phase' = "up" /\ gateway' = 0
  /\ UNCHANGED <<gatewayVars, flags, reader, eventVars, ackVars>>

NamespaceTimeout ==
  /\ phase = "namespace"
  /\ Close
  /\ NextGateway
  /\ UNCHANGED <<gatewayVars, ready, reader, eventVars, ackVars>>

NamespaceClosed ==
  /\ phase = "namespace" /\ done
  /\ NextGateway
  /\ UNCHANGED <<gatewayVars, flags, reader, eventVars, ackVars>>

\* The owner of an established client closes it.
OwnerCloses ==
  /\ phase = "up" /\ ~done
  /\ Close
  /\ UNCHANGED <<phase, gateway, gatewayVars, ready, reader, eventVars, ackVars>>

-----------------------------------------------------------------------------
(* The gateway and the network (external).                                 *)

Live == phase \in {"namespace", "up"} /\ ~done

Deliver(frames) ==
  /\ Live /\ link = "up"
  /\ Len(wire) + Len(frames) <= MaxWire
  /\ wire' = wire \o frames

\* Frames that change nothing here are left out: pings (answered on the spot),
\* connect errors and the end of the namespace.
GatewaySends ==
  /\ \/ phase = "namespace" /\ ~ready /\ Deliver(<<[type |-> "connect"]>>)
     \/ Deliver(<<[type |-> "close"]>>)
  /\ UNCHANGED <<phase, gateway, link, sent, asked, flags, reader, eventVars, ackVars>>

\* The header of an event and its attachments leave as one burst.
EventFrames(n) ==
  <<[type |-> "event", n |-> n]>> \o [j \in 1..Size[n] |-> Attachment(n, j)]

GatewaySendsEvent ==
  /\ sent < Len(Size)
  /\ sent' = sent + 1
  /\ Deliver(EventFrames(sent + 1))
  /\ UNCHANGED <<phase, gateway, link, asked, flags, reader, eventVars, ackVars>>

\* The ids of one request are answered in order, all but the last of them
\* possibly with a reconnect key in place of the result.
GatewayAnswers ==
  \E a \in asked, b \in {"key", "result"} :
    LET last == a.id = request[a.of].first + Acks[a.of] - 1 IN
    /\ \A o \in asked : o.of = a.of => a.id <= o.id
    /\ b = "key" => ~last
    /\ Deliver(<<[type |-> "ack", id |-> a.id, of |-> a.of, body |-> b]>>)
    /\ asked' = asked \ {a}
    /\ UNCHANGED <<phase, gateway, link, sent, flags, reader, eventVars, ackVars>>

LinkFails ==
  /\ Live /\ link = "up"
  /\ link' \in {"silent", "down"}
  /\ UNCHANGED <<phase, gateway, wire, sent, asked, flags, reader, eventVars, ackVars>>

-----------------------------------------------------------------------------
(* readLoop.                                                               *)

Take(t) == /\ reader = "reading"
           /\ wire # <<>> /\ Head(wire).type = t
           /\ wire' = Tail(wire)
           /\ late' = FALSE

\* Mutant: the read deadline is never armed.
ReadFailsNoDeadline ==
  /\ reader = "reading"
  /\ done \/ link = "down"
  /\ reader' = "ended"
  /\ Close
  /\ UNCHANGED <<phase, gateway, gatewayVars, ready, eventVars, ackVars>>

\* A read error, the read deadline, or the end of a closed connection.
ReadFails ==
  /\ reader = "reading"
  /\ \/ done \/ late \/ link = "down"
     \/ link = "silent" /\ wire = <<>>
  /\ reader' = "ended"
  /\ Close
  /\ UNCHANGED <<phase, gateway, gatewayVars, ready, eventVars, ackVars>>

ReadClose ==
  /\ Take("close")
  /\ reader' = "ended"
  /\ Close
  /\ UNCHANGED <<phase, gateway, link, sent, asked, ready,
                 offered, pending, queue, worker, handled, ackVars>>

ReadNamespace ==
  /\ Take("connect") /\ ready' = TRUE
  /\ UNCHANGED <<phase, gateway, link, sent, asked, done, reader,
                 offered, pending, queue, worker, handled, ackVars>>

\* dispatchEvent: the read loop goes on only when the event is in the queue.
Offer(e) == reader' = "offering" /\ offered' = <<e>>

\* handleEventPacket, or handleBinaryEventPacket when attachments follow.
ReadEvent ==
  LET f == Head(wire)
      e == [n |-> f.n, parts |-> <<>>]
  IN /\ Take("event")
     /\ \/ Size[f.n] = 0 /\ Offer(e) /\ UNCHANGED pending
        \/ Size[f.n] > 0 /\ pending' = <<e>> /\ UNCHANGED <<reader, offered>>
     /\ UNCHANGED <<phase, gateway, link, sent, asked, flags, queue, worker, handled, ackVars>>

\* Mutant: one attachment too many is awaited.
ReadAttachmentOffByOne ==
  LET e == [Head(pending) EXCEPT !.parts = Append(@, Head(wire).part)]
  IN /\ Take("attachment") /\ pending # <<>>
     /\ \/ Len(e.parts) <= Size[e.n] /\ pending' = <<e>> /\ UNCHANGED <<reader, offered>>
        \/ Len(e.parts) > Size[e.n] /\ pending' = <<>> /\ Offer(e)
     /\ UNCHANGED <<phase, gateway, link, sent, asked, flags, queue, worker, handled, ackVars>>

\* handleBinaryFrame: one more attachment of the pending event.  (The code
\* ignores an attachment no event waits for; the gateway sends none.)
ReadAttachment ==
  LET e == [Head(pending) EXCEPT !.parts = Append(@, Head(wire).part)]
  IN /\ Take("attachment") /\ pending # <<>>
     /\ \/ Len(e.parts) < Size[e.n] /\ pending' = <<e>> /\ UNCHANGED <<reader, offered>>
        \/ Len(e.parts) >= Size[e.n] /\ pending' = <<>> /\ Offer(e)
     /\ UNCHANGED <<phase, gateway, link, sent, asked, flags, queue, worker, handled, ackVars>>

Enqueue ==
  /\ reader = "offering" /\ Len(queue) < QueueDepth
  /\ queue' = queue \o offered
  /\ offered' = <<>> /\ reader' = "reading"
  /\ UNCHANGED <<phase, gateway, gatewayVars, flags, late, pending, worker, handled, ackVars>>

\* Mutant: dispatchEvent does not wait for room in the queue.
DropOfferedWhenFull ==
  /\ reader = "offering" /\ (done \/ Len(queue) = QueueDepth)
  /\ offered' = <<>> /\ reader' = "reading"
  /\ UNCHANGED <<phase, gateway, gatewayVars, flags, late, pending, queue, worker, handled, ackVars>>

DropOffered ==
  /\ reader = "offering" /\ done
  /\ offered' = <<>> /\ reader' = "reading"
  /\ UNCHANGED <<phase, gateway, gatewayVars, flags, late, pending, queue, worker, handled, ackVars>>

\* A handler keeps the queue full for longer than the read deadline.
DeadlinePasses ==
  /\ reader = "offering" /\ Len(queue) = QueueDepth /\ ~late
  /\ late' = TRUE
  /\ UNCHANGED <<phase, gateway, gatewayVars, flags, reader, offered, pending,
                 queue, worker, handled, ackVars>>

\* The callback of a request puts its answer into a channel of capacity 1;
\* the control request skips reconnect keys and answers after the first.
Answered(r, f) ==
  IF f.body = "key" \/ request[r].reply # NoOne
  THEN request
  ELSE [request EXCEPT ![r].reply = f.of]

\* handleAckPacket: the callback of an id is removed before it runs.
ReadAck ==
  LET f == Head(wire)
      r == handlers[f.id]
  IN /\ Take("ack")
     /\ handlers' = [handlers EXCEPT ![f.id] = NoOne]
     /\ request' = IF r = NoOne THEN request ELSE Answered(r, f)
     /\ UNCHANGED <<phase, gateway, link, sent, asked, flags, reader,
                    offered, pending, queue, worker, handled, counter>>

-----------------------------------------------------------------------------
(* dispatchLoop.  With done closed and events queued, either may be chosen.*)

Dispatch ==
  /\ worker = "waiting" /\ queue # <<>>
  /\ handled' = Append(handled, Head(queue))
  /\ queue' = Tail(queue)
  /\ worker' = "handling"
  /\ UNCHANGED <<phase, gateway, gatewayVars, flags, reader, offered, late, pending, ackVars>>

HandlerReturns ==
  /\ worker = "handling"
  /\ worker' = "waiting"
  /\ UNCHANGED <<phase, gateway, gatewayVars, flags, reader, offered, late, pending,
                 queue, handled, ackVars>>

DispatchEnds ==
  /\ worker = "waiting" /\ done
  /\ worker' = "ended"
  /\ UNCHANGED <<phase, gateway, gatewayVars, flags, reader, offered, late, pending,
                 queue, handled, ackVars>>

-----------------------------------------------------------------------------
(* Requests: RequestRoomInfo and RefreshReconnectKey take one id, the      *)
(* control request takes two consecutive ones.                             *)

Ask(r, pc) == request' = [request EXCEPT ![r].pc = pc]

\* Mutant: the counter moves by one for a request that takes two ids.
AllocateOne(r) ==
  /\ phase = "up" /\ request[r].pc = "idle"
  /\ request' = [request EXCEPT ![r].pc = IF Acks[r] = 1 THEN "registered" ELSE "allocated",
                                ![r].first = counter + 1]
  /\ counter' = counter + 1
  /\ handlers' = IF Acks[r] = 1 THEN [handlers EXCEPT ![counter'] = r] ELSE handlers
  /\ UNCHANGED <<phase, gateway, gatewayVars, flags, reader, eventVars>>

\* EmitWithAckNoArgs registers an id as it allocates it;
\* EmitBinaryWithAckCount allocates first.
Allocate(r) ==
  /\ phase = "up" /\ request[r].pc = "idle"
  /\ request' = [request EXCEPT ![r].pc = IF Acks[r] = 1 THEN "registered" ELSE "allocated",
                                ![r].first = counter + 1]
  /\ counter' = counter + Acks[r]
  /\ handlers' = IF Acks[r] = 1 THEN [handlers EXCEPT ![counter'] = r] ELSE handlers
  /\ UNCHANGED <<phase, gateway, gatewayVars, flags, reader, eventVars>>

\* EmitBinaryWithAcks registers the ids and keeps the counter ahead of them.
Register(r) ==
  /\ request[r].pc = "allocated"
  /\ Ask(r, "registered")
  /\ handlers' = [i \in Ids |-> IF i \in IdsOf(r) THEN r ELSE handlers[i]]
  /\ counter' = LET top == request[r].first + Acks[r] - 1
                IN IF counter < top THEN top ELSE counter
  /\ UNCHANGED <<phase, gateway, gatewayVars, flags, reader, eventVars>>

\* The request is written; a lost link may swallow it without an error.
SendRequest(r) ==
  /\ request[r].pc = "registered" /\ ~done
  /\ Ask(r, "waiting")
  /\ asked' = IF link = "up" THEN asked \cup {[id |-> i, of |-> r] : i \in IdsOf(r)} ELSE asked
  /\ UNCHANGED <<phase, gateway, link, wire, sent, flags, reader, eventVars, counter, handlers>>

\* The write fails; only EmitBinaryWithAckCount withdraws its callbacks.
SendFails(r) ==
  /\ request[r].pc = "registered" /\ (done \/ link = "down")
  /\ Ask(r, "ended")
  /\ handlers' = IF Acks[r] = 1 THEN handlers
                 ELSE [i \in Ids |-> IF i \in IdsOf(r) THEN NoOne ELSE handlers[i]]
  /\ UNCHANGED <<phase, gateway, gatewayVars, flags, reader, eventVars, counter>>

TakeReply(r) ==
  /\ request[r].pc = "waiting" /\ request[r].reply # NoOne
  /\ Ask(r, "ended")
  /\ UNCHANGED <<phase, gateway, gatewayVars, flags, reader, eventVars, counter, handlers>>

WaitEnds(r) ==
  /\ request[r].pc = "waiting" /\ done
  /\ Ask(r, "ended")
  /\ UNCHANGED <<phase, gateway, gatewayVars, flags, reader, eventVars, counter, handlers>>

RequestTimeout(r) ==
  /\ request[r].pc = "waiting"
  /\ Ask(r, "ended")
  /\ UNCHANGED <<phase, gateway, gatewayVars, flags, reader, eventVars, counter, handlers>>

-----------------------------------------------------------------------------
Connecting == Dial \/ DialFails \/ NamespaceReady \/ NamespaceTimeout \/ NamespaceClosed
Network    == GatewaySends \/ GatewaySendsEvent \/ GatewayAnswers \/ LinkFails
Reading    == ReadFails \/ ReadClose \/ ReadNamespace \/ ReadEvent \/ ReadAttachment \/ ReadAck
Offering   == Enqueue \/ DropOffered
Dispatching == Dispatch \/ HandlerReturns \/ DispatchEnds
Asking(r)  == Allocate(r) \/ Register(r) \/ SendRequest(r) \/ SendFails(r)
Waiting(r) == TakeReply(r) \/ WaitEnds(r)

Next ==
  \/ Connecting \/ OwnerCloses \/ Network \/ Reading \/ Offering \/ DeadlinePasses \/ Dispatching
  \/ \E r \in Requests : Asking(r) \/ Waiting(r) \/ RequestTimeout(r)

Spec == Init /\ [][Next]_vars

\* The goroutines of the client run, handlers return, and connectSignaling's
\* timers fire.  A request's own timer is left out: see LostLinkNoticed.
FairSpec ==
  /\ Spec
  /\ WF_vars(Connecting) /\ WF_vars(Reading) /\ WF_vars(Offering) /\ WF_vars(Dispatching)
  /\ \A r \in Requests : WF_vars(Waiting(r))

-----------------------------------------------------------------------------
TypeOK ==
  /\ phase \in {"dialing", "namespace", "up", "failed"}
  /\ gateway \in 0..Gateways
  /\ link \in {"up", "silent", "down"}
  /\ wire \in Seq(Frame) /\ sent \in 0..Len(Size)
  /\ asked \subseteq [id : Ids, of : Requests]
  /\ ready \in BOOLEAN /\ done \in BOOLEAN /\ late \in BOOLEAN
  /\ reader \in {"none", "reading", "offering", "ended"}
  /\ worker \in {"none", "waiting", "handling", "ended"}
  /\ \A s \in {offered, pending, queue, handled} : s \in Seq(Event)
  /\ counter \in Nat
  /\ handlers \in [Ids -> Requests \cup {NoOne}]
  /\ request \in [Requests ->
       [pc : {"idle", "allocated", "registered", "waiting", "ended"},
        first : Nat, reply : Requests \cup {NoOne}]]

\* Events the client has read to their end, oldest first, and all it knows of.
Read  == handled \o queue \o offered
Known == Read \o pending
\* The headers of events it has not read.
Headers == {i \in DOMAIN wire : wire[i].type = "event"}

Whole(e) == Len(e.parts) = Size[e.n] /\ \A j \in 1..Len(e.parts) : e.parts[j] = <<e.n, j>>

\* No event is lost, duplicated or reordered while the client is open,
\* however slow a handler is and however events, acknowledgements and
\* attachments interleave: what was handled, is queued, is being queued, is
\* waiting for its attachments and is still unread is exactly what the
\* gateway sent, in that order; and an event reaches its handler with all of
\* its own attachments, in order, and none of another event
\* (dispatchEvent, dispatchLoop, handleBinaryFrame, dispatchBinaryEvent).
EventsConserved ==
  /\ phase \in {"namespace", "up"} /\ ~done =>
       /\ \A i \in 1..Len(Known) : Known[i].n = i
       /\ {wire[i].n : i \in Headers} = (Len(Known) + 1)..sent
       /\ \A i, j \in Headers : i < j => wire[i].n < wire[j].n
  /\ \A i \in 1..Len(Read) : Whole(Read[i])

\* The answer a caller takes is the answer to its own request, and an answer
\* to a request that still waits for one finds its callback registered: ids
\* taken one by one and in pairs never collide (comment at client.go:446).
AnswersReachTheirRequest ==
  /\ \A r \in Requests : request[r].reply \in {r, NoOne}
  /\ phase = "up" => \A i \in DOMAIN wire :
       wire[i].type = "ack" /\ request[wire[i].of].pc = "waiting"
         => handlers[wire[i].id] = wire[i].of

\* A connection that breaks, or goes silent without being closed, is noticed:
\* the client is closed and no request is left waiting, even if no request's
\* own timeout fires (extendReadDeadline, the Done() cases of the waits).
LostLinkNoticed ==
  phase = "up" /\ link # "up" ~> done /\ \A r \in Requests : request[r].pc # "waiting"

\* Every event the gateway sends is handled, unless the client is closed.
EventsHandled == sent = Len(Size) ~> done \/ Len(handled) = Len(Size)
=============================================================================
