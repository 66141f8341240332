------------------------------ MODULE Expansion ------------------------------
(***************************************************************************)
(* Growing a pool in band (cmd/uulink/expand.go).  The controller, once    *)
(* its primary session runs over a relay, asks the served side for extra   *)
(* rooms over the text channel of that session and joins what it is        *)
(* offered; the served side mints one guest room per free slot.  The text  *)
(* channel is reliable and ordered, and lives as long as the primary       *)
(* session, whose loss ends both sides' expansion.                         *)
(*                                                                         *)
(* A share is a slot and the incarnation of its room: a slot keeps its     *)
(* guest identity when it is repaired, so its connect ID stays the same.   *)
(*                                                                         *)
(* An unused definition placed just before the one it resembles            *)
(* (AcceptAny, JoinAll, AnySecond) is a plausible bug: in the place of its       *)
(* neighbour it must break a property.                                     *)
(***************************************************************************)
EXTENDS Naturals, Sequences, FiniteSets, FiniteSetsExt

CONSTANTS
  Target,      \* the controller's targetSessions, the primary included
  FirstBatch,  \* rooms asked for at a time: 1, or Target - 1 with a fixed target
  MaxExtra,    \* the served side's targetSessions - 1
  Slots,       \* maxExpandSessions
  MaxFaults    \* how many faults happen (a bound)

ASSUME TargetAssumption == Target \in Nat \ {0}
ASSUME BatchAssumption  == FirstBatch \in Nat
ASSUME ExtraAssumption  == MaxExtra \in Nat
ASSUME SlotsAssumption  == Slots \in Nat
ASSUME FaultsAssumption == MaxFaults \in Nat

Slot  == 1..Slots
Share == [slot : Slot, gen : Nat \ {0}]

VARIABLES
  expanding,  \* AdaptiveSessionPool.expanding
  step,       \* maintainControllerPool: off, wait, request, join
  batch,      \* its batch
  known,      \* its known map: the shares whose runtime it remembers
  joining,    \* shares startPooledController is joining
  pool,       \* shares whose session is in the pool, besides the primary
  next,       \* expandNegotiator.next; the active request is the last one
  result,     \* expandNegotiator.result, of capacity one
  requests,   \* requests on their way to the served side
  replies,    \* replies on their way to the controller
  serving,    \* the request serveExpandRequests is minting for
  previous,   \* its previous reply
  room,       \* [Slot -> the slot's room]
  minting,    \* slots whose startPooledGuestServer is running
  faults      \* faults so far

controller == <<expanding, step, batch, known, joining, pool, next, result>>
served     == <<serving, previous, room, minting>>
vars == <<controller, requests, replies, served, faults>>

\* An offer of no share is an expand_error.
Request(id, extra) == [id |-> id, extra |-> extra]
Reply(id, shares)  == [id |-> id, shares |-> shares]
NotServing == [id |-> 0, slots |-> {}]
NoReply    == Reply(0, {})

\* A room is open until a controller reached it; taken or not, it may end.
Live(i)  == room[i].state \in {"open", "taken"}
Offer(i) == [slot |-> i, gen |-> room[i].gen]
Size     == 1 + Cardinality(pool)

Init ==
  /\ expanding = FALSE
  /\ step = "off"
  /\ batch = FirstBatch
  /\ known = {} /\ joining = {} /\ pool = {}
  /\ next = 0
  /\ result = <<>> /\ requests = <<>> /\ replies = <<>>
  /\ serving = NotServing
  /\ previous = NoReply
  /\ room = [i \in Slot |-> [gen |-> 0, state |-> "none"]]
  /\ minting = {}
  /\ faults = 0

Fault == faults < MaxFaults /\ faults' = faults + 1

-----------------------------------------------------------------------------
(* The controller *)

\* OnModeDetected("relay"): only the first detection starts the maintenance,
\* which a controller without an account (no JWT) leaves at once.
RelayDetected ==
  /\ Target > 1
  /\ ~expanding
  /\ expanding' = TRUE
  /\ step' \in {"wait", "off"}
  /\ UNCHANGED <<batch, known, joining, pool, next, result, requests, replies, served, faults>>

\* One pass of the reconcile loop finds the pool too small and asks for rooms.
Maintain ==
  /\ step = "wait"
  /\ Size < Target
  /\ known' = known \cap pool
  /\ batch' = IF batch = 0 \/ batch > Target - Size THEN Target - Size ELSE batch
  /\ next' = next + 1
  /\ requests' = Append(requests, Request(next', batch'))
  /\ step' = "request"
  /\ UNCHANGED <<expanding, joining, pool, result, replies, served, faults>>

QueueAlways(msg) == result' = Append(result, msg)

\* A second reply finds the result channel full and is dropped.
QueueResult(msg) == result' = IF result = <<>> THEN <<msg>> ELSE result

\* The negotiator keeps a reply to the active request, even if requestContext
\* has given up on it.
HandleReply ==
  /\ replies # <<>>
  /\ replies' = Tail(replies)
  /\ IF Head(replies).id = next THEN QueueResult(Head(replies)) ELSE UNCHANGED result
  /\ UNCHANGED <<expanding, step, batch, known, joining, pool, next, requests, served, faults>>

AcceptAny(shares) == shares # {}

\* An offer that is empty, or larger than what was asked for, is an error.
Acceptable(shares) == shares # {} /\ Cardinality(shares) <= batch

JoinAll(shares) == shares

\* A share is not joined if a runtime of its connect ID is remembered.
NotKnown(shares) == {s \in shares : \A t \in known : t.slot # s.slot}

TakeResult ==
  /\ step = "request"
  /\ result # <<>>
  /\ result' = <<>>
  /\ LET shares == Head(result).shares IN
     IF Acceptable(shares)
     THEN step' = "join" /\ joining' = NotKnown(shares)
     ELSE step' = "wait" /\ UNCHANGED joining
  /\ UNCHANGED <<expanding, batch, known, pool, next, requests, replies, served, faults>>

\* expandOfferTimeout; a reply that is there as well stays in the channel.
Timeout ==
  /\ step = "request"
  /\ step' = "wait"
  /\ Fault
  /\ UNCHANGED <<expanding, batch, known, joining, pool, next, result, requests, replies, served>>

Reachable(s) == room[s.slot] = [gen |-> s.gen, state |-> "open"]

\* startPooledController and set.add: the session is ready and in the pool.
JoinSucceeds(s) ==
  /\ s \in joining
  /\ Reachable(s)
  /\ joining' = joining \ {s}
  /\ pool' = pool \cup {s}
  /\ known' = known \cup {s}
  /\ room' = [room EXCEPT ![s.slot].state = "taken"]
  /\ UNCHANGED <<expanding, step, batch, next, result, requests, replies, serving,
                 previous, minting, faults>>

\* The attempt may fail before or after it reached the room.
JoinFails(s) ==
  /\ s \in joining
  /\ IF Reachable(s)
     THEN /\ Fault
          /\ \E state \in {"open", "taken"} : room' = [room EXCEPT ![s.slot].state = state]
     ELSE UNCHANGED <<room, faults>>
  /\ joining' = joining \ {s}
  /\ UNCHANGED <<expanding, step, batch, known, pool, next, result, requests, replies,
                 serving, previous, minting>>

Joined ==
  /\ step = "join"
  /\ joining = {}
  /\ step' = "wait"
  /\ UNCHANGED <<expanding, batch, known, joining, pool, next, result, requests, replies,
                 served, faults>>

\* monitorSession at the controller: a fault, or the room has ended.
SessionLost(s) ==
  /\ s \in pool
  /\ pool' = pool \ {s}
  /\ IF Live(s.slot) /\ room[s.slot].gen = s.gen THEN Fault ELSE UNCHANGED faults
  /\ UNCHANGED <<expanding, step, batch, known, joining, next, result, requests, replies, served>>

-----------------------------------------------------------------------------
(* The served side *)

\* Slots without a room, or whose room's runtime is done.
Free == {i \in Slot : ~Live(i)}

FirstSlots(n) == 1..n

FirstFree(n) == {i \in Free : Cardinality({j \in Free : j < i}) < n}
Granted(n)   == Min({n, MaxExtra, Slots})

Answer(reply) == previous' = reply /\ replies' = Append(replies, reply)

AnySecond(req) == previous # NoReply

\* The request is the one answered last.
Repeated(req) == previous.id = req.id

\* A repeated request gets the previous reply; one that cannot be granted, or
\* finds too few free slots, an error.  Otherwise the minter starts.
Serve ==
  /\ serving = NotServing
  /\ requests # <<>>
  /\ requests' = Tail(requests)
  /\ LET req == Head(requests)
         extra == Granted(req.extra)
     IN
     IF Repeated(req)
     THEN Answer(previous) /\ UNCHANGED <<serving, room, minting>>
     ELSE IF extra = 0 \/ Cardinality(Free) < extra
     THEN Answer(Reply(req.id, {})) /\ UNCHANGED <<serving, room, minting>>
     ELSE /\ serving' = [id |-> req.id, slots |-> FirstFree(extra)]
          /\ minting' = FirstFree(extra)
          /\ room' = [i \in Slot |-> IF i \in minting' THEN [room[i] EXCEPT !.state = "none"]
                                     ELSE room[i]]
          /\ UNCHANGED <<previous, replies>>
  /\ UNCHANGED <<controller, faults>>

MintSucceeds(i) ==
  /\ i \in minting
  /\ minting' = minting \ {i}
  /\ room' = [room EXCEPT ![i] = [gen |-> @.gen + 1, state |-> "open"]]
  /\ UNCHANGED <<controller, requests, replies, serving, previous, faults>>

MintFails(i) ==
  /\ i \in minting
  /\ minting' = minting \ {i}
  /\ Fault
  /\ UNCHANGED <<controller, requests, replies, serving, previous, room>>

\* Every slot was tried: offer the rooms that are still live.
Minted ==
  /\ serving # NotServing
  /\ minting = {}
  /\ serving' = NotServing
  /\ Answer(Reply(serving.id, {Offer(i) : i \in {j \in serving.slots : Live(j)}}))
  /\ UNCHANGED <<controller, requests, room, minting, faults>>

\* Its controller is gone, or never got through to it.
Abandoned(i) == room[i].state = "taken" /\ Offer(i) \notin pool

\* monitorSession at the served side.  Nothing ends an open room that no
\* controller ever reached, except a fault.
RoomEnds(i) ==
  /\ Live(i)
  /\ room' = [room EXCEPT ![i].state = "done"]
  /\ IF Abandoned(i) THEN UNCHANGED faults ELSE Fault
  /\ UNCHANGED <<controller, requests, replies, serving, previous, minting>>

-----------------------------------------------------------------------------

Next ==
  \/ RelayDetected \/ Maintain \/ HandleReply \/ TakeResult \/ Timeout \/ Joined
  \/ \E s \in joining : JoinSucceeds(s) \/ JoinFails(s)
  \/ \E s \in pool : SessionLost(s)
  \/ Serve \/ Minted
  \/ \E i \in Slot : MintSucceeds(i) \/ MintFails(i) \/ RoomEnds(i)

Spec == Init /\ [][Next]_vars

(***************************************************************************)
(* Fairness: the reconcile loop wakes up, the channel delivers, requests   *)
(* are served, an attempt to join or to mint ends, and each side's monitor *)
(* notices that the other end of a session is gone.  Faults need not       *)
(* happen; a relay need not be detected.                                   *)
(***************************************************************************)
Fairness ==
  /\ WF_vars(Maintain) /\ WF_vars(HandleReply) /\ WF_vars(TakeResult) /\ WF_vars(Joined)
  /\ WF_vars(Serve) /\ WF_vars(Minted)
  /\ WF_vars(\E s \in joining : JoinSucceeds(s) \/ JoinFails(s))
  /\ WF_vars(\E s \in pool : SessionLost(s) /\ UNCHANGED faults)
  /\ \A i \in Slot : /\ WF_vars(MintSucceeds(i))
                     /\ WF_vars(Abandoned(i) /\ RoomEnds(i))

FairSpec == Spec /\ Fairness

-----------------------------------------------------------------------------
(* Properties *)

AnyReply   == [id : Nat, shares : SUBSET Share]
AnyRequest == [id : Nat, extra : Nat]
AnyRoom    == [gen : Nat, state : {"none", "open", "taken", "done"}]

\* The shape of the state, and the capacity of the result channel.
TypeOK ==
  /\ expanding \in BOOLEAN
  /\ step \in {"off", "wait", "request", "join"}
  /\ batch \in Nat /\ next \in Nat /\ faults \in 0..MaxFaults
  /\ known \subseteq Share /\ joining \subseteq Share /\ pool \subseteq Share
  /\ result \in Seq(AnyReply) /\ Len(result) <= 1
  /\ replies \in Seq(AnyReply)
  /\ requests \in Seq(AnyRequest)
  /\ serving \in [id : Nat, slots : SUBSET Slot]
  /\ previous \in AnyReply
  /\ room \in [Slot -> AnyRoom]
  /\ minting \subseteq serving.slots

(***************************************************************************)
(* The pool never exceeds its target, nor would it if every join in        *)
(* progress succeeded, although replies may be taken for those of another  *)
(* request and sessions come and go while one is made.                     *)
(***************************************************************************)
PoolWithinTarget == Size + Cardinality(joining \ pool) <= Target

(***************************************************************************)
(* "never rejoins an already healthy room" (maintainControllerPool): no    *)
(* connect ID is joined that already has a session in the pool, not even   *)
(* one whose room the served side has repaired in the meantime.            *)
(***************************************************************************)
NeverRejoins == \A s \in joining, t \in pool : s.slot # t.slot

(***************************************************************************)
(* "Healthy rooms and their TCP connections remain untouched when another  *)
(* slot is repaired" (newExpansionMinter).                                 *)
(***************************************************************************)
HealthyUntouched ==
  [][\A i \in Slot : Live(i) => room'[i].gen = room[i].gen /\ room'[i].state # "none"]_vars

(***************************************************************************)
(* Once maintenance was started the pool reaches its target, again and     *)
(* again, whatever finitely many faults did: requests that timed out,      *)
(* rooms that could not be minted or joined, sessions and rooms that were  *)
(* lost.                                                                   *)
(***************************************************************************)
FillsUp == (step # "off") ~> Size = Target

(***************************************************************************)
(* "Remote expansion requests cannot exceed the serving endpoint's target" *)
(* (docs/configuration.md).                                                *)
(***************************************************************************)
RoomsWithinTarget == Cardinality({i \in Slot : Live(i)}) <= MaxExtra

-----------------------------------------------------------------------------
(* What makes PoolWithinTarget and NeverRejoins inductive *)

\* No offer names a slot twice.
SoundOffer(shares) ==
  /\ shares \subseteq Share
  /\ IsFiniteSet(shares)
  /\ \A s, t \in shares : s.slot = t.slot => s = t

OffersAreSound ==
  /\ SoundOffer(previous.shares)
  /\ \A n \in DOMAIN replies : SoundOffer(replies[n].shares)
  /\ \A n \in DOMAIN result : SoundOffer(result[n].shares)

\* Joins are in progress only after an offer, and every session is remembered.
JoinsFollowOffers ==
  /\ SoundOffer(joining)
  /\ joining # {} => step = "join"
  /\ IsFiniteSet(pool)
  /\ pool \subseteq known

\* While a request is out, the pool has room for what it asks for.
RequestFits == step = "request" => Size + batch <= Target

\* There is one maintenance, and it was started by a detection.
StartedOnce == step # "off" => expanding

\* A room has an incarnation.
RoomsAreNumbered == \A i \in Slot : Live(i) => room[i].gen # 0

IInv == /\ TypeOK /\ PoolWithinTarget /\ NeverRejoins
        /\ OffersAreSound /\ JoinsFollowOffers /\ RequestFits
        /\ StartedOnce /\ RoomsAreNumbered
=============================================================================
