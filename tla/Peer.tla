-------------------------------- MODULE Peer --------------------------------
(***************************************************************************)
(* The WebRTC set-up of a controller and a controlled peer (pkg/peer).     *)
(*                                                                         *)
(* A controller negotiates "control" with the gateway, builds its          *)
(* connection, emits its ICE candidates as they are gathered and sends one *)
(* offer.  The controlled peer registers for these events, asks the        *)
(* gateway for its room information and only then handles them; what       *)
(* arrives before is kept.  It answers the first offer, applies the        *)
(* candidates that belong to it, asks for a fresh session when another     *)
(* controller offers, and may be closed at any time.  When the two are     *)
(* connected the controller's FILE channel opens and text flows.           *)
(*                                                                         *)
(* A controller incarnation is its ice_id, a number from 1 up; 0 is none.  *)
(* The gateway (external) routes events in order, and to the present       *)
(* controller only: each incarnation has a client_id of its own.           *)
(***************************************************************************)
EXTENDS Integers, Sequences, FiniteSets

CONSTANTS
  Controllers,  \* bound: controller incarnations, one after the other
  Candidates,   \* bound: ICE candidates each side gathers
  Texts,        \* bound: messages the remote side sends on the TEXT channel
  MaxPending    \* messages kept for a text handler (maxPendingText)

ASSUME PeerAssumption ==
  /\ Controllers \in Nat \ {0}
  /\ {Candidates, Texts, MaxPending} \subseteq Nat

VARIABLES
  \* the controller
  ice,        \* the present incarnation
  cphase,     \* idle, control, gathering, offered, failed
  mode,       \* effectiveTransportMode: auto, relay
  gathered,   \* candidates the present controller has emitted
  cremote,    \* its remote description is set
  capplied,   \* controlled candidates its connection was given
  cpending,   \* controlled candidates waiting for the remote description
  pair,       \* the ICE pair in use: none, direct, relay
  selected,   \* selectedPair as the peer knows it: none, direct, relay
  \* events between the two
  toControlled, toController,
  \* the controlled peer
  sphase,     \* of NewControlled: new, waiting, copied, draining, running
  early,      \* pendingSOAC
  local,      \* the copy NewControlled handles
  inhand,     \* the event the dispatch loop handles, and how: append, handle
  lock,       \* who holds soacMu while it answers an offer: none, main, worker
  iceID,      \* iceID of the last offer
  pc,         \* p.pc: the incarnation it was built for
  open,       \* connections that were created and not closed
  sremote, sapplied,
  info,       \* controlledInfo: the incarnation it names
  stun,       \* whose STUN list pc uses; 0: the room's, or the default
  restart,    \* restartRequested is closed
  closing     \* of Close: no, marked, closed

cvars == <<ice, cphase, mode, gathered, cremote, capplied, cpending, pair, selected>>
links == <<toControlled, toController>>
svars == <<sphase, early, local, inhand, lock, iceID, pc, open, sremote, sapplied,
           info, stun, restart, closing>>

VARIABLES
  \* the channels of the connected pair, at the controller
  file,       \* the FILE channel: none, open
  opened,     \* its OnOpen handler: none, fired, calling, over
  register,   \* OnFileChannelOpen: none, stored, calling, over
  ready,      \* what the callback reported first: none, ok, invalid
  received,   \* text messages that arrived
  thand,      \* the message handleTextMessage is passing on
  held,       \* pendingText
  replay,     \* messages OnTextMessage is replaying
  listening,  \* onTextMessage is set
  heard,      \* messages given to the text handler
  dropped     \* messages that found pendingText full

fvars == <<file, opened, register, ready>>
tvars == <<received, thand, held, replay, listening, heard, dropped>>
vars == <<cvars, links, svars, fvars, tvars>>

Ice == 1..Controllers
Event == [type : {"offer", "answer", "candidate", "info"}, ice : Ice, n : Nat]
Offer(i) == [type |-> "offer", ice |-> i, n |-> 0]
Answer(i) == [type |-> "answer", ice |-> i, n |-> 0]
Candidate(i, n) == [type |-> "candidate", ice |-> i, n |-> n]
Info(i) == [type |-> "info", ice |-> i, n |-> 0]

Init ==
  /\ ice = 1 /\ cphase = "idle" /\ mode = "auto" /\ gathered = 0
  /\ cremote = FALSE /\ capplied = {} /\ cpending = {} /\ pair = "none" /\ selected = "none"
  /\ toControlled = <<>> /\ toController = <<>>
  /\ sphase = "new" /\ early = <<>> /\ local = <<>> /\ inhand = <<>>
  /\ lock = "none" /\ iceID = 0 /\ pc = 0 /\ open = {} /\ sremote = FALSE /\ sapplied = {}
  /\ info = 0 /\ stun = 0 /\ restart = FALSE /\ closing = "no"
  /\ file = "none" /\ opened = "none" /\ register = "none" /\ ready = "none"
  /\ received = 0 /\ thand = <<>> /\ held = <<>> /\ replay = <<>>
  /\ listening = FALSE /\ heard = <<>> /\ dropped = {}

-----------------------------------------------------------------------------
(* The controller.                                                         *)

Emit(e) == toControlled' = Append(toControlled, e)

\* NewController: handlers are registered, the control event is sent; the
\* gateway tells the controlled side who is coming ("be-controlled").
RequestControl ==
  /\ cphase = "idle"
  /\ cphase' = "control"
  /\ Emit(Info(ice))
  /\ UNCHANGED <<ice, mode, gathered, cremote, capplied, cpending, pair, selected,
                 toController, svars, fvars, tvars>>

\* The acknowledgement carries a code and whether the server forces a relay;
\* Connect fails when a relay is required and no TURN server was given.
Connect ==
  /\ cphase = "control"
  /\ \E local_mode \in {"auto", "relay"}, forced, turn \in BOOLEAN :
       LET m == IF forced THEN "relay" ELSE local_mode IN
       /\ mode' = m
       /\ cphase' = IF m = "relay" /\ ~turn THEN "failed" ELSE "gathering"
  /\ UNCHANGED <<ice, gathered, cremote, capplied, cpending, pair, selected,
                 links, svars, fvars, tvars>>

\* The control event is rejected, times out, or signaling ends.
ControlFails ==
  /\ cphase = "control"
  /\ cphase' = "failed"
  /\ UNCHANGED <<ice, mode, gathered, cremote, capplied, cpending, pair, selected,
                 links, svars, fvars, tvars>>

\* onICECandidate: gathering starts with SetLocalDescription, that is before
\* the offer is sent.
EmitCandidate ==
  /\ cphase \in {"gathering", "offered"} /\ gathered < Candidates
  /\ gathered' = gathered + 1
  /\ Emit(Candidate(ice, gathered'))
  /\ UNCHANGED <<ice, cphase, mode, cremote, capplied, cpending, pair, selected,
                 toController, svars, fvars, tvars>>

SendOffer ==
  /\ cphase = "gathering"
  /\ cphase' = "offered"
  /\ Emit(Offer(ice))
  /\ UNCHANGED <<ice, mode, gathered, cremote, capplied, cpending, pair, selected,
                 toController, svars, fvars, tvars>>

\* handleSOAC: the answer sets the remote description and releases the
\* candidates that came before it (drainPendingCandidates).
ControllerHandles ==
  LET e == Head(toController) IN
  /\ toController # <<>>
  /\ toController' = Tail(toController)
  /\ \/ /\ e.type = "answer"
        /\ cremote' = TRUE
        /\ capplied' = capplied \cup cpending /\ cpending' = {}
     \/ /\ e.type = "candidate" /\ cremote
        /\ capplied' = capplied \cup {e} /\ UNCHANGED <<cremote, cpending>>
     \/ /\ e.type = "candidate" /\ ~cremote
        /\ cpending' = cpending \cup {e} /\ UNCHANGED <<cremote, capplied>>
  /\ UNCHANGED <<ice, cphase, mode, gathered, pair, selected,
                 toControlled, svars, fvars, tvars>>

\* The controller's process or room is replaced by a new one.
ControllerRestarts ==
  /\ ice < Controllers /\ cphase \in {"offered", "failed"}
  /\ ice' = ice + 1
  /\ cphase' = "idle" /\ mode' = "auto" /\ gathered' = 0
  /\ cremote' = FALSE /\ capplied' = {} /\ cpending' = {} /\ pair' = "none" /\ selected' = "none"
  /\ toController' = <<>>
  /\ file' = "none" /\ opened' = "none" /\ register' = "none" /\ ready' = "none"
  /\ received' = 0 /\ thand' = <<>> /\ held' = <<>> /\ replay' = <<>>
  /\ listening' = FALSE /\ heard' = <<>> /\ dropped' = {}
  /\ UNCHANGED <<toControlled, svars>>

-----------------------------------------------------------------------------
(* The controlled peer: NewControlled.                                     *)

\* The handlers are registered; then room_info and refresh_reconnect_key.
RegisterControlled ==
  /\ sphase = "new"
  /\ sphase' = "waiting"
  /\ UNCHANGED <<cvars, links, early, local, inhand, lock, iceID, pc, open, sremote,
                 sapplied, info, stun, restart, closing, fvars, tvars>>

CopyEarly ==
  /\ sphase = "waiting"
  /\ sphase' = "copied"
  /\ local' = early /\ early' = <<>>
  /\ UNCHANGED <<cvars, links, inhand, lock, iceID, pc, open, sremote, sapplied,
                 info, stun, restart, closing, fvars, tvars>>

MarkReady ==
  /\ sphase = "copied"
  /\ sphase' = "draining"
  /\ UNCHANGED <<cvars, links, early, local, inhand, lock, iceID, pc, open, sremote,
                 sapplied, info, stun, restart, closing, fvars, tvars>>

DrainEnds ==
  /\ sphase = "draining" /\ local = <<>>
  /\ sphase' = "running"
  /\ UNCHANGED <<cvars, links, early, local, inhand, lock, iceID, pc, open, sremote,
                 sapplied, info, stun, restart, closing, fvars, tvars>>

\* The dispatch loop takes an event; without a handler it is dropped.  The
\* soac handler looks at controlledReady first and acts on it afterwards.
TakeEvent ==
  LET e == Head(toControlled) IN
  /\ toControlled # <<>> /\ inhand = <<>>
  /\ toControlled' = Tail(toControlled)
  /\ inhand' =
       IF sphase = "new" THEN <<>>
       ELSE <<[event |-> e,
               how |-> IF e.type # "info" /\ sphase \in {"waiting", "copied"}
                       THEN "append" ELSE "handle"]>>
  /\ UNCHANGED <<cvars, toController, sphase, early, local, lock, iceID, pc, open, sremote,
                 sapplied, info, stun, restart, closing, fvars, tvars>>

AppendEarly ==
  /\ inhand # <<>> /\ inhand[1].how = "append"
  /\ early' = Append(early, inhand[1].event)
  /\ inhand' = <<>>
  /\ UNCHANGED <<cvars, links, sphase, local, lock, iceID, pc, open, sremote, sapplied,
                 info, stun, restart, closing, fvars, tvars>>

-----------------------------------------------------------------------------
(* handleControlledSOAC and handleControlledInfo, under soacMu: by the     *)
(* dispatch loop ("worker") or by NewControlled ("main").                  *)

Has(who, e) ==
  \/ who = "worker" /\ inhand = <<[event |-> e, how |-> "handle"]>>
  \/ who = "main" /\ sphase = "draining" /\ local # <<>> /\ Head(local) = e

Consume(who) ==
  \/ who = "worker" /\ inhand' = <<>> /\ UNCHANGED local
  \/ who = "main" /\ local' = Tail(local) /\ UNCHANGED inhand

\* Mutant: an offer of another incarnation is ignored like a duplicate.
IgnoreReplacement(who) ==
  \E e \in {h.event : h \in {inhand[i] : i \in DOMAIN inhand}} \cup {local[i] : i \in DOMAIN local} :
    /\ lock = "none" /\ Has(who, e) /\ e.type # "info"
    /\ \/ closing # "no"
       \/ e.type = "offer" /\ pc # 0
       \/ e.type = "candidate" /\ (e.ice # iceID \/ pc = 0)
    /\ Consume(who)
    /\ UNCHANGED <<cvars, links, sphase, early, lock, iceID, pc, open, sremote, sapplied,
                   info, stun, restart, closing, fvars, tvars>>

\* An event that changes nothing: the peer is closed, the candidate belongs
\* to another incarnation or comes before any offer, or the offer is a
\* duplicate.  An offer of another incarnation asks for a fresh session.
Ignore(who) ==
  \E e \in {h.event : h \in {inhand[i] : i \in DOMAIN inhand}} \cup {local[i] : i \in DOMAIN local} :
    /\ lock = "none" /\ Has(who, e) /\ e.type # "info"
    /\ \/ closing # "no"
       \/ e.type = "offer" /\ pc # 0
       \/ e.type = "candidate" /\ (e.ice # iceID \/ pc = 0)
    /\ restart' = (restart \/ (closing = "no" /\ e.type = "offer" /\ e.ice # iceID))
    /\ Consume(who)
    /\ UNCHANGED <<cvars, links, sphase, early, lock, iceID, pc, open, sremote, sapplied,
                   info, stun, closing, fvars, tvars>>

HandleInfo ==
  /\ inhand # <<>> /\ lock = "none" /\ Has("worker", inhand[1].event)
  /\ inhand[1].event.type = "info"
  /\ info' \in {inhand[1].event.ice, 0}
  /\ Consume("worker")
  /\ UNCHANGED <<cvars, links, sphase, early, lock, iceID, pc, open, sremote, sapplied,
                 stun, restart, closing, fvars, tvars>>

\* addRemoteCandidate, with the remote description set.
AddCandidate(who) ==
  \E n \in 1..Candidates :
    /\ lock = "none" /\ closing = "no" /\ pc # 0 /\ Has(who, Candidate(iceID, n))
    /\ sapplied' = IF sremote THEN sapplied \cup {Candidate(iceID, n)} ELSE sapplied
    /\ Consume(who)
    /\ UNCHANGED <<cvars, links, sphase, early, lock, iceID, pc, open, sremote,
                   info, stun, restart, closing, fvars, tvars>>

\* answerControlledOffer: the first offer is taken, soacMu stays held.
BeginOffer(who) ==
  \E i \in Ice :
    /\ lock = "none" /\ closing = "no" /\ pc = 0 /\ Has(who, Offer(i))
    /\ lock' = who /\ iceID' = i
    /\ UNCHANGED <<cvars, links, sphase, early, local, inhand, pc, open, sremote, sapplied,
                   info, stun, restart, closing, fvars, tvars>>

\* Mutant: the last announced STUN list is used whoever it names.
BuildConnectionAnyInfo ==
  /\ lock # "none" /\ pc = 0
  /\ pc' = iceID /\ open' = open \cup {iceID}
  /\ stun' = info
  /\ UNCHANGED <<cvars, links, sphase, early, local, inhand, lock, iceID, sremote, sapplied,
                 info, restart, closing, fvars, tvars>>

\* controlledSTUNServers: metadata that names another connection is not used.
BuildConnection ==
  /\ lock # "none" /\ pc = 0
  /\ pc' = iceID /\ open' = open \cup {iceID}
  /\ stun' = IF info = iceID THEN info ELSE 0
  /\ UNCHANGED <<cvars, links, sphase, early, local, inhand, lock, iceID, sremote, sapplied,
                 info, restart, closing, fvars, tvars>>

SendAnswer ==
  /\ lock # "none" /\ pc # 0 /\ pc \in open
  /\ sremote' = TRUE
  /\ toController' = IF pc = ice THEN Append(toController, Answer(pc)) ELSE toController
  /\ lock' = "none" /\ Consume(lock)
  /\ UNCHANGED <<cvars, toControlled, sphase, early, iceID, pc, open, sapplied,
                 info, stun, restart, closing, fvars, tvars>>

\* resetControlledConnection: a step of the answer fails.
OfferFails ==
  /\ lock # "none"
  /\ pc' = 0 /\ open' = open \ {pc} /\ sremote' = FALSE /\ sapplied' = {}
  /\ lock' = "none" /\ Consume(lock)
  /\ UNCHANGED <<cvars, links, sphase, early, iceID, info, stun,
                 restart, closing, fvars, tvars>>

\* onICECandidate of the controlled side: gathering starts with
\* SetLocalDescription, that is before the answer is sent.
EmitControlledCandidate ==
  /\ pc = ice /\ pc \in open
  /\ \E n \in 1..Candidates :
       /\ \A i \in DOMAIN toController : toController[i] # Candidate(pc, n)
       /\ Candidate(pc, n) \notin capplied \cup cpending
       /\ toController' = Append(toController, Candidate(pc, n))
  /\ UNCHANGED <<cvars, toControlled, svars, fvars, tvars>>

\* Close marks the peer closed, then closes the connection it finds.  Its
\* callers have the peer from NewControlled.
MarkClosed ==
  /\ sphase = "running" /\ closing = "no"
  /\ closing' = "marked"
  /\ UNCHANGED <<cvars, links, sphase, early, local, inhand, lock, iceID, pc, open, sremote,
                 sapplied, info, stun, restart, fvars, tvars>>

CloseConnection ==
  /\ closing = "marked"
  /\ closing' = "closed" /\ open' = open \ {pc}
  /\ UNCHANGED <<cvars, links, sphase, early, local, inhand, lock, iceID, pc, sremote,
                 sapplied, info, stun, restart, fvars, tvars>>

-----------------------------------------------------------------------------
(* ICE (external): the two ends reach each other when both descriptions    *)
(* are set and a candidate is known.  A relay policy yields a relay pair;  *)
(* without it nothing depends on the pair, which is called direct.         *)

Connected == pair # "none"

IceConnects ==
  /\ ~Connected /\ cremote /\ pc = ice /\ sremote /\ pc \in open
  /\ capplied \cup sapplied # {}
  /\ pair' = IF mode = "relay" THEN "relay" ELSE "direct"
  /\ UNCHANGED <<ice, cphase, mode, gathered, cremote, capplied, cpending, selected,
                 links, svars, fvars, tvars>>

\* setSelectedCandidatePair: ICE reports the pair in its own time.
PairSelected ==
  /\ Connected /\ selected = "none"
  /\ selected' = pair
  /\ UNCHANGED <<ice, cphase, mode, gathered, cremote, capplied, cpending, pair,
                 links, svars, fvars, tvars>>

-----------------------------------------------------------------------------
(* The FILE channel at the controller.                                     *)

FileOpens ==
  /\ Connected /\ file = "none"
  /\ file' = "open" /\ opened' = "fired"
  /\ UNCHANGED <<cvars, links, svars, register, ready, tvars>>

\* The channel's OnOpen handler reads onFileOpen.
OpenHandler ==
  /\ opened = "fired"
  /\ opened' = IF register = "none" THEN "over" ELSE "calling"
  /\ UNCHANGED <<cvars, links, svars, file, register, ready, tvars>>

\* OnFileChannelOpen stores the callback and reads the channel, then asks
\* for its state.
StoreCallback ==
  /\ cphase = "offered" /\ register = "none"
  /\ register' = "stored"
  /\ UNCHANGED <<cvars, links, svars, file, opened, ready, tvars>>

\* Mutant: a channel that is already open is not looked at.
CheckStateNever ==
  /\ register = "stored"
  /\ register' = "over"
  /\ UNCHANGED <<cvars, links, svars, file, opened, ready, tvars>>

CheckState ==
  /\ register = "stored"
  /\ register' = IF file = "open" THEN "calling" ELSE "over"
  /\ UNCHANGED <<cvars, links, svars, file, opened, ready, tvars>>

\* Mutant: the transport is not validated.
CallbackUnchecked ==
  /\ \/ opened = "calling" /\ opened' = "over" /\ UNCHANGED register
     \/ register = "calling" /\ register' = "over" /\ UNCHANGED opened
  /\ ready' = IF ready # "none" THEN ready ELSE "ok"
  /\ UNCHANGED <<cvars, links, svars, file, tvars>>

\* The callback of startPooledController: ValidateTransportMode, then the
\* result goes into a channel of capacity 1.
Callback ==
  /\ \/ opened = "calling" /\ opened' = "over" /\ UNCHANGED register
     \/ register = "calling" /\ register' = "over" /\ UNCHANGED opened
  /\ ready' = IF ready # "none" THEN ready
              ELSE IF mode = "relay" /\ selected # "relay" THEN "invalid" ELSE "ok"
  /\ UNCHANGED <<cvars, links, svars, file, tvars>>

-----------------------------------------------------------------------------
(* The TEXT channel: OnTextMessage and handleTextMessage of the            *)
(* controller's peer (the controlled one's are the same).                  *)

ReceiveText ==
  /\ Connected /\ received < Texts /\ thand = <<>>
  /\ received' = received + 1
  /\ \/ /\ listening
        /\ thand' = <<received'>> /\ UNCHANGED <<held, dropped>>
     \/ /\ ~listening /\ Len(held) < MaxPending
        /\ held' = Append(held, received') /\ UNCHANGED <<thand, dropped>>
     \/ /\ ~listening /\ Len(held) >= MaxPending
        /\ dropped' = dropped \cup {received'} /\ UNCHANGED <<thand, held>>
  /\ UNCHANGED <<cvars, links, svars, fvars, replay, listening, heard>>

PassText ==
  /\ thand # <<>>
  /\ heard' = heard \o thand /\ thand' = <<>>
  /\ UNCHANGED <<cvars, links, svars, fvars, received, held, replay, listening, dropped>>

\* Mutant: the messages that are replayed stay in the buffer.
OnTextMessageKeeps ==
  /\ Connected /\ ~listening
  /\ listening' = TRUE
  /\ replay' = held /\ UNCHANGED held
  /\ UNCHANGED <<cvars, links, svars, fvars, received, thand, heard, dropped>>

OnTextMessage ==
  /\ Connected /\ ~listening
  /\ listening' = TRUE
  /\ replay' = held /\ held' = <<>>
  /\ UNCHANGED <<cvars, links, svars, fvars, received, thand, heard, dropped>>

ReplayText ==
  /\ replay # <<>>
  /\ heard' = Append(heard, Head(replay)) /\ replay' = Tail(replay)
  /\ UNCHANGED <<cvars, links, svars, fvars, received, thand, held, listening, dropped>>

-----------------------------------------------------------------------------
Controller ==
  RequestControl \/ Connect \/ ControlFails \/ EmitCandidate \/ SendOffer \/ ControllerHandles
NewControlled == RegisterControlled \/ CopyEarly \/ MarkReady \/ DrainEnds
Handle(who) == Ignore(who) \/ AddCandidate(who) \/ BeginOffer(who)
Answering == BuildConnection \/ SendAnswer \/ OfferFails
Worker == TakeEvent \/ AppendEarly \/ HandleInfo \/ Handle("worker")
Closing == MarkClosed \/ CloseConnection
File == FileOpens \/ OpenHandler \/ StoreCallback \/ CheckState \/ Callback
Text == ReceiveText \/ PassText \/ OnTextMessage \/ ReplayText

Next == \/ Controller \/ ControllerRestarts \/ NewControlled \/ Worker \/ Handle("main")
        \/ Answering \/ EmitControlledCandidate \/ Closing
        \/ IceConnects \/ PairSelected \/ File \/ Text

Spec == Init /\ [][Next]_vars

\* The goroutines of the controlled peer run; signaling calls return.
FairSpec == /\ Spec
            /\ WF_vars(NewControlled) /\ WF_vars(Worker)
            /\ WF_vars(Handle("main")) /\ WF_vars(Answering)

-----------------------------------------------------------------------------
Events(s) == {s[i] : i \in DOMAIN s}

TypeOK ==
  /\ ice \in Ice /\ cphase \in {"idle", "control", "gathering", "offered", "failed"}
  /\ mode \in {"auto", "relay"} /\ gathered \in 0..Candidates
  /\ {pair, selected} \subseteq {"none", "direct", "relay"}
  /\ capplied \cup cpending \cup sapplied \subseteq Event
  /\ \A s \in {toControlled, toController, early, local} : s \in Seq(Event)
  /\ inhand \in Seq([event : Event, how : {"append", "handle"}]) /\ Len(inhand) <= 1
  /\ sphase \in {"new", "waiting", "copied", "draining", "running"}
  /\ lock \in {"none", "main", "worker"}
  /\ {iceID, pc, info, stun} \subseteq Ice \cup {0}
  /\ open \subseteq Ice
  /\ {cremote, sremote, restart, listening} \subseteq BOOLEAN
  /\ closing \in {"no", "marked", "closed"}
  /\ file \in {"none", "open"} /\ opened \in {"none", "fired", "calling", "over"}
  /\ register \in {"none", "stored", "calling", "over"}
  /\ ready \in {"none", "ok", "invalid"}
  /\ received \in 0..Texts /\ dropped \subseteq 1..Texts
  /\ \A s \in {thand, held, replay, heard} : s \in Seq(1..Texts)

\* What the controlled peer built belongs to one controller: while it is not
\* being closed and answers no offer, its only open connection is the one it
\* has, and that was given candidates of its own offer only and never the
\* STUN list announced for another controller ("a prior controller's list
\* cannot leak into a new one", stun.go:25-26), whatever order the events of
\* successive controllers, failed answers and the early buffer produce.
ConnectionConsistent ==
  /\ lock = "none" /\ closing = "no" => open = {pc} \ {0}
  /\ pc # 0 => stun \in {0, pc}
  /\ \A c \in sapplied : c.ice = pc
  /\ \A c \in capplied \cup cpending : c.ice = ice

\* With a relay required, a session is reported ready only when the selected
\* pair is known to be relayed (ValidateTransportMode in the open callback).
RelayVerified == ready = "ok" /\ mode = "relay" => selected = "relay"

\* However the opening of the FILE channel and the registration of its
\* callback interleave, the callback runs once both have happened.
OpenNotMissed == opened = "over" /\ register = "over" => ready # "none"

\* A text message is passed to the handler once, is waiting for it, or found
\* the buffer full: registering the handler loses and repeats none.
TextConserved ==
  /\ 1..received = Events(thand) \cup Events(held) \cup Events(replay) \cup Events(heard) \cup dropped
  /\ received = Len(thand) + Len(held) + Len(replay) + Len(heard) + Cardinality(dropped)

\* The offer of a replacement controller that reaches a running peer with a
\* connection makes it ask for a fresh session, or the peer is closed.
ReplacementSeen ==
  (/\ sphase = "running" /\ pc # 0 /\ lock = "none"
   /\ \E i \in Ice \ {pc} : Offer(i) \in Events(toControlled))
  ~> restart \/ closing # "no"

\* Claimed by peer.go:272-274, "Cache early offers until the controlled peer
\* knows its signaling client_id": once it does and has handled the cached
\* events, none is left behind.
EarlyEventsHandled == sphase = "running" => early = <<>>
=============================================================================
