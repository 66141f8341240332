----------------------------- MODULE PooledTunnel -----------------------------
(***************************************************************************)
(* One end of a multi-session tunnel (cmd/uulink/multisession.go): the     *)
(* Tunnel's stream table, the SessionPool it sends through, and the        *)
(* sessionRuntime of each pooled session.                                  *)
(*                                                                         *)
(* StreamPair has the life of one stream in detail.  Here a stream is only *)
(* where its opening goroutine is, whether the table holds it and whether  *)
(* its removal still has to release the binding: what matters is how many  *)
(* streams share several sessions that become ready and fail under them.   *)
(*                                                                         *)
(* As in StreamPair, an unused definition next to the one it resembles is  *)
(* a plausible bug that must break a property.                             *)
(***************************************************************************)
EXTENDS SessionPool

CONSTANTS
  Local,   \* streams this end's listeners accept; IDs are never reused
  Binds,   \* sessions whose data callback calls BindStream for a CONNECT:
           \* those of startPooledGuestServer, not of startPooledController
  MaxLeft  \* bound: sessions still not closed when the tunnel stops

ASSUME LocalAssumption == Local \subseteq Stream
ASSUME BindsAssumption == Binds \subseteq Session

Remote == Stream \ Local   \* streams the peer opens towards this end

VARIABLES
  runtime,    \* [Session -> sessionRuntime: open, closing (cleanup runs), closed]
  channel,    \* [Session -> the data channel: opening, up, down]
  pending,    \* [Session -> streams that cleanup has still to close]
  stage,      \* shutdown: run, stopping (Tunnel.Stop), stopped
  sweep,      \* streams Tunnel.Stop has still to remove
  table,      \* Tunnel.streams
  phase,      \* [Stream -> where the goroutine that opens it is]
  via,        \* [Stream -> the session its CONNECT came or left on, or NoSession]
  releasing,  \* streams whose removeStream has still to release the binding
  used,       \* [Stream -> sessions its frames were routed to]
  answered,   \* streams of the peer whose CONNECT was answered
  late        \* history: streams accepted after Tunnel.Stop looked at the table

NoSession == "none"

streamVars  == <<table, phase, via, releasing, used, answered, late>>
sessionVars == <<runtime, channel, pending, stage, sweep>>
vars == <<poolVars, sessionVars, streamVars>>

Init ==
  /\ PoolInit
  /\ runtime = [s \in Session |-> "open"]
  /\ channel = [s \in Session |-> "opening"]
  /\ pending = [s \in Session |-> {}]
  /\ stage = "run"
  /\ sweep = {}
  /\ table = {}
  /\ phase = [k \in Stream |-> "none"]
  /\ via = [k \in Stream |-> NoSession]
  /\ releasing = {}
  /\ used = [k \in Stream |-> {}]
  /\ answered = {}
  /\ late = {}

-----------------------------------------------------------------------------
(* The sessions *)

ChannelOpens(s) ==
  /\ channel[s] = "opening"
  /\ channel' = [channel EXCEPT ![s] = "up"]
  /\ UNCHANGED <<poolVars, runtime, pending, stage, sweep, streamVars>>

ChannelFails(s) ==
  /\ channel[s] = "up"
  /\ channel' = [channel EXCEPT ![s] = "down"]
  /\ UNCHANGED <<poolVars, runtime, pending, stage, sweep, streamVars>>

ActivateAnyTime(s) ==
  /\ channel[s] # "opening"
  /\ AddSession(s)
  /\ UNCHANGED <<sessionVars, streamVars>>

\* OnFileChannelOpen, serialized with close() by rt.mu.
Activate(s) ==
  /\ channel[s] # "opening"
  /\ runtime[s] = "open"
  /\ AddSession(s)
  /\ UNCHANGED <<sessionVars, streamVars>>

CloseRuntimeForgetsStreams(s) ==
  /\ runtime[s] = "open"
  /\ runtime' = [runtime EXCEPT ![s] = "closing"]
  /\ RemoveSession(s)
  /\ UNCHANGED <<channel, pending, stage, sweep, streamVars>>

\* rt.close(), from monitorSession, closeAll or a readiness timeout: cleanup
\* removes the session from the pool ...
CloseRuntime(s) ==
  /\ runtime[s] = "open"
  /\ runtime' = [runtime EXCEPT ![s] = "closing"]
  /\ pending' = [pending EXCEPT ![s] = Bound(s)]
  /\ RemoveSession(s)
  /\ UNCHANGED <<channel, stage, sweep, streamVars>>

\* removeStream, until it releases the binding: only one caller gets further.
Remove(k) ==
  /\ table' = table \ {k}
  /\ releasing' = IF k \in table THEN releasing \cup {k} ELSE releasing

\* ... and CloseStreams aborts the streams it carried ...
CloseStream(s, k) ==
  /\ k \in pending[s]
  /\ pending' = [pending EXCEPT ![s] = @ \ {k}]
  /\ Remove(k)
  /\ UNCHANGED <<poolVars, runtime, channel, stage, sweep, phase, via, used, answered, late>>

\* ... before the peer connection is closed.
FinishClose(s) ==
  /\ runtime[s] = "closing"
  /\ pending[s] = {}
  /\ runtime' = [runtime EXCEPT ![s] = "closed"]
  /\ channel' = [channel EXCEPT ![s] = "down"]
  /\ UNCHANGED <<poolVars, pending, stage, sweep, streamVars>>

\* Of a session its monitor takes off the set, to close it, closeAll knows no
\* more.  A guest server's session has a monitor from its start, a controller's
\* once it is ready.
Monitored(s) == s \in Binds \/ channel[s] # "opening"

\* The deferred calls: closeAll, tun.Stop, pool.Close.  closeAll waits for the
\* sessions on the set and for those being started, but not for one that its
\* monitor has taken off: that one may still be open when the tunnel stops.
Stop ==
  /\ stage = "run"
  /\ \A s \in Session : runtime[s] = "closed" \/ Monitored(s)
  /\ Cardinality({s \in Session : runtime[s] # "closed"}) <= MaxLeft
  /\ stage' = "stopping"
  /\ sweep' = table
  /\ UNCHANGED <<poolVars, runtime, channel, pending, streamVars>>

\* Its walk over the table may also meet a stream that was added meanwhile.
StopStream(k) ==
  /\ k \in sweep \/ (stage = "stopping" /\ k \in late)
  /\ sweep' = sweep \ {k}
  /\ Remove(k)
  /\ UNCHANGED <<poolVars, runtime, channel, pending, stage, phase, via, used, answered, late>>

ClosePool ==
  /\ stage = "stopping"
  /\ sweep = {}
  /\ stage' = "stopped"
  /\ Close
  /\ UNCHANGED <<runtime, channel, pending, sweep, streamVars>>

-----------------------------------------------------------------------------
(* A stream accepted here: acceptLoop *)

Moves(k, from, to) == phase[k] = from /\ phase' = [phase EXCEPT ![k] = to]

\* Tunnel.Stop closes the listener, which may have accepted a connection that
\* acceptLoop stores in the table only afterwards.
Accept(k) ==
  /\ k \in Local
  /\ Moves(k, "none", "accepted")
  /\ table' = table \cup {k}
  /\ late' = IF stage = "run" THEN late ELSE late \cup {k}
  /\ UNCHANGED <<poolVars, sessionVars, via, releasing, used, answered>>

\* SendRoutedFrame looks up, or selects, the session of a CONNECT ...
RouteConnect(k) ==
  /\ phase[k] = "accepted"
  /\ SelectSession(k)
  /\ IF k \in DOMAIN binding'
     THEN /\ Moves(k, "accepted", "routed")
          /\ via' = [via EXCEPT ![k] = binding'[k]]
          /\ used' = [used EXCEPT ![k] = @ \cup {binding'[k]}]
          /\ UNCHANGED <<table, releasing>>
     ELSE /\ Moves(k, "accepted", "done")
          /\ Remove(k)
          /\ UNCHANGED <<via, used>>
  /\ UNCHANGED <<sessionVars, answered, late>>

\* ... and transmits it.
SendConnect(k) ==
  /\ phase[k] = "routed"
  /\ IF channel[via[k]] = "up"
     THEN /\ Moves(k, "routed", "open")
          /\ UNCHANGED <<table, releasing>>
     ELSE /\ Moves(k, "routed", "done")
          /\ Remove(k)
  /\ UNCHANGED <<poolVars, sessionVars, via, used, answered, late>>

-----------------------------------------------------------------------------
(* A stream of the peer: the data callback and dialStream *)

\* The callback of session s receives a CONNECT, which may be before the
\* channel's open callback has run.
ReceiveConnect(k, s) ==
  /\ k \in Remote
  /\ channel[s] = "up"
  /\ \A j \in Remote : phase[j] = "received" => via[j] # s
  /\ Moves(k, "none", "received")
  /\ via' = [via EXCEPT ![k] = s]
  /\ IF s \in Binds THEN BindStream(k, s) ELSE UNCHANGED poolVars
  /\ UNCHANGED <<sessionVars, table, releasing, used, answered, late>>

\* A frame of stream k is sent if it finds a binding.
Send(k, reply) ==
  IF k \in DOMAIN binding
  THEN /\ used' = [used EXCEPT ![k] = @ \cup {binding[k]}]
       /\ answered' = IF reply /\ channel[binding[k]] = "up"
                      THEN answered \cup {k} ELSE answered
  ELSE UNCHANGED <<used, answered>>

HandleConnect(k) ==
  /\ Moves(k, "received", "dialing")
  /\ table' = table \cup {k}
  /\ UNCHANGED <<poolVars, sessionVars, via, releasing, used, answered, late>>

RejectUnreleased(k) ==
  /\ Moves(k, "received", "done")
  /\ Send(k, TRUE)
  /\ UNCHANGED <<poolVars, sessionVars, table, via, releasing, late>>

\* An invalid CONNECT, or one the security policy refuses.
RejectConnect(k) ==
  /\ Moves(k, "received", "done")
  /\ Send(k, TRUE)
  /\ ReleaseStream(k)
  /\ UNCHANGED <<sessionVars, table, via, releasing, late>>

DialSucceeds(k) ==
  /\ IF k \in table
     THEN Moves(k, "dialing", "open") /\ Send(k, TRUE)
     ELSE Moves(k, "dialing", "done") /\ UNCHANGED <<used, answered>>
  /\ UNCHANGED <<poolVars, sessionVars, table, via, releasing, late>>

DialFails(k) ==
  /\ Moves(k, "dialing", "done")
  /\ Remove(k)
  /\ UNCHANGED <<poolVars, sessionVars, via, used, answered, late>>

-----------------------------------------------------------------------------
(* Any open stream *)

SendReselecting(k) ==
  /\ phase[k] = "open"
  /\ SelectSession(k)
  /\ used' = [used EXCEPT ![k] = IF k \in DOMAIN binding' THEN @ \cup {binding'[k]} ELSE @]
  /\ UNCHANGED <<sessionVars, table, phase, via, releasing, answered, late>>

\* Its goroutines send a DATA, DATA_ACK or FIN.
SendFrame(k) ==
  /\ phase[k] = "open"
  /\ Send(k, FALSE)
  /\ UNCHANGED <<poolVars, sessionVars, table, phase, via, releasing, answered, late>>

\* It ends by itself: both FINs, a failed write, a timer, a negative SYN_ACK.
Finish(k) ==
  /\ phase[k] = "open"
  /\ k \in table
  /\ Remove(k)
  /\ UNCHANGED <<poolVars, sessionVars, phase, via, used, answered, late>>

\* The end of removeStream: the final frame, then releaseBinding.
Release(k) ==
  /\ k \in releasing
  /\ releasing' = releasing \ {k}
  /\ Send(k, k \in Remote /\ phase[k] = "done")
  /\ ReleaseStream(k)
  /\ UNCHANGED <<sessionVars, table, phase, via, late>>

-----------------------------------------------------------------------------

SessionStep(s) ==
  \/ ChannelOpens(s) \/ ChannelFails(s) \/ Activate(s)
  \/ CloseRuntime(s) \/ FinishClose(s)
  \/ \E k \in Stream : CloseStream(s, k) \/ ReceiveConnect(k, s)

StreamStep(k) ==
  \/ StopStream(k) \/ Accept(k) \/ RouteConnect(k) \/ SendConnect(k)
  \/ HandleConnect(k) \/ RejectConnect(k) \/ DialSucceeds(k) \/ DialFails(k)
  \/ SendFrame(k) \/ Finish(k) \/ Release(k)

Next ==
  \/ \E s \in Session : SessionStep(s)
  \/ \E k \in Stream : StreamStep(k)
  \/ Stop \/ ClosePool

Spec == Init /\ [][Next]_vars

-----------------------------------------------------------------------------
(* Properties *)

\* The shape of the state: runtimes, channels, the stream table and the
\* goroutines that open streams, on top of the shape of the pool.
TypeOK ==
  /\ PoolTypeOK
  /\ runtime \in [Session -> {"open", "closing", "closed"}]
  /\ channel \in [Session -> {"opening", "up", "down"}]
  /\ pending \in [Session -> SUBSET Stream]
  /\ stage \in {"run", "stopping", "stopped"}
  /\ sweep \subseteq Stream
  /\ table \subseteq Stream
  /\ phase \in [Stream -> {"none", "accepted", "routed", "received", "dialing",
                          "open", "done"}]
  /\ via \in [Stream -> Session \cup {NoSession}]
  /\ releasing \subseteq Stream
  /\ used \in [Stream -> SUBSET Session]
  /\ answered \subseteq Remote
  /\ late \subseteq Local

(***************************************************************************)
(* A session that was closed is never in the pool again, however late its  *)
(* channel's open callback runs (activate, close): no new stream is given  *)
(* to a dead session.                                                      *)
(***************************************************************************)
OnlyOpenSessions == \A s \in Present : runtime[s] = "open"

(***************************************************************************)
(* Every frame of a stream leaves through the session its CONNECT left or  *)
(* arrived on, whatever sessions fail and join in between: "Data from an   *)
(* old TCP stream must never be moved to a replacement transport without   *)
(* replay" (CloseStreams).                                                 *)
(***************************************************************************)
OneSessionPerStream == \A k \in Stream : used[k] \subseteq {via[k]}

(***************************************************************************)
(* No binding leaks: a stream is bound only while the table holds it, its  *)
(* CONNECT is being handled, or its removal is about to release it         *)
(* (rejectConnect, removeStream, acceptLoop's failed send).  A leak would  *)
(* count against its session for ever.  The one exception does not last:   *)
(* SendRoutedFrame also binds a stream that Tunnel.Stop removed before     *)
(* acceptLoop sent its CONNECT, and pool.Close, which comes next, drops    *)
(* that binding.                                                           *)
(***************************************************************************)
NoLeakedBinding ==
  \A k \in DOMAIN binding :
    \/ k \in table \cup releasing
    \/ phase[k] = "received"
    \/ stage = "stopping" /\ k \in Local

(***************************************************************************)
(* A stream accepted here never lingers without a transport: from its      *)
(* CONNECT on it is bound, or the cleanup that took the binding away is    *)
(* about to close it.  Shutdown keeps to this although closeAll does not   *)
(* wait for a session that its monitor is closing, so that pool.Close may  *)
(* drop the bindings of a session that still works: Tunnel.Stop has        *)
(* removed those streams.  It has not removed a stream accepted after it   *)
(* looked at the table: such a stream, and no other, outlives pool.Close   *)
(* without a transport.                                                    *)
(***************************************************************************)
LocalStreamHasTransport ==
  \A k \in Local \cap table : phase[k] \in {"routed", "open"} =>
    \/ k \in DOMAIN binding
    \/ \E s \in Session : k \in pending[s]
    \/ stage = "stopped" /\ k \in late

(***************************************************************************)
(* The least-loaded policy gives a new stream to a session that carries no *)
(* more streams than any other, counting the streams that are really bound *)
(* at that moment.                                                         *)
(***************************************************************************)
LeastLoadedIsLeast ==
  [][\A k \in Local \cap (DOMAIN binding' \ DOMAIN binding) :
       policy = "least-loaded" =>
         \A s \in Present : Cardinality(Bound(binding'[k])) <= Cardinality(Bound(s))]_vars

(***************************************************************************)
(* RemoveSession "excludes a failed path and returns its streams for local *)
(* close": once a session's cleanup is over, no established stream of it   *)
(* is left in the table.                                                   *)
(***************************************************************************)
NoStreamOutlivesItsSession ==
  \A k \in table : phase[k] = "open" => runtime[via[k]] # "closed"

(***************************************************************************)
(* "Stop closes all listeners and active streams" (Tunnel.Stop): once it   *)
(* has returned and the pool is closed the table holds no stream.          *)
(***************************************************************************)
StopClosesAll == stage = "stopped" => table = {}

(***************************************************************************)
(* "Replies for a stream must leave through the session its CONNECT        *)
(* arrived on": once the target is dialled, the CONNECT has been answered  *)
(* unless its session went down.                                           *)
(***************************************************************************)
RepliesLeave ==
  \A k \in Remote : phase[k] = "open" /\ k \in table /\ channel[via[k]] = "up"
                       /\ via[k] \in Present
    => k \in answered

-----------------------------------------------------------------------------
(* What makes the invariants above inductive *)

\* A binding is to the session of the stream's CONNECT, and before the
\* CONNECT there is none.
BoundAsConnected ==
  /\ \A k \in DOMAIN binding : binding[k] = via[k]
  /\ \A k \in Stream : phase[k] \in {"none", "accepted"} =>
       k \notin DOMAIN binding /\ used[k] = {}

\* The stream table, the removals in progress and the opening goroutines.
TableFollowsPhase ==
  /\ table \cap releasing = {}
  /\ \A k \in table \cup releasing : phase[k] \notin {"none", "received"}
  /\ \A k \in Stream : phase[k] \in {"received", "dialing"} => k \in Remote
  /\ \A k \in Stream : phase[k] \in {"accepted", "routed"} => k \in Local
  /\ \A k \in Stream : phase[k] = "accepted" =>
       k \in table \/ stage # "run"

\* Cleanups only close streams that were bound, and only while they run.
PendingFollowsRuntime ==
  \A s \in Session :
    /\ runtime[s] = "open" => pending[s] = {}
    /\ \A k \in pending[s] : phase[k] \notin {"none", "accepted"}

\* Of the streams accepted here, what Tunnel.Stop has not removed yet it is
\* about to, except for the streams accepted since; pool.Close comes after it.
ShutdownOrder ==
  /\ stage = "run" => late = {}
  /\ sweep # {} => stage = "stopping"
  /\ stage # "run" => Local \cap table \subseteq late \cup sweep
  /\ stage = "stopped" => closed

IInv ==
  /\ TypeOK /\ PoolInv
  /\ OnlyOpenSessions /\ OneSessionPerStream /\ NoLeakedBinding /\ LocalStreamHasTransport
  /\ BoundAsConnected /\ TableFollowsPhase /\ PendingFollowsRuntime /\ ShutdownOrder
=============================================================================
