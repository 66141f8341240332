----------------------------- MODULE Supervisor -----------------------------
(***************************************************************************)
(* The life of a uulink process: the recovery loop (recoverTunnel,         *)
(* runWithRelayFallback) and the attempt it runs, which is one of          *)
(*                                                                         *)
(*   "controller"  runController: one peer connection it opens             *)
(*   "room"        serveRoom: one peer connection it answers               *)
(*   "shares"      doMultiSessionController: a pool it joins               *)
(*   "guest"       doMultiSessionUnboundGuestServe: a pool it serves       *)
(*                                                                         *)
(* An attempt runs on one goroutine; each session adds the callback of its *)
(* data channel, its monitor and, in a pool, the watcher of its signaling. *)
(* Time is abstract: a timer may fire whenever it is armed, and a minute   *)
(* may pass.  How long the recovery delay is, and so the attempt counter   *)
(* it is computed from, is left out.                                       *)
(***************************************************************************)
EXTENDS Integers, FiniteSets

CONSTANTS
  Size,        \* sessions of a pool
  MaxFaults    \* bound: failures of the service, the network or the port

ASSUME SupervisorAssumption == Size \in Nat \ {0} /\ MaxFaults \in Nat

Roles == {"controller", "room", "shares", "guest"}
Modes == {"auto", "relay"}
Errors == {"nil", "p2p", "transient", "permanent"}

VARIABLES
  role,         \* what this process runs
  initial,      \* transport mode asked for
  proc,         \* the recovery loop: running, delay, ended
  interrupted,  \* ctx is done: a signal came
  mode,         \* relayFallback.mode
  step,         \* where the attempt is
  err,          \* what it returns
  current,      \* session being started
  relay,        \* its transport mode is relay
  readyAt,      \* transportReady ran: never, now, minute (a minute ago)
  session,      \* the sessions of the attempt
  failed,       \* an error waits in runErr or sessionSet.failed
  setReady,     \* tunnelReady, or sessionSet.ready, is closed
  once,         \* startTunnelOnce ran
  listening,    \* the attempt's tunnel has a listener
  leaked,       \* a listener of an earlier attempt holds the port
  timedOut,     \* history: the direct path timed out, and no relay session
                \* has stayed ready for a minute since
  faults        \* failures so far

process == <<role, initial, proc, interrupted, mode>>
attempt == <<step, err, current, relay, readyAt>>
tunnel  == <<failed, setReady, once, listening, leaked>>
vars == <<process, attempt, session, tunnel, timedOut, faults>>

Session == 1..Size
Primary == role \in {"controller", "room"}
Count == IF Primary THEN 1 ELSE Size

Unused ==
  [phase |-> "none",      \* none, open, closed
   path |-> "good",       \* whether the network can carry it: good, blocked
   transport |-> "new",   \* new, connected, lost
   signal |-> "up",       \* up, away (namespace disconnected), kept (and so
                          \* noticed by serveRoom), lost
   channel |-> "closed",  \* its open callback: closed, calling, called
   ready |-> "none",      \* what the callback reported: none, ok, bad
   listed |-> FALSE,      \* in sessionSet.sessions
   monitor |-> "off",     \* off, watching, removed, ended
   watched |-> FALSE]     \* watchSignaling runs

Open(i) == session[i].phase = "open"
SignalLost(i) == session[i].signal = "lost" \/ session[i].phase = "closed"
Lost(i) == session[i].transport = "lost"
Mode == IF relay THEN "relay" ELSE "auto"

Fault == faults < MaxFaults /\ faults' = faults + 1

\* sessionRuntime.close, or the deferred Close calls of a single session.
Closed(s) == [s EXCEPT !.phase = IF @ = "none" THEN @ ELSE "closed"]

Init ==
  /\ role \in Roles
  /\ initial \in IF role \in {"controller", "shares"} THEN Modes ELSE {"auto"}
  /\ proc = "running" /\ interrupted = FALSE /\ mode = initial
  /\ step = "joining" /\ err = "nil" /\ current = 1 /\ relay = (initial = "relay")
  /\ readyAt = "never"
  /\ session = [i \in Session |-> Unused]
  /\ failed = FALSE /\ setReady = FALSE /\ once = FALSE
  /\ listening = FALSE /\ leaked = FALSE
  /\ timedOut = FALSE /\ faults = 0

-----------------------------------------------------------------------------
(* The recovery loop.                                                      *)

Interrupt ==
  /\ ~interrupted /\ interrupted' = TRUE
  /\ UNCHANGED <<role, initial, proc, mode, attempt, session, tunnel, timedOut, faults>>

\* Mutant: relayFallback.next, were the relay kept for good.
NextModeForGood == IF err = "p2p" /\ mode = "auto" THEN "relay" ELSE mode

\* relayFallback.next: the mode of the attempt after one that failed.
NextMode ==
  CASE err = "p2p" /\ mode = "auto" -> "relay"
    [] mode # initial /\ readyAt = "minute" -> initial
    [] OTHER -> mode

\* recoverTunnel sees the attempt's error.
Return ==
  /\ proc = "running" /\ step = "returned"
  /\ IF err = "nil" \/ interrupted \/ err = "permanent"
     THEN proc' = "ended" /\ UNCHANGED mode
     ELSE proc' = "delay" /\ mode' = NextMode
  /\ UNCHANGED <<role, initial, interrupted, attempt, session, tunnel, timedOut, faults>>

\* waitRecovery, interrupted by the signal.
DelayInterrupted ==
  /\ proc = "delay" /\ interrupted
  /\ proc' = "ended"
  /\ UNCHANGED <<role, initial, interrupted, mode, attempt, session, tunnel, timedOut, faults>>

\* Mutant: the attempts sharing one runErr channel.
DelayOverKeepsFailure ==
  /\ proc = "delay"
  /\ \A i \in Session : session[i].channel # "calling" /\ session[i].monitor # "removed"
  /\ proc' = "running"
  /\ step' = "joining" /\ err' = "nil" /\ current' = 1 /\ relay' = (mode = "relay")
  /\ readyAt' = "never"
  /\ session' = [i \in Session |-> Unused]
  /\ setReady' = FALSE /\ once' = FALSE
  /\ leaked' = (leaked \/ listening) /\ listening' = FALSE
  /\ UNCHANGED <<role, initial, interrupted, mode, failed, timedOut, faults>>

\* waitRecovery, after a second or more: the callbacks and monitors of the
\* attempt before, which wait for nothing, have finished.
DelayOver ==
  /\ proc = "delay"
  /\ \A i \in Session : session[i].channel # "calling" /\ session[i].monitor # "removed"
  /\ proc' = "running"
  /\ step' = "joining" /\ err' = "nil" /\ current' = 1 /\ relay' = (mode = "relay")
  /\ readyAt' = "never"
  /\ session' = [i \in Session |-> Unused]
  /\ failed' = FALSE /\ setReady' = FALSE /\ once' = FALSE
  /\ leaked' = (leaked \/ listening) /\ listening' = FALSE
  /\ UNCHANGED <<role, initial, interrupted, mode, timedOut, faults>>

\* A minute passes on a transport that is ready.
MinutePasses ==
  /\ proc = "running" /\ readyAt = "now"
  /\ readyAt' = "minute"
  /\ timedOut' = (timedOut /\ ~relay)
  /\ UNCHANGED <<process, step, err, current, relay, session, tunnel, faults>>

-----------------------------------------------------------------------------
(* Starting sessions.                                                      *)

\* The attempt ends with an error: the deferred calls follow.
Ends(e) ==
  /\ err' = e
  /\ step' = IF Primary THEN "stopTunnel" ELSE "closeSet"

AttemptAt(s) == proc = "running" /\ step = s

\* ctx is checked before each session of a pool and after the API calls of a
\* single one, and ends the calls that take it; any error is then ignored.
JoinInterrupted ==
  /\ AttemptAt("joining") /\ interrupted
  /\ Ends("nil")
  /\ UNCHANGED <<process, current, relay, readyAt, session, tunnel, timedOut, faults>>

\* The service refuses, for good or not, or no gateway answers.
JoinFails ==
  /\ AttemptAt("joining")
  /\ Fault
  /\ \E e \in {"transient", "permanent"} : Ends(e)
  /\ UNCHANGED <<process, current, relay, readyAt, session, tunnel, timedOut>>

\* The room is joined, signaling is up and the peer connects.  A served session
\* is monitored at once; a single one's monitor runs from here too.
Join ==
  /\ AttemptAt("joining") /\ ~interrupted
  /\ \E path \in {"good", "blocked"} :
       /\ IF path = "blocked" THEN Fault ELSE UNCHANGED faults
       /\ session' = [session EXCEPT ![current] =
            [Unused EXCEPT !.phase = "open", !.path = path,
                           !.monitor = IF role = "shares" THEN "off" ELSE "watching"]]
  /\ step' = CASE role = "room" -> "serving"
               [] role = "guest" -> "adding"
               [] OTHER -> "waiting"
  /\ UNCHANGED <<process, err, current, relay, readyAt, tunnel, timedOut>>

\* The transport of a session comes up.
Connects(i) ==
  /\ Open(i) /\ session[i].transport = "new" /\ session[i].path = "good"
  /\ session' = [session EXCEPT ![i].transport = "connected"]
  /\ UNCHANGED <<process, attempt, tunnel, timedOut, faults>>

\* The data channel opens: a controller checks the candidate pair, a pooled
\* session that was not closed is added to the pool and reports readiness.
ChannelOpens(i) ==
  /\ Open(i) /\ session[i].transport = "connected" /\ session[i].channel = "closed"
  /\ \/ /\ session' = [session EXCEPT ![i].channel = "calling",
                                      ![i].ready = IF Primary THEN "none" ELSE "ok"]
        /\ UNCHANGED <<failed, faults>>
     \/ /\ role \in {"controller", "shares"} /\ Fault
        /\ session' = [session EXCEPT ![i].channel = "called",
                                      ![i].ready = IF Primary THEN "none" ELSE "bad"]
        /\ failed' = (failed \/ Primary)
  /\ UNCHANGED <<process, attempt, setReady, once, listening, leaked, timedOut>>

\* Tunnel.Start in the callback: it does not look whether the tunnel was stopped.
Start(i) ==
  /\ session[i].channel = "calling"
  /\ session' = [session EXCEPT ![i].channel = "called"]
  /\ IF ~Primary /\ once
     THEN UNCHANGED <<failed, setReady, once, listening, faults>>
     ELSE /\ once' = ~Primary
          /\ \/ /\ ~leaked
                /\ listening' = TRUE /\ setReady' = TRUE
                /\ UNCHANGED <<failed, faults>>
             \/ /\ IF leaked THEN UNCHANGED faults ELSE Fault
                /\ failed' = TRUE
                /\ UNCHANGED <<listening, setReady>>
  /\ UNCHANGED <<process, attempt, leaked, timedOut>>

\* The select of the goroutine that waits for readiness.
Waiting == AttemptAt("waiting") \/ AttemptAt("connected")

\* Mutant: startPooledController returning without rt.close.
AbandonOpen == UNCHANGED session

\* A pooled session that fails to start is closed by startPooledController.
Abandon == session' = IF Primary THEN session ELSE [session EXCEPT ![current] = Closed(@)]

Ready ==
  /\ Waiting
  /\ IF Primary
     THEN /\ setReady
          /\ step' = "serving" /\ readyAt' = "now"
          /\ UNCHANGED session
     ELSE /\ session[current].ready = "ok"
          /\ step' = "adding" /\ UNCHANGED readyAt
          /\ session' = [session EXCEPT ![current].monitor = "watching"]
  /\ UNCHANGED <<process, err, current, relay, tunnel, timedOut, faults>>

NotReady ==
  /\ Waiting
  /\ \/ Primary /\ failed
     \/ ~Primary /\ session[current].ready = "bad"
     \/ SignalLost(current)
     \/ Primary /\ session[current].signal = "away"
  /\ Abandon /\ Ends("transient")
  /\ UNCHANGED <<process, current, relay, readyAt, tunnel, timedOut, faults>>

\* A single session watches ctx while it waits; a pool does not.
WaitInterrupted ==
  /\ Waiting /\ Primary /\ interrupted
  /\ Ends("nil")
  /\ UNCHANGED <<process, current, relay, readyAt, session, tunnel, timedOut, faults>>

\* A timer fires: because nothing can come, or too early.
InVain == session[current].path = "blocked" \/ Lost(current)
TimerFires == IF InVain THEN UNCHANGED faults ELSE Fault

\* The P2P countdown, in auto mode: a connected peer is given more time.
P2PTimeout ==
  /\ AttemptAt("waiting") /\ ~relay
  /\ TimerFires
  /\ IF session[current].transport = "connected"
     THEN step' = "connected" /\ UNCHANGED <<err, relay, session, timedOut>>
     ELSE IF role = "controller"
     THEN Ends("p2p") /\ timedOut' = TRUE /\ UNCHANGED <<relay, session>>
     ELSE /\ Abandon                    \* doMultiSessionController retries at once
          /\ relay' = TRUE /\ step' = "joining"
          /\ UNCHANGED <<err, timedOut>>
  /\ UNCHANGED <<process, current, readyAt, tunnel>>

TransportTimeout ==
  /\ Waiting
  /\ TimerFires
  /\ Abandon /\ Ends("transient")
  /\ UNCHANGED <<process, current, relay, readyAt, tunnel, timedOut>>

\* Mutant: not watching a session that sessionSet.add refused.
AddWatchingListed ==
  /\ AttemptAt("adding")
  /\ session' = [session EXCEPT ![current].listed = Open(current),
                                ![current].watched = Open(current)]
  /\ IF current < Count
     THEN step' = "joining" /\ current' = current + 1 /\ relay' = (mode = "relay")
     ELSE /\ step' = IF role = "shares" /\ mode = "relay" THEN "required" ELSE "serving"
          /\ UNCHANGED <<current, relay>>
  /\ UNCHANGED <<process, err, readyAt, tunnel, timedOut, faults>>

\* Mutant: the loop over the shares running once too often.
AddPastEnd ==
  /\ AttemptAt("adding")
  /\ session' = [session EXCEPT ![current].listed = Open(current), ![current].watched = TRUE]
  /\ IF current <= Count
     THEN step' = "joining" /\ current' = current + 1 /\ relay' = (mode = "relay")
     ELSE step' = "serving" /\ UNCHANGED <<current, relay>>
  /\ UNCHANGED <<process, err, readyAt, tunnel, timedOut, faults>>

\* sessionSet.add and watchSignaling; then the next session, or the wait for the
\* end.  A session its monitor has closed meanwhile is not added.
Add ==
  /\ AttemptAt("adding")
  /\ session' = [session EXCEPT ![current].listed = Open(current), ![current].watched = TRUE]
  /\ IF current < Count
     THEN step' = "joining" /\ current' = current + 1 /\ relay' = (mode = "relay")
     ELSE /\ step' = IF role = "shares" /\ mode = "relay" THEN "required" ELSE "serving"
          /\ UNCHANGED <<current, relay>>
  /\ UNCHANGED <<process, err, readyAt, tunnel, timedOut, faults>>

-----------------------------------------------------------------------------
(* Running.                                                                *)

\* waitForShutdown first requires the relay to be ready.
RelayReady ==
  /\ AttemptAt("required") /\ setReady
  /\ step' = "serving"
  /\ UNCHANGED <<process, err, current, relay, readyAt, session, tunnel, timedOut, faults>>

RelayNotReady ==
  /\ AttemptAt("required") /\ Fault
  /\ Ends("transient")
  /\ UNCHANGED <<process, current, relay, readyAt, session, tunnel, timedOut>>

Running == AttemptAt("serving") \/ AttemptAt("required")

\* Mutant: waitForShutdown not selecting on ctx.
InterruptedSingle ==
  /\ Running /\ interrupted /\ Primary
  /\ Ends("nil")
  /\ UNCHANGED <<process, current, relay, readyAt, session, tunnel, timedOut, faults>>

\* The signal ends runController, serveRoom and waitForShutdown.
Interrupted ==
  /\ Running /\ interrupted
  /\ Ends("nil")
  /\ UNCHANGED <<process, current, relay, readyAt, session, tunnel, timedOut, faults>>

\* An error, or the loss of a single session's signaling, ends the attempt.
\* serveRoom also gives up a room whose namespace ended before the peer came.
Fails ==
  /\ Running
  /\ \/ failed
     \/ Primary /\ SignalLost(1)
     \/ role = "room" /\ session[1].signal = "away" /\ session[1].transport # "connected"
  /\ Ends("transient")
  /\ UNCHANGED <<process, current, relay, readyAt, session, tunnel, timedOut, faults>>

\* serveRoom looks at the namespace once: a peer that is connected stays.
KeepsPeer ==
  /\ Running /\ role = "room"
  /\ session[1].signal = "away" /\ session[1].transport = "connected"
  /\ session' = [session EXCEPT ![1].signal = "kept"]
  /\ UNCHANGED <<process, attempt, tunnel, timedOut, faults>>

\* The network and the service fail.
LosesTransport(i) ==
  /\ Open(i) /\ session[i].transport = "connected" /\ Fault
  /\ session' = [session EXCEPT ![i].transport = "lost"]
  /\ UNCHANGED <<process, attempt, tunnel, timedOut>>

LosesSignaling(i) ==
  /\ Open(i) /\ session[i].signal # "lost" /\ Fault
  /\ \E s \in IF session[i].signal = "up" THEN {"away", "lost"} ELSE {"lost"} :
       session' = [session EXCEPT ![i].signal = s]
  /\ UNCHANGED <<process, attempt, tunnel, timedOut>>

\* monitorPrimary: runErr has room for one error.
PrimaryLost ==
  /\ Primary /\ session[1].monitor = "watching" /\ Lost(1)
  /\ ~failed /\ failed' = TRUE
  /\ session' = [session EXCEPT ![1].monitor = "ended"]
  /\ UNCHANGED <<process, attempt, setReady, once, listening, leaked, timedOut, faults>>

\* monitorSession: the signaling connection ended.  Closed, then removed.
MonitorSignaling(i) ==
  /\ ~Primary /\ session[i].monitor = "watching" /\ Open(i) /\ SignalLost(i)
  /\ session' = [session EXCEPT ![i] =
       [Closed(@) EXCEPT !.monitor = "ended", !.listed = FALSE]]
  /\ UNCHANGED <<process, attempt, tunnel, timedOut, faults>>

\* monitorSession: the transport is lost.  Removed, which closes a session the
\* set lists, then closed.
MonitorTransport(i) ==
  /\ ~Primary /\ session[i].monitor = "watching" /\ Open(i) /\ Lost(i)
  /\ session' = [session EXCEPT ![i].monitor = "removed", ![i].listed = FALSE]
  /\ UNCHANGED <<process, attempt, tunnel, timedOut, faults>>

MonitorCloses(i) ==
  /\ session[i].monitor = "removed"
  /\ session' = [session EXCEPT ![i] = [Closed(@) EXCEPT !.monitor = "ended"]]
  /\ UNCHANGED <<process, attempt, tunnel, timedOut, faults>>

\* watchSignaling: the first failure of a session fails the set.
WatchSignaling(i) ==
  /\ proc = "running" /\ step \notin {"closeSet", "stopTunnel", "returned"}
  /\ session[i].watched /\ SignalLost(i)
  /\ session' = [session EXCEPT ![i].watched = FALSE]
  /\ failed' = TRUE
  /\ UNCHANGED <<process, attempt, setReady, once, listening, leaked, timedOut, faults>>

-----------------------------------------------------------------------------
(* The deferred calls.                                                     *)

\* sessionSet.closeAll: the monitors end, the listed sessions are closed.
CloseAll ==
  /\ AttemptAt("closeSet")
  /\ session' = [i \in Session |->
       LET s == session[i] IN
       [(IF s.listed THEN Closed(s) ELSE s) EXCEPT !.listed = FALSE,
          !.monitor = IF @ = "watching" THEN "ended" ELSE @]]
  /\ step' = "stopTunnel"
  /\ UNCHANGED <<process, err, current, relay, readyAt, tunnel, timedOut, faults>>

\* Tunnel.Stop
Stop ==
  /\ AttemptAt("stopTunnel")
  /\ listening' = FALSE
  /\ step' = IF Primary THEN "closePeer" ELSE "returned"
  /\ UNCHANGED <<process, err, current, relay, readyAt, session, failed, setReady, once,
                 leaked, timedOut, faults>>

\* Peer.Close and Client.Close of a single session.
ClosePeer ==
  /\ AttemptAt("closePeer")
  /\ session' = [session EXCEPT ![1] = [Closed(@) EXCEPT !.monitor = "ended"]]
  /\ step' = "returned"
  /\ UNCHANGED <<process, err, current, relay, readyAt, tunnel, timedOut, faults>>

-----------------------------------------------------------------------------
Process == Return \/ DelayInterrupted \/ DelayOver
Starting ==
  \/ JoinInterrupted \/ Join \/ Ready \/ NotReady \/ WaitInterrupted \/ Add
Timers == P2PTimeout \/ TransportTimeout
Attempt == RelayReady \/ Interrupted \/ Fails \/ KeepsPeer \/ CloseAll \/ Stop \/ ClosePeer
Callback(i) == Connects(i) \/ ChannelOpens(i) \/ Start(i)
Monitor(i) ==
  \/ MonitorSignaling(i) \/ MonitorTransport(i) \/ MonitorCloses(i) \/ WatchSignaling(i)
Misfortune ==
  \/ JoinFails \/ RelayNotReady
  \/ \E i \in Session : LosesTransport(i) \/ LosesSignaling(i)

Next ==
  \/ Interrupt \/ MinutePasses \/ Misfortune
  \/ Process \/ Starting \/ Timers \/ Attempt \/ PrimaryLost
  \/ \E i \in Session : Callback(i) \/ Monitor(i)

Spec == Init /\ [][Next]_vars

\* Goroutines are scheduled, a working path brings its channel up and a timer
\* whose wait is in vain fires.
FairSpec ==
  /\ Spec
  /\ WF_vars(Process) /\ WF_vars(Starting) /\ WF_vars(Attempt) /\ WF_vars(PrimaryLost)
  /\ WF_vars(Waiting /\ InVain /\ Timers)
  /\ \A i \in Session : WF_vars(Callback(i)) /\ WF_vars(Monitor(i))

-----------------------------------------------------------------------------
(* Properties.                                                             *)

\* The shape of the state.
SessionState ==
  [phase : {"none", "open", "closed"}, path : {"good", "blocked"},
   transport : {"new", "connected", "lost"}, signal : {"up", "away", "kept", "lost"},
   channel : {"closed", "calling", "called"}, ready : {"none", "ok", "bad"},
   listed : BOOLEAN, monitor : {"off", "watching", "removed", "ended"},
   watched : BOOLEAN]

TypeOK ==
  /\ role \in Roles /\ initial \in Modes /\ mode \in Modes
  /\ proc \in {"running", "delay", "ended"} /\ interrupted \in BOOLEAN
  /\ step \in {"joining", "waiting", "connected", "adding", "required", "serving",
               "closeSet", "stopTunnel", "closePeer", "returned"}
  /\ err \in Errors /\ current \in Session /\ relay \in BOOLEAN
  /\ readyAt \in {"never", "now", "minute"}
  /\ session \in [Session -> SessionState]
  /\ failed \in BOOLEAN /\ setReady \in BOOLEAN /\ once \in BOOLEAN
  /\ listening \in BOOLEAN /\ leaked \in BOOLEAN /\ timedOut \in BOOLEAN
  /\ faults \in 0..MaxFaults

\* "Each attempt owns and closes its previous resources" (recovery.go:112): when
\* the next attempt is awaited no peer or signaling connection of the last one is
\* open, whatever mixture of time-outs, monitors and closeAll ended it, except
\* one its monitor has taken out of the set and is about to close.
SessionsClosed ==
  proc = "delay" => \A i \in Session : Open(i) => session[i].monitor = "removed"

\* An attempt runs over the relay instead of the mode asked for exactly when the
\* direct path timed out and no relay session has stayed ready for a minute since
\* (recovery.go:153-158); pooled sessions never make the process fall back
\* (cmd_share.go:237-238).
FallbackJustified ==
  proc = "running" /\ step = "joining" => (mode # initial <=> timedOut)

\* A signal ends the process, in every wait of every role.
SignalEnds == interrupted ~> proc = "ended"

\* A monitored session whose signaling or transport is lost ends its attempt, also
\* when others are still being started or the set does not list it yet.
Disturbed(i) ==
  /\ proc = "running" /\ Open(i) /\ session[i].monitor = "watching"
  /\ session[i].signal = "lost" \/ Lost(i)
LossEndsAttempt == \A i \in Session : Disturbed(i) ~> proc # "running"

\* Failures are survived: after any finite number of them the process is serving
\* again, unless it was told to end, met a permanent error, or an earlier
\* attempt's listener holds the port.
Working == proc = "running" /\ step = "serving" /\ (role \in {"room", "guest"} \/ setReady)
Recovers ==
  []<>(Working \/ leaked \/ (proc = "ended" /\ (interrupted \/ err = "permanent")))

\* "Each attempt owns and closes its previous resources" (recovery.go:112), the
\* tunnel's listeners included.
ListenersClosed == proc = "delay" => ~listening
=============================================================================
