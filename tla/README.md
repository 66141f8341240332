# uulink, verified

TLA+ models of [uulink](../src) (`wsyzxjn/uulink`, Go): a port forwarder that
carries TCP connections over WebRTC data channels, optionally over a pool of
several sessions. The modules follow the program from the stream of bytes up to
the process that recovers from its failures, and cover the set-up of a
connection (signaling, peers, shares, configuration). They are checked with TLC
on small instances; what matters most is proved with TLAPS for any number of
sessions, streams, chunks, attempts, events, requests, pushes, mappings and ports.

Paths below are relative to `src/`.

## 1. The system

| part | code | state it keeps | operations |
|---|---|---|---|
| Stream forwarding | `pkg/tunnel/tunnel.go` | `Tunnel.streams`; per stream: connection, `ready`/`closed`, `inbox`, `ackSem`, FIN flags, half-close timer | `acceptLoop`, `HandleFrame`, `dialStream`, `readLoop`, `writeLoop`, timer callback, `removeStream`, `CloseStreams`, `Stop` |
| Session pool | `pkg/tunnel/pool.go` | sessions, load counters, stream bindings, round-robin index, health | `AddSession`, `RemoveSession`, `BindStream`, `SelectSession`, `ReleaseStream`, `SendRoutedFrame`, `Close` |
| Adaptive pool | `pkg/tunnel/pool.go` | transport mode, "expanding" flag | `OnModeDetected` |
| Pooled sessions | `cmd/uulink/multisession.go` | `sessionRuntime` (closed, cleanup), `sessionSet` (sessions, failed, closed, jobs) | `activate`, `close`, `add`, `remove`, `closeAll`, `watchSignaling`, `startTunnelOnce` |
| Recovery | `cmd/uulink/recovery.go` | attempt counter, relay fallback mode, disconnect clock | `recoverTunnel`, `runWithRelayFallback`, `monitorSession`, `reconcileLoop` |
| In-band expansion | `cmd/uulink/expand.go` | active request ID, capacity-one result channel, last request served, minted rooms | `handle`, `request`, `serveExpandRequests`, `mint`, `maintainControllerPool` |
| Single-session roles | `cmd/uulink/controller.go`, `server.go` | primary peer, pool, share code, share file | `runController`, `serveRoom`, `ensureGuestShareCode`, the `bmsg_push` handlers |
| Peer | `pkg/peer/peer.go` | peer connection, pending SOAC events, candidates and text messages | `NewController`, `NewControlled`, `handleSOAC`, `answerControlledOffer`, `OnTextMessage`, `Close` |
| Signaling client | `pkg/signaling/client.go` | ack handlers, pending binary event, dispatch queue | `Connect`, `EmitWithAck`, `readLoop`, `dispatchLoop`, `Close` |
| Push queue | `cmd/uulink/options.go` | keyed queue of jobs | `submit`, worker |
| Policy, ports, rules, settings | `pkg/tunnel/tunnel.go`, `rules.go`, `cmd/uulink/options.go`, `pkg/settings/network.go` | none | pure functions of the config file and the flags |
| Accounts and files | `pkg/auth`, `cmd/uulink/account.go` | the config file | `persistLogin`, `LoadOrInitConfigFile`, `writePrivateFile` |
| HTTP API, codecs, command line, discovery | `pkg/api`, `pkg/proto`, `cmd/uulink` | little | I/O |

How they interact. A tunnel accepts a local connection, stores a stream, and
sends CONNECT. The pool picks a session for the CONNECT and binds the stream to
it; every later frame follows the binding. At the peer, the session's data
callback binds the stream to the session the CONNECT came from and gives the
frame to `HandleFrame`, which dials the target. Two goroutines per stream and
end (`readLoop`, `writeLoop`) then move DATA under a window of unacknowledged
frames; FINs half-close; `removeStream` tears down exactly once and releases
the binding. A monitor per session notices a lost transport; its cleanup takes
the session out of the pool and closes the streams it carried, and nothing is
ever replayed on another session.

What is hard. For one stream: five goroutines at each end share its state, and
any of four may tear it down. For one end: sessions become ready, fail and are
cleaned up while streams are accepted, routed, dialled and removed, and pool and
table are updated under different locks. For a process: attempts fail at every
step, and callbacks, monitors and deferred calls of an attempt race its end. For
several processes: replies that come after their timeout, retries, buffered
events drained while new ones arrive, a controller that is replaced by another
while it is being answered. `PROJECT.json` lists every hazard at its line with
the properties that cover it, and says of the few without one why there is none.

What makes each part correct:

- *stream*: a duplex byte pipe, in order, with no truncated end unless an end
  was aborted; conserved window; neither end outlives the other; the transport's
  goroutine never waits for an application;
- *pool*: bindings only to present sessions; counters equal to bindings; the
  policy means what it says;
- *pooled end*: no closed session in the pool; a stream stays on one session; no
  leaked binding; no stream left without transport after a cleanup;
- *expansion*: whichever reply a request gets, the pool never exceeds its target
  and no room is joined twice; a repair leaves healthy rooms alone; the pool
  reaches its target again after any finite number of failures;
- *recovery and roles*: an attempt closes every session it opened; the relay
  fallback is used exactly when it is justified; a signal ends the process from
  every wait; a lost session ends its attempt; the process serves again after any
  finite number of failures;
- *signaling*: events are handled once, in order, with their own attachments; an
  answer reaches its own request; a link that breaks or goes silent is noticed;
- *peer*: what the controlled peer builds belongs to one controller; a relay that
  is required is verified; the open callback is not missed; text is neither lost
  nor repeated; a replacing controller is noticed;
- *share of a guest room*: the newest push of a controller runs, none waits for
  ever, the share file holds the share in memory, except after a failed write and
  after the copy that `serveRoom` saves late (known disagreements, section 3);
- *configuration*: every port that was asked for is forwarded, the whitelist shown
  is the one enforced, rewriting the file changes no tunnel.

## 2. Modules

| module | models | lines of code it stands for |
|---|---|---|
| `DuplexPipe` | what a forwarded connection promises its applications (abstract) | |
| `StreamPair` | one stream, both ends, every goroutine; implements `DuplexPipe` | `tunnel.go` 450-998, `pool.go` 139-162, 283-299 |
| `SessionPool` | `SessionPool`, each call atomic under `p.mu` | `pool.go` 67-319 |
| `PooledTunnel` | one end: stream table, pool and session runtimes; every step is a `SessionPool` step or leaves the pool alone | `multisession.go` 159-197, 386-744, `recovery.go` 201-248, `tunnel.go` 482-746 |
| `Expansion` | the in-band growth of a pool: controller, text channel, served side | `expand.go` 109-397, `pool.go` 398-423, `recovery.go` 201-248 |
| `Supervisor` | a process: the recovery loop and its attempts, in each of the four roles | `recovery.go`, `controller.go`, `server.go`, `multisession.go`, `pkg/peer/transport.go` |
| `Signaling` | the signaling client and the choice of a gateway | `pkg/signaling/client.go`, `multisession.go` |
| `Peer` | the set-up of a connection between successive controllers and a controlled peer, the FILE and TEXT channels | `pkg/peer/peer.go`, `stun.go`, `pkg/signaling/ice.go` |
| `GuestShare` | the push queue, the share of a guest room and its file | `options.go` 160-270, `server.go`, `multisession.go` |
| `Config` | the config file, its rewriting, and what a command makes of file and flags | `options.go`, `rules.go`, `pkg/auth`, `settings/network.go`, `tunnel.go` |
| `PooledTunnel_proofs` (with the theorems about `SessionPool`), `Expansion_proofs`, `Supervisor_proofs`, `Signaling_proofs`, `Peer_proofs`, `GuestShare_proofs`, `StreamPair_proofs`, `Config_proofs` | theorems | |
| `MC_StreamPair`, `MC_PooledTunnel`, `MC_Expansion`, `MC_Signaling`, `MC_Config` | values of the constants for TLC | |

`DuplexPipe` is what `StreamPair` implements and `SessionPool` what `PooledTunnel`
does. `Supervisor` has the sessions of `PooledTunnel` without their streams, and
`Expansion` the growth of the pool that `Supervisor` starts. `Signaling`, `Peer` and
`GuestShare` are what goes on inside one "join" of `Supervisor`. `Config` comes before all
of them: it decides which rules, sessions and targets they work with. The exact
lines of every definition are in `PROJECT.json` ("map").

### StreamPair

The `opener` accepted the local connection; the `target` dials. The state is
the stream struct of each end (`stream`), whether its table holds it (`table`),
whether its pool binds it (`bound`), where each goroutine is (`accepting`,
`receiving`, `dialing`, `reader`, `writer`, `remover`, `monitor`), and the
frames on their way (`link`, one FIFO per end: a reliable, ordered data
channel). `taken`, `written`, `ended`, `aborted` and `late` are history
variables for the properties.

A control state exists wherever another goroutine can run in between with a
different outcome: before the CONNECT is sent, between the bind of a CONNECT and
its handling, between reading a chunk, having a window slot and transmitting,
between writing a chunk and acknowledging it, between marking a FIN as sent and
sending it, between leaving the table and releasing the binding. The payload of
a chunk is its number; errors in building a frame, which cannot happen for valid
IDs, are left out. `Transmit` is `session.SendFrame`: it loses the frame when
the transport is gone. The lookup half of `SendRoutedFrame` is merged into the
step before it.

`Faults` says which faults the environment may inject: a refused CONNECT
(`reject`), a failed dial, a failed local write, half-close timeouts and the loss
of the session at either end. A dead connection is noticed by both monitors.

### SessionPool

One action per exported operation. A session stands for its ID. `policy` is
chosen initially and never changes. Received bytes and the decaying rates of
`healthScore` are abstracted: a health-aware pool may choose any present session,
so everything that holds here holds for every score. `SendRoutedFrame` is
`SelectSession` for a CONNECT and a read of `binding` otherwise; it is modelled
where it is called.

### PooledTunnel

A session's runtime (`open`, `closing` while its cleanup runs, `closed`) and
channel (`opening`, `up`, `down`) change independently: an open callback may run
after the cleanup, a CONNECT may arrive before it. `CloseRuntime` is
`RemoveSession` plus the list of streams to close, `CloseStream` one iteration of
`CloseStreams`, `FinishClose` the rest of `close`. `Stop`, `StopStream` and
`ClosePool` are the deferred calls of `doMultiSessionController` in their order.
`closeAll` (`multisession.go:271-282`) closes what the set lists and waits for the sessions being
started; a session that its monitor has taken off the set (`recovery.go:241`) is closed by
nobody else, so `Stop` may run while such a session is still open or in its cleanup
(`Monitored`), and `CloseRuntime` goes on beside `Tunnel.Stop` and `pool.Close`. `late` remembers the
streams accepted after `Tunnel.Stop` looked at the table.
A stream is where its opening goroutine is (`phase`); routing a CONNECT
and transmitting it are two steps, as are receiving (binding) one and handling
it. An established stream sends frames and ends at any time; `StreamPair` has the
detail. `removeStream` is two steps: the table entry goes (`Remove`), then the
final frame is sent and the binding released (`Release`).

The model allows more than the code in three harmless ways: listeners accept
before the tunnel is started and after it is stopped; a failed channel may be
cleaned up at any time and so may a healthy one (shutdown, readiness timeout);
sessions receive at most one CONNECT of the peer at a time, in any order.

### Expansion

The controller's state is where `maintainControllerPool` is (`step`: waiting
for the next pass, waiting for a reply, joining), its locals (`batch`, `known`),
the negotiator (`next`, whose last value is the active request, and `result`,
the channel of capacity one), and the sessions it has besides the primary
(`pool`, `joining`). The served side's is the request being minted and the
previous reply of `serveExpandRequests`, and the minter's slots (`room`). A share
is a slot and the incarnation of its room, because a slot that is repaired keeps
its guest identity, hence its connect ID. The text channel is two FIFOs: it is
reliable, and when the primary session loses it both roles end with it.

`Maintain` is a pass up to the request, `TakeResult` and `Timeout` are the cases
of `requestContext`'s select, `Joined` the end of the pass. The two attempts of a
join (over P2P, then over a relay) are one: `JoinSucceeds` or `JoinFails`, and a
failed one may or may not have reached the room. `Serve` covers a replay, a
refusal and the start of the minter, `MintSucceeds`/`MintFails` one
goroutine per slot, `Minted` the collection of live rooms after `wg.Wait`. A
monitor at either end ends a session or a room: without a fault only if the
other end is gone. Runtimes and their pool entries disappear in one step here;
`PooledTunnel` has the detail. An offer without shares stands for an
`expand_error`. A controller without JWT
stops maintaining its pool when the path is direct (`RelayDetected`). Left out: peers that
send no request ID, malformed messages, a primary that is lost, and shutdown.

### Supervisor

A process has one of four roles, the loop around its attempts (`proc`), and the attempt
itself, which is one goroutine (`step`) with the callbacks, the monitor and the
signaling watcher of each session. `Join` is everything from the API calls to the
connected peer; `Ready`, `NotReady`, `WaitInterrupted`, `P2PTimeout` and
`TransportTimeout` are the cases of the select that waits for readiness, which
differ with the role as in the code: a single session watches the signal and its
namespace, a pool does not; a single session leaves the relay fallback to
`relayFallback.next`, a pool retries over the relay at once. `CloseAll`, `Stop` and
`ClosePeer` are the deferred calls in their order. `MonitorTransport` takes a session
out of the set and `MonitorCloses` closes it: between the two only the monitor knows
it. A session that its monitor has closed is not added (`sessionSet.add`).

Time is abstract: a timer may fire whenever it is armed, and firing too early
counts as a fault; a minute may pass on a ready transport. The delay between two
attempts is long enough for callbacks and monitors that wait for nothing to
finish (`DelayOver`); its length is left out. A listener that an attempt leaves behind
holds the port in all later ones (`leaked`). Reconciliation of a served pool is
`Expansion`'s.

### Signaling

One goroutine reads the socket, one dispatches events, callers send requests. The
socket is a FIFO of frames; the gateway (external) numbers its events, sends a
binary event and its attachments as one burst, and answers an acknowledgement
id once. An event is its number and the attachments joined with it so far.
`Offer` is the read loop inside `dispatchEvent`, where it waits for room and where the
read deadline may pass. A request that takes two ids allocates and registers
them in two steps, as the code does; `EmitWithAckNoArgs` does it in one. A link is up,
silent (nothing arrives and nothing fails) or down. `connectSignaling` tries the
gateways in turn; the clients it gave up on are closed and not followed.

### Peer

The controller's incarnations follow one another (a new process, or the relay
attempt after a P2P timeout), each with its own `ice_id`, against one controlled
peer. `RegisterControlled`, `CopyEarly`, `MarkReady` and `DrainEnds` are `NewControlled`;
`TakeEvent` is the dispatch loop, which decides from `controlledReady` whether an event is
kept or handled and does it in a later step. An offer is answered under `soacMu`
(`lock`): `BeginOffer`, `BuildConnection`, then `SendAnswer` or `OfferFails`, while `Close` may run
in between. The controlled peer gathers candidates from `SetLocalDescription` on, so one may
reach the controller before the answer. ICE and the gateway are external: the ends connect when both
descriptions are set and a candidate is known, the selected pair is reported
later. The FILE channel's handler and `OnFileChannelOpen` are two steps each, the text
buffer follows `handleTextMessage` and `OnTextMessage`; both are modelled at the controller
and are the same code at the other end.

The gateway routes an event for a controller to the present one only, because each
has a `client_id` of its own; `RoutedInv` of the proofs builds on that. In auto mode nothing
depends on which pair ICE picks, so it is always called direct there.

### GuestShare

`Push` is the signaling handler's `submit`; `Check`, `Look` and `Sleep` are `pushQueue.run`; `Upload`
to `Confirm` are the API calls of one push, each of which may fail. A push is its key
(type and control ID) and its number, which stands for the salt; a push of a type the
handler does not know (`other`) takes a place in the queue and does nothing. A job holds
`shareMu`, so `Copy` waits for it; the save of the copy (`SaveCopy`) does not, and
`lastSave` remembers whether the last write of the file was of the share as it then was, of
an older copy, or failed. A pooled room
has no share file. The service may answer an upload with another code.

### Config

`file` is the config file, `process` what the running command works with. `Start` is
loading, validation, `BuildRules`, `buildSecurityPolicy`, `resolveSessionPolicy` and the rule table of
the tunnel, in that order, with the file written when a first start gives it a
client ID; `Login` rewrites it. What JSON does to a setting is modelled by what
it does: `WrittenMapping` writes a port or a range, `OmitEmpty` drops an empty list. A port
specification is the pair of numbers it is read as.

## 3. Runs

| run | instance | what it shows |
|---|---|---|
| `StreamPair_safety` | window 2, inbox 2, 3 chunks one way and 1 the other; write failures, session loss (1.19M states) | `WindowConserved`, `DataNeverWaitsForApplication`, `NoOrphanAtOpener`, and the refinement `ImplementsPipe` |
| `StreamPair_live` | window 1, inbox 1, 2 chunks; rejects, failed dials and writes, timeouts; fair (16k states) | `NeitherEndOutlives`, `HalfClosedEnds`, `EverythingArrives` |
| `PooledTunnel` | 2 sessions, 2 local streams, 1 of the peer, all three policies, a shutdown with 1 session not closed (1.82M states up to symmetry) | `TypeOK`, `CountsMatchBindings`, `OnlyOpenSessions`, `OneSessionPerStream`, `NoLeakedBinding`, `LocalStreamHasTransport`, `LeastLoadedIsLeast` |
| `Expansion` | target 3, batch 2, 8 slots, 3 faults; fair (75k states) | `TypeOK`, `PoolWithinTarget`, `NeverRejoins`, `HealthyUntouched`, `FillsUp` |
| `Supervisor` | all four roles, pools of 2, 2 faults; fair (83k states) | `TypeOK`, `SessionsClosed`, `FallbackJustified`, `SignalEnds`, `LossEndsAttempt`, `Recovers` |
| `Signaling` | 2 gateways, a queue of 1, one binary and one plain event, a request of one id and one of two; fair (448k states) | `EventsConserved`, `AnswersReachTheirRequest`, `LostLinkNoticed`, `EventsHandled` |
| `Peer` | 2 controllers, 1 candidate at each side, 2 texts and a buffer of 1; fair (864k states) | `ConnectionConsistent`, `RelayVerified`, `OpenNotMissed`, `TextConserved`, `ReplacementSeen` |
| `GuestShare` | 3 types and 1 controller, a queue of 2, 4 pushes, 2 codes; single and pooled; fair (516k states) | `NewestPushRuns`, `ShareFileCurrent`, `PushesServed` |
| `Config` | ports up to 5, 403 files and 68 sets of flags around a plain one (4.7k states) | `NoRuleIgnored`, `ShownIsEnforced`, `RewriteKeepsTunnel` |
| `PooledTunnel_reply` | as `PooledTunnel`, with callbacks that do not bind | *violated:* `RepliesLeave` |
| `Supervisor_listener` | as `Supervisor`, without fairness | *violated:* `ListenersClosed` |
| `Config_rewrite` | as `Config` | *violated:* `RewriteKeepsPolicy` |

Bounds. *Streams:* the window has to fill, with a DATA behind it, for flow control to
matter: three chunks and a window of two do that in one direction. One chunk the other
way is needed as well: an end that its own failed write tears down may have a DATA in its
reader's hands, which leaves after the FIN. The window equals the inbox's capacity, as in
the code's default (`max_in_flight` sets both). Half-close timeouts are in the liveness
run, which uses two chunks and a window of one, again one more than fits; the invariant
the proofs use was also checked with all faults, two chunks and one (2.85M states). *Pool:* two sessions are what moving a stream or
choosing the wrong one takes; two local streams give the counters something to
disagree on; one remote stream exercises every callback path, and two of them on
one session are serialized by its callback. `MaxLeft`, the sessions that are not closed
when the tunnel stops, is one: the streams of that one and of the one closed meet
`Tunnel.Stop` and `pool.Close`, and the proofs hold for any number. Symmetry permutes sessions, local
streams and remote streams; no property distinguishes them, and the run that
uses it with a PROPERTY checks an action property, not liveness. *Expansion:* a pool of three
is the smallest that can be partly filled. `MaxFaults` bounds the faults, and
`Slots` is what they can use up: two rooms for the pool and two more for each of
three faults. With fewer slots the leaked rooms leave none for the last request:
it is refused again and again, `FillsUp` does not hold, and `next` grows without
bound, so TLC does not finish. The code has 63 slots, which the same faults use up
when they happen often enough; `FillsUp` claims nothing beyond that.

*Process:* a pool of two is needed for one session to be lost while the other is
started; the second fault is the one that meets the state the first left behind (the
relay fallback, a session being closed). The number of attempts is not bounded.
*Signaling:* a queue of one is full with one event; the binary event has one
attachment and is followed by a plain one, and `MaxWire` = 2 frames under way put an
acknowledgement or a second event between any two of these. *Peer:* two incarnations are the
replaced and the replacing one; with one candidate each, a candidate can come before
its offer, after it, and after the other's. Two texts and a buffer of one make one that
is kept and one that is dropped or passed on during the replay. *Shares:* three keys are one
more than the queue of two holds, so that pushes are refused; with a fourth push one merges with a
waiting one behind a running one. Two codes let the share change.
*Config:* `MaxPort` only has to leave room for two ranges of two ports and a gap; files
and flags vary the settings that are read together and leave the others plain.

Deadlock is not checked: a stream that ended, a tunnel that stopped, a process that was
told to end and a room with nothing to push have nothing left to do. That each does get
there, or goes on, is what the liveness properties say.

### Violated claims

1. `RepliesLeave`: the pooled controller's data callback
   (`cmd/uulink/multisession.go:470-477`) does not bind the CONNECTs it receives.
   Streams the peer opens get no answer.
2. `ListenersClosed`: "Each attempt owns and closes its previous resources"
   (`cmd/uulink/recovery.go:112-113`). `Tunnel.Start` does not look whether the tunnel was
   stopped (`pkg/tunnel/tunnel.go:359`), and the deferred calls stop the tunnel before the peer
   is closed: an open callback that has begun opens a listener that nobody closes, and
   the next attempts find the port taken. `SessionsClosed` shows that sessions, unlike
   listeners, are closed.
3. `RewriteKeepsPolicy`: an empty `allowed_ports` denies every port (`README.md:394`), but
   `omitempty` drops it whenever the file is rewritten (`pkg/auth/sign.go:116`), after which every
   port is allowed.

### Known disagreements

These properties are stated in the modules and are not among the runs, because the code
does not have them; each was seen violated by TLC on the instance of the module's run.

- `StreamPair!HandleFrameNeverBlocks`: the comment at `pkg/tunnel/tunnel.go:547` promises
  that `HandleFrame` never blocks on local I/O. With the inbox full of a window
  of DATA, or of DATA and the stream's own local EOF, a FIN waits in `enqueue`
  for the application, and the transport's receive goroutine with it. DATA
  itself does not while both ends hold the stream, which
  `DataNeverWaitsForApplication` shows. An end torn down by a failure may transmit one
  more DATA after its FIN (its reader had the chunk already), and that one may wait too.
- `StreamPair!NothingSentAfterRelease`: the comment at `pkg/tunnel/tunnel.go:731`. The pool
  looks a binding up and transmits without a lock, so one frame per goroutine
  can follow the release. `OneSessionPerStream` shows that it still goes to the
  right session.
- `PooledTunnel!NoStreamOutlivesItsSession`: the cleanup of a session closes the streams that
  were bound at that moment. A CONNECT handled around it enters the table
  afterwards and, if the target stays silent, stays until shutdown.
- `PooledTunnel!StopClosesAll`: "Stop closes all listeners and active streams"
  (`pkg/tunnel/tunnel.go:481`). A connection the listener has accepted is stored by `acceptLoop` after
  `Stop` walked over the table, and stays; it ends with the process, or with the binding's
  session if its CONNECT was sent before that session's cleanup. `LocalStreamHasTransport` shows
  that of the streams accepted here only such a one loses its transport.
- `GuestShare!SavedShareIsCurrent`: `serveRoom` copies the share under `shareMu` and saves the copy without
  it (`cmd/uulink/server.go:234-239`). A push answered between the two changes the share and writes the
  file, and the older copy overwrites it; the file stays behind the room's share until the next push.
  `ShareFileCurrent` shows that nothing else but a failed write leaves it behind.
- `Expansion!RoomsWithinTarget`: `docs/configuration.md:140-142` says that remote requests
  cannot exceed the serving endpoint's target. Each request is clamped to it
  (`expand.go:203`), but live rooms of earlier requests are not counted, and no
  monitor ends a room that no controller reached. A second request after a
  time-out or a failed join mints on top of them.
- `Peer!EarlyEventsHandled`: "Cache early offers until the controlled peer knows its
  signaling client_id" (`pkg/peer/peer.go:272-274`). The handler tests `controlledReady`
  first (`:279`) and appends under the lock afterwards; `NewControlled` may copy the buffer and set the
  flag in between, and the event stays in the buffer for good. If it was the
  offer, the controller times out and tries again.

The comment at `cmd/uulink/multisession.go:44-45` says that a legacy config with only
`sessions=N` uses that value as the auto-mode cap; the code (`:69`) and
`cmd/uulink/main_test.go:289` ignore it. `Config` follows the code (`Wanted`).

## 4. Fairness

`StreamPair!Fairness` is weak fairness of every goroutine of the code: Go's
scheduler runs what can run, and none of these steps is disabled again and again
by others (a `select` with several ready cases is one disjunction under one
fairness condition). The data channel delivers what it carries while it is up.
`WriteSucceeds` is fair: an application that never reads can hold a
stream for ever, in the code as well, so liveness is claimed for applications
that keep reading. Reading a chunk or an end from an application is not fair: an
application may stay silent. No fault has to happen, except that half-close
timers fire (`TimerFires`), which the runtime guarantees.

`Expansion!Fairness`: the reconcile loop's timer fires, messages arrive, the
minter and the joins come to an end (they have time-outs), and monitors, which
poll every second, notice a peer that is gone. A mint that is never hindered by a
fault succeeds, and so does a join of a room that is open. Time-outs of a request
are faults: when every answer is late the pool may never grow.

`Supervisor!FairSpec`: the attempt's goroutine, each session's callbacks and monitors and the
recovery loop run; a path that works brings its channel up; a timer fires when what it
waits for cannot come. Nothing obliges a failure, a signal or an early timer.

`Signaling!FairSpec`: both loops run, event handlers return, and `connectSignaling`'s own
timers end its waits. The timer of a request is left unfair on purpose, so that
`LostLinkNoticed` shows the read deadline to be enough.

`Peer!FairSpec`: `NewControlled`, the dispatch loop and the answer of an offer run, and the
signaling calls in them return. Nothing is assumed of the controller or of ICE.

`GuestShare!FairSpec`: the worker is scheduled and every API call returns.

`PooledTunnel` and `Config` are checked for safety and action properties only.

## 5. Proofs

`PooledTunnel_proofs` begins with the pool alone: **PoolCorrect**. For any sets of sessions and
streams, and any order of calls, the pool has its type, every binding is to a present session
and every counter equals the number of streams bound to its session. The three
are inductive together: `CountsMatchBindings` alone is not, because a counter may
be decremented for a session that is gone, and `BoundToPresent` needs that the
counters' domain is the set of present sessions. The lemmas say what removing a
session from, and appending one to, the list does to the set of present ones,
that the policies choose present sessions, and that binding one stream raises one
cardinality by one.

Then the end that uses it: **ImplementsPool** maps every step of an end to a call of
the pool or to a stutter. **Invariance** is the inductive invariant `IInv`, proved
step by step: the safety invariants, plus
`BoundAsConnected` (a binding is to the session of the stream's CONNECT),
`TableFollowsPhase` (what is in the table or being removed has been connected or
accepted), `PendingFollowsRuntime` (cleanups close connected streams, while they
run) and `ShutdownOrder` (of the streams accepted here, `Tunnel.Stop` leaves only those accepted
after it began; `pool.Close`, which drops every binding, comes after it). That the sessions are closed by
then is neither assumed nor true. From it follow
**TypeCorrect**, **NoDeadSession** (`OnlyOpenSessions`), **StreamsNeverMove**
(`OneSessionPerStream`), **LoadIsReal** (`NoLeakedBinding`, `CountsMatchBindings`),
**NoLocalOrphan** (`LocalStreamHasTransport`), and **SchedulerIsFair** (the action property
`LeastLoadedIsLeast`).

`Expansion_proofs`: **Invariance** proves `PoolWithinTarget` and `NeverRejoins`
together (**PoolStaysWithinTarget**, **NoRoomIsRejoined**, **TypeCorrect**). Neither
is inductive alone. A join may be added only because the pool still has room for
the batch that was asked for (`RequestFits`: while a request is out the pool can
only shrink), an accepted offer has no more shares than that and names no slot
twice (`OffersAreSound`, of every reply there is: on its way, queued, or kept for
a replay), sessions in the pool are remembered (`JoinsFollowOffers`), and the
maintenance is started once (`StartedOnce`). Which request a reply answers does
not occur in the argument: a stale reply does no harm. **HealthyStaysUntouched** is
the action property `HealthyUntouched`. The minter works on slots that were free when
the request was served, perhaps long ago; that they still are is `MintsAreFree`, inductive
beside the invariant because controllers reach only open rooms and only the minter opens one.

`Supervisor_proofs`: **Invariance**, for pools of any size and any number of failures.
`SessionsClosed` speaks only of the delay between attempts; what is
inductive is `Owned`: an open session is listed, or its monitor is about to close it, or
the attempt is just starting it, and the deferred calls empty these in turn. That
needs `StepsOfRole` (which steps a role can be at). `FallbackJustified` needs `Fallback`: what
`readyAt`, `err` and `relay` may be at each step, since the mode changes only when an attempt
returns, long after the timeout that justifies it. From these follow **TypeCorrect**,
**NoSessionOutlivesItsAttempt** and **RelayIsJustified**.

`Peer_proofs`: **Invariance** conjoins four parts that do not need one another. `BuiltInv` gives
**ConnectionBelongsToOne**: until the peer is marked closed its only open connection is the
one it has, built for the last offer it took, and candidates and STUN list are of that
incarnation; with `RoutedInv` (every event to the controller is the present
incarnation's) the same holds at the controller. `FileInv` gives **ReadyIsRelayed** (the
callback is registered after the offer, from which on the mode stays) and
**CallbackRuns** (whoever of handler and registration comes second finds what the first
left). `TextInv` gives **NoTextIsLost**; besides the count it needs that nothing is being
replayed before a handler is registered, or `OnTextMessage` would overwrite it.

`GuestShare_proofs`: **NewestPush** from `QueueInv`: the keys of the waiting jobs are distinct, each is
the last accepted of its key and newer than any that ran, so that taking the first one
serves the newest. **FileHoldsShare** from `FileInv`: the file is behind only between the
refresh and the save of a job, after a failed write, and after the late write of `serveRoom`.

`StreamPair_proofs`: **Inductive**, for any window, inbox and amount of data both ways. The
invariant has seven parts. `Shape` is the type. `FreshInv` says that nothing has happened at
the target before it handles the CONNECT. `Life` ties the stream tables, the bindings and
the session together: a stream leaves the table exactly once, and one whose end still has
the session is bound, unless its CONNECT is still to come. It contains `NoOrphanAtOpener`
(**NoOrphan**). `Answer` says that there is one answer and when
it is negative; without it a stream that was refused could be reading. `Ending` orders an
end's own shutdown: a local EOF is queued once and by a reader that is done, a sent FIN means
the reader is done, so that only an end torn down by a failure has data behind its FIN.
`Tokens` is the window: what an end owes (a frame being transmitted, on the link, in the
peer's inbox, in the peer's writer, or an acknowledgement on its way back) never exceeds the
slots taken, and equals them while both ends hold the stream. From it come
**WindowIsConserved** and **DataNeverWaits**: a frame in the writer and
one arriving leave two places of the inbox free of DATA, of which the end's own EOF takes one,
and a FIN does not come before a DATA. `Order` says where
every chunk is: those written, the one in the writer's hands, a run in the inbox, a run on the link,
the one in the reader's hands, and the FIN after the last of them unless the sender was torn
down. From it follows **StreamIsPipe**: every step is a step of `DuplexPipe` or leaves it
alone. **TypeIsKept** needs one more part, `Bounds`, for the numbers of the chunks, and
`Tokens` for the length of an inbox.

`Signaling_proofs`: **Inductive**, for any requests, gateways, queue depth, events and
attachments. `Carried`, `Books` and `Flags` are the types (**TypeIsKept**). `Counting` says that
what was handled, is queued, offered and pending is numbered from 1 without a gap and that
the headers on the wire go on from there to `sent`; it says nothing of a closed client, which
drops what it offers. `Assembly` says that attachments follow their header on the wire
(`Follows`), that a pending event has the attachments it has in order and the next one is the
first frame of the wire, and that an event that left the read loop is whole. It is what makes
`ReadAttachment` join a part with its own event, and gives **EventsAreConserved** with
`Counting`. `Answering` is about ids: the counter never passes what the started requests take
(`Numbered`), so that ids are given out once; a callback belongs to the request that took its
id (`Registered`); whatever the gateway owes or has sent is the answer of a request that was
sent, whose callback is there while its caller waits (`Owed`, `Returned`); and no two answers
have one id. From it follows **AnswersFindTheirRequest**.

`Config_proofs`: files with any number of mappings, ranges of any length, any flags and any
number of ports. The invariant (**Invariance**) is short: a running command's rules have distinct
IDs, its tunnel is made of them, and its whitelist holds ports. The work is in what the
operators compute, which is induction over data. The library's induction theorems take a
predicate, which no backend can instantiate, so the predicate is made a set: a set of
naturals that has 0 and is closed under successor is `Nat` (`SetInduction`, from the
well-foundedness of `<`). The folds of the community modules are recursive functions, that
is CHOOSE, so the first induction of each shows that such a function exists, and the second
what it computes. `FlattenSeqCorrect`: flattening keeps exactly the elements of the parts.
`AskedPairs` and `NoneIgnored`: `BuildRules` asks for the pairs that mappings and flags name, and
with distinct IDs the rule table of the tunnel drops none. Hence **EveryRuleIsForwarded**
(`NoRuleIgnored`) and the stronger **ForwardsWhatIsAsked**: a command that starts forwards those
pairs, and no other. `SortedCorrect` and `NextRun`: the ports come in ascending order, and after
each of them the parts are the runs of the ports so far, from which follows
**ShownWhitelistIsEnforced** (`ShownIsEnforced`). `FileRewritten` says what rewriting a file
changes, `MappingRewritten` that a mapping keeps its meaning, because the port of a side that
has a range is never read; from them **RewritingKeepsTheTunnel** (`RewriteKeepsTunnel`). The file has to be valid for it, and is whenever it is rewritten: a limit of
0 is written as the default it stands for, and a limit out of bounds is never loaded.

Assumptions: `Local \subseteq Stream`, `Binds \subseteq Session`; the numbers of
the other modules are naturals, the sizes of pools and the numbers of controllers, gateways and
of queue and inbox places positive, `NoControl` is no control ID and `NoOne` no request; the
requests of a client are finitely many and take one or two ids each, as in the code. Nothing else
is assumed of the constants; sets of sessions, streams and controllers may be infinite, and
the window may be zero (no flow control), as the code allows. Of `Config`, that `DefaultLimit` is within
`HardLimit`, `MaxPort` and `DefaultTarget` positive, `Unset` no port specification, and that files and flags
have the types of the code's structures, with any numbers in them.

Only model-checked: liveness, which with fairness and ENABLED is out of the prover's reach. Every
invariant and every action property of the passing runs is stated by a theorem. No proved module has
a RECURSIVE operator, which would take the SMT solver away.

## 6. Not modelled

- Streams: `SetSecurityPolicy` and `SetMaxInFlight`, which are called before `Start` only,
  buffer pooling and the rate limit of the remote log.
- Two `PooledTunnel` ends composed: stream IDs that restart with a process and a window
  larger than the peer's inbox are listed as hazards or bounds, not modelled.
- `Supervisor`: the length of the recovery delay and the attempt counter it comes from,
  the reconciliation of a served pool (`Expansion` has it), statistics.
- `Signaling`: pings and pongs, which are answered on the spot.
- `Peer`: the media and handshake channels, transport statistics; SOAC events and STUN lists with an
  empty ID (`pkg/peer/peer.go:722`, `:737`, `stun.go:30-32`), which the program takes for any
  controller's. A controller sends the ID its acknowledgement gave it (`:240`), and the gateway is
  taken to give one.
- `Expansion`: peers that send no request ID, malformed messages.
- `Config`: the syntax of addresses, hosts of rules, the account's fields, and the
  replacement of the file (`private_file.go`), which is one rename.
- The HTTP API client, request signing, byte codecs, the parsing of ICE server lists, LAN
  discovery and remote configuration, the command line and logging: I/O, computation
  without state, or output. Where they can fail, the models let them fail.
- The experimental transports: thin wrappers around libraries, built only with a tag.

What would add most from here: `TunnelPair`, two pooled ends with restarts between them.
