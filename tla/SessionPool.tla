----------------------------- MODULE SessionPool -----------------------------
(***************************************************************************)
(* pkg/tunnel/pool.go: a SessionPool and the calls its users make, each    *)
(* atomic under p.mu.  A session stands for its ID: "Callers use a unique  *)
(* session ID for every connection incarnation" (RemoveSession).  Received *)
(* bytes and health rates are abstracted: a health-aware pool may prefer   *)
(* any session.                                                            *)
(*                                                                         *)
(* An unused definition placed just before the one it resembles            *)
(* (AddSessionTwice, ReleaseUncounted) is a plausible bug: in the place of *)
(* its neighbour it must break a property.                                 *)
(***************************************************************************)
EXTENDS Naturals, FiniteSets, Sequences, Functions

CONSTANTS
  Session,   \* session IDs
  Stream     \* stream keys: rule ID and stream ID

Policies == {"round-robin", "least-loaded", "health-aware"}

VARIABLES
  policy,    \* the DispatchPolicy given to NewSessionPool
  sessions,  \* p.sessions, in the order they were added
  count,     \* p.activeCounts: session -> its active streams
  binding,   \* p.streamMap: stream -> session
  rrIndex,   \* p.rrIndex
  closed     \* p.closed

poolVars == <<policy, sessions, count, binding, rrIndex, closed>>

NoStreams == [k \in {} |-> 0]

PoolInit ==
  /\ policy \in Policies
  /\ sessions = <<>>
  /\ count = NoStreams
  /\ binding = NoStreams
  /\ rrIndex = 0
  /\ closed = FALSE

-----------------------------------------------------------------------------

Present  == Range(sessions)
Bound(s) == {k \in DOMAIN binding : binding[k] = s}
Load(s)  == IF s \in DOMAIN count THEN count[s] ELSE 0

\* sessions without s: the kept prefix of RemoveSession.
Without(s) ==
  IF \E i \in DOMAIN sessions : sessions[i] = s
  THEN LET i == CHOOSE i \in DOMAIN sessions : sessions[i] = s
       IN  [j \in 1..(Len(sessions) - 1) |-> sessions[IF j < i THEN j ELSE j + 1]]
  ELSE sessions

\* The first session with the fewest active streams.
LeastLoaded ==
  {sessions[i] : i \in {i \in DOMAIN sessions :
     \A j \in DOMAIN sessions :
        /\ Load(sessions[i]) <= Load(sessions[j])
        /\ j < i => Load(sessions[i]) # Load(sessions[j])}}

\* What the dispatch policy may choose for a new stream.
Candidates ==
  CASE policy = "least-loaded" -> LeastLoaded
    [] policy = "round-robin"  -> {sessions[(rrIndex % Len(sessions)) + 1]}
    [] policy = "health-aware" -> Present

Bind(k, s) ==
  /\ binding' = [x \in DOMAIN binding \cup {k} |-> IF x = k THEN s ELSE binding[x]]
  /\ count' = [count EXCEPT ![s] = @ + 1]

-----------------------------------------------------------------------------

AddSessionTwice(s) ==
  /\ ~closed
  /\ sessions' = Append(sessions, s)
  /\ count' = [t \in DOMAIN count \cup {s} |-> Load(t)]
  /\ UNCHANGED <<policy, binding, rrIndex, closed>>

AddSession(s) ==
  IF closed \/ s \in Present
  THEN UNCHANGED poolVars
  ELSE /\ sessions' = Append(sessions, s)
       /\ count' = [t \in DOMAIN count \cup {s} |-> Load(t)]
       /\ UNCHANGED <<policy, binding, rrIndex, closed>>

\* The caller gets Bound(s), the streams whose transport is lost.
RemoveSession(s) ==
  /\ sessions' = Without(s)
  /\ count' = Restrict(count, DOMAIN count \ {s})
  /\ binding' = Restrict(binding, DOMAIN binding \ Bound(s))
  /\ UNCHANGED <<policy, rrIndex, closed>>

\* Pins a stream of the peer to the session its CONNECT arrived on.
BindStream(k, s) ==
  IF closed \/ s \notin DOMAIN count \/ k \in DOMAIN binding
  THEN UNCHANGED poolVars
  ELSE /\ Bind(k, s)
       /\ UNCHANGED <<policy, sessions, rrIndex, closed>>

\* The session of a CONNECT; with an empty pool the caller gets an error.
SelectSession(k) ==
  IF k \in DOMAIN binding \/ sessions = <<>>
  THEN UNCHANGED poolVars
  ELSE /\ \E s \in Candidates : Bind(k, s)
       /\ rrIndex' = IF policy = "round-robin" THEN rrIndex + 1 ELSE rrIndex
       /\ UNCHANGED <<policy, sessions, closed>>

ReleaseUncounted(k) ==
  /\ binding' = Restrict(binding, DOMAIN binding \ {k})
  /\ UNCHANGED <<policy, sessions, count, rrIndex, closed>>

ReleaseStream(k) ==
  IF k \in DOMAIN binding
  THEN /\ binding' = Restrict(binding, DOMAIN binding \ {k})
       /\ count' = [count EXCEPT ![binding[k]] = @ - 1]
       /\ UNCHANGED <<policy, sessions, rrIndex, closed>>
  ELSE UNCHANGED poolVars

Close ==
  /\ closed' = TRUE
  /\ sessions' = <<>>
  /\ count' = NoStreams
  /\ binding' = NoStreams
  /\ UNCHANGED <<policy, rrIndex>>

PoolNext ==
  \/ \E s \in Session :
        AddSession(s) \/ RemoveSession(s) \/ \E k \in Stream : BindStream(k, s)
  \/ \E k \in Stream : SelectSession(k) \/ ReleaseStream(k)
  \/ Close

PoolSpec == PoolInit /\ [][PoolNext]_poolVars

-----------------------------------------------------------------------------

\* The shape of a SessionPool: no session twice, a counter for each session
\* and for no other, none of either once it is closed.
PoolTypeOK ==
  /\ policy \in Policies
  /\ sessions \in Seq(Session)
  /\ \A i, j \in DOMAIN sessions : sessions[i] = sessions[j] => i = j
  /\ DOMAIN count = Present
  /\ \A s \in Present : count[s] \in Nat
  /\ DOMAIN binding \subseteq Stream
  /\ IsFiniteSet(DOMAIN binding)
  /\ rrIndex \in Nat
  /\ closed \in BOOLEAN
  /\ closed => sessions = <<>>

(***************************************************************************)
(* A stream is only ever bound to a session the pool still has, so no      *)
(* frame is routed to a session that RemoveSession excluded.               *)
(***************************************************************************)
BoundToPresent == \A k \in DOMAIN binding : binding[k] \in Present

(***************************************************************************)
(* The load the scheduler sees is the truth: each counter equals the       *)
(* number of streams bound to its session, whatever the order in which     *)
(* streams were bound twice, released twice or lost with a session.        *)
(***************************************************************************)
CountsMatchBindings == \A s \in Present : count[s] = Cardinality(Bound(s))

PoolInv == PoolTypeOK /\ BoundToPresent /\ CountsMatchBindings
=============================================================================
