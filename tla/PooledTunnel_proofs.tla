-------------------------- MODULE PooledTunnel_proofs --------------------------
(***************************************************************************)
(* The session pool, and a pooled tunnel that uses it.                     *)
(*                                                                         *)
(* PoolInv is an invariant of the session pool, for any sets of sessions   *)
(* and streams.  It is inductive as it stands: the counters are right      *)
(* because every binding is to a session that has a counter, and a counter *)
(* starts at 0 because no stream is bound to a session the pool lacks.     *)
(*                                                                         *)
(* A pooled tunnel uses its SessionPool as SessionPool specifies, so the   *)
(* invariants proved first hold there too, and with them the rules that    *)
(* tie the pool to the runtimes and to the stream table, for any numbers   *)
(* of sessions and streams.  IInv is the inductive invariant.              *)
(***************************************************************************)
EXTENDS PooledTunnel, FiniteSetTheorems, TLAPS

-----------------------------------------------------------------------------
(* The session pool *)

Distinct(q) == \A i, j \in DOMAIN q : q[i] = q[j] => i = j

\* Without(s) keeps the other sessions, each once.
LEMMA WithoutIsRemoval ==
  ASSUME NEW s, sessions \in Seq(Session), Distinct(sessions)
  PROVE  /\ Without(s) \in Seq(Session)
         /\ Distinct(Without(s))
         /\ Range(Without(s)) = Present \ {s}
<1>1. CASE ~ \E i \in DOMAIN sessions : sessions[i] = s
  BY <1>1 DEF Without, Present, Range
<1>2. CASE \E i \in DOMAIN sessions : sessions[i] = s
  <2> DEFINE n == Len(sessions)
             i == CHOOSE i \in DOMAIN sessions : sessions[i] = s
             w == [j \in 1..(n - 1) |-> sessions[IF j < i THEN j ELSE j + 1]]
  <2>1. n \in Nat /\ DOMAIN sessions = 1..n
    OBVIOUS
  <2>2. i \in 1..n /\ sessions[i] = s
    BY <1>2, <2>1
  <2>3. Without(s) = w
    BY <1>2 DEF Without
  <2> HIDE DEF i, n
  <2>4. n - 1 \in Nat /\ \A j \in 1..n : sessions[j] \in Session
    BY <2>1, <2>2
  <2>5. w \in Seq(Session)
    <3>1. w \in [1..(n - 1) -> Session]
      BY <2>1, <2>2, <2>4
    <3> QED BY <3>1, <2>4
  <2>6. Distinct(w)
    BY <2>1, <2>2, SMT DEF Distinct
  <2>7. Range(w) = Range(sessions) \ {s}
    <3>1. \A j \in 1..(n - 1) : w[j] \in Range(sessions) /\ w[j] # s
      BY <2>1, <2>2, SMT DEF Distinct, Range
    <3>2. ASSUME NEW j \in 1..n, sessions[j] # s
          PROVE  \E m \in 1..(n - 1) : w[m] = sessions[j]
      <4>1. CASE j < i
        <5>1. j \in 1..(n - 1) /\ w[j] = sessions[j]
          BY <4>1, <2>1, <2>2
        <5> QED BY <5>1
      <4>2. CASE j > i
        <5>1. j - 1 \in 1..(n - 1) /\ w[j - 1] = sessions[j]
          BY <4>2, <2>1, <2>2
        <5> QED BY <5>1
      <4> QED BY <4>1, <4>2, <3>2, <2>1, <2>2
    <3>3. DOMAIN w = 1..(n - 1)
      OBVIOUS
    <3> HIDE DEF w
    <3>4. \A x \in Range(w) : x \in Range(sessions) \ {s}
      BY <3>1, <3>3 DEF Range
    <3>5. \A x \in Range(sessions) \ {s} : \E j \in 1..n : sessions[j] = x /\ x # s
      BY <2>1 DEF Range
    <3>6. ASSUME NEW x \in Range(sessions) \ {s}
          PROVE  x \in Range(w)
      <4>1. PICK j \in 1..n : sessions[j] = x /\ x # s
        BY <3>5
      <4>2. PICK m \in 1..(n - 1) : w[m] = sessions[j]
        BY <3>2, <4>1
      <4> QED BY <3>3, <4>1, <4>2 DEF Range
    <3> QED BY <3>4, <3>6
  <2> QED BY <2>3, <2>5, <2>6, <2>7 DEF Present
<1> QED BY <1>1, <1>2

LEMMA AppendIsAddition ==
  ASSUME NEW s \in Session, sessions \in Seq(Session), Distinct(sessions), s \notin Present
  PROVE  /\ Append(sessions, s) \in Seq(Session)
         /\ Distinct(Append(sessions, s))
         /\ Range(Append(sessions, s)) = Present \cup {s}
<1> DEFINE n == Len(sessions)
           q == Append(sessions, s)
<1>1. /\ n \in Nat /\ DOMAIN sessions = 1..n
      /\ q \in Seq(Session) /\ DOMAIN q = 1..(n + 1)
      /\ \A j \in 1..n : q[j] = sessions[j]
      /\ q[n + 1] = s
  OBVIOUS
<1> HIDE DEF n, q
<1>2. \A j \in 1..n : sessions[j] # s
  BY <1>1 DEF Present, Range
<1>3. Distinct(q)
  BY <1>1, <1>2 DEF Distinct
<1>4. \A x \in Range(q) : x \in Present \cup {s}
  BY <1>1 DEF Present, Range
<1>5. \A x \in Present : x \in Range(q)
  <2>1. \A j \in 1..n : j \in 1..(n + 1)
    BY <1>1
  <2> QED BY <1>1, <2>1 DEF Present, Range
<1>6. s \in Range(q)
  <2>1. n + 1 \in 1..(n + 1)
    BY <1>1
  <2> QED BY <1>1, <2>1 DEF Range
<1> QED BY <1>1, <1>3, <1>4, <1>5, <1>6 DEF q

\* A policy chooses among the sessions the pool has.
LEMMA CandidatesArePresent ==
  ASSUME policy \in Policies, sessions \in Seq(Session), sessions # <<>>, rrIndex \in Nat
  PROVE  Candidates \subseteq Present
<1>1. LeastLoaded \subseteq Present
  BY DEF LeastLoaded, Present, Range
<1>2. (rrIndex % Len(sessions)) + 1 \in DOMAIN sessions
  <2>1. Len(sessions) \in Nat \ {0} /\ DOMAIN sessions = 1..Len(sessions)
    OBVIOUS
  <2>2. rrIndex % Len(sessions) \in 0..(Len(sessions) - 1)
    BY <2>1
  <2> QED BY <2>1, <2>2
<1>3. {sessions[(rrIndex % Len(sessions)) + 1]} \subseteq Present
  BY <1>2 DEF Present, Range
<1> QED BY <1>1, <1>3 DEF Candidates, Policies

\* Binding a free stream keeps the shape of the pool and its counters right.
LEMMA BindKeepsCounts ==
  ASSUME PoolInv, NEW k \in Stream \ DOMAIN binding, NEW s \in Present, Bind(k, s),
         UNCHANGED sessions
  PROVE  /\ DOMAIN count' = Present'
         /\ \A t \in Present' : count'[t] \in Nat
         /\ DOMAIN binding' \subseteq Stream
         /\ IsFiniteSet(DOMAIN binding')
         /\ BoundToPresent'
         /\ CountsMatchBindings'
<1> USE DEF PoolInv, PoolTypeOK
<1>1. DOMAIN binding' = DOMAIN binding \cup {k} /\ Present' = Present /\ DOMAIN count' = DOMAIN count
  BY DEF Bind, Present, Range
<1>2. IsFiniteSet(DOMAIN binding')
  BY <1>1, FS_AddElement
<1>3. Bound(s)' = Bound(s) \cup {k} /\ k \notin Bound(s)
  BY <1>1 DEF Bind, Bound
<1>4. \A t : t # s => Bound(t)' = Bound(t)
  BY <1>1 DEF Bind, Bound
<1>5. IsFiniteSet(Bound(s)) /\ Cardinality(Bound(s)) \in Nat
  BY FS_Subset, FS_CardinalityType DEF Bound
<1>6. Cardinality(Bound(s)') = Cardinality(Bound(s)) + 1
  BY <1>3, <1>5, FS_AddElement
<1>7. count'[s] = count[s] + 1 /\ \A t \in Present : t # s => count'[t] = count[t]
  BY DEF Bind
<1>8. CountsMatchBindings' /\ \A t \in Present' : count'[t] \in Nat
  BY <1>1, <1>4, <1>6, <1>7 DEF CountsMatchBindings
<1>9. BoundToPresent'
  BY <1>1 DEF BoundToPresent, Bind
<1> QED BY <1>1, <1>2, <1>8, <1>9

-----------------------------------------------------------------------------

LEMMA InitEstablishes == PoolInit => PoolInv
<1> SUFFICES ASSUME PoolInit PROVE PoolInv
  OBVIOUS
<1> USE DEF PoolInit, NoStreams
<1>1. Present = {} /\ sessions \in Seq(Session) /\ DOMAIN sessions = {}
  BY DEF Present, Range
<1>2. DOMAIN count = {} /\ DOMAIN binding = {}
  OBVIOUS
<1>3. IsFiniteSet(DOMAIN binding)
  BY <1>2, FS_EmptySet
<1>4. PoolTypeOK
  BY <1>1, <1>2, <1>3 DEF PoolTypeOK
<1> QED BY <1>1, <1>2, <1>4 DEF PoolInv, BoundToPresent, CountsMatchBindings

LEMMA AddSessionPreserves ==
  ASSUME PoolInv, NEW s \in Session, AddSession(s)
  PROVE  PoolInv'
<1> USE DEF PoolInv
<1>1. CASE closed \/ s \in Present
  BY <1>1 DEF AddSession, poolVars, PoolTypeOK, BoundToPresent, CountsMatchBindings,
              Present, Bound
<1>2. CASE ~closed /\ s \notin Present
  <2>1. /\ sessions' = Append(sessions, s)
        /\ count' = [t \in DOMAIN count \cup {s} |-> Load(t)]
        /\ UNCHANGED <<policy, binding, rrIndex, closed>>
    BY <1>2 DEF AddSession
  <2>2. /\ sessions' \in Seq(Session)
        /\ Distinct(sessions')
        /\ Present' = Present \cup {s}
    BY <1>2, <2>1, AppendIsAddition DEF PoolTypeOK, Distinct, Present
  <2>3. DOMAIN count' = Present' /\ count'[s] = 0 /\ \A t \in Present : count'[t] = count[t]
    BY <1>2, <2>1, <2>2 DEF Load, PoolTypeOK
  <2>4. PoolTypeOK'
    BY <1>2, <2>1, <2>2, <2>3 DEF PoolTypeOK, Distinct
  <2>5. BoundToPresent'
    BY <2>1, <2>2 DEF BoundToPresent
  <2>6. \A t : Bound(t)' = Bound(t)
    BY <2>1 DEF Bound
  <2>7. Bound(s) = {}
    BY <1>2 DEF Bound, BoundToPresent
  <2>8. CountsMatchBindings'
    BY <2>2, <2>3, <2>6, <2>7, FS_EmptySet DEF CountsMatchBindings
  <2> QED BY <2>4, <2>5, <2>8
<1> QED BY <1>1, <1>2

LEMMA RemoveSessionPreserves ==
  ASSUME PoolInv, NEW s \in Session, RemoveSession(s)
  PROVE  PoolInv'
<1> USE DEF PoolInv
<1>1. /\ sessions' \in Seq(Session)
      /\ Distinct(sessions')
      /\ Present' = Present \ {s}
  BY WithoutIsRemoval DEF RemoveSession, PoolTypeOK, Distinct, Present
<1>2. DOMAIN count' = Present' /\ \A t \in Present' : count'[t] = count[t]
  BY <1>1 DEF RemoveSession, Restrict, PoolTypeOK
<1>3. DOMAIN binding' = DOMAIN binding \ Bound(s) /\ \A k \in DOMAIN binding' : binding'[k] = binding[k]
  BY DEF RemoveSession, Restrict
<1>4. closed => sessions' = <<>>
  <2>1. closed => sessions' = sessions
    BY DEF RemoveSession, Without, PoolTypeOK
  <2> QED BY <2>1 DEF PoolTypeOK
<1>5. IsFiniteSet(DOMAIN binding')
  BY <1>3, FS_Subset DEF PoolTypeOK
<1>6. PoolTypeOK'
  BY <1>1, <1>2, <1>3, <1>4, <1>5 DEF PoolTypeOK, Distinct, RemoveSession
<1>7. BoundToPresent'
  BY <1>1, <1>3 DEF BoundToPresent, Bound
<1>8. \A t : t # s => Bound(t)' = Bound(t)
  BY <1>3 DEF Bound
<1>9. CountsMatchBindings'
  BY <1>1, <1>2, <1>8 DEF CountsMatchBindings
<1> QED BY <1>6, <1>7, <1>9

LEMMA BindStreamPreserves ==
  ASSUME PoolInv, NEW k \in Stream, NEW s \in Session, BindStream(k, s)
  PROVE  PoolInv'
<1>1. CASE closed \/ s \notin DOMAIN count \/ k \in DOMAIN binding
  BY <1>1 DEF BindStream, poolVars, PoolInv, PoolTypeOK, BoundToPresent,
              CountsMatchBindings, Present, Bound
<1>2. CASE ~(closed \/ s \notin DOMAIN count \/ k \in DOMAIN binding)
  <2>1. Bind(k, s) /\ UNCHANGED <<policy, sessions, rrIndex, closed>>
    BY <1>2 DEF BindStream
  <2>2. s \in Present /\ k \in Stream \ DOMAIN binding
    BY <1>2 DEF PoolInv, PoolTypeOK
  <2> QED BY <2>1, <2>2, BindKeepsCounts DEF PoolInv, PoolTypeOK
<1> QED BY <1>1, <1>2

LEMMA SelectSessionPreserves ==
  ASSUME PoolInv, NEW k \in Stream, SelectSession(k)
  PROVE  PoolInv'
<1>1. CASE k \in DOMAIN binding \/ sessions = <<>>
  BY <1>1 DEF SelectSession, poolVars, PoolInv, PoolTypeOK, BoundToPresent,
              CountsMatchBindings, Present, Bound
<1>2. CASE ~(k \in DOMAIN binding \/ sessions = <<>>)
  <2>1. PICK s \in Candidates : Bind(k, s)
    BY <1>2 DEF SelectSession
  <2>2. UNCHANGED <<policy, sessions, closed>> /\ rrIndex' \in Nat
    BY <1>2 DEF SelectSession, PoolInv, PoolTypeOK
  <2>3. s \in Present /\ k \in Stream \ DOMAIN binding
    BY <1>2, CandidatesArePresent DEF PoolInv, PoolTypeOK
  <2> QED BY <2>1, <2>2, <2>3, BindKeepsCounts DEF PoolInv, PoolTypeOK
<1> QED BY <1>1, <1>2

LEMMA ReleaseStreamPreserves ==
  ASSUME PoolInv, NEW k \in Stream, ReleaseStream(k)
  PROVE  PoolInv'
<1>1. CASE k \notin DOMAIN binding
  BY <1>1 DEF ReleaseStream, poolVars, PoolInv, PoolTypeOK, BoundToPresent,
              CountsMatchBindings, Present, Bound
<1>2. CASE k \in DOMAIN binding
  <2> USE DEF PoolInv
  <2>0. PICK s : s = binding[k]
    OBVIOUS
  <2>1. /\ UNCHANGED <<policy, sessions, rrIndex, closed>>
        /\ DOMAIN binding' = DOMAIN binding \ {k}
        /\ \A x \in DOMAIN binding' : binding'[x] = binding[x]
    BY <1>2 DEF ReleaseStream, Restrict
  <2>2. s \in Present /\ s \in DOMAIN count /\ Present' = Present
    BY <1>2, <2>0, <2>1 DEF BoundToPresent, PoolTypeOK, Present
  <2>3. /\ DOMAIN count' = Present'
        /\ count'[s] = count[s] - 1
        /\ \A t \in Present : t # s => count'[t] = count[t]
    BY <1>2, <2>0, <2>2 DEF ReleaseStream, PoolTypeOK
  <2>4. Bound(s)' = Bound(s) \ {k} /\ k \in Bound(s) /\ \A t : t # s => Bound(t)' = Bound(t)
    BY <1>2, <2>0, <2>1 DEF Bound
  <2>5. IsFiniteSet(DOMAIN binding') /\ IsFiniteSet(Bound(s)) /\ IsFiniteSet(Bound(s)')
    BY <2>1, <2>4, FS_Subset DEF PoolTypeOK, Bound
  <2>6. Cardinality(Bound(s)') = Cardinality(Bound(s)) - 1
    BY <2>4, <2>5, FS_RemoveElement
  <2>7. Cardinality(Bound(s)') \in Nat
    BY <2>5, FS_CardinalityType
  <2>8. CountsMatchBindings' /\ \A t \in Present' : count'[t] \in Nat
    BY <2>2, <2>3, <2>4, <2>6, <2>7 DEF CountsMatchBindings, PoolTypeOK
  <2>9. PoolTypeOK'
    BY <2>1, <2>3, <2>5, <2>8 DEF PoolTypeOK
  <2> QED BY <2>1, <2>2, <2>8, <2>9 DEF BoundToPresent
<1> QED BY <1>1, <1>2

LEMMA ClosePreserves ==
  ASSUME PoolInv, Close
  PROVE  PoolInv'
<1>1. sessions' = <<>> /\ Present' = {} /\ DOMAIN count' = {} /\ DOMAIN binding' = {}
  BY DEF Close, NoStreams, Present, Range
<1>2. IsFiniteSet(DOMAIN binding')
  BY <1>1, FS_EmptySet
<1>3. PoolTypeOK'
  BY <1>1, <1>2 DEF Close, PoolInv, PoolTypeOK
<1> QED BY <1>1, <1>3 DEF PoolInv, BoundToPresent, CountsMatchBindings

LEMMA StepPreserves == PoolInv /\ [PoolNext]_poolVars => PoolInv'
<1> SUFFICES ASSUME PoolInv, [PoolNext]_poolVars PROVE PoolInv'
  OBVIOUS
<1>1. CASE PoolNext
  BY <1>1, AddSessionPreserves, RemoveSessionPreserves, BindStreamPreserves,
     SelectSessionPreserves, ReleaseStreamPreserves, ClosePreserves DEF PoolNext
<1>2. CASE UNCHANGED poolVars
  BY <1>2 DEF poolVars, PoolInv, PoolTypeOK, BoundToPresent, CountsMatchBindings,
              Present, Bound
<1> QED BY <1>1, <1>2

(***************************************************************************)
(* In every reachable state of a session pool, for any sets of sessions    *)
(* and streams: its type invariant holds, every stream is bound to a       *)
(* session the pool has, and every counter equals the number of streams    *)
(* bound to its session.                                                   *)
(***************************************************************************)
THEOREM PoolCorrect == PoolSpec => [](PoolTypeOK /\ BoundToPresent /\ CountsMatchBindings)
<1>1. PoolInv => PoolTypeOK /\ BoundToPresent /\ CountsMatchBindings
  BY DEF PoolInv
<1> QED BY <1>1, InitEstablishes, StepPreserves, PTL DEF PoolSpec

-----------------------------------------------------------------------------
(* The tunnel's use of the pool *)

\* Every step of the tunnel is a call of the pool, or leaves it alone.
LEMMA PoolStep == [Next]_vars => [PoolNext]_poolVars
<1> SUFFICES ASSUME [Next]_vars PROVE [PoolNext]_poolVars
  OBVIOUS
<1>1. CASE UNCHANGED vars
  BY <1>1 DEF vars
<1>2. ASSUME NEW s \in Session, SessionStep(s)
      PROVE  [PoolNext]_poolVars
  <2>1. ASSUME NEW k \in Stream, CloseStream(s, k) \/ ReceiveConnect(k, s)
        PROVE  [PoolNext]_poolVars
    BY <2>1 DEF CloseStream, ReceiveConnect, PoolNext
  <2> QED BY <1>2, <2>1 DEF SessionStep, ChannelOpens, ChannelFails, Activate,
             CloseRuntime, FinishClose, PoolNext
<1>3. ASSUME NEW k \in Stream, StreamStep(k)
      PROVE  [PoolNext]_poolVars
  BY <1>3 DEF StreamStep, StopStream, Accept, RouteConnect, SendConnect, HandleConnect,
              RejectConnect, DialSucceeds, DialFails, SendFrame, Finish, Release, PoolNext
<1>4. CASE Stop \/ ClosePool
  BY <1>4 DEF Stop, ClosePool, PoolNext
<1> QED BY <1>1, <1>2, <1>3, <1>4 DEF Next

(***************************************************************************)
(* The tunnel implements the pool's specification: whatever sessions and   *)
(* streams do, the pool only ever sees the calls of its interface.         *)
(***************************************************************************)
THEOREM ImplementsPool == Spec => PoolSpec
<1>1. Init => PoolInit
  BY DEF Init
<1> QED BY <1>1, PoolStep, PTL DEF Spec, PoolSpec

-----------------------------------------------------------------------------
(* What the calls of the pool do to Present and binding *)

LEMMA AddSessionEffect ==
  ASSUME PoolInv, NEW s \in Session, AddSession(s)
  PROVE  /\ closed' = closed
         /\ Present' \subseteq Present \cup {s}
         /\ binding' = binding
<1>1. CASE closed \/ s \in Present
  BY <1>1 DEF AddSession, poolVars, Present
<1>2. CASE ~(closed \/ s \in Present)
  BY <1>2, AppendIsAddition DEF AddSession, PoolInv, PoolTypeOK, Distinct, Present
<1> QED BY <1>1, <1>2

LEMMA RemoveSessionEffect ==
  ASSUME PoolInv, NEW s \in Session, RemoveSession(s)
  PROVE  /\ closed' = closed
         /\ Present' = Present \ {s}
         /\ DOMAIN binding' = DOMAIN binding \ Bound(s)
         /\ \A k \in DOMAIN binding' : binding'[k] = binding[k]
  BY WithoutIsRemoval DEF RemoveSession, PoolInv, PoolTypeOK, Distinct, Present, Restrict

LEMMA BindStreamEffect ==
  ASSUME NEW k \in Stream, NEW s \in Session, BindStream(k, s)
  PROVE  /\ closed' = closed
         /\ Present' = Present
         /\ DOMAIN binding \subseteq DOMAIN binding'
         /\ DOMAIN binding' \subseteq DOMAIN binding \cup {k}
         /\ \A j \in DOMAIN binding : binding'[j] = binding[j]
         /\ k \notin DOMAIN binding /\ k \in DOMAIN binding' => binding'[k] = s
  BY DEF BindStream, Bind, poolVars, Present

LEMMA SelectSessionEffect ==
  ASSUME PoolInv, NEW k \in Stream, SelectSession(k)
  PROVE  /\ closed' = closed
         /\ Present' = Present
         /\ DOMAIN binding \subseteq DOMAIN binding'
         /\ DOMAIN binding' \subseteq DOMAIN binding \cup {k}
         /\ \A j \in DOMAIN binding : binding'[j] = binding[j]
         /\ k \in DOMAIN binding' => binding'[k] \in Present
<1>1. CASE k \in DOMAIN binding \/ sessions = <<>>
  BY <1>1 DEF SelectSession, poolVars, Present, PoolInv, BoundToPresent
<1>2. CASE ~(k \in DOMAIN binding \/ sessions = <<>>)
  <2>1. Candidates \subseteq Present
    BY <1>2, CandidatesArePresent DEF PoolInv, PoolTypeOK
  <2>2. PICK s \in Candidates : Bind(k, s) /\ UNCHANGED <<sessions, closed>>
    BY <1>2 DEF SelectSession
  <2> QED BY <1>2, <2>1, <2>2 DEF Bind, Present
<1> QED BY <1>1, <1>2

LEMMA ReleaseStreamEffect ==
  ASSUME NEW k \in Stream, ReleaseStream(k)
  PROVE  /\ closed' = closed
         /\ Present' = Present
         /\ DOMAIN binding' = DOMAIN binding \ {k}
         /\ \A j \in DOMAIN binding' : binding'[j] = binding[j]
  BY DEF ReleaseStream, Restrict, poolVars, Present

LEMMA PresentInSession == PoolInv => Present \subseteq Session /\ DOMAIN binding \subseteq Stream
  BY DEF PoolInv, PoolTypeOK, Present, Range

-----------------------------------------------------------------------------
(* IInv is inductive.  PoolInv' follows from PoolStep once and for all. *)

LEMMA InitInv == Init => IInv
<1> SUFFICES ASSUME Init PROVE IInv
  OBVIOUS
<1>1. PoolInv
  BY InitEstablishes DEF Init
<1>2. DOMAIN binding = {} /\ Present = {}
  BY DEF Init, PoolInit, NoStreams, Present, Range
<1>3. TypeOK
  BY <1>1 DEF Init, PoolInv, TypeOK, Remote
<1>4. OnlyOpenSessions /\ OneSessionPerStream /\ NoLeakedBinding /\ LocalStreamHasTransport
  BY <1>2 DEF Init, OnlyOpenSessions, OneSessionPerStream, NoLeakedBinding, LocalStreamHasTransport
<1>5. BoundAsConnected /\ TableFollowsPhase /\ PendingFollowsRuntime /\ ShutdownOrder
  BY <1>2 DEF Init, BoundAsConnected, TableFollowsPhase, PendingFollowsRuntime, ShutdownOrder
<1> QED BY <1>1, <1>3, <1>4, <1>5 DEF IInv

\* Steps that leave the pool and the streams alone.
LEMMA ChannelStep ==
  ASSUME IInv, NEW s \in Session, ChannelOpens(s) \/ ChannelFails(s)
  PROVE  IInv'
<1>1. UNCHANGED <<poolVars, runtime, pending, stage, sweep, streamVars>>
      /\ channel' \in [Session -> {"opening", "up", "down"}]
  BY DEF ChannelOpens, ChannelFails, IInv, TypeOK
<1>2. PoolInv'
  BY <1>1, StepPreserves DEF IInv
<1>3. Present' = Present /\ binding' = binding
  BY <1>1 DEF Present, poolVars
<1>4. TypeOK'
  BY <1>1, <1>2 DEF IInv, TypeOK, PoolInv, streamVars
<1>5. OnlyOpenSessions' /\ OneSessionPerStream' /\ NoLeakedBinding' /\ LocalStreamHasTransport'
  BY <1>1, <1>3 DEF streamVars, IInv, OnlyOpenSessions, OneSessionPerStream,
     NoLeakedBinding, LocalStreamHasTransport
<1>6. BoundAsConnected' /\ TableFollowsPhase' /\ PendingFollowsRuntime' /\ ShutdownOrder'
  BY <1>1, <1>3 DEF streamVars, IInv, BoundAsConnected, TableFollowsPhase,
     PendingFollowsRuntime, ShutdownOrder, poolVars
<1> QED BY <1>2, <1>4, <1>5, <1>6 DEF IInv

LEMMA ActivateStep ==
  ASSUME IInv, NEW s \in Session, Activate(s)
  PROVE  IInv'
<1>1. UNCHANGED <<sessionVars, streamVars>> /\ runtime[s] = "open" /\ AddSession(s)
  BY DEF Activate
<1>2. PoolInv'
  BY <1>1, AddSessionPreserves DEF IInv
<1>3. closed' = closed /\ Present' \subseteq Present \cup {s} /\ binding' = binding
  BY <1>1, AddSessionEffect DEF IInv
<1>4. TypeOK'
  BY <1>1, <1>2 DEF IInv, TypeOK, PoolInv, streamVars, sessionVars
<1>5. OnlyOpenSessions' /\ OneSessionPerStream' /\ NoLeakedBinding' /\ LocalStreamHasTransport'
  BY <1>1, <1>3 DEF streamVars, sessionVars, IInv, OnlyOpenSessions, OneSessionPerStream,
     NoLeakedBinding, LocalStreamHasTransport
<1>6. BoundAsConnected' /\ TableFollowsPhase' /\ PendingFollowsRuntime' /\ ShutdownOrder'
  BY <1>1, <1>3 DEF streamVars, sessionVars, IInv, BoundAsConnected, TableFollowsPhase,
     PendingFollowsRuntime, ShutdownOrder, poolVars
<1> QED BY <1>2, <1>4, <1>5, <1>6 DEF IInv

\* The streams bound to the closed session are exactly those left pending.
LEMMA CloseRuntimeStep ==
  ASSUME IInv, NEW s \in Session, CloseRuntime(s)
  PROVE  IInv'
<1>1. /\ runtime[s] = "open" /\ RemoveSession(s)
      /\ runtime' = [runtime EXCEPT ![s] = "closing"]
      /\ pending' = [pending EXCEPT ![s] = Bound(s)]
      /\ UNCHANGED <<channel, stage, sweep, streamVars>>
  BY DEF CloseRuntime
<1>2. PoolInv'
  BY <1>1, RemoveSessionPreserves DEF IInv
<1>3. /\ closed' = closed
      /\ Present' = Present \ {s}
      /\ DOMAIN binding' = DOMAIN binding \ Bound(s)
      /\ \A k \in DOMAIN binding' : binding'[k] = binding[k]
  BY <1>1, RemoveSessionEffect DEF IInv
<1>4. Bound(s) \subseteq DOMAIN binding /\ DOMAIN binding \subseteq Stream
  BY PresentInSession DEF Bound, IInv
<1>5. TypeOK'
  BY <1>1, <1>2, <1>4 DEF IInv, TypeOK, PoolInv, streamVars
<1>6. OnlyOpenSessions' /\ OneSessionPerStream' /\ NoLeakedBinding'
  BY <1>1, <1>3, PresentInSession DEF streamVars, IInv, TypeOK, OnlyOpenSessions,
     OneSessionPerStream, NoLeakedBinding
<1>7. LocalStreamHasTransport'
  <2> SUFFICES ASSUME NEW k \in Local \cap table, phase[k] \in {"routed", "open"},
                      k \notin DOMAIN binding', ~(stage = "stopped" /\ k \in late)
               PROVE  \E t \in Session : k \in pending'[t]
    BY <1>1 DEF LocalStreamHasTransport, streamVars
  <2>1. CASE k \in Bound(s)
    BY <1>1, <2>1 DEF IInv, TypeOK
  <2>2. CASE k \notin Bound(s)
    <3>1. PICK t \in Session : k \in pending[t]
      BY <1>3, <2>2 DEF IInv, LocalStreamHasTransport
    <3>2. t # s
      BY <1>1, <3>1 DEF IInv, PendingFollowsRuntime
    <3> QED BY <1>1, <3>1, <3>2 DEF IInv, TypeOK
  <2> QED BY <2>1, <2>2
<1>8. BoundAsConnected' /\ TableFollowsPhase' /\ ShutdownOrder'
  BY <1>1, <1>3 DEF streamVars, IInv, BoundAsConnected, TableFollowsPhase, ShutdownOrder, poolVars, TypeOK
<1>9. PendingFollowsRuntime'
  BY <1>1, <1>4 DEF streamVars, IInv, TypeOK, BoundAsConnected, PendingFollowsRuntime
<1> QED BY <1>2, <1>5, <1>6, <1>7, <1>8, <1>9 DEF IInv

LEMMA CloseStreamStep ==
  ASSUME IInv, NEW s \in Session, NEW k \in Stream, CloseStream(s, k)
  PROVE  IInv'
<1>1. /\ k \in pending[s]
      /\ pending' = [pending EXCEPT ![s] = @ \ {k}]
      /\ table' = table \ {k}
      /\ releasing' = IF k \in table THEN releasing \cup {k} ELSE releasing
      /\ UNCHANGED <<runtime, channel, stage, sweep, phase, via, used, answered, late>>
  BY DEF CloseStream, Remove
<1>2. UNCHANGED poolVars /\ Present' = Present /\ binding' = binding
  BY DEF CloseStream, Remove, poolVars, Present
<1>3. PoolInv'
  BY <1>2, StepPreserves DEF IInv
<1>4. TypeOK'
  BY <1>1, <1>3 DEF IInv, TypeOK, PoolInv, streamVars, sessionVars, Remote
<1>5. OnlyOpenSessions' /\ OneSessionPerStream' /\ NoLeakedBinding' /\ LocalStreamHasTransport'
  BY <1>1, <1>2 DEF IInv, TypeOK, streamVars, sessionVars, OnlyOpenSessions, OneSessionPerStream,
     NoLeakedBinding, LocalStreamHasTransport, PendingFollowsRuntime, BoundAsConnected, TableFollowsPhase
<1>6. BoundAsConnected' /\ TableFollowsPhase' /\ PendingFollowsRuntime' /\ ShutdownOrder'
  BY <1>1, <1>2 DEF IInv, TypeOK, streamVars, sessionVars, BoundAsConnected, TableFollowsPhase,
     PendingFollowsRuntime, ShutdownOrder, poolVars
<1> QED BY <1>3, <1>4, <1>5, <1>6 DEF IInv

LEMMA FinishCloseStep ==
  ASSUME IInv, NEW s \in Session, FinishClose(s)
  PROVE  IInv'
<1>1. /\ runtime[s] = "closing" /\ pending[s] = {}
      /\ runtime' = [runtime EXCEPT ![s] = "closed"]
      /\ channel' = [channel EXCEPT ![s] = "down"]
      /\ UNCHANGED <<pending, stage, sweep, streamVars>>
  BY DEF FinishClose
<1>2. UNCHANGED poolVars /\ Present' = Present /\ binding' = binding
  BY DEF FinishClose, poolVars, Present
<1>3. PoolInv'
  BY <1>2, StepPreserves DEF IInv
<1>4. TypeOK'
  BY <1>1, <1>3 DEF IInv, TypeOK, PoolInv, streamVars, sessionVars, Remote
<1>5. OnlyOpenSessions' /\ OneSessionPerStream' /\ NoLeakedBinding' /\ LocalStreamHasTransport'
  BY <1>1, <1>2 DEF IInv, TypeOK, streamVars, sessionVars, OnlyOpenSessions, OneSessionPerStream,
     NoLeakedBinding, LocalStreamHasTransport, BoundAsConnected, TableFollowsPhase
<1>6. BoundAsConnected' /\ TableFollowsPhase' /\ PendingFollowsRuntime' /\ ShutdownOrder'
  BY <1>1, <1>2 DEF IInv, TypeOK, streamVars, sessionVars, BoundAsConnected, TableFollowsPhase,
     PendingFollowsRuntime, ShutdownOrder, poolVars
<1> QED BY <1>3, <1>4, <1>5, <1>6 DEF IInv

LEMMA StopStep ==
  ASSUME IInv, Stop
  PROVE  IInv'
<1>1. /\ stage = "run"
      /\ stage' = "stopping" /\ sweep' = table
      /\ UNCHANGED <<runtime, channel, pending, streamVars>>
  BY DEF Stop
<1>2. UNCHANGED poolVars /\ Present' = Present /\ binding' = binding
  BY DEF Stop, poolVars, Present
<1>3. PoolInv'
  BY <1>2, StepPreserves DEF IInv
<1>4. TypeOK'
  BY <1>1, <1>3 DEF IInv, TypeOK, PoolInv, streamVars, sessionVars, Remote
<1>5. OnlyOpenSessions' /\ OneSessionPerStream' /\ NoLeakedBinding' /\ LocalStreamHasTransport'
  BY <1>1, <1>2 DEF IInv, TypeOK, streamVars, sessionVars, OnlyOpenSessions, OneSessionPerStream,
     NoLeakedBinding, LocalStreamHasTransport, BoundAsConnected, TableFollowsPhase
<1>6. BoundAsConnected' /\ TableFollowsPhase' /\ PendingFollowsRuntime' /\ ShutdownOrder'
  BY <1>1, <1>2 DEF IInv, TypeOK, streamVars, sessionVars, BoundAsConnected, TableFollowsPhase,
     PendingFollowsRuntime, ShutdownOrder, poolVars
<1> QED BY <1>3, <1>4, <1>5, <1>6 DEF IInv

LEMMA StopStreamStep ==
  ASSUME IInv, NEW k \in Stream, StopStream(k)
  PROVE  IInv'
<1>1. /\ stage = "stopping" /\ sweep' = sweep \ {k}
      /\ table' = table \ {k}
      /\ releasing' = IF k \in table THEN releasing \cup {k} ELSE releasing
      /\ UNCHANGED <<runtime, channel, pending, stage, phase, via, used, answered, late>>
  BY DEF StopStream, Remove, IInv, ShutdownOrder
<1>2. UNCHANGED poolVars /\ Present' = Present /\ binding' = binding
  BY DEF StopStream, Remove, poolVars, Present
<1>3. PoolInv'
  BY <1>2, StepPreserves DEF IInv
<1>4. TypeOK'
  BY <1>1, <1>3 DEF IInv, TypeOK, PoolInv, streamVars, sessionVars, Remote
<1>5. OnlyOpenSessions' /\ OneSessionPerStream' /\ NoLeakedBinding' /\ LocalStreamHasTransport'
  BY <1>1, <1>2 DEF IInv, TypeOK, streamVars, sessionVars, OnlyOpenSessions, OneSessionPerStream,
     NoLeakedBinding, LocalStreamHasTransport, BoundAsConnected, TableFollowsPhase
<1>6. BoundAsConnected' /\ TableFollowsPhase' /\ PendingFollowsRuntime' /\ ShutdownOrder'
  BY <1>1, <1>2 DEF IInv, TypeOK, streamVars, sessionVars, BoundAsConnected, TableFollowsPhase,
     PendingFollowsRuntime, ShutdownOrder, poolVars
<1> QED BY <1>3, <1>4, <1>5, <1>6 DEF IInv

LEMMA AcceptStep ==
  ASSUME IInv, NEW k \in Stream, Accept(k)
  PROVE  IInv'
<1>1. /\ k \in Local /\ phase[k] = "none"
      /\ phase' = [phase EXCEPT ![k] = "accepted"]
      /\ table' = table \cup {k}
      /\ late' = IF stage = "run" THEN late ELSE late \cup {k}
      /\ UNCHANGED <<sessionVars, via, releasing, used, answered>>
  BY DEF Accept, Moves
<1>2. UNCHANGED poolVars /\ Present' = Present /\ binding' = binding
  BY DEF Accept, Moves, poolVars, Present
<1>3. PoolInv'
  BY <1>2, StepPreserves DEF IInv
<1>4. TypeOK'
  BY <1>1, <1>3 DEF IInv, TypeOK, PoolInv, streamVars, sessionVars, Remote
<1>5. OnlyOpenSessions' /\ OneSessionPerStream' /\ NoLeakedBinding' /\ LocalStreamHasTransport'
  BY <1>1, <1>2 DEF IInv, TypeOK, streamVars, sessionVars, OnlyOpenSessions, OneSessionPerStream,
     NoLeakedBinding, LocalStreamHasTransport, BoundAsConnected, TableFollowsPhase
<1>6. BoundAsConnected' /\ TableFollowsPhase' /\ PendingFollowsRuntime' /\ ShutdownOrder'
  BY <1>1, <1>2 DEF IInv, TypeOK, streamVars, sessionVars, BoundAsConnected, TableFollowsPhase,
     PendingFollowsRuntime, ShutdownOrder, poolVars
<1> QED BY <1>3, <1>4, <1>5, <1>6 DEF IInv

LEMMA SendConnectStep ==
  ASSUME IInv, NEW k \in Stream, SendConnect(k)
  PROVE  IInv'
<1>1. /\ phase[k] = "routed"
      /\ \/ phase' = [phase EXCEPT ![k] = "open"] /\ UNCHANGED <<table, releasing>>
         \/ /\ phase' = [phase EXCEPT ![k] = "done"]
            /\ table' = table \ {k}
            /\ releasing' = IF k \in table THEN releasing \cup {k} ELSE releasing
      /\ UNCHANGED <<sessionVars, via, used, answered, late>>
  BY DEF SendConnect, Moves, Remove
<1>2. UNCHANGED poolVars /\ Present' = Present /\ binding' = binding
  BY DEF SendConnect, Moves, Remove, poolVars, Present
<1>3. PoolInv'
  BY <1>2, StepPreserves DEF IInv
<1>4. TypeOK'
  BY <1>1, <1>3 DEF IInv, TypeOK, PoolInv, streamVars, sessionVars, Remote
<1>5. OnlyOpenSessions' /\ OneSessionPerStream'
  BY <1>1, <1>2 DEF IInv, sessionVars, OnlyOpenSessions, OneSessionPerStream
<1>6. NoLeakedBinding'
  <2> SUFFICES ASSUME NEW j \in DOMAIN binding
               PROVE  \/ j \in table' \cup releasing' \/ phase'[j] = "received"
                      \/ stage = "stopping" /\ j \in Local
    BY <1>1, <1>2 DEF NoLeakedBinding, sessionVars
  <2>1. j \in Stream
    BY PresentInSession DEF IInv
  <2>2. j \in table \cup releasing => j \in table' \cup releasing'
    BY <1>1
  <2>3. phase[j] = "received" => phase'[j] = "received"
    BY <1>1, <2>1 DEF IInv, TypeOK
  <2> QED BY <2>2, <2>3 DEF IInv, NoLeakedBinding
<1>7. LocalStreamHasTransport'
  <2> SUFFICES ASSUME NEW j \in Local \cap table', phase'[j] \in {"routed", "open"}
               PROVE  \/ j \in DOMAIN binding \/ \E s \in Session : j \in pending[s]
                      \/ stage = "stopped" /\ j \in late
    BY <1>1, <1>2 DEF LocalStreamHasTransport, sessionVars
  <2>1. j \in table /\ phase[j] \in {"routed", "open"} /\ j \in Stream
    BY <1>1 DEF IInv, TypeOK
  <2> QED BY <2>1 DEF IInv, LocalStreamHasTransport
<1>8. BoundAsConnected' /\ TableFollowsPhase' /\ PendingFollowsRuntime' /\ ShutdownOrder'
  BY <1>1, <1>2 DEF IInv, TypeOK, streamVars, sessionVars, BoundAsConnected, TableFollowsPhase,
     PendingFollowsRuntime, ShutdownOrder, poolVars
<1> QED BY <1>3, <1>4, <1>5, <1>7, <1>8, <1>6 DEF IInv

LEMMA HandleConnectStep ==
  ASSUME IInv, NEW k \in Stream, HandleConnect(k)
  PROVE  IInv'
<1>1. /\ phase[k] = "received"
      /\ phase' = [phase EXCEPT ![k] = "dialing"]
      /\ table' = table \cup {k}
      /\ UNCHANGED <<sessionVars, via, releasing, used, answered, late>>
  BY DEF HandleConnect, Moves
<1>2. UNCHANGED poolVars /\ Present' = Present /\ binding' = binding
  BY DEF HandleConnect, Moves, poolVars, Present
<1>3. PoolInv'
  BY <1>2, StepPreserves DEF IInv
<1>4. TypeOK'
  BY <1>1, <1>3 DEF IInv, TypeOK, PoolInv, streamVars, sessionVars, Remote
<1>5. OnlyOpenSessions' /\ OneSessionPerStream' /\ NoLeakedBinding' /\ LocalStreamHasTransport'
  BY <1>1, <1>2 DEF IInv, TypeOK, streamVars, sessionVars, OnlyOpenSessions, OneSessionPerStream,
     NoLeakedBinding, LocalStreamHasTransport, BoundAsConnected, TableFollowsPhase
<1>6. BoundAsConnected' /\ TableFollowsPhase' /\ PendingFollowsRuntime' /\ ShutdownOrder'
  BY <1>1, <1>2 DEF IInv, TypeOK, streamVars, sessionVars, BoundAsConnected, TableFollowsPhase,
     PendingFollowsRuntime, ShutdownOrder, poolVars, Remote
<1> QED BY <1>3, <1>4, <1>5, <1>6 DEF IInv

LEMMA DialFailsStep ==
  ASSUME IInv, NEW k \in Stream, DialFails(k)
  PROVE  IInv'
<1>1. /\ phase[k] = "dialing"
      /\ phase' = [phase EXCEPT ![k] = "done"]
      /\ table' = table \ {k}
      /\ releasing' = IF k \in table THEN releasing \cup {k} ELSE releasing
      /\ UNCHANGED <<sessionVars, via, used, answered, late>>
  BY DEF DialFails, Moves, Remove
<1>2. UNCHANGED poolVars /\ Present' = Present /\ binding' = binding
  BY DEF DialFails, Moves, Remove, poolVars, Present
<1>3. PoolInv'
  BY <1>2, StepPreserves DEF IInv
<1>4. TypeOK'
  BY <1>1, <1>3 DEF IInv, TypeOK, PoolInv, streamVars, sessionVars, Remote
<1>5. OnlyOpenSessions' /\ OneSessionPerStream' /\ NoLeakedBinding' /\ LocalStreamHasTransport'
  BY <1>1, <1>2 DEF IInv, TypeOK, streamVars, sessionVars, OnlyOpenSessions, OneSessionPerStream,
     NoLeakedBinding, LocalStreamHasTransport, BoundAsConnected, TableFollowsPhase
<1>6. BoundAsConnected' /\ TableFollowsPhase' /\ PendingFollowsRuntime' /\ ShutdownOrder'
  BY <1>1, <1>2 DEF IInv, TypeOK, streamVars, sessionVars, BoundAsConnected, TableFollowsPhase,
     PendingFollowsRuntime, ShutdownOrder, poolVars
<1> QED BY <1>3, <1>4, <1>5, <1>6 DEF IInv

LEMMA FinishStep ==
  ASSUME IInv, NEW k \in Stream, Finish(k)
  PROVE  IInv'
<1>1. /\ phase[k] = "open" /\ k \in table
      /\ table' = table \ {k}
      /\ releasing' = releasing \cup {k}
      /\ UNCHANGED <<sessionVars, phase, via, used, answered, late>>
  BY DEF Finish, Remove
<1>2. UNCHANGED poolVars /\ Present' = Present /\ binding' = binding
  BY DEF Finish, Remove, poolVars, Present
<1>3. PoolInv'
  BY <1>2, StepPreserves DEF IInv
<1>4. TypeOK'
  BY <1>1, <1>3 DEF IInv, TypeOK, PoolInv, streamVars, sessionVars, Remote
<1>5. OnlyOpenSessions' /\ OneSessionPerStream' /\ NoLeakedBinding' /\ LocalStreamHasTransport'
  BY <1>1, <1>2 DEF IInv, TypeOK, streamVars, sessionVars, OnlyOpenSessions, OneSessionPerStream,
     NoLeakedBinding, LocalStreamHasTransport, BoundAsConnected, TableFollowsPhase
<1>6. BoundAsConnected' /\ TableFollowsPhase' /\ PendingFollowsRuntime' /\ ShutdownOrder'
  BY <1>1, <1>2 DEF IInv, TypeOK, streamVars, sessionVars, BoundAsConnected, TableFollowsPhase,
     PendingFollowsRuntime, ShutdownOrder, poolVars
<1> QED BY <1>3, <1>4, <1>5, <1>6 DEF IInv

\* The CONNECT of an accepted stream: it is still in the table, because only
\* Tunnel.Stop removes a stream this early; if Stop has, pool.Close either has
\* emptied the pool, so that there is no session to choose, or is to come.
LEMMA RouteConnectStep ==
  ASSUME IInv, NEW k \in Stream, RouteConnect(k)
  PROVE  IInv'
<1>1. /\ phase[k] = "accepted" /\ SelectSession(k)
      /\ UNCHANGED <<sessionVars, answered, late>>
  BY DEF RouteConnect
<1>2. PoolInv'
  BY <1>1, SelectSessionPreserves DEF IInv
<1>3. /\ closed' = closed
      /\ Present' = Present
      /\ DOMAIN binding \subseteq DOMAIN binding'
      /\ DOMAIN binding' \subseteq DOMAIN binding \cup {k}
      /\ \A j \in DOMAIN binding : binding'[j] = binding[j]
      /\ k \in DOMAIN binding' => binding'[k] \in Present
  BY <1>1, SelectSessionEffect DEF IInv
<1>4. k \notin DOMAIN binding /\ used[k] = {}
  BY <1>1 DEF IInv, BoundAsConnected
<1>5. CASE k \in DOMAIN binding'
  <2>1. /\ phase' = [phase EXCEPT ![k] = "routed"]
        /\ via' = [via EXCEPT ![k] = binding'[k]]
        /\ used' = [used EXCEPT ![k] = @ \cup {binding'[k]}]
        /\ UNCHANGED <<table, releasing>>
    BY <1>5 DEF RouteConnect, Moves
  <2>2. binding'[k] \in Session /\ runtime[binding'[k]] = "open"
    BY <1>3, <1>5, PresentInSession DEF IInv, OnlyOpenSessions
  <2>3. k \in table \/ (stage' = "stopping" /\ k \in Local)
    <3>1. stage # "stopped"
      <4>1. sessions # <<>>
        BY <1>3, <1>5 DEF Present, Range
      <4> QED BY <4>1 DEF IInv, ShutdownOrder, PoolInv, PoolTypeOK
    <3> QED BY <1>1, <3>1 DEF IInv, TypeOK, TableFollowsPhase, sessionVars
  <2>4. TypeOK'
    BY <1>1, <1>2, <2>1, <2>2 DEF IInv, TypeOK, PoolInv, sessionVars, Remote
  <2>5. OnlyOpenSessions'
    BY <1>1, <1>3 DEF IInv, OnlyOpenSessions, sessionVars
  <2>6. OneSessionPerStream'
    BY <1>4, <2>1 DEF IInv, TypeOK, OneSessionPerStream
  <2>7. NoLeakedBinding' /\ BoundAsConnected'
    BY <1>1, <1>3, <1>4, <1>5, <2>1, <2>3, PresentInSession
    DEF IInv, TypeOK, NoLeakedBinding, BoundAsConnected, sessionVars
  <2>8. LocalStreamHasTransport'
    BY <1>1, <1>3, <1>5, <2>1 DEF IInv, TypeOK, LocalStreamHasTransport, sessionVars
  <2>9. TableFollowsPhase' /\ PendingFollowsRuntime' /\ ShutdownOrder'
    BY <1>1, <1>3, <2>1 DEF IInv, TypeOK, TableFollowsPhase, PendingFollowsRuntime,
       ShutdownOrder, poolVars, sessionVars
  <2> QED BY <1>2, <2>4, <2>5, <2>6, <2>7, <2>8, <2>9 DEF IInv
<1>6. CASE k \notin DOMAIN binding'
  <2>1. /\ phase' = [phase EXCEPT ![k] = "done"]
        /\ table' = table \ {k}
        /\ releasing' = IF k \in table THEN releasing \cup {k} ELSE releasing
        /\ UNCHANGED <<via, used>>
    BY <1>6 DEF RouteConnect, Moves, Remove
  <2>2. DOMAIN binding' = DOMAIN binding
    BY <1>3, <1>6
  <2>3. TypeOK'
    BY <1>1, <1>2, <2>1 DEF IInv, TypeOK, PoolInv, sessionVars, Remote
  <2>4. OnlyOpenSessions' /\ OneSessionPerStream'
    BY <1>1, <1>3, <2>1 DEF IInv, OnlyOpenSessions, OneSessionPerStream, sessionVars
  <2>5. NoLeakedBinding' /\ BoundAsConnected'
    BY <1>1, <1>3, <2>1, <2>2, PresentInSession
    DEF IInv, TypeOK, NoLeakedBinding, BoundAsConnected, sessionVars
  <2>6. LocalStreamHasTransport'
    BY <1>1, <2>1, <2>2 DEF IInv, TypeOK, LocalStreamHasTransport, sessionVars
  <2>7. TableFollowsPhase' /\ PendingFollowsRuntime' /\ ShutdownOrder'
    BY <1>1, <1>3, <2>1 DEF IInv, TypeOK, TableFollowsPhase, PendingFollowsRuntime,
       ShutdownOrder, poolVars, sessionVars
  <2> QED BY <1>2, <2>3, <2>4, <2>5, <2>6, <2>7 DEF IInv
<1> QED BY <1>5, <1>6

LEMMA ReceiveConnectStep ==
  ASSUME IInv, NEW k \in Stream, NEW s \in Session, ReceiveConnect(k, s)
  PROVE  IInv'
<1>1. /\ k \in Remote /\ phase[k] = "none"
      /\ phase' = [phase EXCEPT ![k] = "received"]
      /\ via' = [via EXCEPT ![k] = s]
      /\ BindStream(k, s) \/ UNCHANGED poolVars
      /\ UNCHANGED <<sessionVars, table, releasing, used, answered, late>>
  BY DEF ReceiveConnect, Moves
<1>2. PoolInv'
  BY <1>1, BindStreamPreserves, StepPreserves DEF IInv
<1>3. /\ closed' = closed
      /\ Present' = Present
      /\ DOMAIN binding \subseteq DOMAIN binding'
      /\ DOMAIN binding' \subseteq DOMAIN binding \cup {k}
      /\ \A j \in DOMAIN binding : binding'[j] = binding[j]
      /\ k \notin DOMAIN binding /\ k \in DOMAIN binding' => binding'[k] = s
  BY <1>1, BindStreamEffect DEF poolVars, Present
<1>4. k \notin DOMAIN binding /\ used[k] = {}
  BY <1>1 DEF IInv, BoundAsConnected
<1>5. TypeOK'
  BY <1>1, <1>2 DEF IInv, TypeOK, PoolInv, sessionVars, Remote
<1>6. OnlyOpenSessions' /\ OneSessionPerStream'
  BY <1>1, <1>3, <1>4 DEF IInv, TypeOK, OnlyOpenSessions, OneSessionPerStream, sessionVars
<1>7. NoLeakedBinding' /\ BoundAsConnected'
  BY <1>1, <1>3, <1>4, PresentInSession DEF IInv, TypeOK, NoLeakedBinding, BoundAsConnected,
     sessionVars
<1>8. LocalStreamHasTransport'
  BY <1>1, <1>3 DEF IInv, TypeOK, LocalStreamHasTransport, sessionVars
<1>9. TableFollowsPhase' /\ PendingFollowsRuntime' /\ ShutdownOrder'
  BY <1>1, <1>3 DEF IInv, TypeOK, TableFollowsPhase, PendingFollowsRuntime, ShutdownOrder, poolVars, sessionVars
<1> QED BY <1>2, <1>5, <1>6, <1>7, <1>8, <1>9 DEF IInv

\* A frame that finds a binding follows it, and so the CONNECT.
LEMMA SendEffect ==
  ASSUME IInv, NEW k \in Stream, NEW reply, Send(k, reply), UNCHANGED via,
         reply => k \in Remote
  PROVE  /\ used' \in [Stream -> SUBSET Session]
         /\ OneSessionPerStream'
         /\ answered' \subseteq Remote
         /\ \A j \in Stream : phase[j] \in {"none", "accepted"} => used'[j] = {}
<1>1. k \in DOMAIN binding => binding[k] \in Session /\ binding[k] = via[k]
                              /\ phase[k] \notin {"none", "accepted"}
  BY PresentInSession DEF IInv, PoolInv, BoundToPresent, BoundAsConnected
<1>2. used' = used \/ (k \in DOMAIN binding /\ used' = [used EXCEPT ![k] = @ \cup {binding[k]}])
  BY DEF Send
<1>3. answered' = answered \/ (reply /\ answered' = answered \cup {k})
  BY DEF Send
<1> QED BY <1>1, <1>2, <1>3 DEF IInv, TypeOK, OneSessionPerStream, BoundAsConnected

LEMMA RejectConnectStep ==
  ASSUME IInv, NEW k \in Stream, RejectConnect(k)
  PROVE  IInv'
<1>1. /\ phase[k] = "received" /\ Send(k, TRUE) /\ ReleaseStream(k)
      /\ phase' = [phase EXCEPT ![k] = "done"]
      /\ UNCHANGED <<sessionVars, table, via, releasing, late>>
  BY DEF RejectConnect, Moves
<1>2. PoolInv'
  BY <1>1, ReleaseStreamPreserves DEF IInv
<1>3. /\ closed' = closed
      /\ Present' = Present
      /\ DOMAIN binding' = DOMAIN binding \ {k}
      /\ \A j \in DOMAIN binding' : binding'[j] = binding[j]
  BY <1>1, ReleaseStreamEffect
<1>4. /\ used' \in [Stream -> SUBSET Session]
      /\ OneSessionPerStream'
      /\ answered' \subseteq Remote
      /\ \A j \in Stream : phase[j] \in {"none", "accepted"} => used'[j] = {}
  <2>1. k \in Remote
    BY <1>1 DEF IInv, TableFollowsPhase
  <2> QED BY <1>1, <2>1, SendEffect
<1>5. TypeOK'
  BY <1>1, <1>2, <1>4 DEF IInv, TypeOK, PoolInv, sessionVars, Remote
<1>6. OnlyOpenSessions'
  BY <1>1, <1>3 DEF IInv, OnlyOpenSessions, sessionVars
<1>7. NoLeakedBinding' /\ BoundAsConnected'
  BY <1>1, <1>3, <1>4, PresentInSession DEF IInv, TypeOK, NoLeakedBinding, BoundAsConnected,
     sessionVars
<1>8. LocalStreamHasTransport'
  BY <1>1, <1>3 DEF IInv, TypeOK, LocalStreamHasTransport, TableFollowsPhase, sessionVars
<1>9. TableFollowsPhase' /\ PendingFollowsRuntime' /\ ShutdownOrder'
  BY <1>1, <1>3 DEF IInv, TypeOK, TableFollowsPhase, PendingFollowsRuntime, ShutdownOrder, poolVars, sessionVars
<1> QED BY <1>2, <1>4, <1>5, <1>6, <1>7, <1>8, <1>9 DEF IInv

\* Steps that send a frame and leave the pool alone.
LEMMA SendingStep ==
  ASSUME IInv, NEW k \in Stream, DialSucceeds(k) \/ SendFrame(k)
  PROVE  IInv'
<1>1. /\ UNCHANGED <<poolVars, sessionVars, table, via, releasing, late>>
      /\ \/ phase' = phase
         \/ /\ phase[k] = "dialing" /\ k \in Remote
            /\ phase' = [phase EXCEPT ![k] = "open"] \/ phase' = [phase EXCEPT ![k] = "done"]
  BY DEF DialSucceeds, SendFrame, Moves, IInv, TableFollowsPhase
<1>2. PoolInv' /\ Present' = Present /\ binding' = binding
  BY <1>1, StepPreserves DEF IInv, poolVars, Present
<1>3. \/ UNCHANGED <<used, answered>>
      \/ Send(k, FALSE)
      \/ Send(k, TRUE) /\ k \in Remote
  BY DEF DialSucceeds, SendFrame, Moves, IInv, TableFollowsPhase
<1>4. /\ used' \in [Stream -> SUBSET Session]
      /\ OneSessionPerStream'
      /\ answered' \subseteq Remote
      /\ \A j \in Stream : phase[j] \in {"none", "accepted"} => used'[j] = {}
  BY <1>1, <1>3, SendEffect DEF IInv, TypeOK, OneSessionPerStream, BoundAsConnected
<1>5. TypeOK'
  BY <1>1, <1>2, <1>4 DEF IInv, TypeOK, PoolInv, sessionVars, Remote
<1>6. OnlyOpenSessions'
  BY <1>1, <1>2 DEF IInv, OnlyOpenSessions, sessionVars
<1>7. NoLeakedBinding' /\ BoundAsConnected'
  BY <1>1, <1>2, <1>4, PresentInSession DEF IInv, TypeOK, NoLeakedBinding, BoundAsConnected,
     sessionVars
<1>8. LocalStreamHasTransport'
  BY <1>1, <1>2 DEF IInv, TypeOK, LocalStreamHasTransport, sessionVars, Remote
<1>9. TableFollowsPhase' /\ PendingFollowsRuntime' /\ ShutdownOrder'
  BY <1>1 DEF IInv, TypeOK, TableFollowsPhase, PendingFollowsRuntime, ShutdownOrder, poolVars, sessionVars
<1> QED BY <1>2, <1>4, <1>5, <1>6, <1>7, <1>8, <1>9 DEF IInv

LEMMA ReleaseStep ==
  ASSUME IInv, NEW k \in Stream, Release(k)
  PROVE  IInv'
<1>1. /\ k \in releasing /\ releasing' = releasing \ {k}
      /\ Send(k, k \in Remote /\ phase[k] = "done") /\ ReleaseStream(k)
      /\ UNCHANGED <<sessionVars, table, phase, via, late>>
  BY DEF Release
<1>2. PoolInv'
  BY <1>1, ReleaseStreamPreserves DEF IInv
<1>3. /\ closed' = closed
      /\ Present' = Present
      /\ DOMAIN binding' = DOMAIN binding \ {k}
      /\ \A j \in DOMAIN binding' : binding'[j] = binding[j]
  BY <1>1, ReleaseStreamEffect
<1>4. /\ used' \in [Stream -> SUBSET Session]
      /\ OneSessionPerStream'
      /\ answered' \subseteq Remote
      /\ \A j \in Stream : phase[j] \in {"none", "accepted"} => used'[j] = {}
  BY <1>1, SendEffect
<1>5. TypeOK'
  BY <1>1, <1>2, <1>4 DEF IInv, TypeOK, PoolInv, sessionVars, Remote
<1>6. OnlyOpenSessions'
  BY <1>1, <1>3 DEF IInv, OnlyOpenSessions, sessionVars
<1>7. NoLeakedBinding' /\ BoundAsConnected'
  BY <1>1, <1>3, <1>4, PresentInSession DEF IInv, TypeOK, NoLeakedBinding, BoundAsConnected,
     sessionVars
<1>8. LocalStreamHasTransport'
  BY <1>1, <1>3 DEF IInv, TypeOK, LocalStreamHasTransport, TableFollowsPhase, sessionVars
<1>9. TableFollowsPhase' /\ PendingFollowsRuntime' /\ ShutdownOrder'
  BY <1>1, <1>3 DEF IInv, TypeOK, TableFollowsPhase, PendingFollowsRuntime, ShutdownOrder, poolVars, sessionVars
<1> QED BY <1>2, <1>4, <1>5, <1>6, <1>7, <1>8, <1>9 DEF IInv

\* Close may take bindings from streams: of those accepted here Tunnel.Stop
\* has removed all but the late ones.
LEMMA ClosePoolStep ==
  ASSUME IInv, ClosePool
  PROVE  IInv'
<1>1. /\ stage = "stopping" /\ sweep = {} /\ stage' = "stopped" /\ Close
      /\ UNCHANGED <<runtime, channel, pending, sweep, streamVars>>
  BY DEF ClosePool
<1>2. PoolInv'
  BY <1>1, ClosePreserves DEF IInv
<1>3. closed' /\ Present' = {} /\ DOMAIN binding' = {}
  BY <1>1 DEF Close, NoStreams, Present, Range
<1>4. Local \cap table' \subseteq late'
  BY <1>1 DEF IInv, ShutdownOrder, streamVars
<1>5. TypeOK'
  BY <1>1, <1>2 DEF IInv, TypeOK, PoolInv, streamVars
<1>6. OnlyOpenSessions' /\ OneSessionPerStream' /\ NoLeakedBinding'
  BY <1>1, <1>3 DEF IInv, OnlyOpenSessions, OneSessionPerStream, NoLeakedBinding, streamVars
<1>7. LocalStreamHasTransport'
  BY <1>1, <1>4 DEF LocalStreamHasTransport
<1>8. BoundAsConnected' /\ TableFollowsPhase' /\ PendingFollowsRuntime' /\ ShutdownOrder'
  BY <1>1, <1>3, <1>4 DEF IInv, BoundAsConnected, TableFollowsPhase, PendingFollowsRuntime,
     ShutdownOrder, streamVars
<1> QED BY <1>2, <1>5, <1>6, <1>7, <1>8 DEF IInv

LEMMA NextPreserves == IInv /\ [Next]_vars => IInv'
<1> SUFFICES ASSUME IInv, [Next]_vars PROVE IInv'
  OBVIOUS
<1>1. CASE UNCHANGED vars
  <2>1. PoolInv'
    BY <1>1, StepPreserves DEF IInv, vars
  <2> QED BY <1>1, <2>1 DEF vars, poolVars, sessionVars, streamVars, IInv, PoolInv, TypeOK,
             PoolTypeOK, OnlyOpenSessions, OneSessionPerStream, NoLeakedBinding, Present,
             LocalStreamHasTransport, BoundAsConnected, TableFollowsPhase,
             PendingFollowsRuntime, ShutdownOrder
<1>2. ASSUME NEW s \in Session, SessionStep(s)
      PROVE  IInv'
  BY <1>2, ChannelStep, ActivateStep, CloseRuntimeStep, FinishCloseStep, CloseStreamStep,
     ReceiveConnectStep DEF SessionStep
<1>3. ASSUME NEW k \in Stream, StreamStep(k)
      PROVE  IInv'
  BY <1>3, StopStreamStep, AcceptStep, RouteConnectStep, SendConnectStep, HandleConnectStep,
     RejectConnectStep, SendingStep, DialFailsStep, FinishStep, ReleaseStep DEF StreamStep
<1> QED BY <1>1, <1>2, <1>3, StopStep, ClosePoolStep DEF Next

(***************************************************************************)
(* In every reachable state of a pooled tunnel, however many sessions fail *)
(* and join and however many streams they carry, the safety invariants     *)
(* hold together with the parts that make them inductive.                  *)
(***************************************************************************)
THEOREM Invariance == Spec => []IInv
  BY InitInv, NextPreserves, PTL DEF Spec

-----------------------------------------------------------------------------

(***************************************************************************)
(* The state of a pooled tunnel always has its type, which includes that   *)
(* of its pool (no session twice, a counter for exactly the sessions).     *)
(***************************************************************************)
THEOREM TypeCorrect == Spec => []TypeOK
<1>1. IInv => TypeOK
  BY DEF IInv
<1> QED BY <1>1, Invariance, PTL

(***************************************************************************)
(* A closed session is never in the pool again (activate, close).          *)
(***************************************************************************)
THEOREM NoDeadSession == Spec => []OnlyOpenSessions
<1>1. IInv => OnlyOpenSessions
  BY DEF IInv
<1> QED BY <1>1, Invariance, PTL

(***************************************************************************)
(* No frame of a stream ever leaves through another session than the one   *)
(* of its CONNECT (SendRoutedFrame, BindStream, RemoveSession).            *)
(***************************************************************************)
THEOREM StreamsNeverMove == Spec => []OneSessionPerStream
<1>1. IInv => OneSessionPerStream
  BY DEF IInv
<1> QED BY <1>1, Invariance, PTL

(***************************************************************************)
(* Bindings do not leak, and the load each counter shows is that of the    *)
(* streams the tunnel really has (ReleaseStream, rejectConnect,            *)
(* removeStream), but for a CONNECT that is sent while the tunnel stops.   *)
(***************************************************************************)
THEOREM LoadIsReal == Spec => [](NoLeakedBinding /\ CountsMatchBindings)
<1>1. IInv => NoLeakedBinding /\ CountsMatchBindings
  BY DEF IInv, PoolInv
<1> QED BY <1>1, Invariance, PTL

(***************************************************************************)
(* From its CONNECT on, a stream accepted here has a transport or is about *)
(* to be closed by the cleanup that took it away (CloseStreams), shutdown  *)
(* with sessions still open included; only a stream accepted after         *)
(* Tunnel.Stop looked at the table may outlive pool.Close without one.     *)
(***************************************************************************)
THEOREM NoLocalOrphan == Spec => []LocalStreamHasTransport
<1>1. IInv => LocalStreamHasTransport
  BY DEF IInv
<1> QED BY <1>1, Invariance, PTL

-----------------------------------------------------------------------------
(* The choice of the least-loaded policy *)

\* A new binding under the least-loaded policy is to a session with the
\* fewest streams bound when it was made.
LEMMA SelectLeastLoaded ==
  ASSUME PoolInv, NEW k \in Stream, SelectSession(k), policy = "least-loaded",
         NEW x \in DOMAIN binding' \ DOMAIN binding, NEW t \in Present
  PROVE  Cardinality(Bound(binding'[x])) <= Cardinality(Bound(t))
<1>1. PICK s \in LeastLoaded : Bind(k, s)
  BY DEF SelectSession, Candidates, poolVars
<1>2. binding'[x] = s
  BY <1>1 DEF Bind
<1>3. s \in Present /\ Load(s) <= Load(t)
  BY <1>1 DEF LeastLoaded, Present, Range
<1>4. Load(s) = Cardinality(Bound(s)) /\ Load(t) = Cardinality(Bound(t))
  BY <1>3 DEF Load, PoolInv, PoolTypeOK, CountsMatchBindings
<1> QED BY <1>2, <1>3, <1>4

\* Of the tunnel's steps only RouteConnect binds a stream accepted here.
LEMMA OnlyRoutingBindsLocal ==
  ASSUME IInv, [Next]_vars, NEW k \in Local \cap (DOMAIN binding' \ DOMAIN binding)
  PROVE  \E j \in Stream : RouteConnect(j)
<1>1. CASE UNCHANGED vars
  BY <1>1 DEF vars, poolVars
<1>2. ASSUME NEW s \in Session, SessionStep(s) PROVE FALSE
  <2>1. ASSUME NEW j \in Stream, ReceiveConnect(j, s) PROVE FALSE
    BY <2>1 DEF ReceiveConnect, BindStream, Bind, Remote, poolVars
  <2> QED BY <1>2, <2>1 DEF SessionStep, ChannelOpens, ChannelFails, Activate, AddSession,
             CloseRuntime, RemoveSession, FinishClose, CloseStream, Restrict, poolVars
<1>3. ASSUME NEW j \in Stream, StreamStep(j) PROVE RouteConnect(j)
  BY <1>3 DEF StreamStep, StopStream, Accept, SendConnect, HandleConnect, RejectConnect,
     DialSucceeds, DialFails, SendFrame, Finish, Release, ReleaseStream, Restrict, poolVars
<1>4. CASE Stop \/ ClosePool
  BY <1>4 DEF Stop, ClosePool, Close, NoStreams, poolVars
<1> QED BY <1>1, <1>2, <1>3, <1>4 DEF Next

(***************************************************************************)
(* The least-loaded policy never gives a new stream to a session that      *)
(* carries more streams than another (SelectSession's loop, with counters  *)
(* that LoadIsReal shows to be the truth).                                 *)
(***************************************************************************)
THEOREM SchedulerIsFair == Spec => LeastLoadedIsLeast
<1>1. IInv /\ [Next]_vars =>
        [\A k \in Local \cap (DOMAIN binding' \ DOMAIN binding) :
           policy = "least-loaded" =>
             \A s \in Present :
               Cardinality(Bound(binding'[k])) <= Cardinality(Bound(s))]_vars
  <2> SUFFICES ASSUME IInv, [Next]_vars,
                      NEW k \in Local \cap (DOMAIN binding' \ DOMAIN binding),
                      policy = "least-loaded", NEW s \in Present
               PROVE  Cardinality(Bound(binding'[k])) <= Cardinality(Bound(s))
    OBVIOUS
  <2>1. PICK j \in Stream : RouteConnect(j)
    BY OnlyRoutingBindsLocal
  <2> QED BY <2>1, SelectLeastLoaded DEF RouteConnect, IInv
<1> QED BY <1>1, Invariance, PTL DEF Spec, LeastLoadedIsLeast
=============================================================================
