-------------------------- MODULE Supervisor_proofs --------------------------
(***************************************************************************)
(* What holds of a uulink process for any size of pool and any number of   *)
(* failures: its state keeps its shape, an attempt closes the sessions it  *)
(* opened, and the relay fallback is used exactly when it is justified.    *)
(***************************************************************************)
EXTENDS Supervisor, TLAPS

Starts == {"waiting", "connected", "adding"}
Ending == {"closeSet", "stopTunnel", "closePeer", "returned"}

\* Roles and steps: a single session is never added to a set, a served one is
\* not waited for, and an attempt that goes on has no error yet.
StepsOfRole ==
  /\ Primary => step \notin {"adding", "required", "closeSet"}
  /\ Primary => current = 1
  /\ ~Primary => step # "closePeer"
  /\ role \in {"room", "guest"} => step \notin {"waiting", "connected"}
  /\ proc = "running" /\ err # "nil" => step \in Ending

\* An open session is known to somebody who will close it: the set that lists
\* it, its monitor, or the attempt that is starting it.
Guarded(i) == session[i].listed \/ session[i].monitor = "removed"
Owned ==
  /\ proc # "running" => \A i \in Session : Open(i) => session[i].monitor = "removed"
  /\ proc = "running" /\ ~Primary =>
       /\ step \notin {"stopTunnel", "returned"} =>
            \A i \in Session : Open(i) => Guarded(i) \/ (i = current /\ step \in Starts)
       /\ step \in {"stopTunnel", "returned"} =>
            \A i \in Session : Open(i) => session[i].monitor = "removed"
  /\ proc = "running" /\ Primary =>
       /\ \A i \in Session : Open(i) => i = 1
       /\ step = "returned" => \A i \in Session : ~Open(i)

\* The fallback: what the attempt runs over, when a relay counts as ready for a
\* minute, and what a time-out of the direct path leaves behind.
Fallback ==
  /\ initial = "relay" => mode = "relay"
  /\ readyAt # "never" => Primary
  /\ proc = "running" => \/ readyAt = "never"
                         \/ step \in {"serving"} \cup Ending
  /\ proc = "running" /\ Primary => (relay <=> mode = "relay")
  /\ proc = "running" /\ err = "p2p" => mode = "auto" /\ timedOut /\ readyAt = "never"
  /\ proc = "running" /\ readyAt = "minute" => ~timedOut
  /\ proc = "delay" \/ (proc = "running" /\ err # "p2p" /\ readyAt # "minute")
       => (mode # initial <=> timedOut)

\* TypeOK in three parts, proved one by one.
Enums ==
  /\ role \in Roles /\ initial \in Modes /\ mode \in Modes
  /\ proc \in {"running", "delay", "ended"}
  /\ step \in {"joining", "waiting", "connected", "adding", "required", "serving",
               "closeSet", "stopTunnel", "closePeer", "returned"}
  /\ err \in Errors /\ current \in Session
  /\ readyAt \in {"never", "now", "minute"}
  /\ faults \in 0..MaxFaults

Flags ==
  /\ interrupted \in BOOLEAN /\ relay \in BOOLEAN
  /\ failed \in BOOLEAN /\ setReady \in BOOLEAN /\ once \in BOOLEAN
  /\ listening \in BOOLEAN /\ leaked \in BOOLEAN /\ timedOut \in BOOLEAN

Sessions == session \in [Session -> SessionState]

IInv == Enums /\ Flags /\ Sessions /\ StepsOfRole /\ Owned /\ Fallback

LEMMA TypeParts == TypeOK <=> Enums /\ Flags /\ Sessions
  BY DEF TypeOK, Enums, Flags, Sessions

-----------------------------------------------------------------------------
(* What an action does to the record of a session keeps its shape.         *)

LEMMA ClosedKeepsShape ==
  ASSUME NEW s \in SessionState
  PROVE  Closed(s) \in SessionState
  BY DEF SessionState, Closed

LEMMA MonitorKeepsShape ==
  ASSUME NEW s \in SessionState, NEW m \in {"off", "watching", "removed", "ended"}
  PROVE  /\ [s EXCEPT !.monitor = m] \in SessionState
         /\ [s EXCEPT !.monitor = m, !.listed = FALSE] \in SessionState
<1>1. [s EXCEPT !.monitor = m] \in SessionState
  BY DEF SessionState
<1>2. [s EXCEPT !.monitor = m, !.listed = FALSE] \in SessionState
  BY DEF SessionState
<1> QED BY <1>1, <1>2

LEMMA AddKeepsShape ==
  ASSUME NEW s \in SessionState, NEW b \in BOOLEAN
  PROVE  [s EXCEPT !.listed = b, !.watched = TRUE] \in SessionState
  BY DEF SessionState

LEMMA EndKeepsShape ==
  ASSUME NEW s \in SessionState
  PROVE  [s EXCEPT !.listed = FALSE, !.monitor = IF @ = "watching" THEN "ended" ELSE @]
           \in SessionState
<1>1. CASE s.monitor = "watching"
  BY <1>1 DEF SessionState
<1>2. CASE s.monitor # "watching"
  BY <1>2 DEF SessionState
<1> QED BY <1>1, <1>2

LEMMA UnusedHasShape ==
  ASSUME NEW p \in {"good", "blocked"}, NEW m \in {"off", "watching"}
  PROVE  /\ Unused \in SessionState
         /\ [Unused EXCEPT !.phase = "open", !.path = p, !.monitor = m] \in SessionState
<1>1. Unused \in SessionState
  BY DEF SessionState, Unused
<1>2. [Unused EXCEPT !.phase = "open", !.path = p, !.monitor = m] \in SessionState
  BY DEF SessionState, Unused
<1> QED BY <1>1, <1>2

LEMMA UnwatchKeepsShape ==
  ASSUME NEW s \in SessionState
  PROVE  [s EXCEPT !.watched = FALSE] \in SessionState
  BY DEF SessionState

LEMMA FirstSession == 1 \in Session
  BY SupervisorAssumption DEF Session

-----------------------------------------------------------------------------
(* The initial state.                                                      *)

LEMMA InitEstablishes == Init => IInv
<1> SUFFICES ASSUME Init PROVE IInv
  OBVIOUS
<1> USE DEF Init
<1>1. Enums
  BY SupervisorAssumption, FirstSession DEF Enums, Errors, Modes
<1>2. Flags
  BY DEF Flags
<1>3. Sessions
  BY UnusedHasShape DEF Sessions
<1>4. StepsOfRole
  BY DEF StepsOfRole, Ending
<1>5. Owned
  BY DEF Owned, Open, Unused
<1>6. Fallback
  BY DEF Fallback, Modes
<1> QED BY <1>1, <1>2, <1>3, <1>4, <1>5, <1>6 DEF IInv

-----------------------------------------------------------------------------
(* Every step keeps the shape of the state.                                *)

\* The variables that take one of a few values.
LEMMA EnumStep == Enums /\ [Next]_vars => Enums'
<1> SUFFICES ASSUME Enums, [Next]_vars PROVE Enums'
  OBVIOUS
<1> USE DEF Enums, AttemptAt, Waiting, Running, Fault, Abandon, TimerFires, Ends, process, attempt, tunnel
<1>0. MaxFaults \in Nat /\ Size \in Nat
  BY SupervisorAssumption
<1>1. CASE Interrupt
  BY <1>1, <1>0 DEF Interrupt
<1>2. CASE MinutePasses
  BY <1>2, <1>0 DEF MinutePasses
<1>3. CASE Return
  BY <1>3, <1>0 DEF Return, NextMode, Modes
<1>4. CASE DelayInterrupted
  BY <1>4, <1>0 DEF DelayInterrupted
<1>5. CASE DelayOver
  BY <1>5, FirstSession DEF DelayOver, Errors
<1>6. CASE JoinInterrupted
  BY <1>6, <1>0 DEF JoinInterrupted, Errors
<1>7. CASE JoinFails
  BY <1>7, <1>0 DEF JoinFails, Errors
<1>8. CASE Join
  BY <1>8, <1>0 DEF Join
<1>9. CASE Ready
  BY <1>9, <1>0 DEF Ready
<1>10. CASE NotReady
  BY <1>10, <1>0 DEF NotReady, Errors
<1>11. CASE WaitInterrupted
  BY <1>11, <1>0 DEF WaitInterrupted, Errors
<1>12. CASE P2PTimeout
  BY <1>12, <1>0 DEF P2PTimeout, Errors
<1>13. CASE TransportTimeout
  BY <1>13, <1>0 DEF TransportTimeout, Errors
<1>14. CASE Add
  BY <1>14, <1>0 DEF Add, Session, Count
<1>15. CASE RelayReady
  BY <1>15, <1>0 DEF RelayReady
<1>16. CASE RelayNotReady
  BY <1>16, <1>0 DEF RelayNotReady, Errors
<1>17. CASE Interrupted
  BY <1>17, <1>0 DEF Interrupted, Errors
<1>18. CASE Fails
  BY <1>18, <1>0 DEF Fails, Errors
<1>19. CASE KeepsPeer
  BY <1>19, <1>0 DEF KeepsPeer
<1>20. CASE PrimaryLost
  BY <1>20, <1>0 DEF PrimaryLost
<1>21. CASE CloseAll
  BY <1>21, <1>0 DEF CloseAll
<1>22. CASE Stop
  BY <1>22, <1>0 DEF Stop
<1>23. CASE ClosePeer
  BY <1>23, <1>0 DEF ClosePeer
<1>24. ASSUME NEW i \in Session, Connects(i) PROVE Enums'
  BY <1>24, <1>0 DEF Connects
<1>25. ASSUME NEW i \in Session, ChannelOpens(i) PROVE Enums'
  BY <1>25, <1>0 DEF ChannelOpens
<1>26. ASSUME NEW i \in Session, Start(i) PROVE Enums'
  BY <1>26, <1>0 DEF Start
<1>27. ASSUME NEW i \in Session, LosesTransport(i) PROVE Enums'
  BY <1>27, <1>0 DEF LosesTransport
<1>28. ASSUME NEW i \in Session, LosesSignaling(i) PROVE Enums'
  BY <1>28, <1>0 DEF LosesSignaling
<1>29. ASSUME NEW i \in Session, MonitorSignaling(i) PROVE Enums'
  BY <1>29, <1>0 DEF MonitorSignaling
<1>30. ASSUME NEW i \in Session, MonitorTransport(i) PROVE Enums'
  BY <1>30, <1>0 DEF MonitorTransport
<1>31. ASSUME NEW i \in Session, MonitorCloses(i) PROVE Enums'
  BY <1>31, <1>0 DEF MonitorCloses
<1>32. ASSUME NEW i \in Session, WatchSignaling(i) PROVE Enums'
  BY <1>32, <1>0 DEF WatchSignaling
<1>33. CASE UNCHANGED vars
  BY <1>33 DEF vars
<1> QED BY <1>1, <1>2, <1>3, <1>4, <1>5, <1>6, <1>7, <1>8, <1>9, <1>10,
           <1>11, <1>12, <1>13, <1>14, <1>15, <1>16, <1>17, <1>18, <1>19,
           <1>20, <1>21, <1>22, <1>23, <1>24, <1>25, <1>26, <1>27, <1>28,
           <1>29, <1>30, <1>31, <1>32, <1>33
        DEF Next, Process, Starting, Timers, Attempt, Callback, Monitor, Misfortune

\* The Boolean ones.
LEMMA FlagStep == Flags /\ [Next]_vars => Flags'
<1> SUFFICES ASSUME Flags, [Next]_vars PROVE Flags'
  OBVIOUS
<1> USE DEF Flags, AttemptAt, Waiting, Running, Fault, Abandon, TimerFires, Ends, process, attempt, tunnel
<1>1. CASE Interrupt
  BY <1>1 DEF Interrupt
<1>2. CASE MinutePasses
  BY <1>2 DEF MinutePasses
<1>3. CASE Return
  BY <1>3 DEF Return
<1>4. CASE DelayInterrupted
  BY <1>4 DEF DelayInterrupted
<1>5. CASE DelayOver
  BY <1>5 DEF DelayOver
<1>6. CASE JoinInterrupted
  BY <1>6 DEF JoinInterrupted
<1>7. CASE JoinFails
  BY <1>7 DEF JoinFails
<1>8. CASE Join
  BY <1>8 DEF Join
<1>9. CASE Ready
  BY <1>9 DEF Ready
<1>10. CASE NotReady
  BY <1>10 DEF NotReady
<1>11. CASE WaitInterrupted
  BY <1>11 DEF WaitInterrupted
<1>12. CASE P2PTimeout
  BY <1>12 DEF P2PTimeout
<1>13. CASE TransportTimeout
  BY <1>13 DEF TransportTimeout
<1>14. CASE Add
  BY <1>14 DEF Add
<1>15. CASE RelayReady
  BY <1>15 DEF RelayReady
<1>16. CASE RelayNotReady
  BY <1>16 DEF RelayNotReady
<1>17. CASE Interrupted
  BY <1>17 DEF Interrupted
<1>18. CASE Fails
  BY <1>18 DEF Fails
<1>19. CASE KeepsPeer
  BY <1>19 DEF KeepsPeer
<1>20. CASE PrimaryLost
  BY <1>20 DEF PrimaryLost
<1>21. CASE CloseAll
  BY <1>21 DEF CloseAll
<1>22. CASE Stop
  BY <1>22 DEF Stop
<1>23. CASE ClosePeer
  BY <1>23 DEF ClosePeer
<1>24. ASSUME NEW i \in Session, Connects(i) PROVE Flags'
  BY <1>24 DEF Connects
<1>25. ASSUME NEW i \in Session, ChannelOpens(i) PROVE Flags'
  BY <1>25 DEF ChannelOpens
<1>26. ASSUME NEW i \in Session, Start(i) PROVE Flags'
  BY <1>26 DEF Start
<1>27. ASSUME NEW i \in Session, LosesTransport(i) PROVE Flags'
  BY <1>27 DEF LosesTransport
<1>28. ASSUME NEW i \in Session, LosesSignaling(i) PROVE Flags'
  BY <1>28 DEF LosesSignaling
<1>29. ASSUME NEW i \in Session, MonitorSignaling(i) PROVE Flags'
  BY <1>29 DEF MonitorSignaling
<1>30. ASSUME NEW i \in Session, MonitorTransport(i) PROVE Flags'
  BY <1>30 DEF MonitorTransport
<1>31. ASSUME NEW i \in Session, MonitorCloses(i) PROVE Flags'
  BY <1>31 DEF MonitorCloses
<1>32. ASSUME NEW i \in Session, WatchSignaling(i) PROVE Flags'
  BY <1>32 DEF WatchSignaling
<1>33. CASE UNCHANGED vars
  BY <1>33 DEF vars
<1> QED BY <1>1, <1>2, <1>3, <1>4, <1>5, <1>6, <1>7, <1>8, <1>9, <1>10,
           <1>11, <1>12, <1>13, <1>14, <1>15, <1>16, <1>17, <1>18, <1>19,
           <1>20, <1>21, <1>22, <1>23, <1>24, <1>25, <1>26, <1>27, <1>28,
           <1>29, <1>30, <1>31, <1>32, <1>33
        DEF Next, Process, Starting, Timers, Attempt, Callback, Monitor, Misfortune

\* The records of the sessions.
LEMMA SessionStep == (Enums /\ Sessions) /\ [Next]_vars => Sessions'
<1> SUFFICES ASSUME (Enums /\ Sessions), [Next]_vars PROVE Sessions'
  OBVIOUS
<1> USE DEF Sessions, AttemptAt, Waiting, Running, Fault, Abandon, TimerFires, Ends, process, attempt, tunnel
<1>0. current \in Session
  BY DEF Enums
<1>1. CASE Interrupt
  BY <1>1, <1>0 DEF Interrupt
<1>2. CASE MinutePasses
  BY <1>2, <1>0 DEF MinutePasses
<1>3. CASE Return
  BY <1>3, <1>0 DEF Return
<1>4. CASE DelayInterrupted
  BY <1>4, <1>0 DEF DelayInterrupted
<1>5. CASE DelayOver
  BY <1>5, UnusedHasShape DEF DelayOver
<1>6. CASE JoinInterrupted
  BY <1>6, <1>0 DEF JoinInterrupted
<1>7. CASE JoinFails
  BY <1>7, <1>0 DEF JoinFails
<1>8. CASE Join
  <2>2. PICK p \in {"good", "blocked"} : session' = [session EXCEPT ![current] =
            [Unused EXCEPT !.phase = "open", !.path = p,
                           !.monitor = IF role = "shares" THEN "off" ELSE "watching"]]
    BY <1>8 DEF Join
  <2> QED BY <1>0, <2>2, UnusedHasShape
<1>9. CASE Ready
  BY <1>9, <1>0 DEF Ready, SessionState
<1>10. CASE NotReady
  BY <1>10, <1>0, ClosedKeepsShape DEF NotReady
<1>11. CASE WaitInterrupted
  BY <1>11, <1>0 DEF WaitInterrupted
<1>12. CASE P2PTimeout
  BY <1>12, <1>0, ClosedKeepsShape DEF P2PTimeout
<1>13. CASE TransportTimeout
  BY <1>13, <1>0, ClosedKeepsShape DEF TransportTimeout
<1>14. CASE Add
  <2>1. Open(current) \in BOOLEAN
    BY DEF Open
  <2>3. [session[current] EXCEPT !.listed = Open(current), !.watched = TRUE] \in SessionState
    BY <1>0, <2>1, AddKeepsShape
  <2> QED BY <1>0, <1>14, <2>3 DEF Add
<1>15. CASE RelayReady
  BY <1>15, <1>0 DEF RelayReady
<1>16. CASE RelayNotReady
  BY <1>16, <1>0 DEF RelayNotReady
<1>17. CASE Interrupted
  BY <1>17, <1>0 DEF Interrupted
<1>18. CASE Fails
  BY <1>18, <1>0 DEF Fails
<1>19. CASE KeepsPeer
  <2>1. [session[1] EXCEPT !.signal = "kept"] \in SessionState
    BY FirstSession DEF SessionState
  <2> QED BY <1>19, <2>1, FirstSession DEF KeepsPeer
<1>20. CASE PrimaryLost
  <2>1. [session[1] EXCEPT !.monitor = "ended"] \in SessionState
    BY MonitorKeepsShape, FirstSession
  <2> QED BY <1>20, <2>1, FirstSession DEF PrimaryLost
<1>21. CASE CloseAll
  <2>1. \A i \in Session : (IF session[i].listed THEN Closed(session[i]) ELSE session[i])
                             \in SessionState
    BY ClosedKeepsShape
  <2> QED BY <1>21, <2>1, EndKeepsShape DEF CloseAll
<1>22. CASE Stop
  BY <1>22, <1>0 DEF Stop
<1>23. CASE ClosePeer
  <2>1. [Closed(session[1]) EXCEPT !.monitor = "ended"] \in SessionState
    BY ClosedKeepsShape, MonitorKeepsShape, FirstSession
  <2> QED BY <1>23, <2>1, FirstSession DEF ClosePeer
<1>24. ASSUME NEW i \in Session, Connects(i) PROVE Sessions'
  BY <1>24, <1>0 DEF Connects, SessionState
<1>25. ASSUME NEW i \in Session, ChannelOpens(i) PROVE Sessions'
  BY <1>25, <1>0 DEF ChannelOpens, SessionState
<1>26. ASSUME NEW i \in Session, Start(i) PROVE Sessions'
  BY <1>26, <1>0 DEF Start, SessionState
<1>27. ASSUME NEW i \in Session, LosesTransport(i) PROVE Sessions'
  BY <1>27, <1>0 DEF LosesTransport, SessionState
<1>28. ASSUME NEW i \in Session, LosesSignaling(i) PROVE Sessions'
  BY <1>28, <1>0 DEF LosesSignaling, SessionState
<1>29. ASSUME NEW i \in Session, MonitorSignaling(i) PROVE Sessions'
  <2>1. [Closed(session[i]) EXCEPT !.monitor = "ended", !.listed = FALSE] \in SessionState
    BY ClosedKeepsShape, MonitorKeepsShape
  <2> QED BY <1>29, <2>1 DEF MonitorSignaling
<1>30. ASSUME NEW i \in Session, MonitorTransport(i) PROVE Sessions'
  <2>1. [session[i] EXCEPT !.monitor = "removed", !.listed = FALSE] \in SessionState
    BY MonitorKeepsShape
  <2> QED BY <1>30, <2>1 DEF MonitorTransport
<1>31. ASSUME NEW i \in Session, MonitorCloses(i) PROVE Sessions'
  <2>1. [Closed(session[i]) EXCEPT !.monitor = "ended"] \in SessionState
    BY ClosedKeepsShape, MonitorKeepsShape
  <2> QED BY <1>31, <2>1 DEF MonitorCloses
<1>32. ASSUME NEW i \in Session, WatchSignaling(i) PROVE Sessions'
  BY <1>32, UnwatchKeepsShape DEF WatchSignaling
<1>33. CASE UNCHANGED vars
  BY <1>33 DEF vars
<1> QED BY <1>1, <1>2, <1>3, <1>4, <1>5, <1>6, <1>7, <1>8, <1>9, <1>10,
           <1>11, <1>12, <1>13, <1>14, <1>15, <1>16, <1>17, <1>18, <1>19,
           <1>20, <1>21, <1>22, <1>23, <1>24, <1>25, <1>26, <1>27, <1>28,
           <1>29, <1>30, <1>31, <1>32, <1>33
        DEF Next, Process, Starting, Timers, Attempt, Callback, Monitor, Misfortune

-----------------------------------------------------------------------------
(* Every step keeps the rest.                                              *)

\* The steps of each role.
LEMMA RoleStep == StepsOfRole /\ [Next]_vars => StepsOfRole'
<1> SUFFICES ASSUME StepsOfRole, [Next]_vars PROVE StepsOfRole'
  OBVIOUS
<1> USE DEF StepsOfRole, Primary, AttemptAt, Ends, Ending, Waiting, Running, process, attempt, tunnel, Count
<1>1. CASE Interrupt
  BY <1>1 DEF Interrupt
<1>2. CASE MinutePasses
  BY <1>2 DEF MinutePasses
<1>3. CASE Return
  BY <1>3 DEF Return
<1>4. CASE DelayInterrupted
  BY <1>4 DEF DelayInterrupted
<1>5. CASE DelayOver
  BY <1>5 DEF DelayOver
<1>6. CASE JoinInterrupted
  BY <1>6 DEF JoinInterrupted
<1>7. CASE JoinFails
  BY <1>7 DEF JoinFails
<1>8. CASE Join
  BY <1>8 DEF Join
<1>9. CASE Ready
  BY <1>9 DEF Ready
<1>10. CASE NotReady
  BY <1>10 DEF NotReady
<1>11. CASE WaitInterrupted
  BY <1>11 DEF WaitInterrupted
<1>12. CASE P2PTimeout
  BY <1>12 DEF P2PTimeout
<1>13. CASE TransportTimeout
  BY <1>13 DEF TransportTimeout
<1>14. CASE Add
  BY <1>14 DEF Add
<1>15. CASE RelayReady
  BY <1>15 DEF RelayReady
<1>16. CASE RelayNotReady
  BY <1>16 DEF RelayNotReady
<1>17. CASE Interrupted
  BY <1>17 DEF Interrupted
<1>18. CASE Fails
  BY <1>18 DEF Fails
<1>19. CASE KeepsPeer
  BY <1>19 DEF KeepsPeer
<1>20. CASE PrimaryLost
  BY <1>20 DEF PrimaryLost
<1>21. CASE CloseAll
  BY <1>21 DEF CloseAll
<1>22. CASE Stop
  BY <1>22 DEF Stop
<1>23. CASE ClosePeer
  BY <1>23 DEF ClosePeer
<1>24. ASSUME NEW i \in Session, Connects(i) PROVE StepsOfRole'
  BY <1>24 DEF Connects
<1>25. ASSUME NEW i \in Session, ChannelOpens(i) PROVE StepsOfRole'
  BY <1>25 DEF ChannelOpens
<1>26. ASSUME NEW i \in Session, Start(i) PROVE StepsOfRole'
  BY <1>26 DEF Start
<1>27. ASSUME NEW i \in Session, LosesTransport(i) PROVE StepsOfRole'
  BY <1>27 DEF LosesTransport
<1>28. ASSUME NEW i \in Session, LosesSignaling(i) PROVE StepsOfRole'
  BY <1>28 DEF LosesSignaling
<1>29. ASSUME NEW i \in Session, MonitorSignaling(i) PROVE StepsOfRole'
  BY <1>29 DEF MonitorSignaling
<1>30. ASSUME NEW i \in Session, MonitorTransport(i) PROVE StepsOfRole'
  BY <1>30 DEF MonitorTransport
<1>31. ASSUME NEW i \in Session, MonitorCloses(i) PROVE StepsOfRole'
  BY <1>31 DEF MonitorCloses
<1>32. ASSUME NEW i \in Session, WatchSignaling(i) PROVE StepsOfRole'
  BY <1>32 DEF WatchSignaling
<1>33. CASE UNCHANGED vars
  BY <1>33 DEF vars
<1> QED BY <1>1, <1>2, <1>3, <1>4, <1>5, <1>6, <1>7, <1>8, <1>9, <1>10,
           <1>11, <1>12, <1>13, <1>14, <1>15, <1>16, <1>17, <1>18, <1>19,
           <1>20, <1>21, <1>22, <1>23, <1>24, <1>25, <1>26, <1>27, <1>28,
           <1>29, <1>30, <1>31, <1>32, <1>33
        DEF Next, Process, Starting, Timers, Attempt, Callback, Monitor, Misfortune

\* Who closes which session.
LEMMA OwnedStep == (Enums /\ Sessions /\ StepsOfRole /\ Owned) /\ [Next]_vars => Owned'
<1> SUFFICES ASSUME (Enums /\ Sessions /\ StepsOfRole /\ Owned), [Next]_vars PROVE Owned'
  OBVIOUS
<1> USE DEF Owned, Guarded, Open, Sessions, Starts, Abandon, StepsOfRole, Primary, AttemptAt, Ends, Ending, Waiting, Running, process, attempt, tunnel
<1>0. current \in Session
  BY DEF Enums
<1>1. CASE Interrupt
  BY <1>1, <1>0 DEF Interrupt
<1>2. CASE MinutePasses
  BY <1>2, <1>0 DEF MinutePasses
<1>3. CASE Return
  BY <1>3, <1>0 DEF Return
<1>4. CASE DelayInterrupted
  BY <1>4, <1>0 DEF DelayInterrupted
<1>5. CASE DelayOver
  BY <1>5, <1>0 DEF DelayOver, Unused
<1>6. CASE JoinInterrupted
  BY <1>6, <1>0 DEF JoinInterrupted
<1>7. CASE JoinFails
  BY <1>7, <1>0 DEF JoinFails
<1>8. CASE Join
  BY <1>8, <1>0 DEF Join, Unused
<1>9. CASE Ready
  BY <1>9, <1>0 DEF Ready, SessionState
<1>10. CASE NotReady
  BY <1>10, <1>0 DEF NotReady, SessionState, Closed
<1>11. CASE WaitInterrupted
  BY <1>11, <1>0 DEF WaitInterrupted
<1>12. CASE P2PTimeout
  BY <1>12, <1>0 DEF P2PTimeout, SessionState, Closed
<1>13. CASE TransportTimeout
  BY <1>13, <1>0 DEF TransportTimeout, SessionState, Closed
<1>14. CASE Add
  BY <1>14, <1>0 DEF Add, SessionState, Count
<1>15. CASE RelayReady
  BY <1>15, <1>0 DEF RelayReady
<1>16. CASE RelayNotReady
  BY <1>16, <1>0 DEF RelayNotReady
<1>17. CASE Interrupted
  BY <1>17, <1>0 DEF Interrupted
<1>18. CASE Fails
  BY <1>18, <1>0 DEF Fails
<1>19. CASE KeepsPeer
  BY <1>19, <1>0 DEF KeepsPeer, SessionState
<1>20. CASE PrimaryLost
  BY <1>20, <1>0 DEF PrimaryLost, SessionState, Closed
<1>21. CASE CloseAll
  <2>1. proc = "running" /\ ~Primary /\ step = "closeSet" /\ proc' = proc /\ role' = role
    BY <1>21 DEF CloseAll
  <2>2. ASSUME NEW i \in Session, Open(i)'
        PROVE  session'[i].monitor = "removed"
    <3>1. ~session[i].listed /\ Open(i)
      <4>1. CASE session[i].listed
        <5>1. session'[i] = [Closed(session[i]) EXCEPT !.listed = FALSE,
                               !.monitor = IF @ = "watching" THEN "ended" ELSE @]
          BY <1>21, <4>1 DEF CloseAll
        <5>2. session'[i].phase # "open"
          BY <5>1 DEF Closed, SessionState
        <5> QED BY <2>2, <5>2
      <4>2. CASE ~session[i].listed
        <5>1. session'[i] = [session[i] EXCEPT !.listed = FALSE,
                               !.monitor = IF @ = "watching" THEN "ended" ELSE @]
          BY <1>21, <4>2 DEF CloseAll
        <5>2. session'[i].phase = session[i].phase
          BY <5>1 DEF SessionState
        <5> QED BY <2>2, <4>2, <5>2
      <4> QED BY <4>1, <4>2
    <3>2. session[i].monitor = "removed"
      BY <2>1, <3>1
    <3> QED BY <1>21, <3>1, <3>2 DEF CloseAll, SessionState
  <2> QED BY <1>21, <2>1, <2>2 DEF CloseAll
<1>22. CASE Stop
  BY <1>22, <1>0 DEF Stop
<1>23. CASE ClosePeer
  BY <1>23, <1>0 DEF ClosePeer, SessionState, Closed
<1>24. ASSUME NEW i \in Session, Connects(i) PROVE Owned'
  BY <1>24, <1>0 DEF Connects, SessionState
<1>25. ASSUME NEW i \in Session, ChannelOpens(i) PROVE Owned'
  BY <1>25, <1>0 DEF ChannelOpens, SessionState
<1>26. ASSUME NEW i \in Session, Start(i) PROVE Owned'
  BY <1>26, <1>0 DEF Start, SessionState
<1>27. ASSUME NEW i \in Session, LosesTransport(i) PROVE Owned'
  BY <1>27, <1>0 DEF LosesTransport, SessionState
<1>28. ASSUME NEW i \in Session, LosesSignaling(i) PROVE Owned'
  BY <1>28, <1>0 DEF LosesSignaling, SessionState
<1>29. ASSUME NEW i \in Session, MonitorSignaling(i) PROVE Owned'
  BY <1>29, <1>0 DEF MonitorSignaling, SessionState, Closed
<1>30. ASSUME NEW i \in Session, MonitorTransport(i) PROVE Owned'
  BY <1>30, <1>0 DEF MonitorTransport, SessionState, Closed
<1>31. ASSUME NEW i \in Session, MonitorCloses(i) PROVE Owned'
  BY <1>31, <1>0 DEF MonitorCloses, SessionState, Closed
<1>32. ASSUME NEW i \in Session, WatchSignaling(i) PROVE Owned'
  BY <1>32, <1>0 DEF WatchSignaling, SessionState
<1>33. CASE UNCHANGED vars
  BY <1>33 DEF vars
<1> QED BY <1>1, <1>2, <1>3, <1>4, <1>5, <1>6, <1>7, <1>8, <1>9, <1>10,
           <1>11, <1>12, <1>13, <1>14, <1>15, <1>16, <1>17, <1>18, <1>19,
           <1>20, <1>21, <1>22, <1>23, <1>24, <1>25, <1>26, <1>27, <1>28,
           <1>29, <1>30, <1>31, <1>32, <1>33
        DEF Next, Process, Starting, Timers, Attempt, Callback, Monitor, Misfortune

\* The mode of the attempts.
LEMMA FallbackStep == (Enums /\ StepsOfRole /\ Fallback) /\ [Next]_vars => Fallback'
<1> SUFFICES ASSUME (Enums /\ StepsOfRole /\ Fallback), [Next]_vars PROVE Fallback'
  OBVIOUS
<1> USE DEF Fallback, StepsOfRole, Primary, AttemptAt, Ends, Ending, Waiting, Running, process, attempt, tunnel
<1>0. {role} \subseteq Roles /\ {initial, mode} \subseteq Modes
  BY DEF Enums
<1>1. CASE Interrupt
  BY <1>1 DEF Interrupt
<1>2. CASE MinutePasses
  BY <1>2, <1>0 DEF MinutePasses, Modes
<1>3. CASE Return
  BY <1>3, <1>0 DEF Return, NextMode, Modes
<1>4. CASE DelayInterrupted
  BY <1>4 DEF DelayInterrupted
<1>5. CASE DelayOver
  BY <1>5 DEF DelayOver
<1>6. CASE JoinInterrupted
  BY <1>6 DEF JoinInterrupted
<1>7. CASE JoinFails
  BY <1>7 DEF JoinFails
<1>8. CASE Join
  BY <1>8 DEF Join
<1>9. CASE Ready
  BY <1>9 DEF Ready
<1>10. CASE NotReady
  BY <1>10 DEF NotReady
<1>11. CASE WaitInterrupted
  BY <1>11 DEF WaitInterrupted
<1>12. CASE P2PTimeout
  BY <1>12, <1>0 DEF P2PTimeout, Modes
<1>13. CASE TransportTimeout
  BY <1>13 DEF TransportTimeout
<1>14. CASE Add
  BY <1>14 DEF Add
<1>15. CASE RelayReady
  BY <1>15 DEF RelayReady
<1>16. CASE RelayNotReady
  BY <1>16 DEF RelayNotReady
<1>17. CASE Interrupted
  BY <1>17 DEF Interrupted
<1>18. CASE Fails
  BY <1>18 DEF Fails
<1>19. CASE KeepsPeer
  BY <1>19 DEF KeepsPeer
<1>20. CASE PrimaryLost
  BY <1>20 DEF PrimaryLost
<1>21. CASE CloseAll
  BY <1>21 DEF CloseAll
<1>22. CASE Stop
  BY <1>22 DEF Stop
<1>23. CASE ClosePeer
  BY <1>23 DEF ClosePeer
<1>24. ASSUME NEW i \in Session, Connects(i) PROVE Fallback'
  BY <1>24 DEF Connects
<1>25. ASSUME NEW i \in Session, ChannelOpens(i) PROVE Fallback'
  BY <1>25 DEF ChannelOpens
<1>26. ASSUME NEW i \in Session, Start(i) PROVE Fallback'
  BY <1>26 DEF Start
<1>27. ASSUME NEW i \in Session, LosesTransport(i) PROVE Fallback'
  BY <1>27 DEF LosesTransport
<1>28. ASSUME NEW i \in Session, LosesSignaling(i) PROVE Fallback'
  BY <1>28 DEF LosesSignaling
<1>29. ASSUME NEW i \in Session, MonitorSignaling(i) PROVE Fallback'
  BY <1>29 DEF MonitorSignaling
<1>30. ASSUME NEW i \in Session, MonitorTransport(i) PROVE Fallback'
  BY <1>30 DEF MonitorTransport
<1>31. ASSUME NEW i \in Session, MonitorCloses(i) PROVE Fallback'
  BY <1>31 DEF MonitorCloses
<1>32. ASSUME NEW i \in Session, WatchSignaling(i) PROVE Fallback'
  BY <1>32 DEF WatchSignaling
<1>33. CASE UNCHANGED vars
  BY <1>33 DEF vars
<1> QED BY <1>1, <1>2, <1>3, <1>4, <1>5, <1>6, <1>7, <1>8, <1>9, <1>10,
           <1>11, <1>12, <1>13, <1>14, <1>15, <1>16, <1>17, <1>18, <1>19,
           <1>20, <1>21, <1>22, <1>23, <1>24, <1>25, <1>26, <1>27, <1>28,
           <1>29, <1>30, <1>31, <1>32, <1>33
        DEF Next, Process, Starting, Timers, Attempt, Callback, Monitor, Misfortune

-----------------------------------------------------------------------------
LEMMA StepPreserves == IInv /\ [Next]_vars => IInv'
  BY EnumStep, FlagStep, SessionStep, RoleStep, OwnedStep, FallbackStep DEF IInv

\* The inductive invariant holds in every reachable state, for any size of
\* pool and any number of failures.
THEOREM Invariance == Spec => []IInv
  BY InitEstablishes, StepPreserves, PTL DEF Spec

\* The state of the process keeps its shape.
THEOREM TypeCorrect == Spec => []TypeOK
<1>1. IInv => TypeOK
  BY TypeParts DEF IInv
<1> QED BY <1>1, Invariance, PTL

\* "Each attempt owns and closes its previous resources" (recovery.go:112): no
\* session outlives its attempt, except one its monitor is about to close.
THEOREM NoSessionOutlivesItsAttempt == Spec => []SessionsClosed
<1>1. IInv => SessionsClosed
  BY DEF IInv, Owned, SessionsClosed
<1> QED BY <1>1, Invariance, PTL

\* An attempt is over the relay in place of the mode asked for exactly when
\* the direct path timed out and no relay session has been ready for a minute
\* since (recovery.go:136-176).
THEOREM RelayIsJustified == Spec => []FallbackJustified
<1>1. IInv => FallbackJustified
  BY DEF IInv, Fallback, StepsOfRole, Ending, FallbackJustified
<1> QED BY <1>1, Invariance, PTL
=============================================================================
