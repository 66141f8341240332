----------------------------- MODULE Peer_proofs -----------------------------
(***************************************************************************)
(* What holds of the set-up of two peers for any number of controllers,    *)
(* candidates and text messages, and any order of events: the controlled   *)
(* peer's connection belongs to one controller, a required relay is        *)
(* verified, the open callback is not missed and no text is lost.          *)
(***************************************************************************)
EXTENDS Peer, FiniteSetTheorems, SequenceTheorems, TLAPS

\* The FILE channel at the controller: the callback is registered only after
\* the offer, after which the transport mode stays, and the two ways it may be
\* called, by the channel's handler and by the registration, exclude neither.
FileInv ==
  /\ register # "none" => cphase = "offered"
  /\ opened = "calling" => register # "none"
  /\ ready # "none" => register # "none"
  /\ opened # "none" => file = "open"
  /\ OpenNotMissed
  /\ RelayVerified

\* What the controlled peer has built for the offer it answers.
BuiltInv ==
  /\ closing = "no" => open = {pc} \ {0}
  /\ pc # 0 => pc = iceID
  /\ lock # "none" => iceID # 0
  /\ pc = 0 => sapplied = {}
  /\ pc # 0 => stun \in {0, pc}
  /\ \A c \in sapplied : c.ice = pc

\* Only the present controller is sent events, and only its own.
RoutedInv ==
  /\ ice \in Ice
  /\ toController \in Seq(Event)
  /\ \A j \in 1..Len(toController) : toController[j].ice = ice
  /\ \A c \in capplied \cup cpending : c.ice = ice

\* Of the FILE channel's handler and the registration, the later one calls.
LEMMA FileStep == FileInv /\ [Next]_vars => FileInv'
<1> SUFFICES ASSUME FileInv, [Next]_vars PROVE FileInv'
  OBVIOUS
<1> USE DEF FileInv, OpenNotMissed, RelayVerified, cvars, links, svars, fvars, tvars
<1>1. CASE RequestControl
  BY <1>1 DEF RequestControl
<1>2. CASE Connect
  BY <1>2 DEF Connect
<1>3. CASE ControlFails
  BY <1>3 DEF ControlFails
<1>4. CASE EmitCandidate
  BY <1>4 DEF EmitCandidate
<1>5. CASE SendOffer
  BY <1>5 DEF SendOffer
<1>6. CASE ControllerHandles
  BY <1>6 DEF ControllerHandles
<1>7. CASE ControllerRestarts
  BY <1>7 DEF ControllerRestarts
<1>8. CASE RegisterControlled
  BY <1>8 DEF RegisterControlled
<1>9. CASE CopyEarly
  BY <1>9 DEF CopyEarly
<1>10. CASE MarkReady
  BY <1>10 DEF MarkReady
<1>11. CASE DrainEnds
  BY <1>11 DEF DrainEnds
<1>12. CASE TakeEvent
  BY <1>12 DEF TakeEvent
<1>13. CASE AppendEarly
  BY <1>13 DEF AppendEarly
<1>14. CASE HandleInfo
  BY <1>14 DEF HandleInfo
<1>15. CASE BuildConnection
  BY <1>15 DEF BuildConnection
<1>16. CASE SendAnswer
  BY <1>16 DEF SendAnswer
<1>17. CASE OfferFails
  BY <1>17 DEF OfferFails
<1>18. CASE EmitControlledCandidate
  BY <1>18 DEF EmitControlledCandidate
<1>19. CASE MarkClosed
  BY <1>19 DEF MarkClosed
<1>20. CASE CloseConnection
  BY <1>20 DEF CloseConnection
<1>21. CASE IceConnects
  BY <1>21 DEF IceConnects
<1>22. CASE PairSelected
  BY <1>22 DEF PairSelected
<1>23. CASE FileOpens
  BY <1>23 DEF FileOpens
<1>24. CASE OpenHandler
  BY <1>24 DEF OpenHandler
<1>25. CASE StoreCallback
  BY <1>25 DEF StoreCallback
<1>26. CASE CheckState
  BY <1>26 DEF CheckState
<1>27. CASE Callback
  BY <1>27 DEF Callback
<1>28. CASE ReceiveText
  BY <1>28 DEF ReceiveText
<1>29. CASE PassText
  BY <1>29 DEF PassText
<1>30. CASE OnTextMessage
  BY <1>30 DEF OnTextMessage
<1>31. CASE ReplayText
  BY <1>31 DEF ReplayText
<1>32. ASSUME NEW who \in {"worker", "main"}, Ignore(who) PROVE FileInv'
  BY <1>32 DEF Ignore
<1>33. ASSUME NEW who \in {"worker", "main"}, AddCandidate(who) PROVE FileInv'
  BY <1>33 DEF AddCandidate
<1>34. ASSUME NEW who \in {"worker", "main"}, BeginOffer(who) PROVE FileInv'
  BY <1>34 DEF BeginOffer
<1>35. CASE UNCHANGED vars
  BY <1>35 DEF vars
<1> QED BY <1>1, <1>2, <1>3, <1>4, <1>5, <1>6, <1>7, <1>8, <1>9, <1>10,
           <1>11, <1>12, <1>13, <1>14, <1>15, <1>16, <1>17, <1>18, <1>19,
           <1>20, <1>21, <1>22, <1>23, <1>24, <1>25, <1>26, <1>27, <1>28,
           <1>29, <1>30, <1>31, <1>32, <1>33, <1>34, <1>35
        DEF Next, Controller, NewControlled, Worker, Handle, Answering, Closing,
            File, Text

\* Answers, failed answers and Close keep what is built one controller's.
LEMMA BuiltStep == BuiltInv /\ [Next]_vars => BuiltInv'
<1> SUFFICES ASSUME BuiltInv, [Next]_vars PROVE BuiltInv'
  OBVIOUS
<1> USE DEF BuiltInv, cvars, links, svars, fvars, tvars
<1>1. CASE RequestControl
  BY <1>1 DEF RequestControl
<1>2. CASE Connect
  BY <1>2 DEF Connect
<1>3. CASE ControlFails
  BY <1>3 DEF ControlFails
<1>4. CASE EmitCandidate
  BY <1>4 DEF EmitCandidate
<1>5. CASE SendOffer
  BY <1>5 DEF SendOffer
<1>6. CASE ControllerHandles
  BY <1>6 DEF ControllerHandles
<1>7. CASE ControllerRestarts
  BY <1>7 DEF ControllerRestarts
<1>8. CASE RegisterControlled
  BY <1>8 DEF RegisterControlled
<1>9. CASE CopyEarly
  BY <1>9 DEF CopyEarly
<1>10. CASE MarkReady
  BY <1>10 DEF MarkReady
<1>11. CASE DrainEnds
  BY <1>11 DEF DrainEnds
<1>12. CASE TakeEvent
  BY <1>12 DEF TakeEvent
<1>13. CASE AppendEarly
  BY <1>13 DEF AppendEarly
<1>14. CASE HandleInfo
  BY <1>14 DEF HandleInfo
<1>15. CASE BuildConnection
  BY <1>15 DEF BuildConnection
<1>16. CASE SendAnswer
  BY <1>16 DEF SendAnswer
<1>17. CASE OfferFails
  BY <1>17 DEF OfferFails
<1>18. CASE EmitControlledCandidate
  BY <1>18 DEF EmitControlledCandidate
<1>19. CASE MarkClosed
  BY <1>19 DEF MarkClosed
<1>20. CASE CloseConnection
  BY <1>20 DEF CloseConnection
<1>21. CASE IceConnects
  BY <1>21 DEF IceConnects
<1>22. CASE PairSelected
  BY <1>22 DEF PairSelected
<1>23. CASE FileOpens
  BY <1>23 DEF FileOpens
<1>24. CASE OpenHandler
  BY <1>24 DEF OpenHandler
<1>25. CASE StoreCallback
  BY <1>25 DEF StoreCallback
<1>26. CASE CheckState
  BY <1>26 DEF CheckState
<1>27. CASE Callback
  BY <1>27 DEF Callback
<1>28. CASE ReceiveText
  BY <1>28 DEF ReceiveText
<1>29. CASE PassText
  BY <1>29 DEF PassText
<1>30. CASE OnTextMessage
  BY <1>30 DEF OnTextMessage
<1>31. CASE ReplayText
  BY <1>31 DEF ReplayText
<1>32. ASSUME NEW who \in {"worker", "main"}, Ignore(who) PROVE BuiltInv'
  BY <1>32 DEF Ignore
<1>33. ASSUME NEW who \in {"worker", "main"}, AddCandidate(who) PROVE BuiltInv'
  BY <1>33 DEF AddCandidate, Candidate
<1>34. ASSUME NEW who \in {"worker", "main"}, BeginOffer(who) PROVE BuiltInv'
  BY <1>34 DEF BeginOffer, Ice
<1>35. CASE UNCHANGED vars
  BY <1>35 DEF vars
<1> QED BY <1>1, <1>2, <1>3, <1>4, <1>5, <1>6, <1>7, <1>8, <1>9, <1>10,
           <1>11, <1>12, <1>13, <1>14, <1>15, <1>16, <1>17, <1>18, <1>19,
           <1>20, <1>21, <1>22, <1>23, <1>24, <1>25, <1>26, <1>27, <1>28,
           <1>29, <1>30, <1>31, <1>32, <1>33, <1>34, <1>35
        DEF Next, Controller, NewControlled, Worker, Handle, Answering, Closing,
            File, Text

\* What ControllerRestarts leaves: no events, and the next number.
LEMMA NoEvents == <<>> \in Seq(Event) /\ \A i : \A j \in 1..Len(<<>>) : <<>>[j].ice = i
  OBVIOUS

LEMMA NextIncarnation == ASSUME NEW i \in Ice, i < Controllers PROVE i + 1 \in Ice
  BY PeerAssumption DEF Ice

\* Adding to, and taking from, a sequence whose elements all have a property.
LEMMA AppendKeepsIce ==
  ASSUME NEW s \in Seq(Event), NEW e \in Event, NEW i,
         e.ice = i, \A j \in 1..Len(s) : s[j].ice = i
  PROVE  /\ Append(s, e) \in Seq(Event)
         /\ \A j \in 1..Len(Append(s, e)) : Append(s, e)[j].ice = i
  OBVIOUS

LEMMA TailKeepsIce ==
  ASSUME NEW s \in Seq(Event), NEW i, s # <<>>, \A j \in 1..Len(s) : s[j].ice = i
  PROVE  /\ Tail(s) \in Seq(Event)
         /\ \A j \in 1..Len(Tail(s)) : Tail(s)[j].ice = i
         /\ Head(s).ice = i
  OBVIOUS

LEMMA EventTypes ==
  ASSUME NEW i \in Ice
  PROVE  /\ Answer(i) \in Event /\ Answer(i).ice = i
         /\ \A n \in 1..Candidates : Candidate(i, n) \in Event /\ Candidate(i, n).ice = i
  BY PeerAssumption DEF Answer, Candidate, Event

\* Only events of the present controller reach its connection.
LEMMA RoutedStep == RoutedInv /\ [Next]_vars => RoutedInv'
<1> SUFFICES ASSUME RoutedInv, [Next]_vars PROVE RoutedInv'
  OBVIOUS
<1> USE DEF RoutedInv, cvars, links, svars, fvars, tvars
<1>1. CASE RequestControl
  BY <1>1 DEF RequestControl
<1>2. CASE Connect
  BY <1>2 DEF Connect
<1>3. CASE ControlFails
  BY <1>3 DEF ControlFails
<1>4. CASE EmitCandidate
  BY <1>4 DEF EmitCandidate
<1>5. CASE SendOffer
  BY <1>5 DEF SendOffer
<1>6. CASE ControllerHandles
  BY <1>6, TailKeepsIce DEF ControllerHandles
<1>7. CASE ControllerRestarts
  BY <1>7, NoEvents, NextIncarnation DEF ControllerRestarts
<1>8. CASE RegisterControlled
  BY <1>8 DEF RegisterControlled
<1>9. CASE CopyEarly
  BY <1>9 DEF CopyEarly
<1>10. CASE MarkReady
  BY <1>10 DEF MarkReady
<1>11. CASE DrainEnds
  BY <1>11 DEF DrainEnds
<1>12. CASE TakeEvent
  BY <1>12 DEF TakeEvent
<1>13. CASE AppendEarly
  BY <1>13 DEF AppendEarly
<1>14. CASE HandleInfo
  BY <1>14 DEF HandleInfo
<1>15. CASE BuildConnection
  BY <1>15 DEF BuildConnection
<1>16. CASE SendAnswer
  BY <1>16, AppendKeepsIce, EventTypes DEF SendAnswer
<1>17. CASE OfferFails
  BY <1>17 DEF OfferFails
<1>18. CASE EmitControlledCandidate
  BY <1>18, AppendKeepsIce, EventTypes DEF EmitControlledCandidate
<1>19. CASE MarkClosed
  BY <1>19 DEF MarkClosed
<1>20. CASE CloseConnection
  BY <1>20 DEF CloseConnection
<1>21. CASE IceConnects
  BY <1>21 DEF IceConnects
<1>22. CASE PairSelected
  BY <1>22 DEF PairSelected
<1>23. CASE FileOpens
  BY <1>23 DEF FileOpens
<1>24. CASE OpenHandler
  BY <1>24 DEF OpenHandler
<1>25. CASE StoreCallback
  BY <1>25 DEF StoreCallback
<1>26. CASE CheckState
  BY <1>26 DEF CheckState
<1>27. CASE Callback
  BY <1>27 DEF Callback
<1>28. CASE ReceiveText
  BY <1>28 DEF ReceiveText
<1>29. CASE PassText
  BY <1>29 DEF PassText
<1>30. CASE OnTextMessage
  BY <1>30 DEF OnTextMessage
<1>31. CASE ReplayText
  BY <1>31 DEF ReplayText
<1>32. ASSUME NEW who \in {"worker", "main"}, Ignore(who) PROVE RoutedInv'
  BY <1>32 DEF Ignore
<1>33. ASSUME NEW who \in {"worker", "main"}, AddCandidate(who) PROVE RoutedInv'
  BY <1>33 DEF AddCandidate
<1>34. ASSUME NEW who \in {"worker", "main"}, BeginOffer(who) PROVE RoutedInv'
  BY <1>34 DEF BeginOffer
<1>35. CASE UNCHANGED vars
  BY <1>35 DEF vars
<1> QED BY <1>1, <1>2, <1>3, <1>4, <1>5, <1>6, <1>7, <1>8, <1>9, <1>10,
           <1>11, <1>12, <1>13, <1>14, <1>15, <1>16, <1>17, <1>18, <1>19,
           <1>20, <1>21, <1>22, <1>23, <1>24, <1>25, <1>26, <1>27, <1>28,
           <1>29, <1>30, <1>31, <1>32, <1>33, <1>34, <1>35
        DEF Next, Controller, NewControlled, Worker, Handle, Answering, Closing,
            File, Text

\* The elements of a sequence that grows at its end, or loses its head.
LEMMA EventsAppend ==
  ASSUME NEW s \in Seq(Nat), NEW m \in Nat
  PROVE  /\ Append(s, m) \in Seq(Nat) /\ Len(Append(s, m)) = Len(s) + 1
         /\ Events(Append(s, m)) = Events(s) \cup {m}
<1>1. Append(s, m) \in Seq(Nat) /\ Len(Append(s, m)) = Len(s) + 1 /\ Len(s) \in Nat
  OBVIOUS
<1>2. /\ \A i \in 1..Len(s) : Append(s, m)[i] = s[i]
      /\ Append(s, m)[Len(s) + 1] = m
  OBVIOUS
<1>3. DOMAIN s = 1..Len(s) /\ DOMAIN Append(s, m) = 1..Len(s) \cup {Len(s) + 1}
  BY <1>1
<1> QED BY <1>1, <1>2, <1>3 DEF Events

LEMMA EventsTail ==
  ASSUME NEW s \in Seq(Nat), s # <<>>
  PROVE  /\ Tail(s) \in Seq(Nat) /\ Len(s) = Len(Tail(s)) + 1 /\ Head(s) \in Nat
         /\ Events(s) = {Head(s)} \cup Events(Tail(s))
<1>1. /\ Tail(s) \in Seq(Nat) /\ Len(s) = Len(Tail(s)) + 1 /\ Head(s) \in Nat
      /\ Head(s) = s[1] /\ Len(s) \in Nat /\ Len(s) > 0
  OBVIOUS
<1>2. \A i \in 1..Len(Tail(s)) : Tail(s)[i] = s[i + 1]
  OBVIOUS
<1>3. DOMAIN s = 1..Len(s) /\ DOMAIN Tail(s) = 1..Len(Tail(s))
  BY <1>1
<1>4. 1..Len(s) = {1} \cup {i + 1 : i \in 1..Len(Tail(s))}
  <2>1. ASSUME NEW i \in 1..Len(s), i # 1 PROVE i - 1 \in 1..Len(Tail(s)) /\ i = (i - 1) + 1
    BY <1>1, <2>1
  <2>2. Len(Tail(s)) \in Nat
    BY <1>1
  <2>3. ASSUME NEW i \in 1..Len(Tail(s)) PROVE i + 1 \in 1..Len(s)
    BY <1>1, <2>2
  <2>4. 1 \in 1..Len(s)
    BY <1>1
  <2> QED BY <2>1, <2>3, <2>4, Zenon
<1>5. Events(s) = {s[1]} \cup {s[i + 1] : i \in 1..Len(Tail(s))}
  BY <1>3, <1>4, ZenonT(30) DEF Events
<1>6. Events(Tail(s)) = {s[i + 1] : i \in 1..Len(Tail(s))}
  BY <1>2, <1>3 DEF Events
<1> QED BY <1>1, <1>5, <1>6

LEMMA EventsNone == Events(<<>>) = {} /\ <<>> \in Seq(Nat) /\ Len(<<>>) = 0
  BY DEF Events

LEMMA EventsOne ==
  ASSUME NEW m \in Nat
  PROVE  Events(<<m>>) = {m} /\ <<m>> \in Seq(Nat) /\ Len(<<m>>) = 1
  BY DEF Events

\* The messages of a handler or of the reading loop, one by one.
TextInv ==
  /\ received \in Nat
  /\ thand = <<>> \/ \E m \in Nat : thand = <<m>>
  /\ held \in Seq(Nat) /\ replay \in Seq(Nat) /\ heard \in Seq(Nat)
  /\ ~listening => replay = <<>>
  /\ IsFiniteSet(dropped)
  /\ TextConserved

LEMMA TextTypes == TextInv => thand \in Seq(Nat)
  BY EventsNone, EventsOne DEF TextInv

LEMMA TextReceived == TextInv /\ ReceiveText => TextInv'
<1> SUFFICES ASSUME TextInv, ReceiveText PROVE TextInv'
  OBVIOUS
<1>1. /\ thand = <<>> /\ received \in Nat /\ received' = received + 1
      /\ replay' = replay /\ heard' = heard /\ listening' = listening
      /\ held \in Seq(Nat) /\ replay \in Seq(Nat) /\ heard \in Seq(Nat)
      /\ ~listening => replay = <<>>
      /\ IsFiniteSet(dropped)
  BY DEF TextInv, ReceiveText
<1>2. /\ Len(held) \in Nat /\ Len(replay) \in Nat /\ Len(heard) \in Nat
      /\ Cardinality(dropped) \in Nat
      /\ Events(thand) = {} /\ Len(thand) = 0
  BY <1>1, FS_CardinalityType, EventsNone
<1>3. /\ 1..received = Events(held) \cup Events(replay) \cup Events(heard) \cup dropped
      /\ received = Len(held) + Len(replay) + Len(heard) + Cardinality(dropped)
  BY <1>1, <1>2 DEF TextInv, TextConserved
<1>4. 1..received' = 1..received \cup {received'} /\ received' \in Nat /\ received' \notin 1..received
  BY <1>1
<1>5. CASE thand' = <<received'>> /\ UNCHANGED <<held, dropped>>
  <2>1. Events(thand') = {received'} /\ Len(thand') = 1
    BY <1>4, <1>5, EventsOne
  <2>2. 1..received' = Events(thand') \cup Events(held') \cup Events(replay') \cup Events(heard') \cup dropped'
    BY <1>1, <1>2, <1>3, <1>4, <1>5, <2>1
  <2>3. received' = Len(thand') + Len(held') + Len(replay') + Len(heard') + Cardinality(dropped')
    BY <1>1, <1>2, <1>3, <1>5, <2>1
  <2> QED BY <1>1, <1>4, <1>5, <2>2, <2>3 DEF TextInv, TextConserved
<1>6. CASE held' = Append(held, received') /\ UNCHANGED <<thand, dropped>>
  <2>1. /\ held' \in Seq(Nat) /\ Len(held') = Len(held) + 1
        /\ Events(held') = Events(held) \cup {received'}
    BY <1>1, <1>4, <1>6, EventsAppend
  <2>2. 1..received' = Events(thand') \cup Events(held') \cup Events(replay') \cup Events(heard') \cup dropped'
    BY <1>1, <1>2, <1>3, <1>4, <1>6, <2>1
  <2>3. received' = Len(thand') + Len(held') + Len(replay') + Len(heard') + Cardinality(dropped')
    BY <1>1, <1>2, <1>3, <1>6, <2>1
  <2> QED BY <1>1, <1>4, <1>6, <2>1, <2>2, <2>3 DEF TextInv, TextConserved
<1>7. CASE dropped' = dropped \cup {received'} /\ UNCHANGED <<thand, held>>
  <2>1. received' \notin dropped
    BY <1>3, <1>4
  <2>2. IsFiniteSet(dropped') /\ Cardinality(dropped') = Cardinality(dropped) + 1
    BY <1>1, <1>7, <2>1, FS_AddElement
  <2>3. 1..received' = Events(thand') \cup Events(held') \cup Events(replay') \cup Events(heard') \cup dropped'
    BY <1>1, <1>2, <1>3, <1>4, <1>7
  <2>4. received' = Len(thand') + Len(held') + Len(replay') + Len(heard') + Cardinality(dropped')
    BY <1>1, <1>2, <1>3, <1>7, <2>2
  <2> QED BY <1>1, <1>4, <1>7, <2>2, <2>3, <2>4 DEF TextInv, TextConserved
<1> QED BY <1>5, <1>6, <1>7 DEF ReceiveText

LEMMA TextPassed == TextInv /\ PassText => TextInv'
<1> SUFFICES ASSUME TextInv, PassText PROVE TextInv'
  OBVIOUS
<1>1. /\ received' = received /\ held' = held /\ replay' = replay /\ dropped' = dropped
      /\ listening' = listening /\ thand' = <<>> /\ heard' = heard \o thand
      /\ held \in Seq(Nat) /\ replay \in Seq(Nat) /\ heard \in Seq(Nat)
      /\ received \in Nat /\ IsFiniteSet(dropped) /\ (~listening => replay = <<>>)
  BY DEF TextInv, PassText
<1>2. PICK m \in Nat : thand = <<m>>
  BY DEF TextInv, PassText
<1>3. heard' = Append(heard, m)
  BY <1>1, <1>2
<1>4. /\ heard' \in Seq(Nat) /\ Len(heard') = Len(heard) + 1
      /\ Events(heard') = Events(heard) \cup {m}
  BY <1>1, <1>3, EventsAppend
<1>5. /\ Events(thand) = {m} /\ Len(thand) = 1 /\ Events(thand') = {} /\ Len(thand') = 0
  BY <1>1, <1>2, EventsOne, EventsNone
<1>6. /\ Len(held) \in Nat /\ Len(replay) \in Nat /\ Len(heard) \in Nat
      /\ Cardinality(dropped) \in Nat
  <2>1. Cardinality(dropped) \in Nat
    BY <1>1, FS_CardinalityType
  <2> QED BY <1>1, <2>1
<1>7. /\ 1..received = Events(thand) \cup Events(held) \cup Events(replay) \cup Events(heard) \cup dropped
      /\ received = Len(thand) + Len(held) + Len(replay) + Len(heard) + Cardinality(dropped)
  BY DEF TextInv, TextConserved
<1>8. 1..received' = Events(thand') \cup Events(held') \cup Events(replay') \cup Events(heard') \cup dropped'
  BY <1>1, <1>4, <1>5, <1>7
<1>9. received' = Len(thand') + Len(held') + Len(replay') + Len(heard') + Cardinality(dropped')
  BY <1>1, <1>4, <1>5, <1>6, <1>7
<1> QED BY <1>1, <1>4, <1>8, <1>9 DEF TextInv, TextConserved

LEMMA TextRegistered == TextInv /\ OnTextMessage => TextInv'
<1> SUFFICES ASSUME TextInv, OnTextMessage PROVE TextInv'
  OBVIOUS
<1>1. /\ received' = received /\ thand' = thand /\ heard' = heard /\ dropped' = dropped
      /\ listening' = TRUE /\ replay = <<>> /\ replay' = held /\ held' = <<>>
      /\ held \in Seq(Nat) /\ heard \in Seq(Nat) /\ received \in Nat /\ IsFiniteSet(dropped)
  BY DEF TextInv, OnTextMessage
<1>2. /\ Events(replay) = {} /\ Len(replay) = 0 /\ Events(held') = {} /\ Len(held') = 0
      /\ held' \in Seq(Nat)
  BY <1>1, EventsNone
<1>3. thand \in Seq(Nat)
  BY TextTypes
<1>4. /\ Len(thand) \in Nat /\ Len(held) \in Nat /\ Len(heard) \in Nat
      /\ Cardinality(dropped) \in Nat
  <2>1. Cardinality(dropped) \in Nat
    BY <1>1, FS_CardinalityType
  <2> QED BY <1>1, <2>1, <1>3
<1>5. /\ 1..received = Events(thand) \cup Events(held) \cup Events(replay) \cup Events(heard) \cup dropped
      /\ received = Len(thand) + Len(held) + Len(replay) + Len(heard) + Cardinality(dropped)
  BY DEF TextInv, TextConserved
<1>6. 1..received' = Events(thand') \cup Events(held') \cup Events(replay') \cup Events(heard') \cup dropped'
  BY <1>1, <1>2, <1>5
<1>7. received' = Len(thand') + Len(held') + Len(replay') + Len(heard') + Cardinality(dropped')
  BY <1>1, <1>2, <1>4, <1>5
<1> QED BY <1>1, <1>2, <1>6, <1>7, TextTypes DEF TextInv, TextConserved

LEMMA TextReplayed == TextInv /\ ReplayText => TextInv'
<1> SUFFICES ASSUME TextInv, ReplayText PROVE TextInv'
  OBVIOUS
<1>1. /\ received' = received /\ thand' = thand /\ held' = held /\ dropped' = dropped
      /\ listening' = listening /\ replay # <<>>
      /\ heard' = Append(heard, Head(replay)) /\ replay' = Tail(replay)
      /\ held \in Seq(Nat) /\ replay \in Seq(Nat) /\ heard \in Seq(Nat)
      /\ received \in Nat /\ IsFiniteSet(dropped) /\ (~listening => replay = <<>>)
  BY DEF TextInv, ReplayText
<1>2. /\ replay' \in Seq(Nat) /\ Len(replay) = Len(replay') + 1 /\ Head(replay) \in Nat
      /\ Events(replay) = {Head(replay)} \cup Events(replay')
  BY <1>1, EventsTail
<1>3. /\ heard' \in Seq(Nat) /\ Len(heard') = Len(heard) + 1
      /\ Events(heard') = Events(heard) \cup {Head(replay)}
  BY <1>1, <1>2, EventsAppend
<1>4. /\ thand \in Seq(Nat)
  BY TextTypes
<1>5. /\ Len(thand) \in Nat /\ Len(held) \in Nat /\ Len(replay') \in Nat /\ Len(heard) \in Nat
      /\ Cardinality(dropped) \in Nat
  <2>1. Cardinality(dropped) \in Nat
    BY <1>1, FS_CardinalityType
  <2> QED BY <1>1, <2>1, <1>2, <1>4
<1>6. /\ 1..received = Events(thand) \cup Events(held) \cup Events(replay) \cup Events(heard) \cup dropped
      /\ received = Len(thand) + Len(held) + Len(replay) + Len(heard) + Cardinality(dropped)
  BY DEF TextInv, TextConserved
<1>7. 1..received' = Events(thand') \cup Events(held') \cup Events(replay') \cup Events(heard') \cup dropped'
  BY <1>1, <1>2, <1>3, <1>6
<1>8. received' = Len(thand') + Len(held') + Len(replay') + Len(heard') + Cardinality(dropped')
  BY <1>1, <1>2, <1>3, <1>5, <1>6
<1> QED BY <1>1, <1>2, <1>3, <1>7, <1>8 DEF TextInv, TextConserved

LEMMA TextNothing ==
  ASSUME received' = 0, thand' = <<>>, held' = <<>>, replay' = <<>>, heard' = <<>>, dropped' = {}
  PROVE  TextInv'
  BY EventsNone, FS_EmptySet DEF TextInv, TextConserved

LEMMA TextUnchanged == TextInv /\ UNCHANGED tvars => TextInv'
  BY DEF TextInv, TextConserved, tvars

\* Every step keeps the messages accounted for.
LEMMA TextStep == TextInv /\ [Next]_vars => TextInv'
<1> SUFFICES ASSUME TextInv, [Next]_vars PROVE TextInv'
  OBVIOUS
<1>1. CASE RequestControl
  BY <1>1, TextUnchanged DEF RequestControl
<1>2. CASE Connect
  BY <1>2, TextUnchanged DEF Connect
<1>3. CASE ControlFails
  BY <1>3, TextUnchanged DEF ControlFails
<1>4. CASE EmitCandidate
  BY <1>4, TextUnchanged DEF EmitCandidate
<1>5. CASE SendOffer
  BY <1>5, TextUnchanged DEF SendOffer
<1>6. CASE ControllerHandles
  BY <1>6, TextUnchanged DEF ControllerHandles
<1>7. CASE ControllerRestarts
  BY <1>7, TextNothing DEF ControllerRestarts
<1>8. CASE RegisterControlled
  BY <1>8, TextUnchanged DEF RegisterControlled
<1>9. CASE CopyEarly
  BY <1>9, TextUnchanged DEF CopyEarly
<1>10. CASE MarkReady
  BY <1>10, TextUnchanged DEF MarkReady
<1>11. CASE DrainEnds
  BY <1>11, TextUnchanged DEF DrainEnds
<1>12. CASE TakeEvent
  BY <1>12, TextUnchanged DEF TakeEvent
<1>13. CASE AppendEarly
  BY <1>13, TextUnchanged DEF AppendEarly
<1>14. CASE HandleInfo
  BY <1>14, TextUnchanged DEF HandleInfo
<1>15. CASE BuildConnection
  BY <1>15, TextUnchanged DEF BuildConnection
<1>16. CASE SendAnswer
  BY <1>16, TextUnchanged DEF SendAnswer
<1>17. CASE OfferFails
  BY <1>17, TextUnchanged DEF OfferFails
<1>18. CASE EmitControlledCandidate
  BY <1>18, TextUnchanged DEF EmitControlledCandidate
<1>19. CASE MarkClosed
  BY <1>19, TextUnchanged DEF MarkClosed
<1>20. CASE CloseConnection
  BY <1>20, TextUnchanged DEF CloseConnection
<1>21. CASE IceConnects
  BY <1>21, TextUnchanged DEF IceConnects
<1>22. CASE PairSelected
  BY <1>22, TextUnchanged DEF PairSelected
<1>23. CASE FileOpens
  BY <1>23, TextUnchanged DEF FileOpens
<1>24. CASE OpenHandler
  BY <1>24, TextUnchanged DEF OpenHandler
<1>25. CASE StoreCallback
  BY <1>25, TextUnchanged DEF StoreCallback
<1>26. CASE CheckState
  BY <1>26, TextUnchanged DEF CheckState
<1>27. CASE Callback
  BY <1>27, TextUnchanged DEF Callback
<1>28. CASE ReceiveText
  BY <1>28, TextReceived
<1>29. CASE PassText
  BY <1>29, TextPassed
<1>30. CASE OnTextMessage
  BY <1>30, TextRegistered
<1>31. CASE ReplayText
  BY <1>31, TextReplayed
<1>32. ASSUME NEW who \in {"worker", "main"}, Ignore(who) PROVE TextInv'
  BY <1>32, TextUnchanged DEF Ignore
<1>33. ASSUME NEW who \in {"worker", "main"}, AddCandidate(who) PROVE TextInv'
  BY <1>33, TextUnchanged DEF AddCandidate
<1>34. ASSUME NEW who \in {"worker", "main"}, BeginOffer(who) PROVE TextInv'
  BY <1>34, TextUnchanged DEF BeginOffer
<1>35. CASE UNCHANGED vars
  BY <1>35, TextUnchanged DEF vars
<1> QED BY <1>1, <1>2, <1>3, <1>4, <1>5, <1>6, <1>7, <1>8, <1>9, <1>10,
           <1>11, <1>12, <1>13, <1>14, <1>15, <1>16, <1>17, <1>18, <1>19,
           <1>20, <1>21, <1>22, <1>23, <1>24, <1>25, <1>26, <1>27, <1>28,
           <1>29, <1>30, <1>31, <1>32, <1>33, <1>34, <1>35
        DEF Next, Controller, NewControlled, Worker, Handle, Answering, Closing,
            File, Text

\* The inductive invariant, of four parts none of which needs another.
IInv == FileInv /\ BuiltInv /\ RoutedInv /\ TextInv

LEMMA InitInv == Init => IInv
<1> SUFFICES ASSUME Init PROVE IInv
  OBVIOUS
<1>1. FileInv
  BY DEF Init, FileInv, OpenNotMissed, RelayVerified
<1>2. BuiltInv
  BY DEF Init, BuiltInv
<1>3. RoutedInv
  <2>1. 1 \in Ice
    BY PeerAssumption DEF Ice
  <2> QED BY <2>1, NoEvents DEF Init, RoutedInv
<1>4. TextInv
  BY EventsNone, FS_EmptySet DEF Init, TextInv, TextConserved
<1> QED BY <1>1, <1>2, <1>3, <1>4 DEF IInv

\* The set-up of the two peers keeps the invariant in any number of
\* incarnations, candidates and messages.
THEOREM Invariance == Spec => []IInv
<1>1. IInv /\ [Next]_vars => IInv'
  BY FileStep, BuiltStep, RoutedStep, TextStep DEF IInv
<1> QED BY InitInv, <1>1, PTL DEF Spec

\* What the controlled peer has built belongs to one controller (of
\* answerControlledOffer, controlledSTUNServers, addRemoteCandidate, Close).
THEOREM ConnectionBelongsToOne == Spec => []ConnectionConsistent
<1>1. IInv => ConnectionConsistent
  BY DEF IInv, BuiltInv, RoutedInv, ConnectionConsistent
<1> QED BY Invariance, <1>1, PTL

\* A session that must be relayed is reported ready only over a pair that is
\* known to be (of ValidateTransportMode in the open callback).
THEOREM ReadyIsRelayed == Spec => []RelayVerified
<1>1. IInv => RelayVerified
  BY DEF IInv, FileInv
<1> QED BY Invariance, <1>1, PTL

\* The open callback runs however its registration meets the opening of the
\* channel (of OnFileChannelOpen and the channel's OnOpen).
THEOREM CallbackRuns == Spec => []OpenNotMissed
<1>1. IInv => OpenNotMissed
  BY DEF IInv, FileInv
<1> QED BY Invariance, <1>1, PTL

\* Every text message is in one place (of handleTextMessage, OnTextMessage).
THEOREM NoTextIsLost == Spec => []TextConserved
<1>1. IInv => TextConserved
  BY DEF IInv, TextInv
<1> QED BY Invariance, <1>1, PTL
=============================================================================
