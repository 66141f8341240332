-------------------------- MODULE StreamPair_proofs --------------------------
(***************************************************************************)
(* What holds of a forwarded connection for every window, inbox and amount *)
(* of data, and whichever faults strike.                                   *)
(***************************************************************************)
EXTENDS StreamPair, FiniteSetTheorems, TLAPS

\* The steps a [Next]_vars step can be, as the proofs below take them apart.
LEMMA Steps ==
  [Next]_vars =>
    \/ Accept \/ SendConnect \/ BindConnect \/ HandleConnect
    \/ DialSucceeds \/ DialFails \/ AnswerConnect
    \/ \E e \in Side :
         \/ HandleSynAck(e) \/ HandleQueued(e) \/ HandleDataAck(e)
         \/ ReaderStarts(e) \/ ReadChunk(e) \/ ReadEOF(e) \/ ReadClosed(e)
         \/ AcquireSlot(e) \/ AcquireClosed(e) \/ TransmitData(e) \/ EnqueueEOF(e)
         \/ WriterStops(e) \/ TakeLocalEOF(e) \/ RemoveFinished(e) \/ HalfClose(e)
         \/ TakeRemoteFIN(e) \/ TakeData(e) \/ WriteSucceeds(e) \/ WriteFails(e)
         \/ SendAck(e) \/ TimerFires(e) \/ FinishRemove(e)
         \/ RemoveSession(e) \/ CloseStreams(e)
    \/ UNCHANGED vars
  BY Zenon DEF Next, Acceptor, Dial, SideStep, Receive, Reader, Writer

LEMMA Sides ==
  /\ "opener" \in Side /\ "target" \in Side
  /\ \A e \in Side : Other(e) \in Side /\ Other(e) # e /\ Other(Other(e)) = e
                     /\ (e = "opener" \/ e = "target")
  /\ Other("opener") = "target" /\ Other("target") = "opener"
  BY DEF Side, Other

-----------------------------------------------------------------------------
(* The shape of the state.                                                 *)

\* What a link or an inbox holds.
Msg == [type : {"CONNECT", "DATA_ACK", "FIN", "localEOF"}]
       \cup [type : {"SYN_ACK"}, ok : BOOLEAN] \cup [type : {"DATA"}, n : Nat]

Stream ==
  [conn : {"none", "open", "shut", "closed"}, ready : BOOLEAN, closed : BOOLEAN,
   inbox : Seq(Msg), acks : Nat, finSent : BOOLEAN, finRecv : BOOLEAN, timer : BOOLEAN]

LEMMA MsgTypes ==
  /\ Connect \in Msg /\ Connect.type = "CONNECT"
  /\ DataAck \in Msg /\ DataAck.type = "DATA_ACK"
  /\ Fin \in Msg /\ Fin.type = "FIN"
  /\ LocalEOF \in Msg /\ LocalEOF.type = "localEOF"
  /\ \A ok \in BOOLEAN : SynAck(ok) \in Msg /\ SynAck(ok).type = "SYN_ACK" /\ SynAck(ok).ok = ok
  /\ \A n \in Nat : Data(n) \in Msg /\ Data(n).type = "DATA" /\ Data(n).n = n
<1>1. Connect \in Msg /\ Connect.type = "CONNECT"
  BY DEF Msg, Connect
<1>2. DataAck \in Msg /\ DataAck.type = "DATA_ACK"
  BY DEF Msg, DataAck
<1>3. Fin \in Msg /\ Fin.type = "FIN"
  BY DEF Msg, Fin
<1>4. LocalEOF \in Msg /\ LocalEOF.type = "localEOF"
  BY DEF Msg, LocalEOF
<1>5. \A ok \in BOOLEAN : SynAck(ok) \in Msg /\ SynAck(ok).type = "SYN_ACK" /\ SynAck(ok).ok = ok
  BY DEF Msg, SynAck
<1>6. \A n \in Nat : Data(n) \in Msg /\ Data(n).type = "DATA" /\ Data(n).n = n
  BY DEF Msg, Data
<1> QED BY <1>1, <1>2, <1>3, <1>4, <1>5, <1>6

LEMMA DataNumber ==
  \A m \in Msg : m.type = "DATA" => m.n \in Nat
  BY DEF Msg

LEMMA MsgSeq ==
  /\ <<>> \in Seq(Msg)
  /\ \A q \in Seq(Msg) : \A m \in Msg : Append(q, m) \in Seq(Msg)
  /\ \A q \in Seq(Msg) : q # <<>> => Head(q) \in Msg /\ Tail(q) \in Seq(Msg)
  OBVIOUS

LEMMA NewStreamType ==
  \A c \in {"none", "open"} : NewStream(c) \in Stream
  BY MsgSeq DEF NewStream, Stream

Streams == [Side -> Stream]

LEMMA FieldUpdates ==
  \A s \in Stream :
    /\ \A n \in Nat : [s EXCEPT !.acks = n] \in Stream
    /\ \A q \in Seq(Msg) : [s EXCEPT !.inbox = q] \in Stream
    /\ \A b \in BOOLEAN :
         /\ [s EXCEPT !.ready = b] \in Stream /\ [s EXCEPT !.closed = b] \in Stream
         /\ [s EXCEPT !.finSent = b] \in Stream /\ [s EXCEPT !.finRecv = b] \in Stream
         /\ [s EXCEPT !.timer = b] \in Stream
    /\ \A c \in {"none", "open", "shut", "closed"} : [s EXCEPT !.conn = c] \in Stream
<1> SUFFICES ASSUME NEW s \in Stream PROVE
    /\ \A n \in Nat : [s EXCEPT !.acks = n] \in Stream
    /\ \A q \in Seq(Msg) : [s EXCEPT !.inbox = q] \in Stream
    /\ \A b \in BOOLEAN :
         /\ [s EXCEPT !.ready = b] \in Stream /\ [s EXCEPT !.closed = b] \in Stream
         /\ [s EXCEPT !.finSent = b] \in Stream /\ [s EXCEPT !.finRecv = b] \in Stream
         /\ [s EXCEPT !.timer = b] \in Stream
    /\ \A c \in {"none", "open", "shut", "closed"} : [s EXCEPT !.conn = c] \in Stream
  OBVIOUS
<1>1. \A n \in Nat : [s EXCEPT !.acks = n] \in Stream
  BY DEF Stream
<1>2. \A q \in Seq(Msg) : [s EXCEPT !.inbox = q] \in Stream
  BY DEF Stream
<1>3. \A b \in BOOLEAN : [s EXCEPT !.ready = b] \in Stream /\ [s EXCEPT !.closed = b] \in Stream
  BY DEF Stream
<1>4. \A b \in BOOLEAN : [s EXCEPT !.finSent = b] \in Stream /\ [s EXCEPT !.finRecv = b] \in Stream
  BY DEF Stream
<1>5. \A b \in BOOLEAN : [s EXCEPT !.timer = b] \in Stream
  BY DEF Stream
<1>6. \A c \in {"none", "open", "shut", "closed"} : [s EXCEPT !.conn = c] \in Stream
  BY DEF Stream
<1> QED BY <1>1, <1>2, <1>3, <1>4, <1>5, <1>6

LEMMA StreamUpdates ==
  \A s \in Streams : \A e \in Side :
    /\ \A n \in Nat : [s EXCEPT ![e].acks = n] \in Streams
    /\ \A q \in Seq(Msg) : [s EXCEPT ![e].inbox = q] \in Streams
    /\ \A b \in BOOLEAN :
         /\ [s EXCEPT ![e].ready = b] \in Streams /\ [s EXCEPT ![e].closed = b] \in Streams
         /\ [s EXCEPT ![e].finSent = b] \in Streams /\ [s EXCEPT ![e].finRecv = b] \in Streams
         /\ [s EXCEPT ![e].timer = b] \in Streams
    /\ \A c \in {"none", "open", "shut", "closed"} : [s EXCEPT ![e].conn = c] \in Streams
    /\ \A v \in Stream : [s EXCEPT ![e] = v] \in Streams
<1> SUFFICES ASSUME NEW s \in Streams, NEW e \in Side PROVE
    /\ \A n \in Nat : [s EXCEPT ![e].acks = n] \in Streams
    /\ \A q \in Seq(Msg) : [s EXCEPT ![e].inbox = q] \in Streams
    /\ \A b \in BOOLEAN :
         /\ [s EXCEPT ![e].ready = b] \in Streams /\ [s EXCEPT ![e].closed = b] \in Streams
         /\ [s EXCEPT ![e].finSent = b] \in Streams /\ [s EXCEPT ![e].finRecv = b] \in Streams
         /\ [s EXCEPT ![e].timer = b] \in Streams
    /\ \A c \in {"none", "open", "shut", "closed"} : [s EXCEPT ![e].conn = c] \in Streams
    /\ \A v \in Stream : [s EXCEPT ![e] = v] \in Streams
  OBVIOUS
<1> QED BY FieldUpdates DEF Streams
Remover == [step : {"none", "close", "done"}, final : {"none", "FIN", "SYN_ACK"}]
Removers == [Side -> Remover]

LEMMA RemoverTypes ==
  /\ NotRemoving \in Remover
  /\ \A f \in {"none", "FIN", "SYN_ACK"} : [step |-> "close", final |-> f] \in Remover
  /\ \A r \in Remover : [r EXCEPT !.step = "done"] \in Remover
<1>1. NotRemoving \in Remover
  BY DEF Remover, NotRemoving
<1>2. \A f \in {"none", "FIN", "SYN_ACK"} : [step |-> "close", final |-> f] \in Remover
  BY DEF Remover
<1>3. \A r \in Remover : [r EXCEPT !.step = "done"] \in Remover
  BY DEF Remover
<1> QED BY <1>1, <1>2, <1>3

LEMMA RemoverUpdates ==
  \A r \in Removers : \A e \in Side :
    /\ \A f \in {"none", "FIN", "SYN_ACK"} :
         [r EXCEPT ![e] = [step |-> "close", final |-> f]] \in Removers
    /\ [r EXCEPT ![e].step = "done"] \in Removers
  BY RemoverTypes DEF Removers

LEMMA StreamFields ==
  \A s \in Streams : \A e \in Side :
    /\ s[e].acks \in Nat /\ s[e].inbox \in Seq(Msg)
    /\ s[e].ready \in BOOLEAN /\ s[e].closed \in BOOLEAN
    /\ s[e].finSent \in BOOLEAN /\ s[e].finRecv \in BOOLEAN /\ s[e].timer \in BOOLEAN
    /\ s[e].conn \in {"none", "open", "shut", "closed"}
  BY DEF Streams, Stream

Shape ==
  /\ table \subseteq Side /\ bound \subseteq Side /\ up \subseteq Side
  /\ stream \in Streams
  /\ accepting \in {"accept", "connect", "done"}
  /\ receiving \in {"idle", "bound"}
  /\ dialing \in {"none", "dial", "answer", "done"}
  /\ reader \in [Side -> {"none", "wait", "read", "chunk", "transmit", "eof", "done"}]
  /\ writer \in [Side -> {"none", "loop", "write", "ack", "fin", "arm", "remove", "done"}]
  /\ held \in [Side -> Nat]
  /\ remover \in Removers
  /\ monitor \in [Side -> {"watch", "close", "drop", "done"}]
  /\ alive \in BOOLEAN
  /\ link \in [Side -> Seq(Msg)]
  /\ taken \in [Side -> Nat]
  /\ written \in [Side -> Seq(Nat)]
  /\ ended \subseteq Side /\ aborted \subseteq Side

\* What the operations the actions share do to the shape.
LEMMA TransmitShape ==
  ASSUME Shape, NEW e \in Side, NEW f \in Msg, Transmit(e, f)
  PROVE  link' \in [Side -> Seq(Msg)]
  BY Sides, MsgSeq DEF Shape, Transmit

LEMMA SendShape ==
  ASSUME Shape, NEW e \in Side, NEW f \in Msg, SendIfBound(e, f)
  PROVE  link' \in [Side -> Seq(Msg)]
  BY TransmitShape DEF Shape, SendIfBound

LEMMA RemoveShape ==
  ASSUME Shape, NEW e \in Side, NEW st \in Streams, NEW f \in {"none", "FIN", "SYN_ACK"},
         Remove(e, f, st)
  PROVE  table' \subseteq Side /\ stream' \in Streams /\ remover' \in Removers
<1>1. [st EXCEPT ![e].closed = TRUE, ![e].ready = TRUE] \in Streams
  BY StreamUpdates
<1>2. [remover EXCEPT ![e] = [step |-> "close", final |-> f]] \in Removers
  BY RemoverUpdates DEF Shape
<1> QED BY <1>1, <1>2 DEF Shape, Remove

LEMMA PopShape ==
  ASSUME Shape, NEW e \in Side, NEW t, Arrives(e, t)
  PROVE  Pop(e) \in [Side -> Seq(Msg)] /\ Head(link[e]) \in Msg /\ Head(link[e]) = link[e][1]
         /\ link[e] \in Seq(Msg)
<1>1. link[e] \in Seq(Msg) /\ link[e] # <<>>
  BY DEF Shape, Arrives
<1> QED BY <1>1, MsgSeq DEF Shape, Pop

LEMMA EnqueueShape ==
  ASSUME Shape, NEW e \in Side, NEW m \in Msg, Enqueue(e, m)
  PROVE  stream' \in Streams
<1>1. Append(stream[e].inbox, m) \in Seq(Msg)
  BY MsgSeq, StreamFields DEF Shape
<1>2. Put(e, m) \in Streams
  BY <1>1, StreamUpdates DEF Shape, Put
<1> QED BY <1>2 DEF Shape, Enqueue

LEMMA DropShape ==
  ASSUME Shape, NEW e \in Side, NEW t, Taking(e, t)
  PROVE  /\ Drop(e) \in Streams /\ Head(stream[e].inbox) \in Msg
         /\ stream[e].inbox \in Seq(Msg) /\ stream[e].inbox # <<>>
<1>1. stream[e].inbox \in Seq(Msg) /\ stream[e].inbox # <<>>
  BY StreamFields DEF Shape, Taking
<1>2. Tail(stream[e].inbox) \in Seq(Msg) /\ Head(stream[e].inbox) \in Msg
  BY <1>1, MsgSeq
<1> QED BY <1>1, <1>2, StreamUpdates DEF Shape, Drop

\* removeStream's first half changes two flags of one stream, or nothing.
LEMMA RemoveEffect ==
  ASSUME Shape, NEW e \in Side, NEW st \in Streams, NEW f \in {"none", "FIN", "SYN_ACK"},
         Remove(e, f, st)
  PROVE  /\ table' = table \ {e}
         /\ \A x \in Side : x # e => stream'[x] = st[x] /\ remover'[x] = remover[x]
         /\ stream'[e].conn = st[e].conn /\ stream'[e].acks = st[e].acks
         /\ stream'[e].inbox = st[e].inbox /\ stream'[e].timer = st[e].timer
         /\ stream'[e].finSent = st[e].finSent /\ stream'[e].finRecv = st[e].finRecv
         /\ e \in table => /\ stream'[e].closed /\ stream'[e].ready
                           /\ remover'[e] = [step |-> "close", final |-> f]
                           /\ remover'[e].step = "close" /\ remover'[e].final = f
         /\ e \notin table => stream' = st /\ remover' = remover
<1>1. CASE e \in table
  <2>1. stream' = [st EXCEPT ![e].closed = TRUE, ![e].ready = TRUE]
    BY <1>1 DEF Remove
  <2>2. remover' = [remover EXCEPT ![e] = [step |-> "close", final |-> f]]
    BY <1>1 DEF Remove
  <2>3. \A x \in Side : x # e => stream'[x] = st[x] /\ remover'[x] = remover[x]
    BY <2>1, <2>2 DEF Streams, Shape, Removers
  <2>4. /\ stream'[e].conn = st[e].conn /\ stream'[e].acks = st[e].acks
        /\ stream'[e].inbox = st[e].inbox /\ stream'[e].timer = st[e].timer
        /\ stream'[e].finSent = st[e].finSent /\ stream'[e].finRecv = st[e].finRecv
        /\ stream'[e].closed /\ stream'[e].ready
    BY <2>1 DEF Streams, Stream
  <2>5. remover'[e] = [step |-> "close", final |-> f]
    BY <2>2 DEF Shape, Removers
  <2> QED BY <1>1, <2>3, <2>4, <2>5 DEF Remove
<1>2. CASE e \notin table
  BY <1>2 DEF Remove, Shape
<1> QED BY <1>1, <1>2

\* Every step keeps the shape.
LEMMA ShapeStep == Shape /\ [Next]_vars => Shape'
<1> SUFFICES ASSUME Shape, [Next]_vars PROVE Shape'
  OBVIOUS
<1> USE DEF Shape, streamVars, goroutines, session, history
<1>1. CASE Accept
  <2>1. [stream EXCEPT !["opener"] = NewStream("open")] \in Streams
    BY NewStreamType, StreamUpdates, Sides
  <2>2. stream' \in Streams
    BY <1>1, <2>1 DEF Accept
  <2> QED BY <1>1, <2>1, <2>2, Sides DEF Accept
<1>2. CASE SendConnect
  <2>1. stream' \in Streams /\ remover' \in Removers /\ table' \subseteq Side
    BY <1>2, RemoveShape, Sides DEF SendConnect, DropUnsent
  <2>2. link' \in [Side -> Seq(Msg)]
    BY <1>2, TransmitShape, MsgTypes, Sides DEF SendConnect
  <2>3. bound' \subseteq Side
    BY <1>2, Sides DEF SendConnect
  <2>4. reader' \in [Side -> {"none", "wait", "read", "chunk", "transmit", "eof", "done"}]
    BY <1>2, Sides DEF SendConnect
  <2> QED BY <1>2, <2>1, <2>2, <2>3, <2>4, Sides DEF SendConnect
<1>3. CASE BindConnect
  <2>1. link' \in [Side -> Seq(Msg)]
    BY <1>3, PopShape, Sides DEF BindConnect
  <2> QED BY <1>3, <2>1, Sides DEF BindConnect
<1>4. CASE HandleConnect
  <2>1. [stream EXCEPT !["target"] = NewStream("none")] \in Streams
    BY NewStreamType, StreamUpdates, Sides
  <2>2. stream' \in Streams
    BY <1>4, <2>1 DEF HandleConnect
  <2>3. link' \in [Side -> Seq(Msg)]
    BY <1>4, SendShape, MsgTypes, Sides DEF HandleConnect, RejectConnect
  <2>4. table' \subseteq Side /\ bound' \subseteq Side
    BY <1>4, Sides DEF HandleConnect, RejectConnect
  <2>5. writer' \in [Side -> {"none", "loop", "write", "ack", "fin", "arm", "remove", "done"}]
    BY <1>4, Sides DEF HandleConnect
  <2>6. dialing' \in {"none", "dial", "answer", "done"}
    BY <1>4 DEF HandleConnect
  <2> QED BY <1>4, <2>1, <2>2, <2>3, <2>4, <2>5, <2>6, Sides DEF HandleConnect
<1>5. ASSUME NEW e \in Side, HandleSynAck(e) PROVE Shape'
  <2>1. link' \in [Side -> Seq(Msg)]
    BY <1>5, PopShape DEF HandleSynAck
  <2>2. [stream EXCEPT ![e].ready = @ \/ e \in table] \in Streams
    BY StreamFields, StreamUpdates
  <2>3. table' \subseteq Side /\ stream' \in Streams /\ remover' \in Removers
    BY <1>5, <2>2, RemoveShape DEF HandleSynAck
  <2> QED BY <1>5, <2>1, <2>2, <2>3, Sides DEF HandleSynAck
<1>6. ASSUME NEW e \in Side, HandleQueued(e) PROVE Shape'
  <2>1. link' \in [Side -> Seq(Msg)] /\ Head(link[e]) \in Msg
    BY <1>6, PopShape DEF HandleQueued
  <2>2. stream' \in Streams
    BY <1>6, <2>1, EnqueueShape DEF HandleQueued
  <2> QED BY <1>6, <2>1, <2>2, Sides DEF HandleQueued
<1>7. ASSUME NEW e \in Side, HandleDataAck(e) PROVE Shape'
  <2>1. link' \in [Side -> Seq(Msg)]
    BY <1>7, PopShape DEF HandleDataAck
  <2>2. stream[e].acks \in Nat /\ (stream[e].acks > 0 => stream[e].acks - 1 \in Nat)
    BY StreamFields
  <2>3. stream' \in Streams
    BY <1>7, <2>2, StreamUpdates DEF HandleDataAck
  <2> QED BY <1>7, <2>1, <2>2, <2>3, Sides DEF HandleDataAck
<1>8. CASE DialSucceeds
  <2>1. [stream EXCEPT !["target"].conn = "open"] \in Streams
    BY StreamUpdates, Sides
  <2>2. stream' \in Streams
    BY <1>8, <2>1 DEF DialSucceeds
  <2> QED BY <1>8, <2>1, <2>2, Sides DEF DialSucceeds
<1>9. CASE DialFails
  <2>1. table' \subseteq Side /\ stream' \in Streams /\ remover' \in Removers
    BY <1>9, RemoveShape, Sides DEF DialFails
  <2> QED BY <1>9, <2>1, Sides DEF DialFails
<1>10. CASE AnswerConnect
  <2>1. stream' \in Streams
    BY <1>10, StreamUpdates, Sides DEF AnswerConnect
  <2>2. link' \in [Side -> Seq(Msg)]
    BY <1>10, SendShape, MsgTypes, Sides DEF AnswerConnect
  <2> QED BY <1>10, <2>1, <2>2, Sides DEF AnswerConnect
<1>11. ASSUME NEW e \in Side, ReaderStarts(e) PROVE Shape'
  <2> QED BY <1>11, Sides DEF ReaderStarts, ReaderAt, ReaderOnly
<1>12. ASSUME NEW e \in Side, ReadChunk(e) PROVE Shape'
  <2>1. taken[e] + 1 \in Nat
    OBVIOUS
  <2>2. taken' \in [Side -> Nat]
    BY <1>12, <2>1 DEF ReadChunk
  <2> QED BY <1>12, <2>1, <2>2, Sides DEF ReadChunk, ReaderAt, ReaderOnly
<1>13. ASSUME NEW e \in Side, ReadEOF(e) PROVE Shape'
  <2> QED BY <1>13, Sides DEF ReadEOF, ReaderAt, ReaderOnly
<1>14. ASSUME NEW e \in Side, ReadClosed(e) PROVE Shape'
  <2> QED BY <1>14, Sides DEF ReadClosed, ReaderAt, ReaderOnly
<1>15. ASSUME NEW e \in Side, AcquireSlot(e) PROVE Shape'
  <2>1. stream[e].acks + 1 \in Nat
    BY StreamFields
  <2>2. [stream EXCEPT ![e].acks = @ + 1] \in Streams
    BY <2>1, StreamUpdates
  <2>3. stream' \in Streams
    BY <1>15, <2>2 DEF AcquireSlot
  <2> QED BY <1>15, <2>1, <2>2, <2>3, Sides DEF AcquireSlot, ReaderAt, ReaderOnly
<1>16. ASSUME NEW e \in Side, AcquireClosed(e) PROVE Shape'
  <2> QED BY <1>16, Sides DEF AcquireClosed, ReaderAt, ReaderOnly
<1>17. ASSUME NEW e \in Side, TransmitData(e) PROVE Shape'
  <2>1. taken[e] \in Nat
    OBVIOUS
  <2>2. link' \in [Side -> Seq(Msg)]
    BY <1>17, <2>1, TransmitShape, MsgTypes DEF TransmitData
  <2> QED BY <1>17, <2>1, <2>2, Sides DEF TransmitData, ReaderAt, ReaderOnly
<1>18. ASSUME NEW e \in Side, EnqueueEOF(e) PROVE Shape'
  <2>1. stream' \in Streams
    BY <1>18, EnqueueShape, MsgTypes DEF EnqueueEOF
  <2> QED BY <1>18, <2>1, Sides DEF EnqueueEOF, ReaderAt, ReaderOnly
<1>19. ASSUME NEW e \in Side, WriterStops(e) PROVE Shape'
  <2> QED BY <1>19, Sides DEF WriterStops, WriterAt, WriterOnly
<1>20. ASSUME NEW e \in Side, TakeLocalEOF(e) PROVE Shape'
  <2>1. Drop(e) \in Streams
    BY <1>20, DropShape DEF TakeLocalEOF
  <2>2. stream' \in Streams
    BY <1>20, <2>1, StreamUpdates DEF TakeLocalEOF
  <2> QED BY <1>20, <2>1, <2>2, Sides DEF TakeLocalEOF, WriterAt, WriterOnly
<1>21. ASSUME NEW e \in Side, RemoveFinished(e) PROVE Shape'
  <2>1. table' \subseteq Side /\ stream' \in Streams /\ remover' \in Removers
    BY <1>21, RemoveShape DEF RemoveFinished
  <2> QED BY <1>21, <2>1, Sides DEF RemoveFinished, WriterAt, WriterOnly
<1>22. ASSUME NEW e \in Side, HalfClose(e) PROVE Shape'
  <2>1. stream' \in Streams
    BY <1>22, StreamUpdates DEF HalfClose, Arm
  <2>2. link' \in [Side -> Seq(Msg)]
    BY <1>22, TransmitShape, MsgTypes DEF HalfClose
  <2> QED BY <1>22, <2>1, <2>2, Sides DEF HalfClose, WriterOnly
<1>23. ASSUME NEW e \in Side, TakeRemoteFIN(e) PROVE Shape'
  <2>1. Drop(e) \in Streams
    BY <1>23, DropShape DEF TakeRemoteFIN
  <2>2. [Drop(e) EXCEPT ![e].finRecv = TRUE] \in Streams
    BY <2>1, StreamUpdates
  <2>3. Drop(e)[e].conn \in {"none", "open", "shut", "closed"}
    BY <2>1, StreamFields
  <2>4. [Drop(e) EXCEPT ![e].finRecv = TRUE, ![e].conn = IF @ = "open" THEN "shut" ELSE @] \in Streams
    BY <2>2, <2>3, StreamUpdates, StreamFields
  <2>5. table' \subseteq Side /\ stream' \in Streams /\ remover' \in Removers
    BY ZenonT(40), <1>23, <2>1, <2>2, <2>4, RemoveShape, StreamUpdates DEF TakeRemoteFIN, Arm
  <2>6. ended' \subseteq Side
    BY <1>23 DEF TakeRemoteFIN
  <2>7. writer' \in [Side -> {"none", "loop", "write", "ack", "fin", "arm", "remove", "done"}]
    BY <1>23 DEF TakeRemoteFIN, WriterAt
  <2> QED BY <1>23, <2>1, <2>2, <2>3, <2>4, <2>5, <2>6, <2>7, Sides DEF
     TakeRemoteFIN, WriterOnly
<1>24. ASSUME NEW e \in Side, TakeData(e) PROVE Shape'
  <2>1. Drop(e) \in Streams /\ Head(stream[e].inbox) \in Msg
    BY <1>24, DropShape DEF TakeData
  <2>2. Head(stream[e].inbox).n \in Nat
    BY <1>24, <2>1, DataNumber DEF TakeData, Taking
  <2> QED BY <1>24, <2>1, <2>2, Sides DEF TakeData, WriterAt, WriterOnly
<1>25. ASSUME NEW e \in Side, WriteSucceeds(e) PROVE Shape'
  <2>1. Append(written[e], held[e]) \in Seq(Nat)
    OBVIOUS
  <2> QED BY <1>25, <2>1, Sides DEF WriteSucceeds, WriterAt, WriterOnly
<1>26. ASSUME NEW e \in Side, WriteFails(e) PROVE Shape'
  <2>1. table' \subseteq Side /\ stream' \in Streams /\ remover' \in Removers
    BY <1>26, RemoveShape DEF WriteFails
  <2> QED BY <1>26, <2>1, Sides DEF WriteFails, WriterAt, WriterOnly
<1>27. ASSUME NEW e \in Side, SendAck(e) PROVE Shape'
  <2>1. link' \in [Side -> Seq(Msg)]
    BY <1>27, TransmitShape, MsgTypes DEF SendAck
  <2> QED BY <1>27, <2>1, Sides DEF SendAck, WriterAt, WriterOnly
<1>28. ASSUME NEW e \in Side, TimerFires(e) PROVE Shape'
  <2>1. [stream EXCEPT ![e].timer = FALSE, ![e].finSent = TRUE] \in Streams
    BY StreamUpdates
  <2>2. table' \subseteq Side /\ stream' \in Streams /\ remover' \in Removers
    BY <1>28, <2>1, RemoveShape DEF TimerFires
  <2> QED BY <1>28, <2>1, <2>2, Sides DEF TimerFires
<1>29. ASSUME NEW e \in Side, FinishRemove(e) PROVE Shape'
  <2>1. [stream EXCEPT ![e].finSent = TRUE, ![e].finRecv = TRUE, ![e].timer = FALSE] \in Streams
    BY StreamUpdates
  <2>2. stream' \in Streams
    BY <1>29, <2>1, StreamUpdates DEF FinishRemove
  <2>3. remover' \in Removers
    BY <1>29, RemoverUpdates DEF FinishRemove
  <2>4. link' \in [Side -> Seq(Msg)]
    BY <1>29, SendShape, MsgTypes DEF FinishRemove
  <2> QED BY <1>29, <2>1, <2>2, <2>3, <2>4, Sides DEF FinishRemove
<1>30. ASSUME NEW e \in Side, RemoveSession(e) PROVE Shape'
  <2> QED BY <1>30, Sides DEF RemoveSession
<1>31. ASSUME NEW e \in Side, CloseStreams(e) PROVE Shape'
  <2>1. table' \subseteq Side /\ stream' \in Streams /\ remover' \in Removers
    BY <1>31, RemoveShape DEF CloseStreams
  <2>2. link' \in [Side -> Seq(Msg)]
    BY <1>31, MsgSeq DEF CloseStreams
  <2> QED BY <1>31, <2>1, <2>2, Sides DEF CloseStreams
<1>32. CASE UNCHANGED vars
  BY <1>32 DEF vars
<1> QED BY <1>1, <1>2, <1>3, <1>4, <1>5, <1>6, <1>7, <1>8, <1>9, <1>10, <1>11,
   <1>12, <1>13, <1>14, <1>15, <1>16, <1>17, <1>18, <1>19, <1>20, <1>21,
   <1>22, <1>23, <1>24, <1>25, <1>26, <1>27, <1>28, <1>29, <1>30, <1>31,
   <1>32, Steps
-----------------------------------------------------------------------------
(* What the actions do to the fields of a stream, and what they leave.     *)

LEMMA DialSucceedsEffect ==
  ASSUME Shape, DialSucceeds
  PROVE  /\ \A x \in Side : x # "target" => stream'[x] = stream[x]
         /\ stream'["target"].conn = (IF stream["target"].closed THEN stream["target"].conn ELSE "open")
         /\ stream'["target"].ready = stream["target"].ready /\ stream'["target"].closed = stream["target"].closed
         /\ stream'["target"].inbox = stream["target"].inbox /\ stream'["target"].acks = stream["target"].acks
         /\ stream'["target"].finSent = stream["target"].finSent /\ stream'["target"].finRecv = stream["target"].finRecv
         /\ stream'["target"].timer = stream["target"].timer
  BY Sides DEF DialSucceeds, Shape, Streams, Stream

LEMMA AnswerConnectEffect ==
  ASSUME Shape, AnswerConnect
  PROVE  /\ \A x \in Side : x # "target" => stream'[x] = stream[x]
         /\ stream'["target"].ready = TRUE
         /\ stream'["target"].conn = stream["target"].conn /\ stream'["target"].closed = stream["target"].closed
         /\ stream'["target"].inbox = stream["target"].inbox /\ stream'["target"].acks = stream["target"].acks
         /\ stream'["target"].finSent = stream["target"].finSent /\ stream'["target"].finRecv = stream["target"].finRecv
         /\ stream'["target"].timer = stream["target"].timer
  BY Sides DEF AnswerConnect, SendIfBound, Transmit, Shape, Streams, Stream

LEMMA HandleDataAckEffect ==
  ASSUME Shape, NEW e \in Side, HandleDataAck(e)
  PROVE  /\ \A x \in Side : x # e => stream'[x] = stream[x]
         /\ stream'[e].acks = (IF e \in table /\ stream[e].acks > 0 THEN stream[e].acks - 1 ELSE stream[e].acks)
         /\ stream'[e].conn = stream[e].conn /\ stream'[e].ready = stream[e].ready
         /\ stream'[e].closed = stream[e].closed /\ stream'[e].inbox = stream[e].inbox
         /\ stream'[e].finSent = stream[e].finSent /\ stream'[e].finRecv = stream[e].finRecv
         /\ stream'[e].timer = stream[e].timer
  BY Sides DEF HandleDataAck, Pop, Arrives, Shape, Streams, Stream

LEMMA HalfCloseEffect ==
  ASSUME Shape, NEW e \in Side, HalfClose(e)
  PROVE  /\ \A x \in Side : x # e => stream'[x] = stream[x]
         /\ stream'[e].timer = TRUE
         /\ stream'[e].conn = stream[e].conn /\ stream'[e].ready = stream[e].ready
         /\ stream'[e].closed = stream[e].closed /\ stream'[e].inbox = stream[e].inbox
         /\ stream'[e].acks = stream[e].acks /\ stream'[e].finSent = stream[e].finSent
         /\ stream'[e].finRecv = stream[e].finRecv
  BY Sides DEF HalfClose, WriterAt, WriterOnly, Arm, Transmit, Shape, Streams,
     Stream

LEMMA FinishRemoveEffect ==
  ASSUME Shape, NEW e \in Side, FinishRemove(e)
  PROVE  /\ \A x \in Side : x # e => stream'[x] = stream[x]
         /\ stream'[e].finSent = TRUE
         /\ stream'[e].finRecv = TRUE
         /\ stream'[e].timer = FALSE
         /\ stream'[e].conn = (IF stream[e].conn = "none" THEN "none" ELSE "closed")
         /\ stream'[e].ready = stream[e].ready /\ stream'[e].closed = stream[e].closed
         /\ stream'[e].inbox = stream[e].inbox /\ stream'[e].acks = stream[e].acks
  BY Sides DEF FinishRemove, SendIfBound, Transmit, Shape, Streams, Stream

LEMMA AcquireSlotEffect ==
  ASSUME Shape, NEW e \in Side, AcquireSlot(e)
  PROVE  /\ \A x \in Side : x # e => stream'[x] = stream[x]
         /\ stream'[e].acks = (IF Window = 0 THEN stream[e].acks ELSE stream[e].acks + 1)
         /\ stream'[e].conn = stream[e].conn /\ stream'[e].ready = stream[e].ready
         /\ stream'[e].closed = stream[e].closed /\ stream'[e].inbox = stream[e].inbox
         /\ stream'[e].finSent = stream[e].finSent /\ stream'[e].finRecv = stream[e].finRecv
         /\ stream'[e].timer = stream[e].timer
<1>1. \/ stream' = stream /\ Window = 0
      \/ stream' = [stream EXCEPT ![e].acks = @ + 1] /\ Window # 0
  <2>1. stream[e].acks \in Nat
    BY StreamFields DEF Shape
  <2>2. CASE Window = 0
    BY <2>1, <2>2 DEF AcquireSlot, SlotFree
  <2>3. CASE Window # 0
    BY <2>3 DEF AcquireSlot
  <2> QED BY <2>2, <2>3
<1>2. CASE stream' = stream /\ Window = 0
  BY <1>2
<1>3. CASE stream' = [stream EXCEPT ![e].acks = @ + 1] /\ Window # 0
  BY <1>3 DEF Shape, Streams, Stream
<1> QED BY <1>1, <1>2, <1>3

LEMMA TakeDataEffect ==
  ASSUME Shape, NEW e \in Side, TakeData(e)
  PROVE  /\ \A x \in Side : x # e => stream'[x] = stream[x]
         /\ stream'[e].inbox = Tail(stream[e].inbox)
         /\ stream'[e].conn = stream[e].conn /\ stream'[e].ready = stream[e].ready
         /\ stream'[e].closed = stream[e].closed /\ stream'[e].acks = stream[e].acks
         /\ stream'[e].finSent = stream[e].finSent /\ stream'[e].finRecv = stream[e].finRecv
         /\ stream'[e].timer = stream[e].timer
<1>1. stream' = [stream EXCEPT ![e].inbox = Tail(@)]
  BY DEF TakeData, Drop
<1> QED BY <1>1 DEF Shape, Streams, Stream

LEMMA TakeLocalEOFEffect ==
  ASSUME Shape, NEW e \in Side, TakeLocalEOF(e)
  PROVE  /\ \A x \in Side : x # e => stream'[x] = stream[x]
         /\ stream'[e].inbox = Tail(stream[e].inbox)
         /\ stream'[e].finSent = TRUE
         /\ stream'[e].conn = stream[e].conn /\ stream'[e].ready = stream[e].ready
         /\ stream'[e].closed = stream[e].closed /\ stream'[e].acks = stream[e].acks
         /\ stream'[e].finRecv = stream[e].finRecv /\ stream'[e].timer = stream[e].timer
<1>1. stream' = [[stream EXCEPT ![e].inbox = Tail(@)] EXCEPT ![e].finSent = TRUE]
  BY DEF TakeLocalEOF, Drop
<1> QED BY <1>1 DEF Shape, Streams, Stream

LEMMA PutEffect ==
  ASSUME Shape, NEW e \in Side, NEW m, Enqueue(e, m)
  PROVE  /\ \A x \in Side : x # e => stream'[x] = stream[x]
         /\ stream'[e].conn = stream[e].conn /\ stream'[e].ready = stream[e].ready
         /\ stream'[e].closed = stream[e].closed /\ stream'[e].acks = stream[e].acks
         /\ stream'[e].finSent = stream[e].finSent /\ stream'[e].finRecv = stream[e].finRecv
         /\ stream'[e].timer = stream[e].timer
         /\ \/ stream'[e].inbox = Append(stream[e].inbox, m) /\ HasRoom(e)
            \/ stream' = stream /\ stream[e].closed
<1>1. \/ stream' = [stream EXCEPT ![e].inbox = Append(@, m)] /\ HasRoom(e)
      \/ stream' = stream /\ stream[e].closed
  BY Zenon DEF Enqueue, Put
<1>2. CASE stream' = [stream EXCEPT ![e].inbox = Append(@, m)] /\ HasRoom(e)
  BY <1>2 DEF Shape, Streams, Stream
<1>3. CASE stream' = stream /\ stream[e].closed
  BY <1>3
<1> QED BY <1>1, <1>2, <1>3

\* TakeRemoteFIN: a FIN seen before, the second half of the stream's end, the first.
LEMMA TakeRemoteFINEffect ==
  ASSUME Shape, NEW e \in Side, TakeRemoteFIN(e)
  PROVE  /\ \A x \in Side : x # e => stream'[x] = stream[x] /\ remover'[x] = remover[x]
         /\ stream'[e].inbox = Tail(stream[e].inbox)
         /\ stream'[e].acks = stream[e].acks /\ stream'[e].finSent = stream[e].finSent
         /\ stream'[e].finRecv
         /\ \/ /\ stream[e].finRecv /\ UNCHANGED <<table, remover, ended>>
               /\ stream'[e].conn = stream[e].conn /\ stream'[e].ready = stream[e].ready
               /\ stream'[e].closed = stream[e].closed
               /\ writer' = [writer EXCEPT ![e] = "loop"]
            \/ /\ ~stream[e].finRecv /\ stream[e].finSent /\ ended' = ended \cup {e}
               /\ writer' = [writer EXCEPT ![e] = "done"]
               /\ stream'[e].conn = stream[e].conn /\ table' = table \ {e}
               /\ e \in table => /\ stream'[e].closed /\ stream'[e].ready
                                 /\ remover'[e].step = "close" /\ remover'[e].final = "none"
               /\ e \notin table => /\ stream'[e].closed = stream[e].closed
                                    /\ stream'[e].ready = stream[e].ready
                                    /\ remover' = remover
            \/ /\ ~stream[e].finRecv /\ ~stream[e].finSent /\ ended' = ended \cup {e}
               /\ UNCHANGED <<table, remover>>
               /\ writer' = [writer EXCEPT ![e] = "loop"]
               /\ stream'[e].conn = (IF stream[e].conn = "open" THEN "shut" ELSE stream[e].conn)
               /\ stream'[e].ready = stream[e].ready /\ stream'[e].closed = stream[e].closed
<1> DEFINE d == [stream EXCEPT ![e].inbox = Tail(@)]
<1>1. d = Drop(e) /\ d \in Streams
  BY DropShape DEF Drop, TakeRemoteFIN
<1>2. /\ \A x \in Side : x # e => d[x] = stream[x]
      /\ d[e].inbox = Tail(stream[e].inbox) /\ d[e].acks = stream[e].acks
      /\ d[e].finSent = stream[e].finSent /\ d[e].finRecv = stream[e].finRecv
      /\ d[e].conn = stream[e].conn /\ d[e].ready = stream[e].ready /\ d[e].closed = stream[e].closed
  BY DEF Shape, Streams, Stream
<1> HIDE DEF d
<1>3. CASE stream[e].finRecv
  <2>1. /\ stream' = d /\ UNCHANGED <<table, remover, ended>>
        /\ writer' = [writer EXCEPT ![e] = "loop"]
    BY <1>1, <1>3 DEF TakeRemoteFIN, WriterAt
  <2> QED BY <1>2, <1>3, <2>1
<1>4. CASE ~stream[e].finRecv /\ stream[e].finSent
  <2> DEFINE t == [d EXCEPT ![e].finRecv = TRUE]
  <2>1. t \in Streams
    BY <1>1, StreamUpdates
  <2>2. /\ \A x \in Side : x # e => t[x] = stream[x]
        /\ t[e].inbox = Tail(stream[e].inbox) /\ t[e].acks = stream[e].acks
        /\ t[e].finSent = stream[e].finSent /\ t[e].finRecv
        /\ t[e].conn = stream[e].conn /\ t[e].ready = stream[e].ready /\ t[e].closed = stream[e].closed
    BY <1>1, <1>2 DEF Streams, Stream
  <2>3. /\ Remove(e, "none", t) /\ ended' = ended \cup {e}
        /\ writer' = [writer EXCEPT ![e] = "done"]
    BY <1>1, <1>4 DEF TakeRemoteFIN, WriterAt
  <2> HIDE DEF t
  <2>4. /\ \A x \in Side : x # e => stream'[x] = t[x] /\ remover'[x] = remover[x]
        /\ stream'[e].inbox = t[e].inbox /\ stream'[e].acks = t[e].acks
        /\ stream'[e].finSent = t[e].finSent /\ stream'[e].finRecv = t[e].finRecv
        /\ stream'[e].conn = t[e].conn /\ table' = table \ {e}
        /\ e \in table => /\ stream'[e].closed /\ stream'[e].ready
                          /\ remover'[e].step = "close" /\ remover'[e].final = "none"
        /\ e \notin table => stream' = t /\ remover' = remover
    BY <2>1, <2>3, RemoveEffect
  <2> QED BY <1>4, <2>2, <2>3, <2>4
<1>5. CASE ~stream[e].finRecv /\ ~stream[e].finSent
  <2> DEFINE t == [d EXCEPT ![e].finRecv = TRUE, ![e].conn = IF @ = "open" THEN "shut" ELSE @]
  <2>1. t \in Streams
    BY <1>1, StreamUpdates, StreamFields
  <2>2. /\ \A x \in Side : x # e => t[x] = stream[x]
        /\ t[e].inbox = Tail(stream[e].inbox) /\ t[e].acks = stream[e].acks
        /\ t[e].finSent = stream[e].finSent /\ t[e].finRecv
        /\ t[e].conn = (IF stream[e].conn = "open" THEN "shut" ELSE stream[e].conn)
        /\ t[e].ready = stream[e].ready /\ t[e].closed = stream[e].closed
    BY <1>1, <1>2 DEF Streams, Stream
  <2>3. /\ stream' = [t EXCEPT ![e].timer = TRUE] /\ ended' = ended \cup {e}
        /\ UNCHANGED <<table, remover>>
        /\ writer' = [writer EXCEPT ![e] = "loop"]
    BY <1>1, <1>5 DEF TakeRemoteFIN, WriterAt, Arm
  <2> HIDE DEF t
  <2>4. /\ \A x \in Side : x # e => stream'[x] = t[x]
        /\ stream'[e].inbox = t[e].inbox /\ stream'[e].acks = t[e].acks
        /\ stream'[e].finSent = t[e].finSent /\ stream'[e].finRecv = t[e].finRecv
        /\ stream'[e].conn = t[e].conn /\ stream'[e].ready = t[e].ready /\ stream'[e].closed = t[e].closed
    BY <2>1, <2>3 DEF Streams, Stream
  <2> QED BY <1>5, <2>2, <2>3, <2>4
<1> QED BY <1>3, <1>4, <1>5, StreamFields DEF Shape

LEMMA TimerFiresEffect ==
  ASSUME Shape, NEW e \in Side, TimerFires(e)
  PROVE  /\ \A x \in Side : x # e => stream'[x] = stream[x] /\ remover'[x] = remover[x]
         /\ stream'[e].conn = stream[e].conn /\ stream'[e].inbox = stream[e].inbox
         /\ stream'[e].acks = stream[e].acks /\ stream'[e].finRecv = stream[e].finRecv
         /\ table' = table \ {e}
         /\ e \in table => /\ stream'[e].closed /\ stream'[e].ready /\ remover'[e].step = "close"
                           /\ remover'[e].final \in {"none", "FIN"} /\ aborted' = aborted \cup {e}
         /\ e \notin table => /\ stream'[e].closed = stream[e].closed
                              /\ stream'[e].ready = stream[e].ready
                              /\ remover' = remover /\ aborted' = aborted
<1> DEFINE t == [stream EXCEPT ![e].timer = FALSE, ![e].finSent = TRUE]
<1>1. t \in Streams
  BY StreamUpdates DEF Shape
<1>2. /\ \A x \in Side : x # e => t[x] = stream[x]
      /\ t[e].conn = stream[e].conn /\ t[e].inbox = stream[e].inbox /\ t[e].acks = stream[e].acks
      /\ t[e].finRecv = stream[e].finRecv /\ t[e].closed = stream[e].closed /\ t[e].ready = stream[e].ready
  BY DEF Shape, Streams, Stream
<1>3. Remove(e, IF stream[e].finSent THEN "none" ELSE "FIN", t)
  BY DEF TimerFires
<1>4. aborted' = IF e \in table THEN aborted \cup {e} ELSE aborted
  BY DEF TimerFires
<1> HIDE DEF t
<1>5. CASE stream[e].finSent
  <2>1. Remove(e, "none", t)
    BY <1>3, <1>5
  <2> QED BY <1>1, <1>2, <1>4, <2>1, RemoveEffect
<1>6. CASE ~stream[e].finSent
  <2>1. Remove(e, "FIN", t)
    BY <1>3, <1>6
  <2> QED BY <1>1, <1>2, <1>4, <2>1, RemoveEffect
<1> QED BY <1>5, <1>6
-----------------------------------------------------------------------------
(* Until the target creates the stream.                                    *)

Has(q, t) == \E i \in DOMAIN q : q[i].type = t

LEMMA HasNone == \A t : ~Has(<<>>, t)
  BY DEF Has

LEMMA HasAppend ==
  \A q \in Seq(Msg) : \A m \in Msg : \A t : Has(Append(q, m), t) <=> Has(q, t) \/ m.type = t
<1> SUFFICES ASSUME NEW q \in Seq(Msg), NEW m \in Msg, NEW t
             PROVE  Has(Append(q, m), t) <=> Has(q, t) \/ m.type = t
  OBVIOUS
<1>1. /\ DOMAIN q = 1..Len(q) /\ DOMAIN Append(q, m) = 1..(Len(q) + 1) /\ Len(q) \in Nat
      /\ \A i \in 1..Len(q) : Append(q, m)[i] = q[i]
      /\ Append(q, m)[Len(q) + 1] = m
  OBVIOUS
<1> QED BY <1>1 DEF Has

LEMMA HasTail ==
  \A q \in Seq(Msg) : \A t : q # <<>> => (Has(q, t) <=> Head(q).type = t \/ Has(Tail(q), t))
<1> SUFFICES ASSUME NEW q \in Seq(Msg), NEW t, q # <<>>
             PROVE  Has(q, t) <=> Head(q).type = t \/ Has(Tail(q), t)
  OBVIOUS
<1>1. /\ DOMAIN q = 1..Len(q) /\ DOMAIN Tail(q) = 1..(Len(q) - 1) /\ Len(q) \in Nat /\ Len(q) > 0
      /\ \A i \in 1..(Len(q) - 1) : Tail(q)[i] = q[i + 1]
      /\ Head(q) = q[1]
  OBVIOUS
<1>2. \A i \in 1..Len(q) : i = 1 \/ (i - 1 \in 1..(Len(q) - 1) /\ Tail(q)[i - 1] = q[i])
  BY <1>1
<1>3. ASSUME Has(q, t) PROVE Head(q).type = t \/ Has(Tail(q), t)
  <2>1. PICK i \in DOMAIN q : q[i].type = t
    BY <1>3 DEF Has
  <2>2. CASE i = 1
    BY <1>1, <2>1, <2>2
  <2>3. CASE i # 1
    BY <1>1, <1>2, <2>1, <2>3 DEF Has
  <2> QED BY <2>2, <2>3
<1>4. ASSUME Has(Tail(q), t) PROVE Has(q, t)
  <2>1. PICK i \in DOMAIN Tail(q) : Tail(q)[i].type = t
    BY <1>4 DEF Has
  <2>2. i + 1 \in DOMAIN q /\ q[i + 1].type = t
    BY <1>1, <2>1
  <2> QED BY <2>2 DEF Has
<1>5. ASSUME Head(q).type = t PROVE Has(q, t)
  BY <1>1, <1>5 DEF Has
<1> QED BY <1>3, <1>4, <1>5

Fresh == accepting # "done" \/ receiving = "bound" \/ Has(link["target"], "CONNECT")

\* What can be said before the target handles the CONNECT, wherever it is.
FreshInv ==
  /\ accepting = "accept" =>
       /\ "opener" \notin table /\ remover["opener"] = NotRemoving
       /\ stream["opener"] = NewStream("none") /\ writer["opener"] = "none"
  /\ accepting # "done" =>
       link["target"] = <<>> /\ receiving = "idle" /\ reader["opener"] = "none"
  /\ receiving = "bound" => link["target"] = <<>>
  /\ Fresh =>
       /\ "target" \notin table /\ remover["target"] = NotRemoving
       /\ stream["target"] = NewStream("none")
       /\ reader["target"] = "none" /\ writer["target"] = "none" /\ dialing = "none"
       /\ link["opener"] = <<>> /\ link["target"] \in {<<>>, <<Connect>>}
       /\ stream["opener"].acks = 0 /\ stream["opener"].inbox = <<>>
       /\ ~stream["opener"].timer /\ (stream["opener"].ready => stream["opener"].closed)
       /\ reader["opener"] \in {"none", "wait", "done"}
       /\ writer["opener"] \in {"none", "loop", "done"}
       /\ remover["opener"].final = "none"
       /\ taken = [e \in Side |-> 0] /\ written = [e \in Side |-> <<>>]
       /\ ended = {} /\ aborted = {}

LEMMA NoMoreConnect ==
  ASSUME Shape, NEW e \in Side, NEW f \in Msg, Transmit(e, f), f.type # "CONNECT",
         ~Has(link["target"], "CONNECT")
  PROVE  ~Has(link'["target"], "CONNECT")
  BY HasAppend, Sides DEF Shape, Transmit

LEMMA NoMoreConnectSent ==
  ASSUME Shape, NEW e \in Side, NEW f \in Msg, SendIfBound(e, f), f.type # "CONNECT",
         ~Has(link["target"], "CONNECT")
  PROVE  ~Has(link'["target"], "CONNECT")
  BY NoMoreConnect DEF SendIfBound

LEMMA PopNoConnect ==
  ASSUME Shape, NEW e \in Side, NEW t, Arrives(e, t), link' = Pop(e), ~Has(link["target"], "CONNECT")
  PROVE  ~Has(link'["target"], "CONNECT")
  BY HasTail, Sides DEF Shape, Pop, Arrives

LEMMA FreshDisables ==
  ASSUME Shape, FreshInv, Fresh, NEW e \in Side
  PROVE  /\ \A t : t # "CONNECT" => ~Arrives(e, t)
         /\ ~stream[e].timer
         /\ remover[e].step = "close" => e = "opener"
<1>1. link[e] \in {<<>>, <<Connect>>}
  BY Sides DEF FreshInv
<1>2. \A t : t # "CONNECT" => ~Arrives(e, t)
  BY <1>1, MsgTypes DEF Arrives
<1>3. ~stream["opener"].timer /\ ~stream["target"].timer
  BY DEF FreshInv, NewStream
<1>4. remover["target"].step = "none"
  BY DEF FreshInv, NotRemoving
<1> QED BY <1>2, <1>3, <1>4, Sides

\* The CONNECT is handled once.
LEMMA FreshEnds == Shape /\ ~Fresh /\ [Next]_vars => ~Fresh'
<1> SUFFICES ASSUME Shape, ~Fresh, [Next]_vars PROVE ~Fresh'
  OBVIOUS
<1> USE DEF Fresh, streamVars, goroutines, session, history
<1>1. CASE Accept
  BY <1>1, Sides DEF Accept
<1>2. CASE SendConnect
  BY <1>2, Sides DEF SendConnect
<1>3. CASE BindConnect
  BY <1>3, HasTail, Sides DEF BindConnect, Arrives, Shape
<1>4. CASE HandleConnect
  BY <1>4, NoMoreConnectSent, MsgTypes, Sides DEF HandleConnect
<1>5. ASSUME NEW e \in Side, HandleSynAck(e) PROVE ~Fresh'
  BY <1>5, PopNoConnect DEF HandleSynAck
<1>6. ASSUME NEW e \in Side, HandleQueued(e) PROVE ~Fresh'
  BY <1>6, PopNoConnect DEF HandleQueued
<1>7. ASSUME NEW e \in Side, HandleDataAck(e) PROVE ~Fresh'
  BY <1>7, PopNoConnect DEF HandleDataAck
<1>8. CASE DialSucceeds
  BY <1>8, Sides DEF DialSucceeds
<1>9. CASE DialFails
  BY <1>9, Sides DEF DialFails
<1>10. CASE AnswerConnect
  BY <1>10, NoMoreConnectSent, MsgTypes, Sides DEF AnswerConnect
<1>11. ASSUME NEW e \in Side, ReaderStarts(e) PROVE ~Fresh'
  BY <1>11, Sides DEF ReaderStarts, ReaderAt, ReaderOnly
<1>12. ASSUME NEW e \in Side, ReadChunk(e) PROVE ~Fresh'
  BY <1>12, Sides DEF ReadChunk, ReaderAt, ReaderOnly
<1>13. ASSUME NEW e \in Side, ReadEOF(e) PROVE ~Fresh'
  BY <1>13, Sides DEF ReadEOF, ReaderAt, ReaderOnly
<1>14. ASSUME NEW e \in Side, ReadClosed(e) PROVE ~Fresh'
  BY <1>14, Sides DEF ReadClosed, ReaderAt, ReaderOnly
<1>15. ASSUME NEW e \in Side, AcquireSlot(e) PROVE ~Fresh'
  BY <1>15, Sides DEF AcquireSlot, ReaderAt, ReaderOnly
<1>16. ASSUME NEW e \in Side, AcquireClosed(e) PROVE ~Fresh'
  BY <1>16, Sides DEF AcquireClosed, ReaderAt, ReaderOnly
<1>17. ASSUME NEW e \in Side, TransmitData(e) PROVE ~Fresh'
  <2>1. taken[e] \in Nat
    BY DEF Shape
  <2> QED BY <1>17, <2>1, NoMoreConnect, MsgTypes DEF TransmitData, ReaderAt, ReaderOnly
<1>18. ASSUME NEW e \in Side, EnqueueEOF(e) PROVE ~Fresh'
  BY <1>18, Sides DEF EnqueueEOF, ReaderAt, ReaderOnly
<1>19. ASSUME NEW e \in Side, WriterStops(e) PROVE ~Fresh'
  BY <1>19, Sides DEF WriterStops, WriterAt, WriterOnly
<1>20. ASSUME NEW e \in Side, TakeLocalEOF(e) PROVE ~Fresh'
  BY <1>20, Sides DEF TakeLocalEOF, WriterAt, WriterOnly
<1>21. ASSUME NEW e \in Side, RemoveFinished(e) PROVE ~Fresh'
  BY <1>21, Sides DEF RemoveFinished, WriterAt, WriterOnly
<1>22. ASSUME NEW e \in Side, HalfClose(e) PROVE ~Fresh'
  BY <1>22, NoMoreConnect, MsgTypes DEF HalfClose, WriterAt, WriterOnly
<1>23. ASSUME NEW e \in Side, TakeRemoteFIN(e) PROVE ~Fresh'
  BY <1>23, Sides DEF TakeRemoteFIN, WriterAt, WriterOnly
<1>24. ASSUME NEW e \in Side, TakeData(e) PROVE ~Fresh'
  BY <1>24, Sides DEF TakeData, WriterAt, WriterOnly
<1>25. ASSUME NEW e \in Side, WriteSucceeds(e) PROVE ~Fresh'
  BY <1>25, Sides DEF WriteSucceeds, WriterAt, WriterOnly
<1>26. ASSUME NEW e \in Side, WriteFails(e) PROVE ~Fresh'
  BY <1>26, Sides DEF WriteFails, WriterAt, WriterOnly
<1>27. ASSUME NEW e \in Side, SendAck(e) PROVE ~Fresh'
  BY <1>27, NoMoreConnect, MsgTypes DEF SendAck, WriterAt, WriterOnly
<1>28. ASSUME NEW e \in Side, TimerFires(e) PROVE ~Fresh'
  BY <1>28, Sides DEF TimerFires
<1>29. ASSUME NEW e \in Side, FinishRemove(e) PROVE ~Fresh'
  BY <1>29, NoMoreConnectSent, MsgTypes DEF FinishRemove
<1>30. ASSUME NEW e \in Side, RemoveSession(e) PROVE ~Fresh'
  BY <1>30, Sides DEF RemoveSession
<1>31. ASSUME NEW e \in Side, CloseStreams(e) PROVE ~Fresh'
  BY <1>31, HasNone, Sides DEF CloseStreams
<1>32. CASE UNCHANGED vars
  BY <1>32 DEF vars
<1> QED BY <1>1, <1>2, <1>3, <1>4, <1>5, <1>6, <1>7, <1>8, <1>9, <1>10, <1>11,
   <1>12, <1>13, <1>14, <1>15, <1>16, <1>17, <1>18, <1>19, <1>20, <1>21,
   <1>22, <1>23, <1>24, <1>25, <1>26, <1>27, <1>28, <1>29, <1>30, <1>31,
   <1>32, Steps
\* ... and before that
LEMMA FreshKeeps == Shape /\ FreshInv /\ Fresh /\ [Next]_vars => FreshInv'
<1> SUFFICES ASSUME Shape, FreshInv, Fresh, [Next]_vars PROVE FreshInv'
  OBVIOUS
<1> USE DEF Shape, FreshInv, Fresh, streamVars, goroutines, session, history
<1>1. CASE Accept
  BY <1>1, Sides DEF Accept, Streams, Stream, NewStream
<1>2. CASE SendConnect
  <2>1. /\ accepting = "connect" /\ accepting' = "done" /\ link["target"] = <<>> /\ Fresh
        /\ link["opener"] = <<>> /\ receiving = "idle" /\ receiving' = "idle"
    BY <1>2 DEF SendConnect
  <2>2. CASE "opener" \in up /\ alive
    <3>1. Transmit("opener", Connect) /\ UNCHANGED <<table, stream, remover>>
          /\ reader' = [reader EXCEPT !["opener"] = "wait"]
      BY <1>2, <2>2 DEF SendConnect
    <3>2. link'["opener"] = <<>> /\ link'["target"] \in {<<>>, <<Connect>>}
      <4>1. Append(<<>>, Connect) = <<Connect>>
        BY MsgTypes
      <4>2. link' = link \/ link' = [link EXCEPT !["target"] = Append(@, Connect)]
        BY <3>1, Sides DEF Transmit
      <4> QED BY <2>1, <4>1, <4>2, Sides
    <3>3. reader'["opener"] = "wait" /\ reader'["target"] = "none"
      BY <3>1, Sides
    <3> QED BY <1>2, <2>1, <3>1, <3>2, <3>3 DEF SendConnect
  <2>3. CASE ~("opener" \in up /\ alive)
    <3>1. DropUnsent /\ UNCHANGED <<reader, link>>
      BY <1>2, <2>3 DEF SendConnect
    <3>2. /\ stream'["opener"].acks = 0 /\ stream'["opener"].inbox = <<>>
          /\ ~stream'["opener"].timer /\ (stream'["opener"].ready => stream'["opener"].closed)
          /\ stream'["target"] = stream["target"] /\ remover'["target"] = remover["target"]
          /\ remover'["opener"].final = "none" /\ "target" \notin table'
      BY <3>1, RemoveEffect, Sides DEF DropUnsent
    <3> QED BY <1>2, <2>1, <3>1, <3>2 DEF SendConnect
  <2> QED BY <2>2, <2>3
<1>3. CASE BindConnect
  <2>1. link["target"] = <<Connect>> /\ accepting = "done"
    BY <1>3 DEF BindConnect, Arrives
  <2>2. Tail(<<Connect>>) = <<>>
    OBVIOUS
  <2>3. link'["target"] = <<>> /\ link'["opener"] = <<>>
    BY <1>3, <2>1, <2>2, Sides DEF BindConnect, Pop
  <2> QED BY <1>3, <2>1, <2>3 DEF BindConnect
<1>4. CASE HandleConnect
  <2>1. receiving = "bound" /\ accepting = "done" /\ link["target"] = <<>>
    BY <1>4 DEF HandleConnect, Shape, FreshInv
  <2>2. receiving' = "idle" /\ accepting' = "done" /\ link'["target"] = link["target"]
    BY ZenonT(40), <1>4, <2>1, Sides DEF HandleConnect, RejectConnect, SendIfBound, Transmit, Shape
  <2> QED BY <2>1, <2>2, HasNone DEF FreshInv, Fresh
<1>5. ASSUME NEW e \in Side, HandleSynAck(e) PROVE FreshInv'
  BY <1>5, FreshDisables DEF HandleSynAck
<1>6. ASSUME NEW e \in Side, HandleQueued(e) PROVE FreshInv'
  BY <1>6, FreshDisables DEF HandleQueued
<1>7. ASSUME NEW e \in Side, HandleDataAck(e) PROVE FreshInv'
  BY <1>7, FreshDisables DEF HandleDataAck
<1>8. CASE DialSucceeds
  BY <1>8, Sides DEF DialSucceeds
<1>9. CASE DialFails
  BY <1>9, Sides DEF DialFails, Remove
<1>10. CASE AnswerConnect
  BY <1>10, Sides DEF AnswerConnect, SendIfBound, Transmit
<1>11. ASSUME NEW e \in Side, ReaderStarts(e) PROVE FreshInv'
  BY <1>11, Sides DEF ReaderStarts, ReaderAt, ReaderOnly, Streams, Stream
<1>12. ASSUME NEW e \in Side, ReadChunk(e) PROVE FreshInv'
  BY <1>12, Sides DEF ReadChunk, ReaderAt, ReaderOnly
<1>13. ASSUME NEW e \in Side, ReadEOF(e) PROVE FreshInv'
  BY <1>13, Sides DEF ReadEOF, ReaderAt, ReaderOnly
<1>14. ASSUME NEW e \in Side, ReadClosed(e) PROVE FreshInv'
  BY <1>14, Sides DEF ReadClosed, ReaderAt, ReaderOnly
<1>15. ASSUME NEW e \in Side, AcquireSlot(e) PROVE FreshInv'
  BY <1>15, Sides DEF AcquireSlot, ReaderAt, ReaderOnly, SlotFree, Streams, Stream
<1>16. ASSUME NEW e \in Side, AcquireClosed(e) PROVE FreshInv'
  BY <1>16, Sides DEF AcquireClosed, ReaderAt, ReaderOnly
<1>17. ASSUME NEW e \in Side, TransmitData(e) PROVE FreshInv'
  BY <1>17, Sides DEF TransmitData, ReaderAt, ReaderOnly, Transmit
<1>18. ASSUME NEW e \in Side, EnqueueEOF(e) PROVE FreshInv'
  BY <1>18, Sides DEF EnqueueEOF, ReaderAt, ReaderOnly, Enqueue, HasRoom, Put
<1>19. ASSUME NEW e \in Side, WriterStops(e) PROVE FreshInv'
  BY <1>19, Sides DEF WriterStops, WriterAt, WriterOnly
<1>20. ASSUME NEW e \in Side, TakeLocalEOF(e) PROVE FreshInv'
  BY <1>20, Sides DEF TakeLocalEOF, WriterAt, WriterOnly, Drop, Taking
<1>21. ASSUME NEW e \in Side, RemoveFinished(e) PROVE FreshInv'
  BY <1>21, Sides DEF RemoveFinished, WriterAt, WriterOnly, Remove
<1>22. ASSUME NEW e \in Side, HalfClose(e) PROVE FreshInv'
  BY <1>22, Sides DEF HalfClose, WriterAt, WriterOnly, Arm, Transmit
<1>23. ASSUME NEW e \in Side, TakeRemoteFIN(e) PROVE FreshInv'
  BY <1>23, Sides DEF TakeRemoteFIN, WriterAt, WriterOnly, Drop, Taking, Arm, Remove
<1>24. ASSUME NEW e \in Side, TakeData(e) PROVE FreshInv'
  BY <1>24, Sides DEF TakeData, WriterAt, WriterOnly, Drop, Taking
<1>25. ASSUME NEW e \in Side, WriteSucceeds(e) PROVE FreshInv'
  BY <1>25, Sides DEF WriteSucceeds, WriterAt, WriterOnly, AckRouted
<1>26. ASSUME NEW e \in Side, WriteFails(e) PROVE FreshInv'
  BY <1>26, Sides DEF WriteFails, WriterAt, WriterOnly, Remove
<1>27. ASSUME NEW e \in Side, SendAck(e) PROVE FreshInv'
  BY <1>27, Sides DEF SendAck, WriterAt, WriterOnly, Transmit
<1>28. ASSUME NEW e \in Side, TimerFires(e) PROVE FreshInv'
  BY <1>28, FreshDisables DEF TimerFires
<1>29. ASSUME NEW e \in Side, FinishRemove(e) PROVE FreshInv'
  <2>1. remover[e].step = "close" /\ NotRemoving.step = "none"
    BY <1>29 DEF FinishRemove, NotRemoving
  <2>2. e = "opener" /\ remover["opener"].final = "none" /\ accepting # "accept"
    BY <2>1, FreshDisables
  <2>3. /\ stream'["opener"].acks = 0 /\ stream'["opener"].inbox = <<>>
        /\ ~stream'["opener"].timer /\ (stream'["opener"].ready => stream'["opener"].closed)
        /\ stream'["target"] = stream["target"]
    BY <1>29, <2>2, Sides DEF FinishRemove, Streams, Stream
  <2>4. remover'["target"] = remover["target"] /\ remover'["opener"].final = "none" /\ link' = link
    BY <1>29, <2>2, Sides DEF FinishRemove, Removers, Remover
  <2> QED BY <1>29, <2>2, <2>3, <2>4 DEF FinishRemove
<1>30. ASSUME NEW e \in Side, RemoveSession(e) PROVE FreshInv'
  BY <1>30, Sides DEF RemoveSession
<1>31. ASSUME NEW e \in Side, CloseStreams(e) PROVE FreshInv'
  <2>1. CASE monitor[e] = "close"
    <3>1. Remove(e, "none", stream)
      BY <1>31, <2>1 DEF CloseStreams
    <3>2. CASE e = "opener" /\ e \in table
      <4>1. /\ stream'["opener"].acks = 0 /\ stream'["opener"].inbox = <<>>
            /\ ~stream'["opener"].timer /\ stream'["opener"].closed
            /\ stream'["target"] = stream["target"] /\ remover'["target"] = remover["target"]
            /\ remover'["opener"].final = "none" /\ "target" \notin table' /\ accepting # "accept"
        BY <3>1, <3>2, RemoveEffect, Sides
      <4>2. link'["opener"] = <<>> /\ link'["target"] = <<>>
        BY <1>31, Sides DEF CloseStreams
      <4> QED BY <1>31, <4>1, <4>2 DEF CloseStreams
    <3>3. CASE e \notin table
      <4>1. stream' = stream /\ remover' = remover /\ table' = table
        BY <3>1, <3>3 DEF Remove
      <4>2. link'["opener"] = <<>> /\ link'["target"] = <<>>
        BY <1>31, Sides DEF CloseStreams
      <4> QED BY <1>31, <4>1, <4>2 DEF CloseStreams
    <3> QED BY <3>2, <3>3, Sides
  <2>2. CASE monitor[e] # "close"
    <3>1. UNCHANGED <<table, stream, remover>>
      BY <1>31, <2>2 DEF CloseStreams
    <3>2. link'["opener"] = <<>> /\ link'["target"] = <<>>
      BY <1>31, Sides DEF CloseStreams
    <3> QED BY <1>31, <3>1, <3>2 DEF CloseStreams
  <2> QED BY <2>1, <2>2
<1>32. CASE UNCHANGED vars
  BY <1>32 DEF vars
<1> QED BY <1>1, <1>2, <1>3, <1>4, <1>5, <1>6, <1>7, <1>8, <1>9, <1>10, <1>11,
   <1>12, <1>13, <1>14, <1>15, <1>16, <1>17, <1>18, <1>19, <1>20, <1>21,
   <1>22, <1>23, <1>24, <1>25, <1>26, <1>27, <1>28, <1>29, <1>30, <1>31,
   <1>32, Steps

-----------------------------------------------------------------------------
(* Counting what a link or an inbox holds.                                 *)

LEMMA HowManyIsNat ==
  ASSUME NEW q \in Seq(Msg), NEW t
  PROVE  HowMany(q, t) \in Nat /\ IsFiniteSet({i \in DOMAIN q : q[i].type = t})
<1>1. DOMAIN q = 1..Len(q) /\ Len(q) \in Nat
  OBVIOUS
<1>2. IsFiniteSet(1..Len(q))
  BY <1>1, FS_Interval
<1>3. {i \in DOMAIN q : q[i].type = t} \in SUBSET (1..Len(q))
  BY <1>1
<1>4. IsFiniteSet({i \in DOMAIN q : q[i].type = t})
  BY <1>2, <1>3, FS_Subset
<1> QED BY <1>4, FS_CardinalityType DEF HowMany

LEMMA HowManyNone == \A t : HowMany(<<>>, t) = 0
<1> SUFFICES ASSUME NEW t PROVE HowMany(<<>>, t) = 0
  OBVIOUS
<1>1. {i \in DOMAIN <<>> : <<>>[i].type = t} = {}
  OBVIOUS
<1> QED BY <1>1, FS_EmptySet DEF HowMany

LEMMA HowManyAppend ==
  ASSUME NEW q \in Seq(Msg), NEW m \in Msg, NEW t
  PROVE  HowMany(Append(q, m), t) = HowMany(q, t) + (IF m.type = t THEN 1 ELSE 0)
<1> DEFINE a == Append(q, m)
           Before == {i \in DOMAIN q : q[i].type = t}
           After == {i \in DOMAIN a : a[i].type = t}
<1>1. /\ a \in Seq(Msg) /\ Len(q) \in Nat
      /\ DOMAIN q = 1..Len(q) /\ DOMAIN a = 1..(Len(q) + 1)
      /\ \A i \in 1..Len(q) : a[i] = q[i]
      /\ a[Len(q) + 1] = m
  OBVIOUS
<1>2. \A i : i \in 1..(Len(q) + 1) <=> i \in 1..Len(q) \/ i = Len(q) + 1
  BY <1>1
<1>3. Len(q) + 1 \notin Before
  BY <1>1
<1>4. IsFiniteSet(Before) /\ Cardinality(Before) \in Nat
  BY HowManyIsNat DEF HowMany
<1>5. CASE m.type = t
  <2>1. After = Before \cup {Len(q) + 1}
    BY <1>1, <1>2, <1>5
  <2>2. Cardinality(After) = Cardinality(Before) + 1
    BY <1>3, <1>4, <2>1, FS_AddElement
  <2> QED BY <1>5, <2>2 DEF HowMany
<1>6. CASE m.type # t
  <2>1. After = Before
    BY <1>1, <1>2, <1>6
  <2>2. Cardinality(After) = Cardinality(Before)
    BY <2>1
  <2> HIDE DEF Before, After
  <2>3. Cardinality(After) = Cardinality(Before) + 0
    BY <1>4, <2>2
  <2> QED BY <1>6, <2>3 DEF HowMany, Before, After
<1> QED BY <1>5, <1>6

LEMMA HowManyTail ==
  ASSUME NEW q \in Seq(Msg), q # <<>>, NEW t
  PROVE  HowMany(q, t) = HowMany(Tail(q), t) + (IF Head(q).type = t THEN 1 ELSE 0)
<1> DEFINE r == Tail(q)
           Whole == {i \in DOMAIN q : q[i].type = t}
           Rest == {i \in DOMAIN r : r[i].type = t}
           Moved == {i \in Whole : i # 1}
<1>1. /\ Head(q) \in Msg /\ r \in Seq(Msg) /\ Head(q) = q[1]
      /\ Len(q) \in Nat /\ Len(q) > 0 /\ Len(r) = Len(q) - 1
      /\ DOMAIN q = 1..Len(q) /\ DOMAIN r = 1..Len(r)
  OBVIOUS
<1>2. \A i \in 1..Len(r) : r[i] = q[i + 1] /\ i + 1 \in 1..Len(q) /\ i + 1 # 1
  BY <1>1
<1>3. \A i \in 1..Len(q) : i # 1 => i - 1 \in 1..Len(r) /\ (i - 1) + 1 = i /\ r[i - 1] = q[i]
  BY <1>1, <1>2
<1>4. IsFiniteSet(Rest) /\ IsFiniteSet(Whole) /\ Cardinality(Rest) \in Nat
  BY <1>1, HowManyIsNat DEF HowMany
<1>5. IsFiniteSet(Moved) /\ Cardinality(Moved) = Cardinality(Rest)
  <2> DEFINE f == [i \in Rest |-> i + 1]
  <2>1. f \in [Rest -> Moved]
    BY <1>1, <1>2
  <2>2. \A i, j \in Rest : f[i] = f[j] => i = j
    BY <1>1
  <2>3. \A k \in Moved : \E i \in Rest : f[i] = k
    <3>1. ASSUME NEW k \in Moved PROVE k - 1 \in Rest /\ f[k - 1] = k
      BY <1>1, <1>3
    <3> QED BY <3>1
  <2>4. f \in Bijection(Rest, Moved)
    BY <2>1, <2>2, <2>3 DEF Bijection, Injection, Surjection, IsInjective
  <2> HIDE DEF f
  <2>5. ExistsBijection(Rest, Moved)
    BY <2>4 DEF ExistsBijection
  <2> QED BY <1>4, <2>5, FS_Bijection
<1>6. CASE Head(q).type = t
  <2>1. Whole = Moved \cup {1} /\ 1 \notin Moved
    BY <1>1, <1>6
  <2>2. Cardinality(Whole) = Cardinality(Rest) + 1
    BY <1>5, <2>1, FS_AddElement
  <2> QED BY <1>6, <2>2 DEF HowMany
<1>7. CASE Head(q).type # t
  <2>1. Whole = Moved
    BY <1>1, <1>7
  <2>2. Cardinality(Whole) = Cardinality(Rest)
    BY <1>5, <2>1
  <2> HIDE DEF Whole, Rest
  <2>3. Cardinality(Whole) = Cardinality(Rest) + 0
    BY <1>4, <2>2
  <2> QED BY <1>7, <2>3 DEF HowMany, Whole, Rest
<1> QED BY <1>6, <1>7

LEMMA HowManyHas ==
  ASSUME NEW q \in Seq(Msg), NEW t
  PROVE  HowMany(q, t) = 0 <=> ~Has(q, t)
<1> DEFINE S == {i \in DOMAIN q : q[i].type = t}
<1>1. IsFiniteSet(S)
  BY HowManyIsNat
<1>2. Cardinality(S) = 0 <=> S = {}
  BY <1>1, FS_EmptySet
<1>3. S = {} <=> ~Has(q, t)
  BY DEF Has
<1> QED BY <1>2, <1>3 DEF HowMany

\* An inbox holds nothing but DATA, FIN and the local EOF.
LEMMA InboxLength ==
  ASSUME NEW q \in Seq(Msg),
         \A i \in DOMAIN q : q[i].type \in {"DATA", "FIN", "localEOF"}
  PROVE  Len(q) = HowMany(q, "DATA") + HowMany(q, "FIN") + HowMany(q, "localEOF")
<1> DEFINE S(t) == {i \in DOMAIN q : q[i].type = t}
<1>1. DOMAIN q = 1..Len(q) /\ Len(q) \in Nat
  OBVIOUS
<1>2. Cardinality(DOMAIN q) = Len(q)
  <2>1. Cardinality(1..Len(q)) = IF 1 > Len(q) THEN 0 ELSE Len(q) - 1 + 1
    BY SMTT(30), <1>1, FS_Interval
  <2>2. Cardinality(1..Len(q)) = Len(q)
    BY <1>1, <2>1
  <2> QED BY <1>1, <2>2
<1>3. \A t : IsFiniteSet(S(t)) /\ Cardinality(S(t)) \in Nat
  BY HowManyIsNat DEF HowMany
<1> DEFINE D == S("DATA")
           F == S("FIN")
           L == S("localEOF")
           E == D \cup F
<1>4. IsFiniteSet(D) /\ IsFiniteSet(F) /\ IsFiniteSet(L)
      /\ Cardinality(D) \in Nat /\ Cardinality(F) \in Nat /\ Cardinality(L) \in Nat
  BY <1>3
<1>5. DOMAIN q = E \cup L /\ D \cap F = {} /\ E \cap L = {}
  OBVIOUS
<1>6. Cardinality(D) = HowMany(q, "DATA") /\ Cardinality(F) = HowMany(q, "FIN")
      /\ Cardinality(L) = HowMany(q, "localEOF")
  BY DEF HowMany
<1> HIDE DEF D, F, L
<1>7. Cardinality({}) = 0
  BY FS_EmptySet
<1>8. IsFiniteSet(E) /\ Cardinality(E) = Cardinality(D) + Cardinality(F) - Cardinality({})
  BY <1>4, <1>5, FS_Union
<1>9. Cardinality(E) = Cardinality(D) + Cardinality(F) /\ Cardinality(E) \in Nat
  BY <1>4, <1>7, <1>8
<1> HIDE DEF E
<1>10. Cardinality(E \cup L) = Cardinality(E) + Cardinality(L) - Cardinality({})
  BY <1>4, <1>5, <1>8, FS_Union
<1>11. Cardinality(DOMAIN q) = Cardinality(E \cup L)
  BY <1>5
<1> QED BY <1>2, <1>4, <1>6, <1>7, <1>9, <1>10, <1>11

-----------------------------------------------------------------------------
(* The table, the bindings and the session.                                *)

Life ==
  /\ \A e \in Side :
       /\ e \in table => remover[e].step = "none"
       /\ stream[e].closed <=> remover[e].step # "none"
       /\ monitor[e] = "watch" <=> e \in up
  /\ NoOrphanAtOpener
  /\ "opener" \in table /\ "opener" \in up /\ accepting # "connect" => "opener" \in bound
  /\ "target" \in table /\ "target" \in up => "target" \in bound
  /\ receiving = "bound" /\ "target" \in up => "target" \in bound
  /\ ~alive => link = [e \in Side |-> <<>>]

\* No stream enters or leaves the table, and no stream is closed, ...
Kept ==
  /\ table' = table /\ remover' = remover
  /\ \A x \in Side : stream'[x].closed = stream[x].closed

\* ... or the stream of one side is removed, if the table still has it.
Removed(e) ==
  /\ table' = table \ {e}
  /\ \A x \in Side : x # e \/ x \notin table =>
       stream'[x].closed = stream[x].closed /\ remover'[x] = remover[x]
  /\ e \in table => stream'[e].closed /\ remover'[e].step = "close"

LEMMA Removal ==
  ASSUME Shape, NEW e \in Side, NEW f \in {"none", "FIN", "SYN_ACK"}, Remove(e, f, stream)
  PROVE  Removed(e)
<1>1. stream \in Streams
  BY DEF Shape
<1> QED BY <1>1, RemoveEffect DEF Removed

LEMMA LifeKept ==
  ASSUME Shape, Life, Kept \/ \E e \in Side : Removed(e),
         UNCHANGED <<monitor, up, bound, accepting, receiving, alive>>, ~alive => link' = link
  PROVE  Life'
<1>1. CASE Kept
  BY <1>1, Sides DEF Kept, Life, NoOrphanAtOpener
<1>2. ASSUME NEW e \in Side, Removed(e) PROVE Life'
  BY <1>2, Sides DEF Removed, Life, NoOrphanAtOpener
<1> QED BY <1>1, <1>2

LEMMA DeadLink ==
  ASSUME Life, ~alive, NEW e \in Side
  PROVE  link[e] = <<>> /\ \A t : ~Arrives(e, t)
  BY DEF Life, Arrives

\* Every step keeps Life.
LEMMA LifeStep == Shape /\ FreshInv /\ Life /\ [Next]_vars => Life'
<1> SUFFICES ASSUME Shape, FreshInv, Life, [Next]_vars PROVE Life'
  OBVIOUS
<1> USE DEF streamVars, goroutines, session, history
<1>1. CASE Accept
  <2>1. /\ stream'["opener"].closed = FALSE /\ stream'["target"] = stream["target"]
        /\ remover["opener"].step = "none" /\ "target" \notin table /\ receiving = "idle"
    BY <1>1, Sides DEF Accept, NewStream, NotRemoving, FreshInv, Fresh, Streams, Shape
  <2> QED BY <1>1, <2>1, Sides DEF Accept, Life, NoOrphanAtOpener
<1>2. CASE SendConnect
  <2>1. /\ accepting = "connect" /\ receiving = "idle" /\ "target" \notin table
        /\ accepting' = "done" /\ receiving' = "idle" /\ UNCHANGED <<monitor, up, alive>>
        /\ (~alive => link' = link)
    BY <1>2 DEF SendConnect, FreshInv, Fresh, Transmit
  <2>2. CASE "opener" \in up /\ alive
    <3>1. bound' = bound \cup {"opener"} /\ UNCHANGED <<table, stream, remover>>
      BY <1>2, <2>2 DEF SendConnect
    <3> QED BY <2>1, <2>2, <3>1, Sides DEF Life, NoOrphanAtOpener
  <2>3. CASE ~("opener" \in up /\ alive)
    <3>1. Removed("opener") /\ bound' = IF "opener" \in up THEN bound \cup {"opener"} ELSE bound
      BY <1>2, <2>3, Removal, Sides DEF SendConnect, DropUnsent
    <3> QED BY <2>1, <2>3, <3>1, Sides DEF Life, NoOrphanAtOpener, Removed
  <2> QED BY <2>2, <2>3
<1>3. CASE BindConnect
  <2>1. link' = link \/ alive
    BY <1>3, DeadLink, Sides DEF BindConnect
  <2> QED BY <1>3, <2>1, Sides DEF BindConnect, Life, NoOrphanAtOpener
<1>4. CASE HandleConnect
  <2>1. receiving = "bound" /\ receiving' = "idle" /\ accepting = "done" /\ accepting' = "done"
        /\ remover["target"].step = "none" /\ "target" \notin table
    BY <1>4 DEF HandleConnect, FreshInv, Fresh, NotRemoving
  <2>2. (~alive => link' = link) /\ UNCHANGED <<monitor, up, alive, remover>>
    BY <1>4 DEF HandleConnect, RejectConnect, SendIfBound, Transmit
  <2>3. CASE table' = table \cup {"target"} /\ UNCHANGED bound
             /\ stream' = [stream EXCEPT !["target"] = NewStream("none")]
    <3>1. stream'["target"].closed = FALSE /\ stream'["opener"] = stream["opener"]
      BY <2>3, Sides DEF NewStream, Streams, Shape
    <3> QED BY <2>1, <2>2, <2>3, <3>1, Sides DEF Life, NoOrphanAtOpener
  <2>4. CASE bound' = bound \ {"target"} /\ UNCHANGED <<table, stream>>
    BY <2>1, <2>2, <2>4, Sides DEF Life, NoOrphanAtOpener
  <2> QED BY <1>4, <2>3, <2>4 DEF HandleConnect, RejectConnect
<1>5. ASSUME NEW e \in Side, HandleSynAck(e) PROVE Life'
  <2>1. Kept \/ Removed(e)
    <3>1. CASE e \in table /\ ~Head(link[e]).ok
      BY <1>5, <3>1, Removal DEF HandleSynAck
    <3>2. CASE ~(e \in table /\ ~Head(link[e]).ok)
      <4>1. stream' = [stream EXCEPT ![e].ready = @ \/ e \in table] /\ UNCHANGED <<table, remover>>
        BY <1>5, <3>2 DEF HandleSynAck
      <4>2. \A x \in Side : stream'[x].closed = stream[x].closed
        BY <4>1 DEF Shape, Streams, Stream
      <4> QED BY <4>1, <4>2 DEF Kept
    <3> QED BY <3>1, <3>2
  <2>2. UNCHANGED <<monitor, up, bound, accepting, receiving, alive>> /\ alive
    BY <1>5, DeadLink DEF HandleSynAck
  <2> QED BY <2>1, <2>2, LifeKept
<1>6. ASSUME NEW e \in Side, HandleQueued(e) PROVE Life'
  <2>1. Kept
    BY <1>6, PutEffect, Sides DEF HandleQueued, Kept
  <2>2. UNCHANGED <<monitor, up, bound, accepting, receiving, alive>> /\ alive
    BY <1>6, DeadLink DEF HandleQueued
  <2> QED BY <2>1, <2>2, LifeKept
<1>7. ASSUME NEW e \in Side, HandleDataAck(e) PROVE Life'
  <2>1. Kept
    BY <1>7, HandleDataAckEffect DEF HandleDataAck, Kept
  <2>2. UNCHANGED <<monitor, up, bound, accepting, receiving, alive>> /\ alive
    BY <1>7, DeadLink DEF HandleDataAck
  <2> QED BY <2>1, <2>2, LifeKept
<1>8. CASE DialSucceeds
  <2>1. Kept
    BY <1>8, DialSucceedsEffect, Sides DEF DialSucceeds, Kept
  <2>2. UNCHANGED <<monitor, up, bound, accepting, receiving, alive>> /\ (~alive => link' = link)
    BY <1>8 DEF DialSucceeds
  <2> QED BY <2>1, <2>2, LifeKept
<1>9. CASE DialFails
  <2>1. Removed("target")
    BY <1>9, Removal, Sides DEF DialFails
  <2>2. UNCHANGED <<monitor, up, bound, accepting, receiving, alive>> /\ (~alive => link' = link)
    BY <1>9 DEF DialFails
  <2> QED BY <2>1, <2>2, LifeKept, Sides
<1>10. CASE AnswerConnect
  <2>1. Kept
    BY <1>10, AnswerConnectEffect, Sides DEF AnswerConnect, Kept
  <2>2. UNCHANGED <<monitor, up, bound, accepting, receiving, alive>> /\ (~alive => link' = link)
    BY <1>10 DEF AnswerConnect, SendIfBound, Transmit
  <2> QED BY <2>1, <2>2, LifeKept
<1>11. ASSUME NEW e \in Side, ReaderStarts(e) PROVE Life'
  <2>1. Kept
    BY <1>11 DEF ReaderStarts, ReaderOnly, Kept
  <2>2. UNCHANGED <<monitor, up, bound, accepting, receiving, alive>> /\ (~alive => link' = link)
    BY <1>11 DEF ReaderStarts, ReaderOnly
  <2> QED BY <2>1, <2>2, LifeKept
<1>12. ASSUME NEW e \in Side, ReadChunk(e) PROVE Life'
  <2>1. Kept
    BY <1>12 DEF ReadChunk, ReaderOnly, Kept
  <2>2. UNCHANGED <<monitor, up, bound, accepting, receiving, alive>> /\ (~alive => link' = link)
    BY <1>12 DEF ReadChunk, ReaderOnly
  <2> QED BY <2>1, <2>2, LifeKept
<1>13. ASSUME NEW e \in Side, ReadEOF(e) PROVE Life'
  <2>1. Kept
    BY <1>13 DEF ReadEOF, ReaderOnly, Kept
  <2>2. UNCHANGED <<monitor, up, bound, accepting, receiving, alive>> /\ (~alive => link' = link)
    BY <1>13 DEF ReadEOF, ReaderOnly
  <2> QED BY <2>1, <2>2, LifeKept
<1>14. ASSUME NEW e \in Side, ReadClosed(e) PROVE Life'
  <2>1. Kept
    BY <1>14 DEF ReadClosed, ReaderOnly, Kept
  <2>2. UNCHANGED <<monitor, up, bound, accepting, receiving, alive>> /\ (~alive => link' = link)
    BY <1>14 DEF ReadClosed, ReaderOnly
  <2> QED BY <2>1, <2>2, LifeKept
<1>15. ASSUME NEW e \in Side, AcquireSlot(e) PROVE Life'
  <2>1. Kept
    BY <1>15, AcquireSlotEffect DEF AcquireSlot, ReaderOnly, Kept
  <2>2. UNCHANGED <<monitor, up, bound, accepting, receiving, alive>> /\ (~alive => link' = link)
    BY <1>15 DEF AcquireSlot, ReaderOnly
  <2> QED BY <2>1, <2>2, LifeKept
<1>16. ASSUME NEW e \in Side, AcquireClosed(e) PROVE Life'
  <2>1. Kept
    BY <1>16 DEF AcquireClosed, ReaderOnly, Kept
  <2>2. UNCHANGED <<monitor, up, bound, accepting, receiving, alive>> /\ (~alive => link' = link)
    BY <1>16 DEF AcquireClosed, ReaderOnly
  <2> QED BY <2>1, <2>2, LifeKept
<1>17. ASSUME NEW e \in Side, TransmitData(e) PROVE Life'
  <2>1. Kept
    BY <1>17 DEF TransmitData, ReaderOnly, Kept
  <2>2. UNCHANGED <<monitor, up, bound, accepting, receiving, alive>> /\ (~alive => link' = link)
    BY <1>17 DEF TransmitData, ReaderOnly, Transmit
  <2> QED BY <2>1, <2>2, LifeKept
<1>18. ASSUME NEW e \in Side, EnqueueEOF(e) PROVE Life'
  <2>1. Kept
    BY <1>18, PutEffect DEF EnqueueEOF, ReaderOnly, Kept
  <2>2. UNCHANGED <<monitor, up, bound, accepting, receiving, alive>> /\ (~alive => link' = link)
    BY <1>18 DEF EnqueueEOF, ReaderOnly
  <2> QED BY <2>1, <2>2, LifeKept
<1>19. ASSUME NEW e \in Side, WriterStops(e) PROVE Life'
  <2>1. Kept
    BY <1>19 DEF WriterStops, WriterOnly, Kept
  <2>2. UNCHANGED <<monitor, up, bound, accepting, receiving, alive>> /\ (~alive => link' = link)
    BY <1>19 DEF WriterStops, WriterOnly
  <2> QED BY <2>1, <2>2, LifeKept
<1>20. ASSUME NEW e \in Side, TakeLocalEOF(e) PROVE Life'
  <2>1. Kept
    BY <1>20, TakeLocalEOFEffect DEF TakeLocalEOF, WriterOnly, Kept
  <2>2. UNCHANGED <<monitor, up, bound, accepting, receiving, alive>> /\ (~alive => link' = link)
    BY <1>20 DEF TakeLocalEOF, WriterOnly
  <2> QED BY <2>1, <2>2, LifeKept
<1>21. ASSUME NEW e \in Side, RemoveFinished(e) PROVE Life'
  <2>1. Removed(e)
    BY <1>21, Removal DEF RemoveFinished
  <2>2. UNCHANGED <<monitor, up, bound, accepting, receiving, alive>> /\ (~alive => link' = link)
    BY <1>21 DEF RemoveFinished, WriterOnly
  <2> QED BY <2>1, <2>2, LifeKept, Sides
<1>22. ASSUME NEW e \in Side, HalfClose(e) PROVE Life'
  <2>1. Kept
    BY <1>22, HalfCloseEffect DEF HalfClose, WriterOnly, Kept
  <2>2. UNCHANGED <<monitor, up, bound, accepting, receiving, alive>> /\ (~alive => link' = link)
    BY <1>22 DEF HalfClose, WriterOnly, Transmit
  <2> QED BY <2>1, <2>2, LifeKept
<1>23. ASSUME NEW e \in Side, TakeRemoteFIN(e) PROVE Life'
  <2>1. Kept \/ Removed(e)
    BY <1>23, TakeRemoteFINEffect DEF Kept, Removed
  <2>2. UNCHANGED <<monitor, up, bound, accepting, receiving, alive, link>>
    BY <1>23 DEF TakeRemoteFIN, WriterOnly
  <2> QED BY <2>1, <2>2, LifeKept
<1>24. ASSUME NEW e \in Side, TakeData(e) PROVE Life'
  <2>1. Kept
    BY <1>24, TakeDataEffect DEF TakeData, WriterOnly, Kept
  <2>2. UNCHANGED <<monitor, up, bound, accepting, receiving, alive>> /\ (~alive => link' = link)
    BY <1>24 DEF TakeData, WriterOnly
  <2> QED BY <2>1, <2>2, LifeKept
<1>25. ASSUME NEW e \in Side, WriteSucceeds(e) PROVE Life'
  <2>1. Kept
    BY <1>25 DEF WriteSucceeds, WriterOnly, Kept
  <2>2. UNCHANGED <<monitor, up, bound, accepting, receiving, alive>> /\ (~alive => link' = link)
    BY <1>25 DEF WriteSucceeds, WriterOnly
  <2> QED BY <2>1, <2>2, LifeKept
<1>26. ASSUME NEW e \in Side, WriteFails(e) PROVE Life'
  <2>1. Removed(e)
    BY <1>26, Removal DEF WriteFails
  <2>2. UNCHANGED <<monitor, up, bound, accepting, receiving, alive>> /\ (~alive => link' = link)
    BY <1>26 DEF WriteFails, WriterOnly
  <2> QED BY <2>1, <2>2, LifeKept, Sides
<1>27. ASSUME NEW e \in Side, SendAck(e) PROVE Life'
  <2>1. Kept
    BY <1>27 DEF SendAck, WriterOnly, Kept
  <2>2. UNCHANGED <<monitor, up, bound, accepting, receiving, alive>> /\ (~alive => link' = link)
    BY <1>27 DEF SendAck, WriterOnly, Transmit
  <2> QED BY <2>1, <2>2, LifeKept
<1>28. ASSUME NEW e \in Side, TimerFires(e) PROVE Life'
  <2>1. Removed(e)
    BY <1>28, TimerFiresEffect DEF Removed
  <2>2. UNCHANGED <<monitor, up, bound, accepting, receiving, alive>> /\ (~alive => link' = link)
    BY <1>28 DEF TimerFires
  <2> QED BY <2>1, <2>2, LifeKept, Sides
<1>29. ASSUME NEW e \in Side, FinishRemove(e) PROVE Life'
  <2>1. /\ table' = table /\ bound' = bound \ {e} /\ e \notin table
        /\ UNCHANGED <<monitor, up, accepting, receiving, alive>> /\ (~alive => link' = link)
    BY <1>29 DEF FinishRemove, SendIfBound, Transmit, Life
  <2>2. \A x \in Side : stream'[x].closed = stream[x].closed
    BY <1>29, FinishRemoveEffect
  <2>3. /\ \A x \in Side : x # e => remover'[x] = remover[x]
        /\ remover'[e].step = "done" /\ remover[e].step = "close"
    BY <1>29 DEF FinishRemove, Shape, Removers, Remover
  <2>4. receiving = "bound" => e # "target"
    BY <2>3 DEF FreshInv, Fresh, NotRemoving
  <2> QED BY <2>1, <2>2, <2>3, <2>4, Sides DEF Life, NoOrphanAtOpener
<1>30. ASSUME NEW e \in Side, RemoveSession(e) PROVE Life'
  <2>1. /\ monitor[e] = "watch" /\ up' = up \ {e} /\ bound' = bound \ {e}
        /\ UNCHANGED <<table, stream, remover, accepting, receiving, alive, link>>
        /\ \A x \in Side : x # e => monitor'[x] = monitor[x]
        /\ monitor'[e] \in {"close", "drop"} /\ (e \in bound => monitor'[e] = "close")
    BY <1>30 DEF RemoveSession, Shape
  <2> QED BY <2>1, Sides DEF Life, NoOrphanAtOpener
<1>31. ASSUME NEW e \in Side, CloseStreams(e) PROVE Life'
  <2>1. \/ Removed(e) /\ monitor[e] = "close"
        \/ Kept /\ monitor[e] = "drop"
    BY <1>31, Removal DEF CloseStreams, Kept
  <2>2. /\ UNCHANGED <<up, bound, accepting, receiving>> /\ link' = [x \in Side |-> <<>>]
        /\ \A x \in Side : x # e => monitor'[x] = monitor[x]
        /\ monitor'[e] = "done"
    BY <1>31 DEF CloseStreams, Shape
  <2>3. CASE Removed(e) /\ monitor[e] = "close"
    BY <2>2, <2>3, Sides DEF Life, NoOrphanAtOpener, Removed
  <2>4. CASE Kept /\ monitor[e] = "drop"
    BY <2>2, <2>4, Sides DEF Life, NoOrphanAtOpener, Kept
  <2> QED BY <2>1, <2>3, <2>4
<1>32. CASE UNCHANGED vars
  BY <1>32 DEF vars, Life, NoOrphanAtOpener
<1> QED BY <1>1, <1>2, <1>3, <1>4, <1>5, <1>6, <1>7, <1>8, <1>9, <1>10, <1>11,
   <1>12, <1>13, <1>14, <1>15, <1>16, <1>17, <1>18, <1>19, <1>20, <1>21,
   <1>22, <1>23, <1>24, <1>25, <1>26, <1>27, <1>28, <1>29, <1>30, <1>31,
   <1>32, Steps

-----------------------------------------------------------------------------
(* The answer to the CONNECT.                                              *)

Holds(q, f) == \E i \in DOMAIN q : q[i] = f

LEMMA HoldsNone == \A f : ~Holds(<<>>, f)
  BY DEF Holds

LEMMA HoldsAppend ==
  \A q \in Seq(Msg) : \A m \in Msg : \A f :
    Holds(Append(q, m), f) => Holds(q, f) \/ m = f
<1> SUFFICES ASSUME NEW q \in Seq(Msg), NEW m \in Msg, NEW f, Holds(Append(q, m), f)
             PROVE  Holds(q, f) \/ m = f
  OBVIOUS
<1>1. /\ DOMAIN q = 1..Len(q) /\ DOMAIN Append(q, m) = 1..(Len(q) + 1) /\ Len(q) \in Nat
      /\ \A i \in 1..Len(q) : Append(q, m)[i] = q[i]
      /\ Append(q, m)[Len(q) + 1] = m
  OBVIOUS
<1> QED BY <1>1 DEF Holds

LEMMA HoldsTail ==
  \A q \in Seq(Msg) : q # <<>> =>
    Holds(q, Head(q)) /\ \A f : Holds(Tail(q), f) => Holds(q, f)
<1> SUFFICES ASSUME NEW q \in Seq(Msg), q # <<>>
             PROVE  Holds(q, Head(q)) /\ \A f : Holds(Tail(q), f) => Holds(q, f)
  OBVIOUS
<1>1. /\ DOMAIN q = 1..Len(q) /\ DOMAIN Tail(q) = 1..(Len(q) - 1) /\ Len(q) \in Nat /\ Len(q) > 0
      /\ \A i \in 1..(Len(q) - 1) : Tail(q)[i] = q[i + 1]
      /\ Head(q) = q[1]
  OBVIOUS
<1>2. ASSUME NEW f, Holds(Tail(q), f) PROVE Holds(q, f)
  <2>1. PICK i \in DOMAIN Tail(q) : Tail(q)[i] = f
    BY <1>2 DEF Holds
  <2>2. i + 1 \in DOMAIN q /\ q[i + 1] = Tail(q)[i]
    BY <1>1, <2>1
  <2> QED BY <2>1, <2>2 DEF Holds
<1>3. Holds(q, Head(q))
  BY <1>1 DEF Holds
<1> QED BY <1>2, <1>3

Positive == SynAck(TRUE)
Negative == SynAck(FALSE)

LEMMA Answers ==
  /\ Positive \in Msg /\ Negative \in Msg /\ Positive # Negative
  /\ Positive.type = "SYN_ACK" /\ Negative.type = "SYN_ACK"
  /\ \A m \in Msg : m.type = "SYN_ACK" /\ m.ok => m = Positive
  /\ \A m \in Msg : m.type # "SYN_ACK" => m # Positive /\ m # Negative
<1>1. /\ Positive \in Msg /\ Negative \in Msg
      /\ Positive.type = "SYN_ACK" /\ Negative.type = "SYN_ACK"
  BY MsgTypes DEF Positive, Negative
<1>2. Positive # Negative
  BY DEF Positive, Negative, SynAck
<1>3. ASSUME NEW m \in Msg, m.type = "SYN_ACK", m.ok PROVE m = Positive
  BY <1>3 DEF Msg, SynAck, Positive
<1>4. ASSUME NEW m \in Msg, m.type # "SYN_ACK" PROVE m # Positive /\ m # Negative
  BY <1>1, <1>4
<1> QED BY <1>1, <1>2, <1>3, <1>4

\* Sending and receiving change what a link holds by one frame.
LEMMA TransmitHas ==
  ASSUME Shape, NEW e \in Side, NEW f \in Msg, Transmit(e, f), NEW x \in Side
  PROVE  /\ \A t : Has(link'[x], t) => Has(link[x], t) \/ (x = Other(e) /\ f.type = t)
         /\ \A g : Holds(link'[x], g) => Holds(link[x], g) \/ (x = Other(e) /\ f = g)
<1>1. link[x] \in Seq(Msg)
  BY DEF Shape
<1>2. \/ link'[x] = link[x]
      \/ x = Other(e) /\ link'[x] = Append(link[x], f)
  BY Sides DEF Transmit, Shape
<1>3. ASSUME NEW t, Has(link'[x], t) PROVE Has(link[x], t) \/ (x = Other(e) /\ f.type = t)
  BY <1>1, <1>2, <1>3, HasAppend
<1>4. ASSUME NEW g, Holds(link'[x], g) PROVE Holds(link[x], g) \/ (x = Other(e) /\ f = g)
  BY <1>1, <1>2, <1>4, HoldsAppend
<1> QED BY <1>3, <1>4

LEMMA SendHas ==
  ASSUME Shape, NEW e \in Side, NEW f \in Msg, SendIfBound(e, f), NEW x \in Side
  PROVE  /\ \A t : Has(link'[x], t) => Has(link[x], t) \/ (x = Other(e) /\ f.type = t)
         /\ \A g : Holds(link'[x], g) => Holds(link[x], g) \/ (x = Other(e) /\ f = g)
  BY TransmitHas DEF SendIfBound

LEMMA PopHas ==
  ASSUME Shape, NEW e \in Side, NEW type, Arrives(e, type), link' = Pop(e), NEW x \in Side
  PROVE  /\ \A t : Has(link'[x], t) => Has(link[x], t)
         /\ \A g : Holds(link'[x], g) => Holds(link[x], g)
<1>1. link[x] \in Seq(Msg) /\ (x = e => link[x] # <<>>)
  BY DEF Shape, Arrives
<1>2. \/ link'[x] = link[x]
      \/ x = e /\ link'[x] = Tail(link[x])
  BY DEF Pop, Shape
<1> QED BY <1>1, <1>2, HasTail, HoldsTail

LEMMA NegativeAnswer == \A m \in Msg : m.type = "SYN_ACK" /\ ~m.ok => m = Negative
  BY DEF Msg, SynAck, Negative

Answer ==
  /\ dialing # "done" => reader["target"] = "none"
  /\ dialing \in {"dial", "answer"} =>
       remover["target"].final # "SYN_ACK" /\ ~Holds(link["opener"], Negative)
  /\ dialing # "done" \/ remover["target"].final = "SYN_ACK" \/ Holds(link["opener"], Negative) =>
       /\ ~Holds(link["opener"], Positive)
       /\ stream["opener"].ready => stream["opener"].closed
       /\ reader["opener"] \in {"none", "wait", "done"}
  /\ dialing = "dial" => stream["target"].closed \/ ~stream["target"].ready
  /\ dialing = "answer" => stream["target"].conn # "none"
  /\ ~Has(link["target"], "SYN_ACK") /\ remover["opener"].final # "SYN_ACK"
  /\ accepting # "accept" => stream["opener"].conn # "none"
  /\ "target" \in table /\ stream["target"].ready => stream["target"].conn # "none"

\* No answer is on its way that was not before, ...
NoNewAnswer ==
  \A x \in Side :
    /\ Has(link'[x], "SYN_ACK") => Has(link[x], "SYN_ACK")
    /\ Holds(link'[x], Positive) => Holds(link[x], Positive)
    /\ Holds(link'[x], Negative) => Holds(link[x], Negative)

\* ... none is to be sent, and no stream becomes ready but by its removal.
Settled ==
  /\ table' \subseteq table
  /\ \A x \in Side :
       /\ stream'[x].conn = "none" => stream[x].conn = "none"
       /\ stream[x].closed => stream'[x].closed
       /\ stream'[x].ready => stream[x].ready \/ (stream'[x].closed /\ x \notin table')
       /\ remover'[x].final = "SYN_ACK" => remover[x].final = "SYN_ACK"

LEMMA AnswerKept ==
  ASSUME Shape, Answer, NoNewAnswer, Settled, dialing' = dialing,
         accepting' # "accept" => accepting # "accept",
         reader["target"] = "none" => reader'["target"] = "none",
         reader["opener"] \in {"none", "wait", "done"}
           /\ (stream["opener"].ready => stream["opener"].closed)
             => reader'["opener"] \in {"none", "wait", "done"}
  PROVE  Answer'
  BY Sides DEF Answer, NoNewAnswer, Settled

LEMMA RemovalSettled ==
  ASSUME Shape, NEW e \in Side, NEW f \in {"none", "FIN"}, Remove(e, f, stream)
  PROVE  Settled
<1>1. stream \in Streams
  BY DEF Shape
<1> QED BY <1>1, RemoveEffect DEF Settled

\* Every step keeps Answer.
LEMMA AnswerStep == Shape /\ FreshInv /\ Life /\ Answer /\ [Next]_vars =>
   Answer'
<1> SUFFICES ASSUME Shape, FreshInv, Life, Answer, [Next]_vars PROVE Answer'
  OBVIOUS
<1> USE DEF streamVars, goroutines, session, history
<1>1. CASE Accept
  <2>1. /\ "target" \notin table /\ dialing = "none" /\ remover["target"].final = "none"
        /\ reader["opener"] = "none" /\ reader["target"] = "none"
        /\ link["opener"] = <<>> /\ link["target"] = <<>> /\ stream["target"] = NewStream("none")
    BY <1>1 DEF Accept, FreshInv, Fresh, NotRemoving
  <2>2. /\ stream'["opener"].ready = FALSE /\ stream'["opener"].conn = "open"
        /\ stream'["target"] = stream["target"]
    BY <1>1, Sides DEF Accept, NewStream, Streams, Shape
  <2> QED BY <1>1, <2>1, <2>2, Sides, HasNone, HoldsNone DEF Accept, Answer
<1>2. CASE SendConnect
  <2>1. NoNewAnswer
    BY <1>2, TransmitHas, MsgTypes, Answers, Sides DEF SendConnect, NoNewAnswer
  <2>2. Settled
    BY <1>2, RemovalSettled, Sides DEF SendConnect, DropUnsent, Settled
  <2>3. /\ dialing' = dialing /\ accepting # "accept"
        /\ reader'["target"] = reader["target"] /\ reader'["opener"] \in {"none", "wait"}
    BY <1>2, Sides DEF SendConnect, FreshInv, Shape
  <2> QED BY <2>1, <2>2, <2>3, AnswerKept
<1>3. CASE BindConnect
  <2>1. NoNewAnswer
    BY <1>3, PopHas, Sides DEF BindConnect, NoNewAnswer
  <2>2. Settled
    BY <1>3 DEF BindConnect, Settled
  <2>3. /\ dialing' = dialing /\ accepting' = accepting
        /\ reader["target"] = "none" => reader'["target"] = "none"
        /\ reader["opener"] \in {"none", "wait", "done"}
           /\ (stream["opener"].ready => stream["opener"].closed)
             => reader'["opener"] \in {"none", "wait", "done"}
    BY <1>3, Sides DEF BindConnect
  <2> QED BY <2>1, <2>2, <2>3, AnswerKept
<1>4. CASE HandleConnect
  <2>1. /\ "target" \notin table /\ dialing = "none" /\ remover["target"].final = "none"
        /\ reader["target"] = "none" /\ link["opener"] = <<>> /\ link["target"] = <<>>
    BY <1>4 DEF HandleConnect, FreshInv, Fresh, NotRemoving
  <2>2. UNCHANGED <<remover, reader, accepting>>
    BY <1>4 DEF HandleConnect
  <2>3. CASE dialing' = "dial" /\ link' = link
             /\ stream' = [stream EXCEPT !["target"] = NewStream("none")]
    <3>1. stream'["target"].ready = FALSE /\ stream'["opener"] = stream["opener"]
      BY <2>3, Sides DEF NewStream, Streams, Shape
    <3> QED BY <2>1, <2>2, <2>3, <3>1, HoldsNone, Sides DEF Answer
  <2>4. CASE SendIfBound("target", Negative) /\ UNCHANGED <<table, stream, dialing>>
    <3>1. Negative \in Msg
      BY Answers
    <3>2. ~Holds(link'["opener"], Positive) /\ ~Has(link'["target"], "SYN_ACK")
      <4>1. ~Holds(link["opener"], Positive) /\ ~Has(link["target"], "SYN_ACK")
        BY <2>1, HoldsNone, HasNone
      <4>2. Negative # Positive
        BY Answers
      <4>3. ~Holds(link'["opener"], Positive)
        BY <2>4, <3>1, <4>1, <4>2, SendHas, Sides
      <4> QED BY <2>4, <3>1, <4>1, <4>3, SendHas, Sides
    <3> QED BY <2>1, <2>2, <2>4, <3>2 DEF Answer
  <2> QED BY <1>4, <2>3, <2>4 DEF HandleConnect, RejectConnect, Negative
<1>5. ASSUME NEW e \in Side, HandleSynAck(e) PROVE Answer'
  <2>1. NoNewAnswer
    BY <1>5, PopHas DEF HandleSynAck, NoNewAnswer
  <2>2. UNCHANGED <<dialing, accepting, reader>>
    BY <1>5 DEF HandleSynAck
  <2>3. /\ link[e] \in Seq(Msg) /\ link[e] # <<>> /\ Head(link[e]).type = "SYN_ACK"
        /\ Head(link[e]) \in Msg
    BY <1>5, PopShape DEF HandleSynAck, Arrives
  <2>4. e = "opener"
    BY <2>3, HasTail, Sides DEF Answer
  <2>5. CASE e \in table /\ ~Head(link[e]).ok
    <3>1. Settled
      BY <1>5, <2>5, RemovalSettled DEF HandleSynAck
    <3> QED BY <2>1, <2>2, <3>1, AnswerKept
  <2>6. CASE ~(e \in table /\ ~Head(link[e]).ok)
    <3>1. stream' = [stream EXCEPT ![e].ready = @ \/ e \in table] /\ UNCHANGED <<table, remover>>
      BY <1>5, <2>6 DEF HandleSynAck
    <3>2. /\ \A x \in Side : stream'[x].closed = stream[x].closed /\ stream'[x].conn = stream[x].conn
          /\ stream'["target"] = stream["target"]
          /\ e \notin table => stream'[e].ready = stream[e].ready
      BY SMTT(30), <2>4, <3>1, StreamFields, Sides DEF Shape, Streams, Stream
    <3>3. CASE e \notin table
      <4>1. Settled
        BY <2>4, <3>1, <3>2, <3>3, Sides DEF Settled
      <4> QED BY <2>1, <2>2, <4>1, AnswerKept
    <3>4. CASE e \in table
      <4>1. Holds(link["opener"], Positive)
        BY <2>3, <2>4, <2>6, <3>4, HoldsTail, Answers
      <4>2. dialing = "done" /\ remover["target"].final # "SYN_ACK" /\ ~Holds(link["opener"], Negative)
        BY <4>1 DEF Answer
      <4> QED BY <2>1, <2>2, <3>1, <3>2, <4>2, Sides DEF Answer, NoNewAnswer
    <3> QED BY <3>3, <3>4
  <2> QED BY <2>5, <2>6
<1>6. ASSUME NEW e \in Side, HandleQueued(e) PROVE Answer'
  <2>1. NoNewAnswer
    BY <1>6, PopHas, Sides DEF HandleQueued, NoNewAnswer
  <2>2. Settled
    BY <1>6, PutEffect, Sides DEF HandleQueued, Settled
  <2>3. /\ dialing' = dialing /\ accepting' = accepting
        /\ reader["target"] = "none" => reader'["target"] = "none"
        /\ reader["opener"] \in {"none", "wait", "done"}
           /\ (stream["opener"].ready => stream["opener"].closed)
             => reader'["opener"] \in {"none", "wait", "done"}
    BY <1>6, Sides DEF HandleQueued
  <2> QED BY <2>1, <2>2, <2>3, AnswerKept
<1>7. ASSUME NEW e \in Side, HandleDataAck(e) PROVE Answer'
  <2>1. NoNewAnswer
    BY <1>7, PopHas, Sides DEF HandleDataAck, NoNewAnswer
  <2>2. Settled
    BY <1>7, HandleDataAckEffect DEF HandleDataAck, Settled
  <2>3. /\ dialing' = dialing /\ accepting' = accepting
        /\ reader["target"] = "none" => reader'["target"] = "none"
        /\ reader["opener"] \in {"none", "wait", "done"}
           /\ (stream["opener"].ready => stream["opener"].closed)
             => reader'["opener"] \in {"none", "wait", "done"}
    BY <1>7, Sides DEF HandleDataAck
  <2> QED BY <2>1, <2>2, <2>3, AnswerKept
<1>8. CASE DialSucceeds
  <2> QED BY <1>8, DialSucceedsEffect, Sides DEF DialSucceeds, Answer
<1>9. CASE DialFails
  <2>1. /\ dialing = "dial" /\ dialing' = "done" /\ UNCHANGED <<accepting, reader, link>>
        /\ Remove("target", "SYN_ACK", stream)
    BY <1>9 DEF DialFails
  <2>2. /\ table' \subseteq table /\ stream'["opener"] = stream["opener"]
        /\ remover'["opener"] = remover["opener"] /\ "target" \notin table'
    BY <2>1, RemoveEffect, Sides DEF Shape
  <2> QED BY <2>1, <2>2 DEF Answer
<1>10. CASE AnswerConnect
  <2>1. /\ dialing = "answer" /\ dialing' = "done" /\ SendIfBound("target", Positive)
        /\ UNCHANGED <<table, remover, accepting>> /\ reader'["opener"] = reader["opener"]
    BY <1>10, Sides DEF AnswerConnect, Shape, Positive
  <2>2. Positive \in Msg /\ Positive # Negative
    BY MsgTypes, Answers
  <2>3. ~Holds(link'["opener"], Negative) /\ ~Has(link'["target"], "SYN_ACK")
    BY <2>1, <2>2, SendHas, Sides DEF Answer
  <2>4. stream'["opener"] = stream["opener"] /\ stream'["target"].conn = stream["target"].conn
    BY <1>10, AnswerConnectEffect, Sides
  <2> QED BY <2>1, <2>3, <2>4 DEF Answer
<1>11. ASSUME NEW e \in Side, ReaderStarts(e) PROVE Answer'
  <2>1. NoNewAnswer
    BY <1>11 DEF ReaderStarts, ReaderAt, ReaderOnly, NoNewAnswer
  <2>2. Settled
    BY <1>11 DEF ReaderStarts, ReaderAt, ReaderOnly, Settled
  <2>3. /\ dialing' = dialing /\ accepting' = accepting
        /\ reader["target"] = "none" => reader'["target"] = "none"
        /\ reader["opener"] \in {"none", "wait", "done"}
           /\ (stream["opener"].ready => stream["opener"].closed)
             => reader'["opener"] \in {"none", "wait", "done"}
    BY <1>11, Sides DEF ReaderStarts, ReaderAt, ReaderOnly, Shape
  <2> QED BY <2>1, <2>2, <2>3, AnswerKept
<1>12. ASSUME NEW e \in Side, ReadChunk(e) PROVE Answer'
  <2>1. NoNewAnswer
    BY <1>12 DEF ReadChunk, ReaderAt, ReaderOnly, NoNewAnswer
  <2>2. Settled
    BY <1>12 DEF ReadChunk, ReaderAt, ReaderOnly, Settled
  <2>3. /\ dialing' = dialing /\ accepting' = accepting
        /\ reader["target"] = "none" => reader'["target"] = "none"
        /\ reader["opener"] \in {"none", "wait", "done"}
           /\ (stream["opener"].ready => stream["opener"].closed)
             => reader'["opener"] \in {"none", "wait", "done"}
    BY <1>12, Sides DEF ReadChunk, ReaderAt, ReaderOnly, Shape
  <2> QED BY <2>1, <2>2, <2>3, AnswerKept
<1>13. ASSUME NEW e \in Side, ReadEOF(e) PROVE Answer'
  <2>1. NoNewAnswer
    BY <1>13 DEF ReadEOF, ReaderAt, ReaderOnly, NoNewAnswer
  <2>2. Settled
    BY <1>13 DEF ReadEOF, ReaderAt, ReaderOnly, Settled
  <2>3. /\ dialing' = dialing /\ accepting' = accepting
        /\ reader["target"] = "none" => reader'["target"] = "none"
        /\ reader["opener"] \in {"none", "wait", "done"}
           /\ (stream["opener"].ready => stream["opener"].closed)
             => reader'["opener"] \in {"none", "wait", "done"}
    BY <1>13, Sides DEF ReadEOF, ReaderAt, ReaderOnly, Shape
  <2> QED BY <2>1, <2>2, <2>3, AnswerKept
<1>14. ASSUME NEW e \in Side, ReadClosed(e) PROVE Answer'
  <2>1. NoNewAnswer
    BY <1>14 DEF ReadClosed, ReaderAt, ReaderOnly, NoNewAnswer
  <2>2. Settled
    BY <1>14 DEF ReadClosed, ReaderAt, ReaderOnly, Settled
  <2>3. /\ dialing' = dialing /\ accepting' = accepting
        /\ reader["target"] = "none" => reader'["target"] = "none"
        /\ reader["opener"] \in {"none", "wait", "done"}
           /\ (stream["opener"].ready => stream["opener"].closed)
             => reader'["opener"] \in {"none", "wait", "done"}
    BY <1>14, Sides DEF ReadClosed, ReaderAt, ReaderOnly, Shape
  <2> QED BY <2>1, <2>2, <2>3, AnswerKept
<1>15. ASSUME NEW e \in Side, AcquireSlot(e) PROVE Answer'
  <2>1. NoNewAnswer
    BY <1>15 DEF AcquireSlot, ReaderAt, ReaderOnly, NoNewAnswer
  <2>2. Settled
    BY <1>15, AcquireSlotEffect DEF AcquireSlot, ReaderAt, ReaderOnly, Settled
  <2>3. /\ dialing' = dialing /\ accepting' = accepting
        /\ reader["target"] = "none" => reader'["target"] = "none"
        /\ reader["opener"] \in {"none", "wait", "done"}
           /\ (stream["opener"].ready => stream["opener"].closed)
             => reader'["opener"] \in {"none", "wait", "done"}
    BY <1>15, Sides DEF AcquireSlot, ReaderAt, ReaderOnly, Shape
  <2> QED BY <2>1, <2>2, <2>3, AnswerKept
<1>16. ASSUME NEW e \in Side, AcquireClosed(e) PROVE Answer'
  <2>1. NoNewAnswer
    BY <1>16 DEF AcquireClosed, ReaderAt, ReaderOnly, NoNewAnswer
  <2>2. Settled
    BY <1>16 DEF AcquireClosed, ReaderAt, ReaderOnly, Settled
  <2>3. /\ dialing' = dialing /\ accepting' = accepting
        /\ reader["target"] = "none" => reader'["target"] = "none"
        /\ reader["opener"] \in {"none", "wait", "done"}
           /\ (stream["opener"].ready => stream["opener"].closed)
             => reader'["opener"] \in {"none", "wait", "done"}
    BY <1>16, Sides DEF AcquireClosed, ReaderAt, ReaderOnly, Shape
  <2> QED BY <2>1, <2>2, <2>3, AnswerKept
<1>17. ASSUME NEW e \in Side, TransmitData(e) PROVE Answer'
  <2>1. NoNewAnswer
    <3>1. Data(taken[e]) \in Msg /\ Data(taken[e]).type = "DATA"
      BY MsgTypes DEF Shape
    <3>2. Transmit(e, Data(taken[e]))
      BY <1>17 DEF TransmitData
    <3> QED BY <3>1, <3>2, TransmitHas, Answers DEF NoNewAnswer
  <2>2. Settled
    BY <1>17 DEF TransmitData, ReaderAt, ReaderOnly, Settled
  <2>3. /\ dialing' = dialing /\ accepting' = accepting
        /\ reader["target"] = "none" => reader'["target"] = "none"
        /\ reader["opener"] \in {"none", "wait", "done"}
           /\ (stream["opener"].ready => stream["opener"].closed)
             => reader'["opener"] \in {"none", "wait", "done"}
    BY <1>17, Sides DEF TransmitData, ReaderAt, ReaderOnly, Shape
  <2> QED BY <2>1, <2>2, <2>3, AnswerKept
<1>18. ASSUME NEW e \in Side, EnqueueEOF(e) PROVE Answer'
  <2>1. NoNewAnswer
    BY <1>18 DEF EnqueueEOF, ReaderAt, ReaderOnly, NoNewAnswer
  <2>2. Settled
    BY <1>18, PutEffect DEF EnqueueEOF, ReaderAt, ReaderOnly, Settled
  <2>3. /\ dialing' = dialing /\ accepting' = accepting
        /\ reader["target"] = "none" => reader'["target"] = "none"
        /\ reader["opener"] \in {"none", "wait", "done"}
           /\ (stream["opener"].ready => stream["opener"].closed)
             => reader'["opener"] \in {"none", "wait", "done"}
    BY <1>18, Sides DEF EnqueueEOF, ReaderAt, ReaderOnly, Shape
  <2> QED BY <2>1, <2>2, <2>3, AnswerKept
<1>19. ASSUME NEW e \in Side, WriterStops(e) PROVE Answer'
  <2>1. NoNewAnswer
    BY <1>19 DEF WriterStops, WriterOnly, NoNewAnswer
  <2>2. Settled
    BY <1>19 DEF WriterStops, WriterOnly, Settled
  <2>3. /\ dialing' = dialing /\ accepting' = accepting
        /\ reader["target"] = "none" => reader'["target"] = "none"
        /\ reader["opener"] \in {"none", "wait", "done"}
           /\ (stream["opener"].ready => stream["opener"].closed)
             => reader'["opener"] \in {"none", "wait", "done"}
    BY <1>19, Sides DEF WriterStops, WriterOnly
  <2> QED BY <2>1, <2>2, <2>3, AnswerKept
<1>20. ASSUME NEW e \in Side, TakeLocalEOF(e) PROVE Answer'
  <2>1. NoNewAnswer
    BY <1>20 DEF TakeLocalEOF, WriterOnly, NoNewAnswer
  <2>2. Settled
    BY <1>20, TakeLocalEOFEffect DEF TakeLocalEOF, WriterOnly, Settled
  <2>3. /\ dialing' = dialing /\ accepting' = accepting
        /\ reader["target"] = "none" => reader'["target"] = "none"
        /\ reader["opener"] \in {"none", "wait", "done"}
           /\ (stream["opener"].ready => stream["opener"].closed)
             => reader'["opener"] \in {"none", "wait", "done"}
    BY <1>20, Sides DEF TakeLocalEOF, WriterOnly
  <2> QED BY <2>1, <2>2, <2>3, AnswerKept
<1>21. ASSUME NEW e \in Side, RemoveFinished(e) PROVE Answer'
  <2>1. NoNewAnswer
    BY <1>21 DEF RemoveFinished, WriterOnly, NoNewAnswer
  <2>2. Settled
    BY <1>21, RemovalSettled DEF RemoveFinished, WriterOnly
  <2>3. /\ dialing' = dialing /\ accepting' = accepting
        /\ reader["target"] = "none" => reader'["target"] = "none"
        /\ reader["opener"] \in {"none", "wait", "done"}
           /\ (stream["opener"].ready => stream["opener"].closed)
             => reader'["opener"] \in {"none", "wait", "done"}
    BY <1>21, Sides DEF RemoveFinished, WriterOnly
  <2> QED BY <2>1, <2>2, <2>3, AnswerKept
<1>22. ASSUME NEW e \in Side, HalfClose(e) PROVE Answer'
  <2>1. NoNewAnswer
    BY <1>22, TransmitHas, MsgTypes, Answers DEF HalfClose, WriterOnly, NoNewAnswer
  <2>2. Settled
    BY <1>22, HalfCloseEffect DEF HalfClose, WriterOnly, Settled
  <2>3. /\ dialing' = dialing /\ accepting' = accepting
        /\ reader["target"] = "none" => reader'["target"] = "none"
        /\ reader["opener"] \in {"none", "wait", "done"}
           /\ (stream["opener"].ready => stream["opener"].closed)
             => reader'["opener"] \in {"none", "wait", "done"}
    BY <1>22, Sides DEF HalfClose, WriterOnly
  <2> QED BY <2>1, <2>2, <2>3, AnswerKept
<1>23. ASSUME NEW e \in Side, TakeRemoteFIN(e) PROVE Answer'
  <2>1. NoNewAnswer
    BY <1>23 DEF TakeRemoteFIN, WriterOnly, NoNewAnswer
  <2>2. Settled
    BY <1>23, TakeRemoteFINEffect DEF Settled
  <2>3. /\ dialing' = dialing /\ accepting' = accepting
        /\ reader["target"] = "none" => reader'["target"] = "none"
        /\ reader["opener"] \in {"none", "wait", "done"}
           /\ (stream["opener"].ready => stream["opener"].closed)
             => reader'["opener"] \in {"none", "wait", "done"}
    BY <1>23, Sides DEF TakeRemoteFIN, WriterOnly
  <2> QED BY <2>1, <2>2, <2>3, AnswerKept
<1>24. ASSUME NEW e \in Side, TakeData(e) PROVE Answer'
  <2>1. NoNewAnswer
    BY <1>24 DEF TakeData, WriterOnly, NoNewAnswer
  <2>2. Settled
    BY <1>24, TakeDataEffect DEF TakeData, WriterOnly, Settled
  <2>3. /\ dialing' = dialing /\ accepting' = accepting
        /\ reader["target"] = "none" => reader'["target"] = "none"
        /\ reader["opener"] \in {"none", "wait", "done"}
           /\ (stream["opener"].ready => stream["opener"].closed)
             => reader'["opener"] \in {"none", "wait", "done"}
    BY <1>24, Sides DEF TakeData, WriterOnly
  <2> QED BY <2>1, <2>2, <2>3, AnswerKept
<1>25. ASSUME NEW e \in Side, WriteSucceeds(e) PROVE Answer'
  <2>1. NoNewAnswer
    BY <1>25 DEF WriteSucceeds, WriterOnly, NoNewAnswer
  <2>2. Settled
    BY <1>25 DEF WriteSucceeds, WriterOnly, Settled
  <2>3. /\ dialing' = dialing /\ accepting' = accepting
        /\ reader["target"] = "none" => reader'["target"] = "none"
        /\ reader["opener"] \in {"none", "wait", "done"}
           /\ (stream["opener"].ready => stream["opener"].closed)
             => reader'["opener"] \in {"none", "wait", "done"}
    BY <1>25, Sides DEF WriteSucceeds, WriterOnly
  <2> QED BY <2>1, <2>2, <2>3, AnswerKept
<1>26. ASSUME NEW e \in Side, WriteFails(e) PROVE Answer'
  <2>1. NoNewAnswer
    BY <1>26 DEF WriteFails, WriterOnly, NoNewAnswer
  <2>2. Settled
    BY <1>26, RemovalSettled DEF WriteFails, WriterOnly
  <2>3. /\ dialing' = dialing /\ accepting' = accepting
        /\ reader["target"] = "none" => reader'["target"] = "none"
        /\ reader["opener"] \in {"none", "wait", "done"}
           /\ (stream["opener"].ready => stream["opener"].closed)
             => reader'["opener"] \in {"none", "wait", "done"}
    BY <1>26, Sides DEF WriteFails, WriterOnly
  <2> QED BY <2>1, <2>2, <2>3, AnswerKept
<1>27. ASSUME NEW e \in Side, SendAck(e) PROVE Answer'
  <2>1. NoNewAnswer
    BY <1>27, TransmitHas, MsgTypes, Answers DEF SendAck, WriterOnly, NoNewAnswer
  <2>2. Settled
    BY <1>27 DEF SendAck, WriterOnly, Settled
  <2>3. /\ dialing' = dialing /\ accepting' = accepting
        /\ reader["target"] = "none" => reader'["target"] = "none"
        /\ reader["opener"] \in {"none", "wait", "done"}
           /\ (stream["opener"].ready => stream["opener"].closed)
             => reader'["opener"] \in {"none", "wait", "done"}
    BY <1>27, Sides DEF SendAck, WriterOnly
  <2> QED BY <2>1, <2>2, <2>3, AnswerKept
<1>28. ASSUME NEW e \in Side, TimerFires(e) PROVE Answer'
  <2>1. NoNewAnswer
    BY <1>28 DEF TimerFires, NoNewAnswer
  <2>2. Settled
    BY <1>28, TimerFiresEffect DEF Settled
  <2>3. /\ dialing' = dialing /\ accepting' = accepting
        /\ reader["target"] = "none" => reader'["target"] = "none"
        /\ reader["opener"] \in {"none", "wait", "done"}
           /\ (stream["opener"].ready => stream["opener"].closed)
             => reader'["opener"] \in {"none", "wait", "done"}
    BY <1>28, Sides DEF TimerFires
  <2> QED BY <2>1, <2>2, <2>3, AnswerKept
<1>29. ASSUME NEW e \in Side, FinishRemove(e) PROVE Answer'
  <2>1. /\ UNCHANGED <<dialing, accepting, reader, table>>
        /\ \A x \in Side : remover'[x].final = remover[x].final
    BY <1>29 DEF FinishRemove, Shape, Removers, Remover
  <2>2. Settled
    BY <1>29, <2>1, FinishRemoveEffect DEF Settled
  <2>3. CASE remover[e].final = "SYN_ACK"
    <3>1. e = "target" /\ dialing \notin {"dial", "answer"}
      BY <2>3, Sides DEF Answer
    <3>2. Negative \in Msg
      BY Answers
    <3>3. SendIfBound("target", Negative)
      BY <1>29, <2>3, <3>1 DEF FinishRemove, Negative
    <3>4. ~Holds(link'["opener"], Positive) /\ ~Has(link'["target"], "SYN_ACK")
      <4>1. ~Holds(link["opener"], Positive) /\ ~Has(link["target"], "SYN_ACK")
        BY <2>3, <3>1 DEF Answer
      <4>2. Negative # Positive
        BY Answers
      <4>3. ~Holds(link'["opener"], Positive)
        BY <3>2, <3>3, <4>1, <4>2, SendHas, Sides
      <4> QED BY <3>2, <3>3, <4>1, <4>3, SendHas, Sides
    <3> QED BY <2>1, <2>2, <2>3, <3>1, <3>4, Sides DEF Answer, Settled
  <2>4. CASE remover[e].final # "SYN_ACK"
    <3>1. remover[e].final \in {"none", "FIN"}
      BY <2>4 DEF Shape, Removers, Remover
    <3>2. UNCHANGED link \/ SendIfBound(e, Fin)
      BY <1>29, <3>1 DEF FinishRemove
    <3>3. NoNewAnswer
      BY <3>2, SendHas, MsgTypes, Answers DEF NoNewAnswer
    <3> QED BY <2>1, <2>2, <3>3, AnswerKept
  <2> QED BY <2>3, <2>4
<1>30. ASSUME NEW e \in Side, RemoveSession(e) PROVE Answer'
  <2>1. NoNewAnswer
    BY <1>30 DEF RemoveSession, NoNewAnswer
  <2>2. Settled
    BY <1>30 DEF RemoveSession, Settled
  <2>3. /\ dialing' = dialing /\ accepting' = accepting
        /\ reader["target"] = "none" => reader'["target"] = "none"
        /\ reader["opener"] \in {"none", "wait", "done"}
           /\ (stream["opener"].ready => stream["opener"].closed)
             => reader'["opener"] \in {"none", "wait", "done"}
    BY <1>30, Sides DEF RemoveSession
  <2> QED BY <2>1, <2>2, <2>3, AnswerKept
<1>31. ASSUME NEW e \in Side, CloseStreams(e) PROVE Answer'
  <2>1. NoNewAnswer
    BY <1>31, HasNone, HoldsNone DEF CloseStreams, NoNewAnswer
  <2>2. Settled
    BY <1>31, RemovalSettled DEF CloseStreams, Settled
  <2>3. /\ dialing' = dialing /\ accepting' = accepting
        /\ reader["target"] = "none" => reader'["target"] = "none"
        /\ reader["opener"] \in {"none", "wait", "done"}
           /\ (stream["opener"].ready => stream["opener"].closed)
             => reader'["opener"] \in {"none", "wait", "done"}
    BY <1>31, Sides DEF CloseStreams
  <2> QED BY <2>1, <2>2, <2>3, AnswerKept
<1>32. CASE UNCHANGED vars
  BY <1>32 DEF vars, Answer
<1> QED BY <1>1, <1>2, <1>3, <1>4, <1>5, <1>6, <1>7, <1>8, <1>9, <1>10, <1>11,
   <1>12, <1>13, <1>14, <1>15, <1>16, <1>17, <1>18, <1>19, <1>20, <1>21,
   <1>22, <1>23, <1>24, <1>25, <1>26, <1>27, <1>28, <1>29, <1>30, <1>31,
   <1>32, Steps

-----------------------------------------------------------------------------
(* How each end comes to its end.                                          *)

OnlyItems(q) == \A i \in DOMAIN q : q[i].type \in {"DATA", "FIN", "localEOF"}

LEMMA OnlyItemsNone == OnlyItems(<<>>) /\ HowMany(<<>>, "localEOF") = 0
  BY HowManyNone DEF OnlyItems

LEMMA InboxAppend ==
  ASSUME NEW q \in Seq(Msg), NEW m \in Msg, OnlyItems(q), m.type \in {"DATA", "FIN", "localEOF"}
  PROVE  /\ OnlyItems(Append(q, m))
         /\ m.type # "localEOF" => HowMany(Append(q, m), "localEOF") = HowMany(q, "localEOF")
         /\ m.type = "localEOF" => HowMany(Append(q, m), "localEOF") = HowMany(q, "localEOF") + 1
<1>1. /\ DOMAIN q = 1..Len(q) /\ DOMAIN Append(q, m) = 1..(Len(q) + 1) /\ Len(q) \in Nat
      /\ \A i \in 1..Len(q) : Append(q, m)[i] = q[i]
      /\ Append(q, m)[Len(q) + 1] = m
  OBVIOUS
<1>2. OnlyItems(Append(q, m))
  BY <1>1 DEF OnlyItems
<1>3. HowMany(Append(q, m), "localEOF") = HowMany(q, "localEOF") + (IF m.type = "localEOF" THEN 1 ELSE 0)
      /\ HowMany(q, "localEOF") \in Nat
  BY HowManyAppend, HowManyIsNat
<1> QED BY <1>2, <1>3

LEMMA InboxTail ==
  ASSUME NEW q \in Seq(Msg), q # <<>>, OnlyItems(q)
  PROVE  /\ OnlyItems(Tail(q)) /\ HowMany(q, "localEOF") \in Nat
         /\ HowMany(Tail(q), "localEOF") \in Nat
         /\ Head(q).type # "localEOF" => HowMany(Tail(q), "localEOF") = HowMany(q, "localEOF")
         /\ Head(q).type = "localEOF" => HowMany(q, "localEOF") = HowMany(Tail(q), "localEOF") + 1
<1>1. /\ DOMAIN q = 1..Len(q) /\ DOMAIN Tail(q) = 1..(Len(q) - 1) /\ Len(q) \in Nat /\ Len(q) > 0
      /\ \A i \in 1..(Len(q) - 1) : Tail(q)[i] = q[i + 1]
      /\ Tail(q) \in Seq(Msg)
  OBVIOUS
<1>2. OnlyItems(Tail(q))
  BY <1>1 DEF OnlyItems
<1>3. HowMany(q, "localEOF") = HowMany(Tail(q), "localEOF") + (IF Head(q).type = "localEOF" THEN 1 ELSE 0)
      /\ HowMany(q, "localEOF") \in Nat /\ HowMany(Tail(q), "localEOF") \in Nat
  BY <1>1, HowManyTail, HowManyIsNat
<1> QED BY <1>2, <1>3

EndingAt(e) ==
  /\ OnlyItems(stream[e].inbox)
  /\ HowMany(stream[e].inbox, "localEOF") <= (IF reader[e] = "done" THEN 1 ELSE 0)
  /\ writer[e] \in {"fin", "arm", "remove"} => reader[e] = "done"
  /\ remover[e].step = "close" /\ remover[e].final = "FIN" => e \in aborted \/ reader[e] = "done"
  /\ e \in table => e \notin aborted
  /\ e \in table /\ stream[e].finSent => reader[e] = "done"
  /\ stream[e].closed /\ reader[e] \in {"read", "chunk", "transmit"}
       => e \in aborted \/ ~alive \/ e \notin bound
  /\ e \in ended => stream[e].finRecv /\ stream[e].ready
  /\ e \in ended => writer[e] = "done" \/ stream[e].conn # "open"

Ending == \A e \in Side : EndingAt(e)

LEMMA EndingOther ==
  ASSUME NEW x \in Side, EndingAt(x), stream'[x] = stream[x], reader'[x] = reader[x],
         writer'[x] = writer[x], remover'[x] = remover[x], x \in table' => x \in table,
         x \in aborted' <=> x \in aborted, x \in ended' <=> x \in ended,
         alive' => alive, x \in bound' => x \in bound
  PROVE  EndingAt(x)'
  BY DEF EndingAt

LEMMA InboxKept ==
  ASSUME Shape, Ending, NEW e \in Side
  PROVE  /\ stream[e].inbox \in Seq(Msg) /\ OnlyItems(stream[e].inbox)
         /\ HowMany(stream[e].inbox, "localEOF") \in Nat
  BY StreamFields, HowManyIsNat DEF Shape, Ending, EndingAt

\* What a removal does to the end that is removed.
RemovedAs(e, f) ==
  /\ stream'[e].conn = stream[e].conn /\ stream'[e].inbox = stream[e].inbox
  /\ stream'[e].finSent = stream[e].finSent /\ stream'[e].finRecv = stream[e].finRecv
  /\ stream[e].ready => stream'[e].ready
  /\ e \notin table'
  /\ e \in table => remover'[e].final = f
  /\ e \notin table => stream'[e].closed = stream[e].closed /\ remover'[e] = remover[e]

LEMMA RemovedLeaves ==
  ASSUME Shape, NEW e \in Side, NEW f \in {"none", "FIN", "SYN_ACK"}, Remove(e, f, stream)
  PROVE  /\ RemovedAs(e, f)
         /\ \A x \in Side : x # e => /\ stream'[x] = stream[x] /\ remover'[x] = remover[x]
                                     /\ (x \in table' <=> x \in table)
<1>1. stream \in Streams
  BY DEF Shape
<1> QED BY <1>1, RemoveEffect DEF RemovedAs

\* Every step keeps Ending.
LEMMA EndingStep == Shape /\ FreshInv /\ Life /\ Answer /\ Ending /\
   [Next]_vars => Ending'
<1> SUFFICES ASSUME Shape, FreshInv, Life, Answer, Ending, [Next]_vars PROVE
   Ending'
  OBVIOUS
<1> USE DEF streamVars, goroutines, session, history
<1>1. CASE Accept
  <2>1. /\ ended = {} /\ aborted = {} /\ reader["opener"] = "none"
        /\ remover["opener"] = NotRemoving
    BY <1>1 DEF Accept, FreshInv, Fresh
  <2>2. /\ stream'["opener"].inbox = <<>> /\ ~stream'["opener"].finSent
        /\ ~stream'["opener"].closed /\ stream'["target"] = stream["target"]
    BY <1>1, Sides DEF Accept, NewStream, Streams, Shape
  <2>3. EndingAt("opener")'
    BY <1>1, <2>1, <2>2, OnlyItemsNone, Sides DEF Accept, Shape, EndingAt, NotRemoving
  <2>4. EndingAt("target")'
    BY <1>1, <2>2, EndingOther, Sides DEF Accept, Shape, Ending
  <2> QED BY <2>3, <2>4, Sides DEF Ending
<1>2. CASE SendConnect
  <2>1. /\ accepting = "connect" /\ reader["opener"] = "none" /\ reader'["opener"] \in {"none", "wait"}
        /\ reader'["target"] = reader["target"] /\ UNCHANGED <<writer, aborted, ended, alive>>
        /\ \A x \in Side : x \in bound' => x \in bound \/ x = "opener"
    BY <1>2, Sides DEF SendConnect, FreshInv, Shape
  <2>2. \/ stream' = stream /\ remover' = remover /\ table' = table
        \/ /\ RemovedAs("opener", "none")
           /\ \A x \in Side : x # "opener" => /\ stream'[x] = stream[x] /\ remover'[x] = remover[x]
                                              /\ (x \in table' <=> x \in table)
    BY <1>2, RemovedLeaves, Sides DEF SendConnect, DropUnsent
  <2>3. EndingAt("target")'
    BY <2>1, <2>2, EndingOther, Sides DEF Ending
  <2>4. EndingAt("opener")'
    BY <2>1, <2>2, Sides DEF Ending, EndingAt, RemovedAs, Life
  <2> QED BY <2>3, <2>4, Sides DEF Ending
<1>3. CASE BindConnect
  <2>1. reader["target"] = "none"
    BY <1>3, HasTail, Sides DEF BindConnect, Arrives, FreshInv, Fresh, Shape, Has
  <2>2. /\ UNCHANGED <<table, remover, reader, writer, alive, ended, aborted, stream>>
        /\ \A x \in Side : x # "target" => (x \in bound' => x \in bound)
    BY <1>3, Sides DEF BindConnect, Shape
  <2>3. \A x \in Side : x # "target" => stream'[x] = stream[x] /\ remover'[x] = remover[x]
                                  /\ (x \in table' <=> x \in table)
                                  /\ (x \in aborted' <=> x \in aborted) /\ (x \in ended' <=> x \in ended)
    BY <1>3, <2>2
  <2>4. \A x \in Side : x # "target" => EndingAt(x)'
    BY <2>2, <2>3, EndingOther DEF Ending
  <2>5. EndingAt("target")'
    BY <1>3, <2>1, <2>2, Sides DEF Ending, EndingAt
  <2> QED BY <2>4, <2>5 DEF Ending
<1>4. CASE HandleConnect
  <2>1. /\ ended = {} /\ aborted = {} /\ reader["target"] = "none"
        /\ remover["target"] = NotRemoving
    BY <1>4 DEF HandleConnect, FreshInv, Fresh
  <2>2. EndingAt("opener")'
    <3>1. /\ stream'["opener"] = stream["opener"] /\ writer'["opener"] = writer["opener"]
          /\ UNCHANGED <<reader, remover, alive, ended, aborted>>
          /\ ("opener" \in table' => "opener" \in table) /\ ("opener" \in bound' => "opener" \in bound)
      BY <1>4, Sides DEF HandleConnect, RejectConnect, Shape, Streams
    <3> QED BY <3>1, EndingOther, Sides DEF Ending
  <2>3. CASE stream' = [stream EXCEPT !["target"] = NewStream("none")]
             /\ writer' = [writer EXCEPT !["target"] = "loop"]
    <3>1. /\ stream'["target"].inbox = <<>> /\ ~stream'["target"].finSent
          /\ ~stream'["target"].closed
      BY <2>3, Sides DEF NewStream, Streams, Shape
    <3>2. EndingAt("target")'
      BY <1>4, <2>1, <2>3, <3>1, OnlyItemsNone, Sides DEF HandleConnect, Shape, EndingAt, NotRemoving
    <3> QED BY <2>2, <3>2, Sides DEF Ending
  <2>4. CASE UNCHANGED <<table, stream, writer>> /\ bound' = bound \ {"target"}
    <3>1. EndingAt("target")'
      BY <1>4, <2>4, EndingOther, Sides DEF HandleConnect, Ending
    <3> QED BY <2>2, <3>1, Sides DEF Ending
  <2> QED BY <1>4, <2>3, <2>4 DEF HandleConnect, RejectConnect
<1>5. ASSUME NEW e \in Side, HandleSynAck(e) PROVE Ending'
  <2>1. /\ link[e] \in Seq(Msg) /\ link[e] # <<>> /\ Head(link[e]).type = "SYN_ACK"
        /\ Head(link[e]) \in Msg
    BY <1>5, PopShape DEF HandleSynAck, Arrives
  <2>2. e = "opener"
    BY <2>1, HasTail, Sides DEF Answer
  <2>3. UNCHANGED <<bound, reader, writer, aborted, ended, alive>>
    BY <1>5 DEF HandleSynAck
  <2>4. CASE e \in table /\ ~Head(link[e]).ok
    <3>1. /\ RemovedAs(e, "none")
          /\ \A x \in Side : x # e => /\ stream'[x] = stream[x] /\ remover'[x] = remover[x]
                                     /\ (x \in table' <=> x \in table)
      BY <1>5, <2>4, RemovedLeaves DEF HandleSynAck
    <3>2. reader["opener"] \in {"none", "wait", "done"}
      <4>1. Holds(link["opener"], Negative)
        BY <2>1, <2>2, <2>4, HoldsTail, NegativeAnswer
      <4> QED BY <4>1 DEF Answer
    <3>3. \A x \in Side : x # e => EndingAt(x)'
      BY <2>3, <3>1, EndingOther DEF Ending
    <3>4. EndingAt(e)'
      BY <2>2, <2>3, <3>1, <3>2 DEF Ending, EndingAt, RemovedAs
    <3> QED BY <3>3, <3>4 DEF Ending
  <2>5. CASE ~(e \in table /\ ~Head(link[e]).ok)
    <3>1. stream' = [stream EXCEPT ![e].ready = @ \/ e \in table] /\ UNCHANGED <<table, remover>>
      BY <1>5, <2>5 DEF HandleSynAck
    <3>2. /\ \A x \in Side : x # e => stream'[x] = stream[x]
          /\ stream'[e].closed = stream[e].closed /\ stream'[e].conn = stream[e].conn
          /\ stream'[e].inbox = stream[e].inbox /\ stream'[e].finSent = stream[e].finSent
          /\ stream'[e].finRecv = stream[e].finRecv /\ (stream[e].ready => stream'[e].ready)
      BY <3>1 DEF Shape, Streams, Stream
    <3>3. \A x \in Side : x # e => EndingAt(x)'
      BY <2>3, <3>1, <3>2, EndingOther DEF Ending
    <3>4. EndingAt(e)'
      BY <2>3, <3>1, <3>2 DEF Ending, EndingAt
    <3> QED BY <3>3, <3>4 DEF Ending
  <2> QED BY <2>4, <2>5
<1>6. ASSUME NEW e \in Side, HandleQueued(e) PROVE Ending'
  <2>1. Head(link[e]) \in Msg /\ Head(link[e]).type \in {"DATA", "FIN"}
    BY <1>6, PopShape DEF HandleQueued, Arrives
  <2>2. \/ stream' = stream
        \/ Enqueue(e, Head(link[e]))
    BY <1>6 DEF HandleQueued
  <2>3. /\ OnlyItems(stream'[e].inbox)
        /\ HowMany(stream'[e].inbox, "localEOF") = HowMany(stream[e].inbox, "localEOF")
    <3>1. CASE stream' = stream
      BY <3>1, InboxKept
    <3>2. CASE stream'[e].inbox = Append(stream[e].inbox, Head(link[e]))
      BY <2>1, <3>2, InboxAppend, InboxKept
    <3> QED BY <2>2, <3>1, <3>2, PutEffect
  <2>4. /\ UNCHANGED <<table, bound, remover, reader, writer, alive, ended, aborted>>
    BY <1>6, Sides DEF HandleQueued, Shape
  <2>5. \A x \in Side : x # e => stream'[x] = stream[x] /\ remover'[x] = remover[x]
                                  /\ (x \in table' <=> x \in table)
                                  /\ (x \in aborted' <=> x \in aborted) /\ (x \in ended' <=> x \in ended)
    BY <1>6, <2>2, PutEffect, <2>4
  <2>6. \A x \in Side : x # e => EndingAt(x)'
    BY <2>4, <2>5, EndingOther DEF Ending
  <2>7. EndingAt(e)'
    BY <1>6, <2>2, PutEffect, <2>3, <2>4, Sides DEF Ending, EndingAt
  <2> QED BY <2>6, <2>7 DEF Ending
<1>7. ASSUME NEW e \in Side, HandleDataAck(e) PROVE Ending'
  <2>1. /\ UNCHANGED <<table, bound, remover, reader, writer, alive, ended, aborted>>
    BY <1>7, Sides DEF HandleDataAck, Shape
  <2>2. \A x \in Side : x # e => stream'[x] = stream[x] /\ remover'[x] = remover[x]
                                  /\ (x \in table' <=> x \in table)
                                  /\ (x \in aborted' <=> x \in aborted) /\ (x \in ended' <=> x \in ended)
    BY <1>7, HandleDataAckEffect, <2>1
  <2>3. \A x \in Side : x # e => EndingAt(x)'
    BY <2>1, <2>2, EndingOther DEF Ending
  <2>4. EndingAt(e)'
    BY <1>7, HandleDataAckEffect, <2>1, Sides DEF Ending, EndingAt
  <2> QED BY <2>3, <2>4 DEF Ending
<1>8. CASE DialSucceeds
  <2>1. /\ UNCHANGED <<table, bound, remover, reader, writer, alive, ended, aborted>>
        /\ dialing = "dial"
    BY <1>8, Sides DEF DialSucceeds, Shape
  <2>2. \A x \in Side : x # "target" => stream'[x] = stream[x] /\ remover'[x] = remover[x]
                                  /\ (x \in table' <=> x \in table)
                                  /\ (x \in aborted' <=> x \in aborted) /\ (x \in ended' <=> x \in ended)
    BY <1>8, DialSucceedsEffect, <2>1
  <2>3. \A x \in Side : x # "target" => EndingAt(x)'
    BY <2>1, <2>2, EndingOther DEF Ending
  <2>4. EndingAt("target")'
    BY <1>8, DialSucceedsEffect, <2>1, Sides DEF Ending, EndingAt, Answer
  <2> QED BY <2>3, <2>4 DEF Ending
<1>9. CASE DialFails
  <2>1. /\ RemovedAs("target", "SYN_ACK")
        /\ \A x \in Side : x # "target" => /\ stream'[x] = stream[x] /\ remover'[x] = remover[x]
                                     /\ (x \in table' <=> x \in table)
    BY <1>9, RemovedLeaves, Sides DEF DialFails
  <2>2. /\ UNCHANGED <<bound, reader, writer, alive, ended, aborted>>
        /\ dialing = "dial"
    BY <1>9, Sides DEF DialFails, Shape
  <2>3. \A x \in Side : x # "target" => stream'[x] = stream[x] /\ remover'[x] = remover[x]
                                  /\ (x \in table' <=> x \in table)
                                  /\ (x \in aborted' <=> x \in aborted) /\ (x \in ended' <=> x \in ended)
    BY <1>9, <2>1, <2>2
  <2>4. \A x \in Side : x # "target" => EndingAt(x)'
    BY <2>2, <2>3, EndingOther DEF Ending
  <2>5. EndingAt("target")'
    BY <1>9, <2>1, <2>2, Sides DEF Ending, EndingAt, RemovedAs, Answer
  <2> QED BY <2>4, <2>5 DEF Ending
<1>10. CASE AnswerConnect
  <2>1. /\ UNCHANGED <<table, bound, remover, writer, alive, ended, aborted>>
        /\ dialing = "answer"
        /\ reader'["target"] = "wait"
        /\ \A x \in Side : x # "target" => reader'[x] = reader[x]
    BY <1>10, Sides DEF AnswerConnect, Shape
  <2>2. \A x \in Side : x # "target" => stream'[x] = stream[x] /\ remover'[x] = remover[x]
                                  /\ (x \in table' <=> x \in table)
                                  /\ (x \in aborted' <=> x \in aborted) /\ (x \in ended' <=> x \in ended)
    BY <1>10, AnswerConnectEffect, <2>1
  <2>3. \A x \in Side : x # "target" => EndingAt(x)'
    BY <2>1, <2>2, EndingOther DEF Ending
  <2>4. EndingAt("target")'
    BY <1>10, AnswerConnectEffect, <2>1, Sides DEF Ending, EndingAt, Answer
  <2> QED BY <2>3, <2>4 DEF Ending
<1>11. ASSUME NEW e \in Side, ReaderStarts(e) PROVE Ending'
  <2>1. /\ UNCHANGED <<table, bound, remover, writer, alive, ended, aborted, stream>>
        /\ reader[e] = "wait" /\ reader'[e] = (IF stream[e].closed THEN "done" ELSE "read")
        /\ \A x \in Side : x # e => reader'[x] = reader[x]
        /\ stream[e].ready
    BY <1>11, Sides DEF ReaderStarts, ReaderAt, ReaderOnly, Shape
  <2>2. \A x \in Side : x # e => stream'[x] = stream[x] /\ remover'[x] = remover[x]
                                  /\ (x \in table' <=> x \in table)
                                  /\ (x \in aborted' <=> x \in aborted) /\ (x \in ended' <=> x \in ended)
    BY <1>11, <2>1
  <2>3. \A x \in Side : x # e => EndingAt(x)'
    BY <2>1, <2>2, EndingOther DEF Ending
  <2>4. EndingAt(e)'
    BY <1>11, InboxKept, <2>1, Sides DEF Ending, EndingAt
  <2> QED BY <2>3, <2>4 DEF Ending
<1>12. ASSUME NEW e \in Side, ReadChunk(e) PROVE Ending'
  <2>1. /\ UNCHANGED <<table, bound, remover, writer, alive, ended, aborted, stream>>
        /\ reader[e] = "read" /\ reader'[e] = "chunk"
        /\ \A x \in Side : x # e => reader'[x] = reader[x]
    BY <1>12, Sides DEF ReadChunk, ReaderAt, ReaderOnly, Shape
  <2>2. \A x \in Side : x # e => stream'[x] = stream[x] /\ remover'[x] = remover[x]
                                  /\ (x \in table' <=> x \in table)
                                  /\ (x \in aborted' <=> x \in aborted) /\ (x \in ended' <=> x \in ended)
    BY <1>12, <2>1
  <2>3. \A x \in Side : x # e => EndingAt(x)'
    BY <2>1, <2>2, EndingOther DEF Ending
  <2>4. EndingAt(e)'
    BY <1>12, <2>1, Sides DEF Ending, EndingAt
  <2> QED BY <2>3, <2>4 DEF Ending
<1>13. ASSUME NEW e \in Side, ReadEOF(e) PROVE Ending'
  <2>1. /\ UNCHANGED <<table, bound, remover, writer, alive, ended, aborted, stream>>
        /\ reader[e] = "read" /\ reader'[e] = "eof"
        /\ \A x \in Side : x # e => reader'[x] = reader[x]
    BY <1>13, Sides DEF ReadEOF, ReaderAt, ReaderOnly, Shape
  <2>2. \A x \in Side : x # e => stream'[x] = stream[x] /\ remover'[x] = remover[x]
                                  /\ (x \in table' <=> x \in table)
                                  /\ (x \in aborted' <=> x \in aborted) /\ (x \in ended' <=> x \in ended)
    BY <1>13, <2>1
  <2>3. \A x \in Side : x # e => EndingAt(x)'
    BY <2>1, <2>2, EndingOther DEF Ending
  <2>4. EndingAt(e)'
    BY <1>13, <2>1, Sides DEF Ending, EndingAt
  <2> QED BY <2>3, <2>4 DEF Ending
<1>14. ASSUME NEW e \in Side, ReadClosed(e) PROVE Ending'
  <2>1. /\ UNCHANGED <<table, bound, remover, writer, alive, ended, aborted, stream>>
        /\ reader[e] = "read" /\ reader'[e] = "eof"
        /\ \A x \in Side : x # e => reader'[x] = reader[x]
    BY <1>14, Sides DEF ReadClosed, ReaderAt, ReaderOnly, Shape
  <2>2. \A x \in Side : x # e => stream'[x] = stream[x] /\ remover'[x] = remover[x]
                                  /\ (x \in table' <=> x \in table)
                                  /\ (x \in aborted' <=> x \in aborted) /\ (x \in ended' <=> x \in ended)
    BY <1>14, <2>1
  <2>3. \A x \in Side : x # e => EndingAt(x)'
    BY <2>1, <2>2, EndingOther DEF Ending
  <2>4. EndingAt(e)'
    BY <1>14, <2>1, Sides DEF Ending, EndingAt
  <2> QED BY <2>3, <2>4 DEF Ending
<1>15. ASSUME NEW e \in Side, AcquireSlot(e) PROVE Ending'
  <2>1. /\ UNCHANGED <<table, bound, remover, writer, alive, ended, aborted>>
        /\ reader[e] = "chunk" /\ reader'[e] = (IF e \in bound THEN "transmit" ELSE "eof")
        /\ \A x \in Side : x # e => reader'[x] = reader[x]
    BY <1>15, Sides DEF AcquireSlot, ReaderAt, ReaderOnly, Shape
  <2>2. \A x \in Side : x # e => stream'[x] = stream[x] /\ remover'[x] = remover[x]
                                  /\ (x \in table' <=> x \in table)
                                  /\ (x \in aborted' <=> x \in aborted) /\ (x \in ended' <=> x \in ended)
    BY <1>15, AcquireSlotEffect, <2>1
  <2>3. \A x \in Side : x # e => EndingAt(x)'
    BY <2>1, <2>2, EndingOther DEF Ending
  <2>4. EndingAt(e)'
    BY <1>15, AcquireSlotEffect, <2>1, Sides DEF Ending, EndingAt
  <2> QED BY <2>3, <2>4 DEF Ending
<1>16. ASSUME NEW e \in Side, AcquireClosed(e) PROVE Ending'
  <2>1. /\ UNCHANGED <<table, bound, remover, writer, alive, ended, aborted, stream>>
        /\ reader[e] = "chunk" /\ reader'[e] = "eof"
        /\ \A x \in Side : x # e => reader'[x] = reader[x]
    BY <1>16, Sides DEF AcquireClosed, ReaderAt, ReaderOnly, Shape
  <2>2. \A x \in Side : x # e => stream'[x] = stream[x] /\ remover'[x] = remover[x]
                                  /\ (x \in table' <=> x \in table)
                                  /\ (x \in aborted' <=> x \in aborted) /\ (x \in ended' <=> x \in ended)
    BY <1>16, <2>1
  <2>3. \A x \in Side : x # e => EndingAt(x)'
    BY <2>1, <2>2, EndingOther DEF Ending
  <2>4. EndingAt(e)'
    BY <1>16, <2>1, Sides DEF Ending, EndingAt
  <2> QED BY <2>3, <2>4 DEF Ending
<1>17. ASSUME NEW e \in Side, TransmitData(e) PROVE Ending'
  <2>1. /\ UNCHANGED <<table, bound, remover, writer, alive, ended, aborted, stream>>
        /\ reader[e] = "transmit" /\ reader'[e] = (IF alive THEN "read" ELSE "eof")
        /\ \A x \in Side : x # e => reader'[x] = reader[x]
    BY <1>17, Sides DEF TransmitData, ReaderAt, ReaderOnly, Shape
  <2>2. \A x \in Side : x # e => stream'[x] = stream[x] /\ remover'[x] = remover[x]
                                  /\ (x \in table' <=> x \in table)
                                  /\ (x \in aborted' <=> x \in aborted) /\ (x \in ended' <=> x \in ended)
    BY <1>17, <2>1
  <2>3. \A x \in Side : x # e => EndingAt(x)'
    BY <2>1, <2>2, EndingOther DEF Ending
  <2>4. EndingAt(e)'
    BY <1>17, <2>1, Sides DEF Ending, EndingAt
  <2> QED BY <2>3, <2>4 DEF Ending
<1>18. ASSUME NEW e \in Side, EnqueueEOF(e) PROVE Ending'
  <2>0. Enqueue(e, LocalEOF)
    BY <1>18 DEF EnqueueEOF
  <2>1. /\ OnlyItems(stream'[e].inbox) /\ HowMany(stream[e].inbox, "localEOF") = 0
        /\ HowMany(stream'[e].inbox, "localEOF") <= HowMany(stream[e].inbox, "localEOF") + 1
    <3>1. reader[e] = "eof" /\ Enqueue(e, LocalEOF)
      BY <1>18 DEF EnqueueEOF, ReaderAt
    <3>2. HowMany(stream[e].inbox, "localEOF") = 0
      BY <3>1, InboxKept DEF Ending, EndingAt
    <3>3. CASE stream' = stream
      BY <3>2, <3>3, InboxKept
    <3>4. CASE stream'[e].inbox = Append(stream[e].inbox, LocalEOF)
      BY <3>2, <3>4, InboxAppend, InboxKept, MsgTypes
    <3> QED BY <3>1, <3>2, <3>3, <3>4, PutEffect
  <2>2. /\ UNCHANGED <<table, bound, remover, writer, alive, ended, aborted>>
        /\ reader[e] = "eof" /\ reader'[e] = "done"
        /\ \A x \in Side : x # e => reader'[x] = reader[x]
    BY <1>18, Sides DEF EnqueueEOF, ReaderAt, ReaderOnly, Shape
  <2>3. \A x \in Side : x # e => stream'[x] = stream[x] /\ remover'[x] = remover[x]
                                  /\ (x \in table' <=> x \in table)
                                  /\ (x \in aborted' <=> x \in aborted) /\ (x \in ended' <=> x \in ended)
    BY <1>18, <2>0, PutEffect, <2>2
  <2>4. \A x \in Side : x # e => EndingAt(x)'
    BY <2>2, <2>3, EndingOther DEF Ending
  <2>5. EndingAt(e)'
    BY <1>18, <2>0, PutEffect, <2>1, <2>2, Sides DEF Ending, EndingAt
  <2> QED BY <2>4, <2>5 DEF Ending
<1>19. ASSUME NEW e \in Side, WriterStops(e) PROVE Ending'
  <2>1. /\ UNCHANGED <<table, bound, remover, reader, alive, ended, aborted, stream>>
        /\ writer[e] = "loop" /\ writer'[e] = "done"
        /\ \A x \in Side : x # e => writer'[x] = writer[x]
    BY <1>19, Sides DEF WriterStops, WriterOnly, WriterAt, Shape
  <2>2. \A x \in Side : x # e => stream'[x] = stream[x] /\ remover'[x] = remover[x]
                                  /\ (x \in table' <=> x \in table)
                                  /\ (x \in aborted' <=> x \in aborted) /\ (x \in ended' <=> x \in ended)
    BY <1>19, <2>1
  <2>3. \A x \in Side : x # e => EndingAt(x)'
    BY <2>1, <2>2, EndingOther DEF Ending
  <2>4. EndingAt(e)'
    BY <1>19, <2>1, Sides DEF Ending, EndingAt
  <2> QED BY <2>3, <2>4 DEF Ending
<1>20. ASSUME NEW e \in Side, TakeLocalEOF(e) PROVE Ending'
  <2>1. /\ OnlyItems(Tail(stream[e].inbox))
        /\ HowMany(Tail(stream[e].inbox), "localEOF") <= HowMany(stream[e].inbox, "localEOF")
        /\ HowMany(stream[e].inbox, "localEOF") > 0
        /\ HowMany(Tail(stream[e].inbox), "localEOF") \in Nat /\ HowMany(stream[e].inbox, "localEOF") \in Nat
    BY <1>20, InboxTail, InboxKept DEF TakeLocalEOF, Taking
  <2>2. /\ UNCHANGED <<table, bound, remover, reader, alive, ended, aborted>>
        /\ writer[e] = "loop" /\ writer'[e] = (IF stream[e].finSent THEN "loop" ELSE IF stream[e].finRecv THEN "remove" ELSE IF e \in bound THEN "fin" ELSE "arm")
        /\ \A x \in Side : x # e => writer'[x] = writer[x]
    BY <1>20, Sides DEF TakeLocalEOF, WriterOnly, WriterAt, Shape
  <2>3. \A x \in Side : x # e => stream'[x] = stream[x] /\ remover'[x] = remover[x]
                                  /\ (x \in table' <=> x \in table)
                                  /\ (x \in aborted' <=> x \in aborted) /\ (x \in ended' <=> x \in ended)
    BY ZenonT(40), <1>20, TakeLocalEOFEffect, <2>2
  <2>4. \A x \in Side : x # e => EndingAt(x)'
    BY <2>2, <2>3, EndingOther DEF Ending
  <2>5. EndingAt(e)'
    <3>1. /\ stream'[e].inbox = Tail(stream[e].inbox) /\ stream'[e].closed = stream[e].closed
          /\ stream'[e].ready = stream[e].ready /\ stream'[e].finRecv = stream[e].finRecv
          /\ stream'[e].conn = stream[e].conn
      BY <1>20, TakeLocalEOFEffect
    <3>2. reader[e] = "done" /\ HowMany(stream[e].inbox, "localEOF") <= 1
      BY <2>1 DEF Ending, EndingAt
    <3> QED BY <2>1, <2>2, <3>1, <3>2 DEF Ending, EndingAt
  <2> QED BY <2>4, <2>5 DEF Ending
<1>21. ASSUME NEW e \in Side, RemoveFinished(e) PROVE Ending'
  <2>1. /\ RemovedAs(e, "FIN")
        /\ \A x \in Side : x # e => /\ stream'[x] = stream[x] /\ remover'[x] = remover[x]
                                     /\ (x \in table' <=> x \in table)
    BY <1>21, RemovedLeaves DEF RemoveFinished
  <2>2. /\ UNCHANGED <<bound, reader, alive, ended, aborted>>
        /\ writer[e] = "remove" /\ writer'[e] = "done"
        /\ \A x \in Side : x # e => writer'[x] = writer[x]
    BY <1>21, Sides DEF RemoveFinished, WriterOnly, WriterAt, Shape
  <2>3. \A x \in Side : x # e => stream'[x] = stream[x] /\ remover'[x] = remover[x]
                                  /\ (x \in table' <=> x \in table)
                                  /\ (x \in aborted' <=> x \in aborted) /\ (x \in ended' <=> x \in ended)
    BY <1>21, <2>1, <2>2
  <2>4. \A x \in Side : x # e => EndingAt(x)'
    BY <2>2, <2>3, EndingOther DEF Ending
  <2>5. EndingAt(e)'
    BY <1>21, <2>1, <2>2, Sides DEF Ending, EndingAt, RemovedAs, Life
  <2> QED BY <2>4, <2>5 DEF Ending
<1>22. ASSUME NEW e \in Side, HalfClose(e) PROVE Ending'
  <2>1. /\ UNCHANGED <<table, bound, remover, reader, alive, ended, aborted>>
        /\ \A x \in Side : x # e => writer'[x] = writer[x]
        /\ writer[e] \in {"fin", "arm"} /\ writer'[e] = "loop"
    BY <1>22, Sides DEF HalfClose, WriterOnly, WriterAt, Shape
  <2>2. \A x \in Side : x # e => stream'[x] = stream[x] /\ remover'[x] = remover[x]
                                  /\ (x \in table' <=> x \in table)
                                  /\ (x \in aborted' <=> x \in aborted) /\ (x \in ended' <=> x \in ended)
    BY <1>22, HalfCloseEffect, <2>1
  <2>3. \A x \in Side : x # e => EndingAt(x)'
    BY <2>1, <2>2, EndingOther DEF Ending
  <2>4. EndingAt(e)'
    BY ZenonT(40), <1>22, HalfCloseEffect, <2>1, Sides DEF Ending, EndingAt
  <2> QED BY <2>3, <2>4 DEF Ending
<1>23. ASSUME NEW e \in Side, TakeRemoteFIN(e) PROVE Ending'
  <2>1. /\ OnlyItems(Tail(stream[e].inbox))
        /\ HowMany(Tail(stream[e].inbox), "localEOF") <= HowMany(stream[e].inbox, "localEOF")
        /\ stream[e].ready
        /\ HowMany(Tail(stream[e].inbox), "localEOF") \in Nat /\ HowMany(stream[e].inbox, "localEOF") \in Nat
    BY <1>23, InboxTail, InboxKept DEF TakeRemoteFIN, Taking
  <2>2. /\ UNCHANGED <<bound, reader, alive, aborted>>
        /\ \A x \in Side : x # e => writer'[x] = writer[x]
        /\ writer[e] = "loop"
    BY <1>23, Sides DEF TakeRemoteFIN, WriterOnly, WriterAt, Shape
  <2>3. \A x \in Side : x # e => stream'[x] = stream[x] /\ remover'[x] = remover[x]
                                  /\ (x \in table' <=> x \in table)
                                  /\ (x \in aborted' <=> x \in aborted) /\ (x \in ended' <=> x \in ended)
    BY <1>23, TakeRemoteFINEffect, <2>2
  <2>4. \A x \in Side : x # e => EndingAt(x)'
    BY <2>2, <2>3, EndingOther DEF Ending
  <2>5. EndingAt(e)'
    <3>1. /\ stream'[e].inbox = Tail(stream[e].inbox) /\ stream'[e].finRecv
          /\ stream'[e].finSent = stream[e].finSent /\ reader'[e] = reader[e]
          /\ (stream[e].ready => stream'[e].ready)
      BY <1>23, <2>2, TakeRemoteFINEffect
    <3>2. /\ e \in table /\ stream[e].finSent => reader[e] = "done"
          /\ writer'[e] \in {"loop", "done"} /\ aborted' = aborted
          /\ e \in table' => e \in table
      <4>1. \A v : [writer EXCEPT ![e] = v][e] = v
        BY DEF Shape
      <4>2. writer'[e] \in {"loop", "done"} /\ (e \in table' => e \in table)
        BY <1>23, <4>1, TakeRemoteFINEffect
      <4> QED BY <2>2, <4>2 DEF Ending, EndingAt
    <3>3. /\ remover'[e] = remover[e] \/ remover'[e].final = "none"
          /\ stream'[e].closed => stream[e].closed \/ reader[e] = "done"
      BY <1>23, <2>2, <3>2, TakeRemoteFINEffect DEF Life
    <3>4. /\ e \in ended' => e \in ended \/ writer'[e] = "done" \/ stream'[e].conn # "open"
          /\ stream[e].conn # "open" => stream'[e].conn # "open"
          /\ e \in ended => writer[e] = "done" \/ stream[e].conn # "open"
      <4>1. e \in ended => writer[e] = "done" \/ stream[e].conn # "open"
        BY DEF Ending, EndingAt
      <4>2. \A v : [writer EXCEPT ![e] = v][e] = v
        BY DEF Shape
      <4>3. \/ ended' = ended /\ stream'[e].conn = stream[e].conn
            \/ writer'[e] = "done" /\ stream'[e].conn = stream[e].conn
            \/ stream'[e].conn = (IF stream[e].conn = "open" THEN "shut" ELSE stream[e].conn)
        BY <1>23, <4>2, TakeRemoteFINEffect
      <4> QED BY <4>1, <4>3
    <3>5. writer[e] = "loop"
      BY <2>2
    <3> QED BY <2>1, <2>2, <3>1, <3>2, <3>3, <3>4, <3>5 DEF Ending, EndingAt
  <2> QED BY <2>4, <2>5 DEF Ending
<1>24. ASSUME NEW e \in Side, TakeData(e) PROVE Ending'
  <2>1. /\ OnlyItems(Tail(stream[e].inbox))
        /\ HowMany(Tail(stream[e].inbox), "localEOF") <= HowMany(stream[e].inbox, "localEOF")
        /\ stream[e].ready
        /\ HowMany(Tail(stream[e].inbox), "localEOF") \in Nat /\ HowMany(stream[e].inbox, "localEOF") \in Nat
    BY <1>24, InboxTail, InboxKept DEF TakeData, Taking
  <2>2. /\ UNCHANGED <<table, bound, remover, reader, alive, ended, aborted>>
        /\ \A x \in Side : x # e => writer'[x] = writer[x]
        /\ writer[e] = "loop" /\ writer'[e] \in {"done", "write"}
        /\ writer'[e] = "write" => stream[e].conn # "none"
    BY <1>24, Sides DEF TakeData, WriterOnly, WriterAt, Shape
  <2>3. \A x \in Side : x # e => stream'[x] = stream[x] /\ remover'[x] = remover[x]
                                  /\ (x \in table' <=> x \in table)
                                  /\ (x \in aborted' <=> x \in aborted) /\ (x \in ended' <=> x \in ended)
    BY <1>24, TakeDataEffect, <2>2
  <2>4. \A x \in Side : x # e => EndingAt(x)'
    BY <2>2, <2>3, EndingOther DEF Ending
  <2>5. EndingAt(e)'
    BY <1>24, TakeDataEffect, <2>1, <2>2, Sides DEF Ending, EndingAt
  <2> QED BY <2>4, <2>5 DEF Ending
<1>25. ASSUME NEW e \in Side, WriteSucceeds(e) PROVE Ending'
  <2>1. /\ UNCHANGED <<table, bound, remover, reader, alive, ended, aborted, stream>>
        /\ stream[e].conn = "open"
        /\ writer[e] = "write" /\ writer'[e] = (IF e \in bound THEN "ack" ELSE "loop")
        /\ \A x \in Side : x # e => writer'[x] = writer[x]
    BY <1>25, Sides DEF WriteSucceeds, WriterOnly, WriterAt, Shape, AckRouted
  <2>2. \A x \in Side : x # e => stream'[x] = stream[x] /\ remover'[x] = remover[x]
                                  /\ (x \in table' <=> x \in table)
                                  /\ (x \in aborted' <=> x \in aborted) /\ (x \in ended' <=> x \in ended)
    BY <1>25, <2>1
  <2>3. \A x \in Side : x # e => EndingAt(x)'
    BY <2>1, <2>2, EndingOther DEF Ending
  <2>4. EndingAt(e)'
    BY <1>25, <2>1, Sides DEF Ending, EndingAt
  <2> QED BY <2>3, <2>4 DEF Ending
<1>26. ASSUME NEW e \in Side, WriteFails(e) PROVE Ending'
  <2>1. /\ RemovedAs(e, "FIN")
        /\ \A x \in Side : x # e => /\ stream'[x] = stream[x] /\ remover'[x] = remover[x]
                                     /\ (x \in table' <=> x \in table)
    BY <1>26, RemovedLeaves DEF WriteFails
  <2>2. /\ UNCHANGED <<bound, reader, alive, ended>>
        /\ aborted' = IF e \in table THEN aborted \cup {e} ELSE aborted
        /\ writer[e] = "write" /\ writer'[e] = "done"
        /\ \A x \in Side : x # e => writer'[x] = writer[x]
    BY <1>26, Sides DEF WriteFails, WriterOnly, WriterAt, Shape
  <2>3. \A x \in Side : x # e => stream'[x] = stream[x] /\ remover'[x] = remover[x]
                                  /\ (x \in table' <=> x \in table)
                                  /\ (x \in aborted' <=> x \in aborted) /\ (x \in ended' <=> x \in ended)
    BY <1>26, <2>1, <2>2
  <2>4. \A x \in Side : x # e => EndingAt(x)'
    BY <2>2, <2>3, EndingOther DEF Ending
  <2>5. EndingAt(e)'
    BY <1>26, <2>1, <2>2, Sides DEF Ending, EndingAt, RemovedAs, Life
  <2> QED BY <2>4, <2>5 DEF Ending
<1>27. ASSUME NEW e \in Side, SendAck(e) PROVE Ending'
  <2>1. /\ UNCHANGED <<table, bound, remover, reader, alive, ended, aborted, stream>>
        /\ writer[e] = "ack" /\ writer'[e] = "loop"
        /\ \A x \in Side : x # e => writer'[x] = writer[x]
    BY <1>27, Sides DEF SendAck, WriterOnly, WriterAt, Shape
  <2>2. \A x \in Side : x # e => stream'[x] = stream[x] /\ remover'[x] = remover[x]
                                  /\ (x \in table' <=> x \in table)
                                  /\ (x \in aborted' <=> x \in aborted) /\ (x \in ended' <=> x \in ended)
    BY <1>27, <2>1
  <2>3. \A x \in Side : x # e => EndingAt(x)'
    BY <2>1, <2>2, EndingOther DEF Ending
  <2>4. EndingAt(e)'
    BY <1>27, <2>1, Sides DEF Ending, EndingAt
  <2> QED BY <2>3, <2>4 DEF Ending
<1>28. ASSUME NEW e \in Side, TimerFires(e) PROVE Ending'
  <2>1. /\ UNCHANGED <<bound, reader, writer, alive, ended>>
    BY <1>28, Sides DEF TimerFires, Shape
  <2>2. \A x \in Side : x # e => stream'[x] = stream[x] /\ remover'[x] = remover[x]
                                  /\ (x \in table' <=> x \in table)
                                  /\ (x \in aborted' <=> x \in aborted) /\ (x \in ended' <=> x \in ended)
    BY <1>28, TimerFiresEffect, <2>1
  <2>3. \A x \in Side : x # e => EndingAt(x)'
    BY <2>1, <2>2, EndingOther DEF Ending
  <2>4. EndingAt(e)'
    BY <1>28, TimerFiresEffect, <2>1, Sides DEF Ending, EndingAt, Life
  <2> QED BY <2>3, <2>4 DEF Ending
<1>29. ASSUME NEW e \in Side, FinishRemove(e) PROVE Ending'
  <2>1. /\ UNCHANGED <<table, reader, writer, alive, ended, aborted>>
        /\ bound' = bound \ {e} /\ remover'[e].step = "done"
        /\ remover[e].step = "close"
        /\ \A x \in Side : x # e => remover'[x] = remover[x]
    BY <1>29, Sides DEF FinishRemove, Shape, Removers, Remover
  <2>2. \A x \in Side : x # e => stream'[x] = stream[x] /\ remover'[x] = remover[x]
                                  /\ (x \in table' <=> x \in table)
                                  /\ (x \in aborted' <=> x \in aborted) /\ (x \in ended' <=> x \in ended)
    BY <1>29, FinishRemoveEffect, <2>1
  <2>3. \A x \in Side : x # e => EndingAt(x)'
    BY <2>1, <2>2, EndingOther DEF Ending
  <2>4. EndingAt(e)'
    BY <1>29, FinishRemoveEffect, <2>1, Sides DEF Ending, EndingAt, Life, Removers, Remover
  <2> QED BY <2>3, <2>4 DEF Ending
<1>30. ASSUME NEW e \in Side, RemoveSession(e) PROVE Ending'
  <2>1. /\ UNCHANGED <<table, remover, reader, writer, alive, ended, aborted, stream>>
        /\ bound' = bound \ {e}
    BY <1>30, Sides DEF RemoveSession, Shape
  <2>2. \A x \in Side : x # e => stream'[x] = stream[x] /\ remover'[x] = remover[x]
                                  /\ (x \in table' <=> x \in table)
                                  /\ (x \in aborted' <=> x \in aborted) /\ (x \in ended' <=> x \in ended)
    BY <1>30, <2>1
  <2>3. \A x \in Side : x # e => EndingAt(x)'
    BY <2>1, <2>2, EndingOther DEF Ending
  <2>4. EndingAt(e)'
    BY <1>30, <2>1, Sides DEF Ending, EndingAt
  <2> QED BY <2>3, <2>4 DEF Ending
<1>31. ASSUME NEW e \in Side, CloseStreams(e) PROVE Ending'
  <2>1. /\ \/ RemovedAs(e, "none")
           \/ stream' = stream /\ remover' = remover /\ table' = table
        /\ \A x \in Side : x # e => /\ stream'[x] = stream[x] /\ remover'[x] = remover[x]
                                     /\ (x \in table' <=> x \in table)
    BY <1>31, RemovedLeaves DEF CloseStreams
  <2>2. /\ UNCHANGED <<bound, reader, writer, ended, aborted>>
        /\ ~alive'
    BY <1>31, Sides DEF CloseStreams, Shape
  <2>3. \A x \in Side : x # e => stream'[x] = stream[x] /\ remover'[x] = remover[x]
                                  /\ (x \in table' <=> x \in table)
                                  /\ (x \in aborted' <=> x \in aborted) /\ (x \in ended' <=> x \in ended)
    BY <1>31, <2>1, <2>2
  <2>4. \A x \in Side : x # e => EndingAt(x)'
    BY <2>2, <2>3, EndingOther DEF Ending
  <2>5. EndingAt(e)'
    BY <1>31, <2>1, <2>2, Sides DEF Ending, EndingAt, RemovedAs
  <2> QED BY <2>4, <2>5 DEF Ending
<1>32. CASE UNCHANGED vars
  BY <1>32 DEF vars, Ending, EndingAt
<1> QED BY <1>1, <1>2, <1>3, <1>4, <1>5, <1>6, <1>7, <1>8, <1>9, <1>10, <1>11,
   <1>12, <1>13, <1>14, <1>15, <1>16, <1>17, <1>18, <1>19, <1>20, <1>21,
   <1>22, <1>23, <1>24, <1>25, <1>26, <1>27, <1>28, <1>29, <1>30, <1>31,
   <1>32, Steps

-----------------------------------------------------------------------------
(* The window: what one end's ackSem counts, wherever it is.               *)

SendingBy(e) == IF reader[e] = "transmit" THEN 1 ELSE 0
DataTo(e) == HowMany(link[e], "DATA")
Queued(e) == HowMany(stream[e].inbox, "DATA")
WritingAt(e) == IF writer[e] \in {"write", "ack"} THEN 1 ELSE 0
AcksTo(e) == HowMany(link[e], "DATA_ACK")

Owed(e) == SendingBy(e) + DataTo(Other(e)) + Queued(Other(e)) + WritingAt(Other(e)) + AcksTo(e)

\* No slot of the window is taken twice, and none is forgotten while both
\* ends hold the stream.
Tokens ==
  Window > 0 => \A e \in Side :
    /\ Owed(e) <= stream[e].acks /\ stream[e].acks <= Window
    /\ table = Side /\ up = Side /\ alive => Owed(e) = stream[e].acks

LEMMA TokenTypes ==
  ASSUME Shape, NEW e \in Side
  PROVE  /\ SendingBy(e) \in Nat /\ DataTo(e) \in Nat /\ Queued(e) \in Nat
         /\ WritingAt(e) \in Nat /\ AcksTo(e) \in Nat /\ stream[e].acks \in Nat
<1>1. link[e] \in Seq(Msg) /\ stream[e].inbox \in Seq(Msg) /\ stream[e].acks \in Nat
  BY StreamFields DEF Shape
<1>2. DataTo(e) \in Nat /\ Queued(e) \in Nat /\ AcksTo(e) \in Nat
  BY <1>1, HowManyIsNat DEF DataTo, Queued, AcksTo
<1> QED BY <1>1, <1>2 DEF SendingBy, WritingAt

\* What a frame sent or received changes in the counts of the links.
LEMMA TransmitCounts ==
  ASSUME Shape, NEW e \in Side, NEW f \in Msg, Transmit(e, f), NEW x \in Side
  PROVE  /\ DataTo(x)' = DataTo(x) + (IF alive /\ x = Other(e) /\ f.type = "DATA" THEN 1 ELSE 0)
         /\ AcksTo(x)' = AcksTo(x) + (IF alive /\ x = Other(e) /\ f.type = "DATA_ACK" THEN 1 ELSE 0)
<1>1. link[x] \in Seq(Msg)
  BY DEF Shape
<1>2. CASE alive /\ x = Other(e)
  <2>1. link'[x] = Append(link[x], f)
    BY <1>2, Sides DEF Transmit, Shape
  <2> QED BY <1>1, <1>2, <2>1, HowManyAppend DEF DataTo, AcksTo
<1>3. CASE ~(alive /\ x = Other(e))
  <2>1. link'[x] = link[x]
    BY <1>3, Sides DEF Transmit, Shape
  <2> QED BY <1>3, <2>1, TokenTypes DEF DataTo, AcksTo
<1> QED BY <1>2, <1>3

LEMMA PopCounts ==
  ASSUME Shape, NEW e \in Side, NEW t, Arrives(e, t), link' = Pop(e), NEW x \in Side
  PROVE  /\ DataTo(x) = DataTo(x)' + (IF x = e /\ t = "DATA" THEN 1 ELSE 0)
         /\ AcksTo(x) = AcksTo(x)' + (IF x = e /\ t = "DATA_ACK" THEN 1 ELSE 0)
         /\ DataTo(x)' \in Nat /\ AcksTo(x)' \in Nat
<1>1. link[x] \in Seq(Msg)
  BY DEF Shape
<1>2. CASE x = e
  <2>1. link'[x] = Tail(link[x]) /\ link[x] # <<>> /\ Head(link[x]).type = t
    BY <1>2 DEF Pop, Shape, Arrives
  <2>2. Tail(link[x]) \in Seq(Msg)
    BY <1>1, <2>1, MsgSeq
  <2>3. DataTo(x)' \in Nat /\ AcksTo(x)' \in Nat
    BY <2>1, <2>2, HowManyIsNat DEF DataTo, AcksTo
  <2> QED BY <1>1, <1>2, <2>1, <2>3, HowManyTail DEF DataTo, AcksTo
<1>3. CASE x # e
  <2>1. link'[x] = link[x]
    BY <1>3 DEF Pop, Shape
  <2> QED BY <1>3, <2>1, TokenTypes DEF DataTo, AcksTo
<1> QED BY <1>2, <1>3

SameReaders == \A x \in Side : SendingBy(x)' = SendingBy(x)
SameWriters == \A x \in Side : WritingAt(x)' = WritingAt(x)
SameLinks == \A x \in Side : DataTo(x)' = DataTo(x) /\ AcksTo(x)' = AcksTo(x)
SameInboxes == \A x \in Side : Queued(x)' = Queued(x)
SameAcks == \A x \in Side : stream'[x].acks = stream[x].acks
StillUp == table' \subseteq table /\ up' \subseteq up /\ (alive' => alive)

LEMMA TokensSame ==
  ASSUME Shape, Tokens, SameReaders, SameWriters, SameLinks, SameInboxes, SameAcks, StillUp
  PROVE  Tokens'
<1>1. \A e \in Side : Owed(e)' = Owed(e)
  BY Sides DEF SameReaders, SameWriters, SameLinks, SameInboxes, Owed
<1>2. table' = Side /\ up' = Side /\ alive' => table = Side /\ up = Side /\ alive
  BY DEF StillUp, Shape
<1> QED BY <1>1, <1>2 DEF Tokens, SameAcks

\* Slots are lost once an end is gone, never freed.
LEMMA TokensLost ==
  ASSUME Shape, Tokens, ~(table' = Side /\ up' = Side /\ alive'),
         \A e \in Side : Owed(e)' <= Owed(e) /\ Owed(e)' \in Nat, SameAcks
  PROVE  Tokens'
<1>1. \A e \in Side : Owed(e) \in Nat /\ stream[e].acks \in Nat
  BY TokenTypes, Sides DEF Owed
<1> QED BY <1>1 DEF Tokens, SameAcks

LEMMA SameStream ==
  ASSUME \A x \in Side : stream'[x].inbox = stream[x].inbox /\ stream'[x].acks = stream[x].acks
  PROVE  SameInboxes /\ SameAcks
  BY DEF SameInboxes, SameAcks, Queued

LEMMA RemovalSame ==
  ASSUME Shape, NEW e \in Side, NEW f \in {"none", "FIN", "SYN_ACK"}, Remove(e, f, stream)
  PROVE  SameInboxes /\ SameAcks
<1>1. stream \in Streams
  BY DEF Shape
<1>2. \A x \in Side : stream'[x].inbox = stream[x].inbox /\ stream'[x].acks = stream[x].acks
  BY <1>1, RemoveEffect
<1> QED BY <1>2, SameStream

LEMMA SameTail ==
  ASSUME Shape, NEW e \in Side, NEW t, Taking(e, t), t # "DATA",
         stream'[e].inbox = Tail(stream[e].inbox),
         \A x \in Side : x # e => stream'[x] = stream[x]
  PROVE  SameInboxes
<1>1. stream[e].inbox \in Seq(Msg) /\ stream[e].inbox # <<>> /\ Head(stream[e].inbox).type = t
  BY StreamFields DEF Shape, Taking
<1>2. Tail(stream[e].inbox) \in Seq(Msg)
  BY <1>1, MsgSeq
<1>3. HowMany(stream[e].inbox, "DATA") = HowMany(Tail(stream[e].inbox), "DATA")
  <2>1. HowMany(Tail(stream[e].inbox), "DATA") \in Nat
    BY <1>2, HowManyIsNat
  <2>2. HowMany(stream[e].inbox, "DATA") = HowMany(Tail(stream[e].inbox), "DATA") + 0
    BY <1>1, HowManyTail
  <2> QED BY <2>1, <2>2
<1> QED BY <1>3 DEF SameInboxes, Queued

\* Every step keeps Tokens.
LEMMA TokensStep == Shape /\ FreshInv /\ Life /\ Answer /\ Tokens /\
   [Next]_vars => Tokens'
<1> SUFFICES ASSUME Shape, FreshInv, Life, Answer, Tokens, [Next]_vars PROVE
   Tokens'
  OBVIOUS
<1> USE DEF streamVars, goroutines, session, history
<1>1. CASE Accept
  <2>1. /\ link["opener"] = <<>> /\ link["target"] = <<>> /\ "target" \notin table
        /\ reader["opener"] = "none" /\ reader["target"] = "none"
        /\ writer["opener"] = "none" /\ writer["target"] = "none"
        /\ stream["target"].inbox = <<>> /\ stream["target"].acks = 0
    <3>1. stream["target"] = NewStream("none") /\ stream["opener"] = NewStream("none") /\ accepting = "accept"
      BY <1>1 DEF Accept, FreshInv, Fresh
    <3>2. NewStream("none").inbox = <<>> /\ NewStream("none").acks = 0
      BY DEF NewStream
    <3> QED BY <1>1, <3>1, <3>2 DEF Accept, FreshInv, Fresh
  <2>2. /\ stream'["opener"].inbox = <<>> /\ stream'["opener"].acks = 0
        /\ stream'["target"] = stream["target"] /\ "target" \notin table'
        /\ writer'["opener"] = "loop" /\ writer'["target"] = writer["target"]
        /\ UNCHANGED <<link, reader>>
    <3>1. stream'["opener"] = NewStream("open") /\ stream'["target"] = stream["target"]
      BY <1>1, Sides DEF Accept, Streams, Shape
    <3>2. NewStream("open").inbox = <<>> /\ NewStream("open").acks = 0
      BY DEF NewStream
    <3>3. writer'["opener"] = "loop" /\ writer'["target"] = writer["target"]
      BY <1>1, Sides DEF Accept, Shape
    <3> QED BY <1>1, <2>1, <3>1, <3>2, <3>3, Sides DEF Accept
  <2>3. \A x \in Side : Owed(x)' = 0 /\ stream'[x].acks = 0
    BY SMTT(30), <2>1, <2>2, Sides, HowManyNone DEF Owed, SendingBy, DataTo, Queued, WritingAt, AcksTo
  <2> QED BY <2>3, WindowAssumption DEF Tokens
<1>2. CASE SendConnect
  <2>11. SameReaders
    
    <3>1. reader["opener"] = "none" /\ reader'["opener"] \in {"none", "wait"} /\ reader'["target"] = reader["target"]
      BY <1>2, Sides DEF SendConnect, FreshInv, Shape
    <3> QED BY <3>1, Sides DEF SameReaders, SendingBy
  <2>12. SameWriters
    BY <1>2 DEF SendConnect, SameWriters, WritingAt
  <2>13. SameLinks
    
    <3>1. UNCHANGED link \/ Transmit("opener", Connect)
      BY <1>2 DEF SendConnect
    <3>2. CASE Transmit("opener", Connect)
      BY <3>2, MsgTypes, Answers, TransmitCounts, TokenTypes, Sides DEF SameLinks
    <3>3. CASE UNCHANGED link
      BY <3>3 DEF SameLinks, DataTo, AcksTo
    <3> QED BY <3>1, <3>2, <3>3
  <2>14. SameInboxes /\ SameAcks
    
    <3>1. stream' = stream \/ Remove("opener", "none", stream)
      BY <1>2 DEF SendConnect, DropUnsent
    <3> QED BY <3>1, SameStream, RemovalSame, Sides
  <2>15. StillUp
    BY <1>2 DEF SendConnect, DropUnsent, Remove, StillUp
  <2> QED BY <2>11, <2>12, <2>13, <2>14, <2>15, TokensSame
<1>3. CASE BindConnect
  <2>11. SameReaders
    BY <1>3 DEF BindConnect, SameReaders, SendingBy
  <2>12. SameWriters
    BY <1>3 DEF BindConnect, SameWriters, WritingAt
  <2>13. SameLinks
    BY <1>3, PopCounts, TokenTypes, Sides DEF BindConnect, SameLinks
  <2>14. SameInboxes /\ SameAcks
    BY <1>3, SameStream DEF BindConnect
  <2>15. StillUp
    BY <1>3 DEF BindConnect, StillUp
  <2> QED BY <2>11, <2>12, <2>13, <2>14, <2>15, TokensSame
<1>4. CASE HandleConnect
  <2>1. /\ link["opener"] = <<>> /\ link["target"] = <<>> /\ "target" \notin table
        /\ reader["opener"] # "transmit" /\ reader["target"] = "none"
        /\ writer["opener"] \notin {"write", "ack"} /\ writer["target"] = "none"
        /\ stream["opener"].inbox = <<>> /\ stream["opener"].acks = 0
        /\ stream["target"].inbox = <<>> /\ stream["target"].acks = 0
    <3>1. receiving = "bound" /\ stream["target"] = NewStream("none")
      BY <1>4 DEF HandleConnect, FreshInv, Fresh
    <3>2. NewStream("none").inbox = <<>> /\ NewStream("none").acks = 0
      BY DEF NewStream
    <3> QED BY <3>1, <3>2 DEF FreshInv, Fresh
  <2>2. /\ stream'["opener"] = stream["opener"] /\ reader' = reader
        /\ stream'["target"].inbox = <<>> /\ stream'["target"].acks = 0
        /\ writer'["opener"] = writer["opener"] /\ writer'["target"] \notin {"write", "ack"}
    <3>1. \/ /\ stream' = [stream EXCEPT !["target"] = NewStream("none")]
             /\ writer' = [writer EXCEPT !["target"] = "loop"]
          \/ UNCHANGED <<stream, writer>>
      BY <1>4 DEF HandleConnect
    <3>2. NewStream("none").inbox = <<>> /\ NewStream("none").acks = 0
      BY DEF NewStream
    <3>3. \/ stream'["target"] = NewStream("none") /\ stream'["opener"] = stream["opener"]
             /\ writer'["target"] = "loop" /\ writer'["opener"] = writer["opener"]
          \/ UNCHANGED <<stream, writer>>
      BY <3>1, Sides DEF Streams, Shape
    <3>4. reader' = reader
      BY <1>4 DEF HandleConnect
    <3> QED BY <2>1, <3>2, <3>3, <3>4
  <2>3. \A x \in Side : DataTo(x) = 0 /\ AcksTo(x) = 0
    <3>1. \A x \in Side : link[x] = <<>>
      BY <2>1, Sides
    <3>2. HowMany(<<>>, "DATA") = 0 /\ HowMany(<<>>, "DATA_ACK") = 0
      BY HowManyNone
    <3> QED BY <3>1, <3>2 DEF DataTo, AcksTo
  <2>4. \A x \in Side : DataTo(x)' = 0 /\ AcksTo(x)' = 0
    <3>1. UNCHANGED link \/ Transmit("target", Negative)
      BY <1>4 DEF HandleConnect, RejectConnect, SendIfBound, Negative
    <3>2. CASE Transmit("target", Negative)
      BY <2>3, <3>2, Answers, TransmitCounts, Sides
    <3>3. CASE UNCHANGED link
      BY <2>3, <3>3 DEF DataTo, AcksTo
    <3> QED BY <3>1, <3>2, <3>3
  <2>5. \A x \in Side : Owed(x)' = 0 /\ stream'[x].acks = 0
    BY <2>1, <2>2, <2>4, Sides, HowManyNone DEF Owed, SendingBy, Queued, WritingAt
  <2> QED BY <2>5, WindowAssumption DEF Tokens
<1>5. ASSUME NEW e \in Side, HandleSynAck(e) PROVE Tokens'
  <2>11. SameReaders
    BY <1>5 DEF HandleSynAck, SameReaders, SendingBy
  <2>12. SameWriters
    BY <1>5 DEF HandleSynAck, SameWriters, WritingAt
  <2>13. SameLinks
    BY <1>5, PopCounts, TokenTypes, Sides DEF HandleSynAck, SameLinks
  <2>14. SameInboxes /\ SameAcks
    
    <3>1. CASE Remove(e, "none", stream)
      BY <3>1, RemovalSame
    <3>2. CASE stream' = [stream EXCEPT ![e].ready = @ \/ e \in table]
      <4>1. \A x \in Side : stream'[x].inbox = stream[x].inbox /\ stream'[x].acks = stream[x].acks
        BY <3>2 DEF Shape, Streams, Stream
      <4> QED BY <4>1, SameStream
    <3> QED BY <1>5, <3>1, <3>2 DEF HandleSynAck
  <2>15. StillUp
    BY <1>5 DEF HandleSynAck, Remove, StillUp
  <2> QED BY <2>11, <2>12, <2>13, <2>14, <2>15, TokensSame
<1>6. ASSUME NEW e \in Side, HandleQueued(e) PROVE Tokens'
  <2> DEFINE p == Other(e)
  <2>0. p \in Side /\ p # e /\ Other(p) = e /\ \A x \in Side : x = e \/ x = p
    BY Sides
  <2> HIDE DEF p
  <2>1. SameReaders /\ SameWriters
    BY <1>6 DEF HandleQueued, SameReaders, SameWriters, SendingBy, WritingAt
  <2>2. UNCHANGED <<table, up, alive>> /\ Head(link[e]) \in Msg /\ link' = Pop(e)
        /\ Head(link[e]).type \in {"DATA", "FIN"} /\ Arrives(e, Head(link[e]).type)
        /\ IF e \in table THEN Enqueue(e, Head(link[e])) ELSE UNCHANGED stream
    BY <1>6, PopShape DEF HandleQueued, Arrives
  <2>3. SameAcks /\ Queued(p)' = Queued(p)
    BY <2>0, <2>2, PutEffect DEF SameAcks, Queued
  <2>4. \A x \in Side : AcksTo(x)' = AcksTo(x) /\ DataTo(x)' \in Nat
    BY <2>2, PopCounts, TokenTypes
  <2>5. DataTo(p)' = DataTo(p) /\ DataTo(e) = DataTo(e)' + (IF Head(link[e]).type = "DATA" THEN 1 ELSE 0)
    BY <2>0, <2>2, <2>4, PopCounts
  <2>6. CASE e \in table
    <3>1. stream'[e].inbox = Append(stream[e].inbox, Head(link[e]))
      BY <2>2, <2>6, PutEffect DEF Life
    <3>2. stream[e].inbox \in Seq(Msg)
      BY StreamFields DEF Shape
    <3>3. Queued(e)' = Queued(e) + (IF Head(link[e]).type = "DATA" THEN 1 ELSE 0)
      BY <2>2, <3>1, <3>2, HowManyAppend DEF Queued
    <3>4. \A x \in Side : Owed(x)' = Owed(x)
      <4>1. Owed(e)' = Owed(e)
        BY <2>0, <2>1, <2>3, <2>4, <2>5 DEF Owed, p, SameReaders, SameWriters
      <4>2. DataTo(e)' + Queued(e)' = DataTo(e) + Queued(e)
        BY <2>2, <2>4, <2>5, <3>3, TokenTypes
      <4>3. Owed(p)' = Owed(p)
        <5>1. /\ SendingBy(p)' = SendingBy(p) /\ WritingAt(e)' = WritingAt(e) /\ AcksTo(p)' = AcksTo(p)
              /\ SendingBy(p) \in Nat /\ WritingAt(e) \in Nat /\ AcksTo(p) \in Nat
              /\ DataTo(e) \in Nat /\ Queued(e) \in Nat /\ DataTo(e)' \in Nat /\ Queued(e)' \in Nat
          BY <2>0, <2>1, <2>4, <3>3, TokenTypes DEF SameReaders, SameWriters
        <5>2. /\ Owed(p) = SendingBy(p) + DataTo(e) + Queued(e) + WritingAt(e) + AcksTo(p)
              /\ Owed(p)' = SendingBy(p)' + DataTo(e)' + Queued(e)' + WritingAt(e)' + AcksTo(p)'
          BY <2>0 DEF Owed
        <5> QED BY <4>2, <5>1, <5>2
      <4> QED BY <2>0, <4>1, <4>3
    <3> QED BY <2>2, <2>3, <3>4 DEF Tokens, SameAcks
  <2>7. CASE e \notin table
    <3>1. Queued(e)' = Queued(e)
      BY <2>2, <2>7 DEF Queued
    <3>2. ~(table' = Side /\ up' = Side /\ alive')
      BY <2>2, <2>7
    <3>3. \A x \in Side : Owed(x)' <= Owed(x) /\ Owed(x)' \in Nat
      BY <2>0, <2>1, <2>3, <2>4, <2>5, <3>1, TokenTypes DEF Owed, p, SameReaders, SameWriters
    <3> QED BY <2>3, <3>2, <3>3, TokensLost
  <2> QED BY <2>6, <2>7
<1>7. ASSUME NEW e \in Side, HandleDataAck(e) PROVE Tokens'
  <2> DEFINE p == Other(e)
  <2>0. p \in Side /\ p # e /\ Other(p) = e /\ \A x \in Side : x = e \/ x = p
    BY Sides
  <2> HIDE DEF p
  <2>1. SameReaders /\ SameWriters
    BY <1>7 DEF HandleDataAck, SameReaders, SameWriters, SendingBy, WritingAt
  <2>2. UNCHANGED <<table, up, alive>> /\ Arrives(e, "DATA_ACK") /\ link' = Pop(e)
    BY <1>7 DEF HandleDataAck
  <2>3. SameInboxes /\ stream'[p].acks = stream[p].acks
    BY <1>7, <2>0, HandleDataAckEffect DEF SameInboxes, Queued
  <2>4. stream'[e].acks = (IF e \in table /\ stream[e].acks > 0 THEN stream[e].acks - 1 ELSE stream[e].acks)
    BY <1>7, HandleDataAckEffect
  <2>5. \A x \in Side : DataTo(x)' = DataTo(x)
    BY <2>2, PopCounts, TokenTypes
  <2>6. AcksTo(p)' = AcksTo(p) /\ AcksTo(e) = AcksTo(e)' + 1 /\ AcksTo(e)' \in Nat
    BY <2>0, <2>2, PopCounts, TokenTypes
  <2>7. Owed(p)' = Owed(p) /\ Owed(e) = Owed(e)' + 1 /\ Owed(e)' \in Nat /\ Owed(e) \in Nat
    <3>1. Owed(p)' = Owed(p)
      BY <2>0, <2>1, <2>3, <2>5, <2>6 DEF Owed, p, SameReaders, SameWriters, SameInboxes
    <3> QED BY <2>0, <2>1, <2>3, <2>5, <2>6, <3>1, TokenTypes DEF Owed, p, SameReaders, SameWriters, SameInboxes
  <2>8. stream[e].acks \in Nat /\ stream[p].acks \in Nat /\ Window \in Nat
    BY <2>0, TokenTypes, WindowAssumption
  <2>9. ASSUME Window > 0
         PROVE  /\ Owed(e)' <= stream'[e].acks /\ stream'[e].acks <= Window
                /\ table = Side /\ up = Side /\ alive => Owed(e)' = stream'[e].acks
    <3>1. /\ Owed(e) <= stream[e].acks /\ stream[e].acks <= Window
          /\ table = Side /\ up = Side /\ alive => Owed(e) = stream[e].acks
      BY <2>9 DEF Tokens
    <3>2. CASE e \in table
      <4>1. stream'[e].acks = stream[e].acks - 1
        BY <2>4, <2>7, <2>8, <3>1, <3>2
      <4> QED BY <2>7, <2>8, <3>1, <4>1
    <3>3. CASE e \notin table
      <4>1. stream'[e].acks = stream[e].acks /\ table # Side
        BY <2>4, <3>3
      <4> QED BY <2>7, <2>8, <3>1, <4>1
    <3> QED BY <3>2, <3>3
  <2>10. ASSUME Window > 0
         PROVE  /\ Owed(p)' <= stream'[p].acks /\ stream'[p].acks <= Window
                /\ table = Side /\ up = Side /\ alive => Owed(p)' = stream'[p].acks
    BY <2>0, <2>3, <2>7, <2>10 DEF Tokens
  <2>11. ASSUME Window > 0, NEW x \in Side
         PROVE  /\ Owed(x)' <= stream'[x].acks /\ stream'[x].acks <= Window
                /\ table' = Side /\ up' = Side /\ alive' => Owed(x)' = stream'[x].acks
    <3>1. CASE x = e
      BY <2>2, <2>9, <2>11, <3>1
    <3>2. CASE x = p
      BY <2>2, <2>10, <2>11, <3>2
    <3> QED BY <2>0, <3>1, <3>2
  <2> QED BY <2>11 DEF Tokens
<1>8. CASE DialSucceeds
  <2>11. SameReaders
    BY <1>8 DEF DialSucceeds, SameReaders, SendingBy
  <2>12. SameWriters
    BY <1>8 DEF DialSucceeds, SameWriters, WritingAt
  <2>13. SameLinks
    BY <1>8 DEF DialSucceeds, SameLinks, DataTo, AcksTo
  <2>14. SameInboxes /\ SameAcks
    BY <1>8, DialSucceedsEffect, SameStream, Sides
  <2>15. StillUp
    BY <1>8 DEF DialSucceeds, StillUp
  <2> QED BY <2>11, <2>12, <2>13, <2>14, <2>15, TokensSame
<1>9. CASE DialFails
  <2>11. SameReaders
    BY <1>9 DEF DialFails, SameReaders, SendingBy
  <2>12. SameWriters
    BY <1>9 DEF DialFails, SameWriters, WritingAt
  <2>13. SameLinks
    BY <1>9 DEF DialFails, SameLinks, DataTo, AcksTo
  <2>14. SameInboxes /\ SameAcks
    BY <1>9, RemovalSame, Sides DEF DialFails
  <2>15. StillUp
    BY <1>9 DEF DialFails, Remove, StillUp
  <2> QED BY <2>11, <2>12, <2>13, <2>14, <2>15, TokensSame
<1>10. CASE AnswerConnect
  <2>11. SameReaders
    
    <3>1. dialing = "answer" /\ reader' = [reader EXCEPT !["target"] = "wait"]
      BY <1>10 DEF AnswerConnect
    <3> QED BY <3>1, Sides DEF SameReaders, SendingBy, Shape, Answer
  <2>12. SameWriters
    BY <1>10 DEF AnswerConnect, SameWriters, WritingAt
  <2>13. SameLinks
    
    <3>1. UNCHANGED link \/ Transmit("target", Positive)
      BY <1>10 DEF AnswerConnect, SendIfBound, Positive
    <3>2. CASE Transmit("target", Positive)
      BY <3>2, MsgTypes, Answers, TransmitCounts, TokenTypes, Sides DEF SameLinks
    <3>3. CASE UNCHANGED link
      BY <3>3 DEF SameLinks, DataTo, AcksTo
    <3> QED BY <3>1, <3>2, <3>3
  <2>14. SameInboxes /\ SameAcks
    BY <1>10, AnswerConnectEffect, SameStream, Sides
  <2>15. StillUp
    BY <1>10 DEF AnswerConnect, StillUp
  <2> QED BY <2>11, <2>12, <2>13, <2>14, <2>15, TokensSame
<1>11. ASSUME NEW e \in Side, ReaderStarts(e) PROVE Tokens'
  <2>11. SameReaders
    BY <1>11 DEF ReaderStarts, ReaderAt, ReaderOnly, SameReaders, SendingBy, Shape
  <2>12. SameWriters
    BY <1>11 DEF ReaderStarts, ReaderAt, ReaderOnly, SameWriters, WritingAt
  <2>13. SameLinks
    BY <1>11 DEF ReaderStarts, ReaderAt, ReaderOnly, SameLinks, DataTo, AcksTo
  <2>14. SameInboxes /\ SameAcks
    BY <1>11, SameStream DEF ReaderStarts, ReaderAt, ReaderOnly
  <2>15. StillUp
    BY <1>11 DEF ReaderStarts, ReaderAt, ReaderOnly, StillUp
  <2> QED BY <2>11, <2>12, <2>13, <2>14, <2>15, TokensSame
<1>12. ASSUME NEW e \in Side, ReadChunk(e) PROVE Tokens'
  <2>11. SameReaders
    BY <1>12 DEF ReadChunk, ReaderAt, ReaderOnly, SameReaders, SendingBy, Shape
  <2>12. SameWriters
    BY <1>12 DEF ReadChunk, ReaderAt, ReaderOnly, SameWriters, WritingAt
  <2>13. SameLinks
    BY <1>12 DEF ReadChunk, ReaderAt, ReaderOnly, SameLinks, DataTo, AcksTo
  <2>14. SameInboxes /\ SameAcks
    BY <1>12, SameStream DEF ReadChunk, ReaderAt, ReaderOnly
  <2>15. StillUp
    BY <1>12 DEF ReadChunk, ReaderAt, ReaderOnly, StillUp
  <2> QED BY <2>11, <2>12, <2>13, <2>14, <2>15, TokensSame
<1>13. ASSUME NEW e \in Side, ReadEOF(e) PROVE Tokens'
  <2>11. SameReaders
    BY <1>13 DEF ReadEOF, ReaderAt, ReaderOnly, SameReaders, SendingBy, Shape
  <2>12. SameWriters
    BY <1>13 DEF ReadEOF, ReaderAt, ReaderOnly, SameWriters, WritingAt
  <2>13. SameLinks
    BY <1>13 DEF ReadEOF, ReaderAt, ReaderOnly, SameLinks, DataTo, AcksTo
  <2>14. SameInboxes /\ SameAcks
    BY <1>13, SameStream DEF ReadEOF, ReaderAt, ReaderOnly
  <2>15. StillUp
    BY <1>13 DEF ReadEOF, ReaderAt, ReaderOnly, StillUp
  <2> QED BY <2>11, <2>12, <2>13, <2>14, <2>15, TokensSame
<1>14. ASSUME NEW e \in Side, ReadClosed(e) PROVE Tokens'
  <2>11. SameReaders
    BY <1>14 DEF ReadClosed, ReaderAt, ReaderOnly, SameReaders, SendingBy, Shape
  <2>12. SameWriters
    BY <1>14 DEF ReadClosed, ReaderAt, ReaderOnly, SameWriters, WritingAt
  <2>13. SameLinks
    BY <1>14 DEF ReadClosed, ReaderAt, ReaderOnly, SameLinks, DataTo, AcksTo
  <2>14. SameInboxes /\ SameAcks
    BY <1>14, SameStream DEF ReadClosed, ReaderAt, ReaderOnly
  <2>15. StillUp
    BY <1>14 DEF ReadClosed, ReaderAt, ReaderOnly, StillUp
  <2> QED BY <2>11, <2>12, <2>13, <2>14, <2>15, TokensSame
<1>15. ASSUME NEW e \in Side, AcquireSlot(e) PROVE Tokens'
  <2> DEFINE p == Other(e)
  <2>0. p \in Side /\ p # e /\ Other(p) = e /\ \A x \in Side : x = e \/ x = p
    BY Sides
  <2> HIDE DEF p
  <2>1. SameWriters /\ SameLinks /\ UNCHANGED <<table, up, alive, bound, accepting>>
    BY <1>15 DEF AcquireSlot, ReaderOnly, SameWriters, WritingAt, SameLinks, DataTo, AcksTo
  <2>2. reader[e] = "chunk" /\ reader'[e] = (IF e \in bound THEN "transmit" ELSE "eof") /\ reader'[p] = reader[p]
    BY <1>15, <2>0 DEF AcquireSlot, ReaderAt, Shape
  <2>3. SameInboxes /\ stream'[p].acks = stream[p].acks /\ stream'[e].acks = (IF Window = 0 THEN stream[e].acks ELSE stream[e].acks + 1)
    BY <1>15, <2>0, AcquireSlotEffect DEF SameInboxes, Queued
  <2>4. Window > 0 => stream[e].acks < Window
    BY <1>15 DEF AcquireSlot, SlotFree
  <2>5. Owed(p)' = Owed(p) /\ Owed(e)' = Owed(e) + (IF e \in bound THEN 1 ELSE 0)
    <3>1. SendingBy(p)' = SendingBy(p) /\ SendingBy(e) = 0 /\ SendingBy(e)' = (IF e \in bound THEN 1 ELSE 0)
      BY <2>2 DEF SendingBy
    <3>2. Owed(p)' = Owed(p)
      BY <2>0, <2>1, <2>3, <3>1 DEF Owed, p, SameWriters, SameLinks, SameInboxes
    <3> QED BY <2>0, <2>1, <2>3, <3>1, <3>2, TokenTypes DEF Owed, p, SameWriters, SameLinks, SameInboxes
  <2>6. table = Side /\ up = Side => e \in bound
    BY ZenonT(40), <2>2, Sides DEF Life, FreshInv, Shape
  <2>7. Window \in Nat /\ Owed(e) \in Nat /\ Owed(p) \in Nat /\ stream[e].acks \in Nat
    BY <2>0, TokenTypes, WindowAssumption DEF Owed, p
  <2> QED BY <2>0, <2>1, <2>2, <2>3, <2>4, <2>5, <2>6, <2>7 DEF Tokens
<1>16. ASSUME NEW e \in Side, AcquireClosed(e) PROVE Tokens'
  <2>11. SameReaders
    BY <1>16 DEF AcquireClosed, ReaderAt, ReaderOnly, SameReaders, SendingBy, Shape
  <2>12. SameWriters
    BY <1>16 DEF AcquireClosed, ReaderAt, ReaderOnly, SameWriters, WritingAt
  <2>13. SameLinks
    BY <1>16 DEF AcquireClosed, ReaderAt, ReaderOnly, SameLinks, DataTo, AcksTo
  <2>14. SameInboxes /\ SameAcks
    BY <1>16, SameStream DEF AcquireClosed, ReaderAt, ReaderOnly
  <2>15. StillUp
    BY <1>16 DEF AcquireClosed, ReaderAt, ReaderOnly, StillUp
  <2> QED BY <2>11, <2>12, <2>13, <2>14, <2>15, TokensSame
<1>17. ASSUME NEW e \in Side, TransmitData(e) PROVE Tokens'
  <2> DEFINE p == Other(e)
  <2>0. p \in Side /\ p # e /\ Other(p) = e /\ \A x \in Side : x = e \/ x = p
    BY Sides
  <2> HIDE DEF p
  <2>1. SameWriters /\ UNCHANGED <<table, up, alive, stream>> /\ Transmit(e, Data(taken[e]))
    BY <1>17 DEF TransmitData, ReaderOnly, SameWriters, WritingAt
  <2>2. SendingBy(e) = 1 /\ SendingBy(e)' = 0 /\ SendingBy(p)' = SendingBy(p)
    BY <1>17, <2>0 DEF TransmitData, ReaderAt, SendingBy, Shape
  <2>3. Data(taken[e]) \in Msg /\ Data(taken[e]).type = "DATA"
    BY MsgTypes DEF Shape
  <2>4. \A x \in Side : AcksTo(x)' = AcksTo(x)
    BY <2>1, <2>3, TransmitCounts, TokenTypes
  <2>5. DataTo(e)' = DataTo(e) /\ DataTo(p)' = DataTo(p) + (IF alive THEN 1 ELSE 0)
    BY <2>0, <2>1, <2>3, TransmitCounts, TokenTypes DEF p
  <2>6. SameInboxes /\ SameAcks
    BY <2>1, SameStream
  <2>7. Owed(p)' = Owed(p) /\ Owed(e)' = Owed(e) - (IF alive THEN 0 ELSE 1) /\ Owed(e)' \in Nat /\ Owed(e) \in Nat /\ Owed(p) \in Nat
    <3>1. Owed(p)' = Owed(p)
      BY <2>0, <2>1, <2>2, <2>4, <2>5, <2>6 DEF Owed, p, SameWriters, SameInboxes
    <3> QED BY <2>0, <2>1, <2>2, <2>4, <2>5, <2>6, <3>1, TokenTypes DEF Owed, p, SameWriters, SameInboxes
  <2>8. CASE alive
    BY <2>0, <2>1, <2>2, <2>3, <2>4, <2>5, <2>6, <2>7, <2>8, TokenTypes DEF Tokens, SameAcks
  <2>9. CASE ~alive
    BY <2>0, <2>1, <2>2, <2>3, <2>4, <2>5, <2>6, <2>7, <2>9, TokensLost
  <2> QED BY <2>8, <2>9
<1>18. ASSUME NEW e \in Side, EnqueueEOF(e) PROVE Tokens'
  <2>11. SameReaders
    BY <1>18 DEF EnqueueEOF, ReaderAt, ReaderOnly, SameReaders, SendingBy, Shape
  <2>12. SameWriters
    BY <1>18 DEF EnqueueEOF, ReaderAt, ReaderOnly, SameWriters, WritingAt
  <2>13. SameLinks
    BY <1>18 DEF EnqueueEOF, ReaderAt, ReaderOnly, SameLinks, DataTo, AcksTo
  <2>14. SameInboxes /\ SameAcks
    
    <3>1. Enqueue(e, LocalEOF) /\ stream[e].inbox \in Seq(Msg)
      BY <1>18, StreamFields DEF EnqueueEOF, Shape
    <3>2. SameAcks
      BY <3>1, PutEffect DEF SameAcks
    <3>3. CASE stream' = stream
      BY <3>2, <3>3 DEF SameInboxes, Queued
    <3>4. CASE stream'[e].inbox = Append(stream[e].inbox, LocalEOF)
      <4>1. HowMany(stream'[e].inbox, "DATA") = HowMany(stream[e].inbox, "DATA") + 0
        BY <3>1, <3>4, HowManyAppend, MsgTypes
      <4>2. Queued(e)' = Queued(e)
        BY <4>1, TokenTypes DEF Queued
      <4>3. \A x \in Side : x # e => Queued(x)' = Queued(x)
        BY <3>1, PutEffect DEF Queued
      <4> QED BY <3>2, <4>2, <4>3 DEF SameInboxes
    <3> QED BY <3>1, <3>3, <3>4, PutEffect
  <2>15. StillUp
    BY <1>18 DEF EnqueueEOF, ReaderAt, ReaderOnly, StillUp
  <2> QED BY <2>11, <2>12, <2>13, <2>14, <2>15, TokensSame
<1>19. ASSUME NEW e \in Side, WriterStops(e) PROVE Tokens'
  <2>11. SameReaders
    BY <1>19 DEF WriterStops, WriterOnly, WriterAt, SameReaders, SendingBy
  <2>12. SameWriters
    BY <1>19 DEF WriterStops, WriterOnly, WriterAt, SameWriters, WritingAt, Shape
  <2>13. SameLinks
    BY <1>19 DEF WriterStops, WriterOnly, WriterAt, SameLinks, DataTo, AcksTo
  <2>14. SameInboxes /\ SameAcks
    BY <1>19, SameStream DEF WriterStops, WriterOnly, WriterAt
  <2>15. StillUp
    BY <1>19 DEF WriterStops, WriterOnly, WriterAt, StillUp
  <2> QED BY <2>11, <2>12, <2>13, <2>14, <2>15, TokensSame
<1>20. ASSUME NEW e \in Side, TakeLocalEOF(e) PROVE Tokens'
  <2>11. SameReaders
    BY <1>20 DEF TakeLocalEOF, WriterOnly, WriterAt, SameReaders, SendingBy
  <2>12. SameWriters
    BY <1>20 DEF TakeLocalEOF, WriterOnly, WriterAt, SameWriters, WritingAt, Shape
  <2>13. SameLinks
    BY <1>20 DEF TakeLocalEOF, WriterOnly, WriterAt, SameLinks, DataTo, AcksTo
  <2>14. SameInboxes /\ SameAcks
    
    <3>1. Taking(e, "localEOF")
      BY <1>20 DEF TakeLocalEOF
    <3>2. SameInboxes
      BY <1>20, <3>1, SameTail, TakeLocalEOFEffect
    <3> QED BY <1>20, <3>2, TakeLocalEOFEffect DEF SameAcks
  <2>15. StillUp
    BY <1>20 DEF TakeLocalEOF, WriterOnly, WriterAt, StillUp
  <2> QED BY <2>11, <2>12, <2>13, <2>14, <2>15, TokensSame
<1>21. ASSUME NEW e \in Side, RemoveFinished(e) PROVE Tokens'
  <2>11. SameReaders
    BY <1>21 DEF RemoveFinished, WriterOnly, WriterAt, SameReaders, SendingBy
  <2>12. SameWriters
    BY <1>21 DEF RemoveFinished, WriterOnly, WriterAt, SameWriters, WritingAt, Shape
  <2>13. SameLinks
    BY <1>21 DEF RemoveFinished, WriterOnly, WriterAt, SameLinks, DataTo, AcksTo
  <2>14. SameInboxes /\ SameAcks
    BY <1>21, RemovalSame DEF RemoveFinished
  <2>15. StillUp
    BY <1>21 DEF RemoveFinished, WriterOnly, Remove, StillUp
  <2> QED BY <2>11, <2>12, <2>13, <2>14, <2>15, TokensSame
<1>22. ASSUME NEW e \in Side, HalfClose(e) PROVE Tokens'
  <2>11. SameReaders
    BY <1>22 DEF HalfClose, WriterOnly, WriterAt, SameReaders, SendingBy
  <2>12. SameWriters
    BY <1>22 DEF HalfClose, SameWriters, WritingAt, Shape
  <2>13. SameLinks
    
    <3>1. UNCHANGED link \/ Transmit(e, Fin)
      BY <1>22 DEF HalfClose
    <3>2. CASE Transmit(e, Fin)
      BY <3>2, MsgTypes, Answers, TransmitCounts, TokenTypes, Sides DEF SameLinks
    <3>3. CASE UNCHANGED link
      BY <3>3 DEF SameLinks, DataTo, AcksTo
    <3> QED BY <3>1, <3>2, <3>3
  <2>14. SameInboxes /\ SameAcks
    BY <1>22, HalfCloseEffect, SameStream
  <2>15. StillUp
    BY <1>22 DEF HalfClose, WriterOnly, WriterAt, StillUp
  <2> QED BY <2>11, <2>12, <2>13, <2>14, <2>15, TokensSame
<1>23. ASSUME NEW e \in Side, TakeRemoteFIN(e) PROVE Tokens'
  <2>11. SameReaders
    BY <1>23 DEF TakeRemoteFIN, WriterOnly, WriterAt, SameReaders, SendingBy
  <2>12. SameWriters
    BY <1>23 DEF TakeRemoteFIN, WriterOnly, WriterAt, SameWriters, WritingAt, Shape
  <2>13. SameLinks
    BY <1>23 DEF TakeRemoteFIN, WriterOnly, WriterAt, SameLinks, DataTo, AcksTo
  <2>14. SameInboxes /\ SameAcks
    
    <3>1. Taking(e, "FIN")
      BY <1>23 DEF TakeRemoteFIN
    <3>2. SameInboxes
      BY <1>23, <3>1, SameTail, TakeRemoteFINEffect
    <3> QED BY <1>23, <3>2, TakeRemoteFINEffect DEF SameAcks
  <2>15. StillUp
    BY <1>23, TakeRemoteFINEffect DEF TakeRemoteFIN, WriterOnly, StillUp
  <2> QED BY <2>11, <2>12, <2>13, <2>14, <2>15, TokensSame
<1>24. ASSUME NEW e \in Side, TakeData(e) PROVE Tokens'
  <2> DEFINE p == Other(e)
  <2>0. p \in Side /\ p # e /\ Other(p) = e /\ \A x \in Side : x = e \/ x = p
    BY Sides
  <2> HIDE DEF p
  <2>1. SameReaders /\ SameLinks /\ UNCHANGED <<table, up, alive>>
    BY <1>24 DEF TakeData, WriterOnly, SameReaders, SendingBy, SameLinks, DataTo, AcksTo
  <2>2. WritingAt(e) = 0 /\ WritingAt(e)' = (IF stream[e].conn = "none" THEN 0 ELSE 1) /\ WritingAt(p)' = WritingAt(p)
    BY <1>24, <2>0 DEF TakeData, WriterAt, WritingAt, Shape
  <2>3. SameAcks /\ Queued(p)' = Queued(p)
    BY <1>24, <2>0, TakeDataEffect DEF SameAcks, Queued
  <2>4. Queued(e) = Queued(e)' + 1 /\ Queued(e)' \in Nat
    <3>1. stream[e].inbox \in Seq(Msg) /\ stream[e].inbox # <<>> /\ Head(stream[e].inbox).type = "DATA"
      BY <1>24, StreamFields DEF TakeData, Taking, Shape
    <3>2. stream'[e].inbox = Tail(stream[e].inbox) /\ Tail(stream[e].inbox) \in Seq(Msg)
      BY <1>24, <3>1, TakeDataEffect, MsgSeq
    <3> QED BY <3>1, <3>2, HowManyTail, HowManyIsNat DEF Queued
  <2>5. Owed(e)' = Owed(e) /\ Owed(p)' = Owed(p) - (IF stream[e].conn = "none" THEN 1 ELSE 0) /\ Owed(p)' \in Nat /\ Owed(e) \in Nat /\ Owed(p) \in Nat
    <3>1. Owed(e)' = Owed(e)
      BY <2>0, <2>1, <2>2, <2>3 DEF Owed, p, SameReaders, SameLinks
    <3>2. /\ Owed(p) = SendingBy(p) + DataTo(e) + Queued(e) + WritingAt(e) + AcksTo(p)
          /\ Owed(p)' = SendingBy(p)' + DataTo(e)' + Queued(e)' + WritingAt(e)' + AcksTo(p)'
          /\ Owed(e) \in Nat
      BY <2>0, TokenTypes DEF Owed, p
    <3> QED BY <2>0, <2>1, <2>2, <2>4, <3>1, <3>2, TokenTypes DEF SameReaders, SameLinks
  <2>6. stream[e].conn = "none" => e \notin table
    BY <1>24, Sides DEF TakeData, Taking, Answer, FreshInv
  <2>7. CASE stream[e].conn = "none"
    <3>1. ~(table' = Side /\ up' = Side /\ alive')
      BY <2>0, <2>1, <2>6, <2>7
    <3>2. \A x \in Side : Owed(x)' <= Owed(x) /\ Owed(x)' \in Nat
      BY <2>0, <2>5, <2>7
    <3> QED BY <2>3, <3>1, <3>2, TokensLost
  <2>8. CASE stream[e].conn # "none"
    <3>1. \A x \in Side : Owed(x)' = Owed(x)
      BY <2>0, <2>5, <2>8
    <3> QED BY <2>1, <2>3, <3>1 DEF Tokens, SameAcks
  <2> QED BY <2>7, <2>8
<1>25. ASSUME NEW e \in Side, WriteSucceeds(e) PROVE Tokens'
  <2> DEFINE p == Other(e)
  <2>0. p \in Side /\ p # e /\ Other(p) = e /\ \A x \in Side : x = e \/ x = p
    BY Sides
  <2> HIDE DEF p
  <2>1. SameReaders /\ SameLinks
    BY <1>25 DEF WriteSucceeds, WriterOnly, SameReaders, SendingBy, SameLinks, DataTo, AcksTo
  <2>2. WritingAt(e) = 1 /\ WritingAt(e)' = (IF e \in bound THEN 1 ELSE 0) /\ WritingAt(p)' = WritingAt(p)
    BY <1>25, <2>0 DEF WriteSucceeds, WriterAt, WritingAt, Shape, AckRouted
  <2>3. SameAcks /\ SameInboxes
    BY <1>25, SameStream DEF WriteSucceeds
  <2>4. UNCHANGED <<table, up, alive>> /\ (e \notin bound => ~(table = Side /\ up = Side))
    <3>1. UNCHANGED <<table, up, alive>> /\ writer[e] = "write"
      BY <1>25 DEF WriteSucceeds, WriterAt, WriterOnly
    <3>2. accepting = "connect" => writer["opener"] # "write"
      BY DEF FreshInv, Fresh
    <3> QED BY <3>1, <3>2, Sides DEF Life, FreshInv, Fresh
  <2>5. Owed(e)' = Owed(e) /\ Owed(p)' = Owed(p) - (1 - (IF e \in bound THEN 1 ELSE 0)) /\ Owed(p)' \in Nat /\ Owed(e) \in Nat /\ Owed(p) \in Nat
    <3>1. Owed(e)' = Owed(e)
      BY <2>0, <2>1, <2>2, <2>3 DEF Owed, p, SameReaders, SameLinks, SameInboxes
    <3>2. /\ Owed(p) = SendingBy(p) + DataTo(e) + Queued(e) + WritingAt(e) + AcksTo(p)
          /\ Owed(p)' = SendingBy(p)' + DataTo(e)' + Queued(e)' + WritingAt(e)' + AcksTo(p)'
          /\ Owed(e) \in Nat
      BY <2>0, TokenTypes DEF Owed, p
    <3> QED BY <2>0, <2>1, <2>2, <2>3, <3>1, <3>2, TokenTypes DEF SameReaders, SameLinks, SameInboxes
  <2>7. CASE e \notin bound
    <3>1. \A x \in Side : Owed(x)' <= Owed(x) /\ Owed(x)' \in Nat
      BY <2>0, <2>5, <2>7
    <3> QED BY <2>3, <2>4, <2>7, <3>1, TokensLost
  <2>8. CASE e \in bound
    <3>1. \A x \in Side : Owed(x)' = Owed(x)
      BY <2>0, <2>5, <2>8
    <3> QED BY <2>3, <2>4, <3>1 DEF Tokens, SameAcks
  <2> QED BY <2>7, <2>8
<1>26. ASSUME NEW e \in Side, WriteFails(e) PROVE Tokens'
  <2> DEFINE p == Other(e)
  <2>0. p \in Side /\ p # e /\ Other(p) = e /\ \A x \in Side : x = e \/ x = p
    BY Sides
  <2> HIDE DEF p
  <2>1. SameReaders /\ SameLinks
    BY <1>26 DEF WriteFails, WriterOnly, SameReaders, SendingBy, SameLinks, DataTo, AcksTo
  <2>2. WritingAt(e) = 1 /\ WritingAt(e)' = 0 /\ WritingAt(p)' = WritingAt(p)
    BY <1>26, <2>0 DEF WriteFails, WriterAt, WritingAt, Shape
  <2>3. SameAcks /\ SameInboxes
    BY <1>26, RemovalSame DEF WriteFails
  <2>4. e \notin table'
    BY <1>26 DEF WriteFails, Remove, Shape
  <2>5. Owed(e)' = Owed(e) /\ Owed(p)' = Owed(p) - (1 - 0) /\ Owed(p)' \in Nat /\ Owed(e) \in Nat /\ Owed(p) \in Nat
    <3>1. Owed(e)' = Owed(e)
      BY <2>0, <2>1, <2>2, <2>3 DEF Owed, p, SameReaders, SameLinks, SameInboxes
    <3>2. /\ Owed(p) = SendingBy(p) + DataTo(e) + Queued(e) + WritingAt(e) + AcksTo(p)
          /\ Owed(p)' = SendingBy(p)' + DataTo(e)' + Queued(e)' + WritingAt(e)' + AcksTo(p)'
          /\ Owed(e) \in Nat
      BY <2>0, TokenTypes DEF Owed, p
    <3> QED BY <2>0, <2>1, <2>2, <2>3, <3>1, <3>2, TokenTypes DEF SameReaders, SameLinks, SameInboxes
  <2>7. \A x \in Side : Owed(x)' <= Owed(x) /\ Owed(x)' \in Nat
    BY <2>0, <2>5
  <2> QED BY <2>0, <2>3, <2>4, <2>7, TokensLost
<1>27. ASSUME NEW e \in Side, SendAck(e) PROVE Tokens'
  <2> DEFINE p == Other(e)
  <2>0. p \in Side /\ p # e /\ Other(p) = e /\ \A x \in Side : x = e \/ x = p
    BY Sides
  <2> HIDE DEF p
  <2>1. SameReaders /\ UNCHANGED <<table, up, alive, stream>> /\ Transmit(e, DataAck)
    BY <1>27 DEF SendAck, WriterOnly, SameReaders, SendingBy
  <2>2. WritingAt(e) = 1 /\ WritingAt(e)' = 0 /\ WritingAt(p)' = WritingAt(p)
    BY <1>27, <2>0 DEF SendAck, WriterAt, WritingAt, Shape
  <2>3. DataAck \in Msg /\ DataAck.type = "DATA_ACK"
    BY MsgTypes
  <2>4. \A x \in Side : DataTo(x)' = DataTo(x)
    BY <2>1, <2>3, TransmitCounts, TokenTypes
  <2>5. AcksTo(e)' = AcksTo(e) /\ AcksTo(p)' = AcksTo(p) + (IF alive THEN 1 ELSE 0)
    BY <2>0, <2>1, <2>3, TransmitCounts, TokenTypes DEF p
  <2>6. SameInboxes /\ SameAcks
    BY <2>1, SameStream
  <2>7. Owed(e)' = Owed(e) /\ Owed(p)' = Owed(p) - (IF alive THEN 0 ELSE 1) /\ Owed(e) \in Nat /\ Owed(p)' \in Nat /\ Owed(p) \in Nat
    <3>1. Owed(e)' = Owed(e)
      BY <2>0, <2>1, <2>2, <2>4, <2>5, <2>6 DEF Owed, p, SameReaders, SameInboxes
    <3>2. /\ Owed(p) = SendingBy(p) + DataTo(e) + Queued(e) + WritingAt(e) + AcksTo(p)
          /\ Owed(p)' = SendingBy(p)' + DataTo(e)' + Queued(e)' + WritingAt(e)' + AcksTo(p)'
          /\ Owed(e) \in Nat
      BY <2>0, TokenTypes DEF Owed, p
    <3> QED BY <2>0, <2>1, <2>2, <2>4, <2>5, <2>6, <3>1, <3>2, TokenTypes DEF SameReaders, SameInboxes
  <2>8. CASE alive
    BY <2>0, <2>1, <2>2, <2>3, <2>4, <2>5, <2>6, <2>7, <2>8, TokenTypes DEF Tokens, SameAcks
  <2>9. CASE ~alive
    <3>1. \A x \in Side : Owed(x)' <= Owed(x) /\ Owed(x)' \in Nat
      BY <2>0, <2>7, <2>9
    <3> QED BY <2>1, <2>6, <2>9, <3>1, TokensLost
  <2> QED BY <2>8, <2>9
<1>28. ASSUME NEW e \in Side, TimerFires(e) PROVE Tokens'
  <2>11. SameReaders
    BY <1>28 DEF TimerFires, SameReaders, SendingBy
  <2>12. SameWriters
    BY <1>28 DEF TimerFires, SameWriters, WritingAt
  <2>13. SameLinks
    BY <1>28 DEF TimerFires, SameLinks, DataTo, AcksTo
  <2>14. SameInboxes /\ SameAcks
    BY <1>28, TimerFiresEffect, SameStream
  <2>15. StillUp
    BY <1>28, TimerFiresEffect DEF TimerFires, StillUp
  <2> QED BY <2>11, <2>12, <2>13, <2>14, <2>15, TokensSame
<1>29. ASSUME NEW e \in Side, FinishRemove(e) PROVE Tokens'
  <2>11. SameReaders
    BY <1>29 DEF FinishRemove, SameReaders, SendingBy
  <2>12. SameWriters
    BY <1>29 DEF FinishRemove, SameWriters, WritingAt
  <2>13. SameLinks
    
    <3>1. UNCHANGED link \/ Transmit(e, Fin) \/ Transmit(e, Negative)
      BY <1>29 DEF FinishRemove, SendIfBound, Negative
    <3>2. CASE Transmit(e, Fin)
      BY <3>2, MsgTypes, Answers, TransmitCounts, TokenTypes, Sides DEF SameLinks
    <3>3. CASE Transmit(e, Negative)
      BY <3>3, MsgTypes, Answers, TransmitCounts, TokenTypes, Sides DEF SameLinks
    <3>4. CASE UNCHANGED link
      BY <3>4 DEF SameLinks, DataTo, AcksTo
    <3> QED BY <3>1, <3>2, <3>3, <3>4
  <2>14. SameInboxes /\ SameAcks
    BY <1>29, FinishRemoveEffect, SameStream
  <2>15. StillUp
    BY <1>29 DEF FinishRemove, StillUp
  <2> QED BY <2>11, <2>12, <2>13, <2>14, <2>15, TokensSame
<1>30. ASSUME NEW e \in Side, RemoveSession(e) PROVE Tokens'
  <2>11. SameReaders
    BY <1>30 DEF RemoveSession, SameReaders, SendingBy
  <2>12. SameWriters
    BY <1>30 DEF RemoveSession, SameWriters, WritingAt
  <2>13. SameLinks
    BY <1>30 DEF RemoveSession, SameLinks, DataTo, AcksTo
  <2>14. SameInboxes /\ SameAcks
    BY <1>30, SameStream DEF RemoveSession
  <2>15. StillUp
    BY <1>30 DEF RemoveSession, StillUp
  <2> QED BY <2>11, <2>12, <2>13, <2>14, <2>15, TokensSame
<1>31. ASSUME NEW e \in Side, CloseStreams(e) PROVE Tokens'
  <2>1. SameReaders /\ SameWriters /\ ~alive'
    BY <1>31 DEF CloseStreams, SameReaders, SameWriters, SendingBy, WritingAt
  <2>2. SameInboxes /\ SameAcks
    BY <1>31, SameStream, RemovalSame DEF CloseStreams
  <2>3. \A x \in Side : DataTo(x)' = 0 /\ AcksTo(x)' = 0
    BY <1>31, HowManyNone DEF CloseStreams, DataTo, AcksTo
  <2>4. \A x \in Side : Owed(x)' <= Owed(x) /\ Owed(x)' \in Nat
    BY <2>1, <2>2, <2>3, TokenTypes, Sides DEF Owed, SameReaders, SameWriters, SameInboxes
  <2> QED BY <2>1, <2>2, <2>4, TokensLost
<1>32. CASE UNCHANGED vars
  BY <1>32 DEF vars, Tokens, Owed, SendingBy, DataTo, Queued, WritingAt, AcksTo
<1> QED BY <1>1, <1>2, <1>3, <1>4, <1>5, <1>6, <1>7, <1>8, <1>9, <1>10, <1>11,
   <1>12, <1>13, <1>14, <1>15, <1>16, <1>17, <1>18, <1>19, <1>20, <1>21,
   <1>22, <1>23, <1>24, <1>25, <1>26, <1>27, <1>28, <1>29, <1>30, <1>31,
   <1>32, Steps

-----------------------------------------------------------------------------
(* What a queue carries: the chunks a + 1 to b, in this order.             *)

Carries(q, n) == \E i \in DOMAIN q : q[i].type = "DATA" /\ q[i].n = n

Run(q, a, b) ==
  /\ \A n \in Nat : Carries(q, n) <=> a < n /\ n <= b
  /\ \A i, j \in DOMAIN q :
       i < j /\ q[i].type = "DATA" /\ q[j].type = "DATA" => q[i].n < q[j].n

NothingAfterFin(q) ==
  \A i, j \in DOMAIN q : i < j /\ q[i].type = "FIN" => q[j].type # "DATA"

\* r carries the chunks of q, and ends if q ends.
Follows(q, r) ==
  /\ \A a, b \in Nat : Run(q, a, b) => Run(r, a, b)
  /\ Has(r, "FIN") => Has(q, "FIN")
  /\ NothingAfterFin(q) => NothingAfterFin(r)

LEMMA Appended ==
  ASSUME NEW q \in Seq(Msg), NEW m \in Msg
  PROVE  /\ DOMAIN q = 1..Len(q) /\ DOMAIN Append(q, m) = 1..(Len(q) + 1) /\ Len(q) \in Nat
         /\ \A i \in 1..Len(q) : Append(q, m)[i] = q[i]
         /\ Append(q, m)[Len(q) + 1] = m
  OBVIOUS

LEMMA Shortened ==
  ASSUME NEW q \in Seq(Msg), q # <<>>
  PROVE  /\ DOMAIN q = 1..Len(q) /\ DOMAIN Tail(q) = 1..(Len(q) - 1) /\ Len(q) \in Nat /\ Len(q) > 0
         /\ \A i \in 1..(Len(q) - 1) : Tail(q)[i] = q[i + 1]
         /\ Head(q) = q[1]
         /\ \A i \in 1..Len(q) : i # 1 => i - 1 \in 1..(Len(q) - 1) /\ Tail(q)[i - 1] = q[i]
  OBVIOUS

LEMMA CarriesAppend ==
  ASSUME NEW q \in Seq(Msg), NEW m \in Msg, NEW n
  PROVE  Carries(Append(q, m), n) <=> Carries(q, n) \/ (m.type = "DATA" /\ m.n = n)
<1>1. ASSUME Carries(Append(q, m), n) PROVE Carries(q, n) \/ (m.type = "DATA" /\ m.n = n)
  BY <1>1, Appended DEF Carries
<1>2. ASSUME Carries(q, n) PROVE Carries(Append(q, m), n)
  BY <1>2, Appended DEF Carries
<1>3. ASSUME m.type = "DATA", m.n = n PROVE Carries(Append(q, m), n)
  <2>1. Len(q) + 1 \in DOMAIN Append(q, m)
    BY Appended
  <2> QED BY <1>3, <2>1, Appended DEF Carries
<1> QED BY <1>1, <1>2, <1>3

LEMMA CarriesTail ==
  ASSUME NEW q \in Seq(Msg), q # <<>>, NEW n
  PROVE  Carries(q, n) <=> Carries(Tail(q), n) \/ (Head(q).type = "DATA" /\ Head(q).n = n)
<1>1. ASSUME Carries(q, n) PROVE Carries(Tail(q), n) \/ (Head(q).type = "DATA" /\ Head(q).n = n)
  <2>1. PICK i \in DOMAIN q : q[i].type = "DATA" /\ q[i].n = n
    BY <1>1 DEF Carries
  <2>2. CASE i = 1
    BY <2>1, <2>2, Shortened
  <2>3. CASE i # 1
    <3>1. i - 1 \in DOMAIN Tail(q) /\ Tail(q)[i - 1] = q[i]
      BY <2>3, Shortened
    <3> QED BY <2>1, <3>1 DEF Carries
  <2> QED BY <2>2, <2>3
<1>2. ASSUME Carries(Tail(q), n) PROVE Carries(q, n)
  <2>1. PICK i \in DOMAIN Tail(q) : Tail(q)[i].type = "DATA" /\ Tail(q)[i].n = n
    BY <1>2 DEF Carries
  <2>2. i + 1 \in DOMAIN q /\ q[i + 1] = Tail(q)[i]
    BY Shortened
  <2> QED BY <2>1, <2>2 DEF Carries
<1>3. ASSUME Head(q).type = "DATA", Head(q).n = n PROVE Carries(q, n)
  <2>1. 1 \in DOMAIN q /\ Head(q) = q[1]
    BY Shortened
  <2> QED BY <1>3, <2>1 DEF Carries
<1> QED BY <1>1, <1>2, <1>3

LEMMA RunNone == Run(<<>>, 0, 0) /\ NothingAfterFin(<<>>)
  BY DEF Run, Carries, NothingAfterFin

LEMMA RunEmpty ==
  ASSUME NEW q \in Seq(Msg), NEW a \in Nat, NEW b \in Nat, Run(q, a, b), a <= b, ~Has(q, "DATA")
  PROVE  a = b
<1>1. ~Carries(q, a + 1)
  BY DEF Carries, Has
<1> QED BY <1>1 DEF Run

LEMMA RunNothing ==
  ASSUME NEW q \in Seq(Msg), ~Has(q, "DATA"), NEW a \in Nat
  PROVE  Run(q, a, a)
  BY DEF Run, Carries, Has

LEMMA RunData ==
  ASSUME NEW q \in Seq(Msg), NEW a \in Nat, NEW b \in Nat, Run(q, a, b), a <= b,
         NEW m \in Msg, m.type = "DATA", m.n = b + 1
  PROVE  Run(Append(q, m), a, b + 1)
<1>1. \A n \in Nat : Carries(Append(q, m), n) <=> a < n /\ n <= b + 1
  <2>1. ASSUME NEW n \in Nat PROVE Carries(Append(q, m), n) <=> a < n /\ n <= b + 1
    <3>1. Carries(Append(q, m), n) <=> Carries(q, n) \/ b + 1 = n
      BY CarriesAppend
    <3>2. Carries(q, n) <=> a < n /\ n <= b
      BY DEF Run
    <3> QED BY <3>1, <3>2
  <2> QED BY <2>1
<1>2. ASSUME NEW i \in DOMAIN q, q[i].type = "DATA" PROVE q[i].n < b + 1
  <2>1. q[i] \in Msg
    BY <1>2
  <2>2. q[i].n \in Nat
    BY <1>2, <2>1, DataNumber
  <2>3. Carries(q, q[i].n)
    BY <1>2 DEF Carries
  <2> QED BY <2>2, <2>3 DEF Run
<1>3. ASSUME NEW i \in DOMAIN Append(q, m), NEW j \in DOMAIN Append(q, m), i < j,
             Append(q, m)[i].type = "DATA", Append(q, m)[j].type = "DATA"
      PROVE  Append(q, m)[i].n < Append(q, m)[j].n
  <2>1. i \in DOMAIN q /\ Append(q, m)[i] = q[i]
    BY <1>3, Appended
  <2>2. CASE j = Len(q) + 1
    BY <1>2, <1>3, <2>1, <2>2, Appended
  <2>3. CASE j # Len(q) + 1
    <3>1. j \in DOMAIN q /\ Append(q, m)[j] = q[j]
      BY <1>3, <2>3, Appended
    <3> QED BY <1>3, <2>1, <3>1 DEF Run
  <2> QED BY <2>2, <2>3
<1> QED BY <1>1, <1>3 DEF Run

LEMMA RunTail ==
  ASSUME NEW q \in Seq(Msg), q # <<>>, NEW a \in Nat, NEW b \in Nat, Run(q, a, b),
         Head(q).type = "DATA"
  PROVE  Head(q).n = a + 1 /\ a + 1 <= b /\ Run(Tail(q), a + 1, b)
<1> DEFINE h == Head(q).n
<1>1. h \in Nat
  BY MsgSeq, DataNumber
<1>2. Carries(q, h)
  BY CarriesTail
<1>3. a < h /\ h <= b
  BY <1>1, <1>2 DEF Run
<1>4. ASSUME NEW n \in Nat, Carries(Tail(q), n) PROVE h < n
  <2>1. PICK i \in DOMAIN Tail(q) : Tail(q)[i].type = "DATA" /\ Tail(q)[i].n = n
    BY <1>4 DEF Carries
  <2>2. i + 1 \in DOMAIN q /\ q[i + 1] = Tail(q)[i] /\ 1 \in DOMAIN q /\ 1 < i + 1 /\ q[1] = Head(q)
    BY Shortened
  <2> QED BY <2>1, <2>2 DEF Run
<1>5. h = a + 1
  <2>1. Carries(q, a + 1)
    BY <1>1, <1>3 DEF Run
  <2>2. Carries(Tail(q), a + 1) \/ h = a + 1
    BY <2>1, CarriesTail
  <2> QED BY <1>1, <1>3, <1>4, <2>2
<1>6. \A n \in Nat : Carries(Tail(q), n) <=> a + 1 < n /\ n <= b
  <2>1. ASSUME NEW n \in Nat PROVE Carries(Tail(q), n) <=> a + 1 < n /\ n <= b
    <3>1. Carries(q, n) <=> Carries(Tail(q), n) \/ n = a + 1
      BY <1>5, CarriesTail
    <3>2. Carries(q, n) <=> a < n /\ n <= b
      BY DEF Run
    <3>3. Carries(Tail(q), n) => a + 1 < n
      BY <1>4, <1>5
    <3> QED BY <3>1, <3>2, <3>3
  <2> QED BY <2>1
<1>7. ASSUME NEW i \in DOMAIN Tail(q), NEW j \in DOMAIN Tail(q), i < j,
             Tail(q)[i].type = "DATA", Tail(q)[j].type = "DATA"
      PROVE  Tail(q)[i].n < Tail(q)[j].n
  <2>1. /\ i + 1 \in DOMAIN q /\ q[i + 1] = Tail(q)[i] /\ j + 1 \in DOMAIN q /\ q[j + 1] = Tail(q)[j]
        /\ i + 1 < j + 1
    BY <1>7, Shortened
  <2> QED BY <1>7, <2>1 DEF Run
<1> QED BY <1>3, <1>5, <1>6, <1>7 DEF Run

LEMMA FinAppend ==
  ASSUME NEW q \in Seq(Msg), NEW m \in Msg, NothingAfterFin(q), m.type # "DATA" \/ ~Has(q, "FIN")
  PROVE  NothingAfterFin(Append(q, m))
<1> SUFFICES ASSUME NEW i \in DOMAIN Append(q, m), NEW j \in DOMAIN Append(q, m), i < j,
                    Append(q, m)[i].type = "FIN"
             PROVE  Append(q, m)[j].type # "DATA"
  BY DEF NothingAfterFin
<1>1. i \in DOMAIN q /\ Append(q, m)[i] = q[i]
  BY Appended
<1>2. CASE j = Len(q) + 1
  BY <1>1, <1>2, Appended DEF Has
<1>3. CASE j # Len(q) + 1
  <2>1. j \in DOMAIN q /\ Append(q, m)[j] = q[j]
    BY <1>3, Appended
  <2> QED BY <1>1, <2>1 DEF NothingAfterFin
<1> QED BY <1>2, <1>3

LEMMA FinTail ==
  ASSUME NEW q \in Seq(Msg), q # <<>>, NothingAfterFin(q)
  PROVE  NothingAfterFin(Tail(q)) /\ (Head(q).type = "FIN" => ~Has(q, "DATA"))
<1>1. NothingAfterFin(Tail(q))
  <2> SUFFICES ASSUME NEW i \in DOMAIN Tail(q), NEW j \in DOMAIN Tail(q), i < j,
                      Tail(q)[i].type = "FIN"
               PROVE  Tail(q)[j].type # "DATA"
    BY DEF NothingAfterFin
  <2>1. /\ i + 1 \in DOMAIN q /\ q[i + 1] = Tail(q)[i] /\ j + 1 \in DOMAIN q /\ q[j + 1] = Tail(q)[j]
        /\ i + 1 < j + 1
    BY Shortened
  <2> QED BY <2>1 DEF NothingAfterFin
<1>2. ASSUME Head(q).type = "FIN", NEW i \in DOMAIN q PROVE q[i].type # "DATA"
  <2>1. 1 \in DOMAIN q /\ q[1] = Head(q) /\ (i = 1 \/ 1 < i)
    BY Shortened
  <2> QED BY <1>2, <2>1 DEF NothingAfterFin
<1> QED BY <1>1, <1>2 DEF Has

LEMMA FollowsSame == \A q : Follows(q, q)
  BY DEF Follows

LEMMA FollowsAppend ==
  ASSUME NEW q \in Seq(Msg), NEW m \in Msg, m.type \notin {"DATA", "FIN"}
  PROVE  Follows(q, Append(q, m))
<1>1. ASSUME NEW a \in Nat, NEW b \in Nat, Run(q, a, b) PROVE Run(Append(q, m), a, b)
  <2>1. \A n \in Nat : Carries(Append(q, m), n) <=> Carries(q, n)
    BY CarriesAppend
  <2>2. ASSUME NEW i \in DOMAIN Append(q, m), Append(q, m)[i].type = "DATA"
        PROVE  i \in DOMAIN q /\ Append(q, m)[i] = q[i]
    BY <2>2, Appended
  <2> QED BY <1>1, <2>1, <2>2 DEF Run
<1>2. Has(Append(q, m), "FIN") => Has(q, "FIN")
  BY HasAppend
<1>3. NothingAfterFin(q) => NothingAfterFin(Append(q, m))
  BY FinAppend
<1> QED BY <1>1, <1>2, <1>3 DEF Follows

LEMMA FollowsTail ==
  ASSUME NEW q \in Seq(Msg), q # <<>>, Head(q).type # "DATA"
  PROVE  Follows(q, Tail(q))
<1>1. ASSUME NEW a \in Nat, NEW b \in Nat, Run(q, a, b) PROVE Run(Tail(q), a, b)
  <2>1. \A n \in Nat : Carries(Tail(q), n) <=> Carries(q, n)
    BY CarriesTail
  <2>2. ASSUME NEW i \in DOMAIN Tail(q) PROVE i + 1 \in DOMAIN q /\ q[i + 1] = Tail(q)[i] /\ i \in Int
    BY Shortened
  <2>3. ASSUME NEW i \in DOMAIN Tail(q), NEW j \in DOMAIN Tail(q), i < j,
               Tail(q)[i].type = "DATA", Tail(q)[j].type = "DATA"
        PROVE  Tail(q)[i].n < Tail(q)[j].n
    <3>1. i + 1 < j + 1
      BY <2>2, <2>3
    <3> QED BY <1>1, <2>2, <2>3, <3>1 DEF Run
  <2> QED BY <1>1, <2>1, <2>3 DEF Run
<1>2. Has(Tail(q), "FIN") => Has(q, "FIN")
  BY HasTail
<1>3. NothingAfterFin(q) => NothingAfterFin(Tail(q))
  BY FinTail
<1> QED BY <1>1, <1>2, <1>3 DEF Follows

-----------------------------------------------------------------------------
(* One direction of the stream: what e sends and the other end writes.     *)

\* The chunk after those the application of p has been given.
Start(p) == Len(written[p]) + (IF writer[p] = "write" THEN 1 ELSE 0)

\* Nothing comes after chunk n, unless e was torn down by a failure.
Complete(e, n) == e \in aborted \/ (reader[e] = "done" /\ n = taken[e])

\* The inbox of the receiver goes up to chunk b.
Arriving(e, b) ==
  /\ Start(Other(e)) <= b
  /\ Run(stream[Other(e)].inbox, Start(Other(e)), b)
  /\ Has(stream[Other(e)].inbox, "FIN") => Complete(e, b)
  /\ e \in aborted \/ NothingAfterFin(stream[Other(e)].inbox)

\* The reader is through with chunk c.
Read(e, c) ==
  /\ reader[e] \in {"none", "wait", "read"} => c = taken[e]
  /\ reader[e] \in {"chunk", "transmit"} => c + 1 = taken[e]
  /\ reader[e] \in {"eof", "done"} => c = taken[e] \/ e \in aborted \/ e \notin bound

\* The link goes on from chunk b to chunk c.
Leaving(e, b, c) ==
  /\ b <= c
  /\ Run(link[Other(e)], b, c)
  /\ Read(e, c)
  /\ writer[e] = "fin" => Complete(e, c)
  /\ Has(link[Other(e)], "FIN") => Complete(e, c)
  /\ e \in aborted \/ NothingAfterFin(link[Other(e)])

Way(e) ==
  writer[Other(e)] # "done" =>
    \E b \in 0..taken[e] :
      /\ Arriving(e, b)
      /\ Other(e) \in table /\ alive => \E c \in 0..taken[e] : Leaving(e, b, c)

Holding(e) == writer[e] = "write" => held[e] = Len(written[e]) + 1

Order == \A e \in Side : Holding(e) /\ Way(e)

LEMMA StartIsNat == ASSUME Shape, NEW p \in Side PROVE Start(p) \in Nat
<1>1. written[p] \in Seq(Nat)
  BY DEF Shape
<1>2. Len(written[p]) \in Nat
  BY <1>1
<1>3. CASE writer[p] = "write"
  BY <1>2, <1>3 DEF Start
<1>4. CASE writer[p] # "write"
  BY <1>2, <1>4 DEF Start
<1> QED BY <1>3, <1>4

\* Nothing happens on the receiving side but that frames other than DATA come and go.
SameArrival(e) ==
  /\ writer'[Other(e)] # "done" => writer[Other(e)] # "done" /\ Start(Other(e))' = Start(Other(e))
  /\ Follows(stream[Other(e)].inbox, stream'[Other(e)].inbox)

SameLink(e) ==
  /\ Other(e) \in table' /\ alive' =>
       Other(e) \in table /\ alive /\ Follows(link[Other(e)], link'[Other(e)])

\* Nothing happens on the sending side that a chunk depends on.
SameSender(e) ==
  /\ taken'[e] = taken[e]
  /\ e \in aborted => e \in aborted'
  /\ reader[e] = "done" => reader'[e] = "done"
  /\ Other(e) \in table' /\ alive' => \A c \in 0..taken[e] : Read(e, c) => Read(e, c)'
  /\ Other(e) \in table' /\ alive' /\ writer'[e] = "fin" =>
       writer[e] = "fin" \/ \A c \in 0..taken[e] : Read(e, c) => Complete(e, c)

LEMMA ArrivingKept ==
  ASSUME Shape, NEW e \in Side, NEW b \in Nat, Arriving(e, b), SameArrival(e),
         writer'[Other(e)] # "done", taken'[e] = taken[e], e \in aborted => e \in aborted',
         reader[e] = "done" => reader'[e] = "done"
  PROVE  Arriving(e, b)'
<1>1. Start(Other(e))' = Start(Other(e)) /\ Start(Other(e)) \in Nat
  BY StartIsNat, Sides DEF SameArrival
<1>2. Complete(e, b) => Complete(e, b)'
  BY DEF Complete
<1>3. Run(stream'[Other(e)].inbox, Start(Other(e)), b)
  BY <1>1 DEF SameArrival, Follows, Arriving
<1>4. Has(stream'[Other(e)].inbox, "FIN") => Complete(e, b)
  BY DEF SameArrival, Follows, Arriving
<1>5. e \in aborted' \/ NothingAfterFin(stream'[Other(e)].inbox)
  BY DEF SameArrival, Follows, Arriving
<1>6. Start(Other(e)) <= b
  BY DEF Arriving
<1> QED BY <1>1, <1>2, <1>3, <1>4, <1>5, <1>6 DEF Arriving

LEMMA WayKept ==
  ASSUME Shape, NEW e \in Side, Way(e), SameArrival(e), SameLink(e), SameSender(e)
  PROVE  Way(e)'
<1> SUFFICES ASSUME writer'[Other(e)] # "done"
    PROVE \E b \in 0..taken'[e] :
            /\ Arriving(e, b)'
            /\ Other(e) \in table' /\ alive' => \E c \in 0..taken'[e] : Leaving(e, b, c)'
  BY DEF Way
<1>1. taken'[e] = taken[e] /\ taken[e] \in Nat
  BY DEF SameSender, Shape
<1>2. PICK b \in 0..taken[e] :
        /\ Arriving(e, b)
        /\ Other(e) \in table /\ alive => \E c \in 0..taken[e] : Leaving(e, b, c)
  BY DEF Way, SameArrival
<1>3. b \in Nat
  BY <1>1, <1>2
<1>4. Arriving(e, b)'
  BY <1>2, <1>3, ArrivingKept DEF SameSender
<1>5. ASSUME Other(e) \in table', alive' PROVE \E c \in 0..taken'[e] : Leaving(e, b, c)'
  <2>1. PICK c \in 0..taken[e] : Leaving(e, b, c)
    BY <1>2, <1>5 DEF SameLink
  <2>2. c \in Nat
    BY <1>1, <2>1
  <2>3. Follows(link[Other(e)], link'[Other(e)])
    BY <1>5 DEF SameLink
  <2>4. Complete(e, c) => Complete(e, c)'
    BY DEF Complete, SameSender
  <2>5. Run(link'[Other(e)], b, c)
    BY <1>3, <2>1, <2>2, <2>3 DEF Follows, Leaving
  <2>6. Read(e, c)'
    BY <1>5, <2>1 DEF SameSender, Leaving
  <2>7. (writer'[e] = "fin" => Complete(e, c)') /\ (Has(link'[Other(e)], "FIN") => Complete(e, c)')
    BY <1>5, <2>1, <2>3, <2>4 DEF Follows, Leaving, SameSender
  <2>8. e \in aborted' \/ NothingAfterFin(link'[Other(e)])
    BY <2>1, <2>3 DEF Follows, Leaving, SameSender
  <2>9. b <= c
    BY <2>1 DEF Leaving
  <2>10. Leaving(e, b, c)'
    BY <2>5, <2>6, <2>7, <2>8, <2>9 DEF Leaving
  <2> QED BY <1>1, <2>10
<1> QED BY <1>1, <1>4, <1>5

\* What most steps do to the links, the inboxes, the writers and the readers.
LinksFollow == \A x \in Side : alive' => Follows(link[x], link'[x])
InboxesFollow == \A x \in Side : Follows(stream[x].inbox, stream'[x].inbox)

WritersStay ==
  \A x \in Side :
    /\ written'[x] = written[x]
    /\ writer'[x] # "done" => writer[x] # "done" /\ (writer'[x] = "write" <=> writer[x] = "write")
    /\ writer'[x] = "write" => held'[x] = held[x]
    /\ writer'[x] = "fin" => writer[x] = "fin"

ReadersStay ==
  \A x \in Side :
    /\ taken'[x] = taken[x]
    /\ reader[x] = "done" => reader'[x] = "done"
    /\ alive' => \A c \in 0..taken[x] : Read(x, c) => Read(x, c)'

NothingReturns ==
  /\ \A x \in Side : x \in table' => x \in table
  /\ \A x \in Side : x \in aborted => x \in aborted'
  /\ alive' => alive

LEMMA WayStays ==
  ASSUME Shape, Order, LinksFollow, InboxesFollow, WritersStay, ReadersStay, NothingReturns,
         NEW e \in Side
  PROVE  Way(e)'
<1>1. Other(e) \in Side
  BY Sides
<1>2. SameArrival(e)
  BY <1>1 DEF SameArrival, Start, InboxesFollow, WritersStay
<1>3. SameLink(e)
  BY <1>1 DEF SameLink, LinksFollow, NothingReturns
<1>4. SameSender(e)
  BY <1>1 DEF SameSender, ReadersStay, WritersStay, NothingReturns
<1> QED BY <1>2, <1>3, <1>4, WayKept DEF Order

LEMMA OrderStays ==
  ASSUME Shape, Order, LinksFollow, InboxesFollow, WritersStay, ReadersStay, NothingReturns
  PROVE  Order'
<1>1. \A e \in Side : Holding(e)'
  BY DEF Order, Holding, WritersStay
<1> QED BY <1>1, WayStays DEF Order

LEMMA SameFollows ==
  /\ UNCHANGED link => LinksFollow
  /\ (\A x \in Side : stream'[x].inbox = stream[x].inbox) => InboxesFollow
  BY FollowsSame DEF LinksFollow, InboxesFollow

LEMMA TransmitFollows ==
  ASSUME Shape, NEW e \in Side, NEW f \in Msg, Transmit(e, f), f.type \notin {"DATA", "FIN"}
  PROVE  LinksFollow
<1> SUFFICES ASSUME NEW x \in Side PROVE Follows(link[x], link'[x])
  BY DEF LinksFollow
<1>1. link[x] \in Seq(Msg)
  BY DEF Shape
<1>2. link'[x] = link[x] \/ link'[x] = Append(link[x], f)
  BY Sides DEF Transmit, Shape
<1> QED BY <1>1, <1>2, FollowsSame, FollowsAppend

LEMMA PopFollows ==
  ASSUME Shape, NEW e \in Side, NEW t, Arrives(e, t), t # "DATA", link' = Pop(e)
  PROVE  LinksFollow
<1> SUFFICES ASSUME NEW x \in Side PROVE Follows(link[x], link'[x])
  BY DEF LinksFollow
<1>1. link[x] \in Seq(Msg)
  BY DEF Shape
<1>2. link'[x] = link[x] \/ (link'[x] = Tail(link[x]) /\ link[x] # <<>> /\ Head(link[x]).type # "DATA")
  BY DEF Pop, Arrives, Shape
<1> QED BY <1>1, <1>2, FollowsSame, FollowsTail

LEMMA TakingFollows ==
  ASSUME Shape, NEW e \in Side, NEW t, Taking(e, t), t # "DATA",
         stream'[e].inbox = Tail(stream[e].inbox),
         \A x \in Side : x # e => stream'[x] = stream[x]
  PROVE  InboxesFollow
<1>1. stream[e].inbox \in Seq(Msg) /\ stream[e].inbox # <<>> /\ Head(stream[e].inbox).type = t
  BY StreamFields DEF Shape, Taking
<1>2. Follows(stream[e].inbox, stream'[e].inbox)
  BY <1>1, FollowsTail
<1> QED BY <1>2, FollowsSame DEF InboxesFollow

LEMMA RemoveFollows ==
  ASSUME Shape, NEW e \in Side, NEW f \in {"none", "FIN", "SYN_ACK"}, Remove(e, f, stream)
  PROVE  InboxesFollow /\ \A x \in Side : x \in table' => x \in table
<1>1. stream \in Streams
  BY DEF Shape
<1>2. \A x \in Side : stream'[x].inbox = stream[x].inbox
  BY <1>1, RemoveEffect
<1>3. table' = table \ {e}
  BY <1>1, RemoveEffect
<1> QED BY <1>2, <1>3, SameFollows

\* Before the target exists there is nothing to put in order.
Untouched ==
  \A x \in Side :
    /\ taken[x] = 0 /\ written[x] = <<>>
    /\ writer[x] \notin {"write", "fin"} /\ reader[x] \in {"none", "wait", "done"}
    /\ stream[x].inbox = <<>>
    /\ link[x] \in Seq(Msg) /\ ~Has(link[x], "DATA") /\ ~Has(link[x], "FIN")

LEMMA UntouchedOrder == Untouched => Order
<1> SUFFICES ASSUME Untouched, NEW e \in Side PROVE Holding(e) /\ Way(e)
  BY DEF Order
<1>1. Other(e) \in Side
  BY Sides
<1>2. Start(Other(e)) = 0
  <2>1. written[Other(e)] = <<>> /\ writer[Other(e)] # "write"
    BY <1>1 DEF Untouched
  <2>2. Start(Other(e)) = Len(<<>>) + 0
    BY <2>1 DEF Start
  <2> QED BY <2>2
<1>3. Arriving(e, 0)
  BY <1>1, <1>2, RunNone, HasNone DEF Untouched, Arriving
<1>4. NothingAfterFin(link[Other(e)]) /\ Run(link[Other(e)], 0, 0)
  <2>1. /\ link[Other(e)] \in Seq(Msg) /\ ~Has(link[Other(e)], "DATA")
    BY <1>1 DEF Untouched
  <2>2. Run(link[Other(e)], 0, 0)
    BY <2>1, RunNothing
  <2>3. NothingAfterFin(link[Other(e)])
    BY <2>1 DEF NothingAfterFin, Has
  <2> QED BY <2>2, <2>3
<1>5. Leaving(e, 0, 0)
  BY <1>1, <1>4 DEF Untouched, Leaving, Read
<1>6. 0 \in 0..taken[e]
  BY DEF Untouched
<1> QED BY <1>3, <1>5, <1>6 DEF Way, Holding, Untouched

LEMMA UntouchedOrderNext == Untouched' => Order'
  BY UntouchedOrder, PTL

LEMMA RunOther ==
  ASSUME NEW q \in Seq(Msg), NEW a \in Nat, NEW b \in Nat, Run(q, a, b),
         NEW m \in Msg, m.type # "DATA"
  PROVE  Run(Append(q, m), a, b)
<1>1. \A n \in Nat : Carries(Append(q, m), n) <=> Carries(q, n)
  BY CarriesAppend
<1>2. ASSUME NEW i \in DOMAIN Append(q, m), Append(q, m)[i].type = "DATA"
      PROVE  i \in DOMAIN q /\ Append(q, m)[i] = q[i]
  BY <1>2, Appended
<1> QED BY <1>1, <1>2 DEF Run

\* The frame that carries a chunk, and the FIN after the last one.
LEMMA WayTransmit ==
  ASSUME Shape, NEW e \in Side, Way(e), NEW f \in Msg, Transmit(e, f),
         f.type = "DATA", f.n = taken[e], reader[e] = "transmit",
         alive => reader'[e] = "read", writer'[e] = writer[e],
         UNCHANGED <<taken, aborted, written, stream, table, alive>>,
         writer'[Other(e)] = writer[Other(e)]
  PROVE  Way(e)'
<1> SUFFICES ASSUME writer'[Other(e)] # "done"
    PROVE \E b \in 0..taken'[e] :
            /\ Arriving(e, b)'
            /\ Other(e) \in table' /\ alive' => \E c \in 0..taken'[e] : Leaving(e, b, c)'
  BY DEF Way
<1>1. taken[e] \in Nat /\ link[Other(e)] \in Seq(Msg)
  BY Sides DEF Shape
<1>2. PICK b \in 0..taken[e] :
        /\ Arriving(e, b)
        /\ Other(e) \in table /\ alive => \E c \in 0..taken[e] : Leaving(e, b, c)
  BY DEF Way
<1>3. Arriving(e, b)'
  <2>1. Start(Other(e))' = Start(Other(e))
    BY DEF Start
  <2>2. Complete(e, b) => Complete(e, b)'
    BY DEF Complete
  <2> QED BY <1>2, <2>1, <2>2 DEF Arriving
<1>4. ASSUME Other(e) \in table', alive' PROVE Leaving(e, b, taken[e])'
  <2>1. PICK c \in 0..taken[e] : Leaving(e, b, c)
    BY <1>2, <1>4
  <2>2. c \in Nat /\ b \in Nat /\ b <= c /\ c + 1 = taken[e]
    BY <1>1, <1>2, <2>1 DEF Leaving, Read
  <2>3. link'[Other(e)] = Append(link[Other(e)], f)
    BY <1>4, Sides DEF Transmit, Shape
  <2>4. Run(link'[Other(e)], b, c + 1)
    BY <1>1, <2>1, <2>2, <2>3, RunData DEF Leaving
  <2>5. Has(link'[Other(e)], "FIN") => Has(link[Other(e)], "FIN")
    BY <1>1, <2>3, HasAppend
  <2>6. e \in aborted \/ (~Has(link[Other(e)], "FIN") /\ writer[e] # "fin")
    BY <2>1 DEF Leaving, Complete
  <2>7. e \in aborted \/ NothingAfterFin(link'[Other(e)])
    BY <1>1, <2>1, <2>3, <2>6, FinAppend DEF Leaving
  <2>8. Read(e, taken[e])'
    BY <1>4 DEF Read
  <2>9. e \in aborted' \/ (~Has(link'[Other(e)], "FIN") /\ writer'[e] # "fin")
    BY <2>5, <2>6
  <2>10. Run(link'[Other(e)], b, taken[e])
    BY <2>2, <2>4
  <2>11. b <= taken[e]
    BY <1>1, <2>2
  <2> QED BY <2>7, <2>8, <2>9, <2>10, <2>11 DEF Leaving, Complete
<1>5. taken[e] \in 0..taken'[e] /\ b \in 0..taken'[e] /\ taken'[e] = taken[e]
  BY <1>1, <1>2
<1> QED BY <1>3, <1>4, <1>5

LEMMA WayFin ==
  ASSUME Shape, NEW e \in Side, Way(e), Transmit(e, Fin),
         \A b, c \in 0..taken[e] : Leaving(e, b, c) => Complete(e, c),
         UNCHANGED <<reader, taken, aborted, table, alive>>,
         stream'[Other(e)].inbox = stream[Other(e)].inbox,
         e \notin bound => e \notin bound', SameArrival(e)
  PROVE  Way(e)'
<1> SUFFICES ASSUME writer'[Other(e)] # "done"
    PROVE \E b \in 0..taken'[e] :
            /\ Arriving(e, b)'
            /\ Other(e) \in table' /\ alive' => \E c \in 0..taken'[e] : Leaving(e, b, c)'
  BY DEF Way
<1>1. taken[e] \in Nat /\ link[Other(e)] \in Seq(Msg) /\ taken'[e] = taken[e]
  BY Sides DEF Shape
<1>2. PICK b \in 0..taken[e] :
        /\ Arriving(e, b)
        /\ Other(e) \in table /\ alive => \E c \in 0..taken[e] : Leaving(e, b, c)
  BY DEF Way, SameArrival
<1>3. b \in Nat
  BY <1>1, <1>2
<1>4. Arriving(e, b)'
  BY <1>2, <1>3, ArrivingKept
<1>5. ASSUME Other(e) \in table', alive' PROVE \E c \in 0..taken'[e] : Leaving(e, b, c)'
  <2>1. PICK c \in 0..taken[e] : Leaving(e, b, c)
    BY <1>2, <1>5
  <2>2. c \in Nat
    BY <1>1, <2>1
  <2>3. link'[Other(e)] = Append(link[Other(e)], Fin)
    BY <1>5, Sides DEF Transmit, Shape
  <2>4. Run(link'[Other(e)], b, c) /\ b <= c
    <3>1. Fin \in Msg /\ Fin.type = "FIN"
      BY MsgTypes
    <3>2. Run(link[Other(e)], b, c) /\ b <= c
      BY <2>1 DEF Leaving
    <3> QED BY <1>1, <1>3, <2>2, <2>3, <3>1, <3>2, RunOther
  <2>5. Complete(e, c)'
    BY <1>2, <2>1 DEF Complete
  <2>6. Read(e, c)'
    <3>1. Read(e, c)
      BY <2>1 DEF Leaving
    <3> QED BY <3>1 DEF Read
  <2>7. e \in aborted' \/ NothingAfterFin(link'[Other(e)])
    <3>1. Fin \in Msg /\ Fin.type # "DATA"
      BY MsgTypes
    <3> QED BY <1>1, <2>1, <2>3, <3>1, FinAppend DEF Leaving
  <2>8. Leaving(e, b, c)'
    BY <2>4, <2>5, <2>6, <2>7 DEF Leaving
  <2> QED BY <1>1, <2>1, <2>8
<1> QED BY <1>1, <1>4, <1>5

\* A chunk or the FIN moves from the link to the inbox.
LEMMA WayQueued ==
  ASSUME Shape, NEW e \in Side, Way(e), NEW m \in Msg, m.type \in {"DATA", "FIN"},
         Other(e) \in table, alive, Arrives(Other(e), m.type), m = Head(link[Other(e)]),
         link'[Other(e)] = Tail(link[Other(e)]),
         stream'[Other(e)].inbox = Append(stream[Other(e)].inbox, m),
         UNCHANGED <<reader, writer, taken, aborted, written, bound, table, alive>>
  PROVE  Way(e)'
<1> DEFINE l == link[Other(e)]
           q == stream[Other(e)].inbox
<1> SUFFICES ASSUME writer'[Other(e)] # "done"
    PROVE \E b \in 0..taken'[e] :
            /\ Arriving(e, b)'
            /\ Other(e) \in table' /\ alive' => \E c \in 0..taken'[e] : Leaving(e, b, c)'
  BY DEF Way
<1>1. /\ taken[e] \in Nat /\ l \in Seq(Msg) /\ taken'[e] = taken[e]
      /\ q \in Seq(Msg) /\ l # <<>> /\ Head(l).type = m.type
      /\ Tail(l) \in Seq(Msg)
  BY Sides, StreamFields, MsgSeq DEF Shape, Arrives
<1>2. PICK b \in 0..taken[e] : Arriving(e, b) /\ \E c \in 0..taken[e] : Leaving(e, b, c)
  BY DEF Way
<1>3. PICK c \in 0..taken[e] : Leaving(e, b, c)
  BY <1>2
<1>4. b \in Nat /\ c \in Nat /\ Start(Other(e)) \in Nat /\ Start(Other(e))' = Start(Other(e))
  <2>1. Start(Other(e)) \in Nat
    BY StartIsNat, Sides
  <2>2. Start(Other(e))' = Start(Other(e))
    BY DEF Start
  <2> QED BY <1>1, <1>2, <1>3, <2>1, <2>2
<1>5. \A n : (Complete(e, n) <=> Complete(e, n)') /\ (Read(e, n) <=> Read(e, n)')
  BY DEF Complete, Read
<1>6. /\ Start(Other(e)) <= b /\ Run(q, Start(Other(e)), b) /\ (Has(q, "FIN") => Complete(e, b))
      /\ e \in aborted \/ NothingAfterFin(q)
  BY <1>2 DEF Arriving
<1>7. /\ b <= c /\ Run(l, b, c) /\ Read(e, c) /\ (writer[e] = "fin" => Complete(e, c))
      /\ Has(l, "FIN") => Complete(e, c)
      /\ e \in aborted \/ NothingAfterFin(l)
  BY <1>3 DEF Leaving
<1>8. (Has(Tail(l), "FIN") => Complete(e, c)) /\ (e \in aborted \/ NothingAfterFin(Tail(l)))
  BY <1>1, <1>7, HasTail, FinTail
<1>9. CASE m.type = "DATA"
  <2>1. m.n = b + 1 /\ b + 1 <= c /\ Run(Tail(l), b + 1, c)
    BY <1>1, <1>4, <1>7, <1>9, RunTail
  <2>2. Run(Append(q, m), Start(Other(e)), b + 1)
    BY <1>1, <1>4, <1>6, <1>9, <2>1, RunData
  <2>3. e \in aborted \/ ~Has(q, "FIN")
    BY <1>1, <1>3, <1>4, <1>6, <2>1 DEF Complete
  <2>4. Has(Append(q, m), "FIN") => e \in aborted
    BY <1>1, <1>9, <2>3, HasAppend
  <2>5. e \in aborted \/ NothingAfterFin(Append(q, m))
    BY <1>1, <1>6, <2>3, FinAppend
  <2>6. Arriving(e, b + 1)'
    BY <1>4, <1>6, <2>2, <2>4, <2>5 DEF Arriving, Complete
  <2>7. Leaving(e, b + 1, c)'
    BY <1>5, <1>7, <1>8, <2>1 DEF Leaving
  <2>8. b + 1 \in 0..taken'[e] /\ c \in 0..taken'[e]
    BY <1>1, <1>3, <1>4, <2>1
  <2> QED BY <2>6, <2>7, <2>8
<1>10. CASE m.type = "FIN"
  <2>1. e \in aborted \/ ~Has(l, "DATA")
    BY <1>1, <1>7, <1>10, FinTail
  <2>2. e \in aborted \/ b = c
    BY <1>1, <1>4, <1>7, <2>1, RunEmpty
  <2>3. Has(l, "FIN")
    BY <1>1, <1>10, HasTail
  <2>4. Complete(e, b)
    BY <1>7, <2>2, <2>3 DEF Complete
  <2>5. Run(Append(q, m), Start(Other(e)), b)
    BY <1>1, <1>4, <1>6, <1>10, RunOther
  <2>6. e \in aborted \/ NothingAfterFin(Append(q, m))
    BY <1>1, <1>6, <1>10, FinAppend
  <2>7. Arriving(e, b)'
    BY <1>4, <1>5, <1>6, <2>4, <2>5, <2>6 DEF Arriving
  <2>8. Run(Tail(l), b, c)
    BY <1>1, <1>4, <1>7, <1>10, FollowsTail DEF Follows
  <2>9. Leaving(e, b, c)'
    BY <1>5, <1>7, <1>8, <2>8 DEF Leaving
  <2> QED BY <1>1, <2>7, <2>9
<1> QED BY <1>9, <1>10

\* The writer takes a chunk from the inbox.
LEMMA WayTaken ==
  ASSUME Shape, NEW e \in Side, Way(e), Taking(Other(e), "DATA"),
         stream'[Other(e)].inbox = Tail(stream[Other(e)].inbox),
         writer[Other(e)] = "loop", writer'[Other(e)] \in {"write", "done"}, writer'[e] = writer[e],
         UNCHANGED <<reader, taken, aborted, written, bound, table, alive, link>>
  PROVE  /\ Way(e)'
         /\ Head(stream[Other(e)].inbox).n = Len(written[Other(e)]) + 1
<1> DEFINE q == stream[Other(e)].inbox
<1>1. /\ taken[e] \in Nat /\ taken'[e] = taken[e]
      /\ q \in Seq(Msg) /\ q # <<>> /\ Head(q).type = "DATA"
  BY Sides, StreamFields DEF Shape, Taking
<1>2. PICK b \in 0..taken[e] :
        /\ Arriving(e, b)
        /\ Other(e) \in table /\ alive => \E c \in 0..taken[e] : Leaving(e, b, c)
  BY DEF Way
<1>3. /\ b \in Nat /\ Start(Other(e)) \in Nat
      /\ Start(Other(e)) = Len(written[Other(e)])
  <2>1. Len(written[Other(e)]) \in Nat
    <3>1. written[Other(e)] \in Seq(Nat)
      BY Sides DEF Shape
    <3> QED BY <3>1
  <2>2. Start(Other(e)) = Len(written[Other(e)]) + 0
    BY DEF Start
  <2> QED BY <1>1, <1>2, <2>1, <2>2
<1>4. \A n : (Complete(e, n) <=> Complete(e, n)') /\ (Read(e, n) <=> Read(e, n)')
  BY DEF Complete, Read
<1>5. /\ Start(Other(e)) <= b /\ Run(q, Start(Other(e)), b) /\ (Has(q, "FIN") => Complete(e, b))
      /\ e \in aborted \/ NothingAfterFin(q)
  BY <1>2 DEF Arriving
<1>6. Head(q).n = Start(Other(e)) + 1 /\ Start(Other(e)) + 1 <= b
      /\ Run(Tail(q), Start(Other(e)) + 1, b)
  BY <1>1, <1>3, <1>5, RunTail
<1>7. (Has(Tail(q), "FIN") => Complete(e, b)) /\ (e \in aborted \/ NothingAfterFin(Tail(q)))
  BY <1>1, <1>5, HasTail, FinTail
<1>8. Way(e)'
  <2> SUFFICES ASSUME writer'[Other(e)] = "write" PROVE
            /\ Arriving(e, b)'
            /\ Other(e) \in table' /\ alive' => \E c \in 0..taken'[e] : Leaving(e, b, c)'
    BY <1>1, <1>2 DEF Way
  <2>1. Start(Other(e))' = Start(Other(e)) + 1
    BY <1>3 DEF Start
  <2>2. Arriving(e, b)'
    BY <1>4, <1>6, <1>7, <2>1 DEF Arriving
  <2>3. \A c : Leaving(e, b, c) => Leaving(e, b, c)'
    BY <1>4 DEF Leaving
  <2> QED BY <1>1, <1>2, <2>2, <2>3
<1> QED BY <1>3, <1>6, <1>8

\* The reader takes one more chunk from the application.
LEMMA WayRead ==
  ASSUME Shape, NEW e \in Side, Way(e), reader[e] = "read", reader'[e] = "chunk",
         taken'[e] = taken[e] + 1,
         UNCHANGED <<writer, aborted, written, bound, table, alive, link, stream>>
  PROVE  Way(e)'
<1> SUFFICES ASSUME writer'[Other(e)] # "done"
    PROVE \E b \in 0..taken'[e] :
            /\ Arriving(e, b)'
            /\ Other(e) \in table' /\ alive' => \E c \in 0..taken'[e] : Leaving(e, b, c)'
  BY DEF Way
<1>1. taken[e] \in Nat
  BY DEF Shape
<1>2. PICK b \in 0..taken[e] :
        /\ Arriving(e, b)
        /\ Other(e) \in table /\ alive => \E c \in 0..taken[e] : Leaving(e, b, c)
  BY DEF Way
<1>3. \A n : Complete(e, n) => Complete(e, n)'
  BY DEF Complete
<1>4. Start(Other(e))' = Start(Other(e))
  BY DEF Start
<1>5. Arriving(e, b)'
  BY <1>2, <1>3, <1>4 DEF Arriving
<1>6. \A c \in Nat : Read(e, c) => Read(e, c)'
  BY <1>1 DEF Read
<1>7. \A c \in Nat : Leaving(e, b, c) => Leaving(e, b, c)'
  BY <1>3, <1>6 DEF Leaving
<1>8. \A c \in 0..taken[e] : c \in Nat /\ c \in 0..taken'[e]
  BY <1>1
<1> QED BY <1>2, <1>5, <1>7, <1>8

\* Every step keeps Order.
LEMMA OrderStep == Shape /\ FreshInv /\ Life /\ Answer /\ Ending /\ Order /\
   [Next]_vars => Order'
<1> SUFFICES ASSUME Shape, FreshInv, Life, Answer, Ending, Order, [Next]_vars
   PROVE Order'
  OBVIOUS
<1> USE DEF streamVars, goroutines, session, history
<1>1. CASE Accept
  <2>1. Fresh
    BY <1>1 DEF Accept, Fresh
  <2>2. /\ reader["opener"] = "none" /\ reader["target"] = "none"
        /\ writer["opener"] = "none" /\ writer["target"] = "none"
        /\ stream["target"] = NewStream("none")
        /\ link["opener"] = <<>> /\ link["target"] = <<>>
        /\ taken = [x \in Side |-> 0] /\ written = [x \in Side |-> <<>>]
    BY <1>1, <2>1 DEF Accept, FreshInv
  <2>3. /\ stream'["opener"] = NewStream("open") /\ stream'["target"] = NewStream("none")
        /\ writer'["opener"] = "loop" /\ writer'["target"] = "none"
        /\ UNCHANGED <<reader, taken, written, link>>
    BY <1>1, <2>2, Sides DEF Accept, Streams, Shape
  <2>4. NewStream("open").inbox = <<>> /\ NewStream("none").inbox = <<>> /\ <<>> \in Seq(Msg)
    BY MsgSeq DEF NewStream
  <2>5. Untouched'
    BY ZenonT(40), <2>2, <2>3, <2>4, HasNone, Sides DEF Untouched
  <2> QED BY <2>5, UntouchedOrderNext
<1>2. CASE SendConnect
  <2>11. LinksFollow
    
    <3>1. UNCHANGED link \/ Transmit("opener", Connect)
      BY <1>2 DEF SendConnect
    <3>2. Connect \in Msg /\ Connect.type \notin {"DATA", "FIN"}
      BY MsgTypes
    <3> QED BY <3>1, <3>2, TransmitFollows, SameFollows, Sides
  <2>12. InboxesFollow
    BY <1>2, SameFollows, RemoveFollows, Sides DEF SendConnect, DropUnsent
  <2>13. WritersStay
    BY <1>2 DEF SendConnect, WritersStay
  <2>14. ReadersStay
    
    <3>1. taken' = taken /\ reader["opener"] = "none" /\ reader'["opener"] \in {"none", "wait"}
          /\ reader'["target"] = reader["target"] /\ aborted' = aborted
          /\ \A x \in Side : x \in bound' => x \in bound \/ x = "opener"
      BY <1>2, Sides DEF SendConnect, FreshInv, Shape
    <3> QED BY <3>1, Sides DEF ReadersStay, Read
  <2>15. NothingReturns
    
    <3>1. \A x \in Side : x \in table' => x \in table
      BY <1>2, RemoveFollows, Sides DEF SendConnect, DropUnsent
    <3> QED BY <1>2, <3>1 DEF SendConnect, NothingReturns
  <2> QED BY <2>11, <2>12, <2>13, <2>14, <2>15, OrderStays
<1>3. CASE BindConnect
  <2>11. LinksFollow
    BY <1>3, PopFollows, Sides DEF BindConnect
  <2>12. InboxesFollow
    BY <1>3, SameFollows DEF BindConnect
  <2>13. WritersStay
    BY <1>3 DEF BindConnect, WritersStay
  <2>14. ReadersStay
    
    <3>1. reader["target"] = "none" /\ UNCHANGED <<reader, taken, aborted>>
          /\ \A x \in Side : x \in bound' => x \in bound \/ x = "target"
      <4>1. Fresh
        BY <1>3, HasTail, Sides DEF BindConnect, Arrives, Fresh, Shape
      <4> QED BY <1>3, <4>1 DEF BindConnect, FreshInv
    <3> QED BY <3>1, Sides DEF ReadersStay, Read
  <2>15. NothingReturns
    BY <1>3 DEF BindConnect, NothingReturns
  <2> QED BY <2>11, <2>12, <2>13, <2>14, <2>15, OrderStays
<1>4. CASE HandleConnect
  <2>1. receiving = "bound" /\ Fresh
    BY <1>4 DEF HandleConnect, Fresh
  <2>2. /\ reader["opener"] \in {"none", "wait", "done"} /\ reader["target"] = "none"
        /\ writer["opener"] \in {"none", "loop", "done"} /\ writer["target"] = "none"
        /\ stream["target"] = NewStream("none") /\ stream["opener"].inbox = <<>>
        /\ link["opener"] = <<>> /\ link["target"] = <<>>
        /\ taken = [x \in Side |-> 0] /\ written = [x \in Side |-> <<>>]
    BY <2>1 DEF FreshInv
  <2>3. UNCHANGED <<reader, taken, written>>
    BY <1>4 DEF HandleConnect
  <2>4. /\ stream'["target"] = NewStream("none") /\ stream'["opener"] = stream["opener"]
        /\ writer'["target"] \in {"none", "loop"} /\ writer'["opener"] = writer["opener"]
    <3>1. \/ /\ stream' = [stream EXCEPT !["target"] = NewStream("none")]
             /\ writer' = [writer EXCEPT !["target"] = "loop"]
          \/ UNCHANGED <<stream, writer>>
      BY <1>4 DEF HandleConnect
    <3> QED BY <2>2, <3>1, Sides DEF Streams, Shape
  <2>5. \A x \in Side : link'[x] \in Seq(Msg) /\ ~Has(link'[x], "DATA") /\ ~Has(link'[x], "FIN")
    <3>1. \A x \in Side : link[x] = <<>> /\ <<>> \in Seq(Msg)
      BY <2>2, Sides, MsgSeq
    <3>2. CASE SendIfBound("target", Negative)
      <4>1. \A x \in Side : link'[x] \in Seq(Msg)
        BY <3>2, SendShape, Answers, Sides
      <4>2. ASSUME NEW x \in Side, NEW t \in {"DATA", "FIN"} PROVE ~Has(link'[x], t)
        <5>1. Has(link'[x], t) => Has(link[x], t) \/ Negative.type = t
          BY <3>2, SendHas, Answers, Sides
        <5>2. ~Has(<<>>, t) /\ Negative.type # t
          BY HasNone, Answers
        <5> QED BY <3>1, <5>1, <5>2
      <4> QED BY <4>1, <4>2
    <3>3. CASE UNCHANGED link
      BY <3>1, <3>3, HasNone
    <3> QED BY <1>4, <3>2, <3>3 DEF HandleConnect, RejectConnect, Negative
  <2>6. NewStream("none").inbox = <<>>
    BY DEF NewStream
  <2>7. Untouched'
    BY <2>2, <2>3, <2>4, <2>5, <2>6, Sides DEF Untouched
  <2> QED BY <2>7, UntouchedOrderNext
<1>5. ASSUME NEW e \in Side, HandleSynAck(e) PROVE Order'
  <2>11. LinksFollow
    BY <1>5, PopFollows DEF HandleSynAck
  <2>12. InboxesFollow
    
    <3>1. CASE Remove(e, "none", stream)
      BY <3>1, RemoveFollows
    <3>2. CASE stream' = [stream EXCEPT ![e].ready = @ \/ e \in table]
      <4>1. \A x \in Side : stream'[x].inbox = stream[x].inbox
        BY <3>2 DEF Shape, Streams, Stream
      <4> QED BY <4>1, SameFollows
    <3> QED BY <1>5, <3>1, <3>2 DEF HandleSynAck
  <2>13. WritersStay
    BY <1>5 DEF HandleSynAck, WritersStay
  <2>14. ReadersStay
    BY <1>5 DEF HandleSynAck, ReadersStay, Read
  <2>15. NothingReturns
    
    <3>1. \A x \in Side : x \in table' => x \in table
      BY <1>5, RemoveFollows DEF HandleSynAck
    <3> QED BY <1>5, <3>1 DEF HandleSynAck, NothingReturns
  <2> QED BY <2>11, <2>12, <2>13, <2>14, <2>15, OrderStays
<1>6. ASSUME NEW e \in Side, HandleQueued(e) PROVE Order'
  <2> DEFINE p == Other(e)
  <2>0. p \in Side /\ p # e /\ Other(p) = e /\ \A x \in Side : x = e \/ x = p
    BY Sides
  <2> HIDE DEF p
  <2>1. UNCHANGED <<reader, writer, held, taken, written, aborted, bound, table, alive>>
    BY <1>6 DEF HandleQueued
  <2>2. /\ Head(link[e]) \in Msg /\ link' = Pop(e) /\ Arrives(e, Head(link[e]).type)
        /\ Head(link[e]).type \in {"DATA", "FIN"}
        /\ IF e \in table THEN Enqueue(e, Head(link[e])) ELSE UNCHANGED stream
    BY <1>6, PopShape DEF HandleQueued, Arrives
  <2>3. link'[e] = Tail(link[e]) /\ link'[p] = link[p]
    BY <2>0, <2>2 DEF Pop, Shape
  <2>4. stream'[p] = stream[p] /\ (e \in table => stream'[e].inbox = Append(stream[e].inbox, Head(link[e])))
    BY <2>0, <2>2, PutEffect DEF Life
  <2>5. \A x \in Side : Holding(x)'
    BY <2>1 DEF Order, Holding
  <2>6. Way(e)'
    <3>1. Way(e)
      BY <2>0 DEF Order
    <3>2. SameArrival(e)
      BY <2>0, <2>1, <2>4, FollowsSame DEF SameArrival, Start, p
    <3>3. SameLink(e)
      BY <2>0, <2>1, <2>3, FollowsSame DEF SameLink, p
    <3>4. SameSender(e)
      BY <2>0, <2>1 DEF SameSender, Read
    <3> QED BY <2>0, <3>1, <3>2, <3>3, <3>4, WayKept
  <2>7. Way(p)'
    <3>1. CASE e \in table
      <4>1. alive
        BY <2>2, DeadLink
      <4>2. Way(p)
        BY <2>0 DEF Order
      <4> QED BY <2>0, <2>1, <2>2, <2>3, <2>4, <3>1, <4>1, <4>2, WayQueued
    <3>2. CASE e \notin table
      <4>1. Way(p)
        BY <2>0 DEF Order
      <4>2. stream' = stream
        BY <2>2, <3>2
      <4>3. SameArrival(p)
        BY <2>0, <2>1, <4>2, FollowsSame DEF SameArrival, Start
      <4>4. SameLink(p)
        BY <2>0, <2>1, <3>2 DEF SameLink
      <4>5. SameSender(p)
        BY <2>0, <2>1 DEF SameSender, Read
      <4> QED BY <2>0, <4>1, <4>3, <4>4, <4>5, WayKept
    <3> QED BY <3>1, <3>2
  <2> QED BY <2>0, <2>5, <2>6, <2>7 DEF Order
<1>7. ASSUME NEW e \in Side, HandleDataAck(e) PROVE Order'
  <2>11. LinksFollow
    BY <1>7, PopFollows DEF HandleDataAck
  <2>12. InboxesFollow
    BY <1>7, HandleDataAckEffect, SameFollows
  <2>13. WritersStay
    BY <1>7 DEF HandleDataAck, WritersStay
  <2>14. ReadersStay
    BY <1>7 DEF HandleDataAck, ReadersStay, Read
  <2>15. NothingReturns
    BY <1>7 DEF HandleDataAck, NothingReturns
  <2> QED BY <2>11, <2>12, <2>13, <2>14, <2>15, OrderStays
<1>8. CASE DialSucceeds
  <2>11. LinksFollow
    BY <1>8, SameFollows DEF DialSucceeds
  <2>12. InboxesFollow
    BY <1>8, DialSucceedsEffect, SameFollows, Sides
  <2>13. WritersStay
    BY <1>8 DEF DialSucceeds, WritersStay
  <2>14. ReadersStay
    BY <1>8 DEF DialSucceeds, ReadersStay, Read
  <2>15. NothingReturns
    BY <1>8 DEF DialSucceeds, NothingReturns
  <2> QED BY <2>11, <2>12, <2>13, <2>14, <2>15, OrderStays
<1>9. CASE DialFails
  <2>11. LinksFollow
    BY <1>9, SameFollows DEF DialFails
  <2>12. InboxesFollow
    BY <1>9, RemoveFollows, Sides DEF DialFails
  <2>13. WritersStay
    BY <1>9 DEF DialFails, WritersStay
  <2>14. ReadersStay
    BY <1>9 DEF DialFails, ReadersStay, Read
  <2>15. NothingReturns
    
    <3>1. \A x \in Side : x \in table' => x \in table
      BY <1>9, RemoveFollows, Sides DEF DialFails
    <3> QED BY <1>9, <3>1 DEF DialFails, NothingReturns
  <2> QED BY <2>11, <2>12, <2>13, <2>14, <2>15, OrderStays
<1>10. CASE AnswerConnect
  <2>11. LinksFollow
    
    <3>1. UNCHANGED link \/ Transmit("target", Positive)
      BY <1>10 DEF AnswerConnect, SendIfBound, Positive
    <3>2. Positive \in Msg /\ Positive.type \notin {"DATA", "FIN"}
      BY Answers
    <3> QED BY <3>1, <3>2, TransmitFollows, SameFollows, Sides
  <2>12. InboxesFollow
    BY <1>10, AnswerConnectEffect, SameFollows, Sides
  <2>13. WritersStay
    BY <1>10 DEF AnswerConnect, WritersStay
  <2>14. ReadersStay
    
    <3>1. reader["target"] = "none" /\ reader'["target"] = "wait" /\ reader'["opener"] = reader["opener"]
          /\ UNCHANGED <<taken, bound, aborted>>
      BY <1>10, Sides DEF AnswerConnect, Answer, Shape
    <3> QED BY <3>1, Sides DEF ReadersStay, Read
  <2>15. NothingReturns
    BY <1>10 DEF AnswerConnect, NothingReturns
  <2> QED BY <2>11, <2>12, <2>13, <2>14, <2>15, OrderStays
<1>11. ASSUME NEW e \in Side, ReaderStarts(e) PROVE Order'
  <2>11. LinksFollow
    BY <1>11, SameFollows DEF ReaderStarts, ReaderAt, ReaderOnly
  <2>12. InboxesFollow
    BY <1>11, SameFollows DEF ReaderStarts, ReaderAt, ReaderOnly
  <2>13. WritersStay
    BY <1>11 DEF ReaderStarts, ReaderAt, ReaderOnly, WritersStay
  <2>14. ReadersStay
    
    <3>1. taken' = taken /\ \A x \in Side : x # e => reader'[x] = reader[x]
      BY <1>11 DEF ReaderStarts, ReaderAt, ReaderOnly, Shape
    <3>2. UNCHANGED <<bound, aborted>>
      BY <1>11 DEF ReaderStarts, ReaderAt, ReaderOnly
    <3>3. taken[e] \in Nat
      BY DEF Shape
    <3>9. reader[e] = "wait" /\ reader'[e] \in {"read", "done"}
      BY <1>11 DEF ReaderStarts, ReaderAt, Shape
    <3> QED BY <3>1, <3>2, <3>3, <3>9 DEF ReadersStay, Read
  <2>15. NothingReturns
    BY <1>11 DEF ReaderStarts, ReaderAt, ReaderOnly, NothingReturns
  <2> QED BY <2>11, <2>12, <2>13, <2>14, <2>15, OrderStays
<1>12. ASSUME NEW e \in Side, ReadChunk(e) PROVE Order'
  <2> DEFINE p == Other(e)
  <2>0. p \in Side /\ p # e /\ Other(p) = e /\ \A x \in Side : x = e \/ x = p
    BY Sides
  <2> HIDE DEF p
  <2>1. UNCHANGED <<writer, held, written, aborted, bound, table, alive, link, stream>>
    BY <1>12 DEF ReadChunk, ReaderOnly
  <2>2. reader[e] = "read" /\ reader'[e] = "chunk" /\ reader'[p] = reader[p]
    BY <1>12, <2>0 DEF ReadChunk, ReaderAt, Shape
  <2>3. taken'[e] = taken[e] + 1 /\ taken'[p] = taken[p]
    BY <1>12, <2>0 DEF ReadChunk, Shape
  <2>4. \A x \in Side : Holding(x)'
    BY <2>1 DEF Order, Holding
  <2>5. Way(e)'
    BY <2>1, <2>2, <2>3, WayRead DEF Order
  <2>6. Way(p)'
    <3>1. Way(p)
      BY <2>0 DEF Order
    <3>2. SameArrival(p)
      BY <2>0, <2>1, FollowsSame DEF SameArrival, Start
    <3>3. SameLink(p)
      BY <2>0, <2>1, FollowsSame DEF SameLink
    <3>4. SameSender(p)
      BY <2>0, <2>1, <2>2, <2>3 DEF SameSender, Read
    <3> QED BY <2>0, <3>1, <3>2, <3>3, <3>4, WayKept
  <2> QED BY <2>0, <2>4, <2>5, <2>6 DEF Order
<1>13. ASSUME NEW e \in Side, ReadEOF(e) PROVE Order'
  <2>11. LinksFollow
    BY <1>13, SameFollows DEF ReadEOF, ReaderAt, ReaderOnly
  <2>12. InboxesFollow
    BY <1>13, SameFollows DEF ReadEOF, ReaderAt, ReaderOnly
  <2>13. WritersStay
    BY <1>13 DEF ReadEOF, ReaderAt, ReaderOnly, WritersStay
  <2>14. ReadersStay
    
    <3>1. taken' = taken /\ \A x \in Side : x # e => reader'[x] = reader[x]
      BY <1>13 DEF ReadEOF, ReaderAt, ReaderOnly, Shape
    <3>2. UNCHANGED <<bound, aborted>>
      BY <1>13 DEF ReadEOF, ReaderAt, ReaderOnly
    <3>3. taken[e] \in Nat
      BY DEF Shape
    <3>9. reader[e] = "read" /\ reader'[e] = "eof"
      BY <1>13 DEF ReadEOF, ReaderAt, Shape
    <3> QED BY <3>1, <3>2, <3>3, <3>9 DEF ReadersStay, Read
  <2>15. NothingReturns
    BY <1>13 DEF ReadEOF, ReaderAt, ReaderOnly, NothingReturns
  <2> QED BY <2>11, <2>12, <2>13, <2>14, <2>15, OrderStays
<1>14. ASSUME NEW e \in Side, ReadClosed(e) PROVE Order'
  <2>11. LinksFollow
    BY <1>14, SameFollows DEF ReadClosed, ReaderAt, ReaderOnly
  <2>12. InboxesFollow
    BY <1>14, SameFollows DEF ReadClosed, ReaderAt, ReaderOnly
  <2>13. WritersStay
    BY <1>14 DEF ReadClosed, ReaderAt, ReaderOnly, WritersStay
  <2>14. ReadersStay
    
    <3>1. taken' = taken /\ \A x \in Side : x # e => reader'[x] = reader[x]
      BY <1>14 DEF ReadClosed, ReaderAt, ReaderOnly, Shape
    <3>2. UNCHANGED <<bound, aborted>>
      BY <1>14 DEF ReadClosed, ReaderAt, ReaderOnly
    <3>3. taken[e] \in Nat
      BY DEF Shape
    <3>9. reader[e] = "read" /\ reader'[e] = "eof"
      BY <1>14 DEF ReadClosed, ReaderAt, Shape
    <3> QED BY <3>1, <3>2, <3>3, <3>9 DEF ReadersStay, Read
  <2>15. NothingReturns
    BY <1>14 DEF ReadClosed, ReaderAt, ReaderOnly, NothingReturns
  <2> QED BY <2>11, <2>12, <2>13, <2>14, <2>15, OrderStays
<1>15. ASSUME NEW e \in Side, AcquireSlot(e) PROVE Order'
  <2>11. LinksFollow
    BY <1>15, SameFollows DEF AcquireSlot, ReaderAt, ReaderOnly
  <2>12. InboxesFollow
    
    <3>1. \A x \in Side : stream'[x].inbox = stream[x].inbox
      BY <1>15, AcquireSlotEffect
    <3> QED BY <3>1, SameFollows
  <2>13. WritersStay
    BY <1>15 DEF AcquireSlot, ReaderAt, ReaderOnly, WritersStay
  <2>14. ReadersStay
    
    <3>1. taken' = taken /\ \A x \in Side : x # e => reader'[x] = reader[x]
      BY <1>15 DEF AcquireSlot, ReaderAt, ReaderOnly, Shape
    <3>2. UNCHANGED <<bound, aborted>>
      BY <1>15 DEF AcquireSlot, ReaderAt, ReaderOnly
    <3>3. taken[e] \in Nat
      BY DEF Shape
    <3>9. reader[e] = "chunk" /\ reader'[e] = (IF e \in bound THEN "transmit" ELSE "eof")
      BY <1>15 DEF AcquireSlot, ReaderAt, Shape
    <3> QED BY <3>1, <3>2, <3>3, <3>9 DEF ReadersStay, Read
  <2>15. NothingReturns
    BY <1>15 DEF AcquireSlot, ReaderAt, ReaderOnly, NothingReturns
  <2> QED BY <2>11, <2>12, <2>13, <2>14, <2>15, OrderStays
<1>16. ASSUME NEW e \in Side, AcquireClosed(e) PROVE Order'
  <2>11. LinksFollow
    BY <1>16, SameFollows DEF AcquireClosed, ReaderAt, ReaderOnly
  <2>12. InboxesFollow
    BY <1>16, SameFollows DEF AcquireClosed, ReaderAt, ReaderOnly
  <2>13. WritersStay
    BY <1>16 DEF AcquireClosed, ReaderAt, ReaderOnly, WritersStay
  <2>14. ReadersStay
    
    <3>1. taken' = taken /\ \A x \in Side : x # e => reader'[x] = reader[x]
      BY <1>16 DEF AcquireClosed, ReaderAt, ReaderOnly, Shape
    <3>2. UNCHANGED <<bound, aborted>>
      BY <1>16 DEF AcquireClosed, ReaderAt, ReaderOnly
    <3>3. taken[e] \in Nat
      BY DEF Shape
    <3>9. reader[e] = "chunk" /\ reader'[e] = "eof" /\ (e \in aborted \/ ~alive \/ e \notin bound) /\ alive' = alive
      BY <1>16 DEF AcquireClosed, ReaderAt, ReaderOnly, Shape, Ending, EndingAt, session
    <3> QED BY <3>1, <3>2, <3>3, <3>9 DEF ReadersStay, Read
  <2>15. NothingReturns
    BY <1>16 DEF AcquireClosed, ReaderAt, ReaderOnly, NothingReturns
  <2> QED BY <2>11, <2>12, <2>13, <2>14, <2>15, OrderStays
<1>17. ASSUME NEW e \in Side, TransmitData(e) PROVE Order'
  <2> DEFINE p == Other(e)
  <2>0. p \in Side /\ p # e /\ Other(p) = e /\ \A x \in Side : x = e \/ x = p
    BY Sides
  <2> HIDE DEF p
  <2>1. UNCHANGED <<writer, held, written, aborted, bound, table, alive, taken, stream>>
    BY <1>17 DEF TransmitData, ReaderOnly
  <2>2. reader[e] = "transmit" /\ reader'[e] = (IF alive THEN "read" ELSE "eof") /\ reader'[p] = reader[p]
    BY <1>17, <2>0 DEF TransmitData, ReaderAt, Shape
  <2>3. Transmit(e, Data(taken[e]))
    BY <1>17 DEF TransmitData
  <2>4. Data(taken[e]) \in Msg /\ Data(taken[e]).type = "DATA" /\ Data(taken[e]).n = taken[e]
    BY MsgTypes DEF Shape
  <2>5. \A x \in Side : Holding(x)'
    BY <2>1 DEF Order, Holding
  <2>6. Way(e)'
    <3>1. Way(e)
      BY DEF Order
    <3> QED BY <2>0, <2>1, <2>2, <2>3, <2>4, <3>1, WayTransmit DEF p
  <2>7. link'[e] = link[e]
    BY <2>0, <2>3 DEF Transmit, Shape, p
  <2>8. Way(p)'
    <3>1. Way(p)
      BY <2>0 DEF Order
    <3>2. SameArrival(p)
      BY <2>0, <2>1, FollowsSame DEF SameArrival, Start
    <3>3. SameLink(p)
      BY <2>0, <2>1, <2>7, FollowsSame DEF SameLink
    <3>4. SameSender(p)
      BY <2>0, <2>1, <2>2 DEF SameSender, Read
    <3> QED BY <2>0, <3>1, <3>2, <3>3, <3>4, WayKept
  <2> QED BY <2>0, <2>5, <2>6, <2>8 DEF Order
<1>18. ASSUME NEW e \in Side, EnqueueEOF(e) PROVE Order'
  <2>11. LinksFollow
    BY <1>18, SameFollows DEF EnqueueEOF, ReaderAt, ReaderOnly
  <2>12. InboxesFollow
    
    <3>1. Enqueue(e, LocalEOF) /\ LocalEOF \in Msg /\ LocalEOF.type \notin {"DATA", "FIN"}
      BY <1>18, MsgTypes DEF EnqueueEOF
    <3>2. stream[e].inbox \in Seq(Msg)
      BY StreamFields DEF Shape
    <3>3. stream'[e].inbox = stream[e].inbox \/ stream'[e].inbox = Append(stream[e].inbox, LocalEOF)
      BY <3>1, PutEffect
    <3>4. Follows(stream[e].inbox, stream'[e].inbox)
      BY <3>1, <3>2, <3>3, FollowsSame, FollowsAppend
    <3>5. \A x \in Side : x # e => stream'[x] = stream[x]
      BY <3>1, PutEffect
    <3> QED BY <3>4, <3>5, FollowsSame DEF InboxesFollow
  <2>13. WritersStay
    BY <1>18 DEF EnqueueEOF, ReaderAt, ReaderOnly, WritersStay
  <2>14. ReadersStay
    
    <3>1. taken' = taken /\ \A x \in Side : x # e => reader'[x] = reader[x]
      BY <1>18 DEF EnqueueEOF, ReaderAt, ReaderOnly, Shape
    <3>2. UNCHANGED <<bound, aborted>>
      BY <1>18 DEF EnqueueEOF, ReaderAt, ReaderOnly
    <3>3. taken[e] \in Nat
      BY DEF Shape
    <3>9. reader[e] = "eof" /\ reader'[e] = "done"
      BY <1>18 DEF EnqueueEOF, ReaderAt, Shape
    <3> QED BY <3>1, <3>2, <3>3, <3>9 DEF ReadersStay, Read
  <2>15. NothingReturns
    BY <1>18 DEF EnqueueEOF, ReaderAt, ReaderOnly, NothingReturns
  <2> QED BY <2>11, <2>12, <2>13, <2>14, <2>15, OrderStays
<1>19. ASSUME NEW e \in Side, WriterStops(e) PROVE Order'
  <2>11. LinksFollow
    BY <1>19, SameFollows DEF WriterStops, WriterOnly, WriterAt
  <2>12. InboxesFollow
    BY <1>19, SameFollows DEF WriterStops, WriterOnly, WriterAt
  <2>13. WritersStay
    BY <1>19 DEF WriterStops, WriterOnly, WriterAt, WritersStay, Shape
  <2>14. ReadersStay
    BY <1>19 DEF WriterStops, WriterOnly, WriterAt, ReadersStay, Read
  <2>15. NothingReturns
    BY <1>19 DEF WriterStops, WriterOnly, WriterAt, NothingReturns
  <2> QED BY <2>11, <2>12, <2>13, <2>14, <2>15, OrderStays
<1>20. ASSUME NEW e \in Side, TakeLocalEOF(e) PROVE Order'
  <2> DEFINE p == Other(e)
  <2>0. p \in Side /\ p # e /\ Other(p) = e /\ \A x \in Side : x = e \/ x = p
    BY Sides
  <2> HIDE DEF p
  <2>1. UNCHANGED <<reader, held, written, aborted, bound, table, alive, taken, link>>
    BY <1>20 DEF TakeLocalEOF, WriterOnly
  <2>2. /\ writer[e] = "loop" /\ writer'[e] \in {"loop", "remove", "fin", "arm"} /\ writer'[p] = writer[p]
        /\ writer'[e] = "fin" => e \in bound
    <3>1. \A v : [writer EXCEPT ![e] = v][e] = v /\ [writer EXCEPT ![e] = v][p] = writer[p]
      BY <2>0 DEF Shape
    <3> QED BY <1>20, <3>1 DEF TakeLocalEOF, WriterAt
  <2>3. Taking(e, "localEOF")
    BY <1>20 DEF TakeLocalEOF
  <2>4. reader[e] = "done"
    <3>1. /\ stream[e].inbox # <<>> /\ Head(stream[e].inbox).type = "localEOF"
          /\ stream[e].inbox \in Seq(Msg) /\ OnlyItems(stream[e].inbox)
      BY <2>3, InboxKept DEF Taking
    <3>2. HowMany(stream[e].inbox, "localEOF") > 0
      BY <3>1, InboxTail
    <3> QED BY <3>1, <3>2, InboxTail DEF Ending, EndingAt
  <2>5. \A x \in Side : Holding(x)'
    BY <2>0, <2>1, <2>2 DEF Order, Holding
  <2>6. InboxesFollow
    BY <1>20, <2>3, TakeLocalEOFEffect, TakingFollows
  <2>7. Way(e)'
    <3>1. Way(e)
      BY <2>0 DEF Order
    <3>2. SameArrival(e)
      BY <2>0, <2>1, <2>2, <2>6 DEF SameArrival, Start, InboxesFollow, p
    <3>3. SameLink(e)
      BY <2>0, <2>1, FollowsSame DEF SameLink
    <3>4. SameSender(e)
      BY <2>0, <2>1, <2>2, <2>4 DEF SameSender, Read, Complete
    <3> QED BY <2>0, <3>1, <3>2, <3>3, <3>4, WayKept
  <2>8. Way(p)'
    <3>1. Way(p)
      BY <2>0 DEF Order
    <3>2. SameArrival(p)
      BY <2>0, <2>1, <2>2, <2>6 DEF SameArrival, Start, InboxesFollow
    <3>3. SameLink(p)
      BY <2>0, <2>1, FollowsSame DEF SameLink
    <3>4. SameSender(p)
      BY <2>0, <2>1, <2>2 DEF SameSender, Read
    <3> QED BY <2>0, <3>1, <3>2, <3>3, <3>4, WayKept
  <2> QED BY <2>0, <2>5, <2>7, <2>8 DEF Order
<1>21. ASSUME NEW e \in Side, RemoveFinished(e) PROVE Order'
  <2>11. LinksFollow
    BY <1>21, SameFollows DEF RemoveFinished, WriterOnly, WriterAt
  <2>12. InboxesFollow
    BY <1>21, RemoveFollows DEF RemoveFinished
  <2>13. WritersStay
    BY <1>21 DEF RemoveFinished, WriterOnly, WriterAt, WritersStay, Shape
  <2>14. ReadersStay
    BY <1>21 DEF RemoveFinished, WriterOnly, WriterAt, ReadersStay, Read
  <2>15. NothingReturns
    
    <3>1. \A x \in Side : x \in table' => x \in table
      BY <1>21, RemoveFollows DEF RemoveFinished
    <3> QED BY <1>21, <3>1 DEF RemoveFinished, WriterOnly, NothingReturns
  <2> QED BY <2>11, <2>12, <2>13, <2>14, <2>15, OrderStays
<1>22. ASSUME NEW e \in Side, HalfClose(e) PROVE Order'
  <2> DEFINE p == Other(e)
  <2>0. p \in Side /\ p # e /\ Other(p) = e /\ \A x \in Side : x = e \/ x = p
    BY Sides
  <2> HIDE DEF p
  <2>1. UNCHANGED <<reader, held, written, aborted, bound, table, alive, taken>>
    BY <1>22 DEF HalfClose, WriterOnly
  <2>2. writer[e] \in {"fin", "arm"} /\ writer'[e] = "loop" /\ writer'[p] = writer[p]
    BY <1>22, <2>0 DEF HalfClose, Shape
  <2>3. IF writer[e] = "fin" THEN Transmit(e, Fin) ELSE UNCHANGED link
    BY <1>22 DEF HalfClose
  <2>4. \A x \in Side : stream'[x].inbox = stream[x].inbox
    BY <1>22, HalfCloseEffect
  <2>5. \A x \in Side : Holding(x)'
    BY <2>0, <2>1, <2>2 DEF Order, Holding
  <2>6. Way(e) /\ SameArrival(e)
    BY <2>0, <2>1, <2>2, <2>4, FollowsSame DEF SameArrival, Start, Order, p
  <2>7. Way(e)'
    <3>1. CASE writer[e] = "fin"
      <4>1. Transmit(e, Fin) /\ writer'[e] # "fin"
        BY <2>2, <2>3, <3>1
      <4>2. \A b, c \in 0..taken[e] : Leaving(e, b, c) => Complete(e, c)
        BY <3>1 DEF Leaving
      <4> QED BY <2>0, <2>1, <2>4, <2>6, <4>1, <4>2, WayFin DEF p
    <3>2. CASE writer[e] # "fin"
      <4>1. SameLink(e)
        BY <2>0, <2>1, <2>3, <3>2, FollowsSame DEF SameLink
      <4>2. SameSender(e)
        BY <2>0, <2>1, <2>2 DEF SameSender, Read
      <4> QED BY <2>6, <4>1, <4>2, WayKept
    <3> QED BY <3>1, <3>2
  <2>8. link'[e] = link[e]
    BY <2>0, <2>3 DEF Transmit, Shape, p
  <2>9. Way(p)'
    <3>1. Way(p)
      BY <2>0 DEF Order
    <3>2. SameArrival(p)
      BY <2>0, <2>1, <2>2, <2>4, FollowsSame DEF SameArrival, Start
    <3>3. SameLink(p)
      BY <2>0, <2>1, <2>8, FollowsSame DEF SameLink
    <3>4. SameSender(p)
      BY <2>0, <2>1, <2>2 DEF SameSender, Read
    <3> QED BY <2>0, <3>1, <3>2, <3>3, <3>4, WayKept
  <2> QED BY <2>0, <2>5, <2>7, <2>9 DEF Order
<1>23. ASSUME NEW e \in Side, TakeRemoteFIN(e) PROVE Order'
  <2>11. LinksFollow
    BY <1>23, SameFollows DEF TakeRemoteFIN, WriterOnly, WriterAt
  <2>12. InboxesFollow
    
    <3>1. Taking(e, "FIN")
      BY <1>23 DEF TakeRemoteFIN
    <3>2. stream'[e].inbox = Tail(stream[e].inbox) /\ \A x \in Side : x # e => stream'[x] = stream[x]
      BY <1>23, TakeRemoteFINEffect
    <3> QED BY <3>1, <3>2, TakingFollows
  <2>13. WritersStay
    
    <3>1. writer[e] = "loop" /\ (writer' = [writer EXCEPT ![e] = "loop"] \/ writer' = [writer EXCEPT ![e] = "done"])
      BY <1>23 DEF TakeRemoteFIN, WriterAt
    <3>2. UNCHANGED <<held, written>>
      BY <1>23 DEF TakeRemoteFIN
    <3> QED BY <3>1, <3>2 DEF WritersStay, Shape
  <2>14. ReadersStay
    BY <1>23 DEF TakeRemoteFIN, WriterOnly, WriterAt, ReadersStay, Read
  <2>15. NothingReturns
    
    <3>1. \A x \in Side : x \in table' => x \in table
      BY <1>23, TakeRemoteFINEffect
    <3> QED BY <1>23, <3>1 DEF TakeRemoteFIN, WriterOnly, NothingReturns
  <2> QED BY <2>11, <2>12, <2>13, <2>14, <2>15, OrderStays
<1>24. ASSUME NEW e \in Side, TakeData(e) PROVE Order'
  <2> DEFINE p == Other(e)
  <2>0. p \in Side /\ p # e /\ Other(p) = e /\ \A x \in Side : x = e \/ x = p
    BY Sides
  <2> HIDE DEF p
  <2>1. UNCHANGED <<reader, written, aborted, bound, table, alive, taken, link>>
    BY <1>24 DEF TakeData, WriterOnly
  <2>2. writer[e] = "loop" /\ writer'[e] \in {"write", "done"} /\ writer'[p] = writer[p] /\ Taking(e, "DATA")
    BY <1>24, <2>0 DEF TakeData, WriterAt, Shape
  <2>3. /\ held'[p] = held[p]
        /\ writer'[e] = "write" => held'[e] = Head(stream[e].inbox).n
    BY <1>24, <2>0 DEF TakeData, WriterAt, Shape
  <2>4. stream'[e].inbox = Tail(stream[e].inbox) /\ stream'[p] = stream[p]
    BY <1>24, <2>0, TakeDataEffect
  <2>5. Way(p)' /\ Head(stream[e].inbox).n = Len(written[e]) + 1
    <3>1. Way(p)
      BY <2>0 DEF Order
    <3> QED BY <2>0, <2>1, <2>2, <2>4, <3>1, WayTaken
  <2>6. Holding(e)' /\ Holding(p)'
    BY <2>0, <2>1, <2>2, <2>3, <2>5 DEF Order, Holding
  <2>7. Way(e)'
    <3>1. Way(e)
      BY <2>0 DEF Order
    <3>2. SameArrival(e)
      BY <2>0, <2>1, <2>2, <2>4, FollowsSame DEF SameArrival, Start, p
    <3>3. SameLink(e)
      BY <2>0, <2>1, FollowsSame DEF SameLink
    <3>4. SameSender(e)
      BY <2>0, <2>1, <2>2 DEF SameSender, Read
    <3> QED BY <2>0, <3>1, <3>2, <3>3, <3>4, WayKept
  <2> QED BY <2>0, <2>5, <2>6, <2>7 DEF Order
<1>25. ASSUME NEW e \in Side, WriteSucceeds(e) PROVE Order'
  <2> DEFINE p == Other(e)
  <2>0. p \in Side /\ p # e /\ Other(p) = e /\ \A x \in Side : x = e \/ x = p
    BY Sides
  <2> HIDE DEF p
  <2>1. UNCHANGED <<reader, stream, aborted, bound, table, alive, taken, link>>
    BY <1>25 DEF WriteSucceeds, WriterOnly
  <2>2. writer[e] = "write" /\ writer'[e] \in {"ack", "loop"} /\ writer'[p] = writer[p]
    BY <1>25, <2>0 DEF WriteSucceeds, WriterAt, Shape
  <2>3. written'[p] = written[p] /\ Len(written'[e]) = Len(written[e]) + 1 /\ Len(written[e]) \in Nat
    <3>1. written[e] \in Seq(Nat) /\ held[e] \in Nat
      BY DEF Shape
    <3>2. written'[e] = Append(written[e], held[e]) /\ written'[p] = written[p]
      BY <1>25, <2>0 DEF WriteSucceeds, Shape
    <3> QED BY <3>1, <3>2
  <2>4. held'[p] = held[p]
    BY <1>25, <2>0 DEF WriteSucceeds, Shape
  <2>5. Holding(e)' /\ Holding(p)'
    BY <2>0, <2>2, <2>3, <2>4 DEF Order, Holding
  <2>6. Start(e)' = Start(e) /\ Start(p)' = Start(p)
    <3>1. Start(p)' = Start(p)
      BY <2>2, <2>3 DEF Start
    <3>2. Start(e) = Len(written[e]) + 1
      BY <2>2 DEF Start
    <3>3. Start(e)' = Len(written'[e]) + 0
      BY <2>2 DEF Start
    <3> QED BY <2>3, <3>1, <3>2, <3>3
  <2>7. Way(e)'
    <3>1. Way(e)
      BY <2>0 DEF Order
    <3>2. SameArrival(e)
      BY <2>0, <2>1, <2>2, <2>6, FollowsSame DEF SameArrival, p
    <3>3. SameLink(e)
      BY <2>0, <2>1, FollowsSame DEF SameLink
    <3>4. SameSender(e)
      BY <2>0, <2>1, <2>2 DEF SameSender, Read
    <3> QED BY <2>0, <3>1, <3>2, <3>3, <3>4, WayKept
  <2>8. Way(p)'
    <3>1. Way(p)
      BY <2>0 DEF Order
    <3>2. SameArrival(p)
      BY <2>0, <2>1, <2>2, <2>6, FollowsSame DEF SameArrival
    <3>3. SameLink(p)
      BY <2>0, <2>1, FollowsSame DEF SameLink
    <3>4. SameSender(p)
      BY <2>0, <2>1, <2>2 DEF SameSender, Read
    <3> QED BY <2>0, <3>1, <3>2, <3>3, <3>4, WayKept
  <2> QED BY <2>0, <2>5, <2>7, <2>8 DEF Order
<1>26. ASSUME NEW e \in Side, WriteFails(e) PROVE Order'
  <2> DEFINE p == Other(e)
  <2>0. p \in Side /\ p # e /\ Other(p) = e /\ \A x \in Side : x = e \/ x = p
    BY Sides
  <2> HIDE DEF p
  <2>1. UNCHANGED <<reader, written, bound, alive, taken, link>>
    BY <1>26 DEF WriteFails, WriterOnly
  <2>2. writer[e] = "write" /\ writer'[e] = "done" /\ writer'[p] = writer[p]
    BY <1>26, <2>0 DEF WriteFails, WriterAt, Shape
  <2>3. InboxesFollow /\ \A x \in Side : x \in table' => x \in table
    BY <1>26, RemoveFollows DEF WriteFails
  <2>4. held'[p] = held[p]
    BY <1>26, <2>0 DEF WriteFails, Shape
  <2>5. \A x \in Side : x \in aborted => x \in aborted'
    BY <1>26 DEF WriteFails
  <2>6. Holding(e)' /\ Holding(p)'
    BY <2>0, <2>1, <2>2, <2>4 DEF Order, Holding
  <2>7. Way(e)'
    <3>1. Way(e)
      BY <2>0 DEF Order
    <3>2. SameArrival(e)
      BY <2>0, <2>1, <2>2, <2>3 DEF SameArrival, Start, InboxesFollow, p
    <3>3. SameLink(e)
      BY <2>0, <2>1, <2>3, FollowsSame DEF SameLink, p
    <3>4. SameSender(e)
      BY <2>0, <2>1, <2>2, <2>5 DEF SameSender, Read
    <3> QED BY <2>0, <3>1, <3>2, <3>3, <3>4, WayKept
  <2>8. Way(p)'
    <3>1. Way(p)
      BY <2>0 DEF Order
    <3>2. SameArrival(p)
      BY <2>0, <2>1, <2>2, <2>3 DEF SameArrival, Start, InboxesFollow
    <3>3. SameLink(p)
      BY <2>0, <2>1, <2>3, FollowsSame DEF SameLink
    <3>4. SameSender(p)
      BY <2>0, <2>1, <2>2, <2>5 DEF SameSender, Read
    <3> QED BY <2>0, <3>1, <3>2, <3>3, <3>4, WayKept
  <2> QED BY <2>0, <2>6, <2>7, <2>8 DEF Order
<1>27. ASSUME NEW e \in Side, SendAck(e) PROVE Order'
  <2>11. LinksFollow
    
    <3>1. Transmit(e, DataAck) /\ DataAck \in Msg /\ DataAck.type \notin {"DATA", "FIN"}
      BY <1>27, MsgTypes DEF SendAck
    <3> QED BY <3>1, TransmitFollows
  <2>12. InboxesFollow
    BY <1>27, SameFollows DEF SendAck, WriterOnly, WriterAt
  <2>13. WritersStay
    BY <1>27 DEF SendAck, WriterOnly, WriterAt, WritersStay, Shape
  <2>14. ReadersStay
    BY <1>27 DEF SendAck, WriterOnly, WriterAt, ReadersStay, Read
  <2>15. NothingReturns
    BY <1>27 DEF SendAck, WriterOnly, WriterAt, NothingReturns
  <2> QED BY <2>11, <2>12, <2>13, <2>14, <2>15, OrderStays
<1>28. ASSUME NEW e \in Side, TimerFires(e) PROVE Order'
  <2>11. LinksFollow
    BY <1>28, SameFollows DEF TimerFires
  <2>12. InboxesFollow
    BY <1>28, TimerFiresEffect, SameFollows
  <2>13. WritersStay
    BY <1>28 DEF TimerFires, WritersStay
  <2>14. ReadersStay
    
    <3>1. UNCHANGED <<reader, taken, bound>>
      BY <1>28 DEF TimerFires
    <3>2. \A x \in Side : x \in aborted => x \in aborted'
      BY <1>28 DEF TimerFires
    <3> QED BY <3>1, <3>2 DEF ReadersStay, Read
  <2>15. NothingReturns
    
    <3>1. \A x \in Side : x \in table' => x \in table
      BY <1>28, TimerFiresEffect
    <3>2. aborted' = IF e \in table THEN aborted \cup {e} ELSE aborted
      BY <1>28 DEF TimerFires
    <3> QED BY <1>28, <3>1, <3>2 DEF TimerFires, NothingReturns
  <2> QED BY <2>11, <2>12, <2>13, <2>14, <2>15, OrderStays
<1>29. ASSUME NEW e \in Side, FinishRemove(e) PROVE Order'
  <2> DEFINE p == Other(e)
  <2>0. p \in Side /\ p # e /\ Other(p) = e /\ \A x \in Side : x = e \/ x = p
    BY Sides
  <2> HIDE DEF p
  <2>1. UNCHANGED <<reader, writer, held, written, aborted, table, alive, taken>> /\ bound' = bound \ {e}
    BY <1>29 DEF FinishRemove
  <2>2. remover[e].step = "close" /\ remover[e].final \in {"none", "FIN", "SYN_ACK"}
    BY <1>29 DEF FinishRemove, Shape, Removers, Remover
  <2>3. \/ UNCHANGED link
        \/ Transmit(e, Negative)
        \/ Transmit(e, Fin) /\ remover[e].final = "FIN" /\ e \in bound
    BY <1>29, <2>2 DEF FinishRemove, SendIfBound, Negative
  <2>4. \A x \in Side : stream'[x].inbox = stream[x].inbox
    BY <1>29, FinishRemoveEffect
  <2>5. \A x \in Side : Holding(x)' /\ Way(x) /\ SameArrival(x)
    BY <2>0, <2>1, <2>4, FollowsSame, Sides DEF SameArrival, Start, Order, Holding
  <2>6. \A x \in Side : SameSender(x)
    BY <2>0, <2>1 DEF SameSender, Read
  <2>7. CASE ~(Transmit(e, Fin) /\ remover[e].final = "FIN" /\ e \in bound)
    <3>1. Negative \in Msg /\ Negative.type \notin {"DATA", "FIN"}
      BY Answers
    <3>2. LinksFollow
      BY <2>3, <2>7, <3>1, TransmitFollows, SameFollows
    <3>3. \A x \in Side : SameLink(x)
      BY <2>1, <3>2, Sides DEF SameLink, LinksFollow
    <3> QED BY <2>5, <2>6, <3>3, WayKept DEF Order
  <2>8. CASE Transmit(e, Fin) /\ remover[e].final = "FIN" /\ e \in bound
    <3>1. Way(e)'
      <4>1. e \in aborted \/ reader[e] = "done"
        BY <2>2, <2>8 DEF Ending, EndingAt
      <4>2. \A b, c \in 0..taken[e] : Leaving(e, b, c) => Complete(e, c)
        BY <2>8, <4>1 DEF Leaving, Complete, Read
      <4> QED BY <2>0, <2>1, <2>4, <2>5, <2>8, <4>2, WayFin DEF p
    <3>2. link'[e] = link[e]
      BY <2>0, <2>8 DEF Transmit, Shape, p
    <3>3. SameLink(p)
      BY <2>0, <2>1, <3>2, FollowsSame DEF SameLink
    <3>4. Way(p)'
      BY <2>0, <2>5, <2>6, <3>3, WayKept
    <3> QED BY <2>0, <2>5, <3>1, <3>4 DEF Order
  <2> QED BY <2>7, <2>8
<1>30. ASSUME NEW e \in Side, RemoveSession(e) PROVE Order'
  <2>11. LinksFollow
    BY <1>30, SameFollows DEF RemoveSession
  <2>12. InboxesFollow
    BY <1>30, SameFollows DEF RemoveSession
  <2>13. WritersStay
    BY <1>30 DEF RemoveSession, WritersStay
  <2>14. ReadersStay
    
    <3>1. UNCHANGED <<reader, taken, aborted>> /\ bound' = bound \ {e}
      BY <1>30 DEF RemoveSession
    <3> QED BY <3>1 DEF ReadersStay, Read
  <2>15. NothingReturns
    BY <1>30 DEF RemoveSession, NothingReturns
  <2> QED BY <2>11, <2>12, <2>13, <2>14, <2>15, OrderStays
<1>31. ASSUME NEW e \in Side, CloseStreams(e) PROVE Order'
  <2>11. LinksFollow
    BY <1>31 DEF CloseStreams, LinksFollow
  <2>12. InboxesFollow
    BY <1>31, SameFollows, RemoveFollows DEF CloseStreams
  <2>13. WritersStay
    BY <1>31 DEF CloseStreams, WritersStay
  <2>14. ReadersStay
    BY <1>31 DEF CloseStreams, ReadersStay
  <2>15. NothingReturns
    
    <3>1. \A x \in Side : x \in table' => x \in table
      BY <1>31, RemoveFollows DEF CloseStreams
    <3> QED BY <1>31, <3>1 DEF CloseStreams, NothingReturns
  <2> QED BY <2>11, <2>12, <2>13, <2>14, <2>15, OrderStays
<1>32. CASE UNCHANGED vars
  <2>1. LinksFollow /\ InboxesFollow
    BY <1>32, SameFollows DEF vars
  <2>2. WritersStay /\ ReadersStay /\ NothingReturns
    BY <1>32 DEF vars, WritersStay, ReadersStay, NothingReturns, Read
  <2> QED BY <2>1, <2>2, OrderStays
<1> QED BY <1>1, <1>2, <1>3, <1>4, <1>5, <1>6, <1>7, <1>8, <1>9, <1>10, <1>11,
   <1>12, <1>13, <1>14, <1>15, <1>16, <1>17, <1>18, <1>19, <1>20, <1>21,
   <1>22, <1>23, <1>24, <1>25, <1>26, <1>27, <1>28, <1>29, <1>30, <1>31,
   <1>32, Steps


-----------------------------------------------------------------------------
(* The numbers: what is in flight, queued, read and written.               *)

FramesFor(e) == Frame(Chunks[Other(e)])
ItemsFor(e) == Item(Chunks[Other(e)])

LinksInBounds == \A x \in Side : link[x] \in Seq(FramesFor(x))

StreamsInBounds ==
  \A x \in Side : /\ stream[x].inbox \in Seq(ItemsFor(x)) /\ Len(stream[x].inbox) <= InboxCap
                  /\ stream[x].acks <= Window

ReadersInBounds ==
  \A x \in Side : taken[x] <= Chunks[x] /\ (reader[x] \in {"chunk", "transmit"} => taken[x] > 0)

WritersInBounds ==
  \A x \in Side : /\ held[x] <= Chunks[Other(x)] /\ (writer[x] = "write" => held[x] > 0)
                  /\ written[x] \in Seq(1..Chunks[Other(x)])

Bounds == /\ LinksInBounds /\ StreamsInBounds /\ ReadersInBounds /\ WritersInBounds
          /\ late \subseteq Side

LEMMA Limits == \A x \in Side : Chunks[x] \in Nat /\ Chunks[Other(x)] \in Nat
  BY ChunksAssumption, Sides

LEMMA FrameKinds ==
  ASSUME NEW n \in Nat
  PROVE  /\ Connect \in Frame(n) /\ DataAck \in Frame(n) /\ Fin \in Frame(n)
         /\ Positive \in Frame(n) /\ Negative \in Frame(n)
         /\ \A i \in 1..n : Data(i) \in Frame(n)
         /\ LocalEOF \in Item(n) /\ Fin \in Item(n)
  BY DEF Frame, Item, Positive, Negative

LEMMA ItemKinds ==
  ASSUME NEW n \in Nat, NEW f
  PROVE  /\ f \in Frame(n) /\ f.type \in {"DATA", "FIN"} => f \in Item(n)
         /\ f \in Item(n) /\ f.type = "DATA" => f.n \in 1..n
<1>1. ASSUME f \in Frame(n), f.type \in {"DATA", "FIN"} PROVE f \in Item(n)
  <2>1. f # Connect /\ f # DataAck /\ f \notin {SynAck(ok) : ok \in BOOLEAN}
    BY <1>1, MsgTypes
  <2> QED BY <1>1, <2>1 DEF Frame, Item
<1>2. ASSUME f \in Item(n), f.type = "DATA" PROVE f.n \in 1..n
  <2>1. f # Fin /\ f # LocalEOF
    BY <1>2, MsgTypes
  <2>2. PICK i \in 1..n : f = Data(i)
    BY <1>2, <2>1 DEF Item
  <2>3. i \in Nat
    OBVIOUS
  <2> QED BY <2>2, <2>3, MsgTypes
<1> QED BY <1>1, <1>2

LEMMA TransmitBounds ==
  ASSUME Shape, LinksInBounds, late \subseteq Side, NEW e \in Side, NEW f, Transmit(e, f),
         f \in FramesFor(Other(e))
  PROVE  LinksInBounds' /\ late' \subseteq Side
<1>1. late' \subseteq Side
  BY DEF Transmit
<1>2. ASSUME NEW x \in Side PROVE link'[x] \in Seq(FramesFor(x))
  <2>1. link[x] \in Seq(FramesFor(x))
    BY DEF LinksInBounds
  <2>2. link'[x] = link[x] \/ (x = Other(e) /\ link'[x] = Append(link[x], f))
    BY Sides DEF Transmit, Shape
  <2>3. CASE link'[x] = link[x]
    BY <2>1, <2>3
  <2>4. CASE x = Other(e) /\ link'[x] = Append(link[x], f)
    <3>1. f \in FramesFor(x)
      BY <2>4
    <3> QED BY <2>1, <2>4, <3>1
  <2> QED BY <2>2, <2>3, <2>4
<1> QED BY <1>1, <1>2 DEF LinksInBounds, FramesFor

LEMMA PopBounds ==
  ASSUME Shape, LinksInBounds, NEW e \in Side, NEW t, Arrives(e, t), link' = Pop(e)
  PROVE  LinksInBounds' /\ Head(link[e]) \in FramesFor(e)
<1>1. ASSUME NEW x \in Side PROVE link'[x] \in Seq(FramesFor(x))
  <2>1. link[x] \in Seq(FramesFor(x)) /\ (x = e => link[x] # <<>>)
    BY DEF LinksInBounds, Arrives
  <2>2. link'[x] = link[x] \/ (x = e /\ link'[x] = Tail(link[x]))
    BY DEF Pop, Shape
  <2>3. CASE link'[x] = link[x]
    BY <2>1, <2>3
  <2>4. CASE x = e /\ link'[x] = Tail(link[x])
    BY <2>1, <2>4
  <2> QED BY <2>2, <2>3, <2>4
<1>2. Head(link[e]) \in FramesFor(e)
  <2>1. link[e] \in Seq(FramesFor(e)) /\ link[e] # <<>>
    BY DEF LinksInBounds, Arrives
  <2> QED BY <2>1
<1> QED BY <1>1, <1>2 DEF LinksInBounds, FramesFor

LEMMA SameBounds ==
  ASSUME StreamsInBounds,
         \A x \in Side : stream'[x].inbox = stream[x].inbox /\ stream'[x].acks = stream[x].acks
  PROVE  StreamsInBounds'
  BY DEF StreamsInBounds, ItemsFor

LEMMA RemoveBounds ==
  ASSUME Shape, StreamsInBounds, NEW e \in Side, NEW f \in {"none", "FIN", "SYN_ACK"},
         Remove(e, f, stream)
  PROVE  StreamsInBounds'
<1>1. stream \in Streams
  BY DEF Shape
<1>2. \A x \in Side : stream'[x].inbox = stream[x].inbox /\ stream'[x].acks = stream[x].acks
  BY <1>1, RemoveEffect
<1> QED BY <1>2, SameBounds

LEMMA TailBounds ==
  ASSUME Shape, StreamsInBounds, NEW e \in Side, NEW t, Taking(e, t),
         stream'[e].inbox = Tail(stream[e].inbox), stream'[e].acks = stream[e].acks,
         \A x \in Side : x # e => stream'[x] = stream[x]
  PROVE  StreamsInBounds' /\ Head(stream[e].inbox) \in ItemsFor(e)
<1>1. /\ stream[e].inbox \in Seq(ItemsFor(e)) /\ stream[e].inbox # <<>>
      /\ Len(stream[e].inbox) <= InboxCap /\ InboxCap \in Nat
  BY InboxCapAssumption DEF StreamsInBounds, Taking
<1>2. /\ Tail(stream[e].inbox) \in Seq(ItemsFor(e)) /\ Head(stream[e].inbox) \in ItemsFor(e)
      /\ Len(Tail(stream[e].inbox)) <= InboxCap
  BY <1>1
<1>3. ASSUME NEW x \in Side
      PROVE  /\ stream'[x].inbox \in Seq(ItemsFor(x)) /\ Len(stream'[x].inbox) <= InboxCap
             /\ stream'[x].acks <= Window
  BY <1>2 DEF StreamsInBounds
<1> QED BY <1>2, <1>3 DEF StreamsInBounds, ItemsFor

LEMMA PutBounds ==
  ASSUME Shape, StreamsInBounds, NEW e \in Side, NEW m, Enqueue(e, m), m \in ItemsFor(e)
  PROVE  StreamsInBounds'
<1>1. /\ stream[e].inbox \in Seq(ItemsFor(e)) /\ Len(stream[e].inbox) <= InboxCap /\ InboxCap \in Nat
  BY InboxCapAssumption DEF StreamsInBounds
<1>2. \/ stream'[e].inbox = Append(stream[e].inbox, m) /\ Len(stream[e].inbox) < InboxCap
      \/ stream' = stream
  BY PutEffect DEF HasRoom
<1>3. stream'[e].inbox \in Seq(ItemsFor(e)) /\ Len(stream'[e].inbox) <= InboxCap
  <2>1. CASE stream' = stream
    BY <1>1, <2>1
  <2>2. CASE stream'[e].inbox = Append(stream[e].inbox, m) /\ Len(stream[e].inbox) < InboxCap
    BY <1>1, <2>2
  <2> QED BY <1>2, <2>1, <2>2
<1>4. stream'[e].acks = stream[e].acks /\ \A x \in Side : x # e => stream'[x] = stream[x]
  BY PutEffect
<1>5. ASSUME NEW x \in Side
      PROVE  /\ stream'[x].inbox \in Seq(ItemsFor(x)) /\ Len(stream'[x].inbox) <= InboxCap
             /\ stream'[x].acks <= Window
  BY <1>3, <1>4 DEF StreamsInBounds
<1> QED BY <1>5 DEF StreamsInBounds, ItemsFor

\* Every step keeps Bounds.
LEMMA BoundsStep == Shape /\ Bounds /\ [Next]_vars => Bounds'
<1> SUFFICES ASSUME Shape, Bounds, [Next]_vars PROVE Bounds'
  OBVIOUS
<1> USE DEF streamVars, goroutines, session, history
<1>1. CASE Accept
  <2>1. LinksInBounds' /\ late' \subseteq Side
    BY <1>1 DEF Accept, Bounds, LinksInBounds, FramesFor
  <2>2. StreamsInBounds'
    
    <3>1. stream' = stream \/ stream' = [stream EXCEPT !["opener"] = NewStream("open")]
      BY <1>1 DEF Accept
    <3>2. NewStream("open").inbox = <<>> /\ NewStream("open").acks = 0 /\ <<>> \in Seq(ItemsFor("opener"))
      BY DEF NewStream
    <3>3. Window \in Nat /\ InboxCap \in Nat
      BY WindowAssumption, InboxCapAssumption
    <3>4. ASSUME NEW x \in Side
          PROVE  /\ stream'[x].inbox \in Seq(ItemsFor(x)) /\ Len(stream'[x].inbox) <= InboxCap
                 /\ stream'[x].acks <= Window
      <4>1. stream'[x] = stream[x] \/ (x = "opener" /\ stream'[x] = NewStream("open"))
        BY <3>1 DEF Shape, Streams
      <4>2. CASE stream'[x] = stream[x]
        BY <4>2 DEF Bounds, StreamsInBounds
      <4>3. CASE x = "opener" /\ stream'[x] = NewStream("open")
        <5>1. stream'[x].inbox = <<>> /\ stream'[x].acks = 0
          BY <3>2, <4>3
        <5>2. <<>> \in Seq(ItemsFor(x)) /\ Len(<<>>) = 0
          OBVIOUS
        <5>3. Len(stream'[x].inbox) = 0
          BY <5>1
        <5>4. stream'[x].inbox \in Seq(ItemsFor(x))
          BY <5>1, <5>2
        <5> QED BY <3>3, <5>1, <5>3, <5>4
      <4> QED BY <4>1, <4>2, <4>3
    <3> QED BY <3>4 DEF StreamsInBounds, ItemsFor
  <2>3. ReadersInBounds'
    BY <1>1 DEF Accept, Bounds, ReadersInBounds
  <2>4. WritersInBounds'
    BY <1>1 DEF Accept, Bounds, WritersInBounds, Shape
  <2> QED BY <2>1, <2>2, <2>3, <2>4 DEF Bounds
<1>2. CASE SendConnect
  <2>1. LinksInBounds' /\ late' \subseteq Side
    
    <3>1. UNCHANGED <<link, late>> \/ Transmit("opener", Connect)
      BY <1>2 DEF SendConnect
    <3>2. Connect \in FramesFor(Other("opener"))
      BY Limits, Sides, FrameKinds DEF FramesFor
    <3> QED BY <3>1, <3>2, TransmitBounds, Sides DEF Bounds, LinksInBounds, FramesFor
  <2>2. StreamsInBounds'
    BY <1>2, SameBounds, RemoveBounds, Sides DEF SendConnect, DropUnsent, Bounds
  <2>3. ReadersInBounds'
    
    <3>1. taken' = taken /\ \A x \in Side : reader'[x] \in {reader[x], "wait"}
      BY <1>2 DEF SendConnect, Shape
    <3> QED BY <3>1 DEF Bounds, ReadersInBounds
  <2>4. WritersInBounds'
    BY <1>2 DEF SendConnect, Bounds, WritersInBounds
  <2> QED BY <2>1, <2>2, <2>3, <2>4 DEF Bounds
<1>3. CASE BindConnect
  <2>1. LinksInBounds' /\ late' \subseteq Side
    BY <1>3, PopBounds, Sides DEF BindConnect, Bounds
  <2>2. StreamsInBounds'
    BY <1>3, SameBounds DEF BindConnect, Bounds
  <2>3. ReadersInBounds'
    BY <1>3 DEF BindConnect, Bounds, ReadersInBounds
  <2>4. WritersInBounds'
    BY <1>3 DEF BindConnect, Bounds, WritersInBounds
  <2> QED BY <2>1, <2>2, <2>3, <2>4 DEF Bounds
<1>4. CASE HandleConnect
  <2>1. LinksInBounds' /\ late' \subseteq Side
    
    <3>1. UNCHANGED <<link, late>> \/ Transmit("target", Negative)
      BY <1>4 DEF HandleConnect, RejectConnect, SendIfBound, Negative
    <3>2. Negative \in FramesFor(Other("target"))
      BY Limits, Sides, FrameKinds DEF FramesFor
    <3> QED BY <3>1, <3>2, TransmitBounds, Sides DEF Bounds, LinksInBounds, FramesFor
  <2>2. StreamsInBounds'
    
    <3>1. stream' = stream \/ stream' = [stream EXCEPT !["target"] = NewStream("none")]
      BY <1>4 DEF HandleConnect
    <3>2. NewStream("none").inbox = <<>> /\ NewStream("none").acks = 0 /\ <<>> \in Seq(ItemsFor("target"))
      BY DEF NewStream
    <3>3. Window \in Nat /\ InboxCap \in Nat
      BY WindowAssumption, InboxCapAssumption
    <3>4. ASSUME NEW x \in Side
          PROVE  /\ stream'[x].inbox \in Seq(ItemsFor(x)) /\ Len(stream'[x].inbox) <= InboxCap
                 /\ stream'[x].acks <= Window
      <4>1. stream'[x] = stream[x] \/ (x = "target" /\ stream'[x] = NewStream("none"))
        BY <3>1 DEF Shape, Streams
      <4>2. CASE stream'[x] = stream[x]
        BY <4>2 DEF Bounds, StreamsInBounds
      <4>3. CASE x = "target" /\ stream'[x] = NewStream("none")
        <5>1. stream'[x].inbox = <<>> /\ stream'[x].acks = 0
          BY <3>2, <4>3
        <5>2. <<>> \in Seq(ItemsFor(x)) /\ Len(<<>>) = 0
          OBVIOUS
        <5>3. Len(stream'[x].inbox) = 0
          BY <5>1
        <5>4. stream'[x].inbox \in Seq(ItemsFor(x))
          BY <5>1, <5>2
        <5> QED BY <3>3, <5>1, <5>3, <5>4
      <4> QED BY <4>1, <4>2, <4>3
    <3> QED BY <3>4 DEF StreamsInBounds, ItemsFor
  <2>3. ReadersInBounds'
    BY <1>4 DEF HandleConnect, Bounds, ReadersInBounds
  <2>4. WritersInBounds'
    BY <1>4 DEF HandleConnect, Bounds, WritersInBounds, Shape
  <2> QED BY <2>1, <2>2, <2>3, <2>4 DEF Bounds
<1>5. ASSUME NEW e \in Side, HandleSynAck(e) PROVE Bounds'
  <2>1. LinksInBounds' /\ late' \subseteq Side
    BY <1>5, PopBounds DEF HandleSynAck, Bounds
  <2>2. StreamsInBounds'
    
    <3>1. CASE Remove(e, "none", stream)
      BY <3>1, RemoveBounds DEF Bounds
    <3>2. CASE stream' = [stream EXCEPT ![e].ready = @ \/ e \in table]
      <4>1. \A x \in Side : stream'[x].inbox = stream[x].inbox /\ stream'[x].acks = stream[x].acks
        BY <3>2 DEF Shape, Streams, Stream
      <4> QED BY <4>1, SameBounds DEF Bounds
    <3> QED BY <1>5, <3>1, <3>2 DEF HandleSynAck
  <2>3. ReadersInBounds'
    BY <1>5 DEF HandleSynAck, Bounds, ReadersInBounds
  <2>4. WritersInBounds'
    BY <1>5 DEF HandleSynAck, Bounds, WritersInBounds
  <2> QED BY <2>1, <2>2, <2>3, <2>4 DEF Bounds
<1>6. ASSUME NEW e \in Side, HandleQueued(e) PROVE Bounds'
  <2>1. LinksInBounds' /\ late' \subseteq Side
    
    <3>1. link' = Pop(e) /\ late' = late /\ (Arrives(e, "DATA") \/ Arrives(e, "FIN"))
      BY <1>6 DEF HandleQueued
    <3> QED BY <3>1, PopBounds DEF Bounds
  <2>2. StreamsInBounds'
    
    <3>1. /\ link' = Pop(e) /\ Arrives(e, Head(link[e]).type) /\ Head(link[e]).type \in {"DATA", "FIN"}
          /\ Enqueue(e, Head(link[e])) \/ stream' = stream
      BY <1>6 DEF HandleQueued, Arrives
    <3>2. Head(link[e]) \in ItemsFor(e)
      BY <3>1, PopBounds, ItemKinds, Limits DEF Bounds, FramesFor, ItemsFor
    <3> QED BY <3>1, <3>2, PutBounds, SameBounds DEF Bounds
  <2>3. ReadersInBounds'
    BY <1>6 DEF HandleQueued, Bounds, ReadersInBounds
  <2>4. WritersInBounds'
    BY <1>6 DEF HandleQueued, Bounds, WritersInBounds
  <2> QED BY <2>1, <2>2, <2>3, <2>4 DEF Bounds
<1>7. ASSUME NEW e \in Side, HandleDataAck(e) PROVE Bounds'
  <2>1. LinksInBounds' /\ late' \subseteq Side
    BY <1>7, PopBounds DEF HandleDataAck, Bounds
  <2>2. StreamsInBounds'
    
    <3>1. \A x \in Side : stream'[x].inbox = stream[x].inbox /\ stream'[x].acks <= stream[x].acks
                           /\ stream'[x].acks \in Nat /\ stream[x].acks \in Nat
      <4>1. stream \in Streams
        BY DEF Shape
      <4>2. \A x \in Side : x # e => stream'[x] = stream[x]
        BY <1>7, HandleDataAckEffect
      <4>3. /\ stream'[e].acks = (IF e \in table /\ stream[e].acks > 0 THEN stream[e].acks - 1 ELSE stream[e].acks)
            /\ stream'[e].inbox = stream[e].inbox
        BY <1>7, HandleDataAckEffect
      <4>4. \A x \in Side : stream[x].acks \in Nat
        BY <4>1, StreamFields
      <4>5. stream'[e].acks \in Nat /\ stream'[e].acks <= stream[e].acks
        <5>1. CASE e \in table /\ stream[e].acks > 0
          BY <4>3, <4>4, <5>1
        <5>2. CASE ~(e \in table /\ stream[e].acks > 0)
          BY <4>3, <4>4, <5>2
        <5> QED BY <5>1, <5>2
      <4>6. ASSUME NEW x \in Side
            PROVE  stream'[x].inbox = stream[x].inbox /\ stream'[x].acks <= stream[x].acks
                   /\ stream'[x].acks \in Nat /\ stream[x].acks \in Nat
        BY <4>2, <4>3, <4>4, <4>5
      <4> QED BY <4>6
    <3> QED BY <3>1, WindowAssumption DEF Bounds, StreamsInBounds, ItemsFor
  <2>3. ReadersInBounds'
    BY <1>7 DEF HandleDataAck, Bounds, ReadersInBounds
  <2>4. WritersInBounds'
    BY <1>7 DEF HandleDataAck, Bounds, WritersInBounds
  <2> QED BY <2>1, <2>2, <2>3, <2>4 DEF Bounds
<1>8. CASE DialSucceeds
  <2>1. LinksInBounds' /\ late' \subseteq Side
    BY <1>8 DEF DialSucceeds, Bounds, LinksInBounds, FramesFor
  <2>2. StreamsInBounds'
    BY <1>8, DialSucceedsEffect, SameBounds, Sides DEF Bounds
  <2>3. ReadersInBounds'
    BY <1>8 DEF DialSucceeds, Bounds, ReadersInBounds
  <2>4. WritersInBounds'
    BY <1>8 DEF DialSucceeds, Bounds, WritersInBounds
  <2> QED BY <2>1, <2>2, <2>3, <2>4 DEF Bounds
<1>9. CASE DialFails
  <2>1. LinksInBounds' /\ late' \subseteq Side
    BY <1>9 DEF DialFails, Bounds, LinksInBounds, FramesFor
  <2>2. StreamsInBounds'
    BY <1>9, RemoveBounds, Sides DEF DialFails, Bounds
  <2>3. ReadersInBounds'
    BY <1>9 DEF DialFails, Bounds, ReadersInBounds
  <2>4. WritersInBounds'
    BY <1>9 DEF DialFails, Bounds, WritersInBounds
  <2> QED BY <2>1, <2>2, <2>3, <2>4 DEF Bounds
<1>10. CASE AnswerConnect
  <2>1. LinksInBounds' /\ late' \subseteq Side
    
    <3>1. UNCHANGED <<link, late>> \/ Transmit("target", Positive)
      BY <1>10 DEF AnswerConnect, SendIfBound, Positive
    <3>2. Positive \in FramesFor(Other("target"))
      BY Limits, Sides, FrameKinds DEF FramesFor
    <3> QED BY <3>1, <3>2, TransmitBounds, Sides DEF Bounds, LinksInBounds, FramesFor
  <2>2. StreamsInBounds'
    BY <1>10, AnswerConnectEffect, SameBounds, Sides DEF Bounds
  <2>3. ReadersInBounds'
    
    <3>1. taken' = taken /\ \A x \in Side : reader'[x] \in {reader[x], "wait"}
      BY <1>10 DEF AnswerConnect, Shape
    <3> QED BY <3>1 DEF Bounds, ReadersInBounds
  <2>4. WritersInBounds'
    BY <1>10 DEF AnswerConnect, Bounds, WritersInBounds
  <2> QED BY <2>1, <2>2, <2>3, <2>4 DEF Bounds
<1>11. ASSUME NEW e \in Side, ReaderStarts(e) PROVE Bounds'
  <2>1. LinksInBounds' /\ late' \subseteq Side
    BY <1>11 DEF ReaderStarts, ReaderAt, ReaderOnly, Bounds, LinksInBounds, FramesFor
  <2>2. StreamsInBounds'
    BY <1>11, SameBounds DEF ReaderStarts, ReaderAt, ReaderOnly, Bounds
  <2>3. ReadersInBounds'
    
    <3>1. taken' = taken /\ reader'[e] \in {"read", "done"} /\ \A x \in Side : x # e => reader'[x] = reader[x]
      BY <1>11 DEF ReaderStarts, ReaderAt, Shape
    <3> QED BY <3>1 DEF Bounds, ReadersInBounds
  <2>4. WritersInBounds'
    BY <1>11 DEF ReaderStarts, ReaderAt, ReaderOnly, Bounds, WritersInBounds
  <2> QED BY <2>1, <2>2, <2>3, <2>4 DEF Bounds
<1>12. ASSUME NEW e \in Side, ReadChunk(e) PROVE Bounds'
  <2>1. LinksInBounds' /\ late' \subseteq Side
    BY <1>12 DEF ReadChunk, ReaderAt, ReaderOnly, Bounds, LinksInBounds, FramesFor
  <2>2. StreamsInBounds'
    BY <1>12, SameBounds DEF ReadChunk, ReaderAt, ReaderOnly, Bounds
  <2>3. ReadersInBounds'
    
    <3>1. taken'[e] = taken[e] + 1 /\ taken[e] < Chunks[e] /\ reader'[e] = "chunk"
          /\ \A x \in Side : x # e => reader'[x] = reader[x] /\ taken'[x] = taken[x]
      BY <1>12 DEF ReadChunk, ReaderAt, Shape
    <3>2. taken[e] \in Nat /\ Chunks[e] \in Nat
      BY Limits DEF Shape
    <3> QED BY <3>1, <3>2 DEF Bounds, ReadersInBounds
  <2>4. WritersInBounds'
    BY <1>12 DEF ReadChunk, ReaderAt, ReaderOnly, Bounds, WritersInBounds
  <2> QED BY <2>1, <2>2, <2>3, <2>4 DEF Bounds
<1>13. ASSUME NEW e \in Side, ReadEOF(e) PROVE Bounds'
  <2>1. LinksInBounds' /\ late' \subseteq Side
    BY <1>13 DEF ReadEOF, ReaderAt, ReaderOnly, Bounds, LinksInBounds, FramesFor
  <2>2. StreamsInBounds'
    BY <1>13, SameBounds DEF ReadEOF, ReaderAt, ReaderOnly, Bounds
  <2>3. ReadersInBounds'
    
    <3>1. taken' = taken /\ reader'[e] \in {"eof"} /\ \A x \in Side : x # e => reader'[x] = reader[x]
      BY <1>13 DEF ReadEOF, ReaderAt, Shape
    <3> QED BY <3>1 DEF Bounds, ReadersInBounds
  <2>4. WritersInBounds'
    BY <1>13 DEF ReadEOF, ReaderAt, ReaderOnly, Bounds, WritersInBounds
  <2> QED BY <2>1, <2>2, <2>3, <2>4 DEF Bounds
<1>14. ASSUME NEW e \in Side, ReadClosed(e) PROVE Bounds'
  <2>1. LinksInBounds' /\ late' \subseteq Side
    BY <1>14 DEF ReadClosed, ReaderAt, ReaderOnly, Bounds, LinksInBounds, FramesFor
  <2>2. StreamsInBounds'
    BY <1>14, SameBounds DEF ReadClosed, ReaderAt, ReaderOnly, Bounds
  <2>3. ReadersInBounds'
    
    <3>1. taken' = taken /\ reader'[e] \in {"eof"} /\ \A x \in Side : x # e => reader'[x] = reader[x]
      BY <1>14 DEF ReadClosed, ReaderAt, Shape
    <3> QED BY <3>1 DEF Bounds, ReadersInBounds
  <2>4. WritersInBounds'
    BY <1>14 DEF ReadClosed, ReaderAt, ReaderOnly, Bounds, WritersInBounds
  <2> QED BY <2>1, <2>2, <2>3, <2>4 DEF Bounds
<1>15. ASSUME NEW e \in Side, AcquireSlot(e) PROVE Bounds'
  <2>1. LinksInBounds' /\ late' \subseteq Side
    BY <1>15 DEF AcquireSlot, ReaderAt, ReaderOnly, Bounds, LinksInBounds, FramesFor
  <2>2. StreamsInBounds'
    
    <3>1. /\ \A x \in Side : stream'[x].inbox = stream[x].inbox /\ (x # e => stream'[x] = stream[x])
          /\ stream'[e].acks = (IF Window = 0 THEN stream[e].acks ELSE stream[e].acks + 1)
      BY <1>15, AcquireSlotEffect
    <3>2. stream[e].acks \in Nat /\ Window \in Nat
      BY StreamFields, WindowAssumption DEF Shape
    <3>3. Window = 0 \/ stream[e].acks < Window
      BY <1>15 DEF AcquireSlot, SlotFree
    <3>4. stream'[e].acks <= Window
      BY <3>1, <3>2, <3>3 DEF Bounds, StreamsInBounds
    <3> QED BY <3>1, <3>4 DEF Bounds, StreamsInBounds, ItemsFor
  <2>3. ReadersInBounds'
    
    <3>1. taken' = taken /\ reader[e] = "chunk" /\ \A x \in Side : x # e => reader'[x] = reader[x]
      BY <1>15 DEF AcquireSlot, ReaderAt, Shape
    <3> QED BY <3>1 DEF Bounds, ReadersInBounds
  <2>4. WritersInBounds'
    BY <1>15 DEF AcquireSlot, ReaderAt, ReaderOnly, Bounds, WritersInBounds
  <2> QED BY <2>1, <2>2, <2>3, <2>4 DEF Bounds
<1>16. ASSUME NEW e \in Side, AcquireClosed(e) PROVE Bounds'
  <2>1. LinksInBounds' /\ late' \subseteq Side
    BY <1>16 DEF AcquireClosed, ReaderAt, ReaderOnly, Bounds, LinksInBounds, FramesFor
  <2>2. StreamsInBounds'
    BY <1>16, SameBounds DEF AcquireClosed, ReaderAt, ReaderOnly, Bounds
  <2>3. ReadersInBounds'
    
    <3>1. taken' = taken /\ reader'[e] \in {"eof"} /\ \A x \in Side : x # e => reader'[x] = reader[x]
      BY <1>16 DEF AcquireClosed, ReaderAt, Shape
    <3> QED BY <3>1 DEF Bounds, ReadersInBounds
  <2>4. WritersInBounds'
    BY <1>16 DEF AcquireClosed, ReaderAt, ReaderOnly, Bounds, WritersInBounds
  <2> QED BY <2>1, <2>2, <2>3, <2>4 DEF Bounds
<1>17. ASSUME NEW e \in Side, TransmitData(e) PROVE Bounds'
  <2>1. LinksInBounds' /\ late' \subseteq Side
    
    <3>1. Transmit(e, Data(taken[e])) /\ reader[e] = "transmit"
      BY <1>17 DEF TransmitData, ReaderAt
    <3>2. taken[e] \in 1..Chunks[e]
      BY <3>1, Limits DEF Bounds, ReadersInBounds, Shape
    <3>3. Data(taken[e]) \in FramesFor(Other(e))
      BY <3>2, Limits, Sides, FrameKinds DEF FramesFor
    <3> QED BY <3>1, <3>3, TransmitBounds DEF Bounds
  <2>2. StreamsInBounds'
    BY <1>17, SameBounds DEF TransmitData, ReaderAt, ReaderOnly, Bounds
  <2>3. ReadersInBounds'
    
    <3>1. taken' = taken /\ reader'[e] \in {"read", "eof"} /\ \A x \in Side : x # e => reader'[x] = reader[x]
      BY <1>17 DEF TransmitData, ReaderOnly, ReaderAt, Shape
    <3> QED BY <3>1 DEF Bounds, ReadersInBounds
  <2>4. WritersInBounds'
    BY <1>17 DEF TransmitData, ReaderAt, ReaderOnly, Bounds, WritersInBounds
  <2> QED BY <2>1, <2>2, <2>3, <2>4 DEF Bounds
<1>18. ASSUME NEW e \in Side, EnqueueEOF(e) PROVE Bounds'
  <2>1. LinksInBounds' /\ late' \subseteq Side
    BY <1>18 DEF EnqueueEOF, ReaderAt, ReaderOnly, Bounds, LinksInBounds, FramesFor
  <2>2. StreamsInBounds'
    
    <3>1. Enqueue(e, LocalEOF) /\ LocalEOF \in ItemsFor(e)
      BY <1>18, Limits, FrameKinds DEF EnqueueEOF, ItemsFor
    <3> QED BY <3>1, PutBounds DEF Bounds
  <2>3. ReadersInBounds'
    
    <3>1. taken' = taken /\ reader'[e] \in {"done"} /\ \A x \in Side : x # e => reader'[x] = reader[x]
      BY <1>18 DEF EnqueueEOF, ReaderAt, Shape
    <3> QED BY <3>1 DEF Bounds, ReadersInBounds
  <2>4. WritersInBounds'
    BY <1>18 DEF EnqueueEOF, ReaderAt, ReaderOnly, Bounds, WritersInBounds
  <2> QED BY <2>1, <2>2, <2>3, <2>4 DEF Bounds
<1>19. ASSUME NEW e \in Side, WriterStops(e) PROVE Bounds'
  <2>1. LinksInBounds' /\ late' \subseteq Side
    BY <1>19 DEF WriterStops, WriterOnly, WriterAt, Bounds, LinksInBounds, FramesFor
  <2>2. StreamsInBounds'
    BY <1>19, SameBounds DEF WriterStops, WriterOnly, WriterAt, Bounds
  <2>3. ReadersInBounds'
    BY <1>19 DEF WriterStops, WriterOnly, WriterAt, Bounds, ReadersInBounds
  <2>4. WritersInBounds'
    
    <3>1. UNCHANGED <<held, written>> /\ writer'[e] # "write" /\ \A x \in Side : x # e => writer'[x] = writer[x]
      BY <1>19 DEF WriterStops, WriterAt, Shape
    <3> QED BY <3>1 DEF Bounds, WritersInBounds
  <2> QED BY <2>1, <2>2, <2>3, <2>4 DEF Bounds
<1>20. ASSUME NEW e \in Side, TakeLocalEOF(e) PROVE Bounds'
  <2>1. LinksInBounds' /\ late' \subseteq Side
    BY <1>20 DEF TakeLocalEOF, WriterOnly, WriterAt, Bounds, LinksInBounds, FramesFor
  <2>2. StreamsInBounds'
    
    <3>1. Taking(e, "localEOF")
      BY <1>20 DEF TakeLocalEOF
    <3> QED BY <1>20, <3>1, TakeLocalEOFEffect, TailBounds DEF Bounds
  <2>3. ReadersInBounds'
    BY <1>20 DEF TakeLocalEOF, WriterOnly, WriterAt, Bounds, ReadersInBounds
  <2>4. WritersInBounds'
    
    <3>1. \A v : [writer EXCEPT ![e] = v][e] = v /\ \A x \in Side : x # e => [writer EXCEPT ![e] = v][x] = writer[x]
      BY DEF Shape
    <3>2. UNCHANGED <<held, written>> /\ writer'[e] # "write" /\ \A x \in Side : x # e => writer'[x] = writer[x]
      BY <1>20, <3>1 DEF TakeLocalEOF, WriterAt
    <3> QED BY <3>2 DEF Bounds, WritersInBounds
  <2> QED BY <2>1, <2>2, <2>3, <2>4 DEF Bounds
<1>21. ASSUME NEW e \in Side, RemoveFinished(e) PROVE Bounds'
  <2>1. LinksInBounds' /\ late' \subseteq Side
    BY <1>21 DEF RemoveFinished, WriterOnly, WriterAt, Bounds, LinksInBounds, FramesFor
  <2>2. StreamsInBounds'
    BY <1>21, RemoveBounds DEF RemoveFinished, Bounds
  <2>3. ReadersInBounds'
    BY <1>21 DEF RemoveFinished, WriterOnly, WriterAt, Bounds, ReadersInBounds
  <2>4. WritersInBounds'
    
    <3>1. UNCHANGED <<held, written>> /\ writer'[e] # "write" /\ \A x \in Side : x # e => writer'[x] = writer[x]
      BY <1>21 DEF RemoveFinished, WriterAt, Shape
    <3> QED BY <3>1 DEF Bounds, WritersInBounds
  <2> QED BY <2>1, <2>2, <2>3, <2>4 DEF Bounds
<1>22. ASSUME NEW e \in Side, HalfClose(e) PROVE Bounds'
  <2>1. LinksInBounds' /\ late' \subseteq Side
    
    <3>1. UNCHANGED <<link, late>> \/ Transmit(e, Fin)
      BY <1>22 DEF HalfClose
    <3>2. Fin \in FramesFor(Other(e))
      BY Limits, Sides, FrameKinds DEF FramesFor
    <3> QED BY <3>1, <3>2, TransmitBounds, Sides DEF Bounds, LinksInBounds, FramesFor
  <2>2. StreamsInBounds'
    BY <1>22, HalfCloseEffect, SameBounds DEF Bounds
  <2>3. ReadersInBounds'
    BY <1>22 DEF HalfClose, WriterOnly, WriterAt, Bounds, ReadersInBounds
  <2>4. WritersInBounds'
    
    <3>1. UNCHANGED <<held, written>> /\ writer'[e] # "write" /\ \A x \in Side : x # e => writer'[x] = writer[x]
      BY <1>22 DEF HalfClose, WriterAt, Shape
    <3> QED BY <3>1 DEF Bounds, WritersInBounds
  <2> QED BY <2>1, <2>2, <2>3, <2>4 DEF Bounds
<1>23. ASSUME NEW e \in Side, TakeRemoteFIN(e) PROVE Bounds'
  <2>1. LinksInBounds' /\ late' \subseteq Side
    BY <1>23 DEF TakeRemoteFIN, WriterOnly, WriterAt, Bounds, LinksInBounds, FramesFor
  <2>2. StreamsInBounds'
    
    <3>1. Taking(e, "FIN")
      BY <1>23 DEF TakeRemoteFIN
    <3> QED BY <1>23, <3>1, TakeRemoteFINEffect, TailBounds DEF Bounds
  <2>3. ReadersInBounds'
    BY <1>23 DEF TakeRemoteFIN, WriterOnly, WriterAt, Bounds, ReadersInBounds
  <2>4. WritersInBounds'
    
    <3>1. UNCHANGED <<held, written>>
      BY <1>23 DEF TakeRemoteFIN
    <3>2. writer' = [writer EXCEPT ![e] = "loop"] \/ writer' = [writer EXCEPT ![e] = "done"]
      BY <1>23 DEF TakeRemoteFIN, WriterAt
    <3>3. writer'[e] # "write" /\ \A x \in Side : x # e => writer'[x] = writer[x]
      BY <3>2 DEF Shape
    <3> QED BY <3>1, <3>3 DEF Bounds, WritersInBounds
  <2> QED BY <2>1, <2>2, <2>3, <2>4 DEF Bounds
<1>24. ASSUME NEW e \in Side, TakeData(e) PROVE Bounds'
  <2>1. LinksInBounds' /\ late' \subseteq Side
    BY <1>24 DEF TakeData, WriterOnly, WriterAt, Bounds, LinksInBounds, FramesFor
  <2>2. StreamsInBounds'
    
    <3>1. Taking(e, "DATA")
      BY <1>24 DEF TakeData
    <3> QED BY <1>24, <3>1, TakeDataEffect, TailBounds DEF Bounds
  <2>3. ReadersInBounds'
    BY <1>24 DEF TakeData, WriterOnly, WriterAt, Bounds, ReadersInBounds
  <2>4. WritersInBounds'
    
    <3>1. Taking(e, "DATA") /\ written' = written
      BY <1>24 DEF TakeData
    <3>2. Head(stream[e].inbox) \in ItemsFor(e) /\ Head(stream[e].inbox).type = "DATA"
      BY <1>24, <3>1, TakeDataEffect, TailBounds DEF Bounds, Taking
    <3>3. Head(stream[e].inbox).n \in 1..Chunks[Other(e)]
      BY <3>2, ItemKinds, Limits DEF ItemsFor
    <3>4. \A x \in Side : x # e => writer'[x] = writer[x] /\ held'[x] = held[x]
      BY <1>24 DEF TakeData, WriterAt, Shape
    <3>5. \/ writer'[e] = "done" /\ held'[e] = held[e]
          \/ writer'[e] = "write" /\ held'[e] = Head(stream[e].inbox).n
      BY <1>24 DEF TakeData, WriterAt, Shape
    <3>6. Chunks[Other(e)] \in Nat
      BY Limits
    <3> QED BY <3>1, <3>3, <3>4, <3>5, <3>6 DEF Bounds, WritersInBounds
  <2> QED BY <2>1, <2>2, <2>3, <2>4 DEF Bounds
<1>25. ASSUME NEW e \in Side, WriteSucceeds(e) PROVE Bounds'
  <2>1. LinksInBounds' /\ late' \subseteq Side
    BY <1>25 DEF WriteSucceeds, WriterOnly, WriterAt, Bounds, LinksInBounds, FramesFor
  <2>2. StreamsInBounds'
    BY <1>25, SameBounds DEF WriteSucceeds, WriterOnly, WriterAt, Bounds
  <2>3. ReadersInBounds'
    BY <1>25 DEF WriteSucceeds, WriterOnly, WriterAt, Bounds, ReadersInBounds
  <2>4. WritersInBounds'
    
    <3>1. writer[e] = "write" /\ writer'[e] # "write" /\ held'[e] = 0
          /\ written'[e] = Append(written[e], held[e])
          /\ \A x \in Side : x # e => writer'[x] = writer[x] /\ held'[x] = held[x] /\ written'[x] = written[x]
      BY <1>25 DEF WriteSucceeds, WriterAt, Shape
    <3>2. held[e] \in 1..Chunks[Other(e)] /\ Chunks[Other(e)] \in Nat /\ written[e] \in Seq(1..Chunks[Other(e)])
      BY <3>1, Limits DEF Bounds, WritersInBounds, Shape
    <3>3. written'[e] \in Seq(1..Chunks[Other(e)])
      BY <3>1, <3>2
    <3>4. ASSUME NEW x \in Side
          PROVE  /\ held'[x] <= Chunks[Other(x)] /\ (writer'[x] = "write" => held'[x] > 0)
                 /\ written'[x] \in Seq(1..Chunks[Other(x)])
      <4>1. CASE x = e
        <5>1. 0 <= Chunks[Other(e)]
          BY <3>2
        <5>2. /\ held'[e] <= Chunks[Other(e)] /\ writer'[e] # "write"
              /\ written'[e] \in Seq(1..Chunks[Other(e)])
          BY <3>1, <3>3, <5>1
        <5> QED BY <4>1, <5>2
      <4>2. CASE x # e
        BY <3>1, <4>2 DEF Bounds, WritersInBounds
      <4> QED BY <4>1, <4>2
    <3> QED BY <3>4 DEF WritersInBounds
  <2> QED BY <2>1, <2>2, <2>3, <2>4 DEF Bounds
<1>26. ASSUME NEW e \in Side, WriteFails(e) PROVE Bounds'
  <2>1. LinksInBounds' /\ late' \subseteq Side
    BY <1>26 DEF WriteFails, WriterOnly, WriterAt, Bounds, LinksInBounds, FramesFor
  <2>2. StreamsInBounds'
    BY <1>26, RemoveBounds DEF WriteFails, Bounds
  <2>3. ReadersInBounds'
    BY <1>26 DEF WriteFails, WriterOnly, WriterAt, Bounds, ReadersInBounds
  <2>4. WritersInBounds'
    
    <3>1. writer'[e] # "write" /\ held'[e] = 0 /\ written' = written
          /\ \A x \in Side : x # e => writer'[x] = writer[x] /\ held'[x] = held[x]
      BY <1>26 DEF WriteFails, WriterAt, Shape
    <3> QED BY <3>1, Limits DEF Bounds, WritersInBounds
  <2> QED BY <2>1, <2>2, <2>3, <2>4 DEF Bounds
<1>27. ASSUME NEW e \in Side, SendAck(e) PROVE Bounds'
  <2>1. LinksInBounds' /\ late' \subseteq Side
    
    <3>1. Transmit(e, DataAck)
      BY <1>27 DEF SendAck
    <3>2. DataAck \in FramesFor(Other(e))
      BY Limits, Sides, FrameKinds DEF FramesFor
    <3> QED BY <3>1, <3>2, TransmitBounds, Sides DEF Bounds, LinksInBounds, FramesFor
  <2>2. StreamsInBounds'
    BY <1>27, SameBounds DEF SendAck, WriterOnly, WriterAt, Bounds
  <2>3. ReadersInBounds'
    BY <1>27 DEF SendAck, WriterOnly, WriterAt, Bounds, ReadersInBounds
  <2>4. WritersInBounds'
    
    <3>1. UNCHANGED <<held, written>> /\ writer'[e] # "write" /\ \A x \in Side : x # e => writer'[x] = writer[x]
      BY <1>27 DEF SendAck, WriterAt, Shape
    <3> QED BY <3>1 DEF Bounds, WritersInBounds
  <2> QED BY <2>1, <2>2, <2>3, <2>4 DEF Bounds
<1>28. ASSUME NEW e \in Side, TimerFires(e) PROVE Bounds'
  <2>1. LinksInBounds' /\ late' \subseteq Side
    BY <1>28 DEF TimerFires, Bounds, LinksInBounds, FramesFor
  <2>2. StreamsInBounds'
    BY <1>28, TimerFiresEffect, SameBounds DEF Bounds
  <2>3. ReadersInBounds'
    BY <1>28 DEF TimerFires, Bounds, ReadersInBounds
  <2>4. WritersInBounds'
    BY <1>28 DEF TimerFires, Bounds, WritersInBounds
  <2> QED BY <2>1, <2>2, <2>3, <2>4 DEF Bounds
<1>29. ASSUME NEW e \in Side, FinishRemove(e) PROVE Bounds'
  <2>1. LinksInBounds' /\ late' \subseteq Side
    
    <3>1. UNCHANGED <<link, late>> \/ Transmit(e, Fin) \/ Transmit(e, Negative)
      BY <1>29 DEF FinishRemove, SendIfBound, Negative
    <3>2. Fin \in FramesFor(Other(e)) /\ Negative \in FramesFor(Other(e))
      BY Limits, Sides, FrameKinds DEF FramesFor
    <3> QED BY <3>1, <3>2, TransmitBounds DEF Bounds, LinksInBounds, FramesFor
  <2>2. StreamsInBounds'
    BY <1>29, FinishRemoveEffect, SameBounds DEF Bounds
  <2>3. ReadersInBounds'
    BY <1>29 DEF FinishRemove, Bounds, ReadersInBounds
  <2>4. WritersInBounds'
    BY <1>29 DEF FinishRemove, Bounds, WritersInBounds
  <2> QED BY <2>1, <2>2, <2>3, <2>4 DEF Bounds
<1>30. ASSUME NEW e \in Side, RemoveSession(e) PROVE Bounds'
  <2>1. LinksInBounds' /\ late' \subseteq Side
    BY <1>30 DEF RemoveSession, Bounds, LinksInBounds, FramesFor
  <2>2. StreamsInBounds'
    BY <1>30, SameBounds DEF RemoveSession, Bounds
  <2>3. ReadersInBounds'
    BY <1>30 DEF RemoveSession, Bounds, ReadersInBounds
  <2>4. WritersInBounds'
    BY <1>30 DEF RemoveSession, Bounds, WritersInBounds
  <2> QED BY <2>1, <2>2, <2>3, <2>4 DEF Bounds
<1>31. ASSUME NEW e \in Side, CloseStreams(e) PROVE Bounds'
  <2>1. LinksInBounds' /\ late' \subseteq Side
    
    <3>1. link' = [s \in Side |-> <<>>] /\ late' = late
      BY <1>31 DEF CloseStreams
    <3>2. \A x \in Side : link'[x] \in Seq(FramesFor(x))
      BY <3>1
    <3> QED BY <3>1, <3>2 DEF Bounds, LinksInBounds, FramesFor
  <2>2. StreamsInBounds'
    BY <1>31, RemoveBounds, SameBounds DEF CloseStreams, Bounds
  <2>3. ReadersInBounds'
    BY <1>31 DEF CloseStreams, Bounds, ReadersInBounds
  <2>4. WritersInBounds'
    BY <1>31 DEF CloseStreams, Bounds, WritersInBounds
  <2> QED BY <2>1, <2>2, <2>3, <2>4 DEF Bounds
<1>32. CASE UNCHANGED vars
  <2>1. Bounds => Bounds'
    BY <1>32 DEF vars, Bounds, LinksInBounds, StreamsInBounds, ReadersInBounds, WritersInBounds,
       FramesFor, ItemsFor
  <2> QED BY <2>1
<1> QED BY <1>1, <1>2, <1>3, <1>4, <1>5, <1>6, <1>7, <1>8, <1>9, <1>10, <1>11,
   <1>12, <1>13, <1>14, <1>15, <1>16, <1>17, <1>18, <1>19, <1>20, <1>21,
   <1>22, <1>23, <1>24, <1>25, <1>26, <1>27, <1>28, <1>29, <1>30, <1>31,
   <1>32, Steps

LEMMA InitBounds == Init => Bounds
<1> SUFFICES ASSUME Init PROVE Bounds
  OBVIOUS
<1>1. ASSUME NEW x \in Side
      PROVE  /\ link[x] = <<>> /\ stream[x].inbox = <<>> /\ stream[x].acks = 0
             /\ taken[x] = 0 /\ held[x] = 0 /\ written[x] = <<>>
             /\ reader[x] = "none" /\ writer[x] = "none"
  BY DEF Init, NewStream
<1>2. \A S : <<>> \in Seq(S)
  OBVIOUS
<1>3. Len(<<>>) = 0 /\ Window \in Nat /\ InboxCap \in Nat
  BY WindowAssumption, InboxCapAssumption
<1>4. LinksInBounds
  BY <1>1, <1>2 DEF LinksInBounds
<1>5. StreamsInBounds
  <2> SUFFICES ASSUME NEW x \in Side
               PROVE  /\ stream[x].inbox \in Seq(ItemsFor(x)) /\ Len(stream[x].inbox) <= InboxCap
                      /\ stream[x].acks <= Window
    BY DEF StreamsInBounds
  <2>1. stream[x].inbox \in Seq(ItemsFor(x))
    BY <1>1, <1>2
  <2>2. Len(stream[x].inbox) = 0 /\ stream[x].acks = 0
    BY <1>1, <1>3
  <2> QED BY <1>3, <2>1, <2>2
<1>6. ReadersInBounds
  BY <1>1, Limits DEF ReadersInBounds
<1>7. WritersInBounds
  <2> SUFFICES ASSUME NEW x \in Side
               PROVE  /\ held[x] <= Chunks[Other(x)] /\ (writer[x] = "write" => held[x] > 0)
                      /\ written[x] \in Seq(1..Chunks[Other(x)])
    BY DEF WritersInBounds
  <2>1. held[x] <= Chunks[Other(x)] /\ writer[x] # "write"
    BY <1>1, Limits
  <2>2. written[x] \in Seq(1..Chunks[Other(x)])
    BY <1>1, <1>2
  <2> QED BY <2>1, <2>2
<1>8. late = {}
  BY DEF Init
<1> QED BY <1>4, <1>5, <1>6, <1>7, <1>8 DEF Bounds

-----------------------------------------------------------------------------
(* All of it together.                                                     *)

\* Fresh, once left, is never reached again.
LEMMA FreshStep == Shape /\ FreshInv /\ [Next]_vars => FreshInv'
<1>1. CASE Shape /\ FreshInv /\ [Next]_vars /\ Fresh
  BY <1>1, FreshKeeps
<1>2. CASE Shape /\ FreshInv /\ [Next]_vars /\ ~Fresh
  <2>1. ~Fresh'
    BY <1>2, FreshEnds
  <2>2. accepting' = "done" /\ receiving' # "bound"
    BY <1>2, <2>1, ShapeStep DEF Fresh, Shape
  <2> QED BY <2>1, <2>2 DEF FreshInv
<1> QED BY <1>1, <1>2

IInv == Shape /\ FreshInv /\ Life /\ Answer /\ Ending /\ Tokens /\ Order

LEMMA InitInv == Init => IInv
<1> SUFFICES ASSUME Init PROVE IInv
  OBVIOUS
<1>1. NewStream("none") \in Stream
  BY NewStreamType
<1>2. /\ NewStream("none").inbox = <<>> /\ NewStream("none").acks = 0
      /\ ~NewStream("none").closed /\ ~NewStream("none").ready /\ ~NewStream("none").timer
      /\ NewStream("none").finSent = FALSE
  BY DEF NewStream
<1>3. /\ stream = [e \in Side |-> NewStream("none")] /\ link = [e \in Side |-> <<>>]
      /\ remover = [e \in Side |-> NotRemoving]
  BY DEF Init
<1>4. Shape
  <2>1. stream \in Streams /\ remover \in Removers
    BY <1>1, <1>3, RemoverTypes DEF Streams, Removers
  <2>2. <<>> \in Seq(Msg) /\ <<>> \in Seq(Nat)
    BY MsgSeq
  <2> QED BY <2>1, <2>2 DEF Init, Shape
<1>5. NotRemoving.step = "none" /\ NotRemoving.final = "none"
  BY DEF NotRemoving
<1>6. \A e \in Side : stream[e] = NewStream("none") /\ link[e] = <<>> /\ remover[e] = NotRemoving
  BY <1>3
<1>7. FreshInv
  BY <1>2, <1>5, <1>6, Sides DEF Init, FreshInv
<1>8. Life
  BY <1>2, <1>5, <1>6, Sides DEF Init, Life, NoOrphanAtOpener
<1>9. Answer
  BY <1>2, <1>5, <1>6, Sides, HasNone, HoldsNone DEF Init, Answer
<1>10. Ending
  BY <1>2, <1>5, <1>6, OnlyItemsNone DEF Init, Ending, EndingAt
<1>11. Tokens
  <2>1. \A e \in Side : Owed(e) = 0 /\ stream[e].acks = 0
    <3>1. \A x \in Side : DataTo(x) = 0 /\ AcksTo(x) = 0 /\ Queued(x) = 0
      <4>1. HowMany(<<>>, "DATA") = 0 /\ HowMany(<<>>, "DATA_ACK") = 0
        BY HowManyNone
      <4> QED BY <1>2, <1>6, <4>1 DEF DataTo, AcksTo, Queued
    <3>2. \A x \in Side : SendingBy(x) = 0 /\ WritingAt(x) = 0
      BY DEF Init, SendingBy, WritingAt
    <3> QED BY <1>2, <1>6, <3>1, <3>2, Sides DEF Owed
  <2> QED BY <2>1, WindowAssumption DEF Tokens
<1>12. Order
  <2>1. Untouched
    BY <1>2, <1>4, <1>6, HasNone DEF Init, Untouched, Shape
  <2> QED BY <2>1, UntouchedOrder
<1> QED BY <1>4, <1>7, <1>8, <1>9, <1>10, <1>11, <1>12 DEF IInv

\* IInv is inductive: each group is kept by the groups before it.
THEOREM Inductive == Spec => []IInv
<1>1. IInv /\ [Next]_vars => IInv'
  BY ShapeStep, FreshStep, LifeStep, AnswerStep, EndingStep, TokensStep, OrderStep DEF IInv
<1> QED BY InitInv, <1>1, PTL DEF Spec

(***************************************************************************)
(* A lost session leaves no orphan at the opener, wherever acceptLoop was  *)
(* when RemoveSession ran (acceptLoop, RemoveSession, CloseStreams).       *)
(***************************************************************************)
THEOREM NoOrphan == Spec => []NoOrphanAtOpener
<1>1. IInv => NoOrphanAtOpener
  BY DEF IInv, Life
<1> QED BY <1>1, Inductive, PTL

(***************************************************************************)
(* No slot of the window is lost or minted while both ends hold the stream *)
(* and the session is up (readLoop, writeLoop, onACK), for every window.   *)
(***************************************************************************)
THEOREM WindowIsConserved == Spec => []WindowConserved
<1>1. IInv => WindowConserved
  <2> SUFFICES ASSUME IInv, Window > 0, table = Side, up = Side, alive, NEW e \in Side
               PROVE stream[e].acks = One(reader[e] = "transmit")
                       + HowMany(link[Other(e)], "DATA") + HowMany(stream[Other(e)].inbox, "DATA")
                       + One(writer[Other(e)] = "write") + One(writer[Other(e)] = "ack")
                       + HowMany(link[e], "DATA_ACK")
    BY DEF WindowConserved
  <2>1. Owed(e) = stream[e].acks
    BY DEF IInv, Tokens
  <2>2. One(reader[e] = "transmit") = SendingBy(e)
    BY DEF One, SendingBy
  <2>3. One(writer[Other(e)] = "write") + One(writer[Other(e)] = "ack") = WritingAt(Other(e))
    BY DEF One, WritingAt
  <2>4. /\ SendingBy(e) \in Nat /\ DataTo(Other(e)) \in Nat /\ Queued(Other(e)) \in Nat
        /\ WritingAt(Other(e)) \in Nat /\ AcksTo(e) \in Nat
        /\ One(writer[Other(e)] = "write") \in Nat /\ One(writer[Other(e)] = "ack") \in Nat
    BY TokenTypes, Sides DEF IInv, One
  <2> QED BY <2>1, <2>2, <2>3, <2>4 DEF Owed, DataTo, Queued, AcksTo
<1> QED BY <1>1, Inductive, PTL

(***************************************************************************)
(* With windows no larger than the inbox, a DATA frame never has to wait   *)
(* for the local application while both ends hold the stream               *)
(* (HandleFrame, enqueue).                                                 *)
(***************************************************************************)
THEOREM DataNeverWaits == Spec => []DataNeverWaitsForApplication
<1>1. IInv => DataNeverWaitsForApplication
  <2> SUFFICES ASSUME IInv, Window \in 1..InboxCap, table = Side, NEW e \in Side,
                      writer[e] = "write", Arrives(e, "DATA")
               PROVE  HasRoom(e)
    BY DEF DataNeverWaitsForApplication
  <2> DEFINE p == Other(e)
             q == stream[e].inbox
  <2>1. p \in Side /\ Other(p) = e /\ Window \in Nat /\ Window > 0 /\ InboxCap \in Nat /\ Window <= InboxCap
    BY Sides, InboxCapAssumption
  <2> HIDE DEF p
  <2>2. /\ q \in Seq(Msg) /\ OnlyItems(q) /\ Len(q) \in Nat
        /\ link[e] \in Seq(Msg) /\ link[e] # <<>> /\ Head(link[e]).type = "DATA"
    <3>1. q \in Seq(Msg) /\ OnlyItems(q)
      BY InboxKept DEF IInv
    <3> QED BY <3>1 DEF IInv, Shape, Arrives
  <2>3. alive
    BY DeadLink DEF IInv
  <2>4. Len(q) = HowMany(q, "DATA") + HowMany(q, "FIN") + HowMany(q, "localEOF")
        /\ HowMany(q, "DATA") \in Nat /\ HowMany(q, "FIN") \in Nat /\ HowMany(q, "localEOF") \in Nat
    BY <2>2, InboxLength, HowManyIsNat DEF OnlyItems
  <2>5. HowMany(q, "localEOF") <= 1
    <3>1. HowMany(q, "localEOF") <= (IF reader[e] = "done" THEN 1 ELSE 0)
      BY DEF IInv, Ending, EndingAt
    <3> QED BY <2>4, <3>1
  <2>6. HowMany(q, "DATA") + 2 <= Window
    <3>1. Owed(p) <= stream[p].acks /\ stream[p].acks <= Window
      BY <2>1 DEF IInv, Tokens
    <3>2. /\ SendingBy(p) \in Nat /\ DataTo(e) \in Nat /\ Queued(e) \in Nat
          /\ WritingAt(e) = 1 /\ AcksTo(p) \in Nat /\ stream[p].acks \in Nat
      BY <2>1, TokenTypes DEF IInv, WritingAt
    <3>3. Owed(p) = SendingBy(p) + DataTo(e) + Queued(e) + 1 + AcksTo(p)
      BY <2>1, <3>2 DEF Owed
    <3>4. DataTo(e) >= 1
      <4>1. Has(link[e], "DATA")
        BY <2>2, HasTail
      <4>2. DataTo(e) # 0
        BY <2>2, <4>1, HowManyHas DEF DataTo
      <4> QED BY <3>2, <4>2
    <3> QED BY <2>1, <3>1, <3>2, <3>3, <3>4 DEF Queued
  <2>7. HowMany(q, "FIN") = 0
    <3>1. p \notin aborted
      BY <2>1 DEF IInv, Ending, EndingAt
    <3>2. PICK b \in 0..taken[p] : Arriving(p, b) /\ \E c \in 0..taken[p] : Leaving(p, b, c)
      BY <2>1, <2>3 DEF IInv, Order, Way
    <3>3. PICK c \in 0..taken[p] : Leaving(p, b, c)
      BY <3>2
    <3>4. taken[p] \in Nat /\ b \in Nat /\ c \in Nat
      BY <2>1, <3>2, <3>3 DEF IInv, Shape
    <3>5. ASSUME Has(q, "FIN") PROVE FALSE
      <4>1. b = taken[p]
        BY <2>1, <3>1, <3>2, <3>5 DEF Arriving, Complete
      <4>2. Run(link[e], b, c) /\ b <= c
        BY <2>1, <3>3 DEF Leaving
      <4>3. b + 1 <= c
        BY <2>2, <3>4, <4>2, RunTail
      <4> QED BY <3>3, <3>4, <4>1, <4>3
    <3> QED BY <2>2, <3>5, HowManyHas
  <2> QED BY <2>1, <2>2, <2>4, <2>5, <2>6, <2>7 DEF HasRoom
<1> QED BY <1>1, Inductive, PTL

(***************************************************************************)
(* Every variable keeps its type: no inbox outgrows max_in_flight, no end  *)
(* has more than its window in flight, and nothing reads, carries or       *)
(* writes a chunk the application did not send (acquireSlot, enqueue,      *)
(* readLoop, writeLoop), for every window, inbox and amount of data.       *)
(***************************************************************************)
THEOREM TypeIsKept == Spec => []TypeOK
<1>1. Shape /\ Bounds => TypeOK
  <2> SUFFICES ASSUME Shape, Bounds PROVE TypeOK
    OBVIOUS
  <2>1. DOMAIN stream = Side
    BY DEF Shape, Streams
  <2>2. ASSUME NEW e \in Side
        PROVE  /\ stream[e].conn \in {"none", "open", "shut", "closed"}
               /\ stream[e].inbox \in Seq(Item(Chunks[Other(e)]))
               /\ Len(stream[e].inbox) <= InboxCap
               /\ stream[e].acks \in 0..Window
               /\ stream[e].ready \in BOOLEAN /\ stream[e].closed \in BOOLEAN
               /\ stream[e].finSent \in BOOLEAN /\ stream[e].finRecv \in BOOLEAN
               /\ stream[e].timer \in BOOLEAN
    <3>1. stream \in Streams
      BY DEF Shape
    <3>2. /\ stream[e].inbox \in Seq(Item(Chunks[Other(e)])) /\ Len(stream[e].inbox) <= InboxCap
          /\ stream[e].acks <= Window
      BY DEF Bounds, StreamsInBounds, ItemsFor
    <3>3. stream[e].acks \in 0..Window
      BY <3>1, <3>2, StreamFields, WindowAssumption
    <3> QED BY <3>1, <3>2, <3>3, StreamFields
  <2>3. ASSUME NEW e \in Side
        PROVE  /\ reader[e] \in {"none", "wait", "read", "chunk", "transmit", "eof", "done"}
               /\ writer[e] \in {"none", "loop", "write", "ack", "fin", "arm", "remove", "done"}
               /\ held[e] \in 0..Chunks[Other(e)]
               /\ monitor[e] \in {"watch", "close", "drop", "done"}
               /\ taken[e] \in 0..Chunks[e]
    <3>1. held[e] \in Nat /\ taken[e] \in Nat
      BY DEF Shape
    <3>2. held[e] <= Chunks[Other(e)] /\ taken[e] <= Chunks[e]
      BY DEF Bounds, ReadersInBounds, WritersInBounds
    <3>3. held[e] \in 0..Chunks[Other(e)] /\ taken[e] \in 0..Chunks[e]
      BY <3>1, <3>2, Limits
    <3> QED BY <3>3 DEF Shape
  <2>4. ASSUME NEW e \in Side
        PROVE  /\ remover[e] \in [step : {"none", "close", "done"}, final : {"none", "FIN", "SYN_ACK"}]
               /\ link[e] \in Seq(Frame(Chunks[Other(e)]))
               /\ written[e] \in Seq(1..Chunks[Other(e)])
    <3>1. remover[e] \in Remover
      BY DEF Shape, Removers
    <3> QED BY <3>1 DEF Remover, Bounds, LinksInBounds, WritersInBounds, FramesFor
  <2>5. /\ table \subseteq Side /\ bound \subseteq Side /\ up \subseteq Side
        /\ ended \subseteq Side /\ aborted \subseteq Side /\ late \subseteq Side
        /\ accepting \in {"accept", "connect", "done"}
        /\ receiving \in {"idle", "bound"}
        /\ dialing \in {"none", "dial", "answer", "done"}
        /\ alive \in BOOLEAN
    BY DEF Shape, Bounds
  <2> QED BY <2>1, <2>2, <2>3, <2>4, <2>5 DEF TypeOK
<1>2. IInv /\ Bounds /\ [Next]_vars => Bounds'
  BY BoundsStep DEF IInv
<1>3. IInv => Shape
  BY DEF IInv
<1> QED BY <1>1, <1>2, <1>3, InitBounds, Inductive, PTL DEF Spec

-----------------------------------------------------------------------------
(* The stream is a pipe.                                                   *)

\* Every step is a step of the pipe, or changes nothing of it.
LEMMA PipeStep == IInv /\ [Next]_vars => [Pipe!Next]_(Pipe!pipeVars)
<1> SUFFICES ASSUME IInv, [Next]_vars PROVE [Pipe!Next]_(Pipe!pipeVars)
  OBVIOUS
<1> USE DEF streamVars, goroutines, session, history
<1>1. CASE Accept
  BY <1>1 DEF Accept, Pipe!pipeVars
<1>2. CASE SendConnect
  BY <1>2 DEF SendConnect, Pipe!pipeVars
<1>3. CASE BindConnect
  BY <1>3 DEF BindConnect, Pipe!pipeVars
<1>4. CASE HandleConnect
  BY <1>4 DEF HandleConnect, Pipe!pipeVars
<1>5. ASSUME NEW e \in Side, HandleSynAck(e) PROVE [Pipe!Next]_(Pipe!pipeVars)
  BY <1>5 DEF HandleSynAck, Pipe!pipeVars
<1>6. ASSUME NEW e \in Side, HandleQueued(e) PROVE [Pipe!Next]_(Pipe!pipeVars)
  BY <1>6 DEF HandleQueued, Pipe!pipeVars
<1>7. ASSUME NEW e \in Side, HandleDataAck(e) PROVE [Pipe!Next]_(Pipe!pipeVars)
  BY <1>7 DEF HandleDataAck, Pipe!pipeVars
<1>8. CASE DialSucceeds
  BY <1>8 DEF DialSucceeds, Pipe!pipeVars
<1>9. CASE DialFails
  BY <1>9 DEF DialFails, Pipe!pipeVars
<1>10. CASE AnswerConnect
  BY <1>10 DEF AnswerConnect, Pipe!pipeVars
<1>11. ASSUME NEW e \in Side, ReaderStarts(e) PROVE [Pipe!Next]_(Pipe!pipeVars)
  BY <1>11 DEF ReaderStarts, ReaderOnly, Pipe!pipeVars
<1>12. ASSUME NEW e \in Side, ReadChunk(e) PROVE [Pipe!Next]_(Pipe!pipeVars)
  <2>1. Pipe!Send(e)
    BY <1>12 DEF ReadChunk, ReaderOnly, Pipe!Send
  <2> QED BY <2>1 DEF Pipe!Next
<1>13. ASSUME NEW e \in Side, ReadEOF(e) PROVE [Pipe!Next]_(Pipe!pipeVars)
  BY <1>13 DEF ReadEOF, ReaderOnly, Pipe!pipeVars
<1>14. ASSUME NEW e \in Side, ReadClosed(e) PROVE [Pipe!Next]_(Pipe!pipeVars)
  BY <1>14 DEF ReadClosed, ReaderOnly, Pipe!pipeVars
<1>15. ASSUME NEW e \in Side, AcquireSlot(e) PROVE [Pipe!Next]_(Pipe!pipeVars)
  BY <1>15 DEF AcquireSlot, ReaderOnly, Pipe!pipeVars
<1>16. ASSUME NEW e \in Side, AcquireClosed(e) PROVE [Pipe!Next]_(Pipe!pipeVars)
  BY <1>16 DEF AcquireClosed, ReaderOnly, Pipe!pipeVars
<1>17. ASSUME NEW e \in Side, TransmitData(e) PROVE [Pipe!Next]_(Pipe!pipeVars)
  BY <1>17 DEF TransmitData, ReaderOnly, Pipe!pipeVars
<1>18. ASSUME NEW e \in Side, EnqueueEOF(e) PROVE [Pipe!Next]_(Pipe!pipeVars)
  BY <1>18 DEF EnqueueEOF, ReaderOnly, Pipe!pipeVars
<1>19. ASSUME NEW e \in Side, WriterStops(e) PROVE [Pipe!Next]_(Pipe!pipeVars)
  BY <1>19 DEF WriterStops, WriterOnly, Pipe!pipeVars
<1>20. ASSUME NEW e \in Side, TakeLocalEOF(e) PROVE [Pipe!Next]_(Pipe!pipeVars)
  BY <1>20 DEF TakeLocalEOF, WriterOnly, Pipe!pipeVars
<1>21. ASSUME NEW e \in Side, RemoveFinished(e) PROVE [Pipe!Next]_(Pipe!pipeVars)
  BY <1>21 DEF RemoveFinished, WriterOnly, Pipe!pipeVars
<1>22. ASSUME NEW e \in Side, HalfClose(e) PROVE [Pipe!Next]_(Pipe!pipeVars)
  BY <1>22 DEF HalfClose, WriterOnly, Pipe!pipeVars
<1>23. ASSUME NEW e \in Side, TakeRemoteFIN(e) PROVE [Pipe!Next]_(Pipe!pipeVars)
  <2> DEFINE p == Other(e)
             q == stream[e].inbox
  <2>0. p \in Side /\ Other(p) = e
    BY Sides
  <2> HIDE DEF p
  <2>1. CASE stream[e].finRecv
    BY <1>23, <2>1 DEF TakeRemoteFIN, WriterOnly, Pipe!pipeVars
  <2>2. CASE ~stream[e].finRecv
    <3>1. /\ ended' = ended \cup {e} /\ writer[e] = "loop" /\ Taking(e, "FIN")
          /\ UNCHANGED <<taken, written, aborted>>
      BY <1>23, <2>2 DEF TakeRemoteFIN, WriterAt, WriterOnly
    <3>2. e \notin ended
      BY <2>2 DEF IInv, Ending, EndingAt
    <3>3. PICK b \in 0..taken[p] : Arriving(p, b)
      BY <2>0, <3>1 DEF IInv, Order, Way
    <3>4. /\ q \in Seq(Msg) /\ q # <<>> /\ Head(q).type = "FIN"
          /\ b \in Nat /\ Start(e) \in Nat
      <4>1. Shape /\ Ending
        BY DEF IInv
      <4>2. q \in Seq(Msg) /\ Start(e) \in Nat
        BY <4>1, InboxKept, StartIsNat
      <4>3. q # <<>> /\ Head(q).type = "FIN"
        BY <3>1 DEF Taking
      <4>4. b \in Nat
        BY <2>0, <3>3, <4>1 DEF Shape
      <4> QED BY <4>2, <4>3, <4>4
    <3>5. Has(q, "FIN")
      BY <3>4, HasTail
    <3>6. CASE p \notin aborted
      <4>1. b = taken[p]
        BY <2>0, <3>3, <3>5, <3>6 DEF Arriving, Complete
      <4>2. ~Has(q, "DATA")
        BY <2>0, <3>3, <3>4, <3>6, FinTail DEF Arriving
      <4>3. Start(e) = b
        BY <2>0, <3>3, <3>4, <4>2, RunEmpty DEF Arriving
      <4>4. Len(written[e]) = taken[p]
        <5>1. Start(e) = Len(written[e]) + 0
          BY <3>1 DEF Start
        <5>2. Len(written[e]) \in Nat
          <6>1. written[e] \in Seq(Nat)
            BY DEF IInv, Shape
          <6> QED BY <6>1
        <5> QED BY <4>1, <4>3, <5>1, <5>2
      <4>5. Pipe!End(e)
        BY <2>0, <3>1, <3>2, <4>4 DEF Pipe!End, p
      <4> QED BY <4>5 DEF Pipe!Next
    <3>7. CASE p \in aborted
      <4>1. Pipe!End(e)
        BY <2>0, <3>1, <3>2, <3>7 DEF Pipe!End, p
      <4> QED BY <4>1 DEF Pipe!Next
    <3> QED BY <3>6, <3>7
  <2> QED BY <2>1, <2>2
<1>24. ASSUME NEW e \in Side, TakeData(e) PROVE [Pipe!Next]_(Pipe!pipeVars)
  BY <1>24 DEF TakeData, WriterOnly, Pipe!pipeVars
<1>25. ASSUME NEW e \in Side, WriteSucceeds(e) PROVE [Pipe!Next]_(Pipe!pipeVars)
  <2> DEFINE p == Other(e)
  <2>0. p \in Side /\ Other(p) = e
    BY Sides
  <2> HIDE DEF p
  <2>1. stream[e].conn = "open" /\ writer[e] = "write"
    BY <1>25 DEF WriteSucceeds, WriterAt
  <2>2. e \notin ended
    BY <2>1 DEF IInv, Ending, EndingAt
  <2>3. held[e] = Len(written[e]) + 1
    BY <2>1 DEF IInv, Order, Holding
  <2>4. PICK b \in 0..taken[p] : Arriving(p, b)
    BY <2>0, <2>1 DEF IInv, Order, Way
  <2>5. Len(written[e]) + 1 <= taken[p]
    <3>1. Start(e) = Len(written[e]) + 1
      BY <2>1 DEF Start
    <3>2. Start(e) <= b /\ taken[p] \in Nat /\ Start(e) \in Nat
      BY <2>0, <2>4, StartIsNat DEF Arriving, IInv, Shape
    <3> QED BY <2>4, <3>1, <3>2
  <2>6. Pipe!Deliver(e)
    BY <1>25, <2>0, <2>2, <2>3, <2>5 DEF WriteSucceeds, WriterOnly, Pipe!Deliver, p
  <2> QED BY <2>6 DEF Pipe!Next
<1>26. ASSUME NEW e \in Side, WriteFails(e) PROVE [Pipe!Next]_(Pipe!pipeVars)
  <2>1. CASE e \in table
    <3>1. e \notin aborted
      BY <2>1 DEF IInv, Ending, EndingAt
    <3>2. Pipe!Abort(e)
      BY <1>26, <2>1, <3>1 DEF WriteFails, WriterOnly, Pipe!Abort
    <3> QED BY <3>2 DEF Pipe!Next
  <2>2. CASE e \notin table
    BY <1>26, <2>2 DEF WriteFails, WriterOnly, Pipe!pipeVars
  <2> QED BY <2>1, <2>2
<1>27. ASSUME NEW e \in Side, SendAck(e) PROVE [Pipe!Next]_(Pipe!pipeVars)
  BY <1>27 DEF SendAck, WriterOnly, Pipe!pipeVars
<1>28. ASSUME NEW e \in Side, TimerFires(e) PROVE [Pipe!Next]_(Pipe!pipeVars)
  <2>1. CASE e \in table
    <3>1. e \notin aborted
      BY <2>1 DEF IInv, Ending, EndingAt
    <3>2. Pipe!Abort(e)
      BY <1>28, <2>1, <3>1 DEF TimerFires, Pipe!Abort
    <3> QED BY <3>2 DEF Pipe!Next
  <2>2. CASE e \notin table
    BY <1>28, <2>2 DEF TimerFires, Pipe!pipeVars
  <2> QED BY <2>1, <2>2
<1>29. ASSUME NEW e \in Side, FinishRemove(e) PROVE [Pipe!Next]_(Pipe!pipeVars)
  BY <1>29 DEF FinishRemove, Pipe!pipeVars
<1>30. ASSUME NEW e \in Side, RemoveSession(e) PROVE [Pipe!Next]_(Pipe!pipeVars)
  BY <1>30 DEF RemoveSession, Pipe!pipeVars
<1>31. ASSUME NEW e \in Side, CloseStreams(e) PROVE [Pipe!Next]_(Pipe!pipeVars)
  BY <1>31 DEF CloseStreams, Pipe!pipeVars
<1>32. CASE UNCHANGED vars
  BY <1>32 DEF vars, Pipe!pipeVars
<1> QED BY <1>1, <1>2, <1>3, <1>4, <1>5, <1>6, <1>7, <1>8, <1>9, <1>10, <1>11,
   <1>12, <1>13, <1>14, <1>15, <1>16, <1>17, <1>18, <1>19, <1>20, <1>21,
   <1>22, <1>23, <1>24, <1>25, <1>26, <1>27, <1>28, <1>29, <1>30, <1>31,
   <1>32, Steps

(***************************************************************************)
(* A forwarded connection is a duplex pipe: its chunks arrive in order and *)
(* without a gap, and the end of the data after all of them unless the     *)
(* sending end was torn down by a failure (readLoop, writeLoop,            *)
(* handleRemoteFIN), for every window, inbox, amount of data and fault.    *)
(***************************************************************************)
THEOREM StreamIsPipe == Spec => ImplementsPipe
<1>1. Init => Pipe!Init
  BY DEF Init, Pipe!Init
<1> QED BY <1>1, PipeStep, Inductive, PTL DEF Spec, ImplementsPipe, Pipe!Spec
=============================================================================
