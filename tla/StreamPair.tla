------------------------------ MODULE StreamPair ------------------------------
(***************************************************************************)
(* One forwarded TCP connection of pkg/tunnel, both ends of it.            *)
(*                                                                         *)
(* The "opener" is the tunnel whose listener accepted the local            *)
(* connection; the "target" is the tunnel that dials for the peer.  Each   *)
(* end runs the goroutines of the source: the accept loop or the dial      *)
(* goroutine, readLoop, writeLoop, the half-close timer callback, the      *)
(* transport's receive goroutine (HandleFrame) and the session monitor.    *)
(* Every control state below is a point where another goroutine can run.   *)
(*                                                                         *)
(* A frame is sent through the session pool in two halves: the binding is  *)
(* looked up, then the session transmits (SendRoutedFrame holds no lock    *)
(* between the two).  The lookup is merged into the step before it, which  *)
(* is the only place where its outcome could have differed.                *)
(*                                                                         *)
(* A definition that no action uses, placed just before the one it         *)
(* resembles (DropWhenFull, SlotFreeUpToWindow, ...), is a plausible bug:  *)
(* put in the place of its neighbour it must break a property.             *)
(***************************************************************************)
EXTENDS Naturals, Sequences, FiniteSets

CONSTANTS
  Window,    \* effectiveMaxInFlight: DATA frames in flight, 0 for no flow control
  InboxCap,  \* network.MaxInFlight: capacity of a stream's inbox
  Chunks,    \* [Side -> Nat]: the most reads each local application feeds (a bound)
  Faults     \* which faults the environment may inject

Side == {"opener", "target"}
Other(e) == IF e = "opener" THEN "target" ELSE "opener"

FaultKinds == {"reject", "dial", "write", "timeout", "session"}

ASSUME WindowAssumption   == Window \in Nat
ASSUME InboxCapAssumption == InboxCap \in Nat \ {0}
ASSUME ChunksAssumption   == Chunks \in [Side -> Nat]
ASSUME FaultsAssumption   == Faults \subseteq FaultKinds

VARIABLES
  table,      \* the sides whose Tunnel.streams holds the stream
  bound,      \* the sides whose pool binds the stream to the session
  up,         \* the sides whose pool holds the session
  stream,     \* [Side -> struct stream]
  accepting,  \* the opener's acceptLoop, for this connection
  receiving,  \* the target's data callback, between BindStream and HandleFrame
  dialing,    \* the target's dialStream
  reader,     \* [Side -> where readLoop is]
  writer,     \* [Side -> where writeLoop is]
  held,       \* [Side -> the chunk writeLoop is writing, or 0]
  remover,    \* [Side -> the removeStream call that won the table entry]
  monitor,    \* [Side -> where the session monitor's cleanup is]
  alive,      \* the transport still carries frames
  link,       \* [Side -> frames on their way to that side]
  taken,      \* [Side -> chunks readLoop has read from its application]
  written,    \* [Side -> chunks writeLoop has written to its application]
  ended,      \* the sides that processed the peer's FIN: the application sees EOF
  aborted,    \* the sides torn down by a failed write or a half-close timeout
  late        \* sides that transmitted after releasing the binding

streamVars  == <<table, bound, stream, remover>>
goroutines  == <<accepting, receiving, dialing, reader, writer, held>>
session     == <<up, monitor, alive>>
history     == <<taken, written, ended, aborted>>
vars == <<streamVars, goroutines, session, history, link, late>>

-----------------------------------------------------------------------------
(* Frames and inbox items *)

Connect    == [type |-> "CONNECT"]
SynAck(ok) == [type |-> "SYN_ACK", ok |-> ok]
Data(n)    == [type |-> "DATA", n |-> n]
DataAck    == [type |-> "DATA_ACK"]
Fin        == [type |-> "FIN"]
LocalEOF   == [type |-> "localEOF"]

Frame(n) == {Connect, DataAck, Fin} \cup {SynAck(ok) : ok \in BOOLEAN}
                                     \cup {Data(i) : i \in 1..n}
Item(n)  == {Fin, LocalEOF} \cup {Data(i) : i \in 1..n}

NewStream(conn) ==
  [conn |-> conn, ready |-> FALSE, closed |-> FALSE, inbox |-> <<>>, acks |-> 0,
   finSent |-> FALSE, finRecv |-> FALSE, timer |-> FALSE]

NotRemoving == [step |-> "none", final |-> "none"]

Init ==
  /\ table = {}
  /\ bound = {}
  /\ up = Side
  /\ stream = [e \in Side |-> NewStream("none")]
  /\ accepting = "accept"
  /\ receiving = "idle"
  /\ dialing = "none"
  /\ reader = [e \in Side |-> "none"]
  /\ writer = [e \in Side |-> "none"]
  /\ held = [e \in Side |-> 0]
  /\ remover = [e \in Side |-> NotRemoving]
  /\ monitor = [e \in Side |-> "watch"]
  /\ alive = TRUE
  /\ link = [e \in Side |-> <<>>]
  /\ taken = [e \in Side |-> 0]
  /\ written = [e \in Side |-> <<>>]
  /\ ended = {}
  /\ aborted = {}
  /\ late = {}

-----------------------------------------------------------------------------
(* Helpers *)

\* session.SendFrame: a dead transport loses the frame.
Transmit(e, f) ==
  /\ link' = IF alive THEN [link EXCEPT ![Other(e)] = Append(@, f)] ELSE link
  /\ late' = IF alive /\ remover[e].step = "done" THEN late \cup {e} ELSE late

\* SendRoutedFrame for a caller that looks up and transmits in one step.
SendIfBound(e, f) ==
  IF e \in bound THEN Transmit(e, f) ELSE UNCHANGED <<link, late>>

\* removeStream up to close(s.closed): only the call that deletes the table
\* entry goes on; st is the stream state the caller leaves behind.
Remove(e, final, st) ==
  IF e \in table
  THEN /\ table' = table \ {e}
       /\ stream' = [st EXCEPT ![e].closed = TRUE, ![e].ready = TRUE]
       /\ remover' = [remover EXCEPT ![e] = [step |-> "close", final |-> final]]
  ELSE /\ stream' = st
       /\ UNCHANGED <<table, remover>>

Put(e, item) == [stream EXCEPT ![e].inbox = Append(@, item)]
HasRoom(e) == Len(stream[e].inbox) < InboxCap

DropWhenFull(e, item) == stream' = IF HasRoom(e) THEN Put(e, item) ELSE stream

\* enqueue waits for room, or for the end of the stream.
Enqueue(e, item) ==
  \/ HasRoom(e) /\ stream' = Put(e, item)
  \/ stream[e].closed /\ UNCHANGED stream

SlotFreeUpToWindow(e) == stream[e].acks <= Window

\* ackSem has room for one more DATA frame in flight.
SlotFree(e) == stream[e].acks < Window

AckUnlessFinSent(e) == e \in bound /\ ~stream[e].finSent

\* The DATA_ACK for a written chunk finds its binding.
AckRouted(e) == e \in bound

ArmOnlyAfterLocalEOF(st, e) == [st EXCEPT ![e].timer = st[e].finSent]

\* armHalfCloseTimeout, on the stream state the caller leaves behind.
Arm(st, e) == [st EXCEPT ![e].timer = TRUE]

-----------------------------------------------------------------------------
(* The opener's acceptLoop *)

Accept ==
  /\ accepting = "accept"
  /\ accepting' = "connect"
  /\ table' = table \cup {"opener"}
  /\ stream' = [stream EXCEPT !["opener"] = NewStream("open")]
  /\ writer' = [writer EXCEPT !["opener"] = "loop"]
  /\ UNCHANGED <<bound, remover, receiving, dialing, reader, held, session, history, link, late>>

KeepUnsent == UNCHANGED <<table, stream, remover>>

\* The CONNECT could not be sent: acceptLoop drops the stream again.
DropUnsent == Remove("opener", "none", stream)

\* The pool has no session, or the one it chose and bound is dead.
SendConnect ==
  /\ accepting = "connect"
  /\ accepting' = "done"
  /\ bound' = IF "opener" \in up THEN bound \cup {"opener"} ELSE bound
  /\ IF "opener" \in up /\ alive
     THEN /\ Transmit("opener", Connect)
          /\ reader' = [reader EXCEPT !["opener"] = "wait"]
          /\ UNCHANGED <<table, stream, remover>>
     ELSE /\ DropUnsent
          /\ UNCHANGED <<reader, link, late>>
  /\ UNCHANGED <<receiving, dialing, writer, held, session, history>>

-----------------------------------------------------------------------------
(* The receive goroutine: one frame at a time, in link order *)

Pop(e) == [link EXCEPT ![e] = Tail(@)]
Arrives(e, type) == link[e] # <<>> /\ Head(link[e]).type = type

\* The data callback binds the stream before the tunnel handles the CONNECT.
BindConnect ==
  /\ Arrives("target", "CONNECT")
  /\ receiving = "idle"
  /\ receiving' = "bound"
  /\ bound' = IF "target" \in up THEN bound \cup {"target"} ELSE bound
  /\ link' = Pop("target")
  /\ UNCHANGED <<table, stream, remover, accepting, dialing, reader, writer, held,
                 session, history, late>>

RejectSilently ==
  /\ bound' = bound \ {"target"}
  /\ UNCHANGED <<link, late>>

\* A negative SYN_ACK, then the binding made for the CONNECT is released.
RejectConnect ==
  /\ SendIfBound("target", SynAck(FALSE))
  /\ bound' = bound \ {"target"}

HandleConnect ==
  /\ receiving = "bound"
  /\ receiving' = "idle"
  /\ \/ /\ table' = table \cup {"target"}
        /\ stream' = [stream EXCEPT !["target"] = NewStream("none")]
        /\ writer' = [writer EXCEPT !["target"] = "loop"]
        /\ dialing' = "dial"
        /\ UNCHANGED <<bound, link, late>>
     \/ /\ "reject" \in Faults
        /\ RejectConnect
        /\ UNCHANGED <<table, stream, writer, dialing>>
  /\ UNCHANGED <<remover, accepting, reader, held, session, history>>

HandleSynAck(e) ==
  /\ Arrives(e, "SYN_ACK")
  /\ link' = Pop(e)
  /\ IF e \in table /\ ~Head(link[e]).ok
     THEN Remove(e, "none", stream)
     ELSE /\ stream' = [stream EXCEPT ![e].ready = @ \/ e \in table]
          /\ UNCHANGED <<table, remover>>
  /\ UNCHANGED <<bound, goroutines, session, history, late>>

\* DATA and FIN are queued for writeLoop; a full inbox holds the goroutine up.
HandleQueued(e) ==
  /\ Arrives(e, "DATA") \/ Arrives(e, "FIN")
  /\ IF e \in table THEN Enqueue(e, Head(link[e])) ELSE UNCHANGED stream
  /\ link' = Pop(e)
  /\ UNCHANGED <<table, bound, remover, goroutines, session, history, late>>

HandleDataAck(e) ==
  /\ Arrives(e, "DATA_ACK")
  /\ link' = Pop(e)
  /\ stream' = [stream EXCEPT ![e].acks = IF e \in table /\ @ > 0 THEN @ - 1 ELSE @]
  /\ UNCHANGED <<table, bound, remover, goroutines, session, history, late>>

Receive(e) ==
  \/ e = "target" /\ (BindConnect \/ HandleConnect)
  \/ /\ e = "target" => receiving = "idle"
     /\ HandleSynAck(e) \/ HandleQueued(e) \/ HandleDataAck(e)

-----------------------------------------------------------------------------
(* The target's dialStream *)

\* Dialled, then attachConn: a stream closed in the meantime is left alone.
DialSucceeds ==
  /\ dialing = "dial"
  /\ IF stream["target"].closed
     THEN dialing' = "done" /\ UNCHANGED stream
     ELSE /\ dialing' = "answer"
          /\ stream' = [stream EXCEPT !["target"].conn = "open"]
  /\ UNCHANGED <<table, bound, remover, accepting, receiving, reader, writer, held,
                 session, history, link, late>>

DialFails ==
  /\ dialing = "dial"
  /\ "dial" \in Faults
  /\ dialing' = "done"
  /\ Remove("target", "SYN_ACK", stream)
  /\ UNCHANGED <<bound, accepting, receiving, reader, writer, held, session,
                 history, link, late>>

AnswerConnect ==
  /\ dialing = "answer"
  /\ dialing' = "done"
  /\ SendIfBound("target", SynAck(TRUE))
  /\ stream' = [stream EXCEPT !["target"].ready = TRUE]
  /\ reader' = [reader EXCEPT !["target"] = "wait"]
  /\ UNCHANGED <<table, bound, remover, accepting, receiving, writer, held, session, history>>

Acceptor == Accept \/ SendConnect
Dial == DialSucceeds \/ DialFails \/ AnswerConnect

-----------------------------------------------------------------------------
(* readLoop *)

ReaderAt(e, from, to) == reader[e] = from /\ reader' = [reader EXCEPT ![e] = to]
ReaderOnly == UNCHANGED <<accepting, receiving, dialing, writer, held, session, table,
                          bound, remover, written, ended, aborted>>

ReaderStarts(e) ==
  /\ stream[e].ready
  /\ ReaderAt(e, "wait", IF stream[e].closed THEN "done" ELSE "read")
  /\ ReaderOnly
  /\ UNCHANGED <<stream, taken, link, late>>

ReadChunk(e) ==
  /\ stream[e].conn \in {"open", "shut"}
  /\ taken[e] < Chunks[e]
  /\ ReaderAt(e, "read", "chunk")
  /\ taken' = [taken EXCEPT ![e] = @ + 1]
  /\ ReaderOnly
  /\ UNCHANGED <<stream, link, late>>

\* The application finished writing.
ReadEOF(e) ==
  /\ stream[e].conn \in {"open", "shut"}
  /\ ReaderAt(e, "read", "eof")
  /\ ReaderOnly
  /\ UNCHANGED <<stream, taken, link, late>>

\* The stream's own teardown closed the connection under the reader.
ReadClosed(e) ==
  /\ stream[e].conn = "closed"
  /\ ReaderAt(e, "read", "eof")
  /\ ReaderOnly
  /\ UNCHANGED <<stream, taken, link, late>>

\* Take a window slot, then look the binding up.
AcquireSlot(e) ==
  /\ \/ /\ Window = 0
        /\ UNCHANGED stream
     \/ /\ SlotFree(e)
        /\ stream' = [stream EXCEPT ![e].acks = @ + 1]
  /\ ReaderAt(e, "chunk", IF e \in bound THEN "transmit" ELSE "eof")
  /\ ReaderOnly
  /\ UNCHANGED <<taken, link, late>>

AcquireClosed(e) ==
  /\ stream[e].closed
  /\ ReaderAt(e, "chunk", "eof")
  /\ ReaderOnly
  /\ UNCHANGED <<stream, taken, link, late>>

TransmitData(e) ==
  /\ ReaderAt(e, "transmit", IF alive THEN "read" ELSE "eof")
  /\ Transmit(e, Data(taken[e]))
  /\ ReaderOnly
  /\ UNCHANGED <<stream, taken>>

EnqueueEOF(e) ==
  /\ ReaderAt(e, "eof", "done")
  /\ Enqueue(e, LocalEOF)
  /\ ReaderOnly
  /\ UNCHANGED <<taken, link, late>>

Reader(e) == \/ ReaderStarts(e) \/ ReadClosed(e) \/ AcquireSlot(e) \/ AcquireClosed(e)
             \/ TransmitData(e) \/ EnqueueEOF(e)

-----------------------------------------------------------------------------
(* writeLoop *)

WriterAt(e, from, to) == writer[e] = from /\ writer' = [writer EXCEPT ![e] = to]
WriterOnly == UNCHANGED <<accepting, receiving, dialing, reader, session, bound, taken>>
Drop(e) == [stream EXCEPT ![e].inbox = Tail(@)]
\* The item writeLoop takes from the inbox, once ready is closed.
Taking(e, type) ==
  stream[e].ready /\ stream[e].inbox # <<>> /\ Head(stream[e].inbox).type = type

WriterStops(e) ==
  /\ stream[e].closed
  /\ WriterAt(e, "loop", "done")
  /\ WriterOnly
  /\ UNCHANGED <<table, stream, remover, held, written, ended, aborted, link, late>>

\* handleLocalEOF: mark the FIN as sent, then remove the stream or half-close.
TakeLocalEOF(e) ==
  LET s == stream[e] IN
  /\ Taking(e, "localEOF")
  /\ stream' = [Drop(e) EXCEPT ![e].finSent = TRUE]
  /\ WriterAt(e, "loop", IF s.finSent THEN "loop"
                         ELSE IF s.finRecv THEN "remove"
                         ELSE IF e \in bound THEN "fin" ELSE "arm")
  /\ WriterOnly
  /\ UNCHANGED <<table, remover, held, written, ended, aborted, link, late>>

RemoveFinished(e) ==
  /\ WriterAt(e, "remove", "done")
  /\ Remove(e, "FIN", stream)
  /\ WriterOnly
  /\ UNCHANGED <<held, written, ended, aborted, link, late>>

HalfClose(e) ==
  /\ writer[e] \in {"fin", "arm"}
  /\ writer' = [writer EXCEPT ![e] = "loop"]
  /\ IF writer[e] = "fin" THEN Transmit(e, Fin) ELSE UNCHANGED <<link, late>>
  /\ stream' = Arm(stream, e)
  /\ WriterOnly
  /\ UNCHANGED <<table, remover, held, written, ended, aborted>>

\* handleRemoteFIN: every DATA before the FIN has been written.
TakeRemoteFIN(e) ==
  LET s == stream[e] IN
  /\ Taking(e, "FIN")
  /\ IF s.finRecv
     THEN /\ WriterAt(e, "loop", "loop")
          /\ stream' = Drop(e)
          /\ UNCHANGED <<table, remover, ended>>
     ELSE /\ ended' = ended \cup {e}
          /\ IF s.finSent
             THEN /\ WriterAt(e, "loop", "done")
                  /\ Remove(e, "none", [Drop(e) EXCEPT ![e].finRecv = TRUE])
             ELSE /\ WriterAt(e, "loop", "loop")
                  /\ stream' = Arm([Drop(e) EXCEPT ![e].finRecv = TRUE,
                                      ![e].conn = IF @ = "open" THEN "shut" ELSE @], e)
                  /\ UNCHANGED <<table, remover>>
  /\ WriterOnly
  /\ UNCHANGED <<held, written, aborted, link, late>>

TakeData(e) ==
  /\ Taking(e, "DATA")
  /\ IF stream[e].conn = "none"
     THEN /\ WriterAt(e, "loop", "done") /\ UNCHANGED held
     ELSE /\ WriterAt(e, "loop", "write")
          /\ held' = [held EXCEPT ![e] = Head(stream[e].inbox).n]
  /\ stream' = Drop(e)
  /\ WriterOnly
  /\ UNCHANGED <<table, remover, written, ended, aborted, link, late>>

\* conn.Write returns; the DATA_ACK follows.
WriteSucceeds(e) ==
  /\ stream[e].conn = "open"
  /\ WriterAt(e, "write", IF AckRouted(e) THEN "ack" ELSE "loop")
  /\ written' = [written EXCEPT ![e] = Append(@, held[e])]
  /\ held' = [held EXCEPT ![e] = 0]
  /\ WriterOnly
  /\ UNCHANGED <<table, stream, remover, ended, aborted, link, late>>

WriteFails(e) ==
  /\ stream[e].conn # "open" \/ "write" \in Faults
  /\ WriterAt(e, "write", "done")
  /\ Remove(e, "FIN", stream)
  /\ aborted' = IF e \in table THEN aborted \cup {e} ELSE aborted
  /\ held' = [held EXCEPT ![e] = 0]
  /\ WriterOnly
  /\ UNCHANGED <<written, ended, link, late>>

SendAck(e) ==
  /\ WriterAt(e, "ack", "loop")
  /\ Transmit(e, DataAck)
  /\ WriterOnly
  /\ UNCHANGED <<table, stream, remover, held, written, ended, aborted>>

Writer(e) == \/ WriterStops(e) \/ TakeLocalEOF(e) \/ RemoveFinished(e)
             \/ HalfClose(e) \/ TakeRemoteFIN(e) \/ TakeData(e)
             \/ WriteSucceeds(e) \/ WriteFails(e) \/ SendAck(e)

-----------------------------------------------------------------------------
(* The half-close timer callback, the rest of removeStream, the session *)

TimerFires(e) ==
  /\ "timeout" \in Faults
  /\ stream[e].timer
  /\ Remove(e, IF stream[e].finSent THEN "none" ELSE "FIN",
            [stream EXCEPT ![e].timer = FALSE, ![e].finSent = TRUE])
  /\ aborted' = IF e \in table THEN aborted \cup {e} ELSE aborted
  /\ UNCHANGED <<bound, goroutines, session, taken, written, ended, link, late>>

\* The rest of removeStream: stream.close, the final frame, ReleaseStream.
FinishRemove(e) ==
  LET final == remover[e].final IN
  /\ remover[e].step = "close"
  /\ remover' = [remover EXCEPT ![e].step = "done"]
  /\ stream' = [stream EXCEPT
       ![e].finSent = TRUE, ![e].finRecv = TRUE, ![e].timer = FALSE,
       ![e].conn = IF @ = "none" THEN "none" ELSE "closed"]
  /\ IF final = "none" THEN UNCHANGED <<link, late>>
     ELSE SendIfBound(e, IF final = "FIN" THEN Fin ELSE SynAck(FALSE))
  /\ bound' = bound \ {e}
  /\ UNCHANGED <<table, goroutines, session, history>>

\* The monitor found the session lost: RemoveSession returns its streams ...
RemoveSession(e) ==
  /\ monitor[e] = "watch"
  /\ "session" \in Faults \/ ~alive
  /\ monitor' = [monitor EXCEPT ![e] = IF e \in bound THEN "close" ELSE "drop"]
  /\ up' = up \ {e}
  /\ bound' = bound \ {e}
  /\ UNCHANGED <<alive, table, stream, remover, goroutines, history, link, late>>

\* ... CloseStreams aborts them, and the peer connection is closed.
CloseStreams(e) ==
  /\ monitor[e] \in {"close", "drop"}
  /\ IF monitor[e] = "close" THEN Remove(e, "none", stream)
     ELSE UNCHANGED <<table, stream, remover>>
  /\ monitor' = [monitor EXCEPT ![e] = "done"]
  /\ alive' = FALSE
  /\ link' = [s \in Side |-> <<>>]
  /\ UNCHANGED <<up, bound, goroutines, history, late>>

-----------------------------------------------------------------------------

SideStep(e) ==
  \/ Receive(e) \/ Reader(e) \/ ReadChunk(e) \/ ReadEOF(e) \/ Writer(e)
  \/ TimerFires(e) \/ FinishRemove(e) \/ RemoveSession(e) \/ CloseStreams(e)

Next == Acceptor \/ Dial \/ \E e \in Side : SideStep(e)

Spec == Init /\ [][Next]_vars

(***************************************************************************)
(* Fairness: the Go scheduler runs every goroutine that can run, the       *)
(* transport delivers what it carries, timers fire, dials end, and the     *)
(* local applications keep reading (WriteSucceeds).  Nothing obliges an    *)
(* application to write or to finish, nor a fault to happen.               *)
(***************************************************************************)
Fairness ==
  /\ WF_vars(Acceptor) /\ WF_vars(Dial)
  /\ \A e \in Side :
       /\ WF_vars(Receive(e)) /\ WF_vars(Reader(e)) /\ WF_vars(Writer(e))
       /\ WF_vars(TimerFires(e)) /\ WF_vars(FinishRemove(e))
       /\ WF_vars((~alive /\ RemoveSession(e)) \/ CloseStreams(e))

FairSpec == Spec /\ Fairness

-----------------------------------------------------------------------------
(* Properties *)

\* The shape of the state, the window limit of ackSem and the capacity of inbox.
TypeOK ==
  /\ table \subseteq Side /\ bound \subseteq Side /\ up \subseteq Side
  /\ ended \subseteq Side /\ aborted \subseteq Side /\ late \subseteq Side
  /\ DOMAIN stream = Side
  /\ \A e \in Side :
       /\ stream[e].conn \in {"none", "open", "shut", "closed"}
       /\ stream[e].inbox \in Seq(Item(Chunks[Other(e)]))
       /\ Len(stream[e].inbox) <= InboxCap
       /\ stream[e].acks \in 0..Window
       /\ stream[e].ready \in BOOLEAN /\ stream[e].closed \in BOOLEAN
       /\ stream[e].finSent \in BOOLEAN /\ stream[e].finRecv \in BOOLEAN
       /\ stream[e].timer \in BOOLEAN
       /\ reader[e] \in {"none", "wait", "read", "chunk", "transmit", "eof", "done"}
       /\ writer[e] \in {"none", "loop", "write", "ack", "fin", "arm", "remove", "done"}
       /\ held[e] \in 0..Chunks[Other(e)]
       /\ remover[e] \in [step : {"none", "close", "done"},
                          final : {"none", "FIN", "SYN_ACK"}]
       /\ monitor[e] \in {"watch", "close", "drop", "done"}
       /\ link[e] \in Seq(Frame(Chunks[Other(e)]))
       /\ taken[e] \in 0..Chunks[e]
       /\ written[e] \in Seq(1..Chunks[Other(e)])
  /\ accepting \in {"accept", "connect", "done"}
  /\ receiving \in {"idle", "bound"}
  /\ dialing \in {"none", "dial", "answer", "done"}
  /\ alive \in BOOLEAN

HowMany(q, type) == Cardinality({i \in DOMAIN q : q[i].type = type})
One(b) == IF b THEN 1 ELSE 0

(***************************************************************************)
(* Window tokens are neither lost nor minted: while both ends hold the     *)
(* stream and the session is up, every occupied slot of ackSem is one      *)
(* chunk somewhere on its way out, or its DATA_ACK on its way back         *)
(* (readLoop, writeLoop, onACK).                                           *)
(***************************************************************************)
WindowConserved ==
  Window > 0 /\ table = Side /\ up = Side /\ alive =>
    \A e \in Side : LET p == Other(e) IN
      stream[e].acks = One(reader[e] = "transmit")
                       + HowMany(link[p], "DATA") + HowMany(stream[p].inbox, "DATA")
                       + One(writer[p] = "write") + One(writer[p] = "ack")
                       + HowMany(link[e], "DATA_ACK")

(***************************************************************************)
(* With windows no larger than the inbox, a DATA frame never has to wait   *)
(* for the local application while both ends hold the stream: when         *)
(* writeLoop is inside conn.Write there is room for the next DATA          *)
(* (HandleFrame, enqueue).  An end torn down by a failure may still        *)
(* transmit one DATA after its FIN, and that one may have to wait.         *)
(***************************************************************************)
DataNeverWaitsForApplication ==
  Window \in 1..InboxCap /\ table = Side =>
    \A e \in Side : writer[e] = "write" /\ Arrives(e, "DATA") => HasRoom(e)

(***************************************************************************)
(* HandleFrame's comment: it "never blocks on local I/O: DATA and FIN are  *)
(* queued to the stream's writer".                                         *)
(***************************************************************************)
HandleFrameNeverBlocks ==
  \A e \in Side : e \in table /\ writer[e] = "write"
                    /\ (Arrives(e, "DATA") \/ Arrives(e, "FIN")) => HasRoom(e)

(***************************************************************************)
(* removeStream's comment: "Nothing is ever sent for a stream after its    *)
(* transport binding has been released."                                   *)
(***************************************************************************)
NothingSentAfterRelease == late = {}

Gone(e) == remover[e].step = "done"
Disturbed == aborted # {} \/ up # Side

\* The target has answered the CONNECT without taking the stream: the CONNECT
\* was sent, has arrived and been handled, and no dial was started.
Refused ==
  /\ reader["opener"] # "none"
  /\ HowMany(link["target"], "CONNECT") = 0
  /\ receiving = "idle"
  /\ dialing = "none"

(***************************************************************************)
(* Neither end outlives the other.  Once one end has torn the stream down, *)
(* whatever the reason (a failed dial or write, both FINs, a timer), or    *)
(* the target has refused it (rejectConnect), the other end tears it down  *)
(* too, unless it loses the session (final FIN, negative SYN_ACK,          *)
(* half-close timers).                                                     *)
(***************************************************************************)
NeitherEndOutlives ==
  /\ \A e \in Side : Gone(e) ~> (Other(e) \notin table \/ Other(e) \notin up)
  /\ Refused ~> ("opener" \notin table \/ "opener" \notin up)

(***************************************************************************)
(* A half-closed stream does not linger: once an end has sent its FIN or   *)
(* received one it is removed and its binding released.                    *)
(***************************************************************************)
HalfClosedEnds ==
  \A e \in Side : (stream[e].finSent \/ stream[e].finRecv) ~> (Gone(e) /\ e \notin bound)

(***************************************************************************)
(* A lost session leaves no orphan at the opener, wherever acceptLoop was  *)
(* when RemoveSession ran: a stream in the table either still has its      *)
(* session, or CloseStreams is about to remove it, or its CONNECT is about *)
(* to find no session.                                                     *)
(***************************************************************************)
NoOrphanAtOpener ==
  "opener" \in table /\ "opener" \notin up
    => accepting = "connect" \/ monitor["opener"] = "close"

(***************************************************************************)
(* While nothing is aborted and the session holds, every chunk read from   *)
(* one application is written to the other, and the end of its data        *)
(* reaches it too.                                                         *)
(***************************************************************************)
EverythingArrives ==
  \A e \in Side :
    /\ \A n \in 1..Chunks[e] : taken[e] >= n ~> (Len(written[Other(e)]) >= n \/ Disturbed)
    /\ reader[e] = "eof" ~> (Other(e) \in ended \/ Disturbed)

-----------------------------------------------------------------------------
Pipe == INSTANCE DuplexPipe WITH
          Ends <- Side, Peer <- [e \in Side |-> Other(e)], Limit <- Chunks,
          sent <- taken, delivered <- written

\* A stream is a duplex byte pipe: in order, no loss before the end, no
\* truncated end unless the sender's own end was aborted.
ImplementsPipe == Pipe!Spec
=============================================================================
