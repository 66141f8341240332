------------------------------ MODULE DuplexPipe ------------------------------
(***************************************************************************)
(* What a forwarded TCP connection promises its two applications, whatever *)
(* frames, windows and goroutines carry it: each direction is a pipe that  *)
(* delivers the chunks in the order they were sent.  The end of the data   *)
(* is delivered once, after every chunk, unless the sending end was torn   *)
(* down by a failure; nothing follows it.  A pipe may stop at any time.    *)
(***************************************************************************)
EXTENDS Naturals, Sequences

CONSTANTS
  Ends,    \* the two applications
  Peer,    \* [Ends -> Ends]
  Limit    \* [Ends -> Nat]: the most chunks each application sends (a bound)

VARIABLES
  sent,       \* [Ends -> Nat]: chunks taken from the application, numbered from 1
  delivered,  \* [Ends -> Seq(Nat)]: chunks handed to the application
  ended,      \* ends whose application has been told that the data is over
  aborted     \* ends torn down by a failure

pipeVars == <<sent, delivered, ended, aborted>>

Init ==
  /\ sent = [e \in Ends |-> 0]
  /\ delivered = [e \in Ends |-> <<>>]
  /\ ended = {}
  /\ aborted = {}

Send(e) ==
  /\ sent[e] < Limit[e]
  /\ sent' = [sent EXCEPT ![e] = @ + 1]
  /\ UNCHANGED <<delivered, ended, aborted>>

Deliver(e) ==
  LET next == Len(delivered[e]) + 1 IN
  /\ e \notin ended
  /\ next <= sent[Peer[e]]
  /\ delivered' = [delivered EXCEPT ![e] = Append(@, next)]
  /\ UNCHANGED <<sent, ended, aborted>>

End(e) ==
  /\ e \notin ended
  /\ Len(delivered[e]) = sent[Peer[e]] \/ Peer[e] \in aborted
  /\ ended' = ended \cup {e}
  /\ UNCHANGED <<sent, delivered, aborted>>

Abort(e) ==
  /\ e \notin aborted
  /\ aborted' = aborted \cup {e}
  /\ UNCHANGED <<sent, delivered, ended>>

Next == \E e \in Ends : Send(e) \/ Deliver(e) \/ End(e) \/ Abort(e)

Spec == Init /\ [][Next]_pipeVars
=============================================================================
