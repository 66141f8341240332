----------------------------- MODULE GuestShare -----------------------------
(***************************************************************************)
(* The share a guest room is served under, and the queue of pushes that    *)
(* keep it up to date: pushQueue (cmd/uulink/options.go), the bmsg_push    *)
(* handlers and the share part of serveRoom (server.go) and of             *)
(* startPooledGuestServer (multisession.go).                               *)
(*                                                                         *)
(* The signaling handler submits a push and never waits; one worker per    *)
(* room runs the pushes, each a series of API calls that may fail at any   *)
(* of them.  The service is external: it keeps a verification code for the *)
(* share and may answer an upload with another one.                        *)
(***************************************************************************)
EXTENDS Naturals, Sequences

CONSTANTS
  Controls,    \* control IDs of the controllers that ask
  Depth,       \* capacity of the queue (pushQueueDepth)
  MaxPushes,   \* bound: pushes the gateway sends
  MaxCodes,    \* bound: codes the service makes up
  NoControl    \* no control ID yet

ASSUME GuestShareAssumption ==
  /\ NoControl \notin Controls
  /\ Depth \in Nat \ {0} /\ MaxPushes \in Nat /\ MaxCodes \in Nat

VARIABLES
  pooled,     \* startPooledGuestServer's room: no share file of its own
  main,       \* serveRoom: preparing, copying, saving, serving, ended
  copied,     \* the share serveRoom copied under shareMu
  share,      \* the share in memory: [code, control]
  file,       \* the share file
  code,       \* the code the service has for the share
  sent,       \* pushes sent by the gateway
  done,       \* sig.Done is closed
  jobs,       \* pushQueue.jobs: [key, n], n the number of the push
  stopped,    \* pushQueue.stopped
  wake,       \* a token is in pushQueue.wake
  worker,     \* where run is
  job,        \* the job it runs
  lastSave,   \* history: the last save of the share file: none, fresh, stale, failed
  accepted,   \* history: [Keys -> last push accepted]
  served      \* history: [Keys -> last push run]

queue == <<jobs, stopped, wake>>
shares == <<main, copied, share, file, lastSave>>
history == <<accepted, served>>
vars == <<pooled, shares, code, sent, done, queue, worker, job, history>>

Types == {"get_control_mode", "remote_control", "other"}
Keys == Types \X Controls       \* pushQueueKey
Codes == 0..MaxCodes
Share == [code : Codes, control : Controls \cup {NoControl}]
NoShare == [code |-> 0, control |-> NoControl]
Job == [key : Keys, n : 1..MaxPushes]
Queued(k) == \E i \in DOMAIN jobs : jobs[i].key = k
Running == worker \in {"upload", "refresh", "mode", "save", "confirm"}

Init ==
  /\ pooled \in BOOLEAN
  /\ main = "preparing" /\ copied = NoShare /\ share = NoShare /\ file = NoShare
  /\ code = 0
  /\ sent = 0 /\ done = FALSE
  /\ jobs = <<>> /\ stopped = FALSE /\ wake = FALSE
  /\ worker = "checking" /\ job = <<>>
  /\ lastSave = "none"
  /\ accepted = [k \in Keys |-> 0] /\ served = [k \in Keys |-> 0]

-----------------------------------------------------------------------------
(* The room.                                                               *)

\* The code the service answers with: the one it has, or a new one.
Refreshed(c) == c \in {code, code + 1} \cap Codes /\ code' = c

\* ensureGuestShareCode succeeds and the push handler is installed.
Prepare ==
  /\ main = "preparing"
  /\ \E c \in Codes :
       /\ Refreshed(c)
       /\ share' = [code |-> c, control |-> NoControl]
  /\ main' = IF pooled THEN "serving" ELSE "copying"
  /\ UNCHANGED <<pooled, copied, file, lastSave, sent, done, queue, worker, job, history>>

\* The share is copied under shareMu, which a running job holds.
Copy ==
  /\ main = "copying" /\ ~Running
  /\ copied' = share /\ main' = "saving"
  /\ UNCHANGED <<pooled, share, file, lastSave, code, sent, done, queue, worker, job,
                 history>>

\* The copy is saved without it, and its ID and codes go to the config and to the
\* publishing URL where these are set; a failure of any ends the attempt.
SaveCopy ==
  /\ main = "saving"
  /\ \/ /\ file' = copied /\ main' = "serving"
        /\ lastSave' = IF copied = share THEN "fresh" ELSE "stale"
     \/ main' = "ended" /\ UNCHANGED <<file, lastSave>>
  /\ done' = (done \/ main' = "ended")
  /\ UNCHANGED <<pooled, copied, share, code, sent, queue, worker, job, history>>

\* The room ends: its signaling is closed.
SignalingEnds ==
  /\ main # "preparing" /\ ~done
  /\ done' = TRUE /\ main' = "ended"
  /\ UNCHANGED <<pooled, copied, share, file, lastSave, code, sent, queue, worker, job,
                 history>>

-----------------------------------------------------------------------------
(* pushQueue.submit, called by the signaling handler.                      *)

Closed ==
  /\ stopped \/ done
  /\ stopped' = TRUE /\ jobs' = <<>>
  /\ UNCHANGED <<wake, accepted>>

\* Mutant: a duplicate is dropped, the waiting job keeps its old salt.
KeepOld(k, n) ==
  /\ ~stopped /\ ~done /\ Queued(k)
  /\ wake' = TRUE
  /\ accepted' = [accepted EXCEPT ![k] = n]
  /\ UNCHANGED <<jobs, stopped>>

\* A job with the key of a waiting one takes its place.
Coalesce(k, n) ==
  /\ ~stopped /\ ~done /\ Queued(k)
  /\ jobs' = [i \in DOMAIN jobs |-> IF jobs[i].key = k THEN [key |-> k, n |-> n] ELSE jobs[i]]
  /\ wake' = TRUE
  /\ accepted' = [accepted EXCEPT ![k] = n]
  /\ UNCHANGED stopped

\* Mutant: the worker is not woken.
EnqueueSilently(k, n) ==
  /\ ~stopped /\ ~done /\ ~Queued(k) /\ Len(jobs) < Depth
  /\ jobs' = Append(jobs, [key |-> k, n |-> n])
  /\ accepted' = [accepted EXCEPT ![k] = n]
  /\ UNCHANGED <<stopped, wake>>

\* A new job goes to the end of the queue, unless it is full.
Enqueue(k, n) ==
  /\ ~stopped /\ ~done /\ ~Queued(k) /\ Len(jobs) < Depth
  /\ jobs' = Append(jobs, [key |-> k, n |-> n])
  /\ wake' = TRUE
  /\ accepted' = [accepted EXCEPT ![k] = n]
  /\ UNCHANGED stopped

Full(k) ==
  /\ ~stopped /\ ~done /\ ~Queued(k) /\ Len(jobs) >= Depth
  /\ UNCHANGED <<queue, accepted>>

Push ==
  /\ main # "preparing" /\ sent < MaxPushes
  /\ sent' = sent + 1
  /\ \E k \in Keys : Closed \/ Coalesce(k, sent') \/ Enqueue(k, sent') \/ Full(k)
  /\ UNCHANGED <<pooled, shares, code, done, worker, job, served>>

-----------------------------------------------------------------------------
(* pushQueue.run.                                                          *)

WorkerAt(pc) == worker = pc
WorkerOnly == UNCHANGED <<pooled, shares, code, sent, done, accepted>>

Stop == stopped' = TRUE /\ jobs' = <<>> /\ worker' = "ended" /\ UNCHANGED <<wake, job, served>>

\* done is looked at before the queue.
Check ==
  /\ WorkerAt("checking")
  /\ \/ done /\ Stop
     \/ ~done /\ worker' = "looking" /\ UNCHANGED <<queue, job, served>>
  /\ WorkerOnly

\* Under the lock: the first job is taken, or there is none.
Look ==
  /\ WorkerAt("looking")
  /\ \/ /\ stopped /\ worker' = "ended"
        /\ UNCHANGED <<queue, job, served>>
     \/ /\ ~stopped /\ jobs = <<>> /\ worker' = "sleeping"
        /\ UNCHANGED <<queue, job, served>>
     \/ /\ ~stopped /\ jobs # <<>> /\ worker' = "upload"
        /\ job' = <<Head(jobs)>> /\ jobs' = Tail(jobs)
        /\ served' = [served EXCEPT ![Head(jobs).key] = Head(jobs).n]
        /\ UNCHANGED <<stopped, wake>>
  /\ WorkerOnly

\* A select: the end of the room or the token.
Sleep ==
  /\ WorkerAt("sleeping")
  /\ \/ done /\ Stop
     \/ /\ wake /\ wake' = FALSE /\ worker' = "checking"
        /\ UNCHANGED <<jobs, stopped, job, served>>
  /\ WorkerOnly

-----------------------------------------------------------------------------
(* One push, under shareMu.  The calls take no context: a job that runs    *)
(* when the room ends goes on.                                             *)

Type == job[1].key[1]
Control == job[1].key[2]
JobOnly == UNCHANGED <<pooled, main, copied, sent, done, queue, accepted, served>>

\* The end of the job, early or not.
Finish == worker' = "checking" /\ job' = <<>>

\* uploadGuestShareCode: the sign of the share's code, for this controller.
\* A push of another type takes its turn in the queue and does nothing.
Upload ==
  /\ WorkerAt("upload")
  /\ \/ Type # "other" /\ worker' = "refresh" /\ UNCHANGED job
     \/ Finish
  /\ UNCHANGED <<share, file, lastSave, code>> /\ JobOnly

\* The share is read again; only now is the one in memory replaced.
Refresh ==
  /\ WorkerAt("refresh")
  /\ \/ /\ \E c \in Codes : Refreshed(c) /\ share' = [code |-> c, control |-> Control]
        /\ worker' = CASE Type = "get_control_mode" -> "mode"
                       [] pooled -> "confirm"
                       [] OTHER -> "save"
        /\ UNCHANGED job
     \/ Finish /\ UNCHANGED <<share, code>>
  /\ UNCHANGED <<file, lastSave>> /\ JobOnly

\* get_control_mode: the control mode is uploaded; a failure is only logged.
UploadMode ==
  /\ WorkerAt("mode")
  /\ IF pooled THEN Finish ELSE worker' = "save" /\ UNCHANGED job
  /\ UNCHANGED <<share, file, lastSave, code>> /\ JobOnly

\* Mutant: a remote control is confirmed without the file being written.
SaveModeOnly ==
  /\ WorkerAt("save")
  /\ \/ file' = (IF Type = "remote_control" THEN file ELSE share) /\ lastSave' = "fresh"
     \/ lastSave' = "failed" /\ UNCHANGED file
  /\ IF Type = "remote_control" THEN worker' = "confirm" /\ UNCHANGED job ELSE Finish
  /\ UNCHANGED <<share, code>> /\ JobOnly

\* The share file of a single room; a failure is only logged.
Save ==
  /\ WorkerAt("save")
  /\ \/ file' = share /\ lastSave' = "fresh"
     \/ lastSave' = "failed" /\ UNCHANGED file
  /\ IF Type = "remote_control" THEN worker' = "confirm" /\ UNCHANGED job ELSE Finish
  /\ UNCHANGED <<share, code>> /\ JobOnly

\* remote_control: the controller is allowed, or the call fails.
Confirm ==
  /\ WorkerAt("confirm")
  /\ Finish
  /\ UNCHANGED <<share, file, lastSave, code>> /\ JobOnly

Worker ==
  Check \/ Look \/ Sleep \/ Upload \/ Refresh \/ UploadMode \/ Save \/ Confirm

Next == Prepare \/ Copy \/ SaveCopy \/ SignalingEnds \/ Push \/ Worker

Spec == Init /\ [][Next]_vars

\* The worker is scheduled and every API call returns.
FairSpec == Spec /\ WF_vars(Worker) /\ WF_vars(SaveCopy)

-----------------------------------------------------------------------------
(* Properties.                                                             *)

TypeOK ==
  /\ pooled \in BOOLEAN /\ main \in {"preparing", "copying", "saving", "serving", "ended"}
  /\ {copied, share, file} \subseteq Share
  /\ code \in Codes
  /\ sent \in 0..MaxPushes
  /\ {done, stopped, wake} \subseteq BOOLEAN
  /\ lastSave \in {"none", "fresh", "stale", "failed"}
  /\ jobs \in Seq(Job) /\ Len(jobs) <= Depth
  /\ worker \in {"checking", "looking", "sleeping", "upload", "refresh", "mode", "save",
                 "confirm", "ended"}
  /\ job \in {<<>>} \cup {<<j>> : j \in Job} /\ (job # <<>> <=> Running)
  /\ {accepted, served} \subseteq [Keys -> 0..MaxPushes]

\* Signaling repeats pushes, each with a salt of its own, and waiting ones are
\* merged (options.go:169-171).  The newest push of a key is never lost to an
\* older one: while the room lives the last one accepted is waiting or was the
\* last to run, and a waiting one is newer than all that ran.
NewestPushRuns ==
  \A k \in Keys :
    /\ \A i \in DOMAIN jobs : jobs[i].key = k => served[k] < jobs[i].n
    /\ ~stopped =>
         \/ accepted[k] = served[k]
         \/ \E i \in DOMAIN jobs : jobs[i] = [key |-> k, n |-> accepted[k]]

\* No push waits for ever: it runs, or the room ends (the queue's capacity-one
\* wake channel loses no wake-up).
PushesServed == \A k \in Keys : Queued(k) ~> (~Queued(k) \/ done)

\* While a single room is served and no push is being answered, its share file
\* holds the share in memory: whatever changed the share wrote the file after it.
\* Exempt is only a file whose last write failed, or was the copy that serveRoom
\* had made before a push changed the share and saves without shareMu
\* (server.go:234-239); the next push that is answered writes over either.
ShareFileCurrent ==
  main = "serving" /\ ~pooled /\ ~Running /\ lastSave \notin {"stale", "failed"}
    => file = share

\* serveRoom's "saved guest share info": what it saves is the share of the room.
\* The code does not have this: see the exemption above.
SavedShareIsCurrent ==
  main = "serving" /\ ~pooled /\ ~Running /\ lastSave # "failed" => file = share
=============================================================================
