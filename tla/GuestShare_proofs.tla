------------------------- MODULE GuestShare_proofs -------------------------
(***************************************************************************)
(* For any controllers, depth of the push queue and number of pushes: the  *)
(* newest push of a key is waiting or was the last to run, and the share   *)
(* file of a served room holds the share.                                  *)
(***************************************************************************)
EXTENDS GuestShare, TLAPS

QueuedJob == [key : Keys, n : Nat]

\* The keys of the waiting jobs are distinct, and each is the last one that
\* was accepted of its key and is newer than those that ran.
JobsFresh ==
  /\ \A i \in 1..Len(jobs) :
       /\ jobs[i].n <= sent
       /\ jobs[i].n = accepted[jobs[i].key]
       /\ served[jobs[i].key] < jobs[i].n
  /\ \A i, j \in 1..Len(jobs) : jobs[i].key = jobs[j].key => i = j

Outstanding(k) == accepted[k] # served[k]

QueueInv ==
  /\ sent \in Nat
  /\ accepted \in [Keys -> Nat] /\ served \in [Keys -> Nat]
  /\ jobs \in Seq(QueuedJob)
  /\ stopped => jobs = <<>>
  /\ JobsFresh
  /\ \A k \in Keys : served[k] <= sent
  /\ ~stopped => \A k \in Keys : Outstanding(k) => \E i \in 1..Len(jobs) : jobs[i].key = k

\* The save ends a job of a single room, so the file is behind only from the
\* moment that the share is replaced until then.
FileInv ==
  main = "serving" /\ ~pooled /\ lastSave \notin {"stale", "failed"}
    /\ worker \notin {"mode", "save"} => file = share

-----------------------------------------------------------------------------
LEMMA JobFields ==
  ASSUME NEW j \in QueuedJob
  PROVE  j.key \in Keys /\ j.n \in Nat /\ j = [key |-> j.key, n |-> j.n]
  BY DEF QueuedJob

LEMMA NewJob ==
  ASSUME NEW k \in Keys, NEW n \in Nat
  PROVE  /\ [key |-> k, n |-> n] \in QueuedJob
         /\ [key |-> k, n |-> n].key = k /\ [key |-> k, n |-> n].n = n
  BY DEF QueuedJob

\* An empty queue is fresh: the room has ended.
LEMMA Emptied ==
  ASSUME QueueInv, sent' \in {sent, sent + 1}, accepted' = accepted, served' = served,
         jobs' = <<>>, stopped' = TRUE
  PROVE  QueueInv'
<1>1. \A i : i \notin 1..Len(jobs')
  OBVIOUS
<1>2. JobsFresh'
  BY <1>1 DEF JobsFresh
<1>3. jobs' \in Seq(QueuedJob) /\ sent' \in Nat /\ \A k \in Keys : served'[k] <= sent'
  BY DEF QueueInv
<1> QED BY <1>2, <1>3 DEF QueueInv

\* A push that changes nothing.
LEMMA Dropped ==
  ASSUME QueueInv, sent' \in {sent, sent + 1}, UNCHANGED <<accepted, served, jobs, stopped>>
  PROVE  QueueInv'
<1>1. \A i \in 1..Len(jobs) : jobs[i] \in QueuedJob
  BY DEF QueueInv
<1>2. JobsFresh'
  BY <1>1, JobFields DEF QueueInv, JobsFresh
<1>3. sent' \in Nat /\ \A k \in Keys : served'[k] <= sent'
  BY DEF QueueInv
<1> QED BY <1>2, <1>3 DEF QueueInv, Outstanding

\* A job takes the place of the waiting one of its key.
LEMMA Coalesced ==
  ASSUME QueueInv, sent' = sent + 1, served' = served, NEW k \in Keys, Coalesce(k, sent')
  PROVE  QueueInv'
<1>1. /\ jobs \in Seq(QueuedJob) /\ sent \in Nat /\ sent' \in Nat /\ Len(jobs) \in Nat
      /\ accepted \in [Keys -> Nat] /\ served \in [Keys -> Nat]
  BY DEF QueueInv
<1>2. /\ jobs' = [i \in 1..Len(jobs) |->
                    IF jobs[i].key = k THEN [key |-> k, n |-> sent'] ELSE jobs[i]]
      /\ accepted' = [accepted EXCEPT ![k] = sent'] /\ stopped' = stopped /\ ~stopped
  BY <1>1 DEF Coalesce
<1>3. \A i \in 1..Len(jobs) : jobs[i] \in QueuedJob
  BY <1>1
<1>4. [key |-> k, n |-> sent'] \in QueuedJob
  BY <1>1, NewJob
<1>5. jobs' \in Seq(QueuedJob) /\ Len(jobs') = Len(jobs)
  BY <1>1, <1>2, <1>3, <1>4
<1>6. accepted' \in [Keys -> Nat] /\ accepted'[k] = sent'
      /\ \A l \in Keys : l # k => accepted'[l] = accepted[l]
  BY <1>1, <1>2
<1>7. \A i \in 1..Len(jobs) :
        /\ jobs[i].key \in Keys /\ jobs[i].n \in Nat
        /\ jobs'[i].key = jobs[i].key
        /\ jobs[i].key = k => jobs'[i].n = sent'
        /\ jobs[i].key # k => jobs'[i].n = jobs[i].n
  BY <1>1, <1>2, <1>3, JobFields, NewJob
<1>8. /\ \A i \in 1..Len(jobs) :
           /\ jobs[i].n <= sent
           /\ jobs[i].n = accepted[jobs[i].key]
           /\ served[jobs[i].key] < jobs[i].n
      /\ \A i, j \in 1..Len(jobs) : jobs[i].key = jobs[j].key => i = j
      /\ \A l \in Keys : served[l] <= sent
      /\ \A l \in Keys : accepted[l] # served[l] => \E i \in 1..Len(jobs) : jobs[i].key = l
  BY <1>2 DEF QueueInv, JobsFresh, Outstanding
<1>9. JobsFresh'
  <2>1. ASSUME NEW i \in 1..Len(jobs)
        PROVE  /\ jobs'[i].n <= sent'
               /\ jobs'[i].n = accepted'[jobs'[i].key]
               /\ served'[jobs'[i].key] < jobs'[i].n
    <3>1. CASE jobs[i].key = k
      BY <1>1, <1>6, <1>7, <1>8, <3>1
    <3>2. CASE jobs[i].key # k
      <4>1. /\ jobs[i].n <= sent /\ jobs[i].n = accepted[jobs[i].key]
            /\ served[jobs[i].key] < jobs[i].n
        BY <1>8
      <4>2. /\ jobs'[i].n = jobs[i].n /\ jobs'[i].key = jobs[i].key /\ jobs[i].n \in Nat
            /\ accepted'[jobs[i].key] = accepted[jobs[i].key]
        BY <1>6, <1>7, <3>2
      <4>3. jobs[i].n <= sent'
        BY <1>1, <4>1, <4>2
      <4> QED BY <4>1, <4>2, <4>3
    <3> QED BY <3>1, <3>2
  <2>2. \A i, j \in 1..Len(jobs) : jobs'[i].key = jobs'[j].key => i = j
    BY <1>7, <1>8
  <2> QED BY <1>5, <2>1, <2>2 DEF JobsFresh
<1>10. PICK i \in 1..Len(jobs) : jobs[i].key = k
  BY <1>1 DEF Coalesce, Queued
<1>11. \A l \in Keys : Outstanding(l)' => \E j \in 1..Len(jobs') : jobs'[j].key = l
  <2>1. ASSUME NEW l \in Keys, accepted'[l] # served'[l]
        PROVE  \E j \in 1..Len(jobs) : jobs[j].key = l
    <3>1. CASE l = k
      BY <1>10, <3>1
    <3>2. CASE l # k
      <4>1. accepted[l] # served[l]
        BY <1>6, <2>1, <3>2
      <4> QED BY <1>8, <4>1
    <3> QED BY <3>1, <3>2
  <2>2. \A j \in 1..Len(jobs) : j \in 1..Len(jobs') /\ jobs'[j].key = jobs[j].key
    BY <1>5, <1>7
  <2> QED BY <2>1, <2>2, Zenon DEF Outstanding
<1>12. \A l \in Keys : served'[l] <= sent'
  BY <1>1, <1>8
<1> QED BY <1>1, <1>2, <1>5, <1>6, <1>9, <1>11, <1>12 DEF QueueInv

\* A job of a key that none waits for goes to the end.
LEMMA Enqueued ==
  ASSUME QueueInv, sent' = sent + 1, served' = served, NEW k \in Keys, Enqueue(k, sent')
  PROVE  QueueInv'
<1>1. /\ jobs \in Seq(QueuedJob) /\ sent \in Nat /\ sent' \in Nat /\ Len(jobs) \in Nat
      /\ accepted \in [Keys -> Nat] /\ served \in [Keys -> Nat]
  BY DEF QueueInv
<1>2. /\ jobs' = Append(jobs, [key |-> k, n |-> sent'])
      /\ accepted' = [accepted EXCEPT ![k] = sent'] /\ stopped' = stopped /\ ~stopped
      /\ \A i \in 1..Len(jobs) : jobs[i].key # k
  BY <1>1 DEF Enqueue, Queued
<1>3. [key |-> k, n |-> sent'] \in QueuedJob
  BY <1>1, NewJob
<1>4. /\ jobs' \in Seq(QueuedJob) /\ Len(jobs') = Len(jobs) + 1
      /\ \A i \in 1..Len(jobs) : jobs'[i] = jobs[i] /\ jobs[i] \in QueuedJob
      /\ jobs'[Len(jobs) + 1] = [key |-> k, n |-> sent']
  BY <1>1, <1>2, <1>3
<1>5. jobs'[Len(jobs) + 1].key = k /\ jobs'[Len(jobs) + 1].n = sent'
  BY <1>1, <1>4, NewJob
<1>6. accepted' \in [Keys -> Nat] /\ accepted'[k] = sent'
      /\ \A l \in Keys : l # k => accepted'[l] = accepted[l]
  BY <1>1, <1>2
<1>7. \A i \in 1..Len(jobs) : jobs[i].key \in Keys /\ jobs[i].n \in Nat /\ jobs'[i] = jobs[i]
  BY <1>4, JobFields
<1>8. /\ \A i \in 1..Len(jobs) :
           /\ jobs[i].n <= sent
           /\ jobs[i].n = accepted[jobs[i].key]
           /\ served[jobs[i].key] < jobs[i].n
      /\ \A i, j \in 1..Len(jobs) : jobs[i].key = jobs[j].key => i = j
      /\ \A l \in Keys : served[l] <= sent
      /\ \A l \in Keys : accepted[l] # served[l] => \E i \in 1..Len(jobs) : jobs[i].key = l
  BY <1>2 DEF QueueInv, JobsFresh, Outstanding
<1>9. \A i \in 1..Len(jobs') : i \in 1..Len(jobs) \/ i = Len(jobs) + 1
  BY <1>1, <1>4
<1>10. \A i \in 1..Len(jobs') :
         /\ jobs'[i].n <= sent'
         /\ jobs'[i].n = accepted'[jobs'[i].key]
         /\ served'[jobs'[i].key] < jobs'[i].n
  BY <1>1, <1>2, <1>5, <1>6, <1>7, <1>8, <1>9
<1>11. \A i, j \in 1..Len(jobs') : jobs'[i].key = jobs'[j].key => i = j
  BY <1>2, <1>5, <1>7, <1>8, <1>9
<1>12. \A l \in Keys : Outstanding(l)' => \E j \in 1..Len(jobs') : jobs'[j].key = l
  <2>1. Len(jobs) + 1 \in 1..Len(jobs') /\ \A j \in 1..Len(jobs) : j \in 1..Len(jobs')
    BY <1>1, <1>4
  <2>2. ASSUME NEW l \in Keys, accepted'[l] # served'[l]
        PROVE  \E j \in 1..Len(jobs') : jobs'[j].key = l
    <3>1. CASE l = k
      BY <1>5, <2>1, <3>1
    <3>2. CASE l # k
      <4>1. accepted[l] # served[l]
        BY <1>6, <2>2, <3>2
      <4>2. PICK j \in 1..Len(jobs) : jobs[j].key = l
        BY <1>8, <4>1
      <4> QED BY <1>7, <2>1, <4>2
    <3> QED BY <3>1, <3>2
  <2> QED BY <2>2 DEF Outstanding
<1>13. \A l \in Keys : served'[l] <= sent'
  BY <1>1, <1>8
<1> QED BY <1>1, <1>2, <1>4, <1>6, <1>10, <1>11, <1>12, <1>13 DEF QueueInv, JobsFresh

LEMMA QueuePush == QueueInv /\ Push => QueueInv'
<1> SUFFICES ASSUME QueueInv, Push PROVE QueueInv'
  OBVIOUS
<1>1. PICK k \in Keys : Closed \/ Coalesce(k, sent') \/ Enqueue(k, sent') \/ Full(k)
  BY DEF Push
<1>2. sent' = sent + 1 /\ served' = served
  BY DEF Push
<1>3. CASE Closed
  BY <1>2, <1>3, Emptied DEF Closed
<1>4. CASE Coalesce(k, sent')
  BY <1>2, <1>4, Coalesced
<1>5. CASE Enqueue(k, sent')
  BY <1>2, <1>5, Enqueued
<1>6. CASE Full(k)
  BY <1>2, <1>6, Dropped DEF Full, queue
<1> QED BY <1>1, <1>3, <1>4, <1>5, <1>6

\* The first job is taken: it was the newest of its key and now has run.
LEMMA QueueTake ==
  ASSUME QueueInv, ~stopped, jobs # <<>>, stopped' = stopped, sent' = sent, accepted' = accepted,
         jobs' = Tail(jobs), served' = [served EXCEPT ![Head(jobs).key] = Head(jobs).n]
  PROVE  QueueInv'
<1>1. /\ jobs \in Seq(QueuedJob) /\ sent \in Nat /\ Len(jobs) \in Nat /\ Len(jobs) > 0
      /\ accepted \in [Keys -> Nat] /\ served \in [Keys -> Nat]
  BY DEF QueueInv
<1>2. /\ Head(jobs) = jobs[1] /\ jobs' \in Seq(QueuedJob) /\ Len(jobs') = Len(jobs) - 1
      /\ \A i \in 1..Len(jobs') : jobs'[i] = jobs[i + 1]
      /\ \A i \in 1..Len(jobs) : jobs[i] \in QueuedJob
  BY <1>1
<1>3. \A i \in 1..Len(jobs) : jobs[i].key \in Keys /\ jobs[i].n \in Nat
  BY <1>2, JobFields
<1>4. 1 \in 1..Len(jobs) /\ \A i \in 1..Len(jobs') : i + 1 \in 1..Len(jobs) /\ i + 1 # 1
  BY <1>1, <1>2
<1>5. /\ \A i \in 1..Len(jobs) :
           /\ jobs[i].n <= sent
           /\ jobs[i].n = accepted[jobs[i].key]
           /\ served[jobs[i].key] < jobs[i].n
      /\ \A i, j \in 1..Len(jobs) : jobs[i].key = jobs[j].key => i = j
      /\ \A l \in Keys : served[l] <= sent
      /\ \A l \in Keys : accepted[l] # served[l] => \E i \in 1..Len(jobs) : jobs[i].key = l
  BY DEF QueueInv, JobsFresh, Outstanding
<1>6. /\ served' \in [Keys -> Nat] /\ served'[jobs[1].key] = jobs[1].n
      /\ \A l \in Keys : l # jobs[1].key => served'[l] = served[l]
  BY <1>1, <1>2, <1>3, <1>4
<1>7. \A i \in 1..Len(jobs') : jobs'[i].key # jobs[1].key
  BY <1>2, <1>4, <1>5
<1>8. \A i \in 1..Len(jobs') :
        /\ jobs'[i].n <= sent
        /\ jobs'[i].n = accepted[jobs'[i].key]
        /\ served'[jobs'[i].key] < jobs'[i].n
  BY <1>2, <1>3, <1>4, <1>5, <1>6, <1>7
<1>9. \A i, j \in 1..Len(jobs') : jobs'[i].key = jobs'[j].key => i = j
  <2>1. ASSUME NEW i \in 1..Len(jobs'), NEW j \in 1..Len(jobs'), jobs'[i].key = jobs'[j].key
        PROVE  i = j
    <3>1. i + 1 = j + 1
      BY <1>2, <1>4, <1>5, <2>1
    <3> QED BY <3>1
  <2> QED BY <2>1
<1>10. \A l \in Keys : Outstanding(l)' => \E j \in 1..Len(jobs') : jobs'[j].key = l
  <2>1. ASSUME NEW l \in Keys, accepted[l] # served'[l] PROVE \E j \in 1..Len(jobs') : jobs'[j].key = l
    <3>1. l # jobs[1].key
      BY <1>4, <1>5, <1>6, <2>1
    <3>2. PICK i \in 1..Len(jobs) : jobs[i].key = l
      BY <1>5, <1>6, <2>1, <3>1
    <3>3. i # 1 /\ i - 1 \in 1..Len(jobs') /\ (i - 1) + 1 = i
      BY <1>1, <1>2, <3>1, <3>2
    <3> QED BY <1>2, <3>2, <3>3
  <2> QED BY <2>1 DEF Outstanding
<1>11. \A l \in Keys : served'[l] <= sent
  BY <1>1, <1>3, <1>4, <1>5, <1>6
<1> QED BY <1>1, <1>2, <1>6, <1>8, <1>9, <1>10, <1>11 DEF QueueInv, JobsFresh

-----------------------------------------------------------------------------
LEMMA QueueStep == QueueInv /\ [Next]_vars => QueueInv'
<1> SUFFICES ASSUME QueueInv, [Next]_vars PROVE QueueInv'
  OBVIOUS
<1> USE DEF queue, shares, history, JobOnly, WorkerOnly
<1>1. CASE Prepare
  BY <1>1, Dropped DEF Prepare
<1>2. CASE Copy
  BY <1>2, Dropped DEF Copy
<1>3. CASE SaveCopy
  BY <1>3, Dropped DEF SaveCopy
<1>4. CASE SignalingEnds
  BY <1>4, Dropped DEF SignalingEnds
<1>5. CASE Push
  BY <1>5, QueuePush
<1>6. CASE Check
  BY <1>6, Dropped, Emptied DEF Check, Stop
<1>7. CASE Look
  BY <1>7, Dropped, QueueTake DEF Look
<1>8. CASE Sleep
  BY <1>8, Dropped, Emptied DEF Sleep, Stop
<1>9. CASE Upload
  BY <1>9, Dropped DEF Upload
<1>10. CASE Refresh
  BY <1>10, Dropped DEF Refresh
<1>11. CASE UploadMode
  BY <1>11, Dropped DEF UploadMode
<1>12. CASE Save
  BY <1>12, Dropped DEF Save
<1>13. CASE Confirm
  BY <1>13, Dropped DEF Confirm
<1>14. CASE UNCHANGED vars
  BY <1>14, Dropped DEF vars
<1> QED BY <1>1, <1>2, <1>3, <1>4, <1>5, <1>6, <1>7, <1>8, <1>9, <1>10, <1>11, <1>12,
           <1>13, <1>14 DEF Next, Worker

LEMMA FileStep == FileInv /\ [Next]_vars => FileInv'
<1> SUFFICES ASSUME FileInv, [Next]_vars PROVE FileInv'
  OBVIOUS
<1> USE DEF FileInv, queue, shares, history, JobOnly, WorkerOnly, WorkerAt, Finish
<1>1. CASE Prepare
  BY <1>1 DEF Prepare
<1>2. CASE Copy
  BY <1>2 DEF Copy
<1>3. CASE SaveCopy
  BY <1>3 DEF SaveCopy
<1>4. CASE SignalingEnds
  BY <1>4 DEF SignalingEnds
<1>5. CASE Push
  BY <1>5 DEF Push
<1>6. CASE Check
  BY <1>6 DEF Check, Stop
<1>7. CASE Look
  BY <1>7 DEF Look
<1>8. CASE Sleep
  BY <1>8 DEF Sleep, Stop
<1>9. CASE Upload
  BY <1>9 DEF Upload
<1>10. CASE Refresh
  BY <1>10 DEF Refresh
<1>11. CASE UploadMode
  BY <1>11 DEF UploadMode
<1>12. CASE Save
  BY <1>12 DEF Save
<1>13. CASE Confirm
  BY <1>13 DEF Confirm
<1>14. CASE UNCHANGED vars
  BY <1>14 DEF vars
<1> QED BY <1>1, <1>2, <1>3, <1>4, <1>5, <1>6, <1>7, <1>8, <1>9, <1>10, <1>11, <1>12,
           <1>13, <1>14 DEF Next, Worker

LEMMA QueueInit == Init => QueueInv
<1> SUFFICES ASSUME Init PROVE QueueInv
  OBVIOUS
<1>1. /\ sent = 0 /\ jobs = <<>> /\ ~stopped
      /\ accepted = [k \in Keys |-> 0] /\ served = [k \in Keys |-> 0]
  BY DEF Init
<1>2. jobs \in Seq(QueuedJob) /\ \A i : i \notin 1..Len(jobs)
  BY <1>1
<1>3. JobsFresh
  BY <1>2 DEF JobsFresh
<1> QED BY <1>1, <1>2, <1>3 DEF QueueInv, Outstanding

-----------------------------------------------------------------------------
\* The push queue keeps the newest push of every key (of pushQueue.submit,
\* which merges a push into the waiting one of its key, and of run).
THEOREM NewestPush == Spec => []NewestPushRuns
<1>1. QueueInv => NewestPushRuns
  <2> SUFFICES ASSUME QueueInv, NEW k \in Keys
               PROVE  /\ \A i \in DOMAIN jobs : jobs[i].key = k => served[k] < jobs[i].n
                      /\ ~stopped =>
                           \/ accepted[k] = served[k]
                           \/ \E i \in DOMAIN jobs : jobs[i] = [key |-> k, n |-> accepted[k]]
    BY DEF NewestPushRuns
  <2>1. DOMAIN jobs = 1..Len(jobs) /\ \A i \in 1..Len(jobs) : jobs[i] \in QueuedJob
    BY DEF QueueInv
  <2>2. \A i \in DOMAIN jobs : jobs[i].key = k => served[k] < jobs[i].n
    BY <2>1 DEF QueueInv, JobsFresh
  <2>3. ASSUME NEW i \in 1..Len(jobs), jobs[i].key = k
        PROVE  jobs[i] = [key |-> k, n |-> accepted[k]]
    <3>1. jobs[i].n = accepted[k]
      BY <2>3 DEF QueueInv, JobsFresh
    <3> QED BY <2>1, <2>3, <3>1, JobFields
  <2>4. ASSUME ~stopped, accepted[k] # served[k] PROVE \E i \in 1..Len(jobs) : jobs[i].key = k
    BY <2>4 DEF QueueInv, Outstanding
  <2> QED BY <2>1, <2>2, <2>3, <2>4
<1> QED BY QueueInit, QueueStep, <1>1, PTL DEF Spec

\* The share file of a room that is served holds the share in memory, unless its
\* last write failed or was serveRoom's, of a copy older than the share.
THEOREM FileHoldsShare == Spec => []ShareFileCurrent
<1>1. Init => FileInv
  BY DEF Init, FileInv
<1>2. FileInv => ShareFileCurrent
  BY DEF FileInv, ShareFileCurrent, Running
<1> QED BY <1>1, FileStep, <1>2, PTL DEF Spec
=============================================================================
