--------------------------- MODULE AlertDispatcher ---------------------------
(***************************************************************************)
(* human_detector.py, class AlertDispatcher: the consumer thread submits a  *)
(* detection, a daemon thread writes the image and publishes the alert.     *)
(* The two threads share a queue.Queue; each of its methods is one atomic   *)
(* step (it holds the queue's mutex), everything between two of them is     *)
(* not.  Detections are numbered in the order they are submitted.           *)
(* Names that DetectorCluster has too begin with Dispatcher here, so that   *)
(* DetectorProofs can extend both.                                          *)
(***************************************************************************)
EXTENDS Integers, Sequences, Functions

CONSTANTS QueueSize,    \* maxsize of the queue.Queue
          Retries,      \* publish attempts per alert
          MaxSubmits    \* bound on the number of detections

\* maxsize 0 would mean an unbounded queue.Queue; the code passes 500.
ASSUME DispatcherAssumption == /\ QueueSize \in Nat \ {0}
                               /\ Retries \in Nat \ {0}
                               /\ MaxSubmits \in Nat

VARIABLES
  queue,       \* the detections in the queue.Queue, oldest first
  unfinished,  \* its unfinished_tasks counter
  pPc,         \* the consumer thread: "idle", or where it is inside submit
  submitted,   \* number of the latest detection handed to submit
  wPc,         \* where the daemon thread is inside _worker
  item,        \* the detection it holds, 0 for none
  attempt,     \* its publish attempt, 0 outside _publish_with_retry
  conn,        \* its connection: "none", "open", or "broken" (closed, unnoticed)
  evicted,     \* detections submit discarded
  finished,    \* detections _worker is done with
  disk,        \* detections whose image was written
  raised,      \* detections whose write raised an exception
  copies       \* how often each alert reached alert_queue

producerVars == <<pPc, submitted, evicted>>
workerVars == <<wPc, item, attempt>>
outcomeVars == <<disk, raised, copies>>
dispatcherVars == <<queue, unfinished, producerVars, workerVars, conn, finished, outcomeVars>>

Detections == 1..MaxSubmits

DispatcherTypeOK ==
  /\ queue \in Seq(Detections)
  /\ Len(queue) <= QueueSize
  /\ unfinished \in Int
  /\ pPc \in {"idle", "put", "evict", "task_done"}
  /\ submitted \in 0..MaxSubmits
  /\ wPc \in {"get", "write", "ensure", "send", "task_done"}
  /\ item \in 0..MaxSubmits
  /\ attempt \in 0..Retries
  /\ conn \in {"none", "open", "broken"}
  /\ evicted \in SUBSET Detections
  /\ finished \in SUBSET Detections
  /\ disk \in SUBSET Detections
  /\ raised \in SUBSET Detections
  /\ copies \in [Detections -> Nat]

DispatcherInit ==
  /\ queue = <<>>
  /\ unfinished = 0
  /\ pPc = "idle"
  /\ submitted = 0
  /\ wPc = "get"
  /\ item = 0
  /\ attempt = 0
  /\ conn = "none"
  /\ evicted = {}
  /\ finished = {}
  /\ disk = {}
  /\ raised = {}
  /\ copies = [d \in Detections |-> 0]

-----------------------------------------------------------------------------
(* submit, run by the consumer thread *)

Submit ==
  /\ pPc = "idle"
  /\ submitted < MaxSubmits
  /\ submitted' = submitted + 1
  /\ pPc' = "put"
  /\ UNCHANGED <<queue, unfinished, workerVars, conn, evicted, finished, outcomeVars>>

\* Mutant: the put does not look at maxsize.
PutUnbounded ==
  /\ pPc = "put"
  /\ queue' = Append(queue, submitted)
  /\ unfinished' = unfinished + 1
  /\ pPc' = "idle"
  /\ UNCHANGED <<submitted, workerVars, conn, evicted, finished, outcomeVars>>

Put ==
  /\ pPc = "put"
  /\ Len(queue) < QueueSize
  /\ queue' = Append(queue, submitted)
  /\ unfinished' = unfinished + 1
  /\ pPc' = "idle"
  /\ UNCHANGED <<submitted, workerVars, conn, evicted, finished, outcomeVars>>

\* Mutant: the full queue makes submit discard the new detection.
PutFullDropsNewest ==
  /\ pPc = "put"
  /\ Len(queue) = QueueSize
  /\ evicted' = evicted \cup {submitted}
  /\ pPc' = "idle"
  /\ UNCHANGED <<queue, unfinished, submitted, workerVars, conn, finished, outcomeVars>>

\* put_nowait raises queue.Full; by the time the handler runs, the daemon
\* thread may have made room.
PutFull ==
  /\ pPc = "put"
  /\ Len(queue) = QueueSize
  /\ pPc' = "evict"
  /\ UNCHANGED <<queue, unfinished, submitted, workerVars, conn, evicted, finished, outcomeVars>>

\* Mutant: the evicted frame is not reported with task_done.
EvictOldestNoTaskDone ==
  /\ pPc = "evict"
  /\ queue # <<>>
  /\ evicted' = evicted \cup {Head(queue)}
  /\ queue' = Tail(queue)
  /\ pPc' = "put"
  /\ UNCHANGED <<unfinished, submitted, workerVars, conn, finished, outcomeVars>>

EvictOldest ==
  /\ pPc = "evict"
  /\ queue # <<>>
  /\ evicted' = evicted \cup {Head(queue)}
  /\ queue' = Tail(queue)
  /\ pPc' = "task_done"
  /\ UNCHANGED <<unfinished, submitted, workerVars, conn, finished, outcomeVars>>

\* Mutant: the Empty handler tries to evict again instead of to enqueue.
EvictEmptyRetriesEvict ==
  /\ pPc = "evict"
  /\ queue = <<>>
  /\ UNCHANGED dispatcherVars

\* get_nowait raises queue.Empty: the daemon thread emptied the queue.
EvictEmpty ==
  /\ pPc = "evict"
  /\ queue = <<>>
  /\ pPc' = "put"
  /\ UNCHANGED <<queue, unfinished, submitted, workerVars, conn, evicted, finished, outcomeVars>>

EvictTaskDone ==
  /\ pPc = "task_done"
  /\ unfinished' = unfinished - 1
  /\ pPc' = "put"
  /\ UNCHANGED <<queue, submitted, workerVars, conn, evicted, finished, outcomeVars>>

-----------------------------------------------------------------------------
(* _worker, the daemon thread *)

\* Mutant: the worker serves the newest detection first.
GetNewest ==
  /\ wPc = "get"
  /\ queue # <<>>
  /\ item' = queue[Len(queue)]
  /\ queue' = SubSeq(queue, 1, Len(queue) - 1)
  /\ wPc' = "write"
  /\ UNCHANGED <<unfinished, producerVars, attempt, conn, finished, outcomeVars>>

\* Mutant: the worker leaves the detection in the queue while it works on it.
GetPeeks ==
  /\ wPc = "get"
  /\ queue # <<>>
  /\ item' = Head(queue)
  /\ wPc' = "write"
  /\ UNCHANGED <<queue, unfinished, producerVars, attempt, conn, finished, outcomeVars>>

Get ==
  /\ wPc = "get"
  /\ queue # <<>>
  /\ item' = Head(queue)
  /\ queue' = Tail(queue)
  /\ wPc' = "write"
  /\ UNCHANGED <<unfinished, producerVars, attempt, conn, finished, outcomeVars>>

\* makedirs and imwrite: imwrite may return False, which is only logged.
Write ==
  /\ wPc = "write"
  /\ \/ disk' = disk \cup {item}
     \/ disk' = disk
  /\ attempt' = 1
  /\ wPc' = "ensure"
  /\ UNCHANGED <<queue, unfinished, producerVars, item, conn, finished, raised, copies>>

\* Mutant: the exception of the write is swallowed before the publish.
WriteRaisesIgnored ==
  /\ wPc = "write"
  /\ raised' = raised \cup {item}
  /\ attempt' = 1
  /\ wPc' = "ensure"
  /\ UNCHANGED <<queue, unfinished, producerVars, item, conn, finished, disk, copies>>

\* makedirs or imwrite raises: straight to the finally clause.
WriteRaises ==
  /\ wPc = "write"
  /\ raised' = raised \cup {item}
  /\ wPc' = "task_done"
  /\ UNCHANGED <<queue, unfinished, producerVars, item, attempt, conn, finished, disk, copies>>

ResetChannel == conn' = "none"

\* The except clause of an attempt: the next attempt, or "return False".
NextAttempt ==
  /\ ResetChannel
  /\ IF attempt < Retries
     THEN attempt' = attempt + 1 /\ wPc' = "ensure"
     ELSE attempt' = 0 /\ wPc' = "task_done"

\* _ensure_channel: reuse the connection (is_closed may not have noticed that
\* it is broken) or open one.
EnsureChannel ==
  /\ wPc = "ensure"
  /\ \/ conn \in {"open", "broken"} /\ UNCHANGED conn
     \/ conn \in {"none", "broken"} /\ conn' = "open"
  /\ wPc' = "send"
  /\ UNCHANGED <<queue, unfinished, producerVars, item, attempt, finished, outcomeVars>>

\* connect_rabbitmq gives up and raises.
ConnectFails ==
  /\ wPc = "ensure"
  /\ conn \in {"none", "broken"}
  /\ NextAttempt
  /\ UNCHANGED <<queue, unfinished, producerVars, item, finished, outcomeVars>>

\* basic_publish returns.  There are no publisher confirms: on a broken
\* connection the bytes may go nowhere.
Send ==
  /\ wPc = "send"
  /\ copies' = IF conn = "open" THEN [copies EXCEPT ![item] = @ + 1] ELSE copies
  /\ attempt' = 0
  /\ wPc' = "task_done"
  /\ UNCHANGED <<queue, unfinished, producerVars, item, conn, finished, disk, raised>>

\* basic_publish raises, before or after the broker got the message.
SendFails ==
  /\ wPc = "send"
  /\ \/ conn = "open" /\ copies' = [copies EXCEPT ![item] = @ + 1]
     \/ UNCHANGED copies
  /\ NextAttempt
  /\ UNCHANGED <<queue, unfinished, producerVars, item, finished, disk, raised>>

TaskDone ==
  /\ wPc = "task_done"
  /\ unfinished' = unfinished - 1
  /\ finished' = finished \cup {item}
  /\ item' = 0
  /\ wPc' = "get"
  /\ UNCHANGED <<queue, producerVars, attempt, conn, outcomeVars>>

\* The broker, the network or a missed heartbeat closes the connection.
ConnectionBreaks ==
  /\ conn = "open"
  /\ conn' = "broken"
  /\ UNCHANGED <<queue, unfinished, producerVars, workerVars, finished, outcomeVars>>

-----------------------------------------------------------------------------
Producer == Put \/ PutFull \/ EvictOldest \/ EvictEmpty \/ EvictTaskDone

Worker == \/ Get \/ Write \/ WriteRaises
          \/ EnsureChannel \/ ConnectFails \/ Send \/ SendFails \/ TaskDone

\* Nothing left to submit (the bound) and the daemon thread waits in queue.get.
Idle == /\ submitted = MaxSubmits
        /\ pPc = "idle"
        /\ wPc = "get"
        /\ queue = <<>>
        /\ UNCHANGED dispatcherVars

DispatcherNext == Submit \/ Producer \/ Worker \/ ConnectionBreaks \/ Idle

\* Two runnable threads: each is scheduled, and every call they make returns
\* (connect_rabbitmq and imwrite are bounded).  Detections need not come and
\* connections need not break.
DispatcherFairness == WF_dispatcherVars(Producer) /\ WF_dispatcherVars(Worker)

DispatcherSpec == DispatcherInit /\ [][DispatcherNext]_dispatcherVars /\ DispatcherFairness

-----------------------------------------------------------------------------
(* Correctness *)

One(b) == IF b THEN 1 ELSE 0

\* unfinished_tasks counts what is queued, what the daemon thread works on and
\* what submit has taken out and not yet reported: it never goes negative (the
\* task_done of either thread never raises) and is 0 only when all is settled.
UnfinishedAccounting ==
  unfinished = Len(queue) + One(wPc # "get") + One(pPc = "task_done")

\* The comment of submit: "so the latest intruder detection is never lost".
LatestNeverEvicted == \A d \in evicted : d < submitted

\* A detection is in one place: on its way in, queued, with the daemon thread,
\* evicted or finished; none is lost between the two threads and none is
\* handled twice, whatever evictions race with the daemon thread.
Incoming(d) == pPc # "idle" /\ d = submitted

ExactlyOnePlace == \A d \in 1..submitted :
  1 = One(Incoming(d)) + One(d \in Range(queue)) + One(d = item)
      + One(d \in evicted) + One(d \in finished)

\* Alerts leave in the order of the detections: what is queued is in order and
\* newer than all the daemon thread has taken.
InOrder ==
  /\ \A i, j \in DOMAIN queue : i < j => queue[i] < queue[j]
  /\ \A i \in DOMAIN queue, d \in finished \cup {item} : d < queue[i]

\* A detection whose image write raised is never announced, and no alert is
\* announced more than Retries times.
AlertsJustified == \A d \in Detections :
  /\ copies[d] > 0 => d \notin raised
  /\ copies[d] <= Retries

\* submit returns: the eviction loop cannot spin, even against a stalled worker.
SubmitReturns == (pPc # "idle") ~> (pPc = "idle")

\* Every detection is in the end evicted or done with, and the consumer thread is
\* not held up by it.
EverySubmissionSettles ==
  /\ SubmitReturns
  /\ \A d \in Detections : (d = submitted) ~> (d \in evicted \cup finished)

\* submit and _worker together implement the buffer they promise.
Accepted == IF pPc = "idle" THEN submitted ELSE submitted - 1

LastTaken == IF item # 0 THEN item
             ELSE IF finished = {} THEN 0
             ELSE CHOOSE d \in finished : \A e \in finished : e <= d

Buffer == INSTANCE DropOldestBuffer WITH
  Capacity <- QueueSize,
  MaxOffers <- MaxSubmits,
  buf <- queue,
  offered <- submitted,
  accepted <- Accepted,
  taken <- LastTaken

ImplementsBuffer == Buffer!Spec

=============================================================================
