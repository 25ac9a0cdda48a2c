--------------------------- MODULE DetectorCluster ---------------------------
(***************************************************************************)
(* human_detector.py, consume_frames: replicas of the detector share        *)
(* frame_queue, each with prefetch 1 and manual acknowledgement.  A frame   *)
(* is a number, in the order the capturers publish; what it shows is given  *)
(* by the constants.  Each replica hands its detections to its own          *)
(* AlertDispatcher, which is here the bounded buffer of DropOldestBuffer    *)
(* and the detection that its daemon thread has in hand.                    *)
(* RabbitMQ, the container runtime and the network are the environment.     *)
(***************************************************************************)
EXTENDS Naturals, Sequences, FiniteSets, Functions

CONSTANTS Replicas,      \* detector processes
          MaxFrames,     \* how many frames the capturers publish (a bound)
          Cameras,
          Camera,        \* the camera of a frame
          Hash,          \* the hash of its image
          Persons,       \* frames on which the model finds a person
          Corrupt,       \* frames whose image does not decode
          WarmupLimit,   \* WARMUP_LIMIT
          BufferSize,    \* maxsize of the dispatcher's queue
          MaxFaults,     \* bound on crashes and connection losses
          NoHash

Frames == 1..MaxFrames

ASSUME ClusterAssumption ==
  /\ IsFiniteSet(Replicas)
  /\ MaxFrames \in Nat
  /\ Camera \in [Frames -> Cameras]
  /\ DOMAIN Hash = Frames
  /\ NoHash \notin Range(Hash)
  /\ Persons \subseteq Frames
  /\ Corrupt \subseteq Frames \ Persons
  /\ WarmupLimit \in Nat
  /\ BufferSize \in Nat \ {0}
  /\ MaxFaults \in Nat

VARIABLES
  published,    \* how many frames the capturers have published
  frameQueue,   \* frame_queue: the ready messages
  link,         \* a replica: "down" (process not running), "up", or "closed"
                \* (running, its connection is gone and it has not noticed)
  pc,           \* its consumer thread: "idle", "callback", "infer", or "ack"
  current,      \* the frame in its callback, 0 for none
  warmup,       \* camera_warmup
  lastHash,     \* last_saved_hashes
  buffer,       \* the queue of its AlertDispatcher
  held,         \* the detection that the dispatcher's thread has in hand, or 0
  acked,        \* frames RabbitMQ has removed on an acknowledgement
  brokerLost,   \* frames that were in RabbitMQ when it restarted
  deliveries,   \* how often a frame was delivered
  submissions,  \* how often a frame was submitted as a detection
  events,       \* what else happened to a frame
  faults        \* crashes and connection losses so far

processVars == <<pc, current, warmup, lastHash>>
brokerVars == <<frameQueue, acked, brokerLost, deliveries>>
dispatcher == <<buffer, held>>
vars == <<published, brokerVars, link, processVars, dispatcher, submissions, events, faults>>

Events == {"warmup", "duplicate", "undecodable", "error", "clear",
           "evicted", "alerted", "unsent", "lost"}

TypeOK ==
  /\ published \in 0..MaxFrames
  /\ frameQueue \in Seq(Frames)
  /\ link \in [Replicas -> {"down", "up", "closed"}]
  /\ pc \in [Replicas -> {"idle", "callback", "infer", "ack"}]
  /\ current \in [Replicas -> {0} \cup Frames]
  /\ warmup \in [Replicas -> [Cameras -> 0..WarmupLimit]]
  /\ lastHash \in [Replicas -> [Cameras -> Range(Hash) \cup {NoHash}]]
  /\ buffer \in [Replicas -> Seq(Persons)]
  /\ \A r \in Replicas : Len(buffer[r]) <= BufferSize
  /\ held \in [Replicas -> {0} \cup Persons]
  /\ acked \subseteq Frames
  /\ brokerLost \subseteq Frames
  /\ deliveries \in [Frames -> Nat]
  /\ submissions \in [Frames -> Nat]
  /\ events \in [Frames -> SUBSET Events]
  /\ faults \in 0..MaxFaults

FreshWarmup == [c \in Cameras |-> 0]
FreshHashes == [c \in Cameras |-> NoHash]

Init ==
  /\ published = 0
  /\ frameQueue = <<>>
  /\ link = [r \in Replicas |-> "down"]
  /\ pc = [r \in Replicas |-> "idle"]
  /\ current = [r \in Replicas |-> 0]
  /\ warmup = [r \in Replicas |-> FreshWarmup]
  /\ lastHash = [r \in Replicas |-> FreshHashes]
  /\ buffer = [r \in Replicas |-> <<>>]
  /\ held = [r \in Replicas |-> 0]
  /\ acked = {}
  /\ brokerLost = {}
  /\ deliveries = [f \in Frames |-> 0]
  /\ submissions = [f \in Frames |-> 0]
  /\ events = [f \in Frames |-> {}]
  /\ faults = 0

Happens(f, what) == events' = [events EXCEPT ![f] = @ \cup {what}]

-----------------------------------------------------------------------------
(* RabbitMQ *)

\* A capturer's frame reaches frame_queue.
Publish ==
  /\ published < MaxFrames
  /\ published' = published + 1
  /\ frameQueue' = Append(frameQueue, published + 1)
  /\ UNCHANGED <<link, processVars, dispatcher, acked, brokerLost, deliveries, submissions, events, faults>>

\* basic_qos(prefetch_count=1): the next frame goes to a replica that has none.
Deliver(r) ==
  /\ link[r] = "up"
  /\ pc[r] = "idle"
  /\ current[r] = 0
  /\ frameQueue # <<>>
  /\ current' = [current EXCEPT ![r] = Head(frameQueue)]
  /\ deliveries' = [deliveries EXCEPT ![Head(frameQueue)] = @ + 1]
  /\ frameQueue' = Tail(frameQueue)
  /\ pc' = [pc EXCEPT ![r] = "callback"]
  /\ UNCHANGED <<published, link, warmup, lastHash, dispatcher, acked, brokerLost, submissions, events, faults>>

\* An unacknowledged frame goes back to its original position.
Unacked(r) == IF link[r] = "up" /\ current[r] # 0 THEN {current[r]} ELSE {}

Requeued(q, S) ==
  IF S = {} THEN q
  ELSE LET f == CHOOSE g \in S : TRUE
           k == CHOOSE k \in 0..Len(q) : \A i \in DOMAIN q : q[i] < f <=> i <= k
       IN  SubSeq(q, 1, k) \o <<f>> \o SubSeq(q, k + 1, Len(q))

\* The broker gives up on a replica (a callback that outlasts the heartbeat, a
\* network failure); the replica has not noticed.
ConnectionLost(r) ==
  /\ link[r] = "up"
  /\ faults < MaxFaults
  /\ faults' = faults + 1
  /\ link' = [link EXCEPT ![r] = "closed"]
  /\ frameQueue' = Requeued(frameQueue, Unacked(r))
  /\ UNCHANGED <<published, processVars, dispatcher, acked, brokerLost, deliveries, submissions, events>>

\* /var/lib/rabbitmq is a tmpfs: a restart of the broker empties the queues,
\* durable or not.
BrokerRestart ==
  /\ faults < MaxFaults
  /\ \E r \in Replicas : link[r] # "down"
  /\ faults' = faults + 1
  /\ brokerLost' = brokerLost \cup Range(frameQueue) \cup UNION {Unacked(r) : r \in Replicas}
  /\ frameQueue' = <<>>
  /\ link' = [r \in Replicas |-> IF link[r] = "up" THEN "closed" ELSE link[r]]
  /\ UNCHANGED <<published, processVars, dispatcher, acked, deliveries, submissions, events>>

-----------------------------------------------------------------------------
(* callback, the consumer thread of a replica *)

WarmingUp(r) == warmup[r][Camera[current[r]]] < WarmupLimit

WarmupSkip(r) ==
  /\ pc[r] = "callback"
  /\ WarmingUp(r)
  /\ warmup' = [warmup EXCEPT ![r][Camera[current[r]]] = @ + 1]
  /\ Happens(current[r], "warmup")
  /\ pc' = [pc EXCEPT ![r] = "ack"]
  /\ UNCHANGED <<published, brokerVars, link, current, lastHash, dispatcher, submissions, faults>>

IsDuplicate(r) == lastHash[r][Camera[current[r]]] = Hash[current[r]]

\* Mutant: the early return comes before the acknowledgement.
DuplicateSkipUnacked(r) ==
  /\ pc[r] = "callback"
  /\ ~WarmingUp(r)
  /\ IsDuplicate(r)
  /\ Happens(current[r], "duplicate")
  /\ pc' = [pc EXCEPT ![r] = "idle"]
  /\ UNCHANGED <<published, brokerVars, link, current, warmup, lastHash, dispatcher, submissions, faults>>

DuplicateSkip(r) ==
  /\ pc[r] = "callback"
  /\ ~WarmingUp(r)
  /\ IsDuplicate(r)
  /\ Happens(current[r], "duplicate")
  /\ pc' = [pc EXCEPT ![r] = "ack"]
  /\ UNCHANGED <<published, brokerVars, link, current, warmup, lastHash, dispatcher, submissions, faults>>

\* Mutant: the hash is remembered before the inference has succeeded.
DecodeRemembers(r) ==
  /\ pc[r] = "callback"
  /\ ~WarmingUp(r)
  /\ ~IsDuplicate(r)
  /\ lastHash' = [lastHash EXCEPT ![r][Camera[current[r]]] = Hash[current[r]]]
  /\ IF current[r] \in Corrupt
     THEN Happens(current[r], "undecodable") /\ pc' = [pc EXCEPT ![r] = "ack"]
     ELSE UNCHANGED events /\ pc' = [pc EXCEPT ![r] = "infer"]
  /\ UNCHANGED <<published, brokerVars, link, current, warmup, dispatcher, submissions, faults>>

Decode(r) ==
  /\ pc[r] = "callback"
  /\ ~WarmingUp(r)
  /\ ~IsDuplicate(r)
  /\ IF current[r] \in Corrupt
     THEN Happens(current[r], "undecodable") /\ pc' = [pc EXCEPT ![r] = "ack"]
     ELSE UNCHANGED events /\ pc' = [pc EXCEPT ![r] = "infer"]
  /\ UNCHANGED <<published, brokerVars, link, current, warmup, lastHash, dispatcher, submissions, faults>>

InferClear(r) ==
  /\ pc[r] = "infer"
  /\ current[r] \notin Persons
  /\ Happens(current[r], "clear")
  /\ pc' = [pc EXCEPT ![r] = "ack"]
  /\ UNCHANGED <<published, brokerVars, link, current, warmup, lastHash, dispatcher, submissions, faults>>

\* AlertDispatcher.submit: the oldest detection makes room.
\* Mutant: nothing is evicted.
AdmitUnbounded(q, f) == Append(q, f)

Admit(q, f) == IF Len(q) < BufferSize THEN Append(q, f) ELSE Append(Tail(q), f)
Evicted(q) == IF Len(q) < BufferSize THEN {} ELSE {Head(q)}

InferPerson(r) ==
  /\ pc[r] = "infer"
  /\ current[r] \in Persons
  /\ lastHash' = [lastHash EXCEPT ![r][Camera[current[r]]] = Hash[current[r]]]
  /\ buffer' = [buffer EXCEPT ![r] = Admit(@, current[r])]
  /\ events' = [f \in Frames |-> events[f] \cup IF f \in Evicted(buffer[r]) THEN {"evicted"} ELSE {}]
  /\ submissions' = [submissions EXCEPT ![current[r]] = @ + 1]
  /\ pc' = [pc EXCEPT ![r] = "ack"]
  /\ UNCHANGED <<published, brokerVars, link, current, warmup, held, faults>>

\* The model raises: the except clause acknowledges the frame, so it is gone.
InferRaises(r) ==
  /\ pc[r] = "infer"
  /\ Happens(current[r], "error")
  /\ pc' = [pc EXCEPT ![r] = "ack"]
  /\ UNCHANGED <<published, brokerVars, link, current, warmup, lastHash, dispatcher, submissions, faults>>

\* Mutant: an acknowledgement counts although the broker gave the frame back.
AckTooLate(r) ==
  /\ pc[r] = "ack"
  /\ acked' = acked \cup {current[r]}
  /\ current' = [current EXCEPT ![r] = 0]
  /\ pc' = [pc EXCEPT ![r] = "idle"]
  /\ UNCHANGED <<published, frameQueue, brokerLost, deliveries, link, warmup, lastHash, dispatcher, submissions, events, faults>>

\* basic_ack.  On a closed connection it raises, the except clause tries again
\* and logs the second exception: the callback returns either way.
Ack(r) ==
  /\ pc[r] = "ack"
  /\ acked' = IF link[r] = "up" THEN acked \cup {current[r]} ELSE acked
  /\ current' = [current EXCEPT ![r] = 0]
  /\ pc' = [pc EXCEPT ![r] = "idle"]
  /\ UNCHANGED <<published, frameQueue, brokerLost, deliveries, link, warmup, lastHash, dispatcher, submissions, events, faults>>

-----------------------------------------------------------------------------
(* The process of a replica *)

\* The process ends: everything it holds in memory is gone, with the queue of the
\* daemon thread and the detection in its hands.
InDispatcher(r) == Range(buffer[r]) \cup ({held[r]} \ {0})

Exit(r) ==
  /\ link' = [link EXCEPT ![r] = "down"]
  /\ pc' = [pc EXCEPT ![r] = "idle"]
  /\ current' = [current EXCEPT ![r] = 0]
  /\ warmup' = [warmup EXCEPT ![r] = FreshWarmup]
  /\ lastHash' = [lastHash EXCEPT ![r] = FreshHashes]
  /\ buffer' = [buffer EXCEPT ![r] = <<>>]
  /\ held' = [held EXCEPT ![r] = 0]
  /\ events' = [f \in Frames |-> events[f] \cup IF f \in InDispatcher(r) THEN {"lost"} ELSE {}]
  /\ UNCHANGED <<published, acked, brokerLost, deliveries, submissions>>

\* start_consuming raises, consume_frames returns and the main program ends.
ConsumerError(r) ==
  /\ link[r] = "closed"
  /\ pc[r] = "idle"
  /\ Exit(r)
  /\ UNCHANGED <<frameQueue, faults>>

\* The process is killed, by a crash or by a scale-down, at any point.
Crash(r) ==
  /\ link[r] # "down"
  /\ faults < MaxFaults
  /\ faults' = faults + 1
  /\ frameQueue' = Requeued(frameQueue, Unacked(r))
  /\ Exit(r)

\* restart: unless-stopped
Start(r) ==
  /\ link[r] = "down"
  /\ link' = [link EXCEPT ![r] = "up"]
  /\ UNCHANGED <<published, brokerVars, processVars, dispatcher, submissions, events, faults>>

\* The dispatcher's daemon thread takes its oldest detection out of the queue.
TakeOldest(r) ==
  /\ held[r] = 0
  /\ buffer[r] # <<>>
  /\ held' = [held EXCEPT ![r] = Head(buffer[r])]
  /\ buffer' = [buffer EXCEPT ![r] = Tail(@)]
  /\ UNCHANGED <<published, brokerVars, link, processVars, submissions, events, faults>>

\* It is done with it: the alert went out, or its write or its last attempt failed.
Settle(r) ==
  /\ held[r] # 0
  /\ \E outcome \in {"alerted", "unsent"} : Happens(held[r], outcome)
  /\ held' = [held EXCEPT ![r] = 0]
  /\ UNCHANGED <<published, brokerVars, link, processVars, buffer, submissions, faults>>

Dispatch(r) == TakeOldest(r) \/ Settle(r)

-----------------------------------------------------------------------------
Callback(r) == \/ WarmupSkip(r) \/ DuplicateSkip(r) \/ Decode(r)
               \/ InferClear(r) \/ InferPerson(r) \/ InferRaises(r) \/ Ack(r)

Consumer(r) == Deliver(r) \/ Callback(r) \/ ConsumerError(r) \/ Start(r)

\* Every frame is published and dealt with: the bound of the model.
Quiet == /\ published = MaxFrames
         /\ frameQueue = <<>>
         /\ \A r \in Replicas : pc[r] = "idle" /\ buffer[r] = <<>> /\ held[r] = 0
         /\ UNCHANGED vars

Next == \/ Publish \/ BrokerRestart \/ Quiet
        \/ \E r \in Replicas : \/ Consumer(r) \/ Dispatch(r)
                               \/ ConnectionLost(r) \/ Crash(r)

\* RabbitMQ delivers, callbacks return, containers are restarted, the daemon
\* threads run.  Nothing makes a frame arrive or a fault happen.
Fairness == \A r \in Replicas : WF_vars(Consumer(r)) /\ WF_vars(Dispatch(r))

Spec == Init /\ [][Next]_vars /\ Fairness

-----------------------------------------------------------------------------
(* Correctness *)

\* A published frame is ready, unacknowledged at exactly one connected replica,
\* acknowledged, or was lost with the broker.
FramesInOnePlace == \A f \in 1..published :
  LET holders == {r \in Replicas : f \in Unacked(r)}
      ready == {i \in DOMAIN frameQueue : frameQueue[i] = f}
  IN  Cardinality(holders) + Cardinality(ready)
        + (IF f \in acked THEN 1 ELSE 0) + (IF f \in brokerLost THEN 1 ELSE 0) = 1

\* A frame is announced more than once only if RabbitMQ delivered it again.
NoSpuriousAlert == \A f \in Frames : submissions[f] <= deliveries[f] /\ deliveries[f] <= 1 + faults

\* NoDataLoss is refuted below.  This is what is left of it: the detections that vanish
\* with a process are those in its dispatcher's queue and the one its thread has in
\* hand, and the lives of all replicas end once for a fault at most (a broker restart
\* ends them all).
Vanished == {f \in Frames : "lost" \in events[f]}
LossBounded == Cardinality(Vanished) <= (BufferSize + 1) * Cardinality(Replicas) * faults

\* Crashes, lost connections and late acknowledgements neither lose a frame nor
\* copy one, only a fault makes one come twice, and the detections that a fault takes
\* with it are no more than the dispatchers hold.
FrameConservation == FramesInOnePlace /\ NoSpuriousAlert /\ LossBounded

\* The duplicate filter drops a frame only when the detection it repeats was
\* submitted: an image of the same camera with the same hash.
DuplicatesWereSubmitted == \A f \in Frames : "duplicate" \in events[f] =>
  \E g \in Frames : Camera[g] = Camera[f] /\ Hash[g] = Hash[f] /\ submissions[g] > 0

\* The frames of a camera that warm-up swallows are bounded by the limit times
\* the number of process lives: one per replica, and all again per fault.
WarmupCost == \A c \in Cameras :
  Cardinality({f \in Frames : Camera[f] = c /\ "warmup" \in events[f]})
    <= WarmupLimit * Cardinality(Replicas) * (1 + faults)

\* An acknowledged frame that shows a person and got through the warm-up was
\* submitted, or repeats one that was, unless the model raised.
PersonsAreSubmitted == \A f \in acked \cap Persons :
  submissions[f] > 0 \/ events[f] \cap {"warmup", "duplicate", "error"} # {}

\* Whatever replica a frame reaches, and in whatever order, the filters of callback
\* drop it only for a reason: the warm-up within its limits, a repetition of what
\* was submitted, an image that shows nobody, or the model's exception.
SkipsJustified == DuplicatesWereSubmitted /\ PersonsAreSubmitted /\ WarmupCost

\* Every frame that reaches RabbitMQ is in the end acknowledged or lost with it.
FramesSettle == \A f \in Frames : (published >= f) ~> (f \in acked \cup brokerLost)

\* ARCHITECTURE: "Detectors can be scaled horizontally without data loss": an
\* acknowledged frame that was submitted does not vanish with its replica.
NoDataLoss == \A f \in acked : "lost" \notin events[f]

=============================================================================
