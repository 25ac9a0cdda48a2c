---------------------------- MODULE AlertService ----------------------------
(***************************************************************************)
(* alert_service.py: one consumer of alert_queue that turns alerts into     *)
(* push notifications (per camera) and phone calls (for all cameras), each  *)
(* with a cooldown, sent by threads of their own.  Alerts are numbered in   *)
(* the order they reach the queue.  On some bodies the callback raises, and *)
(* the process ends with it: a JSON value that is not an object (`.get`), a *)
(* camera that is a list or an object (last_ntfy_times.get), an infinite    *)
(* human_count (`int`) are none of the exceptions it catches.  The wall     *)
(* clock is a counter; a life is one run of the process between two         *)
(* restarts, and the history variables, like the counters, are of one life. *)
(***************************************************************************)
EXTENDS Integers, Sequences, FiniteSets, Functions

CONSTANTS
  MaxAlerts,       \* how many alerts are published (a bound)
  Cameras,         \* "unknown" for an alert that is malformed or has none
  Camera,          \* the camera of each alert
  Unsendable,      \* alerts whose photo cannot be posted: the file name has no
                   \* camera folder, or the timestamp is not a string
  NtfyCooldown,    \* NTFY_COOLDOWN
  AlertCooldown,   \* ALERT_COOLDOWN
  EnableCalls,     \* ENABLE_CALL_ALERTS
  Recipients,      \* how many phone numbers are configured
  Prefetch,        \* basic_qos: 20 in the code
  MaxTime,         \* bound on the clock
  MaxFaults        \* bound on crashes and connection losses

Alerts == 1..MaxAlerts

ASSUME ServiceAssumption ==
  /\ MaxAlerts \in Nat
  /\ Camera \in [Alerts -> Cameras]
  /\ Unsendable \subseteq Alerts
  /\ NtfyCooldown \in Nat
  /\ AlertCooldown \in Nat
  /\ EnableCalls \in BOOLEAN
  /\ Recipients \in Nat
  /\ Prefetch \in Nat \ {0}
  /\ MaxTime \in Nat
  /\ MaxFaults \in Nat

VARIABLES
  published,     \* how many alerts have reached alert_queue
  alertQueue,    \* the ready messages
  prefetched,    \* delivered and not acknowledged, oldest first
  acked,         \* alerts removed on an acknowledgement
  raising,       \* the alerts with a body on which the callback raises
  brokerLost,    \* alerts that were in RabbitMQ when it restarted
  now,           \* time.time()
  link,          \* "down", "up", or "closed": the connection is gone, unnoticed
  evaluated,     \* the callback has done its work and has yet to acknowledge
  lastNtfy,      \* last_ntfy_times
  lastCall,      \* last_call_time
  photoThreads,  \* alerts whose send_ntfy_photo thread runs
  callThreads,   \* alerts whose _dispatch_calls thread runs, with the calls left
  total,         \* alert_service_alerts_total, by camera
  suppressed,    \* alert_service_alerts_suppressed_total, by camera
  sent,          \* alert_service_notifications_sent_total
  errors,        \* alert_service_notification_errors_total
  photos,        \* photo dispatches of this life: alert and time of each
  calls,         \* call dispatches of this life
  skips,         \* photos suppressed by the cooldown in this life
  handled,       \* alerts for which a callback, of any life, has done its work
  faults         \* crashes and connection losses so far

brokerVars == <<published, alertQueue, acked, raising, brokerLost>>
cooldownVars == <<lastNtfy, lastCall>>
counters == <<total, suppressed, sent, errors>>
history == <<photos, calls, skips, handled>>
vars == <<brokerVars, prefetched, now, link, evaluated, cooldownVars, photoThreads, callThreads,
          counters, history, faults>>

\* Long after 1970: with the initial 0 no cooldown is running.
Epoch == NtfyCooldown + AlertCooldown + 1
Times == Epoch..(Epoch + MaxTime)
Dispatches == [alert : Alerts, time : Times]

TypeOK ==
  /\ published \in 0..MaxAlerts
  /\ alertQueue \in Seq(Alerts)
  /\ prefetched \in Seq(Alerts)
  /\ Len(prefetched) <= Prefetch
  /\ acked \subseteq Alerts
  /\ raising \subseteq Alerts /\ brokerLost \subseteq Alerts
  /\ now \in Times
  /\ link \in {"down", "up", "closed"}
  /\ evaluated \in BOOLEAN
  /\ lastNtfy \in [Cameras -> {0} \cup Times]
  /\ lastCall \in {0} \cup Times
  /\ photoThreads \subseteq Alerts
  /\ callThreads \in SUBSET [alert : Alerts, left : 0..Recipients]
  /\ total \in [Cameras -> Nat]
  /\ suppressed \in [Cameras -> Nat]
  /\ sent \in Nat
  /\ errors \in Nat
  /\ photos \subseteq Dispatches
  /\ calls \subseteq Dispatches
  /\ skips \subseteq Dispatches
  /\ handled \subseteq Alerts
  /\ faults \in 0..MaxFaults

NoCount == [c \in Cameras |-> 0]

Init ==
  /\ published = 0
  /\ alertQueue = <<>>
  /\ prefetched = <<>>
  /\ acked = {}
  /\ raising \in SUBSET Alerts
  /\ brokerLost = {}
  /\ now = Epoch
  /\ link = "down"
  /\ evaluated = FALSE
  /\ lastNtfy = NoCount
  /\ lastCall = 0
  /\ photoThreads = {}
  /\ callThreads = {}
  /\ total = NoCount
  /\ suppressed = NoCount
  /\ sent = 0
  /\ errors = 0
  /\ photos = {}
  /\ calls = {}
  /\ skips = {}
  /\ handled = {}
  /\ faults = 0

-----------------------------------------------------------------------------
(* RabbitMQ and the clock *)

Publish ==
  /\ published < MaxAlerts
  /\ published' = published + 1
  /\ alertQueue' = Append(alertQueue, published + 1)
  /\ UNCHANGED <<prefetched, acked, raising, brokerLost, now, link, evaluated, cooldownVars,
                 photoThreads, callThreads, counters, history, faults>>

Tick ==
  /\ now < Epoch + MaxTime
  /\ now' = now + 1
  /\ UNCHANGED <<brokerVars, prefetched, link, evaluated, cooldownVars, photoThreads, callThreads,
                 counters, history, faults>>

\* Mutant: no basic_qos.
DeliverUnlimited ==
  /\ link = "up"
  /\ alertQueue # <<>>
  /\ prefetched' = Append(prefetched, Head(alertQueue))
  /\ alertQueue' = Tail(alertQueue)
  /\ UNCHANGED <<published, acked, raising, brokerLost, now, link, evaluated, cooldownVars, photoThreads,
                 callThreads, counters, history, faults>>

\* Up to Prefetch alerts wait in the consumer for their callback.
Deliver ==
  /\ link = "up"
  /\ alertQueue # <<>>
  /\ Len(prefetched) < Prefetch
  /\ prefetched' = Append(prefetched, Head(alertQueue))
  /\ alertQueue' = Tail(alertQueue)
  /\ UNCHANGED <<published, acked, raising, brokerLost, now, link, evaluated, cooldownVars, photoThreads,
                 callThreads, counters, history, faults>>

\* The broker drops the consumer: what is unacknowledged goes back in front.
ConnectionLost ==
  /\ link = "up"
  /\ faults < MaxFaults
  /\ faults' = faults + 1
  /\ link' = "closed"
  /\ alertQueue' = prefetched \o alertQueue
  /\ UNCHANGED <<published, acked, raising, brokerLost, prefetched, now, evaluated, cooldownVars,
                 photoThreads, callThreads, counters, history>>

\* A restart of the broker empties its tmpfs, and alerts are not persistent.
BrokerRestart ==
  /\ faults < MaxFaults
  /\ faults' = faults + 1
  /\ brokerLost' = brokerLost \cup Range(alertQueue) \cup (IF link = "up" THEN Range(prefetched) ELSE {})
  /\ alertQueue' = <<>>
  /\ link' = IF link = "up" THEN "closed" ELSE link
  /\ UNCHANGED <<published, acked, raising, prefetched, now, evaluated, cooldownVars,
                 photoThreads, callThreads, counters, history>>

-----------------------------------------------------------------------------
(* callback *)

Current == Head(prefetched)
Dispatch(a) == [alert |-> a, time |-> now]

\* Mutant: all cameras share one cooldown.
NtfyDueGlobally(c) == \A d \in Cameras : now - lastNtfy[d] > NtfyCooldown

NtfyDue(c) == now - lastNtfy[c] > NtfyCooldown

\* The cooldown starts when the thread does, whatever becomes of the photo.
DispatchPhoto ==
  /\ lastNtfy' = [lastNtfy EXCEPT ![Camera[Current]] = now]
  /\ photoThreads' = photoThreads \cup {Current}
  /\ photos' = photos \cup {Dispatch(Current)}
  /\ UNCHANGED skips

SkipPhoto ==
  /\ skips' = skips \cup {Dispatch(Current)}
  /\ UNCHANGED <<lastNtfy, photoThreads, photos>>

CallDue == EnableCalls /\ now - lastCall > AlertCooldown

DispatchCall ==
  /\ lastCall' = now
  /\ callThreads' = callThreads \cup {[alert |-> Current, left |-> Recipients]}
  /\ calls' = calls \cup {Dispatch(Current)}

SkipCall == UNCHANGED <<lastCall, callThreads, calls>>

\* Each channel that is in its cooldown counts a suppression.
Suppressions(c) == (IF NtfyDue(c) THEN 0 ELSE 1) + (IF EnableCalls /\ ~CallDue THEN 1 ELSE 0)

Callback ==
  /\ link # "down"
  /\ prefetched # <<>>
  /\ ~evaluated
  /\ Current \notin raising
  /\ LET c == Camera[Current] IN
       /\ total' = [total EXCEPT ![c] = @ + 1]
       /\ suppressed' = [suppressed EXCEPT ![c] = @ + Suppressions(c)]
       /\ IF NtfyDue(c) THEN DispatchPhoto ELSE SkipPhoto
       /\ IF CallDue THEN DispatchCall ELSE SkipCall
  /\ evaluated' = TRUE
  /\ handled' = handled \cup {Current}
  /\ UNCHANGED <<brokerVars, prefetched, now, link, sent, errors, faults>>

\* Mutant: on a broken connection the callback goes on to the next alert.
AckAnyway ==
  /\ evaluated
  /\ acked' = acked \cup {Current}
  /\ prefetched' = Tail(prefetched)
  /\ evaluated' = FALSE
  /\ UNCHANGED <<published, alertQueue, raising, brokerLost, now, link, cooldownVars,
                 photoThreads, callThreads, counters, history, faults>>

\* Mutant: the callback of a malformed alert returns before the acknowledgement.
AckUnlessMalformed ==
  /\ evaluated
  /\ link = "up"
  /\ acked' = IF Current \in Unsendable THEN acked ELSE acked \cup {Current}
  /\ prefetched' = Tail(prefetched)
  /\ evaluated' = FALSE
  /\ UNCHANGED <<published, alertQueue, raising, brokerLost, now, link, cooldownVars,
                 photoThreads, callThreads, counters, history, faults>>

Ack ==
  /\ evaluated
  /\ link = "up"
  /\ acked' = acked \cup {Current}
  /\ prefetched' = Tail(prefetched)
  /\ evaluated' = FALSE
  /\ UNCHANGED <<published, alertQueue, raising, brokerLost, now, link, cooldownVars,
                 photoThreads, callThreads, counters, history, faults>>

-----------------------------------------------------------------------------
(* The sending threads *)

\* send_ntfy_photo posts, and the post succeeds.
PhotoSent(a) ==
  /\ a \in photoThreads
  /\ a \notin Unsendable
  /\ photoThreads' = photoThreads \ {a}
  /\ sent' = sent + 1
  /\ UNCHANGED <<brokerVars, prefetched, now, link, evaluated, cooldownVars, callThreads, total,
                 suppressed, errors, history, faults>>

\* Mutant: the exception escapes, and the failure is not counted.
PhotoFailsSilently(a) ==
  /\ a \in photoThreads
  /\ a \notin Unsendable
  /\ photoThreads' = photoThreads \ {a}
  /\ UNCHANGED <<brokerVars, prefetched, now, link, evaluated, cooldownVars, callThreads,
                 counters, history, faults>>

\* The post raises or answers an error: it is counted, and not tried again.
PhotoFails(a) ==
  /\ a \in photoThreads
  /\ a \notin Unsendable
  /\ photoThreads' = photoThreads \ {a}
  /\ errors' = errors + 1
  /\ UNCHANGED <<brokerVars, prefetched, now, link, evaluated, cooldownVars, callThreads, total,
                 suppressed, sent, history, faults>>

\* send_ntfy_photo returns, or its thread dies, before it posts: nothing is counted.
PhotoDropped(a) ==
  /\ a \in photoThreads
  /\ a \in Unsendable
  /\ photoThreads' = photoThreads \ {a}
  /\ UNCHANGED <<brokerVars, prefetched, now, link, evaluated, cooldownVars, callThreads,
                 counters, history, faults>>

\* _dispatch_calls: one call after the other, a failure does not stop the rest.
PlaceCall(t) ==
  /\ t \in callThreads
  /\ t.left > 0
  /\ callThreads' = (callThreads \ {t}) \cup {[t EXCEPT !.left = @ - 1]}
  /\ \/ sent' = sent + 1 /\ UNCHANGED errors
     \/ errors' = errors + 1 /\ UNCHANGED sent
  /\ UNCHANGED <<brokerVars, prefetched, now, link, evaluated, cooldownVars, photoThreads, total,
                 suppressed, history, faults>>

CallsDone(t) ==
  /\ t \in callThreads
  /\ t.left = 0
  /\ callThreads' = callThreads \ {t}
  /\ UNCHANGED <<brokerVars, prefetched, now, link, evaluated, cooldownVars, photoThreads, counters,
                 history, faults>>

-----------------------------------------------------------------------------
(* The process *)

\* Cooldowns, counters and the daemon threads with what they were sending are
\* gone; the next life starts with none.  What the broker has not seen acknowledged
\* goes back in front, unless it did so when the connection closed.
Exit ==
  /\ alertQueue' = IF link = "up" THEN prefetched \o alertQueue ELSE alertQueue
  /\ link' = "down"
  /\ prefetched' = <<>>
  /\ evaluated' = FALSE
  /\ lastNtfy' = NoCount
  /\ lastCall' = 0
  /\ photoThreads' = {}
  /\ callThreads' = {}
  /\ total' = NoCount
  /\ suppressed' = NoCount
  /\ sent' = 0
  /\ errors' = 0
  /\ photos' = {} /\ calls' = {} /\ skips' = {}
  /\ UNCHANGED <<published, acked, raising, brokerLost, now, handled>>

\* start_consuming or basic_ack raises: nothing catches it.  Callbacks for what
\* was already delivered may still run before.
ConsumerError ==
  /\ link = "closed"
  /\ Exit
  /\ UNCHANGED faults

\* The callback raises, which nothing catches either.
CallbackRaises ==
  /\ link # "down"
  /\ prefetched # <<>>
  /\ ~evaluated
  /\ Current \in raising
  /\ Exit
  /\ UNCHANGED faults

Crash ==
  /\ link # "down"
  /\ faults < MaxFaults
  /\ faults' = faults + 1
  /\ Exit

Start ==
  /\ link = "down"
  /\ link' = "up"
  /\ UNCHANGED <<brokerVars, prefetched, now, evaluated, cooldownVars, photoThreads, callThreads,
                 counters, history, faults>>

-----------------------------------------------------------------------------
Consumer == Deliver \/ Callback \/ CallbackRaises \/ Ack \/ ConsumerError \/ Start

Photo(a) == PhotoSent(a) \/ PhotoFails(a) \/ PhotoDropped(a)
Call(t) == PlaceCall(t) \/ CallsDone(t)

\* Every alert is published and dealt with, and the clock is at its bound.
Quiet == /\ published = MaxAlerts
         /\ now = Epoch + MaxTime
         /\ alertQueue = <<>> /\ prefetched = <<>>
         /\ photoThreads = {} /\ callThreads = {}
         /\ UNCHANGED vars

Next == \/ Publish \/ Tick \/ ConnectionLost \/ BrokerRestart \/ Crash \/ Quiet
        \/ Consumer
        \/ \E a \in Alerts : Photo(a)
        \/ \E t \in callThreads : Call(t)

\* The consumer loop runs, containers are restarted, requests time out (15 s for
\* a photo), so every thread ends.
Fairness == /\ WF_vars(Consumer)
            /\ \A a \in Alerts : WF_vars(Photo(a))
            /\ \A a \in Alerts, n \in 0..Recipients : WF_vars(Call([alert |-> a, left |-> n]))

Spec == Init /\ [][Next]_vars /\ Fairness

-----------------------------------------------------------------------------
(* Correctness *)

\* In one life of the service the photos of a camera are more than the cooldown
\* apart, whatever alerts of other cameras, failures and acknowledgements come
\* between.
PhotoSpacing == \A p, q \in photos :
  p # q /\ Camera[p.alert] = Camera[q.alert]
    => p.time - q.time > NtfyCooldown \/ q.time - p.time > NtfyCooldown

\* A photo is suppressed only when the same camera had one dispatched within the
\* cooldown, by the same process: no camera silences another.
SuppressionJustified == \A s \in skips : \E p \in photos :
  /\ Camera[p.alert] = Camera[s.alert]
  /\ s.time - p.time \in 0..NtfyCooldown

\* The calls of one life are more than their cooldown apart, for all cameras together.
CallSpacing == \A p, q \in calls :
  p # q => p.time - q.time > AlertCooldown \/ q.time - p.time > AlertCooldown

\* Every alert of this life has a call of its own, or one shortly before it.
CallsJustified == \A p \in photos \cup skips :
  EnableCalls => \E q \in calls : p.time - q.time \in 0..AlertCooldown

\* The cooldowns hold per process, of photos per camera and of calls for all of them,
\* in both directions: nothing within them, and no silence without them, whatever
\* alerts of other cameras, failed photos, redeliveries and restarts come between.
CooldownsHold == PhotoSpacing /\ SuppressionJustified /\ CallSpacing /\ CallsJustified

\* An acknowledged alert was evaluated; an alert that was not stays in RabbitMQ
\* until it is, or is lost with it.
AckedWereEvaluated == acked \subseteq handled

\* An alert on which the callback raises is never acknowledged, and neither is one
\* behind it for as long as RabbitMQ has it: the service restarts on it for ever.
RaisingBlocks == \A b \in raising, a \in acked : b <= a => b # a /\ b \in brokerLost

\* A published alert is ready, delivered over a live connection, acknowledged or
\* lost with the broker, and only one of these.
AlertsInOnePlace == \A a \in 1..published :
  LET places == {<<"ready", i>> : i \in {i \in DOMAIN alertQueue : alertQueue[i] = a}}
                \cup {<<"unacked", i>> : i \in {i \in DOMAIN prefetched : link = "up" /\ prefetched[i] = a}}
                \cup (IF a \in acked THEN {<<"acked", 0>>} ELSE {})
                \cup (IF a \in brokerLost THEN {<<"lost", 0>>} ELSE {})
  IN  Cardinality(places) = 1

\* Crashes, lost connections, late acknowledgements and callbacks that raise neither
\* lose nor copy an alert, none leaves the queue without having been evaluated, and
\* none gets past one on which the callback raises.
AlertConservation == AlertsInOnePlace /\ AckedWereEvaluated /\ RaisingBlocks

Dispatched(D, c) == Cardinality({d \in D : Camera[d.alert] = c})

\* Per alert, each enabled channel either dispatches or counts a suppression.
AlertsAccounted == \A c \in Cameras :
  suppressed[c] + Dispatched(photos, c) + Dispatched(calls, c)
    = total[c] * (IF EnableCalls THEN 2 ELSE 1)

\* What this life dispatched is sent, failed or still with its thread, photos and
\* calls alike: a failure neither stops the calls after it nor goes uncounted.
\* Only a photo that cannot be posted is dropped.
NotificationsAccounted ==
  LET named == {p \in photos : p.alert \notin Unsendable}
      inFlight == {a \in photoThreads : a \notin Unsendable}
      callsLeft == UNION {{t.alert} \X (1..t.left) : t \in callThreads}
  IN  sent + errors + Cardinality(inFlight) + Cardinality(callsLeft)
        = Cardinality(named) + Recipients * Cardinality(calls)

\* The counters agree with what the callback and the threads of this life did.
CountersAddUp == link # "down" => AlertsAccounted /\ NotificationsAccounted

\* Every alert that reaches the queue is acknowledged, or lost with the broker, unless
\* the callback raises on it or on one in front of it that RabbitMQ still has.
AlertsSettle == \A a \in Alerts :
  (published >= a) ~> \/ a \in acked \cup brokerLost
                      \/ \E b \in raising \ brokerLost : b <= a

\* README, ALERT_COOLDOWN: "between repeated alerts per camera": a call is only
\* held back by an earlier call for the same camera.
CallCooldownPerCamera == \A p \in photos \cup skips :
  EnableCalls => \E q \in calls : /\ Camera[q.alert] = Camera[p.alert]
                                  /\ p.time - q.time \in 0..AlertCooldown

=============================================================================
