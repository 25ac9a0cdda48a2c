---------------------------- MODULE AlertWebhook ----------------------------
(***************************************************************************)
(* alert_service.py, webhook: Alertmanager posts the alerts of a group in    *)
(* one request, and a Flask thread forwards them to ntfy one after the       *)
(* other.  The first that fails ends the thread with a 500, and Alertmanager *)
(* posts the whole group again.  It also does so when an answer is lost or   *)
(* late, while the thread of the earlier request may go on.  The group is    *)
(* posted as firing, again every repeat_interval for as long as it fires     *)
(* (alertmanager.yml), and later as resolved.  Alertmanager, of which one    *)
(* group is modelled, and ntfy are the environment.                          *)
(***************************************************************************)
EXTENDS Integers, FiniteSets

CONSTANTS Alerts,      \* how many alerts the group has
          Threads,     \* Flask's request threads
          MaxFaults,   \* bound on failing posts, lost answers and crashes
          MaxRepeats   \* bound on how often the firing group is repeated

ASSUME WebhookAssumption ==
  Alerts \in Nat \ {0} /\ MaxFaults \in Nat /\ MaxRepeats \in Nat /\ IsFiniteSet(Threads)

VARIABLES
  kind,       \* what Alertmanager is configured to post
  version,    \* of the group's alerts: 1 firing, 2 resolved
  manager,    \* Alertmanager: "post", "wait", "notified", or "gaveUp"
  repeats,    \* how often Alertmanager has repeated the firing group
  awaited,    \* the threads whose answer it waits for: one, or none
  thread,     \* the next alert of each thread, 0 when there is no request
  posted,     \* the version in each thread's request
  pushes,     \* how often ntfy has taken each alert, by version
  lastWord,   \* the version of each alert that ntfy took last
  counted,    \* alert_service_notifications_sent_total
  taken,      \* how many pushes this process has made
  abandoned,  \* a thread was left running without anyone waiting for it
  faults

managerVars == <<version, manager, awaited>>
threadVars == <<thread, posted>>
pushVars == <<pushes, lastWord, taken>>
vars == <<kind, repeats, managerVars, threadVars, pushVars, counted, abandoned, faults>>

Batch == 1..Alerts
Versions == 1..2

\* The JSON is a group of alerts, {} or null, or the body is not JSON; and the
\* topic may not be in TOPIC_MAP.
Kinds == {"valid", "badTopic", "noData", "notJson"}

TypeOK ==
  /\ kind \in Kinds
  /\ version \in Versions
  /\ manager \in {"post", "wait", "notified", "gaveUp"}
  /\ repeats \in 0..MaxRepeats
  /\ awaited \subseteq Threads
  /\ manager = "wait" <=> awaited # {}
  /\ thread \in [Threads -> 0..(Alerts + 1)]
  /\ posted \in [Threads -> Versions]
  /\ pushes \in [Versions -> [Batch -> Nat]]
  /\ lastWord \in [Batch -> {0} \cup Versions]
  /\ counted \in Nat /\ taken \in Nat
  /\ abandoned \in BOOLEAN
  /\ faults \in 0..MaxFaults

Init ==
  /\ kind \in Kinds
  /\ version = 1 /\ manager = "post" /\ repeats = 0 /\ awaited = {}
  /\ thread = [t \in Threads |-> 0]
  /\ posted = [t \in Threads |-> 1]
  /\ pushes = [v \in Versions |-> [a \in Batch |-> 0]]
  /\ lastWord = [a \in Batch |-> 0]
  /\ counted = 0 /\ taken = 0
  /\ abandoned = FALSE
  /\ faults = 0

Fault == faults < MaxFaults /\ faults' = faults + 1

-----------------------------------------------------------------------------
(* webhook, in a thread of its own *)

\* What Alertmanager makes of an answer: 5xx is tried again, 4xx is not, and the
\* next flush follows when the group has changed since.
Answered(status, v) ==
  /\ awaited' = {}
  /\ manager' = CASE status = 500 -> "post"
                  [] status \in {400, 403} -> "gaveUp"
                  [] status = 200 -> IF v = version THEN "notified" ELSE "post"
  /\ UNCHANGED version

\* Mutant: the request is answered before its alerts are forwarded.
AcceptAnswersFirst(t) ==
  /\ kind = "valid"
  /\ manager = "post"
  /\ thread[t] = 0
  /\ Answered(200, version)
  /\ thread' = [thread EXCEPT ![t] = 1]
  /\ posted' = [posted EXCEPT ![t] = version]
  /\ UNCHANGED <<kind, repeats, pushVars, counted, abandoned, faults>>

Accept(t) ==
  /\ kind = "valid"
  /\ manager = "post"
  /\ thread[t] = 0
  /\ manager' = "wait" /\ awaited' = {t}
  /\ thread' = [thread EXCEPT ![t] = 1]
  /\ posted' = [posted EXCEPT ![t] = version]
  /\ UNCHANGED <<kind, repeats, version, pushVars, counted, abandoned, faults>>

\* The early returns.  A body that is not JSON makes request.json raise within the
\* try: the answer is a 500.
Refuse ==
  /\ kind # "valid"
  /\ manager = "post"
  /\ Answered(CASE kind = "badTopic" -> 403 [] kind = "noData" -> 400 [] kind = "notJson" -> 500, version)
  /\ UNCHANGED <<kind, repeats, threadVars, pushVars, counted, abandoned, faults>>

\* ntfy takes the alert that thread t is at.
Push(t) ==
  LET v == posted[t]
      a == thread[t]
  IN  /\ pushes' = [pushes EXCEPT ![v][a] = @ + 1]
      /\ lastWord' = [lastWord EXCEPT ![a] = v]
      /\ taken' = taken + 1

\* Mutant: the thread moves on by two alerts.
ForwardSkipsOne(t) ==
  /\ thread[t] \in Batch
  /\ Push(t)
  /\ counted' = counted + 1
  /\ thread' = [thread EXCEPT ![t] = @ + 2]
  /\ UNCHANGED <<kind, repeats, managerVars, posted, abandoned, faults>>

Forward(t) ==
  /\ thread[t] \in Batch
  /\ Push(t)
  /\ counted' = counted + 1
  /\ thread' = [thread EXCEPT ![t] = @ + 1]
  /\ UNCHANGED <<kind, repeats, managerVars, posted, abandoned, faults>>

\* The thread ends, and whoever waits for it has its answer.
Ends(t, status) ==
  /\ thread' = [thread EXCEPT ![t] = 0]
  /\ posted' = [posted EXCEPT ![t] = 1]
  /\ IF t \in awaited THEN Answered(status, posted[t]) ELSE UNCHANGED managerVars

\* Mutant: the status of ntfy is not looked at.
ForwardIgnoresStatus(t) ==
  /\ thread[t] \in Batch
  /\ Fault
  /\ thread' = [thread EXCEPT ![t] = @ + 1]
  /\ UNCHANGED <<kind, repeats, managerVars, posted, pushVars, counted, abandoned>>

\* Mutant: a failure is answered with a 400.
ForwardFailsForGood(t) ==
  /\ thread[t] \in Batch
  /\ Fault
  /\ Ends(t, 400)
  /\ UNCHANGED <<kind, repeats, pushVars, counted, abandoned>>

\* post raises or answers an error, sometimes after ntfy has taken the alert.
ForwardFails(t) ==
  /\ thread[t] \in Batch
  /\ Fault
  /\ Push(t) \/ UNCHANGED pushVars
  /\ Ends(t, 500)
  /\ UNCHANGED <<kind, repeats, counted, abandoned>>

Done(t) ==
  /\ thread[t] = Alerts + 1
  /\ Ends(t, 200)
  /\ UNCHANGED <<kind, repeats, pushVars, counted, abandoned, faults>>

-----------------------------------------------------------------------------
(* Alertmanager and the process *)

\* The group is resolved, and flushed again once its last post is over, one that
\* was given up included.
Resolve ==
  /\ version = 1
  /\ version' = 2
  /\ manager' = IF manager = "wait" THEN "wait" ELSE "post"
  /\ UNCHANGED <<kind, repeats, awaited, threadVars, pushVars, counted, abandoned, faults>>

\* alertmanager.yml: a group that goes on firing is posted again repeat_interval
\* after it was notified, and one that was refused at the next flush.
Repeat ==
  /\ version = 1
  /\ manager \in {"notified", "gaveUp"}
  /\ repeats < MaxRepeats
  /\ repeats' = repeats + 1
  /\ manager' = "post"
  /\ UNCHANGED <<kind, version, awaited, threadVars, pushVars, counted, abandoned, faults>>

\* The request times out, or its connection breaks.
GiveUpWaiting ==
  /\ manager = "wait"
  /\ Fault
  /\ manager' = "post" /\ awaited' = {}
  /\ abandoned' = TRUE
  /\ UNCHANGED <<kind, repeats, version, threadVars, pushVars, counted>>

\* The process ends, by itself when its consumer of alert_queue fails.
Crash ==
  /\ Fault
  /\ thread' = [t \in Threads |-> 0]
  /\ posted' = [t \in Threads |-> 1]
  /\ counted' = 0 /\ taken' = 0
  /\ manager' = IF manager = "wait" THEN "post" ELSE manager
  /\ awaited' = {}
  /\ UNCHANGED <<kind, repeats, version, pushes, lastWord, abandoned>>

-----------------------------------------------------------------------------
Thread(t) == Forward(t) \/ ForwardFails(t) \/ Done(t)
Manager == Refuse \/ \E t \in Threads : Accept(t)

Quiet == /\ manager \in {"notified", "gaveUp"}
         /\ version = 2
         /\ \A t \in Threads : thread[t] = 0
         /\ UNCHANGED vars

Next == Manager \/ Resolve \/ Repeat \/ GiveUpWaiting \/ Crash \/ Quiet \/ \E t \in Threads : Thread(t)

\* Alertmanager tries again, and a post to ntfy times out after 10 s.
Fairness == WF_vars(Manager) /\ \A t \in Threads : WF_vars(Thread(t))

Spec == Init /\ [][Next]_vars /\ Fairness

-----------------------------------------------------------------------------
(* Correctness *)

\* What the firing group is sent for besides: Alertmanager repeats it.
Repeated(v) == IF v = 1 THEN repeats ELSE 0

\* An alert is never forwarded more often than one before it in the batch, each once
\* as firing and once as resolved, and again only for a fault or a repetition by
\* Alertmanager, each of which costs one more; none is skipped by a request that is
\* answered with 200; and the counter has no more than ntfy took from this process,
\* and less only when an answer of ntfy was lost.
DeliveriesAccounted ==
  /\ \A v \in Versions, a, b \in Batch : a < b => pushes[v][a] >= pushes[v][b]
  /\ \A v \in Versions : pushes[v][1] <= 1 + faults + Repeated(v)
  /\ manager = "notified" => \A a \in Batch : pushes[version][a] > 0
  /\ kind # "valid" => taken = 0
  /\ counted <= taken /\ taken <= counted + faults

\* Nobody is told that an alert fires after it was reported as resolved, unless
\* Alertmanager has left a thread running behind its back.
ResolvedIsLastWord ==
  ~abandoned => \A a \in Batch : pushes[2][a] > 0 => lastWord[a] = 2

\* Every alert of a valid group reaches ntfy, resolved in the end if it is, whatever
\* failed in between; what can never be accepted is given up.
AlertsGetThrough ==
  /\ kind = "valid" => (version = 2) ~> (\A a \in Batch : pushes[2][a] > 0)
  /\ kind = "valid" => <>(manager = "notified")
  /\ kind \in {"badTopic", "noData"} => <>(manager = "gaveUp")

=============================================================================
