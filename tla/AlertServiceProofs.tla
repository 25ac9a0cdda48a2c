------------------------- MODULE AlertServiceProofs -------------------------
(***************************************************************************)
(* Safety of AlertService for every number of alerts, cameras, recipients   *)
(* and faults, whichever alerts the callback raises on, and for cooldowns   *)
(* and a prefetch of any size: where an alert is, what the cooldowns hold   *)
(* back, and that each alert is counted.  An alert on which the callback    *)
(* raises blocks those behind it because the queue and the consumer keep    *)
(* the order of publication (OrderInv), through every requeue.              *)
(***************************************************************************)
EXTENDS AlertService, SequenceTheorems, FiniteSetTheorems, TLAPS

Ready == Range(alertQueue)
Unacked == IF link = "up" THEN Range(prefetched) ELSE {}

\* The published alerts are divided between the queue, the consumer, the acknowledged
\* and the lost ones, and neither sequence repeats one.
PlaceInv ==
  /\ IsInjective(alertQueue) /\ IsInjective(prefetched)
  /\ \A a \in Alerts : a <= published <=> a \in Ready \/ a \in Unacked \/ a \in acked \/ a \in brokerLost
  /\ Ready \cap Unacked = {} /\ Ready \cap acked = {} /\ Ready \cap brokerLost = {}
  /\ Unacked \cap acked = {} /\ Unacked \cap brokerLost = {} /\ acked \cap brokerLost = {}

Increasing(s) == \A i, j \in 1..Len(s) : i < j => s[i] < s[j]

\* The consumer and the queue behind it have the alerts in the order of publication.
OrderInv ==
  /\ Increasing(alertQueue) /\ Increasing(prefetched)
  /\ link = "up" => \A a \in Range(prefetched), b \in Ready : a < b

\* The alert at the head is marked as evaluated only after the callback was through
\* with it; a service that is down holds nothing.
HeadInv ==
  /\ evaluated => prefetched # <<>> /\ Current \in handled /\ Current \notin raising
  /\ link = "down" => prefetched = <<>> /\ ~evaluated

\* Nothing of this life happened in the future, or while the service is down.
LifeInv ==
  /\ \A d \in photos \cup calls \cup skips : d.time <= now
  /\ link = "down" => photos = {} /\ calls = {} /\ skips = {}

\* The cooldowns remember the last photo of each camera, and the last call.
CooldownInv ==
  /\ \A c \in Cameras : lastNtfy[c] # 0 =>
       \E p \in photos : Camera[p.alert] = c /\ p.time = lastNtfy[c]
  /\ lastCall # 0 => \E q \in calls : q.time = lastCall
  /\ \A p \in photos : p.time <= lastNtfy[Camera[p.alert]]
  /\ \A q \in calls : q.time <= lastCall
  /\ link = "down" => total = NoCount /\ suppressed = NoCount

\* The accounts, of sets that are finite.
CountInv ==
  /\ IsFiniteSet(photos) /\ IsFiniteSet(calls)
  /\ link # "down" => AlertsAccounted

\* What this process has still to evaluate.
Pending == Range(prefetched) \ (IF evaluated THEN {Current} ELSE {})

\* A process dispatches for an alert once: neither its consumer nor, while it is
\* connected, the queue holds one for which it already has.
FreshInv ==
  /\ \A a \in Range(prefetched) : a <= published
  /\ \A d \in photos \cup calls : d.alert <= published
  /\ \A d \in photos \cup calls : d.alert \notin Pending /\ (link = "up" => d.alert \notin Ready)

\* A thread sends for an alert of this process, and no two of them call for the same.
ThreadInv ==
  /\ \A a \in photoThreads : \E d \in photos : d.alert = a
  /\ \A t \in callThreads : \E d \in calls : d.alert = t.alert
  /\ \A t, u \in callThreads : t.alert = u.alert => t = u
  /\ link = "down" => photoThreads = {} /\ callThreads = {} /\ sent = 0 /\ errors = 0

NotifyInv == link # "down" => NotificationsAccounted

IInv == TypeOK /\ PlaceInv /\ OrderInv /\ HeadInv /\ LifeInv /\ CooldownInv /\ CountInv /\ FreshInv
               /\ ThreadInv /\ NotifyInv /\ CooldownsHold /\ AckedWereEvaluated /\ RaisingBlocks

-----------------------------------------------------------------------------
(* Types *)

LEMMA Clock ==
  /\ Epoch \in Nat /\ Epoch > NtfyCooldown /\ Epoch > AlertCooldown
  /\ Times \subseteq Nat /\ 0 \notin Times /\ Epoch \in Times
  /\ \A t \in Times : t < Epoch + MaxTime => t + 1 \in Times
BY ServiceAssumption DEF Epoch, Times

LEMMA TypeInit == Init => TypeOK
<1> SUFFICES ASSUME Init PROVE TypeOK
  OBVIOUS
<1>1. /\ published \in 0..MaxAlerts /\ faults \in 0..MaxFaults
      /\ sent \in Nat /\ errors \in Nat
  BY ServiceAssumption DEF Init
<1>2. /\ alertQueue \in Seq(Alerts) /\ prefetched \in Seq(Alerts) /\ Len(prefetched) <= Prefetch
  BY ServiceAssumption DEF Init
<1>3. /\ lastNtfy \in [Cameras -> {0} \cup Times]
      /\ total \in [Cameras -> Nat] /\ suppressed \in [Cameras -> Nat]
  BY DEF Init, NoCount
<1>4. now \in Times /\ lastCall \in {0} \cup Times
  BY Clock DEF Init
<1>5. /\ acked \subseteq Alerts /\ raising \subseteq Alerts /\ brokerLost \subseteq Alerts
      /\ handled \subseteq Alerts /\ photoThreads \subseteq Alerts
      /\ callThreads \in SUBSET [alert : Alerts, left : 0..Recipients]
      /\ photos \subseteq Dispatches /\ calls \subseteq Dispatches /\ skips \subseteq Dispatches
  BY DEF Init
<1>6. link \in {"down", "up", "closed"} /\ evaluated \in BOOLEAN
  BY DEF Init
<1> QED
  BY <1>1, <1>2, <1>3, <1>4, <1>5, <1>6, Zenon DEF TypeOK

\* What the callback works on.
LEMMA CurrentTyped ==
  ASSUME TypeOK, prefetched # <<>>
  PROVE  /\ Current \in Alerts /\ Camera[Current] \in Cameras
         /\ Current \in Range(prefetched)
         /\ Dispatch(Current) \in Dispatches
<1>1. Current \in Alerts /\ Current = prefetched[1] /\ 1 \in 1..Len(prefetched)
  BY HeadTailProperties, EmptySeq DEF TypeOK, Current
<1>2. Current \in Range(prefetched)
  BY <1>1, RangeEquality DEF TypeOK
<1> QED
  BY <1>1, <1>2, ServiceAssumption DEF TypeOK, Dispatch, Dispatches

\* The three ends of a life.
Ending == ConsumerError \/ CallbackRaises \/ Crash

LEMMA EndingExits == TypeOK /\ Ending => Exit /\ faults' \in 0..MaxFaults
BY ServiceAssumption DEF TypeOK, Ending, ConsumerError, CallbackRaises, Crash

LEMMA TypeStep == IInv /\ [Next]_vars => TypeOK'
<1> SUFFICES ASSUME IInv, [Next]_vars PROVE TypeOK'
  OBVIOUS
<1>0. TypeOK /\ HeadInv /\ LifeInv
  BY DEF IInv
<1> USE ServiceAssumption, <1>0 DEF TypeOK, brokerVars, cooldownVars, counters, history
<1>1. CASE Publish
  <2>1. published + 1 \in Alerts /\ published + 1 \in 0..MaxAlerts
    BY <1>1 DEF Publish, Alerts
  <2>2. alertQueue' \in Seq(Alerts)
    BY <1>1, <2>1, AppendProperties DEF Publish
  <2> QED
    BY <1>1, <2>1, <2>2 DEF Publish
<1>2. CASE Tick
  <2>1. now' \in Times
    BY <1>2, Clock DEF Tick
  <2> QED
    BY <1>2, <2>1 DEF Tick
<1>3. CASE Deliver
  <2>1. /\ Head(alertQueue) \in Alerts /\ alertQueue' \in Seq(Alerts)
    BY <1>3, HeadTailProperties DEF Deliver
  <2>2. prefetched' \in Seq(Alerts) /\ Len(prefetched') <= Prefetch
    BY <1>3, <2>1, AppendProperties DEF Deliver
  <2> QED
    BY <1>3, <2>1, <2>2 DEF Deliver
<1>4. CASE ConnectionLost
  <2>1. alertQueue' \in Seq(Alerts) /\ faults' \in 0..MaxFaults
    BY <1>4, ConcatProperties DEF ConnectionLost
  <2> QED
    BY <1>4, <2>1 DEF ConnectionLost
<1>5. CASE BrokerRestart
  <2>1. faults' \in 0..MaxFaults
    BY <1>5 DEF BrokerRestart
  <2>2. brokerLost' \subseteq Alerts
    BY <1>5, RangeOfSeq DEF BrokerRestart
  <2> QED
    BY <1>5, <2>1, <2>2 DEF BrokerRestart
<1>6. CASE Callback
  <2>1. Current \in Alerts /\ Camera[Current] \in Cameras /\ Dispatch(Current) \in Dispatches
    BY <1>6, CurrentTyped DEF Callback
  <2>2. Suppressions(Camera[Current]) \in Nat
    BY DEF Suppressions
  <2>3. total' \in [Cameras -> Nat] /\ suppressed' \in [Cameras -> Nat]
    BY <1>6, <2>1, <2>2, SMTT(30) DEF Callback
  <2>4. /\ lastNtfy' \in [Cameras -> {0} \cup Times] /\ photoThreads' \subseteq Alerts
        /\ photos' \subseteq Dispatches /\ skips' \subseteq Dispatches
    BY <1>6, <2>1 DEF Callback, DispatchPhoto, SkipPhoto
  <2>5. /\ lastCall' \in {0} \cup Times /\ calls' \subseteq Dispatches
        /\ callThreads' \in SUBSET [alert : Alerts, left : 0..Recipients]
    BY <1>6, <2>1 DEF Callback, DispatchCall, SkipCall
  <2>6. handled' \subseteq Alerts
    BY <1>6, <2>1 DEF Callback
  <2> QED
    BY <1>6, <2>3, <2>4, <2>5, <2>6 DEF Callback
<1>7. CASE Ack
  <2>1. prefetched # <<>>
    BY <1>7 DEF Ack, HeadInv
  <2>2. Current \in Alerts
    BY <2>1, CurrentTyped
  <2>3. Tail(prefetched) \in Seq(Alerts) /\ Len(Tail(prefetched)) = Len(prefetched) - 1
    BY <2>1, HeadTailProperties
  <2>4. prefetched' \in Seq(Alerts) /\ Len(prefetched') <= Prefetch
    BY <1>7, <2>3 DEF Ack
  <2> QED
    BY <1>7, <2>2, <2>4 DEF Ack
<1>8. ASSUME NEW a \in Alerts, Photo(a) PROVE TypeOK'
  <2>1. CASE PhotoSent(a)
    BY <2>1 DEF PhotoSent
  <2>2. CASE PhotoFails(a)
    BY <2>2 DEF PhotoFails
  <2>3. CASE PhotoDropped(a)
    BY <2>3 DEF PhotoDropped
  <2> QED
    BY <1>8, <2>1, <2>2, <2>3 DEF Photo
<1>9. ASSUME NEW t \in callThreads, Call(t) PROVE TypeOK'
  <2>1. CASE PlaceCall(t)
    <3>1. t \in [alert : Alerts, left : 0..Recipients] /\ t.left - 1 \in 0..Recipients
      BY <2>1, SMTT(30) DEF PlaceCall
    <3>2. [t EXCEPT !.left = @ - 1] \in [alert : Alerts, left : 0..Recipients]
      BY <3>1
    <3>3. callThreads' \in SUBSET [alert : Alerts, left : 0..Recipients]
      BY <2>1, <3>2 DEF PlaceCall
    <3>4. /\ sent \in Nat /\ errors \in Nat
          /\ \/ sent' = sent + 1 /\ errors' = errors
             \/ errors' = errors + 1 /\ sent' = sent
      BY <2>1 DEF PlaceCall
    <3>5. sent' \in Nat /\ errors' \in Nat
      BY <3>4
    <3> QED
      BY <2>1, <3>3, <3>5 DEF PlaceCall
  <2>2. CASE CallsDone(t)
    BY <2>2 DEF CallsDone
  <2> QED
    BY <1>9, <2>1, <2>2 DEF Call
<1>10. CASE Ending
  <2>1. Exit /\ faults' \in 0..MaxFaults
    BY <1>10, EndingExits
  <2>2. NoCount \in [Cameras -> Nat] /\ NoCount \in [Cameras -> {0} \cup Times]
    BY DEF NoCount
  <2>3. prefetched' \in Seq(Alerts) /\ Len(prefetched') <= Prefetch
    BY <2>1 DEF Exit
  <2>4. alertQueue' \in Seq(Alerts)
    <3>1. prefetched \o alertQueue \in Seq(Alerts)
      BY ConcatProperties
    <3> QED
      BY <2>1, <3>1 DEF Exit
  <2>5. /\ UNCHANGED <<published, acked, raising, brokerLost, now, handled>>
        /\ link' = "down" /\ evaluated' = FALSE /\ lastCall' = 0 /\ photoThreads' = {}
        /\ callThreads' = {} /\ sent' = 0 /\ errors' = 0
        /\ total' = NoCount /\ suppressed' = NoCount /\ lastNtfy' = NoCount
        /\ photos' = {} /\ calls' = {} /\ skips' = {}
    BY <2>1 DEF Exit
  <2> QED
    BY <2>1, <2>2, <2>3, <2>4, <2>5
<1>11. CASE Start
  BY <1>11 DEF Start
<1>12. CASE UNCHANGED vars
  BY <1>12 DEF vars
<1> QED
  BY <1>1, <1>2, <1>3, <1>4, <1>5, <1>6, <1>7, <1>8, <1>9, <1>10, <1>11, <1>12
     DEF Next, Consumer, Quiet, Ending

-----------------------------------------------------------------------------
(* Where an alert is *)

LEMMA ConcatRange ==
  ASSUME NEW S, NEW s \in Seq(S), NEW t \in Seq(S), IsInjective(s), IsInjective(t),
         Range(s) \cap Range(t) = {}
  PROVE  IsInjective(s \o t) /\ Range(s \o t) = Range(s) \cup Range(t)
<1> DEFINE u == s \o t
<1>1. /\ u \in Seq(S) /\ Len(u) = Len(s) + Len(t) /\ Len(s) \in Nat /\ Len(t) \in Nat
      /\ \A i \in 1..Len(s) + Len(t) : u[i] = IF i <= Len(s) THEN s[i] ELSE t[i - Len(s)]
  BY ConcatProperties, LenProperties
<1>2. Range(u) = Range(s) \cup Range(t)
  BY RangeConcatenation
<1> HIDE DEF u
<1>3. /\ \A i, j \in 1..Len(s) : s[i] = s[j] => i = j
      /\ \A i, j \in 1..Len(t) : t[i] = t[j] => i = j
  BY LenProperties DEF IsInjective
<1>4. \A i \in 1..Len(s), j \in 1..Len(t) : s[i] # t[j]
  <2>1. \A i \in 1..Len(s) : s[i] \in Range(s)
    BY RangeEquality
  <2>2. \A j \in 1..Len(t) : t[j] \in Range(t)
    BY RangeEquality
  <2> QED
    BY <2>1, <2>2
<1>5. ASSUME NEW i \in 1..Len(u), NEW j \in 1..Len(u), u[i] = u[j] PROVE i = j
  <2>1. CASE i <= Len(s) /\ j <= Len(s)
    BY <1>1, <1>3, <1>5, <2>1
  <2>2. CASE i > Len(s) /\ j > Len(s)
    <3>1. i - Len(s) \in 1..Len(t) /\ j - Len(s) \in 1..Len(t)
      BY <1>1, <2>2
    <3>2. t[i - Len(s)] = t[j - Len(s)]
      BY <1>1, <1>5, <2>2
    <3> QED
      BY <1>1, <1>3, <3>1, <3>2
  <2>3. CASE i <= Len(s) /\ j > Len(s)
    <3>1. i \in 1..Len(s) /\ j - Len(s) \in 1..Len(t) /\ s[i] = t[j - Len(s)]
      BY <1>1, <1>5, <2>3
    <3> QED
      BY <1>4, <3>1
  <2>4. CASE i > Len(s) /\ j <= Len(s)
    <3>1. j \in 1..Len(s) /\ i - Len(s) \in 1..Len(t) /\ s[j] = t[i - Len(s)]
      BY <1>1, <1>5, <2>4
    <3> QED
      BY <1>4, <3>1
  <2> QED
    BY <1>1, <2>1, <2>2, <2>3, <2>4
<1>6. IsInjective(u)
  BY <1>1, <1>5, LenProperties DEF IsInjective
<1> QED
  BY <1>2, <1>6 DEF u

LEMMA AppendRange ==
  ASSUME NEW S, NEW s \in Seq(S), NEW e \in S, IsInjective(s), e \notin Range(s)
  PROVE  IsInjective(Append(s, e)) /\ Range(Append(s, e)) = Range(s) \cup {e}
<1>1. <<e>> \in Seq(S) /\ Append(s, e) = s \o <<e>>
  BY AppendIsConcat
<1> DEFINE t == <<e>>
<1>2. DOMAIN t = {1} /\ t[1] = e
  OBVIOUS
<1>3. t \in Seq(S) /\ Append(s, e) = s \o t
  BY <1>1
<1> HIDE DEF t
<1>4. Range(t) = {e} /\ IsInjective(t)
  BY <1>2 DEF Range, IsInjective
<1> QED
  BY <1>3, <1>4, ConcatRange

LEMMA RangeIs ==
  ASSUME NEW S, NEW s \in Seq(S)
  PROVE  \A x : x \in Range(s) <=> \E i \in 1..Len(s) : s[i] = x
BY RangeEquality

LEMMA TailRange ==
  ASSUME NEW S, NEW s \in Seq(S), s # <<>>, IsInjective(s)
  PROVE  /\ Head(s) \in Range(s)
         /\ Range(Tail(s)) = Range(s) \ {Head(s)}
         /\ IsInjective(Tail(s))
<1> DEFINE t == Tail(s)
<1>1. /\ t \in Seq(S) /\ Len(t) = Len(s) - 1
      /\ \A i \in 1..Len(t) : t[i] = s[i + 1]
      /\ Len(s) \in Nat \ {0} /\ Head(s) = s[1]
  BY HeadTailProperties, EmptySeq
<1> HIDE DEF t
<1>2. /\ \A x : x \in Range(s) <=> \E i \in 1..Len(s) : s[i] = x
      /\ \A x : x \in Range(t) <=> \E i \in 1..Len(t) : t[i] = x
  BY <1>1, RangeIs
<1>3. \A i, j \in 1..Len(s) : s[i] = s[j] => i = j
  BY LenProperties DEF IsInjective
<1>4. \A i, j \in 1..Len(t) : t[i] = t[j] => i = j
  BY <1>1, <1>3
<1>5. ASSUME NEW x PROVE x \in Range(t) <=> x \in Range(s) \ {Head(s)}
  <2>1. ASSUME NEW i \in 1..Len(t), t[i] = x PROVE x \in Range(s) \ {Head(s)}
    <3>1. i + 1 \in 1..Len(s) /\ 1 \in 1..Len(s) /\ s[i + 1] = x
      BY <1>1, <2>1
    <3> QED
      BY <1>1, <1>2, <1>3, <3>1
  <2>2. ASSUME NEW i \in 1..Len(s), s[i] = x, x # Head(s) PROVE x \in Range(t)
    <3>1. i - 1 \in 1..Len(t) /\ t[i - 1] = x
      BY <1>1, <2>2
    <3> QED
      BY <1>2, <3>1
  <2> QED
    BY <1>2, <2>1, <2>2
<1>6. IsInjective(t) /\ Range(t) = Range(s) \ {Head(s)}
  BY <1>1, <1>4, <1>5, LenProperties DEF IsInjective
<1>7. Head(s) \in Range(s)
  BY <1>1, <1>2
<1> QED
  BY <1>6, <1>7 DEF t

\* The steps that leave the queue, the consumer and the broker's records alone.
Unmoved == UNCHANGED <<published, alertQueue, prefetched, acked, brokerLost, link>>

LEMMA PlacesStep == IInv /\ [Next]_vars => PlaceInv'
<1> SUFFICES ASSUME IInv, [Next]_vars PROVE PlaceInv'
  OBVIOUS
<1>0. TypeOK /\ PlaceInv /\ HeadInv
  BY DEF IInv
<1>a. /\ alertQueue \in Seq(Alerts) /\ prefetched \in Seq(Alerts) /\ published \in Nat
      /\ Ready \subseteq Alerts /\ Range(prefetched) \subseteq Alerts
      /\ acked \subseteq Alerts /\ brokerLost \subseteq Alerts
      /\ IsInjective(alertQueue) /\ IsInjective(prefetched)
  BY <1>0, ServiceAssumption, RangeOfSeq DEF TypeOK, Ready, PlaceInv
<1>b. IsInjective(<<>>) /\ Range(<<>>) = {}
  BY DEF IsInjective, Range
<1> USE DEF Ready, Unacked
<1>1. CASE Publish
  <2>1. /\ published + 1 \in Alerts
        /\ \A a \in Alerts : a <= published + 1 <=> a <= published \/ a = published + 1
        /\ ~(published + 1 <= published)
    BY <1>a, <1>1, ServiceAssumption DEF Publish, Alerts
  <2>2. published + 1 \notin Ready /\ published + 1 \notin Unacked /\ published + 1 \notin acked
        /\ published + 1 \notin brokerLost
    BY <1>0, <2>1 DEF PlaceInv
  <2>3. Ready' = Ready \cup {published + 1} /\ IsInjective(alertQueue')
    BY <1>a, <1>1, <2>1, <2>2, AppendRange DEF Publish
  <2> QED
    BY <1>0, <1>1, <2>1, <2>2, <2>3 DEF Publish, PlaceInv
<1>2. CASE Deliver
  <2> DEFINE h == Head(alertQueue)
  <2>1. /\ h \in Ready /\ Ready' = Ready \ {h} /\ IsInjective(alertQueue')
    BY <1>a, <1>2, TailRange DEF Deliver
  <2>2. link = "up" /\ link' = "up" /\ h \in Alerts /\ h \notin Range(prefetched)
    BY <1>0, <1>a, <1>2, <2>1 DEF Deliver, PlaceInv
  <2>3. Unacked' = Unacked \cup {h} /\ IsInjective(prefetched')
    BY <1>a, <1>2, <2>2, AppendRange DEF Deliver
  <2> QED
    BY <1>0, <1>2, <2>1, <2>3 DEF Deliver, PlaceInv
<1>3. CASE ConnectionLost \/ (Ending /\ link = "up")
  <2>1. /\ link = "up" /\ link' # "up" /\ alertQueue' = prefetched \o alertQueue
        /\ prefetched' \in {prefetched, <<>>}
        /\ UNCHANGED <<published, acked, brokerLost>>
    BY <1>0, <1>3, EndingExits DEF ConnectionLost, Exit
  <2>2. Range(prefetched) \cap Range(alertQueue) = {}
    BY <1>0, <2>1 DEF PlaceInv
  <2>3. IsInjective(alertQueue') /\ Ready' = Unacked \cup Ready /\ Unacked' = {}
    BY <1>a, <2>1, <2>2, ConcatRange
  <2>4. IsInjective(prefetched')
    BY <1>a, <1>b, <2>1
  <2> QED
    BY <1>0, <2>1, <2>3, <2>4 DEF PlaceInv
<1>4. CASE BrokerRestart
  <2>1. /\ brokerLost' = brokerLost \cup Ready \cup Unacked /\ alertQueue' = <<>>
        /\ link' # "up" /\ UNCHANGED <<published, acked, prefetched>>
    BY <1>4 DEF BrokerRestart
  <2>2. Ready' = {} /\ Unacked' = {} /\ IsInjective(alertQueue')
    BY <1>b, <2>1
  <2> QED
    BY <1>0, <2>1, <2>2 DEF PlaceInv
<1>5. CASE Ack
  <2>1. prefetched # <<>> /\ link = "up" /\ link' = "up"
    BY <1>0, <1>5 DEF Ack, HeadInv
  <2>2. Current \in Unacked /\ Unacked' = Unacked \ {Current} /\ IsInjective(prefetched')
    BY <1>a, <1>5, <2>1, TailRange DEF Ack, Current
  <2> QED
    BY <1>0, <1>5, <2>2 DEF Ack, PlaceInv
<1>6. CASE Ending /\ link # "up"
  <2>1. /\ link # "up" /\ link' # "up" /\ prefetched' = <<>>
        /\ UNCHANGED <<published, alertQueue, acked, brokerLost>>
    BY <1>0, <1>6, EndingExits DEF Exit
  <2> QED
    BY <1>0, <1>b, <2>1 DEF PlaceInv
<1>7. CASE Start
  <2>1. /\ link # "up" /\ prefetched = <<>>
        /\ UNCHANGED <<published, alertQueue, acked, brokerLost, prefetched>>
    BY <1>0, <1>7 DEF Start, HeadInv, brokerVars
  <2>2. Unacked = {} /\ Unacked' = {}
    BY <1>b, <2>1
  <2> QED
    BY <1>0, <2>1, <2>2 DEF PlaceInv
<1>8. CASE Unmoved
  BY <1>0, <1>8 DEF Unmoved, PlaceInv
<1>9. ASSUME NEW a \in Alerts, Photo(a) PROVE Unmoved
  BY <1>9 DEF Photo, PhotoSent, PhotoFails, PhotoDropped, Unmoved, brokerVars
<1>10. ASSUME NEW t \in callThreads, Call(t) PROVE Unmoved
  BY <1>10 DEF Call, PlaceCall, CallsDone, Unmoved, brokerVars
<1>11. Tick \/ Callback \/ Quiet \/ UNCHANGED vars => Unmoved
  BY DEF Tick, Callback, Quiet, vars, Unmoved, brokerVars
<1> QED
  BY <1>1, <1>2, <1>3, <1>4, <1>5, <1>6, <1>7, <1>8, <1>9, <1>10, <1>11 DEF Next, Consumer, Ending

-----------------------------------------------------------------------------
(* The order of publication *)

LEMMA IncreasingConcat ==
  ASSUME NEW s \in Seq(Alerts), NEW t \in Seq(Alerts), Increasing(s), Increasing(t),
         \A a \in Range(s), b \in Range(t) : a < b
  PROVE  Increasing(s \o t)
<1> DEFINE u == s \o t
<1>1. /\ Len(u) = Len(s) + Len(t) /\ Len(s) \in Nat /\ Len(t) \in Nat
      /\ \A i \in 1..Len(s) + Len(t) : u[i] = IF i <= Len(s) THEN s[i] ELSE t[i - Len(s)]
  BY ConcatProperties, LenProperties
<1> HIDE DEF u
<1>2. \A i \in 1..Len(s), j \in 1..Len(t) : s[i] < t[j]
  <2>1. /\ \A i \in 1..Len(s) : s[i] \in Range(s)
        /\ \A j \in 1..Len(t) : t[j] \in Range(t)
    BY RangeEquality
  <2> QED
    BY <2>1
<1>3. ASSUME NEW i \in 1..Len(u), NEW j \in 1..Len(u), i < j PROVE u[i] < u[j]
  <2>1. CASE j <= Len(s)
    BY <1>1, <1>3, <2>1 DEF Increasing
  <2>2. CASE i > Len(s)
    <3>1. i - Len(s) \in 1..Len(t) /\ j - Len(s) \in 1..Len(t) /\ i - Len(s) < j - Len(s)
      BY <1>1, <1>3, <2>2
    <3>2. u[i] = t[i - Len(s)] /\ u[j] = t[j - Len(s)]
      BY <1>1, <1>3, <2>2
    <3> QED
      BY <3>1, <3>2 DEF Increasing
  <2>3. CASE i <= Len(s) /\ j > Len(s)
    <3>1. i \in 1..Len(s) /\ j - Len(s) \in 1..Len(t) /\ u[i] = s[i] /\ u[j] = t[j - Len(s)]
      BY <1>1, <2>3
    <3> QED
      BY <1>2, <3>1
  <2> QED
    BY <1>1, <2>1, <2>2, <2>3
<1> QED
  BY <1>3 DEF Increasing, u

LEMMA IncreasingAppend ==
  ASSUME NEW s \in Seq(Alerts), NEW e \in Alerts, Increasing(s), \A a \in Range(s) : a < e
  PROVE  Increasing(Append(s, e))
<1> DEFINE t == <<e>>
<1>1. t \in Seq(Alerts) /\ Append(s, e) = s \o t
  BY AppendIsConcat
<1>2. Len(t) = 1 /\ DOMAIN t = {1} /\ t[1] = e
  OBVIOUS
<1> HIDE DEF t
<1>3. Increasing(t) /\ Range(t) = {e}
  BY <1>2 DEF Increasing, Range
<1> QED
  BY <1>1, <1>3, IncreasingConcat

LEMMA IncreasingTail ==
  ASSUME NEW s \in Seq(Alerts), s # <<>>, Increasing(s)
  PROVE  /\ Increasing(Tail(s))
         /\ \A a \in Range(Tail(s)) : Head(s) < a
<1> DEFINE t == Tail(s)
<1>1. /\ t \in Seq(Alerts) /\ Len(t) = Len(s) - 1 /\ Len(s) \in Nat
      /\ \A i \in 1..Len(t) : t[i] = s[i + 1]
      /\ Head(s) = s[1]
  BY HeadTailProperties, EmptySeq
<1> HIDE DEF t
<1>2. \A i \in 1..Len(t) : s[1] < t[i]
  BY <1>1 DEF Increasing
<1>3. \A i, j \in 1..Len(t) : i < j => t[i] < t[j]
  BY <1>1 DEF Increasing
<1>4. \A a : a \in Range(t) <=> \E i \in 1..Len(t) : t[i] = a
  BY <1>1, RangeIs
<1> QED
  BY <1>1, <1>2, <1>3, <1>4 DEF Increasing, t

LEMMA OrderStep == IInv /\ [Next]_vars => OrderInv'
<1> SUFFICES ASSUME IInv, [Next]_vars PROVE OrderInv'
  OBVIOUS
<1>0. TypeOK /\ PlaceInv /\ OrderInv /\ HeadInv
  BY DEF IInv
<1>a. /\ alertQueue \in Seq(Alerts) /\ prefetched \in Seq(Alerts) /\ published \in Nat
      /\ Ready \subseteq Alerts /\ Range(prefetched) \subseteq Alerts /\ Alerts \subseteq Nat
      /\ IsInjective(alertQueue) /\ IsInjective(prefetched)
  BY <1>0, ServiceAssumption, RangeOfSeq DEF TypeOK, Ready, PlaceInv, Alerts
<1>b. Increasing(<<>>) /\ Range(<<>>) = {}
  BY DEF Increasing, Range
<1>1. CASE Publish
  <2>1. published + 1 \in Alerts
    BY <1>a, <1>1, ServiceAssumption DEF Publish, Alerts
  <2>2. \A a \in Ready \cup Unacked : a < published + 1 /\ a # published + 1
    <3>1. Ready \cup Unacked \subseteq Alerts
      BY <1>a DEF Unacked
    <3>2. \A a \in Ready \cup Unacked : a <= published
      BY <1>0, <3>1 DEF PlaceInv
    <3> QED
      BY <1>a, <3>1, <3>2
  <2>3. Increasing(alertQueue') /\ Ready' = Ready \cup {published + 1}
    <3>1. alertQueue' = Append(alertQueue, published + 1)
      BY <1>1 DEF Publish
    <3>2. Increasing(alertQueue) /\ published + 1 \notin Ready
      BY <1>0, <2>2 DEF OrderInv
    <3>3. Increasing(Append(alertQueue, published + 1))
      BY <1>a, <2>1, <2>2, <3>2, IncreasingAppend DEF Ready
    <3>4. Range(Append(alertQueue, published + 1)) = Ready \cup {published + 1}
      BY <1>a, <2>1, <3>2, AppendRange DEF Ready
    <3> QED
      BY <3>1, <3>3, <3>4 DEF Ready
  <2> QED
    BY <1>0, <1>1, <2>2, <2>3 DEF Publish, OrderInv, Unacked
<1>2. CASE Deliver
  <2> DEFINE h == Head(alertQueue)
  <2>1. h \in Ready /\ Ready' = Ready \ {h} /\ link = "up"
    BY <1>a, <1>2, TailRange DEF Deliver, Ready
  <2>2. Increasing(alertQueue') /\ \A a \in Ready' : h < a
    BY <1>0, <1>a, <1>2, IncreasingTail DEF Deliver, OrderInv, Ready
  <2>3. h \in Alerts /\ \A a \in Range(prefetched) : a < h
    BY <1>0, <1>a, <2>1 DEF OrderInv
  <2>4. h \notin Range(prefetched)
    BY <1>0, <2>1 DEF PlaceInv, Unacked
  <2>5. Increasing(prefetched') /\ Range(prefetched') = Range(prefetched) \cup {h}
    <3>1. prefetched' = Append(prefetched, h)
      BY <1>2 DEF Deliver
    <3>2. Increasing(prefetched)
      BY <1>0 DEF OrderInv
    <3> HIDE DEF h
    <3>3. Increasing(Append(prefetched, h))
      BY <1>a, <2>3, <3>2, IncreasingAppend
    <3>4. Range(Append(prefetched, h)) = Range(prefetched) \cup {h}
      BY <1>a, <2>3, <2>4, AppendRange
    <3> QED
      BY <3>1, <3>3, <3>4
  <2> HIDE DEF h
  <2> QED
    BY <1>0, <2>1, <2>2, <2>5 DEF OrderInv
<1>3. CASE ConnectionLost \/ (Ending /\ link = "up")
  <2>1. /\ link = "up" /\ link' # "up" /\ alertQueue' = prefetched \o alertQueue
        /\ prefetched' \in {prefetched, <<>>}
    BY <1>0, <1>3, EndingExits DEF ConnectionLost, Exit
  <2>2. Increasing(alertQueue')
    BY <1>0, <1>a, <2>1, IncreasingConcat DEF OrderInv, Ready
  <2> QED
    BY <1>0, <1>b, <2>1, <2>2 DEF OrderInv
<1>4. CASE BrokerRestart
  BY <1>0, <1>b, <1>4 DEF BrokerRestart, OrderInv
<1>5. CASE Ack
  <2>1. prefetched # <<>> /\ prefetched' = Tail(prefetched) /\ UNCHANGED <<alertQueue, link>>
    BY <1>0, <1>5 DEF Ack, HeadInv
  <2>2. Increasing(prefetched') /\ Range(prefetched') \subseteq Range(prefetched)
    BY <1>0, <1>a, <2>1, IncreasingTail, TailRange DEF OrderInv
  <2> QED
    BY <1>0, <2>1, <2>2 DEF OrderInv, Ready
<1>6. CASE Ending /\ link # "up"
  <2>1. link' # "up" /\ prefetched' = <<>> /\ alertQueue' = alertQueue
    BY <1>0, <1>6, EndingExits DEF Exit
  <2> QED
    BY <1>0, <1>b, <2>1 DEF OrderInv
<1>7. CASE Start
  <2>1. prefetched' = <<>> /\ alertQueue' = alertQueue
    BY <1>0, <1>7 DEF Start, HeadInv, brokerVars
  <2> QED
    BY <1>0, <1>b, <2>1 DEF OrderInv
<1>8. CASE Unmoved
  BY <1>0, <1>8 DEF Unmoved, OrderInv, Ready
<1>9. ASSUME NEW a \in Alerts, Photo(a) PROVE Unmoved
  BY <1>9 DEF Photo, PhotoSent, PhotoFails, PhotoDropped, Unmoved, brokerVars
<1>10. ASSUME NEW t \in callThreads, Call(t) PROVE Unmoved
  BY <1>10 DEF Call, PlaceCall, CallsDone, Unmoved, brokerVars
<1>11. Tick \/ Callback \/ Quiet \/ UNCHANGED vars => Unmoved
  BY DEF Tick, Callback, Quiet, vars, Unmoved, brokerVars
<1> QED
  BY <1>1, <1>2, <1>3, <1>4, <1>5, <1>6, <1>7, <1>8, <1>9, <1>10, <1>11 DEF Next, Consumer, Ending

\* Only an acknowledgement adds to the acknowledged alerts, and whatever was published
\* before its alert and is still in RabbitMQ would be in front of it.
LEMMA BlockStep == IInv /\ [Next]_vars => RaisingBlocks'
<1> SUFFICES ASSUME IInv, [Next]_vars PROVE RaisingBlocks'
  OBVIOUS
<1>0. TypeOK /\ PlaceInv /\ OrderInv /\ HeadInv /\ RaisingBlocks
  BY DEF IInv
<1> USE DEF brokerVars, cooldownVars, counters, history
<1>1. CASE Ack
  <2>1. /\ prefetched # <<>> /\ link = "up" /\ Current \notin raising
        /\ acked' = acked \cup {Current} /\ UNCHANGED <<raising, brokerLost>>
    BY <1>0, <1>1 DEF Ack, HeadInv
  <2>2. Current \in Alerts /\ Current \in Unacked /\ Alerts \subseteq Nat
    BY <1>0, <2>1, CurrentTyped DEF Unacked, Alerts
  <2>3. \A a \in Ready : Current < a
    BY <1>0, <2>1, <2>2 DEF OrderInv, Unacked
  <2>4. \A a \in Unacked : a = Current \/ Current < a
    <3>1. prefetched \in Seq(Alerts)
      BY <1>0 DEF TypeOK
    <3>2. Range(Tail(prefetched)) = Range(prefetched) \ {Current}
      BY <1>0, <2>1, <3>1, TailRange DEF PlaceInv, Current
    <3>3. \A a \in Range(Tail(prefetched)) : Current < a
      BY <1>0, <2>1, <3>1, IncreasingTail DEF OrderInv, Current
    <3> QED
      BY <3>2, <3>3 DEF Unacked
  <2>5. ASSUME NEW b \in raising, b <= Current PROVE b # Current /\ b \in brokerLost
    <3>1. b \in Alerts /\ b # Current /\ b <= published
      BY <1>0, <2>1, <2>2, <2>5, ServiceAssumption DEF TypeOK, PlaceInv, Alerts
    <3>2. b \notin Ready /\ b \notin Unacked
      BY <2>2, <2>3, <2>4, <2>5, <3>1
    <3>3. b \notin acked
      BY <1>0, <2>2, <3>1 DEF RaisingBlocks
    <3> QED
      BY <1>0, <3>1, <3>2, <3>3 DEF PlaceInv
  <2> QED
    BY <1>0, <2>1, <2>5 DEF RaisingBlocks
<1>2. ASSUME UNCHANGED <<raising, acked>>, brokerLost \subseteq brokerLost' PROVE RaisingBlocks'
  BY <1>0, <1>2 DEF RaisingBlocks
<1>3. ASSUME Publish \/ Tick \/ ConnectionLost \/ BrokerRestart \/ Deliver \/ Callback \/ Start
             \/ Quiet \/ UNCHANGED vars
      PROVE  UNCHANGED <<raising, acked>> /\ brokerLost \subseteq brokerLost'
  BY <1>3 DEF Publish, Tick, ConnectionLost, BrokerRestart, Deliver, Callback, Start, Quiet, vars
<1>4. ASSUME Ending PROVE UNCHANGED <<raising, acked, brokerLost>>
  BY <1>0, <1>4, EndingExits DEF Exit
<1>5. ASSUME NEW a \in Alerts, Photo(a) PROVE UNCHANGED <<raising, acked, brokerLost>>
  BY <1>5 DEF Photo, PhotoSent, PhotoFails, PhotoDropped
<1>6. ASSUME NEW t \in callThreads, Call(t) PROVE UNCHANGED <<raising, acked, brokerLost>>
  BY <1>6 DEF Call, PlaceCall, CallsDone
<1> QED
  BY <1>1, <1>2, <1>3, <1>4, <1>5, <1>6 DEF Next, Consumer, Ending

-----------------------------------------------------------------------------
(* The head of the consumer, and what was acknowledged *)

LEMMA HeadStep == IInv /\ [Next]_vars => HeadInv' /\ AckedWereEvaluated'
<1> SUFFICES ASSUME IInv, [Next]_vars PROVE HeadInv' /\ AckedWereEvaluated'
  OBVIOUS
<1>0. TypeOK /\ HeadInv /\ AckedWereEvaluated
  BY DEF IInv
<1> USE <1>0 DEF HeadInv, AckedWereEvaluated, Current, brokerVars, cooldownVars, counters, history
<1>1. CASE Deliver
  <2>1. Head(alertQueue) \in Alerts
    BY <1>1, HeadTailProperties DEF Deliver, TypeOK
  <2>2. ASSUME prefetched # <<>>
        PROVE  prefetched' # <<>> /\ Head(prefetched') = Head(prefetched)
    <3>1. prefetched' = Append(prefetched, Head(alertQueue)) /\ prefetched \in Seq(Alerts)
      BY <1>1 DEF Deliver, TypeOK
    <3>2. Append(prefetched, Head(alertQueue)) # <<>>
      BY <2>1, <3>1, AppendProperties
    <3>3. Head(Append(prefetched, Head(alertQueue))) = Head(prefetched)
      BY <2>1, <2>2, <3>1, HeadTailAppend
    <3> QED
      BY <3>1, <3>2, <3>3
  <2> QED
    BY <1>1, <2>2 DEF Deliver
<1>2. CASE Callback
  BY <1>2 DEF Callback
<1>3. CASE Ack
  BY <1>3 DEF Ack
<1>4. CASE Ending
  BY <1>4, EndingExits DEF Exit
<1>5. CASE Start
  BY <1>5 DEF Start
<1>6. CASE Publish \/ Tick \/ ConnectionLost \/ BrokerRestart \/ Quiet \/ UNCHANGED vars
  BY <1>6 DEF Publish, Tick, ConnectionLost, BrokerRestart, Quiet, vars
<1>7. ASSUME NEW a \in Alerts, Photo(a) PROVE HeadInv' /\ AckedWereEvaluated'
  BY <1>7 DEF Photo, PhotoSent, PhotoFails, PhotoDropped
<1>8. ASSUME NEW t \in callThreads, Call(t) PROVE HeadInv' /\ AckedWereEvaluated'
  BY <1>8 DEF Call, PlaceCall, CallsDone
<1> QED
  BY <1>1, <1>2, <1>3, <1>4, <1>5, <1>6, <1>7, <1>8 DEF Next, Consumer, Ending

-----------------------------------------------------------------------------
(* Cooldowns and accounts *)

\* The steps between two callbacks of one life: they touch neither the cooldowns nor
\* what is counted and recorded.
Undisturbed ==
  /\ UNCHANGED <<lastNtfy, lastCall, total, suppressed, photos, calls, skips, now>>
  /\ link' = "down" <=> link = "down"

LEMMA Disturbances == [Next]_vars => Tick \/ Callback \/ Ending \/ Start \/ Undisturbed
<1> SUFFICES ASSUME [Next]_vars, ~(Tick \/ Callback \/ Ending \/ Start)
             PROVE  Undisturbed
  OBVIOUS
<1> USE DEF Undisturbed, brokerVars, cooldownVars, counters, history
<1>1. CASE Publish \/ ConnectionLost \/ BrokerRestart \/ Deliver \/ Ack
  BY <1>1 DEF Publish, ConnectionLost, BrokerRestart, Deliver, Ack
<1>2. ASSUME NEW a \in Alerts, Photo(a) PROVE Undisturbed
  BY <1>2 DEF Photo, PhotoSent, PhotoFails, PhotoDropped
<1>3. ASSUME NEW t \in callThreads, Call(t) PROVE Undisturbed
  BY <1>3 DEF Call, PlaceCall, CallsDone
<1>4. CASE Quiet \/ UNCHANGED vars
  BY <1>4 DEF Quiet, vars
<1> QED
  BY <1>1, <1>2, <1>3, <1>4 DEF Next, Consumer, Ending

\* What the callback records: at most one photo, call and skip, of this moment,
\* and each of the first two only when its cooldown is over.
LEMMA CallbackRecords ==
  ASSUME TypeOK, Callback
  PROVE  LET c == Camera[Current] IN
         /\ c \in Cameras /\ link # "down" /\ UNCHANGED <<now, link, faults>>
         /\ Dispatch(Current) \in Dispatches
         /\ \/ /\ NtfyDue(c) /\ photos' = photos \cup {Dispatch(Current)} /\ skips' = skips
               /\ lastNtfy' = [lastNtfy EXCEPT ![c] = now]
            \/ /\ ~NtfyDue(c) /\ skips' = skips \cup {Dispatch(Current)} /\ photos' = photos
               /\ lastNtfy' = lastNtfy
         /\ \/ CallDue /\ calls' = calls \cup {Dispatch(Current)} /\ lastCall' = now
            \/ ~CallDue /\ calls' = calls /\ lastCall' = lastCall
<1>1. Camera[Current] \in Cameras /\ Dispatch(Current) \in Dispatches
  BY CurrentTyped DEF Callback
<1>2. link # "down" /\ UNCHANGED <<now, link, faults>>
  BY DEF Callback
<1> QED
  BY <1>1, <1>2 DEF Callback, DispatchPhoto, SkipPhoto, DispatchCall, SkipCall

LEMMA LifeStep == IInv /\ [Next]_vars => LifeInv'
<1> SUFFICES ASSUME IInv, [Next]_vars PROVE LifeInv'
  OBVIOUS
<1>0. /\ TypeOK /\ LifeInv /\ now \in Nat
      /\ \A d \in photos \cup calls \cup skips : d.time \in Nat
  <2>1. /\ TypeOK /\ LifeInv /\ photos \cup calls \cup skips \subseteq Dispatches /\ now \in Times
    BY DEF IInv, TypeOK
  <2>2. \A d \in Dispatches : d.time \in Nat
    BY Clock DEF Dispatches
  <2> QED
    BY <2>1, <2>2, Clock
<1>1. CASE Callback
  <2>1. /\ UNCHANGED <<now, link>> /\ link # "down"
        /\ \A d \in photos' \cup calls' \cup skips' :
             d \in photos \cup calls \cup skips \/ d = Dispatch(Current)
    BY <1>0, <1>1, CallbackRecords
  <2>2. Dispatch(Current).time = now
    BY DEF Dispatch
  <2> QED
    BY <1>0, <2>1, <2>2 DEF LifeInv
<1>2. CASE Tick
  BY <1>0, <1>2 DEF Tick, history, LifeInv
<1>3. CASE Start
  BY <1>0, <1>3 DEF Start, history, LifeInv
<1>4. CASE Ending
  BY <1>0, <1>4, EndingExits DEF Exit, LifeInv
<1>5. CASE Undisturbed
  BY <1>0, <1>5 DEF Undisturbed, LifeInv
<1> QED
  BY <1>1, <1>2, <1>3, <1>4, <1>5, Disturbances

LEMMA CooldownStep == IInv /\ [Next]_vars => CooldownInv' /\ CooldownsHold'
<1> SUFFICES ASSUME IInv, [Next]_vars PROVE CooldownInv' /\ CooldownsHold'
  OBVIOUS
<1>0. /\ TypeOK /\ LifeInv /\ CooldownInv
      /\ PhotoSpacing /\ SuppressionJustified /\ CallSpacing /\ CallsJustified
  BY DEF IInv, CooldownsHold
<1>a. /\ now \in Nat /\ NtfyCooldown \in Nat /\ AlertCooldown \in Nat
      /\ now > NtfyCooldown /\ now > AlertCooldown /\ lastCall \in Nat
      /\ \A c \in Cameras : lastNtfy[c] \in Nat
      /\ \A d \in photos \cup calls \cup skips : d.time \in Nat /\ Camera[d.alert] \in Cameras
  BY <1>0, Clock, ServiceAssumption DEF TypeOK, Dispatches, Times
<1> USE DEF CooldownsHold, PhotoSpacing, SuppressionJustified, CallSpacing, CallsJustified
<1>1. CASE Undisturbed
  BY <1>0, <1>1 DEF Undisturbed, CooldownInv
<1>2. CASE Tick
  <2>1. UNCHANGED <<photos, calls, skips, lastNtfy, lastCall, total, suppressed, link>>
    BY <1>2 DEF Tick, cooldownVars, counters, history
  <2> QED
    BY <1>0, <2>1 DEF CooldownInv
<1>3. CASE Ending
  <2>1. /\ photos' = {} /\ calls' = {} /\ skips' = {} /\ lastCall' = 0
        /\ lastNtfy' = NoCount /\ total' = NoCount /\ suppressed' = NoCount
    BY <1>0, <1>3, EndingExits DEF Exit
  <2>2. \A c \in Cameras : lastNtfy'[c] = 0
    BY <2>1 DEF NoCount
  <2> QED
    BY <2>1, <2>2 DEF CooldownInv
<1>4. CASE Start
  <2>1. UNCHANGED <<photos, calls, skips, lastNtfy, lastCall>> /\ link' = "up"
    BY <1>4 DEF Start, history, cooldownVars
  <2> QED
    BY <1>0, <2>1 DEF CooldownInv
<1>5. CASE Callback
  <2> DEFINE c == Camera[Current]
             d == Dispatch(Current)
  <2>1. /\ c \in Cameras /\ link # "down" /\ UNCHANGED <<now, link>>
        /\ \/ /\ NtfyDue(c) /\ photos' = photos \cup {d} /\ skips' = skips
              /\ lastNtfy' = [lastNtfy EXCEPT ![c] = now]
           \/ /\ ~NtfyDue(c) /\ skips' = skips \cup {d} /\ photos' = photos
              /\ lastNtfy' = lastNtfy
        /\ \/ CallDue /\ calls' = calls \cup {d} /\ lastCall' = now
           \/ ~CallDue /\ calls' = calls /\ lastCall' = lastCall
    BY <1>0, <1>5, CallbackRecords
  <2>2. d.time = now /\ Camera[d.alert] = c
    BY DEF Dispatch
  <2> HIDE DEF c, d
  <2>3. /\ lastCall' # 0 => \E q \in calls' : q.time = lastCall'
        /\ \A q \in calls' : q.time <= lastCall'
        /\ CallSpacing'
        /\ EnableCalls => \E q \in calls' : now - q.time \in 0..AlertCooldown
        /\ calls \subseteq calls'
    <3>1. CASE CallDue /\ calls' = calls \cup {d} /\ lastCall' = now
      <4>1. \A q \in calls : now - q.time > AlertCooldown
        BY <1>0, <1>a, <3>1 DEF CallDue, CooldownInv
      <4>2. \A q \in calls' : q.time <= lastCall'
        BY <1>0, <1>a, <2>2, <3>1 DEF LifeInv
      <4>3. now - d.time \in 0..AlertCooldown
        BY <1>a, <2>2
      <4>4. CallSpacing'
        BY <1>0, <2>2, <3>1, <4>1
      <4> QED
        BY <2>2, <3>1, <4>2, <4>3, <4>4
    <3>2. CASE ~CallDue /\ calls' = calls /\ lastCall' = lastCall
      <4>1. ASSUME EnableCalls PROVE \E q \in calls : now - q.time \in 0..AlertCooldown
        <5>1. now - lastCall <= AlertCooldown /\ lastCall # 0
          BY <1>a, <3>2, <4>1 DEF CallDue
        <5>2. PICK q \in calls : q.time = lastCall
          BY <1>0, <5>1 DEF CooldownInv
        <5>3. q.time <= now
          BY <1>0 DEF LifeInv
        <5> QED
          BY <1>a, <5>1, <5>2, <5>3
      <4> QED
        BY <1>0, <3>2, <4>1 DEF CooldownInv
    <3> QED
      BY <2>1, <3>1, <3>2
  <2>4. CallsJustified'
    <3>1. \A p \in photos' \cup skips' : p \in photos \cup skips \/ p.time = now
      BY <2>1, <2>2
    <3> QED
      BY <1>0, <2>3, <3>1
  <2>5. \A q \in photos : Camera[q.alert] = c => q.time <= lastNtfy[c]
    BY <1>0, <2>1 DEF CooldownInv
  <2>6. CASE NtfyDue(c) /\ photos' = photos \cup {d} /\ skips' = skips /\ lastNtfy' = [lastNtfy EXCEPT ![c] = now]
    <3>1. lastNtfy'[c] = now /\ \A e \in Cameras : e # c => lastNtfy'[e] = lastNtfy[e]
      BY <1>0, <2>1, <2>6 DEF TypeOK
    <3>2. \A e \in Cameras : lastNtfy'[e] # 0 =>
            \E p \in photos' : Camera[p.alert] = e /\ p.time = lastNtfy'[e]
      BY <1>0, <2>1, <2>2, <2>6, <3>1 DEF CooldownInv
    <3>3. \A p \in photos' : p.time <= lastNtfy'[Camera[p.alert]]
      BY <1>0, <1>a, <2>1, <2>2, <2>6, <3>1 DEF CooldownInv, LifeInv
    <3>4. \A q \in photos : Camera[q.alert] = c => now - q.time > NtfyCooldown
      BY <1>a, <2>1, <2>5, <2>6 DEF NtfyDue
    <3>5. PhotoSpacing'
      BY <1>0, <2>1, <2>2, <2>6, <3>4
    <3>6. SuppressionJustified'
      BY <1>0, <2>6
    <3> QED
      BY <2>1, <2>3, <2>4, <3>2, <3>3, <3>5, <3>6 DEF CooldownInv
  <2>7. CASE ~NtfyDue(c) /\ skips' = skips \cup {d} /\ photos' = photos /\ lastNtfy' = lastNtfy
    <3>1. lastNtfy[c] # 0
      BY <1>a, <2>7 DEF NtfyDue
    <3>2. PICK p \in photos : Camera[p.alert] = c /\ p.time = lastNtfy[c]
      BY <1>0, <2>1, <3>1 DEF CooldownInv
    <3>3. now - p.time \in 0..NtfyCooldown
      BY <1>0, <1>a, <2>1, <2>7, <3>2 DEF NtfyDue, LifeInv
    <3>4. SuppressionJustified'
      BY <1>0, <2>2, <2>7, <3>2, <3>3
    <3>5. PhotoSpacing'
      BY <1>0, <2>7
    <3> QED
      BY <1>0, <2>1, <2>3, <2>4, <2>7, <3>4, <3>5 DEF CooldownInv
  <2> QED
    BY <2>1, <2>6, <2>7
<1> QED
  BY <1>1, <1>2, <1>3, <1>4, <1>5, Disturbances

\* A new dispatch of this life counts once, for its own camera.
LEMMA OneMore ==
  ASSUME NEW D, IsFiniteSet(D), NEW d, d \notin D, NEW c \in Cameras
  PROVE  /\ Dispatched(D, c) \in Nat
         /\ Dispatched(D \cup {d}, c) = Dispatched(D, c) + (IF Camera[d.alert] = c THEN 1 ELSE 0)
<1> DEFINE S == {e \in D : Camera[e.alert] = c}
           T == {e \in D \cup {d} : Camera[e.alert] = c}
<1>1. IsFiniteSet(S) /\ Cardinality(S) \in Nat /\ d \notin S
  BY FS_Subset, FS_CardinalityType
<1>0. Dispatched(D, c) = Cardinality(S) /\ Dispatched(D \cup {d}, c) = Cardinality(T)
  BY DEF Dispatched
<1>2. CASE Camera[d.alert] = c
  <2>1. T = S \cup {d}
    BY <1>2
  <2>2. Cardinality(T) = Cardinality(S) + 1
    BY <1>1, <2>1, FS_AddElement
  <2> HIDE DEF S, T
  <2> QED
    BY <1>0, <1>1, <1>2, <2>2
<1>3. CASE Camera[d.alert] # c
  <2>1. T = S
    BY <1>3
  <2> HIDE DEF S, T
  <2> QED
    BY <1>0, <1>1, <1>3, <2>1
<1> QED
  BY <1>2, <1>3

LEMMA CountStep == IInv /\ [Next]_vars => CountInv'
<1> SUFFICES ASSUME IInv, [Next]_vars PROVE CountInv'
  OBVIOUS
<1>0. TypeOK /\ LifeInv /\ CooldownInv /\ CountInv
  BY DEF IInv
<1>1. CASE Undisturbed
  BY <1>0, <1>1 DEF Undisturbed, CountInv, AlertsAccounted, Dispatched
<1>2. CASE Tick
  <2>1. UNCHANGED <<photos, calls, total, suppressed, link>>
    BY <1>2 DEF Tick, counters, history
  <2> QED
    BY <1>0, <2>1 DEF CountInv, AlertsAccounted, Dispatched
<1>3. CASE Ending
  BY <1>0, <1>3, EndingExits, FS_EmptySet DEF Exit, CountInv
<1>4. CASE Start
  <2>1. /\ photos' = {} /\ calls' = {} /\ UNCHANGED <<total, suppressed>> /\ link = "down"
    BY <1>0, <1>4 DEF Start, counters, history, LifeInv
  <2>2. ASSUME NEW c \in Cameras
        PROVE  suppressed'[c] + Dispatched(photos, c)' + Dispatched(calls, c)'
                 = total'[c] * (IF EnableCalls THEN 2 ELSE 1)
    <3>1. /\ {d \in photos' : Camera[d.alert] = c} = {}
          /\ {d \in calls' : Camera[d.alert] = c} = {}
      BY <2>1
    <3>2. Dispatched(photos, c)' = 0 /\ Dispatched(calls, c)' = 0
      BY <3>1, FS_EmptySet DEF Dispatched
    <3>3. total'[c] = 0 /\ suppressed'[c] = 0
      BY <1>0, <2>1 DEF CooldownInv, NoCount
    <3> QED
      BY <3>2, <3>3
  <2> QED
    BY <2>1, <2>2, FS_EmptySet DEF CountInv, AlertsAccounted
<1>5. CASE Callback
  <2> DEFINE d == Dispatch(Current)
             c == Camera[Current]
             K == IF EnableCalls THEN 2 ELSE 1
             photo == IF NtfyDue(c) THEN 1 ELSE 0
             call == IF CallDue THEN 1 ELSE 0
  <2>1. /\ c \in Cameras /\ link # "down" /\ UNCHANGED link
        /\ d.time = now /\ Camera[d.alert] = c
        /\ IF NtfyDue(c) THEN photos' = photos \cup {d} ELSE photos' = photos
        /\ IF CallDue THEN calls' = calls \cup {d} ELSE calls' = calls
    BY <1>0, <1>5, CallbackRecords DEF Dispatch
  <2>2. /\ total' = [total EXCEPT ![c] = @ + 1]
        /\ suppressed' = [suppressed EXCEPT ![c] = @ + Suppressions(c)]
    BY <1>5 DEF Callback
  <2>3. now \in Nat /\ lastCall \in Nat /\ lastNtfy[c] \in Nat
    <3>1. now \in Times /\ lastCall \in {0} \cup Times /\ lastNtfy[c] \in {0} \cup Times
      BY <1>0, <2>1 DEF TypeOK
    <3>2. \A t \in {0} \cup Times : t \in Nat
      BY Clock
    <3> QED
      BY <3>1, <3>2
  <2>4. NtfyDue(c) => d \notin photos
    BY <1>0, <2>1, <2>3, ServiceAssumption DEF NtfyDue, CooldownInv
  <2>5. CallDue => d \notin calls
    BY <1>0, <2>1, <2>3, ServiceAssumption DEF CallDue, CooldownInv
  <2>6. IsFiniteSet(photos) /\ IsFiniteSet(calls) /\ AlertsAccounted
    BY <1>0, <2>1 DEF CountInv
  <2>7. IsFiniteSet(photos') /\ IsFiniteSet(calls')
    BY <2>1, <2>6, FS_AddElement
  <2>8. Suppressions(c) = (1 - photo) + (IF EnableCalls THEN 1 - call ELSE 0)
    BY DEF Suppressions
  <2>9. ~EnableCalls => call = 0
    BY DEF CallDue
  <2>10. ASSUME NEW e \in Cameras
         PROVE  suppressed'[e] + Dispatched(photos, e)' + Dispatched(calls, e)' = total'[e] * K
    <3>1. /\ Dispatched(photos, e)' = Dispatched(photos', e)
          /\ Dispatched(calls, e)' = Dispatched(calls', e)
      BY <2>1 DEF Dispatched
    <3>2. /\ Dispatched(photos, e) \in Nat
          /\ Dispatched(photos', e) = Dispatched(photos, e) + (IF e = c THEN photo ELSE 0)
      <4>1. Dispatched(photos, e) \in Nat
        BY <2>6, FS_Subset, FS_CardinalityType DEF Dispatched
      <4> QED
        BY <2>1, <2>4, <2>6, <4>1, OneMore
    <3>3. /\ Dispatched(calls, e) \in Nat
          /\ Dispatched(calls', e) = Dispatched(calls, e) + (IF e = c THEN call ELSE 0)
      <4>1. Dispatched(calls, e) \in Nat
        BY <2>6, FS_Subset, FS_CardinalityType DEF Dispatched
      <4> QED
        BY <2>1, <2>5, <2>6, <4>1, OneMore
    <3>4. /\ suppressed[e] + Dispatched(photos, e) + Dispatched(calls, e) = total[e] * K
          /\ suppressed[e] \in Nat /\ total[e] \in Nat
      BY <1>0, <2>6 DEF AlertsAccounted, TypeOK
    <3>5. /\ total'[e] = total[e] + (IF e = c THEN 1 ELSE 0)
          /\ suppressed'[e] = suppressed[e] + (IF e = c THEN Suppressions(c) ELSE 0)
      BY <1>0, <2>1, <2>2 DEF TypeOK
    <3> HIDE DEF c
    <3>6. CASE e # c
      BY <3>1, <3>2, <3>3, <3>4, <3>5, <3>6
    <3>7. CASE e = c
      <4>1. photo \in {0, 1} /\ call \in {0, 1}
        OBVIOUS
      <4> HIDE DEF photo, call
      <4>2. CASE EnableCalls
        BY <2>8, <3>1, <3>2, <3>3, <3>4, <3>5, <3>7, <4>1, <4>2
      <4>3. CASE ~EnableCalls
        BY <2>8, <2>9, <3>1, <3>2, <3>3, <3>4, <3>5, <3>7, <4>1, <4>3
      <4> QED
        BY <4>2, <4>3
    <3> QED
      BY <3>6, <3>7
  <2> QED
    BY <2>7, <2>10 DEF CountInv, AlertsAccounted
<1> QED
  BY <1>1, <1>2, <1>3, <1>4, <1>5, Disturbances

-----------------------------------------------------------------------------
(* Notifications *)

LEMMA FreshStep == IInv /\ [Next]_vars => FreshInv'
<1> SUFFICES ASSUME IInv, [Next]_vars PROVE FreshInv'
  OBVIOUS
<1>0. TypeOK /\ PlaceInv /\ HeadInv /\ LifeInv /\ FreshInv
  BY DEF IInv
<1>a. /\ alertQueue \in Seq(Alerts) /\ prefetched \in Seq(Alerts) /\ published \in Nat
      /\ IsInjective(alertQueue) /\ IsInjective(prefetched)
      /\ Range(alertQueue) \subseteq Alerts /\ Range(prefetched) \subseteq Alerts
      /\ Alerts \subseteq Nat /\ \A d \in photos \cup calls : d.alert \in Alerts
  <2>1. \A d \in photos \cup calls : d.alert \in Alerts
    BY <1>0 DEF TypeOK, Dispatches
  <2>2. Alerts \subseteq Nat
    BY ServiceAssumption DEF Alerts
  <2>3. alertQueue \in Seq(Alerts) /\ prefetched \in Seq(Alerts) /\ published \in Nat
    BY <1>0, ServiceAssumption DEF TypeOK
  <2>4. Range(alertQueue) \subseteq Alerts /\ Range(prefetched) \subseteq Alerts
    BY <2>3, RangeOfSeq
  <2>5. IsInjective(alertQueue) /\ IsInjective(prefetched)
    BY <1>0 DEF PlaceInv
  <2> QED
    BY <2>1, <2>2, <2>3, <2>4, <2>5
<1>1. CASE Publish
  <2>1. published + 1 \in Alerts /\ published' = published + 1
    BY <1>a, <1>1, ServiceAssumption DEF Publish, Alerts
  <2>2. published + 1 \notin Range(alertQueue)
    BY <1>0, <1>a, <2>1 DEF PlaceInv, Ready
  <2>3. Ready' = Ready \cup {published + 1}
    BY <1>a, <1>1, <2>1, <2>2, AppendRange DEF Publish, Ready
  <2>4. UNCHANGED <<prefetched, evaluated, link, photos, calls>>
    BY <1>1 DEF Publish, history
  <2>5. \A n \in Nat : n <= published => n <= published' /\ n # published + 1
    BY <1>a, <2>1
  <2> QED
    BY <1>0, <1>a, <2>3, <2>4, <2>5 DEF FreshInv, Pending, Current
<1>2. CASE Deliver
  <2> DEFINE h == Head(alertQueue)
  <2>1. /\ h \in Ready /\ Ready' = Ready \ {h} /\ link = "up"
        /\ UNCHANGED <<published, link, evaluated, photos, calls>>
    BY <1>a, <1>2, TailRange DEF Deliver, Ready, history
  <2>2. h \in Alerts /\ h \notin Range(prefetched) /\ h <= published
    BY <1>0, <1>a, <2>1 DEF PlaceInv, Ready, Unacked
  <2>3. prefetched' = Append(prefetched, h) /\ Range(prefetched') = Range(prefetched) \cup {h}
    BY <1>a, <1>2, <2>2, AppendRange DEF Deliver
  <2>4. evaluated => Current' = Current
    <3>1. evaluated => prefetched # <<>>
      BY <1>0 DEF HeadInv
    <3> QED
      BY <1>a, <2>2, <2>3, <3>1, HeadTailAppend DEF Current
  <2> HIDE DEF h
  <2>5. Pending' \subseteq Pending \cup {h}
    BY <2>1, <2>3, <2>4 DEF Pending
  <2> QED
    BY <1>0, <2>1, <2>2, <2>3, <2>5 DEF FreshInv
<1>3. CASE Callback
  <2> DEFINE new == Dispatch(Current)
  <2>1. /\ prefetched # <<>> /\ ~evaluated /\ evaluated' /\ link # "down"
        /\ UNCHANGED <<published, alertQueue, prefetched, link>>
    BY <1>3 DEF Callback, brokerVars
  <2>2. Current \in Range(prefetched) /\ Current' = Current /\ Current <= published
    BY <1>0, <2>1, CurrentTyped DEF FreshInv, Current
  <2>3. photos' \subseteq photos \cup {new} /\ calls' \subseteq calls \cup {new} /\ new.alert = Current
    BY <1>0, <1>3, CallbackRecords DEF Dispatch
  <2>4. Pending' = Pending \ {Current}
    BY <2>1, <2>2 DEF Pending
  <2>5. link = "up" => Current \notin Ready
    BY <1>0, <2>2 DEF PlaceInv, Unacked
  <2> HIDE DEF new
  <2> QED
    BY <1>0, <2>1, <2>2, <2>3, <2>4, <2>5 DEF FreshInv, Ready
<1>4. CASE Ack
  <2>1. /\ prefetched # <<>> /\ evaluated /\ ~evaluated' /\ prefetched' = Tail(prefetched)
        /\ UNCHANGED <<published, alertQueue, link, photos, calls>>
    BY <1>0, <1>4 DEF Ack, HeadInv, history
  <2>2. Range(prefetched') = Range(prefetched) \ {Current}
    BY <1>a, <2>1, TailRange DEF Current
  <2>3. Pending' = Pending
    BY <2>1, <2>2 DEF Pending
  <2> QED
    BY <1>0, <2>1, <2>2, <2>3 DEF FreshInv, Ready
<1>5. CASE ConnectionLost \/ BrokerRestart
  <2>1. /\ link' # "up" /\ (link' = "down" <=> link = "down")
        /\ UNCHANGED <<published, prefetched, evaluated, photos, calls>>
    BY <1>5 DEF ConnectionLost, BrokerRestart, history
  <2> QED
    BY <1>0, <2>1 DEF FreshInv, Pending, Current
<1>6. CASE Ending
  <2>1. prefetched' = <<>> /\ photos' = {} /\ calls' = {}
    BY <1>0, <1>6, EndingExits DEF Exit
  <2>2. Range(<<>>) = {}
    BY DEF Range
  <2> QED
    BY <2>1, <2>2 DEF FreshInv
<1>7. CASE Start
  <2>1. photos' = {} /\ calls' = {} /\ prefetched' = <<>>
    BY <1>0, <1>7 DEF Start, history, LifeInv, HeadInv
  <2>2. Range(<<>>) = {}
    BY DEF Range
  <2> QED
    BY <2>1, <2>2 DEF FreshInv
<1>8. CASE UNCHANGED <<published, alertQueue, prefetched, evaluated, link, photos, calls>>
  BY <1>0, <1>8 DEF FreshInv, Pending, Current, Ready
<1>9. ASSUME Tick \/ Quiet \/ UNCHANGED vars \/ (\E a \in Alerts : Photo(a)) \/ (\E t \in callThreads : Call(t))
      PROVE  UNCHANGED <<published, alertQueue, prefetched, evaluated, link, photos, calls>>
  BY <1>9 DEF Tick, Quiet, vars, Photo, PhotoSent, PhotoFails, PhotoDropped, Call, PlaceCall, CallsDone,
       brokerVars, history
<1> QED
  BY <1>1, <1>2, <1>3, <1>4, <1>5, <1>6, <1>7, <1>8, <1>9 DEF Next, Consumer, Ending

\* What the callback hands to its threads.
LEMMA CallbackThreads ==
  ASSUME TypeOK, Callback
  PROVE  /\ \/ NtfyDue(Camera[Current]) /\ photoThreads' = photoThreads \cup {Current}
            \/ ~NtfyDue(Camera[Current]) /\ photoThreads' = photoThreads
         /\ \/ CallDue /\ callThreads' = callThreads \cup {[alert |-> Current, left |-> Recipients]}
            \/ ~CallDue /\ callThreads' = callThreads
         /\ UNCHANGED <<sent, errors>>
BY DEF Callback, DispatchPhoto, SkipPhoto, DispatchCall, SkipCall

\* The alert in the callback has no dispatch of this process yet.
LEMMA CurrentIsFresh ==
  ASSUME TypeOK, FreshInv, ThreadInv, Callback
  PROVE  /\ \A d \in photos \cup calls : d.alert # Current
         /\ Current \notin photoThreads
         /\ \A t \in callThreads : t.alert # Current
<1>1. Current \in Range(prefetched) /\ ~evaluated /\ link # "down"
  BY CurrentTyped DEF Callback
<1>2. Current \in Pending
  BY <1>1 DEF Pending
<1>3. \A d \in photos \cup calls : d.alert # Current
  BY <1>1, <1>2 DEF FreshInv
<1> QED
  BY <1>3 DEF ThreadInv

LEMMA ThreadStep == IInv /\ [Next]_vars => ThreadInv'
<1> SUFFICES ASSUME IInv, [Next]_vars PROVE ThreadInv'
  OBVIOUS
<1>0. TypeOK /\ FreshInv /\ ThreadInv
  BY DEF IInv
<1>1. CASE Callback
  <2> DEFINE new == Dispatch(Current)
             t == [alert |-> Current, left |-> Recipients]
  <2>1. new.alert = Current /\ t.alert = Current /\ link' # "down"
    BY <1>1 DEF Dispatch, Callback
  <2>2. \/ photoThreads' = photoThreads \cup {Current} /\ photos' = photos \cup {new}
        \/ photoThreads' = photoThreads /\ photos' = photos
    BY <1>0, <1>1, CallbackThreads, CallbackRecords
  <2>3. \/ callThreads' = callThreads \cup {t} /\ calls' = calls \cup {new}
        \/ callThreads' = callThreads /\ calls' = calls
    BY <1>0, <1>1, CallbackThreads, CallbackRecords
  <2>4. \A u \in callThreads : u.alert # Current
    BY <1>0, <1>1, CurrentIsFresh
  <2> HIDE DEF new, t
  <2>5. \A a \in photoThreads' : \E d \in photos' : d.alert = a
    BY <1>0, <2>1, <2>2 DEF ThreadInv
  <2>6. \A u \in callThreads' : \E d \in calls' : d.alert = u.alert
    BY <1>0, <2>1, <2>3 DEF ThreadInv
  <2>7. \A u, v \in callThreads' : u.alert = v.alert => u = v
    BY <1>0, <2>1, <2>3, <2>4 DEF ThreadInv
  <2> QED
    BY <2>1, <2>5, <2>6, <2>7 DEF ThreadInv
<1>2. ASSUME NEW a \in Alerts, Photo(a) PROVE ThreadInv'
  <2>1. /\ photoThreads' \subseteq photoThreads
        /\ UNCHANGED <<callThreads, photos, calls, link>> /\ link # "down"
    BY <1>0, <1>2 DEF Photo, PhotoSent, PhotoFails, PhotoDropped, history, ThreadInv
  <2> QED
    BY <1>0, <2>1 DEF ThreadInv
<1>3. ASSUME NEW t \in callThreads, Call(t) PROVE ThreadInv'
  <2> DEFINE u == [t EXCEPT !.left = @ - 1]
  <2>1. UNCHANGED <<photoThreads, photos, calls, link>> /\ link # "down"
    BY <1>0, <1>3 DEF Call, PlaceCall, CallsDone, history, ThreadInv
  <2>2. u.alert = t.alert
    BY <1>0 DEF TypeOK
  <2>3. callThreads' = (callThreads \ {t}) \cup {u} \/ callThreads' = callThreads \ {t}
    BY <1>3 DEF Call, PlaceCall, CallsDone
  <2> HIDE DEF u
  <2> QED
    BY <1>0, <2>1, <2>2, <2>3 DEF ThreadInv
<1>4. CASE Ending
  BY <1>0, <1>4, EndingExits DEF Exit, ThreadInv
<1>5. CASE Start
  <2>1. link = "down" /\ link' # "down" /\ UNCHANGED <<photoThreads, callThreads>>
    BY <1>5 DEF Start
  <2> QED
    BY <1>0, <2>1 DEF ThreadInv
<1>6. ASSUME Publish \/ Tick \/ ConnectionLost \/ BrokerRestart \/ Deliver \/ Ack \/ Quiet \/ UNCHANGED vars
      PROVE  /\ UNCHANGED <<photoThreads, callThreads, photos, calls, sent, errors>>
             /\ link' = "down" => link = "down"
  BY <1>6 DEF Publish, Tick, ConnectionLost, BrokerRestart, Deliver, Ack, Quiet, vars, counters, history
<1>7. ASSUME UNCHANGED <<photoThreads, callThreads, photos, calls, sent, errors>>, link' = "down" => link = "down"
      PROVE  ThreadInv'
  BY <1>0, <1>7 DEF ThreadInv
<1> QED
  BY <1>1, <1>2, <1>3, <1>4, <1>5, <1>6, <1>7 DEF Next, Consumer, Ending

Named == {p \in photos : p.alert \notin Unsendable}
InFlight == {a \in photoThreads : a \notin Unsendable}
CallsLeft == UNION {{t.alert} \X (1..t.left) : t \in callThreads}
CallsMade == calls

LEMMA NotifyFinite ==
  ASSUME TypeOK, CountInv
  PROVE  /\ IsFiniteSet(Named) /\ Cardinality(Named) \in Nat
         /\ IsFiniteSet(InFlight) /\ Cardinality(InFlight) \in Nat
         /\ IsFiniteSet(CallsLeft) /\ Cardinality(CallsLeft) \in Nat
         /\ IsFiniteSet(CallsMade) /\ Cardinality(CallsMade) \in Nat
<1>1. IsFiniteSet(Alerts) /\ IsFiniteSet(1..Recipients)
  <2>1. 1 \in Int /\ MaxAlerts \in Int /\ Recipients \in Int
    BY ServiceAssumption
  <2> QED
    BY <2>1, FS_Interval DEF Alerts
<1>2. IsFiniteSet(Named) /\ IsFiniteSet(CallsMade)
  BY FS_Subset DEF CountInv, Named, CallsMade
<1>3. IsFiniteSet(InFlight)
  <2>1. InFlight \subseteq Alerts
    BY DEF InFlight, TypeOK
  <2> QED
    BY <1>1, <2>1, FS_Subset
<1>4. IsFiniteSet(CallsLeft)
  <2> DEFINE P == Alerts \X (1..Recipients)
  <2>1. IsFiniteSet(P)
    BY <1>1, FS_Product
  <2>2. ASSUME NEW t \in callThreads PROVE {t.alert} \X (1..t.left) \subseteq P
    BY ServiceAssumption DEF TypeOK
  <2>3. CallsLeft \subseteq P
    BY <2>2 DEF CallsLeft
  <2> HIDE DEF P
  <2> QED
    BY <2>1, <2>3, FS_Subset
<1> QED
  BY <1>2, <1>3, <1>4, FS_CardinalityType

LEMMA NextMultiple == ASSUME NEW r \in Nat, NEW n \in Nat
                      PROVE  r * n \in Nat /\ r * (n + 1) = r * n + r
OBVIOUS

LEMMA NotifyStep == IInv /\ [Next]_vars => NotifyInv'
<1> SUFFICES ASSUME IInv, [Next]_vars, link' # "down"
             PROVE  sent' + errors' + Cardinality(InFlight') + Cardinality(CallsLeft')
                      = Cardinality(Named') + Recipients * Cardinality(CallsMade')
  BY DEF NotifyInv, NotificationsAccounted, InFlight, CallsLeft, Named, CallsMade
<1> DEFINE Goal == sent' + errors' + Cardinality(InFlight') + Cardinality(CallsLeft')
                     = Cardinality(Named') + Recipients * Cardinality(CallsMade')
<1>0. /\ TypeOK /\ CountInv /\ FreshInv /\ ThreadInv /\ LifeInv
      /\ sent \in Nat /\ errors \in Nat /\ Recipients \in Nat
  BY ServiceAssumption DEF IInv, TypeOK
<1>a. /\ IsFiniteSet(Named) /\ Cardinality(Named) \in Nat
      /\ IsFiniteSet(InFlight) /\ Cardinality(InFlight) \in Nat
      /\ IsFiniteSet(CallsLeft) /\ Cardinality(CallsLeft) \in Nat
      /\ IsFiniteSet(CallsMade) /\ Cardinality(CallsMade) \in Nat
  BY <1>0, NotifyFinite
<1>b. link # "down" => sent + errors + Cardinality(InFlight) + Cardinality(CallsLeft)
                         = Cardinality(Named) + Recipients * Cardinality(CallsMade)
  BY DEF IInv, NotifyInv, NotificationsAccounted, InFlight, CallsLeft, Named, CallsMade
<1>1. CASE Callback
  <2> DEFINE new == Dispatch(Current)
             t == [alert |-> Current, left |-> Recipients]
             own == {Current} \X (1..Recipients)
  <2>1. new.alert = Current /\ t.alert = Current /\ t.left = Recipients
        /\ link # "down" /\ UNCHANGED <<sent, errors>>
    BY <1>1 DEF Dispatch, Callback
  <2>2. \/ photoThreads' = photoThreads \cup {Current} /\ photos' = photos \cup {new}
        \/ photoThreads' = photoThreads /\ photos' = photos
    BY <1>0, <1>1, CallbackThreads, CallbackRecords
  <2>3. \/ callThreads' = callThreads \cup {t} /\ calls' = calls \cup {new}
        \/ callThreads' = callThreads /\ calls' = calls
    BY <1>0, <1>1, CallbackThreads, CallbackRecords
  <2>4. /\ \A d \in photos \cup calls : d.alert # Current
        /\ Current \notin photoThreads /\ \A u \in callThreads : u.alert # Current
    BY <1>0, <1>1, CurrentIsFresh
  <2>5. IsFiniteSet(own) /\ Cardinality(own) = Recipients
    <3>1. IsFiniteSet({Current}) /\ Cardinality({Current}) = 1
      BY FS_Singleton
    <3>2. IsFiniteSet(1..Recipients) /\ Cardinality(1..Recipients) = Recipients
      <4>1. 1 \in Int /\ Recipients \in Int
        BY <1>0
      <4>2. /\ IsFiniteSet(1..Recipients)
            /\ Cardinality(1..Recipients) = IF 1 > Recipients THEN 0 ELSE Recipients - 1 + 1
        BY <4>1, FS_Interval
      <4> QED
        BY <1>0, <4>2
    <3>3. IsFiniteSet(own) /\ Cardinality(own) = Cardinality({Current}) * Cardinality(1..Recipients)
      BY <3>1, <3>2, FS_Product
    <3> QED
      BY <1>0, <3>1, <3>2, <3>3
  <2> HIDE DEF new, t
  <2>6. Cardinality(Named') - Cardinality(Named) = Cardinality(InFlight') - Cardinality(InFlight)
        /\ Cardinality(Named') \in Nat /\ Cardinality(InFlight') \in Nat
    <3>1. CASE photoThreads' = photoThreads /\ photos' = photos
      <4>1. Named' = Named /\ InFlight' = InFlight
        BY <2>1, <3>1 DEF Named, InFlight
      <4> QED
        BY <1>a, <4>1
    <3>2. CASE /\ photoThreads' = photoThreads \cup {Current} /\ photos' = photos \cup {new}
               /\ Current \in Unsendable
      <4>1. Named' = Named /\ InFlight' = InFlight
        BY <2>1, <3>2 DEF Named, InFlight
      <4> QED
        BY <1>a, <4>1
    <3>3. CASE /\ photoThreads' = photoThreads \cup {Current} /\ photos' = photos \cup {new}
               /\ Current \notin Unsendable
      <4>1. Named' = Named \cup {new} /\ InFlight' = InFlight \cup {Current}
        BY <2>1, <3>3 DEF Named, InFlight
      <4>2. new \notin Named /\ Current \notin InFlight
        BY <2>1, <2>4 DEF Named, InFlight
      <4>3. Cardinality(Named \cup {new}) = Cardinality(Named) + 1
        BY <1>a, <4>2, FS_AddElement
      <4>4. Cardinality(InFlight \cup {Current}) = Cardinality(InFlight) + 1
        BY <1>a, <4>2, FS_AddElement
      <4> QED
        BY <1>a, <4>1, <4>3, <4>4
    <3> QED
      BY <2>2, <3>1, <3>2, <3>3
  <2>7. CASE callThreads' = callThreads /\ calls' = calls
    <3>1. CallsLeft' = CallsLeft /\ CallsMade' = CallsMade
      BY <2>1, <2>7 DEF CallsLeft, CallsMade
    <3> DEFINE made == Recipients * Cardinality(CallsMade)
    <3>2. made \in Nat /\ Recipients * Cardinality(CallsMade') = made
      BY <1>0, <1>a, <3>1
    <3>3. sent + errors + Cardinality(InFlight) + Cardinality(CallsLeft) = Cardinality(Named) + made
      BY <1>b, <2>1
    <3> HIDE DEF made
    <3>4. sent + errors + Cardinality(InFlight') + Cardinality(CallsLeft) = Cardinality(Named') + made
      BY <1>0, <1>a, <2>6, <3>2, <3>3
    <3> QED
      BY <2>1, <3>1, <3>2, <3>4
  <2>8. CASE callThreads' = callThreads \cup {t} /\ calls' = calls \cup {new}
    <3>1. CallsLeft' = CallsLeft \cup own
      BY <2>1, <2>8 DEF CallsLeft
    <3>2. CallsLeft \cap own = {}
      BY <2>4 DEF CallsLeft
    <3>3. CallsMade' = CallsMade \cup {new} /\ new \notin CallsMade
      BY <2>1, <2>4, <2>8 DEF CallsMade
    <3> HIDE DEF own
    <3>4. Cardinality(CallsLeft') = Cardinality(CallsLeft) + Recipients
      <4>1. Cardinality(CallsLeft \cup own)
              = Cardinality(CallsLeft) + Cardinality(own) - Cardinality(CallsLeft \cap own)
        BY <1>a, <2>5, FS_Union
      <4>2. Cardinality(CallsLeft \cap own) = 0
        BY <3>2, FS_EmptySet
      <4> QED
        BY <1>0, <1>a, <2>5, <3>1, <4>1, <4>2
    <3>5. Cardinality(CallsMade') = Cardinality(CallsMade) + 1
      BY <1>a, <3>3, FS_AddElement
    <3> DEFINE made == Recipients * Cardinality(CallsMade)
    <3>6. made \in Nat /\ Recipients * Cardinality(CallsMade') = made + Recipients
      BY <1>a, <3>5, ServiceAssumption, NextMultiple
    <3>7. sent + errors + Cardinality(InFlight) + Cardinality(CallsLeft) = Cardinality(Named) + made
      BY <1>b, <2>1
    <3> HIDE DEF made
    <3>8. sent + errors + Cardinality(InFlight') + (Cardinality(CallsLeft) + Recipients)
            = Cardinality(Named') + (made + Recipients)
      <4>1. PICK x \in Nat : x = sent + errors
        BY <1>0
      <4>2. PICK i \in Nat, j \in Nat : i = Cardinality(InFlight) /\ j = Cardinality(InFlight')
        BY <1>a, <2>6
      <4>3. PICK n \in Nat, m \in Nat : n = Cardinality(Named) /\ m = Cardinality(Named') /\ m - n = j - i
        BY <1>a, <2>6, <4>2
      <4>4. PICK c \in Nat, r \in Nat, z \in Nat : c = Cardinality(CallsLeft) /\ r = Recipients /\ z = made
        BY <1>0, <1>a, <3>6
      <4>5. x + i + c = n + z
        BY <3>7, <4>1, <4>2, <4>3, <4>4
      <4>6. x + j + (c + r) = m + (z + r)
        BY <4>3, <4>5
      <4> QED
        BY <4>1, <4>2, <4>3, <4>4, <4>6
    <3> QED
      BY <2>1, <3>4, <3>6, <3>8
  <2> QED
    BY <2>3, <2>7, <2>8
<1>2. ASSUME NEW a \in Alerts, Photo(a) PROVE Goal
  <2>1. /\ a \in photoThreads /\ link # "down" /\ photoThreads' = photoThreads \ {a}
        /\ UNCHANGED <<callThreads, photos, calls>>
    BY <1>0, <1>2 DEF Photo, PhotoSent, PhotoFails, PhotoDropped, history, ThreadInv
  <2>2. Named' = Named /\ CallsLeft' = CallsLeft /\ CallsMade' = CallsMade /\ InFlight' = InFlight \ {a}
    BY <2>1 DEF Named, CallsLeft, CallsMade, InFlight
  <2>3. CASE a \in Unsendable
    <3>1. a \notin InFlight /\ UNCHANGED <<sent, errors>>
      BY <1>2, <2>3 DEF InFlight, Photo, PhotoSent, PhotoFails, PhotoDropped, counters
    <3>2. InFlight' = InFlight
      BY <2>2, <3>1
    <3> QED
      BY <1>b, <2>1, <2>2, <3>1, <3>2
  <2>4. CASE a \notin Unsendable
    <3>1. a \in InFlight /\ sent' + errors' = sent + errors + 1 /\ sent' \in Nat /\ errors' \in Nat
      BY <1>0, <1>2, <2>1, <2>4 DEF InFlight, Photo, PhotoSent, PhotoFails, PhotoDropped
    <3>2. Cardinality(InFlight \ {a}) = Cardinality(InFlight) - 1
      BY <1>a, <3>1, FS_RemoveElement
    <3>3. sent' + errors' + Cardinality(InFlight') + Cardinality(CallsLeft)
            = sent + errors + Cardinality(InFlight) + Cardinality(CallsLeft)
      <4>0. sent + errors \in Nat /\ sent' + errors' = (sent + errors) + 1
        <5>1. sent \in Nat /\ errors \in Nat
          BY <1>0
        <5>2. sent + errors \in Nat
          BY <5>1
        <5>3. sent' + errors' = sent + errors + 1
          BY <3>1
        <5> QED
          BY <5>2, <5>3
      <4>1. PICK x \in Nat : x = sent + errors /\ sent' + errors' = x + 1
        BY <4>0
      <4>2. PICK n \in Nat : n = Cardinality(InFlight) /\ Cardinality(InFlight') = n - 1
        BY <1>a, <2>2, <3>2
      <4> QED
        BY <1>a, <4>1, <4>2
    <3> QED
      BY <1>b, <2>1, <2>2, <3>3
  <2> QED
    BY <2>3, <2>4
<1>3. ASSUME NEW t \in callThreads, Call(t) PROVE Goal
  <2> DEFINE u == [t EXCEPT !.left = @ - 1]
  <2>1. UNCHANGED <<photoThreads, photos, calls>> /\ link # "down"
    BY <1>0, <1>3 DEF Call, PlaceCall, CallsDone, history, ThreadInv
  <2>2. Named' = Named /\ CallsMade' = CallsMade /\ InFlight' = InFlight
    BY <2>1 DEF Named, CallsMade, InFlight
  <2>3. t \in [alert : Alerts, left : 0..Recipients] /\ t.left \in Nat
    BY <1>0 DEF TypeOK
  <2>4. CASE CallsDone(t)
    <3>1. t.left = 0 /\ callThreads' = callThreads \ {t} /\ UNCHANGED <<sent, errors>>
      BY <2>4 DEF CallsDone, counters
    <3>2. {t.alert} \X (1..t.left) = {}
      BY <3>1
    <3>3. CallsLeft' = CallsLeft
      BY <3>1, <3>2 DEF CallsLeft
    <3> QED
      BY <1>b, <2>1, <2>2, <3>1, <3>3
  <2>5. CASE PlaceCall(t)
    <3>1. /\ t.left > 0 /\ callThreads' = (callThreads \ {t}) \cup {u}
          /\ sent' + errors' = sent + errors + 1 /\ sent' \in Nat /\ errors' \in Nat
      BY <1>0, <2>5 DEF PlaceCall
    <3>2. u.alert = t.alert /\ u.left = t.left - 1
      BY <2>3
    <3> HIDE DEF u
    <3>3. {u.alert} \X (1..u.left) = ({t.alert} \X (1..t.left)) \ {<<t.alert, t.left>>}
      BY <2>3, <3>1, <3>2
    <3>4. \A v \in callThreads : v # t => <<t.alert, t.left>> \notin {v.alert} \X (1..v.left)
      BY <1>0 DEF ThreadInv
    <3>5. CallsLeft' = CallsLeft \ {<<t.alert, t.left>>}
      BY <3>1, <3>3, <3>4 DEF CallsLeft
    <3>6. <<t.alert, t.left>> \in CallsLeft
      BY <2>3, <3>1 DEF CallsLeft
    <3>7. Cardinality(CallsLeft \ {<<t.alert, t.left>>}) = Cardinality(CallsLeft) - 1
      BY <1>a, <3>6, FS_RemoveElement
    <3>8. sent' + errors' + Cardinality(InFlight) + Cardinality(CallsLeft')
            = sent + errors + Cardinality(InFlight) + Cardinality(CallsLeft)
      <4>1. sent + errors \in Nat
        <5>1. sent \in Nat /\ errors \in Nat
          BY <1>0
        <5> QED
          BY <5>1
      <4>2. PICK x \in Nat : x = sent + errors /\ sent' + errors' = x + 1
        BY <3>1, <4>1
      <4>3. PICK n \in Nat : n = Cardinality(CallsLeft) /\ Cardinality(CallsLeft') = n - 1
        BY <1>a, <3>5, <3>7
      <4>4. PICK i \in Nat : i = Cardinality(InFlight)
        BY <1>a
      <4> QED
        BY <4>2, <4>3, <4>4
    <3> QED
      BY <1>b, <2>1, <2>2, <3>8
  <2> QED
    BY <1>3, <2>4, <2>5 DEF Call
<1>4. CASE Start
  <2>1. /\ link = "down" /\ photos' = {} /\ calls' = {}
        /\ UNCHANGED <<photoThreads, callThreads, sent, errors>>
    BY <1>0, <1>4 DEF Start, counters, history, LifeInv
  <2>2. photoThreads = {} /\ callThreads = {} /\ sent = 0 /\ errors = 0
    BY <1>0, <2>1 DEF ThreadInv
  <2>3. Named' = {} /\ CallsMade' = {} /\ InFlight' = {} /\ CallsLeft' = {}
    BY <2>1, <2>2 DEF Named, CallsMade, InFlight, CallsLeft
  <2>4. Cardinality({}) = 0
    BY FS_EmptySet
  <2> QED
    BY <1>0, <2>1, <2>2, <2>3, <2>4
<1>5. CASE Ending
  BY <1>0, <1>5, EndingExits DEF Exit
<1>6. ASSUME Publish \/ Tick \/ ConnectionLost \/ BrokerRestart \/ Deliver \/ Ack \/ Quiet \/ UNCHANGED vars
      PROVE  /\ UNCHANGED <<photoThreads, callThreads, photos, calls, sent, errors>>
             /\ link # "down"  \/ link' = "down"
  BY <1>6 DEF Publish, Tick, ConnectionLost, BrokerRestart, Deliver, Ack, Quiet, vars, counters, history
<1>7. ASSUME UNCHANGED <<photoThreads, callThreads, photos, calls, sent, errors>>, link # "down" \/ link' = "down"
      PROVE  Goal
  BY <1>b, <1>7 DEF Named, CallsMade, InFlight, CallsLeft
<1> QED
  BY <1>1, <1>2, <1>3, <1>4, <1>5, <1>6, <1>7 DEF Next, Consumer, Ending

-----------------------------------------------------------------------------
(* The invariant *)

LEMMA InvInit == Init => IInv
<1> SUFFICES ASSUME Init PROVE IInv
  OBVIOUS
<1>1. TypeOK
  BY TypeInit
<1>2. IsInjective(<<>>) /\ Range(<<>>) = {}
  BY DEF IsInjective, Range
<1>3. PlaceInv
  BY <1>2, ServiceAssumption DEF Init, PlaceInv, Ready, Unacked, Alerts
<1>4. OrderInv /\ HeadInv /\ LifeInv /\ AckedWereEvaluated /\ RaisingBlocks
  BY <1>2 DEF Init, OrderInv, Increasing, Ready, HeadInv, LifeInv, AckedWereEvaluated, RaisingBlocks
<1>5. CooldownInv /\ CooldownsHold
  BY DEF Init, CooldownInv, CooldownsHold, PhotoSpacing, SuppressionJustified, CallSpacing,
         CallsJustified, NoCount
<1>6. CountInv
  BY FS_EmptySet DEF Init, CountInv
<1>7. FreshInv /\ ThreadInv /\ NotifyInv
  BY <1>2 DEF Init, FreshInv, ThreadInv, NotifyInv
<1> QED
  BY <1>1, <1>3, <1>4, <1>5, <1>6, <1>7 DEF IInv

LEMMA Invariant == Spec => []IInv
<1>1. IInv /\ [Next]_vars => IInv'
  BY TypeStep, PlacesStep, OrderStep, BlockStep, HeadStep, LifeStep, CooldownStep, CountStep, FreshStep, ThreadStep,
     NotifyStep DEF IInv
<1> QED
  BY <1>1, InvInit, PTL DEF Spec

\* An alert that is in one of four disjoint places, at most once in each, is in one place.
LEMMA OnePlaceFromInv == TypeOK /\ PlaceInv => AlertsInOnePlace
<1> SUFFICES ASSUME TypeOK, PlaceInv, NEW a \in 1..published
             PROVE  LET places == {<<"ready", i>> : i \in {i \in DOMAIN alertQueue : alertQueue[i] = a}}
                          \cup {<<"unacked", i>> : i \in {i \in DOMAIN prefetched : link = "up" /\ prefetched[i] = a}}
                          \cup (IF a \in acked THEN {<<"acked", 0>>} ELSE {})
                          \cup (IF a \in brokerLost THEN {<<"lost", 0>>} ELSE {})
                    IN  Cardinality(places) = 1
  BY DEF AlertsInOnePlace
<1> DEFINE R == {<<"ready", i>> : i \in {i \in DOMAIN alertQueue : alertQueue[i] = a}}
           U == {<<"unacked", i>> : i \in {i \in DOMAIN prefetched : link = "up" /\ prefetched[i] = a}}
           A == IF a \in acked THEN {<<"acked", 0>>} ELSE {}
           L == IF a \in brokerLost THEN {<<"lost", 0>>} ELSE {}
<1>1. a \in Alerts /\ a <= published
  BY ServiceAssumption DEF TypeOK, Alerts
<1>2. /\ a \in Ready <=> \E i \in DOMAIN alertQueue : alertQueue[i] = a
      /\ a \in Unacked <=> link = "up" /\ \E i \in DOMAIN prefetched : prefetched[i] = a
  BY DEF Ready, Unacked, Range
<1>3. /\ a \notin Ready => R = {}
      /\ a \notin Unacked => U = {}
      /\ a \notin acked => A = {}
      /\ a \notin brokerLost => L = {}
  BY <1>2
<1>4. CASE a \in Ready
  <2>1. PICK i \in DOMAIN alertQueue : alertQueue[i] = a
    BY <1>2, <1>4
  <2>2. R = {<<"ready", i>>}
    BY <2>1 DEF PlaceInv, IsInjective
  <2>3. U = {} /\ A = {} /\ L = {}
    BY <1>3, <1>4 DEF PlaceInv
  <2>4. R \cup U \cup A \cup L = {<<"ready", i>>}
    BY <2>2, <2>3
  <2> QED
    BY <2>4, FS_Singleton
<1>5. CASE a \in Unacked
  <2>1. PICK i \in DOMAIN prefetched : prefetched[i] = a
    BY <1>2, <1>5
  <2>2. U = {<<"unacked", i>>}
    BY <1>2, <1>5, <2>1 DEF PlaceInv, IsInjective
  <2>3. R = {} /\ A = {} /\ L = {}
    BY <1>3, <1>5 DEF PlaceInv
  <2>4. R \cup U \cup A \cup L = {<<"unacked", i>>}
    BY <2>2, <2>3
  <2> QED
    BY <2>4, FS_Singleton
<1>6. CASE a \in acked
  <2>1. R \cup U \cup A \cup L = {<<"acked", 0>>}
    BY <1>3, <1>6 DEF PlaceInv
  <2> QED
    BY <2>1, FS_Singleton
<1>7. CASE a \in brokerLost
  <2>1. R \cup U \cup A \cup L = {<<"lost", 0>>}
    BY <1>3, <1>7 DEF PlaceInv
  <2> QED
    BY <2>1, FS_Singleton
<1> QED
  BY <1>1, <1>4, <1>5, <1>6, <1>7 DEF PlaceInv

-----------------------------------------------------------------------------
(* Theorems *)

\* Every variable keeps its type: the consumer never holds more than its prefetch.
THEOREM TypeCorrect == Spec => []TypeOK
BY Invariant, PTL DEF IInv

\* Within a process, the photos of a camera and the calls of all cameras are more than
\* their cooldowns apart, and a photo or a call is only held back by an earlier one
\* within the cooldown: of the same camera for a photo, of any for a call.
THEOREM CooldownsAreKept == Spec => []CooldownsHold
BY Invariant, PTL DEF IInv

\* Faults and callbacks that raise neither lose nor copy an alert, only evaluated
\* alerts are acknowledged, and none gets past one on which the callback raises.
THEOREM AlertsConserved == Spec => []AlertConservation
<1>1. IInv => AlertConservation
  BY OnePlaceFromInv DEF IInv, AlertConservation
<1> QED
  BY <1>1, Invariant, PTL

\* While the service runs its counters add up: each channel has dispatched or counted
\* a suppression for every alert counted by camera, and what it dispatched is sent,
\* failed, or still with its thread.
THEOREM CountersAreExact == Spec => []CountersAddUp
<1>1. IInv => CountersAddUp
  BY DEF IInv, CountInv, NotifyInv, CountersAddUp
<1> QED
  BY <1>1, Invariant, PTL

=============================================================================
