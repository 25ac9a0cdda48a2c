------------------------- MODULE AlertWebhookProofs -------------------------
(***************************************************************************)
(* Safety of AlertWebhook for every size of the group, set of threads and   *)
(* number of faults.  The last word is safe because, as long as nobody has  *)
(* given up waiting, only the thread that Alertmanager waits for is at work *)
(* (OnlyAwaited), and it has the version that ntfy is being told            *)
(* (VersionInv).  The deliveries add up because a thread that has passed an *)
(* alert has pushed it (ReachedInv), every push is one of a thread that was *)
(* ahead (OrderInv), a version is posted again only for a fault or a        *)
(* repetition (FirstInv), and the resolved group not before it is           *)
(* (UnresolvedInv).                                                         *)
(***************************************************************************)
EXTENDS AlertWebhook, FiniteSetTheorems, TLAPS

OnlyAwaited == ~abandoned => \A t \in Threads : thread[t] # 0 => awaited = {t}

VersionInv ==
  /\ \A t \in Threads : posted[t] <= version
  /\ \A a \in Batch : pushes[2][a] > 0 => version = 2
  /\ ~abandoned => \A t \in Threads, a \in Batch :
                     thread[t] # 0 /\ pushes[2][a] > 0 => posted[t] = 2

\* The threads with version v that have passed alert a, and have yet to push some
\* alert up to b.
Ahead(v, a, b) == {t \in Threads : posted[t] = v /\ a < thread[t] /\ thread[t] <= b}

\* Of an alert there are as many pushes as of a later one, and one for each thread on
\* its way between them.
OrderInv == \A v \in Versions, a, b \in Batch :
  a < b => pushes[v][b] + Cardinality(Ahead(v, a, b)) <= pushes[v][a]

\* A version is posted once, and again only for a fault or a repetition: pushed already, at the
\* beginning of a thread, or about to be posted.
Due(v) == IF v = version /\ manager = "post" THEN 1 ELSE 0

FirstInv == \A v \in Versions :
  pushes[v][1] + Cardinality(Ahead(v, 0, 1)) + Due(v) <= 1 + faults + Repeated(v)

\* Nothing of the resolved group is known while its firing version is awaited.
UnresolvedInv == version = 1 \/ (\E t \in awaited : posted[t] = 1) =>
  (\A a \in Batch : pushes[2][a] = 0) /\ (\A t \in Threads : posted[t] = 1)

\* A thread has pushed what it has passed.
ReachedInv == \A t \in Threads, a \in Batch : a < thread[t] => pushes[posted[t]][a] > 0

KindInv == kind # "valid" => taken = 0 /\ \A t \in Threads : thread[t] = 0

CountInv == counted <= taken /\ taken <= counted + faults

NotifiedInv == manager = "notified" => \A a \in Batch : pushes[version][a] > 0

BatchInv == OrderInv /\ FirstInv /\ UnresolvedInv /\ ReachedInv /\ KindInv /\ CountInv /\ NotifiedInv

-----------------------------------------------------------------------------
LEMMA TypeInit == Init => TypeOK
<1> SUFFICES ASSUME Init PROVE TypeOK
  OBVIOUS
<1>1. 1 \in Versions /\ 0 \in 0..(Alerts + 1) /\ 0 \in 0..MaxFaults
  BY WebhookAssumption DEF Versions
<1>2. thread \in [Threads -> 0..(Alerts + 1)] /\ posted \in [Threads -> Versions]
  BY <1>1 DEF Init
<1>3. [a \in Batch |-> 0] \in [Batch -> Nat]
  OBVIOUS
<1>4. pushes \in [Versions -> [Batch -> Nat]] /\ lastWord \in [Batch -> {0} \cup Versions]
  BY <1>3 DEF Init
<1>5. version \in Versions /\ faults \in 0..MaxFaults /\ repeats \in 0..MaxRepeats
  BY <1>1, WebhookAssumption DEF Init
<1> QED
  BY <1>2, <1>4, <1>5 DEF Init, TypeOK

\* What a push does to what ntfy has seen.
LEMMA PushType ==
  ASSUME TypeOK, NEW t \in Threads, thread[t] \in Batch, Push(t)
  PROVE  /\ pushes' \in [Versions -> [Batch -> Nat]]
         /\ lastWord' \in [Batch -> {0} \cup Versions]
         /\ taken' \in Nat
<1>1. posted[t] \in Versions
  BY DEF TypeOK
<1>2. pushes[posted[t]] \in [Batch -> Nat] /\ pushes[posted[t]][thread[t]] + 1 \in Nat
  BY <1>1 DEF TypeOK
<1>3. [pushes[posted[t]] EXCEPT ![thread[t]] = @ + 1] \in [Batch -> Nat]
  BY <1>2
<1>4. pushes' = [pushes EXCEPT ![posted[t]] = [pushes[posted[t]] EXCEPT ![thread[t]] = @ + 1]]
  BY DEF Push
<1> QED
  BY <1>1, <1>3, <1>4 DEF Push, TypeOK

LEMMA EndsType ==
  ASSUME TypeOK, NEW t \in Threads, NEW status \in {200, 500}, Ends(t, status)
  PROVE  /\ thread' \in [Threads -> 0..(Alerts + 1)]
         /\ posted' \in [Threads -> Versions]
         /\ version' = version /\ version' \in Versions
         /\ manager' \in {"post", "wait", "notified", "gaveUp"}
         /\ awaited' \subseteq Threads
         /\ manager' = "wait" <=> awaited' # {}
<1>1. thread' \in [Threads -> 0..(Alerts + 1)] /\ posted' \in [Threads -> Versions]
  BY WebhookAssumption DEF TypeOK, Ends, Versions
<1>2. CASE t \in awaited
  BY <1>1, <1>2 DEF TypeOK, Ends, Answered
<1>3. CASE t \notin awaited
  BY <1>1, <1>3 DEF TypeOK, Ends, managerVars
<1> QED
  BY <1>2, <1>3

LEMMA TypeStep == TypeOK /\ [Next]_vars => TypeOK'
<1> SUFFICES ASSUME TypeOK, [Next]_vars PROVE TypeOK'
  OBVIOUS
<1> USE WebhookAssumption DEF managerVars, threadVars, pushVars
<1>1. ASSUME NEW t \in Threads, Accept(t) PROVE TypeOK'
  BY <1>1 DEF Accept, TypeOK, Versions
<1>2. CASE Refuse
  BY <1>2 DEF Refuse, Answered, TypeOK, Kinds
<1>3. ASSUME NEW t \in Threads, Forward(t) PROVE TypeOK'
  <2>1. /\ pushes' \in [Versions -> [Batch -> Nat]]
        /\ lastWord' \in [Batch -> {0} \cup Versions]
        /\ taken' \in Nat
    BY <1>3, PushType DEF Forward
  <2>2. thread' \in [Threads -> 0..(Alerts + 1)]
    BY <1>3 DEF Forward, TypeOK, Batch
  <2> QED
    BY <1>3, <2>1, <2>2 DEF Forward, TypeOK
<1>4. ASSUME NEW t \in Threads, ForwardFails(t) PROVE TypeOK'
  <2>1. /\ pushes' \in [Versions -> [Batch -> Nat]]
        /\ lastWord' \in [Batch -> {0} \cup Versions]
        /\ taken' \in Nat
    BY <1>4, PushType DEF ForwardFails, TypeOK
  <2>2. faults' \in 0..MaxFaults
    BY <1>4 DEF ForwardFails, Fault, TypeOK
  <2>3. Ends(t, 500)
    BY <1>4 DEF ForwardFails
  <2> QED
    BY <1>4, <2>1, <2>2, <2>3, EndsType DEF ForwardFails, TypeOK
<1>5. ASSUME NEW t \in Threads, Done(t) PROVE TypeOK'
  BY <1>5, EndsType DEF Done, TypeOK
<1>6. CASE Resolve
  BY <1>6 DEF Resolve, TypeOK, Versions
<1>7. CASE GiveUpWaiting
  BY <1>7 DEF GiveUpWaiting, Fault, TypeOK
<1>8. CASE Crash
  BY <1>8 DEF Crash, Fault, TypeOK, Versions
<1>9. CASE Repeat
  BY <1>9 DEF Repeat, TypeOK
<1>10. CASE UNCHANGED vars
  BY <1>10 DEF vars, TypeOK
<1> QED
  BY <1>1, <1>2, <1>3, <1>4, <1>5, <1>6, <1>7, <1>8, <1>9, <1>10 DEF Next, Manager, Thread, Quiet

-----------------------------------------------------------------------------
\* What Ends leaves alone: it only ever stops a thread.
LEMMA EndsOnlyStops ==
  ASSUME TypeOK, NEW t \in Threads, NEW status, Ends(t, status)
  PROVE  /\ \A u \in Threads : thread'[u] # 0 => u # t /\ thread[u] # 0 /\ posted'[u] = posted[u]
         /\ \A u \in Threads : posted'[u] \in {1, posted[u]}
         /\ version' = version
         /\ t \notin awaited => awaited' = awaited
BY DEF TypeOK, Ends, Answered, managerVars

LEMMA LastWordStep ==
  ASSUME TypeOK, OnlyAwaited, VersionInv, ResolvedIsLastWord, [Next]_vars
  PROVE  (OnlyAwaited /\ VersionInv /\ ResolvedIsLastWord)'
<1> USE DEF managerVars, threadVars, pushVars
<1>t. /\ version \in 1..2 /\ \A t \in Threads : posted[t] \in 1..2
      /\ \A a \in Batch : pushes[2][a] \in Nat
  BY DEF TypeOK, Versions
<1>1. ASSUME NEW t \in Threads, Accept(t) PROVE (OnlyAwaited /\ VersionInv /\ ResolvedIsLastWord)'
  <2>1. ~abandoned => \A u \in Threads : thread[u] = 0
    BY <1>1 DEF Accept, OnlyAwaited, TypeOK
  <2>2. \A u \in Threads : /\ thread'[u] = IF u = t THEN 1 ELSE thread[u]
                           /\ posted'[u] = IF u = t THEN version ELSE posted[u]
    BY <1>1 DEF Accept, TypeOK
  <2>3. OnlyAwaited'
    BY <1>1, <2>1, <2>2 DEF Accept, OnlyAwaited
  <2>4. VersionInv'
    BY <1>1, <1>t, <2>1, <2>2 DEF Accept, VersionInv
  <2> QED
    BY <1>1, <2>3, <2>4 DEF Accept, ResolvedIsLastWord
<1>2. CASE Refuse
  <2>1. ~abandoned => \A u \in Threads : thread[u] = 0
    BY <1>2 DEF Refuse, OnlyAwaited, TypeOK
  <2> QED
    BY <1>2, <2>1 DEF Refuse, Answered, OnlyAwaited, VersionInv, ResolvedIsLastWord
<1>p. ASSUME NEW t \in Threads, thread[t] \in Batch, Push(t), abandoned' = abandoned
      PROVE  /\ ResolvedIsLastWord'
             /\ \A a \in Batch : pushes'[2][a] > 0 => pushes[2][a] > 0 \/ posted[t] = 2
  <2> DEFINE v == posted[t]
  <2>1. v \in {1, 2} /\ 2 \in Versions
    BY DEF TypeOK, Versions
  <2>2. \A a \in Batch : lastWord'[a] = IF a = thread[t] THEN v ELSE lastWord[a]
    BY <1>p DEF Push, TypeOK
  <2>3. CASE v = 2
    <3>1. \A a \in Batch : a # thread[t] => pushes'[2][a] = pushes[2][a]
      BY <1>p, <2>1, <2>3 DEF Push, TypeOK
    <3> QED
      BY <1>p, <2>2, <2>3, <3>1 DEF ResolvedIsLastWord
  <2>4. CASE v = 1
    <3>1. pushes'[2] = pushes[2]
      BY <1>p, <2>1, <2>4 DEF Push, TypeOK
    <3>2. ~abandoned => \A a \in Batch : ~(pushes[2][a] > 0)
      BY <1>p, <2>4 DEF VersionInv, Batch, TypeOK
    <3> QED
      BY <1>p, <3>1, <3>2 DEF ResolvedIsLastWord
  <2> QED
    BY <2>1, <2>3, <2>4
<1>3. ASSUME NEW t \in Threads, Forward(t) PROVE (OnlyAwaited /\ VersionInv /\ ResolvedIsLastWord)'
  <2>1. /\ ResolvedIsLastWord'
        /\ \A a \in Batch : pushes'[2][a] > 0 => pushes[2][a] > 0 \/ posted[t] = 2
    BY <1>3, <1>p DEF Forward
  <2>2. thread[t] # 0 /\ \A u \in Threads : thread'[u] # 0 => thread[u] # 0
    BY <1>3 DEF Forward, TypeOK, Batch
  <2>3. OnlyAwaited'
    BY <1>3, <2>2 DEF Forward, OnlyAwaited
  <2>4. ~abandoned => \A u \in Threads : thread[u] # 0 => u = t
    BY <2>2 DEF OnlyAwaited
  <2>5. VersionInv'
    BY <1>3, <1>t, <2>1, <2>2, <2>4 DEF Forward, VersionInv
  <2> QED
    BY <2>1, <2>3, <2>5
<1>e. ASSUME NEW t \in Threads, NEW status, Ends(t, status), abandoned' = abandoned PROVE OnlyAwaited'
  BY <1>e, EndsOnlyStops DEF OnlyAwaited
<1>4. ASSUME NEW t \in Threads, ForwardFails(t) PROVE (OnlyAwaited /\ VersionInv /\ ResolvedIsLastWord)'
  <2>1. OnlyAwaited'
    BY <1>4, <1>e DEF ForwardFails
  <2>2. thread[t] \in Batch /\ thread[t] # 0
    BY <1>4 DEF ForwardFails, Batch
  <2>3. /\ ResolvedIsLastWord'
        /\ \A a \in Batch : pushes'[2][a] > 0 => pushes[2][a] > 0 \/ posted[t] = 2
    <3>1. CASE Push(t)
      BY <1>4, <1>p, <2>2, <3>1 DEF ForwardFails
    <3>2. CASE UNCHANGED pushVars
      BY <1>4, <3>2 DEF ForwardFails, ResolvedIsLastWord
    <3> QED
      BY <1>4, <3>1, <3>2 DEF ForwardFails
  <2>4. ~abandoned => \A u \in Threads : thread[u] # 0 => u = t
    BY <2>2 DEF OnlyAwaited
  <2>5. /\ \A u \in Threads : thread'[u] # 0 => u # t /\ thread[u] # 0 /\ posted'[u] = posted[u]
        /\ \A u \in Threads : posted'[u] \in {1, posted[u]}
        /\ version' = version
    BY <1>4, EndsOnlyStops DEF ForwardFails
  <2>6. VersionInv'
    BY <1>4, <1>t, <2>3, <2>4, <2>5 DEF ForwardFails, VersionInv
  <2> QED
    BY <2>1, <2>3, <2>6
<1>5. ASSUME NEW t \in Threads, Done(t) PROVE (OnlyAwaited /\ VersionInv /\ ResolvedIsLastWord)'
  <2>1. OnlyAwaited'
    BY <1>5, <1>e DEF Done
  <2>2. /\ \A u \in Threads : thread'[u] # 0 => u # t /\ thread[u] # 0 /\ posted'[u] = posted[u]
        /\ \A u \in Threads : posted'[u] \in {1, posted[u]}
        /\ version' = version
    BY <1>5, EndsOnlyStops DEF Done
  <2>3. VersionInv'
    BY <1>5, <1>t, <2>2 DEF Done, VersionInv
  <2> QED
    BY <1>5, <2>1, <2>3 DEF Done, ResolvedIsLastWord
<1>6. CASE Resolve
  <2>1. OnlyAwaited' /\ ResolvedIsLastWord'
    BY <1>6 DEF Resolve, OnlyAwaited, ResolvedIsLastWord
  <2>2. VersionInv'
    BY <1>6, <1>t DEF Resolve, VersionInv
  <2> QED
    BY <2>1, <2>2
<1>7. CASE GiveUpWaiting
  BY <1>7 DEF GiveUpWaiting, OnlyAwaited, VersionInv, ResolvedIsLastWord
<1>8. CASE Crash
  <2>1. \A u \in Threads : thread'[u] = 0 /\ posted'[u] = 1
    BY <1>8 DEF Crash
  <2> QED
    BY <1>8, <1>t, <2>1 DEF Crash, OnlyAwaited, VersionInv, ResolvedIsLastWord
<1>9. CASE Repeat
  BY <1>9 DEF Repeat, OnlyAwaited, VersionInv, ResolvedIsLastWord
<1>10. CASE UNCHANGED vars
  BY <1>10 DEF vars, OnlyAwaited, VersionInv, ResolvedIsLastWord
<1> QED
  BY <1>1, <1>2, <1>3, <1>4, <1>5, <1>6, <1>7, <1>8, <1>9, <1>10 DEF Next, Manager, Thread, Quiet

LEMMA LastWordInit == Init => OnlyAwaited /\ VersionInv /\ ResolvedIsLastWord
<1> SUFFICES ASSUME Init PROVE OnlyAwaited /\ VersionInv /\ ResolvedIsLastWord
  OBVIOUS
<1>1. /\ \A t \in Threads : thread[t] = 0 /\ posted[t] = 1
      /\ \A a \in Batch : pushes[2][a] = 0
      /\ version = 1
  BY DEF Init, Versions
<1> QED
  BY <1>1 DEF OnlyAwaited, VersionInv, ResolvedIsLastWord

-----------------------------------------------------------------------------
(* Deliveries *)

LEMMA AheadFinite ==
  ASSUME NEW v, NEW a, NEW b
  PROVE  IsFiniteSet(Ahead(v, a, b)) /\ Cardinality(Ahead(v, a, b)) \in Nat
<1>1. Ahead(v, a, b) \subseteq Threads
  BY DEF Ahead
<1> QED
  BY <1>1, WebhookAssumption, FS_Subset, FS_CardinalityType

\* One thread less in a set, or one more.
LEMMA OneLess ==
  ASSUME NEW S, IsFiniteSet(S), NEW t
  PROVE  /\ Cardinality(S \ {t}) \in Nat /\ Cardinality(S) \in Nat
         /\ Cardinality(S \ {t}) <= Cardinality(S)
         /\ t \in S => Cardinality(S \ {t}) = Cardinality(S) - 1
<1>1. CASE t \in S
  <2>1. IsFiniteSet(S \ {t}) /\ Cardinality(S \ {t}) = Cardinality(S) - 1
    BY <1>1, FS_RemoveElement
  <2>2. Cardinality(S \ {t}) \in Nat /\ Cardinality(S) \in Nat
    BY <2>1, FS_CardinalityType
  <2> QED
    BY <2>1, <2>2
<1>2. CASE t \notin S
  <2>1. S \ {t} = S
    BY <1>2
  <2>2. Cardinality(S) \in Nat
    BY FS_CardinalityType
  <2> QED
    BY <1>2, <2>1, <2>2
<1> QED
  BY <1>1, <1>2

LEMMA OneMore ==
  ASSUME NEW S, IsFiniteSet(S), NEW t, t \notin S
  PROVE  Cardinality(S) \in Nat /\ Cardinality(S \cup {t}) = Cardinality(S) + 1
BY FS_AddElement, FS_CardinalityType

LEMMA PushEffect ==
  ASSUME TypeOK, NEW t \in Threads, thread[t] \in Batch, Push(t)
  PROVE  /\ \A v \in Versions, a \in Batch :
              pushes'[v][a] = IF v = posted[t] /\ a = thread[t] THEN pushes[v][a] + 1 ELSE pushes[v][a]
         /\ taken' = taken + 1
BY DEF TypeOK, Push

\* The numbers that the invariants compare.
LEMMA Numbers ==
  ASSUME TypeOK
  PROVE  /\ \A v \in Versions, a \in Batch : pushes[v][a] \in Nat
         /\ \A t \in Threads : posted[t] \in Versions /\ thread[t] \in 0..(Alerts + 1)
         /\ 1 \in Batch /\ Batch \subseteq Nat /\ Versions = {1, 2} /\ version \in Versions
         /\ faults \in Nat /\ counted \in Nat /\ taken \in Nat
         /\ \A v \in Versions : Repeated(v) \in Nat
<1>1. \A v \in Versions, a \in Batch : pushes[v][a] \in Nat
  BY DEF TypeOK
<1>2. \A t \in Threads : posted[t] \in Versions /\ thread[t] \in 0..(Alerts + 1)
  BY DEF TypeOK
<1>3. 1 \in Batch /\ Batch \subseteq Nat /\ Versions = {1, 2} /\ version \in Versions
  BY WebhookAssumption DEF TypeOK, Versions, Batch
<1>4. faults \in Nat /\ counted \in Nat /\ taken \in Nat
  BY WebhookAssumption DEF TypeOK
<1>5. \A v \in Versions : Repeated(v) \in Nat
  BY WebhookAssumption DEF TypeOK, Repeated
<1> QED
  BY <1>1, <1>2, <1>3, <1>4, <1>5

\* A thread that ends is ahead of nobody any more, and the others stay where they are.
LEMMA EndsAhead ==
  ASSUME TypeOK, NEW t \in Threads, NEW status, Ends(t, status)
  PROVE  \A v \in Versions, a \in Nat, b \in Nat : Ahead(v, a, b)' = Ahead(v, a, b) \ {t}
<1>1. \A u \in Threads : /\ thread'[u] = IF u = t THEN 0 ELSE thread[u]
                         /\ posted'[u] = IF u = t THEN 1 ELSE posted[u]
  BY DEF TypeOK, Ends
<1> QED
  BY <1>1 DEF Ahead

LEMMA BatchInit == Init => BatchInv
<1> SUFFICES ASSUME Init PROVE BatchInv
  OBVIOUS
<1>1. /\ \A t \in Threads : thread[t] = 0 /\ posted[t] = 1
      /\ \A v \in Versions, a \in Batch : pushes[v][a] = 0
      /\ 1 \in Batch /\ 2 \in Versions /\ Batch \subseteq Nat
  BY WebhookAssumption DEF Init, Versions, Batch
<1>2. \A v, b : \A a \in Nat : Ahead(v, a, b) = {}
  BY <1>1 DEF Ahead
<1>3. Cardinality({}) = 0
  BY FS_EmptySet
<1>4. OrderInv
  <2>1. \A v \in Versions, a, b \in Batch : Cardinality(Ahead(v, a, b)) = 0
    BY <1>1, <1>2, <1>3
  <2> QED
    BY <1>1, <2>1 DEF OrderInv
<1>5. FirstInv
  <2>1. \A v : Cardinality(Ahead(v, 0, 1)) = 0
    BY <1>2, <1>3
  <2> QED
    BY <1>1, <2>1 DEF FirstInv, Due, Repeated, Init
<1> QED
  BY <1>1, <1>4, <1>5 DEF Init, BatchInv, UnresolvedInv, ReachedInv, KindInv, CountInv, NotifiedInv

\* What a push that its thread leaves behind, or that ends it, does to the batch.
LEMMA OrderAfterPush ==
  ASSUME TypeOK, OrderInv, NEW t \in Threads, thread[t] \in Batch,
         Push(t) \/ UNCHANGED pushes,
         \A v \in Versions, a \in Nat, b \in Nat : Ahead(v, a, b)' = Ahead(v, a, b) \ {t}
  PROVE  OrderInv'
<1> SUFFICES ASSUME NEW v \in Versions, NEW a \in Batch, NEW b \in Batch, a < b
             PROVE  pushes'[v][b] + Cardinality(Ahead(v, a, b)') <= pushes'[v][a]
  BY DEF OrderInv
<1> DEFINE S == Ahead(v, a, b)
<1>0. a \in Nat /\ b \in Nat /\ pushes[v][a] \in Nat /\ pushes[v][b] \in Nat
  BY Numbers
<1>1. IsFiniteSet(S)
  BY AheadFinite
<1>2. Ahead(v, a, b)' = S \ {t}
  BY <1>0
<1>3. pushes[v][b] + Cardinality(S) <= pushes[v][a]
  BY DEF OrderInv
<1>4. v = posted[t] /\ b = thread[t] => t \in S
  BY <1>0 DEF Ahead
<1> HIDE DEF S
<1>5. /\ Cardinality(S \ {t}) \in Nat /\ Cardinality(S) \in Nat
      /\ Cardinality(S \ {t}) <= Cardinality(S)
      /\ t \in S => Cardinality(S \ {t}) = Cardinality(S) - 1
  BY <1>1, OneLess
<1>6. \/ pushes'[v][a] = pushes[v][a] /\ pushes'[v][b] = pushes[v][b]
      \/ pushes'[v][a] = pushes[v][a] + 1 /\ pushes'[v][b] = pushes[v][b]
      \/ pushes'[v][a] = pushes[v][a] /\ pushes'[v][b] = pushes[v][b] + 1 /\ t \in S
  <2>1. CASE Push(t)
    BY <1>0, <1>4, <2>1, PushEffect
  <2>2. CASE UNCHANGED pushes
    BY <2>2
  <2> QED
    BY <2>1, <2>2
<1>7. pushes'[v][b] + Cardinality(S \ {t}) <= pushes'[v][a]
  BY <1>0, <1>3, <1>5, <1>6
<1> QED
  BY <1>2, <1>7

\* A thread that moves on from what it pushed.
LEMMA OrderAfterForward ==
  ASSUME TypeOK, OrderInv, NEW t \in Threads, Forward(t)
  PROVE  OrderInv'
<1> SUFFICES ASSUME NEW v \in Versions, NEW a \in Batch, NEW b \in Batch, a < b
             PROVE  pushes'[v][b] + Cardinality(Ahead(v, a, b)') <= pushes'[v][a]
  BY DEF OrderInv
<1> DEFINE S == Ahead(v, a, b)
           p == thread[t]
<1>0. a \in Nat /\ b \in Nat /\ pushes[v][a] \in Nat /\ pushes[v][b] \in Nat /\ p \in Nat
  BY Numbers
<1>1. IsFiniteSet(S) /\ Cardinality(S) \in Nat
  BY AheadFinite
<1>2. /\ p \in Batch /\ Push(t) /\ posted' = posted
      /\ \A u \in Threads : thread'[u] = IF u = t THEN p + 1 ELSE thread[u]
  BY DEF Forward, TypeOK
<1>3. pushes[v][b] + Cardinality(S) <= pushes[v][a]
  BY DEF OrderInv
<1>4. /\ pushes'[v][a] = IF v = posted[t] /\ a = p THEN pushes[v][a] + 1 ELSE pushes[v][a]
      /\ pushes'[v][b] = IF v = posted[t] /\ b = p THEN pushes[v][b] + 1 ELSE pushes[v][b]
  BY <1>2, PushEffect
<1>5. CASE v = posted[t] /\ b = p
  <2>1. t \in S /\ Ahead(v, a, b)' = S \ {t}
    BY <1>0, <1>2, <1>5 DEF Ahead
  <2> HIDE DEF S
  <2>2. Cardinality(S \ {t}) = Cardinality(S) - 1
    BY <1>1, <2>1, OneLess
  <2>3. pushes'[v][a] = pushes[v][a] /\ pushes'[v][b] = pushes[v][b] + 1
    BY <1>0, <1>4, <1>5
  <2>4. (pushes[v][b] + 1) + (Cardinality(S) - 1) <= pushes[v][a]
    BY <1>0, <1>1, <1>3
  <2> QED
    BY <2>1, <2>2, <2>3, <2>4
<1>6. CASE v = posted[t] /\ a = p
  <2>1. t \notin S /\ Ahead(v, a, b)' = S \cup {t}
    BY <1>0, <1>2, <1>6 DEF Ahead
  <2> HIDE DEF S
  <2>2. Cardinality(S \cup {t}) = Cardinality(S) + 1
    BY <1>1, <2>1, OneMore
  <2>3. pushes'[v][a] = pushes[v][a] + 1 /\ pushes'[v][b] = pushes[v][b]
    BY <1>0, <1>4, <1>6
  <2>4. pushes[v][b] + (Cardinality(S) + 1) <= pushes[v][a] + 1
    BY <1>0, <1>1, <1>3
  <2> QED
    BY <2>1, <2>2, <2>3, <2>4
<1>7. CASE ~(v = posted[t] /\ (a = p \/ b = p))
  <2>1. Ahead(v, a, b)' = S
    BY <1>0, <1>2, <1>7 DEF Ahead
  <2>2. pushes'[v][a] = pushes[v][a] /\ pushes'[v][b] = pushes[v][b]
    BY <1>4, <1>7
  <2> QED
    BY <1>3, <2>1, <2>2
<1> QED
  BY <1>5, <1>6, <1>7

LEMMA OrderStep == TypeOK /\ OrderInv /\ [Next]_vars => OrderInv'
<1> SUFFICES ASSUME TypeOK, OrderInv, [Next]_vars PROVE OrderInv'
  OBVIOUS
<1> USE DEF managerVars, threadVars, pushVars
<1>1. ASSUME NEW t \in Threads, Accept(t) PROVE OrderInv'
  <2>1. \A u \in Threads : /\ thread'[u] = IF u = t THEN 1 ELSE thread[u]
                           /\ posted'[u] = IF u = t THEN version ELSE posted[u]
    BY <1>1 DEF Accept, TypeOK
  <2>2. thread[t] = 0 /\ pushes' = pushes
    BY <1>1 DEF Accept
  <2>3. \A v \in Versions, a \in Batch, b \in Batch : Ahead(v, a, b)' = Ahead(v, a, b)
    BY <2>1, <2>2, Numbers DEF Ahead, Batch
  <2> QED
    BY <2>2, <2>3 DEF OrderInv
<1>2. ASSUME NEW t \in Threads, Forward(t) PROVE OrderInv'
  BY <1>2, OrderAfterForward
<1>3. ASSUME NEW t \in Threads, ForwardFails(t) PROVE OrderInv'
  <2>1. thread[t] \in Batch /\ (Push(t) \/ UNCHANGED pushes) /\ Ends(t, 500)
    BY <1>3 DEF ForwardFails
  <2>2. \A v \in Versions, a \in Nat, b \in Nat : Ahead(v, a, b)' = Ahead(v, a, b) \ {t}
    BY <2>1, EndsAhead
  <2> QED
    BY <2>1, <2>2, OrderAfterPush
<1>4. ASSUME NEW t \in Threads, Done(t) PROVE OrderInv'
  <2>1. thread[t] = Alerts + 1 /\ pushes' = pushes /\ Ends(t, 200)
    BY <1>4 DEF Done
  <2>2. \A v \in Versions, a \in Batch, b \in Batch : Ahead(v, a, b)' = Ahead(v, a, b)
    <3>1. \A v \in Versions, a \in Batch, b \in Batch : t \notin Ahead(v, a, b)
      BY <2>1, WebhookAssumption DEF Ahead, Batch
    <3>2. \A v \in Versions, a \in Nat, b \in Nat : Ahead(v, a, b)' = Ahead(v, a, b) \ {t}
      BY <2>1, EndsAhead
    <3>3. Batch \subseteq Nat
      BY Numbers
    <3>4. ASSUME NEW v \in Versions, NEW a \in Batch, NEW b \in Batch PROVE Ahead(v, a, b)' = Ahead(v, a, b)
      <4>1. Ahead(v, a, b)' = Ahead(v, a, b) \ {t}
        BY <3>2, <3>3
      <4>2. t \notin Ahead(v, a, b)
        BY <3>1
      <4> QED
        BY <4>1, <4>2
    <3> QED
      BY <3>4
  <2> QED
    BY <2>1, <2>2 DEF OrderInv
<1>5. CASE Crash
  <2>1. pushes' = pushes /\ \A t \in Threads : thread'[t] = 0
    BY <1>5 DEF Crash
  <2>2. \A v \in Versions, a \in Batch, b \in Batch : Ahead(v, a, b)' = {}
    BY <2>1, Numbers DEF Ahead
  <2>3. \A v \in Versions, a \in Batch, b \in Batch : Cardinality(Ahead(v, a, b)) \in Nat
    BY AheadFinite
  <2>4. \A v \in Versions, a \in Batch, b \in Batch : a < b => pushes[v][b] + 0 <= pushes[v][a]
    BY <2>3, Numbers DEF OrderInv
  <2>5. Cardinality({}) = 0
    BY FS_EmptySet
  <2> QED
    BY <2>1, <2>2, <2>4, <2>5 DEF OrderInv
<1>6. ASSUME Refuse \/ Resolve \/ Repeat \/ GiveUpWaiting \/ UNCHANGED vars PROVE OrderInv'
  BY <1>6 DEF Refuse, Resolve, Repeat, GiveUpWaiting, vars, OrderInv, Ahead
<1> QED
  BY <1>1, <1>2, <1>3, <1>4, <1>5, <1>6 DEF Next, Manager, Thread, Quiet

LEMMA FirstStep == TypeOK /\ FirstInv /\ UnresolvedInv /\ [Next]_vars => FirstInv'
<1> SUFFICES ASSUME TypeOK, FirstInv, UnresolvedInv, [Next]_vars, NEW v \in Versions
             PROVE  pushes'[v][1] + Cardinality(Ahead(v, 0, 1)') + Due(v)' <= 1 + faults' + Repeated(v)'
  BY DEF FirstInv
<1> USE DEF managerVars, threadVars, pushVars
<1> DEFINE S == Ahead(v, 0, 1)
           Goal == pushes'[v][1] + Cardinality(S') + Due(v)' <= 1 + faults' + Repeated(v)'
<1>a. /\ pushes[v][1] \in Nat /\ faults \in Nat /\ Repeated(v) \in Nat /\ Due(v) \in {0, 1}
      /\ IsFiniteSet(S) /\ Cardinality(S) \in Nat
      /\ S = {t \in Threads : posted[t] = v /\ thread[t] = 1}
  <2>1. pushes[v][1] \in Nat /\ faults \in Nat /\ Repeated(v) \in Nat /\ Due(v) \in {0, 1}
    BY Numbers DEF Due
  <2>2. \A t \in Threads : 0 < thread[t] /\ thread[t] <= 1 <=> thread[t] = 1
    BY Numbers
  <2>3. S = {t \in Threads : posted[t] = v /\ thread[t] = 1}
    BY <2>2 DEF Ahead
  <2> QED
    BY <2>1, <2>3, AheadFinite
<1>b. pushes[v][1] + Cardinality(S) + Due(v) <= 1 + faults + Repeated(v)
  BY DEF FirstInv
<1>1. ASSUME NEW t \in Threads, Accept(t) PROVE Goal
  <2>1. \A u \in Threads : /\ thread'[u] = IF u = t THEN 1 ELSE thread[u]
                           /\ posted'[u] = IF u = t THEN version ELSE posted[u]
    BY <1>1 DEF Accept, TypeOK
  <2>2. thread[t] = 0 /\ pushes' = pushes /\ faults' = faults /\ Repeated(v)' = Repeated(v) /\ Due(v)' = 0
    BY <1>1 DEF Accept, Due, Repeated
  <2>3. CASE v = version
    <3>1. S' = S \cup {t} /\ t \notin S /\ Due(v) = 1
      BY <1>1, <1>a, <2>1, <2>2, <2>3 DEF Accept, Due, Ahead
    <3> HIDE DEF S
    <3>2. Cardinality(S') = Cardinality(S) + 1
      BY <1>a, <3>1, OneMore
    <3> QED
      BY <1>a, <1>b, <2>2, <3>1, <3>2
  <2>4. CASE v # version
    <3>1. S' = S /\ Due(v) = 0
      BY <1>a, <2>1, <2>2, <2>4 DEF Due, Ahead
    <3> QED
      BY <1>b, <2>2, <3>1
  <2> QED
    BY <2>3, <2>4
<1>2. ASSUME NEW t \in Threads, Forward(t) PROVE Goal
  <2>1. /\ thread[t] \in Batch /\ Push(t) /\ posted' = posted /\ faults' = faults /\ Repeated(v)' = Repeated(v) /\ Due(v)' = Due(v)
        /\ \A u \in Threads : thread'[u] = IF u = t THEN thread[t] + 1 ELSE thread[u]
    BY <1>2 DEF Forward, TypeOK, Due, Repeated
  <2>2. pushes'[v][1] = IF v = posted[t] /\ thread[t] = 1 THEN pushes[v][1] + 1 ELSE pushes[v][1]
    BY <2>1, PushEffect, Numbers
  <2>3. S' = S \ {t}
    <3>1. \A u \in Threads : u \in S' <=> u \in S /\ u # t
      BY <2>1, Numbers DEF Ahead, Batch
    <3>2. S' \subseteq Threads /\ S \subseteq Threads
      BY DEF Ahead
    <3> HIDE DEF S
    <3> QED
      BY <3>1, <3>2
  <2>4. v = posted[t] /\ thread[t] = 1 <=> t \in S
    BY <1>a
  <2> HIDE DEF S
  <2>5. /\ Cardinality(S \ {t}) \in Nat /\ Cardinality(S \ {t}) <= Cardinality(S)
        /\ t \in S => Cardinality(S \ {t}) = Cardinality(S) - 1
    BY <1>a, OneLess
  <2>6. pushes'[v][1] + Cardinality(S \ {t}) <= pushes[v][1] + Cardinality(S) /\ pushes'[v][1] \in Nat
    BY <1>a, <2>2, <2>4, <2>5
  <2> QED
    BY <1>a, <1>b, <2>1, <2>3, <2>5, <2>6
<1>3. ASSUME NEW t \in Threads, ForwardFails(t) PROVE Goal
  <2>1. /\ thread[t] \in Batch /\ (Push(t) \/ pushes' = pushes) /\ Ends(t, 500)
        /\ faults' = faults + 1 /\ Repeated(v)' = Repeated(v) /\ Due(v)' \in {0, 1}
    BY <1>3 DEF ForwardFails, Fault, Due, Repeated
  <2>2. \/ pushes'[v][1] = pushes[v][1]
        \/ pushes'[v][1] = pushes[v][1] + 1 /\ t \in S
    BY <1>a, <2>1, PushEffect, Numbers
  <2>3. S' = S \ {t}
    BY <2>1, EndsAhead
  <2> HIDE DEF S
  <2>4. /\ Cardinality(S \ {t}) \in Nat /\ Cardinality(S \ {t}) <= Cardinality(S)
        /\ t \in S => Cardinality(S \ {t}) = Cardinality(S) - 1
    BY <1>a, OneLess
  <2>5. pushes'[v][1] + Cardinality(S \ {t}) <= pushes[v][1] + Cardinality(S) /\ pushes'[v][1] \in Nat
    BY <1>a, <2>2, <2>4
  <2>6. Due(v)' \in Nat /\ Due(v)' <= 1
    BY <2>1
  <2> QED
    BY <1>a, <1>b, <2>1, <2>3, <2>4, <2>5, <2>6
<1>4. ASSUME NEW t \in Threads, Done(t) PROVE Goal
  <2>1. thread[t] = Alerts + 1 /\ pushes' = pushes /\ faults' = faults /\ Repeated(v)' = Repeated(v) /\ Ends(t, 200)
    BY <1>4 DEF Done, Repeated
  <2>2. t \notin S
    BY <1>a, <2>1, WebhookAssumption
  <2>3. S' = S
    BY <2>1, <2>2, EndsAhead
  <2>4. CASE Due(v)' = 0
    BY <1>a, <1>b, <2>1, <2>3, <2>4
  <2>5. CASE Due(v)' # 0
    <3>1. manager' = "post" /\ v = version' /\ version' = version
      BY <2>1, <2>5 DEF Due, Ends, Answered, managerVars
    <3>2. CASE t \notin awaited
      <4>1. Due(v)' = Due(v)
        BY <2>1, <3>2 DEF Due, Ends, managerVars
      <4> QED
        BY <1>b, <2>1, <2>3, <4>1
    <3>3. CASE t \in awaited
      <4>1. posted[t] # version
        BY <2>1, <3>1, <3>3 DEF Ends, Answered
      <4>2. posted[t] = 1 /\ v = 2
        BY <3>1, <3>3, <4>1, Numbers DEF UnresolvedInv
      <4>3. pushes[v][1] = 0 /\ S = {}
        BY <1>a, <3>3, <4>2, Numbers DEF UnresolvedInv
      <4>4. Cardinality({}) = 0 /\ Due(v)' = 1
        BY <2>5, FS_EmptySet DEF Due
      <4> QED
        BY <1>a, <2>1, <2>3, <4>3, <4>4
    <3> QED
      BY <3>2, <3>3
  <2> QED
    BY <2>4, <2>5
<1>5. CASE Crash
  <2>1. pushes' = pushes /\ faults' = faults + 1 /\ Repeated(v)' = Repeated(v) /\ \A t \in Threads : thread'[t] = 0
    BY <1>5 DEF Crash, Fault, Repeated
  <2>2. S' = {} /\ Due(v)' \in {0, 1}
    BY <2>1 DEF Ahead, Due
  <2>3. Cardinality({}) = 0
    BY FS_EmptySet
  <2>4. pushes[v][1] + 0 + 1 <= 1 + (faults + 1) + Repeated(v)
    BY <1>a, <1>b
  <2>5. pushes[v][1] + 0 + Due(v)' <= 1 + (faults + 1) + Repeated(v)
    BY <1>a, <2>2, <2>4
  <2> QED
    BY <2>1, <2>2, <2>3, <2>5
<1>6. CASE Resolve
  <2>1. version = 1 /\ version' = 2 /\ UNCHANGED <<thread, posted, pushes, faults>> /\ Repeated(v)' = Repeated(v)
    BY <1>6 DEF Resolve, Repeated
  <2>2. S' = S
    BY <2>1 DEF Ahead
  <2>3. CASE v = 1
    <3>1. Due(v)' = 0
      BY <2>1, <2>3 DEF Due
    <3> QED
      BY <1>a, <1>b, <2>1, <2>2, <3>1
  <2>4. CASE v = 2
    <3>1. pushes[v][1] = 0 /\ S = {}
      BY <1>a, <2>1, <2>4, Numbers DEF UnresolvedInv
    <3>2. Cardinality({}) = 0 /\ Due(v)' \in {0, 1}
      BY FS_EmptySet DEF Due
    <3> QED
      BY <1>a, <2>1, <2>2, <3>1, <3>2
  <2> QED
    BY <2>3, <2>4, Numbers
<1>7. CASE GiveUpWaiting
  <2>1. UNCHANGED <<thread, posted, pushes>> /\ faults' = faults + 1 /\ Repeated(v)' = Repeated(v) /\ Due(v)' \in {0, 1}
    BY <1>7 DEF GiveUpWaiting, Fault, Due, Repeated
  <2>2. S' = S
    BY <2>1 DEF Ahead
  <2> QED
    BY <1>a, <1>b, <2>1, <2>2
<1>8. ASSUME Refuse \/ UNCHANGED vars PROVE Goal
  <2>1. UNCHANGED <<thread, posted, pushes, faults>> /\ Due(v)' \in {0, Due(v)} /\ Repeated(v)' = Repeated(v)
    BY <1>8 DEF Refuse, Answered, Due, Repeated, vars
  <2>2. S' = S
    BY <2>1 DEF Ahead
  <2> QED
    BY <1>a, <1>b, <2>1, <2>2
<1>9. CASE Repeat
  <2>1. UNCHANGED <<thread, posted, pushes, faults, version>> /\ version = 1 /\ repeats' = repeats + 1
    BY <1>9 DEF Repeat
  <2>2. S' = S
    BY <2>1 DEF Ahead
  <2>3. CASE v = 1
    <3>1. Repeated(v)' = Repeated(v) + 1 /\ Due(v)' = 1 /\ Due(v) = 0
      BY <1>9, <2>1, <2>3 DEF Repeat, Repeated, Due
    <3> QED
      BY <1>a, <1>b, <2>1, <2>2, <3>1
  <2>4. CASE v # 1
    <3>1. Repeated(v)' = Repeated(v) /\ Due(v)' = Due(v)
      BY <2>1, <2>4 DEF Repeated, Due
    <3> QED
      BY <1>b, <2>1, <2>2, <3>1
  <2> QED
    BY <2>3, <2>4
<1> QED
  BY <1>1, <1>2, <1>3, <1>4, <1>5, <1>6, <1>7, <1>8, <1>9 DEF Next, Manager, Thread, Quiet

LEMMA UnresolvedStep == TypeOK /\ UnresolvedInv /\ [Next]_vars => UnresolvedInv'
<1> SUFFICES ASSUME TypeOK, UnresolvedInv, [Next]_vars,
                    version' = 1 \/ \E t \in awaited' : posted'[t] = 1
             PROVE  (\A a \in Batch : pushes'[2][a] = 0) /\ (\A t \in Threads : posted'[t] = 1)
  BY DEF UnresolvedInv
<1> USE DEF managerVars, threadVars, pushVars
<1> DEFINE Goal == (\A a \in Batch : pushes'[2][a] = 0) /\ (\A t \in Threads : posted'[t] = 1)
<1>a. version \in {1, 2} /\ awaited \subseteq Threads
  BY Numbers DEF TypeOK
<1>b. ASSUME NEW t \in Threads, thread[t] \in Batch, Push(t), posted[t] = 1
      PROVE  \A a \in Batch : pushes'[2][a] = pushes[2][a]
  BY <1>b, PushEffect DEF Versions
<1>e. ASSUME NEW t \in Threads, NEW status, Ends(t, status), pushes' = pushes \/ (thread[t] \in Batch /\ Push(t))
      PROVE  Goal
  <2>1. version = 1 \/ \E u \in awaited : posted[u] = 1
    BY <1>a, <1>e, EndsOnlyStops DEF Ends, Answered, TypeOK
  <2>2. (\A a \in Batch : pushes[2][a] = 0) /\ (\A u \in Threads : posted[u] = 1)
    BY <2>1 DEF UnresolvedInv
  <2>3. \A u \in Threads : posted'[u] = 1
    BY <1>e, <2>2 DEF Ends, TypeOK
  <2> QED
    BY <1>b, <1>e, <2>2, <2>3
<1>1. ASSUME NEW t \in Threads, Accept(t) PROVE Goal
  <2>1. version' = version /\ awaited' = {t} /\ posted'[t] = version
    BY <1>1 DEF Accept, TypeOK
  <2>2. version = 1
    BY <1>a, <2>1
  <2> QED
    BY <1>1, <2>2 DEF Accept, TypeOK, UnresolvedInv
<1>2. ASSUME NEW t \in Threads, Forward(t) PROVE Goal
  BY <1>2, <1>b DEF Forward, UnresolvedInv
<1>3. ASSUME NEW t \in Threads, ForwardFails(t) PROVE Goal
  BY <1>3, <1>e DEF ForwardFails
<1>4. ASSUME NEW t \in Threads, Done(t) PROVE Goal
  BY <1>4, <1>e DEF Done
<1>5. CASE Crash
  BY <1>5 DEF Crash, UnresolvedInv
<1>6. ASSUME Refuse \/ Resolve \/ Repeat \/ GiveUpWaiting \/ UNCHANGED vars PROVE Goal
  BY <1>6 DEF Refuse, Answered, Resolve, Repeat, GiveUpWaiting, vars, UnresolvedInv
<1> QED
  BY <1>1, <1>2, <1>3, <1>4, <1>5, <1>6 DEF Next, Manager, Thread, Quiet

LEMMA ReachedStep ==
  TypeOK /\ ReachedInv /\ NotifiedInv /\ [Next]_vars => ReachedInv' /\ NotifiedInv'
<1> SUFFICES ASSUME TypeOK, ReachedInv, NotifiedInv, [Next]_vars PROVE ReachedInv' /\ NotifiedInv'
  OBVIOUS
<1> USE DEF managerVars, threadVars, pushVars
<1>a. Batch \subseteq Nat /\ version \in Versions
      /\ \A t \in Threads : posted[t] \in Versions /\ thread[t] \in Nat
  BY Numbers
<1>b. ASSUME pushes' = pushes \/ (\E t \in Threads : thread[t] \in Batch /\ Push(t))
      PROVE  \A v \in Versions, a \in Batch : pushes[v][a] > 0 => pushes'[v][a] > 0
  <2>1. ASSUME NEW t \in Threads, thread[t] \in Batch, Push(t), NEW v \in Versions, NEW a \in Batch
        PROVE  pushes'[v][a] \in {pushes[v][a], pushes[v][a] + 1} /\ pushes[v][a] \in Nat
    BY <2>1, PushEffect, Numbers
  <2> QED
    BY <1>b, <2>1
<1>e. ASSUME NEW t \in Threads, NEW status \in {200, 500}, Ends(t, status),
             pushes' = pushes \/ (thread[t] \in Batch /\ Push(t)),
             status = 200 => thread[t] = Alerts + 1
      PROVE  ReachedInv' /\ NotifiedInv'
  <2>1. \A v \in Versions, a \in Batch : pushes[v][a] > 0 => pushes'[v][a] > 0
    BY <1>b, <1>e
  <2>2. \A u \in Threads : /\ thread'[u] = IF u = t THEN 0 ELSE thread[u]
                           /\ posted'[u] = IF u = t THEN 1 ELSE posted[u]
    BY <1>e DEF TypeOK, Ends
  <2>3. ReachedInv'
    BY <1>a, <2>1, <2>2 DEF ReachedInv
  <2>4. NotifiedInv'
    <3>1. CASE manager' = "notified" /\ t \in awaited
      <4>1. status = 200 /\ posted[t] = version /\ version' = version
        BY <1>e, <3>1 DEF Ends, Answered
      <4>2. \A a \in Batch : a < thread[t]
        BY <1>e, <4>1, WebhookAssumption DEF Batch
      <4> QED
        BY <1>a, <2>1, <4>1, <4>2 DEF ReachedInv, NotifiedInv
    <3>2. CASE t \notin awaited
      BY <1>a, <1>e, <2>1, <3>2 DEF Ends, NotifiedInv
    <3> QED
      BY <3>1, <3>2 DEF NotifiedInv
  <2> QED
    BY <2>3, <2>4
<1>1. ASSUME NEW t \in Threads, Accept(t) PROVE ReachedInv' /\ NotifiedInv'
  <2>1. \A u \in Threads : /\ thread'[u] = IF u = t THEN 1 ELSE thread[u]
                           /\ u # t => posted'[u] = posted[u]
    BY <1>1 DEF Accept, TypeOK
  <2>2. \A a \in Batch : ~(a < 1)
    BY DEF Batch
  <2>3. pushes' = pushes /\ manager' = "wait"
    BY <1>1 DEF Accept
  <2>4. ReachedInv'
    BY <2>1, <2>2, <2>3 DEF ReachedInv
  <2> QED
    BY <2>3, <2>4 DEF NotifiedInv
<1>2. ASSUME NEW t \in Threads, Forward(t) PROVE ReachedInv' /\ NotifiedInv'
  <2>1. /\ thread[t] \in Batch /\ Push(t) /\ UNCHANGED <<manager, version, posted>>
        /\ \A u \in Threads : thread'[u] = IF u = t THEN thread[t] + 1 ELSE thread[u]
    BY <1>2 DEF Forward, TypeOK
  <2>2. \A v \in Versions, a \in Batch : pushes[v][a] > 0 => pushes'[v][a] > 0
    BY <1>b, <2>1
  <2>3. pushes'[posted[t]][thread[t]] > 0
    BY <1>a, <2>1, PushEffect, Numbers
  <2>4. ASSUME NEW u \in Threads, NEW a \in Batch, a < thread'[u] PROVE pushes'[posted[u]][a] > 0
    <3>1. CASE a < thread[u]
      BY <1>a, <2>2, <3>1 DEF ReachedInv
    <3>2. CASE u = t /\ a = thread[t]
      BY <2>3, <3>2
    <3> QED
      BY <1>a, <2>1, <2>4, <3>1, <3>2
  <2>5. ReachedInv'
    BY <2>1, <2>4 DEF ReachedInv
  <2> QED
    BY <1>a, <2>1, <2>2, <2>5 DEF NotifiedInv
<1>3. ASSUME NEW t \in Threads, ForwardFails(t) PROVE ReachedInv' /\ NotifiedInv'
  BY <1>3, <1>e DEF ForwardFails
<1>4. ASSUME NEW t \in Threads, Done(t) PROVE ReachedInv' /\ NotifiedInv'
  BY <1>4, <1>e DEF Done
<1>5. CASE Crash
  <2>1. pushes' = pushes /\ version' = version /\ (manager' = "notified" => manager = "notified")
        /\ \A u \in Threads : thread'[u] = 0
    BY <1>5 DEF Crash
  <2>2. \A a \in Batch : ~(a < 0)
    BY DEF Batch
  <2> QED
    BY <2>1, <2>2 DEF ReachedInv, NotifiedInv
<1>6. ASSUME Refuse \/ Resolve \/ Repeat \/ GiveUpWaiting \/ UNCHANGED vars PROVE ReachedInv' /\ NotifiedInv'
  <2>1. UNCHANGED <<thread, posted, pushes>>
    BY <1>6 DEF Refuse, Resolve, Repeat, GiveUpWaiting, vars
  <2>2. ASSUME Refuse PROVE manager' # "notified"
    <3>1. kind \in {"badTopic", "noData", "notJson"}
      BY <2>2 DEF Refuse, TypeOK, Kinds
    <3>2. CASE kind = "badTopic"
      BY <2>2, <3>2 DEF Refuse, Answered
    <3>3. CASE kind = "noData"
      BY <2>2, <3>3 DEF Refuse, Answered
    <3>4. CASE kind = "notJson"
      BY <2>2, <3>4 DEF Refuse, Answered
    <3> QED
      BY <3>1, <3>2, <3>3, <3>4
  <2>3. ASSUME Resolve \/ Repeat \/ GiveUpWaiting PROVE manager' # "notified"
    BY <2>3 DEF Resolve, Repeat, GiveUpWaiting
  <2>4. manager' = "notified" => manager = "notified" /\ version' = version
    BY <1>6, <2>2, <2>3 DEF vars
  <2> QED
    BY <2>1, <2>4 DEF ReachedInv, NotifiedInv
<1> QED
  BY <1>1, <1>2, <1>3, <1>4, <1>5, <1>6 DEF Next, Manager, Thread, Quiet

LEMMA CountStep == TypeOK /\ KindInv /\ CountInv /\ [Next]_vars => KindInv' /\ CountInv'
<1> SUFFICES ASSUME TypeOK, KindInv, CountInv, [Next]_vars PROVE KindInv' /\ CountInv'
  OBVIOUS
<1> USE DEF managerVars, threadVars, pushVars
<1>a. counted \in Nat /\ taken \in Nat /\ faults \in Nat
  BY Numbers
<1>b. ASSUME NEW t \in Threads, thread[t] \in Batch PROVE kind = "valid"
  BY <1>b DEF KindInv, Batch
<1>1. ASSUME NEW t \in Threads, Accept(t) PROVE KindInv' /\ CountInv'
  BY <1>1 DEF Accept, KindInv, CountInv
<1>2. ASSUME NEW t \in Threads, Forward(t) PROVE KindInv' /\ CountInv'
  BY <1>a, <1>b, <1>2 DEF Forward, Push, KindInv, CountInv
<1>3. ASSUME NEW t \in Threads, ForwardFails(t) PROVE KindInv' /\ CountInv'
  <2>1. taken' \in {taken, taken + 1} /\ faults' = faults + 1 /\ counted' = counted /\ kind' = kind
    BY <1>3 DEF ForwardFails, Push, Fault
  <2> QED
    BY <1>a, <1>b, <1>3, <2>1 DEF ForwardFails, KindInv, CountInv
<1>4. ASSUME NEW t \in Threads, Done(t) PROVE KindInv' /\ CountInv'
  <2>1. thread[t] # 0
    BY <1>4, WebhookAssumption DEF Done
  <2>2. kind = "valid" /\ kind' = kind
    BY <1>4, <2>1 DEF Done, KindInv
  <2> QED
    BY <1>4, <2>2 DEF Done, KindInv, CountInv
<1>5. CASE Crash
  BY <1>a, <1>5 DEF Crash, Fault, KindInv, CountInv
<1>6. ASSUME Refuse \/ Resolve \/ Repeat \/ GiveUpWaiting \/ UNCHANGED vars PROVE KindInv' /\ CountInv'
  BY <1>a, <1>6 DEF Refuse, Resolve, Repeat, GiveUpWaiting, Fault, vars, KindInv, CountInv
<1> QED
  BY <1>1, <1>2, <1>3, <1>4, <1>5, <1>6 DEF Next, Manager, Thread, Quiet

LEMMA BatchStep == TypeOK /\ BatchInv /\ [Next]_vars => BatchInv'
BY OrderStep, FirstStep, UnresolvedStep, ReachedStep, CountStep DEF BatchInv

LEMMA BatchMeans == TypeOK /\ BatchInv => DeliveriesAccounted
<1> SUFFICES ASSUME TypeOK, BatchInv PROVE DeliveriesAccounted
  OBVIOUS
<1>1. ASSUME NEW v \in Versions, NEW a \in Batch, NEW b \in Batch, a < b PROVE pushes[v][a] >= pushes[v][b]
  <2>1. Cardinality(Ahead(v, a, b)) \in Nat /\ pushes[v][a] \in Nat /\ pushes[v][b] \in Nat
    BY AheadFinite, Numbers
  <2>2. pushes[v][b] + Cardinality(Ahead(v, a, b)) <= pushes[v][a]
    BY <1>1 DEF BatchInv, OrderInv
  <2> QED
    BY <2>1, <2>2
<1>2. ASSUME NEW v \in Versions PROVE pushes[v][1] <= 1 + faults + Repeated(v)
  <2>1. Cardinality(Ahead(v, 0, 1)) \in Nat /\ pushes[v][1] \in Nat /\ faults \in Nat /\ Repeated(v) \in Nat /\ Due(v) \in Nat
    BY AheadFinite, Numbers DEF Due
  <2>2. pushes[v][1] + Cardinality(Ahead(v, 0, 1)) + Due(v) <= 1 + faults + Repeated(v)
    BY DEF BatchInv, FirstInv
  <2> QED
    BY <2>1, <2>2
<1> QED
  BY <1>1, <1>2 DEF BatchInv, NotifiedInv, KindInv, CountInv, DeliveriesAccounted

-----------------------------------------------------------------------------
\* Every variable keeps its type: no thread runs past the end of its group.
THEOREM TypeCorrect == Spec => []TypeOK
BY TypeInit, TypeStep, PTL DEF Spec

\* An alert that was reported as resolved is never reported as firing again, unless
\* Alertmanager gave up waiting for a thread that went on.
THEOREM ResolvedStaysLast == Spec => []ResolvedIsLastWord
<1>1. Init => TypeOK /\ OnlyAwaited /\ VersionInv /\ ResolvedIsLastWord
  BY TypeInit, LastWordInit
<1>2. (TypeOK /\ OnlyAwaited /\ VersionInv /\ ResolvedIsLastWord) /\ [Next]_vars
        => (TypeOK /\ OnlyAwaited /\ VersionInv /\ ResolvedIsLastWord)'
  BY TypeStep, LastWordStep
<1> QED
  BY <1>1, <1>2, PTL DEF Spec

\* No alert of a group is skipped or sent out of turn; each is sent once as firing and
\* once as resolved, and besides that at most once per fault and, while it fires, once
\* per repetition by Alertmanager; and the counter agrees with ntfy but for lost
\* answers: for groups of any size, through failures, lost answers, crashes,
\* repetitions and threads that go on after Alertmanager gave up.
THEOREM DeliveriesAreAccounted == Spec => []DeliveriesAccounted
<1>1. Init => TypeOK /\ BatchInv
  BY TypeInit, BatchInit
<1>2. (TypeOK /\ BatchInv) /\ [Next]_vars => (TypeOK /\ BatchInv)'
  BY TypeStep, BatchStep
<1> QED
  BY <1>1, <1>2, BatchMeans, PTL DEF Spec

=============================================================================
