------------------------ MODULE DetectorProofs ------------------------
(***************************************************************************)
(* Safety of human_detector.py.  DetectorCluster, for every number of       *)
(* replicas, frames, cameras and faults, every buffer and every warm-up     *)
(* limit: where a frame is, how often it may be announced, why the filters  *)
(* of a replica may drop it, and how many detections a fault may take.      *)
(* AlertDispatcher, in the second half, for every queue size, number of     *)
(* attempts and number of detections.                                       *)
(***************************************************************************)
EXTENDS AlertDispatcher, DetectorCluster, WellFoundedInduction, SequenceTheorems, FiniteSetTheorems, TLAPS

Sorted(q) == \A i, j \in DOMAIN q : i < j => q[i] < q[j]
Ready == Range(frameQueue)

\* The published frames are divided between the queue, in order, the connected
\* replicas, the acknowledged and the lost ones.
PlaceInv ==
  /\ Sorted(frameQueue)
  /\ \A f \in Frames : f <= published <=> \/ f \in Ready \/ f \in acked \/ f \in brokerLost
                                          \/ \E r \in Replicas : f \in Unacked(r)
  /\ \A r \in Replicas : Unacked(r) \cap (Ready \cup acked \cup brokerLost) = {}
  /\ \A r, s \in Replicas : r # s => Unacked(r) \cap Unacked(s) = {}
  /\ Ready \cap acked = {} /\ Ready \cap brokerLost = {} /\ acked \cap brokerLost = {}

\* A replica is in its callback when it holds a frame, and a process that is down
\* remembers nothing.
ReplicaInv == \A r \in Replicas :
  /\ pc[r] = "idle" <=> current[r] = 0
  /\ link[r] = "down" => pc[r] = "idle" /\ warmup[r] = FreshWarmup /\ lastHash[r] = FreshHashes

Busy(f) == {r \in Replicas : current[r] = f /\ pc[r] \in {"callback", "infer"}}

\* Every delivery but one is the work of a fault, and of a frame that waits every
\* one; each is submitted once at most, and not before its callback is over.
DeliveryInv == \A f \in Frames :
  /\ deliveries[f] <= faults + (IF f \in Ready \/ f > published THEN 0 ELSE 1)
  /\ submissions[f] + Cardinality(Busy(f)) <= deliveries[f]

Handled(f) == submissions[f] > 0 \/ events[f] \cap {"warmup", "duplicate", "error"} # {}

\* A hash that is remembered was submitted, and a person whose callback is about to
\* acknowledge was submitted or dropped for a reason.
FilterInv ==
  /\ \A r \in Replicas, c \in Cameras : lastHash[r][c] # NoHash =>
       \E g \in Frames : Camera[g] = c /\ Hash[g] = lastHash[r][c] /\ submissions[g] > 0
  /\ \A r \in Replicas : pc[r] = "ack" /\ current[r] \in Persons => Handled(current[r])

Swallowed(c) == {f \in Frames : Camera[f] = c /\ "warmup" \in events[f]}
Slots(c) == {s \in Replicas \X (1..WarmupLimit) : s[2] <= warmup[s[1]][c]}
Closed == {r \in Replicas : link[r] = "closed"}

\* What warm-up swallowed is in the present counters, or was paid for by a fault: one
\* that has closed connections still owes the lives that go with them.
WarmupInv == \A c \in Cameras :
  Cardinality(Swallowed(c)) + WarmupLimit * Cardinality(Closed)
    <= Cardinality(Slots(c)) + WarmupLimit * Cardinality(Replicas) * faults

\* The same account for the detections that vanish with a dispatcher: a closed
\* connection will still take with it all that a dispatcher can have, a full queue and
\* the detection in hand.
Holds == BufferSize + 1
LossInv == Cardinality(Vanished) + Holds * Cardinality(Closed) <= Holds * Cardinality(Replicas) * faults

IInv == TypeOK /\ PlaceInv /\ ReplicaInv /\ DeliveryInv /\ FilterInv /\ WarmupInv /\ LossInv
               /\ DuplicatesWereSubmitted /\ PersonsAreSubmitted

-----------------------------------------------------------------------------
(* The queue *)

LEMMA LeastNumber ==
  ASSUME NEW S, S \subseteq Nat, S # {}
  PROVE  \E n \in S : \A m \in S : n <= m
<1>1. PICK n \in S : \A m \in S : ~(<<m, n>> \in OpToRel(<, Nat))
  BY NatLessThanWellFounded, WFMin
<1>2. \A m \in S : ~(m < n)
  BY <1>1 DEF OpToRel
<1> QED
  BY <1>2

LEMMA InsertedSeq ==
  ASSUME NEW S, NEW q \in Seq(S), NEW k \in 0..Len(q), NEW f \in S
  PROVE  LET t == SubSeq(q, 1, k) \o <<f>> \o SubSeq(q, k + 1, Len(q))
         IN  /\ t \in Seq(S) /\ Len(t) = Len(q) + 1
             /\ \A i \in 1..k : t[i] = q[i]
             /\ t[k + 1] = f
             /\ \A i \in (k + 1)..Len(q) : t[i + 1] = q[i]
<1> DEFINE n == Len(q)
           u == SubSeq(q, 1, k)
           v == SubSeq(q, k + 1, n)
           w == u \o <<f>>
           t == w \o v
<1>1. n \in Nat /\ k \in Nat /\ k <= n
  OBVIOUS
<1>2. u \in Seq(S) /\ Len(u) = k /\ \A i \in 1..k : u[i] = q[i]
  BY SubSeqProperties
<1>3. v \in Seq(S) /\ Len(v) = n - k /\ \A i \in 1..(n - k) : v[i] = q[k + i]
  <2>1. \A i \in (k + 1)..n : q[i] \in S
    OBVIOUS
  <2>2. v = [i \in 1..(n - k) |-> q[k + i]]
    BY <1>1
  <2>3. n - k \in Nat /\ \A i \in 1..(n - k) : k + i \in (k + 1)..n
    BY <1>1
  <2> HIDE DEF v, n
  <2> QED
    BY <2>1, <2>2, <2>3
<1> HIDE DEF u, v, n
<1>4. w \in Seq(S) /\ Len(w) = k + 1 /\ w[k + 1] = f /\ \A i \in 1..k : w[i] = q[i]
  BY <1>1, <1>2
<1> HIDE DEF w
<1>5. /\ t \in Seq(S) /\ Len(t) = n + 1
      /\ \A i \in 1..(k + 1) : t[i] = w[i]
      /\ \A i \in 1..(n - k) : t[k + 1 + i] = v[i]
  <2>1. /\ t \in Seq(S) /\ Len(t) = Len(w) + Len(v)
        /\ \A i \in 1..(Len(w) + Len(v)) : t[i] = IF i <= Len(w) THEN w[i] ELSE v[i - Len(w)]
    BY <1>3, <1>4, ConcatProperties
  <2> HIDE DEF t
  <2>2. Len(t) = n + 1 /\ \A i \in 1..(n + 1) : t[i] = IF i <= k + 1 THEN w[i] ELSE v[i - (k + 1)]
    BY <1>1, <1>3, <1>4, <2>1
  <2>3. \A i \in 1..(k + 1) : t[i] = w[i]
    BY <1>1, <2>2
  <2>4. ASSUME NEW i \in 1..(n - k) PROVE t[k + 1 + i] = v[i]
    <3>1. k + 1 + i \in 1..(n + 1) /\ ~(k + 1 + i <= k + 1) /\ (k + 1 + i) - (k + 1) = i
      BY <1>1
    <3> QED
      BY <2>2, <3>1
  <2> QED
    BY <2>1, <2>2, <2>3, <2>4
<1> HIDE DEF t
<1>6. \A i \in (k + 1)..n : t[i + 1] = q[i]
  <2> TAKE i \in (k + 1)..n
  <2>1. i - k \in 1..(n - k) /\ k + 1 + (i - k) = i + 1 /\ k + (i - k) = i
    BY <1>1
  <2>2. t[k + 1 + (i - k)] = v[i - k] /\ v[i - k] = q[k + (i - k)]
    BY <1>3, <1>5, <2>1
  <2> QED
    BY <2>1, <2>2
<1>7. t[k + 1] = f /\ \A i \in 1..k : t[i] = q[i]
  BY <1>1, <1>4, <1>5
<1> QED
  BY <1>5, <1>6, <1>7 DEF t, w, u, v, n

\* Requeueing puts a frame where it belongs in a queue that is in order.
LEMMA RequeuedInOrder ==
  ASSUME NEW q \in Seq(Frames), Sorted(q), NEW f \in Frames, f \notin Range(q)
  PROVE  /\ Requeued(q, {f}) \in Seq(Frames)
         /\ Sorted(Requeued(q, {f}))
         /\ Range(Requeued(q, {f})) = Range(q) \cup {f}
<1> DEFINE n == Len(q)
           Before(k) == \A i \in DOMAIN q : q[i] < f <=> i <= k
           k == CHOOSE k \in 0..Len(q) : Before(k)
           t == SubSeq(q, 1, k) \o <<f>> \o SubSeq(q, k + 1, Len(q))
<1>1. n \in Nat /\ Len(q) = n /\ DOMAIN q = 1..n
  OBVIOUS
<1>2. Frames \subseteq Nat
  BY ClusterAssumption DEF Frames
<1>3. \A i \in 1..n : q[i] \in Nat /\ q[i] # f /\ q[i] \in Range(q)
  <2>1. \A i \in 1..n : q[i] \in Frames
    OBVIOUS
  <2>2. \A i \in DOMAIN q : q[i] \in Range(q)
    BY DEF Range
  <2> QED
    BY <1>1, <1>2, <2>1, <2>2
<1>4. \A i, j \in 1..n : i < j => q[i] < q[j]
  BY <1>1 DEF Sorted
<1>5. \E m \in 0..n : Before(m)
  <2> DEFINE After == {m \in 1..(n + 1) : m = n + 1 \/ q[m] > f}
  <2> HIDE DEF n
  <2>1. After \subseteq Nat /\ n + 1 \in After
    BY <1>1
  <2>2. PICK m \in After : \A l \in After : m <= l
    BY <2>1, LeastNumber
  <2>3. m - 1 \in 0..n
    BY <1>1, <2>1, <2>2
  <2>4. \A i \in 1..n : i <= m - 1 => ~(q[i] > f)
    BY <1>1, <2>1, <2>2
  <2>5. ASSUME NEW i \in 1..n, i > m - 1 PROVE q[i] > f
    <3>1. m \in 1..n /\ q[m] > f
      BY <1>1, <2>2, <2>5
    <3>2. m = i \/ q[m] < q[i]
      BY <1>4, <2>5, <3>1
    <3> QED
      BY <1>2, <1>3, <3>1, <3>2
  <2>6. Before(m - 1)
    BY <1>1, <1>2, <1>3, <2>3, <2>4, <2>5
  <2> QED
    BY <2>3, <2>6
<1>6. k \in 0..n /\ Before(k)
  BY <1>1, <1>5
<1>7. Requeued(q, {f}) = t
  BY DEF Requeued
<1> HIDE DEF k, n
<1>8. /\ t \in Seq(Frames) /\ Len(t) = n + 1
      /\ \A i \in 1..k : t[i] = q[i]
      /\ t[k + 1] = f
      /\ \A i \in (k + 1)..n : t[i + 1] = q[i]
  BY <1>1, <1>6, InsertedSeq
<1> HIDE DEF t
<1>9. k \in Nat /\ k <= n /\ f \in Nat /\ DOMAIN t = 1..(n + 1)
  BY <1>1, <1>2, <1>6, <1>8
<1>10. \A i \in 1..n : (i <= k => q[i] < f) /\ (i > k => f < q[i])
  BY <1>1, <1>3, <1>6, <1>9
<1>11. Sorted(t)
  <2> SUFFICES ASSUME NEW i \in 1..(n + 1), NEW j \in 1..(n + 1), i < j
               PROVE  t[i] < t[j]
    BY <1>9 DEF Sorted
  <2> DEFINE old(m) == IF m <= k THEN m ELSE m - 1
  <2>1. ASSUME NEW m \in 1..(n + 1), m # k + 1
        PROVE  old(m) \in 1..n /\ t[m] = q[old(m)]
    <3>1. CASE m <= k
      BY <1>1, <1>8, <1>9, <3>1
    <3>2. CASE m > k
      <4>1. m - 1 \in (k + 1)..n /\ (m - 1) + 1 = m
        BY <1>1, <1>9, <2>1, <3>2
      <4>2. t[(m - 1) + 1] = q[m - 1]
        BY <1>8, <4>1
      <4> QED
        BY <1>1, <1>9, <3>2, <4>1, <4>2
    <3> QED
      BY <1>1, <1>9, <3>1, <3>2
  <2>2. CASE i # k + 1 /\ j # k + 1
    <3>1. old(i) \in 1..n /\ old(j) \in 1..n /\ t[i] = q[old(i)] /\ t[j] = q[old(j)]
      BY <2>1, <2>2
    <3>2. old(i) < old(j)
      BY <1>1, <1>9, <2>2
    <3> QED
      BY <1>4, <3>1, <3>2
  <2>3. CASE i = k + 1
    <3>1. old(j) \in 1..n /\ t[j] = q[old(j)] /\ old(j) > k
      BY <1>1, <1>9, <2>1, <2>3
    <3> QED
      BY <1>8, <1>10, <2>3, <3>1
  <2>4. CASE j = k + 1
    <3>1. old(i) \in 1..n /\ t[i] = q[old(i)] /\ old(i) <= k
      BY <1>1, <1>9, <2>1, <2>4
    <3> QED
      BY <1>8, <1>10, <2>4, <3>1
  <2> QED
    BY <2>2, <2>3, <2>4
<1>12. Range(t) = Range(q) \cup {f}
  <2>1. ASSUME NEW i \in 1..(n + 1) PROVE t[i] \in Range(q) \cup {f}
    <3>1. CASE i <= k
      BY <1>1, <1>3, <1>8, <1>9, <3>1
    <3>2. CASE i > k + 1
      <4>1. i - 1 \in (k + 1)..n /\ (i - 1) + 1 = i /\ i - 1 \in 1..n
        BY <1>1, <1>9, <3>2
      <4>2. t[(i - 1) + 1] = q[i - 1]
        BY <1>8, <4>1
      <4> QED
        BY <1>3, <4>1, <4>2
    <3> QED
      BY <1>1, <1>8, <1>9, <3>1, <3>2
  <2>2. k + 1 \in 1..(n + 1)
    BY <1>1, <1>9
  <2>3. ASSUME NEW i \in 1..n PROVE \E j \in 1..(n + 1) : t[j] = q[i]
    <3>1. CASE i <= k
      BY <1>1, <1>8, <1>9, <3>1
    <3>2. CASE i > k
      <4>1. i \in (k + 1)..n /\ i + 1 \in 1..(n + 1)
        BY <1>1, <1>9, <3>2
      <4> QED
        BY <1>8, <4>1
    <3> QED
      BY <1>1, <1>9, <3>1, <3>2
  <2>4. \A x : x \in Range(t) <=> \E i \in 1..(n + 1) : x = t[i]
    BY <1>9 DEF Range
  <2>5. \A x : x \in Range(q) <=> \E i \in 1..n : x = q[i]
    BY <1>1 DEF Range
  <2> QED
    BY <1>8, <2>1, <2>2, <2>3, <2>4, <2>5
<1> QED
  BY <1>7, <1>8, <1>11, <1>12

\* Nothing is requeued, or the frame of one replica is.
LEMMA Requeueing ==
  ASSUME TypeOK, PlaceInv, NEW r \in Replicas
  PROVE  /\ Requeued(frameQueue, Unacked(r)) \in Seq(Frames)
         /\ Sorted(Requeued(frameQueue, Unacked(r)))
         /\ Range(Requeued(frameQueue, Unacked(r))) = Ready \cup Unacked(r)
<1>1. frameQueue \in Seq(Frames) /\ Sorted(frameQueue)
  BY DEF TypeOK, PlaceInv
<1>2. CASE Unacked(r) = {}
  BY <1>1, <1>2 DEF Requeued, Ready
<1>3. CASE Unacked(r) # {}
  <2>1. Unacked(r) = {current[r]} /\ current[r] \in Frames
    BY <1>3 DEF Unacked, TypeOK
  <2>2. current[r] \notin Range(frameQueue)
    BY <2>1 DEF PlaceInv, Ready
  <2> QED
    BY <1>1, <2>1, <2>2, RequeuedInOrder DEF Ready
<1> QED
  BY <1>2, <1>3

LEMMA TailOfSorted ==
  ASSUME NEW q \in Seq(Frames), q # <<>>, Sorted(q)
  PROVE  /\ Head(q) \in Frames /\ Tail(q) \in Seq(Frames) /\ Sorted(Tail(q))
         /\ Range(q) = {Head(q)} \cup Range(Tail(q)) /\ Head(q) \notin Range(Tail(q))
<1>0. Frames \subseteq Nat
  BY ClusterAssumption DEF Frames
<1>1. Len(q) \in Nat \ {0} /\ DOMAIN q = 1..Len(q) /\ \A i \in DOMAIN q : q[i] \in Nat
  <2>1. Len(q) \in Nat \ {0} /\ DOMAIN q = 1..Len(q)
    BY EmptySeq
  <2>2. \A i \in DOMAIN q : q[i] \in Frames
    OBVIOUS
  <2> QED
    BY <1>0, <2>1, <2>2
<1>2. /\ Head(q) = q[1] /\ Head(q) \in Frames
      /\ Tail(q) \in Seq(Frames) /\ DOMAIN Tail(q) = 1..(Len(q) - 1)
      /\ \A i \in 1..(Len(q) - 1) : Tail(q)[i] = q[i + 1]
  BY <1>1
<1> DEFINE t == Tail(q)
           h == Head(q)
<1> HIDE DEF t, h
<1>3. h = q[1] /\ DOMAIN t = 1..(Len(q) - 1) /\ \A i \in 1..(Len(q) - 1) : t[i] = q[i + 1]
  BY <1>2 DEF t, h
<1>4. Sorted(t)
  <2> SUFFICES ASSUME NEW i \in DOMAIN t, NEW j \in DOMAIN t, i < j PROVE t[i] < t[j]
    BY DEF Sorted
  <2>1. i + 1 \in DOMAIN q /\ j + 1 \in DOMAIN q /\ i + 1 < j + 1
    BY <1>1, <1>3
  <2>2. q[i + 1] < q[j + 1]
    BY <2>1 DEF Sorted
  <2>3. t[i] = q[i + 1] /\ t[j] = q[j + 1]
    BY <1>3
  <2> QED
    BY <2>2, <2>3
<1>5. Range(q) = {h} \cup Range(t)
  <2>1. \A i \in DOMAIN q : i = 1 \/ (i - 1 \in DOMAIN t /\ q[i] = t[i - 1])
    BY <1>1, <1>3
  <2>2. \A i \in DOMAIN t : i + 1 \in DOMAIN q /\ q[i + 1] = t[i]
    BY <1>1, <1>3
  <2>3. 1 \in DOMAIN q
    BY <1>1
  <2> QED
    BY <1>3, <2>1, <2>2, <2>3 DEF Range
<1>6. h \notin Range(t)
  <2>1. \A i \in DOMAIN t : q[1] < t[i] /\ t[i] \in Nat
    BY <1>1, <1>3 DEF Sorted
  <2> QED
    BY <1>1, <1>3, <2>1 DEF Range
<1> QED
  BY <1>2, <1>4, <1>5, <1>6 DEF t, h

LEMMA AppendNewest ==
  ASSUME NEW q \in Seq(Frames), Sorted(q), NEW f \in Frames, \A g \in Range(q) : g < f
  PROVE  /\ Append(q, f) \in Seq(Frames) /\ Sorted(Append(q, f))
         /\ Range(Append(q, f)) = Range(q) \cup {f}
<1> DEFINE t == Append(q, f)
           n == Len(q)
<1>1. n \in Nat /\ DOMAIN q = 1..n /\ \A i \in 1..n : q[i] \in Range(q) /\ q[i] < f
  BY DEF Range
<1>2. t \in Seq(Frames) /\ DOMAIN t = 1..(n + 1) /\ t[n + 1] = f /\ \A i \in 1..n : t[i] = q[i]
  BY <1>1
<1> HIDE DEF t, n
<1>3. Sorted(t)
  BY <1>1, <1>2 DEF Sorted
<1>4. \A i \in 1..(n + 1) : i \in 1..n \/ i = n + 1
  BY <1>1
<1>5. \A i \in 1..n : i \in 1..(n + 1)
  BY <1>1
<1>6. n + 1 \in 1..(n + 1)
  BY <1>1
<1>7. Range(t) = Range(q) \cup {f}
  BY <1>1, <1>2, <1>4, <1>5, <1>6 DEF Range
<1> QED
  BY <1>2, <1>3, <1>7 DEF t

-----------------------------------------------------------------------------
(* Types *)

LEMMA Nested ==
  ASSUME NEW A, NEW B, NEW V, NEW m \in [A -> [B -> V]], NEW a \in A, NEW b \in B, NEW v \in V
  PROVE  /\ [m EXCEPT ![a][b] = v] \in [A -> [B -> V]]
         /\ \A x \in A, y \in B : [m EXCEPT ![a][b] = v][x][y] = IF x = a /\ y = b THEN v ELSE m[x][y]
<1> DEFINE n == [m EXCEPT ![a][b] = v]
<1>1. n = [m EXCEPT ![a] = [m[a] EXCEPT ![b] = v]]
  OBVIOUS
<1>2. [m[a] EXCEPT ![b] = v] \in [B -> V]
  OBVIOUS
<1>3. \A x \in A : n[x] = IF x = a THEN [m[a] EXCEPT ![b] = v] ELSE m[x]
  BY <1>1
<1> QED
  BY <1>1, <1>2, <1>3

\* Recording an event adds it, and changes nothing else.
LEMMA Recorded ==
  ASSUME events \in [Frames -> SUBSET Events], NEW f \in Frames, NEW what \in Events, Happens(f, what)
  PROVE  /\ events' \in [Frames -> SUBSET Events]
         /\ \A g \in Frames : events'[g] = IF g = f THEN events[g] \cup {what} ELSE events[g]
BY DEF Happens

LEMMA FrameInHand ==
  ASSUME TypeOK, ReplicaInv, NEW r \in Replicas, pc[r] # "idle"
  PROVE  current[r] \in Frames /\ Camera[current[r]] \in Cameras
<1>1. current[r] \in Frames
  BY DEF TypeOK, ReplicaInv
<1> QED
  BY <1>1, ClusterAssumption

LEMMA Admitted ==
  ASSUME NEW q \in Seq(Persons), Len(q) <= BufferSize, NEW f \in Persons
  PROVE  Admit(q, f) \in Seq(Persons) /\ Len(Admit(q, f)) <= BufferSize
<1>1. Len(q) \in Nat /\ BufferSize \in Nat \ {0}
  BY ClusterAssumption
<1>2. CASE Len(q) < BufferSize
  BY <1>1, <1>2 DEF Admit
<1>3. CASE ~(Len(q) < BufferSize)
  <2>1. q # <<>>
    BY <1>1, <1>3
  <2>2. Tail(q) \in Seq(Persons) /\ Len(Tail(q)) = Len(q) - 1
    BY <2>1
  <2> DEFINE t == Tail(q)
  <2> HIDE DEF t
  <2>3. Append(t, f) \in Seq(Persons) /\ Len(Append(t, f)) = Len(t) + 1
    BY <2>2 DEF t
  <2> QED
    BY <1>1, <1>3, <2>2, <2>3 DEF Admit, t
<1> QED
  BY <1>2, <1>3

LEMMA Fresh ==
  FreshWarmup \in [Cameras -> 0..WarmupLimit] /\ FreshHashes \in [Cameras -> Range(Hash) \cup {NoHash}]
BY ClusterAssumption DEF FreshWarmup, FreshHashes

LEMMA TypeInit == Init => TypeOK
<1> SUFFICES ASSUME Init PROVE TypeOK
  OBVIOUS
<1>1. /\ frameQueue \in Seq(Frames) /\ buffer \in [Replicas -> Seq(Persons)]
      /\ \A r \in Replicas : Len(buffer[r]) <= BufferSize
      /\ held \in [Replicas -> {0} \cup Persons]
  BY ClusterAssumption DEF Init
<1>2. published \in 0..MaxFrames /\ faults \in 0..MaxFaults
  BY ClusterAssumption DEF Init
<1>3. /\ warmup \in [Replicas -> [Cameras -> 0..WarmupLimit]]
      /\ lastHash \in [Replicas -> [Cameras -> Range(Hash) \cup {NoHash}]]
  BY Fresh DEF Init
<1>4. /\ events \in [Frames -> SUBSET Events]
      /\ deliveries \in [Frames -> Nat] /\ submissions \in [Frames -> Nat]
  BY DEF Init
<1>5. /\ link \in [Replicas -> {"down", "up", "closed"}]
      /\ pc \in [Replicas -> {"idle", "callback", "infer", "ack"}]
      /\ current \in [Replicas -> {0} \cup Frames] /\ acked \subseteq Frames /\ brokerLost \subseteq Frames
  BY DEF Init
<1> QED
  BY <1>1, <1>2, <1>3, <1>4, <1>5 DEF TypeOK

\* A process that ends leaves well-typed memory.
LEMMA ExitType ==
  ASSUME TypeOK, NEW r \in Replicas, Exit(r)
  PROVE  /\ link' \in [Replicas -> {"down", "up", "closed"}]
         /\ pc' \in [Replicas -> {"idle", "callback", "infer", "ack"}]
         /\ current' \in [Replicas -> {0} \cup Frames]
         /\ warmup' \in [Replicas -> [Cameras -> 0..WarmupLimit]]
         /\ lastHash' \in [Replicas -> [Cameras -> Range(Hash) \cup {NoHash}]]
         /\ buffer' \in [Replicas -> Seq(Persons)] /\ \A s \in Replicas : Len(buffer'[s]) <= BufferSize
         /\ held' \in [Replicas -> {0} \cup Persons]
         /\ events' \in [Frames -> SUBSET Events]
         /\ UNCHANGED <<published, acked, brokerLost, deliveries, submissions>>
<1>1. /\ link' \in [Replicas -> {"down", "up", "closed"}]
      /\ pc' \in [Replicas -> {"idle", "callback", "infer", "ack"}]
      /\ current' \in [Replicas -> {0} \cup Frames]
  BY DEF TypeOK, Exit
<1>2. warmup' \in [Replicas -> [Cameras -> 0..WarmupLimit]]
  BY Fresh DEF TypeOK, Exit
<1>3. lastHash' \in [Replicas -> [Cameras -> Range(Hash) \cup {NoHash}]]
  BY Fresh DEF TypeOK, Exit
<1>4. buffer' \in [Replicas -> Seq(Persons)] /\ held' \in [Replicas -> {0} \cup Persons]
  BY DEF TypeOK, Exit
<1>5. \A s \in Replicas : Len(buffer'[s]) <= BufferSize
  <2>1. BufferSize \in Nat
    BY ClusterAssumption
  <2>2. \A s \in Replicas : buffer'[s] = IF s = r THEN <<>> ELSE buffer[s]
    BY DEF TypeOK, Exit
  <2>3. Len(<<>>) = 0
    OBVIOUS
  <2> QED
    BY <2>1, <2>2, <2>3 DEF TypeOK
<1>6. events' \in [Frames -> SUBSET Events]
  BY DEF TypeOK, Exit, Events
<1> QED
  BY <1>1, <1>2, <1>3, <1>4, <1>5, <1>6 DEF Exit

LEMMA TypeStep == IInv /\ [Next]_vars => TypeOK'
<1> SUFFICES ASSUME IInv, [Next]_vars PROVE TypeOK'
  OBVIOUS
<1> USE DEF dispatcher
<1>0. TypeOK /\ PlaceInv /\ ReplicaInv
  BY DEF IInv
<1>1. CASE Publish
  <2>1. published' \in 0..MaxFrames /\ published + 1 \in Frames
    BY <1>0, <1>1, ClusterAssumption DEF Publish, TypeOK, Frames
  <2>2. frameQueue' \in Seq(Frames)
    BY <1>0, <1>1, <2>1 DEF Publish, TypeOK
  <2> QED
    BY <1>0, <1>1, <2>1, <2>2 DEF Publish, TypeOK, processVars
<1>2. CASE BrokerRestart
  <2>1. UNION {Unacked(r) : r \in Replicas} \subseteq Frames /\ Range(frameQueue) \subseteq Frames
    BY <1>0 DEF TypeOK, Unacked, Range
  <2>2. /\ link' \in [Replicas -> {"down", "up", "closed"}]
        /\ brokerLost' \subseteq Frames /\ frameQueue' \in Seq(Frames)
    BY <1>0, <1>2, <2>1 DEF BrokerRestart, TypeOK
  <2>3. faults' \in 0..MaxFaults
    BY <1>0, <1>2, ClusterAssumption DEF BrokerRestart, TypeOK
  <2> QED
    BY <1>0, <1>2, <2>2, <2>3 DEF BrokerRestart, TypeOK, processVars
<1>3. ASSUME NEW r \in Replicas, Deliver(r) PROVE TypeOK'
  <2> DEFINE f == Head(frameQueue)
  <2>1. f \in Frames /\ frameQueue' \in Seq(Frames)
    BY <1>0, <1>3, TailOfSorted DEF Deliver, TypeOK, PlaceInv
  <2>2. /\ current' \in [Replicas -> {0} \cup Frames]
        /\ pc' \in [Replicas -> {"idle", "callback", "infer", "ack"}]
        /\ deliveries' \in [Frames -> Nat]
    BY <1>0, <1>3, <2>1 DEF Deliver, TypeOK
  <2> QED
    BY <1>0, <1>3, <2>1, <2>2 DEF Deliver, TypeOK
<1>4. ASSUME NEW r \in Replicas, ConnectionLost(r) PROVE TypeOK'
  <2>1. frameQueue' \in Seq(Frames)
    BY <1>0, <1>4, Requeueing DEF ConnectionLost
  <2>2. faults' \in 0..MaxFaults
    BY <1>0, <1>4, ClusterAssumption DEF ConnectionLost, TypeOK
  <2> QED
    BY <1>0, <1>4, <2>1, <2>2 DEF ConnectionLost, TypeOK, processVars
<1>5. ASSUME NEW r \in Replicas, WarmupSkip(r) PROVE TypeOK'
  <2> DEFINE c == Camera[current[r]]
  <2>1. current[r] \in Frames /\ c \in Cameras
    BY <1>0, <1>5, FrameInHand DEF WarmupSkip
  <2>2. warmup[r][c] + 1 \in 0..WarmupLimit
    BY <1>0, <1>5, <2>1, ClusterAssumption DEF WarmupSkip, WarmingUp, TypeOK
  <2>3. warmup' = [warmup EXCEPT ![r][c] = warmup[r][c] + 1]
    BY <1>5 DEF WarmupSkip
  <2> HIDE DEF c
  <2>4. warmup' \in [Replicas -> [Cameras -> 0..WarmupLimit]]
    BY <1>0, <2>1, <2>2, <2>3, Nested DEF TypeOK
  <2>5. events' \in [Frames -> SUBSET Events]
    BY <1>0, <1>5, <2>1, Recorded DEF WarmupSkip, TypeOK, Events
  <2> QED
    BY <1>0, <1>5, <2>4, <2>5 DEF WarmupSkip, TypeOK, brokerVars
<1>6. ASSUME NEW r \in Replicas, DuplicateSkip(r) \/ Decode(r) \/ InferClear(r) \/ InferRaises(r)
      PROVE  TypeOK'
  <2>1. current[r] \in Frames
    BY <1>0, <1>6, FrameInHand DEF DuplicateSkip, Decode, InferClear, InferRaises
  <2>2. events' \in [Frames -> SUBSET Events]
    BY <1>0, <1>6, <2>1, Recorded DEF DuplicateSkip, Decode, InferClear, InferRaises, TypeOK, Events
  <2>3. pc' \in [Replicas -> {"idle", "callback", "infer", "ack"}]
    BY <1>0, <1>6 DEF DuplicateSkip, Decode, InferClear, InferRaises, TypeOK
  <2>4. UNCHANGED <<published, brokerVars, link, current, warmup, lastHash, dispatcher, submissions, faults>>
    BY <1>6 DEF DuplicateSkip, Decode, InferClear, InferRaises
  <2> QED
    BY <1>0, <2>2, <2>3, <2>4 DEF TypeOK, brokerVars
<1>7. ASSUME NEW r \in Replicas, InferPerson(r) PROVE TypeOK'
  <2> DEFINE c == Camera[current[r]]
             h == Hash[current[r]]
  <2>1. current[r] \in Frames /\ c \in Cameras /\ current[r] \in Persons /\ h \in Range(Hash)
    <3>1. current[r] \in Frames /\ c \in Cameras
      BY <1>0, <1>7, FrameInHand DEF InferPerson
    <3> QED
      BY <1>7, <3>1, ClusterAssumption DEF InferPerson, Range
  <2>2. lastHash' = [lastHash EXCEPT ![r][c] = h]
    BY <1>7 DEF InferPerson
  <2> HIDE DEF c, h
  <2>3. lastHash' \in [Replicas -> [Cameras -> Range(Hash) \cup {NoHash}]]
    BY <1>0, <2>1, <2>2, Nested DEF TypeOK
  <2>4. /\ Admit(buffer[r], current[r]) \in Seq(Persons)
        /\ Len(Admit(buffer[r], current[r])) <= BufferSize
    BY <1>0, <2>1, Admitted DEF TypeOK
  <2>5. \A s \in Replicas : buffer'[s] = IF s = r THEN Admit(buffer[r], current[r]) ELSE buffer[s]
    BY <1>0, <1>7 DEF InferPerson, TypeOK
  <2>6. buffer' \in [Replicas -> Seq(Persons)] /\ \A s \in Replicas : Len(buffer'[s]) <= BufferSize
    BY <1>0, <1>7, <2>4, <2>5 DEF InferPerson, TypeOK
  <2>7. events' \in [Frames -> SUBSET Events]
    BY <1>0, <1>7 DEF InferPerson, TypeOK, Events
  <2>8. submissions' \in [Frames -> Nat] /\ pc' \in [Replicas -> {"idle", "callback", "infer", "ack"}]
    BY <1>0, <1>7, <2>1 DEF InferPerson, TypeOK
  <2> QED
    BY <1>0, <1>7, <2>3, <2>6, <2>7, <2>8 DEF InferPerson, TypeOK, brokerVars
<1>8. ASSUME NEW r \in Replicas, Ack(r) PROVE TypeOK'
  <2>1. acked' \subseteq Frames
    BY <1>0, <1>8, FrameInHand DEF Ack, TypeOK
  <2> QED
    BY <1>0, <1>8, <2>1 DEF Ack, TypeOK
<1>9. ASSUME NEW r \in Replicas, ConsumerError(r) PROVE TypeOK'
  BY <1>0, <1>9, ExitType DEF ConsumerError, TypeOK
<1>10. ASSUME NEW r \in Replicas, Crash(r) PROVE TypeOK'
  <2>1. frameQueue' \in Seq(Frames)
    BY <1>0, <1>10, Requeueing DEF Crash
  <2>2. faults' \in 0..MaxFaults
    BY <1>0, <1>10, ClusterAssumption DEF Crash, TypeOK
  <2> QED
    BY <1>0, <1>10, <2>1, <2>2, ExitType DEF Crash, TypeOK
<1>11. ASSUME NEW r \in Replicas, Start(r) PROVE TypeOK'
  BY <1>0, <1>11 DEF Start, TypeOK, brokerVars, processVars
<1>12. ASSUME NEW r \in Replicas, TakeOldest(r) PROVE TypeOK'
  <2>1. buffer[r] \in Seq(Persons) /\ buffer[r] # <<>> /\ Len(buffer[r]) <= BufferSize
    BY <1>0, <1>12 DEF TakeOldest, TypeOK
  <2>2. /\ Head(buffer[r]) \in Persons /\ Tail(buffer[r]) \in Seq(Persons)
        /\ Len(Tail(buffer[r])) <= BufferSize
    <3>1. /\ Head(buffer[r]) \in Persons /\ Tail(buffer[r]) \in Seq(Persons)
          /\ Len(Tail(buffer[r])) = Len(buffer[r]) - 1
      BY <2>1, HeadTailProperties
    <3>2. Len(buffer[r]) \in Nat /\ BufferSize \in Nat
      BY <2>1, ClusterAssumption
    <3> QED
      BY <2>1, <3>1, <3>2
  <2>3. \A s \in Replicas : buffer'[s] = IF s = r THEN Tail(buffer[r]) ELSE buffer[s]
    BY <1>0, <1>12 DEF TakeOldest, TypeOK
  <2>4. buffer' \in [Replicas -> Seq(Persons)] /\ \A s \in Replicas : Len(buffer'[s]) <= BufferSize
    BY <1>0, <1>12, <2>2, <2>3 DEF TakeOldest, TypeOK
  <2>5. held' \in [Replicas -> {0} \cup Persons]
    BY <1>0, <1>12, <2>2 DEF TakeOldest, TypeOK
  <2> QED
    BY <1>0, <1>12, <2>4, <2>5 DEF TakeOldest, TypeOK, brokerVars, processVars
<1>14. ASSUME NEW r \in Replicas, Settle(r) PROVE TypeOK'
  <2>1. held[r] \in Frames /\ held' \in [Replicas -> {0} \cup Persons]
    BY <1>0, <1>14, ClusterAssumption DEF Settle, TypeOK
  <2>2. events' \in [Frames -> SUBSET Events]
    BY <1>0, <1>14, <2>1, Recorded DEF Settle, TypeOK, Events
  <2> QED
    BY <1>0, <1>14, <2>1, <2>2 DEF Settle, TypeOK, brokerVars, processVars
<1>13. CASE UNCHANGED vars
  BY <1>0, <1>13 DEF vars, TypeOK, brokerVars, processVars
<1> QED
  BY <1>1, <1>2, <1>3, <1>4, <1>5, <1>6, <1>7, <1>8, <1>9, <1>10, <1>11, <1>12, <1>13, <1>14
     DEF Next, Consumer, Callback, Quiet, Dispatch

-----------------------------------------------------------------------------
(* Where the frames are *)

LEMMA ReplicaStep == IInv /\ [Next]_vars => ReplicaInv'
<1> SUFFICES ASSUME IInv, [Next]_vars PROVE ReplicaInv'
  OBVIOUS
<1>0. TypeOK /\ PlaceInv /\ ReplicaInv
  BY DEF IInv
<1>1. CASE Publish \/ UNCHANGED vars \/ \E r \in Replicas : Dispatch(r)
  BY <1>0, <1>1 DEF Publish, vars, Dispatch, TakeOldest, Settle, processVars, ReplicaInv
<1>2. CASE BrokerRestart
  <2>1. \A r \in Replicas : link'[r] = "down" => link[r] = "down"
    BY <1>0, <1>2 DEF BrokerRestart, TypeOK
  <2> QED
    BY <1>0, <1>2, <2>1 DEF BrokerRestart, processVars, ReplicaInv
<1>3. ASSUME NEW r \in Replicas, Deliver(r) PROVE ReplicaInv'
  <2>1. Head(frameQueue) \in Frames /\ Head(frameQueue) # 0
    BY <1>0, <1>3, TailOfSorted, ClusterAssumption, SMTT(30) DEF Deliver, TypeOK, PlaceInv, Frames
  <2> QED
    BY <1>0, <1>3, <2>1 DEF Deliver, TypeOK, ReplicaInv
<1>4. ASSUME NEW r \in Replicas, ConnectionLost(r) PROVE ReplicaInv'
  BY <1>0, <1>4 DEF ConnectionLost, TypeOK, processVars, ReplicaInv
<1>5. ASSUME NEW r \in Replicas, Callback(r), ~Ack(r) PROVE ReplicaInv'
  <2>1. link[r] # "down" /\ pc[r] # "idle" /\ UNCHANGED <<link, current>>
    BY <1>0, <1>5 DEF Callback, WarmupSkip, DuplicateSkip, Decode, InferClear, InferPerson,
         InferRaises, ReplicaInv
  <2>2. pc'[r] # "idle" /\ \A s \in Replicas : s # r => pc'[s] = pc[s]
    BY <1>0, <1>5 DEF Callback, WarmupSkip, DuplicateSkip, Decode, InferClear, InferPerson,
         InferRaises, TypeOK
  <2>3. \A s \in Replicas : s # r => warmup'[s] = warmup[s] /\ lastHash'[s] = lastHash[s]
    BY <1>0, <1>5 DEF Callback, WarmupSkip, DuplicateSkip, Decode, InferClear, InferPerson,
         InferRaises, TypeOK
  <2> QED
    BY <1>0, <2>1, <2>2, <2>3 DEF ReplicaInv
<1>6. ASSUME NEW r \in Replicas, Ack(r) PROVE ReplicaInv'
  BY <1>0, <1>6 DEF Ack, TypeOK, ReplicaInv
<1>7. ASSUME NEW r \in Replicas, Exit(r) PROVE ReplicaInv'
  BY <1>0, <1>7 DEF Exit, TypeOK, ReplicaInv
<1>8. ASSUME NEW r \in Replicas, Start(r) PROVE ReplicaInv'
  BY <1>0, <1>8 DEF Start, TypeOK, processVars, ReplicaInv
<1> QED
  BY <1>1, <1>2, <1>3, <1>4, <1>5, <1>6, <1>7, <1>8 DEF Next, Consumer, Quiet, ConsumerError, Crash

\* The steps that move no frame.
InPlace ==
  /\ UNCHANGED <<published, frameQueue, acked, brokerLost, faults>>
  /\ \A r \in Replicas : Unacked(r)' = Unacked(r)

\* The broker takes back what a replica has not acknowledged.
TakenBack(r) ==
  /\ link[r] # "down" /\ faults' = faults + 1
  /\ frameQueue' = Requeued(frameQueue, Unacked(r))
  /\ Unacked(r)' = {}
  /\ \A s \in Replicas : s # r => Unacked(s)' = Unacked(s)
  /\ UNCHANGED <<published, acked, brokerLost, deliveries, submissions>>

LEMMA Moves ==
  ASSUME IInv, [Next]_vars
  PROVE  InPlace \/ Publish \/ BrokerRestart
           \/ \E r \in Replicas : Deliver(r) \/ Ack(r) \/ TakenBack(r)
<1>0. TypeOK /\ ReplicaInv
  BY DEF IInv
<1>1. CASE UNCHANGED vars \/ \E r \in Replicas : Dispatch(r)
  BY <1>1 DEF vars, Dispatch, TakeOldest, Settle, brokerVars, processVars, InPlace, Unacked
<1>2. ASSUME NEW r \in Replicas, Callback(r), ~Ack(r) PROVE InPlace
  BY <1>2 DEF Callback, WarmupSkip, DuplicateSkip, Decode, InferClear, InferPerson, InferRaises,
       brokerVars, InPlace, Unacked
<1>3. ASSUME NEW r \in Replicas, ConnectionLost(r) PROVE TakenBack(r)
  <2>1. Unacked(r)' = {} /\ \A s \in Replicas : s # r => Unacked(s)' = Unacked(s)
    BY <1>0, <1>3 DEF ConnectionLost, processVars, TypeOK, Unacked
  <2> QED
    BY <1>3, <2>1 DEF ConnectionLost, TakenBack
<1>4. ASSUME NEW r \in Replicas, Exit(r)
      PROVE  Unacked(r)' = {} /\ \A s \in Replicas : s # r => Unacked(s)' = Unacked(s)
  BY <1>0, <1>4 DEF Exit, TypeOK, Unacked
<1>5. ASSUME NEW r \in Replicas, Crash(r) PROVE TakenBack(r)
  BY <1>4, <1>5 DEF Crash, Exit, TakenBack
<1>6. ASSUME NEW r \in Replicas, ConsumerError(r) PROVE InPlace
  <2>1. Unacked(r) = {}
    BY <1>6 DEF ConsumerError, Unacked
  <2> QED
    BY <1>4, <1>6, <2>1 DEF ConsumerError, Exit, InPlace
<1>7. ASSUME NEW r \in Replicas, Start(r) PROVE InPlace
  <2>1. current[r] = 0
    BY <1>0, <1>7 DEF Start, ReplicaInv
  <2>2. \A s \in Replicas : Unacked(s)' = Unacked(s)
    BY <1>0, <1>7, <2>1 DEF Start, processVars, TypeOK, Unacked
  <2> QED
    BY <1>7, <2>2 DEF Start, brokerVars, InPlace
<1> QED
  BY <1>1, <1>2, <1>3, <1>5, <1>6, <1>7 DEF Next, Consumer, Quiet

LEMMA ReadyWasPublished ==
  ASSUME TypeOK, PlaceInv
  PROVE  Ready \subseteq Frames /\ \A g \in Ready : g < published + 1
<1>1. \A i \in DOMAIN frameQueue : frameQueue[i] \in Frames
  BY DEF TypeOK
<1>2. Ready \subseteq Frames
  BY <1>1 DEF Ready, Range
<1>3. published \in Nat /\ Frames \subseteq Nat
  BY ClusterAssumption DEF TypeOK, Frames
<1>4. \A g \in Ready : g <= published
  BY <1>2 DEF PlaceInv
<1> QED
  BY <1>2, <1>3, <1>4

LEMMA PlaceStep == IInv /\ [Next]_vars => PlaceInv'
<1> SUFFICES ASSUME IInv, [Next]_vars PROVE PlaceInv'
  OBVIOUS
<1>0. TypeOK /\ PlaceInv /\ ReplicaInv
  BY DEF IInv
<1>1. CASE InPlace
  BY <1>0, <1>1 DEF InPlace, PlaceInv, Ready
<1>2. CASE Publish
  <2> DEFINE f == published + 1
  <2>1. f \in Frames /\ published \in Nat /\ Frames \subseteq Nat
    BY <1>0, <1>2, ClusterAssumption DEF Publish, TypeOK, Frames
  <2>2. frameQueue \in Seq(Frames) /\ \A g \in Ready : g \in Frames /\ g < f
    BY <1>0, ReadyWasPublished DEF TypeOK
  <2>3. Sorted(frameQueue') /\ Ready' = Ready \cup {f}
    BY <1>0, <1>2, <2>1, <2>2, AppendNewest DEF Publish, PlaceInv, Ready
  <2>4. /\ published' = f /\ UNCHANGED <<acked, brokerLost>>
        /\ \A r \in Replicas : Unacked(r)' = Unacked(r)
    BY <1>2 DEF Publish, processVars, Unacked
  <2>5. \A g \in Frames : g <= f <=> g <= published \/ g = f
    BY <2>1
  <2>6. f \notin Ready /\ f \notin acked /\ f \notin brokerLost /\ \A r \in Replicas : f \notin Unacked(r)
    BY <1>0, <2>1 DEF PlaceInv
  <2> HIDE DEF f
  <2> QED
    BY <1>0, <2>3, <2>4, <2>5, <2>6 DEF PlaceInv
<1>3. CASE BrokerRestart
  <2>1. Sorted(frameQueue') /\ Ready' = {}
    BY <1>3 DEF BrokerRestart, Sorted, Ready, Range
  <2>2. \A r \in Replicas : Unacked(r)' = {}
    BY <1>0, <1>3 DEF BrokerRestart, TypeOK, Unacked
  <2>3. brokerLost' = brokerLost \cup Ready \cup UNION {Unacked(r) : r \in Replicas}
    BY <1>3 DEF BrokerRestart, Ready
  <2>4. UNCHANGED <<published, acked>>
    BY <1>3 DEF BrokerRestart
  <2> QED
    BY <1>0, <2>1, <2>2, <2>3, <2>4 DEF PlaceInv
<1>4. ASSUME NEW r \in Replicas, Deliver(r) PROVE PlaceInv'
  <2> DEFINE f == Head(frameQueue)
  <2>1. frameQueue \in Seq(Frames) /\ frameQueue # <<>> /\ Sorted(frameQueue)
    BY <1>0, <1>4 DEF Deliver, TypeOK, PlaceInv
  <2>2. f \in Frames /\ f # 0 /\ Sorted(frameQueue') /\ Ready = {f} \cup Ready' /\ f \notin Ready'
    BY <1>4, <2>1, TailOfSorted, ClusterAssumption DEF Deliver, Ready, Frames
  <2>3. /\ Unacked(r) = {} /\ Unacked(r)' = {f}
        /\ \A s \in Replicas : s # r => Unacked(s)' = Unacked(s)
    BY <1>0, <1>4, <2>2 DEF Deliver, TypeOK, Unacked
  <2>4. UNCHANGED <<published, acked, brokerLost>>
    BY <1>4 DEF Deliver
  <2> HIDE DEF f
  <2> QED
    BY <1>0, <2>2, <2>3, <2>4 DEF PlaceInv
<1>5. ASSUME NEW r \in Replicas, Ack(r) PROVE PlaceInv'
  <2>1. current[r] \in Frames /\ current[r] # 0
    BY <1>0, <1>5, FrameInHand, ClusterAssumption DEF Ack, Frames
  <2>2. /\ Unacked(r)' = {} /\ acked' = acked \cup Unacked(r)
        /\ \A s \in Replicas : s # r => Unacked(s)' = Unacked(s)
    BY <1>0, <1>5, <2>1 DEF Ack, TypeOK, Unacked
  <2>3. UNCHANGED <<published, frameQueue, brokerLost>>
    BY <1>5 DEF Ack
  <2> QED
    BY <1>0, <2>2, <2>3 DEF PlaceInv, Ready
<1>6. ASSUME NEW r \in Replicas, TakenBack(r) PROVE PlaceInv'
  <2>1. Sorted(frameQueue') /\ Ready' = Ready \cup Unacked(r)
    BY <1>0, <1>6, Requeueing DEF TakenBack, Ready
  <2> QED
    BY <1>0, <1>6, <2>1 DEF TakenBack, PlaceInv
<1> QED
  BY <1>1, <1>2, <1>3, <1>4, <1>5, <1>6, Moves

-----------------------------------------------------------------------------
(* How often a frame is delivered and submitted *)

LEMMA BusyFinite == \A f \in Frames : IsFiniteSet(Busy(f)) /\ Cardinality(Busy(f)) \in Nat
BY ClusterAssumption, FS_Subset, FS_CardinalityType DEF Busy

LEMMA BusyFewer ==
  ASSUME NEW f \in Frames, NEW S, S \subseteq Busy(f)
  PROVE  IsFiniteSet(S) /\ Cardinality(S) \in Nat /\ Cardinality(S) <= Cardinality(Busy(f))
BY BusyFinite, FS_Subset, FS_CardinalityType

LEMMA DeliveryStep == IInv /\ [Next]_vars => DeliveryInv'
<1> SUFFICES ASSUME IInv, [Next]_vars PROVE DeliveryInv'
  OBVIOUS
<1>0. TypeOK /\ PlaceInv /\ ReplicaInv /\ DeliveryInv
  BY DEF IInv
<1> DEFINE slack(f) == IF f \in Ready \/ f > published THEN 0 ELSE 1
<1>a. /\ faults \in Nat /\ published \in Nat /\ Frames \subseteq Nat
      /\ \A f \in Frames : deliveries[f] \in Nat /\ submissions[f] \in Nat
  BY <1>0, ClusterAssumption DEF TypeOK, Frames
<1>b. \A f \in Frames : deliveries[f] <= faults + slack(f)
  BY <1>0 DEF DeliveryInv
<1>1. \A f \in Frames : deliveries'[f] <= faults' + slack(f)'
  <2>1. CASE InPlace /\ UNCHANGED deliveries
    BY <1>b, <2>1 DEF InPlace, Ready
  <2>2. CASE Publish
    <3>1. /\ published + 1 \in Frames /\ frameQueue \in Seq(Frames) /\ Sorted(frameQueue)
          /\ \A g \in Ready : g < published + 1
      <4>1. published + 1 \in Frames
        BY <1>a, <2>2, ClusterAssumption DEF Publish, Frames
      <4> QED
        BY <1>0, <4>1, ReadyWasPublished DEF TypeOK, PlaceInv
    <3>2. Ready' = Ready \cup {published + 1}
      BY <2>2, <3>1, AppendNewest DEF Publish, Ready
    <3>3. published' = published + 1 /\ UNCHANGED <<deliveries, faults>>
      BY <2>2 DEF Publish
    <3> QED
      BY <1>a, <1>b, <3>2, <3>3
  <2>3. CASE BrokerRestart \/ \E r \in Replicas : TakenBack(r)
    <3>1. faults' = faults + 1 /\ UNCHANGED deliveries
      BY <2>3 DEF BrokerRestart, TakenBack
    <3>2. \A f \in Frames : slack(f) \in {0, 1} /\ slack(f)' \in {0, 1}
      OBVIOUS
    <3> HIDE DEF slack
    <3> QED
      BY <1>a, <1>b, <3>1, <3>2
  <2>4. ASSUME NEW r \in Replicas, Deliver(r)
        PROVE  \A f \in Frames : deliveries'[f] <= faults' + slack(f)'
    <3> DEFINE h == Head(frameQueue)
    <3>1. h \in Frames /\ Ready = {h} \cup Ready' /\ h \notin Ready' /\ h <= published
      BY <1>0, <2>4, TailOfSorted DEF Deliver, TypeOK, PlaceInv, Ready
    <3>2. /\ UNCHANGED <<published, faults>>
          /\ \A f \in Frames : deliveries'[f] = deliveries[f] + IF f = h THEN 1 ELSE 0
      BY <1>0, <2>4, <3>1 DEF Deliver, TypeOK
    <3> HIDE DEF h
    <3> QED
      BY <1>a, <1>b, <3>1, <3>2
  <2>5. ASSUME NEW r \in Replicas, Ack(r)
        PROVE  \A f \in Frames : deliveries'[f] <= faults' + slack(f)'
    BY <1>b, <2>5 DEF Ack, Ready
  <2>6. ~(\E r \in Replicas : Deliver(r)) => UNCHANGED deliveries
    BY DEF Next, Consumer, Callback, WarmupSkip, DuplicateSkip, Decode, InferClear, InferPerson,
         InferRaises, Ack,
           ConsumerError, Start, Exit, Crash, ConnectionLost, Dispatch, TakeOldest, Settle, Publish, BrokerRestart,
           Quiet, vars, brokerVars
  <2> QED
    BY <2>1, <2>2, <2>3, <2>4, <2>5, <2>6, Moves
<1>2. \A f \in Frames : submissions'[f] + Cardinality(Busy(f)') <= deliveries'[f]
  <2>0. \A f \in Frames : submissions[f] + Cardinality(Busy(f)) <= deliveries[f]
    BY <1>0 DEF DeliveryInv
  <2>1. ASSUME UNCHANGED <<submissions, deliveries>>, \A f \in Frames : Busy(f)' \subseteq Busy(f)
        PROVE  \A f \in Frames : submissions'[f] + Cardinality(Busy(f)') <= deliveries'[f]
    <3> TAKE f \in Frames
    <3>1. /\ Cardinality(Busy(f)') \in Nat /\ Cardinality(Busy(f)') <= Cardinality(Busy(f))
          /\ Cardinality(Busy(f)) \in Nat
      BY <2>1, BusyFewer, BusyFinite
    <3> QED
      BY <1>a, <2>0, <2>1, <3>1
  <2>2. CASE Publish \/ BrokerRestart \/ UNCHANGED vars \/ \E r \in Replicas : Start(r) \/ Dispatch(r) \/ ConnectionLost(r)
    <3>1. UNCHANGED <<submissions, deliveries, current, pc>>
      BY <2>2 DEF Publish, BrokerRestart, vars, Start, Dispatch, TakeOldest, Settle, ConnectionLost, brokerVars, processVars
    <3> QED
      BY <2>1, <3>1 DEF Busy
  <2>3. ASSUME NEW r \in Replicas, Exit(r)
        PROVE  \A f \in Frames : Busy(f)' \subseteq Busy(f) /\ UNCHANGED <<submissions, deliveries>>
    BY <1>0, <2>3 DEF Exit, TypeOK, Busy
  <2>4. ASSUME NEW r \in Replicas, WarmupSkip(r) \/ DuplicateSkip(r) \/ Decode(r) \/ InferClear(r) \/ InferRaises(r)
        PROVE  \A f \in Frames : Busy(f)' \subseteq Busy(f) /\ UNCHANGED <<submissions, deliveries>>
    <3>1. pc[r] \in {"callback", "infer"} /\ UNCHANGED <<current, submissions, deliveries>>
      BY <2>4 DEF WarmupSkip, DuplicateSkip, Decode, InferClear, InferRaises, brokerVars
    <3>2. \A s \in Replicas : s # r => pc'[s] = pc[s]
      BY <1>0, <2>4 DEF WarmupSkip, DuplicateSkip, Decode, InferClear, InferRaises, TypeOK
    <3> QED
      BY <3>1, <3>2 DEF Busy
  <2>5. ASSUME NEW r \in Replicas, Ack(r)
        PROVE  \A f \in Frames : Busy(f)' \subseteq Busy(f) /\ UNCHANGED <<submissions, deliveries>>
    BY <1>0, <2>5 DEF Ack, TypeOK, Busy
  <2>6. ASSUME NEW r \in Replicas, InferPerson(r), NEW f \in Frames
        PROVE  submissions'[f] + Cardinality(Busy(f)') <= deliveries'[f]
    <3>1. current[r] \in Frames /\ pc[r] = "infer" /\ UNCHANGED <<current, deliveries>>
      BY <1>0, <2>6, FrameInHand DEF InferPerson, brokerVars
    <3>2. submissions'[f] = submissions[f] + IF f = current[r] THEN 1 ELSE 0
      BY <1>0, <2>6, <3>1 DEF InferPerson, TypeOK
    <3>3. Busy(f)' = Busy(f) \ {r} /\ (f = current[r] => r \in Busy(f))
      BY <1>0, <2>6, <3>1 DEF InferPerson, TypeOK, Busy
    <3>4. CASE f = current[r]
      <4>1. Cardinality(Busy(f) \ {r}) = Cardinality(Busy(f)) - 1 /\ Cardinality(Busy(f)) \in Nat
        BY <3>3, <3>4, BusyFinite, FS_RemoveElement
      <4> QED
        BY <1>a, <2>0, <3>1, <3>2, <3>3, <3>4, <4>1
    <3>5. CASE f # current[r]
      <4>1. /\ Cardinality(Busy(f)') \in Nat /\ Cardinality(Busy(f)') <= Cardinality(Busy(f))
            /\ Cardinality(Busy(f)) \in Nat
        BY <3>3, BusyFewer, BusyFinite
      <4> QED
        BY <1>a, <2>0, <3>1, <3>2, <3>5, <4>1
    <3> QED
      BY <3>4, <3>5
  <2>7. ASSUME NEW r \in Replicas, Deliver(r), NEW f \in Frames
        PROVE  submissions'[f] + Cardinality(Busy(f)') <= deliveries'[f]
    <3> DEFINE h == Head(frameQueue)
    <3>1. h \in Frames
      BY <1>0, <2>7, TailOfSorted DEF Deliver, TypeOK, PlaceInv
    <3>2. UNCHANGED submissions /\ deliveries'[f] = deliveries[f] + IF f = h THEN 1 ELSE 0
      BY <1>0, <2>7, <3>1 DEF Deliver, TypeOK
    <3>3. Busy(f)' = (IF f = h THEN Busy(f) \cup {r} ELSE Busy(f)) /\ r \notin Busy(f)
      BY <1>0, <2>7, <3>1 DEF Deliver, TypeOK, Busy
    <3> HIDE DEF h
    <3>4. Cardinality(Busy(f) \cup {r}) = Cardinality(Busy(f)) + 1 /\ Cardinality(Busy(f)) \in Nat
      BY <3>3, BusyFinite, FS_AddElement
    <3> QED
      BY <1>a, <2>0, <3>2, <3>3, <3>4
  <2> QED
    BY <2>1, <2>2, <2>3, <2>4, <2>5, <2>6, <2>7 DEF Next, Consumer, Callback, Quiet, ConsumerError, Crash
<1> QED
  BY <1>1, <1>2 DEF DeliveryInv

-----------------------------------------------------------------------------
(* Why a frame is dropped *)

\* What happened to a frame stays recorded.
LEMMA Monotone ==
  ASSUME IInv, [Next]_vars, NEW f \in Frames
  PROVE  events[f] \subseteq events'[f] /\ (submissions[f] > 0 => submissions'[f] > 0)
<1>0. TypeOK /\ ReplicaInv
  BY DEF IInv
<1>a. events \in [Frames -> SUBSET Events] /\ submissions \in [Frames -> Nat]
  BY <1>0 DEF TypeOK
<1>1. CASE UNCHANGED <<events, submissions>>
  BY <1>1
<1>2. ASSUME UNCHANGED submissions, NEW g \in Frames, NEW what \in Events, Happens(g, what)
      PROVE  events[f] \subseteq events'[f] /\ (submissions[f] > 0 => submissions'[f] > 0)
  BY <1>a, <1>2, Recorded
<1>3. ASSUME NEW r \in Replicas, WarmupSkip(r) \/ DuplicateSkip(r) \/ Decode(r) \/ InferClear(r) \/ InferRaises(r)
      PROVE  events[f] \subseteq events'[f] /\ (submissions[f] > 0 => submissions'[f] > 0)
  <2>1. current[r] \in Frames
    BY <1>0, <1>3, FrameInHand DEF WarmupSkip, DuplicateSkip, Decode, InferClear, InferRaises
  <2>2. \/ UNCHANGED <<events, submissions>>
        \/ UNCHANGED submissions /\ \E what \in Events : Happens(current[r], what)
    BY <1>3 DEF WarmupSkip, DuplicateSkip, Decode, InferClear, InferRaises, Events
  <2> QED
    BY <1>1, <1>2, <2>1, <2>2
<1>4. ASSUME NEW r \in Replicas, InferPerson(r)
      PROVE  events[f] \subseteq events'[f] /\ (submissions[f] > 0 => submissions'[f] > 0)
  <2>1. current[r] \in Frames
    BY <1>0, <1>4, FrameInHand DEF InferPerson
  <2>2. events[f] \subseteq events'[f]
    BY <1>a, <1>4 DEF InferPerson
  <2>3. submissions'[f] = submissions[f] + IF f = current[r] THEN 1 ELSE 0
    BY <1>a, <1>4, <2>1 DEF InferPerson
  <2> QED
    BY <1>a, <2>2, <2>3
<1>5. ASSUME NEW r \in Replicas, Exit(r)
      PROVE  events[f] \subseteq events'[f] /\ (submissions[f] > 0 => submissions'[f] > 0)
  BY <1>a, <1>5 DEF Exit
<1>6. ASSUME NEW r \in Replicas, Settle(r)
      PROVE  events[f] \subseteq events'[f] /\ (submissions[f] > 0 => submissions'[f] > 0)
  <2>1. held[r] \in Frames
    BY <1>0, <1>6, ClusterAssumption DEF Settle, TypeOK
  <2>2. UNCHANGED submissions /\ \E what \in Events : Happens(held[r], what)
    BY <1>6 DEF Settle, Events
  <2> QED
    BY <1>2, <2>1, <2>2
<1>7. ASSUME Publish \/ BrokerRestart \/ Quiet \/ UNCHANGED vars
               \/ \E r \in Replicas : Deliver(r) \/ Ack(r) \/ Start(r) \/ ConnectionLost(r) \/ TakeOldest(r)
      PROVE  UNCHANGED <<events, submissions>>
  BY <1>7 DEF Publish, BrokerRestart, Quiet, vars, Deliver, Ack, Start, ConnectionLost, TakeOldest
<1> QED
  BY <1>1, <1>3, <1>4, <1>5, <1>6, <1>7 DEF Next, Consumer, Callback, ConsumerError, Crash, Dispatch

\* A hash that a replica has is remembered by its last submission.
LEMMA HashStep ==
  ASSUME IInv, [Next]_vars, NEW r \in Replicas, NEW c \in Cameras, lastHash'[r][c] # NoHash
  PROVE  \E g \in Frames : Camera[g] = c /\ Hash[g] = lastHash'[r][c] /\ submissions'[g] > 0
<1>0. TypeOK /\ ReplicaInv /\ FilterInv
  BY DEF IInv
<1>1. CASE lastHash'[r][c] = lastHash[r][c]
  BY <1>0, <1>1, Monotone DEF FilterInv
<1>2. ASSUME NEW s \in Replicas, InferPerson(s), lastHash'[r][c] # lastHash[r][c]
      PROVE  \E g \in Frames : Camera[g] = c /\ Hash[g] = lastHash'[r][c] /\ submissions'[g] > 0
  <2> DEFINE d == Camera[current[s]]
             h == Hash[current[s]]
  <2>1. current[s] \in Frames /\ d \in Cameras /\ h \in Range(Hash)
    <3>1. current[s] \in Frames /\ d \in Cameras
      BY <1>0, <1>2, FrameInHand DEF InferPerson
    <3> QED
      BY <3>1, ClusterAssumption DEF Range
  <2>2. lastHash' = [lastHash EXCEPT ![s][d] = h]
    BY <1>2 DEF InferPerson
  <2>3. submissions'[current[s]] > 0
    BY <1>0, <1>2, <2>1 DEF InferPerson, TypeOK
  <2> HIDE DEF d, h
  <2>4. lastHash'[r][c] = IF r = s /\ c = d THEN h ELSE lastHash[r][c]
    BY <1>0, <2>1, <2>2, Nested DEF TypeOK
  <2>5. c = d /\ lastHash'[r][c] = h
    BY <1>2, <2>4
  <2> QED
    BY <2>1, <2>3, <2>5 DEF d, h
<1>3. ASSUME NEW s \in Replicas, Exit(s) PROVE lastHash'[r][c] \in {lastHash[r][c], NoHash}
  BY <1>0, <1>3 DEF Exit, FreshHashes, TypeOK
<1>4. ASSUME ~\E s \in Replicas : InferPerson(s) \/ Exit(s) PROVE UNCHANGED lastHash
  BY <1>4 DEF Next, Consumer, Callback, WarmupSkip, DuplicateSkip, Decode, InferClear, InferRaises,
       Ack, Deliver,
       ConsumerError, Start, Crash, ConnectionLost, Dispatch, TakeOldest, Settle, Publish, BrokerRestart, Quiet, vars,
       processVars
<1> QED
  BY <1>1, <1>2, <1>3, <1>4

LEMMA DuplicateStep == IInv /\ [Next]_vars => DuplicatesWereSubmitted'
<1> SUFFICES ASSUME IInv, [Next]_vars, NEW f \in Frames, "duplicate" \in events'[f]
             PROVE  \E g \in Frames : Camera[g] = Camera[f] /\ Hash[g] = Hash[f] /\ submissions'[g] > 0
  BY DEF DuplicatesWereSubmitted
<1>0. TypeOK /\ ReplicaInv /\ FilterInv /\ DuplicatesWereSubmitted
  BY DEF IInv
<1>a. events \in [Frames -> SUBSET Events]
  BY <1>0 DEF TypeOK
<1>1. CASE "duplicate" \in events[f]
  BY <1>0, <1>1, Monotone DEF DuplicatesWereSubmitted
<1>2. ASSUME NEW r \in Replicas, DuplicateSkip(r), "duplicate" \notin events[f]
      PROVE  \E g \in Frames : Camera[g] = Camera[f] /\ Hash[g] = Hash[f] /\ submissions'[g] > 0
  <2>1. current[r] \in Frames /\ Camera[current[r]] \in Cameras
    BY <1>0, <1>2, FrameInHand DEF DuplicateSkip
  <2>2. f = current[r]
    <3>1. "duplicate" \in Events /\ Happens(current[r], "duplicate")
      BY <1>2 DEF DuplicateSkip, Events
    <3>2. events'[f] = IF f = current[r] THEN events[f] \cup {"duplicate"} ELSE events[f]
      BY <1>a, <2>1, <3>1, Recorded
    <3> QED
      BY <1>2, <3>2
  <2>3. lastHash[r][Camera[f]] = Hash[f] /\ Hash[f] # NoHash
    BY <1>2, <2>2, ClusterAssumption DEF DuplicateSkip, IsDuplicate, Range
  <2> QED
    BY <1>0, <2>1, <2>2, <2>3, Monotone DEF FilterInv
<1>3. ASSUME NEW g \in Frames, NEW what \in Events, what # "duplicate", Happens(g, what)
      PROVE  "duplicate" \in events[f]
  BY <1>a, <1>3, Recorded
<1>4. ASSUME NEW r \in Replicas, WarmupSkip(r) \/ Decode(r) \/ InferClear(r) \/ InferRaises(r)
      PROVE  "duplicate" \in events[f]
  <2>1. current[r] \in Frames
    BY <1>0, <1>4, FrameInHand DEF WarmupSkip, Decode, InferClear, InferRaises
  <2>2. UNCHANGED events \/ \E what \in Events : what # "duplicate" /\ Happens(current[r], what)
    BY <1>4 DEF WarmupSkip, Decode, InferClear, InferRaises, Events
  <2> QED
    BY <1>3, <2>1, <2>2
<1>5. ASSUME NEW r \in Replicas, InferPerson(r) \/ Exit(r) PROVE "duplicate" \in events[f]
  BY <1>a, <1>5 DEF InferPerson, Exit
<1>6. ASSUME NEW r \in Replicas, Settle(r) PROVE "duplicate" \in events[f]
  <2>1. held[r] \in Frames
    BY <1>0, <1>6, ClusterAssumption DEF Settle, TypeOK
  <2>2. \E what \in Events : what # "duplicate" /\ Happens(held[r], what)
    BY <1>6 DEF Settle, Events
  <2> QED
    BY <1>3, <2>1, <2>2
<1>7. ASSUME Publish \/ BrokerRestart \/ Quiet \/ UNCHANGED vars
               \/ \E r \in Replicas : Deliver(r) \/ Ack(r) \/ Start(r) \/ ConnectionLost(r) \/ TakeOldest(r)
      PROVE  UNCHANGED events
  BY <1>7 DEF Publish, BrokerRestart, Quiet, vars, Deliver, Ack, Start, ConnectionLost, TakeOldest
<1> QED
  BY <1>1, <1>2, <1>4, <1>5, <1>6, <1>7 DEF Next, Consumer, Callback, ConsumerError, Crash, Dispatch

LEMMA HandledStays ==
  ASSUME IInv, [Next]_vars, NEW f \in Frames, Handled(f)
  PROVE  Handled(f)'
BY Monotone DEF Handled

LEMMA HandledStep ==
  ASSUME IInv, [Next]_vars, NEW r \in Replicas, pc'[r] = "ack", current'[r] \in Persons
  PROVE  Handled(current[r])' /\ current'[r] = current[r]
<1>0. TypeOK /\ ReplicaInv /\ FilterInv
  BY DEF IInv
<1>a. events \in [Frames -> SUBSET Events] /\ pc \in [Replicas -> {"idle", "callback", "infer", "ack"}]
      /\ current \in [Replicas -> {0} \cup Frames]
  BY <1>0 DEF TypeOK
<1>1. CASE pc[r] = "ack" /\ current'[r] = current[r]
  BY <1>0, <1>1, FrameInHand, HandledStays DEF FilterInv
<1>2. ASSUME NEW s \in Replicas, Deliver(s) \/ Ack(s) \/ Exit(s)
      PROVE  pc[r] = "ack" /\ current'[r] = current[r]
  BY <1>a, <1>2 DEF Deliver, Ack, Exit
<1>3. ASSUME NEW s \in Replicas, Callback(s), ~Ack(s), s # r
      PROVE  pc[r] = "ack" /\ current'[r] = current[r]
  BY <1>a, <1>3 DEF Callback, WarmupSkip, DuplicateSkip, Decode, InferClear, InferPerson, InferRaises
<1>4. ASSUME WarmupSkip(r) \/ DuplicateSkip(r) \/ InferRaises(r)
      PROVE  Handled(current[r])' /\ current'[r] = current[r]
  <2>1. current[r] \in Frames /\ current' = current
    BY <1>0, <1>4, FrameInHand DEF WarmupSkip, DuplicateSkip, InferRaises
  <2>2. PICK what \in {"warmup", "duplicate", "error"} : Happens(current[r], what)
    BY <1>4 DEF WarmupSkip, DuplicateSkip, InferRaises
  <2>3. what \in events'[current[r]]
    <3>1. events' = [events EXCEPT ![current[r]] = @ \cup {what}]
      BY <2>2 DEF Happens
    <3> QED
      BY <1>a, <2>1, <3>1
  <2> QED
    BY <2>1, <2>3 DEF Handled
<1>5. ASSUME Decode(r) \/ InferClear(r) PROVE FALSE
  BY <1>a, <1>5, ClusterAssumption DEF Decode, InferClear
<1>6. ASSUME InferPerson(r) PROVE Handled(current[r])' /\ current'[r] = current[r]
  <2>1. current[r] \in Frames /\ current' = current
    BY <1>0, <1>6, FrameInHand DEF InferPerson
  <2>2. submissions'[current[r]] > 0
    BY <1>0, <1>6, <2>1 DEF InferPerson, TypeOK
  <2> QED
    BY <2>1, <2>2 DEF Handled
<1>7. ASSUME Publish \/ BrokerRestart \/ Quiet \/ UNCHANGED vars
               \/ \E s \in Replicas : Start(s) \/ ConnectionLost(s) \/ Dispatch(s)
      PROVE  pc[r] = "ack" /\ current'[r] = current[r]
  BY <1>7 DEF Publish, BrokerRestart, Quiet, vars, Start, ConnectionLost, Dispatch, TakeOldest, Settle, processVars
<1> QED
  BY <1>1, <1>2, <1>3, <1>4, <1>5, <1>6, <1>7 DEF Next, Consumer, Callback, ConsumerError, Crash

LEMMA FilterStep == IInv /\ [Next]_vars => FilterInv'
<1> SUFFICES ASSUME IInv, [Next]_vars PROVE FilterInv'
  OBVIOUS
<1>1. \A r \in Replicas, c \in Cameras : lastHash'[r][c] # NoHash =>
        \E g \in Frames : Camera[g] = c /\ Hash[g] = lastHash'[r][c] /\ submissions'[g] > 0
  BY HashStep
<1>2. \A r \in Replicas : pc'[r] = "ack" /\ current'[r] \in Persons => Handled(current[r])' /\ current'[r] = current[r]
  BY HandledStep
<1> QED
  BY <1>1, <1>2 DEF FilterInv, Handled

LEMMA PersonsStep == IInv /\ [Next]_vars => PersonsAreSubmitted'
<1> SUFFICES ASSUME IInv, [Next]_vars, NEW f \in acked', f \in Persons PROVE Handled(f)'
  BY DEF PersonsAreSubmitted, Handled
<1>0. TypeOK /\ ReplicaInv /\ FilterInv /\ PersonsAreSubmitted /\ f \in Frames
  BY ClusterAssumption DEF IInv
<1>1. CASE f \in acked
  BY <1>0, <1>1, HandledStays DEF PersonsAreSubmitted, Handled
<1>2. ASSUME NEW r \in Replicas, Ack(r) PROVE Handled(f)'
  <2>1. CASE f = current[r]
    BY <1>0, <1>2, <2>1, HandledStays DEF Ack, FilterInv
  <2> QED
    BY <1>1, <1>2, <2>1 DEF Ack
<1>3. ASSUME ~\E r \in Replicas : Ack(r) PROVE acked' = acked
  BY <1>3 DEF Next, Consumer, Callback, WarmupSkip, DuplicateSkip, Decode, InferClear, InferPerson,
       InferRaises, Deliver,
       ConsumerError, Exit, Start, Crash, ConnectionLost, Dispatch, TakeOldest, Settle, Publish, BrokerRestart, Quiet,
       vars, brokerVars
<1> QED
  BY <1>1, <1>2, <1>3

-----------------------------------------------------------------------------
(* What warm-up costs *)

LEMMA WarmupFinite ==
  ASSUME NEW c \in Cameras
  PROVE  /\ IsFiniteSet(Swallowed(c)) /\ Cardinality(Swallowed(c)) \in Nat
         /\ IsFiniteSet(Slots(c)) /\ Cardinality(Slots(c)) \in Nat
         /\ Cardinality(Slots(c)) <= WarmupLimit * Cardinality(Replicas)
         /\ IsFiniteSet(Closed) /\ Cardinality(Closed) \in Nat /\ Cardinality(Closed) <= Cardinality(Replicas)
         /\ Cardinality(Replicas) \in Nat /\ WarmupLimit \in Nat
<1>1. IsFiniteSet(Frames)
  <2>1. 1 \in Int /\ MaxFrames \in Int
    BY ClusterAssumption
  <2> QED
    BY <2>1, FS_Interval DEF Frames
<1>2. IsFiniteSet(Swallowed(c)) /\ Cardinality(Swallowed(c)) \in Nat
  BY <1>1, FS_Subset, FS_CardinalityType DEF Swallowed
<1>3. IsFiniteSet(Replicas) /\ Cardinality(Replicas) \in Nat /\ WarmupLimit \in Nat
  BY ClusterAssumption, FS_CardinalityType
<1>4. /\ Closed \subseteq Replicas /\ IsFiniteSet(Closed)
      /\ Cardinality(Closed) \in Nat /\ Cardinality(Closed) <= Cardinality(Replicas)
  BY <1>3, FS_Subset, FS_CardinalityType DEF Closed
<1>5. IsFiniteSet(1..WarmupLimit) /\ Cardinality(1..WarmupLimit) = WarmupLimit
  <2>1. 1 \in Int /\ WarmupLimit \in Int
    BY <1>3
  <2>2. /\ IsFiniteSet(1..WarmupLimit)
        /\ Cardinality(1..WarmupLimit) = IF 1 > WarmupLimit THEN 0 ELSE WarmupLimit - 1 + 1
    BY <2>1, FS_Interval
  <2> QED
    BY <1>3, <2>2
<1> DEFINE P == Replicas \X (1..WarmupLimit)
<1>6. IsFiniteSet(P) /\ Cardinality(P) = Cardinality(Replicas) * Cardinality(1..WarmupLimit)
  BY <1>3, <1>5, FS_Product
<1>7. Slots(c) \subseteq P
  BY DEF Slots
<1> HIDE DEF P
<1>8. IsFiniteSet(Slots(c)) /\ Cardinality(Slots(c)) \in Nat /\ Cardinality(Slots(c)) <= Cardinality(P)
  BY <1>6, <1>7, FS_Subset, FS_CardinalityType
<1>9. Cardinality(P) = WarmupLimit * Cardinality(Replicas)
  BY <1>3, <1>5, <1>6
<1> QED
  BY <1>2, <1>3, <1>4, <1>8, <1>9

\* A life that ends frees the slots of one replica.
LEMMA LifeEnds ==
  ASSUME NEW r \in Replicas, NEW c \in Cameras, IsFiniteSet(Slots(c)'),
         \A s \in Replicas : s # r => warmup'[s] = warmup[s]
  PROVE  Cardinality(Slots(c)) <= Cardinality(Slots(c)') + WarmupLimit
<1> DEFINE own == {r} \X (1..WarmupLimit)
           S == Slots(c)
           T == Slots(c)'
<1>1. S \subseteq T \cup own
  BY DEF Slots
<1>2. IsFiniteSet({r}) /\ Cardinality({r}) = 1
  BY FS_Singleton
<1>3. WarmupLimit \in Nat /\ IsFiniteSet(1..WarmupLimit) /\ Cardinality(1..WarmupLimit) = WarmupLimit
  <2>1. 1 \in Int /\ WarmupLimit \in Int /\ WarmupLimit \in Nat
    BY ClusterAssumption
  <2>2. /\ IsFiniteSet(1..WarmupLimit)
        /\ Cardinality(1..WarmupLimit) = IF 1 > WarmupLimit THEN 0 ELSE WarmupLimit - 1 + 1
    BY <2>1, FS_Interval
  <2> QED
    BY <2>1, <2>2
<1>4. IsFiniteSet(own) /\ Cardinality(own) = Cardinality({r}) * Cardinality(1..WarmupLimit)
  BY <1>2, <1>3, FS_Product
<1> HIDE DEF own, S, T
<1>5. IsFiniteSet(T)
  BY DEF T
<1>6. /\ IsFiniteSet(T \cup own)
      /\ Cardinality(T \cup own) = Cardinality(T) + Cardinality(own) - Cardinality(T \cap own)
  BY <1>4, <1>5, FS_Union
<1>7. Cardinality(T \cap own) \in Nat
  <2>1. T \cap own \subseteq T
    OBVIOUS
  <2> QED
    BY <1>5, <2>1, FS_Subset, FS_CardinalityType
<1>8. Cardinality(S) <= Cardinality(T \cup own) /\ Cardinality(S) \in Nat
  BY <1>1, <1>6, FS_Subset, FS_CardinalityType
<1>9. Cardinality(T) \in Nat
  BY <1>5, FS_CardinalityType
<1>10. Cardinality(own) = WarmupLimit
  BY <1>2, <1>3, <1>4
<1> QED
  BY <1>3, <1>6, <1>7, <1>8, <1>9, <1>10 DEF S, T

\* The arithmetic of a fault: the lives of R replicas, at L frames each.
LEMMA FaultPays ==
  ASSUME NEW L \in Nat, NEW R \in Nat, NEW F \in Nat
  PROVE  /\ L * R \in Nat /\ L * R * F \in Nat
         /\ L * R * (F + 1) = L * R * F + L * R
         /\ \A m \in Nat : L * m \in Nat /\ (m <= R => L * m <= L * R) /\ L * (m + 1) = L * m + L
<1> DEFINE p == L * R
<1>1. p \in Nat
  OBVIOUS
<1>2. p * F \in Nat /\ p * (F + 1) = p * F + p
  <2> HIDE DEF p
  <2> QED
    BY <1>1
<1>3. ASSUME NEW m \in Nat PROVE L * m \in Nat /\ L * (m + 1) = L * m + L
  OBVIOUS
<1>4. ASSUME NEW m \in Nat, m <= R PROVE L * m <= L * R
  <2>1. L * R = L * m + L * (R - m) /\ L * (R - m) \in Nat /\ L * m \in Nat
    BY <1>4
  <2> QED
    BY <2>1
<1> QED
  BY <1>1, <1>2, <1>3, <1>4

\* W frames swallowed, K closed connections and S slots, before and after a step that
\* swallows a frame, one that is a fault, and one that ends a closed life.
LEMMA Accounts ==
  ASSUME NEW L \in Nat, NEW R \in Nat, NEW F \in Nat, NEW W \in Nat, NEW K \in Nat, NEW S \in Nat,
         NEW W2 \in Nat, NEW K2 \in Nat, NEW S2 \in Nat,
         W + L * K <= S + L * R * F
  PROVE  /\ W2 <= W + 1 /\ K2 = K /\ S2 = S + 1 => W2 + L * K2 <= S2 + L * R * F
         /\ W2 = W /\ K2 <= R /\ S2 = S => W2 + L * K2 <= S2 + L * R * (F + 1)
         /\ W2 = W /\ R >= 1 /\ K2 <= K /\ S <= S2 + L => W2 + L * K2 <= S2 + L * R * (F + 1)
         /\ W2 = W /\ K = K2 + 1 /\ S <= S2 + L => W2 + L * K2 <= S2 + L * R * F
<1> DEFINE lr == L * R
           lrf == L * R * F
           lk == L * K
           lk2 == L * K2
<1>1. lr \in Nat /\ lrf \in Nat /\ lk \in Nat /\ lk2 \in Nat /\ L * R * (F + 1) = lrf + lr
  BY FaultPays
<1>2. K2 <= R => lk2 <= lr
  BY FaultPays
<1>3. R >= 1 => L <= lr
  <2>1. R >= 1 => L * 1 <= L * R
    BY FaultPays
  <2> QED
    BY <2>1
<1>4. K2 <= K => lk2 <= lk
  BY FaultPays
<1>5. K = K2 + 1 => lk = lk2 + L
  BY FaultPays
<1>6. W + lk <= S + lrf /\ (K2 = K => lk2 = lk)
  OBVIOUS
<1>7. L * R * F = lrf
  OBVIOUS
<1>8. L * K2 = lk2
  OBVIOUS
<1> HIDE DEF lr, lrf, lk, lk2
<1>9. W2 <= W + 1 /\ K2 = K /\ S2 = S + 1 => W2 + lk2 <= S2 + lrf
  BY <1>1, <1>6
<1>10. W2 = W /\ K2 <= R /\ S2 = S => W2 + lk2 <= S2 + (lrf + lr)
  BY <1>1, <1>2, <1>6
<1>11. W2 = W /\ R >= 1 /\ K2 <= K /\ S <= S2 + L => W2 + lk2 <= S2 + (lrf + lr)
  BY <1>1, <1>3, <1>4, <1>6
<1>12. W2 = W /\ K = K2 + 1 /\ S <= S2 + L => W2 + lk2 <= S2 + lrf
  BY <1>1, <1>5, <1>6
<1> QED
  BY <1>1, <1>7, <1>8, <1>9, <1>10, <1>11, <1>12

LEMMA WarmupStep == IInv /\ [Next]_vars => WarmupInv'
<1> SUFFICES ASSUME IInv, [Next]_vars, TypeOK', NEW c \in Cameras
             PROVE  Cardinality(Swallowed(c)') + WarmupLimit * Cardinality(Closed')
                      <= Cardinality(Slots(c)') + WarmupLimit * Cardinality(Replicas) * faults'
  BY TypeStep DEF WarmupInv
<1>0. TypeOK /\ ReplicaInv /\ WarmupInv
  BY DEF IInv
<1>a. events \in [Frames -> SUBSET Events] /\ link \in [Replicas -> {"down", "up", "closed"}]
      /\ warmup \in [Replicas -> [Cameras -> 0..WarmupLimit]] /\ faults \in Nat
  BY <1>0, ClusterAssumption DEF TypeOK
<1> DEFINE L == WarmupLimit
           R == Cardinality(Replicas)
           W == Cardinality(Swallowed(c))
           K == Cardinality(Closed)
           S == Cardinality(Slots(c))
           Goal == W' + L * K' <= S' + L * R * faults'
<1>b. W + L * K <= S + L * R * faults
  BY <1>0 DEF WarmupInv
<1>c. L \in Nat /\ R \in Nat /\ W \in Nat /\ K \in Nat /\ S \in Nat /\ K <= R
  BY WarmupFinite
<1>d. IsFiniteSet(Swallowed(c)) /\ IsFiniteSet(Slots(c)) /\ IsFiniteSet(Closed)
  BY WarmupFinite
<1>e. Closed' \subseteq Replicas /\ IsFiniteSet(Closed') /\ K' \in Nat /\ K' <= R
  BY ClusterAssumption, FS_Subset, FS_CardinalityType DEF Closed
<1>f. IsFiniteSet(Slots(c)') /\ S' \in Nat
  <2>1. Slots(c)' \subseteq Replicas \X (1..WarmupLimit)
    BY DEF Slots
  <2>2. IsFiniteSet(1..WarmupLimit)
    <3>1. 1 \in Int /\ WarmupLimit \in Int
      BY ClusterAssumption
    <3> QED
      BY <3>1, FS_Interval
  <2>3. IsFiniteSet(Replicas \X (1..WarmupLimit))
    BY <2>2, ClusterAssumption, FS_Product
  <2> DEFINE P == Replicas \X (1..WarmupLimit)
  <2> HIDE DEF P
  <2>4. Slots(c)' \subseteq P /\ IsFiniteSet(P)
    BY <2>1, <2>3 DEF P
  <2> QED
    BY <2>4, FS_Subset, FS_CardinalityType
<1>g. ASSUME NEW r \in Replicas PROVE R >= 1
  <2>1. R # 0
    BY ClusterAssumption, FS_EmptySet
  <2> QED
    BY <1>c, <2>1
<1>1. ASSUME UNCHANGED <<warmup, faults>>, Swallowed(c)' = Swallowed(c), Closed' = Closed PROVE Goal
  BY <1>b, <1>1 DEF Slots
<1>2. ASSUME NEW g \in Frames, NEW what \in Events, what # "warmup", Happens(g, what)
      PROVE  Swallowed(c)' = Swallowed(c)
  <2>1. \A f \in Frames : "warmup" \in events'[f] <=> "warmup" \in events[f]
    BY <1>a, <1>2, Recorded
  <2> QED
    BY <2>1 DEF Swallowed
<1>3. ASSUME NEW r \in Replicas, Callback(r), ~WarmupSkip(r) PROVE Goal
  <2>1. UNCHANGED <<warmup, faults, link>>
    BY <1>3 DEF Callback, DuplicateSkip, Decode, InferClear, InferPerson, InferRaises, Ack
  <2>2. Swallowed(c)' = Swallowed(c)
    <3>1. CASE UNCHANGED events
      BY <3>1 DEF Swallowed
    <3>2. CASE InferPerson(r)
      <4>1. \A f \in Frames : "warmup" \in events'[f] <=> "warmup" \in events[f]
        BY <1>a, <3>2 DEF InferPerson
      <4> QED
        BY <4>1 DEF Swallowed
    <3>3. CASE DuplicateSkip(r) \/ Decode(r) \/ InferClear(r) \/ InferRaises(r)
      <4>1. current[r] \in Frames
        BY <1>0, <3>3, FrameInHand DEF DuplicateSkip, Decode, InferClear, InferRaises
      <4>2. UNCHANGED events \/ \E what \in Events : what # "warmup" /\ Happens(current[r], what)
        BY <3>3 DEF DuplicateSkip, Decode, InferClear, InferRaises, Events
      <4> QED
        BY <1>2, <3>1, <4>1, <4>2
    <3>4. CASE Ack(r)
      BY <3>1, <3>4 DEF Ack
    <3> QED
      BY <1>3, <3>2, <3>3, <3>4 DEF Callback
  <2> QED
    BY <1>1, <2>1, <2>2 DEF Closed
<1>4. ASSUME NEW r \in Replicas, Settle(r) PROVE Goal
  <2>1. held[r] \in Frames
    BY <1>0, <1>4, ClusterAssumption DEF Settle, TypeOK
  <2>2. \E what \in Events : what # "warmup" /\ Happens(held[r], what)
    BY <1>4 DEF Settle, Events
  <2>3. Swallowed(c)' = Swallowed(c)
    BY <1>2, <2>1, <2>2
  <2> QED
    BY <1>1, <1>4, <2>3 DEF Settle, processVars, Closed
<1>5. ASSUME Publish \/ Quiet \/ UNCHANGED vars \/ \E r \in Replicas : Deliver(r) \/ Start(r) \/ TakeOldest(r)
      PROVE  Goal
  <2>1. UNCHANGED <<warmup, faults, events>>
    BY <1>5 DEF Publish, Quiet, vars, Deliver, Start, TakeOldest, processVars
  <2>2. \A s \in Replicas : link'[s] = "closed" <=> link[s] = "closed"
    BY <1>a, <1>5 DEF Publish, Quiet, vars, Deliver, Start, TakeOldest
  <2> QED
    BY <1>1, <2>1, <2>2 DEF Closed, Swallowed
<1>6. ASSUME NEW r \in Replicas, WarmupSkip(r) PROVE Goal
  <2> DEFINE f == current[r]
             d == Camera[current[r]]
             n == warmup[r][Camera[current[r]]]
  <2>1. f \in Frames /\ d \in Cameras
    BY <1>0, <1>6, FrameInHand DEF WarmupSkip
  <2>2. n \in Nat /\ n + 1 \in 1..WarmupLimit /\ n + 1 \in 0..WarmupLimit
    BY <1>a, <1>6, <2>1, ClusterAssumption DEF WarmupSkip, WarmingUp
  <2>3. warmup' = [warmup EXCEPT ![r][d] = n + 1] /\ Happens(f, "warmup") /\ UNCHANGED <<link, faults>>
    BY <1>6 DEF WarmupSkip
  <2>4. Swallowed(c)' = IF d = c THEN Swallowed(c) \cup {f} ELSE Swallowed(c)
    <3>1. "warmup" \in Events
      BY DEF Events
    <3>2. \A g \in Frames : "warmup" \in events'[g] <=> "warmup" \in events[g] \/ g = f
      BY <1>a, <2>1, <2>3, <3>1, Recorded, ZenonT(40)
    <3> HIDE DEF f
    <3> QED
      BY <2>1, <3>2 DEF Swallowed, f
  <2> HIDE DEF d, n, f
  <2>5. \A s \in Replicas, e \in Cameras : warmup'[s][e] = IF s = r /\ e = d THEN n + 1 ELSE warmup[s][e]
    BY <1>a, <2>1, <2>2, <2>3, Nested
  <2>6. d = c => warmup[r][c] = n
    BY DEF d, n
  <2>7. CASE d = c
    <3>1. Slots(c)' = Slots(c) \cup {<<r, n + 1>>}
      <4>1. ASSUME NEW s \in Replicas, NEW i \in 1..WarmupLimit
            PROVE  i <= warmup'[s][c] <=> i <= warmup[s][c] \/ (s = r /\ i = n + 1)
        BY <2>2, <2>5, <2>6, <2>7
      <4>2. \A p \in Replicas \X (1..WarmupLimit) :
              p[2] <= warmup'[p[1]][c] <=> p[2] <= warmup[p[1]][c] \/ p = <<r, n + 1>>
        BY <4>1
      <4>3. <<r, n + 1>> \in Replicas \X (1..WarmupLimit)
        BY <2>2
      <4> QED
        BY <4>2, <4>3 DEF Slots
    <3>2. <<r, n + 1>> \notin Slots(c)
      BY <2>2, <2>6, <2>7 DEF Slots
    <3>3. Cardinality(Slots(c)') = Cardinality(Slots(c)) + 1
      BY <1>d, <3>1, <3>2, FS_AddElement
    <3>4. Cardinality(Swallowed(c)') <= Cardinality(Swallowed(c)) + 1 /\ Cardinality(Swallowed(c)') \in Nat
      <4>1. Swallowed(c)' = Swallowed(c) \cup {f}
        BY <2>4, <2>7
      <4>2. CASE f \in Swallowed(c)
        <5>1. Swallowed(c)' = Swallowed(c)
          BY <4>1, <4>2
        <5> QED
          BY <1>c, <5>1
      <4>3. CASE f \notin Swallowed(c)
        <5>1. Cardinality(Swallowed(c) \cup {f}) = Cardinality(Swallowed(c)) + 1
          BY <1>d, <4>3, FS_AddElement
        <5> QED
          BY <1>c, <4>1, <5>1
      <4> QED
        BY <4>2, <4>3
    <3>5. Closed' = Closed /\ faults' = faults
      BY <2>3 DEF Closed
    <3>6. Cardinality(Slots(c)') \in Nat /\ Cardinality(Closed') = Cardinality(Closed)
      BY <1>f, <3>5
    <3> QED
      BY <1>a, <1>b, <1>c, <3>3, <3>4, <3>5, <3>6, Accounts
  <2>8. CASE d # c
    <3>1. Slots(c)' = Slots(c)
      BY <2>5, <2>8 DEF Slots
    <3>2. Swallowed(c)' = Swallowed(c) /\ Closed' = Closed
      BY <2>3, <2>4, <2>8 DEF Closed
    <3> QED
      BY <1>b, <2>3, <3>1, <3>2
  <2> QED
    BY <2>7, <2>8
<1>7. ASSUME NEW r \in Replicas, ConnectionLost(r) PROVE Goal
  <2>1. Swallowed(c)' = Swallowed(c) /\ Slots(c)' = Slots(c) /\ faults' = faults + 1
    BY <1>7 DEF ConnectionLost, processVars, Swallowed, Slots
  <2> QED
    BY <1>a, <1>b, <1>c, <1>e, <1>f, <2>1, Accounts
<1>8. CASE BrokerRestart
  <2>1. Swallowed(c)' = Swallowed(c) /\ Slots(c)' = Slots(c) /\ faults' = faults + 1
    BY <1>8 DEF BrokerRestart, processVars, Swallowed, Slots
  <2> QED
    BY <1>a, <1>b, <1>c, <1>e, <1>f, <2>1, Accounts
<1>9. ASSUME NEW r \in Replicas, Exit(r)
      PROVE  /\ Swallowed(c)' = Swallowed(c) /\ Closed' = Closed \ {r}
             /\ Cardinality(Slots(c)) <= Cardinality(Slots(c)') + WarmupLimit
  <2>1. \A f \in Frames : "warmup" \in events'[f] <=> "warmup" \in events[f]
    BY <1>a, <1>9 DEF Exit
  <2>2. \A s \in Replicas : s # r => warmup'[s] = warmup[s]
    BY <1>a, <1>9 DEF Exit
  <2>3. Closed' = Closed \ {r}
    BY <1>a, <1>9 DEF Exit, Closed
  <2> QED
    BY <1>f, <2>1, <2>2, <2>3, LifeEnds DEF Swallowed
<1>10. ASSUME NEW r \in Replicas, Crash(r) PROVE Goal
  <2>1. faults' = faults + 1 /\ Exit(r)
    BY <1>10 DEF Crash
  <2>2. Closed' \subseteq Closed
    BY <1>9, <2>1
  <2>3. Cardinality(Closed') <= Cardinality(Closed)
    BY <1>d, <2>2, FS_Subset
  <2>4. Cardinality(Swallowed(c)') = Cardinality(Swallowed(c))
    BY <1>9, <2>1
  <2> QED
    BY <1>9, <1>a, <1>b, <1>c, <1>e, <1>f, <1>g, <2>1, <2>3, <2>4, Accounts
<1>11. ASSUME NEW r \in Replicas, ConsumerError(r) PROVE Goal
  <2>1. UNCHANGED faults /\ Exit(r) /\ r \in Closed
    BY <1>11 DEF ConsumerError, Closed
  <2>2. Cardinality(Closed \ {r}) = Cardinality(Closed) - 1
    BY <1>d, <2>1, FS_RemoveElement
  <2>3. Closed' = Closed \ {r} /\ Cardinality(Swallowed(c)') = Cardinality(Swallowed(c))
    BY <1>9, <2>1
  <2>4. Cardinality(Closed) = Cardinality(Closed') + 1
    BY <1>c, <1>e, <2>2, <2>3
  <2> QED
    BY <1>9, <1>a, <1>b, <1>c, <1>e, <1>f, <2>1, <2>3, <2>4, Accounts
<1> QED
  BY <1>3, <1>4, <1>5, <1>6, <1>7, <1>8, <1>10, <1>11 DEF Next, Consumer, Callback, Dispatch

-----------------------------------------------------------------------------
(* What vanishes with a dispatcher *)

\* A sequence has no more elements than places.
LEMMA RangeIsSmall ==
  ASSUME NEW S, NEW s \in Seq(S)
  PROVE  IsFiniteSet(Range(s)) /\ Cardinality(Range(s)) <= Len(s)
<1>1. s \in Surjection(1..Len(s), Range(s)) /\ Len(s) \in Nat
  BY LenProperties DEF Surjection, Range
<1>2. IsFiniteSet(1..Len(s)) /\ Cardinality(1..Len(s)) = Len(s)
  <2>1. 1 \in Int /\ Len(s) \in Int
    BY <1>1
  <2>2. /\ IsFiniteSet(1..Len(s))
        /\ Cardinality(1..Len(s)) = IF 1 > Len(s) THEN 0 ELSE Len(s) - 1 + 1
    BY <2>1, FS_Interval, Zenon
  <2> QED
    BY <1>1, <2>2
<1> QED
  BY <1>1, <1>2, FS_Surjection

LEMMA LossFinite ==
  /\ IsFiniteSet(Vanished) /\ Cardinality(Vanished) \in Nat
  /\ IsFiniteSet(Closed) /\ Cardinality(Closed) \in Nat /\ Cardinality(Closed) <= Cardinality(Replicas)
  /\ Cardinality(Replicas) \in Nat /\ Holds \in Nat
<1>1. IsFiniteSet(Frames)
  <2>1. 1 \in Int /\ MaxFrames \in Int
    BY ClusterAssumption
  <2> QED
    BY <2>1, FS_Interval DEF Frames
<1>2. IsFiniteSet(Vanished) /\ Cardinality(Vanished) \in Nat
  BY <1>1, FS_Subset, FS_CardinalityType DEF Vanished
<1>3. IsFiniteSet(Replicas) /\ Cardinality(Replicas) \in Nat /\ Holds \in Nat
  BY ClusterAssumption, FS_CardinalityType DEF Holds
<1>4. Closed \subseteq Replicas
  BY DEF Closed
<1> QED
  BY <1>2, <1>3, <1>4, FS_Subset, FS_CardinalityType

\* W detections vanished and K closed connections, before and after a step that is no
\* fault, a fault that closes connections, and the end of a life with and without one.
LEMMA LossAccounts ==
  ASSUME NEW B \in Nat, NEW R \in Nat, NEW F \in Nat, NEW W \in Nat, NEW K \in Nat,
         NEW W2 \in Nat, NEW K2 \in Nat, W + B * K <= B * R * F
  PROVE  /\ W2 = W /\ K2 <= R => W2 + B * K2 <= B * R * (F + 1)
         /\ W2 <= W + B /\ R >= 1 /\ K2 <= K => W2 + B * K2 <= B * R * (F + 1)
         /\ W2 <= W + B /\ K = K2 + 1 => W2 + B * K2 <= B * R * F
<1> DEFINE br == B * R
           brf == B * R * F
           bk == B * K
           bk2 == B * K2
<1>1. br \in Nat /\ brf \in Nat /\ bk \in Nat /\ bk2 \in Nat /\ B * R * (F + 1) = brf + br
  BY FaultPays
<1>2. K2 <= R => bk2 <= br
  BY FaultPays
<1>3. R >= 1 => B <= br
  <2>1. R >= 1 => B * 1 <= B * R
    BY FaultPays
  <2> QED
    BY <2>1
<1>4. K2 <= K => bk2 <= bk
  BY FaultPays
<1>5. K = K2 + 1 => bk = bk2 + B
  BY FaultPays
<1>6. W + bk <= brf
  OBVIOUS
<1>7. B * R * F = brf /\ B * K2 = bk2
  OBVIOUS
<1> HIDE DEF br, brf, bk, bk2
<1>8. W2 = W /\ K2 <= R => W2 + bk2 <= brf + br
  BY <1>1, <1>2, <1>6
<1>9. W2 <= W + B /\ R >= 1 /\ K2 <= K => W2 + bk2 <= brf + br
  BY <1>1, <1>3, <1>4, <1>6
<1>10. W2 <= W + B /\ K = K2 + 1 => W2 + bk2 <= brf
  BY <1>1, <1>5, <1>6
<1> QED
  BY <1>1, <1>7, <1>8, <1>9, <1>10

LEMMA LossStep == IInv /\ [Next]_vars => LossInv'
<1> SUFFICES ASSUME IInv, [Next]_vars
             PROVE  Cardinality(Vanished') + Holds * Cardinality(Closed')
                      <= Holds * Cardinality(Replicas) * faults'
  BY DEF LossInv
<1>0. TypeOK /\ ReplicaInv /\ LossInv
  BY DEF IInv
<1>a. events \in [Frames -> SUBSET Events] /\ link \in [Replicas -> {"down", "up", "closed"}]
      /\ faults \in Nat
  BY <1>0, ClusterAssumption DEF TypeOK
<1> DEFINE B == Holds
           R == Cardinality(Replicas)
           W == Cardinality(Vanished)
           K == Cardinality(Closed)
           Goal == W' + B * K' <= B * R * faults'
<1>b. W + B * K <= B * R * faults
  BY <1>0 DEF LossInv
<1>c. /\ B \in Nat /\ R \in Nat /\ W \in Nat /\ K \in Nat /\ K <= R
      /\ IsFiniteSet(Vanished) /\ IsFiniteSet(Closed)
  BY LossFinite
<1>d. IsFiniteSet(Vanished') /\ W' \in Nat
  <2>1. Vanished' \subseteq Frames
    BY DEF Vanished
  <2>2. 1 \in Int /\ MaxFrames \in Int
    BY ClusterAssumption
  <2>3. IsFiniteSet(Frames)
    BY <2>2, FS_Interval DEF Frames
  <2> QED
    BY <2>1, <2>3, FS_Subset, FS_CardinalityType
<1>e. Closed' \subseteq Replicas /\ IsFiniteSet(Closed') /\ K' \in Nat /\ K' <= R
  BY ClusterAssumption, FS_Subset, FS_CardinalityType DEF Closed
<1>f. ASSUME NEW r \in Replicas PROVE R >= 1
  <2>1. R # 0
    BY ClusterAssumption, FS_EmptySet
  <2> QED
    BY <1>c, <2>1
<1>1. ASSUME UNCHANGED faults, Vanished' = Vanished, Closed' = Closed PROVE Goal
  BY <1>b, <1>1
<1>2. ASSUME NEW g \in Frames, NEW what \in Events, what # "lost", Happens(g, what)
      PROVE  Vanished' = Vanished
  <2>1. \A f \in Frames : events'[f] = IF f = g THEN events[f] \cup {what} ELSE events[f]
    BY <1>a, <1>2, Recorded
  <2>2. \A f \in Frames : "lost" \in events'[f] <=> "lost" \in events[f]
    BY <1>2, <2>1
  <2> QED
    BY <2>2 DEF Vanished
<1>3. ASSUME NEW r \in Replicas, Callback(r) PROVE Goal
  <2>1. UNCHANGED <<faults, link>>
    BY <1>3 DEF Callback, WarmupSkip, DuplicateSkip, Decode, InferClear, InferPerson, InferRaises, Ack
  <2>2. Vanished' = Vanished
    <3>1. CASE UNCHANGED events
      BY <3>1 DEF Vanished
    <3>2. CASE InferPerson(r)
      <4>1. \A f \in Frames : "lost" \in events'[f] <=> "lost" \in events[f]
        BY <1>a, <3>2 DEF InferPerson
      <4> QED
        BY <4>1 DEF Vanished
    <3>3. CASE WarmupSkip(r) \/ DuplicateSkip(r) \/ Decode(r) \/ InferClear(r) \/ InferRaises(r)
      <4>1. current[r] \in Frames
        BY <1>0, <3>3, FrameInHand DEF WarmupSkip, DuplicateSkip, Decode, InferClear, InferRaises
      <4>2. UNCHANGED events \/ \E what \in Events : what # "lost" /\ Happens(current[r], what)
        BY <3>3 DEF WarmupSkip, DuplicateSkip, Decode, InferClear, InferRaises, Events
      <4> QED
        BY <1>2, <3>1, <4>1, <4>2
    <3>4. CASE Ack(r)
      BY <3>1, <3>4 DEF Ack
    <3> QED
      BY <1>3, <3>2, <3>3, <3>4 DEF Callback
  <2> QED
    BY <1>1, <2>1, <2>2 DEF Closed
<1>4. ASSUME NEW r \in Replicas, Settle(r) PROVE Goal
  <2>1. held[r] \in Frames
    BY <1>0, <1>4, ClusterAssumption DEF Settle, TypeOK
  <2>2. \E what \in Events : what # "lost" /\ Happens(held[r], what)
    BY <1>4 DEF Settle, Events
  <2>3. Vanished' = Vanished
    BY <1>2, <2>1, <2>2
  <2> QED
    BY <1>1, <1>4, <2>3 DEF Settle, Closed
<1>5. ASSUME Publish \/ Quiet \/ UNCHANGED vars \/ \E r \in Replicas : Deliver(r) \/ Start(r) \/ TakeOldest(r)
      PROVE  Goal
  <2>1. UNCHANGED <<faults, events>>
    BY <1>5 DEF Publish, Quiet, vars, Deliver, Start, TakeOldest
  <2>2. \A s \in Replicas : link'[s] = "closed" <=> link[s] = "closed"
    BY <1>a, <1>5 DEF Publish, Quiet, vars, Deliver, Start, TakeOldest
  <2> QED
    BY <1>1, <2>1, <2>2 DEF Closed, Vanished
<1>6. ASSUME BrokerRestart \/ \E r \in Replicas : ConnectionLost(r) PROVE Goal
  <2>1. Vanished' = Vanished /\ faults' = faults + 1
    BY <1>6 DEF ConnectionLost, BrokerRestart, Vanished
  <2> QED
    BY <1>a, <1>b, <1>c, <1>d, <1>e, <2>1, LossAccounts
\* The end of a process takes its queue with it, and the detection in hand.
<1>7. ASSUME NEW r \in Replicas, Exit(r)
      PROVE  Closed' = Closed \ {r} /\ W' <= W + B
  <2> DEFINE taken == InDispatcher(r)
  <2>1. IsFiniteSet(taken) /\ Cardinality(taken) <= B /\ Cardinality(taken) \in Nat
    <3> DEFINE queued == Range(buffer[r])
               hand == {held[r]} \ {0}
    <3>1. buffer[r] \in Seq(Persons) /\ Len(buffer[r]) \in Nat /\ Len(buffer[r]) <= BufferSize
      BY <1>0 DEF TypeOK
    <3>2. IsFiniteSet(queued) /\ Cardinality(queued) <= Len(buffer[r]) /\ Cardinality(queued) \in Nat
      BY <3>1, RangeIsSmall, FS_CardinalityType
    <3>3. IsFiniteSet(hand) /\ Cardinality(hand) <= 1 /\ Cardinality(hand) \in Nat
      <4>1. IsFiniteSet({held[r]}) /\ Cardinality({held[r]}) = 1 /\ hand \subseteq {held[r]}
        BY FS_Singleton
      <4> QED
        BY <4>1, FS_Subset, FS_CardinalityType
    <3>4. taken = queued \cup hand
      BY DEF InDispatcher
    <3> HIDE DEF taken, queued, hand
    <3>5. /\ IsFiniteSet(taken)
          /\ Cardinality(taken) = Cardinality(queued) + Cardinality(hand) - Cardinality(queued \cap hand)
      BY <3>2, <3>3, <3>4, FS_Union
    <3>6. Cardinality(queued \cap hand) \in Nat
      <4>1. queued \cap hand \subseteq hand
        OBVIOUS
      <4> QED
        BY <3>3, <4>1, FS_Subset, FS_CardinalityType
    <3>7. Cardinality(taken) \in Nat /\ BufferSize \in Nat
      BY <3>5, FS_CardinalityType, ClusterAssumption
    <3> QED
      BY <3>1, <3>2, <3>3, <3>5, <3>6, <3>7 DEF Holds
  <2>2. Vanished' \subseteq Vanished \cup taken
    <3>1. \A f \in Frames : "lost" \in events'[f] => "lost" \in events[f] \/ f \in taken
      BY <1>7 DEF Exit
    <3> QED
      BY <3>1 DEF Vanished
  <2> HIDE DEF taken
  <2>3. /\ IsFiniteSet(Vanished \cup taken)
        /\ Cardinality(Vanished \cup taken)
             = Cardinality(Vanished) + Cardinality(taken) - Cardinality(Vanished \cap taken)
    BY <1>c, <2>1, FS_Union
  <2>4. Cardinality(Vanished \cap taken) \in Nat
    <3>1. Vanished \cap taken \subseteq Vanished
      OBVIOUS
    <3> QED
      BY <1>c, <3>1, FS_Subset, FS_CardinalityType
  <2>5. W' <= Cardinality(Vanished \cup taken)
    BY <2>2, <2>3, FS_Subset
  <2>6. W' <= W + B
    BY <1>c, <1>d, <2>1, <2>3, <2>4, <2>5
  <2>7. Closed' = Closed \ {r}
    BY <1>a, <1>7 DEF Exit, Closed
  <2> QED
    BY <2>6, <2>7
<1>8. ASSUME NEW r \in Replicas, Crash(r) PROVE Goal
  <2>1. faults' = faults + 1 /\ Exit(r)
    BY <1>8 DEF Crash
  <2>2. Closed' \subseteq Closed /\ W' <= W + B
    BY <1>7, <2>1
  <2>3. K' <= K
    BY <1>c, <2>2, FS_Subset
  <2> QED
    BY <1>a, <1>b, <1>c, <1>d, <1>e, <1>f, <2>1, <2>2, <2>3, LossAccounts
<1>9. ASSUME NEW r \in Replicas, ConsumerError(r) PROVE Goal
  <2>1. UNCHANGED faults /\ Exit(r) /\ r \in Closed
    BY <1>9 DEF ConsumerError, Closed
  <2>2. Cardinality(Closed \ {r}) = Cardinality(Closed) - 1
    BY <1>c, <2>1, FS_RemoveElement
  <2>3. Closed' = Closed \ {r} /\ W' <= W + B
    BY <1>7, <2>1
  <2>4. K = K' + 1
    BY <1>c, <1>e, <2>2, <2>3
  <2> QED
    BY <1>a, <1>b, <1>c, <1>d, <1>e, <2>1, <2>3, <2>4, LossAccounts
<1> QED
  BY <1>3, <1>4, <1>5, <1>6, <1>8, <1>9 DEF Next, Consumer, Dispatch

-----------------------------------------------------------------------------
(* The inductive invariant *)

LEMMA InitInv == Init => IInv
<1> SUFFICES ASSUME Init PROVE IInv
  OBVIOUS
<1>1. TypeOK
  BY TypeInit
<1>2. /\ published = 0 /\ frameQueue = <<>> /\ acked = {} /\ brokerLost = {}
      /\ \A r \in Replicas : Unacked(r) = {}
  BY DEF Init, Unacked
<1>3. Ready = {} /\ Sorted(frameQueue)
  BY <1>2 DEF Ready, Sorted, Range
<1>4. \A f \in Frames : f \in Nat /\ f > 0
  BY ClusterAssumption DEF Frames
<1>5. PlaceInv
  BY <1>2, <1>3, <1>4 DEF PlaceInv
<1>6. ReplicaInv
  BY DEF Init, ReplicaInv
<1>7. DeliveryInv
  <2>1. ASSUME NEW f \in Frames PROVE Busy(f) = {}
    BY DEF Init, Busy
  <2>2. \A f \in Frames : Cardinality(Busy(f)) = 0
    BY <2>1, FS_EmptySet
  <2>3. faults = 0 /\ \A f \in Frames : deliveries[f] = 0 /\ submissions[f] = 0
    BY DEF Init
  <2> QED
    BY <2>2, <2>3 DEF DeliveryInv
<1>8. FilterInv /\ DuplicatesWereSubmitted /\ PersonsAreSubmitted
  BY DEF Init, FreshHashes, FilterInv, DuplicatesWereSubmitted, PersonsAreSubmitted
<1>9. WarmupInv
  <2> SUFFICES ASSUME NEW c \in Cameras
               PROVE  Cardinality(Swallowed(c)) + WarmupLimit * Cardinality(Closed)
                        <= Cardinality(Slots(c)) + WarmupLimit * Cardinality(Replicas) * faults
    BY DEF WarmupInv
  <2>1. Swallowed(c) = {} /\ Closed = {} /\ faults = 0
    BY DEF Init, Swallowed, Closed
  <2>2. Cardinality(Swallowed(c)) = 0 /\ Cardinality(Closed) = 0
    BY <2>1, FS_EmptySet
  <2>3. Cardinality(Slots(c)) \in Nat /\ WarmupLimit * Cardinality(Replicas) \in Nat
    BY WarmupFinite
  <2> DEFINE p == WarmupLimit * Cardinality(Replicas)
  <2> HIDE DEF p
  <2>4. p * faults = 0 /\ WarmupLimit * 0 = 0
    BY <2>1, <2>3, ClusterAssumption DEF p
  <2> QED
    BY <2>2, <2>3, <2>4 DEF p
<1>10. LossInv
  <2>1. Vanished = {} /\ Closed = {} /\ faults = 0
    BY DEF Init, Vanished, Closed
  <2>2. Cardinality(Vanished) = 0 /\ Cardinality(Closed) = 0
    BY <2>1, FS_EmptySet
  <2>3. Holds * Cardinality(Replicas) \in Nat /\ Holds \in Nat
    BY LossFinite
  <2> DEFINE p == Holds * Cardinality(Replicas)
  <2> HIDE DEF p
  <2>4. p * faults = 0 /\ Holds * 0 = 0
    BY <2>1, <2>3 DEF p
  <2> QED
    BY <2>2, <2>4 DEF p, LossInv
<1> QED
  BY <1>1, <1>5, <1>6, <1>7, <1>8, <1>9, <1>10 DEF IInv

THEOREM Invariant == Spec => []IInv
<1>1. IInv /\ [Next]_vars => IInv'
  BY TypeStep, PlaceStep, ReplicaStep, DeliveryStep, FilterStep, DuplicateStep, PersonsStep,
       WarmupStep, LossStep DEF IInv
<1> QED
  BY <1>1, InitInv, PTL DEF Spec

\* A frame in one of the four places is counted there, and nowhere else.
LEMMA OnePlaceFromInv == TypeOK /\ PlaceInv => FramesInOnePlace
<1> DEFINE holders(f) == {r \in Replicas : f \in Unacked(r)}
           ready(f) == {i \in DOMAIN frameQueue : frameQueue[i] = f}
<1> SUFFICES ASSUME TypeOK, PlaceInv, NEW f \in 1..published
             PROVE  Cardinality(holders(f)) + Cardinality(ready(f))
                      + (IF f \in acked THEN 1 ELSE 0) + (IF f \in brokerLost THEN 1 ELSE 0) = 1
  BY DEF FramesInOnePlace
<1>1. f \in Frames /\ f <= published
  BY ClusterAssumption DEF TypeOK, Frames
<1>2. (f \in Ready <=> ready(f) # {}) /\ ((\E r \in Replicas : f \in Unacked(r)) <=> holders(f) # {})
  BY DEF Ready, Range
<1>3. Cardinality({}) = 0
  BY FS_EmptySet
<1>4. CASE f \in Ready
  <2>1. PICK i \in DOMAIN frameQueue : frameQueue[i] = f
    BY <1>2, <1>4
  <2>2. ASSUME NEW j \in DOMAIN frameQueue, frameQueue[j] = f PROVE j = i
    <3>1. i \in Nat /\ j \in Nat
      BY DEF TypeOK
    <3>2. f \in Nat
      BY <1>1, ClusterAssumption DEF Frames
    <3>3. ~(i < j) /\ ~(j < i)
      BY <2>1, <2>2, <3>2 DEF PlaceInv, Sorted
    <3> QED
      BY <3>1, <3>3
  <2>3. ready(f) = {i}
    BY <2>1, <2>2
  <2>4. holders(f) = {} /\ f \notin acked /\ f \notin brokerLost
    BY <1>4 DEF PlaceInv
  <2>5. Cardinality({i}) = 1
    BY FS_Singleton
  <2> QED
    BY <1>3, <2>3, <2>4, <2>5
<1>5. CASE \E r \in Replicas : f \in Unacked(r)
  <2>1. PICK r \in Replicas : f \in Unacked(r)
    BY <1>5
  <2>2. holders(f) = {r}
    BY <2>1 DEF PlaceInv
  <2>3. f \notin Ready /\ f \notin acked /\ f \notin brokerLost
    BY <2>1 DEF PlaceInv
  <2>4. ready(f) = {}
    BY <1>2, <2>3
  <2>5. Cardinality({r}) = 1
    BY FS_Singleton
  <2> QED
    BY <1>3, <2>2, <2>3, <2>4, <2>5
<1>6. CASE f \in acked \/ f \in brokerLost
  <2>1. f \notin Ready /\ ~(\E r \in Replicas : f \in Unacked(r)) /\ ~(f \in acked /\ f \in brokerLost)
    BY <1>6 DEF PlaceInv
  <2>2. ready(f) = {} /\ holders(f) = {}
    BY <1>2, <2>1
  <2> QED
    BY <1>3, <1>6, <2>1, <2>2
<1> QED
  BY <1>1, <1>4, <1>5, <1>6 DEF PlaceInv

LEMMA NoSpuriousFromInv == TypeOK /\ DeliveryInv => NoSpuriousAlert
<1> SUFFICES ASSUME TypeOK, DeliveryInv, NEW f \in Frames
             PROVE  submissions[f] <= deliveries[f] /\ deliveries[f] <= 1 + faults
  BY DEF NoSpuriousAlert
<1>1. submissions[f] \in Nat /\ deliveries[f] \in Nat /\ faults \in Nat /\ Cardinality(Busy(f)) \in Nat
  BY BusyFinite, ClusterAssumption DEF TypeOK
<1>2. submissions[f] + Cardinality(Busy(f)) <= deliveries[f]
  BY DEF DeliveryInv
<1>3. deliveries[f] <= faults + (IF f \in Ready \/ f > published THEN 0 ELSE 1)
  BY DEF DeliveryInv
<1> QED
  BY <1>1, <1>2, <1>3

LEMMA CostFromInv == TypeOK /\ WarmupInv => WarmupCost
<1> SUFFICES ASSUME TypeOK, WarmupInv, NEW c \in Cameras
             PROVE  Cardinality(Swallowed(c)) <= WarmupLimit * Cardinality(Replicas) * (1 + faults)
  BY DEF WarmupCost, Swallowed
<1> DEFINE L == WarmupLimit
           R == Cardinality(Replicas)
           W == Cardinality(Swallowed(c))
           K == Cardinality(Closed)
           S == Cardinality(Slots(c))
<1>1. W + L * K <= S + L * R * faults
  BY DEF WarmupInv
<1>2. L \in Nat /\ R \in Nat /\ W \in Nat /\ K \in Nat /\ S \in Nat /\ S <= L * R
  BY WarmupFinite
<1>3. faults \in Nat /\ 1 + faults = faults + 1
  BY ClusterAssumption DEF TypeOK
<1> HIDE DEF L, R, W, K, S
<1>4. /\ L * R \in Nat /\ L * R * faults \in Nat /\ L * K \in Nat
      /\ L * R * (faults + 1) = L * R * faults + L * R
  BY <1>2, <1>3, FaultPays
<1>5. W <= L * R * (1 + faults)
  BY <1>1, <1>2, <1>3, <1>4
<1> QED
  BY <1>5 DEF L, R, W

LEMMA BoundFromInv == TypeOK /\ LossInv => LossBounded
<1> SUFFICES ASSUME TypeOK, LossInv PROVE LossBounded
  OBVIOUS
<1> DEFINE all == Holds * Cardinality(Replicas) * faults
           owed == Holds * Cardinality(Closed)
<1>1. Cardinality(Vanished) + owed <= all
  BY DEF LossInv
<1>2. Cardinality(Vanished) \in Nat /\ owed \in Nat
  BY LossFinite
<1>3. all \in Nat
  <2>1. Holds \in Nat /\ Cardinality(Replicas) \in Nat /\ faults \in Nat
    BY LossFinite, ClusterAssumption DEF TypeOK
  <2> QED
    BY <2>1, FaultPays
<1> HIDE DEF all, owed
<1>4. Cardinality(Vanished) <= all
  BY <1>1, <1>2, <1>3
<1> QED
  BY <1>4 DEF all, LossBounded, Holds

-----------------------------------------------------------------------------
(* Theorems *)

\* Every variable keeps its type: no warm-up counter passes its limit, no dispatcher
\* holds more than its buffer.
THEOREM TypeCorrect == Spec => []TypeOK
BY Invariant, PTL DEF IInv

\* Crashes, lost connections, broker restarts and late acknowledgements of any number
\* of replicas neither lose a frame nor copy one, and only a fault makes one come
\* twice: the acknowledgement protocol of callback.  What is lost are detections that
\* a dispatcher had: for every fault, at most a full queue of each replica and the
\* detection in the hands of its daemon thread.
THEOREM FramesAreConserved == Spec => []FrameConservation
<1>1. IInv => FrameConservation
  BY OnePlaceFromInv, NoSpuriousFromInv, BoundFromInv DEF IInv, FrameConservation
<1> QED
  BY <1>1, Invariant, PTL

\* The filters of callback drop a frame only for a reason, in whichever replica it
\* arrives: what it repeats was submitted, and the warm-up swallows no more than its
\* limit for each replica and each fault.
THEOREM DropsAreJustified == Spec => []SkipsJustified
<1>1. IInv => SkipsJustified
  BY CostFromInv DEF IInv, SkipsJustified
<1> QED
  BY <1>1, Invariant, PTL

-----------------------------------------------------------------------------
(***************************************************************************)
(* AlertDispatcher.  The inductive invariant adds to the properties the     *)
(* program counters' meaning (PcInv), that only known detections are        *)
(* anywhere (KnownInv), and how far the publish of the held one is          *)
(* (PublishInv).                                                            *)
(***************************************************************************)

PcInv ==
  /\ (wPc = "get") <=> (item = 0)
  /\ wPc \in {"ensure", "send"} => attempt \in 1..Retries
  /\ pPc # "idle" => submitted > 0

KnownInv == \A d \in {item} \cup Range(queue) \cup evicted \cup finished : d <= Accepted

PublishInv ==
  /\ \A d \in Detections : d \notin finished \cup {item} => copies[d] = 0 /\ d \notin raised
  /\ wPc = "write" => copies[item] = 0 /\ item \notin raised
  /\ wPc \in {"ensure", "send"} => copies[item] < attempt /\ item \notin raised

DispatcherInv ==
  /\ DispatcherTypeOK
  /\ PcInv
  /\ KnownInv
  /\ UnfinishedAccounting
  /\ LatestNeverEvicted
  /\ InOrder
  /\ ExactlyOnePlace
  /\ PublishInv
  /\ AlertsJustified

-----------------------------------------------------------------------------
(* What the queue's two operations do to the set of queued detections. *)

LEMMA QueuedRange ==
  ASSUME NEW S, NEW s \in Seq(S), NEW x \in S
  PROVE  Range(Append(s, x)) = Range(s) \cup {x}
<1>1. /\ DOMAIN s = 1..Len(s)
      /\ DOMAIN Append(s, x) = 1..(Len(s) + 1)
      /\ Len(s) \in Nat
      /\ \A i \in 1..Len(s) : Append(s, x)[i] = s[i]
      /\ Append(s, x)[Len(s) + 1] = x
  BY AppendProperties, LenProperties
<1> QED
  BY <1>1 DEF Range

LEMMA QueueTailRange ==
  ASSUME NEW S, NEW s \in Seq(S), s # <<>>
  PROVE  Range(s) = {Head(s)} \cup Range(Tail(s))
<1>1. /\ Len(s) \in Nat \ {0}
      /\ Tail(s) \in Seq(S)
      /\ Len(Tail(s)) = Len(s) - 1
      /\ \A i \in 1..Len(Tail(s)) : Tail(s)[i] = s[i + 1]
      /\ Head(s) = s[1]
  BY HeadTailProperties, EmptySeq
<1>2. DOMAIN s = 1..Len(s) /\ DOMAIN Tail(s) = 1..(Len(s) - 1)
  BY <1>1, LenProperties
<1>3. \A i \in 1..Len(s) : s[i] \in {Head(s)} \cup Range(Tail(s))
  <2>1. \A i \in 2..Len(s) : i - 1 \in 1..(Len(s) - 1) /\ Tail(s)[i - 1] = s[i]
    BY <1>1
  <2>2. \A i \in 1..Len(s) : i = 1 \/ i \in 2..Len(s)
    BY <1>1
  <2>3. \A i \in 2..Len(s) : s[i] \in Range(Tail(s))
    BY <1>2, <2>1 DEF Range
  <2> QED
    BY <1>1, <2>2, <2>3
<1>4. \A i \in 1..(Len(s) - 1) : i + 1 \in 1..Len(s) /\ Tail(s)[i] = s[i + 1]
  BY <1>1
<1> QED
  BY <1>1, <1>2, <1>3, <1>4 DEF Range

-----------------------------------------------------------------------------
(* Types and program counters are inductive on their own. *)

LEMMA CoreInit == DispatcherInit => DispatcherTypeOK /\ PcInv
BY DispatcherAssumption DEF DispatcherInit, DispatcherTypeOK, PcInv, Detections

LEMMA CoreStep ==
  ASSUME DispatcherTypeOK, PcInv, [DispatcherNext]_dispatcherVars
  PROVE  DispatcherTypeOK' /\ PcInv'
<1> USE DispatcherAssumption
<1>1. CASE Submit
  BY <1>1 DEF Submit, DispatcherTypeOK, PcInv, Detections, producerVars, workerVars, outcomeVars
<1>2. CASE Put
  BY <1>2 DEF Put, DispatcherTypeOK, PcInv, Detections, producerVars, workerVars, outcomeVars
<1>3. CASE PutFull
  BY <1>3 DEF PutFull, DispatcherTypeOK, PcInv, Detections, producerVars, workerVars, outcomeVars
<1>4. CASE EvictOldest
  <2>1. Head(queue) \in Detections /\ Tail(queue) \in Seq(Detections)
        /\ Len(Tail(queue)) = Len(queue) - 1 /\ Len(queue) \in Nat
    BY <1>4, HeadTailProperties, LenProperties DEF EvictOldest, DispatcherTypeOK
  <2>2. evicted' \in SUBSET Detections /\ Len(queue') <= QueueSize
    BY <1>4, <2>1 DEF EvictOldest, DispatcherTypeOK
  <2> QED
    BY <1>4, <2>1, <2>2 DEF EvictOldest, DispatcherTypeOK, PcInv, Detections, producerVars,
         workerVars, outcomeVars
<1>5. CASE EvictEmpty
  BY <1>5 DEF EvictEmpty, DispatcherTypeOK, PcInv, Detections, producerVars, workerVars, outcomeVars
<1>6. CASE EvictTaskDone
  BY <1>6 DEF EvictTaskDone, DispatcherTypeOK, PcInv, Detections, producerVars, workerVars, outcomeVars
<1>7. CASE Get
  <2>1. Head(queue) \in Detections /\ Tail(queue) \in Seq(Detections)
        /\ Len(Tail(queue)) = Len(queue) - 1 /\ Len(queue) \in Nat
    BY <1>7, HeadTailProperties, LenProperties DEF Get, DispatcherTypeOK
  <2> QED
    BY <1>7, <2>1, SMTT(30) DEF Get, DispatcherTypeOK, PcInv, Detections, producerVars, workerVars,
         outcomeVars
<1>8. CASE Write
  <2>1. item \in Detections
    BY <1>8 DEF Write, DispatcherTypeOK, PcInv, Detections
  <2>2. disk' \in SUBSET Detections
    BY <1>8, <2>1 DEF Write, DispatcherTypeOK
  <2> QED
    BY <1>8, <2>2 DEF Write, DispatcherTypeOK, PcInv, Detections, producerVars, workerVars, outcomeVars
<1>9. CASE WriteRaises
  BY <1>9 DEF WriteRaises, DispatcherTypeOK, PcInv, Detections, producerVars, workerVars, outcomeVars
<1>10. CASE EnsureChannel
  BY <1>10 DEF EnsureChannel, DispatcherTypeOK, PcInv, Detections, producerVars, workerVars, outcomeVars
<1>11. CASE ConnectFails
  BY <1>11 DEF ConnectFails, NextAttempt, ResetChannel, DispatcherTypeOK, PcInv, Detections,
       producerVars, workerVars, outcomeVars
<1>0. CASE Send
  BY <1>0 DEF Send, DispatcherTypeOK, PcInv, Detections, producerVars, workerVars, outcomeVars
<1>13. CASE SendFails
  <2>1. copies' \in [Detections -> Nat]
    BY <1>13 DEF SendFails, DispatcherTypeOK
  <2>2. attempt' \in 0..Retries /\ (wPc' = "ensure" => attempt' \in 1..Retries)
        /\ wPc' \in {"ensure", "task_done"} /\ conn' = "none"
    BY <1>13 DEF SendFails, NextAttempt, ResetChannel, DispatcherTypeOK
  <2> QED
    BY <1>13, <2>1, <2>2 DEF SendFails, DispatcherTypeOK, PcInv, Detections, producerVars,
         workerVars, outcomeVars
<1>14. CASE TaskDone
  BY <1>14 DEF TaskDone, DispatcherTypeOK, PcInv, Detections, producerVars, workerVars, outcomeVars
<1>15. CASE ConnectionBreaks
  BY <1>15 DEF ConnectionBreaks, DispatcherTypeOK, PcInv, Detections, producerVars, workerVars, outcomeVars
<1>16. CASE UNCHANGED dispatcherVars
  BY <1>16 DEF DispatcherTypeOK, PcInv, Detections, producerVars, workerVars, outcomeVars,
       dispatcherVars, producerVars, workerVars, outcomeVars
<1> QED
  BY <1>1, <1>2, <1>3, <1>4, <1>5, <1>6, <1>7, <1>8, <1>9, <1>10, <1>11, <1>0, <1>13, <1>14, <1>15,
       <1>16 DEF DispatcherNext, Producer, Worker, Idle

LEMMA AccountingStep ==
  ASSUME DispatcherTypeOK, PcInv, UnfinishedAccounting, [DispatcherNext]_dispatcherVars
  PROVE  UnfinishedAccounting'
<1>1. CASE Submit
  BY <1>1 DEF Submit, DispatcherTypeOK, PcInv, Detections, producerVars, workerVars, outcomeVars,
       UnfinishedAccounting, One
<1>2. CASE Put
  BY <1>2 DEF Put, DispatcherTypeOK, PcInv, Detections, producerVars, workerVars, outcomeVars,
       UnfinishedAccounting, One
<1>3. CASE PutFull
  BY <1>3 DEF PutFull, DispatcherTypeOK, PcInv, Detections, producerVars, workerVars, outcomeVars,
       UnfinishedAccounting, One
<1>4. CASE EvictOldest
  BY <1>4 DEF EvictOldest, DispatcherTypeOK, PcInv, Detections, producerVars, workerVars,
       outcomeVars, UnfinishedAccounting, One
<1>5. CASE EvictEmpty
  BY <1>5 DEF EvictEmpty, DispatcherTypeOK, PcInv, Detections, producerVars, workerVars,
       outcomeVars, UnfinishedAccounting, One
<1>6. CASE EvictTaskDone
  BY <1>6 DEF EvictTaskDone, DispatcherTypeOK, PcInv, Detections, producerVars, workerVars,
       outcomeVars, UnfinishedAccounting, One
<1>7. CASE Get
  BY <1>7 DEF Get, DispatcherTypeOK, PcInv, Detections, producerVars, workerVars, outcomeVars,
       UnfinishedAccounting, One
<1>8. CASE Write
  BY <1>8 DEF Write, DispatcherTypeOK, PcInv, Detections, producerVars, workerVars, outcomeVars,
       UnfinishedAccounting, One
<1>9. CASE WriteRaises
  BY <1>9 DEF WriteRaises, DispatcherTypeOK, PcInv, Detections, producerVars, workerVars,
       outcomeVars, UnfinishedAccounting, One
<1>10. CASE EnsureChannel
  BY <1>10 DEF EnsureChannel, DispatcherTypeOK, PcInv, Detections, producerVars, workerVars,
       outcomeVars, UnfinishedAccounting, One
<1>11. CASE ConnectFails
  BY <1>11 DEF ConnectFails, NextAttempt, ResetChannel, DispatcherTypeOK, PcInv, Detections,
       producerVars, workerVars, outcomeVars, UnfinishedAccounting, One
<1>0. CASE Send
  BY <1>0 DEF Send, DispatcherTypeOK, PcInv, Detections, producerVars, workerVars, outcomeVars,
       UnfinishedAccounting, One
<1>13. CASE SendFails
  BY <1>13 DEF SendFails, NextAttempt, ResetChannel, DispatcherTypeOK, PcInv, Detections,
       producerVars, workerVars, outcomeVars, UnfinishedAccounting, One
<1>14. CASE TaskDone
  BY <1>14 DEF TaskDone, DispatcherTypeOK, PcInv, Detections, producerVars, workerVars,
       outcomeVars, UnfinishedAccounting, One
<1>15. CASE ConnectionBreaks
  BY <1>15 DEF ConnectionBreaks, DispatcherTypeOK, PcInv, Detections, producerVars, workerVars,
       outcomeVars, UnfinishedAccounting, One
<1>16. CASE UNCHANGED dispatcherVars
  BY <1>16 DEF DispatcherTypeOK, PcInv, Detections, producerVars, workerVars, outcomeVars,
       UnfinishedAccounting, One, dispatcherVars, producerVars, workerVars, outcomeVars
<1> QED
  BY <1>1, <1>2, <1>3, <1>4, <1>5, <1>6, <1>7, <1>8, <1>9, <1>10, <1>11, <1>0, <1>13, <1>14, <1>15,
       <1>16 DEF DispatcherNext, Producer, Worker, Idle

-----------------------------------------------------------------------------
(* Detections stay in order, and only older ones than the latest leave. *)

LEMMA QueueFacts ==
  ASSUME DispatcherTypeOK
  PROVE  /\ Len(queue) \in Nat
         /\ DOMAIN queue = 1..Len(queue)
         /\ \A i \in 1..Len(queue) : queue[i] \in Detections /\ queue[i] \in Range(queue)
         /\ Range(queue) \subseteq Detections
<1>1. Len(queue) \in Nat /\ DOMAIN queue = 1..Len(queue)
  BY LenProperties DEF DispatcherTypeOK
<1>2. \A i \in 1..Len(queue) : queue[i] \in Detections
  BY ElementOfSeq DEF DispatcherTypeOK
<1> QED
  BY <1>1, <1>2 DEF Range

LEMMA OrderStep ==
  ASSUME DispatcherTypeOK, PcInv, KnownInv, LatestNeverEvicted, InOrder, [DispatcherNext]_dispatcherVars
  PROVE  KnownInv' /\ LatestNeverEvicted' /\ InOrder'
<1> USE DEF KnownInv, LatestNeverEvicted, InOrder, PcInv, Accepted
<1>1. /\ submitted \in Nat
      /\ item \in Nat
      /\ \A d \in evicted \cup finished : d \in Nat
  BY DEF DispatcherTypeOK, Detections
<1>2. /\ Len(queue) \in Nat
      /\ DOMAIN queue = 1..Len(queue)
      /\ \A i \in 1..Len(queue) : queue[i] \in Nat /\ queue[i] \in Range(queue)
      /\ \A d \in Range(queue) : d \in Nat
  BY QueueFacts DEF Detections
<1>3. CASE Submit
  <2>1. submitted' = submitted + 1 /\ pPc = "idle" /\ pPc' # "idle"
        /\ UNCHANGED <<queue, item, evicted, finished>>
    BY <1>3 DEF Submit, workerVars
  <2> QED
    BY <1>1, <1>2, <2>1
<1>4. CASE Put
  <2>1. submitted \in Detections
    BY <1>4 DEF Put, DispatcherTypeOK, Detections
  <2>2. /\ DOMAIN queue' = 1..(Len(queue) + 1)
        /\ \A i \in 1..Len(queue) : queue'[i] = queue[i]
        /\ queue'[Len(queue) + 1] = submitted
        /\ Range(queue') = Range(queue) \cup {submitted}
    BY <1>4, <2>1, AppendProperties, LenProperties, QueuedRange DEF Put, DispatcherTypeOK
  <2>3. pPc = "put" /\ pPc' = "idle" /\ UNCHANGED <<submitted, item, evicted, finished>>
    BY <1>4 DEF Put, workerVars
  <2>4. /\ \A d \in {item} \cup finished : d < submitted
        /\ \A i \in 1..Len(queue) : queue[i] < submitted
    <3>1. Accepted = submitted - 1
      BY <2>3
    <3>2. \A d \in {item} \cup finished \cup Range(queue) : d \in Nat /\ d <= submitted - 1
      BY <1>1, <1>2, <3>1
    <3> QED
      BY <1>1, <1>2, <3>2
  <2>5. InOrder'
    BY <1>1, <1>2, <2>2, <2>3, <2>4
  <2> QED
    BY <1>1, <1>2, <2>2, <2>3, <2>5
<1>5. ASSUME queue # <<>>, queue' = Tail(queue)
      PROVE  /\ DOMAIN queue' = 1..(Len(queue) - 1)
             /\ \A i \in 1..(Len(queue) - 1) : i + 1 \in 1..Len(queue) /\ queue'[i] = queue[i + 1]
             /\ Head(queue) = queue[1] /\ Head(queue) \in Nat
             /\ Range(queue) = {Head(queue)} \cup Range(queue')
             /\ Len(queue) \in Nat \ {0}
  <2>1. queue' \in Seq(Detections) /\ Len(queue') = Len(queue) - 1 /\ Len(queue) \in Nat \ {0}
        /\ Head(queue) = queue[1]
    BY <1>5, HeadTailProperties, EmptySeq DEF DispatcherTypeOK
  <2>2. DOMAIN queue' = 1..(Len(queue) - 1)
    BY <2>1, LenProperties
  <2>3. \A i \in 1..(Len(queue) - 1) : queue'[i] = queue[i + 1]
    BY <1>5, <2>1, HeadTailProperties DEF DispatcherTypeOK
  <2>4. Range(queue) = {Head(queue)} \cup Range(queue')
    BY <1>5, QueueTailRange DEF DispatcherTypeOK
  <2> QED
    BY <1>2, <2>1, <2>2, <2>3, <2>4
<1>6. CASE EvictOldest
  <2>1. queue # <<>> /\ queue' = Tail(queue) /\ pPc = "evict" /\ pPc' = "task_done"
        /\ evicted' = evicted \cup {Head(queue)} /\ UNCHANGED <<submitted, item, finished>>
    BY <1>6 DEF EvictOldest, workerVars
  <2>2. KnownInv' /\ LatestNeverEvicted'
    BY <1>1, <1>2, <1>5, <2>1
  <2>3. \A i, j \in 1..(Len(queue) - 1) : i < j => queue[i + 1] < queue[j + 1]
    BY <1>2, SMTT(30)
  <2>4. \A i \in 1..(Len(queue) - 1), d \in finished \cup {item} : d < queue[i + 1]
    BY <1>2, SMTT(30)
  <2>5. InOrder'
    BY <1>2, <1>5, <2>1, <2>3, <2>4
  <2> QED
    BY <2>2, <2>5
<1>7. CASE Get
  <2>1. queue # <<>> /\ queue' = Tail(queue) /\ item' = Head(queue)
        /\ UNCHANGED <<submitted, pPc, evicted, finished>>
    BY <1>7 DEF Get, producerVars
  <2>2. KnownInv' /\ LatestNeverEvicted'
    BY <1>1, <1>2, <1>5, <2>1
  <2>3. \A i \in 1..(Len(queue) - 1) : 1 < i + 1 /\ queue[1] < queue[i + 1]
                                       /\ \A d \in finished : d < queue[i + 1]
    BY <1>2, <1>5, <2>1
  <2>4. \A i, j \in 1..(Len(queue) - 1) : i < j => queue[i + 1] < queue[j + 1]
    BY <1>2, SMTT(30)
  <2>5. InOrder'
    BY <1>5, <2>1, <2>3, <2>4
  <2> QED
    BY <2>2, <2>5
<1>8. CASE TaskDone
  <2>1. finished' = finished \cup {item} /\ item' = 0
        /\ UNCHANGED <<queue, submitted, pPc, evicted>>
    BY <1>8 DEF TaskDone, producerVars
  <2>2. \A i \in 1..Len(queue) : 0 < queue[i]
    BY <1>2, ElementOfSeq DEF DispatcherTypeOK, Detections
  <2> QED
    BY <1>1, <1>2, <2>1, <2>2
<1>9. CASE PutFull \/ EvictEmpty \/ EvictTaskDone
  <2>1. pPc # "idle" /\ pPc' # "idle" /\ UNCHANGED <<queue, submitted, item, evicted, finished>>
    BY <1>9 DEF PutFull, EvictEmpty, EvictTaskDone, workerVars
  <2> QED
    BY <2>1
<1>10. CASE \/ Write \/ WriteRaises \/ EnsureChannel \/ ConnectFails \/ Send \/ SendFails
            \/ ConnectionBreaks \/ UNCHANGED dispatcherVars
  <2>1. UNCHANGED <<pPc, queue, submitted, item, evicted, finished>>
    BY <1>10 DEF Write, WriteRaises, EnsureChannel, ConnectFails, Send, SendFails,
                 ConnectionBreaks, dispatcherVars, producerVars, workerVars
  <2> QED
    BY <2>1
<1> QED
  BY <1>3, <1>4, <1>6, <1>7, <1>8, <1>9, <1>10 DEF DispatcherNext, Producer, Worker, Idle

-----------------------------------------------------------------------------
(* No detection is lost or handled twice between the two threads. *)

LEMMA HeadLeaves ==
  ASSUME DispatcherTypeOK, InOrder, queue # <<>>
  PROVE  /\ Head(queue) \in Range(queue)
         /\ Range(queue) = {Head(queue)} \cup Range(Tail(queue))
         /\ Head(queue) \notin Range(Tail(queue))
         /\ Head(queue) \in Detections
         /\ Head(queue) \notin finished \cup {item}
<1>1. /\ Len(queue) \in Nat \ {0}
      /\ Head(queue) = queue[1]
      /\ Tail(queue) \in Seq(Detections)
      /\ Len(Tail(queue)) = Len(queue) - 1
      /\ \A i \in 1..Len(Tail(queue)) : Tail(queue)[i] = queue[i + 1]
  BY HeadTailProperties, EmptySeq DEF DispatcherTypeOK
<1>2. 1 \in DOMAIN queue /\ DOMAIN queue = 1..Len(queue)
  BY <1>1, QueueFacts
<1>3. DOMAIN Tail(queue) = 1..(Len(queue) - 1)
  BY <1>1, LenProperties
<1>4. \A i \in 1..(Len(queue) - 1) : queue[1] < Tail(queue)[i] /\ Tail(queue)[i] \in Nat
  <2>1. \A i \in 1..(Len(queue) - 1) : i + 1 \in 1..Len(queue) /\ 1 < i + 1
    BY <1>1
  <2> QED
    BY <1>1, <1>2, <2>1, QueueFacts DEF InOrder, Detections
<1>5. queue[1] \in Nat /\ queue[1] \in Detections /\ queue[1] \in Range(queue)
  BY <1>1, QueueFacts DEF Detections
<1>6. \A d \in finished \cup {item} : d < queue[1]
  BY <1>2 DEF InOrder
<1>7. queue[1] \notin Range(Tail(queue))
  BY <1>3, <1>4, <1>5 DEF Range
<1>8. Range(queue) = {Head(queue)} \cup Range(Tail(queue))
  BY QueueTailRange DEF DispatcherTypeOK
<1> QED
  BY <1>1, <1>5, <1>6, <1>7, <1>8

LEMMA PlacesStep ==
  ASSUME DispatcherTypeOK, PcInv, KnownInv, InOrder, LatestNeverEvicted, ExactlyOnePlace, [DispatcherNext]_dispatcherVars
  PROVE  ExactlyOnePlace'
<1> USE DEF ExactlyOnePlace, Incoming, One
<1>1. submitted \in Nat /\ item \in Nat
  BY DEF DispatcherTypeOK
<1>2. CASE Submit
  <2>1. submitted' = submitted + 1 /\ pPc = "idle" /\ pPc' # "idle"
        /\ UNCHANGED <<queue, item, evicted, finished>>
    BY <1>2 DEF Submit, workerVars
  <2>2. submitted + 1 \notin {item} \cup Range(queue) \cup evicted \cup finished
    BY <1>1, <2>1 DEF KnownInv, Accepted
  <2>3. \A d \in 1..(submitted + 1) : d \in 1..submitted \/ d = submitted + 1
    BY <1>1
  <2>4. \A d \in 1..submitted : d # submitted + 1
    BY <1>1
  <2> QED
    BY <2>1, <2>2, <2>3, <2>4
<1>3. CASE Put
  <2>1. pPc = "put" /\ pPc' = "idle" /\ UNCHANGED <<submitted, item, evicted, finished>>
    BY <1>3 DEF Put, workerVars
  <2>2. submitted \in Detections
    BY <1>3, <2>1 DEF DispatcherTypeOK, PcInv, Detections
  <2>3. Range(queue') = Range(queue) \cup {submitted}
    BY <1>3, <2>2, QueuedRange DEF Put, DispatcherTypeOK
  <2>4. submitted \notin Range(queue)
    BY <1>1, <2>1 DEF KnownInv, Accepted
  <2> QED
    BY <2>1, <2>3, <2>4
<1>4. CASE EvictOldest
  <2>1. queue # <<>> /\ queue' = Tail(queue) /\ pPc = "evict" /\ pPc' = "task_done"
        /\ evicted' = evicted \cup {Head(queue)} /\ UNCHANGED <<submitted, item, finished>>
    BY <1>4 DEF EvictOldest, workerVars
  <2> QED
    BY <2>1, HeadLeaves
<1>5. CASE Get
  <2>1. queue # <<>> /\ queue' = Tail(queue) /\ item' = Head(queue) /\ item = 0
        /\ UNCHANGED <<submitted, pPc, evicted, finished>>
    BY <1>5 DEF Get, producerVars, PcInv
  <2> QED
    BY <2>1, HeadLeaves
<1>6. CASE TaskDone
  <2>1. finished' = finished \cup {item} /\ item' = 0
        /\ UNCHANGED <<queue, submitted, pPc, evicted>>
    BY <1>6 DEF TaskDone, producerVars
  <2> QED
    BY <2>1
<1>7. CASE PutFull \/ EvictEmpty \/ EvictTaskDone
  <2>1. pPc # "idle" /\ pPc' # "idle" /\ UNCHANGED <<queue, submitted, item, evicted, finished>>
    BY <1>7 DEF PutFull, EvictEmpty, EvictTaskDone, workerVars
  <2> QED
    BY <2>1
<1>8. CASE \/ Write \/ WriteRaises \/ EnsureChannel \/ ConnectFails \/ Send \/ SendFails
           \/ ConnectionBreaks \/ UNCHANGED dispatcherVars
  <2>1. UNCHANGED <<pPc, queue, submitted, item, evicted, finished>>
    BY <1>8 DEF Write, WriteRaises, EnsureChannel, ConnectFails, Send, SendFails,
                ConnectionBreaks, dispatcherVars, producerVars, workerVars
  <2> QED
    BY <2>1
<1> QED
  BY <1>2, <1>3, <1>4, <1>5, <1>6, <1>7, <1>8 DEF DispatcherNext, Producer, Worker, Idle

-----------------------------------------------------------------------------
(* An alert goes out at most Retries times, and not after a failed write. *)

LEMMA PublishStep ==
  ASSUME DispatcherTypeOK, PcInv, InOrder, PublishInv, AlertsJustified, [DispatcherNext]_dispatcherVars
  PROVE  PublishInv' /\ AlertsJustified'
<1> USE DispatcherAssumption DEF PublishInv, AlertsJustified
<1>1. copies \in [Detections -> Nat] /\ attempt \in Nat /\ Retries \in Nat
  BY DEF DispatcherTypeOK
<1>2. wPc # "get" => item \in Detections
  BY DEF DispatcherTypeOK, PcInv, Detections
<1>0. attempt <= Retries /\ \A d \in Detections : copies'[d] \in Nat
  BY CoreStep DEF DispatcherTypeOK
<1>3. CASE Get
  <2>1. item' = Head(queue) /\ wPc' = "write" /\ wPc = "get" /\ item = 0 /\ queue # <<>>
        /\ UNCHANGED <<finished, raised, copies>>
    BY <1>3 DEF Get, outcomeVars, PcInv
  <2>2. Head(queue) \in Detections /\ Head(queue) \notin finished \cup {item}
    BY <2>1, HeadLeaves
  <2>3. 0 \notin Detections
    BY DEF Detections
  <2> QED
    BY <2>1, <2>2, <2>3
<1>4. CASE Write
  BY <1>1, <1>2, <1>4 DEF Write
<1>5. CASE WriteRaises
  BY <1>1, <1>2, <1>5 DEF WriteRaises
<1>6. CASE EnsureChannel
  BY <1>6 DEF EnsureChannel, outcomeVars
<1>7. CASE ConnectFails
  BY <1>1, <1>2, <1>7 DEF ConnectFails, NextAttempt, ResetChannel, outcomeVars
<1>8. CASE Send
  <2>1. /\ wPc = "send" /\ wPc' = "task_done" /\ item \in Detections
        /\ copies[item] < attempt /\ item \notin raised
        /\ UNCHANGED <<item, finished, raised>>
    BY <1>2, <1>8 DEF Send
  <2>2. /\ \A d \in Detections : d # item => copies'[d] = copies[d]
        /\ copies'[item] <= copies[item] + 1
    BY <1>1, <1>8, <2>1 DEF Send
  <2>3. copies'[item] <= Retries
    BY <1>1, <2>1, <2>2, <1>0
  <2> QED
    BY <2>1, <2>2, <2>3
<1>9. CASE SendFails
  <2>1. /\ wPc = "send" /\ item \in Detections
        /\ copies[item] < attempt /\ item \notin raised
        /\ UNCHANGED <<item, finished, raised>>
    BY <1>2, <1>9 DEF SendFails
  <2>2. /\ \A d \in Detections : d # item => copies'[d] = copies[d]
        /\ copies'[item] <= copies[item] + 1
    BY <1>1, <1>9, <2>1 DEF SendFails
  <2>3. copies'[item] <= attempt
    BY <1>1, <2>1, <2>2, <1>0
  <2>4. \/ attempt' = attempt + 1 /\ wPc' = "ensure"
        \/ wPc' = "task_done"
    BY <1>9 DEF SendFails, NextAttempt, ResetChannel
  <2>5. copies'[item] <= Retries /\ (wPc' = "ensure" => copies'[item] < attempt')
    BY <1>1, <2>1, <2>3, <2>4, <1>0
  <2> QED
    BY <2>1, <2>2, <2>4, <2>5
<1>10. CASE TaskDone
  BY <1>10 DEF TaskDone, outcomeVars
<1>11. CASE \/ Submit \/ Put \/ PutFull \/ EvictOldest \/ EvictEmpty \/ EvictTaskDone
            \/ ConnectionBreaks \/ UNCHANGED dispatcherVars
  <2>1. UNCHANGED <<wPc, item, attempt, finished, raised, copies>>
    BY <1>11 DEF Submit, Put, PutFull, EvictOldest, EvictEmpty, EvictTaskDone,
                 ConnectionBreaks, dispatcherVars, workerVars, outcomeVars
  <2> QED
    BY <2>1
<1> QED
  BY <1>3, <1>4, <1>5, <1>6, <1>7, <1>8, <1>9, <1>10, <1>11 DEF DispatcherNext, Producer, Worker, Idle

-----------------------------------------------------------------------------
LEMMA DispatcherInvInit == DispatcherInit => DispatcherInv
<1> SUFFICES ASSUME DispatcherInit PROVE DispatcherInv
  OBVIOUS
<1>1. DispatcherTypeOK /\ PcInv
  BY CoreInit
<1>2. Range(<<>>) = {}
  BY DEF Range
<1>3. KnownInv /\ UnfinishedAccounting /\ LatestNeverEvicted /\ InOrder /\ ExactlyOnePlace
  BY <1>2 DEF DispatcherInit, KnownInv, Accepted, UnfinishedAccounting, One, LatestNeverEvicted, InOrder,
              ExactlyOnePlace
<1>4. PublishInv /\ AlertsJustified
  BY DispatcherAssumption DEF DispatcherInit, PublishInv, AlertsJustified, Detections
<1> QED
  BY <1>1, <1>3, <1>4 DEF DispatcherInv

\* The inductive invariant: everything below is a conjunct of it.
THEOREM DispatcherInvariant == DispatcherSpec => []DispatcherInv
<1>1. DispatcherInv /\ [DispatcherNext]_dispatcherVars => DispatcherInv'
  BY CoreStep, AccountingStep, OrderStep, PlacesStep, PublishStep DEF DispatcherInv
<1> QED
  BY DispatcherInvInit, <1>1, PTL DEF DispatcherSpec

\* Types, and the queue never holds more than QueueSize detections.
THEOREM DispatcherTypeCorrect == DispatcherSpec => []DispatcherTypeOK
BY DispatcherInvariant, PTL DEF DispatcherInv

\* unfinished_tasks is exact whatever the two threads do, so task_done never
\* raises in either of them.
THEOREM AccountingCorrect == DispatcherSpec => []UnfinishedAccounting
BY DispatcherInvariant, PTL DEF DispatcherInv

\* The comment of submit holds: eviction never costs the latest detection.
THEOREM LatestSafe == DispatcherSpec => []LatestNeverEvicted
BY DispatcherInvariant, PTL DEF DispatcherInv

\* No detection is lost between the threads and none is handled twice.
THEOREM NoneLostOrDoubled == DispatcherSpec => []ExactlyOnePlace
BY DispatcherInvariant, PTL DEF DispatcherInv

\* Detections leave in the order they came.
THEOREM OrderKept == DispatcherSpec => []InOrder
BY DispatcherInvariant, PTL DEF DispatcherInv

\* No alert without an attempted write, and at most Retries copies of it.
THEOREM AlertsAreJustified == DispatcherSpec => []AlertsJustified
BY DispatcherInvariant, PTL DEF DispatcherInv

-----------------------------------------------------------------------------
(* The refinement of DropOldestBuffer, its fairness apart.  LastTaken is the *)
(* held detection or else the largest finished one; that it does not move    *)
(* when the daemon thread is done with the held one takes one invariant more. *)

\* The daemon thread holds a newer detection than all it has finished.
HeldIsNewest == item # 0 => \A d \in finished : d < item

\* ImplementsBuffer without the fairness of the buffer.
BufferSafety == Buffer!Init /\ [][Buffer!Next]_(Buffer!vars)

LEMMA HeldStep ==
  ASSUME DispatcherInv, HeldIsNewest, [DispatcherNext]_dispatcherVars
  PROVE  HeldIsNewest'
<1>1. CASE Get
  <2>1. queue # <<>> /\ item' = Head(queue) /\ finished' = finished
    BY <1>1 DEF Get
  <2>2. 1 \in DOMAIN queue /\ Head(queue) = queue[1]
    BY <2>1, HeadTailProperties, LenProperties DEF DispatcherInv, DispatcherTypeOK
  <2> QED
    BY <2>1, <2>2 DEF DispatcherInv, InOrder, HeldIsNewest
<1>2. CASE TaskDone
  BY <1>2 DEF TaskDone, HeldIsNewest
<1>3. CASE \/ Submit \/ Producer \/ ConnectionBreaks \/ UNCHANGED dispatcherVars
  BY <1>3 DEF Submit, Producer, Put, PutFull, EvictOldest, EvictEmpty, EvictTaskDone,
              ConnectionBreaks, HeldIsNewest, dispatcherVars, workerVars
<1>4. CASE Write \/ WriteRaises \/ EnsureChannel \/ ConnectFails \/ Send \/ SendFails
  BY <1>4 DEF Write, WriteRaises, EnsureChannel, ConnectFails, Send, SendFails, HeldIsNewest
<1> QED
  BY <1>1, <1>2, <1>3, <1>4 DEF DispatcherNext, Worker, Idle

LEMMA LastTakenStays ==
  ASSUME DispatcherInv, HeldIsNewest, TaskDone
  PROVE  LastTaken' = LastTaken
<1>1. /\ item \in Nat \ {0}
      /\ item' = 0
      /\ finished' = finished \cup {item}
      /\ finished \subseteq Nat
  BY DEF DispatcherInv, DispatcherTypeOK, PcInv, TaskDone, Detections
<1>2. item \in finished' /\ \A e \in finished' : e <= item
  BY <1>1 DEF HeldIsNewest
<1>3. \A d \in finished' : (\A e \in finished' : e <= d) => d = item
  BY <1>1, <1>2
<1>4. (CHOOSE d \in finished' : \A e \in finished' : e <= d) = item
  BY <1>2, <1>3
<1> QED
  BY <1>1, <1>2, <1>4 DEF LastTaken

LEMMA BufferStep ==
  ASSUME DispatcherInv, HeldIsNewest, [DispatcherNext]_dispatcherVars
  PROVE  [Buffer!Next]_(Buffer!vars)
<1> DEFINE stutters == UNCHANGED <<queue, submitted, Accepted, LastTaken>>
<1>0. submitted \in Nat
  BY DEF DispatcherInv, DispatcherTypeOK
<1>1. ASSUME stutters PROVE [Buffer!Next]_(Buffer!vars)
  BY <1>1 DEF Buffer!vars
<1>2. CASE Submit
  <2>1. UNCHANGED LastTaken
    BY <1>2 DEF Submit, LastTaken, workerVars
  <2>2. Buffer!Offer
    BY <1>0, <1>2, <2>1 DEF Submit, Accepted, Buffer!Offer, Buffer!InProgress
  <2> QED
    BY <2>2 DEF Buffer!Next
<1>3. CASE Put
  <2>1. UNCHANGED LastTaken
    BY <1>3 DEF Put, LastTaken, workerVars
  <2>2. Buffer!Accept
    BY <1>0, <1>3, <2>1 DEF Put, Accepted, Buffer!Accept, Buffer!InProgress
  <2> QED
    BY <2>2 DEF Buffer!Next
<1>4. CASE EvictOldest
  <2>1. UNCHANGED LastTaken
    BY <1>4 DEF EvictOldest, LastTaken, workerVars
  <2>2. Buffer!DropOldest
    BY <1>0, <1>4, <2>1 DEF EvictOldest, Accepted, Buffer!DropOldest, Buffer!InProgress
  <2> QED
    BY <2>2 DEF Buffer!Next
<1>5. CASE PutFull \/ EvictEmpty \/ EvictTaskDone
  <2>1. UNCHANGED <<queue, submitted, item, finished>> /\ pPc # "idle" /\ pPc' # "idle"
    BY <1>5 DEF PutFull, EvictEmpty, EvictTaskDone, workerVars
  <2> QED
    BY <1>1, <2>1 DEF Accepted, LastTaken
<1>6. CASE Get
  <2>1. Head(queue) # 0
    BY <1>6, HeadTailProperties, SMTT(30) DEF Get, DispatcherInv, DispatcherTypeOK, Detections
  <2>2. LastTaken' = Head(queue)
    BY <1>6, <2>1 DEF Get, LastTaken
  <2>3. Buffer!Take
    BY <1>6, <2>2 DEF Get, Accepted, Buffer!Take, producerVars
  <2> QED
    BY <2>3 DEF Buffer!Next
<1>7. CASE TaskDone
  BY <1>1, <1>7, LastTakenStays DEF TaskDone, Accepted, producerVars
<1>8. CASE \/ Write \/ WriteRaises \/ EnsureChannel \/ ConnectFails \/ Send \/ SendFails
           \/ ConnectionBreaks \/ UNCHANGED dispatcherVars
  <2>1. UNCHANGED <<queue, submitted, pPc, item, finished>>
    BY <1>8 DEF Write, WriteRaises, EnsureChannel, ConnectFails, Send, SendFails,
                ConnectionBreaks, dispatcherVars, producerVars, workerVars
  <2> QED
    BY <1>1, <2>1 DEF Accepted, LastTaken
<1> QED
  BY <1>2, <1>3, <1>4, <1>5, <1>6, <1>7, <1>8 DEF DispatcherNext, Producer, Worker, Idle

\* submit and the daemon thread implement the drop-oldest buffer, for every size:
\* each of their steps is a step of the buffer or leaves it alone, so only the
\* oldest detection ever makes way, and only for a newer one.
THEOREM RefinesBuffer == DispatcherSpec => BufferSafety
<1>1. DispatcherInit => HeldIsNewest /\ Buffer!Init
  BY DEF DispatcherInit, HeldIsNewest, Buffer!Init, Accepted, LastTaken
<1>2. DispatcherInv /\ HeldIsNewest /\ [DispatcherNext]_dispatcherVars => HeldIsNewest'
  BY HeldStep
<1>3. DispatcherInv /\ HeldIsNewest /\ [DispatcherNext]_dispatcherVars => [Buffer!Next]_(Buffer!vars)
  BY BufferStep
<1> QED
  BY DispatcherInvariant, <1>1, <1>2, <1>3, PTL DEF DispatcherSpec, BufferSafety

=============================================================================
