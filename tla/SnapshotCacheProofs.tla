------------------------- MODULE SnapshotCacheProofs -------------------------
(***************************************************************************)
(* Safety of SnapshotCache for any number of requests, frames and slots of   *)
(* the worker's backlog: the RWMutex keeps the halves of the raw frame and   *)
(* the JPEG slices whole, and a slice that a handler still holds outside     *)
(* the lock is never written again.                                          *)
(***************************************************************************)
EXTENDS SnapshotCache, SequenceTheorems, TLAPS

\* Who holds the lock: the writer is the goroutine that is copying, and no handler
\* copies beside it.
LockInv ==
  /\ writer = "main" <=> main.pc = "copy"
  /\ writer = "worker" <=> worker.pc = "copy"
  /\ writer # "nobody" => \A h \in Handlers : request[h].pc # "copy"

\* A frame has passed UpdateRaw.
Captured == luma # 0 /\ chroma # 0

\* The halves differ only while main copies; what main and the worker carry are
\* captured frames, and the time of the last update is set after the first one.
RawInv ==
  /\ main.pc # "read" => main.frame # 0
  /\ writer = "main" => luma = main.frame
  /\ writer # "main" => luma = chroma
  /\ main.pc = "gate" \/ worker.pc # "select" \/ updatedAt # 0 \/ backlog # <<>> => Captured
  /\ worker.pc # "select" => worker.frame # 0
  /\ \A i \in 1..Len(backlog) : backlog[i] # 0

One(b) == IF b THEN 1 ELSE 0

\* jpegBytes is the youngest slice, every slice but the one being filled shows a
\* frame, and there are no more slices than frames went to the worker.
SliceInv ==
  /\ jpeg = Len(slices)
  /\ writer = "worker" => jpeg # 0
  /\ \A i \in 1..Len(slices) : slices[i] = 0 => writer = "worker" /\ i = jpeg
  /\ Len(slices) + One(worker.pc = "lock") + Len(backlog) + One(main.pc # "read") <= main.frame

ClockInv ==
  /\ jpegAt <= now /\ updatedAt <= now
  /\ \A h \in Handlers : request[h].stored <= now

\* What a handler has read: under the lock the current frame, afterwards two halves
\* of one frame, and a slice that shows one.
RequestInv == \A h \in Handlers :
  LET r == request[h] IN
  /\ r.pc = "copy" => r.luma = luma /\ r.time = updatedAt
  /\ r.pc = "decide" => r.luma = r.chroma /\ (r.time # 0 => r.luma # 0)
  /\ r.pc \in {"copy", "decide", "write"} /\ r.slice # 0 =>
       r.slice \in 1..Len(slices) /\ slices[r.slice] # 0
  /\ r.pc = "write" => r.slice # 0

IInv == TypeOK /\ LockInv /\ RawInv /\ SliceInv /\ ClockInv /\ RequestInv /\ RepliesWhole

-----------------------------------------------------------------------------
(* Types *)

LEMMA OneIsBit == \A b : One(b) \in {0, 1}
BY DEF One

LEMMA TypeInit == Init => TypeOK
BY SnapshotAssumption DEF Init, TypeOK, NoRequest, Requests, Frames, Times

\* What a handler does to its request, and to nothing else.
LEMMA RequestTyped ==
  ASSUME IInv, NEW h \in Handlers, Request(h) \/ Handle(h)
  PROVE  Continues(h) /\ request' \in [Handlers -> Requests]
<1> USE SnapshotAssumption
<1>0. /\ request \in [Handlers -> Requests] /\ request[h] \in Requests
      /\ luma \in Frames /\ chroma \in Frames /\ jpegAt \in Times /\ updatedAt \in Times
      /\ now \in Times /\ NoRequest \in Requests /\ jpeg \in 0..MaxFrames
  <2>1. Len(slices) \in Nat /\ Len(backlog) \in Nat /\ main.frame \in Nat /\ main.frame <= MaxFrames
    BY DEF IInv, TypeOK, Frames
  <2>2. Len(slices) <= main.frame
    BY <2>1, OneIsBit DEF IInv, SliceInv
  <2>3. jpeg \in 0..MaxFrames
    BY <2>1, <2>2 DEF IInv, SliceInv
  <2>4. NoRequest \in Requests
    BY DEF NoRequest, Requests, Frames, Times
  <2> QED
    BY <2>3, <2>4 DEF IInv, TypeOK
<1>1. CASE Request(h)
  <2>1. PICK g \in BOOLEAN :
          request' = [request EXCEPT ![h].pc = "lock", ![h].grid = g]
    BY <1>1 DEF Request
  <2>2. Continues(h)
    BY <1>1 DEF Request
  <2> QED
    BY <1>0, <2>1, <2>2 DEF Requests
<1>2. CASE ReadBegins(h)
  BY <1>0, <1>2 DEF ReadBegins, Requests
<1>3. CASE ReadEnds(h)
  BY <1>0, <1>3 DEF ReadEnds, Requests
<1>4. CASE Unavailable(h)
  BY <1>0, <1>4 DEF Unavailable
<1>5. CASE ServeCached(h)
  <2>1. now - request[h].stored \in Times
    BY <1>0 DEF IInv, ClockInv, Times, Requests
  <2> QED
    BY <1>0, <1>5, <2>1 DEF ServeCached, Requests
<1>6. CASE WriteCached(h)
  <2>1. slices[request[h].slice] \in Frames
    BY <1>6 DEF WriteCached, IInv, TypeOK, RequestInv
  <2> QED
    BY <1>0, <1>6, <2>1 DEF WriteCached, Reply, NoRequest, Requests
<1>7. CASE ServeRendered(h)
  BY <1>0, <1>7 DEF ServeRendered, Reply, NoRequest, Requests
<1> QED
  BY <1>1, <1>2, <1>3, <1>4, <1>5, <1>6, <1>7 DEF Handle

\* A request that copies afterwards found no writer; the time it holds is that of the
\* slice it read; the other requests stay.
LEMMA RequestMoves ==
  ASSUME TypeOK, NEW h \in Handlers, Request(h) \/ Handle(h)
  PROVE  /\ \A k \in Handlers : k # h => request'[k] = request[k]
         /\ request'[h].pc = "copy" => writer = "nobody"
         /\ request'[h].stored \in {0, jpegAt, request[h].stored}
<1>0. request \in [Handlers -> Requests]
  BY DEF TypeOK
<1> USE <1>0 DEF Requests
<1>1. CASE Request(h)
  <2>1. PICK g \in BOOLEAN :
          request' = [request EXCEPT ![h].pc = "lock", ![h].grid = g]
    BY <1>1 DEF Request
  <2> QED
    BY <2>1
<1>2. CASE ReadBegins(h)
  BY <1>2 DEF ReadBegins
<1>3. CASE ReadEnds(h)
  BY <1>3 DEF ReadEnds
<1>4. CASE Unavailable(h)
  BY <1>4 DEF Unavailable, NoRequest
<1>5. CASE ServeCached(h)
  BY <1>5 DEF ServeCached
<1>6. CASE WriteCached(h)
  BY <1>6 DEF WriteCached, Reply, NoRequest
<1>7. CASE ServeRendered(h)
  BY <1>7 DEF ServeRendered, Reply, NoRequest
<1> QED
  BY <1>1, <1>2, <1>3, <1>4, <1>5, <1>6, <1>7 DEF Handle

LEMMA TypeStep == IInv /\ [Next]_vars => TypeOK'
<1> SUFFICES ASSUME IInv, [Next]_vars PROVE TypeOK'
  OBVIOUS
<1>0. TypeOK
  BY DEF IInv
<1> USE SnapshotAssumption, <1>0 DEF TypeOK, rawVars, jpegVars
<1>1. CASE Tick
  BY <1>1 DEF Tick, Times
<1>2. CASE ReadFrame
  BY <1>2 DEF ReadFrame, Frames
<1>3. CASE UpdateRawBegins
  BY <1>3 DEF UpdateRawBegins
<1>4. CASE UpdateRawEnds
  BY <1>4 DEF UpdateRawEnds
<1>5. CASE Gate
  <2>1. backlog' \in Seq(Frames) /\ Len(backlog') <= Backlog
    <3>1. CASE backlog' = backlog
      BY <3>1
    <3>2. CASE HasRoom /\ backlog' = Append(backlog, main.frame)
      BY <3>2, AppendProperties DEF HasRoom
    <3> QED
      BY <1>5, <3>1, <3>2 DEF Gate
  <2> QED
    BY <1>5, <2>1 DEF Gate
<1>6. CASE WorkerTakes
  <2>1. Head(backlog) \in Frames /\ Tail(backlog) \in Seq(Frames) /\ Len(Tail(backlog)) <= Backlog
    BY <1>6, HeadTailProperties DEF WorkerTakes
  <2> QED
    BY <1>6, <2>1 DEF WorkerTakes
<1>7. CASE UpdateJPEGBegins
  <2>1. 0 \in Frames
    BY DEF Frames
  <2>2. slices' \in Seq(Frames) /\ jpeg' \in 0..Len(slices')
    BY <1>7, <2>1, AppendProperties DEF UpdateJPEGBegins, NewSlice
  <2> QED
    BY <1>7, <2>2 DEF UpdateJPEGBegins
<1>8. CASE UpdateJPEGEnds
  <2>1. jpeg \in 1..Len(slices)
    BY <1>8 DEF UpdateJPEGEnds, IInv, LockInv, SliceInv
  <2>2. slices' \in Seq(Frames) /\ Len(slices') = Len(slices)
    BY <1>8, <2>1, ExceptSeq DEF UpdateJPEGEnds
  <2> QED
    BY <1>8, <2>2 DEF UpdateJPEGEnds
<1>9. ASSUME NEW h \in Handlers, Request(h) \/ Handle(h) PROVE TypeOK'
  BY <1>9, RequestTyped DEF Continues
<1>10. CASE UNCHANGED vars
  BY <1>10 DEF vars
<1> QED
  BY <1>1, <1>2, <1>3, <1>4, <1>5, <1>6, <1>7, <1>8, <1>9, <1>10 DEF Next, Main, Worker

-----------------------------------------------------------------------------
(* The invariant, one lemma for each of its parts *)

LEMMA LockStep == IInv /\ [Next]_vars => LockInv'
<1> SUFFICES ASSUME IInv, [Next]_vars PROVE LockInv'
  OBVIOUS
<1>0. TypeOK /\ LockInv
  BY DEF IInv
<1> USE <1>0 DEF TypeOK, LockInv
<1>1. CASE Tick
  BY <1>1 DEF Tick
<1>2. CASE ReadFrame
  BY <1>2 DEF ReadFrame
<1>3. CASE UpdateRawBegins
  BY <1>3 DEF UpdateRawBegins, MayWrite, Readers
<1>4. CASE UpdateRawEnds
  BY <1>4 DEF UpdateRawEnds
<1>5. CASE Gate
  BY <1>5 DEF Gate
<1>6. CASE WorkerTakes
  BY <1>6 DEF WorkerTakes
<1>7. CASE UpdateJPEGBegins
  BY <1>7 DEF UpdateJPEGBegins, MayWrite, Readers
<1>8. CASE UpdateJPEGEnds
  BY <1>8 DEF UpdateJPEGEnds
<1>9. ASSUME NEW h \in Handlers, Request(h) \/ Handle(h) PROVE LockInv'
  BY <1>9, RequestTyped, RequestMoves DEF Continues
<1>10. CASE UNCHANGED vars
  BY <1>10 DEF vars
<1> QED
  BY <1>1, <1>2, <1>3, <1>4, <1>5, <1>6, <1>7, <1>8, <1>9, <1>10 DEF Next, Main, Worker

LEMMA RawStep == IInv /\ [Next]_vars => RawInv'
<1> SUFFICES ASSUME IInv, [Next]_vars PROVE RawInv'
  OBVIOUS
<1>0. TypeOK /\ LockInv /\ RawInv
  BY DEF IInv
<1> USE <1>0 DEF TypeOK, RawInv, Captured, rawVars, jpegVars
<1>1. CASE Tick
  BY <1>1 DEF Tick
<1>2. CASE ReadFrame
  BY <1>2 DEF ReadFrame, Frames, LockInv
<1>3. CASE UpdateRawBegins
  BY <1>3 DEF UpdateRawBegins, MayWrite
<1>4. CASE UpdateRawEnds
  BY <1>4 DEF UpdateRawEnds, LockInv
<1>5. CASE Gate
  <2>1. \A i \in 1..Len(backlog') : backlog'[i] # 0
    <3>1. CASE backlog' = backlog
      BY <3>1
    <3>2. CASE backlog' = Append(backlog, main.frame)
      BY <1>5, <3>2, AppendProperties DEF Gate
    <3> QED
      BY <1>5, <3>1, <3>2 DEF Gate
  <2> QED
    BY <1>5, <2>1 DEF Gate, LockInv
<1>6. CASE WorkerTakes
  <2>1. Head(backlog) # 0 /\ \A i \in 1..Len(Tail(backlog)) : Tail(backlog)[i] # 0
    <3>1. Len(backlog) \in Nat \ {0} /\ Head(backlog) = backlog[1]
      BY <1>6, EmptySeq DEF WorkerTakes
    <3> QED
      BY <1>6, <3>1, HeadTailProperties DEF WorkerTakes
  <2> QED
    BY <1>6, <2>1 DEF WorkerTakes
<1>7. CASE UpdateJPEGBegins
  BY <1>7 DEF UpdateJPEGBegins, MayWrite
<1>8. CASE UpdateJPEGEnds
  BY <1>8 DEF UpdateJPEGEnds, LockInv
<1>9. ASSUME NEW h \in Handlers, Request(h) \/ Handle(h) PROVE RawInv'
  BY <1>9, RequestTyped DEF Continues
<1>10. CASE UNCHANGED vars
  BY <1>10 DEF vars
<1> QED
  BY <1>1, <1>2, <1>3, <1>4, <1>5, <1>6, <1>7, <1>8, <1>9, <1>10 DEF Next, Main, Worker

LEMMA SliceStep == IInv /\ [Next]_vars => SliceInv'
<1> SUFFICES ASSUME IInv, [Next]_vars PROVE SliceInv'
  OBVIOUS
<1>0. TypeOK /\ LockInv /\ RawInv /\ SliceInv
  BY DEF IInv
<1>a. /\ Len(slices) \in Nat /\ Len(backlog) \in Nat /\ main.frame \in Nat /\ worker.frame \in Nat
      /\ \A b : One(b) \in {0, 1}
  BY <1>0, OneIsBit DEF TypeOK, Frames
<1> USE <1>0, <1>a DEF TypeOK, SliceInv, rawVars, jpegVars
<1>1. CASE Tick
  BY <1>1 DEF Tick
<1>2. CASE ReadFrame
  <2>1. One(main.pc # "read") = 0 /\ One(main'.pc # "read") = 1
    BY <1>2 DEF ReadFrame, One
  <2> QED
    BY <1>2, <2>1 DEF ReadFrame
<1>3. CASE UpdateRawBegins
  BY <1>3 DEF UpdateRawBegins, MayWrite
<1>4. CASE UpdateRawEnds
  BY <1>4 DEF UpdateRawEnds, LockInv
<1>5. CASE Gate
  <2>1. One(main.pc # "read") = 1 /\ One(main'.pc # "read") = 0
    BY <1>5 DEF Gate, One
  <2>2. Len(backlog') \in Nat /\ Len(backlog') <= Len(backlog) + 1
    BY <1>5, AppendProperties DEF Gate
  <2> QED
    BY <1>5, <2>1, <2>2 DEF Gate
<1>6. CASE WorkerTakes
  <2>1. One(worker.pc = "lock") = 0 /\ One(worker'.pc = "lock") = 1
    BY <1>6 DEF WorkerTakes, One
  <2>2. Len(backlog') = Len(backlog) - 1
    BY <1>6, HeadTailProperties DEF WorkerTakes
  <2> QED
    BY <1>6, <2>1, <2>2 DEF WorkerTakes
<1>7. CASE UpdateJPEGBegins
  <2>1. One(worker.pc = "lock") = 1 /\ One(worker'.pc = "lock") = 0
    BY <1>7 DEF UpdateJPEGBegins, One
  <2>2. /\ Len(slices') = Len(slices) + 1
        /\ \A i \in 1..Len(slices) : slices'[i] = slices[i]
    BY <1>7, AppendProperties DEF UpdateJPEGBegins, NewSlice, Frames
  <2> QED
    BY <1>7, <2>1, <2>2 DEF UpdateJPEGBegins, MayWrite, NewSlice
<1>8. CASE UpdateJPEGEnds
  <2>1. One(worker.pc = "lock") = 0 /\ One(worker'.pc = "lock") = 0
    BY <1>8 DEF UpdateJPEGEnds, One
  <2>2. /\ Len(slices') = Len(slices)
        /\ \A i \in 1..Len(slices) : slices'[i] = IF i = jpeg THEN worker.frame ELSE slices[i]
    BY <1>8, ExceptSeq DEF UpdateJPEGEnds, LockInv
  <2>3. worker.frame # 0 /\ writer = "worker"
    BY <1>8 DEF UpdateJPEGEnds, LockInv, RawInv
  <2> QED
    BY <1>8, <2>1, <2>2, <2>3 DEF UpdateJPEGEnds
<1>9. ASSUME NEW h \in Handlers, Request(h) \/ Handle(h) PROVE SliceInv'
  BY <1>9, RequestTyped DEF Continues
<1>10. CASE UNCHANGED vars
  BY <1>10 DEF vars
<1> QED
  BY <1>1, <1>2, <1>3, <1>4, <1>5, <1>6, <1>7, <1>8, <1>9, <1>10 DEF Next, Main, Worker

LEMMA ClockStep == IInv /\ [Next]_vars => ClockInv'
<1> SUFFICES ASSUME IInv, [Next]_vars PROVE ClockInv'
  OBVIOUS
<1>0. /\ TypeOK /\ ClockInv /\ now \in Nat /\ jpegAt \in Nat /\ updatedAt \in Nat
      /\ \A h \in Handlers : request[h].stored \in Nat
  BY SnapshotAssumption DEF IInv, TypeOK, Times, Requests
<1> USE <1>0 DEF ClockInv, rawVars, jpegVars
<1>1. CASE Tick
  BY <1>1 DEF Tick
<1>2. CASE ReadFrame \/ UpdateRawBegins \/ UpdateRawEnds \/ Gate
  BY <1>2 DEF ReadFrame, UpdateRawBegins, UpdateRawEnds, Gate
<1>3. CASE WorkerTakes \/ UpdateJPEGBegins \/ UpdateJPEGEnds
  BY <1>3 DEF WorkerTakes, UpdateJPEGBegins, UpdateJPEGEnds
<1>4. ASSUME NEW h \in Handlers, Request(h) \/ Handle(h) PROVE ClockInv'
  <2>1. request'[h].stored <= now
    BY <1>4, RequestMoves
  <2> QED
    BY <1>4, <2>1, RequestTyped, RequestMoves DEF Continues
<1>5. CASE UNCHANGED vars
  BY <1>5 DEF vars
<1> QED
  BY <1>1, <1>2, <1>3, <1>4, <1>5 DEF Next, Main, Worker

\* The goroutines write only when no handler copies, and no slice that shows a frame
\* is emptied again.
LEMMA HeldSlicesStay ==
  ASSUME IInv, Main \/ Worker
  PROVE  /\ request' = request
         /\ \A h \in Handlers : request[h].pc = "copy" => UNCHANGED <<luma, updatedAt>>
         /\ \A i \in 1..Len(slices) : slices[i] # 0 => i \in 1..Len(slices') /\ slices'[i] # 0
<1>0. TypeOK /\ LockInv /\ RawInv /\ SliceInv /\ 0 \in Frames
  BY SnapshotAssumption DEF IInv, Frames
<1> USE <1>0 DEF rawVars, jpegVars
<1>1. CASE ReadFrame \/ UpdateRawBegins \/ UpdateRawEnds \/ Gate
  BY <1>1 DEF ReadFrame, UpdateRawBegins, UpdateRawEnds, Gate, MayWrite, Readers, LockInv
<1>2. CASE WorkerTakes
  BY <1>2 DEF WorkerTakes
<1>3. CASE UpdateJPEGBegins
  <2>1. /\ Len(slices') = Len(slices) + 1
        /\ \A i \in 1..Len(slices) : slices'[i] = slices[i]
        /\ Len(slices) \in Nat
    BY <1>3, AppendProperties DEF UpdateJPEGBegins, NewSlice, TypeOK
  <2> QED
    BY <1>3, <2>1 DEF UpdateJPEGBegins
<1>4. CASE UpdateJPEGEnds
  <2>1. /\ Len(slices') = Len(slices)
        /\ \A i \in 1..Len(slices) : slices'[i] = IF i = jpeg THEN worker.frame ELSE slices[i]
    BY <1>4, ExceptSeq DEF UpdateJPEGEnds, LockInv, SliceInv, TypeOK
  <2>2. worker.frame # 0 /\ \A h \in Handlers : request[h].pc # "copy"
    BY <1>4 DEF UpdateJPEGEnds, LockInv, RawInv
  <2> QED
    BY <1>4, <2>1, <2>2 DEF UpdateJPEGEnds
<1> QED
  BY <1>1, <1>2, <1>3, <1>4 DEF Main, Worker

LEMMA RequestStep == IInv /\ [Next]_vars => RequestInv' /\ RepliesWhole'
<1> SUFFICES ASSUME IInv, [Next]_vars PROVE RequestInv' /\ RepliesWhole'
  OBVIOUS
<1>0. TypeOK /\ LockInv /\ RawInv /\ SliceInv /\ RequestInv /\ RepliesWhole
  BY DEF IInv
<1>1. CASE Tick \/ UNCHANGED vars
  BY <1>0, <1>1 DEF Tick, vars, rawVars, jpegVars, RequestInv, RepliesWhole
<1>2. CASE Main \/ Worker
  BY <1>0, <1>2, HeldSlicesStay DEF RequestInv, RepliesWhole
<1>3. ASSUME NEW h \in Handlers, Request(h) \/ Handle(h) PROVE RequestInv' /\ RepliesWhole'
  <2> DEFINE r == request[h]
             Whole(q) == q.from # "none" => q.reply[1] = q.reply[2] /\ q.reply[1] # 0
             Held(q) ==
               /\ q.pc = "copy" => q.luma = luma /\ q.time = updatedAt
               /\ q.pc = "decide" => q.luma = q.chroma /\ (q.time # 0 => q.luma # 0)
               /\ q.pc \in {"copy", "decide", "write"} /\ q.slice # 0 =>
                    q.slice \in 1..Len(slices) /\ slices[q.slice] # 0
               /\ q.pc = "write" => q.slice # 0
  <2>0. /\ Held(r) /\ Whole(r) /\ r \in Requests
        /\ request \in [Handlers -> Requests]
    BY <1>0 DEF RequestInv, RepliesWhole, TypeOK
  <2>1. SUFFICES Held(request'[h]) /\ Whole(request'[h])
    <3>1. UNCHANGED <<luma, updatedAt, slices>>
      BY <1>3, RequestTyped DEF Continues, rawVars, jpegVars
    <3>2. \A k \in Handlers : k # h => request'[k] = request[k]
      BY <1>0, <1>3, RequestMoves
    <3> QED
      BY <1>0, <2>1, <3>1, <3>2 DEF RequestInv, RepliesWhole
  <2>2. CASE Request(h)
    <3>1. PICK g \in BOOLEAN :
            request' = [request EXCEPT ![h].pc = "lock", ![h].grid = g]
      BY <2>2 DEF Request
    <3> QED
      BY <2>0, <3>1 DEF Requests
  <2>3. CASE ReadBegins(h)
    <3>1. jpeg # 0 => jpeg \in 1..Len(slices) /\ slices[jpeg] # 0
      BY <1>0, <2>3 DEF ReadBegins, SliceInv, TypeOK
    <3> QED
      BY <2>0, <2>3, <3>1 DEF ReadBegins, Requests
  <2>4. CASE ReadEnds(h)
    <3>1. luma = chroma /\ (updatedAt # 0 => luma # 0)
      BY <1>0, <2>4 DEF ReadEnds, LockInv, RawInv, Captured, TypeOK
    <3> QED
      BY <2>0, <2>4, <3>1 DEF ReadEnds, Requests
  <2>5. CASE Unavailable(h)
    BY <2>0, <2>5 DEF Unavailable, NoRequest
  <2>6. CASE ServeCached(h)
    BY <2>0, <2>6 DEF ServeCached, CacheIsFresh, Requests
  <2>7. CASE WriteCached(h)
    BY <2>0, <2>7 DEF WriteCached, Reply, NoRequest
  <2>8. CASE ServeRendered(h)
    BY <2>0, <2>8 DEF ServeRendered, HasRaw, Reply, NoRequest
  <2> QED
    BY <1>3, <2>2, <2>3, <2>4, <2>5, <2>6, <2>7, <2>8 DEF Handle
<1> QED
  BY <1>1, <1>2, <1>3 DEF Next

LEMMA InvInit == Init => IInv
<1> SUFFICES ASSUME Init PROVE IInv
  OBVIOUS
<1>1. TypeOK
  BY TypeInit
<1>2. LockInv /\ RawInv /\ ClockInv /\ RequestInv /\ RepliesWhole
  BY DEF Init, NoRequest, LockInv, RawInv, ClockInv, RequestInv, RepliesWhole
<1>3. SliceInv
  BY DEF Init, SliceInv, One
<1> QED
  BY <1>1, <1>2, <1>3 DEF IInv

\* The inductive invariant of the picture, its lock and the requests.
LEMMA Invariant == Spec => []IInv
<1>1. IInv /\ [Next]_vars => IInv'
  BY TypeStep, LockStep, RawStep, SliceStep, ClockStep, RequestStep DEF IInv
<1> QED
  BY <1>1, InvInit, PTL DEF Spec

-----------------------------------------------------------------------------
(* Theorems *)

\* Every variable keeps its type; a handler never holds a slice that is not there,
\* and no more slices are made than frames were delivered.
THEOREM TypeCorrect == Spec => []TypeOK
BY Invariant, PTL DEF IInv

\* A reply of /snapshot shows one frame and never the empty buffer, however many
\* requests, copies of raw frames and new JPEGs interleave with it.
THEOREM RepliesAreWhole == Spec => []RepliesWhole
BY Invariant, PTL DEF IInv

=============================================================================
