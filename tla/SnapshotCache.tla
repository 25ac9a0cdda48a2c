---------------------------- MODULE SnapshotCache ----------------------------
(***************************************************************************)
(* snapshot.go: the camera's latest picture, shared by the main goroutine    *)
(* (UpdateRaw), the pipeline worker (UpdateJPEG) and the HTTP handlers of     *)
(* /snapshot (GetSnapshot).  Copying a frame is not atomic: a raw frame is    *)
(* two halves, copied one after the other, and a JPEG slice is empty (frame  *)
(* 0) until it is filled; the RWMutex is what keeps them whole.              *)
(***************************************************************************)
EXTENDS Naturals, Sequences, FiniteSets

CONSTANTS Handlers,     \* concurrent requests of /snapshot
          MaxFrames,    \* how many frames the camera delivers (a bound)
          Backlog,      \* capacity of frameChan
          FreshFor,     \* 4 s
          MaxTime       \* bound on the clock

ASSUME SnapshotAssumption == /\ MaxFrames \in Nat
                             /\ Backlog \in Nat \ {0}
                             /\ FreshFor \in Nat \ {0}
                             /\ MaxTime \in Nat

VARIABLES
  now,          \* time.Now(), which is past the zero time
  main,         \* the main goroutine: what it does and its frame
  worker,       \* the pipeline worker: what it does and its frame
  backlog,      \* frames submitted to the worker
  writer,       \* who holds the write lock, "nobody" mostly
  luma, chroma, \* the two halves of rawFrame
  slices,       \* the JPEG slices allocated so far: the frame each one shows
  jpeg,         \* jpegBytes: which slice, 0 for nil
  jpegAt,       \* when that slice was stored
  updatedAt,    \* updatedAt, 0 for the zero time
  request       \* each handler: where it is, what it asks, what it read and replied

rawVars == <<luma, chroma>>
jpegVars == <<slices, jpeg, jpegAt>>
vars == <<now, main, worker, backlog, writer, rawVars, jpegVars, updatedAt, request>>

Frames == 0..MaxFrames
Times == 0..(MaxTime + 1)
Requests == [pc : {"idle", "lock", "copy", "decide", "write"}, grid : BOOLEAN,
             luma : Frames, chroma : Frames, slice : 0..MaxFrames, stored : Times, time : Times,
             reply : Frames \X Frames, from : {"none", "cache", "raw"}, age : Times]

TypeOK ==
  /\ now \in Times
  /\ main \in [pc : {"read", "lock", "copy", "gate"}, frame : Frames]
  /\ worker \in [pc : {"select", "lock", "copy"}, frame : Frames]
  /\ backlog \in Seq(Frames) /\ Len(backlog) <= Backlog
  /\ writer \in {"nobody", "main", "worker"}
  /\ luma \in Frames /\ chroma \in Frames
  /\ slices \in Seq(Frames)
  /\ jpeg \in 0..Len(slices)
  /\ jpegAt \in Times /\ updatedAt \in Times
  /\ request \in [Handlers -> Requests]

NoRequest == [pc |-> "idle", grid |-> FALSE, luma |-> 0, chroma |-> 0, slice |-> 0, stored |-> 0,
              time |-> 0, reply |-> <<0, 0>>, from |-> "none", age |-> 0]

Init ==
  /\ now = 1
  /\ main = [pc |-> "read", frame |-> 0]
  /\ worker = [pc |-> "select", frame |-> 0]
  /\ backlog = <<>>
  /\ writer = "nobody"
  /\ luma = 0 /\ chroma = 0
  /\ slices = <<>> /\ jpeg = 0 /\ jpegAt = 0
  /\ updatedAt = 0
  /\ request = [h \in Handlers |-> NoRequest]

Tick == /\ now <= MaxTime
        /\ now' = now + 1
        /\ UNCHANGED <<main, worker, backlog, writer, rawVars, jpegVars, updatedAt, request>>

\* mu.Lock: no writer and no reader inside.
Readers == {h \in Handlers : request[h].pc = "copy"}

MayWrite == writer = "nobody" /\ Readers = {}

-----------------------------------------------------------------------------
(* The main goroutine: read, UpdateRaw, and the gate's decision *)

ReadFrame == /\ main.pc = "read"
             /\ main.frame < MaxFrames
             /\ main' = [pc |-> "lock", frame |-> main.frame + 1]
             /\ UNCHANGED <<now, worker, backlog, writer, rawVars, jpegVars, updatedAt, request>>

UpdateRawBegins == /\ main.pc = "lock"
                   /\ MayWrite
                   /\ writer' = "main"
                   /\ luma' = main.frame
                   /\ main' = [main EXCEPT !.pc = "copy"]
                   /\ UNCHANGED <<now, worker, backlog, chroma, jpegVars, updatedAt, request>>

UpdateRawEnds == /\ main.pc = "copy"
                 /\ chroma' = main.frame
                 /\ updatedAt' = now
                 /\ writer' = "nobody"
                 /\ main' = [main EXCEPT !.pc = "gate"]
                 /\ UNCHANGED <<now, worker, backlog, luma, jpegVars, request>>

\* Mutant: frameChan is unbounded.
HasRoomAlways == TRUE

HasRoom == Len(backlog) < Backlog

\* The frame is rejected or dropped, or the worker will encode it.
Gate == /\ main.pc = "gate"
        /\ \/ backlog' = backlog
           \/ HasRoom /\ backlog' = Append(backlog, main.frame)
        /\ main' = [main EXCEPT !.pc = "read"]
        /\ UNCHANGED <<now, worker, writer, rawVars, jpegVars, updatedAt, request>>

-----------------------------------------------------------------------------
(* The worker: UpdateJPEG *)

WorkerTakes == /\ worker.pc = "select"
               /\ backlog # <<>>
               /\ worker' = [pc |-> "lock", frame |-> Head(backlog)]
               /\ backlog' = Tail(backlog)
               /\ UNCHANGED <<now, main, writer, rawVars, jpegVars, updatedAt, request>>

\* Mutant: the slice is reused, as append(s.jpegBytes[:0], ...) would.
NewSliceReused == IF jpeg = 0 THEN slices' = <<0>> /\ jpeg' = 1
                  ELSE slices' = [slices EXCEPT ![jpeg] = 0] /\ UNCHANGED jpeg

\* make: a handler may still hold the previous slice, outside the lock.
NewSlice == slices' = Append(slices, 0) /\ jpeg' = Len(slices) + 1

UpdateJPEGBegins == /\ worker.pc = "lock"
                    /\ MayWrite
                    /\ writer' = "worker"
                    /\ NewSlice
                    /\ worker' = [worker EXCEPT !.pc = "copy"]
                    /\ UNCHANGED <<now, main, backlog, rawVars, jpegAt, updatedAt, request>>

UpdateJPEGEnds == /\ worker.pc = "copy"
                  /\ slices' = [slices EXCEPT ![jpeg] = worker.frame]
                  /\ jpegAt' = now
                  /\ updatedAt' = now
                  /\ writer' = "nobody"
                  /\ worker' = [worker EXCEPT !.pc = "select"]
                  /\ UNCHANGED <<now, main, backlog, rawVars, jpeg, request>>

-----------------------------------------------------------------------------
(* A handler: GetSnapshot and the reply *)

Continues(h) == UNCHANGED <<now, main, worker, backlog, writer, rawVars, jpegVars, updatedAt>>

Request(h) == /\ request[h].pc = "idle"
              /\ \E g \in BOOLEAN : request' = [request EXCEPT ![h].pc = "lock", ![h].grid = g]
              /\ Continues(h)

ReadBegins(h) ==
  /\ request[h].pc = "lock"
  /\ writer = "nobody"
  /\ request' = [request EXCEPT ![h] =
       [@ EXCEPT !.pc = "copy", !.slice = jpeg, !.stored = jpegAt, !.time = updatedAt, !.luma = luma]]
  /\ Continues(h)

ReadEnds(h) ==
  /\ request[h].pc = "copy"
  /\ request' = [request EXCEPT ![h].pc = "decide", ![h].chroma = chroma]
  /\ Continues(h)

CacheIsFresh(h) == request[h].slice # 0 /\ now - request[h].time < FreshFor

HasRaw(h) == request[h].time # 0

Reply(h, image, source) ==
  /\ request' = [request EXCEPT ![h] =
       [NoRequest EXCEPT !.reply = image, !.from = source, !.age = request[h].age]]
  /\ Continues(h)

\* "no frame captured yet": 503.
Unavailable(h) == /\ request[h].pc = "decide"
                  /\ ~HasRaw(h)
                  /\ request' = [request EXCEPT ![h] = NoRequest]
                  /\ Continues(h)

\* The hot path; the slice is written to the client some time later.
ServeCached(h) ==
  /\ request[h].pc = "decide"
  /\ HasRaw(h) /\ ~request[h].grid /\ CacheIsFresh(h)
  /\ request' = [request EXCEPT ![h].pc = "write", ![h].age = now - request[h].stored]
  /\ Continues(h)

WriteCached(h) == /\ request[h].pc = "write"
                  /\ LET f == slices[request[h].slice] IN Reply(h, <<f, f>>, "cache")

\* The on-demand path works on the handler's own copy.
ServeRendered(h) == /\ request[h].pc = "decide"
                    /\ HasRaw(h) /\ (request[h].grid \/ ~CacheIsFresh(h))
                    /\ Reply(h, <<request[h].luma, request[h].chroma>>, "raw")

-----------------------------------------------------------------------------
Main == ReadFrame \/ UpdateRawBegins \/ UpdateRawEnds \/ Gate
Worker == WorkerTakes \/ UpdateJPEGBegins \/ UpdateJPEGEnds
Handle(h) == \/ ReadBegins(h) \/ ReadEnds(h) \/ Unavailable(h)
             \/ ServeCached(h) \/ WriteCached(h) \/ ServeRendered(h)

Next == Tick \/ Main \/ Worker \/ \E h \in Handlers : Request(h) \/ Handle(h)

Spec == Init /\ [][Next]_vars

-----------------------------------------------------------------------------
(* Correctness *)

\* A reply shows one frame and never the empty buffer, however the copies of the
\* writers and of other requests interleave with it.
RepliesWhole == \A h \in Handlers : request[h].from # "none" =>
  request[h].reply[1] = request[h].reply[2] /\ request[h].reply[1] # 0

\* The comment on the hot path, "cache is fresh (< 4s)": the JPEG it returns was
\* stored less than 4 s before.
CachedReplyIsFresh == \A h \in Handlers :
  request[h].from = "cache" => request[h].age < FreshFor

=============================================================================
