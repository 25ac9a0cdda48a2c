---------------------------- MODULE FramePipeline ----------------------------
(***************************************************************************)
(* frame_capturer, the Go ingestion engine: the main goroutine supervises   *)
(* the broker connection and ffmpeg and reads frames into pooled buffers    *)
(* (main.go, capture.go), a worker goroutine encodes and publishes them     *)
(* (pipeline.go, broker.go), a third one handles SIGTERM.  Which frames the *)
(* motion gate lets through is MotionGate's subject; here the gate is a     *)
(* choice.  ffmpeg, the camera and RabbitMQ are the environment.            *)
(***************************************************************************)
EXTENDS Naturals, Sequences, FiniteSets, Functions

CONSTANTS Buffers,         \* the FrameItems in existence
          ChanSize,        \* capacity of frameChan: 2 in the code
          MaxFrames,       \* how many frames the camera delivers (a bound)
          MaxDisconnects   \* bound on losses of the broker connection

\* sync.Pool allocates when it is empty: there are as many items as are in use at
\* once, which PoolSuffices shows to be ChanSize + 2 at most.
ASSUME PipelineAssumption == /\ IsFiniteSet(Buffers)
                             /\ Cardinality(Buffers) >= ChanSize + 2
                             /\ ChanSize \in Nat \ {0}
                             /\ MaxFrames \in Nat
                             /\ MaxDisconnects \in Nat

VARIABLES
  mPc,          \* where the main goroutine is
  mItem,        \* the buffer it holds, as a set of at most one
  wPc,          \* where the worker is
  wItem,        \* the buffer it holds
  payload,      \* the message it has encoded
  sPc,          \* where the signal goroutine is
  cancelled,    \* ctx.Err() # nil
  running,      \* StreamCapturer: isRunning, stdout # nil
  ffmpeg,       \* the ffmpeg process is alive
  pool,         \* framePool
  frameChan,    \* frameChan
  data,         \* the frame whose pixels a buffer holds, 0 for none
  seq,          \* its Sequence
  captured,     \* frames read so far
  seqCounter,   \* frames handed to Submit so far
  ch,           \* Broker: "nil", "open", or "dead" (set, but the broker is gone)
  notified,     \* notifyClose has something to receive
  locked,       \* Connect holds the broker's write lock
  disconnects,  \* losses of the broker connection so far
  frameOf,      \* the frame that was submitted under a sequence number
  published     \* what reached frame_queue: frames with their sequence numbers

mainVars == <<mPc, mItem>>
workerVars == <<wPc, wItem, payload>>
capturerVars == <<running, ffmpeg>>
itemVars == <<data, seq>>
brokerVars == <<ch, notified, locked, disconnects>>
counters == <<captured, seqCounter, frameOf>>
vars == <<mainVars, workerVars, sPc, cancelled, capturerVars, pool, frameChan, itemVars, counters,
          brokerVars, published>>

Message == [seq : 1..MaxFrames, frame : 1..MaxFrames]
NoMessage == [seq |-> 0, frame |-> 0]

TypeOK ==
  /\ mPc \in {"outer", "connect", "inner", "start", "acquire", "read", "gate",
              "release", "submit", "stopped", "exit", "done"}
  /\ mItem \subseteq Buffers
  /\ wPc \in {"select", "encode", "publish", "done"}
  /\ wItem \subseteq Buffers
  /\ payload \in Message \cup {NoMessage}
  /\ sPc \in {"wait", "stop", "close", "done"}
  /\ cancelled \in BOOLEAN
  /\ running \in BOOLEAN
  /\ ffmpeg \in BOOLEAN
  /\ pool \subseteq Buffers
  /\ frameChan \in Seq(Buffers)
  /\ Len(frameChan) <= ChanSize
  /\ data \in [Buffers -> 0..MaxFrames]
  /\ seq \in [Buffers -> 0..MaxFrames]
  /\ captured \in 0..MaxFrames
  /\ seqCounter \in 0..MaxFrames
  /\ ch \in {"nil", "open", "dead"}
  /\ notified \in BOOLEAN
  /\ locked \in BOOLEAN
  /\ disconnects \in 0..MaxDisconnects
  /\ frameOf \in [1..MaxFrames -> 0..MaxFrames]
  /\ published \in Seq(Message)

Init ==
  /\ mPc = "outer"
  /\ mItem = {}
  /\ wPc = "select"
  /\ wItem = {}
  /\ payload = NoMessage
  /\ sPc = "wait"
  /\ cancelled = FALSE
  /\ running = FALSE
  /\ ffmpeg = FALSE
  /\ pool = Buffers
  /\ frameChan = <<>>
  /\ data = [b \in Buffers |-> 0]
  /\ seq = [b \in Buffers |-> 0]
  /\ captured = 0
  /\ seqCounter = 0
  /\ ch = "nil"
  /\ notified = FALSE
  /\ locked = FALSE
  /\ disconnects = 0
  /\ frameOf = [n \in 1..MaxFrames |-> 0]
  /\ published = <<>>

The(S) == CHOOSE x \in S : TRUE

\* capturer.Stop: kills ffmpeg and closes the pipe.
StopCapturer == running' = FALSE /\ ffmpeg' = FALSE

\* broker.Close, under the write lock.
CloseBroker ==
  /\ ~locked
  /\ ch' = "nil"
  /\ notified' = (notified \/ ch = "open")
  /\ UNCHANGED <<locked, disconnects>>

-----------------------------------------------------------------------------
(* The main goroutine *)

\* for ctx.Err() == nil: take the write lock and connect, or leave.
Outer ==
  /\ mPc = "outer"
  /\ IF cancelled
     THEN mPc' = "exit" /\ UNCHANGED locked
     ELSE ~locked /\ locked' = TRUE /\ mPc' = "connect"
  /\ UNCHANGED <<mItem, workerVars, sPc, cancelled, capturerVars, pool, frameChan, itemVars, counters,
                 ch, notified, disconnects, published>>

\* Connect succeeds within its attempts; it does not look at ctx.
Connected ==
  /\ mPc = "connect"
  /\ ch' = "open"
  /\ notified' = FALSE
  /\ locked' = FALSE
  /\ mPc' = "inner"
  /\ UNCHANGED <<mItem, workerVars, sPc, cancelled, capturerVars, pool, frameChan, itemVars, counters,
                 disconnects, published>>

\* All attempts failed; sleep and begin again.
ConnectFails ==
  /\ mPc = "connect"
  /\ locked' = FALSE
  /\ mPc' = "outer"
  /\ UNCHANGED <<mItem, workerVars, sPc, cancelled, capturerVars, pool, frameChan, itemVars, counters,
                 ch, notified, disconnects, published>>

\* Mutant: the loop does not look at notifyClose.
InnerIgnoresClose ==
  /\ mPc = "inner"
  /\ IF cancelled THEN mPc' = "stopped" ELSE mPc' = "start"
  /\ UNCHANGED <<mItem, workerVars, sPc, cancelled, capturerVars, pool, frameChan, itemVars, counters,
                 brokerVars, published>>

\* for ctx.Err() == nil, and the select on notifyClose.
Inner ==
  /\ mPc = "inner"
  /\ IF cancelled \/ notified THEN mPc' = "stopped" ELSE mPc' = "start"
  /\ notified' = (notified /\ cancelled)
  /\ UNCHANGED <<mItem, workerVars, sPc, cancelled, capturerVars, pool, frameChan, itemVars, counters,
                 ch, locked, disconnects, published>>

\* capturer.Stop before and after the end of the inner loop: one Stop, the
\* second finds isRunning false.
AfterInner ==
  /\ mPc = "stopped"
  /\ StopCapturer
  /\ mPc' = "outer"
  /\ UNCHANGED <<mItem, workerVars, sPc, cancelled, pool, frameChan, itemVars, counters, brokerVars,
                 published>>

\* cfg.IsWithinTimeFrame(now) is false: stop and sleep.
OutsideSchedule ==
  /\ mPc = "start"
  /\ StopCapturer
  /\ mPc' = "inner"
  /\ UNCHANGED <<mItem, workerVars, sPc, cancelled, pool, frameChan, itemVars, counters, brokerVars,
                 published>>

\* Mutant: ffmpeg is started without the context.
StartIgnoresContext ==
  /\ mPc = "start"
  /\ running' = TRUE
  /\ ffmpeg' = (ffmpeg \/ ~running)
  /\ mPc' = "acquire"
  /\ UNCHANGED <<mItem, workerVars, sPc, cancelled, pool, frameChan, itemVars, counters, brokerVars,
                 published>>

\* Within the schedule, capturer.Start: nothing to do if it runs; exec.CommandContext refuses to
\* start once ctx is done.
Start ==
  /\ mPc = "start"
  /\ running \/ ~cancelled
  /\ running' = TRUE
  /\ ffmpeg' = (ffmpeg \/ ~running)
  /\ mPc' = "acquire"
  /\ UNCHANGED <<mItem, workerVars, sPc, cancelled, pool, frameChan, itemVars, counters, brokerVars,
                 published>>

\* No pipe, no process, or ctx is done: sleep and continue.
StartFails ==
  /\ mPc = "start"
  /\ ~running
  /\ mPc' = "inner"
  /\ UNCHANGED <<mItem, workerVars, sPc, cancelled, capturerVars, pool, frameChan, itemVars, counters,
                 brokerVars, published>>

AcquireFrame ==
  /\ mPc = "acquire"
  /\ \E b \in pool : mItem' = {b} /\ pool' = pool \ {b}
  /\ mPc' = "read"
  /\ UNCHANGED <<workerVars, sPc, cancelled, capturerVars, frameChan, itemVars, counters, brokerVars,
                 published>>

\* ReadFrame blocks until ffmpeg has written a whole frame.
ReadFrame ==
  /\ mPc = "read"
  /\ running /\ ffmpeg
  /\ captured < MaxFrames
  /\ captured' = captured + 1
  /\ data' = [data EXCEPT ![The(mItem)] = captured + 1]
  /\ mPc' = "gate"
  /\ UNCHANGED <<mItem, workerVars, sPc, cancelled, capturerVars, pool, frameChan, seq, seqCounter,
                 frameOf, brokerVars, published>>

\* Mutant: the buffer is not released when the read fails.
ReadFailsLeaks ==
  /\ mPc = "read"
  /\ ~running \/ ~ffmpeg
  /\ StopCapturer
  /\ mItem' = {}
  /\ mPc' = "inner"
  /\ UNCHANGED <<workerVars, sPc, cancelled, pool, frameChan, itemVars, counters, brokerVars,
                 published>>

\* The pipe ends or was closed by the signal goroutine's Stop.
ReadFails ==
  /\ mPc = "read"
  /\ ~running \/ ~ffmpeg
  /\ StopCapturer
  /\ pool' = pool \cup mItem
  /\ mItem' = {}
  /\ mPc' = "inner"
  /\ UNCHANGED <<workerVars, sPc, cancelled, frameChan, itemVars, counters, brokerVars, published>>

\* Rate limit, lighting shift and no motion all release the frame.
GateRejects ==
  /\ mPc = "gate"
  /\ pool' = pool \cup mItem
  /\ mItem' = {}
  /\ mPc' = "inner"
  /\ UNCHANGED <<workerVars, sPc, cancelled, capturerVars, frameChan, itemVars, counters, brokerVars,
                 published>>

GateAccepts ==
  /\ mPc = "gate"
  /\ seqCounter' = seqCounter + 1
  /\ seq' = [seq EXCEPT ![The(mItem)] = seqCounter + 1]
  /\ frameOf' = [frameOf EXCEPT ![seqCounter + 1] = data[The(mItem)]]
  /\ mPc' = "submit"
  /\ UNCHANGED <<mItem, workerVars, sPc, cancelled, capturerVars, pool, frameChan, data, captured,
                 brokerVars, published>>

\* Mutant: the channel is unbounded.
SubmitUnbounded ==
  /\ mPc = "submit"
  /\ frameChan' = Append(frameChan, The(mItem))
  /\ mItem' = {}
  /\ mPc' = "inner"
  /\ UNCHANGED <<workerVars, sPc, cancelled, capturerVars, pool, itemVars, counters, brokerVars,
                 published>>

Submit ==
  /\ mPc = "submit"
  /\ Len(frameChan) < ChanSize
  /\ frameChan' = Append(frameChan, The(mItem))
  /\ mItem' = {}
  /\ mPc' = "inner"
  /\ UNCHANGED <<workerVars, sPc, cancelled, capturerVars, pool, itemVars, counters, brokerVars,
                 published>>

\* The channel is full: the newest frame is dropped.
SubmitDrops ==
  /\ mPc = "submit"
  /\ Len(frameChan) = ChanSize
  /\ pool' = pool \cup mItem
  /\ mItem' = {}
  /\ mPc' = "inner"
  /\ UNCHANGED <<workerVars, sPc, cancelled, capturerVars, frameChan, itemVars, counters, brokerVars,
                 published>>

\* Mutant: main leaves closing the connection to the signal goroutine.
ExitWithoutClose ==
  /\ mPc = "exit"
  /\ StopCapturer
  /\ mPc' = "done"
  /\ UNCHANGED <<mItem, workerVars, sPc, cancelled, pool, frameChan, itemVars, counters, brokerVars,
                 published>>

\* capturer.Stop, broker.Close, return from main.
Exit ==
  /\ mPc = "exit"
  /\ StopCapturer
  /\ CloseBroker
  /\ mPc' = "done"
  /\ UNCHANGED <<mItem, workerVars, sPc, cancelled, pool, frameChan, itemVars, counters, published>>

-----------------------------------------------------------------------------
(* The worker goroutine; the process ends with main *)

\* Mutant: the frame goes back to the pool before it is encoded.
WorkerTakesAndReleases ==
  /\ wPc = "select"
  /\ frameChan # <<>>
  /\ wItem' = {Head(frameChan)}
  /\ frameChan' = Tail(frameChan)
  /\ pool' = pool \cup {Head(frameChan)}
  /\ wPc' = "encode"
  /\ UNCHANGED <<mainVars, payload, sPc, cancelled, capturerVars, itemVars, counters, brokerVars,
                 published>>

WorkerTakes ==
  /\ wPc = "select"
  /\ frameChan # <<>>
  /\ wItem' = {Head(frameChan)}
  /\ frameChan' = Tail(frameChan)
  /\ wPc' = "encode"
  /\ UNCHANGED <<mainVars, payload, sPc, cancelled, capturerVars, pool, itemVars, counters, brokerVars,
                 published>>

WorkerCancelled ==
  /\ wPc = "select"
  /\ cancelled
  /\ wPc' = "done"
  /\ UNCHANGED <<mainVars, wItem, payload, sPc, cancelled, capturerVars, pool, frameChan, itemVars,
                 counters, brokerVars, published>>

\* The encoder reads the buffer; what follows works on its copy.
EncodeSucceeds ==
  /\ wPc = "encode"
  /\ LET b == The(wItem) IN payload' = [seq |-> seq[b], frame |-> data[b]]
  /\ wPc' = "publish"
  /\ UNCHANGED <<mainVars, wItem, sPc, cancelled, capturerVars, pool, frameChan, itemVars, counters,
                 brokerVars, published>>

\* The deferred ReleaseFrame of processFrame.
WorkerReleases ==
  /\ pool' = pool \cup wItem
  /\ wItem' = {}
  /\ payload' = NoMessage
  /\ wPc' = "select"

EncodeFails ==
  /\ wPc = "encode"
  /\ WorkerReleases
  /\ UNCHANGED <<mainVars, sPc, cancelled, capturerVars, frameChan, itemVars, counters, brokerVars,
                 published>>

\* Publish, under the read lock: the frame reaches frame_queue, or the channel is
\* nil or dead and the frame is lost.
Publish ==
  /\ wPc = "publish"
  /\ ~locked
  /\ published' = IF ch = "open" THEN Append(published, payload) ELSE published
  /\ WorkerReleases
  /\ UNCHANGED <<mainVars, sPc, cancelled, capturerVars, frameChan, itemVars, counters, brokerVars>>

-----------------------------------------------------------------------------
(* The signal goroutine *)

\* SIGTERM arrives, and the goroutine cancels ctx.
Sigterm ==
  /\ sPc = "wait"
  /\ cancelled' = TRUE
  /\ sPc' = "stop"
  /\ UNCHANGED <<mainVars, workerVars, capturerVars, pool, frameChan, itemVars, counters, brokerVars,
                 published>>

SignalStops ==
  /\ sPc = "stop"
  /\ StopCapturer
  /\ sPc' = "close"
  /\ UNCHANGED <<mainVars, workerVars, cancelled, pool, frameChan, itemVars, counters, brokerVars,
                 published>>

SignalCloses ==
  /\ sPc = "close"
  /\ CloseBroker
  /\ sPc' = "done"
  /\ UNCHANGED <<mainVars, workerVars, cancelled, capturerVars, pool, frameChan, itemVars, counters,
                 published>>

-----------------------------------------------------------------------------
(* The environment *)

\* ffmpeg ends: the camera or the network is gone, or ctx was cancelled.
FfmpegDies ==
  /\ ffmpeg
  /\ ffmpeg' = FALSE
  /\ UNCHANGED <<mainVars, workerVars, sPc, cancelled, running, pool, frameChan, itemVars, counters,
                 brokerVars, published>>

Disconnect ==
  /\ ch = "open"
  /\ disconnects < MaxDisconnects
  /\ disconnects' = disconnects + 1
  /\ ch' = "dead"
  /\ notified' = TRUE
  /\ UNCHANGED <<mainVars, workerVars, sPc, cancelled, capturerVars, pool, frameChan, itemVars, counters,
                 locked, published>>

-----------------------------------------------------------------------------
Alive == mPc # "done"

\* What the main goroutine does without waiting for a frame.
Main == \/ Outer \/ Connected \/ ConnectFails \/ Inner \/ AfterInner \/ OutsideSchedule
        \/ Start \/ StartFails \/ AcquireFrame \/ ReadFails \/ GateRejects \/ GateAccepts
        \/ Submit \/ SubmitDrops \/ Exit

Worker == Alive /\ (WorkerTakes \/ WorkerCancelled \/ EncodeSucceeds \/ EncodeFails \/ Publish)

Signal == Alive /\ (SignalStops \/ SignalCloses)

Environment == Alive /\ (ReadFrame \/ Sigterm \/ FfmpegDies \/ Disconnect)

Terminated == mPc = "done" /\ UNCHANGED vars

Next == Main \/ Worker \/ Signal \/ Environment \/ Terminated

\* The goroutines run.  Frames need not arrive: a read of a silent camera blocks.
Fairness == WF_vars(Main) /\ WF_vars(Worker) /\ WF_vars(Signal)

Spec == Init /\ [][Next]_vars /\ Fairness

\* A live camera: a read ends, with a frame or because ffmpeg gives up; and
\* RabbitMQ can be reached again and again.
LiveEnvironment == /\ WF_vars(Alive /\ mPc = "read" /\ (ReadFrame \/ FfmpegDies))
                   /\ SF_vars(Connected)

-----------------------------------------------------------------------------
(* Correctness *)

InChan == Range(frameChan)

\* Every buffer has one owner: the pool, the reader, the channel or the worker.
OneOwner ==
  /\ pool \cup mItem \cup InChan \cup wItem = Buffers
  /\ \A A, B \in {<<"pool", pool>>, <<"main", mItem>>, <<"chan", InChan>>, <<"worker", wItem>>} :
       A # B => A[2] \cap B[2] = {}
  /\ IsInjective(frameChan)
  /\ Cardinality(mItem) <= 1 /\ Cardinality(wItem) <= 1

\* The pool never has to grow beyond the channel, the reader and the worker.
PoolSuffices == mPc = "acquire" => pool # {}

\* Two owners would let the reader overwrite a frame that is being encoded, none
\* would leak it; a leak in any of the loops and early exits would empty the pool.
BufferOwnership == OneOwner /\ PoolSuffices

\* What is published under a sequence number is the frame that was submitted
\* under it: no buffer is reused too early.
PayloadIntact == \A i \in DOMAIN published : published[i].frame = frameOf[published[i].seq]

\* Frames reach the broker in the order they were captured, whatever is dropped.
PublishedInOrder == \A i, j \in DOMAIN published : i < j =>
  published[i].seq < published[j].seq /\ published[i].frame < published[j].frame

\* What reaches the broker is a subsequence of what the camera sent, each frame with
\* its own pixels, whatever is dropped, cancelled, or lost in a reconnect.
PublishedFaithfully == PayloadIntact /\ PublishedInOrder

\* When main returns, ffmpeg is not left running and the connection is closed,
\* wherever the signal hit the main goroutine and the worker.
CleanShutdown == mPc = "done" => ~ffmpeg /\ ~running /\ ch = "nil"

\* SIGTERM ends the program, even when the camera is silent.
ShutdownCompletes == (sPc # "wait") ~> (mPc = "done")

\* A lost broker connection is replaced, in an environment where that is possible:
\* the loop looks at the connection only between two frames.
BrokerReconnects == LiveEnvironment => ((ch = "dead") ~> (ch = "open" \/ cancelled))

=============================================================================
