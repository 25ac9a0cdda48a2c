# IntruderWatch in TLA+

This directory specifies the concurrent core of IntruderWatch, the multi-camera
intruder detection system in this repository: Go frame capturers read RTSP
streams, gate them by motion and publish JPEG frames to RabbitMQ; Python detector
replicas run a YOLO model on the frames; an alert service notifies people; a
viewer shows pictures. The modules are checked with TLC, and the theorems about
them with TLAPS.

    tlc -workers 2 -config AlertService.cfg MCAlertService
    tlapm DetectorProofs.tla

Paths below are relative to `src/microservices/` unless they start with `src/`.

## Inventory

| Component | State | Operations | What makes it correct |
|---|---|---|---|
| **Alert dispatcher**, `human_detector.py:81-177` | a `queue.Queue` with its unfinished count, a connection, the daemon thread's item and attempt | `submit` (consumer thread); `_worker`, `_publish_with_retry`, `_ensure_channel`, `_reset_channel` (daemon thread) | no detection is lost or doubled between the threads; the newest one is never dropped; `submit` returns; order is kept; `task_done` is called once per item |
| **Detector consumer**, `human_detector.py:198-362` | warm-up counts and last hashes per camera, the frame in the callback | `callback`: warm-up, duplicate filter, decode, inference, submit, ack | frames are neither lost nor copied under crashes and redelivery; a frame is dropped only for a reason |
| **Alert service**, `alert_service.py:257-342` | `last_ntfy_times`, `last_call_time`, daemon threads, counters | `callback`, `send_ntfy_photo`, `_dispatch_calls` | cooldowns hold; no camera silences another one's photos; every alert is evaluated, but for those that end the process and the ones behind them; counters add up |
| **Alertmanager webhook**, `alert_service.py:84-167` | a counter; a thread per request | `webhook` forwards each alert of a group | a group that fails half way or times out gets through; resolved is the last word |
| **Ingestion pipeline**, `main.go`, `pipeline.go`, `broker.go`, `capture.go` | buffer pool, channel of two frames, broker connection under an RWMutex, ffmpeg process, context | main, worker and signal goroutines | a pooled buffer has one owner; frames leave in order; shutdown ends and leaves nothing running; a lost broker is replaced |
| **Motion gate**, `main.go:233-320`, `motion.go` | `lastSentTime`, `lastMotionTime`, `lastMotionBox`, the detector's reference frame | rate limit, `Analyze`, post-roll, `Reset` | spacing of what is sent; post-roll ends; no motion across a reconnect |
| **Macroblocks and zones**, `motion.go`, `config.go` | masks, block differences | `parseExcludeZones`, `NewMacroblockDetector`, `Analyze` | agree with a reference definition at the edges: zones cut blocks, 1080 is no multiple of 32 |
| **Schedule**, `config.go:76-95`, `170-178` | none | `IsWithinTimeFrame`, `parseSeconds` | intervals that cross midnight |
| **Snapshot server**, `snapshot.go`, `main.go:139-153` | the raw frame, the JPEG slice, one timestamp, an RWMutex | `UpdateRaw` (main), `UpdateJPEG` (worker), `GetSnapshot` (HTTP handlers) | whole pictures; what leaves the lock is immutable; cached means fresh |
| **Health checks**, `main.go:123-137`, `capture.go:128-143` | `lastFrameTime` | `/healthz` | a dead stream is reported |
| **Viewer service**, `viewer_service.py` | the secret of its process; the browser's cookie | `create_session_token`, `verify_session_token`, listings, login, logout | sessions end with their age or with the secret |
| **Viewer client**, `index.html:1173-1540` | selected camera and date, cards, `localStorage`, pending requests | `init`, `selectCamera`, `loadImages`, polling | cards open whatever the order of the answers; the live feed catches up |
| **RabbitMQ helper**, `shared/rabbitmq_client.py` | the attempt | `connect_rabbitmq` with retries | bounded |
| **Memory manager**, `human_detector.py:180-195` | a timestamp | `gc.collect` when idle | changes no program state |
| **Legacy capturer**, `frame_capturer/frame_capturer.py` | ffmpeg pipe, connection, reference frame, time last sent | one loop: connect, schedule, read, filter, publish; `except`, `finally` | one stream in its hands, every other told to stop; the reference follows what was published; capturing resumes |
| **Monolith**, `src/monolith/detect.py` | the single-process predecessor | `capture_stream` | its schedule means what the others mean |
| **Deployment**, `docker-compose.yaml` and the monitoring configuration | RabbitMQ on a tmpfs, restart policies | | enters the models as `BrokerRestart` and `Start` |

How they interact: a capturer's main goroutine hands a pooled buffer over
`frameChan` to its worker, and copies the raw frame into the snapshot cache; the
worker publishes to `frame_queue` and stores its JPEG in the snapshot cache. A
detector replica consumes `frame_queue` (prefetch 1, manual ack), hands detections
through its dispatcher's queue to a daemon thread, which writes the image and
publishes to `alert_queue`. The alert service consumes that (prefetch 20, manual
ack) and starts a daemon thread per notification; Alertmanager posts to its webhook.
The viewer's page asks the viewer service for the folders the detectors fill. Every queue between the parts is
bounded or lossy somewhere on purpose, and every process may be restarted.

The behaviours that are hard, and hard to test: `submit` racing with the daemon
thread between its failed put and its eviction; pooled buffers shared by two
goroutines; SIGTERM arriving anywhere in the capturer's nested loops while it
sleeps, blocks or holds a lock; acknowledgements on a connection that is gone;
RabbitMQ's restarts (its storage is a tmpfs); state that is per process where it
was meant per stream; one timestamp that serves two caches; a web page whose handlers
go on, after each await, with whatever is selected by then; a group of alerts that
is posted again while its first request is still being worked on; an alert that ends the
process that reads it, and the next one. `hazards` in
PROJECT.json lists them by line.

## Modules

| Module | Models | Its properties are checked by |
|---|---|---|
| `DropOldestBuffer` | abstract: a bounded buffer in which only the oldest item makes way | `dispatcher` (as `ImplementsBuffer`) |
| `AlertDispatcher` | the two threads of the dispatcher; refines `DropOldestBuffer` | `dispatcher` |
| `DetectorCluster` | replicas of the detector and RabbitMQ; each dispatcher is its abstract buffer | `cluster`, `cluster_data_loss` |
| `DetectorProofs` | theorems about `DetectorCluster` and `AlertDispatcher` | TLAPS |
| `AlertService` | the alert consumer, its cooldowns, threads, counters, and RabbitMQ | `alerts`, `alerts_call` |
| `AlertServiceProofs` | theorems about `AlertService` | TLAPS |
| `FramePipeline` | the capturer's three goroutines, ffmpeg, the broker | `pipeline` |
| `FramePipelineProofs` | theorems about `FramePipeline` | TLAPS |
| `Macroblocks` | the detector's arithmetic and the exclusion zones, as operators, with a reference definition | `gate` |
| `MotionGate` | the gate of the inner loop, which is a choice in `FramePipeline`; extends `Macroblocks` | `gate` |
| `MotionGateProofs` | theorems about `MotionGate`, and about `Macroblocks` | TLAPS |
| `SnapshotCache` | the snapshot caches under their lock | `snapshot`, `snapshot_stale` |
| `SnapshotCacheProofs` | theorems about `SnapshotCache` | TLAPS |
| `AlertWebhook` | the webhook's threads between Alertmanager and ntfy | `webhook` |
| `AlertWebhookProofs` | theorems about `AlertWebhook` | TLAPS |
| `Schedule` | the daily window, as the Go capturer, the legacy capturer and the monolith decide it | `legacy` (as `ScheduleAgrees`) |
| `LegacyCapturer` | the loop of the single-threaded capturer; extends `Schedule` | `legacy` |
| `LegacyCapturerProofs` | theorems about `Schedule` and `LegacyCapturer` | TLAPS |
| `ViewerService` | the viewer's handlers, sessions and folders | `viewer` |
| `ViewerClient` | the viewer's page; extends `ViewerService` | `viewer` |
| `ViewerClientProofs` | theorems about `ViewerClient` with `ViewerService` | TLAPS |

`MC*` modules give constants that a configuration file cannot express. Every
component module has the same layout: constants with a named assumption, variables,
`TypeOK`, `Init`, one action per step of the code, `Next`, fairness, `Spec`, and its
correctness properties (in `AlertDispatcher` these names begin with `Dispatcher`, so that
one module can extend it and `DetectorCluster`). An operator whose comment starts with "Mutant:" is a
plausible mistake in the operator that follows it; it is no part of the
specification, and PROJECT.json names the property that catches it.

### State and actions against the code

**AlertDispatcher.** An atomic step ends where the queue's mutex is released.
`submit` is `Submit` (entry), `Put`/`PutFull` (`put_nowait`), then on `queue.Full`
`EvictOldest`/`EvictEmpty` (`get_nowait`), `EvictTaskDone`, and around the loop
again. `_worker` is `Get`, `Write`/`WriteRaises` (`os.makedirs` and `cv2.imwrite`,
which may return False and not raise), `EnsureChannel`/`ConnectFails`,
`Send`/`SendFails`, `TaskDone`. A failed attempt resets the channel
(`ResetChannel`); a failing `basic_publish` may or may not have reached the
broker, and one on a connection whose loss is unnoticed may return normally, for
there are no publisher confirms. The variables `evicted`, `finished`, `disk`,
`raised` and `copies` record what happened.

**DetectorCluster.** Per replica, `pc` walks through `callback`; its early
returns are `WarmupSkip`, `DuplicateSkip` and the corrupt case of `Decode`, the
model's outcome is `InferClear`, `InferPerson` (which remembers the hash and
submits) or `InferRaises` (the except clause, which acknowledges all the same).
`link` distinguishes a connection that is gone from one whose loss has been
noticed: `Ack` on a closed one raises and is swallowed, and the frame is delivered
again. The dispatcher is its queue (`buffer`) and the detection its thread has in hand
(`held`) from `TakeOldest`, the `get`, to `Settle`, after the write and the attempts:
what is in hand does not count against the queue's size, and goes with the process too.
`ConsumerError` ends the process, `Crash` kills it, `Start` is the restart
policy. `BrokerRestart` empties everything.

**AlertService.** `Callback` is the whole of the callback up to its `basic_ack`,
which is `Ack`, since a crash may fall between them. A malformed alert that the
`except` of line 275 covers is one of the camera "unknown". On other bodies the
callback raises (`raising`, any set of alerts): a JSON value that is not an object
(line 268), an infinite count (272), a camera that is not hashable (290). Nothing
catches that, so `CallbackRaises` ends the process, with the alert and the prefetched
ones back in front of the queue, and no fault is counted for it: it happens again
after every restart. The clock moves at any time. Photos and calls run in
threads of their own and end with `PhotoSent`, `PhotoFails`, `PhotoDropped` (an alert
in `Unsendable`: a file name without a camera folder, or a timestamp that is not a
string) or one `PlaceCall` per recipient and `CallsDone`. Cooldowns and
counters begin anew with each process, and so do `photos`, `calls` and `skips`, which
record what it did; `handled` is for all of them.

**FramePipeline.** `mPc` is the line of `main` at which the goroutine is: the
outer loop, `Connect`, the inner loop, `Start`, `AcquireFrame`, the blocking
read, the gate, `Submit`, and the exit sequence. Every place where the code looks
at `ctx.Err()`, at `notifyClose` or at the channel is a guard. The worker selects,
encodes, releases its buffer and publishes. The signal goroutine cancels the
context, stops the capturer and closes the broker, each a step, while the others
go on. `locked` is the broker's write lock during `Connect`.

**MotionGate.** `now` is read before the blocking read, as in the code.
A frame shows a scene, whose pixels `Picture` gives; `Analyze` of `Macroblocks`
compares them block by block, with the masks of the zones that `EXCLUDE_ZONES`
asks for (each of `ZoneChoices`, from the start). Sums and counts are multiplied out
where the code divides. `against` records the frame that motion was found against
and its connection.

**SnapshotCache.** A raw frame is two halves copied in two steps and a JPEG slice
is empty until filled, so that a reader inside a writer's critical section would
see it. `jpegAt` is a history variable: when the current slice was stored.
`updatedAt` is what the code has.

**AlertWebhook.** `Accept` is the thread's way into the loop over the group,
`Forward` one post to ntfy that succeeds, `ForwardFails` one that raises or answers
an error (a timeout may hide that ntfy took it), `Done` the answer 200, `Refuse` the
early returns; a body that is not JSON raises within the `try`, so it is a 500.
Alertmanager is one group: it posts again after a 5xx or when it gave up waiting
(`GiveUpWaiting`, after which the thread goes on unseen: `abandoned`), repeats it while
it fires (`Repeat`, the `repeat_interval` of `alertmanager.yml:8`, which is no fault),
and posts it once more when it is resolved. `taken` and `counted` belong to the process,
`pushes` and `lastWord` are what ntfy has seen.

**LegacyCapturer.** `pc` is the place in the loop. `Top` forgets what the last round
held. An ffmpeg that `Finally` tells to stop is not waited for, and one whose `kill` or
`wait` raises is forgotten (`Kill`): `dying` counts those that may live on, until
`FfmpegExits`, also while the next one is started. `strays` counts the connections and
the processes that would be lost without having been told to stop. A frame is a number, and
numbers next to each other are similar, so that a slow change is a sequence of
similar frames. `everSent` stands for `last_sent_time`: whether a frame is too soon
is a choice after the first one. `ShortRead` is the way out of the inner loop
without an exception. `missed` records a frame that passed the filter and was lost.

**Viewer.** `ViewerService` has the folders, the clock in days, the secret of the
process and the cookie; `Answer` is `require_auth` and the handler together.
`ViewerClient` follows the page up to each `await`: what a handler does before it is
the action of the click or of the timer, what it does after it is `CamerasAnswered`,
`DatesAnswered`, `ImagesAnswered`, `Unauthorized` or `RequestFails`. Serving a
request and the arrival of its answer are two steps, in any order between requests.
`boot` is how far `init` is: the timer starts only at its end. A card keeps the
camera and the date that were selected when its answer came, for those are in its
URL. Other than the code, `handleLogout` is one step.

## Runs

| Run | Instance | What it shows |
|---|---|---|
| `dispatcher` | queue of 2, 3 attempts, 4 detections | the accounting of `unfinished_tasks`; the newest detection is never evicted; each is in exactly one place; alerts are justified and bounded; `submit` returns and everything settles; and the two threads implement `DropOldestBuffer`, order and fairness included |
| `cluster` | 2 replicas with a buffer of 1 and a warm-up of 1, 5 frames of a camera: nobody, a person, its duplicate, another person, a corrupt one; 1 fault | conservation of frames, and no announcement without a delivery; the detections that vanish with a process are at most a full queue and one in hand, of each replica for every fault; the filters drop only for a reason, and the warm-up costs at most its limit per process life; every frame settles |
| `cluster_data_loss` | 2 replicas, 3 frames, 1 fault | **violated**: a detection vanishes with its replica although the frame was acknowledged (`ARCHITECTURE.md:215`) |
| `alerts` | 3 alerts, a malformed one that cannot be posted between two of a camera, 2 recipients, prefetch 2, cooldowns of 1 and 2, clock to 3, 1 fault, the callback raising on any of the alerts | the cooldowns of photos and calls, both ways: nothing within them, no silence without them; conservation of alerts, acknowledged means evaluated, and none gets past one on which the callback raises; counters add up, per alert and per notification; every other alert settles |
| `alerts_call` | 3 alerts of 2 cameras, no faults | **violated**: a call for one camera suppresses the call for another (`src/README.md:219` says per camera) |
| `webhook` | a group of 3, 2 threads, 3 faults, 1 repetition | no alert of a group is skipped, or sent more often than one before it, or more than once for each fault and each repetition besides the one time that is due; the counter and ntfy agree; resolved is the last word; groups get through |
| `pipeline` | 4 buffers, 3 frames, 1 disconnection | one owner per buffer, and no need for more than channel + 2; frames in order with their own pixels; a clean shutdown, and an end after SIGTERM whatever the camera and the broker do; a lost connection is replaced in a live environment |
| `snapshot` | 2 requests, 3 frames, clock to 2 | whole replies |
| `snapshot_stale` | 1 request, 2 frames | **violated**: an old JPEG is served as fresh, for every raw frame renews the timestamp the JPEG is judged by |
| `gate` | 3 scenes of 5 by 5 pixels in blocks of 2, without zones, with one given by corners in the wrong order, and with all blocks masked; 4 frames, clock to 8 | spacing of what is sent; post-roll is justified by the last motion frame and carries its box; what counts as motion is the reference definition's motion, against a frame of the same connection, and its box is the hull |
| `legacy` | every schedule of a day of 3, scenes 1 to 3, 2 attempts, 2 faults | the three schedules agree but for the last second and the last hour; at most one ffmpeg and one connection in the loop's hands, nothing let go of that was not told to stop, and of that no more than there were failures; the reference of the filter is what was published or lost by a recorded error; capturing resumes |
| `viewer` | 2 cameras, 3 days, sessions of a day, 1 capture, 1 fault, 2 requests under way, 3 clicks | cards of the selected folder open; a page that watches today's folder ends with exactly its images, or at the login when the session is over |

**Bounds.** Every bound is a constant (`MaxSubmits`, `MaxFrames`, `MaxFaults`,
`MaxTime`, `MaxDisconnects`, `MaxAlerts`, `MaxOffers`, `MaxCaptures`, `MaxPending`,
`MaxClicks`, `MaxRepeats`, `Days`). The number of items exceeds the capacities involved, so that
each buffer fills, overflows and drains (4 detections for a queue of 2 with one held
by the worker; 3 frames for a channel of 2 with slow readers; 3 alerts for a prefetch
of 2; two persons for a dispatcher of 1). Two replicas, two cameras, two requests and
two threads are the least for which one can disturb the other. In the viewer the
page's own first selection and three clicks select a camera, leave it and come back
with an answer under way. Clock bounds exceed the cooldown, post-roll and freshness
constants, so that each is seen both running and run out. A loop tries the broker
again after every fault, so one more fault adds a round like the one before it; the
runs with room for it have two or three. No run uses symmetry.

**Deadlock** is checked in every run; where all the bounded work is done, a
stuttering action (`Idle`, `Quiet`, `Terminated`) says so explicitly, with a guard
that is false while any thread has work left.

**Fairness.** Always weak fairness of a thread that is runnable, never of a fault
or of an arrival. `AlertDispatcher`: of `submit`'s steps and of the daemon
thread's, whose calls are all bounded. `DetectorCluster`: of consuming and
restarting (`restart: unless-stopped`) and of the daemon threads. `AlertService`:
of the consumer, a callback that raises and the restart after it included, and of each
sending thread (a request has a timeout of 15 s).
`FramePipeline`: of the three goroutines, but not of frames arriving, nor of the
broker being reachable, so that `ShutdownCompletes` holds with a silent camera and
no broker. `BrokerReconnects` is conditional on `LiveEnvironment`: main notices the
loss only between two frames, so a camera that stays silent, its ffmpeg alive, keeps
it from reconnecting. `AlertWebhook`: of Alertmanager posting and of the threads,
whose posts time out after 10 s, but not of repetitions. `LegacyCapturer`: of its loop,
and not of an ffmpeg that was told to stop; that frames come
(`LiveCamera`) is a premise of `CaptureResumes`, for the read has no timeout.
`ViewerClient`: of the timer and of the oldest request, since each either is answered
or fails, and never of the user. `SnapshotCache` and `MotionGate` have none: their
properties are safety.

## Disagreements with the documentation

Three are shown by runs and listed under `findings`: `cluster_data_loss`,
`alerts_call`, `snapshot_stale`. Others were met while reading and have no run:

- `human_detector.py:102`: between the failed put and `get_nowait` the daemon
  thread may make room; `submit` then evicts a detection although the queue is not
  full, and logs "buffer saturated" (:105).
- `human_detector.py:157`: an alert is published although `cv2.imwrite` returned
  False, with a file name that does not exist (`src/README.md:23` promises an
  image).
- `human_detector.py:248`: the warm-up is per process, so a second replica skips
  frames in the middle of a stream, which the comment at :26 does not intend.
- `alert_service.py:275`: the fallback for malformed alerts does not cover a JSON body
  that is not an object, an infinite `human_count` or a camera that is not hashable: the
  process ends on it, and so does every later one, for RabbitMQ puts the alert back in
  front each time. No alert behind it is handled until the broker loses its queue.
- `alert_service.py:291`: the photo cooldown is per camera, `ARCHITECTURE.md:151`
  says global.
- `alert_service.py:318`: with calls enabled one alert may count as two
  suppressed alerts (help text at :32). `alert_service.py:251`: the counter of
  notifications "attempted" (:37) counts successes.
- `frame_capturer.py:61`: the end of the schedule is an instant, not a second as in
  the Go engine: with the defaults (00:00:00 to 23:59:59) the last second of the day
  is outside, so the capturer may kill ffmpeg and sleep a minute at midnight. An
  hourly schedule of the monolith that begins and ends in the same hour is empty.
- `frame_capturer.py:240`: `terminate` is not waited for, so for a while two ffmpeg
  processes may read from a camera, as after a `wait` that ran out (:153).
- `frame_capturer.py:191`: the reference is set before the encoding and the publish;
  when either fails, the motion is not sent again while the scene stays as it is.
- `alert_service.py:94`: a body that is not JSON is answered with 500, which asks for
  a retry, and not with the 400 of "No JSON data".
- `alert_service.py:149`: a thread whose request was given up may send its firing
  alerts after a later request has sent them as resolved.
- `index.html:1411`: an empty listing leaves the cards of another selection on the
  page, and a late answer puts cards into the grid whose URL mixes its images with
  the current selection; `LiveFeed` needs a listing that is not empty, and a page
  that watches today.
- `index.html:1358`: the date list of a camera that was left meanwhile replaces that
  of the selected one. `index.html:1537`: a page left open over midnight stops
  polling, although its comment at :1279 has "live polling every 5s".
- `index.html:1209`: a failing logout is ignored; the page goes to /login, which
  leads back to the viewer.
- `motion.go:38`: the blocks leave out what remains of the frame: of 1080 rows the last
  24, although `src/README.md:20` has motion evaluated "across the full 1080p frame".
- `config.go:129`: an item of `EXCLUDE_ZONES` with a typing error is left out without
  a word.
- `main.go:212`: `now` is older than the frame by the time the read blocked, so a
  post-roll frame may be read later than `POST_ROLL_SECONDS` after the motion.

## Theorems

`DetectorProofs` extends `DetectorCluster` and `AlertDispatcher`. Of the latter it
proves, for every queue size, every number of attempts and every number of detections
(`DispatcherAssumption`: positive sizes; nothing else is assumed), that
`DispatcherSpec` implies `[]` of `DispatcherTypeOK`, `UnfinishedAccounting`,
`LatestNeverEvicted`, `ExactlyOnePlace`, `InOrder` and `AlertsJustified`: the safety
invariants of run `dispatcher`, and the order that `ImplementsBuffer` has there.

None of the interesting ones is inductive alone. `DispatcherInv` adds three parts.
`PcInv` ties the program counters to the data: the daemon thread holds an item exactly when
it is not waiting in `get`, and a publish attempt has a number. `KnownInv` bounds
every detection anywhere by the latest one accepted, which is what makes the newest
one safe and an appended one larger than all before it. `PublishInv` says how far
the publish of the held detection has come: nothing was sent of what the daemon
thread has not reached, and fewer copies than attempts of what it holds. The proof
goes in layers, each with `Init` and a step lemma that has one case per action:
types and program counters first, then accounting, order and known detections, then
places and publishing. Two lemmas say what `Append` and `Tail` do to the range of a
sequence.

`RefinesBuffer` is the safety part of `ImplementsBuffer`: the initial states map to
the buffer's, and every step is one of its steps or a stutter. It needs one
invariant more, `HeldIsNewest`: the abstract `taken` is the held detection or else
the largest finished one, and must not move when the daemon thread is done.

Of `DetectorCluster` it proves `TypeOK`, `FrameConservation` and `SkipsJustified`, for any finite set of replicas and any numbers of frames, cameras
and faults (`ClusterAssumption`), that is, all the invariants of run `cluster`.
`PlaceInv` divides the published frames between the queue, the replicas, the
acknowledged and the lost ones and keeps the queue sorted, which is why a requeued
frame finds its original position. `ReplicaInv` ties `pc` to the frame in the
callback, and says that a process that is down remembers nothing. `DeliveryInv` bounds
the deliveries of a frame by the faults, one less while it waits in the queue, and its
submissions by its deliveries: the callback under way counts as a submission to come.
`FilterInv` says that a remembered hash was submitted. `WarmupInv` is the amortised form
of the cost of the warm-up: what was swallowed is in the present counters or was paid
for by a fault, and a fault that has closed connections still owes the lives that will
end with them. `LossInv` is the same account for `LossBounded`: `NoDataLoss` of
`ARCHITECTURE.md` is refuted by a run, and what holds instead is that the detections
which vanish with a process are at most a full queue and the one in the thread's hand, of
each replica for every fault, for one broker restart may end all of them.

`AlertServiceProofs` proves `TypeOK`, `CooldownsHold`, `AlertConservation` and
`CountersAddUp` of `AlertService`, all the invariants of run `alerts`, for any cameras,
recipients, cooldowns, numbers of alerts and faults (`ServiceAssumption`). `PlaceInv`
and `HeadInv` are for conservation: an acknowledged alert was at the head of the
prefetched ones, and marked as evaluated only after it was. `OrderInv`, that the
consumer and the queue behind it keep the order of publication through every requeue,
is why nothing gets past an alert on which the callback raises. `LifeInv` and
`CooldownInv` connect what the running process remembers with what it did: the
dictionary has the last photo of each camera and nothing of an earlier process. `CountInv` and `NotifyInv` are the accounts per alert and per notification;
they need `FreshInv` (an alert is dispatched once per process, although it may be
delivered again to the next) and `ThreadInv` (every sending thread belongs to a
dispatch of this process).

`FramePipelineProofs` proves `TypeOK`, `BufferOwnership`, `PublishedFaithfully` and
`CleanShutdown` of `FramePipeline`, all the invariants of run `pipeline`, for any
number of buffers, channel size, frames and disconnections (`PipelineAssumption`).
`sync.Pool` allocates when it is empty; the model has a fixed set of buffers, and
`Cardinality(Buffers) >= ChanSize + 2` is assumed so that `Get` always finds one:
that no more are ever in use is part of `BufferOwnership`. `OwnerInv` says for each
place of the two goroutines whether they hold a buffer, and that no two places have
the same. `LineInv` orders the line from the broker back to main by sequence number,
and `FrameInv` says that a sequence number names one frame from its submission to the
broker: a buffer that is reused too early would break it before anything is published.

`SnapshotCacheProofs` proves `TypeOK` and `RepliesWhole` of `SnapshotCache` for any
handlers, numbers of requests and frames, and clock (`SnapshotAssumption`). `LockInv`
says who is inside a critical section, `RawInv` that the halves of the raw frame differ
only while main copies, `SliceInv` that only the youngest slice can be unfinished, and
only while the worker fills it, and `RequestInv` that what a handler has read stays
whole after the lock was released: the slice it holds is never written again.

`MotionGateProofs` proves all four invariants of run `gate`. `AnalyzeIsRight` is about
the arithmetic of `Macroblocks`: with masks made from zones by `parseExcludeZones`
and `NewMacroblockDetector`, `Analyze` finds motion exactly when the reference
definition `IsMotion` does, and its box is the hull of the changed blocks
(`IsBoxOf`), for every frame size, block size and threshold. Its lemmas say that whole blocks only are in the grid (`GridBound`), that
masking a block by the range of its indices is the same as its overlap with the zone
(`InsideMeansOverlap`, `MaskedMeansExcluded`), and that the running minimum and maximum
are the edges of the hull (`Extremes`, `HullEdges`). Whether a block has changed
(`IsActive`, a sum over its pixels) is the same operator on both sides and is not
unfolded. `MotionJustified` follows with
`ReferenceInv`, that the detector's reference is a frame of the present connection, and
`TypeOK`. `DispatchSpacing` and `PostRollJustified` do not depend on what `Analyze`
finds; their invariant is `ClockInv` (nothing the gate remembers is later than `now`),
`HistoryInv` (nothing was sent after `lastSent`, and all that is recorded is of earlier
frames than the one in the gate), and `LastMotionInv` (`lastMotion` and `lastBox` are
those of the last motion frame, and survive everything but the next).
`GateAssumption` has positive sizes, and zones among the items that `EXCLUDE_ZONES` can
be parsed into (`Items`).

`LegacyCapturerProofs` proves first, for a day of any length (`ScheduleAssumption`),
what each of the three implementations of the schedule decides, measured against one
window defined without a case for midnight: how far the clock is past the start is at
most how far the end is. They give `ScheduleAgrees`, which the run `legacy` checks on
a short day. Then it proves `TypeOK`, `OneStream` and `ReferenceAccounted` of
`LegacyCapturer`, for every schedule, set of scenes, number of connection attempts and
number of faults (`CapturerAssumption`). `OneStream` needs `HeldInv`: what the `finally`
block tests (`ffmpegRunning`) is true exactly when there is a process, so the block has
told to stop and closed everything when the loop is at its top again. It also ties each
use of that block with a process in hand to a broken connection, and so to a fault,
which bounds the processes that may live on. `ReferenceAccounted`
needs `PublishInv`: between the filter and the publish the reference is the frame itself.

`AlertWebhookProofs` proves `TypeOK`, `DeliveriesAccounted` and `ResolvedIsLastWord` of
`AlertWebhook`, all the invariants of run `webhook`, for groups of any size, any finite
set of threads and any number of faults and repetitions (`WebhookAssumption`). `ResolvedIsLastWord` adds
two parts to be inductive. `OnlyAwaited`: as long as Alertmanager has not stopped waiting
for a thread that went on, only the awaited thread is at work. `VersionInv`: that
thread's version is the one ntfy is being told, so once a resolved alert is out no
thread still carries the firing one. `DeliveriesAccounted` counts threads, for several
may be in the same group after a timeout: `OrderInv` sets one push of an alert aside for
each thread that has passed it and not yet pushed a later one, and `FirstInv` counts the
pushes of the first alert, the threads that stand before it and the post that is due
together, at most one more than the faults and the repetitions. `UnresolvedInv` is what makes the first post
of the resolved group the first, and `ReachedInv` that a thread at the end of the group
has pushed all of it.

`ViewerClientProofs` proves `TypeOK` and `CardsOpen` of `ViewerClient` with its service,
all the invariants of run `viewer`, for any cameras, days, captures, clicks, faults and
requests under way (`ServiceAssumption`, `ClientAssumption`). `CardsOpen` is conditional
on the present selection and on there being no request for dates, so it is not inductive:
a card made under another selection may come to be selected again. `CardInv` says of
every card in the grid that its picture exists in the folder it was listed from, and that
its URL has the present selection unless a request for dates is pending, an answer of one
was lost (`unseen`), or nothing is selected. Three groups of lemmas carry it. Folders only
grow (`ImagesStay`), so what an answer listed is still there however late it is read, and
`RequestInv` says that of every answer under way (`Truthful`). A page's step does one of
four things to the selection and the grid (`PageMoves`): it clears the grid (`Clears`),
leaves both alone and forgets neither a pending request for dates nor that one was lost
(`Keeps`), changes the selection and leaves a request for dates or no selection behind
(`Selects`), or fills the grid from an answer (`Fills`). And a request that is answered or fails makes
room for the one its handler sends, so that their number stays within `MaxPending`.
`SecretInv`, that a new secret costs a restart and that a fault, bounds the secrets.

**Model-checked only.** All liveness: `EverySubmissionSettles`, `FramesSettle`,
`AlertsSettle`, `AlertsGetThrough`, `ShutdownCompletes`, `BrokerReconnects`,
`CaptureResumes`, `LiveFeed`, and the fairness in `ImplementsBuffer`, for fairness and
ENABLED are beyond the prover; every invariant of a passing run is a theorem. What the
sum over the pixels of a block amounts to: it is a fold, and induction over the set it
runs through is not available. The three violated properties are refuted by runs.

## Not modelled

Formatting, logging and metrics other than the counters of the alert service; the
pixels of images outside of `MotionGate` (a frame is a number, a hash a value); the model's inference; delays
between retries; passwords, Basic Auth and the bypass token of the viewer, its checks
of path parameters, and the lightbox; `parseSeconds`, which takes any three numbers
(the model's times are within the day). RabbitMQ is modelled as the code uses it:
competing consumers, prefetch, acknowledgement, requeueing in the original position,
loss of everything on a restart. In `DetectorCluster` and `AlertService` the message
a lost publisher confirm would have told about simply does not arrive. Alertmanager
is one group that is posted as firing, repeated, and posted as resolved in the end. The components with
status `not_modelled` in PROJECT.json each have their reason there; of the monolith
only the schedule is modelled.

## Plan

Done, in this order: `AlertDispatcher` with its abstract buffer and its proofs,
`DetectorCluster`, `AlertService`, `FramePipeline`, `SnapshotCache`, `MotionGate`;
then `Schedule`, `LegacyCapturer` and `AlertWebhook` with their proofs, `ViewerService`
and `ViewerClient`; then `Macroblocks` under `MotionGate`; then the proofs of all the
safety invariants.

Next, to model:

1. `StreamHealth`: `capture.go` sets `lastFrameTime` in `Start`, so a stream that
   restarts every few seconds without a frame looks healthy to `/healthz`.
2. `EndToEnd`: capturer, detectors and alert service over two lossy queues, from a
   captured person to a notification or a recorded reason.
3. The detection loop of the monolith, and the lightbox of the viewer.

Next, to prove: that the dispatcher in a replica of
`DetectorCluster` takes only steps of `DropOldestBuffer`, as `AlertDispatcher` does;
that `FramePipeline`, with its gate as a choice, takes only steps that `MotionGate`
justifies.
