--------------------------- MODULE LegacyCapturer ---------------------------
(***************************************************************************)
(* frame_capturer.py: the single-threaded capturer that the Go one replaced. *)
(* One loop connects to RabbitMQ, watches the schedule, runs ffmpeg, drops   *)
(* what is too soon or too similar, and publishes; every failure leads       *)
(* through `except` and `finally` back to its top.  An ffmpeg that is told   *)
(* to stop may live on beside the next one: terminate is not waited for, and *)
(* a wait that runs out is only logged.  A frame is the scene it shows, a    *)
(* number: neighbours are similar (an error below the threshold).  The clock *)
(* is the time of day; what is too soon is a choice.                         *)
(***************************************************************************)
EXTENDS Schedule

CONSTANTS Scenes,
          Retries,     \* attempts of connect_rabbitmq: 15 in the code
          MaxFaults    \* bound on broken connections, streams, processes and waits

ASSUME CapturerAssumption == /\ Scenes \subseteq Nat \ {0}
                             /\ Retries \in Nat \ {0}
                             /\ MaxFaults \in Nat

VARIABLES
  start, end,      \* start_time, end_time
  now,             \* datetime.now().time()
  pc,              \* where the loop is
  attempt,         \* of connect_rabbitmq
  link,            \* mq_connection: "none", "open", or "broken", unnoticed
  pipe,            \* "none", or an ffmpeg process: "alive", its output "ended", or
                   \* "told" to stop
  ffmpegRunning,   \* ffmpeg_running
  frame,           \* raw_frame, 0 for none
  reference,       \* last_frame_gray, 0 for None
  everSent,        \* last_sent_time is not 0
  received,        \* the scene of the last frame that reached frame_queue
  missed,          \* the scene that passed the filter since and was lost
  dying,           \* ffmpeg processes told to stop and not seen to, maybe alive
  strays,          \* ffmpeg processes and connections left to themselves
  brokerUp,        \* RabbitMQ can be reached
  faults

config == <<start, end>>
mqVars == <<attempt, link>>
pipeVars == <<pipe, ffmpegRunning>>
filterVars == <<reference, everSent>>
queueVars == <<received, missed>>
leftVars == <<dying, strays>>
env == <<now, brokerUp, faults>>
vars == <<config, pc, mqVars, pipeVars, frame, filterVars, queueVars, leftVars, env>>

MaybeScenes == Scenes \cup {0}

TypeOK ==
  /\ start \in TimesOfDay /\ end \in TimesOfDay
  /\ now \in Instants
  /\ pc \in {"top", "connect", "check", "read", "frame", "publish", "except", "finally", "asleep"}
  /\ attempt \in 1..Retries
  /\ link \in {"none", "open", "broken"}
  /\ pipe \in {"none", "alive", "ended", "told"}
  /\ ffmpegRunning \in BOOLEAN
  /\ frame \in MaybeScenes /\ reference \in MaybeScenes
  /\ everSent \in BOOLEAN
  /\ received \in MaybeScenes /\ missed \in MaybeScenes
  /\ dying \in Nat /\ strays \in Nat
  /\ brokerUp \in BOOLEAN
  /\ faults \in 0..MaxFaults

Init ==
  /\ start \in TimesOfDay /\ end \in TimesOfDay
  /\ now = [sec |-> 0, frac |-> 0]
  /\ pc = "top"
  /\ attempt = 1
  /\ link = "none"
  /\ pipe = "none" /\ ffmpegRunning = FALSE
  /\ frame = 0
  /\ reference = 0 /\ everSent = FALSE
  /\ received = 0 /\ missed = 0
  /\ dying = 0 /\ strays = 0
  /\ brokerUp = TRUE
  /\ faults = 0

One(b) == IF b THEN 1 ELSE 0
Within == LegacyIsWithinTimeFrame(start, end, now)

-----------------------------------------------------------------------------
(* The outer loop *)

\* pipe = None, mq_connection = None: what they held had better be closed.
Top == /\ pc = "top"
       /\ strays' = strays + One(pipe = "alive") + One(link = "open")
       /\ pipe' = "none" /\ ffmpegRunning' = FALSE /\ link' = "none"
       /\ attempt' = 1
       /\ pc' = "connect"
       /\ UNCHANGED <<config, frame, filterVars, queueVars, dying, env>>

Connected == /\ pc = "connect"
             /\ brokerUp
             /\ link' = "open"
             /\ pc' = "check"
             /\ UNCHANGED <<config, attempt, pipeVars, frame, filterVars, queueVars, leftVars, env>>

\* Mutant: one attempt more than configured.
ConnectFailsOnceMore ==
  /\ pc = "connect"
  /\ ~brokerUp
  /\ IF attempt <= Retries
     THEN attempt' = attempt + 1 /\ UNCHANGED pc
     ELSE pc' = "except" /\ UNCHANGED attempt
  /\ UNCHANGED <<config, link, pipeVars, frame, filterVars, queueVars, leftVars, env>>

\* connect_rabbitmq tries again after a delay, and raises after the last attempt.
ConnectFails == /\ pc = "connect"
                /\ ~brokerUp
                /\ IF attempt < Retries
                   THEN attempt' = attempt + 1 /\ UNCHANGED pc
                   ELSE pc' = "except" /\ UNCHANGED attempt
                /\ UNCHANGED <<config, link, pipeVars, frame, filterVars, queueVars, leftVars, env>>

\* except: ten seconds of sleep.
Except == /\ pc = "except"
          /\ pc' = "finally"
          /\ UNCHANGED <<config, mqVars, pipeVars, frame, filterVars, queueVars, leftVars, env>>

\* Mutant: only the connection is cleaned up.
FinallyKeepsFfmpeg == /\ pc = "finally"
                      /\ link' = "none"
                      /\ frame' = 0
                      /\ pc' = "top"
                      /\ UNCHANGED <<config, attempt, pipeVars, filterVars, queueVars, leftVars, env>>

\* terminate, which nobody waits for, and close, whose exception is swallowed.
Finally == /\ pc = "finally"
           /\ IF pipe = "none" THEN UNCHANGED <<pipe, dying>>
              ELSE pipe' = "told" /\ dying' = dying + 1
           /\ link' = "none"
           /\ frame' = 0
           /\ pc' = "top"
           /\ UNCHANGED <<config, attempt, ffmpegRunning, filterVars, queueVars, strays, env>>

-----------------------------------------------------------------------------
(* The inner loop: schedule and stream *)

\* Within the schedule: start ffmpeg unless it runs.
Stream == /\ pc = "check"
          /\ Within
          /\ IF ffmpegRunning THEN UNCHANGED <<pipeVars, leftVars>>
             ELSE /\ pipe' = "alive" /\ ffmpegRunning' = TRUE
                  /\ strays' = strays + One(pipe = "alive")
                  /\ UNCHANGED dying
          /\ pc' = "read"
          /\ UNCHANGED <<config, mqVars, frame, filterVars, queueVars, env>>

\* Popen raises.
StreamFails == /\ pc = "check"
               /\ Within /\ ~ffmpegRunning
               /\ faults < MaxFaults /\ faults' = faults + 1
               /\ pc' = "except"
               /\ UNCHANGED <<config, mqVars, pipeVars, frame, filterVars, queueVars, leftVars,
                              now, brokerUp>>

\* kill, and a wait of a second: when that raises it is logged, and the process is
\* forgotten all the same.
Kill == /\ \/ UNCHANGED <<dying, faults>>
           \/ dying' = dying + 1 /\ faults < MaxFaults /\ faults' = faults + 1
        /\ pipe' = "none" /\ ffmpegRunning' = FALSE
        /\ UNCHANGED <<strays, now, brokerUp>>

\* Outside of it: kill ffmpeg, sleep a minute, look again.
OutsideSchedule ==
  /\ pc = "check"
  /\ ~Within
  /\ IF ffmpegRunning THEN Kill ELSE UNCHANGED <<pipeVars, leftVars, env>>
  /\ pc' = "asleep"
  /\ UNCHANGED <<config, mqVars, frame, filterVars, queueVars>>

Wake == /\ pc = "asleep"
        /\ pc' = "check"
        /\ UNCHANGED <<config, mqVars, pipeVars, frame, filterVars, queueVars, leftVars, env>>

\* The loop has read a whole frame.
ReadFrame == /\ pc = "read"
             /\ pipe = "alive"
             /\ frame' \in Scenes
             /\ pc' = "frame"
             /\ UNCHANGED <<config, mqVars, pipeVars, filterVars, queueVars, leftVars, env>>

\* Mutant: the reading loop goes on when it reads nothing.
ShortReadSpins == /\ pc = "read"
                  /\ pipe = "ended"
                  /\ UNCHANGED vars

\* The pipe ends within a frame: kill, forget, and leave the inner loop.
ShortRead == /\ pc = "read"
             /\ pipe = "ended"
             /\ Kill
             /\ pc' = "finally"
             /\ UNCHANGED <<config, mqVars, frame, filterVars, queueVars>>

-----------------------------------------------------------------------------
(* The inner loop: a frame *)

Similar(a, b) == a - b \in -1..1

\* Less than min_interval since the last frame that was sent or similar.
RateLimited == /\ pc = "frame"
               /\ everSent
               /\ frame' = 0
               /\ pc' = "check"
               /\ UNCHANGED <<config, mqVars, pipeVars, filterVars, queueVars, leftVars, env>>

IsDuplicate == reference # 0 /\ Similar(reference, frame)

\* Mutant: a similar frame becomes the reference.
DuplicateMovesReference ==
  /\ pc = "frame"
  /\ IsDuplicate
  /\ reference' = frame
  /\ everSent' = TRUE
  /\ frame' = 0
  /\ pc' = "check"
  /\ UNCHANGED <<config, mqVars, pipeVars, queueVars, leftVars, env>>

\* The reference stays, or a slow change would never be seen.
Duplicate ==
  /\ pc = "frame"
  /\ IsDuplicate
  /\ everSent' = TRUE
  /\ frame' = 0
  /\ pc' = "check"
  /\ UNCHANGED <<config, mqVars, pipeVars, reference, queueVars, leftVars, env>>

\* The reference is set before the frame is encoded and published.
Encode == /\ pc = "frame"
          /\ ~IsDuplicate
          /\ reference' = frame
          /\ pc' = "publish"
          /\ UNCHANGED <<config, mqVars, pipeVars, frame, everSent, queueVars, leftVars, env>>

\* The encoder has no result: only an error is counted.
EncodeFails == /\ pc = "frame"
               /\ ~IsDuplicate
               /\ reference' = frame
               /\ missed' = frame
               /\ frame' = 0
               /\ pc' = "check"
               /\ UNCHANGED <<config, mqVars, pipeVars, everSent, received, leftVars, env>>

\* basic_publish returns; on a broken connection whose loss is unnoticed the frame
\* may be gone all the same.
Publish == /\ pc = "publish"
           /\ IF link = "open" THEN received' = frame /\ missed' = 0
              ELSE missed' = frame /\ UNCHANGED received
           /\ everSent' = TRUE
           /\ frame' = 0
           /\ pc' = "check"
           /\ UNCHANGED <<config, mqVars, pipeVars, reference, leftVars, env>>

PublishRaises == /\ pc = "publish"
                 /\ link = "broken"
                 /\ missed' = frame
                 /\ pc' = "except"
                 /\ UNCHANGED <<config, mqVars, pipeVars, frame, filterVars, received, leftVars, env>>

-----------------------------------------------------------------------------
(* The environment *)

Tick == /\ now' = IF now.frac = 0 THEN [now EXCEPT !.frac = 1]
                  ELSE [sec |-> IF now.sec = Day - 1 THEN 0 ELSE now.sec + 1, frac |-> 0]
        /\ UNCHANGED <<config, pc, mqVars, pipeVars, frame, filterVars, queueVars, leftVars,
                       brokerUp, faults>>

\* ffmpeg has ended or closed its output, and what it wrote is read.
StreamEnds == /\ pipe = "alive"
              /\ faults < MaxFaults /\ faults' = faults + 1
              /\ pipe' = "ended"
              /\ UNCHANGED <<config, pc, mqVars, ffmpegRunning, frame, filterVars, queueVars,
                             leftVars, now, brokerUp>>

\* An ffmpeg that was told to stop does so, in its own time.
FfmpegExits == /\ dying > 0
               /\ dying' = dying - 1
               /\ UNCHANGED <<config, pc, mqVars, pipeVars, frame, filterVars, queueVars,
                              strays, env>>

\* Nothing serves the heartbeats, so that RabbitMQ may close the connection whenever
\* nothing is published for long.
ConnectionBreaks == /\ link = "open"
                    /\ faults < MaxFaults /\ faults' = faults + 1
                    /\ link' = "broken"
                    /\ UNCHANGED <<config, pc, attempt, pipeVars, frame, filterVars, queueVars,
                                   leftVars, now, brokerUp>>

BrokerStops == /\ brokerUp
               /\ faults < MaxFaults /\ faults' = faults + 1
               /\ brokerUp' = FALSE
               /\ link' = IF link = "open" THEN "broken" ELSE link
               /\ UNCHANGED <<config, pc, attempt, pipeVars, frame, filterVars, queueVars,
                              leftVars, now>>

BrokerStarts == /\ ~brokerUp
                /\ brokerUp' = TRUE
                /\ UNCHANGED <<config, pc, mqVars, pipeVars, frame, filterVars, queueVars,
                               leftVars, now, faults>>

-----------------------------------------------------------------------------
Filter == RateLimited \/ Duplicate \/ Encode \/ EncodeFails

\* What the loop does without waiting for a frame.
Loop == \/ Top \/ Connected \/ ConnectFails \/ Except \/ Finally
        \/ Stream \/ OutsideSchedule \/ Wake \/ ShortRead
        \/ Filter \/ Publish \/ PublishRaises

Environment == \/ StreamFails \/ Tick \/ StreamEnds \/ FfmpegExits
               \/ ConnectionBreaks \/ BrokerStops \/ BrokerStarts

Next == Loop \/ ReadFrame \/ Environment

Spec == Init /\ [][Next]_vars /\ WF_vars(Loop)

\* A camera that goes on sending: the read has no timeout.
LiveCamera == WF_vars(ReadFrame)

-----------------------------------------------------------------------------
(* Correctness *)

\* All three implementations of the schedule describe one window, midnight or not,
\* but for its last second and its last hour.
ScheduleAgrees ==
  LET inWindow == InWindow(start, end, now.sec) IN
    /\ IsWithinTimeFrame(start, end, now.sec) <=> inWindow
    /\ Within <=> inWindow /\ ~(now.sec = end /\ now.frac = 1)
    /\ IsActive(start, end, now.sec) <=> inWindow /\ now.sec # end

\* Whatever fails, and in whatever order, the loop has at most one ffmpeg and one
\* connection in its hands, and no ffmpeg outside the schedule.  It lets go of none
\* that it has not told to stop; those may live on beside the next one, but there are
\* never more of them than there were failures.
OneStream == /\ strays = 0
             /\ dying <= faults
             /\ ffmpegRunning => pipe # "none"
             /\ pc = "asleep" => pipe = "none"
             /\ pc = "connect" => pipe = "none" /\ link = "none"

\* The scene that new frames are compared with is the one the detectors saw last,
\* on its way to them, or lost by an error: a slow change cannot creep past the filter.
ReferenceAccounted ==
  reference # received => reference = missed \/ (pc = "publish" /\ reference = frame)

\* Within the schedule, with a camera that sends and a broker that can be reached,
\* frames are captured again after every failure.
CaptureResumes == LiveCamera => (<>[](brokerUp /\ Within) => []<>(pc = "frame"))

=============================================================================
