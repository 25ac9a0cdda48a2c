----------------------------- MODULE MotionGate -----------------------------
(***************************************************************************)
(* The gate of main.go's inner loop: which of the frames read from ffmpeg    *)
(* are submitted for publication.  It combines the rate limit, the motion    *)
(* detector (motion.go: each analysed frame is compared with the one before  *)
(* it, unless the detector was reset in between) and the post-roll.  A frame *)
(* shows one of a few scenes.                                                *)
(***************************************************************************)
EXTENDS Macroblocks

CONSTANTS Scenes,        \* numbers
          Picture,       \* the luminance of the pixels of each scene
          ZoneChoices,   \* sets of items of EXCLUDE_ZONES
          MinInterval,   \* minInterval, 0.9 of the frame period
          PostRoll,      \* PostRollDuration
          MaxFrames,     \* how many frames the camera delivers (a bound)
          MaxTime        \* bound on the clock

ASSUME GateAssumption == /\ Scenes \subseteq Nat
                         /\ Picture \in [Scenes -> [(0..(FrameWidth - 1)) \X (0..(FrameHeight - 1)) -> 0..255]]
                         /\ ZoneChoices \subseteq SUBSET Items
                         /\ MinInterval \in Nat
                         /\ PostRoll \in Nat
                         /\ MaxFrames \in Nat
                         /\ MaxTime \in Nat \ {0}

VARIABLES
  excludeZones, \* EXCLUDE_ZONES
  clock,        \* time.Now()
  pc,           \* "loop", "read" (blocked in ReadFrame), or "gate"
  now,          \* the variable now, taken before ReadFrame
  frame,        \* the frame read: its number and scene
  lastSent,     \* lastSentTime, 0 for the zero time
  lastMotion,   \* lastMotionTime
  lastBox,      \* lastMotionBox
  lastY,        \* the detector's reference: its scene and the connection it is from
  hasLast,      \* hasLastFrame
  connection,   \* how often the detector lost its reference
  motions,      \* frames analysed as motion
  dispatched    \* frames submitted

clockVars == <<clock, now>>
gateVars == <<lastSent, lastMotion, lastBox>>
detectorVars == <<lastY, hasLast, connection>>
history == <<motions, dispatched>>
vars == <<excludeZones, clockVars, pc, frame, gateVars, detectorVars, history>>

Times == 0..MaxTime
FrameNumbers == 0..MaxFrames
Boxes == {NoBox} \cup ((0..FrameWidth) \X (0..FrameHeight) \X (0..FrameWidth) \X (0..FrameHeight))

TypeOK ==
  /\ excludeZones \in ZoneChoices
  /\ clock \in Times /\ now \in Times
  /\ pc \in {"loop", "read", "gate"}
  /\ frame \in [number : FrameNumbers, scene : Scenes \cup {0}]
  /\ lastSent \in Times /\ lastMotion \in Times
  /\ lastBox \in Boxes
  /\ lastY \in [scene : Scenes \cup {0}, connection : FrameNumbers]
  /\ hasLast \in BOOLEAN
  /\ connection \in FrameNumbers
  /\ motions \subseteq [number : FrameNumbers, stamp : Times, box : Boxes]
  /\ dispatched \subseteq [number : FrameNumbers, stamp : Times, postRoll : BOOLEAN, box : Boxes,
                           scene : Scenes, against : [scene : Scenes \cup {0}, connection : FrameNumbers],
                           connection : FrameNumbers]

Init ==
  /\ excludeZones \in ZoneChoices
  /\ clock = 1 /\ now = 0
  /\ pc = "loop"
  /\ frame = [number |-> 0, scene |-> 0]
  /\ lastSent = 0 /\ lastMotion = 0 /\ lastBox = NoBox
  /\ lastY = [scene |-> 0, connection |-> 0]
  /\ hasLast = FALSE
  /\ connection = 0
  /\ motions = {} /\ dispatched = {}

Tick == /\ clock < MaxTime
        /\ clock' = clock + 1
        /\ UNCHANGED <<excludeZones, now, pc, frame, gateVars, detectorVars, history>>

-----------------------------------------------------------------------------
(* Around the gate *)

\* detector.Reset: lastMotionTime and lastSentTime stay.
Reset == /\ hasLast' = FALSE
         /\ connection' = IF hasLast THEN connection + 1 ELSE connection
         /\ UNCHANGED lastY

LoopTop == /\ pc = "loop"
           /\ now' = clock
           /\ pc' = "read"
           /\ UNCHANGED <<excludeZones, clock, frame, gateVars, detectorVars, history>>

\* The broker is gone, or it is outside the schedule.
Interrupted == /\ pc = "loop"
               /\ connection < MaxFrames
               /\ Reset
               /\ UNCHANGED <<excludeZones, clockVars, pc, frame, gateVars, history>>

ReadFails == /\ pc = "read"
             /\ connection < MaxFrames
             /\ Reset
             /\ pc' = "loop"
             /\ UNCHANGED <<excludeZones, clockVars, frame, gateVars, history>>

ReadFrame == /\ pc = "read"
             /\ frame.number < MaxFrames
             /\ \E s \in Scenes :
                  frame' = [number |-> frame.number + 1, scene |-> s]
             /\ pc' = "gate"
             /\ UNCHANGED <<excludeZones, clockVars, gateVars, detectorVars, history>>

-----------------------------------------------------------------------------
(* The gate *)

TooSoon == lastSent # 0 /\ now - lastSent < MinInterval

RateLimited == /\ pc = "gate"
               /\ TooSoon
               /\ pc' = "loop"
               /\ UNCHANGED <<excludeZones, clockVars, frame, gateVars, detectorVars, history>>

\* Analyze: the first frame after a reset is not compared with anything.
Analysis == Analyze(ParseExcludeZones(excludeZones), Picture[frame.scene], Picture[lastY.scene])

IsLightingShift == hasLast /\ Analysis.IsLightingShift
HasMotion == hasLast /\ Analysis.HasMotion

Analyzed == /\ pc = "gate"
            /\ ~TooSoon
            /\ lastY' = [scene |-> frame.scene, connection |-> connection]
            /\ hasLast' = TRUE
            /\ pc' = "loop"
            /\ UNCHANGED <<excludeZones, clockVars, frame, connection>>

\* Mutant: every analysed frame prolongs the post-roll.
InPostRollFromSent == ~HasMotion /\ lastMotion # 0 /\ now - lastSent <= PostRoll

InPostRoll == ~HasMotion /\ lastMotion # 0 /\ now - lastMotion <= PostRoll

LightingShift == /\ Analyzed
                 /\ IsLightingShift
                 /\ lastSent' = now
                 /\ UNCHANGED <<lastMotion, lastBox, history>>

\* Mutant: lastSentTime is the earliest time of the next frame.
NothingToSendPostdated == /\ Analyzed
                          /\ ~IsLightingShift /\ ~HasMotion /\ ~InPostRoll
                          /\ lastSent' = now + MinInterval
                          /\ UNCHANGED <<lastMotion, lastBox, history>>

NothingToSend == /\ Analyzed
                 /\ ~IsLightingShift /\ ~HasMotion /\ ~InPostRoll
                 /\ lastSent' = now
                 /\ UNCHANGED <<lastMotion, lastBox, history>>

RememberMotion ==
  IF HasMotion
  THEN /\ lastMotion' = now
       /\ lastBox' = Analysis.MotionBox
       /\ motions' = motions \cup {[number |-> frame.number, stamp |-> now, box |-> lastBox']}
  ELSE UNCHANGED <<lastMotion, lastBox, motions>>

\* Mutant: the limit is measured from the last frame that was not submitted.
SubmitAcceptsUncounted ==
  /\ Analyzed
  /\ HasMotion \/ (InPostRoll /\ ~IsLightingShift)
  /\ RememberMotion
  /\ UNCHANGED lastSent
  /\ dispatched' = dispatched \cup
       {[number |-> frame.number, stamp |-> now, postRoll |-> InPostRoll, box |-> lastBox',
         scene |-> frame.scene, against |-> lastY, connection |-> connection]}

SubmitAccepts ==
  /\ Analyzed
  /\ HasMotion \/ (InPostRoll /\ ~IsLightingShift)
  /\ RememberMotion
  /\ lastSent' = now
  /\ dispatched' = dispatched \cup
       {[number |-> frame.number, stamp |-> now, postRoll |-> InPostRoll, box |-> lastBox',
         scene |-> frame.scene, against |-> lastY, connection |-> connection]}

\* The worker is busy and Submit drops the frame: lastSentTime stays.
SubmitDrops ==
  /\ Analyzed
  /\ HasMotion \/ (InPostRoll /\ ~IsLightingShift)
  /\ RememberMotion
  /\ UNCHANGED <<lastSent, dispatched>>

-----------------------------------------------------------------------------
Gate == RateLimited \/ LightingShift \/ NothingToSend \/ SubmitAccepts \/ SubmitDrops

\* The camera has no more frames: the bound.
Quiet == pc = "read" /\ frame.number = MaxFrames /\ UNCHANGED vars

Next == Tick \/ LoopTop \/ Interrupted \/ ReadFails \/ ReadFrame \/ Gate \/ Quiet

Spec == Init /\ [][Next]_vars

-----------------------------------------------------------------------------
(* Correctness *)

\* Submitted frames are stamped at least MinInterval apart, whatever was dropped,
\* suppressed or interrupted in between: the load on the detectors is bounded.
DispatchSpacing == \A d, e \in dispatched :
  d.number < e.number => e.stamp - d.stamp >= MinInterval

\* A frame goes out as post-roll only within PostRoll of a motion frame, and with
\* the box of the last of them: post-roll frames do not prolong each other.
PostRollJustified == \A d \in dispatched : d.postRoll =>
  \E m \in motions : /\ m.number < d.number
                     /\ \A n \in motions : n.number < d.number => n.number <= m.number
                     /\ m.box = d.box
                     /\ d.stamp - m.stamp \in 0..PostRoll

\* What goes out as motion is a change against an earlier frame of the same
\* connection, outside of the zones however they were written, too small for a
\* lighting shift, and the box is its hull; and the gate misses no such change.
MotionJustified ==
  /\ \A d \in dispatched : ~d.postRoll =>
       LET changed == ChangedBlocks(excludeZones, Picture[d.scene], Picture[d.against.scene]) IN
       /\ d.against.connection = d.connection
       /\ IsMotion(excludeZones, changed)
       /\ IsBoxOf(d.box, changed)
  /\ pc = "gate" /\ hasLast =>
       (IsMotion(excludeZones, ChangedBlocks(excludeZones, Picture[frame.scene], Picture[lastY.scene]))
          => HasMotion)

=============================================================================
