------------------------ MODULE LegacyCapturerProofs ------------------------
(***************************************************************************)
(* Safety of LegacyCapturer for every schedule, set of scenes, number of    *)
(* connection attempts and number of faults.  Two facts make its properties *)
(* inductive: what the loop holds at its top and in its cleanup, where only  *)
(* a broken connection leads with ffmpeg alive (HeldInv), and what it is    *)
(* about to publish (PublishInv).                                           *)
(***************************************************************************)
EXTENDS LegacyCapturer, TLAPS

(* The schedule: three decisions against the window they are meant to describe *)

\* Config.IsWithinTimeFrame is the window from the beginning of the first second
\* to the end of the last, whether or not it spans midnight.
THEOREM GoWindow ==
  ASSUME NEW first \in TimesOfDay, NEW last \in TimesOfDay, NEW time \in TimesOfDay
  PROVE  IsWithinTimeFrame(first, last, time) <=> InWindow(first, last, time)
BY ScheduleAssumption, SMT DEF TimesOfDay, IsWithinTimeFrame, InWindow, Since

\* The Python capturer decides like the Go one except in the last second, of which
\* it has only the first instant: with END_TIME 23:59:59 it stops every midnight.
THEOREM LegacyLosesLastSecond ==
  ASSUME NEW first \in TimesOfDay, NEW last \in TimesOfDay, NEW time \in Instants
  PROVE  LegacyIsWithinTimeFrame(first, last, time)
           <=> /\ InWindow(first, last, time.sec)
               /\ ~(time.sec = last /\ time.frac = 1)
BY ScheduleAssumption, SMT
   DEF TimesOfDay, Instants, LegacyIsWithinTimeFrame, InWindow, Since

\* The monolith leaves the last hour out, so a window that begins and ends in the
\* same hour is empty, where for the capturers it lasts a second.
THEOREM MonolithIsHalfOpen ==
  ASSUME NEW first \in TimesOfDay, NEW last \in TimesOfDay, NEW hour \in TimesOfDay
  PROVE  IsActive(first, last, hour) <=> InWindow(first, last, hour) /\ hour # last
BY ScheduleAssumption, SMT DEF TimesOfDay, IsActive, InWindow, Since

-----------------------------------------------------------------------------
(* The loop *)

HeldInv ==
  /\ pipe # "none" <=> ffmpegRunning
  /\ pc = "top" => pipe # "alive" /\ link = "none"
  /\ pc \in {"except", "finally"} /\ pipe # "none" => link = "broken"
  /\ dying + One(link = "broken") <= faults

PublishInv == pc = "publish" => reference = frame

-----------------------------------------------------------------------------
LEMMA OneIsNat == ASSUME NEW b \in BOOLEAN PROVE One(b) \in Nat
BY DEF One

LEMMA TypeInit == Init => TypeOK
<1> SUFFICES ASSUME Init PROVE TypeOK
  OBVIOUS
<1>1. 0 \in TimesOfDay /\ 1 \in 1..Retries /\ 0 \in 0..MaxFaults
  BY ScheduleAssumption, CapturerAssumption DEF TimesOfDay
<1>2. now \in Instants
  BY <1>1 DEF Init, Instants
<1> QED
  BY <1>1, <1>2 DEF Init, TypeOK, MaybeScenes

LEMMA TypeStep == TypeOK /\ [Next]_vars => TypeOK'
<1> SUFFICES ASSUME TypeOK, [Next]_vars PROVE TypeOK'
  OBVIOUS
<1> USE CapturerAssumption DEF TypeOK, MaybeScenes, config, mqVars, pipeVars, filterVars, queueVars, leftVars, env
<1>1. CASE Top
  <2>1. One(pipe = "alive") \in Nat /\ One(link = "open") \in Nat
    BY OneIsNat
  <2>2. strays' \in Nat
    BY <1>1, <2>1 DEF Top
  <2>3. attempt' \in 1..Retries
    BY <1>1 DEF Top
  <2> QED
    BY <1>1, <2>2, <2>3 DEF Top
<1>2. CASE Connected
  BY <1>2 DEF Connected
<1>3. CASE ConnectFails
  BY <1>3 DEF ConnectFails
<1>4. CASE Except
  BY <1>4 DEF Except
<1>5. CASE Finally
  BY <1>5 DEF Finally
<1>6. CASE Stream
  <2>1. strays' \in Nat
    <3>1. One(pipe = "alive") \in Nat
      BY OneIsNat
    <3> QED
      BY <1>6, <3>1 DEF Stream
  <2>2. pipe' \in {"none", "alive", "ended", "told"} /\ ffmpegRunning' \in BOOLEAN
    BY <1>6 DEF Stream
  <2> QED
    BY <1>6, <2>1, <2>2 DEF Stream
<1>k. ASSUME Kill
      PROVE  /\ dying' \in Nat /\ faults' \in 0..MaxFaults
             /\ pipe' = "none" /\ ffmpegRunning' = FALSE
             /\ UNCHANGED <<strays, now, brokerUp>>
  BY <1>k DEF Kill
<1>7. CASE OutsideSchedule
  <2>1. CASE ffmpegRunning
    BY <1>7, <1>k, <2>1 DEF OutsideSchedule
  <2>2. CASE ~ffmpegRunning
    BY <1>7, <2>2 DEF OutsideSchedule
  <2> QED
    BY <2>1, <2>2
<1>8. CASE Wake
  BY <1>8 DEF Wake
<1>9. CASE ShortRead
  BY <1>9, <1>k DEF ShortRead
<1>10. CASE RateLimited
  BY <1>10 DEF RateLimited
<1>11. CASE Duplicate
  BY <1>11 DEF Duplicate
<1>12. CASE Encode
  BY <1>12 DEF Encode
<1>13. CASE EncodeFails
  BY <1>13 DEF EncodeFails
<1>14. CASE Publish
  BY <1>14 DEF Publish
<1>15. CASE PublishRaises
  BY <1>15 DEF PublishRaises
<1>16. CASE ReadFrame
  BY <1>16 DEF ReadFrame
<1>17. CASE StreamFails
  BY <1>17 DEF StreamFails
<1>18. CASE Tick
  <2>1. now' \in Instants
    <3>1. CASE now.frac = 0
      BY <1>18, <3>1 DEF Tick, Instants
    <3>2. CASE now.frac # 0
      <4>1. now.sec \in 0..(Day - 1)
        BY DEF Instants, TimesOfDay
      <4>2. (IF now.sec = Day - 1 THEN 0 ELSE now.sec + 1) \in TimesOfDay
        BY <4>1, ScheduleAssumption DEF TimesOfDay
      <4> QED
        BY <1>18, <3>2, <4>2 DEF Tick, Instants
    <3> QED
      BY <3>1, <3>2
  <2> QED
    BY <1>18, <2>1 DEF Tick
<1>19. CASE StreamEnds
  BY <1>19 DEF StreamEnds
<1>20. CASE ConnectionBreaks
  BY <1>20 DEF ConnectionBreaks
<1>21. CASE BrokerStops
  <2>1. link' \in {"none", "open", "broken"}
    BY <1>21 DEF BrokerStops
  <2>2. faults' \in 0..MaxFaults
    BY <1>21 DEF BrokerStops
  <2> QED
    BY <1>21, <2>1, <2>2 DEF BrokerStops
<1>22. CASE BrokerStarts
  BY <1>22 DEF BrokerStarts
<1>23. CASE FfmpegExits
  BY <1>23 DEF FfmpegExits
<1>24. CASE UNCHANGED vars
  BY <1>24 DEF vars
<1> QED
  BY <1>1, <1>2, <1>3, <1>4, <1>5, <1>6, <1>7, <1>8, <1>9, <1>10, <1>11, <1>12, <1>13, <1>14, <1>15, <1>16, <1>17, <1>18, <1>19, <1>20, <1>21, <1>22, <1>23, <1>24
  DEF Next, Loop, Filter, Environment

-----------------------------------------------------------------------------
(* What the loop holds: no round of it begins with an ffmpeg or a connection. *)

LEMMA StreamInit == Init => OneStream /\ HeldInv
BY DEF Init, OneStream, HeldInv, One

LEMMA StreamStep == TypeOK /\ OneStream /\ HeldInv /\ [Next]_vars => (OneStream /\ HeldInv)'
<1> SUFFICES ASSUME TypeOK, OneStream, HeldInv, [Next]_vars PROVE (OneStream /\ HeldInv)'
  OBVIOUS
<1> USE CapturerAssumption DEF TypeOK, OneStream, HeldInv, One, config, mqVars, pipeVars, filterVars, queueVars, leftVars, env
<1>1. CASE Top
  BY <1>1 DEF Top
<1>2. CASE Connected
  BY <1>2 DEF Connected
<1>3. CASE ConnectFails
  BY <1>3 DEF ConnectFails
<1>4. CASE Except
  BY <1>4 DEF Except
<1>5. CASE Finally
  BY <1>5 DEF Finally
<1>6. CASE Stream
  BY <1>6 DEF Stream
<1>7. CASE OutsideSchedule
  BY <1>7 DEF OutsideSchedule, Kill
<1>8. CASE Wake
  BY <1>8 DEF Wake
<1>9. CASE ShortRead
  BY <1>9 DEF ShortRead, Kill
<1>10. CASE RateLimited
  BY <1>10 DEF RateLimited
<1>11. CASE Duplicate
  BY <1>11 DEF Duplicate
<1>12. CASE Encode
  BY <1>12 DEF Encode
<1>13. CASE EncodeFails
  BY <1>13 DEF EncodeFails
<1>14. CASE Publish
  BY <1>14 DEF Publish
<1>15. CASE PublishRaises
  BY <1>15 DEF PublishRaises
<1>16. CASE ReadFrame
  BY <1>16 DEF ReadFrame
<1>17. CASE StreamFails
  BY <1>17 DEF StreamFails
<1>18. CASE Tick
  BY <1>18 DEF Tick
<1>19. CASE StreamEnds
  BY <1>19 DEF StreamEnds
<1>20. CASE ConnectionBreaks
  BY <1>20 DEF ConnectionBreaks
<1>21. CASE BrokerStops
  BY <1>21 DEF BrokerStops
<1>22. CASE BrokerStarts
  BY <1>22 DEF BrokerStarts
<1>23. CASE FfmpegExits
  BY <1>23 DEF FfmpegExits
<1>24. CASE UNCHANGED vars
  BY <1>24 DEF vars
<1> QED
  BY <1>1, <1>2, <1>3, <1>4, <1>5, <1>6, <1>7, <1>8, <1>9, <1>10, <1>11, <1>12, <1>13, <1>14, <1>15, <1>16, <1>17, <1>18, <1>19, <1>20, <1>21, <1>22, <1>23, <1>24
  DEF Next, Loop, Filter, Environment

-----------------------------------------------------------------------------
(* The reference of the filter. *)

LEMMA ReferenceInit == Init => ReferenceAccounted /\ PublishInv
BY DEF Init, ReferenceAccounted, PublishInv

LEMMA ReferenceStep ==
  ReferenceAccounted /\ PublishInv /\ [Next]_vars => (ReferenceAccounted /\ PublishInv)'
<1> SUFFICES ASSUME ReferenceAccounted, PublishInv, [Next]_vars
             PROVE  (ReferenceAccounted /\ PublishInv)'
  OBVIOUS
<1> USE DEF ReferenceAccounted, PublishInv, config, mqVars, pipeVars, filterVars, queueVars, leftVars, env
<1>1. CASE Top
  BY <1>1 DEF Top
<1>2. CASE Connected
  BY <1>2 DEF Connected
<1>3. CASE ConnectFails
  BY <1>3 DEF ConnectFails
<1>4. CASE Except
  BY <1>4 DEF Except
<1>5. CASE Finally
  BY <1>5 DEF Finally
<1>6. CASE Stream
  BY <1>6 DEF Stream
<1>7. CASE OutsideSchedule
  BY <1>7 DEF OutsideSchedule, Kill
<1>8. CASE Wake
  BY <1>8 DEF Wake
<1>9. CASE ShortRead
  BY <1>9 DEF ShortRead, Kill
<1>10. CASE RateLimited
  BY <1>10 DEF RateLimited
<1>11. CASE Duplicate
  BY <1>11 DEF Duplicate
<1>12. CASE Encode
  BY <1>12 DEF Encode
<1>13. CASE EncodeFails
  BY <1>13 DEF EncodeFails
<1>14. CASE Publish
  BY <1>14 DEF Publish
<1>15. CASE PublishRaises
  BY <1>15 DEF PublishRaises
<1>16. CASE ReadFrame
  BY <1>16 DEF ReadFrame
<1>17. CASE StreamFails
  BY <1>17 DEF StreamFails
<1>18. CASE Tick
  BY <1>18 DEF Tick
<1>19. CASE StreamEnds
  BY <1>19 DEF StreamEnds
<1>20. CASE ConnectionBreaks
  BY <1>20 DEF ConnectionBreaks
<1>21. CASE BrokerStops
  BY <1>21 DEF BrokerStops
<1>22. CASE BrokerStarts
  BY <1>22 DEF BrokerStarts
<1>23. CASE FfmpegExits
  BY <1>23 DEF FfmpegExits
<1>24. CASE UNCHANGED vars
  BY <1>24 DEF vars
<1> QED
  BY <1>1, <1>2, <1>3, <1>4, <1>5, <1>6, <1>7, <1>8, <1>9, <1>10, <1>11, <1>12, <1>13, <1>14, <1>15, <1>16, <1>17, <1>18, <1>19, <1>20, <1>21, <1>22, <1>23, <1>24
  DEF Next, Loop, Filter, Environment

-----------------------------------------------------------------------------
\* Every variable keeps its type: the attempts stay within their bound, and the
\* clock within the day.
THEOREM TypeCorrect == Spec => []TypeOK
BY TypeInit, TypeStep, PTL DEF Spec

\* The loop has one ffmpeg and one connection at most, no ffmpeg outside the schedule,
\* and leaves none behind that it has not told to stop; of those that it has, there are
\* never more alive than there were failures, in whatever order these came.
THEOREM OneStreamAlways == Spec => []OneStream
<1>1. Init => TypeOK /\ OneStream /\ HeldInv
  BY TypeInit, StreamInit
<1>2. (TypeOK /\ OneStream /\ HeldInv) /\ [Next]_vars => (TypeOK /\ OneStream /\ HeldInv)'
  BY TypeStep, StreamStep
<1> QED
  BY <1>1, <1>2, PTL DEF Spec

\* The reference of the filter is what was published last, what is being published,
\* or what an error lost.
THEOREM ReferenceAlwaysAccounted == Spec => []ReferenceAccounted
<1>1. Init => ReferenceAccounted /\ PublishInv
  BY ReferenceInit
<1>2. (ReferenceAccounted /\ PublishInv) /\ [Next]_vars => (ReferenceAccounted /\ PublishInv)'
  BY ReferenceStep
<1> QED
  BY <1>1, <1>2, PTL DEF Spec

\* At every time of day the three schedules decide alike, but for the last second
\* of the legacy capturer and the last hour of the monolith.
THEOREM SchedulesAgree == Spec => []ScheduleAgrees
<1>1. TypeOK => ScheduleAgrees
  <2> SUFFICES ASSUME TypeOK PROVE ScheduleAgrees
    OBVIOUS
  <2>1. start \in TimesOfDay /\ end \in TimesOfDay /\ now \in Instants /\ now.sec \in TimesOfDay
    BY DEF TypeOK, Instants
  <2> QED
    BY <2>1, GoWindow, LegacyLosesLastSecond, MonolithIsHalfOpen DEF ScheduleAgrees, Within
<1> QED
  BY TypeCorrect, <1>1, PTL

=============================================================================
