------------------------- MODULE FramePipelineProofs -------------------------
(***************************************************************************)
(* Safety of FramePipeline for every number of buffers, capacity of the     *)
(* channel, number of frames and number of disconnections.  Most steps of   *)
(* the program move no buffer; the proofs treat those together (Quiet) and  *)
(* look at the eleven others one by one.                                    *)
(***************************************************************************)
EXTENDS FramePipeline, SequenceTheorems, FiniteSetTheorems, TLAPS

Solo(S) == \A x, y \in S : x = y

\* OneOwner, with the places of the program where main and the worker hold a buffer.
OwnerInv ==
  /\ \A b \in Buffers : b \in pool \/ b \in mItem \/ b \in InChan \/ b \in wItem
  /\ pool \cap mItem = {} /\ pool \cap InChan = {} /\ pool \cap wItem = {}
  /\ mItem \cap InChan = {} /\ mItem \cap wItem = {} /\ InChan \cap wItem = {}
  /\ IsInjective(frameChan)
  /\ Solo(mItem) /\ Solo(wItem)
  /\ mItem # {} <=> mPc \in {"read", "gate", "submit"}
  /\ wItem # {} <=> wPc \in {"encode", "publish"}

\* The buffers whose frame has a sequence number: the submitted ones.
Submitted == wItem \cup InChan \cup (IF mPc = "submit" THEN mItem ELSE {})

\* The line from the camera to the broker is in order: published, with the worker, in
\* the channel from its head on, with main.
LineInv ==
  /\ \A i, j \in 1..Len(frameChan) : i < j => seq[frameChan[i]] < seq[frameChan[j]]
  /\ \A w \in wItem, i \in 1..Len(frameChan) : seq[w] < seq[frameChan[i]]
  /\ mPc = "submit" => \A m \in mItem : /\ seq[m] = seqCounter
                                        /\ \A b \in wItem \cup InChan : seq[b] < seqCounter
  /\ \A k \in 1..Len(published), b \in Submitted : published[k].seq < seq[b]
  /\ \A k, l \in 1..Len(published) : k < l => published[k].seq < published[l].seq

\* A sequence number names one frame, from its submission to the broker, and the
\* numbers follow the order of capture.
FrameInv ==
  /\ seqCounter <= captured
  /\ \A n \in 1..seqCounter : frameOf[n] \in 1..captured
  /\ \A m, n \in 1..seqCounter : m < n => frameOf[m] < frameOf[n]
  /\ mPc = "gate" => /\ seqCounter < captured
                     /\ \A m \in mItem : data[m] = captured
                     /\ \A n \in 1..seqCounter : frameOf[n] < captured
  /\ \A b \in Submitted : seq[b] \in 1..seqCounter /\ data[b] = frameOf[seq[b]]
  /\ wPc = "publish" => \A w \in wItem : payload = [seq |-> seq[w], frame |-> data[w]]
  /\ \A k \in 1..Len(published) : /\ published[k].seq \in 1..seqCounter
                                  /\ published[k].frame = frameOf[published[k].seq]

IInv == TypeOK /\ OwnerInv /\ LineInv /\ FrameInv /\ CleanShutdown

-----------------------------------------------------------------------------
(* The steps that move no buffer *)

Still ==
  /\ UNCHANGED <<mItem, wItem, payload, pool, frameChan, itemVars, counters, published>>
  /\ mPc \in {"read", "gate", "submit"} \/ mPc' \in {"read", "gate", "submit"} => mPc' = mPc
  /\ wPc \in {"encode", "publish"} \/ wPc' \in {"encode", "publish"} => wPc' = wPc

Moves == \/ AcquireFrame \/ ReadFrame \/ ReadFails \/ GateRejects \/ GateAccepts
         \/ Submit \/ SubmitDrops
         \/ WorkerTakes \/ EncodeSucceeds \/ EncodeFails \/ Publish

LEMMA StillOrMoves == [Next]_vars => Still \/ Moves
<1> SUFFICES ASSUME [Next]_vars, ~Moves PROVE Still
  OBVIOUS
<1> USE DEF Still, mainVars, workerVars, capturerVars, itemVars, brokerVars, counters, vars
<1>1. CASE Outer \/ Connected \/ ConnectFails \/ Inner
  BY <1>1 DEF Outer, Connected, ConnectFails, Inner
<1>2. CASE AfterInner \/ OutsideSchedule \/ Start \/ StartFails \/ Exit
  BY <1>2 DEF AfterInner, OutsideSchedule, Start, StartFails, Exit, StopCapturer, CloseBroker
<1>3. CASE WorkerCancelled \/ Sigterm \/ SignalStops \/ SignalCloses
  BY <1>3 DEF WorkerCancelled, Sigterm, SignalStops, SignalCloses, StopCapturer, CloseBroker
<1>4. CASE FfmpegDies \/ Disconnect \/ Terminated
  BY <1>4 DEF FfmpegDies, Disconnect, Terminated
<1>5. CASE UNCHANGED vars
  BY <1>5
<1> QED
  BY <1>1, <1>2, <1>3, <1>4, <1>5 DEF Next, Main, Worker, Signal, Environment, Moves

-----------------------------------------------------------------------------
(* Types *)

LEMMA TypeInit == Init => TypeOK
<1> SUFFICES ASSUME Init PROVE TypeOK
  OBVIOUS
<1>1. /\ payload \in Message \cup {NoMessage} /\ published \in Seq(Message)
      /\ frameChan \in Seq(Buffers) /\ Len(frameChan) <= ChanSize
  BY PipelineAssumption DEF Init
<1>2. /\ data \in [Buffers -> 0..MaxFrames] /\ seq \in [Buffers -> 0..MaxFrames]
      /\ frameOf \in [1..MaxFrames -> 0..MaxFrames]
  BY PipelineAssumption DEF Init
<1>3. captured \in 0..MaxFrames /\ seqCounter \in 0..MaxFrames /\ disconnects \in 0..MaxDisconnects
  BY PipelineAssumption DEF Init
<1>4. mItem \subseteq Buffers /\ wItem \subseteq Buffers /\ pool \subseteq Buffers
  BY DEF Init
<1> QED
  BY <1>1, <1>2, <1>3, <1>4, Zenon DEF Init, TypeOK

LEMMA TheOnly == ASSUME NEW S, NEW x \in S, Solo(S) PROVE The(S) = x /\ S = {x}
BY DEF The, Solo

LEMMA Held ==
  ASSUME TypeOK, OwnerInv
  PROVE  /\ mPc \in {"read", "gate", "submit"} => The(mItem) \in Buffers /\ mItem = {The(mItem)}
         /\ wPc \in {"encode", "publish"} => The(wItem) \in Buffers /\ wItem = {The(wItem)}
BY TheOnly DEF TypeOK, OwnerInv

LEMMA TypeStep == IInv /\ [Next]_vars => TypeOK'
<1> SUFFICES ASSUME IInv, [Next]_vars PROVE TypeOK'
  OBVIOUS
<1>0. TypeOK /\ OwnerInv /\ FrameInv
  BY DEF IInv
<1> USE PipelineAssumption, <1>0
    DEF TypeOK, mainVars, workerVars, capturerVars, itemVars, brokerVars, counters
<1>1. CASE Outer
  BY <1>1, ZenonT(40) DEF Outer
<1>2. CASE Connected
  BY <1>2 DEF Connected
<1>3. CASE ConnectFails
  BY <1>3, ZenonT(40) DEF ConnectFails
<1>4. CASE Inner
  BY <1>4 DEF Inner
<1>5. CASE AfterInner
  BY <1>5 DEF AfterInner, StopCapturer
<1>6. CASE OutsideSchedule
  BY <1>6 DEF OutsideSchedule, StopCapturer
<1>7. CASE Start
  BY <1>7 DEF Start
<1>8. CASE StartFails
  BY <1>8 DEF StartFails
<1>9. CASE Exit
  BY <1>9 DEF Exit, StopCapturer, CloseBroker
<1>10. CASE WorkerCancelled
  BY <1>10 DEF WorkerCancelled
<1>11. CASE Sigterm
  BY <1>11 DEF Sigterm
<1>12. CASE SignalStops
  BY <1>12, ZenonT(40) DEF SignalStops, StopCapturer
<1>13. CASE SignalCloses
  BY <1>13 DEF SignalCloses, CloseBroker
<1>14. CASE FfmpegDies
  <2>1. ffmpeg' \in BOOLEAN
    BY <1>14, Zenon DEF FfmpegDies
  <2>2. UNCHANGED <<mPc, mItem, wPc, wItem, payload, sPc, cancelled, running, pool, frameChan, data,
                    seq, captured, seqCounter, frameOf, ch, notified, locked, disconnects, published>>
    BY <1>14 DEF FfmpegDies
  <2> QED
    BY <2>1, <2>2
<1>15. CASE Disconnect
  BY <1>15 DEF Disconnect
<1>16. CASE Terminated
  BY <1>16 DEF Terminated, vars
<1>17. CASE AcquireFrame
  BY <1>17 DEF AcquireFrame
<1>18. CASE ReadFails
  BY <1>18 DEF ReadFails, StopCapturer
<1>19. CASE GateRejects
  BY <1>19 DEF GateRejects
<1>20. CASE SubmitDrops
  BY <1>20 DEF SubmitDrops
<1>21. CASE ReadFrame
  <2>1. The(mItem) \in Buffers /\ captured' \in 0..MaxFrames
    BY <1>21, Held DEF ReadFrame
  <2> QED
    BY <1>21, <2>1 DEF ReadFrame
<1>22. CASE GateAccepts
  <2>1. The(mItem) \in Buffers /\ seqCounter' \in 1..MaxFrames
    BY <1>22, Held DEF GateAccepts, FrameInv
  <2> QED
    BY <1>22, <2>1 DEF GateAccepts
<1>23. CASE Submit
  <2>1. The(mItem) \in Buffers
    BY <1>23, Held DEF Submit
  <2>2. frameChan' \in Seq(Buffers) /\ Len(frameChan') <= ChanSize
    BY <1>23, <2>1, AppendProperties DEF Submit
  <2> QED
    BY <1>23, <2>2 DEF Submit
<1>24. CASE WorkerTakes
  <2>1. Head(frameChan) \in Buffers /\ frameChan' \in Seq(Buffers) /\ Len(frameChan') <= ChanSize
    BY <1>24, HeadTailProperties DEF WorkerTakes
  <2> QED
    BY <1>24, <2>1, SMTT(30) DEF WorkerTakes
<1>25. CASE EncodeSucceeds
  <2>1. The(wItem) \in Submitted /\ The(wItem) \in Buffers
    BY <1>25, Held DEF EncodeSucceeds, Submitted
  <2>2. seq[The(wItem)] \in 1..MaxFrames /\ data[The(wItem)] \in 1..MaxFrames
    BY <2>1 DEF FrameInv
  <2>3. payload' \in Message
    BY <1>25, <2>2 DEF EncodeSucceeds, Message
  <2> QED
    BY <1>25, <2>3 DEF EncodeSucceeds
<1>26. CASE EncodeFails
  BY <1>26 DEF EncodeFails, WorkerReleases
<1>27. CASE Publish
  <2>1. The(wItem) \in Submitted /\ wItem = {The(wItem)} /\ The(wItem) \in Buffers
    BY <1>27, Held DEF Publish, Submitted
  <2>2. seq[The(wItem)] \in 1..MaxFrames /\ data[The(wItem)] \in 1..MaxFrames
    BY <2>1 DEF FrameInv
  <2>3. payload \in Message
    BY <1>27, <2>1, <2>2 DEF FrameInv, Publish, Message
  <2>4. published' \in Seq(Message)
    BY <1>27, <2>3, AppendProperties DEF Publish
  <2> QED
    BY <1>27, <2>4 DEF Publish, WorkerReleases
<1>28. CASE UNCHANGED vars
  BY <1>28 DEF vars
<1> QED
  BY <1>1, <1>2, <1>3, <1>4, <1>5, <1>6, <1>7, <1>8, <1>9, <1>10, <1>11, <1>12, <1>13, <1>14, <1>15, <1>16, <1>17, <1>18, <1>19, <1>20, <1>21, <1>22, <1>23, <1>24, <1>25, <1>26, <1>27, <1>28
     DEF Next, Main, Worker, Signal, Environment

-----------------------------------------------------------------------------
(* Who holds a buffer *)

LEMMA RangeIs ==
  ASSUME NEW S, NEW s \in Seq(S)
  PROVE  \A x : x \in Range(s) <=> \E i \in 1..Len(s) : s[i] = x
BY RangeEquality

LEMMA AppendRange ==
  ASSUME NEW S, NEW s \in Seq(S), NEW e \in S, IsInjective(s), e \notin Range(s)
  PROVE  Range(Append(s, e)) = Range(s) \cup {e} /\ IsInjective(Append(s, e))
<1> DEFINE t == Append(s, e)
<1>1. /\ t \in Seq(S) /\ Len(t) = Len(s) + 1 /\ t[Len(s) + 1] = e
      /\ \A i \in 1..Len(s) : t[i] = s[i]
      /\ Len(s) \in Nat
  BY AppendProperties, LenProperties
<1> HIDE DEF t
<1>2. /\ \A x : x \in Range(s) <=> \E i \in 1..Len(s) : s[i] = x
      /\ \A x : x \in Range(t) <=> \E i \in 1..Len(t) : t[i] = x
  BY <1>1, RangeIs
<1>3. \A i \in 1..Len(t) : i \in 1..Len(s) \/ i = Len(s) + 1
  BY <1>1
<1>4. 1..Len(s) \subseteq 1..Len(t) /\ Len(s) + 1 \in 1..Len(t)
  BY <1>1
<1>5. \A x : x \in Range(t) <=> x \in Range(s) \cup {e}
  BY <1>1, <1>2, <1>3, <1>4
<1>6. \A i, j \in 1..Len(t) : t[i] = t[j] => i = j
  <2>1. \A i, j \in 1..Len(s) : s[i] = s[j] => i = j
    BY LenProperties DEF IsInjective
  <2>2. \A i \in 1..Len(s) : s[i] # e
    BY <1>2
  <2> QED
    BY <1>1, <1>3, <2>1, <2>2
<1>7. IsInjective(t) /\ Range(t) = Range(s) \cup {e}
  BY <1>1, <1>5, <1>6, LenProperties DEF IsInjective
<1> QED
  BY <1>7 DEF t

LEMMA TailRange ==
  ASSUME NEW S, NEW s \in Seq(S), s # <<>>, IsInjective(s)
  PROVE  /\ Head(s) \in Range(s)
         /\ Range(Tail(s)) = Range(s) \ {Head(s)}
         /\ IsInjective(Tail(s))
<1> DEFINE t == Tail(s)
<1>1. /\ t \in Seq(S) /\ Len(t) = Len(s) - 1
      /\ \A i \in 1..Len(t) : t[i] = s[i + 1]
      /\ Len(s) \in Nat \ {0} /\ Head(s) = s[1]
  BY HeadTailProperties, EmptySeq
<1> HIDE DEF t
<1>2. /\ \A x : x \in Range(s) <=> \E i \in 1..Len(s) : s[i] = x
      /\ \A x : x \in Range(t) <=> \E i \in 1..Len(t) : t[i] = x
  BY <1>1, RangeIs
<1>3. \A i, j \in 1..Len(s) : s[i] = s[j] => i = j
  BY LenProperties DEF IsInjective
<1>4. \A i, j \in 1..Len(t) : t[i] = t[j] => i = j
  BY <1>1, <1>3
<1>5. ASSUME NEW x PROVE x \in Range(t) <=> x \in Range(s) \ {Head(s)}
  <2>1. ASSUME NEW i \in 1..Len(t), t[i] = x PROVE x \in Range(s) \ {Head(s)}
    <3>1. i + 1 \in 1..Len(s) /\ 1 \in 1..Len(s) /\ s[i + 1] = x
      BY <1>1, <2>1
    <3> QED
      BY <1>1, <1>2, <1>3, <3>1
  <2>2. ASSUME NEW i \in 1..Len(s), s[i] = x, x # Head(s) PROVE x \in Range(t)
    <3>1. i - 1 \in 1..Len(t) /\ t[i - 1] = x
      BY <1>1, <2>2
    <3> QED
      BY <1>2, <3>1
  <2> QED
    BY <1>2, <2>1, <2>2
<1>6. IsInjective(t) /\ Range(t) = Range(s) \ {Head(s)}
  BY <1>1, <1>4, <1>5, LenProperties DEF IsInjective
<1>7. Head(s) \in Range(s)
  BY <1>1, <1>2
<1> QED
  BY <1>6, <1>7 DEF t

LEMMA OwnerStep == IInv /\ [Next]_vars => OwnerInv'
<1> SUFFICES ASSUME IInv, [Next]_vars PROVE OwnerInv'
  OBVIOUS
<1>0. TypeOK /\ OwnerInv
  BY DEF IInv
<1> USE DEF mainVars, workerVars, InChan
<1>1. CASE Still
  BY <1>0, <1>1 DEF Still, OwnerInv
<1>2. CASE AcquireFrame
  BY <1>0, <1>2 DEF AcquireFrame, OwnerInv, Solo
<1>3. CASE ReadFrame
  BY <1>0, <1>3 DEF ReadFrame, OwnerInv
<1>4. CASE ReadFails
  BY <1>0, <1>4 DEF ReadFails, OwnerInv, Solo
<1>5. CASE GateRejects
  BY <1>0, <1>5 DEF GateRejects, OwnerInv, Solo
<1>6. CASE GateAccepts
  BY <1>0, <1>6 DEF GateAccepts, OwnerInv
<1>7. CASE Submit
  <2>1. mItem = {The(mItem)} /\ The(mItem) \in Buffers /\ The(mItem) \notin InChan
    BY <1>0, <1>7, Held DEF Submit, OwnerInv
  <2>2. InChan' = InChan \cup mItem /\ IsInjective(frameChan')
    <3>1. frameChan' = Append(frameChan, The(mItem)) /\ frameChan \in Seq(Buffers) /\ IsInjective(frameChan)
      BY <1>0, <1>7 DEF Submit, OwnerInv, TypeOK
    <3> QED
      BY <2>1, <3>1, AppendRange
  <2> QED
    BY <1>0, <1>7, <2>2 DEF Submit, OwnerInv, Solo
<1>8. CASE SubmitDrops
  BY <1>0, <1>8 DEF SubmitDrops, OwnerInv, Solo
<1>9. CASE WorkerTakes
  <2>1. /\ Head(frameChan) \in InChan /\ InChan' = InChan \ {Head(frameChan)}
        /\ IsInjective(frameChan') /\ InChan \subseteq Buffers
    BY <1>0, <1>9, TailRange, RangeOfSeq DEF WorkerTakes, OwnerInv, TypeOK
  <2> QED
    BY <1>0, <1>9, <2>1 DEF WorkerTakes, OwnerInv, Solo
<1>10. CASE EncodeSucceeds
  BY <1>0, <1>10 DEF EncodeSucceeds, OwnerInv
<1>11. CASE EncodeFails
  BY <1>0, <1>11 DEF EncodeFails, WorkerReleases, OwnerInv, Solo
<1>12. CASE Publish
  BY <1>0, <1>12 DEF Publish, WorkerReleases, OwnerInv, Solo
<1> QED
  BY <1>1, <1>2, <1>3, <1>4, <1>5, <1>6, <1>7, <1>8, <1>9, <1>10, <1>11, <1>12, StillOrMoves
     DEF Moves

-----------------------------------------------------------------------------
(* The order of the line *)

LEMMA Typed ==
  ASSUME TypeOK
  PROVE  /\ Submitted \subseteq Buffers /\ InChan \subseteq Buffers
         /\ \A i \in 1..Len(frameChan) : frameChan[i] \in InChan
         /\ \A b \in InChan : \E i \in 1..Len(frameChan) : frameChan[i] = b
         /\ Len(frameChan) \in Nat /\ Len(published) \in Nat
         /\ captured \in Nat /\ seqCounter \in Nat
         /\ \A b \in Buffers : seq[b] \in Nat /\ data[b] \in Nat
         /\ \A k \in 1..Len(published) : published[k].seq \in Nat
<1>1. /\ InChan \subseteq Buffers
      /\ \A b : b \in InChan <=> \E i \in 1..Len(frameChan) : frameChan[i] = b
  BY RangeOfSeq, RangeIs DEF TypeOK, InChan
<1>2. \A k \in 1..Len(published) : published[k].seq \in Nat
  <2>1. ASSUME NEW k \in 1..Len(published) PROVE published[k] \in Message
    BY ElementOfSeq DEF TypeOK
  <2> QED
    BY <2>1, PipelineAssumption DEF Message
<1>3. Submitted \subseteq Buffers
  BY <1>1 DEF TypeOK, Submitted
<1>4. Len(frameChan) \in Nat /\ Len(published) \in Nat
  BY DEF TypeOK
<1> QED
  BY <1>1, <1>2, <1>3, <1>4, PipelineAssumption DEF TypeOK

\* Which buffers an action adds to the submitted ones, or takes from them.
LEMMA SubmittedMoves ==
  ASSUME TypeOK, OwnerInv, Moves
  PROVE  /\ ~GateAccepts => Submitted' \subseteq Submitted
         /\ GateAccepts => Submitted' = Submitted \cup mItem
         /\ mPc # "submit" => mItem \cap Submitted = {}
<1>1. mPc # "submit" => mItem \cap Submitted = {}
  BY DEF OwnerInv, Submitted
<1>2. CASE AcquireFrame \/ ReadFrame \/ ReadFails \/ GateRejects
  BY <1>1, <1>2 DEF AcquireFrame, ReadFrame, ReadFails, GateRejects, GateAccepts, Submitted, InChan, workerVars
<1>3. CASE GateAccepts
  BY <1>1, <1>3 DEF GateAccepts, Submitted, InChan, workerVars
<1>4. CASE SubmitDrops
  BY <1>1, <1>4 DEF SubmitDrops, GateAccepts, Submitted, InChan, workerVars
<1>5. CASE Submit
  <2>1. /\ mItem = {The(mItem)} /\ The(mItem) \in Buffers /\ The(mItem) \notin InChan
        /\ frameChan' = Append(frameChan, The(mItem)) /\ frameChan \in Seq(Buffers)
        /\ IsInjective(frameChan)
    BY <1>5, Held DEF Submit, OwnerInv, TypeOK
  <2>2. InChan' = InChan \cup mItem
    BY <2>1, AppendRange DEF InChan
  <2> QED
    BY <1>1, <1>5, <2>2 DEF Submit, GateAccepts, Submitted, workerVars
<1>6. CASE WorkerTakes
  <2>1. Head(frameChan) \in InChan /\ InChan' \subseteq InChan
    BY <1>6, TailRange DEF WorkerTakes, OwnerInv, TypeOK, InChan
  <2> QED
    BY <1>1, <1>6, <2>1 DEF WorkerTakes, GateAccepts, Submitted, mainVars
<1>7. CASE EncodeSucceeds \/ EncodeFails \/ Publish
  BY <1>1, <1>7 DEF EncodeSucceeds, EncodeFails, Publish, WorkerReleases, GateAccepts, Submitted, InChan, mainVars
<1> QED
  BY <1>2, <1>3, <1>4, <1>5, <1>6, <1>7 DEF Moves

LEMMA LineStep == IInv /\ [Next]_vars => LineInv'
<1> SUFFICES ASSUME IInv, [Next]_vars PROVE LineInv'
  OBVIOUS
<1>0. TypeOK /\ OwnerInv /\ LineInv /\ FrameInv
  BY DEF IInv
<1> USE <1>0, Typed DEF mainVars, workerVars, itemVars, counters
<1>1. CASE Still
  <2>1. Submitted' = Submitted
    BY <1>1 DEF Still, Submitted, InChan
  <2> QED
    BY <1>1, <2>1 DEF Still, LineInv, InChan
<1>2. CASE AcquireFrame \/ ReadFrame \/ ReadFails \/ GateRejects
  <2>1. /\ Submitted' \subseteq Submitted /\ mPc' # "submit"
        /\ UNCHANGED <<seq, frameChan, wItem, published>>
    BY <1>2, SubmittedMoves
       DEF Moves, AcquireFrame, ReadFrame, ReadFails, GateRejects, GateAccepts
  <2> QED
    BY <2>1 DEF LineInv
<1>3. CASE GateAccepts
  <2>1. PICK m \in Buffers : mItem = {m} /\ The(mItem) = m
    BY <1>3, Held DEF GateAccepts
  <2>2. /\ m \notin Submitted /\ Submitted' = Submitted \cup {m}
        /\ seq' = [seq EXCEPT ![m] = seqCounter + 1] /\ seqCounter' = seqCounter + 1
        /\ UNCHANGED <<frameChan, mItem, wItem, published, InChan>> /\ mPc' = "submit"
    BY <1>3, <2>1, SubmittedMoves DEF Moves, GateAccepts, InChan
  <2>3. seq'[m] = seqCounter + 1 /\ \A b \in Submitted : seq'[b] = seq[b] /\ seq[b] <= seqCounter
    BY <2>1, <2>2 DEF TypeOK, FrameInv
  <2>4. InChan \subseteq Submitted /\ wItem \subseteq Submitted
    BY DEF Submitted
  <2>5. \A k \in 1..Len(published) : published[k].seq <= seqCounter
    BY DEF FrameInv
  <2>6. /\ \A i \in 1..Len(frameChan) : frameChan[i] \in Submitted
        /\ \A b \in wItem \cup InChan : seq'[b] < seqCounter + 1
    BY <2>3, <2>4
  <2>7. \A k \in 1..Len(published), b \in Submitted' : published[k].seq < seq'[b]
    BY <2>2, <2>3, <2>5 DEF LineInv
  <2>8. /\ \A i, j \in 1..Len(frameChan) : i < j => seq'[frameChan[i]] < seq'[frameChan[j]]
        /\ \A w \in wItem, i \in 1..Len(frameChan) : seq'[w] < seq'[frameChan[i]]
    BY <2>3, <2>4, <2>6 DEF LineInv
  <2> QED
    BY <2>1, <2>2, <2>3, <2>6, <2>7, <2>8 DEF LineInv
<1>4. CASE Submit
  <2>1. PICK m \in Buffers : mItem = {m} /\ The(mItem) = m
    BY <1>4, Held DEF Submit
  <2>2. /\ frameChan' = Append(frameChan, m) /\ Submitted' \subseteq Submitted
        /\ UNCHANGED <<seq, wItem, published>> /\ mPc = "submit" /\ mPc' # "submit"
    BY <1>4, <2>1, SubmittedMoves DEF Moves, Submit, GateAccepts
  <2>3. /\ Len(frameChan') = Len(frameChan) + 1 /\ frameChan'[Len(frameChan) + 1] = m
        /\ \A i \in 1..Len(frameChan) : frameChan'[i] = frameChan[i]
    BY <2>1, <2>2, AppendProperties DEF TypeOK
  <2>4. \A b \in wItem \cup InChan : seq[b] < seq[m]
    BY <2>1, <2>2 DEF LineInv
  <2>5. /\ \A i \in 1..Len(frameChan') : i \in 1..Len(frameChan) \/ i = Len(frameChan) + 1
        /\ \A i \in 1..Len(frameChan) : frameChan[i] \in InChan
    BY <2>3
  <2> QED
    <3>1. Len(frameChan) \in Nat
      BY LenProperties DEF TypeOK
    <3>2. \A i \in 1..Len(frameChan) : seq[frameChan[i]] < seq[m]
      BY <2>4, <2>5
    <3>3. \A i, j \in 1..Len(frameChan') : i < j => seq'[frameChan'[i]] < seq'[frameChan'[j]]
      <4>1. ASSUME NEW i \in 1..Len(frameChan'), NEW j \in 1..Len(frameChan'), i < j
            PROVE  seq[frameChan'[i]] < seq[frameChan'[j]]
        <5>1. i \in 1..Len(frameChan) /\ frameChan'[i] = frameChan[i]
          BY <2>3, <3>1, <4>1
        <5>2. CASE j \in 1..Len(frameChan)
          BY <2>3, <4>1, <5>1, <5>2 DEF LineInv
        <5>3. CASE j = Len(frameChan) + 1
          BY <2>3, <3>2, <5>1, <5>3
        <5> QED
          BY <2>5, <5>2, <5>3
      <4> QED
        BY <2>2, <4>1
    <3>4. \A w \in wItem, i \in 1..Len(frameChan') : seq[w] < seq[frameChan'[i]]
      <4>1. ASSUME NEW w \in wItem, NEW i \in 1..Len(frameChan') PROVE seq[w] < seq[frameChan'[i]]
        <5>1. CASE i \in 1..Len(frameChan)
          BY <2>3, <5>1 DEF LineInv
        <5>2. CASE i = Len(frameChan) + 1
          BY <2>3, <2>4, <5>2
        <5> QED
          BY <2>5, <5>1, <5>2
      <4> QED
        BY <4>1
    <3>5. /\ \A k \in 1..Len(published), b \in Submitted' : published[k].seq < seq[b]
          /\ \A k, l \in 1..Len(published) : k < l => published[k].seq < published[l].seq
      BY <2>2 DEF LineInv
    <3> QED
      BY <2>2, <3>3, <3>4, <3>5 DEF LineInv
<1>5. CASE SubmitDrops
  <2>1. /\ Submitted' \subseteq Submitted /\ mPc' # "submit"
        /\ UNCHANGED <<seq, frameChan, wItem, published>>
    BY <1>5, SubmittedMoves DEF Moves, SubmitDrops, GateAccepts
  <2> QED
    BY <2>1 DEF LineInv
<1>6. CASE WorkerTakes
  <2>1. /\ Len(frameChan') = Len(frameChan) - 1
        /\ \A i \in 1..Len(frameChan') : frameChan'[i] = frameChan[i + 1]
        /\ Len(frameChan) \in Nat \ {0} /\ Head(frameChan) = frameChan[1]
    BY <1>6, HeadTailProperties, EmptySeq DEF WorkerTakes, TypeOK
  <2>2. /\ Submitted' \subseteq Submitted /\ UNCHANGED <<seq, published, mPc, mItem, seqCounter>>
        /\ wItem' = {frameChan[1]} /\ frameChan[1] \in InChan
    BY <1>6, <2>1, SubmittedMoves DEF Moves, WorkerTakes, GateAccepts
  <2>3. InChan' \subseteq InChan
    BY <1>6, TailRange DEF WorkerTakes, OwnerInv, TypeOK, InChan
  <2>4. /\ \A i \in 1..Len(frameChan') : i + 1 \in 1..Len(frameChan) /\ 1 < i + 1
        /\ 1 \in 1..Len(frameChan)
    BY <2>1
  <2>5. /\ \A i, j \in 1..Len(frameChan') : i < j => seq[frameChan'[i]] < seq[frameChan'[j]]
        /\ \A i \in 1..Len(frameChan') : seq[frameChan[1]] < seq[frameChan'[i]]
    <3> DEFINE s == frameChan
               t == frameChan'
    <3>1. \A i, j \in 1..Len(s) : i < j => seq[s[i]] < seq[s[j]]
      BY DEF LineInv
    <3>2. /\ \A i \in 1..Len(t) : i + 1 \in 1..Len(s) /\ 1 < i + 1 /\ t[i] = s[i + 1]
          /\ \A i, j \in 1..Len(t) : i < j => i + 1 < j + 1
          /\ 1 \in 1..Len(s)
      BY <2>1, <2>4
    <3> HIDE DEF s, t
    <3>3. /\ \A i, j \in 1..Len(t) : i < j => seq[t[i]] < seq[t[j]]
          /\ \A i \in 1..Len(t) : seq[s[1]] < seq[t[i]]
      BY <3>1, <3>2
    <3> QED
      BY <3>3 DEF s, t
  <2> QED
    BY <2>2, <2>3, <2>5 DEF LineInv
<1>7. CASE EncodeSucceeds \/ EncodeFails
  <2>1. /\ Submitted' \subseteq Submitted /\ wItem' \subseteq wItem
        /\ UNCHANGED <<seq, frameChan, published, mPc, mItem, seqCounter, InChan>>
    BY <1>7, SubmittedMoves
       DEF Moves, EncodeSucceeds, EncodeFails, WorkerReleases, GateAccepts, InChan
  <2> QED
    BY <2>1 DEF LineInv
<1>8. CASE Publish
  <2>1. PICK w \in Buffers : wItem = {w}
    BY <1>8, Held DEF Publish
  <2>2. /\ Submitted' \subseteq Submitted /\ wItem' = {} /\ w \in Submitted /\ w \notin Submitted'
        /\ UNCHANGED <<seq, frameChan, mPc, mItem, seqCounter, InChan>>
        /\ payload.seq = seq[w]
        /\ published' \in {published, Append(published, payload)}
    <3>1. w \in Submitted /\ payload.seq = seq[w]
      BY <1>8, <2>1 DEF Publish, Submitted, FrameInv
    <3>2. w \notin Submitted'
      BY <1>8, <2>1 DEF Publish, WorkerReleases, Submitted, OwnerInv, InChan
    <3> QED
      BY <1>8, <3>1, <3>2, SubmittedMoves DEF Moves, Publish, WorkerReleases, GateAccepts, InChan
  <2>3. \A b \in Submitted' : seq[w] < seq[b]
    BY <2>1, <2>2 DEF LineInv, Submitted
  <2>4. ASSUME published' = Append(published, payload)
        PROVE  /\ Len(published') = Len(published) + 1 /\ published'[Len(published) + 1] = payload
               /\ \A k \in 1..Len(published) : published'[k] = published[k]
    BY <2>4 DEF TypeOK
  <2>5. CASE published' = published
    BY <2>2, <2>5 DEF LineInv
  <2>6. CASE published' = Append(published, payload)
    <3>1. /\ Len(published') = Len(published) + 1 /\ published'[Len(published) + 1] = payload
          /\ \A k \in 1..Len(published) : published'[k] = published[k]
      BY <2>4, <2>6
    <3>2. \A k \in 1..Len(published') : k \in 1..Len(published) \/ k = Len(published) + 1
      BY <3>1
    <3>3. \A k \in 1..Len(published) : published[k].seq < seq[w]
      BY <2>2 DEF LineInv
    <3>4. \A k \in 1..Len(published'), b \in Submitted' : published'[k].seq < seq[b]
      BY <2>2, <2>3, <3>1, <3>2 DEF LineInv
    <3>5. \A k, l \in 1..Len(published') : k < l => published'[k].seq < published'[l].seq
      BY <2>2, <3>1, <3>2, <3>3 DEF LineInv
    <3> QED
      BY <2>2, <3>4, <3>5 DEF LineInv
  <2> QED
    BY <2>2, <2>5, <2>6
<1> QED
  BY <1>1, <1>2, <1>3, <1>4, <1>5, <1>6, <1>7, <1>8, StillOrMoves DEF Moves

-----------------------------------------------------------------------------
(* The frames behind the sequence numbers *)

LEMMA FrameStep == IInv /\ [Next]_vars => FrameInv'
<1> SUFFICES ASSUME IInv, [Next]_vars PROVE FrameInv'
  OBVIOUS
<1>0. TypeOK /\ OwnerInv /\ LineInv /\ FrameInv
  BY DEF IInv
<1> USE <1>0, Typed DEF mainVars, workerVars, itemVars, counters
<1>1. CASE Still
  <2>1. Submitted' = Submitted
    BY <1>1 DEF Still, Submitted, InChan
  <2> QED
    BY <1>1, <2>1 DEF Still, FrameInv
<1>2. CASE AcquireFrame \/ ReadFails \/ GateRejects \/ Submit \/ SubmitDrops
  <2>1. /\ Submitted' \subseteq Submitted /\ mPc' # "gate"
        /\ UNCHANGED <<data, seq, captured, seqCounter, frameOf, published, wPc, wItem, payload>>
    BY <1>2, SubmittedMoves
       DEF Moves, AcquireFrame, ReadFails, GateRejects, Submit, SubmitDrops, GateAccepts
  <2> QED
    BY <2>1 DEF FrameInv
<1>3. CASE ReadFrame
  <2>1. PICK m \in Buffers : mItem = {m} /\ The(mItem) = m
    BY <1>3, Held DEF ReadFrame
  <2>2. /\ m \notin Submitted /\ Submitted' \subseteq Submitted /\ m \notin wItem
        /\ captured' = captured + 1
        /\ data' = [data EXCEPT ![m] = captured + 1]
        /\ UNCHANGED <<seq, seqCounter, frameOf, published, wPc, wItem, mItem, payload>>
    BY <1>3, <2>1, SubmittedMoves DEF Moves, ReadFrame, GateAccepts, OwnerInv
  <2>3. data'[m] = captured + 1 /\ \A b \in Submitted \cup wItem : data'[b] = data[b]
    BY <2>1, <2>2 DEF TypeOK
  <2>4. \A n \in 1..seqCounter : frameOf[n] \in 1..captured' /\ frameOf[n] < captured'
    BY <2>2 DEF FrameInv
  <2> QED
    BY <2>1, <2>2, <2>3, <2>4, SMTT(30) DEF FrameInv
<1>4. CASE GateAccepts
  <2>1. PICK m \in Buffers : mItem = {m} /\ The(mItem) = m
    BY <1>4, Held DEF GateAccepts
  <2>2. /\ m \notin Submitted /\ Submitted' = Submitted \cup {m} /\ m \notin wItem
        /\ seq' = [seq EXCEPT ![m] = seqCounter + 1] /\ seqCounter' = seqCounter + 1
        /\ frameOf' = [frameOf EXCEPT ![seqCounter + 1] = data[m]]
        /\ mPc = "gate" /\ mPc' = "submit"
        /\ UNCHANGED <<data, captured, published, wPc, wItem, payload>>
    BY <1>4, <2>1, SubmittedMoves DEF Moves, GateAccepts, OwnerInv
  <2>3. /\ seqCounter < captured /\ captured <= MaxFrames /\ data[m] = captured
        /\ \A n \in 1..seqCounter : frameOf[n] \in 1..captured /\ frameOf[n] < captured
    BY <2>1, <2>2, PipelineAssumption DEF FrameInv, TypeOK
  <2>4. /\ seqCounter + 1 \in 1..MaxFrames
        /\ \A n \in 1..seqCounter' : n \in 1..seqCounter \/ n = seqCounter + 1
        /\ 1..seqCounter \subseteq 1..MaxFrames /\ 1..seqCounter \subseteq 1..seqCounter'
        /\ seqCounter + 1 \in 1..seqCounter'
    BY <2>2, <2>3, PipelineAssumption
  <2>5. /\ frameOf'[seqCounter + 1] = captured
        /\ \A n \in 1..seqCounter : frameOf'[n] = frameOf[n]
    BY <2>2, <2>3, <2>4 DEF TypeOK
  <2>6. /\ seq'[m] = seqCounter + 1
        /\ \A b \in Submitted \cup wItem : seq'[b] = seq[b]
    BY <2>1, <2>2 DEF TypeOK
  <2>7. seqCounter' <= captured' /\ \A n \in 1..seqCounter' : frameOf'[n] \in 1..captured'
    BY <2>2, <2>3, <2>4, <2>5
  <2>8. \A k, n \in 1..seqCounter' : k < n => frameOf'[k] < frameOf'[n]
    BY <2>2, <2>3, <2>4, <2>5 DEF FrameInv
  <2>9. \A b \in Submitted' : seq'[b] \in 1..seqCounter' /\ data'[b] = frameOf'[seq'[b]]
    BY <2>2, <2>3, <2>4, <2>5, <2>6 DEF FrameInv
  <2>10. /\ wPc' = "publish" => \A w \in wItem' : payload' = [seq |-> seq'[w], frame |-> data'[w]]
         /\ \A k \in 1..Len(published') : /\ published'[k].seq \in 1..seqCounter'
                                          /\ published'[k].frame = frameOf'[published'[k].seq]
    BY <2>2, <2>4, <2>5, <2>6 DEF FrameInv
  <2> QED
    BY <2>2, <2>7, <2>8, <2>9, <2>10 DEF FrameInv
<1>5. CASE WorkerTakes \/ EncodeFails
  <2>1. /\ Submitted' \subseteq Submitted /\ wPc' # "publish"
        /\ UNCHANGED <<data, seq, captured, seqCounter, frameOf, published, mPc, mItem>>
    BY <1>5, SubmittedMoves DEF Moves, WorkerTakes, EncodeFails, WorkerReleases, GateAccepts
  <2> QED
    BY <2>1 DEF FrameInv
<1>6. CASE EncodeSucceeds
  <2>1. PICK w \in Buffers : wItem = {w} /\ The(wItem) = w
    BY <1>6, Held DEF EncodeSucceeds
  <2>2. /\ Submitted' \subseteq Submitted /\ wItem' = {w}
        /\ payload' = [seq |-> seq[w], frame |-> data[w]]
        /\ UNCHANGED <<data, seq, captured, seqCounter, frameOf, published, mPc, mItem>>
    BY <1>6, <2>1, SubmittedMoves DEF Moves, EncodeSucceeds, GateAccepts
  <2> QED
    BY <2>2 DEF FrameInv
<1>7. CASE Publish
  <2>1. PICK w \in Buffers : wItem = {w}
    BY <1>7, Held DEF Publish
  <2>2. /\ Submitted' \subseteq Submitted /\ wPc' # "publish"
        /\ UNCHANGED <<data, seq, captured, seqCounter, frameOf, mPc, mItem>>
        /\ published' \in {published, Append(published, payload)}
    BY <1>7, SubmittedMoves DEF Moves, Publish, WorkerReleases, GateAccepts
  <2>3. payload.seq \in 1..seqCounter /\ payload.frame = frameOf[payload.seq]
    BY <1>7, <2>1 DEF Publish, Submitted, FrameInv
  <2>4. \A k \in 1..Len(published') : /\ published'[k].seq \in 1..seqCounter
                                      /\ published'[k].frame = frameOf[published'[k].seq]
    <3>1. CASE published' = published
      BY <3>1 DEF FrameInv
    <3>2. CASE published' = Append(published, payload)
      <4>1. /\ Len(published') = Len(published) + 1 /\ published'[Len(published) + 1] = payload
            /\ \A k \in 1..Len(published) : published'[k] = published[k]
        BY <3>2 DEF TypeOK
      <4>2. \A k \in 1..Len(published') : k \in 1..Len(published) \/ k = Len(published) + 1
        BY <4>1
      <4> QED
        BY <2>3, <4>1, <4>2 DEF FrameInv
    <3> QED
      BY <2>2, <3>1, <3>2
  <2> QED
    BY <2>2, <2>4 DEF FrameInv
<1> QED
  BY <1>1, <1>2, <1>3, <1>4, <1>5, <1>6, <1>7, StillOrMoves DEF Moves

\* Nothing runs after main has returned.
LEMMA ShutdownStep == CleanShutdown /\ [Next]_vars => CleanShutdown'
<1> SUFFICES ASSUME CleanShutdown, [Next]_vars PROVE CleanShutdown'
  OBVIOUS
<1>1. CASE mPc = "done"
  <2>1. UNCHANGED vars
    BY <1>1 DEF Next, Main, Worker, Signal, Environment, Alive, Terminated, Outer, Connected, ConnectFails, Inner,
       AfterInner, OutsideSchedule, Start, StartFails, AcquireFrame, ReadFails, GateRejects,
       GateAccepts, Submit, SubmitDrops, Exit
  <2> QED
    BY <2>1 DEF vars, mainVars, capturerVars, brokerVars, CleanShutdown
<1>2. CASE mPc # "done" /\ mPc' = "done"
  <2>1. Exit
    BY <1>2 DEF Next, Main, Worker, Signal, Environment, Terminated, vars, mainVars, Outer, Connected,
       ConnectFails, Inner, AfterInner, OutsideSchedule, Start, StartFails, AcquireFrame, ReadFrame,
       ReadFails, GateRejects, GateAccepts, Submit, SubmitDrops, WorkerTakes, WorkerCancelled,
       EncodeSucceeds, EncodeFails, Publish, SignalStops, SignalCloses, Sigterm, FfmpegDies, Disconnect
  <2> QED
    BY <2>1 DEF Exit, StopCapturer, CloseBroker, CleanShutdown
<1> QED
  BY <1>1, <1>2 DEF CleanShutdown

LEMMA InvInit == Init => IInv
<1> SUFFICES ASSUME Init PROVE IInv
  OBVIOUS
<1>1. TypeOK
  BY TypeInit
<1>2. InChan = {} /\ IsInjective(frameChan)
  BY DEF Init, InChan, Range, IsInjective
<1>3. OwnerInv
  BY <1>2 DEF Init, OwnerInv, Solo
<1>4. LineInv /\ FrameInv
  BY <1>2 DEF Init, LineInv, FrameInv, Submitted
<1>5. CleanShutdown
  BY DEF Init, CleanShutdown
<1> QED
  BY <1>1, <1>3, <1>4, <1>5 DEF IInv

\* The inductive invariant of the buffers, the line and the frames.
LEMMA Invariant == Spec => []IInv
<1>1. IInv /\ [Next]_vars => IInv'
  BY TypeStep, OwnerStep, LineStep, FrameStep, ShutdownStep DEF IInv
<1> QED
  BY <1>1, InvInit, PTL DEF Spec

-----------------------------------------------------------------------------
(* From the invariant to the properties *)

LEMMA SoloIsOne == ASSUME NEW S, Solo(S) PROVE IsFiniteSet(S) /\ Cardinality(S) <= 1
<1>1. CASE S = {}
  BY <1>1, FS_EmptySet
<1>2. ASSUME NEW x \in S PROVE IsFiniteSet(S) /\ Cardinality(S) <= 1
  <2>1. S = {x}
    BY <1>2 DEF Solo
  <2>2. IsFiniteSet({x}) /\ Cardinality({x}) = 1
    BY FS_Singleton, Zenon
  <2> QED
    BY <2>1, <2>2
<1> QED
  BY <1>1, <1>2

\* A sequence has no more elements than places.
LEMMA RangeIsSmall ==
  ASSUME NEW S, NEW s \in Seq(S)
  PROVE  IsFiniteSet(Range(s)) /\ Cardinality(Range(s)) <= Len(s)
<1>1. s \in Surjection(1..Len(s), Range(s)) /\ Len(s) \in Nat
  BY LenProperties DEF Surjection, Range
<1>2. IsFiniteSet(1..Len(s)) /\ Cardinality(1..Len(s)) = Len(s)
  <2>1. 1 \in Int /\ Len(s) \in Int
    BY <1>1
  <2>2. /\ IsFiniteSet(1..Len(s))
        /\ Cardinality(1..Len(s)) = IF 1 > Len(s) THEN 0 ELSE Len(s) - 1 + 1
    BY <2>1, FS_Interval, Zenon
  <2> QED
    BY <1>1, <2>2
<1> QED
  BY <1>1, <1>2, FS_Surjection

LEMMA OwnershipFromInv == TypeOK /\ OwnerInv => BufferOwnership
<1> SUFFICES ASSUME TypeOK, OwnerInv PROVE BufferOwnership
  OBVIOUS
<1>1. InChan \subseteq Buffers
  BY RangeOfSeq DEF TypeOK, InChan
<1>2. pool \cup mItem \cup InChan \cup wItem = Buffers
  BY <1>1 DEF TypeOK, OwnerInv
<1>3. \A A, B \in {<<"pool", pool>>, <<"main", mItem>>, <<"chan", InChan>>, <<"worker", wItem>>} :
        A # B => A[2] \cap B[2] = {}
  BY DEF OwnerInv
<1>4. IsFiniteSet(wItem) /\ Cardinality(wItem) <= 1 /\ Cardinality(mItem) <= 1
  BY SoloIsOne DEF OwnerInv
<1>5. OneOwner
  BY <1>2, <1>3, <1>4 DEF OneOwner, OwnerInv
<1>6. PoolSuffices
  <2>1. SUFFICES ASSUME mPc = "acquire", pool = {} PROVE FALSE
    BY DEF PoolSuffices
  <2>2. Buffers = InChan \cup wItem
    BY <1>2, <2>1 DEF OwnerInv
  <2>3. IsFiniteSet(InChan) /\ Cardinality(InChan) <= ChanSize /\ Cardinality(InChan) \in Nat
    BY RangeIsSmall, FS_CardinalityType, PipelineAssumption DEF TypeOK, InChan
  <2>4. IsFiniteSet(wItem) /\ Cardinality(wItem) \in Nat /\ Cardinality(wItem) <= 1
    BY <1>4, FS_CardinalityType
  <2>5. Cardinality(Buffers) = Cardinality(InChan) + Cardinality(wItem) - Cardinality(InChan \cap wItem)
    BY <2>2, <2>3, <2>4, FS_Union
  <2>6. InChan \cap wItem = {} /\ Cardinality(InChan \cap wItem) = 0
    BY FS_EmptySet DEF OwnerInv
  <2> QED
    BY <2>3, <2>4, <2>5, <2>6, PipelineAssumption
<1> QED
  BY <1>5, <1>6 DEF BufferOwnership

LEMMA FaithfulFromInv == TypeOK /\ LineInv /\ FrameInv => PublishedFaithfully
<1> SUFFICES ASSUME TypeOK, LineInv, FrameInv PROVE PublishedFaithfully
  OBVIOUS
<1>1. DOMAIN published = 1..Len(published)
  BY DEF TypeOK
<1>2. PayloadIntact
  BY <1>1 DEF PayloadIntact, FrameInv
<1>3. ASSUME NEW i \in 1..Len(published), NEW j \in 1..Len(published), i < j
      PROVE  published[i].seq < published[j].seq /\ published[i].frame < published[j].frame
  <2>1. published[i].seq < published[j].seq
    BY <1>3 DEF LineInv
  <2>2. /\ published[i].seq \in 1..seqCounter /\ published[i].frame = frameOf[published[i].seq]
        /\ published[j].seq \in 1..seqCounter /\ published[j].frame = frameOf[published[j].seq]
    BY DEF FrameInv
  <2> QED
    BY <2>1, <2>2 DEF FrameInv
<1> QED
  BY <1>1, <1>2, <1>3 DEF PublishedFaithfully, PublishedInOrder

-----------------------------------------------------------------------------
(* Theorems *)

\* Every variable of the three goroutines keeps its type: the channel never holds more
\* than its capacity and a message never leaves without a frame.
THEOREM TypeCorrect == Spec => []TypeOK
BY Invariant, PTL DEF IInv

\* Every buffer has one owner in all the loops and early exits, and ChanSize + 2 of them
\* are enough: AcquireFrame always finds one.
THEOREM BuffersOwned == Spec => []BufferOwnership
<1>1. IInv => BufferOwnership
  BY OwnershipFromInv DEF IInv
<1> QED
  BY <1>1, Invariant, PTL

\* What reaches the broker is a subsequence of what the camera sent, in order, each
\* frame with its own pixels.
THEOREM FramesPublishedFaithfully == Spec => []PublishedFaithfully
<1>1. IInv => PublishedFaithfully
  BY FaithfulFromInv DEF IInv
<1> QED
  BY <1>1, Invariant, PTL

\* When main returns, ffmpeg is dead and the connection closed.
THEOREM ShutdownIsClean == Spec => []CleanShutdown
BY Invariant, PTL DEF IInv

=============================================================================
