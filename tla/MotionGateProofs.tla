-------------------------- MODULE MotionGateProofs --------------------------
(***************************************************************************)
(* Safety of MotionGate for every frame size, block size, threshold, set of  *)
(* scenes and zones, interval, post-roll and number of frames.  The spacing  *)
(* and the post-roll hold whatever Analyze finds; that it finds what the     *)
(* reference definition calls motion, with its hull, is AnalyzeIsRight.  Of  *)
(* the sum over a block nothing is used but that both have the same.         *)
(***************************************************************************)
EXTENDS MotionGate, FiniteSetTheorems, WellFoundedInduction, TLAPS

\* The clocks: the gate works with the time from before the read.
ClockInv ==
  /\ clock \in Nat \ {0} /\ now \in Nat /\ now <= clock
  /\ pc # "loop" => now # 0
  /\ lastSent \in Nat /\ lastSent <= now
  /\ lastMotion \in Nat /\ lastMotion <= now
  /\ frame.number \in Nat

\* Everything recorded is of an earlier frame than the one in the gate, and
\* nothing was sent after lastSentTime.
HistoryInv ==
  /\ \A d \in dispatched : /\ d.number \in Nat /\ d.stamp \in Nat
                           /\ d.number <= frame.number
                           /\ pc = "gate" => d.number < frame.number
                           /\ 0 < d.stamp /\ d.stamp <= lastSent
  /\ \A m \in motions : /\ m.number \in Nat /\ m.number <= frame.number
                        /\ pc = "gate" => m.number < frame.number

\* lastMotionTime and lastMotionBox are those of the last motion frame.
LastMotionInv ==
  lastMotion # 0 => \E m \in motions : /\ m.stamp = lastMotion /\ m.box = lastBox
                                       /\ \A n \in motions : n.number <= m.number

\* While the detector has a reference it is a frame of the present connection, and
\* what is in the gate is a frame of the camera.
ReferenceInv ==
  /\ pc = "gate" => frame.scene \in Scenes
  /\ hasLast => lastY.connection = connection

IInv == ClockInv /\ HistoryInv /\ LastMotionInv /\ DispatchSpacing /\ PostRollJustified

-----------------------------------------------------------------------------
(* The arithmetic of Macroblocks *)

LEMMA BsPositive == bs \in Nat \ {0}
BY MacroblockAssumption DEF bs

\* A block of the grid lies within the frame.
LEMMA GridBound ==
  ASSUME NEW n \in Nat, NEW s \in Nat \ {0}, NEW k \in 0..(n \div s - 1)
  PROVE  k * s \in Nat /\ (k + 1) * s = k * s + s /\ k * s + s <= n
<1> DEFINE q == n \div s
<1>1. q \in Nat /\ q * s <= n
  OBVIOUS
<1>2. k \in Nat /\ k + 1 <= q
  BY <1>1
<1> HIDE DEF q
<1>3. (k + 1) * s <= q * s
  BY <1>1, <1>2
<1>4. k * s \in Nat /\ (k + 1) * s = k * s + s /\ q * s \in Nat
  BY <1>1, <1>2
<1> QED
  BY <1>1, <1>3, <1>4

\* In one dimension: an interval has a point inside of a block exactly when it
\* ends after the block's begin and begins before the block's end.
LEMMA InsideMeansOverlap ==
  ASSUME NEW x \in Int, NEW s \in Nat \ {0}, NEW a \in Int, NEW c \in Int
  PROVE  (\E p \in (2 * x + 1)..(2 * (x + s) - 1) : Between(p, a, c))
           <=> x < Greater(a, c) /\ x + s > Lesser(a, c)
<1>1. Lesser(a, c) \in Int /\ Greater(a, c) \in Int /\ Lesser(a, c) <= Greater(a, c)
  BY DEF Lesser, Greater
<1>2. ASSUME NEW lo \in Int, NEW hi \in Int, lo <= hi
      PROVE  (\E p \in (2 * x + 1)..(2 * (x + s) - 1) : lo * 2 <= p /\ p <= hi * 2)
               <=> x < hi /\ x + s > lo
  <2>1. ASSUME x < hi, x + s > lo
        PROVE  \E p \in (2 * x + 1)..(2 * (x + s) - 1) : lo * 2 <= p /\ p <= hi * 2
    <3>1. CASE lo <= x
      BY <1>2, <2>1, <3>1, 2 * x + 1 \in (2 * x + 1)..(2 * (x + s) - 1)
    <3>2. CASE lo > x
      BY <1>2, <2>1, <3>2, lo * 2 \in (2 * x + 1)..(2 * (x + s) - 1)
    <3> QED
      BY <3>1, <3>2
  <2> QED
    BY <1>2, <2>1
<1> QED
  BY <1>1, <1>2 DEF Between

LEMMA CornersType ==
  ASSUME NEW item \in Items, item.kind # "malformed"
  PROVE  /\ \A i \in 1..4 : Corners(item)[i] \in Int
         /\ item.kind # "tuple" => Corners(item)[1] <= Corners(item)[3] /\ Corners(item)[2] <= Corners(item)[4]
<1>1. CASE item \in [kind : {"tuple"}, corners : Int \X Int \X Int \X Int]
  <2>1. item.kind = "tuple" /\ Corners(item) = item.corners
    BY <1>1 DEF Corners
  <2> QED
    BY <1>1, <2>1
<1>2. CASE item \in [kind : Presets]
  BY <1>2, MacroblockAssumption DEF Presets, Corners
<1> QED
  BY <1>1, <1>2 DEF Items, Presets

\* A block of the frame is masked by the zone that parseExcludeZones makes of an item
\* exactly when the item, as it was written, has a point inside the block.
LEMMA MaskedMeansExcluded ==
  ASSUME NEW item \in Items, item.kind # "malformed", NEW b \in Blocks
  PROVE  Intersects(b, Zone(item)) <=> Excluded(b, item)
<1> DEFINE c == Corners(item)
           x == b[1] * bs
           y == b[2] * bs
<1>1. /\ c[1] \in Int /\ c[2] \in Int /\ c[3] \in Int /\ c[4] \in Int
      /\ item.kind # "tuple" => c[1] <= c[3] /\ c[2] <= c[4]
  BY CornersType
<1>2. /\ x \in Nat /\ (b[1] + 1) * bs = x + bs /\ x + bs <= FrameWidth
      /\ y \in Nat /\ (b[2] + 1) * bs = y + bs /\ y + bs <= FrameHeight
      /\ bs \in Nat \ {0}
  <2>1. b[1] \in 0..(FrameWidth \div bs - 1) /\ b[2] \in 0..(FrameHeight \div bs - 1)
    BY DEF Blocks
  <2> QED
    BY <2>1, BsPositive, GridBound, MacroblockAssumption
<1>3. /\ 2 * b[1] * bs = 2 * x /\ 2 * (b[1] + 1) * bs = 2 * (x + bs)
      /\ 2 * b[2] * bs = 2 * y /\ 2 * (b[2] + 1) * bs = 2 * (y + bs)
  <2>1. b[1] \in Nat /\ b[2] \in Nat /\ bs \in Nat
    BY <1>2 DEF Blocks
  <2>2. \A m, n \in Nat : 2 * m * n = 2 * (m * n)
    OBVIOUS
  <2>3. 2 * (b[1] + 1) * bs = 2 * ((b[1] + 1) * bs) /\ 2 * (b[2] + 1) * bs = 2 * ((b[2] + 1) * bs)
    BY <2>1, <2>2
  <2> QED
    BY <1>2, <2>1, <2>2, <2>3
<1>4. Excluded(b, item) <=> /\ x < Greater(c[1], c[3]) /\ x + bs > Lesser(c[1], c[3])
                            /\ y < Greater(c[2], c[4]) /\ y + bs > Lesser(c[2], c[4])
  <2>1. /\ (\E p \in (2 * x + 1)..(2 * (x + bs) - 1) : Between(p, c[1], c[3]))
             <=> x < Greater(c[1], c[3]) /\ x + bs > Lesser(c[1], c[3])
        /\ (\E p \in (2 * y + 1)..(2 * (y + bs) - 1) : Between(p, c[2], c[4]))
             <=> y < Greater(c[2], c[4]) /\ y + bs > Lesser(c[2], c[4])
    <3> HIDE DEF c, x, y
    <3>1. x \in Int /\ y \in Int /\ bs \in Nat \ {0}
      BY <1>2
    <3>2. (\E p \in (2 * x + 1)..(2 * (x + bs) - 1) : Between(p, c[1], c[3]))
            <=> x < Greater(c[1], c[3]) /\ x + bs > Lesser(c[1], c[3])
      BY <1>1, <3>1, InsideMeansOverlap
    <3>3. (\E p \in (2 * y + 1)..(2 * (y + bs) - 1) : Between(p, c[2], c[4]))
            <=> y < Greater(c[2], c[4]) /\ y + bs > Lesser(c[2], c[4])
      BY <1>1, <3>1, InsideMeansOverlap
    <3> QED
      BY <3>2, <3>3
  <2>2. Excluded(b, item) <=>
          /\ \E p \in (2 * b[1] * bs + 1)..(2 * (b[1] + 1) * bs - 1) : Between(p, c[1], c[3])
          /\ \E p \in (2 * b[2] * bs + 1)..(2 * (b[2] + 1) * bs - 1) : Between(p, c[2], c[4])
    BY DEF Excluded
  <2>3. Excluded(b, item) <=>
          /\ \E p \in (2 * x + 1)..(2 * (x + bs) - 1) : Between(p, c[1], c[3])
          /\ \E p \in (2 * y + 1)..(2 * (y + bs) - 1) : Between(p, c[2], c[4])
    <3> HIDE DEF c, x, y
    <3> QED
      BY <1>3, <2>2
  <2> HIDE DEF c, x, y
  <2> QED
    BY <2>1, <2>3
<1>5. Intersects(b, Zone(item)) <=> /\ x < Zone(item)[3] /\ x + bs > Zone(item)[1]
                                    /\ y < Zone(item)[4] /\ y + bs > Zone(item)[2]
  BY <1>2 DEF Intersects
<1>6. CASE item.kind = "tuple"
  <2>1. /\ Zone(item)[1] = Greater(Lesser(c[1], c[3]), 0)
        /\ Zone(item)[2] = Greater(Lesser(c[2], c[4]), 0)
        /\ Zone(item)[3] = Lesser(Greater(c[1], c[3]), FrameWidth)
        /\ Zone(item)[4] = Lesser(Greater(c[2], c[4]), FrameHeight)
    BY <1>6 DEF Zone
  <2> HIDE DEF c, x, y
  <2> QED
    BY <1>1, <1>2, <1>4, <1>5, <2>1, MacroblockAssumption DEF Lesser, Greater
<1>7. CASE item.kind # "tuple"
  <2>1. Zone(item) = c
    BY <1>7 DEF Zone
  <2> HIDE DEF c, x, y
  <2> QED
    BY <1>1, <1>2, <1>4, <1>5, <1>7, <2>1 DEF Lesser, Greater
<1> QED
  BY <1>6, <1>7

LEMMA WatchedAreUnmasked ==
  ASSUME NEW items \in SUBSET Items
  PROVE  Unmasked(ParseExcludeZones(items)) = Watched(items)
<1>1. ASSUME NEW b \in Blocks
      PROVE  (\A zone \in ParseExcludeZones(items) : ~Intersects(b, zone))
               <=> (\A item \in WellFormed(items) : ~Excluded(b, item))
  BY MaskedMeansExcluded DEF ParseExcludeZones, WellFormed
<1> QED
  BY <1>1 DEF Unmasked, Watched

LEMMA FiniteBlocks == IsFiniteSet(Blocks)
<1>1. FrameWidth \div bs - 1 \in Int /\ FrameHeight \div bs - 1 \in Int
  BY BsPositive, MacroblockAssumption
<1>2. IsFiniteSet(0..(FrameWidth \div bs - 1)) /\ IsFiniteSet(0..(FrameHeight \div bs - 1))
  BY <1>1, FS_Interval
<1> QED
  BY <1>2, FS_Product DEF Blocks

LEMMA Extremes ==
  ASSUME NEW n \in Int, NEW S \in SUBSET (0..n), S # {}
  PROVE  /\ Min(S) \in S /\ \A k \in S : Min(S) <= k
         /\ Max(S) \in S /\ \A k \in S : k <= Max(S)
<1>1. \A T \in SUBSET Nat : T # {} => \E m \in T : \A k \in T : m <= k
  <2> SUFFICES ASSUME NEW T \in SUBSET Nat, T # {} PROVE \E m \in T : \A k \in T : m <= k
    OBVIOUS
  <2>1. PICK m \in T : \A k \in T : ~(<<k, m>> \in OpToRel(<, Nat))
    BY NatLessThanWellFounded, WFMin
  <2>2. \A k \in T : ~(k < m)
    BY <2>1 DEF OpToRel
  <2> QED
    BY <2>2
<1>2. Min(S) \in S /\ \A k \in S : Min(S) <= k
  <2>1. \E m \in S : \A k \in S : m <= k
    BY <1>1
  <2> QED
    BY <2>1 DEF Min
<1>3. \E m \in S : \A k \in S : m >= k
  <2> DEFINE T == {n - k : k \in S}
  <2>0. \A k \in S : n - k \in Nat
    OBVIOUS
  <2>1. T \in SUBSET Nat /\ T # {}
    BY <2>0
  <2> HIDE DEF T
  <2>2. PICK t \in T : \A k \in T : t <= k
    BY <1>1, <2>1
  <2>3. PICK m \in S : t = n - m
    BY DEF T
  <2>4. \A k \in S : n - m <= n - k
    BY <2>2, <2>3 DEF T
  <2>5. \A k \in S : m >= k
    BY <2>4
  <2> QED
    BY <2>5
<1>4. Max(S) \in S /\ \A k \in S : Max(S) >= k
  BY <1>3 DEF Max
<1> QED
  BY <1>2, <1>4

\* The box in one dimension: from the first active block to the end of the last, which
\* the frame does not cut.
LEMMA HullEdges ==
  ASSUME NEW n \in Nat, NEW S \in SUBSET (0..(n \div bs - 1)), S # {}
  PROVE  LET lo == Min(S) * bs
             hi == Lesser((Max(S) + 1) * bs, n)
         IN  /\ lo \in 0..n /\ hi \in 0..n
             /\ Min(S) \in S /\ Max(S) \in S /\ hi = Max(S) * bs + bs
             /\ \A k \in S : lo <= k * bs /\ k * bs + bs <= hi
<1>1. bs \in Nat \ {0} /\ n \div bs - 1 \in Int
  BY BsPositive
<1>2. /\ Min(S) \in S /\ \A k \in S : Min(S) <= k
      /\ Max(S) \in S /\ \A k \in S : k <= Max(S)
  BY <1>1, Extremes
<1>3. \A k \in S : k \in Nat /\ k * bs \in Nat /\ (k + 1) * bs = k * bs + bs /\ k * bs + bs <= n
  BY <1>1, GridBound
<1>4. \A j, k \in Nat : j <= k => j * bs <= k * bs
  BY <1>1
<1>5. \A k \in S : Min(S) * bs <= k * bs /\ k * bs <= Max(S) * bs
  BY <1>2, <1>3, <1>4
<1> DEFINE first == Min(S) * bs
           end == Max(S) * bs
<1>6. /\ (Max(S) + 1) * bs = end + bs /\ end \in Nat /\ end + bs <= n
      /\ first \in Nat /\ first <= end
      /\ \A k \in S : k * bs \in Nat /\ first <= k * bs /\ k * bs <= end
  BY <1>2, <1>3, <1>5
<1> HIDE DEF first, end
<1>7. Lesser((Max(S) + 1) * bs, n) = end + bs
  BY <1>1, <1>6 DEF Lesser
<1>8. first \in 0..n /\ end + bs \in 0..n
  BY <1>1, <1>6
<1>9. \A k \in S : first <= k * bs /\ k * bs + bs <= end + bs
  BY <1>1, <1>6
<1> QED
  BY <1>2, <1>7, <1>8, <1>9 DEF first, end

\* What Analyze finds is motion as it should be, and its box is the hull: masks by zones
\* that were put in order and cut to the frame, counts, ratio and corners.
THEOREM AnalyzeIsRight ==
  ASSUME NEW items \in SUBSET Items, NEW current, NEW last
  PROVE  LET result == Analyze(ParseExcludeZones(items), current, last)
             changed == ChangedBlocks(items, current, last)
         IN  /\ result.HasMotion <=> IsMotion(items, changed)
             /\ result.HasMotion => IsBoxOf(result.MotionBox, changed)
             /\ result.MotionBox \in Boxes
<1> DEFINE zones == ParseExcludeZones(items)
           changed == ChangedBlocks(items, current, last)
           shift == 100 * Cardinality(changed) >= LightingShiftPercent * EffectiveBlocks(zones)
           motion == Cardinality(changed) >= MinActiveBlocks /\ ~shift
           box == IF motion /\ changed # {} THEN BoxAround(changed) ELSE NoBox
<1>1. Unmasked(zones) = Watched(items)
  BY WatchedAreUnmasked
<1>2. {b \in Unmasked(zones) : IsActive(b, current, last)} = changed
  BY <1>1 DEF ChangedBlocks
<1>3. Analyze(zones, current, last) = [HasMotion |-> motion, IsLightingShift |-> shift, MotionBox |-> box]
  BY <1>2 DEF Analyze
<1>4. /\ changed \subseteq Watched(items) /\ changed \subseteq Blocks
      /\ IsFiniteSet(Watched(items)) /\ IsFiniteSet(changed)
      /\ Cardinality(Watched(items)) \in Nat /\ Cardinality(changed) \in Nat
  <2>1. Watched(items) \subseteq Blocks /\ changed \subseteq Watched(items)
    BY DEF Watched, ChangedBlocks
  <2> QED
    BY <2>1, FiniteBlocks, FS_Subset, FS_CardinalityType
<1> HIDE DEF changed
<1>5. motion <=> IsMotion(items, changed)
  <2>1. LightingShiftPercent \in Nat \ {0} /\ MinActiveBlocks \in Nat
    BY MacroblockAssumption
  <2>2. EffectiveBlocks(zones) = Greater(Cardinality(Watched(items)), 1)
    BY <1>1 DEF EffectiveBlocks
  <2>3. CASE changed = {}
    <3>1. Cardinality(changed) = 0
      BY <2>3, FS_EmptySet
    <3>2. EffectiveBlocks(zones) \in Nat \ {0}
      BY <1>4, <2>2 DEF Greater
    <3>3. \A m, n \in Nat \ {0} : ~(100 * 0 >= m * n)
      OBVIOUS
    <3>4. ~shift
      BY <2>1, <3>1, <3>2, <3>3
    <3> HIDE DEF shift
    <3> QED
      BY <2>3, <3>4 DEF IsMotion
  <2>4. CASE changed # {}
    <3>1. Cardinality(Watched(items)) # 0
      BY <1>4, <2>4, FS_EmptySet
    <3>2. EffectiveBlocks(zones) = Cardinality(Watched(items))
      BY <1>4, <2>2, <3>1 DEF Greater
    <3>3. 100 * Cardinality(changed) \in Int /\ LightingShiftPercent * Cardinality(Watched(items)) \in Int
      BY <1>4, <2>1
    <3> QED
      BY <2>4, <3>2, <3>3 DEF IsMotion
  <2> QED
    BY <2>3, <2>4
<1>6. CASE changed = {}
  <2>1. box = NoBox
    BY <1>6
  <2>2. IsBoxOf(NoBox, changed) /\ NoBox \in Boxes
    BY <1>6 DEF IsBoxOf, Boxes
  <2> HIDE DEF box, motion, shift
  <2> QED
    BY <1>3, <1>5, <2>1, <2>2 DEF changed
<1>7. CASE changed # {}
  <2> DEFINE xs == {b[1] : b \in changed}
             ys == {b[2] : b \in changed}
             hull == BoxAround(changed)
  <2>1. /\ xs \in SUBSET (0..(FrameWidth \div bs - 1)) /\ xs # {}
        /\ ys \in SUBSET (0..(FrameHeight \div bs - 1)) /\ ys # {}
    BY <1>4, <1>7 DEF Blocks
  <2>2. /\ hull = <<Min(xs) * bs, Min(ys) * bs, Lesser((Max(xs) + 1) * bs, FrameWidth),
                    Lesser((Max(ys) + 1) * bs, FrameHeight)>>
        /\ hull[1] = Min(xs) * bs /\ hull[3] = Lesser((Max(xs) + 1) * bs, FrameWidth)
        /\ hull[2] = Min(ys) * bs /\ hull[4] = Lesser((Max(ys) + 1) * bs, FrameHeight)
    BY DEF BoxAround
  <2> HIDE DEF hull
  <2>3. /\ hull[1] \in 0..FrameWidth /\ hull[3] \in 0..FrameWidth
        /\ Min(xs) \in xs /\ Max(xs) \in xs /\ hull[3] = Max(xs) * bs + bs
        /\ \A k \in xs : hull[1] <= k * bs /\ k * bs + bs <= hull[3]
    <3> HIDE DEF xs, ys
    <3> QED
      BY <2>1, <2>2, HullEdges, MacroblockAssumption
  <2>4. /\ hull[2] \in 0..FrameHeight /\ hull[4] \in 0..FrameHeight
        /\ Min(ys) \in ys /\ Max(ys) \in ys /\ hull[4] = Max(ys) * bs + bs
        /\ \A k \in ys : hull[2] <= k * bs /\ k * bs + bs <= hull[4]
    <3> HIDE DEF xs, ys
    <3> QED
      BY <2>1, <2>2, HullEdges, MacroblockAssumption
  <2>5. hull \in Boxes
    BY <2>2, <2>3, <2>4 DEF Boxes
  <2>6. \A b \in changed : /\ b[1] \in xs /\ b[1] * bs \in Nat /\ (b[1] + 1) * bs = b[1] * bs + bs
                           /\ b[2] \in ys /\ b[2] * bs \in Nat /\ (b[2] + 1) * bs = b[2] * bs + bs
    <3>1. \A b \in changed : b[1] \in 0..(FrameWidth \div bs - 1) /\ b[2] \in 0..(FrameHeight \div bs - 1)
      BY <1>4 DEF Blocks
    <3> QED
      BY <3>1, GridBound, BsPositive, MacroblockAssumption
  <2>7. IsBoxOf(hull, changed)
    <3>1. bs \in Nat \ {0}
      BY BsPositive
    <3>2. ASSUME NEW b \in changed
          PROVE  PixelsOf(b) \subseteq (hull[1]..(hull[3] - 1)) \X (hull[2]..(hull[4] - 1))
      <4> DEFINE x == b[1] * bs
                 y == b[2] * bs
      <4>1. PixelsOf(b) = (x..(x + bs - 1)) \X (y..(y + bs - 1))
        <5>1. /\ x \in Nat /\ (b[1] + 1) * bs = x + bs /\ y \in Nat /\ (b[2] + 1) * bs = y + bs
          BY <2>6
        <5>2. PixelsOf(b) = (x..((b[1] + 1) * bs - 1)) \X (y..((b[2] + 1) * bs - 1))
          BY DEF PixelsOf
        <5> HIDE DEF x, y
        <5> QED
          BY <3>1, <5>1, <5>2
      <4>2. /\ x \in Nat /\ hull[1] <= x /\ x + bs <= hull[3]
            /\ y \in Nat /\ hull[2] <= y /\ y + bs <= hull[4]
        BY <2>3, <2>4, <2>6
      <4> HIDE DEF x, y, xs, ys
      <4>3. /\ x..(x + bs - 1) \subseteq hull[1]..(hull[3] - 1)
            /\ y..(y + bs - 1) \subseteq hull[2]..(hull[4] - 1)
        BY <2>3, <2>4, <3>1, <4>2
      <4> QED
        BY <4>1, <4>3
    <3>3. \A b \in changed, p \in Int, q \in Int :
            /\ b[1] * bs <= p /\ p < b[1] * bs + bs
            /\ b[2] * bs <= q /\ q < b[2] * bs + bs
            => <<p, q>> \in PixelsOf(b)
      BY <2>6, <3>1 DEF PixelsOf
    <3>4. PICK b1 \in changed : b1[1] = Min(xs)
      BY <2>3
    <3>5. PICK b2 \in changed : b2[2] = Min(ys)
      BY <2>4
    <3>6. PICK b3 \in changed : b3[1] = Max(xs)
      BY <2>3
    <3>7. PICK b4 \in changed : b4[2] = Max(ys)
      BY <2>4
    <3> HIDE DEF xs, ys
    <3>c. \A b \in changed : b[1] * bs \in Nat /\ b[2] * bs \in Nat
      BY <2>6
    <3>8. <<hull[1], b1[2] * bs>> \in PixelsOf(b1)
      <4>1. hull[1] = b1[1] * bs
        BY <2>2, <3>4
      <4> QED
        BY <3>1, <3>3, <3>c, <4>1
    <3>9. <<b2[1] * bs, hull[2]>> \in PixelsOf(b2)
      <4>1. hull[2] = b2[2] * bs
        BY <2>2, <3>5
      <4> QED
        BY <3>1, <3>3, <3>c, <4>1
    <3>10. <<hull[3] - 1, b3[2] * bs>> \in PixelsOf(b3)
      <4>1. hull[3] = b3[1] * bs + bs
        BY <2>3, <3>6
      <4> QED
        BY <3>1, <3>3, <3>c, <4>1
    <3>11. <<b4[1] * bs, hull[4] - 1>> \in PixelsOf(b4)
      <4>1. hull[4] = b4[2] * bs + bs
        BY <2>4, <3>7
      <4> QED
        BY <3>1, <3>3, <3>c, <4>1
    <3> QED
      BY <1>7, <3>2, <3>8, <3>9, <3>10, <3>11 DEF IsBoxOf
  <2>8. box = IF motion THEN hull ELSE NoBox
    BY <1>7 DEF hull
  <2>9. NoBox \in Boxes
    BY DEF Boxes
  <2> HIDE DEF box, motion, shift, xs, ys
  <2> QED
    BY <1>3, <1>5, <2>5, <2>7, <2>8, <2>9 DEF changed
<1> QED
  BY <1>6, <1>7 DEF changed

-----------------------------------------------------------------------------
(* The spacing and the post-roll *)

LEMMA InvInit == Init => IInv
BY DEF Init, IInv, ClockInv, HistoryInv, LastMotionInv, DispatchSpacing, PostRollJustified

\* Steps that record nothing, and leave the gate's memory of motion and the frame alone.
LEMMA Uneventful ==
  ASSUME IInv, UNCHANGED <<history, lastMotion, lastBox, frame>>,
         ClockInv', lastSent <= lastSent', pc' = "gate" => pc = "gate"
  PROVE  IInv'
BY DEF IInv, ClockInv, HistoryInv, LastMotionInv, DispatchSpacing, PostRollJustified, history

\* What RememberMotion does when the frame in the gate shows motion, or none.
LEMMA Remembered ==
  ASSUME IInv, pc = "gate", pc' = "loop", UNCHANGED <<clock, now, frame>>, RememberMotion
  PROVE  /\ lastMotion' \in Nat /\ lastMotion' <= now
         /\ \A m \in motions' : m.number \in Nat /\ m.number <= frame.number
         /\ LastMotionInv'
         /\ \A m \in motions' : m \in motions \/ m.number = frame.number
         /\ motions \subseteq motions'
<1>1. CASE HasMotion
  <2> DEFINE e == [number |-> frame.number, stamp |-> now, box |-> lastBox']
  <2>1. motions' = motions \cup {e} /\ lastMotion' = now
    BY <1>1 DEF RememberMotion
  <2>2. e.number = frame.number /\ e.stamp = now /\ e.box = lastBox'
    OBVIOUS
  <2> HIDE DEF e
  <2>3. \A m \in motions' : m.number \in Nat /\ m.number <= frame.number
    BY <2>1, <2>2 DEF IInv, ClockInv, HistoryInv
  <2>4. LastMotionInv'
    BY <2>1, <2>2, <2>3 DEF LastMotionInv
  <2> QED
    BY <2>1, <2>2, <2>3, <2>4 DEF IInv, ClockInv
<1>2. CASE ~HasMotion
  BY <1>2 DEF RememberMotion, IInv, ClockInv, HistoryInv, LastMotionInv
<1> QED
  BY <1>1, <1>2

\* A motion frame recorded now justifies or spoils no post-roll frame of before.
LEMMA PostRollKept ==
  ASSUME IInv, pc = "gate", motions \subseteq motions',
         \A m \in motions' : m \in motions \/ m.number = frame.number,
         NEW d \in dispatched, d.postRoll
  PROVE  \E m \in motions' : /\ m.number < d.number
                             /\ \A n \in motions' : n.number < d.number => n.number <= m.number
                             /\ m.box = d.box
                             /\ d.stamp - m.stamp \in 0..PostRoll
<1>1. PICK m \in motions : /\ m.number < d.number
                           /\ \A n \in motions : n.number < d.number => n.number <= m.number
                           /\ m.box = d.box
                           /\ d.stamp - m.stamp \in 0..PostRoll
  BY DEF IInv, PostRollJustified
<1>2. d.number < frame.number /\ d.number \in Nat /\ frame.number \in Nat
  BY DEF IInv, HistoryInv, ClockInv
<1>3. \A n \in motions' : n.number < d.number => n \in motions
  BY <1>2
<1> QED
  BY <1>1, <1>3

LEMMA InvStep == IInv /\ [Next]_vars => IInv'
<1> SUFFICES ASSUME IInv, [Next]_vars PROVE IInv'
  OBVIOUS
<1> USE DEF clockVars, gateVars, detectorVars, history
<1>1. CASE Tick
  BY <1>1, Uneventful DEF Tick, IInv, ClockInv
<1>2. CASE LoopTop
  BY <1>2, Uneventful DEF LoopTop, IInv, ClockInv
<1>3. CASE Interrupted
  BY <1>3, Uneventful DEF Interrupted, IInv, ClockInv
<1>4. CASE ReadFails
  BY <1>4, Uneventful DEF ReadFails, IInv, ClockInv
<1>5. CASE ReadFrame
  <2>1. frame'.number = frame.number + 1
    BY <1>5 DEF ReadFrame
  <2>2. ClockInv' /\ HistoryInv'
    BY <1>5, <2>1 DEF ReadFrame, IInv, ClockInv, HistoryInv
  <2> QED
    BY <1>5, <2>2 DEF ReadFrame, IInv, LastMotionInv, DispatchSpacing, PostRollJustified
<1>6. CASE RateLimited
  BY <1>6, Uneventful DEF RateLimited, IInv, ClockInv
<1>7. CASE LightingShift
  BY <1>7, Uneventful DEF LightingShift, Analyzed, IInv, ClockInv
<1>8. CASE NothingToSend
  BY <1>8, Uneventful DEF NothingToSend, Analyzed, IInv, ClockInv
<1>9. CASE SubmitAccepts
  <2> DEFINE e == [number |-> frame.number, stamp |-> now, postRoll |-> InPostRoll, box |-> lastBox',
                   scene |-> frame.scene, against |-> lastY, connection |-> connection]
  <2>1. /\ pc = "gate" /\ pc' = "loop" /\ ~TooSoon
        /\ clock' = clock /\ now' = now /\ frame' = frame
        /\ HasMotion \/ InPostRoll
        /\ RememberMotion
        /\ lastSent' = now
        /\ dispatched' = dispatched \cup {e}
    BY <1>9 DEF SubmitAccepts, Analyzed
  <2>2. /\ e.number = frame.number /\ e.stamp = now /\ e.postRoll = InPostRoll /\ e.box = lastBox'
    OBVIOUS
  <2> HIDE DEF e
  <2>3. /\ lastMotion' \in Nat /\ lastMotion' <= now
        /\ \A m \in motions' : m.number \in Nat /\ m.number <= frame.number
        /\ LastMotionInv'
        /\ \A m \in motions' : m \in motions \/ m.number = frame.number
        /\ motions \subseteq motions'
    BY <2>1, Remembered
  <2>4. ClockInv'
    BY <2>1, <2>3 DEF IInv, ClockInv
  <2>5. HistoryInv'
    BY <2>1, <2>2, <2>3 DEF IInv, ClockInv, HistoryInv
  <2>6. \A d \in dispatched : now - d.stamp >= MinInterval /\ d.number < frame.number
    BY <2>1, GateAssumption DEF IInv, ClockInv, HistoryInv, TooSoon
  <2>7. DispatchSpacing'
    BY <2>1, <2>2, <2>6 DEF IInv, ClockInv, HistoryInv, DispatchSpacing
  <2>8. PostRollJustified'
    <3>1. ASSUME e.postRoll
          PROVE  \E m \in motions' : /\ m.number < e.number
                                     /\ \A n \in motions' : n.number < e.number => n.number <= m.number
                                     /\ m.box = e.box
                                     /\ e.stamp - m.stamp \in 0..PostRoll
      <4>1. ~HasMotion /\ lastMotion # 0 /\ now - lastMotion <= PostRoll
        BY <2>2, <3>1 DEF InPostRoll
      <4>2. motions' = motions /\ lastBox' = lastBox
        BY <2>1, <4>1 DEF RememberMotion
      <4>3. PICK m \in motions : /\ m.stamp = lastMotion /\ m.box = lastBox
                                 /\ \A n \in motions : n.number <= m.number
        BY <4>1 DEF IInv, LastMotionInv
      <4>4. m.number < frame.number
        BY <2>1 DEF IInv, HistoryInv
      <4>5. now - lastMotion \in 0..PostRoll
        BY <4>1, GateAssumption DEF IInv, ClockInv
      <4> QED
        BY <2>2, <4>2, <4>3, <4>4, <4>5
    <3>2. \A d \in dispatched : d.postRoll =>
            \E m \in motions' : /\ m.number < d.number
                                /\ \A n \in motions' : n.number < d.number => n.number <= m.number
                                /\ m.box = d.box
                                /\ d.stamp - m.stamp \in 0..PostRoll
      BY <2>1, <2>3, PostRollKept
    <3> QED
      BY <2>1, <3>1, <3>2 DEF PostRollJustified
  <2> QED
    BY <2>3, <2>4, <2>5, <2>7, <2>8 DEF IInv
<1>10. CASE SubmitDrops
  <2>1. /\ pc = "gate" /\ pc' = "loop"
        /\ clock' = clock /\ now' = now /\ frame' = frame
        /\ RememberMotion
        /\ lastSent' = lastSent /\ dispatched' = dispatched
    BY <1>10 DEF SubmitDrops, Analyzed
  <2>2. /\ lastMotion' \in Nat /\ lastMotion' <= now
        /\ \A m \in motions' : m.number \in Nat /\ m.number <= frame.number
        /\ LastMotionInv'
        /\ \A m \in motions' : m \in motions \/ m.number = frame.number
        /\ motions \subseteq motions'
    BY <2>1, Remembered
  <2>3. ClockInv' /\ HistoryInv' /\ DispatchSpacing'
    BY <2>1, <2>2 DEF IInv, ClockInv, HistoryInv, DispatchSpacing
  <2>4. PostRollJustified'
    BY <2>1, <2>2, PostRollKept DEF PostRollJustified
  <2> QED
    BY <2>2, <2>3, <2>4 DEF IInv
<1>11. CASE UNCHANGED vars
  BY <1>11, Uneventful DEF vars, IInv, ClockInv
<1> QED
  BY <1>1, <1>2, <1>3, <1>4, <1>5, <1>6, <1>7, <1>8, <1>9, <1>10, <1>11 DEF Next, Gate, Quiet

-----------------------------------------------------------------------------
(* Types, and what is sent as motion *)

LEMMA TypeInit == Init => TypeOK
<1> SUFFICES ASSUME Init PROVE TypeOK
  OBVIOUS
<1>1. 0 \in Times /\ 1 \in Times /\ 0 \in FrameNumbers /\ NoBox \in Boxes
  BY GateAssumption DEF Times, FrameNumbers, Boxes
<1>2. frame \in [number : FrameNumbers, scene : Scenes \cup {0}]
  BY <1>1 DEF Init
<1>3. lastY \in [scene : Scenes \cup {0}, connection : FrameNumbers]
  BY <1>1 DEF Init
<1> QED
  BY <1>1, <1>2, <1>3 DEF Init, TypeOK

\* The same of the gate's variables.
LEMMA AnalysisRight ==
  ASSUME TypeOK
  PROVE  /\ hasLast => (HasMotion <=> IsMotion(excludeZones,
                          ChangedBlocks(excludeZones, Picture[frame.scene], Picture[lastY.scene])))
         /\ HasMotion => IsBoxOf(Analysis.MotionBox,
                          ChangedBlocks(excludeZones, Picture[frame.scene], Picture[lastY.scene]))
         /\ Analysis.MotionBox \in Boxes
<1>1. excludeZones \in SUBSET Items
  BY GateAssumption DEF TypeOK
<1> QED
  BY <1>1, AnalyzeIsRight DEF HasMotion, Analysis

\* What the frame in the gate will be taken for is what it is.
NoneOverlooked == hasLast =>
  (HasMotion <=> IsMotion(excludeZones, ChangedBlocks(excludeZones, Picture[frame.scene], Picture[lastY.scene])))

LEMMA OverlooksNothing == TypeOK => NoneOverlooked
BY AnalysisRight DEF NoneOverlooked

LEMMA RememberType ==
  ASSUME TypeOK, RememberMotion
  PROVE  /\ lastMotion' \in Times /\ lastBox' \in Boxes
         /\ motions' \subseteq [number : FrameNumbers, stamp : Times, box : Boxes]
         /\ HasMotion => lastBox' = Analysis.MotionBox
<1>1. CASE HasMotion
  <2>1. lastMotion' = now /\ lastBox' = Analysis.MotionBox
        /\ motions' = motions \cup {[number |-> frame.number, stamp |-> now, box |-> lastBox']}
    BY <1>1 DEF RememberMotion
  <2>2. lastBox' \in Boxes
    BY <2>1, AnalysisRight
  <2>3. [number |-> frame.number, stamp |-> now, box |-> lastBox'] \in [number : FrameNumbers, stamp : Times, box : Boxes]
    BY <2>2 DEF TypeOK
  <2> QED
    BY <2>1, <2>2, <2>3 DEF TypeOK
<1>2. CASE ~HasMotion
  BY <1>2 DEF RememberMotion, TypeOK
<1> QED
  BY <1>1, <1>2

\* The two ways to submit a frame.
Submit == SubmitAccepts \/ SubmitDrops

LEMMA SubmitType ==
  ASSUME TypeOK, ReferenceInv, Submit
  PROVE  TypeOK' /\ ReferenceInv'
<1>1. /\ pc = "gate" /\ pc' = "loop" /\ hasLast' = TRUE
      /\ lastY' = [scene |-> frame.scene, connection |-> connection]
      /\ RememberMotion /\ lastSent' \in {lastSent, now}
      /\ UNCHANGED <<excludeZones, clock, now, frame, connection>>
  BY DEF Submit, SubmitAccepts, SubmitDrops, Analyzed, clockVars
<1>2. /\ lastMotion' \in Times /\ lastBox' \in Boxes
      /\ motions' \subseteq [number : FrameNumbers, stamp : Times, box : Boxes]
  BY <1>1, RememberType
<1>3. frame.scene \in Scenes
  BY <1>1 DEF ReferenceInv
<1>4. lastY' \in [scene : Scenes \cup {0}, connection : FrameNumbers]
  BY <1>1, <1>3 DEF TypeOK
<1>5. dispatched' \subseteq [number : FrameNumbers, stamp : Times, postRoll : BOOLEAN, box : Boxes,
                             scene : Scenes, against : [scene : Scenes \cup {0}, connection : FrameNumbers],
                             connection : FrameNumbers]
  <2>1. CASE dispatched' = dispatched
    BY <2>1 DEF TypeOK
  <2>2. CASE SubmitAccepts
    <3>1. InPostRoll \in BOOLEAN
      BY DEF InPostRoll
    <3>2. dispatched' = dispatched \cup
            {[number |-> frame.number, stamp |-> now, postRoll |-> InPostRoll, box |-> lastBox',
              scene |-> frame.scene, against |-> lastY, connection |-> connection]}
      BY <2>2 DEF SubmitAccepts
    <3> QED
      BY <1>2, <1>3, <3>1, <3>2 DEF TypeOK
  <2> QED
    BY <2>1, <2>2 DEF Submit, SubmitDrops
<1>6. TypeOK'
  BY <1>1, <1>2, <1>4, <1>5 DEF TypeOK
<1>7. ReferenceInv'
  BY <1>1 DEF ReferenceInv
<1> QED
  BY <1>6, <1>7

LEMMA TypeStep == TypeOK /\ ReferenceInv /\ [Next]_vars => TypeOK' /\ ReferenceInv'
<1> SUFFICES ASSUME TypeOK, ReferenceInv, [Next]_vars PROVE TypeOK' /\ ReferenceInv'
  OBVIOUS
<1> USE DEF clockVars, gateVars, detectorVars, history
<1>1. CASE Tick
  <2>1. clock' \in Times
    BY <1>1, GateAssumption DEF Tick, TypeOK, Times
  <2> QED
    BY <1>1, <2>1 DEF Tick, TypeOK, ReferenceInv
<1>2. CASE LoopTop
  BY <1>2 DEF LoopTop, TypeOK, ReferenceInv
<1>3. ASSUME Interrupted \/ ReadFails PROVE TypeOK' /\ ReferenceInv'
  <2>1. /\ connection' \in FrameNumbers /\ hasLast' = FALSE
        /\ pc' \in {"loop", "read"}
        /\ UNCHANGED <<excludeZones, clock, now, frame, lastSent, lastMotion, lastBox, lastY, motions, dispatched>>
    BY <1>3, GateAssumption DEF Interrupted, ReadFails, Reset, TypeOK, FrameNumbers
  <2> QED
    BY <2>1 DEF TypeOK, ReferenceInv
<1>4. CASE ReadFrame
  <2>1. PICK s \in Scenes : frame' = [number |-> frame.number + 1, scene |-> s]
    BY <1>4 DEF ReadFrame
  <2>2. frame.number + 1 \in FrameNumbers
    BY <1>4, GateAssumption DEF ReadFrame, TypeOK, FrameNumbers
  <2>3. frame' \in [number : FrameNumbers, scene : Scenes \cup {0}] /\ frame'.scene \in Scenes
    BY <2>1, <2>2
  <2> QED
    BY <1>4, <2>3 DEF ReadFrame, TypeOK, ReferenceInv
<1>5. CASE RateLimited
  BY <1>5 DEF RateLimited, TypeOK, ReferenceInv
<1>6. ASSUME LightingShift \/ NothingToSend PROVE TypeOK' /\ ReferenceInv'
  <2>1. /\ lastY' = [scene |-> frame.scene, connection |-> connection]
        /\ hasLast' = TRUE /\ pc' = "loop" /\ lastSent' = now
        /\ UNCHANGED <<excludeZones, clock, now, frame, connection, lastMotion, lastBox, motions, dispatched>>
    BY <1>6 DEF LightingShift, NothingToSend, Analyzed
  <2>2. lastY' \in [scene : Scenes \cup {0}, connection : FrameNumbers]
    BY <2>1 DEF TypeOK
  <2> QED
    BY <2>1, <2>2 DEF TypeOK, ReferenceInv
<1>7. CASE SubmitAccepts \/ SubmitDrops
  BY <1>7, SubmitType DEF Submit
<1>8. CASE UNCHANGED vars
  BY <1>8 DEF vars, TypeOK, ReferenceInv
<1> QED
  BY <1>1, <1>2, <1>3, <1>4, <1>5, <1>6, <1>7, <1>8 DEF Next, Gate, Quiet

\* A frame is only ever sent as motion in the step that finds the motion.
LEMMA SentAsMotion ==
  ASSUME TypeOK, ReferenceInv, [Next]_vars, NEW d \in dispatched', d \notin dispatched, ~d.postRoll
  PROVE  /\ hasLast /\ HasMotion
         /\ d.box = Analysis.MotionBox
         /\ d.scene = frame.scene /\ d.against = lastY /\ d.connection = connection
<1>1. SubmitAccepts
  BY DEF Next, Gate, Tick, LoopTop, Interrupted, ReadFails, ReadFrame, RateLimited, LightingShift,
         NothingToSend, SubmitDrops, Quiet, vars, history
<1>2. d = [number |-> frame.number, stamp |-> now, postRoll |-> InPostRoll, box |-> lastBox',
           scene |-> frame.scene, against |-> lastY, connection |-> connection]
  BY <1>1 DEF SubmitAccepts
<1>3. HasMotion /\ RememberMotion
  BY <1>1, <1>2 DEF SubmitAccepts
<1>4. lastBox' = Analysis.MotionBox
  BY <1>3, RememberType
<1> QED
  BY <1>2, <1>3, <1>4 DEF HasMotion

LEMMA JustifiedStep == TypeOK /\ ReferenceInv /\ MotionJustified /\ [Next]_vars => MotionJustified'
<1> SUFFICES ASSUME TypeOK, ReferenceInv, MotionJustified, [Next]_vars PROVE MotionJustified'
  OBVIOUS
<1>1. excludeZones' = excludeZones
  BY DEF Next, Gate, Tick, LoopTop, Interrupted, ReadFails, ReadFrame, RateLimited, LightingShift,
         NothingToSend, SubmitAccepts, SubmitDrops, Analyzed, Quiet, vars
<1>2. ASSUME NEW d \in dispatched', ~d.postRoll
      PROVE  LET changed == ChangedBlocks(excludeZones, Picture[d.scene], Picture[d.against.scene]) IN
             /\ d.against.connection = d.connection
             /\ IsMotion(excludeZones, changed)
             /\ IsBoxOf(d.box, changed)
  <2>1. CASE d \in dispatched
    BY <1>2, <2>1 DEF MotionJustified
  <2>2. CASE d \notin dispatched
    BY <1>2, <2>2, SentAsMotion, AnalysisRight DEF ReferenceInv
  <2> QED
    BY <2>1, <2>2
<1>3. TypeOK'
  BY TypeStep
<1>4. NoneOverlooked'
  BY <1>3, OverlooksNothing, PTL
<1> QED
  BY <1>1, <1>2, <1>4 DEF MotionJustified, NoneOverlooked

\* The invariant of types and of the detector's reference.
LEMMA TypedInvariant == Spec => [](TypeOK /\ ReferenceInv /\ MotionJustified)
<1>1. Init => TypeOK /\ ReferenceInv /\ MotionJustified
  BY TypeInit DEF Init, ReferenceInv, MotionJustified
<1>2. (TypeOK /\ ReferenceInv /\ MotionJustified) /\ [Next]_vars => (TypeOK /\ ReferenceInv /\ MotionJustified)'
  BY TypeStep, JustifiedStep
<1> QED
  BY <1>1, <1>2, PTL DEF Spec

-----------------------------------------------------------------------------
(* Theorems *)

\* Submitted frames are at least MinInterval apart, through drops, lighting shifts,
\* reconnects and hours outside of the schedule.
THEOREM SpacingHolds == Spec => []DispatchSpacing
<1>1. IInv => DispatchSpacing
  BY DEF IInv
<1> QED
  BY InvInit, InvStep, <1>1, PTL DEF Spec

\* Post-roll frames follow a motion frame within PostRoll, and carry its box.
THEOREM PostRollHolds == Spec => []PostRollJustified
<1>1. IInv => PostRollJustified
  BY DEF IInv
<1> QED
  BY InvInit, InvStep, <1>1, PTL DEF Spec

\* Every variable keeps its type: the times within the clock's bound, and every box
\* within the frame.
THEOREM TypeCorrect == Spec => []TypeOK
BY TypedInvariant, PTL

\* What goes out as motion is motion by the reference definition, whatever the frame,
\* block and zone sizes, against a frame of the same connection, and its box is the
\* hull of the changed blocks; and the gate overlooks no motion.
THEOREM MotionIsJustified == Spec => []MotionJustified
BY TypedInvariant, PTL

=============================================================================
