----------------------------- MODULE Macroblocks -----------------------------
(***************************************************************************)
(* The detector's arithmetic: parseExcludeZones of config.go, and what       *)
(* motion.go makes of two frames.  A frame is a function from pixels to      *)
(* luminance, a pixel or a block is a pair <<x, y>>.  The sums are over whole *)
(* blocks: what is left at the right and at the bottom of the frame is in    *)
(* none.                                                                     *)
(***************************************************************************)
EXTENDS Integers, FiniteSetsExt

CONSTANTS FrameWidth, FrameHeight, BlockSize,
          MotionThreshold,       \* the mean difference that makes a block active
          MinActiveBlocks,
          LightingShiftPercent   \* LightingShiftRatio

ASSUME MacroblockAssumption == /\ FrameWidth \in Nat /\ FrameHeight \in Nat
                               /\ BlockSize \in Int
                               /\ MotionThreshold \in Nat
                               /\ MinActiveBlocks \in Nat
                               /\ LightingShiftPercent \in Nat \ {0}

Lesser(a, b) == IF a < b THEN a ELSE b
Greater(a, b) == IF a > b THEN a ELSE b

-----------------------------------------------------------------------------
(* parseExcludeZones.  An item is a preset, a tuple of corners, or malformed, *)
(* which is left out without a word.                                          *)

Presets == {"top-left-clock", "top-right-clock", "bottom-left-clock", "bottom-right-clock"}
Items == [kind : Presets \cup {"malformed"}] \cup [kind : {"tuple"}, corners : Int \X Int \X Int \X Int]

Corners(item) ==
  CASE item.kind = "top-left-clock"     -> <<0, 0, 480, 96>>
    [] item.kind = "top-right-clock"    -> <<FrameWidth - 448, 0, FrameWidth, 96>>
    [] item.kind = "bottom-left-clock"  -> <<0, FrameHeight - 96, 480, FrameHeight>>
    [] item.kind = "bottom-right-clock" -> <<FrameWidth - 480, FrameHeight - 96, FrameWidth, FrameHeight>>
    [] item.kind = "tuple"              -> item.corners

\* Only tuples are put in order and brought into the frame.
Zone(item) ==
  LET c == Corners(item) IN
  IF item.kind = "tuple"
  THEN <<Greater(Lesser(c[1], c[3]), 0), Greater(Lesser(c[2], c[4]), 0),
         Lesser(Greater(c[1], c[3]), FrameWidth), Lesser(Greater(c[2], c[4]), FrameHeight)>>
  ELSE c

WellFormed(items) == {item \in items : item.kind # "malformed"}

ParseExcludeZones(items) == {Zone(item) : item \in WellFormed(items)}

-----------------------------------------------------------------------------
(* NewMacroblockDetector *)

bs == IF BlockSize <= 0 THEN 32 ELSE BlockSize

Blocks == (0..(FrameWidth \div bs - 1)) \X (0..(FrameHeight \div bs - 1))

\* Mutant: a zone masks the blocks that it only touches, too.
IntersectsOrTouches(b, zone) ==
  /\ b[1] * bs <= zone[3] /\ (b[1] + 1) * bs >= zone[1]
  /\ b[2] * bs <= zone[4] /\ (b[2] + 1) * bs >= zone[2]

Intersects(b, zone) ==
  /\ b[1] * bs < zone[3] /\ (b[1] + 1) * bs > zone[1]
  /\ b[2] * bs < zone[4] /\ (b[2] + 1) * bs > zone[2]

Unmasked(zones) == {b \in Blocks : \A zone \in zones : ~Intersects(b, zone)}

EffectiveBlocks(zones) == Greater(Cardinality(Unmasked(zones)), 1)

-----------------------------------------------------------------------------
(* Analyze, when there is a last frame *)

PixelsOf(b) == ((b[1] * bs)..((b[1] + 1) * bs - 1)) \X ((b[2] * bs)..((b[2] + 1) * bs - 1))

BlockDiffSum(b, current, last) ==
  MapThenSumSet(LAMBDA p : Greater(current[p] - last[p], last[p] - current[p]), PixelsOf(b))

IsActive(b, current, last) == BlockDiffSum(b, current, last) >= MotionThreshold * bs * bs

NoBox == <<>>

BoxAround(active) ==
  LET xs == {b[1] : b \in active}
      ys == {b[2] : b \in active}
  IN <<Min(xs) * bs, Min(ys) * bs,
       Lesser((Max(xs) + 1) * bs, FrameWidth), Lesser((Max(ys) + 1) * bs, FrameHeight)>>

Analyze(zones, current, last) ==
  LET active == {b \in Unmasked(zones) : IsActive(b, current, last)}
      shift == 100 * Cardinality(active) >= LightingShiftPercent * EffectiveBlocks(zones)
      motion == Cardinality(active) >= MinActiveBlocks /\ ~shift
  IN [HasMotion |-> motion, IsLightingShift |-> shift,
      MotionBox |-> IF motion /\ active # {} THEN BoxAround(active) ELSE NoBox]

-----------------------------------------------------------------------------
(* What that should be: a block is excluded when a zone, as its corners were *)
(* written, has a point inside the block.  Points lie on a grid of half      *)
(* pixels.                                                                   *)

Between(p, a, b) == Lesser(a, b) * 2 <= p /\ p <= Greater(a, b) * 2

Excluded(b, item) == LET c == Corners(item) IN
  /\ \E p \in (2 * b[1] * bs + 1)..(2 * (b[1] + 1) * bs - 1) : Between(p, c[1], c[3])
  /\ \E p \in (2 * b[2] * bs + 1)..(2 * (b[2] + 1) * bs - 1) : Between(p, c[2], c[4])

Watched(items) == {b \in Blocks : \A item \in WellFormed(items) : ~Excluded(b, item)}

ChangedBlocks(items, current, last) == {b \in Watched(items) : IsActive(b, current, last)}

IsMotion(items, changed) ==
  /\ Cardinality(changed) >= MinActiveBlocks
  /\ changed # {} => 100 * Cardinality(changed) < LightingShiftPercent * Cardinality(Watched(items))

\* The box holds all of the changed blocks and is no larger than that.
IsBoxOf(box, changed) ==
  IF changed = {} THEN box = NoBox
  ELSE /\ \A b \in changed : PixelsOf(b) \subseteq (box[1]..(box[3] - 1)) \X (box[2]..(box[4] - 1))
       /\ \E b \in changed : <<box[1], b[2] * bs>> \in PixelsOf(b)
       /\ \E b \in changed : <<b[1] * bs, box[2]>> \in PixelsOf(b)
       /\ \E b \in changed : <<box[3] - 1, b[2] * bs>> \in PixelsOf(b)
       /\ \E b \in changed : <<b[1] * bs, box[4] - 1>> \in PixelsOf(b)

=============================================================================
