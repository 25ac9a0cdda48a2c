---------------------------- MODULE MCMotionGate ----------------------------
(* Frames of 5 x 5 pixels in blocks of 2, so that a row and a column are left *)
(* over.  Against scene 1, scene 2 changes two blocks at the threshold;       *)
(* scene 3 one block, another just below the threshold, and the corner that   *)
(* is in no block.                                                            *)
EXTENDS MotionGate

Scene(pixels) == [p \in (0..4) \X (0..4) |->
  IF \E q \in pixels : q[1] = p THEN (CHOOSE q \in pixels : q[1] = p)[2] ELSE 0]

MCPicture == <<Scene({}),
               Scene({<<<<0, 0>>, 32>>, <<<<3, 3>>, 32>>}),
               Scene({<<<<2, 0>>, 32>>, <<<<1, 2>>, 31>>, <<<<4, 4>>, 255>>})>>

\* No zones; one block, by corners in the wrong order and outside of the frame,
\* and an item with a typing error; and a preset that leaves no block.
MCZoneChoices ==
  {{},
   {[kind |-> "tuple", corners |-> <<4, 2, 2, -3>>], [kind |-> "malformed"]},
   {[kind |-> "bottom-right-clock"]}}
=============================================================================
