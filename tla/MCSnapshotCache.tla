--------------------------- MODULE MCSnapshotCache ---------------------------
(* Two requests at a time, and one for the shortest stale reply.               *)
EXTENDS SnapshotCache

CONSTANTS h1, h2

MCHandlers == {h1, h2}
MCOneHandler == {h1}
=============================================================================
