--------------------------- MODULE MCFramePipeline ---------------------------
(* One buffer for the reader, two in the channel, one with the worker.         *)
EXTENDS FramePipeline

CONSTANTS b1, b2, b3, b4

MCBuffers == {b1, b2, b3, b4}
=============================================================================
