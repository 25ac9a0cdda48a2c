--------------------------- MODULE MCAlertService ---------------------------
(* Alerts of two cameras, or of one with a malformed alert between them.       *)
EXTENDS AlertService

MCCameras == {"cam1", "cam2", "unknown"}
MCTwoCameras == <<"cam1", "cam2", "cam1">>
MCMixed == <<"cam1", "unknown", "cam1">>
=============================================================================
