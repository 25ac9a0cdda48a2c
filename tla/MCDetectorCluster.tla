-------------------------- MODULE MCDetectorCluster --------------------------
(* Two replicas.  Five frames of camera 1 show nobody, a person, the same      *)
(* image again, another person, and one that does not decode.                  *)
EXTENDS DetectorCluster

CONSTANTS r1, r2, none

MCReplicas == {r1, r2}
MCNoHash == none

MCOneCamera == <<1, 1, 1, 1, 1>>
MCImages == <<"a", "b", "b", "c", "d">>

\* Three frames of two cameras, the first two alike, the last one broken.
MCThreeCameras == <<1, 1, 2>>
MCThreeHashes == <<"a", "a", "b">>
=============================================================================
