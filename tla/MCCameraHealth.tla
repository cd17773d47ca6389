---------------------------- MODULE MCCameraHealth ----------------------------
(* Small instances of CameraHealth for TLC. *)
EXTENDS CameraHealth, TLC

CONSTANTS c1, c2, c3, s1, s2

OneSite == {s1}
TwoSites == {s1, s2}
TwoCameras == {c1, c2}
ThreeCameras == {c1, c2, c3}
===============================================================================
