---------------------------- MODULE MCCameraGrab ----------------------------
(* TLC instances of CameraGrab: the configurations hold the code's numbers.  *)
EXTENDS CameraGrab
=============================================================================
