---------------------------- MODULE MCCaptureFile ----------------------------
(* Model-checking instances of CaptureFile. *)
EXTENDS CaptureFile
=============================================================================
