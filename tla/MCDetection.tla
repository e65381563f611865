---------------------------- MODULE MCDetection ----------------------------
(* Instances of DetectionRefresh for TLC. *)
EXTENDS DetectionService
=============================================================================
