--------------------------- MODULE MCCaptionLoop ---------------------------
(* Instances of CaptionLoop for TLC. *)
EXTENDS CaptionLoop
=============================================================================
