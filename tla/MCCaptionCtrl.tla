---------------------------- MODULE MCCaptionCtrl ----------------------------
(* Instances of CaptionCtrl for TLC: thresholds 2, 12 and 30 for the code's *)
(* 0.2, 500 and 70000, so that a few states reach every regime. *)
EXTENDS CaptionCtrl

\* From any of these to any other the algorithm is stable, better, worse or
\* resets; 40 is idle.
AllStates == {0, 1, 10, 20, 40}
OneState  == {10}
=============================================================================
