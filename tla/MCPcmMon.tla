------------------------------ MODULE MCPcmMon ------------------------------
(* Instance of PcmMon for TLC. *)
EXTENDS PcmMon

\* Reports with all their values, and without a DDR latency.
TwoFounds == {KeySet, KeySet \ {"pcm_ddrReadLat"}}

\* More reports than a window holds of the process with two keys.
ThreeAndOne == [p \in Processes |-> IF p = "latency" THEN 3 ELSE 1]
=============================================================================
