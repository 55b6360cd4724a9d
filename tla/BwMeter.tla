------------------------------ MODULE BwMeter ------------------------------
(***************************************************************************)
(* What get_bw() promises, without threads or counters: a reading of the   *)
(* work done so far lies between the work done when it began and the work  *)
(* done when it is reported, and no work is done once the run is over.     *)
(***************************************************************************)
EXTENDS Integers

VARIABLES total,    \* operations done by all threads
          floor,    \* operations done when the reading began, 0 when idle
          reading,  \* the last reading reported
          phase     \* "idle", "reading" or "over"

vars == <<total, floor, reading, phase>>

Init == total = 0 /\ floor = 0 /\ reading = 0 /\ phase = "idle"

Work == /\ phase # "over"
        /\ total' = total + 1
        /\ UNCHANGED <<floor, reading, phase>>

Begin == /\ phase = "idle"
         /\ phase' = "reading" /\ floor' = total
         /\ UNCHANGED <<total, reading>>

End == /\ phase = "reading"
       /\ phase' = "idle" /\ floor' = 0
       /\ reading' \in floor .. total
       /\ UNCHANGED total

Over == /\ phase # "over"
        /\ phase' = "over"
        /\ UNCHANGED <<total, floor, reading>>

Next == Work \/ Begin \/ End \/ Over

Spec == Init /\ [][Next]_vars
=============================================================================
