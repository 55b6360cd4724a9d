--------------------------- MODULE MCCaptionClimb ---------------------------
(* Instances of CaptionClimb for TLC, with the constants of config.py. *)
EXTENDS CaptionClimb

\* A state that is `best' at the peak, less by `up' for every ratio below it and
\* by `down' for every ratio above it, in tenths.
Tent(best, peak, up, down) ==
    [r \in Ratios |-> IF r <= peak THEN best - up * (peak - r)
                                   ELSE best - down * (r - peak)]

\* Slopes on either side of the thresholds of algo(), for one ratio or for a
\* step; a state about that of an idle system.
Tents == {Tent(best, peak, up, down) :
              best \in {5000, 700010}, peak \in Ratios,
              up \in {2, 15}, down \in {1, 2, 15, 2000}}
=============================================================================
