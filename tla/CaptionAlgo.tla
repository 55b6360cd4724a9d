----------------------------- MODULE CaptionAlgo -----------------------------
(***************************************************************************)
(* The decision of Caption (caption_ae/algo.py): from the state of the     *)
(* system now and at the decision before, the step made then and the ratio *)
(* it led to, the next step and the next share of memory (bot) that is     *)
(* interleaved to CXL against IL_TOP_RESET on DDR.                         *)
(* States are integers, UNIT of them to the code's 1.0, so that            *)
(* TUNE_THRESHOLD (the code's TUNE_TRESHOLD, 0.2) is one too.              *)
(***************************************************************************)
EXTENDS Integers

CONSTANTS
    IL_TOP_RESET, IL_BOT_MAX, IL_BOT_RESET,     \* ratios
    STEP_RESET, MIN_STEP,                       \* steps of the ratio
    UNIT, RESET_THRESHOLD, TUNE_THRESHOLD, IDLE_THRESHOLD

ASSUME RatioAssumption ==
    /\ IL_TOP_RESET \in Nat \ {0}
    /\ IL_BOT_MAX \in Nat /\ IL_BOT_RESET \in 1 .. IL_BOT_MAX
ASSUME StepAssumption ==
    MIN_STEP \in Nat \ {0} /\ STEP_RESET \in Nat /\ MIN_STEP <= STEP_RESET
ASSUME ThresholdAssumption ==
    /\ UNIT \in Nat /\ TUNE_THRESHOLD \in 1 .. UNIT
    /\ RESET_THRESHOLD \in Nat /\ UNIT <= RESET_THRESHOLD
    /\ IDLE_THRESHOLD \in Int

Abs(x) == IF x < 0 THEN -x ELSE x

\* Which of the branches of algo() is taken, tested in this order.
Regime(dyn, stc) ==
    IF dyn > IDLE_THRESHOLD THEN "idle"
    ELSE IF Abs(dyn - stc) < TUNE_THRESHOLD THEN "stable"
    ELSE IF Abs(dyn - stc) > RESET_THRESHOLD THEN "reset"
    ELSE "tune"

\* int() of h/2: towards zero.
Halved(h) == IF h >= 0 THEN h \div 2 ELSE -((-h) \div 2)

\* Mutant: the bound keeps a step too small to be one.
BoundStepNot(h) == Halved(h)
\* The step h/2, no smaller than MIN_STEP in either direction.
BoundStep(h) ==
    IF -2 * MIN_STEP < h /\ h < 2 * MIN_STEP
    THEN IF h < 0 THEN -MIN_STEP ELSE MIN_STEP
    ELSE Halved(h)

\* Mutant: a step that made things worse is halved but not reversed.
TunedStepOnward(diff, step) == BoundStep(IF diff > 0 THEN 2 * step ELSE step)
\* Go on after an improvement, else back by half the step.
TunedStep(diff, step) == BoundStep(IF diff > 0 THEN 2 * step ELSE -step)

BoundRatio(r) ==
    IF r <= 1 THEN 1 ELSE IF r >= IL_BOT_MAX THEN IL_BOT_MAX ELSE r

\* What algo() returns: -1 for "back to the default ratio".
NewStep(dyn, stc, step) ==
    CASE Regime(dyn, stc) = "idle"   -> MIN_STEP
      [] Regime(dyn, stc) = "stable" -> IF step < 0 THEN -MIN_STEP ELSE MIN_STEP
      [] Regime(dyn, stc) = "reset"  -> STEP_RESET
      [] OTHER                       -> TunedStep(dyn - stc, step)

NewRatio(dyn, stc, step, ratio) ==
    CASE Regime(dyn, stc) \in {"idle", "stable"} -> ratio
      [] Regime(dyn, stc) = "reset"              -> -1
      [] OTHER -> BoundRatio(ratio + TunedStep(dyn - stc, step))

\* Mutant: a reset is not written down.
WritesUnlessReset(dyn, stc) == Regime(dyn, stc) \notin {"idle", "reset"}
\* Only an idle system is left without a call of set_ratio.
Writes(dyn, stc) == Regime(dyn, stc) # "idle"

\* What the caller keeps of the ratio returned (and what set_ratio was given).
Tracked(ratio) == IF ratio < 0 THEN IL_BOT_RESET ELSE ratio
=============================================================================
