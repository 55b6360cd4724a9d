------------------------- MODULE CaptionClimbProofs -------------------------
(***************************************************************************)
(* Proofs about CaptionClimb, for every profile (with any number of peaks, *)
(* or none), all ratios, steps and thresholds the assumptions admit.       *)
(***************************************************************************)
EXTENDS CaptionClimb, TLAPS

LEMMA ConstantTypes ==
    /\ IL_BOT_MAX \in Nat /\ IL_BOT_RESET \in Nat
    /\ 1 <= IL_BOT_RESET /\ IL_BOT_RESET <= IL_BOT_MAX
    /\ STEP_RESET \in Nat /\ MIN_STEP \in Nat /\ 1 <= MIN_STEP
    /\ MIN_STEP <= STEP_RESET
    /\ UNIT \in Nat
    /\ MAX_TUNE_ITER \in Nat /\ 1 <= MAX_TUNE_ITER
  BY RatioAssumption, StepAssumption, ThresholdAssumption, IterAssumption

----------------------------------------------------------------------------
(* Steps. *)

\* A bounded step has the direction of the one before, or is one upwards when
\* there was none, and is as long as half of it, or MIN_STEP.
LEMMA BoundStepDirection ==
    ASSUME NEW h \in Int
    PROVE  /\ BoundStep(h) \in Int
           /\ h < 0 => BoundStep(h) <= -MIN_STEP
           /\ h >= 0 => BoundStep(h) >= MIN_STEP
           /\ -2 * STEP_RESET <= h /\ h <= 2 * STEP_RESET
                => -STEP_RESET <= BoundStep(h) /\ BoundStep(h) <= STEP_RESET
<1> USE ConstantTypes
<1>1. CASE -2 * MIN_STEP < h /\ h < 2 * MIN_STEP
  BY <1>1 DEF BoundStep
<1>2. CASE h >= 2 * MIN_STEP
  <2>1. BoundStep(h) = h \div 2
    BY <1>2 DEF BoundStep, Halved
  <2>2. /\ h \div 2 \in Int /\ h \div 2 >= MIN_STEP
        /\ h <= 2 * STEP_RESET => h \div 2 <= STEP_RESET
    BY <1>2
  <2> QED BY <1>2, <2>1, <2>2
<1>3. CASE h <= -2 * MIN_STEP
  <2> DEFINE n == -h
  <2>1. n \in Int /\ n >= 2 * MIN_STEP /\ h < 0
        /\ (-2 * STEP_RESET <= h => n <= 2 * STEP_RESET)
    BY <1>3
  <2>2. BoundStep(h) = -(n \div 2)
    BY <1>3 DEF BoundStep, Halved
  <2> HIDE DEF n
  <2>3. /\ n \div 2 \in Int /\ n \div 2 >= MIN_STEP
        /\ n <= 2 * STEP_RESET => n \div 2 <= STEP_RESET
    BY <2>1
  <2> QED BY <2>1, <2>2, <2>3
<1> QED BY <1>1, <1>2, <1>3

\* A step after an improvement goes on, and one after a loss goes back.
LEMMA TunedStepDirection ==
    ASSUME NEW diff \in Int, NEW s \in -STEP_RESET .. STEP_RESET
    PROVE  /\ TunedStep(diff, s) \in -STEP_RESET .. STEP_RESET
           /\ diff <= 0 /\ s > 0 => TunedStep(diff, s) < 0
           /\ diff <= 0 /\ s < 0 => TunedStep(diff, s) > 0
<1> USE ConstantTypes
<1>1. CASE diff > 0
  <2>1. 2 * s \in Int /\ -2 * STEP_RESET <= 2 * s /\ 2 * s <= 2 * STEP_RESET
    OBVIOUS
  <2>2. TunedStep(diff, s) = BoundStep(2 * s)
    BY <1>1 DEF TunedStep
  <2> QED BY <1>1, <2>1, <2>2, BoundStepDirection
<1>2. CASE ~(diff > 0)
  <2>1. -s \in Int /\ -2 * STEP_RESET <= -s /\ -s <= 2 * STEP_RESET
        /\ (s > 0 => -s < 0) /\ (s < 0 => -s >= 0)
    OBVIOUS
  <2>2. TunedStep(diff, s) = BoundStep(-s)
    BY <1>2 DEF TunedStep
  <2> QED BY <2>1, <2>2, BoundStepDirection
<1> QED BY <1>1, <1>2

\* A bounded ratio is one of those the kernel knows, and never further from a
\* ratio than the unbounded one.
LEMMA BoundRatioTowards ==
    ASSUME NEW r \in Ratios, NEW s \in Int
    PROVE  /\ BoundRatio(r + s) \in Ratios
           /\ s <= 0 => BoundRatio(r + s) <= r
           /\ s >= 0 => BoundRatio(r + s) >= r
  BY ConstantTypes DEF BoundRatio, Ratios

\* A tuned step has a length; a step up is at most the initial one, and one
\* that turns up after a step down is not longer than that.
LEMMA TunedStepLength ==
    ASSUME NEW diff \in Int, NEW s \in -STEP_RESET .. STEP_RESET,
           s <= -MIN_STEP \/ MIN_STEP <= s
    PROVE  /\ TunedStep(diff, s) <= -MIN_STEP \/ MIN_STEP <= TunedStep(diff, s)
           /\ diff > 0 /\ s < 0 => TunedStep(diff, s) < 0
           /\ diff <= 0 /\ s < 0 => TunedStep(diff, s) <= -s
<1> USE ConstantTypes
<1>1. CASE diff > 0
  <2>1. /\ TunedStep(diff, s) = BoundStep(2 * s) /\ 2 * s \in Int
        /\ s < 0 => 2 * s < 0
    BY <1>1 DEF TunedStep
  <2> QED BY <1>1, <2>1, BoundStepDirection
<1>2. CASE ~(diff > 0)
  <2> DEFINE h == -s
  <2>1. TunedStep(diff, s) = BoundStep(h) /\ h \in Int
    BY <1>2 DEF TunedStep
  <2>2. ASSUME s < 0 PROVE BoundStep(h) <= h
    <3>1. h \in Nat /\ h >= MIN_STEP
      BY <2>2
    <3> HIDE DEF h
    <3> QED BY <3>1 DEF BoundStep, Halved
  <2> HIDE DEF h
  <2>3. BoundStep(h) <= -MIN_STEP \/ MIN_STEP <= BoundStep(h)
    BY <2>1, BoundStepDirection
  <2> QED BY <1>2, <2>1, <2>2, <2>3 DEF h
<1> QED BY <1>1, <1>2

----------------------------------------------------------------------------
(* Decisions. *)

\* The state measured and the one it is compared with are numbers.
LEMMA Measured ==
    ASSUME TypeOK
    PROVE  /\ perf[used] \in Int
           /\ CompareWith(perf[used]) \in Int
           /\ perf[used] - CompareWith(perf[used]) \in Int
<1>1. perf \in [Ratios -> Int] /\ used \in Ratios
  BY ProfilesAssumption DEF TypeOK
<1>2. perf[used] \in Int
  BY <1>1
<1>3. CompareWith(perf[used]) \in Int
  BY <1>2, ConstantTypes DEF CompareWith, FirstState, TypeOK
<1> QED BY <1>2, <1>3

\* A decision holds the ratio, goes back to the default, or makes a tuned step;
\* it resets or tunes only if the state has changed.
LEMMA ThreeWays ==
    ASSUME TypeOK, Tune,
           NEW dyn, dyn = perf[used],
           NEW stc, stc = CompareWith(perf[used]),
           NEW s, s = TunedStep(dyn - stc, step)
    PROVE  \/ /\ Regime(dyn, stc) = "idle" /\ dyn > IDLE_THRESHOLD
              /\ ratio' = ratio /\ step' = MIN_STEP
           \/ /\ Regime(dyn, stc) = "stable"
              /\ ratio' = ratio
              /\ step' = IF step < 0 THEN -MIN_STEP ELSE MIN_STEP
           \/ /\ Regime(dyn, stc) = "reset" /\ dyn # stc
              /\ ratio' = IL_BOT_RESET /\ step' = STEP_RESET
           \/ /\ Regime(dyn, stc) = "tune" /\ dyn # stc
              /\ ratio' = BoundRatio(ratio + s) /\ step' = s
<1> USE ConstantTypes
<1>1. /\ ratio' = Tracked(NewRatio(dyn, stc, step, ratio))
      /\ step' = NewStep(dyn, stc, step)
  BY DEF Tune
<1>2. dyn \in Int /\ stc \in Int /\ dyn - stc \in Int
  BY Measured
<1>3. s \in Int
  BY <1>2, TunedStepDirection DEF TypeOK
<1>4. ratio \in Ratios /\ BoundRatio(ratio + s) \in Ratios
  BY <1>3, BoundRatioTowards DEF TypeOK
<1>5. \A x \in Ratios : Tracked(x) = x
  BY DEF Tracked, Ratios
<1>6. dyn = stc => Regime(dyn, stc) \in {"idle", "stable"}
  BY <1>2, ThresholdAssumption DEF Regime, Abs
<1>7. CASE Regime(dyn, stc) = "idle"
  <2>1. dyn > IDLE_THRESHOLD
    BY <1>7 DEF Regime
  <2> QED BY <1>1, <1>4, <1>5, <1>7, <2>1 DEF NewRatio, NewStep
<1>8. CASE Regime(dyn, stc) = "stable"
  BY <1>1, <1>4, <1>5, <1>8 DEF NewRatio, NewStep
<1>9. CASE Regime(dyn, stc) = "reset"
  BY <1>1, <1>6, <1>9 DEF NewRatio, NewStep, Tracked
<1>10. CASE Regime(dyn, stc) = "tune"
  BY <1>1, <1>4, <1>5, <1>6, <1>10 DEF NewRatio, NewStep
<1>11. Regime(dyn, stc) \in {"idle", "stable", "reset", "tune"}
  BY DEF Regime
<1> QED BY <1>7, <1>8, <1>9, <1>10, <1>11

\* What a decision leaves: a ratio and a step of the right range, of a length.
LEMMA TuneKeepsTypes ==
    ASSUME TypeOK, MinimalStep, RunInv, Tune
    PROVE  TypeOK' /\ MinimalStep'
<1> USE ConstantTypes
<1> DEFINE diff == perf[used] - CompareWith(perf[used])
<1>1. PICK s : s = TunedStep(diff, step)
  OBVIOUS
<1>2. diff \in Int /\ perf[used] \in Int
  BY Measured
<1>3. step \in -STEP_RESET .. STEP_RESET /\ ratio \in Ratios
      /\ IL_BOT_RESET \in Ratios
  BY DEF TypeOK, Ratios
<1>4. s \in -STEP_RESET .. STEP_RESET /\ (s <= -MIN_STEP \/ MIN_STEP <= s)
  BY <1>1, <1>2, <1>3, TunedStepDirection, TunedStepLength DEF MinimalStep
<1>5. BoundRatio(ratio + s) \in Ratios
  BY <1>3, <1>4, BoundRatioTowards
<1>6. /\ ratio' \in Ratios
      /\ step' \in {MIN_STEP, -MIN_STEP, STEP_RESET, s}
  BY <1>1, <1>3, <1>5, ThreeWays
<1>7. step' \in -STEP_RESET .. STEP_RESET /\ MinimalStep'
  <2> HIDE DEF diff
  <2> QED BY <1>4, <1>6 DEF MinimalStep
<1>8. /\ state' = perf[used] /\ firstTime' = FALSE
      /\ pc = "tune" /\ pc' \in {"run", "end"} /\ tuneIter' = tuneIter + 1
      /\ before' = ratio /\ earlier' = before
      /\ UNCHANGED <<appVars, started, used>>
  BY DEF Tune
<1>9. tuneIter' \in 0 .. MAX_TUNE_ITER
  BY <1>8 DEF RunInv, TypeOK
<1> QED BY <1>2, <1>6, <1>7, <1>8, <1>9 DEF TypeOK, appVars

----------------------------------------------------------------------------
(* The invariant. *)

\* The first run has the default ratio, which is within every bound.
LEMMA InitInv == Init => Inv
<1> SUFFICES ASSUME Init PROVE Inv
  OBVIOUS
<1> USE ConstantTypes
<1>1. TypeOK /\ MinimalStep
  BY DEF Init, TypeOK, MinimalStep, Ratios
<1>2. RunInv /\ MeasuredInv /\ SignInv
  BY DEF Init, RunInv, MeasuredInv, SignInv
<1>3. ClimbInv
  <2>1. ASSUME NEW r \in Ratios PROVE Within(ratio, r)
    BY DEF Init, Within, Ratios
  <2> QED BY <2>1 DEF Init, ClimbInv
<1> QED BY <1>1, <1>2, <1>3 DEF Inv

\* A run has its memory at a ratio between those of the decision.
LEMMA RestartKeepsInv ==
    ASSUME Inv, Restart
    PROVE  Inv'
<1> USE DEF Inv
<1>1. /\ pc = "run" /\ pc' = "tune" /\ started = before
      /\ used' \in Given(before, ratio) /\ started' = ratio
      /\ UNCHANGED <<perf, gradual, tuneIter, ratio, step, state, firstTime,
                     before, earlier>>
  BY DEF Restart, RunInv, appVars, ctrlVars, historyVars
<1>2. Given(before, ratio) \subseteq Ratios
  BY DEF Given, Between, TypeOK
<1>3. TypeOK'
  BY <1>1, <1>2 DEF TypeOK
<1>4. MinimalStep' /\ MeasuredInv' /\ SignInv'
  BY <1>1 DEF MinimalStep, MeasuredInv, SignInv
<1>5. RunInv'
  BY <1>1 DEF RunInv, Given
<1>6. ClimbInv'
  BY <1>1 DEF ClimbInv, Within, FallsPast, LedFrom
<1> QED BY <1>3, <1>4, <1>5, <1>6

\* A decision raises the ratio by an upward step, and a downward step from a ratio
\* it was raised to lowers it.
LEMMA TuneKeepsSign ==
    ASSUME Inv, Tune
    PROVE  SignInv'
<1> USE ConstantTypes DEF Inv
<1> DEFINE diff == perf[used] - CompareWith(perf[used])
<1>1. PICK s : s = TunedStep(diff, step)
  OBVIOUS
<1>2. diff \in Int /\ step \in -STEP_RESET .. STEP_RESET
  BY Measured DEF TypeOK
<1>3. s \in -STEP_RESET .. STEP_RESET /\ (s <= -MIN_STEP \/ MIN_STEP <= s)
  BY <1>1, <1>2, TunedStepDirection, TunedStepLength DEF MinimalStep
<1>4. ratio \in Ratios /\ before \in Ratios
  BY DEF TypeOK
<1>5. /\ s < 0 => BoundRatio(ratio + s) <= ratio
      /\ s < 0 /\ before < ratio => BoundRatio(ratio + s) < ratio
      /\ BoundRatio(ratio + s) \in Int
  BY <1>3, <1>4, BoundRatioTowards DEF BoundRatio, Ratios
<1>6. before' = ratio /\ earlier' = before
  BY DEF Tune
<1>7. \/ ratio' = ratio /\ (step > 0 => step' > 0)
      \/ step' > 0
      \/ ratio' = BoundRatio(ratio + s) /\ step' = s
  BY <1>1, <1>2, ThreeWays
<1> HIDE DEF diff
<1>8. ratio < ratio' => step' > 0
  BY <1>3, <1>4, <1>5, <1>7 DEF Ratios
<1>9. before < ratio /\ ratio <= ratio' => step' > 0
  BY <1>3, <1>4, <1>5, <1>7 DEF Ratios, SignInv
<1> QED BY <1>6, <1>8, <1>9 DEF SignInv

\* A decision to tune an application that allocates at one moment does not pass r
\* by two steps: it goes up on a gain, made before r was passed, or back up after a
\* step down.
LEMMA TunedWithin ==
    ASSUME Inv, Tune, ~gradual, NEW r \in Ratios, FallsPast(r),
           IL_BOT_RESET < r + STEP_RESET, used = ratio,
           NEW diff, diff = perf[used] - CompareWith(perf[used]), diff # 0,
           ~(perf[used] > IDLE_THRESHOLD)
    PROVE  BoundRatio(ratio + TunedStep(diff, step)) < r + 2 * STEP_RESET
<1> USE ConstantTypes DEF Inv
<1>1. /\ ratio \in Ratios /\ ratio \in Nat /\ r \in Nat /\ 1 <= ratio /\ 1 <= r
      /\ ratio <= IL_BOT_MAX /\ r <= IL_BOT_MAX
      /\ step \in Int /\ step \in -STEP_RESET .. STEP_RESET
      /\ perf \in [Ratios -> Int] /\ state \in Int
      /\ IL_BOT_RESET \in Ratios /\ IDLE_THRESHOLD \in Int
  BY ProfilesAssumption, ThresholdAssumption DEF TypeOK, Ratios
<1>2. diff \in Int
  BY Measured
<1>3. PICK s : s = TunedStep(diff, step)
  OBVIOUS
<1>4. step <= -MIN_STEP \/ MIN_STEP <= step
  BY DEF MinimalStep
<1>5. /\ s \in Int /\ s <= STEP_RESET
      /\ s <= -MIN_STEP \/ MIN_STEP <= s
      /\ diff <= 0 /\ step > 0 => s < 0
      /\ diff > 0 /\ step < 0 => s < 0
      /\ diff <= 0 /\ step < 0 => s <= -step
  <2>1. /\ s \in -STEP_RESET .. STEP_RESET
        /\ diff <= 0 /\ step > 0 => s < 0
    BY <1>1, <1>2, <1>3, TunedStepDirection
  <2>2. /\ s <= -MIN_STEP \/ MIN_STEP <= s
        /\ diff > 0 /\ step < 0 => s < 0
        /\ diff <= 0 /\ step < 0 => s <= -step
    BY <1>1, <1>2, <1>3, <1>4, TunedStepLength
  <2> QED BY <2>1, <2>2
<1>6. ratio < r + 2 * STEP_RESET
  BY DEF ClimbInv, Within
<1>7. CASE s < 0
  <2>1. BoundRatio(ratio + s) <= ratio /\ BoundRatio(ratio + s) \in Int
    BY <1>1, <1>5, <1>7, BoundRatioTowards DEF Ratios
  <2> QED BY <1>1, <1>3, <1>6, <2>1
<1>8. CASE ratio < r + STEP_RESET
  <2>1. ratio + s < r + 2 * STEP_RESET
    BY <1>1, <1>5, <1>8
  <2> QED BY <1>1, <1>3, <1>5, <2>1 DEF BoundRatio
<1>9. CASE firstTime
  BY <1>1, <1>8, <1>9 DEF RunInv
<1>10. CASE ~firstTime /\ s >= 0
  <2>1. PICK q \in Ratios : state = perf[q] /\ LedFrom(q) /\ Within(q, r)
    BY <1>10 DEF ClimbInv
  <2>2. q \in Nat /\ 1 <= q /\ q <= IL_BOT_MAX /\ q < r + 2 * STEP_RESET
    BY <2>1 DEF Within, Ratios
  <2>3. diff = perf[ratio] - perf[q] /\ ratio # q
    <3>1. diff = perf[ratio] - perf[q]
      BY <1>10, <2>1 DEF CompareWith
    <3>2. perf[q] \in Int
      BY <1>1
    <3> QED BY <3>1, <3>2
  <2>4. CASE ratio = IL_BOT_RESET
    BY <1>1, <1>8, <2>4
  <2>5. CASE \E z \in -STEP_RESET .. STEP_RESET :
               /\ ratio = BoundRatio(q + z)
               /\ step > 0 => z > 0 \/ state > IDLE_THRESHOLD
               /\ step < 0 => z <= step
    <3>1. PICK z \in -STEP_RESET .. STEP_RESET :
               /\ ratio = BoundRatio(q + z)
               /\ step > 0 => z > 0 \/ state > IDLE_THRESHOLD
               /\ step < 0 => z <= step
      BY <2>5
    <3>2. perf[ratio] \in Int /\ perf[q] \in Int
      BY <1>1
    <3>3. CASE diff > 0
      <4>1. step > 0
        BY <1>1, <1>4, <1>5, <1>10, <3>3
      <4>2. z > 0
        BY <1>1, <2>1, <2>3, <3>1, <3>2, <3>3, <4>1
      <4>3. q <= ratio /\ ratio <= q + z
        BY <1>1, <2>2, <3>1, <4>2 DEF BoundRatio
      <4>4. q < r
        <5>1. r <= q => perf[ratio] <= perf[q]
          BY <1>1, <2>2, <4>3 DEF FallsPast
        <5> QED BY <1>1, <2>2, <2>3, <3>2, <3>3, <5>1
      <4> QED BY <1>1, <1>8, <2>2, <4>3, <4>4
    <3>4. CASE ~(diff > 0)
      <4>1. step < 0 /\ s <= -step /\ z <= step
        BY <1>1, <1>2, <1>4, <1>5, <1>10, <3>1, <3>4
      <4>2. ratio = q + z \/ ratio = 1
        BY <1>1, <2>2, <3>1, <4>1 DEF BoundRatio
      <4>3. CASE ratio = 1
        BY <1>1, <1>8, <4>3
      <4>4. CASE ratio = q + z
        <5>1. ratio + s <= q
          BY <1>1, <1>5, <2>2, <4>1, <4>4
        <5>2. BoundRatio(ratio + s) <= q
          BY <1>1, <1>5, <2>2, <5>1 DEF BoundRatio
        <5>3. BoundRatio(ratio + s) \in Int
          BY <1>1, <1>5, BoundRatioTowards DEF Ratios
        <5> QED BY <1>1, <1>3, <2>2, <5>2, <5>3
      <4> QED BY <4>2, <4>3, <4>4
    <3> QED BY <3>2, <3>3, <3>4
  <2> QED BY <2>1, <2>3, <2>4, <2>5 DEF LedFrom
<1> QED BY <1>5, <1>7, <1>9, <1>10

\* A run that had the ratio of the run before is measured the same, and moves
\* nothing; one that had the ratio in force tells where that ratio leads.
LEMMA TuneKeepsClimb ==
    ASSUME Inv, Tune, TypeOK'
    PROVE  ClimbInv'
<1> USE ConstantTypes DEF Inv
<1> SUFFICES ASSUME ~gradual PROVE ClimbInv'
  BY DEF ClimbInv, Tune, appVars
<1> DEFINE dyn == perf[used]
           stc == CompareWith(dyn)
<1>1. PICK s : s = TunedStep(dyn - stc, step)
  OBVIOUS
<1>2. /\ dyn \in Int /\ stc \in Int /\ dyn - stc \in Int
      /\ step \in -STEP_RESET .. STEP_RESET
      /\ ratio \in Ratios /\ IL_BOT_RESET \in Ratios /\ Ratios \subseteq Nat
  BY Measured DEF TypeOK, Ratios
<1>3. /\ state' = dyn /\ firstTime' = FALSE /\ before' = ratio
      /\ perf' = perf /\ gradual' = gradual
  BY DEF Tune, appVars
<1>4. \A x, r : Within(x, r)' <=> Within(x', r)
  BY <1>3 DEF Within, FallsPast
<1>5. used \in {before, ratio}
  BY DEF Tune, RunInv, Given
<1>6. \/ /\ dyn > IDLE_THRESHOLD
         /\ ratio' = ratio /\ step' = MIN_STEP
      \/ /\ ratio' = ratio
         /\ step' = IF step < 0 THEN -MIN_STEP ELSE MIN_STEP
      \/ /\ dyn # stc /\ ratio' = IL_BOT_RESET
      \/ /\ Regime(dyn, stc) = "tune" /\ dyn # stc
         /\ ratio' = BoundRatio(ratio + s) /\ step' = s
  BY <1>1, ThreeWays
<1>7. CASE used = ratio
  <2>1. s \in -STEP_RESET .. STEP_RESET
    BY <1>1, <1>2, TunedStepDirection
  <2>2. ASSUME NEW r \in Ratios PROVE Within(ratio', r)
    <3> SUFFICES ASSUME FallsPast(r), IL_BOT_RESET < r + STEP_RESET
                 PROVE  ratio' < r + 2 * STEP_RESET
      BY DEF Within
    <3>1. CASE ratio' = ratio
      BY <3>1 DEF ClimbInv, Within
    <3>2. CASE ratio' = IL_BOT_RESET
      BY <1>2, <3>2 DEF Ratios
    <3>3. CASE /\ Regime(dyn, stc) = "tune" /\ dyn # stc
               /\ ratio' = BoundRatio(ratio + s)
      <4>1. ~(dyn > IDLE_THRESHOLD)
        BY <3>3 DEF Regime
      <4>2. dyn - stc # 0
        <5> HIDE DEF dyn, stc
        <5> QED BY <1>2, <3>3
      <4> QED BY <1>1, <1>7, <3>3, <4>1, <4>2, TunedWithin
    <3> QED BY <1>6, <3>1, <3>2, <3>3
  <2>3. PICK q \in Ratios : q = ratio
    BY <1>2
  <2>4. LedFrom(q)'
    <3>1. ratio' \in {q, IL_BOT_RESET} \/ (ratio' = BoundRatio(q + s) /\ step' = s)
      BY <1>6, <2>3
    <3>2. step' = s => (step' > 0 => s > 0) /\ (step' < 0 => s <= step')
      BY <2>1
    <3> HIDE DEF dyn, stc
    <3> QED BY <2>1, <3>1, <3>2 DEF LedFrom, BoundRatio
  <2>5. state' = perf'[q] /\ before' \in {q, ratio'}
    BY <1>3, <1>7, <2>3
  <2>6. \A r \in Ratios : Within(ratio, r)' /\ Within(q, r)'
    BY <1>3, <1>4, <2>2, <2>3 DEF ClimbInv, Within, FallsPast
  <2> QED BY <2>4, <2>5, <2>6 DEF ClimbInv
<1>8. CASE used # ratio
  <2>1. used = before /\ before # ratio
    BY <1>5, <1>8
  <2>2. ~firstTime
    BY <2>1 DEF RunInv
  <2>3. PICK q \in Ratios :
              /\ state = perf[q] /\ before \in {q, ratio}
              /\ LedFrom(q)
              /\ \A r \in Ratios : Within(q, r)
    BY <2>2 DEF ClimbInv
  <2>4. used = q /\ dyn = stc /\ dyn = state
    BY <2>1, <2>2, <2>3 DEF CompareWith
  <2>5. /\ ratio' = ratio /\ state' = state
        /\ \/ dyn > IDLE_THRESHOLD /\ step' = MIN_STEP
           \/ step' = IF step < 0 THEN -MIN_STEP ELSE MIN_STEP
    BY <1>3, <1>6, <2>4
  <2>6. LedFrom(q)'
    <3>1. CASE ratio \in {q, IL_BOT_RESET}
      BY <2>5, <3>1 DEF LedFrom
    <3>2. CASE \E z \in -STEP_RESET .. STEP_RESET :
               /\ ratio = BoundRatio(q + z)
               /\ step > 0 => z > 0 \/ state > IDLE_THRESHOLD
               /\ step < 0 => z <= step
      <4>1. PICK z \in -STEP_RESET .. STEP_RESET :
               /\ ratio = BoundRatio(q + z)
               /\ step > 0 => z > 0 \/ state > IDLE_THRESHOLD
               /\ step < 0 => z <= step
        BY <3>2
      <4>2. step <= -MIN_STEP \/ MIN_STEP <= step
        BY DEF MinimalStep
      <4>3. /\ step' > 0 => z > 0 \/ state' > IDLE_THRESHOLD
            /\ step' < 0 => z <= step'
        <5>1. dyn = state /\ state' = state
          BY <2>4, <2>5
        <5> HIDE DEF dyn, stc
        <5> QED BY <1>2, <2>5, <4>1, <4>2, <5>1
      <4>4. ratio' = BoundRatio(q + z)
        BY <2>5, <4>1
      <4> QED BY <4>1, <4>3, <4>4 DEF LedFrom, BoundRatio
    <3> QED BY <2>3, <3>1, <3>2 DEF LedFrom
  <2>7. before' \in {q, ratio'} /\ state' = perf'[q]
    BY <1>3, <2>3, <2>5
  <2>8. \A r \in Ratios : Within(ratio, r)' /\ Within(q, r)'
    BY <1>3, <2>3, <2>5 DEF ClimbInv, Within, FallsPast
  <2> QED BY <2>6, <2>7, <2>8 DEF ClimbInv
<1> QED BY <1>7, <1>8

LEMMA TuneKeepsInv ==
    ASSUME Inv, Tune
    PROVE  Inv'
<1>1. TypeOK' /\ MinimalStep'
  BY TuneKeepsTypes DEF Inv
<1>2. RunInv'
  <2>1. started = ratio
    BY DEF Inv, RunInv, Tune
  <2>2. /\ pc' \in {"run", "end"} /\ started' = started /\ before' = ratio
        /\ firstTime' = FALSE
        /\ pc' # "end" => ~(tuneIter' >= MAX_TUNE_ITER)
    BY DEF Tune
  <2>3. tuneIter' \in Nat /\ MAX_TUNE_ITER \in Nat
    BY <1>1, ConstantTypes DEF TypeOK
  <2> QED BY <2>1, <2>2, <2>3 DEF RunInv
<1>3. MeasuredInv'
  <2>1. used \in Given(before, ratio)
    BY DEF Inv, RunInv, Tune
  <2>2. used \in Between(before, ratio)
    BY <2>1, ConstantTypes DEF Given, Between, Inv, TypeOK, Ratios
  <2>3. state' = perf'[used] /\ earlier' = before /\ before' = ratio
    BY DEF Tune, appVars
  <2> QED BY <2>2, <2>3 DEF MeasuredInv, Between
<1> QED BY <1>1, <1>2, <1>3, TuneKeepsSign, TuneKeepsClimb DEF Inv

\* Whatever the application's state does from ratio to ratio, and whenever it takes
\* its memory, the ratio is one the kernel knows, no step is longer than the
\* initial one, and the state compared with is that of a ratio between the last two.
THEOREM Invariance == Spec => []Inv
<1>1. Inv /\ [Next]_vars => Inv'
  <2>1. CASE UNCHANGED vars
    BY <2>1 DEF vars, appVars, ctrlVars, historyVars, Inv, TypeOK, MinimalStep,
                RunInv, Given, Between, MeasuredInv, SignInv, ClimbInv, Within,
                FallsPast, LedFrom
  <2> QED BY <2>1, RestartKeepsInv, TuneKeepsInv DEF Next
<1> QED BY <1>1, InitInv, PTL DEF Spec

----------------------------------------------------------------------------
(* The theorems. *)

\* An application that allocates at one moment stays less than two initial steps
\* past a ratio from which on its state falls, for every profile, although its runs
\* may lag behind the decisions.
THEOREM StaysNear == Spec => []NoOvershoot
<1>1. Inv => NoOvershoot
  BY DEF Inv, ClimbInv, NoOvershoot
<1> QED BY <1>1, Invariance, PTL

\* Two decisions that did not lower the ratio have measured ratios in ascending
\* order: past the best ratio the third sees a loss after an upward step.
LEMMA ThirdTurnsBack ==
    ASSUME Inv, Tune, NEW r \in Ratios, FallsPast(r), IL_BOT_RESET <= r,
           ~firstTime, r <= earlier, earlier <= before, before <= ratio
    PROVE  ratio' <= ratio
<1> USE ConstantTypes DEF Inv
<1>1. /\ ratio \in Ratios /\ before \in Ratios /\ earlier \in Ratios
      /\ used \in Ratios /\ perf \in [Ratios -> Int]
      /\ step \in -STEP_RESET .. STEP_RESET
  BY ProfilesAssumption DEF TypeOK
<1>2. PICK q \in Between(earlier, before) : state = perf[q]
  BY DEF MeasuredInv
<1>3. /\ used \in Between(before, ratio)
  <2>1. used \in Given(before, ratio)
    BY DEF RunInv, Tune
  <2> QED BY <1>1, <2>1 DEF Given, Between, Ratios
<1>4. q \in Ratios /\ r <= q /\ q <= before /\ before <= used /\ used <= ratio
  BY <1>1, <1>2, <1>3 DEF Between, Ratios
<1>5. perf[used] <= perf[q] /\ perf[used] \in Int /\ perf[q] \in Int
  BY <1>1, <1>4 DEF FallsPast, Ratios
<1>6. CompareWith(perf[used]) = perf[q]
  BY <1>2 DEF CompareWith
<1>7. PICK diff \in Int : diff = perf[used] - CompareWith(perf[used])
  BY Measured
<1>8. PICK s : s = TunedStep(diff, step)
  OBVIOUS
<1>9. \/ ratio' = ratio
      \/ ratio' = IL_BOT_RESET
      \/ perf[used] # perf[q] /\ ratio' = BoundRatio(ratio + s)
  BY <1>6, <1>7, <1>8, ThreeWays
<1>10. CASE perf[used] # perf[q] /\ ratio' = BoundRatio(ratio + s)
  <2>1. used # q
    BY <1>10
  <2>2. before < ratio \/ earlier < before
    BY <1>1, <1>2, <1>3, <1>4, <2>1 DEF Between, Ratios
  <2>3. step > 0 /\ diff <= 0
    BY <1>5, <1>6, <1>7, <2>2 DEF SignInv
  <2>4. s < 0 /\ s \in Int
    BY <1>1, <1>7, <1>8, <2>3, TunedStepDirection
  <2> QED BY <1>1, <1>10, <2>4, BoundRatioTowards
<1> QED BY <1>1, <1>4, <1>9, <1>10 DEF Ratios

\* Past the best ratio, a third decision in succession does not give the
\* application still more CXL memory, whatever its profile, and whichever ratios
\* its runs had their memory at when they were measured.
THEOREM TurnsAround == Spec => TurnsBack
<1> DEFINE Third == \A r \in Ratios :
                      /\ IL_BOT_RESET <= r /\ r <= earlier /\ earlier <= before
                      /\ before <= ratio /\ ~firstTime /\ FallsPast(r)
                      => ratio' <= ratio
<1>1. Inv /\ [Next]_vars => [Third]_vars
  <2>1. ASSUME Inv, Restart PROVE Third
    BY <2>1 DEF Restart, ctrlVars, Inv, TypeOK, Ratios
  <2>2. ASSUME Inv, Tune PROVE Third
    BY <2>2, ThirdTurnsBack
  <2> QED BY <2>1, <2>2 DEF Next
<1> QED BY <1>1, Invariance, PTL DEF Spec, TurnsBack
=============================================================================
