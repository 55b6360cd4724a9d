-------------------------- MODULE CaptionCtrlProofs --------------------------
(***************************************************************************)
(* Proofs about CaptionAlgo and CaptionCtrl, for all ratios, steps,        *)
(* thresholds, states and sample counts the assumptions admit.             *)
(***************************************************************************)
EXTENDS CaptionCtrl, TLAPS

----------------------------------------------------------------------------
(* What the algorithm can return. *)

LEMMA ConstantTypes ==
    /\ IL_TOP_RESET \in Nat /\ IL_BOT_MAX \in Nat /\ IL_BOT_RESET \in Nat
    /\ 1 <= IL_BOT_RESET /\ IL_BOT_RESET <= IL_BOT_MAX
    /\ STEP_RESET \in Nat /\ MIN_STEP \in Nat /\ 1 <= MIN_STEP
    /\ MIN_STEP <= STEP_RESET
    /\ UNIT \in Nat
    /\ MIN_SAMPLE_CNT \in Nat /\ MaxSamples \in Nat /\ MaxRounds \in Nat
    /\ MaxRounds + 2 <= MIN_SAMPLE_CNT
  BY RatioAssumption, StepAssumption, ThresholdAssumption, SampleAssumption

\* A step, doubled and halved or only halved, then bounded from below, is a
\* step again: int() never brings it below MIN_STEP.
LEMMA BoundStepOk ==
    ASSUME NEW s \in Int, StepOk(s), NEW h \in {2 * s, -s}
    PROVE  BoundStep(h) \in Int /\ StepOk(BoundStep(h))
<1> USE ConstantTypes
<1>1. h \in Int /\ s \in Int /\ (h = 2 * s \/ h = -s)
  OBVIOUS
<1>2. \/ s >= MIN_STEP /\ s <= STEP_RESET
      \/ s <= -MIN_STEP /\ s >= -STEP_RESET
  BY <1>1 DEF StepOk, Abs
<1>3. CASE -2 * MIN_STEP < h /\ h < 2 * MIN_STEP
  BY <1>1, <1>3 DEF BoundStep, StepOk, Abs
<1>4. CASE h >= 2 * MIN_STEP
  <2>1. BoundStep(h) = h \div 2
    BY <1>1, <1>4 DEF BoundStep, Halved
  <2>2. h <= 2 * STEP_RESET
    BY <1>1, <1>2, <1>4
  <2>3. h \div 2 \in Int /\ h \div 2 >= MIN_STEP /\ h \div 2 <= STEP_RESET
    BY <1>1, <1>4, <2>2
  <2> QED BY <2>1, <2>3 DEF StepOk, Abs
<1>5. CASE h <= -2 * MIN_STEP
  <2> DEFINE m == -h
  <2>1. m \in Int /\ m >= 2 * MIN_STEP /\ m <= 2 * STEP_RESET
    BY <1>1, <1>2, <1>5
  <2>2. BoundStep(h) = -(m \div 2)
    BY <1>1, <1>5 DEF BoundStep, Halved
  <2> HIDE DEF m
  <2>3. m \div 2 \in Int /\ m \div 2 >= MIN_STEP /\ m \div 2 <= STEP_RESET
    BY <2>1
  <2> QED BY <2>2, <2>3 DEF StepOk, Abs
<1> QED BY <1>1, <1>3, <1>4, <1>5

\* algo() returns a step it can be called with again.
LEMMA NewStepOk ==
    ASSUME NEW now \in Int, NEW stc \in Int, NEW s \in Int, StepOk(s)
    PROVE  NewStep(now, stc, s) \in Int /\ StepOk(NewStep(now, stc, s))
<1>1. TunedStep(now - stc, s) \in Int /\ StepOk(TunedStep(now - stc, s))
  BY BoundStepOk DEF TunedStep
<1>2. /\ STEP_RESET \in Int /\ StepOk(STEP_RESET)
      /\ MIN_STEP \in Int /\ StepOk(MIN_STEP)
      /\ -MIN_STEP \in Int /\ StepOk(-MIN_STEP)
  BY ConstantTypes DEF StepOk, Abs
<1> QED BY <1>1, <1>2 DEF NewStep

\* ... and a ratio the kernel can use, or -1.
LEMMA NewRatioOk ==
    ASSUME NEW now \in Int, NEW stc \in Int, NEW s \in Int, StepOk(s),
           NEW r \in Int, RatioOk(r)
    PROVE  LET n == NewRatio(now, stc, s, r) IN n \in Int /\ (n = -1 \/ RatioOk(n))
<1>1. TunedStep(now - stc, s) \in Int
  BY BoundStepOk DEF TunedStep
<1>2. \A x \in Int : BoundRatio(x) \in Int /\ RatioOk(BoundRatio(x))
  BY ConstantTypes DEF BoundRatio, RatioOk
<1> QED BY <1>1, <1>2 DEF NewRatio

\* What is tracked of it, and written, always is such a ratio.
LEMMA TrackedOk ==
    ASSUME NEW n \in Int, n = -1 \/ RatioOk(n)
    PROVE  Tracked(n) \in Nat /\ RatioOk(Tracked(n))
  BY ConstantTypes DEF Tracked, RatioOk

----------------------------------------------------------------------------
(* The invariant. *)

LEMMA InitInv == Init => Inv
<1> SUFFICES ASSUME Init PROVE Inv
  OBVIOUS
<1>1. StepOk(STEP_RESET) /\ RatioOk(IL_BOT_RESET)
  BY ConstantTypes DEF StepOk, RatioOk, Abs
<1>2. TypeOK
  <2>1. next \in [step : Int, ratio : Int] /\ prevState \in Int
    BY ConstantTypes DEF Init
  <2>2. kTop \in Nat /\ kBot \in Nat /\ prevStep \in Int /\ prevRatio \in Int
    BY ConstantTypes DEF Init
  <2>3. len \in [Keys -> Nat] /\ skey \in 0 .. 3 /\ rounds \in 0 .. MaxRounds
    BY ConstantTypes DEF Init
  <2>4. /\ modelOnly \in BOOLEAN /\ firstTime \in BOOLEAN /\ decided \in BOOLEAN
    BY DEF Init
  <2>5. /\ held \in {"none", "live", "stale"} /\ (held # "none" => skey # 0)
        /\ tpc \in TunerPoints /\ tkey \in Keys /\ counted \in Nat /\ dyn \in Int
    BY DEF Init, TunerPoints, Keys
  <2> QED BY <2>1, <2>2, <2>3, <2>4, <2>5 DEF TypeOK
<1>3. ListInv
  BY ConstantTypes DEF Init, ListInv, Due, Owes, Emptied, Averaging, Keys
<1> QED BY <1>1, <1>2, <1>3 DEF Init, Inv, SearchInBounds, NextInv, NoZeroDivision

\* A step that leaves the lists, the sampler and the tuner's pass alone keeps
\* what is said of them.
LEMMA ListsStay ==
    ASSUME ListInv, UNCHANGED <<samplerVars, rounds>>, ~Averaging, ~Averaging'
    PROVE  ListInv'
  BY DEF ListInv, Due, Owes, Emptied, Averaging, samplerVars

LEMMA SamplerKeepsLists ==
    ASSUME TypeOK, ListInv, Sampler
    PROVE  ListInv'
<1> USE ConstantTypes
<1>1. /\ tpc' = tpc /\ tkey' = tkey /\ tkey \in Keys
      /\ skey \in 0 .. 3 /\ rounds \in Nat
      /\ \A key \in Keys : key \in {1, 2, 3} /\ len[key] \in Nat
  BY DEF TypeOK, Sampler, StartRound, Lookup, Append, Keys
<1>2. \A key \in Keys : Emptied(key)' <=> Emptied(key)
  BY <1>1 DEF Emptied, Averaging
<1>3. CASE StartRound
  <2>1. \A key \in Keys : len'[key] = len[key] /\ Owes(key) = 0 /\ Owes(key)' = 1
    BY <1>1, <1>3 DEF StartRound, Owes, TypeOK
  <2>2. Averaging => rounds' = rounds + 1
    BY <1>3 DEF StartRound
  <2>3. 1 \in Keys
    BY DEF Keys
  <2> QED BY <1>1, <1>2, <2>1, <2>2, <2>3 DEF ListInv, Due, Averaging
<1>4. CASE Lookup
  <2>1. \A key \in Keys : Owes(key)' = Owes(key)
    BY <1>4 DEF Lookup, Owes
  <2>2. \A key \in Keys : Due(key)' = Due(key) /\ len'[key] = len[key]
    BY <1>4, <2>1 DEF Lookup, Due
  <2>3. rounds' = rounds /\ 1 \in Keys
    BY <1>4 DEF Lookup, Keys
  <2> QED BY <1>1, <1>2, <2>2, <2>3 DEF ListInv, Averaging
<1>5. CASE Append
  <2>1. skey \in 1 .. 3 /\ held \in {"live", "stale"}
    BY <1>1, <1>5 DEF Append, TypeOK
  <2>2. \A key \in Keys : len'[key] = IF key = skey /\ held = "live"
                                      THEN len[key] + 1 ELSE len[key]
    BY <1>5, <2>1 DEF Append, TypeOK, Keys
  <2>3. \A key \in Keys : Owes(key)' = IF skey < key THEN 1 ELSE 0
    BY <1>1, <1>5, <2>1 DEF Append, Owes
  <2>4. \A key \in Keys : Owes(key) = IF skey < key THEN 1
                                      ELSE IF skey = key /\ held = "live" THEN 1 ELSE 0
    BY <1>1, <2>1 DEF Owes
  <2>5. \A key \in Keys : Due(key)' = Due(key) /\ len'[key] >= len[key]
    BY <1>1, <2>1, <2>2, <2>3, <2>4 DEF Due
  <2>6. rounds' = rounds /\ 1 \in Keys /\ \A key \in Keys : len'[key] \in Nat
    BY <1>1, <1>5, <2>2 DEF Append, Keys
  <2> QED BY <1>1, <1>2, <2>5, <2>6 DEF ListInv, Averaging
<1> QED BY <1>3, <1>4, <1>5 DEF Sampler

LEMMA TunerKeepsLists ==
    ASSUME TypeOK, ListInv, Tuner
    PROVE  ListInv' /\ NoZeroDivision'
<1> USE ConstantTypes
<1>1. /\ tkey \in Keys /\ skey \in 0 .. 3 /\ rounds \in Nat /\ rounds <= MaxRounds
      /\ \A key \in Keys : /\ key \in {1, 2, 3} /\ len[key] \in Nat
                           /\ Owes(key) \in {0, 1} /\ Due(key) = len[key] + Owes(key)
      /\ 1 \in Keys /\ Keys = {1, 2, 3}
  BY DEF TypeOK, Keys, Owes, Due
<1>2. CASE Call /\ Enough
  <2>1. /\ tpc = "idle" /\ tpc' = "sum" /\ tkey' = 1
        /\ UNCHANGED <<len, skey, held>>
    BY <1>2 DEF Call, samplerVars
  <2>2. \A key \in Keys : Emptied(key) /\ ~Emptied(key)'
    BY <1>1, <2>1 DEF Emptied, Averaging
  <2>3. \A key \in Keys : len[key] >= 1
    BY <1>1, <1>2, <2>2 DEF Enough, ListInv
  <2> QED BY <1>1, <2>1, <2>2, <2>3 DEF ListInv, NoZeroDivision
<1>3. CASE Sum \/ Mean
  <2>1. tpc = "mean" => len[tkey] # 0
    BY <1>1 DEF ListInv, Emptied, Averaging
  <2>2. /\ tpc \in {"sum", "mean"} /\ tpc' \in {"mean", "clear"} /\ tkey' = tkey
        /\ UNCHANGED <<len, skey, held, rounds>>
    BY <1>3, <2>1 DEF Sum, Mean, samplerVars
  <2>3. \A key \in Keys : /\ Emptied(key)' <=> Emptied(key)
                          /\ Due(key)' = Due(key)
    BY <2>2 DEF Emptied, Averaging, Due, Owes
  <2> QED BY <1>1, <2>2, <2>3 DEF ListInv, Averaging, NoZeroDivision
<1>4. CASE Clear
  <2>1. /\ tpc = "clear" /\ rounds' = rounds /\ skey' = skey
        /\ held' = IF skey = tkey /\ held = "live" THEN "stale" ELSE held
        /\ \A key \in Keys : len'[key] = IF key = tkey THEN 0 ELSE len[key]
        /\ \/ tkey < 3 /\ tpc' = "sum" /\ tkey' = tkey + 1
           \/ tkey = 3 /\ tpc' \in {"idle", "decide"} /\ tkey' = 1
    BY <1>1, <1>4 DEF Clear, Cleared, TypeOK
  <2>2. \A key \in Keys : Owes(key)' \in {0, 1} /\ (key # tkey => Owes(key)' = Owes(key))
    BY <1>1, <2>1 DEF Owes
  <2>3. \A key \in Keys : /\ key = tkey => Due(key)' = Owes(key)'
                          /\ key # tkey => Due(key)' = Due(key)
    BY <1>1, <2>1, <2>2 DEF Due
  <2>4. \A key \in Keys : /\ Emptied(key) <=> key < tkey
                          /\ Emptied(key)' <=> key <= tkey
    BY <1>1, <2>1 DEF Emptied, Averaging
  <2>5. /\ tkey > 1 => Due(1) <= rounds + 1
        /\ Due(1)' <= rounds + 1
    BY <1>1, <2>1, <2>2, <2>3, <2>4 DEF ListInv, Averaging
  <2>6. Due(1)' \in Nat
    BY <1>1, <2>2, <2>3
  <2>7. ASSUME NEW key \in Keys
        PROVE  /\ Emptied(key)' => /\ Due(key)' - Due(1)' <= 1
                                   /\ Due(1)' - Due(key)' <= MaxRounds + 1
               /\ ~Emptied(key)' => len'[key] >= 1
    <3>1. CASE key = tkey
      BY <1>1, <2>2, <2>3, <2>4, <2>5, <2>6, <3>1
    <3>2. CASE key # tkey /\ tkey # 1
      BY <1>1, <2>1, <2>3, <2>4, <3>2 DEF ListInv
    <3>3. CASE key # tkey /\ tkey = 1
      BY <1>1, <2>1, <2>4, <3>3 DEF ListInv
    <3> QED BY <3>1, <3>2, <3>3
  <2> QED BY <2>1, <2>5, <2>7 DEF ListInv, NoZeroDivision
<1>5. CASE ResetAtStart \/ (Call /\ ~Enough) \/ Decide \/ SetRatio \/ Track
  <2>1. /\ UNCHANGED <<samplerVars, rounds>> /\ ~Averaging /\ ~Averaging'
        /\ tpc' # "zero_division"
    BY <1>5
       DEF ResetAtStart, WriteTop, WriteBot, Call, Decide, SetRatio, Track,
           Averaging
  <2> QED BY <2>1, ListsStay DEF NoZeroDivision
<1> QED BY <1>2, <1>3, <1>4, <1>5 DEF Tuner

LEMMA SamplerKeepsTypes ==
    ASSUME TypeOK, Sampler
    PROVE  TypeOK'
<1>1. CASE StartRound
  BY <1>1, ConstantTypes
     DEF StartRound, TypeOK, trackVars, kernelVars, Averaging, TunerPoints
<1>2. CASE Lookup
  BY <1>2 DEF Lookup, TypeOK, trackVars, kernelVars
<1>3. CASE Append
  <2>1. skey \in Keys
    BY <1>3 DEF Append, TypeOK, Keys
  <2>2. len' \in [Keys -> Nat] /\ skey' \in 0 .. 3
    BY <1>3, <2>1 DEF Append, TypeOK, Keys
  <2> QED BY <1>3, <2>2 DEF Append, TypeOK, trackVars, kernelVars
<1> QED BY <1>1, <1>2, <1>3 DEF Sampler

\* The tuner's steps, each with the part of the types it can disturb.
LEMMA TunerKeepsTypes ==
    ASSUME TypeOK, SearchInBounds, NextInv, Tuner
    PROVE  TypeOK'
<1> USE ConstantTypes
<1>1. CASE ResetAtStart \/ SetRatio
  <2>1. \E from \in TunerPoints, to \in TunerPoints, bot \in Nat :
            WriteTop(from, to) \/ WriteBot(from, to, bot)
    <3>1. Tracked(next.ratio) \in Nat
      BY TrackedOk DEF TypeOK, NextInv
    <3> QED BY <1>1, <3>1 DEF ResetAtStart, SetRatio, TunerPoints
  <2>2. PICK from \in TunerPoints, to \in TunerPoints, bot \in Nat :
            WriteTop(from, to) \/ WriteBot(from, to, bot)
    BY <2>1
  <2>3. /\ tpc' \in TunerPoints /\ kTop' \in Nat /\ kBot' \in Nat
        /\ UNCHANGED <<modelOnly, samplerVars, rounds, tkey, counted, dyn, next,
                       trackVars>>
    BY <2>2 DEF WriteTop, WriteBot, Outcomes, TypeOK
  <2> QED BY <2>3 DEF TypeOK, samplerVars, trackVars
<1>2. CASE Call
  <2>1. /\ tpc' \in TunerPoints /\ tkey' \in Keys /\ firstTime' \in BOOLEAN
        /\ rounds' \in 0 .. MaxRounds
    <3>1. CASE Enough
      BY <1>2, <3>1 DEF Call, TypeOK, TunerPoints, Keys
    <3>2. CASE ~Enough
      BY <1>2, <3>2 DEF Call, TypeOK
    <3> QED BY <3>1, <3>2
  <2> QED BY <1>2, <2>1 DEF Call, TypeOK, samplerVars, kernelVars
<1>3. CASE Sum
  <2>1. counted' \in Nat
    BY <1>3 DEF Sum, Summed, TypeOK
  <2> QED BY <1>3, <2>1
          DEF Sum, TypeOK, samplerVars, trackVars, kernelVars, TunerPoints
<1>4. CASE Mean
  BY <1>4 DEF Mean, TypeOK, samplerVars, trackVars, kernelVars, TunerPoints
<1>5. CASE Clear
  <2>1. len' \in [Keys -> Nat] /\ tkey' \in Keys /\ tpc' \in TunerPoints
    BY <1>5 DEF Clear, Cleared, TypeOK, Keys, TunerPoints
  <2>2. held' \in {"none", "live", "stale"} /\ (held' # "none" => held # "none")
    BY <1>5 DEF Clear, TypeOK
  <2>3. firstTime' \in BOOLEAN
    BY <1>5 DEF Clear, TypeOK
  <2> QED BY <1>5, <2>1, <2>2, <2>3 DEF Clear, TypeOK, kernelVars
<1>6. CASE Decide
  <2>1. PICK now \in States :
            /\ dyn' = now
            /\ next' = [step  |-> NewStep(now, CompareWith(now), prevStep),
                        ratio |-> NewRatio(now, CompareWith(now), prevStep, prevRatio)]
            /\ tpc' = IF Writes(now, CompareWith(now)) THEN "setTop" ELSE "track"
    BY <1>6 DEF Decide
  <2>2. now \in Int /\ CompareWith(now) \in Int
    BY StatesAssumption DEF CompareWith, TypeOK
  <2>3. /\ NewStep(now, CompareWith(now), prevStep) \in Int
        /\ NewRatio(now, CompareWith(now), prevStep, prevRatio) \in Int
    BY <2>2, NewStepOk, NewRatioOk DEF TypeOK, SearchInBounds
  <2>4. next' \in [step : Int, ratio : Int] /\ dyn' \in Int /\ tpc' \in TunerPoints
    BY <2>1, <2>2, <2>3 DEF TunerPoints
  <2> QED BY <1>6, <2>4 DEF Decide, TypeOK, samplerVars, kernelVars
<1>7. CASE Track
  <2>1. prevRatio' \in Int /\ prevStep' \in Int /\ prevState' \in Int
    BY <1>7, TrackedOk DEF Track, TypeOK, NextInv
  <2> QED BY <1>7, <2>1 DEF Track, TypeOK, samplerVars, kernelVars, TunerPoints
<1> QED BY <1>1, <1>2, <1>3, <1>4, <1>5, <1>6, <1>7 DEF Tuner

\* Only Decide computes a step and a ratio, only Track keeps them.
LEMMA SearchNext ==
    ASSUME TypeOK, SearchInBounds, NextInv, [Next]_vars
    PROVE  SearchInBounds' /\ NextInv'
<1>1. CASE UNCHANGED <<next, prevStep, prevRatio>>
  BY <1>1 DEF SearchInBounds, NextInv
<1>2. CASE Decide
  <2>1. PICK now \in States :
            next' = [step  |-> NewStep(now, CompareWith(now), prevStep),
                     ratio |-> NewRatio(now, CompareWith(now), prevStep, prevRatio)]
    BY <1>2 DEF Decide
  <2>2. now \in Int /\ CompareWith(now) \in Int
    BY StatesAssumption, ConstantTypes DEF CompareWith, TypeOK
  <2>3. NextInv'
    BY <2>1, <2>2, NewStepOk, NewRatioOk DEF TypeOK, SearchInBounds, NextInv
  <2> QED BY <1>2, <2>3 DEF Decide, SearchInBounds
<1>3. CASE Track
  BY <1>3, TrackedOk DEF Track, TypeOK, NextInv, SearchInBounds
<1> QED BY <1>1, <1>2, <1>3
        DEF Next, Sampler, StartRound, Lookup, Append, Tuner, ResetAtStart,
            WriteTop, WriteBot, Call, Sum, Mean, Clear, SetRatio, vars, trackVars

LEMMA NextPreservesInv == Inv /\ [Next]_vars => Inv'
<1> SUFFICES ASSUME Inv, [Next]_vars PROVE Inv'
  OBVIOUS
<1> USE DEF Inv
<1>1. SearchInBounds' /\ NextInv'
  BY SearchNext
<1>2. CASE Sampler
  <2>1. NoZeroDivision'
    BY <1>2 DEF Sampler, StartRound, Lookup, Append, NoZeroDivision
  <2> QED BY <1>1, <1>2, <2>1, SamplerKeepsTypes, SamplerKeepsLists
<1>3. CASE Tuner
  BY <1>1, <1>3, TunerKeepsTypes, TunerKeepsLists
<1>4. CASE UNCHANGED vars
  BY <1>1, <1>4 DEF vars, TypeOK, ListInv, NoZeroDivision, Due, Owes, Emptied,
                    Averaging, samplerVars, trackVars, kernelVars
<1> QED BY <1>2, <1>3, <1>4 DEF Next

THEOREM Invariance == Spec => []Inv
  BY InitInv, NextPreservesInv, PTL DEF Spec

\* No list is divided by a length of zero, if the sampler starts at least two
\* rounds fewer than MIN_SAMPLE_CNT while the lists are averaged.
THEOREM NeverDividesByZero == Spec => []NoZeroDivision
  BY Invariance, PTL DEF Inv

\* Steps stay between MIN_STEP and STEP_RESET, ratios between 1 and IL_BOT_MAX.
THEOREM BoundedSearch == Spec => []SearchInBounds
  BY Invariance, PTL DEF Inv

\* The lists the tuner finds when it is called have grown together.
THEOREM SameSeconds == Spec => []Lockstep
<1>1. Inv => Lockstep
  <2> SUFFICES ASSUME Inv, tpc = "idle", NEW key \in Keys
               PROVE  /\ len[1] - len[key] <= MaxRounds + 2
                      /\ len[key] - len[1] <= 1
    BY DEF Lockstep
  <2>1. Due(key) - Due(1) <= 1 /\ Due(1) - Due(key) <= MaxRounds + 1
    BY DEF Inv, ListInv, Emptied, Averaging
  <2>2. /\ Owes(key) \in {0, 1} /\ Owes(1) \in {0, 1}
        /\ Owes(1) = 1 => Owes(key) = 1 \/ key = 1
        /\ len[key] \in Nat /\ len[1] \in Nat
    BY DEF Owes, Keys, Inv, TypeOK
  <2> QED BY <2>1, <2>2, ConstantTypes DEF Due
<1> QED BY <1>1, Invariance, PTL

----------------------------------------------------------------------------
(* The kernel's ratio. *)

\* A ratio that is not changed is tracked as it is.
LEMMA IdleKeepsRatio ==
    ASSUME NEW now, NEW stc, NEW s, NEW r \in Int, RatioOk(r), ~Writes(now, stc)
    PROVE  Tracked(NewRatio(now, stc, s, r)) = r
  BY DEF Writes, NewRatio, Tracked, RatioOk

LEMMA KernelInit == Init => KernelAgrees /\ StartInv
  BY DEF Init, KernelAgrees, StartInv, Starting

LEMMA KernelNext ==
    ASSUME Inv, KernelAgrees, StartInv, [Next]_vars
    PROVE  KernelAgrees' /\ StartInv'
<1>1. CASE UNCHANGED <<modelOnly, prevRatio, next, kTop, kBot, tpc>>
  BY <1>1 DEF KernelAgrees, StartInv, Starting
<1>2. CASE ResetAtStart
  BY <1>2 DEF ResetAtStart, WriteTop, WriteBot, Outcomes, KernelAgrees,
              StartInv, Starting, trackVars
<1>3. CASE Call \/ Sum \/ Mean \/ Clear
  <2>1. /\ tpc \in {"idle", "sum", "mean", "clear"}
        /\ tpc' \in {"idle", "sum", "mean", "clear", "decide", "zero_division"}
        /\ UNCHANGED <<modelOnly, prevRatio, kTop, kBot>>
    BY <1>3 DEF Call, Sum, Mean, Clear, trackVars, kernelVars
  <2> QED BY <2>1 DEF KernelAgrees, StartInv, Starting
<1>4. CASE Decide
  <2>1. PICK now \in States :
            /\ next' = [step  |-> NewStep(now, CompareWith(now), prevStep),
                        ratio |-> NewRatio(now, CompareWith(now), prevStep, prevRatio)]
            /\ tpc' = IF Writes(now, CompareWith(now)) THEN "setTop" ELSE "track"
    BY <1>4 DEF Decide
  <2>2. tpc' = "track" => Tracked(next'.ratio) = prevRatio
    BY <2>1, IdleKeepsRatio DEF Inv, TypeOK, SearchInBounds
  <2>3. tpc = "decide" /\ UNCHANGED <<modelOnly, prevRatio, kTop, kBot>>
    BY <1>4 DEF Decide, kernelVars
  <2>4. tpc' \in {"setTop", "track"}
    BY <2>1
  <2> QED BY <2>2, <2>3, <2>4 DEF KernelAgrees, StartInv, Starting
<1>5. CASE SetRatio
  BY <1>5 DEF SetRatio, WriteTop, WriteBot, Outcomes, KernelAgrees, StartInv,
              Starting, trackVars
<1>6. CASE Track
  BY <1>6 DEF Track, KernelAgrees, StartInv, Starting, kernelVars
<1> QED BY <1>1, <1>2, <1>3, <1>4, <1>5, <1>6
        DEF Next, Sampler, StartRound, Lookup, Append, Tuner, vars, trackVars,
            kernelVars

\* While sysctl works, the kernel and a tuner that is not asked for the model
\* only agree on the ratio.
THEOREM Agreement == Spec => []KernelAgrees
  BY InitInv, NextPreservesInv, KernelInit, KernelNext, PTL DEF Spec

----------------------------------------------------------------------------
(* The divisor. *)

LEMMA MeanNext ==
    ASSUME Inv, MeanInv, [Next]_vars
    PROVE  MeanInv'
<1> USE ConstantTypes
<1>1. /\ tkey \in Keys /\ skey \in 0 .. 3 /\ rounds \in Nat /\ counted \in Nat
      /\ \A key \in Keys : /\ key \in {1, 2, 3} /\ len[key] \in Nat
                           /\ Owes(key) \in {0, 1}
  BY DEF Inv, TypeOK, Keys, Owes
<1>2. CASE StartRound
  <2>1. len' = len /\ Owes(tkey) = 0 /\ Owes(tkey)' \in {0, 1} /\ tkey' = tkey
    BY <1>1, <1>2 DEF StartRound, Owes
  <2>2. tpc' = tpc /\ counted' = counted /\ (tpc = "mean" => rounds' = rounds + 1)
    BY <1>2 DEF StartRound, Averaging
  <2> QED BY <1>1, <2>1, <2>2 DEF MeanInv, Due
<1>3. CASE Lookup
  <2>1. Due(tkey)' = Due(tkey) /\ UNCHANGED <<len, tkey, tpc, counted, rounds>>
    BY <1>3 DEF Lookup, Due, Owes
  <2> QED BY <2>1 DEF MeanInv
<1>4. CASE Append
  <2>1. skey \in 1 .. 3 /\ held \in {"live", "stale"}
    BY <1>1, <1>4 DEF Append, Inv, TypeOK
  <2>2. len'[tkey] = IF tkey = skey /\ held = "live" THEN len[tkey] + 1 ELSE len[tkey]
    BY <1>1, <1>4, <2>1 DEF Append, Inv, TypeOK, Keys
  <2>3. /\ Owes(tkey)' = IF skey < tkey THEN 1 ELSE 0
        /\ Owes(tkey) = IF skey < tkey THEN 1
                        ELSE IF skey = tkey /\ held = "live" THEN 1 ELSE 0
    BY <1>1, <1>4, <2>1 DEF Append, Owes
  <2>4. UNCHANGED <<tkey, tpc, counted, rounds>>
    BY <1>4 DEF Append
  <2>5. Due(tkey)' = Due(tkey) /\ len'[tkey] >= len[tkey]
    BY <1>1, <2>1, <2>2, <2>3, <2>4 DEF Due
  <2> QED BY <1>1, <2>2, <2>4, <2>5 DEF MeanInv
<1>5. CASE Sum
  <2>1. counted' = len[tkey] /\ UNCHANGED <<len, skey, held, tkey, rounds>>
    BY <1>5 DEF Sum, Summed, samplerVars
  <2>2. Due(tkey)' = len[tkey] + Owes(tkey)
    BY <2>1 DEF Due, Owes
  <2> QED BY <1>1, <2>1, <2>2 DEF MeanInv
<1>6. CASE ResetAtStart \/ Call \/ Mean \/ Clear \/ Decide \/ SetRatio \/ Track
  <2>1. tpc' # "mean"
    BY <1>6 DEF ResetAtStart, WriteTop, WriteBot, Call, Mean, Clear, Decide,
                SetRatio, Track
  <2> QED BY <2>1 DEF MeanInv
<1>7. CASE UNCHANGED vars
  BY <1>7 DEF vars, samplerVars, MeanInv, Due, Owes
<1> QED BY <1>2, <1>3, <1>4, <1>5, <1>6, <1>7 DEF Next, Sampler, Tuner

\* A mean is never of fewer values than it is divided by less the rounds that
\* the sampler has started meanwhile, and the one under way.
THEOREM DivisorBounded == Spec => []MeanOfSamples
<1>1. Init => MeanInv
  BY DEF Init, MeanInv
<1>2. Inv /\ MeanInv => MeanOfSamples
  <2> SUFFICES ASSUME Inv, MeanInv, tpc = "mean"
               PROVE  len[tkey] - counted \in 0 .. rounds + 1
    BY DEF MeanOfSamples
  <2>1. /\ len[tkey] \in Nat /\ counted \in Nat /\ rounds \in Nat
        /\ Owes(tkey) \in {0, 1}
    BY ConstantTypes DEF Inv, TypeOK, Owes
  <2> QED BY <2>1 DEF MeanInv, Due
<1> QED BY <1>1, <1>2, InitInv, NextPreservesInv, MeanNext, PTL DEF Spec
=============================================================================
