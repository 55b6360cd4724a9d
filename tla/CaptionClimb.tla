---------------------------- MODULE CaptionClimb ----------------------------
(***************************************************************************)
(* Caption's decisions in a closed loop (async_tune with one application). *)
(* The state measured is a function of the ratio the run was given, the    *)
(* same in every run, and every run gives enough samples.  A run is        *)
(* started before the decision on the one that ended: its memory is at the *)
(* ratio before or after that decision or, allocated over time, at a mix   *)
(* of the two, which is as good as a ratio between them.                   *)
(***************************************************************************)
EXTENDS CaptionAlgo

CONSTANTS
    Profiles,        \* functions from ratios to the state measured
    MAX_TUNE_ITER

Ratios == 1 .. IL_BOT_MAX

ASSUME ProfilesAssumption == Profiles \subseteq [Ratios -> Int]
ASSUME IterAssumption     == MAX_TUNE_ITER \in Nat \ {0}

VARIABLES
    perf,             \* the application: the state each ratio leads to,
    gradual,          \* and whether it allocates its memory over time
    pc, tuneIter,
    ratio,            \* prev_ratio, the ratio in force
    started,          \* the ratio in force when the run under way was started
    used,             \* the ratio the last run to end had its memory at
    step,             \* prev_step
    state,            \* prev_state
    firstTime,        \* first_time, for the call to come
    before, earlier   \* history: the ratio until the last decision, and until
                      \* the one before that

appVars == <<perf, gradual>>
ctrlVars == <<ratio, step, state, firstTime>>
historyVars == <<before, earlier>>
vars == <<appVars, pc, tuneIter, started, used, ctrlVars, historyVars>>

\* The first run is started at the ratio that run_realtime has set.
Init == /\ perf \in Profiles /\ gradual \in BOOLEAN
        /\ pc = "run" /\ tuneIter = 0
        /\ ratio = IL_BOT_RESET /\ started = ratio /\ used = ratio
        /\ step = STEP_RESET /\ state = -UNIT /\ firstTime = TRUE
        /\ before = ratio /\ earlier = ratio

\* What a run can have its memory at when the ratio went from p to q as it began.
Between(p, q) == {x \in Ratios : (p <= x /\ x <= q) \/ (q <= x /\ x <= p)}
Given(p, q) == IF gradual THEN Between(p, q) ELSE {p, q}

\* The run ends; async_tune finds that and starts the next one.
Restart ==
    /\ pc = "run" /\ pc' = "tune"
    /\ used' \in Given(started, ratio)
    /\ started' = ratio
    /\ UNCHANGED <<appVars, tuneIter, ctrlVars, historyVars>>

\* A little less than now, so that the first step is upwards.
FirstState(dyn) == dyn - UNIT

CompareWith(dyn) == IF firstTime THEN FirstState(dyn) ELSE state

Tune ==
    LET dyn == perf[used]
        stc == CompareWith(dyn)
    IN  /\ pc = "tune"
        /\ ratio' = Tracked(NewRatio(dyn, stc, step, ratio))
        /\ step' = NewStep(dyn, stc, step)
        /\ state' = dyn
        /\ firstTime' = FALSE
        /\ tuneIter' = tuneIter + 1
        /\ pc' = IF tuneIter' >= MAX_TUNE_ITER THEN "end" ELSE "run"
        /\ before' = ratio /\ earlier' = before
        /\ UNCHANGED <<appVars, started, used>>

Next == Restart \/ Tune

Spec == Init /\ [][Next]_vars

----------------------------------------------------------------------------
(* Properties, whatever the application's profile. *)

TypeOK == /\ perf \in Profiles /\ gradual \in BOOLEAN
          /\ pc \in {"run", "tune", "end"} /\ tuneIter \in 0 .. MAX_TUNE_ITER
          /\ {ratio, started, used, before, earlier} \subseteq Ratios
          /\ step \in -STEP_RESET .. STEP_RESET
          /\ state \in Int
          /\ firstTime \in BOOLEAN

\* From ratio r on, more CXL memory never does the application good: r is the
\* best ratio or past it.
FallsPast(r) ==
    \A p \in r .. IL_BOT_MAX : \A q \in p .. IL_BOT_MAX : perf[q] <= perf[p]

\* An application that allocates its memory at one moment is never given more CXL
\* memory than two initial steps past its best ratio (one that still looked
\* better, one that was taken because of it), if it does not start there by
\* default: a run that still had the ratio of the run before is measured the same,
\* which algo() takes for stable, and moves nothing (caption.py:114, algo.py:25).
Within(x, r) == FallsPast(r) /\ IL_BOT_RESET < r + STEP_RESET
                    => x < r + 2 * STEP_RESET
NoOvershoot == ~gradual => \A r \in Ratios : Within(ratio, r)

\* Past the best ratio Caption takes CXL memory back, however stale what it
\* measures: after two decisions that did not lower the ratio, the third does not
\* raise it (algo.py:41 with the relaunch of caption.py:114 before it).
TurnsBack ==
    [][\A r \in Ratios :
          /\ IL_BOT_RESET <= r /\ r <= earlier /\ earlier <= before
          /\ before <= ratio /\ ~firstTime /\ FallsPast(r)
          => ratio' <= ratio]_vars

----------------------------------------------------------------------------
(* What makes them hold. *)

MinimalStep == step <= -MIN_STEP \/ MIN_STEP <= step

\* Which ratios the run under way, or just ended, can have had its memory at, and
\* how many rounds are behind it.
RunInv == /\ pc = "run" => started = before
          /\ pc = "tune" => started = ratio /\ used \in Given(before, ratio)
          /\ firstTime => before = IL_BOT_RESET /\ ratio = IL_BOT_RESET
          /\ pc # "end" => tuneIter < MAX_TUNE_ITER

\* The state compared with was measured between the two ratios before.
MeasuredInv == ~firstTime => \E q \in Between(earlier, before) : state = perf[q]

\* After a raise the step is one upwards, until the ratio is lowered.
SignInv == /\ before < ratio => step > 0
           /\ earlier < before /\ before <= ratio => step > 0

\* The state compared with is that of q, from which a decision led to the ratio
\* in force, unless that is the default.  The step kept is the one of that
\* decision, or a minimal one when a run that still had ratio q came after it.
LedFrom(q) ==
    \/ ratio \in {q, IL_BOT_RESET}
    \/ \E s \in -STEP_RESET .. STEP_RESET :
          /\ ratio = BoundRatio(q + s)
          /\ step > 0 => s > 0 \/ state > IDLE_THRESHOLD
          /\ step < 0 => s <= step

ClimbInv ==
    ~gradual =>
        /\ \A r \in Ratios : Within(ratio, r)
        /\ ~firstTime => \E q \in Ratios :
                            /\ state = perf[q] /\ before \in {q, ratio}
                            /\ LedFrom(q)
                            /\ \A r \in Ratios : Within(q, r)

Inv == TypeOK /\ MinimalStep /\ RunInv /\ MeasuredInv /\ SignInv /\ ClimbInv
=============================================================================
