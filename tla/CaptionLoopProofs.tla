------------------------- MODULE CaptionLoopProofs -------------------------
(***************************************************************************)
(* Proofs about CaptionLoop, for any number of scripts and rounds.         *)
(***************************************************************************)
EXTENDS CaptionLoop, TLAPS

LEMMA ConstantTypes ==
    /\ NumScripts \in Nat /\ NumScripts >= 1
    /\ MAX_TUNE_ITER \in Nat /\ MAX_TUNE_ITER >= 1
    /\ IL_BOT_MAX \in Nat /\ IL_BOT_RESET \in Nat
    /\ 0 \in Scripts /\ Scripts \subseteq Nat
    /\ IL_BOT_RESET \in Ratios /\ Ratios \subseteq Nat
  BY ScriptsAssumption, IterAssumption, RatioAssumption DEF Scripts, Ratios

----------------------------------------------------------------------------
(* Rounds: both loops, whatever IL_BOT_RESET is. *)

LEMMA LoopInit == Init => LoopInv
<1> SUFFICES ASSUME Init PROVE LoopInv
  OBVIOUS
<1> USE ConstantTypes
<1>1. TypeOK
  BY DEF Init, TypeOK
<1>2. RoundInv /\ RoundPerRestart /\ AsyncFixedRatio
  BY DEF Init, RoundInv, RoundPerRestart, AsyncFixedRatio
<1> QED BY <1>1, <1>2 DEF LoopInv

\* The steps of the scripts touch nothing but run and launched.
LEMMA ScriptsKeepLoop ==
    ASSUME LoopInv, NEW i \in Scripts, Launch(i) \/ End(i)
    PROVE  LoopInv'
<1>1. /\ run' \in [Scripts -> {"none", "started", "running", "ended"}]
      /\ launched' \in [Scripts -> Nat]
      /\ UNCHANGED <<argVars, pc, idx, ratio, tuneIter, steppingRatio, pending>>
  BY DEF Launch, End, LoopInv, TypeOK
<1> QED BY <1>1 DEF LoopInv, TypeOK, RoundInv, RoundPerRestart,
                    AsyncFixedRatio, argVars

LEMMA LoopKeepsLoop ==
    ASSUME LoopInv, Loop
    PROVE  LoopInv'
<1> USE ConstantTypes DEF LoopInv
<1>1. CASE Exec \/ Ended
  <2>1. /\ run' \in [Scripts -> {"none", "started", "running", "ended"}]
        /\ pc \in {"exec", "wait"} /\ pc' \in {"wait", "tune"}
        /\ UNCHANGED <<argVars, idx, ratio, tuneIter, steppingRatio, launched,
                       pending>>
    BY <1>1 DEF Exec, Ended, TypeOK
  <2> QED BY <2>1 DEF TypeOK, RoundInv, RoundPerRestart, AsyncFixedRatio, argVars
<1>2. CASE Step
  <2>1. steppingRatio' \in Nat /\ ratio' \in Nat
    BY <1>2 DEF Step, NextStep, TypeOK
  <2> QED BY <1>2, <2>1
          DEF Step, TypeOK, RoundInv, RoundPerRestart, AsyncFixedRatio, argVars
<1>3. CASE Start
  <2>1. /\ idx' \in Scripts /\ pc' \in {"start", "scan"}
        /\ run' \in [Scripts -> {"none", "started", "running", "ended"}]
        /\ pending' = pending
        /\ UNCHANGED <<argVars, ratio, tuneIter, steppingRatio, launched>>
    BY <1>3 DEF Start, TypeOK, Scripts
  <2> QED BY <1>3, <2>1
          DEF Start, TypeOK, RoundInv, RoundPerRestart, AsyncFixedRatio, argVars
<1>4. CASE Restart
  <2>1. /\ run' \in [Scripts -> {"none", "started", "running", "ended"}]
        /\ pending' \in Nat /\ idx' \in Scripts /\ pc = "scan" /\ pc' = "tune"
        /\ mode = "async" => pending' = 1
        /\ UNCHANGED <<argVars, ratio, tuneIter, steppingRatio, launched>>
    BY <1>4 DEF Restart, AfterRestart, TypeOK, RoundPerRestart
  <2> QED BY <2>1 DEF TypeOK, RoundInv, RoundPerRestart, AsyncFixedRatio, argVars
<1>5. CASE StillAlive
  <2>1. idx' \in Scripts
    BY <1>5 DEF StillAlive, TypeOK, Scripts
  <2> QED BY <1>5, <2>1 DEF StillAlive, TypeOK, RoundInv, RoundPerRestart,
                            AsyncFixedRatio, argVars
<1>6. CASE Tune
  <2>1. ratio' \in Nat /\ (noTune => ratio' = ratio)
    BY <1>6 DEF Tune, Decisions, TypeOK
  <2> QED BY <1>6, <2>1
          DEF Tune, TypeOK, RoundInv, RoundPerRestart, AsyncFixedRatio, argVars
<1>7. CASE Nap
  <2>1. tuneIter < MAX_TUNE_ITER /\ tuneIter \in Nat
    BY <1>7 DEF Nap, RoundInv, TypeOK
  <2>2. tuneIter' = tuneIter + 1 /\ tuneIter' \in 0 .. MAX_TUNE_ITER
    BY <1>7, <2>1 DEF Nap, Counted
  <2>3. \/ pc' = "end"
        \/ /\ tuneIter' < MAX_TUNE_ITER
           /\ \/ mode = "sync" /\ pc' = "exec"
              \/ mode = "async" /\ pc' = "scan"
    BY <1>7, <2>1, <2>2 DEF Nap, Counted, TypeOK
  <2>4. pc = "nap" /\ UNCHANGED <<argVars, idx, run, ratio, steppingRatio,
                                  launched, pending>>
    BY <1>7 DEF Nap
  <2>5. TypeOK'
    BY <2>2, <2>3, <2>4 DEF TypeOK, argVars
  <2>6. RoundInv'
    BY <2>2, <2>3, <2>4 DEF RoundInv, argVars
  <2>7. RoundPerRestart' /\ AsyncFixedRatio'
    BY <2>3, <2>4 DEF RoundPerRestart, AsyncFixedRatio, argVars
  <2> QED BY <2>5, <2>6, <2>7
<1> QED BY <1>1, <1>2, <1>3, <1>4, <1>5, <1>6, <1>7 DEF Loop

LEMMA LoopNext == LoopInv /\ [Next]_vars => LoopInv'
<1> SUFFICES ASSUME LoopInv, [Next]_vars PROVE LoopInv'
  OBVIOUS
<1>1. CASE KeyboardInterrupt
  BY <1>1 DEF KeyboardInterrupt, LoopInv, TypeOK, RoundInv, RoundPerRestart,
              AsyncFixedRatio, argVars
<1>2. CASE UNCHANGED vars
  BY <1>2 DEF vars, LoopInv, TypeOK, RoundInv, RoundPerRestart,
              AsyncFixedRatio, argVars
<1> QED BY <1>1, <1>2, ScriptsKeepLoop, LoopKeepsLoop DEF Next

THEOREM Invariance == Spec => []LoopInv
  BY LoopInit, LoopNext, PTL DEF Spec

\* Every script that is started anew is followed by a round of tuning of its own.
THEOREM OneRoundEach == Spec => []RoundPerRestart
  BY Invariance, PTL DEF LoopInv

\* async_tune with -n leaves the ratio as it was reset.
THEOREM NoTuneAsync == Spec => []AsyncFixedRatio
  BY Invariance, PTL DEF LoopInv

----------------------------------------------------------------------------
(* The schedule of sync_tune, which counts from 1. *)

LEMMA SyncInit == IL_BOT_RESET = 1 /\ Init => SyncInv
  BY ConstantTypes DEF Init, SyncInv, StepInv, Schedule

LEMMA SyncNext == LoopInv /\ SyncInv /\ [Next]_vars => SyncInv'
<1> SUFFICES ASSUME LoopInv, SyncInv, [Next]_vars, mode = "sync"
             PROVE  SyncInv'
  <2>1. [Next]_vars => mode' = mode /\ step' = step
    BY DEF Next, Loop, Exec, Ended, Step, Start, Restart, StillAlive, Tune, Nap,
           KeyboardInterrupt, Launch, End, vars, argVars
  <2> QED BY <2>1 DEF SyncInv, StepInv, Schedule
<1> USE ConstantTypes DEF SyncInv
<1>1. /\ run \in [Scripts -> {"none", "started", "running", "ended"}]
      /\ launched \in [Scripts -> Nat] /\ tuneIter \in Nat /\ ratio \in Nat
      /\ steppingRatio \in Nat
  BY DEF LoopInv, TypeOK
<1>2. ASSUME NEW i \in Scripts, Launch(i)
      PROVE  SyncInv'
  <2>1. /\ i = 0 /\ pc \notin {"exec", "nap", "tune"}
        /\ run' = [run EXCEPT ![0] = "running"]
        /\ launched' = [launched EXCEPT ![0] = ratio]
        /\ UNCHANGED <<mode, step, pc, ratio, tuneIter, steppingRatio>>
    BY <1>2 DEF Launch, StepInv, argVars
  <2>2. /\ launched'[0] = ratio
        /\ \A n \in Scripts : n # 0 => run'[n] = run[n]
    BY <1>1, <2>1
  <2>3. Schedule'
    BY <2>1, <2>2 DEF Schedule, StepInv
  <2> QED BY <2>1, <2>2, <2>3 DEF StepInv
<1>3. ASSUME NEW i \in Scripts, End(i)
      PROVE  SyncInv'
  <2>1. /\ i = 0 /\ run[0] = "running" /\ pc \notin {"exec", "nap", "tune"}
        /\ run' = [run EXCEPT ![0] = "ended"]
        /\ UNCHANGED <<mode, step, pc, ratio, tuneIter, steppingRatio, launched>>
    BY <1>3 DEF End, StepInv, argVars
  <2>2. \A n \in Scripts : n # 0 => run'[n] = run[n]
    BY <1>1, <2>1
  <2> QED BY <2>1, <2>2 DEF StepInv, Schedule
<1>4. CASE Exec
  <2>1. /\ pc = "exec" /\ pc' = "wait"
        /\ run' = [run EXCEPT ![0] = "started"]
        /\ UNCHANGED <<mode, step, ratio, tuneIter, steppingRatio, launched>>
    BY <1>4 DEF Exec, argVars
  <2>2. run'[0] = "started" /\ \A n \in Scripts : n # 0 => run'[n] = run[n]
    BY <1>1, <2>1
  <2> QED BY <2>1, <2>2 DEF StepInv, Schedule
<1>5. CASE Ended
  BY <1>5 DEF Ended, StepInv, Schedule, argVars
<1>6. CASE Step
  <2>1. /\ pc = "tune" /\ pc' = "nap" /\ ratio' = steppingRatio + 2
        /\ steppingRatio' = ratio'
        /\ UNCHANGED <<mode, step, run, tuneIter, launched>>
    BY <1>6 DEF Step, NextStep, argVars
  <2>2. ratio' = IL_BOT_RESET + 2 * (tuneIter + 1)
    BY <1>1, <2>1 DEF StepInv
  <2> QED BY <2>1, <2>2 DEF StepInv, Schedule
<1>7. CASE Nap
  <2>1. /\ pc = "nap" /\ pc' \in {"end", "exec"} /\ tuneIter' = tuneIter + 1
        /\ UNCHANGED <<mode, step, run, ratio, steppingRatio, launched>>
    BY <1>7 DEF Nap, Counted, argVars
  <2> QED BY <1>1, <2>1 DEF StepInv, Schedule
<1>8. CASE KeyboardInterrupt
  BY <1>8 DEF KeyboardInterrupt, StepInv, Schedule, argVars
<1>9. CASE Start \/ Restart \/ StillAlive \/ Tune
  BY <1>9 DEF Start, Restart, StillAlive, Tune, StepInv
<1>10. CASE UNCHANGED vars
  BY <1>10 DEF vars, argVars, StepInv, Schedule
<1> QED BY <1>2, <1>3, <1>4, <1>5, <1>6, <1>7, <1>8, <1>9, <1>10 DEF Next, Loop

\* With -x the n-th run of sync_tune's script has its memory at 10:1+2n.
THEOREM SteppingSchedule ==
    ASSUME IL_BOT_RESET = 1
    PROVE  Spec => []Schedule
<1>1. Init => SyncInv
  BY SyncInit
<1> QED BY <1>1, LoopInit, LoopNext, SyncNext, PTL DEF Spec, SyncInv

\* Both together, in the setting in which sync_tune is on its schedule.
THEOREM FullInvariance ==
    ASSUME IL_BOT_RESET = 1
    PROVE  Spec => []Inv
<1>1. Init => SyncInv
  BY SyncInit
<1> QED BY <1>1, LoopInit, LoopNext, SyncNext, PTL DEF Spec, Inv
=============================================================================
