---------------------------- MODULE CaptionLoop ----------------------------
(***************************************************************************)
(* The loops of caption.py: sync_tune runs one shell script again and      *)
(* again, async_tune one thread per script that it starts anew whenever it *)
(* has ended; both tune after an end, MAX_TUNE_ITER times.  Memory is      *)
(* interleaved at the ratio in force when a script allocates it, that is   *)
(* when it is launched.  A decision of caption_ctrl is any ratio it may    *)
(* take (CaptionCtrl, SearchInBounds).                                     *)
(***************************************************************************)
EXTENDS Integers

CONSTANTS
    NumScripts,      \* lines of the file given with -t
    MAX_TUNE_ITER,
    IL_BOT_MAX, IL_BOT_RESET

Scripts == 0 .. NumScripts - 1
Ratios  == 1 .. IL_BOT_MAX

ASSUME ScriptsAssumption == NumScripts \in Nat \ {0}
ASSUME IterAssumption    == MAX_TUNE_ITER \in Nat \ {0}
ASSUME RatioAssumption   == IL_BOT_MAX \in Nat /\ IL_BOT_RESET \in Ratios

VARIABLES
    mode,           \* "sync" or "async"
    step, noTune,   \* -x, -n
    pc, idx,        \* the loop: where it is, the thread it looks at
    run,            \* per script: "none", "started", "running" or "ended"
    ratio,          \* the kernel's ratio
    tuneIter, steppingRatio,
    launched,       \* history: per script, the ratio it was last launched with
    pending         \* history: threads started anew since the last tuning

argVars == <<mode, step, noTune>>
vars == <<argVars, pc, idx, run, ratio, tuneIter, steppingRatio, launched,
          pending>>

Init ==
    /\ mode \in {"sync", "async"} /\ step \in BOOLEAN /\ noTune \in BOOLEAN
    /\ pc = IF mode = "sync" THEN "exec" ELSE "start"
    /\ idx = 0
    /\ run = [i \in Scripts |-> "none"]
    /\ ratio = IL_BOT_RESET                     \* run_realtime has reset it
    /\ tuneIter = 0 /\ steppingRatio = 1
    /\ launched = [i \in Scripts |-> IL_BOT_RESET] /\ pending = 0

----------------------------------------------------------------------------
(* The scripts: subprocess.call in a thread, or in the loop itself. *)

Launch(i) ==
    /\ run[i] = "started"
    /\ run' = [run EXCEPT ![i] = "running"]
    /\ launched' = [launched EXCEPT ![i] = ratio]
    /\ UNCHANGED <<argVars, pc, idx, ratio, tuneIter, steppingRatio, pending>>

End(i) ==
    /\ run[i] = "running"
    /\ run' = [run EXCEPT ![i] = "ended"]
    /\ UNCHANGED <<argVars, pc, idx, ratio, tuneIter, steppingRatio, launched,
                   pending>>

----------------------------------------------------------------------------
(* sync_tune *)

Exec ==
    /\ pc = "exec" /\ pc' = "wait"
    /\ run' = [run EXCEPT ![0] = "started"]
    /\ UNCHANGED <<argVars, idx, ratio, tuneIter, steppingRatio, launched,
                   pending>>

Ended ==
    /\ pc = "wait" /\ run[0] = "ended"
    /\ pc' = "tune"
    /\ UNCHANGED <<argVars, idx, run, ratio, tuneIter, steppingRatio, launched,
                   pending>>

\* Mutant: the step of the ratio is 1.
NextStepOne(r) == r + 1
NextStep(r) == r + 2

\* args.step is False without -x, never None: this branch is always taken.
Step ==
    /\ pc = "tune" /\ mode = "sync" /\ pc' = "nap"
    /\ steppingRatio' = NextStep(steppingRatio)
    /\ ratio' = NextStep(steppingRatio)
    /\ UNCHANGED <<argVars, idx, run, tuneIter, launched, pending>>

----------------------------------------------------------------------------
(* async_tune *)

Start ==
    /\ pc = "start"
    /\ run' = [run EXCEPT ![idx] = "started"]
    /\ IF idx + 1 < NumScripts THEN idx' = idx + 1 /\ UNCHANGED pc
                               ELSE idx' = 0 /\ pc' = "scan"
    /\ UNCHANGED <<argVars, ratio, tuneIter, steppingRatio, launched, pending>>

\* Mutant: the scan goes on after an end has been found.
AfterRestartScan == "scan"
AfterRestart == "tune"

Restart ==
    /\ pc = "scan" /\ run[idx] = "ended"
    /\ run' = [run EXCEPT ![idx] = "started"]
    /\ pending' = pending + 1
    /\ pc' = AfterRestart /\ idx' = 0
    /\ UNCHANGED <<argVars, ratio, tuneIter, steppingRatio, launched>>

StillAlive ==
    /\ pc = "scan" /\ run[idx] # "ended"
    /\ idx' = (idx + 1) % NumScripts
    /\ UNCHANGED <<argVars, pc, run, ratio, tuneIter, steppingRatio, launched,
                   pending>>

\* Mutant: -n is not looked at.
DecisionsAnyway == Ratios
\* get_set_tune_val may also leave the ratio alone.
Decisions == IF noTune THEN {ratio} ELSE Ratios

Tune ==
    /\ pc = "tune" /\ mode = "async" /\ pc' = "nap"
    /\ ratio' \in Decisions /\ pending' = 0
    /\ UNCHANGED <<argVars, idx, run, tuneIter, steppingRatio, launched>>

----------------------------------------------------------------------------
\* Mutant: async_tune counts only the rounds with a decision.
CountedUnlessNoTune ==
    IF mode = "async" /\ noTune THEN tuneIter ELSE tuneIter + 1
Counted == tuneIter + 1

\* time.sleep(5), tune_iter += 1
Nap ==
    /\ pc = "nap"
    /\ tuneIter' = Counted
    /\ pc' = IF Counted >= MAX_TUNE_ITER THEN "end"
             ELSE IF mode = "sync" THEN "exec" ELSE "scan"
    /\ UNCHANGED <<argVars, idx, run, ratio, steppingRatio, launched, pending>>

\* async_tune ends with an exception: threads have no stop().
KeyboardInterrupt ==
    /\ pc \notin {"end", "exception"}
    /\ pc' = IF mode = "sync" THEN "end" ELSE "exception"
    /\ UNCHANGED <<argVars, idx, run, ratio, tuneIter, steppingRatio, launched,
                   pending>>

Loop == \/ Exec \/ Ended \/ Step
        \/ Start \/ Restart \/ StillAlive \/ Tune
        \/ Nap

Next == Loop \/ KeyboardInterrupt \/ \E i \in Scripts : Launch(i) \/ End(i)

\* The interpreter goes on; scripts are launched and come to an end.
Fairness == WF_vars(Loop) /\ \A i \in Scripts : WF_vars(Launch(i) \/ End(i))

Spec == Init /\ [][Next]_vars /\ Fairness

----------------------------------------------------------------------------
(* Properties. *)

TypeOK ==
    /\ mode \in {"sync", "async"} /\ step \in BOOLEAN /\ noTune \in BOOLEAN
    /\ pc \in {"exec", "wait", "start", "scan", "tune", "nap", "end", "exception"}
    /\ idx \in Scripts
    /\ run \in [Scripts -> {"none", "started", "running", "ended"}]
    /\ ratio \in Nat /\ launched \in [Scripts -> Nat]
    /\ tuneIter \in 0 .. MAX_TUNE_ITER /\ steppingRatio \in Nat /\ pending \in Nat

\* README:37, "from DDR:CXL = 10:1 and increase the CXL ratio by 2": with -x, the
\* n-th run of the script gets its memory at 10:1+2n, although the 1 is written
\* down both in caption.py and in config.py, and the ratio is reset in a third
\* place.  (Without -x the code does the same, against README:38 and 39.)
Schedule ==
    mode = "sync" /\ step /\ pc \in {"wait", "tune"}
      /\ run[0] \in {"running", "ended"}
        => launched[0] = IL_BOT_RESET + 2 * tuneIter

\* However many scripts end at the same time, each one started anew is followed
\* by a round of tuning of its own before the next one is.
RoundPerRestart ==
    mode = "async" => /\ pending <= 1
                      /\ pc \in {"scan", "nap"} => pending = 0

\* With -n, async_tune leaves the interleaving as it is.
AsyncFixedRatio == mode = "async" /\ noTune => ratio = IL_BOT_RESET

\* Both loops come to their end, if the scripts come to theirs.
Finishes == <>(pc \in {"end", "exception"})

----------------------------------------------------------------------------
(* What makes them hold. *)

\* In sync_tune the kernel's ratio is the one the loop is at.
StepInv ==
    mode = "sync" =>
        /\ pc \in {"exec", "wait", "tune"} =>
               ratio = IL_BOT_RESET + 2 * tuneIter /\ steppingRatio = ratio
        /\ pc = "nap" =>
               ratio = IL_BOT_RESET + 2 * (tuneIter + 1) /\ steppingRatio = ratio
        /\ pc \notin {"start", "scan"}
        /\ \A i \in Scripts : i # 0 => run[i] = "none"
        /\ pc \in {"exec", "nap"} => run[0] \in {"none", "ended"}
        /\ pc = "tune" => run[0] = "ended"

\* Another round is begun only before the last one.
RoundInv ==
    /\ pc \in {"exec", "wait", "start", "scan", "tune", "nap"}
           => tuneIter < MAX_TUNE_ITER
    /\ mode = "async" => pc \notin {"exec", "wait"}
    /\ mode = "async" /\ pc = "start" => pending = 0
    /\ mode = "async" /\ pc = "tune" => pending = 1

\* Inductive: the first whatever IL_BOT_RESET is, the second if it is the 1 that
\* caption.py starts to count from.
LoopInv == TypeOK /\ RoundInv /\ RoundPerRestart /\ AsyncFixedRatio
SyncInv == StepInv /\ Schedule
Inv == LoopInv /\ SyncInv

----------------------------------------------------------------------------
(* What the documentation says and the code does not do. *)

\* README:38, "used for monitoring the model output at a fixed interleaving
\* ratio": with -n, and without -x, the ratio does not change.
FixedRatio == noTune /\ ~step => ratio = IL_BOT_RESET
=============================================================================
