----------------------------- MODULE CaptionCtrl -----------------------------
(***************************************************************************)
(* caption_ctrl (caption_ae): a sampler thread appends one value a second  *)
(* to each of three lists, the calls of get_set_tune_val average and empty *)
(* the lists, decide on a ratio (CaptionAlgo) and write it to the kernel   *)
(* with one sysctl for the top tier and one for the bottom.  Nothing is    *)
(* locked.  Lists are counted, their values abstracted: accu_avg is any of *)
(* States.  With model_only, which sync_tune uses, the ratio is left to    *)
(* the caller (CaptionLoop): kTop and kBot are as the reset left them.     *)
(***************************************************************************)
EXTENDS CaptionAlgo

CONSTANTS
    MIN_SAMPLE_CNT,
    States,         \* values accu_avg can take
    SysctlMayFail,  \* sysctl may fail, which set_ratio does not look at
    MaxSamples,     \* bound: no round is started on lists as long as this
    MaxRounds       \* bound: rounds the sampler starts while lists are averaged

ASSUME SampleAssumption ==
    /\ MIN_SAMPLE_CNT \in Nat /\ MaxSamples \in Nat /\ MaxRounds \in Nat
    /\ MaxRounds + 2 <= MIN_SAMPLE_CNT
ASSUME StatesAssumption == States \subseteq Int
ASSUME SysctlAssumption == SysctlMayFail \in BOOLEAN

\* 'norm_ipc', 'L1.miss.lats', 'DDR.read.lats', in the order of the dict.
Keys == 1 .. 3

VARIABLES
    modelOnly,     \* the model_only argument of the calls of this run
    len,           \* length of the list in self.arr, per key
    skey,          \* sampler: the key it is at, 0 while it sleeps
    held,          \* sampler: the list it has looked up but not appended to
    rounds,        \* sampler rounds started since the lists were found full
    tpc, tkey,     \* tuner: where it is, the key it is at
    counted,       \* tuner: number of values sum() has added up
    dyn,           \* tuner: accu_avg
    next,          \* tuner: what algo() is about to return
    prevState, prevStep, prevRatio,
    firstTime,     \* the first_time argument of the next call
    decided,       \* history: algo() has been called before
    kTop, kBot     \* the kernel's numa_tier_interleave_top and _bot

samplerVars == <<len, skey, held>>
trackVars   == <<prevState, prevStep, prevRatio, firstTime, decided>>
kernelVars  == <<kTop, kBot>>
vars == <<modelOnly, samplerVars, rounds, tpc, tkey, counted, dyn, next,
          trackVars, kernelVars>>

Starting  == tpc \in {"startTop", "startBot"}
Averaging == tpc \in {"sum", "mean", "clear"}

Init ==
    /\ modelOnly \in BOOLEAN
    /\ len = [key \in Keys |-> 0] /\ skey = 0 /\ held = "none" /\ rounds = 0
    /\ tpc = "startTop" /\ tkey = 1 /\ counted = 0 /\ dyn = 0
    /\ next = [step |-> STEP_RESET, ratio |-> -1]
    /\ prevState = -UNIT /\ prevStep = STEP_RESET /\ prevRatio = IL_BOT_RESET
    /\ firstTime = TRUE /\ decided = FALSE
    /\ kTop \in {0, IL_TOP_RESET} /\ kBot \in {0, IL_BOT_MAX}

----------------------------------------------------------------------------
(* set_ratio: two commands whose exit status is ignored. *)

Outcomes(old, new) == IF SysctlMayFail THEN {old, new} ELSE {new}

WriteTop(from, to) ==
    /\ tpc = from /\ tpc' = to
    /\ kTop' \in Outcomes(kTop, IL_TOP_RESET)
    /\ UNCHANGED <<modelOnly, samplerVars, rounds, tkey, counted, dyn, next,
                   trackVars, kBot>>

WriteBot(from, to, bot) ==
    /\ tpc = from /\ tpc' = to
    /\ kBot' \in Outcomes(kBot, bot)
    /\ UNCHANGED <<modelOnly, samplerVars, rounds, tkey, counted, dyn, next,
                   trackVars, kTop>>

\* run_realtime resets the ratio before it starts the sampler.
ResetAtStart == \/ WriteTop("startTop", "startBot")
                \/ WriteBot("startBot", "idle", IL_BOT_RESET)

----------------------------------------------------------------------------
(* The sampler thread: catch_output. *)

StartRound ==
    /\ ~Starting /\ skey = 0
    /\ \A key \in Keys : len[key] < MaxSamples
    /\ Averaging => rounds < MaxRounds
    /\ skey' = 1
    /\ rounds' = IF Averaging THEN rounds + 1 ELSE rounds
    /\ UNCHANGED <<modelOnly, len, held, tpc, tkey, counted, dyn, next,
                   trackVars, kernelVars>>

\* self.arr[key] is looked up ...
Lookup ==
    /\ skey # 0 /\ held = "none"
    /\ held' = "live"
    /\ UNCHANGED <<modelOnly, len, skey, rounds, tpc, tkey, counted, dyn, next,
                   trackVars, kernelVars>>

\* ... and appended to, in vain when the tuner has replaced it meanwhile.
Append ==
    /\ held # "none"
    /\ len' = IF held = "live" THEN [len EXCEPT ![skey] = @ + 1] ELSE len
    /\ held' = "none"
    /\ skey' = IF skey = 3 THEN 0 ELSE skey + 1
    /\ UNCHANGED <<modelOnly, rounds, tpc, tkey, counted, dyn, next, trackVars,
                   kernelVars>>

Sampler == StartRound \/ Lookup \/ Append

----------------------------------------------------------------------------
(* The tuner: get_set_tune_val, called by sync_tune (with model_only) and   *)
(* async_tune (without).                                                   *)

\* Mutant: a tuned ratio is looked for before there is a sample.
EnoughAnyway == TRUE
Enough == len[1] > MIN_SAMPLE_CNT

\* The caller clears first_time after the call, whatever the call did.
Call ==
    /\ tpc = "idle"
    /\ IF Enough
       THEN tpc' = "sum" /\ tkey' = 1 /\ rounds' = 0 /\ UNCHANGED firstTime
       ELSE firstTime' = FALSE /\ UNCHANGED <<tpc, tkey, rounds>>
    /\ UNCHANGED <<modelOnly, samplerVars, counted, dyn, next, prevState,
                   prevStep, prevRatio, decided, kernelVars>>

\* Mutant: the first list is summed up again.
SummedFirst(key) == len[1]
Summed(key) == len[key]

\* sum(v)
Sum ==
    /\ tpc = "sum" /\ tpc' = "mean"
    /\ counted' = Summed(tkey)
    /\ UNCHANGED <<modelOnly, samplerVars, rounds, tkey, dyn, next, trackVars,
                   kernelVars>>

\* / len(v)
Mean ==
    /\ tpc = "mean"
    /\ tpc' = IF len[tkey] = 0 THEN "zero_division" ELSE "clear"
    /\ UNCHANGED <<modelOnly, samplerVars, rounds, tkey, counted, dyn, next,
                   trackVars, kernelVars>>

\* Mutant: only the first list is emptied.
ClearedFirst(key) == IF key = 1 THEN [len EXCEPT ![key] = 0] ELSE len
\* self.arr[k] = []: a new list; an append already under way goes to the old.
Cleared(key) == [len EXCEPT ![key] = 0]

Clear ==
    /\ tpc = "clear"
    /\ len' = Cleared(tkey)
    /\ held' = IF skey = tkey /\ held = "live" THEN "stale" ELSE held
    /\ IF tkey < 3 THEN tpc' = "sum" /\ tkey' = tkey + 1 /\ UNCHANGED firstTime
       ELSE /\ tkey' = 1
            /\ tpc' = IF modelOnly THEN "idle" ELSE "decide"
            /\ firstTime' = (firstTime /\ ~modelOnly)
    /\ UNCHANGED <<modelOnly, skey, rounds, counted, dyn, next, prevState,
                   prevStep, prevRatio, decided, kernelVars>>

\* first_time: as if the state had been a little worse before.
CompareWith(now) == IF firstTime THEN now - UNIT ELSE prevState

Decide ==
    /\ tpc = "decide"
    /\ \E now \in States :
          LET stc == CompareWith(now)
          IN  /\ dyn' = now
              /\ next' = [step  |-> NewStep(now, stc, prevStep),
                          ratio |-> NewRatio(now, stc, prevStep, prevRatio)]
              /\ tpc' = IF Writes(now, stc) THEN "setTop" ELSE "track"
    /\ decided' = TRUE
    /\ UNCHANGED <<modelOnly, samplerVars, rounds, tkey, counted, prevState,
                   prevStep, prevRatio, firstTime, kernelVars>>

\* set_ratio from algo, with the new ratio or from reset_default.
SetRatio == \/ WriteTop("setTop", "setBot")
            \/ WriteBot("setBot", "track", Tracked(next.ratio))

Track ==
    /\ tpc = "track" /\ tpc' = "idle"
    /\ prevState' = dyn /\ prevStep' = next.step
    /\ prevRatio' = Tracked(next.ratio)
    /\ firstTime' = FALSE
    /\ UNCHANGED <<modelOnly, samplerVars, rounds, tkey, counted, dyn, next,
                   decided, kernelVars>>

Tuner == \/ ResetAtStart \/ Call \/ Sum \/ Mean \/ Clear
         \/ Decide \/ SetRatio \/ Track

Next == Sampler \/ Tuner

Spec == Init /\ [][Next]_vars

----------------------------------------------------------------------------
(* Properties. *)

TunerPoints == {"startTop", "startBot", "idle", "sum", "mean", "clear",
                "decide", "setTop", "setBot", "track", "zero_division"}

TypeOK ==
    /\ modelOnly \in BOOLEAN
    /\ len \in [Keys -> Nat] /\ skey \in 0 .. 3
    /\ held \in {"none", "live", "stale"} /\ (held # "none" => skey # 0)
    /\ rounds \in 0 .. MaxRounds
    /\ tpc \in TunerPoints /\ tkey \in Keys /\ counted \in Nat
    /\ dyn \in Int /\ prevState \in Int
    /\ next \in [step : Int, ratio : Int] /\ prevStep \in Int /\ prevRatio \in Int
    /\ firstTime \in BOOLEAN /\ decided \in BOOLEAN
    /\ kTop \in Nat /\ kBot \in Nat

\* Although only the first list is looked at before all three are divided by
\* their lengths, and the sampler appends to each of them while they are being
\* emptied one by one, no list is ever divided by a length of zero.
NoZeroDivision == tpc # "zero_division"

\* When the tuner looks, the lists differ by no more than the rounds that the
\* sampler was at while they were last emptied: the means are means of the
\* same seconds, up to those.
Lockstep ==
    tpc = "idle" => \A key \in Keys : /\ len[1] - len[key] <= MaxRounds + 2
                                      /\ len[key] - len[1] <= 1

\* However the state develops, and across resets, a step is never zero nor
\* longer than the initial one, and the ratio kept is one the kernel can use.
StepOk(s)  == Abs(s) \in MIN_STEP .. STEP_RESET
RatioOk(r) == r \in 1 .. IL_BOT_MAX
SearchInBounds == StepOk(prevStep) /\ RatioOk(prevRatio)

\* As long as sysctl works, and it is the tuner that sets the ratio, memory is
\* handed out at a ratio the controller knows of at every moment, also between
\* the two writes and after the -1 of a reset: the ratio it tracks, or will
\* track in its next step.
KernelAgrees ==
    ~Starting /\ ~SysctlMayFail /\ ~modelOnly =>
        /\ kTop = IL_TOP_RESET
        /\ kBot = IF tpc = "track" THEN Tracked(next.ratio) ELSE prevRatio

\* The sampler may append between sum(v) and len(v), so that a sum is divided by
\* a number other than that of its values: never by a smaller one, nor by one
\* that is larger than by the rounds started since the lists were found full
\* and the one under way then.
MeanOfSamples ==
    tpc = "mean" => len[tkey] - counted \in 0 .. rounds + 1

\* caption_ctrl.py:85, "first time tuning always attempt to tune toward more
\* CXL": the first decision raises the ratio.
FirstTuneUp == [][~decided /\ decided' => next'.ratio > prevRatio]_vars

----------------------------------------------------------------------------
(* What makes them hold. *)

\* Whether the round the sampler is at will still make list `key' longer.
Owes(key) ==
    IF skey \in 1 .. key /\ ~(skey = key /\ held = "stale") THEN 1 ELSE 0
Due(key) == len[key] + Owes(key)

\* The lists that this pass of the tuner has emptied; all of them once it is
\* over (and before the first).
Emptied(key) == Averaging => key < tkey

\* Counting what is due to them, the lists grow together.  The first is emptied
\* first and the others no more than MaxRounds rounds later, so that they are
\* afterwards ahead of it by at most the value under way when they were
\* emptied, and behind it by at most the rounds started meanwhile and the one
\* under way when it was.  That is less than the samples the tuner waits for,
\* so every list it goes on to has some.
ListInv ==
    /\ Averaging /\ Emptied(1) => Due(1) <= rounds + 1
    /\ \A key \in Keys : /\ Emptied(key) => Due(key) - Due(1) <= 1
                         /\ Emptied(key) => Due(1) - Due(key) <= MaxRounds + 1
                         /\ ~Emptied(key) => len[key] >= 1

\* What algo() returned while the tuner still has to act on it.
NextInv ==
    /\ StepOk(next.step)
    /\ next.ratio = -1 \/ RatioOk(next.ratio)

\* What is still due to the list that is being averaged counts as well.
MeanInv == tpc = "mean" => /\ counted <= len[tkey]
                           /\ Due(tkey) <= counted + rounds + 1

\* Until the first reset is through, the ratio tracked is the one it will set.
StartInv == /\ Starting => prevRatio = IL_BOT_RESET
            /\ tpc = "startBot" /\ ~SysctlMayFail => kTop = IL_TOP_RESET

Inv == TypeOK /\ ListInv /\ SearchInBounds /\ NextInv /\ NoZeroDivision
=============================================================================
