------------------------------ MODULE MemoRun ------------------------------
(***************************************************************************)
(* One run of cxlMemTest (memo_ae): run_test() starts num_thread copies of *)
(* thread_wrapper(), watches their counters from get_bw(), raises their    *)
(* halt flags and joins them.  Each thread turns the prefetchers of its    *)
(* core on or off through the core's MSR, measures, and puts them back.    *)
(* Ctrl-C may come at any time, an MSR access may fail, and exit() in any  *)
(* thread ends the process.                                                *)
(***************************************************************************)
EXTENDS Integers, FiniteSets

CONSTANTS
    NumThread,   \* cfg->num_thread
    NumCores,    \* processors online on the machine
    Configs,     \* the command lines of a run, as parse_arg leaves them
    MsrMayFail,  \* whether open/pread/pwrite on /dev/cpu/N/msr may fail
    MaxOps       \* bound: operations a thread starts before it must stop

Threads == 0 .. NumThread - 1
Cores   == 0 .. NumCores - 1
CoreArg == {-1} \union Nat

Types == {"LATS_CLFLUSH", "BW", "LATS_CHASE", "BLOCK_LATS"}
Ops   == {"READ", "READ_NT", "WRITE", "WRITE_NT", "MOV", "MIXED"}

Config == [type: Types, op: Ops, op_iter: Nat, bw_granu: Int,
           prefetch_en: BOOLEAN, starting_core: CoreArg,
           core_a: CoreArg, core_b: CoreArg]

ASSUME NumThreadAssumption == NumThread \in Nat \ {0}
ASSUME NumCoresAssumption  == NumCores \in Nat \ {0}
ASSUME ConfigsAssumption   == Configs \subseteq Config
ASSUME MsrAssumption       == MsrMayFail \in BOOLEAN
ASSUME MaxOpsAssumption    == MaxOps \in Nat \ {0}

VARIABLES
    cfg,          \* the parsed command line
    proc,         \* "running", or how the process ended
    keepRunning,  \* cleared by the SIGINT handler
    mpc, k, j,    \* main thread: where it is, its thread index, probes done
    curr, prev,   \* get_bw: curr_cnt and prev_cnt, in operations
    halt, cnt,    \* per thread, shared with main: halt and curr_op_cnt
    lap,          \* per thread: iterations of a latency loop
    tpc,          \* per thread: where it is
    pf,           \* per core: are its prefetchers on?
    base, mark    \* history: cnt when the scan began; curr_cnt before index i

mainVars   == <<mpc, k, j, curr, prev, base, mark>>
threadVars == <<cnt, lap, tpc, pf>>
vars == <<cfg, proc, keepRunning, halt, mainVars, threadVars>>

----------------------------------------------------------------------------
(* Where a thread runs (thread_wrapper) and what it is asked to do. *)

\* -a and -b given: one thread for each of two cores.
PairMode == cfg.core_a >= 0 /\ cfg.core_b >= 0

StartingCore(t) ==
    IF ~PairMode THEN cfg.starting_core
    ELSE IF t = 0 THEN cfg.core_a ELSE cfg.core_b

CoreNum(t) == t + StartingCore(t)

\* Mutant: the wrapper leaves the thread's index out.
MsrCoreNoIndex(t) == StartingCore(t)
\* The core whose register a wrapper writes.
MsrCore(t) == CoreNum(t)

Pinned(t) == StartingCore(t) >= 0

\* A third thread is turned away when only two cores are named.
Admitted(t) == ~(PairMode /\ t >= 2)

\* The values `res' may have when it is tested: unassigned when the thread is
\* not pinned, EINVAL for a core that is not there, else what
\* pthread_setaffinity_np answers.
AffinitySet(t) ==
    IF Pinned(t) /\ CoreNum(t) \notin Cores THEN {FALSE} ELSE BOOLEAN

\* The op_*() routines of bw_wrapper call exit(1) below MIN_GRANULARITY.
TooSmall == cfg.bw_granu * 64 < 512

\* The operations the two block latency switches know.
TimedOp == cfg.op \in {"READ", "READ_NT", "WRITE", "WRITE_NT"}

Laps == CASE cfg.type = "LATS_CHASE" -> cfg.op_iter + 1   \* one to warm up
          [] cfg.type = "LATS_CLFLUSH" /\ ~TimedOp -> 0
          [] OTHER -> cfg.op_iter

\* set_prefetching and restore_prefetching only act on a pinned thread, and
\* the latter only when the former disabled.
AfterEnter(t) == IF Pinned(t) THEN "setRead"
                 ELSE IF cfg.type = "BW" THEN "op" ELSE "lap"
AfterSet(t)   == IF cfg.type = "BW" THEN "op" ELSE "lap"

\* Where a thread goes once restore_prefetching is through.
AfterRestore == IF cfg.type = "LATS_CHASE" THEN "report" ELSE "done"
\* Mutant: the test of prefetch_en is the wrong way round.
RestoreOrInverted(t) ==
    IF Pinned(t) /\ cfg.prefetch_en THEN "rsRead" ELSE AfterRestore
RestoreOr(t) == IF Pinned(t) /\ ~cfg.prefetch_en THEN "rsRead" ELSE AfterRestore

----------------------------------------------------------------------------
Init ==
    /\ cfg \in Configs
    /\ proc = "running" /\ keepRunning = TRUE
    /\ mpc = "create" /\ k = 0 /\ j = 0 /\ curr = 0 /\ prev = 0
    /\ halt = [t \in Threads |-> FALSE]
    /\ cnt = [t \in Threads |-> 0]
    /\ lap = [t \in Threads |-> 0]
    /\ tpc = [t \in Threads |-> "none"]
    /\ pf \in [Cores -> BOOLEAN]
    /\ base = [t \in Threads |-> 0]
    /\ mark = [i \in 0 .. NumThread |-> 0]

----------------------------------------------------------------------------
(* The main thread: run_test, get_bw, stop_threads. *)

\* Step a loop over the threads; `next' is where main goes after the last one.
ForEachThread(next) ==
    IF k + 1 < NumThread
    THEN k' = k + 1 /\ UNCHANGED mpc
    ELSE k' = 0 /\ mpc' = next

Create ==
    /\ mpc = "create"
    /\ halt' = [halt EXCEPT ![k] = FALSE]
    /\ cnt' = [cnt EXCEPT ![k] = 0]
    /\ tpc' = [tpc EXCEPT ![k] = "start"]
    /\ ForEachThread(IF cfg.type = "BW" THEN "probe" ELSE "join")
    /\ UNCHANGED <<proc, j, curr, prev, base, mark, lap, pf>>

MoreProbes == j < cfg.op_iter

\* Mutant: curr_cnt keeps the sum of the scan before.
FirstSumStale == curr
FirstSum == 0

BeginScan ==
    /\ mpc = "probe" /\ MoreProbes
    /\ curr' = FirstSum
    /\ mpc' = "scan"
    /\ base' = cnt
    /\ UNCHANGED <<proc, k, j, prev, halt, mark, threadVars>>

ReadCounter ==
    /\ mpc = "scan"
    /\ curr' = curr + cnt[k]
    /\ mark' = [mark EXCEPT ![k + 1] = curr + cnt[k]]
    /\ ForEachThread("print")
    /\ UNCHANGED <<proc, j, prev, halt, base, threadVars>>

\* The bandwidth line, from curr_cnt - prev_cnt in unsigned arithmetic.
PrintBw ==
    /\ mpc = "print"
    /\ prev' = curr
    /\ mpc' = IF keepRunning THEN "sleep" ELSE "stop"
    /\ base' = [t \in Threads |-> 0]
    /\ UNCHANGED <<proc, k, j, curr, halt, mark, threadVars>>

Wake ==
    /\ mpc = "sleep"
    /\ j' = j + 1
    /\ mpc' = "probe"
    /\ UNCHANGED <<proc, k, curr, prev, halt, base, mark, threadVars>>

LastProbe ==
    /\ mpc = "probe" /\ ~MoreProbes
    /\ mpc' = "stop"
    /\ UNCHANGED <<proc, k, j, curr, prev, halt, base, mark, threadVars>>

\* Mutant: the loop of stop_threads starts at 1.
HaltedSkippingFirst(t) == t > 0
Halted(t) == TRUE

StopThread ==
    /\ mpc = "stop"
    /\ halt' = [halt EXCEPT ![k] = Halted(k)]
    /\ ForEachThread("join")
    /\ UNCHANGED <<proc, j, curr, prev, base, mark, threadVars>>

Returned(t) == tpc[t] \in {"gone", "done"}

Joinable(t) == Returned(t)

Join ==
    /\ mpc = "join" /\ Joinable(k)
    /\ ForEachThread("free")
    /\ UNCHANGED <<proc, j, curr, prev, halt, base, mark, threadVars>>

\* free(cfg_arr), return to main() and out of it.
Free ==
    /\ mpc = "free"
    /\ mpc' = "end" /\ proc' = "exited"
    /\ UNCHANGED <<k, j, curr, prev, halt, base, mark, threadVars>>

MainStep ==
    \/ Create \/ BeginScan \/ ReadCounter \/ PrintBw \/ Wake
    \/ LastProbe \/ StopThread \/ Join \/ Free

Main == proc = "running" /\ MainStep /\ UNCHANGED <<cfg, keepRunning>>

----------------------------------------------------------------------------
(* A test thread: thread_wrapper and the wrapper it calls. *)

Goto(t, from, to) == tpc[t] = from /\ tpc' = [tpc EXCEPT ![t] = to]

Dispatch(t) ==
    /\ \/ Goto(t, "start", "gone") /\ (~Admitted(t) \/ FALSE \in AffinitySet(t))
       \/ Goto(t, "start", "enter") /\ Admitted(t) /\ TRUE \in AffinitySet(t)
    /\ UNCHANGED <<proc, cnt, lap, pf>>

\* bw_wrapper clears its counter on the way in; the others have no use for it.
Enter(t) ==
    /\ Goto(t, "enter", AfterEnter(t))
    /\ cnt' = [cnt EXCEPT ![t] = 0]
    /\ UNCHANGED <<proc, lap, pf>>

\* read_MSR: the value read is written back with the low four bits changed.
ReadMsr(t) ==
    /\ \/ Goto(t, "setRead", "setWrite")
       \/ Goto(t, "setCheck", AfterSet(t))
       \/ Goto(t, "rsRead", "rsWrite")
    /\ UNCHANGED <<proc, cnt, lap, pf>>

\* disable_prefetch reads the register once more, enable_prefetch does not.
SetPrefetch(t) ==
    /\ Goto(t, "setWrite", IF cfg.prefetch_en THEN AfterSet(t) ELSE "setCheck")
    /\ pf' = [pf EXCEPT ![MsrCore(t)] = cfg.prefetch_en]
    /\ UNCHANGED <<proc, cnt, lap>>

RestorePrefetch(t) ==
    /\ Goto(t, "rsWrite", AfterRestore)
    /\ pf' = [pf EXCEPT ![MsrCore(t)] = TRUE]
    /\ UNCHANGED <<proc, cnt, lap>>

MsrFault(t) ==
    /\ MsrMayFail
    /\ tpc[t] \in {"setRead", "setWrite", "setCheck", "rsRead", "rsWrite"}
    /\ proc' = "msr_error"
    /\ UNCHANGED <<cnt, lap, tpc, pf>>

\* Mutant: the counter is cleared when the walk reaches the end of its buffer.
CountedInBuffer(t) == IF cnt[t] = MaxOps - 1 THEN 0 ELSE cnt[t] + 1
Counted(t) == cnt[t] + 1

\* One turn of bw_wrapper's loop, up to the update of curr_op_cnt ...
Operate(t) ==
    /\ ~TooSmall
    /\ Goto(t, "op", "test")
    /\ cnt' = [cnt EXCEPT ![t] = Counted(t)]
    /\ UNCHANGED <<proc, lap, pf>>

RefuseSize(t) ==
    /\ TooSmall /\ tpc[t] = "op"
    /\ proc' = "exit1"
    /\ UNCHANGED <<cnt, lap, tpc, pf>>

\* ... and the test of halt at its end.
TestHalt(t) ==
    /\ IF halt[t] THEN Goto(t, "test", RestoreOr(t))
                  ELSE cnt[t] < MaxOps /\ Goto(t, "test", "op")
    /\ UNCHANGED <<proc, cnt, lap, pf>>

\* Mutant: `goto out' of block_lats_wrapper jumps past the restore.
AfterBadOpUnrestored(t) == "done"
AfterBadOp(t) == RestoreOr(t)

\* A turn of a latency loop; block_lats_wrapper gives up on an unknown op.
Lap(t) ==
    /\ tpc[t] = "lap" /\ lap[t] < Laps
    /\ IF cfg.type = "BLOCK_LATS" /\ ~TimedOp
       THEN tpc' = [tpc EXCEPT ![t] = AfterBadOp(t)] /\ UNCHANGED lap
       ELSE lap' = [lap EXCEPT ![t] = @ + 1] /\ UNCHANGED tpc
    /\ UNCHANGED <<proc, cnt, pf>>

LapsDone(t) ==
    /\ lap[t] >= Laps
    /\ Goto(t, "lap", IF cfg.type = "LATS_CHASE" THEN RestoreOr(t) ELSE "report")
    /\ UNCHANGED <<proc, cnt, lap, pf>>

\* print_lats divides by op_iter; the chase has restored before, the others
\* restore after.
Report(t) ==
    /\ cfg.op_iter > 0
    /\ Goto(t, "report", IF cfg.type = "LATS_CHASE" THEN "done" ELSE RestoreOr(t))
    /\ UNCHANGED <<proc, cnt, lap, pf>>

DivideByZero(t) ==
    /\ cfg.op_iter = 0 /\ tpc[t] = "report"
    /\ proc' = "sigfpe"
    /\ UNCHANGED <<cnt, lap, tpc, pf>>

ThreadStep(t) ==
    \/ Dispatch(t) \/ Enter(t)
    \/ ReadMsr(t) \/ SetPrefetch(t) \/ RestorePrefetch(t) \/ MsrFault(t)
    \/ Operate(t) \/ RefuseSize(t) \/ TestHalt(t)
    \/ Lap(t) \/ LapsDone(t) \/ Report(t) \/ DivideByZero(t)

Thread(t) ==
    proc = "running" /\ ThreadStep(t)
                     /\ UNCHANGED <<cfg, keepRunning, halt, mainVars>>

----------------------------------------------------------------------------
\* intHandler
Sigint ==
    /\ proc = "running" /\ keepRunning
    /\ keepRunning' = FALSE
    /\ UNCHANGED <<cfg, proc, halt, mainVars, threadVars>>

Next == Main \/ (\E t \in Threads : Thread(t)) \/ Sigint

\* The scheduler runs every runnable thread; nobody has to press Ctrl-C.
Fairness == WF_vars(Main) /\ \A t \in Threads : WF_vars(Thread(t))

Spec == Init /\ [][Next]_vars /\ Fairness

----------------------------------------------------------------------------
(* Properties. *)

MainPoints == {"create", "probe", "scan", "print", "sleep", "stop", "join",
               "free", "end"}
ThreadPoints == {"none", "start", "gone", "enter", "setRead", "setWrite",
                 "setCheck", "op", "test", "lap", "report", "rsRead",
                 "rsWrite", "done"}

\* Type invariant; main's thread index is below num_thread whenever it is
\* used, and get_bw probes no more often than it was asked to.
TypeOK ==
    /\ cfg \in Configs
    /\ proc \in {"running", "exited", "exit1", "msr_error", "sigfpe"}
    /\ keepRunning \in BOOLEAN
    /\ mpc \in MainPoints
    /\ k \in Threads /\ j \in 0 .. cfg.op_iter
    /\ curr \in Nat /\ prev \in Nat
    /\ halt \in [Threads -> BOOLEAN]
    /\ cnt \in [Threads -> Nat] /\ lap \in [Threads -> Nat]
    /\ tpc \in [Threads -> ThreadPoints]
    /\ pf \in [Cores -> BOOLEAN]
    /\ base \in [Threads -> Nat] /\ mark \in [0 .. NumThread -> Nat]

\* get_bw subtracts prev_cnt from curr_cnt as unsigned numbers, although it
\* reads the counters one after the other while the threads go on counting
\* and enter bw_wrapper, which clears them: the difference never wraps.
ReadingsNeverShrink == mpc = "print" => curr >= prev

\* The tid-th counter read in this scan lies between what the thread had
\* counted when the scan began and what it has counted now: no operation is
\* attributed to a reading it does not belong to.
ReadingsAreFresh ==
    mpc = "print" => \A t \in Threads : /\ base[t] <= mark[t + 1] - mark[t]
                                         /\ mark[t + 1] - mark[t] <= cnt[t]

\* Two threads that run on one core also share its prefetcher register.
Alone(t) == \A u \in Threads \ {t} : Admitted(u) => CoreNum(u) # CoreNum(t)

Measuring(t) == tpc[t] \in {"op", "test", "lap"}

\* While a pinned thread with a core of its own measures, the prefetchers of
\* that core are as the command line asks (set_prefetching), whatever the
\* other threads set and restore meanwhile.
ConfiguredWhileMeasuring ==
    \A t \in Threads :
        Measuring(t) /\ Pinned(t) /\ Alone(t)
            => pf[CoreNum(t)] = cfg.prefetch_en

\* A pinned thread that has returned from its wrapper, by whichever way out,
\* has left the prefetchers of its core on (restore_prefetching).
RestoredWhenDone ==
    \A t \in Threads :
        tpc[t] = "done" /\ Pinned(t) /\ Alone(t) => pf[CoreNum(t)]

\* run_test frees the array of configurations that holds the threads' halt
\* flags and counters: no thread is left that could touch it.
JoinedBeforeFree ==
    mpc \in {"free", "end"} => \A t \in Threads : Returned(t)

\* The run ends, by itself or after Ctrl-C: every bandwidth thread is told to
\* halt and sees it, every latency loop is finite, every join returns.
Termination == <>(proc # "running")

----------------------------------------------------------------------------
(* What makes them hold: the inductive invariant. *)

\* A probe that is under way is one of those asked for.
ProbeInv == mpc \in {"scan", "print", "sleep"} => j < cfg.op_iter

NotEntered(t) == tpc[t] \in {"none", "start", "gone", "enter"}
BeenRead(t)   == mpc = "print" \/ (mpc = "scan" /\ t < k)

\* The clearing of curr_op_cnt by run_test and by bw_wrapper changes nothing;
\* so what a scan reads from a thread never falls behind what the scan before
\* has read, and the running sums of the two can be compared index by index.
MeterInv ==
    /\ \A t \in Threads : NotEntered(t) => cnt[t] = 0
    /\ mpc = "create" => \A t \in Threads : t >= k => tpc[t] = "none"
    /\ mark[0] = 0
    /\ \A t \in Threads : /\ mark[t + 1] - mark[t] <= cnt[t]
                          /\ base[t] <= cnt[t]
                          /\ BeenRead(t) => base[t] <= mark[t + 1] - mark[t]
    /\ prev <= mark[NumThread]
    /\ mpc \in {"probe", "print", "sleep"} => k = 0
    /\ mpc = "scan" => curr = mark[k]
    /\ mpc = "print" => curr = mark[NumThread]

\* A thread that gets as far as a wrapper was admitted and runs where it says.
PlacementInv ==
    \A t \in Threads :
        tpc[t] \notin {"none", "start", "gone"} =>
            Admitted(t) /\ (Pinned(t) => CoreNum(t) \in Cores)

\* The register of a thread's own core, at every point of its wrapper.
Configured(t) == tpc[t] \in {"setCheck", "op", "test", "lap"}
Restored(t)   == \/ tpc[t] = "done"
                 \/ tpc[t] = "report" /\ cfg.type = "LATS_CHASE"
Leaving(t)    == tpc[t] \in {"report", "rsRead", "rsWrite", "done"}

PrefetchInv ==
    \A t \in Threads :
        Pinned(t) /\ Alone(t) =>
            /\ Configured(t) => pf[CoreNum(t)] = cfg.prefetch_en
            /\ Leaving(t) /\ cfg.prefetch_en => pf[CoreNum(t)] = TRUE
            /\ Restored(t) => pf[CoreNum(t)] = TRUE

\* The threads joined so far have returned.
JoinInv ==
    /\ mpc = "join" => \A t \in Threads : t < k => Returned(t)
    /\ mpc \in {"free", "end"} => \A t \in Threads : Returned(t)

\* TypeOK and the five parts above, inductive together.
Inv == TypeOK /\ ProbeInv /\ MeterInv /\ PlacementInv /\ PrefetchInv /\ JoinInv

----------------------------------------------------------------------------
(* get_bw as a meter of the work done: the abstract specification. *)

\* The operations behind the counters f, each a thread and a serial number.
Units(f) == UNION {{t} \X (1 .. f[t]) : t \in Threads}
Total(f) == Cardinality(Units(f))

Phase == IF proc # "running" \/ mpc \in {"free", "end"} THEN "over"
         ELSE IF mpc \in {"scan", "print"} THEN "reading" ELSE "idle"

\* What get_bw and the threads do to the counters, the scans and their sums is
\* what BwMeter allows: a reading between the work done before the scan and
\* the work done when it is printed, and no work after the last join.
Meter == INSTANCE BwMeter WITH
             total <- Total(cnt), floor <- Total(base), reading <- prev,
             phase <- Phase
MeterSpec == Meter!Spec

----------------------------------------------------------------------------
(* What the documentation says and the code does not do. *)

\* util.c:33, "-a/b pin to core a and core b": the second of two threads runs
\* on core b.
PinnedAsAsked ==
    PairMode => \A t \in Threads :
        Measuring(t) => CoreNum(t) \in {cfg.core_a, cfg.core_b}
=============================================================================
