--------------------------- MODULE MemoRunProofs ---------------------------
(***************************************************************************)
(* Proofs about MemoRun, for every number of threads and cores, every set  *)
(* of command lines and every bound on the work of a thread.               *)
(***************************************************************************)
EXTENDS MemoRun, FiniteSetTheorems, WellFoundedInduction, TLAPS

USE NumThreadAssumption, NumCoresAssumption, ConfigsAssumption, MsrAssumption,
    MaxOpsAssumption

\* What a configuration is made of.
LEMMA ConfigFields ==
    ASSUME NEW c \in Configs
    PROVE  /\ c.op_iter \in Nat /\ c.bw_granu \in Int /\ c.prefetch_en \in BOOLEAN
           /\ c.starting_core \in Int /\ c.core_a \in Int /\ c.core_b \in Int
  BY DEF Config, CoreArg

\* The core a thread is sent to is a number.
LEMMA CoreNumType ==
    ASSUME cfg \in Configs, NEW t \in Threads
    PROVE  CoreNum(t) \in Int /\ StartingCore(t) \in Int
  BY ConfigFields DEF CoreNum, StartingCore, Threads

\* A step of main's loops keeps the thread index in range and ends at `next'.
LEMMA ForEachThreadType ==
    ASSUME k \in Threads, NEW next, ForEachThread(next)
    PROVE  /\ k' \in Threads
           /\ \/ k + 1 < NumThread /\ k' = k + 1 /\ mpc' = mpc
              \/ k = NumThread - 1 /\ k' = 0 /\ mpc' = next
  BY DEF ForEachThread, Threads

\* A jump moves its thread and no other.
LEMMA GotoMoves ==
    ASSUME TypeOK, NEW t \in Threads, NEW from, NEW to, Goto(t, from, to)
    PROVE  /\ tpc[t] = from /\ tpc'[t] = to
           /\ \A u \in Threads \ {t} : tpc'[u] = tpc[u]
           /\ to \in ThreadPoints => tpc' \in [Threads -> ThreadPoints]
  BY DEF Goto, TypeOK

\* The points that main and the other threads tell apart: a thread's step
\* leaves the other threads where they are, never starts from a return and
\* never goes back behind the dispatch.
Moves(t) ==
    /\ tpc' \in [Threads -> ThreadPoints]
    /\ \A u \in Threads \ {t} : tpc'[u] = tpc[u]
    /\ ~Returned(t) /\ tpc[t] # "none"
    /\ tpc'[t] = tpc[t] \/ tpc'[t] \notin {"none", "start"}
    /\ NotEntered(t)' => NotEntered(t)

LEMMA ThreadMoves ==
    ASSUME TypeOK, NEW t \in Threads, ThreadStep(t)
    PROVE  Moves(t)
<1> USE DEF Moves, Returned, NotEntered
<1>1. CASE Dispatch(t)
  <2>1. CASE Goto(t, "start", "gone")
    BY <2>1, GotoMoves DEF ThreadPoints
  <2>2. CASE Goto(t, "start", "enter")
    BY <2>2, GotoMoves DEF ThreadPoints
  <2> QED BY <1>1, <2>1, <2>2 DEF Dispatch
<1>2. CASE Enter(t)
  BY <1>2, GotoMoves DEF Enter, AfterEnter, ThreadPoints
<1>3. CASE ReadMsr(t)
  BY <1>3, GotoMoves DEF ReadMsr, AfterSet, ThreadPoints
<1>4. CASE SetPrefetch(t)
  BY <1>4, GotoMoves DEF SetPrefetch, AfterSet, ThreadPoints
<1>5. CASE RestorePrefetch(t)
  BY <1>5, GotoMoves DEF RestorePrefetch, AfterRestore, ThreadPoints
<1>6. CASE MsrFault(t) \/ RefuseSize(t) \/ DivideByZero(t)
  BY <1>6 DEF MsrFault, RefuseSize, DivideByZero, TypeOK
<1>7. CASE Operate(t)
  BY <1>7, GotoMoves DEF Operate, ThreadPoints
<1>8. CASE TestHalt(t)
  BY <1>8, GotoMoves DEF TestHalt, RestoreOr, AfterRestore, ThreadPoints
<1>9. CASE Lap(t)
  BY <1>9 DEF Lap, TypeOK, AfterBadOp, RestoreOr, AfterRestore, ThreadPoints
<1>10. CASE LapsDone(t)
  BY <1>10, GotoMoves DEF LapsDone, RestoreOr, AfterRestore, ThreadPoints
<1>11. CASE Report(t)
  BY <1>11, GotoMoves DEF Report, RestoreOr, AfterRestore, ThreadPoints
<1> QED BY <1>1, <1>2, <1>3, <1>4, <1>5, <1>6, <1>7, <1>8, <1>9, <1>10, <1>11
           DEF ThreadStep

\* What a thread's step does to the counters: only its own may change, to 0
\* where the wrapper is entered and by one in the wrapper's loop.
Counts(t) ==
    /\ cnt' \in [Threads -> Nat]
    /\ \A u \in Threads \ {t} : cnt'[u] = cnt[u]
    /\ \/ cnt'[t] = cnt[t]
       \/ tpc[t] = "enter" /\ cnt'[t] = 0
       \/ tpc[t] = "op" /\ cnt'[t] = cnt[t] + 1

LEMMA ThreadCounts ==
    ASSUME TypeOK, NEW t \in Threads, ThreadStep(t)
    PROVE  Counts(t)
<1> USE DEF Counts, TypeOK
<1>1. CASE cnt' = cnt
  BY <1>1
<1>2. CASE Enter(t)
  BY <1>2, GotoMoves DEF Enter
<1>3. CASE Operate(t)
  <2>1. cnt' = [cnt EXCEPT ![t] = cnt[t] + 1] /\ tpc[t] = "op"
    BY <1>3, GotoMoves DEF Operate, Counted
  <2> QED BY <2>1
<1> QED BY <1>1, <1>2, <1>3
           DEF ThreadStep, Dispatch, ReadMsr, SetPrefetch, RestorePrefetch,
               MsrFault, RefuseSize, TestHalt, Lap, LapsDone, Report, DivideByZero

----------------------------------------------------------------------------
(* Type correctness. *)

LEMMA TypeInit == Init => TypeOK /\ ProbeInv
  BY ConfigFields
     DEF Init, TypeOK, ProbeInv, Threads, Cores, MainPoints, ThreadPoints

LEMMA MainKeepsTypes ==
    ASSUME TypeOK, ProbeInv, Main
    PROVE  TypeOK' /\ ProbeInv'
<1>1. cfg' = cfg /\ keepRunning' = keepRunning /\ MainStep
  BY DEF Main
<1>2. cfg.op_iter \in Nat
  BY ConfigFields DEF TypeOK
<1>3. CASE Create
  <2>1. k' \in Threads /\ mpc' \in {"create", "probe", "join"}
    BY <1>3, ForEachThreadType DEF Create, TypeOK
  <2> QED BY <1>1, <1>3, <2>1 DEF Create, TypeOK, ProbeInv, MainPoints, ThreadPoints
<1>4. CASE BeginScan
  BY <1>1, <1>2, <1>4
     DEF BeginScan, MoreProbes, FirstSum, TypeOK, ProbeInv, threadVars, MainPoints
<1>5. CASE ReadCounter
  <2>1. k' \in Threads /\ mpc' \in {"scan", "print"}
    BY <1>5, ForEachThreadType DEF ReadCounter, TypeOK
  <2>2. curr + cnt[k] \in Nat /\ k + 1 \in 0 .. NumThread
    BY DEF TypeOK, Threads
  <2> QED BY <1>1, <1>5, <2>1, <2>2
             DEF ReadCounter, TypeOK, ProbeInv, threadVars, MainPoints
<1>6. CASE PrintBw
  BY <1>1, <1>6 DEF PrintBw, TypeOK, ProbeInv, threadVars, MainPoints
<1>7. CASE Wake
  BY <1>1, <1>2, <1>7 DEF Wake, TypeOK, ProbeInv, threadVars, MainPoints
<1>8. CASE LastProbe
  BY <1>1, <1>8 DEF LastProbe, TypeOK, ProbeInv, threadVars, MainPoints
<1>9. CASE StopThread
  <2>1. k' \in Threads /\ mpc' \in {"stop", "join"}
    BY <1>9, ForEachThreadType DEF StopThread, TypeOK
  <2> QED BY <1>1, <1>9, <2>1
             DEF StopThread, Halted, TypeOK, ProbeInv, threadVars, MainPoints
<1>10. CASE Join
  <2>1. k' \in Threads /\ mpc' \in {"join", "free"}
    BY <1>10, ForEachThreadType DEF Join, TypeOK
  <2> QED BY <1>1, <1>10, <2>1 DEF Join, TypeOK, ProbeInv, threadVars, MainPoints
<1>11. CASE Free
  BY <1>1, <1>11 DEF Free, TypeOK, ProbeInv, threadVars, MainPoints
<1> QED BY <1>1, <1>3, <1>4, <1>5, <1>6, <1>7, <1>8, <1>9, <1>10, <1>11 DEF MainStep

LEMMA ThreadKeepsTypes ==
    ASSUME TypeOK, ProbeInv, NEW t \in Threads, Thread(t)
    PROVE  TypeOK' /\ ProbeInv'
<1>1. /\ ThreadStep(t)
      /\ UNCHANGED <<cfg, keepRunning, halt, mpc, k, j, curr, prev, base, mark>>
  BY DEF Thread, mainVars
<1>2. proc' \in {"running", "exited", "exit1", "msr_error", "sigfpe"}
  BY <1>1
     DEF TypeOK, ThreadStep, Dispatch, Enter, ReadMsr, SetPrefetch,
         RestorePrefetch, MsrFault, Operate, RefuseSize, TestHalt, Lap,
         LapsDone, Report, DivideByZero
<1>3. lap' \in [Threads -> Nat]
  <2>1. lap' = lap \/ lap' = [lap EXCEPT ![t] = lap[t] + 1]
    BY <1>1
       DEF ThreadStep, Dispatch, Enter, ReadMsr, SetPrefetch,
           RestorePrefetch, MsrFault, Operate, RefuseSize, TestHalt, Lap,
           LapsDone, Report, DivideByZero
  <2>2. lap \in [Threads -> Nat]
    BY DEF TypeOK
  <2> QED BY <2>1, <2>2
<1>4. pf' \in [Cores -> BOOLEAN]
  <2>1. \/ pf' = pf
        \/ pf' = [pf EXCEPT ![CoreNum(t)] = cfg.prefetch_en]
        \/ pf' = [pf EXCEPT ![CoreNum(t)] = TRUE]
    <3>1. CASE SetPrefetch(t)
      BY <3>1 DEF SetPrefetch, MsrCore
    <3>2. CASE RestorePrefetch(t)
      BY <3>2 DEF RestorePrefetch, MsrCore
    <3>3. CASE pf' = pf
      BY <3>3
    <3> QED BY <1>1, <3>1, <3>2, <3>3
            DEF ThreadStep, Dispatch, Enter, ReadMsr, MsrFault, Operate, RefuseSize,
                TestHalt, Lap, LapsDone, Report, DivideByZero
  <2>2. cfg.prefetch_en \in BOOLEAN
    BY ConfigFields DEF TypeOK
  <2> QED BY <2>1, <2>2 DEF TypeOK
<1>5. tpc' \in [Threads -> ThreadPoints] /\ cnt' \in [Threads -> Nat]
  BY <1>1, ThreadMoves, ThreadCounts DEF Moves, Counts
<1> QED BY <1>1, <1>2, <1>3, <1>4, <1>5 DEF TypeOK, ProbeInv

LEMMA TypeNext == TypeOK /\ ProbeInv /\ [Next]_vars => TypeOK' /\ ProbeInv'
<1> SUFFICES ASSUME TypeOK, ProbeInv, [Next]_vars PROVE TypeOK' /\ ProbeInv'
  OBVIOUS
<1>1. CASE Main
  BY <1>1, MainKeepsTypes
<1>2. CASE \E t \in Threads : Thread(t)
  BY <1>2, ThreadKeepsTypes
<1>3. CASE Sigint
  BY <1>3 DEF Sigint, TypeOK, ProbeInv, mainVars, threadVars
<1>4. CASE UNCHANGED vars
  BY <1>4 DEF vars, TypeOK, ProbeInv, mainVars, threadVars
<1> QED BY <1>1, <1>2, <1>3, <1>4 DEF Next

\* Every variable keeps its type; main never uses a thread index out of range
\* and never starts a probe it was not asked for.
THEOREM TypeCorrect == Spec => [](TypeOK /\ ProbeInv)
  BY TypeInit, TypeNext, PTL DEF Spec
----------------------------------------------------------------------------
(* The counters and the sums get_bw makes of them. *)

LEMMA MeterInit == Init => MeterInv
  BY DEF Init, MeterInv, BeenRead, Threads

\* What MeterInv says of one thread.
MeterOf(t) ==
    /\ NotEntered(t) => cnt[t] = 0
    /\ mark[t + 1] - mark[t] <= cnt[t]
    /\ base[t] <= cnt[t]
    /\ BeenRead(t) => base[t] <= mark[t + 1] - mark[t]

LEMMA MeterTypes ==
    ASSUME TypeOK
    PROVE  /\ mark[0] \in Nat /\ mark[NumThread] \in Nat
           /\ \A t \in Threads : /\ t \in Nat /\ t + 1 \in 0 .. NumThread
                                 /\ cnt[t] \in Nat /\ base[t] \in Nat
                                 /\ mark[t] \in Nat /\ mark[t + 1] \in Nat
<1>1. /\ mark \in [0 .. NumThread -> Nat]
      /\ cnt \in [Threads -> Nat] /\ base \in [Threads -> Nat]
  BY DEF TypeOK
<1>2. /\ 0 \in 0 .. NumThread /\ NumThread \in 0 .. NumThread
      /\ \A t \in Threads : /\ t \in Nat /\ t \in 0 .. NumThread
                            /\ t + 1 \in 0 .. NumThread
  BY DEF Threads
<1> QED BY <1>1, <1>2

LEMMA ThreadKeepsMeter ==
    ASSUME TypeOK, TypeOK', MeterInv, NEW t \in Threads, Thread(t)
    PROVE  MeterInv'
<1>1. /\ ThreadStep(t)
      /\ UNCHANGED <<mpc, k, curr, prev, base, mark>>
  BY DEF Thread, mainVars
<1>2. Moves(t) /\ Counts(t)
  BY <1>1, ThreadMoves, ThreadCounts
<1>3. mpc # "create" \/ tpc' # tpc \/ tpc' = tpc
  OBVIOUS
<1>4. ASSUME NEW u \in Threads PROVE MeterOf(u)'
  <2>0. MeterOf(u)
    BY DEF MeterInv, MeterOf
  <2>1. CASE u # t
    BY <1>1, <1>2, <2>0, <2>1 DEF Moves, Counts, MeterOf, NotEntered, BeenRead
  <2>2. CASE u = t
    <3>1. cnt[t] \in Nat /\ cnt'[t] \in Nat
      BY DEF TypeOK
    <3>2. cnt'[t] >= cnt[t]
      BY <1>2, <2>0, <2>2, <3>1 DEF Counts, MeterOf, NotEntered
    <3>3. NotEntered(t)' => cnt'[t] = 0
      BY <1>2, <2>0, <2>2 DEF Moves, Counts, MeterOf, NotEntered
    <3>4. mark[t] \in Nat /\ mark[t + 1] \in Nat /\ base[t] \in Nat
      BY MeterTypes
    <3> QED BY <1>1, <2>0, <2>2, <3>1, <3>2, <3>3, <3>4 DEF MeterOf, BeenRead
  <2> QED BY <2>1, <2>2
<1>5. mpc' = "create" => \A u \in Threads : u >= k' => tpc'[u] = "none"
  BY <1>1, <1>2 DEF MeterInv, Moves, TypeOK
<1> QED BY <1>1, <1>4, <1>5 DEF MeterInv, MeterOf, NotEntered, BeenRead

LEMMA MainKeepsMeter ==
    ASSUME TypeOK, TypeOK', MeterInv, Main
    PROVE  MeterInv'
<1>1. MainStep
  BY DEF Main
<1>2. /\ k \in Threads /\ curr \in Nat /\ prev \in Nat
      /\ mark[NumThread] \in Nat /\ mark[0] \in Nat
      /\ \A t \in Threads : /\ t \in Nat /\ t + 1 \in 0 .. NumThread
                            /\ cnt[t] \in Nat /\ base[t] \in Nat
                            /\ mark[t] \in Nat /\ mark[t + 1] \in Nat
  BY MeterTypes DEF TypeOK
<1>3. \A t \in Threads : MeterOf(t)
  BY DEF MeterInv, MeterOf
<1>4. CASE Create
  <2>1. tpc[k] = "none" /\ cnt[k] = 0
    BY <1>2, <1>4 DEF Create, MeterInv, NotEntered
  <2>2. cnt' = cnt
    BY <1>4, <2>1 DEF Create, TypeOK
  <2>3. \A t \in Threads : tpc'[t] = IF t = k THEN "start" ELSE tpc[t]
    BY <1>2, <1>4 DEF Create, TypeOK
  <2>4. /\ k' \in Threads
        /\ \/ k + 1 < NumThread /\ k' = k + 1 /\ mpc' = mpc
           \/ k' = 0 /\ mpc' = IF cfg.type = "BW" THEN "probe" ELSE "join"
    BY <1>2, <1>4, ForEachThreadType DEF Create
  <2>5. \A t \in Threads : NotEntered(t)' => cnt'[t] = 0
    BY <1>3, <2>1, <2>2, <2>3 DEF NotEntered, MeterOf
  <2>6. mpc' = "create" => \A t \in Threads : t >= k' => tpc'[t] = "none"
    BY <1>2, <1>4, <2>3, <2>4 DEF MeterInv, Create
  <2>7. /\ mpc' \in {"create", "probe", "join"} /\ (mpc' = "probe" => k' = 0)
        /\ UNCHANGED <<curr, prev, base, mark>>
    BY <1>4, <2>4 DEF Create
  <2>8. /\ mpc' \notin {"scan", "print", "sleep"}
        /\ \A t \in Threads : ~BeenRead(t)'
    BY <2>7 DEF BeenRead
  <2> QED BY <2>2, <2>5, <2>6, <2>7, <2>8 DEF MeterInv
<1>5. CASE BeginScan
  <2>1. /\ mpc' = "scan" /\ k' = k /\ curr' = 0 /\ base' = cnt
        /\ UNCHANGED <<prev, mark, cnt, tpc>>
    BY <1>5 DEF BeginScan, FirstSum, threadVars
  <2>2. k = 0
    BY <1>5 DEF BeginScan, MeterInv
  <2> QED BY <1>2, <1>3, <2>1, <2>2 DEF MeterInv, MeterOf, NotEntered, BeenRead
<1>6. CASE ReadCounter
  <2>1. /\ mpc = "scan" /\ curr = mark[k] /\ curr' = curr + cnt[k]
        /\ mark' = [mark EXCEPT ![k + 1] = curr + cnt[k]]
        /\ UNCHANGED <<prev, base, cnt, tpc>>
    BY <1>6 DEF ReadCounter, threadVars, MeterInv
  <2>2. \/ k + 1 < NumThread /\ k' = k + 1 /\ mpc' = "scan"
        \/ k = NumThread - 1 /\ k' = 0 /\ mpc' = "print"
    BY <1>2, <1>6, <2>1, ForEachThreadType DEF ReadCounter
  <2>3. \A i \in 0 .. NumThread :
            mark'[i] = IF i = k + 1 THEN curr + cnt[k] ELSE mark[i]
    BY <1>2, <2>1 DEF TypeOK
  <2>4. curr + cnt[k] >= mark[k + 1]
    BY <1>2, <1>3, <2>1 DEF MeterOf
  <2>5. ASSUME NEW t \in Threads PROVE MeterOf(t)'
    <3>1. /\ t \in 0 .. NumThread /\ t + 1 \in 0 .. NumThread /\ MeterOf(t)
          /\ cnt[t] \in Nat /\ base[t] \in Nat
          /\ mark[t] \in Nat /\ mark[t + 1] \in Nat
          /\ k \in Nat /\ t \in Nat /\ k < NumThread
      BY <1>2, <1>3 DEF Threads
    <3>2. CASE t = k
      BY <2>1, <2>3, <3>1, <3>2 DEF MeterOf, BeenRead, NotEntered
    <3>3. CASE t = k + 1
      <4>1. mark'[t] >= mark[t] /\ mark'[t + 1] = mark[t + 1] /\ mark'[t] \in Nat
        BY <1>2, <2>3, <2>4, <3>1, <3>3
      <4>2. ~BeenRead(t)'
        BY <2>2, <3>1, <3>3 DEF BeenRead, Threads
      <4> QED BY <2>1, <3>1, <4>1, <4>2 DEF MeterOf, NotEntered
    <3>4. CASE t # k /\ t # k + 1
      <4>1. mark'[t] = mark[t] /\ mark'[t + 1] = mark[t + 1]
        BY <2>3, <3>1, <3>4
      <4>2. BeenRead(t)' => BeenRead(t)
        BY <2>1, <2>2, <3>1, <3>4 DEF BeenRead, Threads
      <4> QED BY <2>1, <3>1, <4>1, <4>2 DEF MeterOf, NotEntered
    <3> QED BY <3>2, <3>3, <3>4
  <2>6. mark'[0] = 0
    BY <1>2, <2>3 DEF MeterInv, Threads
  <2>7. prev <= mark'[NumThread]
    BY <1>2, <2>3, <2>4 DEF MeterInv, Threads
  <2>8. curr' = mark'[k + 1]
    BY <1>2, <2>1, <2>3
  <2> QED BY <1>2, <2>1, <2>2, <2>5, <2>6, <2>7, <2>8
             DEF MeterInv, MeterOf, NotEntered, BeenRead
<1>7. CASE PrintBw
  <2>1. /\ mpc = "print" /\ mpc' \in {"sleep", "stop"} /\ k' = k /\ prev' = curr
        /\ base' = [t \in Threads |-> 0] /\ UNCHANGED <<curr, mark, cnt, tpc>>
    BY <1>7 DEF PrintBw, threadVars
  <2>2. curr = mark[NumThread] /\ k = 0
    BY <2>1 DEF MeterInv
  <2> QED BY <1>2, <1>3, <2>1, <2>2 DEF MeterInv, MeterOf, NotEntered, BeenRead
<1>8. CASE Wake \/ LastProbe
  <2>1. /\ mpc \in {"sleep", "probe"} /\ mpc' \in {"probe", "stop"}
        /\ UNCHANGED <<k, curr, prev, base, mark, cnt, tpc>>
    BY <1>8 DEF Wake, LastProbe, threadVars
  <2> QED BY <1>2, <1>3, <2>1 DEF MeterInv, MeterOf, NotEntered, BeenRead
<1>9. CASE StopThread \/ Join \/ Free
  <2>1. /\ mpc' \in {"stop", "join", "free", "end"}
        /\ UNCHANGED <<curr, prev, base, mark, cnt, tpc>>
    <3>1. CASE StopThread
      BY <1>2, <3>1, ForEachThreadType DEF StopThread, threadVars
    <3>2. CASE Join
      BY <1>2, <3>2, ForEachThreadType DEF Join, threadVars
    <3>3. CASE Free
      BY <3>3 DEF Free, threadVars
    <3> QED BY <1>9, <3>1, <3>2, <3>3
  <2> QED BY <1>2, <1>3, <2>1 DEF MeterInv, MeterOf, NotEntered, BeenRead
<1> QED BY <1>1, <1>4, <1>5, <1>6, <1>7, <1>8, <1>9 DEF MainStep

LEMMA MeterNext ==
    TypeOK /\ TypeOK' /\ MeterInv /\ [Next]_vars => MeterInv'
<1> SUFFICES ASSUME TypeOK, TypeOK', MeterInv, [Next]_vars PROVE MeterInv'
  OBVIOUS
<1>1. CASE Main
  BY <1>1, MainKeepsMeter
<1>2. CASE \E t \in Threads : Thread(t)
  BY <1>2, ThreadKeepsMeter
<1>3. CASE Sigint
  BY <1>3 DEF Sigint, MeterInv, NotEntered, BeenRead, mainVars, threadVars
<1>4. CASE UNCHANGED vars
  BY <1>4 DEF vars, MeterInv, NotEntered, BeenRead, mainVars, threadVars
<1> QED BY <1>1, <1>2, <1>3, <1>4 DEF Next

\* The bandwidth get_bw prints is never the wrapped difference of two unsigned
\* sums: a reading is at least the reading before.
THEOREM NoWrap == Spec => []ReadingsNeverShrink
<1>1. TypeOK /\ MeterInv => ReadingsNeverShrink
  BY DEF TypeOK, MeterInv, ReadingsNeverShrink
<1> QED BY <1>1, TypeInit, TypeNext, MeterInit, MeterNext, PTL DEF Spec

\* Each of the counts a reading adds up was true of its thread at some moment
\* of the scan.
THEOREM Freshness == Spec => []ReadingsAreFresh
<1>1. MeterInv => ReadingsAreFresh
  BY DEF MeterInv, BeenRead, ReadingsAreFresh
<1> QED BY <1>1, TypeInit, TypeNext, MeterInit, MeterNext, PTL DEF Spec
----------------------------------------------------------------------------
(* The prefetchers of the threads' cores. *)

\* The command line does not change, so nor does anything computed from it.
LEMMA ConfigStays ==
    ASSUME cfg' = cfg
    PROVE  \A t : /\ Admitted(t)' = Admitted(t) /\ Pinned(t)' = Pinned(t)
                  /\ CoreNum(t)' = CoreNum(t) /\ Alone(t)' = Alone(t)
  BY DEF Admitted, Pinned, CoreNum, StartingCore, PairMode, Alone

LEMMA PlacementInit == Init => PlacementInv
  BY DEF Init, PlacementInv

LEMMA PlacementNext ==
    TypeOK /\ PlacementInv /\ [Next]_vars => PlacementInv'
<1> SUFFICES ASSUME TypeOK, PlacementInv, [Next]_vars PROVE PlacementInv'
  OBVIOUS
<1>1. cfg' = cfg
  BY DEF Next, Main, Thread, Sigint, vars
<1>2. CASE tpc' = tpc
  BY <1>1, <1>2, ConfigStays DEF PlacementInv
<1>3. CASE Main
  <2>1. CASE Create
    <3>1. k \in Threads /\ tpc' = [tpc EXCEPT ![k] = "start"]
      BY <2>1 DEF Create, TypeOK
    <3>2. \A t \in Threads : tpc'[t] = "start" \/ tpc'[t] = tpc[t]
      BY <3>1 DEF TypeOK
    <3> QED BY <1>1, <3>2, ConfigStays DEF PlacementInv
  <2> QED BY <1>2, <1>3, <2>1
          DEF Main, MainStep, BeginScan, ReadCounter, PrintBw, Wake, LastProbe,
              StopThread, Join, Free, threadVars
<1>4. ASSUME NEW t \in Threads, Thread(t) PROVE PlacementInv'
  <2>1. ThreadStep(t) /\ Moves(t)
    BY <1>4, ThreadMoves DEF Thread
  <2>2. CASE Dispatch(t)
    <3>1. tpc'[t] = "gone" \/ (Admitted(t) /\ TRUE \in AffinitySet(t))
      <4>1. CASE Goto(t, "start", "gone")
        BY <4>1, GotoMoves
      <4>2. CASE Admitted(t) /\ TRUE \in AffinitySet(t)
        BY <4>2
      <4> QED BY <2>2, <4>1, <4>2 DEF Dispatch
    <3>2. TRUE \in AffinitySet(t) => (Pinned(t) => CoreNum(t) \in Cores)
      BY DEF AffinitySet
    <3> QED BY <1>1, <2>1, <3>1, <3>2, ConfigStays DEF PlacementInv, Moves
  <2>3. CASE ~Dispatch(t)
    <3>1. tpc[t] \notin {"none", "start", "gone"}
      BY <2>1, <2>3, GotoMoves
         DEF Moves, Returned, ThreadStep, Enter, ReadMsr, SetPrefetch,
             RestorePrefetch, MsrFault, Operate, RefuseSize, TestHalt, Lap,
             LapsDone, Report, DivideByZero, Goto
    <3> QED BY <1>1, <2>1, <3>1, ConfigStays DEF PlacementInv, Moves
  <2> QED BY <2>2, <2>3
<1> QED BY <1>2, <1>3, <1>4 DEF Next, Sigint, vars, threadVars

LEMMA PrefetchInit == Init => PrefetchInv
  BY DEF Init, PrefetchInv, Configured, Leaving, Restored

\* What PrefetchInv says of one thread, and when it says anything.
PrefetchOf(t) ==
    /\ Configured(t) => pf[CoreNum(t)] = cfg.prefetch_en
    /\ Leaving(t) /\ cfg.prefetch_en => pf[CoreNum(t)] = TRUE
    /\ Restored(t) => pf[CoreNum(t)] = TRUE

\* A thread's own step keeps its own core as it should be.
LEMMA OwnPrefetch ==
    ASSUME TypeOK, PlacementInv, NEW t \in Threads, ThreadStep(t), cfg' = cfg,
           Pinned(t), PrefetchOf(t)
    PROVE  PrefetchOf(t)'
<1> DEFINE core == CoreNum(t)
<1>1. core' = core
  BY ConfigStays
<1>2. pf \in [Cores -> BOOLEAN] /\ cfg.prefetch_en \in BOOLEAN
  BY ConfigFields DEF TypeOK
<1>3. tpc[t] \in {"setWrite", "rsWrite"} => core \in Cores
  BY DEF PlacementInv
<1> HIDE DEF core
<1>4. CASE Dispatch(t) \/ Enter(t)
  <2>1. tpc'[t] \in {"gone", "enter", "setRead"}
    BY <1>4, GotoMoves DEF Dispatch, Enter, AfterEnter
  <2> QED BY <2>1 DEF PrefetchOf, Configured, Leaving, Restored
<1>5. CASE ReadMsr(t)
  <2>1. /\ pf' = pf
        /\ \/ tpc[t] = "setRead" /\ tpc'[t] = "setWrite"
           \/ tpc[t] = "setCheck" /\ tpc'[t] \in {"op", "lap"}
           \/ tpc[t] = "rsRead" /\ tpc'[t] = "rsWrite"
    BY <1>5, GotoMoves DEF ReadMsr, AfterSet
  <2> QED BY <1>1, <2>1 DEF PrefetchOf, Configured, Leaving, Restored, core
<1>6. CASE SetPrefetch(t)
  <2>1. /\ tpc[t] = "setWrite" /\ tpc'[t] \in {"op", "lap", "setCheck"}
        /\ pf' = [pf EXCEPT ![core] = cfg.prefetch_en]
    BY <1>6, GotoMoves DEF SetPrefetch, AfterSet, MsrCore, core
  <2>2. pf'[core'] = cfg.prefetch_en
    BY <1>1, <1>2, <1>3, <2>1
  <2> QED BY <2>1, <2>2 DEF PrefetchOf, Configured, Leaving, Restored, core
<1>7. CASE RestorePrefetch(t)
  <2>1. /\ tpc[t] = "rsWrite" /\ tpc'[t] \in {"report", "done"}
        /\ pf' = [pf EXCEPT ![core] = TRUE]
    BY <1>7, GotoMoves DEF RestorePrefetch, AfterRestore, MsrCore, core
  <2>2. pf'[core'] = TRUE
    BY <1>1, <1>2, <1>3, <2>1
  <2> QED BY <2>1, <2>2 DEF PrefetchOf, Configured, Leaving, Restored, core
<1>8. CASE MsrFault(t) \/ RefuseSize(t) \/ DivideByZero(t)
  BY <1>1, <1>8 DEF MsrFault, RefuseSize, DivideByZero, PrefetchOf, Configured,
                    Leaving, Restored, core
<1>9. CASE Operate(t)
  <2>1. pf' = pf /\ tpc[t] = "op" /\ tpc'[t] = "test"
    BY <1>9, GotoMoves DEF Operate
  <2> QED BY <1>1, <2>1 DEF PrefetchOf, Configured, Leaving, Restored, core
<1>10. CASE TestHalt(t) \/ Lap(t) \/ LapsDone(t)
  <2>1. /\ pf' = pf /\ Configured(t)
        /\ \/ tpc'[t] \in {"op", "lap"}
           \/ tpc'[t] = RestoreOr(t)
           \/ tpc'[t] = "report" /\ cfg.type # "LATS_CHASE"
    BY <1>10, GotoMoves
       DEF TestHalt, Lap, LapsDone, AfterBadOp, Configured, TypeOK
  <2>2. \/ tpc'[t] \in {"op", "lap"}
        \/ tpc'[t] = "rsRead" /\ ~cfg.prefetch_en
        \/ tpc'[t] \in {"report", "done"} /\ cfg.prefetch_en
        \/ tpc'[t] = "report" /\ cfg.type # "LATS_CHASE"
    BY <2>1 DEF RestoreOr, AfterRestore
  <2> QED BY <1>1, <1>2, <2>1, <2>2
          DEF PrefetchOf, Configured, Leaving, Restored, core
<1>11. CASE Report(t)
  <2>1. /\ pf' = pf /\ tpc[t] = "report"
        /\ \/ tpc'[t] = "done" /\ cfg.type = "LATS_CHASE"
           \/ tpc'[t] = RestoreOr(t) /\ cfg.type # "LATS_CHASE"
    BY <1>11, GotoMoves DEF Report
  <2>2. \/ tpc'[t] = "done" /\ cfg.type = "LATS_CHASE"
        \/ tpc'[t] = "rsRead" /\ ~cfg.prefetch_en
        \/ tpc'[t] = "done" /\ cfg.prefetch_en
    BY <2>1 DEF RestoreOr, AfterRestore
  <2> QED BY <1>1, <1>2, <2>1, <2>2
          DEF PrefetchOf, Configured, Leaving, Restored, core
<1> QED BY <1>4, <1>5, <1>6, <1>7, <1>8, <1>9, <1>10, <1>11 DEF ThreadStep

\* A step of another thread does not reach the core of a thread that is alone.
LEMMA OthersPrefetch ==
    ASSUME TypeOK, PlacementInv, NEW t \in Threads, NEW u \in Threads, u # t,
           ThreadStep(u), cfg' = cfg, Pinned(t), Alone(t), PrefetchOf(t)
    PROVE  PrefetchOf(t)'
<1>1. tpc'[t] = tpc[t]
  BY ThreadMoves DEF Moves
<1>2. CASE pf' = pf
  BY <1>1, <1>2, ConfigStays DEF PrefetchOf, Configured, Leaving, Restored
<1>3. ASSUME tpc[u] \in {"setWrite", "rsWrite"},
             NEW b \in BOOLEAN, pf' = [pf EXCEPT ![CoreNum(u)] = b]
      PROVE  PrefetchOf(t)'
  <2>1. CoreNum(u) # CoreNum(t)
    BY <1>3 DEF PlacementInv, Alone
  <2>2. Configured(t) \/ Leaving(t) \/ Restored(t) => CoreNum(t) \in Cores
    BY DEF PlacementInv, Configured, Leaving, Restored
  <2>3. CoreNum(t) \in Cores => pf'[CoreNum(t)] = pf[CoreNum(t)]
    BY <1>3, <2>1 DEF TypeOK
  <2> QED BY <1>1, <2>2, <2>3, ConfigStays
          DEF PrefetchOf, Configured, Leaving, Restored
<1>4. CASE SetPrefetch(u)
  BY <1>3, <1>4, GotoMoves, ConfigFields DEF SetPrefetch, MsrCore, TypeOK
<1>5. CASE RestorePrefetch(u)
  BY <1>3, <1>5, GotoMoves DEF RestorePrefetch, MsrCore
<1> QED BY <1>2, <1>4, <1>5
        DEF ThreadStep, Dispatch, Enter, ReadMsr, MsrFault, Operate, RefuseSize,
            TestHalt, Lap, LapsDone, Report, DivideByZero

LEMMA PrefetchNext ==
    TypeOK /\ PlacementInv /\ PrefetchInv /\ [Next]_vars => PrefetchInv'
<1> SUFFICES ASSUME TypeOK, PlacementInv, PrefetchInv, [Next]_vars,
                    NEW t \in Threads, Pinned(t)', Alone(t)'
             PROVE  PrefetchOf(t)'
  BY DEF PrefetchInv, PrefetchOf
<1>1. cfg' = cfg
  BY DEF Next, Main, Thread, Sigint, vars
<1>2. Pinned(t) /\ Alone(t) /\ PrefetchOf(t)
  BY <1>1, ConfigStays DEF PrefetchInv, PrefetchOf
<1>3. CASE UNCHANGED <<tpc, pf>>
  BY <1>1, <1>2, <1>3, ConfigStays DEF PrefetchOf, Configured, Leaving, Restored
<1>4. CASE Main
  <2>1. CASE Create
    <3>1. k \in Threads /\ tpc' = [tpc EXCEPT ![k] = "start"] /\ pf' = pf
      BY <2>1 DEF Create, TypeOK
    <3>2. tpc'[t] = "start" \/ tpc'[t] = tpc[t]
      BY <3>1 DEF TypeOK
    <3> QED BY <1>1, <1>2, <3>1, <3>2, ConfigStays
            DEF PrefetchOf, Configured, Leaving, Restored
  <2> QED BY <1>3, <1>4, <2>1
          DEF Main, MainStep, BeginScan, ReadCounter, PrintBw, Wake, LastProbe,
              StopThread, Join, Free, threadVars
<1>5. ASSUME NEW u \in Threads, Thread(u) PROVE PrefetchOf(t)'
  BY <1>1, <1>2, <1>5, OwnPrefetch, OthersPrefetch DEF Thread
<1> QED BY <1>3, <1>4, <1>5 DEF Next, Sigint, vars, threadVars

\* A pinned thread with a core of its own measures with the prefetchers of
\* that core as the command line asks, whatever the other threads do.
THEOREM Configuration == Spec => []ConfiguredWhileMeasuring
<1>1. PrefetchInv => ConfiguredWhileMeasuring
  BY DEF PrefetchInv, Configured, ConfiguredWhileMeasuring, Measuring
<1> QED BY <1>1, TypeInit, TypeNext, PlacementInit, PlacementNext,
           PrefetchInit, PrefetchNext, PTL DEF Spec

\* By whichever way such a thread leaves its wrapper, its core's prefetchers
\* are on again.
THEOREM Restoration == Spec => []RestoredWhenDone
<1>1. PrefetchInv => RestoredWhenDone
  BY DEF PrefetchInv, Restored, RestoredWhenDone
<1> QED BY <1>1, TypeInit, TypeNext, PlacementInit, PlacementNext,
           PrefetchInit, PrefetchNext, PTL DEF Spec

----------------------------------------------------------------------------
(* Joining. *)

LEMMA JoinInit == Init => JoinInv
  BY DEF Init, JoinInv

LEMMA JoinNext == TypeOK /\ JoinInv /\ [Next]_vars => JoinInv'
<1> SUFFICES ASSUME TypeOK, JoinInv, [Next]_vars PROVE JoinInv'
  OBVIOUS
<1>1. CASE Main
  <2>1. CASE Join
    <3>1. /\ mpc = "join" /\ Returned(k) /\ tpc' = tpc
          /\ \/ k' = k + 1 /\ mpc' = "join"
             \/ k = NumThread - 1 /\ mpc' = "free"
      BY <2>1, ForEachThreadType DEF Join, Joinable, threadVars, TypeOK
    <3>2. \A t \in Threads : t <= k => Returned(t)
      BY <3>1 DEF JoinInv, Threads, TypeOK
    <3> QED BY <3>1, <3>2 DEF JoinInv, Returned, Threads, TypeOK
  <2>2. CASE Free
    BY <2>2 DEF Free, JoinInv, Returned, threadVars
  <2>3. CASE Create \/ StopThread
    <3>1. /\ mpc \in {"create", "stop"}
          /\ \E next \in {"probe", "join"} : ForEachThread(next)
      BY <2>3 DEF Create, StopThread
    <3>2. /\ mpc' \in {"create", "stop", "probe", "join"}
          /\ mpc' = "join" => k' = 0
      BY <3>1, ForEachThreadType DEF TypeOK
    <3> QED BY <3>2 DEF JoinInv, Threads
  <2>4. CASE BeginScan \/ ReadCounter \/ PrintBw \/ Wake \/ LastProbe
    <3>1. mpc' \notin {"join", "free", "end"}
      BY <2>4, ForEachThreadType
         DEF BeginScan, ReadCounter, PrintBw, Wake, LastProbe, TypeOK
    <3> QED BY <3>1 DEF JoinInv
  <2> QED BY <1>1, <2>1, <2>2, <2>3, <2>4 DEF Main, MainStep
<1>2. ASSUME NEW t \in Threads, Thread(t) PROVE JoinInv'
  <2>1. Moves(t) /\ UNCHANGED <<mpc, k>>
    BY <1>2, ThreadMoves DEF Thread, mainVars
  <2>2. \A u \in Threads : Returned(u) => Returned(u)'
    BY <2>1 DEF Moves, Returned
  <2> QED BY <2>1, <2>2 DEF JoinInv
<1>3. CASE Sigint \/ UNCHANGED vars
  BY <1>3 DEF Sigint, vars, mainVars, threadVars, JoinInv, Returned
<1> QED BY <1>1, <1>2, <1>3 DEF Next

\* The configurations are freed when no thread can touch them any more.
THEOREM FreedAfterJoin == Spec => []JoinedBeforeFree
<1>1. JoinInv => JoinedBeforeFree
  BY DEF JoinInv, JoinedBeforeFree
<1> QED BY <1>1, TypeInit, TypeNext, JoinInit, JoinNext, PTL DEF Spec

\* All of it together: the invariant that TLC checks on the instances holds of
\* every instance.
THEOREM Invariance == Spec => []Inv
  BY TypeInit, TypeNext, MeterInit, MeterNext, PlacementInit, PlacementNext,
     PrefetchInit, PrefetchNext, JoinInit, JoinNext, PTL DEF Spec, Inv

----------------------------------------------------------------------------
(* Sums over the threads.  The operations of the first n threads are counted *)
(* thread by thread, by induction on n.                                      *)

Below == {p \in Nat \X Nat : p[1] < p[2]}

LEMMA AllNaturals ==
    ASSUME NEW S \in SUBSET Nat, 0 \in S, \A n \in S : n + 1 \in S
    PROVE  S = Nat
<1>1. IsWellFoundedOn(Below, Nat)
  BY NatLessThanWellFounded, Zenon DEF OpToRel, Below
<1> SUFFICES ASSUME S # Nat PROVE FALSE
  OBVIOUS
<1>2. PICK x \in Nat \ S : TRUE
  OBVIOUS
<1>3. PICK m \in Nat \ S : \A y \in Nat \ S : ~(<<y, m>> \in Below)
  BY <1>1, <1>2, WFMin
<1>4. m # 0 /\ m - 1 \in Nat /\ <<m - 1, m>> \in Below
  BY DEF Below
<1>5. m - 1 \in S
  BY <1>3, <1>4
<1>6. (m - 1) + 1 \in S
  BY <1>5
<1> QED BY <1>3, <1>6

\* The operations of the threads below n.
UnitsBelow(f, n) == UNION {{t} \X (1 .. f[t]) : t \in 0 .. n - 1}
TotalBelow(f, n) == Cardinality(UnitsBelow(f, n))

\* Counters, one for each thread.
Counters == [Threads -> Nat]

LEMMA NoThreads == \A f : IsFiniteSet(UnitsBelow(f, 0)) /\ TotalBelow(f, 0) = 0
<1> TAKE f
<1>1. UnitsBelow(f, 0) = {}
  <2>1. 0 .. 0 - 1 = {}
    OBVIOUS
  <2> QED BY <2>1 DEF UnitsBelow
<1> QED BY <1>1, FS_EmptySet DEF TotalBelow

LEMMA OneMoreThread ==
    ASSUME NEW f \in Counters, NEW n \in Threads, IsFiniteSet(UnitsBelow(f, n))
    PROVE  /\ IsFiniteSet(UnitsBelow(f, n + 1))
           /\ TotalBelow(f, n + 1) = TotalBelow(f, n) + f[n]
<1> DEFINE own == {n} \X (1 .. f[n])
<1>1. n \in Nat /\ f[n] \in Nat
  BY DEF Threads, Counters
<1>2. IsFiniteSet(own) /\ Cardinality(own) = f[n]
  <2>1. IsFiniteSet({n}) /\ Cardinality({n}) = 1
    BY FS_Singleton
  <2>2. IsFiniteSet(1 .. f[n]) /\ Cardinality(1 .. f[n]) = f[n]
    <3>1. PICK m \in Nat : m = f[n]
      BY <1>1
    <3>2. /\ IsFiniteSet(1 .. m)
          /\ Cardinality(1 .. m) = IF 1 > m THEN 0 ELSE m - 1 + 1
      BY FS_Interval
    <3> QED BY <3>1, <3>2
  <2>3. IsFiniteSet(own) /\ Cardinality(own) = Cardinality({n}) * Cardinality(1 .. f[n])
    BY <2>1, <2>2, FS_Product
  <2> QED BY <1>1, <2>1, <2>2, <2>3
<1>3. UnitsBelow(f, n + 1) = UnitsBelow(f, n) \union own
  <2>1. 0 .. (n + 1) - 1 = (0 .. n - 1) \union {n}
    BY <1>1
  <2> QED BY <2>1 DEF UnitsBelow
<1>4. UnitsBelow(f, n) \cap own = {}
  <2>1. n \notin 0 .. n - 1
    BY <1>1
  <2> QED BY <2>1 DEF UnitsBelow
<1>5. Cardinality({}) = 0 /\ TotalBelow(f, n) \in Nat
  BY FS_EmptySet, FS_CardinalityType DEF TotalBelow
<1>6. /\ IsFiniteSet(UnitsBelow(f, n) \union own)
      /\ Cardinality(UnitsBelow(f, n) \union own)
           = TotalBelow(f, n) + Cardinality(own) - Cardinality({})
  <2> HIDE DEF own
  <2> QED BY <1>2, <1>4, FS_Union DEF TotalBelow
<1> HIDE DEF own
<1>7. TotalBelow(f, n + 1) = TotalBelow(f, n) + Cardinality(own) - Cardinality({})
  BY <1>3, <1>6, Zenon DEF TotalBelow
<1>8. TotalBelow(f, n + 1) = TotalBelow(f, n) + f[n]
  BY <1>1, <1>2, <1>5, <1>7
<1> QED BY <1>3, <1>6, <1>8, Zenon

\* The total is a sum: nothing at 0, one thread's count at every step.
LEMMA SumsFinite ==
    ASSUME NEW f \in Counters
    PROVE  \A n \in 0 .. NumThread :
               IsFiniteSet(UnitsBelow(f, n)) /\ TotalBelow(f, n) \in Nat
<1> DEFINE S == {n \in Nat : n <= NumThread => IsFiniteSet(UnitsBelow(f, n))}
<1>1. 0 \in S
  BY NoThreads
<1>2. ASSUME NEW n \in S PROVE n + 1 \in S
  BY OneMoreThread DEF Threads
<1>3. S = Nat
  <2> HIDE DEF S
  <2>1. S \in SUBSET Nat
    BY DEF S
  <2> QED BY <1>1, <1>2, <2>1, AllNaturals
<1>4. ASSUME NEW n \in 0 .. NumThread PROVE IsFiniteSet(UnitsBelow(f, n))
  BY <1>3
<1> QED BY <1>4, FS_CardinalityType DEF TotalBelow

LEMMA SumStep ==
    ASSUME NEW f \in Counters, NEW n \in Threads
    PROVE  /\ TotalBelow(f, n) \in Nat /\ TotalBelow(f, n + 1) \in Nat
           /\ f[n] \in Nat
           /\ TotalBelow(f, n + 1) = TotalBelow(f, n) + f[n]
<1>1. n \in 0 .. NumThread /\ n + 1 \in 0 .. NumThread
  BY DEF Threads
<1> QED BY <1>1, SumsFinite, OneMoreThread DEF Counters

LEMMA TotalIsSum == \A f : Total(f) = TotalBelow(f, NumThread)
  BY DEF Total, Units, TotalBelow, UnitsBelow, Threads

\* Sums compare as their terms do, against any sequence of running sums.
LEMMA SumAtMost ==
    ASSUME NEW f \in Counters, NEW m \in [0 .. NumThread -> Nat], m[0] = 0,
           \A t \in Threads : f[t] <= m[t + 1] - m[t]
    PROVE  Total(f) <= m[NumThread]
<1> DEFINE S == {n \in Nat : n <= NumThread => TotalBelow(f, n) <= m[n]}
<1>1. 0 \in S
  BY NoThreads
<1>2. ASSUME NEW n \in S, n + 1 <= NumThread PROVE TotalBelow(f, n + 1) <= m[n + 1]
  <2>1. n \in Threads /\ n \in 0 .. NumThread /\ n + 1 \in 0 .. NumThread
    BY <1>2 DEF Threads
  <2>2. m[n] \in Nat /\ m[n + 1] \in Nat /\ f[n] <= m[n + 1] - m[n]
    BY <2>1
  <2>3. TotalBelow(f, n) <= m[n]
    BY <1>2
  <2> QED BY <2>1, <2>2, <2>3, SumStep
<1>3. S = Nat
  <2>1. \A n \in S : n + 1 \in S
    BY <1>2
  <2>2. S \in SUBSET Nat
    OBVIOUS
  <2> HIDE DEF S
  <2> QED BY <1>1, <2>1, <2>2, AllNaturals
<1>4. NumThread \in S
  BY <1>3
<1> QED BY <1>4, TotalIsSum

LEMMA SumAtLeast ==
    ASSUME NEW f \in Counters, NEW m \in [0 .. NumThread -> Nat], m[0] = 0,
           \A t \in Threads : m[t + 1] - m[t] <= f[t]
    PROVE  m[NumThread] <= Total(f)
<1> DEFINE S == {n \in Nat : n <= NumThread => m[n] <= TotalBelow(f, n)}
<1>1. 0 \in S
  BY NoThreads
<1>2. ASSUME NEW n \in S, n + 1 <= NumThread PROVE m[n + 1] <= TotalBelow(f, n + 1)
  <2>1. n \in Threads /\ n \in 0 .. NumThread /\ n + 1 \in 0 .. NumThread
    BY <1>2 DEF Threads
  <2>2. m[n] \in Nat /\ m[n + 1] \in Nat /\ m[n + 1] - m[n] <= f[n]
    BY <2>1
  <2>3. m[n] <= TotalBelow(f, n)
    BY <1>2
  <2> QED BY <2>1, <2>2, <2>3, SumStep
<1>3. S = Nat
  <2>1. \A n \in S : n + 1 \in S
    BY <1>2
  <2>2. S \in SUBSET Nat
    OBVIOUS
  <2> HIDE DEF S
  <2> QED BY <1>1, <2>1, <2>2, AllNaturals
<1>4. NumThread \in S
  BY <1>3
<1> QED BY <1>4, TotalIsSum

LEMMA TotalType == \A f \in Counters : Total(f) \in Nat
  BY SumsFinite, TotalIsSum

LEMMA TotalOfNone == Total([t \in Threads |-> 0]) = 0
<1> DEFINE f == [t \in Threads |-> 0]
           m == [i \in 0 .. NumThread |-> 0]
<1>1. f \in Counters /\ m \in [0 .. NumThread -> Nat] /\ m[0] = 0 /\ m[NumThread] = 0
  BY DEF Counters
<1>2. \A t \in Threads : f[t] <= m[t + 1] - m[t]
  BY DEF Threads
<1> HIDE DEF f, m
<1>3. Total(f) <= m[NumThread]
  BY <1>1, <1>2, SumAtMost
<1>4. Total(f) = 0
  BY <1>1, <1>3, TotalType
<1> QED BY <1>4 DEF f

\* One more operation of one thread is one more operation.
LEMMA TotalOfOneMore ==
    ASSUME NEW f \in Counters, NEW t \in Threads,
           NEW g, g = [f EXCEPT ![t] = f[t] + 1]
    PROVE  Total(g) = Total(f) + 1
<1>1. /\ g \in Counters /\ g[t] = f[t] + 1 /\ t \in Nat
      /\ \A u \in Threads : u # t => g[u] = f[u]
  BY DEF Counters, Threads
<1> DEFINE Added(n) == IF t < n THEN 1 ELSE 0
           S == {n \in Nat : n <= NumThread =>
                                TotalBelow(g, n) = TotalBelow(f, n) + Added(n)}
<1>2. 0 \in S
  BY <1>1, NoThreads
<1>3. ASSUME NEW n \in S, n + 1 <= NumThread
      PROVE  TotalBelow(g, n + 1) = TotalBelow(f, n + 1) + Added(n + 1)
  <2>1. n \in Threads
    BY <1>3 DEF Threads
  <2>2. TotalBelow(g, n) = TotalBelow(f, n) + Added(n)
    BY <1>3
  <2>3. /\ TotalBelow(f, n) \in Nat /\ TotalBelow(f, n + 1) \in Nat
        /\ f[n] \in Nat /\ TotalBelow(f, n + 1) = TotalBelow(f, n) + f[n]
    BY <2>1, SumStep
  <2>4. /\ TotalBelow(g, n) \in Nat /\ TotalBelow(g, n + 1) \in Nat
        /\ g[n] \in Nat /\ TotalBelow(g, n + 1) = TotalBelow(g, n) + g[n]
    BY <1>1, <2>1, SumStep
  <2>5. CASE n = t
    <3>1. Added(n) = 0 /\ Added(n + 1) = 1 /\ g[n] = f[n] + 1
      BY <1>1, <2>5
    <3> HIDE DEF Added
    <3> QED BY <2>2, <2>3, <2>4, <3>1
  <2>6. CASE n # t
    <3>1. Added(n) = Added(n + 1) /\ g[n] = f[n] /\ Added(n) \in Nat
      BY <1>1, <2>1, <2>6
    <3> HIDE DEF Added
    <3> QED BY <2>2, <2>3, <2>4, <3>1
  <2> QED BY <2>5, <2>6
<1>4. S = Nat
  <2>1. ASSUME NEW n \in S PROVE n + 1 \in S
    <3>1. n \in Nat /\ n + 1 \in Nat
      OBVIOUS
    <3> HIDE DEF Added
    <3> QED BY <1>3, <3>1
  <2>2. S \in SUBSET Nat
    OBVIOUS
  <2> HIDE DEF S
  <2> QED BY <1>2, <2>1, <2>2, AllNaturals
<1>5. TotalBelow(g, NumThread) = TotalBelow(f, NumThread) + Added(NumThread)
  <2>1. NumThread \in S
    <3> HIDE DEF S
    <3> QED BY <1>4
  <2> HIDE DEF Added
  <2> QED BY <2>1
<1>6. Added(NumThread) = 1
  BY DEF Threads
<1> QED BY <1>5, <1>6, TotalIsSum

----------------------------------------------------------------------------
(* The refinement: every step of the threads and of main is a step of the   *)
(* meter or leaves the meter as it is.                                      *)

LEMMA MeterStarts == Init => Meter!Init
  BY TotalOfNone DEF Init, Meter!Init, Phase

\* What the meter shows does not depend on anything else.
LEMMA MeterStutters ==
    ASSUME UNCHANGED <<cnt, base, prev>>, Phase' = Phase
    PROVE  UNCHANGED Meter!vars
<1>1. Total(cnt)' = Total(cnt) /\ Total(base)' = Total(base)
  BY DEF Total, Units
<1> QED BY <1>1 DEF Meter!vars

\* While a thread is in its wrapper the run is not over.
LEMMA WorkBeforeTheEnd ==
    ASSUME JoinInv, TypeOK, proc = "running", NEW t \in Threads, ~Returned(t)
    PROVE  Phase # "over"
  BY DEF JoinInv, Phase

LEMMA ThreadMeters ==
    ASSUME TypeOK, MeterInv, JoinInv, NEW t \in Threads, Thread(t)
    PROVE  [Meter!Next]_(Meter!vars)
<1>1. /\ ThreadStep(t) /\ proc = "running"
      /\ UNCHANGED <<mpc, k, curr, prev, base, mark>>
  BY DEF Thread, mainVars
<1>2. Moves(t)
  BY <1>1, ThreadMoves
<1>3. Phase # "over"
  BY <1>1, <1>2, WorkBeforeTheEnd DEF Moves
<1>4. CASE Operate(t)
  <2>1. /\ cnt' = [cnt EXCEPT ![t] = cnt[t] + 1] /\ proc' = proc
    BY <1>4 DEF Operate, Counted
  <2>2. cnt \in Counters
    BY DEF TypeOK, Counters
  <2>3. Total(cnt') = Total(cnt) + 1
    BY <2>1, <2>2, TotalOfOneMore
  <2>4. Total(cnt)' = Total(cnt) + 1 /\ Total(base)' = Total(base) /\ Phase' = Phase
    BY <1>1, <2>1, <2>3 DEF Total, Units, Phase
  <2>5. Meter!Work
    BY <1>1, <1>3, <2>4 DEF Meter!Work
  <2> QED BY <2>5 DEF Meter!Next
<1>5. CASE cnt' = cnt /\ proc' = proc
  <2>1. Phase' = Phase
    BY <1>1, <1>5 DEF Phase
  <2> QED BY <1>1, <1>5, <2>1, MeterStutters
<1>6. CASE cnt' = cnt /\ proc' # "running"
  <2>1. Phase' = "over"
    BY <1>6 DEF Phase
  <2>2. Total(cnt)' = Total(cnt) /\ Total(base)' = Total(base)
    BY <1>1, <1>6 DEF Total, Units
  <2>3. Meter!Over
    BY <1>1, <1>3, <2>1, <2>2 DEF Meter!Over
  <2> QED BY <2>3 DEF Meter!Next
<1>7. CASE Enter(t)
  <2>1. cnt[t] = 0
    BY <1>7, GotoMoves DEF Enter, MeterInv, NotEntered
  <2>2. cnt' = cnt /\ proc' = proc
    BY <1>7, <2>1 DEF Enter, TypeOK
  <2> QED BY <1>5, <2>2
<1> QED BY <1>1, <1>4, <1>5, <1>6, <1>7
        DEF ThreadStep, Dispatch, ReadMsr, SetPrefetch, RestorePrefetch, MsrFault,
            RefuseSize, TestHalt, Lap, LapsDone, Report, DivideByZero

LEMMA MainMeters ==
    ASSUME TypeOK, MeterInv, JoinInv, Main
    PROVE  [Meter!Next]_(Meter!vars)
<1>1. MainStep /\ proc = "running"
  BY DEF Main
<1>2. k \in Threads /\ cnt \in Counters /\ base \in Counters
  BY DEF TypeOK, Counters
<1>3. CASE Create
  <2>1. tpc[k] = "none" /\ cnt[k] = 0
    BY <1>2, <1>3 DEF Create, MeterInv, NotEntered, Threads
  <2>2. cnt' = cnt /\ UNCHANGED <<base, prev, proc>>
    BY <1>3, <2>1 DEF Create, TypeOK
  <2>3. mpc = "create" /\ mpc' \in {"create", "probe", "join"}
    BY <1>2, <1>3, ForEachThreadType DEF Create
  <2>4. Phase' = Phase
    BY <1>1, <2>2, <2>3 DEF Phase
  <2> QED BY <2>2, <2>4, MeterStutters
<1>4. CASE BeginScan
  <2>1. /\ mpc = "probe" /\ mpc' = "scan" /\ base' = cnt
        /\ UNCHANGED <<proc, prev, cnt>>
    BY <1>4 DEF BeginScan, threadVars
  <2>2. Total(cnt)' = Total(cnt) /\ Total(base)' = Total(cnt)
    BY <2>1 DEF Total, Units
  <2>3. Phase = "idle" /\ Phase' = "reading"
    BY <1>1, <2>1 DEF Phase
  <2>4. Meter!Begin
    BY <2>1, <2>2, <2>3 DEF Meter!Begin
  <2> QED BY <2>4 DEF Meter!Next
<1>5. CASE ReadCounter
  <2>1. mpc = "scan" /\ mpc' \in {"scan", "print"} /\ UNCHANGED <<proc, prev, base, cnt>>
    BY <1>2, <1>5, ForEachThreadType DEF ReadCounter, threadVars
  <2>2. Phase' = Phase
    BY <2>1 DEF Phase
  <2> QED BY <2>1, <2>2, MeterStutters
<1>6. CASE PrintBw
  <2>1. /\ mpc = "print" /\ mpc' \in {"sleep", "stop"} /\ prev' = curr
        /\ base' = [t \in Threads |-> 0] /\ UNCHANGED <<proc, cnt>>
    BY <1>6 DEF PrintBw, threadVars
  <2>2. mark \in [0 .. NumThread -> Nat] /\ mark[0] = 0 /\ curr = mark[NumThread]
    BY <2>1 DEF MeterInv, TypeOK
  <2>3. \A t \in Threads : /\ base[t] <= mark[t + 1] - mark[t]
                           /\ mark[t + 1] - mark[t] <= cnt[t]
    BY <2>1 DEF MeterInv, BeenRead
  <2>4. Total(base) <= curr /\ curr <= Total(cnt)
    BY <1>2, <2>2, <2>3, SumAtMost, SumAtLeast
  <2>5. curr \in Total(base) .. Total(cnt)
    <3>1. Total(base) \in Nat /\ Total(cnt) \in Nat /\ curr \in Nat
      BY <1>2, TotalType DEF TypeOK
    <3> QED BY <2>4, <3>1
  <2>6. Total(cnt)' = Total(cnt) /\ Total(base)' = 0
    <3>1. Total(base') = 0
      BY <2>1, TotalOfNone
    <3> QED BY <2>1, <3>1 DEF Total, Units
  <2>7. Phase = "reading" /\ Phase' = "idle"
    BY <1>1, <2>1 DEF Phase
  <2>8. Meter!End
    BY <2>1, <2>5, <2>6, <2>7 DEF Meter!End
  <2> QED BY <2>8 DEF Meter!Next
<1>7. CASE Wake \/ LastProbe
  <2>1. /\ mpc \in {"sleep", "probe"} /\ mpc' \in {"probe", "stop"}
        /\ UNCHANGED <<proc, prev, base, cnt>>
    BY <1>7 DEF Wake, LastProbe, threadVars
  <2>2. Phase' = Phase
    BY <2>1 DEF Phase
  <2> QED BY <2>1, <2>2, MeterStutters
<1>8. CASE StopThread
  <2>1. /\ mpc = "stop" /\ mpc' \in {"stop", "join"}
        /\ UNCHANGED <<proc, prev, base, cnt>>
    BY <1>2, <1>8, ForEachThreadType DEF StopThread, threadVars
  <2>2. Phase' = Phase
    BY <2>1 DEF Phase
  <2> QED BY <2>1, <2>2, MeterStutters
<1>9. CASE Join
  <2>1. /\ mpc = "join" /\ mpc' \in {"join", "free"}
        /\ UNCHANGED <<proc, prev, base, cnt>>
    BY <1>2, <1>9, ForEachThreadType DEF Join, threadVars
  <2>2. CASE mpc' = "join"
    <3>1. Phase' = Phase
      BY <2>1, <2>2 DEF Phase
    <3> QED BY <2>1, <3>1, MeterStutters
  <2>3. CASE mpc' = "free"
    <3>1. Phase # "over" /\ Phase' = "over"
      BY <1>1, <2>1, <2>3 DEF Phase
    <3>2. Total(cnt)' = Total(cnt) /\ Total(base)' = Total(base)
      BY <2>1 DEF Total, Units
    <3>3. Meter!Over
      BY <2>1, <3>1, <3>2 DEF Meter!Over
    <3> QED BY <3>3 DEF Meter!Next
  <2> QED BY <2>1, <2>2, <2>3
<1>10. CASE Free
  <2>1. mpc = "free" /\ mpc' = "end" /\ UNCHANGED <<prev, base, cnt>>
    BY <1>10 DEF Free, threadVars
  <2>2. Phase' = Phase
    BY <2>1 DEF Phase
  <2> QED BY <2>1, <2>2, MeterStutters
<1> QED BY <1>1, <1>3, <1>4, <1>5, <1>6, <1>7, <1>8, <1>9, <1>10 DEF MainStep

LEMMA MeterSteps ==
    TypeOK /\ MeterInv /\ JoinInv /\ [Next]_vars => [Meter!Next]_(Meter!vars)
<1> SUFFICES ASSUME TypeOK, MeterInv, JoinInv, [Next]_vars
             PROVE  [Meter!Next]_(Meter!vars)
  OBVIOUS
<1>1. CASE Main
  BY <1>1, MainMeters
<1>2. CASE \E t \in Threads : Thread(t)
  BY <1>2, ThreadMeters
<1>3. CASE Sigint \/ UNCHANGED vars
  <2>1. UNCHANGED <<cnt, base, prev, proc, mpc>>
    BY <1>3 DEF Sigint, vars, mainVars, threadVars
  <2>2. Phase' = Phase
    BY <2>1 DEF Phase
  <2> QED BY <2>1, <2>2, MeterStutters
<1> QED BY <1>1, <1>2, <1>3 DEF Next

\* get_bw implements the meter: for any number of threads that count while it
\* reads their counters one by one, what it adds up lies between the work done
\* when the scan began and the work done when the line is printed, and once
\* the last thread is joined nothing is counted any more.
THEOREM Refinement == Spec => MeterSpec
  BY MeterStarts, MeterSteps, TypeInit, TypeNext, MeterInit, MeterNext,
     JoinInit, JoinNext, PTL DEF Spec, MeterSpec, Meter!Spec
=============================================================================
