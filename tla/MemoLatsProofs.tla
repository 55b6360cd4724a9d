--------------------------- MODULE MemoLatsProofs ---------------------------
(***************************************************************************)
(* The invariant of MemoLats, for any buffer, any number of laps and any   *)
(* results.                                                                *)
(***************************************************************************)
EXTENDS MemoLats, FiniteSetTheorems, TLAPS

LEMMA CfgTypes ==
    ASSUME cfg \in Configs, thread_idx \in 0 .. NumThread - 1
    PROVE  /\ cfg \in Config
           /\ cfg.type \in Types
           /\ cfg.op_iter \in Nat /\ cfg.total_buf_size \in Nat \ {0}
           /\ cfg.num_clear_pipe \in Nat
           /\ StartAddrA \in Nat /\ (thread_idx = 0 => StartAddrA = 0)
           /\ Laps \in Nat /\ Blocks \subseteq Nat /\ PipeLoop \in Nat
<1>1. cfg \in Config
  BY ConfigsAssumption
<1>2. /\ cfg.op_iter \in Nat /\ cfg.per_thread_size \in Nat
      /\ cfg.total_buf_size \in Nat \ {0} /\ cfg.num_clear_pipe \in Nat
      /\ cfg.type \in Types
  BY <1>1 DEF Config
<1>3. thread_idx \in Nat
  BY NumThreadAssumption
<1>4. StartAddrA \in Nat /\ (thread_idx = 0 => StartAddrA = 0)
  BY <1>2, <1>3, SMT DEF StartAddrA
<1> QED
  BY <1>1, <1>2, <1>4 DEF Laps, Blocks, PipeLoop

\* The offset of a measurement is a line of the buffer, that of a block one
\* from which the block fits a buffer of whole blocks.
LEMMA OffsetsFit ==
    ASSUME cfg.total_buf_size \in Nat, NEW offset \in Offsets
    PROVE  /\ offset \in Blocks
           /\ cfg.type = "BLOCK_LATS" /\ cfg.total_buf_size % BLOCK_LINES = 0
              => offset + BLOCK_LINES <= cfg.total_buf_size
<1>1. CASE cfg.type # "BLOCK_LATS"
  BY <1>1 DEF Offsets
<1>2. CASE cfg.type = "BLOCK_LATS"
  <2>1. PICK x \in Blocks : offset = x - (x % 1024)
    BY <1>2 DEF Offsets, BLOCK_LINES
  <2>2. x \in Nat /\ x < cfg.total_buf_size
    BY <2>1 DEF Blocks
  <2>3. offset \in Nat /\ offset <= x /\ offset % 1024 = 0
    BY <2>1, <2>2, SMT
  <2>4. cfg.total_buf_size % 1024 = 0 => offset + 1024 <= cfg.total_buf_size
    BY <2>2, <2>3, SMT
  <2> QED
    BY <2>2, <2>3, <2>4 DEF Blocks, BLOCK_LINES
<1> QED
  BY <1>1, <1>2

LEMMA Displacements ==
    /\ LD_x16_RAND \subseteq 0 .. 1023 /\ NTLD_x16_RAND \subseteq 0 .. 1023
    /\ STWB_x16_RAND \subseteq 0 .. 1023 /\ NTST_x16_RAND \subseteq 0 .. 1023
<1>1. LD_x16_RAND \subseteq 0 .. 1023
  BY SMT DEF LD_x16_RAND
<1>2. NTLD_x16_RAND \subseteq 0 .. 1023
  BY SMT DEF NTLD_x16_RAND
<1>3. STWB_x16_RAND \subseteq 0 .. 1023
  BY SMT DEF STWB_x16_RAND
<1>4. NTST_x16_RAND \subseteq 0 .. 1023
  BY SMT DEF NTST_x16_RAND
<1> QED
  BY <1>1, <1>2, <1>3, <1>4

LEMMA AtWithin ==
    ASSUME NEW a \in Nat, NEW offsets \in SUBSET (0 .. 1023)
    PROVE  At(a, offsets) \subseteq a .. a + 1023
BY DEF At

\* What a block routine flushes and accesses.
LEMMA BlockOpLines ==
    ASSUME cfg.type = "BLOCK_LATS", cfg.op \in Measurable, start \in Nat
    PROVE  /\ Op.flush = FlushBlock(start)
           /\ Op.access \subseteq start .. start + 1023
<1> DEFINE Whole == start .. start + 1023
<1>1. At(start, LD_x16_RAND) \subseteq Whole /\ At(start, NTLD_x16_RAND) \subseteq Whole
  BY Displacements, AtWithin
<1>2. At(start, STWB_x16_RAND) \subseteq Whole /\ At(start, NTST_x16_RAND) \subseteq Whole
  BY Displacements, AtWithin
<1> HIDE DEF Whole
<1>3. CASE cfg.op = "READ"
  BY <1>1, <1>3 DEF Op, BlockOp, op_ld_block_lat, Whole
<1>4. CASE cfg.op = "READ_NT"
  BY <1>1, <1>4 DEF Op, BlockOp, op_ntld_block_lat, Whole
<1>5. CASE cfg.op = "WRITE"
  BY <1>2, <1>5 DEF Op, BlockOp, op_stwb_block_lat, Whole
<1>6. CASE cfg.op = "WRITE_NT"
  BY <1>2, <1>6 DEF Op, BlockOp, op_ntst_block_lat, Whole
<1> QED
  BY <1>3, <1>4, <1>5, <1>6 DEF Measurable

\* What a routine for a single operation flushes and accesses.
LEMMA SingleOpLines ==
    ASSUME cfg.type = "LATS_CLFLUSH", cfg.op \in Measurable
    PROVE  /\ Op.access = {start}
           /\ Op.flush = IF cfg.op = "WRITE" THEN {} ELSE FLUSH_CACHE_LINE(start)
<1>1. CASE cfg.op = "READ"
  BY <1>1 DEF Op, SingleOp, op_ld_64B_lat
<1>2. CASE cfg.op = "READ_NT"
  BY <1>2 DEF Op, SingleOp, op_ntld_64B_lat
<1>3. CASE cfg.op = "WRITE"
  BY <1>3 DEF Op, SingleOp, op_st_cl_flush_64B_lat
<1>4. CASE cfg.op = "WRITE_NT"
  BY <1>4 DEF Op, SingleOp, op_ntst_64B_lat
<1> QED
  BY <1>1, <1>2, <1>3, <1>4 DEF Measurable

LEMMA OpUnchanged ==
    ASSUME cfg' = cfg, start' = start
    PROVE  Op' = Op
<1>1. BlockOp' = BlockOp
  BY DEF BlockOp, op_ld_block_lat, op_ntld_block_lat, op_stwb_block_lat,
     op_ntst_block_lat, FlushBlock, FlushLoop, At
<1>2. SingleOp' = SingleOp
  BY DEF SingleOp, op_ld_64B_lat, op_ntld_64B_lat, op_st_cl_flush_64B_lat,
     op_ntst_64B_lat, FLUSH_CACHE_LINE
<1> QED
  BY <1>1, <1>2 DEF Op

LEMMA InitInv == Init => Inv
<1> SUFFICES ASSUME Init PROVE Inv
  OBVIOUS
<1>1. /\ StartAddrA \in Nat /\ Laps \in Nat
  BY CfgTypes DEF Init
<1>2. TypeOK
  BY <1>1, ValuesAssumption DEF Init, TypeOK, Points
<1>3. LapInv /\ StartInv /\ FlushedInv /\ ChaseInv
  BY <1>1 DEF Init, LapInv, StartInv, InCall, FlushedInv, ChaseInv
<1>4. Counted = 0
  BY DEF Init, Counted
<1>5. SumInv
  BY <1>4 DEF Init, SumInv, Extremes
<1>6. BufferInv
  BY DEF Init, BufferInv
<1> QED
  BY <1>2, <1>3, <1>5, <1>6 DEF Inv

\* What a state function of cfg and thread_idx is stays what it is.
LEMMA ConstantsUnchanged ==
    ASSUME cfg' = cfg, thread_idx' = thread_idx
    PROVE  UNCHANGED <<Chase, StartAddrA, Laps, Blocks, Offsets, Measured, PipeLoop>>
BY DEF Chase, StartAddrA, Laps, Blocks, Offsets, Measured, PipeLoop

LEMMA SumsUnchanged ==
    ASSUME SumInv, cfg' = cfg, i' = i, UNCHANGED <<latency_sum, min, max, measured>>,
           avg_cycle' = avg_cycle,
           pc' \in {"median", "done"} /\ Measured' /\ cfg.op_iter > 0 =>
               pc \in {"median", "done"} /\ Measured
    PROVE  SumInv'
<1>1. Lo' = Lo /\ Hi' = Hi /\ Counted' = Counted
  BY DEF Lo, Hi, Counted, Chase
<1> QED
  BY <1>1 DEF SumInv, Extremes

LEMMA MulMono ==
    ASSUME NEW a \in Nat, NEW b \in Nat, NEW n \in Nat, a <= b
    PROVE  a * n <= b * n /\ a * n \in Nat /\ b * n \in Nat
BY SMT

\* Adding a result between the old or the new extremes keeps the sum between
\* their multiples.
LEMMA SumBetween ==
    ASSUME NEW lo \in Nat, NEW hi \in Nat, NEW lo2 \in Nat, NEW hi2 \in Nat,
           NEW n \in Nat, NEW sum \in Nat, NEW r \in Nat,
           lo * n <= sum, sum <= hi * n,
           lo2 <= lo, hi <= hi2, lo2 <= r, r <= hi2
    PROVE  lo2 * (n + 1) <= sum + r /\ sum + r <= hi2 * (n + 1)
<1>1. lo2 * n <= lo * n /\ lo2 * n \in Nat /\ lo * n \in Nat
  BY MulMono
<1>2. hi * n <= hi2 * n /\ hi * n \in Nat /\ hi2 * n \in Nat
  BY MulMono
<1>3. lo2 * (n + 1) = lo2 * n + lo2 /\ hi2 * (n + 1) = hi2 * n + hi2
  BY SMT
<1> QED
  BY <1>1, <1>2, <1>3

\* A lap keeps count and sum and extremes together.
LEMMA CountInv == Inv /\ Count => SumInv'
<1> SUFFICES ASSUME Inv, Count PROVE SumInv'
  OBVIOUS
<1>1. /\ i \in Nat /\ result \in Nat /\ latency_sum \in Nat /\ min \in Nat
      /\ max \in Nat /\ measured \subseteq Nat
  BY DEF Inv, TypeOK
<1>2. cfg' = cfg /\ Chase' = Chase /\ i' = i + 1 /\ pc' = "lap"
  BY DEF Count, Chase
<1>3. CASE Chase /\ i = 0
  <2>1. Counted' = 0 /\ Counted = 0
    BY <1>2, <1>3 DEF Counted
  <2>2. latency_sum' = 0 /\ measured' = {}
    BY <1>3, <2>1 DEF Count, Counts, Inv, SumInv
  <2> QED
    BY <1>2, <2>1, <2>2 DEF SumInv, Extremes
<1>4. CASE ~(Chase /\ i = 0)
  <2>1. Counted \in Nat /\ Counted' = Counted + 1
    BY <1>1, <1>2, <1>4 DEF Counted
  <2>2. FirstCounted <=> Counted = 0
    BY <1>1, <1>4 DEF FirstCounted, Counted
  <2>3. latency_sum' = latency_sum + result /\ measured' = measured \union {result}
    BY <1>1, <1>4 DEF Count, Counts
  <2>4. /\ Lo' = IF FirstCounted \/ result < Lo THEN result ELSE Lo
        /\ Hi' = IF FirstCounted \/ result > Hi THEN result ELSE Hi
    <3>1. CASE Chase
      <4>1. min' = ChaseMin /\ max' = ChaseMax
        BY <3>1 DEF Count
      <4> QED
        BY <1>1, <1>2, <3>1, <4>1 DEF ChaseMin, ChaseMax, Lo, Hi
    <3>2. CASE ~Chase
      <4>1. min' = Least /\ max' = Greatest
        BY <3>2 DEF Count
      <4>2. Lo = min /\ Hi = max /\ Lo' = min' /\ Hi' = max'
        BY <1>2, <3>2 DEF Lo, Hi
      <4> QED
        BY <4>1, <4>2 DEF Least, Greatest
    <3> QED
      BY <3>1, <3>2
  <2>5. Lo \in Nat /\ Hi \in Nat /\ Lo' \in Nat /\ Hi' \in Nat
    BY <1>1, <2>4 DEF Lo, Hi
  <2>6. CASE Counted = 0
    <3>0. latency_sum = 0 /\ measured = {}
      BY <2>6 DEF Inv, SumInv
    <3>1. Lo' = result /\ Hi' = result /\ measured' = {result} /\ latency_sum' = result
      BY <1>1, <2>2, <2>3, <2>4, <2>6, <3>0
    <3>2. Counted' = 1 /\ result * 1 = result
      BY <1>1, <2>1, <2>6
    <3> QED
      BY <1>1, <1>2, <3>1, <3>2 DEF SumInv, Extremes
  <2>7. CASE Counted # 0
    <3>1. /\ measured # {} /\ Lo * Counted <= latency_sum /\ latency_sum <= Hi * Counted
          /\ Lo \in measured /\ Hi \in measured
          /\ \A v \in measured : Lo <= v /\ v <= Hi
      BY <2>1, <2>7 DEF Inv, SumInv, Extremes
    <3>2. Lo' <= Lo /\ Hi <= Hi' /\ Lo' <= result /\ result <= Hi'
      BY <1>1, <2>2, <2>4, <2>5, <2>7
    <3>3. Lo' * (Counted + 1) <= latency_sum + result
          /\ latency_sum + result <= Hi' * (Counted + 1)
      BY <1>1, <2>1, <2>5, <3>1, <3>2, SumBetween
    <3>4. Lo' \in measured' /\ Hi' \in measured'
      BY <2>3, <2>4, <3>1
    <3>5. \A v \in measured' : Lo' <= v /\ v <= Hi'
      BY <1>1, <2>3, <2>5, <3>1, <3>2
    <3>6. Counted' > 0
      BY <2>1
    <3> QED
      BY <1>2, <2>1, <2>3, <3>3, <3>4, <3>5, <3>6 DEF SumInv, Extremes
  <2> QED
    BY <2>6, <2>7
<1> QED
  BY <1>3, <1>4

\* Every lap has its place in the buffer of results, and the median is taken
\* from the sorted buffer.
LEMMA BufferNext == Inv /\ [Next]_vars => BufferInv'
<1> SUFFICES ASSUME Inv, [Next]_vars, ~Chase', pc' # "start"
             PROVE  /\ result_buff' \in [0 .. cfg'.op_iter - 1 -> Nat]
                    /\ pc' = "done" /\ Measured' /\ cfg'.op_iter > 0
                           => median' = Middle'
  BY DEF BufferInv
<1>1. cfg' = cfg /\ thread_idx' = thread_idx
  BY DEF Next, vars, EnterChase, EnterFlushed, BeginLap, EndLaps, ChaseStep,
     Flush, ClearPipe, Time, Count, PrintLats, PrintMedian
<1>2. ~Chase /\ Chase' = Chase /\ Measured' = Measured
  BY <1>1, ConstantsUnchanged
<1>3. result_buff' = result_buff => Middle' = Middle
  BY <1>1 DEF Middle, Sorted, Order, comp
<1>4. CASE EnterFlushed
  <2>1. result_buff' \in [0 .. cfg.op_iter - 1 -> Garbage] /\ pc' # "done"
    BY <1>4 DEF EnterFlushed
  <2> QED BY <1>1, <2>1, ValuesAssumption
<1>5. CASE Count
  <2>1. /\ result_buff' = [result_buff EXCEPT ![i] = Share]
        /\ pc = "count" /\ pc' = "lap"
    BY <1>2, <1>5 DEF Count
  <2>2. Share \in Nat
    BY DEF Share, BLOCK_xN, Inv, TypeOK
  <2>3. result_buff \in [0 .. cfg.op_iter - 1 -> Nat]
    BY <1>2, <2>1 DEF Inv, BufferInv
  <2> QED BY <1>1, <2>1, <2>2, <2>3
<1>6. CASE PrintMedian
  <2>1. pc = "median" /\ median' = Middle /\ result_buff' = result_buff
    BY <1>6 DEF PrintMedian, statVars
  <2> QED BY <1>1, <1>2, <1>3, <2>1 DEF Inv, BufferInv
<1>7. ASSUME result_buff' = result_buff, pc # "start",
             pc' = "done" => pc = "done" \/ ~Measured \/ cfg.op_iter = 0,
             median' = median
      PROVE  /\ result_buff' \in [0 .. cfg'.op_iter - 1 -> Nat]
             /\ pc' = "done" /\ Measured' /\ cfg'.op_iter > 0 => median' = Middle'
  BY <1>1, <1>2, <1>3, <1>7 DEF Inv, BufferInv
<1>8. CASE BeginLap
  <2>1. pc = "lap" /\ (pc' = "done" => ~Measured)
    BY <1>2, <1>8 DEF BeginLap, Measured
  <2> QED BY <1>7, <1>8, <2>1 DEF BeginLap, statVars, reportVars
<1>9. CASE EndLaps \/ Flush \/ ClearPipe \/ Time
  BY <1>7, <1>9 DEF EndLaps, Flush, ClearPipe, Time, statVars, reportVars
<1>10. CASE PrintLats
  BY <1>2, <1>7, <1>10 DEF PrintLats, statVars
<1>11. CASE UNCHANGED vars
  BY <1>7, <1>11 DEF vars, statVars, reportVars
<1>12. CASE EnterChase
  BY <1>2, <1>12 DEF EnterChase
<1>13. CASE ChaseStep
  BY <1>2, <1>13 DEF ChaseStep, Inv, LapInv
<1> QED
  BY <1>4, <1>5, <1>6, <1>8, <1>9, <1>10, <1>11, <1>12, <1>13 DEF Next

LEMMA NextInv == Inv /\ [Next]_vars => Inv'
<1> SUFFICES ASSUME Inv, [Next]_vars PROVE Inv'
  OBVIOUS
<1> USE DEF Points
<1>0. /\ cfg \in Config /\ cfg.type \in Types
      /\ cfg.op_iter \in Nat /\ cfg.total_buf_size \in Nat \ {0}
      /\ cfg.num_clear_pipe \in Nat /\ StartAddrA \in Nat
      /\ Laps \in Nat /\ Blocks \subseteq Nat /\ PipeLoop \in Nat
  BY CfgTypes DEF Inv, TypeOK
<1>a. cfg' = cfg /\ thread_idx' = thread_idx
  BY DEF Next, vars, EnterChase, EnterFlushed, BeginLap, EndLaps, ChaseStep,
     Flush, ClearPipe, Time, Count, PrintLats, PrintMedian
<1>b. UNCHANGED <<Chase, StartAddrA, Laps, Blocks, Offsets, Measured, PipeLoop>>
  BY <1>a, ConstantsUnchanged
<1>c. BufferInv'
  BY BufferNext
<1>1. CASE EnterChase
  <2>1. TypeOK'
    BY <1>0, <1>a, <1>1 DEF EnterChase, init_ptr_buf, statVars, reportVars, Inv, TypeOK
  <2>2. LapInv' /\ StartInv' /\ FlushedInv'
    BY <1>b, <1>1 DEF EnterChase, Inv, LapInv, StartInv, FlushedInv, InCall, Measured
  <2>3. ChaseInv'
    BY <1>a, <1>b, <1>1 DEF EnterChase, init_ptr_buf, ChaseInv, NextBlock
  <2>4. SumInv'
    BY <1>a, <1>1, SumsUnchanged DEF EnterChase, statVars, reportVars, Inv
  <2> QED
    BY <1>c, <2>1, <2>2, <2>3, <2>4 DEF Inv
<1>2. CASE EnterFlushed
  <2>1. TypeOK'
    BY <1>0, <1>a, <1>2 DEF EnterFlushed, chaseVars, reportVars, Inv, TypeOK
  <2>2. LapInv'
    <3>1. i' = i /\ ~Chase
      BY <1>2 DEF EnterFlushed
    <3>2. CASE cfg.type = "LATS_CLFLUSH" /\ cfg.op \notin Measurable
      <4>1. pc' = "report" /\ ~Measured
        BY <1>2, <3>1, <3>2 DEF EnterFlushed, Measured
      <4> QED
        BY <1>b, <3>1, <4>1 DEF Inv, LapInv
    <3>3. CASE ~(cfg.type = "LATS_CLFLUSH" /\ cfg.op \notin Measurable)
      <4>1. pc' = "lap"
        BY <1>2, <3>3 DEF EnterFlushed
      <4>2. Measured \/ cfg.type = "BLOCK_LATS"
        BY <1>0, <3>1, <3>3 DEF Measured, Types, Chase
      <4>3. cfg'.type = cfg.type
        BY <1>a
      <4> QED
        BY <1>b, <3>1, <4>1, <4>2, <4>3 DEF Inv, LapInv
    <3> QED
      BY <3>2, <3>3
  <2>3. StartInv' /\ FlushedInv'
    BY <1>b, <1>2 DEF EnterFlushed, StartInv, FlushedInv, InCall
  <2>4. ChaseInv'
    BY <1>b, <1>2 DEF EnterFlushed, ChaseInv
  <2>5. SumInv'
    BY <1>a, <1>2, SumsUnchanged DEF EnterFlushed, reportVars, Inv
  <2> QED
    BY <1>c, <2>1, <2>2, <2>3, <2>4, <2>5 DEF Inv
<1>3. CASE BeginLap
  <2>1. start' \in Nat /\ r10' \in Nat
    <3>1. CASE pc' = "done"
      BY <1>3, <3>1 DEF BeginLap, Inv, TypeOK
    <3>2. CASE pc' # "done"
      <4>1. \/ start' = StartAddrA
            \/ \E offset \in Offsets : start' = StartAddrA + offset
        BY <1>3, <3>2 DEF BeginLap
      <4>2. \A offset \in Offsets : offset \in Nat
        BY <1>0, OffsetsFit
      <4> QED
        BY <1>0, <1>3, <3>2, <4>1, <4>2 DEF BeginLap
    <3> QED
      BY <3>1, <3>2
  <2>2. TypeOK'
    BY <1>a, <1>3, <2>1 DEF BeginLap, statVars, reportVars, Inv, TypeOK
  <2>3. LapInv'
    <3>1. CASE cfg.type = "BLOCK_LATS" /\ cfg.op \notin Measurable
      <4>1. pc' = "done" /\ i' = i /\ ~Measured
        BY <1>3, <3>1 DEF BeginLap, Measured, Chase
      <4> QED
        BY <1>b, <4>1 DEF Inv, LapInv
    <3>2. CASE ~(cfg.type = "BLOCK_LATS" /\ cfg.op \notin Measurable)
      <4>1. pc = "lap" /\ pc' = (IF Chase THEN "chase" ELSE "flush") /\ i' = i /\ i < Laps
        BY <1>3, <3>2 DEF BeginLap
      <4>2. Measured
        BY <3>2, <4>1 DEF Inv, LapInv, Measured
      <4> QED
        BY <1>b, <4>1, <4>2 DEF Inv, LapInv
    <3> QED
      BY <3>1, <3>2
  <2>4. StartInv'
    BY <1>b, <1>3 DEF BeginLap, StartInv, InCall
  <2>5. FlushedInv'
    BY <1>3 DEF BeginLap, FlushedInv
  <2>6. ChaseInv'
    <3> SUFFICES ASSUME Chase, ~cfg.random PROVE ChaseInv'
      BY <1>a, <1>b DEF ChaseInv
    <3>1. pc = "lap" /\ pc' = "chase" /\ r10' = 0 /\ r11' = 0 /\ visited' = {}
      BY <1>3 DEF BeginLap, Chase
    <3>2. num_chase_block' = cfg.total_buf_size
          /\ ptr_arr' = [b \in Blocks |-> NextBlock(b)]
      BY <1>3, <3>1 DEF BeginLap, Inv, ChaseInv
    <3> QED
      BY <1>0, <1>a, <1>b, <3>1, <3>2 DEF ChaseInv, NextBlock
  <2>7. SumInv'
    BY <1>a, <1>3, <1>b, SumsUnchanged DEF BeginLap, statVars, reportVars, Inv, Measured, Chase
  <2> QED
    BY <1>c, <2>2, <2>3, <2>4, <2>5, <2>6, <2>7 DEF Inv
<1>4. CASE EndLaps
  <2>1. TypeOK'
    BY <1>a, <1>4 DEF EndLaps, chaseVars, statVars, reportVars, Inv, TypeOK
  <2>2. LapInv'
    BY <1>0, <1>b, <1>4 DEF EndLaps, Inv, TypeOK, LapInv
  <2>3. StartInv' /\ FlushedInv'
    BY <1>4 DEF EndLaps, StartInv, FlushedInv, InCall
  <2>4. ChaseInv'
    BY <1>a, <1>b, <1>4 DEF EndLaps, chaseVars, Inv, ChaseInv, NextBlock
  <2>5. SumInv'
    BY <1>a, <1>4, SumsUnchanged DEF EndLaps, statVars, reportVars, Inv
  <2> QED
    BY <1>c, <2>1, <2>2, <2>3, <2>4, <2>5 DEF Inv
<1>5. CASE ChaseStep
  <2>1. TypeOK'
    BY <1>a, <1>5 DEF ChaseStep, statVars, reportVars, Inv, TypeOK
  <2>2. Chase /\ i < Laps /\ Measured
    BY <1>5 DEF ChaseStep, Inv, LapInv
  <2>3. LapInv'
    BY <1>b, <1>5, <2>2 DEF ChaseStep, Inv, LapInv
  <2>4. StartInv' /\ FlushedInv'
    BY <1>b, <1>5, <2>2 DEF ChaseStep, StartInv, FlushedInv, InCall
  <2>5. ChaseInv'
    <3> SUFFICES ASSUME ~cfg.random PROVE ChaseInv'
      BY <1>a DEF ChaseInv
    <3>1. /\ num_chase_block = cfg.total_buf_size
          /\ ptr_arr = [b \in Blocks |-> NextBlock(b)]
          /\ r10 < cfg.total_buf_size /\ r11 = r10 /\ visited = 0 .. r10 - 1
      BY <1>5, <2>2 DEF ChaseStep, Inv, ChaseInv
    <3>2. r10 \in Nat /\ r10 \in Blocks
      BY <1>0, <3>1 DEF Inv, TypeOK, Blocks
    <3>3. r11' = NextBlock(r10) /\ r10' = r10 + 1 /\ visited' = 0 .. r10
      BY <1>5, <3>1, <3>2 DEF ChaseStep
    <3>4. num_chase_block' = cfg.total_buf_size /\ ptr_arr' = ptr_arr
      BY <1>5, <3>1 DEF ChaseStep
    <3>5. ptr_arr' = [b \in Blocks' |-> NextBlock(b)']
      BY <1>a, <1>b, <3>1, <3>4 DEF NextBlock
    <3>6. CASE r10 + 1 < cfg.total_buf_size
      <4>1. pc' = "chase"
        BY <1>5, <3>1, <3>6 DEF ChaseStep
      <4>2. r11' = r10 + 1
        BY <1>0, <3>2, <3>3, <3>6 DEF NextBlock
      <4> QED
        BY <1>a, <3>2, <3>3, <3>4, <3>5, <3>6, <4>1, <4>2 DEF ChaseInv
    <3>7. CASE ~(r10 + 1 < cfg.total_buf_size)
      <4>1. pc' = "time"
        BY <1>5, <3>1, <3>7 DEF ChaseStep
      <4>2. r10 = cfg.total_buf_size - 1
        BY <1>0, <3>1, <3>2, <3>7
      <4>3. r11' = 0 /\ visited' = Blocks'
        BY <1>b, <3>3, <4>2 DEF NextBlock, Blocks
      <4> QED
        BY <1>a, <3>4, <3>5, <4>1, <4>3 DEF ChaseInv
    <3> QED
      BY <3>6, <3>7
  <2>6. SumInv'
    BY <1>a, <1>5, SumsUnchanged DEF ChaseStep, statVars, reportVars, Inv
  <2> QED
    BY <1>c, <2>1, <2>3, <2>4, <2>5, <2>6 DEF Inv
<1>6. CASE Flush
  <2>0. Op' = Op
    BY <1>a, <1>6, OpUnchanged DEF Flush
  <2>1. TypeOK'
    BY <1>a, <1>6 DEF Flush, AfterFlush, chaseVars, statVars, reportVars, Inv, TypeOK
  <2>2. LapInv'
    BY <1>b, <1>6 DEF Flush, Inv, LapInv
  <2>3. StartInv'
    BY <1>b, <1>6 DEF Flush, Inv, StartInv, InCall
  <2>4. FlushedInv'
    BY <1>0, <1>b, <1>6, <2>0 DEF Flush, AfterFlush, FlushedInv
  <2>5. ChaseInv'
    BY <1>a, <1>b, <1>6 DEF Flush, chaseVars, Inv, ChaseInv, NextBlock
  <2>6. SumInv'
    BY <1>a, <1>6, SumsUnchanged DEF Flush, statVars, reportVars, Inv
  <2> QED
    BY <1>c, <2>1, <2>2, <2>3, <2>4, <2>5, <2>6 DEF Inv
<1>7. CASE ClearPipe
  <2>0. Op' = Op
    BY <1>a, <1>7, OpUnchanged DEF ClearPipe
  <2>1. TypeOK'
    BY <1>a, <1>7 DEF ClearPipe, chaseVars, statVars, reportVars, Inv, TypeOK
  <2>2. LapInv'
    BY <1>b, <1>7 DEF ClearPipe, Inv, LapInv
  <2>3. StartInv'
    BY <1>b, <1>7 DEF ClearPipe, Inv, StartInv, InCall
  <2>4. FlushedInv'
    BY <1>0, <1>b, <1>7, <2>0 DEF ClearPipe, Inv, TypeOK, FlushedInv
  <2>5. ChaseInv'
    BY <1>a, <1>b, <1>7 DEF ClearPipe, chaseVars, Inv, LapInv, ChaseInv, NextBlock
  <2>6. SumInv'
    BY <1>a, <1>7, SumsUnchanged DEF ClearPipe, statVars, reportVars, Inv
  <2> QED
    BY <1>c, <2>1, <2>2, <2>3, <2>4, <2>5, <2>6 DEF Inv
<1>8. CASE Time
  <2>1. TypeOK'
    BY <1>a, <1>8, ValuesAssumption DEF Time, chaseVars, statVars, reportVars, Inv, TypeOK
  <2>2. LapInv'
    BY <1>b, <1>8 DEF Time, Inv, LapInv
  <2>3. StartInv' /\ FlushedInv'
    BY <1>8 DEF Time, StartInv, FlushedInv, InCall
  <2>4. ChaseInv'
    BY <1>a, <1>b, <1>8 DEF Time, chaseVars, Inv, ChaseInv, NextBlock
  <2>5. SumInv'
    BY <1>a, <1>8, SumsUnchanged DEF Time, statVars, reportVars, Inv
  <2> QED
    BY <1>c, <2>1, <2>2, <2>3, <2>4, <2>5 DEF Inv
<1>9. CASE Count
  <2>1. TypeOK'
    BY <1>a, <1>9 DEF Count, chaseVars, reportVars, ChaseMin, ChaseMax, Least,
       Greatest, Inv, TypeOK
  <2>2. LapInv'
    BY <1>0, <1>b, <1>9 DEF Count, Inv, TypeOK, LapInv
  <2>3. StartInv' /\ FlushedInv'
    BY <1>9 DEF Count, StartInv, FlushedInv, InCall
  <2>4. ChaseInv'
    BY <1>a, <1>b, <1>9 DEF Count, chaseVars, Inv, ChaseInv, NextBlock
  <2>5. SumInv'
    BY <1>9, CountInv
  <2> QED
    BY <1>c, <2>1, <2>2, <2>3, <2>4, <2>5 DEF Inv
<1>10. CASE PrintLats
  <2>1. cfg.op_iter # 0 => latency_sum \div cfg.op_iter \in Nat
    BY <1>0, SMT DEF Inv, TypeOK
  <2>2. TypeOK'
    BY <1>0, <1>a, <1>10, <2>1 DEF PrintLats, chaseVars, statVars, Inv, TypeOK
  <2>3. LapInv'
    BY <1>0, <1>b, <1>a, <1>10 DEF PrintLats, Inv, LapInv
  <2>4. StartInv' /\ FlushedInv'
    BY <1>10 DEF PrintLats, StartInv, FlushedInv, InCall
  <2>5. ChaseInv'
    BY <1>a, <1>b, <1>10 DEF PrintLats, chaseVars, Inv, ChaseInv, NextBlock
  <2>6. SumInv'
    <3>1. UNCHANGED <<Lo, Hi, Counted, measured, latency_sum>>
      BY <1>a, <1>b, <1>10 DEF PrintLats, statVars, Lo, Hi, Counted
    <3>2. Extremes'
      BY <3>1 DEF Inv, SumInv, Extremes
    <3>3. cfg.op_iter > 0 => avg_cycle' = latency_sum \div cfg.op_iter
      BY <1>0, <1>10 DEF PrintLats
    <3> QED
      BY <1>a, <3>1, <3>2, <3>3 DEF Inv, SumInv
  <2> QED
    BY <1>c, <2>2, <2>3, <2>4, <2>5, <2>6 DEF Inv
<1>11. CASE PrintMedian
  <2>1. TypeOK'
    BY <1>a, <1>11 DEF PrintMedian, chaseVars, statVars, Inv, TypeOK
  <2>2. LapInv'
    BY <1>b, <1>11 DEF PrintMedian, Inv, LapInv
  <2>3. StartInv' /\ FlushedInv'
    BY <1>11 DEF PrintMedian, StartInv, FlushedInv, InCall
  <2>4. ChaseInv'
    BY <1>a, <1>b, <1>11 DEF PrintMedian, chaseVars, Inv, ChaseInv, NextBlock
  <2>5. SumInv'
    BY <1>a, <1>b, <1>11, SumsUnchanged DEF PrintMedian, statVars, Inv
  <2> QED
    BY <1>c, <2>1, <2>2, <2>3, <2>4, <2>5 DEF Inv
<1>12. CASE UNCHANGED vars
  <2>1. Op' = Op
    BY <1>12, OpUnchanged DEF vars
  <2>2. TypeOK' /\ LapInv' /\ StartInv'
    BY <1>b, <1>12 DEF vars, chaseVars, statVars, reportVars, Inv, TypeOK, LapInv,
       StartInv, InCall
  <2>3. FlushedInv'
    BY <1>b, <1>12, <2>1 DEF vars, Inv, FlushedInv
  <2>4. ChaseInv'
    BY <1>a, <1>b, <1>12 DEF vars, chaseVars, Inv, ChaseInv, NextBlock
  <2>5. SumInv'
    BY <1>a, <1>b, <1>12, SumsUnchanged DEF vars, statVars, reportVars, Inv
  <2> QED
    BY <1>c, <2>2, <2>3, <2>4, <2>5 DEF Inv
<1> QED
  BY <1>1, <1>2, <1>3, <1>4, <1>5, <1>6, <1>7, <1>8, <1>9, <1>10, <1>11, <1>12 DEF Next

\* The invariant of a latency test holds throughout.
THEOREM Invariance == Spec => []Inv
<1> QED
  BY InitInv, NextInv, PTL DEF Spec

LEMMA InvInBuffer == Inv => InBuffer
<1> SUFFICES ASSUME Inv, InCall, thread_idx = 0,
                    cfg.type = "BLOCK_LATS" => cfg.total_buf_size % BLOCK_LINES = 0
             PROVE  Op.access \subseteq Blocks /\ Op.flush \subseteq 0 .. cfg.total_buf_size + 2
  BY DEF InBuffer
<1>0. cfg.total_buf_size \in Nat \ {0} /\ cfg.type \in Types /\ StartAddrA = 0
  BY CfgTypes DEF Inv, TypeOK
<1>1. PICK offset \in Offsets : start = offset
  <2>1. \A offset \in Offsets : offset \in Nat
    BY <1>0, OffsetsFit DEF Blocks
  <2> QED
    BY <1>0, <2>1 DEF Inv, StartInv
<1>2. start \in Nat /\ start < cfg.total_buf_size
  BY <1>0, <1>1, OffsetsFit DEF Blocks
<1>3. cfg.op \in Measurable /\ ~Chase
  BY DEF InCall, Inv, LapInv, Measured
<1>4. CASE cfg.type = "BLOCK_LATS"
  <2>1. start + 1024 <= cfg.total_buf_size
    BY <1>0, <1>1, <1>4, OffsetsFit DEF BLOCK_LINES
  <2>2. Op.access \subseteq start .. start + 1023 /\ Op.flush = FlushBlock(start)
    BY <1>2, <1>3, <1>4, BlockOpLines
  <2>3. FlushBlock(start) \subseteq start .. start + 1023
    BY <1>2 DEF FlushBlock, FlushLoop, BLOCK_LINES
  <2>4. start .. start + 1023 \subseteq Blocks
    BY <1>0, <1>2, <2>1 DEF Blocks
  <2>5. Blocks \subseteq 0 .. cfg.total_buf_size + 2
    BY <1>0 DEF Blocks
  <2> QED
    BY <2>2, <2>3, <2>4, <2>5
<1>5. CASE cfg.type = "LATS_CLFLUSH"
  <2>1. Op.access = {start}
        /\ Op.flush = IF cfg.op = "WRITE" THEN {} ELSE FLUSH_CACHE_LINE(start)
    BY <1>3, <1>5, SingleOpLines
  <2>2. FLUSH_CACHE_LINE(start) \subseteq 0 .. cfg.total_buf_size + 2
    BY <1>0, <1>2 DEF FLUSH_CACHE_LINE
  <2>3. start \in Blocks
    BY <1>0, <1>2 DEF Blocks
  <2> QED
    BY <2>1, <2>2, <2>3
<1> QED
  BY <1>0, <1>3, <1>4, <1>5 DEF Types, Chase

LEMMA InvColdStart == Inv => ColdStart
<1> SUFFICES ASSUME Inv, pc = "time", ~Chase,
                    IF cfg.type = "BLOCK_LATS" THEN cfg.flush_block ELSE cfg.op # "WRITE"
             PROVE  Op.access \intersect cached = {}
  BY DEF ColdStart
<1>1. cached \intersect Op.flush = {}
  BY DEF Inv, FlushedInv
<1>2. cfg.op \in Measurable /\ start \in Nat /\ cfg.type \in Types
  BY CfgTypes DEF Inv, TypeOK, LapInv, Measured
<1>3. Op.access \subseteq Op.flush
  <2>1. CASE cfg.type = "BLOCK_LATS"
    BY <1>2, <2>1, BlockOpLines DEF FlushBlock, FlushLoop, BLOCK_LINES
  <2>2. CASE cfg.type = "LATS_CLFLUSH"
    BY <1>2, <2>2, SingleOpLines DEF FLUSH_CACHE_LINE
  <2> QED
    BY <1>2, <2>1, <2>2 DEF Types, Chase
<1> QED
  BY <1>1, <1>3

\* The quotient of a sum between multiples lies between what is multiplied.
LEMMA QuotientBetween ==
    ASSUME NEW lo \in Nat, NEW hi \in Nat, NEW n \in Nat \ {0}, NEW sum \in Nat,
           lo * n <= sum, sum <= hi * n
    PROVE  lo <= sum \div n /\ sum \div n <= hi
<1> DEFINE q == sum \div n
<1>1. q \in Nat /\ n * q <= sum /\ sum < n * q + n
  BY SMT
<1> HIDE DEF q
<1>2. ASSUME q < lo PROVE FALSE
  <2>1. (q + 1) * n <= lo * n
    BY <1>1, <1>2, MulMono
  <2>2. (q + 1) * n = n * q + n /\ n * q \in Nat /\ lo * n \in Nat
    BY <1>1, SMT
  <2> QED
    BY <1>1, <2>1, <2>2
<1>3. ASSUME hi < q PROVE FALSE
  <2>1. (hi + 1) * n <= q * n
    BY <1>1, <1>3, MulMono
  <2>2. (hi + 1) * n = hi * n + n /\ q * n = n * q /\ n * q \in Nat /\ hi * n \in Nat
    BY <1>1, SMT
  <2> QED
    BY <1>1, <2>1, <2>2
<1>4. lo <= q /\ q <= hi
  BY <1>1, <1>2, <1>3
<1> QED
  BY <1>4 DEF q

LEMMA InvAverage == Inv => AverageBetween
<1> SUFFICES ASSUME Inv, Reported, cfg.op_iter > 0
             PROVE  Lo <= avg_cycle /\ avg_cycle <= Hi
  BY DEF AverageBetween
<1>1. cfg.op_iter \in Nat \ {0}
  BY CfgTypes DEF Inv, TypeOK
<1>2. i = Laps /\ avg_cycle = latency_sum \div cfg.op_iter
  BY DEF Reported, Inv, LapInv, SumInv
<1>3. Counted = cfg.op_iter
  BY <1>1, <1>2 DEF Counted, Laps
<1>4. Lo * cfg.op_iter <= latency_sum /\ latency_sum <= Hi * cfg.op_iter
  BY <1>1, <1>3 DEF Inv, SumInv
<1>5. Lo \in Nat /\ Hi \in Nat /\ latency_sum \in Nat
  BY DEF Inv, TypeOK, Lo, Hi
<1> QED
  BY <1>1, <1>2, <1>4, <1>5, QuotientBetween

\* Whatever rand() returns and however large the buffer, the first thread times
\* lines of its buffer, and flushes at most three behind it.
THEOREM StaysInBuffer == Spec => []InBuffer
<1> QED
  BY Invariance, InvInBuffer, PTL

\* What has been flushed for a lap covers what the lap times.
THEOREM StartsCold == Spec => []ColdStart
<1> QED
  BY Invariance, InvColdStart, PTL

\* A lap of the chase goes through the whole list once, for any size of buffer.
THEOREM ChaseComplete == Spec => []ChaseVisitsAll
<1>1. Inv => ChaseVisitsAll
  BY DEF Inv, ChaseInv, ChaseVisitsAll
<1> QED
  BY <1>1, Invariance, PTL

\* min and max are the extremes of the results that count, for any results.
THEOREM ExtremesRight == Spec => []Extremes
<1>1. Inv => Extremes
  BY DEF Inv, SumInv
<1> QED
  BY <1>1, Invariance, PTL

\* The average reported lies between the extremes, for any number of laps.
THEOREM AverageRight == Spec => []AverageBetween
<1> QED
  BY Invariance, InvAverage, PTL

----------------------------------------------------------------------------
(* The median.  A buffer of numbers can be sorted: each place goes to the    *)
(* number of places that come before it.                                     *)

\* Place k comes before place l: its value is smaller or the same, and then it
\* is the place further to the front.
Before(f, k, l) == f[k] < f[l] \/ (f[k] = f[l] /\ k < l)
Front(f, l) == {k \in DOMAIN f : Before(f, k, l)}

LEMMA RankInRange ==
    ASSUME NEW n \in Nat, NEW f \in [0 .. n - 1 -> Nat], NEW l \in 0 .. n - 1
    PROVE  IsFiniteSet(Front(f, l)) /\ Cardinality(Front(f, l)) \in 0 .. n - 1
<1> DEFINE D == 0 .. n - 1
<1>1. IsFiniteSet(D) /\ Cardinality(D) = n
  BY FS_Interval
<1>2. DOMAIN f = D
  OBVIOUS
<1>3. f[l] \in Nat /\ l \in Nat
  OBVIOUS
<1>4. l \notin Front(f, l) /\ Front(f, l) \in SUBSET D /\ l \in D
  BY <1>2, <1>3 DEF Front, Before
<1>5. IsFiniteSet(D \ {l}) /\ Cardinality(D \ {l}) = n - 1
  <2> HIDE DEF D
  <2> QED BY <1>1, <1>4, FS_RemoveElement
<1>6. Front(f, l) \in SUBSET (D \ {l})
  <2> HIDE DEF D
  <2> QED BY <1>4
<1>7. IsFiniteSet(Front(f, l)) /\ Cardinality(Front(f, l)) <= n - 1
  <2> HIDE DEF D
  <2> QED BY <1>5, <1>6, FS_Subset
<1> QED BY <1>7, FS_CardinalityType

LEMMA RankGrows ==
    ASSUME NEW n \in Nat, NEW f \in [0 .. n - 1 -> Nat],
           NEW k \in 0 .. n - 1, NEW l \in 0 .. n - 1, Before(f, k, l)
    PROVE  Cardinality(Front(f, k)) < Cardinality(Front(f, l))
<1>1. /\ IsFiniteSet(Front(f, k)) /\ IsFiniteSet(Front(f, l))
      /\ Cardinality(Front(f, k)) \in Nat /\ Cardinality(Front(f, l)) \in Nat
  BY RankInRange
<1>2. DOMAIN f = 0 .. n - 1 /\ f[k] \in Nat /\ f[l] \in Nat
  OBVIOUS
<1>3. k \notin Front(f, k) /\ k \in Front(f, l)
  BY <1>2 DEF Front, Before
<1>4. Front(f, k) \subseteq Front(f, l)
  <2>1. SUFFICES ASSUME NEW m \in 0 .. n - 1, Before(f, m, k) PROVE Before(f, m, l)
    BY <1>2 DEF Front
  <2>2. f[m] \in Nat
    OBVIOUS
  <2> QED BY <1>2, <2>1, <2>2 DEF Before
<1>5. Front(f, k) \union {k} \in SUBSET Front(f, l)
  BY <1>3, <1>4
<1>6. /\ IsFiniteSet(Front(f, k) \union {k})
      /\ Cardinality(Front(f, k) \union {k}) = Cardinality(Front(f, k)) + 1
  BY <1>1, <1>3, FS_AddElement
<1>7. Cardinality(Front(f, k) \union {k}) <= Cardinality(Front(f, l))
  BY <1>1, <1>5, FS_Subset
<1> QED BY <1>1, <1>6, <1>7

\* What comp orders.
InOrder(f, p) == \A k, l \in DOMAIN f : k < l => f[p[k]] <= f[p[l]]

LEMMA Sortable ==
    ASSUME NEW n \in Nat, NEW f \in [0 .. n - 1 -> Nat]
    PROVE  \E p \in Bijection(0 .. n - 1, 0 .. n - 1) : InOrder(f, p)
<1> DEFINE D == 0 .. n - 1
           rank == [l \in D |-> Cardinality(Front(f, l))]
<1>1. IsFiniteSet(D) /\ DOMAIN f = D /\ D \subseteq Nat
  BY FS_Interval
<1>2. rank \in [D -> D]
  BY RankInRange
<1>3. \A k, l \in D : Before(f, k, l) => rank[k] < rank[l]
  BY RankGrows
<1>4. \A k, l \in D : k = l \/ Before(f, k, l) \/ Before(f, l, k)
  <2>1. SUFFICES ASSUME NEW k \in D, NEW l \in D
                 PROVE  k = l \/ Before(f, k, l) \/ Before(f, l, k)
    OBVIOUS
  <2>2. f[k] \in Nat /\ f[l] \in Nat /\ k \in Nat /\ l \in Nat
    OBVIOUS
  <2> HIDE DEF D
  <2> QED BY <2>2 DEF Before
<1>5. \A k, l \in D : rank[k] \in Nat /\ (rank[k] = rank[l] => k = l)
  <2>1. SUFFICES ASSUME NEW k \in D, NEW l \in D
                 PROVE  rank[k] \in Nat /\ (rank[k] = rank[l] => k = l)
    OBVIOUS
  <2>2. rank[k] \in Nat /\ rank[l] \in Nat
    <3> HIDE DEF rank, D
    <3> QED BY <1>1, <1>2
  <2> HIDE DEF rank, D
  <2> QED BY <1>3, <1>4, <2>2
<1> HIDE DEF rank, D
<1>6. rank \in Injection(D, D)
  BY <1>2, <1>5 DEF Injection, IsInjective
<1>7. rank \in Surjection(D, D)
  BY <1>1, <1>6, FS_Injection
<1> DEFINE p == [r \in D |-> CHOOSE l \in D : rank[l] = r]
<1>8. \A r \in D : p[r] \in D /\ rank[p[r]] = r
  BY <1>7 DEF Surjection
<1> HIDE DEF p
<1>9. p \in [D -> D]
  BY <1>8 DEF p
<1>10. p \in Injection(D, D)
  BY <1>8, <1>9 DEF Injection, IsInjective
<1>11. p \in Surjection(D, D)
  <2>1. \A l \in D : p[rank[l]] = l /\ rank[l] \in D
    BY <1>2, <1>5, <1>8
  <2> QED BY <1>9, <2>1 DEF Surjection
<1>12. ASSUME NEW k \in D, NEW l \in D, k < l PROVE f[p[k]] <= f[p[l]]
  <2>1. /\ p[k] \in D /\ p[l] \in D /\ rank[p[k]] = k /\ rank[p[l]] = l
        /\ k \in Nat /\ l \in Nat
    BY <1>1, <1>8
  <2>2. ~Before(f, p[l], p[k])
    <3>1. Before(f, p[l], p[k]) => rank[p[l]] < rank[p[k]]
      BY <1>3, <2>1
    <3> QED BY <1>12, <2>1, <3>1
  <2>3. f[p[k]] \in Nat /\ f[p[l]] \in Nat
    BY <2>1 DEF D
  <2> QED BY <2>2, <2>3 DEF Before
<1>13. InOrder(f, p)
  BY <1>1, <1>12 DEF InOrder
<1> QED BY <1>10, <1>11, <1>13 DEF Bijection, D

\* qsort permutes the results and puts them in order.
LEMMA OrderSorts ==
    ASSUME NEW n \in Nat, NEW f \in [0 .. n - 1 -> Nat]
    PROVE  Order(f) \in Bijection(0 .. n - 1, 0 .. n - 1) /\ InOrder(f, Order(f))
<1> DEFINE D == 0 .. n - 1
<1>1. DOMAIN f = D
  OBVIOUS
<1>2. ASSUME NEW p \in Bijection(D, D), NEW k \in D, NEW l \in D
      PROVE  comp(f[p[k]], f[p[l]]) <= 0 <=> f[p[k]] <= f[p[l]]
  <2>1. p[k] \in D /\ p[l] \in D
    BY DEF Bijection, Injection
  <2>2. f[p[k]] \in Nat /\ f[p[l]] \in Nat
    BY <2>1
  <2> HIDE DEF D
  <2> QED BY <2>2 DEF comp
<1> HIDE DEF D
<1>3. PICK p \in Bijection(D, D) : InOrder(f, p)
  BY Sortable DEF D
<1>4. \A q \in Bijection(D, D) :
          (\A k, l \in D : k < l => comp(f[q[k]], f[q[l]]) <= 0) <=> InOrder(f, q)
  BY <1>1, <1>2 DEF InOrder
<1>5. Order(f) = CHOOSE q \in Bijection(D, D) :
                    \A k, l \in D : k < l => comp(f[q[k]], f[q[l]]) <= 0
  BY <1>1 DEF Order
<1>6. \E q \in Bijection(D, D) :
          \A k, l \in D : k < l => comp(f[q[k]], f[q[l]]) <= 0
  BY <1>3, <1>4
<1>7. /\ Order(f) \in Bijection(D, D)
      /\ \A k, l \in D : k < l => comp(f[Order(f)[k]], f[Order(f)[l]]) <= 0
  BY <1>5, <1>6, Zenon
<1> QED BY <1>4, <1>7 DEF D

LEMMA FirstPlaces ==
    \A h \in Nat : IsFiniteSet(0 .. h - 1) /\ Cardinality(0 .. h - 1) = h
<1> TAKE h \in Nat
<1>1. PICK l \in Int : l = h - 1
  OBVIOUS
<1>2. IsFiniteSet(0 .. l) /\ Cardinality(0 .. l) = IF 0 > l THEN 0 ELSE l - 0 + 1
  BY FS_Interval
<1>3. (IF 0 > l THEN 0 ELSE l - 0 + 1) = h
  BY <1>1
<1> QED BY <1>1, <1>2, <1>3

\* p permutes the places D of f and puts the values in order.
OrderedBy(D, f, p) ==
    /\ D \subseteq Nat /\ f \in [D -> Nat] /\ p \in [D -> D]
    /\ \A x, y \in D : p[x] = p[y] => x = y
    /\ \A y \in D : \E x \in D : p[x] = y
    /\ \A x, y \in D : x < y => f[p[x]] <= f[p[y]]

\* How many of the values of f are smaller than m, and how many are not larger.
Smaller(D, f, m)   == Cardinality({k \in D : f[k] < m})
NotLarger(D, f, m) == Cardinality({k \in D : f[k] <= m})

\* Of the results in order p, no more than h are smaller than the one at h,
\* and more than h are as small or smaller.
LEMMA PlaceInOrder ==
    ASSUME NEW D, IsFiniteSet(D), NEW f, NEW p, OrderedBy(D, f, p),
           NEW h \in Nat, 0 .. h \subseteq D, NEW m, m = f[p[h]]
    PROVE  Smaller(D, f, m) <= h /\ h < NotLarger(D, f, m)
<1> USE DEF OrderedBy
<1> DEFINE below == {k \in D : f[k] < m}
           notOver == {k \in D : f[k] <= m}
<1>1. h \in D /\ m \in Nat
  <2>1. h \in 0 .. h
    OBVIOUS
  <2> QED BY <2>1
<1>2. ASSUME NEW j \in D
      PROVE  /\ p[j] \in D /\ f[p[j]] \in Nat /\ j \in Nat
             /\ j <= h => f[p[j]] <= m
             /\ j >= h => m <= f[p[j]]
  <2>1. p[j] \in D /\ f[p[j]] \in Nat /\ j \in Nat
    OBVIOUS
  <2>2. /\ j < h => f[p[j]] <= f[p[h]]
        /\ h < j => f[p[h]] <= f[p[j]]
    BY <1>1
  <2>3. j < h \/ j = h \/ h < j
    BY <2>1
  <2>4. j = h => f[p[j]] = m
    OBVIOUS
  <2> QED BY <1>1, <2>1, <2>2, <2>3, <2>4
<1>3. Cardinality(below) <= h
  <2> DEFINE J == 0 .. h - 1
             P == {p[j] : j \in J}
             q == [j \in J |-> p[j]]
  <2>1. q \in Surjection(J, P)
    BY DEF Surjection
  <2>2. IsFiniteSet(J) /\ Cardinality(J) = h
    BY FirstPlaces
  <2>3. IsFiniteSet(P) /\ Cardinality(P) <= h
    <3> HIDE DEF P, q, J
    <3> QED BY <2>1, <2>2, FS_Surjection
  <2>4. ASSUME NEW k \in D, f[k] < m PROVE k \in P
    <3>1. PICK j \in D : p[j] = k
      BY <2>4
    <3>2. /\ f[k] \in Nat /\ j \in Nat
          /\ j >= h => m <= f[k]
      BY <1>2, <3>1
    <3>3. ~(m <= f[k])
      BY <1>1, <2>4, <3>2
    <3>4. j \in J
      BY <3>2, <3>3
    <3> QED BY <3>1, <3>4
  <2>5. below \in SUBSET P
    BY <2>4
  <2>6. Cardinality(below) <= Cardinality(P) /\ IsFiniteSet(below)
    <3> HIDE DEF below, P
    <3> QED BY <2>3, <2>5, FS_Subset
  <2>7. Cardinality(below) \in Nat /\ Cardinality(P) \in Nat
    BY <2>3, <2>6, FS_CardinalityType
  <2> HIDE DEF below, P
  <2> QED BY <2>3, <2>6, <2>7
<1>4. h < Cardinality(notOver)
  <2> DEFINE J == 0 .. h
             q == [j \in J |-> p[j]]
  <2>1. ASSUME NEW j \in J PROVE p[j] \in notOver
    <3>1. j \in D /\ j <= h
      OBVIOUS
    <3> QED BY <1>2, <3>1
  <2>2. q \in Injection(J, notOver)
    <3>1. q \in [J -> notOver]
      <4> HIDE DEF notOver, J
      <4> QED BY <2>1
    <3>2. \A x, y \in J : q[x] = q[y] => x = y
      OBVIOUS
    <3> HIDE DEF notOver, J, q
    <3> QED BY <3>1, <3>2 DEF Injection, IsInjective
  <2>3. IsFiniteSet(notOver)
    <3>1. notOver \in SUBSET D
      OBVIOUS
    <3> HIDE DEF notOver
    <3> QED BY <3>1, FS_Subset
  <2>4. Cardinality(J) <= Cardinality(notOver) /\ Cardinality(notOver) \in Nat
    <3> HIDE DEF notOver, J, q
    <3> QED BY <2>2, <2>3, FS_Injection, FS_CardinalityType
  <2>5. Cardinality(J) = h + 1
    <3>1. Cardinality(0 .. h) = IF 0 > h THEN 0 ELSE h - 0 + 1
      BY FS_Interval
    <3> QED BY <3>1
  <2> HIDE DEF notOver, J
  <2> QED BY <2>4, <2>5
<1> QED BY <1>3, <1>4 DEF Smaller, NotLarger

\* The value in the middle of the sorted results is their median.
LEMMA MiddleOfSorted ==
    ASSUME NEW n \in Nat \ {0}, NEW f \in [0 .. n - 1 -> Nat]
    PROVE  LET m == Sorted(f)[n \div 2]
           IN  /\ Cardinality({k \in DOMAIN f : f[k] < m}) <= n \div 2
               /\ n \div 2 < Cardinality({k \in DOMAIN f : f[k] <= m})
<1>1. PICK h \in Nat : h = n \div 2
  OBVIOUS
<1>2. PICK D : D = 0 .. n - 1
  OBVIOUS
<1>3. /\ h <= n - 1 /\ h \in D /\ 0 .. h \subseteq D /\ D \subseteq Nat
      /\ DOMAIN f = D /\ f \in [D -> Nat]
  BY <1>1, <1>2
<1>4. IsFiniteSet(D)
  BY <1>2, FS_Interval
<1>5. PICK p : p = Order(f)
  OBVIOUS
<1>6. p \in Bijection(D, D) /\ InOrder(f, p)
  BY <1>2, <1>5, OrderSorts
<1>7. /\ p \in [D -> D] /\ DOMAIN p = D
      /\ \A x, y \in D : p[x] = p[y] => x = y
      /\ \A y \in D : \E x \in D : p[x] = y
  BY <1>6, Zenon DEF Bijection, Injection, Surjection, IsInjective
<1>8. \A x, y \in D : x < y => f[p[x]] <= f[p[y]]
  BY <1>3, <1>6 DEF InOrder
<1>9. Sorted(f)[h] = f[p[h]]
  BY <1>3, <1>5 DEF Sorted
<1>10. PICK m : m = f[p[h]]
  OBVIOUS
<1>11. Smaller(D, f, m) <= h /\ h < NotLarger(D, f, m)
  <2>1. OrderedBy(D, f, p)
    BY <1>3, <1>7, <1>8 DEF OrderedBy
  <2> QED BY <1>1, <1>3, <1>4, <1>10, <2>1, PlaceInOrder
<1> QED BY <1>1, <1>3, <1>9, <1>10, <1>11 DEF Smaller, NotLarger

\* The median reported stands in the middle of the results, for any number of
\* laps and any results, ties included.
THEOREM MedianIsRight == Spec => []MedianRight
<1>1. Inv => MedianRight
  <2>1. SUFFICES ASSUME Inv, pc = "done", ~Chase, Measured, cfg.op_iter > 0
                 PROVE  /\ Cardinality({k \in DOMAIN result_buff :
                                          result_buff[k] < median})
                               <= cfg.op_iter \div 2
                        /\ cfg.op_iter \div 2
                               < Cardinality({k \in DOMAIN result_buff :
                                                result_buff[k] <= median})
    BY DEF MedianRight
  <2>2. cfg.op_iter \in Nat \ {0}
    BY <2>1, CfgTypes DEF Inv, TypeOK
  <2>3. /\ result_buff \in [0 .. cfg.op_iter - 1 -> Nat]
        /\ median = Sorted(result_buff)[cfg.op_iter \div 2]
    BY <2>1 DEF Inv, BufferInv, Middle
  <2> QED BY <2>2, <2>3, MiddleOfSorted
<1> QED
  BY <1>1, Invariance, PTL
=============================================================================
