------------------------------ MODULE MemoLats ------------------------------
(***************************************************************************)
(* A latency test of one thread: lats_clflush_wrapper, block_lats_wrapper  *)
(* and lats_chase_wrapper down to the flush, nop and access sequences of   *)
(* the op_*_lat() routines, the linked list, and the statistics.  The unit *)
(* is the cache line; lines are counted from buf_a.  What is in the cache  *)
(* is what this thread has accessed since it was flushed: the prefetchers  *)
(* are off, which set_prefetching does (module MemoRun).                   *)
(***************************************************************************)
EXTENDS Integers, FiniteSets, Functions

CONSTANTS
    NumThread,   \* cfg->num_thread
    Configs,     \* the command lines of a run
    Cycles,      \* what a measurement may take, in cycles
    Garbage      \* what an uninitialised variable may hold

BLOCK_xN    == 16
BLOCK_LINES == 1024    \* 0x10000 bytes

Types == {"LATS_CLFLUSH", "LATS_CHASE", "BLOCK_LATS"}
Ops   == {"READ", "READ_NT", "WRITE", "WRITE_NT", "MOV", "MIXED"}
\* total_buf_size and per_thread_size are in lines.
Config == [type: Types, op: Ops, op_iter: Nat, total_buf_size: Nat \ {0},
           per_thread_size: Nat, random: BOOLEAN, flush_block: BOOLEAN,
           num_clear_pipe: Nat]

ASSUME NumThreadAssumption == NumThread \in Nat \ {0}
ASSUME ConfigsAssumption   == Configs \subseteq Config
ASSUME ValuesAssumption    == Cycles \subseteq Nat /\ Garbage \subseteq Nat

VARIABLES
    cfg, thread_idx, pc,
    i,                  \* laps done
    start,              \* the line measured, or the first line of the block
    r10, r11,           \* loop counter; place in the linked list
    ptr_arr,            \* init_ptr_buf: the next block of each, from the first
    num_chase_block,
    result, latency_sum, min, max, result_buff,
    avg_cycle, median,  \* what is reported
    cached,             \* history: lines the cache may hold
    visited,            \* history: blocks this lap of the chase has loaded
    measured            \* history: the results that count

chaseVars  == <<r11, ptr_arr, num_chase_block, visited>>
statVars   == <<latency_sum, min, max, result_buff, measured>>
reportVars == <<avg_cycle, median>>
vars == <<cfg, thread_idx, pc, i, start, r10, chaseVars, result, statVars,
          reportVars, cached>>

Chase == cfg.type = "LATS_CHASE"

\* Of the first thread the buffer's first line (README.md:67 asks for one).
StartAddrA == thread_idx * cfg.per_thread_size

\* The chase adds a lap for warming up.
Laps == IF Chase THEN cfg.op_iter + 1 ELSE cfg.op_iter

Init ==
    /\ cfg \in Configs /\ thread_idx \in 0 .. NumThread - 1
    /\ pc = "start" /\ i = 0 /\ start = StartAddrA /\ r10 = 0 /\ r11 = 0
    /\ ptr_arr = <<>> /\ num_chase_block \in Garbage
    /\ result \in Garbage /\ min \in Garbage /\ max \in Garbage
    /\ latency_sum = 0 /\ result_buff = <<>>
    /\ avg_cycle = 0 /\ median = 0
    /\ cached = {} /\ visited = {} /\ measured = {}

----------------------------------------------------------------------------
(* The linked list. *)

Blocks == 0 .. cfg.total_buf_size - 1

\* Mutant: the last block points to itself.
NextBlockSelf(b) == IF b = cfg.total_buf_size - 1 THEN b ELSE b + 1
\* The block b points to: the last one to the first.
NextBlock(b) == IF b = cfg.total_buf_size - 1 THEN 0 ELSE b + 1

\* init_ptr_buf builds the list, and counts its blocks unless it has left the
\* building to init_ptr_buf_random, which builds the same list.
init_ptr_buf ==
    /\ ptr_arr' = [b \in Blocks |-> NextBlock(b)]
    /\ num_chase_block' = IF cfg.random THEN num_chase_block
                                        ELSE cfg.total_buf_size

EnterChase ==
    /\ pc = "start" /\ Chase /\ pc' = "lap"
    /\ init_ptr_buf
    /\ UNCHANGED <<cfg, thread_idx, i, start, r10, r11, visited, result,
                   statVars, reportVars, cached>>

\* op_ptr_chase: load the next pointer, as often as there are blocks.
ChaseStep ==
    /\ pc = "chase"
    /\ r11' = ptr_arr[r11] /\ r10' = r10 + 1
    /\ visited' = visited \union {r11}
    /\ pc' = IF r10 + 1 < num_chase_block THEN "chase" ELSE "time"
    /\ UNCHANGED <<cfg, thread_idx, i, start, ptr_arr, num_chase_block, result,
                   statVars, reportVars, cached>>

----------------------------------------------------------------------------
(* Single operations and blocks: the lines a routine flushes before it takes *)
(* the time, those it accesses while it does, and those it leaves cached.    *)

FLUSH_CACHE_LINE(rsi) == {rsi, rsi + 1, rsi + 2, rsi + 3}

op_ld_64B_lat(a) ==
    [flush |-> FLUSH_CACHE_LINE(a), access |-> {a}, keep |-> {a}]
op_ntld_64B_lat(a) ==
    [flush |-> FLUSH_CACHE_LINE(a), access |-> {a}, keep |-> {a}]
op_st_cl_flush_64B_lat(a) ==
    [flush |-> {}, access |-> {a}, keep |-> {a}]
op_ntst_64B_lat(a) ==
    [flush |-> FLUSH_CACHE_LINE(a), access |-> {a}, keep |-> {}]

\* The displacements of the *_xN_RAND_AVX512 macros.
LD_x16_RAND   == {85, 102, 205, 216, 322, 341, 362, 413,
                  440, 505, 666, 680, 780, 872, 876, 887}
NTLD_x16_RAND == {12, 437, 520, 549, 573, 657, 679, 747,
                  801, 805, 825, 900, 924, 934, 966, 971}
STWB_x16_RAND == {7, 71, 163, 243, 254, 306, 369, 431,
                  704, 714, 802, 856, 885, 920, 948, 981}
NTST_x16_RAND == {9, 66, 138, 163, 179, 196, 204, 218,
                  259, 261, 440, 529, 535, 740, 945, 958}

At(a, offsets) == {a + o : o \in offsets}

\* Mutant: the loop ends at half the block.
FlushLoopHalf(a) == a .. a + BLOCK_LINES \div 2 - 1
\* The clflush loop of the block routines, passed over without -B.
FlushLoop(a) == a .. a + BLOCK_LINES - 1
FlushBlock(a) == IF cfg.flush_block THEN FlushLoop(a) ELSE {}

op_ld_block_lat(a) ==
    [flush |-> FlushBlock(a), access |-> At(a, LD_x16_RAND),
     keep |-> At(a, LD_x16_RAND)]
op_ntld_block_lat(a) ==
    [flush |-> FlushBlock(a), access |-> At(a, NTLD_x16_RAND),
     keep |-> At(a, NTLD_x16_RAND)]
op_stwb_block_lat(a) ==
    [flush |-> FlushBlock(a), access |-> At(a, STWB_x16_RAND),
     keep |-> At(a, STWB_x16_RAND)]
op_ntst_block_lat(a) ==
    [flush |-> FlushBlock(a), access |-> At(a, NTST_x16_RAND), keep |-> {}]

Measurable == {"READ", "READ_NT", "WRITE", "WRITE_NT"}

SingleOp ==
    CASE cfg.op = "READ"     -> op_ld_64B_lat(start)
      [] cfg.op = "READ_NT"  -> op_ntld_64B_lat(start)
      [] cfg.op = "WRITE"    -> op_st_cl_flush_64B_lat(start)
      [] cfg.op = "WRITE_NT" -> op_ntst_64B_lat(start)

BlockOp ==
    CASE cfg.op = "READ"     -> op_ld_block_lat(start)
      [] cfg.op = "READ_NT"  -> op_ntld_block_lat(start)
      [] cfg.op = "WRITE"    -> op_stwb_block_lat(start)
      [] cfg.op = "WRITE_NT" -> op_ntst_block_lat(start)

Op == IF cfg.type = "BLOCK_LATS" THEN BlockOp ELSE SingleOp

\* malloc of result_buff, whose contents are indeterminate, and
\* flush_all_cache, which goes through a buffer larger than the cache twice.
EnterFlushed ==
    /\ pc = "start" /\ ~Chase
    /\ pc' = IF cfg.type = "LATS_CLFLUSH" /\ cfg.op \notin Measurable
             THEN "report" ELSE "lap"
    /\ result_buff' \in [0 .. cfg.op_iter - 1 -> Garbage]
    /\ cached' = {}
    /\ UNCHANGED <<cfg, thread_idx, i, start, r10, chaseVars, result,
                   latency_sum, min, max, measured, reportVars>>

\* Mutant: the offset of a block is not rounded down.
OffsetsUnmasked == Blocks
\* rand() % total_buf_size, which the op_*_64B_lat() routines round down to a
\* line and block_lats_wrapper to 64 KB.
Offsets == IF cfg.type = "BLOCK_LATS"
           THEN {x - (x % BLOCK_LINES) : x \in Blocks} ELSE Blocks

BeginLap ==
    /\ pc = "lap" /\ i < Laps
    /\ IF cfg.type = "BLOCK_LATS" /\ cfg.op \notin Measurable
       THEN pc' = "done" /\ UNCHANGED <<start, r10, r11, visited>>
       ELSE /\ pc' = IF Chase THEN "chase" ELSE "flush"
            /\ start' \in IF Chase THEN {StartAddrA}
                          ELSE {StartAddrA + offset : offset \in Offsets}
            /\ r10' = 0 /\ r11' = 0 /\ visited' = {}
    /\ UNCHANGED <<cfg, thread_idx, i, ptr_arr, num_chase_block, result,
                   statVars, reportVars, cached>>

EndLaps ==
    /\ pc = "lap" /\ i >= Laps /\ pc' = "report"
    /\ UNCHANGED <<cfg, thread_idx, i, start, r10, chaseVars, result, statVars,
                   reportVars, cached>>

AfterFlush == 0

Flush ==
    /\ pc = "flush" /\ pc' = "clear"
    /\ cached' = cached \ Op.flush
    /\ r10' = AfterFlush
    /\ UNCHANGED <<cfg, thread_idx, i, start, chaseVars, result, statVars,
                   reportVars>>

\* num_clear_pipe times a long row of nop instructions; one row if any for a
\* single operation.
PipeLoop == IF cfg.type = "BLOCK_LATS" THEN cfg.num_clear_pipe ELSE 0

ClearPipe ==
    /\ pc = "clear"
    /\ IF r10 = PipeLoop THEN pc' = "time" /\ UNCHANGED r10
                         ELSE r10' = r10 + 1 /\ UNCHANGED pc
    /\ UNCHANGED <<cfg, thread_idx, i, start, chaseVars, result, statVars,
                   reportVars, cached>>

----------------------------------------------------------------------------
(* Taking the time, and the statistics. *)

Time ==
    /\ pc = "time" /\ pc' = "count"
    /\ result' \in Cycles
    /\ cached' = IF Chase THEN cached ELSE cached \union Op.keep
    /\ UNCHANGED <<cfg, thread_idx, i, start, r10, chaseVars, statVars,
                   reportVars>>

\* Mutant: the lap for warming up counts.
CountsWarmUp == TRUE
Counts == ~Chase \/ i >= 1
\* The lap that sets the minimum and maximum.
FirstCounted == IF Chase THEN i = 1 ELSE i = 0

\* Mutant: the first result is compared with what the variables held.
LeastAlways == IF result < min THEN result ELSE min
Least    == IF FirstCounted \/ result < min THEN result ELSE min
Greatest == IF FirstCounted \/ result > max THEN result ELSE max
\* The comparisons of lats_chase_wrapper are the other way round.
ChaseMin == IF FirstCounted \/ min < result THEN result ELSE min
ChaseMax == IF FirstCounted \/ max > result THEN result ELSE max

\* What goes to result_buff: for a block the share of one access.
Share == IF cfg.type = "BLOCK_LATS" THEN result \div BLOCK_xN ELSE result

Count ==
    /\ pc = "count" /\ pc' = "lap" /\ i' = i + 1
    /\ latency_sum' = IF Counts THEN latency_sum + result ELSE latency_sum
    /\ min' = IF Chase THEN ChaseMin ELSE Least
    /\ max' = IF Chase THEN ChaseMax ELSE Greatest
    /\ result_buff' = IF Chase THEN result_buff
                               ELSE [result_buff EXCEPT ![i] = Share]
    /\ measured' = IF Chase /\ i = 0 THEN measured ELSE measured \union {result}
    /\ UNCHANGED <<cfg, thread_idx, start, r10, chaseVars, result, reportVars,
                   cached>>

\* print_lats; the chase has no median.
PrintLats ==
    /\ pc = "report"
    /\ IF cfg.op_iter = 0
       THEN pc' = "sigfpe" /\ UNCHANGED avg_cycle
       ELSE /\ pc' = IF Chase THEN "done" ELSE "median"
            /\ avg_cycle' = latency_sum \div cfg.op_iter
    /\ UNCHANGED <<cfg, thread_idx, i, start, r10, chaseVars, result, statVars,
                   median, cached>>

comp(elem1, elem2) == IF elem1 > elem2 THEN 1 ELSE IF elem1 < elem2 THEN -1 ELSE 0

\* qsort: a permutation of the results that puts them in the order of comp.
Order(f) == CHOOSE p \in Bijection(DOMAIN f, DOMAIN f) :
                \A k, l \in DOMAIN f : k < l => comp(f[p[k]], f[p[l]]) <= 0
Sorted(f) == [k \in DOMAIN f |-> f[Order(f)[k]]]

\* Mutant: the results are not sorted.
MiddleUnsorted == result_buff[cfg.op_iter \div 2]
Middle == Sorted(result_buff)[cfg.op_iter \div 2]

PrintMedian ==
    /\ pc = "median" /\ pc' = "done"
    /\ median' = Middle
    /\ UNCHANGED <<cfg, thread_idx, i, start, r10, chaseVars, result, statVars,
                   avg_cycle, cached>>

Next ==
    \/ EnterChase \/ EnterFlushed \/ BeginLap \/ EndLaps
    \/ ChaseStep \/ Flush \/ ClearPipe \/ Time \/ Count
    \/ PrintLats \/ PrintMedian

Spec == Init /\ [][Next]_vars

----------------------------------------------------------------------------
(* Properties. *)

Points == {"start", "lap", "chase", "flush", "clear", "time", "count",
           "report", "median", "done", "sigfpe"}

TypeOK ==
    /\ cfg \in Configs /\ thread_idx \in 0 .. NumThread - 1 /\ pc \in Points
    /\ i \in Nat /\ start \in Nat /\ r10 \in Nat /\ num_chase_block \in Nat
    /\ result \in Nat /\ latency_sum \in Nat /\ min \in Nat /\ max \in Nat
    /\ avg_cycle \in Nat /\ measured \subseteq Nat

Measured == Chase \/ cfg.op \in Measurable
Reported == pc \in {"median", "done"} /\ Measured
InCall   == pc \in {"flush", "clear", "time"} /\ ~Chase

\* The variable with the smallest and the one with the largest result.
Lo == IF Chase THEN max ELSE min
Hi == IF Chase THEN min ELSE max

\* The lines that the first thread times belong to buf_a, whatever rand()
\* returns, as far as the buffer is made of whole 64 KB blocks when it is used by
\* blocks; what is flushed for a single operation passes its end by at most
\* three lines.
InBuffer ==
    /\ InCall /\ thread_idx = 0
    /\ cfg.type = "BLOCK_LATS" => cfg.total_buf_size % BLOCK_LINES = 0
    => Op.access \subseteq Blocks /\ Op.flush \subseteq 0 .. cfg.total_buf_size + 2

\* README.md:82, "decides whether the 64KB region to be access will be flushed",
\* and test.c:428-432: nothing that is timed is in the cache from an earlier lap.
\* The exception is -T 0 -o 2, whose routine does not flush.
ColdStart ==
    /\ pc = "time" /\ ~Chase
    /\ IF cfg.type = "BLOCK_LATS" THEN cfg.flush_block ELSE cfg.op # "WRITE"
    => Op.access \intersect cached = {}

\* README.md:74, "each iteration is chasing through all cachelines in the
\* specified buffer size": a lap loads from each block and comes back to the
\* first, except with -r, where the number of blocks is not set.
ChaseVisitsAll ==
    pc = "time" /\ Chase /\ ~cfg.random => visited = Blocks /\ r11 = 0

\* min and max are the extremes of the results that count, whatever they held
\* before the first, the warm-up lap excluded; in the chase they are swapped.
Extremes ==
    measured # {} =>
        /\ Lo \in measured /\ Hi \in measured
        /\ \A v \in measured : Lo <= v /\ v <= Hi

\* The average reported lies between the extremes reported.
AverageBetween ==
    Reported /\ cfg.op_iter > 0 => Lo <= avg_cycle /\ avg_cycle <= Hi

\* The median reported has no more than half of the results below it and more
\* than half at or below it.
MedianRight ==
    pc = "done" /\ ~Chase /\ Measured /\ cfg.op_iter > 0 =>
        LET below   == {k \in DOMAIN result_buff : result_buff[k] < median}
            notOver == {k \in DOMAIN result_buff : result_buff[k] <= median}
            middle  == cfg.op_iter \div 2
        IN  Cardinality(below) <= middle /\ middle < Cardinality(notOver)

\* test.c:221 prints max as "Max latency" and min as "Min latency".
MaxIsMax == Reported /\ cfg.op_iter > 0 => min <= max

----------------------------------------------------------------------------
(* What makes them hold. *)

\* Results that count so far.
Counted == IF ~Chase THEN i ELSE IF i = 0 THEN 0 ELSE i - 1

LapInv ==
    /\ i <= Laps
    /\ pc \in {"chase", "flush", "clear", "time", "count"} => i < Laps /\ Measured
    /\ pc = "lap" => Measured \/ cfg.type = "BLOCK_LATS"
    /\ pc \in {"chase", "flush", "clear"} => (pc = "chase" <=> Chase)
    /\ (pc = "report" \/ pc = "median" \/ pc = "done") /\ Measured => i = Laps
    /\ pc = "median" => ~Chase /\ cfg.op_iter > 0

StartInv == InCall => \E offset \in Offsets : start = StartAddrA + offset

FlushedInv ==
    /\ pc \in {"clear", "time"} /\ ~Chase => cached \intersect Op.flush = {}
    /\ pc = "clear" => r10 <= PipeLoop

ChaseInv ==
    Chase /\ ~cfg.random =>
        /\ pc # "start" => /\ num_chase_block = cfg.total_buf_size
                           /\ ptr_arr = [b \in Blocks |-> NextBlock(b)]
        /\ pc = "chase" => /\ r10 < cfg.total_buf_size /\ r11 = r10
                           /\ visited = 0 .. r10 - 1
        /\ pc = "time" => visited = Blocks /\ r11 = 0

SumInv ==
    /\ Counted = 0 => latency_sum = 0 /\ measured = {}
    /\ Counted > 0 => /\ measured # {}
                      /\ Lo * Counted <= latency_sum
                      /\ latency_sum <= Hi * Counted
    /\ Extremes
    /\ pc \in {"median", "done"} /\ Measured /\ cfg.op_iter > 0 =>
           avg_cycle = latency_sum \div cfg.op_iter

\* There is a number for every lap in the buffer that is sorted, and what is
\* reported as the median is the one in the middle.
BufferInv ==
    ~Chase /\ pc # "start" =>
        /\ result_buff \in [0 .. cfg.op_iter - 1 -> Nat]
        /\ pc = "done" /\ Measured /\ cfg.op_iter > 0 => median = Middle

Inv == /\ TypeOK /\ LapInv /\ StartInv /\ FlushedInv /\ ChaseInv
       /\ SumInv /\ BufferInv
=============================================================================
