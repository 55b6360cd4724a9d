------------------------------ MODULE MemoWalk ------------------------------
(***************************************************************************)
(* The walk of one bandwidth thread (bw_wrapper) through its slice of the  *)
(* buffers, down to the 1024-byte blocks of the op_*() routines.  The unit *)
(* is the cache line of 64 bytes: counter, steps and sizes are multiples   *)
(* of it, as is per_thread_size by assumption.  The other threads matter   *)
(* through halt and through y and z of xorshf96 only, which they write     *)
(* without a lock: halt may be up at any test, a random word be any.       *)
(***************************************************************************)
EXTENDS Integers

CONSTANTS
    NumThread,   \* cfg->num_thread
    Configs,     \* the command lines of a run, with per_thread_size
    WORD_BITS,   \* bits of a word that addresses lines: 58 of uint64_t
    MaxOps       \* bound: operations before the thread is halted

MIN_GRANULARITY == 8     \* 512 bytes
BLOCK           == 16    \* what a SIZE*_1024 macro accesses
BoundShift      == 64    \* step_bound_mask: align_mask << 6

Ops    == {"READ", "READ_NT", "WRITE", "WRITE_NT", "MOV", "MIXED"}
Config == [op: Ops, bw_granu: Int, random: BOOLEAN, read_ratio: Nat,
           stall_ratio: Nat, per_thread_size: Nat]

ASSUME NumThreadAssumption == NumThread \in Nat \ {0}
ASSUME ConfigsAssumption   == Configs \subseteq Config
ASSUME BoundsAssumption    == WORD_BITS \in Nat /\ MaxOps \in Nat

VARIABLES
    cfg, thread_idx,
    pc,              \* where the thread is, or "exit1"
    counter,         \* lines from the start of the slice
    src, dst,        \* line numbers in buf_a and buf_b
    r10,             \* op_*(): lines of this operation done
    curr_op_cnt,
    mixed_switch, stall_cnt,
    touched,         \* history: lines accessed
    loads, stores    \* history: operations that loaded, that stored

addressVars == <<counter, src, dst>>
historyVars == <<touched, loads, stores>>
vars == <<cfg, thread_idx, pc, addressVars, r10, curr_op_cnt, mixed_switch,
          stall_cnt, historyVars>>

fixed_step == cfg.bw_granu

\* start_addr_a and start_addr_b: slice number thread_idx of either buffer.
SliceStart == thread_idx * cfg.per_thread_size

Init ==
    /\ cfg \in Configs /\ thread_idx \in 0 .. NumThread - 1
    /\ pc = "loop" /\ counter = 0 /\ src = SliceStart /\ dst = SliceStart
    /\ r10 = 0 /\ curr_op_cnt = 0 /\ mixed_switch = 0 /\ stall_cnt = 0
    /\ touched = 0 /\ loads = 0 /\ stores = 0

----------------------------------------------------------------------------
(* The end of the slice. *)

\* Mutant: the operation that ends with the slice counts as past it.
PastEndEarly == counter + fixed_step >= cfg.per_thread_size
\* Mutant: the operation that would leave the slice is not seen to.
PastEndLate == counter > cfg.per_thread_size
PastEnd == counter + fixed_step > cfg.per_thread_size

Wrap ==
    /\ pc = "loop" /\ pc' = "op"
    /\ IF PastEnd
       THEN counter' = 0 /\ src' = SliceStart /\ dst' = SliceStart
       ELSE UNCHANGED addressVars
    /\ UNCHANGED <<cfg, thread_idx, r10, curr_op_cnt, mixed_switch, stall_cnt,
                   historyVars>>

----------------------------------------------------------------------------
(* One operation, by one of the op_*() routines. *)

\* The mixed operation loads read_ratio times and then stores.
Storing == \/ cfg.op \in {"WRITE", "WRITE_NT", "MOV"}
           \/ cfg.op = "MIXED" /\ mixed_switch = cfg.read_ratio

\* What is left of the size after rounding it down.
RoundedSize == fixed_step - (fixed_step % MIN_GRANULARITY)

\* Each routine refuses a size below MIN_GRANULARITY and ends the process.
BeginOp ==
    /\ pc = "op"
    /\ pc' = IF fixed_step < MIN_GRANULARITY THEN "exit1" ELSE "block"
    /\ r10' = 0
    /\ UNCHANGED <<cfg, thread_idx, addressVars, curr_op_cnt, mixed_switch,
                   stall_cnt, historyVars>>

\* What a turn of its loop accesses: BLOCK lines in ascending order from r9
\* and, where movdir64b stores them, from r12, which goes along with r10.
Lines(addr) == addr + r10 .. addr + r10 + BLOCK - 1

SIZENTLD_1024(r9)     == [reads |-> Lines(r9), writes |-> {}]
SIZELD_1024(r9)       == [reads |-> Lines(r9), writes |-> {}]
SIZENTST_1024(r9)     == [reads |-> {}, writes |-> Lines(r9)]
SIZEST_1024(r9)       == [reads |-> {}, writes |-> Lines(r9)]
SIZEMOV_1024(r9, r12) == [reads |-> Lines(r9), writes |-> Lines(r12)]

op_ntld(addr)      == SIZENTLD_1024(addr)
op_ld(addr)        == SIZELD_1024(addr)
op_ntst(addr)      == SIZENTST_1024(addr)
op_st(addr)        == SIZEST_1024(addr)
op_movdir64B(s, d) == SIZEMOV_1024(s, d)

\* The accesses of the coming turn.
Turn ==
    CASE cfg.op = "READ"     -> op_ld(src)
      [] cfg.op = "READ_NT"  -> op_ntld(src)
      [] cfg.op = "WRITE"    -> op_st(src)
      [] cfg.op = "WRITE_NT" -> op_ntst(src)
      [] cfg.op = "MOV"      -> op_movdir64B(src, dst)
      [] cfg.op = "MIXED"    -> IF Storing THEN op_st(src) ELSE op_ld(src)

\* Mutant: the loop goes on at the size (jle for jl).
MoreBlocksAtSize(done) == done <= RoundedSize
MoreBlocks(done) == done < RoundedSize

\* One turn of the loop.
Block ==
    /\ pc = "block"
    /\ r10' = r10 + BLOCK
    /\ pc' = IF MoreBlocks(r10 + BLOCK) THEN "block" ELSE "count"
    /\ touched' = touched + BLOCK
    /\ UNCHANGED <<cfg, thread_idx, addressVars, curr_op_cnt, mixed_switch,
                   stall_cnt, loads, stores>>

----------------------------------------------------------------------------
(* Counting and stepping. *)

Bit(n, i) == (n \div 2^i) % 2

\* The bits left by align_mask, ~(fixed_step - 1), and by step_bound_mask,
\* ~(align_mask << 6).
AlignMask(g)     == {i \in 0 .. WORD_BITS - 1 : Bit(g - 1, i) = 0}
StepBoundMask(g) == {i \in 0 .. WORD_BITS - 1 : Bit(BoundShift * g - 1, i) = 1}

\* xorshf96: x is the thread's own, y and z are read and written by all threads
\* at once: any bit of the word returned may be set, whatever the others are.
RandomBits == 0 .. WORD_BITS - 1

\* The numbers whose bits are among `bits'.
WithBits(g, bits) ==
    {s \in 0 .. BoundShift * g - 1 :
        \A i \in 0 .. WORD_BITS - 1 : Bit(s, i) = 1 => i \in bits}

\* Mutant: the step is bounded but not aligned.
RandomStepsUnaligned(g) == WithBits(g, StepBoundMask(g))
\* The steps that masking leaves of a random word.
RandomSteps(g) ==
    WithBits(g, RandomBits \intersect AlignMask(g) \intersect StepBoundMask(g))

Granularities == {c.bw_granu : c \in {c \in Configs : c.bw_granu > 0}}
StepTable == [g \in Granularities |-> RandomSteps(g)]
Steps == IF cfg.random THEN StepTable[fixed_step] ELSE {fixed_step}

\* mixed_switch after an operation of op 5.
NextSwitch == IF mixed_switch = cfg.read_ratio THEN 0 ELSE mixed_switch + 1

\* Mutant: dst is not stepped.
SteppedSourceOnly(step) == src' = src + step /\ UNCHANGED dst
Stepped(step) == src' = src + step /\ dst' = dst + step

CountAndStep ==
    /\ pc = "count" /\ pc' = "stall"
    /\ curr_op_cnt' = curr_op_cnt + fixed_step
    /\ r10' = 0
    /\ mixed_switch' = IF cfg.op = "MIXED" THEN NextSwitch ELSE mixed_switch
    /\ IF Storing THEN stores' = stores + 1 /\ UNCHANGED loads
                  ELSE loads' = loads + 1 /\ UNCHANGED stores
    /\ \E step \in Steps : counter' = counter + step /\ Stepped(step)
    /\ stall_cnt' = 0
    /\ UNCHANGED <<cfg, thread_idx, touched>>

----------------------------------------------------------------------------
(* Stalling, and the test of halt. *)

Stall ==
    /\ pc = "stall" /\ stall_cnt < cfg.stall_ratio
    /\ stall_cnt' = stall_cnt + 1
    /\ UNCHANGED <<cfg, thread_idx, pc, addressVars, r10, curr_op_cnt,
                   mixed_switch, historyVars>>

TestHalt ==
    /\ pc = "stall" /\ stall_cnt >= cfg.stall_ratio
    /\ \/ pc' = "done"
       \/ pc' = "loop" /\ loads + stores < MaxOps
    /\ UNCHANGED <<cfg, thread_idx, addressVars, r10, curr_op_cnt,
                   mixed_switch, stall_cnt, historyVars>>

Next == Wrap \/ BeginOp \/ Block \/ CountAndStep \/ Stall \/ TestHalt

Spec == Init /\ [][Next]_vars

----------------------------------------------------------------------------
(* Properties. *)

Points == {"loop", "op", "block", "count", "stall", "done", "exit1"}

TypeOK ==
    /\ cfg \in Configs /\ thread_idx \in 0 .. NumThread - 1
    /\ pc \in Points
    /\ counter \in Nat /\ src \in Nat /\ dst \in Nat /\ r10 \in Nat
    /\ curr_op_cnt \in Nat /\ touched \in Nat /\ loads \in Nat /\ stores \in Nat
    /\ mixed_switch \in 0 .. cfg.read_ratio
    /\ stall_cnt \in 0 .. cfg.stall_ratio

\* How far an operation may pass the end of the slice: sizes are rounded down
\* to half a block and done in whole ones.
Spill == IF fixed_step % BLOCK < MIN_GRANULARITY THEN 0 ELSE MIN_GRANULARITY

Slice == SliceStart .. SliceStart + cfg.per_thread_size + Spill - 1

\* However the walk steps, and whether or not the step divides the slice, the
\* lines it loads, stores or moves belong to the thread's own slice, as long as
\* the granularity is no larger than that; they pass its end by at most 512
\* bytes, and only when the granularity leaves a remainder of that many
\* (test.c:572 against the loops of workload.c).
InSlice ==
    pc = "block" /\ fixed_step <= cfg.per_thread_size =>
        Turn.reads \union Turn.writes \subseteq Slice

\* Threads keep out of each other's lines: what a thread accesses of another's
\* slice is at most the first 512 bytes of the next one's, and nothing at all when
\* the granularity is one of whole blocks.
SliceOf(t) == {x \in Nat : t * cfg.per_thread_size <= x
                             /\ x < (t + 1) * cfg.per_thread_size}
KeepsApart ==
    pc = "block" /\ fixed_step <= cfg.per_thread_size =>
        \A t \in 0 .. NumThread - 1 : \A x \in Turn.reads \union Turn.writes :
            t # thread_idx /\ x \in SliceOf(t) =>
                t = thread_idx + 1 /\ x < t * cfg.per_thread_size + Spill

\* The bytes bw_wrapper counts, from which get_bw computes the bandwidth, are
\* those the op_*() routine has accessed, for a granularity of whole blocks.
CountedAsTouched ==
    pc # "exit1" /\ fixed_step % BLOCK = 0 => touched = curr_op_cnt + r10

\* The mixed operation keeps to its ratio at every moment, not only over time:
\* read_ratio loads for each store and what has been loaded towards the next.
MixedRatio ==
    cfg.op = "MIXED" => loads = cfg.read_ratio * stores + mixed_switch

PowerOfTwo(n) == \E i \in 0 .. WORD_BITS - 1 : n = 2^i

\* test.c:533, "random steps will be aligned by fixed steps": true of the
\* granularities that are powers of two, whose blocks thus never overlap in
\* part, and of sequential stepping at any.
WalkAligned ==
    fixed_step > 0 /\ (~cfg.random \/ PowerOfTwo(fixed_step)) =>
        counter % fixed_step = 0

\* A sequential walk visits every block that fits the slice once per pass, in
\* order.
WalkInOrder ==
    pc = "block" /\ ~cfg.random /\ fixed_step <= cfg.per_thread_size =>
        counter = fixed_step
                    * ((loads + stores) % (cfg.per_thread_size \div fixed_step))

----------------------------------------------------------------------------
(* What makes them hold. *)

\* The two pointers and the counter are at one place of the slice.
OffsetInv == src = SliceStart + counter /\ dst = SliceStart + counter

\* Past the test for the end of the slice the step fits.
FitInv ==
    pc \in {"op", "block"} /\ fixed_step <= cfg.per_thread_size =>
        counter + fixed_step <= cfg.per_thread_size

\* The loop of the operation goes by whole blocks up to its size.
BlockInv ==
    /\ pc \in {"block", "count"} => fixed_step >= MIN_GRANULARITY
    /\ r10 % BLOCK = 0
    /\ pc = "block" => r10 < RoundedSize
    /\ pc = "count" => r10 >= RoundedSize /\ r10 < RoundedSize + BLOCK
    /\ pc \notin {"block", "count"} => r10 = 0

\* A sequential walk is as many steps into its pass as operations were done since
\* the last pass of OpsPerPass ended; a pass ends only when the next begins.
OpsPerPass == cfg.per_thread_size \div fixed_step
Lap ==
    LET done == loads + stores
    IN  IF pc \in {"op", "block", "count", "exit1"} THEN done % OpsPerPass
        ELSE IF done = 0 THEN 0
        ELSE ((done - 1) % OpsPerPass) + 1
LapInv ==
    ~cfg.random /\ fixed_step \in 1 .. cfg.per_thread_size =>
        counter = fixed_step * Lap

Inv == /\ TypeOK /\ OffsetInv /\ FitInv /\ BlockInv /\ CountedAsTouched
       /\ MixedRatio /\ WalkAligned /\ LapInv
=============================================================================
