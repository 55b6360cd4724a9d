----------------------------- MODULE MCMemoRun -----------------------------
(* Instances of MemoRun for TLC. *)
EXTENDS MemoRun

\* The defaults of set_default_cfg, with a type and an operation.
Plain(type, op, iter) ==
    [type |-> type, op |-> op, op_iter |-> iter, bw_granu |-> 512,
     prefetch_en |-> FALSE, starting_core |-> 0, core_a |-> -1, core_b |-> -1]

\* Where the threads go: -p 0, -p 2 (thread 1 falls off the machine),
\* no -p, -a 0 -b 1, and -a 2 -b 1, which puts both threads on core 2.
Placed(c) ==
    {c, [c EXCEPT !.starting_core = 2], [c EXCEPT !.starting_core = -1],
     [c EXCEPT !.core_a = 0, !.core_b = 1], [c EXCEPT !.core_a = 2, !.core_b = 1]}

Prefetching(S) == S \union {[c EXCEPT !.prefetch_en = TRUE] : c \in S}

BandwidthConfigs ==
    Prefetching(Placed(Plain("BW", "READ", 2)) \union {Plain("BW", "WRITE", 0)})
        \union {[Plain("BW", "MIXED", 1) EXCEPT !.bw_granu = 6]}

LatencyConfigs ==
    Prefetching(Placed(Plain("LATS_CHASE", "READ", 1))
                \union Placed(Plain("BLOCK_LATS", "WRITE_NT", 2)))
        \union {Plain("BLOCK_LATS", "MIXED", 1), Plain("BLOCK_LATS", "MOV", 0),
                Plain("LATS_CLFLUSH", "MOV", 1), Plain("LATS_CLFLUSH", "READ", 1),
                Plain("LATS_CHASE", "READ", 0)}

TwoThreadConfigs == BandwidthConfigs \union LatencyConfigs

PairConfigs     == {[Plain("BW", "READ", 1) EXCEPT !.core_a = 0, !.core_b = 1]}
=============================================================================
