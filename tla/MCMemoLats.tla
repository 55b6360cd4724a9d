----------------------------- MODULE MCMemoLats -----------------------------
(* Instances of MemoLats for TLC. *)
EXTENDS MemoLats

Test(type, op, iter, total) ==
    [type |-> type, op |-> op, op_iter |-> iter, total_buf_size |-> total,
     per_thread_size |-> total \div NumThread, random |-> FALSE,
     flush_block |-> FALSE, num_clear_pipe |-> 0]

\* Single operations in a buffer of six lines, so that lines come up again; an
\* odd and an even number of results, none, and operations that -T 0 ignores.
SingleConfigs ==
    {Test("LATS_CLFLUSH", op, iter, 6) : op \in Measurable, iter \in {0, 2, 3}}
    \union {Test("LATS_CLFLUSH", "MOV", 2, 6)}

\* One block, two, and a buffer that ends in the middle of one.
BlockConfigs ==
    {[Test("BLOCK_LATS", op, 2, total) EXCEPT !.flush_block = flush,
                                              !.num_clear_pipe = clear] :
        op \in Measurable, total \in {BLOCK_LINES, 2 * BLOCK_LINES},
        flush \in BOOLEAN, clear \in {0, 2}}
    \union {Test("BLOCK_LATS", "READ", 3, 1536), Test("BLOCK_LATS", "MIXED", 1, 1024)}

ChaseConfigs ==
    {[Test("LATS_CHASE", "READ", iter, total) EXCEPT !.random = random] :
        iter \in {0, 1, 3}, total \in {1, 4}, random \in BOOLEAN}

AllConfigs == SingleConfigs \union BlockConfigs \union ChaseConfigs
=============================================================================
