----------------------------- MODULE MCMemoWalk -----------------------------
(* Instances of MemoWalk for TLC. *)
EXTENDS MemoWalk

Walk(op, granu, random, size) ==
    [op |-> op, bw_granu |-> granu, random |-> random, read_ratio |-> 1,
     stall_ratio |-> 0, per_thread_size |-> size]

\* A granularity that is refused, half a block, a block, more than one with a
\* remainder below and above half a block, a power of two of blocks.
Granus == {6, 8, 16, 20, 24, 32}

\* Slices that are and that are not a multiple of the step; with 24 lines some
\* granularities are larger than the slice.
WalkConfigs ==
    {Walk(op, granu, random, size) :
        op \in {"READ", "MOV"}, granu \in Granus, random \in BOOLEAN,
        size \in {24, 64, 72}}
    \union {[Walk("MIXED", 16, FALSE, 64) EXCEPT !.read_ratio = r, !.stall_ratio = s] :
              r \in {0, 1, 3}, s \in {0, 2}}
    \union {Walk("WRITE_NT", 16, FALSE, 64)}
=============================================================================
