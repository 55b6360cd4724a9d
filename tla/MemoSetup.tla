----------------------------- MODULE MemoSetup -----------------------------
(***************************************************************************)
(* main() of cxlMemTest around run_test: parse_arg reads the options one   *)
(* by one into cfg, init_buf allocates a buffer on a NUMA node and checks  *)
(* where its pages are, and three labels release what there is to release. *)
(* cfg is a function from option letters to values, -S writing what -m     *)
(* does.                                                                   *)
(***************************************************************************)
EXTENDS Integers

CONSTANTS
    MAX_CORE_NUM, MAX_NUM_THREAD, MAX_BUF_GB, MAX_NUMA_NODE,
    WORD,              \* 2^64, the range of uint64_t
    GIB, PAGE,         \* 2^30, 2^12
    DefaultThreads,    \* 32
    DefaultSize,       \* 2^30
    Options,           \* options that may be given: [opt, num, den]
    MaxOptions,        \* bound: options of one command line
    Nodes,             \* the machine's NUMA nodes
    Garbage,           \* what an uninitialised int may hold
    MEMORY             \* bound: largest buffer the kernel will map

Letters == {"F", "C", "B", "a", "b", "p", "t", "m", "S", "n", "d", "s", "i",
            "T", "o", "R", "g", "r", "f", "h", "?"}
Fields  == Letters \ {"S", "h", "?"}
Buffers == {"a", "b"}
MOV     == 4

ASSUME LimitAssumption ==
    /\ MAX_CORE_NUM \in Nat /\ MAX_NUM_THREAD \in Nat
    /\ MAX_BUF_GB \in Nat /\ MAX_NUMA_NODE \in Nat
ASSUME SizeAssumption ==
    /\ WORD \in Nat \ {0} /\ GIB \in Nat /\ PAGE \in Nat \ {0} /\ MEMORY \in Nat
    /\ DefaultThreads \in 0 .. WORD - 1 /\ DefaultSize \in 0 .. WORD - 1
ASSUME OptionAssumption ==
    Options \subseteq [opt : Letters, num : Int, den : Int]
ASSUME MaxOptionsAssumption == MaxOptions \in Nat
ASSUME NodesAssumption == Nodes \subseteq Nat /\ Garbage \subseteq Int

VARIABLES
    pc,              \* where main() is, or how the process ended
    given,           \* number of options read
    cfg,             \* the fields parse_arg sets
    perThreadSize,   \* cfg->per_thread_size
    mem,             \* per buffer: is memory mapped for it?
    place,           \* per buffer: the node of each page of that memory
    set,             \* per buffer: has cfg->buf_x been assigned?
    answered         \* history, per buffer: did move_pages tell the nodes?

argVars == <<given, cfg, perThreadSize>>
bufVars == <<mem, place, set, answered>>
vars == <<pc, argVars, bufVars>>

----------------------------------------------------------------------------
(* parse_arg *)

Default ==
    [x \in Fields |-> CASE x \in {"a", "b", "p"} -> -1
                        [] x = "t" -> DefaultThreads
                        [] x = "m" -> DefaultSize
                        [] x \in {"i", "R", "T"} -> 1
                        [] x = "g" -> 512
                        [] x = "F" -> 2000
                        [] OTHER -> 0]

\* The range checks of the option switch.
Legal(o) ==
    CASE o.opt \in {"a", "b", "p"} -> o.num \in 0 .. MAX_CORE_NUM
      [] o.opt \in {"n", "d"}      -> o.num \in 0 .. MAX_NUMA_NODE
      [] o.opt = "t"               -> o.num <= MAX_NUM_THREAD
      [] o.opt = "S"               -> o.num <= MAX_BUF_GB
      [] o.opt \in {"s", "i"}      -> o.num >= 0
      [] o.opt = "T"               -> o.num \in 0 .. 3
      [] o.opt = "o"               -> o.num \in 0 .. 5
      [] o.opt \in {"h", "?"}      -> FALSE
      [] OTHER                     -> TRUE

\* A ratio that is not positive is reported and otherwise ignored.
Ignored(o) == o.opt = "R" /\ (o.num <= 0 \/ o.den <= 0)

Field(o) == IF o.opt = "S" THEN "m" ELSE o.opt

\* Mutant: uint64_t fields keep the sign of an int.
ValueSigned(o) == o.num
\* An int is sign-extended where the field is a uint64_t.
Value(o) ==
    CASE o.opt \in {"t", "m"}      -> o.num % WORD
      [] o.opt = "S"               -> (o.num * GIB) % WORD
      [] o.opt \in {"r", "f", "B"} -> 1
      [] o.opt = "R"               -> o.num \div o.den
      [] OTHER                     -> o.num

ReadOption(o) ==
    /\ pc = "parse" /\ given < MaxOptions
    /\ given' = given + 1
    /\ IF Legal(o) /\ ~Ignored(o)
       THEN cfg' = [cfg EXCEPT ![Field(o)] = Value(o)]
       ELSE UNCHANGED cfg
    /\ pc' = IF Legal(o) THEN "parse" ELSE "out"
    /\ UNCHANGED <<perThreadSize, bufVars>>

\* Mutant: an uneven share is rounded up to a page.
ShareRoundedUp(total, n) ==
    LET share == total \div n
    IN  IF share * n = total THEN share ELSE share + (PAGE - (share % PAGE))
\* Even shares as they are, uneven ones down to a page.
Share(total, n) ==
    LET share == total \div n
    IN  IF share * n = total THEN share ELSE share - (share % PAGE)

ParseDone ==
    /\ pc = "parse"
    /\ IF cfg["a"] * cfg["b"] < 0 THEN pc' = "out" /\ UNCHANGED perThreadSize
       ELSE IF cfg["t"] = 0 THEN pc' = "sigfpe" /\ UNCHANGED perThreadSize
       ELSE pc' = "allocA" /\ perThreadSize' = Share(cfg["m"], cfg["t"])
    /\ UNCHANGED <<given, cfg, bufVars>>

----------------------------------------------------------------------------
(* init_buf, for buf_a and, when moving, for buf_b. *)

NodeAsked(x) == IF x = "a" THEN cfg["n"] ELSE cfg["d"]
PageCnt == cfg["m"] \div PAGE
PageSet == 0 .. PageCnt - 1

At(x, a, b) == IF x = "a" THEN a ELSE b

\* Mutant: failing to allocate buf_b leaves main() without releasing buf_a.
NoMemoryLeaving(x) == "out"
\* Where main() goes on a result of -1.
NoMemory(x) == At(x, "out", "out1")

\* numa_alloc_onnode and the first access to every page: the node is a wish
\* that the kernel follows as far as the node has memory.
Allocate(x) ==
    /\ pc = At(x, "allocA", "allocB")
    /\ \/ pc' = NoMemory(x) /\ UNCHANGED <<mem, place>>
       \/ /\ cfg["m"] \in 1 .. MEMORY
          /\ mem' = [mem EXCEPT ![x] = TRUE]
          /\ \E f \in [PageSet -> Nodes] : place' = [place EXCEPT ![x] = f]
          /\ pc' = At(x, "checkA", "checkB")
    /\ UNCHANGED <<argVars, set, answered>>

\* get_node: the node of the first page that is not where page 0 is, or that of
\* page 0.  A move_pages that fails is reported, and status read all the same, as
\* it is where there is no page to ask for: uninitialised memory.
Odd(f) == {i \in PageSet : f[i] # f[0]}
GetNode(f, told) ==
    IF ~told \/ PageCnt = 0 THEN Garbage
    ELSE IF Odd(f) = {} THEN {f[0]}
    ELSE {f[i] : i \in {i \in Odd(f) : \A j \in Odd(f) : i <= j}}

AfterBufA == IF cfg["o"] = MOV THEN "allocB" ELSE "run"

\* Mutant: a buffer on another node is only reported.
OnNodeAnyway(x, node) == TRUE
OnNode(x, node) == node = NodeAsked(x)

\* cfg->buf_x is assigned only when the node is right.
CheckNode(x) ==
    /\ pc = At(x, "checkA", "checkB")
    /\ \E told \in BOOLEAN : \E node \in GetNode(place[x], told) :
          /\ answered' = [answered EXCEPT ![x] = told]
          /\ IF OnNode(x, node)
             THEN set' = [set EXCEPT ![x] = TRUE] /\ pc' = At(x, AfterBufA, "run")
             ELSE pc' = At(x, "out1", "out2") /\ UNCHANGED set
    /\ UNCHANGED <<argVars, mem, place>>

----------------------------------------------------------------------------
(* main() *)

\* run_test comes back, or exit() is called or a signal raised in it (MemoRun).
RunTest ==
    /\ pc = "run" /\ pc' \in {"out2", "killed"}
    /\ UNCHANGED <<argVars, bufVars>>

\* numa_free of a pointer that was never assigned goes unnoticed or does not.
Release(x) ==
    /\ pc = At(x, "out1", "out2")
    /\ IF set[x]
       THEN mem' = [mem EXCEPT ![x] = FALSE] /\ pc' = At(x, "out", "out1")
       ELSE pc' \in {At(x, "out", "out1"), "segv"} /\ UNCHANGED mem
    /\ UNCHANGED <<argVars, place, set, answered>>

Return == pc = "out" /\ pc' = "end" /\ UNCHANGED <<argVars, bufVars>>

Init ==
    /\ pc = "parse" /\ given = 0 /\ cfg = Default /\ perThreadSize = 0
    /\ mem = [x \in Buffers |-> FALSE]
    /\ place \in [Buffers -> {<<>>}]
    /\ set = [x \in Buffers |-> FALSE]
    /\ answered = [x \in Buffers |-> FALSE]

Next ==
    \/ \E o \in Options : ReadOption(o)
    \/ ParseDone
    \/ \E x \in Buffers : Allocate(x) \/ CheckNode(x) \/ Release(x)
    \/ RunTest \/ Return

Spec == Init /\ [][Next]_vars

----------------------------------------------------------------------------
(* Properties. *)

Points == {"parse", "allocA", "checkA", "allocB", "checkB", "run", "out2",
           "out1", "out", "end", "sigfpe", "segv", "killed"}

TypeOK ==
    /\ pc \in Points
    /\ given \in 0 .. MaxOptions
    /\ cfg \in [Fields -> Int] /\ cfg["t"] \in 0 .. WORD - 1
                              /\ cfg["m"] \in 0 .. WORD - 1
    /\ perThreadSize \in 0 .. WORD - 1
    /\ mem \in [Buffers -> BOOLEAN] /\ set \in [Buffers -> BOOLEAN]
    /\ DOMAIN place = Buffers /\ answered \in [Buffers -> BOOLEAN]

Parsed == pc \notin {"parse", "sigfpe", "out", "end"}

\* Whatever the options, -t -1 and uneven shares included, the threads' slices
\* of per_thread_size bytes lie one after the other inside the buffer.
SlicesFit == Parsed => cfg["t"] * perThreadSize <= cfg["m"]

\* When run_test starts it has the buffers it will use (buf_b for -o 4): mapped
\* and handed over, and, if the kernel told where their pages are, with at least
\* one of them on the node that was asked for.  When move_pages failed nothing is
\* known of the pages (util.c:307 to 313), nor when there are none.
Needed(x) == x = "a" \/ cfg["o"] = MOV
HandedOver(x) ==
    /\ mem[x] /\ set[x]
    /\ answered[x] /\ PageCnt > 0 => \E i \in PageSet : place[x][i] = NodeAsked(x)
ReadyToRun == pc = "run" => \A x \in Buffers : Needed(x) => HandedOver(x)

\* By whichever label main() is left, the buffers it was handed are released.
ReleasedAtEnd == pc = "end" => \A x \in Buffers : set[x] => ~mem[x]

----------------------------------------------------------------------------
(* What makes them hold. *)

Waiting(x) == mem[x] /\ place[x] \in [PageSet -> Nodes]

\* What is mapped and assigned at each point of main().
BufferInv ==
    /\ pc \in {"parse", "allocA", "checkA"} => \A x \in Buffers : ~set[x]
    /\ pc \in {"allocB", "checkB"} => HandedOver("a") /\ ~set["b"]
    /\ pc = "checkA" => Waiting("a")
    /\ pc = "checkB" => Waiting("b")
    /\ ReadyToRun
    /\ pc \in {"out1", "out", "end"} => (set["b"] => ~mem["b"])
    /\ pc \in {"out", "end"} => (set["a"] => ~mem["a"])

\* Type, shares and buffers, inductive together.
Inv == TypeOK /\ SlicesFit /\ BufferInv
=============================================================================
