-------------------------- MODULE MemoSetupProofs --------------------------
(***************************************************************************)
(* The invariant of MemoSetup, for every set of options, every size of     *)
(* word, page and buffer, and every placement of the pages by the kernel.  *)
(***************************************************************************)
EXTENDS MemoSetup, TLAPS

\* A share is a uint64_t and the shares together fit the buffer.
LEMMA ShareFits ==
    ASSUME NEW total \in 0 .. WORD - 1, NEW n \in 1 .. WORD - 1
    PROVE  /\ Share(total, n) \in 0 .. WORD - 1
           /\ n * Share(total, n) <= total
<1> DEFINE share == total \div n
<1>1. WORD \in Nat /\ PAGE \in Nat \ {0}
  BY SizeAssumption
<1>2. share \in Nat /\ n * share <= total
  BY <1>1, SMT
<1>3. share % PAGE \in Nat /\ share % PAGE <= share
  BY <1>1, <1>2, SMT
<1> HIDE DEF share
<1>4. \A s \in 0 .. share : s <= total /\ n * s <= total
  <2> SUFFICES ASSUME NEW s \in 0 .. share
               PROVE  s <= total /\ n * s <= total
    OBVIOUS
  <2>1. s <= n * s /\ n * s <= n * share
    BY <1>1, <1>2, SMT
  <2> QED
    BY <2>1, <1>1, <1>2, SMT
<1>5. share - (share % PAGE) \in 0 .. share
  BY <1>2, <1>3
<1>6. Share(total, n) \in 0 .. share
  BY <1>2, <1>5 DEF Share, share
<1> QED
  BY <1>1, <1>2, <1>4, <1>6

\* What an option writes has the type of the field it writes to.
LEMMA ValueInField ==
    ASSUME NEW o \in Options, Legal(o), ~Ignored(o)
    PROVE  /\ Field(o) \in Fields
           /\ Value(o) \in Int
           /\ Field(o) \in {"t", "m"} => Value(o) \in 0 .. WORD - 1
<1>1. o.opt \in Letters /\ o.num \in Int /\ o.den \in Int
  BY OptionAssumption
<1>2. WORD \in Nat \ {0} /\ GIB \in Nat
  BY SizeAssumption
<1>3. o.num % WORD \in 0 .. WORD - 1 /\ (o.num * GIB) % WORD \in 0 .. WORD - 1
  BY <1>1, <1>2, SMT
<1>4. o.opt \notin {"h", "?"}
  BY DEF Legal
<1>5. CASE o.opt = "R"
  <2>1. o.den \in Nat \ {0}
    BY <1>1, <1>5 DEF Ignored
  <2>2. o.num \div o.den \in Int
    BY <2>1, <1>1, SMT
  <2> QED
    BY <1>5, <2>2 DEF Field, Value, Fields, Letters
<1>6. CASE o.opt # "R"
  BY <1>1, <1>2, <1>3, <1>4, <1>6 DEF Field, Value, Fields, Letters
<1> QED
  BY <1>5, <1>6

LEMMA InitInv == Init => Inv
<1> SUFFICES ASSUME Init PROVE Inv
  OBVIOUS
<1>1. TypeOK
  BY SizeAssumption, MaxOptionsAssumption
     DEF Init, TypeOK, Points, Default, Fields, Letters, Buffers
<1> QED
  BY <1>1 DEF Inv, Init, SlicesFit, Parsed, BufferInv, ReadyToRun, Buffers

\* get_node answers with the node of a page, if it is told and there is one.
LEMMA GetNodeOfPage ==
    ASSUME NEW f \in [PageSet -> Nodes], NEW node \in GetNode(f, TRUE),
           PageCnt \in Int, PageCnt > 0
    PROVE  \E i \in PageSet : f[i] = node
<1>1. 0 \in PageSet
  BY DEF PageSet
<1>2. CASE Odd(f) = {}
  BY <1>1, <1>2 DEF GetNode
<1>3. CASE Odd(f) # {}
  BY <1>3 DEF GetNode, Odd
<1> QED
  BY <1>2, <1>3

LEMMA NextInv == Inv /\ [Next]_vars => Inv'
<1> SUFFICES ASSUME Inv, [Next]_vars PROVE Inv'
  OBVIOUS
<1> USE DEF Inv, Buffers
<1>1. ASSUME NEW o \in Options, ReadOption(o) PROVE Inv'
  <2>1. TypeOK'
    BY <1>1, ValueInField, MaxOptionsAssumption
       DEF ReadOption, TypeOK, Points, bufVars, Fields, Letters
  <2> QED
    BY <1>1, <2>1
       DEF ReadOption, SlicesFit, Parsed, BufferInv, ReadyToRun, bufVars
<1>2. CASE ParseDone
  <2>1. cfg["t"] # 0 => /\ Share(cfg["m"], cfg["t"]) \in 0 .. WORD - 1
                       /\ cfg["t"] * Share(cfg["m"], cfg["t"]) <= cfg["m"]
    BY ShareFits DEF TypeOK
  <2>2. TypeOK' /\ SlicesFit'
    BY <1>2, <2>1 DEF ParseDone, TypeOK, Points, bufVars, SlicesFit, Parsed
  <2> QED
    BY <1>2, <2>2 DEF ParseDone, BufferInv, ReadyToRun, bufVars
<1>3. ASSUME NEW x \in Buffers, Allocate(x) PROVE Inv'
  <2>1. TypeOK' /\ SlicesFit'
    BY <1>3 DEF Allocate, NoMemory, At, TypeOK, Points, argVars, SlicesFit, Parsed
  <2>2. BufferInv'
    <3>1. CASE x = "a"
      BY <1>3, <3>1 DEF Allocate, NoMemory, At, BufferInv, ReadyToRun, Waiting,
                        TypeOK, argVars, PageSet, PageCnt
    <3>2. CASE x = "b"
      BY <1>3, <3>2 DEF Allocate, NoMemory, At, BufferInv, ReadyToRun, Waiting,
                        HandedOver, NodeAsked, TypeOK, argVars, PageSet, PageCnt
    <3> QED
      BY <3>1, <3>2
  <2> QED
    BY <2>1, <2>2
<1>4. ASSUME NEW x \in Buffers, CheckNode(x) PROVE Inv'
  <2>1. TypeOK' /\ SlicesFit'
    BY <1>4 DEF CheckNode, AfterBufA, At, TypeOK, Points, argVars, SlicesFit, Parsed
  <2>2. PICK told \in BOOLEAN : \E node \in GetNode(place[x], told) :
          /\ answered' = [answered EXCEPT ![x] = told]
          /\ IF OnNode(x, node)
             THEN set' = [set EXCEPT ![x] = TRUE] /\ pc' = At(x, AfterBufA, "run")
             ELSE pc' = At(x, "out1", "out2") /\ UNCHANGED set
    BY <1>4 DEF CheckNode
  <2>3. PICK node \in GetNode(place[x], told) :
          /\ answered' = [answered EXCEPT ![x] = told]
          /\ IF OnNode(x, node)
             THEN set' = [set EXCEPT ![x] = TRUE] /\ pc' = At(x, AfterBufA, "run")
             ELSE pc' = At(x, "out1", "out2") /\ UNCHANGED set
    BY <2>2
  <2>4. PageCnt \in Int
    BY SizeAssumption, SMT DEF PageCnt, TypeOK
  <2>5. Waiting(x)
    BY <1>4 DEF CheckNode, BufferInv, At
  <2>6. ASSUME OnNode(x, node) PROVE HandedOver(x)'
    <3>1. told /\ PageCnt > 0 => \E i \in PageSet : place[x][i] = NodeAsked(x)
      BY <2>4, <2>5, <2>6, GetNodeOfPage DEF Waiting, OnNode
    <3> QED
      BY <1>4, <2>3, <2>5, <2>6, <3>1
         DEF CheckNode, HandedOver, Waiting, PageCnt, PageSet, NodeAsked, TypeOK,
             argVars
  <2>7. CASE x = "a"
    <3>1. pc = "checkA" /\ UNCHANGED <<argVars, mem, place>>
      BY <1>4, <2>7 DEF CheckNode, At
    <3>2. CASE OnNode(x, node)
      BY <2>1, <2>3, <2>6, <2>7, <3>1, <3>2
         DEF BufferInv, AfterBufA, ReadyToRun, Needed, At, TypeOK, argVars
    <3>3. CASE ~OnNode(x, node)
      BY <2>1, <2>3, <2>7, <3>1, <3>3 DEF BufferInv, ReadyToRun, At
    <3> QED
      BY <3>2, <3>3
  <2>8. CASE x = "b"
    <3>1. pc = "checkB" /\ UNCHANGED <<argVars, mem, place>>
      BY <1>4, <2>8 DEF CheckNode, At
    <3>2. CASE OnNode(x, node)
      <4>1. HandedOver("a")'
        BY <2>3, <2>8, <3>1, <3>2
           DEF BufferInv, HandedOver, PageCnt, PageSet, NodeAsked, argVars, TypeOK
      <4> QED
        BY <2>1, <2>3, <2>6, <2>8, <3>1, <3>2, <4>1 DEF BufferInv, ReadyToRun, At
    <3>3. CASE ~OnNode(x, node)
      BY <2>1, <2>3, <2>8, <3>1, <3>3 DEF BufferInv, ReadyToRun, At
    <3> QED
      BY <3>2, <3>3
  <2> QED
    BY <2>7, <2>8
<1>5. ASSUME NEW x \in Buffers, Release(x) PROVE Inv'
  BY <1>5 DEF Release, At, TypeOK, Points, argVars, SlicesFit, Parsed, BufferInv,
              ReadyToRun
<1>6. CASE RunTest \/ Return
  BY <1>6 DEF RunTest, Return, TypeOK, Points, argVars, bufVars, SlicesFit,
              Parsed, BufferInv, ReadyToRun
<1>7. CASE UNCHANGED vars
  BY <1>7 DEF vars, argVars, bufVars, TypeOK, SlicesFit, Parsed, BufferInv,
              ReadyToRun, HandedOver, Needed, Waiting, PageCnt, PageSet, NodeAsked
<1> QED
  BY <1>1, <1>2, <1>3, <1>4, <1>5, <1>6, <1>7 DEF Next

\* The type, the shares and the state of the buffers hold at every point.
THEOREM Invariance == Spec => []Inv
BY InitInv, NextInv, PTL DEF Spec

\* Whatever number of threads and size of buffer parse_arg accepts, negative
\* numbers as the unsigned ones they become, the threads' slices fit the buffer.
THEOREM SharesFit == Spec => []SlicesFit
<1>1. Inv => SlicesFit
  BY DEF Inv
<1> QED
  BY <1>1, Invariance, PTL

\* run_test is given every buffer it needs, with a page on the node asked for
\* whenever move_pages told where the pages are.
THEOREM BuffersReady == Spec => []ReadyToRun
<1>1. Inv => ReadyToRun
  BY DEF Inv, BufferInv
<1> QED
  BY <1>1, Invariance, PTL

\* main() releases every buffer it was handed, whichever label it leaves by.
THEOREM BuffersReleased == Spec => []ReleasedAtEnd
<1>1. Inv => ReleasedAtEnd
  BY DEF Inv, BufferInv, ReleasedAtEnd, Buffers
<1> QED
  BY <1>1, Invariance, PTL
=============================================================================
