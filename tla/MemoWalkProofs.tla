--------------------------- MODULE MemoWalkProofs ---------------------------
(***************************************************************************)
(* The invariant of MemoWalk, for any number of threads, any granularity,  *)
(* any size of the slices and any random steps.                            *)
(***************************************************************************)
EXTENDS MemoWalk, FiniteSetTheorems, WellFoundedInduction, TLAPS

----------------------------------------------------------------------------
(* Numbers. *)

\* The order of the naturals, as a set of pairs.
Below == {p \in Nat \X Nat : p[1] < p[2]}

\* A set of naturals that has 0 and every successor has all.
LEMMA AllNaturals ==
    ASSUME NEW S \in SUBSET Nat, 0 \in S, \A n \in S : n + 1 \in S
    PROVE  S = Nat
<1>1. IsWellFoundedOn(Below, Nat)
  BY NatLessThanWellFounded, Zenon DEF OpToRel, Below
<1> SUFFICES ASSUME S # Nat PROVE FALSE
  OBVIOUS
<1>2. PICK x \in Nat \ S : TRUE
  OBVIOUS
<1>3. PICK m \in Nat \ S : \A y \in Nat \ S : ~(<<y, m>> \in Below)
  BY <1>1, <1>2, WFMin
<1>4. m # 0 /\ m - 1 \in Nat /\ <<m - 1, m>> \in Below
  BY DEF Below
<1>5. m - 1 \in S
  BY <1>3, <1>4
<1> QED BY <1>5

LEMMA Bijective ==
    ASSUME NEW S, NEW T, NEW f \in [S -> T],
           \A x, y \in S : f[x] = f[y] => x = y,
           \A t \in T : \E x \in S : f[x] = t
    PROVE  f \in Bijection(S, T)
<1>1. DOMAIN f = S
  OBVIOUS
<1>2. f \in Injection(S, T)
  BY <1>1 DEF Injection, IsInjective
<1>3. f \in Surjection(S, T)
  BY <1>1 DEF Surjection
<1> QED BY <1>2, <1>3 DEF Bijection

\* Powers of two.
LEMMA PowerOfNext ==
    ASSUME NEW n \in Nat
    PROVE  2^n \in Nat \ {0} /\ 2^(n + 1) = 2 * 2^n
<1> DEFINE S == 1 .. n   T == 1 .. n + 1
           with == {A \union {n + 1} : A \in SUBSET S}
<1>1. /\ IsFiniteSet(S) /\ Cardinality(S) = n /\ IsFiniteSet(T) /\ Cardinality(T) = n + 1
  BY FS_Interval
<1>2. /\ IsFiniteSet(SUBSET S) /\ Cardinality(SUBSET S) = 2^n
      /\ IsFiniteSet(SUBSET T) /\ Cardinality(SUBSET T) = 2^(n + 1)
  BY <1>1, FS_SUBSET
<1>3. n + 1 \notin S /\ T = S \union {n + 1}
  OBVIOUS
<1>4. SUBSET T = (SUBSET S) \union with /\ (SUBSET S) \intersect with = {}
  <2>1. ASSUME NEW A \in SUBSET T
        PROVE  A \in (SUBSET S) \union with
    <3>1. CASE n + 1 \in A
      <4>1. A \ {n + 1} \in SUBSET S /\ A = (A \ {n + 1}) \union {n + 1}
        BY <1>3, <3>1
      <4> QED BY <4>1
    <3>2. CASE n + 1 \notin A
      BY <1>3, <3>2
    <3> QED BY <3>1, <3>2
  <2>2. (SUBSET S) \union with \subseteq SUBSET T
    BY <1>3
  <2>3. (SUBSET S) \intersect with = {}
    BY <1>3
  <2> QED BY <2>1, <2>2, <2>3
<1>5. IsFiniteSet(with) /\ Cardinality(with) = 2^n
  <2> DEFINE f == [A \in SUBSET S |-> A \union {n + 1}]
  <2>1. f \in Bijection(SUBSET S, with)
    <3>1. f \in [SUBSET S -> with]
      OBVIOUS
    <3>2. \A A, B \in SUBSET S : f[A] = f[B] => A = B
      <4> SUFFICES ASSUME NEW A \in SUBSET S, NEW B \in SUBSET S,
                          A \union {n + 1} = B \union {n + 1}
                   PROVE  A = B
        OBVIOUS
      <4>1. n + 1 \notin A /\ n + 1 \notin B
        BY <1>3
      <4> QED BY <4>1
    <3>3. \A t \in with : \E A \in SUBSET S : f[A] = t
      OBVIOUS
    <3> HIDE DEF f, S, with
    <3> QED BY <3>1, <3>2, <3>3, Bijective
  <2> DEFINE U == SUBSET S
  <2>2. IsFiniteSet(U) /\ Cardinality(U) = 2^n /\ f \in Bijection(U, with)
    BY <1>2, <2>1
  <2> HIDE DEF f, with, U
  <2> QED BY <2>2, FS_Bijection DEF ExistsBijection
<1>6. 2^n \in Nat
  BY <1>2, FS_CardinalityType
<1>7. Cardinality(SUBSET T) = 2^n + 2^n - 0
  <2> DEFINE U == SUBSET S
  <2>0. IsFiniteSet(U) /\ IsFiniteSet(with)
    BY <1>2, <1>5
  <2> HIDE DEF U, with
  <2>1. Cardinality(U \union with) = Cardinality(U) + Cardinality(with) - Cardinality(U \intersect with)
    BY <2>0, FS_Union
  <2>2. Cardinality({}) = 0
    BY FS_EmptySet
  <2> QED BY <2>1, <2>2, <1>2, <1>4, <1>5 DEF U
<1>8. 2^(n + 1) = 2 * 2^n
  BY <1>2, <1>6, <1>7
<1>9. 2^n # 0
  <2>1. {} \in SUBSET S /\ SUBSET S # {}
    OBVIOUS
  <2>2. Cardinality(SUBSET S) # 0
    BY <1>2, <2>1, FS_EmptySet
  <2> QED BY <1>2, <2>2
<1> QED BY <1>6, <1>8, <1>9

\* Division with remainder is unique.
LEMMA DivisionUnique ==
    ASSUME NEW n \in Nat \ {0}, NEW q \in Int, NEW r \in 0 .. n - 1
    PROVE  (n * q + r) \div n = q /\ (n * q + r) % n = r
<1> DEFINE m == n * q + r  d == m \div n  e == m % n
<1>1. n * q \in Int /\ m \in Int
  OBVIOUS
<1>2. d \in Int /\ e \in 0 .. n - 1 /\ m = n * d + e
  BY <1>1
<1> HIDE DEF d, e
<1>3. ~(d < q)
  <2> SUFFICES ASSUME d < q PROVE FALSE
    OBVIOUS
  <2>1. n * (d + 1) <= n * q
    BY <1>2
  <2>2. n * (d + 1) = n * d + n
    BY <1>2
  <2> QED BY <1>1, <1>2, <2>1, <2>2
<1>4. ~(q < d)
  <2> SUFFICES ASSUME q < d PROVE FALSE
    OBVIOUS
  <2>1. n * (q + 1) <= n * d
    BY <1>2
  <2>2. n * (q + 1) = n * q + n /\ n * d \in Int
    BY <1>2
  <2> QED BY <1>1, <1>2, <2>1, <2>2
<1>5. d = q
  BY <1>2, <1>3, <1>4
<1>6. e = r
  BY <1>1, <1>2, <1>5
<1> QED BY <1>5, <1>6 DEF d, e

\* Multiples.
LEMMA Multiples ==
    ASSUME NEW g \in Nat \ {0}, NEW a \in Int
    PROVE  a % g = 0 <=> \E q \in Int : a = g * q
<1>1. ASSUME a % g = 0 PROVE \E q \in Int : a = g * q
  <2>1. a = g * (a \div g) + (a % g) /\ a \div g \in Int
    OBVIOUS
  <2>2. g * (a \div g) \in Int
    BY <2>1
  <2> QED BY <1>1, <2>1, <2>2
<1>2. ASSUME NEW q \in Int, a = g * q PROVE a % g = 0
  <2>1. (g * q + 0) % g = 0
    BY DivisionUnique
  <2>2. g * q + 0 = a
    BY <1>2
  <2> QED BY <2>1, <2>2
<1> QED BY <1>1, <1>2

LEMMA MultiplesAdd ==
    ASSUME NEW g \in Nat \ {0}, NEW a \in Int, NEW b \in Int, a % g = 0, b % g = 0
    PROVE  (a + b) % g = 0
<1>1. PICK q \in Int : a = g * q
  BY Multiples
<1>2. PICK p \in Int : b = g * p
  BY Multiples
<1>3. a + b = g * (q + p) /\ q + p \in Int
  BY <1>1, <1>2
<1> QED BY <1>3, Multiples

\* The remainders of consecutive numbers.
LEMMA NextRemainder ==
    ASSUME NEW n \in Nat \ {0}, NEW m \in Nat
    PROVE  /\ m % n \in 0 .. n - 1
           /\ (m + 1) % n = IF m % n = n - 1 THEN 0 ELSE (m % n) + 1
<1>1. /\ m \div n \in Int /\ m % n \in 0 .. n - 1 /\ m = n * (m \div n) + (m % n)
      /\ n * (m \div n) \in Int
  OBVIOUS
<1> DEFINE q == m \div n  r == m % n
<1> HIDE DEF q, r
<1>2. CASE r = n - 1
  <2>1. m + 1 = n * (q + 1) + 0
    BY <1>1, <1>2 DEF q, r
  <2>2. (n * (q + 1) + 0) % n = 0
    BY <1>1, DivisionUnique DEF q
  <2> QED BY <1>1, <1>2, <2>1, <2>2 DEF r
<1>3. CASE r # n - 1
  <2>1. m + 1 = n * q + (r + 1) /\ r + 1 \in 0 .. n - 1
    BY <1>1, <1>3 DEF q, r
  <2>2. (n * q + (r + 1)) % n = r + 1
    BY <1>1, <2>1, DivisionUnique DEF q
  <2> QED BY <1>1, <1>3, <2>1, <2>2 DEF r
<1> QED BY <1>2, <1>3

\* k operations of g lines fit s lines as long as there are no more than s \div g.
LEMMA OpsFit ==
    ASSUME NEW g \in Nat \ {0}, NEW s \in Nat, NEW k \in Nat
    PROVE  g * k + g <= s <=> k < s \div g
<1> DEFINE n == s \div g
<1>1. n \in Nat /\ s % g \in 0 .. g - 1 /\ s = g * n + (s % g) /\ g * n \in Nat /\ g * k \in Nat
  OBVIOUS
<1> HIDE DEF n
<1>2. ASSUME k < n PROVE g * k + g <= s
  <2>1. g * (k + 1) <= g * n
    BY <1>1, <1>2
  <2>2. g * (k + 1) = g * k + g
    OBVIOUS
  <2> QED BY <1>1, <2>1, <2>2
<1>3. ASSUME ~(k < n) PROVE ~(g * k + g <= s)
  <2>1. g * n <= g * k
    BY <1>1, <1>3
  <2> QED BY <1>1, <2>1
<1> QED BY <1>2, <1>3 DEF n

LEMMA PowerDivides ==
    \A k \in Nat : \A i \in 0 .. k - 1 : \E e \in Nat \ {0} : 2^k = 2^i * (2 * e)
<1> DEFINE good == {k \in Nat : \A i \in 0 .. k - 1 :
                       \E e \in Nat \ {0} : 2^k = 2^i * (2 * e)}
<1>1. 0 \in good
  OBVIOUS
<1>2. ASSUME NEW k \in good PROVE k + 1 \in good
  <2> SUFFICES ASSUME NEW i \in 0 .. k
               PROVE  \E e \in Nat \ {0} : 2^(k + 1) = 2^i * (2 * e)
    OBVIOUS
  <2>1. 2^(k + 1) = 2 * 2^k /\ 2^k \in Nat /\ 2^i \in Nat
    BY PowerOfNext
  <2>2. CASE i = k
    <3>1. 2 * 2^k = 2^i * (2 * 1)
      BY <2>1, <2>2
    <3> QED BY <2>1, <3>1
  <2>3. CASE i \in 0 .. k - 1
    <3>1. PICK e \in Nat \ {0} : 2^k = 2^i * (2 * e)
      BY <2>3
    <3>2. PICK x \in Nat : x = 2^i
      BY <2>1
    <3>3. 2 * (x * (2 * e)) = x * (2 * (2 * e))
      OBVIOUS
    <3>4. 2 * e \in Nat \ {0}
      OBVIOUS
    <3> QED BY <2>1, <3>1, <3>2, <3>3, <3>4
  <2> QED BY <2>2, <2>3
<1>3. good = Nat
  <2> HIDE DEF good
  <2>1. good \in SUBSET Nat
    BY DEF good
  <2> QED BY <1>1, <1>2, <2>1, AllNaturals
<1> QED BY <1>3

\* All bits of 2^k - 1 below the k-th are set.
LEMMA BitsBelow ==
    ASSUME NEW k \in Nat, NEW i \in 0 .. k - 1
    PROVE  Bit(2^k - 1, i) = 1
<1>1. PICK e \in Nat \ {0} : 2^k = 2^i * (2 * e)
  BY PowerDivides
<1>2. PICK x \in Nat \ {0} : x = 2^i
  BY PowerOfNext
<1>3. x * (2 * e) - 1 = x * (2 * e - 1) + (x - 1)
  <2>1. x * (2 * e - 1) = x * (2 * e) - x /\ x * (2 * e) \in Int
    OBVIOUS
  <2> QED BY <2>1
<1>4. (x * (2 * e - 1) + (x - 1)) \div x = 2 * e - 1
  BY DivisionUnique
<1>5. (2 * e - 1) % 2 = 1
  OBVIOUS
<1> QED BY <1>1, <1>2, <1>3, <1>4, <1>5 DEF Bit

\* A number whose bits below the k-th are not set is a multiple of 2^k.
LEMMA AlignedByBits ==
    ASSUME NEW s \in Nat, NEW k \in Nat, \A i \in 0 .. k - 1 : Bit(s, i) = 0
    PROVE  s % 2^k = 0
<1> DEFINE good == {n \in Nat : n <= k => s % 2^n = 0}
<1>1. 0 \in good
  <2>1. 2^0 = 1 /\ s % 1 = 0
    OBVIOUS
  <2> QED BY <2>1
<1>2. ASSUME NEW n \in good PROVE n + 1 \in good
  <2> SUFFICES ASSUME n + 1 <= k PROVE s % 2^(n + 1) = 0
    OBVIOUS
  <2>1. s % 2^n = 0 /\ Bit(s, n) = 0
    <3>1. n \in 0 .. k - 1 /\ n <= k
      OBVIOUS
    <3> QED BY <3>1
  <2>2. PICK x \in Nat \ {0} : x = 2^n /\ 2 * x = 2^(n + 1)
    <3>1. 2^n \in Nat \ {0} /\ 2^(n + 1) = 2 * 2^n
      BY PowerOfNext
    <3> QED BY <3>1
  <2>3. PICK q \in Int : s = x * q
    <3>1. s % x = 0 /\ s \in Int
      BY <2>1, <2>2
    <3> QED BY <3>1, Multiples
  <2>4. s \div x = q
    <3>1. (x * q + 0) \div x = q
      BY DivisionUnique
    <3>2. x * q + 0 = s
      BY <2>3
    <3> QED BY <3>1, <3>2
  <2>5. q % 2 = 0
    BY <2>1, <2>2, <2>4 DEF Bit
  <2>6. PICK p \in Int : q = 2 * p
    BY <2>5, Multiples
  <2>7. s = (2 * x) * p
    <3>1. x * (2 * p) = (2 * x) * p
      OBVIOUS
    <3> QED BY <2>3, <2>6, <3>1
  <2> QED BY <2>2, <2>7, Multiples
<1>3. good = Nat
  <2> HIDE DEF good
  <2>1. good \in SUBSET Nat
    BY DEF good
  <2> QED BY <1>1, <1>2, <2>1, AllNaturals
<1>4. k \in good
  BY <1>3
<1> QED BY <1>4

----------------------------------------------------------------------------
(* The walk. *)

\* Every step, sequential or random, goes forward or stays.
LEMMA StepsForward ==
    ASSUME TypeOK, fixed_step > 0
    PROVE  Steps \subseteq Nat
<1>1. cfg \in Configs /\ fixed_step \in Int
  BY ConfigsAssumption DEF TypeOK, Config, fixed_step
<1>2. fixed_step \in Granularities
  BY <1>1 DEF Granularities, fixed_step
<1>3. StepTable[fixed_step] = RandomSteps(fixed_step)
  BY <1>2 DEF StepTable
<1>4. RandomSteps(fixed_step) \subseteq 0 .. BoundShift * fixed_step - 1
  BY DEF RandomSteps, WithBits
<1>5. 0 .. BoundShift * fixed_step - 1 \subseteq Nat
  BY <1>1 DEF BoundShift
<1> QED
  BY <1>1, <1>3, <1>4, <1>5 DEF Steps

\* A whole block from a place before the rounded size ends within the spill.
LEMMA BlockWithinSpill ==
    ASSUME NEW g \in Nat, NEW r \in Nat, r % 16 = 0, r < g - (g % 8)
    PROVE  r + 16 <= g + (IF g % 16 < 8 THEN 0 ELSE 8)
<1>1. CASE g % 16 < 8
  <2>1. g % 8 = g % 16
    BY <1>1, SMT
  <2>2. (g - (g % 16)) % 16 = 0
    BY SMT
  <2> QED
    BY <1>1, <2>1, <2>2, SMT
<1>2. CASE g % 16 >= 8
  <2>1. g % 8 = (g % 16) - 8
    BY <1>2, SMT
  <2>2. (g - (g % 16)) % 16 = 0
    BY SMT
  <2> QED
    BY <1>2, <2>1, <2>2, SMT
<1> QED
  BY <1>1, <1>2, SMT

LEMMA CfgTypes ==
    ASSUME TypeOK
    PROVE  /\ cfg \in Config
           /\ fixed_step \in Int
           /\ cfg.per_thread_size \in Nat /\ cfg.read_ratio \in Nat
           /\ cfg.stall_ratio \in Nat
           /\ SliceStart \in Nat
<1>1. cfg \in Config
  BY ConfigsAssumption DEF TypeOK
<1>2. cfg.per_thread_size \in Nat
  BY <1>1 DEF Config
<1>3. thread_idx \in Nat
  BY NumThreadAssumption DEF TypeOK
<1>4. SliceStart \in Nat
  BY <1>2, <1>3, SMT DEF SliceStart
<1> QED
  BY <1>1, <1>4 DEF Config, fixed_step

Core == TypeOK /\ OffsetInv /\ FitInv /\ BlockInv /\ CountedAsTouched /\ MixedRatio

LEMMA InitCore == Init => Core
<1> SUFFICES ASSUME Init PROVE Core
  OBVIOUS
<1>1. cfg \in Config
  BY ConfigsAssumption DEF Init
<1>2. cfg.per_thread_size \in Nat /\ cfg.read_ratio \in Nat /\ cfg.stall_ratio \in Nat
  BY <1>1 DEF Config
<1>3. thread_idx \in Nat
  BY NumThreadAssumption DEF Init
<1>4. SliceStart \in Nat
  BY <1>2, <1>3, SMT DEF SliceStart
<1>5. TypeOK
  BY <1>2, <1>4 DEF Init, TypeOK, Points
<1>6. MixedRatio /\ CountedAsTouched
  BY <1>2, SMT DEF Init, MixedRatio, CountedAsTouched
<1> QED
  BY <1>4, <1>5, <1>6 DEF Init, Core, OffsetInv, FitInv, BlockInv, BLOCK

LEMMA NextCore == Core /\ [Next]_vars => Core'
<1> SUFFICES ASSUME Core, [Next]_vars PROVE Core'
  OBVIOUS
<1> USE DEF BLOCK, MIN_GRANULARITY
<1>0. /\ cfg \in Config /\ fixed_step \in Int /\ SliceStart \in Nat
      /\ cfg.per_thread_size \in Nat /\ cfg.read_ratio \in Nat
      /\ cfg.stall_ratio \in Nat
  BY CfgTypes DEF Core
<1>1. CASE Wrap
  <2>1. UNCHANGED <<cfg, thread_idx, fixed_step, SliceStart, RoundedSize>>
    BY <1>1 DEF Wrap, fixed_step, SliceStart, RoundedSize
  <2>2. TypeOK' /\ OffsetInv'
    BY <1>0, <1>1, <2>1 DEF Wrap, addressVars, historyVars, Core, TypeOK, Points, OffsetInv
  <2>3. FitInv'
    BY <1>0, <1>1, <2>1 DEF Wrap, addressVars, PastEnd, Core, TypeOK, FitInv
  <2>4. BlockInv' /\ CountedAsTouched' /\ MixedRatio'
    BY <1>1, <2>1 DEF Wrap, historyVars, Core, BlockInv, CountedAsTouched, MixedRatio
  <2> QED
    BY <2>2, <2>3, <2>4 DEF Core
<1>2. CASE BeginOp
  <2>1. UNCHANGED <<cfg, thread_idx, fixed_step, SliceStart, RoundedSize>>
    BY <1>2 DEF BeginOp, fixed_step, SliceStart, RoundedSize
  <2>2. TypeOK' /\ OffsetInv' /\ MixedRatio'
    BY <1>2, <2>1 DEF BeginOp, addressVars, historyVars, Core, TypeOK, Points, OffsetInv, MixedRatio
  <2>3. FitInv'
    BY <1>2, <2>1 DEF BeginOp, addressVars, Core, FitInv
  <2>4. CountedAsTouched'
    BY <1>2, <2>1 DEF BeginOp, historyVars, Core, BlockInv, CountedAsTouched
  <2>5. fixed_step >= 8 => RoundedSize > 0
    BY <1>0, SMT DEF RoundedSize
  <2>6. BlockInv'
    BY <1>0, <1>2, <2>1, <2>5 DEF BeginOp, BlockInv
  <2> QED
    BY <2>2, <2>3, <2>4, <2>6 DEF Core
<1>3. CASE Block
  <2>1. UNCHANGED <<cfg, thread_idx, fixed_step, SliceStart, RoundedSize>>
    BY <1>3 DEF Block, fixed_step, SliceStart, RoundedSize
  <2>2. TypeOK' /\ OffsetInv' /\ MixedRatio'
    BY <1>3, <2>1 DEF Block, addressVars, Core, TypeOK, Points, OffsetInv, MixedRatio
  <2>3. FitInv'
    BY <1>3, <2>1 DEF Block, addressVars, Core, FitInv
  <2>4. CountedAsTouched'
    BY <1>3, <2>1, SMT DEF Block, Core, TypeOK, CountedAsTouched
  <2>5. r10 \in Nat /\ RoundedSize \in Int /\ (r10 + 16) % 16 = 0
    BY <1>0, SMT DEF Core, TypeOK, BlockInv, RoundedSize
  <2>6. BlockInv'
    BY <1>3, <2>1, <2>5 DEF Block, MoreBlocks, Core, BlockInv
  <2> QED
    BY <2>2, <2>3, <2>4, <2>6 DEF Core
<1>4. CASE CountAndStep
  <2>1. UNCHANGED <<cfg, thread_idx, fixed_step, SliceStart, RoundedSize>>
    BY <1>4 DEF CountAndStep, fixed_step, SliceStart, RoundedSize
  <2>2. fixed_step >= 8 /\ r10 >= RoundedSize /\ r10 < RoundedSize + 16 /\ r10 % 16 = 0
    BY <1>4 DEF CountAndStep, Core, BlockInv
  <2>3. PICK step \in Steps : counter' = counter + step /\ Stepped(step)
    BY <1>4 DEF CountAndStep
  <2>4. step \in Nat
    BY <1>0, <2>2, StepsForward DEF Core
  <2>5. counter' \in Nat /\ src' \in Nat /\ dst' \in Nat
    BY <2>3, <2>4 DEF Stepped, Core, TypeOK
  <2>6. mixed_switch' \in 0 .. cfg.read_ratio
    BY <1>0, <1>4 DEF CountAndStep, NextSwitch, Core, TypeOK
  <2>7. TypeOK'
    BY <1>0, <1>4, <2>1, <2>2, <2>5, <2>6 DEF CountAndStep, Core, TypeOK, Points
  <2>8. OffsetInv'
    BY <1>0, <2>1, <2>3, <2>4 DEF Stepped, Core, TypeOK, OffsetInv
  <2>9. MixedRatio'
    <3> SUFFICES ASSUME cfg.op = "MIXED"
                 PROVE  loads' = cfg.read_ratio * stores' + mixed_switch'
      BY <2>1 DEF MixedRatio
    <3>1. loads = cfg.read_ratio * stores + mixed_switch
      BY DEF Core, MixedRatio
    <3>2. CASE mixed_switch = cfg.read_ratio
      <4>1. loads' = loads /\ stores' = stores + 1 /\ mixed_switch' = 0
        BY <1>4, <3>2 DEF CountAndStep, Storing, NextSwitch
      <4>2. cfg.read_ratio * (stores + 1) = cfg.read_ratio * stores + cfg.read_ratio
        BY <1>0, SMT DEF Core, TypeOK
      <4>3. cfg.read_ratio * stores \in Nat
        BY <1>0, SMT DEF Core, TypeOK
      <4> QED
        BY <1>0, <3>1, <3>2, <4>1, <4>2, <4>3
    <3>3. CASE mixed_switch # cfg.read_ratio
      <4>1. loads' = loads + 1 /\ stores' = stores /\ mixed_switch' = mixed_switch + 1
        BY <1>4, <3>3 DEF CountAndStep, Storing, NextSwitch
      <4>2. cfg.read_ratio * stores \in Nat /\ mixed_switch \in Nat
        BY <1>0, SMT DEF Core, TypeOK
      <4> QED
        BY <3>1, <4>1, <4>2
    <3> QED
      BY <3>2, <3>3
  <2>10. fixed_step % 16 = 0 => r10 = fixed_step
    <3> SUFFICES ASSUME fixed_step % 16 = 0 PROVE r10 = fixed_step
      OBVIOUS
    <3>1. RoundedSize = fixed_step
      BY <1>0, SMT DEF RoundedSize
    <3> QED
      BY <1>0, <2>2, <3>1, SMT DEF Core, TypeOK
  <2>11. CountedAsTouched'
    BY <1>0, <1>4, <2>1, <2>10 DEF CountAndStep, Core, TypeOK, CountedAsTouched
  <2>12. FitInv' /\ BlockInv'
    BY <1>4 DEF CountAndStep, FitInv, BlockInv
  <2> QED
    BY <2>7, <2>8, <2>9, <2>11, <2>12 DEF Core
<1>5. CASE Stall
  <2>1. UNCHANGED <<cfg, thread_idx, fixed_step, SliceStart, RoundedSize>>
    BY <1>5 DEF Stall, fixed_step, SliceStart, RoundedSize
  <2>2. TypeOK'
    BY <1>0, <1>5, <2>1 DEF Stall, addressVars, historyVars, Core, TypeOK
  <2> QED
    BY <1>5, <2>1, <2>2 DEF Stall, addressVars, historyVars, Core, OffsetInv,
       FitInv, BlockInv, CountedAsTouched, MixedRatio
<1>6. CASE TestHalt
  <2>1. UNCHANGED <<cfg, thread_idx, fixed_step, SliceStart, RoundedSize>>
    BY <1>6 DEF TestHalt, fixed_step, SliceStart, RoundedSize
  <2>2. TypeOK'
    BY <1>6, <2>1 DEF TestHalt, addressVars, historyVars, Core, TypeOK, Points
  <2>3. FitInv' /\ BlockInv' /\ CountedAsTouched'
    BY <1>6, <2>1 DEF TestHalt, historyVars, Core, FitInv, BlockInv, CountedAsTouched
  <2> QED
    BY <1>6, <2>1, <2>2, <2>3 DEF TestHalt, addressVars, historyVars, Core,
       OffsetInv, MixedRatio
<1>7. CASE UNCHANGED vars
  BY <1>7 DEF vars, addressVars, historyVars, Core, TypeOK, OffsetInv, FitInv,
     BlockInv, CountedAsTouched, MixedRatio, fixed_step, SliceStart, RoundedSize
<1> QED
  BY <1>1, <1>2, <1>3, <1>4, <1>5, <1>6, <1>7 DEF Next

----------------------------------------------------------------------------
(* The steps and the passes. *)

\* A step, sequential or random, is a whole number of granularities.
LEMMA StepsAligned ==
    ASSUME TypeOK, fixed_step > 0, ~cfg.random \/ PowerOfTwo(fixed_step),
           NEW step \in Steps
    PROVE  step \in Nat /\ step % fixed_step = 0
<1>0. step \in Nat /\ fixed_step \in Nat \ {0}
  BY StepsForward, CfgTypes
<1>1. CASE ~cfg.random
  <2>1. step = fixed_step * 1
    BY <1>0, <1>1 DEF Steps
  <2> QED BY <1>0, <2>1, Multiples
<1>2. CASE cfg.random
  <2>1. PICK k \in 0 .. WORD_BITS - 1 : fixed_step = 2^k
    BY <1>2 DEF PowerOfTwo
  <2>2. k \in Nat
    BY BoundsAssumption
  <2>3. step \in RandomSteps(fixed_step)
    <3>1. cfg \in Configs
      BY DEF TypeOK
    <3>2. fixed_step \in Granularities
      BY <1>0, <3>1 DEF Granularities, fixed_step
    <3> QED BY <1>2, <3>2 DEF Steps, StepTable
  <2>4. ASSUME NEW i \in 0 .. k - 1
        PROVE  Bit(step, i) = 0
    <3>1. i \in 0 .. WORD_BITS - 1 /\ i \in Nat
      BY <2>2, BoundsAssumption
    <3>2. Bit(2^k - 1, i) = 1
      BY <2>2, BitsBelow
    <3>3. i \notin AlignMask(fixed_step)
      BY <2>1, <3>2 DEF AlignMask
    <3>4. Bit(step, i) # 1
      BY <2>3, <3>1, <3>3 DEF RandomSteps, WithBits
    <3>5. Bit(step, i) \in 0 .. 1
      <4>1. PICK x \in Nat \ {0} : x = 2^i
        BY <3>1, PowerOfNext
      <4>2. step \div x \in Int
        BY <1>0
      <4> QED BY <4>1, <4>2 DEF Bit
    <3> QED BY <3>4, <3>5
  <2> QED BY <1>0, <2>1, <2>2, <2>4, AlignedByBits
<1> QED BY <1>1, <1>2

LEMMA AlignedNext ==
    ASSUME Core, WalkAligned, [Next]_vars
    PROVE  WalkAligned'
<1>0. TypeOK /\ fixed_step \in Int /\ counter \in Nat
  BY CfgTypes DEF Core, TypeOK
<1>1. cfg' = cfg /\ fixed_step' = fixed_step
  BY DEF Next, Wrap, BeginOp, Block, CountAndStep, Stall, TestHalt, vars, fixed_step
<1> SUFFICES ASSUME fixed_step > 0, ~cfg.random \/ PowerOfTwo(fixed_step)
             PROVE  counter' % fixed_step = 0
  BY <1>1 DEF WalkAligned, PowerOfTwo
<1>2. counter % fixed_step = 0
  BY DEF WalkAligned
<1>3. CASE Wrap
  <2>1. 0 % fixed_step = 0
    <3>1. 0 = fixed_step * 0
      BY <1>0
    <3> QED BY <1>0, <3>1, Multiples
  <2> QED BY <1>2, <1>3, <2>1 DEF Wrap, addressVars
<1>4. CASE CountAndStep
  <2>1. PICK step \in Steps : counter' = counter + step
    BY <1>4 DEF CountAndStep
  <2>2. step \in Nat /\ step % fixed_step = 0
    BY <1>0, StepsAligned
  <2>3. fixed_step \in Nat \ {0}
    BY <1>0
  <2>4. (counter + step) % fixed_step = 0
    <3>1. counter \in Int /\ step \in Int
      BY <1>0, <2>2
    <3> QED BY <1>2, <2>2, <2>3, <3>1, MultiplesAdd, Zenon
  <2> QED BY <2>1, <2>4
<1>5. CASE BeginOp \/ Block \/ Stall \/ TestHalt \/ UNCHANGED vars
  <2>1. counter' = counter
    BY <1>5 DEF BeginOp, Block, Stall, TestHalt, vars, addressVars
  <2> QED BY <1>2, <2>1
<1> QED BY <1>3, <1>4, <1>5 DEF Next

LEMMA LapNext ==
    ASSUME Core, LapInv, [Next]_vars
    PROVE  LapInv'
<1>0. /\ fixed_step \in Int /\ cfg.per_thread_size \in Nat
      /\ counter \in Nat /\ loads \in Nat /\ stores \in Nat
  BY CfgTypes DEF Core, TypeOK
<1>1. cfg' = cfg /\ fixed_step' = fixed_step /\ OpsPerPass' = OpsPerPass
  BY DEF Next, Wrap, BeginOp, Block, CountAndStep, Stall, TestHalt, vars, fixed_step,
     OpsPerPass
<1> SUFFICES ASSUME ~cfg.random, fixed_step \in 1 .. cfg.per_thread_size
             PROVE  counter' = fixed_step * Lap'
  BY <1>1 DEF LapInv
<1> DEFINE g == fixed_step  n == OpsPerPass  done == loads + stores
<1>2. counter = g * Lap
  BY DEF LapInv
<1>3. g \in Nat \ {0} /\ done \in Nat /\ n \in Nat \ {0}
  <2>1. g \in Nat \ {0} /\ done \in Nat /\ g <= cfg.per_thread_size
    BY <1>0
  <2>2. g * 0 + g <= cfg.per_thread_size
    BY <2>1
  <2>3. 0 < cfg.per_thread_size \div g
    BY <1>0, <2>1, <2>2, OpsFit
  <2>4. cfg.per_thread_size \div g \in Int
    BY <1>0, <2>1
  <2> QED BY <2>1, <2>3, <2>4 DEF OpsPerPass
<1>4. CASE Wrap
  <2>1. /\ pc = "loop" /\ pc' = "op" /\ loads' = loads /\ stores' = stores
        /\ counter' = IF PastEnd THEN 0 ELSE counter
    BY <1>4 DEF Wrap, addressVars, historyVars
  <2>2. Lap' = done % n
    BY <1>1, <2>1 DEF Lap
  <2>3. Lap = IF done = 0 THEN 0 ELSE ((done - 1) % n) + 1
    BY <2>1 DEF Lap
  <2>4. Lap \in Nat /\ Lap <= n /\ done % n = IF Lap = n THEN 0 ELSE Lap
    <3>1. CASE done = 0
      <4>1. 0 % n = 0
        <5>1. 0 = n * 0
          BY <1>3
        <5> QED BY <1>3, <5>1, Multiples
      <4> QED BY <1>3, <2>3, <3>1, <4>1
    <3>2. CASE done # 0
      <4> DEFINE d == done - 1
      <4>1. d \in Nat /\ done = d + 1
        BY <1>3, <3>2
      <4> HIDE DEF d, n
      <4>2. /\ d % n \in 0 .. n - 1
            /\ (d + 1) % n = IF d % n = n - 1 THEN 0 ELSE (d % n) + 1
        BY <1>3, <4>1, NextRemainder
      <4>3. Lap = (d % n) + 1
        BY <2>3, <3>2 DEF d
      <4> QED BY <1>3, <4>1, <4>2, <4>3
    <3> QED BY <3>1, <3>2
  <2>5. PastEnd <=> ~(Lap < n)
    <3>1. g * Lap + g <= cfg.per_thread_size <=> Lap < cfg.per_thread_size \div g
      BY <1>0, <1>3, <2>4, OpsFit
    <3>2. g * Lap \in Nat
      BY <1>3, <2>4
    <3> QED BY <1>0, <1>2, <1>3, <3>1, <3>2 DEF PastEnd, OpsPerPass
  <2>6. CASE Lap = n
    <3>1. counter' = 0 /\ Lap' = 0
      BY <1>3, <2>1, <2>2, <2>4, <2>5, <2>6
    <3> QED BY <1>3, <3>1
  <2>7. CASE Lap # n
    <3>1. counter' = counter /\ Lap' = Lap
      BY <1>3, <2>1, <2>2, <2>4, <2>5, <2>7
    <3> QED BY <1>2, <3>1
  <2> QED BY <2>6, <2>7
<1>5. CASE CountAndStep
  <2>1. pc = "count" /\ pc' = "stall" /\ counter' = counter + g
    BY <1>5 DEF CountAndStep, Steps
  <2>2. loads' + stores' = done + 1
    BY <1>0, <1>5 DEF CountAndStep
  <2>3. Lap = done % n /\ Lap' = ((done + 1 - 1) % n) + 1
    BY <1>1, <1>3, <2>1, <2>2 DEF Lap
  <2>4. done + 1 - 1 = done /\ done % n \in Nat
    <3> HIDE DEF done, n
    <3>1. done % n \in 0 .. n - 1
      BY <1>3, NextRemainder
    <3> QED BY <1>3, <3>1
  <2>5. Lap \in Nat /\ Lap' = Lap + 1
    BY <2>3, <2>4
  <2>6. g * (Lap + 1) = g * Lap + g
    BY <1>3, <2>5
  <2> QED BY <1>2, <2>1, <2>5, <2>6
<1>6. CASE BeginOp \/ Block \/ Stall \/ TestHalt \/ UNCHANGED vars
  <2>1. /\ counter' = counter /\ loads' = loads /\ stores' = stores
        /\ pc' \in {"op", "block", "count", "exit1"}
                <=> pc \in {"op", "block", "count", "exit1"}
    BY <1>6 DEF BeginOp, Block, Stall, TestHalt, vars, addressVars, historyVars
  <2>2. Lap' = Lap
    BY <1>1, <2>1 DEF Lap
  <2> QED BY <1>2, <2>1, <2>2
<1> QED BY <1>4, <1>5, <1>6 DEF Next

LEMMA InitInv == Init => Inv
<1> SUFFICES ASSUME Init PROVE Inv
  OBVIOUS
<1>1. Core
  BY InitCore
<1>2. WalkAligned
  <2> SUFFICES ASSUME fixed_step > 0 PROVE counter % fixed_step = 0
    BY DEF WalkAligned
  <2>1. fixed_step \in Nat \ {0} /\ counter = 0
    BY <1>1, CfgTypes DEF Core, Init
  <2>2. 0 = fixed_step * 0
    BY <2>1
  <2> QED BY <2>1, <2>2, Multiples
<1>3. LapInv
  <2>1. fixed_step \in Int /\ counter = 0 /\ Lap = 0
    BY <1>1, CfgTypes DEF Core, Init, Lap
  <2> QED BY <2>1 DEF LapInv
<1> QED BY <1>1, <1>2, <1>3 DEF Core, Inv

LEMMA NextInv == Inv /\ [Next]_vars => Inv'
<1>1. Core <=> /\ TypeOK /\ OffsetInv /\ FitInv /\ BlockInv /\ CountedAsTouched
               /\ MixedRatio
  BY DEF Core
<1>2. Inv /\ [Next]_vars => Core' /\ WalkAligned' /\ LapInv'
  BY <1>1, NextCore, AlignedNext, LapNext DEF Inv
<1> QED BY <1>2 DEF Inv, Core

\* The conjunction of types, offsets, blocks, count, ratio, alignment and passes
\* holds throughout.
THEOREM Invariance == Spec => []Inv
<1> QED
  BY InitInv, NextInv, PTL DEF Spec

LEMMA TurnLines == Inv => Turn.reads \union Turn.writes \subseteq Lines(src) \union Lines(dst)
<1> SUFFICES ASSUME Inv
             PROVE  Turn.reads \union Turn.writes \subseteq Lines(src) \union Lines(dst)
  OBVIOUS
<1>1. cfg.op \in Ops
  BY CfgTypes DEF Inv, Config
<1> QED
  BY <1>1 DEF Ops, Turn, op_ntld, op_ld, op_ntst, op_st, op_movdir64B,
     SIZENTLD_1024, SIZELD_1024, SIZENTST_1024, SIZEST_1024, SIZEMOV_1024

LEMMA InvInSlice == Inv => InSlice
<1> SUFFICES ASSUME Inv, pc = "block", fixed_step <= cfg.per_thread_size
             PROVE  Turn.reads \union Turn.writes \subseteq Slice
  BY DEF InSlice
<1>1. /\ fixed_step \in Int /\ SliceStart \in Nat /\ cfg.per_thread_size \in Nat
  BY CfgTypes DEF Inv
<1>2. /\ r10 \in Nat /\ counter \in Nat
      /\ src = SliceStart + counter /\ dst = SliceStart + counter
      /\ counter + fixed_step <= cfg.per_thread_size
      /\ fixed_step >= 8 /\ r10 % 16 = 0 /\ r10 < fixed_step - (fixed_step % 8)
  BY DEF Inv, TypeOK, OffsetInv, FitInv, BlockInv, BLOCK, MIN_GRANULARITY, RoundedSize
<1>3. r10 + 16 <= fixed_step + Spill
  BY <1>1, <1>2, BlockWithinSpill DEF Spill, BLOCK, MIN_GRANULARITY
<1>4. Spill \in Nat
  BY DEF Spill, MIN_GRANULARITY
<1>5. Lines(src) \subseteq Slice /\ Lines(dst) \subseteq Slice
  BY <1>1, <1>2, <1>3, <1>4 DEF Lines, Slice, BLOCK
<1> QED
  BY <1>5, TurnLines

\* Whatever the granularity, the slice and the random steps, an operation stays
\* in the thread's slice, up to the 512 bytes of a granularity that ends in a
\* half block.
THEOREM StaysInSlice == Spec => []InSlice
<1> QED
  BY Invariance, InvInSlice, PTL

\* For a granularity of whole blocks curr_op_cnt is what has been accessed.
THEOREM CountIsExact == Spec => []CountedAsTouched
<1>1. Inv => CountedAsTouched
  BY DEF Inv
<1> QED
  BY <1>1, Invariance, PTL

\* The mixed operation loads read_ratio times per store, for every ratio.
THEOREM RatioKept == Spec => []MixedRatio
<1>1. Inv => MixedRatio
  BY DEF Inv
<1> QED
  BY <1>1, Invariance, PTL

\* Whatever word xorshf96 returns, a random step of a granularity that is a power
\* of two is a multiple of it, and so is every place of the walk.
THEOREM StaysAligned == Spec => []WalkAligned
<1>1. Inv => WalkAligned
  BY DEF Inv
<1> QED
  BY <1>1, Invariance, PTL

\* For every granularity and slice, divisible or not, operation number n of a
\* sequential walk is at step n modulo the number of steps that fit.
THEOREM VisitsInOrder == Spec => []WalkInOrder
<1>1. Inv => WalkInOrder
  <2> SUFFICES ASSUME Inv, pc = "block", ~cfg.random, fixed_step <= cfg.per_thread_size
               PROVE  counter = fixed_step
                        * ((loads + stores) % (cfg.per_thread_size \div fixed_step))
    BY DEF WalkInOrder
  <2>1. fixed_step \in Int /\ cfg.per_thread_size \in Nat /\ fixed_step >= 8
    BY CfgTypes DEF Inv, BlockInv, MIN_GRANULARITY
  <2> QED BY <2>1 DEF Inv, LapInv, Lap, OpsPerPass
<1> QED
  BY <1>1, Invariance, PTL

\* A line of a thread's slice or of the spill after it, found in the slice of
\* another thread, is in the spill, at the beginning of the next thread's slice.
LEMMA SpillIntoNext ==
    ASSUME NEW i \in Nat, NEW t \in Nat, t # i, NEW size \in Nat,
           NEW spill \in Nat, spill <= size, NEW x \in Nat,
           i * size <= x, x < i * size + size + spill,
           t * size <= x, x < (t + 1) * size
    PROVE  t = i + 1 /\ x < t * size + spill
<1>1. i * size \in Nat /\ t * size \in Nat /\ (i + 1) * size = i * size + size
  BY SMT
<1>2. CASE t < i
  <2>1. (t + 1) * size <= i * size /\ (t + 1) * size \in Nat
    BY <1>2, SMT
  <2> QED BY <2>1, <1>1
<1>3. CASE t > i + 1
  <2>1. (i + 2) * size <= t * size /\ (i + 2) * size = i * size + size + size
    BY <1>3, SMT
  <2> QED BY <2>1, <1>1
<1>4. CASE t = i + 1
  BY <1>1, <1>4
<1> QED BY <1>2, <1>3, <1>4

\* No thread accesses a line of another's slice, except for the spill of a
\* granularity that is not one of whole blocks into the next thread's slice, for
\* any number of threads, slices and steps.
THEOREM ThreadsApart == Spec => []KeepsApart
<1>1. TypeOK /\ BlockInv /\ InSlice => KeepsApart
  <2> SUFFICES ASSUME TypeOK, BlockInv, InSlice, pc = "block", fixed_step <= cfg.per_thread_size,
                      NEW t \in 0 .. NumThread - 1,
                      NEW x \in Turn.reads \union Turn.writes,
                      t # thread_idx, x \in SliceOf(t)
               PROVE  t = thread_idx + 1 /\ x < t * cfg.per_thread_size + Spill
    BY DEF KeepsApart
  <2> DEFINE size == cfg.per_thread_size
  <2>1. /\ thread_idx \in Nat /\ t \in Nat /\ size \in Nat /\ fixed_step \in Int
    BY NumThreadAssumption, ConfigsAssumption DEF TypeOK, Config, fixed_step
  <2>2. x \in SliceStart .. SliceStart + size + Spill - 1
    BY DEF InSlice, Slice
  <2>3. x \in Nat /\ t * size <= x /\ x < (t + 1) * size
    BY DEF SliceOf
  <2>4. Spill \in Nat /\ Spill <= size
    <3>1. MIN_GRANULARITY <= fixed_step /\ fixed_step <= size
      BY DEF BlockInv
    <3>2. Spill = 0 \/ Spill = MIN_GRANULARITY
      BY DEF Spill
    <3> HIDE DEF size
    <3> QED BY <2>1, <3>1, <3>2 DEF MIN_GRANULARITY
  <2>5. thread_idx * size \in Nat /\ thread_idx * size <= x
        /\ x < thread_idx * size + size + Spill
    <3>1. thread_idx * size \in Nat
      BY <2>1, SMT
    <3> HIDE DEF size
    <3> QED BY <2>1, <2>2, <2>3, <2>4, <3>1 DEF SliceStart, size
  <2> HIDE DEF size
  <2> QED BY <2>1, <2>3, <2>4, <2>5, SpillIntoNext DEF size
<1>2. Inv => TypeOK /\ BlockInv
  BY DEF Inv
<1> QED
  BY <1>1, <1>2, Invariance, StaysInSlice, PTL
=============================================================================
