---------------------------- MODULE PcmMonProofs ----------------------------
(***************************************************************************)
(* Proofs about PcmMon, for every window size and any number and contents  *)
(* of reports: no sample is lost, doubled or reordered on its way, what an *)
(* average of get_stat is over, and which averages go together.            *)
(***************************************************************************)
EXTENDS PcmMon, TLAPS

USE DEF L1, DDR

\* The keys, in the order of the dictionary and of the parsers.
LEMMA Orders ==
    /\ Order(1) = L1 /\ Order(2) = DDR /\ Order(3) = "pcm_norm_ipc"
    /\ \A j \in 1 .. 3 : Order(j) \in KeySet
    /\ \A j, k \in 1 .. 3 : Order(j) = Order(k) => j = k
    /\ \A key \in KeySet : \E j \in 1 .. 3 : Order(j) = key
<1>1. Order(1) = L1 /\ Order(2) = DDR /\ Order(3) = "pcm_norm_ipc"
  BY DEF Order, Keys
<1>2. \A j \in 1 .. 3 : j = 1 \/ j = 2 \/ j = 3
  OBVIOUS
<1> QED BY <1>1, <1>2 DEF KeySet

LEMMA ParserKeys ==
    /\ KeysOf("latency") = <<L1, DDR>> /\ KeysOf("all") = <<"pcm_norm_ipc">>
    /\ Len(KeysOf("latency")) = 2 /\ Len(KeysOf("all")) = 1
    /\ \A p \in Processes : /\ Len(KeysOf(p)) \in 1 .. 2
                            /\ ToSet(KeysOf(p)) \subseteq KeySet
    /\ \A p \in Processes : \A i \in 1 .. Len(KeysOf(p)) :
           /\ KeysOf(p)[i] \in KeySet /\ ProcessOf(KeysOf(p)[i]) = p
           /\ \A j \in 1 .. Len(KeysOf(p)) : KeysOf(p)[i] = KeysOf(p)[j] => i = j
    /\ \A key \in KeySet :
           /\ ProcessOf(key) \in Processes
           /\ \E i \in 1 .. Len(KeysOf(ProcessOf(key))) :
                  KeysOf(ProcessOf(key))[i] = key
    /\ ProcessOf(L1) = "latency" /\ ProcessOf(DDR) = "latency"
    /\ L1 \in KeySet /\ DDR \in KeySet
<1>1. /\ KeysOf("latency") = <<L1, DDR>> /\ KeysOf("all") = <<"pcm_norm_ipc">>
      /\ Len(KeysOf("latency")) = 2 /\ Len(KeysOf("all")) = 1
  BY DEF KeysOf
<1>2. \A j \in 1 .. 2 : j = 1 \/ j = 2
  OBVIOUS
<1>3. \A j \in 1 .. 1 : j = 1
  OBVIOUS
<1>4. ASSUME NEW p \in Processes
      PROVE  /\ Len(KeysOf(p)) \in 1 .. 2
             /\ ToSet(KeysOf(p)) \subseteq KeySet
             /\ \A i \in 1 .. Len(KeysOf(p)) :
                    /\ KeysOf(p)[i] \in KeySet /\ ProcessOf(KeysOf(p)[i]) = p
                    /\ \A j \in 1 .. Len(KeysOf(p)) : KeysOf(p)[i] = KeysOf(p)[j] => i = j
  <2>1. CASE p = "latency"
    <3>1. DOMAIN <<L1, DDR>> = 1 .. 2
      OBVIOUS
    <3> QED BY <1>1, <1>2, <2>1, <3>1 DEF KeySet, ProcessOf, ToSet
  <2>2. CASE p = "all"
    <3>1. DOMAIN <<"pcm_norm_ipc">> = 1 .. 1
      OBVIOUS
    <3> QED BY <1>1, <1>3, <2>2, <3>1 DEF KeySet, ProcessOf, ToSet
  <2> QED BY <2>1, <2>2 DEF Processes
<1>5. /\ ProcessOf(L1) = "latency" /\ ProcessOf(DDR) = "latency"
      /\ ProcessOf("pcm_norm_ipc") = "all"
      /\ L1 \in KeySet /\ DDR \in KeySet
  BY DEF ProcessOf, KeySet
<1>6. ASSUME NEW key \in KeySet
      PROVE  /\ ProcessOf(key) \in Processes
             /\ \E i \in 1 .. Len(KeysOf(ProcessOf(key))) :
                    KeysOf(ProcessOf(key))[i] = key
  <2>1. CASE key = L1
    BY <1>1, <1>5, <2>1 DEF Processes
  <2>2. CASE key = DDR
    BY <1>1, <1>5, <2>2 DEF Processes
  <2>3. CASE key = "pcm_norm_ipc"
    BY <1>1, <1>5, <2>3 DEF Processes
  <2> QED BY <2>1, <2>2, <2>3 DEF KeySet
<1> QED BY <1>1, <1>4, <1>5, <1>6

LEMMA NoneWindow == None \in Interval /\ None.last = 0 /\ None.first = 1
  BY DEF None, Interval

\* Where the parsers are, against what was printed.
LEMMA Sizes ==
    ASSUME TypeOK, QueueInv, NEW p \in Processes
    PROVE  /\ Len(reports[p]) \in Nat /\ closed[p] \in Nat /\ Len(queue[p]) \in Nat
           /\ Taken(p) \in Nat
           /\ Taken(p) + Len(queue[p]) = Len(reports[p]) + closed[p]
           /\ Taken(p) \div 2 \in Nat /\ Taken(p) \div 2 <= closed[p]
           /\ closed[p] <= Len(reports[p]) /\ Len(reports[p]) <= closed[p] + 1
           /\ \A key : Recorded(p, key) \in (Taken(p) \div 2) - 1 .. Taken(p) \div 2
<1>1. /\ Len(reports[p]) \in Nat /\ closed[p] \in Nat /\ Len(queue[p]) \in Nat
      /\ Len(reports[p]) - closed[p] \in 0 .. 1 /\ Taken(p) >= 0
  BY DEF TypeOK, QueueInv, QueueOf
<1>2. /\ Taken(p) \in Nat
      /\ Taken(p) + Len(queue[p]) = Len(reports[p]) + closed[p]
  BY <1>1 DEF Taken
<1>3. Taken(p) \div 2 \in Nat /\ Taken(p) \div 2 <= closed[p]
  BY <1>1, <1>2
<1>4. \A key : Recorded(p, key) \in (Taken(p) \div 2) - 1 .. Taken(p) \div 2
  BY <1>3 DEF Recorded
<1> QED BY <1>1, <1>2, <1>3, <1>4

\* Every other line is a separator.
LEMMA BodyIsNoSeparator ==
    ASSUME NEW p \in Processes, NEW n \in Nat
    PROVE  Printed(p, n) = Separator <=> n % 2 = 0
<1>1. CASE n % 2 = 0
  BY <1>1 DEF Printed
<1>2. CASE n % 2 # 0
  <2>1. Printed(p, n).report = (n + 1) \div 2 /\ (n + 1) \div 2 > 0
    BY <1>2 DEF Printed
  <2>2. Separator.report = 0
    BY DEF Separator
  <2> QED BY <1>2, <2>1, <2>2
<1> QED BY <1>1, <1>2

----------------------------------------------------------------------------
(* The lines. *)

\* A line printed stays what it was when more is printed.
LEMMA PrintedKept ==
    ASSUME TypeOK, QueueInv, NEW p \in Processes,
           \A i \in 1 .. Len(reports[p]) : reports'[p][i] = reports[p][i],
           NEW n \in 1 .. Len(reports[p]) + closed[p]
    PROVE  Printed(p, n)' = Printed(p, n)
<1>1. CASE n % 2 = 0
  BY <1>1 DEF Printed, Separator
<1>2. CASE n % 2 # 0
  <2>1. (n + 1) \div 2 \in 1 .. Len(reports[p])
    BY <1>2, Sizes
  <2> QED BY <1>2, <2>1 DEF Printed
<1> QED BY <1>1, <1>2

\* What pcm prints is the line that comes next.
LEMMA Printing ==
    ASSUME TypeOK, QueueInv, NEW p \in Processes, PrintBody(p) \/ PrintSeparator(p)
    PROVE  /\ \A q \in Processes \ {p} : /\ reports'[q] = reports[q]
                                         /\ closed'[q] = closed[q]
                                         /\ queue'[q] = queue[q]
           /\ reports' \in [Processes -> Seq(SUBSET KeySet)]
           /\ closed' \in [Processes -> Nat]
           /\ queue' \in [Processes -> Seq(Line)]
           /\ Len(reports[p]) <= Len(reports'[p])
           /\ \A i \in 1 .. Len(reports[p]) : reports'[p][i] = reports[p][i]
           /\ Len(reports'[p]) - closed'[p] \in 0 .. 1
           /\ \A i \in 1 .. Len(reports'[p]) : reports'[p][i] \subseteq ToSet(KeysOf(p))
           /\ Len(reports'[p]) + closed'[p] = Len(reports[p]) + closed[p] + 1
           /\ \A n : n = Len(reports[p]) + closed[p] + 1 =>
                  queue'[p] = Append(queue[p], Printed(p, n)')
<1>1. CASE PrintBody(p)
  <2>1. PICK found \in {keys \intersect ToSet(KeysOf(p)) : keys \in Founds} :
            /\ reports' = [reports EXCEPT ![p] = Append(@, found)]
            /\ queue' = [queue EXCEPT ![p] = Append(@,
                            [report |-> Len(reports[p]) + 1, found |-> found])]
    BY <1>1 DEF PrintBody
  <2>2. found \subseteq ToSet(KeysOf(p)) /\ found \subseteq KeySet
    BY ParserKeys
  <2>3. closed' = closed /\ closed[p] = Len(reports[p])
    BY <1>1 DEF PrintBody
  <2>4. /\ reports \in [Processes -> Seq(SUBSET KeySet)] /\ reports[p] \in Seq(SUBSET KeySet)
        /\ queue \in [Processes -> Seq(Line)]
        /\ queue[p] \in Seq(Line)
        /\ closed \in [Processes -> Nat] /\ Len(reports[p]) \in Nat
    BY DEF TypeOK
  <2>5. /\ reports'[p] = Append(reports[p], found)
        /\ Len(reports'[p]) = Len(reports[p]) + 1
        /\ \A i \in 1 .. Len(reports[p]) : reports'[p][i] = reports[p][i]
        /\ reports'[p][Len(reports[p]) + 1] = found
        /\ reports' \in [Processes -> Seq(SUBSET KeySet)]
    BY <2>1, <2>2, <2>4
  <2> DEFINE body == [report |-> Len(reports[p]) + 1, found |-> found]
  <2>6. /\ queue' \in [Processes -> Seq(Line)]
        /\ queue'[p] = Append(queue[p], body)
    <3>1. body \in Line
      BY <2>2, <2>4 DEF Line
    <3> HIDE DEF body
    <3>2. queue' = [queue EXCEPT ![p] = Append(@, body)]
      BY <2>1 DEF body
    <3> QED BY <3>1, <3>2, <2>4
  <2>7. \A n : n = Len(reports[p]) + closed[p] + 1 => Printed(p, n)' = body
    <3> SUFFICES ASSUME NEW n, n = Len(reports[p]) + Len(reports[p]) + 1
                 PROVE  Printed(p, n)' = body
      BY <2>3
    <3>1. n \in Nat /\ n % 2 # 0 /\ (n + 1) \div 2 = Len(reports[p]) + 1
      BY <2>4
    <3>2. Printed(p, n)' = [report |-> Len(reports[p]) + 1,
                            found |-> reports'[p][Len(reports[p]) + 1]]
      BY <3>1 DEF Printed
    <3> QED BY <2>5, <3>2
  <2>8. \A i \in 1 .. Len(reports'[p]) : reports'[p][i] \subseteq ToSet(KeysOf(p))
    <3>1. \A i \in 1 .. Len(reports[p]) : reports[p][i] \subseteq ToSet(KeysOf(p))
      BY <2>4 DEF QueueInv, QueueOf
    <3> QED BY <2>2, <2>4, <2>5, <3>1
  <2>9. Len(reports'[p]) - closed'[p] \in 0 .. 1
    BY <2>3, <2>4, <2>5
  <2> QED BY <2>1, <2>3, <2>4, <2>5, <2>6, <2>7, <2>8, <2>9
<1>2. CASE PrintSeparator(p)
  <2> DEFINE l == Len(reports[p])  c == closed[p]
  <2>1. /\ reports' = reports /\ closed' = [closed EXCEPT ![p] = @ + 1]
        /\ queue' = [queue EXCEPT ![p] = Append(@, Separator)] /\ c < l
    BY <1>2 DEF PrintSeparator
  <2>2. l \in Nat /\ c \in Nat /\ l = c + 1
    BY <2>1, Sizes
  <2>4. \A n : n = Len(reports[p]) + closed[p] + 1 => Printed(p, n)' = Separator
    <3>1. \A n : n = Len(reports[p]) + closed[p] + 1 => n % 2 = 0
      BY <2>2
    <3> QED BY <3>1 DEF Printed, Separator
  <2>5. Separator \in Line
    BY DEF Separator, Line
  <2>6. queue' \in [Processes -> Seq(Line)]
    BY <2>1, <2>5 DEF TypeOK
  <2>7. closed'[p] = c + 1 /\ closed' \in [Processes -> Nat]
    BY <2>1, <2>2 DEF TypeOK
  <2>8. \A i \in 1 .. l : reports[p][i] \subseteq ToSet(KeysOf(p))
    <3>1. DOMAIN reports[p] = 1 .. l
      BY DEF TypeOK
    <3> QED BY <3>1 DEF QueueInv, QueueOf
  <2>9. queue'[p] = Append(queue[p], Separator)
    BY <2>1 DEF TypeOK
  <2>10. /\ \A q \in Processes \ {p} : /\ reports'[q] = reports[q]
                                        /\ closed'[q] = closed[q] /\ queue'[q] = queue[q]
         /\ reports \in [Processes -> Seq(SUBSET KeySet)]
    BY <2>1 DEF TypeOK
  <2>11. /\ l <= Len(reports'[p]) /\ Len(reports'[p]) - closed'[p] \in 0 .. 1
         /\ Len(reports'[p]) + closed'[p] = l + c + 1 /\ reports'[p] = reports[p]
    BY <2>1, <2>2, <2>7
  <2> QED BY <2>1, <2>4, <2>6, <2>7, <2>8, <2>9, <2>10, <2>11
<1> QED BY <1>1, <1>2

\* A parser takes the line that comes next.
LEMMA Taking ==
    ASSUME TypeOK, QueueInv, NEW p \in Processes, GetLine(p)
    PROVE  /\ Taken(p)' = Taken(p) + 1
           /\ Head(queue[p]) = Printed(p, Taken(p) + 1)
           /\ Head(queue[p]) \in Line
           /\ queue' \in [Processes -> Seq(Line)]
           /\ \A q \in Processes \ {p} : queue'[q] = queue[q]
           /\ Len(queue'[p]) = Len(queue[p]) - 1
           /\ \A i \in 1 .. Len(queue'[p]) : queue'[p][i] = queue[p][i + 1]
<1>1. /\ queue' = [queue EXCEPT ![p] = Tail(@)] /\ queue[p] # <<>>
      /\ reports' = reports /\ closed' = closed
  BY DEF GetLine, pcmVars
<1>2. /\ queue \in [Processes -> Seq(Line)]
      /\ queue[p] \in Seq(Line)
  BY DEF TypeOK
<1>3. /\ queue'[p] = Tail(queue[p])
      /\ queue' \in [Processes -> Seq(Line)]
      /\ \A q \in Processes \ {p} : queue'[q] = queue[q]
  BY <1>1, <1>2
<1>4. /\ Len(queue'[p]) = Len(queue[p]) - 1 /\ Len(queue[p]) \in Nat \ {0}
      /\ \A i \in 1 .. Len(queue'[p]) : queue'[p][i] = queue[p][i + 1]
      /\ Head(queue[p]) = queue[p][1]
      /\ Head(queue[p]) \in Line
  BY <1>1, <1>2, <1>3
<1>5. queue[p][1] = Printed(p, Taken(p) + 1)
  BY <1>2, <1>4 DEF QueueInv, QueueOf
<1>6. Taken(p)' = Taken(p) + 1
  <2>1. Len(reports[p]) \in Nat /\ closed[p] \in Nat
    BY Sizes
  <2> QED BY <1>1, <1>4, <2>1 DEF Taken
<1> QED BY <1>3, <1>4, <1>5, <1>6

\* What the parser of p adds: the report before the separator it has taken, if
\* that has a value of the key.
LEMMA Appending ==
    ASSUME TypeOK, QueueInv, LinesInv, NEW p \in Processes, AppendSample(p),
           NEW r, r = Taken(p) \div 2, NEW key, key = KeysOf(p)[at[p]]
    PROVE  /\ at[p] \in 1 .. Len(KeysOf(p)) /\ key \in KeySet /\ ProcessOf(key) = p
           /\ r \in 1 .. Len(reports[p]) /\ Taken(p) = 2 * r
           /\ stats' = IF key \in reports[p][r] THEN [stats EXCEPT ![key] = Append(@, r)]
                       ELSE stats
<1>1. at[p] \in 1 .. Len(KeysOf(p)) /\ Taken(p) % 2 = 0 /\ Taken(p) > 0
  <2>1. LinesOf(p) /\ at[p] # 0 /\ Len(KeysOf(p)) \in Nat
    BY ParserKeys DEF LinesInv, AppendSample
  <2> QED BY <2>1 DEF LinesOf
<1>2. key \in KeySet /\ ProcessOf(key) = p
  BY <1>1, ParserKeys
<1>3. /\ Taken(p) \in Nat /\ Len(reports[p]) \in Nat /\ closed[p] \in Nat
      /\ Taken(p) \div 2 <= closed[p] /\ closed[p] <= Len(reports[p])
  BY Sizes
<1>4. r \in 1 .. Len(reports[p]) /\ Taken(p) = 2 * r
  BY <1>1, <1>3
<1>5. Printed(p, Taken(p) - 1) = [report |-> r, found |-> reports[p][r]]
  <2>1. (Taken(p) - 1) % 2 # 0 /\ (Taken(p) - 1 + 1) \div 2 = r
    BY <1>3, <1>4
  <2> QED BY <2>1 DEF Printed
<1>6. lines[p] = <<[report |-> r, found |-> reports[p][r]]>>
  <2>1. Taken(p) % 2 # 1 /\ at[p] # 0
    BY <1>1, ParserKeys DEF AppendSample
  <2> QED BY <2>1, <1>5 DEF LinesInv, LinesOf
<1>7. Matches(p, key) = IF key \in reports[p][r] THEN {1} ELSE {}
  <2>1. DOMAIN lines[p] = {1} /\ lines[p][1].found = reports[p][r]
    BY <1>6
  <2> QED BY <2>1 DEF Matches
<1>8. First({1}) = 1 /\ lines[p][1].report = r
  BY <1>6 DEF First
<1>9. stats' = IF Matches(p, key) = {} THEN stats
               ELSE [stats EXCEPT ![key] = Append(@, lines[p][First(Matches(p, key))].report)]
  BY DEF AppendSample
<1> QED BY <1>1, <1>2, <1>4, <1>7, <1>8, <1>9

\* Nothing of a process that does not move changes.
LEMMA Frame ==
    ASSUME NEW p, reports'[p] = reports[p], closed'[p] = closed[p], queue'[p] = queue[p]
    PROVE  /\ \A n : Printed(p, n)' = Printed(p, n)
           /\ Taken(p)' = Taken(p)
           /\ QueueOf(p) => QueueOf(p)'
           /\ lines'[p] = lines[p] /\ at'[p] = at[p] => (LinesOf(p) => LinesOf(p)')
<1>1. \A n : Printed(p, n)' = Printed(p, n)
  BY DEF Printed, Separator
<1>2. Taken(p)' = Taken(p)
  BY DEF Taken
<1>3. KeysOf(p)' = KeysOf(p)
  BY DEF KeysOf
<1> QED BY <1>1, <1>2, <1>3 DEF QueueOf, LinesOf

\* A line more in the queue is not taken yet.
LEMMA TakenKept ==
    ASSUME TypeOK, QueueInv, NEW p \in Processes, PrintBody(p) \/ PrintSeparator(p)
    PROVE  Taken(p)' = Taken(p)
<1> DEFINE l2 == Len(reports'[p])  c2 == closed'[p]  n2 == Len(queue'[p])
           l == Len(reports[p])  c == closed[p]  n == Len(queue[p])
<1>1. l \in Nat /\ c \in Nat /\ n \in Nat /\ queue[p] \in Seq(Line)
  BY Sizes DEF TypeOK
<1>2. /\ l2 \in Nat /\ c2 \in Nat /\ l2 + c2 = l + c + 1
      /\ \A k : k = l + c + 1 => queue'[p] = Append(queue[p], Printed(p, k)')
  BY Printing
<1>3. n2 = n + 1
  BY <1>1, <1>2
<1> HIDE DEF l, c, n, l2, c2, n2
<1>4. l2 + c2 - n2 = l + c - n
  BY <1>1, <1>2, <1>3
<1> QED BY <1>4 DEF Taken, l, c, n, l2, c2, n2

LEMMA QueueNext ==
    ASSUME TypeOK, QueueInv, [Next]_vars
    PROVE  QueueInv'
<1> SUFFICES ASSUME NEW p \in Processes PROVE QueueOf(p)'
  BY DEF QueueInv
<1>0. QueueOf(p)
  BY DEF QueueInv
<1>1. ASSUME PrintBody(p) \/ PrintSeparator(p)
      PROVE  QueueOf(p)'
  <2> DEFINE l == Len(reports[p])  c == closed[p]  n == Len(queue[p])
  <2>1. /\ queue[p] \in Seq(Line) /\ n \in Nat /\ l \in Nat /\ c \in Nat
        /\ Taken(p) \in Nat /\ Taken(p) + n = l + c
    BY Sizes DEF TypeOK
  <2>2. /\ Len(reports'[p]) - closed'[p] \in 0 .. 1
        /\ \A i \in 1 .. Len(reports'[p]) : reports'[p][i] \subseteq ToSet(KeysOf(p))
        /\ reports'[p] \in Seq(SUBSET KeySet) /\ closed'[p] \in Nat
    BY <1>1, Printing
  <2>3. Len(reports'[p]) + closed'[p] = l + c + 1
    BY <1>1, Printing
  <2>4. PICK k : k = l + c + 1 /\ queue'[p] = Append(queue[p], Printed(p, k)')
    BY <1>1, Printing
  <2>5. /\ DOMAIN queue'[p] = 1 .. n + 1 /\ Len(queue'[p]) = n + 1
        /\ \A i \in 1 .. n : queue'[p][i] = queue[p][i]
        /\ queue'[p][n + 1] = Printed(p, k)'
    BY <2>1, <2>4
  <2>6. Taken(p)' = Taken(p)
    BY <1>1, TakenKept
  <2>7. \A i \in 1 .. l : reports'[p][i] = reports[p][i]
    BY <1>1, Printing
  <2>8. ASSUME NEW i \in 1 .. n + 1
        PROVE  queue'[p][i] = Printed(p, Taken(p) + i)'
    <3>1. CASE i = n + 1
      <4>1. Taken(p) + i = k
        BY <3>1, <2>1, <2>4
      <4>2. \A t : t = Taken(p)' + i => Printed(p, t)' = Printed(p, k)'
        BY <4>1, <2>6
      <4> QED BY <4>2, <3>1, <2>5 DEF Printed
    <3>2. CASE i \in 1 .. n
      <4> DEFINE t == Taken(p)' + i
      <4>1. queue'[p][i] = Printed(p, Taken(p) + i)
        BY <3>2, <2>1, <2>5, <1>0 DEF QueueOf
      <4>2. Taken(p) + i \in 1 .. l + c
        BY <3>2, <2>1
      <4>3. \A m \in 1 .. l + c : Printed(p, m)' = Printed(p, m)
        BY <2>7, PrintedKept
      <4>4. PICK m \in 1 .. l + c : m = Taken(p) + i
        BY <4>2
      <4>5. Printed(p, m)' = queue'[p][i] /\ m = Taken(p)' + i
        BY <4>1, <4>3, <4>4, <2>6
      <4> QED BY <4>5 DEF Printed
    <3> QED BY <3>1, <3>2, <2>1
  <2>9. DOMAIN reports'[p] = 1 .. Len(reports'[p])
    BY <2>2
  <2>10. KeysOf(p)' = KeysOf(p)
    BY DEF KeysOf
  <2> QED BY <2>1, <2>2, <2>5, <2>6, <2>8, <2>9, <2>10 DEF QueueOf
<1>2. CASE GetLine(p)
  <2>1. reports' = reports /\ closed' = closed
    BY <1>2 DEF GetLine, pcmVars
  <2>2. /\ Taken(p)' = Taken(p) + 1 /\ Len(queue'[p]) = Len(queue[p]) - 1
        /\ \A i \in 1 .. Len(queue'[p]) : queue'[p][i] = queue[p][i + 1]
        /\ queue'[p] \in Seq(Line) /\ queue[p] \in Seq(Line)
    BY <1>2, Taking DEF TypeOK
  <2>3. \A n : Printed(p, n)' = Printed(p, n)
    BY <2>1 DEF Printed, Separator
  <2>4. Taken(p) \in Nat
    BY Sizes
  <2>5. ASSUME NEW i \in 1 .. Len(queue'[p])
        PROVE  queue'[p][i] = Printed(p, Taken(p) + i)'
    <3>1. i + 1 \in 1 .. Len(queue[p])
      BY <2>2
    <3>2. queue'[p][i] = Printed(p, Taken(p) + (i + 1))
      BY <3>1, <2>2, <1>0 DEF QueueOf
    <3>3. PICK m : m = Taken(p) + (i + 1)
      OBVIOUS
    <3>4. m = Taken(p)' + i
      BY <3>3, <2>2, <2>4
    <3>5. queue'[p][i] = Printed(p, m)'
      BY <3>2, <3>3, <2>3
    <3> QED BY <3>4, <3>5 DEF Printed
  <2>6. KeysOf(p)' = KeysOf(p)
    BY DEF KeysOf
  <2>7. DOMAIN queue'[p] = 1 .. Len(queue'[p]) /\ Taken(p)' >= 0
    BY <2>2, <2>4
  <2>8. /\ Len(reports'[p]) - closed'[p] \in 0 .. 1
        /\ \A i \in DOMAIN reports'[p] : reports'[p][i] \subseteq ToSet(KeysOf(p))
    BY <1>0, <2>1 DEF QueueOf
  <2> QED BY <2>5, <2>6, <2>7, <2>8 DEF QueueOf
<1>3. ASSUME ~(PrintBody(p) \/ PrintSeparator(p)), ~GetLine(p)
      PROVE  reports'[p] = reports[p] /\ closed'[p] = closed[p] /\ queue'[p] = queue[p]
  <2>1. CASE \E q \in Processes \ {p} : PrintBody(q) \/ PrintSeparator(q)
    BY <2>1, Printing
  <2>2. CASE \E q \in Processes \ {p} : GetLine(q)
    BY <2>2, Taking DEF GetLine, pcmVars
  <2>3. CASE StartAll \/ (\E q \in Processes : Stop(q) \/ AppendSample(q))
             \/ Sampler \/ UNCHANGED vars
    BY <2>3 DEF StartAll, Stop, AppendSample, Sampler, BeginRound, TakeLength,
       TakeWindow, UpdateMetric, vars, pcmVars
  <2> QED BY <1>3, <2>1, <2>2, <2>3 DEF Next, Pcm, Parser
<1> QED BY <1>0, <1>1, <1>2, <1>3, Frame

LEMMA LinesNext ==
    ASSUME TypeOK, QueueInv, LinesInv, [Next]_vars
    PROVE  LinesInv'
<1> SUFFICES ASSUME NEW p \in Processes PROVE LinesOf(p)'
  BY DEF LinesInv
<1>0. LinesOf(p) /\ Taken(p) \in Nat /\ KeysOf(p)' = KeysOf(p)
  BY Sizes DEF LinesInv, KeysOf
<1>1. ASSUME PrintBody(p) \/ PrintSeparator(p)
      PROVE  LinesOf(p)'
  <2>1. lines' = lines /\ at' = at
    BY <1>1 DEF PrintBody, PrintSeparator, parserVars
  <2>2. Taken(p)' = Taken(p)
    BY <1>1, TakenKept
  <2>3. \A n \in 1 .. Taken(p) : Printed(p, n)' = Printed(p, n)
    <3>1. \A n \in 1 .. Len(reports[p]) + closed[p] : Printed(p, n)' = Printed(p, n)
      <4>1. \A i \in 1 .. Len(reports[p]) : reports'[p][i] = reports[p][i]
        BY <1>1, Printing
      <4> QED BY <4>1, PrintedKept
    <3>2. 1 .. Taken(p) \subseteq 1 .. Len(reports[p]) + closed[p]
      BY Sizes
    <3> QED BY <3>1, <3>2
  <2>4. CASE Taken(p) % 2 = 1
    <3>1. PICK m \in 1 .. Taken(p) : m = Taken(p)
      BY <1>0, <2>4
    <3>2. lines[p] = <<Printed(p, m)'>> /\ m = Taken(p)'
      BY <1>0, <2>2, <2>3, <2>4, <3>1 DEF LinesOf
    <3>3. lines'[p] = <<Printed(p, Taken(p))>>'
      BY <2>1, <3>2 DEF Printed
    <3> QED BY <1>0, <2>1, <2>2, <2>4, <3>3 DEF LinesOf
  <2>5. CASE Taken(p) % 2 # 1 /\ at[p] # 0
    <3>1. PICK m \in 1 .. Taken(p) : m = Taken(p) - 1
      BY <1>0, <2>5 DEF LinesOf
    <3>2. lines[p] = <<Printed(p, m)'>> /\ m = Taken(p)' - 1
      BY <1>0, <2>2, <2>3, <2>5, <3>1 DEF LinesOf
    <3>3. lines'[p] = <<Printed(p, Taken(p) - 1)>>'
      BY <2>1, <3>2 DEF Printed
    <3> QED BY <1>0, <2>1, <2>2, <2>5, <3>3 DEF LinesOf
  <2>6. CASE Taken(p) % 2 # 1 /\ at[p] = 0
    BY <1>0, <2>1, <2>2, <2>6 DEF LinesOf
  <2> QED BY <2>4, <2>5, <2>6
<1>2. CASE GetLine(p)
  <2>1. /\ at[p] = 0
        /\ IF Head(queue[p]) = Separator
           THEN at' = [at EXCEPT ![p] = 1] /\ UNCHANGED lines
           ELSE lines' = [lines EXCEPT ![p] = Append(@, Head(queue[p]))] /\ UNCHANGED at
        /\ reports' = reports
    BY <1>2 DEF GetLine, pcmVars
  <2>2. Taken(p)' = Taken(p) + 1 /\ Head(queue[p]) = Printed(p, Taken(p) + 1)
    BY <1>2, Taking
  <2>3. PICK m \in Nat : m = Taken(p) + 1
    BY <1>0
  <2>4. Printed(p, m) = Separator <=> m % 2 = 0
    BY BodyIsNoSeparator
  <2>5. \A n : Printed(p, n)' = Printed(p, n)
    BY <2>1 DEF Printed, Separator
  <2>6. CASE m % 2 = 0
    <3>1. lines' = lines /\ at'[p] = 1
      BY <2>1, <2>2, <2>3, <2>4, <2>6 DEF TypeOK
    <3>2. PICK n \in Nat : n = Taken(p)
      BY <1>0
    <3>3. n % 2 = 1
      BY <2>3, <2>6, <3>2
    <3>4. lines'[p] = <<Printed(p, n)'>> /\ n = Taken(p)' - 1 /\ Taken(p)' = m
      BY <1>0, <2>2, <2>3, <2>5, <3>1, <3>2, <3>3 DEF LinesOf
    <3>5. lines'[p] = <<Printed(p, Taken(p) - 1)>>'
      BY <3>4 DEF Printed
    <3>6. 1 \in 0 .. Len(KeysOf(p)) /\ m > 0 /\ m % 2 # 1
      <4>1. Len(KeysOf(p)) \in 1 .. 2
        BY ParserKeys
      <4>2. 1 \in 0 .. Len(KeysOf(p))
        BY <4>1
      <4>3. m > 0
        BY <2>3, <1>0
      <4>4. m % 2 # 1
        BY <2>6
      <4> QED BY <4>2, <4>3, <4>4
    <3> QED BY <1>0, <2>6, <3>1, <3>4, <3>5, <3>6 DEF LinesOf
  <2>7. CASE m % 2 # 0
    <3>1. at' = at /\ lines'[p] = Append(lines[p], Printed(p, m))
      BY <2>1, <2>2, <2>3, <2>4, <2>7 DEF TypeOK
    <3>2. Taken(p) % 2 # 1 /\ m % 2 = 1
      BY <1>0, <2>3, <2>7
    <3>3. lines[p] = <<>>
      BY <1>0, <2>1, <3>2 DEF LinesOf
    <3>4. lines'[p] = <<Printed(p, m)'>> /\ m = Taken(p)'
      BY <2>2, <2>3, <2>5, <3>1, <3>3
    <3>5. lines'[p] = <<Printed(p, Taken(p))>>'
      BY <3>4 DEF Printed
    <3> QED BY <1>0, <2>1, <3>1, <3>2, <3>4, <3>5 DEF LinesOf
  <2> QED BY <2>6, <2>7
<1>3. CASE AppendSample(p)
  <2>1. reports'[p] = reports[p] /\ closed'[p] = closed[p] /\ queue'[p] = queue[p]
    BY <1>3 DEF AppendSample, pcmVars
  <2>2. Taken(p)' = Taken(p) /\ \A n : Printed(p, n)' = Printed(p, n)
    BY <2>1, Frame
  <2>3. /\ at[p] \in 1 .. Len(KeysOf(p)) /\ Len(KeysOf(p)) \in Nat
        /\ Taken(p) % 2 = 0 /\ Taken(p) > 0
    BY <1>0, <1>3, ParserKeys, Appending DEF LinesOf, AppendSample
  <2>4. CASE at[p] < Len(KeysOf(p))
    <3>1. lines' = lines /\ at'[p] = at[p] + 1
      BY <1>3, <2>4 DEF AppendSample, TypeOK
    <3>2. PICK n : n = Taken(p) - 1
      OBVIOUS
    <3>3. lines'[p] = <<Printed(p, n)'>> /\ n = Taken(p)' - 1
      BY <1>0, <2>2, <2>3, <3>1, <3>2 DEF LinesOf
    <3>4. lines'[p] = <<Printed(p, Taken(p) - 1)>>'
      BY <3>3 DEF Printed
    <3> QED BY <1>0, <2>2, <2>3, <2>4, <3>1, <3>4 DEF LinesOf
  <2>5. CASE ~(at[p] < Len(KeysOf(p)))
    <3>1. lines'[p] = <<>> /\ at'[p] = 0
      BY <1>3, <2>5 DEF AppendSample, TypeOK, Rest
    <3> QED BY <1>0, <2>2, <2>3, <3>1 DEF LinesOf
  <2> QED BY <2>4, <2>5
<1>4. ASSUME ~(PrintBody(p) \/ PrintSeparator(p)), ~GetLine(p), ~AppendSample(p)
      PROVE  /\ reports'[p] = reports[p] /\ closed'[p] = closed[p] /\ queue'[p] = queue[p]
             /\ lines'[p] = lines[p] /\ at'[p] = at[p]
  <2>1. CASE \E q \in Processes \ {p} : PrintBody(q) \/ PrintSeparator(q)
    BY <2>1, Printing DEF PrintBody, PrintSeparator, parserVars
  <2>2. CASE \E q \in Processes \ {p} : GetLine(q)
    BY <2>2, Taking DEF GetLine, pcmVars, TypeOK
  <2>3. CASE \E q \in Processes \ {p} : AppendSample(q)
    BY <2>3 DEF AppendSample, pcmVars, TypeOK
  <2>4. CASE StartAll \/ (\E q \in Processes : Stop(q)) \/ Sampler \/ UNCHANGED vars
    BY <2>4 DEF StartAll, Stop, Sampler, BeginRound, TakeLength,
       TakeWindow, UpdateMetric, vars, pcmVars, parserVars
  <2> QED BY <1>4, <2>1, <2>2, <2>3, <2>4 DEF Next, Pcm, Parser
<1> QED BY <1>0, <1>1, <1>2, <1>3, <1>4, Frame

----------------------------------------------------------------------------
(* The lists. *)

LEMMA ToSetOfAppend ==
    ASSUME NEW s \in Seq(Nat), NEW e
    PROVE  ToSet(Append(s, e)) = ToSet(s) \union {e}
<1>1. /\ DOMAIN s = 1 .. Len(s) /\ DOMAIN Append(s, e) = 1 .. Len(s) + 1 /\ Len(s) \in Nat
      /\ \A i \in 1 .. Len(s) : Append(s, e)[i] = s[i]
      /\ Append(s, e)[Len(s) + 1] = e
  OBVIOUS
<1>2. ASSUME NEW x \in ToSet(Append(s, e)) PROVE x \in ToSet(s) \union {e}
  BY <1>1 DEF ToSet
<1>3. ASSUME NEW x \in ToSet(s) PROVE x \in ToSet(Append(s, e))
  BY <1>1 DEF ToSet
<1>4. e \in ToSet(Append(s, e))
  <2>1. Len(s) + 1 \in DOMAIN Append(s, e)
    BY <1>1
  <2> QED BY <1>1, <2>1 DEF ToSet
<1> QED BY <1>2, <1>3, <1>4

\* A line taken is no report recorded: a body completes none, and the separator
\* one that is pending for all its keys.
LEMMA RecordedKept ==
    ASSUME TypeOK, QueueInv, LinesInv, NEW p \in Processes, GetLine(p),
           NEW key \in KeySet, ProcessOf(key) = p
    PROVE  Recorded(p, key)' = Recorded(p, key)
<1> DEFINE t == Taken(p)
<1>1. /\ at[p] = 0
      /\ IF Head(queue[p]) = Separator
         THEN at' = [at EXCEPT ![p] = 1] /\ UNCHANGED lines
         ELSE lines' = [lines EXCEPT ![p] = Append(@, Head(queue[p]))] /\ UNCHANGED at
  BY DEF GetLine
<1>2. t \in Nat /\ Taken(p)' = t + 1 /\ Head(queue[p]) = Printed(p, t + 1)
  BY Taking, Sizes
<1>3. PICK m \in Nat : m = t + 1
  BY <1>2
<1>4. Printed(p, m) = Separator <=> m % 2 = 0
  BY BodyIsNoSeparator
<1>5. Recorded(p, key) = t \div 2
  <2>1. ~Pending(p, key) /\ t \div 2 \in Int
    BY <1>1, <1>2 DEF Pending
  <2> QED BY <2>1 DEF Recorded
<1>6. CASE m % 2 = 0
  <2>1. at'[p] = 1
    BY <1>1, <1>2, <1>3, <1>4, <1>6 DEF TypeOK
  <2>2. Pending(p, key)'
    BY <2>1, ParserKeys DEF Pending, KeysOf
  <2>3. (t + 1) \div 2 = t \div 2 + 1 /\ t \div 2 \in Nat
    BY <1>2, <1>3, <1>6
  <2> QED BY <1>2, <1>5, <2>2, <2>3 DEF Recorded
<1>7. CASE m % 2 # 0
  <2>1. at'[p] = 0
    BY <1>1, <1>2, <1>3, <1>4, <1>7
  <2>2. ~Pending(p, key)'
    BY <2>1 DEF Pending
  <2>3. (t + 1) \div 2 = t \div 2 /\ t \div 2 \in Nat
    BY <1>2, <1>3, <1>7
  <2> QED BY <1>2, <1>5, <2>2, <2>3 DEF Recorded
<1> QED BY <1>6, <1>7

\* A sample appended is one report more recorded of its key, and of no other.
LEMMA RecordedOne ==
    ASSUME TypeOK, QueueInv, LinesInv, NEW p \in Processes, AppendSample(p),
           NEW r, r = Taken(p) \div 2, NEW key \in KeySet, ProcessOf(key) = p
    PROVE  IF key = KeysOf(p)[at[p]]
           THEN Recorded(p, key) = r - 1 /\ Recorded(p, key)' = r
           ELSE Recorded(p, key)' = Recorded(p, key)
<1>1. /\ at[p] \in 1 .. Len(KeysOf(p)) /\ r \in Nat /\ Len(KeysOf(p)) \in Nat
      /\ at'[p] = IF at[p] < Len(KeysOf(p)) THEN at[p] + 1 ELSE 0
  <2>1. at[p] \in 1 .. Len(KeysOf(p)) /\ r \in 1 .. Len(reports[p])
    BY Appending
  <2>2. Len(reports[p]) \in Nat /\ Len(KeysOf(p)) \in Nat
    BY ParserKeys DEF TypeOK
  <2>3. at'[p] = IF at[p] < Len(KeysOf(p)) THEN at[p] + 1 ELSE 0
    BY DEF AppendSample, TypeOK
  <2> QED BY <2>1, <2>2, <2>3
<1>2. Taken(p)' = Taken(p) /\ KeysOf(p)' = KeysOf(p)
  BY Frame DEF AppendSample, pcmVars, KeysOf
<1>3. \A i, j \in 1 .. Len(KeysOf(p)) : KeysOf(p)[i] = KeysOf(p)[j] => i = j
  BY ParserKeys
<1>4. CASE key = KeysOf(p)[at[p]]
  <2>1. Pending(p, key)
    BY <1>1, <1>4 DEF Pending
  <2>2. ~Pending(p, key)'
    BY <1>1, <1>2, <1>3, <1>4 DEF Pending
  <2> QED BY <1>1, <1>2, <1>4, <2>1, <2>2 DEF Recorded
<1>5. CASE key # KeysOf(p)[at[p]]
  <2>1. Pending(p, key)' <=> Pending(p, key)
    BY <1>1, <1>2, <1>3, <1>5 DEF Pending
  <2> QED BY <1>2, <1>5, <2>1 DEF Recorded
<1> QED BY <1>4, <1>5

LEMMA ConservedNext ==
    ASSUME TypeOK, QueueInv, LinesInv, Conserved, [Next]_vars
    PROVE  Conserved'
<1> SUFFICES ASSUME NEW key \in KeySet, NEW p, p = ProcessOf(key)
             PROVE  ConservedOf(p, key)'
  BY DEF Conserved, ProcessOf
<1>0. /\ ConservedOf(p, key) /\ p \in Processes /\ Len(reports[p]) \in Nat
      /\ Recorded(p, key) \in Int /\ Recorded(p, key) <= Len(reports[p])
      /\ stats[key] \in Seq(Nat)
  <2>1. p \in Processes
    BY ParserKeys
  <2>2. /\ Taken(p) \div 2 \in Nat /\ Taken(p) \div 2 <= closed[p]
        /\ closed[p] <= Len(reports[p])
        /\ closed[p] \in Nat /\ Len(reports[p]) \in Nat
        /\ Recorded(p, key) \in (Taken(p) \div 2) - 1 .. Taken(p) \div 2
    BY <2>1, Sizes
  <2> QED BY <2>1, <2>2 DEF Conserved, TypeOK
<1>1. ASSUME stats'[key] = stats[key], Recorded(p, key)' = Recorded(p, key),
             \A i \in 1 .. Len(reports[p]) : reports'[p][i] = reports[p][i]
      PROVE  ConservedOf(p, key)'
  <2>1. 1 .. Recorded(p, key) \subseteq 1 .. Len(reports[p])
    BY <1>0
  <2>2. {i \in 1 .. Recorded(p, key) : key \in reports'[p][i]}
            = {i \in 1 .. Recorded(p, key) : key \in reports[p][i]}
    BY <1>1, <2>1
  <2> QED BY <1>0, <1>1, <2>2 DEF ConservedOf
<1>2. CASE PrintBody(p) \/ PrintSeparator(p)
  <2>1. stats' = stats /\ at' = at /\ Taken(p)' = Taken(p)
    BY <1>0, <1>2, TakenKept DEF PrintBody, PrintSeparator, parserVars
  <2>2. \A i \in 1 .. Len(reports[p]) : reports'[p][i] = reports[p][i]
    BY <1>0, <1>2, Printing
  <2>3. Recorded(p, key)' = Recorded(p, key)
    BY <2>1 DEF Recorded, Pending, KeysOf
  <2> QED BY <1>1, <2>1, <2>2, <2>3
<1>3. CASE GetLine(p)
  <2>1. stats' = stats /\ reports' = reports
    BY <1>3 DEF GetLine, pcmVars
  <2> QED BY <1>0, <1>1, <1>3, <2>1, RecordedKept
<1>4. CASE AppendSample(p)
  <2> DEFINE k == KeysOf(p)[at[p]]  s == stats[key]
  <2>1. PICK r : r = Taken(p) \div 2
    OBVIOUS
  <2>2. /\ r \in 1 .. Len(reports[p]) /\ k \in KeySet
        /\ stats' = IF k \in reports[p][r] THEN [stats EXCEPT ![k] = Append(@, r)] ELSE stats
    BY <1>0, <1>4, <2>1, Appending
  <2>3. reports' = reports
    BY <1>4 DEF AppendSample, pcmVars
  <2>4. IF key = k THEN Recorded(p, key) = r - 1 /\ Recorded(p, key)' = r
                   ELSE Recorded(p, key)' = Recorded(p, key)
    BY <1>0, <1>4, <2>1, RecordedOne
  <2>5. CASE key # k
    <3>1. stats'[key] = stats[key]
      BY <2>2, <2>5 DEF TypeOK
    <3> QED BY <1>1, <2>3, <2>4, <2>5, <3>1
  <2>6. CASE key = k
    <3>1. Recorded(p, key) = r - 1 /\ Recorded(p, key)' = r /\ r \in Nat \ {0}
      BY <1>0, <2>2, <2>4, <2>6
    <3>2. ToSet(s) = {i \in 1 .. r - 1 : key \in reports[p][i]}
      BY <1>0, <3>1 DEF ConservedOf
    <3>3. CASE key \in reports[p][r]
      <4>1. stats'[key] = Append(s, r)
        BY <2>2, <2>6, <3>3 DEF TypeOK
      <4>2. /\ s \in Seq(Nat) /\ DOMAIN s = 1 .. Len(s) /\ Len(s) \in Nat
            /\ DOMAIN stats'[key] = 1 .. Len(s) + 1
            /\ \A i \in 1 .. Len(s) : stats'[key][i] = s[i]
            /\ stats'[key][Len(s) + 1] = r
        BY <1>0, <3>1, <4>1
      <4>3. ToSet(stats'[key]) = ToSet(s) \union {r}
        BY <1>0, <4>1, ToSetOfAppend
      <4>4. ToSet(stats'[key]) = {i \in 1 .. r : key \in reports[p][i]}
        BY <3>1, <3>2, <3>3, <4>3
      <4>5. \A i \in 1 .. Len(s) : s[i] \in Nat /\ s[i] < r
        <5>1. \A i \in 1 .. Len(s) : s[i] \in ToSet(s)
          BY <4>2, Zenon DEF ToSet
        <5> QED BY <3>1, <3>2, <5>1
      <4>6. \A i, j \in 1 .. Len(s) : i < j => s[i] < s[j]
        BY <1>0, <4>2 DEF ConservedOf
      <4>7. ASSUME NEW i \in 1 .. Len(s) + 1, NEW j \in 1 .. Len(s) + 1, i < j
            PROVE  stats'[key][i] < stats'[key][j]
        <5>1. i \in 1 .. Len(s)
          BY <4>2, <4>7
        <5>2. CASE j = Len(s) + 1
          BY <4>2, <4>5, <5>1, <5>2
        <5>3. CASE j # Len(s) + 1
          <6>1. j \in 1 .. Len(s)
            BY <4>2, <5>3
          <6> QED BY <4>2, <4>6, <4>7, <5>1, <6>1
        <5> QED BY <5>2, <5>3
      <4> QED BY <2>3, <3>1, <4>2, <4>4, <4>7 DEF ConservedOf
    <3>4. CASE key \notin reports[p][r]
      <4>1. stats' = stats
        BY <2>2, <2>6, <3>4
      <4>2. {i \in 1 .. r - 1 : key \in reports[p][i]} = {i \in 1 .. r : key \in reports[p][i]}
        BY <3>1, <3>4
      <4> QED BY <1>0, <2>3, <3>1, <3>2, <4>1, <4>2 DEF ConservedOf
    <3> QED BY <3>3, <3>4
  <2> QED BY <2>5, <2>6
<1>5. ASSUME ~(PrintBody(p) \/ PrintSeparator(p)), ~GetLine(p), ~AppendSample(p)
      PROVE  /\ reports'[p] = reports[p] /\ closed'[p] = closed[p] /\ queue'[p] = queue[p]
             /\ stats'[key] = stats[key] /\ at'[p] = at[p]
  <2>1. CASE \E q \in Processes \ {p} : PrintBody(q) \/ PrintSeparator(q)
    BY <1>0, <2>1, Printing DEF PrintBody, PrintSeparator, parserVars
  <2>2. CASE \E q \in Processes \ {p} : GetLine(q)
    BY <1>0, <2>2, Taking DEF GetLine, pcmVars, TypeOK
  <2>3. CASE \E q \in Processes \ {p} : AppendSample(q)
    <3>1. PICK q \in Processes \ {p} : AppendSample(q)
      BY <2>3
    <3>2. KeysOf(q)[at[q]] \in KeySet /\ ProcessOf(KeysOf(q)[at[q]]) = q
      BY <3>1, Appending
    <3>3. stats'[key] = stats[key]
      BY <3>1, <3>2 DEF AppendSample, TypeOK
    <3> QED BY <1>0, <3>1, <3>3 DEF AppendSample, pcmVars, TypeOK
  <2>4. CASE StartAll \/ (\E q \in Processes : Stop(q)) \/ Sampler \/ UNCHANGED vars
    BY <2>4 DEF StartAll, Stop, Sampler, BeginRound, TakeLength,
       TakeWindow, UpdateMetric, vars, pcmVars, parserVars
  <2> QED BY <1>5, <2>1, <2>2, <2>3, <2>4 DEF Next, Pcm, Parser
<1>6. ASSUME ~(PrintBody(p) \/ PrintSeparator(p)), ~GetLine(p), ~AppendSample(p)
      PROVE  ConservedOf(p, key)'
  <2>1. Recorded(p, key)' = Recorded(p, key)
    BY <1>5, <1>6 DEF Recorded, Pending, Taken, KeysOf
  <2> QED BY <1>1, <1>5, <1>6, <2>1
<1> QED BY <1>2, <1>3, <1>4, <1>6

----------------------------------------------------------------------------
(* The sampler. *)

\* Whatever a step does, reports and lists are only appended to.
Grows ==
    /\ \A p \in Processes :
          \A i \in 1 .. Len(reports[p]) : reports'[p][i] = reports[p][i]
    /\ stats' \in [KeySet -> Seq(Nat)]
    /\ \A key \in KeySet :
          /\ Len(stats[key]) <= Len(stats'[key])
          /\ \A i \in 1 .. Len(stats[key]) : stats'[key][i] = stats[key][i]

LEMMA OnlyAppended ==
    ASSUME TypeOK, QueueInv, LinesInv, [Next]_vars
    PROVE  Grows
<1>1. CASE \E p \in Processes : PrintBody(p) \/ PrintSeparator(p)
  <2>1. PICK p \in Processes : PrintBody(p) \/ PrintSeparator(p)
    BY <1>1
  <2>2. \A q \in Processes :
            \A i \in 1 .. Len(reports[q]) : reports'[q][i] = reports[q][i]
    <3>1. \A q \in Processes \ {p} : reports'[q] = reports[q]
      BY <2>1, Printing
    <3>2. \A i \in 1 .. Len(reports[p]) : reports'[p][i] = reports[p][i]
      BY <2>1, Printing
    <3> QED BY <3>1, <3>2
  <2>3. stats' = stats
    BY <2>1 DEF PrintBody, PrintSeparator, parserVars
  <2>4. \A key \in KeySet : Len(stats[key]) \in Nat
    BY DEF TypeOK
  <2> QED BY <2>2, <2>3, <2>4 DEF Grows, TypeOK
<1>2. CASE \E p \in Processes : AppendSample(p)
  <2>1. PICK p \in Processes : AppendSample(p)
    BY <1>2
  <2>2. PICK r, key : r = Taken(p) \div 2 /\ key = KeysOf(p)[at[p]]
    OBVIOUS
  <2>3. /\ r \in 1 .. Len(reports[p]) /\ key \in KeySet
        /\ stats' = IF key \in reports[p][r] THEN [stats EXCEPT ![key] = Append(@, r)] ELSE stats
    BY <2>1, <2>2, Appending
  <2>4. r \in Nat /\ stats \in [KeySet -> Seq(Nat)]
    <3>1. Len(reports[p]) \in Nat
      BY DEF TypeOK
    <3> QED BY <2>3, <3>1 DEF TypeOK
  <2>5. reports' = reports
    BY <2>1 DEF AppendSample, pcmVars
  <2>6. \A s \in Seq(Nat) : /\ Append(s, r) \in Seq(Nat) /\ Len(s) <= Len(Append(s, r))
                            /\ \A i \in 1 .. Len(s) : Append(s, r)[i] = s[i]
    BY <2>4
  <2>7. \A s \in Seq(Nat) : Len(s) <= Len(s)
    OBVIOUS
  <2>8. \A k \in KeySet : stats'[k] = stats[k] \/ stats'[k] = Append(stats[k], r)
    BY <2>3, <2>4
  <2>9. stats' \in [KeySet -> Seq(Nat)]
    BY <2>3, <2>4, <2>6
  <2>10. \A k \in KeySet :
             /\ Len(stats[k]) <= Len(stats'[k])
             /\ \A i \in 1 .. Len(stats[k]) : stats'[k][i] = stats[k][i]
    BY <2>4, <2>6, <2>7, <2>8
  <2> QED BY <2>5, <2>9, <2>10 DEF Grows
<1>3. CASE \/ StartAll \/ (\E p \in Processes : Stop(p) \/ GetLine(p))
           \/ Sampler \/ UNCHANGED vars
  <2>1. reports' = reports /\ stats' = stats
    BY <1>3 DEF StartAll, Stop, GetLine, Sampler, BeginRound, TakeLength,
       TakeWindow, UpdateMetric, vars, pcmVars, parserVars
  <2>2. \A key \in KeySet : Len(stats[key]) \in Nat
    BY DEF TypeOK
  <2> QED BY <2>1, <2>2 DEF Grows, TypeOK
<1> QED BY <1>1, <1>2, <1>3 DEF Next, Pcm, Parser

\* Only the sampler writes what is the sampler's.
LEMMA SamplerOwns ==
    ASSUME [Next]_vars
    PROVE  Sampler \/ UNCHANGED samplerVars
BY DEF Next, Pcm, Parser, StartAll, PrintBody, PrintSeparator, Stop, GetLine,
   AppendSample, vars

\* The slice has as many samples as the length said, or fills the window.
LEMMA WindowOk ==
    ASSUME NEW n \in Nat, NEW l \in Nat, NEW k \in Nat, k <= n, n <= l, n >= 1
    PROVE  /\ Window(n, l) \in Interval /\ Window(n, l).last = l
           /\ Window(n, l).last - Window(n, l).first + 1
                 \in Least(k, WINDOW_SIZE) .. Least(l, WINDOW_SIZE)
BY WindowAssumption DEF Window, Interval, Least

LEMMA RoundNext ==
    ASSUME TypeOK, QueueInv, LinesInv, RoundInv, [Next]_vars
    PROVE  RoundInv'
<1>0. Grows
  BY OnlyAppended
<1>1. \A key \in KeySet : /\ Len(stats[key]) \in Nat /\ Len(stats'[key]) \in Nat
                           /\ known[key] \in Nat
                           /\ res[key] \in Interval /\ res[key].last \in Nat
                           /\ Len(stats[key]) <= Len(stats'[key])
  BY <1>0 DEF Grows, TypeOK, Interval
<1>2. CASE UNCHANGED samplerVars
  <2>1. \A key \in KeySet : NewestOf(key) => NewestOf(key)'
    BY <1>1, <1>2 DEF NewestOf, samplerVars
  <2>2. pos \in 1 .. 3 => Order(pos) \in KeySet
    BY Orders
  <2>3. \A j \in 1 .. 3 : Order(j) \in KeySet
    BY Orders
  <2>4. \A j : Order(j)' = Order(j)
    BY DEF Order, Keys
  <2>5. /\ pos' = pos /\ length' = length /\ res' = res /\ known' = known
    BY <1>2 DEF samplerVars
  <2>6. \A key \in KeySet : known'[key] <= Len(stats'[key])
    BY <1>1, <2>5 DEF RoundInv
  <2>7. length # -1 => /\ pos \in 1 .. 3 /\ known[Order(pos)] <= length
                       /\ length <= Len(stats'[Order(pos)])
    <3>1. length # -1 => /\ pos \in 1 .. 3 /\ known[Order(pos)] <= length
                         /\ length <= Len(stats[Order(pos)]) /\ length \in Nat
      BY DEF RoundInv
    <3> QED BY <1>1, <2>2, <3>1
  <2>8. \A j \in 1 .. 3 : IF j < pos THEN NewestOf(Order(j))'
                                      ELSE res[Order(j)] = None
    <3>1. \A j \in 1 .. 3 : IF j < pos THEN NewestOf(Order(j))
                                        ELSE res[Order(j)] = None
      BY DEF RoundInv
    <3>2. \A j \in 1 .. 3 : NewestOf(Order(j)) => NewestOf(Order(j))'
      BY <2>1, <2>3 DEF Order, Keys
    <3> QED BY <3>1, <3>2
  <2> QED BY <1>1, <2>5, <2>6, <2>7, <2>8 DEF RoundInv, Order, Keys
<1>3. CASE Sampler
  <2>0. stats' = stats
    BY <1>3 DEF Sampler, BeginRound, TakeLength, TakeWindow, UpdateMetric, parserVars
  <2>1. CASE BeginRound
    BY <1>1, <2>0, <2>1 DEF BeginRound, RoundInv, Order, Keys
  <2>2. CASE TakeLength
    <3>1. /\ pos \in 1 .. 3 /\ Order(pos) \in KeySet
          /\ length' = Len(stats[Order(pos)]) /\ pos' = pos /\ res' = res /\ known' = known
      BY <2>2, Orders DEF TakeLength
    <3>2. \A key : NewestOf(key)' <=> NewestOf(key)
      BY <2>0, <3>1 DEF NewestOf
    <3> QED BY <1>1, <2>0, <3>1, <3>2 DEF RoundInv, Order, Keys, NewestOf
  <2>3. CASE TakeWindow
    <3>0. PICK key : key = Order(pos)
      OBVIOUS
    <3>1. /\ pos \in 1 .. 3 /\ key \in KeySet /\ length' = -1 /\ pos' = pos + 1
          /\ known' = known /\ length \in Nat
          /\ known[key] <= length /\ length <= Len(stats[key])
      BY <2>3, <3>0, Orders DEF TakeWindow, RoundInv
    <3>2. /\ res' \in [KeySet -> Interval] /\ NewestOf(key)'
          /\ \A k \in KeySet \ {key} : res'[k] = res[k]
      <4>1. CASE HasSamples(length)
        <5> DEFINE w == Window(length, Len(stats[key]))
        <5>1. length >= 1
          BY <4>1 DEF HasSamples
        <5>2. /\ w \in Interval /\ w.last = Len(stats[key])
              /\ w.last - w.first + 1 \in Least(known[key], WINDOW_SIZE)
                                             .. Least(w.last, WINDOW_SIZE)
          BY <1>1, <3>1, <5>1, WindowOk
        <5> HIDE DEF w
        <5>3. res' = [res EXCEPT ![key] = w]
          BY <2>3, <3>0, <4>1 DEF TakeWindow, w
        <5>4. res'[key] = w /\ res' \in [KeySet -> Interval]
          BY <3>1, <5>2, <5>3 DEF TypeOK
        <5>5. NewestOf(key)'
          BY <1>1, <2>0, <3>1, <5>2, <5>4 DEF NewestOf
        <5>6. \A k \in KeySet \ {key} : res'[k] = res[k]
          BY <3>1, <5>3 DEF TypeOK
        <5> QED BY <5>4, <5>5, <5>6
      <4>2. CASE ~HasSamples(length)
        <5>1. length = 0 /\ known[key] = 0
          BY <1>1, <3>1, <4>2 DEF HasSamples
        <5>2. res' = res /\ res[key] = None
          BY <2>3, <3>0, <3>1, <4>2 DEF TakeWindow, RoundInv
        <5>3. Least(0, WINDOW_SIZE) = 0
          BY WindowAssumption DEF Least
        <5>4. NewestOf(key)'
          BY <1>1, <2>0, <3>1, <5>1, <5>2, <5>3, NoneWindow DEF NewestOf
        <5> QED BY <5>2, <5>4 DEF TypeOK
      <4> QED BY <4>1, <4>2
    <3>3. \A k \in KeySet \ {key} : NewestOf(k) => NewestOf(k)'
      BY <2>0, <3>1, <3>2 DEF NewestOf
    <3>4. ASSUME NEW j \in 1 .. 3
          PROVE  IF j < pos' THEN NewestOf(Order(j))' ELSE res'[Order(j)] = None
      <4>1. PICK k : k = Order(j)
        OBVIOUS
      <4>2. k \in KeySet /\ (k = key => j = pos)
        BY <3>0, <3>1, <4>1, Orders
      <4>3. IF j < pos THEN NewestOf(k) ELSE res[k] = None
        BY <4>1 DEF RoundInv
      <4>4. IF j < pos' THEN NewestOf(k)' ELSE res'[k] = None
        <5>1. CASE k = key
          BY <3>1, <3>2, <4>2, <5>1
        <5>2. CASE k # key
          <6>1. j # pos
            BY <3>0, <4>1, <5>2
          <6> QED BY <3>1, <3>2, <3>3, <4>2, <4>3, <5>2, <6>1
        <5> QED BY <5>1, <5>2
      <4> QED BY <4>1, <4>4 DEF Order, Keys
    <3>5. \A k \in KeySet : known[k] <= Len(stats[k])
      BY DEF RoundInv
    <3>6. pos' \in 0 .. 4
      BY <3>1
    <3> QED BY <1>1, <2>0, <3>1, <3>2, <3>4, <3>5, <3>6 DEF RoundInv
  <2>4. CASE UpdateMetric
    <3>1. /\ pos' = 0 /\ length' = -1 /\ res' = [k \in KeySet |-> None]
          /\ known' = [k \in KeySet |-> 0]
      BY <2>4 DEF UpdateMetric, RoundInv
    <3>2. \A j \in 1 .. 3 : ~(j < pos') /\ res'[Order(j)] = None
      BY <3>1, Orders
    <3> QED BY <1>1, <2>0, <3>1, <3>2, NoneWindow DEF RoundInv, Order, Keys
  <2> QED BY <1>3, <2>1, <2>2, <2>3, <2>4 DEF Sampler
<1> QED BY <1>2, <1>3, SamplerOwns

LEMMA TypeNext ==
    ASSUME TypeOK, QueueInv, LinesInv, RoundInv, [Next]_vars
    PROVE  TypeOK'
<1>1. res' \in [KeySet -> Interval] /\ pos' \in 0 .. 4 /\ length' \in Nat \union {-1}
  BY RoundNext DEF RoundInv
<1>2. stats' \in [KeySet -> Seq(Nat)]
  BY OnlyAppended DEF Grows
<1>3. metric' \in [KeySet -> Interval] /\ known' \in [KeySet -> Nat]
  <2>1. CASE Sampler
    <3>1. /\ metric \in [KeySet -> Interval] /\ known \in [KeySet -> Nat]
          /\ \A key \in KeySet : Len(stats[key]) \in Nat /\ res[key] \in Interval
      BY DEF TypeOK
    <3>2. CASE BeginRound
      BY <3>1, <3>2 DEF BeginRound
    <3>3. CASE TakeLength \/ TakeWindow
      BY <3>1, <3>3 DEF TakeLength, TakeWindow
    <3>4. CASE UpdateMetric
      BY <3>1, <3>4 DEF UpdateMetric
    <3> QED BY <2>1, <3>2, <3>3, <3>4 DEF Sampler
  <2>2. CASE UNCHANGED samplerVars
    BY <2>2 DEF samplerVars, TypeOK
  <2> QED BY <2>1, <2>2, SamplerOwns
<1>4. /\ run' \in [Processes -> {"off", "up", "over"}]
      /\ reports' \in [Processes -> Seq(SUBSET KeySet)]
      /\ closed' \in [Processes -> Nat] /\ queue' \in [Processes -> Seq(Line)]
      /\ lines' \in [Processes -> Seq(Line)] /\ at' \in [Processes -> 0 .. 2]
  <2>0. /\ run \in [Processes -> {"off", "up", "over"}]
        /\ reports \in [Processes -> Seq(SUBSET KeySet)]
        /\ closed \in [Processes -> Nat] /\ queue \in [Processes -> Seq(Line)]
        /\ lines \in [Processes -> Seq(Line)] /\ at \in [Processes -> 0 .. 2]
    BY DEF TypeOK
  <2>1. CASE StartAll \/ \E p \in Processes : Stop(p)
    BY <2>0, <2>1 DEF StartAll, Stop, parserVars
  <2>2. CASE \E p \in Processes : PrintBody(p) \/ PrintSeparator(p)
    BY <2>0, <2>2, Printing DEF PrintBody, PrintSeparator, parserVars
  <2>3. CASE \E p \in Processes : GetLine(p)
    <3>1. PICK p \in Processes : GetLine(p)
      BY <2>3
    <3>2. Head(queue[p]) \in Line /\ queue' \in [Processes -> Seq(Line)]
      BY <3>1, Taking
    <3>3. /\ run' = run /\ reports' = reports /\ closed' = closed
          /\ IF Head(queue[p]) = Separator
             THEN at' = [at EXCEPT ![p] = 1] /\ UNCHANGED lines
             ELSE lines' = [lines EXCEPT ![p] = Append(@, Head(queue[p]))] /\ UNCHANGED at
      BY <3>1 DEF GetLine, pcmVars
    <3>4. at' \in [Processes -> 0 .. 2]
      <4>1. at \in [Processes -> 0 .. 2] /\ 1 \in 0 .. 2
        BY <2>0
      <4> QED BY <3>3, <4>1
    <3>5. lines' \in [Processes -> Seq(Line)]
      <4>1. lines \in [Processes -> Seq(Line)] /\ Append(lines[p], Head(queue[p])) \in Seq(Line)
        BY <2>0, <3>2
      <4> QED BY <3>3, <4>1
    <3> QED BY <2>0, <3>2, <3>3, <3>4, <3>5
  <2>4. CASE \E p \in Processes : AppendSample(p)
    <3>1. PICK p \in Processes : AppendSample(p)
      BY <2>4
    <3>2. Len(KeysOf(p)) \in 1 .. 2
      BY ParserKeys
    <3>3. /\ run' = run /\ reports' = reports /\ closed' = closed /\ queue' = queue
          /\ IF at[p] < Len(KeysOf(p))
             THEN at' = [at EXCEPT ![p] = @ + 1] /\ UNCHANGED lines
             ELSE at' = [at EXCEPT ![p] = 0] /\ lines' = [lines EXCEPT ![p] = <<>>]
      BY <3>1 DEF AppendSample, pcmVars, Rest
    <3>4. at' \in [Processes -> 0 .. 2]
      <4>1. at \in [Processes -> 0 .. 2] /\ at[p] \in 0 .. 2 /\ 0 \in 0 .. 2
        BY <2>0
      <4>2. at[p] < Len(KeysOf(p)) => at[p] + 1 \in 0 .. 2
        <5>1. PICK n \in 1 .. 2 : n = Len(KeysOf(p))
          BY <3>2
        <5>2. at[p] < n => at[p] + 1 \in 0 .. 2
          BY <4>1
        <5> QED BY <5>1, <5>2
      <4> QED BY <3>3, <4>1, <4>2
    <3>5. lines' \in [Processes -> Seq(Line)]
      <4>1. lines \in [Processes -> Seq(Line)] /\ <<>> \in Seq(Line)
        BY <2>0
      <4> QED BY <3>3, <4>1
    <3> QED BY <2>0, <3>3, <3>4, <3>5
  <2>5. CASE Sampler \/ UNCHANGED vars
    BY <2>0, <2>5 DEF Sampler, BeginRound, TakeLength, TakeWindow, UpdateMetric,
       vars, pcmVars, parserVars
  <2> QED BY <2>1, <2>2, <2>3, <2>4, <2>5 DEF Next, Pcm, Parser
<1> QED BY <1>1, <1>2, <1>3, <1>4 DEF TypeOK

LEMMA MetricNext ==
    ASSUME TypeOK, QueueInv, LinesInv, RoundInv, MetricInv, [Next]_vars
    PROVE  MetricInv'
<1>0. /\ \A key \in KeySet : /\ Len(stats[key]) \in Nat /\ Len(stats'[key]) \in Nat
                              /\ Len(stats[key]) <= Len(stats'[key])
                              /\ known[key] \in Nat
                              /\ metric[key].last \in Nat /\ res[key].last \in Nat
                              /\ OverSamples(res[key], key) /\ OverSamples(metric[key], key)
      /\ res \in [KeySet -> Interval]
  BY OnlyAppended DEF Grows, TypeOK, Interval, MetricInv
<1>1. \A key \in KeySet : \A a : OverSamples(a, key) => OverSamples(a, key)'
  BY <1>0 DEF OverSamples
<1>2. CASE UNCHANGED samplerVars \/ TakeLength
  <2>1. res' = res /\ metric' = metric /\ known' = known /\ pos' = pos
    BY <1>2 DEF samplerVars, TakeLength
  <2> QED BY <1>0, <2>1 DEF MetricInv, OverSamples
<1>3. CASE BeginRound
  <2>1. /\ res' = res /\ metric' = metric /\ stats' = stats
        /\ \A key \in KeySet : known'[key] = Len(stats[key])
    BY <1>3 DEF BeginRound, parserVars
  <2>2. \A key \in KeySet : metric[key].last <= Len(stats[key])
    BY <1>0, NoneWindow DEF OverSamples
  <2> QED BY <1>0, <2>1, <2>2 DEF MetricInv, OverSamples
<1>4. CASE TakeWindow
  <2>0. PICK k : k = Order(pos)
    OBVIOUS
  <2>1. /\ pos \in 1 .. 3 /\ k \in KeySet /\ length \in Nat /\ length <= Len(stats[k])
        /\ metric' = metric /\ known' = known /\ stats' = stats
    BY <1>4, <2>0, Orders DEF TakeWindow, RoundInv, parserVars
  <2>2. \A key \in KeySet : metric'[key].last <= known'[key]
    BY <2>1 DEF MetricInv
  <2>3. ASSUME NEW key \in KeySet
        PROVE  OverSamples(res[key], key)'
    <3>1. CASE HasSamples(length)
      <4>1. res' = [res EXCEPT ![k] = Window(length, Len(stats[k]))]
        BY <1>4, <2>0, <3>1 DEF TakeWindow
      <4>2. Window(length, Len(stats[k])).last = Len(stats[k]) /\ Len(stats[k]) >= 1
        BY <1>0, <2>1, <3>1 DEF HasSamples, Window
      <4> QED BY <1>0, <2>1, <4>1, <4>2 DEF OverSamples
    <3>2. CASE ~HasSamples(length)
      <4>1. res' = res
        BY <1>4, <3>2 DEF TakeWindow
      <4> QED BY <1>0, <2>1, <4>1 DEF OverSamples
    <3> QED BY <3>1, <3>2
  <2> QED BY <1>0, <2>1, <2>2, <2>3 DEF MetricInv, OverSamples
<1>5. CASE UpdateMetric
  <2>1. /\ stats' = stats /\ pos' = 0
        /\ \A key \in KeySet :
              /\ metric'[key] = IF res[key] = None THEN metric[key] ELSE res[key]
              /\ res'[key] = None
    BY <1>5 DEF UpdateMetric, parserVars
  <2> QED BY <1>0, <2>1 DEF MetricInv, OverSamples
<1> QED BY <1>2, <1>3, <1>4, <1>5, SamplerOwns DEF Sampler

\* What an average of L1 is over, and what it has to do with the list of DDR.
LEMMA OlderKnown ==
    ASSUME TypeOK, QueueInv, Conserved, NEW a, a.last \in 1 .. Len(stats[L1]),
           NEW i \in Older(a)
    PROVE  /\ i \in 1 .. Len(reports["latency"])
           /\ \E j \in 1 .. Len(stats[DDR]) : stats[DDR][j] = i
<1> DEFINE p == "latency"  v == stats[L1][a.last]
<1>1. /\ p \in Processes /\ stats[L1] \in Seq(Nat) /\ stats[DDR] \in Seq(Nat)
      /\ ConservedOf(p, L1) /\ ConservedOf(p, DDR)
  BY ParserKeys DEF Processes, TypeOK, Conserved
<1>2. /\ Len(reports[p]) \in Nat /\ Taken(p) \div 2 \in Nat
      /\ Taken(p) \div 2 <= closed[p] /\ closed[p] <= Len(reports[p]) /\ closed[p] \in Nat
      /\ \A key : Recorded(p, key) \in (Taken(p) \div 2) - 1 .. Taken(p) \div 2
  BY <1>1, Sizes
<1>3. v \in ToSet(stats[L1])
  <2>1. a.last \in DOMAIN stats[L1]
    BY <1>1
  <2> QED BY <2>1, Zenon DEF ToSet
<1>4. v \in 1 .. Recorded(p, L1)
  BY <1>1, <1>3 DEF ConservedOf
<1>5. i \in 1 .. v - 1 /\ DDR \in reports[p][i]
  BY DEF Older
<1>6. i \in 1 .. Recorded(p, DDR) /\ i \in 1 .. Len(reports[p])
  <2>1. /\ Recorded(p, L1) \in (Taken(p) \div 2) - 1 .. Taken(p) \div 2
        /\ Recorded(p, DDR) \in (Taken(p) \div 2) - 1 .. Taken(p) \div 2
    BY <1>2
  <2> HIDE DEF v
  <2> QED BY <1>2, <1>4, <1>5, <2>1
<1>7. i \in ToSet(stats[DDR])
  BY <1>1, <1>5, <1>6 DEF ConservedOf
<1>8. \E j \in DOMAIN stats[DDR] : stats[DDR][j] = i
  BY <1>7, Zenon DEF ToSet
<1> QED BY <1>1, <1>6, <1>8

\* What is known of a pair of averages stays known.
LEMMA PairKept ==
    ASSUME TypeOK, QueueInv, LinesInv, Conserved, Grows,
           NEW a, OverSamples(a, L1), NEW b, OverSamples(b, DDR)
    PROVE  /\ a # None => Older(a)' = Older(a)
           /\ PairInStep(a, b) => PairInStep(a, b)'
<1>1. /\ \A i \in 1 .. Len(stats[L1]) : stats'[L1][i] = stats[L1][i]
      /\ \A i \in 1 .. Len(stats[DDR]) : stats'[DDR][i] = stats[DDR][i]
      /\ \A i \in 1 .. Len(reports["latency"]) : reports'["latency"][i] = reports["latency"][i]
      /\ "latency" \in Processes
  BY ParserKeys DEF Grows, Processes
<1>2. ASSUME a # None
      PROVE  Older(a)' = Older(a)
  <2>1. a.last \in 1 .. Len(stats[L1])
    BY <1>2 DEF OverSamples
  <2>2. stats'[L1][a.last] = stats[L1][a.last]
    BY <1>1, <2>1
  <2> DEFINE v == stats[L1][a.last]  p == "latency"
  <2>3. v - 1 <= Len(reports[p]) /\ v \in Int /\ Len(reports[p]) \in Nat
    <3>1. /\ Len(reports[p]) \in Nat /\ Taken(p) \div 2 \in Nat
          /\ Taken(p) \div 2 <= closed[p] /\ closed[p] <= Len(reports[p]) /\ closed[p] \in Nat
          /\ Recorded(p, L1) \in (Taken(p) \div 2) - 1 .. Taken(p) \div 2
      BY <1>1, Sizes
    <3>2. stats[L1] \in Seq(Nat) /\ ConservedOf(p, L1)
      BY ParserKeys DEF TypeOK, Conserved
    <3>3. v \in ToSet(stats[L1])
      <4>1. a.last \in DOMAIN stats[L1]
        BY <2>1, <3>2
      <4> QED BY <4>1, Zenon DEF ToSet
    <3>4. v \in 1 .. Recorded(p, L1)
      BY <3>2, <3>3 DEF ConservedOf
    <3> HIDE DEF v
    <3> QED BY <3>1, <3>4
  <2>4. \A i \in 1 .. v - 1 : reports'[p][i] = reports[p][i]
    <3> HIDE DEF v
    <3> QED BY <1>1, <2>3
  <2> QED BY <2>2, <2>4 DEF Older
<1>3. ASSUME PairInStep(a, b)
      PROVE  PairInStep(a, b)'
  <2> SUFFICES ASSUME a # None, NEW i \in Older(a)
               PROVE  b # None /\ i <= stats'[DDR][b.last]
    BY <1>2 DEF PairInStep
  <2>1. b # None /\ i <= stats[DDR][b.last]
    BY <1>3 DEF PairInStep
  <2>2. b.last \in 1 .. Len(stats[DDR])
    BY <2>1 DEF OverSamples
  <2> QED BY <1>1, <2>1, <2>2
<1> QED BY <1>2, <1>3

LEMMA PairNext ==
    ASSUME TypeOK, QueueInv, LinesInv, Conserved, RoundInv, MetricInv, PairInv, [Next]_vars
    PROVE  PairInv'
<1>0. /\ Grows /\ L1 \in KeySet /\ DDR \in KeySet /\ Order(2) = DDR /\ Order(1) = L1
      /\ Order(3) # L1 /\ Order(3) # DDR
  BY OnlyAppended, ParserKeys, Orders
<1> DEFINE a == res[L1]  b == res[DDR]  c == metric[L1]  d == metric[DDR]
<1>1. /\ OverSamples(a, L1) /\ OverSamples(b, DDR) /\ OverSamples(c, L1) /\ OverSamples(d, DDR)
      /\ Len(stats[L1]) \in Nat /\ Len(stats[DDR]) \in Nat
      /\ stats[DDR] \in Seq(Nat) /\ a.last \in Nat /\ c.last \in Nat
  BY <1>0 DEF MetricInv, TypeOK, Interval
<1>2. PICK a1, b1, c1, d1 : a1 = a /\ b1 = b /\ c1 = c /\ d1 = d
  OBVIOUS
<1>3. /\ a1 # None => Older(a1)' = Older(a1)
      /\ PairInStep(a1, b1) => PairInStep(a1, b1)'
      /\ PairInStep(c1, d1)'
  BY <1>0, <1>1, <1>2, PairKept DEF PairInv, InStep
<1>4. CASE UNCHANGED samplerVars
  <2>1. /\ res' = res /\ metric' = metric /\ pos' = pos /\ length' = length
    BY <1>4 DEF samplerVars
  <2>2. ASSUME pos = 2, length # -1, a1 # None, NEW i \in Older(a1)
        PROVE  \E j \in 1 .. length : stats'[DDR][j] = i
    <3>1. PICK j \in 1 .. length : stats[DDR][j] = i
      BY <1>2, <2>2 DEF PairInv
    <3>2. length \in Nat /\ length <= Len(stats[DDR])
      BY <1>0, <2>2 DEF RoundInv
    <3>3. stats'[DDR][j] = stats[DDR][j]
      <4>1. j \in 1 .. Len(stats[DDR])
        BY <1>1, <3>2
      <4> QED BY <1>0, <4>1 DEF Grows
    <3> QED BY <3>1, <3>3
  <2>3. /\ pos' = 2 /\ length' # -1 /\ res'[L1] # None =>
               \A i \in Older(a1)' : \E j \in 1 .. length' : stats'[DDR][j] = i
        /\ pos' \in 3 .. 4 => PairInStep(a1, b1)'
    BY <1>2, <1>3, <2>1, <2>2 DEF PairInv
  <2>4. res'[L1] = a1 /\ res'[DDR] = b1 /\ metric'[L1] = c1 /\ metric'[DDR] = d1
    BY <1>2, <2>1
  <2> QED BY <1>3, <2>3, <2>4 DEF PairInv, InStep, PairInStep, Older
<1>5. ASSUME stats' = stats, reports' = reports
      PROVE  /\ \A x : Older(x)' = Older(x)
             /\ \A x, y : PairInStep(x, y)' <=> PairInStep(x, y)
  BY <1>5 DEF PairInStep, Older
<1>6. CASE BeginRound
  <2>1. stats' = stats /\ reports' = reports /\ res' = res /\ metric' = metric /\ pos' = 1
    BY <1>6 DEF BeginRound, parserVars, pcmVars
  <2> QED BY <1>2, <1>3, <2>1 DEF PairInv, InStep, PairInStep, Older
<1>7. CASE TakeLength
  <2>1. /\ stats' = stats /\ reports' = reports /\ res' = res /\ metric' = metric
        /\ pos' = pos /\ length' = Len(stats[Order(pos)])
    BY <1>7 DEF TakeLength, parserVars, pcmVars
  <2>2. ASSUME pos = 2, a1 # None, NEW i \in Older(a1)
        PROVE  \E j \in 1 .. Len(stats[DDR]) : stats[DDR][j] = i
    <3>1. a1.last \in 1 .. Len(stats[L1])
      BY <1>1, <1>2, <2>2 DEF OverSamples
    <3> QED BY <3>1, OlderKnown
  <2> QED BY <1>0, <1>2, <1>3, <2>1, <2>2 DEF PairInv, InStep, PairInStep, Older
<1>8. CASE TakeWindow
  <2>1. /\ stats' = stats /\ reports' = reports /\ metric' = metric
        /\ pos \in 1 .. 3 /\ pos' = pos + 1 /\ length' = -1 /\ length \in Nat
    BY <1>8 DEF TakeWindow, parserVars, pcmVars, RoundInv
  <2>2. InStep'
    BY <1>2, <1>3, <2>1 DEF InStep, PairInStep, Older
  <2>3. CASE pos = 1
    BY <2>1, <2>2, <2>3 DEF PairInv
  <2>4. CASE pos = 2
    <3>1. res'[L1] = a1
      BY <1>0, <1>2, <1>8, <2>4 DEF TakeWindow, TypeOK
    <3>2. ASSUME a1 # None, NEW i \in Older(a1)
          PROVE  res'[DDR] # None /\ i <= stats[DDR][res'[DDR].last]
      <4>1. PICK j \in 1 .. length : stats[DDR][j] = i
        BY <1>2, <2>1, <2>4, <3>2 DEF PairInv
      <4>2. length >= 1 /\ length <= Len(stats[DDR])
        BY <1>0, <2>1, <2>4, <4>1 DEF RoundInv
      <4> DEFINE w == Window(length, Len(stats[DDR]))
      <4>3. w.last = Len(stats[DDR])
        BY DEF Window
      <4> HIDE DEF w
      <4>4. res'[DDR] = w
        BY <1>0, <1>8, <2>4, <4>2 DEF TakeWindow, HasSamples, TypeOK, w
      <4>5. w # None
        BY <1>1, <2>1, <4>2, <4>3, NoneWindow
      <4>6. \A k, l \in DOMAIN stats[DDR] : k < l => stats[DDR][k] < stats[DDR][l]
        BY <1>0 DEF Conserved, ConservedOf
      <4>7. stats[DDR][j] <= stats[DDR][Len(stats[DDR])]
        <5>1. /\ j \in DOMAIN stats[DDR] /\ Len(stats[DDR]) \in DOMAIN stats[DDR]
              /\ j <= Len(stats[DDR])
          BY <1>1, <2>1, <4>2
        <5>2. stats[DDR][j] \in Nat /\ stats[DDR][Len(stats[DDR])] \in Nat
          BY <1>1, <5>1
        <5>3. CASE j < Len(stats[DDR])
          BY <4>6, <5>1, <5>2, <5>3
        <5>4. CASE j = Len(stats[DDR])
          BY <5>2, <5>4
        <5> QED BY <1>1, <5>1, <5>3, <5>4
      <4> QED BY <4>1, <4>3, <4>4, <4>5, <4>7
    <3>3. \A x, y : x = a1 /\ y = res'[DDR] => PairInStep(x, y)
      BY <3>2 DEF PairInStep
    <3>4. PICK y : y = res'[DDR]
      OBVIOUS
    <3>5. PairInStep(a1, y)'
      BY <1>5, <2>1, <3>3, <3>4
    <3>6. PairInStep(res[L1], res[DDR])'
      BY <3>1, <3>4, <3>5 DEF PairInStep, Older
    <3> QED BY <2>1, <2>2, <2>4, <3>6 DEF PairInv
  <2>5. CASE pos = 3
    <3>1. res'[L1] = a1 /\ res'[DDR] = b1
      BY <1>0, <1>2, <1>8, <2>5 DEF TakeWindow, TypeOK
    <3>2. PairInStep(a1, b1)'
      BY <1>2, <1>3, <2>5 DEF PairInv
    <3>3. PairInStep(res[L1], res[DDR])'
      BY <3>1, <3>2 DEF PairInStep, Older
    <3> QED BY <2>1, <2>2, <2>5, <3>3 DEF PairInv
  <2> QED BY <2>1, <2>3, <2>4, <2>5
<1>9. CASE UpdateMetric
  <2>1. /\ stats' = stats /\ reports' = reports /\ pos = 4 /\ pos' = 0
        /\ metric'[L1] = IF a1 = None THEN c1 ELSE a1
        /\ metric'[DDR] = IF b1 = None THEN d1 ELSE b1
    BY <1>0, <1>2, <1>9 DEF UpdateMetric, parserVars, pcmVars
  <2>2. PairInStep(a1, b1)
    BY <1>2, <2>1 DEF PairInv
  <2>3. PICK x, y : x = metric'[L1] /\ y = metric'[DDR]
    OBVIOUS
  <2>4. ASSUME a1 = None
        PROVE  c1 = None
    <3>1. NewestOf(L1) /\ known[L1] \in Nat /\ c1.last \in Nat /\ c1.last <= known[L1]
      BY <1>0, <1>1, <1>2, <2>1 DEF RoundInv, MetricInv
    <3>2. known[L1] = 0
      BY <1>1, <1>2, <2>4, <3>1, NoneWindow DEF NewestOf
    <3>3. c1.last = 0
      BY <3>1, <3>2
    <3> QED BY <1>1, <1>2, <3>3 DEF OverSamples
  <2>5. PairInStep(x, y)
    BY <2>1, <2>2, <2>3, <2>4 DEF PairInStep
  <2>6. PairInStep(x, y)'
    BY <1>5, <2>1, <2>5
  <2>7. InStep'
    BY <2>3, <2>6 DEF InStep, PairInStep, Older
  <2> QED BY <2>1, <2>7 DEF PairInv
<1> QED BY <1>4, <1>6, <1>7, <1>8, <1>9, SamplerOwns DEF Sampler

----------------------------------------------------------------------------
(* The theorems. *)

LEMMA Start == Init => Inv
<1> SUFFICES ASSUME Init PROVE Inv
  OBVIOUS
<1>1. /\ reports = [p \in Processes |-> <<>>] /\ closed = [p \in Processes |-> 0]
      /\ queue = [p \in Processes |-> <<>>] /\ lines = [p \in Processes |-> <<>>]
      /\ at = [p \in Processes |-> 0] /\ stats = [key \in KeySet |-> <<>>]
      /\ pos = 0 /\ length = -1 /\ res = [key \in KeySet |-> None]
      /\ known = [key \in KeySet |-> 0] /\ metric = [key \in KeySet |-> None]
  BY DEF Init
<1>2. TypeOK
  <2>1. run \in [Processes -> {"off", "up", "over"}]
    BY DEF Init
  <2>2. <<>> \in Seq(Line) /\ <<>> \in Seq(Nat) /\ <<>> \in Seq(SUBSET KeySet)
    OBVIOUS
  <2> QED BY <1>1, <2>1, <2>2, NoneWindow DEF TypeOK
<1>3. \A p \in Processes : /\ Taken(p) = 0 /\ at[p] = 0
                           /\ \A key : Recorded(p, key) = 0
  BY <1>1 DEF Taken, Recorded, Pending
<1>4. QueueInv
  <2> SUFFICES ASSUME NEW p \in Processes PROVE QueueOf(p)
    BY DEF QueueInv
  <2>1. /\ DOMAIN reports[p] = {} /\ DOMAIN queue[p] = {} /\ Len(reports[p]) = 0
        /\ closed[p] = 0 /\ Taken(p) = 0
    BY <1>1, <1>3
  <2> QED BY <2>1 DEF QueueOf
<1>5. LinesInv
  <2> SUFFICES ASSUME NEW p \in Processes PROVE LinesOf(p)
    BY DEF LinesInv
  <2>1. 0 \in 0 .. Len(KeysOf(p)) /\ lines[p] = <<>> /\ 0 % 2 # 1
    BY <1>1, ParserKeys
  <2> QED BY <1>3, <2>1 DEF LinesOf
<1>6. Conserved
  <2> SUFFICES ASSUME NEW key \in KeySet PROVE ConservedOf(ProcessOf(key), key)
    BY DEF Conserved
  <2>1. DOMAIN stats[key] = {}
    BY <1>1
  <2>2. ToSet(stats[key]) = {}
    BY <2>1 DEF ToSet
  <2>3. Recorded(ProcessOf(key), key) = 0
    BY <1>3, ParserKeys
  <2> QED BY <2>1, <2>2, <2>3 DEF ConservedOf
<1>7. RoundInv
  BY <1>1, NoneWindow, Orders DEF RoundInv
<1>8. MetricInv
  BY <1>1 DEF MetricInv, OverSamples
<1>9. PairInv
  BY <1>1, ParserKeys DEF PairInv, InStep, PairInStep
<1> QED BY <1>2, <1>4, <1>5, <1>6, <1>7, <1>8, <1>9 DEF Inv

\* All of Inv is kept by every step of every thread: where the lines are, what
\* the lists hold, what the sampler has read of them.
THEOREM Invariance == Spec => []Inv
<1>1. ASSUME Inv, [Next]_vars PROVE Inv'
  BY <1>1, TypeNext, QueueNext, LinesNext, ConservedNext, RoundNext, MetricNext,
     PairNext DEF Inv
<1> QED BY <1>1, Start, PTL DEF Spec

\* However the threads interleave and wherever pcm stops, a list holds exactly
\* the values of the reports parsed, in their order.
THEOREM NoSampleLost == Spec => []Conserved
<1>1. Inv => Conserved
  BY DEF Inv
<1> QED BY <1>1, Invariance, PTL

\* An average of get_stat is over the newest samples of a moment within the
\* round, although the length of the list is taken before the slice.
THEOREM NewestOfRound == Spec => []Newest
<1>1. Inv => Newest
  <2> SUFFICES ASSUME RoundInv, pos = 4, NEW key \in KeySet PROVE NewestOf(key)
    BY DEF Inv, Newest
  <2>1. PICK j \in 1 .. 3 : Order(j) = key
    BY Orders
  <2>2. j < pos
    OBVIOUS
  <2> QED BY <2>1, <2>2 DEF RoundInv
<1> QED BY <1>1, Invariance, PTL

\* The averages of the two latencies in metric_dict are never further apart than
\* the report whose values the parser is appending.
THEOREM LatenciesInStep == Spec => []InStep
<1>1. Inv => InStep
  BY DEF Inv, PairInv
<1> QED BY <1>1, Invariance, PTL
=============================================================================
