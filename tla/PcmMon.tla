-------------------------------- MODULE PcmMon --------------------------------
(***************************************************************************)
(* pcm_mon (caption_ae/metrics) and the sampler that reads it: two pcm      *)
(* processes print reports, a thread per process queues their lines, a      *)
(* parser thread per process turns the lines of a report into samples, and  *)
(* the sampler of caption_ctrl averages the last of them into metric_dict   *)
(* once a second.  Nothing is locked.  pcm may stop at any moment, in the   *)
(* middle of a report too; nobody notices.                                  *)
(*                                                                          *)
(* A sample is the number of the report it was read from.  The body of a    *)
(* report is one line, for only the separator after it makes the parser     *)
(* act; it carries the keys whose pattern it matches.  The pipe of a        *)
(* process and the queue its reader thread fills are one sequence: the      *)
(* reader moves line after line.                                            *)
(***************************************************************************)
EXTENDS Integers, Sequences, SequencesExt

CONSTANTS
    WINDOW_SIZE,
    Founds,         \* key sets that a report may have values of
    MaxReports      \* bound: reports of each process

ASSUME WindowAssumption == WINDOW_SIZE \in Nat \ {0}

\* The keys of self.stats that metric_dict takes, in the order of the dict.
Keys == <<"pcm_l1miss", "pcm_ddrReadLat", "pcm_norm_ipc">>
KeySet == {"pcm_l1miss", "pcm_ddrReadLat", "pcm_norm_ipc"}

\* The processes, and the keys of each in the order its parser looks for them.
Processes == {"latency", "all"}
KeysOf(p) == IF p = "latency" THEN <<"pcm_l1miss", "pcm_ddrReadLat">>
             ELSE <<"pcm_norm_ipc">>
ProcessOf(key) == IF key = "pcm_norm_ipc" THEN "all" ELSE "latency"

ASSUME ReportAssumption == /\ Founds \subseteq SUBSET KeySet
                           /\ MaxReports \in [Processes -> Nat]

VARIABLES
    run,        \* per process: "off", "up" or "over"
    reports,    \* history, per process: what each report printed holds
    closed,     \* history, per process: the reports whose separator is printed
    queue,      \* per process: q_latency and q_all
    lines,      \* per parser: the bodies read since the last separator
    at,         \* per parser: the key it looks for, 0 while it reads lines
    stats,      \* self.stats
    pos,        \* sampler: index in Keys, 0 while it sleeps
    length,     \* sampler: len(v), -1 until it is taken
    res,        \* sampler: get_stat's result so far
    known,      \* history: samples there were when this round began
    metric      \* metric_dict

pcmVars     == <<run, reports, closed>>
parserVars  == <<lines, at, stats>>
samplerVars == <<pos, length, res, known, metric>>
vars == <<pcmVars, queue, parserVars, samplerVars>>

\* An average is over the samples from the first to the last position; a key
\* that is not in the dictionary, or still 0, has none.
None == [first |-> 1, last |-> 0]

Init ==
    /\ run = [p \in Processes |-> IF p = "latency" THEN "up" ELSE "off"]
    /\ reports = [p \in Processes |-> <<>>]
    /\ closed = [p \in Processes |-> 0]
    /\ queue = [p \in Processes |-> <<>>]
    /\ lines = [p \in Processes |-> <<>>] /\ at = [p \in Processes |-> 0]
    /\ stats = [key \in KeySet |-> <<>>]
    /\ pos = 0 /\ length = -1
    /\ res = [key \in KeySet |-> None]
    /\ known = [key \in KeySet |-> 0]
    /\ metric = [key \in KeySet |-> None]

----------------------------------------------------------------------------
(* The pcm processes. *)

\* Five seconds after p_latency; the reader and parser threads start then too.
StartAll ==
    /\ run["all"] = "off"
    /\ run' = [run EXCEPT !["all"] = "up"]
    /\ UNCHANGED <<reports, closed, queue, parserVars, samplerVars>>

Separator == [report |-> 0, found |-> {}]

PrintBody(p) ==
    /\ run[p] = "up" /\ closed[p] = Len(reports[p])
    /\ Len(reports[p]) < MaxReports[p]
    /\ \E found \in {keys \intersect ToSet(KeysOf(p)) : keys \in Founds} :
          /\ reports' = [reports EXCEPT ![p] = Append(@, found)]
          /\ queue' = [queue EXCEPT ![p] = Append(@,
                          [report |-> Len(reports[p]) + 1, found |-> found])]
    /\ UNCHANGED <<run, closed, parserVars, samplerVars>>

PrintSeparator(p) ==
    /\ run[p] = "up" /\ closed[p] < Len(reports[p])
    /\ closed' = [closed EXCEPT ![p] = @ + 1]
    /\ queue' = [queue EXCEPT ![p] = Append(@, Separator)]
    /\ UNCHANGED <<run, reports, parserVars, samplerVars>>

\* The process ends, and with it its output.  (One that has printed all that the
\* bound lets it print need not end any more.)
Stop(p) ==
    /\ run[p] = "up" /\ closed[p] < MaxReports[p]
    /\ run' = [run EXCEPT ![p] = "over"]
    /\ UNCHANGED <<reports, closed, queue, parserVars, samplerVars>>

Pcm == \/ StartAll
       \/ \E p \in Processes : PrintBody(p) \/ PrintSeparator(p) \/ Stop(p)

----------------------------------------------------------------------------
(* The parsers: catch_output_latency and catch_output_all. *)

Started == run["all"] # "off"

GetLine(p) ==
    /\ Started /\ at[p] = 0 /\ queue[p] # <<>>
    /\ queue' = [queue EXCEPT ![p] = Tail(@)]
    /\ IF Head(queue[p]) = Separator
       THEN at' = [at EXCEPT ![p] = 1] /\ UNCHANGED lines
       ELSE lines' = [lines EXCEPT ![p] = Append(@, Head(queue[p]))] /\ UNCHANGED at
    /\ UNCHANGED <<pcmVars, stats, samplerVars>>

\* pattern.findall(lines), of which the first is taken.
Matches(p, key) == {i \in DOMAIN lines[p] : key \in lines[p][i].found}
First(matches) == CHOOSE i \in matches : \A j \in matches : i <= j

\* Mutant: the lines of the reports before are kept.
RestKept(p) == lines[p]
\* lines = "" after the last key.
Rest(p) == <<>>

AppendSample(p) ==
    /\ at[p] # 0
    /\ LET key == KeysOf(p)[at[p]]
           matches == Matches(p, key)
       IN  stats' = IF matches = {} THEN stats
                    ELSE [stats EXCEPT ![key] =
                              Append(@, lines[p][First(matches)].report)]
    /\ IF at[p] < Len(KeysOf(p))
       THEN at' = [at EXCEPT ![p] = @ + 1] /\ UNCHANGED lines
       ELSE at' = [at EXCEPT ![p] = 0] /\ lines' = [lines EXCEPT ![p] = Rest(p)]
    /\ UNCHANGED <<pcmVars, queue, samplerVars>>

Parser(p) == GetLine(p) \/ AppendSample(p)

----------------------------------------------------------------------------
(* The sampler: get_stat and update_metric. *)

Least(a, b) == IF a < b THEN a ELSE b

\* Mutants: the order of the first two keys is swapped; a list is taken only
\* when it fills a window; the first samples instead of the last.
OrderSwapped(i) == Keys[IF i = 3 THEN 3 ELSE 3 - i]
HasSamplesFull(n) == n >= WINDOW_SIZE + 1
WindowOldest(n, l) == [first |-> 1, last |-> Least(n, WINDOW_SIZE)]

Order(i) == Keys[i]
HasSamples(n) == n >= 1

\* v[-min(n, window_size):] of a list that is l long by now.
Window(n, l) == [first |-> l - Least(n, WINDOW_SIZE) + 1, last |-> l]

BeginRound ==
    /\ pos = 0 /\ pos' = 1
    /\ known' = [key \in KeySet |-> Len(stats[key])]
    /\ UNCHANGED <<pcmVars, queue, parserVars, length, res, metric>>

\* length = len(v)
TakeLength ==
    /\ pos \in 1 .. 3 /\ length = -1
    /\ length' = Len(stats[Order(pos)])
    /\ UNCHANGED <<pcmVars, queue, parserVars, pos, res, known, metric>>

\* The slice, its sum and its length are of a list of their own.
TakeWindow ==
    /\ pos \in 1 .. 3 /\ length # -1
    /\ res' = IF HasSamples(length)
              THEN [res EXCEPT ![Order(pos)] = Window(length, Len(stats[Order(pos)]))]
              ELSE res
    /\ length' = -1 /\ pos' = pos + 1
    /\ UNCHANGED <<pcmVars, queue, parserVars, known, metric>>

\* A key that get_stat left out keeps the value it had.
UpdateMetric ==
    /\ pos = 4 /\ pos' = 0
    /\ metric' = [key \in KeySet |-> IF res[key] = None THEN metric[key] ELSE res[key]]
    /\ res' = [key \in KeySet |-> None] /\ known' = [key \in KeySet |-> 0]
    /\ UNCHANGED <<pcmVars, queue, parserVars, length>>

Sampler == BeginRound \/ TakeLength \/ TakeWindow \/ UpdateMetric

Next == \/ Pcm \/ Sampler
        \/ \E p \in Processes : Parser(p)

Fairness == /\ WF_vars(StartAll) /\ WF_vars(Sampler)
            /\ \A p \in Processes : WF_vars(Parser(p))

Spec == Init /\ [][Next]_vars /\ Fairness

----------------------------------------------------------------------------
(* Properties. *)

Interval == [first : Nat \ {0}, last : Nat]
Line == [report : Nat, found : SUBSET KeySet]

TypeOK ==
    /\ run \in [Processes -> {"off", "up", "over"}]
    /\ reports \in [Processes -> Seq(SUBSET KeySet)]
    /\ closed \in [Processes -> Nat]
    /\ queue \in [Processes -> Seq(Line)] /\ lines \in [Processes -> Seq(Line)]
    /\ at \in [Processes -> 0 .. 2]
    /\ stats \in [KeySet -> Seq(Nat)]
    /\ pos \in 0 .. 4 /\ length \in Nat \union {-1}
    /\ res \in [KeySet -> Interval] /\ metric \in [KeySet -> Interval]
    /\ known \in [KeySet -> Nat]

\* The lines that p's parser has taken; two make a report.
Taken(p) == Len(reports[p]) + closed[p] - Len(queue[p])

\* The reports p's parser is done with, as far as `key' goes.
Pending(p, key) == at[p] # 0 /\ \E i \in at[p] .. Len(KeysOf(p)) : KeysOf(p)[i] = key
Recorded(p, key) == (Taken(p) \div 2) - (IF Pending(p, key) THEN 1 ELSE 0)

ConservedOf(p, key) ==
    /\ ToSet(stats[key]) = {i \in 1 .. Recorded(p, key) : key \in reports[p][i]}
    /\ \A i, j \in DOMAIN stats[key] : i < j => stats[key][i] < stats[key][j]

\* Whatever is on its way between a pcm process and the lists, each list holds
\* exactly the values printed, in their order: of every report finished and
\* parsed the value it has, none twice, none of a report that pcm did not finish.
Conserved == \A key \in KeySet : ConservedOf(ProcessOf(key), key)

\* The length of a list is taken before the slice, and the parser appends in
\* between; every average of a round is nevertheless over the newest samples of
\* a moment within the round, as many as fill the window or as there were when
\* the round began; a list that had some is never left out.
NewestOf(key) ==
    /\ res[key].last \in known[key] .. Len(stats[key])
    /\ res[key].last - res[key].first + 1
          \in Least(known[key], WINDOW_SIZE) .. Least(res[key].last, WINDOW_SIZE)
Newest == pos = 4 => \A key \in KeySet : NewestOf(key)

L1  == "pcm_l1miss"
DDR == "pcm_ddrReadLat"

\* The reports older than the one the average `a' of L1 ends with that have a
\* value of DDR.
Older(a) == {i \in 1 .. stats[L1][a.last] - 1 : DDR \in reports["latency"][i]}

PairInStep(a, b) ==
    a # None => \A i \in Older(a) : b # None /\ i <= stats[DDR][b.last]

\* The two latencies of a round go together: that of the DDR is no older than
\* the report before the one the L1 latency ends with, even though the parser
\* appends the two one after the other while the sampler reads them.
InStep == PairInStep(metric[L1], metric[DDR])

\* A report that pcm has finished reaches the averages, also after pcm stopped.
Sampled(p, n) ==
    \A key \in ToSet(KeysOf(p)) :
        n <= closed[p] /\ key \in reports[p][n] =>
            metric[key] # None /\ n <= stats[key][metric[key].last]
Delivered ==
    \A p \in Processes : \A n \in 1 .. MaxReports[p] :
        n <= closed[p] ~> Sampled(p, n)

----------------------------------------------------------------------------
(* What makes them hold. *)

\* The n-th line that p prints.
Printed(p, n) ==
    IF n % 2 = 0 THEN Separator
    ELSE [report |-> (n + 1) \div 2, found |-> reports[p][(n + 1) \div 2]]

\* The queue holds the lines printed last, and nothing is lost between it and
\* the parser: that one holds the body of the report it has begun, if any.
QueueOf(p) ==
    /\ Len(reports[p]) - closed[p] \in 0 .. 1
    /\ \A i \in DOMAIN reports[p] : reports[p][i] \subseteq ToSet(KeysOf(p))
    /\ Taken(p) >= 0
    /\ \A i \in DOMAIN queue[p] : queue[p][i] = Printed(p, Taken(p) + i)
QueueInv == \A p \in Processes : QueueOf(p)

LinesOf(p) ==
    /\ at[p] \in 0 .. Len(KeysOf(p))
    /\ at[p] # 0 => Taken(p) % 2 = 0 /\ Taken(p) > 0
    /\ lines[p] = IF Taken(p) % 2 = 1 THEN <<Printed(p, Taken(p))>>
                  ELSE IF at[p] # 0 THEN <<Printed(p, Taken(p) - 1)>>
                  ELSE <<>>
LinesInv == \A p \in Processes : LinesOf(p)

\* The lists only grow, so that what the sampler has read of a key stays among
\* its newest samples; the keys it has not come to are not in the result.
RoundInv ==
    /\ pos \in 0 .. 4 /\ length \in Nat \union {-1}
    /\ \A key \in KeySet : /\ Len(stats[key]) \in Nat /\ known[key] \in Nat
                           /\ known[key] <= Len(stats[key])
    /\ length # -1 => /\ pos \in 1 .. 3 /\ known[Order(pos)] <= length
                      /\ length <= Len(stats[Order(pos)])
    /\ res \in [KeySet -> Interval]
    /\ \A j \in 1 .. 3 : IF j < pos THEN NewestOf(Order(j))
                                     ELSE res[Order(j)] = None

\* Averages are over samples, and those in use over samples that were there when
\* the round began.
OverSamples(a, key) == a = None \/ a.last \in 1 .. Len(stats[key])
MetricInv ==
    \A key \in KeySet :
        /\ OverSamples(res[key], key) /\ OverSamples(metric[key], key)
        /\ pos # 0 => metric[key].last <= known[key]

\* From the moment the sampler has the window of L1 on, the list of DDR has what
\* goes with it: in the part whose length it has taken, then in its window.
PairInv ==
    /\ pos = 2 /\ length # -1 /\ res[L1] # None =>
           \A i \in Older(res[L1]) : \E j \in 1 .. length : stats[DDR][j] = i
    /\ pos \in 3 .. 4 => PairInStep(res[L1], res[DDR])
    /\ InStep

\* All of it: with where the lines, the samples and the averages are, whatever
\* thread steps next, the parsers and the sampler keep Conserved and InStep.
Inv == /\ TypeOK /\ QueueInv /\ LinesInv /\ Conserved
       /\ RoundInv /\ MetricInv /\ PairInv
=============================================================================
