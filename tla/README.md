# Verification of memo and Caption

The repository holds two programs: **memo** (`src/memo_ae`, C, pthreads), a
benchmark that lets several pinned threads access memory on a NUMA node while
the main thread reads their counters, and **Caption** (`src/caption_ae`,
Python, threads), a controller that measures an application and tunes the ratio
at which the kernel interleaves its memory between DDR and CXL. They share no
code and run independently. This directory holds TLA+ modules that model their
concurrent cores and the walks and statistics under them, TLC configurations
that check them, and TLAPS proofs.

## Inventory

| Component | State | Operations | Interacts by | What is hard | What makes it correct |
|---|---|---|---|---|---|
| `run_test`, `get_bw`, `stop_threads`, `intHandler` (`test.c`) | `cfg_arr`, `curr_cnt`, `prev_cnt`, `keepRunning` | create, probe, halt, join, free; Ctrl-C | writes `halt` of each thread, reads its `curr_op_cnt`, no lock | counters move while they are summed, and are cleared twice; Ctrl-C at any time | readings never shrink and are fresh; all threads halted and joined before `free`; the run ends |
| `thread_wrapper` and the four wrappers (`test.c`) | `starting_core`, loop counters, `curr_op_cnt` | place, pin, set prefetchers, measure, report, restore | counters with main, registers with threads on the same core, `exit()` with everybody | `res` unassigned; several ways out of a wrapper | runs where asked; measures with the prefetchers asked for; puts them back |
| prefetcher registers (`util.c`) | one MSR per core | read, write; each may exit the process | threads of one core | read-modify-write without a lock; fault between two accesses | as above |
| `parse_arg`, `set_default_cfg` (`util.c`) | `test_cfg_t` | one step per option, checks at the end | hands `cfg` to main | zero, negative, only one of two, integer quotient | the slices fit the buffer; every field has its type |
| `main`, `init_buf`, `get_node` (`main.c`, `util.c`) | two buffers | allocate, touch, check the node, free | `cfg->buf_a`, `cfg->buf_b` | three error exits, a buffer that is never set | the test has the buffers it needs; what was handed over is released |
| access loops (`bw_wrapper`, `workload.c`, `workload.h`, `xorshf96`) | `src`, `dst`, `counter`, `curr_step`, `mixed_switch`, `r10` | one block of accesses, sequential or random step, wrap | slices of one buffer; `y` and `z` of the generator, no lock | wrap-around, sizes rounded to 512 bytes and done in blocks of 1024, masks | accesses stay within the thread's slice; bytes counted are bytes accessed |
| latency tests (`test.c`, `op_*_lat()` in `workload.c`) | linked list, `r10`, `r11`, min, max, sum, `result_buff`; the cache | build, follow, flush, drain, time, report | reads the buffer | one counter for two loops; min and max before the first value; lines left in the cache by a lap | one cycle through all blocks; nothing measured is cached; the numbers printed are what they are called |
| `algo` (`algo.py`) | none | next step and ratio from two states | `set_ratio` | bounds, halving, signs over many calls, resets | ratio and step in range; turns back past the best ratio |
| `caption_ctrl` (`caption_ctrl.py`, `action.py`) | three lists, `prev_*`; the kernel's `top` and `bot` | append (sampler thread), average and empty, decide, write | lists shared without a lock; two `sysctl` processes | sample between `sum` and `len`, append to a list just replaced, half-written ratio, `first_time` | never divides by zero, lists in step, kernel and controller agree |
| `sync_tune`, `async_tune` (`caption.py`) | `tune_iter`, `first_time`, `thread_arr` | run application, tune, relaunch | calls `caption_ctrl`; application threads | several scripts ending at once, relaunch before tuning | one round of tuning per relaunch, the stepping schedule, both loops end |
| `pcm_mon`, `update_metric` (`pcm_mon.py`, `action.py`) | two queues, `lines`, `stats`, `metric_dict` | read a line, parse a report, append a sample, average the last ones | pcm processes through pipes, lists shared with the sampler without a lock | length taken before the slice, keys appended one after the other, pcm ending unnoticed | averages are over the newest samples, none lost or doubled, the keys of a report together |
| other monitors (`slab_mon`, `vmstat_mon`, `pmu_mon`) | windows | parse the output of a tool | feed no decision | none for the controller | none |
| scripts, Makefile | none | sequential | start the programs | none | none |

## Modules

Each VARIABLE is named after the variable of the code it stands for; history
variables are marked as such in the modules.

* `MemoRun` is one run of `cxlMemTest`, from `run_test` on. Main's actions are
  the iterations of its loops: `Create` (one thread), `BeginScan`,
  `ReadCounter` (one counter), `PrintBw`, `Wake`, `LastProbe`, `StopThread`
  (one halt flag), `Join` (one thread), `Free`. A thread's actions are
  `Dispatch` (placement, pinning, choice of the wrapper), `Enter`, the accesses
  to the register (`ReadMsr`, `SetPrefetch`, `RestorePrefetch`, each of which
  may be `MsrFault` instead), `Operate`/`TestHalt` for the bandwidth loop,
  `Lap`/`LapsDone`/`Report` for the latency loops, and the two ways a thread
  ends the process from inside a wrapper (`RefuseSize`, `DivideByZero`).
  `Sigint` is the handler. The uninitialised `res` is a choice of both outcomes.
  Command lines are records with the fields of `test_cfg_t` that decide control.
  One operation counts 1 where the code counts `fixed_step` bytes: the step is
  the same for all threads and all operations of a run. The registers are one
  Boolean per core: bits 0 to 3 of MSR 0x1A4 are always written together.
* `BwMeter` is what `get_bw` promises: a reading lies between the work done when
  it began and the work done when it is reported. `MemoRun` implements it under
  the mapping at its end (`MeterSpec`): the work done is the number of pairs of a
  thread and a serial number that the counters stand for (`Units`, `Total`).
* `MemoWalk` is one bandwidth thread below `Operate`: `Wrap` is the test for the
  end of the slice, `BeginOp` the entry of an `op_*()` routine (rounding, refusal),
  `Block` one turn of its loop (a `SIZE*_1024` macro), `CountAndStep` the rest of
  an iteration of `bw_wrapper`, `Stall` a turn of the stall loop, `TestHalt` the
  loop condition. The unit is the cache line. A random step is any word that the
  two masks of the code leave, whatever `xorshf96` and the threads that share its
  `y` and `z` make of it.
* `MemoLats` is one thread of a latency test. `EnterChase` builds the linked list,
  `EnterFlushed` allocates the results and empties the cache; a lap is `BeginLap`,
  then `ChaseStep` for each pointer, or `Flush` and `ClearPipe`; then `Time` and
  `Count`; `PrintLats` and `PrintMedian` report. The `op_*_lat()` operators say
  which lines a routine flushes before the clock starts, accesses while it runs,
  and leaves cached. The variant of the macros is the one that is compiled (16
  accesses). `qsort` is a permutation of the results that is in the order of `comp`
  (`Order`). Variables the code does not initialise start as any of `Garbage`.
* `PcmMon` is the way from a pcm process to `metric_dict`: `PrintBody`,
  `PrintSeparator` and `Stop` are the processes (external), `GetLine` and
  `AppendSample` the parser threads, `BeginRound`, `TakeLength`, `TakeWindow` and
  `UpdateMetric` the sampler. A sample is the number of the report it was read
  from, so that "the newest", "none twice" and "of one report" can be said.
  `Matches` are the places of a line that the pattern of a key fits, `First` the one
  `findall(...)[0]` takes. `Printed` is the n-th line of a process and `Taken` how many
  of them its parser has read; `Pending` says that it has not yet come to a key of the
  report it is parsing, and `Recorded` how many reports it is done with for a key.
* `CaptionAlgo` is `algo()` as pure operators. A float state is an integer
  number of tenths (constant `UNIT` for the code's 1.0), so that the threshold
  0.2 is one too; a step is an integer because `int()` truncates it on return.
* `CaptionClimb` closes the loop of `async_tune` around one application, whose state
  is a fixed function of the ratio its run has its memory at and whose runs are long
  enough for the samples asked for. `Restart` is the end of a run and the start of the
  next one, `Tune` the decision that comes after it (`caption.py:112-114` is before
  `:129`). A run has its memory at the ratio before or after the decision taken while
  it starts, as it allocates early or late; one that allocates over time (`gradual`)
  has it at a mix, taken to be as good as some ratio between the two (`Given`).
  Memory stays where it was allocated, as `caption_ae/README.md:24` says, and
  `MAX_TUNE_ITER` ends the search.
* `CaptionCtrl` is `caption_ctrl` with its sampler thread. The tuner's averaging
  is split where the sampler can come between: `Sum`, `Mean` (the `len`),
  `Clear` (the new list) for each key; the sampler's append into looking up
  `self.arr[key]` (`Lookup`) and appending (`Append`), for a list may be replaced
  between the two. `set_ratio` is two actions, at a start, a decision and a
  reset. Values are not modelled, only their number; the average is any of
  `States`.
* `MemoSetup` is `main` around `run_test`: `ReadOption` is one turn of the
  `getopt` loop (`Legal` its check, `Field` and `Value` what it writes),
  `ParseDone` the checks and the division after it; `Allocate` and `CheckNode`
  are `init_buf`, the kernel placing every page as it likes; `Release` is one of
  the labels `out2` and `out1`. `RunTest` stands for a whole run of `MemoRun`.
* `CaptionLoop` is `caption.py`: the loop of `sync_tune` (`Exec`, `Ended`,
  `Step`, `Nap`) or that of `async_tune` (`Start`, `StillAlive`, `Restart`,
  `Tune`, `Nap`), and the scripts (`Launch`, `End`), of which a launch is when
  memory is allocated. It knows of the controller only that a decision is a
  ratio in range, which is `SearchInBounds` of `CaptionCtrl`; `CaptionCtrl` in
  turn leaves the ratio of `sync_tune` (`model_only`) to the loop.
* `MemoRunProofs`, `MemoSetupProofs`, `MemoWalkProofs`, `MemoLatsProofs`,
  `CaptionCtrlProofs`, `CaptionClimbProofs`, `CaptionLoopProofs` and `PcmMonProofs`
  hold the theorems, `MC*` the constants of the runs.

How they fit together: `MemoSetup` ends where `MemoRun` starts (`RunTest`), and
its `SlicesFit` is what lets `MemoWalk` and `MemoLats` take the slice of a thread
as given. `MemoRun` sees an operation as one step and a lap as one step;
`MemoWalk` and `MemoLats` are what happens inside, with the other threads reduced
to what they share with this one: `halt`, which may be up at any test, and the
random numbers, which may be any. `PcmMon` feeds the sampler of `CaptionCtrl`, for
which a sample is a token; `CaptionCtrl` feeds `CaptionLoop`, for which a decision
is a ratio in range.

## Runs

| Run | Shows | Bounds, and why they are enough |
|---|---|---|
| `two` | `MemoRun` with every type of test, pinned, off the machine, unpinned, with `-a -b`, with and without `-f`, with Ctrl-C and MSR faults: inductive invariant, readings monotonic and fresh, refinement of `BwMeter`, registers set and restored, termination | 2 threads, 3 cores, at most 2 probes, 3 operations per thread (`MaxOps`): a thread can count before, between and after two probes |
| `setup` | `MemoSetup` with every command line of up to four options, every placement, every failing allocation and every failing `move_pages`: inductive invariant, slices within the buffer, buffers ready for the test and released on every way out | the options of `AnyOptions`, with values on either side of every check that decides what main does; pages of 4 bytes, words of 6 bits, so that a size can wrap and a share be uneven; 2 nodes, at most 3 pages; the status of a failing `move_pages` is either node or an error (`Garbage`) |
| `climb` | `CaptionClimb`, relaunching before it tunes: inductive invariant, no third step up past the best ratio, and for memory allocated at one moment less than two initial steps of overshoot | the constants of `config.py`, its 20 ratios and 7 rounds among them; one-peaked profiles with the peak at every ratio, slopes of 0.2 and 1.5 before it and 0.1 to 200 after it, inside and outside each threshold for one ratio and for a step, at two levels of the state |
| `walk` | `MemoWalk` with every operation, sequential and random: inductive invariant, accesses within the slice, bytes counted are bytes accessed, alignment, no block left out | 2 threads; granularities of 6 lines (refused), 8 (half a block), 16, 20 and 24 (remainders on either side of half a block) and 32; slices of 24, 64 and 72 lines, smaller than, a multiple of and not a multiple of the step; words of 12 bits, wide enough for `fixed_step << 6` to be masked; 6 operations (`MaxOps`), two passes of the smaller slices |
| `lats` | `MemoLats` with every type and operation, with and without `-B`, `-C`, `-r`: inductive invariant (with the extremes and the counter that the flush loop and the nop loop share), accesses within the buffer, nothing cached that is timed, the chase complete, average, median | 2 threads; buffers of 6 lines for single operations, so that lines come up again, of one and two 64 KB blocks and one and a half for block tests, of 1 and 4 blocks for the chase; 0 to 3 laps; 3 durations; 2 values of what is uninitialised |
| `race` | sampler against tuner, through all sequences of states over all regimes of `algo()`: inductive invariant, no division by zero, lists in step, a mean off by no more than the rounds that overlap it, step and ratio in range, kernel agrees with controller | 5 states that are stable, better, worse, a reset apart or idle; ratios to 8; lists of up to 7 samples (`MaxSamples`) with 4 needed instead of 20, at most 2 sampler rounds started during one averaging (`MaxRounds`) |
| `pcm` | `PcmMon`, pcm stopping at any point: inductive invariant, no sample lost, doubled or reordered, averages over the newest samples, the two latencies of a round together, every finished report reaches the averages | a window of 2, 3 reports of the process with two keys (one more than the window, so that the window moves) and 1 of the other (`MaxReports`), each with all its values or without the DDR latency |
| `loop` | `CaptionLoop`, both loops, with and without `-x` and `-n`: inductive invariant, stepping schedule of `-x`, one round of tuning per relaunch, both loops end | 2 scripts, 7 rounds as in the code, ratios to 4 for `async_tune` |

The inductive invariant of a module contains its type invariant, and the named
parts that are inductive with it: `JoinedBeforeFree` (`JoinInv`), `MixedRatio`,
`Extremes`, `AsyncFixedRatio`. Those are proved under their own names and checked
as part of `Inv`.

The other runs each show a statement of the repository that the code does not
keep; PROJECT.json quotes the statement.

| Run | Violated | Shortest story |
|---|---|---|
| `pair` | `PinnedAsAsked` | `-a 0 -b 1`: thread 1 runs on core 2 |
| `first` | `FirstTuneUp` | a call with too few samples, then one with enough |
| `fixed` | `FixedRatio` | `-n` without `-x` or `-t`: the first round |
| `swap` | `MaxIsMax` | pointer chase, two laps that count with different results: the larger one is printed as "Min latency" |

Further behaviour of the same kind that the models contain and no run is spent
on:

* Starting and stopping. Without `-p` a thread runs or gives up depending on an
  unassigned `res` (`Dispatch`). Pages of a buffer may lie on other nodes than
  the one the check found, which is that of the first page that is not where
  page 0 is (`CheckNode`). Main releases a pointer it was not given when a buffer
  fails its check (`Release`). A granularity that an operation refuses ends the process with
  the prefetchers off (`RefuseSize`).
* Arithmetic. `-t 0` divides by zero in `parse_arg` (`ParseDone`), `-i 0` in
  `print_lats` (`DivideByZero`, and `PrintLats` of `MemoLats`). A sum of samples
  may be divided by more than its number of values (`MeanOfSamples` bounds by how
  many). The first bandwidth is printed before any delay has passed (`BeginScan`
  comes before `Wake`). `-a 0` without `-b` passes the check for a pair, whose
  product is 0 (`ParseDone`), and `-R 20:80` is a read ratio of 0 (`Value`). The
  first averages of `metric_dict` may be the zeros
  that `config.py` starts with (`UpdateMetric` keeps what was there).
* Latency tests. `-T 0 -o 2` flushes nothing before it stores, against the comment
  at `test.c:428`, so that `ColdStart` leaves it out. With `-r` the chase takes the
  number of its blocks from an unassigned variable, so that `ChaseVisitsAll` leaves
  `-r` out. Flushing a single line flushes three more, past the end of the buffer
  for the last lines; `InBuffer` says how far. Its claim is about the first
  thread: the others add an offset of the whole buffer to the start of their
  slice. A buffer that ends inside a 64 KB block is accessed past its end by the
  block test. Operations 4 and 5 with `-T 0` report variables no lap has written. A
  negative `-C`, which `parse_arg` accepts and `MemoLats` has no configuration for,
  would run the nop loop about 2^64 times.
* Relaunching. `async_tune` starts a script again before it tunes for it, so that
  its allocations may come before the new ratio (`Restart` before `Tune`, in
  `CaptionLoop` and `CaptionClimb`). If they come partly before and partly after, the
  search sees its losses late: past a steep peak it can go on upwards, beyond the
  bound of `NoOvershoot`, which is about memory allocated at one moment. `TurnsBack`
  holds in either case.
* Where the search ends. After seven decisions it stops at whatever ratio it has
  reached, so that no property says that it ends at the best one.
* Node check. A `move_pages` that fails is only reported; the status array is then what
  `malloc` left there (`GetNode`), and `run_test` may start with no page on the node
  asked for. `ReadyToRun` therefore speaks of buffers for which the call answered.
* Without `-x` and `-n` `sync_tune` steps as with `-x`, and never tunes, for the reason
  run `fixed` shows; `Schedule` is stated for `-x`, where the documentation promises it.

Deadlock is checked in the runs of `CaptionCtrl` and `PcmMon`. Behaviours of the other
modules end, with the process, the thread or the last round, so that their runs do not
check it; `Termination` and `Finishes` say instead that `MemoRun` and
`CaptionLoop` get there.

### Fairness

`MemoRun` assumes weak fairness of the main thread and of every test thread,
which is what a preemptive scheduler gives runnable threads; Ctrl-C and faults
are never forced. `CaptionLoop` assumes weak
fairness of the loop, and of each script that it is launched and ends: the
programs tuned are benchmarks, and a script that never ends is waited for for
ever. `PcmMon` assumes weak fairness of the parsers and of the sampler, which are
runnable threads, and of the start of the second process five seconds after the
first; printing and stopping are never forced, so that `Delivered` is about
reports pcm has finished. The other modules have only safety properties and no
fairness.

## Proofs

`MemoRunProofs`, for any `NumThread`, `NumCores`, `Configs` and `MaxOps` that
satisfy the assumptions in `MemoRun`:

* `TypeCorrect`: the type invariant needs `ProbeInv`, that a probe under way is
  one of those asked for, or `j` could pass `op_iter`.
* `NoWrap` and `Freshness` follow from `MeterInv`. That `curr_cnt` never falls
  below `prev_cnt` is not inductive: a scan in progress must be compared with the
  one before it index by index, so `mark` records the running sum before each
  index, and the invariant says that a thread has never counted less than what
  the last scan took from it. That in turn needs that the two places that clear
  `curr_op_cnt` clear a zero (`NotEntered(t) => cnt[t] = 0`).
* `Configuration` and `Restoration` follow from `PrefetchInv`, which says for
  each point of a wrapper what the register of the thread's own core holds, and
  from `PlacementInv`, that the core exists. They are about a thread no other
  admitted thread shares its core with; the code does not protect two that do.
* `FreedAfterJoin` follows from `JoinInv`, the threads joined so far.
* `Refinement`: every step is a step of `BwMeter` or leaves it as it is. The totals
  are sums over the threads, which are built up thread by thread, by induction
  (`OneMoreThread`, `SumStep`); `SumAtMost` and `SumAtLeast` compare a sum with the
  running sums that `mark` holds, term by term, and `TotalOfOneMore` says that an
  operation of one thread is one operation. With `MeterInv`, what is printed lies
  between the totals; with `JoinInv`, nobody counts after the last join; and the two
  places that clear a counter are stuttering steps because they clear a zero.
* `Invariance` joins them: `Inv`, checked by run `two`, holds throughout.

`CaptionCtrlProofs`, for any constants that satisfy the assumptions in
`CaptionAlgo` and `CaptionCtrl`:

* `Invariance` proves `Inv`. Its core is `ListInv`: the lengths of the lists alone
  are not comparable while a round of the sampler is half done, so each length
  is taken together with what the current round still owes the list (`Due`).
  Emptied lists then stay within `MaxRounds + 1` of the first, and a list not yet
  emptied is never empty.
* `NeverDividesByZero` and `SameSeconds` are consequences. The assumption they
  rest on is `MaxRounds + 2 <= MIN_SAMPLE_CNT`: the sampler, which sleeps a
  second between rounds, does not start 19 of them during one averaging.
* `BoundedSearch` rests on lemmas about `BoundStep`, `TunedStep` and `BoundRatio`.
* `DivisorBounded` needs the same accounting: `MeanInv` compares the number of
  values added up with what the list holds and is still owed.
* `Agreement` is proved from `StartInv` and the order of the two writes, for a
  `sysctl` that works and a tuner that sets the ratio itself.

`MemoSetupProofs`, for any options, sizes and placements:

* `SharesFit` rests on a lemma about `Share` in unbounded integers of which the
  total is below `WORD`: the product of the code does not wrap.
* `BuffersReady` and `BuffersReleased` follow from `BufferInv`, which says what is
  mapped and handed over at each point of `main`. That a buffer handed over has a page
  on the node asked for needs `answered`, the record of a `move_pages` that worked:
  after one that failed the check compares memory nobody has written.
* `Invariance` joins them with the types.

`MemoWalkProofs`, for any slices, granularities, ratios, word width and bounds:

* `StaysInSlice` rests on three invariants: the two pointers and the counter agree
  (`OffsetInv`), a step that passed the test for the end fits (`FitInv`; without it
  nothing bounds the counter, for a random step may be anything), and the loop of an
  operation goes by whole blocks up to the rounded size (`BlockInv`). A lemma bounds
  rounded sizes against `Spill`. It is proved for whatever the masks let through.
* `StaysAligned` is about the masks. A random word loses its low bits, so that it is a
  multiple of the power of two that the granularity is (`AlignedByBits`, from
  `PowerDivides` and `BitsBelow`), and so are the places it leads to, from multiple to
  multiple (`MultiplesAdd`). At a granularity that is no power of two only the walk in
  order is aligned, and the property says so.
* `VisitsInOrder` needs `LapInv`: the place is the number of the step in the pass
  times the step, and the number is that of operations done modulo `OpsPerPass`. The
  lemmas on quotients and remainders it rests on (`DivisionUnique`, `NextRemainder`,
  `OpsFit`) are proved here, for the provers know none.
* `CountIsExact` and `RatioKept` follow from `BlockInv` and the types.
* `ThreadsApart` (`KeepsApart`) is what `InSlice` means for the other threads: no line a
  thread accesses is in the slice of another, but for the 512 bytes of `Spill` in the
  next one. It needs `BlockInv` as well, by which an operation is never shorter than
  that, so that the spill does not reach past the next slice (`SpillIntoNext`).

`MemoLatsProofs`, for any buffers, laps, cycles and uninitialised values:

* `StaysInBuffer` follows from `StartInv`, where a lap starts, and a lemma on the
  displacements of the macros; `StartsCold` from `FlushedInv`.
* `ChaseComplete` follows from `ChaseInv`: after `r10` steps exactly the first `r10`
  blocks have been visited and `r11` is the next. `NextBlock` is a cycle through all
  blocks only because it starts at the first; the invariant says so step by step.
* `ExtremesRight` and `AverageRight` follow from `SumInv`, that the sum lies between
  the number of results times the smallest and times the largest. It needs `LapInv`,
  which relates laps done, laps that count and the point of the wrapper.
* `MedianIsRight` follows from `BufferInv` (a number for every lap; what is reported
  is the middle of the sorted buffer) and from facts about sorting. That a buffer can
  be sorted at all (`Sortable`): each place goes to the number of places that come
  before it, which differs from place to place and grows with the value; an injection
  of a finite set into itself is onto, and its inverse is the order. `PlaceInOrder`
  then counts the values on either side of the middle through that permutation.

`PcmMonProofs`, for any window, any values in a report and any number of reports:

* `Invariance`: types, the queue (`QueueInv`: it holds the lines printed after those
  the parser has taken, in their order), what a parser has gathered (`LinesInv`: the
  body of the report it has begun, if any), `Conserved`, and what the sampler has read
  (`RoundInv`, `MetricInv`, `PairInv`) are inductive together. A report finished is in
  exactly one of three places: the queue, the parser's lines or the lists.
* `NoSampleLost` is the third place: a list holds the values of the reports recorded,
  in their order, whatever the processes, parsers and sampler do in between.
* `NewestOfRound` follows from `RoundInv`: lists only grow, so that what the sampler
  took of a key a while ago is still bounded by the list, and its length from below by
  what there was when the round began.
* `LatenciesInStep` follows from `PairInv`: the sampler has the window of L1 before it
  takes the length of DDR, and by then the parser has appended the DDR values of every
  report before the last one of that window (`Conserved`), so that they are in the part
  of the list it will average.

`CaptionClimbProofs`, for every profile over the ratios, with any number of peaks:

* `Invariance` proves `Inv`. `RunInv` says which ratios a run can have had its memory
  at; `MeasuredInv` that the state compared with was measured between the two ratios
  before; `SignInv` that the step kept is upwards after a raise; `ClimbInv` is below.
* `TurnsAround` proves `TurnsBack`, with memory allocated over time too. If two decisions
  did not lower the ratio, the states compared in the third were measured at ratios in
  ascending order (`MeasuredInv`, `RunInv`). Past the best ratio the later one is not
  the better one, and the step between them was upwards (`SignInv`): the third is
  stable, a reset or a step down.
* `StaysNear` proves `NoOvershoot`, which is about any ratio from which on the state
  only falls, such as the peak of a one-peaked profile, for an application that
  allocates at one moment. It needs `ClimbInv`. A run that still has the ratio of the
  run before measures the same state again: algo() takes that for stable and moves
  nothing. So a decision that moves compares the ratio in force with the one the step
  kept led from (`LedFrom`), unless a reset or an idle or stable system came between.
  Then a gain on the way up was made below the peak, and a step that turns up after a
  loss on the way down does not pass the ratio it came from (`TunedStepLength`). The
  property asks that the default ratio is not itself a step past the peak, which holds
  of the default in `config.py`, 1, the lowest there is.

`CaptionLoopProofs`, for any number of scripts and rounds:

* `OneRoundEach` and `NoTuneAsync` follow from `LoopInv`; `RoundInv` is needed
  because a round must not begin after the last one.
* `SteppingSchedule` follows from `SyncInv` under `IL_BOT_RESET = 1`, the literal in
  `sync_tune`: without that assumption the first run would not be on schedule. `Schedule`
  is the promise made for `-x`; the part without `-x` is not claimed.
* `FullInvariance` joins the two invariants, under the same assumption.

Where a proof goes through all numbers (threads, powers of two, steps of a walk) it
takes the set of numbers a fact holds of, and `AllNaturals`: a set that contains 0 and
with every number the next is the set of naturals, because a number left out would have
a least one among them. The induction theorems of the library take an operator as a
parameter, which the provers cannot instantiate; a set they can.

Every invariant a run checks is proved, and so are the action property
`TurnsBack` and the refinement `MeterSpec`; `KeepsApart` is proved only. Only
model-checked: `Termination`, `Finishes` and `Delivered`, which are liveness under
fairness and out of the prover's reach.

## Not modelled, and why

* The arithmetic of `xorshf96`: its words are any words, which includes what the
  race on `y` and `z` makes of them. The loop of `flush_all_cache`: it leaves the
  buffer uncached, and whether a cache of a given kind does so is outside this code.
* What the instruction sequences do to registers, and the time they take.
* `op_mixed`, the 32-byte routines, `op_st_64B_lat`, `pcm-memory` and
  `catch_output_all_cal`: nothing calls or starts them.
* `slab_mon`, `vmstat_mon` and `pmu_mon`: they feed no decision.
* `calculate_state` and the floating-point weights of `config.py`: nothing calls the
  first, and the second only scale the value that the models call a state.
* The scripts, the Makefile and the Python generator of instructions: sequential,
  without state of their own.

What a next step could add: the wall clock of `get_bw` (the delay between two
readings), a sysctl that fails as part of a property (`SysctlMayFail` is in
`CaptionCtrl`, and the code has nothing that could notice), and `slab_mon`.
