# A TLA+ verification of the MI300A benchmarks

The repository is a collection of benchmarks for AMD's MI300A: programs that
time memory, atomics and copies, and the drivers that run them. What can be wrong
in it without being seen is coordination: a measurement that overlaps another
process's warm-up, a result accepted from a run that failed, threads that start
before the others are ready. This directory models those parts in TLA+, checks
them with TLC and proves the most important properties with TLAPS.

The paths below are relative to `src/`; `triad/` stands for
`experiments/triad_partition_controlled/`.

## The system

| Component | State | Operations | Hard because of |
|---|---|---|---|
| Triad coordinator, `run_phase` and `terminate` of `triad/run_campaign.py` | lists of processes and connections, set of ready workers, `phase.json`, `status.json` | launch, accept, check, plan, START, wait, verify, record; on failure SIGTERM, wait, SIGKILL | N processes, sockets, timeouts, signals at any bytecode, failures in the failure handler |
| Triad worker, `triad/triad_worker.hip` | arrays, socket, `result.json`, exit status | set up, warm up, connect, report ready, await START, measure, validate, write, exit | crashes, a coordinator that is gone, late START |
| Triad schedule, `schedule` | the list of phases | two nested rotations, alternation | arithmetic of the rotations for 1, 3, 6 devices |
| Triad campaign, `main --execute` | counters, time, `campaign.json`, `campaign_status.json` | preflight, a phase after the other, postflight, publish | counters stand for files; interrupts; time budget |
| Triad analyzer, `triad/analyze.py` | none (files to tables) | merge, intersect, calibrate, count, pair, accept | soundness for every clock offset |
| Triad topology, `triad/topology.py` | none (system to device list) | canonical names, matching of four sources | ambiguity |
| Concurrent allocator experiment, `experiments/allocator_partition_concurrent/worker.sh` | gate files, list of children, two tables | a wave of processes per configuration that poll a gate file; wait, accept, sum; trap | signals between any two commands, processes that outlive a step, files left by a run that died |
| Single allocator experiment | tables | one process after another | little |
| multichase startup barrier, `multichase/{multichase,multiload,fairness}.c` | `nr_to_startup`, mutex, condition variable | create, prepare, wait, release | lost and spurious wakeups |
| multichase sampling, `main` and the chase functions of `multichase.c` | `x.count` of each thread, the clock | add, exchange with 0, drop the first, stop when the time is over | counters read while they grow; a loop with two ends |
| multiload sampling | `count` and `sample_no` of each thread | request, publish, exchange | lock-free handshake |
| Chase generation, `multichase/{permutation,br_asm}.c` and its callers | arena, permutations, mixer | round sizes, permute, thread the cycle, link several, convert to branches | one cycle, disjoint slots written by several threads, index arithmetic |
| Options of multichase and multiload | kernel, kind of run, number of threads | getopt, selection by prefix, checks, roles of the threads | two options that decide together, in either order |
| Arena, `multichase/arena.c` | two sysfs files that all threads write, pages | check, map, make huge pages accepted, bind by weight | read, then written, without a lock |
| Load kernels of `multiload.c` | three buffers per thread | divide the arena, passes whose roles rotate | unsigned sizes, alignment |
| `multichase/pingpong.c` | shared word, rendezvous flag, counter, page | exchange, sample, stop, join, unmap, next pair | races on the word, reuse of the rendezvous and of the counter |
| `multichase/fairness.c` sampling | a counter per worker, mode and line | increment in passes, sweep, sample | mode and line change in two steps that each worker notices on its own |
| `atomics/`, `coherence/`, `fault/`, `hip-stream/`, `malloc/`, `measure/`, `memcpy/`, `stream/` | buffers, results | one benchmark each | mostly sequential or data-parallel |

The campaign's `main` computes a schedule and calls `run_phase` for each entry.
`run_phase` launches one worker per device, under `numactl` and, in traced
phases, a profiler; the workers connect to a UNIX socket. The phase leaves files
that the analyzer reads long after every process is gone; `main` keeps only two
counters of them. The multichase programs are unrelated to this: each is one
process whose threads generate their data, meet at the barrier, and then work while
`main` samples counters that they share with it. The allocator experiment is a third,
separate thing: a shell script and its background processes.

What makes them correct: a verdict on disk is never better than the run it came
from; no measurement starts before every participant is ready; a phase leaves
nothing running for the next; nobody waits forever; the plan is complete and
balanced; threads start together; each dereference, exchange or answer is counted in
the sample, row or pair it belongs to; what threads build at once is disjoint.

## The modules

| Module | Models | Checked in | Proved in |
|---|---|---|---|
| `TriadPhase` | `run_phase`, `terminate`, `read_line`, the workers' `main`, and the socket | `TriadPhase.cfg` | `TriadPhase_proofs` |
| `PhaseContract` | what a phase promises: abstract specification of `TriadPhase`, environment of `Campaign` | through both | `TriadPhase_proofs` |
| `Campaign` | the loop of `main`, each phase being any behaviour of `PhaseContract` | `MCCampaign` | `Campaign_proofs` |
| `Schedule` | `schedule` | `MCCampaign`, `ScheduleDeviceOrder.cfg` | `Campaign_proofs` |
| `GateWave` | `worker.sh` of the concurrent allocator experiment and its processes | `MCCampaign` | `GateWave_proofs`, `Campaign_proofs` |
| `StartupBarrier` | the barrier of three multichase programs | `MCMultichase`, `MCMultiload`, `MCFairness` | `StartupBarrier_proofs` |
| `ChaseSampling` | the sampling loop of `multichase.c` and the threads it samples | `MCMultichase`, `TimedAverage.cfg` | `Multichase_proofs` |
| `Multichase` | `StartupBarrier` and `ChaseSampling` composed | `MCMultichase` | `Multichase_proofs` |
| `Chase` | sizes, mixer, short and long chases, critical words, branch chunks | `MCMultichase`, `MultiloadLong.cfg` | `Multichase_proofs` |
| `LoadSampling` | the sampling loop of `multiload.c` and the threads that answer it | `MCMultiload`, `LoadSampling*.cfg` | `Multiload_proofs` |
| `Multiload` | `StartupBarrier` and `LoadSampling` composed | `MCMultiload` | `Multiload_proofs` |
| `Options` | the command lines of multichase and multiload | `MCMultiload` | `Multiload_proofs` |
| `Arena` | `alloc_arena_mmap`, called by several threads | `MCMultiload` | `Multiload_proofs` |
| `LoadBuffers` | `Arena`, then the buffers and passes of the load kernels | `MCMultiload` | `Multiload_proofs` |
| `FairnessSampling` | `main` and `worker` of `fairness.c` after the barrier | `MCFairness` | `Fairness_proofs` |
| `Fairness` | `StartupBarrier` and `FairnessSampling` composed | `MCFairness` | `Fairness_proofs` |
| `Pingpong` | `pingpong.c` | `MCFairness` | `Pingpong_proofs`, `Fairness_proofs` |

An MC module puts the parts of one program, or of related ones, into one run of TLC. It
is a disjoint sum: `Init` chooses a `part`, only that part takes steps, and the others
keep an initial state, so that each part's behaviours are exactly its own
specification's. The parts that do interact are composed in modules of their
own (`Multichase`, `Multiload`, `Fairness`, and `Campaign` with `PhaseContract`).

Operators named `Bug_...` are variants of the definition that follows them, with
a plausible mistake. No specification uses them; with one of them in place of the
original, the run named in `PROJECT.json` reports the property violated, which is
how we know that the property can fail.

### TriadPhase

`cpc` is where `run_phase` is: `prepare` before the `try`; `open`, `spawn`,
`append`, `accept`, `read`, `plan`, `start`, `wait`, `check`, `commit`,
`committing`, `returning` in it; `term`, `reap`, `reapkill`, `record`,
`recording` in the `except` clause; `finally`, `returned`; and `dead` when the
process is gone. `cur` is the index of the loop over processes. Python's list
`processes` always holds a prefix of the devices and is its length. `wpc`, `ready`,
`result`, `code` are each worker's location, the ready message it sent, the
contents of its `result.json` and its exit status. The operations of the code
appear as the actions named `C...` (coordinator) and `W...` (worker).

Signals: Python runs a signal handler between any two bytecodes, so `CSignal` is
enabled at every location, at most `MaxSignals` times; in the `try` it enters the
handler, in the handler it leaves through `finally`. `COSError` and
`CRecordOSError` are the failures of files, sockets and processes. `CGone` is the
death of the coordinator. `Popen` and `append` are two actions (a signal may come
between them), and so are the truncation and the writing of every file that a
verdict depends on. `CTimeout` may happen whenever a call with a timeout is
blocked.

What is abstracted:

- The accept queue is a set: workers are accepted in any order, a superset of
  the order of their connections.
- Messages are what they mean: a ready message matches its device or not; START
  is the worker's membership in `started`. A worker that sends half a line and dies
  is one that sent none.
- The clock is known relative to `lead_ns` and `tail_ns` only; `t0_ns` and
  `t1_ns` are used by the analyzer. A worker that overslept may begin at any
  moment after `lead`.
- `numactl`, the profiler and the worker are one process; a worker whose result is
  ok may still have a nonzero exit status, which is the profiler failing.
- Signals to a process group are pending (`sig`) until the group dies of them
  (`WKilled`), which is not bounded in time: hence the KILL after the TERM.

### PhaseContract

Four variables: what has become of each worker, who has arrived, the verdict on
disk, and how the phase ended. It says that nobody measures before everybody has
arrived, that `ok` needs every worker to have succeeded, that after `failed` at
most one process, which does not measure, is left, and that a phase that is not
abandoned ends with the matching verdict and with nothing running. `TriadPhase`
implements it under the mapping at its end; `Campaign` uses it in place of
`TriadPhase`, which keeps both models small.

### Campaign

`mpc` is where `main` is; `executed`, `failures`, `elapsed` are its variables;
`files` is what the `status.json` of each phase says and `campaign` what
`campaign_status.json` says. `StartPhase` resets the variables of the contract,
`PhaseStep` is one of its steps (workers that were left behind may go on after it
ended), `Count` is the code after `run_phase` returned. A phase that ends
`abandoned` raises. Durations are drawn from small sets, in seconds.
A torn file counts as one that does not say `ok`.

### Schedule

One step per pass of the inner loop, over the real table sizes: seven
configurations, seven repeats, and 1, 3 or 6 devices (`COUNTS` of `topology.py`).
A path is the triple it is formatted from. The properties speak of the plan as sets
of its rows: the phases of a pair, the place a configuration has in a repeat.

### GateWave

`spc` is where the script is, `wave` and `device` its loop variables, `active_pids` the
devices whose process the trap would kill, `gates` the waves whose `start.gate`
exists. A process is `forked` (the subshell has not redirected its output yet),
`polling`, `streaming`, `succeeded` or `failed`. The fork and the `+=` that
records the pid are two actions, since a signal may come between them.
`Signal` is the trap: it kills the recorded processes and the script goes on, or, in
`wait`, returns at once with a status above 128, which counts as a failure. `Fail` is
any command that fails under `set -e`. `Crash` and `Restart` are a node
that dies and a job that is requeued under the same `SLURM_JOB_ID`, which names the
directory: gates and outputs are still there. The seven configurations, and which
allocator each names, are `NrWaves`; the lines of `output.txt` are whether it
validates and can be parsed. The checks of the node before line 111 change nothing that
later lines read.

### StartupBarrier

`MainCounts` selects `fairness.c` (main decrements too) or the other two programs
(main only looks); `Branch` the branch chase, for which the last thread makes
the buffer executable; `Spurious` whether `pthread_cond_wait` may return with no
signal, which POSIX allows. The mutex and the condition variable are modelled
by their specification: a wait gives up the mutex and sleeps in one step, a
broadcast makes every sleeper compete for the mutex again.

### LoadSampling

`main` of `multiload.c` after the barrier: `mpc` is where it is, `sample` its
`sample_no`, `used` the answers it has taken. Each thread has the two words that it
shares with main: `sample_no`, which main writes, and `count`, which main exchanges with 0.
A load thread makes a pass over its buffer and reads `sample_no` (`Pass`), tests
whether a sample is wanted (`Test`), adds its rate to `count` (`Answer`) and
begins its next interval (`Restart`): four steps, between any two of which main
may run. An answer carries two things the code does not store, the request it is to
and the time its interval began, so that the properties can speak of them;
no guard reads them. Time is counted in requests. `-n 0`, which samples without end,
is not modelled.

The sums and averages of the answers are not modelled. `Multiload` lets each thread
sample only when it has left the barrier, and main ask as soon as it has: main
may ask a thread that is still in `pthread_cond_wait`.

### ChaseSampling

`cpc` is where main is and `i` its loop over the threads. `count` is each thread's
`x.count`; `Round` adds what a round of the kernel adds (`Added`, from the table of
chase functions), and main takes the counters one after another, with an exchange, while
the threads go on. The clock advances only in `usleep`, by its half seconds and at most
half as many again. `made` and `dropped` are ghosts: the dereferences of each thread,
and those in the sample that is dropped. Averages are abstracted to the number of
their terms (`sum_of`).

### Chase

A request is the options that bear on sizes, in pointers: `-m -s -T -t -L -o`, the
chase and its parallelism. `options` rounds them as `main` does, `mixer` chooses the
mixer table, `generate` writes one chase after another into `arena`, a
function from the addresses written so far. A random permutation is any the
shuffle can produce; `ShuffleIsUniform`, which TLC evaluates as an assumption, says
that the shuffle can produce each of up to four elements in exactly one way;
`EveryPermutationOnce` proves it for every number. A chase is generated in one
step, which is sound because `SlotsDisjoint` holds. A branch chase is abstracted to
the elements at which the generated code returns: `Ends` follows `chunk_count` and
`chunks_remaining` along the lap. `GroupsVisitedOnce` counts the entries of a lap into
TLB groups exactly: as many as there are groups for each permutation, and none if
there is one group.

### Options

The options `-c`, `-l` and `-t`, in any order and up to `MaxOptions` of them, as the
`getopt` loops handle them, for each stride of `-s`; then the checks and the roles main gives the threads. The
tables of kernels are there in their order, because a kernel is the first name that the
word typed is a prefix of. Other options set a value, which the modules that use it
take as a constant, or end the program.

### Arena and LoadBuffers

`apc` is where each thread is in `alloc_arena_mmap`: flags, map, read the two files of
transparent huge pages, write one, write the other, `madvise`, bind. `seen` is what a
thread has read of the files; another may write between its read and its write.
A page is bound to any node the draw by weight can give. `LoadBuffers` goes
on when all have allocated: it divides the arena as each kernel does, with the unsigned
arithmetic of `Width` bits, and makes whole passes, whose buffers rotate. An access
outside the mapping ends the program.

### FairnessSampling

`relaxed` and `sweep_id` are the mode and the line that main has set; `mode` and `line`
those of each worker's pass. What a worker adds to its counter is tagged with
them; no guard reads a tag. `old` are the workers whose pass began before main went to
sleep: the one assumption about time is that such a pass, of 50 increments, is
over when main wakes up half a second later. Workers in `delayed` (`delay_mask`) wait
for longer than that.

### Pingpong

`mpc`, `i`, `j`, `core` and `sample_no` are main's location and loops over the pairs of
`Cpus`; `tpc` where the even and the odd thread are: setup, rendezvous, waiting,
entering and the steps of the three exchange loops. A page is named by the pair it was
mapped for, so that a stale pointer differs from the present one. The load, the store
and the compare-and-swap are separate actions; the counter is updated once per `Batch`.
`exch`, the exchanges made, and `taken`, those main was told of, are ghosts. An
access to a page that is not mapped ends the program.

## The runs

| Run | Bounds | Shows |
|---|---|---|
| `triad_phase` (403 000 states) | 2 workers, 2 signals | `OkIsSound`, `WarmupNeverOverlaps`, `NothingLeftRunning`, `FailedMeansStopped`, `ImplementsContract`, `PhaseReturns`, `WorkersEnd` |
| `campaign` (79 000) | plan of 1, 3, 6 devices; 2 phases of 2 workers, durations of 1 or 3 against a limit of 3; 2 waves of 2 processes, 1 signal, 1 restart | `PathsUnique`, `PairsComplete`, `PlanIsBalanced`; `CompleteIsSound`, `CountersMatchFiles`, `OnePhaseAtATime`; `WavesAreSound`; `MainEnds` |
| `campaign_budget` | 12 phases of 95 s | **violation** of `BudgetKept` |
| `schedule_device_order` | 3 devices | **violation** of `DeviceOrderRotates` |
| `multichase` (43 000) | 13 requests; 2 threads, 2 rounds each, `-n` 0, 1, 2, with and without `-N` | `OneCycle`, `SlotsDisjoint`, `GroupsVisitedOnce`, `ChunksAreEven`; `NoEarlyStart`, `NoLostWakeup`, `DereferencesCountedOnce` |
| `multiload_long` | a long chase of multiload in 2 threads | **violation** of `RowsInTable` |
| `timed_average` | 1 thread, `-N -n 3` | **violation** of `AverageOverSamplesTaken` |
| `multiload` (85 000) | 1 chase and 2 load threads, 3 samples and the dropped one; 3 options, strides of 4, 8, 64, 160; 2 threads allocating, 29 requests, 3 passes | `AnswersThisSample`, `IntervalsAreRecent`, `MultiloadEnds`; `OptionsAreKept`, `ThreadsAreReady`; `ArenaIsAsAsked`, `PassesAreSound` |
| `load_sampling_zero_rate` | 1 chase and 1 load thread, rates 0 and 1 | **violation** of `SamplingEnds` |
| `load_sampling_warmup` | 1 chase and 1 load thread, 2 samples | **violation** of `WarmupIsDropped` |
| `fairness` (154 000) | 2 workers, 2 lines, 1 sample and the dropped one; 3 cpus, batches of 2, 3 exchanges, 2 samples; spurious wakeups | `RowsAreOfTheirPoint`, `BarrierOpens`; `ExchangesAlternate`, `TableIsSound`, `PagesOutliveTheirUse`, `EveryPairEnds` |
| `barrier_spurious_start` | 2 threads, branch, spurious wakeups | **violation** of `NoEarlyStart` |

Each passing run also checks the types of its parts.

Two workers are the least for which one can fail, lag or be unknown to
`run_phase` while another measures; two signals the least that interrupt
`terminate`. The safety properties are proved for any number of both. (Three workers
without signals, 6.2 million states, were also explored and add nothing.) In
`campaign` the limit falls between the first and second phase for some durations
and after the second for others, so that both exits of the loop occur. Two waves let
a gate, or a process, of one wave meet the other; a restart finds the gates that the
crash left, a signal may come between any two commands of either run.

The requests of `MCMultichase` are the cases of the size arithmetic: stride and base
that do not divide each other or the memory, memory below the TLB locality and below
the stride, more threads than chases fit, one or several permutations linked, the two
critical-word chases, a branch chase that is longer than a chunk. `MinMixers` is 2
instead of 64 and `BranchChunk` 3 instead of 200, so that tables wrap and chunks have a
remainder at these sizes. Two rounds let a counter be read between two additions of
one thread; of the four samples of `multiload` (0 is dropped) two are ones to which
`IntervalsAreRecent` applies, and two load threads let main wait for one while the other
has gone on. Rates other than 0 all behave alike. `Width` is 16 bits and a page 32 bytes:
`load_total_memory - 48` wraps as it does at 64 bits. Strides of 4 to 160 lie below and
above the room that each chase needs. Two lines and two modes give every kind of
change from row to row. Three cpus that are not consecutive give three pairs with a
gap in the mask; three exchanges against a batch of two leave a part of a batch when the
pair ends.

Deadlock is not checked, since every one of the programs stops; that none stops
before its end is what the liveness properties say.

### Fairness

`TriadPhase` has two assumptions, and a property under each. `CoordFairness`: the
coordinator runs (`WF` of its steps, of which a timeout is one) and SIGKILL is delivered;
of the workers nothing is assumed, so they may hang anywhere (`PhaseReturns`).
`WorkerFairness`: workers run, their receive timeout of 30 s (`SO_RCVTIMEO`)
expires and time passes; of the coordinator nothing is assumed (`WorkersEnd`).
`Campaign!Fairness`: `main` runs, and a phase ends, which is `PhaseReturns`.
`GateWave!Fairness`: the shell and the processes are scheduled, and a process dies of
the TERM it was sent (neither bash in its loop nor stream catches it).
`StartupBarrier!Fairness` is weak fairness of every thread: each takes the mutex once or
twice and holds it briefly, so that weak fairness of `Lock` is enough, as the runs
confirm. `LoadSampling!FairSpec` and `Multiload!RunFairness` add weak fairness of main
and of each thread after the barrier, which has a cpu of its own and never blocks.
`Pingpong!Fairness` is weak fairness of main, once it has its options, and of
both threads. No failure, signal, crash or spurious wakeup is ever fair. The safety
of `FairnessSampling`, `ChaseSampling`, `Chase`, `Options` and `LoadBuffers` needs no
fairness: their loops are bounded by their arguments, and nobody in them waits.

### Violations found

1. *The device order hardly rotates* (`triad/run_campaign.py:34-37`). The index
   in the rotated list of configurations plus the rotation gives back the
   configuration: with configuration c and repeat r the shift is `c mod n` while
   `r - 1 <= c`, and `(c + 7) mod n` later. The docstring announces a rotation
   per repeat.
2. *The campaign may exceed its declared budget* (`:211`). One isolated phase may
   take 30 + 30 + 35 s within its own timeouts; started at 1010 s it ends, with
   the postflight, after 1050 s. The run starts with ten such phases, the
   shortest way to 1010 s; any mixture of durations that reaches it would do.
3. *Waits without a loop* (`multichase/multichase.c:538-539`, `:906-907`,
   `multiload.c:833-834`, `:1305-1306`, `fairness.c:60-61`). A spurious return lets
   a thread start before the others are ready, and a branch chase jump into a
   buffer that is not executable yet.
4. *A load thread that is too slow stops the program* (`multiload.c:452`). A rate
   below 1 MiB/s, which a large `-d` gives, is converted to the integer 0: the
   thread has answered, and main waits for a count that is not 0.
5. *Sample 1 covers the warm-up* (`multiload.c:436`). `sample_no` is 0 before main asks
   for sample 0, so that a load thread answers it after its first pass and measures
   the next sample, which is not dropped, from there on, warm-up delay included.
6. *The average of a timed run* (`multichase/multichase.c:973`). With `-N` the loop ends
   when the time is over (`:964-968`), but `-a` divides the sum of the samples taken
   by the number asked for, and prints too small a latency.
7. *Long chases of several threads* (`multiload.c:774`). `thread_start` passes the
   parallelism of one thread as that of all, where `multichase.c:472` multiplies by the
   number of threads: with `-L` and two threads the second wants rows beyond
   the mixer table.

## The proofs

Every safety invariant and action property that a passing run checks is proved, for
every value of the constants that the assumptions allow. Each part has an
inductive invariant of its own, and the last section of a proof module carries the
results over to the run of TLC that puts the parts together.

`TriadPhase_proofs` proves, for every number of workers and of signals
(`NAssumption`, `MaxSignalsAssumption`), `TypeCorrect`, `OkSoundness`,
`Barrier`, `FailureStops`, `NothingLeft` and `Refinement`.

None of the properties is inductive. The invariant `IInv` is the conjunction of
`TypeOK` and five parts, one for each thing the code keeps implicitly:

- the loops: what the location says about `cur`, `reading`, `open`, `seen` and
  `started` (the accept loop leaves with everyone seen; every connection that got
  START was seen first);
- the list: workers up to `processes` were launched, the next one exists only
  while `append` is pending or after an interrupt between the two, and the
  others do not exist;
- the wait loops: every process before `cur` has exited, in the loop of `run_phase` and
  in that of `terminate`;
- the barrier: a worker past START is in `started`, which is not empty only if all
  were seen, and a worker that was seen is past its warm-up;
- the verdict: `status.json` says `ok` only after `check`, `failed` only after the last wait.

`TypeStep`, `LoopStep`, `ListStep`, `WaitStep`, `BarrierStep` and `VerdictStep`
show that each part is preserved, action by action; the theorems follow from
`IInv`. The worker that survives a failure is the one that was forked and not yet
listed: `Straggler` shows that it cannot have been sent START, so it never
measures. `Refinement` shows that a step of `TriadPhase` is a step of
`PhaseContract` or leaves its variables alone, using `IInv` for the guards of
`Measure`, `Publish` and `End`.

`Campaign_proofs` proves, for every plan, every set of workers and all durations,
`TypeCorrect`, `CompleteSoundness`, `CountersSoundness` and `PhasesApart`. The
invariant ties the counters of main to the files of the phases before the
current one (`CountInv`: `executed` is `current - 1`, `failures` is the cardinality
of those that say `failed`), and the file of the current one to the phase in
progress (`PhaseInv`); `PhaseEnds`, a lemma about `PhaseContract`, says how it
may end. `PhasesApart` is the action property: at `StartPhase` no worker runs.

The plan (`Schedule`), for every number of devices: `PathsOfTheRun`,
`PairsOfTheRun`, `BalanceOfTheRun`. `PlanInv` says that after every pass of the inner
loop the rows are those of `Pass` for all passes so far, and that row `k` of a pass
is at the `Place` that repeat, index and `k` determine. `PlaceUnique` and `PlaceSplit`
make places and rows correspond one to one; `Rotated` and `OrderOf` say that a
rotation is a bijection, hence that a configuration takes each place of the order
once; the rest counts.

`GateWave_proofs` proves, for every number of devices, waves, signals and restarts,
`ProcessesRunTogether`, `EverySumIsWhole` and `TypesAreKept`; `WavesOfTheRun`
carries them over. Which processes exist follows from where the script is (`LaunchInv`);
those that run are of its wave, whose gate is closed until all are launched
(`RunInv`: gates of later waves may be open since before a crash, which is why the
script closes the gate of a wave before it forks, and why the invariant speaks of the
present wave only); a row is of an accepted process that the script has come
past, and there is one at most of each (`RowInv`); a sum has a row of each device
(`SumInv`).

`StartupBarrier_proofs` proves, for every number of threads and all programs,
`TypeCorrect` (the unsigned counter does not wrap: everybody who is counted
decrements it once), `WakeupsKept`, and, without spurious wakeups, `StartsTogether`.
The invariant relates the counter to the number of counted threads that have not
yet decided, and says that nobody is past the barrier before it is zero.

`Multichase_proofs`, the sampling: `DereferencesOfTheRun`, for every number of
threads, samples and rounds. Main takes a counter with an exchange while threads go
on, so what it sums belongs to no single moment. `SamplingInv` says, thread by thread,
that what is in the counter, in the present sample and in the dropped one was made,
that threads main has not come to have 0 in the present sample (`NotYetInv`), and that
the sums over all threads balance.

`Multichase_proofs`, the chases, for every list of requests: `SlotsOfTheRun`,
`CyclesOfTheRun`, `GroupsOfTheRun`, `ChunksOfTheRun`, `RowsOfTheRun` and
`TypesOfTheRun`. That a lap of a chase is one cycle is not inductive: the next chase
writes the same arena, and which of its words it writes is decided by the mixer. The
invariant `ChaseInv` therefore says where each finished chase came from: there are
permutations of whole TLB groups, one for each of its rows, such that each word
of the chase holds what they ask for (`MadeFrom`), and every word of the arena that was
written is in a slot of a finished chase (`Within`). The steps of the argument:

- the rounded sizes are whole groups of whole elements (`Sized`);
- `Shuffle` gives permutations, whatever is drawn, and so does `Grouped`; each
  permutation comes of one sequence of draws only (`EveryPermutationOnce`), because the
  last pass can be undone in one way;
- columns of the mixer are permutations, so that two rows put the same element into
  different slots, and slots do not overlap: what is generated next leaves
  every finished chase alone (`SlotsOfTheRun`), and the overlap for
  which the code aborts cannot occur;
- the words of a lap in order form a ring (`IsRing`), a walk along a ring
  comes back after its length and not before (`RingWalk`); the two rewritings of
  critical words turn a ring into rings (`CyclesOfTheRun`);
- a walk changes its TLB group where `x \div E` changes, once for each group of each
  permutation, wherever in a permutation element 0 is (`GroupsOfTheRun`);
- the lengths of the chunks that are left differ by at most one from those that
  were planned, because `remain \div chunks` is taken anew for each (`Left`,
  `ChunksOfTheRun`).

`RowsOfTheRun` says that no mixer row beyond the table is read except by a long
chase of multiload: violation 7 is the only way. It needs that
`Row(c) + NrIterations` is at most the number of rows when `NrIterations` divides them
among the chases of all threads.

`Multiload_proofs`, the sampling, for every number of threads and samples and all rates,
0 included: `AnswersOfTheRun`, `IntervalsOfTheRun`, `StartOfTheRun`. Main and a load
thread agree without a lock because each is at most one sample behind the other, and
this is `SamplingInv`: the last sample a thread has answered is the present one or the
one before (`AnsweredInv`); it decides to answer only if it is the one before, and then
nothing else can fill `count` or let main go on; a count that is not 0 is an answer to
the present sample (`AnswerCountInv`). A restart is at most one request late, which
bounds the interval from below.

`Multiload_proofs`, the options, for every set of typed words and every number of
options: `OptionsOfTheRun`, `ThreadsOfTheRun`. `OptInv` follows what `-c` and `-l` have
named and what the prefixes made of it (`KernelInv`), that the kind of run is a
function of the set of kernels asked for and not of their order (`RankInv`), and the
roles of the threads created so far (`RoleInv`).

`Multiload_proofs`, the arenas, for every number of threads, sizes, page sizes and
weights: `ArenasOfTheRun`, `PassesOfTheRun`. What a thread has read of the two files may
be stale when it writes, but nobody writes a state that is not accepted, so that a file
that is accepted stays so (`Knows`, `OthersKnow`). A node gets as many draws as its
weight because the cumulated weights are sums, which makes the intervals of draws
disjoint. The buffers are inside what was asked for and apart (`Placed`), unless the
unsigned subtraction wraps (`Wraps`), in which case the program ends before a
pass is complete; a pass rotates the buffers, which keeps what it reads apart from
what it writes (`LoadInv`).

`Fairness_proofs` proves `RowsArePure`, for every number of workers, lines and
samples. A pass that began after main went to sleep is in the mode and on the
line of the row (`PassInv`); so what a counter holds is pure as soon as it has been
emptied with no old pass left (`SumInv`), which is what the one dropped sample does.

`Pingpong_proofs` proves, for every mask of cpus and any number of samples and
exchanges, `TurnsAreTaken` (with spurious wakeups too), `PagesAreThere` (without
them), `TableOfThePairs` and `TypesAreKept`. The invariant follows a pair: which threads
exist where main is (`PairInv`), that there is one page from the even thread's setup to
the unmapping (`PageInv`), that both threads have been through setup when one enters
its loop (`MeetInv`), and who may store (`TurnInv`). For the table it then follows main:
what of a batch is in the thread's count, in the shared counter and with main
(`CountInv`), where the loops over the cpus are (`PlaceInv`), and that the cells
printed are all those before that place, once and in order (`TableInv`).

### From the parts to the runs

The theorems `...OfTheRun` are about `MCSpec`, the specification that TLC runs. A run
is a disjoint sum: each step is a step of one part, and leaves the variables of
the others alone, so that the run implies the specification of each part (`EachPart`).
In the composed programs a step of the composition is a step of one part that leaves
the other's variables alone (`RunImplementsParts`). Where a module is used both by
EXTENDS in its proofs and by INSTANCE in the run, its definitions are matched one by one
(`SamePair`, `SameWaves`, `SameBarrier`).

### Assumptions

Constants have the least that the code justifies, and TLC evaluates each assumption on
the constants of the run: numbers are naturals, and there is at least one thread,
device or phase. Beyond that:

- a typed word that is itself the name of a kernel is a prefix of that name and of the
  names that extend it, and of no other (`Options`), which is what `strncmp` computes;
- sizes, offset and page together take at most a quarter of the addresses of `Width`
  bits (`LoadBuffers`), which every mapping that succeeds does on
  64-bit machines;
- `2^Width` is a number, which the prover cannot compute for an unknown `Width`;
- `BranchChunk` is more than 1 (it is 200), and `MinMixers` a power of two up to 64;
- a critical-word or branch chase has one chase per thread and more than one word per
  element, as the table of chases has it;
- the N of `critword:N` and `critword2:N` is a word of the element other than its first.
  This is asked of the user: `main` takes any number, and with another the second
  words are those of other elements, so that the properties of chases would fail.

Recursive functions (`pow`, `perm`, walks, chunks, sums, cumulated weights) are reasoned
about without an induction theorem: a counterexample would have a least index
(`NatLessThanWellFounded`, `WFMin`), and at that index the defining equation gives a
contradiction. `WalkRec`, `PowRec`, `ShuffleRec`, `ChunkRec` state those
equations.

### Only model-checked

Liveness, which the prover does not handle under fairness: `PhaseReturns`,
`WorkersEnd`, `MainEnds`, `BarrierOpens`, `MultiloadEnds`, `EveryPairEnds`. The runs that
expect a violation have no proof, except that `RowsOfTheRun` shows what `multiload_long`
violates to hold everywhere else.

## Not modelled

Kernels on the device, bandwidths, floating point, machine code, trace formats,
page mapping, the contents of environments and logs; clocks and pause instructions
(`timer.h`, `cpu_util.h`); third-party code (`memcpy`, the STREAM kernels); plots, data
and build files. Of the modelled programs: options that only set a number, what
`print_page_size` and the reports print, and malloc'ed arenas (`-M`). `analyze.py`,
`topology.py` and both `compare_results.py` reduce files without keeping state: one
call shows what they do. `PROJECT.json` lists the components with reasons.

## Plan

1. `TraceCounts`: interval operators and counts of `analyze.py` against a definition
   that quantifies over every clock offset; pairing and acceptance over the plan
   of `Schedule` and the files of `Campaign`.
2. `Topology`: the identities of `topology.py` for the partition modes.
3. `Histogram` and the coherence test of `atomics/` and `coherence/`: increments of CPU
   and GPU on the same words.
4. The bounds and validations of the sequential benchmarks (`stream/`, `measure/`).

Proofs: that `BudgetKept` holds with a limit lowered by the longest phase, and that
`DeviceOrderRotates` holds for the shift that the docstring describes, which would
settle how to repair violations 1 and 2; that the average is right for runs without
`-N`; an abstract sampler that `ChaseSampling` and `LoadSampling` both implement.
