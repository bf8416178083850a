# A TLA+ model of approval-gate-serving

An agent that stops at an approval gate leaves a KV cache behind that somebody may need again in
minutes or hours. The repository asks where that cache should wait: in HBM, in DRAM, or nowhere.
It answers with a patch of vLLM's block pool that keeps chosen contexts resident
(`harness/patches/`), benchmarks that drive a patched or a stock server (`harness/bench_*.py`,
`suspend_resume.py`), placement policies with guarantees (`harness/policy.py`), and a replay of
arrivals under a capacity (`harness/replay.py`).

This directory models the parts of it that hold state or make promises, checks them with TLC on
small instances, and proves the main promises with TLAPS for every instance.

## The system

| Component | State it keeps | Operations | What is hard | What makes it correct |
| --- | --- | --- | --- | --- |
| Patched `BlockPool` (`patches/blockpool_pin.diff`, behaviour stated in `probe_pin_mechanism.py` P1–P5) | free queue, `ref_cnt`, `block_hash`, `pinned_block_ids`, `pinned_by_request` | `touch`, allocation, `ss_should_pin`, `ss_pin_request`, `ss_unpin_all`, `reset_prefix_cache` | a block changes owner on five paths; prefixes are shared; a request may be freed twice (preemption); a refused reset has already unpinned | one owner per block; nothing is lost; pinned content survives; a reset gives everything back |
| Control file (`_ss_control`, `set_ctrl`) | file content and mtime, the engine's cached copy | truncate, write, sleep; stat, load, assign | two processes, torn reads, equal mtimes | the engine has what was written last |
| `bench_occupancy_pinned.py` (with `send_one`, `one_request`) | the point it is at, the tasks in flight, rows, probe TTFTs | off, reset, arm, send, disarm, load, gather, probe, next point | failures and timeouts race with the engine; a point inherits what the last one left, a request that was given up and still runs included; pins may leave no room for the load | pins are the suspended contexts, a pinned probe misses only if a touch has unpinned one of its blocks, each task leaves one row, it ends |
| Placement policies (`policy.py`) | none; `cost_of` is a loop over switch times | `opt`, `ftp`, `online_det`, and the randomised policies | boundary comparisons, monotonicity, predictions that are wrong | never below the optimum, `opt` attains it, bounded loss of the others |
| Policy variants (`shift_eval.py`, `const_alpha_eval.py`) | none | TTLs, a shadow price for DRAM | boundary values of `tau` and of the load | the same answers where they claim to mirror one another |
| Replay admission (`replay.py: run_generic`) | two heaps of departure times | tick, free, hold, one arrival | slots are held in advance; simultaneous events | no tier is overfull at any time, no demotion while there is room, prices are the costs the policies decide by |
| MORI baseline (`replay.py: run_mori`) | the deque of contexts in HBM, the DRAM heap | resume, evict, drain | contexts resume in another order than they arrived | capacity, oldest first, eviction only under pressure |
| `bench_occupancy_real.py` | suspended contexts, keepalive cursor, tasks | reset, suspend, load, keepalive, gather, next point | points share a server; the keepalive outlives the load | a point starts from an empty cache; the loop sees the event that ends it |
| `bench_q.py`, `bench_m4q.slurm` | prompt pools, tasks, rows, a server that outlives the process | load, inject, gather | three coroutines append to the same lists; pools depend on the hash seed | an injection is a prompt the process has not sent (that the server has not seen it is refuted); one row for each request |
| `loadgen.py` | tasks and results | open-loop load | failures on three paths | one row for each request |
| `suspend_resume.py`, `bench_prefill.py` | rows; a server with or without a second tier | reset, warm, resume, cold; warm, suffix, full | `reset_prefix_cache` drops one of two copies, or is refused | each time is the time of what its name says |
| Jobs (`*.slurm`) | the server that is up, the processes left, whether the server has been killed | start, run, kill, wait | a server that never gets healthy or is slow to exit, a process that raises | every job ends if the killed servers exit |
| `bench_transfer.py` (`bench_m2`) | per thread a file, an offset | write, read, join | `O_DIRECT` alignment; threads that die silently | the time of a phase is that of all its bytes |
| `build_gate_prompts.py` | gates met, prompts written | find the gate, split parallel calls, write | results in another order than the calls; duplicates | a prompt can be rendered and stops before the approval |
| `cost_model.py` | none | closed formulas over measured constants | — | not modelled |
| micro-benchmarks, dataset statistics, node diagnostics | none | timing loops, sums over files, printing | — | not modelled |

How they meet: the harness talks to the server over HTTP (a request per `send_one` or
`one_request`, `POST /reset_prefix_cache`) and to the pool through the control file. The engine
core has one scheduler thread, so that a call into the pool is atomic; what interleaves is the order
of these calls, the file system calls of two processes, the coroutines of the harness, and the
client's timeouts against the engine's answers. A slurm job starts servers one after the other and
runs several processes on each, so that a process inherits the cache, and what an earlier one left
running. The replay and the policies are sequential; their hazards are boundaries, order and stale
bookkeeping. `PROJECT.json` lists every hazard at its line.

## Modules

An arrow reads "is extended by", a double arrow "is implemented by".

```
PinPool ==> BlockPool --> PinnedBench        PinPool --> PinPoolProofs
BlockPool, PinPoolProofs --> BlockPoolProofs
PinnedBench, BlockPoolProofs --> PinnedBenchProofs
PinControl --> PinControlProofs
TierSystem --> Trajectory ==> Prudent        TierSystem --> TierSystemProofs
Prudent, TierSystemProofs --> TrajectoryProofs
TierPool, TierSystem --> Replay              TierPool --> Mori
Replay, Mori --> Evaluation
Evaluation, TierSystemProofs --> EvaluationProofs
Server --> Scripts, OpenLoop
Scripts, OpenLoop, Transfer, GatePrompts --> Jobs
Jobs --> JobsProofs
```

`MC*` modules give the constants values. The modules with proofs declare no recursive operator and
extend none that does. BlockPoolProofs takes what is proved of PinPool through an instance
(`Facts == INSTANCE PinPoolProofs WITH ...`), with the refinement mapping for its variables.

- **PinPool** is the pool as sets: who owns each block, and no more. Its actions are the calls of
  the patch: `Allocate` (touch, `get_new_blocks` and `cache_full_blocks`, the allocation of one
  request), `Finish` and `Preempt` (both are `SingleTypeKVCacheManager.free`, with `ss_pin_request`
  or `free_blocks`), `ResetPrefixCache` (with `ss_unpin_all` before the test that may refuse it) and
  `SetControl`. The allocator may take any queued block, so that what holds here holds under every
  eviction order. It is the abstract specification of the component.
- **BlockPool** adds what PinPool leaves open: the queue as a sequence, which prefix each block
  caches, the lookup of the longest cached prefix, the dict of pins in insertion order, and the walk
  of `ss_unpin_all` as a fold. The blocks it keeps of a list are picked by `Among`, a fold, too: the
  provers know nothing of `SelectSeq`. `ImplementsPinPool` is the refinement.
- **PinControl** runs `set_ctrl` against `_ss_control` one file system call at a time. A truncated
  file does not parse; two writes in one clock tick have one mtime. The `sleep(0.2)` is modelled by
  what it achieves: the clock has ticked before the next write.
- **PinnedBench** composes `main` and `run_point` of the measurement with BlockPool. A request is in
  one of the client states new, open, answered, failed; the engine admits, grows, preempts and
  finishes open requests at its own pace, and those that the client has given up (`lingering`) until
  it lets go of them. An await is a stage with its own actions, so that all that can happen in
  between does.
- **TierSystem** holds the tier systems and the policies without chance (`opt`, `ftp`,
  `online_det`). **Trajectory** is `cost_of` as a loop over the switch times of these and, as `any`,
  over all nondecreasing ones. **Prudent** computes the switch times of the randomised policies as
  `_prudent_switches` does, one bisection per state on the expected buy mass, for any distribution
  of each step. The horizon is 2 doubled at each turn, so that every midpoint is a whole time. That its
  schedules are schedules of Trajectory is a refinement (`ImplementsTrajectory`).
- **TierPool** holds the `Pool` of the replay, the reading of a row as a timeline and `price`.
  **Replay** is one turn of `run_generic` as an operator on a record of two heaps, the rows and the
  demotions that were forced; **Mori** is `run_mori` with its `resolve` and its last loop, an action
  for each arrival. **Evaluation** takes every policy of the three evaluation programs and the
  baseline through the same trace: the programs replay it once per policy, and the replays share
  nothing but the trace, so that one step moves all of them by one arrival.
- **Server** is what the scripts can see of the inference server: which part of a prompt (system
  message, conversation up to the gate, approval turn) is on the GPU and which in the second tier,
  the requests it works on, and a reset that is refused without saying so. **Scripts** runs the
  steps of `bench_prefill.py` and `suspend_resume.py` one by one; **OpenLoop** interleaves the
  coroutines of `loadgen.py`, `bench_q.py` and `bench_occupancy_real.py`.
- **Transfer** is `bench_m2` with its threads, **GatePrompts** the prompt builder. Neither needs a
  server.
- **Jobs** composes the last five: a job is a list of parts, each a server (or none) with the
  processes that run on it in turn, whatever became of the one before. A server ends in two steps,
  the signal of the shell (`Kill`) and its own exit (`ServerExits`), for which the shell waits.

Some operators are introduced as a *variant*. They are mistakes one could plausibly make in the
definition below them, kept so that every property can be seen to notice one; no specification uses
them. `PROJECT.json` ("mutants") says which property notices which.

### Abstractions to know about

- Blocks: the null block, the event log and `ss_residency` are left out; one KV cache group.
  `Preemptible` names the requests that may be freed and come back under their identifier.
  `repinned` is a history variable: a request whose dict entry was overwritten. vLLM's own calls are
  modelled from how the patch and the harness use them, and are marked external in the map.
- A block of BlockPool caches a prefix rather than a hash of it. The last token of a prompt is
  always computed again, hence `HitLimit` for prompts that fill their last block (`Exact`).
- PinnedBench lets a control take effect at once: `run_point` writes it when no request is in the
  engine, and PinControl shows that the next `free()` then reads it.
- A request of PinnedBench that the client gives up, after an error or its timeout, is dropped by the
  engine at once, or lingers there: it is admitted, grows and is preempted beside what the harness
  sends next, and goes when the server notices or is done with it (`EngineLetsGo`). It may meet the
  reset of the next point, which is then refused with status 200, or be pinned in place of a context.
  `disturbed` says that there is such a request, or has been since the last reset; what the properties
  say of a point is said of one that is not disturbed, the clients whose requests are gone at once
  included. At most `MaxLingering` of them are in the engine at a time. The requests of a point have
  the names of those of the point before, so that a name that is used again finds the older request
  gone; that is the one limit on how long it stays.
- A probe without text leaves no entry, as `ttft` stays `None`. Prefix hits stand for TTFTs under
  `--hit-thresh`. Means, percentiles and the warm-up cut are left out, so that of the answered
  requests of a load any may have come too early to count (`RowFails`).
- Times, rates and prices are naturals, and in TierSystem the units are such that break-even times
  are whole. Arrivals, waits, predictions and draws are choices over small sets. In Evaluation
  `online_rand` stands for whatever chance leads to: any nondecreasing list of switch times, of which
  Prudent shows that the bisections return one.
- Server keeps parts in place of blocks. Eviction takes a part behind the parts in front of it, and
  only while a load runs: an idle server evicts nothing, and a script never has two requests open. A
  client that gives up either has its request dropped at once or leaves it on the server, running or
  still to be scheduled; `abandoned` remembers that this has happened, because a reset that meets such
  a request is refused with status 200 (`suspend_resume.py` and the others do not look at more).
- What a process prints can end it: the line of `bench_prefill` and `suspend_resume` formats two
  times of which one may be unknown, the lines of `bench_occupancy_real` and
  `bench_occupancy_pinned` a median that is not known when no request of the load came back
  (`RowFails` in PinnedBench). So can a reset that is not answered with status 200 (`ResetFails`),
  and a load that has no prompts to draw from (`LoadRaises` in OpenLoop). These are actions of the
  model.
- Transfer counts bytes. The four conversations that GatePrompts is run on contain calls in parallel,
  results in either order, a gate beside other calls and no gate at all; contents, the system
  message and token counts are left out.

### Assumptions about the constants

- `PoolAssumption`, `PromptAssumption` (PinPool, BlockPool): finitely many blocks and requests, a
  prompt of at least one block.
- `BenchAssumption` (PinnedBench): each send, probe and background request is a call of its own, the
  probe of a context has its prompt, and the control may name as many contexts as there are. Any
  request may leave the engine and come back under its name (`Preemptible = Requests`), since one that
  was given up does; there is a background prompt, without which the load raises before any result.
  Nothing is assumed of how the prompts overlap.
- `ControlAssumption` (PinControl): "off" is a value one can write, a missing and a torn file are none.
- `ScriptAssumption`, `JobAssumption` (Scripts, Jobs): the tiers are those that the slurm files
  start, the arms those that the command lines name, and a file has finitely many prompts, without
  which the order in which they are injected would mean nothing.
- `TransferAssumption` (Transfer): a thread at least, and chunks that are a multiple of `ALIGN`.
- `ConversationAssumption` (GatePrompts): in a recorded conversation the results of a message's calls
  come next to the message, in any order, unless the conversation ends with it. That is the shape
  which the docstring of `split_parallel_tool_calls` rewrites, and the function looks no further than
  the next message that is no result.
- `TrajectoryAssumption` (Trajectory): rates fall and prices rise along the states.
  `PrudentAssumption` (Prudent): distributions never decrease, and the horizon is within the bound
  on switch times.
- `TierPoolAssumption`, `MoriAssumption`, `EvaluationAssumption`: capacities, prices and times are
  naturals, HBM has a slot, and a draw has at most two switches, in order.

TLC evaluates them all.

## What the runs check

All bounds are constants of the modules, named where they are declared.

| Run | Question | Bounds, and why they are enough |
| --- | --- | --- |
| `PinPool` | Who owns the blocks, under every order of calls? | 3 blocks, 3 requests, n up to 2, one preemptible request: two requests share a block while a third allocates, an entry is overwritten, a reset is refused. Symmetric in blocks and in the requests that are not preempted. 100 120 states. |
| `BlockPool` | Do the sequences do what the sets promise, and what stays cached? | 4 blocks, two prompts with a common first block, a third that loads the pool, one decoded block: enough for a pinned block listed by two entries and for a pool that is full. 22 836 states. |
| `BlockPoolLeak` | Does a reset at rest restore the pool, with preemption? | No: finding 1. |
| `PinControl` | Does the engine have the last control? | 3 values, 4 ticks: two writes in a row, each overlapping a call in every way. |
| `PinnedBench` | Does a point measure what it says, and end? | Three points (pinned 2, stock 0, pinned 1), two contexts of which the second continues the first, a background request with a prompt of its own and one that starts like the contexts, 3 blocks, at most one lingering request (`MaxLingering`): with both contexts pinned the load has one block, so that its first request evicts and a request that grows is preempted or never admitted; the other load touches a pin. A point follows one that left pins behind, or a request that meets its reset; the third is again undisturbed. 604 104 states. |
| `Evaluation` | Do the admission layer and the baseline keep to the capacity, whatever the policy, and charge what the policies decide by? | 2 HBM slots, 1 DRAM slot, 4 arrivals, gaps 0 and 1, waits 0, 3 and 5: departures meet arrivals, every tier is full at some arrival, MORI evicts from behind a context that has resumed. Twelve policies; two predictions, three draws. 68 406 states. |
| `MoriDeparted` | Is a waiting context evicted only under pressure? | No: finding 2. |
| `Trajectory` | Do the policies keep their guarantees, and does `_prudent_switches` return schedules? | Every system of one or two transitions with rates up to 3 and prices up to 4 and whole break-even times, waits and predictions up to 8; the bisection over 2 turns and step distributions with steps at four times or never, for four systems of the evaluation. 1 223 128 states. |
| `TrajectoryOffEnvelope` | Is `online_det` 4-competitive for every valid system? | No: finding 3. |
| `Jobs` | What are the recorded times times of, can the prompts be rendered, and does every job end? | Every server and arm of the slurm files, two prompts (three for a second contention process), 2 repeats, up to 3 requests of load and injector (`MaxTasks`), one or two of them load, occupancy points 1, 0, 1 and 2, 0; two threads with 14 bytes, so that a share of 7 is rounded to 6 and written as a chunk of 4 and a tail of 2; 3 simulations of four conversations. 403 228 states. |
| `JobsColdBaseline` | Is the cold baseline of `suspend_resume` a full prefill on every server? | No: finding 4. |
| `JobsInjections` | Is an injection of `bench_q` a prompt the server has not seen? | No: finding 5. |

The properties worth a second look:

- `RefCntCountsHolders`, `OneOwner`, `NoBlockLost`, `PinnedHasContent` (PinPool): `ref_cnt` is
  decremented by hand on the pin path and by vLLM on the other, and every block must remain owned
  exactly once on both. `VictimExclusion` says of *steps* that only a reset of a wholly free pool
  takes the content of a pinned block, `UnpinGoesSomewhere` that an unpinned block is queued or in
  use, `ResetRestoresPool` that a reset at rest gives all of it back.
- `QueuedOnce`, `FreeCountExact`, `PrivateSuffixStays` (BlockPool): a block listed by two entries is
  queued once; the number the admission test relies on is right; the part of a sleeping prompt that
  no other prompt starts with stays cached whatever the load. The shared part does not: see the
  remarks behind the findings.
- `FreshWhenCalm`, `MtimeVouches` (PinControl).
- `PinsAreTheSuspended`, `MissesExplained`, `OneRowPerTask`, `StartsCold`, `BenchEnds` (PinnedBench)
  relate what the engine holds to what the measurement believes: the entries are the suspended
  contexts in order and the stock arm has none; a probe of the pinned arm misses only if the load, or
  an earlier probe, has touched a block of its context; a task leaves one row on each of its paths; a
  point inherits nothing; the whole ends. The first, the second and `StartsCold` are about points
  that no given-up request has met (`Undisturbed`): such a request makes the reset be refused, and
  the code takes no notice (`bench_occupancy_pinned.py:51-53`). A point that is spoiled in this way
  spoils none behind the next reset that finds the engine empty.
- `MissesExplained` names two ways to a miss. A load that starts like the context touches its first
  block (`TouchedByLoad`), which TLC exercises. Or an earlier probe has unpinned blocks that it shares
  with a later context, and a probe of another kind came in between and allocated over them
  (`Interrupted`): with the two contexts of the run that is never so, and excuses no miss; what more
  contexts add rests on the theorem alone.
- `WithinCapacity` (Evaluation) speaks of every time, past and future, of the trajectories as handed
  out, while the code only counts departures in a heap. `ForcedOnlyWhenFull` is its converse: the
  heap is not fuller than the tier. `NobodyBeatsTheOracle` relates the prices of the replay
  (`replay.py`) to the costs of the policies (`policy.py`), two pieces of code that never meet
  elsewhere.
- `NeverBelowOptimum`, `OptAttains`, `FtpWithinError`, `DetTwiceOnEnvelope` (Trajectory);
  `SwitchAtTarget`, `DegenerateNotEntered`, `ImplementsTrajectory` (Prudent): a switch found by
  bisection may follow one that was bought at once, each searched on its own.
- `TrialsAsLabelled`, `PointsStartFresh` and `ColdWithinProcess` (Jobs) say what the caches held when a
  request was scheduled, against the name its time has in the result files. The first two carry a
  condition that the code does not check: that no client of this server has given up a request. "Not
  cached" means on the GPU; nothing at all is cached only where there is no second tier, and the cpu
  and nvme arms of `suspend_resume.py` find the conversation in the second tier only on a server that
  has one. What an injection finds beyond the system message, an earlier process on the server has
  sent; that there is such an earlier process is finding 5.
- `TransfersWhole` and `PromptsWellFormed` (Jobs) are about results as well: the bytes behind a time,
  and the pairing of calls with results in a prompt.

Deadlock is checked in PinPool and BlockPool, which never stop. The harness, the jobs, the replays
and the loop of `cost_of` end, and PinControl stops at its clock bound, so that their configurations
turn the test off.

### Fairness

PinnedBench and Jobs have a liveness property each. In PinnedBench fairness covers the coroutine of
`run_point`, its tasks, and the timeouts: the event loop runs what is ready, and `timeout=600` is on
every request of `send_one` and `one_request`. Nothing is assumed of the engine, which may well
refuse a background request for ever when the pins leave too few blocks; `BenchEnds` therefore rests
on the timeout, and fails without it.

In Jobs each coroutine (the load, the injector, the keepalive, every task), each script, the threads
of `bench_m2` and the builder are weakly fair on their own, as is the shell that starts one process
after the other, and the clock that ends the duration of a load. Of the server one thing is assumed,
in a condition of its own (`WF(ServerExits)`): once it is killed it exits, some time. The code does not
guarantee that: `kill` sends SIGTERM, and the `wait $SERVER_PID` behind it has no bound
(`smoke_all_tiers.slurm:64`, `bench_m4q.slurm:53`), so that a server that hangs in its shutdown holds
the job until slurm ends it. Otherwise nothing is assumed of the server, which may never become
healthy, never schedule anything and never notice that a client is gone.

## Findings

1. **A block list that is overwritten** (`BlockPoolLeak`). A request pinned at its preemption and
   again when it finishes overwrites its entry; the reset forgets the blocks only the first list
   named, and the queue stays short until restart. All that is proved of `NoBlockLost` and
   `ResetRestoresPool` is therefore conditional on `repinned = {}`. The measurement itself does not
   meet this, unless a request that it gave up is still in the engine: its sends are alone there.
2. **A departed context counts** (`MoriDeparted`). Contexts that resumed behind an older one that
   still waits stay in the deque, and a waiting context is evicted although HBM has room: the MORI
   baseline is a little worse than the one its comments describe.
3. **A state above the envelope** (`TrajectoryOffEnvelope`). `max(t, b / a)` delays a switch past a
   state that is never best; the 4-competitive bound of the docstring needs the lower envelope, which
   `policy.py:23` does not ask for. The run's system costs 110 where the optimum is 20. On the
   envelope the factor is 2 (`DetTwiceOnEnvelope`).
4. **A baseline that is warm** (`JobsColdBaseline`). The reset before the cold request of
   `suspend_resume.py` drops the GPU cache only, while `suspend_resume.py:18-19` says "reset
   everything" and `:21` expects "discard ~= cold". On a server with a DRAM or NVMe tier the cold
   request is served from the copy there: the recorded smoke runs have 0.05 to 0.07 s for it on the
   cpu server against 0.34 to 0.38 s on the hbm server.
5. **An injection that is warm** (`JobsInjections`). `bench_q.py:5-7` and `:11-13` call an injection a
   prompt that the server has never seen. The pools are split by `hash(str(task_id))`, which differs
   from process to process, and `bench_m4q.slurm:57-62` runs three rates on one server without a
   reset between them: a later process injects what an earlier one has sent. The recorded run at rate
   2.0 (`results/bench_q_rate2.0_2031974.jsonl:53`, `:267`) has two injections of 9100 and 9130 tokens
   at 0.061 s, both of prompts that the run at rate 1.0 had sent. Within a process it does not happen
   (`ColdWithinProcess`).

Not findings, but worth knowing:

- `touch()` unpins a block whichever request touches it, and the pools of the pinned measurement are
  disjoint by task, not by prefix (`bench_occupancy_pinned.py:126-127`). A background request that
  shares the system prompt of a pinned context takes its first block out of the pins; when it is done
  the block is ordinary, and its eviction makes the sleeper's whole prefix miss. The docstring expects
  "~100 %" (`:14`), an approximation that no run can refute; the recorded
  `results/bench_occupancy_pinned_2065412.json` has pinned points at 97 %, 98 % and 93 %, which this
  would explain. `MissesExplained` says what else there is: a probe of another context in between,
  or a request that was given up.
- `run_generic` holds a DRAM slot from the arrival although the context enters DRAM later
  (`replay.py:122-132`). It keeps `WithinCapacity` true without looking ahead, at the price of
  discarding contexts while DRAM still has room; `replay.py:20-22` allows both readings, so that
  `ForcedOnlyWhenFull` speaks of the HBM of the policies, and of DRAM only for `always_cpu`, whose
  contexts enter it on arrival, and for the baseline, whose contexts enter it as they are evicted.
- `shift_eval.py:8-9` calls a TTL of zero "always-discard"; `make_ttl` answers with one switch time,
  0, where DRAM is offered, which is the list of `always_cpu`.
- `opt` is the optimum of each request on its own, within what it was offered: under a capacity it is
  no bound for a whole trace.
- On a server with a second tier the later repeats of a trial find the whole resume prompt there, the
  approval turn included.
- The builder marks a gate as met before it renders the conversation: a template that rejects one
  also skips the next with the same gate. Its statistics raise for a domain with a single prompt.
- A thread of `bench_transfer.py` that dies, or a write that falls short, is not seen: the time is
  recorded for all the bytes. `TransfersWhole` is conditional on neither happening.

## What is proved

TLAPS checks these for every value of the constants that the named assumptions allow (finite sets of
blocks and requests; capacities, prices and times that are naturals; nothing about their size).

- **PinPoolProofs**: type correctness, `RefCntCountsHolders`, `OneOwner`, `PinnedHasContent`,
  `NoBlockLost`, `PinsBounded`, `VictimExclusion`, `UnpinGoesSomewhere`, `ResetRestoresPool`. The
  first four form the inductive invariant `Owned`: that a block without users has no holder needs
  the counts, and the counts need that queued and pinned blocks are unused. `Tracked` adds that every
  pinned block is listed by some entry, without which the reset could lose it; that conjunct is the
  one an overwritten entry breaks, hence the condition. The counts are cardinalities, which the
  lemmas on holders relate by adding or removing one request.
- **PinControlProofs**: `FreshWhenCalm` and `MtimeVouches`. `FileInv` says that an idle harness has
  left the mtime strictly in the past, `EngineInv` that the engine never holds the present mtime
  without the present content and never that of a torn file, `CalmInv` that a call that overlaps no
  write is about to return the file as it is.
- **TrajectoryProofs**: type correctness, `NeverBelowOptimum`, `OptAttains`, `FtpWithinError`,
  `DetTwiceOnEnvelope`, and the three properties of Prudent, for systems of any length.
  Rates only fall, so that the rent paid so far is at least what the present state would have cost
  from the start (`PaidInv`); at the wake-up that is a line of the envelope.
  `AtOnceInv` says that `opt` and `ftp` pay a single line, and the error of a prediction then costs
  at most the difference of two lines. On the envelope the schedule of `online_det` is the list of
  break-even times itself (`EnvelopeInOrder`), and a switch at the break-even time costs no more
  than the next line does by then: what was paid never exceeds the line of the present state
  (`DetInv`). When the wait ends that state is the cheapest of all (`PresentIsBest`), and the one
  further payment, of its price at the wake-up, is what makes the factor 2.
  Of Prudent, `ImplementsTrajectory`, `SwitchAtTarget` and `DegenerateNotEntered` are proved for any
  distributions, draws and number of turns, and the first carries all of the above over to its
  specification. Its loops over states and over turns are tables built one entry at a time
  (`LoopTable`). A target lies between the prices of the neighbouring states
  (`TargetsInOrder`), so that the targets are in order and the states bought at once come first. Two
  searches agree turn by turn until one goes to the later half, and that is the one for the greater
  mass (`LaterBracket`); the last bracket is 2 wide and holds the target (`BracketFinds`). Up to a
  state no more than its price is ever bought (`MassBounded`), and nothing by the steps that save
  nothing (`MassStays`).
- **EvaluationProofs**: `WithinCapacity`, `ImmediateNeverForced`, `EvictsOldestFirst`,
  `ForcedOnlyWhenFull`, `NobodyBeatsTheOracle`, for any capacity, prices,
  traces, predictions and draws. For the first, a heap covers everyone who is in
  the tier from its last tick on (`Holds`), so that its size bounds the occupancy then and later
  (`HeapBoundsOccupancy`); before the tick the occupancy is what it was, because a new row starts
  no earlier (`FitsForward`). Both together are `Fits`, which `PoliciesInv` states of every replay
  and `MoriInv` of the baseline, whose deque is read as a heap of the ends of the waits
  (`QueueHeap`): that is why a context that departed behind an older one does no harm to the
  capacity. That a row takes at most one slot of a tier needs that a policy answers with at most n
  natural switch times (`SwitchesTyped`), for `online_det` that its schedule exists (`DetOnOffers`).
  `NeverFullInv`: an immediate policy leaves the HBM heap empty. `OldestInv`: the deque holds the
  waits in order of arrival, and whoever arrived before an evicted context had left HBM by then, or
  was never in it. `ForcedOnlyWhenFull` is the converse of the first: every slot of a heap is a
  context that is in the tier (`Backed`), so that a full heap is a full tier: of HBM for the
  policies (`FullInv`), of DRAM where it is entered on arrival and for the baseline (`DramInv`). It
  says nothing of the HBM of the baseline, of which finding 2 shows the contrary.
  `NobodyBeatsTheOracle` (`PaidInv`): what a row is charged is the rent of its first tier, or that
  and the wake-up price of the tier it reached, as `SumOfThree` reads off the fold over its
  segments. A row admitted with m switches has paid at least the line of the state it ended in; a
  row of the baseline stays in HBM, or leaves it for one other tier, and pays a line with the rent
  of HBM up to then.
- **BlockPoolProofs**: `ImplementsPinPool`, `QueuedOnce`, `FreeCountExact`, `PrivateSuffixStays`, for
  any blocks, requests and prompts. `Sound` is the invariant of the sequences: the queue and the lists
  of the dict have no repetition, and they list what the sets of PinPool contain. With what PinPool
  proves of those sets it is inductive, and each call maps to the call of the same name; the walk of
  `ss_unpin_all` appends to the queue, in the order of the dict, each pinned block once, whichever
  entries list it. `HeldContent` says that the blocks of a request cache the prefixes of its prompt,
  `AsleepPinned` that the part of a sleeping prompt that no other prompt starts with is still pinned,
  from which `PrivateSuffixStays` follows. What a fold returns is read off the table of its values,
  built one element at a time (`FoldTable`), and what holds at every place of the table is shown with
  a least counterexample (`UpTo`): that is as much induction as is needed, and the library's theorem
  on well-founded relations gives it.
- **PinnedBenchProofs**: `StartsCold`, `PinsAreTheSuspended`, `OneRowPerTask`, `MissesExplained`, for any
  list of points, any number of contexts and background requests, any prompts, and any number of
  requests that linger in the engine. The invariant has two parts. `Firm` holds whatever lingers: who
  may be in the engine, which calls are still to come (`Ahead`), which control is in force
  (`CtrlSound`), one row for each request that is over. `Calm` holds of a point that is undisturbed:
  which entries the dict has, in order (`KeysSound`), and that nothing is cached when it starts
  (`ColdSound`), for which the reset must find the pool at rest. A send is alone in the engine then,
  so that it has a block of its own to pin (`AloneKeeps`). `ContextsSound` follows the blocks of the
  contexts: as long as no background request starts like a context, its blocks are out of the queue
  (`ContextKept`); a probe unpins those it shares with a later context and leaves them to the queue
  (`Passed`), where the next probe finds them if it starts so, too, before it allocates anything.
- **JobsProofs**: `OneRowPerTask` of Jobs, `ColdWithinProcess`, `PointsStartFresh`, `TrialsAsLabelled`,
  `TransfersWhole`, `PromptsWellFormed`, for any batch of jobs and any number of requests, repeats,
  prompts, threads and bytes.
  - A task has no row, or one and no request under its name (`TasksInv`); names are given once
    (`AskedOnce`), and since scripts use a number, too, no process may leave a request under one
    (`NamesInv`). `PhaseInv` says when tasks can still be started: `main()` of bench_q awaits the
    injector before it gathers.
  - What a request finds is decided when the server schedules it, so that the prompt of an injection
    must stay out of the caches from its posting on. `Cold` says that no other request asks for it,
    and that its own, given up and served all the same, can enter the caches only after its row was
    written; `FreshInv` that the prompts still to be injected are no one's; `AloneInv` that no
    keepalive runs beside an injector.
  - `PointInv` says where `main()` and the keepalive of the occupancy benchmark are, and that every
    request on the server is one that somebody awaits, as long as nobody has given one up. At the
    reset of a point there is therefore none, the reset is not refused, and until the first answer
    nothing enters the caches.
  - A script is a concatenation of trials (`IsPlan`, closed under concatenation), and the stage of a
    trial can be read off the next step. `TrialInv` says what is cached at each stage (`Ready`), what
    the open request has found or left (`Served`), and what has been measured.
  - `WholeInv`: while no call of a thread fell short, the offset and what is left of the share are
    multiples of `ALIGN`, so that no call is refused, and a thread that ended has moved its share; the
    bytes of a phase are their sum (`SumOfEqual`).
  - `BuildInv` says of every prompt written that it ends in front of a gate no other prompt has, and
    that a message in it has one call, answered next. Behind each turn of the loop of
    `split_parallel_tool_calls` (`SplitInv`) what has been written is paired, and the results that it
    still waits for are the next messages of the conversation.

**TrajectoryProofs** and **EvaluationProofs** share the facts about tier systems in
**TierSystemProofs**. The existence of `opt_state` rests on `NatHasMin`, that a nonempty set of
naturals has a least element.

The type invariants of PinControl and Trajectory are proved, and no run spends time on them.

Only model-checked: `BenchEnds` and `JobEnds`, liveness under fairness, which is beyond the prover as
ENABLED is. Every invariant and every action property that a run checks, and both refinements, are
theorems as well. What TLC adds to these is that the hypotheses are met, that every action occurs, and
that each property fails when the code is changed (`PROJECT.json`, "mutants").

## Not modelled

- `cost_model.py`: closed formulas in floating point and a report of them. There is no state, and over
  integers a check would compare a formula with itself.
- The densities of the randomised policies (`rho_inverse`, the mixture of `rhomu`, the constant-alpha
  variants): real analysis. Evaluation and Prudent quantify over what they can lead to instead.
- The sampling of waits and arrivals, parameter sweeps, statistics, plots and reports of every
  program; `bench_m1`, which times one copy after the other.
- `microbench_transfer.py`, `measure_iota.py`, `approval_rate.py`, `measure_tau2_context.py`: timing
  loops over devices and tokenizers, and sums over files. The node diagnostics print.
- In the pool: the null block, the event log, `ss_residency`, further KV cache groups. In the jobs:
  ports, modules, GPUs. The scheduler of vLLM is external: a request that is preempted while pinning
  is on has its blocks pinned instead of freed (`blockpool_pin.diff:126`), and whether admission then
  stalls is a question about the scheduler.

## Plan

1. The densities of `rho_inverse` and `rhomu` over a grid of times, so that the distributions of
   Prudent are those of the code and not any.
2. The part of the vLLM scheduler that the patch meets: a request preempted while pinning is on.
3. The keepalive of the occupancy benchmark against the eviction order, and the rows that a failing
   tier loses (`PROJECT.json`, the hazards without a property).
