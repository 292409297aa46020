# Verification of the MegaMoE kernels and their surroundings

This directory holds TLA+ models of the concurrency and scheduling logic of this
repository (`hopper_megamoe_basedondeepgemm`), TLC configurations that check them on
small instances, and TLAPS proofs of the properties that matter for every instance.

At the centre is the fused mixture-of-experts kernel
(`impls/sm90_fp4_mega_moe_h20_fused_body.inl`, INL below, with
`scheduler/mega_moe_fused.cuh`, SCH, `comm/barrier_fused.cuh`, BAR, and
`layout/mega_moe_fused.cuh`, LAY, all under `src/deep_gemm/include/deep_gemm/`). It
runs one whole MoE layer in one persistent launch per GPU: it routes token rows to
the ranks that own their experts over NVLink, runs two grouped GEMMs (L1, L2) on
them and sends the results back to be summed. All of that is coordinated by words
in global memory that ranks, CTAs and warps poll and add to, that no host resets,
and that every launch must leave ready for the next. Around it stand the split and
the Blackwell MegaMoE kernels, the plain GEMM, einsum and attention kernels they
descend from, the router kernels in front of them and the JIT cache they are built
through. Tests exercise numeric results and speed; the orders of steps below are what
they hardly reach.

## 1. Inventory

### Parts of the fused kernel

| part | state it keeps | operations | how others meet it |
|---|---|---|---|
| grid sync (BAR:18-34) | one word per barrier index | add, spin on the tag bit | all CTAs of a GPU; called by the NVLink barrier, dispatch, cleanup |
| NVLink barrier (BAR:40-120) | counter word, two signal words, done count | prologue, signal, wait or time out, epilogue | all CTAs of all ranks, 2 or 3 calls per launch |
| push dispatch (INL:1100-1320) | per-expert counts, pool, CTA ticket, DONE count, epoch | take ticket, store row, arrive, signal DONE, publish | writes pools of other ranks; wakes the schedulers |
| pull dispatch (INL:1077-1100, 1179-1470) | send counts, source indices, receive counts, arrival counts | stake out, write index, broadcast, fetch, pull, count | reads memory of other ranks; wakes the loaders |
| dynamic scheduler (SCH:385-807) | L1/L2 task counters, mailbox, gate | fetch counts, claim, gate, publish, consume | the B loader produces for the A loader and the math warps of its CTA |
| stream-K mode (SCH:634-711, INL:3700-3772) | ranges, scratch slots, ticket counters | claim range, segment, store partial sums, ticket, sum | CTAs share tiles |
| static scheduler (SCH:114-345) | a running block index per warp role | next block | no shared state beyond the readiness mask |
| GEMM pipeline of a CTA (INL:1535-3260) | m-barriers, ring of stages, fragments, wgmma groups | load, land, decode, issue, release | loaders and math warps |
| K-split tails (INL:3800-3839) | flags | publish partial, finish | CTAs that share a task |
| fine-grained combine (INL:1867-1937, 1475-1515, 4357-4538) | mailbox ring, arrival counters, ticket words, epoch | post, signal, claim token, reduce | dispatch warp 0, epilogue warps, other ranks |
| cleanup (INL:968-1028) | all the words above | zero, bump | must wait for every reader of the launch |

### Parts around it

| part | state it keeps | operations | how others meet it |
|---|---|---|---|
| warp-specialised kernels (`impls/sm90_*`, `impls/sm100_*`) | per CTA: m-barriers, rings of stages in shared memory, accumulators in registers or tensor memory, groups in flight | TMA loads, MMA issue, commit, promotion, staging, TMA store | loaders, MMA issuers and epilogues of a CTA or of a cluster of two |
| block schedulers (`scheduler/gemm.cuh`, `scheduler/*mqa_logits.cuh`) | a block or task index | next block, swizzle, multicast validity, cut of paged work into ranges | each warp role walks the same sequence by itself |
| split MegaMoE kernels (`impls/sm90_mxfp4_mega_moe.cuh`) | as above, with packed weights and their coefficients; logits in the output tensor, send and receive counts, arrival counts, pool | quantise, route, count, announce, pull; decode by loaders or math warps, MMA, drain, epilogue; combine, clean up | L1 and L2 are two launches, of which the second waits for no row: the first has ended |
| Blackwell MegaMoE kernels (`impls/sm100_*_mega_moe.cuh`, `src/sm100_b200/`) | ring or pool of blocks with full and empty counts, N-block mask, epoch, DONE words, tensor-memory stages | pull, push, load, MMA for two CTAs, epilogues, combine, cleanup | a cluster of two CTAs, all warps of a rank, other ranks |
| router frontends (`src/csrc/*frontend*.cu`, `src/sm100_b200/fe_sm100/`) | tickets, partial logits, keys | publish, take a ticket, wait, select, reset | CTAs of different roles, then the MegaMoE launch |
| JIT cache (`src/csrc/jit/`) | kernels loaded by a process, directories on disk | look up, write, compile, sync, rename, load, remove | processes of one or several nodes |

A launch goes: dispatch -> (barrier 1 or DONE flags) -> counts -> tasks, L1 before
the L2 tasks that read them -> (barrier 2, or per-token counters) -> combine, while
the dispatch warps clean up -> barrier 3 -> the next launch on the stream. NVLink
calls per launch: #1 is absent with `kPushDoneFlags`, #2 exists only without
`kFineCombine`, #3 always has a prologue and no epilogue.

### Hard behaviours and the properties that answer them

* Barriers without reset: early return, words that drift, two phases and a sign
  that serve all barriers (`NoEarlyReturn`, `WordReusable`,
  `ImplementsBarrier`, `RanksEnd`).
* Dependent tasks claimed by CTAs that then wait for each other: deadlock by order
  of claims, gates, flags (`NoL1BehindItsReader`,
  `MaskMeansComplete`, `LaunchEnds`).
* Arithmetic of indices, tails, splits and ranges: a task lost or run twice
  (`EveryTaskOnce`, `InTurn`, `TilesOnce`, `SegmentsAgree`, `ResultsRight`).
* Rows behind counts, from other ranks and other launches (`PoolMatchesCounts`,
  `BlocksHold`, `AllLoaded`, `SourceRight`).
* State left for the next launch (`CleanAtStart`, `FlagsReset`,
  `ReducedComplete`, `TokensOnce`, `EpochReadBeforeBump`).
* Reuse under asynchronous readers, parity bits one phase off, laps of a ring
  (`OperandsHold`, `ReadsRight`, `SlotsHold`, `SlotsApart`, `PayloadRead`), stages that
  are not given back (`KernelsEnd`), a peer that has left its cluster (`PeersAlive`).
* Processes that race for, die in or lose power over one cache directory
  (`CacheComplete`, `Immutable`, `NoFalseAlarm`, `CallsReturn`).

`PROJECT.json` lists each hazard at its line, and each component with what of it is
modelled. Section 8 says what is not, and why.

## 2. Modules

Where a configuration needs definitions, an `MC...` module extends the specification with
them; `GridSync`, `InterleavedScheduler`, `StreamK` and `StaticScheduler` are run as they are. Definitions whose comment begins with "Fault:" are mutated
forms of the definition that follows: what a plausible bug there would look like.
They are not used by any specification; with one in place of the original, TLC
finds the property it is listed with in `PROJECT.json` violated.

| module | models | correspondence |
|---|---|---|
| `AbstractBarrier` | what a reusable barrier promises | abstract; refined by the next two |
| `GridSync` | `grid_sync` | `Arrive` is the atomic add of CTA 0 (tag minus the others) or another CTA (1), `Leave` the spin on the tag bit; the word wraps at twice the tag |
| `NvlinkBarrier` | `nvlink_barrier` | one action per step of SM 0 and of the other CTAs; the calls of a launch are part of `setup` |
| `TaskCounts` | constants-level launch arithmetic of the dynamic scheduler: splits, bases, tails, warm-up waves, index to task | operators named after the code's variables |
| `InterleavedScheduler` | claims, L2 gate, mailbox, the three roles of a CTA, readiness mask, K-split flags | `ClaimL1`, `ClaimL2`, `PassGate` are the branches of `claim_next_task`; `LoadA`, `LoadB`, `Consume`, `PublishPartial`, `Finish` the roles |
| `StreamK` | the partition (unit ranges, owner of a unit, segment, scratch slot) and a launch in stream-K mode: mailbox, tickets, partial sums | `get_streamk_range`, `get_streamk_worker_of_unit`, `make_streamk_segment`; the producer's state machine `sk_state`, and the math warps' epilogue |
| `StaticScheduler` | `MegaMoEScheduler` | `NextBlock`, `Found`, `AdvanceExpert`, `TurnToL2`, `TurnToL1` are the branches of `get_next_block` with `fetch_next_l1_block` / `fetch_next_l2_block`; the sum of `get_pool_block_offset` is the cardinality of the blocks before an expert |
| `PushDispatch` | push dispatch, DONE flags or barrier 1, cleanup, next launch | row by row |
| `PullDispatch` | pull dispatch, both ends of a launch, cleanup, next launch; the round-robin source search of the pull loop as a recursive function | CTA by CTA; `SourceOf` is the loop, `PositionOf` the reference; `SourceRight` examines it on the counts in `Searches` |
| `FineCombine` | mailbox, signaller, tickets by parity, arrival counters, epoch | warp by warp |
| `KernelSteps`, `KernelMachine` | what warp-specialised kernels run on: actors with programs of steps, m-barriers with phases, TMA copies that land later, MMA and store groups that retire in order, counters | the PTX the kernels are written in (external), `CUDA` memory order |
| `GemmScheduler` | `Scheduler` of `scheduler/gemm.cuh`: all groupings, swizzle, multicast validity | operators named after its functions |
| `GemmRing`, `Sm90GemmRing` | what the plain GEMM kernels share | stages, phases, loader and math loops |
| `Sm90Bf16Gemm`, `Sm90Fp8Gemm1D1D`, `Sm90Fp8Gemm1D2D`, `Sm100Gemm` | the plain GEMM kernels | the program of each warp role |
| `SplitGemm` | einsum `bmk,bnk->mn` and the hyper-connection prenorm GEMM, both architectures | as above |
| `MqaScheduler`, `MqaLogits` | MQA logits, contiguous and paged, both architectures, and the paged metadata kernels | as above |
| `FusedTask` | the tasks of one CTA of the fused kernel: loaders, every K loop, both epilogues | one operator per loop and epilogue |
| `Sm90MegaMoe` | the split MXFP4 / int4 kernels, inside a block | decode by registers, math warps or loaders; seven loops |
| `SplitLaunch` | both launches of the split kernels around their blocks | one operator per phase of the dispatch warps; loader and math warps with one step per block |
| `MegaMoeCluster`, `Sm100MegaMoe`, `Sm100Bf16MegaMoe` | the Blackwell kernels: FP8xFP4 and BF16 | the warp roles of the two CTAs of a cluster |
| `B200MegaMoe`, `B200Fp4MegaMoe` | the B200 deliveries: FP8xFP4 and FP4xFP4 | pool, push or pull, static slots, DONE and DONE2 signals |
| `RouterFrontend` | router kernels | ticket, last-arriver and polling routers |
| `JitCache` | `Compiler::build`, `KernelRuntimeCache::get`, faults of processes and nodes | one action per file-system step |
| `NvlinkBarrierProofs` (with the proofs of `GridSync`), `InterleavedSchedulerProofs`, `StreamKProofs`, `StaticSchedulerProofs`, `PushDispatchProofs`, `PullDispatchProofs`, `FineCombineProofs`, `JitCacheProofs` | theorems | section 6 |

### How they compose, and what each takes for granted

* `NvlinkBarrier`, `PushDispatch`, `PullDispatch` and `FineCombine` use `grid_sync`
  at the level of its promise (a CTA leaves its n-th call once all have entered
  theirs), which `GridSync` is shown to keep: by TLC as a refinement of
  `AbstractBarrier`, and by proof for every number of CTAs.
* `PushDispatch`, `PullDispatch` and `FineCombine` use the NVLink barrier in the
  same way. With a prologue and without an epilogue (barrier 3) only CTA 0 waits
  for the other ranks; this weakness is kept in the models because it matters: the
  other CTAs may exit early, and only the end of the whole kernel orders them.
* `InterleavedScheduler` and `StreamK` start with the counts known and the rows in
  the pool, which `PushDispatch` (`PoolMatchesCounts`) and `PullDispatch`
  (`BlocksHold`) are about. `PushDispatch` has the tasks of a CTA as one state
  "work"; `PullDispatch` claims blocks one by one since each waits for its rows.
* `FusedTask` is the inside of a task; the order of tasks is given to it.
* A module of a kernel gives, for a problem, the programs of the kernel's warps;
  `KernelMachine` runs them, `MCKernels` chooses the problems, and the five properties
  of `KernelMachine` are stated once for all kernels. `KernelSteps` is the vocabulary.
  The comment of a program says what is one step.
* `Sm100MegaMoe` and the B200 modules are one launch of one rank on one cluster. Source
  search, source indices and NVLink barriers, which they share with the fused kernel,
  are in `PullDispatch` and `NvlinkBarrier`.
* `SplitLaunch` takes a block to be what `Sm90MegaMoe` shows it to be, with one K block, and
  shares the loop of the combine with `Sm100MegaMoe`. It is the one model in which a launch
  is followed from the unquantised activations to the combined output, on one rank.
* `FineCombine` draws the placement of tasks at the launch; that any placement can
  arise is what the claim counters of `InterleavedScheduler` allow.

### Abstractions

* Memory is sequentially consistent. The release/acquire pairs of the code justify
  this where a word publishes data (count behind rows, flag behind partial sums);
  each such pair is one step order in a model, so that a reversed order can be and
  is tried as a fault.
* Rows, partial sums and operands are identities, not numbers. GEMM work, a
  reduction and a row copy are single steps, except on `KernelMachine`.
* The eight math warps act as one where they meet at a CTA barrier in each task
  (`InterleavedScheduler`, `StreamK`), and separately where they do not
  (`FineCombine`, `FusedTask`). The dispatch warps of a CTA act as one in
  `PullDispatch`, except for the words each of them clears; the stake-out counts of different experts, separate atomics that
  commute, are one step.
* 32-bit words that wrap are kept modulo a small number that is a parameter
  (`DoneMod`, `SeqMod`, `FinishSumTag`); runs start near the wrap (`FirstEpoch`,
  `FirstSeq`), so it is crossed.
* In `StreamK` the loaders' stage ring is the parameter `Lookahead`: how many
  segments may be published and not yet taken.
* On `KernelMachine` a step is: wait for its m-barriers and counters, then, at any later
  moment, read, write, start copies, arrive and issue, all at once. A copy and a group
  read their sources until they land or retire, and their targets hold no tag meanwhile.
  A parity wait passes when the barrier's phase parity differs from the one given, so a
  role one phase off passes at once, as in the hardware.
* The warps of a warpgroup that a named barrier keeps in step around every use of shared
  memory are one actor (in the Blackwell kernels, all warps of an epilogue warpgroup).
  Where tiles are wide, few cells stand for them: as many as the code tells apart.
* A fragment of A that is a fresh variable in every iteration (`SplitGemm`) has no cell.
* A router's keys become visible one at a time after their stores; the warps of the last
  arriver select side by side, one token each, and its thread 0 clears the ticket after its
  own warp's token, whatever the others have done.
* Three pairs of accesses are one step because nobody else can touch the words between
  them: the last ticket of the CTA arrival and its reset (`PushDispatch`, `CtaArrive`: the
  next ticket is of the next launch), the poll of a token's arrival counter and its reset
  (`FineCombine`, `Reduce`: all signals of the launch are in), and the two stores of SM 0's
  cleanup (`FineCombine`, `Cleanup`: the ticket word that is cleared is used only by who
  has read the epoch stored after it).
* A file system in which a rename is atomic and seen at once; what a process wrote and did
  not sync is seen on its own node only, and lost with its power.

## 3. Runs

| run | instance | shows |
|---|---|---|
| `grid_sync` | 4 CTAs, tag 4 (its least value for 4 CTAs), 4 calls | no early return, word reusable, refinement of the abstract barrier with its liveness |
| `nvlink` | 2 ranks x 2 CTAs, done count modulo 7; four setups: 4 launches with the fast epilogue (12 barriers: phase and sign come round three times, the done count wraps); 2 launches whose first barrier has no prologue and a slow epilogue, after one earlier barrier; and, after 2 and 11 earlier barriers, 1 launch in which rank 0 may stop for ever and the timeout may fire, with a slow epilogue and with a fast one, whose CTAs are then trapped at the done word | what each kind of call promises, the refinement, and that every other rank still ends, normally or by the trap |
| `sched` | 2 CTAs, 1 M block, 3 L1 and 3 L2 tasks, both tails split in two along K, 2 pipeline stages | every task once, the gate, mailbox slot reuse, readiness mask, flags, ends |
| `streamk` | 3 SMs; L1 tiles of one unit, fewer than the workers (base 0 of the partition); L2 tiles of 4 units, cut inside tiles: two contributors each, one worker contributing to both; `Lookahead` 2 | slots, segments, every order of tickets, ends |
| `static` | 2 SMs, 4 experts in 2 waves, up to 3 tokens each (256 distributions), widths 3 and 2 | every block once, in turn, at its place in the pool |
| `push` | 2 ranks x 2 CTAs, 2 launches, built with DONE flags or with barrier 1; the epoch and the DONE count both wrap | pool equals counts, every word clean at the next start |
| `pull` | 2 CTAs; three setups: 1 rank, 2 experts, 3 rows, 2 launches of every mix of three routings; 2 ranks that pull from each other behind NVLink barrier 2, every CTA with a row; an expert with more blocks than a warp has lanes, whose counts both warps clear | counts in high words, partial blocks, both ends of a launch, cleanup, next launch |
| | in the initial states: up to 4 ranks, every combination of 0 to 4 rows (`AllSearches`, the value of the constant `Searches`) | the source search is a bijection, against the reference (`SourceRight`) |
| `combine` | 2 CTAs; two setups: 1 rank, 2 warps per CTA, 2 tokens, every CTA with a task; 2 ranks that signal each other, an idle CTA each; 2 launches | tickets, parity, counters, mailbox ring full and wrapping, barrier 3 |
| `jit` | 2 processes on 2 nodes build one kernel, one of them twice, the other with a dump; NVCC or NVRTC; `MaxCalls` 2, `MaxFaults` 2: two faults (kills, power losses) and any number of failing commands | only complete directories under final names, which stay; no false alarm; every call returns |
| `kernels` | 54 problems over all modules of `KernelMachine`, each of a few blocks per CTA and up to four K blocks, one or two CTAs; chosen so that a ring wraps, a second block meets the accumulator of the first, and clusters end with and without work for the peer | no operand overwritten in use, reads of the right block, no peer touched after its exit, every result once, every warp ends |
| `combine_idle`, `pull_idle` | one rank | the two disagreements of section 7 |

Modules whose kernel comes in several builds or workloads choose one at `Init` and
keep it: `setup`, from the constant set `Setups`, in `NvlinkBarrier`,
`PullDispatch` and `FineCombine`; `kernel` in `KernelMachine`; `nvrtc` in `JitCache`; `doneFlags` in `PushDispatch`; `tokens` in
`StaticScheduler`. One run then covers them all, and a property is checked in each.
Every property of a passing run has a fault that violates it in that run.

### Why the bounds are enough to be interesting

Two CTAs suffice for every race between an actor that finishes a round and one that
is behind; three or four where a third party must fall between (`grid_sync`,
`pull_idle`) or a worker must meet two others (`streamk`; a tile of three contributors takes
four SMs and longer tiles, beyond the time of a run, and is left to the theorems). Two launches are the least in which words of one meet the
next; the NVLink barrier has four because its phase repeats after four barriers, and
`MaxBarriers`, 12, is what four launches of at most three calls make. Each
tail or remainder is non-zero somewhere: 3 tasks over 2 CTAs, 8 units over 3 workers,
3 rows in blocks of 2, waves of empty experts. `sched` has one M block, so that its
gate is met by the tasks of the same block only; the order between blocks, and the
warm-up waves at any size, are what the theorem `DependencyOrder` is about. Other
arithmetic at large parameters is likewise left to the proofs of section 6.

On `KernelMachine` the programs are straight lines, so that a larger problem only repeats
the loops: a ring of two stages wraps at the third K block, a phase bit is back at its
first value after two laps (four blocks), and the problems reach both. Problems with two
warpgroups are small because their interleavings multiply; the ones that do not tell two
warpgroups apart have one. The SM100 problems with two epilogue warpgroups (131 000 states
alone) were checked while the module was written and are not in the run.

CHECK_DEADLOCK is FALSE only in `pull_idle`, whose subject is a hang. Elsewhere the end of all launches is the explicit action `Finished`.

## 4. Fairness

All liveness is under weak fairness of each actor: each warp role of each CTA, each
rank's host launches. On `KernelMachine` it is weak fairness of the whole next-state relation,
which suffices because every step moves a program forward and none is undone: `FairSpec`
states it without a second evaluation of `Next` (the machine moves again and again, or
again and again nothing can move). In `JitCache` a process that runs goes on, external
commands end, and whoever started a dead process starts it again; faults are not fair.
The kernel is launched with one CTA per SM and no more CTAs than SMs, so every CTA is
resident and the warp schedulers of an SM run each ready warp again and again. No
strong fairness is used: no step competes with another for being enabled for ever
(atomic adds always succeed). A rank in `setup.mayStall` of `NvlinkBarrier` is not
`Healthy` and has no fairness at all, to show what the timeout is worth; the 30 s timeout is an action
that may fire at any time during the wait, and nothing else has one.

## 5. Reading the main properties

* `NoEarlyReturn` (barriers) counts entries and returns; it is what every caller uses
  when it reads what others wrote before the barrier.
* `NoL1BehindItsReader`: an L1 task that sits in a mailbox behind an L2 task belongs
  to a later M block. Producers block in order, so this is what excludes a cycle
  between CTAs; `LaunchEnds` shows its effect.
* `MaskMeansComplete`: an N block in the readiness mask was finished, with all of its
  K splits.
* `SlotsHold`: whoever sums a stream-K tile finds in each contributor's slot that
  contributor's sums of this tile. `TilesOnce`: each tile gets one epilogue over all
  of its units.
* `PoolMatchesCounts`, `BlocksHold`: the pool holds, where a CTA will read, exactly
  the rows the routers of this launch sent, however the warps computed the places.
* `InTurn`: the k-th block an SM takes is block sm + k * NumSMs of the sequence "per
  wave all L1, then all L2 blocks", although the code never forms that index.
* `OperandsHold`: an MMA, a TMA store or a TMA copy in flight finds in its sources, until
  it retires or lands, what was there for it when it was issued.
* `ReadsRight`: what a warp may read now (scales, coefficients, sums, staged blocks, rows of
  other CTAs) is what its iteration is about, however late it reads.
* `PeersAlive`: nobody arrives at, copies into or commits to the shared memory of a CTA all
  of whose warps have exited.
* `ResultsRight`: at the end each result holds the tag of its own block with all of its K
  blocks, and the counters that must be zero for the next launch are zero.
* `CacheComplete`: what is visible under a final name is complete, durable, and made from
  the code the name was computed from. `NoFalseAlarm`: the assertions on a corrupted or a
  missing directory never fire.
* `TokensOnce`, `EpochReadBeforeBump`: each token is reduced once per launch; a warp
  uses the ticket word of its own launch.

## 6. Proofs

Checked by TLAPS from the named assumptions of the modules only. Each inductive invariant
was checked by TLC on the instance of its module's run before it was proved.

**`NvlinkBarrierProofs`, `GridSync`** (hypothesis `TagFits` of that instance, which
`GridSync` assumes: at least one CTA, the tag at least the number of CTAs).
`GridInvariant` proves the inductive invariant: at any time some round k is open, the
CTAs inside have arrived k + 1 times and the others k times, and the word equals the
tag of the round plus the sum of what those inside have added. `NoEarlyReturn` alone
is not inductive: it says nothing of the word a spinning CTA compares. The sum is
expressed by cardinalities, so that its bound below the tag follows from finite-set
lemmas. `GridTypeCorrect`, `GridSafety` and `GridReusable` follow, and `GridImplements`
maps each step to a step of the abstract barrier or a stutter (safety part).

**`NvlinkBarrierProofs`, `NvlinkBarrier`** (`NvlinkAssumption`: at least one rank and one CTA, calls of a
launch well-formed, launches times calls at most `MaxBarriers`). The words start as any
number of earlier barriers left them, `setup.before`, and the done word at any value. In `IInv`, `Words` says
that each signal word is the number of ranks whose last signal to it was +1, `Sending`
ties the counter and the signals of a rank to the place of its CTA 0, and `Met` says that
no rank has observed a barrier that one has not signalled. `Met` alone is not inductive:
it says nothing of the word a rank compares with its target. The step that matters is
`Arrival`: a rank that has not signalled the barrier one waits at counts in the word the
other way than the target does, however far its peers have gone (`OneSignal`), so the
word cannot equal the target. `Leaders` counts the barriers from the launch and the call
CTA 0 is at, which bounds them by `MaxBarriers`. `Implements` maps the first signal of a
barrier to an arrival, the poll that sees the target to a release, and every other step
to a stutter, for any number of ranks, CTAs, launches and calls.
`NobodyEarly` says what a return from a call promises: CTA 0, and any other CTA if the
call has an epilogue, returns only after CTA 0 of every rank has entered its call of the same
number, and after every CTA of every rank has if the call has a prologue. A CTA other than 0
of a call without an epilogue waits for nobody outside its rank, and is promised nothing. `HeldInv` counts the half calls each
CTA has behind it and its calls of `grid_sync` from them (`AllPlaced`), which makes the
promise of `grid_sync` one about calls: a prologue has gathered the rank's CTAs
(`Gathered`), and an epilogue, or the done word of the fast one, holds a CTA back until
CTA 0 has passed (`Followed`, `DoneWords`, over the wrap of the done word and the moment
between two launches in which a CTA of the old one has not exited).

**`InterleavedSchedulerProofs`** (assumptions of `TaskCounts` and
`SchedulerAssumption`), four layers:

* `Inv` adds to `NoL1BehindItsReader` that every L2 task in a mailbox has passed its gate,
  `PastGate`: the L1 counter is past all indices of its M block. A later claim then yields
  a larger L1 index, hence (`L1TaskPast`, `LaterBlock`, on the arithmetic of split tails) a
  task of a later block: `DependencyOrder`, `GatesHold`.
* `OnceInv`: the claim counters number the tasks (`Index` inverts the maps from index to
  task), and what was claimed stands at exactly one spot, a mailbox place or a gate
  (`Known`, `Distinct`, `Covered`). `TasksHandedOnce` follows once the sentinels show the
  counters past the end.
* `FlagInv`: a K-split flag is the number of splits the math warps are past, until the last
  split resets it, and a bit of a readiness mask means its last split was (`FlagCounts`,
  `Masked`). The flag alone does not say whose additions it counts, which is why the
  invariant speaks of the set of splits passed: `MasksMeanComplete`, `FlagsLeftClean`.
* `MailboxInv`: the A loader is ahead of the math warps by exactly the stages in the ring,
  counted from the start of the launch, and a task has at least one stage. So a slot the
  math warps have given back has been read by the loader too: `PayloadsRead`.

**`StreamKProofs`** (`PartitionAssumption`, `StreamKAssumption`). Lemmas on division
give that the ranges are adjacent and that `WorkerOf` is their inverse
(`OwnerOfUnit`, `OneOwner`). `IInv` says each segment in a mailbox or with the
math warps is sound: a cut of its worker's range with one task, with the contributor
index the partition gives. `ContributorsAgree` (two contributors of a tile agree on
its contributors and hold disjoint units) and `SlotsNeverShared` (two scratch slots per
worker are enough) follow for all sizes. `TileInv` follows the parts of a tile through
the launch: each is not yet published, in one place (`OnePlace`), or has drawn its ticket;
the counter is the number of the last kind (`Tiles`), and what a part has stored stays
(`Kept`, since no other part of the launch has its slot). Hence `SumsComplete` and
`TilesFinishedOnce`.

**`StaticSchedulerProofs`** (`StaticSchedulerAssumption`). `EnumInv`: the running index of
a CTA is its next position in the sequence of the launch minus the blocks before the
expert and phase it looks at, so that every subtraction of a width in `get_next_block` is
a step along that sequence. It must hold between waves too, where the expert is one past
the wave and the phase already turned (`InWave`). `DealtInTurn` follows, and with the
offsets kept by `advance_expert_idx` (`Offsets`) also `PoolBlocksRight`.

**`PushDispatchProofs`** (`PushAssumption`), in layers that each use those before:

* `TypeInv`; a row that has a ticket or waits for one is routed to an expert.
* `ControlInv`: where the CTAs of a rank can be together (`StageInv`), what the barriers a
  rank has signalled say of it (`SignalInv`), and that a rank is at most one launch ahead,
  and only of ranks that are all in barrier 3 (`SkewInv`).
* `WordInv`: whoever has learned that its rows are there, by a completeness word, a fetch
  or barrier 1, is right (`Complete`). With DONE flags this rests on `DoneInv`: modulo
  `DoneMod` the DONE count is `NumRanks` for each launch the epoch stands for plus the
  ranks that have sent this one, and a count that is not behind its target, as a signed
  difference of wrapped words, then has all of them (`DoneReached`, from
  `DoneMod > 2 * NumRanks`). The ranks ahead make it necessary to say which launch's
  signals are counted: the epoch moves with CTA 0's cleanup, not with the launch.
* `PoolInv`: the count of an expert is the number of rows that drew a ticket for the launch
  it stands for (`CountLaunch`, which moves with the cleanup of the CTA that owns the
  expert); each holds a ticket of its own or lies at a position nobody is about to write.

`PoolIsLaunch` follows where a CTA works, since then all rows of all ranks are stored and
nobody is ahead; `WordsClean` follows where all ranks are between launches, since nobody
has drawn a ticket or sent DONE for the next one. `PoolMatchesCounts` alone speaks of no
state in which rows are still on their way.

**`PullDispatchProofs`** (`PullAssumption`: at least two CTAs, as the kernel asserts, and
setups that are kernels and workloads; a plan with one active dispatch warp gives an expert
at most as many blocks as a warp has lanes, section 8). Two parts.

*The source search.* `SourceOf` recurses over rounds. What it computes is shown by induction
without an induction rule over operators: a claim about numbers is a set of numbers,
and `Induct` and `InductTo`, from the well-foundedness of `<`, say which sets contain all
of them. A round of the loop takes `Length` rows of each of the `Active` ranks; the
rows a rank still has after it are what the next round searches (`NextGroup`), so the
search finds the row whose `PositionOf` is the one asked for, and the recursion ends since
each round leaves fewer ranks active. `SearchesRight` is that for every count of `Searches`, which
may be any set of counts; the lemma behind it, `SearchRight`, is for every count, and the
second part uses it for the counts of a launch.

*The protocol.* `BlocksHold` speaks of blocks that have been read and says nothing of how
their rows got there; the inductive `IInv` follows a row from its router to the read:

* `ControlInv`: as in push dispatch, where the CTAs of a rank can be together, what the
  barriers a rank has signalled say of it, and that a rank is at most one launch ahead.
* `SendInv`, `IndexInv`: the count word of an expert at the sender is the number of rows of the
  CTAs that have staked out (with the number of those CTAs in its high half where counts are
  not lean); the staked-out ranges are disjoint, so that the filled slots
  hold different rows (`AllLanded`: all of them, once the counts are sent).
* `RecvInv`, `LearnInv`: what has arrived are the counts of the ranks that have sent in the
  launch the words stand for (`RecvLaunch`: the words of an expert pass to the next launch
  when the CTA that clears them has been through, not when the launch begins). A warp that
  has fetched knows the counts of its own launch (`TrueCounts`), since the high half of
  every word it read was `NumSMs * NumRanks`.
* `TokenInv`, `StoredInv`: each dispatch CTA has stored the rows before its token, each at its
  place (`PlaceAt`, one to one by `PlaceInjective`), and each is the one the search names
  (`Content`).
* `ArrivalInv`, `LoadInv`: the arrival word of a block is the number of its rows stored and
  counted and not yet cleaned up; what is loaded was complete at that moment, and the blocks
  below the claim counter are loaded or in the hands of a CTA.

`BlocksRight` and `AllBlocksLoaded` follow for any number of ranks, CTAs, experts, rows,
launches and any routing, with either combine. They hold where `pull_idle` hangs too: the
warp that is late there stores nothing.

**`FineCombineProofs`** (`CombineAssumption`; hypothesis `NoIdleCta` of each theorem: in
every setup with more than one epilogue warp, each CTA has a task in every launch). The
setups of the run `combine` satisfy the hypothesis; `combine_idle` shows what happens
without it. The layers:

* `ControlInv`: the words of a mailbox ring stay exact over their wrap, since `SeqMod` is a
  multiple of `RingSize` (`CtaInv`). DONE follows the last epoch read: with several warps
  there is a task, whose barriers gather them before the last post. Hence
  `EpochReadFirst`. A rank is at most one launch ahead, and only of ranks in
  barrier 3, and then it has executed none of its tasks (`SkewInv`).
* `TicketInv`: the warps of a launch use one ticket word (`Current`), whichever side of the
  cleanup they are on; a token below it is reduced or has one warp waiting for it, one
  above it neither; and once SM 0 has cleaned up, the next launch's word is zero.
  `ReducedOnce` follows.
* `SliceInv`: the arrival counter of a token plus the slices it has yet to be
  signalled is the number of its slices, until it is reduced (`ArrivalInv`), and the slices
  of executed tasks have landed (`LandedInv`). `ReducedComplete` alone does not tell a
  slice of this launch from one of the last. `SlicesPresent` follows.

**`JitCacheProofs`** (`JitAssumption`: every process runs on a node, its calls are a
sequence of keys no longer than `MaxCalls`). `CacheComplete` is not inductive: a rename
publishes what the process did many steps before. `IInv` adds what a directory holds at
each place of `build` (`Written`), that nobody has published the directory a process is
building nor one it has yet to create (`Private`, `Fresh`), and that after a rename
there is a directory whoever won (`Won`). That a name is never given out twice rests on
`Budget`: each life of a process makes at most one directory per call, and there are at
most as many lives as faults, and one. `AlwaysComplete` and `AlarmsAreReal` follow for any
number of processes, nodes, kernels, calls and faults; `NeverTouched` needs `Durable`
besides, since a power loss takes any file that was not synced, a dump as well.

Model-checked only:

* liveness and everything with `ENABLED` (`LaunchEnds`, `LaunchesComplete`, `RanksEnd`,
  `KernelsEnd`, `CallsReturn`), which the provers do not reach;
* the properties of `KernelMachine` (`OperandsHold`, `ReadsRight`, `PeersAlive`,
  `ResultsRight`), which are about given programs: a theorem would have
  to be one per kernel, and the interleavings of one kernel's warps are finite.

## 7. Where the code and its comments disagree

1. **`combine_idle` / `EpochReadBeforeBump`** (INL:1879). Each epilogue warp reads the
   combine epoch by itself. In a CTA without a task nothing makes the other warps
   read it before thread 0 posts DONE, and DONE is all that SM 0's bump waits for. A
   late warp takes the ticket word of the next launch. INL:1875-1877 says the bump
   "cannot be observed by this launch".
2. **`pull_idle` / `LaunchesComplete`** (INL:1328). Pull dispatch with the barrier
   combine: nothing makes a dispatch warp without a row fetch the counts before another
   CTA, past NVLink barrier 2, zeroes them. It spins for ever. INL:4390-4392 says
   dispatch "may now safely clean workspace state"; the fine-grained combine has a
   dispatch grid sync at that place.

Both windows are a delayed warp against a whole launch, which is why they would hardly be
met in a test. What follows was seen while modelling and has no run of its own.

* Four fragment buffers (`DG_FP4_QIS2_FRAGS=4`) over two stages (`DG_FP4_BM8_STAGES=2`),
  which the static asserts and both environment knobs admit: the lagged loop (INL:2894)
  waits for a stage whose slot it gives back only later, and the CTA hangs. An odd
  number of stages with two slots of decoded B lets a wgmma read a slot that is being
  decoded again. `FusedTask` shows both with such problems; the run has depths that work.
* `scheduler/mega_moe.cuh:131-179` gives the two CTAs of a cluster different M blocks and
  the same N block; its comment (46-48) and the SM100 kernels assume the same M block and
  adjacent N blocks, which is what `src/sm100_b200/scheduler_mega_moe.cuh` gives. The
  SM100 modules follow the kernels.
* The late reader of the counts (2.) and of the epoch (1.) are in the split L2 kernel and
  in the SM100 kernels as well (`src/sm100_b200/sm100_fp8_fp4_mega_moe.cuh:928`, against
  its comment at 410-411). The B200 problems and those of `SplitLaunch`
  give every CTA work, so that they end.
* The L1 epilogue of the split kernel without swap, with N split over the warpgroups, may
  let warpgroup 1 write into the staging buffer while warp 0's store reads it.
* `src/deep_gemm/include/deep_gemm/impls/sm100_*_mega_moe.cuh`: a ring smaller than a wave
  of experts hangs; the host sizes the ring to a wave (`heuristics/mega_moe.hpp:148-206`).
* The comment at INL:334-338 on the first NVLink barrier describes the path that
  `kPushDoneFlags` replaces.

## 8. Not modelled, and why

* The workspace layout as an address map: the models have the words as variables.
* All numeric work: decode tables, scales, activation, quantisation, sums, softmax and
  top-k. Weight transforms, heuristics and APIs are numeric or single-threaded host code;
  their results enter as any routing, any counts, the problems of `MCKernels`, and as
  ASSUMEs (the plans with one active dispatch warp, for one, give an expert at most as many
  blocks as a warp has lanes: beyond that the idle warp, which never fetched the counts,
  would clear the words of other blocks, INL:1003-1026).
* The dispatch warps of a CTA one by one in the pull part; the tickets outside a pool region
  (INL:1138, a trap the host's sizing excludes); the strided-pool debug layout.
* Psum layouts in which a group ends before its aligned start: the unsigned differences of
  `scheduler/gemm.cuh:80` and `:231` would wrap. `WellFormed` is what `tests/generators.py`
  builds, and TLC evaluates it on the psum problems of `MCKernels`.
* Plain kernels: the update of a tensor map for the next group of the K-grouped GEMM
  while copies are in flight (a copy is taken to use the map of its issue); the exit of an
  SM90 kernel while its last TMA store still reads (`PeersAlive` covers m-barriers and
  copies of a peer only); paged metadata when all contexts are empty; clean-logits kernels.
* Split MegaMoE: TP replicas, the distributed combine and the L1 store in two buffers (a
  constant turns it off); the order in which two CTAs stake out slots, of which `SplitLaunch`
  has one; the swap variant with a full K in registers, which nothing selects, and
  shadow decode in the register mode, where its buffer has no bytes.
* Blackwell MegaMoE: the SM100 warps within a warpgroup one by one (the combine has no
  `__syncwarp` and relies on `elect.sync`). In the B200 kernels: strided and parity pool
  numbering, deterministic slots, phase stamps; the order of tickets is one of those
  possible; `l1_arrival_count` under push, which is written and never read; the epoch is
  read at its first use; half-N tiles (dropped, `docs/B200_MEGAMOE_RESULTS.md:228`).
* Routers whose CTAs do not meet in global memory (`mega_frontend.cu`, the cluster
  frontends), and the path on which the MegaMoE prologue selects: there the end of the
  router kernel publishes the keys. The value that marks a row of zeros.
* JIT: a full disk (the close after a write is unchecked), headers edited while a process
  runs (their hash is computed once), equal random directory names, a user who removes the
  cache.
* Tests, benchmarks, scripts, records and third-party code are not part of the program.

## 9. Plan

1. (done) Barriers with their refinement and proofs; dynamic scheduler and proof of the
   dependency order; push and pull dispatch; fine-grained combine; stream-K and its proofs;
   static scheduler; the inside of a task; plain, split and Blackwell kernels on one
   machine; both launches of the split kernels; routers; the JIT cache with crashes and its
   proofs.
2. Compose a launch of the fused kernel, as `SplitLaunch` does for the split ones, from
   dispatch through tasks to combine and cleanup, with the components' promises as the
   interfaces, and an abstract launch ("every row of this launch is reduced once, from
   results of this launch") refined by `PushDispatch` and `FineCombine`. Two dispatch warps
   in the pull part of `PullDispatch`, and what bounds the blocks of an expert when the
   ranks' batches differ.
3. Proofs (done): both barriers, the tickets and slots of stream-K, the static scheduler's
   sequence, the K-split flags and the mailbox of the dynamic scheduler, push and pull
   dispatch with the source search, fine-grained combine, the JIT cache. Next: a theorem
   about the ring of one kernel of `KernelMachine` (`OperandsHold` for its programs), for
   any number of K blocks and stages.
