# A TLA+ model of devastator

devastator is a runtime for parallel discrete event simulation (PDES).  User
code belongs to *causality domains* (cds), each on one *rank*; a rank is a
thread, ranks are grouped in processes.  Events carry a time; the engine
executes them optimistically (Time Warp): it speculates, rolls back what a
late event proves wrong, and commits what lies before the *global virtual
time* (GVT).  Below the engine are active messages (`deva::send`,
`deva::progress`), barriers and reductions, built on channels in shared memory
and on GASNet between processes.

The model follows the code, not its comments; every definition is mapped to
source lines in `PROJECT.json`.

## 1. The system's parts

| Part | Source | State it keeps | Operations | Talks to |
|---|---|---|---|---|
| GVT | `gvt.hxx`, `gvt.cxx` | epoch, two-stage status and GVT, counters of sends and receipts per epoch, accumulators of the reduction tree | `init`, `send`, `bcast_procs`, `coll_begin`, `advance`, handlers `rdxn_up`, `rdxn_down` | engine (calls), other ranks (messages) |
| Engine | `pdes.hxx`, `pdes.cxx` | per cd: future heap, past queue, sequence ids, user state; per rank: events sent near, hot and cold lists, events from afar, lookahead | `init`, `root_event`, `drain`, `send`, `rollback`, arrivals of events and anti-messages, `rewind`, `finalize` | GVT, reductions, barriers, user code (`execute`, `unexecute`, `commit`) |
| Containers | `queue.hxx`, `intrusive_map.hxx`, `intrusive_min_heap.hxx` | ring buffer, bucket table, binary heap | push, pop, chop, insert, remove, least | engine |
| Ranks in a process | `threads.{hxx,cxx}` | main threads, run epoch, epoch barrier | `run`, `barrier`, `progress_*` | channels, barrier state |
| Barrier | `threads/barrier_state.hxx` | slots per thread, phase and round | `begin`, `try_end` | shared memory |
| SPSC channels | `threads/message_spsc.hxx`, `signal_slots.hxx` | linked list per pair of threads, notification counters, credits | `connect`, `send`, `receive`, `reclaim` | shared memory, allocator |
| MPSC channels | `threads/message_mpsc.hxx` | one list per receiver and rail | `send`, `receive`, `reclaim` | shared memory, allocator |
| Epoch allocator | `threads/epoch_allocator.hxx` | bump pointer, edges of the last epochs | `allocate`, `bump_epoch` | epoch barrier |
| Allocator | `opnew.{hxx,cxx}` | bins per thread, free lists of other threads' objects | `operator new`, `delete`, `progress` | other threads |
| Reductions | `world/reduce.{hxx,cxx}` | accumulator and answer per rank | `reduce`, `scan_reduce` | messages |
| World, one process | `world/world_threads.{hxx,cxx}` | none | `send`, `progress`, `barrier`, `run` | threads |
| World, processes | `world/world_gasnet.{hxx,cxx}` | outgoing batches, reassembly of chunks, big barrier | `send`, `bcast_procs`, `barrier`, the pump of the master thread | GASNet, threads |
| Support | `diagnostic`, `os_env`, `random`, `utility`, `datarow`, `src/upcxx`, `src/external`, `brutal`, `bench`, `example`, `test` | - | assertions, parameters, serialization, build, programs | everything |

What is hard here: GVT counts are read at different moments on different
ranks while messages overtake each other; near events are one object that two
ranks free without asking each other; anti-messages overtake events; a
rollback recurses through several cds; each rank decides by itself when the
simulation is over; epochs, credits and sequence ids wrap or are reused; the
lock-free channels and barriers share memory without locks.
`PROJECT.json` lists these hazards line by line.

## 2. Modules

The stack of specifications of the simulation, most abstract first:

    GvtService       what gvt promises to a client and asks of it
       ^  implemented by (gvt_protocol, proved)    ^  used by
    GvtEpochs        the protocol: epochs, counts,  \
       ^             minimum; GvtEpochsProofs        \
       |  implemented by (gvt_refinement, proved)     \
    Gvt              the code: trees, arrays, wrap    Pdes   the engine

**GvtEpochs** has one action per step of `gvt.cxx` at the level of the
argument.  `Send` is `gvt::send`/`bcast_procs` at the sender (tag `epoch+1`,
count, least time sent), `Receive` the lambda at the destination, `EnterEpoch`
the shift of counters at the start of `coll_begin`, `CollBegin` the
contribution, `Complete` and `CollBeginLast` the comparison of the sums at
rank 0, `Deliver` the arrival of `rdxn_down`, `Advance` is `gvt::advance`.
`Spawn` and `Finish` are the client.  The tree is a set of contributors with
one accumulator.  `sent`, `rcvd`, `counted`, `cepoch`, `nextId` are history.

**GvtService** is what remains when counts, tags and epochs of the protocol
are forgotten: a collective begins, ends with one verdict for all ranks, and
if the verdict is "quiesced" nothing tagged with the epoch is under way and
the new GVT bounds everything that is left.  **GvtContract** states that
GvtEpochs implements it, and **GvtEpochsProofs** proves it.

**Gvt** is the code as written: `rdxn_up` on the binomial tree, `rdxn_down` by
halving of intervals, `epoch_lrecv_[0..2]`, the `int` conversion of the
difference of unsigned epochs, reducibles, the stages `[0]` and `[1]`.  Each
handler is an action, since handlers run one at a time in `progress()`.
**GvtInvariant** is the inductive invariant of Gvt.  **GvtRefinement** adds
history variables and the mapping to GvtEpochs.  **GvtProofs** proves the
invariant, the four safety properties that follow from it, and the refinement,
for any number of ranks.

**Pdes** is the engine.  The memory of the engine on all ranks is one record
`mem`; `Rollback`, `ArriveNear`, `ArriveFar`, `Commit` are functions from
memory to memory, as long as they are one call in the code.  The actions are
`Receive` (a message handler), `Execute` (one event), `NurseGvt` (the block of
`drain` that acts on a finished collective), `Return`, `RewindBegin` and
`RewindEnd` (`rewind` before and after its second barrier), `DrainAgain`,
`FinalizeFuture`, `FinalizeSent` and `GvtStep` (of GvtService).  Objects have
identity and a freed object is `Freed`, so that a dangling pointer is visible;
one freed again is `FreedAgain`.  A job is a set of root events, the process
of each rank, the windows, and the calls of `drain` with what follows each:
nothing, `rewind(true)`, `rewind(false)` or `finalize()`.  A message carries
the events of one `send` or of one `bcast_procs` on the destination; far_ids
are as in the code.  The lookahead is a variable of each rank that
`NurseGvt` updates with the controller of `sim_state::update` (shrink, grow,
or the static value).  The user's program is the constant `Handler`; its state
update `3 * s + pay` does not commute, so wrong orders of execution or of
undoing show.  What is committed is compared with a sequential execution.

Below the engine:

    ThreadBarrier    what a barrier promises
       ^  implemented by (run threads)      ^  used by
    Barrier          flags and stores       SpscChannel   one channel, progress()
                                            WorldRun      pool of threads, barrier
                                               |          over processes
                                               v  implements (run threads)
                                            ThreadBarrier over the ranks of all processes
                                            (MCThreadsProofs)

**Barrier** is `barrier_state.hxx` for any number of threads: `Begin`, one
turn of the loop of `advance` (`Pass`), `TryEnd` and its failure (`Spin`).
What a thread stores goes through a FIFO buffer (`Drain`), so the clearing of
flags may reach the others long after the barrier has ended.
**ThreadBarrier** is the promise: nobody ends a barrier that somebody has not
begun.  **BarrierProofs** proves that Barrier keeps it, and **MCThreadsProofs**
carries its theorems, and those of EpochAllocatorProofs, over to the behaviours
that the run `threads` explores.

**SpscChannel** is one channel of `message_spsc.hxx` between a writer and a
reader, who may be the same thread, and the stages of `progress()` on both
sides: `ProgressBegin` (test of the epoch barrier), `Reclaim`
(`progress_stage1_reclaims`), `Receive`, `Ack` (`progress_stage2_recieves`),
`ProgressEnd` (beginning of the next epoch barrier and the test of the loop).
The compile-time choice of the memory model is a variable that never changes,
so that one run covers the three; the width of the slot is 1 or 2 bits.
**SpscChannelProofs** proves the safety properties for any width.
**NumberFacts** holds what these proofs and those of Gvt need of arithmetic.

**MpscChannel** is `message_mpsc.hxx`, one access to shared memory per action:
the writer's exchange of the tail and its store of the link are two steps, and
the reader follows the links up to the tail it saw and spins at a gap.  The
three builds differ in who frees a message: the writer, when it finds its
link marked (`reclaim`); the reader; or nobody, memory being used again after
some epochs.  Memory is a set of live messages, and what is freed is named.
**MpscChannelProofs** proves its safety for any number of threads.

**WorldRun** is a program on several processes: `threads::run`, `tmain` with
its mutex and its one condition variable (waiting is a state; a signal wakes
one of the threads that wait; `SpuriousReturn` is `pthread_cond_wait` coming
back without one, as POSIX allows; `stray` remembers that a worker has gone on
in the loop with neither a new run nor `shutdown`), and in each job `deva::run` and `deva::barrier`
of `world_gasnet.cxx`: worker 1 asks through `bigbar_phase_`, the master
drives GASNet's barrier and notifies, the others spin.  The inner barriers are
ThreadBarrier.  **MCThreadsProofs** proves that jobs run once, as long as no
worker is stray, and that the whole is a barrier among the ranks.

**Collectives** is `world/reduce.hxx` (`reduce`, `scan_reduce`) and the
tree of `bcast_procs`; its statics, accumulators and answers are used by one
call after another while messages stay as long as they like.  A value is a
sequence of tokens, so an answer tells what it was made of and in which order.

**Bundles** is the master's side of sending: `master_pump` cuts what goes to
one process into active messages of limited size, with the rest of a message
begun before, whole messages, and the beginning of one more; `am_recv` and
`recv_part` put the parts together by sender and nonce.

**Queue**, **IntrusiveMap** and **MinHeap** are the containers with their
arrays: the ring with its growth and shrinking, the bucket table that doubles
and halves, the binary heap with the place kept in each element.

**EpochAllocator** is the arena of messages whose memory is used again some
epochs later: `allocate`, `bump_epoch`, the renumbering of the edges.
**EpochAllocatorProofs** proves that it never gives out what is still needed.

The allocator is five modules: **SizeClasses** (the bins and how a pool is cut,
with the numbers of a 64-bit build), **ArenaPages** (page map and tree of
maxima of one arena), **ArenaTree** (in which arena to look), **PoolHeap** (the
heap of pools held by a bin), and **Opnew** (threads with bins and pools whose
objects travel: `operator_new`, `operator_delete`, `progress` with `gc_bins`
and `flush_remote`, the message to the owner, and objects freed by threads
that are not the library's).

MCGvt, MCGvtEpochs, MCGvtRefinement, MCPdes, MCSpscChannel, MCMpsc give values
to the constants; GvtContract and GvtRefinement hold refinement mappings.
**MCThreads** and **MCParts** check several modules that share no state in
one run: the initial state chooses the part a behaviour is about, and the
others stay as they began.  The modules they instantiate define `ConstantsOK`,
which the MC module assumes of its values.

## 3. What each run checks

| Run | Instance | What it shows |
|---|---|---|
| `gvt_protocol` | 2 ranks, times 0 and 1, two calls of send or bcast, epochs to 3 | The inductive invariant `IInv`; equal sums mean that all messages of the epoch have been received (`QuiescedMeansReceived`); a GVT never goes back, which `rdxn_down` asserts (`GvtMonotone`); the protocol implements `GvtService` |
| `gvt_code` | 2 ranks, epochs modulo 8, an event that may send another | Tags select one of three counters (`TagInWindow`) and no GVT passes an event or message (`GvtSafe`) as the code is written and while the unsigned epoch wraps; the GVT reaches the end when the client has nothing left (`ReachesEnd`) |
| `gvt_tree` | 4 ranks, so that rank 0 has two kids and one of them a kid | The sums of the reducibles are those of exactly the ranks' contributions of this round; the halving reaches each rank once |
| `gvt_refinement` | 2 ranks, 3 events, broadcasts and sends | Every step of the code is a step or a stutter of GvtEpochs |
| `pdes` | 3 cds on 2 ranks, of one process or of two; ten jobs | Committed events of a cd are those of a sequential execution, in its order (`CommittedIsSequential`), and all of them when everyone has left (`DrainComplete`); a cd's state is the replay of its past; no dangling pointer; nothing that should be undone stays; clean exit; no leak and nothing freed twice, also by `rewind` and `finalize`; a broadcast is annihilated whole; the engine keeps the contract of GvtService; every rank gets through its calls of `drain` (`Terminates`) |
| `pdes_ties`, `pdes_rewind`, `mpsc_leak` | See 6 | Findings |
| `threads` | Barrier: 3 threads, any inputs, epochs modulo 4, for ever. WorldRun: 2 processes with 2 workers and a master, 2 runs, 1 barrier in each, one return of `pthread_cond_wait` without a signal. EpochAllocator: 3 epochs, 6 grains | Nobody ends a barrier too early (`ImplementsBarrier`); `or_result` is the disjunction for this barrier (`OrExact`); each barrier ends (`EndsEvery`, said of thread 0, from whom no other is more than a barrier away). `deva::barrier` is a barrier of the ranks of all processes (`ImplementsRankBarrier`); unless a worker has gone stray, every thread executes each job once, and signals alone make none stray (`OncePerRun`), `run` returns and all threads exit (`AllExit`). Memory of a message is not given out while an epoch may use it (`NoOverlap`) |
| `spsc_channel` | 2 threads, three builds, slots of 1 or 2 bits, counters of 5 bits | The slot is never lapped (`NeverLapped`), credits come back only for executed messages and fit the counter (`CreditsEarned`), nothing is freed or reused too early (`NoStaleMessage`), every message is executed (`Delivered`), and `progress()` comes out of its loop (`ProgressReturns`) |
| `mpsc_channel` | 2 threads, three builds, 1 or 2 rails | A writer's messages are received in order (`InOrder`), nobody follows or writes a link in freed memory (`NoFreedMessage`), every message is executed (`Delivered`) |
| `parts` | Collectives: 5 ranks, two reductions, two scans, two broadcasts. Bundles: 2 destinations of 2 threads, AMs of 5 or 8 words. The containers. SizeClasses: every size up to 7K, every bin. Arenas of 7 pages, 5 arenas, 7 pools. Opnew: 2 threads, 2 places | `CollectivesExact`: each answer is made of its own call's values, in rank order for a scan, and a broadcast reaches each process once. `DeliveredWhole`: each message arrives once and whole. `ContainersHold`: contents and order. `ArenasExact`: what is given out is large enough, apart from everything else and never at a forbidden address, and a request fails only when nothing fits. `ObjectsOnce`: an object is in one place, and its pool is freed only when it is back |

The properties are stated and commented in the modules.  For every property
`PROJECT.json` names a plausible mistake in the code ("mutants") with which
TLC finds the property violated on the same instance.

### Bounds, and why they are enough

* `MaxEpoch = 3` in GvtEpochs: counters are shifted once per epoch and there
  are three, so the third epoch is the first in which every counter has been
  shifted in and out; ranks are at most one epoch apart.  Times 0 and 1 only
  keep this run small: `gvt_code` and `gvt_refinement` have 0..2, and the
  theorems in GvtEpochsProofs do without any bound.
* `EpochMod = 8` in Gvt: the difference of two epochs is at most 1, so eight
  numbers tell -1, 0 and 1 apart around the wrap, and the run does wrap.
  In GvtRefinement epochs do not wrap (`MaxEpoch + 2 < EpochMod`).
* `MaxSends` is the number of calls in all in GvtEpochs (messages of two
  epochs and two ranks are under way at once), and the number a rank counts in
  one epoch in Gvt, where the events are few and used again.
* Four ranks are the least with a kid that has a kid; two are enough for
  everything that one edge of the tree can do.
* Pdes: three cds because a rollback must recurse from a cd into a second one
  of the same rank on behalf of a third on another rank.  The jobs are fixed
  (three with stragglers, two with broadcasts, three with `rewind`, one that
  pauses with an event sent by the other rank left over and then takes it
  through a `drain` that rewinds and one that does not, one whose window begins
  at 1 and adapts); every order of speculation, of messages and
  of GVT rounds is explored.  `Objects = 8` never limits: TLC would stop at a
  `NewObject` without a free one.  `LookMax = 5` is as large as the end of
  time, so that a window can be the whole simulation.
* Barrier: three threads is the least number that is not a power of two, so
  that the rounds overlap around the ring; the safety part was also run with
  four.  WorldRun: two workers, so that one spins on the phase; the phase goes
  round modulo 4 within two runs of two barriers each (the user's and the one
  at the end of `run`).  `SpuriousMax = 1` returns without a signal, at any
  wait of any process: with the signals it sends, one is enough for a worker
  that runs a job twice and for one that hangs at exit (6).
* SpscChannel: with one bit the slot goes round every other message and the
  writer is backlogged at three unpublished messages; with two bits several
  credits return at once.  `MaxAhead = 5` exceeds both.  33 messages wrap
  the 5-bit counters in the sym build; the asym builds have fewer messages,
  8 and 6, because their state space is larger.
* MpscChannel: a queue with two writers, one of them the reader itself, is the
  least in which a gap is in the middle of a list.  `KeepMax = 4` is the
  code's; `MsgEpochs = 5` is `msg_arena_epochs` (with 2 TLC finds a message
  overwritten before it is read; the proofs need 3).  `MaxLive = 3` bounds the
  messages in memory (6 in `mpsc_leak`, which needs five).
* Collectives: five ranks are the least for which a rank whose subtree is not
  full has a kid that is full.  Bundles: sizes are scaled down with the
  limit of an AM so that a message takes up to three parts; `MiddleMax = 3`
  stands for 2^16 messages in one middle.
* Arenas: seven pages and blobs of up to three make every merge of holes, and
  an odd number of pages leaves a leaf without its pair.  `HoleMax = 4` and
  `LargestPn = 2` keep the proportion 2042 to 128 on the side that matters,
  see `ConstantsOK` of ArenaTree.

### Fairness

* Gvt, `FairSpec`: `drain()` calls `progress()` (handlers that have a message
  run), `gvt::advance()` and, when the last collective is over, `coll_begin()`
  in each turn of its loop, and executes the events it has.  Sends need not
  happen.  Weak fairness of each is enough: none is ever disabled by another
  rank once enabled.
* Pdes, `FairSpec`: every rank goes on with its program, that is weak
  fairness of its steps (receive, execute within the window, the GVT block,
  the return from `drain`, the next call), written with the steps' guards, since
  TLC evaluates ENABLED by trying the whole step.  Of GvtService it
  takes what the run `gvt_code` shows of Gvt (`ReachesEnd`): a collective that
  all ranks have begun ends and reaches every rank, and when an epoch can be
  found quiesced again and again, it is, with the GVT the events in hand
  allow.
* Barrier and WorldRun: `threads::barrier`, `deva::barrier` and `progress()`
  call `try_end` again and again; stores reach memory in the end; each thread
  is scheduled.  A signal wakes one waiting thread, if there is one.
  `pthread_cond_wait` may return without a signal too, but nothing relies on
  it: `SpuriousReturn` is no part of `ThreadStep`, whose fairness is assumed.
* SpscChannel: every thread of a job calls `progress()` again and again;
  `Delivered` is not true of a job in which a thread stops doing so, since
  epochs need all threads.
* MpscChannel: both threads are scheduled and go on calling `progress()`.

Deadlock is checked in the Pdes runs: there a finished job stutters and nothing
else does.  In the others `CHECK_DEADLOCK FALSE` is set because something in
them stops: the client of gvt at the last GVT, or at a bound on epochs or
messages with all channels empty; a program that has ended; a sequential part
at its bound.  What must not stop there is said by liveness properties.

## 4. What is proved

### The GVT protocol

GvtEpochsProofs proves, for any finite set of ranks, any times, any number of sends and of epochs (`ConstantsAssumption` of GvtEpochs
is all that is assumed):

| Theorem | Says |
|---|---|
| `Invariance` | `Spec => []IInv` |
| `TypeCorrect` | every variable keeps its type |
| `GvtSafety` | no rank's GVT passes an event or message |
| `TagsInWindow` | a tag is in the window of three counters |
| `QuiescenceMeansReceived` | equal sums of an epoch mean that its messages have all been received |
| `GvtMonotonicity` | a GVT never goes back |
| `Contract` | `Spec => ImplementsService`: the protocol, its epochs taken modulo 4, implements GvtService |

`GvtSafe` is not inductive, and neither is `QuiescedMeansReceived`: that sums
taken at different moments are equal says something only because everything
older than the epoch being counted has already arrived.  `IInv` has five parts
besides the type: `CollInv` (results of a collective reach all ranks before
the next one can complete; ranks change epoch only on a quiesced result),
`MsgInv` (nothing under way is older than the epoch being counted), `CountInv`
(each counter is the number of messages its name says), `CoverInv` (for each
message under way and each event behind the cut, some rank's minimum is not
later) and `BoundInv` (the last GVT is not later than anything that is left,
nor than the minimum being computed).  The heart is `EqualCounts`: the
receipts counted are a subset of the sends counted, and both are finite sets
of one size, so they are one set; then `CoverInv` and the closing of the
collective give the next `BoundInv`.  There is one lemma per action;
`CollBegin` and `CollBeginLast` share `Enter*` and `ConcludeInv`.

`Contract` needs one more invariant, `CopyInv`: a rank's copy of the GVT is the
last one computed unless a newer one is on its way to it.  Each action of
GvtEpochs then maps to a step of GvtService or, for `Advance`, to a stutter
(`ServiceStep`).  Two arguments carry it.  Messages under way have the tag
`cepoch` or `cepoch + 1` (`TwoTags`), so that modulo 4 they can still be told
apart and receiving one removes exactly one from `net` (`BarInjective`).  And
what `MayConclude` asks of a quiesced verdict about the state before it is what
`MsgInv` and `BoundInv` say of the state after it (`VerdictTrue`).

### A program on several processes

MCThreadsProofs proves of `Spec` of WorldRun, for any finite set of processes,
any number of workers, runs, barriers and returns without a signal, and epochs modulo any number from 3
on (`ConstantsAssumption` of WorldRun is all that is assumed):

| Theorem | Says |
|---|---|
| `OncePerRunHolds` | `Spec => []OncePerRun` |
| `RankBarrierHolds` | `Spec => ImplementsRankBarrier` |

Neither needs fairness, and the code takes its epochs modulo a small number,
so the arguments are about neighbours: with three epochs or more, an epoch, the
next and the one after that differ (`EpochFacts`).

`OncePerRun` says nothing of a worker that is between two jobs, where the
mistakes would be made.  `PoolInv` gives each worker one of five situations:
`Running` the job the master is in; `Late`, still in the barrier the master has
left, perhaps with the next `run` already called; `Called`, which has seen the
end of the barrier and not yet the new run; `Done`, which has left the barrier
the master is in, so that everyone is in it; and `Resting`, with the master in
`main`.  The pair of epochs (of the barrier, of the run) and the two counts are
fixed in each.  A signal may wake any of the threads that wait, and a thread
that comes back from `pthread_cond_wait` does not look at the epochs again
(the code has an `if`).  So the `if` is safe only as far as there is news for
whoever comes back.  Signals see to that: one is sent only by `run`, by the
exit and by a thread that one of them has reached, and all who wait by then
are `Called` or about to exit; with `spurious = 0` nobody who is `Done` or
`Resting` is ever woken (`Idle`, `SignalIsNews`).  A return without a signal
may come to a worker that is `Done` or `Resting`: if it has the mutex only
after the next `run` or `shutdown` no harm is done, otherwise it is stray and
`PoolInv` is over for its process (`PoolsInv`).  `OncePerRun` says just that,
and not that each job is run once come what may, which is false of the code
(6).  The other processes keep their `PoolInv`; and `ImplementsRankBarrier`
holds whoever is stray, since a stray worker enters `deva::barrier` like any
other.

`ImplementsRankBarrier` rests on `BarrierInv`: a worker is `Behind`, `Level`
with, `Answered` by or `Ahead` of the GASNet barrier of its process; if one is
ahead, all are ahead or have begun (`WorkersInv`); while the phase is not done,
worker 1 spins, ahead (`PhaseInv`); and two processes differ by at most one
GASNet barrier, which the one behind has begun (`ProcsInv`).  `BarrierBegin`
and `BarrierEnd` are the steps of the barrier among ranks and the rest are
stutters (`RankNext`); `EveryRankBegan` is the lemma that justifies `BarrierEnd`.

### The GVT as it is coded

GvtProofs proves of `Spec` of Gvt, for any number of ranks, any finite set of
events, any number of epochs from 8 on and any bound on times and sends
(`ConstantsAssumption` of Gvt):

| Theorem | Says |
|---|---|
| `Invariance` | `Spec => []Inv`, Inv of GvtInvariant |
| `EveryTagInWindow` | `[]TagInWindow`: with wrapping epochs, a message finds one of three counters |
| `EveryGvtSafe` | `[]GvtSafe`: no GVT passes an event or message |
| `EverySumExact` | `[]ReduciblesExact`: the reducibles are summed over all ranks, of one collective |
| `EveryDownOnce` | `[]DownOnce`: the broadcast by halving reaches each rank once |

| `GvtImplementsEpochs` | `RSpec => ImplementsEpochs`: with its history variables, Gvt implements the protocol GvtEpochs while epochs do not wrap |
| `CodeKeepsContract`, `CodeQuiescedMeansReceived`, `CodeGvtMonotone` | What GvtEpochsProofs proves of the protocol, of the code |

The first five are a proof of their own and do not pass through GvtEpochs: no
history variable counts epochs or names messages, and epochs wrap.  `Inv` says that there is one open
collective, of some epoch `e` and some parity `d`, and where each rank stands
to it.

* `CollOK`: a rank has contributed to it, or the last result is on its way to
  it (it is in `Covers(m)` of exactly one message `m`), or it has that result
  and may begin.  A rank that has not begun is one epoch behind exactly when
  that result was "quiesced".  Without this, the sums below would have no round
  to be sums of.
* `TreeOK`: `rdxn_incoming` and the accumulators of a rank hold the
  contributions of itself and of those kids whose whole subtree has
  contributed and has nothing under way any more.  `Subtree(r)` are the ranks
  whose number becomes `r` when low bits are cleared, and the lemmas about
  `Floor` show that this is a tree with the kids of `rdxn_up` and the parent
  `me & (me-1)`.
* `CountOK`: over all ranks, sent = received + under way, for the epoch `e` and
  for the next.  A rank that has not entered `e` counts them one place
  further on.  Sums that are equal at the root therefore leave nothing of `e`
  under way, although receipts went on after the contributions were made: those
  only add to one side (`c <=` in `IsSum`, `CountConclude`).
* `CoverOK`: for each event under way or at a rank that has entered `e`, what
  some rank contributes is not later; a message of the next epoch is covered by
  its sender, which is in `e`.  `CoverConclude` turns it into the bound, and
  into `CoverOK` of the next epoch.
* `BoundOK`: no event is before a GVT that a rank has, or that a message brings.

Sums over ranks are not computed by recursion (about which nothing could be
proved here): `SumOf(f, S)` is the number of pairs of a rank `q` and a number
below `f[q]`.

`Rising` is the heart: one call of `rdxn_up`, whether from `coll_begin` or from
a message handler, brings a part `P` of the sum to rank `me`; it is kept, or
passed on to the parent, or, at rank 0, it completes the sum over all ranks,
whose result opens the next collective (`Conclusion`).  The client's steps
share `ClientStep`.

The refinement, under `RefinementConstants` (the bounds are numbers, and
epochs do not wrap within them), maps the collective of GvtEpochs, which is one
accumulator, to what the tree holds: `Parts` are the open sums of the ranks and
the messages of `rdxn_up` under way, each told apart by its place, and the
accumulator is their sums and their minimum.  A rank is undelivered if some
message of `rdxn_down` covers it.  `RefinementInv` adds to `Inv` what ties the
history to the code: a message under way is one that was sent and not received,
and the identity and the destination say which (`HistoryOK`); the result on
its way down is the one rank 0 has (`ResultOK`); times and epochs are within the
bounds (`WithinBounds`).  Then there is one lemma for each action:

* `SendMaps`, `ReceiveMaps`, `SpawnMaps`, `FinishMaps`, `AdvanceMaps` and
  `RecvDownMaps` are one step of the protocol each.
* A call of `rdxn_up` takes parts away and puts one with their sum and minimum
  in their place (`Gathering`), so `RecvUpMaps` is a stutter unless the root
  ends its sum, and `CollBeginMaps` is the protocol's contribution, which adds
  one part (`AddPart`) to them.
* When the sum is complete at rank 0, all ranks have contributed and no other
  part is left (`BringsEnds`), so the protocol's collective may end with the
  same sums: by `Complete` if the last part came in a message, by
  `CollBeginLast` if rank 0 was the last to begin (`ConclusionMaps`).

So what holds of the protocol by GvtEpochsProofs holds of the code: the last
three theorems instantiate it under the mapping.

### The barrier among threads

BarrierProofs proves of `Spec` of Barrier, for any number of threads and any
number of rounds that suffices for them (`ConstantsOK`), that it implements
ThreadBarrier (`BarrierIsImplemented`) and that `or_result` is exact
(`DisjunctionIsExact`).  MCThreadsProofs shows that every behaviour of
MCThreads is one of Barrier, so that the properties of the run are the ones
proved (`MCImplementsBarrier`, `MCOrExact`).

A flag that is set does not say by itself of which barrier it is: flags of
two phases are in use, those of the phase before are still being cleared, and
what a thread stores reaches the others late.  The stores of a thread are
therefore ranked, from the beginning of the barrier before its last one;
`BufferInOrder` says that its buffer holds a final piece of that sequence, and
`Drained` is the rank of the last that has arrived.  `FlagsTrue` says that a flag
seen set, once its owner's clearing has arrived, was stored by its setter in
the barrier it is taken for.  `HeardOf` says that a thread which has passed
`i` flags has heard of the `2^i` threads before it, that is, they have begun;
`Passed`, that the setters of those flags have come as far.  Doubling is the
step: with the flag of the thread `2^i` before comes what that thread had heard
of.  `OrInv` adds that each flag carries the disjunction of what the threads it
speaks for gave.

### One channel between two threads

SpscChannelProofs proves of `Spec` of SpscChannel, for any width of slots and
of counters that `ConstantsAssumption` allows and in all three builds,
`NeverLapped`, `CreditsEarned` and `NoStaleMessage` (theorems
`NeverLapsTheReader`, `CreditsAreEarned`, `NoMessageIsStale`).

The code has only numbers cut to some bits.  The invariant has a number `w`,
the wall if it did not wrap: the code's wall, slot and shadow are `w` and the
histories cut off (`Numbers`), and nothing is so far ahead that cutting loses
an order.  How far `w` may go depends on the build.  With acknowledgements,
what those in flight cover has been executed (`Acked`).  Without, the writer
hears nothing of the reader but the ends of epochs: `Lag` is the number of
epochs the reader may be behind, and what was published so many epochs ago has
been executed (`Credits`).  In the build by epochs the lists that no thread is
at are empty (`Rings`).  `Turns`, on which `Lag` and `Rings` rest, is what the
epoch barrier promises and BarrierProofs proves.

Two assumptions are made of the numbers: the slot has at least two bits fewer
than the counters, and the writer never is `2^(CounterBits - 2)` messages ahead
of what it has published (`MaxAhead`; the counters of the code have 32 bits,
so that would be `2^30` messages of one channel in memory at a time).  A build
with slots as wide as the counters has no wall and is not modelled.

### The list of messages of several writers

MpscChannelProofs proves of `Spec` of MpscChannel, for any finite number of
threads, any set of builds, any number of messages and any `MsgEpochs` from 3
on (`ConstantsAssumption`):

| Theorem | Says |
|---|---|
| `Invariance` | `Spec => []IInv` |
| `NothingFreedInUse` | `[]NoFreedMessage` |
| `ReadInOrder` | `[]InOrder` |

The memory shows a set of links, some missing and some of messages that may be
used again.  `IInv` says that behind them there is, for each rail of each
channel, one sequence that only grows: a witness `w` numbers its messages, and
four places divide it.  Up to `lo` the messages have been given back, up to
`at` executed, up to `cut` seen in this receive, and `end` is the last.
`LinksOK`: a link behind `at` is stored; ahead of it, it is stored or is a gap,
and each gap is of exactly one writer.  `StampsOK`: no message is at two places,
a writer's are in the order of sending, and those beyond `at` are all the ones
it has sent and the reader has not executed.  `PlacesOK` says which place each
variable of the reader stands for, in each build, and that the list is cut at a
new head only between what is read and what comes after.  `AgesOK`, for the
build by epochs: the arena of a message that is held has gone through few
enough epochs, counted by how far its writer is ahead of the reader, which is one
at most (`EpochsOK`, from what ThreadBarrier promises).  With `MsgEpochs >= 3`
nothing that is held expires (`ExpiredNotHeld`); with 2 it would.

`LeavesApart` and `LeavesOnce` carry most of it: a link belongs to one place of
one rail, so that an access to one rail leaves the others alone
(`UntouchedKept`).  For each action there is a lemma about types, one about the
rail it works on, and one that puts them together (`...Type`, `...Rail`,
`...Kept`); giving back is the same for the three places it happens at
(`Givable`, `GiveBackIs`).  `InOrder` is about what a walk along the links
finds, gaps mended: `ChainIs` shows by induction over the steps that the walk
finds the rail beyond `at`.

### The arena for messages

EpochAllocatorProofs proves of `Spec` of EpochAllocator, for any number of
epochs from 2 on, any capacity and any sizes (`ConstantsOK`), that what is given
out lies in the arena and apart from everything of the last `Epochs` epochs
(`MemoryKept`, and `MCNoOverlap` for the behaviours of the run `threads`).

`NoOverlap` speaks of blocks, the code only of edges.  `IInv` says what the
comment in `epoch_allocator.hxx` supposes: each epoch has a low region,
`lo[e]`, of its own (`LowOK`), and perhaps a high one, the regions are in order
and the present one ends at `bump` (`EdgesOK`), and each block lies in one of the
regions of its epoch (`BlocksOK`).  `FreeBeforeWall` and `FreeBeyond` then say
that the two places allocations are made at are free.  In `bump_epoch` a block
that stays is followed through the three changes of the edges (`ClosedEdges`,
`LoweredEdges`, `ShiftedEdges`): the edge that goes belongs to the epoch that
expires or to none, and what lay above it is one region further down, which is
what the new numbers in `lo` say (`LowRenumbered`).

### Before the proofs

Each inductive invariant was given to TLC first: that of Barrier with 2 to 5
threads; that of MpscChannel on the builds of its run (256,124 states), with the
witnesses of the rails computed from the links; that of the channel on all the builds of the run (675,485 states); Inv
of GvtInvariant on the instances of `gvt_code` (154,295 states) and `gvt_tree`
(39,872 states), with the numbers in `Units` of NumberFacts bounded; the other
parts of `RefinementInv` on that of `gvt_refinement` (78,065 states); that of
EpochAllocator with a capacity of 8 grains (555,512 states).  Induction
is a fact about sets of numbers in NumberFacts (`Induction`, from the least
element of a set), because theorems with an operator parameter cannot be used.

## 5. What is only model-checked, and what is not modelled

Only model-checked:

* Liveness, everywhere (`ReachesEnd`, `Terminates`, `EndsEvery`, `AllExit`,
  `Delivered`, `ProgressReturns`): the proof system has neither fairness nor
  ENABLED.
* The liveness of the coded GVT in particular is not carried over from
  GvtEpochs: `GvtImplementsEpochs` is about steps only.
* The engine (Pdes).  Its invariants are about what a rollback has undone when
  its recursion through the cds ends, and about replays of a past of any
  length: facts by induction over data, for which the prover has no rule.
* The parts of the run `parts`.  The containers, the arenas and the heap of
  pools have RECURSIVE operators, in whose presence the prover cannot be used;
  Collectives, Bundles and Opnew compute with folds over sequences (the tokens
  of an answer, the items of an AM, the objects of a bin), whose results for
  every sequence are again induction over data.

Simplifications in the modules:

* The two reducible sums of a collective are one.  A broadcast to the ranks of
  a process counts as one step per rank at the receiver and one at the sender.
* In Gvt, Pdes and Collectives messages are executed exactly once, in any
  order, without bound on their delay.  That channels and bundles deliver
  so is what SpscChannel, MpscChannel and Bundles show; the modules are not
  composed further than that.
* Pdes leaves out statistics, `register_state` with `check_state` and the
  checksums of DEBUG builds, and takes the fridges of a cd as one image of its
  state.  `static_look_dt = 0` is not among its windows: no event would be
  executed.  It does not compare two executions with each other.
* Bundles has one sending process, so that a receiver finds the parts of a
  message by their nonce alone; that the key has the sender in it too is not
  put to the test.
* SpscChannel has one channel; `receive_batch`, `destroy` and the sharing of an
  array of slots by channels are left out.  Barrier takes the store order of
  x86.  MpscChannel leaves out `destroy` and the reset of a list at an epoch
  that the code has for one reader per channel (`message_mpsc.hxx:346-352`).
* EpochAllocator: an allocation beyond the last edge is not compared with the
  capacity by the code except in an assertion; the module does the same, and
  its allocations are those for which there is room.
* `increase_all_less` of the heap and the heap's own growth by `realloc`, the
  iterations over containers, huge objects (which go to the C library), the
  debug checks of the allocator and its builds over libc or jemalloc are left
  out.  Opnew assumes that a pool has at least two objects, which SizeClasses
  shows of the real sizes.
* ArenaTree: `arena_create` takes its first blob without telling the
  tree.  The tree then promises too much until the next repair.  That is
  harmless because an arena has at least twice the largest request
  (2042 pages, 128 of them at most); with less, TLC finds a request sent to an
  arena that cannot serve it.

Not modelled: formatting of statistics (`datarow`), environment variables,
diagnostics, random numbers, the vendored serialization of UPC++, the build
tool, benchmarks and examples have no protocol of their own; start-up of
GASNet and the registration of its handlers are calls of an external library.

## 6. Findings

* `pdes_ties` (`pdes.cxx:608`): while a rollback extends what has to be undone,
  it compares the event to remove with the deepest one already taken by `<`.
  With equal stamps it may stop one short, and an event whose sender has been
  undone stays in the past, flagged for removal.  `pdes.hxx:683-689` says that
  with equal stamps only determinacy is lost.
* `pdes_rewind` (`pdes.cxx:1201`): after a rewindable `drain` that pauses,
  `rewind(false)` frees the events it holds that have run, and forgets those
  that have not: they stay in the future with the flag `rewind_root`, and
  those another rank created are not put back among `sent_near`.  Nobody frees
  them any more, and "Events have been leaked!" (`pdes.cxx:1116`).
  `test/phold.cxx:180-197` calls the engine in this way.
* `mpsc_leak` (`message_mpsc.hxx:202`): when `reclaim` gives up at the fourth
  message it must keep, it takes the link to that message for the end of the
  list.  The next `send` overwrites it, and the messages beyond are never
  freed.

Four observations have no run.

The `if` of `threads.cxx:168`.  When `pthread_cond_wait` returns to a worker
without a signal (POSIX allows it, and asks for the condition to be tested
again) the worker stores `run_epoch`, calls the old `run_fn`, a reference to a
closure of a `run` that has returned, and hands the signal on.  Say
`\A p \in Procs : \A t \in Workers : ran[p][t] <= runs[p]`, or
`<>(part = "program" => Exited)`, and TLC refutes both with the instance of
`threads`.  In the first trace worker 1 waits while the others are still in
the barrier at the end of run 1, comes back, and has executed two jobs in a
program that has called `run` once.  In the second it comes back after the
last run, enters the barrier among workers, and stays there: `shutdown` takes
the other worker out of the pool.  What the code's users rely on is, for
instance, that `test/send_vlen.cxx:110-113`, which runs four times, has four
rounds.

`finalize()` after a `drain` that may rewind, without `rewind` between them,
which `pdes.hxx:95-97` rules out but `finalize` provides for
(`sim_me.has_rewind`).  If that `drain` began with an event in its future that
another rank of the process had sent before a pause, the one rank reads
`created_here` of its roots (`pdes.cxx:1099-1102`) while the other deletes
what it has sent (`pdes.cxx:1103-1104`); `rewind` has a barrier between the
two (`pdes.cxx:1220-1221`).  The job
`Job(OneProcess, ShortRoots, Open, <<Plain(3), Leave(Inf)>>)` of MCPdes violates
`NoDangling` in this way.

Root events without `subtime()` take the local index of their cd as their
stamp and sent events a number counted from the global index (`pdes.hxx:907`,
`pdes.cxx:332`), so on a rank other than 0 the two can be equal although times
increase strictly; the order of commits then depends on the schedule.

`rewind(true)` deletes the list of far sends of a root that has run without
resetting the pointer (`pdes.cxx:1185-1186`).  When the event runs again it gets a new list, as in
the jobs of run `pdes`; if it is deleted before, its destructor
(`pdes.hxx:409`) deletes the old list once more.  The job
`Job(OwnProcess, ShortRoots, Open, <<Back(3)>>)` of MCPdes, which is `drain`,
`rewind(true)`, `finalize`, violates `NoLeak` in this way.

## 7. What could follow

1. Proofs about Collectives (`AnswersExact` for any number of ranks, with the
   subtrees of GvtInvariant).
2. Several spsc channels that share an array of slots, with `receive_batch`.
3. `progress()` of `world_gasnet.cxx` composed with Bundles and the channels,
   so that a wait for room in a channel and a wait in a barrier meet.
