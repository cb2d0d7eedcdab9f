# RustTorch: formal models

RustTorch is a Rust layer over libtorch: tensors, layers, optimizers, a
PyTorch-style data loader, process groups, checkpoints and deployment formats.
This directory holds TLA+ models of the parts whose correctness rests on
protocols rather than on arithmetic, the TLC configurations that check them on
small instances, and TLAPS proofs for instances of any size. The models are
translated from the source; line references are to `src/`. Paths below are
relative to `crates/rusttorch-data/src/` unless they say otherwise.

## The system

| Part | State | Operations | Talks to |
|---|---|---|---|
| Map loader coordinator (`loader.rs`) | the iterator: next_submission, next_visible, outstanding, pending_submission, reassembly map, flags | `iter`, `next`, drop | pool: bounded task lanes, one results channel |
| Map worker pool (`worker.rs`) | threads, control and task channels, shutdown token, active generation, poisoned | start_generation, submit, receive, quiesce, poison, shutdown; run_worker, run_generation | coordinator, byte budget, token |
| Byte budget (`memory.rs`) | used, next_ordered, waiters, cancelled, a condition variable | acquire, acquire_ordered, permit drop, cancel | shared by workers and coordinator |
| Cancellation and deadline (`worker_context.rs`) | a sticky flag, an optional instant, a condition variable, a disconnection channel | cancel, arm, disarm, waits | everything above, and user code |
| Exact map checkpoint (`worker_checkpoint.rs`, `loader_checkpoint.rs`, `checkpoint.rs`) | per-worker snapshot rings, apply and collect channels, boundary errors | submitted, committed, defer_error, rollback, resume | pool hooks, coordinator |
| Stream loader (`stream.rs`) | per-worker credit channels, shard positions, waiting and terminal messages | next, account, return_credit, quiesce | stream workers, byte budget |
| Exact stream checkpoint (`stream_checkpoint.rs`) | per-worker journals of read attempts, command and credit channels, the committed boundary, generations | `iter`, `next`, `checkpoint`, resumed `build`, drops; Apply, Begin, Rollback in a worker | its own stream workers, user sources and transforms |
| Samplers (`sampler.rs`) | epoch, position, permutation | iter, set_epoch, checkpoint, resume | loader plans |
| Process group (`src/distributed/process.rs`) | rank, sequence, sends, receives, one stream per peer, failed | accept, connect, collectives, send, recv, abort | other ranks over TCP |
| Distributed training (`src/distributed/training.rs`) | replicas, gradient buckets, optimizer | backward_step, train_step, checkpoint | process group, optimizer |
| Gradient scaler (`src/amp.rs`) | scale, growth tracker, phase | scale, unscale, step, update | optimizer |
| Optimizers, schedulers (`src/optim*`) | moments, step counts, learning rates | try_step, load_state_dict, step | parameters |
| Training checkpoint (`src/checkpoint.rs`) | files | save, restore | file system |
| Computation graph (`src/graph/mod.rs`) | nodes, inputs, outputs, specifications of shapes | builder calls, finish, execute | libtorch |
| Datasets, collation, pinning, limits (`dataset.rs`, `collate.rs`, `pin_memory.rs`, `memory.rs`, `limits.rs`, `lib.rs`) | the borrowed loaders' position | `get`, `random_split`, `collate`, `pin`, footprints | loaders |
| Loader builders (`loader.rs`, `stream.rs`) | the options given so far | option calls, `build` | every loader |
| Profiler (`src/profiling.rs`), noise (`src/reproducibility.rs`) | events and thread numbers; a stream counter | span, drop, trace, clear, benchmark; draw, save, restore | threads that share it |
| Portable programs (`src/deployment/mod.rs`) | a program, its storages and the state that views them | validate, `from_graph`, `new`, `run`, `infer_specs`, `to_device`, `trace` | computation graph, libtorch |
| Autograd, file formats, layers, CLI, domain crates | tensors, files | numerical and parsing code | libtorch, file system |

The hard behaviour is in the data crate. A coordinator thread and its workers
share bounded channels, a byte counter with a condition variable, a
cancellation flag and a deadline, and a persistent pool reuses threads between
iterators: interleavings, lost wake-ups, stale work of an earlier generation,
cancellation in the middle of every step, deadlines that two threads see at
different times, panics. In the process group it is partial failure: one rank
has a response another never got. In checkpoints it is a crash between two
file-system steps, and rollback past work that ran ahead. `PROJECT.json` lists
each hazard at its line, with the properties that watch it.

What makes each part correct:

- *map loader*: every batch of the plan is yielded once, in plan order if the
  loader is ordered, or one error is; credits, batches and permits are neither
  lost nor duplicated; generations never mix; every call returns;
- *byte budget*: never over the limit, exact accounting, no lost wake-up,
  admission in order, no admission after cancellation, every call returns;
- *token*: sticky, no lost wake-up, no lock cycle;
- *exact checkpoint*: replay continues at the first batch not yet yielded, with
  the transform state that batch first saw;
- *streams*: credit conservation per worker, order within and across shards,
  termination;
- *datasets, collation, builders*: no sample is lost, moved or given to another; what is built can
  run and is what was asked for;
- *sharded checkpoints*: cutting and joining lose nothing, for any number of ranks, and what cannot be
  joined is refused;
- *profiler, noise*: a trace has every region once, ended as it did; no two draws share a stream, and a
  restored generator goes on where it was;
- *samplers*: shards are disjoint, equal and cover the data set; batching keeps
  every index;
- *process group and training*: all ranks see the same result or all see an
  error; replicas stay equal;
- *computation graph*: what is inferred of a shape holds of the tensor computed, and a finished
  graph runs in an order that gives every value its meaning;
- *portable programs*: a valid program never reads a name without a value, a lowered graph does what the
  graph does, what an export proves of a shape holds, state keeps its elements and its sharing;
- *scaler, optimizers, training checkpoint*: phases alternate, a failed step
  changes nothing, a crash leaves the old or the new checkpoint.

## The modules

| Module | Models |
|---|---|
| `ByteBudget` | `memory.rs`: `ByteBudget` and `BytePermit`, with the workers that call it |
| `BatchDelivery` | the abstract promise of a loader: an iterator yields its plan, or part of it and one error |
| `MapLoader` | `loader.rs` and `worker.rs` together: coordinator, lanes, results channel, workers, generations, tokens, deadline |
| `Cancellation` | `worker_context.rs`: `CancellationToken` and `Deadline`, with the threads that share them; extends `TokenParameters`, the constants |
| `WorkerRunContext` | `worker.rs`: `WorkerRunContext`, the budget and the token of one generation composed; extends `ByteBudget` |
| `Collectives` | `src/distributed/process.rs`: `evaluate`, what rank 0 computes from one request per rank |
| `Agreement` | the abstract promise of collectives: one outcome of everyone's requests, or the rank stops |
| `ProcessGroup` | `src/distributed/process.rs`: collectives, `send`, `recv`, `abort`, streams and deadlines; extends `Collectives` |
| `Rendezvous` | `src/distributed/process.rs`: `accept` and `connect`, from the first connection to the closing barrier |
| `GroupSession` | the two composed: processes meet, and the group they form runs its calls; extends `ProcessGroup` |
| `DistributedTraining` | `src/distributed/training.rs`, with `try_step` of `src/optim/stateful.rs`: the public calls as sequences of collectives, over `Agreement` |
| `Samplers` | `sampler.rs`: the five samplers, their lengths and cursors, and the three batch plans, as operators |
| `ExactLoader` | `loader_checkpoint.rs`, `worker_checkpoint.rs`, `checkpoint.rs` and the exact paths of `loader.rs` and `worker.rs`; extends `Samplers` |
| `StreamLoader` | `stream.rs`: the coordinator, the workers, credits, reassembly, the byte budget's admission, the deadline |
| `ExactStream` | `stream_checkpoint.rs`: the exact iterator, its pool and its workers, the barrier, and the processes that resume |
| `Schedulers` | `src/optim/schedulers.rs`: four schedulers, as operators |
| `Training` | `src/amp.rs`, `src/optim/stateful.rs`, `src/checkpoint.rs` together in a program that trains, saves, dies and resumes; extends `Schedulers` |
| `Graph` | `src/graph/mod.rs`: the builder, inference of specifications, validation, the two passes and the eager executor, as operators |
| `MCGraph` | what is checked of `Graph`, as assumptions; `MCDeployment` extends it |
| `Deployment` | `src/deployment/mod.rs`: validation, lowering, evaluation, inference for an export, views and state, as operators |
| `MCDeployment` | what is checked of `Deployment`, as assumptions; `MCTraining` extends it |
| `Data` | `dataset.rs`, `collate.rs`, `pin_memory.rs`, `limits.rs`, footprints of `memory.rs` and the borrowed loaders of `lib.rs`, as operators |
| `LoaderBuilder` | the builders in `loader.rs` and `stream.rs`: option calls, validation, `build`; extends `Data` |
| `Shards` | the portable optimizer state of `src/optim/stateful.rs`, `ShardedCheckpoint` and `ConsolidatedCheckpoint` of `src/distributed/training.rs`, as operators |
| `Profiling` | `src/profiling.rs`: the recorder, its guards, `benchmark`, as operators |
| `Reproducibility` | `src/reproducibility.rs`: `TensorRng` and `RuntimeConfig`, as operators; extends `Data` |
| `MCData`, `MCLoaderBuilder`, `MCTools` | what is checked of `Data`, `LoaderBuilder`, and of the last two, as assumptions; `MCStreamLoader` extends the first two, `MCWorkerRunContext` the last |
| `MCWorkerRunContext`, `MCMapLoader`, `MCProcessGroup`, `MCDistributedTraining`, `MCExactLoader`, `MCStreamLoader`, `MCExactStream`, `MCTraining` | values of the constants for TLC; the exact loader's, the training one and the one of `DistributedTraining` (for `Shards`) also check pure operators by assumptions |
| `ByteBudgetProofs`, `MapLoaderProofs`, `StreamProofs`, `WorkerRunContextProofs`, `ProcessGroupProofs`, `RendezvousProofs`, `DistributedProofs`, `TrainingProofs` | theorems |

### ByteBudget

The variables `used`, `nextOrdered`, `waiters`, `cancelled` are `BudgetState`;
`call[s]` is where the acquisition for batch `s` stands. The mutex makes a
critical section one step: `Reject`, `Admit` and `Park` are the three ways
through the loop body of `acquire_inner` (184-219), `Release` is the permit's
drop, `CloseBudget` is `cancel`. `Condvar::wait` releases the mutex, so a parked
call is woken in one step (`NotifyAll`, `SpuriousWake`) and looks at the state
in another. `Enter` encodes who calls: the worker of `s` asks for `s` only after
`s - Workers` was admitted.

### Cancellation

`cancelled`, `deadline`, `senderDropped` and `waitLock` are the fields of
`CancellationState`; `now` is the monotonic clock, `pc[t]` and `op[t]` the call a
thread is in. Here the mutex is a variable, because the flag is also read without
it (`Call`, `Reread`) and because a wait's check, its park and its re-acquisition of
the lock are what the module is about: `Lock`, then `Check` and `Park`, or one of the
returns. `CancelSwap` and `CancelAnnounce` are the two halves of `cancel`: between them
the flag is visible and nobody has been woken. `Arm` computes the instant with
`checked_add`, so a timeout past `MaxInstant` has expired at once. `Wakes` is a spurious
wake-up, `TimerFires` one that is due; a sleep may end late, never early. `MapLoader`
uses this abstraction: a flag and a deadline that is off, armed or expired. `armed` is a
history variable: what the callers of `arm` and `disarm` asked for, to which the deadline is
compared. Not in the module: `WorkerInfo`, seeds and the thread-local worker scope.

### WorkerRunContext

A generation's budget and token are separate objects with separate locks; the run context holds
both (`budgeted` says if there is a budget) and `cancel_with_hook` (`worker.rs:160-166`) is the one
place that touches both. `BudgetStep` is a step of `ByteBudget`, whose `Cancel` and
`CancelOnError` are the first half of it; `RunCancels` begins the second half, on the token, when the
budget is closed. Between the halves, and between the steps of the token's own `cancel`, any thread may
do anything. `worker_context` hands a clone of the token to user code, which may cancel it alone
(`UserCancels`): that such a generation still grants bytes is what the code does, and
`userCancelled` remembers it.

### MapLoader

`cpc` says where the coordinator is: `out` of an iterator, `fill`ing lanes, at
the try_send of a `submit`, at the `user`, in `next`'s loop, in `recv`, in
`quiesce_inner`, in the `join` of shutdown. `wk[w].pc` says where a worker is:
`spawn`, `idle` at its control channel, `poll`ing its lane, at `work` in user
code, at the byte budget, at a `send`, on the failure path (`report`, `failed`,
`closing`), in the `drain` loop, about to send `quiesced`, and `die`, `dead`,
`exited`. The other variables carry the names of the fields of
`WorkerLoaderIter` and `WorkerPool`.

- *iter*: `IterNewPool`, `IterReusePool`, `IterWithError`;
- *fill_available, submit_one, try_submit, WorkerPool::submit*: `FillDone`,
  `FillSourceEnds`, `FillSourcePanics`, `FillClosed` and `FillCheck` (the test of the
  token), then `Submit` or `SubmitFull` (the try_send). The test and the send are
  two steps because workers run between them;
- *next, publish, map_failure*: `NextPendingError`, `NextStarts`,
  `NextFromCompleted`, `NextEnds`, `NextWaits` and the `Recv` actions;
- *stop_inner, quiesce_inner, poison, shutdown, the drops*: `Stop`,
  `QuiesceReceive`, `QuiesceEnds`, `JoinEnds`, `DropIter`, `DropLoader`;
- *run_worker, run_generation*: the `W` actions.

What is merged and why it is safe: taking a task and the `check` after it are
one step, since nothing else reads the worker in between; the coordinator's
cancellation of the budget and of the token is one step, since only the
coordinator waits on its outcome (a worker's own cancellation, which races with
its siblings, is two: `WCloseBudget`, `WCancelGeneration`); the reassembly map is
cleared when the iterator stops rather than after it has waited, which nobody
can see because the budget is already cancelled; transforming the samples of a
batch one by one is one `work` step, whose possible results are those of any
prefix. With a byte budget a batch weighs one byte: sizes and waiting are
`ByteBudget`'s subject. A generation number is also the identity of its token
and its budget. Sending into a channel whose receiver is gone counts as seeing
the shutdown signal, because shutdown does both.

Not in the model: the serial path, the pinning of a batch on its way, the checkpoint hooks and strict
quiescence (`ExactLoader` has the last two), failures to allocate or to spawn, counters reaching 2^64, and the
`Closed` results, which need every worker to be gone while the iterator lives
(a worker leaves only after the shutdown token, even when it panicked). User code
always returns: the code documents that it cannot force a callback to stop.

### Collectives and ProcessGroup

`Evaluate` is `evaluate` with the error responses `call` builds from its failure: the
working-set bound, the agreement of sequence and operation, the count and kind of
tensors, then one branch of `Tensors` per operation. A tensor is one element with a
shape and a floating flag, because every reduction is elementwise; values are multiples
of `World`, so that the mean is exact.

`failed`, `sequence`, `sends` and `receives` are the fields of `ProcessGroup`, one entry
per rank; `wire[r][q]` holds the frames from `r` to `q` on their stream. A collective is
`CallCollective` and then, on rank 0, `GatherRead` per peer in rank order, `Answer`,
`Reply` per peer in rank order and `Replied`; on another rank `ResponseRead`. `CallSend`
and `AckRead` are `send`, `CallRecv` and `PointRead` are `recv`. `Fail` is `abort`, which every
error reaches through `finish`: the streams close, and what others wrote is not read
any more. `Disconnected` is the other side of that, and may also strike while frames are
still on their way, as a reset does. `TimesOut` is a deadline, a frame too long to be
encoded, or the death of a process; each leaves a rank that will not speak again.
`asked`, `done`, `sent` and `got` are history for the properties.

Merged: a frame is written and read in one step (a torn frame is a lost one followed by
a close), and a write is buffered and never waits for its reader; waiting would end in
the same read or in the deadline. A collective is given as the request it makes, so the
public methods differ only in their operation; `agree` is a barrier that may carry an
error and `identical` a byte gather with a comparison. Not in the model:
`set_timeout` and JSON. `ProcessGroup` begins after collective 0, the barrier that ends the rendezvous.

`Agreement` is what a user of collectives may rely on: the n-th collective takes one request
of every rank, its outcome is a function of those requests, and a rank receives its part or
stops for good. `ProcessGroup` implements it (`ImplementsAgreement`), with `Accepted` and
`Evaluate` for the outcome and the closing barrier of the rendezvous left off.

### Rendezvous and GroupSession

`Rendezvous` has one state machine per process, started with the rank it claims and with settings
(version, world, session, message limit: what `check_hello` compares). Process 0 runs `accept`: per
connection `Accept` and `HelloRead`, then `CollectAddresses`, `TellAddresses` in rank order, and rank 0's
side of the barrier (`Gather`, `Reply`). Another process runs `connect`: `Dial`, `Greet` and
`AddressesRead` with rank 0, `Dial` and `Greet` with each rank above its own, `Accept` and `HelloRead`
for each below, then `EnterBarrier` and `ResponseRead`. A listener queues connections before they are
accepted (`backlog`), and `connect` is retried while nobody listens. A process that fails, by an error or its
`Deadline`, closes its listener and its streams; one that joins closes its listener, and with it the
connections it never accepted. A process stands for its address.

`GroupSession` composes the two modules: each step is one of the rendezvous, or, once every rank has
joined, one of `ProcessGroup`. A rank that joins earlier and calls at once finds the same streams and no
rank beyond the barrier, and a rank that fails between the barrier and its first call is one that aborts
first.

### DistributedTraining

Every public call of `DistributedDataParallel` and `ShardedTrainer` is a sequence of
collectives with local work before each: `BackwardStep`, `TrainStep` and the others list
them in the order of the code, each named for the local work it concludes. `Work` does that
work and enters the collective, which carries the work's error; `Receive`, `Error` and
`Finish` are its outcomes and the return of `Ok`. `LeaveEarly` is a `?` between two
collectives: the call is over and the group is not, so that rank's next call meets the others
in the middle of theirs. On the wire all agreements on a status are barriers (`Operation`);
the model keeps that, since it decides which mistaken pairings go unnoticed. `asked`, `done`
and `stopped` are `Agreement`'s, whose actions are used as they are.

Tensors are what was averaged into them: a gradient is a set of contributions, each with its
rank and step; weights and moments are the updates applied since a base. `Settings` is
`distributed_configuration`, whose step counts are the part that may differ between ranks. A
shard is its rank's entry. `NewSession` begins a new group once everyone has lost the last:
replicas keep their stores and optimizers, sharded trainers start again from a record or from
initial weights. Each session has a name of its own, as `checkpoint_id` asks.

Not in the model: `sync_buffers`, `restore_full`, a failure in the last tensor copies of `try_step`
(the tensors are on the CPU), gradients undefined on some ranks, and a trainer used with a group
that is not its own. The padding and cutting of shards is `Shards`.

### Samplers

A sampler is a record of its configuration, and `Samplers` computes the indices of an epoch,
the exact length, and the cursor at a position. `Permutation` and the weighted draw stand for
the random generator: some fixed, valid choice per seed, which is what the code relies on. The
assumptions of `MCExactLoader` compare each sampler with a reference over every small instance:
shards of a distributed epoch are equally long, and together they are the data set, padded with
its own beginning or cut; draws without replacement do not repeat; a weight of zero is never
drawn; the batch plans keep every index and drop only a short tail; a cursor at any position
yields the rest of the epoch.

### ExactLoader

`call` is what the caller's thread is in; `it` the iterator's fields; `lanes`, `controls`,
`commands`, `acks`, `replies` and `results` the channels; `worker` the threads, each with its
lane of snapshots. The state of a stateful transform is the sequence of what it was applied to,
so that a snapshot of a wrong moment differs from a right one; a batch that was given up half
way leaves its trace (`"part"`). `checkpoint()` is the sequence of the code: ask every lane to
roll back to the visible boundary, wait until the generation is quiet by the strict rules of
`checkpoint_quiesce`, collect the answers, assemble the state, begin the next generation from
the boundary. `Die` ends the process at any step and a later one builds a loader, with the same
or another configuration, from the last state saved. User code fails, panics, cancels or refuses
a snapshot at any of its calls (`Scenarios` says how often). Serial and worker execution share
the boundary policy, as in the code. The dataset's and the collator's own state follow the same
path as the transform's; the envelope's versions and identities are compared values.

### StreamLoader

A worker holds a credit, reads a record of its shard, is admitted by the byte budget in
sequence order if there is one, sends, and begins again; the credit is with the worker
(`held`), with a completion (`holds`), with a buffered record or in its channel. `next` is
`NextBegins`, then `NextTakes` while a record is in turn, `NextReceives` and the error returns
in the order of the code; `Close`, `QuiesceReceives`, `QuiesceEnds`, `JoinEnds` and the two
drops end an iterator. The results channel is bounded and a send to it waits. The timer of the
deadline is a step of its own (`Expire`): both `next` and the workers see it, in either order.
The factory's shards are part of the configuration: sound ones, and ones with a gap, a
duplicate, no numbers, falling numbers or a record above the limit. Branches of the code that no
interleaving reaches in the model are its defensive ones (more credits than the capacity, a
completion of another generation).

What merging hides: reading and transforming a record are one step; `cancel` of the generation
and of its budget are one, since in `close` nobody reads in between. Left out: the memory
estimate of `validate_stream_capacity`, pinning, and `set_epoch`, a number handed to user code.

The model shows two things a reader of the code should know.

1. *A timeout may look like an end.* A worker whose `check` meets the expired deadline
   (`worker_context.rs:377`) sends an end of its shard by itself, and the results channel is read
   before the timer, so `next` can return `None`, a short batch or a protocol error for an
   expired deadline. `DeliveryExact` excuses an interrupted iterator for that reason; the test
   `tests/stream_workers.rs:881` expects a timeout.
2. *A gap can stall an ordered stream* (`stream_gap_hang`, below). `CallsReturn` names that one state,
   `StalledBehindGap`, as its exception, and the configurations of `stream_loader` have it.

### ExactStream

`stream_checkpoint.rs` has workers, credits and a reassembly buffer of its own, without deadlines,
byte budgets or persistent pools, so the module stands alone. `worker[w].pc` says where a thread is:
at its `commands`, at its `credits`, to `read` in user code, to `send` a completion, `dying` of a
panic, or `gone`. `WApply`, `WBegin` and `WRollback` are the three commands; `WAttempt` takes a
credit, reads the boundary and journals the state of source and transform; `WReads` and `WEnds` are
the outcomes of the attempt. `WQuit` is a select that the cancellation wins.
`call.at` says where the caller's thread is: outside (`loader`), with an iterator (`user`), in
`begin`, in `next`, sending the `rollback`, to `collect` acknowledgments, or in the `join` of a
dropped pool. `it` and `loader` have the fields of the iterator and of the loader; the functions
of the code are the actions `Checkpoint` to `CollectEnds`, and `NextBegins` to `NextShows` in the
order of `next`'s returns. `Restart` is the death of the process at any step, followed by `.resume()`
with the state saved last; `Accepts` is what `build` requires of that state.

A shard is the sequence of its records' numbers; the state of a source is how many it has read,
of a transform how many it was given, of the collator how many batches it made, so a sample says by
which states it was made. User code may fail at every read, transform, collation and restore, panic, or
refuse a snapshot. `upset` remembers a panic or a refusal. A cooperative source ends early when
it sees the cancellation, or reads on. Not in the model: failures of the factories inside `build` (`IterFresh` has
those inside `iter`), the capacity estimate, pinning, and identities and versions of the envelope.

Two more things a reader of the code should know.

1. *Exhaustion is a boundary.* `stream_checkpoint.rs:1076` and the crate's `README.md:610` say that
   a request after observed exhaustion or a hidden dropped tail is rejected; `next` leaves
   `boundary_valid` there (1250-1252), and the request is served. The state is sound: a
   process that resumes from it ends, or drops the tail, again.
2. *The last generation.* `rollback` may move to generation 2^64 - 2, whose state `build` refuses
   (line 823). `OnlyUserFails` allows for it.

### Schedulers and Training

`Schedulers` is `StepLr`, `ExponentialLr`, `MultiStepLr` and `ReduceLrOnPlateau`: the state that
serde saves and the rates a `step` leaves in the optimizer. A rate is a natural number and the
factor divides it. The assumptions of `MCTraining` compare the rate after n epochs with its closed
form for the first three, and check of the plateau scheduler, over every sequence of six metrics of
three values, that rates never rise nor fall below their minimum, that reductions are further
apart than patience and cooldown, and that none follows within the patience of an improvement.

`Training` is a program that does what the documentation of the three files asks: clear, scale,
backward, step, update, and step the scheduler after an epoch. In the middle of an update it may
call the scaler in any order with any of its optimizers. `store` has the parameters with their
gradients, `opt` the fields of `Optimizer`, `schedule` the scheduler, `scaler` the `GradScaler`.
A parameter's value is the sequence of updates it got, each with the batch, the microbatches, the
rate and the power of two its gradient is still multiplied by; a moment is the sequence of batches
it saw. `Synced` is `sync_parameters`, which nearly every call of the optimizer begins with.
`Step`, `StepFails` and `UnscaleTears` are the outcomes of `GradScaler::step` and `unscale`:
an error of `try_step` while it stages leaves the phase unscaled and changes nothing else, a
copy to the device that fails half way leaves some parameters changed. `SaveBegins`,
`SaveCreates`, `SaveWrites`, `SaveSyncs`, `SaveLinks` and `SaveEnds` are the stages of `save`,
between which the process may die (`Crash`), the machine may lose what was not flushed
and any directory entry (`save` does not sync the directory), and another program may take the
path. `Restore` is `read`, `restore` and the application's loading of scheduler and scaler.

`torn` remembers a copy that failed half way. The documentation of `try_step` and `restore` makes
no promise after it, and none holds: a repeated `unscale` divides some gradients twice, a repeated
`step` advances a parameter's counter past `completed_steps`, after which `save` publishes a
checkpoint that `restore` refuses. Not in the model: the update formulas, gradient clipping, the
setters of rates and decay, the cosine schedule, relative thresholds, malformed archives and
size limits, and sharded optimizer states.

### Graph

`Graph` has no state: a builder, a finished graph and a run are records, and a call maps one to the
next or to none. `Call` is a method of `GraphBuilder`, with what it checks (`CallSpec`) and infers
(`InferNode`); `Finish` is `finish`: validation, `DeadNodeElimination`, `ShapePropagation`,
validation; `Execute` is the eager executor, whose operations (`Shapes`, `Promoted`) stand for
libtorch. A tensor is its shape, its kind and the term that computed it.

The assumptions of `MCGraph` take every specification of up to three dimensions, known, symbolic
or dynamic, and every tensor that matches it (`UnaryInferenceSound`, `BinaryInferenceSound`,
`ConcatInferenceSound`, `KindsSound`): what an inference claims of a result holds of it, and what it
refuses, libtorch refuses. They also take every graph of at most four calls: `FinishAccepts` says that `finish`
takes each that has an output, keeps just what the outputs are made of, and finds
nothing new; `ExecutionMeans` that a run fails only by its inputs or an operation on them, and that
each value is what its node means, and is as its specification says. Every one was seen to fail when an
inference, the order or the elimination is broken.

Three things met on the way. A kind declared of one input only is claimed of a binary result,
although libtorch may promote it (`KindsSound` therefore takes both declared, or none).
`infer_flatten_spec` refuses a scalar, which libtorch flattens. An input that no output needs must
be supplied, but is not validated. Not in the model: devices when it runs, signatures and dumps, the text of errors.

### Deployment

`Deployment` is made of operators too. `Validated` follows `Program::validate` with its shared count
of nodes; `FromGraph` lowers a finished graph of `Graph`; `Evaluate` is `evaluate` and `execute` behind the
guards of `CheckInputs`, conditionals included; `InferSpecs` is `infer_specs`, one `Proven...` operator per
kind of operation; `NewArtifact`, `FromArtifact` and `Snapshot` are `Model::new`, `from_artifact` and
`snapshot`, over storages that views share. What libtorch returns of an operation (`ResultShapes`,
`ResultKinds`) is external. The assumptions of `MCDeployment`:

- `GuardsMean`: the guards accept just the tensors whose shapes are as declared for some sizes of the symbols;
- `UnaryProofsHold`, `BinaryProofsHold`, `BatchProofsHold`, `BiasProofsHold`: where `infer_specs` knows a
  result's shape, the operation succeeds on every input that passes the guards, sizes of zero included, and
  its result has that shape with the same symbols;
- `ProgramsSound`: of 29,952 small programs, with and without conditionals, the 3,888 valid ones find
  every name they read, in the branch taken too; a conditional gives what it declares; what is inferred of a
  whole program is so;
- `LoweringMeans`: for every graph of `MCGraph` that can be lowered, the program is valid and does
  what the graph does; unlike the executor it has guards for inputs that nothing uses;
- `ViewsSound`, `ContiguousViews`: a view that is accepted has distinct cells within its storage;
- `StateKept`, `MovedStateKept`: state of tensors that are alive together is copied with its sharing, and
  survives a move after it was written to.

A broken guard, bound, key or order in the operators was seen to fail one of them. Three defects of the code
met on the way. `infer_specs` takes a permutation of fewer axes than the operand has dimensions, which
libtorch refuses when the program runs; `UnaryProofsHold` therefore asks for as many. It gives the result of `Sigmoid` and
`Tanh` the kind of an integer operand, where libtorch returns floats; the assumptions infer over floats only.
And `Model::new` knows a tensor by its address, shape and strides, while it drops each tensor before it
asks the iterator for the next: an iterator that makes tensors one at a time can have the second one at the address
of the first, and its elements are then silently the first's (`FreedStateMixed`). Not in the model: devices, overflow,
the contents of JSON, PT2, ONNX and zip files.

### Data and LoaderBuilder

A dataset is a record: rows of the user's, tensors, a stack, a concatenation or a subset; `Get` follows
`get` through them, with the errors of a row. A structured value has a tag and its parts, so that
`Collate`, `Pin` and `ResidentBytes` recurse as the code's implementations do. The assumptions of `MCData`
say that a concatenation has its children's samples one after the other and a stack aligns them;
that a random split is a partition, with the lengths asked for and the remainder to the first; that the
borrowed loaders yield the chunks of any source and nothing after an end or an error; that
collation keeps every sample at its place or fails because two differ in kind; that pinning reaches each tensor;
and that footprints and element counts stay exact up to the largest number, also where a zero
dimension hides an overflow (`ElementsBounded`).

`LoaderBuilder` has the options given so far, and which of them were given explicitly. `Call` is an
option call, where the type states of the code decide which exist (`Exists`); `Build`, `BuildExact` and
`BuildStream` are the three `build`s, with the allocation ceilings of the worker pool and of the
stream. `MCLoaderBuilder` takes every sequence of up to three calls: the order of different options does
not matter, no option is dropped in silence, what is built can run, an exact loader is what the plain
one is (`ExactIsStricter`), and a pool is accepted exactly if its marks fit a word and its memory the ceiling. A
word of six bits and structures of one byte put both limits within reach. Left out: options that
replace a callback only, and allocation failures. The plan's own batch size is not kept, because `build`
overwrites it.

### Shards

A tensor is its shape, its type and its data; `Mix` stands for each update formula and keeps what it
reads. `Step` is `try_step` on the portable state, `ShardOptimizer` and `ShardOf` cut optimizer and
weights, `Consolidate` checks a set of shards and joins it. `MCDistributedTraining` trains small models with
every algorithm, cuts them for one to three ranks and joins them in every order (`ReshardingIsExact`);
steps the slices and the whole alike (`ShardsTrainAlike`); mixes shards of different captures, ranks and
worlds (`OneCaptureOnly`); and damages one field at a time, each of which must be refused (`BadShardsRefused`
and its like). Bytes are counted in elements, and limits (30 elements, 3 ranks, 8 elements a stored tensor,
3 steps) are small enough to be met.

### Profiling and Reproducibility

A call of the recorder holds its lock throughout, so `Span`, `Drop`, `ChromeTrace` and `Clear` are
one step each, and threads interleave between them. `MCTools` runs every order of six calls of two
threads: `Span::drop` indexes the events without a check, which is safe because `clear` is
refused while a guard lives (`GuardsKeepTheirEvents`); a trace is complete and numbers its threads from one
(`TracesAreComplete`). `Benchmark` counts calls and adds up what they cost. A generator is its state and
its limits; an element of noise is its place in the stream. Every program of five draws, some of them
refused, is cut and resumed at every point (`NoiseResumes`), with a counter that ends at 4: the
last state that `state_dict` can give is the last that `from_state` takes.

## What is checked

| Run | Instance | Distinct states |
|---|---|---|
| `worker_run_context` | budget alone: 4 batches, 3 workers, limit 2, sizes 0..3; token alone: 3 threads, 1 call each, timeouts 0, 1 and 5, clock 0..2 of 0..3; both: 3 batches, 2 threads, 1 call each; recorders of 2 and 3 events, 5 draws | 450,574 |
| `map_loader` | 2 workers, 3 batches, 2 failures: a persistent pool, prefetch 1, 3 generations; an owned pool, prefetch 2, 1 generation, timeouts and user cancellation | 837,625 |
| `exact_loader` | 6 configurations of 0 to 2 workers and 2 to 7 samples, 2 processes, 1 failure of user code | 508,529 |
| `stream_loader` | 18 configurations of 1 or 2 workers, 2 to 4 records, up to 2 failures, deadlines, byte limits; builders after 3 calls, values of 3 levels | 513,865 |
| `exact_stream` | 9 configurations of 1 or 2 workers and 2 to 4 records, 2 processes, 3 generations, up to 1 failure of user code, numbers below 3 | 629,979 |
| `process_group` | 3 ranks, 20 menus of up to 3 calls per rank, limit 30 units; 5 sets of 3 or 4 processes that do not fit | 159,942 |
| `distributed_training` | 2 ranks, 2 parameters, 2 sessions of 3 calls per rank, 2 faults; shards of 1 to 3 ranks | 394,419 |
| `training` | 7 programs of 3 or 4 batches, 2 parameters, 1 or 2 optimizers, 1 or 2 faults, 1 crash | 564,499 |
| `stream_rollback` | 1 worker, prefetch 2, shard 0, 1, 0 (violation) | about 3,000 |
| `stream_gap_hang` | 2 workers, prefetch 1, shards 0, 2 or 1, 0 beside an empty one (violation) | about 1,400 |
| `map_timeout_hang` | 2 workers, prefetch 1, 2 batches, timeout (violation) | about 2,000 |
| `map_stale_lane_hang` | 2 workers, prefetch 1, 3 batches, 2 generations, 1 failure (violation) | about 10,000 |

`worker_run_context` has three instances, told apart by its initial states, because budget and token
meet in `cancel` only. The budget alone starts from every assignment of sizes to batches in which at
most one weighs nothing and at most one can never fit, so it has
batches that always fit, that fill the budget and that exclude each other; three workers are enough for
a waiter, a holder and a third that overtakes. The token alone gives three threads every combination of
calls: a waiter, a canceller and a thread that arms or disarms are what the lock order is about, and a
second call of one thread adds nothing a third thread cannot do. Together they have a batch that
never fits and two that exclude each other, beside a thread that waits or selects and one that cancels:
enough for a waiter that is told while an admission is under way. The clock has stopped there, at its last instant:
timeouts of zero expire, others outlast the behaviour. The persistent pool of `map_loader` is large enough for a batch
that arrives ahead of its turn, a full lane, a full results channel, a worker
that fails while its sibling is at any other point, a stale lane, and a third
generation after a pool was poisoned. Its owned pool has lanes of two tasks, so a
drain takes several steps, and puts an expiring deadline and a cancelled token
at every point. `process_group` takes three ranks, the
least at which one peer has its response and another has not, and starts from one of
several menus: each rank may make any calls of the menu in any order, so the programs
agree in some behaviours and differ in others. A menu has the calls in which one kind of
agreement can go wrong (two programs, one rank's error, a shared stream, wrong counts,
kinds, roots or sizes). Before its calls each behaviour goes through the whole rendezvous; a fourth process that
claims a rank again, one that leaves a rank unclaimed, and a process of another session, in the place of a rank or
besides them, never get to call. `distributed_training` has two ranks, enough for one to know what the
other does not; two parameters, so that a call may end between their collectives; sessions of
three calls, so that a trainer is built, steps and steps again, or is captured twice; a second
session, for what was left unequal; and two faults, since one must lose a step and another
may come while it is repaired. `exact_loader` has a lane of two tasks and a lane of one, a
short last batch, a padded shard, a repeated permutation and a serial loader; a state saved under
one configuration meets the builder of every other. `stream_loader` has the window of one or two
records per worker at which a worker runs ahead of its turn, a byte limit below and at the size
of a window, and each kind of unsound shard, also those whose gap stalls it. `exact_stream` has two workers whose records alternate,
with a window of one and batches of two, so that a journal is longer than the window; one worker with a
window of two that fails, and one that drops a tail and changes its epoch; and an unsound shard of each kind (a
gap, a number in two shards, none, a falling one, the last one, another length than announced). Three
generations are a first pass, a checkpoint or a second pass, and the overflow of the counter; a
second process suffices because it resumes as it would from any earlier one. `training` has an overflow at the initial scale and
growth after it, a plateau that reduces, milestones that repeat, a layer registered late, an
epoch of two batches of two microbatches, a disabled scaler and two optimizers; a crash may
come at every step, once, and a checkpoint exists at each boundary. Each configuration of
the loader chooses ordered or completion order, and a
byte budget or none, in its initial states. `CHECK_DEADLOCK FALSE` stands where
the system may stop: all budget calls finished, or a wait that a violation
run is about; an iterator's caller is free to stop as well.

The properties:

- `UsedIsHeld`, `WithinLimit`, `AdmittedPrefix`, `NoLostWakeup`, `EveryCallReturns` (byte budget);
- `BatchesConserved`: a submitted batch is in exactly one of lane, worker, results,
  reassembly map, yielded - or nowhere, if its worker gave the generation up;
- `CreditsExact`: outstanding credits are the batches submitted and not yielded;
  what the sampler gave is submitted, pending or being submitted;
- `PermitsExact`: the bytes counted are those that travel with a batch;
- `LanesSound`: a worker meets its residue class in increasing order (`LaneHistory`), and no worker is at
  work for an earlier generation (`GenerationsDisjoint`);
- `ImplementsDelivery`: the loader implements `BatchDelivery`;
- `NoLostNotice`, `ToldOnlyIfCancelled`, `WaitsEnd` (token): a
  sleeping thread still has to sleep, on the deadline in force; a cancellation is
  reported only if it happened; a cancelled token ends every call in progress, and nobody sleeps past
  a deadline that was armed, whatever the timeout was;
- `NoGrantAfterTold` (budget and token): whoever learns from the token that the run was cancelled can
  rely on no more bytes being granted. It says nothing of a token that user code cancelled;
- `MeshSound`: a process that joins has one stream to one process of every other rank, of its session,
  and all who join have the same members;
- `RendezvousEnds`: processes that fit all join unless a deadline strikes, and if others knock somebody
  learns of it;
- `BarrierHolds`: no rank leaves a collective before every rank has entered it;
- `CollectivesAgree`: an accepted result is that of every rank's input to the same call of
  its program, and of no other call, root or rank;
- `PointsAgree`: an acknowledged send was received once, in order, under its tag;
- `CollectivesReturn`: a collective that every other rank has entered or failed returns
  without the help of the deadline;
- `ImplementsAgreement`: the process group implements `Agreement`;
- `UpdatesAreMeans`: whatever reached a model is the mean of one gradient per rank, of one
  step, whatever failed before;
- `ReplicasClose`: trainers of a session start equal and differ by at most one update whose
  agreement is missing. A replica whose moments or counts were left unequal by a lost step can be
  built again, and never steps again;
- `StepsConfirmed`: a train call that returned `Ok` was applied on every rank;
- `RestoresOneCapture`: shards of different captures never make a trainer;
- `ReplayExact`: whatever was prefetched, saved, cancelled or resumed in another process, the
  caller sees the batches of one undisturbed epoch, transformed as there;
- `BoundaryExact`: the parts of a saved state - cursor, counters, every lane's transform -
  describe the same boundary;
- `OnlyUserPanics`: the loader's own assertions and strict checks never fire by themselves;
- `CreditsExact` (stream): each worker's credits are in its channel, its hand, a completion or
  the reassembly buffer, over all generations of a pool;
- `DeliveryExact`: batches go on where the last stopped, an end comes after the last record,
  an error is told for its reason only;
- `ReplayExact` (exact stream): the same over shards and workers of a stream, and a stream with a record
  missing never just ends;
- `OnlyUserFails`: journals, credits, generations, acknowledgments and the envelope of a state the loader
  saved never fail the loader's own checks before user code has failed, or the last generation is reached;
- `UpdatesSound`: every update is one batch's, once, complete, by its own optimizer, and divided by
  just the scale it was multiplied with;
- `ResumeExact`: a program that dies and resumes, or goes back, is at every boundary what an
  undisturbed program is there, and a published checkpoint is whole;
- `CallsReturn`, `QuiesceReturns`: no wait is for ever; for streams, but for `StalledBehindGap`.

`TypeOK` of `MapLoader` also bounds the channels. Those of `ByteBudget` and `Cancellation` are left to the
proofs. `NoLostWakeup` is the budget's, `NoLostNotice` the same of the token.

### Fairness

`Fairness` gives weak fairness to the coordinator as a whole, to each worker as a
whole, and to the passing of time. The operating system schedules a thread that
can run; `select!` and the channel operations complete when one of their
branches is ready; a callback ends. Failures of user code (`WorkerFault`,
`FillSourcePanics`) and the caller's own decisions (`CallerStep`) have none. For the
byte budget: a runnable call gets the mutex, a published batch drops its permit,
and a worker that met an oversized batch goes on to cancel. Spurious wake-ups and
cancellation by others are never assumed.

For the token: a thread in a call that can go on does (`Progress`), and the clock ticks;
nobody is assumed to cancel, and spurious wake-ups are not assumed.

For the exact loaders and the stream loader: the coordinator's thread in a call and each worker's thread
go on when they can (`CoordinatorStep`, `CallerStep`, `WorkerStep`). The deadline is not assumed to strike, user
code is not assumed to fail, the process is not assumed to die, and the caller may stop calling.
`training` has no liveness property: it is a sequential program whose waits are for its devices.

For the process group: a process in `accept`, in `connect` or in a call goes on when its socket has a
connection or a frame, or is closed (`Progress` of both modules); TCP delivers what was written or reports the close. No deadline is assumed to
strike and no rank is assumed to make a call.

### Three calls that never return

1. *Timeout on a persistent pool* (`map_timeout_hang`). The builder documents that
   expiry "drains it to quiescence, yields one typed timeout error, and then ends
   the iterator" (`loader.rs:1109`). A worker that notices the deadline first leaves
   its generation and sends `Quiesced`; `next` skips it (`loader.rs:3159`), times out,
   and `quiesce_inner` (`worker.rs:503`) waits for that worker again. The stream pool
   counts such messages in `next` too (`stream.rs`, `account`). Cancelling the public
   token from a callback on a persistent pool ends in the same wait, which is why
   `map_loader` leaves out timeouts and user cancellation there.
2. *Stale task in a lane* (`map_stale_lane_hang`). `submit` tests the token and then
   sends (`worker.rs:420-423`); a worker may cancel, drain and quiesce in between.
   The next iterator can find the lane full with nothing outstanding; it keeps the
   task pending and waits for a completion that nobody owes. `COMPATIBILITY.md:226`
   promises that stale work is discarded between generations. What remains true of persistent
   pools, and `CallsReturn` says, is that every call returns while no user code has failed.
3. *A gap beside a finished shard* (`stream_gap_hang`). An ordered stream whose "higher IDs fill the
   whole window before the next ID can be reached" shall report a protocol error
   (`stream.rs:1555-1557`, the crate's `README.md:314-316`). `next` compares the buffer with the window
   of all workers (`stream.rs:2554`). When a shard has ended, its part of the window stays empty: once the other
   worker's credits are all in the buffer, it waits for a credit and `next` for a record.
   With a byte limit the waiting workers are compared instead, without the finished ones
   (`stream.rs:2570-2583`), and the error is reported.

### Two sends that fail at once

`send` documents that blocking sends on both peers first "will time out"
(`process.rs:669`). They share a stream, so each reads the other's tensor as its
acknowledgement and aborts the group without waiting (`process.rs:702-708`); the behaviour is in
`process_group`, in the menu whose ranks 0 and 1 send to each other.

### An error that a checkpoint hides

The crate's `README.md:606` promises that "Prefetched work is rolled back to the next
consumer-visible boundary and replayed". A worker that has read a record with a number that was
passed already journals that number, and waits with a protocol error for the caller. `Rollback` takes
for unpublished only attempts without a number or with one at or after the boundary
(`stream_checkpoint.rs:455`), so it goes back no further than the present, past the record; the error
itself was among the completions thrown away. The stream then ends without the error that it
reports when nobody calls `checkpoint` (`stream_rollback`). Only sources that break the promise of
increasing numbers are concerned, which is why `ReplayExact` requires an error only of streams that
repeat no number.

## What is proved

All theorems hold for every value of the constants that satisfies the named
assumptions (at least one worker, a prefetch factor of at least one, natural
bounds, the configurations being records of the right type, one optimizer in a program that
saves checkpoints).

*Byte budget* (`ByteBudgetProofs`). `BudgetInv` is `TypeOK`, `WithinLimit`, `NoLostWakeup`
and `AdmittedPrefix` together: the free space `Limit - used` is meaningful only
within the limit, and the order of admission needs the counter. Theorems
`BudgetTypeCorrect`, `BudgetIsStrict`, `BudgetLosesNoWakeup`, `BudgetAdmitsInOrder`; and
`BudgetStaysClosed`, an action property, since `Admit` excludes a cancelled budget.

*Credits and order* (`MapLoaderProofs`). `CreditsExact` is not inductive: its account must
also say where a drawn batch may be when the source has ended, that an iterator
with a pool has not failed, and where the coordinator goes after a wait.
`CreditInv` adds those (`AccountInv`, `PoolPresent`) and what an ordered loader has
yielded (`YieldedInv`). Theorem `LoaderAccountsForCredits` follows, and
`LoaderYieldsPlan`: an ordered iterator yields 0, 1, 2, ... without gap or
repetition, and ends with None only after the last batch. The workers need no
invariant here, because no step of theirs touches the coordinator's fields.

*Token* (`WorkerRunContextProofs`). A run is a behaviour of the budget and one of the token
(`RunComposesBoth`), whichever steps of the other come between, so the theorems about `ByteBudget` hold of it, and
those of the token are stated of it at once. The inductive invariant adds mutual exclusion to the
properties: whoever is past `Lock` and before the release holds `waitLock`, hence no
transition lies between a `Check` and its `Park`, and a checked waiter's timer is the
deadline. Theorems `TokenTypeCorrect`, `TokenLosesNoWakeup` and `TokenTellsTheTruth`.

*Budget and token* (`WorkerRunContextProofs`). `NoGrantAfterTold` is about three parties: who closes
budget and token, a worker between its test and its permit, and whoever was told. `RunInv` connects them: the
token's invariant says that what is told was set, and `BudgetFirst` that whoever set it, or is on the way
to, had closed the budget, unless user code cancelled; a closed budget grants nothing
(`ClosedBudgetGrantsNothing`). Theorem `NoGrantFollowsTheTelling`.

*Collectives* (`ProcessGroupProofs`). `BarrierHolds` compares two ranks that never speak to
each other; what connects them is rank 0. `BarrierInv` therefore says, of each request
on its way or already read, that its rank has entered that collective (`RequestsMade`); of
each response not yet read, that every rank has, if it accepts (`ResponsesSound`); and
of a rank outside collectives, that it has finished those it entered (`Entered`). The step
that matters is `Answer`: `evaluate` accepts only requests with one sequence number
(`EvaluateAccepts`). Theorem `GroupKeepsStep`, for any number of ranks and any menus. Frames
are handled as the set of a channel's frames, which a write extends (`PutAdds`) and a
read or a close shrinks (`TailTakes`, `FailDrops`).
`PointInv` is the same for `send` and `recv`: a tensor on its way is of the send under way or of an earlier
one, an acknowledgement is of a tensor that was received under its tag (`PointFrames`); a frame that is left over
from an earlier call is thus never taken for the present one. Theorem `PointsArriveInOrder`.

Theorem `GroupImplementsAgreement` is the refinement of `Agreement`, the rendezvous left out of both
histories. `AgreeInv` says that a request, under way or read, is the one its rank made under that number
(`RequestsKept`), and that an accepting response is `evaluate` of the requests that all ranks made under
its number, at the place of its reader (`Genuine`, which later requests do not disturb: `AskingKeepsGenuine`). A
step of a collective then is a step of `Agreement` (`CallEnters`, `ConcludeReceives`), a failure is `Stop`, and the
rest stutters. What `evaluate` computes from the requests is `CollectivesAgree`'s subject and
remains with TLC: that a left fold is a sum, product or extremum is an induction over data.

*One mesh* (`RendezvousProofs`). `MeshSound` is about tables of processes that never spoke of it: a
process that has joined knows nothing of its peers but that process 0 answered. `MeshInv` says what
that answer stands for. Process 0 books only processes of its session, under the rank they
claim (`ZeroPeers`); nobody else learns an address, so that whoever calls a process other than 0 is booked
(`Member`, `Callers`), and a stream between two others joins two members (`MemberPeers`); how far a
process has come tells which streams it has (`Dialled`); and a request in the barrier stands for all
streams of its sender, a response for those of everyone (`BarrierPassed`). Streams only grow, also when
a process fails (`Growth`), hence what is known of one that has failed since stays true. The step that matters
is the end of `accept`: the count of accepted streams leaves no rank out (`AssembledAll`). Theorem
`GroupIsOneMesh`, for any number of processes and claims.

*Types and capacities* (`MapLoaderProofs`). `TypeInv` adds that a batch being produced
or delivered has a number of the plan and that a dying worker knows its failure;
`LoaderTypeCorrect` then gives `TypeOK` with the capacity of each channel.

*Places and generations* (`MapLoaderProofs`). `LanesSound`, `BatchesConserved` and `PermitsExact` are
each about three kinds of actors at once, and none is inductive. `SafeInv` adds to `TypeInv`: whose
generation a worker is in and that whoever holds a batch has begun (`GenInv`); that a worker which has
said Quiesced is settled, so that nobody is unsettled and no message unread when the coordinator returns
without a pool (`StoppedInv`); that along lane, worker, results and reassembly map the numbers of one
worker's batches only decrease (`OrderInv`), from which uniqueness follows (`OnceInv`); and that what is
nowhere was given up by its worker (`KeptInv`). A step is first reduced to what it does to those fields: the
worker's actions to four moves (`WorkerMoves`), the coordinator's to a dozen (`CoordinatorMoves`), and
every part of the invariant is shown once per move. `LoaderImplementsDelivery` is the refinement of
`BatchDelivery`: only a step that publishes changes what was yielded, and `OnceInv` says that what it
yields is new.

*Stream credits* (`StreamProofs`). `CreditsExact` of the stream loader is not inductive: a credit comes back
with the record it was taken for, so the account is kept only if that record is buffered once and given back
once. `CreditInv` says where that rests. A worker past its credit holds it and one before it does not
(`HandInv`); the records of a worker that are under way are those it has read and sent, each of them once, in the
channel or buffered (`ReadsInv`), so that the union which returns them counts every one; a generation a
worker has been told of and not begun has nothing under way (`ControlInv`), else its reads would
repeat those of the one before; a last completion is the last of its worker, in the channel and after it
(`EndInv`), which is why the pool is drained when all have ended and the next generation finds it quiet
(`PhaseInv`). Worker steps are reduced to three moves: one that changes only the worker (`LocalKeeps`,
`BecomeKeeps`), one that sends (`SendKeeps`), one that leaves the account alone (`StillKeeps`); the coordinator's
to what it takes from the channel and which credits it gives back (`Refund`, `CoordinatorKeeps`). Theorem
`StreamAccountsForCredits`, for any configurations of the right type (`ConfigsAssumption`), and
`StreamCreditsFit`: a credit given back always finds room, hence `return_credit` refuses
none while the pool lives.

*One capture* (`DistributedProofs`). `RestoresOneCapture` compares ranks which may have kept the results of
different checkpoint calls, from whatever session. `GroupInv` says what `Agreement` leaves behind: requests and
results in step, and a result that is `Outcome` of requests all ranks made and that were accepted. `CallInv` says that what
a rank asked in its call are the rounds of that call one by one, from where the call began (`Base`); the tables of rounds
(`BackwardIs`, `TrainIs`, `RestoreIs`, ...) turn that into arithmetic. `RestoreInv` adds that a record that is kept
is of an earlier session until its rank has a trainer (`KeptInv`), that a restore sends the record it
later builds from (`RestoringInv`), and that a capture is stamped within its own call (`CapturingInv`). A rank that has got as far as
a trainer has seen the records of all ranks and found one stamp on them; two ranks which restore in one session have seen the results of one collective, since
a trainer exists once in a session (`RestoreIsOne`). Theorem `RestoresAreOneCapture`, for any number of ranks, parameters, calls, sessions and
faults.

*Means* (`DistributedProofs`). On the wire, reductions carry neither a step nor a parameter, so what keeps gradients of
different steps apart is the order of the operations alone. `Supplied` says what a rank asks to be reduced: its own gradient tagged with
its step, or, in a later round over the same parameters, the mean already. How far that step lies before the
request is fixed (`Lag`), and ranks which make one collective have made its operation for equally long (`Run`,
`RunIsOne`); so gradients reduced together are of one step and the result is its mean (`ReducedIs`). The rest follows the gradient
from there: `BackwardInv` and `ShardInv` say which collective's result is in a rank's hand and gradient at every place of a
step, `BroadcastInv` and `ModelInv` that models in ranks, broadcasts and records have had no other updates. Theorem `UpdatesAreAverages`, for
any number of ranks, parameters, calls, sessions and faults.

*Confirmed* (`DistributedProofs`). The barrier after a step looks like any other on the wire, and `StepsConfirmed` needs to know that
the other ranks concluded it after the same step. `FollowInv` says that a rank which has made its last reduction
makes no other request before its step: no error between them returns from the call unagreed (`GoesOn`, `LeavesClosed`). Whether a
`reduce_scatter` was the last one, again only the length of its run tells. So the barriers of a step meet barriers of the same step on all
ranks (`SteppedIs`), each of them asked without error, and then `StepInv` says that the rank has a trainer and that its model holds what was
reduced, as many collectives before (`LedUp`). Models are replaced only where there is no trainer yet; `PendingInv` says that nothing is confirmed then,
or, when replicas outlive their session, that the broadcast model holds it. Theorem `ConfirmedEverywhere`, for any number
of ranks, parameters, calls, sessions and faults.

*Close* (`DistributedProofs`). `ReplicasClose` allows one update between two trainers, and an invariant must say whose it is: `PairInv` says that two
trainers hold the same but for the step that one of them has applied and nobody has concluded (`Ahead`, `Level`). A
rank which comes to the same step applies the same average (`SameStep`), and one which concludes a step
finds that all have applied it (`FirstReceives`), so that nobody is ever ahead by two. A trainer that is built meets those which are
built already: they came from the same call with the same collectives (`SameBirth`). There is only the wire to tell; the
operations of `construct`, `new` and `restore` shifted against each other disagree somewhere in their last ten, and what
looks alike is told apart by stamps: records of earlier sessions are sent by ranks without a trainer only (`BornInv`, `KeptInv`). So both hold what one
broadcast, or the records of one capture, gave (`SentInv`, `NewInv`), and one capture is of one state, since
ranks that capture have made as many collectives (`RecordInv`, `SameRecords`). The moments of replicas outlive the session, and may differ then by
a step that was lost with it, although the weights were broadcast (`UnsettledInv`). The agreement on settings finds it: equally long and within
reach means equal (`Settled`, `NearIsSame`), and nobody steps before (`SettingInv`). Theorem `ReplicasAreClose`, for any number
of ranks, parameters, calls, sessions and faults.

*Updates* (`TrainingProofs`). `UpdatesSound` speaks of the updates a parameter has had; what the
next one will be is in the gradients and in the scaler's phase. `TrainingInv` therefore says that
only an update takes the scaler out of its ready phase, with the optimizer whose turn it is
(`PhaseInv`); that a gradient is of the batch under way and of all its microbatches so far, and
carries the scale until it is divided and none afterwards (`GradientInv`); that no update is of a
batch after the last (`ValueInv`, from which "once" follows); and that a checkpoint, in memory or
published, is as sound as the model it was captured from (`SavingInv`, `DiskInv`), which a restore
needs. The steps of an update, in whatever order and however often they fail, meet in `BeforeIs`
and `UpdateKeeps`. Theorem `UpdatesAreSound`, for any programs, faults and crashes.

Only model-checked: `UsedIsHeld` (a sum over a set), `CollectivesAgree` (folds), those of `ExactLoader` and `ExactStream`, `ResumeExact` of `Training` (it
compares with a recursive function), the order in which a stream is delivered (`DeliveryExact`), the assumptions about samplers, schedulers, graphs, portable programs, data, builders, shards,
recorders and noise, and everything about liveness and ENABLED, which the prover does not reach.

## Not modelled

- *`set_timeout` of a process group*: a deadline may strike in any call anyway.
- *Buffers and `restore_full` of distributed training*.
- *Transforms and user callbacks*: code of the application; the models give them every outcome.
- *Failures to allocate memory*: the preflights are modelled as limits, running out is not.
- *Autograd, layers, tensors, update formulas*: numerical code over libtorch.
- *PT2, ONNX, JSON and TorchScript files, command line, domain crates*: parsers and I/O without protocol state.

## Plan

What is left to model: the buffers of distributed training. Proofs to come: what the exact
loaders replay.
