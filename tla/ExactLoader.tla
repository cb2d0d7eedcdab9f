----------------------------- MODULE ExactLoader -----------------------------
(***************************************************************************)
(* The map loader with exact checkpoints (loader_checkpoint.rs,            *)
(* worker_checkpoint.rs, the boundary policy of loader.rs and the strict   *)
(* quiescence of worker.rs): an iterator whose workers run ahead of what   *)
(* the caller has seen, and which can be saved at any boundary between two *)
(* batches, by rolling every worker's stateful transform back to it.       *)
(*                                                                         *)
(* Worker w transforms the batches of its residue class in order and keeps *)
(* a ring of its transform's states, one before each batch that is not     *)
(* committed. checkpoint() asks every worker for the state at the          *)
(* boundary, waits until the generation is quiet, collects the answers,    *)
(* and goes on under the next generation from the boundary. The process    *)
(* may die at any moment; a later one resumes from the last state saved.   *)
(*                                                                         *)
(* The state of a transform is the sequence of what it has been applied    *)
(* to: <<b, "whole">> for a batch, <<b, "part">> for a batch it gave up.   *)
(* A pool is never persistent here, so leaving an iterator joins its       *)
(* threads. With workers = 0 the caller's thread does the work.            *)
(***************************************************************************)
EXTENDS Samplers, FiniteSets

CONSTANTS Configs,     \* the builder configurations a process may use
          MaxLives,    \* how many processes run one after the other
          MaxEpoch,    \* the epochs set_epoch may select
          Scenarios(_) \* what happens under a configuration: the batches whose
                       \* transform always fails, how often user code panics, fails or
                       \* cancels, and how often the caller saves

VARIABLES call,      \* what the caller's thread is doing
          config,    \* the configuration of the loader, if there is one
          epoch,     \* the epoch of its plan
          retained,  \* the resume that iter() will start from
          nextGen,   \* OwnedDataLoader.next_generation
          it,        \* the iterator (the coordinator)
          lanes,     \* per worker, the bounded channel of its tasks
          controls,  \* per worker, the generation it is told to begin
          commands,  \* per worker, the channel of Apply and Rollback
          acks,      \* the channel of initialisation acknowledgements
          replies,   \* the channel of rollback acknowledgements
          results,   \* the channel of completions
          worker,    \* the worker threads
          cancelled, \* the token of the current generation
          shutdown,  \* the token of the pool
          quiet,     \* what quiesce_inner and validate_initializations count
          saved,     \* the last state checkpoint() returned
          origin,    \* the configuration this lineage of resumes began with
          told,      \* what the last call of next() or checkpoint() returned
          bad,       \* the batches whose transform always fails
          lives,     \* how many processes there have been
          saves,     \* how often the caller will still save
          faults,    \* how often user code will still misbehave
          upset      \* user code has panicked or refused a snapshot in this process

loaderVars == <<config, epoch, retained, nextGen>>
poolVars == <<lanes, controls, commands, acks, replies, results, worker,
              cancelled, shutdown, quiet>>
pastVars == <<saved, origin, bad, lives, saves>>
vars == <<call, loaderVars, it, poolVars, pastVars, told, faults, upset>>

-----------------------------------------------------------------------------
(* The builder.                                                            *)

None == [kind |-> "none"]

Serial(c) == c.workers = 0
Workers(c) == 0 .. c.workers - 1
Capacity(c) == c.workers * c.prefetch

(* A builder that never called workers() has its own types: an iterator    *)
(* and a state of its own, that does what workers(0) does.                 *)
Plain(c) == c.execution = "serial"

(* validate_configuration: what a configuration of any loader must be. *)
ValidOptions(c) ==
  /\ c.batchSize > 0 /\ ValidSampler(c.sampler)
  /\ c.batching = "none" => ~c.dropLast
  /\ IF Serial(c) THEN ~c.timeout /\ ~c.persistent ELSE c.prefetch > 0

(* checkpoint_configuration of the plain loader, preflight of the other.   *)
ValidPlain(c) == ValidOptions(c) /\ c.identity # "" /\ Serial(c) /\ c.ordered

ValidWorkers(c) ==
  ValidOptions(c) /\ c.identity # "" /\ c.ordered /\ ~c.persistent /\ ~c.timeout

ValidRank(c) == c.sampler.kind = "distributed" => c.sampler.rank = c.rank

Valid(c) ==
  /\ IF Plain(c) THEN ValidPlain(c) ELSE ValidWorkers(c)
  /\ ValidRank(c)

(* What a state records of the configuration, beside the plan's cursor.    *)
Envelope(c) ==
  LET automatic == c.batching = "auto"
  IN  [execution |-> c.execution,
       identity  |-> c.identity, workers |-> c.workers, prefetch |-> c.prefetch,
       seed      |-> c.seed, rank |-> c.rank,
       batchSize |-> IF automatic THEN c.batchSize ELSE 0,
       dropLast  |-> automatic /\ c.dropLast,
       kind      |-> <<c.batching = "explicit", c.sampler.kind>>]

(* The validations of a resuming build() that read the state.              *)
Accepts(c, s) ==
  /\ Valid(c)
  /\ Envelope(c) = s.envelope
  /\ s.factoryGen <= s.runGen /\ s.runGen < MaxU64
  /\ DOMAIN s.lanes = (IF Serial(c) THEN {0} ELSE Workers(c))
  /\ AcceptsCursor(c, s.cursor, s.next, s.logical)

-----------------------------------------------------------------------------
(* The reference: what an epoch yields when nothing goes wrong.            *)

Batches(c, e) ==
  LET order == Indices(c.sampler, e)
      size  == BatchSize(c)
  IN  [k \in 1 .. PlanLen(c) |->
         SubSeq(order, ((k - 1) * size) + 1,
                IF k * size > Len(order) THEN Len(order) ELSE k * size)]

FirstSample(c, b) ==
  IF (b * BatchSize(c)) > ExactLen(c.sampler) THEN ExactLen(c.sampler)
                                              ELSE b * BatchSize(c)

(* The state of the transform that gets batch b: it has had the earlier    *)
(* batches of its lane, each once and in order.                            *)
History(c, lane, b) ==
  LET mine == SelectSeq(Ascending(b),
                        LAMBDA k : Serial(c) \/ k % c.workers = lane)
  IN  [i \in 1 .. Len(mine) |-> <<mine[i], "whole">>]

LaneOf(c, b) == IF Serial(c) THEN 0 ELSE b % c.workers

Reference(c, e, b) ==
  [kind |-> "batch", batch |-> b, indices |-> Batches(c, e)[b + 1],
   first |-> FirstSample(c, b), seen |-> History(c, LaneOf(c, b), b)]

-----------------------------------------------------------------------------
(* Initial states and the death of a process.                              *)

Idle == [pc |-> "done", seen |-> <<>>, ring |-> <<>>, gen |-> 0, task |-> None]

Quiet(purpose) == [for |-> purpose, from |-> {}, batches |-> {}, failed |-> FALSE]

PoolIsGone ==
  /\ lanes' = <<>> /\ controls' = <<>> /\ commands' = <<>> /\ worker' = <<>>
  /\ acks' = <<>> /\ replies' = <<>> /\ results' = <<>>
  /\ cancelled' = FALSE /\ shutdown' = FALSE /\ quiet' = Quiet("nothing")

Init ==
  /\ call = "none" /\ config = None /\ epoch = 0 /\ retained = None /\ nextGen = 0
  /\ it = None
  /\ lanes = <<>> /\ controls = <<>> /\ commands = <<>> /\ worker = <<>>
  /\ acks = <<>> /\ replies = <<>> /\ results = <<>>
  /\ cancelled = FALSE /\ shutdown = FALSE /\ quiet = Quiet("nothing")
  /\ saved = None /\ origin = None /\ told = None
  /\ bad = {} /\ lives = 0 /\ saves = 0 /\ faults = 0 /\ upset = FALSE

Crash ==
  /\ call # "none" /\ lives < MaxLives
  /\ call' = "none" /\ config' = None /\ epoch' = 0 /\ retained' = None /\ nextGen' = 0
  /\ it' = None /\ told' = None /\ upset' = FALSE
  /\ PoolIsGone
  /\ UNCHANGED <<pastVars, faults>>

(* Barrier::new and WorkerPool::new_with_hooks. A lane holds the state it  *)
(* is to restore until it is told to apply it.                             *)
Spawn(c, states, purpose) ==
  /\ lanes' = [w \in Workers(c) |-> <<>>]
  /\ controls' = [w \in Workers(c) |-> <<>>]
  /\ commands' = [w \in Workers(c) |-> <<>>]
  /\ worker' = [w \in Workers(c) |-> [Idle EXCEPT !.pc = "init", !.seen = states[w]]]
  /\ acks' = <<>> /\ replies' = <<>> /\ results' = <<>>
  /\ cancelled' = FALSE /\ shutdown' = FALSE /\ quiet' = Quiet(purpose)

(* The pool is dropped: both tokens are cancelled, then its threads joined. *)
Dropping(purpose) ==
  /\ shutdown' = TRUE /\ cancelled' = TRUE
  /\ call' = "join" /\ quiet' = Quiet(purpose)
  /\ UNCHANGED <<lanes, controls, commands, acks, replies, results, worker>>

(* build() of a fresh loader, by the first process. *)
Build ==
  \E c \in Configs : \E s \in Scenarios(c) :
    /\ call = "none" /\ lives = 0 /\ Valid(c)
    /\ call' = "loader" /\ config' = c /\ epoch' = 0
    /\ retained' = None /\ nextGen' = 0
    /\ origin' = c /\ lives' = 1
    /\ bad' = s.bad /\ faults' = s.faults /\ saves' = s.saves
    /\ UNCHANGED <<it, poolVars, saved, told, upset>>

(* build() of a resumed loader: nothing is restored before everything is   *)
(* validated; with workers the pool is created and asked.                  *)
BuildResumed ==
  \E c \in Configs :
    /\ call = "none" /\ lives < MaxLives /\ saved # None /\ Accepts(c, saved)
    /\ config' = c /\ epoch' = saved.epoch /\ lives' = lives + 1
    /\ retained' = [rest |-> Restored(c, saved.cursor),
                    next |-> saved.next, logical |-> saved.logical,
                    factoryGen |-> saved.factoryGen, runGen |-> saved.runGen,
                    seen |-> saved.lanes[0]]
    /\ nextGen' = IF Plain(c) THEN 0 ELSE saved.runGen + 1
    /\ IF Serial(c)
       THEN call' = "loader" /\ UNCHANGED poolVars
       ELSE call' = "validate" /\ Spawn(c, saved.lanes, "build")
    /\ UNCHANGED <<it, told, saved, origin, bad, saves, faults, upset>>

(* set_epoch: a retained resume is dropped with its pool.                  *)
SetEpoch ==
  \E e \in 0 .. MaxEpoch :
    /\ call = "loader"
    /\ epoch' = e /\ retained' = None
    /\ IF worker # <<>> THEN Dropping("loader") ELSE UNCHANGED <<call, poolVars>>
    /\ UNCHANGED <<config, nextGen, it, pastVars, told, faults, upset>>

(* validate_initializations: one acknowledgement of every lane, or a       *)
(* message of a worker that failed before it.                              *)
AckReceived ==
  LET ack == Head(acks)
  IN  /\ call = "validate" /\ acks # <<>>
      /\ acks' = Tail(acks)
      /\ quiet' = [quiet EXCEPT !.from = @ \cup {ack.worker}, !.failed = @ \/ ~ack.valid]
      /\ UNCHANGED <<call, loaderVars, it, lanes, controls, commands, replies, results,
                     worker, cancelled, shutdown, pastVars, told, faults, upset>>

(* Where a failed validation leaves the caller: build() has no loader to   *)
(* return, iter() an iterator with a pending error and no pool.            *)
ValidationFails ==
  /\ call = "validate"
  /\ \/ results # <<>>
     \/ quiet.from = Workers(config) /\ quiet.failed
  /\ Dropping(IF quiet.for = "build" THEN "none" ELSE "user")
  /\ IF quiet.for = "build"
     THEN it' = it /\ retained' = None
     ELSE it' = [it EXCEPT !.fault = TRUE, !.boundary = FALSE] /\ retained' = retained
  /\ UNCHANGED <<config, epoch, nextGen, pastVars, told, faults, upset>>

Applied == [w \in Workers(config) |-> Append(commands[w], [kind |-> "apply"])]

(* A resumed loader keeps its pool, whose lanes it tells to restore.       *)
BuildEnds ==
  /\ call = "validate" /\ quiet.for = "build"
  /\ quiet.from = Workers(config) /\ ~quiet.failed
  /\ commands' = Applied /\ call' = "loader" /\ quiet' = Quiet("nothing")
  /\ UNCHANGED <<loaderVars, it, lanes, controls, acks, replies, results, worker,
                 cancelled, shutdown, pastVars, told, faults, upset>>

-----------------------------------------------------------------------------
(* Submission.                                                             *)

Fault == faults > 0 /\ faults' = faults - 1

Spends(fault) == IF fault THEN Fault ELSE UNCHANGED faults

(* submit_one offers the task that was kept, then the batches of the plan:  *)
(* the k-th of them, and what is left of the plan after k.                 *)
Kept(i) == IF i.pending = None THEN 0 ELSE 1

Left(i, k) == AfterBatches(config, i.rest, k - Kept(i))

Offered(i, k) == k <= Kept(i) \/ HasBatch(config, Left(i, k - 1))

Task(i, k) ==
  [gen |-> i.gen, batch |-> i.submission + k - 1,
   first |-> i.logical + ((k - 1) * BatchSize(config)),
   indices |-> IF k <= Kept(i) THEN i.pending.indices
                               ELSE FirstBatch(config, Left(i, k - 1))]

Ends(task) == task.first + Len(task.indices)

(* try_submit: the lane of the k-th task has room for it.                  *)
Fits(i, ls, k) ==
  Len(ls[(i.submission + k - 1) % config.workers]) + ((k - 1) \div config.workers)
    < config.prefetch

(* fill_available: how often it may submit, and how often it does.         *)
Free(i) == IF i.closed \/ i.drained THEN 0 ELSE Capacity(config) - i.outstanding

Taken(i, ls, token) ==
  CHOOSE n \in 0 .. Free(i) :
    /\ \A k \in 1 .. n : ~token /\ Offered(i, k) /\ Fits(i, ls, k)
    /\ n = Free(i) \/ token \/ ~Offered(i, n + 1) \/ ~Fits(i, ls, n + 1)

Submitted(i, n) ==
  IF n = 0 THEN i
  ELSE LET tasks == [k \in 1 .. n |-> Task(i, k)]
       IN  [i EXCEPT
              !.submission = @ + n, !.logical = Ends(tasks[n]), !.outstanding = @ + n,
              !.rest = Left(i, n), !.pending = None,
              !.ends = [b \in DOMAIN @ \cup {tasks[k].batch : k \in 1 .. n} |->
                          IF b < i.submission THEN @[b]
                                              ELSE Ends(tasks[1 + b - i.submission])]]

(* What stops it before its credit: the plan is drained, the token is      *)
(* cancelled, or the lane is full and the task is kept.                    *)
Refused(i, n, token) ==
  LET j == Submitted(i, n)
  IN  CASE n = Free(i)        -> j
        [] n < Free(i) /\ ~Offered(i, n + 1) -> [j EXCEPT !.drained = TRUE]
        [] n < Free(i) /\ Offered(i, n + 1)  ->
             [j EXCEPT !.rest    = Left(i, n + 1),
                       !.closed  = token,
                       !.pending = IF token THEN None ELSE Task(i, n + 1)]

LanesWith(i, ls, n) ==
  [w \in DOMAIN ls |->
     ls[w] \o SelectSeq([k \in 1 .. n |-> Task(i, k)],
                        LAMBDA t : t.batch % config.workers = w)]

(* ... or the plan panics when it is asked for a batch.                    *)
Fills(i, ls, token) ==
  LET n == Taken(i, ls, token)
  IN  \/ /\ it' = Refused(i, n, token) /\ lanes' = LanesWith(i, ls, n)
         /\ UNCHANGED faults
      \/ \E m \in Kept(i) .. n :
           /\ m < Free(i) /\ Fault
           /\ it' = [Submitted(i, m) EXCEPT !.fault = TRUE, !.closed = TRUE]
           /\ lanes' = LanesWith(i, ls, m)

-----------------------------------------------------------------------------
(* iter().                                                                 *)

(* An iterator from batch b on; fault: it begins with a pending error.     *)
Iterator(gen, factoryGen, rest, b, sample, fault) ==
  [gen |-> gen, factoryGen |-> factoryGen, rest |-> rest,
   visible |-> b, submission |-> b, logical |-> sample, outstanding |-> 0,
   pending |-> None, drained |-> FALSE, closed |-> FALSE, exhausted |-> FALSE,
   fault |-> fault, completed |-> {}, errors |-> {}, ends |-> <<>>,
   boundary |-> ~fault, sample |-> sample, committed |-> b, seen |-> <<>>]

Begun(gen) == [w \in Workers(config) |-> <<gen>>]

(* In the caller's thread: what is retained goes on, else the plan's own   *)
(* iterator begins, which may panic.                                       *)
IterInThread ==
  IF retained # None
  THEN /\ UNCHANGED faults
       /\ it' = [Iterator(0, 0, retained.rest, retained.next, retained.logical, FALSE)
                   EXCEPT !.seen = retained.seen]
  ELSE \E fault \in BOOLEAN :
         /\ Spends(fault)
         /\ it' = Iterator(0, 0, Indices(config.sampler, epoch), 0, 0, fault)

IterSerial ==
  /\ call = "loader" /\ Serial(config)
  /\ call' = "user" /\ retained' = None
  /\ IterInThread
  /\ UNCHANGED <<config, epoch, nextGen, poolVars, pastVars, told, upset>>

(* A retained pool begins at once; its run generation is the saved one.    *)
IterResumed ==
  /\ call = "loader" /\ worker # <<>>
  /\ call' = "user" /\ retained' = None
  /\ controls' = Begun(retained.runGen)
  /\ Fills(Iterator(retained.runGen, retained.factoryGen, retained.rest,
                    retained.next, retained.logical, FALSE), lanes, FALSE)
  /\ UNCHANGED <<config, epoch, nextGen, commands, acks, replies, results, worker,
                 cancelled, shutdown, quiet, pastVars, told, upset>>

(* A fresh pool is created and validated first; the plan may panic.        *)
IterFresh ==
  /\ call = "loader" /\ ~Serial(config) /\ worker = <<>> /\ nextGen < MaxU64
  /\ call' = "validate" /\ nextGen' = nextGen + 1
  /\ Spawn(config, [w \in Workers(config) |-> <<>>], "iter")
  /\ \E fault \in BOOLEAN :
       /\ Spends(fault)
       /\ it' = Iterator(nextGen, nextGen, Indices(config.sampler, epoch), 0, 0, fault)
  /\ UNCHANGED <<config, epoch, retained, pastVars, told, upset>>

(* The generations are used up: the iterator only has that error to tell.  *)
IterOverflow ==
  /\ call = "loader" /\ ~Serial(config) /\ worker = <<>> /\ nextGen = MaxU64
  /\ call' = "user"
  /\ it' = Iterator(nextGen, nextGen, Indices(config.sampler, epoch), 0, 0, TRUE)
  /\ UNCHANGED <<loaderVars, poolVars, pastVars, told, faults, upset>>

(* ... and begins when every lane has acknowledged.                        *)
IterEnds ==
  /\ call = "validate" /\ quiet.for = "iter"
  /\ quiet.from = Workers(config) /\ ~quiet.failed
  /\ commands' = Applied /\ controls' = Begun(it.gen)
  /\ call' = "user" /\ quiet' = Quiet("nothing")
  /\ IF it.fault THEN UNCHANGED <<it, lanes, faults>> ELSE Fills(it, lanes, FALSE)
  /\ UNCHANGED <<loaderVars, acks, replies, results, worker, cancelled, shutdown,
                 pastVars, told, upset>>

(* The iterator is dropped, with its pool if it still has one.             *)
DropIterator ==
  /\ call = "user"
  /\ it' = None
  /\ IF worker # <<>> THEN Dropping("loader") ELSE call' = "loader" /\ UNCHANGED poolVars
  /\ UNCHANGED <<loaderVars, pastVars, told, faults, upset>>

JoinEnds ==
  /\ call = "join"
  /\ \A w \in DOMAIN worker : worker[w].pc = "done"
  /\ call' = quiet.for
  /\ IF quiet.for = "none" THEN config' = None ELSE config' = config
  /\ PoolIsGone
  /\ UNCHANGED <<epoch, retained, nextGen, it, pastVars, told, faults, upset>>

-----------------------------------------------------------------------------
(* The worker threads.                                                     *)

Become(w, pc) == worker' = [worker EXCEPT ![w].pc = pc]

(* A completion is about one batch, or none. *)
Send(w, kind, about, out) ==
  /\ Len(results) < Capacity(config)
  /\ results' = Append(results, [worker |-> w, gen |-> worker[w].gen, kind |-> kind,
                                 about |-> about, out |-> out])

coordinatorVars == <<call, loaderVars, it, shutdown, quiet, pastVars, told>>

(* The factory makes the transform, the lane's state is validated and the  *)
(* answer sent: it may be a refusal, and the factory may fail or panic.    *)
WInit(w) ==
  /\ worker[w].pc = "init" /\ ~shutdown
  /\ \/ /\ \E valid \in BOOLEAN :
             /\ IF valid THEN UNCHANGED <<faults, upset>> ELSE Fault /\ upset' = TRUE
             /\ acks' = Append(acks, [worker |-> w, valid |-> valid])
        /\ Become(w, "await")
     \/ Fault /\ upset' = TRUE /\ Become(w, "panic") /\ acks' = acks
  /\ UNCHANGED <<coordinatorVars, lanes, controls, commands, replies, results, cancelled>>

(* Lane::initialized waits for Apply.                                      *)
WApply(w) ==
  /\ worker[w].pc = "await" /\ commands[w] # <<>>
  /\ commands' = [commands EXCEPT ![w] = Tail(@)]
  /\ Become(w, IF Head(commands[w]).kind = "apply" THEN "idle" ELSE "done")
  /\ UNCHANGED <<coordinatorVars, lanes, controls, acks, replies, results, cancelled,
                 faults, upset>>

WBegin(w) ==
  /\ worker[w].pc = "idle" /\ controls[w] # <<>>
  /\ worker' = [worker EXCEPT ![w].pc = "loop", ![w].gen = Head(controls[w])]
  /\ controls' = [controls EXCEPT ![w] = Tail(@)]
  /\ UNCHANGED <<coordinatorVars, lanes, commands, acks, replies, results, cancelled,
                 faults, upset>>

(* The head of the lane is dropped if the generation is cancelled or it is *)
(* of another; else before_task prunes the ring of what is committed, finds *)
(* room in it and keeps the transform's state.                             *)
Fault_NeverPruned(w) == worker[w].ring

Pruned(w) == SelectSeq(worker[w].ring, LAMBDA s : s.batch >= it.committed)

WTake(w) ==
  LET task == Head(lanes[w])
      ring == Pruned(w)
  IN  /\ worker[w].pc = "loop" /\ lanes[w] # <<>>
      /\ lanes' = [lanes EXCEPT ![w] = Tail(@)]
      /\ worker' =
           CASE cancelled -> [worker EXCEPT ![w].pc = "rollback"]
             [] ~cancelled /\ task.gen # worker[w].gen -> worker
             [] ~cancelled /\ task.gen = worker[w].gen /\ Len(ring) > config.prefetch ->
                  [worker EXCEPT ![w].pc = "panic", ![w].task = task]
             [] OTHER ->
                  [worker EXCEPT ![w].pc = "work", ![w].task = task,
                     ![w].ring = Append(ring, [gen |-> task.gen, batch |-> task.batch,
                                               seen |-> worker[w].seen])]
      /\ UNCHANGED <<coordinatorVars, controls, commands, acks, replies, results,
                     cancelled, faults, upset>>

WQuit(w) ==
  /\ worker[w].pc = "loop" /\ cancelled
  /\ Become(w, "rollback")
  /\ UNCHANGED <<coordinatorVars, lanes, controls, commands, acks, replies, results,
                 cancelled, faults, upset>>

(* The transform has been through the whole batch, or through a part of it *)
(* when it sees the cancellation or the batch fails.                       *)
Touched(w, how) == Append(worker[w].seen, <<worker[w].task.batch, how>>)

WDone(w) ==
  /\ worker[w].pc = "work" /\ worker[w].task.batch \notin bad
  /\ worker' = [worker EXCEPT ![w].seen = Touched(w, "whole"),
                              ![w].pc = IF cancelled THEN "rollback" ELSE "send"]
  /\ UNCHANGED <<coordinatorVars, lanes, controls, commands, acks, replies, results,
                 cancelled, faults, upset>>

WGivesUp(w) ==
  /\ worker[w].pc = "work" /\ cancelled
  /\ worker' = [worker EXCEPT ![w].seen = Touched(w, "part"), ![w].pc = "rollback"]
  /\ UNCHANGED <<coordinatorVars, lanes, controls, commands, acks, replies, results,
                 cancelled, faults, upset>>

WFails(w) ==
  /\ worker[w].pc = "work" /\ worker[w].task.batch \in bad
  /\ worker' = [worker EXCEPT ![w].seen = Touched(w, "part"), ![w].pc = "report"]
  /\ UNCHANGED <<coordinatorVars, lanes, controls, commands, acks, replies, results,
                 cancelled, faults, upset>>

(* User code panics in the dataset, the transform or a snapshot of it (to  *)
(* restore a validated state must not panic), or it cancels the token it   *)
(* is given and goes on.                                                   *)
WPanic(w) ==
  /\ worker[w].pc \in {"work", "rollback"} /\ Fault /\ upset' = TRUE
  /\ worker[w].pc = "rollback" => commands[w] # <<>>
  /\ Become(w, "panic")
  /\ UNCHANGED <<coordinatorVars, lanes, controls, commands, acks, replies, results,
                 cancelled>>

WCancels(w) ==
  /\ worker[w].pc = "work" /\ ~cancelled /\ Fault
  /\ cancelled' = TRUE
  /\ UNCHANGED <<coordinatorVars, lanes, controls, commands, acks, replies, results,
                 worker, upset>>

WSend(w) ==
  LET task == worker[w].task
  IN  /\ worker[w].pc = "send"
      /\ Send(w, "batch", {task.batch},
              [kind |-> "batch", batch |-> task.batch, indices |-> task.indices,
               first |-> task.first,
               seen |-> SubSeq(worker[w].seen, 1, Len(worker[w].seen) - 1)])
      /\ Become(w, "loop")
      /\ UNCHANGED <<coordinatorVars, lanes, controls, commands, acks, replies,
                     cancelled, faults, upset>>

WSendCancelled(w) ==
  /\ worker[w].pc = "send" /\ cancelled
  /\ Become(w, "rollback")
  /\ UNCHANGED <<coordinatorVars, lanes, controls, commands, acks, replies, results,
                 cancelled, faults, upset>>

(* An error of a batch does not cancel the generation: CANCEL_ON_ERROR is  *)
(* false for lanes.                                                        *)
WReport(w) ==
  /\ worker[w].pc = "report"
  /\ Send(w, "error", {worker[w].task.batch}, None)
  /\ Become(w, "rollback")
  /\ UNCHANGED <<coordinatorVars, lanes, controls, commands, acks, replies, cancelled,
                 faults, upset>>

WReportPanic(w) ==
  /\ worker[w].pc = "panic"
  /\ Send(w, "panic", IF worker[w].task = None THEN {} ELSE {worker[w].task.batch}, None)
  /\ Become(w, "fatal")
  /\ UNCHANGED <<coordinatorVars, lanes, controls, commands, acks, replies, cancelled,
                 faults, upset>>

(* Lane::quiesced: the state of the first batch of this generation that is *)
(* not before the boundary, or the present state when there is none. A     *)
(* request of another generation is refused; user code may refuse too.     *)
Fault_OldestSnapshot(w, gen, boundary) ==
  IF worker[w].ring = <<>> THEN worker[w].seen ELSE worker[w].ring[1].seen

StateAt(w, gen, boundary) ==
  LET kept == SelectSeq(worker[w].ring,
                        LAMBDA s : s.gen = gen /\ s.batch >= boundary)
  IN  IF kept = <<>> THEN worker[w].seen ELSE Head(kept).seen

Fault_NotRestored(w, state) == worker[w].seen

(* Lane::quiesced restores the transform to what it answers.               *)
Rewound(w, state) == state

WRollback(w) ==
  LET ask   == Head(commands[w])
      state == StateAt(w, ask.gen, ask.boundary)
      fresh == ask.gen = worker[w].gen
  IN  /\ worker[w].pc = "rollback" /\ commands[w] # <<>>
      /\ commands' = [commands EXCEPT ![w] = Tail(@)]
      /\ \E valid \in BOOLEAN :
           /\ IF valid THEN UNCHANGED <<faults, upset>> ELSE Fault /\ upset' = TRUE
           /\ replies' = Append(replies, [worker |-> w, gen |-> ask.gen, state |-> state,
                                          valid |-> valid /\ fresh])
           /\ worker' = [worker EXCEPT ![w].pc = "drain", ![w].ring = <<>>,
                                       ![w].seen = IF valid /\ fresh THEN Rewound(w, state)
                                                                  ELSE @]
      /\ UNCHANGED <<coordinatorVars, lanes, controls, acks, results, cancelled>>

(* The lane's tasks are dropped up to one of another generation. The       *)
(* coordinator submits nothing while it waits for this.                    *)
WQuiesced(w) ==
  LET others == SelectSeq(lanes[w], LAMBDA t : t.gen # worker[w].gen)
  IN  /\ worker[w].pc = "drain"
      /\ Send(w, "quiesced", {}, None)
      /\ lanes' = [lanes EXCEPT ![w] = IF others = <<>> THEN <<>> ELSE Tail(others)]
      /\ worker' = [worker EXCEPT ![w].pc = "idle", ![w].task = None]
      /\ UNCHANGED <<coordinatorVars, controls, commands, acks, replies, cancelled,
                     faults, upset>>

(* Everything a worker waits for is also the shutdown of its pool.         *)
Fault_BarrierIgnoresShutdown(pc) == pc \notin {"work", "rollback", "done"}

Interruptible(pc) == pc \notin {"work", "done"}

WExit(w) ==
  /\ shutdown /\ Interruptible(worker[w].pc)
  /\ Become(w, "done")
  /\ UNCHANGED <<coordinatorVars, lanes, controls, commands, acks, replies, results,
                 cancelled, faults, upset>>

WorkerStep(w) ==
  /\ w \in DOMAIN worker
  /\ \/ WInit(w) \/ WApply(w) \/ WBegin(w) \/ WTake(w) \/ WQuit(w)
     \/ WDone(w) \/ WGivesUp(w) \/ WFails(w) \/ WSend(w) \/ WSendCancelled(w)
     \/ WReport(w) \/ WReportPanic(w) \/ WRollback(w) \/ WQuiesced(w) \/ WExit(w)

UserFault(w) == w \in DOMAIN worker /\ (WPanic(w) \/ WCancels(w))

-----------------------------------------------------------------------------
(* next().                                                                 *)

Leaves == IF worker # <<>> THEN Dropping("user") ELSE call' = "user" /\ UNCHANGED poolVars

(* stop, or stop_poisoned: nothing comes after this answer.                *)
Stop(i, answer) ==
  /\ it' = [i EXCEPT !.exhausted = TRUE, !.completed = {}, !.pending = None]
  /\ told' = answer
  /\ Leaves

Answer(kind) == [kind |-> kind]
Failed(b)    == [kind |-> "failed", batch |-> b]

(* begin_next, and the answers that need no batch.                         *)
NextAtOnce ==
  LET begun == [it EXCEPT !.boundary = FALSE]
  IN  /\ call = "user" /\ (it.exhausted \/ it.fault) /\ ~Plain(config)
      /\ IF it.exhausted
         THEN it' = begun /\ told' = Answer("over") /\ UNCHANGED <<call, poolVars>>
         ELSE Stop([begun EXCEPT !.fault = FALSE], Answer("fault"))
      /\ UNCHANGED <<loaderVars, pastVars, faults, upset>>

NextBegins ==
  /\ call = "user" /\ ~it.exhausted /\ ~it.fault /\ ~Serial(config)
  /\ call' = "next" /\ it' = [it EXCEPT !.boundary = FALSE]
  /\ UNCHANGED <<loaderVars, poolVars, pastVars, told, faults, upset>>

(* What became visible is a boundary, and the workers may forget what is   *)
(* before it.                                                              *)
Committed(i, sample) ==
  [i EXCEPT !.visible = @ + 1, !.boundary = TRUE, !.sample = sample,
            !.committed = i.visible + 1]

(* A batch drawn, transformed and collated by the caller's own thread.     *)
InThread ==
  LET b     == it.visible
      batch == FirstBatch(config, it.rest)
      begun == [it EXCEPT !.boundary = FALSE, !.rest = AfterBatch(config, @)]
      whole == [begun EXCEPT !.seen = Append(@, <<b, "whole">>),
                             !.logical = @ + Len(batch)]
      part  == [begun EXCEPT !.seen = Append(@, <<b, "part">>)]
  IN  \/ ~HasBatch(config, it.rest) /\ Stop(begun, Answer("end")) /\ UNCHANGED faults
      \/ /\ HasBatch(config, it.rest) /\ b \in bad
         /\ Stop(part, Failed(b)) /\ UNCHANGED faults
      \/ /\ HasBatch(config, it.rest) /\ b \notin bad
         /\ Stop(whole, Answer("fault")) /\ Fault
      \/ /\ HasBatch(config, it.rest) /\ b \notin bad
         /\ it' = Committed(whole, whole.logical)
         /\ told' = [kind |-> "batch", batch |-> b, indices |-> batch,
                     first |-> it.logical, seen |-> it.seen]
         /\ UNCHANGED <<call, poolVars, faults>>

(* next_serial.                                                            *)
NextSerial ==
  /\ call = "user" /\ ~it.exhausted /\ ~it.fault /\ Serial(config) /\ ~Plain(config)
  /\ InThread
  /\ UNCHANGED <<loaderVars, pastVars, upset>>

(* next() of the plain iterator: after its end nothing changes any more.   *)
NextPlain ==
  /\ call = "user" /\ Plain(config)
  /\ CASE it.exhausted ->
            told' = Answer("over") /\ UNCHANGED <<call, it, poolVars, faults>>
       [] ~it.exhausted /\ it.fault ->
            /\ Stop([it EXCEPT !.fault = FALSE, !.boundary = FALSE], Answer("fault"))
            /\ UNCHANGED faults
       [] OTHER -> InThread
  /\ UNCHANGED <<loaderVars, pastVars, upset>>

(* publish: the batch is collated, shown, and its credit refilled.         *)
Publish(i, out, rest) ==
  LET paid == [i EXCEPT !.outstanding = @ - 1]
      done == [Committed(paid, paid.ends[out.batch]) EXCEPT
                 !.ends = [b \in DOMAIN @ \ {out.batch} |-> @[b]]]
  IN  \/ /\ Fills(done, lanes, cancelled)
         /\ told' = out /\ call' = "user" /\ results' = rest
         /\ UNCHANGED <<controls, commands, acks, replies, worker, cancelled, shutdown,
                        quiet>>
      \/ Fault /\ Stop(paid, Answer("fault"))

Ready == {out \in it.completed : out.batch = it.visible}

NextDeferred ==
  /\ call = "next" /\ it.visible \in it.errors
  /\ Stop([it EXCEPT !.errors = @ \ {it.visible}], Failed(it.visible))
  /\ UNCHANGED <<loaderVars, pastVars, faults, upset>>

NextReady ==
  /\ call = "next" /\ it.visible \notin it.errors
  /\ \E out \in Ready : Publish([it EXCEPT !.completed = @ \ {out}], out, results)
  /\ UNCHANGED <<loaderVars, pastVars, upset>>

Starved == call = "next" /\ it.visible \notin it.errors /\ Ready = {}

NextEnds ==
  /\ Starved /\ it.outstanding = 0 /\ it.drained
  /\ Stop(it, Answer("end"))
  /\ UNCHANGED <<loaderVars, pastVars, faults, upset>>

Waiting == Starved /\ ~(it.outstanding = 0 /\ it.drained)

(* A completion in turn is published, one out of turn kept; an error waits *)
(* for its turn too (defer_error), a panic does not.                       *)
NextReceives ==
  LET m == Head(results)
  IN  /\ Waiting /\ results # <<>>
      /\ \/ /\ m.gen = it.gen /\ m.kind = "batch" /\ m.about = {it.visible}
            /\ Publish(it, m.out, Tail(results))
         \/ /\ m.gen = it.gen /\ m.kind = "panic"
            /\ Stop(it, Answer("panic")) /\ UNCHANGED faults
         \/ /\ ~(m.gen = it.gen /\ m.kind = "batch" /\ m.about = {it.visible})
            /\ ~(m.gen = it.gen /\ m.kind = "panic")
            /\ results' = Tail(results)
            /\ it' = CASE m.gen = it.gen /\ m.kind = "batch" ->
                            [it EXCEPT !.completed = @ \cup {m.out}]
                       [] m.gen = it.gen /\ m.kind = "error" ->
                            [it EXCEPT !.errors = @ \cup m.about]
                       [] OTHER -> it
            /\ UNCHANGED <<call, told, lanes, controls, commands, acks, replies, worker,
                           cancelled, shutdown, quiet, faults>>
      /\ UNCHANGED <<loaderVars, pastVars, upset>>

NextCancelled ==
  /\ Waiting /\ results = <<>> /\ cancelled
  /\ Stop(it, Answer("cancelled"))
  /\ UNCHANGED <<loaderVars, pastVars, faults, upset>>

-----------------------------------------------------------------------------
(* checkpoint(). One that is not at a boundary, or that would use up the    *)
(* generations, is refused and changes nothing.                            *)

AtBoundary ==
  /\ call = "user" /\ it.boundary /\ saves > 0
  /\ it.exhausted => Plain(config)
  /\ CanSave(config, it.visible, it.sample)

State(states, gen) ==
  [kind |-> "state", envelope |-> Envelope(config), epoch |-> epoch,
   next |-> it.visible, logical |-> it.sample,
   cursor |-> Cursor(config, epoch, it.sample), lanes |-> states,
   factoryGen |-> it.factoryGen, runGen |-> gen]

CheckpointInThread ==
  /\ saved' = State([w \in {0} |-> it.seen], it.gen)
  /\ saves' = saves - 1 /\ told' = Answer("saved")
  /\ UNCHANGED <<call, loaderVars, it, poolVars, origin, bad, lives, faults, upset>>

CheckpointSerial ==
  AtBoundary /\ Serial(config) /\ ~Plain(config) /\ CheckpointInThread

CheckpointPlain == AtBoundary /\ Plain(config) /\ CheckpointInThread

(* Every worker is asked for its state, then the generation is cancelled. A *)
(* lane that has not taken its last command makes the request wait.        *)
CheckpointBegins ==
  /\ AtBoundary /\ ~Serial(config) /\ it.gen + 1 < MaxU64
  /\ \A w \in Workers(config) : commands[w] = <<>>
  /\ commands' = [w \in Workers(config) |->
                    <<[kind |-> "rollback", gen |-> it.gen, boundary |-> it.visible]>>]
  /\ cancelled' = TRUE /\ call' = "quiesce" /\ quiet' = Quiet("checkpoint")
  /\ UNCHANGED <<loaderVars, it, lanes, controls, acks, replies, results, worker, shutdown,
                 pastVars, told, faults, upset>>

Poison ==
  /\ Stop([it EXCEPT !.boundary = FALSE], Answer("poisoned"))
  /\ UNCHANGED <<loaderVars, pastVars, faults, upset>>

AllQuiet == quiet.from = Workers(config)

(* quiesce_inner: what no worker should send now poisons the pool.         *)
OutOfPlace(m) ==
  \/ m.gen # it.gen \/ m.worker \in quiet.from
  \/ \E b \in m.about : b % config.workers # m.worker \/ b \in quiet.batches

QuiesceReceives ==
  LET m == Head(results)
  IN  /\ call = "quiesce" /\ ~AllQuiet /\ results # <<>>
      /\ \/ OutOfPlace(m) /\ Poison
         \/ /\ ~OutOfPlace(m)
            /\ results' = Tail(results)
            /\ quiet' = [quiet EXCEPT
                 !.batches = @ \cup m.about,
                 !.from    = @ \cup IF m.kind \in {"quiesced", "panic"} THEN {m.worker} ELSE {},
                 !.failed  = @ \/ m.kind = "panic"]
            /\ UNCHANGED <<call, loaderVars, it, lanes, controls, commands, acks, replies,
                           worker, cancelled, shutdown, pastVars, told, faults, upset>>

(* Barrier::collect: one good answer of every lane, and no other.          *)
Collected ==
  /\ Len(replies) = config.workers
  /\ {replies[k].worker : k \in 1 .. Len(replies)} = Workers(config)
  /\ \A k \in 1 .. Len(replies) : replies[k].gen = it.gen /\ replies[k].valid

StateOf(w) == replies[CHOOSE k \in 1 .. Len(replies) : replies[k].worker = w].state

CheckpointFails ==
  /\ call = "quiesce" /\ AllQuiet /\ (quiet.failed \/ ~Collected)
  /\ Poison

(* What the workers did beyond the boundary is forgotten and done again    *)
(* under the next generation.                                              *)
CheckpointEnds ==
  /\ call = "quiesce" /\ AllQuiet /\ ~quiet.failed /\ Collected
  /\ LET gen == it.gen + 1
         again == Iterator(gen, it.factoryGen,
                           Restored(config, Cursor(config, epoch, it.sample)),
                           it.visible, it.sample, FALSE)
     IN  /\ saved' = State([w \in Workers(config) |-> StateOf(w)], gen)
         /\ controls' = Begun(gen)
         /\ Fills(again, lanes, FALSE)
  /\ saves' = saves - 1 /\ told' = Answer("saved")
  /\ call' = "user" /\ cancelled' = FALSE /\ quiet' = Quiet("nothing")
  /\ results' = <<>> /\ replies' = <<>>
  /\ UNCHANGED <<loaderVars, commands, acks, worker, shutdown, origin, bad, lives, upset>>

-----------------------------------------------------------------------------
CoordinatorStep ==
  \/ AckReceived \/ ValidationFails \/ BuildEnds \/ IterEnds \/ JoinEnds
  \/ NextDeferred \/ NextReady \/ NextEnds \/ NextReceives \/ NextCancelled
  \/ QuiesceReceives \/ CheckpointFails \/ CheckpointEnds

CallerStep ==
  \/ Build \/ BuildResumed \/ SetEpoch
  \/ IterSerial \/ IterResumed \/ IterFresh \/ IterOverflow \/ DropIterator
  \/ NextAtOnce \/ NextBegins \/ NextSerial \/ NextPlain
  \/ CheckpointSerial \/ CheckpointPlain \/ CheckpointBegins

AllWorkers == UNION {Workers(c) : c \in Configs}

Next ==
  \/ CallerStep \/ CoordinatorStep \/ Crash
  \/ \E w \in AllWorkers : WorkerStep(w) \/ UserFault(w)

(* A call that has begun goes on, and so does every thread: user code      *)
(* returns. The caller owes nothing.                                       *)
Fairness ==
  /\ WF_vars(CoordinatorStep)
  /\ \A w \in AllWorkers : WF_vars(WorkerStep(w))

Spec == Init /\ [][Next]_vars /\ Fairness

-----------------------------------------------------------------------------
(* Properties.                                                             *)

(* What next() shows is what an epoch of the configuration the lineage      *)
(* began with yields at that place: the same indices, the same sample       *)
(* numbers, a transform that has seen exactly what it would have seen, and  *)
(* no batch skipped or repeated, whatever the workers prefetched, however   *)
(* often the iterator was saved, cancelled or resumed in another process.   *)
(* A batch that fails is told at its own turn, and the end only after the   *)
(* last batch (publish, next, resumed build).                               *)
ReplayExact ==
  [][told' # told =>
       /\ told'.kind = "batch"  => told' = Reference(origin, epoch, it.visible)
       /\ told'.kind = "failed" => told' = Failed(it.visible) /\ it.visible \in bad
       /\ told'.kind = "end"    => it.visible = Len(Batches(origin, epoch))]_vars

(* A state that checkpoint() returns describes one boundary in all its      *)
(* parts: the cursor is before the first sample of the next batch, and      *)
(* every lane's transform is as it was before the lane's first batch that   *)
(* the caller has not seen (Lane::quiesced, committed, collect).            *)
BoundaryExact ==
  saved # None =>
    /\ saved.logical = FirstSample(origin, saved.next)
    /\ saved.cursor.position = saved.logical
    /\ \A w \in DOMAIN saved.lanes :
         saved.lanes[w] = History(origin, w, saved.next)

(* The loader never makes itself panic or poison its pool: the ring of      *)
(* snapshots has room for every task a lane can hold, and the strict        *)
(* quiescence meets nothing it calls stale or duplicate, unless user code   *)
(* panicked or refused a snapshot (before_task, quiesce_inner, collect).    *)
OnlyUserPanics ==
  ~upset =>
    /\ \A w \in DOMAIN worker : worker[w].pc \notin {"panic", "fatal"}
    /\ told # Answer("poisoned") /\ told # Answer("panic")

(* Every call returns: build and iter that wait for acknowledgements, next  *)
(* that waits for a batch, checkpoint that waits for quiescence and the     *)
(* join of a dropped pool (validate_initializations, receive,               *)
(* quiesce_inner, shutdown).                                                *)
CallsReturn ==
  call \in {"validate", "next", "quiesce", "join"} ~> call \in {"none", "loader", "user"}

=============================================================================
