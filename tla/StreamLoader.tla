---------------------------- MODULE StreamLoader ----------------------------
(***************************************************************************)
(* The stream loader (stream.rs): every worker thread opens a source of    *)
(* its own, a shard, and reads, transforms and sends its records one by    *)
(* one; the caller's thread puts them back into the global order, if it    *)
(* was asked to, and cuts them into batches.                               *)
(*                                                                         *)
(* A worker reads a record only against a credit. The credit goes with the *)
(* record through the results channel and the reassembly buffer, and back  *)
(* into the worker's own channel when the record is consumed. A byte       *)
(* budget (memory.rs, module ByteBudget) may hold a record back as well.   *)
(*                                                                         *)
(* An iterator runs one generation of the pool's threads. A pool is owned  *)
(* by its iterator and joined with it, or persists: then closing the       *)
(* iterator waits until every worker is quiet. A deadline runs while       *)
(* next() waits; next() and the workers both watch it.                     *)
(***************************************************************************)
EXTENDS Integers, Sequences, FiniteSets

CONSTANTS Configs,        \* the loaders a caller may build, each with its shards
          MaxGeneration,  \* stands for u64::MAX as a generation number
          MaxSequence     \* stands for u64::MAX as a sequence number

(* Sizes are usize; a shard is what a factory's source will yield.         *)
ASSUME ConfigsAssumption ==
  \A c \in Configs :
    /\ c.workers \in Nat /\ c.prefetch \in Nat
    /\ c.shards \in [0 .. c.workers - 1 -> Seq([seq : Int, size : Nat])]

VARIABLES config,    \* the configuration and the factory's shards
          call,      \* what the caller's thread is doing
          nextGen,   \* StreamDataLoader.next_generation
          it,        \* the iterator
          pool,      \* what the coordinator knows of the pool's generation
          credits,   \* per worker, how many credits its channel holds
          controls,  \* per worker, the channel of generations to begin
          results,   \* the channel of completions
          worker,    \* the worker threads
          cancelled, \* the token of the generation, and of its byte budget
          shutdown,  \* the token of the pool
          deadline,  \* the deadline of the generation
          admitted,  \* the next sequence the byte budget admits (next_ordered)
          quiet,     \* what close() does when the generation is quiet
          told,      \* what the last call of next() returned
          faults     \* how often user code will still misbehave

vars == <<config, call, nextGen, it, pool, credits, controls, results, worker,
          cancelled, shutdown, deadline, admitted, quiet, told, faults>>

-----------------------------------------------------------------------------
(* A record of a shard: its sequence number, if it has one, and its bytes. *)
Unsequenced == -1

Workers  == 0 .. config.workers - 1
Capacity == config.workers * config.prefetch
Limited  == config.limit > 0

(* build_inner: what a configuration must be.                              *)
Valid(c) == c.workers > 0 /\ c.batchSize > 0 /\ c.prefetch > 0

NoIterator == [kind |-> "none", open |-> FALSE, completed |-> {}, interrupted |-> FALSE]
None == [kind |-> "none"]
Answer(kind) == [kind |-> kind]

NoPool == [poisoned |-> FALSE, terminal |-> {}, fatal |-> FALSE]
Asleep == [pc |-> "done", gen |-> 0, read |-> 0, held |-> FALSE, last |-> Unsequenced]

NoThreads ==
  /\ worker = <<>> /\ credits = <<>> /\ controls = <<>> /\ results = <<>>

Init ==
  /\ config \in {c \in Configs : Valid(c)}
  /\ call = "loader" /\ nextGen = 0 /\ it = NoIterator
  /\ pool = NoPool /\ NoThreads
  /\ cancelled = FALSE /\ shutdown = FALSE /\ deadline = "off" /\ admitted = 0
  /\ quiet = [poison |-> FALSE, then |-> "loader"]
  /\ told = None /\ faults = config.faults

Fault == faults > 0 /\ faults' = faults - 1

-----------------------------------------------------------------------------
(* The bytes of the records that were admitted and not consumed yet.       *)

Item(w, k) == config.shards[w][k]

Bytes(set) ==
  LET sum[S \in SUBSET set] ==
        IF S = {} THEN 0
        ELSE LET r == CHOOSE r \in S : TRUE IN Item(r[1], r[2]).size + sum[S \ {r}]
  IN  sum[set]

InResults == {<<m.worker, m.read>> : m \in {results[i] : i \in
                {j \in DOMAIN results : results[j].kind = "record"}}}

Used == Bytes({<<w, worker[w].read>> : w \in {v \in DOMAIN worker : worker[v].pc = "send"}}
                \cup InResults \cup it.completed)

-----------------------------------------------------------------------------
(* The coordinator's bookkeeping.                                          *)

(* return_credit for each of the records: how many each worker gets back,   *)
(* and whether a channel had no room for it.                               *)
Back(records) ==
  [w \in DOMAIN credits |-> credits[w] + Cardinality({r \in records : r[1] = w})]

Overfull(records) == \E w \in DOMAIN credits : Back(records)[w] > config.prefetch

Returned(records) ==
  [w \in DOMAIN credits |-> IF Back(records)[w] > config.prefetch
                            THEN config.prefetch ELSE Back(records)[w]]

(* account_parts, without the credit. *)
Accounted(p, w, terminal, fatal) ==
  [p EXCEPT !.fatal = @ \/ fatal, !.terminal = IF terminal THEN @ \cup {w} ELSE @]

Terminal(m) == m.kind \in {"end", "fatal"}

(* What a completion holds a credit for: its record, or nothing yet, 0.     *)
CreditOf(m) ==
  IF m.holds THEN {<<m.worker, IF m.kind = "record" THEN m.read ELSE 0>>} ELSE {}

AllTerminal == pool.terminal = Workers

(* shutdown: every token is cancelled, then the threads are joined. *)
Joining(then) ==
  /\ call' = "join" /\ shutdown' = TRUE
  /\ quiet' = [poison |-> config.persistent, then |-> then]

(* close() and the iterator's drop: the generation is cancelled before any *)
(* credit goes back, so that no worker reads on. An owned pool goes with    *)
(* its iterator, a persistent one is waited for. The drop does not wait if   *)
(* a credit could not go back.                                             *)
Leave(p, records, poisoned, then) ==
  /\ cancelled' = TRUE /\ deadline' = "off"
  /\ credits' = Returned(records)
  /\ pool' = p
  /\ IF config.persistent /\ ~(then = "loader" /\ Overfull(records))
     THEN /\ call' = "quiesce" /\ UNCHANGED shutdown
          /\ quiet' = [poison |-> poisoned \/ Overfull(records), then |-> then]
     ELSE Joining(then)

Closed(i) ==
  [i EXCEPT !.exhausted = TRUE, !.open = FALSE, !.completed = {}, !.partial = <<>>]

(* close(), with the answer next() gives: the records that were buffered,   *)
(* and those just received that are not wanted, return their credits.      *)
Close(i, p, extra, answer, poisoned) ==
  /\ it' = Closed(i) /\ told' = answer
  /\ IF i.open
     THEN Leave(p, i.completed \cup extra, poisoned, "user")
     ELSE UNCHANGED <<call, cancelled, shutdown, deadline, credits, pool, quiet>>

-----------------------------------------------------------------------------
(* iter().                                                                 *)

Iterator(gen, open, fault) ==
  [kind |-> "iterator", gen |-> gen, open |-> open, fault |-> fault,
   completed |-> {}, partial |-> <<>>, next |-> 0,
   complete |-> FALSE, exhausted |-> FALSE, yielded |-> {}, interrupted |-> FALSE,
   waiters |-> [w \in Workers |-> Unsequenced]]

(* A poisoned pool starts no generation, and the generations may be used   *)
(* up: the iterator has only that error to tell.                           *)
IterRefused ==
  /\ call = "loader" /\ (nextGen = MaxGeneration \/ pool.poisoned)
  /\ call' = "user" /\ it' = Iterator(nextGen, FALSE, TRUE)
  /\ nextGen' = IF nextGen = MaxGeneration THEN nextGen ELSE nextGen + 1
  /\ UNCHANGED <<config, pool, credits, controls, results, worker, cancelled, shutdown,
                 deadline, admitted, quiet, told, faults>>

(* StreamWorkerPool::new unless the pool persists, then start_generation.  *)
Iter ==
  /\ call = "loader" /\ nextGen < MaxGeneration /\ ~pool.poisoned
  /\ call' = "user" /\ it' = Iterator(nextGen, TRUE, FALSE) /\ nextGen' = nextGen + 1
  /\ controls' = [w \in Workers |-> <<nextGen>>]
  /\ IF worker = <<>>
     THEN /\ worker' = [w \in Workers |-> [Asleep EXCEPT !.pc = "start", !.gen = nextGen]]
          /\ credits' = [w \in Workers |-> config.prefetch]
     ELSE UNCHANGED <<worker, credits>>
  /\ pool' = NoPool /\ results' = <<>>
  /\ cancelled' = FALSE /\ shutdown' = FALSE /\ deadline' = "off" /\ admitted' = 0
  /\ UNCHANGED <<config, quiet, told, faults>>

(* The drop of an iterator that was not closed yet. *)
DropIterator ==
  /\ call = "user" /\ it' = NoIterator
  /\ IF it.open
     THEN Leave(pool, it.completed, FALSE, "loader")
     ELSE call' = "loader" /\ UNCHANGED <<cancelled, shutdown, deadline, credits, pool, quiet>>
  /\ UNCHANGED <<config, nextGen, controls, results, worker, admitted, told, faults>>

DropLoader ==
  /\ call = "loader"
  /\ IF worker = <<>> THEN call' = "gone" /\ UNCHANGED <<shutdown, quiet>> ELSE Joining("gone")
  /\ UNCHANGED <<config, nextGen, it, pool, credits, controls, results, worker, cancelled,
                 deadline, admitted, told, faults>>

(* quiesce: every completion is accounted for until each worker has sent   *)
(* its last, then the channel is drained.                                  *)
QuiesceReceives ==
  LET m == Head(results)
      credit == CreditOf(m)
  IN  /\ call = "quiesce" /\ results # <<>>
      /\ results' = Tail(results)
      /\ credits' = Returned(credit)
      /\ IF Overfull(credit)
         THEN Joining(quiet.then) /\ UNCHANGED pool
         ELSE /\ pool' = IF m.gen = nextGen - 1 \/ AllTerminal
                         THEN Accounted(pool, m.worker, Terminal(m), m.kind = "fatal")
                         ELSE pool
              /\ UNCHANGED <<call, shutdown, quiet>>
      /\ UNCHANGED <<config, nextGen, it, controls, worker, cancelled, deadline, admitted,
                     told, faults>>

QuiesceEnds ==
  /\ call = "quiesce" /\ AllTerminal /\ results = <<>>
  /\ IF pool.fatal \/ quiet.poison
     THEN Joining(quiet.then)
     ELSE call' = quiet.then /\ UNCHANGED <<shutdown, quiet>>
  /\ UNCHANGED <<config, nextGen, it, pool, credits, controls, results, worker, cancelled,
                 deadline, admitted, told, faults>>

(* A persistent pool that was poisoned stays, without threads. *)
JoinEnds ==
  /\ call = "join" /\ \A w \in DOMAIN worker : worker[w].pc = "done"
  /\ call' = quiet.then
  /\ pool' = [NoPool EXCEPT !.poisoned = quiet.poison]
  /\ worker' = <<>> /\ credits' = <<>> /\ controls' = <<>> /\ results' = <<>>
  /\ UNCHANGED <<config, nextGen, it, cancelled, shutdown, deadline, admitted, quiet, told,
                 faults>>

-----------------------------------------------------------------------------
(* next().                                                                 *)

(* The first answers, that receive nothing. *)
NextAtOnce ==
  /\ call = "user" /\ (it.exhausted \/ it.fault \/ it.complete)
  /\ CASE it.exhausted ->
            /\ told' = Answer("over")
            /\ UNCHANGED <<call, it, pool, credits, cancelled, shutdown, deadline, quiet>>
       [] ~it.exhausted /\ it.fault -> Close(it, pool, {}, Answer("refused"), FALSE)
       [] OTHER -> Close(it, pool, {}, Answer("end"), FALSE)
  /\ UNCHANGED <<config, nextGen, controls, results, worker, admitted, faults>>

NextBegins ==
  /\ call = "user" /\ ~it.exhausted /\ ~it.fault /\ ~it.complete
  /\ call' = "next"
  /\ UNCHANGED <<config, nextGen, it, pool, credits, controls, results, worker, cancelled,
                 shutdown, deadline, admitted, quiet, told, faults>>

(* finish_batch: the records are collated and shown; user code may fail.   *)
FinishBatch(i, credit) ==
  \/ /\ it' = [i EXCEPT !.partial = <<>>,
                        !.yielded = @ \cup {i.partial[k] : k \in DOMAIN i.partial}]
     /\ told' = [kind |-> "batch", records |-> i.partial]
     /\ call' = "user" /\ deadline' = "off" /\ credits' = Returned(credit)
     /\ UNCHANGED <<pool, cancelled, shutdown, quiet, faults>>
  \/ Fault /\ Close(i, pool, credit, Answer("collate"), FALSE)

(* consume: the record's credit goes back and it joins the batch.          *)
Consume(i, r) ==
  LET seq  == Item(r[1], r[2]).seq
      more == [i EXCEPT !.next = IF config.ordered THEN seq + 1 ELSE @,
                        !.partial = Append(@, r)]
  IN  CASE config.ordered /\ seq = MaxSequence ->
             Close(i, pool, {r}, Answer("protocol"), FALSE) /\ UNCHANGED faults
        [] ~(config.ordered /\ seq = MaxSequence) /\ Overfull({r}) ->
             Close(i, pool, {}, Answer("closed"), TRUE) /\ UNCHANGED faults
        [] OTHER ->
             IF Len(more.partial) = config.batchSize
             THEN FinishBatch(more, {r})
             ELSE /\ it' = more /\ credits' = Returned({r})
                  /\ UNCHANGED <<call, pool, cancelled, shutdown, deadline, quiet, told, faults>>

SeqNo(r) == Item(r[1], r[2]).seq

Fault_LowestBuffered == {r \in it.completed : \A q \in it.completed : SeqNo(r) <= SeqNo(q)}

(* The buffered record whose turn it is. *)
InTurn == {r \in it.completed : SeqNo(r) = it.next}

(* What next() looks at before it waits, in this order.                    *)
WindowFull == config.ordered /\ Cardinality(it.completed) = Capacity

Fault_WaitersForgotten == FALSE

(* Every worker that has not ended waits for the byte budget with a record *)
(* beyond the one that is missing.                                         *)
AllAhead ==
  /\ config.ordered /\ Limited /\ ~AllTerminal
  /\ \A w \in Workers \ pool.terminal : it.waiters[w] > it.next

(* The generation has ended before all it owed.                            *)
Missing ==
  config.ordered /\ (it.completed # {} \/ (\E n \in config.expected : it.next # n))

NextTakes ==
  /\ call = "next" /\ config.ordered
  /\ \E r \in InTurn : Consume([it EXCEPT !.completed = @ \ {r}], r)
  /\ UNCHANGED <<config, nextGen, controls, results, worker, admitted>>

Stalled == call = "next" /\ (config.ordered => InTurn = {})

NextGap ==
  /\ Stalled
  /\ WindowFull \/ AllAhead \/ (AllTerminal /\ Missing)
  /\ Close(it, pool, {}, Answer("protocol"), FALSE)
  /\ UNCHANGED <<config, nextGen, controls, results, worker, admitted, faults>>

NextEnds ==
  /\ Stalled /\ ~WindowFull /\ ~AllAhead /\ AllTerminal /\ ~Missing
  /\ IF it.partial = <<>> \/ config.dropLast
     THEN Close([it EXCEPT !.complete = TRUE], pool, {}, Answer("end"), FALSE)
          /\ UNCHANGED faults
     ELSE FinishBatch([it EXCEPT !.complete = TRUE], {})
  /\ UNCHANGED <<config, nextGen, controls, results, worker, admitted>>

Waiting == Stalled /\ ~WindowFull /\ ~AllAhead /\ ~AllTerminal

(* The deadline is armed once, when next() first has to wait. *)
NextArms ==
  /\ Waiting /\ config.timeout /\ deadline = "off"
  /\ deadline' = "armed"
  /\ UNCHANGED <<config, call, nextGen, it, pool, credits, controls, results, worker,
                 cancelled, shutdown, admitted, quiet, told, faults>>

Receives == Waiting /\ (config.timeout => deadline # "off")

Expire ==
  /\ deadline = "armed" /\ deadline' = "expired"
  /\ it' = [it EXCEPT !.interrupted = TRUE]
  /\ UNCHANGED <<config, call, nextGen, pool, credits, controls, results, worker, cancelled,
                 shutdown, admitted, quiet, told, faults>>

(* A record that breaks the order: without a number, passed, or twice.     *)
OutOfOrder(r) ==
  \/ SeqNo(r) = Unsequenced \/ SeqNo(r) < it.next
  \/ \E q \in it.completed : SeqNo(q) = SeqNo(r)

(* One completion; a queued one is preferred to an expiry (receive_ready_first). *)
NextReceives ==
  LET m      == Head(results)
      r      == <<m.worker, m.read>>
      credit == CreditOf(m)
      heard  == [it EXCEPT !.waiters[m.worker] = Unsequenced]
      calm   == UNCHANGED <<call, cancelled, shutdown, deadline, quiet, told, faults>>
  IN  /\ Receives /\ results # <<>>
      /\ results' = Tail(results)
      /\ CASE m.kind # "record" /\ Overfull(credit) ->
                Close(it, pool, {}, Answer("closed"), TRUE) /\ UNCHANGED faults
           [] m.gen # it.gen /\ ~Overfull(credit) ->
                credits' = Returned(credit) /\ UNCHANGED <<it, pool>> /\ calm
           [] m.gen = it.gen /\ m.kind \in {"failure", "fatal"} /\ ~Overfull(credit) ->
                /\ Close(heard, Accounted(pool, m.worker, Terminal(m), m.kind = "fatal"),
                         credit, Answer("failure"), m.kind = "fatal")
                /\ UNCHANGED faults
           [] m.gen = it.gen /\ m.kind = "end" /\ ~Overfull(credit) ->
                /\ pool' = Accounted(pool, m.worker, TRUE, FALSE)
                /\ it' = heard /\ credits' = Returned(credit) /\ calm
           [] m.gen = it.gen /\ m.kind = "waiting" ->
                /\ it' = [it EXCEPT !.waiters[m.worker] = SeqNo(r)]
                /\ UNCHANGED <<pool, credits>> /\ calm
           [] m.gen = it.gen /\ m.kind = "record" /\ ~config.ordered -> Consume(heard, r)
           [] m.gen = it.gen /\ m.kind = "record" /\ config.ordered /\ OutOfOrder(r) ->
                Close(heard, pool, {r}, Answer("protocol"), FALSE) /\ UNCHANGED faults
           [] m.gen = it.gen /\ m.kind = "record" /\ config.ordered /\ ~OutOfOrder(r) ->
                /\ it' = [heard EXCEPT !.completed = @ \cup {r}]
                /\ UNCHANGED <<pool, credits>> /\ calm
      /\ UNCHANGED <<config, nextGen, controls, worker, admitted>>

NextTimesOut ==
  /\ Receives /\ results = <<>> /\ deadline = "expired"
  /\ Close(it, pool, {}, Answer("timeout"), FALSE)
  /\ UNCHANGED <<config, nextGen, controls, results, worker, admitted, faults>>

NextCancelled ==
  /\ Receives /\ results = <<>> /\ cancelled
  /\ Close(it, pool, {}, Answer("cancelled"), FALSE)
  /\ UNCHANGED <<config, nextGen, controls, results, worker, admitted, faults>>

-----------------------------------------------------------------------------
(* The worker threads.                                                     *)

coordinatorVars == <<config, call, nextGen, pool, shutdown, deadline, quiet, told>>

(* WorkerContext::check. *)
Stopping == cancelled \/ deadline = "expired"

Become(w, pc) == worker' = [worker EXCEPT ![w].pc = pc]

Fault_EndKeepsCredit(kind) == kind \notin {"waiting", "end"}

(* Every completion but the announcement of a waiter gives a credit back.  *)
GivesBack(kind) == kind # "waiting"

(* A completion carries the worker's credit if it has one and gives it up. *)
Send(w, kind, pc) ==
  /\ Len(results) < Capacity
  /\ results' = Append(results, [worker |-> w, gen |-> worker[w].gen, kind |-> kind,
                                 read |-> worker[w].read,
                                 holds |-> GivesBack(kind) /\ worker[w].held])
  /\ worker' = [worker EXCEPT ![w].pc = pc, ![w].held = @ /\ ~GivesBack(kind)]

(* The initializer and the transform factory, then the generations. *)
WStart(w) ==
  /\ worker[w].pc = "start"
  /\ \/ Become(w, "idle") /\ UNCHANGED faults
     \/ Become(w, "dying") /\ Fault
  /\ UNCHANGED <<coordinatorVars, it, credits, controls, results, cancelled, admitted>>

WBegin(w) ==
  /\ worker[w].pc = "idle" /\ controls[w] # <<>>
  /\ worker' = [worker EXCEPT ![w] = [Asleep EXCEPT !.pc = "create", !.gen = Head(controls[w])]]
  /\ controls' = [controls EXCEPT ![w] = Tail(@)]
  /\ UNCHANGED <<coordinatorVars, it, credits, results, cancelled, admitted, faults>>

WCreate(w) ==
  /\ worker[w].pc = "create"
  /\ Become(w, IF Stopping THEN "end" ELSE "credit")
  /\ UNCHANGED <<coordinatorVars, it, credits, controls, results, cancelled, admitted, faults>>

(* A credit, and a look at the token and the deadline before the read.     *)
WAcquire(w) ==
  /\ worker[w].pc = "credit" /\ credits[w] > 0
  /\ credits' = [credits EXCEPT ![w] = @ - 1]
  /\ worker' = [worker EXCEPT ![w].held = TRUE, ![w].pc = IF Stopping THEN "end" ELSE "read"]
  /\ UNCHANGED <<coordinatorVars, it, controls, results, cancelled, admitted, faults>>

(* The cancellation wakes a worker that waits for a credit, for room in    *)
(* the results or for bytes.                                               *)
WQuit(w) ==
  /\ worker[w].pc \in {"credit", "waiting", "budget", "send"} /\ cancelled
  /\ Become(w, "end")
  /\ UNCHANGED <<coordinatorVars, it, credits, controls, results, cancelled, admitted, faults>>

(* A record is read and transformed, or the shard is at its end. Under a   *)
(* byte budget the numbers of an ordered shard must increase.              *)
WRead(w) ==
  LET k    == worker[w].read + 1
      seq  == Item(w, k).seq
      last == worker[w].last
  IN  /\ worker[w].pc = "read"
      /\ IF Stopping \/ k > Len(config.shards[w])
         THEN Become(w, "end")
         ELSE worker' = [worker EXCEPT
                ![w].read = k,
                ![w].last = IF config.ordered /\ Limited /\ seq > last THEN seq ELSE @,
                ![w].pc = CASE ~Limited -> "send"
                            [] Limited /\ ~config.ordered -> "budget"
                            [] Limited /\ config.ordered ->
                                 IF seq = Unsequenced \/ seq <= last THEN "fail" ELSE "waiting"]
      /\ UNCHANGED <<coordinatorVars, it, credits, controls, results, cancelled, admitted,
                     faults>>

(* User code fails or panics where the source is made, read or transformed. *)
WError(w) ==
  /\ worker[w].pc \in {"create", "read"} /\ Fault
  /\ \E pc \in {"fail", "dying"} : Become(w, pc)
  /\ UNCHANGED <<coordinatorVars, it, credits, controls, results, cancelled, admitted>>

(* User code cancels the token it is given. *)
WCancels(w) ==
  /\ worker[w].pc = "read" /\ ~cancelled /\ Fault
  /\ cancelled' = TRUE /\ it' = [it EXCEPT !.interrupted = TRUE]
  /\ UNCHANGED <<coordinatorVars, credits, controls, results, worker, admitted>>

(* An ordered worker announces the record it wants bytes for. *)
WWaiting(w) ==
  /\ worker[w].pc = "waiting" /\ Send(w, "waiting", "budget")
  /\ UNCHANGED <<coordinatorVars, it, credits, controls, cancelled, admitted, faults>>

(* ByteBudget::acquire, acquire_ordered. *)
WAdmitted(w) ==
  LET item == Item(w, worker[w].read)
  IN  /\ worker[w].pc = "budget" /\ ~cancelled
      /\ \/ /\ item.size > config.limit \/ (config.ordered /\ item.seq < admitted)
            /\ Become(w, "fail") /\ UNCHANGED admitted
         \/ /\ item.size <= config.limit - Used
            /\ config.ordered => item.seq = admitted
            /\ Become(w, "send")
            /\ admitted' = IF config.ordered THEN admitted + 1 ELSE admitted
      /\ UNCHANGED <<coordinatorVars, it, credits, controls, results, cancelled, faults>>

WSend(w) ==
  /\ worker[w].pc = "send" /\ Send(w, "record", "credit")
  /\ UNCHANGED <<coordinatorVars, it, credits, controls, cancelled, admitted, faults>>

(* The last completion of a generation gives back the credit in hand.      *)
WEnd(w) ==
  /\ worker[w].pc = "end" /\ Send(w, "end", "idle")
  /\ UNCHANGED <<coordinatorVars, it, credits, controls, cancelled, admitted, faults>>

(* An error is sent before the token is cancelled, and the end follows. *)
WFail(w) ==
  /\ worker[w].pc = "fail" /\ Send(w, "failure", "failed")
  /\ UNCHANGED <<coordinatorVars, it, credits, controls, cancelled, admitted, faults>>

WFailed(w) ==
  /\ worker[w].pc = "failed" /\ Become(w, "end") /\ cancelled' = TRUE
  /\ UNCHANGED <<coordinatorVars, it, credits, controls, results, admitted, faults>>

(* After a panic or a failed initialisation only shutdown() frees it. *)
WDie(w) ==
  /\ worker[w].pc = "dying" /\ Send(w, "fatal", "fatal")
  /\ UNCHANGED <<coordinatorVars, it, credits, controls, cancelled, admitted, faults>>

WExit(w) ==
  /\ shutdown /\ worker[w].pc \notin {"start", "create", "read", "done"}
  /\ Become(w, "done")
  /\ UNCHANGED <<coordinatorVars, it, credits, controls, results, cancelled, admitted, faults>>

WorkerStep(w) ==
  /\ w \in DOMAIN worker
  /\ \/ WStart(w) \/ WBegin(w) \/ WCreate(w) \/ WAcquire(w) \/ WQuit(w) \/ WRead(w)
     \/ WWaiting(w) \/ WAdmitted(w) \/ WSend(w) \/ WEnd(w) \/ WFail(w) \/ WFailed(w)
     \/ WDie(w) \/ WExit(w)

UserFault(w) == w \in DOMAIN worker /\ (WError(w) \/ WCancels(w))

-----------------------------------------------------------------------------
CoordinatorStep ==
  \/ NextTakes \/ NextGap \/ NextEnds \/ NextArms \/ NextReceives \/ NextTimesOut
  \/ NextCancelled \/ QuiesceReceives \/ QuiesceEnds \/ JoinEnds

CallerStep ==
  \/ IterRefused \/ Iter \/ DropIterator \/ DropLoader \/ NextAtOnce \/ NextBegins

AllWorkers == UNION {0 .. c.workers - 1 : c \in Configs}

Next ==
  \/ CallerStep \/ CoordinatorStep \/ Expire
  \/ \E w \in AllWorkers : WorkerStep(w) \/ UserFault(w)

(* A call that has begun goes on and so does every thread; user code       *)
(* returns. The caller owes nothing, and a deadline need not expire.       *)
Fairness ==
  /\ WF_vars(CoordinatorStep)
  /\ \A w \in AllWorkers : WF_vars(WorkerStep(w))

Spec == Init /\ [][Next]_vars /\ Fairness

-----------------------------------------------------------------------------
(* Properties.                                                             *)

(* A worker's credits are all somewhere while its pool lives: in its        *)
(* channel, in its hand, with a completion or with a buffered record. None  *)
(* is lost by an end, an error, a cancellation or an early drop, and none   *)
(* returned twice, over all the generations of a persistent pool            *)
(* (return_credit, account_parts, quiesce, close).                          *)
CreditsExact ==
  worker # <<>> /\ ~shutdown =>
    \A w \in Workers :
      credits[w] + (IF worker[w].held THEN 1 ELSE 0)
        + Cardinality({k \in DOMAIN results : results[k].worker = w /\ results[k].holds})
        + Cardinality({r \in it.completed : r[1] = w}) = config.prefetch

Sound ==
  LET numbers == {SeqNo(r) : r \in UNION {{w} \X DOMAIN config.shards[w] : w \in Workers}}
      total   == Cardinality(UNION {{w} \X DOMAIN config.shards[w] : w \in Workers})
  IN  /\ config.ordered => numbers = 0 .. total - 1 /\ MaxSequence \notin numbers
      /\ \A n \in config.expected : n = total
      /\ \A w \in Workers : \A i, j \in DOMAIN config.shards[w] :
           /\ config.ordered /\ i < j => Item(w, i).seq < Item(w, j).seq
           /\ Limited => Item(w, i).size <= config.limit

Rest == UNION {{w} \X DOMAIN config.shards[w] : w \in Workers} \ it.yielded

(* What next() tells is true. A batch goes on where the last one stopped:  *)
(* with the next numbers, or, unordered, with each shard's next records,    *)
(* none twice; only the last one is short. An end comes after every record, *)
(* but for a dropped tail, unless the deadline expired or user code         *)
(* cancelled; a protocol error is told of unsound shards only, or then; and *)
(* a failure only when user code failed (next, consume, finish_batch).      *)
DeliveryExact ==
  [][told' # told =>
       /\ told'.kind = "batch" =>
            /\ \A k \in DOMAIN told'.records :
                 /\ told'.records[k] \in Rest
                 /\ config.ordered => SeqNo(told'.records[k]) = Cardinality(it.yielded) + k - 1
                 /\ (~config.ordered \/ Sound) =>
                      \A r \in Rest : r[1] = told'.records[k][1] /\ r[2] < told'.records[k][2] =>
                        \E j \in 1 .. k - 1 : told'.records[j] = r
            /\ Len(told'.records) <= config.batchSize
            /\ Len(told'.records) < config.batchSize =>
                 it'.complete /\ (it.interrupted \/ Cardinality(Rest) = Len(told'.records))
       /\ told'.kind = "end" =>
            it.interrupted \/ Cardinality(Rest) < IF config.dropLast THEN config.batchSize ELSE 1
       /\ told'.kind = "protocol" => it.interrupted \/ ~Sound
       /\ told'.kind \in {"failure", "collate"} => faults' < config.faults \/ ~Sound
       /\ told'.kind \in {"timeout", "cancelled"} => it.interrupted
       /\ told'.kind # "closed"]_vars

(* An ordered stream without a byte limit waits for a number nobody can     *)
(* bring: whoever has not ended has all its credits in the reassembly       *)
(* buffer, beyond the number, and the buffer is not full, because those who *)
(* ended left their share of it unused.                                    *)
StalledBehindGap ==
  /\ Waiting /\ config.ordered /\ ~Limited /\ ~config.timeout /\ ~cancelled
  /\ results = <<>>
  /\ \A w \in Workers \ pool.terminal :
       Cardinality({r \in it.completed : r[1] = w}) = config.prefetch

(* Every call returns: next() that waits for a record, the closing of an   *)
(* iterator that waits for quiet workers, and the join of a pool; if the    *)
(* deadline is no help, the workers are (receive, quiesce, shutdown). The   *)
(* one exception is a next() stalled behind a gap.                         *)
CallsReturn ==
  call \in {"next", "quiesce", "join"} ~>
    call \in {"user", "loader", "gone"} \/ StalledBehindGap

(* Higher numbers that exhaust the window are reported as a protocol error  *)
(* (stream.rs:1554-1557, README.md:314-316), also when the window that is   *)
(* left is that of the shards that go on.                                  *)
GapReported == StalledBehindGap ~> told.kind = "protocol"

=============================================================================
