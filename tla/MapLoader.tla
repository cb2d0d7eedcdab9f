------------------------------ MODULE MapLoader ------------------------------
(***************************************************************************)
(* The positive-worker map loader: the coordinator that owns the iterator  *)
(* (crates/rusttorch-data/src/loader.rs) and the worker pool it drives     *)
(* (crates/rusttorch-data/src/worker.rs).                                  *)
(*                                                                         *)
(* One coordinator thread submits batch s to the task lane of worker       *)
(* s % Workers, receives completions from the one shared results channel   *)
(* and yields them.  Each iterator is a generation.  A persistent pool     *)
(* keeps its threads between generations and separates them by waiting for *)
(* one Quiesced message per worker; an owned pool is shut down and joined. *)
(*                                                                         *)
(* A batch is its sequence number.  With a byte budget every batch weighs  *)
(* one byte (module ByteBudget covers sizes and the condition variable).   *)
(* User code - dataset, transform, initializer, sampler, collator - is a   *)
(* step that terminates; each of its failures spends one of MaxFaults.     *)
(***************************************************************************)
EXTENDS Integers, Sequences, FiniteSets, SequencesExt

CONSTANTS
    Workers,        \* worker threads of the pool
    Prefetch,       \* bound: the largest prefetch_factor
    Batches,        \* batches in one iterator's plan
    MaxFaults,      \* bound: failures of user code in one behaviour
    FaultKinds,     \* which failures to explore
    Modes           \* the builder configurations to check

ASSUME WorkersAssumption == Workers \in Nat \ {0}
ASSUME PrefetchAssumption == Prefetch \in Nat \ {0}
ASSUME BatchesAssumption == Batches \in Nat
ASSUME MaxFaultsAssumption == MaxFaults \in Nat
ASSUME FaultKindsAssumption ==
    FaultKinds \subseteq {"init", "error", "panic", "cancel", "oversize", "source", "collate"}

W == 0 .. Workers - 1
Plan == 0 .. Batches - 1

\* The builder's settings; limit = 0 is a loader without prefetch_bytes. cancels
\* says whether user code may cancel the public token; the caller creates at
\* most as many iterators as generations says (a bound).
ModeType == [persistent : BOOLEAN, ordered : BOOLEAN, timeout : BOOLEAN, cancels : BOOLEAN,
             limit : Nat, prefetch : 1 .. Prefetch, generations : Nat]
ASSUME ModesAssumption == Modes \subseteq ModeType

VARIABLES
    mode,           \* the configuration of this loader
    \* the coordinator
    cpc,            \* where the coordinator thread is
    after,          \* where it goes when a quiesce or a join has ended
    gen,            \* generation of the current iterator
    drawn,          \* batches taken from the sampler's iterator
    nextSub, nextVis, outstanding,
    pending,        \* pending_submission holds the task nextSub
    srcDone, subClosed, exhausted, hasPool,
    pendingErr,     \* pending_error is Some
    completed,      \* batches received ahead of their turn
    acked, fatal,   \* quiesce_inner's local count
    delivered, outcome,     \* history: what the iterator has yielded
    \* the pool and the channels
    pool, shutdown, control, lane, results,
    \* one generation's context
    cancelled,      \* generations whose token is cancelled
    budgetClosed,   \* generations whose byte budget is cancelled
    used, nextAdmit,
    deadline,
    wk,             \* the worker threads
    faults          \* failures of user code still allowed

submitVars == <<drawn, nextSub, pending, srcDone, subClosed>>
creditVars == <<nextVis, outstanding>>
iterVars == <<exhausted, hasPool, pendingErr, completed>>
quiesceVars == <<acked, fatal>>
historyVars == <<delivered, outcome>>
poolVars == <<pool, shutdown, control>>
budgetVars == <<used, nextAdmit>>
vars == <<mode, cpc, after, gen, submitVars, creditVars, iterVars, quiesceVars, historyVars,
          poolVars, lane, results, cancelled, budgetClosed, budgetVars, deadline,
          wk, faults>>

None == -1

CoordinatorStates == {"out", "fill", "submit", "user", "next", "recv",
                      "quiesce", "join", "gone"}
WorkerStates == {"absent", "spawn", "idle", "poll", "work", "acquire", "send",
                 "report", "failed", "closing", "drain", "quiesced", "die",
                 "dead", "exited"}
Task == [gen : Nat, seq : Plan]
Completion == [worker : W, gen : Nat, seq : Plan \cup {None},
               kind : {"batch", "error", "init", "panic", "quiesced"}]
WorkerType == [pc : WorkerStates, gen : Nat, seq : Plan \cup {None},
               kind : {"none", "init", "panic"}]

CoordinatorTypeOK ==
    /\ mode \in Modes
    /\ cpc \in CoordinatorStates
    /\ after \in {"user", "out", "gone"}
    /\ gen \in Nat
    /\ drawn \in 0 .. Batches /\ nextSub \in Nat /\ nextVis \in Nat
    /\ outstanding \in Int
    /\ pending \in BOOLEAN /\ srcDone \in BOOLEAN /\ subClosed \in BOOLEAN
    /\ exhausted \in BOOLEAN /\ hasPool \in BOOLEAN /\ pendingErr \in BOOLEAN
    /\ completed \subseteq Plan
    /\ acked \subseteq W
    /\ fatal \in BOOLEAN
    /\ delivered \in Seq(Plan)
    /\ outcome \in {"open", "end", "timeout", "cancelled", "error"}

PoolTypeOK ==
    /\ pool \in {"none", "live", "poisoned"}
    /\ shutdown \in BOOLEAN
    /\ control \in [W -> Nat]
    /\ lane \in [W -> Seq(Task)]
    /\ results \in Seq(Completion)
    /\ cancelled \subseteq Nat
    /\ budgetClosed \subseteq Nat
    /\ used \in Int
    /\ nextAdmit \in Nat
    /\ deadline \in {"off", "armed", "expired"}
    /\ wk \in [W -> WorkerType]
    /\ faults \in 0 .. MaxFaults

\* The bound on outstanding credits, and the size of the results channel
Capacity == Workers * mode.prefetch

\* The types, and the capacities of the bounded channels
TypeOK ==
    /\ CoordinatorTypeOK
    /\ PoolTypeOK
    /\ \A w \in W : Len(lane[w]) <= mode.prefetch
    /\ Len(results) <= Capacity

NoWorker == [pc |-> "absent", gen |-> 0, seq |-> None, kind |-> "none"]

Init ==
    /\ mode \in Modes
    /\ cpc = "out" /\ after = "user" /\ gen = 0
    /\ drawn = 0 /\ nextSub = 0 /\ nextVis = 0 /\ outstanding = 0
    /\ pending = FALSE /\ srcDone = FALSE /\ subClosed = FALSE
    /\ exhausted = FALSE /\ hasPool = FALSE /\ pendingErr = FALSE
    /\ completed = {} /\ acked = {} /\ fatal = FALSE
    /\ delivered = <<>> /\ outcome = "open"
    /\ pool = "none" /\ shutdown = FALSE
    /\ control = [w \in W |-> 0]
    /\ lane = [w \in W |-> <<>>]
    /\ results = <<>>
    /\ cancelled = {} /\ budgetClosed = {}
    /\ used = 0 /\ nextAdmit = 0
    /\ deadline = "off"
    /\ wk = [w \in W |-> NoWorker]
    /\ faults = MaxFaults

-----------------------------------------------------------------------------
\* Deliberate faults: each replaces a definition below it in a mutation run
Fault_LaneTakesOneMore(w) == Len(lane[w]) > mode.prefetch
Fault_RouteByCredits(s) == outstanding % Workers
Fault_ForgetPending == FALSE
Fault_NoTurn(s) == FALSE
Fault_DropAhead(s) == completed
Fault_CreditNotReturned == outstanding
Fault_OnlyQuiesced(m) == m.kind = "quiesced"
Fault_QuiesceOnFirst(a) == a # {}
Fault_PermitKept(w) == used

-----------------------------------------------------------------------------
(* Shared by the coordinator and the workers *)

\* The worker that runs batch s: batch_sequence % workers
Lane(s) == s % Workers

\* TrySendError::Full on a task lane
LaneFull(w) == Len(lane[w]) >= mode.prefetch

Weight == IF mode.limit > 0 THEN 1 ELSE 0

\* The token of generation g is cancelled; its deadline has passed
TokenCancelled(g) == g \in cancelled
DeadlinePassed(g) == g = gen /\ deadline = "expired"

\* WorkerContext::check fails
CheckFails(g) == TokenCancelled(g) \/ DeadlinePassed(g)

\* A completion sent by worker w in generation g
Message(w, g, s, k) == [worker |-> w, gen |-> g, seq |-> s, kind |-> k]

\* The results channel accepts a message
CanSend == Len(results) < Capacity /\ ~shutdown

\* Permits that travel with the batches in a queue of completions
PermitsIn(q) == Weight * Cardinality({i \in DOMAIN q : q[i].kind = "batch"})

\* One of the allowed failures happens
Fault(kind) == kind \in FaultKinds /\ faults > 0 /\ faults' = faults - 1

-----------------------------------------------------------------------------
(* A worker thread: run_worker and run_generation *)

Goto(w, state) == wk' = [wk EXCEPT ![w].pc = state]

workerFrame == <<mode, cpc, after, gen, submitVars, creditVars, iterVars,
                 quiesceVars, historyVars, pool, shutdown, deadline>>

\* Initializer and transform factory succeed
WInit(w) ==
    /\ wk[w].pc = "spawn"
    /\ Goto(w, "idle")
    /\ UNCHANGED <<workerFrame, control, lane, results, cancelled, budgetClosed, budgetVars, faults>>

\* One of them fails, or panics: the thread reports it and waits for shutdown
WInitFails(w) ==
    /\ wk[w].pc = "spawn"
    /\ \E k \in {"init", "panic"} :
          Fault(k) /\ wk' = [wk EXCEPT ![w].pc = "die", ![w].kind = k]
    /\ UNCHANGED <<workerFrame, control, lane, results, cancelled, budgetClosed, budgetVars>>

\* WorkerControl::Begin
WBegin(w) ==
    /\ wk[w].pc = "idle" /\ control[w] # 0
    /\ wk' = [wk EXCEPT ![w].pc = "poll", ![w].gen = control[w]]
    /\ control' = [control EXCEPT ![w] = 0]
    /\ UNCHANGED <<workerFrame, lane, results, cancelled, budgetClosed, budgetVars, faults>>

\* A task is received: it is dropped if the generation is over or the task is
\* tagged with another generation
WTake(w) ==
    /\ wk[w].pc = "poll" /\ lane[w] # <<>>
    /\ lane' = [lane EXCEPT ![w] = Tail(@)]
    /\ LET task == Head(lane[w])
       IN  wk' = IF CheckFails(wk[w].gen) THEN [wk EXCEPT ![w].pc = "drain"]
                 ELSE IF task.gen # wk[w].gen THEN wk
                 ELSE [wk EXCEPT ![w].pc = "work", ![w].seq = task.seq]
    /\ UNCHANGED <<workerFrame, control, results, cancelled, budgetClosed, budgetVars, faults>>

\* The cancellation signal wakes a worker that waits for a task
WQuit(w) ==
    /\ wk[w].pc = "poll" /\ TokenCancelled(wk[w].gen)
    /\ Goto(w, "drain")
    /\ UNCHANGED <<workerFrame, control, lane, results, cancelled, budgetClosed, budgetVars, faults>>

\* The dataset and every transform returned Ok
WFinish(w) ==
    /\ wk[w].pc = "work"
    /\ IF CheckFails(wk[w].gen) THEN wk' = [wk EXCEPT ![w].pc = "drain", ![w].seq = None]
       ELSE Goto(w, IF mode.limit > 0 THEN "acquire" ELSE "send")
    /\ UNCHANGED <<workerFrame, control, lane, results, cancelled, budgetClosed, budgetVars, faults>>

\* The dataset or a transform returned Err, or the wrong number of samples; a
\* cooperative one also does so because it was cancelled or timed out
WFail(w) ==
    /\ wk[w].pc = "work"
    /\ IF CheckFails(wk[w].gen) THEN UNCHANGED faults ELSE Fault("error")
    /\ Goto(w, "report")
    /\ UNCHANGED <<workerFrame, control, lane, results, cancelled, budgetClosed, budgetVars>>

WPanic(w) ==
    /\ wk[w].pc = "work" /\ Fault("panic")
    /\ wk' = [wk EXCEPT ![w].pc = "die", ![w].kind = "panic"]
    /\ UNCHANGED <<workerFrame, control, lane, results, cancelled, budgetClosed, budgetVars>>

\* User code cancels the public token of its context
WUserCancel(w) ==
    /\ wk[w].pc = "work" /\ ~TokenCancelled(wk[w].gen) /\ mode.cancels
    /\ Fault("cancel")
    /\ cancelled' = cancelled \cup {wk[w].gen}
    /\ UNCHANGED <<workerFrame, wk, control, lane, results, budgetClosed, budgetVars>>

\* ByteBudget::acquire or acquire_ordered returns a permit
WAcquire(w) ==
    /\ wk[w].pc = "acquire" /\ wk[w].gen \notin budgetClosed
    /\ mode.ordered => wk[w].seq = nextAdmit
    /\ Weight <= mode.limit - used
    /\ used' = used + Weight
    /\ nextAdmit' = IF mode.ordered THEN nextAdmit + 1 ELSE nextAdmit
    /\ Goto(w, "send")
    /\ UNCHANGED <<workerFrame, control, lane, results, cancelled, budgetClosed, faults>>

\* BudgetError::Cancelled
WAcquireCancelled(w) ==
    /\ wk[w].pc = "acquire" /\ wk[w].gen \in budgetClosed
    /\ wk' = [wk EXCEPT ![w].pc = "drain", ![w].seq = None]
    /\ UNCHANGED <<workerFrame, control, lane, results, cancelled, budgetClosed, budgetVars, faults>>

\* BudgetError::Oversize
WOversize(w) ==
    /\ wk[w].pc = "acquire" /\ wk[w].gen \notin budgetClosed
    /\ Fault("oversize")
    /\ Goto(w, "report")
    /\ UNCHANGED <<workerFrame, control, lane, results, cancelled, budgetClosed, budgetVars>>

WSend(w) ==
    /\ wk[w].pc = "send" /\ CanSend
    /\ results' = Append(results, Message(w, wk[w].gen, wk[w].seq, "batch"))
    /\ wk' = [wk EXCEPT ![w].pc = "poll", ![w].seq = None]
    /\ UNCHANGED <<workerFrame, control, lane, cancelled, budgetClosed, budgetVars, faults>>

\* What the budget counts when worker w drops the permit it holds
UsedAfterDrop(w) == used - (IF wk[w].pc = "send" THEN Weight ELSE 0)

\* The cancellation signal wins the select: the batch and its permit drop
WSendCancelled(w) ==
    /\ wk[w].pc = "send" /\ TokenCancelled(wk[w].gen)
    /\ used' = UsedAfterDrop(w)
    /\ wk' = [wk EXCEPT ![w].pc = "drain", ![w].seq = None]
    /\ UNCHANGED <<workerFrame, control, lane, results, cancelled, budgetClosed, nextAdmit, faults>>

\* send_generation_failure; a sent failure goes on to cancel the generation
WReport(w) ==
    /\ wk[w].pc = "report" /\ CanSend
    /\ results' = Append(results, Message(w, wk[w].gen, wk[w].seq, "error"))
    /\ wk' = [wk EXCEPT ![w].pc = "failed", ![w].seq = None]
    /\ UNCHANGED <<workerFrame, control, lane, cancelled, budgetClosed, budgetVars, faults>>

\* WorkerRunContext::cancel: the byte budget first, then the token
WCloseBudget(w) ==
    /\ wk[w].pc = "failed" /\ mode.limit > 0
    /\ budgetClosed' = budgetClosed \cup {wk[w].gen}
    /\ Goto(w, "closing")
    /\ UNCHANGED <<workerFrame, control, lane, results, cancelled, budgetVars, faults>>

WCancelGeneration(w) ==
    /\ wk[w].pc = IF mode.limit > 0 THEN "closing" ELSE "failed"
    /\ cancelled' = cancelled \cup {wk[w].gen}
    /\ Goto(w, "drain")
    /\ UNCHANGED <<workerFrame, control, lane, results, budgetClosed, budgetVars, faults>>

\* The drain loop has received a task and goes on only if it is its own
DrainGoesOn(w) == Head(lane[w]).gen = wk[w].gen

\* while let Ok(task) = tasks.try_recv(): one iteration
WDrain(w) ==
    /\ wk[w].pc = "drain"
    /\ IF lane[w] = <<>> THEN lane' = lane /\ Goto(w, "quiesced")
       ELSE /\ lane' = [lane EXCEPT ![w] = Tail(@)]
            /\ IF DrainGoesOn(w) THEN wk' = wk ELSE Goto(w, "quiesced")
    /\ UNCHANGED <<workerFrame, control, results, cancelled, budgetClosed, budgetVars, faults>>

WQuiesced(w) ==
    /\ wk[w].pc = "quiesced" /\ CanSend
    /\ results' = Append(results, Message(w, wk[w].gen, None, "quiesced"))
    /\ Goto(w, "idle")
    /\ UNCHANGED <<workerFrame, control, lane, cancelled, budgetClosed, budgetVars, faults>>

\* WorkerInit, TransformInit or Panic: the thread then only waits for shutdown
WDie(w) ==
    /\ wk[w].pc = "die" /\ CanSend
    /\ results' = Append(results, Message(w, wk[w].gen, wk[w].seq, wk[w].kind))
    /\ wk' = [wk EXCEPT ![w].pc = "dead", ![w].seq = None]
    /\ UNCHANGED <<workerFrame, control, lane, cancelled, budgetClosed, budgetVars, faults>>

\* Every wait of a worker also watches the shutdown token; user code in
\* progress ends first
WExit(w) ==
    /\ shutdown /\ wk[w].pc \in {"idle", "poll", "send", "report", "quiesced", "die", "dead"}
    /\ used' = UsedAfterDrop(w)
    /\ wk' = [wk EXCEPT ![w].pc = "exited", ![w].seq = None]
    /\ UNCHANGED <<workerFrame, control, lane, results, cancelled, budgetClosed, nextAdmit, faults>>

\* What a worker does when no user code fails
WorkerStep(w) ==
    \/ WInit(w) \/ WBegin(w) \/ WTake(w) \/ WQuit(w) \/ WFinish(w)
    \/ WAcquire(w) \/ WAcquireCancelled(w) \/ WSend(w) \/ WSendCancelled(w)
    \/ WReport(w) \/ WCloseBudget(w) \/ WCancelGeneration(w)
    \/ WDrain(w) \/ WQuiesced(w) \/ WDie(w) \/ WExit(w)

WorkerFault(w) ==
    WInitFails(w) \/ WFail(w) \/ WPanic(w) \/ WUserCancel(w) \/ WOversize(w)

-----------------------------------------------------------------------------
(* The coordinator: OwnedDataLoader::iter *)

\* The fields of a fresh WorkerLoaderIter and of its generation's context
FreshIterator ==
    /\ gen' = gen + 1
    /\ drawn' = 0 /\ nextSub' = 0 /\ nextVis' = 0 /\ outstanding' = 0
    /\ pending' = FALSE /\ srcDone' = FALSE /\ subClosed' = FALSE
    /\ exhausted' = FALSE /\ completed' = {}
    /\ delivered' = <<>> /\ outcome' = "open"
    /\ used' = 0 /\ nextAdmit' = 0 /\ deadline' = "off"

\* WorkerPool::start_generation sends Begin to every worker
Begin ==
    /\ \A w \in W : control[w] = 0
    /\ control' = [w \in W |-> gen']
    /\ hasPool' = TRUE /\ pendingErr' = FALSE
    /\ cpc' = "fill"

\* The iterator of a new pool
IterNewPool ==
    /\ cpc = "out" /\ gen < mode.generations /\ pool = "none"
    /\ FreshIterator
    /\ pool' = "live"
    /\ wk' = [w \in W |-> [NoWorker EXCEPT !.pc = "spawn", !.gen = gen']]
    /\ Begin
    /\ UNCHANGED <<mode, after, quiesceVars, shutdown, lane, results,
                   cancelled, budgetClosed, faults>>

\* The iterator of a persistent pool that finished an earlier generation
IterReusePool ==
    /\ cpc = "out" /\ gen < mode.generations /\ pool = "live"
    /\ FreshIterator
    /\ Begin
    /\ UNCHANGED <<mode, after, quiesceVars, pool, shutdown, lane, results,
                   cancelled, budgetClosed, wk, faults>>

\* iter() ends early with a deferred error and no pool: a poisoned persistent
\* pool is never rebuilt, or the plan's epoch() or iter() panicked
IterWithError ==
    /\ cpc = "out" /\ gen < mode.generations
    /\ \/ pool = "poisoned" /\ UNCHANGED faults
       \/ Fault("source")
    /\ FreshIterator
    /\ hasPool' = FALSE /\ pendingErr' = TRUE
    /\ cpc' = "user"
    /\ UNCHANGED <<mode, after, quiesceVars, poolVars, lane, results,
                   cancelled, budgetClosed, wk>>

-----------------------------------------------------------------------------
(* The coordinator: fill_available, submit_one, try_submit *)

fillFrame == <<mode, after, gen, iterVars, quiesceVars, historyVars, poolVars,
               results, cancelled, budgetClosed, budgetVars, deadline, wk>>

CanFill == outstanding < Capacity /\ ~srcDone /\ ~subClosed

FillDone ==
    /\ cpc = "fill" /\ ~CanFill
    /\ cpc' = "user"
    /\ UNCHANGED <<fillFrame, submitVars, creditVars, lane, faults>>

\* The sampler has no more batches
FillSourceEnds ==
    /\ cpc = "fill" /\ CanFill /\ ~pending /\ drawn = Batches
    /\ srcDone' = TRUE
    /\ cpc' = "user"
    /\ UNCHANGED <<fillFrame, drawn, nextSub, pending, subClosed, creditVars, lane, faults>>

\* The sampler panics
FillSourcePanics ==
    /\ cpc = "fill" /\ CanFill /\ ~pending /\ Fault("source")
    /\ pendingErr' = TRUE /\ subClosed' = TRUE
    /\ cpc' = "user"
    /\ UNCHANGED <<mode, after, gen, exhausted, hasPool, completed, quiesceVars,
                   historyVars, poolVars, results, cancelled, budgetClosed,
                   budgetVars, deadline, wk, drawn, nextSub, pending, srcDone,
                   creditVars, lane>>

\* The next task is the pending one or a new batch of the sampler
NextTask == pending \/ drawn < Batches
DrawnWithTask == IF pending THEN drawn ELSE drawn + 1

\* WorkerPool::submit finds the generation's token cancelled
FillClosed ==
    /\ cpc = "fill" /\ CanFill /\ NextTask /\ TokenCancelled(gen)
    /\ drawn' = DrawnWithTask
    /\ pending' = FALSE
    /\ subClosed' = TRUE
    /\ cpc' = "user"
    /\ UNCHANGED <<fillFrame, nextSub, srcDone, creditVars, lane, faults>>

\* It finds the token live and goes on to the channel
FillCheck ==
    /\ cpc = "fill" /\ CanFill /\ NextTask /\ ~TokenCancelled(gen)
    /\ drawn' = DrawnWithTask
    /\ pending' = FALSE
    /\ cpc' = "submit"
    /\ UNCHANGED <<fillFrame, nextSub, srcDone, subClosed, creditVars, lane, faults>>

\* WorkerSubmit::Full hands the task back
PendingAfterFull == TRUE

SubmitFull ==
    /\ cpc = "submit" /\ LaneFull(Lane(nextSub))
    /\ pending' = PendingAfterFull
    /\ cpc' = "user"
    /\ UNCHANGED <<fillFrame, drawn, nextSub, srcDone, subClosed, creditVars, lane, faults>>

Submit ==
    /\ cpc = "submit" /\ ~LaneFull(Lane(nextSub))
    /\ lane' = [lane EXCEPT ![Lane(nextSub)] = Append(@, [gen |-> gen, seq |-> nextSub])]
    /\ nextSub' = nextSub + 1
    /\ outstanding' = outstanding + 1
    /\ cpc' = "fill"
    /\ UNCHANGED <<fillFrame, drawn, pending, srcDone, subClosed, nextVis, faults>>

-----------------------------------------------------------------------------
(* The coordinator: stop_inner, quiesce_inner and shutdown *)

\* stop_inner and the iterator's drop.  No submission can be in progress, so
\* closing the budget and cancelling the token is one step here.
Stop(target, poisoned) ==
    /\ cancelled' = cancelled \cup {gen}
    /\ budgetClosed' = budgetClosed \cup {gen}
    /\ completed' = {}
    /\ pending' = FALSE
    /\ hasPool' = FALSE
    /\ \/ /\ ~hasPool
          /\ cpc' = target
          /\ UNCHANGED <<after, quiesceVars, pool, shutdown>>
       \/ /\ hasPool /\ mode.persistent /\ ~poisoned
          /\ cpc' = "quiesce" /\ after' = target
          /\ acked' = {} /\ fatal' = FALSE
          /\ UNCHANGED <<pool, shutdown>>
       \/ /\ hasPool /\ (mode.persistent => poisoned)
          /\ cpc' = "join" /\ after' = target
          /\ pool' = "poisoned" /\ shutdown' = TRUE
          /\ UNCHANGED quiesceVars

\* The permits dropped with the reassembly map
UsedAfterStop == used - Weight * Cardinality(completed)

\* Messages after which a worker sends nothing more in the generation
EndsWorker(m) == m.kind \in {"quiesced", "init", "panic"}
Quieted(a) == a = W

QuiesceReceive ==
    /\ cpc = "quiesce" /\ ~Quieted(acked) /\ results # <<>>
    /\ LET m == Head(results)
       IN  /\ used' = used - PermitsIn(<<m>>)
           /\ IF m.gen = gen /\ EndsWorker(m)
              THEN /\ acked' = acked \cup {m.worker}
                   /\ fatal' = (fatal \/ m.kind # "quiesced")
              ELSE UNCHANGED quiesceVars
    /\ results' = Tail(results)
    /\ UNCHANGED <<mode, cpc, after, gen, submitVars, creditVars, iterVars, historyVars,
                   poolVars, lane, cancelled, budgetClosed, nextAdmit, deadline, wk, faults>>

\* Every worker answered: the pool is kept, or poisoned if one of them died
QuiesceEnds ==
    /\ cpc = "quiesce" /\ Quieted(acked)
    /\ \/ /\ ~fatal
          /\ cpc' = after
          /\ results' = <<>>
          /\ used' = used - PermitsIn(results)
          /\ UNCHANGED <<pool, shutdown>>
       \/ /\ fatal
          /\ cpc' = "join"
          /\ pool' = "poisoned" /\ shutdown' = TRUE
          /\ UNCHANGED <<results, used>>
    /\ UNCHANGED <<mode, after, gen, submitVars, creditVars, iterVars, quiesceVars,
                   historyVars, control, lane, cancelled, budgetClosed, nextAdmit,
                   deadline, wk, faults>>

\* Every thread is joined: the channels are gone, and so is an owned pool
JoinEnds ==
    /\ cpc = "join"
    /\ \A w \in W : wk[w].pc = "exited"
    /\ wk' = [w \in W |-> NoWorker]
    /\ control' = [w \in W |-> 0]
    /\ lane' = [w \in W |-> <<>>]
    /\ results' = <<>>
    /\ used' = used - PermitsIn(results)
    /\ pool' = IF mode.persistent THEN "poisoned" ELSE "none"
    /\ shutdown' = FALSE
    /\ cpc' = after
    /\ UNCHANGED <<mode, after, gen, submitVars, creditVars, iterVars, quiesceVars,
                   historyVars, cancelled, budgetClosed, nextAdmit, deadline, faults>>

-----------------------------------------------------------------------------
(* The coordinator: Iterator::next *)

nextFrame == <<mode, gen, drawn, nextSub, srcDone, subClosed, lane, control, nextAdmit, wk>>

\* next() on an iterator with a deferred construction or sampler error
NextPendingError ==
    /\ cpc = "user" /\ ~exhausted /\ pendingErr
    /\ pendingErr' = FALSE /\ exhausted' = TRUE /\ outcome' = "error"
    /\ Stop("user", FALSE)
    /\ used' = UsedAfterStop
    /\ UNCHANGED <<nextFrame, creditVars, results, delivered, deadline, faults>>

NextStarts ==
    /\ cpc = "user" /\ ~exhausted /\ ~pendingErr
    /\ cpc' = "next"
    /\ UNCHANGED <<nextFrame, after, pending, creditVars, iterVars, quiesceVars, historyVars,
                   pool, shutdown, results, cancelled, budgetClosed, used, deadline, faults>>

\* The iterator ends with outcome o
Finish(o, poisoned) ==
    /\ exhausted' = TRUE /\ outcome' = o /\ deadline' = "off"
    /\ Stop("user", poisoned)
    /\ UNCHANGED <<pendingErr, delivered>>

OutstandingAfterPublish == outstanding - 1

\* publish: the permit drops, the collator runs, the lanes are refilled next.
\* q is what is left in the results channel
Publish(s, q) ==
    /\ outstanding' = OutstandingAfterPublish
    /\ results' = q
    /\ \/ /\ delivered' = Append(delivered, s)
          /\ nextVis' = nextVis + 1
          /\ completed' = completed \ {s}
          /\ used' = used - Weight
          /\ deadline' = "off"
          /\ cpc' = "fill"
          /\ UNCHANGED <<after, pending, exhausted, hasPool, pendingErr, quiesceVars, outcome,
                         pool, shutdown, cancelled, budgetClosed, faults>>
       \/ /\ Fault("collate")
          /\ Finish("error", FALSE)
          /\ used' = used - Weight * Cardinality(completed \cup {s})
          /\ UNCHANGED nextVis

\* An ordered loader looks in its reassembly map first
NextFromCompleted ==
    /\ cpc = "next" /\ mode.ordered /\ nextVis \in completed
    /\ Publish(nextVis, results)
    /\ UNCHANGED nextFrame

NothingToWaitFor == outstanding = 0 /\ srcDone

\* None
NextEnds ==
    /\ cpc = "next" /\ ~(mode.ordered /\ nextVis \in completed)
    /\ NothingToWaitFor
    /\ Finish("end", FALSE)
    /\ used' = UsedAfterStop
    /\ UNCHANGED <<nextFrame, creditVars, results, faults>>

\* The deadline is armed once in a call, then the coordinator waits
NextWaits ==
    /\ cpc = "next" /\ ~(mode.ordered /\ nextVis \in completed)
    /\ ~NothingToWaitFor
    /\ deadline' = IF mode.timeout /\ deadline = "off" THEN "armed" ELSE deadline
    /\ cpc' = "recv"
    /\ UNCHANGED <<nextFrame, after, pending, creditVars, iterVars, quiesceVars, historyVars,
                   pool, shutdown, results, cancelled, budgetClosed, used, faults>>

\* A batch this ordered iterator cannot yield yet
OutOfTurn(s) == mode.ordered /\ s # nextVis

\* The reassembly map with it
KeptAhead(s) == completed \cup {s}

Received == Head(results)
Receives(kinds) == cpc = "recv" /\ results # <<>> /\ Received.kind \in kinds
Current == Received.gen = gen

\* A batch out of turn is kept; a Quiesced, or anything of another
\* generation, is skipped: the loop starts again
RecvKeepsWaiting ==
    /\ cpc = "recv" /\ results # <<>>
    /\ ~Current \/ Received.kind = "quiesced"
         \/ (Received.kind = "batch" /\ OutOfTurn(Received.seq))
    /\ completed' = IF Current /\ Received.kind = "batch"
                    THEN KeptAhead(Received.seq) ELSE completed
    /\ used' = IF Current THEN used ELSE used - PermitsIn(<<Received>>)
    /\ results' = Tail(results)
    /\ cpc' = "next"
    /\ UNCHANGED <<nextFrame, after, pending, creditVars, exhausted, hasPool, pendingErr,
                   quiesceVars, historyVars, pool, shutdown, cancelled, budgetClosed,
                   deadline, faults>>

RecvBatch ==
    /\ Receives({"batch"}) /\ Current /\ ~OutOfTurn(Received.seq)
    /\ Publish(Received.seq, Tail(results))
    /\ UNCHANGED nextFrame

\* Dataset, Transform, InvalidBatchCardinality, MemoryLimit
RecvError ==
    /\ Receives({"error"}) /\ Current
    /\ results' = Tail(results)
    /\ Finish("error", FALSE)
    /\ used' = UsedAfterStop
    /\ UNCHANGED <<nextFrame, creditVars, faults>>

\* TransformInit, WorkerInit and Panic poison the pool
RecvFatal ==
    /\ Receives({"init", "panic"}) /\ Current
    /\ results' = Tail(results)
    /\ Finish("error", TRUE)
    /\ used' = UsedAfterStop
    /\ UNCHANGED <<nextFrame, creditVars, faults>>

\* The token or the timer wins only when no completion is ready
RecvCancelled ==
    /\ cpc = "recv" /\ results = <<>> /\ TokenCancelled(gen)
    /\ Finish("cancelled", FALSE)
    /\ used' = UsedAfterStop
    /\ UNCHANGED <<nextFrame, creditVars, results, faults>>

RecvTimeout ==
    /\ cpc = "recv" /\ results = <<>> /\ DeadlinePassed(gen)
    /\ Finish("timeout", FALSE)
    /\ used' = UsedAfterStop
    /\ UNCHANGED <<nextFrame, creditVars, results, faults>>

\* Time passes the armed deadline
Expire ==
    /\ deadline = "armed"
    /\ deadline' = "expired"
    /\ UNCHANGED <<nextFrame, cpc, after, pending, creditVars, iterVars, quiesceVars,
                   historyVars, pool, shutdown, results, cancelled, budgetClosed, used, faults>>

\* The caller drops the iterator between two calls
DropIter ==
    /\ cpc = "user"
    /\ IF hasPool
       THEN Stop("out", FALSE) /\ used' = UsedAfterStop
       ELSE /\ cpc' = "out"
            /\ UNCHANGED <<after, cancelled, budgetClosed, completed, pending, hasPool,
                           quiesceVars, pool, shutdown, used>>
    /\ UNCHANGED <<nextFrame, creditVars, exhausted, pendingErr, historyVars, results,
                   deadline, faults>>

\* The caller drops the loader; a pool that is still alive is joined
DropLoader ==
    /\ cpc = "out"
    /\ after' = "gone"
    /\ IF pool = "live" THEN shutdown' = TRUE /\ cpc' = "join"
                        ELSE shutdown' = shutdown /\ cpc' = "gone"
    /\ UNCHANGED <<nextFrame, pending, creditVars, iterVars, quiesceVars, historyVars,
                   pool, results, cancelled, budgetClosed, used, deadline, faults>>

Done == cpc = "gone" /\ UNCHANGED vars

-----------------------------------------------------------------------------
\* What the coordinator does on its own inside iter(), next() and the drops
CoordinatorStep ==
    \/ FillDone \/ FillSourceEnds \/ FillClosed \/ FillCheck \/ SubmitFull \/ Submit
    \/ QuiesceReceive \/ QuiesceEnds \/ JoinEnds
    \/ NextFromCompleted \/ NextEnds \/ NextWaits
    \/ RecvKeepsWaiting \/ RecvBatch \/ RecvError \/ RecvFatal
    \/ RecvCancelled \/ RecvTimeout

\* What the caller decides
CallerStep ==
    \/ IterNewPool \/ IterReusePool \/ IterWithError
    \/ NextPendingError \/ NextStarts \/ DropIter \/ DropLoader

Next ==
    \/ CoordinatorStep
    \/ CallerStep
    \/ FillSourcePanics
    \/ \E w \in W : WorkerStep(w) \/ WorkerFault(w)
    \/ Expire
    \/ Done

Spec == Init /\ [][Next]_vars

\* Threads that can run do run, user code in progress ends, time passes
Fairness ==
    /\ WF_vars(CoordinatorStep)
    /\ \A w \in W : WF_vars(WorkerStep(w))
    /\ WF_vars(Expire)

FairSpec == Spec /\ Fairness

-----------------------------------------------------------------------------
InGeneration(w) ==
    \/ control[w] = gen
    \/ wk[w].gen = gen /\ wk[w].pc \in {"spawn", "poll", "work", "acquire", "send", "report"}

AtWork(w) == wk[w].pc \in {"poll", "work", "acquire", "send", "report", "failed",
                           "closing", "drain", "quiesced"}

\* How many places hold batch s of the current generation
Places(s) ==
    Cardinality({p \in W \X (1 .. Prefetch) :
                    p[2] <= Len(lane[p[1]]) /\ lane[p[1]][p[2]] = [gen |-> gen, seq |-> s]})
    + Cardinality({w \in W : wk[w].gen = gen /\ wk[w].seq = s})
    + Cardinality({i \in DOMAIN results : /\ results[i].gen = gen /\ results[i].seq = s
                                          /\ results[i].kind = "batch"})
    + (IF s \in completed THEN 1 ELSE 0)
    + Cardinality({i \in DOMAIN delivered : delivered[i] = s})

Iterating == cpc \in {"fill", "submit", "user", "next", "recv"} /\ hasPool

\* Every submitted batch is in exactly one place - lane, worker, results,
\* reassembly map or yielded - unless its worker gave the generation up, and
\* then it is nowhere: retries of a full lane, cancellation and deadlines
\* neither duplicate nor silently lose a batch (try_submit, run_generation,
\* next).
BatchesConserved ==
    Iterating => \A s \in Plan :
        IF s >= nextSub THEN Places(s) = 0
        ELSE /\ Places(s) <= 1
             /\ Places(s) = 0 => ~InGeneration(Lane(s))

\* The credits in use are the batches submitted and not yet yielded, and what
\* was drawn from the sampler is submitted, pending, or being submitted: no
\* path of fill_available, publish or a full lane loses a credit or a batch.
CreditsExact ==
    Iterating =>
        /\ outstanding = nextSub - nextVis
        /\ ~subClosed => drawn = nextSub + (IF pending \/ cpc = "submit" THEN 1 ELSE 0)

\* The permits counted by the generation's budget are those that travel with
\* a batch: publishing, cancelling and draining return every one.
PermitsExact ==
    used = Weight * (Cardinality({w \in W : wk[w].pc = "send"}) + Cardinality(completed))
             + PermitsIn(results)

\* A lane is a history a stateful transform can rely on: the batches of one
\* worker are its own residue class, in increasing order.
LaneHistory ==
    \A w \in W : \A i \in DOMAIN lane[w] :
        /\ lane[w][i].seq % Workers = w
        /\ \A j \in 1 .. i - 1 : lane[w][j].gen = lane[w][i].gen => lane[w][j].seq < lane[w][i].seq
        /\ lane[w][i].gen = wk[w].gen /\ wk[w].seq # None => wk[w].seq < lane[w][i].seq

\* No worker is still at work for an earlier generation when a later one
\* starts, and none that died waits in a pool that may be used again: quiesce
\* hears every worker, join waits for every thread (quiesce_inner, shutdown).
GenerationsDisjoint ==
    \A w \in W : /\ AtWork(w) => wk[w].gen = gen
                 /\ control[w] \in {0, gen}
                 /\ cpc \in {"out", "gone"} => wk[w].pc \in {"absent", "idle"}

\* A stateful transform can tell its generations apart and relies on its lane in
\* each: retried submissions, stale tasks and a reused pool never mix them.
LanesSound == LaneHistory /\ GenerationsDisjoint

\* What the training loop sees is the abstract delivery contract.
Delivery == INSTANCE BatchDelivery WITH
    ordered <- mode.ordered,
    status <- IF outcome \in {"open", "end"} THEN outcome ELSE "failed"

ImplementsDelivery == Delivery!Spec

Busy == cpc \notin {"out", "user", "gone"}

\* iter(), next() and both drops return. A persistent pool promises it only
\* while no user code has failed.
Excused == mode.persistent /\ faults < MaxFaults
CallsReturn == Busy /\ ~Excused ~> ~Busy \/ Excused

\* Cancelling a generation always comes to an end: every worker answers.
QuiesceReturns == cpc \in {"quiesce", "join"} ~> cpc \notin {"quiesce", "join"}

\* The documented timeout: "Expiry cancels the current generation, drains it
\* to quiescence, yields one typed timeout error, and then ends the iterator"
\* (loader.rs).  Once next() saw the expiry it returns.
ExpiryReturns == outcome = "timeout" /\ Busy ~> ~Busy

\* The documented reuse: persistent pools work "while quiescing and
\* discarding tagged stale work between fresh generations"
\* (COMPATIBILITY.md).  What an earlier generation left behind does not keep
\* a later iterator's next() from returning.
ReusedPoolReturns == gen > 1 /\ Busy ~> ~Busy
=============================================================================
