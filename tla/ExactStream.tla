----------------------------- MODULE ExactStream -----------------------------
(***************************************************************************)
(* The stream loader with exact checkpoints (stream_checkpoint.rs): an     *)
(* ordered iterator whose workers read their shards ahead of the caller,   *)
(* and which can be saved at any boundary between two batches.             *)
(*                                                                         *)
(* A worker journals, before each attempt to read, the state of its source *)
(* and of its transform, with the number the attempt came to have.         *)
(* checkpoint() cancels the run, tells every worker to go back to the      *)
(* first attempt the caller has not seen, collects the states they went    *)
(* back to, and begins the next run there. The process may die at any      *)
(* moment; a later one resumes from the last state saved.                  *)
(*                                                                         *)
(* A shard is a sequence of numbers, those its records carry. The state of *)
(* a source is how many records it has read, that of a transform how many  *)
(* it has been given, that of the collator how many batches it has made.   *)
(***************************************************************************)
EXTENDS Integers, Sequences, FiniteSets, FiniteSetsExt, SequencesExt

CONSTANTS Configs,        \* loaders: options, shards, how often user code fails, last epoch
          MaxGeneration,  \* u64::MAX, for generations (a bound on passes and checkpoints)
          MaxSequence,    \* u64::MAX, for the numbers of records
          MaxLives        \* how many processes run one after the other

VARIABLES config,     \* the configuration and the data
          call,       \* what the caller's thread is doing
          loader,     \* ExactStreamDataLoader
          it,         \* ExactStreamLoaderIter
          commands,   \* per worker, the channel of its commands
          credits,    \* per worker, the channel of its credits
          results,    \* the channel of completions
          acks,       \* the channel of acknowledgments
          worker,     \* the worker threads; none without a pool
          run,        \* the generation of the pool, and the two tokens
          committed,  \* the boundary, as the workers see it
          saved,      \* the last state checkpoint() returned
          delivered,  \* the batches of this pass, in earlier processes too
          told,       \* the last answer of next(), checkpoint() or build()
          lives,      \* how many processes there have been
          faults,     \* how often user code will still fail
          upset       \* user code has panicked or refused a snapshot

poolVars == <<commands, credits, results, acks, worker, run, committed>>
pastVars == <<config, saved, lives>>
vars == <<pastVars, call, loader, it, poolVars, delivered, told, faults, upset>>

Workers == 0 .. config.workers - 1
Unnumbered == -1
NoIterator == [kind |-> "none"]

Calling(what) == [at |-> what]
Answer(what) == told' = what

Fault == faults > 0 /\ faults' = faults - 1

-----------------------------------------------------------------------------
(* Messages.                                                               *)

Lane(source, transform) == [source |-> source, transform |-> transform]
Event(kind, seq, sample) == [kind |-> kind, seq |-> seq, sample |-> sample]

Sequenced(event) == event.kind \in {"record", "source", "transform"}

(* What a worker's transform makes of the record at pos of its shard.      *)
Sample(epoch, seed, w, pos, transform) == <<epoch, seed, w, pos, transform>>

Thread(gen, pending) ==
  [pc |-> "commands", gen |-> gen, lane |-> Lane(0, 0), pending |-> pending,
   journal |-> <<>>, boundary |-> 0, previous |-> {}, event |-> Event("end", Unnumbered, <<>>)]

-----------------------------------------------------------------------------
(* Deliberate faults: each replaces a definition below it in a mutation run *)
Fault_WindowOfPrefetch == config.prefetch + 1
Fault_SourceOnly(now, captured) == Lane(captured.source, now.transform)
Fault_CreditsKept == credits

-----------------------------------------------------------------------------
(* A worker thread.                                                        *)

callerVars == <<pastVars, call, loader, it, run, committed, delivered, told>>

Set(w, thread) == worker' = [worker EXCEPT ![w] = thread]

Cancelled(w) == worker[w].gen # run.gen \/ run.cancelled

Takes(w, kind) ==
  /\ worker[w].pc = "commands" /\ commands[w] # <<>> /\ Head(commands[w]).kind = kind
  /\ commands' = [commands EXCEPT ![w] = Tail(@)]

(* Command::Apply: the state that a resume has already validated. To       *)
(* restore it may panic.                                                   *)
WApply(w) ==
  /\ Takes(w, "apply")
  /\ \/ /\ \E lane \in worker[w].pending :
             Set(w, [worker[w] EXCEPT !.lane = lane, !.pending = {}])
        /\ UNCHANGED <<faults, upset>>
     \/ Fault /\ upset' = TRUE /\ Set(w, [worker[w] EXCEPT !.pc = "dying"])
  /\ UNCHANGED <<callerVars, credits, results, acks>>

(* Command::Begin.                                                         *)
WBegin(w) ==
  /\ Takes(w, "begin")
  /\ Set(w, [worker[w] EXCEPT !.pc = "credits", !.gen = Head(commands[w]).gen, !.previous = {}])
  /\ UNCHANGED <<callerVars, credits, results, acks, faults, upset>>

(* The run is over while the worker waits for a credit, or for room for a  *)
(* completion, which is then lost.                                         *)
WQuit(w) ==
  /\ worker[w].pc \in {"credits", "send"} /\ (Cancelled(w) \/ run.shutdown)
  /\ Set(w, [worker[w] EXCEPT !.pc = "commands"])
  /\ UNCHANGED <<callerVars, commands, credits, results, acks, faults, upset>>

JournalCapacity == config.prefetch + config.batchSize + 1

(* What is left of a journal that starts with what is published.           *)
Pruned(journal, boundary) ==
  LET k == SelectInSeq(journal, LAMBDA a : a.seq \notin 0 .. boundary - 1)
  IN  IF k = 0 THEN <<>> ELSE SubSeq(journal, k, Len(journal))

(* A credit is taken, the boundary is read, and the state before the read  *)
(* is journaled. The assertion is about the capacity of the journal.       *)
WAttempt(w) ==
  LET journal == Pruned(worker[w].journal, committed)
  IN  /\ worker[w].pc = "credits" /\ credits[w] > 0 /\ ~Cancelled(w) /\ ~run.shutdown
      /\ credits' = [credits EXCEPT ![w] = @ - 1]
      /\ Set(w, IF Len(journal) < JournalCapacity
                THEN [worker[w] EXCEPT
                        !.pc = "read", !.boundary = committed,
                        !.journal = Append(journal, [seq |-> Unnumbered, lane |-> worker[w].lane])]
                ELSE [worker[w] EXCEPT !.pc = "dying", !.journal = journal])
      /\ UNCHANGED <<callerVars, commands, results, acks, faults, upset>>

Shard(w) == config.shards[w]

(* A number that was passed, or that does not increase.                    *)
Past(w, seq) == seq < worker[w].boundary \/ \E p \in worker[w].previous : seq <= p

(* The attempt ends: the journal has its number, and the completion waits  *)
(* for room.                                                               *)
Attempted(w, source, transform, previous, event) ==
  Set(w, [worker[w] EXCEPT
            !.pc = "send", !.lane = Lane(source, transform), !.previous = previous,
            !.event = event, !.journal[Len(worker[w].journal)].seq = event.seq])

(* Source::next returned None: at the end of the shard, or because a       *)
(* cooperative source saw the cancellation.                                *)
WEnds(w) ==
  LET lane == worker[w].lane
  IN  /\ worker[w].pc = "read" /\ (lane.source = Len(Shard(w)) \/ Cancelled(w))
      /\ Attempted(w, lane.source, lane.transform, worker[w].previous,
                   Event("end", Unnumbered, <<>>))
      /\ UNCHANGED <<callerVars, commands, credits, results, acks, faults, upset>>

(* A record is read and transformed; or the source, or the transform, has  *)
(* an error.                                                               *)
WReads(w) ==
  LET lane  == worker[w].lane
      pos   == lane.source + 1
      seq   == Shard(w)[pos]
      bad   == seq = Unnumbered \/ Past(w, seq)
      given == Sample(loader.epoch, loader.seed, w, pos, lane.transform)
  IN  /\ worker[w].pc = "read" /\ pos \in DOMAIN Shard(w)
      /\ \/ /\ bad
            /\ Attempted(w, pos, lane.transform, worker[w].previous,
                         Event("protocol", seq, <<>>))
            /\ UNCHANGED faults
         \/ /\ ~bad
            /\ Attempted(w, pos, lane.transform + 1, {seq}, Event("record", seq, given))
            /\ UNCHANGED faults
         \/ /\ ~bad /\ Fault
            /\ \/ Attempted(w, pos, lane.transform, worker[w].previous,
                            Event("source", seq, <<>>))
               \/ Attempted(w, pos, lane.transform + 1, {seq}, Event("transform", seq, <<>>))
      /\ UNCHANGED <<callerVars, commands, credits, results, acks, upset>>

(* The source or the transform panics.                                     *)
WPanics(w) ==
  /\ worker[w].pc = "read" /\ Fault /\ upset' = TRUE
  /\ Set(w, [worker[w] EXCEPT !.pc = "dying"])
  /\ UNCHANGED <<callerVars, commands, credits, results, acks>>

Room == Len(results) < config.workers * config.prefetch

Completion(w, event) == [worker |-> w, gen |-> worker[w].gen, event |-> event]

WSends(w) ==
  /\ worker[w].pc = "send" /\ Room
  /\ results' = Append(results, Completion(w, worker[w].event))
  /\ Set(w, [worker[w] EXCEPT !.pc = IF worker[w].event.kind = "record"
                                     THEN "credits" ELSE "commands"])
  /\ UNCHANGED <<callerVars, commands, credits, acks, faults, upset>>

(* The attempts whose outcome the caller has not seen at the boundary.     *)
Unpublished(journal, boundary) ==
  SelectSeq(journal, LAMBDA a : a.seq = Unnumbered \/ a.seq >= boundary)

(* Source and transform, both as they were captured.                      *)
Restored(now, captured) == captured

Acknowledgment(w, ok, lane) == [worker |-> w, gen |-> worker[w].gen, ok |-> ok, lane |-> lane]

(* Command::Rollback: back to the state before the first unpublished       *)
(* attempt. A snapshot may be refused; snapshot() may panic.               *)
WRollback(w) ==
  LET command == Head(commands[w])
      replay  == Unpublished(worker[w].journal, command.boundary)
      lane    == IF replay = <<>> THEN worker[w].lane ELSE Head(replay).lane
      back    == [worker[w] EXCEPT !.journal = <<>>]
      Reply(ok) == /\ acks' = Append(acks, Acknowledgment(w, ok, lane))
                   /\ credits' = [credits EXCEPT ![w] = 0]
  IN  /\ Takes(w, "rollback")
      /\ \/ /\ Reply(command.gen = worker[w].gen)
            /\ Set(w, IF command.gen = worker[w].gen THEN [back EXCEPT !.lane = Restored(@, lane)]
                      ELSE back)
            /\ UNCHANGED <<faults, upset>>
         \/ Fault /\ upset' = TRUE /\ Reply(FALSE) /\ Set(w, back)
         \/ /\ Fault /\ upset' = TRUE /\ Set(w, [worker[w] EXCEPT !.pc = "dying"])
            /\ UNCHANGED <<acks, credits>>
      /\ UNCHANGED <<callerVars, results>>

(* The panic is reported and the thread ends; or the pool is being dropped. *)
WDies(w) ==
  /\ worker[w].pc = "dying"
  /\ \/ Room /\ results' = Append(results, Completion(w, Event("panic", Unnumbered, <<>>)))
     \/ run.shutdown /\ UNCHANGED results
  /\ Set(w, [worker[w] EXCEPT !.pc = "gone"])
  /\ UNCHANGED <<callerVars, commands, credits, acks, faults, upset>>

WExits(w) ==
  /\ worker[w].pc = "commands" /\ run.shutdown
  /\ Set(w, [worker[w] EXCEPT !.pc = "gone"])
  /\ UNCHANGED <<callerVars, commands, credits, results, acks, faults, upset>>

WorkerStep(w) ==
  \/ WApply(w) \/ WBegin(w) \/ WQuit(w) \/ WAttempt(w) \/ WEnds(w) \/ WReads(w)
  \/ WSends(w) \/ WRollback(w) \/ WDies(w) \/ WExits(w)

-----------------------------------------------------------------------------
(* build(): the loader with a pool whose workers are ready, at the start or *)
(* at a saved state.                                                       *)

(* Pool::new. *)
NewPool(gen, boundary, lanes) ==
  /\ worker' = [w \in Workers |-> Thread(gen, IF w \in DOMAIN lanes THEN {lanes[w]} ELSE {})]
  /\ run' = [gen |-> gen, cancelled |-> FALSE, shutdown |-> FALSE]
  /\ credits' = [w \in Workers |-> config.prefetch]
  /\ results' = <<>> /\ acks' = <<>> /\ committed' = boundary

NoPool ==
  /\ worker' = <<>> /\ commands' = <<>> /\ credits' = <<>> /\ results' = <<>> /\ acks' = <<>>

FreshLoader(epoch) ==
  [epoch |-> epoch, seed |-> 0, next |-> 1, retained |-> TRUE,
   batch |-> 0, sequence |-> 0, short |-> FALSE, collated |-> 0]

Init ==
  /\ config \in Configs
  /\ call = Calling("loader") /\ loader = FreshLoader(0) /\ it = NoIterator
  /\ commands = [w \in Workers |-> <<>>]
  /\ credits = [w \in Workers |-> config.prefetch]
  /\ results = <<>> /\ acks = <<>>
  /\ worker = [w \in Workers |-> Thread(0, {})]
  /\ run = [gen |-> 0, cancelled |-> FALSE, shutdown |-> FALSE] /\ committed = 0
  /\ saved = {} /\ delivered = <<>> /\ told = "nothing"
  /\ lives = 1 /\ faults = config.faults /\ upset = FALSE

(* What a resuming build() requires of a state under its own settings.     *)
Accepts(state) ==
  LET full  == state.batch * config.batchSize
      short == ~config.dropLast /\ state.batch > 0
                 /\ state.sequence \in full - config.batchSize + 1 .. full - 1
  IN  /\ state.seed <= state.gen /\ state.gen < MaxGeneration - 1
      /\ DOMAIN state.lanes = Workers
      /\ state.short = short
      /\ state.sequence = full \/ short
      /\ \A n \in config.length : /\ state.sequence <= n
                                 /\ short => state.sequence = n

(* The process dies, and another builds the same loader with .resume().    *)
Restart ==
  /\ lives < MaxLives /\ lives' = lives + 1
  /\ \E state \in saved :
       IF Accepts(state)
       THEN /\ loader' = [epoch |-> state.epoch, seed |-> state.seed, next |-> state.gen + 1,
                          retained |-> TRUE, batch |-> state.batch,
                          sequence |-> state.sequence, short |-> state.short,
                          collated |-> state.collated]
            /\ NewPool(state.gen, state.sequence, state.lanes)
            /\ commands' = [w \in Workers |-> <<[kind |-> "apply"]>>]
            /\ call' = Calling("loader") /\ delivered' = state.delivered /\ Answer("nothing")
       ELSE /\ NoPool /\ call' = Calling("gone") /\ Answer("unacceptable")
            /\ UNCHANGED <<loader, run, committed, delivered>>
  /\ it' = NoIterator /\ upset' = FALSE
  /\ UNCHANGED <<config, saved, faults>>

-----------------------------------------------------------------------------
(* The drop of a pool: both tokens, then the join of every thread.         *)

Joining(then) ==
  /\ run' = [run EXCEPT !.cancelled = TRUE, !.shutdown = TRUE]
  /\ call' = [at |-> "join", then |-> then]

Join ==
  /\ call.at = "join" /\ \A w \in DOMAIN worker : worker[w].pc = "gone"
  /\ NoPool /\ call' = Calling(call.then)
  /\ UNCHANGED <<pastVars, loader, it, run, committed, delivered, told, faults, upset>>

(* set_epoch() discards the pool that iter() would have used.              *)
SetEpoch ==
  /\ call.at = "loader" /\ loader.epoch < config.lastEpoch
  /\ loader' = [loader EXCEPT !.epoch = @ + 1, !.retained = FALSE]
  /\ IF loader.retained THEN Joining("loader") ELSE UNCHANGED <<call, run>>
  /\ delivered' = <<>> /\ Answer("nothing")
  /\ UNCHANGED <<pastVars, it, commands, credits, results, acks, worker, committed, faults,
                 upset>>

DropIterator ==
  /\ call.at = "user"
  /\ it' = NoIterator
  /\ IF worker # <<>> THEN Joining("loader") ELSE call' = Calling("loader") /\ UNCHANGED run
  /\ UNCHANGED <<pastVars, loader, commands, credits, results, acks, worker, committed,
                 delivered, told, faults, upset>>

DropLoader ==
  /\ call.at = "loader"
  /\ IF worker # <<>> THEN Joining("gone") ELSE call' = Calling("gone") /\ UNCHANGED run
  /\ UNCHANGED <<pastVars, loader, it, commands, credits, results, acks, worker, committed,
                 delivered, told, faults, upset>>

-----------------------------------------------------------------------------
(* iter().                                                                 *)

Iterator(batch, sequence, short, error) ==
  [kind |-> "iterator", batch |-> batch, visible |-> sequence, next |-> sequence,
   short |-> short, samples |-> <<>>, completed |-> {}, ended |-> {},
   stopped |-> FALSE, valid |-> ~error, error |-> error]

(* begin() tells the workers one after the other; then the call returns,   *)
(* with the state it has captured if it is checkpoint().                   *)
Beginning(state) == call' = [at |-> "begin", k |-> 0, state |-> state]

IterRetained ==
  /\ call.at = "loader" /\ loader.retained
  /\ loader' = [loader EXCEPT !.retained = FALSE]
  /\ it' = Iterator(loader.batch, loader.sequence, loader.short, FALSE)
  /\ Beginning({})
  /\ UNCHANGED <<pastVars, poolVars, delivered, told, faults, upset>>

(* The generations may be used up, and Pool::new may fail.                 *)
IterFresh ==
  LET gen == loader.next
  IN  /\ call.at = "loader" /\ ~loader.retained
      /\ delivered' = <<>> /\ Answer("nothing")
      /\ loader' = IF gen + 1 < MaxGeneration
                   THEN [loader EXCEPT !.seed = gen, !.next = gen + 1] ELSE loader
      /\ \/ /\ gen + 1 < MaxGeneration
            /\ NewPool(gen, 0, <<>>) /\ commands' = [w \in Workers |-> <<>>]
            /\ it' = Iterator(0, 0, FALSE, FALSE) /\ Beginning({})
            /\ UNCHANGED faults
         \/ /\ IF gen + 1 < MaxGeneration THEN Fault ELSE UNCHANGED faults
            /\ it' = Iterator(0, 0, FALSE, TRUE) /\ call' = Calling("user")
            /\ UNCHANGED poolVars
      /\ UNCHANGED <<pastVars, upset>>

(* A thread that has ended takes no command: the next call of next() says so. *)
Begin ==
  /\ call.at = "begin"
  /\ IF call.k \in Workers
     THEN \/ /\ worker[call.k].pc = "gone"
             /\ it' = [it EXCEPT !.error = TRUE, !.valid = FALSE]
             /\ call' = Calling("user") /\ UNCHANGED <<commands, saved, told>>
          \/ /\ worker[call.k].pc # "gone" /\ commands[call.k] = <<>>
             /\ commands' = [commands EXCEPT ![call.k] = <<[kind |-> "begin", gen |-> run.gen]>>]
             /\ call' = [call EXCEPT !.k = @ + 1]
             /\ UNCHANGED <<it, saved, told>>
     ELSE /\ call' = Calling("user") /\ UNCHANGED <<it, commands>>
          /\ IF call.state = {} THEN UNCHANGED <<saved, told>>
             ELSE saved' = call.state /\ Answer("saved")
  /\ UNCHANGED <<config, lives, loader, credits, results, acks, worker, run, committed,
                 delivered, faults, upset>>

-----------------------------------------------------------------------------
(* checkpoint().                                                           *)

(* rollback() and collect_rollback() give up: the pool is dropped.         *)
Abandon(why) ==
  /\ it' = [it EXCEPT !.valid = FALSE, !.stopped = TRUE]
  /\ Answer(why) /\ Joining("user")

Checkpoint ==
  /\ call.at = "user"
  /\ IF ~it.valid
     THEN Answer("invalid") /\ UNCHANGED <<call, it, run>>
     ELSE IF run.gen + 1 = MaxGeneration
     THEN Abandon("overflow")
     ELSE /\ run' = [run EXCEPT !.cancelled = TRUE]
          /\ call' = [at |-> "rollback", k |-> 0] /\ UNCHANGED <<it, told>>
  /\ UNCHANGED <<pastVars, loader, commands, credits, results, acks, worker, committed, delivered,
                 faults, upset>>

(* The command waits for the worker to take the one before; a thread that  *)
(* has ended takes none.                                                   *)
RollbackSends ==
  /\ call.at = "rollback" /\ call.k \in Workers
  /\ IF worker[call.k].pc = "gone"
     THEN Abandon("refused") /\ UNCHANGED commands
     ELSE /\ commands[call.k] = <<>>
          /\ commands' = [commands EXCEPT ![call.k] =
               <<[kind |-> "rollback", gen |-> run.gen, boundary |-> it.visible]>>]
          /\ call' = [call EXCEPT !.k = @ + 1] /\ UNCHANGED <<it, run, told>>
  /\ UNCHANGED <<pastVars, loader, credits, results, acks, worker, committed, delivered, faults,
                 upset>>

RollbackCollects ==
  /\ call.at = "rollback" /\ call.k = config.workers
  /\ call' = [at |-> "collect", lanes |-> <<>>]
  /\ UNCHANGED <<pastVars, loader, it, poolVars, delivered, told, faults, upset>>

Collecting == call.at = "collect" /\ DOMAIN call.lanes # Workers

CollectAck ==
  LET ack == Head(acks)
  IN  /\ Collecting /\ acks # <<>> /\ acks' = Tail(acks)
      /\ IF ack.gen # run.gen \/ ack.worker \in DOMAIN call.lanes \/ ~ack.ok
         THEN Abandon("refused")
         ELSE /\ call' = [call EXCEPT !.lanes = [w \in DOMAIN @ \cup {ack.worker} |->
                                                   IF w = ack.worker THEN ack.lane ELSE @[w]]]
              /\ UNCHANGED <<it, run, told>>
      /\ UNCHANGED <<pastVars, loader, commands, credits, results, worker, committed, delivered,
                     faults, upset>>

(* Completions of the run that is over make room, unless one is a panic.   *)
CollectDiscards ==
  /\ Collecting /\ results # <<>> /\ results' = Tail(results)
  /\ IF Head(results).event.kind = "panic" THEN Abandon("refused")
     ELSE UNCHANGED <<call, it, run, told>>
  /\ UNCHANGED <<pastVars, loader, commands, credits, acks, worker, committed, delivered,
                 faults, upset>>

RefilledCredits == [w \in Workers |-> config.prefetch]

(* The state that checkpoint() returns: delivered is what the caller had.  *)
Captured ==
  [epoch |-> loader.epoch, seed |-> loader.seed, gen |-> run.gen + 1, batch |-> it.batch,
   sequence |-> it.visible, short |-> it.short, lanes |-> call.lanes,
   collated |-> loader.collated, delivered |-> delivered]

(* finish_rollback(), the state, and the run that goes on from there.      *)
CollectEnds ==
  /\ call.at = "collect" /\ DOMAIN call.lanes = Workers
  /\ IF acks # <<>> \/ \E w \in Workers : credits[w] # 0
     THEN Abandon("refused") /\ UNCHANGED <<loader, credits, results, committed>>
     ELSE /\ results' = <<>> /\ credits' = RefilledCredits /\ committed' = it.visible
          /\ run' = [run EXCEPT !.gen = @ + 1, !.cancelled = FALSE]
          /\ it' = [it EXCEPT !.completed = {}, !.ended = {}, !.next = it.visible,
                              !.stopped = FALSE]
          /\ loader' = [loader EXCEPT !.next = Max({@, run.gen + 2})]
          /\ Beginning({Captured})
          /\ UNCHANGED told
  /\ UNCHANGED <<pastVars, commands, acks, worker, delivered, faults, upset>>

-----------------------------------------------------------------------------
(* next().                                                                 *)

(* fail(): the run is cancelled; the pool is kept only for an error that a *)
(* checkpoint can replay.                                                  *)
Fail(i, recoverable, why) ==
  /\ it' = [i EXCEPT !.stopped = TRUE, !.valid = @ /\ recoverable, !.samples = <<>>]
  /\ Answer(why)
  /\ IF worker = <<>> THEN call' = Calling("user") /\ UNCHANGED run
     ELSE IF recoverable
     THEN call' = Calling("user") /\ run' = [run EXCEPT !.cancelled = TRUE]
     ELSE Joining("user")

NextBegins ==
  /\ call.at = "user"
  /\ CASE it.stopped -> Answer("over") /\ UNCHANGED <<call, it, run>>
       [] ~it.stopped /\ it.error -> Fail([it EXCEPT !.error = FALSE], FALSE, "pending")
       [] OTHER -> /\ it' = [it EXCEPT !.samples = <<>>]
                   /\ call' = Calling("next") /\ UNCHANGED <<run, told>>
  /\ UNCHANGED <<pastVars, loader, commands, credits, results, acks, worker, committed, delivered,
                 faults, upset>>

Full == Len(it.samples) = config.batchSize

(* The buffered outcome whose turn it is, with its worker.                 *)
InTurn == {c \in it.completed : c[2].seq = it.next}

NextTakes ==
  /\ call.at = "next" /\ ~Full
  /\ \E c \in InTurn :
       LET rest  == [it EXCEPT !.completed = @ \ {c}]
           taken == [rest EXCEPT !.next = @ + 1, !.samples = Append(@, c[2].sample)]
       IN  CASE c[2].kind # "record" -> Fail(rest, TRUE, "pipeline") /\ UNCHANGED credits
             [] c[2].kind = "record" /\ it.next = MaxSequence ->
                  Fail(rest, FALSE, "protocol") /\ UNCHANGED credits
             [] OTHER -> IF worker[c[1]].pc = "gone" \/ credits[c[1]] = config.prefetch
                         THEN Fail(taken, FALSE, "closed") /\ UNCHANGED credits
                         ELSE /\ it' = taken /\ credits' = [credits EXCEPT ![c[1]] = @ + 1]
                              /\ UNCHANGED <<call, run, told>>
  /\ UNCHANGED <<pastVars, loader, commands, results, acks, worker, committed, delivered, faults,
                 upset>>

Waiting == call.at = "next" /\ ~Full /\ InTurn = {}

AllEnded == it.ended = Workers

(* A lane has ended, or its window is full of records out of turn.         *)
Exhausted(w) ==
  w \in it.ended \/ Cardinality({c \in it.completed : c[1] = w}) = config.prefetch

Missing == it.completed # {} \/ \E n \in config.length : it.next # n

NextGap ==
  /\ Waiting
  /\ IF AllEnded THEN Missing ELSE \A w \in Workers : Exhausted(w)
  /\ Fail(it, FALSE, "protocol")
  /\ UNCHANGED <<pastVars, loader, commands, credits, results, acks, worker, committed, delivered,
                 faults, upset>>

Complete == Waiting /\ AllEnded /\ ~Missing

NextEnds ==
  /\ Complete /\ (it.samples = <<>> \/ config.dropLast)
  /\ it' = [it EXCEPT !.stopped = TRUE, !.samples = <<>>]
  /\ Answer("end") /\ call' = Calling("user")
  /\ UNCHANGED <<pastVars, loader, poolVars, delivered, faults, upset>>

(* A completion: what has a number is buffered, unless it was passed or is *)
(* there already.                                                          *)
NextReceives ==
  LET m == Head(results)
      e == m.event
      i == [it EXCEPT !.ended = IF e.kind \in {"source", "transform", "end"}
                                THEN @ \cup {m.worker} ELSE @,
                      !.completed = IF Sequenced(e) THEN @ \cup {<<m.worker, e>>} ELSE @]
  IN  /\ Waiting /\ ~AllEnded /\ ~(\A w \in Workers : Exhausted(w))
      /\ results # <<>> /\ results' = Tail(results)
      /\ IF m.gen # run.gen THEN Fail(it, FALSE, "stale")
         ELSE IF \/ e.kind = "protocol"
                 \/ Sequenced(e) /\ \/ e.seq < it.next
                                    \/ \E c \in it.completed : c[2].seq = e.seq
         THEN Fail(it, FALSE, "protocol")
         ELSE IF e.kind = "panic" THEN Fail(it, FALSE, "panic")
         ELSE it' = i /\ UNCHANGED <<call, run, told>>
      /\ UNCHANGED <<pastVars, loader, commands, credits, acks, worker, committed, delivered,
                     faults, upset>>

(* The batch is collated and pinned, and the boundary moves past it.       *)
NextShows ==
  /\ call.at = "next" /\ (Full \/ (Complete /\ it.samples # <<>> /\ ~config.dropLast))
  /\ \/ /\ it' = [it EXCEPT !.batch = @ + 1, !.visible = it.next, !.short = ~Full,
                            !.samples = <<>>]
        /\ delivered' = Append(delivered, [samples |-> it.samples, turn |-> loader.collated])
        /\ loader' = [loader EXCEPT !.collated = @ + 1]
        /\ committed' = it.next
        /\ Answer("batch") /\ call' = Calling("user")
        /\ UNCHANGED <<run, faults>>
     \/ Fault /\ Fail(it, FALSE, "collate") /\ UNCHANGED <<loader, committed, delivered>>
  /\ UNCHANGED <<pastVars, commands, credits, results, acks, worker, upset>>

-----------------------------------------------------------------------------
(* The specification.                                                      *)

CallerStep ==
  \/ Join \/ Begin \/ RollbackSends \/ RollbackCollects \/ CollectAck \/ CollectDiscards
  \/ CollectEnds \/ NextTakes \/ NextGap \/ NextEnds \/ NextReceives \/ NextShows

CallerCalls ==
  \/ SetEpoch \/ DropIterator \/ DropLoader \/ IterRetained \/ IterFresh
  \/ Checkpoint \/ NextBegins

Next ==
  \/ CallerStep \/ CallerCalls \/ Restart
  \/ \E w \in DOMAIN worker : WorkerStep(w) \/ WPanics(w)

Spec == Init /\ [][Next]_vars

(* A thread that can go on does; nobody has to call or to fail.            *)
FairSpec ==
  /\ Spec /\ WF_vars(CallerStep)
  /\ \A w \in UNION {0 .. c.workers - 1 : c \in Configs} :
       WF_vars(w \in DOMAIN worker /\ WorkerStep(w))

-----------------------------------------------------------------------------
(* Properties.                                                             *)

Records == UNION {{w} \X DOMAIN Shard(w) : w \in Workers}
NumberOf(r) == Shard(r[1])[r[2]]

(* What a source promises: numbers that increase within a shard and cover  *)
(* 0, 1, 2, ... once, and the length it announces.                         *)
NoNumberAgain ==
  \A r, q \in Records : /\ NumberOf(r) = NumberOf(q) => r = q
                        /\ r[1] = q[1] /\ r[2] < q[2] => NumberOf(r) < NumberOf(q)

Sound ==
  /\ NoNumberAgain
  /\ {NumberOf(r) : r \in Records} = 0 .. Cardinality(Records) - 1
  /\ Cardinality(Records) <= MaxSequence
  /\ \A n \in config.length : n = Cardinality(Records)

(* The batches of a pass that nothing disturbs.                            *)
Whole ==
  LET total     == Cardinality(Records)
      size      == config.batchSize
      sample(n) == LET r == CHOOSE q \in Records : NumberOf(q) = n
                   IN  Sample(loader.epoch, loader.seed, r[1], r[2], r[2] - 1)
      count     == IF config.dropLast THEN total \div size ELSE (total + size - 1) \div size
  IN  [b \in 1 .. count |->
         [i \in 1 .. Min({size, total - (b - 1) * size}) |-> sample((b - 1) * size + i - 1)]]

(* Whatever was read ahead, cancelled, failed, saved and replayed, in this  *)
(* process and in those before it: the caller sees the batches of one      *)
(* undisturbed pass, every record transformed by the state its lane had    *)
(* there, and every batch collated in turn; and next() ends after the last. *)
(* A stream with a record missing, or without a number, never just ends    *)
(* (one that repeats a number may: see PrefetchRolledBack).                *)
ReplayExact ==
  /\ Sound => IsPrefix([b \in DOMAIN delivered |-> delivered[b].samples], Whole)
  /\ \A b \in DOMAIN delivered : delivered[b].turn = delivered[1].turn + b - 1
  /\ told = "end" /\ NoNumberAgain => Sound /\ Len(delivered) = Len(Whole)

(* Errors have a reason: the loader's own checks - the journal's capacity,  *)
(* credits, generations, acknowledgments, the envelope of a state it saved  *)
(* itself - fail only after user code has, or at the last generation.       *)
OnlyUserFails ==
  /\ \A w \in DOMAIN worker : worker[w].pc = "dying" => upset
  /\ told \in {"panic", "closed", "refused"} => upset
  /\ told \in {"pipeline", "collate"} => faults < config.faults
  /\ told = "protocol" => ~Sound
  /\ told = "pending" => faults < config.faults \/ loader.next + 1 >= MaxGeneration
  /\ told = "unacceptable" => \A state \in saved : state.gen + 1 = MaxGeneration
  /\ told # "stale"

Busy == call.at \notin {"loader", "user", "gone"}

(* iter(), next(), checkpoint(), set_epoch() and both drops return: the     *)
(* caller waits for workers that wait for credits, commands and room.       *)
CallsReturn == Busy ~> ~Busy

(* "Prefetched work is rolled back to the next consumer-visible boundary    *)
(* and replayed" (README.md of rusttorch-data): in a saved state, no source *)
(* is past a record whose outcome the caller has not seen.                  *)
PrefetchRolledBack ==
  \A state \in saved : \A w \in DOMAIN state.lanes :
    \A pos \in 1 .. state.lanes[w].source :
      \E b \in DOMAIN state.delivered, i \in 1 .. config.batchSize :
        /\ i \in DOMAIN state.delivered[b].samples
        /\ state.delivered[b].samples[i] =
             Sample(state.epoch, state.seed, w, pos, state.delivered[b].samples[i][5])
=============================================================================
