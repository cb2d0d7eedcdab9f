-------------------------- MODULE MapLoaderProofs --------------------------
(***************************************************************************)
(* Theorems of the map loader, for any number of workers, lane capacity,   *)
(* batches, iterators and failures.                                        *)
(***************************************************************************)
EXTENDS MapLoader, FiniteSetTheorems, TLAPS

HasPoolStates == {"fill", "submit", "user", "next", "recv"}

\* The coordinator's counters and flags have their types
CountersInv ==
    /\ gen \in Nat /\ nextSub \in Nat /\ nextVis \in Nat /\ outstanding \in Int
    /\ drawn \in 0 .. Batches
    /\ pending \in BOOLEAN /\ subClosed \in BOOLEAN /\ srcDone \in BOOLEAN
    /\ hasPool \in BOOLEAN /\ pendingErr \in BOOLEAN /\ exhausted \in BOOLEAN

\* An iterator that has its pool is between or inside calls that can refill
\* its lanes, and its counters tell where every batch of the plan is
AccountInv ==
    hasPool =>
        /\ cpc \in HasPoolStates
        /\ outcome = "open"
        /\ outstanding = nextSub - nextVis
        /\ ~subClosed => drawn = nextSub + (IF pending \/ cpc = "submit" THEN 1 ELSE 0)
        /\ srcDone => drawn = Batches /\ ~pending /\ ~subClosed /\ cpc # "submit"
        /\ cpc = "submit" => ~pending /\ ~subClosed

\* Only such an iterator fills its lanes or waits; one without a pool has an
\* error to report or is exhausted, also while its pool is being stopped
PoolPresent ==
    /\ after \in {"user", "out", "gone"}
    /\ cpc \in HasPoolStates \ {"user"} => hasPool
    /\ cpc = "user" => hasPool \/ exhausted \/ pendingErr
    /\ cpc \in {"quiesce", "join"} /\ after = "user" => exhausted

\* An ordered loader has yielded the batches before next_visible, in order
YieldedInv ==
    mode.ordered =>
        /\ hasPool => Len(delivered) = nextVis
        /\ delivered \in Seq(Nat)
        /\ \A i \in DOMAIN delivered : delivered[i] = i - 1
        /\ outcome = "end" => Len(delivered) = Batches

CreditInv == CountersInv /\ AccountInv /\ PoolPresent /\ YieldedInv

\* The worker threads touch no variable of the coordinator.
LEMMA WorkerFrame ==
    ASSUME NEW w \in W, WorkerStep(w) \/ WorkerFault(w)
    PROVE  UNCHANGED workerFrame
BY DEF WorkerStep, WorkerFault, WInit, WInitFails, WBegin, WTake, WQuit, WFinish, WFail,
   WPanic, WUserCancel, WAcquire, WAcquireCancelled, WOversize, WSend, WSendCancelled,
   WReport, WCloseBudget, WCancelGeneration, WDrain, WQuiesced, WDie, WExit

\* A loader without an iterator has nothing to account for.
LEMMA CreditInit == Init => CreditInv
<1> SUFFICES ASSUME Init PROVE CreditInv
  OBVIOUS
<1>1. CountersInv
  <2>1. /\ gen = 0 /\ nextSub = 0 /\ nextVis = 0 /\ outstanding = 0 /\ drawn = 0
        /\ pending = FALSE /\ subClosed = FALSE /\ srcDone = FALSE
        /\ hasPool = FALSE /\ pendingErr = FALSE /\ exhausted = FALSE
    BY DEF Init
  <2>2. /\ gen \in Nat /\ nextSub \in Nat /\ nextVis \in Nat /\ outstanding \in Int
        /\ drawn \in 0 .. Batches
    BY <2>1, BatchesAssumption
  <2>3. /\ pending \in BOOLEAN /\ subClosed \in BOOLEAN /\ srcDone \in BOOLEAN
        /\ hasPool \in BOOLEAN /\ pendingErr \in BOOLEAN /\ exhausted \in BOOLEAN
    BY <2>1
  <2> QED
    BY <2>2, <2>3 DEF CountersInv
<1>2. AccountInv /\ PoolPresent
  BY DEF Init, AccountInv, PoolPresent, HasPoolStates
<1>3. YieldedInv
  <2>1. delivered = <<>> /\ nextVis = 0 /\ outcome = "open"
    BY DEF Init
  <2>2. Len(<<>>) = 0 /\ <<>> \in Seq(Nat) /\ DOMAIN <<>> = {}
    OBVIOUS
  <2> QED
    BY <2>1, <2>2 DEF YieldedInv
<1> QED
  BY <1>1, <1>2, <1>3 DEF CreditInv

\* stop_inner leaves an iterator without its pool, wherever it was.
LEMMA StopDropsPool ==
    ASSUME NEW target \in {"user", "out"}, NEW poisoned \in BOOLEAN, Stop(target, poisoned)
    PROVE  /\ hasPool' = FALSE /\ pending' = FALSE
           /\ cpc' = target \/ (cpc' \in {"quiesce", "join"} /\ after' = target)
           /\ after' \in {after, target}
BY DEF Stop

\* No step of fill_available, submit_one or try_submit loses a credit.
LEMMA FillPreserves ==
    ASSUME CreditInv,
           FillDone \/ FillSourceEnds \/ FillClosed \/ FillCheck \/ SubmitFull \/ Submit
             \/ FillSourcePanics
    PROVE  CreditInv'
<1> USE DEF CreditInv, CountersInv, AccountInv, PoolPresent, YieldedInv, HasPoolStates,
        fillFrame, submitVars, creditVars, iterVars, historyVars, quiesceVars
<1>1. CASE FillDone
  BY <1>1 DEF FillDone
<1>2. CASE FillSourceEnds
  BY <1>2 DEF FillSourceEnds, CanFill
<1>3. CASE FillClosed
  <2>1. drawn' \in 0 .. Batches
    BY <1>3, BatchesAssumption DEF FillClosed, NextTask, DrawnWithTask
  <2> QED
    BY <1>3, <2>1 DEF FillClosed, CanFill
<1>4. CASE FillCheck
  <2>1. drawn' \in 0 .. Batches /\ drawn' = nextSub + 1
    BY <1>4, BatchesAssumption DEF FillCheck, CanFill, NextTask, DrawnWithTask
  <2> QED
    BY <1>4, <2>1 DEF FillCheck, CanFill
<1>5. CASE SubmitFull
  BY <1>5 DEF SubmitFull, PendingAfterFull
<1>6. CASE Submit
  BY <1>6, BatchesAssumption DEF Submit
<1>7. CASE FillSourcePanics
  BY <1>7 DEF FillSourcePanics, CanFill
<1> QED
  BY <1>1, <1>2, <1>3, <1>4, <1>5, <1>6, <1>7

\* stop_inner ends an iterator that has already got its outcome.
LEMMA StopPreserves ==
    ASSUME CreditInv, NEW target \in {"user", "out"}, NEW poisoned \in BOOLEAN,
           Stop(target, poisoned), CountersInv', target = "user" => exhausted',
           UNCHANGED <<mode, delivered>>,
           outcome' = "end" => outcome = "end" \/ (cpc = "next" /\ NothingToWaitFor)
    PROVE  CreditInv'
<1>1. /\ hasPool' = FALSE
      /\ cpc' = target \/ (cpc' \in {"quiesce", "join"} /\ after' = target)
      /\ after' \in {after, target}
  BY StopDropsPool
<1>2. AccountInv' /\ PoolPresent'
  BY <1>1 DEF AccountInv, PoolPresent, HasPoolStates, CreditInv
<1>3. YieldedInv'
  <2> SUFFICES ASSUME mode.ordered, outcome' = "end" PROVE Len(delivered) = Batches
    BY <1>1 DEF YieldedInv, CreditInv
  <2>1. CASE outcome = "end"
    BY <2>1 DEF CreditInv, YieldedInv
  <2>2. CASE cpc = "next" /\ NothingToWaitFor
    <3>1. hasPool
      BY <2>2 DEF CreditInv, PoolPresent, HasPoolStates
    <3>2. nextVis = nextSub /\ drawn = nextSub /\ drawn = Batches
      BY <2>2, <3>1 DEF CreditInv, AccountInv, CountersInv, NothingToWaitFor
    <3> QED
      BY <3>1, <3>2 DEF CreditInv, YieldedInv
  <2> QED
    BY <2>1, <2>2
<1> QED
  BY <1>2, <1>3 DEF CreditInv

\* publish yields the batch whose turn it is, and a failing collator ends the
\* iterator.
LEMMA PublishPreserves ==
    ASSUME CreditInv, NEW s, NEW q, cpc \in {"next", "recv"}, Publish(s, q),
           mode.ordered => s = nextVis,
           UNCHANGED nextFrame
    PROVE  CreditInv'
<1>1. hasPool
  BY DEF CreditInv, PoolPresent, HasPoolStates
<1>2. CASE delivered' = Append(delivered, s) /\ nextVis' = nextVis + 1 /\ cpc' = "fill"
           /\ UNCHANGED <<after, pending, exhausted, hasPool, pendingErr, outcome>>
  <2>1. CountersInv' /\ AccountInv' /\ PoolPresent'
    BY <1>1, <1>2 DEF CreditInv, CountersInv, AccountInv, PoolPresent, HasPoolStates,
       Publish, OutstandingAfterPublish, nextFrame
  <2>2. YieldedInv'
    <3> SUFFICES ASSUME mode.ordered PROVE YieldedInv'
      BY DEF YieldedInv, nextFrame
    <3>1. delivered \in Seq(Nat) /\ Len(delivered) = nextVis /\ nextVis \in Nat /\ s = nextVis
      BY <1>1 DEF CreditInv, YieldedInv, CountersInv
    <3>2. delivered' \in Seq(Nat) /\ Len(delivered') = nextVis'
      BY <1>2, <3>1
    <3>3. \A i \in DOMAIN delivered' : delivered'[i] = i - 1
      BY <1>2, <3>1 DEF CreditInv, YieldedInv
    <3>4. outcome' = "open"
      BY <1>1, <1>2 DEF CreditInv, AccountInv
    <3> QED
      BY <3>2, <3>3, <3>4 DEF YieldedInv
  <2> QED
    BY <2>1, <2>2 DEF CreditInv
<1>3. CASE Finish("error", FALSE) /\ UNCHANGED nextVis
  <2>1. Stop("user", FALSE) /\ outcome' = "error" /\ UNCHANGED <<mode, delivered>>
    BY <1>3 DEF Finish, nextFrame
  <2>2. hasPool' = FALSE /\ pending' = FALSE
    BY <2>1 DEF Stop
  <2>3. exhausted' = TRUE /\ pendingErr' = pendingErr
    BY <1>3 DEF Finish
  <2>4. outstanding' = outstanding - 1
    BY DEF Publish, OutstandingAfterPublish
  <2>5. UNCHANGED <<gen, drawn, nextSub, srcDone, subClosed, nextVis>>
    BY <1>3 DEF nextFrame
  <2>6. CountersInv'
    <3>1. /\ gen' \in Nat /\ nextSub' \in Nat /\ nextVis' \in Nat /\ outstanding' \in Int
          /\ drawn' \in 0 .. Batches
      BY <2>4, <2>5 DEF CreditInv, CountersInv
    <3>2. /\ pending' \in BOOLEAN /\ subClosed' \in BOOLEAN /\ srcDone' \in BOOLEAN
          /\ hasPool' \in BOOLEAN /\ pendingErr' \in BOOLEAN /\ exhausted' \in BOOLEAN
      BY <2>2, <2>3, <2>5, Zenon DEF CreditInv, CountersInv
    <3> QED
      BY <3>1, <3>2 DEF CountersInv
  <2>7. exhausted'
    BY <2>3
  <2>8. FALSE \in BOOLEAN /\ "user" \in {"user", "out"}
    OBVIOUS
  <2> QED
    BY <2>1, <2>6, <2>7, <2>8, StopPreserves
<1> QED
  BY <1>2, <1>3 DEF Publish

\* iter() on a new or a kept pool, or with a deferred error, starts an account of its own.
LEMMA IterPreserves ==
    ASSUME CreditInv, IterNewPool \/ IterReusePool \/ IterWithError
    PROVE  CreditInv'
<1>1. FreshIterator
  BY DEF IterNewPool, IterReusePool, IterWithError
<1>2. \/ hasPool' = TRUE /\ pendingErr' = FALSE /\ cpc' = "fill"
      \/ hasPool' = FALSE /\ pendingErr' = TRUE /\ cpc' = "user"
  BY DEF IterNewPool, IterReusePool, IterWithError, Begin
<1>3. UNCHANGED after
  BY DEF IterNewPool, IterReusePool, IterWithError
<1>4. CountersInv'
  <2>1. /\ gen' \in Nat /\ nextSub' \in Nat /\ nextVis' \in Nat /\ outstanding' \in Int
        /\ drawn' \in 0 .. Batches
    BY <1>1, BatchesAssumption DEF FreshIterator, CreditInv, CountersInv
  <2>2. /\ pending' \in BOOLEAN /\ subClosed' \in BOOLEAN /\ srcDone' \in BOOLEAN
        /\ exhausted' \in BOOLEAN
    BY <1>1 DEF FreshIterator
  <2>3. hasPool' \in BOOLEAN /\ pendingErr' \in BOOLEAN
    BY <1>2
  <2> QED
    BY <2>1, <2>2, <2>3 DEF CountersInv
<1>5. AccountInv' /\ PoolPresent'
  BY <1>1, <1>2, <1>3 DEF FreshIterator, AccountInv, PoolPresent, HasPoolStates, CreditInv
<1>6. YieldedInv'
  <2>1. delivered' = <<>> /\ nextVis' = 0 /\ outcome' = "open"
    BY <1>1 DEF FreshIterator
  <2>2. Len(<<>>) = 0 /\ <<>> \in Seq(Nat) /\ DOMAIN <<>> = {}
    OBVIOUS
  <2> QED
    BY <2>1, <2>2 DEF YieldedInv
<1> QED
  BY <1>4, <1>5, <1>6 DEF CreditInv

\* The waits of quiesce_inner and shutdown happen after the account is closed.
LEMMA WaitsPreserve ==
    ASSUME CreditInv, QuiesceReceive \/ QuiesceEnds \/ JoinEnds
    PROVE  CreditInv'
<1>1. cpc \in {"quiesce", "join"} /\ hasPool = FALSE
  BY DEF QuiesceReceive, QuiesceEnds, JoinEnds, CreditInv, AccountInv, HasPoolStates, CountersInv
<1>2. cpc' \in {cpc, after, "join"}
  BY DEF QuiesceReceive, QuiesceEnds, JoinEnds
<1>3. UNCHANGED <<mode, after, gen, submitVars, creditVars, iterVars, historyVars>>
  BY DEF QuiesceReceive, QuiesceEnds, JoinEnds
<1> QED
  BY <1>1, <1>2, <1>3 DEF CreditInv, CountersInv, AccountInv, PoolPresent, YieldedInv,
     HasPoolStates, submitVars, creditVars, iterVars, historyVars

\* An iterator that ends with an error, a timeout or None closes its account.
LEMMA FinishPreserves ==
    ASSUME CreditInv, NEW o, NEW poisoned \in BOOLEAN, Finish(o, poisoned),
           UNCHANGED <<nextFrame, creditVars>>,
           o = "end" => cpc = "next" /\ NothingToWaitFor
    PROVE  CreditInv'
<1>1. Stop("user", poisoned) /\ outcome' = o /\ UNCHANGED <<mode, delivered>>
  BY DEF Finish, nextFrame
<1>2. CountersInv'
  <2>1. UNCHANGED <<gen, drawn, nextSub, nextVis, outstanding, srcDone, subClosed, pendingErr>>
    BY DEF Finish, nextFrame, creditVars
  <2>2. exhausted' = TRUE /\ hasPool' = FALSE /\ pending' = FALSE
    BY DEF Finish, Stop
  <2> QED
    BY <2>1, <2>2, Zenon DEF CreditInv, CountersInv
<1>3. exhausted' /\ "user" \in {"user", "out"}
  BY DEF Finish
<1> QED
  BY <1>1, <1>2, <1>3, StopPreserves

\* next() yields, keeps waiting or ends.
LEMMA NextPreserves ==
    ASSUME CreditInv,
           NextFromCompleted \/ NextEnds \/ NextWaits \/ RecvKeepsWaiting \/ RecvBatch
             \/ RecvError \/ RecvFatal \/ RecvCancelled \/ RecvTimeout
    PROVE  CreditInv'
<1>1. CASE NextFromCompleted
  BY <1>1, PublishPreserves DEF NextFromCompleted
<1>2. CASE NextEnds
  BY <1>2, FinishPreserves DEF NextEnds
<1>3. CASE NextWaits
  BY <1>3 DEF NextWaits, nextFrame, CreditInv, CountersInv, AccountInv, PoolPresent,
     YieldedInv, HasPoolStates, creditVars, iterVars, historyVars
<1>4. CASE RecvKeepsWaiting
  BY <1>4 DEF RecvKeepsWaiting, nextFrame, CreditInv, CountersInv, AccountInv, PoolPresent,
     YieldedInv, HasPoolStates, creditVars, historyVars
<1>5. CASE RecvBatch
  <2>1. mode.ordered => Received.seq = nextVis
    BY <1>5 DEF RecvBatch, OutOfTurn
  <2> QED
    BY <1>5, <2>1, PublishPreserves DEF RecvBatch, Receives
<1>6. CASE RecvError
  BY <1>6, FinishPreserves DEF RecvError
<1>7. CASE RecvFatal
  BY <1>7, FinishPreserves DEF RecvFatal
<1>8. CASE RecvCancelled
  BY <1>8, FinishPreserves DEF RecvCancelled
<1>9. CASE RecvTimeout
  BY <1>9, FinishPreserves DEF RecvTimeout
<1> QED
  BY <1>1, <1>2, <1>3, <1>4, <1>5, <1>6, <1>7, <1>8, <1>9

\* The caller may call next(), or drop the iterator or the loader.
LEMMA CallerPreserves ==
    ASSUME CreditInv, NextPendingError \/ NextStarts \/ DropIter \/ DropLoader
    PROVE  CreditInv'
<1>1. CASE NextPendingError
  <2>1. /\ Stop("user", FALSE) /\ outcome' = "error" /\ exhausted' = TRUE
        /\ UNCHANGED <<mode, delivered>>
    BY <1>1 DEF NextPendingError, nextFrame
  <2>2. CountersInv'
    <3>1. UNCHANGED <<gen, drawn, nextSub, nextVis, outstanding, srcDone, subClosed>>
      BY <1>1 DEF NextPendingError, nextFrame, creditVars
    <3>2. pendingErr' = FALSE /\ hasPool' = FALSE /\ pending' = FALSE
      BY <1>1, <2>1 DEF NextPendingError, Stop
    <3> QED
      BY <2>1, <3>1, <3>2, Zenon DEF CreditInv, CountersInv
  <2>3. "user" \in {"user", "out"} /\ FALSE \in BOOLEAN
    OBVIOUS
  <2> QED
    BY <2>1, <2>2, <2>3, StopPreserves
<1>2. CASE NextStarts
  BY <1>2 DEF NextStarts, nextFrame, CreditInv, CountersInv, AccountInv, PoolPresent,
     YieldedInv, HasPoolStates, creditVars, iterVars, historyVars
<1>3. CASE DropIter
  <2>1. UNCHANGED <<mode, delivered, outcome, gen, drawn, nextSub, nextVis, outstanding,
                    srcDone, subClosed, exhausted, pendingErr>>
    BY <1>3 DEF DropIter, nextFrame, creditVars, historyVars
  <2>2. CASE hasPool
    <3>1. Stop("out", FALSE)
      BY <1>3, <2>2 DEF DropIter
    <3>2. hasPool' = FALSE /\ pending' = FALSE
      BY <3>1 DEF Stop
    <3>3. CountersInv'
      BY <2>1, <3>2, Zenon DEF CreditInv, CountersInv
    <3>4. "out" \in {"user", "out"} /\ FALSE \in BOOLEAN
      OBVIOUS
    <3> QED
      BY <2>1, <3>1, <3>3, <3>4, StopPreserves
  <2>3. CASE ~hasPool
    <3>1. cpc' = "out" /\ UNCHANGED <<after, pending, hasPool>>
      BY <1>3, <2>3 DEF DropIter
    <3> QED
      BY <2>1, <2>3, <3>1 DEF CreditInv, CountersInv, AccountInv, PoolPresent, YieldedInv,
         HasPoolStates
  <2> QED
    BY <2>2, <2>3
<1>4. CASE DropLoader
  <2>1. cpc' \in {"join", "gone"} /\ after' = "gone" /\ ~hasPool
    BY <1>4 DEF DropLoader, CreditInv, AccountInv, HasPoolStates
  <2>2. UNCHANGED <<mode, gen, drawn, nextSub, srcDone, subClosed, pending, creditVars,
                    iterVars, historyVars>>
    BY <1>4 DEF DropLoader, nextFrame
  <2> QED
    BY <2>1, <2>2 DEF CreditInv, CountersInv, AccountInv, PoolPresent, YieldedInv,
       HasPoolStates, creditVars, iterVars, historyVars
<1> QED
  BY <1>1, <1>2, <1>3, <1>4

\* Every step of the coordinator, the caller and the workers keeps the account.
LEMMA CreditNext == CreditInv /\ [Next]_vars => CreditInv'
<1> SUFFICES ASSUME CreditInv, [Next]_vars
             PROVE  CreditInv'
  OBVIOUS
<1>1. CASE CoordinatorStep
  BY <1>1, FillPreserves, WaitsPreserve, NextPreserves DEF CoordinatorStep
<1>2. CASE CallerStep
  BY <1>2, IterPreserves, CallerPreserves DEF CallerStep
<1>3. CASE FillSourcePanics
  BY <1>3, FillPreserves
<1>4. CASE \E w \in W : WorkerStep(w) \/ WorkerFault(w)
  <2>1. UNCHANGED workerFrame
    BY <1>4, WorkerFrame
  <2> QED
    BY <2>1 DEF workerFrame, CreditInv, CountersInv, AccountInv, PoolPresent, YieldedInv,
       submitVars, creditVars, iterVars, historyVars
<1>5. CASE Expire
  BY <1>5 DEF Expire, nextFrame, CreditInv, CountersInv, AccountInv, PoolPresent,
     YieldedInv, creditVars, iterVars, historyVars
<1>6. CASE UNCHANGED vars
  BY <1>6 DEF vars, CreditInv, CountersInv, AccountInv, PoolPresent, YieldedInv,
     submitVars, creditVars, iterVars, historyVars
<1> QED
  BY <1>1, <1>2, <1>3, <1>4, <1>5, <1>6 DEF Next, Done

\* No path of fill_available, publish, a full lane, a failure or a drop loses
\* or invents a credit or a batch drawn from the sampler.
THEOREM LoaderAccountsForCredits == Spec => []CreditsExact
<1>1. CreditInv => CreditsExact
  BY DEF CreditInv, AccountInv, CreditsExact, Iterating
<1> QED
  BY <1>1, CreditInit, CreditNext, PTL DEF Spec

\* What an ordered loader's iterator has yielded is the plan's prefix, and the
\* whole plan when it ended with None.
YieldsPlan ==
    mode.ordered =>
        /\ \A i \in DOMAIN delivered : delivered[i] = i - 1
        /\ outcome = "end" => Len(delivered) = Batches

\* An ordered loader yields the plan's batches in order, without gap or
\* repetition, and ends only after the last one (WorkerLoaderIter::next,
\* publish), whatever the workers do.
THEOREM LoaderYieldsPlan == Spec => []YieldsPlan
<1>1. CreditInv => YieldsPlan
  BY DEF CreditInv, YieldedInv, YieldsPlan
<1> QED
  BY <1>1, CreditInit, CreditNext, PTL DEF Spec

-----------------------------------------------------------------------------
(* Type correctness: the types of the coordinator and of the pool, and the *)
(* capacities of the bounded channels.                                     *)

Producing == {"work", "acquire", "send"}
MessageKinds == {"batch", "error", "init", "panic", "quiesced"}

\* Well-formed workers, lanes and results: the types, that a batch that is
\* being produced or delivered has a sequence number of the plan, and that a
\* dying worker knows the failure it is going to report
WorkersOK(f) ==
    /\ f \in [W -> WorkerType]
    /\ \A w \in W : f[w].pc \in Producing => f[w].seq \in Plan
    /\ \A w \in W : f[w].pc = "die" => f[w].kind # "none"

LanesOK(f, m) ==
    /\ f \in [W -> Seq(Task)]
    /\ \A w \in W : Len(f[w]) <= m.prefetch

MessageOK(m) == m \in Completion /\ (m.kind = "batch" => m.seq \in Plan)

ResultsOK(q, m) ==
    /\ q \in Seq(Completion)
    /\ \A i \in DOMAIN q : MessageOK(q[i])
    /\ Len(q) <= Workers * m.prefetch

\* Sizes and residues of the constants.
LEMMA ConstantFacts ==
    /\ Plan \subseteq Nat
    /\ W \subseteq Nat
    /\ \A s \in Nat : Lane(s) \in W
BY WorkersAssumption, BatchesAssumption DEF Plan, Lane, W

\* Every configuration prefetches at least one batch per worker.
LEMMA ModeFacts ==
    ASSUME mode \in Modes
    PROVE  mode.prefetch \in Nat \ {0} /\ Capacity \in Nat \ {0}
<1>1. mode.prefetch \in Nat \ {0}
  BY PrefetchAssumption, ModesAssumption DEF ModeType
<1> QED
  BY <1>1, WorkersAssumption DEF Capacity

\* Every update a worker step makes to its own record keeps it well-formed.
LEMMA WorkersUpdate ==
    ASSUME WorkersOK(wk), NEW w \in W, NEW p \in WorkerStates,
           NEW s \in Plan \cup {None}, NEW g \in Nat, NEW k \in {"none", "init", "panic"}
    PROVE  /\ p \notin Producing \cup {"die"} => WorkersOK([wk EXCEPT ![w].pc = p])
           /\ p # "die" /\ wk[w].pc \in Producing => WorkersOK([wk EXCEPT ![w].pc = p])
           /\ p \notin Producing \cup {"die"} => WorkersOK([wk EXCEPT ![w].pc = p, ![w].seq = s])
           /\ p # "die" /\ s \in Plan => WorkersOK([wk EXCEPT ![w].pc = p, ![w].seq = s])
           /\ p \notin Producing \cup {"die"} => WorkersOK([wk EXCEPT ![w].pc = p, ![w].gen = g])
           /\ p \notin Producing /\ k # "none" => WorkersOK([wk EXCEPT ![w].pc = p, ![w].kind = k])
<1>1. wk[w] \in WorkerType
  BY DEF WorkersOK
<1>2. /\ [wk[w] EXCEPT !.pc = p] \in WorkerType
      /\ [wk[w] EXCEPT !.pc = p, !.seq = s] \in WorkerType
      /\ [wk[w] EXCEPT !.pc = p, !.gen = g] \in WorkerType
      /\ [wk[w] EXCEPT !.pc = p, !.kind = k] \in WorkerType
  BY <1>1 DEF WorkerType
<1>3. \A r \in WorkerType :
         (r.pc \in Producing => r.seq \in Plan) /\ (r.pc = "die" => r.kind # "none")
            => WorkersOK([wk EXCEPT ![w] = r])
  BY DEF WorkersOK
<1>4. wk[w].pc \in Producing => wk[w].seq \in Plan
  BY DEF WorkersOK
<1>5. /\ [wk[w] EXCEPT !.pc = p].pc = p /\ [wk[w] EXCEPT !.pc = p].seq = wk[w].seq
      /\ [wk[w] EXCEPT !.pc = p, !.seq = s].pc = p /\ [wk[w] EXCEPT !.pc = p, !.seq = s].seq = s
      /\ [wk[w] EXCEPT !.pc = p, !.gen = g].pc = p
      /\ [wk[w] EXCEPT !.pc = p, !.kind = k].pc = p
      /\ [wk[w] EXCEPT !.pc = p, !.kind = k].kind = k
  BY <1>1 DEF WorkerType
<1>6. /\ p \notin Producing \cup {"die"} => WorkersOK([wk EXCEPT ![w].pc = p])
      /\ p # "die" /\ wk[w].pc \in Producing => WorkersOK([wk EXCEPT ![w].pc = p])
  BY ONLY <1>2, <1>3, <1>4, <1>5
<1>7. /\ p \notin Producing \cup {"die"} => WorkersOK([wk EXCEPT ![w].pc = p, ![w].seq = s])
      /\ p # "die" /\ s \in Plan => WorkersOK([wk EXCEPT ![w].pc = p, ![w].seq = s])
  BY ONLY <1>2, <1>3, <1>5
<1>8. p \notin Producing \cup {"die"} => WorkersOK([wk EXCEPT ![w].pc = p, ![w].gen = g])
  BY ONLY <1>2, <1>3, <1>5
<1>9. p \notin Producing /\ k # "none" => WorkersOK([wk EXCEPT ![w].pc = p, ![w].kind = k])
  BY ONLY <1>2, <1>3, <1>5
<1> QED
  BY ONLY <1>6, <1>7, <1>8, <1>9

\* A channel that has room stays within its capacity.
LEMMA ResultsSend ==
    ASSUME mode \in Modes, ResultsOK(results, mode), CanSend, NEW m, MessageOK(m)
    PROVE  ResultsOK(Append(results, m), mode)
BY ConstantFacts, ModeFacts DEF Capacity, ResultsOK, CanSend, MessageOK

\* Receiving keeps the rest of the channel.
LEMMA ResultsReceive ==
    ASSUME mode \in Modes, ResultsOK(results, mode), results # <<>>
    PROVE  MessageOK(Head(results)) /\ ResultsOK(Tail(results), mode)
BY ConstantFacts, ModeFacts DEF Capacity, ResultsOK

\* Taking a task keeps the rest of the lane.
LEMMA LaneTake ==
    ASSUME mode \in Modes, LanesOK(lane, mode), NEW w \in W, lane[w] # <<>>
    PROVE  Head(lane[w]) \in Task /\ LanesOK([lane EXCEPT ![w] = Tail(@)], mode)
<1>1. lane[w] \in Seq(Task) /\ Len(lane[w]) <= mode.prefetch
  BY DEF LanesOK
<1>2. Head(lane[w]) \in Task /\ Tail(lane[w]) \in Seq(Task) /\ Len(Tail(lane[w])) <= mode.prefetch
  BY <1>1, ConstantFacts, ModeFacts
<1> QED
  BY <1>1, <1>2 DEF LanesOK

\* Submitting to a lane that is not full keeps its capacity.
LEMMA LaneSubmit ==
    ASSUME mode \in Modes, LanesOK(lane, mode), NEW w \in W, ~LaneFull(w), NEW t \in Task
    PROVE  LanesOK([lane EXCEPT ![w] = Append(@, t)], mode)
<1>1. lane[w] \in Seq(Task) /\ Len(lane[w]) < mode.prefetch
  BY ConstantFacts, ModeFacts DEF LanesOK, LaneFull
<1>2. Append(lane[w], t) \in Seq(Task) /\ Len(Append(lane[w], t)) <= mode.prefetch
  BY <1>1, ConstantFacts, ModeFacts
<1> QED
  BY <1>1, <1>2 DEF LanesOK
\* The permits in a queue, or in the reassembly map, are a number of bytes.
LEMMA PermitCounts ==
    ASSUME mode \in Modes
    PROVE  /\ Weight \in Nat
           /\ \A q \in Seq(Completion) : PermitsIn(q) \in Nat
           /\ \A S \in SUBSET Plan : IsFiniteSet(S) /\ Cardinality(S) \in Nat
<1>1. Weight \in Nat
  BY DEF Weight
<1>2. ASSUME NEW q \in Seq(Completion)
      PROVE  PermitsIn(q) \in Nat
  <2>1. IsFiniteSet(1 .. Len(q))
    BY <1>2, FS_Interval
  <2>2. IsFiniteSet({i \in DOMAIN q : q[i].kind = "batch"})
    BY <1>2, <2>1, FS_Subset
  <2>3. Cardinality({i \in DOMAIN q : q[i].kind = "batch"}) \in Nat
    BY <2>2, FS_CardinalityType
  <2> QED
    BY <1>1, <2>3 DEF PermitsIn
<1>3. ASSUME NEW S \in SUBSET Plan
      PROVE  IsFiniteSet(S) /\ Cardinality(S) \in Nat
  <2>1. IsFiniteSet(Plan)
    BY BatchesAssumption, FS_Interval DEF Plan
  <2> QED
    BY <2>1, FS_Subset, FS_CardinalityType
<1> QED
  BY <1>1, <1>2, <1>3

\* The part of the state a worker step may change
PoolInv ==
    /\ WorkersOK(wk)
    /\ LanesOK(lane, mode)
    /\ ResultsOK(results, mode)
    /\ control \in [W -> Nat]
    /\ cancelled \subseteq Nat /\ budgetClosed \subseteq Nat
    /\ used \in Int /\ nextAdmit \in Nat
    /\ faults \in 0 .. MaxFaults

\* Steps of a worker that send nothing.
LEMMA SilentWorkerSteps ==
    ASSUME PoolInv, mode \in Modes, NEW w \in W,
           WInit(w) \/ WInitFails(w) \/ WBegin(w) \/ WTake(w) \/ WQuit(w) \/ WFinish(w)
             \/ WAcquire(w) \/ WAcquireCancelled(w) \/ WSendCancelled(w)
             \/ WCloseBudget(w) \/ WCancelGeneration(w) \/ WDrain(w) \/ WExit(w)
             \/ WFail(w) \/ WPanic(w) \/ WUserCancel(w) \/ WOversize(w)
    PROVE  PoolInv'
<1> USE DEF PoolInv
<1>0. /\ wk[w] \in WorkerType /\ wk[w].gen \in Nat /\ wk[w].seq \in Plan \cup {None}
      /\ None \in Plan \cup {None} /\ Weight \in Nat /\ control[w] \in Nat
  BY PermitCounts DEF WorkersOK, WorkerType
<1>u. UNCHANGED mode
  BY WorkerFrame DEF workerFrame, WorkerStep, WorkerFault
<1>f. ASSUME NEW k, Fault(k) PROVE faults' \in 0 .. MaxFaults
  BY <1>f, MaxFaultsAssumption DEF Fault
<1> USE <1>u DEF Goto, Producing, WorkerStates
<1>1. CASE WInit(w)
  <2>1. wk' = [wk EXCEPT ![w].pc = "idle"] BY <1>1 DEF WInit
  <2> QED BY <1>0, <1>1, <2>1, WorkersUpdate DEF WInit, budgetVars
<1>2. CASE WInitFails(w)
  <2>1. PICK k \in {"init", "panic"} : Fault(k) /\ wk' = [wk EXCEPT ![w].pc = "die", ![w].kind = k]
    BY <1>2 DEF WInitFails
  <2>2. WorkersOK(wk') BY <1>0, <2>1, WorkersUpdate
  <2> QED BY <1>2, <1>f, <2>1, <2>2 DEF WInitFails, budgetVars
<1>3. CASE WBegin(w)
  <2>1. WorkersOK(wk') BY <1>0, <1>3, WorkersUpdate DEF WBegin
  <2> QED BY <1>3, <2>1 DEF WBegin, budgetVars
<1>4. CASE WTake(w)
  <2>1. LanesOK(lane', mode) /\ Head(lane[w]) \in Task
    BY <1>4, LaneTake DEF WTake
  <2>2. Head(lane[w]).seq \in Plan
    BY <2>1 DEF Task
  <2>3. \/ wk' = [wk EXCEPT ![w].pc = "drain"]
        \/ wk' = wk
        \/ wk' = [wk EXCEPT ![w].pc = "work", ![w].seq = Head(lane[w]).seq]
    BY <1>4 DEF WTake
  <2>4. WorkersOK([wk EXCEPT ![w].pc = "drain"]) BY <1>0, WorkersUpdate
  <2>5. WorkersOK([wk EXCEPT ![w].pc = "work", ![w].seq = Head(lane[w]).seq])
    BY <1>0, <2>2, WorkersUpdate
  <2> QED BY <1>4, <2>1, <2>3, <2>4, <2>5 DEF WTake, budgetVars
<1>5. CASE WQuit(w)
  <2>1. WorkersOK(wk') BY <1>0, <1>5, WorkersUpdate DEF WQuit
  <2> QED BY <1>5, <2>1 DEF WQuit, budgetVars
<1>6. CASE WFinish(w)
  <2>1. \/ wk' = [wk EXCEPT ![w].pc = "drain", ![w].seq = None]
        \/ wk' = [wk EXCEPT ![w].pc = "acquire"]
        \/ wk' = [wk EXCEPT ![w].pc = "send"]
    BY <1>6 DEF WFinish
  <2>2. wk[w].pc \in Producing BY <1>6 DEF WFinish
  <2>3. WorkersOK([wk EXCEPT ![w].pc = "drain", ![w].seq = None]) BY <1>0, WorkersUpdate
  <2>4. WorkersOK([wk EXCEPT ![w].pc = "acquire"]) /\ WorkersOK([wk EXCEPT ![w].pc = "send"])
    BY <1>0, <2>2, WorkersUpdate
  <2> QED BY <1>6, <2>1, <2>3, <2>4 DEF WFinish, budgetVars
<1>7. CASE WAcquire(w)
  <2>1. wk' = [wk EXCEPT ![w].pc = "send"] /\ wk[w].pc \in Producing BY <1>7 DEF WAcquire
  <2>2. WorkersOK(wk') BY <1>0, <2>1, WorkersUpdate
  <2>3. used' \in Int /\ nextAdmit' \in Nat BY <1>0, <1>7 DEF WAcquire
  <2> QED BY <1>7, <2>2, <2>3 DEF WAcquire
<1>8. CASE WAcquireCancelled(w)
  <2>1. WorkersOK(wk') BY <1>0, <1>8, WorkersUpdate DEF WAcquireCancelled
  <2> QED BY <1>8, <2>1 DEF WAcquireCancelled, budgetVars
<1>9. CASE WSendCancelled(w)
  <2>1. WorkersOK(wk') BY <1>0, <1>9, WorkersUpdate DEF WSendCancelled
  <2>2. used' \in Int BY <1>0, <1>9 DEF WSendCancelled, UsedAfterDrop
  <2> QED BY <1>9, <2>1, <2>2 DEF WSendCancelled
<1>10. CASE WCloseBudget(w)
  <2>1. WorkersOK(wk') BY <1>0, <1>10, WorkersUpdate DEF WCloseBudget
  <2> QED BY <1>0, <1>10, <2>1 DEF WCloseBudget, budgetVars
<1>11. CASE WCancelGeneration(w)
  <2>1. WorkersOK(wk') BY <1>0, <1>11, WorkersUpdate DEF WCancelGeneration
  <2> QED BY <1>0, <1>11, <2>1 DEF WCancelGeneration, budgetVars
<1>12. CASE WDrain(w)
  <2>1. wk' = wk \/ wk' = [wk EXCEPT ![w].pc = "quiesced"] BY <1>12 DEF WDrain
  <2>2. WorkersOK(wk') BY <1>0, <2>1, WorkersUpdate
  <2>3. LanesOK(lane', mode) BY <1>12, LaneTake DEF WDrain
  <2> QED BY <1>12, <2>2, <2>3 DEF WDrain, budgetVars
<1>13. CASE WExit(w)
  <2>1. WorkersOK(wk') BY <1>0, <1>13, WorkersUpdate DEF WExit
  <2>2. used' \in Int BY <1>0, <1>13 DEF WExit, UsedAfterDrop
  <2> QED BY <1>13, <2>1, <2>2 DEF WExit
<1>14. CASE WFail(w)
  <2>1. WorkersOK(wk') BY <1>0, <1>14, WorkersUpdate DEF WFail
  <2>2. faults' \in 0 .. MaxFaults BY <1>14, <1>f DEF WFail
  <2> QED BY <1>14, <2>1, <2>2 DEF WFail, budgetVars
<1>15. CASE WPanic(w)
  <2>1. WorkersOK(wk') BY <1>0, <1>15, WorkersUpdate DEF WPanic
  <2> QED BY <1>15, <1>f, <2>1 DEF WPanic, budgetVars
<1>16. CASE WUserCancel(w)
  BY <1>0, <1>16, <1>f DEF WUserCancel, budgetVars
<1>17. CASE WOversize(w)
  <2>1. WorkersOK(wk') BY <1>0, <1>17, WorkersUpdate DEF WOversize
  <2> QED BY <1>17, <1>f, <2>1 DEF WOversize, budgetVars
<1> QED
  BY <1>1, <1>2, <1>3, <1>4, <1>5, <1>6, <1>7, <1>8, <1>9, <1>10, <1>11, <1>12, <1>13,
     <1>14, <1>15, <1>16, <1>17

\* Steps of a worker that send a completion.
LEMMA SendingWorkerSteps ==
    ASSUME PoolInv, mode \in Modes, NEW w \in W, WSend(w) \/ WReport(w) \/ WQuiesced(w) \/ WDie(w)
    PROVE  PoolInv'
<1> USE DEF PoolInv
<1>0. /\ wk[w] \in WorkerType /\ wk[w].gen \in Nat /\ wk[w].seq \in Plan \cup {None}
      /\ None \in Plan \cup {None} /\ wk[w].kind \in {"none", "init", "panic"}
  BY DEF WorkersOK, WorkerType
<1>u. UNCHANGED mode
  BY WorkerFrame DEF workerFrame, WorkerStep, WorkerFault
<1>m. \A s \in Plan \cup {None}, k \in MessageKinds :
         (k = "batch" => s \in Plan) => MessageOK(Message(w, wk[w].gen, s, k))
  BY <1>0 DEF MessageOK, Message, Completion, MessageKinds
<1> USE <1>u DEF Goto, Producing, WorkerStates, MessageKinds
<1>1. CASE WSend(w)
  <2>1. WorkersOK(wk') BY <1>0, <1>1, WorkersUpdate DEF WSend
  <2>2. wk[w].seq \in Plan BY <1>1 DEF WSend, WorkersOK
  <2>3. ResultsOK(results', mode) BY <1>m, <1>1, <2>2, ResultsSend DEF WSend
  <2> QED BY <1>1, <2>1, <2>3 DEF WSend, budgetVars
<1>2. CASE WReport(w)
  <2>1. WorkersOK(wk') BY <1>0, <1>2, WorkersUpdate DEF WReport
  <2>2. ResultsOK(results', mode) BY <1>0, <1>m, <1>2, ResultsSend DEF WReport
  <2> QED BY <1>2, <2>1, <2>2 DEF WReport, budgetVars
<1>3. CASE WQuiesced(w)
  <2>1. WorkersOK(wk') BY <1>0, <1>3, WorkersUpdate DEF WQuiesced
  <2>2. ResultsOK(results', mode) BY <1>0, <1>m, <1>3, ResultsSend DEF WQuiesced
  <2> QED BY <1>3, <2>1, <2>2 DEF WQuiesced, budgetVars
<1>4. CASE WDie(w)
  <2>1. WorkersOK(wk') BY <1>0, <1>4, WorkersUpdate DEF WDie
  <2>2. wk[w].kind \in MessageKinds /\ wk[w].kind # "batch"
    BY <1>0, <1>4 DEF WDie, WorkersOK
  <2>3. ResultsOK(results', mode) BY <1>0, <1>m, <1>4, <2>2, ResultsSend DEF WDie
  <2> QED BY <1>4, <2>1, <2>3 DEF WDie, budgetVars
<1> QED
  BY <1>1, <1>2, <1>3, <1>4
\* What the coordinator's account leaves untyped
CoordInv ==
    /\ mode \in Modes
    /\ cpc \in CoordinatorStates
    /\ completed \subseteq Plan
    /\ acked \subseteq W /\ fatal \in BOOLEAN
    /\ delivered \in Seq(Plan)
    /\ outcome \in {"open", "end", "timeout", "cancelled", "error"}
    /\ pool \in {"none", "live", "poisoned"}
    /\ shutdown \in BOOLEAN
    /\ deadline \in {"off", "armed", "expired"}

TypeInv == CreditInv /\ CoordInv /\ PoolInv

\* The inductive invariant is at least the type invariant the runs check.
LEMMA TypeInvImpliesTypeOK == TypeInv => TypeOK
BY DEF TypeInv, CreditInv, CountersInv, PoolPresent, CoordInv, PoolInv, WorkersOK, LanesOK,
   ResultsOK, Capacity, TypeOK, CoordinatorTypeOK, PoolTypeOK

\* It holds of a new loader.
LEMMA TypeInit == Init => TypeInv
<1> SUFFICES ASSUME Init PROVE TypeInv
  OBVIOUS
<1>1. CoordInv
  <2>1. completed \subseteq Plan /\ acked \subseteq W /\ delivered \in Seq(Plan)
    BY DEF Init
  <2> QED
    BY <2>1 DEF Init, CoordInv, CoordinatorStates
<1>2. WorkersOK(wk) /\ LanesOK(lane, mode) /\ ResultsOK(results, mode)
  <2>1. NoWorker \in WorkerType
    BY DEF NoWorker, WorkerType, WorkerStates
  <2>2. WorkersOK(wk)
    BY <2>1 DEF Init, WorkersOK, NoWorker, Producing
  <2>3. LanesOK(lane, mode)
    BY ConstantFacts, ModeFacts DEF Init, LanesOK
  <2>4. ResultsOK(results, mode)
    BY ConstantFacts, ModeFacts DEF Capacity, Init, ResultsOK
  <2> QED
    BY <2>2, <2>3, <2>4
<1>3. PoolInv
  <2>1. control \in [W -> Nat] /\ used \in Int /\ nextAdmit \in Nat /\ faults \in 0 .. MaxFaults
    BY MaxFaultsAssumption DEF Init
  <2>2. cancelled \subseteq Nat /\ budgetClosed \subseteq Nat
    BY DEF Init
  <2> QED
    BY <1>2, <2>1, <2>2 DEF PoolInv
<1> QED
  BY <1>1, <1>3, CreditInit DEF TypeInv

\* stop_inner clears the reassembly map and marks the generation as over.
LEMMA StopTypes ==
    ASSUME TypeInv, NEW target \in {"user", "out"}, NEW poisoned \in BOOLEAN,
           Stop(target, poisoned)
    PROVE  /\ cancelled' \subseteq Nat /\ budgetClosed' \subseteq Nat
           /\ completed' \subseteq Plan
           /\ cpc' \in CoordinatorStates
           /\ acked' \subseteq W /\ fatal' \in BOOLEAN
           /\ pool' \in {"none", "live", "poisoned"} /\ shutdown' \in BOOLEAN
<1>1. gen \in Nat /\ cancelled \subseteq Nat /\ budgetClosed \subseteq Nat
  BY DEF TypeInv, CreditInv, CountersInv, PoolInv
<1>2. cancelled' \subseteq Nat /\ budgetClosed' \subseteq Nat /\ completed' \subseteq Plan
  BY <1>1 DEF Stop
<1>3. cpc' \in CoordinatorStates
  BY DEF Stop, CoordinatorStates
<1>4. acked' \subseteq W /\ fatal' \in BOOLEAN
  BY DEF Stop, TypeInv, CoordInv, quiesceVars
<1>5. pool' \in {"none", "live", "poisoned"} /\ shutdown' \in BOOLEAN
  BY DEF Stop, TypeInv, CoordInv
<1> QED
  BY <1>2, <1>3, <1>4, <1>5

\* Filling the lanes.
LEMMA FillTypes ==
    ASSUME TypeInv,
           FillDone \/ FillSourceEnds \/ FillClosed \/ FillCheck \/ SubmitFull \/ Submit
             \/ FillSourcePanics
    PROVE  CoordInv' /\ PoolInv'
<1> USE DEF TypeInv, CoordInv, PoolInv, fillFrame, iterVars, historyVars, quiesceVars,
        poolVars, budgetVars, CoordinatorStates
<1>1. CASE FillDone \/ FillSourceEnds \/ FillClosed \/ FillCheck \/ SubmitFull
  BY <1>1 DEF FillDone, FillSourceEnds, FillClosed, FillCheck, SubmitFull
<1>2. CASE Submit
  <2>1. nextSub \in Nat /\ gen \in Nat /\ Lane(nextSub) \in W
    BY ConstantFacts DEF CreditInv, CountersInv
  <2>2. nextSub \in Plan
    <3>1. hasPool
      BY <1>2 DEF Submit, CreditInv, PoolPresent, HasPoolStates
    <3>2. drawn = nextSub + 1 /\ drawn \in 0 .. Batches
      BY <1>2, <3>1 DEF Submit, CreditInv, AccountInv, CountersInv
    <3> QED
      BY <2>1, <3>2, BatchesAssumption DEF Plan
  <2>3. [gen |-> gen, seq |-> nextSub] \in Task
    BY <2>1, <2>2 DEF Task
  <2>4. LanesOK(lane', mode)
    BY <1>2, <2>1, <2>3, LaneSubmit DEF Submit
  <2> QED
    BY <1>2, <2>4 DEF Submit
<1>3. CASE FillSourcePanics
  BY <1>3, MaxFaultsAssumption DEF FillSourcePanics, Fault
<1> QED
  BY <1>1, <1>2, <1>3
\* iter() on a new or a kept pool, or with a deferred error.
LEMMA IterTypes ==
    ASSUME TypeInv, IterNewPool \/ IterReusePool \/ IterWithError
    PROVE  CoordInv' /\ PoolInv'
<1>1. FreshIterator /\ gen \in Nat
  BY DEF IterNewPool, IterReusePool, IterWithError, TypeInv, CreditInv, CountersInv
<1>2. /\ gen' \in Nat /\ completed' = {} /\ delivered' = <<>> /\ outcome' = "open"
      /\ used' = 0 /\ nextAdmit' = 0 /\ deadline' = "off"
  BY <1>1 DEF FreshIterator
<1>3. /\ UNCHANGED <<mode, quiesceVars, shutdown, lane, results, cancelled, budgetClosed>>
      /\ cpc' \in {"fill", "user"} /\ pool' \in {"live", pool}
  BY DEF IterNewPool, IterReusePool, IterWithError, Begin, poolVars
<1>8. faults' \in 0 .. MaxFaults
  BY MaxFaultsAssumption DEF IterNewPool, IterReusePool, IterWithError, Fault, TypeInv, PoolInv
<1>4. CoordInv'
  BY <1>2, <1>3 DEF TypeInv, CoordInv, CoordinatorStates, quiesceVars
<1>5. control' \in [W -> Nat]
  BY <1>2 DEF IterNewPool, IterReusePool, IterWithError, Begin, TypeInv, PoolInv, poolVars
<1>6. WorkersOK(wk')
  <2>1. CASE IterNewPool
    <3>1. [NoWorker EXCEPT !.pc = "spawn", !.gen = gen'] \in WorkerType
      BY <1>2 DEF NoWorker, WorkerType, WorkerStates
    <3>2. [NoWorker EXCEPT !.pc = "spawn", !.gen = gen'].pc = "spawn"
      BY DEF NoWorker
    <3> QED
      BY <2>1, <3>1, <3>2 DEF IterNewPool, WorkersOK, Producing
  <2>2. CASE IterReusePool \/ IterWithError
    BY <2>2 DEF IterReusePool, IterWithError, TypeInv, PoolInv
  <2> QED
    BY <2>1, <2>2
<1>7. PoolInv'
  BY <1>2, <1>3, <1>5, <1>6, <1>8 DEF TypeInv, PoolInv
<1> QED
  BY <1>4, <1>7

\* Receiving inside quiesce_inner, and the end of a quiesce or a join.
LEMMA WaitsTypes ==
    ASSUME TypeInv, QuiesceReceive \/ QuiesceEnds \/ JoinEnds
    PROVE  CoordInv' /\ PoolInv'
<1>0. /\ after \in {"user", "out", "gone"} /\ used \in Int /\ mode \in Modes
      /\ results \in Seq(Completion) /\ PermitsIn(results) \in Nat
  BY PermitCounts DEF TypeInv, CreditInv, PoolPresent, PoolInv, ResultsOK, CoordInv
<1>1. CASE QuiesceReceive
  <2>1. MessageOK(Head(results)) /\ ResultsOK(Tail(results), mode)
    BY <1>1, ResultsReceive DEF QuiesceReceive, TypeInv, CoordInv, PoolInv
  <2>2. Head(results).worker \in W /\ <<Head(results)>> \in Seq(Completion)
    BY <2>1 DEF MessageOK, Completion
  <2>3. used' \in Int
    <3>1. PermitsIn(<<Head(results)>>) \in Nat
      BY <2>2, PermitCounts DEF TypeInv, CoordInv
    <3> QED
      BY <1>0, <1>1, <3>1 DEF QuiesceReceive
  <2>4. acked' \subseteq W /\ fatal' \in BOOLEAN
    <3>1. \/ acked' = acked \cup {Head(results).worker}
             /\ fatal' = (fatal \/ Head(results).kind # "quiesced")
          \/ acked' = acked /\ fatal' = fatal
      BY <1>1 DEF QuiesceReceive, quiesceVars
    <3> QED
      BY <2>2, <3>1 DEF TypeInv, CoordInv
  <2>5. CoordInv'
    BY <1>1, <2>4 DEF QuiesceReceive, TypeInv, CoordInv, iterVars, historyVars, poolVars
  <2>6. PoolInv'
    BY <1>1, <2>1, <2>3 DEF QuiesceReceive, TypeInv, PoolInv, poolVars
  <2> QED
    BY <2>5, <2>6
<1>2. ResultsOK(<<>>, mode)
  BY <1>0, ModeFacts DEF Capacity, ResultsOK
<1>3. CASE QuiesceEnds
  <2>1. used' \in Int /\ ResultsOK(results', mode)
    BY <1>0, <1>2, <1>3 DEF QuiesceEnds, TypeInv, PoolInv
  <2>2. /\ cpc' \in CoordinatorStates
        /\ pool' \in {"none", "live", "poisoned"} /\ shutdown' \in BOOLEAN
    BY <1>0, <1>3 DEF QuiesceEnds, CoordinatorStates, TypeInv, CoordInv
  <2>3. CoordInv'
    BY <1>3, <2>2 DEF QuiesceEnds, TypeInv, CoordInv, iterVars, historyVars, quiesceVars
  <2>4. PoolInv'
    BY <1>3, <2>1 DEF QuiesceEnds, TypeInv, PoolInv
  <2> QED
    BY <2>3, <2>4
<1>4. CASE JoinEnds
  <2>1. used' \in Int /\ ResultsOK(results', mode)
    BY <1>0, <1>2, <1>4 DEF JoinEnds
  <2>2. WorkersOK(wk')
    <3>1. NoWorker \in WorkerType
      BY DEF NoWorker, WorkerType, WorkerStates
    <3> QED
      BY <1>4, <3>1 DEF JoinEnds, WorkersOK, NoWorker, Producing
  <2>3. LanesOK(lane', mode) /\ control' \in [W -> Nat]
    BY <1>0, <1>4, ModeFacts DEF JoinEnds, LanesOK
  <2>4. CoordInv'
    BY <1>0, <1>4 DEF JoinEnds, TypeInv, CoordInv, CoordinatorStates, iterVars, historyVars,
       quiesceVars
  <2>5. PoolInv'
    BY <1>4, <2>1, <2>2, <2>3 DEF JoinEnds, TypeInv, PoolInv
  <2> QED
    BY <2>4, <2>5
<1> QED
  BY <1>1, <1>3, <1>4

\* The iterator ends.
LEMMA FinishTypes ==
    ASSUME TypeInv, NEW o \in {"end", "timeout", "cancelled", "error"},
           NEW poisoned \in BOOLEAN, Finish(o, poisoned), UNCHANGED nextFrame,
           used' \in Int, ResultsOK(results', mode), faults' \in 0 .. MaxFaults
    PROVE  CoordInv' /\ PoolInv'
<1>1. Stop("user", poisoned) /\ "user" \in {"user", "out"}
  BY DEF Finish
<1>2. /\ cancelled' \subseteq Nat /\ budgetClosed' \subseteq Nat
      /\ completed' \subseteq Plan
      /\ cpc' \in CoordinatorStates
      /\ acked' \subseteq W /\ fatal' \in BOOLEAN
      /\ pool' \in {"none", "live", "poisoned"} /\ shutdown' \in BOOLEAN
  BY <1>1, StopTypes
<1>3. outcome' = o /\ deadline' = "off" /\ UNCHANGED delivered
  BY DEF Finish
<1>4. UNCHANGED <<mode, lane, control, nextAdmit, wk>>
  BY DEF nextFrame
<1> QED
  BY <1>2, <1>3, <1>4 DEF TypeInv, CoordInv, PoolInv
\* publish yields a batch of the plan.
LEMMA PublishTypes ==
    ASSUME TypeInv, NEW s \in Plan, NEW q, ResultsOK(q, mode), Publish(s, q), UNCHANGED nextFrame
    PROVE  CoordInv' /\ PoolInv'
<1>0. used \in Int /\ Weight \in Nat /\ completed \subseteq Plan /\ mode \in Modes
  BY PermitCounts DEF TypeInv, CoordInv, PoolInv
<1>1. UNCHANGED <<mode, lane, control, nextAdmit, wk>> /\ results' = q
  BY DEF nextFrame, Publish
<1>2. CASE Finish("error", FALSE) /\ Fault("collate")
           /\ used' = used - Weight * Cardinality(completed \cup {s})
  <2>1. used' \in Int
    <3>1. Cardinality(completed \cup {s}) \in Nat
      BY <1>0, PermitCounts
    <3> QED
      BY <1>0, <1>2, <3>1
  <2>2. faults' \in 0 .. MaxFaults
    BY <1>2, MaxFaultsAssumption DEF Fault, TypeInv, PoolInv
  <2> QED
    BY <1>1, <1>2, <2>1, <2>2, FinishTypes
<1>3. CASE /\ delivered' = Append(delivered, s)
           /\ completed' = completed \ {s}
           /\ used' = used - Weight
           /\ deadline' = "off" /\ cpc' = "fill"
           /\ UNCHANGED <<quiesceVars, outcome, pool, shutdown, cancelled, budgetClosed, faults>>
  <2>1. used' \in Int /\ delivered' \in Seq(Plan)
    BY <1>0, <1>3 DEF TypeInv, CoordInv
  <2>2. CoordInv'
    BY <1>0, <1>1, <1>3, <2>1 DEF TypeInv, CoordInv, CoordinatorStates, quiesceVars
  <2>3. PoolInv'
    BY <1>1, <1>3, <2>1 DEF TypeInv, PoolInv
  <2> QED
    BY <2>2, <2>3
<1> QED
  BY <1>2, <1>3 DEF Publish

\* Every way next() goes on.
LEMMA NextTypes ==
    ASSUME TypeInv,
           NextFromCompleted \/ NextEnds \/ NextWaits \/ RecvKeepsWaiting \/ RecvBatch
             \/ RecvError \/ RecvFatal \/ RecvCancelled \/ RecvTimeout
    PROVE  CoordInv' /\ PoolInv'
<1>0. /\ used \in Int /\ Weight \in Nat /\ ResultsOK(results, mode) /\ faults \in 0 .. MaxFaults
      /\ UsedAfterStop \in Int
      /\ results # <<>> => MessageOK(Received) /\ ResultsOK(Tail(results), mode)
  <2>1. Weight \in Nat /\ Cardinality(completed) \in Nat
    BY PermitCounts DEF TypeInv, CoordInv
  <2> QED
    BY <2>1, ResultsReceive DEF TypeInv, CoordInv, PoolInv, UsedAfterStop, Received
<1>o. /\ {"end", "timeout", "cancelled", "error"} = {"error", "end", "cancelled", "timeout"}
      /\ TRUE \in BOOLEAN /\ FALSE \in BOOLEAN
  OBVIOUS
<1>1. CASE NextFromCompleted
  <2>1. nextVis \in Plan
    BY <1>1 DEF NextFromCompleted, TypeInv, CoordInv
  <2> QED
    BY <1>0, <1>1, <2>1, PublishTypes DEF NextFromCompleted
<1>2. CASE NextEnds
  BY <1>0, <1>2, FinishTypes DEF NextEnds
<1>3. CASE NextWaits
  BY <1>3 DEF NextWaits, nextFrame, iterVars, quiesceVars, historyVars, TypeInv, CoordInv,
     PoolInv, CoordinatorStates
<1>4. CASE RecvKeepsWaiting
  <2>1. MessageOK(Received) /\ ResultsOK(results', mode)
    BY <1>0, <1>4 DEF RecvKeepsWaiting
  <2>2. used' \in Int
    <3>1. <<Received>> \in Seq(Completion)
      BY <2>1 DEF MessageOK
    <3>2. PermitsIn(<<Received>>) \in Nat
      BY <3>1, PermitCounts DEF TypeInv, CoordInv
    <3> QED
      BY <1>0, <1>4, <3>2 DEF RecvKeepsWaiting
  <2>3. completed' \subseteq Plan
    BY <1>4, <2>1 DEF RecvKeepsWaiting, KeptAhead, MessageOK, TypeInv, CoordInv
  <2>4. CoordInv'
    BY <1>4, <2>3 DEF RecvKeepsWaiting, nextFrame, quiesceVars, historyVars, TypeInv,
       CoordInv, CoordinatorStates
  <2>5. PoolInv'
    BY <1>4, <2>1, <2>2 DEF RecvKeepsWaiting, nextFrame, TypeInv, PoolInv
  <2> QED
    BY <2>4, <2>5
<1>5. CASE RecvBatch
  <2>1. Received.seq \in Plan
    BY <1>0, <1>5 DEF RecvBatch, Receives, MessageOK
  <2>2. ResultsOK(Tail(results), mode)
    BY <1>0, <1>5 DEF RecvBatch, Receives
  <2> QED
    BY <1>5, <2>1, <2>2, PublishTypes DEF RecvBatch
<1>6. CASE RecvError
  BY <1>0, <1>6, FinishTypes DEF RecvError, Receives
<1>7. CASE RecvFatal
  BY <1>0, <1>7, FinishTypes DEF RecvFatal, Receives
<1>8. CASE RecvCancelled
  BY <1>0, <1>8, FinishTypes DEF RecvCancelled
<1>9. CASE RecvTimeout
  BY <1>0, <1>9, FinishTypes DEF RecvTimeout
<1> QED
  BY <1>1, <1>2, <1>3, <1>4, <1>5, <1>6, <1>7, <1>8, <1>9

\* What the caller decides between two calls.
LEMMA CallerTypes ==
    ASSUME TypeInv, NextPendingError \/ NextStarts \/ DropIter \/ DropLoader
    PROVE  CoordInv' /\ PoolInv'
<1>0. used \in Int /\ UsedAfterStop \in Int
  <2>1. Weight \in Nat /\ Cardinality(completed) \in Nat
    BY PermitCounts DEF TypeInv, CoordInv
  <2> QED
    BY <2>1 DEF TypeInv, PoolInv, UsedAfterStop
<1>s. ASSUME NEW target \in {"user", "out"}, Stop(target, FALSE),
             used' = UsedAfterStop, UNCHANGED <<nextFrame, delivered, results, deadline, faults>>,
             outcome' \in {outcome, "error"}
      PROVE  CoordInv' /\ PoolInv'
  <2>1. /\ cancelled' \subseteq Nat /\ budgetClosed' \subseteq Nat
        /\ completed' \subseteq Plan
        /\ cpc' \in CoordinatorStates
        /\ acked' \subseteq W /\ fatal' \in BOOLEAN
        /\ pool' \in {"none", "live", "poisoned"} /\ shutdown' \in BOOLEAN
    BY <1>s, StopTypes
  <2> QED
    BY <1>0, <1>s, <2>1 DEF nextFrame, TypeInv, CoordInv, PoolInv
<1>1. CASE NextPendingError
  BY <1>1, <1>s DEF NextPendingError
<1>2. CASE NextStarts
  BY <1>2 DEF NextStarts, nextFrame, iterVars, quiesceVars, historyVars, TypeInv, CoordInv,
     PoolInv, CoordinatorStates
<1>3. CASE DropIter
  <2>1. CASE hasPool
    BY <1>3, <1>s, <2>1 DEF DropIter, historyVars
  <2>2. CASE ~hasPool
    BY <1>3, <2>2 DEF DropIter, nextFrame, historyVars, quiesceVars, TypeInv, CoordInv,
       PoolInv, CoordinatorStates
  <2> QED
    BY <2>1, <2>2
<1>4. CASE DropLoader
  <2>1. shutdown' \in BOOLEAN /\ cpc' \in CoordinatorStates
    BY <1>4 DEF DropLoader, CoordinatorStates, TypeInv, CoordInv
  <2> QED
    BY <1>4, <2>1 DEF DropLoader, nextFrame, iterVars, quiesceVars, historyVars, TypeInv,
       CoordInv, PoolInv
<1> QED
  BY <1>1, <1>2, <1>3, <1>4

\* Every step of the coordinator, the caller and the workers preserves it.
LEMMA TypeNext == TypeInv /\ [Next]_vars => TypeInv'
<1> SUFFICES ASSUME TypeInv, [Next]_vars
             PROVE  TypeInv'
  OBVIOUS
<1>0. CreditInv'
  BY CreditNext DEF TypeInv
<1>1. CASE CoordinatorStep
  BY <1>0, <1>1, FillTypes, WaitsTypes, NextTypes DEF CoordinatorStep, TypeInv
<1>2. CASE CallerStep
  BY <1>0, <1>2, IterTypes, CallerTypes DEF CallerStep, TypeInv
<1>3. CASE FillSourcePanics
  BY <1>0, <1>3, FillTypes DEF TypeInv
<1>4. ASSUME NEW w \in W, WorkerStep(w) \/ WorkerFault(w)
      PROVE  TypeInv'
  <2>1. PoolInv'
    BY <1>4, SilentWorkerSteps, SendingWorkerSteps DEF WorkerStep, WorkerFault, TypeInv, CoordInv
  <2>2. UNCHANGED workerFrame
    BY <1>4, WorkerFrame
  <2>3. CoordInv'
    BY <2>2 DEF workerFrame, quiesceVars, iterVars, historyVars, TypeInv, CoordInv
  <2> QED
    BY <1>0, <2>1, <2>3 DEF TypeInv
<1>5. CASE Expire
  BY <1>0, <1>5 DEF Expire, nextFrame, iterVars, quiesceVars, historyVars, TypeInv, CoordInv,
     PoolInv
<1>6. CASE UNCHANGED vars
  BY <1>0, <1>6 DEF vars, iterVars, quiesceVars, historyVars, poolVars, budgetVars, TypeInv,
     CoordInv, PoolInv
<1> QED
  BY <1>1, <1>2, <1>3, <1>4, <1>5, <1>6 DEF Next, Done

\* Type correctness of the whole loader, and the bounded channels stay within
\* their capacities (new_with_hooks).
THEOREM LoaderTypeCorrect == Spec => []TypeOK
<1> QED
  BY TypeInvImpliesTypeOK, TypeInit, TypeNext, PTL DEF Spec

(***************************************************************************)
(* Where the batches are: generations never overlap, a lane is a history,  *)
(* every batch and every permit is in exactly one place, and the loader    *)
(* implements BatchDelivery.                                               *)
(***************************************************************************)

\* Waiting for the next generation, or not started
Settled(w) == wk[w].pc \in {"absent", "idle"} /\ control[w] = 0

HasSaidQuiesced(w) ==
    \E i \in DOMAIN results : results[i].kind = "quiesced" /\ results[i].worker = w

\* The states in which a worker may hold a batch
Holding == {"work", "acquire", "send", "report", "die"}

\* A worker that has begun works for the current generation, and only such a
\* worker holds a batch
GenInv ==
    /\ hasPool => gen > 0
    /\ shutdown <=> cpc = "join"
    /\ \A w \in W :
        /\ control[w] \in {0, gen}
        /\ AtWork(w) => control[w] = 0
        /\ AtWork(w) \/ wk[w].pc \in {"spawn", "die"} => wk[w].gen = gen
        /\ wk[w].pc = "exited" => shutdown
        /\ wk[w].seq # None => wk[w].pc \in Holding /\ control[w] = 0

\* Whoever has said Quiesced is settled, and nobody is left unsettled, and no
\* message unread, by the time the coordinator returns without a pool
StoppedInv ==
    /\ ~hasPool => completed = {}
    /\ ~hasPool /\ cpc \notin {"quiesce", "join"} => results = <<>> /\ \A w \in W : Settled(w)
    /\ cpc = "quiesce" /\ ~fatal => \A w \in acked : Settled(w)
    /\ \A i \in DOMAIN results : results[i].gen = gen
    /\ ~shutdown => \A w \in W : HasSaidQuiesced(w) => Settled(w)

\* Where batch s comes before everything that is still ahead of worker w
BeforeLane(s, w) == \A i \in DOMAIN lane[w] : lane[w][i].gen = gen => s < lane[w][i].seq
BeforeWorker(s, w) == BeforeLane(s, w) /\ (wk[w].seq # None => s < wk[w].seq)
BeforeResults(s, w) ==
    /\ BeforeWorker(s, w)
    /\ \A i \in DOMAIN results :
         results[i].kind = "batch" /\ results[i].worker = w => s < results[i].seq

\* The batches of a worker are received, sent, worked on and queued in the order
\* of their sequence numbers
LaneOrder ==
    \A w \in W : \A i \in DOMAIN lane[w] :
        /\ lane[w][i].gen <= gen
        /\ Lane(lane[w][i].seq) = w
        /\ lane[w][i].gen = gen => lane[w][i].seq < nextSub
        /\ \A j \in 1 .. i - 1 : lane[w][j].gen = lane[w][i].gen => lane[w][j].seq < lane[w][i].seq

WorkerOrder ==
    \A w \in W : wk[w].seq # None =>
        wk[w].seq < nextSub /\ Lane(wk[w].seq) = w /\ BeforeLane(wk[w].seq, w)

ResultOrder ==
    \A i \in DOMAIN results : results[i].kind = "batch" =>
        /\ results[i].seq < nextSub /\ Lane(results[i].seq) = results[i].worker
        /\ BeforeWorker(results[i].seq, results[i].worker)
        /\ \A j \in 1 .. i - 1 : results[j].kind = "batch" /\ results[j].worker = results[i].worker
               => results[j].seq < results[i].seq

Seen == completed \cup Range(delivered)
SeenOrder == \A s \in Seen : s < nextSub /\ BeforeResults(s, Lane(s))

OrderInv == LaneOrder /\ WorkerOrder /\ ResultOrder /\ SeenOrder

-----------------------------------------------------------------------------
\* The four ways in which a worker's step changes its record and its channels

Producer == {"spawn", "poll", "work", "acquire", "send", "report"}

Alone(w) ==
    /\ \A v \in W : v # w => wk'[v] = wk[v] /\ control'[v] = control[v] /\ lane'[v] = lane[v]
    /\ UNCHANGED workerFrame

\* It sends and receives nothing; it may drop its batch, and then produces no more
Calm(w) ==
    /\ UNCHANGED <<lane, results, control>>
    /\ wk'[w].gen = wk[w].gen
    /\ wk'[w].seq = wk[w].seq \/ wk'[w].seq = None
    /\ wk'[w].seq = None \/ wk[w].pc \notin Holding \/ wk'[w].pc \in Holding
    /\ wk'[w].pc = "exited" => shutdown
    /\ AtWork(w)' => AtWork(w)
    /\ wk'[w].pc \in {"spawn", "die"} => AtWork(w) \/ wk[w].pc = "spawn"
    /\ Settled(w) => shutdown
    /\ wk'[w].pc \in Producer => wk[w].pc \in Producer /\ wk'[w].seq = wk[w].seq

\* It begins the generation it was told of
Starts(w) ==
    /\ UNCHANGED <<lane, results>>
    /\ wk[w].pc = "idle" /\ control[w] # 0
    /\ wk'[w].pc = "poll" /\ wk'[w].gen = control[w] /\ wk'[w].seq = wk[w].seq
    /\ control'[w] = 0

\* It receives a task, and works on it or drops it
Takes(w) ==
    /\ UNCHANGED <<results, control>>
    /\ lane[w] # <<>> /\ lane'[w] = Tail(lane[w])
    /\ wk[w].pc \in {"poll", "drain"} /\ wk'[w].gen = wk[w].gen
    /\ \/ wk'[w].pc \in {"poll", "drain", "quiesced"} /\ wk'[w].seq = wk[w].seq
       \/ /\ wk'[w].pc = "work" /\ wk'[w].seq = Head(lane[w]).seq
          /\ Head(lane[w]).gen = wk[w].gen
    /\ wk'[w].pc = "poll" => Head(lane[w]).gen # wk[w].gen
    /\ wk'[w].pc \in Producer => wk[w].pc = "poll"

\* It sends a message, and with it what it holds
Sends(w) ==
    /\ UNCHANGED <<lane, control>>
    /\ \E k \in MessageKinds :
        /\ results' = Append(results, Message(w, wk[w].gen, wk[w].seq, k))
        /\ k = "batch" => wk[w].seq # None
        /\ wk'[w].gen = wk[w].gen
        /\ wk'[w].seq = None
        /\ \/ k = "batch" /\ wk[w].pc = "send" /\ wk'[w].pc = "poll"
           \/ k = "error" /\ wk[w].pc = "report" /\ wk'[w].pc = "failed"
           \/ k = "quiesced" /\ wk[w].pc = "quiesced" /\ wk'[w].pc = "idle"
           \/ k \in {"init", "panic"} /\ wk[w].pc = "die" /\ wk'[w].pc = "dead"

\* Every step of a worker is one of these.
LEMMA WorkerMoves ==
    ASSUME TypeInv, GenInv, NEW w \in W, WorkerStep(w) \/ WorkerFault(w)
    PROVE  Alone(w) /\ (Calm(w) \/ Starts(w) \/ Takes(w) \/ Sends(w))
<1> DEFINE R == Calm(w) \/ Starts(w) \/ Takes(w) \/ Sends(w)
<1>0. /\ wk \in [W -> WorkerType] /\ lane \in [W -> Seq(Task)] /\ control \in [W -> Nat]
      /\ wk[w].pc = "die" => wk[w].kind \in {"init", "panic"}
      /\ wk[w].pc = "send" => wk[w].seq # None
      /\ wk[w].seq # None => wk[w].pc \in Holding
  <2>1. None \notin Plan BY BatchesAssumption DEF None, Plan
  <2> QED BY <2>1 DEF TypeInv, PoolInv, WorkersOK, LanesOK, WorkerType, GenInv, Producing
<1>u. UNCHANGED workerFrame
  BY WorkerFrame
<1> USE <1>0 DEF Goto
<1>1. CASE WInit(w)
  BY <1>1, <1>u DEF WInit, Alone, Calm, AtWork, WorkerType, Settled, Holding, Producer
<1>2. CASE WInitFails(w)
  BY <1>2, <1>u DEF WInitFails, Alone, Calm, AtWork, WorkerType, Settled, Holding, Producer
<1>3. CASE WBegin(w)
  BY <1>3, <1>u DEF WBegin, Alone, Starts, WorkerType
<1>4. CASE WTake(w)
  BY <1>4, <1>u DEF WTake, Alone, Takes, WorkerType, Producer
<1>5. CASE WQuit(w)
  BY <1>5, <1>u DEF WQuit, Alone, Calm, AtWork, WorkerType, Settled, Holding, Producer
<1>6. CASE WFinish(w)
  BY <1>6, <1>u DEF WFinish, Alone, Calm, AtWork, WorkerType, Settled, Holding, Producer
<1>7. CASE WAcquire(w)
  BY <1>7, <1>u DEF WAcquire, Alone, Calm, AtWork, WorkerType, Settled, Holding, Producer
<1>8. CASE WAcquireCancelled(w)
  BY <1>8, <1>u DEF WAcquireCancelled, Alone, Calm, AtWork, WorkerType, Settled, Holding, Producer
<1>9. CASE WSendCancelled(w)
  BY <1>9, <1>u DEF WSendCancelled, Alone, Calm, AtWork, WorkerType, Settled, Holding, Producer
<1>10. CASE WCloseBudget(w)
  BY <1>10, <1>u DEF WCloseBudget, Alone, Calm, AtWork, WorkerType, Settled, Holding, Producer
<1>11. CASE WCancelGeneration(w)
  BY <1>11, <1>u DEF WCancelGeneration, Alone, Calm, AtWork, WorkerType, Settled, Holding, Producer
<1>12. CASE WDrain(w)
  <2>1. CASE lane[w] = <<>>
    BY <1>12, <2>1, <1>u DEF WDrain, Alone, Calm, AtWork, WorkerType, Settled, Holding, Producer
  <2>2. CASE lane[w] # <<>>
    BY <1>12, <2>2, <1>u DEF WDrain, Alone, Takes, WorkerType, Producer
  <2> QED BY <2>1, <2>2
<1>13. CASE WExit(w)
  BY <1>13, <1>u DEF WExit, Alone, Calm, AtWork, WorkerType, Settled, Holding, Producer
<1>14. CASE WFail(w)
  BY <1>14, <1>u DEF WFail, Alone, Calm, AtWork, WorkerType, Settled, Holding, Producer
<1>15. CASE WPanic(w)
  BY <1>15, <1>u DEF WPanic, Alone, Calm, AtWork, WorkerType, Settled, Holding, Producer
<1>16. CASE WUserCancel(w)
  BY <1>16, <1>u DEF WUserCancel, Alone, Calm, AtWork, WorkerType, Settled, Holding, Producer
<1>17. CASE WOversize(w)
  BY <1>17, <1>u DEF WOversize, Alone, Calm, AtWork, WorkerType, Settled, Holding, Producer
<1>18. CASE WSend(w)
  BY <1>18, <1>u DEF WSend, Alone, Sends, MessageKinds, WorkerType
<1>19. CASE WReport(w)
  BY <1>19, <1>u DEF WReport, Alone, Sends, MessageKinds, WorkerType
<1>20. CASE WQuiesced(w)
  <2>1. wk[w].seq = None BY <1>20 DEF WQuiesced, Holding
  <2> QED BY <1>20, <1>u, <2>1 DEF WQuiesced, Alone, Sends, MessageKinds, WorkerType
<1>21. CASE WDie(w)
  BY <1>21, <1>u DEF WDie, Alone, Sends, MessageKinds, WorkerType
<1> QED
  BY <1>1, <1>2, <1>3, <1>4, <1>5, <1>6, <1>7, <1>8, <1>9, <1>10, <1>11, <1>12, <1>13, <1>14,
     <1>15, <1>16, <1>17, <1>18, <1>19, <1>20, <1>21 DEF WorkerStep, WorkerFault

-----------------------------------------------------------------------------
\* Generations

\* A worker's step leaves the others as settled as they were, and unsettles
\* nobody unless the pool is being joined.
LEMMA SettledStays ==
    ASSUME TypeInv, GenInv, NEW w \in W, WorkerStep(w) \/ WorkerFault(w),
           NEW v \in W, Settled(v), ~shutdown
    PROVE  Settled(v)'
<1>1. CASE v # w
  BY <1>1, WorkerMoves DEF Alone, Settled
<1>2. CASE v = w
  BY <1>2, WorkerMoves DEF Calm, Starts, Takes, Sends, Settled
<1> QED
  BY <1>1, <1>2

\* What a worker sends is a message of the current generation, and it is settled
\* if the message is Quiesced.
LEMMA SentMessages ==
    ASSUME TypeInv, GenInv, StoppedInv, NEW w \in W, WorkerStep(w) \/ WorkerFault(w)
    PROVE  /\ \A i \in DOMAIN results' : results'[i].gen = gen
           /\ \A v \in W : ~shutdown /\ HasSaidQuiesced(v)' => Settled(v)'
<1>0. results \in Seq(Completion)
  BY DEF TypeInv, PoolInv, ResultsOK
<1>1. CASE UNCHANGED results
  BY <1>0, <1>1, SettledStays DEF StoppedInv, HasSaidQuiesced
<1>2. CASE Sends(w)
  <2>1. PICK k \in MessageKinds :
          /\ results' = Append(results, Message(w, wk[w].gen, wk[w].seq, k))
          /\ k = "quiesced" => wk[w].pc = "quiesced" /\ wk'[w].pc = "idle"
          /\ wk[w].pc \in {"send", "report", "quiesced", "die"}
    BY <1>2 DEF Sends
  <2>2. wk[w].gen = gen /\ (k = "quiesced" => Settled(w)')
    BY <1>2, <2>1 DEF GenInv, AtWork, Settled, Sends
  <2>3. /\ DOMAIN results' = DOMAIN results \cup {Len(results) + 1}
        /\ \A i \in DOMAIN results : results'[i] = results[i]
        /\ results'[Len(results) + 1].gen = gen
        /\ results'[Len(results) + 1].worker = w /\ results'[Len(results) + 1].kind = k
    BY <1>0, <2>1, <2>2 DEF Message
  <2>4. ASSUME NEW v \in W, HasSaidQuiesced(v)'
        PROVE  HasSaidQuiesced(v) \/ (v = w /\ k = "quiesced")
    BY <2>3, <2>4 DEF HasSaidQuiesced
  <2> QED
    BY <2>2, <2>3, <2>4, SettledStays DEF StoppedInv
<1> QED
  BY <1>1, <1>2, WorkerMoves DEF Calm, Starts, Takes

\* Generations under a worker's step.
LEMMA WorkerGenerations ==
    ASSUME TypeInv, GenInv, StoppedInv, NEW w \in W, WorkerStep(w) \/ WorkerFault(w)
    PROVE  GenInv' /\ StoppedInv'
<1>0. /\ UNCHANGED <<mode, cpc, gen, hasPool, shutdown, completed, acked, fatal>>
      /\ \A v \in W : v # w => wk'[v] = wk[v] /\ control'[v] = control[v]
  BY WorkerMoves DEF Alone, workerFrame, iterVars, quiesceVars
<1>1. Calm(w) \/ Starts(w) \/ Takes(w) \/ Sends(w)
  BY WorkerMoves
<1>2. GenInv'
  <2>1. /\ control'[w] \in {0, gen}
        /\ AtWork(w)' => control'[w] = 0
        /\ AtWork(w)' \/ wk'[w].pc \in {"spawn", "die"} => wk'[w].gen = gen
        /\ wk'[w].pc = "exited" => shutdown
        /\ wk'[w].seq # None => wk'[w].pc \in Holding /\ control'[w] = 0
    <3>1. CASE Calm(w)
      BY <3>1 DEF Calm, GenInv
    <3>2. CASE Starts(w)
      BY <3>2 DEF Starts, GenInv, AtWork, Holding
    <3>3. CASE Takes(w)
      BY <3>3 DEF Takes, GenInv, AtWork, Holding
    <3>4. CASE Sends(w)
      BY <3>4 DEF Sends, GenInv, AtWork, Holding
    <3> QED BY <1>1, <3>1, <3>2, <3>3, <3>4
  <2>2. \A v \in W : v # w => (AtWork(v)' <=> AtWork(v))
    BY <1>0 DEF AtWork
  <2> QED BY <1>0, <2>1, <2>2 DEF GenInv
<1>3. StoppedInv'
  <2>1. ~hasPool /\ cpc \notin {"quiesce", "join"} => results' = <<>>
    BY <1>0, <1>1 DEF StoppedInv, Calm, Starts, Takes, Sends, GenInv, Settled
  <2>2. cpc # "join" => ~shutdown
    BY DEF GenInv
  <2>3. acked \subseteq W
    BY DEF TypeInv, CoordInv
  <2> QED BY <1>0, <2>1, <2>2, <2>3, SettledStays, SentMessages DEF StoppedInv
<1> QED
  BY <1>2, <1>3

\* What the coordinator's steps within a generation leave alone: it starts no
\* worker, and the results channel only loses messages.
SameGeneration ==
    /\ UNCHANGED <<gen, wk, control>>
    /\ \/ results' = results
       \/ results # <<>> /\ results' = Tail(results)
       \/ results' = <<>>

\* Within a generation workers stay as settled as they were.
LEMMA SameGenerationKeeps ==
    ASSUME TypeInv, GenInv, StoppedInv, SameGeneration,
           hasPool' => hasPool, shutdown' <=> cpc' = "join", shutdown => shutdown'
    PROVE  /\ GenInv'
           /\ \A v \in W : Settled(v)' <=> Settled(v)
           /\ \A i \in DOMAIN results' : results'[i].gen = gen'
           /\ ~shutdown' => \A v \in W : HasSaidQuiesced(v)' => Settled(v)'
<1>0. results \in Seq(Completion)
  BY DEF TypeInv, PoolInv, ResultsOK
<1>1. \A i \in DOMAIN results' : \E j \in DOMAIN results : results'[i] = results[j]
  <2>1. CASE results # <<>> /\ results' = Tail(results)
    BY <1>0, <2>1
  <2>2. CASE results' = <<>>
    BY <2>2
  <2> QED BY <2>1, <2>2 DEF SameGeneration
<1>2. \A v \in W : (Settled(v)' <=> Settled(v)) /\ (AtWork(v)' <=> AtWork(v))
  BY DEF SameGeneration, Settled, AtWork
<1>3. \A v \in W : HasSaidQuiesced(v)' => HasSaidQuiesced(v)
  BY <1>1 DEF HasSaidQuiesced
<1>4. GenInv'
  BY <1>2 DEF GenInv, SameGeneration
<1> QED
  BY <1>1, <1>2, <1>3, <1>4 DEF StoppedInv, SameGeneration

\* Stopping an iterator leaves its pool to a quiesce or to a join.
LEMMA StopGenerations ==
    ASSUME TypeInv, GenInv, StoppedInv, SameGeneration,
           NEW target \in {"user", "out"}, NEW poisoned \in BOOLEAN, Stop(target, poisoned),
           cpc \notin {"quiesce", "join"}
    PROVE  GenInv' /\ StoppedInv'
<1>0. ~shutdown /\ hasPool' = FALSE /\ completed' = {}
  BY DEF GenInv, Stop
<1>1. shutdown' <=> cpc' = "join"
  BY <1>0 DEF Stop
<1>2. /\ GenInv'
      /\ \A v \in W : Settled(v)' <=> Settled(v)
      /\ \A i \in DOMAIN results' : results'[i].gen = gen'
      /\ ~shutdown' => \A v \in W : HasSaidQuiesced(v)' => Settled(v)'
  BY <1>0, <1>1, SameGenerationKeeps
<1>3. cpc' = "quiesce" => acked' = {}
  BY DEF Stop
<1>4. cpc' \notin {"quiesce", "join"} => ~hasPool
  BY DEF Stop
<1>5. ~hasPool => results' = <<>>
  BY DEF StoppedInv, SameGeneration
<1> QED
  BY <1>0, <1>2, <1>3, <1>4, <1>5 DEF StoppedInv

\* Generations under a step of the coordinator that keeps its pool.
LEMMA PoolKeptGenerations ==
    ASSUME TypeInv, GenInv, StoppedInv, SameGeneration,
           UNCHANGED <<hasPool, shutdown>>,
           {cpc, cpc'} \cap {"quiesce", "join"} = {},
           hasPool \/ UNCHANGED <<results, completed>>
    PROVE  GenInv' /\ StoppedInv'
<1>1. ~shutdown /\ ~shutdown' /\ cpc # "join" /\ cpc' # "join"
  BY DEF GenInv
<1>2. /\ GenInv'
      /\ \A v \in W : Settled(v)' <=> Settled(v)
      /\ \A i \in DOMAIN results' : results'[i].gen = gen'
      /\ ~shutdown' => \A v \in W : HasSaidQuiesced(v)' => Settled(v)'
  BY <1>1, SameGenerationKeeps
<1> QED
  BY <1>2 DEF StoppedInv

-----------------------------------------------------------------------------
\* What the steps of the coordinator and of the caller do to the batches

Waiting == {"quiesce", "join"}

batchFrame == <<mode, lane, nextSub>>

\* It neither moves a batch nor stops the iterator
Idles ==
    /\ UNCHANGED <<batchFrame, nextVis, results, completed, delivered, hasPool, shutdown, gen,
                   wk, control, acked, fatal, exhausted, outcome>>
    /\ cpc' = cpc \/ {cpc, cpc'} \cap Waiting = {}
    /\ mode.ordered /\ cpc' = "recv" /\ cpc # "recv" => nextVis \notin completed

\* It stops the iterator: the reassembly map is dropped, the rest waits
Stops ==
    /\ SameGeneration
    /\ UNCHANGED <<batchFrame, delivered>>
    /\ cpc \notin Waiting
    /\ \E target \in {"user", "out"}, poisoned \in BOOLEAN : Stop(target, poisoned)
    /\ \/ UNCHANGED <<exhausted, outcome>>
       \/ /\ exhausted' = TRUE /\ (hasPool \/ ~exhausted)
          /\ \/ outcome' \in {"timeout", "cancelled", "error"}
             \/ outcome' = "end" /\ hasPool /\ NothingToWaitFor

\* It yields batch s, the turn of an ordered iterator, from the map or the channel
Yields(s) ==
    /\ UNCHANGED <<batchFrame, hasPool, shutdown, gen, wk, control, exhausted, outcome>>
    /\ hasPool /\ cpc \notin Waiting /\ cpc' = "fill"
    /\ delivered' = Append(delivered, s) /\ completed' = completed \ {s}
    /\ nextVis' = nextVis + 1
    /\ mode.ordered => s = nextVis
    /\ \/ s \in completed /\ mode.ordered /\ results' = results
       \/ /\ cpc = "recv" /\ results # <<>> /\ results' = Tail(results)
          /\ Head(results).kind = "batch" /\ Head(results).seq = s

\* It receives a message and waits for the next one
Skips ==
    /\ UNCHANGED <<batchFrame, nextVis, delivered, hasPool, shutdown, gen, wk, control,
                   exhausted, outcome>>
    /\ hasPool /\ cpc \notin Waiting /\ cpc' = "next"
    /\ results # <<>> /\ results' = Tail(results)
    /\ IF Head(results).kind = "batch"
       THEN mode.ordered /\ Head(results).seq # nextVis
              /\ completed' = completed \cup {Head(results).seq}
       ELSE completed' = completed

CoordinatorMove ==
    \/ Idles \/ Stops \/ Skips \/ Submit \/ \E s \in Plan : Yields(s)
    \/ QuiesceReceive \/ QuiesceEnds \/ JoinEnds
    \/ IterNewPool \/ IterReusePool \/ IterWithError \/ DropLoader

\* Publishing yields the batch or stops the iterator.
LEMMA PublishMoves ==
    ASSUME TypeInv, GenInv, NEW s \in Plan, NEW q, Publish(s, q), UNCHANGED nextFrame,
           cpc \in {"next", "recv"}, mode.ordered => s = nextVis,
           \/ s \in completed /\ mode.ordered /\ q = results
           \/ /\ cpc = "recv" /\ results # <<>> /\ q = Tail(results)
              /\ Head(results).kind = "batch" /\ Head(results).seq = s
    PROVE  Stops \/ Yields(s)
<1>0. hasPool /\ cpc \notin Waiting /\ results' = q
  BY DEF TypeInv, CreditInv, PoolPresent, HasPoolStates, Publish, Waiting
<1>1. CASE Finish("error", FALSE)
  <2>1. \E target \in {"user", "out"}, poisoned \in BOOLEAN : Stop(target, poisoned)
    BY <1>1 DEF Finish
  <2>2. /\ UNCHANGED <<batchFrame, delivered>> /\ SameGeneration
        /\ exhausted' = TRUE /\ outcome' = "error"
    BY <1>0, <1>1 DEF Finish, nextFrame, batchFrame, SameGeneration
  <2> QED BY <1>0, <2>1, <2>2 DEF Stops
<1>2. CASE /\ delivered' = Append(delivered, s) /\ completed' = completed \ {s}
           /\ nextVis' = nextVis + 1
           /\ cpc' = "fill" /\ UNCHANGED <<hasPool, shutdown, exhausted, outcome>>
  BY <1>0, <1>2 DEF Yields, nextFrame, batchFrame
<1> QED
  BY <1>1, <1>2 DEF Publish

\* Every step of the coordinator and of the caller is one of these moves.
LEMMA CoordinatorMoves ==
    ASSUME TypeInv, GenInv, StoppedInv,
           CoordinatorStep \/ CallerStep \/ FillSourcePanics \/ Expire
    PROVE  CoordinatorMove
<1> DEFINE Rest == \/ QuiesceReceive \/ QuiesceEnds \/ JoinEnds \/ Submit
                   \/ IterNewPool \/ IterReusePool \/ IterWithError \/ DropLoader
<1>0. cpc \in HasPoolStates \ {"user"} => hasPool
  BY DEF TypeInv, CreditInv, PoolPresent
<1>1. CASE FillDone \/ FillSourceEnds \/ FillClosed \/ FillCheck \/ SubmitFull
  <2>1. Idles
    BY <1>1 DEF FillDone, FillSourceEnds, FillClosed, FillCheck, SubmitFull, Idles, fillFrame,
       submitVars, creditVars, iterVars, quiesceVars, historyVars, poolVars, batchFrame, Waiting
  <2> QED BY <2>1 DEF CoordinatorMove
<1>2. CASE FillSourcePanics
  <2>1. Idles
    BY <1>2 DEF FillSourcePanics, Idles, creditVars, quiesceVars, historyVars, poolVars,
       batchFrame, Waiting
  <2> QED BY <2>1 DEF CoordinatorMove
<1>3. CASE Expire \/ NextWaits \/ NextStarts
  <2>1. Idles
    BY <1>3 DEF Expire, NextWaits, NextStarts, Idles, nextFrame, creditVars, iterVars,
       quiesceVars, historyVars, batchFrame, Waiting
  <2> QED BY <2>1 DEF CoordinatorMove
<1>4. CASE NextEnds \/ RecvCancelled \/ RecvTimeout \/ NextPendingError
  <2>1. Stops
    BY <1>0, <1>4 DEF NextEnds, RecvCancelled, RecvTimeout, NextPendingError, Finish, Stops,
       SameGeneration, nextFrame, creditVars, batchFrame, Waiting, HasPoolStates
  <2> QED BY <2>1 DEF CoordinatorMove
<1>5. CASE RecvError \/ RecvFatal
  <2>1. Stops
    BY <1>0, <1>5 DEF RecvError, RecvFatal, Receives, Finish, Stops,
       SameGeneration, nextFrame, batchFrame, Waiting, HasPoolStates
  <2> QED BY <2>1 DEF CoordinatorMove
<1>6. CASE NextFromCompleted
  <2>1. nextVis \in Plan
    BY <1>6 DEF NextFromCompleted, TypeInv, CoordInv
  <2>2. Stops \/ Yields(nextVis)
    BY <1>6, <2>1, PublishMoves DEF NextFromCompleted
  <2> QED BY <2>1, <2>2 DEF CoordinatorMove
<1>7. CASE RecvBatch
  <2>1. Received.seq \in Plan /\ cpc = "recv" /\ results # <<>> /\ Received.kind = "batch"
    BY <1>7, ResultsReceive
       DEF RecvBatch, Receives, Received, TypeInv, CoordInv, PoolInv, CreditInv, MessageOK
  <2>2. Stops \/ Yields(Received.seq)
    BY <1>7, <2>1, PublishMoves DEF RecvBatch, OutOfTurn, Received
  <2> QED BY <2>1, <2>2 DEF CoordinatorMove
<1>8. CASE RecvKeepsWaiting
  <2>1. hasPool /\ results # <<>> /\ cpc = "recv"
    BY <1>0, <1>8 DEF RecvKeepsWaiting, HasPoolStates
  <2>2. Head(results).gen = gen
    <3>1. results \in Seq(Completion) BY DEF TypeInv, PoolInv, ResultsOK
    <3> QED BY <2>1, <3>1 DEF StoppedInv
  <2>3. Skips
    BY <1>8, <2>1, <2>2 DEF RecvKeepsWaiting, Skips, Received, Current, OutOfTurn, KeptAhead,
       nextFrame, creditVars, historyVars, batchFrame, Waiting
  <2> QED BY <2>3 DEF CoordinatorMove
<1>9. CASE DropIter
  <2>1. CASE hasPool
    <3>1. Stops
      BY <1>9, <2>1 DEF DropIter, Stops, SameGeneration, nextFrame, historyVars, batchFrame, Waiting
    <3> QED BY <3>1 DEF CoordinatorMove
  <2>2. CASE ~hasPool
    <3>1. Idles
      BY <1>9, <2>2 DEF DropIter, Idles, nextFrame, creditVars, quiesceVars, historyVars,
         batchFrame, Waiting
    <3> QED BY <3>1 DEF CoordinatorMove
  <2> QED BY <2>1, <2>2
<1>10. CASE Rest
  BY <1>10 DEF CoordinatorMove
<1> QED
  BY <1>1, <1>2, <1>3, <1>4, <1>5, <1>6, <1>7, <1>8, <1>9, <1>10 DEF CoordinatorStep, CallerStep

\* Waiting for Quiesced messages counts only workers that are settled.
LEMMA QuiesceGenerations ==
    ASSUME TypeInv, GenInv, StoppedInv, QuiesceReceive \/ QuiesceEnds
    PROVE  GenInv' /\ StoppedInv'
<1>0. results \in Seq(Completion) /\ SameGeneration /\ hasPool' = hasPool /\ ~hasPool
      /\ ~shutdown /\ completed' = completed
  <2>1. results \in Seq(Completion) BY DEF TypeInv, PoolInv, ResultsOK
  <2>2. ~hasPool /\ ~shutdown
    BY DEF QuiesceReceive, QuiesceEnds, TypeInv, CreditInv, AccountInv, HasPoolStates, GenInv
  <2>3. SameGeneration /\ UNCHANGED <<hasPool, completed>>
    BY DEF QuiesceReceive, QuiesceEnds, iterVars, poolVars, SameGeneration
  <2> QED BY <2>1, <2>2, <2>3
<1>1. cpc = "quiesce" /\ (shutdown' <=> cpc' = "join")
  BY <1>0 DEF QuiesceReceive, QuiesceEnds, poolVars, TypeInv, CreditInv, PoolPresent
<1>2. /\ GenInv'
      /\ \A v \in W : Settled(v)' <=> Settled(v)
      /\ \A i \in DOMAIN results' : results'[i].gen = gen'
      /\ ~shutdown' => \A v \in W : HasSaidQuiesced(v)' => Settled(v)'
  BY <1>0, <1>1, SameGenerationKeeps
<1>3. CASE QuiesceReceive
  <2>1. cpc' = "quiesce" /\ results # <<>>
    BY <1>1, <1>3 DEF QuiesceReceive
  <2>2. ~fatal' => ~fatal /\ \A v \in acked' \ acked : v \in W /\ HasSaidQuiesced(v)
    <3>1. Head(results) = results[1] /\ 1 \in DOMAIN results
      BY <1>0, <2>1
    <3>2. fatal \in BOOLEAN /\ acked' \subseteq W
      BY <1>3, WaitsTypes DEF TypeInv, CoordInv
    <3>3. CASE UNCHANGED <<acked, fatal>>
      BY <3>2, <3>3
    <3>4. CASE /\ acked' = acked \cup {results[1].worker}
               /\ fatal' = (fatal \/ results[1].kind # "quiesced")
      BY <3>1, <3>2, <3>4 DEF HasSaidQuiesced
    <3> QED BY <1>3, <3>1, <3>3, <3>4 DEF QuiesceReceive, quiesceVars
  <2>3. acked \subseteq W
    BY DEF TypeInv, CoordInv
  <2>4. ~fatal' => \A v \in acked' : Settled(v)'
    BY <1>0, <1>1, <1>2, <2>2, <2>3 DEF StoppedInv
  <2> QED
    BY <1>0, <1>2, <2>1, <2>4 DEF StoppedInv
<1>4. CASE QuiesceEnds
  <2>1. CASE ~fatal
    <3>1. results' = <<>> /\ cpc' \notin Waiting /\ acked = W
      BY <1>4, <2>1 DEF QuiesceEnds, Quieted, Waiting, TypeInv, CreditInv, PoolPresent
    <3>2. \A v \in W : Settled(v)'
      BY <1>1, <1>2, <2>1, <3>1 DEF StoppedInv
    <3> QED BY <1>0, <1>2, <3>1, <3>2 DEF StoppedInv, Waiting
  <2>2. CASE fatal
    <3>1. cpc' = "join"
      BY <1>4, <2>2 DEF QuiesceEnds
    <3> QED BY <1>0, <1>2, <3>1 DEF StoppedInv
  <2> QED BY <2>1, <2>2
<1> QED
  BY <1>3, <1>4

\* Joining the threads leaves nothing of them.
LEMMA JoinGenerations ==
    ASSUME TypeInv, GenInv, StoppedInv, JoinEnds
    PROVE  GenInv' /\ StoppedInv'
<1>1. ~hasPool /\ hasPool' = FALSE /\ completed' = completed /\ gen' = gen
  BY DEF JoinEnds, iterVars, TypeInv, CreditInv, CountersInv, AccountInv, HasPoolStates
<1>2. results' = <<>> /\ shutdown' = FALSE /\ cpc' \notin Waiting
  BY DEF JoinEnds, Waiting, TypeInv, CreditInv, PoolPresent
<1>3. \A w \in W : wk'[w] = NoWorker /\ control'[w] = 0
  BY DEF JoinEnds
<1>4. GenInv'
  BY <1>1, <1>2, <1>3 DEF GenInv, NoWorker, AtWork, Holding, Waiting
<1>5. \A w \in W : Settled(w)'
  BY <1>3 DEF Settled, NoWorker
<1> QED
  BY <1>1, <1>2, <1>4, <1>5 DEF StoppedInv, Waiting

\* A new iterator begins with every worker settled or new.
LEMMA IterGenerations ==
    ASSUME TypeInv, GenInv, StoppedInv, IterNewPool \/ IterReusePool \/ IterWithError
    PROVE  GenInv' /\ StoppedInv'
<1>0. cpc = "out" /\ ~hasPool /\ gen \in Nat
  BY DEF IterNewPool, IterReusePool, IterWithError, TypeInv, CreditInv, CountersInv, AccountInv,
     HasPoolStates
<1>1. results = <<>> /\ (\A w \in W : Settled(w)) /\ ~shutdown
  BY <1>0 DEF StoppedInv, GenInv
<1>2. gen' = gen + 1 /\ completed' = {} /\ UNCHANGED <<results, shutdown>>
  BY DEF IterNewPool, IterReusePool, IterWithError, FreshIterator, poolVars
<1>3. \A w \in W : wk[w].seq = None
  BY <1>1 DEF GenInv, Settled, Holding
<1>4. CASE IterNewPool \/ IterReusePool
  <2>1. cpc' = "fill" /\ hasPool' = TRUE /\ \A w \in W : control'[w] = gen'
    BY <1>4 DEF IterNewPool, IterReusePool, Begin
  <2>2. \A w \in W : /\ wk'[w].seq = None
                     /\ wk'[w].pc \in {"absent", "idle"} \/ (wk'[w].pc = "spawn" /\ wk'[w].gen = gen')
    <3>1. CASE IterNewPool
      <4>1. wk' = [w \in W |-> [NoWorker EXCEPT !.pc = "spawn", !.gen = gen']]
        BY ONLY <3>1 DEF IterNewPool
      <4> QED BY ONLY <4>1 DEF NoWorker
    <3>2. CASE IterReusePool
      <4>1. wk' = wk
        BY ONLY <3>2 DEF IterReusePool
      <4> QED BY ONLY <1>1, <1>3, <4>1 DEF Settled
    <3> QED BY ONLY <1>4, <3>1, <3>2
  <2>3. GenInv'
    BY <1>0, <1>1, <1>2, <2>1, <2>2 DEF GenInv, AtWork, Holding
  <2> QED BY <1>1, <1>2, <2>1, <2>3 DEF StoppedInv, HasSaidQuiesced
<1>5. CASE IterWithError
  <2>1. cpc' = "user" /\ hasPool' = FALSE /\ UNCHANGED <<wk, control>>
    BY <1>5 DEF IterWithError, poolVars
  <2>2. \A w \in W : Settled(w)'
    BY <1>1, <2>1 DEF Settled
  <2>3. GenInv'
    BY <1>0, <1>1, <1>2, <1>3, <2>1 DEF GenInv, AtWork, Settled, Holding
  <2> QED BY <1>1, <1>2, <2>1, <2>2, <2>3 DEF StoppedInv, HasSaidQuiesced
<1> QED
  BY <1>4, <1>5

\* Generations under a step of the coordinator or of the caller.
LEMMA CoordinatorGenerations ==
    ASSUME TypeInv, GenInv, StoppedInv, CoordinatorMove
    PROVE  GenInv' /\ StoppedInv'
<1>0. cpc \in HasPoolStates \/ ~hasPool
  BY DEF TypeInv, CreditInv, AccountInv
<1>1. CASE Idles
  BY <1>1 DEF Idles, GenInv, StoppedInv, Settled, AtWork, HasSaidQuiesced, Waiting
<1>2. CASE Stops
  BY <1>2, StopGenerations DEF Stops, Waiting
<1>3. CASE Skips \/ Submit \/ \E s \in Plan : Yields(s)
  <2>1. hasPool /\ UNCHANGED <<hasPool, shutdown>> /\ {cpc, cpc'} \cap {"quiesce", "join"} = {}
    BY <1>3 DEF Skips, Submit, Yields, fillFrame, iterVars, poolVars, Waiting,
       TypeInv, CreditInv, PoolPresent, HasPoolStates
  <2>2. SameGeneration
    BY <1>3 DEF SameGeneration, Skips, Submit, Yields, fillFrame, poolVars
  <2> QED BY <2>1, <2>2, PoolKeptGenerations
<1>4. CASE DropLoader
  <2>1. /\ ~hasPool /\ cpc = "out" /\ ~shutdown
        /\ UNCHANGED <<gen, wk, control, results, hasPool, completed>>
    BY <1>0, <1>4 DEF DropLoader, nextFrame, iterVars, HasPoolStates, GenInv
  <2>2. cpc' \in {"join", "gone"} /\ (shutdown' <=> cpc' = "join")
    BY <1>4, <2>1 DEF DropLoader
  <2>3. /\ GenInv'
        /\ \A v \in W : Settled(v)' <=> Settled(v)
        /\ \A i \in DOMAIN results' : results'[i].gen = gen'
        /\ ~shutdown' => \A v \in W : HasSaidQuiesced(v)' => Settled(v)'
    BY <2>1, <2>2, SameGenerationKeeps DEF SameGeneration
  <2> QED BY <2>1, <2>2, <2>3 DEF StoppedInv
<1> QED
  BY <1>1, <1>2, <1>3, <1>4, QuiesceGenerations, JoinGenerations, IterGenerations
     DEF CoordinatorMove

-----------------------------------------------------------------------------
\* Order

\* What the order needs of the types.
LEMMA OrderTypes ==
    ASSUME TypeInv
    PROVE  /\ results \in Seq(Completion) /\ gen \in Nat /\ nextSub \in Nat
           /\ lane \in [W -> Seq(Task)]
           /\ \A w \in W : \A i \in DOMAIN lane[w] : lane[w][i].gen \in Nat /\ lane[w][i].seq \in Nat
           /\ \A w \in W : wk[w].seq # None => wk[w].seq \in Plan
           /\ \A i \in DOMAIN results : /\ results[i].worker \in W
                                        /\ results[i].kind = "batch" => results[i].seq \in Plan
           /\ Seen \subseteq Plan /\ Plan \subseteq Nat
<1>1. Plan \subseteq Nat
  BY ConstantFacts
<1>2. results \in Seq(Completion) /\ \A i \in DOMAIN results : MessageOK(results[i])
  BY DEF TypeInv, PoolInv, ResultsOK
<1>3. lane \in [W -> Seq(Task)]
  BY DEF TypeInv, PoolInv, LanesOK
<1>4. \A w \in W : \A i \in DOMAIN lane[w] : lane[w][i] \in Task
  BY <1>3
<1>5. \A w \in W : wk[w].seq # None => wk[w].seq \in Plan
  BY DEF TypeInv, PoolInv, WorkersOK, WorkerType
<1>6. Seen \subseteq Plan
  <2>1. \A i \in DOMAIN delivered : delivered[i] \in Plan
    BY DEF TypeInv, CoordInv
  <2> QED BY <2>1 DEF Seen, Range, TypeInv, CoordInv
<1>7. gen \in Nat /\ nextSub \in Nat
  BY DEF TypeInv, CreditInv, CountersInv
<1> QED
  BY <1>1, <1>2, <1>3, <1>4, <1>5, <1>6, <1>7 DEF MessageOK, Completion, Task

\* The rest of a channel holds what the channel held, in the same order.
LEMMA TailEntries ==
    ASSUME NEW S, NEW q \in Seq(S), q # <<>>
    PROVE  /\ Head(q) = q[1] /\ 1 \in DOMAIN q
           /\ \A i \in DOMAIN Tail(q) : i + 1 \in DOMAIN q /\ Tail(q)[i] = q[i + 1] /\ i \in Nat /\ i > 0
           /\ \A i \in DOMAIN q : i # 1 => i - 1 \in DOMAIN Tail(q) /\ Tail(q)[i - 1] = q[i]
OBVIOUS

\* What a worker's step leaves of what precedes its lane and its batch.
LEMMA BeforeStays ==
    ASSUME TypeInv, GenInv, OrderInv, NEW w \in W, WorkerStep(w) \/ WorkerFault(w),
           NEW s \in Nat, NEW v \in W
    PROVE  /\ BeforeLane(s, v) => BeforeLane(s, v)'
           /\ BeforeWorker(s, v) => BeforeWorker(s, v)'
<1>0. /\ Alone(w) /\ (Calm(w) \/ Starts(w) \/ Takes(w) \/ Sends(w))
      /\ gen' = gen /\ lane \in [W -> Seq(Task)]
  BY WorkerMoves, OrderTypes DEF Alone, workerFrame
<1>1. CASE v # w \/ Calm(w) \/ Starts(w) \/ Sends(w)
  <2>1. lane'[v] = lane[v] /\ (wk'[v].seq = wk[v].seq \/ wk'[v].seq = None)
    BY <1>0, <1>1 DEF Alone, Calm, Starts, Sends
  <2> QED BY <1>0, <2>1 DEF BeforeLane, BeforeWorker
<1>2. CASE v = w /\ Takes(w)
  <2>0. lane[w] # <<>> /\ lane'[w] = Tail(lane[w]) /\ lane[w] \in Seq(Task)
    BY <1>0, <1>2 DEF Takes
  <2>1. /\ \A i \in DOMAIN lane'[w] : \E j \in DOMAIN lane[w] : lane'[w][i] = lane[w][j]
        /\ 1 \in DOMAIN lane[w] /\ Head(lane[w]) = lane[w][1]
    BY <2>0, TailEntries
  <2>2. BeforeLane(s, v) => BeforeLane(s, v)'
    BY <1>0, <1>2, <2>1 DEF BeforeLane
  <2>3. wk'[w].seq = wk[w].seq \/ (wk'[w].seq = lane[w][1].seq /\ lane[w][1].gen = gen)
    <3>1. wk[w].gen = gen
      BY <1>2 DEF Takes, GenInv, AtWork
    <3> QED BY <1>2, <2>1, <3>1 DEF Takes
  <2> QED BY <1>0, <1>2, <2>1, <2>2, <2>3 DEF BeforeLane, BeforeWorker
<1> QED
  BY <1>0, <1>1, <1>2

\* The order in the lanes under a worker's step.
LEMMA WorkerLaneOrder ==
    ASSUME TypeInv, GenInv, OrderInv, NEW w \in W, WorkerStep(w) \/ WorkerFault(w)
    PROVE  LaneOrder'
<1>0. /\ Alone(w) /\ (Calm(w) \/ Starts(w) \/ Takes(w) \/ Sends(w))
      /\ gen' = gen /\ nextSub' = nextSub /\ lane \in [W -> Seq(Task)]
  BY WorkerMoves, OrderTypes DEF Alone, workerFrame, submitVars
<1> SUFFICES ASSUME NEW v \in W
             PROVE  \A i \in DOMAIN lane'[v] :
                      /\ lane'[v][i].gen <= gen
                      /\ Lane(lane'[v][i].seq) = v
                      /\ lane'[v][i].gen = gen => lane'[v][i].seq < nextSub
                      /\ \A j \in 1 .. i - 1 :
                           lane'[v][j].gen = lane'[v][i].gen => lane'[v][j].seq < lane'[v][i].seq
  BY <1>0 DEF LaneOrder, Lane
<1>1. CASE lane'[v] = lane[v]
  BY <1>1 DEF OrderInv, LaneOrder
<1>2. CASE v = w /\ lane[w] # <<>> /\ lane'[w] = Tail(lane[w])
  <2>1. \A i \in DOMAIN lane'[v] : i + 1 \in DOMAIN lane[v] /\ lane'[v][i] = lane[v][i + 1] /\ i \in Nat /\ i > 0
    BY <1>0, <1>2, TailEntries
  <2>2. \A i \in DOMAIN lane'[v] : \A j \in 1 .. i - 1 : j \in DOMAIN lane'[v] /\ j + 1 \in 1 .. (i + 1) - 1
    BY <1>0, <1>2
  <2> QED BY <2>1, <2>2 DEF OrderInv, LaneOrder
<1> QED
  BY <1>0, <1>1, <1>2 DEF Alone, Calm, Starts, Takes, Sends

\* The order of the batches in progress under a worker's step.
LEMMA WorkerWorkerOrder ==
    ASSUME TypeInv, GenInv, OrderInv, NEW w \in W, WorkerStep(w) \/ WorkerFault(w)
    PROVE  WorkerOrder'
<1>0. /\ Alone(w) /\ (Calm(w) \/ Starts(w) \/ Takes(w) \/ Sends(w))
      /\ gen' = gen /\ nextSub' = nextSub /\ lane \in [W -> Seq(Task)]
  BY WorkerMoves, OrderTypes DEF Alone, workerFrame, submitVars
<1> SUFFICES ASSUME NEW v \in W, NEW s, wk'[v].seq = s, s # None
             PROVE  s < nextSub /\ Lane(s) = v /\ BeforeLane(s, v)'
  BY <1>0 DEF WorkerOrder, Lane, BeforeLane
<1>1. CASE wk'[v].seq = wk[v].seq
  <2>1. s \in Nat /\ BeforeLane(s, v) /\ s < nextSub /\ Lane(s) = v
    BY <1>1, OrderTypes DEF OrderInv, WorkerOrder
  <2> QED BY <2>1, BeforeStays
<1>2. CASE v = w /\ Takes(w) /\ wk'[w].seq = Head(lane[w]).seq /\ Head(lane[w]).gen = wk[w].gen
  <2>0. lane[w] # <<>> /\ lane'[w] = Tail(lane[w]) /\ lane[w] \in Seq(Task) /\ wk[w].gen = gen
    BY <1>0, <1>2 DEF Takes, GenInv, AtWork
  <2>1. lane[w][1].gen = gen /\ 1 \in DOMAIN lane[w] /\ s = lane[w][1].seq
    BY <1>2, <2>0, TailEntries
  <2>2. \A i \in DOMAIN lane'[w] : i + 1 \in DOMAIN lane[w] /\ lane'[w][i] = lane[w][i + 1] /\ 1 \in 1 .. (i + 1) - 1
    BY <2>0, TailEntries
  <2>3. BeforeLane(s, v)'
    BY <1>0, <1>2, <2>1, <2>2 DEF BeforeLane, OrderInv, LaneOrder
  <2> QED BY <1>2, <2>1, <2>3 DEF OrderInv, LaneOrder
<1> QED
  BY <1>0, <1>1, <1>2 DEF Alone, Calm, Starts, Takes, Sends

\* The order in the results channel under a worker's step.
LEMMA WorkerResultOrder ==
    ASSUME TypeInv, GenInv, OrderInv, NEW w \in W, WorkerStep(w) \/ WorkerFault(w)
    PROVE  ResultOrder'
<1>0. /\ UNCHANGED results \/ Sends(w)
      /\ gen' = gen /\ nextSub' = nextSub /\ results \in Seq(Completion)
  BY WorkerMoves, OrderTypes DEF Alone, workerFrame, submitVars, Calm, Starts, Takes
<1> SUFFICES ASSUME NEW i \in DOMAIN results', results'[i].kind = "batch",
                    NEW s, results'[i].seq = s, NEW v, results'[i].worker = v
             PROVE  /\ s < nextSub /\ Lane(s) = v /\ BeforeWorker(s, v)'
                    /\ \A j \in 1 .. i - 1 : results'[j].kind = "batch" /\ results'[j].worker = v
                           => results'[j].seq < s
  BY <1>0 DEF ResultOrder, Lane, BeforeWorker, BeforeLane
<1>1. ASSUME i \in DOMAIN results, results'[i] = results[i],
             \A j \in 1 .. i - 1 : results'[j] = results[j]
      PROVE  /\ s < nextSub /\ Lane(s) = v /\ BeforeWorker(s, v)'
             /\ \A j \in 1 .. i - 1 : results'[j].kind = "batch" /\ results'[j].worker = v
                    => results'[j].seq < s
  <2>1. s \in Nat /\ v \in W
    BY <1>1, OrderTypes
  <2>2. s < nextSub /\ Lane(s) = v /\ BeforeWorker(s, v)
    BY <1>1 DEF OrderInv, ResultOrder
  <2>3. BeforeWorker(s, v)'
    BY <2>1, <2>2, BeforeStays
  <2> QED BY <1>1, <2>2, <2>3 DEF OrderInv, ResultOrder
<1>2. CASE UNCHANGED results
  BY <1>1, <1>2
<1>3. CASE Sends(w)
  <2>1. PICK k \in MessageKinds :
          /\ results' = Append(results, Message(w, wk[w].gen, wk[w].seq, k))
          /\ k = "batch" => wk[w].seq # None
          /\ wk'[w].seq = None
    BY <1>3 DEF Sends
  <2>2. CASE i \in DOMAIN results
    <3>1. results'[i] = results[i] /\ \A j \in 1 .. i - 1 : results'[j] = results[j]
      BY <1>0, <2>1, <2>2
    <3> QED BY <1>1, <2>2, <3>1
  <2>3. CASE i = Len(results) + 1
    <3>1. results'[i] = Message(w, wk[w].gen, wk[w].seq, k) /\ \A j \in 1 .. i - 1 : results'[j] = results[j]
      BY <1>0, <2>1, <2>3
    <3>2. v = w /\ s = wk[w].seq /\ s # None
      BY <2>1, <3>1 DEF Message
    <3>3. s \in Nat /\ s < nextSub /\ Lane(s) = w /\ BeforeLane(s, w)
      BY <3>2, OrderTypes DEF OrderInv, WorkerOrder
    <3>4. BeforeWorker(s, w)'
      BY <2>1, <3>3, BeforeStays DEF BeforeWorker
    <3>5. \A j \in 1 .. i - 1 : results[j].kind = "batch" /\ results[j].worker = w
             => results[j].seq < s
      BY <1>0, <2>3, <3>2 DEF OrderInv, ResultOrder, BeforeWorker
    <3> QED BY <3>1, <3>2, <3>3, <3>4, <3>5
  <2> QED BY <1>0, <2>1, <2>2, <2>3
<1> QED
  BY <1>0, <1>2, <1>3

\* The order of what was received under a worker's step.
LEMMA WorkerSeenOrder ==
    ASSUME TypeInv, GenInv, OrderInv, NEW w \in W, WorkerStep(w) \/ WorkerFault(w)
    PROVE  SeenOrder'
<1>0. /\ UNCHANGED results \/ Sends(w)
      /\ nextSub' = nextSub /\ Seen' = Seen /\ results \in Seq(Completion)
  BY WorkerMoves, OrderTypes
     DEF Alone, workerFrame, submitVars, iterVars, historyVars, Seen, Calm, Starts, Takes
<1> SUFFICES ASSUME NEW s \in Seen, NEW v, v = Lane(s)
             PROVE  s < nextSub /\ BeforeResults(s, v)'
  BY <1>0 DEF SeenOrder, Lane, BeforeResults, BeforeWorker, BeforeLane
<1>1. s \in Nat /\ v \in W /\ s < nextSub /\ BeforeResults(s, v)
  BY OrderTypes, ConstantFacts DEF OrderInv, SeenOrder
<1>2. BeforeWorker(s, v) /\ BeforeWorker(s, v)'
  BY <1>1, BeforeStays DEF BeforeResults
<1>3. CASE UNCHANGED results
  BY <1>1, <1>2, <1>3 DEF BeforeResults
<1>4. CASE Sends(w)
  <2>1. PICK k \in MessageKinds :
          /\ results' = Append(results, Message(w, wk[w].gen, wk[w].seq, k))
          /\ k = "batch" => wk[w].seq # None
    BY <1>4 DEF Sends
  <2>2. ASSUME NEW i \in DOMAIN results', results'[i].kind = "batch", results'[i].worker = v
        PROVE  s < results'[i].seq
    <3>1. CASE i \in DOMAIN results
      <4>1. results'[i] = results[i]
        BY <1>0, <2>1, <3>1
      <4> QED BY <1>1, <2>2, <3>1, <4>1 DEF BeforeResults
    <3>2. CASE i = Len(results) + 1
      <4>1. results'[i] = Message(w, wk[w].gen, wk[w].seq, k)
        BY <1>0, <2>1, <3>2
      <4> QED BY <1>2, <2>1, <2>2, <4>1 DEF Message, BeforeWorker
    <3> QED BY <1>0, <2>1, <3>1, <3>2
  <2> QED BY <1>1, <1>2, <2>2 DEF BeforeResults
<1> QED
  BY <1>0, <1>3, <1>4

\* Receiving, or dropping, what was sent keeps the order.
LEMMA ReceiveOrder ==
    ASSUME TypeInv, OrderInv, UNCHANGED <<lane, wk, gen, nextSub>>,
           \/ results' = results
           \/ results # <<>> /\ results' = Tail(results)
           \/ results' = <<>>,
           \/ Seen' \subseteq Seen
           \/ /\ results # <<>> /\ results' = Tail(results)
              /\ Head(results).kind = "batch" /\ Seen' \subseteq Seen \cup {Head(results).seq}
    PROVE  OrderInv'
<1>0. results \in Seq(Completion)
  BY OrderTypes
<1>1. LaneOrder' /\ WorkerOrder'
  BY DEF OrderInv, LaneOrder, WorkerOrder, BeforeLane, Lane
<1>2. \A s, v : BeforeWorker(s, v)' <=> BeforeWorker(s, v)
  BY DEF BeforeWorker, BeforeLane
<1>3. CASE UNCHANGED results \/ results' = <<>>
  <2>1. ResultOrder'
    BY <1>2, <1>3 DEF OrderInv, ResultOrder, Lane
  <2>2. Seen' \subseteq Seen \/ results # <<>>
    OBVIOUS
  <2>3. CASE Seen' \subseteq Seen
    <3>1. \A s, v : BeforeResults(s, v) => BeforeResults(s, v)'
      BY <1>2, <1>3 DEF BeforeResults
    <3>2. SeenOrder'
      BY <2>3, <3>1 DEF OrderInv, SeenOrder, Lane
    <3> QED BY <1>1, <2>1, <3>2 DEF OrderInv
  <2>4. CASE results # <<>> /\ results' = Tail(results)
    <3>1. Len(Tail(results)) # Len(results)
      BY <1>0, <2>4
    <3>2. results' = <<>> /\ 1 \in DOMAIN results /\ Head(results) = results[1]
      BY <1>0, <1>3, <2>4, <3>1
    <3>3. \A s, v : BeforeWorker(s, v) => BeforeResults(s, v)'
      BY <1>2, <3>2 DEF BeforeResults
    <3>4. ASSUME NEW s \in Seen'
          PROVE  s < nextSub /\ BeforeWorker(s, Lane(s))
      BY <3>2, <3>4 DEF OrderInv, SeenOrder, ResultOrder, BeforeResults
    <3>5. SeenOrder'
      BY <3>3, <3>4 DEF SeenOrder, Lane
    <3> QED BY <1>1, <2>1, <3>5 DEF OrderInv
  <2> QED BY <2>3, <2>4
<1>4. CASE results # <<>> /\ results' = Tail(results)
  <2>1. /\ Head(results) = results[1] /\ 1 \in DOMAIN results
        /\ \A i \in DOMAIN results' :
             i + 1 \in DOMAIN results /\ results'[i] = results[i + 1] /\ i \in Nat /\ i > 0
    BY <1>0, <1>4, TailEntries
  <2>2. \A i \in DOMAIN results' : \A j \in 1 .. i - 1 :
           j \in DOMAIN results' /\ j + 1 \in 1 .. (i + 1) - 1
    BY <1>0, <1>4
  <2>3. ResultOrder'
    BY <1>2, <2>1, <2>2 DEF OrderInv, ResultOrder, Lane
  <2>4. ASSUME NEW s \in Seen', NEW v, v = Lane(s)
        PROVE  s < nextSub /\ BeforeResults(s, v)'
    <3>1. CASE s \in Seen
      BY <1>2, <2>1, <2>4, <3>1 DEF OrderInv, SeenOrder, BeforeResults
    <3>2. CASE results[1].kind = "batch" /\ s = results[1].seq
      <4>1. s < nextSub /\ results[1].worker = v /\ BeforeWorker(s, v)
        BY <2>1, <2>4, <3>2 DEF OrderInv, ResultOrder
      <4>2. \A i \in DOMAIN results' : 1 \in 1 .. (i + 1) - 1
        BY <2>1
      <4>3. \A i \in DOMAIN results' : results'[i].kind = "batch" /\ results'[i].worker = v
               => s < results'[i].seq
        BY <2>1, <3>2, <4>1, <4>2 DEF OrderInv, ResultOrder
      <4> QED BY <1>2, <4>1, <4>3 DEF BeforeResults
    <3> QED BY <2>1, <3>1, <3>2
  <2>5. SeenOrder'
    BY <2>4 DEF SeenOrder, Lane
  <2> QED BY <1>1, <2>3, <2>5 DEF OrderInv
<1> QED
  BY <1>3, <1>4

\* A submitted batch comes after everything of its worker.
LEMMA SubmitOrder ==
    ASSUME TypeInv, OrderInv, Submit
    PROVE  OrderInv'
<1> DEFINE u == Lane(nextSub)
<1>0. /\ lane' = [lane EXCEPT ![u] = Append(lane[u], [gen |-> gen, seq |-> nextSub])]
      /\ nextSub' = nextSub + 1
      /\ UNCHANGED <<gen, wk, results, completed, delivered>>
      /\ nextSub \in Nat /\ u \in W /\ lane \in [W -> Seq(Task)] /\ gen \in Nat
  BY OrderTypes, ConstantFacts DEF Submit, fillFrame, iterVars, historyVars
<1>1. ASSUME NEW v \in W, NEW i \in DOMAIN lane'[v]
      PROVE  \/ i \in DOMAIN lane[v] /\ lane'[v][i] = lane[v][i]
             \/ v = u /\ i = Len(lane[v]) + 1 /\ lane'[v][i] = [gen |-> gen, seq |-> nextSub]
  <2>1. CASE v # u
    BY <1>0, <2>1
  <2>2. CASE v = u
    BY <1>0, <2>2
  <2> QED BY <2>1, <2>2
<1>2. ASSUME NEW s \in Nat, s < nextSub, NEW v \in W
      PROVE  /\ BeforeLane(s, v) => BeforeLane(s, v)'
             /\ BeforeWorker(s, v) => BeforeWorker(s, v)'
             /\ BeforeResults(s, v) => BeforeResults(s, v)'
  <2>1. BeforeLane(s, v) => BeforeLane(s, v)'
    BY <1>0, <1>1, <1>2 DEF BeforeLane
  <2> QED BY <1>0, <2>1 DEF BeforeWorker, BeforeResults
<1>3. LaneOrder'
  <2> SUFFICES ASSUME NEW v \in W, NEW i \in DOMAIN lane'[v]
               PROVE  /\ lane'[v][i].gen <= gen
                      /\ Lane(lane'[v][i].seq) = v
                      /\ lane'[v][i].gen = gen => lane'[v][i].seq < nextSub'
                      /\ \A j \in 1 .. i - 1 :
                           lane'[v][j].gen = lane'[v][i].gen => lane'[v][j].seq < lane'[v][i].seq
    BY <1>0 DEF LaneOrder, Lane
  <2>1. i \in 1 .. Len(lane[v]) + 1 /\ \A j \in 1 .. i - 1 : j \in DOMAIN lane[v] /\ j \in DOMAIN lane'[v]
                                                             /\ lane'[v][j] = lane[v][j]
    <3>1. CASE v # u
      BY <1>0, <3>1
    <3>2. CASE v = u
      BY <1>0, <3>2
    <3> QED BY <3>1, <3>2
  <2>2. CASE i \in DOMAIN lane[v] /\ lane'[v][i] = lane[v][i]
    <3>1. lane[v][i].seq \in Nat
      BY <2>2, OrderTypes
    <3> QED BY <1>0, <2>1, <2>2, <3>1 DEF OrderInv, LaneOrder
  <2>3. CASE v = u /\ lane'[v][i] = [gen |-> gen, seq |-> nextSub]
    BY <1>0, <2>1, <2>3 DEF OrderInv, LaneOrder
  <2> QED BY <1>1, <2>2, <2>3
<1>4. WorkerOrder'
  <2>1. \A v \in W : wk[v].seq # None => wk[v].seq \in Nat
    BY OrderTypes
  <2> QED BY <1>0, <1>2, <2>1 DEF OrderInv, WorkerOrder, Lane, BeforeLane
<1>5. ResultOrder'
  <2>1. \A i \in DOMAIN results : /\ results[i].worker \in W
                                  /\ results[i].kind = "batch" => results[i].seq \in Nat
    BY OrderTypes
  <2> QED BY <1>0, <1>2, <2>1 DEF OrderInv, ResultOrder, Lane, BeforeWorker, BeforeLane
<1>6. SeenOrder'
  <2>1. Seen' = Seen
    BY <1>0 DEF Seen
  <2>2. \A s \in Seen : s \in Nat /\ Lane(s) \in W
    BY OrderTypes, ConstantFacts
  <2> QED BY <1>0, <1>2, <2>1, <2>2 DEF OrderInv, SeenOrder, Lane
<1> QED
  BY <1>3, <1>4, <1>5, <1>6 DEF OrderInv

\* Joining the threads empties every channel.
LEMMA JoinOrder ==
    ASSUME TypeInv, OrderInv, JoinEnds
    PROVE  OrderInv'
<1>1. /\ \A w \in W : lane'[w] = <<>> /\ wk'[w].seq = None
      /\ results' = <<>> /\ UNCHANGED <<nextSub, completed, delivered>>
  BY DEF JoinEnds, NoWorker, submitVars, iterVars, historyVars
<1>2. LaneOrder' /\ WorkerOrder' /\ ResultOrder'
  BY <1>1 DEF LaneOrder, WorkerOrder, ResultOrder
<1>3. Seen' = Seen /\ \A s \in Seen : Lane(s) \in W
  BY <1>1, OrderTypes, ConstantFacts DEF Seen
<1>4. SeenOrder'
  BY <1>1, <1>3 DEF OrderInv, SeenOrder, Lane, BeforeResults, BeforeWorker, BeforeLane
<1> QED
  BY <1>2, <1>4 DEF OrderInv

\* A new iterator starts with nothing received, sent or in progress.
LEMMA IterOrder ==
    ASSUME TypeInv, GenInv, StoppedInv, OrderInv, IterNewPool \/ IterReusePool \/ IterWithError
    PROVE  OrderInv'
<1>0. cpc = "out" /\ ~hasPool
  BY DEF IterNewPool, IterReusePool, IterWithError, TypeInv, CreditInv, AccountInv, HasPoolStates
<1>1. results' = <<>> /\ gen' = gen + 1 /\ lane' = lane /\ completed' = {} /\ delivered' = <<>>
  BY <1>0 DEF IterNewPool, IterReusePool, IterWithError, FreshIterator, StoppedInv
<1>2. \A w \in W : wk'[w].seq = None
  <2>1. \A w \in W : wk[w].seq = None
    BY <1>0 DEF GenInv, StoppedInv, Settled, Holding
  <2>2. wk' = wk \/ wk' = [w \in W |-> [NoWorker EXCEPT !.pc = "spawn", !.gen = gen']]
    BY DEF IterNewPool, IterReusePool, IterWithError
  <2> QED BY ONLY <2>1, <2>2 DEF NoWorker
<1>3. gen \in Nat /\ \A w \in W : \A i \in DOMAIN lane[w] :
                          lane[w][i].gen \in Nat /\ lane[w][i].gen <= gen
  BY OrderTypes DEF OrderInv, LaneOrder
<1>4. LaneOrder'
  BY <1>1, <1>3 DEF OrderInv, LaneOrder, Lane
<1>5. Seen' = {}
  BY <1>1 DEF Seen, Range
<1> QED
  BY <1>1, <1>2, <1>4, <1>5 DEF OrderInv, WorkerOrder, ResultOrder, SeenOrder

\* What has been received when the coordinator yields or skips a message.
LEMMA SeenAfter ==
    ASSUME TypeInv
    PROVE  /\ \A s \in Plan : Yields(s) => Seen' = Seen \cup {s}
           /\ Skips => Seen' = Seen \cup (IF Head(results).kind = "batch"
                                          THEN {Head(results).seq} ELSE {})
<1>0. delivered \in Seq(Plan)
  BY DEF TypeInv, CoordInv
<1>1. ASSUME NEW s \in Plan, Yields(s)
      PROVE  Seen' = Seen \cup {s}
  <2>1. delivered' = Append(delivered, s) /\ completed' = completed \ {s}
    BY <1>1 DEF Yields
  <2>2. Range(delivered') = Range(delivered) \cup {s}
    <3>1. /\ DOMAIN delivered' = DOMAIN delivered \cup {Len(delivered) + 1}
          /\ \A i \in DOMAIN delivered : delivered'[i] = delivered[i]
          /\ delivered'[Len(delivered) + 1] = s
      BY <1>0, <2>1
    <3> QED BY <3>1 DEF Range
  <2> QED BY <2>1, <2>2 DEF Seen
<1>2. ASSUME Skips
      PROVE  Seen' = Seen \cup (IF Head(results).kind = "batch" THEN {Head(results).seq} ELSE {})
  BY <1>2 DEF Skips, Seen
<1> QED
  BY <1>1, <1>2

\* The order under a step of the coordinator or of the caller.
LEMMA CoordinatorOrder ==
    ASSUME TypeInv, GenInv, StoppedInv, OrderInv, CoordinatorMove
    PROVE  OrderInv'
<1>1. CASE Idles
  <2>1. UNCHANGED <<lane, wk, gen, nextSub, results>> /\ Seen' = Seen
    BY <1>1 DEF Idles, batchFrame, Seen
  <2> QED BY <2>1, ReceiveOrder
<1>2. CASE Stops
  <2>1. UNCHANGED <<lane, wk, gen, nextSub>> /\ Seen' \subseteq Seen
    BY <1>2 DEF Stops, Stop, SameGeneration, batchFrame, Seen
  <2> QED BY <1>2, <2>1, ReceiveOrder DEF Stops, SameGeneration
<1>3. CASE Skips
  <2>1. UNCHANGED <<lane, wk, gen, nextSub>> /\ results # <<>> /\ results' = Tail(results)
    BY <1>3 DEF Skips, batchFrame
  <2> QED BY <1>3, <2>1, SeenAfter, ReceiveOrder
<1>4. ASSUME NEW s \in Plan, Yields(s)
      PROVE  OrderInv'
  <2>1. UNCHANGED <<lane, wk, gen, nextSub>> /\ Seen' = Seen \cup {s}
    BY <1>4, SeenAfter DEF Yields, batchFrame
  <2>2. CASE s \in completed /\ results' = results
    BY <2>1, <2>2, ReceiveOrder DEF Seen
  <2>3. CASE /\ results # <<>> /\ results' = Tail(results)
             /\ Head(results).kind = "batch" /\ Head(results).seq = s
    BY <2>1, <2>3, ReceiveOrder
  <2> QED BY <1>4, <2>2, <2>3 DEF Yields
<1>5. CASE QuiesceReceive \/ QuiesceEnds
  <2>1. UNCHANGED <<lane, wk, gen, nextSub>> /\ Seen' = Seen
    BY <1>5 DEF QuiesceReceive, QuiesceEnds, submitVars, iterVars, historyVars, Seen
  <2>2. results' = results \/ (results # <<>> /\ results' = Tail(results)) \/ results' = <<>>
    BY <1>5 DEF QuiesceReceive, QuiesceEnds
  <2> QED BY <2>1, <2>2, ReceiveOrder
<1>6. CASE DropLoader
  <2>1. UNCHANGED <<lane, wk, gen, nextSub, results>> /\ Seen' = Seen
    BY <1>6 DEF DropLoader, nextFrame, iterVars, historyVars, Seen
  <2> QED BY <2>1, ReceiveOrder
<1> QED
  BY <1>1, <1>2, <1>3, <1>4, <1>5, <1>6, SubmitOrder, JoinOrder, IterOrder DEF CoordinatorMove

-----------------------------------------------------------------------------
\* Once

\* A batch is received once and yielded once; next_visible counts what was
\* yielded, and an iterator that may go on has had no other outcome
OnceInv ==
    /\ completed \cap Range(delivered) = {}
    /\ \A i, j \in DOMAIN delivered : delivered[i] = delivered[j] => i = j
    /\ ~mode.ordered => completed = {}
    /\ hasPool => Len(delivered) = nextVis
    /\ ~exhausted => outcome = "open"

\* A batch that can be yielded or kept has not been received before.
LEMMA FreshHead ==
    ASSUME TypeInv, OrderInv, results # <<>>, Head(results).kind = "batch"
    PROVE  Head(results).seq \notin Seen
<1>1. 1 \in DOMAIN results /\ Head(results) = results[1]
  BY OrderTypes, TailEntries
<1>2. Lane(results[1].seq) = results[1].worker /\ results[1].seq \in Nat
  BY <1>1, OrderTypes DEF OrderInv, ResultOrder
<1> QED
  BY <1>1, <1>2 DEF OrderInv, SeenOrder, BeforeResults

\* Yielding a batch that was not yielded before keeps the yielded ones distinct.
LEMMA YieldOnce ==
    ASSUME TypeInv, OrderInv, OnceInv, NEW s \in Plan, Yields(s)
    PROVE  OnceInv'
<1>0. /\ delivered \in Seq(Plan) /\ delivered' = Append(delivered, s)
      /\ completed' = completed \ {s} /\ nextVis' = nextVis + 1
      /\ UNCHANGED <<mode, hasPool, exhausted, outcome>>
      /\ hasPool
  BY DEF TypeInv, CoordInv, Yields, batchFrame
<1>1. s \notin Range(delivered)
  <2>1. s \in completed \/ s \notin Seen
    BY FreshHead DEF Yields
  <2> QED BY <2>1 DEF OnceInv, Seen
<1>2. /\ DOMAIN delivered' = DOMAIN delivered \cup {Len(delivered) + 1}
      /\ \A i \in DOMAIN delivered : delivered'[i] = delivered[i]
      /\ delivered'[Len(delivered) + 1] = s
      /\ Len(delivered') = Len(delivered) + 1
  BY <1>0
<1>3. Range(delivered') = Range(delivered) \cup {s}
  BY <1>2 DEF Range
<1>4. \A i, j \in DOMAIN delivered' : delivered'[i] = delivered'[j] => i = j
  BY <1>1, <1>2 DEF OnceInv, Range
<1>5. ~mode'.ordered => completed' = {}
  BY <1>0 DEF OnceInv
<1>6. completed' \cap Range(delivered') = {}
  BY <1>0, <1>3 DEF OnceInv
<1>7. hasPool' => Len(delivered') = nextVis'
  BY <1>0, <1>2 DEF OnceInv
<1>8. ~exhausted' => outcome' = "open"
  BY <1>0 DEF OnceInv
<1> QED
  BY <1>4, <1>5, <1>6, <1>7, <1>8 DEF OnceInv

\* No step yields a batch twice.
LEMMA OnceNext ==
    ASSUME TypeInv, GenInv, StoppedInv, OrderInv, OnceInv, [Next]_vars
    PROVE  OnceInv'
<1>1. CASE UNCHANGED <<mode, completed, delivered, exhausted, outcome>>
             /\ (hasPool' => hasPool /\ nextVis' = nextVis)
  BY <1>1 DEF OnceInv
<1>2. CASE CoordinatorMove
  <2>1. CASE Idles
    BY <1>1, <2>1 DEF Idles, batchFrame
  <2>2. CASE Stops
    <3>1. /\ UNCHANGED <<mode, delivered>> /\ hasPool' = FALSE /\ completed' = {}
          /\ UNCHANGED <<exhausted, outcome>> \/ exhausted' = TRUE
      BY <2>2 DEF Stops, Stop, batchFrame
    <3> QED BY <3>1 DEF OnceInv
  <2>3. CASE Skips
    <3>1. /\ UNCHANGED <<mode, delivered, hasPool, nextVis, exhausted, outcome>>
          /\ results # <<>>
          /\ \/ completed' = completed
             \/ /\ Head(results).kind = "batch" /\ mode.ordered
                /\ completed' = completed \cup {Head(results).seq}
      BY <2>3 DEF Skips, batchFrame
    <3>2. CASE completed' = completed
      BY <1>1, <3>1, <3>2
    <3>3. CASE /\ Head(results).kind = "batch" /\ mode.ordered
               /\ completed' = completed \cup {Head(results).seq}
      <4>1. Head(results).seq \notin Seen
        BY <3>1, <3>3, FreshHead
      <4> QED BY <3>1, <3>3, <4>1 DEF OnceInv, Seen
    <3> QED BY <3>1, <3>2, <3>3
  <2>4. CASE \E s \in Plan : Yields(s)
    BY <2>4, YieldOnce
  <2>5. CASE Submit \/ QuiesceReceive \/ QuiesceEnds \/ JoinEnds \/ DropLoader
    BY <1>1, <2>5 DEF Submit, QuiesceReceive, QuiesceEnds, JoinEnds, DropLoader, fillFrame, nextFrame,
       creditVars, iterVars, historyVars
  <2>6. CASE IterNewPool \/ IterReusePool \/ IterWithError
    <3>1. /\ completed' = {} /\ delivered' = <<>> /\ nextVis' = 0 /\ outcome' = "open"
          /\ mode' = mode
      BY <2>6 DEF IterNewPool, IterReusePool, IterWithError, FreshIterator
    <3>2. DOMAIN <<>> = {} /\ Len(<<>>) = 0
      OBVIOUS
    <3> QED BY <3>1, <3>2 DEF OnceInv
  <2> QED BY <1>2, <2>1, <2>2, <2>3, <2>4, <2>5, <2>6 DEF CoordinatorMove
<1>3. CASE \E w \in W : WorkerStep(w) \/ WorkerFault(w)
  BY <1>1, <1>3, WorkerFrame DEF workerFrame, creditVars, iterVars, historyVars
<1>4. CASE Done \/ UNCHANGED vars
  BY <1>1, <1>4 DEF Done, vars, creditVars, iterVars, historyVars
<1> QED
  BY <1>2, <1>3, <1>4, CoordinatorMoves DEF Next

-----------------------------------------------------------------------------
\* Nothing lost

\* Where a submitted batch may be
Somewhere(s, w) ==
    \/ s \in Seen
    \/ \E i \in DOMAIN results : results[i].kind = "batch" /\ results[i].seq = s
    \/ wk[w].seq = s
    \/ \E i \in DOMAIN lane[w] : lane[w][i] = [gen |-> gen, seq |-> s]

\* A batch that was submitted to a worker which still produces is somewhere
KeptInv ==
    hasPool => \A s \in Plan, w \in W :
                  s < nextSub /\ w = Lane(s) /\ InGeneration(w) => Somewhere(s, w)

\* A worker moves its batches along, or gives the generation up.
LEMMA WorkerKeeps ==
    ASSUME TypeInv, GenInv, KeptInv, NEW w \in W, WorkerStep(w) \/ WorkerFault(w)
    PROVE  KeptInv'
<1>0. /\ Alone(w) /\ (Calm(w) \/ Starts(w) \/ Takes(w) \/ Sends(w))
      /\ UNCHANGED <<gen, nextSub, hasPool>> /\ Seen' = Seen
      /\ lane \in [W -> Seq(Task)] /\ results \in Seq(Completion) /\ Plan \subseteq Nat
  BY WorkerMoves, OrderTypes DEF Alone, workerFrame, submitVars, iterVars, historyVars, Seen
<1> SUFFICES ASSUME hasPool, NEW s \in Plan, NEW v \in W, s < nextSub, v = Lane(s),
                    InGeneration(v)'
             PROVE  Somewhere(s, v)'
  BY <1>0 DEF KeptInv, Lane
<1>1. gen > 0 /\ gen \in Nat /\ s # None /\ (InGeneration(v) => Somewhere(s, v))
  BY <1>0, OrderTypes DEF KeptInv, GenInv, None
<1>2. \A i \in DOMAIN results : \E j \in DOMAIN results' : results'[j] = results[i]
  <2>1. CASE results' = results
    BY <2>1
  <2>2. ASSUME NEW m, results' = Append(results, m)
        PROVE  \A i \in DOMAIN results : i \in DOMAIN results' /\ results'[i] = results[i]
    BY <1>0, <2>2
  <2> QED BY <1>0, <2>1, <2>2 DEF Calm, Starts, Takes, Sends
<1>3. CASE v # w
  <2>1. wk'[v] = wk[v] /\ control'[v] = control[v] /\ lane'[v] = lane[v]
    BY <1>0, <1>3 DEF Alone
  <2> QED BY <1>0, <1>1, <1>2, <2>1 DEF InGeneration, Somewhere
<1>4. CASE v = w /\ Calm(w)
  <2>1. InGeneration(w)
    BY <1>0, <1>4 DEF Calm, InGeneration, Producer
  <2>2. wk'[w].seq = wk[w].seq
    <3>1. CASE control[w] = gen
      BY <1>1, <1>4, <3>1 DEF Calm, GenInv
    <3>2. CASE wk'[w].pc \in Producer
      BY <1>4, <3>2 DEF Calm
    <3> QED BY <1>0, <1>4, <3>1, <3>2 DEF Calm, InGeneration, Producer
  <2> QED BY <1>0, <1>1, <1>4, <2>1, <2>2 DEF Calm, Somewhere
<1>5. CASE v = w /\ Starts(w)
  <2>1. InGeneration(w)
    BY <1>0, <1>5 DEF Starts, InGeneration, GenInv
  <2> QED BY <1>0, <1>1, <1>5, <2>1 DEF Starts, Somewhere
<1>6. CASE v = w /\ Takes(w)
  <2>0. lane[w] # <<>> /\ lane'[w] = Tail(lane[w]) /\ lane[w] \in Seq(Task)
    BY <1>0, <1>6 DEF Takes
  <2>1. wk[w].pc = "poll" /\ wk[w].gen = gen /\ control[w] = 0
    BY <1>0, <1>1, <1>6 DEF Takes, InGeneration, Producer, GenInv, AtWork
  <2>2. Somewhere(s, w) /\ wk[w].seq # s
    BY <1>1, <1>6, <2>1 DEF InGeneration, GenInv, Holding
  <2>3. ASSUME NEW i \in DOMAIN lane[w], lane[w][i] = [gen |-> gen, seq |-> s]
        PROVE  \/ wk'[w].seq = s
               \/ \E j \in DOMAIN lane'[w] : lane'[w][j] = [gen |-> gen, seq |-> s]
    <3>1. CASE i = 1
      <4>1. Head(lane[w]).gen = gen /\ Head(lane[w]).seq = s
        BY <2>0, <2>3, <3>1, TailEntries
      <4>2. wk'[w].pc \in {"poll", "work"}
        BY <1>0, <1>1, <1>6, <2>1 DEF Takes, InGeneration
      <4> QED BY <1>6, <2>1, <4>1, <4>2 DEF Takes
    <3>2. CASE i # 1
      <4>1. i - 1 \in DOMAIN lane'[w] /\ lane'[w][i - 1] = lane[w][i]
        BY <2>0, <3>2, TailEntries
      <4> QED BY <2>3, <4>1
    <3> QED BY <3>1, <3>2
  <2> QED BY <1>0, <1>6, <2>2, <2>3 DEF Takes, Somewhere
<1>7. CASE v = w /\ Sends(w)
  <2>1. PICK k \in MessageKinds :
          /\ results' = Append(results, Message(w, wk[w].gen, wk[w].seq, k))
          /\ UNCHANGED <<lane, control>>
          /\ \/ k = "batch" /\ wk[w].pc = "send" /\ wk'[w].pc = "poll"
             \/ k = "error" /\ wk[w].pc = "report" /\ wk'[w].pc = "failed"
             \/ k = "quiesced" /\ wk[w].pc = "quiesced" /\ wk'[w].pc = "idle"
             \/ k \in {"init", "panic"} /\ wk[w].pc = "die" /\ wk'[w].pc = "dead"
    BY <1>7 DEF Sends
  <2>2. InGeneration(w) /\ (k = "batch" \/ control[w] = gen)
    BY <1>0, <1>1, <1>7, <2>1 DEF Sends, InGeneration
  <2>3. CASE wk[w].seq # s
    BY <1>0, <1>1, <1>2, <1>7, <2>1, <2>2, <2>3 DEF Somewhere
  <2>4. CASE wk[w].seq = s
    <3>1. k = "batch"
      BY <1>1, <2>2, <2>4 DEF GenInv
    <3>2. Len(results) + 1 \in DOMAIN results'
          /\ results'[Len(results) + 1] = Message(w, wk[w].gen, wk[w].seq, k)
      BY <1>0, <2>1
    <3> QED BY <2>4, <3>1, <3>2 DEF Message, Somewhere
  <2> QED BY <2>3, <2>4
<1> QED
  BY <1>0, <1>3, <1>4, <1>5, <1>6, <1>7

\* A batch that the coordinator receives or submits is kept.
LEMMA CoordinatorKeeps ==
    ASSUME TypeInv, GenInv, KeptInv, CoordinatorMove
    PROVE  KeptInv'
<1>0. lane \in [W -> Seq(Task)] /\ results \in Seq(Completion) /\ Plan \subseteq Nat
  BY OrderTypes
<1>1. ASSUME hasPool' => hasPool /\ UNCHANGED <<gen, nextSub, wk, control, lane>>,
             hasPool' => Seen \subseteq Seen',
             hasPool' => \A i \in DOMAIN results :
                            \/ \E j \in DOMAIN results' : results'[j] = results[i]
                            \/ results[i].kind = "batch" => results[i].seq \in Seen'
      PROVE  KeptInv'
  BY <1>1 DEF KeptInv, InGeneration, Somewhere, Lane
<1>2. ASSUME results # <<>>, results' = Tail(results),
             Head(results).kind = "batch" => Head(results).seq \in Seen'
      PROVE  \A i \in DOMAIN results :
                            \/ \E j \in DOMAIN results' : results'[j] = results[i]
                            \/ results[i].kind = "batch" => results[i].seq \in Seen'
  BY <1>0, <1>2, TailEntries
<1>3. CASE Idles
  BY <1>1, <1>3 DEF Idles, batchFrame, Seen
<1>4. CASE Stops \/ IterWithError
  BY <1>1, <1>4 DEF Stops, Stop, IterWithError
<1>5. CASE Skips
  <2>1. Seen \subseteq Seen' /\ (Head(results).kind = "batch" => Head(results).seq \in Seen')
    BY <1>5, SeenAfter
  <2> QED BY <1>1, <1>2, <1>5, <2>1 DEF Skips, batchFrame
<1>6. CASE \E s \in Plan : Yields(s)
  <2>1. PICK s \in Plan : Yields(s)
    BY <1>6
  <2>2. Seen \subseteq Seen' /\ s \in Seen'
    BY <2>1, SeenAfter
  <2> QED BY <1>1, <1>2, <2>1, <2>2 DEF Yields, batchFrame
<1>7. CASE QuiesceReceive \/ QuiesceEnds \/ JoinEnds \/ DropLoader
  <2>1. ~hasPool'
    BY <1>7 DEF QuiesceReceive, QuiesceEnds, JoinEnds, DropLoader, iterVars, TypeInv, CreditInv,
       AccountInv, HasPoolStates
  <2> QED BY <2>1 DEF KeptInv
<1>8. CASE IterNewPool \/ IterReusePool
  <2>1. nextSub' = 0
    BY <1>8 DEF IterNewPool, IterReusePool, FreshIterator
  <2> QED BY <1>0, <2>1 DEF KeptInv
<1>9. CASE Submit
  <2>0. /\ lane' = [lane EXCEPT ![Lane(nextSub)] = Append(lane[Lane(nextSub)],
                                                          [gen |-> gen, seq |-> nextSub])]
        /\ nextSub' = nextSub + 1 /\ nextSub \in Nat
        /\ UNCHANGED <<gen, wk, control, results, hasPool>> /\ Seen' = Seen
    BY <1>9, OrderTypes DEF Submit, fillFrame, iterVars, historyVars, poolVars, Seen
  <2> SUFFICES ASSUME hasPool, NEW s \in Plan, NEW v \in W, s < nextSub + 1, v = Lane(s),
                      InGeneration(v)
               PROVE  Somewhere(s, v)'
    BY <2>0 DEF KeptInv, InGeneration, Lane
  <2>1. \A i \in DOMAIN lane[v] : i \in DOMAIN lane'[v] /\ lane'[v][i] = lane[v][i]
    <3>1. CASE v = Lane(nextSub)
      BY <1>0, <2>0, <3>1
    <3>2. CASE v # Lane(nextSub)
      BY <1>0, <2>0, <3>2
    <3> QED BY <3>1, <3>2
  <2>2. CASE s < nextSub
    <3>1. Somewhere(s, v)
      BY <2>2 DEF KeptInv
    <3> QED BY <2>0, <2>1, <3>1 DEF Somewhere
  <2>3. CASE s = nextSub
    <3>1. Len(lane[v]) + 1 \in DOMAIN lane'[v]
          /\ lane'[v][Len(lane[v]) + 1] = [gen |-> gen, seq |-> s]
      BY <1>0, <2>0, <2>3
    <3> QED BY <2>0, <3>1 DEF Somewhere
  <2> QED BY <1>0, <2>0, <2>2, <2>3
<1> QED
  BY <1>3, <1>4, <1>5, <1>6, <1>7, <1>8, <1>9 DEF CoordinatorMove

-----------------------------------------------------------------------------
\* The inductive invariant
SafeInv == TypeInv /\ GenInv /\ StoppedInv /\ OrderInv /\ OnceInv /\ KeptInv

\* It holds of a new loader.
LEMMA SafeInit == Init => SafeInv
<1> SUFFICES ASSUME Init PROVE SafeInv
  OBVIOUS
<1>1. TypeInv
  BY TypeInit
<1>2. /\ cpc = "out" /\ hasPool = FALSE /\ shutdown = FALSE /\ completed = {} /\ delivered = <<>>
      /\ results = <<>> /\ outcome = "open"
      /\ \A w \in W : control[w] = 0 /\ lane[w] = <<>> /\ wk[w] = NoWorker
  BY DEF Init
<1>3. Seen = {} /\ Range(delivered) = {} /\ DOMAIN delivered = {} /\ DOMAIN results = {}
      /\ \A w \in W : DOMAIN lane[w] = {}
  BY <1>2 DEF Seen, Range
<1>4. GenInv /\ StoppedInv
  BY <1>2, <1>3 DEF GenInv, StoppedInv, Settled, HasSaidQuiesced, NoWorker, AtWork, Holding
<1>5. OrderInv
  BY <1>2, <1>3 DEF OrderInv, LaneOrder, WorkerOrder, ResultOrder, SeenOrder, NoWorker
<1>6. OnceInv /\ KeptInv
  BY <1>2, <1>3 DEF OnceInv, KeptInv
<1> QED
  BY <1>1, <1>4, <1>5, <1>6 DEF SafeInv

\* Every step keeps it.
LEMMA SafeNext == SafeInv /\ [Next]_vars => SafeInv'
<1> SUFFICES ASSUME SafeInv, [Next]_vars
             PROVE  SafeInv'
  OBVIOUS
<1> USE DEF SafeInv
<1>0. TypeInv' /\ OnceInv'
  BY TypeNext, OnceNext
<1>1. CASE CoordinatorStep \/ CallerStep \/ FillSourcePanics \/ Expire
  <2>1. CoordinatorMove
    BY <1>1, CoordinatorMoves
  <2> QED BY <1>0, <2>1, CoordinatorGenerations, CoordinatorOrder, CoordinatorKeeps
<1>2. ASSUME NEW w \in W, WorkerStep(w) \/ WorkerFault(w)
      PROVE  SafeInv'
  <2>1. OrderInv'
    BY <1>2, WorkerLaneOrder, WorkerWorkerOrder, WorkerResultOrder, WorkerSeenOrder DEF OrderInv
  <2> QED BY <1>0, <1>2, <2>1, WorkerGenerations, WorkerKeeps
<1>3. CASE Done \/ UNCHANGED vars
  <2>1. UNCHANGED <<batchFrame, nextVis, results, completed, delivered, hasPool, shutdown, gen,
                    wk, control, acked, fatal, cpc, exhausted, outcome>>
    BY <1>3 DEF Done, vars, submitVars, creditVars, iterVars, quiesceVars, historyVars,
       poolVars, batchFrame
  <2>2. Idles
    BY <2>1 DEF Idles
  <2> QED BY <1>0, <2>2, CoordinatorGenerations, CoordinatorOrder, CoordinatorKeeps
             DEF CoordinatorMove
<1> QED
  BY <1>1, <1>2, <1>3 DEF Next

\* A stateful transform can tell its generations apart and relies on its lane in
\* each: no worker works for an ended generation, and each receives its own batches
\* in order (try_submit, run_generation, quiesce_inner, shutdown).
THEOREM LoaderLanesSound == Spec => []LanesSound
<1>1. SafeInv => GenerationsDisjoint
  <2> SUFFICES ASSUME SafeInv, NEW w \in W
               PROVE  /\ AtWork(w) => wk[w].gen = gen
                      /\ control[w] \in {0, gen}
                      /\ cpc \in {"out", "gone"} => wk[w].pc \in {"absent", "idle"}
    BY DEF GenerationsDisjoint
  <2>1. cpc \in {"out", "gone"} => ~hasPool
    BY DEF SafeInv, TypeInv, CreditInv, AccountInv, HasPoolStates
  <2> QED BY <2>1 DEF SafeInv, GenInv, StoppedInv, Settled
<1>2. SafeInv => LaneHistory
  <2> SUFFICES ASSUME SafeInv, NEW w \in W, NEW i \in DOMAIN lane[w]
               PROVE  /\ lane[w][i].seq % Workers = w
                      /\ \A j \in 1 .. i - 1 : lane[w][j].gen = lane[w][i].gen => lane[w][j].seq < lane[w][i].seq
                      /\ lane[w][i].gen = wk[w].gen /\ wk[w].seq # None => wk[w].seq < lane[w][i].seq
    BY DEF LaneHistory
  <2>1. /\ lane[w][i].seq % Workers = w
        /\ \A j \in 1 .. i - 1 : lane[w][j].gen = lane[w][i].gen => lane[w][j].seq < lane[w][i].seq
    BY DEF SafeInv, OrderInv, LaneOrder, Lane
  <2>2. wk[w].seq # None => wk[w].gen = gen /\ BeforeLane(wk[w].seq, w)
    BY DEF SafeInv, OrderInv, WorkerOrder, GenInv, Holding, AtWork
  <2> QED BY <2>1, <2>2 DEF BeforeLane
<1> QED
  BY <1>1, <1>2, SafeInit, SafeNext, PTL DEF Spec, LanesSound

-----------------------------------------------------------------------------
\* Conservation

\* The five terms of Places
InLane(s) == {p \in W \X (1 .. Prefetch) :
                 p[2] <= Len(lane[p[1]]) /\ lane[p[1]][p[2]] = [gen |-> gen, seq |-> s]}
AtWorkers(s) == {w \in W : wk[w].gen = gen /\ wk[w].seq = s}
Sent(s) == {i \in DOMAIN results : /\ results[i].gen = gen /\ results[i].seq = s
                                   /\ results[i].kind = "batch"}
Yielded(s) == {i \in DOMAIN delivered : delivered[i] = s}

\* A set whose elements are all equal has at most one.
LEMMA AtMostOne ==
    ASSUME NEW S, IsFiniteSet(S), \A x, y \in S : x = y
    PROVE  Cardinality(S) \in {0, 1} /\ (Cardinality(S) = 0 <=> S = {})
<1>1. CASE S = {}
  BY <1>1, FS_EmptySet
<1>2. CASE S # {}
  <2>1. PICK x \in S : S = {x}
    BY <1>2
  <2> QED BY <2>1, FS_Singleton
<1> QED
  BY <1>1, <1>2

\* Every place a batch can be in holds it once, and no two of them do.
LEMMA OnePlace ==
    ASSUME SafeInv, NEW s \in Plan
    PROVE  /\ \A x, y \in InLane(s) : x = y
           /\ \A x, y \in AtWorkers(s) : x = y
           /\ \A x, y \in Sent(s) : x = y
           /\ \A x, y \in Yielded(s) : x = y
           /\ InLane(s) # {} => AtWorkers(s) = {} /\ Sent(s) = {} /\ s \notin Seen
           /\ AtWorkers(s) # {} => Sent(s) = {} /\ s \notin Seen
           /\ Sent(s) # {} => s \notin Seen
           /\ Yielded(s) # {} <=> s \in Range(delivered)
           /\ s \in completed => Yielded(s) = {}
<1> DEFINE v == Lane(s)
<1>0. /\ results \in Seq(Completion) /\ lane \in [W -> Seq(Task)] /\ s \in Nat /\ v \in W
      /\ delivered \in Seq(Plan) /\ s # None
  BY OrderTypes, ConstantFacts DEF SafeInv, TypeInv, CoordInv, None
<1>1. ASSUME NEW p \in InLane(s)
      PROVE  p[1] = v /\ p = <<v, p[2]>> /\ p[2] \in DOMAIN lane[v] /\ lane[v][p[2]].gen = gen
             /\ lane[v][p[2]].seq = s
  <2>1. p[1] \in W /\ p[2] \in 1 .. Prefetch /\ p = <<p[1], p[2]>>
        /\ p[2] <= Len(lane[p[1]]) /\ lane[p[1]][p[2]] = [gen |-> gen, seq |-> s]
    BY DEF InLane
  <2>2. p[2] \in DOMAIN lane[p[1]]
    BY <1>0, <2>1, PrefetchAssumption
  <2>3. Lane(s) = p[1]
    BY <2>1, <2>2 DEF SafeInv, OrderInv, LaneOrder
  <2> QED BY <2>1, <2>2, <2>3
<1>2. \A x, y \in InLane(s) : x = y
  <2> SUFFICES ASSUME NEW x \in InLane(s), NEW y \in InLane(s), x # y
               PROVE  FALSE
    OBVIOUS
  <2>1. x[2] # y[2] /\ x[2] \in DOMAIN lane[v] /\ y[2] \in DOMAIN lane[v]
    BY <1>1
  <2>2. x[2] \in 1 .. y[2] - 1 \/ y[2] \in 1 .. x[2] - 1
    BY <1>0, <2>1
  <2>3. lane[v][x[2]].gen = lane[v][y[2]].gen /\ lane[v][x[2]].seq = lane[v][y[2]].seq
        /\ lane[v][x[2]].seq = s
    BY <1>1
  <2>4. \A i, j \in DOMAIN lane[v] : j \in 1 .. i - 1 /\ lane[v][j].gen = lane[v][i].gen
            => lane[v][j].seq < lane[v][i].seq
    BY <1>0 DEF SafeInv, OrderInv, LaneOrder
  <2>5. lane[v][x[2]].seq < lane[v][y[2]].seq \/ lane[v][y[2]].seq < lane[v][x[2]].seq
    BY <2>1, <2>2, <2>3, <2>4
  <2> QED BY <1>0, <2>3, <2>5
<1>3. InLane(s) # {} => ~BeforeLane(s, v)
  BY <1>0, <1>1 DEF BeforeLane
<1>4. ASSUME NEW w \in AtWorkers(s)
      PROVE  w = v /\ BeforeLane(s, v) /\ ~BeforeWorker(s, v)
  BY <1>0 DEF AtWorkers, SafeInv, OrderInv, WorkerOrder, BeforeWorker
<1>5. ASSUME NEW i \in Sent(s)
      PROVE  i \in DOMAIN results /\ results[i].worker = v /\ BeforeWorker(s, v) /\ ~BeforeResults(s, v)
             /\ results[i].seq = s /\ results[i].kind = "batch"
  BY <1>0 DEF Sent, SafeInv, OrderInv, ResultOrder, BeforeResults
<1>6. \A x, y \in Sent(s) : x = y
  <2> SUFFICES ASSUME NEW x \in Sent(s), NEW y \in Sent(s), x # y
               PROVE  FALSE
    OBVIOUS
  <2>1. x \in 1 .. y - 1 \/ y \in 1 .. x - 1
    BY <1>0, <1>5
  <2>2. \A i, j \in DOMAIN results :
            j \in 1 .. i - 1 /\ results[i].kind = "batch" /\ results[j].kind = "batch"
              /\ results[j].worker = results[i].worker => results[j].seq < results[i].seq
    BY DEF SafeInv, OrderInv, ResultOrder
  <2>3. results[x].seq < results[y].seq \/ results[y].seq < results[x].seq
    BY <1>5, <2>1, <2>2
  <2> QED BY <1>0, <1>5, <2>3
<1>7. s \in Seen => BeforeResults(s, v)
  BY DEF SafeInv, OrderInv, SeenOrder
<1>8. /\ \A x, y \in Yielded(s) : x = y
      /\ Yielded(s) # {} <=> s \in Range(delivered)
      /\ s \in completed => Yielded(s) = {}
  BY <1>0 DEF Yielded, Range, SafeInv, OnceInv
<1>9. BeforeResults(s, v) => BeforeWorker(s, v) /\ BeforeLane(s, v)
  BY DEF BeforeResults, BeforeWorker
<1>10. BeforeWorker(s, v) => BeforeLane(s, v)
  BY DEF BeforeWorker
<1> QED
  BY <1>2, <1>3, <1>4, <1>5, <1>6, <1>7, <1>8, <1>9, <1>10

\* The sets of places are finite.
LEMMA PlacesFinite ==
    ASSUME SafeInv, NEW s \in Plan
    PROVE  /\ IsFiniteSet(InLane(s)) /\ IsFiniteSet(AtWorkers(s))
           /\ IsFiniteSet(Sent(s)) /\ IsFiniteSet(Yielded(s))
<1>1. IsFiniteSet(W) /\ IsFiniteSet(1 .. Prefetch)
  BY WorkersAssumption, PrefetchAssumption, FS_Interval DEF W
<1>2. IsFiniteSet(W \X (1 .. Prefetch))
  BY <1>1, FS_Product
<1>3. results \in Seq(Completion) /\ delivered \in Seq(Plan)
  BY OrderTypes DEF SafeInv, TypeInv, CoordInv
<1>4. IsFiniteSet(DOMAIN results) /\ IsFiniteSet(DOMAIN delivered)
  <2>1. DOMAIN results = 1 .. Len(results) /\ DOMAIN delivered = 1 .. Len(delivered)
        /\ Len(results) \in Int /\ Len(delivered) \in Int
    BY <1>3
  <2> QED BY <2>1, FS_Interval
<1> QED
  BY <1>1, <1>2, <1>4, FS_Subset DEF InLane, AtWorkers, Sent, Yielded

\* Every submitted batch is in exactly one place - lane, worker, results,
\* reassembly map or yielded - unless its worker gave the generation up: retries
\* of a full lane, cancellation and deadlines neither duplicate nor silently lose
\* a batch (try_submit, run_generation, next).
THEOREM LoaderConservesBatches == Spec => []BatchesConserved
<1>1. ASSUME SafeInv, Iterating, NEW s \in Plan
      PROVE  IF s >= nextSub THEN Places(s) = 0
             ELSE /\ Places(s) <= 1
                  /\ Places(s) = 0 => ~InGeneration(Lane(s))
  <2>0. /\ results \in Seq(Completion) /\ lane \in [W -> Seq(Task)] /\ s \in Nat /\ Lane(s) \in W
        /\ nextSub \in Nat /\ hasPool
    BY <1>1, OrderTypes, ConstantFacts DEF SafeInv, Iterating
  <2> DEFINE a == Cardinality(InLane(s))
             b == Cardinality(AtWorkers(s))
             c == Cardinality(Sent(s))
             d == IF s \in completed THEN 1 ELSE 0
             e == Cardinality(Yielded(s))
  <2>1. Places(s) = a + b + c + d + e
    BY DEF Places, InLane, AtWorkers, Sent, Yielded
  <2>2. /\ a \in {0, 1} /\ (a = 0 <=> InLane(s) = {})
        /\ b \in {0, 1} /\ (b = 0 <=> AtWorkers(s) = {})
        /\ c \in {0, 1} /\ (c = 0 <=> Sent(s) = {})
        /\ e \in {0, 1} /\ (e = 0 <=> Yielded(s) = {})
    BY <1>1, OnePlace, PlacesFinite, AtMostOne
  <2>3. d \in {0, 1} /\ (d = 1 <=> s \in completed)
    OBVIOUS
  <2>4. /\ a = 1 => b = 0 /\ c = 0 /\ d = 0 /\ e = 0
        /\ b = 1 => c = 0 /\ d = 0 /\ e = 0
        /\ c = 1 => d = 0 /\ e = 0
        /\ d = 1 => e = 0
    BY <1>1, <2>2, <2>3, OnePlace DEF Seen
  <2> HIDE DEF a, b, c, d, e
  <2>5. Places(s) \in {0, 1} /\ (Places(s) = 0 <=> a = 0 /\ b = 0 /\ c = 0 /\ d = 0 /\ e = 0)
    BY <2>1, <2>2, <2>3, <2>4
  <2>6. CASE s >= nextSub
    <3>1. InLane(s) = {}
      <4> SUFFICES ASSUME NEW p \in InLane(s) PROVE FALSE
        OBVIOUS
      <4>1. p[1] \in W /\ p[2] \in DOMAIN lane[p[1]] /\ lane[p[1]][p[2]] = [gen |-> gen, seq |-> s]
        BY <2>0, PrefetchAssumption DEF InLane
      <4> QED BY <1>1, <2>0, <2>6, <4>1 DEF SafeInv, OrderInv, LaneOrder
    <3>2. AtWorkers(s) = {}
      BY <1>1, <2>0, <2>6 DEF AtWorkers, SafeInv, OrderInv, WorkerOrder, None
    <3>3. Sent(s) = {}
      BY <1>1, <2>0, <2>6 DEF Sent, SafeInv, OrderInv, ResultOrder
    <3>4. s \notin Seen
      BY <1>1, <2>0, <2>6 DEF SafeInv, OrderInv, SeenOrder
    <3>5. Yielded(s) = {} /\ s \notin completed
      BY <1>1, <3>4, OnePlace DEF Seen
    <3> QED BY <2>2, <2>3, <2>5, <2>6, <3>1, <3>2, <3>3, <3>5
  <2>7. CASE ~(s >= nextSub)
    <3>1. ASSUME InGeneration(Lane(s)) PROVE Places(s) # 0
      <4>0. Somewhere(s, Lane(s))
        BY <1>1, <2>0, <2>7, <3>1 DEF SafeInv, KeptInv
      <4>1. CASE s \in Seen
        BY <1>1, <2>2, <2>3, <2>5, <4>1, OnePlace DEF Seen
      <4>2. CASE \E i \in DOMAIN results : results[i].kind = "batch" /\ results[i].seq = s
        BY <1>1, <2>2, <2>5, <4>2 DEF Sent, SafeInv, StoppedInv
      <4>3. CASE wk[Lane(s)].seq = s
        <5>1. wk[Lane(s)].gen = gen
          BY <1>1, <2>0, <4>3 DEF SafeInv, GenInv, Holding, AtWork, None
        <5> QED BY <2>0, <2>2, <2>5, <4>3, <5>1 DEF AtWorkers
      <4>4. CASE \E i \in DOMAIN lane[Lane(s)] : lane[Lane(s)][i] = [gen |-> gen, seq |-> s]
        <5>1. PICK i \in DOMAIN lane[Lane(s)] : lane[Lane(s)][i] = [gen |-> gen, seq |-> s]
          BY <4>4
        <5>2. Len(lane[Lane(s)]) <= mode.prefetch /\ mode.prefetch \in 1 .. Prefetch
          BY <1>1, <2>0, ModesAssumption
             DEF SafeInv, TypeInv, CreditInv, CoordInv, PoolInv, LanesOK, ModeType
        <5>3. i \in 1 .. Prefetch /\ i <= Len(lane[Lane(s)])
          BY <2>0, <5>2, PrefetchAssumption
        <5>4. <<Lane(s), i>> \in InLane(s)
          BY <2>0, <5>1, <5>3 DEF InLane
        <5> QED BY <2>2, <2>5, <5>4
      <4> QED BY <4>0, <4>1, <4>2, <4>3, <4>4 DEF Somewhere
    <3> QED BY <2>5, <2>7, <3>1
  <2> QED BY <2>6, <2>7
<1>2. SafeInv => BatchesConserved
  BY <1>1 DEF BatchesConserved
<1> QED
  BY <1>2, SafeInit, SafeNext, PTL DEF Spec

-----------------------------------------------------------------------------
\* Permits

Sending == {w \in W : wk[w].pc = "send"}
Batched(q) == {i \in DOMAIN q : q[i].kind = "batch"}

\* The batches that hold a permit
Held == Cardinality(Sending) + Cardinality(completed) + Cardinality(Batched(results))

\* How many batches a channel holds when a message is sent or received.
LEMMA QueueCounts ==
    ASSUME NEW q \in Seq(Completion)
    PROVE  /\ IsFiniteSet(Batched(q)) /\ Cardinality(Batched(q)) \in Nat
           /\ q = <<>> => Cardinality(Batched(q)) = 0
           /\ \A m : Cardinality(Batched(Append(q, m)))
                       = Cardinality(Batched(q)) + (IF m.kind = "batch" THEN 1 ELSE 0)
           /\ q # <<>> => Cardinality(Batched(Tail(q)))
                            = Cardinality(Batched(q)) - (IF Head(q).kind = "batch" THEN 1 ELSE 0)
<1>1. \A p \in Seq(Completion) : IsFiniteSet(Batched(p)) /\ Cardinality(Batched(p)) \in Nat
  <2> TAKE p \in Seq(Completion)
  <2>1. IsFiniteSet(1 .. Len(p)) /\ Batched(p) \in SUBSET (1 .. Len(p))
    BY FS_Interval DEF Batched
  <2> QED BY <2>1, FS_Subset, FS_CardinalityType
<1>2. ASSUME q = <<>> PROVE Cardinality(Batched(q)) = 0
  <2>1. Batched(q) = {} BY <1>2 DEF Batched
  <2> QED BY <2>1, FS_EmptySet
<1>3. ASSUME NEW m
      PROVE  Cardinality(Batched(Append(q, m)))
               = Cardinality(Batched(q)) + (IF m.kind = "batch" THEN 1 ELSE 0)
  <2>1. Batched(Append(q, m)) = IF m.kind = "batch" THEN Batched(q) \cup {Len(q) + 1} ELSE Batched(q)
    <3>1. /\ DOMAIN Append(q, m) = DOMAIN q \cup {Len(q) + 1}
          /\ \A i \in DOMAIN q : Append(q, m)[i] = q[i]
          /\ Append(q, m)[Len(q) + 1] = m
      OBVIOUS
    <3> QED BY <3>1 DEF Batched
  <2>2. Len(q) + 1 \notin Batched(q)
    BY DEF Batched
  <2>3. Cardinality(Batched(q) \cup {Len(q) + 1}) = Cardinality(Batched(q)) + 1
    BY <1>1, <2>2, FS_AddElement
  <2>4. CASE m.kind = "batch"
    BY <2>1, <2>3, <2>4
  <2>5. CASE m.kind # "batch"
    BY <1>1, <2>1, <2>5
  <2> QED BY <2>4, <2>5
<1>4. ASSUME q # <<>>
      PROVE  Cardinality(Batched(Tail(q)))
               = Cardinality(Batched(q)) - (IF Head(q).kind = "batch" THEN 1 ELSE 0)
  <2> DEFINE f == [i \in Batched(Tail(q)) |-> i + 1]
             T == Batched(q) \ {1}
  <2>0. Tail(q) \in Seq(Completion) /\ Head(q) = q[1] /\ 1 \in DOMAIN q
    BY <1>4
  <2>1. f \in Bijection(Batched(Tail(q)), T)
    <3>1. \A i \in Batched(Tail(q)) : i \in Nat /\ i + 1 \in T
      BY <1>4, TailEntries DEF Batched
    <3>2. \A j \in T : \E i \in Batched(Tail(q)) : j = i + 1
      <4> TAKE j \in T
      <4>1. j - 1 \in Batched(Tail(q)) /\ j = (j - 1) + 1
        BY <1>4, TailEntries DEF Batched
      <4> QED BY <4>1
    <3>3. f \in [Batched(Tail(q)) -> T]
      BY <3>1
    <3>5. \A i, j \in Batched(Tail(q)) : f[i] = f[j] => i = j
      <4>1. \A i, j \in Nat : i + 1 = j + 1 => i = j
        OBVIOUS
      <4>2. \A i \in Batched(Tail(q)) : f[i] = i + 1
        OBVIOUS
      <4> QED BY <3>1, <4>1, <4>2
    <3>4. \A j \in T : \E i \in Batched(Tail(q)) : f[i] = j
      BY <3>2
    <3> HIDE DEF f, T
    <3> QED BY <3>3, <3>4, <3>5 DEF Bijection, Injection, IsInjective, Surjection
  <2>2. ExistsBijection(Batched(Tail(q)), T)
    BY <2>1 DEF ExistsBijection
  <2>3. Cardinality(T) = Cardinality(Batched(Tail(q)))
    BY <1>1, <2>0, <2>2, FS_Bijection
  <2>4. Cardinality(T) = Cardinality(Batched(q)) - (IF Head(q).kind = "batch" THEN 1 ELSE 0)
    <3>1. 1 \in Batched(q) <=> Head(q).kind = "batch"
      BY <2>0 DEF Batched
    <3>2. CASE 1 \in Batched(q)
      <4>1. Cardinality(T) = Cardinality(Batched(q)) - 1
        BY <1>1, <3>2, FS_RemoveElement
      <4> HIDE DEF T
      <4> QED BY <3>1, <3>2, <4>1
    <3>3. CASE 1 \notin Batched(q)
      <4>1. T = Batched(q) /\ Cardinality(Batched(q)) \in Nat
        BY <1>1, <3>3
      <4> HIDE DEF T
      <4> QED BY <3>1, <3>3, <4>1
    <3> QED BY <3>2, <3>3
  <2> QED BY <2>3, <2>4
<1> QED
  BY <1>1, <1>2, <1>3, <1>4

\* The budget counts the batches that hold a permit
PermitsInv == used = Weight * Held

\* The sizes of the sets that are counted.
LEMMA HeldTypes ==
    ASSUME TypeInv
    PROVE  /\ Weight \in {0, 1} /\ (Weight = 1 <=> mode.limit > 0) /\ used \in Int
           /\ IsFiniteSet(Sending) /\ Cardinality(Sending) \in Nat
           /\ IsFiniteSet(completed) /\ Cardinality(completed) \in Nat
           /\ results \in Seq(Completion) /\ Cardinality(Batched(results)) \in Nat
<1>1. IsFiniteSet(W) /\ IsFiniteSet(Plan)
  BY WorkersAssumption, BatchesAssumption, FS_Interval DEF W, Plan
<1>2. IsFiniteSet(Sending) /\ IsFiniteSet(completed)
  BY <1>1, FS_Subset DEF Sending, TypeInv, CoordInv
<1>3. results \in Seq(Completion)
  BY OrderTypes
<1> QED
  BY <1>2, <1>3, FS_CardinalityType, QueueCounts DEF Weight, TypeInv, PoolInv

\* The invariant is that the two sides of the account are equal.
LEMMA PermitsForm == TypeInv => (PermitsInv <=> PermitsExact)
<1> SUFFICES ASSUME TypeInv PROVE PermitsInv <=> PermitsExact
  OBVIOUS
<1> DEFINE a == Cardinality(Sending)
           b == Cardinality(completed)
           c == Cardinality(Batched(results))
<1>1. Weight \in {0, 1} /\ a \in Nat /\ b \in Nat /\ c \in Nat
  BY HeldTypes
<1>2. PermitsExact <=> used = Weight * (a + b) + Weight * c
  BY DEF PermitsExact, PermitsIn, Sending, Batched
<1>3. PermitsInv <=> used = Weight * (a + b + c)
  BY DEF PermitsInv, Held
<1> HIDE DEF a, b, c
<1>4. Weight * (a + b) + Weight * c = Weight * (a + b + c)
  <2>1. CASE Weight = 0
    BY <1>1, <2>1
  <2>2. CASE Weight = 1
    BY <1>1, <2>2
  <2> QED BY <1>1, <2>1, <2>2
<1> QED
  BY <1>2, <1>3, <1>4

\* A step that counts as many more bytes as batches keeps the account.
LEMMA AccountMoves ==
    ASSUME TypeInv, PermitsInv, mode' = mode, used' \in Int, Held' \in Int,
           Weight = 0 => used' = used, Weight = 1 => used' - used = Held' - Held
    PROVE  PermitsInv'
<1>1. Weight' = Weight /\ Weight \in {0, 1} /\ used \in Int /\ Held \in Int
  BY HeldTypes DEF Weight, Held
<1>2. Held' \in Int /\ used' \in Int
  OBVIOUS
<1>3. \A x \in {0, 1}, n \in Int : x * n = IF x = 0 THEN 0 ELSE n
  OBVIOUS
<1>4. used = IF Weight = 0 THEN 0 ELSE Held
  BY <1>1, <1>3 DEF PermitsInv
<1>5. Weight' * Held' = IF Weight = 0 THEN 0 ELSE Held'
  BY <1>1, <1>2, <1>3
<1>6. used' = IF Weight = 0 THEN 0 ELSE Held'
  <2>1. CASE Weight = 0
    BY <1>4, <2>1
  <2>2. CASE Weight = 1
    BY <1>1, <1>2, <1>4, <2>2
  <2> QED BY <1>1, <2>1, <2>2
<1> QED
  BY <1>5, <1>6 DEF PermitsInv

\* How many workers send when worker w moves.
LEMMA SendingCounts ==
    ASSUME TypeInv, NEW w \in W, \A v \in W : v # w => wk'[v] = wk[v]
    PROVE  /\ (wk'[w].pc = "send" <=> wk[w].pc = "send") => Cardinality(Sending') = Cardinality(Sending)
           /\ wk'[w].pc = "send" /\ wk[w].pc # "send" => Cardinality(Sending') = Cardinality(Sending) + 1
           /\ wk'[w].pc # "send" /\ wk[w].pc = "send" => Cardinality(Sending') = Cardinality(Sending) - 1
<1>1. (wk'[w].pc = "send" <=> wk[w].pc = "send") => Sending' = Sending
  BY DEF Sending
<1>2. wk'[w].pc = "send" /\ wk[w].pc # "send" => Sending' = Sending \cup {w} /\ w \notin Sending
  BY DEF Sending
<1>3. wk'[w].pc # "send" /\ wk[w].pc = "send" => Sending' = Sending \ {w} /\ w \in Sending
  BY DEF Sending
<1> QED
  BY <1>1, <1>2, <1>3, HeldTypes, FS_AddElement, FS_RemoveElement

\* A worker's step counts the permit it acquires, drops or passes on.
LEMMA WorkerPermits ==
    ASSUME TypeInv, GenInv, PermitsInv, NEW w \in W, WorkerStep(w) \/ WorkerFault(w)
    PROVE  PermitsInv'
<1> DEFINE a == Cardinality(Sending)
           b == Cardinality(completed)
           c == Cardinality(Batched(results))
           NoBatch == results' = results \/ \E m : results' = Append(results, m) /\ m.kind # "batch"
<1>0. /\ \A v \in W : v # w => wk'[v] = wk[v]
      /\ mode' = mode /\ completed' = completed
      /\ wk \in [W -> WorkerType]
      /\ wk[w].pc = "die" => wk[w].kind \in {"init", "panic"}
  BY WorkerMoves DEF Alone, workerFrame, iterVars, TypeInv, PoolInv, WorkersOK, WorkerType
<1>1. /\ Weight \in {0, 1} /\ (Weight = 1 <=> mode.limit > 0) /\ used \in Int
      /\ a \in Nat /\ b \in Nat /\ c \in Nat /\ results \in Seq(Completion)
      /\ Held = a + b + c /\ Held' = Cardinality(Sending') + b + Cardinality(Batched(results'))
  BY <1>0, HeldTypes DEF Held
<1>2. NoBatch => Cardinality(Batched(results')) = c
  <2>1. ASSUME NEW m, results' = Append(results, m), m.kind # "batch"
        PROVE  Cardinality(Batched(results')) = c
    BY <1>1, <2>1, QueueCounts
  <2> QED BY <2>1
<1>3. /\ (wk'[w].pc = "send" <=> wk[w].pc = "send") => Cardinality(Sending') = a
      /\ wk'[w].pc = "send" /\ wk[w].pc # "send" => Cardinality(Sending') = a + 1
      /\ wk'[w].pc # "send" /\ wk[w].pc = "send" => Cardinality(Sending') = a - 1
  BY <1>0, SendingCounts
<1> HIDE DEF a, b, c
<1>4. CASE used' = used /\ NoBatch /\ (wk'[w].pc = "send" <=> wk[w].pc = "send")
  <2>1. Held' = Held /\ Held \in Int /\ used' = used
    BY <1>1, <1>2, <1>3, <1>4
  <2> QED BY <1>0, <1>1, <2>1, AccountMoves
<1>5. CASE /\ wk'[w].pc = "send" /\ wk[w].pc # "send" /\ NoBatch
           /\ used' = used + Weight
  <2>1. Held' - Held = 1 /\ Held' \in Int
    BY <1>1, <1>2, <1>3, <1>5
  <2>2. used' \in Int /\ (Weight = 0 => used' = used) /\ (Weight = 1 => used' - used = 1)
    BY <1>1, <1>5
  <2> QED BY <1>0, <2>1, <2>2, AccountMoves
<1>6. CASE /\ wk'[w].pc # "send" /\ wk[w].pc = "send" /\ NoBatch
           /\ used' = used - Weight
  <2>1. Held' - Held = -1 /\ Held' \in Int
    BY <1>1, <1>2, <1>3, <1>6
  <2>2. used' \in Int /\ (Weight = 0 => used' = used) /\ (Weight = 1 => used' - used = -1)
    BY <1>1, <1>6
  <2> QED BY <1>0, <2>1, <2>2, AccountMoves
<1>7. CASE WSend(w)
  <2>1. /\ wk[w].pc = "send" /\ wk'[w].pc = "poll" /\ used' = used
        /\ results' = Append(results, Message(w, wk[w].gen, wk[w].seq, "batch"))
    BY <1>0, <1>7 DEF WSend, budgetVars, WorkerType
  <2>2. Cardinality(Batched(results')) = c + 1
    BY <1>1, <2>1, QueueCounts DEF Message, c
  <2>3. Held' = Held /\ Held \in Int
    BY <1>1, <1>3, <2>1, <2>2
  <2> QED BY <1>0, <1>1, <2>1, <2>3, AccountMoves
<1>8. CASE WReport(w) \/ WQuiesced(w) \/ WDie(w)
  <2>1. /\ wk[w].pc # "send" /\ wk'[w].pc # "send" /\ used' = used
        /\ \E k \in MessageKinds : /\ results' = Append(results, Message(w, wk'[w].gen, wk[w].seq, k))
                                                \/ results' = Append(results, Message(w, wk'[w].gen, None, k))
                                   /\ k # "batch"
    BY <1>0, <1>8 DEF WReport, WQuiesced, WDie, Goto, budgetVars, WorkerType, MessageKinds
  <2>2. NoBatch
    BY <2>1 DEF Message
  <2> QED BY <1>4, <2>1, <2>2
<1>9. CASE WAcquire(w)
  <2>1. /\ wk'[w].pc = "send" /\ wk[w].pc # "send" /\ results' = results /\ used' = used + Weight
    BY <1>0, <1>9 DEF WAcquire, Goto, WorkerType
  <2> QED BY <1>5, <2>1
<1>10. CASE WSendCancelled(w) \/ WExit(w)
  <2>1. /\ wk'[w].pc # "send" /\ results' = results
        /\ used' = used - (IF wk[w].pc = "send" THEN Weight ELSE 0)
    BY <1>0, <1>10 DEF WSendCancelled, WExit, UsedAfterDrop, WorkerType
  <2>2. CASE wk[w].pc = "send"
    BY <1>6, <2>1, <2>2
  <2>3. CASE wk[w].pc # "send"
    <3>1. used' = used
      BY <1>1, <2>1, <2>3
    <3> QED BY <1>4, <2>1, <2>3, <3>1
  <2> QED BY <2>2, <2>3
<1>11. CASE WFinish(w)
  <2>1. /\ wk[w].pc = "work" /\ results' = results /\ used' = used
        /\ wk'[w].pc = "send" => ~(mode.limit > 0)
    BY <1>0, <1>11 DEF WFinish, Goto, budgetVars, WorkerType
  <2>2. CASE wk'[w].pc = "send"
    <3>1. used' = used + Weight
      BY <1>1, <2>1, <2>2
    <3> QED BY <1>5, <2>1, <2>2, <3>1
  <2>3. CASE wk'[w].pc # "send"
    BY <1>4, <2>1, <2>3
  <2> QED BY <2>2, <2>3
<1>12. CASE WInit(w) \/ WInitFails(w) \/ WBegin(w) \/ WTake(w) \/ WQuit(w) \/ WAcquireCancelled(w)
              \/ WCloseBudget(w) \/ WCancelGeneration(w) \/ WDrain(w)
              \/ WFail(w) \/ WPanic(w) \/ WUserCancel(w) \/ WOversize(w)
  <2>1. used' = used /\ results' = results /\ wk[w].pc # "send" /\ wk'[w].pc # "send"
    BY <1>0, <1>12 DEF WInit, WInitFails, WBegin, WTake, WQuit, WAcquireCancelled, WCloseBudget,
       WCancelGeneration, WDrain, WFail, WPanic, WUserCancel, WOversize, Goto, budgetVars, WorkerType
  <2> QED BY <1>4, <2>1
<1> QED
  BY <1>7, <1>8, <1>9, <1>10, <1>11, <1>12 DEF WorkerStep, WorkerFault

\* The steps that stop an iterator drop the permits of its reassembly map.
LEMMA StopPermits ==
    ASSUME TypeInv, PermitsInv, UNCHANGED <<mode, wk>>, completed' = {}, used' = UsedAfterStop,
           \/ results' = results
           \/ results # <<>> /\ results' = Tail(results) /\ Head(results).kind # "batch"
    PROVE  PermitsInv'
<1> DEFINE b == Cardinality(completed)
           c == Cardinality(Batched(results))
<1>0. Weight \in {0, 1} /\ b \in Nat /\ c \in Nat /\ used \in Int /\ results \in Seq(Completion)
      /\ Cardinality(Sending) \in Nat
  BY HeldTypes
<1>1. Sending' = Sending /\ Cardinality(completed') = 0
  BY FS_EmptySet DEF Sending
<1>2. Cardinality(Batched(results')) = c
  <2>1. CASE results # <<>> /\ results' = Tail(results) /\ Head(results).kind # "batch"
    <3>1. Cardinality(Batched(Tail(results))) = c - 0
      BY <1>0, <2>1, QueueCounts
    <3> QED BY <1>0, <2>1, <3>1
  <2> QED BY <2>1
<1>3. Held = Cardinality(Sending) + b + c /\ Held' = Cardinality(Sending) + 0 + c
  BY <1>1, <1>2 DEF Held
<1>4. used' = used - Weight * b
  BY DEF UsedAfterStop
<1> HIDE DEF b, c
<1>5. Held' - Held = -b /\ Held' \in Int
  BY <1>0, <1>3
<1>6. used' \in Int /\ (Weight = 0 => used' = used) /\ (Weight = 1 => used' - used = -b)
  <2>1. CASE Weight = 0
    BY <1>0, <1>4, <2>1
  <2>2. CASE Weight = 1
    BY <1>0, <1>4, <2>2
  <2> QED BY <1>0, <2>1, <2>2
<1> QED
  BY <1>5, <1>6, AccountMoves

\* Publishing drops the permit of the batch, or of all that were kept.
LEMMA PublishPermits ==
    ASSUME TypeInv, PermitsInv, NEW s \in Plan, NEW q, Publish(s, q), UNCHANGED <<mode, wk>>,
           \/ s \in completed /\ q = results
           \/ /\ s \notin completed /\ results # <<>> /\ q = Tail(results)
              /\ Head(results).kind = "batch"
    PROVE  PermitsInv'
<1> DEFINE a == Cardinality(Sending)
           b == Cardinality(completed)
           c == Cardinality(Batched(results))
           d == Cardinality(Batched(q))
           e == Cardinality(completed \cup {s})
           f == Cardinality(completed \ {s})
<1>0. Weight \in {0, 1} /\ a \in Nat /\ b \in Nat /\ c \in Nat /\ used \in Int
      /\ results \in Seq(Completion)
  BY HeldTypes
<1>1. Sending' = Sending /\ results' = q
  BY DEF Sending, Publish
<1>2. e \in Nat /\ f \in Nat /\ d \in Int /\ d + e = c + b /\ f + d = b + c - 1
  <2>1. CASE s \in completed /\ q = results
    <3>1. e = b /\ f = b - 1 /\ d = c
      BY <2>1, HeldTypes, FS_AddElement, FS_RemoveElement
    <3>2. f \in Nat
      BY HeldTypes, FS_RemoveElement, FS_CardinalityType
    <3> HIDE DEF a, b, c, d, e, f
    <3> QED BY <1>0, <3>1, <3>2
  <2>2. CASE s \notin completed /\ results # <<>> /\ q = Tail(results) /\ Head(results).kind = "batch"
    <3>1. e = b + 1 /\ f = b
      BY <2>2, HeldTypes, FS_AddElement, FS_RemoveElement
    <3>2. d = c - 1
      BY <1>0, <2>2, QueueCounts
    <3> HIDE DEF a, b, c, d, e, f
    <3> QED BY <1>0, <3>1, <3>2
  <2> QED BY <2>1, <2>2
<1>3. Held = a + b + c /\ Held' = a + Cardinality(completed') + d
  BY <1>1 DEF Held
<1>4. CASE completed' = completed \ {s} /\ used' = used - Weight
  <2>1. Cardinality(completed') = f
    BY <1>4
  <2> HIDE DEF a, b, c, d, e, f
  <2>2. Held' - Held = -1 /\ Held' \in Int
    BY <1>0, <1>2, <1>3, <2>1
  <2>3. used' \in Int /\ (Weight = 0 => used' = used) /\ (Weight = 1 => used' - used = -1)
    BY <1>0, <1>4
  <2> QED BY <2>2, <2>3, AccountMoves
<1>5. CASE completed' = {} /\ used' = used - Weight * e
  <2>1. Cardinality(completed') = 0
    BY <1>5, FS_EmptySet
  <2> HIDE DEF a, b, c, d, e, f
  <2>2. Held' - Held = -e /\ Held' \in Int
    BY <1>0, <1>2, <1>3, <2>1
  <2>3. used' \in Int /\ (Weight = 0 => used' = used) /\ (Weight = 1 => used' - used = -e)
    <3>1. CASE Weight = 0
      BY <1>0, <1>2, <1>5, <3>1
    <3>2. CASE Weight = 1
      BY <1>0, <1>2, <1>5, <3>2
    <3> QED BY <1>0, <3>1, <3>2
  <2> QED BY <2>2, <2>3, AccountMoves
<1> QED
  BY <1>4, <1>5 DEF Publish, Finish, Stop

\* Skipping a message keeps its permit in the reassembly map, dropping it returns it.
LEMMA SkipPermits ==
    ASSUME TypeInv, OrderInv, StoppedInv, PermitsInv, RecvKeepsWaiting \/ QuiesceReceive
    PROVE  PermitsInv'
<1> DEFINE a == Cardinality(Sending)
           b == Cardinality(completed)
           c == Cardinality(Batched(results))
           k == IF Head(results).kind = "batch" THEN 1 ELSE 0
<1>0. Weight \in {0, 1} /\ a \in Nat /\ b \in Nat /\ c \in Nat /\ used \in Int
      /\ results \in Seq(Completion) /\ results # <<>> /\ IsFiniteSet(completed)
  BY HeldTypes DEF RecvKeepsWaiting, QuiesceReceive
<1>1. Sending' = Sending /\ mode' = mode /\ results' = Tail(results)
  BY DEF Sending, RecvKeepsWaiting, QuiesceReceive, nextFrame
<1>2. Cardinality(Batched(results')) = c - k
  BY <1>0, <1>1, QueueCounts
<1>3. Held = a + b + c /\ Held' = a + Cardinality(completed') + Cardinality(Batched(results'))
  BY <1>1 DEF Held
<1>4. CASE RecvKeepsWaiting
  <2>1. used' = used
    <3>1. Head(results).gen = gen
      BY <1>0 DEF StoppedInv
    <3> QED BY <1>4, <3>1 DEF RecvKeepsWaiting, Current, Received
  <2>2. Cardinality(completed') = b + k
    <3>1. CASE Head(results).kind = "batch"
      <4>1. completed' = completed \cup {Head(results).seq}
        BY <1>0, <1>4, <3>1 DEF RecvKeepsWaiting, Current, Received, KeptAhead, StoppedInv
      <4>2. Head(results).seq \notin completed
        BY <1>0, <3>1, FreshHead DEF Seen
      <4> QED BY <1>0, <3>1, <4>1, <4>2, FS_AddElement
    <3>2. CASE Head(results).kind # "batch"
      <4>1. completed' = completed
        BY <1>4, <3>2 DEF RecvKeepsWaiting, Received
      <4> QED BY <1>0, <3>2, <4>1
    <3> QED BY <3>1, <3>2
  <2> HIDE DEF a, b, c
  <2>3. Held' = Held /\ Held \in Int
    BY <1>0, <1>2, <1>3, <2>2
  <2> QED BY <1>0, <1>1, <2>1, <2>3, AccountMoves
<1>5. CASE QuiesceReceive
  <2>1. completed' = completed /\ used' = used - PermitsIn(<<Head(results)>>)
    BY <1>5 DEF QuiesceReceive, iterVars
  <2>2. PermitsIn(<<Head(results)>>) = Weight * k
    <3>1. Head(results) \in Completion
      BY <1>0
    <3>2. <<>> \in Seq(Completion) /\ Append(<<>>, Head(results)) = <<Head(results)>>
      BY <3>1
    <3>3. Cardinality(Batched(<<Head(results)>>)) = 0 + k
      BY <3>2, QueueCounts
    <3> QED BY <3>3 DEF PermitsIn, Batched
  <2>3. k \in {0, 1}
    OBVIOUS
  <2> HIDE DEF a, b, c, k
  <2>4. Held' - Held = -k /\ Held' \in Int
    BY <1>0, <1>2, <1>3, <2>1, <2>3 DEF b
  <2>5. used' \in Int /\ (Weight = 0 => used' = used) /\ (Weight = 1 => used' - used = -k)
    <3>1. CASE Weight = 0
      BY <1>0, <2>1, <2>2, <2>3, <3>1
    <3>2. CASE Weight = 1
      BY <1>0, <2>1, <2>2, <2>3, <3>2
    <3> QED BY <1>0, <3>1, <3>2
  <2> QED BY <1>1, <2>4, <2>5, AccountMoves
<1> QED
  BY <1>4, <1>5

\* What is left in the channels when nobody sends any more is dropped.
LEMMA DrainPermits ==
    ASSUME TypeInv, PermitsInv, QuiesceEnds \/ JoinEnds
    PROVE  PermitsInv'
<1> DEFINE a == Cardinality(Sending)
           b == Cardinality(completed)
           c == Cardinality(Batched(results))
<1>0. Weight \in {0, 1} /\ a \in Nat /\ b \in Nat /\ c \in Nat /\ used \in Int
  BY HeldTypes
<1>1. Sending' = Sending /\ mode' = mode /\ completed' = completed
  BY DEF Sending, QuiesceEnds, JoinEnds, NoWorker, iterVars
<1>2. Held = a + b + c /\ Held' = a + b + Cardinality(Batched(results'))
  BY <1>1 DEF Held
<1>3. CASE results' = <<>> /\ used' = used - PermitsIn(results)
  <2>1. Batched(results') = {}
    BY <1>3 DEF Batched
  <2>2. Cardinality(Batched(results')) = 0 /\ PermitsIn(results) = Weight * c
    BY <2>1, FS_EmptySet DEF PermitsIn, Batched
  <2> HIDE DEF a, b, c
  <2>3. Held' - Held = -c /\ Held' \in Int
    BY <1>0, <1>2, <2>2
  <2>4. used' \in Int /\ (Weight = 0 => used' = used) /\ (Weight = 1 => used' - used = -c)
    <3>1. CASE Weight = 0
      BY <1>0, <1>3, <2>2, <3>1
    <3>2. CASE Weight = 1
      BY <1>0, <1>3, <2>2, <3>2
    <3> QED BY <1>0, <3>1, <3>2
  <2> QED BY <1>1, <2>3, <2>4, AccountMoves
<1>4. CASE UNCHANGED <<results, used>>
  <2>1. Held' = Held
    BY <1>2, <1>4
  <2>2. Held \in Int
    BY <1>0, <1>2
  <2> QED BY <1>0, <1>1, <1>4, <2>1, <2>2, AccountMoves
<1> QED
  BY <1>3, <1>4 DEF QuiesceEnds, JoinEnds

\* A new generation has a new budget, and nothing to count.
LEMMA IterPermits ==
    ASSUME TypeInv, GenInv, StoppedInv, IterNewPool \/ IterReusePool \/ IterWithError
    PROVE  PermitsInv'
<1>0. cpc = "out" /\ ~hasPool
  BY DEF IterNewPool, IterReusePool, IterWithError, TypeInv, CreditInv, AccountInv, HasPoolStates
<1>1. results' = <<>> /\ completed' = {} /\ used' = 0 /\ mode' = mode
  BY <1>0 DEF IterNewPool, IterReusePool, IterWithError, FreshIterator, StoppedInv
<1>2. \A w \in W : wk'[w].pc # "send"
  BY <1>0 DEF IterNewPool, IterReusePool, IterWithError, StoppedInv, Settled, NoWorker
<1>3. Sending' = {} /\ Batched(results') = {}
  BY <1>1, <1>2 DEF Sending, Batched
<1>4. Held' = 0
  BY <1>1, <1>3, FS_EmptySet DEF Held
<1>5. Weight' \in {0, 1}
  BY <1>1, HeldTypes DEF Weight
<1>6. \A x \in {0, 1} : x * 0 = 0
  OBVIOUS
<1>7. Weight' * Held' = 0
  BY <1>4, <1>5, <1>6
<1> QED
  BY <1>1, <1>7 DEF PermitsInv

\* Every step keeps the account of the permits.
LEMMA PermitsNext == SafeInv /\ PermitsInv /\ [Next]_vars => PermitsInv'
<1> SUFFICES ASSUME SafeInv, PermitsInv, [Next]_vars
             PROVE  PermitsInv'
  OBVIOUS
<1> USE DEF SafeInv
<1>1. CASE UNCHANGED <<mode, wk, completed, results, used>>
  <2>1. Held' = Held /\ Weight' = Weight
    BY <1>1 DEF Held, Sending, Weight
  <2> QED BY <1>1, <2>1 DEF PermitsInv
<1>2. CASE FillDone \/ FillSourceEnds \/ FillClosed \/ FillCheck \/ SubmitFull \/ Submit
             \/ FillSourcePanics
  BY <1>1, <1>2 DEF FillDone, FillSourceEnds, FillClosed, FillCheck, SubmitFull, Submit,
     FillSourcePanics, fillFrame, iterVars, budgetVars
<1>3. CASE NextStarts \/ NextWaits \/ Expire \/ DropLoader \/ Done \/ UNCHANGED vars
  BY <1>1, <1>3 DEF NextStarts, NextWaits, Expire, DropLoader, Done, vars, nextFrame, iterVars,
     budgetVars
<1>4. CASE NextPendingError \/ NextEnds \/ RecvError \/ RecvFatal \/ RecvCancelled \/ RecvTimeout
  <2>1. /\ UNCHANGED <<mode, wk>> /\ completed' = {} /\ used' = UsedAfterStop
        /\ \/ results' = results
           \/ results # <<>> /\ results' = Tail(results) /\ Head(results).kind # "batch"
    BY <1>4 DEF NextPendingError, NextEnds, RecvError, RecvFatal, RecvCancelled, RecvTimeout,
       Finish, Stop, nextFrame, Receives, Received
  <2> QED BY <2>1, StopPermits
<1>5. CASE DropIter
  <2>1. CASE hasPool
    <3>1. /\ UNCHANGED <<mode, wk>> /\ completed' = {} /\ used' = UsedAfterStop
          /\ results' = results
      BY <1>5, <2>1 DEF DropIter, Stop, nextFrame
    <3> QED BY <3>1, StopPermits
  <2>2. CASE ~hasPool
    BY <1>1, <1>5, <2>2 DEF DropIter, nextFrame
  <2> QED BY <2>1, <2>2
<1>6. CASE NextFromCompleted
  <2>1. nextVis \in Plan /\ nextVis \in completed /\ Publish(nextVis, results) /\ UNCHANGED <<mode, wk>>
    BY <1>6 DEF NextFromCompleted, nextFrame, TypeInv, CoordInv
  <2> QED BY <2>1, PublishPermits
<1>7. CASE RecvBatch
  <2>1. /\ results # <<>> /\ Head(results).kind = "batch" /\ UNCHANGED <<mode, wk>>
        /\ Publish(Head(results).seq, Tail(results))
    BY <1>7 DEF RecvBatch, Receives, Received, nextFrame
  <2>2. Head(results).seq \in Plan
    BY <2>1, ResultsReceive DEF TypeInv, CoordInv, PoolInv, CreditInv, MessageOK
  <2>3. Head(results).seq \notin completed
    BY <2>1, FreshHead DEF Seen
  <2> QED BY <2>1, <2>2, <2>3, PublishPermits
<1> QED
  BY <1>2, <1>3, <1>4, <1>5, <1>6, <1>7, WorkerPermits, SkipPermits, DrainPermits, IterPermits
     DEF Next, CoordinatorStep, CallerStep

\* The permits counted by the generation's budget are those that travel with a
\* batch: publishing, cancelling and draining return every one (ByteBudget, publish,
\* stop_inner, quiesce_inner).
THEOREM LoaderPermitsExact == Spec => []PermitsExact
<1>1. Init => PermitsInv
  <2> SUFFICES ASSUME Init PROVE PermitsInv
    OBVIOUS
  <2>1. TypeInv
    BY TypeInit
  <2>2. results = <<>> /\ completed = {} /\ used = 0 /\ \A w \in W : wk[w].pc # "send"
    BY DEF Init, NoWorker
  <2>3. Sending = {} /\ Batched(results) = {}
    BY <2>2 DEF Sending, Batched
  <2>4. Held = 0
    <3>1. Cardinality(Sending) = 0 /\ Cardinality(completed) = 0 /\ Cardinality(Batched(results)) = 0
      BY <2>2, <2>3, FS_EmptySet
    <3> QED BY <3>1 DEF Held
  <2>5. Weight \in {0, 1} /\ \A x \in {0, 1} : x * 0 = 0
    BY <2>1, HeldTypes
  <2> QED BY <2>2, <2>4, <2>5 DEF PermitsInv
<1>2. SafeInv /\ PermitsInv => PermitsExact
  BY PermitsForm DEF SafeInv
<1> QED
  BY <1>1, <1>2, SafeInit, SafeNext, PermitsNext, PTL DEF Spec

-----------------------------------------------------------------------------
\* Refinement

\* An iterator that has nothing left to wait for has yielded its whole plan.
LEMMA AllYielded ==
    ASSUME TypeInv, OnceInv, hasPool, NothingToWaitFor
    PROVE  Range(delivered) = Plan
<1>1. /\ delivered \in Seq(Plan) /\ Len(delivered) = nextVis
      /\ \A i, j \in DOMAIN delivered : delivered[i] = delivered[j] => i = j
  BY DEF TypeInv, CoordInv, OnceInv
<1>2. nextVis = Batches
  <2>1. outstanding = 0 /\ srcDone /\ nextSub \in Nat /\ nextVis \in Nat /\ outstanding = nextSub - nextVis
    BY DEF NothingToWaitFor, TypeInv, CreditInv, CountersInv, AccountInv
  <2>2. drawn = Batches /\ ~pending /\ ~subClosed /\ cpc # "submit"
    BY <2>1 DEF TypeInv, CreditInv, AccountInv
  <2>3. drawn = nextSub + 0
    BY <2>2 DEF TypeInv, CreditInv, AccountInv
  <2> QED BY <2>1, <2>2, <2>3
<1> DEFINE S == 1 .. Batches
<1>3. delivered \in Injection(S, Plan)
  <2>1. delivered \in [S -> Plan] /\ DOMAIN delivered = S
    BY <1>1, <1>2
  <2> HIDE DEF S
  <2> QED BY <1>1, <2>1 DEF Injection, IsInjective
<1>4. IsFiniteSet(Plan) /\ Cardinality(Plan) = Cardinality(S)
  BY BatchesAssumption, FS_Interval DEF Plan
<1>5. delivered \in Surjection(S, Plan)
  BY <1>3, <1>4, FS_Injection
<1> QED
  BY <1>5 DEF Surjection, Range

\* Every step of the loader is a step of the delivery contract, or none.
LEMMA DeliveryStep ==
    ASSUME SafeInv, [Next]_vars
    PROVE  [Delivery!Next]_(Delivery!vars)
<1> DEFINE status == IF outcome \in {"open", "end"} THEN outcome ELSE "failed"
<1> USE DEF SafeInv
<1>1. CASE UNCHANGED <<mode, delivered, outcome>>
  BY <1>1 DEF Delivery!vars
<1>2. CASE Idles \/ Skips \/ Submit \/ QuiesceReceive \/ QuiesceEnds \/ JoinEnds \/ DropLoader
  BY <1>1, <1>2 DEF Idles, Skips, Submit, QuiesceReceive, QuiesceEnds, JoinEnds, DropLoader,
     fillFrame, nextFrame, batchFrame, historyVars
<1>3. CASE Stops
  <2>1. UNCHANGED <<mode, delivered>> /\ (hasPool => outcome = "open") /\ (~exhausted => outcome = "open")
    BY <1>3 DEF Stops, batchFrame, TypeInv, CreditInv, AccountInv, OnceInv
  <2>2. CASE UNCHANGED outcome
    BY <1>1, <2>1, <2>2
  <2>3. CASE outcome = "open" /\ outcome' \in {"timeout", "cancelled", "error"}
    <3>1. Delivery!Fail
      BY <2>1, <2>3 DEF Delivery!Fail
    <3> QED BY <3>1 DEF Delivery!Next
  <2>4. CASE outcome = "open" /\ outcome' = "end" /\ hasPool /\ NothingToWaitFor
    <3>1. Range(delivered) = Plan
      BY <2>4, AllYielded
    <3>2. Delivery!End
      BY <2>1, <2>4, <3>1 DEF Delivery!End, Delivery!Plan, Plan, Delivery!Range, Range
    <3> QED BY <3>2 DEF Delivery!Next
  <2> QED BY <1>3, <2>1, <2>2, <2>3, <2>4 DEF Stops
<1>4. ASSUME NEW s \in Plan, Yields(s)
      PROVE  Delivery!Next
  <2>1. UNCHANGED <<mode, outcome>> /\ delivered' = Append(delivered, s) /\ outcome = "open"
    BY <1>4 DEF Yields, batchFrame, TypeInv, CreditInv, AccountInv
  <2>2. s \notin Range(delivered)
    <3>1. s \in completed \/ s \notin Seen
      BY <1>4, FreshHead DEF Yields
    <3> QED BY <3>1 DEF OnceInv, Seen
  <2>3. mode.ordered => s = Len(delivered)
    BY <1>4 DEF Yields, OnceInv
  <2>4. Delivery!Yield(s)
    BY <2>1, <2>2, <2>3 DEF Delivery!Yield, Delivery!Range, Range
  <2> QED BY <2>4 DEF Delivery!Next, Delivery!Plan, Plan
<1>5. CASE IterNewPool \/ IterReusePool \/ IterWithError
  <2>1. delivered' = <<>> /\ outcome' = "open" /\ mode' = mode
    BY <1>5 DEF IterNewPool, IterReusePool, IterWithError, FreshIterator
  <2>2. Delivery!NewIterator
    BY <2>1 DEF Delivery!NewIterator
  <2> QED BY <2>2 DEF Delivery!Next
<1>6. CASE \E w \in W : WorkerStep(w) \/ WorkerFault(w)
  BY <1>1, <1>6, WorkerFrame DEF workerFrame, historyVars
<1>7. CASE Done \/ UNCHANGED vars
  BY <1>1, <1>7 DEF Done, vars, historyVars
<1> QED
  BY <1>2, <1>3, <1>4, <1>5, <1>6, <1>7, CoordinatorMoves DEF Next, CoordinatorMove

\* What the training loop sees is the abstract delivery contract: the batches of
\* the plan once each, in order when the loader is ordered, then None; or one error
\* and then None (Iterator::next, publish).
THEOREM LoaderImplementsDelivery == Spec => ImplementsDelivery
<1>1. Init => Delivery!Init
  <2> SUFFICES ASSUME Init PROVE Delivery!Init
    OBVIOUS
  <2>1. mode.ordered \in BOOLEAN
    BY ModesAssumption DEF Init, ModeType
  <2> QED BY <2>1 DEF Init, Delivery!Init
<1> QED
  BY <1>1, SafeInit, SafeNext, DeliveryStep, PTL DEF Spec, ImplementsDelivery, Delivery!Spec
=============================================================================
