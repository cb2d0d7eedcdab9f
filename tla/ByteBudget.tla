----------------------------- MODULE ByteBudget -----------------------------
(***************************************************************************)
(* The byte budget of one loader generation: a Mutex-protected counter and *)
(* one condition variable (crates/rusttorch-data/src/memory.rs).           *)
(*                                                                         *)
(* A request is the acquisition made for one batch sequence number.  The   *)
(* pool's workers issue them: sequence s belongs to worker s % Workers,    *)
(* which asks for s + Workers only after s was admitted.  A permit outlives*)
(* the call: it travels with the batch and is dropped by the coordinator.  *)
(*                                                                         *)
(* The mutex makes each critical section one step.  A call parks by        *)
(* releasing the mutex inside Condvar::wait; a notification or a spurious  *)
(* wake-up only makes it runnable, it re-reads the state in a later step.  *)
(***************************************************************************)
EXTENDS Naturals, FiniteSets, FiniteSetsExt

CONSTANTS
    Requests,   \* how many batches of the generation ask for bytes
    Workers,    \* workers of the pool
    Limit,      \* the configured number of bytes
    Sizes       \* the footprints a batch may have

ASSUME RequestsAssumption == Requests \in Nat
ASSUME WorkersAssumption == Workers \in Nat \ {0}
ASSUME LimitAssumption == Limit \in Nat
ASSUME SizesAssumption == Sizes \subseteq Nat

Seqs == 0 .. Requests - 1

VARIABLES
    ordered,    \* the loader's ordering: acquire_ordered or acquire
    bytes,      \* the footprint of each batch
    used, nextOrdered, waiters, cancelled,      \* struct BudgetState
    call        \* where the call for each sequence stands

vars == <<ordered, bytes, used, nextOrdered, waiters, cancelled, call>>

CallStates == {"none", "entered", "parked", "woken",
               "held", "released",
               "cancelled", "oversize", "duplicate"}

TypeOK ==
    /\ ordered \in BOOLEAN
    /\ bytes \in [Seqs -> Sizes]
    /\ used \in Nat
    /\ nextOrdered \in Nat
    /\ waiters \in Nat
    /\ cancelled \in BOOLEAN
    /\ call \in [Seqs -> CallStates]

Init ==
    /\ ordered \in BOOLEAN
    /\ bytes \in [Seqs -> Sizes]
    /\ used = 0
    /\ nextOrdered = 0
    /\ waiters = 0
    /\ cancelled = FALSE
    /\ call = [s \in Seqs |-> "none"]

-----------------------------------------------------------------------------
\* Condvar::notify_all on the calls parked in c
NotifyAll(c) == [s \in Seqs |-> IF c[s] = "parked" THEN "woken" ELSE c[s]]

SaturatingSub(a, b) == IF a >= b THEN a - b ELSE 0

\* Deliberate faults: each replaces the definition after it in a mutation run
Fault_OverGrant(s) == used < Limit
Fault_SkipTurn(s) == ordered => s >= nextOrdered
Fault_AlwaysDecrement(s) == waiters - 1
Fault_SilentAdmission(s) == [call EXCEPT ![s] = "held"]
Fault_SilentRelease(s) == [call EXCEPT ![s] = "released"]
Fault_LeakBytes(s) == used

\* The exits of acquire_inner's loop body
Oversize(s) == bytes[s] > Limit
Duplicate(s) == ordered /\ s < nextOrdered
Rejected(s) == cancelled \/ Oversize(s) \/ Duplicate(s)
SequenceReady(s) == ordered => s = nextOrdered
Fits(s) == bytes[s] <= Limit - used
Admissible(s) == SequenceReady(s) /\ Fits(s)

\* The error a rejected call returns: the code tests the three in this order
Rejection(s) ==
    CASE cancelled -> "cancelled"
      [] ~cancelled /\ Oversize(s) -> "oversize"
      [] OTHER -> "duplicate"

\* A call that is about to run the loop body with the mutex held
Running(s) == call[s] \in {"entered", "woken"}

\* A call that returns from Condvar::wait stops counting as a waiter
WaitersAfterWake(s) ==
    IF call[s] = "woken" THEN SaturatingSub(waiters, 1) ELSE waiters

\* The calls after an admission: only an ordered one notifies
CallsAfterAdmission(s) ==
    LET admitted == [call EXCEPT ![s] = "held"]
    IN  IF ordered THEN NotifyAll(admitted) ELSE admitted

\* What BytePermit::drop leaves behind
UsedAfterRelease(s) == SaturatingSub(used, bytes[s])
CallsAfterRelease(s) == NotifyAll([call EXCEPT ![s] = "released"])

\* The worker of s has the batch ready and calls acquire or acquire_ordered
Enter(s) ==
    /\ call[s] = "none"
    /\ s >= Workers => call[s - Workers] \in {"held", "released"}
    /\ call' = [call EXCEPT ![s] = "entered"]
    /\ UNCHANGED <<ordered, bytes, used, nextOrdered, waiters, cancelled>>

\* The loop body leaves with an error
Reject(s) ==
    /\ Running(s)
    /\ Rejected(s)
    /\ call' = [call EXCEPT ![s] = Rejection(s)]
    /\ waiters' = WaitersAfterWake(s)
    /\ UNCHANGED <<ordered, bytes, used, nextOrdered, cancelled>>

\* The loop body leaves with a permit
Admit(s) ==
    /\ Running(s)
    /\ ~Rejected(s)
    /\ Admissible(s)
    /\ used' = used + bytes[s]
    /\ nextOrdered' = IF ordered THEN nextOrdered + 1 ELSE nextOrdered
    /\ call' = CallsAfterAdmission(s)
    /\ waiters' = WaitersAfterWake(s)
    /\ UNCHANGED <<ordered, bytes, cancelled>>

\* The loop body notifies every parked call and parks itself
Park(s) ==
    /\ Running(s)
    /\ ~Rejected(s)
    /\ ~Admissible(s)
    /\ waiters' = WaitersAfterWake(s) + 1
    /\ call' = [NotifyAll(call) EXCEPT ![s] = "parked"]
    /\ UNCHANGED <<ordered, bytes, used, nextOrdered, cancelled>>

\* Condvar::wait may return without a notification
SpuriousWake(s) ==
    /\ call[s] = "parked"
    /\ call' = [call EXCEPT ![s] = "woken"]
    /\ UNCHANGED <<ordered, bytes, used, nextOrdered, waiters, cancelled>>

\* BytePermit::drop, when the coordinator publishes or discards the batch
Release(s) ==
    /\ call[s] = "held"
    /\ used' = UsedAfterRelease(s)
    /\ call' = CallsAfterRelease(s)
    /\ UNCHANGED <<ordered, bytes, nextOrdered, waiters, cancelled>>

\* ByteBudget::cancel
CloseBudget ==
    /\ cancelled' = TRUE
    /\ call' = NotifyAll(call)
    /\ UNCHANGED <<ordered, bytes, used, nextOrdered, waiters>>

\* The coordinator or a failing dataset callback cancels the generation
Cancel == ~cancelled /\ CloseBudget

\* A worker whose batch can never fit fails the generation
CancelOnError == ~cancelled /\ (\E s \in Seqs : call[s] = "oversize") /\ CloseBudget

Next ==
    \/ \E s \in Seqs :
          \/ Enter(s) \/ Reject(s) \/ Admit(s) \/ Park(s)
          \/ SpuriousWake(s) \/ Release(s)
    \/ Cancel
    \/ CancelOnError

Spec == Init /\ [][Next]_vars

\* Runnable calls get the mutex, published batches drop their permits, and a
\* worker that met an oversized batch goes on to cancel the generation.  At
\* most one of a call's steps is enabled at a time, so one condition for each
\* call is fairness of each step.
GoesOn(s) == Enter(s) \/ Reject(s) \/ Admit(s) \/ Park(s) \/ Release(s)

Fairness ==
    /\ \A s \in Seqs : WF_vars(GoesOn(s))
    /\ WF_vars(CancelOnError)

FairSpec == Spec /\ Fairness

-----------------------------------------------------------------------------
Held == {s \in Seqs : call[s] = "held"}

\* The counter is the exact sum of the permits alive, so a release can never
\* saturate at zero and hide a permit that was returned twice or lost
\* (acquire_inner adds, BytePermit::drop subtracts saturatingly).
UsedIsHeld == used = MapThenSumSet(LAMBDA s : bytes[s], Held)

\* Whatever the interleaving of admissions, releases and cancellation, the
\* bytes admitted never exceed the configured limit.
WithinLimit == used <= Limit

\* Ordered admission has no gaps and no repetition: the batches that ever got
\* a permit are exactly those before next_ordered.
AdmittedPrefix ==
    ordered => \A s \in Seqs : call[s] \in {"held", "released"} <=> s < nextOrdered

\* A call sleeps only while its own exit test fails: every change that could
\* let it return (release, ordered admission, cancellation) has notified it.
NoLostWakeup ==
    \A s \in Seqs : call[s] = "parked" =>
        ~Rejected(s) /\ ~Admissible(s)

\* Once the budget is cancelled no call is granted bytes any more
\* (worker.rs cancels the budget before the generation's token for this).
NoAdmissionAfterCancel ==
    [][cancelled => \A s \in Seqs : call'[s] = "held" => call[s] = "held"]_vars

\* Every acquire returns: waiting for bytes and waiting for one's turn never
\* lock each other out.  Again and again nobody is left inside acquire.
EveryCallReturns == []<>(\A s \in Seqs : call[s] \notin {"entered", "parked", "woken"})
=============================================================================
