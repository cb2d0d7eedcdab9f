---------------------------- MODULE Cancellation ----------------------------
(***************************************************************************)
(* The lifecycle state a loader shares with user code: one sticky          *)
(* cancellation flag, one optional deadline, a condition variable for      *)
(* threads that wait and a channel whose disconnection wakes threads that  *)
(* select (crates/rusttorch-data/src/worker_context.rs).                   *)
(*                                                                         *)
(* The flag is an atomic, read without a lock.  Every transition and every *)
(* wait holds wait_lock; the deadline and the sender have mutexes of their *)
(* own, held for one read or write, so an access to them is one step.      *)
(* Time is a counter; a sleeping thread may oversleep, never undersleep.   *)
(***************************************************************************)
EXTENDS TokenParameters

VARIABLES
    cancelled, deadline, senderDropped, waitLock,   \* struct CancellationState
    now,
    armed,      \* history: of the calls to arm and disarm, the last was an arm
    op,         \* the call a thread is in
    pc,         \* how far it has come
    timer,      \* when its sleep ends by itself
    result,     \* what its last call returned
    calls       \* calls it may still make

vars == <<cancelled, deadline, senderDropped, waitLock, now, armed, op, pc,
          timer, result, calls>>

None == -1          \* no deadline, no timer
Instant == Nat \cup {None}
Passed(i) == i # None /\ i <= now

Ops == {"cancel", "arm", "disarm", "wait", "waitTimeout", "waitDeadline", "select"}
Waits == {"wait", "waitTimeout", "waitDeadline"}

TypeOK ==
    /\ cancelled \in BOOLEAN /\ senderDropped \in BOOLEAN
    /\ deadline \in 0 .. MaxInstant \cup {None}
    /\ waitLock \in Threads \cup {Nobody}
    /\ now \in Nat /\ armed \in BOOLEAN
    /\ op \in [Threads -> Ops]
    /\ pc \in [Threads -> {"idle", "wants", "inside", "announce", "checked", "parked", "reread", "select"}]
    /\ timer \in [Threads -> Instant]
    /\ result \in [Threads -> {"none", "cancelled", "expired", "returned"}]
    /\ calls \in [Threads -> 0 .. Calls]

Init ==
    /\ cancelled = FALSE /\ senderDropped = FALSE
    /\ deadline = None
    /\ waitLock = Nobody
    /\ now \in 0 .. MaxTime /\ armed = FALSE
    /\ op = [t \in Threads |-> "cancel"]
    /\ pc = [t \in Threads |-> "idle"]
    /\ timer = [t \in Threads |-> None]
    /\ result = [t \in Threads |-> "none"]
    /\ calls \in [Threads -> 0 .. Calls]

-----------------------------------------------------------------------------
\* Condvar::notify_all: parked threads go for the lock
NotifyAll(p) == [u \in Threads |-> IF p[u] = "parked" THEN "wants" ELSE p[u]]

\* Deliberate faults: each replaces a definition below it in a mutation run
Fault_TransitionUnlocked(t) == waitLock = Nobody \/ op[t] \in {"cancel", "arm", "disarm"}
Fault_TrustWakeUp(t) == "cancelled"
Fault_Unarmed(d) == IF now + d <= MaxInstant THEN now + d ELSE None

\* wait_lock can be taken
LockFree(t) == waitLock = Nobody

\* now.checked_add(timeout).unwrap_or(now): what the platform's clock cannot
\* represent is a deadline that has expired
InstantAfter(d) == IF now + d <= MaxInstant THEN now + d ELSE now

\* The caller's thread is inside call o with wait_lock held
Inside(t, o) == pc[t] = "inside" /\ op[t] = o

Return(t, r) ==
    /\ result' = [result EXCEPT ![t] = r]
    /\ timer' = [timer EXCEPT ![t] = None]

\* A call begins; a timed wait first reads the flag without the lock
Call(t, o) ==
    /\ pc[t] = "idle" /\ calls[t] > 0
    /\ calls' = [calls EXCEPT ![t] = @ - 1]
    /\ op' = [op EXCEPT ![t] = o]
    /\ IF o = "waitTimeout" /\ cancelled
       THEN pc' = pc /\ Return(t, "cancelled")
       ELSE /\ pc' = [pc EXCEPT ![t] = IF o = "select" THEN "select" ELSE "wants"]
            /\ result' = [result EXCEPT ![t] = "none"]
            /\ UNCHANGED timer
    /\ UNCHANGED <<cancelled, deadline, senderDropped, waitLock, now, armed>>

\* wait_lock.lock(), also when Condvar::wait returns; wait_timeout_while
\* starts its clock once it holds the lock
Lock(t) ==
    /\ pc[t] = "wants" /\ LockFree(t)
    /\ waitLock' = t
    /\ pc' = [pc EXCEPT ![t] = "inside"]
    /\ IF op[t] = "waitTimeout" /\ timer[t] = None
       THEN \E d \in Timeouts : timer' = [timer EXCEPT ![t] = now + d]
       ELSE UNCHANGED timer
    /\ UNCHANGED <<cancelled, deadline, senderDropped, now, armed, op, result, calls>>

\* cancelled.swap(true): only the first cancellation goes on
CancelSwap(t) ==
    /\ Inside(t, "cancel")
    /\ cancelled' = TRUE
    /\ IF cancelled
       THEN /\ pc' = [pc EXCEPT ![t] = "idle"]
            /\ waitLock' = Nobody
            /\ Return(t, "returned")
       ELSE pc' = [pc EXCEPT ![t] = "announce"] /\ UNCHANGED <<waitLock, result, timer>>
    /\ UNCHANGED <<deadline, senderDropped, now, armed, op, calls>>

\* signal_sender.take(), which disconnects the channel, notify_all and the end
\* of the critical section
CancelAnnounce(t) ==
    /\ pc[t] = "announce"
    /\ senderDropped' = TRUE
    /\ pc' = NotifyAll([pc EXCEPT ![t] = "idle"])
    /\ waitLock' = Nobody
    /\ Return(t, "returned")
    /\ UNCHANGED <<cancelled, deadline, now, armed, op, calls>>

\* Deadline::arm and Deadline::disarm
Arm(t) ==
    /\ Inside(t, "arm")
    /\ \E d \in Timeouts : deadline' = InstantAfter(d)
    /\ armed' = TRUE
    /\ pc' = NotifyAll([pc EXCEPT ![t] = "idle"])
    /\ waitLock' = Nobody
    /\ Return(t, "returned")
    /\ UNCHANGED <<cancelled, senderDropped, now, op, calls>>

Disarm(t) ==
    /\ Inside(t, "disarm")
    /\ deadline' = None /\ armed' = FALSE
    /\ pc' = NotifyAll([pc EXCEPT ![t] = "idle"])
    /\ waitLock' = Nobody
    /\ Return(t, "returned")
    /\ UNCHANGED <<cancelled, senderDropped, now, op, calls>>

SeesDeadline(t) == ~cancelled /\ Passed(deadline)

\* One of the waits finds its predicate true and returns
WaitReturns(t) ==
    /\ \/ Inside(t, "wait") /\ cancelled /\ Return(t, "cancelled")
       \/ Inside(t, "waitDeadline") /\ SeesDeadline(t) /\ Return(t, "expired")
       \/ Inside(t, "waitDeadline") /\ ~SeesDeadline(t) /\ cancelled /\ Return(t, "cancelled")
    /\ pc' = [pc EXCEPT ![t] = "idle"]
    /\ waitLock' = Nobody
    /\ UNCHANGED <<cancelled, deadline, senderDropped, now, armed, op, calls>>

\* wait_timeout_while ends and gives the lock back; the flag is read again
TimedWaitEnds(t) ==
    /\ Inside(t, "waitTimeout") /\ (cancelled \/ Passed(timer[t]))
    /\ pc' = [pc EXCEPT ![t] = "reread"]
    /\ waitLock' = Nobody
    /\ UNCHANGED <<cancelled, deadline, senderDropped, now, armed, op, timer, result, calls>>

TimedOutcome(t) == IF cancelled THEN "cancelled" ELSE "expired"

Reread(t) ==
    /\ pc[t] = "reread"
    /\ Return(t, TimedOutcome(t))
    /\ pc' = [pc EXCEPT ![t] = "idle"]
    /\ UNCHANGED <<cancelled, deadline, senderDropped, waitLock, now, armed, op, calls>>

\* A wait finds nothing to return for; wait_cancelled_or_deadline remembers
\* the deadline it has read
Check(t) ==
    /\ pc[t] = "inside" /\ op[t] \in Waits /\ ~cancelled
    /\ op[t] = "waitDeadline" => ~Passed(deadline)
    /\ op[t] = "waitTimeout" => ~Passed(timer[t])
    /\ timer' = IF op[t] = "waitDeadline" THEN [timer EXCEPT ![t] = deadline] ELSE timer
    /\ pc' = [pc EXCEPT ![t] = "checked"]
    /\ UNCHANGED <<cancelled, deadline, senderDropped, waitLock, now, armed, op, result, calls>>

\* Condvar::wait or wait_timeout: the lock is given back and the thread sleeps
Park(t) ==
    /\ pc[t] = "checked"
    /\ pc' = [pc EXCEPT ![t] = "parked"]
    /\ waitLock' = Nobody
    /\ UNCHANGED <<cancelled, deadline, senderDropped, now, armed, op, timer, result, calls>>

\* The sleep ends by itself, when its time is over or spuriously
Wakes(t) == pc[t] = "parked" /\ pc' = [pc EXCEPT ![t] = "wants"]
            /\ UNCHANGED <<cancelled, deadline, senderDropped, waitLock, now, armed, op, timer, result, calls>>

TimerFires(t) == Passed(timer[t]) /\ Wakes(t)

\* recv(signal()) is ready once the sender is gone
SelectReturns(t) ==
    /\ pc[t] = "select" /\ senderDropped
    /\ pc' = [pc EXCEPT ![t] = "idle"]
    /\ Return(t, "cancelled")
    /\ UNCHANGED <<cancelled, deadline, senderDropped, waitLock, now, armed, op, calls>>

Tick ==
    /\ now < MaxTime
    /\ now' = now + 1
    /\ UNCHANGED <<cancelled, deadline, senderDropped, waitLock, armed, op, pc, timer, result, calls>>

Progress(t) ==
    \/ Lock(t) \/ CancelSwap(t) \/ CancelAnnounce(t) \/ Arm(t) \/ Disarm(t)
    \/ WaitReturns(t) \/ TimedWaitEnds(t) \/ Reread(t) \/ Check(t) \/ Park(t)
    \/ TimerFires(t) \/ SelectReturns(t)

Next ==
    \/ \E t \in Threads : Progress(t) \/ Wakes(t) \/ \E o \in Ops : Call(t, o)
    \/ Tick

Spec == Init /\ [][Next]_vars

\* A thread inside a call goes on when it can, and time passes
Fairness ==
    /\ \A t \in Threads : WF_vars(Progress(t))
    /\ WF_vars(Tick)

FairSpec == Spec /\ Fairness

-----------------------------------------------------------------------------
\* A thread sleeps only while what it waits for has not happened, and one that
\* waits for the deadline sleeps on the deadline now in force: no cancel, arm
\* or disarm falls between a predicate check and the park.
NoLostNotice ==
    \A t \in Threads : pc[t] = "parked" =>
        /\ cancelled => \E u \in Threads : pc[u] = "announce"
        /\ op[t] = "waitDeadline" => timer[t] = deadline

\* Whoever is told of a cancellation, by a wait or by the channel, finds the
\* flag set: worker and coordinator re-check the token after such a wake-up.
ToldOnlyIfCancelled ==
    /\ senderDropped => cancelled
    /\ \A t \in Threads : result[t] = "cancelled" => cancelled

\* Who waits for the deadline and sleeps
DeadlineSleepers == {t \in Threads : op[t] = "waitDeadline" /\ pc[t] = "parked"}

\* After a cancellation every call in progress returns; and nobody sleeps past
\* a deadline that was armed, also with a timeout that the clock cannot add,
\* unless it is disarmed or lies beyond the last instant of the behaviour.
WaitsEnd ==
    /\ cancelled ~> \A t \in Threads : pc[t] = "idle"
    /\ armed /\ DeadlineSleepers # {}
         ~> DeadlineSleepers = {} \/ ~armed \/ deadline > MaxTime
=============================================================================
