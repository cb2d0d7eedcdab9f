-------------------------- MODULE WorkerRunContext --------------------------
(***************************************************************************)
(* What the coordinator and the workers of one generation share: the       *)
(* generation's byte budget, if it has one, and its cancellation token     *)
(* with the paired deadline (WorkerRunContext in                           *)
(* crates/rusttorch-data/src/worker.rs).  Each is its own module; here     *)
(* their steps interleave.                                                 *)
(*                                                                         *)
(* cancel() closes the budget and then cancels the token, in two steps     *)
(* between which anything may happen.  User code may hold a clone of the   *)
(* token and cancel it alone: only then is the budget still open.          *)
(***************************************************************************)
EXTENDS ByteBudget, TokenParameters

VARIABLES
    budgeted,       \* byte_budget is Some
    userCancelled,  \* history: user code cancelled the token, not the run
    flag, deadline, senderDropped, waitLock,    \* struct CancellationState
    now, armed, op, pc, timer, result, calls    \* of the threads that share it

Token == INSTANCE Cancellation WITH cancelled <- flag

tokenVars == <<flag, deadline, senderDropped, waitLock, now, armed, op, pc, timer, result, calls>>
runVars == <<vars, budgeted, userCancelled, tokenVars>>

RunInit ==
    /\ budgeted \in BOOLEAN
    /\ userCancelled = FALSE
    /\ Init
    /\ Token!Init

-----------------------------------------------------------------------------
\* Deliberate fault: the token is cancelled before the budget
Fault_TokenFirst == TRUE

\* The first half of cancel_with_hook is done, or there is nothing to do
BudgetClosed == budgeted => cancelled

\* The workers' acquisitions and the coordinator's releases; ByteBudget's
\* Cancel and CancelOnError are the first half of cancel_with_hook
BudgetStep ==
    /\ budgeted
    /\ Next
    /\ UNCHANGED <<budgeted, userCancelled, tokenVars>>

\* The second half of cancel_with_hook: cancellation.cancel() begins
RunCancels(t) ==
    /\ BudgetClosed
    /\ Token!Call(t, "cancel")
    /\ UNCHANGED <<vars, budgeted, userCancelled>>

\* User code calls cancel on its clone of the token
UserCancels(t) ==
    /\ budgeted /\ ~cancelled
    /\ Token!Call(t, "cancel")
    /\ userCancelled' = TRUE
    /\ UNCHANGED <<vars, budgeted>>

\* A thread enters another call of the token or the deadline
OtherCall(t) ==
    /\ \E o \in Token!Ops \ {"cancel"} : Token!Call(t, o)
    /\ UNCHANGED <<vars, budgeted, userCancelled>>

\* A thread goes on with its call, or time passes
TokenStep ==
    /\ \/ \E t \in Threads : Token!Progress(t) \/ Token!Wakes(t)
       \/ Token!Tick
    /\ UNCHANGED <<vars, budgeted, userCancelled>>

RunNext ==
    \/ BudgetStep
    \/ TokenStep
    \/ \E t \in Threads : RunCancels(t) \/ UserCancels(t) \/ OtherCall(t)

RunSpec == RunInit /\ [][RunNext]_runVars

\* ByteBudget's and the token's own fairness
RunFairness ==
    /\ \A s \in Seqs : WF_vars(budgeted /\ GoesOn(s))
    /\ WF_vars(budgeted /\ CancelOnError)
    /\ Token!Fairness

FairRunSpec == RunSpec /\ RunFairness

-----------------------------------------------------------------------------
\* Somebody was told that the generation is cancelled, by a wait that returned
\* or by the channel's disconnection
Told == senderDropped \/ \E t \in Threads : result[t] = "cancelled"

\* Whoever learns from the token that the run was cancelled can rely on the
\* budget: no worker is granted bytes any more (worker.rs:160, and its test
\* generation_cancel_closes_budget_before_lifecycle_notification).  User code
\* that cancels its clone of the token gives no such promise.
NoGrantAfterTold ==
    [][budgeted /\ ~userCancelled /\ Told =>
          \A s \in Seqs : call'[s] = "held" => call[s] = "held"]_runVars

\* The token's properties hold beside a budget too: see Cancellation for what
\* they say of worker_context.rs.
NoLostNotice == Token!NoLostNotice
ToldOnlyIfCancelled == Token!ToldOnlyIfCancelled
WaitsEnd == Token!WaitsEnd
=============================================================================
