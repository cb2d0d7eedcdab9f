------------------------- MODULE MCWorkerRunContext -------------------------
(***************************************************************************)
(* Three instances, told apart by the initial states.  BudgetAlone: three  *)
(* workers and four batches, so that two can wait for bytes while a third  *)
(* waits for its turn; at most one batch weighs nothing and at most one    *)
(* never fits.  TokenAlone: three threads, one that sleeps, one that       *)
(* changes the state and one that overtakes both; the longest timeout is   *)
(* beyond the clock's range.  Both: two threads beside a budget with a     *)
(* batch that never fits and two that exclude each other, so that the run  *)
(* is cancelled for either reason while one is about to be admitted.  The  *)
(* clock matters only in the second.                                       *)
(***************************************************************************)
EXTENDS WorkerRunContext, MCTools

CONSTANTS t1, t2, t3

MCThreads == {t1, t2, t3}
MCSizes == {0, 1, 2, 3}
MCTimeouts == {0, 1, 5}

\* How often a size occurs among the batches
Weighing(b) == Cardinality({s \in Seqs : bytes[s] = b})

BudgetAlone ==
    /\ budgeted /\ calls = [t \in Threads |-> 0] /\ now = MaxTime
    /\ Weighing(0) <= 1 /\ Weighing(3) <= 1
TokenAlone ==
    /\ ~budgeted /\ calls = [t \in Threads |-> Calls] /\ now = 0
    /\ Weighing(1) = Requests /\ ordered
Both ==
    /\ budgeted /\ calls = [t \in Threads |-> IF t = t3 THEN 0 ELSE Calls] /\ now = MaxTime
    /\ bytes = [s \in Seqs |-> <<3, 2, 2, 1>>[s + 1]] /\ ~ordered

MCInit == RunInit /\ (BudgetAlone \/ TokenAlone \/ Both)
MCSpec == MCInit /\ [][RunNext]_runVars /\ RunFairness
=============================================================================
