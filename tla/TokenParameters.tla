--------------------------- MODULE TokenParameters ---------------------------
(* The parameters of the cancellation token, for the modules about it and   *)
(* for those that compose it with others.                                  *)
EXTENDS Integers

CONSTANTS
    Threads,    \* coordinator, workers and user code
    Calls,      \* bound: calls each thread makes
    Timeouts,   \* the durations given to arm and to a timed wait
    MaxTime,    \* bound: the last instant of a behaviour
    MaxInstant, \* the last instant the clock can represent
    Nobody      \* wait_lock is free

ASSUME CallsAssumption == Calls \in Nat
ASSUME TimeoutsAssumption == Timeouts \subseteq Nat
ASSUME MaxTimeAssumption == MaxTime \in Nat
ASSUME MaxInstantAssumption == MaxInstant \in Nat /\ MaxTime <= MaxInstant
ASSUME NobodyAssumption == Nobody \notin Threads
=============================================================================
