----------------------------- MODULE Agreement -----------------------------
(***************************************************************************)
(* What the collectives of a process group promise.  The n-th collective   *)
(* takes one request of every rank.  It has one outcome, a function of     *)
(* those requests; a rank receives its part of it, or stops for good.  A   *)
(* collective that refuses its requests stops everyone.                    *)
(***************************************************************************)
EXTENDS Naturals, Sequences

CONSTANTS
    Ranks,
    Accepts(_),     \* of the requests, a function of the ranks
    Outcome(_, _)   \* what a rank receives, of the requests and the rank

VARIABLES
    asked,      \* each rank's requests
    done,       \* what each rank received
    stopped     \* the ranks that have left the group

vars == <<asked, done, stopped>>

Init ==
    /\ asked = [r \in Ranks |-> <<>>]
    /\ done = [r \in Ranks |-> <<>>]
    /\ stopped = [r \in Ranks |-> FALSE]

Waits(r) == Len(done[r]) < Len(asked[r])

\* The requests of collective n, once everyone has made one
Made(n) == \A q \in Ranks : n <= Len(asked[q])
Requests(n) == [q \in Ranks |-> asked[q][n]]

Enter(r, req) ==
    /\ ~stopped[r] /\ ~Waits(r)
    /\ asked' = [asked EXCEPT ![r] = Append(@, req)]
    /\ UNCHANGED <<done, stopped>>

\* The rank may dislike what it receives, and stop
Receive(r) ==
    LET n == Len(done[r]) + 1
    IN  /\ ~stopped[r] /\ Waits(r) /\ Made(n) /\ Accepts(Requests(n))
        /\ done' = [done EXCEPT ![r] = Append(@, Outcome(Requests(n), r))]
        /\ stopped' \in {stopped, [stopped EXCEPT ![r] = TRUE]}
        /\ UNCHANGED asked

Stop(r) ==
    /\ stopped' = [stopped EXCEPT ![r] = TRUE]
    /\ UNCHANGED <<asked, done>>

Next ==
    \E r \in Ranks :
        \/ asked'[r] # <<>> /\ Enter(r, asked'[r][Len(asked'[r])])
        \/ Receive(r) \/ Stop(r)

Spec == Init /\ [][Next]_vars
=============================================================================
