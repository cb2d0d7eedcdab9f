---------------------------- MODULE GroupSession ----------------------------
(***************************************************************************)
(* A process group from the first connection to the last call: the ranks   *)
(* meet (Rendezvous), the barrier that ends the meeting is collective 0,   *)
(* and the calls of ProcessGroup follow.                                   *)
(*                                                                         *)
(* Calls begin once every rank has joined.  A rank that joins earlier and  *)
(* calls at once finds the same streams, and a rank that fails after the   *)
(* barrier is one that aborts before its first call.                       *)
(***************************************************************************)
EXTENDS ProcessGroup

CONSTANT Sessions   \* bound: the processes of a behaviour, and the calls they make

\* Process 0 is rank 0, the others claim another rank
ASSUME SessionsAssumption ==
    \A s \in Sessions :
        /\ s.menu \in Menus
        /\ 0 \in DOMAIN s.claims /\ DOMAIN s.claims \subseteq Nat
        /\ \A p \in DOMAIN s.claims :
            /\ s.claims[p] = [rank |-> s.claims[p].rank, settings |-> s.claims[p].settings]
            /\ s.claims[p].rank \in Ranks /\ (s.claims[p].rank = 0 <=> p = 0)

VARIABLES claim, at, target, backlog, caller, peers, frames, book, struck

meeting == <<claim, at, target, backlog, caller, peers, frames, book, struck>>

R == INSTANCE Rendezvous WITH pc <- at, wire <- frames

SessionInit ==
    /\ \E s \in Sessions : R!Init(s.claims) /\ menu = s.menu
    /\ Init

SessionNext ==
    \/ R!Next /\ UNCHANGED vars
    \/ R!Complete /\ Next /\ UNCHANGED meeting

\* A process that waits for another goes on when its socket lets it, as in
\* ProcessGroup; neither part assumes that a deadline strikes
SessionFairness ==
    /\ \A p \in UNION {DOMAIN s.claims : s \in Sessions} : WF_meeting(p \in R!Processes /\ R!Progress(p))
    /\ \A r \in Ranks : WF_vars(R!Complete /\ Progress(r))

SessionSpec == SessionInit /\ [][SessionNext]_<<vars, meeting>> /\ SessionFairness

-----------------------------------------------------------------------------
\* Whoever joins has a stream to exactly one process of each other rank, of the
\* same session, which has its own stream for that rank; and all who join are
\* members of one group, whoever else claimed a rank and in whatever order the
\* greetings were read (accept, connect, check_hello).
MeshSound ==
    \A p \in R!Processes : R!Joined(p) =>
        \A r \in Ranks \ {claim[p].rank} :
            LET q == peers[p][r]
            IN  /\ q # R!Nobody /\ claim[q] = [claim[p] EXCEPT !.rank = r]
                /\ peers[q][claim[p].rank] = p
                /\ \A s \in Ranks \ {r, claim[p].rank} : peers[q][s] = peers[p][s]

\* If the processes claim each rank once, with one session, and no deadline
\* strikes, they all join; and if others knock instead, somebody learns of it by
\* an error: no order of dialling, greeting and accepting leaves everyone waiting.
Proper ==
    /\ Cardinality(R!Processes) = World
    /\ {claim[p].rank : p \in R!Processes} = Ranks
    /\ \A p \in R!Processes : claim[p].settings = claim[0].settings
RendezvousEnds ==
    <>(R!Complete \/ struck # {} \/ (~Proper /\ \E p \in R!Processes : at[p] = "failed"))
=============================================================================
