------------------------ MODULE DistributedTraining ------------------------
(***************************************************************************)
(* Replicated and sharded training over one process group at a time        *)
(* (src/distributed/training.rs).  Every public call is a sequence of      *)
(* collectives with local work before each; Agreement is all that is       *)
(* assumed of the collectives.  A new session begins with a new group      *)
(* after the last one has stopped.                                         *)
(*                                                                         *)
(* A gradient is the set of contributions that were averaged into it, each *)
(* with its rank and its step; weights and moments are the updates applied *)
(* since a base.  With ShardedTrainer a rank's entry is its own shard.     *)
(***************************************************************************)
EXTENDS Naturals, Sequences, FiniteSets, SequencesExt

CONSTANTS
    World,      \* number of ranks
    Params,     \* parameters of the model
    Calls,      \* bound: calls each rank makes in one session
    Sessions,   \* bound: sessions
    Faults      \* bound: local errors and deadlines

ASSUME TrainingAssumption ==
    {World, Params, Calls, Sessions} \subseteq Nat \ {0} /\ Faults \in Nat

Ranks == 0 .. World - 1

VARIABLES
    kind,           \* which trainer the program uses
    session,
    asked, done, stopped,   \* the process group of this session
    call, at,       \* the call a rank is in, and the collective it comes to next
    left,           \* calls each rank may still make in this session
    faults,         \* faults still to come
    built,          \* the trainer of this session exists
    weights, moments, grad, \* the store and the optimizer
    hand,           \* what the last data collective returned, or a local gradient
    record, saved,  \* checkpoint: in the making, and the last one returned
    origin,         \* history: the capture a trainer was restored from
    confirmed       \* history: updates of train calls that returned Ok

group == <<asked, done, stopped>>
state == <<weights, moments, grad>>
vars == <<kind, session, group, call, at, left, faults, built, state, hand, record, saved,
          origin, confirmed>>

None == "none"
Nothing == [stamp |-> <<>>]     \* no record of a checkpoint

Repeat(round) == [i \in 1 .. Params |-> round]

\* The collectives of each call, named for the local work that each concludes
Validate == <<"identity", "layout">>
Construct == <<"specs", "same_layout">> \o Repeat("broadcast")
SyncGradients ==
    Validate \o <<"grads", "metadata", "same_metadata">> \o Repeat("all_reduce") \o <<"copy">>
BackwardStep ==
    Validate \o <<"attached", "config", "same_config", "zero", "backward">>
    \o SyncGradients \o <<"step">>
FullParameters == Validate \o Repeat("all_gather")
FromLocal(build) == <<build, "registered", "config", "same_config">>
TrainStep ==
    <<"config", "same_config">> \o FullParameters \o <<"loss", "scalar", "gradients">>
    \o Repeat("reduce_scatter") \o <<"zero", "seed", "step", "mean_loss">>
CheckpointSet == <<"identity", "capture", "records", "decode">>
Restore ==
    <<"valid", "records", "decode", "consolidate", "tensors">> \o FromLocal("rebuilt")
    \o <<"prepared">>

Rounds(c) ==
    CASE c = "construct" -> Construct
      [] c = "backward_step" -> BackwardStep
      [] c = "new" -> Construct \o FromLocal("built")
      [] c = "train_step" -> TrainStep
      [] c = "checkpoint" -> CheckpointSet \o <<"consolidate">>
      [] c = "restore" -> Restore

Trains == {"backward_step", "train_step"}
Agreements == {"same_layout", "same_config", "same_metadata"}

\* The operation a collective is on the wire: all agreements on a status look alike
Operation(round) ==
    CASE round = "broadcast" -> "Broadcast"
      [] round \in {"all_reduce", "mean_loss"} -> "AllReduce"
      [] round = "all_gather" -> "AllGather"
      [] round = "reduce_scatter" -> "ReduceScatter"
      [] round \in Agreements \cup {"records"} -> "Bytes"
      [] OTHER -> "Barrier"

\* A deliberate fault, for a mutation run: errors are not agreed on
Fault_IgnoreErrors(reqs) == \A q \in Ranks : reqs[q].operation = reqs[0].operation

\* What a process group makes of one request per rank
Accepts(reqs) == \A q \in Ranks : reqs[q].ok /\ reqs[q].operation = reqs[0].operation

Outcome(reqs, r) ==
    LET o == reqs[0].operation
    IN  CASE o = "Barrier" -> {}
          [] o = "Broadcast" -> reqs[0].value[2]
          [] o \in {"AllReduce", "ReduceScatter"} -> UNION {reqs[q].value[2] : q \in Ranks}
          [] OTHER -> [q \in Ranks |-> reqs[q].value]

Group == INSTANCE Agreement

Init ==
    /\ kind \in {"replicated", "sharded"}
    /\ session = 1
    /\ Group!Init
    /\ call = [r \in Ranks |-> None] /\ at = [r \in Ranks |-> 1]
    /\ left = [r \in Ranks |-> Calls] /\ faults = Faults
    /\ built = [r \in Ranks |-> FALSE]
    /\ weights = [r \in Ranks |-> [base |-> r, updates |-> <<>>]]
    /\ moments = [r \in Ranks |-> <<>>] /\ grad = [r \in Ranks |-> {}]
    /\ hand = [r \in Ranks |-> {}]
    /\ record = [r \in Ranks |-> Nothing] /\ saved = record
    /\ origin = [r \in Ranks |-> <<>>] /\ confirmed = [r \in Ranks |-> {}]

-----------------------------------------------------------------------------
\* Deliberate faults: each replaces a definition below it in a mutation run
Fault_StepWithoutReduce(r) == grad[r]
Fault_AnyRecords(recs) == TRUE
Fault_SameForAll(r) == 0

\* Calls a rank may make
Offers(r) ==
    IF kind = "replicated" THEN IF built[r] THEN {"backward_step"} ELSE {"construct"}
    ELSE IF built[r] THEN {"train_step", "checkpoint"}
    ELSE {"new"} \cup IF saved[r] # Nothing THEN {"restore"} ELSE {}

Begin(r, c) ==
    /\ call[r] = None /\ left[r] > 0 /\ ~stopped[r] /\ c \in Offers(r)
    /\ call' = [call EXCEPT ![r] = c]
    /\ at' = [at EXCEPT ![r] = 1]
    /\ left' = [left EXCEPT ![r] = @ - 1]
    /\ UNCHANGED <<kind, session, group, faults, built, state, hand, record, saved, origin, confirmed>>

Round(r) == IF at[r] <= Len(Rounds(call[r])) THEN Rounds(call[r])[at[r]] ELSE "end"

\* A rank is at local work, before collective Round(r)
Works(r) == call[r] # None /\ ~stopped[r] /\ ~Group!Waits(r)

\* The gradient a rank computes: its own contribution to this step
Own(r) == {<<r, session, Len(done[r])>>}

\* What sync_gradients writes into the gradients
Synchronized(r) == hand[r]

\* The optimizer's settings and step counts, as far as ranks may differ in them
Settings(r) == Len(moments[r])

\* The records of one capture, one per rank
OneCapture(recs) ==
    \A q \in Ranks : recs[q][2].stamp = recs[0][2].stamp
                     /\ Len(recs[q][2].moments) = Len(recs[0][2].moments)

\* Whether the local work before a collective succeeds when nothing goes wrong
Succeeds(r) ==
    CASE Round(r) = "decode" -> \A q \in Ranks : hand[r][q][1] = "records"
      [] Round(r) = "consolidate" -> OneCapture(hand[r])
      [] OTHER -> TRUE

\* What the rank supplies to the collective
Value(r) ==
    CASE Round(r) = "broadcast" -> weights[r]
      [] Round(r) = "all_reduce" -> grad[r]
      [] Round(r) = "reduce_scatter" -> hand[r]
      [] Round(r) = "all_gather" -> weights[r]
      [] Round(r) = "same_config" -> Settings(r)
      [] Round(r) = "same_metadata" -> grad[r] = {}
      [] Round(r) = "records" -> record[r]
      [] OTHER -> {}

\* try_step stages every update before it changes anything
TryStep(r) ==
    /\ weights' = [weights EXCEPT ![r].updates = Append(@, grad[r])]
    /\ moments' = [moments EXCEPT ![r] = Append(@, grad[r])]

\* The local work itself; gradients accumulate
LocalWork(r, ok) ==
    /\ grad' \in CASE Round(r) = "zero" -> {[grad EXCEPT ![r] = {}]} \cup IF ok THEN {} ELSE {grad}
                   [] Round(r) = "backward" /\ ok -> {[grad EXCEPT ![r] = @ \cup Own(r)]}
                   [] Round(r) = "seed" /\ ok -> {[grad EXCEPT ![r] = @ \cup hand[r]]}
                   [] Round(r) = "copy" -> {[grad EXCEPT ![r] = Synchronized(r)]}
                                           \cup IF ok THEN {} ELSE {grad}
                   [] OTHER -> {grad}
    /\ IF Round(r) = "step" /\ ok THEN TryStep(r)
       ELSE IF Round(r) = "built" /\ ok
       THEN weights' = [weights EXCEPT ![r] = hand[r]] /\ moments' = [moments EXCEPT ![r] = <<>>]
       ELSE UNCHANGED <<weights, moments>>
    /\ hand' = IF Round(r) = "gradients"
               THEN [hand EXCEPT ![r] = IF ok THEN Own(r) ELSE {}] ELSE hand
    /\ record' = CASE Round(r) = "capture" -> [record EXCEPT ![r] =
                        [stamp |-> <<session, Len(done[r])>>, weights |-> weights[r], moments |-> moments[r]]]
                   [] Round(r) = "valid" -> [record EXCEPT ![r] = saved[r]]
                   [] OTHER -> record

\* Local work, then the collective that concludes it, which carries its error
Work(r) ==
    /\ Works(r) /\ Round(r) # "end"
    /\ \E fails \in BOOLEAN :
        LET ok == Succeeds(r) /\ ~fails
        IN  /\ fails => faults > 0 /\ Operation(Round(r)) # "Bytes"
            /\ faults' = IF fails THEN faults - 1 ELSE faults
            /\ LocalWork(r, ok)
            /\ Group!Enter(r, [operation |-> Operation(Round(r)), ok |-> ok,
                               value |-> <<Round(r), Value(r)>>])
    /\ UNCHANGED <<kind, session, call, at, left, built, saved, origin, confirmed>>

\* identical: what the ranks supplied differs
Differ(got) == \E p, q \in Ranks : got[p] # got[q]

\* The collective returns
Receive(r) ==
    /\ call[r] # None
    /\ Group!Receive(r)
    /\ LET got == Last(done'[r])
           differ == Round(r) \in Agreements /\ Differ(got)
       IN  /\ stopped' = [stopped EXCEPT ![r] = differ]
           /\ hand' = IF Operation(Round(r)) = "Barrier" THEN hand ELSE [hand EXCEPT ![r] = got]
           /\ call' = [call EXCEPT ![r] = IF differ THEN None ELSE @]
           /\ at' = [at EXCEPT ![r] = @ + 1]
    /\ UNCHANGED <<kind, session, left, faults, built, state, record, saved, origin, confirmed>>

\* The call returns Ok, after the local work that follows its last collective
Finish(r) ==
    /\ Works(r) /\ Round(r) = "end"
    /\ built' = [built EXCEPT ![r] = TRUE]
    /\ weights' = CASE call[r] = "construct" -> [weights EXCEPT ![r] = hand[r]]
                    [] call[r] = "restore" -> [weights EXCEPT ![r] = record[r].weights]
                    [] OTHER -> weights
    /\ moments' = IF call[r] = "restore" THEN [moments EXCEPT ![r] = record[r].moments] ELSE moments
    /\ saved' = IF call[r] = "checkpoint" THEN [saved EXCEPT ![r] = hand[r][r][2]] ELSE saved
    /\ origin' = IF call[r] = "restore" THEN [origin EXCEPT ![r] = record[r].stamp] ELSE origin
    /\ confirmed' = IF call[r] \in Trains
                    THEN [confirmed EXCEPT ![r] = @ \cup {grad[r]}] ELSE confirmed
    /\ call' = [call EXCEPT ![r] = None]
    /\ UNCHANGED <<kind, session, group, at, left, faults, grad, hand, record>>

\* The collectives before which, and the calls at whose end, a local error
\* returns from the call without telling the group
Unagreed(r) ==
    \/ Round(r) \in {"same_layout", "same_metadata", "loss", "gradients", "reduce_scatter",
                     "built", "records"}
    \/ /\ call[r] # "construct" /\ Round(r) \in {"broadcast", "all_gather"}
       /\ at[r] > 1 /\ Rounds(call[r])[at[r] - 1] = Round(r)
    \/ Round(r) = "end" /\ call[r] \in {"construct", "train_step"}

LeaveEarly(r) ==
    /\ Works(r) /\ Unagreed(r) /\ faults > 0
    /\ faults' = faults - 1
    /\ call' = [call EXCEPT ![r] = None]
    /\ UNCHANGED <<kind, session, group, at, left, built, state, hand, record, saved, origin, confirmed>>

\* The collective a rank waits for is refused, or can no longer be completed
Lost(r) ==
    LET n == Len(done[r]) + 1
    IN  \/ \E q \in Ranks : stopped[q]
        \/ Group!Made(n) /\ ~Accepts(Group!Requests(n))

\* A collective returns an error, and its group with it: refused, disconnected, or
\* by its deadline
Error(r) ==
    /\ call[r] # None /\ Group!Waits(r) /\ ~stopped[r]
    /\ \/ Lost(r) /\ UNCHANGED faults
       \/ faults > 0 /\ faults' = faults - 1
    /\ Group!Stop(r)
    /\ call' = [call EXCEPT ![r] = None]
    /\ UNCHANGED <<kind, session, at, left, built, state, hand, record, saved, origin, confirmed>>

\* A rank gives its group up between calls
Drop(r) ==
    /\ call[r] = None /\ ~stopped[r]
    /\ Group!Stop(r)
    /\ UNCHANGED <<kind, session, call, at, left, faults, built, state, hand, record, saved, origin, confirmed>>

\* A new group; the store and optimizer of a replica live on, a sharded trainer
\* is built anew from a checkpoint or from initial weights
NewSession ==
    /\ session < Sessions /\ \A r \in Ranks : stopped[r] /\ call[r] = None
    /\ session' = session + 1
    /\ asked' = [r \in Ranks |-> <<>>] /\ done' = [r \in Ranks |-> <<>>]
    /\ stopped' = [r \in Ranks |-> FALSE]
    /\ left' = [r \in Ranks |-> Calls]
    /\ built' = [r \in Ranks |-> FALSE]
    /\ origin' = [r \in Ranks |-> <<>>]
    /\ IF kind = "replicated"
       THEN UNCHANGED <<state, confirmed>>
       ELSE /\ weights' = [r \in Ranks |-> [base |-> r, updates |-> <<>>]]
            /\ moments' = [r \in Ranks |-> <<>>] /\ grad' = [r \in Ranks |-> {}]
            /\ confirmed' = [r \in Ranks |-> {}]
    /\ UNCHANGED <<kind, call, at, faults, hand, record, saved>>

Next ==
    \/ NewSession
    \/ \E r \in Ranks :
        \/ Work(r) \/ Receive(r) \/ Finish(r) \/ LeaveEarly(r) \/ Error(r) \/ Drop(r)
        \/ \E c \in Offers(r) : Begin(r, c)

Spec == Init /\ [][Next]_vars
-----------------------------------------------------------------------------
\* Whatever is applied to a model is the average of one gradient per rank, all of
\* the same step: no rank ever steps with its own, a stale or a doubled gradient,
\* even after local errors, refusals and new sessions.
UpdatesAreMeans ==
    \A r \in Ranks : \A i \in DOMAIN weights[r].updates :
        \E g \in weights[r].updates[i] :
            weights[r].updates[i] = {<<q, g[2], g[3]>> : q \in Ranks}

\* The trainers of one session hold the same weights and moments, up to the one
\* update whose agreement may still be missing.
Close(u, v) == (IsPrefix(u, v) \/ IsPrefix(v, u)) /\ Len(u) <= Len(v) + 1 /\ Len(v) <= Len(u) + 1
ReplicasClose ==
    \A r, q \in Ranks : built[r] /\ built[q] =>
        /\ weights[r].base = weights[q].base
        /\ Close(weights[r].updates, weights[q].updates) /\ Close(moments[r], moments[q])

\* A train call returns Ok on a rank only when its update is in every rank's
\* weights and moments, so a failed or lost step is never taken for a done one.
StepsConfirmed ==
    \A r, q \in Ranks : \A u \in confirmed[r] :
        u \in Range(weights[q].updates) /\ u \in Range(moments[q])

\* Trainers are restored from records of one capture, although the ranks may have
\* kept the results of different checkpoint calls.
RestoresOneCapture ==
    \A r, q \in Ranks : origin[r] # <<>> /\ origin[q] # <<>> => origin[r] = origin[q]
=============================================================================
