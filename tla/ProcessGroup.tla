---------------------------- MODULE ProcessGroup ----------------------------
(***************************************************************************)
(* Blocking collectives and point-to-point calls over one TCP stream per   *)
(* pair of ranks (src/distributed/process.rs), after the rendezvous, which *)
(* ends with a barrier: collective 0.                                      *)
(*                                                                         *)
(* Rank 0 reads one request of every peer in rank order, evaluates them    *)
(* and writes the responses in rank order.  Any error closes the rank's    *)
(* streams for good.  Frames written before a close may still be read, or  *)
(* be lost with the connection; a read or write may also meet its          *)
(* deadline.  A process that dies is a rank whose deadline struck.         *)
(***************************************************************************)
EXTENDS Collectives

CONSTANTS
    Menus       \* bound: which calls the ranks of one behaviour make, and how many each

Collective == [kind : {"collective"}, operation : Operation, error : BOOLEAN,
               tensors : Seq(Tensor), bytes : Seq(STRING), identical : BOOLEAN]
PointCall == [kind : {"send", "recv"}, peer : Nat, tag : Nat]

ASSUME MenusAssumption ==
    \A m \in Menus : m.each \in Nat /\ m.calls \subseteq Collective \cup PointCall

VARIABLES
    menu,
    failed, sequence, sends, receives,  \* the fields of ProcessGroup
    wire,       \* wire[r][q]: frames on their way from r to q
    pc, call,   \* where a rank is, in which call
    calls,      \* calls it may still make
    peer,       \* rank 0: the peer it reads from or writes to
    requests,   \* rank 0: requests read so far
    responses,  \* rank 0: what evaluate returned
    asked, done,    \* history: each rank's requests and accepted responses
    sent, got       \* history: tags of acknowledged sends and of receives

group == <<failed, sequence, sends, receives>>
coordinator == <<peer, requests, responses>>
history == <<asked, done, sent, got>>
vars == <<menu, group, wire, pc, call, calls, coordinator, history>>

Idle == [kind |-> "none"]

\* The barrier that ends accept and connect
Rendezvous == [sequence |-> 0, operation |-> [name |-> "Barrier", root |-> 0, reduction |-> "Sum"],
               error |-> FALSE, tensors |-> <<>>, bytes |-> <<>>]

Init ==
    /\ menu \in Menus
    /\ failed = [r \in Ranks |-> FALSE]
    /\ sequence = [r \in Ranks |-> 1]
    /\ sends = [r \in Ranks |-> [q \in Ranks |-> 0]] /\ receives = sends
    /\ wire = [r \in Ranks |-> [q \in Ranks |-> <<>>]]
    /\ pc = [r \in Ranks |-> "idle"] /\ call = [r \in Ranks |-> Idle]
    /\ calls = [r \in Ranks |-> menu.each]
    /\ peer = 0 /\ requests = <<>> /\ responses = <<>>
    /\ asked = [r \in Ranks |-> <<Rendezvous>>]
    /\ done = [r \in Ranks |-> <<[sequence |-> 0, error |-> FALSE, tensors |-> <<>>, bytes |-> <<>>]>>]
    /\ sent = [r \in Ranks |-> [q \in Ranks |-> <<>>]] /\ got = sent

-----------------------------------------------------------------------------
\* Deliberate faults: each replaces a definition below it in a mutation run
Fault_KeepOpen(r) == FALSE
Fault_AnyAck(r, f) == TRUE
Fault_IgnoreFailed(r) == TRUE
Fault_IgnoreRefusal(r, resp) == resp.sequence # sequence[r]

\* The other end of the stream has been shut down
Closed(r) == failed[r]

\* finish: an error aborts the group.  What is on its way to r is never read,
\* and rank 0 drops the collective it was in.
Fail(r) ==
    /\ failed' = [failed EXCEPT ![r] = TRUE]
    /\ pc' = [pc EXCEPT ![r] = "idle"]
    /\ call' = [call EXCEPT ![r] = Idle]
    /\ wire' = [q \in Ranks |-> [wire[q] EXCEPT ![r] = <<>>]]
    /\ IF r = 0 THEN peer' = 0 /\ requests' = <<>> /\ responses' = <<>>
                ELSE UNCHANGED coordinator
    /\ UNCHANGED <<sequence, sends, receives>>

\* w with a frame from r to q added, if anybody may still read it
Put(w, r, q, f) == IF Closed(q) THEN w ELSE [w EXCEPT ![r][q] = Append(@, f)]

\* The call of r returns
Idles(r) ==
    /\ pc' = [pc EXCEPT ![r] = "idle"]
    /\ call' = [call EXCEPT ![r] = Idle]

\* A call on a failed group returns an error and changes nothing
Ready(r) == ~failed[r]

Begins(r, c) ==
    /\ pc[r] = "idle" /\ calls[r] > 0 /\ Ready(r) /\ c \in menu.calls
    /\ calls' = [calls EXCEPT ![r] = @ - 1]

RequestOf(r, c) ==
    [sequence |-> sequence[r], operation |-> c.operation, error |-> c.error,
     tensors |-> IF c.error THEN <<>> ELSE c.tensors, bytes |-> c.bytes]

\* call, up to the first read: rank 0 keeps its own request, another writes it
CallCollective(r, c) ==
    /\ c.kind = "collective" /\ Begins(r, c)
    /\ call' = [call EXCEPT ![r] = c]
    /\ asked' = [asked EXCEPT ![r] = Append(@, RequestOf(r, c))]
    /\ IF r = 0
       THEN /\ pc' = [pc EXCEPT ![r] = "gather"]
            /\ peer' = 1 /\ requests' = <<RequestOf(r, c)>>
            /\ UNCHANGED <<wire, responses>>
       ELSE /\ pc' = [pc EXCEPT ![r] = "response"]
            /\ wire' = Put(wire, r, 0, [type |-> "Request", body |-> RequestOf(r, c)])
            /\ UNCHANGED coordinator
    /\ UNCHANGED <<menu, group, done, sent, got>>

\* Rank 0 has a frame of the peer whose turn it is
GatherRead ==
    /\ pc[0] = "gather" /\ peer < World /\ wire[peer][0] # <<>>
    /\ LET f == Head(wire[peer][0])
       IN  IF f.type = "Request"
           THEN /\ requests' = Append(requests, f.body)
                /\ wire' = [wire EXCEPT ![peer][0] = Tail(@)]
                /\ peer' = peer + 1
                /\ UNCHANGED <<group, pc, call, responses>>
           ELSE Fail(0)
    /\ UNCHANGED <<menu, calls, history>>

\* One request of every rank is there
Gathered(reqs) == Len(reqs) = World

Answer ==
    /\ pc[0] = "gather" /\ Gathered(requests)
    /\ responses' = Evaluate([r \in Ranks |-> requests[r + 1]])
    /\ pc' = [pc EXCEPT ![0] = "reply"]
    /\ peer' = 1
    /\ UNCHANGED <<menu, group, wire, call, calls, requests, history>>

\* A write to a closed stream may fail or go nowhere
Reply ==
    /\ pc[0] = "reply" /\ peer < World
    /\ \/ /\ wire' = Put(wire, 0, peer, [type |-> "Response", body |-> responses[peer]])
          /\ peer' = peer + 1
          /\ UNCHANGED <<group, pc, call, requests, responses>>
       \/ Closed(peer) /\ Fail(0)
    /\ UNCHANGED <<menu, calls, history>>

Refused(r, resp) == resp.sequence # sequence[r] \/ resp.error

\* all_gather_bytes succeeded, but identical finds that the ranks differ
Differs(r, resp) ==
    call[r].identical /\ \E i \in DOMAIN resp.bytes : resp.bytes[i] # call[r].bytes

\* The end of call, with the response that is rank r's
Conclude(r, resp, w) ==
    IF Refused(r, resp)
    THEN Fail(r) /\ UNCHANGED done
    ELSE /\ sequence' = [sequence EXCEPT ![r] = @ + 1]
         /\ done' = [done EXCEPT ![r] = Append(@, resp)]
         /\ failed' = [failed EXCEPT ![r] = Differs(r, resp)]
         /\ wire' = IF Differs(r, resp) THEN [q \in Ranks |-> [w[q] EXCEPT ![r] = <<>>]] ELSE w
         /\ Idles(r)
         /\ UNCHANGED <<sends, receives>>
         /\ IF r = 0 THEN peer' = 0 /\ requests' = <<>> /\ responses' = <<>>
                     ELSE UNCHANGED coordinator

Replied ==
    /\ pc[0] = "reply" /\ peer = World
    /\ Conclude(0, responses[0], wire)
    /\ UNCHANGED <<menu, calls, asked, sent, got>>

ResponseRead(r) ==
    /\ pc[r] = "response" /\ wire[0][r] # <<>>
    /\ LET f == Head(wire[0][r])
       IN  IF f.type = "Response"
           THEN Conclude(r, f.body, [wire EXCEPT ![0][r] = Tail(@)])
           ELSE Fail(r) /\ UNCHANGED done
    /\ UNCHANGED <<menu, calls, asked, sent, got>>

-----------------------------------------------------------------------------
\* send and recv name another rank of the group
Addresses(r, c) == c.peer \in Ranks /\ c.peer # r

CallSend(r, c) ==
    /\ c.kind = "send" /\ Begins(r, c)
    /\ IF Addresses(r, c)
       THEN /\ wire' = Put(wire, r, c.peer,
                           [type |-> "Point", sequence |-> sends[r][c.peer], tag |-> c.tag])
            /\ pc' = [pc EXCEPT ![r] = "ack"]
            /\ call' = [call EXCEPT ![r] = c]
            /\ UNCHANGED <<group, coordinator>>
       ELSE Fail(r)
    /\ UNCHANGED <<menu, history>>

\* The frame acknowledges the send of r
Acknowledges(r, f) ==
    f = [type |-> "Ack", sequence |-> sends[r][call[r].peer], tag |-> call[r].tag]

AckRead(r) ==
    LET q == call[r].peer
    IN  /\ pc[r] = "ack" /\ wire[q][r] # <<>>
        /\ IF Acknowledges(r, Head(wire[q][r]))
           THEN /\ sends' = [sends EXCEPT ![r][q] = @ + 1]
                /\ sent' = [sent EXCEPT ![r][q] = Append(@, call[r].tag)]
                /\ wire' = [wire EXCEPT ![q][r] = Tail(@)]
                /\ Idles(r)
                /\ UNCHANGED <<failed, sequence, receives, coordinator>>
           ELSE Fail(r) /\ UNCHANGED sent
        /\ UNCHANGED <<menu, calls, asked, done, got>>

CallRecv(r, c) ==
    /\ c.kind = "recv" /\ Begins(r, c)
    /\ IF Addresses(r, c)
       THEN /\ pc' = [pc EXCEPT ![r] = "recv"]
            /\ call' = [call EXCEPT ![r] = c]
            /\ UNCHANGED <<group, wire, coordinator>>
       ELSE Fail(r)
    /\ UNCHANGED <<menu, history>>

\* The frame is the tensor this receive expects
Expected(r, f) == f.type = "Point" /\ f.sequence = receives[r][call[r].peer] /\ f.tag = call[r].tag

\* The tensor is read and acknowledged; the acknowledgement may meet a closed stream
PointRead(r) ==
    LET q == call[r].peer
        f == Head(wire[q][r])
        ack == [type |-> "Ack", sequence |-> f.sequence, tag |-> call[r].tag]
    IN  /\ pc[r] = "recv" /\ wire[q][r] # <<>>
        /\ \/ /\ Expected(r, f)
              /\ receives' = [receives EXCEPT ![r][q] = @ + 1]
              /\ got' = [got EXCEPT ![r][q] = Append(@, f.tag)]
              /\ wire' = Put([wire EXCEPT ![q][r] = Tail(@)], r, q, ack)
              /\ Idles(r)
              /\ UNCHANGED <<failed, sequence, sends, coordinator>>
           \/ (~Expected(r, f) \/ Closed(q)) /\ Fail(r) /\ UNCHANGED got
        /\ UNCHANGED <<menu, calls, asked, done, sent>>

-----------------------------------------------------------------------------
\* The rank whose stream r is reading
ReadsFrom(r) ==
    CASE pc[r] = "gather" -> peer
      [] pc[r] = "response" -> 0
      [] OTHER -> call[r].peer

\* Ok(0) of a read, or a reset that also takes what was on its way
Disconnected(r) ==
    /\ pc[r] \in {"gather", "response", "ack", "recv"} /\ ReadsFrom(r) < World
    /\ Closed(ReadsFrom(r))
    /\ Fail(r)
    /\ UNCHANGED <<menu, calls, history>>

\* The deadline strikes in a read or a write, a frame is too long to be encoded,
\* or the process dies
TimesOut(r) ==
    /\ pc[r] # "idle"
    /\ Fail(r)
    /\ UNCHANGED <<menu, calls, history>>

\* abort, or the drop of the group
Abort(r) ==
    /\ pc[r] = "idle" /\ ~failed[r]
    /\ Fail(r)
    /\ UNCHANGED <<menu, calls, history>>

Progress(r) ==
    \/ r = 0 /\ (GatherRead \/ Answer \/ Reply \/ Replied)
    \/ ResponseRead(r) \/ AckRead(r) \/ PointRead(r) \/ Disconnected(r)

Next ==
    \E r \in Ranks :
        \/ Progress(r) \/ TimesOut(r) \/ Abort(r)
        \/ \E c \in menu.calls : CallCollective(r, c) \/ CallSend(r, c) \/ CallRecv(r, c)

Spec == Init /\ [][Next]_vars
-----------------------------------------------------------------------------
\* No rank leaves a collective before every rank has entered it, so no rank is
\* ever more than one collective ahead: one response lost or refused stops a
\* rank, and the others cannot go past it.
BarrierHolds ==
    \A r, q \in Ranks : sequence[r] <= Len(asked[q]) /\ Len(asked[q]) <= sequence[q] + 1

\* v is the reduction of one value per rank
IsReduction(op, x, v) ==
    CASE op = "Sum" -> v = MapThenSumSet(LAMBDA q : x[q], Ranks)
      [] op = "Mean" -> World * v = MapThenSumSet(LAMBDA q : x[q], Ranks)
      [] op = "Product" -> v = FoldFunction(LAMBDA a, b : a * b, 1, x)
      [] op = "Min" -> v \in Range(x) /\ \A q \in Ranks : v <= x[q]
      [] OTHER -> v \in Range(x) /\ \A q \in Ranks : x[q] <= v

\* A collective that returned without an error combined what each rank supplied
\* to the same call of its own program, and gave r its part of the result: no
\* request or response of another call, root or rank is ever taken for it.
CollectivesAgree ==
    \A r \in Ranks : \A k \in DOMAIN done[r] :
        LET in(q) == asked[q][k]
            o == in(r).operation
            out == done[r][k].tensors
            First(q) == in(q).tensors[1].value
            Part(q) == in(q).tensors[r + 1].value
        IN  /\ \A q \in Ranks : k <= Len(asked[q]) /\ in(q).operation = o /\ ~in(q).error
            /\ o.name \in {"Reduce", "Gather"} /\ r # o.root => out = <<>>
            /\ CASE o.name = "Barrier" -> out = <<>>
                 [] o.name = "Bytes" -> \A q \in Ranks : done[r][k].bytes[q + 1] = in(q).bytes
                 [] o.name = "Broadcast" -> out = in(o.root).tensors
                 [] o.name = "AllReduce" \/ (o.name = "Reduce" /\ r = o.root) ->
                        IsReduction(o.reduction, [q \in Ranks |-> First(q)], out[1].value)
                 [] o.name = "AllGather" \/ (o.name = "Gather" /\ r = o.root) ->
                        \A q \in Ranks : out[q + 1] = in(q).tensors[1]
                 [] o.name = "Scatter" -> out[1] = in(o.root).tensors[r + 1]
                 [] o.name = "ReduceScatter" ->
                        IsReduction(o.reduction, [q \in Ranks |-> Part(q)], out[1].value)
                 [] o.name = "AllToAll" -> \A q \in Ranks : out[q + 1] = in(q).tensors[r + 1]
                 [] OTHER -> TRUE

\* The collectives keep the promise of Agreement, the rendezvous aside: the same
\* requests have one outcome for every rank, and a rank that lacks it has stopped.
Promise == INSTANCE Agreement WITH
    Accepts <- Accepted,
    Outcome <- LAMBDA reqs, r : Evaluate(reqs)[r],
    asked <- [r \in Ranks |-> Tail(asked[r])],
    done <- [r \in Ranks |-> Tail(done[r])],
    stopped <- failed
ImplementsAgreement == Promise!Spec

\* A send that returned was received once, in order and under its tag, and at
\* most one receive is not yet acknowledged, whatever else used the stream.
PointsAgree ==
    \A r, q \in Ranks :
        IsPrefix(sent[r][q], got[q][r]) /\ Len(got[q][r]) <= Len(sent[r][q]) + 1

\* A rank in a collective returns from it, by a result, a refusal or a closed
\* stream and without the help of its deadline, once each other rank has entered
\* that collective or has failed.
InCollective(r) == pc[r] \in {"gather", "reply", "response"}
CollectivesReturn ==
    \A r \in Ranks :
        InCollective(r) /\ (\A q \in Ranks : Len(asked[q]) >= Len(asked[r]) \/ failed[q])
            ~> pc[r] = "idle"
=============================================================================
