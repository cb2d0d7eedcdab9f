----------------------------- MODULE Rendezvous -----------------------------
(***************************************************************************)
(* How processes find each other and become the ranks of a process group   *)
(* (accept and connect of src/distributed/process.rs).                     *)
(*                                                                         *)
(* Process 0 listens at an address that everyone knows.  The others greet  *)
(* it, learn where all of them listen, connect to the ranks above their    *)
(* own, and are connected to by those below.  A barrier over the new       *)
(* streams ends it.  A process fails by an error or by its deadline, which  *)
(* also stands for its death; its listener and its streams close.          *)
(***************************************************************************)
EXTENDS Integers, Sequences, FiniteSets, SequencesExt

CONSTANT World

Ranks == 0 .. World - 1
Nobody == -1

VARIABLES
    claim,    \* rank and settings each process was started with
    pc,       \* where a process is
    target,   \* the rank it dials, greets, writes to or reads from
    backlog,  \* connections to its listener that it has not accepted
    caller,   \* the process whose connection it accepted last
    peers,    \* its streams: the process at the other end, for each rank
    wire,     \* frames that were written and not read
    book,     \* the addresses process 0 collected, a process for each rank
    struck    \* history: processes whose deadline struck

vars == <<claim, pc, target, backlog, caller, peers, wire, book, struck>>

Processes == DOMAIN claim

Init(claims) ==
    /\ claim = claims
    /\ pc = [p \in Processes |-> IF p = 0 THEN "accept" ELSE "dial"]
    /\ target = [p \in Processes |-> 0]
    /\ backlog = [p \in Processes |-> <<>>]
    /\ caller = [p \in Processes |-> Nobody]
    /\ peers = [p \in Processes |-> [r \in Ranks |-> Nobody]]
    /\ wire = {} /\ book = <<>> /\ struck = {}

-----------------------------------------------------------------------------
Frame(p, q, type) == [from |-> p, to |-> q, type |-> type]

Gone(p) == pc[p] \in {"joined", "failed"}

\* From before its address is known until accept or connect returns
Listening(p) == ~Gone(p)

\* q does not hold its end of the stream between p and q any more
Closed(p, q) == pc[q] = "failed" \/ (pc[q] = "joined" /\ p \notin {peers[q][r] : r \in Ranks})

Stop(p) ==
    /\ pc' = [pc EXCEPT ![p] = "failed"]
    /\ backlog' = [backlog EXCEPT ![p] = <<>>]
    /\ wire' = {f \in wire : f.to # p}
    /\ UNCHANGED <<claim, target, caller, peers, book>>

Fail(p) == Stop(p) /\ UNCHANGED struck

\* A write: it may meet a stream that is closed, and fails or goes nowhere
Writes(p, q, type) == wire' = IF Closed(p, q) THEN wire ELSE wire \cup {Frame(p, q, type)}

\* The streams a process has to accept: from every rank below its own, but 0
Expected(p) == IF p = 0 THEN 1 .. World - 1 ELSE 1 .. claim[p].rank - 1

Accepted(p) == {r \in Expected(p) : peers[p][r] # Nobody}

Assembled(p) == Cardinality(Accepted(p)) = Cardinality(Expected(p))

\* Where a process goes when rank t is the next to dial
Dialling(t) == IF t < World THEN "dial" ELSE "accept"

-----------------------------------------------------------------------------
\* Process 0 is dialled at its own address, the others at those of the list
AddressOf(p) == IF target[p] = 0 THEN 0 ELSE book[target[p]]

\* connect: it is retried for as long as nobody listens
Dial(p) ==
    /\ pc[p] = "dial" /\ Listening(AddressOf(p))
    /\ backlog' = [backlog EXCEPT ![AddressOf(p)] = Append(@, p)]
    /\ pc' = [pc EXCEPT ![p] = "greet"]
    /\ UNCHANGED <<claim, target, caller, peers, wire, book, struck>>

Greet(p) ==
    LET q == AddressOf(p)
    IN  /\ pc[p] = "greet"
        /\ \/ /\ Writes(p, q, "hello")
              /\ peers' = [peers EXCEPT ![p][target[p]] = q]
              /\ target' = [target EXCEPT ![p] = IF @ = 0 THEN @ ELSE @ + 1]
              /\ pc' = [pc EXCEPT ![p] = IF target[p] = 0 THEN "addresses" ELSE Dialling(target[p] + 1)]
              /\ UNCHANGED <<claim, backlog, caller, book, struck>>
           \/ Closed(p, q) /\ Fail(p)

AddressesRead(p) ==
    /\ pc[p] = "addresses" /\ Frame(0, p, "addresses") \in wire
    /\ wire' = wire \ {Frame(0, p, "addresses")}
    /\ target' = [target EXCEPT ![p] = claim[p].rank + 1]
    /\ pc' = [pc EXCEPT ![p] = Dialling(claim[p].rank + 1)]
    /\ UNCHANGED <<claim, backlog, caller, peers, book, struck>>

Accept(p) ==
    /\ pc[p] = "accept" /\ ~Assembled(p) /\ backlog[p] # <<>>
    /\ caller' = [caller EXCEPT ![p] = Head(backlog[p])]
    /\ backlog' = [backlog EXCEPT ![p] = Tail(@)]
    /\ pc' = [pc EXCEPT ![p] = "hello"]
    /\ UNCHANGED <<claim, target, peers, wire, book, struck>>

\* Deliberate faults: each replaces a definition below it in a mutation run
Fault_AnySession(p, q) == claim[q].rank \in Expected(p) /\ peers[p][claim[q].rank] = Nobody
Fault_Impostor(p, q) == claim[q].settings = claim[p].settings /\ claim[q].rank \in Expected(p)

\* check_hello, and a rank that is expected and not there yet
Welcome(p, q) ==
    /\ claim[q].settings = claim[p].settings
    /\ claim[q].rank \in Expected(p)
    /\ peers[p][claim[q].rank] = Nobody

HelloRead(p) ==
    LET q == caller[p]
    IN  /\ pc[p] = "hello" /\ Frame(q, p, "hello") \in wire
        /\ IF Welcome(p, q)
           THEN /\ peers' = [peers EXCEPT ![p][claim[q].rank] = q]
                /\ wire' = wire \ {Frame(q, p, "hello")}
                /\ pc' = [pc EXCEPT ![p] = "accept"]
                /\ UNCHANGED <<claim, target, backlog, caller, book, struck>>
           ELSE Fail(p)

-----------------------------------------------------------------------------
\* Process 0 has everyone: it goes over its peers in the order of their ranks

Round(from, to, type) ==
    /\ pc[0] = from /\ target[0] < World
    /\ \/ /\ Writes(0, peers[0][target[0]], type)
          /\ target' = [target EXCEPT ![0] = IF @ + 1 = World THEN 1 ELSE @ + 1]
          /\ pc' = [pc EXCEPT ![0] = IF target[0] + 1 = World THEN to ELSE @]
          /\ UNCHANGED <<claim, backlog, caller, peers, book, struck>>
       \/ Closed(0, peers[0][target[0]]) /\ Fail(0)

CollectAddresses ==
    /\ pc[0] = "accept" /\ Assembled(0)
    /\ book' = [r \in 1 .. World - 1 |-> peers[0][r]]
    /\ target' = [target EXCEPT ![0] = 1]
    /\ pc' = [pc EXCEPT ![0] = IF World = 1 THEN "joined" ELSE "tell"]
    /\ UNCHANGED <<claim, backlog, caller, peers, wire, struck>>

TellAddresses == Round("tell", "gather", "addresses")

\* The barrier: a request of every peer, then a response to each
Gather ==
    LET f == Frame(peers[0][target[0]], 0, "request")
    IN  /\ pc[0] = "gather" /\ f \in wire
        /\ wire' = wire \ {f}
        /\ target' = [target EXCEPT ![0] = IF @ + 1 = World THEN 1 ELSE @ + 1]
        /\ pc' = [pc EXCEPT ![0] = IF target[0] + 1 = World THEN "reply" ELSE @]
        /\ UNCHANGED <<claim, backlog, caller, peers, book, struck>>

Reply == Round("reply", "joined", "response")

EnterBarrier(p) ==
    /\ p # 0 /\ pc[p] = "accept" /\ Assembled(p)
    /\ \/ /\ Writes(p, 0, "request")
          /\ pc' = [pc EXCEPT ![p] = "response"]
          /\ UNCHANGED <<claim, target, backlog, caller, peers, book, struck>>
       \/ Closed(p, 0) /\ Fail(p)

ResponseRead(p) ==
    /\ pc[p] = "response" /\ Frame(0, p, "response") \in wire
    /\ wire' = wire \ {Frame(0, p, "response")}
    /\ pc' = [pc EXCEPT ![p] = "joined"]
    /\ UNCHANGED <<claim, target, backlog, caller, peers, book, struck>>

-----------------------------------------------------------------------------
\* The process whose frame p waits for
ReadsFrom(p) ==
    CASE pc[p] = "hello"  -> caller[p]
      [] pc[p] = "gather" -> peers[0][target[0]]
      [] OTHER -> 0

\* The end of the stream, or a reset that takes along what was on its way
Disconnected(p) ==
    /\ pc[p] \in {"addresses", "hello", "gather", "response"}
    /\ Closed(p, ReadsFrom(p))
    /\ Fail(p)

Deadline(p) ==
    /\ ~Gone(p)
    /\ Stop(p)
    /\ struck' = struck \cup {p}

Progress(p) ==
    \/ Dial(p) \/ Greet(p) \/ AddressesRead(p) \/ Accept(p) \/ HelloRead(p)
    \/ EnterBarrier(p) \/ ResponseRead(p) \/ Disconnected(p)
    \/ p = 0 /\ (CollectAddresses \/ TellAddresses \/ Gather \/ Reply)

Next == \E p \in Processes : Progress(p) \/ Deadline(p)

-----------------------------------------------------------------------------
Joined(p) == pc[p] = "joined"

\* Every rank has a process that has joined
Complete == {claim[p].rank : p \in {q \in Processes : Joined(q)}} = Ranks
=============================================================================
