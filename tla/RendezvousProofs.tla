------------------------- MODULE RendezvousProofs -------------------------
(***************************************************************************)
(* The processes that join a group are joined to one another, rank by      *)
(* rank, whoever else knocked: for any number of processes and claims, any *)
(* order of greetings, failures and deadlines.                             *)
(***************************************************************************)
EXTENDS GroupSession, FiniteSetTheorems, TLAPS

USE WorldAssumption DEF Ranks, R!Ranks, R!Nobody, R!Processes

\* Process 0 has collected the addresses
Collected == DOMAIN book = 1 .. World - 1

\* A process that process 0 took for the rank it claims
Member(p) == p \in R!Processes \ {0} /\ Collected /\ p = book[claim[p].rank]

\* A process with a stream for every rank but its own
Full(p) == \A r \in Ranks \ {claim[p].rank} : peers[p][r] # R!Nobody

Everyone == Collected /\ \A r \in 1 .. World - 1 : Full(book[r])

Places == {"accept", "hello", "dial", "greet", "addresses", "response",
           "tell", "gather", "reply", "joined", "failed"}

\* Claims are fixed: process 0 claims rank 0, the others a rank of their own.
Claimed ==
    /\ 0 \in R!Processes /\ R!Nobody \notin R!Processes
    /\ \A p \in R!Processes :
        /\ claim[p] = [rank |-> claim[p].rank, settings |-> claim[p].settings]
        /\ claim[p].rank \in Ranks /\ (claim[p].rank = 0 <=> p = 0)

\* The fields of the processes
MeetingType ==
    /\ at \in [R!Processes -> Places]
    /\ at[0] \in {"accept", "hello", "tell", "gather", "reply", "joined", "failed"}
    /\ \A p \in R!Processes \ {0} : at[p] \notin {"tell", "gather", "reply"}
    /\ target \in [R!Processes -> Nat]
    /\ backlog \in [R!Processes -> Seq(R!Processes)]
    /\ caller \in [R!Processes -> R!Processes \cup {R!Nobody}]
    /\ peers \in [R!Processes -> [Ranks -> R!Processes \cup {R!Nobody}]]

\* Process 0 takes a process for the rank and session it claims, and keeps to it
ZeroPeers ==
    /\ \A r \in 1 .. World - 1 : peers[0][r] # R!Nobody => claim[peers[0][r]] = [claim[0] EXCEPT !.rank = r]
    /\ Collected => \A r \in 1 .. World - 1 : peers[0][r] # R!Nobody /\ peers[0][r] = book[r]

\* Only members have streams to other ranks than 0, and only to members
MemberPeers ==
    \A p \in R!Processes \ {0} :
        /\ peers[p][0] \in {0, R!Nobody}
        /\ \A r \in 1 .. World - 1 : peers[p][r] # R!Nobody => Member(p) /\ peers[p][r] = book[r]

\* Who calls a process other than 0, or was told the addresses, is a member
Callers ==
    /\ \A p \in R!Processes \ {0} :
        /\ \A i \in 1 .. Len(backlog[p]) : Member(backlog[p][i])
        /\ at[p] = "hello" => Member(caller[p])
    /\ at[0] = "hello" => caller[0] \in R!Processes
    /\ \A f \in frames : f.type = "addresses" => Member(f.to)

\* How far a process has come tells which streams it has
Dialled ==
    \A p \in R!Processes \ {0} :
        /\ at[p] = "addresses" => peers[p][0] = 0
        /\ at[p] \in {"dial", "greet"} /\ target[p] # 0 =>
            /\ Member(p) /\ peers[p][0] = 0 /\ target[p] \in claim[p].rank + 1 .. World - 1
            /\ \A r \in claim[p].rank + 1 .. target[p] - 1 : peers[p][r] # R!Nobody
        /\ at[p] \in {"accept", "hello"} =>
            /\ Member(p) /\ peers[p][0] = 0
            /\ \A r \in claim[p].rank + 1 .. World - 1 : peers[p][r] # R!Nobody
        /\ at[p] \in {"response", "joined"} => Member(p) /\ Full(p)

\* A request or a response on its way carries what its reader concludes from it
BarrierPassed ==
    /\ \A f \in frames :
        /\ f.type = "request" => f.from \in R!Processes \ {0} /\ Full(f.from)
        /\ f.type = "response" => Everyone
    /\ at[0] \in {"tell", "gather", "reply"} => Collected /\ target[0] \in 1 .. World - 1
    /\ at[0] = "gather" => \A r \in 1 .. target[0] - 1 : Full(book[r])
    /\ at[0] \in {"reply", "joined"} => Everyone
    /\ \A p \in R!Processes : at[p] = "joined" => Everyone

\* The inductive invariant: a stream is one of a member to a member, and whoever
\* joins has been told, through process 0, that every member has all of its own.
MeshInv ==
    Claimed /\ MeetingType /\ ZeroPeers /\ MemberPeers /\ Callers /\ Dialled /\ BarrierPassed

-----------------------------------------------------------------------------
\* What the processes have before they meet.
LEMMA MeshInit == SessionInit => MeshInv
<1> SUFFICES ASSUME NEW s \in Sessions, R!Init(s.claims)
             PROVE  MeshInv
  BY DEF SessionInit
<1> USE DEF R!Init
<1>1. Claimed
  BY SessionsAssumption DEF Claimed
<1>2. MeetingType
  BY <1>1 DEF MeetingType, Claimed, Places
<1>3. \A p \in R!Processes, r \in Ranks : peers[p][r] = R!Nobody
  BY <1>1 DEF Claimed
<1>4. Collected => World = 1
  <2>1. DOMAIN book = {}
    OBVIOUS
  <2>2. World # 1 => 1 \in 1 .. World - 1
    OBVIOUS
  <2> QED
    BY <2>1, <2>2 DEF Collected
<1>5. ZeroPeers
  BY <1>1, <1>3, <1>4 DEF ZeroPeers, Claimed
<1>6. MemberPeers
  BY <1>1, <1>3, <1>4 DEF MemberPeers, Claimed
<1>7. Callers
  BY <1>1 DEF Callers, Claimed
<1>8. Dialled
  BY <1>1 DEF Dialled, Claimed
<1>9. BarrierPassed
  BY <1>1 DEF BarrierPassed, Claimed
<1> QED
  BY <1>1, <1>2, <1>5, <1>6, <1>7, <1>8, <1>9 DEF MeshInv

\* Taking the head of a queue.
LEMMA QueueTail ==
    ASSUME NEW S, NEW b \in Seq(S), b # <<>>
    PROVE  /\ Head(b) \in S /\ Head(b) = b[1] /\ Len(b) \in Nat \ {0}
           /\ Tail(b) \in Seq(S) /\ Len(Tail(b)) = Len(b) - 1
           /\ \A i \in 1 .. Len(Tail(b)) : Tail(b)[i] = b[i + 1]
OBVIOUS

\* Who is in the book is a member, with the rank it is booked for.
LEMMA MembersAre ==
    ASSUME Claimed, MeetingType, ZeroPeers, Collected, NEW r \in 1 .. World - 1
    PROVE  /\ book[r] \in R!Processes \ {0} /\ Member(book[r])
           /\ claim[book[r]] = [claim[0] EXCEPT !.rank = r] /\ claim[book[r]].rank = r
<1>1. book[r] = peers[0][r] /\ peers[0][r] # R!Nobody
      /\ claim[peers[0][r]] = [claim[0] EXCEPT !.rank = r]
  BY DEF ZeroPeers
<1>2. book[r] \in R!Processes
  BY <1>1 DEF Claimed, MeetingType
<1>3. claim[book[r]] = [claim[0] EXCEPT !.rank = r]
  BY <1>1
<1>4. claim[0] = [rank |-> claim[0].rank, settings |-> claim[0].settings]
  BY DEF Claimed
<1>5. claim[book[r]].rank = r
  BY <1>3, <1>4
<1>6. book[r] # 0
  BY <1>5 DEF Claimed
<1> QED
  BY <1>2, <1>3, <1>5, <1>6 DEF Member

\* What a process leaves alone: the streams and the book only grow.
LEMMA Growth ==
    ASSUME Claimed, MeetingType, ZeroPeers, claim' = claim,
           \A p \in R!Processes, r \in Ranks : peers[p][r] # R!Nobody => peers'[p][r] # R!Nobody,
           Collected => Collected' /\ \A r \in 1 .. World - 1 : book'[r] = book[r]
    PROVE  /\ \A p : Member(p) => Member(p)'
           /\ \A p \in R!Processes : Full(p) => Full(p)'
           /\ Everyone => Everyone'
<1>1. \A p : Member(p) => Member(p)'
  BY DEF Member, Claimed
<1>2. \A p \in R!Processes : Full(p) => Full(p)'
  BY DEF Full
<1>3. ASSUME Everyone
      PROVE  Everyone'
  <2>1. Collected' /\ Collected
    BY <1>3 DEF Everyone
  <2>2. ASSUME NEW r \in 1 .. World - 1
        PROVE  Full(book[r])'
    <3>1. book'[r] = book[r] /\ Full(book[r])
      BY <1>3, <2>1 DEF Everyone
    <3>2. book[r] \in R!Processes
      BY <2>1, MembersAre
    <3> QED
      BY <3>1, <3>2 DEF Full
  <2> QED
    BY <2>1, <2>2 DEF Everyone
<1> QED
  BY <1>1, <1>2, <1>3

\* Everybody has the streams and is the member that it was
Steady ==
    /\ Claimed' /\ ZeroPeers' /\ MemberPeers'
    /\ Collected' = Collected /\ Everyone' = Everyone
    /\ \A p : Member(p)' = Member(p) /\ Full(p)' = Full(p)

\* A step that touches neither streams nor book.
LEMMA SameStreams == ASSUME MeshInv, UNCHANGED <<claim, peers, book>> PROVE Steady
<1>1. Collected' = Collected
  BY DEF Collected
<1>2. \A p : Member(p)' = Member(p) /\ Full(p)' = Full(p)
  BY <1>1 DEF Member, Full
<1> QED
  BY <1>1, <1>2 DEF MeshInv, Steady, Claimed, ZeroPeers, MemberPeers, Everyone, Full, Member

-----------------------------------------------------------------------------
\* A process that fails leaves its streams to the others' tables.
LEMMA StopKeeps == ASSUME MeshInv, NEW p \in R!Processes, R!Stop(p) PROVE MeshInv'
<1> USE DEF R!Stop
<1>1. UNCHANGED <<claim, peers, book>>
  OBVIOUS
<1>2. Steady
  BY <1>1, SameStreams
<1>3. MeetingType'
  BY DEF MeshInv, MeetingType, Places
<1>4. Callers'
  BY <1>2 DEF Steady, MeshInv, MeetingType, Callers
<1>5. Dialled'
  BY <1>2 DEF Steady, MeshInv, MeetingType, Dialled
<1>6. BarrierPassed'
  BY <1>2 DEF Steady, MeshInv, MeetingType, BarrierPassed
<1> QED
  BY <1>2, <1>3, <1>4, <1>5, <1>6 DEF Steady, MeshInv

\* A connection to a process that listens: only members know where that is.
LEMMA DialKeeps == ASSUME MeshInv, NEW p \in R!Processes, R!Dial(p) PROVE MeshInv'
<1> USE DEF R!Dial
<1>1. UNCHANGED <<claim, peers, book>>
  OBVIOUS
<1>2. Steady
  BY <1>1, SameStreams
<1> DEFINE a == R!AddressOf(p)
<1>3. p # 0
  BY DEF MeshInv, MeetingType
<1>4. a \in R!Processes /\ (a # 0 => Member(p))
  <2>1. CASE target[p] = 0
    BY <2>1 DEF R!AddressOf, MeshInv, Claimed
  <2>2. CASE target[p] # 0
    <3>1. Member(p) /\ target[p] \in 1 .. World - 1
      BY <1>3, <2>2 DEF MeshInv, Dialled, Claimed
    <3>2. book[target[p]] \in R!Processes
      BY <3>1, MembersAre DEF MeshInv, Member
    <3> QED
      BY <2>2, <3>1, <3>2 DEF R!AddressOf
  <2> QED
    BY <2>1, <2>2
<1>5. backlog[a] \in Seq(R!Processes) /\ Append(backlog[a], p) \in Seq(R!Processes)
  BY <1>4 DEF MeshInv, MeetingType
<1>6. /\ Len(Append(backlog[a], p)) = Len(backlog[a]) + 1 /\ Append(backlog[a], p)[Len(backlog[a]) + 1] = p
      /\ \A i \in 1 .. Len(backlog[a]) : Append(backlog[a], p)[i] = backlog[a][i]
  BY <1>5
<1>7. backlog' = [backlog EXCEPT ![a] = Append(@, p)] /\ at' = [at EXCEPT ![p] = "greet"]
      /\ UNCHANGED <<claim, target, caller, peers, frames, book>> /\ at[p] = "dial"
  OBVIOUS
<1> HIDE DEF a, R!Dial
<1>8. MeetingType'
  BY <1>3, <1>4, <1>5, <1>7 DEF MeshInv, MeetingType, Places
<1>9. ASSUME NEW q \in R!Processes \ {0}, NEW i \in 1 .. Len(backlog'[q])
      PROVE  Member(backlog'[q][i])
  <2>1. CASE q # a
    BY <1>7, <2>1 DEF MeshInv, MeetingType, Callers
  <2>2. CASE q = a
    <3>1. backlog'[q] = Append(backlog[a], p)
      BY <1>4, <1>7, <2>2 DEF MeshInv, MeetingType
    <3>2. CASE i = Len(backlog[a]) + 1
      BY <1>4, <1>6, <2>2, <3>1, <3>2
    <3>3. CASE i # Len(backlog[a]) + 1
      <4>1. i \in 1 .. Len(backlog[a])
        BY <1>5, <1>6, <3>1, <3>3
      <4> QED
        BY <1>6, <2>2, <3>1, <4>1 DEF MeshInv, Callers
    <3> QED
      BY <3>2, <3>3
  <2> QED
    BY <2>1, <2>2
<1>10. \A q \in R!Processes \ {0} : \A i \in 1 .. Len(backlog'[q]) : Member(backlog[q][i])'
  BY <1>2, <1>7, <1>9 DEF Steady, Member, Collected
<1>11. Callers'
  BY <1>2, <1>7, <1>10 DEF Steady, MeshInv, MeetingType, Callers
<1>12. Dialled'
  BY <1>2, <1>7 DEF Steady, MeshInv, MeetingType, Dialled
<1>13. BarrierPassed'
  BY <1>2, <1>7 DEF Steady, MeshInv, MeetingType, BarrierPassed
<1> QED
  BY <1>2, <1>8, <1>11, <1>12, <1>13 DEF Steady, MeshInv

LEMMA AddressesReadKeeps == ASSUME MeshInv, NEW p \in R!Processes, R!AddressesRead(p) PROVE MeshInv'
<1> USE DEF R!AddressesRead
<1>1. UNCHANGED <<claim, peers, book>>
  OBVIOUS
<1>2. Steady
  BY <1>1, SameStreams
<1>3. p # 0 /\ peers[p][0] = 0 /\ Member(p)
  BY DEF MeshInv, MeetingType, Dialled, Callers, R!Frame
<1>4. claim[p].rank \in 1 .. World - 1
  BY <1>3 DEF MeshInv, Claimed
<1>5. MeetingType'
  BY <1>3, <1>4 DEF MeshInv, MeetingType, Places, R!Dialling
<1>6. Callers'
  BY <1>2, <1>3 DEF Steady, MeshInv, MeetingType, Callers, R!Dialling
<1>7. Dialled'
  BY <1>2, <1>3, <1>4 DEF Steady, MeshInv, MeetingType, Dialled, R!Dialling
<1>8. BarrierPassed'
  BY <1>2, <1>3 DEF Steady, MeshInv, MeetingType, BarrierPassed, R!Dialling
<1> QED
  BY <1>2, <1>5, <1>6, <1>7, <1>8 DEF Steady, MeshInv

\* The connection that was waiting longest.
LEMMA AcceptKeeps == ASSUME MeshInv, NEW p \in R!Processes, R!Accept(p) PROVE MeshInv'
<1> USE DEF R!Accept
<1>1. UNCHANGED <<claim, peers, book>>
  OBVIOUS
<1>2. Steady
  BY <1>1, SameStreams
<1>3. backlog[p] \in Seq(R!Processes) /\ backlog[p] # <<>>
  BY DEF MeshInv, MeetingType
<1> DEFINE b == backlog[p]
<1>4. /\ Head(b) \in R!Processes /\ Head(b) = b[1] /\ Len(b) \in Nat \ {0}
      /\ Tail(b) \in Seq(R!Processes) /\ Len(Tail(b)) = Len(b) - 1
      /\ \A i \in 1 .. Len(Tail(b)) : Tail(b)[i] = b[i + 1]
  BY <1>3, QueueTail
<1>5. MeetingType'
  BY <1>4 DEF MeshInv, MeetingType, Places
<1>6. ASSUME NEW q \in R!Processes \ {0}
      PROVE  /\ \A i \in 1 .. Len(backlog'[q]) : Member(backlog'[q][i])
             /\ at'[q] = "hello" => Member(caller'[q])
  <2>1. CASE q = p
    <3>1. backlog'[q] = Tail(b) /\ caller'[q] = b[1]
      BY <1>4, <2>1 DEF MeshInv, MeetingType
    <3>2. \A i \in 1 .. Len(b) : Member(b[i])
      BY <2>1 DEF MeshInv, Callers
    <3>3. \A i \in 1 .. Len(Tail(b)) : i + 1 \in 1 .. Len(b) /\ Tail(b)[i] = b[i + 1]
      BY <1>4
    <3>4. 1 \in 1 .. Len(b)
      BY <1>4
    <3> HIDE DEF b
    <3> QED
      BY <3>1, <3>2, <3>3, <3>4
  <2>2. CASE q # p
    BY <2>2 DEF MeshInv, MeetingType, Callers
  <2> QED
    BY <2>1, <2>2
<1>7. at'[0] = "hello" => caller'[0] \in R!Processes
  BY <1>4 DEF MeshInv, MeetingType, Callers
<1>8. Callers'
  BY <1>2, <1>6, <1>7 DEF Steady, MeshInv, Callers, Member, Collected
<1>9. Dialled'
  BY <1>2 DEF Steady, MeshInv, MeetingType, Dialled
<1>10. BarrierPassed'
  BY <1>2 DEF Steady, MeshInv, MeetingType, BarrierPassed
<1> QED
  BY <1>2, <1>5, <1>8, <1>9, <1>10 DEF Steady, MeshInv

\* Process 0 tells the addresses to those it took them from.
LEMMA TellKeeps == ASSUME MeshInv, R!TellAddresses PROVE MeshInv'
<1> SUFFICES ASSUME /\ at[0] = "tell" /\ target[0] < World
                    /\ frames' \subseteq frames \cup {R!Frame(0, peers[0][target[0]], "addresses")}
                    /\ target' = [target EXCEPT ![0] = IF @ + 1 = World THEN 1 ELSE @ + 1]
                    /\ at' = [at EXCEPT ![0] = IF target[0] + 1 = World THEN "gather" ELSE @]
                    /\ UNCHANGED <<claim, backlog, caller, peers, book>>
             PROVE  MeshInv'
  <2>1. 0 \in R!Processes
    BY DEF MeshInv, Claimed
  <2> QED
    BY <2>1, StopKeeps DEF R!TellAddresses, R!Round, R!Writes, R!Fail
<1>1. Steady
  BY SameStreams
<1>2. Collected /\ target[0] \in 1 .. World - 1
  BY DEF MeshInv, BarrierPassed
<1>3. Member(peers[0][target[0]])
  BY <1>2, MembersAre DEF MeshInv, ZeroPeers
<1>4. MeetingType'
  <2>1. target[0] + 1 \in Nat /\ target \in [R!Processes -> Nat]
    BY <1>2 DEF MeshInv, MeetingType
  <2>3. target' \in [R!Processes -> Nat]
    BY <2>1
  <2>4. at' \in [R!Processes -> Places]
    BY DEF MeshInv, MeetingType, Places
  <2>2. /\ at'[0] \in {"accept", "hello", "tell", "gather", "reply", "joined", "failed"}
        /\ \A q \in R!Processes \ {0} : at'[q] \notin {"tell", "gather", "reply"}
    BY DEF MeshInv, MeetingType, Places
  <2> QED
    BY <2>2, <2>3, <2>4 DEF MeshInv, MeetingType
<1>5. Callers'
  BY <1>1, <1>3 DEF Steady, MeshInv, MeetingType, Callers, R!Frame
<1>6. Dialled'
  BY <1>1 DEF Steady, MeshInv, MeetingType, Dialled
<1>7. BarrierPassed'
  BY <1>1, <1>2 DEF Steady, MeshInv, MeetingType, BarrierPassed, R!Frame
<1> QED
  BY <1>1, <1>4, <1>5, <1>6, <1>7 DEF Steady, MeshInv

\* A request of a peer says that it has all of its streams.
LEMMA GatherKeeps == ASSUME MeshInv, R!Gather PROVE MeshInv'
<1> USE DEF R!Gather
<1>1. UNCHANGED <<claim, peers, book>>
  OBVIOUS
<1>2. Steady
  BY <1>1, SameStreams
<1>3. Collected /\ target[0] \in 1 .. World - 1
  BY DEF MeshInv, BarrierPassed
<1>4. Full(book[target[0]])
  BY <1>3 DEF MeshInv, ZeroPeers, BarrierPassed, R!Frame
<1>5. \A r \in 1 .. target[0] : Full(book[r])
  BY <1>3, <1>4 DEF MeshInv, BarrierPassed
<1>6. MeetingType'
  <2>1. target[0] + 1 \in Nat /\ target \in [R!Processes -> Nat]
    BY <1>3 DEF MeshInv, MeetingType
  <2>2. target' \in [R!Processes -> Nat]
    BY <2>1
  <2>3. at' \in [R!Processes -> Places]
    BY DEF MeshInv, MeetingType, Places
  <2>4. /\ at'[0] \in {"accept", "hello", "tell", "gather", "reply", "joined", "failed"}
        /\ \A q \in R!Processes \ {0} : at'[q] \notin {"tell", "gather", "reply"}
    BY DEF MeshInv, MeetingType, Places
  <2> QED
    BY <2>2, <2>3, <2>4 DEF MeshInv, MeetingType
<1>7. Callers'
  BY <1>2 DEF Steady, MeshInv, MeetingType, Callers
<1>8. Dialled'
  BY <1>2 DEF Steady, MeshInv, MeetingType, Dialled
<1>9. BarrierPassed'
  <2>1. target[0] + 1 = World => Everyone
    BY <1>3, <1>5 DEF Everyone
  <2>2. target'[0] \in 1 .. World - 1 /\ (target[0] + 1 # World => target'[0] - 1 = target[0])
    <3>1. target'[0] = IF target[0] + 1 = World THEN 1 ELSE target[0] + 1
      BY DEF MeshInv, Claimed, MeetingType
    <3> QED
      BY ONLY <1>3, <3>1, WorldAssumption
  <2>3. at'[0] = "gather" => \A r \in 1 .. target'[0] - 1 : Full(book[r])
    BY <1>5, <2>2 DEF MeshInv, Claimed, MeetingType
  <2>4. at'[0] = "gather" => \A r \in 1 .. target'[0] - 1 : Full(book[r])'
    BY <1>2, <2>3 DEF Steady, Full
  <2>5. at'[0] \in {"gather", "reply"} /\ (at'[0] = "reply" => Everyone)
        /\ \A q \in R!Processes \ {0} : at'[q] = at[q]
    BY <2>1 DEF MeshInv, Claimed, MeetingType
  <2> QED
    BY <1>2, <1>3, <2>2, <2>4, <2>5 DEF Steady, MeshInv, BarrierPassed
<1> QED
  BY <1>2, <1>6, <1>7, <1>8, <1>9 DEF Steady, MeshInv

\* Process 0 answers when everyone has asked.
LEMMA ReplyKeeps == ASSUME MeshInv, R!Reply PROVE MeshInv'
<1> SUFFICES ASSUME /\ at[0] = "reply" /\ target[0] < World
                    /\ frames' \subseteq frames \cup {R!Frame(0, peers[0][target[0]], "response")}
                    /\ target' = [target EXCEPT ![0] = IF @ + 1 = World THEN 1 ELSE @ + 1]
                    /\ at' = [at EXCEPT ![0] = IF target[0] + 1 = World THEN "joined" ELSE @]
                    /\ UNCHANGED <<claim, backlog, caller, peers, book>>
             PROVE  MeshInv'
  <2>1. 0 \in R!Processes
    BY DEF MeshInv, Claimed
  <2> QED
    BY <2>1, StopKeeps DEF R!Reply, R!Round, R!Writes, R!Fail
<1>1. Steady
  BY SameStreams
<1>2. Collected /\ Everyone /\ target[0] \in 1 .. World - 1
  BY DEF MeshInv, BarrierPassed
<1>3. MeetingType'
  <2>1. target[0] + 1 \in Nat /\ target \in [R!Processes -> Nat]
    BY <1>2 DEF MeshInv, MeetingType
  <2>2. target' \in [R!Processes -> Nat]
    BY <2>1
  <2>3. at' \in [R!Processes -> Places]
    BY DEF MeshInv, MeetingType, Places
  <2>4. /\ at'[0] \in {"accept", "hello", "tell", "gather", "reply", "joined", "failed"}
        /\ \A q \in R!Processes \ {0} : at'[q] \notin {"tell", "gather", "reply"}
    BY DEF MeshInv, MeetingType, Places
  <2> QED
    BY <2>2, <2>3, <2>4 DEF MeshInv, MeetingType
<1>4. Callers'
  BY <1>1 DEF Steady, MeshInv, MeetingType, Callers, R!Frame
<1>5. Dialled'
  BY <1>1 DEF Steady, MeshInv, MeetingType, Dialled
<1>6. BarrierPassed'
  BY <1>1, <1>2 DEF Steady, MeshInv, MeetingType, Claimed, BarrierPassed, R!Frame
<1> QED
  BY <1>1, <1>3, <1>4, <1>5, <1>6 DEF Steady, MeshInv

\* Counting the streams finds none missing.
LEMMA AssembledAll ==
    ASSUME MeshInv, NEW p \in R!Processes, R!Assembled(p)
    PROVE  \A r \in R!Expected(p) : peers[p][r] # R!Nobody
<1>1. R!Expected(p) \subseteq 0 .. World
  BY DEF R!Expected, MeshInv, Claimed
<1>2. IsFiniteSet(R!Expected(p))
  <2>1. 0 \in Int /\ World \in Int
    OBVIOUS
  <2>2. IsFiniteSet(0 .. World)
    BY ONLY <2>1, FS_Interval
  <2> QED
    BY <1>1, <2>2, FS_Subset
<1>3. R!Accepted(p) \subseteq R!Expected(p)
  BY DEF R!Accepted
<1>4. R!Accepted(p) = R!Expected(p)
  <2>1. Cardinality(R!Accepted(p)) = Cardinality(R!Expected(p))
    BY DEF R!Assembled, R!Cardinality, Cardinality
  <2> QED
    BY <1>2, <1>3, <2>1, FS_Subset
<1> QED
  BY <1>4 DEF R!Accepted

\* A process enters the barrier with a stream for every rank.
LEMMA EnterBarrierKeeps == ASSUME MeshInv, NEW p \in R!Processes, R!EnterBarrier(p) PROVE MeshInv'
<1> SUFFICES ASSUME /\ p # 0 /\ at[p] = "accept" /\ R!Assembled(p)
                    /\ frames' \subseteq frames \cup {R!Frame(p, 0, "request")}
                    /\ at' = [at EXCEPT ![p] = "response"]
                    /\ UNCHANGED <<claim, target, backlog, caller, peers, book>>
             PROVE  MeshInv'
  BY StopKeeps DEF R!EnterBarrier, R!Writes, R!Fail
<1>1. Steady
  BY SameStreams
<1>2. Member(p) /\ Full(p)
  <2>1. /\ Member(p) /\ peers[p][0] = 0 /\ claim[p].rank \in 1 .. World - 1
        /\ \A r \in claim[p].rank + 1 .. World - 1 : peers[p][r] # R!Nobody
    BY DEF MeshInv, Dialled, Claimed
  <2>2. \A r \in 1 .. claim[p].rank - 1 : peers[p][r] # R!Nobody
    BY AssembledAll DEF R!Expected
  <2>3. \A r \in Ranks \ {claim[p].rank} :
            r = 0 \/ r \in 1 .. claim[p].rank - 1 \/ r \in claim[p].rank + 1 .. World - 1
    BY <2>1
  <2>4. 0 # R!Nobody
    OBVIOUS
  <2> QED
    BY <2>1, <2>2, <2>3, <2>4 DEF Full
<1>3. MeetingType'
  BY DEF MeshInv, MeetingType, Places
<1>4. Callers'
  BY <1>1 DEF Steady, MeshInv, MeetingType, Callers, R!Frame
<1>5. Dialled'
  BY <1>1, <1>2 DEF Steady, MeshInv, MeetingType, Dialled
<1>6. BarrierPassed'
  BY <1>1, <1>2 DEF Steady, MeshInv, MeetingType, BarrierPassed, R!Frame
<1> QED
  BY <1>1, <1>3, <1>4, <1>5, <1>6 DEF Steady, MeshInv

LEMMA ResponseReadKeeps == ASSUME MeshInv, NEW p \in R!Processes, R!ResponseRead(p) PROVE MeshInv'
<1> USE DEF R!ResponseRead
<1>1. UNCHANGED <<claim, peers, book>>
  OBVIOUS
<1>2. Steady
  BY <1>1, SameStreams
<1>3. Everyone /\ p # 0
  BY DEF MeshInv, MeetingType, BarrierPassed, R!Frame
<1>4. MeetingType'
  BY DEF MeshInv, MeetingType, Places
<1>5. Callers'
  BY <1>2 DEF Steady, MeshInv, MeetingType, Callers
<1>6. Dialled'
  BY <1>2 DEF Steady, MeshInv, MeetingType, Dialled
<1>7. BarrierPassed'
  BY <1>2, <1>3 DEF Steady, MeshInv, MeetingType, BarrierPassed
<1> QED
  BY <1>2, <1>4, <1>5, <1>6, <1>7 DEF Steady, MeshInv

-----------------------------------------------------------------------------
\* Process 0 books everyone it accepted, and books nobody twice.
LEMMA CollectKeeps == ASSUME MeshInv, R!CollectAddresses PROVE MeshInv'
<1> SUFFICES ASSUME /\ at[0] = "accept" /\ R!Assembled(0)
                    /\ book' = [r \in 1 .. World - 1 |-> peers[0][r]]
                    /\ target' = [target EXCEPT ![0] = 1]
                    /\ at' = [at EXCEPT ![0] = IF World = 1 THEN "joined" ELSE "tell"]
                    /\ UNCHANGED <<claim, backlog, caller, peers, frames>>
             PROVE  MeshInv'
  BY DEF R!CollectAddresses
<1>1. 0 \in R!Processes /\ \A r \in 1 .. World - 1 : peers[0][r] # R!Nobody
  BY AssembledAll DEF R!Expected, MeshInv, Claimed
<1>2. Collected' /\ \A r \in 1 .. World - 1 : book'[r] = peers[0][r]
  BY DEF Collected
<1>3. Collected => \A r \in 1 .. World - 1 : book'[r] = book[r]
  BY <1>2 DEF MeshInv, ZeroPeers
<1>4. /\ \A p : Member(p) => Member(p)'
      /\ \A p \in R!Processes : Full(p)' <=> Full(p)
      /\ Everyone => Everyone'
  <2>1. \A p \in R!Processes : Full(p)' <=> Full(p)
    BY DEF Full
  <2> QED
    BY <1>2, <1>3, <2>1, Growth DEF MeshInv
<1>5. Claimed'
  BY DEF MeshInv, Claimed
<1>6. MeetingType'
  BY DEF MeshInv, MeetingType, Places
<1>7. ZeroPeers'
  BY <1>1, <1>2 DEF MeshInv, ZeroPeers
<1>8. MemberPeers'
  <2>1. ASSUME NEW p \in R!Processes \ {0}, NEW r \in 1 .. World - 1, peers[p][r] # R!Nobody
        PROVE  Member(p)' /\ peers[p][r] = book'[r]
    BY <1>3, <1>4, <2>1 DEF MeshInv, MemberPeers, Member
  <2> QED
    BY <2>1 DEF MeshInv, MemberPeers
<1>9. Callers'
  BY <1>4 DEF MeshInv, MeetingType, Callers
<1>10. Dialled'
  <2>1. ASSUME NEW p \in R!Processes \ {0}
        PROVE  at'[p] = at[p] /\ target'[p] = target[p]
    BY DEF MeshInv, MeetingType
  <2> QED
    BY <1>4, <2>1 DEF MeshInv, Dialled
<1>11. BarrierPassed'
  <2>1. at'[0] \in {"tell", "joined"} /\ target'[0] = 1 /\ (at'[0] = "joined" <=> World = 1)
    BY <1>1 DEF MeshInv, MeetingType
  <2>2. World = 1 => Everyone'
    BY <1>2 DEF Everyone
  <2>3. \A p \in R!Processes \ {0} : at'[p] = at[p]
    BY DEF MeshInv, MeetingType
  <2> QED
    BY <1>2, <1>4, <2>1, <2>2, <2>3 DEF MeshInv, BarrierPassed
<1> QED
  BY <1>5, <1>6, <1>7, <1>8, <1>9, <1>10, <1>11 DEF MeshInv

\* The greeting: to process 0, or from a member to the member of the rank it dials.
LEMMA GreetKeeps == ASSUME MeshInv, NEW p \in R!Processes, R!Greet(p) PROVE MeshInv'
<1> DEFINE t == target[p]
           q == R!AddressOf(p)
<1> SUFFICES ASSUME /\ at[p] = "greet"
                    /\ frames' \subseteq frames \cup {R!Frame(p, q, "hello")}
                    /\ peers' = [peers EXCEPT ![p][t] = q]
                    /\ target' = [target EXCEPT ![p] = IF @ = 0 THEN @ ELSE @ + 1]
                    /\ at' = [at EXCEPT ![p] = IF t = 0 THEN "addresses" ELSE R!Dialling(t + 1)]
                    /\ UNCHANGED <<claim, backlog, caller, book>>
             PROVE  MeshInv'
  BY StopKeeps DEF R!Greet, R!Writes, R!Fail
<1>1. p # 0 /\ 0 \in R!Processes
  BY DEF MeshInv, MeetingType, Claimed
<1>2. t # 0 => /\ Member(p) /\ Collected /\ peers[p][0] = 0 /\ t \in claim[p].rank + 1 .. World - 1
               /\ \A r \in claim[p].rank + 1 .. t - 1 : peers[p][r] # R!Nobody
  BY <1>1 DEF MeshInv, Dialled, Member
<1>3. claim[p].rank \in 1 .. World - 1
  BY <1>1 DEF MeshInv, Claimed
<1>4. t \in Ranks /\ (t = 0 => q = 0) /\ (t # 0 => q = book[t]) /\ q \in R!Processes
  <2>1. CASE t = 0
    BY <1>1, <2>1 DEF R!AddressOf
  <2>2. CASE t # 0
    <3>1. t \in 1 .. World - 1 /\ q = book[t]
      BY <1>2, <1>3, <2>2 DEF R!AddressOf
    <3> HIDE DEF t, q
    <3>2. book[t] \in R!Processes
      BY <1>2, <2>2, <3>1, MembersAre DEF MeshInv
    <3> QED
      BY <2>2, <3>1, <3>2
  <2> QED
    BY <2>1, <2>2
<1> HIDE DEF t, q
<1>5. /\ peers' \in [R!Processes -> [Ranks -> R!Processes \cup {R!Nobody}]]
      /\ \A s \in R!Processes, r \in Ranks : peers'[s][r] = IF s = p /\ r = t THEN q ELSE peers[s][r]
  BY <1>4 DEF MeshInv, MeetingType
<1>6. q # R!Nobody
  BY <1>4 DEF MeshInv, Claimed
<1>7. Collected' = Collected /\ \A s : Member(s)' = Member(s)
  BY DEF Collected, Member
<1>8. /\ \A s \in R!Processes : Full(s) => Full(s)'
      /\ Everyone => Everyone'
  BY <1>5, <1>6, <1>7, Growth DEF MeshInv
<1>9. Claimed'
  BY DEF MeshInv, Claimed
<1>10. target' \in [R!Processes -> Nat] /\ target'[p] = (IF t = 0 THEN 0 ELSE t + 1)
       /\ at' \in [R!Processes -> Places] /\ at'[p] = (IF t = 0 THEN "addresses" ELSE IF t + 1 < World THEN "dial" ELSE "accept")
       /\ \A s \in R!Processes \ {p} : at'[s] = at[s] /\ target'[s] = target[s]
  <2>1. target[p] = t /\ target \in [R!Processes -> Nat] /\ at \in [R!Processes -> Places]
    BY DEF t, MeshInv, MeetingType
  <2> QED
    BY <2>1 DEF Places, R!Dialling
<1>11. MeetingType'
  BY <1>1, <1>5, <1>10 DEF MeshInv, MeetingType
<1>12. ZeroPeers'
  <2>1. \A r \in 1 .. World - 1 : peers'[0][r] = peers[0][r]
    BY <1>1, <1>5
  <2> QED
    BY <1>7, <2>1 DEF MeshInv, ZeroPeers
<1>13. MemberPeers'
  <2>1. ASSUME NEW s \in R!Processes \ {0}
        PROVE  /\ peers'[s][0] \in {0, R!Nobody}
               /\ \A r \in 1 .. World - 1 : peers'[s][r] # R!Nobody => Member(s) /\ peers'[s][r] = book[r]
    <3>1. peers'[s][0] \in {0, R!Nobody}
      BY <1>4, <1>5 DEF MeshInv, MemberPeers
    <3>2. ASSUME NEW r \in 1 .. World - 1, peers'[s][r] # R!Nobody
          PROVE  Member(s) /\ peers'[s][r] = book[r]
      <4>1. CASE s = p /\ r = t
        BY <1>2, <1>4, <1>5, <4>1
      <4>2. CASE ~(s = p /\ r = t)
        BY <1>5, <3>2, <4>2 DEF MeshInv, MemberPeers
      <4> QED
        BY <4>1, <4>2
    <3> QED
      BY <3>1, <3>2
  <2> QED
    BY <1>7, <2>1 DEF MemberPeers
<1>14. Callers'
  <2>1. ASSUME NEW s \in R!Processes, at'[s] = "hello"
        PROVE  at[s] = "hello"
    BY <1>10, <2>1
  <2> QED
    BY <1>1, <1>7, <2>1 DEF MeshInv, MeetingType, Callers, R!Frame
<1>15. Dialled'
  <2>1. ASSUME NEW s \in R!Processes \ {0, p}
        PROVE  peers'[s][0] = peers[s][0] /\ \A r \in Ranks : peers'[s][r] = peers[s][r]
    BY <1>5
  <2>2. ASSUME NEW s \in R!Processes \ {0, p}
        PROVE  /\ at[s] = "addresses" => peers'[s][0] = 0
               /\ at[s] \in {"dial", "greet"} /\ target[s] # 0 =>
                    /\ Member(s) /\ peers'[s][0] = 0 /\ target[s] \in claim[s].rank + 1 .. World - 1
                    /\ \A r \in claim[s].rank + 1 .. target[s] - 1 : peers'[s][r] # R!Nobody
               /\ at[s] \in {"accept", "hello"} =>
                    /\ Member(s) /\ peers'[s][0] = 0
                    /\ \A r \in claim[s].rank + 1 .. World - 1 : peers'[s][r] # R!Nobody
               /\ at[s] \in {"response", "joined"} => Member(s) /\ Full(s)
    <3>1. claim[s].rank \in Nat
      BY DEF MeshInv, Claimed
    <3> QED
      BY <2>1, <3>1 DEF MeshInv, Dialled
  <2>3. t = 0 => at'[p] = "addresses" /\ peers'[p][0] = 0
    BY <1>4, <1>5, <1>10
  <2>4. t # 0 => /\ at'[p] \in {"dial", "accept"} /\ (at'[p] = "dial" <=> t + 1 < World) /\ target'[p] = t + 1
                 /\ peers'[p][0] = 0
                 /\ \A r \in claim[p].rank + 1 .. t : peers'[p][r] # R!Nobody
    BY <1>2, <1>3, <1>4, <1>5, <1>6, <1>10
  <2>5. ASSUME NEW s \in R!Processes \ {0}
        PROVE  /\ at'[s] = "addresses" => peers'[s][0] = 0
               /\ at'[s] \in {"dial", "greet"} /\ target'[s] # 0 =>
                    /\ Member(s) /\ peers'[s][0] = 0 /\ target'[s] \in claim[s].rank + 1 .. World - 1
                    /\ \A r \in claim[s].rank + 1 .. target'[s] - 1 : peers'[s][r] # R!Nobody
               /\ at'[s] \in {"accept", "hello"} =>
                    /\ Member(s) /\ peers'[s][0] = 0
                    /\ \A r \in claim[s].rank + 1 .. World - 1 : peers'[s][r] # R!Nobody
               /\ at'[s] \in {"response", "joined"} => Member(s) /\ Full(s)
    <3>1. CASE s # p
      BY <1>10, <2>2, <3>1
    <3>2. CASE s = p /\ t = 0
      BY <2>3, <3>2
    <3>3. CASE s = p /\ t # 0
      <4>1. CASE t + 1 < World
        BY <1>2, <1>3, <2>4, <3>3, <4>1
      <4>2. CASE ~(t + 1 < World)
        <5>1. t = World - 1
          BY <1>2, <1>3, <3>3, <4>2
        <5> QED
          BY <1>2, <2>4, <3>3, <4>2, <5>1
      <4> QED
        BY <4>1, <4>2
    <3> QED
      BY <3>1, <3>2, <3>3
  <2> QED
    BY <1>7, <1>8, <2>5 DEF Dialled
<1>16. BarrierPassed'
  <2>1. at'[0] = at[0] /\ target'[0] = target[0]
    BY <1>1, <1>10
  <2>2. ASSUME at[0] = "gather", NEW r \in 1 .. target[0] - 1
        PROVE  Full(book[r])'
    <3>1. Full(book[r]) /\ Collected /\ r \in 1 .. World - 1
      BY <2>2 DEF MeshInv, BarrierPassed
    <3>2. book[r] \in R!Processes
      BY <3>1, MembersAre DEF MeshInv
    <3> QED
      BY <1>8, <3>1, <3>2 DEF Full
  <2>3. \A s \in R!Processes : at'[s] = "joined" => at[s] = "joined"
    BY <1>10
  <2> QED
    BY <1>7, <1>8, <2>1, <2>2, <2>3 DEF MeshInv, BarrierPassed, R!Frame
<1> QED
  BY <1>9, <1>11, <1>12, <1>13, <1>14, <1>15, <1>16 DEF MeshInv

\* A greeting that is welcome: to process 0 it is of the rank and session it says,
\* to a member it is of another member.
LEMMA WelcomeKeeps ==
    ASSUME MeshInv, NEW p \in R!Processes, at[p] = "hello", R!Welcome(p, caller[p]),
           peers' = [peers EXCEPT ![p][claim[caller[p]].rank] = caller[p]],
           frames' \subseteq frames,
           at' = [at EXCEPT ![p] = "accept"],
           UNCHANGED <<claim, target, backlog, caller, book>>
    PROVE  MeshInv'
<1> DEFINE q == caller[p]
           t == claim[q].rank
<1>1. q \in R!Processes /\ (p # 0 => Member(q) /\ Member(p)) /\ 0 \in R!Processes
  BY DEF MeshInv, Claimed, Callers, Dialled, Member
<1>2. claim[q].settings = claim[p].settings /\ peers[p][t] = R!Nobody /\ t \in 1 .. World - 1
  BY <1>1 DEF R!Welcome, R!Expected, MeshInv, Claimed
<1>3. q # R!Nobody
  BY <1>1 DEF MeshInv, Claimed
<1> HIDE DEF t, q
<1>4. /\ peers' \in [R!Processes -> [Ranks -> R!Processes \cup {R!Nobody}]]
      /\ \A s \in R!Processes, r \in Ranks : peers'[s][r] = IF s = p /\ r = t THEN q ELSE peers[s][r]
  BY <1>1, <1>2 DEF MeshInv, MeetingType, t, q
<1>5. Collected' = Collected /\ \A s : Member(s)' = Member(s)
  BY DEF Collected, Member
<1>6. /\ \A s \in R!Processes : Full(s) => Full(s)'
      /\ Everyone => Everyone'
  BY <1>3, <1>4, <1>5, Growth DEF MeshInv
<1>7. Claimed'
  BY DEF MeshInv, Claimed
<1>8. MeetingType'
  BY <1>4 DEF MeshInv, MeetingType, Places
<1>9. ZeroPeers'
  <2>1. CASE p = 0
    <3>1. claim[q] = [claim[0] EXCEPT !.rank = t]
      <4>1. claim[q] = [rank |-> claim[q].rank, settings |-> claim[q].settings]
            /\ claim[0] = [rank |-> claim[0].rank, settings |-> claim[0].settings]
        BY <1>1 DEF MeshInv, Claimed
      <4> QED
        BY <1>2, <2>1, <4>1 DEF t
    <3>2. ~Collected
      BY <1>2, <2>1 DEF MeshInv, ZeroPeers
    <3>3. ASSUME NEW r \in 1 .. World - 1, peers'[0][r] # R!Nobody
          PROVE  claim[peers'[0][r]] = [claim[0] EXCEPT !.rank = r]
      BY <1>1, <1>4, <2>1, <3>1, <3>3 DEF MeshInv, ZeroPeers
    <3> QED
      BY <1>5, <3>2, <3>3 DEF ZeroPeers
  <2>2. CASE p # 0
    <3>1. \A r \in 1 .. World - 1 : peers'[0][r] = peers[0][r]
      BY <1>1, <1>4, <2>2
    <3> QED
      BY <1>5, <3>1 DEF MeshInv, ZeroPeers
  <2> QED
    BY <2>1, <2>2
<1>10. MemberPeers'
  <2>1. ASSUME NEW s \in R!Processes \ {0}
        PROVE  /\ peers'[s][0] \in {0, R!Nobody}
               /\ \A r \in 1 .. World - 1 : peers'[s][r] # R!Nobody => Member(s) /\ peers'[s][r] = book[r]
    <3>1. peers'[s][0] \in {0, R!Nobody}
      BY <1>2, <1>4 DEF MeshInv, MemberPeers
    <3>2. ASSUME NEW r \in 1 .. World - 1, peers'[s][r] # R!Nobody
          PROVE  Member(s) /\ peers'[s][r] = book[r]
      <4>1. CASE s = p /\ r = t
        BY <1>1, <1>4, <4>1 DEF Member, t
      <4>2. CASE ~(s = p /\ r = t)
        BY <1>4, <3>2, <4>2 DEF MeshInv, MemberPeers
      <4> QED
        BY <4>1, <4>2
    <3> QED
      BY <3>1, <3>2
  <2> QED
    BY <1>5, <2>1 DEF MemberPeers
<1>11. Callers'
  <2>1. ASSUME NEW s \in R!Processes, at'[s] = "hello"
        PROVE  at[s] = "hello"
    BY <2>1 DEF MeshInv, MeetingType
  <2> QED
    BY <1>1, <1>5, <2>1 DEF MeshInv, MeetingType, Callers
<1>12. Dialled'
  <2>1. \A s \in R!Processes \ {0} : /\ peers[s][0] = 0 => peers'[s][0] = 0
                                      /\ claim[s].rank \in Nat
                                      /\ \A r \in Ranks : peers[s][r] # R!Nobody => peers'[s][r] # R!Nobody
    BY <1>2, <1>3, <1>4 DEF MeshInv, Claimed
  <2>2. ASSUME NEW s \in R!Processes \ {0}
        PROVE  at'[s] = IF s = p THEN "accept" ELSE at[s]
    BY DEF MeshInv, MeetingType
  <2> QED
    BY <1>5, <1>6, <2>1, <2>2 DEF MeshInv, Dialled
<1>13. BarrierPassed'
  <2>1. at'[0] = (IF p = 0 THEN "accept" ELSE at[0]) /\ target'[0] = target[0]
    BY <1>1 DEF MeshInv, MeetingType
  <2>2. ASSUME at[0] = "gather", NEW r \in 1 .. target[0] - 1
        PROVE  Full(book[r])'
    <3>1. Full(book[r]) /\ Collected /\ r \in 1 .. World - 1
      BY <2>2 DEF MeshInv, BarrierPassed
    <3>2. book[r] \in R!Processes
      BY <3>1, MembersAre DEF MeshInv
    <3> QED
      BY <1>6, <3>1, <3>2 DEF Full
  <2>3. \A s \in R!Processes : at'[s] = "joined" => at[s] = "joined"
    BY DEF MeshInv, MeetingType
  <2> QED
    BY <1>5, <1>6, <2>1, <2>2, <2>3 DEF MeshInv, BarrierPassed
<1> QED
  BY <1>7, <1>8, <1>9, <1>10, <1>11, <1>12, <1>13 DEF MeshInv

\* The invariant, for every step of the meeting and of the calls after it.
LEMMA MeshNext == MeshInv /\ [SessionNext]_<<vars, meeting>> => MeshInv'
<1> SUFFICES ASSUME MeshInv, [SessionNext]_<<vars, meeting>>
             PROVE  MeshInv'
  OBVIOUS
<1>1. CASE UNCHANGED meeting
  <2>1. UNCHANGED <<claim, at, target, backlog, caller, peers, frames, book>>
    BY ONLY <1>1 DEF meeting
  <2>2. Steady
    BY <2>1, SameStreams
  <2>3. MeetingType'
    BY <2>1 DEF MeshInv, MeetingType
  <2>4. Callers'
    BY <2>1, <2>2 DEF MeshInv, Callers, Steady
  <2>5. Dialled'
    BY <2>1, <2>2 DEF MeshInv, Dialled, Steady
  <2>6. BarrierPassed'
    BY <2>1, <2>2 DEF MeshInv, BarrierPassed, Steady
  <2> QED
    BY ONLY <2>2, <2>3, <2>4, <2>5, <2>6 DEF MeshInv, Steady
<1>2. CASE R!Next
  <2>1. PICK p \in R!Processes : R!Progress(p) \/ R!Deadline(p)
    BY <1>2 DEF R!Next
  <2>2. CASE R!Dial(p)
    BY <2>2, DialKeeps
  <2>3. CASE R!Greet(p)
    BY <2>3, GreetKeeps
  <2>4. CASE R!AddressesRead(p)
    BY <2>4, AddressesReadKeeps
  <2>5. CASE R!Accept(p)
    BY <2>5, AcceptKeeps
  <2>6. CASE R!HelloRead(p)
    BY <2>6, WelcomeKeeps, StopKeeps DEF R!HelloRead, R!Fail
  <2>7. CASE R!EnterBarrier(p)
    BY <2>7, EnterBarrierKeeps
  <2>8. CASE R!ResponseRead(p)
    BY <2>8, ResponseReadKeeps
  <2>9. CASE R!Disconnected(p) \/ R!Deadline(p)
    BY <2>9, StopKeeps DEF R!Disconnected, R!Deadline, R!Fail
  <2>10. CASE R!CollectAddresses
    BY <2>10, CollectKeeps
  <2>11. CASE R!TellAddresses
    BY <2>11, TellKeeps
  <2>12. CASE R!Gather
    BY <2>12, GatherKeeps
  <2>13. CASE R!Reply
    BY <2>13, ReplyKeeps
  <2> QED
    BY <2>1, <2>2, <2>3, <2>4, <2>5, <2>6, <2>7, <2>8, <2>9, <2>10, <2>11, <2>12, <2>13 DEF R!Progress
<1> QED
  BY <1>1, <1>2 DEF SessionNext, meeting

\* Whoever has joined knows that everyone has all streams, and all are members'.
LEMMA MeshFollows == MeshInv => MeshSound
<1> SUFFICES ASSUME MeshInv, NEW p \in R!Processes, R!Joined(p), NEW r \in Ranks \ {claim[p].rank}
             PROVE  LET q == peers[p][r]
                    IN  /\ q # R!Nobody /\ claim[q] = [claim[p] EXCEPT !.rank = r]
                        /\ peers[q][claim[p].rank] = p
                        /\ \A s \in Ranks \ {r, claim[p].rank} : peers[q][s] = peers[p][s]
  BY DEF MeshSound
<1>1. Everyone /\ Collected /\ (p # 0 => Member(p) /\ Full(p)) /\ (p = 0 => claim[p].rank = 0)
  BY DEF R!Joined, MeshInv, BarrierPassed, Dialled, Everyone, Claimed
<1>2. \A s \in 1 .. World - 1 : /\ book[s] \in R!Processes \ {0} /\ Member(book[s]) /\ Full(book[s])
                                /\ claim[book[s]] = [claim[0] EXCEPT !.rank = s]
                                /\ claim[book[s]].rank = s /\ peers[0][s] = book[s]
  BY <1>1, MembersAre DEF MeshInv, Everyone, ZeroPeers
<1>3. \A s \in R!Processes \ {0} : Full(s) =>
          /\ peers[s][0] = 0
          /\ \A u \in 1 .. World - 1 : u # claim[s].rank => peers[s][u] = book[u]
  BY DEF MeshInv, MemberPeers, Full, Claimed
<1>4. claim[0] = [rank |-> 0, settings |-> claim[0].settings] /\ 0 # R!Nobody /\ R!Nobody \notin R!Processes
  BY DEF MeshInv, Claimed
<1>5. ASSUME NEW s \in 1 .. World - 1, NEW u \in 1 .. World - 1, s # u
       PROVE  peers[book[s]][u] = book[u]
  <2>1. book[s] \in R!Processes \ {0} /\ Full(book[s]) /\ claim[book[s]].rank = s
    BY ONLY <1>2
  <2> QED
    BY ONLY <1>3, <1>5, <2>1
<1>6. p # 0 => /\ peers[p][0] = 0
               /\ \A u \in 1 .. World - 1 : u # claim[p].rank => peers[p][u] = book[u]
  BY <1>1, <1>3
<1>7. ASSUME NEW s \in 1 .. World - 1
       PROVE  claim[book[s]] = [rank |-> s, settings |-> claim[0].settings]
  BY <1>2, <1>4
<1>8. CASE p = 0
  <2>1. r \in 1 .. World - 1 /\ claim[p].rank = 0
    BY <1>1, <1>8
  <2>2. peers[p][r] = book[r]
    BY <1>2, <1>8, <2>1
  <2>3. ASSUME NEW s \in Ranks \ {r, 0}
        PROVE  peers[book[r]][s] = peers[p][s]
    <3>1. s \in 1 .. World - 1 /\ s # r
      OBVIOUS
    <3> QED
      <4>1. peers[0][s] = book[s]
        BY ONLY <1>2, <3>1
      <4>2. peers[book[r]][s] = book[s]
        BY ONLY <1>5, <2>1, <3>1
      <4> QED
        BY ONLY <1>8, <4>1, <4>2
  <2>4. book[r] # R!Nobody /\ Full(book[r]) /\ claim[book[r]].rank = r
        /\ claim[book[r]] = [claim[0] EXCEPT !.rank = r] /\ book[r] \in R!Processes \ {0}
    BY ONLY <1>2, <1>4, <2>1
  <2>5. peers[book[r]][0] = 0
    BY ONLY <1>3, <2>4
  <2> QED
    BY ONLY <1>8, <2>1, <2>2, <2>3, <2>4, <2>5
<1>9. CASE p # 0 /\ r = 0
  <2> DEFINE k == claim[p].rank
  <2>1. k \in 1 .. World - 1 /\ p = book[k]
    BY <1>1, <1>9 DEF Member, MeshInv, Claimed
  <2>2. peers[p][0] = 0 /\ peers[0][k] = p
    BY <1>1, <1>2, <1>3, <1>9, <2>1
  <2>3. claim[0] = [claim[p] EXCEPT !.rank = 0]
    <3>1. claim[p] = [rank |-> k, settings |-> claim[0].settings]
      BY <1>7, <2>1
    <3> QED
      BY <1>4, <3>1
  <2>4. ASSUME NEW s \in Ranks \ {0, k}
        PROVE  peers[0][s] = peers[p][s]
    <3>1. s \in 1 .. World - 1 /\ s # k
      OBVIOUS
    <3> QED
      BY <1>2, <1>9, <1>6, <3>1
  <2> QED
    BY <1>4, <1>9, <2>2, <2>3, <2>4
<1>10. CASE p # 0 /\ r # 0
  <2> DEFINE k == claim[p].rank
  <2>1. k \in 1 .. World - 1 /\ p = book[k] /\ r \in 1 .. World - 1 /\ r # k
    BY <1>1, <1>10 DEF Member, MeshInv, Claimed
  <2>2. peers[p][r] = book[r] /\ peers[book[r]][k] = p
    BY <1>10, <1>5, <1>6, <2>1
  <2>3. claim[book[r]] = [claim[p] EXCEPT !.rank = r]
    <3>1. claim[p] = [rank |-> k, settings |-> claim[0].settings]
      BY <1>7, <2>1
    <3>2. claim[book[r]] = [rank |-> r, settings |-> claim[0].settings]
      BY <1>7, <2>1
    <3> QED
      BY <3>1, <3>2
  <2>4. ASSUME NEW s \in Ranks \ {r, k}
        PROVE  peers[book[r]][s] = peers[p][s]
    <3>1. CASE s = 0
      BY <1>2, <1>3, <1>10, <1>6, <2>1, <3>1
    <3>2. CASE s # 0
      <4>1. s \in 1 .. World - 1 /\ s # r /\ s # k
        BY <3>2
      <4> QED
        BY <1>10, <1>5, <1>6, <2>1, <4>1
    <3> QED
      BY <3>1, <3>2
  <2>5. book[r] # R!Nobody
    BY <1>2, <1>4, <2>1
  <2> QED
    BY <2>2, <2>3, <2>4, <2>5
<1> QED
  BY <1>8, <1>9, <1>10

\* Whoever joins has a stream to exactly one process of each other rank and of its
\* session, which has its own for it, and all who join are members of one group
\* (accept, connect and check_hello), for any number of processes and any claims.
THEOREM GroupIsOneMesh == SessionSpec => []MeshSound
<1>1. SessionSpec => []MeshInv
  BY MeshInit, MeshNext, PTL DEF SessionSpec
<1> QED
  BY <1>1, MeshFollows, PTL
=============================================================================
