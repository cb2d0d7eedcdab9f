------------------------ MODULE ProcessGroupProofs ------------------------
(***************************************************************************)
(* The process group, for any number of ranks, any programs, any failures  *)
(* and any timeouts: no rank leaves a collective before every rank has     *)
(* entered it; point-to-point calls arrive once and in order; and the      *)
(* collectives implement Agreement.  Three invariants, each shown with the *)
(* help of the first.                                                      *)
(***************************************************************************)
EXTENDS ProcessGroup, TLAPS

USE WorldAssumption DEF Ranks

\* A sequence of whatever: the argument only counts and indexes
IsSeq(s) == \E S : s \in Seq(S)

\* A matrix of sequences, one per ordered pair of ranks
Square(w) ==
    /\ w = [r \in Ranks |-> [q \in Ranks |-> w[r][q]]]
    /\ \A r, q \in Ranks : IsSeq(w[r][q])

\* The frames on their way from r to q
Frames(w, r, q) == {w[r][q][i] : i \in 1 .. Len(w[r][q])}

\* The variables are functions, their sequences are sequences
Shape ==
    /\ sequence \in [Ranks -> Nat] /\ failed \in [Ranks -> BOOLEAN]
    /\ pc = [r \in Ranks |-> pc[r]]
    /\ asked = [r \in Ranks |-> asked[r]]
    /\ \A r \in Ranks : IsSeq(asked[r])
    /\ Square(wire)
    /\ IsSeq(requests) /\ peer \in Nat

\* A rank outside collectives has finished those it entered
Entered ==
    \A r \in Ranks : ~failed[r] /\ ~InCollective(r) => Len(asked[r]) = sequence[r]

\* A request on its way, or read, is one its rank has made
RequestsMade ==
    /\ \A r \in Ranks : \A f \in Frames(wire, r, 0) :
           f.type = "Request" => f.body.sequence \in 0 .. Len(asked[r]) - 1
    /\ pc[0] = "gather" => /\ Len(requests) = peer /\ peer >= 1
                           /\ \A i \in 1 .. Len(requests) : i \in 1 .. World =>
                                  requests[i].sequence \in 0 .. Len(asked[i - 1]) - 1

\* An accepting response means that every rank has entered the collective
AllEntered(resp, made) == ~resp.error => \A q \in Ranks : resp.sequence \in 0 .. Len(made[q]) - 1

ResponsesSound ==
    /\ pc[0] = "reply" => \A r \in Ranks : AllEntered(responses[r], asked)
    /\ \A r \in Ranks : \A f \in Frames(wire, 0, r) :
           f.type = "Response" => AllEntered(f.body, asked)

\* The inductive invariant: what is under way between a rank's request and
\* its response carries the reason why BarrierHolds.
BarrierInv == Shape /\ Entered /\ RequestsMade /\ ResponsesSound /\ BarrierHolds

-----------------------------------------------------------------------------
\* Appending to a sequence of whatever.
LEMMA SeqAppend ==
    ASSUME NEW s, IsSeq(s), NEW x
    PROVE  /\ IsSeq(Append(s, x)) /\ Len(s) \in Nat /\ Len(Append(s, x)) = Len(s) + 1
           /\ \A i \in 1 .. Len(s) : Append(s, x)[i] = s[i]
           /\ Append(s, x)[Len(s) + 1] = x
<1>1. PICK S : s \in Seq(S)
  BY DEF IsSeq
<1>2. s \in Seq(S \cup {x}) /\ x \in S \cup {x}
  BY <1>1
<1> DEFINE T == S \cup {x}
<1>3. Append(s, x) \in Seq(T) /\ Len(s) \in Nat
  BY <1>2
<1> QED
  BY <1>2, <1>3 DEF IsSeq

\* Taking the head of a sequence of whatever.
LEMMA SeqTail ==
    ASSUME NEW s, IsSeq(s), s # <<>>
    PROVE  /\ IsSeq(Tail(s)) /\ Len(s) \in Nat \ {0} /\ Len(Tail(s)) = Len(s) - 1
           /\ Head(s) = s[1]
           /\ \A i \in 1 .. Len(Tail(s)) : Tail(s)[i] = s[i + 1]
<1>1. PICK S : s \in Seq(S)
  BY DEF IsSeq
<1>2. Tail(s) \in Seq(S) /\ Len(s) \in Nat \ {0}
  BY <1>1
<1> QED
  BY <1>1, <1>2 DEF IsSeq

\* The sequences the code starts from.
LEMMA SeqEmpty == IsSeq(<<>>) /\ Len(<<>>) = 0
<1>1. <<>> \in Seq({})
  OBVIOUS
<1> QED
  BY <1>1 DEF IsSeq

\* There is a rank 0.
LEMMA ZeroRank == 0 \in Ranks
OBVIOUS

\* A sequence of one element.
LEMMA SeqOne == ASSUME NEW x PROVE IsSeq(<<x>>) /\ Len(<<x>>) = 1 /\ <<x>>[1] = x
<1>1. <<x>> \in Seq({x})
  OBVIOUS
<1> QED
  BY <1>1 DEF IsSeq

\* evaluate accepts only if every request is for the same collective.
LEMMA EvaluateAccepts ==
    ASSUME NEW reqs, NEW r \in Ranks, ~Evaluate(reqs)[r].error
    PROVE  \A q \in Ranks : reqs[q].sequence = Evaluate(reqs)[r].sequence
BY DEF Evaluate, Accepted, Refuses

-----------------------------------------------------------------------------
\* Writing a frame adds it to one channel, or to none.
LEMMA PutAdds ==
    ASSUME NEW w, Square(w), NEW r \in Ranks, NEW q, NEW f
    PROVE  /\ Square(Put(w, r, q, f))
           /\ \A p, t \in Ranks : Frames(Put(w, r, q, f), p, t) \subseteq
                  Frames(w, p, t) \cup IF p = r /\ t = q THEN {f} ELSE {}
<1>1. CASE Closed(q)
  BY <1>1 DEF Put
<1>2. CASE ~Closed(q)
  <2> DEFINE v == [p \in Ranks |-> [t \in Ranks |->
                      IF p = r /\ t = q THEN Append(w[p][t], f) ELSE w[p][t]]]
  <2>1. Put(w, r, q, f) = v
    BY <1>2 DEF Put, Square
  <2>2. Square(v)
    BY SeqAppend DEF Square
  <2>3. ASSUME NEW p \in Ranks, NEW t \in Ranks
        PROVE  Frames(v, p, t) \subseteq Frames(w, p, t) \cup IF p = r /\ t = q THEN {f} ELSE {}
    <3>1. CASE p = r /\ t = q
      <4>1. v[p][t] = Append(w[p][t], f) /\ IsSeq(w[p][t])
        BY <3>1 DEF Square
      <4>2. \A i \in 1 .. Len(v[p][t]) :
                (i \in 1 .. Len(w[p][t]) /\ v[p][t][i] = w[p][t][i]) \/ v[p][t][i] = f
        BY <4>1, SeqAppend
      <4> QED
        BY <3>1, <4>2 DEF Frames
    <3>2. CASE ~(p = r /\ t = q)
      BY <3>2 DEF Frames
    <3> QED
      BY <3>1, <3>2
  <2> QED
    BY <2>1, <2>2, <2>3
<1> QED
  BY <1>1, <1>2

\* Reading a frame takes it from its channel and adds none.
LEMMA TailTakes ==
    ASSUME NEW w, Square(w), NEW r, NEW q \in Ranks, w[r][q] # <<>>
    PROVE  /\ Square([w EXCEPT ![r][q] = Tail(@)])
           /\ \A p, t \in Ranks :
                  Frames([w EXCEPT ![r][q] = Tail(@)], p, t) \subseteq Frames(w, p, t)
           /\ r \in Ranks => Head(w[r][q]) \in Frames(w, r, q)
<1> DEFINE v == [p \in Ranks |-> [t \in Ranks |->
                    IF p = r /\ t = q THEN Tail(w[p][t]) ELSE w[p][t]]]
<1>1. [w EXCEPT ![r][q] = Tail(@)] = v
  BY DEF Square
<1>2. r \in Ranks => /\ IsSeq(Tail(w[r][q])) /\ Len(w[r][q]) \in Nat \ {0}
                     /\ Len(Tail(w[r][q])) = Len(w[r][q]) - 1
                     /\ Head(w[r][q]) = w[r][q][1]
                     /\ \A i \in 1 .. Len(Tail(w[r][q])) : Tail(w[r][q])[i] = w[r][q][i + 1]
  BY SeqTail DEF Square
<1>3. Square(v)
  BY <1>2 DEF Square
<1>4. ASSUME NEW p \in Ranks, NEW t \in Ranks
      PROVE  Frames(v, p, t) \subseteq Frames(w, p, t)
  <2>1. CASE p = r /\ t = q
    <3>1. \A i \in 1 .. Len(v[p][t]) : i + 1 \in 1 .. Len(w[p][t]) /\ v[p][t][i] = w[p][t][i + 1]
      BY <2>1, <1>2
    <3> QED
      BY <3>1 DEF Frames
  <2>2. CASE ~(p = r /\ t = q)
    BY <2>2 DEF Frames
  <2> QED
    BY <2>1, <2>2
<1>5. r \in Ranks => Head(w[r][q]) \in Frames(w, r, q)
  BY <1>2 DEF Frames
<1> QED
  BY <1>1, <1>3, <1>4, <1>5

\* The wires w once r has dropped what it would still read
Dropped(w, r) == [q \in Ranks |-> [w[q] EXCEPT ![r] = <<>>]]

\* A rank that fails drops what it would still read.
LEMMA FailDrops ==
    ASSUME NEW w, Square(w), NEW r \in Ranks
    PROVE  /\ Square(Dropped(w, r))
           /\ \A p, t \in Ranks : Frames(Dropped(w, r), p, t) \subseteq Frames(w, p, t)
<1> DEFINE v == [p \in Ranks |-> [t \in Ranks |-> IF t = r THEN <<>> ELSE w[p][t]]]
<1>1. \A p \in Ranks : [w[p] EXCEPT ![r] = <<>>]
                           = [t \in Ranks |-> IF t = r THEN <<>> ELSE w[p][t]]
  BY DEF Square
<1>2. Dropped(w, r) = v
  BY <1>1 DEF Dropped
<1>3. Square(v)
  BY SeqEmpty DEF Square
<1>4. \A p, t \in Ranks : Frames(v, p, t) \subseteq Frames(w, p, t)
  BY SeqEmpty DEF Frames
<1> HIDE DEF v
<1> QED
  BY <1>2, <1>3, <1>4

-----------------------------------------------------------------------------
\* The group after the rendezvous.
LEMMA BarrierInit == Init => BarrierInv
<1> SUFFICES ASSUME Init
             PROVE  BarrierInv
  OBVIOUS
<1> USE SeqEmpty DEF Init
<1>1. IsSeq(<<Rendezvous>>) /\ Len(<<Rendezvous>>) = 1
  BY SeqOne
<1>2. Shape
  BY <1>1 DEF Shape, Square
<1>3. Entered /\ BarrierHolds
  BY <1>1 DEF Entered, BarrierHolds
<1>4. \A r, q \in Ranks : Frames(wire, r, q) = {}
  BY DEF Frames
<1>5. RequestsMade /\ ResponsesSound
  BY <1>4, ZeroRank DEF RequestsMade, ResponsesSound
<1> QED
  BY <1>2, <1>3, <1>5 DEF BarrierInv

\* A rank that fails keeps what it has counted; its incoming frames are gone.
LEMMA FailKeeps ==
    ASSUME BarrierInv, NEW r \in Ranks, Fail(r), UNCHANGED asked
    PROVE  BarrierInv'
<1>1. Shape /\ Entered /\ RequestsMade /\ ResponsesSound /\ BarrierHolds
  BY DEF BarrierInv
<1>2. /\ pc' = [pc EXCEPT ![r] = "idle"]
      /\ failed' = [failed EXCEPT ![r] = TRUE]
      /\ sequence' = sequence /\ asked' = asked
      /\ \/ r = 0 /\ peer' = 0 /\ requests' = <<>> /\ responses' = <<>>
         \/ r # 0 /\ peer' = peer /\ requests' = requests /\ responses' = responses
  BY DEF Fail, coordinator
<1>3. Square(wire') /\ \A p, t \in Ranks : Frames(wire', p, t) \subseteq Frames(wire, p, t)
  <2>1. Square(wire)
    BY <1>1 DEF Shape
  <2>2. Square(Dropped(wire, r)) /\ \A p, t \in Ranks : Frames(Dropped(wire, r), p, t) \subseteq Frames(wire, p, t)
    BY <2>1, FailDrops
  <2>3. wire' = Dropped(wire, r)
    BY DEF Fail, Dropped
  <2> QED
    BY <2>2, <2>3
<1>4. Shape'
  <2>1. /\ sequence' \in [Ranks -> Nat] /\ failed' \in [Ranks -> BOOLEAN]
        /\ pc' = [p \in Ranks |-> pc'[p]]
        /\ asked' = [p \in Ranks |-> asked'[p]]
    BY <1>1, <1>2 DEF Shape
  <2>2. \A p \in Ranks : IsSeq(asked'[p])
    BY <1>1, <1>2 DEF Shape
  <2>3. IsSeq(requests') /\ peer' \in Nat
    BY <1>1, <1>2, SeqEmpty DEF Shape
  <2> QED
    BY <1>3, <2>1, <2>2, <2>3 DEF Shape
<1>5. Entered' /\ BarrierHolds'
  BY <1>1, <1>2 DEF Shape, Entered, InCollective, BarrierHolds
<1>6. pc'[0] # "idle" => r # 0 /\ pc'[0] = pc[0]
  <2>1. pc = [p \in Ranks |-> pc[p]]
    BY <1>1 DEF Shape
  <2> QED
    BY <2>1, <1>2, ZeroRank
<1>7. RequestsMade'
  BY <1>1, <1>2, <1>3, <1>6 DEF RequestsMade
<1>8. ResponsesSound'
  BY <1>1, <1>2, <1>3, <1>6 DEF ResponsesSound
<1> QED
  BY <1>4, <1>5, <1>7, <1>8 DEF BarrierInv

\* The steps of send and recv: they leave the collectives alone.
LEMMA PointKeeps ==
    ASSUME BarrierInv, NEW r \in Ranks, NEW s,
           ~InCollective(r), s \notin {"gather", "reply", "response"},
           pc' = [pc EXCEPT ![r] = s], Square(wire'),
           \A p, t \in Ranks : \A f \in Frames(wire', p, t) :
               f \in Frames(wire, p, t) \/ f.type \in {"Point", "Ack"},
           UNCHANGED <<asked, sequence, failed, coordinator>>
    PROVE  BarrierInv'
<1>1. Shape /\ Entered /\ RequestsMade /\ ResponsesSound /\ BarrierHolds
  BY DEF BarrierInv
<1>2. /\ asked' = asked /\ sequence' = sequence /\ failed' = failed
      /\ peer' = peer /\ requests' = requests /\ responses' = responses
  BY DEF coordinator
<1>3. pc = [p \in Ranks |-> pc[p]]
  BY <1>1 DEF Shape
<1>4. Shape'
  <2>1. pc' = [p \in Ranks |-> pc'[p]]
    BY <1>3
  <2>2. /\ sequence' \in [Ranks -> Nat] /\ failed' \in [Ranks -> BOOLEAN]
        /\ asked' = [p \in Ranks |-> asked'[p]]
        /\ IsSeq(requests') /\ peer' \in Nat
        /\ \A p \in Ranks : IsSeq(asked'[p])
    BY <1>1, <1>2 DEF Shape
  <2> QED
    BY <2>1, <2>2 DEF Shape
<1>5. Entered' /\ BarrierHolds'
  BY <1>1, <1>2, <1>3 DEF Entered, InCollective, BarrierHolds
<1>6. pc'[0] \in {"gather", "reply"} => pc'[0] = pc[0]
  BY <1>3, ZeroRank
<1>7. RequestsMade'
  BY <1>1, <1>2, <1>6, ZeroRank DEF RequestsMade
<1>8. ResponsesSound'
  BY <1>1, <1>2, <1>6, ZeroRank DEF ResponsesSound
<1> QED
  BY <1>4, <1>5, <1>7, <1>8 DEF BarrierInv

\* send, up to its first read.
LEMMA CallSendKeeps ==
    ASSUME BarrierInv, NEW r \in Ranks, NEW c, CallSend(r, c)
    PROVE  BarrierInv'
<1>1. CASE Addresses(r, c)
  <2> DEFINE f == [type |-> "Point", sequence |-> sends[r][c.peer], tag |-> c.tag]
  <2>1. wire' = Put(wire, r, c.peer, f) /\ f.type = "Point" /\ Square(wire)
    BY <1>1 DEF CallSend, BarrierInv, Shape
  <2>2. /\ Square(wire')
        /\ \A p, t \in Ranks : Frames(wire', p, t) \subseteq Frames(wire, p, t) \cup {f}
    <3> HIDE DEF f
    <3> QED
      BY <2>1, PutAdds
  <2>3. ~InCollective(r) /\ pc' = [pc EXCEPT ![r] = "ack"]
        /\ UNCHANGED <<asked, sequence, failed, coordinator>>
    BY <1>1 DEF CallSend, Begins, InCollective, group, history
  <2>4. \A p, t \in Ranks : \A g \in Frames(wire', p, t) :
            g \in Frames(wire, p, t) \/ g.type \in {"Point", "Ack"}
    BY <2>1, <2>2
  <2> QED
    BY <2>2, <2>3, <2>4, PointKeeps
<1>2. CASE ~Addresses(r, c)
  BY <1>2, FailKeeps DEF CallSend, history
<1> QED
  BY <1>1, <1>2

\* The acknowledgement is read.
LEMMA AckReadKeeps ==
    ASSUME BarrierInv, NEW r \in Ranks, AckRead(r)
    PROVE  BarrierInv'
<1> DEFINE q == call[r].peer
<1>1. CASE Acknowledges(r, Head(wire[q][r]))
  <2>1. /\ wire' = [wire EXCEPT ![q][r] = Tail(@)] /\ wire[q][r] # <<>>
        /\ pc' = [pc EXCEPT ![r] = "idle"] /\ ~InCollective(r)
        /\ UNCHANGED <<asked, sequence, failed, coordinator>>
    BY <1>1 DEF AckRead, Idles, InCollective
  <2>2. Square(wire)
    BY DEF BarrierInv, Shape
  <2>3. /\ Square(wire')
        /\ \A p, t \in Ranks : Frames(wire', p, t) \subseteq Frames(wire, p, t)
    BY <2>1, <2>2, TailTakes
  <2> QED
    BY <2>1, <2>3, PointKeeps
<1>2. CASE ~Acknowledges(r, Head(wire[q][r]))
  BY <1>2, FailKeeps DEF AckRead
<1> QED
  BY <1>1, <1>2

\* recv, up to its first read.
LEMMA CallRecvKeeps ==
    ASSUME BarrierInv, NEW r \in Ranks, NEW c, CallRecv(r, c)
    PROVE  BarrierInv'
<1>1. CASE Addresses(r, c)
  <2>1. /\ pc' = [pc EXCEPT ![r] = "recv"] /\ ~InCollective(r) /\ wire' = wire
        /\ UNCHANGED <<asked, sequence, failed, coordinator>>
    BY <1>1 DEF CallRecv, Begins, InCollective, group, history
  <2>2. Square(wire')
    BY <2>1 DEF BarrierInv, Shape
  <2>3. \A p, t \in Ranks : Frames(wire', p, t) \subseteq Frames(wire, p, t)
    BY <2>1
  <2> QED
    BY <2>1, <2>2, <2>3, PointKeeps
<1>2. CASE ~Addresses(r, c)
  BY <1>2, FailKeeps DEF CallRecv, history
<1> QED
  BY <1>1, <1>2

\* The tensor is read and acknowledged.
LEMMA PointReadKeeps ==
    ASSUME BarrierInv, NEW r \in Ranks, PointRead(r)
    PROVE  BarrierInv'
<1> DEFINE q == call[r].peer
           f == Head(wire[q][r])
           ack == [type |-> "Ack", sequence |-> f.sequence, tag |-> call[r].tag]
           w == [wire EXCEPT ![q][r] = Tail(@)]
<1>1. CASE /\ wire' = Put(w, r, q, ack) /\ Idles(r)
           /\ UNCHANGED <<failed, sequence, sends, coordinator>>
  <2>1. /\ wire[q][r] # <<>> /\ ack.type = "Ack"
        /\ pc' = [pc EXCEPT ![r] = "idle"] /\ ~InCollective(r)
        /\ UNCHANGED <<asked, sequence, failed, coordinator>>
    BY <1>1 DEF PointRead, Idles, InCollective
  <2>2. Square(wire)
    BY DEF BarrierInv, Shape
  <2>3. Square(w) /\ \A p, t \in Ranks : Frames(w, p, t) \subseteq Frames(wire, p, t)
    <3> HIDE DEF q
    <3> QED
      BY <2>1, <2>2, TailTakes
  <2>4. /\ Square(wire')
        /\ \A p, t \in Ranks : Frames(wire', p, t) \subseteq Frames(w, p, t) \cup {ack}
    <3> HIDE DEF w, ack, q
    <3> QED
      BY <1>1, <2>3, PutAdds
  <2>5. \A p, t \in Ranks : \A g \in Frames(wire', p, t) :
            g \in Frames(wire, p, t) \/ g.type \in {"Point", "Ack"}
    <3> HIDE DEF w, ack, q
    <3> QED
      BY <2>1, <2>3, <2>4
  <2> QED
    <3> HIDE DEF w, ack, q
    <3> QED
      BY <2>1, <2>4, <2>5, PointKeeps
<1>2. CASE Fail(r)
  BY <1>2, FailKeeps DEF PointRead
<1> QED
  BY <1>1, <1>2 DEF PointRead

-----------------------------------------------------------------------------
\* A rank enters the collective that its sequence number names.
LEMMA CallCollectiveKeeps ==
    ASSUME BarrierInv, NEW r \in Ranks, NEW c, CallCollective(r, c)
    PROVE  BarrierInv'
<1> DEFINE m == RequestOf(r, c)
           f == [type |-> "Request", body |-> m]
<1>1. Shape /\ Entered /\ RequestsMade /\ ResponsesSound /\ BarrierHolds
  BY DEF BarrierInv
<1>2. /\ pc[r] = "idle" /\ ~failed[r] /\ m.sequence = sequence[r]
      /\ asked' = [asked EXCEPT ![r] = Append(@, m)]
      /\ failed' = failed /\ sequence' = sequence
  BY DEF CallCollective, Begins, Ready, RequestOf, group
<1>3. \/ /\ r = 0 /\ pc' = [pc EXCEPT ![r] = "gather"] /\ peer' = 1
         /\ requests' = <<m>> /\ wire' = wire
      \/ /\ r # 0 /\ pc' = [pc EXCEPT ![r] = "response"] /\ wire' = Put(wire, r, 0, f)
         /\ peer' = peer /\ requests' = requests /\ responses' = responses
  BY DEF CallCollective, coordinator
<1>4. Square(wire) /\ pc = [p \in Ranks |-> pc[p]] /\ asked = [p \in Ranks |-> asked[p]]
      /\ \A p \in Ranks : IsSeq(asked[p])
  BY <1>1 DEF Shape
<1>5. f.type = "Request" /\ f.body = m
  OBVIOUS
<1> HIDE DEF m, f
<1>6. /\ Square(wire')
      /\ \A p, t \in Ranks : Frames(wire', p, t) \subseteq
             Frames(wire, p, t) \cup IF r # 0 /\ p = r /\ t = 0 THEN {f} ELSE {}
  BY <1>3, <1>4, PutAdds
<1>7. asked' = [p \in Ranks |-> asked'[p]]
  BY <1>2, <1>4
<1>8. /\ \A p \in Ranks : IsSeq(asked'[p]) /\ Len(asked[p]) \in Nat
      /\ \A p \in Ranks \ {r} : asked'[p] = asked[p]
      /\ Len(asked'[r]) = Len(asked[r]) + 1
  BY <1>2, <1>4, SeqAppend
<1>9. Len(asked[r]) = sequence[r] /\ sequence[r] \in Nat
  BY <1>1, <1>2 DEF Entered, InCollective, Shape
<1>10. Shape'
  <2>1. pc' = [p \in Ranks |-> pc'[p]]
    BY <1>3, <1>4
  <2>2. IsSeq(requests') /\ peer' \in Nat
    BY <1>1, <1>3, SeqOne DEF Shape
  <2>3. sequence' \in [Ranks -> Nat] /\ failed' \in [Ranks -> BOOLEAN]
    BY <1>1, <1>2 DEF Shape
  <2> QED
    BY <1>6, <1>7, <1>8, <2>1, <2>2, <2>3 DEF Shape
<1>11. /\ pc'[r] \in {"gather", "response"}
       /\ \A p \in Ranks \ {r} : pc'[p] = pc[p]
  BY <1>3, <1>4
<1>12. Entered'
  BY <1>1, <1>2, <1>8, <1>11 DEF Entered, InCollective
<1>13. BarrierHolds'
  <2>1. sequence' = sequence /\ \A p \in Ranks : sequence[p] \in Nat
    BY <1>1, <1>2 DEF Shape
  <2>2. /\ Len(asked'[r]) = sequence[r] + 1
        /\ \A p \in Ranks : sequence[p] <= sequence[r]
        /\ \A p \in Ranks \ {r} : asked'[p] = asked[p]
    BY <1>1, <1>8, <1>9 DEF BarrierHolds
  <2>3. ASSUME NEW p \in Ranks, NEW q \in Ranks
        PROVE  sequence[p] <= Len(asked'[q]) /\ Len(asked'[q]) <= sequence[q] + 1
    <3>1. CASE q = r
      BY ONLY <1>9, <2>1, <2>2, <3>1, p \in Ranks
    <3>2. CASE q # r
      BY <1>1, <2>2, <3>2 DEF BarrierHolds
    <3> QED
      BY ONLY <3>1, <3>2
  <2> QED
    BY ONLY <2>1, <2>3 DEF BarrierHolds
<1>14. RequestsMade'
  <2>1. ASSUME NEW p \in Ranks, NEW g \in Frames(wire', p, 0), g.type = "Request"
        PROVE  g.body.sequence \in 0 .. Len(asked'[p]) - 1
    <3>1. CASE g \in Frames(wire, p, 0)
      BY <1>1, <1>8, <2>1, <3>1 DEF RequestsMade
    <3>2. CASE g \notin Frames(wire, p, 0)
      <4>1. g = f /\ p = r
        BY <1>6, <2>1, <3>2, ZeroRank
      <4> QED
        BY <1>2, <1>5, <1>8, <1>9, <4>1
    <3> QED
      BY <3>1, <3>2
  <2>2. CASE r = 0
    <3>1. requests' = <<m>> /\ peer' = 1
      BY <1>3, <2>2
    <3>2. Len(requests') = 1 /\ requests'[1] = m
      BY <3>1, SeqOne
    <3>3. m.sequence \in 0 .. Len(asked'[0]) - 1
      BY <1>2, <1>8, <1>9, <2>2
    <3>4. \A i \in 1 .. Len(requests') : requests'[i].sequence \in 0 .. Len(asked'[i - 1]) - 1
      BY <3>2, <3>3
    <3> QED
      BY <2>1, <3>1, <3>2, <3>4 DEF RequestsMade
  <2>3. CASE r # 0
    <3>1. pc'[0] = pc[0] /\ peer' = peer /\ requests' = requests
      BY <1>3, <1>11, <2>3, ZeroRank
    <3>2. ASSUME pc[0] = "gather", NEW i \in 1 .. Len(requests), i \in 1 .. World
          PROVE  requests[i].sequence \in 0 .. Len(asked'[i - 1]) - 1
      <4>1. requests[i].sequence \in 0 .. Len(asked[i - 1]) - 1
        BY <1>1, <3>2 DEF RequestsMade
      <4>2. PICK p \in Ranks : p = i - 1
        BY <3>2
      <4>3. 0 .. Len(asked[p]) - 1 \subseteq 0 .. Len(asked'[p]) - 1
        BY <1>8
      <4> QED
        BY <4>1, <4>2, <4>3
    <3>3. pc[0] = "gather" => Len(requests) = peer /\ peer >= 1
      BY <1>1 DEF RequestsMade
    <3>4. pc'[0] = "gather" =>
            /\ Len(requests') = peer' /\ peer' >= 1
            /\ \A i \in 1 .. Len(requests') : i \in 1 .. World =>
                   requests'[i].sequence \in 0 .. Len(asked'[i - 1]) - 1
      BY <3>1, <3>2, <3>3
    <3> QED
      BY <2>1, <3>4 DEF RequestsMade
  <2> QED
    BY <2>2, <2>3
<1>15. ResponsesSound'
  <2>1. ASSUME NEW resp, AllEntered(resp, asked)
        PROVE  AllEntered(resp, asked')
    BY <1>8, <2>1 DEF AllEntered
  <2>2. ASSUME NEW p \in Ranks, NEW g \in Frames(wire', 0, p), g.type = "Response"
        PROVE  AllEntered(g.body, asked')
    BY <1>1, <1>5, <1>6, <2>1, <2>2, ZeroRank DEF ResponsesSound
  <2>3. pc'[0] = "reply" => pc[0] = "reply" /\ responses' = responses
    BY <1>3, <1>4, ZeroRank
  <2> QED
    BY <1>1, <2>1, <2>2, <2>3 DEF ResponsesSound
<1> QED
  BY <1>10, <1>12, <1>13, <1>14, <1>15 DEF BarrierInv

\* Rank 0 reads the request of the peer whose turn it is.
LEMMA GatherReadKeeps ==
    ASSUME BarrierInv, GatherRead
    PROVE  BarrierInv'
<1> DEFINE f == Head(wire[peer][0])
<1>1. Shape /\ Entered /\ RequestsMade /\ ResponsesSound /\ BarrierHolds
  BY DEF BarrierInv
<1>2. /\ asked' = asked /\ pc[0] = "gather" /\ wire[peer][0] # <<>>
      /\ peer \in Ranks /\ Square(wire) /\ IsSeq(requests)
  BY <1>1 DEF GatherRead, history, Shape
<1>3. CASE f.type = "Request"
  <2>1. /\ requests' = Append(requests, f.body) /\ peer' = peer + 1
        /\ wire' = [wire EXCEPT ![peer][0] = Tail(@)]
        /\ UNCHANGED <<sequence, failed, pc, responses>>
    BY <1>3 DEF GatherRead, group
  <2>2. /\ Square(wire') /\ f \in Frames(wire, peer, 0)
        /\ \A p, t \in Ranks : Frames(wire', p, t) \subseteq Frames(wire, p, t)
    BY <1>2, <2>1, TailTakes, ZeroRank
  <2>3. /\ IsSeq(requests') /\ Len(requests) \in Nat /\ Len(requests') = Len(requests) + 1
        /\ \A i \in 1 .. Len(requests) : requests'[i] = requests[i]
        /\ requests'[Len(requests) + 1] = f.body
    BY <1>2, <2>1, SeqAppend
  <2> HIDE DEF f
  <2>4. Shape'
    <3>1. /\ sequence' \in [Ranks -> Nat] /\ failed' \in [Ranks -> BOOLEAN]
          /\ pc' = [p \in Ranks |-> pc'[p]] /\ asked' = [p \in Ranks |-> asked'[p]]
          /\ \A p \in Ranks : IsSeq(asked'[p])
      BY <1>1, <1>2, <2>1 DEF Shape
    <3>2. peer' \in Nat
      BY <1>2, <2>1
    <3> QED
      BY <2>2, <2>3, <3>1, <3>2 DEF Shape
  <2>5. Entered' /\ BarrierHolds'
    BY <1>1, <1>2, <2>1 DEF Entered, InCollective, BarrierHolds
  <2>6. f.body.sequence \in 0 .. Len(asked[peer]) - 1
    BY <1>1, <1>2, <1>3, <2>2 DEF RequestsMade
  <2>7. Len(requests) = peer
        /\ \A i \in 1 .. Len(requests) : i \in 1 .. World =>
               requests[i].sequence \in 0 .. Len(asked[i - 1]) - 1
    BY <1>1, <1>2 DEF RequestsMade
  <2>8. RequestsMade'
    <3>1. ASSUME NEW i \in 1 .. Len(requests'), i \in 1 .. World
          PROVE  requests'[i].sequence \in 0 .. Len(asked[i - 1]) - 1
      <4>1. CASE i = Len(requests) + 1
        BY <2>3, <2>6, <2>7, <4>1
      <4>2. CASE i # Len(requests) + 1
        BY <2>3, <2>7, <3>1, <4>2
      <4> QED
        BY <4>1, <4>2
    <3>2. Len(requests') = peer' /\ peer' >= 1
      BY <1>2, <2>1, <2>3, <2>7
    <3> QED
      BY <1>1, <1>2, <2>2, <3>1, <3>2, ZeroRank DEF RequestsMade
  <2>9. ResponsesSound'
    BY <1>1, <1>2, <2>1, <2>2, ZeroRank DEF ResponsesSound
  <2> QED
    BY <2>4, <2>5, <2>8, <2>9 DEF BarrierInv
<1>4. CASE f.type # "Request"
  BY <1>4, <1>2, FailKeeps, ZeroRank DEF GatherRead
<1> QED
  BY <1>3, <1>4

\* Rank 0 has a request of every rank, so every rank has entered the collective.
LEMMA AnswerKeeps ==
    ASSUME BarrierInv, Answer
    PROVE  BarrierInv'
<1> DEFINE reqs == [r \in Ranks |-> requests[r + 1]]
<1>1. Shape /\ Entered /\ RequestsMade /\ ResponsesSound /\ BarrierHolds
  BY DEF BarrierInv
<1>2. /\ pc[0] = "gather" /\ Len(requests) = World /\ responses' = Evaluate(reqs)
      /\ pc' = [pc EXCEPT ![0] = "reply"] /\ peer' = 1
      /\ UNCHANGED <<sequence, failed, wire, requests, asked>>
  BY DEF Answer, Gathered, group, history
<1>3. ASSUME NEW q \in Ranks
      PROVE  reqs[q].sequence \in 0 .. Len(asked[q]) - 1
  <2>1. q + 1 \in 1 .. Len(requests) /\ q + 1 \in 1 .. World /\ (q + 1) - 1 = q
    BY <1>2
  <2> QED
    BY <1>1, <1>2, <2>1 DEF RequestsMade
<1>4. ASSUME NEW r \in Ranks
      PROVE  AllEntered(responses'[r], asked')
  <2> HIDE DEF reqs
  <2> QED
    BY <1>2, <1>3, EvaluateAccepts DEF AllEntered
<1> HIDE DEF reqs
<1>5. pc = [p \in Ranks |-> pc[p]]
  BY <1>1 DEF Shape
<1>6. Shape'
  <2>1. pc' = [p \in Ranks |-> pc'[p]]
    BY <1>2, <1>5
  <2>2. /\ sequence' \in [Ranks -> Nat] /\ failed' \in [Ranks -> BOOLEAN]
        /\ asked' = [p \in Ranks |-> asked'[p]] /\ Square(wire')
        /\ IsSeq(requests') /\ peer' \in Nat
        /\ \A p \in Ranks : IsSeq(asked'[p])
    BY <1>1, <1>2 DEF Shape
  <2> QED
    BY <2>1, <2>2 DEF Shape
<1>7. Entered' /\ BarrierHolds'
  BY <1>1, <1>2, <1>5, ZeroRank DEF Entered, InCollective, BarrierHolds
<1>8. pc'[0] = "reply"
  BY <1>2, <1>5, ZeroRank
<1>9. RequestsMade'
  BY <1>1, <1>2, <1>8 DEF RequestsMade
<1>10. ResponsesSound'
  BY <1>1, <1>2, <1>4 DEF ResponsesSound
<1> QED
  BY <1>6, <1>7, <1>9, <1>10 DEF BarrierInv

\* Rank 0 writes the response of the next peer.
LEMMA ReplyKeeps ==
    ASSUME BarrierInv, Reply
    PROVE  BarrierInv'
<1> DEFINE f == [type |-> "Response", body |-> responses[peer]]
<1>1. Shape /\ Entered /\ RequestsMade /\ ResponsesSound /\ BarrierHolds
  BY DEF BarrierInv
<1>2. /\ asked' = asked /\ pc[0] = "reply" /\ peer \in Ranks /\ Square(wire)
      /\ f.type = "Response" /\ f.body = responses[peer]
  BY <1>1 DEF Reply, history, Shape
<1> HIDE DEF f
<1>3. CASE /\ wire' = Put(wire, 0, peer, f) /\ peer' = peer + 1
           /\ UNCHANGED <<group, pc, call, requests, responses>>
  <2>1. /\ Square(wire')
        /\ \A p, t \in Ranks : Frames(wire', p, t) \subseteq
               Frames(wire, p, t) \cup IF p = 0 /\ t = peer THEN {f} ELSE {}
    BY <1>2, <1>3, PutAdds, ZeroRank
  <2>2. UNCHANGED <<sequence, failed, pc, requests, responses>> /\ peer' \in Nat
    BY <1>2, <1>3 DEF group
  <2>3. Shape'
    BY <1>1, <1>2, <2>1, <2>2 DEF Shape
  <2>4. Entered' /\ BarrierHolds'
    BY <1>1, <1>2, <2>2 DEF Entered, InCollective, BarrierHolds
  <2>5. AllEntered(f.body, asked)
    BY <1>1, <1>2 DEF ResponsesSound
  <2>6. RequestsMade'
    BY <1>1, <1>2, <2>1, <2>2, ZeroRank DEF RequestsMade
  <2>7. ResponsesSound'
    BY <1>1, <1>2, <2>1, <2>2, <2>5, ZeroRank DEF ResponsesSound
  <2> QED
    BY <2>3, <2>4, <2>6, <2>7 DEF BarrierInv
<1>4. CASE Fail(0)
  BY <1>2, <1>4, FailKeeps, ZeroRank
<1> QED
  BY <1>3, <1>4 DEF Reply, f

\* A rank returns from the collective only with a response that accepts it.
LEMMA ConcludeKeeps ==
    ASSUME BarrierInv, NEW r \in Ranks, InCollective(r), NEW resp, AllEntered(resp, asked),
           NEW w, Square(w),
           \A p, t \in Ranks : Frames(w, p, t) \subseteq Frames(wire, p, t),
           Conclude(r, resp, w), UNCHANGED asked
    PROVE  BarrierInv'
<1>1. Shape /\ Entered /\ RequestsMade /\ ResponsesSound /\ BarrierHolds
  BY DEF BarrierInv
<1>2. CASE Refused(r, resp)
  BY <1>2, FailKeeps DEF Conclude
<1>3. CASE ~Refused(r, resp)
  <2>1. /\ sequence' = [sequence EXCEPT ![r] = @ + 1] /\ asked' = asked
        /\ failed' = [failed EXCEPT ![r] = Differs(r, resp)]
        /\ wire' = IF Differs(r, resp) THEN [q \in Ranks |-> [w[q] EXCEPT ![r] = <<>>]] ELSE w
        /\ pc' = [pc EXCEPT ![r] = "idle"]
        /\ \/ r = 0 /\ peer' = 0 /\ requests' = <<>> /\ responses' = <<>>
           \/ r # 0 /\ peer' = peer /\ requests' = requests /\ responses' = responses
    BY <1>3 DEF Conclude, Idles, coordinator
  <2>2. Differs(r, resp) \in BOOLEAN
    BY DEF Differs
  <2>3. \A q \in Ranks : sequence[r] \in 0 .. Len(asked[q]) - 1
    BY <1>3 DEF Refused, AllEntered
  <2>4. /\ sequence \in [Ranks -> Nat] /\ failed \in [Ranks -> BOOLEAN]
        /\ pc = [p \in Ranks |-> pc[p]] /\ asked = [p \in Ranks |-> asked[p]]
        /\ \A p \in Ranks : IsSeq(asked[p]) /\ Len(asked[p]) \in Nat
    BY <1>1, SeqAppend DEF Shape
  <2>5. Len(asked[r]) = sequence[r] + 1
    BY <1>1, <2>3, <2>4 DEF BarrierHolds
  <2>6. Square(wire') /\ \A p, t \in Ranks : Frames(wire', p, t) \subseteq Frames(wire, p, t)
    <3>1. CASE Differs(r, resp)
      <4>1. Square(Dropped(w, r)) /\ \A p, t \in Ranks : Frames(Dropped(w, r), p, t) \subseteq Frames(w, p, t)
        BY FailDrops
      <4>2. wire' = Dropped(w, r)
        BY <2>1, <3>1 DEF Dropped
      <4>3. \A p, t \in Ranks : Frames(Dropped(w, r), p, t) \subseteq Frames(wire, p, t)
        BY <4>1
      <4> QED
        BY <4>1, <4>2, <4>3
    <3>2. CASE ~Differs(r, resp)
      <4>1. wire' = w
        BY <2>1, <3>2
      <4> QED
        BY <4>1
    <3> QED
      BY <3>1, <3>2
  <2>7. Shape'
    <3>1. IsSeq(requests') /\ peer' \in Nat
      BY <1>1, <2>1, SeqEmpty DEF Shape
    <3>2. sequence' \in [Ranks -> Nat]
      <4>1. /\ sequence' = [sequence EXCEPT ![r] = @ + 1]
            /\ sequence \in [Ranks -> Nat]
        BY <2>1, <2>4
      <4> QED
        BY <4>1
    <3>3. pc' = [p \in Ranks |-> pc'[p]]
      <4>1. pc' = [pc EXCEPT ![r] = "idle"] /\ pc = [p \in Ranks |-> pc[p]]
        BY <2>1, <2>4
      <4> QED
        BY <4>1
    <3>4. failed' \in [Ranks -> BOOLEAN]
      <4>1. failed \in [Ranks -> BOOLEAN] /\ failed' = [failed EXCEPT ![r] = Differs(r, resp)]
        BY <2>1, <2>4
      <4> QED
        BY <2>2, <4>1, Zenon
    <3>5. asked' = [p \in Ranks |-> asked'[p]] /\ \A p \in Ranks : IsSeq(asked'[p])
      BY <2>1, <2>4
    <3> QED
      BY <2>6, <3>1, <3>2, <3>3, <3>4, <3>5 DEF Shape
  <2>8. /\ sequence'[r] = sequence[r] + 1
        /\ \A p \in Ranks \ {r} :
               sequence'[p] = sequence[p] /\ failed'[p] = failed[p] /\ pc'[p] = pc[p]
    BY <2>1, <2>4
  <2>9. Entered'
    BY <1>1, <2>1, <2>5, <2>8 DEF Entered, InCollective
  <2>10. BarrierHolds'
    <3>1. ASSUME NEW p \in Ranks, NEW q \in Ranks
          PROVE  sequence'[p] <= Len(asked'[q]) /\ Len(asked'[q]) <= sequence'[q] + 1
      <4>1. /\ sequence[p] <= Len(asked[q]) /\ Len(asked[q]) <= sequence[q] + 1
            /\ sequence[p] \in Nat /\ sequence[q] \in Nat /\ sequence[r] \in Nat
            /\ Len(asked[q]) \in Nat /\ sequence[r] + 1 <= Len(asked[q])
        BY <1>1, <2>3, <2>4 DEF BarrierHolds
      <4>2. /\ sequence'[p] = sequence[p] \/ sequence'[p] = sequence[r] + 1
            /\ sequence'[q] = sequence[q] \/ (q = r /\ sequence'[q] = sequence[q] + 1)
        BY ONLY <2>8, p \in Ranks, q \in Ranks
      <4>3. asked'[q] = asked[q]
        BY ONLY <2>1
      <4> QED
        BY ONLY <4>1, <4>2, <4>3
    <3> QED
      BY ONLY <3>1 DEF BarrierHolds
  <2>11. pc'[0] # "idle" => r # 0 /\ pc'[0] = pc[0]
    BY <2>1, <2>4, ZeroRank
  <2>12. RequestsMade'
    BY <1>1, <2>1, <2>6, <2>11, ZeroRank DEF RequestsMade
  <2>13. ResponsesSound'
    BY <1>1, <2>1, <2>6, <2>11, ZeroRank DEF ResponsesSound
  <2> QED
    BY <2>7, <2>9, <2>10, <2>12, <2>13 DEF BarrierInv
<1> QED
  BY <1>2, <1>3

\* Rank 0 takes its own response.
LEMMA RepliedKeeps ==
    ASSUME BarrierInv, Replied
    PROVE  BarrierInv'
<1>1. /\ pc[0] = "reply" /\ Conclude(0, responses[0], wire) /\ asked' = asked
      /\ InCollective(0)
  BY DEF Replied, InCollective
<1>2. AllEntered(responses[0], asked) /\ Square(wire)
  BY <1>1, ZeroRank DEF BarrierInv, ResponsesSound, Shape
<1> QED
  BY <1>1, <1>2, ConcludeKeeps, ZeroRank

\* Another rank reads its response.
LEMMA ResponseReadKeeps ==
    ASSUME BarrierInv, NEW r \in Ranks, ResponseRead(r)
    PROVE  BarrierInv'
<1> DEFINE f == Head(wire[0][r])
           w == [wire EXCEPT ![0][r] = Tail(@)]
<1>1. /\ pc[r] = "response" /\ InCollective(r) /\ wire[0][r] # <<>> /\ asked' = asked
      /\ Square(wire)
  BY DEF ResponseRead, InCollective, BarrierInv, Shape
<1>2. CASE f.type = "Response"
  <2>1. Conclude(r, f.body, w)
    BY <1>2 DEF ResponseRead
  <2>2. /\ Square(w) /\ f \in Frames(wire, 0, r)
        /\ \A p, t \in Ranks : Frames(w, p, t) \subseteq Frames(wire, p, t)
    BY <1>1, TailTakes, ZeroRank
  <2> HIDE DEF f, w
  <2>3. AllEntered(f.body, asked)
    BY <1>2, <2>2 DEF BarrierInv, ResponsesSound
  <2> QED
    BY <1>1, <2>1, <2>2, <2>3, ConcludeKeeps
<1>3. CASE f.type # "Response"
  <2>1. Fail(r)
    BY <1>3 DEF ResponseRead
  <2> QED
    BY <1>1, <2>1, FailKeeps
<1> QED
  BY <1>2, <1>3

-----------------------------------------------------------------------------
\* Every step keeps the invariant.
LEMMA BarrierNext == BarrierInv /\ [Next]_vars => BarrierInv'
<1> SUFFICES ASSUME BarrierInv, [Next]_vars
             PROVE  BarrierInv'
  OBVIOUS
<1>1. CASE UNCHANGED vars
  <2>1. UNCHANGED <<sequence, failed, pc, asked, wire, requests, peer, responses>>
    BY <1>1 DEF vars, group, coordinator, history
  <2>2. Shape'
    BY <2>1 DEF BarrierInv, Shape
  <2>3. Entered' /\ BarrierHolds'
    BY <2>1 DEF BarrierInv, Entered, InCollective, BarrierHolds
  <2>4. RequestsMade' /\ ResponsesSound'
    BY <2>1 DEF BarrierInv, RequestsMade, ResponsesSound
  <2> QED
    BY <2>2, <2>3, <2>4 DEF BarrierInv
<1>2. ASSUME NEW r \in Ranks, Progress(r)
      PROVE  BarrierInv'
  <2>1. CASE Disconnected(r)
    BY <2>1, FailKeeps DEF Disconnected, history
  <2> QED
    BY <1>2, <2>1, GatherReadKeeps, AnswerKeeps, ReplyKeeps, RepliedKeeps, ResponseReadKeeps,
       AckReadKeeps, PointReadKeeps DEF Progress
<1>3. ASSUME NEW r \in Ranks, TimesOut(r) \/ Abort(r)
      PROVE  BarrierInv'
  BY <1>3, FailKeeps DEF TimesOut, Abort, history
<1>4. ASSUME NEW r \in Ranks, NEW c, CallCollective(r, c) \/ CallSend(r, c) \/ CallRecv(r, c)
      PROVE  BarrierInv'
  BY <1>4, CallCollectiveKeeps, CallSendKeeps, CallRecvKeeps
<1> QED
  BY <1>1, <1>2, <1>3, <1>4 DEF Next

\* For any number of ranks, any programs, failures, closes and timeouts, no
\* rank leaves a collective of ProcessGroup before every rank has entered it.
THEOREM GroupKeepsStep == Spec => []BarrierHolds
<1>1. BarrierInv => BarrierHolds
  BY DEF BarrierInv
<1> QED
  BY BarrierInit, BarrierNext, <1>1, PTL DEF Spec

-----------------------------------------------------------------------------
\* Point-to-point calls: what the counters count, and calls that name a rank
PointShape ==
    /\ sends \in [Ranks -> [Ranks -> Nat]] /\ receives \in [Ranks -> [Ranks -> Nat]]
    /\ Square(sent) /\ Square(got)
    /\ \A r, q \in Ranks : sends[r][q] = Len(sent[r][q]) /\ receives[r][q] = Len(got[r][q])
    /\ call = [r \in Ranks |-> call[r]]
    /\ \A r \in Ranks : pc[r] \in {"ack", "recv"} => call[r].peer \in Ranks

\* A tensor on its way is of the send under way or of one before it; an
\* acknowledgement is of a tensor that its sender received under that tag
PointFrame(f, r, q) ==
    /\ f.type = "Point" => f.sequence \in 0 .. sends[r][q]
    /\ f.type = "Ack" => f.sequence \in 0 .. Len(got[r][q]) - 1 /\ f.tag = got[r][q][f.sequence + 1]

PointFrames == \A r, q \in Ranks : \A f \in Frames(wire, r, q) : PointFrame(f, r, q)

\* s was received in order, and g has at most one more
Received(s, g) ==
    /\ Len(s) <= Len(g) /\ Len(g) <= Len(s) + 1
    /\ \A i \in 1 .. Len(s) : s[i] = g[i]

PointsOrdered == \A r, q \in Ranks : Received(sent[r][q], got[q][r])

\* The inductive invariant of send and recv
PointInv == PointShape /\ PointFrames /\ PointsOrdered

\* A prefix, element by element.
LEMMA PrefixOf ==
    ASSUME NEW s, IsSeq(s), NEW g, IsSeq(g), Received(s, g)
    PROVE  IsPrefix(s, g)
<1>1. PICK S, G : s \in Seq(S) /\ g \in Seq(G)
  BY DEF IsSeq
<1>2. Len(s) \in Nat /\ Len(g) \in Nat
  BY <1>1
<1>3. SubSeq(s, 1, Len(s)) = [i \in 1 .. Len(s) |-> s[i]]
  BY <1>1, <1>2
<1>4. SubSeq(g, 1, Len(s)) = [i \in 1 .. Len(s) |-> g[i]]
  BY <1>1, <1>2
<1>5. [i \in 1 .. Len(s) |-> s[i]] = [i \in 1 .. Len(s) |-> g[i]]
  BY DEF Received
<1> QED
  BY <1>2, <1>3, <1>4, <1>5 DEF Received, IsPrefix

\* Nothing is sent or counted yet.
LEMMA PointInit == Init => PointInv
<1> SUFFICES ASSUME Init
             PROVE  PointInv
  OBVIOUS
<1> USE SeqEmpty DEF Init
<1>1. PointShape
  BY DEF PointShape, Square
<1>2. \A r, q \in Ranks : Frames(wire, r, q) = {}
  BY DEF Frames
<1>3. PointFrames
  BY <1>2 DEF PointFrames
<1>4. PointsOrdered
  BY DEF PointsOrdered, Received
<1> QED
  BY <1>1, <1>3, <1>4 DEF PointInv

\* A step that counts nothing; what it writes is no acknowledgement, and a tensor
\* only of the send under way.
LEMMA UncountedKeeps ==
    ASSUME PointInv, UNCHANGED <<sends, receives, sent, got>>,
           call' = [p \in Ranks |-> call'[p]],
           \A p \in Ranks : pc'[p] \in {"ack", "recv"} => call'[p].peer \in Ranks,
           \A p, t \in Ranks : \A f \in Frames(wire', p, t) :
               \/ f \in Frames(wire, p, t)
               \/ f.type \notin {"Point", "Ack"}
               \/ f.type = "Point" /\ f.sequence = sends[p][t]
    PROVE  PointInv'
<1>1. PointShape' /\ PointsOrdered'
  BY DEF PointInv, PointShape, PointsOrdered, Square
<1>2. ASSUME NEW p \in Ranks, NEW t \in Ranks, NEW f \in Frames(wire', p, t)
      PROVE  PointFrame(f, p, t)
  <2>1. CASE f \in Frames(wire, p, t)
    BY <2>1 DEF PointInv, PointFrames
  <2>2. CASE f \notin Frames(wire, p, t)
    <3>1. f.type \notin {"Point", "Ack"} \/ (f.type = "Point" /\ f.sequence = sends[p][t])
      BY <1>2, <2>2
    <3>2. sends[p][t] \in Nat
      BY DEF PointInv, PointShape
    <3> QED
      BY <3>1, <3>2 DEF PointFrame
  <2> QED
    BY <2>1, <2>2
<1> QED
  BY <1>1, <1>2 DEF PointInv, PointFrames, PointFrame

\* A rank that fails counts nothing more.
LEMMA FailKeepsPoints ==
    ASSUME BarrierInv, PointInv, NEW r \in Ranks, Fail(r), UNCHANGED <<sent, got>>
    PROVE  PointInv'
<1>1. /\ pc' = [pc EXCEPT ![r] = "idle"] /\ call' = [call EXCEPT ![r] = Idle]
      /\ UNCHANGED <<sends, receives>>
  BY DEF Fail
<1>2. pc = [p \in Ranks |-> pc[p]] /\ Square(wire) /\ call = [p \in Ranks |-> call[p]]
  BY DEF BarrierInv, Shape, PointInv, PointShape
<1>3. \A p, t \in Ranks : Frames(wire', p, t) \subseteq Frames(wire, p, t)
  <2>1. \A p, t \in Ranks : Frames(Dropped(wire, r), p, t) \subseteq Frames(wire, p, t)
    BY <1>2, FailDrops
  <2>2. wire' = Dropped(wire, r)
    BY DEF Fail, Dropped
  <2> QED
    BY <2>1, <2>2
<1>4. call' = [p \in Ranks |-> call'[p]]
  BY <1>1, <1>2
<1>5. \A p \in Ranks : pc'[p] \in {"ack", "recv"} => call'[p].peer \in Ranks
  BY <1>1, <1>2 DEF PointInv, PointShape
<1> QED
  BY <1>1, <1>3, <1>4, <1>5, UncountedKeeps

\* The calls, up to their first read.
LEMMA CallKeepsPoints ==
    ASSUME BarrierInv, PointInv, NEW r \in Ranks, NEW c,
           CallCollective(r, c) \/ CallSend(r, c) \/ CallRecv(r, c)
    PROVE  PointInv'
<1> DEFINE m == [type |-> "Request", body |-> RequestOf(r, c)]
           s == [type |-> "Point", sequence |-> sends[r][c.peer], tag |-> c.tag]
<1>1. CASE Fail(r) /\ UNCHANGED history
  BY <1>1, FailKeepsPoints DEF history
<1>2. CASE ~(Fail(r) /\ UNCHANGED history)
  <2>1. /\ call' = [call EXCEPT ![r] = c] /\ UNCHANGED <<sends, receives, sent, got>>
        /\ \E l \in {"gather", "response", "ack", "recv"} :
              /\ pc' = [pc EXCEPT ![r] = l]
              /\ l \in {"ack", "recv"} => Addresses(r, c)
        /\ \/ wire' = wire
           \/ wire' = Put(wire, r, 0, m)
           \/ wire' = Put(wire, r, c.peer, s) /\ Addresses(r, c)
    BY <1>2 DEF CallCollective, CallSend, CallRecv, group, history
  <2>2. pc = [p \in Ranks |-> pc[p]] /\ Square(wire) /\ call = [p \in Ranks |-> call[p]]
    BY DEF BarrierInv, Shape, PointInv, PointShape
  <2>3. call' = [p \in Ranks |-> call'[p]]
    BY <2>1, <2>2
  <2>4. \A p \in Ranks : pc'[p] \in {"ack", "recv"} => call'[p].peer \in Ranks
    BY <2>1, <2>2 DEF PointInv, PointShape, Addresses
  <2>5. m.type = "Request" /\ s.type = "Point" /\ s.sequence = sends[r][c.peer]
    OBVIOUS
  <2>6. ASSUME NEW p \in Ranks, NEW t \in Ranks, NEW f \in Frames(wire', p, t)
        PROVE  \/ f \in Frames(wire, p, t)
               \/ f.type \notin {"Point", "Ack"}
               \/ f.type = "Point" /\ f.sequence = sends[p][t]
    <3> HIDE DEF m, s
    <3>1. CASE wire' = wire
      BY <2>6, <3>1
    <3>2. CASE wire' = Put(wire, r, 0, m)
      <4>1. Frames(wire', p, t) \subseteq Frames(wire, p, t) \cup IF p = r /\ t = 0 THEN {m} ELSE {}
        BY <2>2, <3>2, PutAdds
      <4> QED
        BY <2>5, <2>6, <4>1
    <3>3. CASE wire' = Put(wire, r, c.peer, s)
      <4>1. Frames(wire', p, t) \subseteq Frames(wire, p, t) \cup IF p = r /\ t = c.peer THEN {s} ELSE {}
        BY <2>2, <3>3, PutAdds
      <4> QED
        BY <2>5, <2>6, <4>1
    <3> QED
      BY <2>1, <3>1, <3>2, <3>3
  <2> QED
    BY <2>1, <2>3, <2>4, <2>6, UncountedKeeps
<1> QED
  BY <1>1, <1>2

\* The steps of a collective after its call.
LEMMA CollectiveKeepsPoints ==
    ASSUME BarrierInv, PointInv,
           GatherRead \/ Answer \/ Reply \/ Replied \/ \E r \in Ranks : ResponseRead(r)
    PROVE  PointInv'
<1>1. /\ pc = [p \in Ranks |-> pc[p]] /\ Square(wire) /\ call = [p \in Ranks |-> call[p]]
      /\ \A p \in Ranks : pc[p] \in {"ack", "recv"} => call[p].peer \in Ranks
  BY DEF BarrierInv, Shape, PointInv, PointShape
<1>2. CASE GatherRead
  <2>1. CASE Fail(0)
    BY <1>2, <2>1, ZeroRank, FailKeepsPoints DEF GatherRead, history
  <2>2. CASE ~Fail(0)
    <3>1. /\ wire' = [wire EXCEPT ![peer][0] = Tail(@)] /\ wire[peer][0] # <<>>
          /\ UNCHANGED <<sends, receives, sent, got, pc, call>>
      BY <1>2, <2>2 DEF GatherRead, group, history
    <3>2. \A p, t \in Ranks : Frames(wire', p, t) \subseteq Frames(wire, p, t)
      BY <1>1, <3>1, TailTakes, ZeroRank
    <3> QED
      BY <1>1, <3>1, <3>2, UncountedKeeps
  <2> QED
    BY <2>1, <2>2
<1>3. CASE Answer
  <2>1. UNCHANGED <<sends, receives, sent, got, call, wire>> /\ pc' = [pc EXCEPT ![0] = "reply"]
    BY <1>3 DEF Answer, group, history
  <2>2. \A p \in Ranks : pc'[p] \in {"ack", "recv"} => call'[p].peer \in Ranks
    BY <1>1, <2>1
  <2> QED
    BY <1>1, <2>1, <2>2, UncountedKeeps
<1>4. CASE Reply
  <2> DEFINE m == [type |-> "Response", body |-> responses[peer]]
  <2>1. CASE Fail(0)
    BY <1>4, <2>1, ZeroRank, FailKeepsPoints DEF Reply, history
  <2>2. CASE ~Fail(0)
    <3>1. /\ wire' = Put(wire, 0, peer, m)
          /\ UNCHANGED <<sends, receives, sent, got, pc, call>>
      BY <1>4, <2>2 DEF Reply, group, history
    <3>2. m.type = "Response"
      OBVIOUS
    <3> HIDE DEF m
    <3>3. \A p, t \in Ranks : Frames(wire', p, t) \subseteq Frames(wire, p, t) \cup {m}
      BY <1>1, <3>1, PutAdds, ZeroRank
    <3> QED
      BY <1>1, <3>1, <3>2, <3>3, UncountedKeeps
  <2> QED
    BY <2>1, <2>2
<1>5. ASSUME NEW r \in Ranks, NEW resp, NEW w, Conclude(r, resp, w), UNCHANGED <<sent, got>>,
             Square(w), \A p, t \in Ranks : Frames(w, p, t) \subseteq Frames(wire, p, t)
      PROVE  PointInv'
  <2>1. CASE Refused(r, resp)
    BY <1>5, <2>1, FailKeepsPoints DEF Conclude
  <2>2. CASE ~Refused(r, resp)
    <3>1. /\ UNCHANGED <<sends, receives>>
          /\ wire' = IF Differs(r, resp) THEN [q \in Ranks |-> [w[q] EXCEPT ![r] = <<>>]] ELSE w
          /\ pc' = [pc EXCEPT ![r] = "idle"] /\ call' = [call EXCEPT ![r] = Idle]
      BY <1>5, <2>2 DEF Conclude, Idles
    <3>2. call' = [p \in Ranks |-> call'[p]]
      BY <1>1, <3>1
    <3>3. \A p \in Ranks : pc'[p] \in {"ack", "recv"} => call'[p].peer \in Ranks
      BY <1>1, <3>1
    <3>4. \A p, t \in Ranks : Frames(wire', p, t) \subseteq Frames(wire, p, t)
      <4>1. \A p, t \in Ranks : Frames(Dropped(w, r), p, t) \subseteq Frames(w, p, t)
        BY <1>5, FailDrops
      <4>2. wire' = Dropped(w, r) \/ wire' = w
        BY <3>1 DEF Dropped
      <4> QED
        BY <1>5, <4>1, <4>2
    <3> QED
      BY <1>5, <3>1, <3>2, <3>3, <3>4, UncountedKeeps
  <2> QED
    BY <2>1, <2>2
<1>6. CASE Replied
  BY <1>1, <1>5, <1>6, ZeroRank DEF Replied
<1>7. ASSUME NEW r \in Ranks, ResponseRead(r)
      PROVE  PointInv'
  <2> DEFINE w == [wire EXCEPT ![0][r] = Tail(@)]
  <2>1. wire[0][r] # <<>> /\ (Conclude(r, Head(wire[0][r]).body, w) \/ Fail(r)) /\ UNCHANGED <<sent, got>>
    BY <1>7 DEF ResponseRead
  <2>2. Square(w) /\ \A p, t \in Ranks : Frames(w, p, t) \subseteq Frames(wire, p, t)
    BY <1>1, <2>1, TailTakes, ZeroRank
  <2> HIDE DEF w
  <2> QED
    BY <1>5, <2>1, <2>2, FailKeepsPoints
<1> QED
  BY <1>2, <1>3, <1>4, <1>6, <1>7

\* v is w, and m counts it, with x appended for r and q
More(w, v, n, m, r, q, x) ==
    /\ Square(v) /\ m \in [Ranks -> [Ranks -> Nat]]
    /\ \A p, t \in Ranks : m[p][t] = Len(v[p][t])
    /\ \A p, t \in Ranks : p # r \/ t # q => v[p][t] = w[p][t] /\ m[p][t] = n[p][t]
    /\ m[r][q] = n[r][q] + 1 /\ Len(v[r][q]) = n[r][q] + 1 /\ v[r][q][n[r][q] + 1] = x
    /\ \A i \in 1 .. n[r][q] : v[r][q][i] = w[r][q][i]

\* Counting one more, and remembering which.
LEMMA CountedMore ==
    ASSUME NEW w, Square(w), NEW n \in [Ranks -> [Ranks -> Nat]],
           \A p, t \in Ranks : n[p][t] = Len(w[p][t]),
           NEW r \in Ranks, NEW q \in Ranks, NEW x,
           NEW v, v = [w EXCEPT ![r][q] = Append(@, x)],
           NEW m, m = [n EXCEPT ![r][q] = @ + 1]
    PROVE  More(w, v, n, m, r, q, x)
<1> DEFINE u == [p \in Ranks |-> [t \in Ranks |->
                    IF p = r /\ t = q THEN Append(w[p][t], x) ELSE w[p][t]]]
<1>1. v = u
  <2>1. /\ w = [p \in Ranks |-> w[p]] /\ v = [w EXCEPT ![r] = [w[r] EXCEPT ![q] = Append(w[r][q], x)]]
        /\ \A p \in Ranks : w[p] = [t \in Ranks |-> w[p][t]]
    BY DEF Square
  <2>2. \A p \in Ranks : v[p] = [t \in Ranks |-> IF p = r /\ t = q THEN Append(w[p][t], x) ELSE w[p][t]]
    BY ONLY <2>1, r \in Ranks, q \in Ranks
  <2>3. v = [p \in Ranks |-> v[p]]
    BY ONLY <2>1
  <2> QED
    BY ONLY <2>2, <2>3
<1>2. /\ m \in [Ranks -> [Ranks -> Nat]] /\ m[r][q] = n[r][q] + 1
      /\ \A p, t \in Ranks : p # r \/ t # q => m[p][t] = n[p][t]
  <2>1. m = [n EXCEPT ![r] = [n[r] EXCEPT ![q] = n[r][q] + 1]]
    OBVIOUS
  <2>2. \A p \in Ranks : n[p] \in [Ranks -> Nat]
    BY ONLY n \in [Ranks -> [Ranks -> Nat]]
  <2>3. [n[r] EXCEPT ![q] = n[r][q] + 1] \in [Ranks -> Nat]
    <3>1. n[r] \in [Ranks -> Nat]
      BY ONLY <2>2, r \in Ranks
    <3>2. n[r][q] \in Nat
      BY ONLY <3>1, q \in Ranks
    <3> QED
      BY ONLY <3>1, <3>2
  <2>4. m \in [Ranks -> [Ranks -> Nat]]
    <3> DEFINE row == [n[r] EXCEPT ![q] = n[r][q] + 1]
               rows == [Ranks -> Nat]
    <3>1. row \in rows /\ n \in [Ranks -> rows] /\ m = [n EXCEPT ![r] = row]
      BY ONLY <2>1, <2>3, n \in [Ranks -> [Ranks -> Nat]]
    <3> HIDE DEF row, rows
    <3>2. m \in [Ranks -> rows]
      BY ONLY <3>1
    <3> QED
      BY ONLY <3>2 DEF rows
  <2>5. /\ m[r] = [n[r] EXCEPT ![q] = n[r][q] + 1]
        /\ \A p \in Ranks : p # r => m[p] = n[p]
    BY ONLY <2>1, n \in [Ranks -> [Ranks -> Nat]], r \in Ranks
  <2>6. m[r][q] = n[r][q] + 1 /\ \A t \in Ranks : t # q => m[r][t] = n[r][t]
    BY ONLY <2>2, <2>5, r \in Ranks, q \in Ranks
  <2>7. ASSUME NEW p \in Ranks, NEW t \in Ranks, p # r \/ t # q
        PROVE  m[p][t] = n[p][t]
    <3>1. CASE p = r
      BY ONLY <2>6, <2>7, <3>1, t \in Ranks
    <3>2. CASE p # r
      BY ONLY <2>5, <3>2, p \in Ranks
    <3> QED
      BY ONLY <3>1, <3>2
  <2> QED
    BY ONLY <2>4, <2>6, <2>7
<1>3. /\ \A p, t \in Ranks : p # r \/ t # q => v[p][t] = w[p][t]
      /\ v[r][q] = Append(w[r][q], x)
  <2>1. \A p, t \in Ranks : v[p][t] = IF p = r /\ t = q THEN Append(w[p][t], x) ELSE w[p][t]
    BY ONLY <1>1
  <2> QED
    BY ONLY <2>1, r \in Ranks, q \in Ranks
<1>4. /\ IsSeq(Append(w[r][q], x)) /\ Len(Append(w[r][q], x)) = Len(w[r][q]) + 1
      /\ \A i \in 1 .. Len(w[r][q]) : Append(w[r][q], x)[i] = w[r][q][i]
      /\ Append(w[r][q], x)[Len(w[r][q]) + 1] = x
  BY SeqAppend DEF Square
<1>5. Square(v)
  <2>1. v = [p \in Ranks |-> [t \in Ranks |-> v[p][t]]]
    BY <1>1
  <2>2. ASSUME NEW p \in Ranks, NEW t \in Ranks
        PROVE  IsSeq(v[p][t])
    BY <1>3, <1>4 DEF Square
  <2> QED
    BY <2>1, <2>2 DEF Square
<1>6. ASSUME NEW p \in Ranks, NEW t \in Ranks
      PROVE  m[p][t] = Len(v[p][t])
  <2>1. CASE p = r /\ t = q
    <3>1. n[r][q] = Len(w[r][q])
      OBVIOUS
    <3> QED
      BY ONLY <1>2, <1>3, <1>4, <2>1, <3>1
  <2>2. CASE ~(p = r /\ t = q)
    <3>1. n[p][t] = Len(w[p][t])
      OBVIOUS
    <3>2. v[p][t] = w[p][t] /\ m[p][t] = n[p][t]
      BY ONLY <1>2, <1>3, <2>2, p \in Ranks, t \in Ranks
    <3> QED
      BY ONLY <3>1, <3>2
  <2> QED
    BY <2>1, <2>2
<1>7. Len(v[r][q]) = n[r][q] + 1 /\ v[r][q][n[r][q] + 1] = x
      /\ \A i \in 1 .. n[r][q] : v[r][q][i] = w[r][q][i]
  <2>1. n[r][q] = Len(w[r][q])
    OBVIOUS
  <2> QED
    BY ONLY <1>3, <1>4, <2>1
<1> QED
  BY ONLY <1>2, <1>3, <1>5, <1>6, <1>7 DEF More

\* The acknowledgement of the send under way counts it: it was received.
LEMMA AckReadKeepsPoints ==
    ASSUME BarrierInv, PointInv, NEW r \in Ranks, AckRead(r)
    PROVE  PointInv'
<1> DEFINE q == call[r].peer
           f == Head(wire[q][r])
<1>1. CASE Fail(r) /\ UNCHANGED sent
  BY <1>1, FailKeepsPoints DEF AckRead
<1>2. CASE ~(Fail(r) /\ UNCHANGED sent)
  <2>1. /\ wire[q][r] # <<>> /\ pc[r] = "ack"
        /\ f.type = "Ack" /\ f.sequence = sends[r][q] /\ f.tag = call[r].tag
        /\ sends' = [sends EXCEPT ![r][q] = @ + 1]
        /\ sent' = [sent EXCEPT ![r][q] = Append(@, call[r].tag)]
        /\ wire' = [wire EXCEPT ![q][r] = Tail(@)]
        /\ pc' = [pc EXCEPT ![r] = "idle"] /\ call' = [call EXCEPT ![r] = Idle]
        /\ UNCHANGED <<receives, got>>
    <3>1. /\ wire[q][r] # <<>> /\ pc[r] = "ack" /\ Acknowledges(r, f)
          /\ sends' = [sends EXCEPT ![r][q] = @ + 1]
          /\ sent' = [sent EXCEPT ![r][q] = Append(@, call[r].tag)]
          /\ wire' = [wire EXCEPT ![q][r] = Tail(@)]
          /\ Idles(r) /\ UNCHANGED <<receives, got>>
      BY ONLY <1>2, AckRead(r), Zenon DEF AckRead
    <3>2. f.type = "Ack" /\ f.sequence = sends[r][q] /\ f.tag = call[r].tag
      <4>1. f = [type |-> "Ack", sequence |-> sends[r][q], tag |-> call[r].tag]
        BY ONLY <3>1 DEF Acknowledges
      <4> HIDE DEF q, f
      <4> QED
        BY ONLY <4>1
    <3> HIDE DEF q, f
    <3> QED
      BY ONLY <3>1, <3>2 DEF Idles
  <2>2. /\ pc = [p \in Ranks |-> pc[p]] /\ Square(wire) /\ call = [p \in Ranks |-> call[p]]
        /\ PointShape /\ q \in Ranks
    BY <2>1 DEF BarrierInv, Shape, PointInv, PointShape
  <2> DEFINE n == Len(sent[r][q])
             tag == call[r].tag
  <2> HIDE DEF q, f, tag
  <2>3. /\ f \in Frames(wire, q, r)
        /\ \A p, t \in Ranks : Frames(wire', p, t) \subseteq Frames(wire, p, t)
    BY <2>1, <2>2, TailTakes DEF f
  <2>4. /\ n = sends[r][q] /\ n \in 0 .. Len(got[q][r]) - 1 /\ got[q][r][n + 1] = tag
    <3>1. PointFrame(f, q, r)
      BY <2>2, <2>3 DEF PointInv, PointFrames
    <3>2. n = sends[r][q]
      BY <2>2 DEF PointShape
    <3>3. f.type = "Ack" /\ f.sequence = sends[r][q] /\ f.tag = tag
      BY <2>1 DEF tag
    <3> HIDE DEF n
    <3> QED
      BY <3>1, <3>2, <3>3 DEF PointFrame
  <2>5. /\ sent' = [sent EXCEPT ![r][q] = Append(@, tag)] /\ sends' = [sends EXCEPT ![r][q] = @ + 1]
    BY <2>1 DEF tag
  <2>6. More(sent, sent', sends, sends', r, q, tag)
    <3>1. sends \in [Ranks -> [Ranks -> Nat]] /\ Square(sent) /\ \A p, t \in Ranks : sends[p][t] = Len(sent[p][t])
      BY <2>2 DEF PointShape
    <3>2. r \in Ranks /\ q \in Ranks
      BY <2>2
    <3> QED
      BY ONLY <2>5, <3>1, <3>2, CountedMore
  <2>7. PointShape'
    <3>1. /\ call' = [p \in Ranks |-> call'[p]]
          /\ \A p \in Ranks : pc'[p] \in {"ack", "recv"} => call'[p].peer \in Ranks
      BY <2>1, <2>2 DEF PointShape
    <3>2. /\ sends' \in [Ranks -> [Ranks -> Nat]] /\ Square(sent')
          /\ \A p, t \in Ranks : sends'[p][t] = Len(sent'[p][t])
      BY ONLY <2>6 DEF More
    <3>3. /\ receives \in [Ranks -> [Ranks -> Nat]] /\ Square(got)
          /\ \A p, t \in Ranks : receives[p][t] = Len(got[p][t])
          /\ receives' = receives /\ got' = got
      BY <2>1, <2>2 DEF PointShape
    <3> QED
      BY ONLY <3>1, <3>2, <3>3 DEF PointShape
  <2>8. PointFrames'
    <3>1. ASSUME NEW p \in Ranks, NEW t \in Ranks
          PROVE  0 .. sends[p][t] \subseteq 0 .. sends'[p][t]
      <4>1. sends[p][t] \in Nat /\ (sends'[p][t] = sends[p][t] \/ sends'[p][t] = sends[p][t] + 1)
        <5>1. sends[p][t] \in Nat
          <6>1. sends \in [Ranks -> [Ranks -> Nat]]
            BY ONLY <2>2 DEF PointShape
          <6> QED
            BY ONLY <6>1, p \in Ranks, t \in Ranks
        <5>2. CASE p = r /\ t = q
          BY ONLY <2>6, <5>1, <5>2 DEF More
        <5>3. CASE p # r \/ t # q
          BY <2>6, <5>1, <5>3 DEF More
        <5> QED
          BY <5>1, <5>2, <5>3
      <4> QED
        BY <4>1
    <3> QED
      BY <2>1, <2>3, <3>1 DEF PointInv, PointFrames, PointFrame
  <2>9. PointsOrdered'
    <3>1. ASSUME NEW p \in Ranks, NEW t \in Ranks
          PROVE  Received(sent'[p][t], got[t][p])
      <4>1. Received(sent[p][t], got[t][p])
        BY DEF PointInv, PointsOrdered
      <4>2. CASE p # r \/ t # q
        BY <2>6, <4>1, <4>2 DEF More
      <4>3. CASE p = r /\ t = q
        <5>1. n \in Nat /\ Len(sent[r][q]) = n /\ Len(got[q][r]) \in Nat
          BY <2>2, SeqAppend DEF PointShape, Square
        <5> HIDE DEF n
        <5>2. \A i \in 1 .. n + 1 : i \in 1 .. n \/ i = n + 1
          BY <5>1
        <5>3. /\ Len(sent'[r][q]) = n + 1 /\ sent'[r][q][n + 1] = tag
              /\ \A i \in 1 .. n : sent'[r][q][i] = sent[r][q][i]
          BY ONLY <2>4, <2>6 DEF More
        <5>4. Received(sent'[r][q], got[q][r])
          <6>1. Received(sent[r][q], got[q][r])
            BY <4>1, <4>3
          <6>2. \A i \in 1 .. n + 1 : sent'[r][q][i] = got[q][r][i]
            <7>1. ASSUME NEW i \in 1 .. n
                  PROVE  sent'[r][q][i] = got[q][r][i]
              BY ONLY <5>1, <5>3, <6>1, <7>1 DEF Received
            <7> QED
              BY ONLY <2>4, <5>2, <5>3, <7>1
          <6>3. n + 1 <= Len(got[q][r]) /\ Len(got[q][r]) <= n + 1 + 1
            <7>1. Len(got[q][r]) <= n + 1
              BY ONLY <5>1, <6>1 DEF Received
            <7>2. n + 1 <= Len(got[q][r])
              <8>1. n \in 0 .. Len(got[q][r]) - 1
                BY ONLY <2>4
              <8> QED
                BY ONLY <5>1, <8>1
            <7> QED
              BY ONLY <5>1, <7>1, <7>2
          <6> QED
            BY ONLY <5>3, <6>2, <6>3 DEF Received
        <5> QED
          BY <4>3, <5>4
      <4> QED
        BY <4>2, <4>3
    <3> QED
      BY <2>1, <3>1 DEF PointsOrdered
  <2> QED
    BY <2>7, <2>8, <2>9 DEF PointInv
<1> QED
  BY <1>1, <1>2

\* The tensor that is received is the next one of its sender.
LEMMA PointReadKeepsPoints ==
    ASSUME BarrierInv, PointInv, NEW r \in Ranks, PointRead(r)
    PROVE  PointInv'
<1> DEFINE q == call[r].peer
           f == Head(wire[q][r])
           ack == [type |-> "Ack", sequence |-> f.sequence, tag |-> call[r].tag]
           w == [wire EXCEPT ![q][r] = Tail(@)]
<1>1. CASE Fail(r) /\ UNCHANGED got
  BY <1>1, FailKeepsPoints DEF PointRead
<1>2. CASE ~(Fail(r) /\ UNCHANGED got)
  <2>1. /\ wire[q][r] # <<>> /\ pc[r] = "recv"
        /\ f.type = "Point" /\ f.sequence = receives[r][q] /\ f.tag = call[r].tag
        /\ receives' = [receives EXCEPT ![r][q] = @ + 1]
        /\ got' = [got EXCEPT ![r][q] = Append(@, f.tag)]
        /\ wire' = Put(w, r, q, ack)
        /\ pc' = [pc EXCEPT ![r] = "idle"] /\ call' = [call EXCEPT ![r] = Idle]
        /\ UNCHANGED <<sends, sent>>
    BY <1>2 DEF PointRead, Expected, Idles
  <2>2. /\ pc = [p \in Ranks |-> pc[p]] /\ Square(wire) /\ call = [p \in Ranks |-> call[p]]
        /\ PointShape /\ q \in Ranks
    BY <2>1 DEF BarrierInv, Shape, PointInv, PointShape
  <2>3. ack.type = "Ack" /\ ack.sequence = f.sequence /\ ack.tag = f.tag
    BY <2>1
  <2> DEFINE n == Len(got[r][q])
             tag == f.tag
  <2> HIDE DEF q, f, tag, w, ack
  <2>4. /\ f \in Frames(wire, q, r) /\ Square(w)
        /\ \A p, t \in Ranks : Frames(w, p, t) \subseteq Frames(wire, p, t)
    BY <2>1, <2>2, TailTakes DEF f, w
  <2>5. \A p, t \in Ranks :
            Frames(wire', p, t) \subseteq Frames(wire, p, t) \cup IF p = r /\ t = q THEN {ack} ELSE {}
    BY <2>1, <2>4, PutAdds
  <2>6. n = f.sequence /\ n \in 0 .. Len(sent[q][r])
    <3>1. PointFrame(f, q, r)
      BY <2>2, <2>4 DEF PointInv, PointFrames
    <3>2. f.type = "Point" /\ f.sequence = receives[r][q]
      BY ONLY <2>1
    <3>3. sends[q][r] = Len(sent[q][r]) /\ receives[r][q] = n
      BY ONLY <2>2 DEF PointShape
    <3>4. f.sequence \in 0 .. sends[q][r]
      BY ONLY <3>1, <3>2 DEF PointFrame
    <3> QED
      BY ONLY <3>2, <3>3, <3>4
  <2>7. /\ got' = [got EXCEPT ![r][q] = Append(@, tag)] /\ receives' = [receives EXCEPT ![r][q] = @ + 1]
    BY <2>1 DEF tag
  <2>8. More(got, got', receives, receives', r, q, tag)
    <3>1. /\ receives \in [Ranks -> [Ranks -> Nat]] /\ Square(got)
          /\ \A p, t \in Ranks : receives[p][t] = Len(got[p][t])
      BY <2>2 DEF PointShape
    <3>2. r \in Ranks /\ q \in Ranks
      BY <2>2
    <3> QED
      BY ONLY <2>7, <3>1, <3>2, CountedMore
  <2>9. /\ n = receives[r][q] /\ Len(got'[r][q]) = n + 1 /\ got'[r][q][n + 1] = tag
         /\ \A i \in 1 .. n : got'[r][q][i] = got[r][q][i]
    <3>1. n = receives[r][q]
      BY <2>2 DEF PointShape
    <3> HIDE DEF n
    <3> QED
      BY ONLY <2>8, <3>1 DEF More
  <2>10. PointShape'
    <3>1. /\ call' = [p \in Ranks |-> call'[p]]
          /\ \A p \in Ranks : pc'[p] \in {"ack", "recv"} => call'[p].peer \in Ranks
      BY <2>1, <2>2 DEF PointShape
    <3>2. /\ receives' \in [Ranks -> [Ranks -> Nat]] /\ Square(got')
          /\ \A p, t \in Ranks : receives'[p][t] = Len(got'[p][t])
      BY ONLY <2>8 DEF More
    <3>3. /\ sends \in [Ranks -> [Ranks -> Nat]] /\ Square(sent)
          /\ \A p, t \in Ranks : sends[p][t] = Len(sent[p][t])
          /\ sends' = sends /\ sent' = sent
      BY <2>1, <2>2 DEF PointShape
    <3> QED
      BY ONLY <3>1, <3>2, <3>3 DEF PointShape
  <2>11. ASSUME NEW p \in Ranks, NEW t \in Ranks, NEW k \in 0 .. Len(got[p][t]) - 1
         PROVE  k \in 0 .. Len(got'[p][t]) - 1 /\ got'[p][t][k + 1] = got[p][t][k + 1]
    <3>1. CASE p # r \/ t # q
      BY <2>8, <3>1 DEF More
    <3>2. CASE p = r /\ t = q
      <4>1. n \in Nat /\ k \in 0 .. n - 1
        BY <2>6, <3>2, <2>11
      <4>2. k + 1 \in 1 .. n
        BY <4>1
      <4>3. k \in 0 .. Len(got'[r][q]) - 1 /\ got'[r][q][k + 1] = got[r][q][k + 1]
        <5> HIDE DEF n
        <5>1. /\ Len(got'[r][q]) = n + 1
              /\ \A i \in 1 .. n : got'[r][q][i] = got[r][q][i]
          BY ONLY <2>9
        <5>2. n \in Nat /\ n + 1 - 1 = n /\ k \in 0 .. n
          BY ONLY <4>1
        <5>3. k \in 0 .. Len(got'[r][q]) - 1
          <6>1. Len(got'[r][q]) - 1 = n
            BY ONLY <5>1, <5>2
          <6> QED
            BY ONLY <5>2, <6>1
        <5>4. got'[r][q][k + 1] = got[r][q][k + 1]
          BY ONLY <5>1, <4>2, Zenon
        <5> QED
          BY ONLY <5>3, <5>4
      <4> QED
        BY <3>2, <4>3
    <3> QED
      BY <3>1, <3>2
  <2>12. n \in 0 .. Len(got'[r][q]) - 1 /\ got'[r][q][n + 1] = tag
    BY <2>6, <2>9
  <2>13. PointFrames'
    <3>1. ASSUME NEW p \in Ranks, NEW t \in Ranks, NEW g \in Frames(wire', p, t)
          PROVE  /\ g.type = "Point" => g.sequence \in 0 .. sends'[p][t]
                 /\ g.type = "Ack" => g.sequence \in 0 .. Len(got'[p][t]) - 1 /\ g.tag = got'[p][t][g.sequence + 1]
      <4>1. CASE g \in Frames(wire, p, t)
        <5>1. PointFrame(g, p, t)
          BY <4>1 DEF PointInv, PointFrames
        <5> QED
          BY <2>1, <2>11, <5>1 DEF PointFrame
      <4>2. CASE g \notin Frames(wire, p, t)
        <5>1. p = r /\ t = q /\ g = ack
          BY <2>5, <3>1, <4>2
        <5> QED
          BY <2>3, <2>6, <2>12, <5>1 DEF tag
      <4> QED
        BY <4>1, <4>2
    <3> QED
      BY <3>1 DEF PointFrames, PointFrame
  <2>14. PointsOrdered'
    <3>1. ASSUME NEW p \in Ranks, NEW t \in Ranks
          PROVE  Received(sent[t][p], got'[p][t])
      <4>1. Received(sent[t][p], got[p][t])
        BY DEF PointInv, PointsOrdered
      <4>2. CASE p # r \/ t # q
        BY <2>8, <4>1, <4>2 DEF More
      <4>3. CASE p = r /\ t = q
        <5>1. n \in Nat /\ Len(got[r][q]) = n /\ Len(sent[q][r]) \in Nat
          BY <2>2, <2>6, SeqAppend DEF PointShape, Square
        <5> HIDE DEF n
        <5>2. Received(sent[q][r], got'[r][q])
          <6>1. /\ Len(sent[q][r]) <= n /\ n <= Len(sent[q][r]) + 1
                /\ \A i \in 1 .. Len(sent[q][r]) : sent[q][r][i] = got[r][q][i]
            BY ONLY <4>1, <4>3, <5>1 DEF Received
          <6>2. /\ Len(got'[r][q]) = n + 1 /\ \A i \in 1 .. n : got'[r][q][i] = got[r][q][i]
            BY ONLY <2>9
          <6>3. Len(sent[q][r]) = n
            BY ONLY <2>6, <5>1, <6>1
          <6> QED
            BY ONLY <5>1, <6>1, <6>2, <6>3 DEF Received
        <5> QED
          BY <4>3, <5>2
      <4> QED
        BY <4>2, <4>3
    <3> QED
      BY <2>1, <3>1 DEF PointsOrdered
  <2> QED
    BY <2>10, <2>13, <2>14 DEF PointInv
<1> QED
  BY <1>1, <1>2

\* Every step keeps the invariant of send and recv.
LEMMA PointNext == BarrierInv /\ PointInv /\ [Next]_vars => PointInv'
<1> SUFFICES ASSUME BarrierInv, PointInv, [Next]_vars
             PROVE  PointInv'
  OBVIOUS
<1>1. CASE UNCHANGED vars
  <2>1. UNCHANGED <<pc, call, wire, sends, receives, sent, got>>
    BY <1>1 DEF vars, group, history
  <2> QED
    BY <2>1, UncountedKeeps DEF PointInv, PointShape, Frames
<1>2. ASSUME NEW r \in Ranks, Progress(r)
      PROVE  PointInv'
  <2>1. CASE Disconnected(r)
    BY <2>1, FailKeepsPoints DEF Disconnected, history
  <2> QED
    BY <1>2, <2>1, CollectiveKeepsPoints, AckReadKeepsPoints, PointReadKeepsPoints DEF Progress
<1>3. ASSUME NEW r \in Ranks, TimesOut(r) \/ Abort(r)
      PROVE  PointInv'
  BY <1>3, FailKeepsPoints DEF TimesOut, Abort, history
<1>4. ASSUME NEW r \in Ranks, NEW c, CallCollective(r, c) \/ CallSend(r, c) \/ CallRecv(r, c)
      PROVE  PointInv'
  BY <1>4, CallKeepsPoints
<1> QED
  BY <1>1, <1>2, <1>3, <1>4 DEF Next

\* A send that returned was received once, in order and under its tag, and at
\* most one receive is not acknowledged (send and recv), whatever else uses the
\* stream and whoever fails.
THEOREM PointsArriveInOrder == Spec => []PointsAgree
<1>1. PointInv => PointsAgree
  <2> SUFFICES ASSUME PointInv, NEW r \in Ranks, NEW q \in Ranks
               PROVE  IsPrefix(sent[r][q], got[q][r]) /\ Len(got[q][r]) <= Len(sent[r][q]) + 1
    BY DEF PointsAgree
  <2> QED
    BY PrefixOf DEF PointInv, PointShape, PointsOrdered, Square, Received
<1>2. Init => BarrierInv /\ PointInv
  BY BarrierInit, PointInit
<1>3. (BarrierInv /\ PointInv) /\ [Next]_vars => (BarrierInv /\ PointInv)'
  BY BarrierNext, PointNext
<1> QED
  BY <1>1, <1>2, <1>3, PTL DEF Spec

-----------------------------------------------------------------------------
\* Agreement: every response in flight is the outcome of the ranks' own requests

\* What each rank asked in the collective with sequence number n
At(made, n) == [q \in Ranks |-> made[q][n + 1]]

\* An accepting response of rank r is its part of the outcome of one collective
Genuine(b, r, made) ==
    ~b.error =>
        /\ \A q \in Ranks : b.sequence \in 0 .. Len(made[q]) - 1
        /\ Accepted(At(made, b.sequence))
        /\ b = Evaluate(At(made, b.sequence))[r]

\* A rank has one result per collective it has finished, and works for none
\* after it has failed
AgreeShape ==
    /\ done = [r \in Ranks |-> done[r]]
    /\ \A r \in Ranks : /\ IsSeq(done[r]) /\ Len(done[r]) = sequence[r] /\ sequence[r] >= 1
                        /\ pc[r] # "idle" => ~failed[r]

\* Requests are numbered by the collectives their rank has entered
Numbered(made) == \A r \in Ranks : \A k \in 1 .. Len(made[r]) : made[r][k].sequence = k - 1

\* The request m is the one that rank r has made under its number
Asked(m, r, made) == m = made[r][m.sequence + 1]

RequestsKept ==
    /\ \A r \in Ranks : \A f \in Frames(wire, r, 0) : f.type = "Request" => Asked(f.body, r, asked)
    /\ pc[0] = "gather" =>
           \A i \in 1 .. Len(requests) : i \in 1 .. World => Asked(requests[i], i - 1, asked)

ResponsesGenuine ==
    /\ pc[0] = "reply" => \A r \in Ranks : Genuine(responses[r], r, asked)
    /\ \A r \in Ranks : \A f \in Frames(wire, 0, r) :
           f.type = "Response" => Genuine(f.body, r, asked)

AgreeInv == AgreeShape /\ Numbered(asked) /\ RequestsKept /\ ResponsesGenuine

\* An accepted evaluation of one request per rank is genuine.
LEMMA EvaluateGenuine ==
    ASSUME NEW reqs, reqs = [q \in Ranks |-> reqs[q]], NEW made,
           \A q \in Ranks : reqs[q].sequence \in 0 .. Len(made[q]) - 1 /\ Asked(reqs[q], q, made),
           NEW r \in Ranks
    PROVE  Genuine(Evaluate(reqs)[r], r, made)
<1> DEFINE b == Evaluate(reqs)[r]
<1> SUFFICES ASSUME ~b.error
             PROVE  Genuine(b, r, made)
  BY DEF Genuine
<1>1. Accepted(reqs)
  BY DEF Evaluate
<1>2. \A q \in Ranks : reqs[q].sequence = b.sequence
  BY EvaluateAccepts
<1> HIDE DEF b
<1>3. \A q \in Ranks : reqs[q] = made[q][b.sequence + 1]
  BY <1>2 DEF Asked
<1>4. reqs = At(made, b.sequence)
  BY <1>3 DEF At
<1>5. b = Evaluate(At(made, b.sequence))[r]
  BY <1>4 DEF b
<1>6. \A q \in Ranks : b.sequence \in 0 .. Len(made[q]) - 1
  BY <1>2
<1> QED
  BY <1>1, <1>4, <1>5, <1>6 DEF Genuine

\* The rendezvous is the one collective that has been asked and done.
LEMMA AgreeInit == Init => AgreeInv
<1> SUFFICES ASSUME Init
             PROVE  AgreeInv
  OBVIOUS
<1> DEFINE first == [sequence |-> 0, error |-> FALSE, tensors |-> <<>>, bytes |-> <<>>]
<1>1. /\ done = [r \in Ranks |-> <<first>>] /\ asked = [r \in Ranks |-> <<Rendezvous>>]
      /\ sequence = [r \in Ranks |-> 1] /\ pc = [r \in Ranks |-> "idle"]
      /\ Rendezvous.sequence = 0
  BY DEF Init, Rendezvous
<1> HIDE DEF first
<1>2. /\ IsSeq(<<first>>) /\ Len(<<first>>) = 1
      /\ Len(<<Rendezvous>>) = 1 /\ <<Rendezvous>>[1] = Rendezvous
  BY SeqOne
<1>3. AgreeShape
  BY <1>1, <1>2 DEF AgreeShape
<1>4. Numbered(asked)
  BY <1>1, <1>2 DEF Numbered
<1>5. \A r, q \in Ranks : Frames(wire, r, q) = {}
  BY SeqEmpty DEF Init, Frames
<1>6. RequestsKept /\ ResponsesGenuine
  BY <1>1, <1>5, ZeroRank DEF RequestsKept, ResponsesGenuine
<1> QED
  BY <1>3, <1>4, <1>6 DEF AgreeInv

\* A step that asks and finishes nothing, and writes no request or response.
LEMMA OthersKeepAgree ==
    ASSUME AgreeInv, UNCHANGED <<sequence, asked, done>>,
           \A p \in Ranks : pc'[p] # "idle" => ~failed'[p],
           \A p, t \in Ranks : \A f \in Frames(wire', p, t) :
               f \in Frames(wire, p, t) \/ f.type \in {"Point", "Ack"},
           pc'[0] \in {"gather", "reply"} =>
               pc'[0] = pc[0] /\ requests' = requests /\ responses' = responses
    PROVE  AgreeInv'
<1>1. AgreeShape /\ Numbered(asked) /\ RequestsKept /\ ResponsesGenuine
  BY DEF AgreeInv
<1>2. AgreeShape'
  BY <1>1 DEF AgreeShape
<1>3. Numbered(asked)'
  BY <1>1 DEF Numbered
<1>4. RequestsKept'
  BY <1>1, ZeroRank DEF RequestsKept
<1>5. ResponsesGenuine'
  BY <1>1, ZeroRank DEF ResponsesGenuine
<1> QED
  BY <1>2, <1>3, <1>4, <1>5 DEF AgreeInv

\* A rank that fails finishes nothing more.
LEMMA FailKeepsAgree ==
    ASSUME BarrierInv, AgreeInv, NEW r \in Ranks, Fail(r), UNCHANGED <<asked, done>>
    PROVE  AgreeInv'
<1>1. /\ pc' = [pc EXCEPT ![r] = "idle"] /\ failed' = [failed EXCEPT ![r] = TRUE]
      /\ sequence' = sequence
      /\ r # 0 => UNCHANGED <<requests, responses>>
  BY DEF Fail, coordinator
<1>2. /\ pc = [p \in Ranks |-> pc[p]] /\ failed \in [Ranks -> BOOLEAN] /\ Square(wire)
      /\ \A p \in Ranks : pc[p] # "idle" => ~failed[p]
  BY DEF BarrierInv, Shape, AgreeInv, AgreeShape
<1>3. \A p, t \in Ranks : Frames(wire', p, t) \subseteq Frames(wire, p, t)
  <2>1. \A p, t \in Ranks : Frames(Dropped(wire, r), p, t) \subseteq Frames(wire, p, t)
    BY <1>2, FailDrops
  <2>2. wire' = Dropped(wire, r)
    BY DEF Fail, Dropped
  <2> QED
    BY <2>1, <2>2
<1>4. /\ pc'[r] = "idle"
      /\ \A p \in Ranks \ {r} : pc'[p] = pc[p] /\ failed'[p] = failed[p]
  BY <1>1, <1>2
<1>5. \A p \in Ranks : pc'[p] # "idle" => ~failed'[p]
  BY <1>2, <1>4
<1>6. pc'[0] \in {"gather", "reply"} =>
          pc'[0] = pc[0] /\ requests' = requests /\ responses' = responses
  BY <1>1, <1>4, ZeroRank
<1> QED
  BY <1>1, <1>3, <1>5, <1>6, OthersKeepAgree

\* The steps of send and recv.
LEMMA PointsKeepAgree ==
    ASSUME BarrierInv, AgreeInv, NEW r \in Ranks, NEW c,
           CallSend(r, c) \/ CallRecv(r, c) \/ AckRead(r) \/ PointRead(r)
    PROVE  AgreeInv'
<1> DEFINE m == [type |-> "Point", sequence |-> sends[r][c.peer], tag |-> c.tag]
           q == call[r].peer
           a == [type |-> "Ack", sequence |-> Head(wire[q][r]).sequence, tag |-> call[r].tag]
           w == [wire EXCEPT ![q][r] = Tail(@)]
<1>1. UNCHANGED <<asked, done>>
  BY DEF CallSend, CallRecv, AckRead, PointRead, history
<1>2. CASE Fail(r)
  BY <1>1, <1>2, FailKeepsAgree
<1>3. CASE ~Fail(r)
  <2>1. /\ ~failed[r] \/ pc[r] # "idle"
        /\ pc[r] \in {"idle", "ack", "recv"}
        /\ \E l \in {"idle", "ack", "recv"} : pc' = [pc EXCEPT ![r] = l]
        /\ UNCHANGED <<failed, sequence, requests, responses>>
        /\ \/ wire' = wire
           \/ wire' = Put(wire, r, c.peer, m)
           \/ wire[q][r] # <<>> /\ wire' = w
           \/ wire[q][r] # <<>> /\ wire' = Put(w, r, q, a)
    BY <1>3 DEF CallSend, CallRecv, AckRead, PointRead, Begins, Ready, Idles, group, coordinator
  <2>2. m.type = "Point" /\ a.type = "Ack"
    OBVIOUS
  <2>3. Square(wire) /\ pc = [p \in Ranks |-> pc[p]]
        /\ \A p \in Ranks : pc[p] # "idle" => ~failed[p]
    BY DEF BarrierInv, Shape, AgreeInv, AgreeShape
  <2>4. wire[q][r] # <<>> =>
            Square(w) /\ \A p, t \in Ranks : Frames(w, p, t) \subseteq Frames(wire, p, t)
    BY <2>3, TailTakes
  <2> HIDE DEF m, a, w, q
  <2>5. ASSUME NEW p \in Ranks, NEW t \in Ranks, NEW f \in Frames(wire', p, t)
        PROVE  f \in Frames(wire, p, t) \/ f.type \in {"Point", "Ack"}
    <3>1. CASE wire' = wire
      BY <2>5, <3>1
    <3>2. CASE wire' = Put(wire, r, c.peer, m)
      BY <2>2, <2>3, <2>5, <3>2, PutAdds
    <3>3. CASE wire[q][r] # <<>> /\ wire' = w
      BY <2>4, <2>5, <3>3
    <3>4. CASE wire[q][r] # <<>> /\ wire' = Put(w, r, q, a)
      BY <2>2, <2>4, <2>5, <3>4, PutAdds
    <3> QED
      BY <2>1, <3>1, <3>2, <3>3, <3>4
  <2>6. \A p \in Ranks : pc'[p] # "idle" => ~failed'[p]
    BY <2>1, <2>3
  <2>7. pc'[0] \in {"gather", "reply"} =>
            pc'[0] = pc[0] /\ requests' = requests /\ responses' = responses
    BY <2>1, <2>3, ZeroRank
  <2> QED
    BY <1>1, <2>1, <2>5, <2>6, <2>7, OthersKeepAgree
<1> QED
  BY <1>2, <1>3

\* What a rank asks next leaves every earlier request where it was.
LEMMA AskingKeepsGenuine ==
    ASSUME NEW made, NEW more,
           \A p \in Ranks : Len(made[p]) \in Nat /\ Len(more[p]) \in Nat /\ Len(made[p]) <= Len(more[p]),
           \A p \in Ranks : \A i \in 1 .. Len(made[p]) : more[p][i] = made[p][i]
    PROVE  /\ \A b : \A r \in Ranks : Genuine(b, r, made) => Genuine(b, r, more)
           /\ \A m : \A r \in Ranks :
                  m.sequence \in 0 .. Len(made[r]) - 1 /\ Asked(m, r, made) => Asked(m, r, more)
<1>1. ASSUME NEW b, NEW r \in Ranks, Genuine(b, r, made), ~b.error
      PROVE  /\ \A q \in Ranks : b.sequence \in 0 .. Len(more[q]) - 1
             /\ Accepted(At(more, b.sequence)) /\ b = Evaluate(At(more, b.sequence))[r]
  <2>1. \A q \in Ranks : b.sequence \in 0 .. Len(made[q]) - 1
    BY <1>1 DEF Genuine
  <2>2. ASSUME NEW q \in Ranks
        PROVE  b.sequence \in 0 .. Len(more[q]) - 1 /\ more[q][b.sequence + 1] = made[q][b.sequence + 1]
    <3>1. /\ Len(made[q]) \in Nat /\ Len(more[q]) \in Nat /\ Len(made[q]) <= Len(more[q])
          /\ \A i \in 1 .. Len(made[q]) : more[q][i] = made[q][i]
          /\ b.sequence \in 0 .. Len(made[q]) - 1
      BY <2>1
    <3>2. b.sequence \in 0 .. Len(more[q]) - 1 /\ b.sequence + 1 \in 1 .. Len(made[q])
      BY ONLY <3>1
    <3> QED
      BY ONLY <3>1, <3>2
  <2>3. At(more, b.sequence) = At(made, b.sequence)
    BY <2>2 DEF At
  <2> QED
    BY <1>1, <2>2, <2>3 DEF Genuine
<1>2. ASSUME NEW m, NEW r \in Ranks, m.sequence \in 0 .. Len(made[r]) - 1, Asked(m, r, made)
      PROVE  Asked(m, r, more)
  BY <1>2 DEF Asked
<1> QED
  BY <1>1, <1>2 DEF Genuine

\* A rank asks: its request is the last it has made.
LEMMA CallKeepsAgree ==
    ASSUME BarrierInv, AgreeInv, NEW r \in Ranks, NEW c, CallCollective(r, c)
    PROVE  AgreeInv'
<1> DEFINE m == RequestOf(r, c)
           f == [type |-> "Request", body |-> m]
<1>1. /\ Shape /\ Entered /\ RequestsMade /\ ResponsesSound
      /\ AgreeShape /\ Numbered(asked) /\ RequestsKept /\ ResponsesGenuine
  BY DEF BarrierInv, AgreeInv
<1>2. /\ pc[r] = "idle" /\ ~failed[r] /\ m.sequence = sequence[r]
      /\ asked' = [asked EXCEPT ![r] = Append(@, m)]
      /\ failed' = failed /\ sequence' = sequence /\ done' = done
  BY DEF CallCollective, Begins, Ready, RequestOf, group
<1>3. \/ /\ r = 0 /\ pc' = [pc EXCEPT ![r] = "gather"]
         /\ requests' = <<m>> /\ wire' = wire
      \/ /\ r # 0 /\ pc' = [pc EXCEPT ![r] = "response"] /\ wire' = Put(wire, r, 0, f)
         /\ requests' = requests /\ responses' = responses
  BY DEF CallCollective, coordinator
<1>4. Square(wire) /\ pc = [p \in Ranks |-> pc[p]] /\ asked = [p \in Ranks |-> asked[p]]
      /\ \A p \in Ranks : IsSeq(asked[p])
  BY <1>1 DEF Shape
<1>5. f.type = "Request" /\ f.body = m
  OBVIOUS
<1> HIDE DEF m, f
<1>6. \A p, t \in Ranks : Frames(wire', p, t) \subseteq
          Frames(wire, p, t) \cup IF r # 0 /\ p = r /\ t = 0 THEN {f} ELSE {}
  BY <1>3, <1>4, PutAdds
<1>7. Len(asked[r]) = sequence[r] /\ sequence[r] \in Nat
  BY <1>1, <1>2 DEF Entered, InCollective, Shape
<1>8. /\ \A p \in Ranks : Len(asked[p]) \in Nat
      /\ \A p \in Ranks \ {r} : asked'[p] = asked[p]
      /\ Len(asked'[r]) = Len(asked[r]) + 1
      /\ \A i \in 1 .. Len(asked[r]) : asked'[r][i] = asked[r][i]
      /\ asked'[r][Len(asked[r]) + 1] = m
  BY <1>2, <1>4, SeqAppend
<1>9. /\ \A b : \A p \in Ranks : Genuine(b, p, asked) => Genuine(b, p, asked')
      /\ \A n : \A p \in Ranks :
             n.sequence \in 0 .. Len(asked[p]) - 1 /\ Asked(n, p, asked) => Asked(n, p, asked')
  <2> DEFINE more == asked'
  <2>1. /\ \A p \in Ranks : Len(more[p]) \in Nat /\ Len(asked[p]) <= Len(more[p])
        /\ \A p \in Ranks : \A i \in 1 .. Len(asked[p]) : more[p][i] = asked[p][i]
    <3>1. ASSUME NEW p \in Ranks
          PROVE  /\ Len(more[p]) \in Nat /\ Len(asked[p]) <= Len(more[p])
                 /\ \A i \in 1 .. Len(asked[p]) : more[p][i] = asked[p][i]
      <4>1. CASE p = r
        BY ONLY <1>8, <4>1, r \in Ranks
      <4>2. CASE p # r
        BY ONLY <1>8, <4>2, p \in Ranks
      <4> QED
        BY ONLY <4>1, <4>2
    <3> QED
      BY ONLY <3>1
  <2> HIDE DEF more
  <2>2. /\ \A b : \A p \in Ranks : Genuine(b, p, asked) => Genuine(b, p, more)
        /\ \A n : \A p \in Ranks :
               n.sequence \in 0 .. Len(asked[p]) - 1 /\ Asked(n, p, asked) => Asked(n, p, more)
    BY <1>8, <2>1, AskingKeepsGenuine
  <2> QED
    BY <2>2 DEF more
<1>10. Asked(m, r, asked')
  BY <1>2, <1>7, <1>8 DEF Asked
<1>11. AgreeShape'
  <2>1. \A p \in Ranks : pc'[p] # "idle" => ~failed'[p]
    BY <1>1, <1>2, <1>3, <1>4 DEF AgreeShape
  <2> QED
    BY <1>1, <1>2, <2>1 DEF AgreeShape
<1>12. Numbered(asked)'
  BY <1>1, <1>2, <1>7, <1>8 DEF Numbered
<1>13. RequestsKept'
  <2>1. ASSUME NEW p \in Ranks, NEW g \in Frames(wire', p, 0), g.type = "Request"
        PROVE  Asked(g.body, p, asked')
    <3>1. CASE g \in Frames(wire, p, 0)
      <4>1. g.body.sequence \in 0 .. Len(asked[p]) - 1 /\ Asked(g.body, p, asked)
        BY <1>1, <2>1, <3>1 DEF RequestsMade, RequestsKept
      <4> QED
        BY <1>9, <4>1
    <3>2. CASE g \notin Frames(wire, p, 0)
      BY <1>5, <1>6, <1>10, <2>1, <3>2, ZeroRank
    <3> QED
      BY <3>1, <3>2
  <2>2. ASSUME pc'[0] = "gather", NEW i \in 1 .. Len(requests'), i \in 1 .. World
        PROVE  Asked(requests'[i], i - 1, asked')
    <3>1. CASE r = 0
      <4>1. Len(requests') = 1 /\ requests'[1] = m
        BY <1>3, <3>1, SeqOne
      <4>2. i = 1 /\ i - 1 = r
        BY <2>2, <3>1, <4>1
      <4> QED
        BY <1>10, <4>1, <4>2
    <3>2. CASE r # 0
      <4>1. requests' = requests /\ pc[0] = "gather"
        BY <1>3, <1>4, <2>2, <3>2, ZeroRank
      <4>2. requests[i].sequence \in 0 .. Len(asked[i - 1]) - 1 /\ Asked(requests[i], i - 1, asked)
        BY <1>1, <2>2, <4>1 DEF RequestsMade, RequestsKept
      <4>3. PICK p \in Ranks : p = i - 1
        BY <2>2
      <4> QED
        BY <1>9, <4>1, <4>2, <4>3
    <3> QED
      BY <3>1, <3>2
  <2> QED
    BY <2>1, <2>2 DEF RequestsKept
<1>14. ResponsesGenuine'
  <2>1. ASSUME NEW p \in Ranks, NEW g \in Frames(wire', 0, p), g.type = "Response"
        PROVE  Genuine(g.body, p, asked')
    BY <1>1, <1>5, <1>6, <1>9, <2>1, ZeroRank DEF ResponsesGenuine
  <2>2. pc'[0] = "reply" => pc[0] = "reply" /\ responses' = responses
    BY <1>3, <1>4, ZeroRank
  <2> QED
    BY <1>1, <1>9, <2>1, <2>2 DEF ResponsesGenuine
<1> QED
  BY <1>11, <1>12, <1>13, <1>14 DEF AgreeInv

\* Rank 0 reads a request that its peer made.
LEMMA GatherKeepsAgree ==
    ASSUME BarrierInv, AgreeInv, GatherRead
    PROVE  AgreeInv'
<1> DEFINE f == Head(wire[peer][0])
<1>1. /\ Shape /\ RequestsMade
      /\ AgreeShape /\ Numbered(asked) /\ RequestsKept /\ ResponsesGenuine
  BY DEF BarrierInv, AgreeInv
<1>2. /\ asked' = asked /\ done' = done /\ pc[0] = "gather" /\ wire[peer][0] # <<>>
      /\ peer \in Ranks /\ Square(wire) /\ IsSeq(requests)
  BY <1>1 DEF GatherRead, history, Shape
<1>3. CASE f.type = "Request"
  <2>1. /\ requests' = Append(requests, f.body)
        /\ wire' = [wire EXCEPT ![peer][0] = Tail(@)]
        /\ UNCHANGED <<sequence, failed, pc, responses>>
    BY <1>3 DEF GatherRead, group
  <2>2. /\ f \in Frames(wire, peer, 0)
        /\ \A p, t \in Ranks : Frames(wire', p, t) \subseteq Frames(wire, p, t)
    BY <1>2, <2>1, TailTakes, ZeroRank
  <2>3. /\ Len(requests) \in Nat /\ Len(requests') = Len(requests) + 1
        /\ \A i \in 1 .. Len(requests) : requests'[i] = requests[i]
        /\ requests'[Len(requests) + 1] = f.body
    BY <1>2, <2>1, SeqAppend
  <2> HIDE DEF f
  <2>4. Asked(f.body, peer, asked) /\ Len(requests) = peer
    BY <1>1, <1>2, <1>3, <2>2 DEF RequestsKept, RequestsMade
  <2>5. ASSUME NEW i \in 1 .. Len(requests'), i \in 1 .. World
        PROVE  Asked(requests'[i], i - 1, asked)
    <3>1. CASE i = Len(requests) + 1
      <4>1. i - 1 = peer
        BY <2>3, <2>4, <3>1
      <4> QED
        BY <2>3, <2>4, <3>1, <4>1
    <3>2. CASE i # Len(requests) + 1
      <4>1. i \in 1 .. Len(requests)
        BY <2>3, <3>2
      <4>2. Asked(requests[i], i - 1, asked)
        BY <1>1, <1>2, <2>5, <4>1 DEF RequestsKept
      <4> QED
        BY <2>3, <4>1, <4>2
    <3> QED
      BY <3>1, <3>2
  <2>6. AgreeShape' /\ Numbered(asked)'
    BY <1>1, <1>2, <2>1 DEF AgreeShape, Numbered
  <2>7. RequestsKept'
    BY <1>1, <1>2, <2>2, <2>5, ZeroRank DEF RequestsKept
  <2>8. ResponsesGenuine'
    BY <1>1, <1>2, <2>1, <2>2, ZeroRank DEF ResponsesGenuine
  <2> QED
    BY <2>6, <2>7, <2>8 DEF AgreeInv
<1>4. CASE f.type # "Request"
  BY <1>2, <1>4, FailKeepsAgree, ZeroRank DEF GatherRead
<1> QED
  BY <1>3, <1>4

\* Rank 0 evaluates one request of every rank.
LEMMA AnswerKeepsAgree ==
    ASSUME BarrierInv, AgreeInv, Answer
    PROVE  AgreeInv'
<1> DEFINE reqs == [r \in Ranks |-> requests[r + 1]]
<1>1. /\ Shape /\ RequestsMade
      /\ AgreeShape /\ Numbered(asked) /\ RequestsKept /\ ResponsesGenuine
  BY DEF BarrierInv, AgreeInv
<1>2. /\ pc[0] = "gather" /\ Len(requests) = World /\ responses' = Evaluate(reqs)
      /\ pc' = [pc EXCEPT ![0] = "reply"]
      /\ UNCHANGED <<sequence, failed, wire, requests, asked, done>>
  BY DEF Answer, Gathered, group, history
<1>3. ASSUME NEW q \in Ranks
      PROVE  reqs[q].sequence \in 0 .. Len(asked[q]) - 1 /\ Asked(reqs[q], q, asked)
  <2>1. q + 1 \in 1 .. Len(requests) /\ q + 1 \in 1 .. World /\ (q + 1) - 1 = q
    BY <1>2
  <2>2. requests[q + 1].sequence \in 0 .. Len(asked[(q + 1) - 1]) - 1
    BY <1>1, <1>2, <2>1 DEF RequestsMade
  <2>3. Asked(requests[q + 1], (q + 1) - 1, asked)
    BY <1>1, <1>2, <2>1 DEF RequestsKept
  <2> QED
    BY <2>1, <2>2, <2>3
<1>4. reqs = [q \in Ranks |-> reqs[q]]
  OBVIOUS
<1> HIDE DEF reqs
<1>5. \A r \in Ranks : Genuine(responses'[r], r, asked)
  BY <1>2, <1>3, <1>4, EvaluateGenuine
<1>6. pc = [p \in Ranks |-> pc[p]]
  BY <1>1 DEF Shape
<1>7. pc'[0] = "reply" /\ \A p \in Ranks : pc'[p] # "idle" => pc[p] # "idle"
  BY <1>2, <1>6, ZeroRank
<1>8. AgreeShape' /\ Numbered(asked)'
  BY <1>1, <1>2, <1>7 DEF AgreeShape, Numbered
<1>9. RequestsKept'
  BY <1>1, <1>2, <1>7 DEF RequestsKept
<1>10. ResponsesGenuine'
  BY <1>1, <1>2, <1>5 DEF ResponsesGenuine
<1> QED
  BY <1>8, <1>9, <1>10 DEF AgreeInv

\* Rank 0 writes its peer's part of the outcome.
LEMMA ReplyKeepsAgree ==
    ASSUME BarrierInv, AgreeInv, Reply
    PROVE  AgreeInv'
<1> DEFINE f == [type |-> "Response", body |-> responses[peer]]
<1>1. Shape /\ AgreeShape /\ Numbered(asked) /\ RequestsKept /\ ResponsesGenuine
  BY DEF BarrierInv, AgreeInv
<1>2. /\ asked' = asked /\ done' = done /\ pc[0] = "reply" /\ peer \in Ranks /\ Square(wire)
      /\ f.type = "Response" /\ f.body = responses[peer]
  BY <1>1 DEF Reply, history, Shape
<1> HIDE DEF f
<1>3. CASE /\ wire' = Put(wire, 0, peer, f) /\ peer' = peer + 1
           /\ UNCHANGED <<group, pc, call, requests, responses>>
  <2>1. \A p, t \in Ranks : Frames(wire', p, t) \subseteq
            Frames(wire, p, t) \cup IF p = 0 /\ t = peer THEN {f} ELSE {}
    BY <1>2, <1>3, PutAdds, ZeroRank
  <2>2. UNCHANGED <<sequence, failed, pc, requests, responses>>
    BY <1>3 DEF group
  <2>3. AgreeShape' /\ Numbered(asked)'
    BY <1>1, <1>2, <2>2 DEF AgreeShape, Numbered
  <2>4. Genuine(f.body, peer, asked)
    BY <1>1, <1>2 DEF ResponsesGenuine
  <2>5. RequestsKept'
    BY <1>1, <1>2, <2>1, <2>2, ZeroRank DEF RequestsKept
  <2>6. ResponsesGenuine'
    BY <1>1, <1>2, <2>1, <2>2, <2>4, ZeroRank DEF ResponsesGenuine
  <2> QED
    BY <2>3, <2>5, <2>6 DEF AgreeInv
<1>4. CASE Fail(0)
  BY <1>2, <1>4, FailKeepsAgree, ZeroRank
<1> QED
  BY <1>3, <1>4 DEF Reply, f

\* A rank takes its part of the outcome, or fails.
LEMMA ConcludeKeepsAgree ==
    ASSUME BarrierInv, AgreeInv, NEW r \in Ranks, NEW resp,
           NEW w, Square(w),
           \A p, t \in Ranks : Frames(w, p, t) \subseteq Frames(wire, p, t),
           Conclude(r, resp, w), UNCHANGED asked
    PROVE  AgreeInv'
<1>1. Shape /\ AgreeShape /\ Numbered(asked) /\ RequestsKept /\ ResponsesGenuine
  BY DEF BarrierInv, AgreeInv
<1>2. CASE Refused(r, resp)
  BY <1>2, FailKeepsAgree DEF Conclude
<1>3. CASE ~Refused(r, resp)
  <2>1. /\ sequence' = [sequence EXCEPT ![r] = @ + 1] /\ asked' = asked
        /\ done' = [done EXCEPT ![r] = Append(@, resp)]
        /\ failed' = [failed EXCEPT ![r] = Differs(r, resp)]
        /\ wire' = IF Differs(r, resp) THEN [q \in Ranks |-> [w[q] EXCEPT ![r] = <<>>]] ELSE w
        /\ pc' = [pc EXCEPT ![r] = "idle"]
        /\ r # 0 => UNCHANGED <<requests, responses>>
    BY <1>3 DEF Conclude, Idles, coordinator
  <2>2. /\ sequence \in [Ranks -> Nat] /\ failed \in [Ranks -> BOOLEAN]
        /\ pc = [p \in Ranks |-> pc[p]] /\ done = [p \in Ranks |-> done[p]]
    BY <1>1 DEF Shape, AgreeShape
  <2>3. \A p \in Ranks : IsSeq(done[p]) /\ Len(done[p]) = sequence[p] /\ sequence[p] >= 1
                         /\ (pc[p] # "idle" => ~failed[p])
    BY <1>1 DEF AgreeShape
  <2>4. \A p, t \in Ranks : Frames(wire', p, t) \subseteq Frames(wire, p, t)
    <3>1. \A p, t \in Ranks : Frames(Dropped(w, r), p, t) \subseteq Frames(w, p, t)
      BY FailDrops
    <3>2. wire' = Dropped(w, r) \/ wire' = w
      BY <2>1 DEF Dropped
    <3> QED
      BY <3>1, <3>2
  <2>5. /\ sequence'[r] = sequence[r] + 1 /\ pc'[r] = "idle" /\ done'[r] = Append(done[r], resp)
        /\ \A p \in Ranks \ {r} :
               sequence'[p] = sequence[p] /\ failed'[p] = failed[p] /\ pc'[p] = pc[p] /\ done'[p] = done[p]
    BY <2>1, <2>2
  <2>6. done' = [p \in Ranks |-> done'[p]]
    BY <2>1, <2>2
  <2>7. ASSUME NEW p \in Ranks
        PROVE  IsSeq(done'[p]) /\ Len(done'[p]) = sequence'[p] /\ sequence'[p] >= 1
               /\ (pc'[p] # "idle" => ~failed'[p])
    <3>1. CASE p = r
      <4>1. IsSeq(done'[r]) /\ Len(done'[r]) = Len(done[r]) + 1
        BY <2>3, <2>5, SeqAppend
      <4>2. sequence[r] \in Nat /\ Len(done[r]) = sequence[r]
        BY <2>2, <2>3
      <4>3. Len(done'[r]) = sequence'[r] /\ sequence'[r] >= 1
        BY ONLY <2>5, <4>1, <4>2
      <4>4. pc'[r] # "idle" => ~failed'[r]
        BY ONLY <2>5
      <4> QED
        BY ONLY <3>1, <4>1, <4>3, <4>4
    <3>2. CASE p # r
      BY <2>3, <2>5, <3>2
    <3> QED
      BY <3>1, <3>2
  <2>8. AgreeShape'
    BY <2>6, <2>7 DEF AgreeShape
  <2>9. Numbered(asked)'
    BY <1>1, <2>1 DEF Numbered
  <2>10. pc'[0] # "idle" => r # 0 /\ pc'[0] = pc[0]
    BY <2>5, ZeroRank
  <2>11. RequestsKept'
    BY <1>1, <2>1, <2>4, <2>10, ZeroRank DEF RequestsKept
  <2>12. ResponsesGenuine'
    BY <1>1, <2>1, <2>4, <2>10, ZeroRank DEF ResponsesGenuine
  <2> QED
    BY <2>8, <2>9, <2>11, <2>12 DEF AgreeInv
<1> QED
  BY <1>2, <1>3

\* Every step keeps what is known of requests and responses.
LEMMA AgreeNext == BarrierInv /\ AgreeInv /\ [Next]_vars => AgreeInv'
<1> SUFFICES ASSUME BarrierInv, AgreeInv, [Next]_vars
             PROVE  AgreeInv'
  OBVIOUS
<1>1. CASE UNCHANGED vars
  <2>1. UNCHANGED <<sequence, failed, pc, asked, done, wire, requests, responses>>
    BY <1>1 DEF vars, group, coordinator, history
  <2>2. \A p \in Ranks : pc[p] # "idle" => ~failed[p]
    BY DEF AgreeInv, AgreeShape
  <2> QED
    BY <2>1, <2>2, OthersKeepAgree DEF Frames
<1>2. ASSUME NEW r \in Ranks, Progress(r)
      PROVE  AgreeInv'
  <2>1. CASE Disconnected(r)
    BY <2>1, FailKeepsAgree DEF Disconnected, history
  <2>2. CASE Replied
    <3>1. Conclude(0, responses[0], wire) /\ Square(wire) /\ asked' = asked
      BY <2>2 DEF Replied, BarrierInv, Shape
    <3> QED
      BY <3>1, ConcludeKeepsAgree, ZeroRank
  <2>3. CASE ResponseRead(r)
    <3> DEFINE w == [wire EXCEPT ![0][r] = Tail(@)]
    <3>1. /\ wire[0][r] # <<>> /\ asked' = asked /\ Square(wire)
          /\ \/ Conclude(r, Head(wire[0][r]).body, w)
             \/ Fail(r) /\ done' = done
      BY <2>3 DEF ResponseRead, BarrierInv, Shape
    <3>2. Square(w) /\ \A p, t \in Ranks : Frames(w, p, t) \subseteq Frames(wire, p, t)
      BY <3>1, TailTakes, ZeroRank
    <3> HIDE DEF w
    <3> QED
      BY <3>1, <3>2, ConcludeKeepsAgree, FailKeepsAgree
  <2> QED
    BY <1>2, <2>1, <2>2, <2>3, GatherKeepsAgree, AnswerKeepsAgree, ReplyKeepsAgree,
       PointsKeepAgree DEF Progress
<1>3. ASSUME NEW r \in Ranks, TimesOut(r) \/ Abort(r)
      PROVE  AgreeInv'
  BY <1>3, FailKeepsAgree DEF TimesOut, Abort, history
<1>4. ASSUME NEW r \in Ranks, NEW c, CallCollective(r, c) \/ CallSend(r, c) \/ CallRecv(r, c)
      PROVE  AgreeInv'
  BY <1>4, CallKeepsAgree, PointsKeepAgree
<1> QED
  BY <1>1, <1>2, <1>3, <1>4 DEF Next

-----------------------------------------------------------------------------
\* The step simulation.  The abstract sequences leave the rendezvous out.

\* Appending behind the first element.
LEMMA TailAppend ==
    ASSUME NEW s, IsSeq(s), Len(s) >= 1, NEW x
    PROVE  /\ Tail(Append(s, x)) = Append(Tail(s), x)
           /\ Len(Tail(s)) = Len(s) - 1 /\ Len(Append(Tail(s), x)) = Len(s)
           /\ Append(Tail(s), x)[Len(s)] = x
           /\ \A i \in 1 .. Len(s) - 1 : Tail(s)[i] = s[i + 1]
<1>1. PICK S : s \in Seq(S)
  BY DEF IsSeq
<1> DEFINE T == S \cup {x}
<1>2. s \in Seq(T) /\ x \in T /\ Len(s) \in Nat
  BY <1>1
<1> HIDE DEF T
<1>3. Tail(s) \in Seq(T) /\ Len(Tail(s)) = Len(s) - 1
      /\ \A i \in 1 .. Len(s) - 1 : Tail(s)[i] = s[i + 1]
  BY <1>2
<1>4. /\ Append(Tail(s), x) \in Seq(T) /\ Len(Append(Tail(s), x)) = Len(s)
      /\ Append(Tail(s), x)[Len(s)] = x
      /\ \A i \in 1 .. Len(s) - 1 : Append(Tail(s), x)[i] = s[i + 1]
  BY <1>2, <1>3
<1>5. /\ Append(s, x) \in Seq(T) /\ Len(Append(s, x)) = Len(s) + 1 /\ Append(s, x)[Len(s) + 1] = x
      /\ \A i \in 1 .. Len(s) : Append(s, x)[i] = s[i]
  BY <1>2
<1>6. /\ Tail(Append(s, x)) \in Seq(T) /\ Len(Tail(Append(s, x))) = Len(s)
      /\ \A i \in 1 .. Len(s) : Tail(Append(s, x))[i] = Append(s, x)[i + 1]
  BY <1>2, <1>5
<1> DEFINE left == Tail(Append(s, x))
           right == Append(Tail(s), x)
<1>7. ASSUME NEW i \in 1 .. Len(s)
      PROVE  left[i] = right[i]
  <2>1. CASE i = Len(s)
    BY <1>4, <1>5, <1>6, <2>1
  <2>2. CASE i # Len(s)
    <3>1. i \in 1 .. Len(s) - 1 /\ i + 1 \in 1 .. Len(s)
      BY ONLY <1>2, <2>2
    <3> QED
      BY <1>4, <1>5, <1>6, <3>1
  <2> QED
    BY <2>1, <2>2
<1>8. left = right
  <2>1. left \in Seq(T) /\ right \in Seq(T) /\ Len(left) = Len(s) /\ Len(right) = Len(s)
    BY <1>4, <1>6
  <2> HIDE DEF left, right
  <2>2. left = [i \in 1 .. Len(s) |-> left[i]] /\ right = [i \in 1 .. Len(s) |-> right[i]]
    BY ONLY <2>1
  <2> QED
    BY ONLY <1>7, <2>2
<1> QED
  BY <1>3, <1>4, <1>8

\* The group after the rendezvous has asked and done nothing yet.
LEMMA InitAgrees == Init => Promise!Init
<1> SUFFICES ASSUME Init
             PROVE  Promise!Init
  OBVIOUS
<1>1. \A x : Tail(<<x>>) = <<>>
  OBVIOUS
<1> QED
  BY <1>1 DEF Init, Promise!Init

\* Entering a collective is asking.
LEMMA CallEnters ==
    ASSUME BarrierInv, AgreeInv, NEW r \in Ranks, NEW c, CallCollective(r, c)
    PROVE  Promise!Next
<1> DEFINE m == RequestOf(r, c)
           out == [p \in Ranks |-> Tail(asked[p])]
           out2 == [p \in Ranks |-> Tail(asked'[p])]
<1>1. /\ pc[r] = "idle" /\ ~failed[r]
      /\ asked' = [asked EXCEPT ![r] = Append(@, m)]
      /\ failed' = failed /\ done' = done
  BY DEF CallCollective, Begins, Ready, group
<1>2. /\ asked = [p \in Ranks |-> asked[p]] /\ IsSeq(asked[r]) /\ IsSeq(done[r])
      /\ Len(asked[r]) = sequence[r] /\ Len(done[r]) = sequence[r]
      /\ sequence[r] \in Nat /\ sequence[r] >= 1
  BY <1>1 DEF BarrierInv, Shape, Entered, InCollective, AgreeInv, AgreeShape
<1> HIDE DEF m
<1>3. asked'[r] = Append(asked[r], m) /\ \A p \in Ranks \ {r} : asked'[p] = asked[p]
  BY <1>1, <1>2
<1>4. /\ Tail(asked'[r]) = Append(Tail(asked[r]), m)
      /\ Len(Tail(asked[r])) = sequence[r] - 1
      /\ Len(Append(Tail(asked[r]), m)) = sequence[r]
      /\ Append(Tail(asked[r]), m)[sequence[r]] = m
  <2>1. Len(asked[r]) >= 1
    BY <1>2
  <2>2. /\ Tail(Append(asked[r], m)) = Append(Tail(asked[r]), m)
        /\ Len(Tail(asked[r])) = Len(asked[r]) - 1
        /\ Len(Append(Tail(asked[r]), m)) = Len(asked[r])
        /\ Append(Tail(asked[r]), m)[Len(asked[r])] = m
    BY <1>2, <2>1, TailAppend
  <2> QED
    BY <1>2, <1>3, <2>2
<1>5. Len(Tail(done[r])) = sequence[r] - 1
  BY <1>2, TailAppend
<1>6. out2 = [out EXCEPT ![r] = Append(@, m)]
  BY <1>3, <1>4
<1>7. out2[r] # <<>> /\ out2[r][Len(out2[r])] = m
  <2>1. out2[r] = Append(Tail(asked[r]), m)
    BY ONLY <1>4, r \in Ranks
  <2>2. Len(out2[r]) # 0
    BY ONLY <1>2, <1>4, <2>1
  <2> QED
    BY ONLY <1>4, <2>1, <2>2, SeqEmpty
<1>8. Promise!Enter(r, m)
  <2>1. ~Promise!Waits(r)
    BY <1>2, <1>4, <1>5 DEF Promise!Waits
  <2> QED
    BY <1>1, <1>6, <2>1 DEF Promise!Enter
<1>9. out2[r] # <<>> /\ Promise!Enter(r, out2[r][Len(out2[r])])
  BY <1>7, <1>8 DEF Promise!Enter
<1> QED
  BY <1>9 DEF Promise!Next, Promise!Enter

\* Failing is stopping.
LEMMA FailStops ==
    ASSUME NEW r \in Ranks, Fail(r), UNCHANGED <<asked, done>>
    PROVE  Promise!Next
<1>1. Promise!Stop(r)
  BY DEF Fail, Promise!Stop
<1> QED
  BY <1>1 DEF Promise!Next

\* Taking a genuine response is receiving the outcome.
LEMMA ConcludeReceives ==
    ASSUME BarrierInv, AgreeInv, NEW r \in Ranks, pc[r] # "idle",
           NEW resp, Genuine(resp, r, asked), NEW w,
           Conclude(r, resp, w), UNCHANGED asked
    PROVE  Promise!Next
<1>1. CASE Refused(r, resp)
  BY <1>1, FailStops DEF Conclude
<1>2. CASE ~Refused(r, resp)
  <2> DEFINE n == sequence[r]
             got1 == [p \in Ranks |-> Tail(done[p])]
  <2>1. /\ resp.sequence = n /\ ~resp.error
        /\ done' = [done EXCEPT ![r] = Append(@, resp)]
        /\ failed' = [failed EXCEPT ![r] = Differs(r, resp)]
        /\ asked' = asked
    BY <1>2 DEF Conclude, Refused
  <2>2. /\ done = [p \in Ranks |-> done[p]] /\ IsSeq(done[r]) /\ Len(done[r]) = n
        /\ n \in Nat /\ n >= 1 /\ ~failed[r] /\ failed \in [Ranks -> BOOLEAN]
        /\ \A q \in Ranks : IsSeq(asked[q])
    BY DEF BarrierInv, Shape, AgreeInv, AgreeShape
  <2>3. /\ \A q \in Ranks : n \in 0 .. Len(asked[q]) - 1
        /\ Accepted(At(asked, n)) /\ resp = Evaluate(At(asked, n))[r]
    BY <2>1 DEF Genuine
  <2>4. \A q \in Ranks : Len(asked[q]) \in Nat
    BY <2>2, SeqAppend
  <2> HIDE DEF n
  <2>5. \A q \in Ranks : Len(Tail(asked[q])) = Len(asked[q]) - 1 /\ Tail(asked[q])[n] = asked[q][n + 1]
    <3> SUFFICES ASSUME NEW q \in Ranks
                 PROVE  Len(Tail(asked[q])) = Len(asked[q]) - 1 /\ Tail(asked[q])[n] = asked[q][n + 1]
      OBVIOUS
    <3>1. Len(asked[q]) >= 1 /\ n \in 1 .. Len(asked[q]) - 1
      BY <2>2, <2>3, <2>4
    <3> QED
      BY <2>2, <3>1, TailAppend
  <2>6. Len(Tail(done[r])) = n - 1 /\ Tail(done'[r]) = Append(Tail(done[r]), resp)
    BY <2>1, <2>2, TailAppend
  <2>7. [p \in Ranks |-> Tail(done'[p])] = [got1 EXCEPT ![r] = Append(@, resp)]
    BY <2>1, <2>2, <2>6
  <2>8. Promise!Requests(n) = At(asked, n)
    BY <2>5 DEF Promise!Requests, At
  <2>9. Promise!Waits(r) /\ Promise!Made(n)
    BY <2>2, <2>3, <2>4, <2>5, <2>6 DEF Promise!Waits, Promise!Made
  <2>10. Len(got1[r]) + 1 = n
    BY <2>2, <2>6
  <2>11. failed' \in {failed, [failed EXCEPT ![r] = TRUE]}
    <3>1. Differs(r, resp) \in BOOLEAN
      BY DEF Differs
    <3>2. CASE Differs(r, resp) = TRUE
      BY <2>1, <3>2
    <3>3. CASE Differs(r, resp) = FALSE
      <4>1. failed[r] = FALSE
        BY <2>2
      <4>2. failed' = failed
        BY <2>1, <2>2, <3>3, <4>1
      <4> QED
        BY <4>2
    <3> QED
      BY <3>1, <3>2, <3>3
  <2>12. Promise!Receive(r)
    BY <2>1, <2>2, <2>3, <2>7, <2>8, <2>9, <2>10, <2>11 DEF Promise!Receive
  <2> QED
    BY <2>12 DEF Promise!Next
<1> QED
  BY <1>1, <1>2

\* Every step of the group is a step of Agreement, or none.
LEMMA NextAgrees == BarrierInv /\ AgreeInv /\ [Next]_vars => [Promise!Next]_(Promise!vars)
<1> SUFFICES ASSUME BarrierInv, AgreeInv, [Next]_vars
             PROVE  Promise!Next \/ UNCHANGED Promise!vars
  OBVIOUS
<1>1. ASSUME UNCHANGED <<asked, done, failed>>
      PROVE  UNCHANGED Promise!vars
  BY <1>1 DEF Promise!vars
<1>2. CASE UNCHANGED vars
  BY <1>1, <1>2 DEF vars, group, history
<1>3. ASSUME NEW r \in Ranks, Progress(r)
      PROVE  Promise!Next \/ UNCHANGED Promise!vars
  <2>1. CASE GatherRead \/ Answer \/ Reply
    <3>1. UNCHANGED <<asked, done>> /\ (Fail(0) \/ UNCHANGED failed)
      BY <2>1 DEF GatherRead, Answer, Reply, group, history
    <3> QED
      BY <1>1, <3>1, FailStops, ZeroRank
  <2>2. CASE Replied
    <3>1. /\ pc[0] = "reply" /\ Conclude(0, responses[0], wire) /\ asked' = asked
          /\ Genuine(responses[0], 0, asked)
      BY <2>2, ZeroRank DEF Replied, AgreeInv, ResponsesGenuine
    <3> QED
      BY <3>1, ConcludeReceives, ZeroRank
  <2>3. CASE ResponseRead(r)
    <3> DEFINE f == Head(wire[0][r])
    <3>1. /\ pc[r] = "response" /\ wire[0][r] # <<>> /\ asked' = asked /\ Square(wire)
          /\ \/ Conclude(r, f.body, [wire EXCEPT ![0][r] = Tail(@)]) /\ f.type = "Response"
             \/ Fail(r) /\ done' = done
      BY <2>3 DEF ResponseRead, BarrierInv, Shape
    <3>2. f \in Frames(wire, 0, r)
      BY <3>1, TailTakes, ZeroRank
    <3> HIDE DEF f
    <3>3. f.type = "Response" => Genuine(f.body, r, asked)
      BY <3>2 DEF AgreeInv, ResponsesGenuine
    <3> QED
      BY <3>1, <3>3, ConcludeReceives, FailStops
  <2>4. CASE AckRead(r) \/ PointRead(r) \/ Disconnected(r)
    <3>1. UNCHANGED <<asked, done>> /\ (Fail(r) \/ UNCHANGED failed)
      BY <2>4 DEF AckRead, PointRead, Disconnected, history
    <3> QED
      BY <1>1, <3>1, FailStops
  <2> QED
    BY <1>3, <2>1, <2>2, <2>3, <2>4 DEF Progress
<1>4. ASSUME NEW r \in Ranks, TimesOut(r) \/ Abort(r)
      PROVE  Promise!Next \/ UNCHANGED Promise!vars
  BY <1>4, FailStops DEF TimesOut, Abort, history
<1>5. ASSUME NEW r \in Ranks, NEW c, CallSend(r, c) \/ CallRecv(r, c)
      PROVE  Promise!Next \/ UNCHANGED Promise!vars
  <2>1. UNCHANGED <<asked, done>> /\ (Fail(r) \/ UNCHANGED failed)
    BY <1>5 DEF CallSend, CallRecv, group, history
  <2> QED
    BY <1>1, <2>1, FailStops
<1>6. ASSUME NEW r \in Ranks, NEW c, CallCollective(r, c)
      PROVE  Promise!Next
  BY <1>6, CallEnters
<1> QED
  BY <1>2, <1>3, <1>4, <1>5, <1>6 DEF Next

\* The collectives of ProcessGroup implement Agreement: the n-th collective has
\* one outcome, evaluate of the requests the ranks made for it, of which each
\* rank receives its part or has stopped, whatever is delayed, lost or refused.
THEOREM GroupImplementsAgreement == Spec => ImplementsAgreement
<1>1. Init => BarrierInv /\ AgreeInv
  BY BarrierInit, AgreeInit
<1>2. (BarrierInv /\ AgreeInv) /\ [Next]_vars => (BarrierInv /\ AgreeInv)'
  BY BarrierNext, AgreeNext
<1> QED
  BY <1>1, <1>2, InitAgrees, NextAgrees, PTL DEF Spec, ImplementsAgreement, Promise!Spec

============================================================================
