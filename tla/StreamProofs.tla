---------------------------- MODULE StreamProofs ----------------------------
(***************************************************************************)
(* Where the credits of a stream loader's workers are, for any number of   *)
(* workers, credits, records, generations and failures.                    *)
(***************************************************************************)
EXTENDS StreamLoader, FiniteSetTheorems, TLAPS

\* The pool has its threads and is not being stopped
Live == worker # <<>> /\ ~shutdown

WorkerStates == {"start", "idle", "create", "credit", "read", "waiting", "budget", "send",
                 "end", "fail", "failed", "dying", "fatal", "done"}
MessageKinds == {"waiting", "record", "end", "failure", "fatal"}
Message == [worker : Workers, gen : Nat, kind : MessageKinds, read : Nat, holds : BOOLEAN]
Thread  == [pc : WorkerStates, gen : Nat, read : Nat, held : BOOLEAN, last : Int]

\* What the threads and the coordinator share
PoolTypes ==
  /\ worker \in [Workers -> Thread]
  /\ credits \in [Workers -> Nat]
  /\ controls \in [Workers -> Seq(Nat)]
  /\ results \in Seq(Message)
  /\ it.completed \subseteq Workers \X Nat /\ IsFiniteSet(it.completed)
  /\ pool \in [poisoned : BOOLEAN, terminal : SUBSET Workers, fatal : BOOLEAN]

\* A worker with a record in hand, or about to read one, holds its credit;
\* one that has not begun, or gave it back, holds none
Announced == {"waiting", "budget", "send"}
HandInv ==
  /\ \A w \in Workers :
       /\ worker[w].pc \in {"read"} \cup Announced => worker[w].held
       /\ worker[w].pc \in {"start", "idle", "create", "credit", "failed", "fatal"} => ~worker[w].held
  /\ \A k \in DOMAIN results :
       /\ results[k].kind = "record" => results[k].holds
       /\ results[k].kind = "waiting" => ~results[k].holds

\* The records a worker has sent of its shard end here
Sent(w) == IF worker[w].pc \in Announced THEN worker[w].read - 1 ELSE worker[w].read

InFlight == {k \in DOMAIN results : results[k].kind = "record"}
RecordOf(m) == <<m.worker, m.read>>

\* No record is twice under way
ReadsInv ==
  /\ \A w \in Workers : worker[w].pc \in Announced => worker[w].read >= 1
  /\ \A k \in InFlight : results[k].read \in 1 .. Sent(results[k].worker)
  /\ \A r \in it.completed : r[2] \in 1 .. Sent(r[1])
  /\ \A k \in InFlight : RecordOf(results[k]) \notin it.completed
  /\ \A j, k \in InFlight : RecordOf(results[j]) = RecordOf(results[k]) => j = k

\* A generation that was not begun yet has nothing under way
ControlInv ==
  \A w \in Workers :
    /\ Len(controls[w]) <= 1
    /\ controls[w] # <<>> =>
         /\ worker[w].pc \in {"start", "idle", "dying", "fatal"}
         /\ \A k \in InFlight : results[k].worker # w
         /\ \A r \in it.completed : r[1] # w

\* The worker sends nothing more in this generation
Over(w) == worker[w].pc = "fatal" \/ (worker[w].pc = "idle" /\ controls[w] = <<>>)

\* A last completion is the last, in the channel and after it
EndInv ==
  /\ \A k \in DOMAIN results : Terminal(results[k]) =>
       /\ Over(results[k].worker)
       /\ results[k].kind = "fatal" <=> worker[results[k].worker].pc = "fatal"
       /\ \A j \in DOMAIN results : j > k => results[j].worker # results[k].worker
  /\ \A w \in pool.terminal :
       /\ Over(w)
       /\ worker[w].pc = "fatal" => pool.fatal
       /\ \A k \in DOMAIN results : results[k].worker # w

\* Between the generations
AllQuiet == results = <<>> /\ \A w \in Workers : worker[w].pc = "idle" /\ controls[w] = <<>>

\* An iterator is open, is being closed, or has left a quiet pool
PhaseInv ==
  /\ call \in {"loader", "user", "next", "quiesce"}
  /\ {"open", "completed"} \subseteq DOMAIN it /\ it.open \in BOOLEAN
  /\ it.open => call \in {"user", "next"}
  /\ call = "next" => it.open
  /\ ~it.open => it.completed = {} /\ (call = "quiesce" \/ AllQuiet)
  /\ call = "quiesce" => quiet.then \in {"user", "loader"}
  /\ call \in {"user", "next"} \/ (call = "quiesce" /\ quiet.then = "user") =>
       {"exhausted", "fault"} \subseteq DOMAIN it /\ (it.open \/ it.exhausted \/ it.fault)

\* A worker's credits with the completions of a channel, and with some records
Carried(q, w) == {k \in DOMAIN q : q[k].worker = w /\ q[k].holds}
RecordsOf(records, w) == {r \in records : r[1] = w}

InHand(w)    == IF worker[w].held THEN 1 ELSE 0
InChannel(w) == Cardinality(Carried(results, w))
Buffered(w)  == Cardinality(RecordsOf(it.completed, w))

AccountInv ==
  \A w \in Workers : credits[w] + InHand(w) + InChannel(w) + Buffered(w) = config.prefetch

LiveInv ==
  PoolTypes /\ HandInv /\ ReadsInv /\ ControlInv /\ EndInv /\ PhaseInv /\ AccountInv

\* All of it holds of a pool that is not being stopped
CreditInv ==
  /\ config \in Configs /\ Valid(config) /\ nextGen \in Nat
  /\ (shutdown => call = "join" \/ worker = <<>>)
  /\ Live => LiveInv
-----------------------------------------------------------------------------
\* Sizes

\* What the configuration is known to be.
LEMMA ConfigFacts ==
    ASSUME CreditInv
    PROVE  /\ config.workers \in Nat \ {0} /\ config.prefetch \in Nat \ {0}
           /\ config.shards \in [Workers -> Seq([seq : Int, size : Nat])]
           /\ Workers # {}
<1>1. config \in Configs /\ Valid(config)
  BY DEF CreditInv
<1>2. /\ config.workers \in Nat /\ config.prefetch \in Nat
      /\ config.shards \in [0 .. (config.workers - 1) -> Seq([seq : Int, size : Nat])]
  BY <1>1, ConfigsAssumption
<1>3. config.workers \in Nat \ {0} /\ config.prefetch \in Nat \ {0}
  BY <1>1, <1>2 DEF Valid
<1>4. 0 \in Workers
  BY <1>3 DEF Workers
<1> QED BY <1>2, <1>3, <1>4 DEF Workers

\* What follows the head of a channel.
LEMMA TailOf ==
    ASSUME NEW S, NEW q \in Seq(S), q # <<>>
    PROVE  /\ Head(q) \in S /\ Head(q) = q[1] /\ 1 \in DOMAIN q /\ Tail(q) \in Seq(S)
           /\ \A k \in DOMAIN Tail(q) : k \in Nat /\ k + 1 \in DOMAIN q /\ Tail(q)[k] = q[k + 1]
           /\ \A k \in DOMAIN q : k # 1 => k - 1 \in DOMAIN Tail(q) /\ Tail(q)[k - 1] = q[k]
OBVIOUS

\* What a channel holds after one more is sent.
LEMMA AppendOf ==
    ASSUME NEW S, NEW q \in Seq(S), NEW m \in S
    PROVE  /\ Append(q, m) \in Seq(S) /\ Len(q) \in Nat /\ Len(q) + 1 \notin DOMAIN q
           /\ DOMAIN Append(q, m) = DOMAIN q \cup {Len(q) + 1}
           /\ \A k \in DOMAIN q : Append(q, m)[k] = q[k] /\ k \in Nat /\ k < Len(q) + 1
           /\ Append(q, m)[Len(q) + 1] = m
OBVIOUS

\* How many credits of a worker a channel carries when one is sent or received.
LEMMA ChannelCounts ==
    ASSUME NEW q \in Seq(Message), NEW w
    PROVE  /\ Cardinality(Carried(q, w)) \in Nat
           /\ q = <<>> => Cardinality(Carried(q, w)) = 0
           /\ \A m \in Message :
                Cardinality(Carried(Append(q, m), w))
                  = Cardinality(Carried(q, w)) + (IF m.worker = w /\ m.holds THEN 1 ELSE 0)
           /\ q # <<>> =>
                Cardinality(Carried(Tail(q), w))
                  = Cardinality(Carried(q, w)) - (IF Head(q).worker = w /\ Head(q).holds THEN 1 ELSE 0)
<1>1. \A p \in Seq(Message) : IsFiniteSet(Carried(p, w)) /\ Cardinality(Carried(p, w)) \in Nat
  <2> TAKE p \in Seq(Message)
  <2>1. IsFiniteSet(1 .. Len(p)) /\ Carried(p, w) \in SUBSET (1 .. Len(p))
    BY FS_Interval DEF Carried
  <2> QED BY <2>1, FS_Subset, FS_CardinalityType
<1>2. ASSUME q = <<>> PROVE Cardinality(Carried(q, w)) = 0
  <2>1. Carried(q, w) = {} BY <1>2 DEF Carried
  <2> QED BY <2>1, FS_EmptySet
<1>3. ASSUME NEW m \in Message
      PROVE  Cardinality(Carried(Append(q, m), w))
               = Cardinality(Carried(q, w)) + (IF m.worker = w /\ m.holds THEN 1 ELSE 0)
  <2>1. Carried(Append(q, m), w) =
          IF m.worker = w /\ m.holds THEN Carried(q, w) \cup {Len(q) + 1} ELSE Carried(q, w)
    BY AppendOf DEF Carried
  <2>2. Len(q) + 1 \notin Carried(q, w)
    BY DEF Carried
  <2>3. Cardinality(Carried(q, w) \cup {Len(q) + 1}) = Cardinality(Carried(q, w)) + 1
    BY <1>1, <2>2, FS_AddElement
  <2>4. CASE m.worker = w /\ m.holds
    BY <2>1, <2>3, <2>4
  <2>5. CASE ~(m.worker = w /\ m.holds)
    BY <1>1, <2>1, <2>5
  <2> QED BY <2>4, <2>5
<1>4. ASSUME q # <<>>
      PROVE  Cardinality(Carried(Tail(q), w))
               = Cardinality(Carried(q, w)) - (IF Head(q).worker = w /\ Head(q).holds THEN 1 ELSE 0)
  <2> DEFINE f == [i \in Carried(Tail(q), w) |-> i + 1]
             T == Carried(q, w) \ {1}
  <2>0. Tail(q) \in Seq(Message) /\ Head(q) = q[1] /\ 1 \in DOMAIN q
    BY <1>4, TailOf
  <2>1. f \in Bijection(Carried(Tail(q), w), T)
    <3>1. \A i \in Carried(Tail(q), w) : i \in Nat /\ i + 1 \in T
      BY <1>4, TailOf DEF Carried
    <3>2. \A j \in T : j - 1 \in Carried(Tail(q), w) /\ j = (j - 1) + 1
      BY <1>4, TailOf DEF Carried
    <3>3. f \in [Carried(Tail(q), w) -> T]
      BY <3>1
    <3>4. \A j \in T : \E i \in Carried(Tail(q), w) : f[i] = j
      BY <3>2
    <3>5. \A i, j \in Carried(Tail(q), w) : f[i] = f[j] => i = j
      <4>1. \A i, j \in Nat : i + 1 = j + 1 => i = j
        OBVIOUS
      <4>2. \A i \in Carried(Tail(q), w) : f[i] = i + 1
        OBVIOUS
      <4> QED BY <3>1, <4>1, <4>2
    <3> HIDE DEF f, T
    <3> QED BY <3>3, <3>4, <3>5 DEF Bijection, Injection, IsInjective, Surjection
  <2>2. Cardinality(T) = Cardinality(Carried(Tail(q), w))
    <3>1. ExistsBijection(Carried(Tail(q), w), T)
      BY <2>1 DEF ExistsBijection
    <3> QED BY <1>1, <2>0, <3>1, FS_Bijection
  <2>3. 1 \in Carried(q, w) <=> Head(q).worker = w /\ Head(q).holds
    BY <2>0 DEF Carried
  <2>4. Cardinality(T) = IF 1 \in Carried(q, w) THEN Cardinality(Carried(q, w)) - 1
                                                ELSE Cardinality(Carried(q, w))
    BY <1>1, FS_RemoveElement
  <2> HIDE DEF T
  <2> QED BY <1>1, <2>2, <2>3, <2>4
<1> QED
  BY <1>1, <1>2, <1>3, <1>4

\* How many of some records are a worker's.
LEMMA RecordCounts ==
    ASSUME NEW S, IsFiniteSet(S), NEW T, IsFiniteSet(T), S \cap T = {}, NEW w
    PROVE  /\ Cardinality(RecordsOf(S, w)) \in Nat
           /\ Cardinality(RecordsOf({}, w)) = 0
           /\ \A r : Cardinality(RecordsOf({r}, w)) = IF r[1] = w THEN 1 ELSE 0
           /\ Cardinality(RecordsOf(S \cup T, w))
                = Cardinality(RecordsOf(S, w)) + Cardinality(RecordsOf(T, w))
<1>1. \A U : IsFiniteSet(U) => IsFiniteSet(RecordsOf(U, w)) /\ Cardinality(RecordsOf(U, w)) \in Nat
  BY FS_Subset, FS_CardinalityType DEF RecordsOf
<1>2. RecordsOf({}, w) = {} /\ \A r : RecordsOf({r}, w) = IF r[1] = w THEN {r} ELSE {}
  BY DEF RecordsOf
<1>3. /\ RecordsOf(S \cup T, w) = RecordsOf(S, w) \cup RecordsOf(T, w)
      /\ RecordsOf(S, w) \cap RecordsOf(T, w) = {}
  BY DEF RecordsOf
<1>4. Cardinality(RecordsOf(S \cup T, w))
        = Cardinality(RecordsOf(S, w)) + Cardinality(RecordsOf(T, w))
  <2> DEFINE A == RecordsOf(S, w)
             B == RecordsOf(T, w)
  <2>1. IsFiniteSet(A) /\ Cardinality(A) \in Nat /\ IsFiniteSet(B) /\ Cardinality(B) \in Nat
    BY <1>1
  <2>2. Cardinality(A \cap B) = 0
    BY <1>3, FS_EmptySet
  <2>3. RecordsOf(S \cup T, w) = A \cup B
    BY <1>3
  <2> HIDE DEF A, B
  <2>4. Cardinality(A \cup B) = Cardinality(A) + Cardinality(B) - Cardinality(A \cap B)
    BY <2>1, FS_Union
  <2>5. Cardinality(A \cup B) = Cardinality(A) + Cardinality(B)
    BY <2>1, <2>2, <2>4
  <2> QED BY <2>3, <2>5 DEF A, B
<1> QED
  BY <1>1, <1>2, <1>4, FS_EmptySet, FS_Singleton

-----------------------------------------------------------------------------
\* The coordinator's account

\* The credit of the completion that is received next is none of the buffered
\* records'.
LEMMA NextCredit ==
    ASSUME CreditInv, Live, results # <<>>
    PROVE  /\ Head(results) \in Message /\ IsFiniteSet(CreditOf(Head(results)))
           /\ CreditOf(Head(results)) \cap it.completed = {}
           /\ \A w : Cardinality(RecordsOf(CreditOf(Head(results)), w))
                       = IF Head(results).worker = w /\ Head(results).holds THEN 1 ELSE 0
<1> DEFINE m == Head(results)
<1>1. /\ m \in Message /\ m = results[1] /\ 1 \in DOMAIN results
      /\ IsFiniteSet(it.completed)
      /\ \A r \in it.completed : r[2] # 0
      /\ m.kind = "record" => <<m.worker, m.read>> \notin it.completed
  <2>1. PoolTypes /\ ReadsInv BY DEF CreditInv, LiveInv
  <2>2. m \in Message /\ m = results[1] /\ 1 \in DOMAIN results
    BY <2>1, TailOf DEF PoolTypes
  <2>3. \A n \in 1 .. 0 : FALSE
    OBVIOUS
  <2>4. \A r \in it.completed : r[2] # 0
    BY <2>1 DEF ReadsInv
  <2> QED BY <2>1, <2>2, <2>4 DEF PoolTypes, ReadsInv, InFlight, RecordOf
<1>2. \/ m.holds /\ \E n : CreditOf(m) = {<<m.worker, n>>}
                       /\ (n = 0 \/ (m.kind = "record" /\ n = m.read))
      \/ ~m.holds /\ CreditOf(m) = {}
  BY DEF CreditOf
<1> HIDE DEF m
<1>3. CreditOf(m) \cap it.completed = {}
  BY <1>1, <1>2
<1>4. ASSUME NEW w
      PROVE  Cardinality(RecordsOf(CreditOf(m), w)) = IF m.worker = w /\ m.holds THEN 1 ELSE 0
  <2>1. /\ Cardinality(RecordsOf({}, w)) = 0
        /\ \A r : Cardinality(RecordsOf({r}, w)) = IF r[1] = w THEN 1 ELSE 0
    BY RecordCounts, FS_EmptySet
  <2>2. CASE ~m.holds
    BY <1>2, <2>1, <2>2
  <2>3. CASE m.holds
    <3>1. PICK n : CreditOf(m) = {<<m.worker, n>>}
      BY <1>2, <2>3
    <3>2. <<m.worker, n>>[1] = m.worker
      OBVIOUS
    <3> QED BY <2>1, <2>3, <3>1, <3>2
  <2> QED BY <2>2, <2>3
<1>5. IsFiniteSet(CreditOf(m))
  <2>1. CASE CreditOf(m) = {}
    BY ONLY <2>1, FS_EmptySet
  <2>2. ASSUME NEW n, CreditOf(m) = {<<m.worker, n>>} PROVE IsFiniteSet(CreditOf(m))
    BY ONLY <2>2, FS_Singleton
  <2> QED BY ONLY <1>2, <2>1, <2>2
<1> QED
  BY <1>1, <1>3, <1>4, <1>5 DEF m

\* What may be taken out of the channel before credits are returned
Taken(taken) == taken = {} \/ (results # <<>> /\ taken = CreditOf(Head(results)))

\* Credits that are returned for records under way fit into the channels they
\* came from (return_credit).
LEMMA Refund ==
    ASSUME CreditInv, Live, NEW taken, Taken(taken), NEW back \in SUBSET (it.completed \cup taken)
    PROVE  /\ ~Overfull(back) /\ IsFiniteSet(back)
           /\ Returned(back) \in [Workers -> Nat]
           /\ \A w \in Workers : Returned(back)[w] = credits[w] + Cardinality(RecordsOf(back, w))
<1>1. PoolTypes /\ AccountInv BY DEF CreditInv, LiveInv
<1>2. IsFiniteSet(it.completed) /\ IsFiniteSet(taken) /\ it.completed \cap taken = {}
  BY <1>1, NextCredit, FS_EmptySet DEF PoolTypes, Taken
<1>3. IsFiniteSet(it.completed \cup taken)
  BY <1>2, FS_Union
<1>4. IsFiniteSet(back)
  BY <1>3, FS_Subset
<1>5. ASSUME NEW w \in Workers
      PROVE  /\ Cardinality(RecordsOf(back, w)) \in Nat /\ credits[w] \in Nat
             /\ credits[w] + Cardinality(RecordsOf(back, w)) <= config.prefetch
  <2>1. /\ Cardinality(RecordsOf(back, w)) \in Nat
        /\ Cardinality(RecordsOf(back, w)) <= Cardinality(RecordsOf(it.completed \cup taken, w))
    <3>1. RecordsOf(back, w) \in SUBSET RecordsOf(it.completed \cup taken, w)
      BY DEF RecordsOf
    <3>2. IsFiniteSet(RecordsOf(it.completed \cup taken, w))
      BY <1>3, FS_Subset DEF RecordsOf
    <3> QED BY <3>1, <3>2, FS_Subset, FS_CardinalityType
  <2>2. Cardinality(RecordsOf(it.completed \cup taken, w)) = Buffered(w) + Cardinality(RecordsOf(taken, w))
    BY <1>2, RecordCounts DEF Buffered
  <2>3. Buffered(w) \in Nat /\ Cardinality(RecordsOf(taken, w)) \in Nat
    BY <1>2, RecordCounts, FS_EmptySet DEF Buffered
  <2>4. InChannel(w) \in Nat /\ Cardinality(RecordsOf(taken, w)) <= InChannel(w)
    <3>1. results \in Seq(Message) BY <1>1 DEF PoolTypes
    <3>2. InChannel(w) \in Nat
      BY <3>1, ChannelCounts DEF InChannel
    <3>3. CASE taken = {}
      BY <3>2, <3>3, RecordCounts, FS_EmptySet
    <3>4. CASE results # <<>> /\ taken = CreditOf(Head(results))
      <4>1. Tail(results) \in Seq(Message)
        BY <3>1, <3>4, TailOf
      <4>2. Cardinality(Carried(Tail(results), w)) \in Nat
        BY <4>1, ChannelCounts
      <4>3. Cardinality(Carried(Tail(results), w)) = InChannel(w) - Cardinality(RecordsOf(taken, w))
        BY <3>1, <3>4, ChannelCounts, NextCredit DEF InChannel
      <4> QED BY <2>3, <3>2, <4>2, <4>3
    <3> QED BY <3>2, <3>3, <3>4 DEF Taken
  <2>5. /\ credits[w] \in Nat /\ InHand(w) \in Nat /\ config.prefetch \in Nat
        /\ credits[w] + InHand(w) + InChannel(w) + Buffered(w) = config.prefetch
    BY <1>1, ConfigFacts DEF PoolTypes, AccountInv, InHand
  <2> HIDE DEF InHand, InChannel, Buffered
  <2> QED BY ONLY <2>1, <2>2, <2>3, <2>4, <2>5
<1>6. DOMAIN credits = Workers
  BY <1>1 DEF PoolTypes
<1>7. \A w \in Workers : Back(back)[w] = credits[w] + Cardinality(RecordsOf(back, w))
  BY <1>6 DEF Back, RecordsOf
<1>8. /\ ~Overfull(back)
      /\ Returned(back) = [w \in Workers |-> Back(back)[w]]
  <2>1. ASSUME NEW w \in Workers PROVE ~(Back(back)[w] > config.prefetch)
    <3>1. Back(back)[w] = credits[w] + Cardinality(RecordsOf(back, w))
      BY <1>7
    <3>2. config.prefetch \in Nat
      BY ConfigFacts
    <3>3. /\ Cardinality(RecordsOf(back, w)) \in Nat /\ credits[w] \in Nat
          /\ credits[w] + Cardinality(RecordsOf(back, w)) <= config.prefetch
      BY <1>5
    <3> QED BY ONLY <3>1, <3>2, <3>3
  <2> QED BY <1>6, <2>1 DEF Overfull, Returned
<1> QED
  BY <1>4, <1>5, <1>7, <1>8

\* Nothing returned is nothing done.
LEMMA NoRefund ==
    ASSUME CreditInv, Live
    PROVE  Returned({}) = credits /\ ~Overfull({})
<1>1. /\ ~Overfull({}) /\ Returned({}) \in [Workers -> Nat] /\ credits \in [Workers -> Nat]
      /\ \A w \in Workers : Returned({})[w] = credits[w] + Cardinality(RecordsOf({}, w))
  BY Refund DEF Taken, CreditInv, LiveInv, PoolTypes
<1>2. \A w : Cardinality(RecordsOf({}, w)) = 0
  BY RecordCounts, FS_EmptySet
<1>3. \A w \in Workers : Returned({})[w] = credits[w]
  BY <1>1, <1>2
<1> QED BY <1>1, <1>3

\* Whatever the coordinator takes out of the channel or the buffer it keeps in
\* the buffer or returns, and the account stays.
LEMMA AccountKeeps ==
    ASSUME CreditInv, Live, NEW taken, Taken(taken), NEW back,
           \/ taken = {} /\ results' = results
           \/ results # <<>> /\ taken = CreditOf(Head(results)) /\ results' = Tail(results),
           it'.completed \cup back = it.completed \cup taken, it'.completed \cap back = {},
           credits' = Returned(back), UNCHANGED <<config, worker>>
    PROVE  AccountInv' /\ credits' \in [Workers -> Nat]
           /\ IsFiniteSet(it'.completed) /\ it'.completed \subseteq it.completed \cup taken
<1>1. PoolTypes /\ AccountInv BY DEF CreditInv, LiveInv
<1>2. IsFiniteSet(it.completed) /\ IsFiniteSet(taken) /\ it.completed \cap taken = {}
  BY <1>1, NextCredit, FS_EmptySet DEF PoolTypes, Taken
<1>3. it'.completed \subseteq it.completed \cup taken /\ back \in SUBSET (it.completed \cup taken)
  OBVIOUS
<1>4. IsFiniteSet(it'.completed)
  BY <1>2, <1>3, FS_Union, FS_Subset
<1>5. /\ IsFiniteSet(back) /\ credits' \in [Workers -> Nat]
      /\ \A w \in Workers : credits'[w] = credits[w] + Cardinality(RecordsOf(back, w))
  BY <1>3, Refund
<1>6. Workers' = Workers BY DEF Workers
<1>7. ASSUME NEW w \in Workers
      PROVE  credits'[w] + InHand(w)' + InChannel(w)' + Buffered(w)' = config.prefetch
  <2>1. Buffered(w)' + Cardinality(RecordsOf(back, w)) = Buffered(w) + Cardinality(RecordsOf(taken, w))
    <3>1. Cardinality(RecordsOf(it'.completed \cup back, w))
            = Cardinality(RecordsOf(it'.completed, w)) + Cardinality(RecordsOf(back, w))
      BY ONLY <1>4, <1>5, it'.completed \cap back = {}, RecordCounts
    <3>2. Cardinality(RecordsOf(it.completed \cup taken, w))
            = Cardinality(RecordsOf(it.completed, w)) + Cardinality(RecordsOf(taken, w))
      BY ONLY <1>2, RecordCounts
    <3> QED BY <3>1, <3>2 DEF Buffered
  <2>2. InChannel(w)' = InChannel(w) - Cardinality(RecordsOf(taken, w))
    <3>1. results \in Seq(Message) /\ InChannel(w) \in Nat
      BY <1>1, ChannelCounts DEF PoolTypes, InChannel
    <3>2. CASE results' = results /\ taken = {}
      BY <3>1, <3>2, RecordCounts, FS_EmptySet DEF InChannel
    <3>3. CASE results # <<>> /\ taken = CreditOf(Head(results)) /\ results' = Tail(results)
      BY <3>1, <3>3, ChannelCounts, NextCredit DEF InChannel
    <3> QED BY <3>2, <3>3
  <2>3. InHand(w)' = InHand(w)
    BY DEF InHand
  <2>4. /\ Buffered(w)' \in Nat /\ Cardinality(RecordsOf(back, w)) \in Nat
        /\ Buffered(w) \in Nat /\ Cardinality(RecordsOf(taken, w)) \in Nat
        /\ InChannel(w) \in Nat /\ InHand(w) \in Nat
        /\ credits[w] \in Nat /\ config.prefetch \in Nat
    BY <1>1, <1>2, <1>4, <1>5, RecordCounts, ChannelCounts, ConfigFacts
       DEF Buffered, InChannel, InHand, PoolTypes
  <2>5. credits[w] + InHand(w) + InChannel(w) + Buffered(w) = config.prefetch
    BY <1>1 DEF AccountInv
  <2>6. credits'[w] = credits[w] + Cardinality(RecordsOf(back, w))
    BY <1>5
  <2> HIDE DEF Buffered, InChannel, InHand
  <2> QED BY ONLY <2>1, <2>2, <2>3, <2>4, <2>5, <2>6
<1> QED
  BY <1>3, <1>4, <1>5, <1>6, <1>7 DEF AccountInv
\* What the coordinator has taken: the head of the channel, or nothing
Received == results # <<>> /\ results' = Tail(results)

\* Whatever is received, accounted for and buffered, what is under way stays
\* sorted, and the last completions stay the last.
LEMMA ChannelKeeps ==
    ASSUME CreditInv, Live, UNCHANGED <<config, worker, controls>>,
           results' = results \/ Received,
           \A r \in it'.completed : r \in it.completed \/
             (Received /\ Head(results).kind = "record" /\ r = RecordOf(Head(results))),
           pool' = pool \/ (Received /\ LET m == Head(results) IN
             pool' = Accounted(pool, m.worker, Terminal(m), m.kind = "fatal"))
    PROVE  /\ results' \in Seq(Message)'
           /\ pool' \in [poisoned : BOOLEAN, terminal : SUBSET Workers, fatal : BOOLEAN]
           /\ HandInv' /\ ReadsInv' /\ ControlInv' /\ EndInv'
<1>1. PoolTypes /\ HandInv /\ ReadsInv /\ ControlInv /\ EndInv BY DEF CreditInv, LiveInv
<1>2. Workers' = Workers /\ Message' = Message BY DEF Workers, Message
<1>3. results \in Seq(Message) BY <1>1 DEF PoolTypes
<1>4. results' \in Seq(Message) /\ \A k \in DOMAIN results : results[k] \in Message
  BY <1>3, TailOf DEF Received
<1>5. PICK d \in {0, 1} :
        /\ \A k \in DOMAIN results' : k \in Nat /\ k + d \in DOMAIN results /\ results'[k] = results[k + d]
        /\ d = 1 => Received
        /\ d = 0 => results' = results
  <2>1. CASE results' = results
    <3>1. \A k \in DOMAIN results : k \in Nat /\ k + 0 = k
      BY <1>3
    <3> QED BY <2>1, <3>1
  <2>2. CASE Received
    BY <1>3, <2>2, TailOf DEF Received
  <2> QED BY <2>1, <2>2
<1>6. Received => /\ Head(results) = results[1] /\ 1 \in DOMAIN results
                  /\ Head(results) \in Message
  BY <1>3, TailOf DEF Received
<1>7. /\ \A k \in InFlight' : k \in Nat /\ k + d \in InFlight /\ results'[k] = results[k + d]
      /\ \A r \in it'.completed \ it.completed :
           Received /\ 1 \in InFlight /\ r = RecordOf(results[1])
  BY <1>5, <1>6 DEF InFlight
<1>8. HandInv'
  BY <1>1, <1>2, <1>5 DEF HandInv
<1>9. ReadsInv'
  <2>1. \A w \in Workers : Sent(w)' = Sent(w)
    BY DEF Sent
  <2>2. \A k \in InFlight : results[k].worker \in Workers
    BY <1>4 DEF InFlight, Message
  <2>3. \A r \in it.completed : r[1] \in Workers
    BY <1>1 DEF PoolTypes
  <2>4. \A k \in InFlight' : results'[k].read \in 1 .. Sent(results[k].worker)'
    BY <1>1, <1>7, <2>1, <2>2 DEF ReadsInv
  <2>5. \A r \in it'.completed : r[2] \in 1 .. Sent(r[1])'
    <3>1. \A r \in it.completed : r[2] \in 1 .. Sent(r[1])'
      BY <1>1, <2>1, <2>3 DEF ReadsInv
    <3>2. ASSUME 1 \in InFlight, NEW r, r = RecordOf(results[1])
          PROVE  r[2] \in 1 .. Sent(r[1])'
      <4>1. r[1] = results[1].worker /\ r[2] = results[1].read
        BY <3>2 DEF RecordOf
      <4> QED BY <1>1, <2>1, <2>2, <3>2, <4>1 DEF ReadsInv
    <3> QED BY <1>7, <3>1, <3>2
  <2>6. \A j, k \in InFlight' : RecordOf(results'[j]) = RecordOf(results'[k]) => j = k
    <3> TAKE j, k \in InFlight'
    <3> HAVE RecordOf(results'[j]) = RecordOf(results'[k])
    <3>1. j \in Nat /\ k \in Nat /\ j + d = k + d
      BY <1>1, <1>7 DEF ReadsInv
    <3> QED BY <1>5, <3>1
  <2>7. \A k \in InFlight' : RecordOf(results'[k]) \notin it'.completed
    <3> TAKE k \in InFlight'
    <3>1. k \in Nat /\ k >= 1 /\ k + d \in InFlight /\ results'[k] = results[k + d]
      <4>1. k \in DOMAIN results' BY DEF InFlight
      <4> QED BY <1>4, <1>7, <4>1
    <3>2. RecordOf(results[k + d]) \notin it.completed
      BY <1>1, <3>1 DEF ReadsInv
    <3>3. ASSUME RecordOf(results[k + d]) \in it'.completed \ it.completed PROVE FALSE
      <4>1. Received /\ 1 \in InFlight /\ RecordOf(results[k + d]) = RecordOf(results[1])
        BY <1>7, <3>3
      <4>2. k + d = 1
        BY <1>1, <3>1, <4>1 DEF ReadsInv
      <4>3. d = 0
        BY <1>5, <3>1, <4>2
      <4>4. results = Tail(results)
        BY <1>5, <4>1, <4>3 DEF Received
      <4> QED BY <1>3, <4>1, <4>4 DEF Received
    <3> QED BY <3>1, <3>2, <3>3
  <2>8. \A w \in Workers : worker'[w].pc \in Announced => worker'[w].read >= 1
    BY <1>1 DEF ReadsInv
  <2> QED BY <1>2, <2>4, <2>5, <2>6, <2>7, <2>8 DEF ReadsInv
<1>10. ControlInv'
  <2> SUFFICES ASSUME NEW w \in Workers
               PROVE  /\ Len(controls[w]) <= 1
                      /\ controls[w] # <<>> =>
                           /\ worker[w].pc \in {"start", "idle", "dying", "fatal"}
                           /\ \A k \in InFlight' : results'[k].worker # w
                           /\ \A r \in it'.completed : r[1] # w
    BY <1>2 DEF ControlInv
  <2>1. \A r : RecordOf(r)[1] = r.worker
    BY DEF RecordOf
  <2> QED BY <1>1, <1>7, <2>1 DEF ControlInv
<1>11. /\ pool' \in [poisoned : BOOLEAN, terminal : SUBSET Workers, fatal : BOOLEAN]
       /\ \A w \in pool'.terminal : w \in pool.terminal \/
            (Received /\ Terminal(Head(results)) /\ w = Head(results).worker)
       /\ pool.fatal => pool'.fatal
       /\ \A w \in pool'.terminal \ pool.terminal : Head(results).kind = "fatal" => pool'.fatal
  <2>1. pool \in [poisoned : BOOLEAN, terminal : SUBSET Workers, fatal : BOOLEAN]
    BY <1>1 DEF PoolTypes
  <2>2. CASE pool' = pool
    BY <2>1, <2>2
  <2>3. ASSUME Received, NEW m, m = Head(results),
               pool' = Accounted(pool, m.worker, Terminal(m), m.kind = "fatal")
        PROVE  <1>11!1 /\ <1>11!2 /\ <1>11!3 /\ <1>11!4
    <3>1. m.worker \in Workers
      BY <1>6, <2>3 DEF Message
    <3>2. pool' = [pool EXCEPT !.fatal = pool.fatal \/ m.kind = "fatal",
                               !.terminal = IF Terminal(m) THEN pool.terminal \cup {m.worker} ELSE pool.terminal]
      BY <2>3 DEF Accounted
    <3>3. /\ pool'.poisoned = pool.poisoned
          /\ pool'.terminal = IF Terminal(m) THEN pool.terminal \cup {m.worker} ELSE pool.terminal
          /\ pool'.fatal = (pool.fatal \/ m.kind = "fatal")
      BY <2>1, <3>2
    <3>4. pool' \in [poisoned : BOOLEAN, terminal : SUBSET Workers, fatal : BOOLEAN]
      BY <2>1, <3>1, <3>2
    <3> QED BY <2>3, <3>3, <3>4
  <2> QED BY <2>2, <2>3
<1>12. EndInv'
  <2>1. \A w \in Workers : Over(w)' = Over(w)
    BY DEF Over
  <2>2. ASSUME NEW k \in DOMAIN results', Terminal(results'[k])
        PROVE  /\ Over(results[k].worker)'
               /\ results'[k].kind = "fatal" <=> worker[results'[k].worker].pc = "fatal"
               /\ \A j \in DOMAIN results' : j > k => results'[j].worker # results'[k].worker
    <3>1. k \in Nat /\ k + d \in DOMAIN results /\ results'[k] = results[k + d]
      BY <1>5
    <3>2. /\ Over(results[k + d].worker)
          /\ results[k + d].kind = "fatal" <=> worker[results[k + d].worker].pc = "fatal"
          /\ \A j \in DOMAIN results : j > k + d => results[j].worker # results[k + d].worker
      BY <1>1, <2>2, <3>1 DEF EndInv
    <3>3. results[k + d].worker \in Workers
      BY <1>4, <3>1 DEF Message
    <3>4. \A j \in DOMAIN results' : j > k => results'[j].worker # results'[k].worker
      <4> TAKE j \in DOMAIN results'
      <4> HAVE j > k
      <4>1. j \in Nat /\ j + d \in DOMAIN results /\ results'[j] = results[j + d]
        BY <1>5
      <4>2. j + d > k + d
        BY <3>1, <4>1
      <4> QED BY <3>1, <3>2, <4>1, <4>2
    <3> QED BY <2>1, <3>1, <3>2, <3>3, <3>4
  <2>3. ASSUME NEW w \in pool'.terminal
        PROVE  /\ Over(w)'
               /\ worker[w].pc = "fatal" => pool'.fatal
               /\ \A k \in DOMAIN results' : results'[k].worker # w
    <3>1. CASE w \in pool.terminal
      <4>1. w \in Workers BY <1>1, <3>1 DEF PoolTypes
      <4> QED BY <1>1, <1>5, <1>11, <2>1, <3>1, <4>1 DEF EndInv
    <3>2. CASE w \notin pool.terminal
      <4>1. Received /\ Terminal(results[1]) /\ w = results[1].worker
        BY <1>6, <1>11, <3>2
      <4>2. /\ Over(w) /\ w \in Workers
            /\ results[1].kind = "fatal" <=> worker[w].pc = "fatal"
            /\ \A j \in DOMAIN results : j > 1 => results[j].worker # w
        BY <1>1, <1>3, <1>6, <4>1 DEF EndInv, Message
      <4>3. worker[w].pc = "fatal" => pool'.fatal
        BY <1>6, <1>11, <3>2, <4>1, <4>2
      <4>4. \A k \in DOMAIN results' : results'[k].worker # w
        <5> TAKE k \in DOMAIN results'
        <5>1. k \in Nat /\ k + 1 \in DOMAIN results /\ results'[k] = results[k + 1] /\ k + 1 > 1
          BY <1>3, <4>1, TailOf DEF Received
        <5> QED BY <4>2, <5>1
      <4> QED BY <2>1, <4>2, <4>3, <4>4
    <3> QED BY <3>1, <3>2
  <2> QED BY <2>2, <2>3 DEF EndInv, Terminal
<1> QED
  BY <1>2, <1>4, <1>8, <1>9, <1>10, <1>11, <1>12
-----------------------------------------------------------------------------
\* The caller's thread

\* What the coordinator takes from the channel goes with the credit it carries.
Takes(taken) ==
  \/ taken = {} /\ results' = results
  \/ Received /\ taken = CreditOf(Head(results))

\* It accounts for nothing else than what it takes.
Accounts(p) ==
  \/ p = pool
  \/ Received /\ LET m == Head(results) IN p = Accounted(pool, m.worker, Terminal(m), m.kind = "fatal")

\* A buffer grows by a record that is received, and shrinks by what is returned.
Moves(completed, back, taken) ==
  /\ completed \cup back = it.completed \cup taken /\ completed \cap back = {}
  /\ completed \subseteq it.completed \/ Head(results).kind = "record"

\* The whole invariant after a step of the coordinator.
LEMMA CoordinatorKeeps ==
    ASSUME CreditInv, Live, UNCHANGED <<config, worker, controls, shutdown>>, nextGen' \in Nat,
           NEW taken, Takes(taken), NEW back, Moves(it'.completed, back, taken),
           credits' = Returned(back), Accounts(pool'), PhaseInv'
    PROVE  CreditInv'
<1>1. Taken(taken)
  BY DEF Takes, Taken, Received
<1>2. /\ AccountInv' /\ credits' \in [Workers -> Nat]
      /\ IsFiniteSet(it'.completed) /\ it'.completed \subseteq it.completed \cup taken
  BY <1>1, AccountKeeps DEF Takes, Received, Moves
<1>3. \A r \in it'.completed : r \in it.completed \/
        (Received /\ Head(results).kind = "record" /\ r = RecordOf(Head(results)))
  <2> SUFFICES ASSUME NEW r \in it'.completed, r \notin it.completed
               PROVE  Received /\ Head(results).kind = "record" /\ r = RecordOf(Head(results))
    OBVIOUS
  <2>1. r \in taken /\ Head(results).kind = "record" /\ Received /\ taken = CreditOf(Head(results))
    BY <1>2 DEF Moves, Takes
  <2> QED BY <2>1 DEF CreditOf, RecordOf
<1>4. /\ results' \in Seq(Message)'
      /\ pool' \in [poisoned : BOOLEAN, terminal : SUBSET Workers, fatal : BOOLEAN]
      /\ HandInv' /\ ReadsInv' /\ ControlInv' /\ EndInv'
  BY <1>3, ChannelKeeps DEF Takes, Accounts
<1>5. Workers' = Workers /\ worker \in [Workers -> Thread] /\ controls \in [Workers -> Seq(Nat)]
      /\ it.completed \subseteq Workers \X Nat
  BY DEF Workers, CreditInv, LiveInv, PoolTypes
<1>6. it'.completed \subseteq Workers \X Nat
  <2>1. results # <<>> => Head(results) \in Message
    BY NextCredit
  <2>2. Received => RecordOf(Head(results)) \in Workers \X Nat
    BY <2>1 DEF Received, RecordOf, Message
  <2> QED BY <1>3, <1>5, <2>2
<1>7. PoolTypes'
  BY <1>2, <1>4, <1>5, <1>6 DEF PoolTypes
<1>8. LiveInv'
  BY <1>2, <1>4, <1>7 DEF LiveInv
<1>9. /\ config' \in Configs /\ Valid(config)' /\ ~shutdown'
  BY DEF CreditInv, Live, Valid
<1> QED
  BY <1>8, <1>9 DEF CreditInv

\* A pool that is stopped, or has no threads, has no account.
LEMMA StoppedKeeps ==
    ASSUME CreditInv, UNCHANGED config, nextGen' \in Nat,
           (shutdown' /\ call' = "join") \/ worker' = <<>>
    PROVE  CreditInv'
BY DEF CreditInv, Live

\* What close() and the drop leave: a pool that is being stopped, or one that
\* is waited for.
LEMMA LeaveLeaves ==
    ASSUME NEW p, NEW records, NEW poisoned, NEW then, Leave(p, records, poisoned, then)
    PROVE  /\ credits' = Returned(records) /\ pool' = p
           /\ \/ call' = "join" /\ shutdown' = TRUE
              \/ call' = "quiesce" /\ shutdown' = shutdown /\ quiet'.then = then
<1>1. CASE config.persistent /\ ~(then = "loader" /\ Overfull(records))
  <2>1. /\ credits' = Returned(records) /\ pool' = p
        /\ call' = "quiesce" /\ shutdown' = shutdown
        /\ quiet' = [poison |-> poisoned \/ Overfull(records), then |-> then]
    BY <1>1 DEF Leave
  <2>2. quiet'.then = then
    BY <2>1
  <2> QED BY <2>1, <2>2
<1>2. CASE ~(config.persistent /\ ~(then = "loader" /\ Overfull(records)))
  BY <1>2 DEF Leave, Joining
<1> QED BY <1>1, <1>2

\* A form of the iterator that next() works on
Form(i) ==
  /\ {"open", "completed", "exhausted", "fault"} \subseteq DOMAIN i
  /\ i.open = TRUE

\* Closing an open iterator returns what it has buffered and what was received
\* and is not wanted (close, shutdown).
LEMMA CloseKeeps ==
    ASSUME CreditInv, Live, UNCHANGED <<config, worker, controls, nextGen>>,
           NEW i, Form(i), NEW p, Accounts(p), NEW extra, NEW answer, NEW poisoned,
           NEW taken, Takes(taken), i.completed \cup extra = it.completed \cup taken,
           Close(i, p, extra, answer, poisoned)
    PROVE  CreditInv'
<1>1. it' = Closed(i) /\ Leave(p, i.completed \cup extra, poisoned, "user")
  BY DEF Close, Form
<1>2. /\ credits' = Returned(i.completed \cup extra) /\ pool' = p
      /\ \/ call' = "join" /\ shutdown' = TRUE
         \/ call' = "quiesce" /\ shutdown' = shutdown /\ quiet'.then = "user"
  BY <1>1, LeaveLeaves
<1>3. /\ {"open", "completed", "exhausted", "fault"} \subseteq DOMAIN it'
      /\ it'.open = FALSE /\ it'.completed = {} /\ it'.exhausted = TRUE
  BY <1>1 DEF Closed, Form
<1>4. nextGen' \in Nat
  BY DEF CreditInv
<1>5. CASE call' = "join" /\ shutdown' = TRUE
  BY <1>4, <1>5, StoppedKeeps
<1>6. CASE call' = "quiesce" /\ shutdown' = shutdown /\ quiet'.then = "user"
  <2>1. PhaseInv'
    BY <1>3, <1>6 DEF PhaseInv
  <2>2. Moves(it'.completed, i.completed \cup extra, taken)
    BY <1>3 DEF Moves
  <2> QED BY <1>2, <1>4, <1>6, <2>1, <2>2, CoordinatorKeeps
<1> QED BY <1>2, <1>5, <1>6

\* An iterator that has a batch goes on, or is closed if it cannot be collated
\* (finish_batch).
LEMMA FinishKeeps ==
    ASSUME CreditInv, Live, UNCHANGED <<config, worker, controls, nextGen>>,
           NEW i, Form(i), NEW credit, NEW taken, Takes(taken),
           Moves(i.completed, credit, taken), FinishBatch(i, credit)
    PROVE  CreditInv'
<1>1. CASE Close(i, pool, credit, Answer("collate"), FALSE)
  <2>1. Accounts(pool) /\ i.completed \cup credit = it.completed \cup taken
    BY DEF Accounts, Moves
  <2> QED BY <1>1, <2>1, CloseKeeps
<1>2. CASE /\ it' = [i EXCEPT !.partial = <<>>,
                              !.yielded = @ \cup {i.partial[k] : k \in DOMAIN i.partial}]
           /\ call' = "user" /\ credits' = Returned(credit)
           /\ UNCHANGED <<pool, shutdown, quiet>>
  <2>1. /\ {"open", "completed", "exhausted", "fault"} \subseteq DOMAIN it'
        /\ it'.open = TRUE /\ it'.completed = i.completed
    BY <1>2 DEF Form
  <2>2. PhaseInv'
    BY <1>2, <2>1 DEF PhaseInv
  <2>3. Moves(it'.completed, credit, taken) /\ Accounts(pool') /\ nextGen' \in Nat
    BY <1>2, <2>1 DEF Accounts, CreditInv
  <2> QED BY <1>2, <2>2, <2>3, CoordinatorKeeps
<1> QED BY <1>1, <1>2 DEF FinishBatch

\* A record that is consumed gives its credit back and joins the batch (consume).
LEMMA ConsumeKeeps ==
    ASSUME CreditInv, Live, call = "next", UNCHANGED <<config, worker, controls, nextGen>>,
           NEW i, Form(i), NEW r, NEW taken, Takes(taken),
           Moves(i.completed, {r}, taken), Consume(i, r)
    PROVE  CreditInv'
<1> DEFINE seq  == Item(r[1], r[2]).seq
           more == [i EXCEPT !.next = IF config.ordered THEN seq + 1 ELSE @,
                             !.partial = Append(@, r)]
<1>1. ~Overfull({r})
  <2>1. Taken(taken) /\ {r} \in SUBSET (it.completed \cup taken)
    BY DEF Takes, Taken, Received, Moves
  <2> QED BY <2>1, Refund
<1>2. Form(more) /\ more.completed = i.completed
  BY DEF Form
<1> HIDE DEF more
<1>3. Accounts(pool)
  BY DEF Accounts
<1>4. \/ Close(i, pool, {r}, Answer("protocol"), FALSE)
      \/ FinishBatch(more, {r})
      \/ /\ it' = more /\ credits' = Returned({r})
         /\ UNCHANGED <<call, pool, shutdown, quiet>>
  BY <1>1 DEF Consume, more
<1>5. CASE Close(i, pool, {r}, Answer("protocol"), FALSE)
  BY <1>3, <1>5, CloseKeeps DEF Moves
<1>6. CASE FinishBatch(more, {r})
  BY <1>2, <1>6, FinishKeeps
<1>7. CASE /\ it' = more /\ credits' = Returned({r})
           /\ UNCHANGED <<call, pool, shutdown, quiet>>
  <2>1. PhaseInv'
    BY <1>2, <1>7 DEF PhaseInv, Form
  <2>2. Moves(it'.completed, {r}, taken) /\ Accounts(pool') /\ nextGen' \in Nat
    BY <1>2, <1>3, <1>7 DEF CreditInv
  <2> QED BY <1>7, <2>1, <2>2, CoordinatorKeeps
<1> QED BY <1>4, <1>5, <1>6, <1>7
\* Nothing moves: the account is as it was.
LEMMA StillKeeps ==
    ASSUME CreditInv, Live, UNCHANGED <<config, worker, controls, shutdown, results, credits, pool>>,
           nextGen' \in Nat, it'.completed = it.completed, PhaseInv'
    PROVE  CreditInv'
<1>1. Takes({}) /\ Moves(it'.completed, {}, {}) /\ Accounts(pool') /\ credits' = Returned({})
  BY NoRefund DEF Takes, Moves, Accounts
<1> QED BY <1>1, CoordinatorKeeps

\* What is known of the iterator in next(), and when the pool is between generations.
LEMMA PhaseFacts ==
    ASSUME CreditInv, Live
    PROVE  /\ nextGen \in Nat
           /\ call \in {"loader", "user", "next", "quiesce"}
           /\ {"open", "completed"} \subseteq DOMAIN it /\ it.open \in BOOLEAN
           /\ call = "next" => Form(it)
           /\ call = "user" => {"exhausted", "fault"} \subseteq DOMAIN it
           /\ call = "user" /\ it.open => Form(it)
           /\ call \in {"loader", "quiesce"} => ~it.open
           /\ ~it.open => it.completed = {} /\ (call = "quiesce" \/ AllQuiet)
BY DEF CreditInv, LiveInv, PhaseInv, Form

\* iter() without a generation to begin.
LEMMA IterRefusedKeeps == ASSUME CreditInv, Live, IterRefused PROVE CreditInv'
<1>1. /\ call = "loader" /\ call' = "user" /\ it' = Iterator(nextGen, FALSE, TRUE)
      /\ UNCHANGED <<config, worker, controls, shutdown, results, credits, pool>>
      /\ nextGen' \in Nat
  BY PhaseFacts DEF IterRefused
<1>2. /\ {"open", "completed", "exhausted", "fault"} \subseteq DOMAIN it'
      /\ it'.open = FALSE /\ it'.completed = {} /\ it'.fault = TRUE
  BY <1>1 DEF Iterator
<1>3. AllQuiet' /\ it.completed = {}
  <2>1. AllQuiet /\ it.completed = {} BY <1>1, PhaseFacts
  <2> QED BY <1>1, <2>1 DEF AllQuiet, Workers
<1>4. PhaseInv'
  BY <1>1, <1>2, <1>3 DEF PhaseInv
<1> QED BY <1>1, <1>2, <1>3, <1>4, StillKeeps

\* iter(): every worker of the generation has its credits, whether the threads
\* are new or have gone through a generation before.
LEMMA IterKeeps == ASSUME CreditInv, Iter PROVE CreditInv'
<1>1. /\ call = "loader" /\ call' = "user" /\ it' = Iterator(nextGen, TRUE, FALSE)
      /\ nextGen \in Nat /\ nextGen' = nextGen + 1 /\ controls' = [w \in Workers |-> <<nextGen>>]
      /\ pool' = NoPool /\ results' = <<>> /\ shutdown' = FALSE /\ config' = config
  BY DEF Iter, CreditInv
<1>2. /\ worker' \in [Workers -> Thread] /\ credits' \in [Workers -> Nat]
      /\ \A w \in Workers : /\ worker'[w].pc \in {"start", "idle"} /\ worker'[w].held = FALSE
                            /\ credits'[w] = config.prefetch
  <2>1. CASE worker = <<>>
    <3> DEFINE fresh == [Asleep EXCEPT !.pc = "start", !.gen = nextGen]
    <3>0. Asleep \in Thread /\ Asleep.held = FALSE
      BY DEF Asleep, Thread, WorkerStates, Unsequenced
    <3>1. /\ worker' = [w \in Workers |-> fresh]
          /\ credits' = [w \in Workers |-> config.prefetch]
      BY <2>1 DEF Iter
    <3>2. fresh \in Thread /\ fresh.pc = "start" /\ fresh.held = FALSE
      BY <1>1, <3>0 DEF Thread, WorkerStates
    <3> HIDE DEF fresh
    <3>3. worker' \in [Workers -> Thread] /\ \A w \in Workers : worker'[w] = fresh
      BY <3>1, <3>2
    <3>4. credits' \in [Workers -> Nat] /\ \A w \in Workers : credits'[w] = config.prefetch
      BY <3>1, ConfigFacts
    <3> QED BY <3>2, <3>3, <3>4
  <2>2. CASE worker # <<>>
    <3>1. Live BY <1>1, <2>2 DEF Live, CreditInv
    <3>2. UNCHANGED <<worker, credits>> BY <2>2 DEF Iter
    <3>3. AllQuiet /\ it.completed = {} BY <1>1, <3>1, PhaseFacts
    <3>4. PoolTypes /\ HandInv /\ AccountInv BY <3>1 DEF CreditInv, LiveInv
    <3>5. ASSUME NEW w \in Workers
          PROVE  worker[w].pc = "idle" /\ worker[w].held = FALSE /\ credits[w] = config.prefetch
      <4>1. worker[w].pc = "idle" /\ worker[w].held = FALSE
        <5>1. worker[w] \in Thread BY <3>4 DEF PoolTypes
        <5> QED BY <3>3, <3>4, <5>1 DEF AllQuiet, HandInv, Thread
      <4>2. Buffered(w) = 0 /\ InChannel(w) = 0 /\ InHand(w) = 0
        BY <3>3, <3>4, <4>1, RecordCounts, ChannelCounts, FS_EmptySet
           DEF Buffered, InChannel, InHand, AllQuiet, PoolTypes
      <4>3. credits[w] \in Nat /\ credits[w] + InHand(w) + InChannel(w) + Buffered(w) = config.prefetch
        BY <3>4 DEF PoolTypes, AccountInv
      <4> QED BY <4>1, <4>2, <4>3
    <3> QED BY <3>2, <3>4, <3>5 DEF PoolTypes
  <2> QED BY <2>1, <2>2
<1>3. /\ {"open", "completed", "exhausted", "fault"} \subseteq DOMAIN it'
      /\ it'.open = TRUE /\ it'.completed = {}
  BY <1>1 DEF Iterator
<1>4. Workers' = Workers /\ \A w \in Workers : controls'[w] = <<nextGen>> /\ Len(controls'[w]) = 1
  BY <1>1 DEF Workers
<1>5. PoolTypes'
  <2>1. results' \in Seq(Message)' BY <1>1
  <2>2. controls' \in [Workers -> Seq(Nat)] BY <1>1
  <2>3. pool' \in [poisoned : BOOLEAN, terminal : SUBSET Workers, fatal : BOOLEAN]
    BY <1>1 DEF NoPool
  <2> QED BY <1>2, <1>3, <1>4, <2>1, <2>2, <2>3, FS_EmptySet DEF PoolTypes
<1>6. HandInv'
  BY <1>1, <1>2, <1>4 DEF HandInv, Announced
<1>7. ReadsInv' /\ ControlInv'
  <2>1. InFlight' = {} BY <1>1 DEF InFlight
  <2>2. ReadsInv' BY <1>2, <1>3, <1>4, <2>1 DEF ReadsInv, Announced
  <2>3. ControlInv'
    <3>1. \A w \in Workers : Len(controls'[w]) <= 1
      <4>1. Len(<<nextGen>>) <= 1 OBVIOUS
      <4> QED BY <1>4, <4>1
    <3>2. \A w \in Workers : worker'[w].pc \in {"start", "idle", "dying", "fatal"}
      BY <1>2
    <3> QED BY <1>3, <1>4, <2>1, <3>1, <3>2 DEF ControlInv
  <2> QED BY <2>2, <2>3
<1>8. EndInv'
  BY <1>1 DEF EndInv, NoPool
<1>9. PhaseInv'
  BY <1>1, <1>3 DEF PhaseInv
<1>10. AccountInv'
  <2> SUFFICES ASSUME NEW w \in Workers
               PROVE  credits'[w] + InHand(w)' + InChannel(w)' + Buffered(w)' = config.prefetch
    BY <1>1, <1>4 DEF AccountInv
  <2>1. Cardinality(RecordsOf({}, w)) = 0 /\ Cardinality(Carried(<<>>, w)) = 0
    <3>1. <<>> \in Seq(Message) OBVIOUS
    <3> QED BY <3>1, RecordCounts, ChannelCounts, FS_EmptySet
  <2>2. Buffered(w)' = 0 /\ InChannel(w)' = 0 /\ InHand(w)' = 0
    BY <1>1, <1>2, <1>3, <2>1 DEF Buffered, InChannel, InHand
  <2> QED BY <1>2, <2>2, ConfigFacts
<1>11. LiveInv'
  BY <1>5, <1>6, <1>7, <1>8, <1>9, <1>10 DEF LiveInv
<1>12. /\ config' \in Configs /\ Valid(config)' /\ nextGen' \in Nat
       /\ ~shutdown'
  <2>1. nextGen' \in Nat BY <1>1
  <2>2. config' \in Configs /\ Valid(config)'
    BY <1>1 DEF CreditInv, Valid
  <2> QED BY <1>1, <2>1, <2>2
<1> QED
  BY <1>11, <1>12 DEF CreditInv

\* The drop of an iterator.
LEMMA DropIteratorKeeps == ASSUME CreditInv, Live, DropIterator PROVE CreditInv'
<1>1. /\ call = "user" /\ it' = NoIterator
      /\ UNCHANGED <<config, nextGen, controls, results, worker>> /\ nextGen' \in Nat
  BY PhaseFacts DEF DropIterator
<1>2. /\ {"open", "completed"} \subseteq DOMAIN it' /\ it'.open = FALSE /\ it'.completed = {}
  BY <1>1 DEF NoIterator
<1>3. CASE it.open
  <2>1. Leave(pool, it.completed, FALSE, "loader") BY <1>3 DEF DropIterator
  <2>2. /\ credits' = Returned(it.completed) /\ pool' = pool
        /\ \/ call' = "join" /\ shutdown' = TRUE
           \/ call' = "quiesce" /\ shutdown' = shutdown /\ quiet'.then = "loader"
    BY <2>1, LeaveLeaves
  <2>3. CASE call' = "join" /\ shutdown' = TRUE
    BY <1>1, <2>3, StoppedKeeps
  <2>4. CASE call' = "quiesce" /\ shutdown' = shutdown /\ quiet'.then = "loader"
    <3>1. PhaseInv' BY <1>2, <2>4 DEF PhaseInv
    <3>2. Takes({}) /\ Moves(it'.completed, it.completed, {}) /\ Accounts(pool')
      BY <1>1, <1>2, <2>2 DEF Takes, Moves, Accounts
    <3> QED BY <1>1, <2>2, <2>4, <3>1, <3>2, CoordinatorKeeps
  <2> QED BY <2>2, <2>3, <2>4
<1>4. CASE ~it.open
  <2>1. call' = "loader" /\ UNCHANGED <<shutdown, credits, pool, quiet>>
    BY <1>4 DEF DropIterator
  <2>2. AllQuiet /\ it.completed = {} BY <1>1, <1>4, PhaseFacts
  <2>3. AllQuiet' BY <1>1, <2>2 DEF AllQuiet, Workers
  <2>4. PhaseInv' BY <1>2, <2>1, <2>3 DEF PhaseInv
  <2> QED BY <1>1, <1>2, <2>1, <2>2, <2>4, StillKeeps
<1> QED BY <1>3, <1>4

\* The drop of the loader stops the pool.
LEMMA DropLoaderKeeps == ASSUME CreditInv, Live, DropLoader PROVE CreditInv'
<1>1. call' = "join" /\ shutdown' = TRUE /\ config' = config /\ nextGen' \in Nat
  BY DEF DropLoader, Joining, Live, CreditInv
<1> QED BY <1>1, StoppedKeeps

\* quiesce(): a completion's credit goes back, and last completions are counted.
LEMMA QuiesceReceivesKeeps == ASSUME CreditInv, Live, QuiesceReceives PROVE CreditInv'
<1> DEFINE m == Head(results)
           credit == CreditOf(m)
<1>1. /\ call = "quiesce" /\ Received /\ credits' = Returned(credit)
      /\ UNCHANGED <<config, nextGen, it, controls, worker>> /\ nextGen' \in Nat
  BY PhaseFacts DEF QuiesceReceives, Received
<1>2. it.completed = {} /\ ~it.open
  BY <1>1, PhaseFacts
<1>3. Takes(credit)
  BY <1>1 DEF Takes
<1>4. ~Overfull(credit)
  <2>1. Taken(credit) BY <1>1 DEF Taken, Received
  <2> QED BY <2>1, Refund
<1>5. /\ pool' = pool \/ pool' = Accounted(pool, m.worker, Terminal(m), m.kind = "fatal")
      /\ UNCHANGED <<call, shutdown, quiet>>
  BY <1>4 DEF QuiesceReceives
<1>6. Accounts(pool')
  BY <1>1, <1>5 DEF Accounts
<1> HIDE DEF credit, m
<1>7. Moves(it'.completed, credit, credit)
  BY <1>1, <1>2 DEF Moves
<1>8. PhaseInv'
  <2>1. PhaseInv BY DEF CreditInv, LiveInv
  <2> QED BY <1>1, <1>2, <1>5, <2>1 DEF PhaseInv
<1> QED
  BY <1>1, <1>3, <1>5, <1>6, <1>7, <1>8, CoordinatorKeeps

\* quiesce() is over when every worker has sent its last: nothing is under way.
LEMMA QuiesceEndsKeeps == ASSUME CreditInv, Live, QuiesceEnds PROVE CreditInv'
<1>1. /\ call = "quiesce" /\ AllTerminal /\ results = <<>>
      /\ UNCHANGED <<config, nextGen, it, pool, credits, controls, results, worker>>
      /\ nextGen' \in Nat
  BY PhaseFacts DEF QuiesceEnds
<1>2. CASE pool.fatal \/ quiet.poison
  <2>1. call' = "join" /\ shutdown' = TRUE
    BY <1>2 DEF QuiesceEnds, Joining
  <2> QED BY <1>1, <2>1, StoppedKeeps
<1>3. CASE ~(pool.fatal \/ quiet.poison)
  <2>1. call' = quiet.then /\ UNCHANGED <<shutdown, quiet>>
    BY <1>3 DEF QuiesceEnds
  <2>2. EndInv /\ PhaseInv BY DEF CreditInv, LiveInv
  <2>3. AllQuiet'
    <3>1. \A w \in Workers : worker[w].pc = "idle" /\ controls[w] = <<>>
      BY <1>1, <1>3, <2>2 DEF EndInv, AllTerminal, Over
    <3> QED BY <1>1, <3>1 DEF AllQuiet, Workers
  <2>4. it.completed = {} /\ ~it.open BY <1>1, PhaseFacts
  <2>5. PhaseInv'
    BY <1>1, <2>1, <2>2, <2>3, <2>4 DEF PhaseInv
  <2> QED BY <1>1, <2>1, <2>5, StillKeeps
<1> QED BY <1>2, <1>3

\* The join leaves no threads.
LEMMA JoinEndsKeeps == ASSUME CreditInv, JoinEnds PROVE CreditInv'
<1>1. worker' = <<>> /\ config' = config /\ nextGen' \in Nat
  BY DEF JoinEnds, CreditInv
<1> QED BY <1>1, StoppedKeeps
-----------------------------------------------------------------------------
\* next()

\* next() on an iterator that receives nothing more.
LEMMA NextAtOnceKeeps == ASSUME CreditInv, Live, NextAtOnce PROVE CreditInv'
<1>1. /\ call = "user" /\ UNCHANGED <<config, nextGen, controls, results, worker>>
      /\ nextGen' \in Nat
  BY PhaseFacts DEF NextAtOnce
<1>2. \/ UNCHANGED <<call, it, pool, credits, shutdown, quiet>>
      \/ \E answer : Close(it, pool, {}, answer, FALSE)
  BY DEF NextAtOnce
<1>3. CASE UNCHANGED <<call, it, pool, credits, shutdown, quiet>>
  <2>1. PhaseInv' /\ it'.completed = it.completed
    <3>1. PhaseInv /\ (AllQuiet => AllQuiet')
      BY <1>1, <1>3 DEF CreditInv, LiveInv, AllQuiet, Workers
    <3> QED BY <1>3, <3>1 DEF PhaseInv
  <2> QED BY <1>1, <1>3, <2>1, StillKeeps
<1>4. ASSUME NEW answer, Close(it, pool, {}, answer, FALSE) PROVE CreditInv'
  <2>1. CASE it.open
    <3>1. Takes({}) /\ Accounts(pool) /\ Form(it) /\ it.completed \cup {} = it.completed \cup {}
      BY <1>1, <2>1, PhaseFacts DEF Takes, Accounts
    <3> QED BY <1>1, <1>4, <3>1, CloseKeeps
  <2>2. CASE ~it.open
    <3>1. it' = Closed(it) /\ UNCHANGED <<call, shutdown, credits, pool, quiet>>
      BY <1>4, <2>2 DEF Close
    <3>2. /\ {"open", "completed", "exhausted", "fault"} \subseteq DOMAIN it
          /\ it.completed = {} /\ AllQuiet
      BY <1>1, <2>2, PhaseFacts
    <3>3. /\ {"open", "completed", "exhausted", "fault"} \subseteq DOMAIN it'
          /\ it'.open = FALSE /\ it'.completed = {} /\ it'.exhausted = TRUE
      BY <3>1, <3>2 DEF Closed
    <3>4. AllQuiet' BY <1>1, <3>2 DEF AllQuiet, Workers
    <3>5. PhaseInv' BY <1>1, <3>1, <3>3, <3>4 DEF PhaseInv
    <3> QED BY <1>1, <3>1, <3>2, <3>3, <3>5, StillKeeps
  <2> QED BY <2>1, <2>2
<1> QED BY <1>2, <1>3, <1>4

\* next() begins on an iterator that is open.
LEMMA NextBeginsKeeps == ASSUME CreditInv, Live, NextBegins PROVE CreditInv'
<1>1. /\ call = "user" /\ ~it.exhausted /\ ~it.fault /\ call' = "next" /\ nextGen' \in Nat
      /\ UNCHANGED <<config, it, pool, credits, controls, results, worker, shutdown>>
  BY PhaseFacts DEF NextBegins
<1>2. PhaseInv'
  <2>1. PhaseInv BY DEF CreditInv, LiveInv
  <2> QED BY <1>1, <2>1 DEF PhaseInv
<1> QED BY <1>1, <1>2, StillKeeps

\* The deadline is no one's credit.
LEMMA DeadlineKeeps == ASSUME CreditInv, Live, NextArms \/ Expire PROVE CreditInv'
<1>1. /\ UNCHANGED <<config, call, nextGen, pool, credits, controls, results, worker, shutdown, quiet>>
      /\ it' = it \/ it' = [it EXCEPT !.interrupted = TRUE]
      /\ nextGen' \in Nat
  BY PhaseFacts DEF NextArms, Expire
<1>2. /\ {"open", "completed"} \subseteq DOMAIN it'
      /\ it'.open = it.open /\ it'.completed = it.completed
      /\ {"exhausted", "fault"} \subseteq DOMAIN it =>
           /\ {"exhausted", "fault"} \subseteq DOMAIN it'
           /\ it'.exhausted = it.exhausted /\ it'.fault = it.fault
  BY <1>1, PhaseFacts
<1>3. PhaseInv'
  <2>1. PhaseInv /\ (AllQuiet => AllQuiet')
    BY <1>1 DEF CreditInv, LiveInv, AllQuiet, Workers
  <2> QED BY <1>1, <1>2, <2>1 DEF PhaseInv
<1> QED BY <1>1, <1>2, <1>3, StillKeeps

\* The closings of next() that have received nothing (a gap, the end, a timeout,
\* a cancellation), and the batch at the end.
LEMMA NextClosesKeeps ==
    ASSUME CreditInv, Live, NextGap \/ NextEnds \/ NextTimesOut \/ NextCancelled
    PROVE  CreditInv'
<1>1. call = "next" /\ UNCHANGED <<config, nextGen, controls, results, worker>>
  BY DEF NextGap, NextEnds, NextTimesOut, NextCancelled, Stalled, Receives, Waiting
<1>2. /\ Form(it) /\ Takes({}) /\ Accounts(pool)
      /\ it.completed \cup {} = it.completed \cup {}
  BY <1>1, PhaseFacts DEF Takes, Accounts
<1> DEFINE done == [it EXCEPT !.complete = TRUE]
<1>3. Form(done) /\ done.completed = it.completed
  BY <1>2 DEF Form
<1> HIDE DEF done
<1>4. \/ \E answer : Close(it, pool, {}, answer, FALSE)
      \/ \E answer : Close(done, pool, {}, answer, FALSE)
      \/ FinishBatch(done, {})
  BY DEF NextGap, NextEnds, NextTimesOut, NextCancelled, done
<1>5. ASSUME NEW answer, Close(it, pool, {}, answer, FALSE) PROVE CreditInv'
  BY <1>1, <1>2, <1>5, CloseKeeps
<1>6. ASSUME NEW answer, Close(done, pool, {}, answer, FALSE) PROVE CreditInv'
  BY <1>1, <1>2, <1>3, <1>6, CloseKeeps
<1>7. CASE FinishBatch(done, {})
  <2>1. Moves(done.completed, {}, {})
    BY <1>3 DEF Moves
  <2> QED BY <1>1, <1>2, <1>3, <1>7, <2>1, FinishKeeps
<1> QED BY <1>4, <1>5, <1>6, <1>7

\* The buffered record whose turn it is.
LEMMA NextTakesKeeps == ASSUME CreditInv, Live, NextTakes PROVE CreditInv'
<1>1. call = "next" /\ UNCHANGED <<config, nextGen, controls, results, worker>>
  BY DEF NextTakes
<1>2. PICK r \in it.completed : Consume([it EXCEPT !.completed = @ \ {r}], r)
  BY DEF NextTakes, InTurn
<1> DEFINE i == [it EXCEPT !.completed = @ \ {r}]
<1>3. Form(it)
  BY <1>1, PhaseFacts
<1>4. Form(i) /\ i.completed = it.completed \ {r}
  BY <1>3 DEF Form
<1> HIDE DEF i
<1>5. Takes({}) /\ Moves(i.completed, {r}, {})
  BY <1>1, <1>4 DEF Takes, Moves
<1>6. Consume(i, r)
  BY <1>2 DEF i
<1> QED BY <1>1, <1>4, <1>5, <1>6, ConsumeKeeps

\* One completion is received: it is kept, consumed, or ends the generation.
LEMMA NextReceivesKeeps == ASSUME CreditInv, Live, NextReceives PROVE CreditInv'
<1> DEFINE m      == Head(results)
           r      == <<m.worker, m.read>>
           credit == CreditOf(m)
           heard  == [it EXCEPT !.waiters[m.worker] = Unsequenced]
           calm   == UNCHANGED <<call, shutdown, quiet>>
           marked == [it EXCEPT !.waiters[m.worker] = SeqNo(r)]
           kept   == [heard EXCEPT !.completed = @ \cup {r}]
<1>1. /\ call = "next" /\ Received /\ UNCHANGED <<config, nextGen, controls, worker>>
      /\ nextGen' \in Nat
  BY PhaseFacts DEF NextReceives, Receives, Waiting, Stalled, Received
<1>2. Form(it) /\ Takes(credit)
  BY <1>1, PhaseFacts DEF Takes
<1>3. Form(heard) /\ heard.completed = it.completed
  BY <1>2 DEF Form
<1>4. ~Overfull(credit)
  <2>1. Taken(credit) BY <1>1 DEF Taken, Received
  <2> QED BY <2>1, Refund
<1>5. Form(marked) /\ marked.completed = it.completed
  BY <1>2 DEF Form
<1>6. Form(kept) /\ kept.completed = it.completed \cup {r}
  <2> HIDE DEF heard, r
  <2> QED BY <1>3 DEF Form
<1>7. /\ m.kind = "record" => credit = {r}
      /\ m.kind = "waiting" => credit = {}
  <2>1. m = results[1] /\ 1 \in DOMAIN results
    <3>1. results \in Seq(Message) BY DEF CreditInv, LiveInv, PoolTypes
    <3> QED BY <1>1, <3>1, TailOf DEF Received
  <2>2. HandInv BY DEF CreditInv, LiveInv
  <2> QED BY <2>1, <2>2 DEF HandInv, CreditOf
<1>8. /\ credit \cap it.completed = {} /\ Accounts(pool)
      /\ Accounts(Accounted(pool, m.worker, Terminal(m), m.kind = "fatal"))
  BY <1>1, NextCredit DEF Accounts, Received
<1>9. \/ credits' = Returned(credit) /\ UNCHANGED <<it, pool>> /\ calm
      \/ Close(heard, Accounted(pool, m.worker, Terminal(m), m.kind = "fatal"),
               credit, Answer("failure"), m.kind = "fatal")
      \/ /\ m.kind = "end" /\ pool' = Accounted(pool, m.worker, TRUE, FALSE)
         /\ it' = heard /\ credits' = Returned(credit) /\ calm
      \/ m.kind = "waiting" /\ it' = marked /\ UNCHANGED <<pool, credits>> /\ calm
      \/ m.kind = "record" /\ Consume(heard, r)
      \/ m.kind = "record" /\ Close(heard, pool, {r}, Answer("protocol"), FALSE)
      \/ m.kind = "record" /\ it' = kept /\ UNCHANGED <<pool, credits>> /\ calm
  <2>1. m.kind \in MessageKinds
    BY <1>1, NextCredit DEF Received, Message
  <2>2. CASE m.gen # it.gen
    BY <1>4, <2>1, <2>2 DEF NextReceives
  <2>3. CASE m.gen = it.gen /\ m.kind \in {"failure", "fatal"}
    BY <1>4, <2>1, <2>3 DEF NextReceives
  <2>4. CASE m.gen = it.gen /\ m.kind = "end"
    BY <1>4, <2>1, <2>4 DEF NextReceives
  <2>5. CASE m.gen = it.gen /\ m.kind = "waiting"
    BY <1>4, <2>1, <2>5 DEF NextReceives
  <2>6. CASE m.gen = it.gen /\ m.kind = "record"
    BY <1>4, <2>1, <2>6 DEF NextReceives
  <2> QED BY <2>1, <2>2, <2>3, <2>4, <2>5, <2>6 DEF MessageKinds
<1> HIDE DEF m, r, credit, heard, marked, kept
<1>10. CASE credits' = Returned(credit) /\ UNCHANGED <<it, pool>> /\ calm
  <2>1. Moves(it'.completed, credit, credit) /\ Accounts(pool')
    BY <1>8, <1>10 DEF Moves
  <2>2. PhaseInv'
    BY <1>1, <1>2, <1>10 DEF PhaseInv, Form
  <2> QED BY <1>1, <1>2, <1>10, <2>1, <2>2, CoordinatorKeeps
<1>11. CASE Close(heard, Accounted(pool, m.worker, Terminal(m), m.kind = "fatal"),
                  credit, Answer("failure"), m.kind = "fatal")
  BY <1>1, <1>2, <1>3, <1>8, <1>11, CloseKeeps
<1>12. CASE /\ m.kind = "end" /\ pool' = Accounted(pool, m.worker, TRUE, FALSE)
            /\ it' = heard /\ credits' = Returned(credit) /\ calm
  <2>1. Terminal(m) = TRUE /\ (m.kind = "fatal") = FALSE
    BY <1>12 DEF Terminal
  <2>2. Moves(it'.completed, credit, credit) /\ Accounts(pool')
    BY <1>3, <1>8, <1>12, <2>1 DEF Moves
  <2>3. PhaseInv'
    BY <1>1, <1>3, <1>12 DEF PhaseInv, Form
  <2> QED BY <1>1, <1>2, <1>12, <2>2, <2>3, CoordinatorKeeps
<1>13. CASE m.kind = "waiting" /\ it' = marked /\ UNCHANGED <<pool, credits>> /\ calm
  <2>1. credits' = Returned({}) BY <1>13, NoRefund
  <2>2. Moves(it'.completed, {}, credit) /\ Accounts(pool')
    BY <1>5, <1>7, <1>8, <1>13 DEF Moves
  <2>3. PhaseInv'
    BY <1>1, <1>5, <1>13 DEF PhaseInv, Form
  <2> QED BY <1>1, <1>2, <1>13, <2>1, <2>2, <2>3, CoordinatorKeeps
<1>14. CASE m.kind = "record" /\ Consume(heard, r)
  <2>1. Moves(heard.completed, {r}, credit)
    BY <1>3, <1>7, <1>8, <1>14 DEF Moves
  <2> QED BY <1>1, <1>2, <1>3, <1>14, <2>1, ConsumeKeeps
<1>15. CASE m.kind = "record" /\ Close(heard, pool, {r}, Answer("protocol"), FALSE)
  BY <1>1, <1>2, <1>3, <1>7, <1>8, <1>15, CloseKeeps
<1>16. CASE m.kind = "record" /\ it' = kept /\ UNCHANGED <<pool, credits>> /\ calm
  <2>1. credits' = Returned({}) BY <1>16, NoRefund
  <2>2. Moves(it'.completed, {}, credit) /\ Accounts(pool')
    BY <1>6, <1>7, <1>8, <1>16 DEF Moves, m
  <2>3. PhaseInv'
    BY <1>1, <1>6, <1>16 DEF PhaseInv, Form
  <2> QED BY <1>1, <1>2, <1>16, <2>1, <2>2, <2>3, CoordinatorKeeps
<1> QED
  BY <1>9, <1>10, <1>11, <1>12, <1>13, <1>14, <1>15, <1>16
-----------------------------------------------------------------------------
\* The worker threads

\* A thread's record of its shard, and the credit in its hand
SentBy(t) == IF t.pc \in Announced THEN t.read - 1 ELSE t.read
HandOf(t) == IF t.held THEN 1 ELSE 0

\* What a step of a worker may do to the iterator
SameIterator == it' = it \/ it' = [it EXCEPT !.interrupted = TRUE]

\* A worker that moves is in a generation that is not over.
LEMMA WorkerPhase ==
    ASSUME CreditInv, Live, NEW w \in Workers, ~Over(w), SameIterator,
           UNCHANGED <<config, call, shutdown, quiet>>
    PROVE  PhaseInv' /\ it'.completed = it.completed
<1>1. ~AllQuiet
  BY DEF AllQuiet, Over
<1>2. /\ {"open", "completed"} \subseteq DOMAIN it'
      /\ it'.open = it.open /\ it'.completed = it.completed
      /\ {"exhausted", "fault"} \subseteq DOMAIN it =>
           /\ {"exhausted", "fault"} \subseteq DOMAIN it'
           /\ it'.exhausted = it.exhausted /\ it'.fault = it.fault
  BY PhaseFacts DEF SameIterator
<1>3. PhaseInv BY DEF CreditInv, LiveInv
<1> QED BY <1>1, <1>2, <1>3 DEF PhaseInv

\* A worker's new state fits what it holds.
Fits(w, t) ==
  /\ t \in Thread
  /\ t.pc \in {"read"} \cup Announced => t.held
  /\ t.pc \in {"start", "idle", "create", "credit", "failed", "fatal"} => ~t.held
  /\ t.pc \in Announced => t.read >= 1

\* A step that sends nothing: a credit may come into its hand from its channel,
\* and a generation from its controls.
LEMMA LocalKeeps ==
    ASSUME CreditInv, Live, NEW w \in Workers, ~Over(w), SameIterator,
           UNCHANGED <<config, call, nextGen, pool, shutdown, quiet, results>>,
           NEW t, Fits(w, t), worker' = [worker EXCEPT ![w] = t], t.pc # "fatal",
           SentBy(t) >= SentBy(worker[w]) \/ controls[w] # <<>>,
           credits' \in [Workers -> Nat],
           \A v \in Workers \ {w} : credits'[v] = credits[v],
           credits'[w] + HandOf(t) = credits[w] + HandOf(worker[w]),
           controls' \in [Workers -> Seq(Nat)],
           \A v \in Workers \ {w} : controls'[v] = controls[v],
           controls'[w] # <<>> => /\ controls'[w] = controls[w]
                                  /\ t.pc \in {"start", "idle", "dying", "fatal"}
    PROVE  CreditInv'
<1>1. PoolTypes /\ HandInv /\ ReadsInv /\ ControlInv /\ EndInv /\ AccountInv
  BY DEF CreditInv, LiveInv
<1>2. PhaseInv' /\ it'.completed = it.completed
  BY WorkerPhase
<1>3. Workers' = Workers /\ Message' = Message BY DEF Workers, Message
<1>4. worker' \in [Workers -> Thread] /\ worker'[w] = t /\ \A v \in Workers \ {w} : worker'[v] = worker[v]
  BY <1>1 DEF PoolTypes, Fits
<1>5. PoolTypes'
  BY <1>1, <1>2, <1>3, <1>4 DEF PoolTypes
<1>6. HandInv'
  BY <1>1, <1>3, <1>4 DEF HandInv, Fits
<1>7. \A k \in DOMAIN results : results[k] \in Message
  BY <1>1 DEF PoolTypes
<1>8. ReadsInv'
  <2>1. InFlight' = InFlight BY DEF InFlight
  <2>2. \A v \in Workers : worker'[v].pc \in Announced => worker'[v].read >= 1
    BY <1>1, <1>4 DEF ReadsInv, Fits
  <2>3. \A v \in Workers : Sent(v)' = SentBy(worker'[v]) /\ Sent(v) = SentBy(worker[v])
    BY DEF Sent, SentBy
  <2>4. ASSUME NEW v \in Workers, NEW n \in 1 .. Sent(v), controls[v] = <<>>
        PROVE  n \in 1 .. Sent(v)'
    <3>1. CASE v # w BY <1>4, <2>3, <2>4, <3>1
    <3>2. CASE v = w
      <4>1. /\ SentBy(t) >= SentBy(worker[w]) /\ SentBy(t) \in Int /\ SentBy(worker[w]) \in Int
        BY <1>1, <2>4, <3>2 DEF PoolTypes, Thread, SentBy, Fits
      <4> QED BY <1>4, <2>3, <2>4, <3>2, <4>1
    <3> QED BY <3>1, <3>2
  <2>5. \A k \in InFlight : results[k].worker \in Workers /\ controls[results[k].worker] = <<>>
    BY <1>1, <1>7 DEF InFlight, Message, ControlInv
  <2>6. \A r \in it.completed : r[1] \in Workers /\ controls[r[1]] = <<>>
    BY <1>1 DEF PoolTypes, ControlInv
  <2>7. \A k \in InFlight : results[k].read \in 1 .. Sent(results[k].worker)'
    BY <1>1, <2>4, <2>5 DEF ReadsInv
  <2>8. \A r \in it.completed : r[2] \in 1 .. Sent(r[1])'
    BY <1>1, <2>4, <2>6 DEF ReadsInv
  <2>9. /\ \A k \in InFlight : RecordOf(results[k]) \notin it.completed
        /\ \A j, k \in InFlight : RecordOf(results[j]) = RecordOf(results[k]) => j = k
    BY <1>1 DEF ReadsInv
  <2> QED BY <1>2, <1>3, <2>1, <2>2, <2>7, <2>8, <2>9 DEF ReadsInv
<1>9. ControlInv'
  <2>1. InFlight' = InFlight BY DEF InFlight
  <2> SUFFICES ASSUME NEW v \in Workers
               PROVE  /\ Len(controls'[v]) <= 1
                      /\ controls'[v] # <<>> =>
                           /\ worker'[v].pc \in {"start", "idle", "dying", "fatal"}
                           /\ \A k \in InFlight : results[k].worker # v
                           /\ \A r \in it.completed : r[1] # v
    BY <1>2, <1>3, <2>1 DEF ControlInv
  <2>2. controls'[v] = controls[v] \/ controls'[v] = <<>>
    OBVIOUS
  <2>3. controls'[v] # <<>> => worker'[v].pc \in {"start", "idle", "dying", "fatal"}
    BY <1>1, <1>4 DEF ControlInv
  <2> QED BY <1>1, <2>2, <2>3 DEF ControlInv
<1>10. EndInv'
  <2>1. \A v \in Workers : Over(v) => v # w /\ Over(v)' /\ worker'[v] = worker[v]
    BY <1>4 DEF Over
  <2>2. \A k \in DOMAIN results : Terminal(results[k]) =>
          /\ Over(results[k].worker)'
          /\ results[k].kind = "fatal" <=> worker'[results[k].worker].pc = "fatal"
          /\ \A j \in DOMAIN results : j > k => results[j].worker # results[k].worker
    BY <1>1, <1>7, <2>1 DEF EndInv, Message
  <2>3. \A v \in pool.terminal :
          /\ Over(v)'
          /\ worker'[v].pc = "fatal" => pool.fatal
          /\ \A k \in DOMAIN results : results[k].worker # v
    BY <1>1, <2>1 DEF EndInv, PoolTypes
  <2> QED BY <2>2, <2>3 DEF EndInv, Terminal
<1>11. AccountInv'
  <2> SUFFICES ASSUME NEW v \in Workers
               PROVE  credits'[v] + InHand(v)' + InChannel(v) + Buffered(v) = config.prefetch
    BY <1>2, <1>3 DEF AccountInv, InChannel, Buffered
  <2>1. credits[v] + InHand(v) + InChannel(v) + Buffered(v) = config.prefetch
    BY <1>1 DEF AccountInv
  <2>2. credits'[v] + InHand(v)' = credits[v] + InHand(v)
    BY <1>4 DEF InHand, HandOf
  <2>3. /\ credits[v] \in Nat /\ credits'[v] \in Nat
        /\ InHand(v) \in Nat /\ InHand(v)' \in Nat
        /\ InChannel(v) \in Nat /\ Buffered(v) \in Nat /\ config.prefetch \in Nat
    BY <1>1, RecordCounts, ChannelCounts, ConfigFacts, FS_EmptySet
       DEF PoolTypes, InHand, InChannel, Buffered
  <2> HIDE DEF InHand, InChannel, Buffered
  <2> QED BY ONLY <2>1, <2>2, <2>3
<1>12. /\ config' \in Configs /\ Valid(config)' /\ nextGen' \in Nat /\ ~shutdown'
  BY DEF CreditInv, Live, Valid
<1>13. LiveInv'
  BY <1>2, <1>5, <1>6, <1>8, <1>9, <1>10, <1>11 DEF LiveInv
<1> QED BY <1>12, <1>13 DEF CreditInv
\* A step that sends: the credit in hand goes with the completion, or stays with
\* the announcement of a waiter.
LEMMA SendKeeps ==
    ASSUME CreditInv, Live, NEW w \in Workers, NEW kind, NEW pc, Send(w, kind, pc),
           it' = it, UNCHANGED <<config, call, nextGen, pool, shutdown, quiet, credits, controls>>,
           \/ kind = "waiting" /\ worker[w].pc = "waiting" /\ pc = "budget"
           \/ kind = "record"  /\ worker[w].pc = "send"    /\ pc = "credit"
           \/ kind = "end"     /\ worker[w].pc = "end"     /\ pc = "idle"
           \/ kind = "failure" /\ worker[w].pc = "fail"    /\ pc = "failed"
           \/ kind = "fatal"   /\ worker[w].pc = "dying"   /\ pc = "fatal"
    PROVE  CreditInv'
<1> DEFINE h == GivesBack(kind) /\ worker[w].held
           m == [worker |-> w, gen |-> worker[w].gen, kind |-> kind, read |-> worker[w].read, holds |-> h]
           t == [worker[w] EXCEPT !.pc = pc, !.held = @ /\ ~GivesBack(kind)]
           n == Len(results) + 1
<1>1. PoolTypes /\ HandInv /\ ReadsInv /\ ControlInv /\ EndInv /\ AccountInv
  BY DEF CreditInv, LiveInv
<1>2. ~Over(w) /\ SameIterator
  BY DEF Over, SameIterator
<1>3. PhaseInv' /\ it'.completed = it.completed
  BY <1>2, WorkerPhase
<1>4. Workers' = Workers /\ Message' = Message BY DEF Workers, Message
<1>5. worker[w] \in Thread /\ h \in BOOLEAN /\ kind \in MessageKinds /\ pc \in WorkerStates
  BY <1>1 DEF PoolTypes, MessageKinds, WorkerStates
<1>6. m \in Message /\ t \in Thread
  BY <1>5 DEF Message, Thread
<1>7. /\ m.worker = w /\ m.kind = kind /\ m.read = worker[w].read /\ m.holds = h
      /\ t.pc = pc /\ t.read = worker[w].read /\ t.held = (worker[w].held /\ ~GivesBack(kind))
  BY <1>5 DEF Thread
<1>8. results' = Append(results, m) /\ worker' = [worker EXCEPT ![w] = t]
  <2>1. results' = Append(results, m)
    BY DEF Send
  <2>2. worker' = [worker EXCEPT ![w].pc = pc, ![w].held = @ /\ ~GivesBack(kind)]
    BY DEF Send
  <2>3. worker' \in [Workers -> Thread] /\ worker'[w] = t /\ \A v \in Workers \ {w} : worker'[v] = worker[v]
    BY <1>1, <1>6, <2>2 DEF PoolTypes
  <2> QED BY <1>1, <1>6, <2>1, <2>2, <2>3 DEF PoolTypes
<1>9. /\ kind # "waiting" => (h <=> worker[w].held) /\ ~t.held
      /\ kind = "waiting" => ~h /\ (t.held <=> worker[w].held)
      /\ kind \in {"waiting", "record"} => worker[w].held
  BY <1>1, <1>5, <1>7 DEF GivesBack, HandInv, Announced, Thread
<1> HIDE DEF h, m, t, n
<1>10. worker' \in [Workers -> Thread] /\ worker'[w] = t /\ \A v \in Workers \ {w} : worker'[v] = worker[v]
  BY <1>1, <1>6, <1>8 DEF PoolTypes
<1>11. /\ results' \in Seq(Message) /\ DOMAIN results' = DOMAIN results \cup {n}
       /\ n \notin DOMAIN results /\ results'[n] = m /\ n \in Nat
       /\ \A k \in DOMAIN results : results'[k] = results[k] /\ k \in Nat /\ k < n
                                      /\ results[k] \in Message
  BY <1>1, <1>6, <1>8, AppendOf DEF PoolTypes, n
<1>12. PoolTypes'
  BY <1>1, <1>3, <1>4, <1>10, <1>11 DEF PoolTypes
<1>13. HandInv'
  <2>1. \A k \in DOMAIN results' :
          /\ results'[k].kind = "record" => results'[k].holds
          /\ results'[k].kind = "waiting" => ~results'[k].holds
    BY <1>1, <1>7, <1>9, <1>11 DEF HandInv
  <2>2. /\ t.pc \in {"read"} \cup Announced => t.held
        /\ t.pc \in {"start", "idle", "create", "credit", "failed", "fatal"} => ~t.held
    BY <1>7, <1>9 DEF Announced
  <2> QED BY <1>1, <1>4, <1>10, <2>1, <2>2 DEF HandInv
<1>14. /\ InFlight' = IF kind = "record" THEN InFlight \cup {n} ELSE InFlight
       /\ n \notin InFlight
       /\ \A k \in InFlight : results'[k] = results[k] /\ results[k] \in Message
  BY <1>7, <1>11 DEF InFlight
<1>15. \A v \in Workers : Sent(v)' = IF v = w /\ kind = "record" THEN worker[w].read ELSE Sent(v)
  BY <1>7, <1>10 DEF Sent, Announced
<1>16. /\ kind = "record" => Sent(w) = worker[w].read - 1 /\ worker[w].read >= 1
       /\ worker[w].read \in Nat /\ \A v \in Workers : Sent(v) \in Int
  BY <1>1, <1>5 DEF Sent, ReadsInv, Announced, PoolTypes, Thread
<1>17. ReadsInv'
  <2>1. \A v \in Workers : worker'[v].pc \in Announced => worker'[v].read >= 1
    BY <1>1, <1>7, <1>10 DEF ReadsInv, Announced
  <2>2. \A v \in Workers : 1 .. Sent(v) \subseteq 1 .. Sent(v)'
    BY <1>15, <1>16
  <2>3. \A k \in InFlight : results[k].worker \in Workers
    BY <1>14 DEF Message
  <2>4. \A k \in InFlight : results'[k].read \in 1 .. Sent(results[k].worker)'
    <3> TAKE k \in InFlight
    <3>1. results'[k] = results[k] /\ results'[k].worker \in Workers
      BY <1>14, <2>3
    <3>2. results[k].read \in 1 .. Sent(results[k].worker)
      BY <1>1 DEF ReadsInv
    <3> QED BY <2>2, <3>1, <3>2
  <2>5. kind = "record" => m.read \in 1 .. Sent(w)'
    BY <1>7, <1>15, <1>16
  <2>6. \A r \in it.completed : r[2] \in 1 .. Sent(r[1])'
    BY <1>1, <2>2 DEF ReadsInv, PoolTypes
  <2>7. kind = "record" => RecordOf(m) \notin it.completed
    <3> SUFFICES ASSUME kind = "record", RecordOf(m) \in it.completed PROVE FALSE
      OBVIOUS
    <3>1. RecordOf(m)[1] = w /\ RecordOf(m)[2] = worker[w].read
      BY <1>7 DEF RecordOf
    <3>2. worker[w].read \in 1 .. Sent(w)
      BY <1>1, <3>1 DEF ReadsInv
    <3> QED BY <1>16, <3>2
  <2>8. kind = "record" => \A k \in InFlight : RecordOf(m) # RecordOf(results[k])
    <3> SUFFICES ASSUME kind = "record", NEW k \in InFlight, RecordOf(m) = RecordOf(results[k])
                 PROVE  FALSE
      OBVIOUS
    <3>1. results[k].worker = w /\ results[k].read = worker[w].read
      BY <1>7 DEF RecordOf
    <3>2. worker[w].read \in 1 .. Sent(w)
      BY <1>1, <3>1 DEF ReadsInv
    <3> QED BY <1>16, <3>2
  <2>9. \A k \in InFlight' : results'[k].read \in 1 .. Sent(results[k].worker)'
    <3> TAKE k \in InFlight'
    <3>1. CASE k \in InFlight
      BY <2>4, <3>1
    <3>2. CASE k \notin InFlight
      <4>1. kind = "record" /\ results'[k] = m /\ results'[k].worker = w
        BY <1>7, <1>11, <1>14, <3>2
      <4> QED BY <2>5, <4>1
    <3> QED BY <3>1, <3>2
  <2>10. \A k \in InFlight' : RecordOf(results'[k]) \notin it.completed
    BY <1>1, <1>11, <1>14, <2>7 DEF ReadsInv
  <2>11. \A j, k \in InFlight' : RecordOf(results'[j]) = RecordOf(results'[k]) => j = k
    BY <1>1, <1>11, <1>14, <2>8 DEF ReadsInv
  <2> QED BY <1>3, <1>4, <2>1, <2>6, <2>9, <2>10, <2>11 DEF ReadsInv
<1>18. ControlInv'
  <2>1. controls[w] # <<>> => pc = "fatal" /\ kind = "fatal"
    BY <1>1 DEF ControlInv
  <2>2. ASSUME NEW v \in Workers, controls[v] # <<>>
        PROVE  /\ worker'[v].pc \in {"start", "idle", "dying", "fatal"}
               /\ \A k \in InFlight' : results'[k].worker # v
               /\ \A r \in it.completed : r[1] # v
    <3>1. worker'[v].pc \in {"start", "idle", "dying", "fatal"}
      BY <1>1, <1>7, <1>10, <2>1, <2>2 DEF ControlInv
    <3>2. \A k \in InFlight' : results'[k].worker # v
      BY <1>1, <1>7, <1>11, <1>14, <2>1, <2>2 DEF ControlInv
    <3> QED BY <1>1, <2>2, <3>1, <3>2 DEF ControlInv
  <2>3. \A v \in Workers : Len(controls[v]) <= 1
    BY <1>1 DEF ControlInv
  <2> QED BY <1>3, <1>4, <2>2, <2>3 DEF ControlInv
<1>19. EndInv'
  <2>1. \A v \in Workers : Over(v) => v # w /\ Over(v)' /\ worker'[v] = worker[v]
    BY <1>2, <1>10 DEF Over
  <2>2. kind \in {"end", "fatal"} => Over(w)' /\ (kind = "fatal" <=> worker'[w].pc = "fatal")
    <3>1. kind = "end" => controls[w] = <<>>
      BY <1>1 DEF ControlInv
    <3> QED BY <1>7, <1>10, <3>1 DEF Over
  <2>3. ASSUME NEW k \in DOMAIN results', results'[k].kind \in {"end", "fatal"}
        PROVE  /\ Over(results[k].worker)'
               /\ results'[k].kind = "fatal" <=> worker'[results'[k].worker].pc = "fatal"
               /\ \A j \in DOMAIN results' : j > k => results'[j].worker # results'[k].worker
    <3>1. CASE k \in DOMAIN results
      <4>1. /\ Over(results[k].worker)
            /\ results[k].kind = "fatal" <=> worker[results[k].worker].pc = "fatal"
            /\ \A j \in DOMAIN results : j > k => results[j].worker # results[k].worker
            /\ results[k].worker \in Workers
        BY <1>1, <1>11, <2>3, <3>1 DEF EndInv, Terminal, Message
      <4>2. results'[k] = results[k] /\ results[k].worker # w
        BY <1>11, <2>1, <3>1, <4>1
      <4>3. \A j \in DOMAIN results' : j > k => results'[j].worker # results'[k].worker
        BY <1>7, <1>11, <4>1, <4>2
      <4> QED BY <2>1, <4>1, <4>2, <4>3
    <3>2. CASE k = n
      <4>1. \A j \in DOMAIN results' : ~(j > k)
        BY <1>11, <3>2
      <4> QED BY <1>7, <1>11, <2>2, <2>3, <3>2, <4>1
    <3> QED BY <1>11, <3>1, <3>2
  <2>4. \A v \in pool.terminal :
          /\ Over(v)'
          /\ worker'[v].pc = "fatal" => pool.fatal
          /\ \A k \in DOMAIN results' : results'[k].worker # v
    BY <1>1, <1>7, <1>11, <2>1 DEF EndInv, PoolTypes
  <2> QED BY <2>3, <2>4 DEF EndInv, Terminal
<1>20. AccountInv'
  <2> SUFFICES ASSUME NEW v \in Workers
               PROVE  credits[v] + InHand(v)' + InChannel(v)' + Buffered(v) = config.prefetch
    BY <1>3, <1>4 DEF AccountInv, Buffered
  <2>1. credits[v] + InHand(v) + InChannel(v) + Buffered(v) = config.prefetch
    BY <1>1 DEF AccountInv
  <2>2. InChannel(v)' = InChannel(v) + (IF v = w /\ h THEN 1 ELSE 0)
    <3>1. results \in Seq(Message) BY <1>1 DEF PoolTypes
    <3>2. Cardinality(Carried(Append(results, m), v))
            = Cardinality(Carried(results, v)) + (IF m.worker = v /\ m.holds THEN 1 ELSE 0)
      BY <1>6, <3>1, ChannelCounts
    <3> QED BY <1>7, <1>8, <3>2 DEF InChannel
  <2>3. InHand(v)' = IF v = w /\ h THEN InHand(v) - 1 ELSE InHand(v)
    BY <1>9, <1>10 DEF InHand
  <2>4. /\ credits[v] \in Nat /\ InHand(v) \in Nat /\ InChannel(v) \in Nat
        /\ Buffered(v) \in Nat /\ config.prefetch \in Nat
    BY <1>1, RecordCounts, ChannelCounts, ConfigFacts, FS_EmptySet
       DEF PoolTypes, InHand, InChannel, Buffered
  <2> HIDE DEF InHand, InChannel, Buffered
  <2> QED BY ONLY <2>1, <2>2, <2>3, <2>4
<1>21. /\ config' \in Configs /\ Valid(config)' /\ nextGen' \in Nat /\ ~shutdown'
  BY DEF CreditInv, Live, Valid
<1>22. LiveInv'
  BY <1>3, <1>12, <1>13, <1>17, <1>18, <1>19, <1>20 DEF LiveInv
<1> QED BY <1>21, <1>22 DEF CreditInv
\* A step to another place that takes and gives nothing.
LEMMA BecomeKeeps ==
    ASSUME CreditInv, Live, NEW w \in Workers, ~Over(w), SameIterator,
           UNCHANGED <<config, call, nextGen, pool, shutdown, quiet, results, credits, controls>>,
           NEW pc \in WorkerStates \ {"fatal"}, Become(w, pc),
           pc \in {"read"} \cup Announced => worker[w].held,
           pc \in Announced => worker[w].pc \in Announced,
           pc \in {"start", "idle", "create", "credit", "failed"} => ~worker[w].held,
           controls[w] # <<>> => pc \in {"start", "idle", "dying"}
    PROVE  CreditInv'
<1> DEFINE t == [worker[w] EXCEPT !.pc = pc]
<1>1. PoolTypes /\ HandInv /\ ReadsInv BY DEF CreditInv, LiveInv
<1>2. worker[w] \in Thread BY <1>1 DEF PoolTypes
<1>3. /\ t \in Thread /\ t.pc = pc /\ t.read = worker[w].read /\ t.held = worker[w].held
  BY <1>2 DEF Thread
<1>4. worker' = [worker EXCEPT ![w] = t]
  BY <1>1 DEF Become, PoolTypes
<1>5. Fits(w, t)
  BY <1>1, <1>3 DEF Fits, ReadsInv
<1>6. SentBy(t) >= SentBy(worker[w])
  BY <1>2, <1>3 DEF SentBy, Thread
<1>7. /\ credits' \in [Workers -> Nat] /\ controls' \in [Workers -> Seq(Nat)]
      /\ credits'[w] + HandOf(t) = credits[w] + HandOf(worker[w])
  BY <1>1, <1>3 DEF PoolTypes, HandOf
<1> HIDE DEF t
<1> QED BY <1>3, <1>4, <1>5, <1>6, <1>7, LocalKeeps

\* Every step of a worker keeps the account.
LEMMA WorkerKeeps ==
    ASSUME CreditInv, Live, NEW w \in AllWorkers, WorkerStep(w) \/ UserFault(w)
    PROVE  CreditInv'
<1>1. PoolTypes /\ HandInv /\ ReadsInv /\ ControlInv BY DEF CreditInv, LiveInv
<1>2. w \in Workers
  BY <1>1 DEF WorkerStep, UserFault, PoolTypes
<1>3. worker[w] \in Thread BY <1>1, <1>2 DEF PoolTypes
<1>4. /\ worker[w].pc \in {"read"} \cup Announced => worker[w].held
      /\ worker[w].pc \in {"start", "idle", "create", "credit", "failed", "fatal"} => ~worker[w].held
      /\ controls[w] # <<>> => worker[w].pc \in {"start", "idle", "dying", "fatal"}
  BY <1>1, <1>2 DEF HandInv, ControlInv
<1>5. CASE WStart(w)
  <2>1. ~Over(w) /\ SameIterator
    BY <1>5 DEF WStart, Over, SameIterator
  <2>2. PICK pc \in {"idle", "dying"} : Become(w, pc)
    BY <1>5 DEF WStart
  <2>3. /\ pc \in WorkerStates \ {"fatal"} /\ pc \notin {"read"} \cup Announced
        /\ ~worker[w].held
        /\ UNCHANGED <<config, call, nextGen, pool, shutdown, quiet, results, credits, controls>>
    BY <1>4, <1>5, <2>2 DEF WStart, WorkerStates, Announced, coordinatorVars
  <2> QED BY <1>2, <2>1, <2>2, <2>3, BecomeKeeps
<1>6. CASE WBegin(w)
  <2> DEFINE t == [Asleep EXCEPT !.pc = "create", !.gen = Head(controls[w])]
  <2>1. ~Over(w) /\ SameIterator
    BY <1>6 DEF WBegin, Over, SameIterator
  <2>2. controls[w] \in Seq(Nat) /\ controls[w] # <<>> /\ Len(controls[w]) <= 1
    BY <1>1, <1>2, <1>6 DEF PoolTypes, ControlInv, WBegin
  <2>3. Tail(controls[w]) = <<>> /\ Head(controls[w]) \in Nat
    BY <2>2
  <2>4. Asleep \in Thread /\ Asleep.held = FALSE
    BY DEF Asleep, Thread, WorkerStates, Unsequenced
  <2>5. t \in Thread /\ t.pc = "create" /\ t.held = FALSE
    BY <2>3, <2>4 DEF Thread, WorkerStates
  <2>6. /\ worker' = [worker EXCEPT ![w] = t] /\ controls' = [controls EXCEPT ![w] = Tail(@)]
        /\ UNCHANGED <<config, call, nextGen, pool, shutdown, quiet, results, credits>>
        /\ worker[w].pc = "idle"
    BY <1>6 DEF WBegin, coordinatorVars
  <2> HIDE DEF t
  <2>7. /\ controls' \in [Workers -> Seq(Nat)] /\ controls'[w] = <<>>
        /\ \A v \in Workers \ {w} : controls'[v] = controls[v]
    <3>1. controls \in [Workers -> Seq(Nat)]
      BY <1>1 DEF PoolTypes
    <3>2. Tail(controls[w]) \in Seq(Nat)
      BY <2>2
    <3>3. controls' = [controls EXCEPT ![w] = Tail(controls[w])]
      BY <2>6
    <3> QED BY <1>2, <2>3, <3>1, <3>2, <3>3
  <2>8. Fits(w, t)
    BY <2>5 DEF Fits, Announced
  <2>9. credits' \in [Workers -> Nat] /\ credits'[w] + HandOf(t) = credits[w] + HandOf(worker[w])
    BY <1>1, <1>2, <1>4, <2>5, <2>6 DEF PoolTypes, HandOf
  <2> QED BY <1>2, <2>1, <2>2, <2>5, <2>6, <2>7, <2>8, <2>9, LocalKeeps
<1>7. CASE WCreate(w)
  <2>1. ~Over(w) /\ SameIterator /\ controls[w] = <<>>
    BY <1>4, <1>7 DEF WCreate, Over, SameIterator
  <2>2. PICK pc \in {"end", "credit"} : Become(w, pc)
    BY <1>7 DEF WCreate
  <2>3. /\ pc \in WorkerStates \ {"fatal"} /\ pc \notin {"read"} \cup Announced
        /\ ~worker[w].held
        /\ UNCHANGED <<config, call, nextGen, pool, shutdown, quiet, results, credits, controls>>
    BY <1>4, <1>7, <2>2 DEF WCreate, WorkerStates, Announced, coordinatorVars
  <2> QED BY <1>2, <2>1, <2>2, <2>3, BecomeKeeps
<1>8. CASE WAcquire(w)
  <2>1. PICK pc \in {"end", "read"} : worker' = [worker EXCEPT ![w].held = TRUE, ![w].pc = pc]
    BY <1>8 DEF WAcquire
  <2> DEFINE t == [worker[w] EXCEPT !.held = TRUE, !.pc = pc]
  <2>2. /\ ~Over(w) /\ SameIterator /\ controls[w] = <<>> /\ ~worker[w].held /\ worker[w].pc = "credit"
        /\ UNCHANGED <<config, call, nextGen, pool, shutdown, quiet, results, controls>>
        /\ credits[w] > 0 /\ credits' = [credits EXCEPT ![w] = @ - 1]
    BY <1>4, <1>8 DEF WAcquire, Over, SameIterator, coordinatorVars
  <2>3. t \in Thread /\ t.held = TRUE /\ t.pc = pc /\ t.read = worker[w].read
    BY <1>3 DEF Thread, WorkerStates
  <2>4. worker' = [worker EXCEPT ![w] = t]
    BY <1>1, <1>2, <2>1 DEF PoolTypes
  <2> HIDE DEF t
  <2>5. Fits(w, t) /\ SentBy(t) >= SentBy(worker[w])
    BY <1>3, <2>2, <2>3 DEF Fits, SentBy, Announced, Thread
  <2>6. /\ credits' \in [Workers -> Nat] /\ \A v \in Workers \ {w} : credits'[v] = credits[v]
        /\ credits'[w] + HandOf(t) = credits[w] + HandOf(worker[w])
    BY <1>1, <1>2, <2>2, <2>3 DEF PoolTypes, HandOf
  <2>7. controls' \in [Workers -> Seq(Nat)]
    BY <1>1, <2>2 DEF PoolTypes
  <2> QED BY <1>2, <2>2, <2>3, <2>4, <2>5, <2>6, <2>7, LocalKeeps
<1>9. CASE WQuit(w)
  <2>1. /\ ~Over(w) /\ SameIterator /\ controls[w] = <<>> /\ Become(w, "end")
        /\ UNCHANGED <<config, call, nextGen, pool, shutdown, quiet, results, credits, controls>>
    BY <1>4, <1>9 DEF WQuit, Over, SameIterator, coordinatorVars
  <2>2. "end" \in WorkerStates \ {"fatal"} /\ "end" \notin {"read"} \cup Announced
    BY DEF WorkerStates, Announced
  <2> QED BY <1>2, <2>1, <2>2, BecomeKeeps
<1>10. CASE WRead(w)
  <2>1. /\ ~Over(w) /\ SameIterator /\ controls[w] = <<>> /\ worker[w].held /\ worker[w].pc = "read"
        /\ UNCHANGED <<config, call, nextGen, pool, shutdown, quiet, results, credits, controls>>
    BY <1>4, <1>10 DEF WRead, Over, SameIterator, coordinatorVars
  <2>2. CASE Become(w, "end")
    <3>1. "end" \in WorkerStates \ {"fatal"} /\ "end" \notin {"read"} \cup Announced
      BY DEF WorkerStates, Announced
    <3> QED BY <1>2, <2>1, <2>2, <3>1, BecomeKeeps
  <2>3. CASE ~(Stopping \/ worker[w].read + 1 > Len(config.shards[w]))
    <3> DEFINE k   == worker[w].read + 1
               seq == Item(w, k).seq
    <3>1. k \in Nat /\ k >= 1 /\ seq \in Int
      <4>1. worker[w].read \in Nat BY <1>3 DEF Thread
      <4>2. config.shards[w] \in Seq([seq : Int, size : Nat])
        BY <1>2, ConfigFacts
      <4>3. k \in 1 .. Len(config.shards[w])
        BY <2>3, <4>1, <4>2
      <4>4. \A S, q : q \in Seq(S) => \A j \in 1 .. Len(q) : q[j] \in S
        OBVIOUS
      <4>5. config.shards[w][k] \in [seq : Int, size : Nat]
        BY <4>2, <4>3, <4>4
      <4> QED BY <4>1, <4>5 DEF Item
    <3>2. PICK last \in Int, pc \in {"send", "budget", "fail", "waiting"} :
            worker' = [worker EXCEPT ![w].read = k, ![w].last = last, ![w].pc = pc]
      <4>1. worker[w].last \in Int BY <1>3 DEF Thread
      <4> DEFINE last == IF config.ordered /\ Limited /\ seq > worker[w].last
                         THEN seq ELSE worker[w].last
                 pc   == CASE ~Limited -> "send"
                            [] Limited /\ ~config.ordered -> "budget"
                            [] Limited /\ config.ordered ->
                                 IF seq = Unsequenced \/ seq <= worker[w].last
                                 THEN "fail" ELSE "waiting"
      <4>2. last \in Int BY <3>1, <4>1
      <4>3. pc \in {"send", "budget", "fail", "waiting"}
        OBVIOUS
      <4>4. worker' = [worker EXCEPT ![w].read = k, ![w].last = last, ![w].pc = pc]
        BY <1>10, <2>3 DEF WRead
      <4> QED BY <4>2, <4>3, <4>4
    <3> HIDE DEF k
    <3> DEFINE t == [worker[w] EXCEPT !.read = k, !.last = last, !.pc = pc]
    <3>3. t \in Thread /\ t.held = worker[w].held /\ t.pc = pc /\ t.read = k
      BY <1>3, <3>1 DEF Thread, WorkerStates
    <3>4. worker' = [worker EXCEPT ![w] = t]
      BY <1>1, <1>2, <3>2 DEF PoolTypes
    <3> HIDE DEF t
    <3>5. Fits(w, t)
      BY <2>1, <3>1, <3>3 DEF Fits
    <3>6. SentBy(t) >= SentBy(worker[w])
      BY <1>3, <2>1, <3>3 DEF SentBy, Announced, Thread, k
    <3>7. /\ credits' \in [Workers -> Nat] /\ controls' \in [Workers -> Seq(Nat)]
          /\ credits'[w] + HandOf(t) = credits[w] + HandOf(worker[w])
      BY <1>1, <2>1, <3>3 DEF PoolTypes, HandOf
    <3> QED BY <1>2, <2>1, <3>3, <3>4, <3>5, <3>6, <3>7, LocalKeeps
  <2> QED BY <1>10, <2>2, <2>3 DEF WRead
<1>11. CASE WWaiting(w)
  BY <1>2, <1>11, SendKeeps DEF WWaiting, coordinatorVars
<1>12. CASE WAdmitted(w)
  <2>1. /\ ~Over(w) /\ SameIterator /\ controls[w] = <<>> /\ worker[w].held /\ worker[w].pc = "budget"
        /\ UNCHANGED <<config, call, nextGen, pool, shutdown, quiet, results, credits, controls>>
    BY <1>4, <1>12 DEF WAdmitted, Over, SameIterator, coordinatorVars, Announced
  <2>2. PICK pc \in {"fail", "send"} : Become(w, pc)
    BY <1>12 DEF WAdmitted
  <2>3. pc \in WorkerStates \ {"fatal"} /\ "budget" \in Announced
    BY DEF WorkerStates, Announced
  <2> QED BY <1>2, <2>1, <2>2, <2>3, BecomeKeeps
<1>13. CASE WSend(w)
  BY <1>2, <1>13, SendKeeps DEF WSend, coordinatorVars
<1>14. CASE WEnd(w)
  BY <1>2, <1>14, SendKeeps DEF WEnd, coordinatorVars
<1>15. CASE WFail(w)
  BY <1>2, <1>15, SendKeeps DEF WFail, coordinatorVars
<1>16. CASE WFailed(w)
  <2>1. /\ ~Over(w) /\ SameIterator /\ controls[w] = <<>> /\ Become(w, "end")
        /\ UNCHANGED <<config, call, nextGen, pool, shutdown, quiet, results, credits, controls>>
    BY <1>4, <1>16 DEF WFailed, Over, SameIterator, coordinatorVars
  <2>2. "end" \in WorkerStates \ {"fatal"} /\ "end" \notin {"read"} \cup Announced
    BY DEF WorkerStates, Announced
  <2> QED BY <1>2, <2>1, <2>2, BecomeKeeps
<1>17. CASE WDie(w)
  BY <1>2, <1>17, SendKeeps DEF WDie, coordinatorVars
<1>18. CASE WExit(w)
  BY <1>18 DEF WExit, Live
<1>19. CASE WError(w)
  <2>1. /\ ~Over(w) /\ SameIterator /\ controls[w] = <<>>
        /\ UNCHANGED <<config, call, nextGen, pool, shutdown, quiet, results, credits, controls>>
    BY <1>4, <1>19 DEF WError, Over, SameIterator, coordinatorVars
  <2>2. PICK pc \in {"fail", "dying"} : Become(w, pc)
    BY <1>19 DEF WError
  <2>3. pc \in WorkerStates \ {"fatal"} /\ pc \notin {"read"} \cup Announced
    BY DEF WorkerStates, Announced
  <2> QED BY <1>2, <2>1, <2>2, <2>3, BecomeKeeps
<1>20. CASE WCancels(w)
  <2>1. /\ ~Over(w) /\ SameIterator
        /\ UNCHANGED <<config, call, nextGen, pool, shutdown, quiet, results, credits, controls, worker>>
        /\ nextGen' \in Nat
    BY <1>20, PhaseFacts DEF WCancels, Over, SameIterator, coordinatorVars
  <2>2. PhaseInv' /\ it'.completed = it.completed
    BY <1>2, <2>1, WorkerPhase
  <2> QED BY <2>1, <2>2, StillKeeps
<1> QED
  BY <1>5, <1>6, <1>7, <1>8, <1>9, <1>10, <1>11, <1>12, <1>13, <1>14, <1>15, <1>16, <1>17,
     <1>18, <1>19, <1>20 DEF WorkerStep, UserFault

-----------------------------------------------------------------------------
\* A pool without threads, or one that is being stopped, has no account to
\* keep until iter() starts one.
LEMMA IdleKeeps ==
    ASSUME CreditInv, ~Live, Next, ~Iter
    PROVE  CreditInv'
<1>1. CASE worker = <<>>
  <2>1. worker' = <<>> /\ config' = config /\ nextGen' \in Nat
    <3> nextGen \in Nat
      BY DEF CreditInv
    <3> USE <1>1
    <3>1. CASE CallerStep
      <4>1. CASE IterRefused  BY <4>1 DEF IterRefused
      <4>2. CASE DropIterator BY <4>2 DEF DropIterator
      <4>3. CASE DropLoader   BY <4>3 DEF DropLoader
      <4>4. CASE NextAtOnce   BY <4>4 DEF NextAtOnce
      <4>5. CASE NextBegins   BY <4>5 DEF NextBegins
      <4> QED BY <3>1, <4>1, <4>2, <4>3, <4>4, <4>5 DEF CallerStep
    <3>2. CASE CoordinatorStep
      <4>1. CASE NextTakes       BY <4>1 DEF NextTakes
      <4>2. CASE NextGap         BY <4>2 DEF NextGap
      <4>3. CASE NextEnds        BY <4>3 DEF NextEnds
      <4>4. CASE NextArms        BY <4>4 DEF NextArms
      <4>5. CASE NextReceives    BY <4>5 DEF NextReceives
      <4>6. CASE NextTimesOut    BY <4>6 DEF NextTimesOut
      <4>7. CASE NextCancelled   BY <4>7 DEF NextCancelled
      <4>8. CASE QuiesceReceives BY <4>8 DEF QuiesceReceives
      <4>9. CASE QuiesceEnds     BY <4>9 DEF QuiesceEnds
      <4>10. CASE JoinEnds       BY <4>10 DEF JoinEnds, NoThreads
      <4> QED
        BY <3>2, <4>1, <4>2, <4>3, <4>4, <4>5, <4>6, <4>7, <4>8, <4>9, <4>10
        DEF CoordinatorStep
    <3>3. CASE Expire
      BY <3>3 DEF Expire
    <3>4. \A w : ~WorkerStep(w) /\ ~UserFault(w)
      BY <1>1 DEF WorkerStep, UserFault
    <3> QED BY <3>1, <3>2, <3>3, <3>4 DEF Next
  <2> QED BY <2>1, StoppedKeeps
<1>2. CASE worker # <<>>
  <2>1. shutdown /\ call = "join"
    BY <1>2 DEF CreditInv, Live
  <2>2. CASE JoinEnds
    BY <2>2, JoinEndsKeeps
  <2>3. ASSUME UNCHANGED <<config, call, nextGen, shutdown>>
        PROVE  CreditInv'
    <3>1. nextGen' \in Nat BY <2>3 DEF CreditInv
    <3> QED BY <2>1, <2>3, <3>1, StoppedKeeps
  <2>4. CASE Expire
    BY <2>3, <2>4 DEF Expire
  <2>5. ASSUME NEW w, WorkerStep(w) \/ UserFault(w) PROVE CreditInv'
    <3>1. UNCHANGED coordinatorVars
      BY <2>5 DEF WorkerStep, UserFault, WStart, WBegin, WCreate, WAcquire, WQuit, WRead,
         WWaiting, WAdmitted, WSend, WEnd, WFail, WFailed, WDie, WExit, WError, WCancels
    <3> QED BY <2>3, <3>1 DEF coordinatorVars
  <2>6. ~CallerStep /\ (CoordinatorStep => JoinEnds)
    BY <2>1 DEF CallerStep, CoordinatorStep, IterRefused, Iter, DropIterator, DropLoader,
       NextAtOnce, NextBegins, NextTakes, NextGap, NextEnds, NextArms, NextReceives, NextTimesOut,
       NextCancelled, QuiesceReceives, QuiesceEnds, Stalled, Waiting, Receives
  <2> QED BY <2>2, <2>4, <2>5, <2>6 DEF Next
<1> QED BY <1>1, <1>2

LEMMA CreditInit == Init => CreditInv
BY DEF Init, CreditInv, NoThreads, Live

LEMMA CreditNext == CreditInv /\ [Next]_vars => CreditInv'
<1> SUFFICES ASSUME CreditInv, [Next]_vars PROVE CreditInv'
  OBVIOUS
<1>1. CASE UNCHANGED vars
  <2>1. CASE Live
    <3>1. PhaseInv' /\ it'.completed = it.completed /\ nextGen' \in Nat
      <4>1. PhaseInv /\ nextGen \in Nat BY <2>1 DEF CreditInv, LiveInv
      <4>2. AllQuiet => AllQuiet' BY <1>1 DEF vars, AllQuiet, Workers
      <4> QED BY <1>1, <4>1, <4>2 DEF vars, PhaseInv
    <3> QED BY <1>1, <2>1, <3>1, StillKeeps DEF vars
  <2>2. CASE ~Live
    <3>1. ~Live' BY <1>1, <2>2 DEF vars, Live
    <3> QED BY <1>1, <3>1 DEF vars, CreditInv, Valid
  <2> QED BY <2>1, <2>2
<1>2. CASE Iter
  BY <1>2, IterKeeps
<1>3. CASE ~Live /\ Next /\ ~Iter
  BY <1>3, IdleKeeps
<1>4. CASE Live /\ CallerStep
  BY <1>4, IterRefusedKeeps, IterKeeps, DropIteratorKeeps, DropLoaderKeeps, NextAtOnceKeeps,
     NextBeginsKeeps DEF CallerStep
<1>5. CASE Live /\ CoordinatorStep
  BY <1>5, NextTakesKeeps, NextClosesKeeps, DeadlineKeeps, NextReceivesKeeps, QuiesceReceivesKeeps,
     QuiesceEndsKeeps, JoinEndsKeeps DEF CoordinatorStep
<1>6. CASE Live /\ Expire
  BY <1>6, DeadlineKeeps
<1>7. ASSUME Live, NEW w \in AllWorkers, WorkerStep(w) \/ UserFault(w) PROVE CreditInv'
  BY <1>7, WorkerKeeps
<1> QED BY <1>1, <1>2, <1>3, <1>4, <1>5, <1>6, <1>7 DEF Next

\* While a stream loader's pool lives every worker's credits are all there: in
\* its channel, in its hand, with a completion or with a buffered record. No
\* end, failure, timeout, cancellation, early drop or later generation loses
\* one, and none comes back twice (return_credit, account_parts, quiesce).
THEOREM StreamAccountsForCredits == Spec => []CreditsExact
<1>1. CreditInv => CreditsExact
  BY DEF CreditInv, LiveInv, AccountInv, Live, CreditsExact, InHand, InChannel, Carried,
     Buffered, RecordsOf
<1> QED
  BY <1>1, CreditInit, CreditNext, PTL DEF Spec

\* A credit that goes back always finds room in its worker's channel: close()
\* and next() are never refused a return and take no pool for broken by it
\* (return_credit, PoolError::Closed).
CreditsFit ==
  Live => /\ ~Overfull(it.completed)
          /\ results # <<>> => ~Overfull(it.completed \cup CreditOf(Head(results)))

\* In every state of the loader the next credit to return has its room.
THEOREM StreamCreditsFit == Spec => []CreditsFit
<1>1. CreditInv => CreditsFit
  <2> SUFFICES ASSUME CreditInv, Live
               PROVE  /\ ~Overfull(it.completed)
                      /\ results # <<>> => ~Overfull(it.completed \cup CreditOf(Head(results)))
    BY DEF CreditsFit
  <2> QED BY Refund DEF Taken
<1> QED
  BY <1>1, CreditInit, CreditNext, PTL DEF Spec
=============================================================================
