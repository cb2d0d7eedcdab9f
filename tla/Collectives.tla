---------------------------- MODULE Collectives ----------------------------
(***************************************************************************)
(* What rank 0 computes from one request per rank: the pure function       *)
(* evaluate of src/distributed/process.rs.                                 *)
(*                                                                         *)
(* A tensor is one element with its shape and whether it is floating: every  *)
(* reduction is elementwise.  Values are multiples of World, so that the   *)
(* mean is exact.  One tensor, or one byte, counts as one unit of memory.  *)
(***************************************************************************)
EXTENDS Integers, Sequences, SequencesExt

CONSTANTS
    World,      \* number of ranks
    Limit       \* max_message_bytes, in units

ASSUME WorldAssumption == World \in Nat \ {0}
ASSUME LimitAssumption == Limit \in Nat

Ranks == 0 .. World - 1

Reductions == {"Sum", "Mean", "Min", "Max", "Product"}
Rooted == {"Broadcast", "Reduce", "Gather", "Scatter"}
Reducing == {"AllReduce", "Reduce", "ReduceScatter"}
Names == {"Barrier", "Bytes", "AllGather", "AllToAll"} \cup Rooted \cup Reducing

\* enum Operation; a field that a variant lacks is 0 or "Sum"
Operation == [name : Names, root : Nat, reduction : Reductions]
Tensor == [shape : STRING, float : BOOLEAN, value : Int]
Request == [sequence : Nat, operation : Operation, error : BOOLEAN,
            tensors : Seq(Tensor), bytes : Seq(STRING)]
Response == [sequence : Nat, error : BOOLEAN, tensors : Seq(Tensor), bytes : Seq(Seq(STRING))]

\* A deliberate fault: it replaces a definition below it in a mutation run
Fault_RowInsteadOfColumn(reqs, r) == reqs[r].tensors

SameSpec(ts) ==
    \A i, j \in DOMAIN ts : ts[i].shape = ts[j].shape /\ ts[i].float = ts[j].float

\* The copies made for the responses are bounded before anything else
WorkingSet(reqs) == World * MapThenSumSet(LAMBDA r : Len(reqs[r].tensors) + Len(reqs[r].bytes), Ranks)

\* One request refuses the collective for everyone
Refuses(q, first) ==
    \/ q.error
    \/ q.sequence # first.sequence \/ q.operation # first.operation
    \/ first.operation.name # "Bytes" /\ q.bytes # <<>>

Counts(reqs, n) == \A r \in Ranks : Len(reqs[r].tensors) = n

\* The tensors of the operation are as many and of the kind it needs
WellFormed(reqs) ==
    LET o == reqs[0].operation
        all == FlattenSeq([i \in 1 .. World |-> reqs[i - 1].tensors])
    IN  /\ o.name \in Rooted => o.root \in Ranks
        /\ SameSpec(all)
        /\ CASE o.name \in {"Barrier", "Bytes"} -> Counts(reqs, 0)
             [] o.name = "Scatter" -> \A r \in Ranks :
                    Len(reqs[r].tensors) = IF r = o.root THEN World ELSE 0
             [] o.name \in {"ReduceScatter", "AllToAll"} -> Counts(reqs, World)
             [] OTHER -> Counts(reqs, 1)
        /\ o.name \in Reducing /\ o.reduction = "Mean" => all[1].float

\* reduce: a left fold in rank order
Combine(op, a, b) ==
    CASE op \in {"Sum", "Mean"} -> a + b
      [] op = "Product" -> a * b
      [] op = "Min" -> IF a <= b THEN a ELSE b
      [] OTHER -> IF a >= b THEN a ELSE b

Reduce(ts, op) ==
    LET total == FoldLeft(LAMBDA acc, t : Combine(op, acc, t.value), Head(ts).value, Tail(ts))
    IN  [Head(ts) EXCEPT !.value = IF op = "Mean" THEN total \div World ELSE total]

\* What every rank supplied as its only tensor, and for rank r, in rank order
Singles(reqs) == [i \in 1 .. World |-> reqs[i - 1].tensors[1]]
Column(reqs, r) == [i \in 1 .. World |-> reqs[i - 1].tensors[r + 1]]

\* The tensors of rank r's response
Tensors(reqs, r) ==
    LET o == reqs[0].operation
    IN  CASE o.name = "Broadcast" -> <<reqs[o.root].tensors[1]>>
          [] o.name = "AllReduce" -> <<Reduce(Singles(reqs), o.reduction)>>
          [] o.name = "Reduce" /\ r = o.root -> <<Reduce(Singles(reqs), o.reduction)>>
          [] o.name = "AllGather" -> Singles(reqs)
          [] o.name = "Gather" /\ r = o.root -> Singles(reqs)
          [] o.name = "Scatter" -> <<reqs[o.root].tensors[r + 1]>>
          [] o.name = "ReduceScatter" -> <<Reduce(Column(reqs, r), o.reduction)>>
          [] o.name = "AllToAll" -> Column(reqs, r)
          [] OTHER -> <<>>

Accepted(reqs) ==
    /\ WorkingSet(reqs) <= Limit
    /\ \A r \in Ranks : ~Refuses(reqs[r], reqs[0])
    /\ WellFormed(reqs)

\* evaluate, with the responses call makes of an error: the same refusal for all
Evaluate(reqs) ==
    [r \in Ranks |->
        IF Accepted(reqs)
        THEN [sequence |-> reqs[0].sequence, error |-> FALSE, tensors |-> Tensors(reqs, r),
              bytes |-> IF reqs[0].operation.name = "Bytes"
                        THEN [i \in 1 .. World |-> reqs[i - 1].bytes] ELSE <<>>]
        ELSE [sequence |-> reqs[0].sequence, error |-> TRUE, tensors |-> <<>>, bytes |-> <<>>]]
=============================================================================
