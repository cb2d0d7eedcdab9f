------------------------------ MODULE MCGraph -------------------------------
(* The operators of Graph over all small specifications, tensors and graphs. *)
EXTENDS Graph

Kinds == {"Float", "Int64"}
Dims  == {Known(1), Known(2), Symbol("n"), Dynamic}
Sizes == 1 .. 3

UpTo(n, S) == UNION {[1 .. m -> S] : m \in 0 .. n}

DimSpecs(n) == {TensorSpec({ds}, {Len(ds)}, {}, {}) : ds \in UpTo(n, Dims)}
RankSpecs(n) == {TensorSpec({}, {r}, {}, {}) : r \in 0 .. n} \cup {TensorSpec({}, {}, {}, {})}
Specs(n) == DimSpecs(n) \cup RankSpecs(n)

Tensors(n) == {Tensor(s, "Float", "given") : s \in UpTo(n, Sizes)}

(* A tensor is as a specification says. *)
Describes(spec, tensor, symbols) ==
  /\ spec.kind \subseteq {tensor.kind} /\ RankOf(spec) \subseteq {Len(tensor.shape)}
  /\ \A ds \in spec.dims : \A i \in DOMAIN ds :
       /\ IsKnown(ds[i]) => tensor.shape[i] = ds[i].size
       /\ ds[i].kind = "symbol" => symbols[ds[i].name] = tensor.shape[i]

-----------------------------------------------------------------------------
(* What an inference claims of the result holds of every result, and what   *)
(* it refuses has none: infer_node_spec against the shapes of the operation. *)
Sound(op, spec, tensors, symbols) ==
  IF spec = {} THEN Compute(op, tensors) = {}
  ELSE \A t \in Compute(op, tensors) : Describes(The(spec), t, symbols)

UnaryOps == {[name |-> "Linear", in |-> 2, out |-> 3], [name |-> "ReLU"]}
            \cup [name : {"Flatten"}, start : {-1, 0, 1}, end : {-1, 0, 1, 2}]

(* A scalar is flattened by libtorch and refused by infer_flatten_spec. *)
ASSUME UnaryInferenceSound ==
  \A op \in UnaryOps, s \in Specs(3) : \A t \in {u \in Tensors(3) : Matches(u, s, <<>>)} :
    t.shape # <<>> \/ op.name # "Flatten" =>
      Sound(op, InferNode(op, s, <<s>>), <<t>>, Bound(t, s, <<>>))

BinaryOps == {[name |-> "Add"]} \cup [name : {"Concatenate"}, dim : {-2, -1, 0, 1}]

ASSUME BinaryInferenceSound ==
  \A l, r \in Specs(2) : \A t \in {v \in Tensors(2) : Matches(v, l, <<>>)} :
    LET bound == Bound(t, l, <<>>)
    IN  \A u \in {v \in Tensors(2) : Matches(v, r, bound)} : \A op \in BinaryOps :
          Sound(op, InferNode(op, l, <<l, r>>), <<t, u>>, Bound(u, r, bound))

(* Three inputs, of which the middle one may be unknown. *)
ASSUME ConcatInferenceSound ==
  \A l, m, r \in DimSpecs(1) \cup RankSpecs(1) :
    LET S == InferConcat(<<l, m, r>>, 0)
    IN  \A shapes \in [1 .. 3 -> UpTo(1, 1 .. 2)] :
          LET t  == [i \in 1 .. 3 |-> Tensor(shapes[i], "Float", "given")]
              b1 == Bound(t[1], l, <<>>)
              b2 == Bound(t[2], m, b1)
          IN  Matches(t[1], l, <<>>) /\ Matches(t[2], m, b1) /\ Matches(t[3], r, b2) =>
                Sound([name |-> "Concatenate", dim |-> 0], S, t, Bound(t[3], r, b2))

(* Kinds: what two declared kinds, or none, give is what libtorch promotes   *)
(* to. A kind declared of one input only is claimed of the result as well,   *)
(* which an undeclared kind can make wrong.                                *)
ASSUME KindsSound ==
  \A k, l \in {{}} \cup {{x} : x \in Kinds} :
    Cardinality(k) = Cardinality(l) =>
      \A s \in InferBinary(TensorSpec({}, {}, k, {}), TensorSpec({}, {}, l, {})) :
        \A x, y \in Kinds : k \subseteq {x} /\ l \subseteq {y} => s.kind \subseteq {Promoted({x, y})}

-----------------------------------------------------------------------------
(* Every graph of at most four calls of the builder, the fourth an output.   *)

Given == {TensorSpec({<<Known(2)>>}, {1}, {"Float"}, {}), TensorSpec({<<Symbol("n")>>}, {1}, {"Float"}, {}),
          TensorSpec({}, {}, {}, {})}

NextNames == <<"a", "b", "c", "d">>

Ops1 == {[name |-> "Output"], [name |-> "ReLU"], [name |-> "Flatten", start |-> 0, end |-> -1],
         [name |-> "Linear", in |-> 2, out |-> 1, bias |-> TRUE]}
Ops2 == {[name |-> "Add"], [name |-> "Concatenate", dim |-> 0], [name |-> "MseLoss"]}

(* Calls on n nodes. *)
Calls(n) ==
  {<<[name |-> "Input"], <<>>, s>> : s \in Given}
  \cup {<<op, <<i>>, {}>> : op \in Ops1, i \in 1 .. n}
  \cup {<<op, <<i, j>>, {}>> : op \in Ops2, i, j \in 1 .. n}

Calling(b) ==
  LET n == Len(b.nodes)
  IN  UNION {Call(b, NextNames[n + 1], c[1], c[2], c[3]) :
               c \in {d \in Calls(n) : n = 3 => d[1].name = "Output"}}

Builders[n \in 0 .. 4] == IF n = 0 THEN {NewBuilder} ELSE UNION {Calling(b) : b \in Builders[n - 1]}

(* What a value of an unfinished graph means, whatever order it is run in.   *)
RECURSIVE Meaning(_, _, _)
Meaning(b, given, n) ==
  LET args == [i \in DOMAIN b.nodes[n].inputs |-> Meaning(b, given, b.nodes[n].inputs[i])]
  IN  IF b.nodes[n].op.name = "Input" THEN {given[n]}
      ELSE IF \E i \in DOMAIN args : args[i] = {} THEN {}
      ELSE Compute(b.nodes[n].op, [i \in DOMAIN args |-> The(args[i])])

(* The inputs agree with their specifications, and on what a symbol is.     *)
Agreeing(b, given, ns) ==
  \E size \in Sizes : \A n \in ns : /\ Matches(given[n], b.nodes[n].spec, <<>>)
                                   /\ Describes(b.nodes[n].spec, given[n], [s \in {"n"} |-> size])

Finished == UNION {{<<b, g>> : g \in Finish(b)} : b \in UNION {Builders[n] : n \in 0 .. 4}}

(* What a value is made of. *)
RECURSIVE Upstream(_, _)
Upstream(b, n) == {n} \cup UNION {Upstream(b, m) : m \in Producers(b, n)}

(* GraphBuilder::finish takes every graph that has an output: the calls have *)
(* refused all that its validation and its second inference would refuse,    *)
(* and that inference, made over live nodes only, finds what they found.     *)
(* Exactly what an output is made of stays active, in the order of calls.    *)
ASSUME FinishAccepts ==
  \A n \in 0 .. 4 : \A b \in Builders[n] :
    /\ (Finish(b) = {}) = (b.outputs = <<>>)
    /\ \A g \in Finish(b) :
         /\ \A m \in DOMAIN b.nodes : g.nodes[m].spec = b.nodes[m].spec
         /\ Active(g) = UNION {Upstream(b, o) : o \in Range(b.outputs)}
         /\ TopologicalOrder(g) = {SetToSortSeq(Active(g), <)}

(* EagerExecutor::execute of a finished graph fails only by its inputs, or   *)
(* by an operation on them; else each live node's value is what it means in  *)
(* the graph as it was built, and is as its specification says.             *)
Shapes2 == {<<>>, <<1>>, <<2>>, <<3>>, <<1, 2>>}

ASSUME ExecutionMeans ==
  \A pair \in Finished : \A shapes \in [pair[1].inputs -> Shapes2] :
    LET b     == pair[1]
        g     == pair[2]
        given == [n \in g.inputs |-> Tensor(shapes[n], "Float", n)]
        run   == Execute(g, given)
    IN  /\ run.error \in {"", "input", "operation"}
        /\ (run.error = "") = /\ Agreeing(b, given, g.inputs \cap Active(g))
                              /\ \A n \in Active(g) : Meaning(b, given, n) # {}
        /\ run.error = "" =>
             \A n \in Active(g) : /\ Meaning(b, given, n) = {run.values[n]}
                                  /\ Describes(g.nodes[n].spec, run.values[n], run.symbols)
=============================================================================
