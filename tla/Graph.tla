------------------------------- MODULE Graph --------------------------------
(***************************************************************************)
(* Computation graphs (graph/mod.rs): a builder that adds one node per call *)
(* and infers what it can of the node's shape, the validation, the order in *)
(* which nodes run, the two passes that finish a graph, and the executor.   *)
(*                                                                         *)
(* An Option is a set of at most one element; an operation that returns an  *)
(* error yields the empty set. Nodes and values are numbered from 1.        *)
(***************************************************************************)
EXTENDS Integers, Sequences, FiniteSets, FiniteSetsExt, SequencesExt

The(option) == CHOOSE x \in option : TRUE

(* The first of two options that is there, unless they contradict.          *)
Agree(a, b) == a = {} \/ b = {} \/ a = b
Either(a, b) == IF a # {} THEN a ELSE b

-----------------------------------------------------------------------------
(* What is known of a tensor before there is one.                           *)

Known(n)  == [kind |-> "known", size |-> n]
Symbol(s) == [kind |-> "symbol", name |-> s]
Dynamic   == [kind |-> "dynamic"]

IsKnown(d) == d.kind = "known"

TensorSpec(dims, rank, kind, device) == [dims |-> dims, rank |-> rank, kind |-> kind, device |-> device]

RankOf(s) == IF s.dims # {} THEN {Len(The(s.dims))} ELSE s.rank

(* TensorSpec::validate. *)
ValidSpec(s) ==
  \A ds \in s.dims : /\ \A n \in s.rank : n = Len(ds)
                     /\ \A i \in DOMAIN ds : IsKnown(ds[i]) => ds[i].size >= 0

(* normalize_dim: a negative dimension counts from the end. *)
NormalizeDim(dim, rank) == {n \in 1 .. rank : n = IF dim < 0 THEN rank + dim + 1 ELSE dim + 1}

BroadcastDim(l, r) ==
  CASE l = Known(1)                            -> {r}
    [] l # Known(1) /\ r = Known(1)            -> {l}
    [] IsKnown(l) /\ IsKnown(r) /\ 1 \notin {l.size, r.size} -> {l} \cap {r}
    [] OTHER -> {IF l = r THEN l ELSE Dynamic}

(* broadcast_dimensions aligns the dimensions at their ends. *)
BroadcastDims(l, r) ==
  LET n     == Max({Len(l), Len(r)})
      at(s) == [i \in n - Len(s) + 1 .. n |-> s[i - (n - Len(s))]]
      d     == [i \in 1 .. n |-> IF i \notin DOMAIN at(l) THEN {at(r)[i]}
                                 ELSE IF i \notin DOMAIN at(r) THEN {at(l)[i]}
                                 ELSE BroadcastDim(at(l)[i], at(r)[i])]
  IN  IF \E i \in 1 .. n : d[i] = {} THEN {} ELSE {[i \in 1 .. n |-> The(d[i])]}

InferBinary(l, r) ==
  LET both == l.dims # {} /\ r.dims # {}
      dims == IF both THEN BroadcastDims(The(l.dims), The(r.dims)) ELSE {}
      rank == IF both THEN {Len(ds) : ds \in dims}
              ELSE {Max({m, n}) : m \in RankOf(l), n \in RankOf(r)}
  IN  IF Agree(l.kind, r.kind) /\ Agree(l.device, r.device) /\ (both => dims # {})
      THEN {TensorSpec(dims, rank, Either(l.kind, r.kind), Either(l.device, r.device))}
      ELSE {}

(* The sum of the joined dimension, if every one is known; a dimension that *)
(* is not known is that of the first.                                      *)
ConcatDims(dimss, dim) ==
  LET joined == IF \A k \in DOMAIN dimss : IsKnown(dimss[k][dim])
                THEN Known(FoldSeq(LAMBDA ds, n : n + ds[dim].size, 0, dimss)) ELSE Dynamic
      clash  == \E k \in DOMAIN dimss, i \in DOMAIN dimss[1] \ {dim} :
                  LET l == dimss[1][i] r == dimss[k][i]
                  IN  IsKnown(l) /\ IsKnown(r) /\ l # r
  IN  IF clash THEN {} ELSE {[dimss[1] EXCEPT ![dim] = joined]}

(* infer_concat_spec: without the first rank, the first is all it says; and *)
(* it looks no further than the first input whose dimensions are unknown.   *)
InferConcat(specs, dim) ==
  LET first  == specs[1]
      merged(field(_)) == FoldSeq(LAMBDA s, a : Either(a, field(s)), {}, specs)
      agree(field(_))  == \A i, k \in DOMAIN specs : Agree(field(specs[i]), field(specs[k]))
      kind(s)   == s.kind
      device(s) == s.device
      unknown == SelectInSeq(specs, LAMBDA s : s.dims = {})
      prefix == IF unknown = 0 THEN specs ELSE SubSeq(specs, 1, unknown - 1)
      at     == UNION {NormalizeDim(dim, rank) : rank \in RankOf(first)}
      dims   == IF prefix = <<>> THEN {}
                ELSE ConcatDims([k \in DOMAIN prefix |-> The(prefix[k].dims)], The(at))
  IN  IF ~agree(kind) \/ ~agree(device)
         \/ \E k \in DOMAIN specs : ~Agree(RankOf(first), RankOf(specs[k]))
      THEN {}
      ELSE IF RankOf(first) = {} THEN {first}
      ELSE IF at = {} \/ (prefix # <<>> /\ dims = {}) THEN {}
      ELSE {TensorSpec(IF prefix = specs THEN dims ELSE {}, RankOf(first),
                 merged(kind), merged(device))}

InferFlatten(s, startDim, endDim) ==
  LET rank   == The(RankOf(s))
      start  == NormalizeDim(startDim, rank)
      end    == NormalizeDim(endDim, rank)
      Flat(ds) ==
        LET part == SubSeq(ds, The(start), The(end))
            size == IF \A i \in DOMAIN part : IsKnown(part[i])
                    THEN Known(FoldSeq(LAMBDA d, n : n * d.size, 1, part)) ELSE Dynamic
        IN  SubSeq(ds, 1, The(start) - 1) \o <<size>> \o SubSeq(ds, The(end) + 1, rank)
  IN  IF RankOf(s) = {} THEN {s}
      ELSE IF start = {} \/ end = {} THEN {}
      ELSE IF The(start) > The(end) THEN {}
      ELSE {TensorSpec({Flat(ds) : ds \in s.dims}, {rank - (The(end) - The(start))}, s.kind, s.device)}

InferLinear(s, out) ==
  [s EXCEPT !.dims = {IF ds = <<>> THEN ds ELSE [ds EXCEPT ![Len(ds)] = Known(out)] : ds \in @}]

-----------------------------------------------------------------------------
(* Nodes and graphs.                                                       *)

Unary  == {"Output", "Identity", "ReLU", "Gelu", "Dropout"}
Binary == {"Add", "Subtract", "Multiply"}
Losses == {"MseLoss", "CrossEntropyLoss"}

(* infer_node_spec. *)
InferNode(op, current, specs) ==
  CASE op.name \in {"Input"} \cup Losses -> {current}
    [] op.name \in Unary                 -> {specs[1]}
    [] op.name = "Linear"                -> {InferLinear(specs[1], op.out)}
    [] op.name = "Flatten"               -> InferFlatten(specs[1], op.start, op.end)
    [] op.name \in Binary                -> InferBinary(specs[1], specs[2])
    [] op.name = "Concatenate"           -> InferConcat(specs, op.dim)

Arity(op) ==
  CASE op.name = "Input"                  -> {0}
    [] op.name \in Unary \cup {"Linear", "Flatten"} -> {1}
    [] op.name \in Binary \cup Losses     -> {2}
    [] op.name = "Concatenate"            -> {}

Active(g) == {n \in DOMAIN g.nodes : g.nodes[n].active}

Producers(g, n) == Range(g.nodes[n].inputs)

(* topological_order: of the nodes whose active producers have all run, the *)
(* one with the least number is next. An input used twice counts twice.     *)
Edges(g, n, producers) == Cardinality({i \in DOMAIN g.nodes[n].inputs :
                                         g.nodes[n].inputs[i] \in producers})

RECURSIVE Ordered(_, _, _, _)
Ordered(g, order, ready, indegree) ==
  IF ready = {} THEN order
  ELSE LET id   == Min(ready)
           left == [n \in DOMAIN indegree |-> indegree[n] - Edges(g, n, {id})]
           next == {n \in DOMAIN indegree : indegree[n] > 0 /\ left[n] = 0}
       IN  Ordered(g, Append(order, id), (ready \ {id}) \cup next, left)

TopologicalOrder(g) ==
  LET indegree == [n \in Active(g) |-> Edges(g, n, Active(g))]
      order    == Ordered(g, <<>>, {n \in Active(g) : indegree[n] = 0}, indegree)
  IN  IF Len(order) = Cardinality(Active(g)) THEN {order} ELSE {}

(* reachable_nodes: what is computed once the inputs are given. *)
ReachableNodes(g) ==
  {FoldLeft(LAMBDA r, n : IF g.nodes[n].op.name = "Input" \/ Producers(g, n) \subseteq Range(r)
                          THEN Append(r, n) ELSE r,
            <<>>, order) : order \in TopologicalOrder(g)}

ValidName(name) == name \notin {"", "."}

ValidNode(g, n) ==
  LET node == g.nodes[n]
  IN  /\ ValidName(node.name)
      /\ \A m \in DOMAIN g.nodes \ {n} : g.nodes[m].name # node.name
      /\ ValidSpec(node.spec)
      /\ \A k \in Arity(node.op) : Len(node.inputs) = k
      /\ node.op.name = "Concatenate" => node.inputs # <<>>
      /\ Producers(g, n) \subseteq DOMAIN g.nodes
      /\ node.op.name = "Dropout" => node.op.percent \in 0 .. 100

(* Graph::validate. *)
ValidGraph(g) ==
  /\ g.outputs # <<>> /\ Range(g.outputs) \subseteq DOMAIN g.nodes
  /\ \A n \in DOMAIN g.nodes : ValidNode(g, n)
  /\ \E nodes \in ReachableNodes(g) : Range(g.outputs) \subseteq Range(nodes)

-----------------------------------------------------------------------------
(* The builder.                                                            *)

NewBuilder == [nodes |-> <<>>, inputs |-> {}, outputs |-> <<>>]

Names(b) == {b.nodes[n].name : n \in DOMAIN b.nodes}

(* push_node. *)
PushNode(b, name, op, inputs, spec) ==
  IF ValidName(name) /\ name \notin Names(b)
  THEN {[b EXCEPT !.nodes = Append(@, [name |-> name, op |-> op, inputs |-> inputs,
                                       spec |-> spec, active |-> TRUE])]}
  ELSE {}

(* loss: a scalar of the kind of the first input. *)
LossSpec(op, left, right) ==
  IF op.name = "MseLoss" /\ ~Agree(left.kind, right.kind) THEN {}
  ELSE IF op.name = "CrossEntropyLoss" /\ ~Agree(right.kind, {"Int64"}) THEN {}
  ELSE {TensorSpec({<<>>}, {0}, Either(left.kind, {"Float"}), {})}

(* What each call checks of the inputs, and the specification it infers.    *)
CallSpec(op, spec, specs) ==
  CASE op.name = "Input"       -> {s \in {spec} : ValidSpec(s)}
    [] op.name = "Linear"      ->
         {InferLinear(s, op.out) :
            s \in {t \in {specs[1]} :
                     /\ op.in >= 0 /\ op.out >= 0
                     /\ \A ds \in t.dims :
                          ds # <<>> /\ IsKnown(Last(ds)) => Last(ds).size = op.in}}
    [] op.name = "Dropout"     -> IF op.percent \in 0 .. 100 THEN {specs[1]} ELSE {}
    [] op.name = "Concatenate" -> IF specs = <<>> THEN {} ELSE InferConcat(specs, op.dim)
    [] op.name \in Losses      -> LossSpec(op, specs[1], specs[2])
    [] OTHER                   -> InferNode(op, spec, specs)

(* One call of the builder: input, identity, linear_config, ..., add_output. *)
Call(b, name, op, inputs, spec) ==
  IF Range(inputs) \subseteq DOMAIN b.nodes
  THEN LET specs == [i \in DOMAIN inputs |-> b.nodes[inputs[i]].spec]
           made  == UNION {PushNode(b, name, op, inputs, s) : s \in CallSpec(op, spec, specs)}
           id    == Len(b.nodes) + 1
       IN  {CASE op.name = "Input"  -> [c EXCEPT !.inputs = @ \cup {id}]
              [] op.name = "Output" -> [c EXCEPT !.outputs = Append(@, id)]
              [] OTHER              -> c : c \in made}
  ELSE {}

-----------------------------------------------------------------------------
(* The passes.                                                             *)

(* DeadNodeElimination: from the outputs back to the inputs of what is live. *)
RECURSIVE Live(_, _)
Live(g, values) ==
  LET more == values \cup UNION {Producers(g, n) : n \in values}
  IN  IF more = values THEN values ELSE Live(g, more)

DeadNodeElimination(g) ==
  LET live == Live(g, Range(g.outputs))
  IN  [g EXCEPT !.nodes = [n \in DOMAIN @ |-> [@[n] EXCEPT !.active = n \in live]]]

(* ShapePropagation: each node in its order, from what is known of its       *)
(* inputs by then.                                                         *)
ShapePropagation(g) ==
  LET Propagate(gs, n) ==
        UNION {LET node  == h.nodes[n]
                   specs == [i \in DOMAIN node.inputs |-> h.nodes[node.inputs[i]].spec]
               IN  {[h EXCEPT !.nodes[n].spec = s] : s \in InferNode(node.op, node.spec, specs)}
               : h \in gs}
  IN  UNION {FoldLeft(Propagate, {g}, order) : order \in TopologicalOrder(g)}

(* finish. *)
Finish(b) ==
  IF ValidGraph(b)
  THEN {g \in ShapePropagation(DeadNodeElimination(b)) : ValidGraph(g)}
  ELSE {}

-----------------------------------------------------------------------------
(* The executor. A tensor is its shape, its kind and the term it computes.  *)

Tensor(shape, kind, term) == [shape |-> shape, kind |-> kind, term |-> term]

(* libtorch: the shape of a sum, sizes of one being repeated. *)
Broadcast(l, r) ==
  LET n       == Max({Len(l), Len(r)})
      at(s,i) == IF i <= n - Len(s) THEN 1 ELSE s[i - (n - Len(s))]
  IN  IF \A i \in 1 .. n : at(l, i) = at(r, i) \/ 1 \in {at(l, i), at(r, i)}
      THEN {[i \in 1 .. n |-> IF at(l, i) = 1 THEN at(r, i) ELSE at(l, i)]}
      ELSE {}

Promoted(kinds) == IF "Float" \in kinds THEN "Float" ELSE The(kinds)

Concatenated(shapes, dim) ==
  {[shapes[1] EXCEPT ![d] = FoldSeq(LAMBDA s, n : n + s[d], 0, shapes)]
    : d \in {e \in NormalizeDim(dim, Len(shapes[1])) :
               \A k \in DOMAIN shapes :
                 /\ Len(shapes[k]) = Len(shapes[1])
                 /\ \A i \in DOMAIN shapes[1] \ {e} : shapes[k][i] = shapes[1][i]}}

Flattened(shape, startDim, endDim) ==
  IF shape = <<>> THEN IF {startDim, endDim} \subseteq {-1, 0} THEN {<<1>>} ELSE {} ELSE
  {SubSeq(shape, 1, s - 1) \o <<FoldSeq(LAMBDA d, n : n * d, 1, SubSeq(shape, s, e))>>
     \o SubSeq(shape, e + 1, Len(shape))
    : s \in NormalizeDim(startDim, Len(shape)),
      e \in {x \in NormalizeDim(endDim, Len(shape)) :
               \A y \in NormalizeDim(startDim, Len(shape)) : y <= x}}

(* The shapes that libtorch returns, or refuses to. *)
Shapes(op, shapes, kinds) ==
  CASE op.name \in Unary         -> {shapes[1]}
    [] op.name = "Linear"        -> {[s EXCEPT ![Len(s)] = op.out] :
                                       s \in {t \in {shapes[1]} : t # <<>> /\ Last(t) = op.in}}
    [] op.name = "Flatten"       -> Flattened(shapes[1], op.start, op.end)
    [] op.name \in Binary        -> Broadcast(shapes[1], shapes[2])
    [] op.name = "Concatenate"   -> Concatenated(shapes, op.dim)
    [] op.name = "MseLoss"       ->
         IF Broadcast(shapes[1], shapes[2]) # {} /\ "Float" \in Range(kinds) THEN {<<>>} ELSE {}
    [] op.name = "CrossEntropyLoss" ->
         IF /\ kinds = <<"Float", "Int64">> /\ Len(shapes[1]) \in {1, 2}
            /\ shapes[2] = SubSeq(shapes[1], 1, Len(shapes[1]) - 1)
         THEN {<<>>} ELSE {}

Compute(op, tensors) ==
  LET shapes == [i \in DOMAIN tensors |-> tensors[i].shape]
      kinds  == [i \in DOMAIN tensors |-> tensors[i].kind]
      terms  == [i \in DOMAIN tensors |-> tensors[i].term]
      term   == IF op.name \in {"Output", "Identity"} THEN terms[1] ELSE <<op, terms>>
  IN  {Tensor(s, Promoted(Range(kinds)), term) : s \in Shapes(op, shapes, kinds)}

(* validate_runtime_spec: what a tensor must be to be an input, and which    *)
(* size its symbols then stand for.                                        *)
Matches(tensor, spec, symbols) ==
  /\ spec.kind \subseteq {tensor.kind} /\ RankOf(spec) \subseteq {Len(tensor.shape)}
  /\ \A ds \in spec.dims : \A i \in DOMAIN ds :
       /\ IsKnown(ds[i]) => ds[i].size = tensor.shape[i]
       /\ ds[i].kind = "symbol" =>
            /\ ds[i].name \in DOMAIN symbols => symbols[ds[i].name] = tensor.shape[i]
            /\ \A j \in 1 .. i - 1 : ds[j] = ds[i] => tensor.shape[j] = tensor.shape[i]

Bound(tensor, spec, symbols) ==
  LET new == UNION {{<<ds[i].name, tensor.shape[i]>> :
                       i \in {j \in DOMAIN ds : ds[j].kind = "symbol"}} : ds \in spec.dims}
      names == DOMAIN symbols \cup {p[1] : p \in new}
  IN  [s \in names |-> IF s \in DOMAIN symbols THEN symbols[s]
                       ELSE (CHOOSE p \in new : p[1] = s)[2]]

(* One node: the run ends in an error of the input's specification or of    *)
(* the operation, or would end in an input that has no value.              *)
RunNode(g, given, n, run) ==
  LET node    == g.nodes[n]
      missing == Producers(g, n) \ DOMAIN run.values
      args    == [i \in DOMAIN node.inputs |-> run.values[node.inputs[i]]]
      put(t)  == [run EXCEPT !.values = [v \in DOMAIN @ \cup {n} |-> IF v = n THEN t ELSE @[v]]]
      stop(e) == [run EXCEPT !.error = e]
  IN  CASE run.error # "" -> run
        [] run.error = "" /\ node.op.name = "Input" ->
             IF Matches(given[n], node.spec, run.symbols)
             THEN [put(given[n]) EXCEPT !.symbols = Bound(given[n], node.spec, @)]
             ELSE stop("input")
        [] run.error = "" /\ node.op.name # "Input" ->
             IF missing # {} THEN stop("missing")
             ELSE LET out == Compute(node.op, args)
                  IN  IF out = {} THEN stop("operation") ELSE put(The(out))

(* EagerExecutor::execute, with given a tensor for each of the graph's       *)
(* inputs, the dead ones included.                                         *)
Execute(g, given) ==
  LET start == [values |-> <<>>, symbols |-> <<>>, error |-> ""]
  IN  IF ~ValidGraph(g) THEN [start EXCEPT !.error = "invalid"]
      ELSE IF DOMAIN given \ g.inputs # {} THEN [start EXCEPT !.error = "unexpected"]
      ELSE IF g.inputs \ DOMAIN given # {} THEN [start EXCEPT !.error = "missing input"]
      ELSE LET run == FoldLeft(LAMBDA r, n : RunNode(g, given, n, r), start,
                               The(TopologicalOrder(g)))
           IN  IF run.error = "" /\ ~(Range(g.outputs) \subseteq DOMAIN run.values)
               THEN [run EXCEPT !.error = "missing"] ELSE run

=============================================================================
