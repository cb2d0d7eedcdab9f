----------------------------- MODULE Deployment -----------------------------
(***************************************************************************)
(* Portable programs (deployment/mod.rs): their validation, the lowering of *)
(* a graph, evaluation behind the guards of the inputs, the symbolic shapes *)
(* of an export, and named state as views of shared storages.               *)
(*                                                                         *)
(* Options and tensors are those of Graph; all tensors are on one device. A *)
(* storage counts elements. The code's arithmetic is checked: an overflow is *)
(* an error like the others.                                               *)
(***************************************************************************)
EXTENDS Graph

CONSTANTS
  MaxNodes, MaxDepth,   \* MAX_NODES, MAX_DEPTH
  MaxRank, MaxBytes     \* 64, MAX_BYTES

ASSUME LimitsAssumption == {MaxNodes, MaxDepth, MaxRank, MaxBytes} \subseteq Nat

-----------------------------------------------------------------------------
(* Programs.                                                               *)

(* Dimension::Symbol: the bound max is an option. *)
Ranged(name, min, max) == [kind |-> "symbol", name |-> name, min |-> min, max |-> max]

ValueSpec(name, kind, dims) == [name |-> name, kind |-> kind, dims |-> dims]

(* Tree: a tuple or list has no keys. *)
Leaf(name) == [kind |-> "tensor", name |-> name]
Nest(keys, kids) == [kind |-> "nest", keys |-> keys, kids |-> kids]
Tuple(kids) == Nest(<<>>, kids)

RECURSIVE Walk(_, _, _)
Walk(t, depth, out) ==
  IF depth > MaxDepth \/ Len(out) > MaxNodes THEN {}
  ELSE IF t.kind = "tensor" THEN {Append(out, t.name)}
  ELSE IF ~IsInjective(t.keys) THEN {}
  ELSE FoldLeft(LAMBDA outs, kid : UNION {Walk(kid, depth + 1, o) : o \in outs}, {out}, t.kids)

Leaves(t) == Walk(t, 0, <<>>)

Operation(name, op, inputs) == [name |-> name, op |-> op, inputs |-> inputs]

NamesOf(specs) == [i \in DOMAIN specs |-> specs[i].name]

(* Program::new *)
Program(inputs, operations, outputTree) ==
  [version |-> 1, operatorVersion |-> 1, inputs |-> inputs,
   inputTree |-> Tuple([i \in DOMAIN inputs |-> Leaf(inputs[i].name)]),
   operations |-> operations, outputTree |-> outputTree]

-----------------------------------------------------------------------------
(* Program::validate.                                                      *)

Elementwise == {"Identity", "ReLU", "Sigmoid", "Tanh"}

ValidDim(d) ==
  IF IsKnown(d) THEN d.size >= 0
  ELSE d.name # "" /\ d.min >= 0 /\ \A n \in d.max : n >= d.min

ValidInputs(p, state) ==
  /\ \A i \in DOMAIN p.inputs : /\ p.inputs[i].name # "" /\ p.inputs[i].name \notin state
                                /\ Len(p.inputs[i].dims) <= MaxRank
                                /\ \A j \in DOMAIN p.inputs[i].dims : ValidDim(p.inputs[i].dims[j])
  /\ IsInjective(NamesOf(p.inputs))
  /\ Leaves(p.inputTree) = {NamesOf(p.inputs)}

(* The attributes and the number of operands, for all but a conditional. *)
Fits(op, arity) ==
  CASE op.name \in Elementwise \cup {"Transpose", "Flatten"} -> arity = 1
    [] op.name = "Reshape" -> /\ arity = 1 /\ Len(op.shape) <= MaxRank
                              /\ \A i \in DOMAIN op.shape : op.shape[i] >= -1
                              /\ Cardinality({i \in DOMAIN op.shape : op.shape[i] = -1}) <= 1
    [] op.name = "Permute" -> /\ arity = 1 /\ Len(op.axes) <= MaxRank
                              /\ Range(op.axes) = 0 .. Len(op.axes) - 1
    [] op.name \in Binary \cup {"Matmul"} -> arity = 2
    [] op.name = "Linear"      -> arity \in {2, 3}
    [] op.name = "Concatenate" -> arity > 0

(* The nodes counted by the end, of a valid program; a conditional counts    *)
(* its branches and its result.                                            *)
RECURSIVE Validated(_, _, _, _)
Validated(p, state, depth, budget) ==
  LET counted == budget + Len(p.operations) + Len(p.inputs)
      InBranches(op, arity, n) ==
        {c \in UNION {UNION {Validated(Program(<<op.result>>, <<>>, Leaf(op.result.name)), {}, depth + 1, b)
                               : b \in Validated(op.else, state, depth + 1, a)}
                        : a \in Validated(op.then, state, depth + 1, n)} :
           /\ op.then.inputs = op.else.inputs /\ arity = Len(op.then.inputs) + 1
           /\ \A branch \in {op.then, op.else} : \A out \in Leaves(branch.outputTree) : Len(out) = 1}
      Next(sofar, node) ==
        {[names |-> r.names \cup {node.name}, budget |-> n] :
           <<r, n>> \in UNION {{r} \X (IF node.op.name = "If"
                                       THEN InBranches(node.op, Len(node.inputs), r.budget)
                                       ELSE IF Fits(node.op, Len(node.inputs)) THEN {r.budget} ELSE {}) :
                                 r \in {q \in sofar : /\ node.name \notin q.names \cup {""}
                                                      /\ Range(node.inputs) \subseteq q.names}}}
      start == {[names |-> state \cup Range(NamesOf(p.inputs)), budget |-> counted]}
  IN  IF /\ p.version = 1 /\ p.operatorVersion = 1 /\ depth <= MaxDepth /\ counted <= MaxNodes
         /\ ValidInputs(p, state)
      THEN {r.budget : r \in {q \in FoldLeft(Next, start, p.operations) :
                                \E out \in Leaves(p.outputTree) : out # <<>> /\ Range(out) \subseteq q.names}}
      ELSE {}

ValidProgram(p, state) == Validated(p, state, 0, 0) # {}

-----------------------------------------------------------------------------
(* from_graph: the portable program of a finished graph. Its parameters are  *)
(* named after their node.                                                 *)

Weight(name) == name \o ".weight"
Bias(name)   == name \o ".bias"

LowerDim(d) == CASE d.kind = "known"   -> {d}
                 [] d.kind = "symbol"  -> {Ranged(d.name, 0, {})}
                 [] d.kind = "dynamic" -> {}

LowerInput(node) ==
  {ValueSpec(node.name, kind, [i \in DOMAIN ds |-> The(LowerDim(ds[i]))]) :
     <<kind, ds>> \in {x \in node.spec.kind \X node.spec.dims : \A i \in DOMAIN x[2] : LowerDim(x[2][i]) # {}}}

LowerNode(g, n) ==
  LET node     == g.nodes[n]
      operands == [i \in DOMAIN node.inputs |-> g.nodes[node.inputs[i]].name]
      As(op, inputs) == {Operation(node.name, op, inputs)}
  IN  CASE node.op.name \in {"Identity", "Output", "Dropout"} -> As([name |-> "Identity"], operands)
        [] node.op.name \in {"ReLU", "Flatten", "Concatenate"} \cup Binary -> As(node.op, operands)
        [] node.op.name = "Linear" ->
             As([name |-> "Linear"],
                operands \o <<Weight(node.name)>> \o (IF node.op.bias THEN <<Bias(node.name)>> ELSE <<>>))
        [] OTHER -> {}

(* Every input is declared, those that nothing uses included. Inputs and    *)
(* outputs are in the order of their names, which here is that of the nodes. *)
FromGraph(g, training) ==
  LET order   == SelectSeq(The(TopologicalOrder(g)), LAMBDA n : g.nodes[n].op.name # "Input")
      given   == SetToSortSeq(g.inputs, <)
      inputs  == [i \in DOMAIN given |-> LowerInput(g.nodes[given[i]])]
      lowered == [i \in DOMAIN order |-> LowerNode(g, order[i])]
      names   == [i \in DOMAIN g.outputs |-> g.nodes[g.outputs[i]].name]
  IN  IF training \/ {} \in Range(inputs) \cup Range(lowered) THEN {}
      ELSE {Program([i \in DOMAIN inputs |-> The(inputs[i])], [i \in DOMAIN lowered |-> The(lowered[i])],
                    Nest(names, [i \in DOMAIN names |-> Leaf(names[i])]))}

-----------------------------------------------------------------------------
(* check_inputs: the guards of the inputs of a program or of a branch. One   *)
(* name has one size wherever it occurs.                                   *)

SymbolSizes(specs, inputs) ==
  UNION {{<<specs[i].dims[j].name, inputs[i].shape[j]>> :
            j \in {k \in DOMAIN specs[i].dims : ~IsKnown(specs[i].dims[k])}} : i \in DOMAIN specs}

InDim(n, d) == IF IsKnown(d) THEN n = d.size ELSE n >= d.min /\ \A max \in d.max : n <= max

CheckInputs(specs, inputs) ==
  /\ Len(specs) = Len(inputs)
  /\ \A i \in DOMAIN specs : /\ inputs[i].kind = specs[i].kind
                             /\ Len(inputs[i].shape) = Len(specs[i].dims)
                             /\ \A j \in DOMAIN specs[i].dims : InDim(inputs[i].shape[j], specs[i].dims[j])
  /\ \A x, y \in SymbolSizes(specs, inputs) : x[1] = y[1] => x = y

-----------------------------------------------------------------------------
(* libtorch: the shape of a result, or none where it refuses.               *)

Product(ns) == FoldSeq(LAMBDA n, product : n * product, 1, ns)

(* One dimension of -1 is what is left of the elements. *)
Reshaped(shape, to) ==
  LET given == Product(SelectSeq(to, LAMBDA n : n # -1))
      rest  == IF given > 0 /\ Product(shape) % given = 0 THEN {Product(shape) \div given} ELSE {}
  IN  IF -1 \in Range(to) THEN {[i \in DOMAIN to |-> IF to[i] = -1 THEN n ELSE to[i]] : n \in rest}
      ELSE IF given = Product(shape) THEN {to} ELSE {}

Swapped(s, i, j) == [s EXCEPT ![i] = s[j], ![j] = s[i]]

(* A vector is a row on the left and a column on the right. *)
MatmulShapes(l, r) ==
  LET a == IF Len(l) = 1 THEN <<1>> \o l ELSE l
      b == IF Len(r) = 1 THEN Append(r, 1) ELSE r
      batch(s) == SubSeq(s, 1, Len(s) - 2)
      row == IF Len(l) = 1 THEN <<>> ELSE <<a[Len(a) - 1]>>
      col == IF Len(r) = 1 THEN <<>> ELSE <<Last(b)>>
  IN  IF <<>> \in {l, r} THEN {}
      ELSE IF Last(a) # b[Len(b) - 1] THEN {}
      ELSE {s \o row \o col : s \in Broadcast(batch(a), batch(b))}

LinearShapes(x, weight, biases) ==
  LET out == {[x EXCEPT ![Len(x)] = weight[1]] : w \in {v \in {weight} : Len(v) = 2 /\ x # <<>>}}
  IN  {s \in out : Last(x) = weight[2] /\ \A b \in biases : Broadcast(s, b) = {s}}

ResultShapes(op, s) ==
  CASE op.name \in Elementwise   -> {s[1]}
    [] op.name \in Binary        -> Broadcast(s[1], s[2])
    [] op.name = "Matmul"        -> MatmulShapes(s[1], s[2])
    [] op.name = "Linear"        -> LinearShapes(s[1], s[2], Range(SubSeq(s, 3, Len(s))))
    [] op.name = "Reshape"       -> Reshaped(s[1], op.shape)
    [] op.name = "Flatten"       -> Flattened(s[1], op.start, op.end)
    [] op.name = "Transpose"     -> {Swapped(s[1], i, j) : i \in NormalizeDim(op.dim0, Len(s[1])),
                                                          j \in NormalizeDim(op.dim1, Len(s[1]))}
    [] op.name = "Permute"       -> IF Len(op.axes) = Len(s[1])
                                    THEN {[i \in DOMAIN s[1] |-> s[1][op.axes[i] + 1]]} ELSE {}
    [] op.name = "Concatenate"   -> Concatenated(s, op.dim)

(* Numbers of one kind, or of two where they are promoted. *)
ResultKinds(op, kinds) ==
  CASE op.name \in {"Sigmoid", "Tanh"}            -> {"Float"}
    [] op.name \in {"Matmul", "Linear"}           -> {k \in {kinds[1]} : Range(kinds) = {k}}
    [] op.name \in Binary \cup {"Concatenate"}    -> {Promoted(Range(kinds))}
    [] OTHER                                      -> {kinds[1]}

Computed(op, args) ==
  LET term == IF op.name = "Identity" THEN args[1].term ELSE <<op, [i \in DOMAIN args |-> args[i].term]>>
  IN  {Tensor(s, k, term) : s \in ResultShapes(op, [i \in DOMAIN args |-> args[i].shape]),
                            k \in ResultKinds(op, [i \in DOMAIN args |-> args[i].kind])}

-----------------------------------------------------------------------------
(* evaluate and execute. State is a function of names; truths are the terms  *)
(* that are true. A name with no value would panic.                         *)

RECURSIVE Evaluate(_, _, _, _)
Evaluate(p, inputs, state, truths) ==
  LET stop(run, e) == [run EXCEPT !.error = e]
      put(run, name, t) == [run EXCEPT !.values = [n \in DOMAIN @ \cup {name} |->
                                                     IF n = name THEN t ELSE @[n]]]
      Branch(run, node, args) ==
        LET branch == IF args[1].term \in truths THEN node.op.then ELSE node.op.else
            inner  == Evaluate(branch, Tail(args), state, truths)
            out    == inner.outputs[1]
        IN  IF args[1].kind # "Bool" \/ args[1].shape # <<>> THEN stop(run, "predicate")
            ELSE IF inner.error # "" THEN stop(run, inner.error)
            ELSE IF ~CheckInputs(Append(branch.inputs, node.op.result), Append(Tail(args), out))
                 THEN stop(run, "result")
            ELSE put(run, node.name, out)
      Step(run, node) ==
        LET args == [i \in DOMAIN node.inputs |-> run.values[node.inputs[i]]]
            outs == Computed(node.op, args)
        IN  IF run.error # "" THEN run
            ELSE IF ~(Range(node.inputs) \subseteq DOMAIN run.values) THEN stop(run, "panic")
            ELSE IF node.op.name = "If" THEN Branch(run, node, args)
            ELSE IF outs = {} THEN stop(run, "operation")
            ELSE put(run, node.name, The(outs))
      given == [n \in Range(NamesOf(p.inputs)) |-> inputs[CHOOSE i \in DOMAIN inputs : p.inputs[i].name = n]]
      fresh == [values |-> <<>>, outputs |-> <<>>, error |-> ""]
      run   == FoldLeft(Step, [fresh EXCEPT !.values = given @@ state], p.operations)
      names == The(Leaves(p.outputTree))
  IN  IF Len(inputs) # Len(p.inputs) THEN stop(fresh, "count")
      ELSE IF ~CheckInputs(p.inputs, inputs) THEN stop(fresh, "input")
      ELSE IF run.error # "" THEN run
      ELSE IF ~(Range(names) \subseteq DOMAIN run.values) THEN stop(run, "panic")
      ELSE [run EXCEPT !.outputs = [i \in DOMAIN names |-> run.values[names[i]]]]

(* trace: a program of one output and no conditional, over the state as it   *)
(* was, once it ran on the examples. *)
Trace(p, examples, state) ==
  {[program |-> q, guards |-> q.inputs, state |-> state] :
     q \in {r \in {p} : /\ Len(The(Leaves(r.outputTree))) = 1
                        /\ \A i \in DOMAIN r.operations : r.operations[i].op.name # "If"
                        /\ Evaluate(r, examples, state, {}).error = "" /\ examples # <<>>}}

(* TracedModel::load: the guards that were saved must be those of a program. *)
ValidGuards(inputs) ==
  ValidProgram(Program(inputs, <<>>, Tuple([i \in DOMAIN inputs |-> Leaf(inputs[i].name)])), {})

-----------------------------------------------------------------------------
(* infer_specs: what an export proves of each value, for every size of the  *)
(* symbols. Two dimensions are the same by their size or by their name.      *)

SameDim(a, b) == \/ IsKnown(a) /\ a = b
                 \/ ~IsKnown(a) /\ ~IsKnown(b) /\ a.name = b.name

ProvenDim(l, r) ==
  CASE l = Known(1)                     -> {r}
    [] l # Known(1) /\ r = Known(1)     -> {l}
    [] {l, r} \cap {Known(1)} = {}      -> {d \in {l} : SameDim(l, r)}

ProvenBroadcast(l, r) ==
  LET n     == Max({Len(l), Len(r)})
      at(s) == [i \in n - Len(s) + 1 .. n |-> s[i - (n - Len(s))]]
      d     == [i \in 1 .. n |-> IF i \notin DOMAIN at(l) THEN {at(r)[i]}
                                 ELSE IF i \notin DOMAIN at(r) THEN {at(l)[i]}
                                 ELSE ProvenDim(at(l)[i], at(r)[i])]
  IN  IF {} \in Range(d) THEN {} ELSE {[i \in 1 .. n |-> The(d[i])]}

SymbolsOf(dims) == SelectSeq(dims, LAMBDA d : ~IsKnown(d))
KnownCount(dims) == FoldSeq(LAMBDA d, n : IF IsKnown(d) THEN n * d.size ELSE n, 1, dims)

(* product: a symbol is a product only by itself. *)
ProductDim(dims) ==
  LET symbols == SymbolsOf(dims)
  IN  CASE KnownCount(dims) = 0                            -> {Known(0)}
        [] symbols = <<>> /\ KnownCount(dims) # 0          -> {Known(KnownCount(dims))}
        [] symbols # <<>> /\ KnownCount(dims) # 0          ->
             IF Len(symbols) = 1 /\ KnownCount(dims) = 1 THEN {symbols[1]} ELSE {}

ProvenMatmul(l, r) ==
  LET inner    == r[IF Len(r) > 1 THEN Len(r) - 1 ELSE 1]
      batch(s) == SubSeq(s, 1, Len(s) - 2)
      row == IF Len(l) > 1 THEN <<l[Len(l) - 1]>> ELSE <<>>
      col == IF Len(r) > 1 THEN <<Last(r)>> ELSE <<>>
  IN  IF <<>> \in {l, r} THEN {}
      ELSE IF ~SameDim(Last(l), inner) THEN {}
      ELSE {s \o row \o col : s \in ProvenBroadcast(batch(l), batch(r))}

ProvenLinear(x, weight, biases) ==
  IF x = <<>> \/ Len(weight) # 2 THEN {}
  ELSE IF ~SameDim(Last(x), weight[2]) \/ \E b \in biases : b # <<weight[1]>> THEN {}
  ELSE {[x EXCEPT ![Len(x)] = weight[1]]}

ProvenReshape(dims, shape) ==
  LET result  == [i \in DOMAIN shape |-> Known(shape[i])]
      divisor == Product(SelectSeq(shape, LAMBDA n : n # -1))
      known   == KnownCount(dims)
      symbols == SymbolsOf(dims)
      rest    == CASE Len(symbols) = 0 -> {Known(n) : n \in {m \in {known \div divisor} : known % divisor = 0}}
                   [] Len(symbols) = 1 -> {d \in {symbols[1]} : known = divisor}
                   [] Len(symbols) > 1 -> {}
  IN  IF -1 \in Range(shape)
      THEN IF divisor <= 0 THEN {}
           ELSE {[i \in DOMAIN shape |-> IF shape[i] = -1 THEN d ELSE result[i]] : d \in rest}
      ELSE IF ProductDim(dims) # {} /\ ProductDim(dims) = ProductDim(result) THEN {result} ELSE {}

ProvenFlatten(dims, startDim, endDim) ==
  {SubSeq(dims, 1, x[1] - 1) \o <<x[3]>> \o SubSeq(dims, x[2] + 1, Len(dims)) :
     x \in UNION {{s} \X {e} \X (IF s <= e THEN ProductDim(SubSeq(dims, s, e)) ELSE {}) :
                    s \in NormalizeDim(startDim, Len(dims)), e \in NormalizeDim(endDim, Len(dims))}}

(* A known sum, or one symbol among zeros. *)
ProvenCat(dimss, dim) ==
  LET first == dimss[1]
      Sum(totals, d) ==
        UNION {CASE IsKnown(t) /\ IsKnown(d)                     -> {Known(t.size + d.size)}
                 [] Known(0) \in {t, d} /\ ~(IsKnown(t) /\ IsKnown(d)) -> {t, d} \ {Known(0)}
                 [] OTHER                                        -> {} : t \in totals}
      Fit(k, a) == /\ Len(dimss[k]) = Len(first)
                   /\ \A i \in DOMAIN first \ {a} : SameDim(first[i], dimss[k][i])
  IN  UNION {IF \A k \in DOMAIN dimss : Fit(k, a)
             THEN {[first EXCEPT ![a] = t] :
                     t \in FoldLeft(Sum, {Known(0)}, [k \in DOMAIN dimss |-> dimss[k][a]])}
             ELSE {} : a \in NormalizeDim(dim, Len(first))}

InferDims(op, d) ==
  CASE op.name \in Elementwise   -> {d[1]}
    [] op.name \in Binary        -> ProvenBroadcast(d[1], d[2])
    [] op.name = "Matmul"        -> ProvenMatmul(d[1], d[2])
    [] op.name = "Linear"        -> ProvenLinear(d[1], d[2], Range(SubSeq(d, 3, Len(d))))
    [] op.name = "Reshape"       -> ProvenReshape(d[1], op.shape)
    [] op.name = "Flatten"       -> ProvenFlatten(d[1], op.start, op.end)
    [] op.name = "Transpose"     -> {Swapped(d[1], i, j) : i \in NormalizeDim(op.dim0, Len(d[1])),
                                                          j \in NormalizeDim(op.dim1, Len(d[1]))}
    [] op.name = "Permute"       -> IF Range(op.axes) \subseteq 0 .. Len(d[1]) - 1
                                    THEN {[i \in DOMAIN op.axes |-> d[1][op.axes[i] + 1]]} ELSE {}
    [] op.name = "Concatenate"   -> ProvenCat(d, op.dim)
    [] op.name = "If"            -> {}

(* A result is of the kind of the first operand, and all operands are. *)
InferSpecs(p, state) ==
  LET Declared(n) == p.inputs[CHOOSE i \in DOMAIN p.inputs : p.inputs[i].name = n]
      OfState(n)  == ValueSpec(n, state[n].kind, [i \in DOMAIN state[n].shape |-> Known(state[n].shape[i])])
      start == [n \in DOMAIN state \cup Range(NamesOf(p.inputs)) |->
                  IF n \in DOMAIN state THEN OfState(n) ELSE Declared(n)]
      Infer(sofar, node) ==
        UNION {LET specs == [i \in DOMAIN node.inputs |-> q[node.inputs[i]]]
                   dims  == IF specs # <<>> /\ \A i \in DOMAIN specs : specs[i].kind = specs[1].kind
                            THEN InferDims(node.op, [i \in DOMAIN specs |-> specs[i].dims]) ELSE {}
               IN  {[n \in DOMAIN q \cup {node.name} |->
                       IF n = node.name THEN ValueSpec(n, specs[1].kind, ds) ELSE q[n]] : ds \in dims}
               : q \in sofar}
  IN  FoldLeft(Infer, {start}, p.operations)

-----------------------------------------------------------------------------
(* Named state. A live tensor is an address with a shape, strides and a kind *)
(* and the elements that these read, in the order of its index.             *)

Width == [Bool |-> 1, Int64 |-> 8, Float |-> 4]

(* byte_count, contiguous_strides. *)
ByteCount(shape, kind) ==
  {n \in {Product(shape) * Width[kind]} : Len(shape) <= MaxRank /\ Range(shape) \subseteq Nat /\ n <= MaxBytes}

ContiguousStrides(shape) ==
  [i \in DOMAIN shape |-> Product([j \in 1 .. Len(shape) - i |-> Max({shape[i + j], 1})])]

(* The index of the k-th element, counted from zero, of a tensor of a shape. *)
IndexAt(shape, k) == [i \in DOMAIN shape |-> (k \div Product(SubSeq(shape, i + 1, Len(shape)))) % shape[i]]

(* Where a view finds its elements. *)
Cells(view) ==
  [k \in 1 .. Product(view.shape) |->
     LET at == IndexAt(view.shape, k - 1)
     IN  view.offset + FoldFunctionOnSet(+, 0, [i \in DOMAIN at |-> at[i] * view.strides[i]], DOMAIN at)]

(* validate_view: axes by their strides, each beyond the span of those before. *)
ValidView(view, storage) ==
  LET axes == SetToSortSeq({i \in DOMAIN view.shape : view.shape[i] > 1},
                LAMBDA i, j : \/ view.strides[i] < view.strides[j]
                              \/ view.strides[i] = view.strides[j] /\ i < j)
      Reach(is) == FoldFunctionOnSet(+, 0, [i \in is |-> (view.shape[i] - 1) * view.strides[i]], is)
      end == IF 0 \in Range(view.shape) THEN view.offset ELSE view.offset + Reach(DOMAIN view.shape) + 1
  IN  /\ ByteCount(view.shape, storage.kind) # {}
      /\ Len(view.strides) = Len(view.shape) /\ view.offset >= 0 /\ Range(view.strides) \subseteq Nat
      /\ view.grad => storage.kind = "Float"
      /\ \A k \in DOMAIN axes : view.strides[axes[k]] >= 1 + Reach({axes[j] : j \in 1 .. k - 1})
      /\ end <= Len(storage.data)

Read(memory, view) == LET at == Cells(view) IN [k \in DOMAIN at |-> memory[view.storage][at[k] + 1]]

(* copy_: the elements of a view, written one by one. *)
Written(memory, view, elements) ==
  LET at == Cells(view)
  IN  FoldLeft(LAMBDA m, k : [m EXCEPT ![view.storage][at[k] + 1] = elements[k]],
               memory, [k \in DOMAIN at |-> k])

(* Model::new: the elements of a tensor are copied, unless one of the same   *)
(* address, shape and strides came before it.                              *)
NewArtifact(program, tensors) ==
  LET Add(sofar, t) ==
        LET key   == <<t.address, t.shape, t.strides>>
            known == IF t.data = <<>> THEN {} ELSE {a.storage : a \in {b \in sofar.aliases : b.key = key}}
            fresh == Len(sofar.storages) + 1
            place == IF known # {} THEN The(known) ELSE fresh
            view  == [name |-> t.name, storage |-> place, shape |-> t.shape,
                      strides |-> ContiguousStrides(t.shape), offset |-> 0, grad |-> t.grad]
        IN  [storages |-> IF known # {} THEN sofar.storages
                          ELSE Append(sofar.storages, [kind |-> t.kind, data |-> t.data]),
             aliases  |-> IF known # {} THEN sofar.aliases
                          ELSE sofar.aliases \cup {[key |-> key, storage |-> fresh]},
             state    |-> Append(sofar.state, view)]
      all == FoldLeft(Add, [storages |-> <<>>, aliases |-> {}, state |-> <<>>], tensors)
  IN  IF \E i \in DOMAIN tensors : ByteCount(tensors[i].shape, tensors[i].kind) = {} THEN {}
      ELSE {[program |-> program, storages |-> all.storages, state |-> all.state]}

(* from_artifact: a model is its artifact and the live storages that its    *)
(* state views. Descriptors that are the same but for their name are one     *)
(* tensor.                                                                 *)
FromArtifact(a) ==
  LET bytes(s) == Len(s.data) * Width[s.kind]
      total == FoldSeq(LAMBDA s, n : n + bytes(s), 0, a.storages)
      names == [i \in DOMAIN a.state |-> a.state[i].name]
  IN  IF /\ Len(a.state) <= MaxNodes /\ Len(a.storages) <= MaxNodes /\ total <= MaxBytes
         /\ \A s \in Range(a.storages) : s.kind = "Bool" => Range(s.data) \subseteq {0, 1}
         /\ IsInjective(names) /\ "" \notin Range(names)
         /\ \A i \in DOMAIN a.state : /\ a.state[i].storage \in DOMAIN a.storages
                                      /\ ValidView(a.state[i], a.storages[a.state[i].storage])
         /\ ValidProgram(a.program, Range(names))
      THEN {[artifact |-> a, memory |-> [s \in DOMAIN a.storages |-> a.storages[s].data],
             views |-> [i \in DOMAIN a.state |-> a.state[i]]]}
      ELSE {}

NewModel(program, tensors) == UNION {FromArtifact(a) : a \in NewArtifact(program, tensors)}

(* snapshot: the storages as they were, with what each live view now reads   *)
(* written over them in the order of the descriptors.                       *)
Snapshot(model) ==
  LET a == model.artifact
      was  == [s \in DOMAIN a.storages |-> a.storages[s].data]
      now  == FoldLeft(LAMBDA m, i : Written(m, a.state[i], Read(model.memory, model.views[i])),
                       was, [i \in DOMAIN a.state |-> i])
  IN  [a EXCEPT !.storages = [s \in DOMAIN @ |-> [@[s] EXCEPT !.data = now[s]]],
                !.state = [i \in DOMAIN @ |-> [@[i] EXCEPT !.grad = model.views[i].grad]]]

ToDevice(model) == FromArtifact(Snapshot(model))

=============================================================================
