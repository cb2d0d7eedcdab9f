---------------------------- MODULE MCDeployment ----------------------------
(* The operators of Deployment over small programs, shapes, views and state. *)
EXTENDS Deployment, MCGraph

Floats(name, shape) == Tensor(shape, "Float", <<[name |-> "given"], name>>)

AsInputs(dimss)    == [i \in DOMAIN dimss |-> ValueSpec(NextNames[i], "Float", dimss[i])]
AsTensors(shapes)  == [i \in DOMAIN shapes |-> Floats(i, shapes[i])]

SomeDims == {Known(0), Known(1), Known(2), Ranged("n", 1, {3}), Ranged("m", 0, {2})}

(* The shapes that a specification admits by itself. *)
Admitted(dims) == {s \in [DOMAIN dims -> 0 .. 3] : \A i \in DOMAIN dims : InDim(s[i], dims[i])}

-----------------------------------------------------------------------------
(* check_inputs accepts exactly the tensors that are of the declared shapes  *)
(* for some size of each symbol, within every range given with its name.     *)
ASSUME GuardsMean ==
  \A dimss \in UNION {[1 .. k -> UpTo(2, {Known(2), Ranged("n", 1, {2}), Ranged("n", 2, {}), Ranged("m", 0, {})})]
                        : k \in 1 .. 2} :
    \A shapes \in [DOMAIN dimss -> UpTo(2, 1 .. 3)] :
      CheckInputs(AsInputs(dimss), AsTensors(shapes))
        = \E size \in [{"n", "m"} -> 1 .. 3] :
            \A i \in DOMAIN dimss :
              /\ Len(shapes[i]) = Len(dimss[i])
              /\ \A j \in DOMAIN dimss[i] :
                   LET d == dimss[i][j]
                   IN  IF IsKnown(d) THEN shapes[i][j] = d.size
                       ELSE /\ shapes[i][j] = size[d.name]
                            /\ shapes[i][j] \in d.min .. (IF d.max = {} THEN 3 ELSE The(d.max))

-----------------------------------------------------------------------------
(* infer_specs: an operation of which an export knows the shape never fails  *)
(* on inputs that pass the guards, and its result passes the guard that the  *)
(* inferred shape would be, with the same sizes of the symbols. The rank of a *)
(* permutation is not checked: one of fewer axes is exported and then fails.  *)
ProofHolds(op, dimss, shapess) ==
  \A dims \in InferDims(op, dimss) : \A shapes \in shapess :
    CheckInputs(AsInputs(dimss), AsTensors(shapes)) /\ (op.name = "Permute" => Len(op.axes) = Len(dimss[1])) =>
      LET out == Computed(op, AsTensors(shapes))
      IN  /\ out # {}
          /\ \A t \in out : CheckInputs(Append(AsInputs(dimss), ValueSpec("out", "Float", dims)),
                                        Append(AsTensors(shapes), t))

OneOperand ==
  [name : {"Flatten"}, start : {-2, -1, 0, 1}, end : {-1, 0, 1, 2}]
  \cup [name : {"Transpose"}, dim0 : {-2, -1, 0, 1}, dim1 : {-1, 0, 2}]
  \cup [name : {"Permute"}, axes : {<<>>, <<0>>, <<1, 0>>, <<2, 0, 1>>}]
  \cup [name : {"Reshape"}, shape : UpTo(2, {-1, 0, 1, 2})]

ASSUME UnaryProofsHold ==
  \A dims \in UpTo(3, SomeDims), op \in OneOperand :
    Fits(op, 1) => ProofHolds(op, <<dims>>, {<<s>> : s \in Admitted(dims)})

TwoOperands == [name : {"Add", "Matmul", "Linear"}] \cup [name : {"Concatenate"}, dim : {-1, 0, 1}]

ASSUME BinaryProofsHold ==
  \A l, r \in UpTo(2, SomeDims), op \in TwoOperands :
    InferDims(op, <<l, r>>) # {} => ProofHolds(op, <<l, r>>, {<<s, t>> : s \in Admitted(l), t \in Admitted(r)})

ASSUME BatchProofsHold ==
  \A l \in {<<a, Known(2), Ranged("n", 1, {3})>> : a \in SomeDims},
     r \in {<<a, b, Known(2)>> : a, b \in SomeDims} :
    ProofHolds([name |-> "Matmul"], <<l, r>>, {<<s, t>> : s \in Admitted(l), t \in Admitted(r)})

ASSUME BiasProofsHold ==
  \A x \in UpTo(2, SomeDims), w \in [1 .. 2 -> SomeDims], b \in UpTo(1, SomeDims) :
    LET dimss == <<x, w, b>>
    IN  InferDims([name |-> "Linear"], dimss) # {} =>
          ProofHolds([name |-> "Linear"], dimss,
                     {<<s, t, u>> : s \in Admitted(x), t \in Admitted(w), u \in Admitted(b)})

-----------------------------------------------------------------------------
(* Programs of at most two operations over an input x, a predicate q and a   *)
(* parameter w, the valid ones and the others.                              *)

N == Ranged("n", 1, {2})

DeclaredInputs == <<ValueSpec("x", "Float", <<N>>), ValueSpec("q", "Bool", <<>>)>>

State == [w |-> Floats("w", <<2>>)]

Simple(names, operands) ==
  {Operation(n, op, <<a>>) : n \in names, a \in operands,
                             op \in {[name |-> "ReLU"], [name |-> "Reshape", shape |-> <<-1, 2>>]}}
  \cup {Operation(n, op, <<a, b>>) : n \in names, a, b \in operands,
                                     op \in {[name |-> "Add"], [name |-> "Concatenate", dim |-> 0]}}

Branches ==
  {Program(<<ValueSpec("u", "Float", <<N>>)>>, ops, Leaf(out)) :
     ops \in {<<>>} \cup {<<o>> : o \in Simple({"v"}, {"u", "w", "x"})}, out \in {"u", "v"}}

(* The last two do not fit: one has two inputs, one an output of no name.    *)
Alternatives ==
  LET u == ValueSpec("u", "Float", <<N>>)
  IN  {Program(<<u>>, <<>>, Leaf("u")), Program(<<u, ValueSpec("t", "Float", <<N>>)>>, <<>>, Leaf("u")),
       Program(<<u>>, <<>>, Leaf("x"))}

Conditionals ==
  {Operation("z", [name |-> "If", then |-> then, else |-> else, result |-> ValueSpec(r, "Float", <<N>>)], inputs) :
     then \in Branches, else \in Alternatives, r \in {"r", "u"},
     inputs \in {<<"q", "x">>, <<"x", "y">>, <<"q", "y">>, <<"q", "y", "x">>}}

Programs ==
  {Program(DeclaredInputs, <<a, b>>, Tuple(<<Leaf(out), Leaf("x")>>)) :
     a \in Simple({"y"}, {"x", "w"}),
     b \in Simple({"y", "z"}, {"x", "y", "z"}) \cup Conditionals, out \in {"y", "z"}}

(* A valid program, its branches included, finds every name it reads, and    *)
(* fails only by what its tensors are; a conditional gives what it promises.  *)
(* What an export infers of a program is so, and such a program fails only   *)
(* by its inputs. The guards saved with a trace can be read back.            *)
ASSUME ProgramsSound ==
  \A p \in Programs : ValidProgram(p, {"w"}) =>
    /\ \A q \in {p, [p EXCEPT !.outputTree = Leaf("y")]} :
         \A t \in Trace(q, <<Floats("x", <<2>>), Tensor(<<>>, "Bool", "q")>>, State) : ValidGuards(t.guards)
    /\ \A size \in 1 .. 3, truths \in {{}, {"q"}} :
         LET run   == Evaluate(p, <<Floats("x", <<size>>), Tensor(<<>>, "Bool", "q")>>, State, truths)
             specs == InferSpecs(p, State)
         IN  /\ run.error \in {"", "input", "operation", "predicate", "result"}
             /\ run.error = "" =>
                  /\ Len(run.outputs) = 2
                  /\ \A o \in Range(p.operations) :
                       o.op.name = "If" => CheckInputs(<<o.op.result>>, <<run.values[o.name]>>)
             /\ specs # {} => /\ (run.error = "") = (size # 3)
                              /\ run.error = "" => \A n \in DOMAIN run.values :
                                   CheckInputs(<<The(specs)["x"], The(specs)[n]>>,
                                               <<run.values["x"], run.values[n]>>)

-----------------------------------------------------------------------------
(* from_graph: a graph that can be lowered gives a valid program, which does  *)
(* what the graph does, for the same inputs; but the program has guards for  *)
(* every input, where the executor looks at those it uses.                   *)

Lowerable == {pair \in Finished : FromGraph(pair[2], FALSE) # {}}

Parameters(g) ==
  LET linear == {n \in DOMAIN g.nodes : g.nodes[n].op.name = "Linear"}
      weights == [name \in {Weight(g.nodes[n].name) : n \in linear} |-> Floats(name, <<1, 2>>)]
      biases  == [name \in {Bias(g.nodes[n].name) : n \in linear} |-> Floats(name, <<1>>)]
  IN  weights @@ biases

(* A term without the names of the parameters. *)
RECURSIVE Erased(_)
Erased(term) ==
  CASE term[1].name = "given"  -> term
    [] term[1].name = "Linear" ->
         LET bias == IF "bias" \in DOMAIN term[1] THEN term[1].bias ELSE Len(term[2]) = 3
         IN  <<[name |-> "Linear", bias |-> bias], <<Erased(term[2][1])>>>>
    [] OTHER                   -> <<term[1], [i \in DOMAIN term[2] |-> Erased(term[2][i])]>>

SameTensor(t, u) == t.shape = u.shape /\ t.kind = u.kind /\ Erased(t.term) = Erased(u.term)

ASSUME LoweringMeans ==
  \A pair \in Lowerable : \A shapes \in [pair[2].inputs -> {<<1>>, <<2>>, <<3>>, <<1, 2>>}] :
    LET b     == pair[1]
        g     == pair[2]
        p     == The(FromGraph(g, FALSE))
        given == [n \in g.inputs |-> Floats(n, shapes[n])]
        order == SetToSortSeq(g.inputs, <)
        run   == Execute(g, given)
        out   == Evaluate(p, [i \in DOMAIN order |-> given[order[i]]], Parameters(g), {})
    IN  /\ ValidProgram(p, DOMAIN Parameters(g))
        /\ (out.error = "") = (run.error = "" /\ Agreeing(b, given, g.inputs))
        /\ out.error = "" =>
             \A i \in DOMAIN g.outputs : SameTensor(out.outputs[i], run.values[g.outputs[i]])

-----------------------------------------------------------------------------
(* validate_view: the cells of a view that is accepted are within its        *)
(* storage, no two of them the same; contiguous ones are accepted.           *)

View(storage, shape, strides, offset) ==
  [name |-> "", storage |-> storage, shape |-> shape, strides |-> strides, offset |-> offset, grad |-> FALSE]

Storage(n) == [kind |-> "Float", data |-> [i \in 1 .. n |-> i]]

Strided(rank, sizes, steps) ==
  {View(1, shape, strides, offset) : shape \in [1 .. rank -> sizes], strides \in [1 .. rank -> steps],
                                     offset \in {0, 2}}

ASSUME ViewsSound ==
  \A view \in UNION {Strided(r, 0 .. 3, 0 .. 5) : r \in 0 .. 2} \cup Strided(3, {1, 2}, 0 .. 4),
     n \in {0, 2, 5, 9} :
    ValidView(view, Storage(n)) =>
      LET at == Cells(view)
      IN  IsInjective(at) /\ Range(at) \subseteq 0 .. n - 1

ASSUME ContiguousViews ==
  \A shape \in UpTo(3, 0 .. 2) :
    LET view == View(1, shape, ContiguousStrides(shape), 0)
    IN  /\ ValidView(view, Storage(Product(shape)))
        /\ Range(Cells(view)) = 0 .. Product(shape) - 1

-----------------------------------------------------------------------------
(* Model::new of tensors that are alive together: each name reads what its   *)
(* tensor did, and two share their elements when address, shape and strides  *)
(* are the same, so those that were one tensor still are.                    *)

Memory == <<<<7, 8, 9, 6>>>>

Alive == {v \in Strided(1, {0, 2}, {1, 2}) \cup Strided(2, {1, 2}, {1, 2}) : ValidView(v, Storage(4))}

Live3 == {[i \in 1 .. 3 |-> [name |-> NextNames[i], address |-> vs[i].offset, shape |-> vs[i].shape,
                             strides |-> vs[i].strides, kind |-> "Float", grad |-> FALSE,
                             data |-> Read(Memory, vs[i])]] : vs \in [1 .. 3 -> Alive]}

Same == Program(<<>>, <<>>, Leaf("a"))

ASSUME StateKept ==
  \A tensors \in Live3 :
    LET models == NewModel(Same, tensors)
        m      == The(models)
        Key(t) == <<t.address, t.shape, t.strides>>
    IN  /\ models # {}
        /\ \A i \in 1 .. 3 : Read(m.memory, m.views[i]) = tensors[i].data
        /\ \A i, j \in 1 .. 3 : tensors[i].data # <<>> =>
             (m.views[i].storage = m.views[j].storage) = (Key(tensors[i]) = Key(tensors[j]))

(* A tensor that is made where one before it was freed, as an iterator that   *)
(* makes its tensors one at a time can do, is taken for the freed one.        *)
ASSUME FreedStateMixed ==
  LET Made(name, data) == [name |-> name, address |-> 0, shape |-> <<2>>, strides |-> <<1>>,
                           kind |-> "Float", grad |-> FALSE, data |-> data]
  IN  \A m \in NewModel(Same, <<Made("a", <<1, 2>>), Made("b", <<3, 4>>)>>) :
        Read(m.memory, m.views[2]) = <<1, 2>>

(* to_device: after any views were written to, those of one storage together, *)
(* the moved model reads the same by every name.                             *)
ASSUME MovedStateKept ==
  \A v, w \in {u \in Strided(1, {2, 3}, {1, 2}) \cup Strided(2, {2}, {1, 2}) : ValidView(u, Storage(5))} :
    LET artifact == [program |-> Same, storages |-> <<Storage(5)>>,
                     state |-> <<[v EXCEPT !.name = "a"], [w EXCEPT !.name = "b"]>>]
    IN  \A m \in FromArtifact(artifact) :
          LET Fill(n, d) == [i \in 1 .. n |-> d + i]
              first   == Written(m.memory, v, Fill(Product(v.shape), 10))
              written == [m EXCEPT !.memory = Written(first, w, Fill(Product(w.shape), 20))]
              moved   == ToDevice(written)
          IN  /\ moved # {}
              /\ \A i \in 1 .. 2 : Read(The(moved).memory, The(moved).views[i])
                                     = Read(written.memory, written.views[i])
=============================================================================
