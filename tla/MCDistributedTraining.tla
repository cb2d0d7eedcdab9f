----------------------- MODULE MCDistributedTraining -----------------------
(* Two ranks, one or two sessions: see the README for the bounds. What is in
   a checkpoint, its shards and moments, is checked by assumptions: small
   models trained for up to two steps by every kind of optimizer, and what
   becomes of their checkpoints on one to three ranks. *)
EXTENDS DistributedTraining, Shards

Plain == [family |-> "sgd", sound |-> TRUE, momentum |-> 0, dampening |-> 0, nesterov |-> FALSE,
          amsgrad |-> FALSE, decoupled |-> FALSE, centered |-> FALSE, accumulator |-> 0]

Algorithms ==
  {Plain, [Plain EXCEPT !.momentum = 2], [Plain EXCEPT !.momentum = 2, !.dampening = 1],
   [Plain EXCEPT !.momentum = 2, !.nesterov = TRUE]}
  \cup {[Plain EXCEPT !.family = "adam", !.amsgrad = a, !.decoupled = d] : a, d \in BOOLEAN}
  \cup {[Plain EXCEPT !.family = "rmsprop", !.centered = c, !.momentum = m] : c \in BOOLEAN, m \in {0, 2}}
  \cup {[Plain EXCEPT !.family = f, !.accumulator = 3] : f \in {"adagrad", "adadelta", "adamax"}}

(* A model of a matrix and a row, of which the row may be of one element.   *)
Shapes(row) == <<(<<2, 2>>), row>>

Model(row) ==
  LET size(n) == The(Elements(Shapes(row)[n]))
      tensor(n, dtype) == [shape |-> Shapes(row)[n], dtype |-> dtype,
                           data |-> [k \in 1 .. size(n) |-> 10 * n + k]]
  IN  <<tensor(1, "Float"), tensor(2, "Double")>>

(* A checkpoint of it before the first step, the two in groups of their own. *)
Fresh(row, algorithm) ==
  LET model == Model(row)
      spec(n) == [name |-> n, shape |-> model[n].shape, dtype |-> model[n].dtype]
      parameter(n) == [shape |-> model[n].shape, dtype |-> model[n].dtype,
                       group |-> n, step |-> 0, slots |-> <<>>]
  IN  [schema |-> 1, parameters |-> <<spec(1), spec(2)>>, weights |-> model,
       optimizer |->
         [schema |-> 1, algorithm |-> algorithm, rate |-> 1, decay |-> 0, steps |-> 0,
          groups |-> <<[id |-> 1, rate |-> 1, decay |-> 0, parameters |-> <<1>>],
                       [id |-> 2, rate |-> 2, decay |-> 1, parameters |-> <<2>>]>>,
          parameters |-> <<parameter(1), parameter(2)>>]]

(* The gradients of a step, of both or of one.                             *)
Gradients(c, names) == [n \in names |-> [k \in DOMAIN c.weights[n].data |-> 100 * n + 7 * k]]

Stepped(c, names) ==
  {[c EXCEPT !.optimizer = r.optimizer, !.weights = r.weights] :
     r \in Step(c.optimizer, c.weights, Gradients(c, names))}

Names == {{1}, {2}, {1, 2}}

Rows == {<<>>, <<3>>, <<5>>}

Trained == UNION {UNION {
  LET none == {Fresh(row, a)}
      once == UNION {Stepped(c, n) : c \in none, n \in Names}
  IN  none \cup once \cup UNION {Stepped(c, n) : c \in once, n \in Names}
  : a \in Algorithms} : row \in Rows}

Records(c, world) == [r \in 1 .. world |-> The(ShardOf(c, r - 1, world))]

Reordered(s) == {[i \in DOMAIN s |-> s[p[i]]] : p \in Permutations(DOMAIN s)}

-----------------------------------------------------------------------------
(* Every algorithm keeps the slots that its checkpoint is checked for: what *)
(* was trained can be saved, and what was saved is accepted. A step        *)
(* reaches the parameters that have a gradient and counts for no others.   *)
ASSUME StepsStayPortable == \A c \in Trained :
  /\ Portable(c.optimizer) /\ ValidFull(c)
  /\ \A names \in Names : \A d \in Stepped(c, names) :
       /\ Portable(d.optimizer) /\ d.optimizer.steps = c.optimizer.steps + 1
       /\ \A n \in {1, 2} : LET p == c.optimizer.parameters[n]
                               q == d.optimizer.parameters[n]
                           IN  IF n \in names THEN q.step = p.step + 1 /\ d.weights[n] # c.weights[n]
                               ELSE q = p /\ d.weights[n] = c.weights[n]

(* No rank has more than its share: the padding of all is less than one    *)
(* element for each.                                                       *)
ASSUME SlicesAreEven == \A n \in 0 .. 7, world \in 1 .. 5 : \A rank \in 0 .. world - 1 :
  LET slice == Slice([k \in 1 .. n |-> k], rank, world)
  IN  Len(slice) * world \in n .. n + world - 1

(* Cutting a checkpoint for any number of ranks and putting the records     *)
(* together, in any order, loses and adds nothing.                         *)
ASSUME ReshardingIsExact == \A c \in Trained, world \in 1 .. MaxWorld :
  \A shards \in Reordered(Records(c, world)) : Consolidate(shards) = Ok(c)

(* Each rank stepping its slices is the step of the whole model.           *)
ASSUME ShardsTrainAlike == \A c \in Trained, world \in 1 .. MaxWorld, names \in Names :
  LET records == Records(c, world)
      Local(r) == [n \in names |-> Slice(Gradients(c, names)[n], r, world)]
      After(r) == Step(records[r + 1].optimizer, records[r + 1].weights, Local(r))
      joined == Consolidate([i \in DOMAIN records |->
                  [records[i] EXCEPT !.optimizer = The(After(i - 1)).optimizer,
                                     !.weights = The(After(i - 1)).weights]])
  IN  IF Stepped(c, names) = Failed THEN \A i \in DOMAIN records : After(i - 1) = Failed
      ELSE joined = Stepped(c, names)

(* Records of two captures, of another step or for other ranks, make a      *)
(* checkpoint only if they are those of one capture, each once.            *)
Capture(c, id, world) == {[s EXCEPT !.id = id] : s \in Range(Records(c, world))}

Momentum == CHOOSE a \in Algorithms : a.momentum # 0
Early == The(Stepped(Fresh(<<3>>, Momentum), {1, 2}))
Late  == The(Stepped(Early, {1, 2}))
Other == The(Stepped(Fresh(<<5>>, Momentum), {1, 2}))

Captures == {Capture(Early, 1, 2), Capture(Early, 2, 2), Capture(Late, 1, 2), Capture(Late, 1, 3),
             Capture(Other, 1, 2)}

ASSUME OneCaptureOnly == \A n \in 0 .. 3 : \A shards \in [1 .. n -> UNION Captures] :
  Consolidate(shards) # Failed <=> Range(shards) \in Captures /\ n = Cardinality(Range(shards))

-----------------------------------------------------------------------------
(* A checkpoint that was changed anywhere is refused. The changes below     *)
(* leave a record of the same fields.                                      *)
Momentum2 == [shape |-> <<2, 2>>, dtype |-> "Float", data |-> <<1, 2, 3>>]

BadAlgorithms ==
  {[Plain EXCEPT !.sound = FALSE], [Plain EXCEPT !.momentum = -1], [Plain EXCEPT !.dampening = -1],
   [Plain EXCEPT !.nesterov = TRUE], [Plain EXCEPT !.momentum = 2, !.dampening = 1, !.nesterov = TRUE],
   [Plain EXCEPT !.family = "rmsprop", !.momentum = -1]}

BadOptimizers ==
  LET o == Early.optimizer
  IN  {[o EXCEPT !.schema = 2], [o EXCEPT !.steps = MaxStep], [o EXCEPT !.steps = 0],
       [o EXCEPT !.rate = -1], [o EXCEPT !.decay = -1], [o EXCEPT !.algorithm = Plain],
       [o EXCEPT !.groups[1].rate = -1], [o EXCEPT !.groups[2].decay = -1],
       [o EXCEPT !.groups[2].id = 1], [o EXCEPT !.groups[1].id = 2, !.groups[2].parameters = <<>>],
       [o EXCEPT !.groups = <<[@[1] EXCEPT !.parameters = <<1, 2>>], [@[2] EXCEPT !.id = 1, !.parameters = <<>>]>>,
                 !.parameters[2].group = 1],
       [o EXCEPT !.groups[1].parameters = <<1, 1>>], [o EXCEPT !.groups[1].parameters = <<1, 2>>],
       [o EXCEPT !.groups[1].parameters = <<1, 3>>], [o EXCEPT !.groups[1].parameters = <<>>],
       [o EXCEPT !.parameters[1].shape = <<4>>], [o EXCEPT !.parameters[1].dtype = "Double"],
       [o EXCEPT !.parameters[1].step = 0], [o EXCEPT !.parameters[1].slots = <<>>],
       [o EXCEPT !.parameters[1].slots.momentum_buffer = Momentum2]}
      \cup {[Fresh(<<3>>, a).optimizer EXCEPT !.steps = 1] : a \in BadAlgorithms}
      \cup {[Fresh(<<3>>, Plain).optimizer EXCEPT !.parameters[1].shape = shape] :
              shape \in {<<-1>>, <<1, 1, 1>>, <<4, 8>>}}
      \cup {[Fresh(<<3>>, Plain).optimizer EXCEPT !.steps = MaxStep - 1, !.parameters[1].step = MaxStep]}

ASSUME BadOptimizersRefused == \A o \in BadOptimizers, world \in 1 .. 3 :
  \A r \in 0 .. world - 1 : ShardOptimizer(o, r, world) = Failed

(* A slice without moments may be too long for a tensor, or begin too far   *)
(* away.                                                                   *)
ASSUME LongSlicesRefused == \A n \in 0 .. MaxSize, world \in 0 .. 16, rank \in 0 .. 17 :
  LET o == [Fresh(<<3>>, Plain).optimizer EXCEPT !.parameters[1].shape = <<n>>]
  IN  ShardOptimizer(o, rank, world) # Failed <=>
        \E chunk \in 0 .. MaxSize \div 2 :
          /\ rank < world /\ rank * chunk <= MaxSize
          /\ chunk * world \in n .. n + world - 1

Spec1 == Early.parameters[1]

BadFulls ==
  {[Early EXCEPT !.schema = 2], [Early EXCEPT !.parameters = <<>>], [Early EXCEPT !.parameters = <<Spec1>>],
   [Early EXCEPT !.parameters = <<@[2], @[1]>>], [Early EXCEPT !.parameters = <<@[1], @[1]>>],
   [Early EXCEPT !.parameters[1].name = 0], [Early EXCEPT !.parameters[1].shape = <<4>>],
   [Early EXCEPT !.parameters[1].dtype = "Double"], [Early EXCEPT !.weights[1].shape = <<4>>],
   [Early EXCEPT !.weights[1].data = <<1, 2, 3>>], [Early EXCEPT !.weights = <<@[1]>>],
   [Early EXCEPT !.weights[1].dtype = "Int64", !.parameters[1].dtype = "Int64"],
   [Early EXCEPT !.weights[1] = [@ EXCEPT !.shape = <<3, 3>>, !.data = [k \in 1 .. 9 |-> k]],
                 !.parameters[1].shape = <<3, 3>>],
   [Early EXCEPT !.weights[1] = [@ EXCEPT !.shape = <<0>>, !.data = <<>>], !.parameters[1].shape = <<0>>]}

ASSUME BadFullsRefused ==
  /\ \A c \in BadFulls : ShardOf(c, 0, 2) = Failed
  /\ \A <<rank, world>> \in {<<0, 0>>, <<2, 2>>, <<0, MaxWorld + 1>>} : ShardOf(Early, rank, world) = Failed

BadShards ==
  LET s == Records(Early, 2)[1]
  IN  {[s EXCEPT !.schema = 2], [s EXCEPT !.id = 0], [s EXCEPT !.rank = 2], [s EXCEPT !.world = 1],
       [s EXCEPT !.rank = 1], [s EXCEPT !.parameters[1].name = 0], [s EXCEPT !.parameters = <<@[1]>>],
       [s EXCEPT !.parameters[1].shape = <<4>>], [s EXCEPT !.weights[1].data = <<1>>], [s EXCEPT !.weights[1] = [@ EXCEPT !.shape = <<1>>, !.data = <<1>>]],
       [s EXCEPT !.weights[1].dtype = "Double"], [s EXCEPT !.weights = <<@[1]>>],
       [s EXCEPT !.optimizer.steps = 0], [s EXCEPT !.optimizer.steps = 2], [s EXCEPT !.optimizer.rate = 2],
       [s EXCEPT !.optimizer.decay = 1], [s EXCEPT !.optimizer.groups[1].rate = 3],
       [s EXCEPT !.optimizer.algorithm.momentum = 3], [s EXCEPT !.optimizer.parameters[1].dtype = "Double"],
       [s EXCEPT !.optimizer = Fresh(<<3>>, Momentum).optimizer]}

ASSUME BadShardsRefused ==
  \A bad \in BadShards : Consolidate(<<bad, Records(Early, 2)[2]>>) = Failed

(* So is a set whose records were all changed in the same way.             *)
Renamed(f, old, new) == [n \in (DOMAIN f \ {old}) \cup {new} |-> IF n = new THEN f[old] ELSE f[n]]

Alike(s) ==
  LET o == s.optimizer
      untrained == Fresh(<<3>>, Plain).optimizer
      none == [o EXCEPT !.groups = <<>>, !.parameters = <<>>]
      sliced == The(ShardOptimizer(untrained, s.rank, s.world))
  IN  <<[s EXCEPT !.id = 0], [s EXCEPT !.schema = 2],
        [s EXCEPT !.parameters = <<>>, !.weights = <<>>, !.optimizer = none],
        [s EXCEPT !.parameters[1].name = 0, !.weights = Renamed(@, 1, 0),
                  !.optimizer = [o EXCEPT !.parameters = Renamed(@, 1, 0), !.groups[1].parameters = <<0>>]],
        [s EXCEPT !.weights = @ \o <<@[1]>>],
        [s EXCEPT !.optimizer = [sliced EXCEPT !.parameters[1].dtype = "Double"]],
        [s EXCEPT !.optimizer = [sliced EXCEPT !.parameters[1].dtype = "Double"],
                  !.weights[1].dtype = "Double"],
        [s EXCEPT !.optimizer = [sliced EXCEPT !.parameters[1].shape = <<3>>],
                  !.weights[1] = [@ EXCEPT !.shape = <<3>>, !.data = <<1, 2, 3>>]],
        [s EXCEPT !.parameters[1].shape = <<16>>,
                  !.optimizer = [sliced EXCEPT !.parameters[1].shape = <<8>>],
                  !.weights[1] = [@ EXCEPT !.shape = <<8>>, !.data = [k \in 1 .. 8 |-> k]]]>>

ASSUME BadSetsRefused == \A i \in DOMAIN Alike(Records(Early, 2)[1]) :
  Consolidate([r \in 1 .. 2 |-> Alike(Records(Early, 2)[r])[i]]) = Failed

(* And moments that are no slices of one optimizer's, whatever the model   *)
(* they come with.                                                         *)
BadSlices ==
  LET o == Records(Fresh(<<3>>, Momentum), 2)[1].optimizer
  IN  {[o EXCEPT !.parameters[1].shape = <<1>>], [o EXCEPT !.parameters[1].dtype = "Double"],
       [o EXCEPT !.parameters[1].step = 1, !.steps = 1], [o EXCEPT !.schema = 2],
       [o EXCEPT !.parameters[1].group = 2, !.groups[1].parameters = <<>>,
                 !.groups[2].parameters = <<1, 2>>]}

ASSUME BadSlicesRefused ==
  LET two == [r \in 1 .. 2 |-> Records(Fresh(<<3>>, Momentum), 2)[r].optimizer]
      shapes == <<(<<2, 2>>), <<3>>>>
  IN  /\ ConsolidateOptimizer(two, shapes) # Failed
      /\ \A bad \in BadSlices : /\ ConsolidateOptimizer(<<bad, two[2]>>, shapes) = Failed
                                /\ ConsolidateOptimizer(<<two[1], bad>>, shapes) = Failed
      /\ LET plain(r) == [Records(Fresh(<<3>>, Plain), 2)[r].optimizer EXCEPT !.steps = 1]
         IN  /\ ConsolidateOptimizer(<<plain(1), plain(2)>>, shapes) # Failed
             /\ ConsolidateOptimizer(<<plain(1), [plain(2) EXCEPT !.parameters[1].step = 1]>>, shapes) = Failed
      /\ ConsolidateOptimizer(two, shapes \o <<(<<1>>)>>) = Failed
      /\ ConsolidateOptimizer(two, <<(<<-1>>), <<3>>>>) = Failed

(* Also a set of any size that no group has.                               *)
ASSUME TooManyRefused ==
  Consolidate([i \in 1 .. MaxWorld + 1 |->
    [Records(Early, 2)[1] EXCEPT !.rank = i - 1, !.world = MaxWorld + 1]]) = Failed
=============================================================================
