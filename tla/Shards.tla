------------------------------- MODULE Shards -------------------------------
(***************************************************************************)
(* Sharded checkpoints: the optimizer's portable state and its update        *)
(* (optim/stateful.rs), cutting model and moments into one slice for each   *)
(* rank and putting them together again (distributed/training.rs), and the *)
(* tensors they are stored as (distributed/process.rs).                    *)
(*                                                                         *)
(* Elements are numbers and a tensor's bytes are counted in elements. The  *)
(* arithmetic of the update formulas is abstracted: Mix stands for each of  *)
(* them, and keeps what they read, in which order. A Result is a set: Ok(v), *)
(* or the empty set for an error.                                          *)
(***************************************************************************)
EXTENDS Integers, Sequences, SequencesExt, FiniteSetsExt, Functions

CONSTANTS MaxSize,  \* stands for usize::MAX; half of it for i64::MAX
          MaxRank,  \* dimensions of a tensor: 64
          MaxWorld, \* ranks of a checkpoint: 1024
          MaxBytes, \* a stored tensor: one GiB
          MaxStep   \* stands for u64::MAX

Ok(v)  == {v}
Failed == {}
The(r) == CHOOSE v \in r : TRUE

Mix(numbers) == FoldLeft(LAMBDA hash, n : (31 * hash + n + 7) % 1009, 0, numbers)

-----------------------------------------------------------------------------
(* Tensors.                                                                *)

(* elements(): a checked product; a negative dimension does not convert.   *)
Elements(shape) ==
  LET product[n \in 0 .. Len(shape)] == IF n = 0 THEN 1 ELSE product[n - 1] * shape[n]
  IN  IF \/ Len(shape) > MaxRank
         \/ \E n \in DOMAIN shape : shape[n] < 0 \/ product[n] > MaxSize
      THEN Failed ELSE Ok(product[Len(shape)])

TensorFits(tensor, shape, dtype) ==
  tensor.shape = shape /\ tensor.dtype = dtype /\ Elements(shape) = Ok(Len(tensor.data))

(* Payload::validate.                                                      *)
PayloadFits(payload) ==
  Elements(payload.shape) = Ok(Len(payload.data)) /\ Len(payload.data) <= MaxBytes

Chunk(count, world) == (count + world - 1) \div world

(* A rank's slice of the flat data, padded with zeros to a chunk.          *)
Slice(data, rank, world) ==
  LET chunk == Chunk(Len(data), world)
      start == Min({rank * chunk, Len(data)})
      end   == Min({start + chunk, Len(data)})
  IN  SubSeq(data, start + 1, end) \o [k \in 1 .. chunk - (end - start) |-> 0]

Flat(tensor, rank, world) ==
  LET data == Slice(tensor.data, rank, world) IN [tensor EXCEPT !.shape = <<Len(data)>>, !.data = data]

(* Slices one after the other, up to count elements.                       *)
Joined(slices, count) ==
  FoldLeft(LAMBDA data, s : data \o SubSeq(s, 1, Min({count - Len(data), Len(s)})), <<>>, slices)

-----------------------------------------------------------------------------
(* The optimizer. sound stands for the coefficients that only have a range. *)

SoundAlgorithm(a) ==
  /\ a.sound
  /\ a.family \in {"sgd", "rmsprop"} => a.momentum >= 0
  /\ a.family = "sgd" => a.dampening >= 0 /\ (a.nesterov => a.momentum > 0 /\ a.dampening = 0)

Slots(a) ==
  LET if(c, name) == IF c THEN {name} ELSE {}
  IN  CASE a.family = "adam"     -> {"exp_avg", "exp_avg_sq"} \cup if(a.amsgrad, "max_exp_avg_sq")
        [] a.family = "sgd"      -> if(a.momentum # 0, "momentum_buffer")
        [] a.family = "rmsprop"  -> {"square_avg"} \cup if(a.centered, "grad_avg")
                                      \cup if(a.momentum # 0, "momentum_buffer")
        [] a.family = "adagrad"  -> {"sum"}
        [] a.family = "adadelta" -> {"square_avg", "acc_delta"}
        [] a.family = "adamax"   -> {"exp_avg", "exp_inf"}

(* validate_portable. A rate that is negative or not finite is -1.         *)
PortableGroups(s) ==
  /\ \A i \in DOMAIN s.groups :
       LET g == s.groups[i]
       IN  /\ g.rate >= 0 /\ g.decay >= 0
           /\ \A j \in DOMAIN s.groups : s.groups[j].id = g.id => j = i
           /\ \A k \in 1 .. Len(g.parameters) - 1 : g.parameters[k] < g.parameters[k + 1]
           /\ \A name \in Range(g.parameters) :
                name \in DOMAIN s.parameters /\ s.parameters[name].group = g.id
  /\ DOMAIN s.parameters \subseteq UNION {Range(s.groups[i].parameters) : i \in DOMAIN s.groups}

PortableParameter(s, p) ==
  /\ Elements(p.shape) # Failed
  /\ p.step <= s.steps /\ p.step # MaxStep
  /\ DOMAIN p.slots = IF p.step = 0 THEN {} ELSE Slots(s.algorithm)
  /\ \A slot \in DOMAIN p.slots : TensorFits(p.slots[slot], p.shape, p.dtype)

Portable(s) ==
  /\ s.schema = 1 /\ s.steps # MaxStep
  /\ SoundAlgorithm(s.algorithm) /\ s.rate >= 0 /\ s.decay >= 0
  /\ PortableGroups(s)
  /\ \A name \in DOMAIN s.parameters : PortableParameter(s, s.parameters[name])

(* initial(): a slot that is not there yet starts from a value.            *)
Initial(p, slot, k, value) == IF slot \in DOMAIN p.slots THEN p.slots[slot].data[k] ELSE value

(* update(), for element k: the new value, and the slots that are kept.    *)
(* Weight decay changes the value if it is decoupled, or the gradient.     *)
Update(a, p, group, value, gradient, k) ==
  LET decoupled == a.family = "adam" /\ a.decoupled
      v == IF group.decay # 0 /\ decoupled THEN Mix(<<value, group.rate, group.decay>>) ELSE value
      g == IF group.decay # 0 /\ ~decoupled THEN Mix(<<gradient, value, group.decay>>) ELSE gradient
      Old(slot) == Initial(p, slot, k, 0)
      Moment(slot) == Mix(<<Old(slot), g>>)
      step == p.step + 1
      Result(slots, direction) == [slots |-> slots, value |-> Mix(<<v, direction, group.rate>>)]
  IN  CASE a.family = "sgd" ->
             IF a.momentum = 0 THEN Result(<<>>, g)
             ELSE LET buffer == IF p.step = 0 THEN g
                                ELSE Mix(<<Old("momentum_buffer"), a.momentum, g, a.dampening>>)
                  IN  Result([momentum_buffer |-> buffer],
                             IF a.nesterov THEN Mix(<<g, buffer, a.momentum>>) ELSE buffer)
        [] a.family = "adam" ->
             LET m == Moment("exp_avg")
                 s == Moment("exp_avg_sq")
                 largest == Max({Old("max_exp_avg_sq"), s})
                 Direction(below) == Mix(<<m, below, step>>)
             IN  IF a.amsgrad
                 THEN Result([exp_avg |-> m, exp_avg_sq |-> s, max_exp_avg_sq |-> largest],
                             Direction(largest))
                 ELSE Result([exp_avg |-> m, exp_avg_sq |-> s], Direction(s))
        [] a.family = "rmsprop" ->
             LET square    == Moment("square_avg")
                 mean      == Moment("grad_avg")
                 direction == Mix(<<g, square>> \o IF a.centered THEN <<mean>> ELSE <<>>)
                 buffer    == Mix(<<Old("momentum_buffer"), a.momentum, direction>>)
                 slots     == [square_avg |-> square, grad_avg |-> mean, momentum_buffer |-> buffer]
             IN  Result(Restrict(slots, {"square_avg"} \cup (IF a.centered THEN {"grad_avg"} ELSE {})
                                          \cup IF a.momentum # 0 THEN {"momentum_buffer"} ELSE {}),
                        IF a.momentum # 0 THEN buffer ELSE direction)
        [] a.family = "adagrad" ->
             LET sum == Mix(<<Initial(p, "sum", k, a.accumulator), g>>)
             IN  Result([sum |-> sum], Mix(<<g, sum, step - 1>>))
        [] a.family = "adadelta" ->
             LET square == Moment("square_avg")
                 delta  == Mix(<<Old("acc_delta"), square, g>>)
             IN  Result([acc_delta |-> Mix(<<Old("acc_delta"), delta>>), square_avg |-> square], delta)
        [] a.family = "adamax" ->
             LET m        == Moment("exp_avg")
                 infinity == Max({Mix(<<Old("exp_inf")>>), g})
             IN  Result([exp_avg |-> m, exp_inf |-> infinity], Mix(<<m, infinity, step>>))

(* try_step(): all parameters that have a gradient, or an error that       *)
(* changes nothing.                                                        *)
Step(s, weights, gradients) ==
  LET updated == DOMAIN gradients
      Group(p) == s.groups[CHOOSE i \in DOMAIN s.groups : s.groups[i].id = p.group]
      Elementwise(name) ==
        LET p == s.parameters[name]
        IN  [k \in DOMAIN weights[name].data |->
               Update(s.algorithm, p, Group(p), weights[name].data[k], gradients[name][k], k)]
      Parameter(name) ==
        LET p == s.parameters[name]
            e == Elementwise(name)
        IN  [p EXCEPT !.step = @ + 1,
                      !.slots = [slot \in UNION {DOMAIN e[k].slots : k \in DOMAIN e} |->
                        [shape |-> p.shape, dtype |-> p.dtype,
                         data |-> [k \in DOMAIN e |-> e[k].slots[slot]]]]]
      Weight(name) ==
        LET e == Elementwise(name)
        IN  [weights[name] EXCEPT !.data = [k \in DOMAIN e |-> e[k].value]]
  IN  IF \/ s.steps + 1 >= MaxStep
         \/ \E name \in updated : s.parameters[name].step + 1 >= MaxStep
      THEN Failed
      ELSE Ok([optimizer |-> [s EXCEPT !.steps = @ + 1,
                 !.parameters = [name \in DOMAIN @ |->
                   IF name \in updated THEN Parameter(name) ELSE @[name]]],
               weights |-> [name \in DOMAIN weights |->
                 IF name \in updated THEN Weight(name) ELSE weights[name]]])

(* A slice begins below usize::MAX and its length is an i64.               *)
Addressable(chunk, rank) == rank * chunk <= MaxSize /\ chunk <= MaxSize \div 2

(* A rank's slices of the moments, with the settings of them all.          *)
ShardOptimizer(s, rank, world) ==
  IF \/ ~Portable(s) \/ world = 0 \/ rank >= world
     \/ \E name \in DOMAIN s.parameters :
          ~Addressable(Chunk(The(Elements(s.parameters[name].shape)), world), rank)
  THEN Failed
  ELSE Ok([s EXCEPT !.parameters = [name \in DOMAIN @ |->
         [@[name] EXCEPT
            !.shape = <<Chunk(The(Elements(@)), world)>>,
            !.slots = [slot \in DOMAIN @ |-> Flat(@[slot], rank, world)]]]])

(* Everything but the moments of each is the same.                         *)
SameSettings(s, t) ==
  /\ s.algorithm = t.algorithm /\ s.rate = t.rate /\ s.decay = t.decay
  /\ s.steps = t.steps /\ s.groups = t.groups
  /\ DOMAIN s.parameters = DOMAIN t.parameters

SliceOf(p, first, chunk) ==
  /\ p.shape = <<chunk>> /\ p.dtype = first.dtype /\ p.group = first.group
  /\ p.step = first.step /\ DOMAIN p.slots = DOMAIN first.slots

ConsolidateOptimizer(states, shapes) ==
  LET first == states[1]
      Size(name)  == The(Elements(shapes[name]))
      chunk(name) == Chunk(Size(name), Len(states))
      joined == [first EXCEPT !.parameters = [name \in DOMAIN @ |->
        [@[name] EXCEPT
           !.shape = shapes[name],
           !.slots = [slot \in DOMAIN @ |->
             [shape |-> shapes[name], dtype |-> @[slot].dtype,
              data |-> Joined([i \in DOMAIN states |-> states[i].parameters[name].slots[slot].data],
                              Size(name))]]]]]
  IN  IF \/ states = <<>>
         \/ \E i \in DOMAIN states : ~Portable(states[i]) \/ ~SameSettings(states[i], first)
         \/ DOMAIN shapes # DOMAIN first.parameters
         \/ \E name \in DOMAIN shapes :
              \/ Elements(shapes[name]) = Failed
              \/ ~Addressable(chunk(name), 0)
              \/ \E i \in DOMAIN states :
                   ~SliceOf(states[i].parameters[name], first.parameters[name], chunk(name))
         \/ ~Portable(joined)
      THEN Failed ELSE Ok(joined)

-----------------------------------------------------------------------------
(* Checkpoints. A name is a number, zero if it is no path; so is the        *)
(* identity of a capture, zero if it is empty or too long.                 *)

Count(spec) == {n \in Elements(spec.shape) : n <= MaxSize \div 2}

ValidSpecs(specs) ==
  /\ specs # <<>> /\ \A i \in 1 .. Len(specs) - 1 : specs[i].name < specs[i + 1].name
  /\ \A i \in DOMAIN specs :
       /\ specs[i].name # 0 /\ specs[i].dtype \in {"Float", "Double"}
       /\ Count(specs[i]) \notin {Failed, Ok(0)}

ValidShard(c) ==
  /\ c.schema = 1 /\ c.id # 0 /\ c.world \in 1 .. MaxWorld /\ c.rank < c.world
  /\ ValidSpecs(c.parameters)
  /\ Portable(c.optimizer)
  /\ Cardinality(DOMAIN c.weights) = Len(c.parameters)
  /\ Cardinality(DOMAIN c.optimizer.parameters) = Len(c.parameters)
  /\ \A i \in DOMAIN c.parameters :
       LET spec   == c.parameters[i]
           weight == c.weights[spec.name]
           moment == c.optimizer.parameters[spec.name]
       IN  /\ spec.name \in DOMAIN c.weights /\ PayloadFits(weight)
           /\ spec.name \in DOMAIN c.optimizer.parameters
           /\ moment.shape = weight.shape /\ moment.dtype = weight.dtype
           /\ weight.dtype = spec.dtype
           /\ weight.shape = <<Chunk(The(Count(spec)), c.world)>>

(* All ranks of one capture, in any order.                                 *)
CompleteSet(shards) ==
  /\ shards # <<>> /\ shards[1].world \in 1 .. MaxWorld /\ Len(shards) = shards[1].world
  /\ \A i \in DOMAIN shards :
       /\ ValidShard(shards[i])
       /\ shards[i].world = shards[1].world /\ shards[i].id = shards[1].id
       /\ shards[i].parameters = shards[1].parameters
       /\ \A j \in DOMAIN shards : shards[i].rank = shards[j].rank => i = j

Consolidate(shards) ==
  LET specs   == shards[1].parameters
      names   == {specs[i].name : i \in DOMAIN specs}
      Spec(name) == specs[CHOOSE i \in DOMAIN specs : specs[i].name = name]
      ordered == [r \in 1 .. Len(shards) |->
                    shards[CHOOSE i \in DOMAIN shards : shards[i].rank = r - 1]]
      Weight(name) ==
        [shape |-> Spec(name).shape, dtype |-> Spec(name).dtype,
         data |-> Joined([r \in DOMAIN ordered |-> ordered[r].weights[name].data],
                         The(Count(Spec(name))))]
      optimizer == ConsolidateOptimizer([r \in DOMAIN ordered |-> ordered[r].optimizer],
                                        [name \in names |-> Spec(name).shape])
  IN  IF ~CompleteSet(shards) THEN Failed
      ELSE {[schema |-> 1, parameters |-> specs, weights |-> [name \in names |-> Weight(name)],
             optimizer |-> o] : o \in optimizer}

ValidFull(c) ==
  /\ c.schema = 1 /\ ValidSpecs(c.parameters)
  /\ Cardinality(DOMAIN c.weights) = Len(c.parameters)
  /\ \A i \in DOMAIN c.parameters :
       LET spec == c.parameters[i]
       IN  /\ spec.name \in DOMAIN c.weights /\ PayloadFits(c.weights[spec.name])
           /\ c.weights[spec.name].shape = spec.shape /\ c.weights[spec.name].dtype = spec.dtype

(* A rank's record of a full checkpoint, for a group of any size. Its      *)
(* identity is one that no capture has.                                    *)
Consolidated == -1

ShardOf(c, rank, world) ==
  IF ~ValidFull(c) \/ world \notin 1 .. MaxWorld \/ rank >= world THEN Failed
  ELSE {[schema |-> 1, id |-> Consolidated, rank |-> rank, world |-> world,
         parameters |-> c.parameters,
         weights |-> [name \in DOMAIN c.weights |-> Flat(c.weights[name], rank, world)],
         optimizer |-> o] : o \in ShardOptimizer(c.optimizer, rank, world)}
=============================================================================
