------------------------------- MODULE MCData -------------------------------
(* The operators of Data over all small datasets, loaders and values. *)
EXTENDS Data

Short(n, S) == UNION {[1 .. m -> S] : m \in 0 .. n}

Rows(rows) == [kind |-> "rows", rows |-> rows]

Bases == {Rows(rows) : rows \in Short(2, {Ok("a"), Ok("b"), Failed})}

Fine(n) == Rows([i \in 1 .. n |-> Ok(i)])

Orders(n) == {p \in [1 .. n -> 0 .. n - 1] : IsInjective(p)}

-----------------------------------------------------------------------------
(* A concatenation has the samples of its children one after the other.    *)
ASSUME ConcatenationConcatenates == \A children \in Short(3, Bases) :
  LET lengths == [c \in DOMAIN children |-> Length(children[c])]
  IN  IF children = <<>> \/ FoldSeq(+, 0, lengths) > MaxSize
      THEN ConcatDataset(children) = Failed
      ELSE Samples(Value(ConcatDataset(children)))
             = FlattenSeq([c \in DOMAIN children |-> Samples(children[c])])

(* A stack has one sample for each place all its children have one at, and  *)
(* an error where one of them has an error.                                *)
ASSUME StacksAlign == \A children \in Short(3, Bases) \ {<<>>} : \A d \in StackDataset(children) :
  \A c \in DOMAIN children :
    /\ Len(Samples(d)) = Len(Samples(children[c]))
    /\ \A i \in DOMAIN Samples(d) :
         IF Samples(d)[i] = Failed
         THEN \E e \in DOMAIN children : Samples(children[e])[i] = Failed
         ELSE Ok(Value(Samples(d)[i])[c]) = Samples(children[c])[i]

(* Tensors are refused, or every sample has a row of each.                 *)
ASSUME TensorsAlign == \A tensors \in Short(2, [scalar : BOOLEAN, rows : Short(2, {"x", "y"})]) :
  \A d \in TensorDataset(tensors) : \A t \in DOMAIN tensors :
    /\ ~tensors[t].scalar
    /\ tensors[t].rows = [i \in 1 .. Length(d) |-> Value(Samples(d)[i])[t]]

Lengths == [kind : {"count", "fraction"}, value : -1 .. 5]

(* random_split refuses lengths that do not fit, and its splits are a      *)
(* partition of the indices: a count is met, and a fraction up to one       *)
(* sample, of which earlier splits get theirs first.                       *)
ASSUME SplitsPartition == \A n \in 0 .. 3 :
  \A lengths \in {l \in Short(3, Lengths) : \A i \in DOMAIN l : l[i].kind = "count" => l[i].value >= 0} :
    LET splits == RandomSplit(Fine(n), lengths, [i \in 1 .. n |-> n - i])
        total  == FoldSeq(LAMBDA l, t : l.value + t, 0, lengths)
        Only(kind) == \A i \in DOMAIN lengths : lengths[i].kind = kind
    IN  /\ splits # Failed <=>
             \/ Only("count") /\ total = n
             \/ /\ lengths # <<>> /\ Only("fraction") /\ total = Whole
                /\ \A i \in DOMAIN lengths : lengths[i].value >= 0
        /\ \A s \in splits :
             LET Size(i)  == Length(s[i])
                 Floor(i) == (lengths[i].value * n) \div Whole
             IN  IF Only("count") THEN \A i \in DOMAIN s : Size(i) = lengths[i].value
                 ELSE \A i \in DOMAIN s :
                        /\ Size(i) \in {Floor(i), Floor(i) + 1}
                        /\ i > 1 /\ Size(i) > Floor(i) => Size(i - 1) > Floor(i - 1)

ASSUME SplitsDisjoint == \A n \in 0 .. 4 : \A order \in Orders(n) :
  \A lengths \in Short(3, [kind : {"count"}, value : 0 .. 3] \cup [kind : {"fraction"}, value : {1, 2}]) :
    \A s \in RandomSplit(Fine(n), lengths, order) :
      \A x \in 1 .. n :
        Cardinality({<<i, k>> \in (DOMAIN s) \X (1 .. n) :
                       k \in DOMAIN Samples(s[i]) /\ Samples(s[i])[k] = Ok(x)}) = 1

-----------------------------------------------------------------------------
(* What any loader of batches should yield of results: chunks of the batch *)
(* size, without a short last one if it is to be dropped, up to the first  *)
(* chunk with an error in it, which ends the iteration.                    *)
Chunk(results, size, k) == SubSeq(results, (k - 1) * size + 1, Min({k * size, Len(results)}))

Expected(results, options, collate) ==
  LET size == options.batchSize
      n    == (Len(results) + size - 1) \div size
      Item(k) == LET samples == Collected(Chunk(results, size, k))
                 IN  IF samples = Failed THEN <<Failed>>
                     ELSE IF options.dropLast /\ k * size > Len(results) THEN <<>>
                     ELSE <<collate[Value(samples)]>>
      upTo[k \in 1 .. n + 1] ==
        IF k > n THEN <<>>
        ELSE <<Item(k)>> \o (IF Item(k) \in {<<>>, <<Failed>>} THEN <<>> ELSE upTo[k + 1])
  IN  upTo[1]

(* A collator that fails on a sample it does not like.                     *)
Picky ==
  [samples \in Short(3, {"a", "b"}) |-> IF "b" \in Range(samples) THEN Failed ELSE Ok(samples)]

Padded(items, n) == [i \in 1 .. n |-> IF i \in DOMAIN items THEN items[i] ELSE <<>>]

(* What an owner of the iterator sees of n calls.                          *)
RECURSIVE Calls(_, _, _)
Calls(next(_), it, n) ==
  IF n = 0 THEN <<>> ELSE <<next(it).item>> \o Calls(next, next(it).after, n - 1)

(* Both loaders yield that, over any source and with any collator, and     *)
(* once they return nothing, or an error, they return nothing ever after.  *)
ASSUME LoadersYieldChunks ==
  \A options \in [batchSize : 0 .. 3, dropLast : BOOLEAN] :
    \A rows \in Short(5, {Ok("a"), Ok("b"), Failed}) :
      LET n == 7
          d == Rows(rows)
          indices  == [i \in DOMAIN rows |-> Len(rows) - i]
          streamed == NewIterator(rows, options)
          indexed  == NewIterator(indices, options)
      IN  IF options.batchSize = 0 THEN streamed = Failed /\ indexed = Failed
          ELSE /\ Calls(LAMBDA it : NextStreamed(options, Picky, it), Value(streamed), n)
                    = Padded(Expected(rows, options, Picky), n)
               /\ Calls(LAMBDA it : NextIndexed(d, options, Picky, it), Value(indexed), n)
                    = Padded(Expected(Reverse(rows), options, Picky), n)

-----------------------------------------------------------------------------
(* Values of every type that nests at most two containers.                 *)
Number == {Leaf("number", [size |-> s]) : s \in 1 .. 2}
Text   == {Leaf("text", [size |-> s]) : s \in 0 .. 1}
Tensors == {Leaf("tensor", [shape |-> s, elements |-> s, width |-> 2, pins |-> p, pinned |-> FALSE])
              : s \in 0 .. 1, p \in BOOLEAN}

Keys == {[name |-> "k", size |-> 1], [name |-> "l", size |-> 3]}

Options(T) == {Option(Failed)} \cup {Option(Ok(v)) : v \in T}
Lists(T)   == {List(s) : s \in Short(2, T)}
Tuples(T, U) == {Tuple(<<a, b>>) : a \in T, b \in U}
Mappings(T) == {Mapping(f) : f \in UNION {[ks -> T] : ks \in SUBSET Keys}}

(* Each of these is the set of values of one Rust type.                    *)
Types ==
  {Number, Text, Tensors, Options(Number), Lists(Number), Mappings(Text), Lists(Options(Text)),
   Options(Lists(Number)), Tuples(Text, Options(Number)), Lists(Tensors), Options(Tensors),
   Mappings(Tensors), Tuples(Lists(Text), Tensors)}

(* Two samples that can be in one batch.                                   *)
RECURSIVE Alike(_, _)
Alike(a, b) ==
  CASE a.tag \in {"number", "text"} -> TRUE
    [] a.tag = "tensor" -> a.v.shape = b.v.shape
    [] a.tag = "option" -> /\ (a.v = Failed) = (b.v = Failed)
                           /\ \A x \in a.v, y \in b.v : Alike(x, y)
    [] OTHER -> DOMAIN a.v = DOMAIN b.v /\ \A i \in DOMAIN a.v : Alike(a.v[i], b.v[i])

(* The k-th sample of a batch, read back out of it.                        *)
RECURSIVE Sample(_, _)
Sample(batch, k) ==
  CASE batch.tag = "batch"  -> batch.v[k]
    [] batch.tag = "option" -> Option({Sample(b, k) : b \in batch.v})
    [] OTHER -> [batch EXCEPT !.v = [i \in DOMAIN batch.v |-> Sample(batch.v[i], k)]]

(* Samples are collated if they are alike, and then nothing is lost, moved *)
(* to another place or given to another sample.                            *)
ASSUME CollationKeeps == \A T \in Types : \A samples \in Short(3, T) :
  IF samples = <<>> \/ \E k, l \in DOMAIN samples : ~Alike(samples[k], samples[l])
  THEN Collate(samples) = Failed
  ELSE Collate(samples) # Failed /\ \A k \in DOMAIN samples :
         Sample(Value(Collate(samples)), k) = samples[k]

ASSUME ConvertsOne == \A samples \in Short(2, Lists(Number)) :
  Convert(samples) = IF Len(samples) = 1 THEN Ok(samples[1]) ELSE Failed

(* The leaves of a value, keys of maps included.                           *)
RECURSIVE Leaves(_)
Leaves(value) ==
  CASE value.tag \in {"number", "text", "tensor"} -> <<value>>
    [] value.tag = "option" -> IF value.v = Failed THEN <<>> ELSE Leaves(Value(value.v))
    [] value.tag = "map" -> LET keys == SetToSeq(DOMAIN value.v)
                            IN  FlattenSeq([i \in DOMAIN keys |->
                                  <<Leaf("text", keys[i])>> \o Leaves(value.v[keys[i]])])
    [] OTHER -> FlattenSeq([i \in DOMAIN value.v |-> Leaves(value.v[i])])

IsTensor(leaf) == leaf.tag = "tensor"

(* Pinning fails if a tensor cannot be pinned; otherwise it reaches every  *)
(* tensor and changes nothing else.                                        *)
ASSUME PinningReaches == \A T \in Types : \A value \in T :
  LET before == Leaves(value)
  IN  /\ Pin(value) = Failed <=> \E i \in DOMAIN before : IsTensor(before[i]) /\ ~before[i].v.pins
      /\ \A p \in Pin(value) :
           Leaves(p) = [i \in DOMAIN before |->
                          IF IsTensor(before[i]) THEN [before[i] EXCEPT !.v.pinned = TRUE]
                                                 ELSE before[i]]

(* A footprint is the sum of the leaves', or the largest there is.         *)
ASSUME FootprintSaturates == \A T \in Types : \A value \in T :
  LET Size(leaf) == IF IsTensor(leaf) THEN leaf.v.elements * leaf.v.width ELSE leaf.v.size
      total == FoldSeq(LAMBDA leaf, n : Size(leaf) + n, 0, Leaves(value))
  IN  ResidentBytes(value) = Min({total, MaxSize})

(* What tensor_elements accepts is the number of elements, within every    *)
(* limit, even where a zero makes a product of larger ones small again.    *)
ASSUME ElementsBounded == \A dimensions \in Short(3, 0 .. 5), limit \in {0, 3, 8} :
  LET Product(s) == FoldSeq(LAMBDA d, n : d * n, 1, s)
      signed == MaxSize \div 2
      Fits == /\ \A n \in DOMAIN dimensions :
                   dimensions[n] <= signed /\ Product(SubSeq(dimensions, 1, n)) <= MaxSize
              /\ Product(dimensions) <= limit /\ Product(dimensions) <= signed
  IN  TensorElements(dimensions, limit) = IF Fits THEN Ok(Product(dimensions)) ELSE Failed
=============================================================================
