-------------------------------- MODULE Data --------------------------------
(***************************************************************************)
(* The sequential half of rusttorch-data: datasets made from datasets and  *)
(* random_split (dataset.rs), the borrowed loaders (lib.rs), and what is   *)
(* done to structured values: collation, conversion, pinning, footprints   *)
(* and resource limits (collate.rs, pin_memory.rs, memory.rs, limits.rs).  *)
(*                                                                         *)
(* Nothing here keeps state between calls but the iterators, so the module *)
(* is operators only. A Result is a set: Ok(v), or the empty set for an    *)
(* error, whose wording is left out.                                       *)
(***************************************************************************)
EXTENDS Integers, Sequences, SequencesExt, FiniteSetsExt, Functions

CONSTANT MaxSize  \* stands for usize::MAX

Ok(v)     == {v}
Failed    == {}
Value(r)  == CHOOSE v \in r : TRUE

(* collect::<Result<Vec<_>, _>>: every value, or the first error.          *)
Collected(results) ==
  IF \E i \in DOMAIN results : results[i] = Failed THEN Failed
  ELSE Ok([i \in DOMAIN results |-> Value(results[i])])

(* A fold of checked_add.                                                  *)
CheckedTotal(counts) ==
  LET total == FoldSeq(+, 0, counts) IN IF total > MaxSize THEN Failed ELSE Ok(total)

-----------------------------------------------------------------------------
(* Datasets. "rows" is one of the user's: a row is given, or fetching it    *)
(* fails. Indices count from zero and are below the length.                *)

RECURSIVE Length(_)
Length(d) ==
  CASE d.kind = "rows"    -> Len(d.rows)
    [] d.kind = "tensors" -> Len(d.tensors[1])
    [] d.kind = "stack"   -> Length(d.children[1])
    [] d.kind = "concat"  -> FoldSeq(+, 0, [c \in DOMAIN d.children |-> Length(d.children[c])])
    [] d.kind = "subset"  -> Len(d.indices)

(* The child whose cumulative size is the first above the index, which     *)
(* passes over the empty ones.                                             *)
Cumulative(d) ==
  LET sizes[c \in 0 .. Len(d.children)] ==
        IF c = 0 THEN 0 ELSE sizes[c - 1] + Length(d.children[c])
  IN  sizes

ChildOf(d, index) == Min({c \in DOMAIN d.children : Cumulative(d)[c] > index})

RECURSIVE Get(_, _)

TensorRow(d, index) == Ok([t \in DOMAIN d.tensors |-> d.tensors[t][index + 1]])

StackGet(d, index) == Collected([c \in DOMAIN d.children |-> Get(d.children[c], index)])

ConcatGet(d, index) ==
  LET c == ChildOf(d, index) IN Get(d.children[c], index - Cumulative(d)[c - 1])

SubsetGet(d, index) == Get(d.dataset, d.indices[index + 1])

Get(d, index) ==
  CASE d.kind = "rows"    -> d.rows[index + 1]
    [] d.kind = "tensors" -> TensorRow(d, index)
    [] d.kind = "stack"   -> StackGet(d, index)
    [] d.kind = "concat"  -> ConcatGet(d, index)
    [] d.kind = "subset"  -> SubsetGet(d, index)

GetBatch(d, indices) == Collected([i \in DOMAIN indices |-> Get(d, indices[i])])

(* samples(): an error does not end it.                                    *)
Samples(d) == [i \in 1 .. Length(d) |-> Get(d, i - 1)]

(* The constructors. A tensor is the sequence of its rows, or a scalar.    *)
TensorDataset(tensors) ==
  IF \/ tensors = <<>>
     \/ \E t \in DOMAIN tensors : tensors[t].scalar \/ Len(tensors[t].rows) # Len(tensors[1].rows)
  THEN Failed
  ELSE Ok([kind |-> "tensors", tensors |-> [t \in DOMAIN tensors |-> tensors[t].rows]])

StackDataset(children) ==
  IF \E c \in DOMAIN children : Length(children[c]) # Length(children[1]) THEN Failed
  ELSE Ok([kind |-> "stack", children |-> children])

ConcatDataset(children) ==
  IF children = <<>> \/ CheckedTotal([c \in DOMAIN children |-> Length(children[c])]) = Failed
  THEN Failed
  ELSE Ok([kind |-> "concat", children |-> children])

Subset(d, indices) ==
  IF \E i \in DOMAIN indices : indices[i] >= Length(d) THEN Failed
  ELSE Ok([kind |-> "subset", dataset |-> d, indices |-> indices])

(* Lengths are counts, or fractions in parts of Whole: the model's         *)
(* arithmetic is exact, where the code allows a sum 1e-9 below one. What   *)
(* the floors leave over goes to the splits in turn.                       *)
Whole == 4

SplitCounts(length, lengths) ==
  LET values == [i \in DOMAIN lengths |-> lengths[i].value]
      floors == [i \in DOMAIN lengths |-> (values[i] * length) \div Whole]
      left   == length - FoldSeq(+, 0, floors)
      Share(i) == Cardinality({k \in 0 .. left - 1 : k % Len(lengths) = i - 1})
  IN  IF Cardinality({lengths[i].kind : i \in DOMAIN lengths}) > 1 THEN Failed
      ELSE IF lengths = <<>> \/ lengths[1].kind = "count"
      THEN IF CheckedTotal(values) = Ok(length) THEN Ok(values) ELSE Failed
      ELSE IF \/ \E i \in DOMAIN values : values[i] \notin 0 .. Whole
              \/ FoldSeq(+, 0, values) # Whole
      THEN Failed
      ELSE Ok([i \in DOMAIN floors |-> floors[i] + Share(i)])

(* order is the shuffled sequence of all indices; the splits are cut from  *)
(* it one after the other.                                                 *)
RandomSplit(d, lengths, order) ==
  LET cut(counts) ==
        LET offset[i \in 0 .. Len(counts)] == IF i = 0 THEN 0 ELSE offset[i - 1] + counts[i]
        IN  [i \in DOMAIN counts |-> Subset(d, SubSeq(order, offset[i - 1] + 1, offset[i]))]
  IN  UNION {Collected(cut(counts)) : counts \in SplitCounts(Length(d), lengths)}

-----------------------------------------------------------------------------
(* The borrowed loaders. An iterator is what its source has left and       *)
(* whether it is exhausted; next() is what it returns, one result or none,  *)
(* and the iterator after it. A collator is a function from samples.        *)

NewIterator(source, options) ==
  IF options.batchSize = 0 THEN Failed ELSE Ok([rest |-> source, exhausted |-> FALSE])

Returns(item, rest, exhausted) ==
  [item |-> item, after |-> [rest |-> rest, exhausted |-> exhausted]]

(* DatasetBatchIterator::next, over the indices of a sampler: a short last *)
(* batch is fetched, and its error returned, even if it is to be dropped.  *)
NextIndexed(d, options, collate, it) ==
  LET taken == SubSeq(it.rest, 1, Min({options.batchSize, Len(it.rest)}))
      rest  == SubSeq(it.rest, Len(taken) + 1, Len(it.rest))
      short == Len(taken) < options.batchSize
      samples == GetBatch(d, taken)
      batch   == collate[Value(samples)]
  IN  IF it.exhausted \/ taken = <<>> THEN Returns(<<>>, it.rest, TRUE)
      ELSE IF samples = Failed THEN Returns(<<Failed>>, rest, TRUE)
      ELSE IF options.dropLast /\ short THEN Returns(<<>>, rest, TRUE)
      ELSE Returns(<<batch>>, rest, short \/ batch = Failed)

(* BatchIterator::next, over a source of results: an error ends it and     *)
(* takes along the samples it had gathered.                                *)
NextStreamed(options, collate, it) ==
  LET most  == SubSeq(it.rest, 1, Min({options.batchSize, Len(it.rest)}))
      bad   == {i \in DOMAIN most : most[i] = Failed}
      rest  == SubSeq(it.rest, Len(most) + 1, Len(it.rest))
      short == Len(most) < options.batchSize
      batch == collate[Value(Collected(most))]
  IN  IF it.exhausted \/ most = <<>> THEN Returns(<<>>, it.rest, TRUE)
      ELSE IF bad # {} THEN Returns(<<Failed>>, SubSeq(it.rest, Min(bad) + 1, Len(it.rest)), TRUE)
      ELSE IF options.dropLast /\ short THEN Returns(<<>>, rest, TRUE)
      ELSE Returns(<<batch>>, rest, short \/ batch = Failed)

-----------------------------------------------------------------------------
(* Structured values. Numbers and texts are leaves; a tensor has a shape    *)
(* and a content; the samples of a batch have one Rust type, so they agree *)
(* on the tag at every place.                                              *)

Leaf(tag, v)  == [tag |-> tag, v |-> v]
Option(r)     == [tag |-> "option", v |-> r]
List(s)       == [tag |-> "list", v |-> s]
Tuple(s)      == [tag |-> "tuple", v |-> s]
Mapping(f)    == [tag |-> "map", v |-> f]

(* The samples' values at one place of the structure.                      *)
Column(samples, i) == [k \in DOMAIN samples |-> samples[k].v[i]]

(* One value for all samples of a batch.                                   *)
Agree(values) == \A k \in DOMAIN values : values[k] = values[1]

RECURSIVE Collate(_)

(* What is inside a container is collated place by place.                  *)
CollatePlaces(samples) ==
  LET places  == DOMAIN samples[1].v
      columns == [i \in places |-> Collate(Column(samples, i))]
  IN  IF \E i \in places : columns[i] = Failed THEN Failed
      ELSE Ok([tag |-> samples[1].tag, v |-> [i \in places |-> Value(columns[i])]])

(* libtorch refuses to stack unequal shapes.                               *)
CollateTensors(samples) ==
  IF Agree([k \in DOMAIN samples |-> samples[k].v.shape]) THEN Ok([tag |-> "batch", v |-> samples]) ELSE Failed

(* Numbers become one tensor, texts a list.                                *)
CollateLeaves(samples) == Ok([tag |-> "batch", v |-> samples])

(* There in every sample, or in none.                                      *)
CollateOptions(samples) ==
  IF ~Agree([k \in DOMAIN samples |-> samples[k].v = Failed]) THEN Failed
  ELSE IF samples[1].v = Failed THEN Ok(Option(Failed))
  ELSE {Option(Ok(b)) : b \in Collate([k \in DOMAIN samples |-> Value(samples[k].v)])}

(* Of one length.                                                          *)
CollateLists(samples) ==
  IF Agree([k \in DOMAIN samples |-> Len(samples[k].v)]) THEN CollatePlaces(samples) ELSE Failed

(* With the same keys.                                                     *)
CollateMaps(samples) ==
  IF Agree([k \in DOMAIN samples |-> DOMAIN samples[k].v]) THEN CollatePlaces(samples) ELSE Failed

CollateTuples(samples) == CollatePlaces(samples)

Collate(samples) ==
  IF samples = <<>> THEN Failed
  ELSE LET tag == samples[1].tag
       IN  CASE tag \in {"number", "text"} -> CollateLeaves(samples)
             [] tag = "tensor"  -> CollateTensors(samples)
             [] tag = "option"  -> CollateOptions(samples)
             [] tag = "list"    -> CollateLists(samples)
             [] tag = "map"     -> CollateMaps(samples)
             [] tag = "tuple"   -> CollateTuples(samples)

(* DefaultConverter: one sample, as it is.                                 *)
Convert(samples) == IF Len(samples) = 1 THEN Ok(samples[1]) ELSE Failed

VecCollate(samples) == Ok(samples)

(* pin_memory reaches every tensor of a batch; keys of maps stay.          *)
RECURSIVE Pin(_)
Pin(value) ==
  LET pinned == [i \in DOMAIN value.v |-> Pin(value.v[i])]
  IN  CASE value.tag \in {"number", "text"} -> Ok(value)
        [] value.tag = "tensor" ->
             IF value.v.pins THEN Ok([value EXCEPT !.v.pinned = TRUE]) ELSE Failed
        [] value.tag = "option" ->
             IF value.v = Failed THEN Ok(value)
             ELSE {Option(Ok(p)) : p \in Pin(Value(value.v))}
        [] value.tag \in {"list", "map", "tuple"} ->
             IF \E i \in DOMAIN pinned : pinned[i] = Failed THEN Failed
             ELSE Ok([value EXCEPT !.v = [i \in DOMAIN pinned |-> Value(pinned[i])]])

(* resident_bytes, saturating at every sum. A leaf has a size; a tensor's   *)
(* is its elements times their width.                                      *)
SaturatingSum(sizes) ==
  FoldSeq(LAMBDA s, total : IF total + s > MaxSize THEN MaxSize ELSE total + s, 0, sizes)

RECURSIVE ResidentBytes(_)
ResidentBytes(value) ==
  CASE value.tag \in {"number", "text"} -> value.v.size
    [] value.tag = "tensor" -> Min({MaxSize, value.v.elements * value.v.width})
    [] value.tag = "option" -> IF value.v = Failed THEN 0 ELSE ResidentBytes(Value(value.v))
    [] value.tag \in {"list", "tuple"} ->
         SaturatingSum([i \in DOMAIN value.v |-> ResidentBytes(value.v[i])])
    [] value.tag = "map" ->
         LET keys == SetToSeq(DOMAIN value.v)
         IN  SaturatingSum([i \in DOMAIN keys |-> keys[i].size]
                           \o [i \in DOMAIN keys |-> ResidentBytes(value.v[keys[i]])])

(* tensor_elements: dimensions are checked first, then every product of    *)
(* a prefix, then the limit. MaxSize \div 2 stands for i64::MAX.            *)
TensorElements(dimensions, limit) ==
  LET signed == MaxSize \div 2
      products[n \in 0 .. Len(dimensions)] ==
        IF n = 0 THEN 1 ELSE products[n - 1] * dimensions[n]
      elements == products[Len(dimensions)]
  IN  IF \/ \E n \in DOMAIN dimensions : dimensions[n] > signed
         \/ \E n \in DOMAIN dimensions : products[n] > MaxSize
         \/ elements > Min({limit, signed})
      THEN Failed ELSE Ok(elements)
=============================================================================
