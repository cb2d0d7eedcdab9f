------------------------------ MODULE Samplers ------------------------------
(***************************************************************************)
(* The index samplers of rusttorch-data and the plans that turn their      *)
(* indices into batches (sampler.rs, the plans of loader.rs): the sequence *)
(* of indices of an epoch, how it is cut into batches, the cursor a        *)
(* checkpoint keeps of it, what is validated of such a cursor, and the     *)
(* iterator that is rebuilt from it.                                       *)
(*                                                                         *)
(* An iterator is the sequence of the indices it has not yielded yet.      *)
(***************************************************************************)
EXTENDS Naturals, Sequences, SequencesExt

CONSTANT MaxU64  \* stands for u64::MAX, where seeds wrap and counters end

(* The generator is ChaCha12 from a seed. The code relies on one thing:   *)
(* that a seed always gives the same result. Any two functions of the      *)
(* seed do for that, one that permutes and one that draws.                 *)
Shuffled(s, seed) ==
  [i \in 1 .. Len(s) |->
     IF seed % 2 = 0 THEN s[1 + ((i - 1 + (seed \div 2)) % Len(s))]
                     ELSE s[1 + ((2 * Len(s) - i + (seed \div 2)) % Len(s))]]

Drawn(length, n, seed) == [i \in 1 .. n |-> ((i * i) + seed) % length]

Ascending(n) == [i \in 1 .. n |-> i - 1]

EpochSeed(seed, epoch) == (seed + epoch) % (MaxU64 + 1)

(* The constructors: what a sampler must be to exist.                      *)
ValidRandom(s) == s.length > 0 /\ s.count > 0

ValidWeighted(s) ==
  /\ \E i \in DOMAIN s.weights : s.weights[i] > 0
  /\ s.count > 0
  /\ s.kind = "weighted_random" => s.count <= Len(s.weights)

ValidDistributed(s) == s.replicas > 0 /\ s.rank < s.replicas

ValidSampler(s) ==
  CASE s.kind \in {"random", "random_replacement"}                   -> ValidRandom(s)
    [] s.kind \in {"weighted_random", "weighted_random_replacement"} -> ValidWeighted(s)
    [] s.kind = "distributed"                                        -> ValidDistributed(s)
    [] s.kind \in {"sequential", "subset_random"}                    -> TRUE

SampleCount(length, replicas, dropLast) ==
  (length \div replicas)
    + (IF dropLast \/ length % replicas = 0 THEN 0 ELSE 1)

(* A rank's indices: the global sequence, shuffled or not, is truncated to *)
(* a multiple of the ranks or padded from its own beginning, and dealt out *)
(* one index to each rank in turn.                                         *)
DistributedIndices(s, seed) ==
  LET count  == SampleCount(s.length, s.replicas, s.dropLast)
      kept   == IF s.shuffle \/ ~s.dropLast THEN s.length ELSE count * s.replicas
      global == IF s.shuffle THEN Shuffled(Ascending(kept), seed) ELSE Ascending(kept)
  IN  [i \in 1 .. count |->
         LET p == s.rank + (i - 1) * s.replicas
         IN  IF p < Len(global) THEN global[p + 1]
                                ELSE global[1 + ((p - s.length) % s.length)]]

(* Successive permutations of the range, drawn one after the other from   *)
(* one generator, the last one cut short; or independent draws from it.    *)
RandomIndices(s, seed) ==
  IF s.kind = "random_replacement" THEN Drawn(s.length, s.count, seed)
  ELSE [i \in 1 .. s.count |->
          Shuffled(Ascending(s.length), seed + ((i - 1) \div s.length))
            [1 + ((i - 1) % s.length)]]

SubsetIndices(s, seed) == Shuffled(s.indices, seed)

(* Without replacement every index of positive weight comes before those   *)
(* of weight zero, which only fill what is left.                           *)
WeightedIndices(s, seed) ==
  LET all      == Ascending(Len(s.weights))
      positive == SelectSeq(all, LAMBDA i : s.weights[i + 1] > 0)
      zero     == SelectSeq(all, LAMBDA i : s.weights[i + 1] = 0)
  IN  IF s.kind = "weighted_random_replacement"
      THEN [i \in 1 .. s.count |-> positive[1 + Drawn(Len(positive), s.count, seed)[i]]]
      ELSE SubSeq(Shuffled(positive, seed) \o Shuffled(zero, seed), 1, s.count)

(* Sampler::iter: the indices of one epoch. *)
Indices(s, epoch) ==
  LET seed == EpochSeed(s.seed, epoch)
  IN  CASE s.kind = "sequential"                      -> Ascending(s.length)
        [] s.kind \in {"random", "random_replacement"} -> RandomIndices(s, seed)
        [] s.kind = "subset_random"                   -> SubsetIndices(s, seed)
        [] s.kind = "distributed"                     -> DistributedIndices(s, seed)
        [] s.kind \in {"weighted_random", "weighted_random_replacement"} ->
             WeightedIndices(s, seed)

ExactLen(s) ==
  CASE s.kind = "sequential"    -> s.length
    [] s.kind = "subset_random" -> Len(s.indices)
    [] s.kind = "distributed"   -> SampleCount(s.length, s.replicas, s.dropLast)
    [] OTHER                    -> s.count

(* batch_count. *)
BatchCount(length, size, dropLast) ==
  (length \div size) + (IF dropLast \/ length % size = 0 THEN 0 ELSE 1)

(* What the cursor of a sampler records of its configuration.              *)
SequentialCursor(s) == [length |-> s.length]

RandomCursor(s) ==
  [length |-> s.length, count |-> s.count, kind |-> s.kind, seed |-> s.seed]

SubsetCursor(s) == [indices |-> s.indices, seed |-> s.seed]

WeightedCursor(s) ==
  [weights |-> s.weights, count |-> s.count, kind |-> s.kind, seed |-> s.seed]

DistributedCursor(s) ==
  [length |-> s.length, replicas |-> s.replicas, rank |-> s.rank,
   shuffle |-> s.shuffle, seed |-> s.seed, dropLast |-> s.dropLast]

SamplerCursor(s) ==
  CASE s.kind = "sequential"    -> SequentialCursor(s)
    [] s.kind \in {"random", "random_replacement"} -> RandomCursor(s)
    [] s.kind = "subset_random" -> SubsetCursor(s)
    [] s.kind = "distributed"   -> DistributedCursor(s)
    [] s.kind \in {"weighted_random", "weighted_random_replacement"} -> WeightedCursor(s)

-----------------------------------------------------------------------------
(* A plan p batches the indices of its sampler: automatically (AutoBatch), *)
(* through a BatchSampler of the caller (ExplicitBatches), or not at all   *)
(* (NoBatch: every index is a batch).                                      *)

BatchSize(p) == IF p.batching = "none" THEN 1 ELSE p.batchSize
DropLast(p)  == p.batching # "none" /\ p.dropLast

(* BatchSampler::next: the next batch, if there is one, and what is left   *)
(* after one or several.                                                   *)
HasBatch(p, rest) ==
  rest # <<>> /\ (DropLast(p) => Len(rest) >= BatchSize(p))

FirstBatch(p, rest) ==
  SubSeq(rest, 1, IF Len(rest) < BatchSize(p) THEN Len(rest) ELSE BatchSize(p))

AfterBatches(p, rest, k) == SubSeq(rest, (k * BatchSize(p)) + 1, Len(rest))

AfterBatch(p, rest) == AfterBatches(p, rest, 1)

(* BatchSampler::exact_len and the plans': how many batches there are.     *)
PlanLen(p) == BatchCount(ExactLen(p.sampler), BatchSize(p), DropLast(p))

(* The boundary of batch number batch and sample number sample: complete   *)
(* batches before it, or all of them when the last one is short.           *)
IsBoundary(p, batch, sample) ==
  IF p.batching = "none"
  THEN batch = sample
  ELSE LET complete == sample \div p.batchSize
           aligned  == sample % p.batchSize = 0
       IN  \/ aligned /\ batch = complete
           \/ /\ ~p.dropLast
              /\ ~aligned
              /\ sample = ExactLen(p.sampler)
              /\ batch = complete + 1

(* checkpoint_state: the cursor of a boundary; the sampler's configuration *)
(* goes with it.                                                           *)
CanSave(p, batch, sample) ==
  IsBoundary(p, batch, sample) /\ sample <= ExactLen(p.sampler)

Cursor(p, epoch, sample) ==
  [sampler |-> SamplerCursor(p.sampler), epoch |-> epoch, position |-> sample,
   cut |-> IF p.batching = "explicit" THEN <<p.batchSize, p.dropLast>> ELSE <<>>]

(* validate_checkpoint_state: a plan takes a cursor only of a sampler that *)
(* is configured as its own, on a boundary of its own batches.             *)
AcceptsCursor(p, cursor, batch, sample) ==
  /\ IsBoundary(p, batch, sample)
  /\ cursor = Cursor(p, cursor.epoch, sample)
  /\ sample <= ExactLen(p.sampler)

(* restore_checkpoint_iter_validated: the sequence of the cursor's epoch is *)
(* generated again and advanced to the position.                           *)
Restored(p, cursor) ==
  LET order == Indices(p.sampler, cursor.epoch)
  IN  SubSeq(order, cursor.position + 1, Len(order))

=============================================================================
