--------------------------- MODULE MCExactLoader ---------------------------
(* Two workers with room for one or two tasks, over few samples: an epoch has
   a short last batch, a padded shard, a repeated permutation, or no batches.
   A state saved under one configuration meets the builders of the others. *)
EXTENDS ExactLoader

Base == [kind |-> "sequential", length |-> 5, count |-> 5, indices |-> <<>>,
         weights |-> <<>>, replacement |-> FALSE, replicas |-> 1, rank |-> 0,
         shuffle |-> FALSE, dropLast |-> FALSE, seed |-> 1]

Auto == [execution |-> "worker", identity |-> "data", ordered |-> TRUE, persistent |-> FALSE, timeout |-> FALSE,
         workers |-> 2, prefetch |-> 1, batching |-> "auto", batchSize |-> 2,
         dropLast |-> FALSE, seed |-> 1, rank |-> 0, sampler |-> Base]

One == [Auto EXCEPT !.workers = 1]

MCConfigs ==
  {Auto,
   [Auto EXCEPT !.prefetch = 2],
   [Auto EXCEPT !.workers = 0, !.batching = "none", !.batchSize = 1,
                !.sampler = [Base EXCEPT !.kind = "subset_random", !.indices = <<4, 0, 2>>]],
   [One EXCEPT !.batching = "explicit", !.dropLast = TRUE,
               !.sampler = [Base EXCEPT !.kind = "random", !.length = 2, !.count = 7]],
   [One EXCEPT !.prefetch = 2, !.batchSize = 1, !.rank = 1,
               !.sampler = [Base EXCEPT !.kind = "distributed", !.shuffle = TRUE,
                                        !.replicas = 2, !.rank = 1]],
   [Auto EXCEPT !.execution = "serial", !.workers = 0,
                !.sampler = [Base EXCEPT !.kind = "weighted_random", !.weights = <<0, 2, 1>>,
                                         !.count = 3]]}

(* The samplers against what they promise, over every small instance.      *)

Kinds == {"sequential", "random", "random_replacement", "subset_random",
          "weighted_random", "weighted_random_replacement", "distributed"}

Samples ==
  {s \in {[Base EXCEPT !.kind = k, !.length = n, !.count = c, !.seed = seed,
                       !.indices = <<3, 1, 4, 2>>, !.weights = <<0, 2, 0, 1, 5>>,
                       !.replicas = r, !.shuffle = sh, !.dropLast = d] :
            k \in Kinds, n \in 0 .. 5, c \in 0 .. 6, seed \in {1, 2}, r \in {1, 3},
            sh \in BOOLEAN, d \in BOOLEAN} : ValidSampler(s)}

Distinct(s) == Cardinality({s[i] : i \in DOMAIN s}) = Len(s)

Times(s, x) == Cardinality({i \in DOMAIN s : s[i] = x})

(* exact_len and the range of the indices; epochs whose seeds wrap around. *)
ASSUME SamplersExact == \A s \in Samples, e \in {0, MaxU64} :
  LET order == Indices(s, e)
  IN  /\ Len(order) = ExactLen(s)
      /\ s.kind \in {"sequential", "random", "random_replacement", "distributed"} =>
           \A i \in DOMAIN order : order[i] \in 0 .. s.length - 1
      /\ s.kind = "subset_random" =>
           \A i \in DOMAIN s.indices : Times(order, s.indices[i]) = 1

(* Every run of a whole length is a permutation.                           *)
ASSUME RandomPermutes == \A s \in {t \in Samples : t.kind = "random"} :
  \A k \in 0 .. s.count :
  k % s.length = 0 =>
    Distinct(SubSeq(Indices(s, 0), k + 1, IF k + s.length > s.count THEN s.count
                                                                   ELSE k + s.length))

(* Weights of zero are never drawn with replacement, and come last without. *)
ASSUME WeightsRespected == \A s \in Samples :
  LET order == Indices(s, 0)
      Zero(i) == s.weights[order[i] + 1] = 0
  IN  /\ s.kind = "weighted_random_replacement" => \A i \in DOMAIN order : ~Zero(i)
      /\ s.kind = "weighted_random" =>
           Distinct(order) /\ \A i, j \in DOMAIN order : i < j /\ Zero(i) => Zero(j)

(* The ranks together cover the range evenly; with dropLast none repeats.  *)
ASSUME ShardsCover == \A s \in {t \in Samples : t.kind = "distributed"} :
  LET Rank(r) == Indices([s EXCEPT !.rank = r], 0)
      Together(x) == FoldSet(LAMBDA r, n : n + Times(Rank(r), x), 0, 0 .. s.replicas - 1)
  IN  /\ \A r \in 0 .. s.replicas - 1 : Len(Rank(r)) = Len(Rank(0))
      /\ \A x, y \in 0 .. s.length - 1 :
           /\ Together(x) <= Together(y) + 1
           /\ IF s.dropLast THEN Together(x) <= 1 ELSE Together(x) >= 1

(* A plan's iterator yields the batches of its length, and every place      *)
(* between two of them is a boundary from which the rest can be restored.  *)
ASSUME PlansCut == \A s \in {t \in Samples : t.seed = 1 /\ t.count \in {1, 5}} :
  \A batching \in {"auto", "none"}, size \in 1 .. 3, drop \in BOOLEAN :
  LET p == [Auto EXCEPT !.sampler = s, !.batching = batching, !.batchSize = size,
                        !.dropLast = drop]
      rest[k \in 0 .. PlanLen(p)] ==
        IF k = 0 THEN Indices(s, 0) ELSE AfterBatch(p, rest[k - 1])
  IN  /\ \A k \in 1 .. PlanLen(p) :
           HasBatch(p, rest[k - 1]) /\ FirstBatch(p, rest[k - 1]) = Batches(p, 0)[k]
      /\ ~HasBatch(p, rest[PlanLen(p)])
      /\ \A k \in 0 .. PlanLen(p) :
           CanSave(p, k, FirstSample(p, k)) /\ Restored(p, Cursor(p, 0, FirstSample(p, k))) = rest[k]

(* Faults where two workers race with room for one task each; two saves and
   a failing batch where they run further ahead. *)
MCScenarios(c) ==
  {[bad |-> {1}, faults |-> 0, saves |-> 2]} \cup
  (IF c.prefetch = 2 /\ c.workers = 2
   THEN {} ELSE {[bad |-> {}, faults |-> 1, saves |-> 1]})
=============================================================================
