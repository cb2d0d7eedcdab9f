--------------------------- MODULE MCLoaderBuilder ---------------------------
(* Builders of loaders after every short sequence of calls, and the pools of
   every small size. A word has six bits, every size is one byte, and the
   ceiling refuses some pools whose channels fit. *)
EXTENDS MCData

B == INSTANCE LoaderBuilder WITH MaxSize <- 63, MaxTimeout <- 2, Ceiling <- 44,
       SizeOf <- [k \in {"task", "completion", "control", "worker", "channel", "fixed", "credit",
                         "sample", "waiter", "entry"} |-> 1]

Given(name, values) == [name : {name}, value : values]

SharedCalls ==
  Given("batch_size", {0, 2}) \cup Given("drop_last", BOOLEAN) \cup Given("workers", {0, 3})
    \cup Given("seed", {4, 5}) \cup Given("epoch", {6}) \cup Given("rank", {1})
    \cup Given("persistent_workers", BOOLEAN) \cup Given("timeout", {0, 1, 3})
    \cup Given("ordered", BOOLEAN) \cup Given("pin_memory", [kind : {"auto", "cuda", "cpu"}, index : 1 .. 2])
    \cup Given("prefetch_factor", {0, 4, 5, 30}) \cup Given("prefetch_bytes", {7})

BuilderCalls ==
  SharedCalls \cup Given("batch_sampler", {"batches"}) \cup Given("sampler", {"mine"})
    \cup Given("shuffle", {"by seed"}) \cup Given("without_batching", {"it"})
    \cup Given("collate", {"mine"}) \cup Given("convert", {"mine"}) \cup Given("dataset_identity", {"", "it"})

(* The builder after calls, or an error of one; none if a call does not    *)
(* exist where it is made.                                                 *)
RECURSIVE Exist(_, _), After(_, _)
After(b, calls) ==
  IF calls = <<>> THEN Ok(b) ELSE UNION {After(n, Tail(calls)) : n \in B!Call(b, Head(calls))}
Exist(b, calls) ==
  calls # <<>> => /\ B!Exists(b, Head(calls))
                  /\ \A n \in B!Call(b, Head(calls)) : Exist(n, Tail(calls))

Built(length, calls, devices) == UNION {B!Build(b, devices) : b \in After(B!Builder(length), calls)}

Starts == {<<length, calls>> \in {0, 3} \X Short(1, BuilderCalls) : Exist(B!Builder(length), calls)}

(* Which loader is built, if any, does not depend on the order of calls of *)
(* different options.                                                      *)
ASSUME OrderIrrelevant == \A <<length, first>> \in Starts :
  \A c, d \in {c \in BuilderCalls : c.name \notin {f.name : f \in Range(first)}} :
    LET there == first \o <<c, d>>
        back  == first \o <<d, c>>
    IN  c.name # d.name /\ Exist(B!Builder(length), there) /\ Exist(B!Builder(length), back)
          => Built(length, there, 1) = Built(length, back, 1)

(* What the loader does, of what a call asked for.                         *)
Obeys(loader, c) ==
  CASE c.name = "batch_size" ->
         loader.plan # "none" => loader.plan = "auto" /\ Value(loader.batch).size = c.value
    [] c.name = "drop_last" ->
         IF loader.plan = "auto" THEN Value(loader.batch).dropLast = c.value ELSE ~c.value
    [] c.name = "workers"            -> loader.workers = c.value
    [] c.name = "seed"               -> loader.seed = c.value
    [] c.name = "epoch"              -> loader.epoch = c.value
    [] c.name = "rank"               -> loader.rank = c.value
    [] c.name = "persistent_workers" -> loader.persistent = c.value
    [] c.name = "timeout"            -> loader.timeout = {c.value} \ {0}
    [] c.name = "ordered"            -> loader.ordered = c.value
    [] c.name = "prefetch_factor"    -> loader.factor = Ok(c.value)
    [] c.name = "prefetch_bytes"     -> loader.bytes = Ok(c.value)
    [] c.name = "pin_memory" ->
         IF c.value.kind = "auto" THEN loader.pinned = B!PinnedFor(0)
         ELSE c.value.kind = "cuda" /\ loader.pinned = B!PinnedFor(c.value.index)
    [] c.name = "batch_sampler"      -> loader.plan = "explicit" /\ loader.sampler = c.value
    [] c.name \in {"sampler", "shuffle"} -> loader.plan # "explicit" /\ loader.sampler = c.value
    [] c.name = "without_batching"   -> loader.plan = "none"
    [] c.name = "collate"            -> loader.plan # "none" => loader.finish = c.value
    [] c.name = "convert"            -> loader.finish = c.value
    [] c.name = "dataset_identity"   -> TRUE

(* No option is dropped in silence, except a batch size and a collator     *)
(* given before batching is disabled; the last call of an option counts.   *)
ASSUME NothingIgnored == \A calls \in Short(3, BuilderCalls) :
  Exist(B!Builder(3), calls) => \A loader \in Built(3, calls, 2) : \A i \in DOMAIN calls :
    (\A j \in DOMAIN calls : calls[j].name = calls[i].name => j <= i) => Obeys(loader, calls[i])

(* What is built can run: batches have samples, only a pool has options of *)
(* a pool, and it holds something.                                         *)
ASSUME LoadersRun == \A calls \in Short(3, BuilderCalls) :
  Exist(B!Builder(3), calls) => \A loader \in Built(3, calls, 2) :
    /\ loader.batch # Failed <=> loader.plan = "auto"
    /\ \A b \in loader.batch : b.size > 0
    /\ \A t \in loader.timeout : t \in 1 .. 2
    /\ loader.factor = Failed <=> loader.workers = 0
    /\ loader.outstanding = Failed <=> loader.workers = 0
    /\ loader.workers = 0 => loader.timeout \cup loader.bytes = {} /\ ~loader.persistent
    /\ \A o \in loader.outstanding, f \in loader.factor : o = loader.workers * f /\ o > 0
    /\ loader.pinned.status = "enabled" <=> loader.pinned.device # Failed
    /\ loader.pinned.device \subseteq 0 .. 1

(* Only a data set with samples can be shuffled.                           *)
ASSUME EmptyIsNotShuffled == \A calls \in Short(2, BuilderCalls) : Exist(B!Builder(0), calls) =>
  (After(B!Builder(0), calls) = Failed <=> \E i \in DOMAIN calls : calls[i].name = "shuffle")

(* An exact builder makes what the other one makes, and only if what it    *)
(* makes delivers in order, alone, under a name, for its sampler's rank.   *)
ASSUME ExactIsStricter == \A calls \in Short(3, BuilderCalls), distributed \in {Failed, Ok(0), Ok(1)} :
  Exist(B!Builder(3), calls) => \A b \in After(B!Builder(3), calls) :
    b.identity # Failed =>
      B!BuildExact(b, 2, distributed) =
        {loader \in B!Build(b, 2) : /\ loader.ordered /\ loader.workers = 0 /\ b.identity = Ok("it")
                                    /\ distributed \subseteq {loader.rank}}

(* A smaller pool than one that is accepted is accepted.                    *)
Pool(workers, factor) ==
  Built(3, <<[name |-> "workers", value |-> workers], [name |-> "prefetch_factor", value |-> factor]>>, 0)
    # Failed

ASSUME SmallerFits == \A w \in 1 .. 9, f \in 1 .. 17 :
  Pool(w, f) => \A v \in 1 .. w, g \in 1 .. f : Pool(v, g)

(* In an accepted pool every index of every channel, and a mark above      *)
(* them, fit in a word, and all it stores is below the ceiling; each of    *)
(* these refuses pools that the other would accept.                        *)
Marked(capacity) == \E e \in 0 .. 6 : 2^e > capacity /\ 2^(e + 1) <= 63
Stored(w, o) == 2 * o + 2 * w + (2 * w + 1) + 1 <= 44

ASSUME PoolsFit ==
  /\ \A w \in 1 .. 9, f \in 1 .. 17 : Pool(w, f) <=> Marked(w * f) /\ Stored(w, w * f)
  /\ \E w \in 1 .. 9, f \in 1 .. 17 : Marked(w * f) /\ ~Stored(w, w * f)
  /\ \E w \in 1 .. 9, f \in 1 .. 17 : ~Marked(w * f) /\ Stored(w, w * f)

(* len() is how many batches the loader yields.                            *)
ASSUME LenIsCount == \A n \in 0 .. 5, options \in [batchSize : 1 .. 3, dropLast : BOOLEAN] :
  LET it     == Value(NewIterator([i \in 1 .. n |-> i - 1], options))
      collate == [samples \in Short(3, 1 .. n) |-> VecCollate(samples)]
      yields == Calls(LAMBDA i : NextIndexed(Fine(n), options, collate, i), it, 7)
  IN  B!BatchCount(n, options.batchSize, options.dropLast)
        = Cardinality({k \in DOMAIN yields : yields[k] # <<>>})

-----------------------------------------------------------------------------
StreamAfter(calls) == FoldLeft(B!StreamCall, B!StreamDefaults, calls)

Streams(calls, spare) == B!BuildStream(StreamAfter(calls), 1, spare)

(* Nor does a stream loader depend on the order of its options.             *)
ASSUME StreamOrderIrrelevant == \A first \in Short(1, SharedCalls), c, d \in SharedCalls :
  c.name # d.name => StreamAfter(first \o <<c, d>>) = StreamAfter(first \o <<d, c>>)

(* The defaults are accepted, for an empty data set too.                    *)
ASSUME DefaultsBuild == Streams(<<>>, 0) # Failed /\ Built(0, <<>>, 0) # Failed

(* A stream loader that is built can run and does what was asked last.     *)
ASSUME StreamsRun == \A calls \in Short(3, SharedCalls) : \A loader \in Streams(calls, 0) :
  LET conf   == loader.conf
      worked == [workers |-> conf.workers, plan |-> "auto", pinned |-> loader.pinned,
                 batch |-> Ok([size |-> conf.batchSize, dropLast |-> conf.dropLast]),
                 persistent |-> conf.persistent, timeout |-> conf.timeout, ordered |-> conf.ordered,
                 bytes |-> conf.bytes, factor |-> conf.factor, seed |-> conf.seed,
                 epoch |-> conf.epoch, rank |-> conf.rank]
  IN  /\ loader.outstanding = conf.workers * Value(conf.factor) /\ loader.outstanding > 0
      /\ conf.batchSize > 0 /\ \A t \in conf.timeout : t \in 1 .. 2
      /\ \A i \in DOMAIN calls :
           (\A j \in DOMAIN calls : calls[j].name = calls[i].name => j <= i) => Obeys(worked, calls[i])

(* The same of streams, where an ordered one also has a slot for each       *)
(* record it may hold back, and those the allocator added, and one with a  *)
(* byte limit has a place for each worker to wait in.                      *)
ASSUME StreamsFit == \A w, b \in 1 .. 5, f \in 1 .. 17, limit \in {Failed, Ok(7)}, ordered \in BOOLEAN, spare \in 0 .. 2 :
  LET conf == [B!StreamDefaults EXCEPT !.workers = w, !.factor = Ok(f), !.batchSize = b,
                                       !.bytes = limit, !.ordered = ordered]
      stored == 2 * w * f + 2 * b + 2 * w + (2 * w + 1)
                  + (IF ordered THEN w * f + spare ELSE 0) + (IF limit = Failed THEN 0 ELSE w)
  IN  B!BuildStream(conf, 0, spare) # Failed <=> Marked(w * f) /\ stored <= 44
=============================================================================
