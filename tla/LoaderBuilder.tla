---------------------------- MODULE LoaderBuilder ----------------------------
(***************************************************************************)
(* The builders of the map loader (loader.rs) and of the stream loader      *)
(* (stream.rs): what a call of an option changes, and what build() accepts *)
(* and makes of it. Options that only replace a callback (transform,        *)
(* worker_init) change nothing else and are left out; so is cloning.       *)
(*                                                                         *)
(* The plan's own batch size and drop_last are not kept, since build()     *)
(* overwrites both from the configuration before anyone reads them.        *)
(***************************************************************************)
EXTENDS Data

CONSTANTS MaxTimeout,  \* the longest timeout the monotonic clock can represent
          Ceiling      \* MAX_WORKER_QUEUE_ALLOCATION_BYTES, and the stream's

(* Sizes of what a pool stores, in bytes.                                  *)
CONSTANT SizeOf

(* What to pin for: "disabled", "auto", or an explicit device.             *)
NoPin == [kind |-> "disabled", index |-> 0]

Defaults ==
  [batchSize |-> 1, dropLast |-> FALSE, workers |-> 0, persistent |-> FALSE, timeout |-> Failed,
   ordered |-> TRUE, pin |-> NoPin, factor |-> Failed, bytes |-> Failed,
   seed |-> 0, epoch |-> 0, rank |-> 0]

(* new(): in index order, one sample a batch.                              *)
Builder(length) ==
  [length |-> length, plan |-> "auto", sampler |-> "sequential", collator |-> "default",
   converter |-> "default", conf |-> Defaults, explicit |-> {}, identity |-> Failed]

-----------------------------------------------------------------------------
(* The calls. Most keep a value; some also remember that they were made.   *)

SetBatchSize(b, n) == [b EXCEPT !.conf.batchSize = n, !.explicit = @ \cup {"batch_size"}]
SetDropLast(b, d)  == [b EXCEPT !.conf.dropLast = d, !.explicit = @ \cup {"drop_last"}]
SetWorkers(b, n)   == [b EXCEPT !.conf.workers = n]
SetSeed(b, n)      == [b EXCEPT !.conf.seed = n]
SetEpoch(b, n)     == [b EXCEPT !.conf.epoch = n]
SetRank(b, n)      == [b EXCEPT !.conf.rank = n]
SetPersistent(b, p) == [b EXCEPT !.conf.persistent = p]
SetTimeout(b, t)   == [b EXCEPT !.conf.timeout = IF t = 0 THEN Failed ELSE Ok(t)]
SetOrdered(b, o)   == [b EXCEPT !.conf.ordered = o]
SetPin(b, request) == [b EXCEPT !.conf.pin = request]

SetPrefetchFactor(b, n) ==
  [b EXCEPT !.conf.factor = Ok(n), !.explicit = @ \cup {"prefetch_factor"}]
SetPrefetchBytes(b, n) ==
  [b EXCEPT !.conf.bytes = Ok(n), !.explicit = @ \cup {"prefetch_bytes"}]

SetBatchSampler(b, s) ==
  [b EXCEPT !.plan = "explicit", !.sampler = s, !.explicit = @ \cup {"batch_sampler"}]

(* The other calls differ between a builder of automatic batches, of an    *)
(* explicit plan and of no batches. Shuffling an empty range is refused.   *)
Shuffled(b, seed) == IF b.length = 0 THEN Failed ELSE Ok([b EXCEPT !.sampler = seed])

AutoCall(b, c) ==
  LET called == [b EXCEPT !.explicit = @ \cup {c.name}]
  IN  CASE c.name = "sampler"          -> Ok([called EXCEPT !.sampler = c.value])
        [] c.name = "shuffle"          -> Shuffled(called, c.value)
        [] c.name = "without_batching" -> Ok([called EXCEPT !.plan = "none"])
        [] c.name = "collate"          -> Ok([b EXCEPT !.collator = c.value])

(* An explicit plan forgets its batches and makes automatic ones, or none  *)
(* in index order.                                                         *)
ExplicitCall(b, c) ==
  LET auto == [b EXCEPT !.explicit = @ \cup {c.name}, !.plan = "auto"]
  IN  CASE c.name = "sampler"          -> Ok([auto EXCEPT !.sampler = c.value])
        [] c.name = "shuffle"          -> Shuffled(auto, c.value)
        [] c.name = "without_batching" -> Ok([auto EXCEPT !.plan = "none", !.sampler = "sequential"])
        [] c.name = "collate"          -> Ok([b EXCEPT !.collator = c.value])

NoBatchCall(b, c) ==
  LET called == [b EXCEPT !.explicit = @ \cup {c.name}]
  IN  CASE c.name = "sampler" -> Ok([called EXCEPT !.sampler = c.value])
        [] c.name = "shuffle" -> Shuffled(called, c.value)
        [] c.name = "convert" -> Ok([b EXCEPT !.converter = c.value])

PlanCall(b, c) ==
  CASE b.plan = "auto"     -> AutoCall(b, c)
    [] b.plan = "explicit" -> ExplicitCall(b, c)
    [] b.plan = "none"     -> NoBatchCall(b, c)

SetIdentity(b, name) == [b EXCEPT !.identity = Ok(name)]

(* Only a builder without batching has convert(), and it has neither       *)
(* collate() nor a second without_batching().                              *)
Exists(b, c) == c.name \notin IF b.plan = "none" THEN {"collate", "without_batching"} ELSE {"convert"}

Call(b, c) ==
  CASE c.name = "batch_size"         -> Ok(SetBatchSize(b, c.value))
    [] c.name = "drop_last"          -> Ok(SetDropLast(b, c.value))
    [] c.name = "workers"            -> Ok(SetWorkers(b, c.value))
    [] c.name = "seed"               -> Ok(SetSeed(b, c.value))
    [] c.name = "epoch"              -> Ok(SetEpoch(b, c.value))
    [] c.name = "rank"               -> Ok(SetRank(b, c.value))
    [] c.name = "persistent_workers" -> Ok(SetPersistent(b, c.value))
    [] c.name = "timeout"            -> Ok(SetTimeout(b, c.value))
    [] c.name = "ordered"            -> Ok(SetOrdered(b, c.value))
    [] c.name = "pin_memory"         -> Ok(SetPin(b, c.value))
    [] c.name = "prefetch_factor"    -> Ok(SetPrefetchFactor(b, c.value))
    [] c.name = "prefetch_bytes"     -> Ok(SetPrefetchBytes(b, c.value))
    [] c.name = "batch_sampler"      -> Ok(SetBatchSampler(b, c.value))
    [] c.name = "dataset_identity"   -> Ok(SetIdentity(b, c.value))
    [] OTHER                         -> PlanCall(b, c)

-----------------------------------------------------------------------------
(* build(). devices is the number of CUDA devices.                         *)

Unpinned(status) == [status |-> status, device |-> Failed]
PinnedFor(index) == [status |-> "enabled", device |-> Ok(index)]

ResolvePin(request, devices) ==
  CASE request.kind = "disabled" -> Ok(Unpinned("disabled"))
    [] request.kind = "auto"     -> Ok(IF devices > 0 THEN PinnedFor(0) ELSE Unpinned("no accelerator"))
    [] request.kind = "cuda"     -> IF request.index < devices THEN Ok(PinnedFor(request.index)) ELSE Failed
    [] request.kind = "cpu"      -> Failed

ValidConfiguration(b) ==
  LET c == b.conf
      Given(option) == option \in b.explicit
  IN  /\ c.batchSize # 0
      /\ ~(Given("sampler") /\ Given("shuffle"))
      /\ Given("batch_sampler") =>
           b.explicit \cap {"batch_size", "shuffle", "sampler", "drop_last", "without_batching"} = {}
      /\ ~(Given("without_batching") /\ Given("drop_last") /\ c.dropLast)
      /\ \A t \in c.timeout : c.workers # 0 /\ t <= MaxTimeout
      /\ c.workers = 0 => ~Given("prefetch_factor") /\ ~Given("prefetch_bytes") /\ ~c.persistent
      /\ c.factor # Ok(0)

(* Twice the first power of two above the capacity of a channel fits in a  *)
(* word. MaxSize is one less than a power of two.                          *)
RingFits(capacity) == 4 * capacity < MaxSize + 1

(* Bytes of the channels and vectors of a pool. Every term is checked for  *)
(* overflow in the code, which the ceiling, being lower, makes the same as *)
(* comparing the sum.                                                      *)
PoolBytes(workers, outstanding) ==
  outstanding * (SizeOf.task + SizeOf.completion) + workers * (SizeOf.control + SizeOf.worker)
    + (2 * workers + 1) * SizeOf.channel + SizeOf.fixed

PoolFits(workers, factor) ==
  /\ \A capacity \in {1, factor, workers * factor} : RingFits(capacity)
  /\ PoolBytes(workers, workers * factor) <= Ceiling

(* The factor is two unless it is given; a serial loader has none.         *)
Factor(b) ==
  IF b.conf.workers = 0 THEN Failed ELSE IF b.conf.factor = Failed THEN Ok(2) ELSE b.conf.factor

Outstanding(b) == {b.conf.workers * f : f \in Factor(b)}

MapLoaderOf(b, pinned) ==
  [plan |-> b.plan, sampler |-> b.sampler,
   finish |-> IF b.plan = "none" THEN b.converter ELSE b.collator,
   batch |-> IF b.plan = "auto" THEN Ok([size |-> b.conf.batchSize, dropLast |-> b.conf.dropLast])
             ELSE Failed,
   workers |-> b.conf.workers, persistent |-> b.conf.persistent, timeout |-> b.conf.timeout,
   ordered |-> b.conf.ordered, pinned |-> pinned, bytes |-> b.conf.bytes, factor |-> Factor(b),
   outstanding |-> Outstanding(b), seed |-> b.conf.seed, epoch |-> b.conf.epoch, rank |-> b.conf.rank]

Build(b, devices) ==
  IF /\ ValidConfiguration(b)
     /\ \A f \in Factor(b) : b.conf.workers * f <= MaxSize /\ PoolFits(b.conf.workers, f)
  THEN {MapLoaderOf(b, p) : p \in ResolvePin(b.conf.pin, devices)} ELSE Failed

(* The exact, serial loader: dataset_identity() was called. distributed is *)
(* the rank of the sampler, if it has one.                                 *)
BuildExact(b, devices, distributed) ==
  IF /\ ValidConfiguration(b)
     /\ b.identity # Ok("") /\ b.conf.workers = 0 /\ b.conf.ordered
     /\ \A rank \in distributed : rank = b.conf.rank
  THEN {MapLoaderOf(b, p) : p \in ResolvePin(b.conf.pin, devices)} ELSE Failed

(* len() of a built loader over a sampler of exact length n.               *)
BatchCount(n, size, dropLast) ==
  (n \div size) + (IF ~dropLast /\ n % size # 0 THEN 1 ELSE 0)

-----------------------------------------------------------------------------
(* The stream builder keeps values only, from which build() makes a loader. *)

StreamDefaults ==
  [Defaults EXCEPT !.workers = 1, !.factor = Ok(2)]

StreamCall(conf, c) ==
  CASE c.name = "workers"            -> [conf EXCEPT !.workers = c.value]
    [] c.name = "batch_size"         -> [conf EXCEPT !.batchSize = c.value]
    [] c.name = "drop_last"          -> [conf EXCEPT !.dropLast = c.value]
    [] c.name = "prefetch_factor"    -> [conf EXCEPT !.factor = Ok(c.value)]
    [] c.name = "prefetch_bytes"     -> [conf EXCEPT !.bytes = Ok(c.value)]
    [] c.name = "pin_memory"         -> [conf EXCEPT !.pin = c.value]
    [] c.name = "ordered"            -> [conf EXCEPT !.ordered = c.value]
    [] c.name = "seed"               -> [conf EXCEPT !.seed = c.value]
    [] c.name = "epoch"              -> [conf EXCEPT !.epoch = c.value]
    [] c.name = "rank"               -> [conf EXCEPT !.rank = c.value]
    [] c.name = "timeout"            -> [conf EXCEPT !.timeout = IF c.value = 0 THEN Failed ELSE Ok(c.value)]
    [] c.name = "persistent_workers" -> [conf EXCEPT !.persistent = c.value]

(* With a byte limit every worker may wait in the budget.                  *)
StreamBytes(conf, outstanding, slots) ==
  outstanding * (SizeOf.credit + SizeOf.completion) + 2 * conf.batchSize * SizeOf.sample
    + conf.workers * (SizeOf.control + SizeOf.worker + IF conf.bytes = Failed THEN 0 ELSE SizeOf.waiter)
    + slots * SizeOf.entry + (2 * conf.workers + 1) * SizeOf.channel

StreamFits(conf, slots) ==
  LET factor      == Value(conf.factor)
      outstanding == conf.workers * factor
  IN  /\ outstanding <= MaxSize
      /\ \A capacity \in {1, factor, outstanding} : RingFits(capacity)
      /\ StreamBytes(conf, outstanding, slots) <= Ceiling

(* An ordered loader reserves its reassembly buffer and counts what the     *)
(* allocator gave it, spare slots more than it asked for.                  *)
BuildStream(conf, devices, spare) ==
  LET outstanding == conf.workers * Value(conf.factor)
      slots == IF conf.ordered THEN outstanding ELSE 0
  IN  IF /\ conf.workers # 0 /\ conf.batchSize # 0 /\ conf.factor # Ok(0)
         /\ \A t \in conf.timeout : t <= MaxTimeout
         /\ StreamFits(conf, slots)
         /\ conf.ordered => StreamFits(conf, slots + spare)
      THEN {[conf |-> conf, outstanding |-> outstanding, pinned |-> p] :
              p \in ResolvePin(conf.pin, devices)}
      ELSE Failed
=============================================================================
