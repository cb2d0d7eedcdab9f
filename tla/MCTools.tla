------------------------------ MODULE MCTools ------------------------------
(* A recorder used by two threads in every short order of calls, benchmarks
   of up to three samples, and every short sequence of draws of noise. *)
EXTENDS Integers, Sequences, FiniteSets, SequencesExt

P == INSTANCE Profiling WITH MaxEvents <- 3, MaxLabel <- 2
R == INSTANCE Reproducibility WITH MaxSize <- 40, MaxStream <- 4, MaxDimensions <- 2,
       DefaultLimits <- [max_tensor_elements |-> 4, max_decoded_bytes |-> 24]

Granted(result) == CHOOSE v \in result : TRUE

-----------------------------------------------------------------------------
(* An application: the recorder, the guards its threads hold, and what it   *)
(* did since the last accepted clear, as seen from outside.                *)
Application(capacity) ==
  [p |-> Granted(P!Profiler(capacity)), guards |-> {}, log |-> <<>>, now |-> 0]

Opens(a) ==
  UNION {{[p |-> s.profiler, now |-> a.now + 1,
           guards |-> a.guards \cup {[span |-> s.guard, thread |-> thread, region |-> Len(a.log) + 1]},
           log |-> Append(a.log, [thread |-> thread, label |-> 1, opened |-> a.now, took |-> -1,
                                  outcome |-> "open"])]
            : s \in P!Span(a.p, thread, 1, a.now)} : thread \in {"t", "u"}}

Closes(a) ==
  {[p |-> P!RecordEnds(a.p, g.span, outcome, a.now), now |-> a.now + 1, guards |-> a.guards \ {g},
    log |-> [a.log EXCEPT ![g.region].took = a.now - a.log[g.region].opened,
                         ![g.region].outcome = outcome]]
     : g \in a.guards, outcome \in {"complete", "error", "panic"}}

Clears(a) == {[a EXCEPT !.p = p, !.now = @ + 1, !.log = <<>>] : p \in P!Clear(a.p)}

Runs[n \in 0 .. 6] ==
  IF n = 0 THEN {Application(2), Application(3)}
  ELSE Runs[n - 1] \cup UNION {Opens(a) \cup Closes(a) \cup Clears(a) : a \in Runs[n - 1]}

(* Span::drop indexes the events without a check: no order of calls lets a  *)
(* guard outlive its event or end another's, so the recorder is never       *)
(* poisoned.                                                               *)
ASSUME GuardsKeepTheirEvents ==
  \A a \in Runs[6] :
    /\ ~a.p.poisoned
    /\ \A g \in a.guards : /\ g.span.index = g.region
                           /\ g.region \in DOMAIN a.p.values
                           /\ ~a.p.values[g.region].finished

(* chrome_trace is refused exactly while a region is open. The trace tells  *)
(* every region of the window once, with its name, its times and how it     *)
(* ended, and numbers its threads from one.                                *)
ASSUME TracesAreComplete ==
  \A a \in Runs[6] :
    /\ (P!ChromeTrace(a.p) = {}) = (a.guards # {})
    /\ (P!Clear(a.p) = {}) = (a.guards # {})
    /\ \A trace \in P!ChromeTrace(a.p) :
         /\ Len(trace) = Len(a.log)
         /\ \A i \in DOMAIN trace :
              /\ trace[i].name = a.log[i].label /\ trace[i].outcome = a.log[i].outcome
              /\ trace[i].tid \in 1 .. Cardinality({a.log[j].thread : j \in DOMAIN a.log})
              /\ trace[i].ts = a.log[i].opened /\ trace[i].dur = a.log[i].took
              /\ \A j \in DOMAIN trace :
                   (trace[i].tid = trace[j].tid) = (a.log[i].thread = a.log[j].thread)

(* A full recorder refuses a region before its work, and a cleared one      *)
(* takes regions again; labels and capacities have their limits.            *)
ASSUME RecordersAreBounded ==
  /\ \A a \in Runs[6], label \in 0 .. 3 :
       /\ Len(a.p.values) <= a.p.capacity
       /\ (P!Span(a.p, "t", label, a.now) # {})
            = (label \in 1 .. 2 /\ Len(a.log) < a.p.capacity)
  /\ \A c \in 0 .. 4 : (P!Profiler(c) # {}) = (c \in 1 .. 3)

(* benchmark stops at the first call that fails, and otherwise times each   *)
(* sample's work with the synchronization after it, and nothing else. Half *)
(* of the samples are on either side of the median.                        *)
ASSUME BenchmarksTimeTheWork ==
  \A warmup \in 0 .. 1, samples \in 1 .. 3 :
    LET calls == 3 * (warmup + samples)
        only(c, n) == [i \in 1 .. calls |-> IF i = c THEN n ELSE 0]
        made(s) == (s - 1) \div 3 + 1 - warmup
    IN  \A c \in 1 .. calls :
          /\ P!Benchmark(warmup, samples, only(c, 1), {c, calls}) = [calls |-> c, result |-> {}]
          /\ \A m \in P!Benchmark(warmup, samples, only(c, 1), {}).result :
               m.seconds = [s \in 1 .. samples |-> IF made(c) = s /\ c % 3 # 1 THEN 1 ELSE 0]

ASSUME MediansHalve ==
  \A n \in 1 .. 4 : \A seconds \in [1 .. n -> 0 .. 3] :
    LET m == P!Measurement(seconds)
    IN  /\ 2 * Cardinality({i \in 1 .. n : 2 * seconds[i] <= m.median}) >= n
        /\ 2 * Cardinality({i \in 1 .. n : 2 * seconds[i] >= m.median}) >= n
        /\ m.median \in {seconds[i] + seconds[j] : i, j \in 1 .. n}
        /\ n * m.minimum <= m.mean /\ m.mean <= n * m.maximum
        /\ {m.minimum, m.maximum} \subseteq {seconds[i] : i \in 1 .. n}
        /\ (m.variance = 0) = (m.minimum = m.maximum)

ASSUME BenchmarksAreBounded ==
  \A warmup, samples \in 0 .. 4 :
    LET b == P!Benchmark(warmup, samples, [i \in 1 .. 24 |-> i], {})
    IN  (b.result # {}) = (samples \in 1 .. 3 /\ warmup <= 3) /\ (b.calls > 0) = (b.result # {})

-----------------------------------------------------------------------------
(* A draw that is made, one of no elements, and two that are refused, by    *)
(* the limits and by the backend.                                          *)
Draws == {[shape |-> <<2>>, kind |-> "Float", placed |-> TRUE],
          [shape |-> <<0, 3>>, kind |-> "Double", placed |-> TRUE],
          [shape |-> <<4>>, kind |-> "Double", placed |-> TRUE],
          [shape |-> <<1>>, kind |-> "Float", placed |-> FALSE]}

Drawn(g, d) == R!Draw(g, d.shape, d.kind, TRUE, d.placed)

(* What a program of draws makes, with the generator after each.           *)
RECURSIVE Noise(_, _)
Noise(g, program) ==
  IF program = <<>> THEN <<>>
  ELSE LET drawn == Drawn(g, Head(program)) IN <<drawn>> \o Noise(drawn.rng, Tail(program))

Saved(g) == Granted(R!FromState(R!StateDict(g)))

(* A generator saved after any draw, the last one its counter allows        *)
(* included, can be restored and goes on with the same tensors.             *)
ASSUME NoiseResumes ==
  \A program \in [1 .. 5 -> Draws], cut \in 0 .. 5 :
    LET whole == Noise(R!TensorRng(7), program)
        at    == IF cut = 0 THEN R!TensorRng(7) ELSE whole[cut].rng
    IN  /\ R!FromState(R!StateDict(at)) # {}
        /\ Noise(Saved(at), SubSeq(program, cut + 1, 5)) = SubSeq(whole, cut + 1, 5)

(* The draw that is made next does not depend on the shapes before it, nor  *)
(* on refused draws between; no two draws share a stream, and the counter    *)
(* ends before it would wrap.                                              *)
ASSUME StreamsAreOnePerDraw ==
  \A program \in [1 .. 5 -> Draws] :
    LET whole == Noise(R!TensorRng(7), program)
        made  == {i \in 1 .. 5 : whole[i].tensor # {}}
        legal == {i \in 1 .. 5 : program[i].placed /\ program[i].shape # <<4>>}
        before(i) == Cardinality({j \in legal : j < i})
    IN  /\ made = {i \in legal : before(i) < 3}
        /\ \A i \in made : \A t \in whole[i].tensor :
             /\ t.shape = program[i].shape /\ t.kind = program[i].kind
             /\ Len(t.elements) = FoldSeq(LAMBDA d, product : d * product, 1, t.shape)
             /\ \A e \in DOMAIN t.elements :
                  t.elements[e] = [seed |-> 7, stream |-> before(i), at |-> e, normal |-> TRUE]

(* with_limits is policy: a generator restored under the limits of the saved *)
(* one draws what it would have drawn, and other limits change which draws  *)
(* are made but not what they hold.                                        *)
ASSUME LimitsAreNoState ==
  \A elements \in 0 .. 5, bytes \in {0, 3, 4, 15, 16, 24, 40},
     shape \in UNION {[1 .. n -> -1 .. 4] : n \in 0 .. 3},
     kind \in {"Float", "Double", "Int64"} :
    LET limits == [max_tensor_elements |-> elements, max_decoded_bytes |-> bytes]
        strict == R!Draw(R!WithLimits(R!TensorRng(7), limits), shape, kind, FALSE, TRUE)
        free   == R!Draw(R!WithLimits(R!TensorRng(7), [max_tensor_elements |-> 20, max_decoded_bytes |-> 40]),
                         shape, kind, FALSE, TRUE)
    IN  /\ strict.tensor \subseteq free.tensor
        /\ (strict.tensor = {}) =
             \/ free.tensor = {}
             \/ \E t \in free.tensor : Len(t.elements) > elements \/ Len(t.elements) * R!Width[kind] > bytes
        /\ (free.tensor # {}) => /\ kind # "Int64" /\ Len(shape) <= 2
                                 /\ \A d \in DOMAIN shape : shape[d] >= 0

ASSUME StatesAreChecked ==
  \A version \in 0 .. 2, n \in 0 .. 4 :
    (R!FromState([version |-> version, seed |-> 7, next_stream |-> n]) # {}) = (version = 1 /\ n < 4)

(* RuntimeConfig::apply refuses a thread count before it changes the seed,  *)
(* and keeps the current count when none is given.                         *)
ASSUME RuntimeAllOrNothing ==
  \A n \in -1 .. 2 :
    /\ R!Apply([seed |-> 1, threads |-> 2], [seed |-> 5, threads |-> {n}])
         = IF n > 0 THEN {[seed |-> 5, threads |-> n]} ELSE {}
    /\ R!Apply([seed |-> 1, threads |-> 2], [seed |-> 5, threads |-> {}]) = {[seed |-> 5, threads |-> 2]}
=============================================================================
