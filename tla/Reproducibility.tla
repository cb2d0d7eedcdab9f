-------------------------- MODULE Reproducibility --------------------------
(***************************************************************************)
(* reproducibility.rs: the process-wide runtime settings, and a generator  *)
(* of tensor noise that gives each draw a stream of its own.               *)
(*                                                                         *)
(* An element of noise is the place in the ChaCha12 sequence it comes from *)
(* and the transformation it went through; memory does not run out.         *)
(***************************************************************************)
EXTENDS Data

CONSTANTS MaxStream,      \* stands for u64::MAX
          MaxDimensions,  \* 64
          DefaultLimits   \* ResourceLimits::default()

(* RuntimeConfig::apply: the thread count is optional.                      *)
Apply(runtime, config) ==
  IF \E n \in config.threads : n <= 0 THEN Failed
  ELSE Ok([seed |-> config.seed,
           threads |-> IF config.threads = {} THEN runtime.threads ELSE Value(config.threads)])

TensorRng(seed) ==
  [state |-> [version |-> 1, seed |-> seed, next_stream |-> 0], limits |-> DefaultLimits]

WithLimits(g, limits) == [g EXCEPT !.limits = limits]

StateDict(g) == g.state

FromState(state) ==
  IF state.version # 1 \/ state.next_stream = MaxStream THEN Failed
  ELSE Ok([state |-> state, limits |-> DefaultLimits])

Width == [Float |-> 4, Double |-> 8]

(* How many elements a draw makes, if it is allowed at all.                 *)
Allowed(g, shape, kind) ==
  IF \/ kind \notin DOMAIN Width
     \/ Len(shape) > MaxDimensions
     \/ g.state.next_stream + 1 >= MaxStream
     \/ \E d \in DOMAIN shape : shape[d] < 0
  THEN Failed
  ELSE LET count == TensorElements(shape, g.limits.max_tensor_elements)
       IN  IF \/ count = Failed
              \/ Value(count) * Width[kind] > Min({MaxSize, g.limits.max_decoded_bytes})
           THEN Failed ELSE count

(* draw, for uniform and for normal: the generator afterwards, and the      *)
(* tensor. "placed" says whether the backend reshapes and moves it.         *)
Draw(g, shape, kind, normal, placed) ==
  LET count == Allowed(g, shape, kind)
  IN  IF count = Failed \/ ~placed THEN [rng |-> g, tensor |-> Failed]
      ELSE [rng    |-> [g EXCEPT !.state.next_stream = @ + 1],
            tensor |-> Ok([shape |-> shape, kind |-> kind,
                           elements |-> [i \in 1 .. Value(count) |->
                             [seed |-> g.state.seed, stream |-> g.state.next_stream, at |-> i,
                              normal |-> normal]]])]
=============================================================================
