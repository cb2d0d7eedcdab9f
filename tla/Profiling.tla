------------------------------ MODULE Profiling ------------------------------
(***************************************************************************)
(* profiling.rs: a recorder of application regions shared by threads, and  *)
(* a benchmark of synchronized work.                                       *)
(*                                                                         *)
(* Each operator is one call, which takes the recorder's lock for as long  *)
(* as it runs, so threads interleave between the operators. A result is a  *)
(* set, empty for an error. A label is its number of bytes, a time is a     *)
(* natural number, and memory does not run out.                            *)
(***************************************************************************)
EXTENDS Integers, Sequences, SequencesExt, FiniteSets, FiniteSetsExt, TLC

CONSTANTS MaxEvents,  \* 1_000_000, also the most samples and warmup calls
          MaxLabel    \* 1024

Ok(v)  == {v}
Failed == {}

(* Profiler::new. A poisoned recorder is one a thread panicked inside of.   *)
Profiler(capacity) ==
  IF capacity \notin 1 .. MaxEvents THEN Failed
  ELSE Ok([capacity |-> capacity, values |-> <<>>, threads |-> <<>>, poisoned |-> FALSE])

(* Threads are numbered from one, in the order of their first spans.       *)
Tid(p, thread) ==
  IF thread \in DOMAIN p.threads THEN p.threads[thread] ELSE Cardinality(DOMAIN p.threads) + 1

Event(name, tid, ts) ==
  [name |-> name, tid |-> tid, ts |-> ts, dur |-> 0, outcome |-> "complete", finished |-> FALSE]

(* Profiler::span: the recorder with the new event, and the guard.         *)
Span(p, thread, label, now) ==
  IF label \notin 1 .. MaxLabel \/ p.poisoned \/ Len(p.values) = p.capacity THEN Failed
  ELSE Ok([profiler |-> [p EXCEPT !.threads = (thread :> Tid(p, thread)) @@ @,
                                  !.values  = Append(@, Event(label, Tid(p, thread), now))],
           guard |-> [index |-> Len(p.values) + 1, start |-> now, failed |-> FALSE]])

(* Drop of a guard. A position past the end panics with the lock held.     *)
Drop(p, guard, panicking, now) ==
  CASE p.poisoned -> p
    [] ~p.poisoned /\ guard.index \notin DOMAIN p.values -> [p EXCEPT !.poisoned = TRUE]
    [] OTHER ->
         [p EXCEPT !.values[guard.index] =
            [@ EXCEPT !.dur = now - guard.start, !.finished = TRUE,
                      !.outcome = IF panicking THEN "panic"
                                  ELSE IF guard.failed THEN "error" ELSE "complete"]]

(* The end of record, whose work returned a value or an error, or panicked *)
(* so that the guard was dropped as record had made it.                    *)
RecordEnds(p, guard, outcome, now) ==
  IF outcome = "panic" THEN Drop(p, guard, TRUE, now)
  ELSE Drop(p, [guard EXCEPT !.failed = outcome = "error"], FALSE, now)

Unfinished(p) == \E i \in DOMAIN p.values : ~p.values[i].finished

ChromeTrace(p) == IF p.poisoned \/ Unfinished(p) THEN Failed ELSE Ok(p.values)

Clear(p) ==
  IF p.poisoned \/ Unfinished(p) THEN Failed
  ELSE Ok([p EXCEPT !.values = <<>>, !.threads = <<>>])

-----------------------------------------------------------------------------
(* benchmark. A round is three calls, synchronize, work and synchronize;   *)
(* cost gives what each call takes and fails the calls that would fail.     *)

(* The statistics of n samples in whole numbers: the mean times n, the      *)
(* median times two and the variance times n cubed.                        *)
Measurement(seconds) ==
  LET n      == Len(seconds)
      sorted == SortSeq(seconds, <)
      middle == n \div 2 + 1
      total  == FoldSeq(+, 0, seconds)
  IN  [seconds |-> seconds, minimum |-> sorted[1], maximum |-> sorted[n],
       mean |-> total,
       median |-> IF n % 2 = 0 THEN sorted[middle - 1] + sorted[middle] ELSE 2 * sorted[middle],
       variance |-> FoldSeq(LAMBDA x, sum : sum + (n * x - total) ^ 2, 0, seconds)]

(* How many calls were made, and the measurement if none of them failed.    *)
Benchmark(warmup, samples, cost, fails) ==
  LET calls == 3 * (warmup + samples)
      met   == fails \cap (1 .. calls)
  IN  CASE samples \notin 1 .. MaxEvents \/ warmup > MaxEvents -> [calls |-> 0, result |-> Failed]
        [] OTHER ->
             IF met # {} THEN [calls |-> Min(met), result |-> Failed]
             ELSE [calls |-> calls,
                   result |-> Ok(Measurement([s \in 1 .. samples |->
                     LET work == 3 * (warmup + s) - 1 IN cost[work] + cost[work + 1]]))]
=============================================================================
