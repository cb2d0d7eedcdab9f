--------------------------- MODULE MCStreamLoader ---------------------------
(* Shards of a few records. Sound ones meet small windows, byte budgets,
   deadlines and failures; unsound ones have a gap, a duplicate, no number, a
   falling number or a record that is too large. *)
EXTENDS StreamLoader, MCLoaderBuilder

Records(numbers) == [k \in DOMAIN numbers |-> [seq |-> numbers[k], size |-> 1]]

Shards(a, b) == [w \in 0 .. 1 |-> IF w = 0 THEN Records(a) ELSE Records(b)]
Alone(a) == [w \in {0} |-> Records(a)]

Two == [workers |-> 2, prefetch |-> 1, batchSize |-> 2, dropLast |-> FALSE,
        ordered |-> TRUE, persistent |-> TRUE, timeout |-> FALSE, limit |-> 0,
        expected |-> {}, faults |-> 0, shards |-> Shards(<<0, 2>>, <<1>>)]
One == [Two EXCEPT !.workers = 1, !.prefetch = 2, !.shards = Alone(<<0, 1, 2>>)]

Large == [k \in 1 .. 2 |-> [seq |-> k - 1, size |-> k]]

(* One shard is at its end; the other never brings 1, or 0 when it is too late. *)
Gaps ==
  {[Two EXCEPT !.shards = Shards(<<0, 2>>, <<>>)],
   [Two EXCEPT !.shards = Shards(<<1, 0>>, <<>>)]}

MCConfigs == Gaps \cup
  {[Two EXCEPT !.faults = 2],
   [Two EXCEPT !.prefetch = 2, !.faults = 1, !.timeout = TRUE],
   [Two EXCEPT !.faults = 1, !.ordered = FALSE, !.dropLast = TRUE, !.persistent = FALSE],
   [Two EXCEPT !.timeout = TRUE, !.expected = {3}],
   [Two EXCEPT !.limit = 1, !.faults = 1],
   [Two EXCEPT !.limit = 2, !.prefetch = 2, !.timeout = TRUE],
   [Two EXCEPT !.limit = 1, !.ordered = FALSE, !.timeout = TRUE],
   [Two EXCEPT !.limit = 1, !.shards = Shards(<<0, 3>>, <<1>>)],
   [Two EXCEPT !.limit = 2, !.prefetch = 2, !.shards = Shards(<<0, 1>>, <<1, 2>>)],
   [Two EXCEPT !.shards = Shards(<<0, 1>>, <<1>>)],
   [One EXCEPT !.shards = Alone(<<0, 2, 3>>), !.batchSize = 1],
   [One EXCEPT !.shards = Alone(<<0, 1, 2, 3>>)],
   [One EXCEPT !.shards = Alone(<<0, 1>>), !.expected = {3}],
   [One EXCEPT !.shards = Alone(<<0, -1>>)],
   [One EXCEPT !.limit = 1, !.shards = Alone(<<1, 0>>)],
   [One EXCEPT !.limit = 1, !.shards = [w \in {0} |-> Large]]}
=============================================================================
