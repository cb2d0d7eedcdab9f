--------------------------- MODULE MCExactStream ----------------------------
(* Shards of a few records: sound ones are saved, resumed and disturbed;
   unsound ones have a gap, a duplicate, no number, a number that falls, one
   that is the last, or another length than announced. *)
EXTENDS ExactStream

Shards(a, b) == [w \in 0 .. 1 |-> IF w = 0 THEN a ELSE b]
Alone(a) == [w \in {0} |-> a]

Two == [workers |-> 2, prefetch |-> 1, batchSize |-> 2, dropLast |-> FALSE, length |-> {},
        shards |-> Shards(<<0, 2>>, <<1>>),
        faults |-> 0, lastEpoch |-> 0]
One == [Two EXCEPT !.workers = 1, !.prefetch = 2, !.batchSize = 1, !.shards = Alone(<<0, 1, 2>>)]

Disturbed ==
  {[Two EXCEPT !.faults = 1],
   [One EXCEPT !.faults = 1, !.length = {3}],
   [One EXCEPT !.batchSize = 2, !.dropLast = TRUE, !.lastEpoch = 1]}

Unsound ==
  {[Two EXCEPT !.shards = Shards(<<0, 2>>, <<3>>)],
   [Two EXCEPT !.shards = Shards(<<0, 1>>, <<1>>)],
   [Two EXCEPT !.length = {2}],
   [One EXCEPT !.shards = Alone(<<0, Unnumbered, 1>>)],
   [One EXCEPT !.shards = Alone(<<0, 1, 0>>)],
   [One EXCEPT !.shards = Alone(<<0, 1, 2, 3>>)]}

MCConfigs == Disturbed \cup Unsound

FallingNumber == {[One EXCEPT !.shards = Alone(<<0, 1, 0>>)]}
=============================================================================
