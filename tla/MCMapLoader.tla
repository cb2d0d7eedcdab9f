---------------------------- MODULE MCMapLoader ----------------------------
(* The builder configurations of the runs.  A byte budget of one batch makes
   every second worker wait; a timeout is explored where an expiry leaves the
   system able to go on (owned pools) and, for a persistent pool, in a run of
   its own. *)
EXTENDS MapLoader

Settings(persistent, ordered, timeout, limit, prefetch, generations) ==
  [persistent : persistent, ordered : ordered, timeout : timeout, limit : limit,
   cancels : {~p : p \in persistent}, prefetch : {prefetch}, generations : {generations}]

Persistent == Settings({TRUE}, BOOLEAN, {FALSE}, {0, 1}, 1, 3)
Owned == Settings({FALSE}, BOOLEAN, BOOLEAN, {0, 1}, 2, 1)
PersistentTimeout == Settings({TRUE}, {TRUE}, {TRUE}, {0}, 1, 1)
PersistentOrdered == Settings({TRUE}, {TRUE}, {FALSE}, {0}, 1, 2)
PersistentAndOwned == Persistent \cup Owned
=============================================================================
