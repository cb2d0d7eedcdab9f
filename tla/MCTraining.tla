----------------------------- MODULE MCTraining -----------------------------
(* Programs of three or four batches. Gradients overflow when the exponent of
   the scale is above the batch's limit. *)
EXTENDS Training, MCDeployment

Rates(n) == [g \in {1} |-> n]

Base == [optimizers |-> 1, parameters |-> {1, 2}, late |-> {}, group |-> <<1, 1>>, rate |-> 8,
         batches |-> 3, epoch |-> 1, micro |-> 1, touched |-> <<{1, 2}, {1}, {1, 2}, {2}>>,
         limit |-> <<2, 1, 2, 2>>, metric |-> <<5, 5, 5, 5>>,
         enabled |-> TRUE, initialScale |-> 1, interval |-> 2,
         schedule |-> StepLr(Rates(8), 2, 2), saves |-> TRUE, faults |-> 1, crashes |-> 1]

MCConfigs ==
  {Base,
   [Base EXCEPT !.batches = 4, !.schedule = ReduceLrOnPlateau(Rates(8), "min", 2, 1, 1, 0, Rates(2), 0)],
   [Base EXCEPT !.initialScale = 2, !.micro = 2, !.epoch = 2, !.faults = 2,
                !.schedule = ExponentialLr(Rates(8), 2)],
   [Base EXCEPT !.late = {2}, !.group = <<1, 2>>, !.schedule = Unscheduled,
                !.touched = <<{1}, {1, 2}, {2}>>],
   [Base EXCEPT !.late = {2}, !.group = <<1, 2>>, !.saves = FALSE, !.crashes = 0,
                !.touched = <<{1}, {1, 2}, {2}>>],
   [Base EXCEPT !.enabled = FALSE, !.schedule = MultiStepLr(Rates(8), <<1, 3, 3>>, 2)],
   [Base EXCEPT !.optimizers = 2, !.saves = FALSE, !.batches = 4, !.crashes = 0, !.faults = 2,
                !.interval = 1]}

-----------------------------------------------------------------------------
(* The schedulers over all short histories: the rate after each epoch n of  *)
(* a history that starts with the rate s itself leaves in the optimizer.    *)
RateAfter(s, metrics, n) == Scheduled(s, s.last, SubSeq(metrics, 1, n)).rates[1]

Quiet == [i \in 1 .. 6 |-> 0]

(* StepLr::step multiplies once per whole interval, and a schedule read     *)
(* back between two epochs goes on where it was.                           *)
ASSUME StepLrCounts ==
  \A size \in 1 .. 4, n \in 0 .. 6 :
    RateAfter(StepLr(Rates(64), size, 2), Quiet, n) = 64 \div 2 ^ (n \div size)

(* MultiStepLr decays once for each milestone reached, repeated ones and    *)
(* those at zero included.                                                 *)
ASSUME MultiStepLrCounts ==
  \A milestones \in UNION {[1 .. m -> 0 .. 4] : m \in 0 .. 3}, n \in 0 .. 5 :
    (\A i \in 2 .. Len(milestones) : milestones[i - 1] <= milestones[i]) =>
      RateAfter(MultiStepLr(Rates(64), milestones, 2), Quiet, n) =
        64 \div 2 ^ Cardinality({i \in DOMAIN milestones : milestones[i] <= n})

(* ReduceLrOnPlateau::step: rates never rise and never fall below their      *)
(* minimum; two reductions are more than patience + cooldown epochs apart,   *)
(* and none comes in the patience epochs after the best metric.             *)
ASSUME PlateauWaits ==
  \A mode \in {"min", "max"}, patience \in 0 .. 2, cooldown \in 0 .. 2, threshold \in 0 .. 1,
     metrics \in [1 .. 6 -> 1 .. 3] :
    LET s       == ReduceLrOnPlateau(Rates(64), mode, 2, patience, cooldown, threshold, Rates(8), 0)
        rate    == [n \in 0 .. 6 |-> RateAfter(s, metrics, n)]
        reduced == {n \in 1 .. 6 : rate[n] < rate[n - 1]}
        better(n) == \A i \in 1 .. n - 1 : IF mode = "min" THEN metrics[n] < metrics[i] - threshold
                                                          ELSE metrics[n] > metrics[i] + threshold
    IN  /\ \A n \in 1 .. 6 : rate[n] <= rate[n - 1] /\ rate[n] >= 8
        /\ \A m, n \in reduced : m < n => n - m > patience + cooldown
        /\ \A n \in reduced : \A m \in n - patience .. n : m >= 1 => ~better(m)
=============================================================================
