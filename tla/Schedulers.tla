----------------------------- MODULE Schedulers -----------------------------
(***************************************************************************)
(* The learning-rate schedulers (optim/schedulers.rs) as operators on      *)
(* their serialized state and the current rates of the optimizer's groups. *)
(* A rate is a natural number that the factor of a scheduler divides, so   *)
(* that the decays are exact; metrics and thresholds are integers. The     *)
(* cosine schedule is arithmetic on reals and is left out, and so is the   *)
(* relative threshold of the plateau scheduler.                            *)
(***************************************************************************)
EXTENDS Integers, Sequences, FiniteSets

(* ScheduleState and the fields of the schedulers, kind by kind.           *)
ScheduleState(kind, rates) ==
  [kind |-> kind, epoch |-> 0, base |-> rates, last |-> rates]

Unscheduled == [kind |-> "none", epoch |-> 0]

Merged(r, s) == [f \in DOMAIN r \cup DOMAIN s |-> IF f \in DOMAIN r THEN r[f] ELSE s[f]]

StepLr(rates, size, divisor) ==
  Merged(ScheduleState("step", rates), [stepSize |-> size, divisor |-> divisor])

ExponentialLr(rates, divisor) ==
  Merged(ScheduleState("exponential", rates), [divisor |-> divisor])

(* A milestone at zero decays at once: new() applies it to the optimizer.  *)
Decayed(rates, divisor, times) == [g \in DOMAIN rates |-> rates[g] \div (divisor ^ times)]

MultiStepLr(rates, milestones, divisor) ==
  LET zeros == Cardinality({i \in DOMAIN milestones : milestones[i] = 0})
  IN  Merged([ScheduleState("multi", rates) EXCEPT !.last = Decayed(rates, divisor, zeros)],
             [milestones |-> milestones, divisor |-> divisor])

ReduceLrOnPlateau(rates, mode, divisor, patience, cooldown, threshold, minimum, eps) ==
  Merged(ScheduleState("plateau", rates),
         [mode |-> mode, divisor |-> divisor, patience |-> patience, cooldown |-> cooldown,
          threshold |-> threshold, minimum |-> minimum, eps |-> eps,
          best |-> {}, badEpochs |-> 0, remaining |-> 0])

-----------------------------------------------------------------------------
(* step(): the rates of the next epoch and the state that goes with them.   *)

(* current: the groups are still those the scheduler was made for. *)
SameGroups(s, rates) == s.kind = "none" \/ DOMAIN rates = DOMAIN s.base

StepRates(s, rates) ==
  IF (s.epoch + 1) % s.stepSize = 0 THEN Decayed(rates, s.divisor, 1) ELSE rates

MultiStepRates(s, rates) ==
  Decayed(rates, s.divisor,
          Cardinality({i \in DOMAIN s.milestones : s.milestones[i] = s.epoch + 1}))

Improved(s, metric) ==
  \A best \in s.best : IF s.mode = "min" THEN metric < best - s.threshold
                                          ELSE metric > best + s.threshold

(* The bad epochs after this one: a cooldown forgives them. *)
Bad(s, metric) ==
  IF s.remaining > 0 \/ Improved(s, metric) THEN 0 ELSE s.badEpochs + 1

Reduced(s, rates) ==
  [g \in DOMAIN rates |->
     LET half == rates[g] \div s.divisor
         next == IF half < s.minimum[g] THEN s.minimum[g] ELSE half
     IN  IF rates[g] - next > s.eps THEN next ELSE rates[g]]

PlateauRates(s, rates, metric) ==
  IF Bad(s, metric) > s.patience THEN Reduced(s, rates) ELSE rates

PlateauState(s, metric) ==
  [s EXCEPT !.best = IF Improved(s, metric) THEN {metric} ELSE @,
            !.badEpochs = IF Bad(s, metric) > s.patience THEN 0 ELSE Bad(s, metric),
            !.remaining = CASE Bad(s, metric) > s.patience -> s.cooldown
                            [] Bad(s, metric) <= s.patience /\ @ > 0 -> @ - 1
                            [] OTHER -> @]

NextRates(s, rates, metric) ==
  CASE s.kind = "none"        -> rates
    [] s.kind = "step"        -> StepRates(s, rates)
    [] s.kind = "exponential" -> Decayed(rates, s.divisor, 1)
    [] s.kind = "multi"       -> MultiStepRates(s, rates)
    [] s.kind = "plateau"     -> PlateauRates(s, rates, metric)

(* apply: the rates go to the optimizer, and are remembered. *)
NextSchedule(s, rates, metric) ==
  LET moved == IF s.kind = "plateau" THEN PlateauState(s, metric) ELSE s
  IN  IF s.kind = "none" THEN s
      ELSE [moved EXCEPT !.epoch = @ + 1, !.last = NextRates(s, rates, metric)]

(* The schedule and the rates after each metric of a sequence.              *)
Scheduled(s, rates, metrics) ==
  LET run[n \in 0 .. Len(metrics)] ==
        IF n = 0 THEN [schedule |-> s, rates |-> rates]
        ELSE LET p == run[n - 1]
             IN  [schedule |-> NextSchedule(p.schedule, p.rates, metrics[n]),
                  rates    |-> NextRates(p.schedule, p.rates, metrics[n])]
  IN  run[Len(metrics)]

=============================================================================
