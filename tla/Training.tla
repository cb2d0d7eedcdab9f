------------------------------ MODULE Training ------------------------------
(***************************************************************************)
(* A training program: a model's parameters (VarStore), an optimizer       *)
(* (optim/stateful.rs), a learning-rate scheduler (optim/schedulers.rs), a  *)
(* gradient scaler (amp.rs) and checkpoints on a disk (checkpoint.rs), in   *)
(* a process that may die and be started again.                            *)
(*                                                                         *)
(* The program repeats what the documentation tells it to: clear the       *)
(* gradients, add up the scaled gradients of a batch, step, update the      *)
(* scaler, and step the scheduler after each epoch. Between unscaling and   *)
(* updating it may call the scaler in any order and with any optimizer.     *)
(* Between batches it may save a checkpoint or go back to one.              *)
(*                                                                         *)
(* Tensors are not modelled: a parameter's value is the sequence of updates *)
(* it was given, a moment the sequence of batches it saw, and a scale 2^n   *)
(* its exponent n.                                                         *)
(***************************************************************************)
EXTENDS Schedulers

CONSTANTS Configs,   \* the programs
          LowScale,  \* the exponent of the least scale, f32::MIN_POSITIVE
          HighScale  \* the exponent of the largest finite scale

(* A checkpoint holds one optimizer, so a program that saves has one.       *)
ASSUME ConfigsAssumption ==
  \A c \in Configs : /\ c.optimizers \in Nat \ {0} /\ c.micro \in Nat /\ c.batches \in Nat
                     /\ c.initialScale \in Int /\ (c.saves => c.optimizers = 1)

VARIABLES config,    \* the program
          pc,        \* what the program is doing
          done,      \* how many batches the model has been trained on
          parts,     \* how many microbatches of this batch went backward
          store,     \* per optimizer, the parameters and their gradients
          opt,       \* per optimizer, its state
          schedule,  \* the scheduler of the first optimizer
          scaler,    \* the gradient scaler
          saving,    \* the checkpoint being saved
          disk,      \* the checkpoint files, one path for each boundary
          others,    \* the paths another program has taken
          torn,      \* did copies to the device fail half way?
          faults,    \* how many more errors there will be
          crashes    \* how many more times the process dies

vars == <<config, pc, done, parts, store, opt, schedule, scaler, saving, disk, others, torn,
          faults, crashes>>

-----------------------------------------------------------------------------
(* The scaler.                                                             *)

Ready == [kind |-> "ready"]

NewScaler(c) ==
  [scale |-> IF c.enabled THEN c.initialScale ELSE 0, tracker |-> 0, phase |-> Ready]

Fault_NeverReady(sc) == TRUE

(* require_ready: no update is under way. *)
IsReady(sc) == sc.phase = Ready

(* update: the scale grows after an interval of applied updates, unless it  *)
(* would be infinite, and shrinks, but not to zero, after a skipped one.    *)
Updated(c, sc) ==
  [sc EXCEPT
     !.phase = Ready,
     !.tracker = IF c.enabled /\ sc.phase.applied /\ @ + 1 < c.interval THEN @ + 1
                 ELSE IF c.enabled THEN 0 ELSE @,
     !.scale = CASE c.enabled /\ sc.phase.applied /\ sc.tracker + 1 = c.interval ->
                      IF @ < HighScale THEN @ + 1 ELSE @
                 [] c.enabled /\ ~sc.phase.applied -> IF @ > LowScale THEN @ - 1 ELSE @
                 [] OTHER -> @]

-----------------------------------------------------------------------------
(* The optimizer and the parameters it trains, in the order of their names. *)

NoGradient == [kind |-> "none"]
Gradient(batch, exponent, finite, n) ==
  [kind |-> "gradient", batch |-> batch, exponent |-> exponent, finite |-> finite, parts |-> n]

FreshValue == [value |-> <<>>, grad |-> NoGradient]
FreshState == [step |-> 0, slots |-> <<>>]

Graded(st) == {p \in DOMAIN st : st[p].grad # NoGradient}

(* sync_parameters: parameters registered since join their group, a new     *)
(* group with the default rate.                                            *)
Synced(c, o, s) ==
  LET new == DOMAIN s \ DOMAIN o.params
  IN  [o EXCEPT
         !.params = [p \in DOMAIN s |-> IF p \in new THEN FreshState ELSE @[p]],
         !.rates = [g \in DOMAIN @ \cup {c.group[p] : p \in new} |->
                      IF g \in DOMAIN @ THEN @[g] ELSE c.rate]]

NewOptimizer(c, s) ==
  Synced(c, [params |-> <<>>, rates |-> <<>>, steps |-> 0], s)

Merge(f, g) == [x \in DOMAIN f \cup DOMAIN g |-> IF x \in DOMAIN f THEN f[x] ELSE g[x]]

(* try_step: every update is staged, then the parameters of ps are copied.  *)
SteppedValues(c, o, s, ps) ==
  [p \in DOMAIN s |->
     IF p \in ps
     THEN [s[p] EXCEPT !.value = Append(@, Merge([rate |-> o.rates[c.group[p]]], s[p].grad))]
     ELSE s[p]]

SteppedParams(o, s, ps) ==
  [p \in DOMAIN o.params |->
     IF p \in ps
     THEN [step |-> o.params[p].step + 1, slots |-> Append(o.params[p].slots, s[p].grad.batch)]
     ELSE o.params[p]]

Stepped(o, s) == [o EXCEPT !.params = SteppedParams(o, s, Graded(s)), !.steps = @ + 1]

(* unscale divides each gradient of ps. *)
Unscaled(s, sc, ps) ==
  [p \in DOMAIN s |-> IF p \in ps THEN [s[p] EXCEPT !.grad.exponent = @ - sc.scale] ELSE s[p]]

AllFinite(c, s) == c.enabled => \A p \in Graded(s) : s[p].grad.finite

Cleared(s) == [p \in DOMAIN s |-> [s[p] EXCEPT !.grad = NoGradient]]

(* A copy to the device that fails has copied the first of the parameters.  *)
InitialSegments(ps) == {{p \in ps : p < n} : n \in ps}

-----------------------------------------------------------------------------
(* The program.                                                            *)

Optimizers == 1 .. config.optimizers

(* The optimizer whose turn the next batch is. *)
Using == (done % config.optimizers) + 1

Overflows(c, batch, exponent) == exponent > c.limit[batch]

Registered(c) == c.parameters \ c.late

Blank(c) == [p \in Registered(c) |-> FreshValue]

NoSaving == [stage |-> "none"]
NoFile == [kind |-> "none"]
Foreign == [kind |-> "foreign"]

(* What a program builds before it trains. *)
FreshStore(c) == [o \in 1 .. c.optimizers |-> Blank(c)]
FreshOptimizers(c) == [o \in 1 .. c.optimizers |-> NewOptimizer(c, Blank(c))]

Boundaries == 0 .. config.batches

Init ==
  /\ config \in Configs
  /\ pc = "boundary" /\ done = 0 /\ parts = 0
  /\ store = FreshStore(config) /\ opt = FreshOptimizers(config)
  /\ schedule = config.schedule /\ scaler = NewScaler(config)
  /\ saving = NoSaving /\ torn = FALSE
  /\ disk = [k \in Boundaries |-> NoFile] /\ others = {}
  /\ faults = config.faults /\ crashes = config.crashes

Fault == faults > 0 /\ faults' = faults - 1

diskVars == <<disk, others, crashes, saving>>

(* A layer built late registers its parameters; the optimizer finds out.   *)
Register ==
  /\ pc = "boundary" /\ \E o \in Optimizers : DOMAIN store[o] # config.parameters
  /\ store' = [o \in Optimizers |-> Merge(store[o], [p \in config.parameters |-> FreshValue])]
  /\ UNCHANGED <<config, pc, done, parts, opt, schedule, scaler, diskVars, torn, faults>>

(* try_zero_grad, before a batch. *)
ZeroGrad ==
  /\ pc = "boundary" /\ done < config.batches
  /\ config.touched[done + 1] \subseteq DOMAIN store[Using]
  /\ pc' = "accumulate" /\ parts' = 0
  /\ store' = [store EXCEPT ![Using] = Cleared(@)]
  /\ opt' = [opt EXCEPT ![Using] = Synced(config, @, store[Using])]
  /\ UNCHANGED <<config, done, schedule, scaler, diskVars, torn, faults>>

(* scale, then backward: the gradients of a microbatch are added up. *)
Backward ==
  /\ pc = "accumulate" /\ IsReady(scaler)
  /\ parts' = parts + 1
  /\ pc' = IF parts' = config.micro THEN "update" ELSE pc
  /\ store' = [store EXCEPT ![Using] =
       [p \in DOMAIN @ |->
          IF p \in config.touched[done + 1]
          THEN [@[p] EXCEPT !.grad = Gradient(done + 1, scaler.scale,
                                ~Overflows(config, done + 1, scaler.scale), parts')]
          ELSE @[p]]]
  /\ UNCHANGED <<config, done, opt, schedule, scaler, diskVars, torn, faults>>

-----------------------------------------------------------------------------
(* The update: calls of the scaler, right and wrong.                       *)

UnscaledPhase(o, s) == [kind |-> "unscaled", optimizer |-> o, finite |-> AllFinite(config, s)]

(* The program takes the right optimizer first; afterwards it may err. *)
May(o) == pc = "update" /\ (scaler.phase = Ready => o = Using)

Unscale(o) ==
  /\ May(o) /\ IsReady(scaler) /\ Graded(store[o]) # {}
  /\ store' = [store EXCEPT ![o] = Unscaled(@, scaler, Graded(@))]
  /\ scaler' = [scaler EXCEPT !.phase = UnscaledPhase(o, store[o])]
  /\ UNCHANGED <<config, pc, done, parts, opt, schedule, diskVars, torn, faults>>

(* A division copied back half way leaves the scaler ready. *)
UnscaleTears(o) ==
  /\ May(o) /\ IsReady(scaler) /\ Fault /\ torn' = TRUE
  /\ \E ps \in InitialSegments(Graded(store[o])) :
       store' = [store EXCEPT ![o] = Unscaled(@, scaler, ps)]
  /\ UNCHANGED <<config, pc, done, parts, opt, schedule, scaler, diskVars>>

(* What step works on: it unscales first if nobody did. *)
Before(o) ==
  IF IsReady(scaler)
  THEN [store |-> Unscaled(store[o], scaler, Graded(store[o])),
        phase |-> UnscaledPhase(o, store[o])]
  ELSE [store |-> store[o], phase |-> scaler.phase]

MayStep(o) ==
  /\ May(o) /\ (IsReady(scaler) => Graded(store[o]) # {})
  /\ Before(o).phase.kind = "unscaled" /\ Before(o).phase.optimizer = o

(* step: a nonfinite update is skipped. *)
Step(o) ==
  LET before == Before(o)
      synced == Synced(config, opt[o], store[o])
  IN  /\ MayStep(o)
      /\ scaler' = [scaler EXCEPT !.phase = [kind |-> "stepped", applied |-> before.phase.finite]]
      /\ IF before.phase.finite
         THEN /\ store' = [store EXCEPT ![o] =
                             SteppedValues(config, synced, before.store, Graded(before.store))]
              /\ opt' = [opt EXCEPT ![o] = Stepped(synced, before.store)]
         ELSE store' = [store EXCEPT ![o] = before.store] /\ UNCHANGED opt
      /\ UNCHANGED <<config, pc, done, parts, schedule, diskVars, torn, faults>>

(* An error of try_step, while it validates and stages or, torn, while it   *)
(* copies. The gradients stay unscaled, and step may be called again.       *)
StepFails(o) ==
  LET before == Before(o)
      synced == Synced(config, opt[o], store[o])
  IN  /\ MayStep(o) /\ before.phase.finite /\ Fault
      /\ scaler' = [scaler EXCEPT !.phase = before.phase]
      /\ \/ /\ store' = [store EXCEPT ![o] = before.store]
            /\ opt' = [opt EXCEPT ![o] = synced]
            /\ UNCHANGED torn
         \/ /\ \E ps \in InitialSegments(Graded(before.store)) :
                 /\ store' = [store EXCEPT ![o] = SteppedValues(config, synced, before.store, ps)]
                 /\ opt' = [opt EXCEPT ![o].params = SteppedParams(synced, before.store, ps),
                                       ![o].rates = synced.rates]
            /\ torn' = TRUE
      /\ UNCHANGED <<config, pc, done, parts, schedule, diskVars>>

(* update() needs a step; then the batch is done. *)
Update ==
  /\ pc = "update" /\ scaler.phase.kind = "stepped"
  /\ scaler' = Updated(config, scaler)
  /\ done' = done + 1 /\ parts' = 0
  /\ pc' = IF done' % config.epoch = 0 THEN "epoch" ELSE "boundary"
  /\ UNCHANGED <<config, store, opt, schedule, diskVars, torn, faults>>

(* The scheduler's step after an epoch; it refuses other parameter groups  *)
(* than those it was made for.                                             *)
ScheduleStep ==
  LET o      == Synced(config, opt[1], store[1])
      metric == config.metric[done]
  IN  /\ pc = "epoch" /\ pc' = "boundary"
      /\ IF SameGroups(schedule, o.rates)
         THEN /\ opt' = [opt EXCEPT ![1] = [o EXCEPT !.rates = NextRates(schedule, @, metric)]]
              /\ schedule' = NextSchedule(schedule, o.rates, metric)
         ELSE opt' = [opt EXCEPT ![1] = o] /\ UNCHANGED schedule
      /\ UNCHANGED <<config, done, parts, store, scaler, diskVars, torn, faults>>

-----------------------------------------------------------------------------
(* Checkpoints.                                                            *)

Values(s) == [p \in DOMAIN s |-> s[p].value]

(* GradScaler::state_dict. *)
ScalerState(sc) == [scale |-> sc.scale, tracker |-> sc.tracker]

(* What a file holds: the parameters, the optimizer's state and what the   *)
(* application adds. It may be torn itself if the model was.               *)
Capture ==
  [kind |-> "file", values |-> Values(store[1]), opt |-> Synced(config, opt[1], store[1]),
   schedule |-> schedule, scaler |-> ScalerState(scaler), done |-> done, torn |-> torn]

(* save() refuses a path that exists. *)
SaveBegins ==
  /\ pc = "boundary" /\ config.saves /\ disk[done] = NoFile
  /\ pc' = "save"
  /\ saving' = [stage |-> "captured", content |-> Capture, synced |-> FALSE]
  /\ opt' = [opt EXCEPT ![1] = Synced(config, @, store[1])]
  /\ UNCHANGED <<config, done, parts, store, schedule, scaler, disk, others, torn, faults,
                 crashes>>

(* The temporary file is created, written, flushed; then linked; then its   *)
(* own name removed.                                                       *)
SaveStage(from, to) ==
  /\ pc = "save" /\ saving.stage = from
  /\ saving' = [saving EXCEPT !.stage = to]
  /\ UNCHANGED <<config, pc, done, parts, store, opt, schedule, scaler, disk, others, torn,
                 faults, crashes>>

SaveCreates == SaveStage("captured", "created")
SaveWrites  == SaveStage("created", "written")

SaveSyncs ==
  /\ pc = "save" /\ saving.stage = "written"
  /\ saving' = [saving EXCEPT !.stage = "synced", !.synced = TRUE]
  /\ UNCHANGED <<config, pc, done, parts, store, opt, schedule, scaler, disk, others, torn,
                 faults, crashes>>

LinkFrom == "synced"

SaveLinks ==
  /\ pc = "save" /\ saving.stage = LinkFrom /\ disk[done] = NoFile
  /\ saving' = [saving EXCEPT !.stage = "linked"]
  /\ disk' = [disk EXCEPT ![done] = Merge([synced |-> saving.synced], saving.content)]
  /\ UNCHANGED <<config, pc, done, parts, store, opt, schedule, scaler, others, torn, faults,
                 crashes>>

(* The temporary file goes at the end of every call: after the link, if     *)
(* the path has been taken, or after an error.                             *)
SaveEnds ==
  /\ pc = "save" /\ pc' = "boundary" /\ saving' = NoSaving
  /\ \/ saving.stage = "linked" /\ UNCHANGED faults
     \/ saving.stage = LinkFrom /\ disk[done] # NoFile /\ UNCHANGED faults
     \/ saving.stage # "linked" /\ Fault
  /\ UNCHANGED <<config, done, parts, store, opt, schedule, scaler, disk, others, torn, crashes>>

(* prepare_state_dict: what an optimizer accepts of a file.                *)
Accepts(o, file) ==
  /\ DOMAIN o.params = DOMAIN file.opt.params /\ DOMAIN o.rates = DOMAIN file.opt.rates
  /\ \A p \in DOMAIN file.opt.params : file.opt.params[p].step <= file.opt.steps

Restored(s, file, ps) ==
  [p \in DOMAIN s |-> IF p \in ps THEN [s[p] EXCEPT !.value = file.values[p]] ELSE s[p]]

Fault_TrackerForgotten(sc) == [scale |-> sc.scale, tracker |-> 0, phase |-> Ready]

(* GradScaler::load_state_dict. *)
Loaded(sc) == [scale |-> sc.scale, tracker |-> sc.tracker, phase |-> Ready]

Readable(file) == file.kind = "file"

(* TrainingCheckpoint::read and restore, then the application loads the     *)
(* scheduler and the scaler; into a running or a fresh program. Weights     *)
(* copied half way make no restore.                                        *)
Restore(k) ==
  LET file   == disk[k]
      synced == Synced(config, opt[1], store[1])
  IN  /\ pc = "boundary" /\ config.saves /\ Readable(file)
      /\ DOMAIN store[1] = DOMAIN file.values
      /\ Accepts(synced, file) /\ IsReady(scaler)
      /\ \/ /\ store' = [store EXCEPT ![1] = Restored(@, file, DOMAIN file.values)]
            /\ opt' = [opt EXCEPT ![1] = file.opt]
            /\ schedule' = file.schedule /\ scaler' = Loaded(file.scaler)
            /\ done' = file.done /\ torn' = file.torn /\ UNCHANGED faults
         \/ /\ Fault /\ torn' = TRUE
            /\ \E ps \in InitialSegments(DOMAIN file.values) :
                 store' = [store EXCEPT ![1] = Restored(@, file, ps)]
            /\ opt' = [opt EXCEPT ![1] = synced]
            /\ UNCHANGED <<schedule, scaler, done>>
      /\ UNCHANGED <<config, pc, parts, diskVars>>

-----------------------------------------------------------------------------
(* What happens to a program.                                              *)

(* Another program publishes a checkpoint under a path of this one. *)
Taken(k) ==
  /\ disk[k] = NoFile /\ Fault
  /\ disk' = [disk EXCEPT ![k] = Foreign] /\ others' = others \cup {k}
  /\ UNCHANGED <<config, pc, done, parts, store, opt, schedule, scaler, saving, torn, crashes>>

(* A crash of the machine takes the bytes of a file that were not flushed.  *)
Damaged(file) ==
  IF file.kind = "file" /\ ~file.synced THEN [file EXCEPT !.kind = "broken"] ELSE file

(* The process dies, or the machine with it and with directory entries that *)
(* were not written, and a fresh program is started.                        *)
Crash ==
  /\ crashes > 0 /\ crashes' = crashes - 1
  /\ \/ UNCHANGED disk
     \/ \E lost \in SUBSET {k \in Boundaries : disk[k] # NoFile} :
          disk' = [k \in Boundaries |-> IF k \in lost THEN NoFile ELSE Damaged(disk[k])]
  /\ others' = {k \in others : disk'[k] # NoFile}
  /\ UNCHANGED <<config, faults>>
  /\ pc' = "boundary" /\ done' = 0 /\ parts' = 0
  /\ store' = FreshStore(config) /\ opt' = FreshOptimizers(config)
  /\ schedule' = config.schedule /\ scaler' = NewScaler(config)
  /\ saving' = NoSaving /\ torn' = FALSE

-----------------------------------------------------------------------------
Next ==
  \/ Register \/ ZeroGrad \/ Backward \/ Update \/ ScheduleStep
  \/ SaveBegins \/ SaveCreates \/ SaveWrites \/ SaveSyncs \/ SaveLinks \/ SaveEnds \/ Crash
  \/ \E o \in Optimizers : Unscale(o) \/ UnscaleTears(o) \/ Step(o) \/ StepFails(o)
  \/ \E k \in Boundaries : Restore(k) \/ Taken(k)

Spec == Init /\ [][Next]_vars

-----------------------------------------------------------------------------
(* Properties.                                                             *)

(* Every update a parameter was given is one batch's, all its microbatches  *)
(* together, at the turn of its optimizer and once; its gradients were       *)
(* divided by just the scale they had been multiplied with, and finite if   *)
(* scaling is enabled - whatever the order of the calls, the errors of a    *)
(* step and its repetition. Only a copy to the device that fails half way   *)
(* is no promise (GradScaler::unscale, step, Optimizer::try_step).          *)
UpdatesSound ==
  torn \/ \A o \in Optimizers : \A p \in DOMAIN store[o] :
    LET value == store[o][p].value
    IN  \A i \in DOMAIN value :
          /\ value[i].exponent = 0 /\ value[i].parts = config.micro
          /\ config.enabled => value[i].finite
          /\ (value[i].batch - 1) % config.optimizers = o - 1
          /\ \A j \in 1 .. i - 1 : value[j].batch < value[i].batch

(* The training of k batches that nothing disturbs, with every parameter    *)
(* registered from the beginning.                                          *)
Undisturbed[k \in Nat] ==
  IF k = 0
  THEN LET s == [p \in config.parameters |-> FreshValue]
       IN  [store |-> [o \in Optimizers |-> s],
            opt |-> [o \in Optimizers |-> NewOptimizer(config, s)],
            schedule |-> config.schedule, scaler |-> NewScaler(config)]
  ELSE LET u       == Undisturbed[k - 1]
           o       == ((k - 1) % config.optimizers) + 1
           finite  == ~Overflows(config, k, u.scaler.scale)
           graded  == [p \in config.parameters |->
                         IF p \in config.touched[k]
                         THEN [u.store[o][p] EXCEPT !.grad = Gradient(k, 0, finite, config.micro)]
                         ELSE u.store[o][p]]
           applied == config.enabled => finite
           epoch   == k % config.epoch = 0
           opt1    == IF applied THEN [u.opt EXCEPT ![o] = Stepped(@, graded)] ELSE u.opt
       IN  [store |-> IF applied
                      THEN [u.store EXCEPT ![o] = Cleared(SteppedValues(config, u.opt[o], graded,
                                                                        config.touched[k]))]
                      ELSE u.store,
            opt |-> IF epoch
                    THEN [opt1 EXCEPT ![1].rates =
                                        NextRates(u.schedule, @, config.metric[k])]
                    ELSE opt1,
            schedule |-> IF epoch THEN NextSchedule(u.schedule, opt1[1].rates, config.metric[k])
                                  ELSE u.schedule,
            scaler |-> Updated(config, [u.scaler EXCEPT !.phase =
                                          [kind |-> "stepped", applied |-> applied]])]

(* A state as it would be with every parameter registered. *)
Completed(s) == Merge(s, [p \in config.parameters \ DOMAIN s |-> <<>>])

SameValues(s, k) == Completed(s) = Values(Undisturbed[k].store[1])

SameOptimizer(o, k) ==
  Synced(config, o, Undisturbed[k].store[1]) = Undisturbed[k].opt[1]

(* A scheduler that was made before another group was registered stops      *)
(* stepping, whenever that is.                                             *)
Drifts == ~SameGroups(config.schedule, Undisturbed[0].opt[1].rates)

(* A program that is killed and resumed, or goes back, from any checkpoint  *)
(* trains as one that nothing disturbs: between batches its parameters,     *)
(* moments, counters, rates, schedule and scale are those of the undisturbed *)
(* training. A published checkpoint holds all of its boundary and stays      *)
(* whole through a crash of the machine, and a path another program has      *)
(* taken is not overwritten (save, read, restore, state_dict,               *)
(* load_state_dict, the serialized schedulers).                            *)
ResumeExact ==
  /\ pc = "boundary" /\ ~torn /\ ~Drifts =>
       /\ SameValues(Values(store[1]), done) /\ SameOptimizer(opt[1], done)
       /\ schedule = Undisturbed[done].schedule /\ scaler = Undisturbed[done].scaler
  /\ \A k \in Boundaries :
       /\ disk[k].kind # "broken"
       /\ k \in others => disk[k] = Foreign
       /\ disk[k].kind = "file" /\ ~disk[k].torn =>
            /\ disk[k].done = k
            /\ SameValues(disk[k].values, k) /\ SameOptimizer(disk[k].opt, k)
            /\ disk[k].schedule = Undisturbed[k].schedule
            /\ disk[k].scaler = ScalerState(Undisturbed[k].scaler)

=============================================================================
