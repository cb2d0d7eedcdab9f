--------------------------- MODULE TrainingProofs ---------------------------
(***************************************************************************)
(* The theorem about updates of a training program, for any programs, any  *)
(* number of optimizers, parameters, batches, faults and crashes.          *)
(***************************************************************************)
EXTENDS Training, SequenceTheorems, TLAPS

-----------------------------------------------------------------------------
(* The inductive invariant.                                                *)

\* A function and a sequence, of whatever values.
IsFunction(f) == f = [x \in DOMAIN f |-> f[x]]
IsSequence(s) == Len(s) \in Nat /\ s = [i \in 1 .. Len(s) |-> s[i]]

Gradients ==
  [kind : {"gradient"}, batch : Nat, exponent : Int, finite : BOOLEAN, parts : Nat]

Phases == {Ready} \cup [kind : {"unscaled"}, optimizer : Nat, finite : BOOLEAN]
                  \cup [kind : {"stepped"}, applied : BOOLEAN]

StoreType(s) ==
  /\ IsFunction(s)
  /\ \A p \in DOMAIN s : /\ s[p] = [value |-> s[p].value, grad |-> s[p].grad]
                         /\ IsSequence(s[p].value)
                         /\ s[p].grad \in Gradients \cup {NoGradient}

TypeInv ==
  /\ config \in Configs /\ done \in Nat /\ parts \in Nat
  /\ pc \in {"boundary", "accumulate", "update", "epoch", "save"}
  /\ scaler \in [scale : Int, tracker : Int, phase : Phases]
  /\ store = [o \in Optimizers |-> store[o]]
  /\ \A o \in Optimizers : StoreType(store[o])

\* Only an update takes the scaler out of the ready phase, and only the
\* optimizer whose turn it is gets into the unscaled one.
PhaseInv ==
  /\ scaler.phase # Ready => pc = "update"
  /\ pc = "update" => parts = config.micro
  /\ scaler.phase.kind = "unscaled" => scaler.phase.optimizer = Using

\* The gradients of the batch under way, before they are applied, when the
\* scaler is in phase.
GradientSound(g, phase) ==
  /\ g.batch = done + 1 /\ g.parts = parts
  /\ phase = Ready => g.exponent = scaler.scale
  /\ phase.kind = "unscaled" => g.exponent = 0 /\ (phase.finite /\ config.enabled => g.finite)

GradientInv ==
  ~torn /\ pc \in {"accumulate", "update"} /\ scaler.phase.kind # "stepped" =>
    /\ \A p \in Graded(store[Using]) : GradientSound(store[Using][p].grad, scaler.phase)
    /\ pc = "accumulate" => Graded(store[Using]) \subseteq config.touched[done + 1]

\* What UpdatesSound says of one parameter, and that no update is of a batch
\* after the last.
SoundUpdate(c, o, u) ==
  /\ u.batch \in Nat /\ u.exponent = 0 /\ u.parts = c.micro
  /\ c.enabled => u.finite
  /\ (u.batch - 1) % c.optimizers = o - 1

SoundValue(c, o, v, last) ==
  /\ \A i \in DOMAIN v : SoundUpdate(c, o, v[i]) /\ v[i].batch <= last
  /\ \A i \in DOMAIN v : \A j \in 1 .. i - 1 : v[j].batch < v[i].batch

Last(o) == IF scaler.phase.kind = "stepped" /\ o = Using THEN done + 1 ELSE done

ValueInv ==
  ~torn => \A o \in Optimizers : \A p \in DOMAIN store[o] :
             SoundValue(config, o, store[o][p].value, Last(o))

\* A checkpoint, in memory or on the disk, is as sound as the model it holds.
FileSound(file) ==
  /\ file.done \in Nat
  /\ file.scaler.scale \in Int /\ file.scaler.tracker \in Int
  /\ \A p \in DOMAIN file.values : /\ IsSequence(file.values[p])
                                   /\ ~file.torn => SoundValue(config, 1, file.values[p], file.done)

DiskInv ==
  /\ disk = [k \in Boundaries |-> disk[k]]
  /\ \A k \in Boundaries : /\ IsFunction(disk[k]) /\ "kind" \in DOMAIN disk[k]
                           /\ disk[k].kind = "file" => FileSound(disk[k])

FileFields == {"kind", "values", "opt", "schedule", "scaler", "done", "torn"}

SavingInv ==
  pc = "save" =>
    /\ DOMAIN saving = {"stage", "content", "synced"} /\ IsFunction(saving)
    /\ DOMAIN saving.content = FileFields /\ saving.content.kind = "file"
    /\ FileSound(saving.content)

TrainingInv ==
  TypeInv /\ PhaseInv /\ GradientInv /\ ValueInv /\ DiskInv /\ SavingInv

-----------------------------------------------------------------------------
(* Lemmas about sequences, gradients and values.                           *)

\* What Append does to a sequence of whatever values.
LEMMA AppendIs ==
  ASSUME NEW s, IsSequence(s), NEW e
  PROVE  /\ IsSequence(Append(s, e))
         /\ DOMAIN s = 1 .. Len(s) /\ DOMAIN Append(s, e) = 1 .. Len(s) + 1
         /\ Append(s, e)[Len(s) + 1] = e
         /\ \A i \in 1 .. Len(s) : Append(s, e)[i] = s[i]
<1> DEFINE S == {s[i] : i \in 1 .. Len(s)} \cup {e}
           n == Len(s)
<1>1. n \in Nat /\ s = [i \in 1 .. n |-> s[i]]
  BY DEF IsSequence
<1>2. s \in [1 .. n -> S] /\ DOMAIN s = 1 .. n
  BY <1>1
<1>3. s \in Seq(S) /\ e \in S
  BY <1>1, <1>2
<1> HIDE DEF S
<1>4. /\ Append(s, e) \in Seq(S) /\ Len(Append(s, e)) = n + 1
      /\ Append(s, e)[n + 1] = e /\ \A i \in 1 .. n : Append(s, e)[i] = s[i]
  BY <1>3, AppendProperties
<1>5. Append(s, e) \in [1 .. n + 1 -> S]
  BY <1>4, LenProperties
<1>6. Append(s, e) = [i \in 1 .. n + 1 |-> Append(s, e)[i]] /\ DOMAIN Append(s, e) = 1 .. n + 1
  BY <1>5
<1> QED
  BY <1>1, <1>2, <1>4, <1>6 DEF IsSequence

LEMMA EmptyIsSequence == IsSequence(<<>>) /\ DOMAIN <<>> = {}
BY DEF IsSequence

\* An update keeps the fields of its gradient (SteppedValues).
LEMMA MergeGradient ==
  ASSUME NEW g \in Gradients, NEW r
  PROVE  LET u == Merge([rate |-> r], g)
         IN  /\ u.batch = g.batch /\ u.exponent = g.exponent
             /\ u.finite = g.finite /\ u.parts = g.parts
<1>1. DOMAIN [rate |-> r] = {"rate"}
  OBVIOUS
<1>2. DOMAIN g = {"kind", "batch", "exponent", "finite", "parts"}
  BY DEF Gradients
<1> QED
  BY <1>1, <1>2 DEF Merge

\* A value stays sound when the last batch moves on, and when a sound update
\* of a later batch is applied to it.
LEMMA LaterIsSound ==
  ASSUME NEW c, NEW o, NEW v, NEW last \in Nat, NEW next \in Nat, last <= next,
         SoundValue(c, o, v, last)
  PROVE  SoundValue(c, o, v, next)
BY DEF SoundValue, SoundUpdate

LEMMA AppendIsSound ==
  ASSUME NEW c, NEW o, NEW v, IsSequence(v), NEW last \in Nat, SoundValue(c, o, v, last),
         NEW u, SoundUpdate(c, o, u), u.batch = last + 1
  PROVE  SoundValue(c, o, Append(v, u), last + 1)
<1> DEFINE a == Append(v, u)
           n == Len(v)
<1>1. /\ DOMAIN v = 1 .. n /\ DOMAIN a = 1 .. n + 1 /\ n \in Nat
      /\ a[n + 1] = u /\ \A i \in 1 .. n : a[i] = v[i]
  BY AppendIs DEF IsSequence
<1>2. \A i \in 1 .. n : SoundUpdate(c, o, v[i]) /\ v[i].batch <= last /\ v[i].batch \in Nat
  BY <1>1 DEF SoundValue, SoundUpdate
<1> HIDE DEF a
<1>3. \A i \in DOMAIN a : SoundUpdate(c, o, a[i]) /\ a[i].batch <= last + 1
  BY <1>1, <1>2
<1>4. \A i \in DOMAIN a : \A j \in 1 .. i - 1 : a[j].batch < a[i].batch
  <2> TAKE i \in DOMAIN a
  <2> TAKE j \in 1 .. i - 1
  <2>1. j \in 1 .. n /\ a[j] = v[j]
    BY <1>1
  <2>2. CASE i = n + 1
    BY <1>1, <1>2, <2>1, <2>2
  <2>3. CASE i # n + 1
    <3>1. i \in 1 .. n /\ a[i] = v[i]
      BY <1>1, <2>3
    <3> QED
      BY <1>1, <2>1, <3>1 DEF SoundValue
  <2> QED
    BY <2>2, <2>3
<1> QED
  BY <1>3, <1>4 DEF SoundValue, a

\* unscale changes the exponents of the gradients it divides, nothing else.
LEMMA UnscaledIs ==
  ASSUME NEW s, StoreType(s), NEW sc, sc.scale \in Int, NEW ps \in SUBSET Graded(s)
  PROVE  LET t == Unscaled(s, sc, ps)
         IN  /\ StoreType(t) /\ DOMAIN t = DOMAIN s /\ Graded(t) = Graded(s)
             /\ \A p \in DOMAIN s : t[p].value = s[p].value
             /\ \A p \in ps : /\ s[p].grad \in Gradients
                             /\ t[p].grad.exponent = s[p].grad.exponent - sc.scale
                             /\ t[p].grad.batch = s[p].grad.batch
                             /\ t[p].grad.parts = s[p].grad.parts
                             /\ t[p].grad.finite = s[p].grad.finite
<1> DEFINE t == Unscaled(s, sc, ps)
<1>1. IsFunction(t) /\ DOMAIN t = DOMAIN s
  BY DEF Unscaled, IsFunction
<1>2. ASSUME NEW p \in DOMAIN s, p \notin ps
      PROVE  t[p] = s[p]
  BY <1>2 DEF Unscaled
<1>3. ASSUME NEW p \in ps
      PROVE  /\ p \in DOMAIN s /\ s[p].grad \in Gradients
             /\ t[p] = [value |-> s[p].value,
                        grad |-> [s[p].grad EXCEPT !.exponent = s[p].grad.exponent - sc.scale]]
  <2>1. p \in DOMAIN s /\ s[p].grad \in Gradients
    BY <1>3 DEF Graded, StoreType
  <2>2. s[p] = [value |-> s[p].value, grad |-> s[p].grad]
    BY <2>1 DEF StoreType
  <2>3. t[p] = [s[p] EXCEPT !.grad.exponent = @ - sc.scale]
    BY <2>1 DEF Unscaled
  <2> QED
    BY <2>1, <2>2, <2>3
<1>4. ASSUME NEW p \in ps
      PROVE  /\ t[p].grad \in Gradients /\ t[p].value = s[p].value
             /\ t[p] = [value |-> t[p].value, grad |-> t[p].grad]
             /\ t[p].grad.exponent = s[p].grad.exponent - sc.scale
             /\ t[p].grad.batch = s[p].grad.batch /\ t[p].grad.parts = s[p].grad.parts
             /\ t[p].grad.finite = s[p].grad.finite
  <2> DEFINE g == s[p].grad
             e == g.exponent - sc.scale
  <2>1. g \in Gradients /\ t[p] = [value |-> s[p].value, grad |-> [g EXCEPT !.exponent = e]]
    BY <1>3
  <2>2. e \in Int
    BY <2>1 DEF Gradients
  <2> HIDE DEF g, e
  <2>3. [g EXCEPT !.exponent = e] \in Gradients /\ [g EXCEPT !.exponent = e].exponent = e
    BY <2>1, <2>2 DEF Gradients
  <2>4. /\ [g EXCEPT !.exponent = e].batch = g.batch /\ [g EXCEPT !.exponent = e].parts = g.parts
        /\ [g EXCEPT !.exponent = e].finite = g.finite
    BY <2>1 DEF Gradients
  <2>5. t[p].grad = [g EXCEPT !.exponent = e] /\ t[p].value = s[p].value
    BY <2>1
  <2>6. t[p] = [value |-> t[p].value, grad |-> t[p].grad]
    BY <2>1, <2>5
  <2> HIDE DEF t
  <2> QED
    BY <2>3, <2>4, <2>5, <2>6 DEF g, e
<1>5. \A g \in Gradients : g # NoGradient
  BY DEF Gradients, NoGradient
<1> HIDE DEF t
<1>6. StoreType(t)
  BY <1>1, <1>2, <1>4 DEF StoreType
<1>7. Graded(t) = Graded(s)
  BY <1>1, <1>2, <1>3, <1>4, <1>5 DEF Graded
<1>8. \A p \in DOMAIN s : t[p].value = s[p].value
  BY <1>2, <1>4
<1> QED
  BY <1>1, <1>3, <1>4, <1>6, <1>7, <1>8 DEF t

\* A step copies to the parameters of ps, and to nothing else.
CopiedTo(t, s, ps) ==
  /\ StoreType(t) /\ DOMAIN t = DOMAIN s
  /\ \A p \in DOMAIN s \ ps : t[p] = s[p]
  /\ \A p \in ps : \E u :
       /\ p \in DOMAIN s /\ t[p].value = Append(s[p].value, u)
       /\ u.batch = s[p].grad.batch /\ u.exponent = s[p].grad.exponent
       /\ u.finite = s[p].grad.finite /\ u.parts = s[p].grad.parts

LEMMA SteppedIs ==
  ASSUME NEW c, NEW o, NEW s, StoreType(s), NEW ps \in SUBSET Graded(s)
  PROVE  CopiedTo(SteppedValues(c, o, s, ps), s, ps)
<1> DEFINE t == SteppedValues(c, o, s, ps)
           U(p) == Merge([rate |-> o.rates[c.group[p]]], s[p].grad)
<1>1. IsFunction(t) /\ DOMAIN t = DOMAIN s
  BY DEF SteppedValues, IsFunction
<1>2. ASSUME NEW p \in DOMAIN s, p \notin ps
      PROVE  t[p] = s[p]
  BY <1>2 DEF SteppedValues
<1>3. ASSUME NEW p \in ps
      PROVE  /\ p \in DOMAIN s /\ s[p].grad \in Gradients /\ IsSequence(s[p].value)
             /\ t[p] = [value |-> Append(s[p].value, U(p)), grad |-> s[p].grad]
  <2>1. p \in DOMAIN s /\ s[p].grad \in Gradients /\ IsSequence(s[p].value)
    BY <1>3 DEF Graded, StoreType
  <2>2. s[p] = [value |-> s[p].value, grad |-> s[p].grad]
    BY <2>1 DEF StoreType
  <2>3. t[p] = [s[p] EXCEPT !.value = Append(@, U(p))]
    BY <2>1 DEF SteppedValues
  <2> HIDE DEF U, t
  <2> QED
    BY <2>1, <2>2, <2>3
<1> HIDE DEF t
<1>4. ASSUME NEW p \in ps
      PROVE  /\ p \in DOMAIN s
             /\ t[p].value = Append(s[p].value, U(p)) /\ t[p].grad = s[p].grad
             /\ t[p] = [value |-> t[p].value, grad |-> t[p].grad] /\ IsSequence(t[p].value)
             /\ U(p).batch = s[p].grad.batch /\ U(p).exponent = s[p].grad.exponent
             /\ U(p).finite = s[p].grad.finite /\ U(p).parts = s[p].grad.parts
  <2>1. /\ U(p).batch = s[p].grad.batch /\ U(p).exponent = s[p].grad.exponent
        /\ U(p).finite = s[p].grad.finite /\ U(p).parts = s[p].grad.parts
    BY <1>3, MergeGradient
  <2> HIDE DEF U
  <2>2. IsSequence(Append(s[p].value, U(p)))
    BY <1>3, AppendIs
  <2>3. p \in DOMAIN s /\ t[p].value = Append(s[p].value, U(p)) /\ t[p].grad = s[p].grad
    <3>1. t[p] = [value |-> Append(s[p].value, U(p)), grad |-> s[p].grad] /\ p \in DOMAIN s
      BY <1>3, <1>4
    <3> QED
      BY <3>1
  <2>4. t[p] = [value |-> t[p].value, grad |-> t[p].grad]
    BY <1>3, <2>3
  <2> QED
    BY <2>1, <2>2, <2>3, <2>4
<1> HIDE DEF U
<1>5. StoreType(t)
  BY <1>1, <1>2, <1>4 DEF StoreType
<1>6. \A p \in ps : \E u :
        /\ p \in DOMAIN s /\ t[p].value = Append(s[p].value, u)
        /\ u.batch = s[p].grad.batch /\ u.exponent = s[p].grad.exponent
        /\ u.finite = s[p].grad.finite /\ u.parts = s[p].grad.parts
  <2> TAKE p \in ps
  <2> WITNESS U(p)
  <2> QED
    BY <1>4
<1> QED
  BY <1>1, <1>2, <1>5, <1>6 DEF t, CopiedTo

-----------------------------------------------------------------------------
(* What many steps share.                                                  *)

\* The optimizer whose turn it is.
LEMMA UsingIs ==
  ASSUME TypeInv
  PROVE  /\ config.optimizers \in Nat \ {0} /\ config.micro \in Nat /\ config.batches \in Nat
         /\ Using \in Optimizers /\ Using \in Nat
         /\ done % config.optimizers = Using - 1
<1>1. config \in Configs /\ done \in Nat
  BY DEF TypeInv
<1>2. config.optimizers \in Nat \ {0} /\ config.micro \in Nat /\ config.batches \in Nat
  BY <1>1, ConfigsAssumption
<1>3. done % config.optimizers \in 0 .. config.optimizers - 1
  BY <1>1, <1>2
<1> QED
  BY <1>1, <1>2, <1>3 DEF Using, Optimizers

\* The kinds of a phase tell the phases apart.
LEMMA PhaseKinds ==
  ASSUME NEW phase \in Phases
  PROVE  /\ phase = Ready <=> phase.kind = "ready"
         /\ phase.kind \in {"ready", "unscaled", "stepped"}
BY DEF Phases, Ready

\* A step that leaves the model and the scaler alone, outside of an update.
LEMMA ModelKept ==
  ASSUME TypeInv, PhaseInv, GradientInv, ValueInv,
         UNCHANGED <<config, done, parts, store, scaler, torn>>,
         pc' = pc \/ (pc \in {"boundary", "epoch", "save"} /\ pc' \in {"boundary", "epoch", "save"})
  PROVE  (TypeInv /\ PhaseInv /\ GradientInv /\ ValueInv)'
<1>1. TypeInv'
  BY DEF TypeInv, Optimizers
<1>2. PhaseInv'
  BY DEF PhaseInv, Using
<1>3. Graded(store[Using])' = Graded(store[Using]) /\ Using' = Using
  BY DEF Graded, Using
<1>4. GradientInv'
  BY <1>3 DEF GradientInv, GradientSound
<1>5. ValueInv'
  BY DEF ValueInv, Optimizers, Last, Using
<1> QED
  BY <1>1, <1>2, <1>4, <1>5

\* A step that leaves the files alone.
LEMMA FilesKept ==
  ASSUME DiskInv, SavingInv, UNCHANGED <<config, disk, saving>>, pc' = "save" => pc = "save"
  PROVE  (DiskInv /\ SavingInv)'
<1>1. DiskInv'
  BY DEF DiskInv, Boundaries, FileSound
<1>2. SavingInv'
  BY DEF SavingInv, FileSound
<1> QED
  BY <1>1, <1>2

-----------------------------------------------------------------------------
(* The steps outside of an update.                                         *)

LEMMA EmptyIsSound == \A c, o, last : SoundValue(c, o, <<>>, last)
BY EmptyIsSequence DEF SoundValue

LEMMA FreshValueIs ==
  /\ FreshValue.value = <<>> /\ FreshValue.grad = NoGradient
  /\ FreshValue = [value |-> FreshValue.value, grad |-> FreshValue.grad]
  /\ IsSequence(FreshValue.value)
BY EmptyIsSequence DEF FreshValue

\* A store of fresh parameters, and one that some are added to.
LEMMA FreshStoreType ==
  ASSUME NEW P
  PROVE  LET f == [p \in P |-> FreshValue]
         IN  StoreType(f) /\ \A p \in DOMAIN f : f[p].value = <<>>
BY FreshValueIs DEF StoreType, IsFunction

LEMMA MergedStoreType ==
  ASSUME NEW s, StoreType(s), NEW P
  PROVE  LET t == Merge(s, [p \in P |-> FreshValue])
         IN  /\ StoreType(t)
             /\ \A p \in DOMAIN t : (p \in DOMAIN s /\ t[p] = s[p]) \/ t[p].value = <<>>
<1> DEFINE f == [p \in P |-> FreshValue]
           t == Merge(s, f)
<1>1. StoreType(f) /\ DOMAIN f = P /\ \A p \in P : f[p].value = <<>>
  BY FreshStoreType
<1> HIDE DEF f
<1>2. IsFunction(t) /\ DOMAIN t = DOMAIN s \cup DOMAIN f
  BY DEF Merge, IsFunction
<1>3. \A p \in DOMAIN t : (p \in DOMAIN s /\ t[p] = s[p]) \/ (p \in DOMAIN f /\ t[p] = f[p])
  BY DEF Merge
<1> HIDE DEF t
<1> QED
  BY <1>1, <1>2, <1>3 DEF StoreType, t, f

\* A program begins with nothing applied.
Begun ==
  /\ config \in Configs /\ pc = "boundary" /\ done = 0 /\ parts = 0
  /\ store = FreshStore(config) /\ scaler = NewScaler(config)

LEMMA BegunIs == Begun => TypeInv /\ PhaseInv /\ GradientInv /\ ValueInv
<1> SUFFICES ASSUME Begun PROVE TypeInv /\ PhaseInv /\ GradientInv /\ ValueInv
  OBVIOUS
<1>1. /\ store = [o \in Optimizers |-> store[o]]
      /\ \A o \in Optimizers : store[o] = [p \in Registered(config) |-> FreshValue]
  BY DEF Begun, FreshStore, Blank, Optimizers
<1>2. \A o \in Optimizers : /\ StoreType(store[o])
                            /\ \A p \in DOMAIN store[o] : store[o][p].value = <<>>
  BY <1>1, FreshStoreType
<1>3. scaler \in [scale : Int, tracker : Int, phase : Phases] /\ scaler.phase = Ready
  <2>1. config.initialScale \in Int
    BY ConfigsAssumption DEF Begun
  <2> QED
    BY <2>1 DEF Begun, NewScaler, Phases
<1>4. TypeInv
  BY <1>1, <1>2, <1>3 DEF TypeInv, Begun
<1>5. scaler.phase.kind = "ready"
  BY <1>3, PhaseKinds DEF Ready
<1>6. PhaseInv /\ GradientInv
  BY <1>3, <1>5 DEF PhaseInv, GradientInv, Begun
<1>7. ValueInv
  BY <1>2, EmptyIsSound DEF ValueInv
<1> QED
  BY <1>4, <1>6, <1>7

LEMMA TrainingInit == Init => TrainingInv
<1> SUFFICES ASSUME Init PROVE TrainingInv
  OBVIOUS
<1>1. TypeInv /\ PhaseInv /\ GradientInv /\ ValueInv
  BY BegunIs DEF Init, Begun
<1>2. DiskInv
  BY DEF Init, DiskInv, NoFile, IsFunction
<1>3. SavingInv
  BY DEF Init, SavingInv
<1> QED
  BY <1>1, <1>2, <1>3 DEF TrainingInv

LEMMA RegisterKeeps == TrainingInv /\ Register => TrainingInv'
<1> SUFFICES ASSUME TrainingInv, Register PROVE TrainingInv'
  OBVIOUS
<1> USE DEF TrainingInv
<1>1. /\ UNCHANGED <<config, pc, done, parts, scaler, disk, saving, torn>> /\ pc = "boundary"
      /\ store' = [o \in Optimizers |-> Merge(store[o], [p \in config.parameters |-> FreshValue])]
  BY DEF Register, diskVars
<1>2. ASSUME NEW o \in Optimizers
      PROVE  /\ StoreType(store'[o])
             /\ \A p \in DOMAIN store'[o] : (p \in DOMAIN store[o] /\ store'[o][p] = store[o][p])
                                            \/ store'[o][p].value = <<>>
  <2>1. store'[o] = Merge(store[o], [p \in config.parameters |-> FreshValue])
    BY <1>1
  <2>2. StoreType(store[o])
    BY DEF TypeInv
  <2> QED
    BY <2>1, <2>2, MergedStoreType
<1>3. TypeInv'
  BY <1>1, <1>2 DEF TypeInv, Optimizers
<1>4. PhaseInv' /\ GradientInv'
  BY <1>1 DEF PhaseInv, GradientInv, Using
<1>5. ValueInv'
  <2>1. Optimizers' = Optimizers /\ \A o : Last(o)' = Last(o)
    BY <1>1 DEF Last, Using, Optimizers
  <2>2. ASSUME NEW o \in Optimizers, NEW p \in DOMAIN store'[o], ~torn
        PROVE  SoundValue(config, o, store'[o][p].value, Last(o))
    BY <1>2, <2>2, EmptyIsSound DEF ValueInv
  <2> QED
    BY <1>1, <2>1, <2>2 DEF ValueInv
<1>6. (DiskInv /\ SavingInv)'
  BY <1>1, FilesKept
<1> QED
  BY <1>3, <1>4, <1>5, <1>6

LEMMA ZeroGradKeeps == TrainingInv /\ ZeroGrad => TrainingInv'
<1> SUFFICES ASSUME TrainingInv, ZeroGrad PROVE TrainingInv'
  OBVIOUS
<1> USE DEF TrainingInv
<1>1. /\ UNCHANGED <<config, done, scaler, disk, saving, torn>>
      /\ pc = "boundary" /\ pc' = "accumulate" /\ parts' = 0
      /\ store' = [store EXCEPT ![Using] = Cleared(@)]
  BY DEF ZeroGrad, diskVars
<1>2. Using \in Optimizers /\ Using' = Using /\ Optimizers' = Optimizers
  BY <1>1, UsingIs DEF Using, Optimizers
<1> DEFINE s == store[Using]
           t == Cleared(s)
<1>3. StoreType(s)
  BY <1>2 DEF TypeInv
<1>4. IsFunction(t) /\ DOMAIN t = DOMAIN s
  BY DEF Cleared, IsFunction
<1>5. ASSUME NEW p \in DOMAIN t
      PROVE  t[p] = [value |-> s[p].value, grad |-> NoGradient]
  <2>1. p \in DOMAIN s /\ s[p] = [value |-> s[p].value, grad |-> s[p].grad]
    BY <1>3, <1>4, <1>5 DEF StoreType
  <2>2. t[p] = [s[p] EXCEPT !.grad = NoGradient]
    BY <2>1 DEF Cleared
  <2> HIDE DEF s, t
  <2> QED
    BY <2>1, <2>2
<1>6. /\ \A o \in Optimizers : store'[o] = IF o = Using THEN t ELSE store[o]
      /\ store' = [o \in Optimizers |-> store'[o]]
  BY <1>1, <1>2 DEF TypeInv
<1> HIDE DEF s, t
<1>7. StoreType(t) /\ Graded(t) = {} /\ \A p \in DOMAIN t : t[p].value = s[p].value
  <2>1. \A p \in DOMAIN t : /\ t[p].value = s[p].value /\ t[p].grad = NoGradient
                            /\ t[p] = [value |-> t[p].value, grad |-> t[p].grad]
    BY <1>5
  <2> QED
    BY <1>3, <1>4, <2>1 DEF StoreType, Graded
<1>8. TypeInv'
  BY <1>1, <1>2, <1>6, <1>7 DEF TypeInv
<1>9. PhaseInv'
  BY <1>1 DEF PhaseInv, Using
<1>10. GradientInv'
  <2>1. Graded(store[Using])' = {}
    BY <1>2, <1>6, <1>7 DEF Graded
  <2> QED
    BY <2>1 DEF GradientInv
<1>11. ValueInv'
  BY <1>1, <1>2, <1>4, <1>6, <1>7 DEF ValueInv, Last, s
<1>12. (DiskInv /\ SavingInv)'
  BY <1>1, FilesKept
<1> QED
  BY <1>8, <1>9, <1>10, <1>11, <1>12

LEMMA BackwardKeeps == TrainingInv /\ Backward => TrainingInv'
<1> SUFFICES ASSUME TrainingInv, Backward PROVE TrainingInv'
  OBVIOUS
<1> USE DEF TrainingInv
<1> DEFINE g == Gradient(done + 1, scaler.scale,
                         ~Overflows(config, done + 1, scaler.scale), parts')
           s == store[Using]
           t == [p \in DOMAIN s |-> IF p \in config.touched[done + 1]
                                    THEN [s[p] EXCEPT !.grad = g] ELSE s[p]]
<1>1. /\ UNCHANGED <<config, done, scaler, disk, saving, torn>>
      /\ pc = "accumulate" /\ scaler.phase = Ready /\ parts' = parts + 1
      /\ pc' = IF parts' = config.micro THEN "update" ELSE pc
      /\ store' = [store EXCEPT ![Using] = t]
  BY DEF Backward, diskVars, IsReady
<1>2. /\ Using \in Optimizers /\ Using' = Using /\ Optimizers' = Optimizers
      /\ config.micro \in Nat
  BY <1>1, UsingIs DEF Using, Optimizers
<1>3. StoreType(s)
  BY <1>2 DEF TypeInv
<1>4. scaler.scale \in Int /\ done \in Nat /\ parts \in Nat /\ parts' \in Nat
  BY <1>1 DEF TypeInv
<1>5. /\ g \in Gradients /\ g.batch = done + 1 /\ g.parts = parts' /\ g.exponent = scaler.scale
  BY <1>4 DEF Gradients, Gradient
<1> HIDE DEF g
<1>6. IsFunction(t) /\ DOMAIN t = DOMAIN s
  BY DEF IsFunction
<1>7. ASSUME NEW p \in DOMAIN t
      PROVE  IF p \in config.touched[done + 1]
             THEN t[p] = [value |-> s[p].value, grad |-> g] ELSE t[p] = s[p]
  <2>1. p \in DOMAIN s /\ s[p] = [value |-> s[p].value, grad |-> s[p].grad]
    BY <1>3, <1>7 DEF StoreType
  <2> QED
    BY <2>1
<1>8. /\ \A o \in Optimizers : store'[o] = IF o = Using THEN t ELSE store[o]
      /\ store' = [o \in Optimizers |-> store'[o]]
  BY <1>1, <1>2 DEF TypeInv
<1> HIDE DEF s, t
<1>9. StoreType(t) /\ \A p \in DOMAIN t : t[p].value = s[p].value
  BY <1>3, <1>5, <1>6, <1>7 DEF StoreType
<1>10. TypeInv'
  BY <1>1, <1>2, <1>4, <1>8, <1>9 DEF TypeInv
<1>11. PhaseInv'
  BY <1>1 DEF PhaseInv, Using, Ready
<1>12. GradientInv'
  <2> SUFFICES ASSUME ~torn PROVE GradientInv'
    BY <1>1 DEF GradientInv
  <2>1. scaler.phase.kind = "ready"
    BY <1>1 DEF Ready
  <2>2. Graded(s) \subseteq config.touched[done + 1]
    BY <1>1, <2>1 DEF GradientInv, s
  <2>3. Graded(t) \subseteq config.touched[done + 1] /\ \A p \in Graded(t) : t[p].grad = g
    BY <1>6, <1>7, <2>2 DEF Graded
  <2>4. Graded(store[Using])' = Graded(t) /\ store'[Using'] = t
    BY <1>2, <1>8 DEF Graded
  <2>5. \A u : u.batch = done + 1 /\ u.parts = parts' /\ u.exponent = scaler.scale =>
                GradientSound(u, scaler.phase)'
    BY <1>1, <2>1 DEF GradientSound
  <2>6. \A p \in Graded(store[Using])' : GradientSound(store[Using][p].grad, scaler.phase)'
    BY <1>5, <2>3, <2>4, <2>5
  <2> QED
    BY <1>1, <2>3, <2>4, <2>6 DEF GradientInv
<1>13. ValueInv'
  BY <1>1, <1>2, <1>6, <1>8, <1>9 DEF ValueInv, Last, s
<1>14. (DiskInv /\ SavingInv)'
  BY <1>1, FilesKept
<1> QED
  BY <1>10, <1>11, <1>12, <1>13, <1>14

-----------------------------------------------------------------------------
(* The steps of an update.                                                 *)

\* What a step of an update must show: of the parameters it leaves its
\* optimizer and of the phase it leaves the scaler.
LEMMA UpdateKeeps ==
  ASSUME TrainingInv, pc = "update", UNCHANGED <<config, pc, done, parts, disk, saving>>,
         NEW t, StoreType(t), store' = [store EXCEPT ![Using] = t],
         NEW phase \in Phases, scaler' = [scaler EXCEPT !.phase = phase],
         phase.kind = "unscaled" => phase.optimizer = Using,
         ~torn' =>
           /\ ~torn
           /\ phase.kind # "stepped" => \A p \in Graded(t) : GradientSound(t[p].grad, phase)
           /\ \A p \in DOMAIN t : SoundValue(config, Using, t[p].value,
                                             IF phase.kind = "stepped" THEN done + 1 ELSE done),
         scaler.phase.kind # "stepped" \/ torn'
  PROVE  TrainingInv'
<1> USE DEF TrainingInv
<1>1. Using \in Optimizers /\ Using' = Using /\ Optimizers' = Optimizers
  BY UsingIs DEF Using, Optimizers
<1>2. /\ \A o \in Optimizers : store'[o] = IF o = Using THEN t ELSE store[o]
      /\ store' = [o \in Optimizers |-> store'[o]]
  BY <1>1 DEF TypeInv
<1>3. /\ scaler' \in [scale : Int, tracker : Int, phase : Phases]
      /\ scaler'.phase = phase /\ scaler'.scale = scaler.scale
  BY DEF TypeInv
<1>4. TypeInv'
  BY <1>1, <1>2, <1>3 DEF TypeInv
<1>5. PhaseInv'
  BY <1>1, <1>3 DEF PhaseInv
<1>6. GradientInv'
  <2>1. Graded(store[Using])' = Graded(t) /\ store'[Using'] = t
    BY <1>1, <1>2 DEF Graded
  <2>2. \A p : GradientSound(t[p].grad, phase) => GradientSound(t[p].grad, scaler.phase)'
    BY <1>3 DEF GradientSound
  <2> QED
    BY <1>3, <2>1, <2>2 DEF GradientInv
<1>7. ValueInv'
  <2> SUFFICES ASSUME ~torn' PROVE ValueInv'
    BY DEF ValueInv
  <2> SUFFICES ASSUME NEW o \in Optimizers
               PROVE  \A p \in DOMAIN store'[o] :
                        SoundValue(config, o, store'[o][p].value, Last(o)')
    BY <1>1 DEF ValueInv
  <2>1. CASE o = Using
    BY <1>1, <1>2, <1>3, <2>1 DEF Last
  <2>2. CASE o # Using
    BY <1>1, <1>2, <1>3, <2>2 DEF Last, ValueInv
  <2> QED
    BY <2>1, <2>2
<1>8. (DiskInv /\ SavingInv)'
  BY FilesKept
<1> QED
  BY <1>4, <1>5, <1>6, <1>7, <1>8

\* A gradient that has been divided, as unscale leaves it.
Divided(g, finite) ==
  g.batch = done + 1 /\ g.parts = parts /\ g.exponent = 0 /\ (finite /\ config.enabled => g.finite)

\* What unscale and step find at first: the optimizer whose turn it is, and
\* gradients of the whole batch that one scale has been or will be taken out of.
LEMMA BeforeIs ==
  ASSUME TrainingInv, NEW o \in Optimizers, May(o), scaler.phase.kind # "stepped",
         ~IsReady(scaler) => scaler.phase.optimizer = o
  PROVE  /\ pc = "update" /\ o = Using
         /\ StoreType(Before(o).store) /\ DOMAIN Before(o).store = DOMAIN store[o]
         /\ \A p \in DOMAIN store[o] : Before(o).store[p].value = store[o][p].value
         /\ Before(o).phase \in Phases /\ Before(o).phase # Ready
         /\ Before(o).phase.kind = "unscaled" /\ Before(o).phase.optimizer = Using
         /\ ~torn => /\ \A p \in Graded(Before(o).store) :
                          Divided(Before(o).store[p].grad, Before(o).phase.finite)
                     /\ \A p \in DOMAIN store[o] :
                          SoundValue(config, Using, store[o][p].value, done)
<1> USE DEF TrainingInv
<1>1. pc = "update" /\ scaler.phase \in Phases /\ scaler.scale \in Int /\ StoreType(store[o])
  BY DEF TypeInv, May
<1>2. /\ scaler.phase.kind \in {"ready", "unscaled"}
      /\ scaler.phase = Ready <=> scaler.phase.kind = "ready"
  BY <1>1, PhaseKinds
<1>3. o = Using
  BY <1>2 DEF May, IsReady, PhaseInv
<1>4. ~torn => \A p \in DOMAIN store[o] : SoundValue(config, Using, store[o][p].value, done)
  BY <1>3 DEF ValueInv, Last
<1>5. ~torn => \A p \in Graded(store[o]) : GradientSound(store[o][p].grad, scaler.phase)
  BY <1>1, <1>3 DEF GradientInv
<1>6. CASE scaler.phase = Ready
  <2> DEFINE s == store[o]
             t == Unscaled(s, scaler, Graded(s))
             phase == UnscaledPhase(o, s)
  <2>1. Before(o).store = t /\ Before(o).phase = phase
    BY <1>6 DEF Before, IsReady
  <2>2. /\ StoreType(t) /\ DOMAIN t = DOMAIN s /\ Graded(t) = Graded(s)
        /\ \A p \in DOMAIN s : t[p].value = s[p].value
        /\ \A p \in Graded(s) : /\ s[p].grad \in Gradients
                                /\ t[p].grad.exponent = s[p].grad.exponent - scaler.scale
                                /\ t[p].grad.batch = s[p].grad.batch
                                /\ t[p].grad.parts = s[p].grad.parts
                                /\ t[p].grad.finite = s[p].grad.finite
    BY <1>1, UnscaledIs
  <2>3. AllFinite(config, s) \in BOOLEAN /\ o \in Nat
    BY <1>3, UsingIs DEF AllFinite
  <2>4. /\ phase \in Phases /\ phase # Ready /\ phase.kind = "unscaled" /\ phase.optimizer = o
        /\ phase.finite = AllFinite(config, s)
    BY <2>3 DEF UnscaledPhase, Phases, Ready
  <2> HIDE DEF t, phase
  <2>5. ASSUME ~torn, NEW p \in Graded(t)
        PROVE  Divided(t[p].grad, phase.finite)
    <3>1. /\ s[p].grad.batch = done + 1 /\ s[p].grad.parts = parts
          /\ s[p].grad.exponent = scaler.scale
      BY <1>5, <1>6, <2>2, <2>5 DEF GradientSound
    <3>2. t[p].grad.exponent = 0
      BY <1>1, <2>2, <2>5, <3>1
    <3>3. phase.finite /\ config.enabled => t[p].grad.finite
      BY <2>2, <2>4, <2>5 DEF AllFinite
    <3> QED
      BY <2>2, <2>5, <3>1, <3>2, <3>3 DEF Divided
  <2> QED
    BY <1>1, <1>3, <1>4, <2>1, <2>2, <2>4, <2>5
<1>7. CASE scaler.phase.kind = "unscaled"
  <2>1. Before(o).store = store[o] /\ Before(o).phase = scaler.phase /\ scaler.phase # Ready
    BY <1>2, <1>7 DEF Before, IsReady
  <2>2. scaler.phase.optimizer = Using
    BY <1>7 DEF PhaseInv
  <2>3. ~torn => \A p \in Graded(store[o]) : Divided(store[o][p].grad, scaler.phase.finite)
    BY <1>5, <1>7 DEF GradientSound, Divided
  <2> QED
    BY <1>1, <1>3, <1>4, <1>7, <2>1, <2>2, <2>3
<1> QED
  BY <1>2, <1>6, <1>7

\* A divided gradient is what is expected of the unscaled phase.
LEMMA DividedIsSound ==
  ASSUME NEW g, NEW phase \in Phases, phase # Ready, Divided(g, phase.finite)
  PROVE  GradientSound(g, phase)
BY DEF Divided, GradientSound

LEMMA UnscaleKeeps ==
  ASSUME TrainingInv, NEW o \in Optimizers, Unscale(o)
  PROVE  TrainingInv'
<1> DEFINE t == Before(o).store
           phase == Before(o).phase
<1>1. /\ May(o) /\ IsReady(scaler) /\ UNCHANGED <<config, pc, done, parts, disk, saving, torn>>
      /\ scaler.phase.kind # "stepped"
  BY DEF Unscale, diskVars, IsReady, Ready
<1>2. store' = [store EXCEPT ![o] = t] /\ scaler' = [scaler EXCEPT !.phase = phase]
  <2>1. o \in DOMAIN store
    BY DEF TrainingInv, TypeInv
  <2> QED
    BY <1>1, <2>1 DEF Unscale, Before
<1>3. /\ pc = "update" /\ o = Using /\ StoreType(t) /\ DOMAIN t = DOMAIN store[o]
      /\ \A p \in DOMAIN store[o] : t[p].value = store[o][p].value
      /\ phase \in Phases /\ phase # Ready /\ phase.kind = "unscaled" /\ phase.optimizer = Using
      /\ ~torn => /\ \A p \in Graded(t) : Divided(t[p].grad, phase.finite)
                  /\ \A p \in DOMAIN t : SoundValue(config, Using, t[p].value, done)
  BY <1>1, BeforeIs
<1> HIDE DEF t, phase
<1>4. ~torn => \A p \in Graded(t) : GradientSound(t[p].grad, phase)
  BY <1>3, DividedIsSound
<1> QED
  BY <1>1, <1>2, <1>3, <1>4, UpdateKeeps

LEMMA UnscaleTearsKeeps ==
  ASSUME TrainingInv, NEW o \in Optimizers, UnscaleTears(o)
  PROVE  TrainingInv'
<1>1. /\ May(o) /\ IsReady(scaler) /\ torn'
      /\ UNCHANGED <<config, pc, done, parts, scaler, disk, saving>>
  BY DEF UnscaleTears, diskVars
<1>2. PICK ps \in InitialSegments(Graded(store[o])) :
        store' = [store EXCEPT ![o] = Unscaled(@, scaler, ps)]
  BY DEF UnscaleTears
<1> DEFINE t == Unscaled(store[o], scaler, ps)
<1>3. /\ o \in DOMAIN store /\ StoreType(store[o]) /\ scaler.scale \in Int
      /\ scaler.phase \in Phases /\ scaler' = [scaler EXCEPT !.phase = scaler.phase]
  BY <1>1 DEF TrainingInv, TypeInv
<1>4. pc = "update" /\ o = Using /\ scaler.phase.kind # "unscaled"
  BY <1>1 DEF May, IsReady, Ready
<1>5. store' = [store EXCEPT ![Using] = t]
  BY <1>2, <1>3, <1>4
<1>6. ps \in SUBSET Graded(store[o])
  BY <1>2 DEF InitialSegments
<1>7. StoreType(t)
  BY <1>3, <1>6, UnscaledIs
<1> HIDE DEF t
<1> QED
  BY <1>1, <1>3, <1>4, <1>5, <1>7, UpdateKeeps

\* step begins as BeforeIs says.
LEMMA MayStepIs ==
  ASSUME TrainingInv, NEW o \in Optimizers, MayStep(o)
  PROVE  May(o) /\ scaler.phase.kind # "stepped" /\ (~IsReady(scaler) => scaler.phase.optimizer = o)
<1>1. CASE IsReady(scaler)
  BY <1>1 DEF MayStep, IsReady, Ready
<1>2. CASE ~IsReady(scaler)
  <2>1. Before(o).phase = scaler.phase
    BY <1>2 DEF Before
  <2> QED
    BY <1>2, <2>1 DEF MayStep
<1> QED
  BY <1>1, <1>2

\* An update applied to a sound value, of a divided gradient, is sound.
LEMMA AppliedIsSound ==
  ASSUME TrainingInv, pc = "update", NEW v, IsSequence(v), SoundValue(config, Using, v, done),
         NEW g \in Gradients, Divided(g, TRUE),
         NEW u, u.batch = g.batch, u.exponent = g.exponent, u.finite = g.finite,
         u.parts = g.parts
  PROVE  SoundValue(config, Using, Append(v, u), done + 1)
<1>1. done \in Nat /\ parts = config.micro
  BY DEF TrainingInv, TypeInv, PhaseInv
<1>2. (u.batch - 1) % config.optimizers = Using - 1
  <2>1. u.batch - 1 = done
    BY <1>1 DEF Divided
  <2> QED
    BY <2>1, UsingIs DEF TrainingInv
<1>3. SoundUpdate(config, Using, u) /\ u.batch = done + 1
  BY <1>1, <1>2 DEF SoundUpdate, Divided
<1> QED
  BY <1>1, <1>3, AppendIsSound

LEMMA StepKeeps ==
  ASSUME TrainingInv, NEW o \in Optimizers, Step(o)
  PROVE  TrainingInv'
<1> DEFINE s == Before(o).store
           finite == Before(o).phase.finite
           synced == Synced(config, opt[o], store[o])
           ps == Graded(s)
           t == IF finite THEN SteppedValues(config, synced, s, ps) ELSE s
           phase == [kind |-> "stepped", applied |-> finite]
<1>1. /\ MayStep(o) /\ UNCHANGED <<config, pc, done, parts, disk, saving, torn>>
      /\ scaler' = [scaler EXCEPT !.phase = phase] /\ store' = [store EXCEPT ![o] = t]
  BY DEF Step, diskVars
<1>2. May(o) /\ scaler.phase.kind # "stepped" /\ (~IsReady(scaler) => scaler.phase.optimizer = o)
  BY <1>1, MayStepIs
<1>3. /\ pc = "update" /\ o = Using /\ StoreType(s) /\ DOMAIN s = DOMAIN store[o]
      /\ \A p \in DOMAIN store[o] : s[p].value = store[o][p].value
      /\ Before(o).phase \in Phases /\ Before(o).phase.kind = "unscaled"
      /\ ~torn => /\ \A p \in ps : Divided(s[p].grad, finite)
                  /\ \A p \in DOMAIN s : SoundValue(config, Using, s[p].value, done)
  BY <1>2, BeforeIs
<1>4. finite \in BOOLEAN
  BY <1>3 DEF Phases, Ready
<1>5. done \in Nat /\ TypeInv
  BY DEF TrainingInv, TypeInv
<1> HIDE DEF s, finite, synced
<1>6. phase \in Phases /\ phase.kind = "stepped"
  BY <1>4 DEF Phases
<1> HIDE DEF phase
<1>7. CASE finite
  <2> DEFINE stepped == SteppedValues(config, synced, s, ps)
  <2>1. t = stepped
    BY <1>7
  <2>2. ps \in SUBSET Graded(s)
    OBVIOUS
  <2> HIDE DEF t, ps
  <2>3. CopiedTo(t, s, ps)
    <3>1. StoreType(s)
      BY <1>3
    <3> QED
      BY <2>1, <2>2, <3>1, SteppedIs
  <2>4. ASSUME ~torn, NEW p \in DOMAIN t
        PROVE  SoundValue(config, Using, t[p].value, done + 1)
    <3>1. CASE p \in ps
      <4>1. PICK u : /\ t[p].value = Append(s[p].value, u)
                     /\ u.batch = s[p].grad.batch /\ u.exponent = s[p].grad.exponent
                     /\ u.finite = s[p].grad.finite /\ u.parts = s[p].grad.parts
        BY <2>3, <3>1 DEF CopiedTo
      <4>2. s[p].grad \in Gradients /\ IsSequence(s[p].value) /\ p \in DOMAIN s
        BY <1>3, <2>2, <3>1 DEF Graded, StoreType
      <4>3. Divided(s[p].grad, TRUE) /\ SoundValue(config, Using, s[p].value, done)
        BY <1>3, <1>7, <2>4, <3>1, <4>2 DEF Divided
      <4> QED
        BY <1>3, <4>1, <4>2, <4>3, AppliedIsSound
    <3>2. CASE p \notin ps
      <4>1. t[p] = s[p] /\ p \in DOMAIN s
        BY <2>3, <2>4, <3>2 DEF CopiedTo
      <4> QED
        BY <1>3, <1>5, <2>4, <4>1, LaterIsSound
    <3> QED
      BY <3>1, <3>2
  <2> QED
    BY <1>1, <1>2, <1>3, <1>6, <2>3, <2>4, UpdateKeeps DEF CopiedTo
<1>8. CASE ~finite
  <2>1. t = s
    BY <1>8
  <2> HIDE DEF t
  <2>2. ASSUME ~torn, NEW p \in DOMAIN t
        PROVE  SoundValue(config, Using, t[p].value, done + 1)
    BY <1>3, <1>5, <2>1, <2>2, LaterIsSound
  <2> QED
    BY <1>1, <1>2, <1>3, <1>6, <2>1, <2>2, UpdateKeeps
<1> QED
  BY <1>7, <1>8

LEMMA StepFailsKeeps ==
  ASSUME TrainingInv, NEW o \in Optimizers, StepFails(o)
  PROVE  TrainingInv'
<1> DEFINE s == Before(o).store
           phase == Before(o).phase
           synced == Synced(config, opt[o], store[o])
<1>1. /\ MayStep(o) /\ UNCHANGED <<config, pc, done, parts, disk, saving>>
      /\ scaler' = [scaler EXCEPT !.phase = phase]
  BY DEF StepFails, diskVars
<1>2. \/ store' = [store EXCEPT ![o] = s] /\ torn' = torn
      \/ /\ \E ps \in InitialSegments(Graded(s)) :
              store' = [store EXCEPT ![o] = SteppedValues(config, synced, s, ps)]
         /\ torn'
  BY DEF StepFails
<1>3. May(o) /\ scaler.phase.kind # "stepped" /\ (~IsReady(scaler) => scaler.phase.optimizer = o)
  BY <1>1, MayStepIs
<1>4. /\ pc = "update" /\ o = Using /\ StoreType(s) /\ DOMAIN s = DOMAIN store[o]
      /\ \A p \in DOMAIN store[o] : s[p].value = store[o][p].value
      /\ phase \in Phases /\ phase # Ready /\ phase.kind = "unscaled" /\ phase.optimizer = Using
      /\ ~torn => /\ \A p \in Graded(s) : Divided(s[p].grad, phase.finite)
                  /\ \A p \in DOMAIN s : SoundValue(config, Using, s[p].value, done)
  BY <1>3, BeforeIs
<1> HIDE DEF s, phase, synced
<1>5. CASE store' = [store EXCEPT ![o] = s] /\ torn' = torn
  <2>1. ~torn => \A p \in Graded(s) : GradientSound(s[p].grad, phase)
    BY <1>4, DividedIsSound
  <2> QED
    BY <1>1, <1>3, <1>4, <1>5, <2>1, UpdateKeeps
<1>6. ASSUME torn', NEW ps \in InitialSegments(Graded(s)),
             store' = [store EXCEPT ![o] = SteppedValues(config, synced, s, ps)]
      PROVE  TrainingInv'
  <2> DEFINE t == SteppedValues(config, synced, s, ps)
  <2>1. ps \in SUBSET Graded(s)
    BY <1>6 DEF InitialSegments
  <2>2. StoreType(t)
    BY <1>4, <2>1, SteppedIs DEF CopiedTo
  <2>3. store' = [store EXCEPT ![Using] = t]
    BY <1>4, <1>6
  <2> HIDE DEF t
  <2> QED
    BY <1>1, <1>3, <1>4, <1>6, <2>2, <2>3, UpdateKeeps
<1> QED
  BY <1>2, <1>5, <1>6

LEMMA UpdateStepKeeps == TrainingInv /\ Update => TrainingInv'
<1> SUFFICES ASSUME TrainingInv, Update PROVE TrainingInv'
  OBVIOUS
<1> USE DEF TrainingInv
<1>1. /\ pc = "update" /\ scaler.phase.kind = "stepped" /\ scaler' = Updated(config, scaler)
      /\ done' = done + 1 /\ parts' = 0 /\ pc' \in {"boundary", "epoch"}
      /\ UNCHANGED <<config, store, disk, saving, torn>>
  BY DEF Update, diskVars
<1>2. scaler.scale \in Int /\ scaler.tracker \in Int
      /\ scaler = [scale |-> scaler.scale, tracker |-> scaler.tracker, phase |-> scaler.phase]
      /\ done \in Nat
  BY DEF TypeInv
<1>3. /\ scaler' \in [scale : Int, tracker : Int, phase : Phases] /\ scaler'.phase = Ready
  <2> DEFINE tr == IF config.enabled /\ scaler.phase.applied /\ scaler.tracker + 1 < config.interval
                   THEN scaler.tracker + 1 ELSE IF config.enabled THEN 0 ELSE scaler.tracker
             sc == CASE config.enabled /\ scaler.phase.applied
                          /\ scaler.tracker + 1 = config.interval ->
                          IF scaler.scale < HighScale THEN scaler.scale + 1 ELSE scaler.scale
                     [] config.enabled /\ ~scaler.phase.applied ->
                          IF scaler.scale > LowScale THEN scaler.scale - 1 ELSE scaler.scale
                     [] OTHER -> scaler.scale
  <2>1. scaler' = [scaler EXCEPT !.phase = Ready, !.tracker = tr, !.scale = sc]
    BY <1>1 DEF Updated
  <2>2. tr \in Int /\ sc \in Int
    BY <1>2
  <2> HIDE DEF tr, sc
  <2>3. scaler' = [scale |-> sc, tracker |-> tr, phase |-> Ready]
    BY <1>2, <2>1
  <2> QED
    BY <2>2, <2>3 DEF Phases
<1>4. scaler'.phase.kind = "ready"
  BY <1>3 DEF Ready
<1>5. TypeInv'
  BY <1>1, <1>2, <1>3 DEF TypeInv, Optimizers
<1>6. PhaseInv' /\ GradientInv'
  BY <1>1, <1>3, <1>4 DEF PhaseInv, GradientInv
<1>7. ValueInv'
  <2>1. /\ Optimizers' = Optimizers
        /\ \A o : Last(o)' = done + 1 /\ Last(o) \in Nat /\ Last(o) <= done + 1
    BY <1>1, <1>2, <1>4 DEF Last, Optimizers
  <2>2. ASSUME ~torn, NEW o \in Optimizers, NEW p \in DOMAIN store[o]
        PROVE  SoundValue(config, o, store[o][p].value, done + 1)
    <3>1. SoundValue(config, o, store[o][p].value, Last(o))
      BY <2>2 DEF ValueInv
    <3> QED
      BY <1>2, <2>1, <3>1, LaterIsSound
  <2> QED
    BY <1>1, <2>1, <2>2 DEF ValueInv
<1>8. (DiskInv /\ SavingInv)'
  BY <1>1, FilesKept
<1> QED
  BY <1>5, <1>6, <1>7, <1>8

LEMMA ScheduleStepKeeps == TrainingInv /\ ScheduleStep => TrainingInv'
BY ModelKept, FilesKept DEF TrainingInv, ScheduleStep, diskVars

-----------------------------------------------------------------------------
(* Checkpoints and crashes.                                                *)

LEMMA SaveBeginsKeeps == TrainingInv /\ SaveBegins => TrainingInv'
<1> SUFFICES ASSUME TrainingInv, SaveBegins PROVE TrainingInv'
  OBVIOUS
<1> USE DEF TrainingInv
<1>1. /\ UNCHANGED <<config, done, parts, store, scaler, disk, torn>>
      /\ pc = "boundary" /\ pc' = "save"
      /\ saving' = [stage |-> "captured", content |-> Capture, synced |-> FALSE]
  BY DEF SaveBegins
<1>2. (TypeInv /\ PhaseInv /\ GradientInv /\ ValueInv)'
  BY <1>1, ModelKept
<1>3. DiskInv'
  BY <1>1 DEF DiskInv, Boundaries, FileSound
<1>4. /\ 1 \in Optimizers /\ done \in Nat /\ scaler.scale \in Int /\ scaler.tracker \in Int
      /\ StoreType(store[1])
  <2>1. 1 \in Optimizers
    BY UsingIs DEF Optimizers
  <2> QED
    BY <2>1 DEF TypeInv
<1>5. Last(1) = done
  <2>1. scaler.phase = Ready
    BY <1>1 DEF PhaseInv
  <2> QED
    BY <2>1 DEF Last, Ready
<1> DEFINE c == Capture
           values == Values(store[1])
<1>6. /\ DOMAIN c = FileFields /\ c.kind = "file" /\ c.values = values /\ c.done = done
      /\ c.torn = torn /\ c.scaler.scale = scaler.scale /\ c.scaler.tracker = scaler.tracker
  BY DEF Capture, FileFields, ScalerState
<1>7. DOMAIN values = DOMAIN store[1] /\ \A p \in DOMAIN values : values[p] = store[1][p].value
  BY DEF Values
<1> HIDE DEF c, values
<1>8. ASSUME NEW p \in DOMAIN values
      PROVE  IsSequence(values[p]) /\ (~torn => SoundValue(config, 1, values[p], done))
  BY <1>4, <1>5, <1>7, <1>8 DEF StoreType, ValueInv
<1>9. FileSound(c)
  BY <1>4, <1>6, <1>8 DEF FileSound
<1>10. SavingInv'
  <2>1. \A f : FileSound(f) => FileSound(f)'
    BY <1>1 DEF FileSound
  <2>2. saving' = [stage |-> "captured", content |-> c, synced |-> FALSE]
    BY <1>1 DEF c
  <2>3. saving'.content = c
    BY <2>2
  <2>4. FileSound(saving.content)'
    BY <1>9, <2>1, <2>3
  <2> QED
    BY <1>6, <2>2, <2>3, <2>4 DEF SavingInv, IsFunction
<1> QED
  BY <1>2, <1>3, <1>10

\* The steps of a save between its capture and its end change the saving
\* record, and at most the file it publishes.
LEMMA SavingKept ==
  ASSUME TrainingInv, pc = "save", UNCHANGED <<config, pc, done, parts, store, scaler, torn>>,
         NEW stage, NEW synced,
         saving' = [saving EXCEPT !.stage = stage, !.synced = synced], DiskInv'
  PROVE  TrainingInv'
<1> USE DEF TrainingInv
<1>1. (TypeInv /\ PhaseInv /\ GradientInv /\ ValueInv)'
  BY ModelKept
<1>2. SavingInv'
  <2>1. \A f : FileSound(f) => FileSound(f)'
    BY DEF FileSound
  <2>2. DOMAIN saving = {"stage", "content", "synced"}
    BY DEF SavingInv
  <2>3. /\ DOMAIN saving' = DOMAIN saving /\ IsFunction(saving') /\ saving'.content = saving.content
    BY <2>2 DEF IsFunction
  <2>4. FileSound(saving.content)'
    BY <2>1, <2>3 DEF SavingInv
  <2> QED
    BY <2>2, <2>3, <2>4 DEF SavingInv
<1> QED
  BY <1>1, <1>2

LEMMA SaveStageKeeps ==
  ASSUME TrainingInv, NEW from, NEW to, SaveStage(from, to)
  PROVE  TrainingInv'
<1>1. /\ pc = "save" /\ UNCHANGED <<config, pc, done, parts, store, scaler, torn, disk>>
      /\ saving' = [saving EXCEPT !.stage = to]
  BY DEF SaveStage
<1>2. DiskInv'
  BY <1>1 DEF TrainingInv, DiskInv, Boundaries, FileSound
<1>3. DOMAIN saving = {"stage", "content", "synced"} /\ IsFunction(saving)
  BY <1>1 DEF TrainingInv, SavingInv
<1>4. saving' = [saving EXCEPT !.stage = to, !.synced = saving.synced]
  BY <1>1, <1>3 DEF IsFunction
<1> QED
  BY <1>1, <1>2, <1>4, SavingKept

LEMMA SaveSyncsKeeps == TrainingInv /\ SaveSyncs => TrainingInv'
<1> SUFFICES ASSUME TrainingInv, SaveSyncs PROVE TrainingInv'
  OBVIOUS
<1>1. /\ pc = "save" /\ UNCHANGED <<config, pc, done, parts, store, scaler, torn, disk>>
      /\ saving' = [saving EXCEPT !.stage = "synced", !.synced = TRUE]
  BY DEF SaveSyncs
<1>2. DiskInv'
  BY <1>1 DEF TrainingInv, DiskInv, Boundaries, FileSound
<1> QED
  BY <1>1, <1>2, SavingKept

LEMMA SaveLinksKeeps == TrainingInv /\ SaveLinks => TrainingInv'
<1> SUFFICES ASSUME TrainingInv, SaveLinks PROVE TrainingInv'
  OBVIOUS
<1> DEFINE content == saving.content
           file == Merge([synced |-> saving.synced], content)
<1>1. /\ pc = "save" /\ UNCHANGED <<config, pc, done, parts, store, scaler, torn>>
      /\ saving' = [saving EXCEPT !.stage = "linked"]
      /\ disk' = [disk EXCEPT ![done] = file]
  BY DEF SaveLinks
<1>2. /\ DOMAIN saving = {"stage", "content", "synced"} /\ IsFunction(saving)
      /\ DOMAIN content = FileFields /\ content.kind = "file" /\ FileSound(content)
  BY <1>1 DEF TrainingInv, SavingInv
<1>3. saving' = [saving EXCEPT !.stage = "linked", !.synced = saving.synced]
  BY <1>1, <1>2 DEF IsFunction
<1> HIDE DEF content
<1>4. /\ IsFunction(file) /\ DOMAIN file = DOMAIN [synced |-> saving.synced] \cup DOMAIN content
      /\ \A x \in DOMAIN content \ DOMAIN [synced |-> saving.synced] : file[x] = content[x]
  BY DEF Merge, IsFunction
<1> HIDE DEF file
<1>5. /\ "kind" \in DOMAIN file /\ file.done = content.done /\ file.scaler = content.scaler
      /\ file.values = content.values /\ file.torn = content.torn
  BY <1>2, <1>4 DEF FileFields
<1>6. FileSound(file)
  BY <1>2, <1>5 DEF FileSound
<1>7. DiskInv'
  <2>1. Boundaries' = Boundaries /\ \A f : FileSound(f) => FileSound(f)'
    BY <1>1 DEF FileSound, Boundaries
  <2>2. \A k \in Boundaries : disk'[k] = IF k = done THEN file ELSE disk[k]
    BY <1>1 DEF TrainingInv, DiskInv
  <2>3. disk' = [k \in Boundaries |-> disk'[k]]
    BY <1>1 DEF TrainingInv, DiskInv
  <2>4. ASSUME NEW k \in Boundaries
        PROVE  /\ IsFunction(disk'[k]) /\ "kind" \in DOMAIN disk'[k]
               /\ disk'[k].kind = "file" => FileSound(disk[k])'
    <3>1. \A f : FileSound(f) /\ f = disk'[k] => FileSound(disk[k])'
      BY <2>1
    <3>2. CASE k = done
      BY <1>4, <1>5, <1>6, <2>2, <3>1, <3>2
    <3>3. CASE k # done
      BY <2>2, <3>1, <3>3 DEF TrainingInv, DiskInv
    <3> QED
      BY <3>2, <3>3
  <2> QED
    BY <2>1, <2>3, <2>4 DEF DiskInv
<1> QED
  BY <1>1, <1>3, <1>7, SavingKept

LEMMA SaveEndsKeeps == TrainingInv /\ SaveEnds => TrainingInv'
<1> SUFFICES ASSUME TrainingInv, SaveEnds PROVE TrainingInv'
  OBVIOUS
<1>1. /\ pc = "save" /\ pc' = "boundary"
      /\ UNCHANGED <<config, done, parts, store, scaler, disk, torn>>
  BY DEF SaveEnds
<1>2. (TypeInv /\ PhaseInv /\ GradientInv /\ ValueInv)'
  BY <1>1, ModelKept DEF TrainingInv
<1>3. DiskInv'
  BY <1>1 DEF TrainingInv, DiskInv, Boundaries, FileSound
<1>4. SavingInv'
  BY <1>1 DEF SavingInv
<1> QED
  BY <1>2, <1>3, <1>4 DEF TrainingInv

\* The values of ps come from the file, everything else stays.
LEMMA RestoredType ==
  ASSUME NEW s, StoreType(s), NEW file, NEW ps,
         \A p \in DOMAIN s \cap ps : IsSequence(file.values[p])
  PROVE  /\ StoreType(Restored(s, file, ps)) /\ DOMAIN Restored(s, file, ps) = DOMAIN s
         /\ \A p \in DOMAIN s \cap ps : Restored(s, file, ps)[p].value = file.values[p]
<1> DEFINE t == Restored(s, file, ps)
<1>1. IsFunction(t) /\ DOMAIN t = DOMAIN s
  BY DEF Restored, IsFunction
<1>2. ASSUME NEW p \in DOMAIN s
      PROVE  IF p \in ps THEN t[p] = [value |-> file.values[p], grad |-> s[p].grad]
                         ELSE t[p] = s[p]
  <2>1. s[p] = [value |-> s[p].value, grad |-> s[p].grad]
    BY DEF StoreType
  <2>2. t[p] = IF p \in ps THEN [s[p] EXCEPT !.value = file.values[p]] ELSE s[p]
    BY DEF Restored
  <2> HIDE DEF t
  <2> QED
    BY <2>1, <2>2
<1> HIDE DEF t
<1>3. ASSUME NEW p \in DOMAIN s
      PROVE  /\ t[p] = [value |-> t[p].value, grad |-> t[p].grad] /\ t[p].grad = s[p].grad
             /\ t[p].value = IF p \in ps THEN file.values[p] ELSE s[p].value
  <2>1. CASE p \in ps
    <3>1. t[p] = [value |-> file.values[p], grad |-> s[p].grad]
      BY <1>2, <1>3, <2>1
    <3>2. t[p].value = file.values[p] /\ t[p].grad = s[p].grad
      BY <3>1
    <3> QED
      BY <2>1, <3>1, <3>2
  <2>2. CASE p \notin ps
    <3>1. t[p] = s[p] /\ s[p] = [value |-> s[p].value, grad |-> s[p].grad]
      BY <1>2, <1>3, <2>2 DEF StoreType
    <3> QED
      BY <2>2, <3>1
  <2> QED
    BY <2>1, <2>2
<1> QED
  BY <1>1, <1>3 DEF StoreType, t

LEMMA RestoreKeeps ==
  ASSUME TrainingInv, NEW k \in Boundaries, Restore(k)
  PROVE  TrainingInv'
<1> USE DEF TrainingInv
<1> DEFINE file == disk[k]
           s == store[1]
<1>1. /\ UNCHANGED <<config, pc, parts, disk, saving>> /\ pc = "boundary" /\ config.saves
      /\ file.kind = "file" /\ DOMAIN s = DOMAIN file.values
  BY DEF Restore, diskVars, Readable
<1>2. \/ /\ store' = [store EXCEPT ![1] = Restored(@, file, DOMAIN file.values)]
         /\ scaler' = Loaded(file.scaler) /\ done' = file.done /\ torn' = file.torn
      \/ /\ torn' /\ UNCHANGED <<scaler, done>>
         /\ \E ps \in InitialSegments(DOMAIN file.values) :
              store' = [store EXCEPT ![1] = Restored(@, file, ps)]
  BY DEF Restore
<1>3. FileSound(file)
  BY <1>1 DEF DiskInv
<1>4. Optimizers = {1} /\ Optimizers' = Optimizers
  <2>1. config.optimizers = 1
    BY <1>1, ConfigsAssumption DEF TypeInv
  <2>2. 1 .. 1 = {1}
    OBVIOUS
  <2> QED
    BY <1>1, <2>1, <2>2 DEF Optimizers
<1>5. StoreType(s) /\ \A p \in DOMAIN s : IsSequence(file.values[p])
  BY <1>1, <1>3, <1>4 DEF TypeInv, FileSound
<1>6. scaler.phase = Ready /\ Ready \in Phases /\ Ready.kind = "ready"
  BY <1>1 DEF PhaseInv, Phases, Ready
<1>7. (DiskInv /\ SavingInv)'
  BY <1>1, FilesKept
<1>8. ASSUME NEW ps, NEW t, t = Restored(s, file, ps), store' = [store EXCEPT ![1] = t]
      PROVE  /\ StoreType(t) /\ DOMAIN t = DOMAIN s
             /\ \A p \in DOMAIN s \cap ps : t[p].value = file.values[p]
             /\ store'[1] = t /\ store' = [o \in Optimizers |-> store'[o]]
  <2>1. store'[1] = t /\ store' = [o \in Optimizers |-> store'[o]]
    BY <1>4, <1>8 DEF TypeInv
  <2>2. \A p \in DOMAIN s \cap ps : IsSequence(file.values[p])
    BY <1>5
  <2> HIDE DEF s, file
  <2>3. /\ StoreType(t) /\ DOMAIN t = DOMAIN s
        /\ \A p \in DOMAIN s \cap ps : t[p].value = file.values[p]
    BY <1>5, <1>8, <2>2, RestoredType
  <2> QED
    BY <2>1, <2>3
<1>9. CASE /\ store' = [store EXCEPT ![1] = Restored(@, file, DOMAIN file.values)]
           /\ scaler' = Loaded(file.scaler) /\ done' = file.done /\ torn' = file.torn
  <2> DEFINE ps == DOMAIN file.values
             t == Restored(s, file, ps)
  <2>1. store' = [store EXCEPT ![1] = t]
    BY <1>9
  <2> HIDE DEF s, file, t, ps
  <2>2. /\ StoreType(t) /\ DOMAIN t = DOMAIN s
        /\ \A p \in DOMAIN s \cap ps : t[p].value = file.values[p]
        /\ store'[1] = t /\ store' = [o \in Optimizers |-> store'[o]]
    BY <1>8, <2>1 DEF t
  <2>3. /\ scaler' \in [scale : Int, tracker : Int, phase : Phases]
        /\ scaler'.phase = Ready /\ done' \in Nat
    BY <1>3, <1>6, <1>9 DEF Loaded, FileSound
  <2>4. TypeInv'
    BY <1>1, <1>4, <2>2, <2>3 DEF TypeInv
  <2>5. PhaseInv' /\ GradientInv'
    BY <1>1, <1>6, <2>3 DEF PhaseInv, GradientInv
  <2>6. ValueInv'
    <3>1. Last(1)' = file.done
      BY <1>6, <1>9, <2>3 DEF Last
    <3>2. \A p \in DOMAIN t : ~file.torn => SoundValue(config, 1, t[p].value, file.done)
      BY <1>1, <1>3, <2>2 DEF FileSound, ps
    <3> QED
      BY <1>1, <1>4, <1>9, <2>2, <3>1, <3>2 DEF ValueInv
  <2> QED
    BY <1>7, <2>4, <2>5, <2>6
<1>10. ASSUME torn', UNCHANGED <<scaler, done>>, NEW ps,
              store' = [store EXCEPT ![1] = Restored(@, file, ps)]
       PROVE  TrainingInv'
  <2> DEFINE t == Restored(s, file, ps)
  <2>1. store' = [store EXCEPT ![1] = t]
    BY <1>10
  <2> HIDE DEF s, file, t
  <2>2. StoreType(t) /\ store'[1] = t /\ store' = [o \in Optimizers |-> store'[o]]
    BY <1>8, <2>1 DEF t
  <2>3. TypeInv'
    BY <1>1, <1>4, <1>10, <2>2 DEF TypeInv
  <2>4. PhaseInv' /\ GradientInv' /\ ValueInv'
    BY <1>1, <1>6, <1>10 DEF PhaseInv, GradientInv, ValueInv
  <2> QED
    BY <1>7, <2>3, <2>4
<1> QED
  BY <1>2, <1>9, <1>10

LEMMA TakenKeeps ==
  ASSUME TrainingInv, NEW k \in Boundaries, Taken(k)
  PROVE  TrainingInv'
<1>1. /\ disk' = [disk EXCEPT ![k] = Foreign]
      /\ UNCHANGED <<config, pc, done, parts, store, scaler, saving, torn>>
  BY DEF Taken
<1>2. (TypeInv /\ PhaseInv /\ GradientInv /\ ValueInv)'
  BY <1>1, ModelKept DEF TrainingInv
<1>3. IsFunction(Foreign) /\ "kind" \in DOMAIN Foreign /\ Foreign.kind # "file"
  BY DEF Foreign, IsFunction
<1>4. \A f : FileSound(f) => FileSound(f)'
  BY <1>1 DEF FileSound
<1>5. DiskInv'
  BY <1>1, <1>3, <1>4 DEF TrainingInv, DiskInv, Boundaries
<1>6. SavingInv'
  BY <1>1, <1>4 DEF TrainingInv, SavingInv
<1> QED
  BY <1>2, <1>5, <1>6 DEF TrainingInv

LEMMA CrashKeeps == TrainingInv /\ Crash => TrainingInv'
<1> SUFFICES ASSUME TrainingInv, Crash PROVE TrainingInv'
  OBVIOUS
<1>1. /\ config \in Configs /\ config' = config /\ pc' = "boundary"
      /\ \/ disk' = disk
         \/ \E lost \in SUBSET {k \in Boundaries : disk[k] # NoFile} :
              disk' = [k \in Boundaries |-> IF k \in lost THEN NoFile ELSE Damaged(disk[k])]
  BY DEF Crash, TrainingInv, TypeInv
<1>2. Begun'
  BY <1>1 DEF Crash, Begun
<1>3. (TypeInv /\ PhaseInv /\ GradientInv /\ ValueInv)'
  BY <1>2, BegunIs, PTL
<1>4. Boundaries' = Boundaries /\ \A f : FileSound(f) => FileSound(f)'
  BY <1>1 DEF FileSound, Boundaries
<1>5. CASE disk' = disk
  <2>1. DiskInv'
    BY <1>4, <1>5 DEF TrainingInv, DiskInv
  <2> QED
    BY <1>1, <1>3, <2>1 DEF TrainingInv, SavingInv
<1>6. ASSUME NEW lost,
             disk' = [k \in Boundaries |-> IF k \in lost THEN NoFile ELSE Damaged(disk[k])]
      PROVE  TrainingInv'
  <2>1. IsFunction(NoFile) /\ "kind" \in DOMAIN NoFile /\ NoFile.kind # "file"
    BY DEF NoFile, IsFunction
  <2>2. ASSUME NEW k \in Boundaries
        PROVE  /\ IsFunction(Damaged(disk[k])) /\ "kind" \in DOMAIN Damaged(disk[k])
               /\ Damaged(disk[k]).kind = "file" => Damaged(disk[k]) = disk[k]
    <3> DEFINE f == disk[k]
    <3>1. IsFunction(f) /\ "kind" \in DOMAIN f
      BY DEF TrainingInv, DiskInv
    <3> HIDE DEF f
    <3>2. IsFunction([f EXCEPT !.kind = "broken"]) /\ DOMAIN [f EXCEPT !.kind = "broken"] = DOMAIN f
      BY <3>1 DEF IsFunction
    <3>3. [f EXCEPT !.kind = "broken"].kind = "broken"
      BY <3>1
    <3> QED
      BY <3>1, <3>2, <3>3 DEF Damaged, f
  <2>3. disk' = [k \in Boundaries' |-> disk'[k]]
    BY <1>4, <1>6
  <2>4. ASSUME NEW k \in Boundaries
        PROVE  /\ IsFunction(disk'[k]) /\ "kind" \in DOMAIN disk'[k]
               /\ disk'[k].kind = "file" => FileSound(disk'[k])
    <3>1. disk'[k] = NoFile \/ disk'[k] = Damaged(disk[k])
      BY <1>6
    <3> QED
      BY <2>1, <2>2, <3>1 DEF TrainingInv, DiskInv
  <2>5. DiskInv'
    BY <1>4, <2>3, <2>4 DEF DiskInv
  <2> QED
    BY <1>1, <1>3, <2>5 DEF TrainingInv, SavingInv
<1> QED
  BY <1>1, <1>5, <1>6

-----------------------------------------------------------------------------
(* The theorem.                                                            *)

LEMMA TrainingStutter == TrainingInv /\ UNCHANGED vars => TrainingInv'
<1> SUFFICES ASSUME TrainingInv, UNCHANGED vars PROVE TrainingInv'
  OBVIOUS
<1> USE DEF TrainingInv, vars
<1>1. (TypeInv /\ PhaseInv /\ GradientInv /\ ValueInv)'
  BY ModelKept
<1>2. (DiskInv /\ SavingInv)'
  BY FilesKept
<1> QED
  BY <1>1, <1>2

LEMMA TrainingStep == TrainingInv /\ [Next]_vars => TrainingInv'
<1> SUFFICES ASSUME TrainingInv, Next \/ UNCHANGED vars PROVE TrainingInv'
  OBVIOUS
<1>1. CASE Register \/ ZeroGrad \/ Backward
  BY <1>1, RegisterKeeps, ZeroGradKeeps, BackwardKeeps
<1>2. CASE Update \/ ScheduleStep
  BY <1>2, UpdateStepKeeps, ScheduleStepKeeps
<1>3. CASE SaveBegins \/ SaveCreates \/ SaveWrites \/ SaveSyncs \/ SaveLinks \/ SaveEnds
  BY <1>3, SaveBeginsKeeps, SaveStageKeeps, SaveSyncsKeeps, SaveLinksKeeps, SaveEndsKeeps
     DEF SaveCreates, SaveWrites
<1>4. CASE Crash \/ UNCHANGED vars
  BY <1>4, CrashKeeps, TrainingStutter
<1>5. CASE \E o \in Optimizers : Unscale(o) \/ UnscaleTears(o) \/ Step(o) \/ StepFails(o)
  BY <1>5, UnscaleKeeps, UnscaleTearsKeeps, StepKeeps, StepFailsKeeps
<1>6. CASE \E k \in Boundaries : Restore(k) \/ Taken(k)
  BY <1>6, RestoreKeeps, TakenKeeps
<1> QED
  BY <1>1, <1>2, <1>3, <1>4, <1>5, <1>6 DEF Next

LEMMA SoundValues == TrainingInv => UpdatesSound
BY DEF TrainingInv, ValueInv, SoundValue, SoundUpdate, UpdatesSound

\* Every update of every parameter is one batch's, whole, at the turn of its
\* optimizer and once, unscaled by the scale it was scaled with, and finite if
\* scaling is enabled, for any programs and whatever errors, restores and
\* crashes they meet, unless a copy to the device failed half way
\* (GradScaler::unscale and step, Optimizer::try_step, restore).
THEOREM UpdatesAreSound == Spec => []UpdatesSound
<1>1. Spec => []TrainingInv
  BY TrainingInit, TrainingStep, PTL DEF Spec
<1> QED
  BY <1>1, SoundValues, PTL

=============================================================================
