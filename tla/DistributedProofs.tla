------------------------- MODULE DistributedProofs -------------------------
(***************************************************************************)
(* Theorems of distributed training, for any number of ranks, parameters,  *)
(* calls, sessions and faults.                                             *)
(***************************************************************************)
EXTENDS DistributedTraining, TLAPS

\* A finite sequence of anything
IsSeq(s) == Len(s) \in Nat /\ s = [i \in 1 .. Len(s) |-> s[i]]

\* The n-th request of a rank
Tag(r, n)  == asked[r][n].value[1]
What(r, n) == asked[r][n].value[2]
Op(r, n)   == asked[r][n].operation

\* Somebody has concluded collective n
Concluded(n) == \E r \in Ranks : n \in 1 .. Len(done[r])

\* What is known of the requests and what became of them
GroupInv ==
    /\ DOMAIN asked = Ranks /\ DOMAIN done = Ranks /\ DOMAIN stopped = Ranks
    /\ \A r \in Ranks :
        /\ IsSeq(asked[r]) /\ IsSeq(done[r])
        /\ Len(done[r]) <= Len(asked[r]) /\ Len(asked[r]) <= Len(done[r]) + 1
        /\ \A n \in 1 .. Len(asked[r]) : Op(r, n) = Operation(Tag(r, n))
        /\ \A n \in 1 .. Len(done[r]) : done[r][n] = Outcome(Group!Requests(n), r)
    /\ \A n \in Nat : Concluded(n) => Group!Made(n) /\ Accepts(Group!Requests(n))

Replicates == {"construct", "backward_step"}
Shards == {"new", "train_step", "checkpoint", "restore"}
Builds == {"construct", "new", "restore"}

\* The collectives of the rank before its present call
Base(r) == Len(done[r]) + 1 - at[r]

\* A rank's requests in its call are the rounds of the call, one by one
RankInv(r) ==
    /\ call[r] \in {None} \cup IF kind = "replicated" THEN Replicates ELSE Shards
    /\ at[r] \in Nat \ {0} /\ built[r] \in BOOLEAN
    /\ stopped[r] => call[r] = None
    /\ ~stopped[r] /\ call[r] = None => Len(asked[r]) = Len(done[r])
    /\ call[r] # None =>
        /\ call[r] \in Builds <=> ~built[r]
        /\ Base(r) \in Nat
        /\ \A i \in 1 .. (Len(asked[r]) - Base(r)) :
            /\ i <= Len(Rounds(call[r]))
            /\ Tag(r, Base(r) + i) = Rounds(call[r])[i]

CallInv ==
    /\ kind \in {"replicated", "sharded"} /\ session \in Nat
    /\ DOMAIN call = Ranks /\ DOMAIN at = Ranks /\ DOMAIN built = Ranks
    /\ \A r \in Ranks : RankInv(r)

-----------------------------------------------------------------------------
\* Sequences

\* A sequence is a function of its places.
LEMMA SequenceIs == ASSUME NEW S, NEW s \in Seq(S) PROVE IsSeq(s)
<1>1. s \in [1 .. Len(s) -> S] /\ Len(s) \in Nat
  OBVIOUS
<1>2. \A n, f : f \in [1 .. n -> S] => f = [i \in 1 .. n |-> f[i]]
  OBVIOUS
<1> QED BY <1>1, <1>2 DEF IsSeq

\* One more at the end of a sequence.
LEMMA AppendIs ==
    ASSUME NEW s, IsSeq(s), NEW x
    PROVE  /\ IsSeq(Append(s, x)) /\ Len(Append(s, x)) = Len(s) + 1
           /\ Append(s, x)[Len(s) + 1] = x
           /\ \A i \in 1 .. Len(s) : Append(s, x)[i] = s[i]
<1> DEFINE T == {s[i] : i \in 1 .. Len(s)}
           S == T \cup {x}
<1>0. s \in Seq(T)
  BY DEF IsSeq
<1> HIDE DEF T
<1>1. s \in Seq(S)
  BY <1>0
<1>2. x \in S
  OBVIOUS
<1> HIDE DEF S
<1>3. Append(s, x) \in Seq(S)
  BY <1>1, <1>2
<1>4. IsSeq(Append(s, x))
  BY <1>3, SequenceIs
<1> QED BY <1>1, <1>2, <1>4

\* Nothing has been asked for yet.
LEMMA EmptyIs == IsSeq(<<>>) /\ Len(<<>>) = 0
BY DEF IsSeq

\* The last of a sequence.
LEMMA LastIs ==
    ASSUME NEW s, IsSeq(s), NEW x
    PROVE  Last(Append(s, x)) = x
BY AppendIs DEF Last

\* Two sequences of names, one after the other.
LEMMA JoinedIs ==
    ASSUME NEW S, NEW s \in Seq(S), NEW t \in Seq(S)
    PROVE  /\ s \o t \in Seq(S) /\ Len(s \o t) = Len(s) + Len(t)
           /\ \A i \in 1 .. Len(s) + Len(t) :
                (s \o t)[i] = IF i <= Len(s) THEN s[i] ELSE t[i - Len(s)]
OBVIOUS

\* The constants are what the program makes them.
LEMMA ConstantsAre ==
    /\ World \in Nat \ {0} /\ Params \in Nat \ {0} /\ Calls \in Nat \ {0}
    /\ Ranks # {} /\ 0 \in Ranks
BY TrainingAssumption DEF Ranks

\* The same round for every parameter.
LEMMA RepeatIs ==
    ASSUME NEW S, NEW name \in S
    PROVE  /\ Repeat(name) \in Seq(S) /\ Len(Repeat(name)) = Params
           /\ \A i \in 1 .. Params : Repeat(name)[i] = name
BY ConstantsAre DEF Repeat

\* Every round of some call
RoundNames ==
    {"identity", "layout", "specs", "same_layout", "broadcast", "grads", "metadata",
     "same_metadata", "all_reduce", "copy", "attached", "config", "same_config", "zero",
     "backward", "step", "all_gather", "built", "rebuilt", "registered", "loss", "scalar",
     "gradients", "reduce_scatter", "seed", "mean_loss", "capture", "records", "decode",
     "valid", "consolidate", "tensors", "prepared"}

\* The rounds of the call that builds a replica.
LEMMA ConstructIs ==
    /\ Construct \in Seq(RoundNames) /\ Len(Construct) = Params + 2
    /\ Construct[1] = "specs" /\ Construct[2] = "same_layout"
    /\ \A i \in 3 .. Params + 2 : Construct[i] = "broadcast"
<1> DEFINE s == <<"specs", "same_layout">>
           t == Repeat("broadcast")
<1>1. s \in Seq(RoundNames) /\ Len(s) = 2 /\ s[1] = "specs" /\ s[2] = "same_layout"
  BY DEF RoundNames
<1>2. t \in Seq(RoundNames) /\ Len(t) = Params /\ \A i \in 1 .. Params : t[i] = "broadcast"
  BY RepeatIs DEF RoundNames
<1>3. Construct = s \o t
  BY DEF Construct
<1> HIDE DEF s, t
<1>4. /\ s \o t \in Seq(RoundNames) /\ Len(s \o t) = Len(s) + Len(t)
      /\ \A i \in 1 .. Len(s) + Len(t) :
           (s \o t)[i] = IF i <= Len(s) THEN s[i] ELSE t[i - Len(s)]
  BY ONLY <1>1, <1>2, JoinedIs
<1> QED BY <1>1, <1>2, <1>3, <1>4, ConstantsAre

\* The rounds that give a sharded trainer its shards.
LEMMA FromLocalIs ==
    ASSUME NEW build \in RoundNames
    PROVE  /\ FromLocal(build) \in Seq(RoundNames) /\ Len(FromLocal(build)) = 4
           /\ FromLocal(build)[1] = build /\ FromLocal(build)[2] = "registered"
           /\ FromLocal(build)[3] = "config" /\ FromLocal(build)[4] = "same_config"
BY DEF FromLocal, RoundNames

\* The rounds of the call that builds a sharded trainer.
LEMMA NewIs ==
    /\ Rounds("new") \in Seq(RoundNames) /\ Len(Rounds("new")) = Params + 6
    /\ Rounds("new")[1] = "specs" /\ Rounds("new")[2] = "same_layout"
    /\ \A i \in 3 .. Params + 2 : Rounds("new")[i] = "broadcast"
    /\ Rounds("new")[Params + 3] = "built" /\ Rounds("new")[Params + 4] = "registered"
    /\ Rounds("new")[Params + 5] = "config" /\ Rounds("new")[Params + 6] = "same_config"
<1> DEFINE s == Construct
           t == FromLocal("built")
           w == s \o t
<1>1. /\ s \in Seq(RoundNames) /\ Len(s) = Params + 2 /\ s[1] = "specs"
      /\ s[2] = "same_layout"
      /\ \A i \in 3 .. Params + 2 : s[i] = "broadcast"
  BY ConstructIs
<1>2. /\ t \in Seq(RoundNames) /\ Len(t) = 4 /\ t[1] = "built" /\ t[2] = "registered"
      /\ t[3] = "config" /\ t[4] = "same_config"
  BY FromLocalIs DEF RoundNames
<1>3. Rounds("new") = w
  BY DEF Rounds
<1>4. Params \in Nat \ {0}
  BY ConstantsAre
<1> HIDE DEF s, t
<1>5. /\ w \in Seq(RoundNames) /\ Len(w) = Len(s) + Len(t)
      /\ \A i \in 1 .. Len(s) + Len(t) : w[i] = IF i <= Len(s) THEN s[i] ELSE t[i - Len(s)]
  <2>1. s \in Seq(RoundNames) /\ t \in Seq(RoundNames)
    BY <1>1, <1>2
  <2> QED BY ONLY <2>1, JoinedIs
<1> HIDE DEF w
<1> QED BY ONLY <1>1, <1>2, <1>3, <1>4, <1>5

\* The rounds that average the gradients.
LEMMA SyncIs ==
    /\ SyncGradients \in Seq(RoundNames) /\ Len(SyncGradients) = Params + 6
    /\ SyncGradients[1] = "identity" /\ SyncGradients[2] = "layout"
    /\ SyncGradients[3] = "grads" /\ SyncGradients[4] = "metadata"
    /\ SyncGradients[5] = "same_metadata"
    /\ \A i \in 6 .. Params + 5 : SyncGradients[i] = "all_reduce"
    /\ SyncGradients[Params + 6] = "copy"
<1> DEFINE s == <<"identity", "layout">>
           t == <<"grads", "metadata", "same_metadata">>
           u == Repeat("all_reduce")
           v == <<"copy">>
           w1 == s \o t
           w2 == w1 \o u
           w3 == w2 \o v
<1>1. /\ s \in Seq(RoundNames) /\ Len(s) = 2 /\ s[1] = "identity" /\ s[2] = "layout"
  BY DEF RoundNames
<1>2. /\ t \in Seq(RoundNames) /\ Len(t) = 3 /\ t[1] = "grads" /\ t[2] = "metadata"
      /\ t[3] = "same_metadata"
  BY DEF RoundNames
<1>3. /\ u \in Seq(RoundNames) /\ Len(u) = Params
      /\ \A i \in 1 .. Params : u[i] = "all_reduce"
  BY RepeatIs DEF RoundNames
<1>4. /\ v \in Seq(RoundNames) /\ Len(v) = 1 /\ v[1] = "copy"
  BY DEF RoundNames
<1>5. SyncGradients = w3
  BY DEF SyncGradients, Validate
<1>6. Params \in Nat \ {0}
  BY ConstantsAre
<1> HIDE DEF s, t, u, v
<1>7. /\ w1 \in Seq(RoundNames) /\ Len(w1) = Len(s) + Len(t)
      /\ \A i \in 1 .. Len(s) + Len(t) : w1[i] = IF i <= Len(s) THEN s[i] ELSE t[i - Len(s)]
  <2>1. s \in Seq(RoundNames) /\ t \in Seq(RoundNames)
    BY <1>1, <1>2
  <2> QED BY ONLY <2>1, JoinedIs
<1> HIDE DEF w1
<1>8. /\ w1 \in Seq(RoundNames) /\ Len(w1) = 5 /\ w1[1] = "identity" /\ w1[2] = "layout"
      /\ w1[3] = "grads" /\ w1[4] = "metadata" /\ w1[5] = "same_metadata"
  BY ONLY <1>1, <1>2, <1>6, <1>7
<1>9. /\ w2 \in Seq(RoundNames) /\ Len(w2) = Len(w1) + Len(u)
      /\ \A i \in 1 .. Len(w1) + Len(u) : w2[i] = IF i <= Len(w1) THEN w1[i] ELSE u[i - Len(w1)]
  <2>1. w1 \in Seq(RoundNames) /\ u \in Seq(RoundNames)
    BY <1>8, <1>3
  <2> QED BY ONLY <2>1, JoinedIs
<1> HIDE DEF w2
<1>10. /\ w2 \in Seq(RoundNames) /\ Len(w2) = Params + 5 /\ w2[1] = "identity"
       /\ w2[2] = "layout" /\ w2[3] = "grads" /\ w2[4] = "metadata"
       /\ w2[5] = "same_metadata"
       /\ \A i \in 6 .. Params + 5 : w2[i] = "all_reduce"
  BY ONLY <1>8, <1>3, <1>6, <1>9
<1>11. /\ w3 \in Seq(RoundNames) /\ Len(w3) = Len(w2) + Len(v)
      /\ \A i \in 1 .. Len(w2) + Len(v) : w3[i] = IF i <= Len(w2) THEN w2[i] ELSE v[i - Len(w2)]
  <2>1. w2 \in Seq(RoundNames) /\ v \in Seq(RoundNames)
    BY <1>10, <1>4
  <2> QED BY ONLY <2>1, JoinedIs
<1> HIDE DEF w3
<1> QED BY ONLY <1>10, <1>4, <1>5, <1>6, <1>11

\* The rounds of a replica's step.
LEMMA BackwardIs ==
    /\ Rounds("backward_step") \in Seq(RoundNames)
    /\ Len(Rounds("backward_step")) = Params + 14
    /\ Rounds("backward_step")[1] = "identity" /\ Rounds("backward_step")[2] = "layout"
    /\ Rounds("backward_step")[3] = "attached" /\ Rounds("backward_step")[4] = "config"
    /\ Rounds("backward_step")[5] = "same_config" /\ Rounds("backward_step")[6] = "zero"
    /\ Rounds("backward_step")[7] = "backward" /\ Rounds("backward_step")[8] = "identity"
    /\ Rounds("backward_step")[9] = "layout" /\ Rounds("backward_step")[10] = "grads"
    /\ Rounds("backward_step")[11] = "metadata"
    /\ Rounds("backward_step")[12] = "same_metadata"
    /\ \A i \in 13 .. Params + 12 : Rounds("backward_step")[i] = "all_reduce"
    /\ Rounds("backward_step")[Params + 13] = "copy"
    /\ Rounds("backward_step")[Params + 14] = "step"
<1> DEFINE s == <<"identity", "layout">>
           t == <<"attached", "config", "same_config", "zero", "backward">>
           u == SyncGradients
           v == <<"step">>
           w1 == s \o t
           w2 == w1 \o u
           w3 == w2 \o v
<1>1. /\ s \in Seq(RoundNames) /\ Len(s) = 2 /\ s[1] = "identity" /\ s[2] = "layout"
  BY DEF RoundNames
<1>2. /\ t \in Seq(RoundNames) /\ Len(t) = 5 /\ t[1] = "attached" /\ t[2] = "config"
      /\ t[3] = "same_config" /\ t[4] = "zero" /\ t[5] = "backward"
  BY DEF RoundNames
<1>3. /\ u \in Seq(RoundNames) /\ Len(u) = Params + 6 /\ u[1] = "identity"
      /\ u[2] = "layout" /\ u[3] = "grads" /\ u[4] = "metadata" /\ u[5] = "same_metadata"
      /\ \A i \in 6 .. Params + 5 : u[i] = "all_reduce"
      /\ u[Params + 6] = "copy"
  BY SyncIs
<1>4. /\ v \in Seq(RoundNames) /\ Len(v) = 1 /\ v[1] = "step"
  BY DEF RoundNames
<1>5. Rounds("backward_step") = w3
  BY DEF Rounds, BackwardStep, Validate
<1>6. Params \in Nat \ {0}
  BY ConstantsAre
<1> HIDE DEF s, t, u, v
<1>7. /\ w1 \in Seq(RoundNames) /\ Len(w1) = Len(s) + Len(t)
      /\ \A i \in 1 .. Len(s) + Len(t) : w1[i] = IF i <= Len(s) THEN s[i] ELSE t[i - Len(s)]
  <2>1. s \in Seq(RoundNames) /\ t \in Seq(RoundNames)
    BY <1>1, <1>2
  <2> QED BY ONLY <2>1, JoinedIs
<1> HIDE DEF w1
<1>8. /\ w1 \in Seq(RoundNames) /\ Len(w1) = 7 /\ w1[1] = "identity" /\ w1[2] = "layout"
      /\ w1[3] = "attached" /\ w1[4] = "config" /\ w1[5] = "same_config" /\ w1[6] = "zero"
      /\ w1[7] = "backward"
  BY ONLY <1>1, <1>2, <1>6, <1>7
<1>9. /\ w2 \in Seq(RoundNames) /\ Len(w2) = Len(w1) + Len(u)
      /\ \A i \in 1 .. Len(w1) + Len(u) : w2[i] = IF i <= Len(w1) THEN w1[i] ELSE u[i - Len(w1)]
  <2>1. w1 \in Seq(RoundNames) /\ u \in Seq(RoundNames)
    BY <1>8, <1>3
  <2> QED BY ONLY <2>1, JoinedIs
<1> HIDE DEF w2
<1>10. /\ w2 \in Seq(RoundNames) /\ Len(w2) = Params + 13 /\ w2[1] = "identity"
       /\ w2[2] = "layout" /\ w2[3] = "attached" /\ w2[4] = "config"
       /\ w2[5] = "same_config" /\ w2[6] = "zero" /\ w2[7] = "backward"
       /\ w2[8] = "identity" /\ w2[9] = "layout" /\ w2[10] = "grads"
       /\ w2[11] = "metadata" /\ w2[12] = "same_metadata"
       /\ \A i \in 13 .. Params + 12 : w2[i] = "all_reduce"
       /\ w2[Params + 13] = "copy"
  BY ONLY <1>8, <1>3, <1>6, <1>9
<1>11. /\ w3 \in Seq(RoundNames) /\ Len(w3) = Len(w2) + Len(v)
      /\ \A i \in 1 .. Len(w2) + Len(v) : w3[i] = IF i <= Len(w2) THEN w2[i] ELSE v[i - Len(w2)]
  <2>1. w2 \in Seq(RoundNames) /\ v \in Seq(RoundNames)
    BY <1>10, <1>4
  <2> QED BY ONLY <2>1, JoinedIs
<1> HIDE DEF w3
<1> QED BY ONLY <1>10, <1>4, <1>5, <1>6, <1>11

\* The rounds in which shards become whole parameters.
LEMMA FullIs ==
    /\ FullParameters \in Seq(RoundNames) /\ Len(FullParameters) = Params + 2
    /\ FullParameters[1] = "identity" /\ FullParameters[2] = "layout"
    /\ \A i \in 3 .. Params + 2 : FullParameters[i] = "all_gather"
<1> DEFINE s == <<"identity", "layout">>
           t == Repeat("all_gather")
           w == s \o t
<1>1. /\ s \in Seq(RoundNames) /\ Len(s) = 2 /\ s[1] = "identity" /\ s[2] = "layout"
  BY DEF RoundNames
<1>2. /\ t \in Seq(RoundNames) /\ Len(t) = Params
      /\ \A i \in 1 .. Params : t[i] = "all_gather"
  BY RepeatIs DEF RoundNames
<1>3. FullParameters = w
  BY DEF FullParameters, Validate
<1>4. Params \in Nat \ {0}
  BY ConstantsAre
<1> HIDE DEF s, t
<1>5. /\ w \in Seq(RoundNames) /\ Len(w) = Len(s) + Len(t)
      /\ \A i \in 1 .. Len(s) + Len(t) : w[i] = IF i <= Len(s) THEN s[i] ELSE t[i - Len(s)]
  <2>1. s \in Seq(RoundNames) /\ t \in Seq(RoundNames)
    BY <1>1, <1>2
  <2> QED BY ONLY <2>1, JoinedIs
<1> HIDE DEF w
<1> QED BY ONLY <1>1, <1>2, <1>3, <1>4, <1>5

\* The rounds of a sharded step.
LEMMA TrainIs ==
    /\ Rounds("train_step") \in Seq(RoundNames)
    /\ Len(Rounds("train_step")) = 2 * Params + 11 /\ Rounds("train_step")[1] = "config"
    /\ Rounds("train_step")[2] = "same_config" /\ Rounds("train_step")[3] = "identity"
    /\ Rounds("train_step")[4] = "layout"
    /\ \A i \in 5 .. Params + 4 : Rounds("train_step")[i] = "all_gather"
    /\ Rounds("train_step")[Params + 5] = "loss"
    /\ Rounds("train_step")[Params + 6] = "scalar"
    /\ Rounds("train_step")[Params + 7] = "gradients"
    /\ \A i \in Params + 8 .. 2 * Params + 7 : Rounds("train_step")[i] = "reduce_scatter"
    /\ Rounds("train_step")[2 * Params + 8] = "zero"
    /\ Rounds("train_step")[2 * Params + 9] = "seed"
    /\ Rounds("train_step")[2 * Params + 10] = "step"
    /\ Rounds("train_step")[2 * Params + 11] = "mean_loss"
<1> DEFINE s == <<"config", "same_config">>
           t == FullParameters
           u == <<"loss", "scalar", "gradients">>
           v == Repeat("reduce_scatter")
           x == <<"zero", "seed", "step", "mean_loss">>
           w1 == s \o t
           w2 == w1 \o u
           w3 == w2 \o v
           w4 == w3 \o x
<1>1. /\ s \in Seq(RoundNames) /\ Len(s) = 2 /\ s[1] = "config" /\ s[2] = "same_config"
  BY DEF RoundNames
<1>2. /\ t \in Seq(RoundNames) /\ Len(t) = Params + 2 /\ t[1] = "identity"
      /\ t[2] = "layout"
      /\ \A i \in 3 .. Params + 2 : t[i] = "all_gather"
  BY FullIs
<1>3. /\ u \in Seq(RoundNames) /\ Len(u) = 3 /\ u[1] = "loss" /\ u[2] = "scalar"
      /\ u[3] = "gradients"
  BY DEF RoundNames
<1>4. /\ v \in Seq(RoundNames) /\ Len(v) = Params
      /\ \A i \in 1 .. Params : v[i] = "reduce_scatter"
  BY RepeatIs DEF RoundNames
<1>5. /\ x \in Seq(RoundNames) /\ Len(x) = 4 /\ x[1] = "zero" /\ x[2] = "seed"
      /\ x[3] = "step" /\ x[4] = "mean_loss"
  BY DEF RoundNames
<1>6. Rounds("train_step") = w4
  BY DEF Rounds, TrainStep
<1>7. Params \in Nat \ {0}
  BY ConstantsAre
<1> HIDE DEF s, t, u, v, x
<1>8. /\ w1 \in Seq(RoundNames) /\ Len(w1) = Len(s) + Len(t)
      /\ \A i \in 1 .. Len(s) + Len(t) : w1[i] = IF i <= Len(s) THEN s[i] ELSE t[i - Len(s)]
  <2>1. s \in Seq(RoundNames) /\ t \in Seq(RoundNames)
    BY <1>1, <1>2
  <2> QED BY ONLY <2>1, JoinedIs
<1> HIDE DEF w1
<1>9. /\ w1 \in Seq(RoundNames) /\ Len(w1) = Params + 4 /\ w1[1] = "config"
      /\ w1[2] = "same_config" /\ w1[3] = "identity" /\ w1[4] = "layout"
      /\ \A i \in 5 .. Params + 4 : w1[i] = "all_gather"
  BY ONLY <1>1, <1>2, <1>7, <1>8
<1>10. /\ w2 \in Seq(RoundNames) /\ Len(w2) = Len(w1) + Len(u)
      /\ \A i \in 1 .. Len(w1) + Len(u) : w2[i] = IF i <= Len(w1) THEN w1[i] ELSE u[i - Len(w1)]
  <2>1. w1 \in Seq(RoundNames) /\ u \in Seq(RoundNames)
    BY <1>9, <1>3
  <2> QED BY ONLY <2>1, JoinedIs
<1> HIDE DEF w2
<1>11. /\ w2 \in Seq(RoundNames) /\ Len(w2) = Params + 7 /\ w2[1] = "config"
       /\ w2[2] = "same_config" /\ w2[3] = "identity" /\ w2[4] = "layout"
       /\ \A i \in 5 .. Params + 4 : w2[i] = "all_gather"
       /\ w2[Params + 5] = "loss" /\ w2[Params + 6] = "scalar"
       /\ w2[Params + 7] = "gradients"
  BY ONLY <1>9, <1>3, <1>7, <1>10
<1>12. /\ w3 \in Seq(RoundNames) /\ Len(w3) = Len(w2) + Len(v)
      /\ \A i \in 1 .. Len(w2) + Len(v) : w3[i] = IF i <= Len(w2) THEN w2[i] ELSE v[i - Len(w2)]
  <2>1. w2 \in Seq(RoundNames) /\ v \in Seq(RoundNames)
    BY <1>11, <1>4
  <2> QED BY ONLY <2>1, JoinedIs
<1> HIDE DEF w3
<1>13. /\ w3 \in Seq(RoundNames) /\ Len(w3) = 2 * Params + 7 /\ w3[1] = "config"
       /\ w3[2] = "same_config" /\ w3[3] = "identity" /\ w3[4] = "layout"
       /\ \A i \in 5 .. Params + 4 : w3[i] = "all_gather"
       /\ w3[Params + 5] = "loss" /\ w3[Params + 6] = "scalar"
       /\ w3[Params + 7] = "gradients"
       /\ \A i \in Params + 8 .. 2 * Params + 7 : w3[i] = "reduce_scatter"
  BY ONLY <1>11, <1>4, <1>7, <1>12
<1>14. /\ w4 \in Seq(RoundNames) /\ Len(w4) = Len(w3) + Len(x)
      /\ \A i \in 1 .. Len(w3) + Len(x) : w4[i] = IF i <= Len(w3) THEN w3[i] ELSE x[i - Len(w3)]
  <2>1. w3 \in Seq(RoundNames) /\ x \in Seq(RoundNames)
    BY <1>13, <1>5
  <2> QED BY ONLY <2>1, JoinedIs
<1> HIDE DEF w4
<1>15. w4 \in Seq(RoundNames) /\ Len(w4) = 2 * Params + 11
  BY ONLY <1>13, <1>5, <1>7, <1>14
<1>16. \A i \in 1 .. 2 * Params + 7 : w4[i] = w3[i]
  BY ONLY <1>13, <1>5, <1>7, <1>14
<1>17. /\ w4[2 * Params + 8] = "zero" /\ w4[2 * Params + 9] = "seed"
       /\ w4[2 * Params + 10] = "step" /\ w4[2 * Params + 11] = "mean_loss"
  <2>1. \A j \in 1 .. 4 : w4[2 * Params + 7 + j] = x[j]
    BY ONLY <1>13, <1>5, <1>7, <1>14
  <2>2. /\ w4[2 * Params + 7 + 1] = x[1] /\ w4[2 * Params + 7 + 2] = x[2]
        /\ w4[2 * Params + 7 + 3] = x[3] /\ w4[2 * Params + 7 + 4] = x[4]
    BY ONLY <2>1
  <2>3. /\ 2 * Params + 7 + 1 = 2 * Params + 8 /\ 2 * Params + 7 + 2 = 2 * Params + 9
        /\ 2 * Params + 7 + 3 = 2 * Params + 10 /\ 2 * Params + 7 + 4 = 2 * Params + 11
    BY ONLY <1>7
  <2> QED BY <1>5, <2>2, <2>3
<1>18. /\ w4[1] = w3[1] /\ w4[2] = w3[2] /\ w4[3] = w3[3] /\ w4[4] = w3[4]
       /\ w4[Params + 5] = w3[Params + 5] /\ w4[Params + 6] = w3[Params + 6]
       /\ w4[Params + 7] = w3[Params + 7]
  BY ONLY <1>7, <1>16
<1>19. \A i \in 5 .. Params + 4 : w4[i] = w3[i]
  BY ONLY <1>7, <1>16
<1>20. \A i \in Params + 8 .. 2 * Params + 7 : w4[i] = w3[i]
  BY ONLY <1>7, <1>16
<1>21. /\ w4[1] = "config" /\ w4[2] = "same_config" /\ w4[3] = "identity" /\ w4[4] = "layout"
       /\ w4[Params + 5] = "loss" /\ w4[Params + 6] = "scalar" /\ w4[Params + 7] = "gradients"
  BY ONLY <1>13, <1>18
<1>22. \A i \in 5 .. Params + 4 : w4[i] = "all_gather"
  BY ONLY <1>13, <1>19
<1>23. \A i \in Params + 8 .. 2 * Params + 7 : w4[i] = "reduce_scatter"
  BY ONLY <1>13, <1>20
<1> QED BY ONLY <1>6, <1>15, <1>17, <1>21, <1>22, <1>23

\* The rounds of a sharded checkpoint.
LEMMA CheckpointIs ==
    /\ Rounds("checkpoint") \in Seq(RoundNames) /\ Len(Rounds("checkpoint")) = 5
    /\ Rounds("checkpoint")[1] = "identity" /\ Rounds("checkpoint")[2] = "capture"
    /\ Rounds("checkpoint")[3] = "records" /\ Rounds("checkpoint")[4] = "decode"
    /\ Rounds("checkpoint")[5] = "consolidate"
<1> DEFINE s == <<"identity", "capture", "records", "decode">>
           t == <<"consolidate">>
           w == s \o t
<1>1. /\ s \in Seq(RoundNames) /\ Len(s) = 4 /\ s[1] = "identity" /\ s[2] = "capture"
      /\ s[3] = "records" /\ s[4] = "decode"
  BY DEF RoundNames
<1>2. /\ t \in Seq(RoundNames) /\ Len(t) = 1 /\ t[1] = "consolidate"
  BY DEF RoundNames
<1>3. Rounds("checkpoint") = w
  BY DEF Rounds, CheckpointSet
<1>4. Params \in Nat \ {0}
  BY ConstantsAre
<1> HIDE DEF s, t
<1>5. /\ w \in Seq(RoundNames) /\ Len(w) = Len(s) + Len(t)
      /\ \A i \in 1 .. Len(s) + Len(t) : w[i] = IF i <= Len(s) THEN s[i] ELSE t[i - Len(s)]
  <2>1. s \in Seq(RoundNames) /\ t \in Seq(RoundNames)
    BY <1>1, <1>2
  <2> QED BY ONLY <2>1, JoinedIs
<1> HIDE DEF w
<1> QED BY ONLY <1>1, <1>2, <1>3, <1>4, <1>5

\* The rounds of a restore.
LEMMA RestoreIs ==
    /\ Rounds("restore") \in Seq(RoundNames) /\ Len(Rounds("restore")) = 10
    /\ Rounds("restore")[1] = "valid" /\ Rounds("restore")[2] = "records"
    /\ Rounds("restore")[3] = "decode" /\ Rounds("restore")[4] = "consolidate"
    /\ Rounds("restore")[5] = "tensors" /\ Rounds("restore")[6] = "rebuilt"
    /\ Rounds("restore")[7] = "registered" /\ Rounds("restore")[8] = "config"
    /\ Rounds("restore")[9] = "same_config" /\ Rounds("restore")[10] = "prepared"
<1> DEFINE s == <<"valid", "records", "decode", "consolidate", "tensors">>
           t == FromLocal("rebuilt")
           u == <<"prepared">>
           w1 == s \o t
           w2 == w1 \o u
<1>1. /\ s \in Seq(RoundNames) /\ Len(s) = 5 /\ s[1] = "valid" /\ s[2] = "records"
      /\ s[3] = "decode" /\ s[4] = "consolidate" /\ s[5] = "tensors"
  BY DEF RoundNames
<1>2. /\ t \in Seq(RoundNames) /\ Len(t) = 4 /\ t[1] = "rebuilt" /\ t[2] = "registered"
      /\ t[3] = "config" /\ t[4] = "same_config"
  BY FromLocalIs DEF RoundNames
<1>3. /\ u \in Seq(RoundNames) /\ Len(u) = 1 /\ u[1] = "prepared"
  BY DEF RoundNames
<1>4. Rounds("restore") = w2
  BY DEF Rounds, Restore
<1>5. Params \in Nat \ {0}
  BY ConstantsAre
<1> HIDE DEF s, t, u
<1>6. /\ w1 \in Seq(RoundNames) /\ Len(w1) = Len(s) + Len(t)
      /\ \A i \in 1 .. Len(s) + Len(t) : w1[i] = IF i <= Len(s) THEN s[i] ELSE t[i - Len(s)]
  <2>1. s \in Seq(RoundNames) /\ t \in Seq(RoundNames)
    BY <1>1, <1>2
  <2> QED BY ONLY <2>1, JoinedIs
<1> HIDE DEF w1
<1>7. /\ w1 \in Seq(RoundNames) /\ Len(w1) = 9 /\ w1[1] = "valid" /\ w1[2] = "records"
      /\ w1[3] = "decode" /\ w1[4] = "consolidate" /\ w1[5] = "tensors"
      /\ w1[6] = "rebuilt" /\ w1[7] = "registered" /\ w1[8] = "config"
      /\ w1[9] = "same_config"
  BY ONLY <1>1, <1>2, <1>5, <1>6
<1>8. /\ w2 \in Seq(RoundNames) /\ Len(w2) = Len(w1) + Len(u)
      /\ \A i \in 1 .. Len(w1) + Len(u) : w2[i] = IF i <= Len(w1) THEN w1[i] ELSE u[i - Len(w1)]
  <2>1. w1 \in Seq(RoundNames) /\ u \in Seq(RoundNames)
    BY <1>7, <1>3
  <2> QED BY ONLY <2>1, JoinedIs
<1> HIDE DEF w2
<1> QED BY ONLY <1>7, <1>3, <1>4, <1>5, <1>8
-----------------------------------------------------------------------------
\* What the group keeps

\* A collective that was concluded keeps its requests.
LEMMA ConcludedIs ==
    ASSUME GroupInv, NEW n \in Nat, Concluded(n)
    PROVE  /\ \A q \in Ranks : n \in 1 .. Len(asked[q]) /\ asked[q][n].ok
           /\ \A p, q \in Ranks : Op(p, n) = Op(q, n)
<1>1. n >= 1 /\ Group!Made(n) /\ Accepts(Group!Requests(n))
  BY DEF GroupInv, Concluded, IsSeq
<1>2. \A q \in Ranks : Len(asked[q]) \in Nat
  BY DEF GroupInv, IsSeq
<1> QED BY <1>1, <1>2, ConstantsAre DEF Group!Made, Group!Requests, Accepts, Op

\* A request is added to those of its rank.
LEMMA EnterAdds ==
    ASSUME GroupInv, NEW r \in Ranks, NEW req, Group!Enter(r, req)
    PROVE  /\ DOMAIN asked' = Ranks /\ \A q \in Ranks : IsSeq(asked'[q])
           /\ Len(asked[r]) = Len(done[r]) /\ Len(asked'[r]) = Len(asked[r]) + 1
           /\ asked'[r][Len(asked[r]) + 1] = req
           /\ \A q \in Ranks \ {r} : asked'[q] = asked[q]
           /\ \A q \in Ranks : \A n \in 1 .. Len(asked[q]) :
                asked'[q][n] = asked[q][n] /\ n \in 1 .. Len(asked'[q])
<1>1. /\ asked' = [asked EXCEPT ![r] = Append(asked[r], req)] /\ DOMAIN asked = Ranks
      /\ \A q \in Ranks : IsSeq(asked[q]) /\ Len(asked[q]) \in Nat
      /\ Len(done[r]) \in Nat /\ ~(Len(done[r]) < Len(asked[r])) /\ Len(done[r]) <= Len(asked[r])
  BY DEF GroupInv, Group!Enter, Group!Waits, IsSeq
<1>2. /\ IsSeq(Append(asked[r], req)) /\ Len(Append(asked[r], req)) = Len(asked[r]) + 1
      /\ Append(asked[r], req)[Len(asked[r]) + 1] = req
      /\ \A n \in 1 .. Len(asked[r]) : Append(asked[r], req)[n] = asked[r][n]
  BY <1>1, AppendIs
<1>3. asked'[r] = Append(asked[r], req) /\ \A q \in Ranks \ {r} : asked'[q] = asked[q]
  BY <1>1
<1>4. \A q \in Ranks : \A n \in 1 .. Len(asked[q]) :
        asked'[q][n] = asked[q][n] /\ n \in 1 .. Len(asked'[q])
  BY <1>1, <1>2, <1>3
<1> QED BY <1>1, <1>2, <1>3, <1>4

\* A request that names its round keeps what is known of the group.
LEMMA EnterKeeps ==
    ASSUME GroupInv, NEW r \in Ranks, NEW req, Group!Enter(r, req),
           req.operation = Operation(req.value[1])
    PROVE  GroupInv'
<1>1. UNCHANGED <<done, stopped>>
  BY DEF Group!Enter
<1>2. \A q \in Ranks : Len(asked[q]) \in Nat /\ Len(done[q]) \in Nat
  BY DEF GroupInv, IsSeq
<1>3. \A n \in Nat : Concluded(n)' <=> Concluded(n)
  BY <1>1 DEF Concluded
<1>4. ASSUME NEW n \in Nat, Concluded(n)
      PROVE  Group!Requests(n)' = Group!Requests(n) /\ Group!Made(n)'
  <2>1. \A q \in Ranks : n \in 1 .. Len(asked[q])
    BY <1>4, ConcludedIs
  <2>2. \A q \in Ranks : asked'[q][n] = asked[q][n] /\ n \in 1 .. Len(asked'[q])
    BY <2>1, EnterAdds
  <2> QED BY <2>2 DEF Group!Requests, Group!Made
<1>5. \A n \in Nat : Concluded(n)' => Group!Made(n)' /\ Accepts(Group!Requests(n))'
  BY <1>3, <1>4 DEF GroupInv, Accepts
<1>6. ASSUME NEW q \in Ranks, NEW n \in 1 .. Len(asked'[q])
      PROVE  Op(q, n)' = Operation(Tag(q, n)')
  <2>1. CASE n \in 1 .. Len(asked[q])
    BY <2>1, EnterAdds DEF GroupInv, Op, Tag
  <2>2. CASE q = r /\ n = Len(asked[r]) + 1
    BY <2>2, EnterAdds DEF Op, Tag
  <2> QED BY <1>2, <2>1, <2>2, EnterAdds
<1>7. ASSUME NEW q \in Ranks, NEW n \in 1 .. Len(done[q])
      PROVE  done[q][n] = Outcome(Group!Requests(n)', q)
  BY <1>4, <1>7 DEF GroupInv, Concluded
<1>8. \A q \in Ranks : Len(done[q]) <= Len(asked'[q]) /\ Len(asked'[q]) <= Len(done[q]) + 1
  BY <1>2, EnterAdds DEF GroupInv
<1>9. /\ DOMAIN asked' = Ranks /\ DOMAIN done' = Ranks /\ DOMAIN stopped' = Ranks
      /\ \A q \in Ranks : IsSeq(asked'[q]) /\ IsSeq(done'[q])
  BY <1>1, EnterAdds DEF GroupInv
<1>10. \A q \in Ranks : \A n \in 1 .. Len(done'[q]) : done'[q][n] = Outcome(Group!Requests(n)', q)
  BY ONLY <1>1, <1>7
<1>11. \A q \in Ranks : Len(done'[q]) <= Len(asked'[q]) /\ Len(asked'[q]) <= Len(done'[q]) + 1
  BY ONLY <1>1, <1>8
<1> QED
  BY ONLY <1>5, <1>6, <1>9, <1>10, <1>11 DEF GroupInv, Outcome

\* A rank concludes its collective with what everyone asked for.
LEMMA ReceiveAdds ==
    ASSUME GroupInv, NEW r \in Ranks, Group!Receive(r)
    PROVE  /\ DOMAIN done' = Ranks /\ \A q \in Ranks : IsSeq(done'[q])
           /\ Len(asked[r]) = Len(done[r]) + 1 /\ Len(done'[r]) = Len(done[r]) + 1
           /\ done'[r][Len(done[r]) + 1] = Outcome(Group!Requests(Len(done[r]) + 1), r)
           /\ \A q \in Ranks \ {r} : done'[q] = done[q]
           /\ \A q \in Ranks : \A n \in 1 .. Len(done[q]) :
                done'[q][n] = done[q][n] /\ n \in 1 .. Len(done'[q])
<1> DEFINE got == Outcome(Group!Requests(Len(done[r]) + 1), r)
<1>1. /\ done' = [done EXCEPT ![r] = Append(done[r], got)] /\ DOMAIN done = Ranks
      /\ \A q \in Ranks : IsSeq(done[q]) /\ Len(done[q]) \in Nat
      /\ Len(asked[r]) \in Nat /\ Len(done[r]) < Len(asked[r]) /\ Len(asked[r]) <= Len(done[r]) + 1
  BY DEF GroupInv, Group!Receive, Group!Waits, IsSeq
<1> HIDE DEF got
<1>2. /\ IsSeq(Append(done[r], got)) /\ Len(Append(done[r], got)) = Len(done[r]) + 1
      /\ Append(done[r], got)[Len(done[r]) + 1] = got
      /\ \A n \in 1 .. Len(done[r]) : Append(done[r], got)[n] = done[r][n]
  BY <1>1, AppendIs
<1>3. done'[r] = Append(done[r], got) /\ \A q \in Ranks \ {r} : done'[q] = done[q]
  BY <1>1
<1>4. \A q \in Ranks : \A n \in 1 .. Len(done[q]) :
        done'[q][n] = done[q][n] /\ n \in 1 .. Len(done'[q])
  BY <1>1, <1>2, <1>3
<1> QED BY <1>1, <1>2, <1>3, <1>4 DEF got

\* What a rank receives keeps what is known of the group.
LEMMA ReceiveKeeps ==
    ASSUME GroupInv, NEW r \in Ranks, Group!Receive(r), DOMAIN stopped' = Ranks
    PROVE  GroupInv'
<1> DEFINE m == Len(done[r]) + 1
<1>1. asked' = asked /\ Group!Made(m) /\ Accepts(Group!Requests(m))
  BY DEF Group!Receive
<1>2. \A q \in Ranks : Len(asked[q]) \in Nat /\ Len(done[q]) \in Nat
  BY DEF GroupInv, IsSeq
<1>3. \A n : Group!Requests(n)' = Group!Requests(n) /\ (Group!Made(n)' <=> Group!Made(n))
  BY <1>1 DEF Group!Requests, Group!Made
<1>4. ASSUME NEW n \in Nat, Concluded(n)' PROVE Concluded(n) \/ n = m
  <2>1. PICK q \in Ranks : n \in 1 .. Len(done'[q])
    BY <1>4 DEF Concluded
  <2> QED BY <1>2, <2>1, ReceiveAdds DEF Concluded
<1>5. \A n \in Nat : Concluded(n)' => Group!Made(n)' /\ Accepts(Group!Requests(n))'
  BY <1>1, <1>3, <1>4 DEF GroupInv, Accepts
<1>6. \A q \in Ranks : \A n \in 1 .. Len(asked'[q]) : Op(q, n)' = Operation(Tag(q, n)')
  BY <1>1 DEF GroupInv, Op, Tag
<1>7. ASSUME NEW q \in Ranks, NEW n \in 1 .. Len(done'[q])
      PROVE  done'[q][n] = Outcome(Group!Requests(n), q)
  <2>1. CASE n \in 1 .. Len(done[q])
    BY <2>1, ReceiveAdds DEF GroupInv
  <2>2. CASE q = r /\ n = m
    BY <2>2, ReceiveAdds
  <2> QED BY <1>2, <2>1, <2>2, ReceiveAdds
<1>8. \A q \in Ranks : Len(done'[q]) <= Len(asked'[q]) /\ Len(asked'[q]) <= Len(done'[q]) + 1
  <2> TAKE q \in Ranks
  <2>1. CASE q = r  BY <1>1, <1>2, <2>1, ReceiveAdds
  <2>2. CASE q # r  BY <1>1, <1>2, <2>2, ReceiveAdds DEF GroupInv
  <2> QED BY <2>1, <2>2
<1>9. \A n, q : Outcome(Group!Requests(n), q)' = Outcome(Group!Requests(n), q)
  BY <1>3 DEF Outcome
<1>10. DOMAIN asked' = Ranks /\ DOMAIN done' = Ranks /\ \A q \in Ranks : IsSeq(asked'[q]) /\ IsSeq(done'[q])
  BY <1>1, ReceiveAdds DEF GroupInv
<1> QED BY <1>5, <1>6, <1>7, <1>8, <1>9, <1>10 DEF GroupInv

\* No request and no answer is added.
LEMMA QuietKeeps ==
    ASSUME GroupInv, UNCHANGED <<asked, done>>, DOMAIN stopped' = Ranks
    PROVE  GroupInv'
<1>0. asked' = asked /\ done' = done
  OBVIOUS
<1>1. \A n : Group!Requests(n)' = Group!Requests(n) /\ (Group!Made(n)' <=> Group!Made(n))
  BY <1>0 DEF Group!Requests, Group!Made
<1>2. \A n \in Nat : Concluded(n)' => Group!Made(n)' /\ Accepts(Group!Requests(n))'
  <2> TAKE n \in Nat
  <2>1. Concluded(n)' => Concluded(n)
    BY <1>0 DEF Concluded
  <2> QED BY <1>1, <2>1 DEF GroupInv, Accepts
<1>3. \A r \in Ranks : \A n \in 1 .. Len(done'[r]) : done'[r][n] = Outcome(Group!Requests(n), r)
  BY <1>0 DEF GroupInv
<1>4. \A r \in Ranks : \A n \in 1 .. Len(asked'[r]) : Op(r, n)' = Operation(Tag(r, n)')
  BY DEF GroupInv, Op, Tag
<1>5. /\ DOMAIN asked' = Ranks /\ DOMAIN done' = Ranks
      /\ \A r \in Ranks : /\ IsSeq(asked'[r]) /\ IsSeq(done'[r]) /\ Len(done'[r]) <= Len(asked'[r])
                         /\ Len(asked'[r]) <= Len(done'[r]) + 1
  BY <1>0 DEF GroupInv
<1>6. \A n, r : Outcome(Group!Requests(n), r)' = Outcome(Group!Requests(n), r)
  BY <1>1 DEF Outcome
<1> QED BY <1>2, <1>3, <1>4, <1>5, <1>6 DEF GroupInv

\* A new group has nothing to keep.
LEMMA NewGroupKeeps ==
    ASSUME asked' = [r \in Ranks |-> <<>>], done' = [r \in Ranks |-> <<>>], DOMAIN stopped' = Ranks
    PROVE  GroupInv'
<1>1. \A r \in Ranks : asked'[r] = <<>> /\ done'[r] = <<>>
  OBVIOUS
<1>2. \A n \in Nat : ~Concluded(n)'
  BY <1>1, EmptyIs DEF Concluded
<1>3. Len(<<>>) = 0 /\ 1 .. 0 = {}
  BY EmptyIs
<1>4. DOMAIN asked' = Ranks /\ DOMAIN done' = Ranks
  OBVIOUS
<1>5. \A r \in Ranks :
        /\ IsSeq(asked'[r]) /\ IsSeq(done'[r])
        /\ Len(done'[r]) <= Len(asked'[r]) /\ Len(asked'[r]) <= Len(done'[r]) + 1
        /\ 1 .. Len(asked'[r]) = {} /\ 1 .. Len(done'[r]) = {}
  BY <1>1, <1>3, EmptyIs
<1>6. \A r \in Ranks : \A n \in 1 .. Len(done'[r]) : done'[r][n] = Outcome(Group!Requests(n), r)'
  BY <1>5
<1>7. \A r \in Ranks : \A n \in 1 .. Len(asked'[r]) : Op(r, n)' = Operation(Tag(r, n)')
  BY <1>5
<1> QED BY <1>2, <1>4, <1>5, <1>6, <1>7 DEF GroupInv

\* No action but those of the group touches it.
LEMMA GroupNext == ASSUME GroupInv, CallInv, Next PROVE GroupInv'
<1>1. CASE NewSession
  <2>1. DOMAIN stopped' = Ranks BY <1>1 DEF NewSession
  <2> QED BY <1>1, <2>1, NewGroupKeeps DEF NewSession
<1>2. ASSUME NEW r \in Ranks, NEW c, Begin(r, c) PROVE GroupInv'
  BY <1>2, QuietKeeps DEF Begin, group, GroupInv
<1>3. ASSUME NEW r \in Ranks, Finish(r) \/ LeaveEarly(r) PROVE GroupInv'
  BY <1>3, QuietKeeps DEF Finish, LeaveEarly, group, GroupInv
<1>4. ASSUME NEW r \in Ranks, Work(r) PROVE GroupInv'
  <2>1. PICK ok : Group!Enter(r, [operation |-> Operation(Round(r)), ok |-> ok,
                                  value |-> <<Round(r), Value(r)>>])
    BY <1>4 DEF Work
  <2> DEFINE req == [operation |-> Operation(Round(r)), ok |-> ok, value |-> <<Round(r), Value(r)>>]
  <2>2. req.operation = Operation(req.value[1])
    OBVIOUS
  <2> HIDE DEF req
  <2> QED BY <2>1, <2>2, EnterKeeps DEF req
<1>5. ASSUME NEW r \in Ranks, Receive(r) PROVE GroupInv'
  <2>1. DOMAIN stopped' = Ranks /\ Group!Receive(r)
    BY <1>5 DEF Receive, GroupInv
  <2> QED BY <2>1, ReceiveKeeps
<1>6. ASSUME NEW r \in Ranks, Error(r) \/ Drop(r) PROVE GroupInv'
  BY <1>6, QuietKeeps DEF Error, Drop, Group!Stop, GroupInv
<1> QED BY <1>1, <1>2, <1>3, <1>4, <1>5, <1>6 DEF Next

-----------------------------------------------------------------------------
\* Where a rank is in its call

\* Every call is a sequence of rounds.
LEMMA RoundsAre ==
    ASSUME NEW c \in Replicates \cup Shards
    PROVE  Rounds(c) \in Seq(RoundNames) /\ Len(Rounds(c)) \in Nat
<1>1. CASE c = "construct"     BY <1>1, ConstructIs DEF Rounds
<1>2. CASE c = "new"           BY <1>2, NewIs
<1>3. CASE c = "backward_step" BY <1>3, BackwardIs
<1>4. CASE c = "train_step"    BY <1>4, TrainIs
<1>5. CASE c = "checkpoint"    BY <1>5, CheckpointIs
<1>6. CASE c = "restore"       BY <1>6, RestoreIs
<1> QED BY <1>1, <1>2, <1>3, <1>4, <1>5, <1>6 DEF Replicates, Shards

\* A rank in a call has made its earlier rounds, and the present one if it waits.
LEMMA CallIs ==
    ASSUME GroupInv, CallInv, NEW r \in Ranks, call[r] # None
    PROVE  /\ ~stopped[r] /\ Len(asked[r]) \in Nat /\ Len(done[r]) \in Nat
           /\ at[r] \in Nat \ {0} /\ Base(r) \in Nat /\ Base(r) + at[r] = Len(done[r]) + 1
           /\ Len(Rounds(call[r])) \in Nat /\ at[r] <= Len(Rounds(call[r])) + 1
           /\ call[r] \in Replicates \cup Shards
           /\ \A i \in 1 .. at[r] - 1 : Tag(r, Base(r) + i) = Rounds(call[r])[i]
           /\ Group!Waits(r) =>
                /\ Len(asked[r]) = Len(done[r]) + 1 /\ at[r] <= Len(Rounds(call[r]))
                /\ Round(r) = Rounds(call[r])[at[r]] /\ Tag(r, Len(asked[r])) = Round(r)
           /\ ~Group!Waits(r) => Len(asked[r]) = Len(done[r])
<1>1. /\ RankInv(r) /\ Len(asked[r]) \in Nat /\ Len(done[r]) \in Nat
      /\ Len(done[r]) <= Len(asked[r]) /\ Len(asked[r]) <= Len(done[r]) + 1
  BY DEF GroupInv, CallInv, IsSeq
<1>2. call[r] \in Replicates \cup Shards /\ ~stopped[r] /\ at[r] \in Nat \ {0} /\ Base(r) \in Nat
  BY <1>1 DEF RankInv
<1>3. Base(r) + at[r] = Len(done[r]) + 1
  BY <1>1, <1>2 DEF Base
<1>4. Len(Rounds(call[r])) \in Nat
  BY <1>2, RoundsAre
<1>5. \A i \in 1 .. (Len(asked[r]) - Base(r)) :
        i <= Len(Rounds(call[r])) /\ Tag(r, Base(r) + i) = Rounds(call[r])[i]
  BY <1>1 DEF RankInv
<1>6. at[r] <= Len(Rounds(call[r])) + 1
  <2>1. CASE at[r] = 1 BY <1>4, <2>1
  <2>2. CASE at[r] # 1
    <3>1. at[r] - 1 \in 1 .. (Len(asked[r]) - Base(r))
      BY <1>1, <1>2, <1>3, <2>2
    <3> QED BY <1>2, <1>4, <1>5, <3>1
  <2> QED BY <2>1, <2>2
<1>7. \A i \in 1 .. at[r] - 1 : Tag(r, Base(r) + i) = Rounds(call[r])[i]
  <2>1. \A i \in 1 .. at[r] - 1 : i \in 1 .. (Len(asked[r]) - Base(r))
    BY <1>1, <1>2, <1>3
  <2> QED BY <1>5, <2>1
<1>8. ASSUME Group!Waits(r)
      PROVE  /\ Len(asked[r]) = Len(done[r]) + 1 /\ at[r] <= Len(Rounds(call[r]))
             /\ Round(r) = Rounds(call[r])[at[r]] /\ Tag(r, Len(asked[r])) = Round(r)
  <2>1. Len(asked[r]) = Len(done[r]) + 1
    BY <1>1, <1>8 DEF Group!Waits
  <2>2. at[r] \in 1 .. (Len(asked[r]) - Base(r)) /\ Base(r) + at[r] = Len(asked[r])
    BY <1>1, <1>2, <1>3, <2>1
  <2>3. at[r] <= Len(Rounds(call[r])) /\ Tag(r, Len(asked[r])) = Rounds(call[r])[at[r]]
    BY <1>5, <2>2
  <2> QED BY <2>1, <2>3 DEF Round
<1>9. ~Group!Waits(r) => Len(asked[r]) = Len(done[r])
  BY <1>1 DEF Group!Waits
<1> QED BY <1>1, <1>2, <1>3, <1>4, <1>6, <1>7, <1>8, <1>9

\* A rank that takes no part in a step stays where it is.
LEMMA UnmovedKeeps ==
    ASSUME NEW q, RankInv(q), kind' = kind, call'[q] = call[q], at'[q] = at[q],
           built'[q] = built[q], stopped'[q] = stopped[q], asked'[q] = asked[q], done'[q] = done[q]
    PROVE  RankInv(q)'
BY DEF RankInv, Base, Tag

\* A call begins with its first round.
LEMMA BeginKeeps == ASSUME GroupInv, CallInv, NEW r \in Ranks, NEW c, Begin(r, c) PROVE CallInv'
<1>1. /\ call' = [call EXCEPT ![r] = c] /\ at' = [at EXCEPT ![r] = 1] /\ call[r] = None
      /\ ~stopped[r] /\ c \in Offers(r)
      /\ kind' = kind /\ session' = session /\ built' = built
      /\ asked' = asked /\ done' = done /\ stopped' = stopped
  BY DEF Begin, group
<1>2. DOMAIN call = Ranks /\ DOMAIN at = Ranks /\ \A q \in Ranks : RankInv(q)
  BY DEF CallInv
<1>3. Len(done[r]) \in Nat /\ Len(asked[r]) = Len(done[r])
  BY <1>1, <1>2 DEF GroupInv, IsSeq, RankInv
<1>4. /\ c \in IF kind = "replicated" THEN Replicates ELSE Shards
      /\ c \in Builds <=> ~built[r]
  BY <1>1 DEF Offers, Replicates, Shards, Builds
<1>5. call'[r] = c /\ at'[r] = 1
  BY <1>1, <1>2
<1>6. Base(r)' = Len(done[r])
  BY <1>1, <1>3, <1>5 DEF Base
<1>7. RankInv(r)'
  <2>1. 1 .. (Len(asked'[r]) - Base(r)') = {}
    BY <1>1, <1>3, <1>6
  <2>2. built[r] \in BOOLEAN BY <1>2 DEF RankInv
  <2> QED BY <1>1, <1>3, <1>4, <1>5, <1>6, <2>1, <2>2 DEF RankInv
<1>8. ASSUME NEW q \in Ranks, q # r PROVE RankInv(q)'
  BY <1>1, <1>2, <1>8, UnmovedKeeps
<1> QED BY <1>1, <1>2, <1>7, <1>8 DEF CallInv

\* A rank asks for the round it has come to.
LEMMA WorkKeeps == ASSUME GroupInv, CallInv, NEW r \in Ranks, Work(r) PROVE CallInv'
<1>1. PICK ok : Group!Enter(r, [operation |-> Operation(Round(r)), ok |-> ok,
                                value |-> <<Round(r), Value(r)>>])
  BY DEF Work
<1> DEFINE req == [operation |-> Operation(Round(r)), ok |-> ok, value |-> <<Round(r), Value(r)>>]
<1>2. /\ call[r] # None /\ ~Group!Waits(r) /\ Round(r) # "end"
      /\ UNCHANGED <<kind, session, call, at, built>>
  BY DEF Work, Works
<1>3. done' = done /\ stopped' = stopped
  BY <1>1 DEF Group!Enter
<1>4. /\ DOMAIN asked' = Ranks /\ Len(asked[r]) = Len(done[r]) /\ Len(asked'[r]) = Len(asked[r]) + 1
      /\ asked'[r][Len(asked[r]) + 1] = req
      /\ \A q \in Ranks \ {r} : asked'[q] = asked[q]
      /\ \A n \in 1 .. Len(asked[r]) : asked'[r][n] = asked[r][n]
  BY <1>1, EnterAdds
<1>5. req.value[1] = Round(r)
  OBVIOUS
<1> HIDE DEF req
<1>6. /\ at[r] <= Len(Rounds(call[r])) /\ Round(r) = Rounds(call[r])[at[r]]
      /\ at[r] \in Nat \ {0} /\ Len(asked[r]) \in Nat /\ Base(r) \in Nat
      /\ Base(r) + at[r] = Len(asked[r]) + 1
  BY <1>2, <1>4, CallIs DEF Round
<1>7. RankInv(r) /\ \A q \in Ranks : RankInv(q)
  BY DEF CallInv
<1>8. ASSUME NEW i \in 1 .. (Len(asked'[r]) - Base(r))
      PROVE  i <= Len(Rounds(call[r])) /\ Tag(r, Base(r) + i)' = Rounds(call[r])[i]
  <2>1. CASE i = at[r]
    <3>1. asked'[r][Base(r) + i] = req
      BY <1>4, <1>6, <2>1
    <3>2. Tag(r, Base(r) + i)' = Round(r)
      BY <1>2, <1>3, <1>5, <3>1 DEF Tag, Base
    <3> QED BY <1>6, <2>1, <3>2
  <2>2. CASE i # at[r]
    <3>0. Len(asked'[r]) = Len(asked[r]) + 1
      BY ONLY <1>4
    <3>1. i \in 1 .. (Len(asked[r]) - Base(r)) /\ Base(r) + i \in 1 .. Len(asked[r])
      BY <1>6, <2>2, <3>0
    <3>2. i <= Len(Rounds(call[r])) /\ Tag(r, Base(r) + i) = Rounds(call[r])[i]
      BY <1>2, <1>7, <3>1 DEF RankInv
    <3>3. asked'[r][Base(r) + i] = asked[r][Base(r) + i]
      BY <1>4, <3>1
    <3> QED BY <1>2, <1>3, <3>2, <3>3 DEF Tag, Base
  <2> QED BY <2>1, <2>2
<1>9. RankInv(r)'
  <2>1. Base(r)' = Base(r)
    BY <1>2, <1>3 DEF Base
  <2> QED BY <1>2, <1>3, <1>7, <1>8, <2>1 DEF RankInv
<1>10. ASSUME NEW q \in Ranks, q # r PROVE RankInv(q)'
  BY <1>2, <1>3, <1>4, <1>7, <1>10, UnmovedKeeps
<1> QED BY <1>2, <1>9, <1>10 DEF CallInv

\* A rank goes on to the next round, or leaves when it dislikes what it got.
LEMMA ReceivesKeeps == ASSUME GroupInv, CallInv, NEW r \in Ranks, Receive(r) PROVE CallInv'
<1>1. PICK differ \in BOOLEAN :
        /\ stopped' = [stopped EXCEPT ![r] = differ]
        /\ call' = [call EXCEPT ![r] = IF differ THEN None ELSE call[r]]
  BY DEF Receive
<1>2. /\ call[r] # None /\ Group!Receive(r) /\ at' = [at EXCEPT ![r] = at[r] + 1]
      /\ UNCHANGED <<kind, session, built>>
  BY DEF Receive
<1>3. /\ Len(asked[r]) = Len(done[r]) + 1 /\ Len(done'[r]) = Len(done[r]) + 1 /\ asked' = asked
      /\ \A q \in Ranks \ {r} : done'[q] = done[q]
  BY <1>2, ReceiveAdds DEF Group!Receive
<1>4. Len(done[r]) \in Nat /\ at[r] \in Nat \ {0}
  BY <1>2, CallIs
<1>5. /\ DOMAIN call = Ranks /\ DOMAIN at = Ranks /\ DOMAIN stopped = Ranks /\ RankInv(r)
      /\ \A q \in Ranks : RankInv(q)
  BY DEF CallInv, GroupInv
<1>6. at'[r] = at[r] + 1 /\ stopped'[r] = differ /\ call'[r] = IF differ THEN None ELSE call[r]
  BY <1>1, <1>2, <1>5
<1>7. Base(r)' = Base(r)
  BY <1>3, <1>4, <1>6 DEF Base
<1>8. RankInv(r)'
  <2>1. built'[r] = built[r] /\ kind' = kind /\ \A n : Tag(r, n)' = Tag(r, n)
    BY <1>2, <1>3 DEF Tag
  <2>2. at'[r] \in Nat \ {0}
    BY <1>4, <1>6
  <2>3. CASE differ
    BY <1>5, <1>6, <2>1, <2>2, <2>3 DEF RankInv
  <2>4. CASE ~differ
    BY <1>2, <1>3, <1>5, <1>6, <1>7, <2>1, <2>2, <2>4 DEF RankInv
  <2> QED BY <2>3, <2>4
<1>9. ASSUME NEW q \in Ranks, q # r PROVE RankInv(q)'
  BY <1>1, <1>2, <1>3, <1>5, <1>9, UnmovedKeeps
<1> QED BY <1>1, <1>2, <1>5, <1>8, <1>9 DEF CallInv

\* A rank whose call is over is between calls, or has stopped.
LEMMA LeavesKeeps ==
    ASSUME GroupInv, CallInv, NEW r \in Ranks, Finish(r) \/ LeaveEarly(r) \/ Error(r) \/ Drop(r)
    PROVE  CallInv'
<1>1. /\ UNCHANGED <<kind, session, at, asked, done>>
      /\ DOMAIN call' = Ranks /\ call'[r] = None /\ \A q \in Ranks \ {r} : call'[q] = call[q]
      /\ built' \in {built, [built EXCEPT ![r] = TRUE]}
      /\ stopped' = [stopped EXCEPT ![r] = TRUE] \/ (stopped' = stopped /\ ~Group!Waits(r))
  <2>1. CASE Finish(r)     BY <2>1 DEF Finish, Works, group, CallInv
  <2>2. CASE LeaveEarly(r) BY <2>2 DEF LeaveEarly, Works, group, CallInv
  <2>3. CASE Error(r)      BY <2>3 DEF Error, Group!Stop, CallInv
  <2>4. CASE Drop(r)       BY <2>4 DEF Drop, Group!Stop, CallInv
  <2> QED BY <2>1, <2>2, <2>3, <2>4
<1>2. /\ DOMAIN call = Ranks /\ DOMAIN built = Ranks /\ DOMAIN stopped = Ranks /\ RankInv(r)
      /\ \A q \in Ranks : RankInv(q)
  BY DEF CallInv, GroupInv
<1>3. Len(asked[r]) \in Nat /\ Len(done[r]) \in Nat /\ Len(done[r]) <= Len(asked[r])
  BY DEF GroupInv, IsSeq
<1>4. call'[r] = None /\ built'[r] \in BOOLEAN
  BY <1>1, <1>2 DEF RankInv
<1>5. ~stopped'[r] => Len(asked'[r]) = Len(done'[r])
  BY <1>1, <1>2, <1>3 DEF Group!Waits
<1>6. RankInv(r)'
  BY <1>1, <1>2, <1>4, <1>5 DEF RankInv
<1>7. ASSUME NEW q \in Ranks, q # r PROVE RankInv(q)'
  BY <1>1, <1>2, <1>7, UnmovedKeeps
<1> QED BY <1>1, <1>2, <1>6, <1>7 DEF CallInv

\* Each rank stays inside its call.
LEMMA CallNext == ASSUME GroupInv, CallInv, Next PROVE CallInv'
<1>1. CASE NewSession
  <2>1. /\ kind' = kind /\ session' \in Nat
        /\ call' = call /\ at' = at /\ built' = [r \in Ranks |-> FALSE]
    BY <1>1 DEF NewSession, CallInv
  <2>2. \A r \in Ranks : asked'[r] = <<>> /\ done'[r] = <<>> /\ ~stopped'[r] /\ call[r] = None /\ ~built'[r]
    BY <1>1 DEF NewSession
  <2>3. ASSUME NEW r \in Ranks PROVE RankInv(r)'
    BY <2>1, <2>2 DEF RankInv, CallInv
  <2> QED BY <2>1, <2>3 DEF CallInv
<1> QED BY <1>1, BeginKeeps, WorkKeeps, ReceivesKeeps, LeavesKeeps DEF Next

-----------------------------------------------------------------------------
\* Where the rounds are

\* A round belongs to few calls, and is in few places of them.
LEMMA PlacesAre ==
    ASSUME NEW c \in Replicates \cup Shards, NEW i \in 1 .. Len(Rounds(c))
    PROVE  /\ Rounds(c)[i] = "valid" => c = "restore" /\ i = 1
           /\ Rounds(c)[i] = "capture" => c = "checkpoint" /\ i = 2
           /\ Rounds(c)[i] = "records" => (c = "restore" /\ i = 2) \/ (c = "checkpoint" /\ i = 3)
           /\ Rounds(c)[i] = "gradients" => c = "train_step" /\ i = Params + 7
           /\ Rounds(c)[i] = "reduce_scatter" => c = "train_step" /\ i \in Params + 8 .. 2 * Params + 7
           /\ Rounds(c)[i] = "mean_loss" => c = "train_step" /\ i = 2 * Params + 11
           /\ Rounds(c)[i] = "seed" => c = "train_step" /\ i = 2 * Params + 9
           /\ Rounds(c)[i] = "same_metadata" => c = "backward_step" /\ i = 12
           /\ Rounds(c)[i] = "all_reduce" => c = "backward_step" /\ i \in 13 .. Params + 12
           /\ Rounds(c)[i] = "copy" => c = "backward_step" /\ i = Params + 13
           /\ Rounds(c)[i] = "backward" => c = "backward_step" /\ i = 7
           /\ Rounds(c)[i] = "zero" => \/ c = "backward_step" /\ i = 6
                                       \/ c = "train_step" /\ i = 2 * Params + 8
           /\ Rounds(c)[i] = "step" => \/ c = "backward_step" /\ i = Params + 14
                                       \/ c = "train_step" /\ i = 2 * Params + 10
           /\ Rounds(c)[i] = "built" => c = "new" /\ i = Params + 3
           /\ Rounds(c)[i] = "broadcast" => c \in {"construct", "new"} /\ i \in 3 .. Params + 2
           /\ Rounds(c)[i] # "end"
<1>0. Params \in Nat \ {0} BY ConstantsAre
<1>1. CASE c = "construct"
  <2>1. Rounds(c) = Construct BY <1>1 DEF Rounds
  <2>2. i = 1 \/ i = 2 \/ i \in 3 .. Params + 2
    BY <1>0, <2>1, ConstructIs
  <2> QED BY <1>1, <2>1, <2>2, ConstructIs
<1>2. CASE c = "new"
  <2>1. \/ i = 1 \/ i = 2 \/ i \in 3 .. Params + 2 \/ i = Params + 3
        \/ i = Params + 4 \/ i = Params + 5 \/ i = Params + 6
    BY <1>0, <1>2, NewIs
  <2> QED BY <1>0, <1>2, <2>1, NewIs
<1>3. CASE c = "backward_step"
  <2>1. i \in 1 .. 12 \/ i \in 13 .. Params + 12 \/ i = Params + 13 \/ i = Params + 14
    BY <1>0, <1>3, BackwardIs
  <2>2. CASE i \in 1 .. 12
    <3>1. \/ i = 1 \/ i = 2 \/ i = 3 \/ i = 4 \/ i = 5 \/ i = 6
          \/ i = 7 \/ i = 8 \/ i = 9 \/ i = 10 \/ i = 11 \/ i = 12
      BY <2>2
    <3> QED BY <1>3, <3>1, BackwardIs
  <2> QED BY <1>0, <1>3, <2>1, <2>2, BackwardIs
<1>4. CASE c = "train_step"
  <2>1. \/ i = 1 \/ i = 2 \/ i = 3 \/ i = 4 \/ i \in 5 .. Params + 4 \/ i = Params + 5
        \/ i = Params + 6 \/ i = Params + 7 \/ i \in Params + 8 .. 2 * Params + 7
        \/ i = 2 * Params + 8 \/ i = 2 * Params + 9 \/ i = 2 * Params + 10 \/ i = 2 * Params + 11
    BY <1>0, <1>4, TrainIs
  <2> QED BY <1>4, <2>1, TrainIs
<1>5. CASE c = "checkpoint"
  <2>0. i \in 1 .. 5
    BY <1>5, CheckpointIs
  <2>1. i = 1 \/ i = 2 \/ i = 3 \/ i = 4 \/ i = 5
    BY ONLY <2>0
  <2> QED BY <1>5, <2>1, CheckpointIs
<1>6. CASE c = "restore"
  <2>0. i \in 1 .. 10
    BY <1>6, RestoreIs
  <2>1. \/ i = 1 \/ i = 2 \/ i = 3 \/ i = 4 \/ i = 5
        \/ i = 6 \/ i = 7 \/ i = 8 \/ i = 9 \/ i = 10
    BY ONLY <2>0
  <2> QED BY <1>6, <2>1, RestoreIs
<1> QED BY <1>1, <1>2, <1>3, <1>4, <1>5, <1>6 DEF Replicates, Shards

-----------------------------------------------------------------------------
\* Restores

\* Everybody once sent a record of the capture s in one and the same collective
Established(s) ==
    \E n \in Nat : \A q \in Ranks :
        n \in 1 .. Len(asked[q]) /\ Tag(q, n) = "records" /\ What(q, n).stamp = s

\* The rank has, in its hand, what everyone sent, its own record among it
Gathered(r) ==
    \E n \in 1 .. Len(done[r]) :
        /\ \A q \in Ranks :
            n \in 1 .. Len(asked[q]) /\ hand[r][q][1] = Tag(q, n) /\ hand[r][q][2] = What(q, n)
        /\ What(r, n) = record[r]

Decoded(r) == \A q \in Ranks : hand[r][q][1] = "records"

\* What the rank supplies to the collective it waits for
Asking(r) == Group!Waits(r) /\ asked[r][Len(asked[r])].ok

\* A kept record is of an earlier session until the trainer exists
KeptInv(r) ==
    /\ saved[r] # Nothing => /\ saved[r].stamp[1] \in Nat /\ saved[r].stamp[1] <= session
                             /\ ~built[r] => saved[r].stamp[1] < session
    /\ origin[r] # <<>> => /\ built[r] /\ Established(origin[r])
                           /\ origin[r][1] \in Nat /\ origin[r][1] < session
    /\ \A n \in 1 .. Len(asked[r]) : Tag(r, n) = "records" =>
        \/ What(r, n).stamp[1] = session
        \/ /\ ~built[r] => What(r, n) = saved[r]
           /\ origin[r] # <<>> => What(r, n).stamp = origin[r]

\* How far a restore has come, and a checkpoint
RestoringInv(r) ==
    call[r] = "restore" =>
        /\ saved[r] # Nothing
        /\ at[r] >= 2 \/ Group!Waits(r) => record[r] = saved[r]
        /\ at[r] = 2 /\ Group!Waits(r) => What(r, Len(asked[r])) = record[r]
        /\ at[r] \in {3, 4} => Gathered(r)
        /\ (at[r] = 3 /\ Asking(r)) \/ at[r] = 4 => Decoded(r)
        /\ at[r] = 4 /\ Asking(r) => OneCapture(hand[r])
        /\ at[r] >= 5 => Established(record[r].stamp)

CapturingInv(r) ==
    call[r] = "checkpoint" =>
        /\ at[r] >= 3 \/ (at[r] = 2 /\ Group!Waits(r)) => record[r].stamp[1] = session
        /\ at[r] = 3 /\ Group!Waits(r) => What(r, Len(asked[r])) = record[r]
        /\ at[r] >= 4 => hand[r][r][2] = record[r]

RestoreInv ==
    /\ DOMAIN hand = Ranks /\ DOMAIN record = Ranks /\ DOMAIN saved = Ranks
    /\ DOMAIN origin = Ranks
    /\ \A r \in Ranks : KeptInv(r) /\ RestoringInv(r) /\ CapturingInv(r)

\* The trainers of one session come from one capture.
LEMMA RestoreIsOne == ASSUME GroupInv, RestoreInv PROVE RestoresOneCapture
<1> SUFFICES ASSUME NEW r \in Ranks, NEW q \in Ranks, origin[r] # <<>>, origin[q] # <<>>
             PROVE  origin[r] = origin[q]
  BY DEF RestoresOneCapture
<1>1. KeptInv(r) /\ KeptInv(q)
  BY DEF RestoreInv
<1>2. PICK n \in 1 .. Len(asked[q]) : Tag(q, n) = "records" /\ What(q, n).stamp = origin[r]
  BY <1>1 DEF KeptInv, Established
<1>3. origin[r][1] \in Nat /\ origin[r][1] # session
  BY <1>1 DEF KeptInv
<1> QED BY <1>1, <1>2, <1>3 DEF KeptInv

\* Requests are added, and none is changed
Grows == \A q \in Ranks : \A n \in 1 .. Len(asked[q]) :
            asked'[q][n] = asked[q][n] /\ n \in 1 .. Len(asked'[q])

\* Within a session requests are only added.
LEMMA SessionGrows == ASSUME GroupInv, Next, ~NewSession PROVE Grows
<1>1. ASSUME NEW r \in Ranks, Work(r) PROVE Grows
  <2>1. PICK req : Group!Enter(r, req)
    BY <1>1 DEF Work
  <2> QED BY <2>1, EnterAdds DEF Grows
<1>2. asked' = asked => Grows
  BY DEF Grows
<1>3. ASSUME NEW r \in Ranks, NEW c, Begin(r, c) PROVE Grows
  BY <1>2, <1>3 DEF Begin, group
<1>4. ASSUME NEW r \in Ranks, Receive(r) PROVE Grows
  BY <1>2, <1>4 DEF Receive, Group!Receive
<1>5. ASSUME NEW r \in Ranks, Finish(r) \/ LeaveEarly(r) \/ Error(r) \/ Drop(r) PROVE Grows
  BY <1>2, <1>5 DEF Finish, LeaveEarly, Error, Drop, group, Group!Stop
<1> QED BY <1>1, <1>3, <1>4, <1>5 DEF Next

\* What is established stays so.
LEMMA EstablishedStays == ASSUME Grows, NEW s, Established(s) PROVE Established(s)'
<1>1. PICK n \in Nat : \A q \in Ranks :
        n \in 1 .. Len(asked[q]) /\ Tag(q, n) = "records" /\ What(q, n).stamp = s
  BY DEF Established
<1>2. \A q \in Ranks : n \in 1 .. Len(asked'[q]) /\ asked'[q][n] = asked[q][n]
  BY <1>1 DEF Grows
<1> QED BY <1>1, <1>2 DEF Established, Tag, What

\* What is gathered stays so.
LEMMA GatheredStays ==
    ASSUME Grows, NEW r \in Ranks, Gathered(r), hand'[r] = hand[r], record'[r] = record[r],
           1 .. Len(done[r]) \subseteq 1 .. Len(done'[r])
    PROVE  Gathered(r)'
<1>1. PICK n \in 1 .. Len(done[r]) :
        /\ \A q \in Ranks :
            n \in 1 .. Len(asked[q]) /\ hand[r][q][1] = Tag(q, n) /\ hand[r][q][2] = What(q, n)
        /\ What(r, n) = record[r]
  BY DEF Gathered
<1>2. \A q \in Ranks : n \in 1 .. Len(asked'[q]) /\ asked'[q][n] = asked[q][n]
  BY <1>1 DEF Grows
<1>3. /\ \A q \in Ranks : n \in 1 .. Len(asked'[q]) /\ hand'[r][q][1] = Tag(q, n)' /\ hand'[r][q][2] = What(q, n)'
      /\ What(r, n)' = record'[r]
  BY <1>1, <1>2 DEF Tag, What
<1>4. n \in 1 .. Len(done'[r])
  BY <1>1
<1> QED BY <1>3, <1>4 DEF Gathered

\* What is known of a rank that takes no part in a step stays known.
LEMMA RestoreUnmoved ==
    ASSUME RestoreInv, Grows, NEW q \in Ranks, session' = session,
           call'[q] = call[q], at'[q] = at[q], built'[q] = built[q], saved'[q] = saved[q],
           origin'[q] = origin[q], record'[q] = record[q], hand'[q] = hand[q],
           asked'[q] = asked[q], done'[q] = done[q]
    PROVE  KeptInv(q)' /\ RestoringInv(q)' /\ CapturingInv(q)'
<1>1. KeptInv(q) /\ RestoringInv(q) /\ CapturingInv(q)
  BY DEF RestoreInv
<1>2. /\ Group!Waits(q)' <=> Group!Waits(q)
      /\ Asking(q)' <=> Asking(q)
      /\ Decoded(q)' <=> Decoded(q)
      /\ \A n : Tag(q, n)' = Tag(q, n) /\ What(q, n)' = What(q, n)
  BY DEF Group!Waits, Asking, Decoded, Tag, What
<1>3. KeptInv(q)'
  BY <1>1, <1>2, EstablishedStays DEF KeptInv
<1>4. RestoringInv(q)'
  BY <1>1, <1>2, EstablishedStays, GatheredStays DEF RestoringInv, OneCapture
<1>5. CapturingInv(q)'
  BY <1>1, <1>2 DEF CapturingInv
<1> QED BY <1>3, <1>4, <1>5

\* A call begins with what was kept.
LEMMA RestoreBegins ==
    ASSUME GroupInv, CallInv, RestoreInv, Grows, NEW r \in Ranks, NEW c, Begin(r, c)
    PROVE  RestoreInv'
<1>1. /\ call' = [call EXCEPT ![r] = c] /\ at' = [at EXCEPT ![r] = 1] /\ call[r] = None
      /\ ~stopped[r] /\ c \in Offers(r)
      /\ UNCHANGED <<session, built, asked, done, hand, record, saved, origin>>
  BY DEF Begin, group, state
<1>2. DOMAIN call = Ranks /\ DOMAIN at = Ranks
  BY DEF CallInv
<1>3. call'[r] = c /\ at'[r] = 1 /\ ~Group!Waits(r)'
  BY <1>1, <1>2 DEF CallInv, RankInv, Group!Waits, GroupInv, IsSeq
<1>4. KeptInv(r)'
  BY <1>1, EstablishedStays DEF RestoreInv, KeptInv, Tag, What
<1>5. RestoringInv(r)'
  <2>1. c = "restore" => saved[r] # Nothing
    BY <1>1 DEF Offers
  <2> QED BY <1>1, <1>3, <2>1 DEF RestoringInv, Asking
<1>6. CapturingInv(r)'
  BY <1>1, <1>3 DEF CapturingInv
<1>7. ASSUME NEW q \in Ranks, q # r PROVE KeptInv(q)' /\ RestoringInv(q)' /\ CapturingInv(q)'
  BY <1>1, <1>2, <1>7, RestoreUnmoved
<1> QED BY <1>1, <1>4, <1>5, <1>6, <1>7 DEF RestoreInv

\* A call that is over without a result leaves what was kept.
LEMMA RestoreLeaves ==
    ASSUME GroupInv, CallInv, RestoreInv, Grows, NEW r \in Ranks,
           LeaveEarly(r) \/ Error(r) \/ Drop(r)
    PROVE  RestoreInv'
<1>1. /\ call'[r] = None /\ \A q \in Ranks \ {r} : call'[q] = call[q]
      /\ UNCHANGED <<session, at, built, asked, done, hand, record, saved, origin>>
  BY DEF LeaveEarly, Error, Drop, group, state, Group!Stop, CallInv
<1>2. KeptInv(r)'
  BY <1>1, EstablishedStays DEF RestoreInv, KeptInv, Tag, What
<1>3. RestoringInv(r)' /\ CapturingInv(r)'
  BY <1>1 DEF RestoringInv, CapturingInv, None
<1>4. ASSUME NEW q \in Ranks, q # r PROVE KeptInv(q)' /\ RestoringInv(q)' /\ CapturingInv(q)'
  BY <1>1, <1>4, RestoreUnmoved
<1> QED BY <1>1, <1>2, <1>3, <1>4 DEF RestoreInv

\* A new session has restored nothing, and what was kept is now old.
LEMMA RestoreRenews == ASSUME GroupInv, CallInv, RestoreInv, NewSession PROVE RestoreInv'
<1>1. /\ session' = session + 1 /\ session \in Nat /\ UNCHANGED <<call, at, hand, record, saved>>
      /\ origin' = [r \in Ranks |-> <<>>]
  BY DEF NewSession, CallInv
<1>2. ASSUME NEW r \in Ranks
      PROVE  /\ KeptInv(r) /\ asked'[r] = <<>> /\ ~built'[r] /\ call[r] = None /\ origin'[r] = <<>>
  BY DEF NewSession, RestoreInv
<1>3. ASSUME NEW r \in Ranks PROVE KeptInv(r)' /\ RestoringInv(r)' /\ CapturingInv(r)'
  <2>1. 1 .. Len(asked'[r]) = {}
    BY <1>2, EmptyIs
  <2>2. KeptInv(r)'
    BY <1>1, <1>2, <2>1 DEF KeptInv
  <2>3. RestoringInv(r)' /\ CapturingInv(r)'
    BY <1>1, <1>2 DEF RestoringInv, CapturingInv, None
  <2> QED BY <2>2, <2>3
<1> QED BY <1>1, <1>3 DEF RestoreInv

\* A call at its end has made all its rounds.
LEMMA EndIs ==
    ASSUME GroupInv, CallInv, NEW r \in Ranks, call[r] # None
    PROVE  /\ Round(r) = "end" => at[r] = Len(Rounds(call[r])) + 1
           /\ Round(r) # "end" => at[r] \in 1 .. Len(Rounds(call[r])) /\ Round(r) = Rounds(call[r])[at[r]]
<1>1. /\ at[r] \in Nat \ {0} /\ Len(Rounds(call[r])) \in Nat /\ at[r] <= Len(Rounds(call[r])) + 1
      /\ call[r] \in Replicates \cup Shards
  BY CallIs
<1>2. CASE at[r] <= Len(Rounds(call[r]))
  <2>1. at[r] \in 1 .. Len(Rounds(call[r])) /\ Round(r) = Rounds(call[r])[at[r]]
    BY <1>1, <1>2 DEF Round
  <2>2. Round(r) # "end"
    BY <1>1, <2>1, PlacesAre
  <2> QED BY <2>1, <2>2
<1>3. CASE ~(at[r] <= Len(Rounds(call[r])))
  BY <1>1, <1>3 DEF Round
<1> QED BY <1>2, <1>3

\* A restored trainer has the record that everyone sent; a checkpoint is kept.
LEMMA RestoreFinishes ==
    ASSUME GroupInv, CallInv, RestoreInv, Grows, NEW r \in Ranks, Finish(r)
    PROVE  RestoreInv'
<1>1. /\ call[r] # None /\ Round(r) = "end" /\ call' = [call EXCEPT ![r] = None]
      /\ built' = [built EXCEPT ![r] = TRUE]
      /\ UNCHANGED <<session, at, asked, done, hand, record>>
  BY DEF Finish, Works, group
<1>2. /\ DOMAIN call = Ranks /\ DOMAIN built = Ranks /\ DOMAIN saved = Ranks /\ DOMAIN origin = Ranks
      /\ KeptInv(r) /\ RestoringInv(r) /\ CapturingInv(r) /\ RankInv(r) /\ session \in Nat
  BY DEF CallInv, RestoreInv
<1>3. call'[r] = None /\ built'[r]
  BY <1>1, <1>2
<1>4. at[r] = Len(Rounds(call[r])) + 1
  BY <1>1, EndIs
<1>5. /\ saved' = IF call[r] = "checkpoint" THEN [saved EXCEPT ![r] = hand[r][r][2]] ELSE saved
      /\ origin' = IF call[r] = "restore" THEN [origin EXCEPT ![r] = record[r].stamp] ELSE origin
  BY DEF Finish
<1>6. \A s : Established(s) => Established(s)'
  BY EstablishedStays
<1>7. KeptInv(r)'
  <2>1. CASE call[r] = "restore"
    <3>1. Len(Rounds(call[r])) = 10 BY <2>1, RestoreIs
    <3>2. at[r] = 11 BY <1>4, <3>1
    <3>3. /\ record[r] = saved[r] /\ saved[r] # Nothing /\ Established(record[r].stamp)
          /\ ~built[r]
      BY <1>1, <1>2, <2>1, <3>2 DEF RestoringInv, RankInv, Builds
    <3>4. origin'[r] = saved[r].stamp /\ saved' = saved
      BY <1>2, <1>5, <2>1, <3>3
    <3> QED BY <1>1, <1>2, <1>3, <1>6, <3>3, <3>4 DEF KeptInv, Tag, What
  <2>2. CASE call[r] = "checkpoint"
    <3>1. Len(Rounds(call[r])) = 5 BY <2>2, CheckpointIs
    <3>2. at[r] = 6 BY <1>4, <3>1
    <3>3. hand[r][r][2] = record[r] /\ record[r].stamp[1] = session /\ built[r]
      BY <1>1, <1>2, <2>2, <3>2 DEF CapturingInv, RankInv, Builds
    <3>4. saved'[r] = record[r] /\ origin' = origin
      BY <1>2, <1>5, <2>2, <3>3
    <3> QED BY <1>1, <1>2, <1>3, <1>6, <3>3, <3>4 DEF KeptInv, Tag, What
  <2>3. CASE call[r] \notin {"restore", "checkpoint"}
    BY <1>1, <1>2, <1>3, <1>5, <1>6, <2>3 DEF KeptInv, Tag, What
  <2> QED BY <2>1, <2>2, <2>3
<1>8. RestoringInv(r)' /\ CapturingInv(r)'
  BY <1>3 DEF RestoringInv, CapturingInv, None
<1>9. ASSUME NEW q \in Ranks, q # r PROVE KeptInv(q)' /\ RestoringInv(q)' /\ CapturingInv(q)'
  BY <1>1, <1>2, <1>5, <1>9, RestoreUnmoved
<1> QED BY <1>1, <1>2, <1>5, <1>7, <1>8, <1>9 DEF RestoreInv

\* What a rank takes from a collective that is not a barrier.
LEMMA GotIs ==
    ASSUME GroupInv, CallInv, NEW r \in Ranks, Receive(r), DOMAIN hand = Ranks
    PROVE  /\ Operation(Round(r)) = "Barrier" => hand' = hand
           /\ Operation(Round(r)) # "Barrier" =>
                hand' = [hand EXCEPT ![r] = Outcome(Group!Requests(Len(asked[r])), r)]
           /\ Op(r, Len(asked[r])) = Operation(Round(r)) /\ Len(asked[r]) = Len(done[r]) + 1
           /\ asked[r][Len(asked[r])].ok
           /\ \A q \in Ranks : Len(asked[r]) \in 1 .. Len(asked[q])
           /\ \A q \in Ranks : Op(q, Len(asked[r])) = Op(r, Len(asked[r]))
           /\ \A q \in Ranks : asked[q][Len(asked[r])].ok
<1> DEFINE n == Len(asked[r])
<1>1. /\ call[r] # None /\ Group!Waits(r) /\ Group!Receive(r)
  BY DEF Receive, Group!Receive
<1>2. n = Len(done[r]) + 1 /\ n \in Nat /\ Len(done[r]) \in Nat /\ Tag(r, n) = Round(r)
  BY <1>1, CallIs
<1>3. Group!Made(n) /\ Accepts(Group!Requests(n))
  BY <1>1, <1>2 DEF Group!Receive
<1>4. /\ \A q \in Ranks : n \in 1 .. Len(asked[q]) /\ asked[q][n].ok
      /\ \A q \in Ranks : Op(q, n) = Op(r, n)
  <2>1. \A q \in Ranks : Len(asked[q]) \in Nat BY DEF GroupInv, IsSeq
  <2> QED BY <1>2, <1>3, <2>1, ConstantsAre DEF Group!Made, Group!Requests, Accepts, Op
<1>5. Last(done'[r]) = Outcome(Group!Requests(n), r)
  BY <1>1, <1>2, ReceiveAdds DEF Last
<1>6. Op(r, n) = Operation(Round(r))
  BY <1>2, <1>4 DEF GroupInv
<1> HIDE DEF n
<1>7. hand' = IF Operation(Round(r)) = "Barrier" THEN hand
              ELSE [hand EXCEPT ![r] = Outcome(Group!Requests(n), r)]
  BY <1>5 DEF Receive
<1> QED BY <1>2, <1>4, <1>6, <1>7 DEF n

\* What the work of a restore and of a checkpoint prepares.
LEMMA RestoreWorks ==
    ASSUME GroupInv, CallInv, RestoreInv, Grows, NEW r \in Ranks, Work(r)
    PROVE  RestoreInv'
<1>1. PICK fails \in BOOLEAN :
        LET ok == Succeeds(r) /\ ~fails
        IN  /\ LocalWork(r, ok)
            /\ Group!Enter(r, [operation |-> Operation(Round(r)), ok |-> ok,
                               value |-> <<Round(r), Value(r)>>])
  BY DEF Work
<1> DEFINE ok == Succeeds(r) /\ ~fails
           req == [operation |-> Operation(Round(r)), ok |-> ok, value |-> <<Round(r), Value(r)>>]
<1>2. /\ call[r] # None /\ ~Group!Waits(r) /\ Round(r) # "end"
      /\ UNCHANGED <<session, call, at, built, saved, origin>>
  BY DEF Work, Works
<1>3. /\ at[r] \in 1 .. Len(Rounds(call[r])) /\ Round(r) = Rounds(call[r])[at[r]]
      /\ call[r] \in Replicates \cup Shards /\ at[r] \in Nat
  BY <1>2, EndIs, CallIs
<1>4. /\ done' = done /\ Len(asked'[r]) = Len(asked[r]) + 1 /\ asked'[r][Len(asked[r]) + 1] = req
      /\ \A q \in Ranks \ {r} : asked'[q] = asked[q]
      /\ \A n \in 1 .. Len(asked[r]) : asked'[r][n] = asked[r][n]
      /\ Len(asked[r]) = Len(done[r]) /\ Len(asked[r]) \in Nat
  BY <1>1, EnterAdds DEF Group!Enter, GroupInv, IsSeq
<1>5. req.value[1] = Round(r) /\ req.value[2] = Value(r) /\ req.ok = ok
  OBVIOUS
<1> HIDE DEF req
<1>6. PICK m \in Nat : m = Len(asked[r]) + 1
  BY <1>4
<1>7. /\ Group!Waits(r)' /\ Tag(r, m)' = Round(r) /\ What(r, m)' = Value(r)
      /\ Len(asked'[r]) = m /\ asked'[r][m].ok = ok
  BY <1>6, <1>4, <1>5 DEF Group!Waits, Tag, What
<1>8. /\ KeptInv(r) /\ RestoringInv(r) /\ CapturingInv(r) /\ RankInv(r) /\ session \in Nat
      /\ DOMAIN hand = Ranks /\ DOMAIN record = Ranks
  BY DEF CallInv, RestoreInv
<1>9. /\ hand' = IF Round(r) = "gradients" THEN [hand EXCEPT ![r] = IF ok THEN Own(r) ELSE {}] ELSE hand
      /\ record' = CASE Round(r) = "capture" -> [record EXCEPT ![r] =
                             [stamp |-> <<session, Len(done[r])>>, weights |-> weights[r], moments |-> moments[r]]]
                     [] Round(r) = "valid" -> [record EXCEPT ![r] = saved[r]]
                     [] OTHER -> record
  BY <1>1 DEF LocalWork
<1>10. \A s : Established(s) => Established(s)'
  BY EstablishedStays
<1>11. KeptInv(r)'
  <2>1. ASSUME NEW n \in 1 .. Len(asked'[r]), Tag(r, n)' = "records"
        PROVE  \/ What(r, n)'.stamp[1] = session
               \/ /\ ~built[r] => What(r, n)' = saved[r]
                  /\ origin[r] # <<>> => What(r, n)'.stamp = origin[r]
    <3>1. CASE n \in 1 .. Len(asked[r])
      BY <1>4, <1>8, <2>1, <3>1 DEF KeptInv, Tag, What
    <3>2. CASE n = m
      <4>1. Round(r) = "records" /\ What(r, n)' = record[r]
        BY <1>7, <2>1, <3>2 DEF Value
      <4>2. (call[r] = "restore" /\ at[r] = 2) \/ (call[r] = "checkpoint" /\ at[r] = 3)
        BY <1>3, <4>1, PlacesAre
      <4>3. CASE call[r] = "restore" /\ at[r] = 2
        BY <1>2, <1>8, <4>1, <4>3 DEF RestoringInv, KeptInv, RankInv, Builds
      <4>4. CASE call[r] = "checkpoint" /\ at[r] = 3
        BY <1>8, <4>1, <4>4 DEF CapturingInv
      <4> QED BY <4>2, <4>3, <4>4
    <3> QED BY <1>6, <1>4, <3>1, <3>2
  <2> QED BY <1>2, <1>8, <1>10, <2>1 DEF KeptInv
<1>12. RestoringInv(r)'
  <2> SUFFICES ASSUME call[r] = "restore" PROVE RestoringInv(r)'
    BY <1>2 DEF RestoringInv
  <2>1. /\ hand' = hand /\ at[r] \in 1 .. 10
        /\ at[r] # 1 => record' = record
        /\ at[r] = 1 => Round(r) = "valid"
        /\ at[r] = 2 => Round(r) = "records"
        /\ at[r] = 3 => Round(r) = "decode"
        /\ at[r] = 4 => Round(r) = "consolidate"
    <3>1. Len(Rounds(call[r])) = 10 BY RestoreIs
    <3>2. Round(r) # "gradients" /\ Round(r) # "capture" /\ (Round(r) = "valid" => at[r] = 1)
      BY <1>3, PlacesAre
    <3>3. at[r] = 1 => Round(r) = "valid" BY <1>3, RestoreIs
    <3>4. at[r] = 2 => Round(r) = "records" BY <1>3, RestoreIs
    <3>5. at[r] = 3 => Round(r) = "decode" BY <1>3, RestoreIs
    <3>6. at[r] = 4 => Round(r) = "consolidate" BY <1>3, RestoreIs
    <3> QED BY <1>3, <1>9, <3>1, <3>2, <3>3, <3>4, <3>5, <3>6
  <2>2. saved[r] # Nothing
    BY <1>8 DEF RestoringInv
  <2>3. record'[r] = saved[r]
    <3>1. CASE at[r] = 1
      <4>1. record' = [record EXCEPT ![r] = saved[r]]
        BY <1>9, <2>1, <3>1
      <4> QED BY <1>8, <4>1
    <3>2. CASE at[r] # 1
      BY <1>3, <1>8, <2>1, <3>2 DEF RestoringInv
    <3> QED BY <3>1, <3>2
  <2>4. at[r] = 2 => asked'[r][m].value[2] = record'[r]
    BY <1>7, <2>1 DEF Value, What
  <2>5. at[r] \in {3, 4} => Gathered(r)'
    BY <1>4, <1>8, <2>1, GatheredStays DEF RestoringInv
  <2>6. Asking(r)' <=> ok
    BY <1>7 DEF Asking
  <2>7. (at[r] = 3 /\ ok) \/ at[r] = 4 => Decoded(r)'
    BY <1>8, <2>1 DEF RestoringInv, Decoded, Succeeds
  <2>8. at[r] = 4 /\ ok => OneCapture(hand[r])
    BY <2>1 DEF Succeeds
  <2>9. at[r] >= 5 => Established(record[r].stamp)' /\ record' = record
    BY <1>8, <1>10, <2>1 DEF RestoringInv
  <2> HIDE DEF ok
  <2> QED
    BY <1>2, <1>7, <2>1, <2>2, <2>3, <2>4, <2>5, <2>6, <2>7, <2>8, <2>9 DEF RestoringInv, OneCapture, What
<1>13. CapturingInv(r)'
  <2> SUFFICES ASSUME call[r] = "checkpoint" PROVE CapturingInv(r)'
    BY <1>2 DEF CapturingInv
  <2>1. /\ hand' = hand /\ at[r] \in 1 .. 5
        /\ at[r] # 2 => record' = record
        /\ at[r] = 2 => Round(r) = "capture"
        /\ at[r] = 3 => Round(r) = "records"
    <3>1. Len(Rounds(call[r])) = 5 BY CheckpointIs
    <3>2. Round(r) # "gradients" /\ Round(r) # "valid" /\ (Round(r) = "capture" => at[r] = 2)
      BY <1>3, PlacesAre
    <3>3. at[r] = 2 => Round(r) = "capture" BY <1>3, CheckpointIs
    <3>4. at[r] = 3 => Round(r) = "records" BY <1>3, CheckpointIs
    <3> QED BY <1>3, <1>9, <3>1, <3>2, <3>3, <3>4
  <2>2. at[r] = 2 => record'[r].stamp[1] = session
    <3>1. ASSUME at[r] = 2 PROVE record'[r].stamp = <<session, Len(done[r])>>
      BY <1>8, <1>9, <2>1, <3>1
    <3> QED BY <3>1
  <2>3. at[r] >= 3 => record'[r].stamp[1] = session
    BY <1>3, <1>8, <2>1 DEF CapturingInv
  <2>4. at[r] = 3 => asked'[r][m].value[2] = record'[r]
    BY <1>7, <2>1 DEF Value, What
  <2>5. at[r] >= 4 => hand'[r][r][2] = record'[r]
    BY <1>3, <1>8, <2>1 DEF CapturingInv
  <2> QED BY <1>2, <1>7, <2>2, <2>3, <2>4, <2>5 DEF CapturingInv, What
<1>14. ASSUME NEW q \in Ranks, q # r PROVE KeptInv(q)' /\ RestoringInv(q)' /\ CapturingInv(q)'
  <2>1. hand'[q] = hand[q] /\ record'[q] = record[q]
    BY <1>8, <1>9, <1>14
  <2> QED BY <1>2, <1>4, <1>14, <2>1, RestoreUnmoved
<1>15. DOMAIN hand' = Ranks /\ DOMAIN record' = Ranks
  BY <1>8, <1>9
<1> QED BY <1>2, <1>11, <1>12, <1>13, <1>14, <1>15 DEF RestoreInv

\* What a restore and a checkpoint take from the group.
LEMMA RestoreReceives ==
    ASSUME GroupInv, CallInv, RestoreInv, Grows, NEW r \in Ranks, Receive(r)
    PROVE  RestoreInv'
<1>1. /\ call[r] # None /\ Group!Waits(r) /\ Group!Receive(r)
      /\ at' = [at EXCEPT ![r] = at[r] + 1] /\ asked' = asked
      /\ call'[r] \in {None, call[r]} /\ \A q \in Ranks \ {r} : call'[q] = call[q]
      /\ UNCHANGED <<session, built, record, saved, origin>>
  BY DEF Receive, Group!Receive, CallInv
<1>2. /\ at[r] \in Nat \ {0} /\ Len(asked[r]) = Len(done[r]) + 1 /\ Len(done[r]) \in Nat
      /\ at[r] \in 1 .. Len(Rounds(call[r])) /\ Round(r) = Rounds(call[r])[at[r]]
      /\ call[r] \in Replicates \cup Shards /\ Tag(r, Len(asked[r])) = Round(r)
  BY <1>1, CallIs
<1>3. /\ Len(done'[r]) = Len(done[r]) + 1 /\ \A q \in Ranks \ {r} : done'[q] = done[q]
  BY <1>1, ReceiveAdds
<1>4. /\ DOMAIN at = Ranks /\ DOMAIN hand = Ranks
      /\ KeptInv(r) /\ RestoringInv(r) /\ CapturingInv(r)
  BY DEF CallInv, RestoreInv
<1>5. at'[r] = at[r] + 1 /\ ~Group!Waits(r)' /\ \A q \in Ranks \ {r} : at'[q] = at[q]
  BY <1>1, <1>2, <1>3, <1>4 DEF Group!Waits
<1>6. PICK m \in Nat : m = Len(asked[r])
  BY <1>2
<1>7. /\ Operation(Round(r)) = "Barrier" => hand' = hand
      /\ Operation(Round(r)) # "Barrier" => hand' = [hand EXCEPT ![r] = Outcome(Group!Requests(m), r)]
      /\ asked[r][m].ok /\ \A q \in Ranks : m \in 1 .. Len(asked[q]) /\ Op(q, m) = Operation(Round(r))
  BY <1>4, <1>6, GotIs
<1>8. \A s : Established(s) => Established(s)'
  BY EstablishedStays
<1>9. Operation(Round(r)) = "Bytes" =>
        hand' = [hand EXCEPT ![r] = [q \in Ranks |-> asked[q][m].value]]
  <2>1. SUFFICES ASSUME Operation(Round(r)) = "Bytes"
                 PROVE  Outcome(Group!Requests(m), r) = [q \in Ranks |-> asked[q][m].value]
    BY <1>7
  <2>2. Group!Requests(m)[0].operation = "Bytes"
    BY <1>7, <2>1, ConstantsAre DEF Group!Requests, Op
  <2>3. \A q \in Ranks : Group!Requests(m)[q].value = asked[q][m].value
    BY DEF Group!Requests
  <2> QED BY <2>2, <2>3 DEF Outcome
<1>10. KeptInv(r)'
  BY <1>1, <1>4, <1>8 DEF KeptInv, Tag, What
<1>11. RestoringInv(r)'
  <2> SUFFICES ASSUME call[r] = "restore" PROVE RestoringInv(r)'
    BY <1>1 DEF RestoringInv, None
  <2>1. /\ at[r] \in 1 .. 10
        /\ at[r] = 1 => Round(r) = "valid"
        /\ at[r] = 2 => Round(r) = "records"
        /\ at[r] = 3 => Round(r) = "decode"
        /\ at[r] = 4 => Round(r) = "consolidate"
    BY <1>2, RestoreIs
  <2>2. record[r] = saved[r] /\ saved[r] # Nothing
    BY <1>1, <1>4 DEF RestoringInv
  <2>3. at[r] = 2 => Gathered(r)'
    <3> SUFFICES ASSUME at[r] = 2 PROVE Gathered(r)'
      OBVIOUS
    <3>1. Operation(Round(r)) = "Bytes"
      BY <2>1 DEF Operation, Agreements
    <3>2. \A q \in Ranks : hand'[r][q] = asked[q][m].value
      BY <1>4, <1>9, <3>1
    <3>3. What(r, m) = record[r]
      BY <1>1, <1>4, <1>6 DEF RestoringInv
    <3>4. m \in 1 .. Len(done'[r])
      BY <1>2, <1>3, <1>6
    <3>5. \A q \in Ranks : m \in 1 .. Len(asked[q])
      BY <1>7
    <3> QED BY <1>1, <3>2, <3>3, <3>4, <3>5 DEF Gathered, Tag, What
  <2>4. at[r] = 3 => Gathered(r)' /\ Decoded(r)'
    <3> SUFFICES ASSUME at[r] = 3 PROVE Gathered(r)' /\ Decoded(r)'
      OBVIOUS
    <3>1. Operation(Round(r)) = "Barrier"
      BY <2>1 DEF Operation, Agreements
    <3>2. hand' = hand /\ Asking(r)
      BY <1>1, <1>6, <1>7, <3>1 DEF Asking
    <3>3. Gathered(r) /\ Decoded(r)
      BY <1>4, <3>2 DEF RestoringInv
    <3>4. 1 .. Len(done[r]) \subseteq 1 .. Len(done'[r])
      BY <1>2, <1>3
    <3> QED BY <1>1, <3>2, <3>3, <3>4, GatheredStays DEF Decoded
  <2>5. at[r] = 4 => Established(record[r].stamp)
    <3> SUFFICES ASSUME at[r] = 4 PROVE Established(record[r].stamp)
      OBVIOUS
    <3>1. Gathered(r) /\ Decoded(r) /\ OneCapture(hand[r])
      BY <1>1, <1>4, <1>6, <1>7 DEF RestoringInv, Asking
    <3>2. PICK n \in 1 .. Len(done[r]) :
            /\ \A q \in Ranks :
                n \in 1 .. Len(asked[q]) /\ hand[r][q][1] = Tag(q, n) /\ hand[r][q][2] = What(q, n)
            /\ What(r, n) = record[r]
      BY <3>1 DEF Gathered
    <3>3. \A q \in Ranks : What(q, n).stamp = What(0, n).stamp /\ Tag(q, n) = "records"
      BY <3>1, <3>2, ConstantsAre DEF OneCapture, Decoded
    <3>4. \A q \in Ranks : What(q, n).stamp = record[r].stamp
      BY <3>2, <3>3
    <3>5. n \in Nat BY <1>2, <3>2
    <3> QED BY <3>2, <3>3, <3>4, <3>5 DEF Established
  <2>6. at[r] >= 5 => Established(record[r].stamp)
    BY <1>4 DEF RestoringInv
  <2>7. at[r] >= 4 => Established(record[r].stamp)'
    BY <1>1, <1>8, <2>1, <2>5, <2>6
  <2>8. CASE call'[r] = None
    BY <2>8 DEF RestoringInv, None
  <2>9. CASE call'[r] = "restore"
    <3>1. ~Asking(r)' BY <1>5 DEF Asking
    <3> QED BY <1>1, <1>5, <2>1, <2>2, <2>3, <2>4, <2>7, <3>1 DEF RestoringInv
  <2> QED BY <1>1, <2>8, <2>9
<1>12. CapturingInv(r)'
  <2> SUFFICES ASSUME call[r] = "checkpoint", call'[r] = "checkpoint" PROVE CapturingInv(r)'
    BY <1>1 DEF CapturingInv, None
  <2>1. /\ at[r] \in 1 .. 5
        /\ at[r] = 1 => Round(r) = "identity"
        /\ at[r] = 2 => Round(r) = "capture"
        /\ at[r] = 3 => Round(r) = "records"
        /\ at[r] = 4 => Round(r) = "decode"
        /\ at[r] = 5 => Round(r) = "consolidate"
    BY <1>2, CheckpointIs
  <2>2. at[r] >= 2 => record[r].stamp[1] = session
    BY <1>1, <1>4, <2>1 DEF CapturingInv
  <2>3. at[r] = 3 => hand'[r][r][2] = record[r]
    <3> SUFFICES ASSUME at[r] = 3 PROVE hand'[r][r][2] = record[r]
      OBVIOUS
    <3>1. Operation(Round(r)) = "Bytes"
      BY <2>1 DEF Operation, Agreements
    <3>2. hand'[r][r] = asked[r][m].value
      BY <1>4, <1>9, <3>1
    <3>3. What(r, m) = record[r]
      BY <1>1, <1>4, <1>6 DEF CapturingInv
    <3> QED BY <3>2, <3>3 DEF What
  <2>4. at[r] >= 4 => hand'[r][r][2] = record[r]
    <3>1. at[r] \in {4, 5} => Operation(Round(r)) = "Barrier"
      BY <2>1 DEF Operation, Agreements
    <3> QED BY <1>4, <1>7, <2>1, <3>1 DEF CapturingInv
  <2> QED BY <1>1, <1>5, <2>1, <2>2, <2>3, <2>4 DEF CapturingInv
<1>13. ASSUME NEW q \in Ranks, q # r PROVE KeptInv(q)' /\ RestoringInv(q)' /\ CapturingInv(q)'
  <2>1. hand'[q] = hand[q]
    BY <1>4, <1>7, <1>13
  <2> QED BY <1>1, <1>3, <1>5, <1>13, <2>1, RestoreUnmoved
<1>14. DOMAIN hand' = Ranks
  BY <1>4, <1>7
<1> QED BY <1>1, <1>10, <1>11, <1>12, <1>13, <1>14 DEF RestoreInv

\* Initially nothing is known, and nothing was kept.
LEMMA RestoreInit == Init => GroupInv /\ CallInv /\ RestoreInv
<1> SUFFICES ASSUME Init PROVE GroupInv /\ CallInv /\ RestoreInv
  OBVIOUS
<1>1. /\ asked = [r \in Ranks |-> <<>>] /\ done = [r \in Ranks |-> <<>>]
      /\ stopped = [r \in Ranks |-> FALSE]
  BY DEF Init, Group!Init
<1>2. Len(<<>>) = 0 /\ 1 .. 0 = {} /\ IsSeq(<<>>)
  BY EmptyIs
<1>3. GroupInv
  <2>1. \A r \in Ranks :
        /\ IsSeq(asked[r]) /\ IsSeq(done[r])
        /\ Len(done[r]) <= Len(asked[r]) /\ Len(asked[r]) <= Len(done[r]) + 1
        /\ 1 .. Len(asked[r]) = {} /\ 1 .. Len(done[r]) = {}
    BY <1>1, <1>2
  <2> QED BY <1>1, <2>1 DEF GroupInv, Concluded
<1>4. CallInv
  BY <1>1 DEF Init, CallInv, RankInv
<1>5. RestoreInv
  <2>1. \A r \in Ranks : 1 .. Len(asked[r]) = {}
    BY <1>1, <1>2
  <2> QED BY <2>1 DEF Init, RestoreInv, KeptInv, RestoringInv, CapturingInv, None
<1> QED BY <1>3, <1>4, <1>5

\* No step brings two captures together.
LEMMA RestoreNext == ASSUME GroupInv, CallInv, RestoreInv, Next PROVE RestoreInv'
<1>1. CASE NewSession BY <1>1, RestoreRenews
<1>2. CASE ~NewSession
  <2>1. Grows BY <1>2, SessionGrows
  <2> QED
    BY <1>2, <2>1, RestoreBegins, RestoreWorks, RestoreReceives, RestoreFinishes, RestoreLeaves DEF Next
<1> QED BY <1>1, <1>2

\* Nothing changes.
LEMMA RestoreStutters ==
    ASSUME GroupInv, CallInv, RestoreInv, UNCHANGED vars
    PROVE  GroupInv' /\ CallInv' /\ RestoreInv'
<1>1. Grows /\ UNCHANGED <<kind, session, asked, done, stopped, call, at, built, hand, record, saved, origin>>
  BY DEF vars, group, state, Grows
<1>2. GroupInv'
  BY <1>1, QuietKeeps DEF GroupInv
<1>3. CallInv'
  BY <1>1, UnmovedKeeps DEF CallInv
<1>4. RestoreInv'
  BY <1>1, RestoreUnmoved DEF RestoreInv
<1> QED BY <1>2, <1>3, <1>4

\* Whatever the ranks kept, and however often calls fail, are left early or are
\* begun anew, the trainers of one session are restored from records of one
\* capture (ShardedTrainer::restore).
THEOREM RestoresAreOneCapture == Spec => []RestoresOneCapture
<1>1. Init => GroupInv /\ CallInv /\ RestoreInv
  BY RestoreInit
<1>2. GroupInv /\ CallInv /\ RestoreInv /\ [Next]_vars => (GroupInv /\ CallInv /\ RestoreInv)'
  BY GroupNext, CallNext, RestoreNext, RestoreStutters
<1>3. GroupInv /\ CallInv /\ RestoreInv => RestoresOneCapture
  BY RestoreIsOne
<1> QED BY <1>1, <1>2, <1>3, PTL DEF Spec
-----------------------------------------------------------------------------
\* Means

\* The average of one gradient per rank, each of the step of which k collectives
\* were made before
Mean(k) == {<<q, session, k>> : q \in Ranks}

IsMean(u) == \E g \in u : u = {<<q, g[2], g[3]>> : q \in Ranks}

IsModel(w) ==
    /\ w = [base |-> w.base, updates |-> w.updates] /\ IsSeq(w.updates)
    /\ \A i \in 1 .. Len(w.updates) : IsMean(w.updates[i])

\* Since its collective m the rank makes the operation of its collective n
Run(r, m, n) ==
    /\ m \in 1 .. n - 1 /\ Op(r, m) # Op(r, n)
    /\ \A j \in m + 1 .. n : Op(r, j) = Op(r, n)

Reductions == {"all_reduce", "reduce_scatter"}

\* The collectives from a gradient to those before its reduction
Lag(round) == IF round = "all_reduce" THEN 6 ELSE 1

\* What the rank asks to be reduced is its gradient, or the average already; what
\* it broadcasts is a model
Supplied(r, n) ==
    /\ Tag(r, n) = "all_reduce" => kind = "replicated"
    /\ Tag(r, n) = "mean_loss" => kind = "sharded"
    /\ Tag(r, n) \in Reductions => \E m \in 1 .. n - 1 :
        /\ Run(r, m, n)
        /\ What(r, n) \in {{<<r, session, m - Lag(Tag(r, n))>>}, Mean(m - Lag(Tag(r, n)))}
    /\ Tag(r, n) = "broadcast" => IsModel(What(r, n))

\* The gradient of a replica, from its step on until the average is in its place
BackwardInv(r) ==
    call[r] = "backward_step" =>
        /\ (at[r] = 6 /\ Asking(r)) \/ (at[r] = 7 /\ ~Group!Waits(r)) => grad[r] = {}
        /\ (at[r] = 7 /\ Asking(r)) \/ at[r] \in 8 .. Params + 12 =>
            grad[r] = {<<r, session, Base(r) + 6>>}
        /\ at[r] \in 14 .. Params + 13 => hand[r] = done[r][Base(r) + at[r] - 1]
        /\ (at[r] = Params + 13 /\ Asking(r)) \/ at[r] >= Params + 14 =>
            grad[r] = done[r][Base(r) + Params + 12]

\* The gradient of a sharded step, until its average is seeded and applied
ShardInv(r) ==
    call[r] = "train_step" =>
        /\ (at[r] = Params + 7 /\ Asking(r)) \/ at[r] = Params + 8 =>
            hand[r] = {<<r, session, Base(r) + Params + 6>>}
        /\ at[r] \in Params + 9 .. 2 * Params + 9 =>
            hand[r] = done[r][IF at[r] = 2 * Params + 9 THEN Base(r) + 2 * Params + 7
                              ELSE Base(r) + at[r] - 1]
        /\ (at[r] = 2 * Params + 8 /\ Asking(r)) \/ (at[r] = 2 * Params + 9 /\ ~Group!Waits(r)) =>
            grad[r] = {}
        /\ (at[r] = 2 * Params + 9 /\ Asking(r)) \/ at[r] >= 2 * Params + 10 =>
            grad[r] = done[r][Base(r) + 2 * Params + 7]

\* What a rank holds of the broadcasts it is in
BroadcastInv(r) ==
    call[r] \in {"construct", "new"} /\ at[r] \in 4 .. Params + 3 =>
        hand[r] = done[r][Base(r) + at[r] - 1]

\* Every model in a rank or in a record was made by means
ModelInv(r) ==
    /\ IsModel(weights[r]) /\ IsSeq(moments[r])
    /\ saved[r] # Nothing => IsModel(saved[r].weights) /\ IsSeq(saved[r].moments)
    /\ call[r] = "checkpoint" /\ (at[r] >= 3 \/ (at[r] = 2 /\ Group!Waits(r))) =>
        IsModel(record[r].weights) /\ IsSeq(record[r].moments)

MeanInv ==
    /\ DOMAIN weights = Ranks /\ DOMAIN moments = Ranks /\ DOMAIN grad = Ranks
    /\ \A r \in Ranks :
        /\ \A n \in 1 .. Len(asked[r]) : Supplied(r, n)
        /\ BackwardInv(r) /\ ShardInv(r) /\ BroadcastInv(r) /\ ModelInv(r)

\* Ranks that make one collective have made it for equally long.
LEMMA RunIsOne ==
    ASSUME GroupInv, NEW n \in Nat, Concluded(n), NEW r \in Ranks, NEW q \in Ranks,
           NEW m, NEW k, Run(r, m, n), Run(q, k, n)
    PROVE  m = k
<1>1. m \in 1 .. n - 1 /\ k \in 1 .. n - 1
  BY DEF Run
<1>2. \A j \in 1 .. n : Op(r, j) = Op(q, j)
  <2> TAKE j \in 1 .. n
  <2>1. Concluded(j) /\ j \in Nat
    BY DEF Concluded, GroupInv, IsSeq
  <2> QED BY <2>1, ConcludedIs
<1>3. ASSUME m < k PROVE FALSE
  BY <1>1, <1>2, <1>3 DEF Run
<1>4. ASSUME k < m PROVE FALSE
  BY <1>1, <1>2, <1>4 DEF Run
<1> QED BY <1>1, <1>3, <1>4

\* What is averaged is one gradient per rank, of one step.
LEMMA ReducedIs ==
    ASSUME GroupInv, CallInv, MeanInv, NEW r \in Ranks, NEW n \in 1 .. Len(done[r]), Tag(r, n) \in Reductions
    PROVE  \E m \in 1 .. n - 1 : Run(r, m, n) /\ done[r][n] = Mean(m - Lag(Tag(r, n)))
<1>1. n \in Nat /\ Concluded(n) /\ Len(done[r]) <= Len(asked[r]) /\ Len(asked[r]) \in Nat
  BY DEF Concluded, GroupInv, IsSeq
<1>2. \A q \in Ranks : n \in 1 .. Len(asked[q]) /\ Op(q, n) = Op(r, n)
  BY <1>1, ConcludedIs
<1>3. \A q \in Ranks : Operation(Tag(q, n)) = Operation(Tag(r, n)) /\ Supplied(q, n) /\ Op(q, n) = Operation(Tag(q, n))
  BY <1>2 DEF GroupInv, MeanInv
<1>4. \A q \in Ranks : Tag(q, n) = Tag(r, n)
  BY <1>3 DEF Operation, Agreements, Supplied, Reductions
<1>5. PICK m \in 1 .. n - 1 : Run(r, m, n)
  BY <1>3 DEF Supplied
<1> DEFINE k == m - Lag(Tag(r, n))
<1>6. \A q \in Ranks : What(q, n) \in {{<<q, session, k>>}, Mean(k)}
  <2> TAKE q \in Ranks
  <2>1. PICK l \in 1 .. n - 1 :
          Run(q, l, n) /\ What(q, n) \in {{<<q, session, l - Lag(Tag(q, n))>>}, Mean(l - Lag(Tag(q, n)))}
    BY <1>3, <1>4 DEF Supplied
  <2>2. l = m
    BY <1>1, <1>5, <2>1, RunIsOne
  <2> QED BY <1>4, <2>1, <2>2
<1>7. done[r][n] = UNION {What(q, n) : q \in Ranks}
  <2>1. done[r][n] = Outcome(Group!Requests(n), r)
    BY DEF GroupInv
  <2>2. Group!Requests(n)[0].operation \in {"AllReduce", "ReduceScatter"}
    BY <1>2, <1>3, ConstantsAre DEF Group!Requests, Op, Operation, Agreements, Reductions
  <2>3. \A q \in Ranks : Group!Requests(n)[q].value[2] = What(q, n)
    BY DEF Group!Requests, What
  <2>4. Outcome(Group!Requests(n), r) = UNION {Group!Requests(n)[q].value[2] : q \in Ranks}
    BY <2>2 DEF Outcome
  <2> QED BY <2>1, <2>3, <2>4
<1> HIDE DEF k
<1>8. UNION {What(q, n) : q \in Ranks} = Mean(k)
  BY <1>6 DEF Mean
<1> QED BY <1>5, <1>7, <1>8 DEF k

\* An average is a mean.
LEMMA MeanIs == ASSUME NEW k PROVE IsMean(Mean(k))
<1>1. <<0, session, k>> \in Mean(k)
  BY ConstantsAre DEF Mean
<1> DEFINE g == <<0, session, k>>
<1>2. g[2] = session /\ g[3] = k
  OBVIOUS
<1>3. Mean(k) = {<<q, g[2], g[3]>> : q \in Ranks}
  BY <1>2 DEF Mean
<1> QED BY <1>1, <1>3 DEF IsMean

\* What a rank takes from a broadcast is the model of rank 0.
LEMMA BroadcastIs ==
    ASSUME GroupInv, NEW r \in Ranks, NEW n \in 1 .. Len(done[r]), Tag(r, n) = "broadcast"
    PROVE  /\ done[r][n] = What(0, n) /\ \A q \in Ranks : Tag(q, n) = "broadcast"
           /\ n \in 1 .. Len(asked[0])
<1>1. n \in Nat /\ Concluded(n) /\ Len(done[r]) <= Len(asked[r]) /\ Len(asked[r]) \in Nat
  BY DEF Concluded, GroupInv, IsSeq
<1>2. \A q \in Ranks : n \in 1 .. Len(asked[q]) /\ Op(q, n) = Op(r, n)
  BY <1>1, ConcludedIs
<1>3. \A q \in Ranks : Op(q, n) = Operation(Tag(q, n))
  BY <1>2 DEF GroupInv
<1>4. \A q \in Ranks : Op(q, n) = "Broadcast"
  BY <1>2, <1>3 DEF Operation, Agreements
<1>5. \A q \in Ranks : Tag(q, n) = "broadcast"
  BY <1>3, <1>4 DEF Operation, Agreements
<1>6. done[r][n] = Outcome(Group!Requests(n), r)
  BY DEF GroupInv
<1>7. Group!Requests(n)[0].operation = "Broadcast" /\ Group!Requests(n)[0].value[2] = What(0, n)
  BY <1>4, ConstantsAre DEF Group!Requests, Op, What
<1> QED BY <1>2, <1>5, <1>6, <1>7, ConstantsAre DEF Outcome

\* A rank asks for the round it has come to, after its work for it.
LEMMA WorkIs ==
    ASSUME GroupInv, CallInv, NEW r \in Ranks, Work(r)
    PROVE  /\ call[r] # None /\ ~Group!Waits(r) /\ at[r] \in 1 .. Len(Rounds(call[r]))
           /\ Round(r) = Rounds(call[r])[at[r]] /\ call[r] \in Replicates \cup Shards
           /\ UNCHANGED <<kind, session, call, at, built, saved, origin, confirmed, done, stopped>>
           /\ Len(asked[r]) \in Nat /\ Len(asked[r]) = Len(done[r])
           /\ Base(r) \in Nat /\ Base(r) + at[r] = Len(asked[r]) + 1
           /\ Len(asked'[r]) = Len(asked[r]) + 1 /\ Group!Waits(r)'
           /\ \A n \in 1 .. Len(asked[r]) : asked'[r][n] = asked[r][n]
           /\ \A q \in Ranks \ {r} : asked'[q] = asked[q]
           /\ \A m \in Nat : m = Len(asked[r]) + 1 => Tag(r, m)' = Round(r) /\ What(r, m)' = Value(r)
           /\ \E ok \in BOOLEAN : /\ LocalWork(r, ok) /\ (Asking(r)' <=> ok) /\ (ok => Succeeds(r))
<1>1. PICK fails \in BOOLEAN :
        LET ok == Succeeds(r) /\ ~fails
        IN  /\ LocalWork(r, ok)
            /\ Group!Enter(r, [operation |-> Operation(Round(r)), ok |-> ok,
                               value |-> <<Round(r), Value(r)>>])
  BY DEF Work
<1> DEFINE ok == Succeeds(r) /\ ~fails
           req == [operation |-> Operation(Round(r)), ok |-> ok, value |-> <<Round(r), Value(r)>>]
<1>2. /\ call[r] # None /\ ~Group!Waits(r) /\ Round(r) # "end"
      /\ UNCHANGED <<kind, session, call, at, built, saved, origin, confirmed>>
  BY DEF Work, Works
<1>3. /\ at[r] \in 1 .. Len(Rounds(call[r])) /\ Round(r) = Rounds(call[r])[at[r]]
      /\ call[r] \in Replicates \cup Shards
  BY <1>2, EndIs, CallIs
<1>4. /\ done' = done /\ stopped' = stopped
      /\ Len(asked'[r]) = Len(asked[r]) + 1 /\ asked'[r][Len(asked[r]) + 1] = req
      /\ \A q \in Ranks \ {r} : asked'[q] = asked[q]
      /\ \A n \in 1 .. Len(asked[r]) : asked'[r][n] = asked[r][n]
      /\ Len(asked[r]) = Len(done[r]) /\ Len(asked[r]) \in Nat
  BY <1>1, EnterAdds DEF Group!Enter, GroupInv, IsSeq
<1>5. req.value[1] = Round(r) /\ req.value[2] = Value(r) /\ req.ok = ok
  OBVIOUS
<1>6. Base(r) \in Nat /\ Base(r) + at[r] = Len(asked[r]) + 1
  BY <1>2, <1>4, CallIs
<1> HIDE DEF req
<1>7. Group!Waits(r)'
  BY <1>4 DEF Group!Waits
<1>8. \A m \in Nat : m = Len(asked[r]) + 1 => Tag(r, m)' = Round(r) /\ What(r, m)' = Value(r)
  BY <1>4, <1>5 DEF Tag, What
<1>9. Asking(r)' <=> ok
  BY <1>4, <1>5, <1>7 DEF Asking
<1>10. \E okay \in BOOLEAN : LocalWork(r, okay) /\ (Asking(r)' <=> okay) /\ (okay => Succeeds(r))
  <2>1. ok \in BOOLEAN /\ (ok => Succeeds(r)) /\ LocalWork(r, ok)
    BY <1>1
  <2> HIDE DEF ok
  <2> QED BY <1>9, <2>1
<1> QED BY <1>2, <1>3, <1>4, <1>6, <1>7, <1>8, <1>10

\* What is supplied stays so while requests are only added.
LEMMA SuppliedStays ==
    ASSUME NEW r \in Ranks, NEW n \in Nat, Supplied(r, n), n \in 1 .. Len(asked[r]),
           session' = session, kind' = kind,
           \A j \in 1 .. Len(asked[r]) : asked'[r][j] = asked[r][j], Len(asked[r]) \in Nat
    PROVE  Supplied(r, n)'
<1>1. \A j \in 1 .. n : /\ Tag(r, j)' = Tag(r, j) /\ What(r, j)' = What(r, j)
                       /\ Op(r, j)' = Op(r, j)
  BY DEF Tag, What, Op
<1>2. \A k : Mean(k)' = Mean(k)
  BY DEF Mean
<1>3. \A m \in 1 .. n - 1 : Run(r, m, n) => Run(r, m, n)'
  BY <1>1 DEF Run
<1>4. \A w : IsModel(w)' <=> IsModel(w)
  BY DEF IsModel
<1>5. Tag(r, n)' = Tag(r, n) /\ What(r, n)' = What(r, n)
  BY <1>1
<1> QED BY <1>2, <1>3, <1>4, <1>5 DEF Supplied

\* What is known of a rank that takes no part in a step stays known.
LEMMA MeanUnmoved ==
    ASSUME MeanInv, NEW q \in Ranks, session' = session, kind' = kind, Len(asked[q]) \in Nat,
           call'[q] = call[q], at'[q] = at[q], saved'[q] = saved[q], record'[q] = record[q],
           hand'[q] = hand[q], asked'[q] = asked[q], done'[q] = done[q],
           weights'[q] = weights[q], moments'[q] = moments[q], grad'[q] = grad[q]
    PROVE  /\ \A n \in 1 .. Len(asked'[q]) : Supplied(q, n)'
           /\ BackwardInv(q)' /\ ShardInv(q)' /\ BroadcastInv(q)' /\ ModelInv(q)'
<1>1. /\ \A n \in 1 .. Len(asked[q]) : Supplied(q, n)
      /\ BackwardInv(q) /\ ShardInv(q) /\ BroadcastInv(q) /\ ModelInv(q)
  BY DEF MeanInv
<1>2. /\ Group!Waits(q)' <=> Group!Waits(q)
      /\ Asking(q)' <=> Asking(q)
      /\ Base(q)' = Base(q)
  BY DEF Group!Waits, Asking, Base
<1>3. \A n \in 1 .. Len(asked'[q]) : Supplied(q, n)'
  BY <1>1, SuppliedStays
<1>4. BackwardInv(q)'
  BY <1>1, <1>2 DEF BackwardInv
<1>5. ShardInv(q)'
  BY <1>1, <1>2 DEF ShardInv
<1>6. BroadcastInv(q)' /\ ModelInv(q)'
  BY <1>1, <1>2 DEF BroadcastInv, ModelInv, IsModel
<1> QED BY <1>3, <1>4, <1>5, <1>6

\* A call begins with its first round, of which nothing is known yet.
LEMMA MeanBegins ==
    ASSUME GroupInv, CallInv, MeanInv, NEW r \in Ranks, NEW c, Begin(r, c)
    PROVE  MeanInv'
<1>1. /\ call' = [call EXCEPT ![r] = c] /\ at' = [at EXCEPT ![r] = 1] /\ call[r] = None
      /\ ~stopped[r]
      /\ UNCHANGED <<kind, session, asked, done, hand, record, saved, weights, moments, grad>>
  BY DEF Begin, group, state
<1>2. DOMAIN call = Ranks /\ DOMAIN at = Ranks /\ \A q \in Ranks : Len(asked[q]) \in Nat
  BY DEF CallInv, GroupInv, IsSeq
<1>3. call'[r] = c /\ at'[r] = 1 /\ ~Group!Waits(r)'
  BY <1>1, <1>2 DEF CallInv, RankInv, Group!Waits, GroupInv, IsSeq
<1>4. \A n \in 1 .. Len(asked'[r]) : Supplied(r, n)'
  BY <1>1, <1>2, SuppliedStays DEF MeanInv
<1>5. BackwardInv(r)' /\ ShardInv(r)' /\ BroadcastInv(r)'
  BY <1>3, ConstantsAre DEF BackwardInv, ShardInv, BroadcastInv, Asking
<1>6. ModelInv(r)'
  BY <1>1, <1>3 DEF MeanInv, ModelInv, IsModel
<1>7. ASSUME NEW q \in Ranks, q # r
      PROVE  /\ \A n \in 1 .. Len(asked'[q]) : Supplied(q, n)'
             /\ BackwardInv(q)' /\ ShardInv(q)' /\ BroadcastInv(q)' /\ ModelInv(q)'
  BY <1>1, <1>2, <1>7, MeanUnmoved
<1> QED BY <1>1, <1>4, <1>5, <1>6, <1>7 DEF MeanInv

\* A call that is over without a result leaves the models as they are.
LEMMA MeanLeaves ==
    ASSUME GroupInv, CallInv, MeanInv, NEW r \in Ranks, LeaveEarly(r) \/ Error(r) \/ Drop(r)
    PROVE  MeanInv'
<1>1. /\ call'[r] = None /\ \A q \in Ranks \ {r} : call'[q] = call[q]
      /\ UNCHANGED <<kind, session, at, asked, done, hand, record, saved, weights, moments, grad>>
  BY DEF LeaveEarly, Error, Drop, group, state, Group!Stop, CallInv
<1>2. \A q \in Ranks : Len(asked[q]) \in Nat
  BY DEF GroupInv, IsSeq
<1>3. \A n \in 1 .. Len(asked'[r]) : Supplied(r, n)'
  BY <1>1, <1>2, SuppliedStays DEF MeanInv
<1>4. BackwardInv(r)' /\ ShardInv(r)' /\ BroadcastInv(r)'
  BY <1>1 DEF BackwardInv, ShardInv, BroadcastInv, None
<1>5. ModelInv(r)'
  BY <1>1 DEF MeanInv, ModelInv, IsModel, None
<1>6. ASSUME NEW q \in Ranks, q # r
      PROVE  /\ \A n \in 1 .. Len(asked'[q]) : Supplied(q, n)'
             /\ BackwardInv(q)' /\ ShardInv(q)' /\ BroadcastInv(q)' /\ ModelInv(q)'
  BY <1>1, <1>2, <1>6, MeanUnmoved
<1> QED BY <1>1, <1>3, <1>4, <1>5, <1>6 DEF MeanInv

\* A model before its first update has had none.
LEMMA FreshIs == ASSUME NEW b PROVE IsModel([base |-> b, updates |-> <<>>])
BY EmptyIs DEF IsModel

\* A new session asks for nothing yet; its models are those of the last, or fresh.
LEMMA MeanRenews == ASSUME GroupInv, CallInv, MeanInv, NewSession PROVE MeanInv'
<1>1. DOMAIN weights' = Ranks /\ DOMAIN moments' = Ranks /\ DOMAIN grad' = Ranks
  BY DEF NewSession, state, MeanInv
<1>2. ASSUME NEW r \in Ranks
      PROVE  /\ \A n \in 1 .. Len(asked'[r]) : Supplied(r, n)'
             /\ BackwardInv(r)' /\ ShardInv(r)' /\ BroadcastInv(r)' /\ ModelInv(r)'
  <2>1. call'[r] = None /\ asked'[r] = <<>> /\ saved' = saved
    BY DEF NewSession
  <2>2. 1 .. Len(asked'[r]) = {}
    BY <2>1, EmptyIs
  <2>3. BackwardInv(r)' /\ ShardInv(r)' /\ BroadcastInv(r)'
    BY <2>1 DEF BackwardInv, ShardInv, BroadcastInv, None
  <2>4. /\ weights'[r] = weights[r] \/ weights'[r] = [base |-> r, updates |-> <<>>]
        /\ moments'[r] = moments[r] \/ moments'[r] = <<>>
    BY DEF NewSession, state
  <2>5. \A w : IsModel(w)' <=> IsModel(w)
    BY DEF IsModel
  <2>6. ModelInv(r)'
    BY <2>1, <2>4, <2>5, FreshIs, EmptyIs DEF MeanInv, ModelInv, None
  <2> QED BY <2>2, <2>3, <2>6
<1> QED BY <1>1, <1>2 DEF MeanInv

\* The result of a call is a model made by means.
LEMMA MeanFinishes ==
    ASSUME GroupInv, CallInv, RestoreInv, MeanInv, NEW r \in Ranks, Finish(r)
    PROVE  MeanInv'
<1>1. /\ call[r] # None /\ Round(r) = "end" /\ call' = [call EXCEPT ![r] = None] /\ ~Group!Waits(r)
      /\ UNCHANGED <<kind, session, at, asked, done, hand, record, grad>>
  BY DEF Finish, Works, group
<1>2. /\ weights' = CASE call[r] = "construct" -> [weights EXCEPT ![r] = hand[r]]
                      [] call[r] = "restore" -> [weights EXCEPT ![r] = record[r].weights]
                      [] OTHER -> weights
      /\ moments' = IF call[r] = "restore" THEN [moments EXCEPT ![r] = record[r].moments] ELSE moments
      /\ saved' = IF call[r] = "checkpoint" THEN [saved EXCEPT ![r] = hand[r][r][2]] ELSE saved
  BY DEF Finish
<1>3. /\ DOMAIN call = Ranks /\ DOMAIN weights = Ranks /\ DOMAIN moments = Ranks /\ DOMAIN saved = Ranks
      /\ RestoringInv(r) /\ CapturingInv(r) /\ BroadcastInv(r) /\ ModelInv(r)
      /\ \A q \in Ranks : Len(asked[q]) \in Nat
  BY DEF CallInv, RestoreInv, MeanInv, GroupInv, IsSeq
<1>4. call'[r] = None /\ at[r] = Len(Rounds(call[r])) + 1
  BY <1>1, <1>3, EndIs
<1>5. IsModel(weights'[r])
  <2>1. CASE call[r] = "construct"
    <3>1. Rounds(call[r]) = Construct /\ Len(Rounds(call[r])) = Params + 2 /\ Params \in Nat \ {0}
      BY <2>1, ConstructIs, ConstantsAre DEF Rounds
    <3>2. at[r] = Params + 3
      BY <1>4, <3>1
    <3>3. /\ Base(r) \in Nat /\ Base(r) + at[r] = Len(done[r]) + 1 /\ Len(done[r]) \in Nat
          /\ \A i \in 1 .. at[r] - 1 : Tag(r, Base(r) + i) = Rounds(call[r])[i]
      BY <1>1, CallIs
    <3>4. PICK n \in 1 .. Len(done[r]) : n = Base(r) + at[r] - 1
      BY <3>1, <3>2, <3>3
    <3>5. Params + 2 \in 1 .. at[r] - 1 /\ n = Base(r) + (Params + 2)
      BY <3>1, <3>2, <3>3, <3>4
    <3>6. Tag(r, n) = "broadcast"
      <4>1. Tag(r, Base(r) + (Params + 2)) = Rounds(call[r])[Params + 2]
        BY <3>3, <3>5
      <4>2. Params + 2 \in 3 .. Params + 2
        BY <3>1
      <4> QED BY <3>1, <3>5, <4>1, <4>2, ConstructIs
    <3>7. hand[r] = done[r][n]
      BY <1>3, <2>1, <3>1, <3>2, <3>4 DEF BroadcastInv
    <3>8. IsModel(done[r][n])
      BY <3>6, BroadcastIs, ConstantsAre DEF MeanInv, Supplied
    <3> QED BY <1>2, <1>3, <2>1, <3>7, <3>8
  <2>2. CASE call[r] = "restore"
    <3>1. Len(Rounds(call[r])) = 10 BY <2>2, RestoreIs
    <3>2. at[r] = 11 BY <1>4, <3>1
    <3>3. record[r] = saved[r] /\ saved[r] # Nothing
      BY <1>3, <2>2, <3>2 DEF RestoringInv
    <3> QED BY <1>2, <1>3, <2>2, <3>3 DEF ModelInv
  <2>3. CASE call[r] \notin {"construct", "restore"}
    BY <1>2, <1>3, <2>3 DEF ModelInv
  <2> QED BY <2>1, <2>2, <2>3
<1>6. IsSeq(moments'[r])
  <2>1. CASE call[r] = "restore"
    <3>1. Len(Rounds(call[r])) = 10 BY <2>1, RestoreIs
    <3>2. at[r] = 11 BY <1>4, <3>1
    <3>3. record[r] = saved[r] /\ saved[r] # Nothing
      BY <1>3, <2>1, <3>2 DEF RestoringInv
    <3> QED BY <1>2, <1>3, <2>1, <3>3 DEF ModelInv
  <2>2. CASE call[r] # "restore"
    BY <1>2, <1>3, <2>2 DEF ModelInv
  <2> QED BY <2>1, <2>2
<1>7. saved'[r] # Nothing => IsModel(saved'[r].weights) /\ IsSeq(saved'[r].moments)
  <2>1. CASE call[r] = "checkpoint"
    <3>1. Len(Rounds(call[r])) = 5 BY <2>1, CheckpointIs
    <3>2. at[r] = 6 BY <1>4, <3>1
    <3>3. hand[r][r][2] = record[r] /\ IsModel(record[r].weights) /\ IsSeq(record[r].moments)
      BY <1>3, <2>1, <3>2 DEF CapturingInv, ModelInv
    <3> QED BY <1>2, <1>3, <2>1, <3>3
  <2>2. CASE call[r] # "checkpoint"
    BY <1>2, <1>3, <2>2 DEF ModelInv
  <2> QED BY <2>1, <2>2
<1>8. \A w : IsModel(w)' <=> IsModel(w)
  BY DEF IsModel
<1>9. ModelInv(r)'
  BY <1>4, <1>5, <1>7, <1>8, <1>6 DEF ModelInv, None
<1>10. BackwardInv(r)' /\ ShardInv(r)' /\ BroadcastInv(r)'
  BY <1>4 DEF BackwardInv, ShardInv, BroadcastInv, None
<1>11. \A n \in 1 .. Len(asked'[r]) : Supplied(r, n)'
  BY <1>1, <1>3, SuppliedStays DEF MeanInv
<1>12. ASSUME NEW q \in Ranks, q # r
      PROVE  /\ \A n \in 1 .. Len(asked'[q]) : Supplied(q, n)'
             /\ BackwardInv(q)' /\ ShardInv(q)' /\ BroadcastInv(q)' /\ ModelInv(q)'
  <2>1. /\ weights'[q] = weights[q] /\ moments'[q] = moments[q] /\ saved'[q] = saved[q]
        /\ call'[q] = call[q]
    BY <1>1, <1>2, <1>3, <1>12
  <2> QED BY <1>1, <1>3, <1>12, <2>1, MeanUnmoved
<1>13. DOMAIN weights' = Ranks /\ DOMAIN moments' = Ranks /\ DOMAIN grad' = Ranks
  BY <1>1, <1>2, <1>3 DEF MeanInv
<1> QED BY <1>9, <1>10, <1>11, <1>12, <1>13 DEF MeanInv

\* What the local work of a round does to its rank, and to no other.
LEMMA LocalIs ==
    ASSUME RestoreInv, MeanInv, NEW r \in Ranks, NEW ok \in BOOLEAN, LocalWork(r, ok)
    PROVE  /\ \A q \in Ranks \ {r} :
                /\ grad'[q] = grad[q] /\ hand'[q] = hand[q] /\ record'[q] = record[q]
                /\ weights'[q] = weights[q] /\ moments'[q] = moments[q]
           /\ DOMAIN grad' = Ranks /\ DOMAIN weights' = Ranks /\ DOMAIN moments' = Ranks
           /\ Round(r) \notin {"zero", "backward", "seed", "copy"} => grad'[r] = grad[r]
           /\ ok /\ Round(r) = "zero" => grad'[r] = {}
           /\ ok /\ Round(r) = "backward" => grad'[r] = grad[r] \cup Own(r)
           /\ ok /\ Round(r) = "seed" => grad'[r] = grad[r] \cup hand[r]
           /\ ok /\ Round(r) = "copy" => grad'[r] = hand[r]
           /\ Round(r) # "gradients" => hand'[r] = hand[r]
           /\ ok /\ Round(r) = "gradients" => hand'[r] = Own(r)
           /\ ~(ok /\ Round(r) \in {"step", "built"}) =>
                weights'[r] = weights[r] /\ moments'[r] = moments[r]
           /\ ok /\ Round(r) = "step" =>
                /\ weights'[r] = [weights[r] EXCEPT !.updates = Append(@, grad[r])]
                /\ moments'[r] = Append(moments[r], grad[r])
           /\ ok /\ Round(r) = "built" => weights'[r] = hand[r] /\ moments'[r] = <<>>
           /\ Round(r) = "capture" => record'[r] =
                [stamp |-> <<session, Len(done[r])>>, weights |-> weights[r], moments |-> moments[r]]
           /\ Round(r) = "valid" => record'[r] = saved[r]
           /\ Round(r) \notin {"capture", "valid"} => record'[r] = record[r]
<1>1. /\ DOMAIN grad = Ranks /\ DOMAIN hand = Ranks /\ DOMAIN record = Ranks
      /\ DOMAIN weights = Ranks /\ DOMAIN moments = Ranks
  BY DEF RestoreInv, MeanInv
<1>2. /\ \A q \in Ranks \ {r} : grad'[q] = grad[q]
      /\ DOMAIN grad' = Ranks
      /\ Round(r) \notin {"zero", "backward", "seed", "copy"} => grad'[r] = grad[r]
      /\ ok /\ Round(r) = "zero" => grad'[r] = {}
      /\ ok /\ Round(r) = "backward" => grad'[r] = grad[r] \cup Own(r)
      /\ ok /\ Round(r) = "seed" => grad'[r] = grad[r] \cup hand[r]
      /\ ok /\ Round(r) = "copy" => grad'[r] = hand[r]
  <2>0. grad' \in CASE Round(r) = "zero" -> {[grad EXCEPT ![r] = {}]} \cup IF ok THEN {} ELSE {grad}
                   [] Round(r) = "backward" /\ ok -> {[grad EXCEPT ![r] = @ \cup Own(r)]}
                   [] Round(r) = "seed" /\ ok -> {[grad EXCEPT ![r] = @ \cup hand[r]]}
                   [] Round(r) = "copy" -> {[grad EXCEPT ![r] = Synchronized(r)]}
                                           \cup IF ok THEN {} ELSE {grad}
                   [] OTHER -> {grad}
    BY DEF LocalWork
  <2>1. CASE Round(r) = "zero"
    <3>1. grad' = [grad EXCEPT ![r] = {}] \/ (~ok /\ grad' = grad)
      BY <2>0, <2>1
    <3> QED BY <1>1, <2>1, <3>1
  <2>2. CASE Round(r) = "backward"
    <3>1. grad' = IF ok THEN [grad EXCEPT ![r] = grad[r] \cup Own(r)] ELSE grad
      BY <2>0, <2>2
    <3> QED BY <1>1, <2>2, <3>1
  <2>3. CASE Round(r) = "seed"
    <3>1. grad' = IF ok THEN [grad EXCEPT ![r] = grad[r] \cup hand[r]] ELSE grad
      BY <2>0, <2>3
    <3> QED BY <1>1, <2>3, <3>1
  <2>4. CASE Round(r) = "copy"
    <3>1. grad' = [grad EXCEPT ![r] = hand[r]] \/ (~ok /\ grad' = grad)
      BY <2>0, <2>4 DEF Synchronized
    <3> QED BY <1>1, <2>4, <3>1
  <2>5. CASE Round(r) \notin {"zero", "backward", "seed", "copy"}
    <3>1. grad' = grad
      BY <2>0, <2>5
    <3> QED BY <1>1, <2>5, <3>1
  <2> QED BY <2>1, <2>2, <2>3, <2>4, <2>5
<1>3. /\ \A q \in Ranks \ {r} : hand'[q] = hand[q]
      /\ Round(r) # "gradients" => hand'[r] = hand[r]
      /\ ok /\ Round(r) = "gradients" => hand'[r] = Own(r)
  <2>1. hand' = IF Round(r) = "gradients"
                THEN [hand EXCEPT ![r] = IF ok THEN Own(r) ELSE {}] ELSE hand
    BY DEF LocalWork
  <2> QED BY <1>1, <2>1
<1>4. /\ \A q \in Ranks \ {r} : record'[q] = record[q]
      /\ Round(r) = "capture" => record'[r] =
            [stamp |-> <<session, Len(done[r])>>, weights |-> weights[r], moments |-> moments[r]]
      /\ Round(r) = "valid" => record'[r] = saved[r]
      /\ Round(r) \notin {"capture", "valid"} => record'[r] = record[r]
  <2>0. record' = CASE Round(r) = "capture" -> [record EXCEPT ![r] =
                        [stamp |-> <<session, Len(done[r])>>, weights |-> weights[r], moments |-> moments[r]]]
                   [] Round(r) = "valid" -> [record EXCEPT ![r] = saved[r]]
                   [] OTHER -> record
    BY DEF LocalWork
  <2>1. CASE Round(r) = "capture"
    <3>1. record' = [record EXCEPT ![r] =
            [stamp |-> <<session, Len(done[r])>>, weights |-> weights[r], moments |-> moments[r]]]
      BY <2>0, <2>1
    <3> QED BY <1>1, <2>1, <3>1
  <2>2. CASE Round(r) = "valid"
    BY <1>1, <2>0, <2>2
  <2>3. CASE Round(r) \notin {"capture", "valid"}
    BY <1>1, <2>0, <2>3
  <2> QED BY <2>1, <2>2, <2>3
<1>5. /\ \A q \in Ranks \ {r} : weights'[q] = weights[q] /\ moments'[q] = moments[q]
      /\ DOMAIN weights' = Ranks /\ DOMAIN moments' = Ranks
      /\ ~(ok /\ Round(r) \in {"step", "built"}) =>
           weights'[r] = weights[r] /\ moments'[r] = moments[r]
      /\ ok /\ Round(r) = "step" =>
           /\ weights'[r] = [weights[r] EXCEPT !.updates = Append(@, grad[r])]
           /\ moments'[r] = Append(moments[r], grad[r])
      /\ ok /\ Round(r) = "built" => weights'[r] = hand[r] /\ moments'[r] = <<>>
  <2>0. IF Round(r) = "step" /\ ok THEN TryStep(r)
        ELSE IF Round(r) = "built" /\ ok
        THEN weights' = [weights EXCEPT ![r] = hand[r]] /\ moments' = [moments EXCEPT ![r] = <<>>]
        ELSE UNCHANGED <<weights, moments>>
    BY DEF LocalWork
  <2>1. CASE ok /\ Round(r) = "step"
    <3>1. /\ weights' = [weights EXCEPT ![r].updates = Append(@, grad[r])]
          /\ moments' = [moments EXCEPT ![r] = Append(@, grad[r])]
      BY <2>0, <2>1 DEF TryStep
    <3> QED BY <1>1, <2>1, <3>1
  <2>2. CASE ok /\ Round(r) = "built"
    BY <1>1, <2>0, <2>2
  <2>3. CASE ~(ok /\ Round(r) \in {"step", "built"})
    BY <1>1, <2>0, <2>3
  <2> QED BY <2>1, <2>2, <2>3
<1> QED BY <1>2, <1>3, <1>4, <1>5

\* What the rank asked after its collective b are the rounds s, as far as round a
Traced(r, b, a, s) == \A i \in 1 .. a : Tag(r, b + i) = s[i]

\* From after round k on the rounds up to a are of one operation
Streak(s, k, a) ==
    /\ k \in 1 .. a - 1 /\ Operation(s[k]) # Operation(s[a])
    /\ \A i \in k + 1 .. a : Operation(s[i]) = Operation(s[a])

\* Rounds of one operation in a row are a run of the rank's requests.
LEMMA RoundsRun ==
    ASSUME GroupInv', NEW r \in Ranks, NEW b \in Nat, NEW a \in Nat, NEW n \in Nat, n = b + a,
           n = Len(asked'[r]), NEW s, Traced(r, b, a, s)', NEW k, Streak(s, k, a)
    PROVE  \A m \in 1 .. n - 1 : m = b + k => Run(r, m, n)'
<1>1. \A j \in 1 .. n : Op(r, j)' = Operation(Tag(r, j)')
  BY DEF GroupInv
<1>2. \A i \in 1 .. a : Op(r, b + i)' = Operation(s[i])
  <2> TAKE i \in 1 .. a
  <2>1. PICK j \in 1 .. n : j = b + i
    OBVIOUS
  <2> QED BY <1>1, <2>1 DEF Traced
<1>3. k \in 1 .. a - 1
  BY DEF Streak
<1> SUFFICES ASSUME NEW m \in 1 .. n - 1, m = b + k PROVE Run(r, m, n)'
  OBVIOUS
<1>4. Op(r, m)' = Operation(s[k]) /\ Op(r, n)' = Operation(s[a])
  <2>1. k \in 1 .. a /\ a \in 1 .. a
    BY <1>3
  <2> QED BY <1>2, <2>1
<1>5. \A j \in m + 1 .. n : Op(r, j)' = Operation(s[a])
  <2> TAKE j \in m + 1 .. n
  <2>1. PICK i \in k + 1 .. a : j = b + i
    <3>1. j - b \in k + 1 .. a /\ j = b + (j - b)
      BY <1>3
    <3> QED BY <3>1
  <2>2. i \in 1 .. a
    BY <1>3
  <2> QED BY <1>2, <2>1, <2>2 DEF Streak
<1> QED BY <1>4, <1>5 DEF Run, Streak

\* A rank supplies its gradient of this step to the collective that averages it.
LEMMA SuppliesIs ==
    ASSUME GroupInv, CallInv, MeanInv, NEW r \in Ranks, Work(r), GroupInv'
    PROVE  \A n \in 1 .. Len(asked'[r]) : Supplied(r, n)'
<1>1. PICK c \in Replicates \cup Shards : c = call[r]
  BY WorkIs
<1> DEFINE s == Rounds(c)
<1>2. /\ call[r] # None /\ at[r] \in 1 .. Len(s) /\ Round(r) = s[at[r]] /\ Len(s) \in Nat
  BY <1>1, WorkIs, CallIs
<1>3. /\ session' = session /\ kind' = kind /\ Len(asked[r]) \in Nat /\ Len(asked[r]) = Len(done[r])
      /\ Len(asked'[r]) = Len(asked[r]) + 1
      /\ \A n \in 1 .. Len(asked[r]) : asked'[r][n] = asked[r][n]
  BY WorkIs
<1>4. Base(r) \in Nat /\ Base(r) + at[r] = Len(asked[r]) + 1
  BY WorkIs
<1>5. \A i \in 1 .. at[r] - 1 : Tag(r, Base(r) + i) = s[i]
  BY <1>2, <1>1, CallIs
<1>6. PICK a \in Nat : a = at[r] /\ a \in 1 .. Len(s) /\ Round(r) = s[a]
  BY <1>2
<1>7. PICK b \in Nat : b = Base(r)
  BY <1>4
<1>8. PICK n \in Nat : n = b + a /\ n = Len(asked[r]) + 1 /\ n = Len(asked'[r])
  BY <1>3, <1>4, <1>6, <1>7
<1>9. Tag(r, n)' = Round(r) /\ What(r, n)' = Value(r)
  BY <1>8, WorkIs
<1>10. RankInv(r) /\ BackwardInv(r) /\ ShardInv(r) /\ BroadcastInv(r) /\ ModelInv(r)
  BY DEF CallInv, MeanInv
<1>11. s = Rounds(c)
  OBVIOUS
<1> HIDE DEF s
<1>12. \A i \in 1 .. a - 1 : Tag(r, b + i) = s[i]
  BY <1>5, <1>6, <1>7
<1>13. \A i \in 1 .. a : Tag(r, b + i)' = s[i]
  <2> TAKE i \in 1 .. a
  <2>1. PICK j \in Nat : j = b + i
    OBVIOUS
  <2>2. CASE i = a
    BY <1>6, <1>8, <1>9, <2>2
  <2>3. CASE i # a
    <3>1. i \in 1 .. a - 1 /\ j \in 1 .. Len(asked[r])
      BY <1>3, <1>8, <2>1, <2>3
    <3>2. Tag(r, j)' = Tag(r, j)
      BY <1>3, <3>1 DEF Tag
    <3> QED BY <1>12, <2>1, <3>1, <3>2
  <2> QED BY <2>2, <2>3
<1>14. Traced(r, b, a, s)'
  BY <1>13 DEF Traced
<1>15. Params \in Nat \ {0}
  BY ConstantsAre
<1>16. \A m \in 1 .. Len(asked[r]) : Supplied(r, m)'
  BY <1>3, SuppliedStays DEF MeanInv
<1>17. Supplied(r, n)' => \A m \in 1 .. Len(asked'[r]) : Supplied(r, m)'
  <2>1. \A m \in 1 .. Len(asked'[r]) : m \in 1 .. Len(asked[r]) \/ m = n
    BY <1>3, <1>8
  <2> QED BY <1>16, <2>1
<1>18. \A i \in 1 .. Len(s) :
        /\ s[i] = "all_reduce" => c = "backward_step" /\ i \in 13 .. Params + 12
        /\ s[i] = "reduce_scatter" => c = "train_step" /\ i \in Params + 8 .. 2 * Params + 7
        /\ s[i] = "mean_loss" => c = "train_step"
  BY <1>11, PlacesAre
<1>19. CASE Round(r) = "all_reduce"
  <2>1. c = "backward_step" /\ a \in 13 .. Params + 12
    BY <1>6, <1>18, <1>19
  <2>2. kind = "replicated"
    BY <1>10, <1>1, <2>1 DEF RankInv, Shards, None
  <2>3. PICK m \in 1 .. n - 1 : m = b + 12 /\ Run(r, m, n)'
    <3>1. s[12] = "same_metadata" /\ \A i \in 13 .. Params + 12 : s[i] = "all_reduce"
      BY <1>11, <2>1, BackwardIs
    <3>2. 12 \in 1 .. a - 1 /\ \A i \in 12 + 1 .. a : i \in 13 .. Params + 12
      BY <2>1, <1>15
    <3>3. Operation("same_metadata") # Operation("all_reduce")
      BY DEF Operation, Agreements
    <3>4. /\ Operation(s[12]) # Operation(s[a])
          /\ \A i \in 12 + 1 .. a : Operation(s[i]) = Operation(s[a])
      BY <2>1, <3>1, <3>2, <3>3
    <3>5. Streak(s, 12, a)
      BY <3>2, <3>4 DEF Streak
    <3>6. PICK m \in 1 .. n - 1 : m = b + 12
      BY <1>8, <2>1
    <3> QED BY <1>8, <1>14, <3>5, <3>6, RoundsRun
  <2>4. What(r, n)' = {<<r, session, m - 6>>}
    <3>1. at[r] \in 8 .. Params + 12 /\ call[r] = "backward_step"
      BY <1>6, <1>1, <2>1
    <3>2. m - 6 = b + 6
      BY <2>3
    <3>3. grad[r] = {<<r, session, Base(r) + 6>>}
      BY <1>10, <3>1 DEF BackwardInv
    <3> QED BY <1>7, <1>9, <1>19, <3>2, <3>3 DEF Value
  <2>5. Supplied(r, n)'
    BY <1>3, <1>9, <1>19, <2>2, <2>3, <2>4 DEF Supplied, Lag
  <2> QED BY <1>17, <2>5
<1>20. CASE Round(r) = "reduce_scatter"
  <2>1. c = "train_step" /\ a \in Params + 8 .. 2 * Params + 7
    BY <1>6, <1>18, <1>20
  <2>2. /\ s[Params + 7] = "gradients"
        /\ \A i \in Params + 8 .. 2 * Params + 7 : s[i] = "reduce_scatter"
    BY <1>11, <2>1, TrainIs
  <2>3. PICK m \in 1 .. n - 1 : m = b + (Params + 7) /\ Run(r, m, n)'
    <3>1. PICK k \in 1 .. a - 1 : k = Params + 7
      BY <1>15, <2>1
    <3>2. \A i \in k + 1 .. a : i \in Params + 8 .. 2 * Params + 7
      BY <1>15, <2>1, <3>1
    <3>3. Operation("gradients") # Operation("reduce_scatter")
      BY DEF Operation, Agreements
    <3>4. /\ Operation(s[k]) # Operation(s[a])
          /\ \A i \in k + 1 .. a : Operation(s[i]) = Operation(s[a])
      BY <2>2, <2>1, <3>1, <3>2, <3>3
    <3>5. Streak(s, k, a)
      BY <3>1, <3>4 DEF Streak
    <3>6. PICK m \in 1 .. n - 1 : m = b + k
      BY <1>8, <3>1
    <3> QED BY <1>8, <1>14, <3>1, <3>5, <3>6, RoundsRun
  <2>4. m - 1 = b + Params + 6
    BY <1>15, <2>3
  <2>5. ASSUME a = Params + 8 PROVE Supplied(r, n)'
    <3>1. hand[r] = {<<r, session, Base(r) + Params + 6>>}
      BY <1>6, <1>10, <1>1, <2>1, <2>5 DEF ShardInv
    <3>2. What(r, n)' = {<<r, session, m - 1>>}
      BY <1>7, <1>9, <1>20, <2>4, <3>1 DEF Value
    <3> QED BY <1>3, <1>9, <1>20, <2>3, <3>2 DEF Supplied, Lag, Reductions
  <2>6. ASSUME a # Params + 8 PROVE Supplied(r, n)'
    <3>1. a \in Params + 9 .. 2 * Params + 9 /\ a # 2 * Params + 9
      BY <1>15, <2>1, <2>6
    <3>2. PICK l \in 1 .. Len(done[r]) : l = b + a - 1
      BY <1>3, <1>8, <1>15, <3>1
    <3>3. hand[r] = done[r][l]
      BY <1>6, <1>7, <1>10, <1>1, <2>1, <3>1, <3>2 DEF ShardInv
    <3>4. Tag(r, l) = "reduce_scatter"
      <4>1. a - 1 \in 1 .. a - 1 /\ l = b + (a - 1)
        BY <1>15, <3>1, <3>2
      <4>2. a - 1 \in Params + 8 .. 2 * Params + 7
        BY <1>15, <2>1, <2>6
      <4> QED BY <1>12, <2>2, <4>1, <4>2
    <3>5. PICK k \in 1 .. l - 1 : Run(r, k, l) /\ done[r][l] = Mean(k - 1)
      BY <3>4, ReducedIs DEF Lag, Reductions
    <3>6. k = m
      <4>1. n = l + 1 /\ l \in Nat /\ m \in 1 .. l - 1
        BY <1>8, <1>15, <2>1, <2>3, <3>1, <3>2
      <4>2. \A j \in 1 .. l : Op(r, j)' = Op(r, j)
        <5>1. \A j \in 1 .. l : j \in 1 .. Len(asked[r])
          BY <1>3, <3>2
        <5> QED BY <1>3, <5>1 DEF Op
      <4>3. /\ Op(r, m)' # Op(r, n)' /\ \A j \in m + 1 .. n : Op(r, j)' = Op(r, n)'
        BY <2>3 DEF Run
      <4>4. m \in 1 .. l /\ l \in 1 .. l /\ l \in m + 1 .. n
        BY <4>1
      <4>5. \A j \in m + 1 .. l : j \in 1 .. l /\ j \in m + 1 .. n
        BY <4>1
      <4>6. Run(r, m, l)
        BY <4>1, <4>2, <4>3, <4>4, <4>5 DEF Run
      <4>7. Concluded(l)
        BY DEF Concluded
      <4> QED BY <3>5, <4>1, <4>6, <4>7, RunIsOne
    <3>7. What(r, n)' = Mean(m - 1)
      BY <1>9, <1>20, <3>3, <3>5, <3>6 DEF Value
    <3>8. \A j : Mean(j)' = Mean(j)
      BY <1>3 DEF Mean
    <3> QED BY <1>3, <1>9, <1>20, <2>3, <3>7, <3>8 DEF Supplied, Lag, Reductions
  <2> QED BY <1>17, <2>5, <2>6
<1>21. CASE Round(r) \notin Reductions
  <2>1. Round(r) = "mean_loss" => kind = "sharded"
    <3>1. Round(r) = "mean_loss" => call[r] = "train_step"
      BY <1>6, <1>1, <1>18
    <3> QED BY <1>10, <3>1 DEF RankInv, Replicates, CallInv, None
  <2>2. Round(r) = "broadcast" => IsModel(Value(r))
    BY <1>10 DEF ModelInv, Value
  <2>3. Supplied(r, n)'
    BY <1>3, <1>9, <1>21, <2>1, <2>2 DEF Supplied, Reductions, IsModel
  <2> QED BY <1>17, <2>3
<1> QED BY <1>19, <1>20, <1>21 DEF Reductions

\* A model that was made by means and is updated with one more is made by means.
LEMMA ModelGrows ==
    ASSUME NEW w, IsModel(w), NEW u, IsMean(u)
    PROVE  IsModel([w EXCEPT !.updates = Append(@, u)])
<1> DEFINE v == Append(w.updates, u)
<1>1. /\ IsSeq(v) /\ Len(v) = Len(w.updates) + 1 /\ v[Len(w.updates) + 1] = u
      /\ \A i \in 1 .. Len(w.updates) : v[i] = w.updates[i]
      /\ Len(w.updates) \in Nat
  BY AppendIs DEF IsModel, IsSeq
<1>2. w = [base |-> w.base, updates |-> w.updates]
  BY DEF IsModel
<1> HIDE DEF v
<1>3. [w EXCEPT !.updates = v] = [base |-> w.base, updates |-> v]
  BY <1>2
<1>4. \A i \in 1 .. Len(v) : IsMean(v[i])
  BY <1>1 DEF IsModel
<1>5. IsModel([base |-> w.base, updates |-> v])
  BY <1>1, <1>4 DEF IsModel
<1> QED BY <1>3, <1>5 DEF v

\* What a rank is about to apply is a mean, and what it takes over is a model.
LEMMA AppliedIs ==
    ASSUME GroupInv, CallInv, MeanInv, NEW r \in Ranks, call[r] # None
    PROVE  /\ call[r] = "backward_step" /\ at[r] >= Params + 14 => IsMean(grad[r])
           /\ call[r] = "train_step" /\ at[r] >= 2 * Params + 10 => IsMean(grad[r])
           /\ call[r] \in {"construct", "new"} /\ at[r] = Params + 3 => IsModel(hand[r])
<1>1. PICK c : c = call[r]
  OBVIOUS
<1>2. PICK a \in Nat : a = at[r] /\ a # 0
  BY CallIs
<1>3. PICK b \in Nat : b = Base(r) /\ b + a = Len(done[r]) + 1 /\ Len(done[r]) \in Nat
  BY <1>2, CallIs
<1>4. \A i \in 1 .. a - 1 : Tag(r, b + i) = Rounds(c)[i]
  BY <1>1, <1>2, <1>3, CallIs
<1>5. Params \in Nat \ {0}
  BY ConstantsAre
<1>6. BackwardInv(r) /\ ShardInv(r) /\ BroadcastInv(r)
  BY DEF MeanInv
<1>7. ASSUME NEW n \in 1 .. Len(done[r]), Tag(r, n) \in Reductions PROVE IsMean(done[r][n])
  BY <1>7, ReducedIs, MeanIs
<1>8. ASSUME c = "backward_step", a >= Params + 14 PROVE IsMean(grad[r])
  <2>1. PICK n \in 1 .. Len(done[r]) : n = b + (Params + 12)
    BY <1>3, <1>5, <1>8
  <2>2. Params + 12 \in 1 .. a - 1 /\ Params + 12 \in 13 .. Params + 12
    BY <1>5, <1>8
  <2>3. Tag(r, n) = "all_reduce"
    BY <1>4, <1>8, <2>1, <2>2, BackwardIs
  <2>4. grad[r] = done[r][n]
    BY <1>1, <1>2, <1>3, <1>5, <1>6, <1>8, <2>1 DEF BackwardInv
  <2> QED BY <1>7, <2>3, <2>4 DEF Reductions
<1>9. ASSUME c = "train_step", a >= 2 * Params + 10 PROVE IsMean(grad[r])
  <2>1. PICK n \in 1 .. Len(done[r]) : n = b + (2 * Params + 7)
    BY <1>3, <1>5, <1>9
  <2>2. 2 * Params + 7 \in 1 .. a - 1 /\ 2 * Params + 7 \in Params + 8 .. 2 * Params + 7
    BY <1>5, <1>9
  <2>3. Tag(r, n) = "reduce_scatter"
    BY <1>4, <1>9, <2>1, <2>2, TrainIs
  <2>4. grad[r] = done[r][n]
    BY <1>1, <1>2, <1>3, <1>5, <1>6, <1>9, <2>1 DEF ShardInv
  <2> QED BY <1>7, <2>3, <2>4 DEF Reductions
<1>10. ASSUME c \in {"construct", "new"}, a = Params + 3 PROVE IsModel(hand[r])
  <2>1. PICK n \in 1 .. Len(done[r]) : n = b + (Params + 2)
    BY <1>3, <1>5, <1>10
  <2>2. Params + 2 \in 1 .. a - 1 /\ Params + 2 \in 3 .. Params + 2
    BY <1>5, <1>10
  <2>3. Rounds(c)[Params + 2] = "broadcast"
    BY <1>10, <2>2, ConstructIs, NewIs DEF Rounds
  <2>4. Tag(r, n) = "broadcast"
    BY <1>4, <2>1, <2>2, <2>3
  <2>5. hand[r] = done[r][n]
    BY <1>1, <1>2, <1>3, <1>5, <1>6, <1>10, <2>1 DEF BroadcastInv
  <2> QED BY <2>4, <2>5, BroadcastIs, ConstantsAre DEF MeanInv, Supplied
<1> QED BY <1>1, <1>2, <1>8, <1>9, <1>10

\* What the work of a round makes of a rank's gradient and model.
LEMMA MeanWorks ==
    ASSUME GroupInv, CallInv, RestoreInv, MeanInv, NEW r \in Ranks, Work(r), GroupInv'
    PROVE  MeanInv'
<1>1. PICK c \in Replicates \cup Shards : c = call[r]
  BY WorkIs
<1>2. /\ call[r] # None /\ ~Group!Waits(r) /\ Group!Waits(r)' /\ at[r] \in 1 .. Len(Rounds(c))
      /\ Round(r) = Rounds(c)[at[r]] /\ Len(Rounds(c)) \in Nat
      /\ UNCHANGED <<kind, session, call, at, saved, done>>
  BY <1>1, WorkIs, CallIs
<1>3. /\ Base(r) \in Nat /\ Base(r) + at[r] = Len(done[r]) + 1 /\ Len(done[r]) \in Nat
      /\ \A q \in Ranks \ {r} : asked'[q] = asked[q]
      /\ \A i \in 1 .. at[r] - 1 : Tag(r, Base(r) + i) = Rounds(c)[i]
  BY <1>1, <1>2, WorkIs, CallIs
<1>4. PICK ok \in BOOLEAN : LocalWork(r, ok) /\ (Asking(r)' <=> ok) /\ (ok => Succeeds(r))
  BY WorkIs
<1>local. /\ Round(r) \notin {"zero", "backward", "seed", "copy"} => grad'[r] = grad[r]
          /\ ok /\ Round(r) = "zero" => grad'[r] = {}
          /\ ok /\ Round(r) = "backward" => grad'[r] = grad[r] \cup Own(r)
          /\ ok /\ Round(r) = "seed" => grad'[r] = grad[r] \cup hand[r]
          /\ ok /\ Round(r) = "copy" => grad'[r] = hand[r]
          /\ Round(r) # "gradients" => hand'[r] = hand[r]
          /\ ok /\ Round(r) = "gradients" => hand'[r] = Own(r)
  BY <1>4, LocalIs
<1>5. Base(r)' = Base(r)
  BY <1>2 DEF Base
<1>6. PICK a \in Nat : a = at[r] /\ a \in 1 .. Len(Rounds(c)) /\ Round(r) = Rounds(c)[a]
  BY <1>2
<1>7. PICK b \in Nat : b = Base(r) /\ b + a = Len(done[r]) + 1
  BY <1>3, <1>6
<1>8. Params \in Nat \ {0}
  BY ConstantsAre
<1>9. BackwardInv(r) /\ ShardInv(r) /\ BroadcastInv(r) /\ ModelInv(r)
  BY DEF MeanInv
<1>10. /\ Round(r) = "zero" => (c = "backward_step" /\ a = 6) \/ (c = "train_step" /\ a = 2 * Params + 8)
       /\ Round(r) = "backward" => c = "backward_step" /\ a = 7
       /\ Round(r) = "copy" => c = "backward_step" /\ a = Params + 13
       /\ Round(r) = "seed" => c = "train_step" /\ a = 2 * Params + 9
       /\ Round(r) = "gradients" => c = "train_step" /\ a = Params + 7
       /\ Round(r) = "step" => \/ c = "backward_step" /\ a = Params + 14
                               \/ c = "train_step" /\ a = 2 * Params + 10
       /\ Round(r) = "built" => c = "new" /\ a = Params + 3
       /\ Round(r) = "capture" => c = "checkpoint" /\ a = 2
       /\ Round(r) = "valid" => c = "restore"
  BY <1>6, PlacesAre
<1>11. Own(r) = {<<r, session, b + a - 1>>}
  <2>1. Len(done[r]) = b + a - 1 BY <1>7, <1>3
  <2> QED BY <2>1 DEF Own
<1>12. BackwardInv(r)'
  <2> SUFFICES ASSUME c = "backward_step"
               PROVE  /\ a = 6 /\ ok => grad'[r] = {}
                      /\ (a = 7 /\ ok) \/ a \in 8 .. Params + 12 => grad'[r] = {<<r, session, b + 6>>}
                      /\ a \in 14 .. Params + 13 => hand'[r] = done[r][b + a - 1]
                      /\ (a = Params + 13 /\ ok) \/ a >= Params + 14 =>
                            grad'[r] = done[r][b + Params + 12]
    BY <1>1, <1>2, <1>4, <1>5, <1>6, <1>7 DEF BackwardInv
  <2>1. /\ a = 6 => Round(r) = "zero"
        /\ a = 7 => Round(r) = "backward"
        /\ a = Params + 13 => Round(r) = "copy"
    BY <1>6, BackwardIs
  <2>2. a = 6 /\ ok => grad'[r] = {}
    BY ONLY <1>local, <2>1
  <2>3. ASSUME a = 7, ok PROVE grad'[r] = {<<r, session, b + 6>>}
    <3>1. grad[r] = {}
      BY <1>1, <1>2, <1>6, <1>9, <2>3 DEF BackwardInv
    <3>2. b + a - 1 = b + 6
      BY <2>3
    <3>3. grad'[r] = grad[r] \cup Own(r)
      BY ONLY <1>local, <2>1, <2>3
    <3> QED BY ONLY <1>11, <3>1, <3>2, <3>3
  <2>4. a \in 8 .. Params + 12 => grad'[r] = {<<r, session, b + 6>>}
    <3> SUFFICES ASSUME a \in 8 .. Params + 12 PROVE grad'[r] = {<<r, session, b + 6>>}
      OBVIOUS
    <3>1. grad[r] = {<<r, session, b + 6>>}
      BY <1>1, <1>6, <1>7, <1>9 DEF BackwardInv
    <3>2. Round(r) \notin {"zero", "backward", "seed", "copy"}
      BY <1>8, <1>10
    <3> QED BY ONLY <1>local, <3>1, <3>2
  <2>5. a \in 14 .. Params + 13 => hand'[r] = done[r][b + a - 1]
    <3>1. a \in 14 .. Params + 13 => hand[r] = done[r][b + a - 1]
      BY <1>1, <1>6, <1>7, <1>9 DEF BackwardInv
    <3>2. Round(r) # "gradients"
      BY <1>10
    <3> QED BY ONLY <1>local, <3>1, <3>2
  <2>6. a = Params + 13 /\ ok => grad'[r] = done[r][b + Params + 12]
    <3> SUFFICES ASSUME a = Params + 13, ok PROVE grad'[r] = done[r][b + Params + 12]
      OBVIOUS
    <3>1. a \in 14 .. Params + 13 /\ b + a - 1 = b + Params + 12
      BY <1>8
    <3>2. hand[r] = done[r][b + a - 1]
      BY <1>1, <1>6, <1>7, <1>9, <3>1 DEF BackwardInv
    <3> QED BY <1>local, <2>1, <3>1, <3>2
  <2>7. a >= Params + 14 => grad'[r] = done[r][b + Params + 12]
    <3> SUFFICES ASSUME a >= Params + 14 PROVE grad'[r] = done[r][b + Params + 12]
      OBVIOUS
    <3>1. grad[r] = done[r][b + Params + 12]
      BY <1>1, <1>6, <1>7, <1>9 DEF BackwardInv
    <3>2. Round(r) \notin {"zero", "backward", "seed", "copy"}
      BY <1>8, <1>10
    <3> QED BY ONLY <1>local, <3>1, <3>2
  <2> QED BY <2>2, <2>3, <2>4, <2>5, <2>6, <2>7
<1>13. ShardInv(r)'
  <2> SUFFICES ASSUME c = "train_step"
               PROVE  /\ (a = Params + 7 /\ ok) \/ a = Params + 8 =>
                            hand'[r] = {<<r, session, b + Params + 6>>}
                      /\ a \in Params + 9 .. 2 * Params + 9 =>
                            hand'[r] = done[r][IF a = 2 * Params + 9 THEN b + 2 * Params + 7 ELSE b + a - 1]
                      /\ a = 2 * Params + 8 /\ ok => grad'[r] = {}
                      /\ (a = 2 * Params + 9 /\ ok) \/ a >= 2 * Params + 10 =>
                            grad'[r] = done[r][b + 2 * Params + 7]
    BY <1>1, <1>2, <1>4, <1>5, <1>6, <1>7 DEF ShardInv
  <2>1. /\ a = Params + 7 => Round(r) = "gradients"
        /\ a = 2 * Params + 8 => Round(r) = "zero"
        /\ a = 2 * Params + 9 => Round(r) = "seed"
    BY <1>6, TrainIs
  <2>2. a # Params + 7 => hand'[r] = hand[r]
    BY ONLY <1>local, <1>10
  <2>3. a = Params + 7 /\ ok => hand'[r] = {<<r, session, b + Params + 6>>}
    <3> SUFFICES ASSUME a = Params + 7, ok PROVE hand'[r] = {<<r, session, b + Params + 6>>}
      OBVIOUS
    <3>1. b + a - 1 = b + Params + 6
      BY <1>8
    <3>2. hand'[r] = Own(r)
      BY <1>local, <2>1
    <3> QED BY <1>11, <3>1, <3>2
  <2>4. a = Params + 8 => hand'[r] = {<<r, session, b + Params + 6>>}
    BY <1>1, <1>6, <1>7, <1>8, <1>9, <2>2 DEF ShardInv
  <2>5. a \in Params + 9 .. 2 * Params + 9 =>
            hand'[r] = done[r][IF a = 2 * Params + 9 THEN b + 2 * Params + 7 ELSE b + a - 1]
    BY <1>1, <1>6, <1>7, <1>8, <1>9, <2>2 DEF ShardInv
  <2>6. a = 2 * Params + 8 /\ ok => grad'[r] = {}
    BY ONLY <1>local, <2>1
  <2>7. a = 2 * Params + 9 /\ ok => grad'[r] = done[r][b + 2 * Params + 7]
    <3> SUFFICES ASSUME a = 2 * Params + 9, ok PROVE grad'[r] = done[r][b + 2 * Params + 7]
      OBVIOUS
    <3>1. a \in Params + 9 .. 2 * Params + 9
      BY <1>8
    <3>2. grad[r] = {} /\ hand[r] = done[r][b + 2 * Params + 7]
      BY <1>1, <1>2, <1>6, <1>7, <1>9, <3>1 DEF ShardInv
    <3>3. grad'[r] = grad[r] \cup hand[r]
      BY <1>local, <2>1
    <3> QED BY <3>2, <3>3
  <2>8. a >= 2 * Params + 10 => grad'[r] = done[r][b + 2 * Params + 7]
    <3> SUFFICES ASSUME a >= 2 * Params + 10 PROVE grad'[r] = done[r][b + 2 * Params + 7]
      OBVIOUS
    <3>1. grad[r] = done[r][b + 2 * Params + 7]
      BY <1>1, <1>6, <1>7, <1>9 DEF ShardInv
    <3>2. Round(r) \notin {"zero", "backward", "seed", "copy"}
      BY <1>8, <1>10
    <3> QED BY ONLY <1>local, <3>1, <3>2
  <2> QED BY <2>3, <2>4, <2>5, <2>6, <2>7, <2>8
<1>14. BroadcastInv(r)'
  <2>1. c \in {"construct", "new"} => hand'[r] = hand[r]
    BY <1>4, <1>10, LocalIs
  <2> QED BY <1>1, <1>2, <1>5, <1>9, <2>1 DEF BroadcastInv
<1>15. ModelInv(r)'
  <2>1. IsModel(weights'[r])
    <3>1. CASE ok /\ Round(r) = "step"
      <4>1. IsMean(grad[r])
        BY <1>1, <1>2, <1>6, <1>10, <3>1, AppliedIs
      <4>2. weights'[r] = [weights[r] EXCEPT !.updates = Append(@, grad[r])]
        BY <1>4, <3>1, LocalIs
      <4>3. IsModel(weights[r])
        BY <1>9 DEF ModelInv
      <4>4. IsModel([weights[r] EXCEPT !.updates = Append(@, grad[r])])
        BY <4>1, <4>3, ModelGrows
      <4> QED BY <4>2, <4>4
    <3>2. CASE ok /\ Round(r) = "built"
      <4>1. IsModel(hand[r])
        BY <1>1, <1>2, <1>6, <1>10, <3>2, AppliedIs
      <4> QED BY <1>4, <3>2, <4>1, LocalIs
    <3>3. CASE ~(ok /\ Round(r) \in {"step", "built"})
      BY <1>4, <1>9, <3>3, LocalIs DEF ModelInv
    <3> QED BY <3>1, <3>2, <3>3
  <2>2. ASSUME c = "checkpoint", a >= 2
        PROVE  IsModel(record'[r].weights) /\ IsSeq(record'[r].moments)
    <3>1. CASE a = 2
      <4>1. Round(r) = "capture"
        BY <1>6, <2>2, <3>1, CheckpointIs
      <4>2. record'[r] = [stamp |-> <<session, Len(done[r])>>, weights |-> weights[r], moments |-> moments[r]]
        BY <1>4, <4>1, LocalIs
      <4>3. record'[r].weights = weights[r] /\ record'[r].moments = moments[r]
        BY <4>2
      <4> QED BY <1>9, <4>3 DEF ModelInv
    <3>2. CASE a # 2
      <4>1. Round(r) \notin {"capture", "valid"}
        BY <1>10, <2>2, <3>2
      <4>2. record'[r] = record[r]
        BY <1>4, <4>1, LocalIs
      <4> QED BY <1>1, <1>6, <1>9, <2>2, <3>2, <4>2 DEF ModelInv
    <3> QED BY <3>1, <3>2
  <2>3. \A w : IsModel(w)' <=> IsModel(w)
    BY DEF IsModel
  <2>4. ModelInv(r)' <=> /\ IsModel(weights'[r]) /\ IsSeq(moments'[r])
                         /\ saved'[r] # Nothing => IsModel(saved'[r].weights) /\ IsSeq(saved'[r].moments)
                         /\ call'[r] = "checkpoint" /\ (at'[r] >= 3 \/ (at'[r] = 2 /\ Group!Waits(r)')) =>
                              IsModel(record'[r].weights) /\ IsSeq(record'[r].moments)
    BY <2>3 DEF ModelInv
  <2>5. IsSeq(moments'[r])
    <3>1. IsSeq(moments[r])
      BY <1>9 DEF ModelInv
    <3>2. moments'[r] \in {moments[r], <<>>, Append(moments[r], grad[r])}
      BY <1>4, LocalIs
    <3>3. IsSeq(Append(moments[r], grad[r]))
      BY <3>1, AppendIs
    <3> QED BY <3>1, <3>2, <3>3, EmptyIs
  <2> QED BY <1>1, <1>2, <1>6, <1>9, <2>1, <2>2, <2>4, <2>5 DEF ModelInv
<1>16. ASSUME NEW q \in Ranks, q # r
       PROVE  /\ \A n \in 1 .. Len(asked'[q]) : Supplied(q, n)'
              /\ BackwardInv(q)' /\ ShardInv(q)' /\ BroadcastInv(q)' /\ ModelInv(q)'
  <2>1. Len(asked[q]) \in Nat
    BY DEF GroupInv, IsSeq
  <2>2. /\ grad'[q] = grad[q] /\ hand'[q] = hand[q] /\ record'[q] = record[q]
        /\ weights'[q] = weights[q] /\ moments'[q] = moments[q]
    BY <1>4, <1>16, LocalIs
  <2> QED BY <1>2, <1>3, <1>16, <2>1, <2>2, MeanUnmoved
<1>17. DOMAIN weights' = Ranks /\ DOMAIN moments' = Ranks /\ DOMAIN grad' = Ranks
  BY <1>4, LocalIs
<1> QED BY <1>12, <1>13, <1>14, <1>15, <1>16, <1>17, SuppliesIs DEF MeanInv

\* What a rank receives is what its work needs next.
LEMMA MeanReceives ==
    ASSUME GroupInv, CallInv, RestoreInv, MeanInv, NEW r \in Ranks, Receive(r)
    PROVE  MeanInv'
<1>1. /\ call[r] # None /\ Group!Waits(r) /\ Group!Receive(r)
      /\ at' = [at EXCEPT ![r] = at[r] + 1] /\ asked' = asked
      /\ call'[r] \in {None, call[r]} /\ \A q \in Ranks \ {r} : call'[q] = call[q]
      /\ UNCHANGED <<kind, session, record, saved, weights, moments, grad>>
  BY DEF Receive, Group!Receive, CallInv, state
<1>2. PICK c \in Replicates \cup Shards : c = call[r]
  BY <1>1, CallIs
<1>3. /\ at[r] \in Nat \ {0} /\ Len(asked[r]) = Len(done[r]) + 1 /\ Len(done[r]) \in Nat
      /\ at[r] \in 1 .. Len(Rounds(c)) /\ Round(r) = Rounds(c)[at[r]]
      /\ Base(r) \in Nat /\ Base(r) + at[r] = Len(done[r]) + 1
  BY <1>1, <1>2, CallIs
<1>4. /\ Len(done'[r]) = Len(done[r]) + 1 /\ \A q \in Ranks \ {r} : done'[q] = done[q]
      /\ done'[r][Len(done[r]) + 1] = Outcome(Group!Requests(Len(done[r]) + 1), r)
      /\ \A n \in 1 .. Len(done[r]) : done'[r][n] = done[r][n]
  BY <1>1, ReceiveAdds
<1>5. DOMAIN at = Ranks /\ DOMAIN hand = Ranks
  BY DEF CallInv, RestoreInv
<1>6. /\ at'[r] = at[r] + 1 /\ ~Group!Waits(r)' /\ ~Asking(r)'
      /\ \A q \in Ranks \ {r} : at'[q] = at[q]
  BY <1>1, <1>3, <1>4, <1>5 DEF Group!Waits, Asking
<1>7. PICK a \in Nat : a = at[r] /\ a \in 1 .. Len(Rounds(c)) /\ Round(r) = Rounds(c)[a]
  BY <1>3
<1>8. PICK b \in Nat : b = Base(r) /\ b + a = Len(done[r]) + 1 /\ b + a = Len(asked[r])
  BY <1>3, <1>7
<1>9. Base(r)' = b
  BY <1>4, <1>6, <1>7, <1>8 DEF Base
<1>10. /\ Operation(Round(r)) = "Barrier" => hand' = hand
       /\ Operation(Round(r)) # "Barrier" =>
            hand' = [hand EXCEPT ![r] = Outcome(Group!Requests(b + a), r)]
       /\ Asking(r)
  BY <1>1, <1>5, <1>8, GotIs DEF Asking
<1>11. /\ Operation(Round(r)) = "Barrier" => hand'[r] = hand[r]
       /\ Operation(Round(r)) # "Barrier" => hand'[r] = done'[r][b + a]
       /\ \A q \in Ranks \ {r} : hand'[q] = hand[q]
  BY <1>4, <1>5, <1>8, <1>10
<1>12. \A n \in 1 .. b + a - 1 : done'[r][n] = done[r][n]
  BY <1>4, <1>8
<1>13. Params \in Nat \ {0}
  BY ConstantsAre
<1>14. BackwardInv(r) /\ ShardInv(r) /\ BroadcastInv(r) /\ ModelInv(r)
  BY DEF MeanInv
<1>15. BackwardInv(r)'
  <2> SUFFICES ASSUME c = "backward_step"
               PROVE  /\ a = 6 => grad[r] = {}
                      /\ a + 1 \in 8 .. Params + 12 => grad[r] = {<<r, session, b + 6>>}
                      /\ a + 1 \in 14 .. Params + 13 => hand'[r] = done'[r][b + a]
                      /\ a + 1 >= Params + 14 => grad[r] = done'[r][b + Params + 12]
    BY <1>1, <1>2, <1>6, <1>7, <1>9 DEF BackwardInv, None
  <2>1. /\ a = 6 => grad[r] = {}
        /\ a + 1 \in 8 .. Params + 12 => grad[r] = {<<r, session, b + 6>>}
    <3>1. a + 1 \in 8 .. Params + 12 => a = 7 \/ a \in 8 .. Params + 12
      BY <1>13
    <3> QED BY <1>2, <1>7, <1>8, <1>10, <1>14, <3>1 DEF BackwardInv
  <2>2. ASSUME a + 1 \in 14 .. Params + 13 PROVE hand'[r] = done'[r][b + a]
    <3>1. a \in 13 .. Params + 12
      BY <1>13, <2>2
    <3>2. Round(r) = "all_reduce"
      BY <1>7, <3>1, BackwardIs
    <3> QED BY <1>11, <3>2 DEF Operation, Agreements
  <2>3. ASSUME a + 1 >= Params + 14 PROVE grad[r] = done'[r][b + Params + 12]
    <3>1. (a = Params + 13 /\ Asking(r)) \/ a >= Params + 14
      BY <1>10, <1>13, <2>3
    <3>2. grad[r] = done[r][b + Params + 12]
      BY <1>2, <1>7, <1>8, <1>14, <3>1 DEF BackwardInv
    <3>3. b + Params + 12 \in 1 .. b + a - 1
      BY <1>13, <2>3
    <3> QED BY <1>12, <3>2, <3>3
  <2> QED BY <2>1, <2>2, <2>3
<1>16. ShardInv(r)'
  <2> SUFFICES ASSUME c = "train_step"
               PROVE  /\ a = Params + 7 => hand'[r] = {<<r, session, b + Params + 6>>}
                      /\ a \in Params + 8 .. 2 * Params + 7 => hand'[r] = done'[r][b + a]
                      /\ a = 2 * Params + 8 => hand'[r] = done'[r][b + 2 * Params + 7]
                      /\ a = 2 * Params + 8 => grad[r] = {}
                      /\ a + 1 >= 2 * Params + 10 => grad[r] = done'[r][b + 2 * Params + 7]
    <3>0. at'[r] = a + 1
      BY <1>6, <1>7
    <3>1. /\ at'[r] = Params + 8 => a = Params + 7
          /\ at'[r] \in Params + 9 .. 2 * Params + 9 /\ at'[r] # 2 * Params + 9 =>
                a \in Params + 8 .. 2 * Params + 7 /\ Base(r)' + at'[r] - 1 = b + a
          /\ at'[r] = 2 * Params + 9 => a = 2 * Params + 8
      BY ONLY <1>9, <1>13, <3>0, a \in Nat, b \in Nat
    <3>2. at'[r] >= 2 * Params + 10 => a + 1 >= 2 * Params + 10
      BY <1>6, <1>7
    <3> QED BY <1>1, <1>2, <1>6, <1>9, <3>1, <3>2 DEF ShardInv, None
  <2>1. ASSUME a = Params + 7 PROVE hand'[r] = {<<r, session, b + Params + 6>>}
    <3>1. Round(r) = "gradients"
      BY <1>7, <2>1, TrainIs
    <3>2. hand[r] = {<<r, session, b + Params + 6>>}
      BY <1>2, <1>7, <1>8, <1>10, <1>14, <2>1 DEF ShardInv
    <3> QED BY <1>11, <3>1, <3>2 DEF Operation, Agreements
  <2>2. ASSUME a \in Params + 8 .. 2 * Params + 7 PROVE hand'[r] = done'[r][b + a]
    <3>1. Round(r) = "reduce_scatter"
      BY <1>7, <2>2, TrainIs
    <3> QED BY <1>11, <3>1 DEF Operation, Agreements
  <2>3. ASSUME a = 2 * Params + 8 PROVE hand'[r] = done'[r][b + 2 * Params + 7]
    <3>1. Round(r) = "zero"
      BY <1>7, <2>3, TrainIs
    <3>2. a \in Params + 9 .. 2 * Params + 9 /\ a # 2 * Params + 9 /\ b + a - 1 = b + 2 * Params + 7
      BY <1>13, <2>3
    <3>3. hand[r] = done[r][b + 2 * Params + 7]
      BY <1>2, <1>7, <1>8, <1>14, <3>2 DEF ShardInv
    <3>4. b + 2 * Params + 7 \in 1 .. b + a - 1
      BY <1>13, <2>3
    <3> QED BY <1>11, <1>12, <3>1, <3>3, <3>4 DEF Operation, Agreements
  <2>4. a = 2 * Params + 8 => grad[r] = {}
    BY <1>2, <1>7, <1>10, <1>14 DEF ShardInv
  <2>5. ASSUME a + 1 >= 2 * Params + 10 PROVE grad[r] = done'[r][b + 2 * Params + 7]
    <3>1. (a = 2 * Params + 9 /\ Asking(r)) \/ a >= 2 * Params + 10
      BY <1>10, <1>13, <2>5
    <3>2. grad[r] = done[r][b + 2 * Params + 7]
      BY <1>2, <1>7, <1>8, <1>14, <3>1 DEF ShardInv
    <3>3. b + 2 * Params + 7 \in 1 .. b + a - 1
      BY <1>13, <2>5
    <3> QED BY <1>12, <3>2, <3>3
  <2> QED BY <2>1, <2>2, <2>3, <2>4, <2>5
<1>17. BroadcastInv(r)'
  <2> SUFFICES ASSUME c \in {"construct", "new"}, a + 1 \in 4 .. Params + 3
               PROVE  hand'[r] = done'[r][b + a]
    BY <1>1, <1>2, <1>6, <1>7, <1>9 DEF BroadcastInv, None
  <2>1. a \in 3 .. Params + 2
    BY <1>13
  <2>2. Round(r) = "broadcast"
    BY <1>7, <2>1, ConstructIs, NewIs DEF Rounds
  <2> QED BY <1>11, <2>2 DEF Operation
<1>18. ModelInv(r)'
  <2>1. \A w : IsModel(w)' <=> IsModel(w)
    BY DEF IsModel
  <2>2. ModelInv(r)' <=> /\ IsModel(weights[r]) /\ IsSeq(moments[r])
                         /\ saved[r] # Nothing => IsModel(saved[r].weights) /\ IsSeq(saved[r].moments)
                         /\ call'[r] = "checkpoint" /\ (at'[r] >= 3 \/ (at'[r] = 2 /\ Group!Waits(r)')) =>
                              IsModel(record[r].weights) /\ IsSeq(record[r].moments)
    BY <1>1, <2>1 DEF ModelInv
  <2> QED BY <1>1, <1>6, <1>7, <1>14, <2>2 DEF ModelInv, None
<1>19. \A n \in 1 .. Len(asked'[r]) : Supplied(r, n)'
  <2>1. Len(asked[r]) \in Nat BY <1>3
  <2> QED BY <1>1, <2>1, SuppliedStays DEF MeanInv
<1>20. ASSUME NEW q \in Ranks, q # r
       PROVE  /\ \A n \in 1 .. Len(asked'[q]) : Supplied(q, n)'
              /\ BackwardInv(q)' /\ ShardInv(q)' /\ BroadcastInv(q)' /\ ModelInv(q)'
  <2>1. Len(asked[q]) \in Nat
    BY DEF GroupInv, IsSeq
  <2> QED BY <1>1, <1>4, <1>6, <1>11, <1>20, <2>1, MeanUnmoved
<1> QED BY <1>1, <1>15, <1>16, <1>17, <1>18, <1>19, <1>20 DEF MeanInv

\* Initially no rank has a gradient, and every model is fresh.
LEMMA MeanInit == ASSUME Init PROVE MeanInv
<1>1. /\ weights = [r \in Ranks |-> [base |-> r, updates |-> <<>>]]
      /\ moments = [r \in Ranks |-> <<>>] /\ grad = [r \in Ranks |-> {}]
      /\ call = [r \in Ranks |-> None] /\ asked = [r \in Ranks |-> <<>>]
      /\ saved = [r \in Ranks |-> Nothing]
  BY DEF Init, Group!Init
<1>2. ASSUME NEW r \in Ranks
      PROVE  /\ \A n \in 1 .. Len(asked[r]) : Supplied(r, n)
             /\ BackwardInv(r) /\ ShardInv(r) /\ BroadcastInv(r) /\ ModelInv(r)
  <2>1. 1 .. Len(asked[r]) = {}
    BY <1>1, EmptyIs
  <2>2. /\ call[r] = None /\ saved[r] = Nothing /\ weights[r] = [base |-> r, updates |-> <<>>]
        /\ moments[r] = <<>>
    BY <1>1
  <2>3. BackwardInv(r) /\ ShardInv(r) /\ BroadcastInv(r)
    BY <2>2 DEF BackwardInv, ShardInv, BroadcastInv, None
  <2>4. ModelInv(r)
    BY <2>2, FreshIs, EmptyIs DEF ModelInv, None
  <2> QED BY <2>1, <2>3, <2>4
<1> QED BY <1>1, <1>2 DEF MeanInv

\* No step makes anything but means.
LEMMA MeanNext == ASSUME GroupInv, CallInv, RestoreInv, MeanInv, Next PROVE MeanInv'
<1>1. GroupInv'
  BY GroupNext
<1> QED
  BY <1>1, MeanRenews, MeanBegins, MeanWorks, MeanReceives, MeanFinishes, MeanLeaves DEF Next

\* Nothing changes.
LEMMA MeanStutters == ASSUME GroupInv, MeanInv, UNCHANGED vars PROVE MeanInv'
<1>1. UNCHANGED <<kind, session, asked, done, stopped, call, at, hand, record, saved,
                  weights, moments, grad>>
  BY DEF vars, group, state
<1>2. \A q \in Ranks : Len(asked[q]) \in Nat
  BY DEF GroupInv, IsSeq
<1>3. ASSUME NEW q \in Ranks
      PROVE  /\ \A n \in 1 .. Len(asked'[q]) : Supplied(q, n)'
             /\ BackwardInv(q)' /\ ShardInv(q)' /\ BroadcastInv(q)' /\ ModelInv(q)'
  BY <1>1, <1>2, MeanUnmoved
<1> QED BY <1>1, <1>3 DEF MeanInv

\* The updates of a model are what the property asks of them.
LEMMA MeansAreUpdates == ASSUME MeanInv PROVE UpdatesAreMeans
<1> SUFFICES ASSUME NEW r \in Ranks, NEW i \in DOMAIN weights[r].updates
             PROVE  IsMean(weights[r].updates[i])
  BY DEF UpdatesAreMeans, IsMean
<1>1. IsModel(weights[r])
  BY DEF MeanInv, ModelInv
<1>2. DOMAIN weights[r].updates = 1 .. Len(weights[r].updates)
  BY <1>1 DEF IsModel, IsSeq
<1> QED BY <1>1, <1>2 DEF IsModel

\* Whatever ranks do with their calls, whatever fails and in however many sessions,
\* what is applied to a model, directly or through a record or a broadcast, is the
\* average of one gradient per rank, all of one step (try_step in backward_step and
\* train_step).
THEOREM UpdatesAreAverages == Spec => []UpdatesAreMeans
<1> DEFINE Inv == GroupInv /\ CallInv /\ RestoreInv /\ MeanInv
<1>1. Init => Inv
  BY RestoreInit, MeanInit
<1>2. Inv /\ [Next]_vars => Inv'
  BY GroupNext, CallNext, RestoreNext, RestoreStutters, MeanNext, MeanStutters
<1>3. Inv => UpdatesAreMeans
  BY MeansAreUpdates
<1> QED BY <1>1, <1>2, <1>3, PTL DEF Spec
-----------------------------------------------------------------------------
\* Confirmed steps

\* A call may be left after request j of the rank
Closed(r, j) ==
    /\ Tag(r, j) \notin {"all_reduce", "copy", "zero", "seed"}
    /\ Tag(r, j) = "reduce_scatter" => ~Run(r, j - Params, j)

\* What a rank asks after its request j, when it must go on to the step
Follows(r, j) ==
    /\ Tag(r, j) = "all_reduce" => Tag(r, j + 1) \in {"all_reduce", "copy"}
    /\ Tag(r, j) = "copy" => Tag(r, j + 1) = "step"
    /\ Tag(r, j) = "reduce_scatter" /\ Run(r, j - Params, j) => Tag(r, j + 1) = "zero"
    /\ Tag(r, j) = "zero" /\ kind = "sharded" => Tag(r, j + 1) = "seed"
    /\ Tag(r, j) = "seed" => Tag(r, j + 1) = "step"

\* A rank leaves no call between the last reduction and the step
FollowInv(r) ==
    /\ \A j \in 1 .. Len(asked[r]) - 1 : Follows(r, j)
    /\ /\ Len(asked[r]) # 0 /\ ~stopped[r]
       /\ call[r] = None \/ (at[r] = 1 /\ ~Group!Waits(r))
       => Closed(r, Len(asked[r]))

\* The collectives from the last reduction to the step
Lead == IF kind = "replicated" THEN 2 ELSE 3

Holds(r, u) == u \in Range(weights[r].updates) /\ u \in Range(moments[r])

\* Before step n of a rank comes its last reduction, with only agreements between
LedUp(r, n) ==
    /\ n - Lead \in 1 .. n
    /\ Tag(r, n - Lead) = IF kind = "replicated" THEN "all_reduce" ELSE "reduce_scatter"
    /\ kind = "sharded" => Run(r, n - Lead - Params, n - Lead)
    /\ \A j \in n - Lead + 1 .. n : Op(r, j) = "Barrier"

\* A step that a rank makes without error has applied what was reduced
StepInv(r) ==
    \A n \in 1 .. Len(asked[r]) : Tag(r, n) = "step" =>
        /\ LedUp(r, n)
        /\ asked[r][n].ok => /\ built[r] /\ n - Lead \in 1 .. Len(done[r])
                             /\ Holds(r, done[r][n - Lead])

\* While a rank has no trainer nothing is confirmed in this session, and what was
\* confirmed before is in the model that is broadcast
PendingInv(r) ==
    ~built[r] => \A q \in Ranks : \A u \in confirmed[q] :
        /\ kind = "replicated"
        /\ \A n \in 1 .. Len(asked[0]) :
            Tag(0, n) = "broadcast" => u \in Range(What(0, n).updates)

ConfirmInv ==
    /\ DOMAIN confirmed = Ranks
    /\ \A r \in Ranks : FollowInv(r) /\ StepInv(r) /\ PendingInv(r)
    /\ StepsConfirmed

\* The reduction a rank has got to, if it has made one per parameter, is the last.
LEMMA GoesOn ==
    ASSUME GroupInv, CallInv, NEW r \in Ranks, call[r] # None, ~Group!Waits(r), at[r] # 1
    PROVE  LET n == Len(asked[r])
           IN  /\ n \in Nat \ {0}
               /\ Tag(r, n) = "all_reduce" => Round(r) \in {"all_reduce", "copy"}
               /\ Tag(r, n) = "copy" => Round(r) = "step"
               /\ Tag(r, n) = "reduce_scatter" /\ Run(r, n - Params, n) => Round(r) = "zero"
               /\ Tag(r, n) = "zero" =>
                    (kind = "replicated" /\ Round(r) = "backward") \/ Round(r) = "seed"
               /\ Tag(r, n) = "seed" => Round(r) = "step"
<1>1. PICK c \in Replicates \cup Shards : c = call[r]
  BY CallIs
<1>2. PICK a \in Nat : a = at[r] /\ a \notin {0, 1} /\ a <= Len(Rounds(c)) + 1
  BY <1>1, CallIs
<1>3. PICK n \in Nat : n = Len(asked[r]) /\ n = Len(done[r])
  BY CallIs
<1>4. PICK b \in Nat : b = Base(r) /\ b + a = n + 1
  BY <1>2, <1>3, CallIs
<1>5. \A i \in 1 .. a - 1 : Tag(r, b + i) = Rounds(c)[i]
  BY <1>1, <1>2, <1>4, CallIs
<1>6. Params \in Nat \ {0} /\ Len(Rounds(c)) \in Nat
  BY ConstantsAre, RoundsAre
<1>7. a - 1 \in 1 .. Len(Rounds(c)) /\ a - 1 \in 1 .. a - 1 /\ n = b + (a - 1) /\ n # 0
  BY ONLY a \in Nat, b \in Nat, n \in Nat, <1>2, <1>4, <1>6
<1>8. Tag(r, n) = Rounds(c)[a - 1]
  BY <1>5, <1>7
<1>9. a <= Len(Rounds(c)) => Round(r) = Rounds(c)[a]
  BY <1>1, <1>2 DEF Round
<1>10. kind = "sharded" => c # "backward_step"
  BY <1>1 DEF CallInv, RankInv, Shards, None
<1>11. ASSUME Tag(r, n) = "all_reduce" PROVE Round(r) \in {"all_reduce", "copy"}
  <2>1. c = "backward_step" /\ a - 1 \in 13 .. Params + 12
    BY <1>7, <1>8, <1>11, PlacesAre
  <2>2. a \in 13 .. Params + 12 \/ a = Params + 13
    BY ONLY a \in Nat, <1>2, <1>6, <2>1
  <2>3. a <= Len(Rounds(c)) /\ Rounds(c)[a] \in {"all_reduce", "copy"}
    BY <1>6, <2>1, <2>2, BackwardIs
  <2> QED BY ONLY <1>9, <2>3
<1>12. ASSUME Tag(r, n) = "copy" PROVE Round(r) = "step"
  <2>1. c = "backward_step" /\ a - 1 = Params + 13
    BY <1>7, <1>8, <1>12, PlacesAre
  <2>2. a = Params + 14
    BY <1>2, <1>6, <2>1
  <2> QED BY <1>6, <1>9, <2>1, <2>2, BackwardIs
<1>13. ASSUME Tag(r, n) = "seed" PROVE Round(r) = "step"
  <2>1. c = "train_step" /\ a - 1 = 2 * Params + 9
    BY <1>7, <1>8, <1>13, PlacesAre
  <2>2. a = 2 * Params + 10
    BY <1>2, <1>6, <2>1
  <2>3. 2 * Params + 10 <= Len(Rounds(c)) /\ Rounds(c)[2 * Params + 10] = "step"
    BY <1>6, <2>1, TrainIs
  <2> QED BY <1>9, <2>2, <2>3
<1>14. ASSUME Tag(r, n) = "zero"
       PROVE  (kind = "replicated" /\ Round(r) = "backward") \/ Round(r) = "seed"
  <2>1. \/ c = "backward_step" /\ a - 1 = 6
        \/ c = "train_step" /\ a - 1 = 2 * Params + 8
    BY <1>7, <1>8, <1>14, PlacesAre
  <2>2. \/ c = "backward_step" /\ a = 7
        \/ c = "train_step" /\ a = 2 * Params + 9
    BY <1>2, <1>6, <2>1
  <2>3. CASE c = "backward_step" /\ a = 7
    <3>1. 7 <= Len(Rounds(c)) /\ Rounds(c)[7] = "backward"
      BY <1>6, <2>3, BackwardIs
    <3>2. kind = "replicated"
      BY <1>10, <2>3 DEF CallInv
    <3> QED BY <1>9, <2>3, <3>1, <3>2
  <2>4. CASE c = "train_step" /\ a = 2 * Params + 9
    BY <1>6, <1>9, <2>4, TrainIs
  <2> QED BY <2>2, <2>3, <2>4
<1>15. ASSUME Tag(r, n) = "reduce_scatter", Run(r, n - Params, n) PROVE Round(r) = "zero"
  <2>1. c = "train_step" /\ a - 1 \in Params + 8 .. 2 * Params + 7
    BY <1>7, <1>8, <1>15, PlacesAre
  <2>2. CASE a = 2 * Params + 8
    BY <1>6, <1>9, <2>1, <2>2, TrainIs
  <2>3. CASE a # 2 * Params + 8
    <3>1. a - 1 \in Params + 8 .. 2 * Params + 6
      BY <1>2, <1>6, <2>1, <2>3
    <3>2. PICK m \in Nat : m = b + (Params + 7)
      BY <1>6
    <3>3. Params + 7 \in 1 .. a - 1 /\ m \in (n - Params) + 1 .. n /\ m \in 1 .. n
      BY <1>4, <1>6, <3>1, <3>2
    <3>4. Tag(r, m) = "gradients"
      BY <1>5, <2>1, <3>2, <3>3, TrainIs
    <3>5. Op(r, m) = Operation("gradients") /\ Op(r, n) = Operation("reduce_scatter")
      <4>1. m \in 1 .. Len(asked[r]) /\ n \in 1 .. Len(asked[r])
        BY <1>3, <1>7, <3>3
      <4> QED BY <1>15, <3>4, <4>1 DEF GroupInv
    <3>6. Op(r, m) = Op(r, n)
      BY <1>15, <3>3 DEF Run
    <3> QED BY <3>5, <3>6 DEF Operation, Agreements
  <2> QED BY <2>2, <2>3
<1> QED BY <1>3, <1>7, <1>11, <1>12, <1>13, <1>14, <1>15

\* Out of a call, or out of its last round, a rank has no step to make.
LEMMA LeavesClosed ==
    ASSUME GroupInv, CallInv, NEW r \in Ranks, FollowInv(r), call[r] # None, ~Group!Waits(r),
           Round(r) = "end" \/ Unagreed(r), Len(asked[r]) # 0
    PROVE  Closed(r, Len(asked[r]))
<1>1. Round(r) \notin {"all_reduce", "copy", "step", "zero", "backward", "seed"}
  BY DEF Unagreed
<1>2. CASE at[r] = 1
  BY <1>2, CallIs DEF FollowInv
<1>3. CASE at[r] # 1
  BY <1>1, <1>3, GoesOn DEF Closed
<1> QED BY <1>2, <1>3

\* What was asked stays as it is while requests are only added.
LEMMA AskedStays ==
    ASSUME NEW r \in Ranks, kind' = kind, Len(asked[r]) \in Nat,
           \A j \in 1 .. Len(asked[r]) : asked'[r][j] = asked[r][j]
    PROVE  /\ \A j \in 1 .. Len(asked[r]) - 1 : Follows(r, j) => Follows(r, j)'
           /\ Len(asked[r]) # 0 /\ Closed(r, Len(asked[r])) =>
                \A j : j = Len(asked[r]) => Closed(r, j)'
<1>1. \A j \in 1 .. Len(asked[r]) : Tag(r, j)' = Tag(r, j) /\ Op(r, j)' = Op(r, j)
  BY DEF Tag, Op
<1>2. ASSUME NEW j \in 1 .. Len(asked[r]), NEW m PROVE Run(r, m, j)' <=> Run(r, m, j)
  <2>1. \A i \in 1 .. j : Op(r, i)' = Op(r, i)
    BY <1>1
  <2> QED BY <2>1 DEF Run
<1>3. ASSUME NEW j \in 1 .. Len(asked[r]) - 1, Follows(r, j) PROVE Follows(r, j)'
  <2>1. j \in 1 .. Len(asked[r]) /\ j + 1 \in 1 .. Len(asked[r])
    OBVIOUS
  <2>2. /\ Tag(r, j)' = Tag(r, j) /\ Tag(r, j + 1)' = Tag(r, j + 1)
        /\ Run(r, j - Params, j)' <=> Run(r, j - Params, j)
    BY <1>1, <1>2, <2>1
  <2> QED BY <1>3, <2>2 DEF Follows
<1>4. ASSUME Len(asked[r]) # 0, Closed(r, Len(asked[r])), NEW j, j = Len(asked[r])
      PROVE  Closed(r, j)'
  <2>1. j \in 1 .. Len(asked[r])
    BY <1>4
  <2>2. Tag(r, j)' = Tag(r, j) /\ (Run(r, j - Params, j)' <=> Run(r, j - Params, j))
    BY <1>1, <1>2, <2>1
  <2> QED BY <1>4, <2>2 DEF Closed
<1> QED BY <1>3, <1>4

\* Steps add to what a model holds.
LEMMA HoldsGrows ==
    ASSUME NEW r \in Ranks, IsModel(weights[r]), IsSeq(moments[r]), NEW g,
           weights'[r] = [weights[r] EXCEPT !.updates = Append(@, g)],
           moments'[r] = Append(moments[r], g)
    PROVE  /\ \A u : Holds(r, u) => Holds(r, u)'
           /\ \A u : u = g => Holds(r, u)'
<1>1. ASSUME NEW s, IsSeq(s)
      PROVE  g \in Range(Append(s, g)) /\ \A u \in Range(s) : u \in Range(Append(s, g))
  <2>1. PICK t : t = Append(s, g)
    OBVIOUS
  <2>2. /\ IsSeq(t) /\ Len(t) = Len(s) + 1 /\ t[Len(s) + 1] = g /\ Len(s) \in Nat
        /\ \A i \in 1 .. Len(s) : t[i] = s[i]
    BY <1>1, <2>1, AppendIs DEF IsSeq
  <2>3. DOMAIN t = 1 .. Len(s) + 1 /\ DOMAIN s = 1 .. Len(s)
    BY <1>1, <2>2 DEF IsSeq
  <2>4. g \in Range(t)
    BY <2>2, <2>3 DEF Range
  <2>5. ASSUME NEW u \in Range(s) PROVE u \in Range(t)
    <3>1. PICK i \in 1 .. Len(s) : u = s[i]
      BY <2>3 DEF Range
    <3>2. i \in DOMAIN t /\ u = t[i]
      BY <2>2, <2>3, <3>1
    <3> QED BY <3>2 DEF Range
  <2> QED BY <2>1, <2>4, <2>5
<1>2. weights[r] = [base |-> weights[r].base, updates |-> weights[r].updates]
      /\ IsSeq(weights[r].updates)
  BY DEF IsModel
<1>3. weights'[r].updates = Append(weights[r].updates, g)
  BY <1>2
<1> QED BY <1>1, <1>2, <1>3 DEF Holds

\* Nothing is lost from a model that stays as it is.
LEMMA HoldsStays ==
    ASSUME NEW r \in Ranks, weights'[r] = weights[r], moments'[r] = moments[r], NEW u
    PROVE  Holds(r, u)' <=> Holds(r, u)
BY DEF Holds

\* Every rank receives the same of a collective.
LEMMA OneOutcome ==
    ASSUME GroupInv, NEW r \in Ranks, NEW q \in Ranks, NEW n \in 1 .. Len(done[r]),
           n \in 1 .. Len(done[q])
    PROVE  done[q][n] = done[r][n]
<1>1. done[q][n] = Outcome(Group!Requests(n), q) /\ done[r][n] = Outcome(Group!Requests(n), r)
  BY DEF GroupInv
<1>2. Outcome(Group!Requests(n), q) = Outcome(Group!Requests(n), r)
  BY DEF Outcome
<1> QED BY <1>1, <1>2

\* A step that is agreed on all ranks have made, with one and the same update.
LEMMA SteppedIs ==
    ASSUME GroupInv, CallInv, MeanInv, ConfirmInv, NEW r \in Ranks, NEW s \in Nat,
           \A q \in Ranks : s \in 1 .. Len(asked[q]) /\ asked[q][s].ok,
           \A j \in 1 .. s - 1 : Concluded(j), Tag(r, s) = "step"
    PROVE  \A q \in Ranks :
                /\ s \in 1 .. Len(asked[q]) /\ Tag(q, s) = "step" /\ asked[q][s].ok /\ built[q]
                /\ s - Lead \in 1 .. Len(done[q]) /\ done[q][s - Lead] = done[r][s - Lead]
                /\ Holds(q, done[q][s - Lead])
<1>1. Lead \in {2, 3} /\ kind \in {"replicated", "sharded"}
  BY DEF Lead, CallInv
<1>2. PICK l \in {2, 3} : l = Lead
  BY <1>1
<1>3. s \in 1 .. Len(asked[r]) /\ asked[r][s].ok
  OBVIOUS
<1>4. LedUp(r, s) /\ s - Lead \in 1 .. Len(done[r])
  BY <1>3 DEF ConfirmInv, StepInv
<1>5. PICK n \in Nat : n = s - Lead /\ n >= 1 /\ s = n + l
  BY <1>2, <1>4
<1>6. \A j \in n .. n + l - 1 : j \in Nat /\ Concluded(j)
  BY <1>2, <1>5
<1>7. \A j \in n .. n + l - 1 : \A q \in Ranks :
        j \in 1 .. Len(asked[q]) /\ asked[q][j].ok /\ Op(q, j) = Op(r, j) /\ Op(q, j) = Operation(Tag(q, j))
  <2> TAKE j \in n .. n + l - 1
  <2>1. \A q \in Ranks : j \in 1 .. Len(asked[q]) /\ asked[q][j].ok /\ Op(q, j) = Op(r, j)
    BY <1>6, ConcludedIs
  <2> QED BY <2>1 DEF GroupInv
<1>8. /\ Tag(r, n) = IF kind = "replicated" THEN "all_reduce" ELSE "reduce_scatter"
      /\ kind = "sharded" => Run(r, n - Params, n)
      /\ \A j \in n + 1 .. n + l : Op(r, j) = "Barrier"
  BY <1>4, <1>5 DEF LedUp
<1> SUFFICES ASSUME NEW q \in Ranks
             PROVE  /\ s \in 1 .. Len(asked[q]) /\ Tag(q, s) = "step" /\ asked[q][s].ok /\ built[q]
                    /\ s - Lead \in 1 .. Len(done[q]) /\ done[q][s - Lead] = done[r][s - Lead]
                    /\ Holds(q, done[q][s - Lead])
  OBVIOUS
<1>9. n \in n .. n + l - 1 /\ n + 1 \in n .. n + l - 1
  BY <1>2
<1>10. /\ n \in 1 .. Len(asked[q]) - 1 /\ n + 1 \in 1 .. Len(asked[q]) - 1
       /\ l = 3 => n + 2 \in 1 .. Len(asked[q]) - 1
  <2>1. Len(asked[q]) \in Nat /\ n + l \in 1 .. Len(asked[q]) /\ n \in 1 .. Len(asked[q])
    BY <1>5, <1>7, <1>9 DEF GroupInv, IsSeq
  <2> QED BY <1>2, <2>1
<1>11. /\ Op(q, n) = Op(r, n) /\ Op(q, n) = Operation(Tag(q, n)) /\ Op(r, n) = Operation(Tag(r, n))
       /\ Op(q, n + 1) = Operation(Tag(q, n + 1))
  BY <1>7, <1>9
<1>12. Op(q, n + 1) = "Barrier"
  <2>1. n + 1 \in n + 1 .. n + l
    BY <1>2
  <2> QED BY <1>7, <1>8, <1>9, <2>1
<1>13. FollowInv(q) /\ StepInv(q) /\ Supplied(q, n)
  <2>1. n \in 1 .. Len(asked[q])
    BY <1>7, <1>9
  <2> QED BY <2>1 DEF ConfirmInv, MeanInv
<1>14. Tag(q, n) = Tag(r, n)
  BY <1>1, <1>8, <1>11, <1>13 DEF Supplied, Operation, Agreements
<1>15. Tag(q, s) = "step"
  <2>1. CASE kind = "replicated"
    <3>1. l = 2 /\ Tag(q, n) = "all_reduce"
      BY <1>2, <1>8, <1>14, <2>1 DEF Lead
    <3>2. Tag(q, n + 1) \in {"all_reduce", "copy"}
      BY <1>10, <1>13, <3>1 DEF FollowInv, Follows
    <3>3. Tag(q, n + 1) = "copy"
      BY <1>11, <1>12, <3>2 DEF Operation, Agreements
    <3>4. Tag(q, (n + 1) + 1) = "step"
      BY <1>10, <1>13, <3>3 DEF FollowInv, Follows
    <3>5. (n + 1) + 1 = s
      BY <1>5, <3>1
    <3> QED BY <3>4, <3>5
  <2>2. CASE kind = "sharded"
    <3>1. l = 3 /\ Tag(q, n) = "reduce_scatter"
      BY <1>2, <1>8, <1>14, <2>2 DEF Lead
    <3>2. PICK m \in 1 .. n - 1 : Run(q, m, n)
      BY <1>13, <3>1 DEF Supplied, Reductions
    <3>3. m = n - Params
      BY <1>6, <1>8, <1>9, <2>2, <3>2, RunIsOne
    <3>4. Tag(q, n + 1) = "zero"
      BY <1>10, <1>13, <3>1, <3>2, <3>3 DEF FollowInv, Follows
    <3>5. Tag(q, (n + 1) + 1) = "seed"
      BY <1>10, <1>13, <2>2, <3>4 DEF FollowInv, Follows
    <3>6. (n + 1) + 1 = n + 2 /\ n + 2 \in 1 .. Len(asked[q]) - 1
      BY <1>10, <3>1
    <3>7. Tag(q, (n + 2) + 1) = "step"
      BY <1>13, <3>5, <3>6 DEF FollowInv, Follows
    <3>8. (n + 2) + 1 = s
      BY <1>5, <3>1
    <3> QED BY <3>7, <3>8
  <2> QED BY <1>1, <2>1, <2>2
<1>16. s \in 1 .. Len(asked[q]) /\ asked[q][s].ok
  OBVIOUS
<1>17. built[q] /\ s - Lead \in 1 .. Len(done[q]) /\ Holds(q, done[q][s - Lead])
  BY <1>13, <1>15, <1>16 DEF StepInv
<1>18. done[q][s - Lead] = done[r][s - Lead]
  BY <1>4, <1>17, OneOutcome
<1> QED BY <1>15, <1>16, <1>17, <1>18

\* A train call returns Ok only when its update is in every rank's model.
LEMMA ConfirmedIs ==
    ASSUME GroupInv, CallInv, MeanInv, ConfirmInv, NEW r \in Ranks, Finish(r), call[r] \in Trains
    PROVE  \A q \in Ranks : built[q] /\ Holds(q, grad[r])
<1>1. PICK c \in Trains : c = call[r]
  OBVIOUS
<1>2. call[r] # None /\ Round(r) = "end" /\ ~Group!Waits(r) /\ c \in Replicates \cup Shards
  BY <1>1, CallIs DEF Finish, Works
<1>3. PICK a \in Nat : a = at[r] /\ a = Len(Rounds(c)) + 1
  <2>1. at[r] = Len(Rounds(c)) + 1
    BY <1>1, <1>2, EndIs
  <2> QED BY <1>2, <2>1, CallIs
<1>4. PICK b \in Nat : b = Base(r) /\ b + a = Len(done[r]) + 1
  BY <1>2, <1>3, CallIs
<1>5. \A i \in 1 .. a - 1 : Tag(r, b + i) = Rounds(c)[i]
  BY <1>1, <1>2, <1>3, <1>4, CallIs
<1>6. Params \in Nat \ {0} /\ Len(done[r]) \in Nat
  BY <1>2, ConstantsAre, CallIs
<1>7. kind = (IF c = "backward_step" THEN "replicated" ELSE "sharded")
  BY <1>1, <1>2 DEF CallInv, RankInv, Trains, Replicates, Shards, None
<1>8. \E s \in 1 .. Len(done[r]) : Tag(r, s) = "step" /\ grad[r] = done[r][s - Lead]
  <2>1. CASE c = "backward_step"
    <3>0. Lead = 2 /\ Len(Rounds(c)) = Params + 14
      BY <1>7, <2>1, BackwardIs DEF Lead
    <3>1. a = Params + 15 /\ at[r] = a /\ at[r] >= Params + 14
      BY ONLY <1>3, <1>6, <3>0
    <3>2. PICK s \in 1 .. Len(done[r]) : s = b + (Params + 14) /\ s - Lead = b + Params + 12
      <4>1. b + (Params + 14) \in 1 .. Len(done[r])
        BY ONLY <1>3, <1>4, <1>6, <3>1
      <4>2. (b + (Params + 14)) - 2 = b + Params + 12
        BY ONLY <1>4, <1>6
      <4> QED BY <3>0, <4>1, <4>2
    <3>3. Params + 14 \in 1 .. a - 1
      BY ONLY <1>6, <3>1
    <3>4. Tag(r, s) = "step"
      BY <1>5, <2>1, <3>2, <3>3, BackwardIs
    <3>5. grad[r] = done[r][b + Params + 12]
      <4>1. BackwardInv(r)
        BY DEF MeanInv
      <4> QED BY <1>1, <1>4, <2>1, <3>1, <4>1 DEF BackwardInv
    <3> QED BY ONLY <3>2, <3>4, <3>5
  <2>2. CASE c = "train_step"
    <3>0. Lead = 3 /\ Len(Rounds(c)) = 2 * Params + 11
      BY <1>7, <2>2, TrainIs DEF Lead
    <3>1. a = 2 * Params + 12 /\ at[r] = a /\ at[r] >= 2 * Params + 10
      BY ONLY <1>3, <1>6, <3>0
    <3>2. PICK s \in 1 .. Len(done[r]) : s = b + (2 * Params + 10) /\ s - Lead = b + 2 * Params + 7
      <4>1. b + (2 * Params + 10) \in 1 .. Len(done[r])
        BY ONLY <1>3, <1>4, <1>6, <3>1
      <4>2. (b + (2 * Params + 10)) - 3 = b + 2 * Params + 7
        BY ONLY <1>4, <1>6
      <4> QED BY <3>0, <4>1, <4>2
    <3>3. 2 * Params + 10 \in 1 .. a - 1
      BY <1>6, <3>1
    <3>4. Tag(r, s) = "step"
      BY <1>5, <2>2, <3>2, <3>3, TrainIs
    <3> QED BY <1>1, <1>4, <2>2, <3>1, <3>2, <3>4 DEF MeanInv, ShardInv
  <2> QED BY <2>1, <2>2 DEF Trains
<1>9. PICK s \in 1 .. Len(done[r]) : Tag(r, s) = "step" /\ grad[r] = done[r][s - Lead]
  BY <1>8
<1>10. s \in Nat /\ Concluded(s) /\ \A j \in 1 .. s - 1 : Concluded(j)
  BY <1>6 DEF Concluded
<1>11. \A q \in Ranks : s \in 1 .. Len(asked[q]) /\ asked[q][s].ok
  BY <1>10, ConcludedIs
<1> QED BY <1>9, <1>10, <1>11, SteppedIs

\* The rounds of a train call lead up to its step.
LEMMA LedUpIs ==
    ASSUME GroupInv', NEW r \in Ranks, NEW c \in Trains, NEW b \in Nat, NEW a \in Nat,
           a = IF c = "backward_step" THEN Params + 14 ELSE 2 * Params + 10,
           kind' = IF c = "backward_step" THEN "replicated" ELSE "sharded",
           Traced(r, b, a, Rounds(c))', NEW s \in Nat, s = b + a, s = Len(asked'[r])
    PROVE  LedUp(r, s)'
<1>1. Params \in Nat \ {0}
  BY ConstantsAre
<1>2. \A i \in 1 .. a : Tag(r, b + i)' = Rounds(c)[i] /\ Op(r, b + i)' = Operation(Rounds(c)[i])
  <2> TAKE i \in 1 .. a
  <2>1. Tag(r, b + i)' = Rounds(c)[i]
    BY DEF Traced
  <2>2. PICK n \in 1 .. Len(asked'[r]) : n = b + i
    OBVIOUS
  <2>3. Op(r, n)' = Operation(Tag(r, n)')
    BY DEF GroupInv
  <2>4. Tag(r, n)' = Rounds(c)[i]
    BY <2>1, <2>2 DEF Tag
  <2> QED BY <2>2, <2>3, <2>4 DEF Tag, Op
<1>3. CASE c = "backward_step"
  <2>1. a = Params + 14 /\ Lead' = 2 /\ kind' = "replicated"
    BY <1>3 DEF Lead
  <2>2. /\ Params + 12 \in 1 .. a /\ Params + 13 \in 1 .. a /\ Params + 14 \in 1 .. a
        /\ Params + 12 \in 13 .. Params + 12
        /\ s - 2 = b + (Params + 12)
        /\ \A j \in s - 2 + 1 .. s : j = b + (Params + 13) \/ j = b + (Params + 14)
    BY <1>1, <2>1
  <2>3. /\ Rounds(c)[Params + 12] = "all_reduce" /\ Rounds(c)[Params + 13] = "copy"
        /\ Rounds(c)[Params + 14] = "step"
    BY <1>3, <2>2, BackwardIs
  <2>4. \A n : n = s - 2 => Tag(r, n)' = "all_reduce"
    BY <1>2, <2>2, <2>3
  <2>5. \A j \in s - 2 + 1 .. s : Op(r, j)' = "Barrier"
    BY <1>2, <2>2, <2>3 DEF Operation, Agreements
  <2>6. s - 2 \in 1 .. s
    BY <1>1, <2>1
  <2> QED BY <2>1, <2>4, <2>5, <2>6 DEF LedUp, Tag
<1>4. CASE c = "train_step"
  <2>1. a = 2 * Params + 10 /\ Lead' = 3 /\ kind' = "sharded"
    BY <1>4 DEF Lead
  <2>2. /\ 2 * Params + 7 \in 1 .. a /\ 2 * Params + 8 \in 1 .. a /\ 2 * Params + 9 \in 1 .. a
        /\ 2 * Params + 10 \in 1 .. a /\ 2 * Params + 7 \in Params + 8 .. 2 * Params + 7
        /\ s - 3 = b + (2 * Params + 7)
        /\ \A j \in s - 3 + 1 .. s : \/ j = b + (2 * Params + 8) \/ j = b + (2 * Params + 9)
                                     \/ j = b + (2 * Params + 10)
    BY <1>1, <2>1
  <2>3. /\ Rounds(c)[2 * Params + 7] = "reduce_scatter" /\ Rounds(c)[2 * Params + 8] = "zero"
        /\ Rounds(c)[2 * Params + 9] = "seed" /\ Rounds(c)[2 * Params + 10] = "step"
    BY <1>4, <2>2, TrainIs
  <2>4. \A n : n = s - 3 => Tag(r, n)' = "reduce_scatter"
    BY <1>2, <2>2, <2>3
  <2>5. \A j \in s - 3 + 1 .. s : Op(r, j)' = "Barrier"
    BY <1>2, <2>2, <2>3 DEF Operation, Agreements
  <2>6. s - 3 \in 1 .. s
    BY <1>1, <2>1
  <2>7. PICK n \in Nat : n = s - 3
    BY <2>6
  <2>8. Run(r, n - Params, n)'
    <3>1. n - Params \in 1 .. n - 1
      BY <1>1, <2>2, <2>7
    <3>2. Op(r, n)' = "ReduceScatter"
      BY <1>2, <2>2, <2>3, <2>7 DEF Operation, Agreements
    <3>3. Op(r, n - Params)' = "Barrier"
      <4>1. n - Params = b + (Params + 7) /\ Params + 7 \in 1 .. a
        BY <1>1, <2>1, <2>2, <2>7
      <4>2. Op(r, b + (Params + 7))' = "Barrier"
        BY <1>2, <1>4, <4>1, TrainIs DEF Operation, Agreements
      <4> QED BY <4>1, <4>2
    <3>4. ASSUME NEW j \in n - Params + 1 .. n PROVE Op(r, j)' = "ReduceScatter"
      <4>1. PICK i \in Params + 8 .. 2 * Params + 7 : j = b + i
        <5>1. j - b \in Params + 8 .. 2 * Params + 7 /\ j = b + (j - b)
          BY <1>1, <2>2, <2>7
        <5> QED BY <5>1
      <4>2. i \in 1 .. a
        BY <1>1, <2>1
      <4>3. Op(r, b + i)' = "ReduceScatter"
        BY <1>2, <1>4, <4>1, <4>2, TrainIs DEF Operation, Agreements
      <4> QED BY <4>1, <4>3
    <3> QED BY <3>1, <3>2, <3>3, <3>4 DEF Run
  <2> QED BY <2>1, <2>4, <2>5, <2>6, <2>7, <2>8 DEF LedUp, Tag
<1> QED BY <1>3, <1>4 DEF Trains

\* The steps a rank has made are led up to as before while requests are only added.
LEMMA LedUpStays ==
    ASSUME NEW r \in Ranks, kind' = kind, Len(asked[r]) \in Nat,
           \A j \in 1 .. Len(asked[r]) : asked'[r][j] = asked[r][j],
           NEW n \in 1 .. Len(asked[r]), LedUp(r, n)
    PROVE  LedUp(r, n)'
<1>1. \A j \in 1 .. n : Tag(r, j)' = Tag(r, j) /\ Op(r, j)' = Op(r, j)
  BY DEF Tag, Op
<1>2. Lead' = Lead /\ Lead \in {2, 3} /\ n \in Nat
  BY DEF Lead
<1>3. PICK l \in {2, 3} : l = Lead
  BY <1>2
<1>4. n - l \in 1 .. n
  BY <1>3 DEF LedUp
<1>5. Run(r, n - l - Params, n - l) => Run(r, n - l - Params, n - l)'
  <2>1. \A j \in 1 .. n - l : Op(r, j)' = Op(r, j)
    BY <1>1, <1>3
  <2> QED BY <1>4, <2>1 DEF Run
<1>6. Tag(r, n - l)' = Tag(r, n - l) /\ \A j \in n - l + 1 .. n : Op(r, j)' = Op(r, j)
  BY <1>1, <1>3, <1>4
<1> QED BY <1>2, <1>3, <1>5, <1>6 DEF LedUp

\* Steps stay made as long as the model they were applied to loses nothing.
LEMMA StepStays ==
    ASSUME NEW r \in Ranks, StepInv(r), kind' = kind, Len(asked[r]) \in Nat, Len(done[r]) \in Nat,
           asked'[r] = asked[r], Len(done'[r]) \in Nat, Len(done[r]) <= Len(done'[r]),
           \A n \in 1 .. Len(done[r]) : done'[r][n] = done[r][n],
           built[r] => built'[r] /\ \A u : Holds(r, u) => Holds(r, u)'
    PROVE  StepInv(r)'
<1>1. Lead' = Lead /\ \A n : Tag(r, n)' = Tag(r, n)
  BY DEF Lead, Tag
<1>2. ASSUME NEW n \in 1 .. Len(asked[r]), Tag(r, n) = "step" PROVE LedUp(r, n)'
  <2>1. LedUp(r, n)
    BY <1>2 DEF StepInv
  <2> QED BY <2>1, LedUpStays
<1>3. ASSUME NEW n \in 1 .. Len(asked[r]), Tag(r, n) = "step", asked[r][n].ok
      PROVE  /\ built'[r] /\ n - Lead \in 1 .. Len(done'[r])
             /\ \A u : u = done'[r][n - Lead] => Holds(r, u)'
  <2>1. built[r] /\ n - Lead \in 1 .. Len(done[r]) /\ Holds(r, done[r][n - Lead])
    BY <1>3 DEF StepInv
  <2>2. n - Lead \in 1 .. Len(done'[r]) /\ done'[r][n - Lead] = done[r][n - Lead]
    BY <2>1
  <2> QED BY <2>1, <2>2
<1>4. \A u : Holds(r, u)' <=> (u \in Range(weights'[r].updates) /\ u \in Range(moments'[r]))
  BY DEF Holds
<1> QED BY <1>1, <1>2, <1>3, <1>4 DEF StepInv, Holds

\* What is known of the steps of a rank that takes no part stays known.
LEMMA ConfirmUnmoved ==
    ASSUME ConfirmInv, NEW q \in Ranks, kind' = kind,
           Len(asked[q]) \in Nat, Len(done[q]) \in Nat,
           call'[q] = call[q], at'[q] = at[q], stopped'[q] = stopped[q], built'[q] = built[q],
           asked'[q] = asked[q], done'[q] = done[q],
           weights'[q] = weights[q], moments'[q] = moments[q]
    PROVE  FollowInv(q)' /\ StepInv(q)'
<1>1. FollowInv(q) /\ StepInv(q)
  BY DEF ConfirmInv
<1>2. Group!Waits(q)' <=> Group!Waits(q)
  BY DEF Group!Waits
<1>3. /\ \A j \in 1 .. Len(asked[q]) - 1 : Follows(q, j) => Follows(q, j)'
      /\ Len(asked[q]) # 0 /\ Closed(q, Len(asked[q])) =>
           \A j : j = Len(asked[q]) => Closed(q, j)'
  BY AskedStays
<1>4. FollowInv(q)'
  BY <1>1, <1>2, <1>3 DEF FollowInv
<1>5. StepInv(q)'
  BY <1>1, StepStays, HoldsStays
<1> QED BY <1>4, <1>5

\* Only a model in which everything confirmed is can be broadcast.
LEMMA PendingStays ==
    ASSUME ConfirmInv, kind' = kind, confirmed' = confirmed,
           \A q \in Ranks : built[q] => built'[q],
           \A n \in 1 .. Len(asked'[0]) :
              \/ n \in 1 .. Len(asked[0]) /\ asked'[0][n] = asked[0][n]
              \/ Tag(0, n)' = "broadcast" => What(0, n)' = weights[0]
    PROVE  \A r \in Ranks : PendingInv(r)'
<1> SUFFICES ASSUME NEW r \in Ranks, ~built[r], NEW q \in Ranks, NEW u \in confirmed[q]
             PROVE  /\ kind = "replicated"
                    /\ \A n \in 1 .. Len(asked'[0]) :
                        Tag(0, n)' = "broadcast" => u \in Range(What(0, n)'.updates)
  BY DEF PendingInv
<1>1. /\ kind = "replicated"
      /\ \A n \in 1 .. Len(asked[0]) : Tag(0, n) = "broadcast" => u \in Range(What(0, n).updates)
  BY DEF ConfirmInv, PendingInv
<1>2. u \in Range(weights[0].updates)
  BY ConstantsAre DEF ConfirmInv, StepsConfirmed
<1>3. ASSUME NEW n \in 1 .. Len(asked'[0]), Tag(0, n)' = "broadcast"
      PROVE  u \in Range(What(0, n)'.updates)
  <2>1. CASE n \in 1 .. Len(asked[0]) /\ asked'[0][n] = asked[0][n]
    <3>1. Tag(0, n)' = Tag(0, n) /\ What(0, n)' = What(0, n)
      BY <2>1 DEF Tag, What
    <3> QED BY <1>1, <1>3, <2>1, <3>1
  <2>2. CASE What(0, n)' = weights[0]
    BY <1>2, <2>2
  <2> QED BY <1>3, <2>1, <2>2
<1> QED BY <1>1, <1>3

\* What was confirmed stays so as long as no model loses it.
LEMMA ConfirmedStay ==
    ASSUME ConfirmInv, confirmed' = confirmed,
           \A q \in Ranks : \A p \in Ranks : \A u \in confirmed[p] : Holds(q, u) => Holds(q, u)'
    PROVE  StepsConfirmed'
<1>1. ASSUME NEW p \in Ranks, NEW q \in Ranks, NEW u \in confirmed[p] PROVE Holds(q, u)'
  BY DEF ConfirmInv, StepsConfirmed, Holds
<1> QED BY <1>1 DEF StepsConfirmed, Holds

\* A call that begins has nothing behind it that must be gone on with.
LEMMA ConfirmBegins ==
    ASSUME GroupInv, CallInv, ConfirmInv, NEW r \in Ranks, NEW c, Begin(r, c)
    PROVE  ConfirmInv'
<1>1. /\ call' = [call EXCEPT ![r] = c] /\ at' = [at EXCEPT ![r] = 1] /\ call[r] = None
      /\ ~stopped[r]
      /\ UNCHANGED <<kind, asked, done, stopped, built, weights, moments, confirmed>>
  BY DEF Begin, group, state
<1>2. /\ DOMAIN call = Ranks /\ DOMAIN at = Ranks
      /\ \A q \in Ranks : Len(asked[q]) \in Nat /\ Len(done[q]) \in Nat
  BY DEF CallInv, GroupInv, IsSeq
<1>3. FollowInv(r) /\ StepInv(r)
  BY DEF ConfirmInv
<1>4. /\ \A j \in 1 .. Len(asked[r]) - 1 : Follows(r, j) => Follows(r, j)'
      /\ Len(asked[r]) # 0 /\ Closed(r, Len(asked[r])) =>
           \A j : j = Len(asked[r]) => Closed(r, j)'
  BY <1>1, <1>2, AskedStays
<1>5. FollowInv(r)'
  BY <1>1, <1>2, <1>3, <1>4 DEF FollowInv
<1>6. StepInv(r)'
  BY <1>1, <1>2, <1>3, StepStays, HoldsStays
<1>7. ASSUME NEW q \in Ranks, q # r PROVE FollowInv(q)' /\ StepInv(q)'
  BY <1>1, <1>2, <1>7, ConfirmUnmoved
<1>8. \A q \in Ranks : PendingInv(q)'
  BY <1>1, PendingStays
<1>9. StepsConfirmed'
  BY <1>1, ConfirmedStay DEF Holds
<1> QED BY <1>1, <1>5, <1>6, <1>7, <1>8, <1>9 DEF ConfirmInv

\* A call is left only where no step has to follow.
LEMMA ConfirmLeaves ==
    ASSUME GroupInv, CallInv, ConfirmInv, NEW r \in Ranks, LeaveEarly(r) \/ Error(r) \/ Drop(r)
    PROVE  ConfirmInv'
<1>1. /\ UNCHANGED <<kind, at, asked, done, built, weights, moments, confirmed>>
      /\ \A q \in Ranks \ {r} : call'[q] = call[q] /\ stopped'[q] = stopped[q]
      /\ \/ call[r] # None /\ ~Group!Waits(r) /\ Unagreed(r) /\ stopped'[r] = stopped[r]
         \/ stopped'[r]
  BY DEF LeaveEarly, Error, Drop, group, state, Group!Stop, Works, CallInv, GroupInv
<1>2. \A q \in Ranks : Len(asked[q]) \in Nat /\ Len(done[q]) \in Nat
  BY DEF GroupInv, IsSeq
<1>3. FollowInv(r) /\ StepInv(r)
  BY DEF ConfirmInv
<1>4. /\ \A j \in 1 .. Len(asked[r]) - 1 : Follows(r, j) => Follows(r, j)'
      /\ Len(asked[r]) # 0 /\ Closed(r, Len(asked[r])) =>
           \A j : j = Len(asked[r]) => Closed(r, j)'
  BY <1>1, <1>2, AskedStays
<1>5. FollowInv(r)'
  <2>1. Len(asked[r]) # 0 /\ ~stopped'[r] => Closed(r, Len(asked[r]))
    BY <1>1, <1>3, LeavesClosed
  <2> QED BY <1>1, <1>3, <1>4, <2>1 DEF FollowInv
<1>6. StepInv(r)'
  BY <1>1, <1>2, <1>3, StepStays, HoldsStays
<1>7. ASSUME NEW q \in Ranks, q # r PROVE FollowInv(q)' /\ StepInv(q)'
  BY <1>1, <1>2, <1>7, ConfirmUnmoved
<1>8. \A q \in Ranks : PendingInv(q)'
  BY <1>1, PendingStays
<1>9. StepsConfirmed'
  BY <1>1, ConfirmedStay DEF Holds
<1> QED BY <1>1, <1>5, <1>6, <1>7, <1>8, <1>9 DEF ConfirmInv

\* A new session has made no step; what lives on of the last holds what it held.
LEMMA ConfirmRenews == ASSUME GroupInv, CallInv, ConfirmInv, NewSession PROVE ConfirmInv'
<1>1. /\ kind' = kind /\ \A q \in Ranks : asked'[q] = <<>>
      /\ \/ kind = "replicated" /\ UNCHANGED <<weights, moments, confirmed>>
         \/ confirmed' = [q \in Ranks |-> {}]
  BY DEF NewSession, state, CallInv
<1>2. \A q \in Ranks : 1 .. Len(asked'[q]) = {} /\ Len(asked'[q]) = 0
  BY <1>1, EmptyIs
<1>3. \A q \in Ranks : FollowInv(q)' /\ StepInv(q)'
  <2> TAKE q \in Ranks
  <2>1. 1 .. Len(asked'[q]) - 1 = {}
    BY <1>2
  <2> QED BY <1>2, <2>1 DEF FollowInv, StepInv
<1>4. \A q \in Ranks : PendingInv(q)'
  BY <1>1, <1>2, ConstantsAre DEF PendingInv
<1>5. StepsConfirmed' /\ DOMAIN confirmed' = Ranks
  BY <1>1 DEF ConfirmInv, StepsConfirmed
<1> QED BY <1>3, <1>4, <1>5 DEF ConfirmInv

\* Only some calls have these rounds, and only in these places.
LEMMA WorksAt ==
    ASSUME GroupInv, CallInv, NEW r \in Ranks, Work(r)
    PROVE  /\ Round(r) = "records" => \/ call[r] = "restore" /\ at[r] = 2
                                      \/ call[r] = "checkpoint" /\ at[r] = 3
           /\ Round(r) = "capture" => call[r] = "checkpoint" /\ at[r] = 2
           /\ Round(r) = "broadcast" => call[r] \in {"construct", "new"}
           /\ Round(r) = "built" => call[r] = "new" /\ at[r] = Params + 3
           /\ Round(r) = "step" => \/ call[r] = "backward_step" /\ at[r] = Params + 14
                                   \/ call[r] = "train_step" /\ at[r] = 2 * Params + 10
           /\ at[r] = 1 => Round(r) \notin {"step", "built"}
<1>1. /\ call[r] \in Replicates \cup Shards /\ at[r] \in 1 .. Len(Rounds(call[r]))
      /\ Round(r) = Rounds(call[r])[at[r]]
  BY WorkIs
<1>2. PICK c \in Replicates \cup Shards : c = call[r] /\ at[r] \in 1 .. Len(Rounds(c))
  BY <1>1
<1>3. PICK a \in 1 .. Len(Rounds(c)) : a = at[r] /\ Round(r) = Rounds(c)[a]
  BY <1>1, <1>2
<1>4. /\ Rounds(c)[a] = "records" => (c = "restore" /\ a = 2) \/ (c = "checkpoint" /\ a = 3)
      /\ Rounds(c)[a] = "capture" => c = "checkpoint" /\ a = 2
      /\ Rounds(c)[a] = "built" => c = "new" /\ a = Params + 3
      /\ Rounds(c)[a] = "step" => \/ c = "backward_step" /\ a = Params + 14
                                  \/ c = "train_step" /\ a = 2 * Params + 10
      /\ Rounds(c)[a] = "broadcast" => c \in {"construct", "new"}
  BY PlacesAre
<1>5. a \in Nat /\ Params + 14 # 1 /\ 2 * Params + 10 # 1 /\ Params + 3 # 1
  BY ConstantsAre, RoundsAre
<1>6. a = 1 => Rounds(c)[a] \notin {"step", "built"}
  BY ONLY <1>4, <1>5
<1> QED BY ONLY <1>2, <1>3, <1>4, <1>6

\* A step applies what was reduced for it.
LEMMA StepApplies ==
    ASSUME GroupInv, CallInv, MeanInv, NEW r \in Ranks, Work(r), Round(r) = "step"
    PROVE  /\ call[r] \in Trains /\ grad[r] = done[r][(Len(asked[r]) + 1) - Lead]
           /\ (Len(asked[r]) + 1) - Lead \in 1 .. Len(done[r])
<1>1. /\ call[r] # None /\ call[r] \in Replicates \cup Shards
      /\ Len(asked[r]) \in Nat /\ Len(asked[r]) = Len(done[r])
      /\ Base(r) \in Nat /\ Base(r) + at[r] = Len(asked[r]) + 1
  BY WorkIs
<1>2. RankInv(r) /\ BackwardInv(r) /\ ShardInv(r)
  BY DEF CallInv, MeanInv
<1>3. Params \in Nat \ {0}
  BY ConstantsAre
<1>4. PICK n \in Nat : n = Len(asked[r]) /\ n = Len(done[r])
  BY <1>1
<1>5. PICK b \in Nat : b = Base(r)
  BY <1>1
<1>6. \/ call[r] = "backward_step" /\ at[r] = Params + 14
      \/ call[r] = "train_step" /\ at[r] = 2 * Params + 10
  BY WorksAt
<1>7. CASE call[r] = "backward_step" /\ at[r] = Params + 14
  <2>1. kind = "replicated"
    BY <1>2, <1>7 DEF RankInv, Shards, None, CallInv
  <2>2. (n + 1) - Lead = b + Params + 12 /\ (n + 1) - Lead \in 1 .. n
    <3>1. Lead = 2 /\ b + (Params + 14) = n + 1
      BY <1>1, <1>4, <1>5, <1>7, <2>1 DEF Lead
    <3> QED BY ONLY <1>3, <3>1, n \in Nat, b \in Nat
  <2>3. at[r] >= Params + 14
    BY <1>3, <1>7
  <2>4. grad[r] = done[r][b + Params + 12]
    BY <1>2, <1>5, <1>7, <2>3 DEF BackwardInv
  <2> QED BY <1>4, <1>7, <2>2, <2>4 DEF Trains
<1>8. CASE call[r] = "train_step" /\ at[r] = 2 * Params + 10
  <2>1. kind = "sharded"
    BY <1>2, <1>8 DEF RankInv, Replicates, None, CallInv
  <2>2. (n + 1) - Lead = b + 2 * Params + 7 /\ (n + 1) - Lead \in 1 .. n
    <3>1. Lead = 3 /\ b + (2 * Params + 10) = n + 1
      BY <1>1, <1>4, <1>5, <1>8, <2>1 DEF Lead
    <3> QED BY ONLY <1>3, <3>1, n \in Nat, b \in Nat
  <2>3. at[r] >= 2 * Params + 10
    BY <1>3, <1>8
  <2>4. grad[r] = done[r][b + 2 * Params + 7]
    BY <1>2, <1>5, <1>8, <2>3 DEF ShardInv
  <2> QED BY <1>4, <1>8, <2>2, <2>4 DEF Trains
<1> QED BY <1>6, <1>7, <1>8

\* A step that is asked for is led up to.
LEMMA StepLedUp ==
    ASSUME GroupInv, CallInv, NEW r \in Ranks, Work(r), Round(r) = "step"
    PROVE  \A s : s = Len(asked[r]) + 1 => LedUp(r, s)'
<1>1. /\ call[r] # None /\ at[r] \in 1 .. Len(Rounds(call[r]))
      /\ Round(r) = Rounds(call[r])[at[r]] /\ call[r] \in Replicates \cup Shards
      /\ UNCHANGED <<kind, call, at, done>> /\ Len(asked[r]) \in Nat
      /\ Base(r) \in Nat /\ Base(r) + at[r] = Len(asked[r]) + 1 /\ Len(asked'[r]) = Len(asked[r]) + 1
  BY WorkIs
<1>2. PICK c \in Replicates \cup Shards : c = call[r] /\ Round(r) = Rounds(c)[at[r]]
  BY <1>1
<1>3. PICK a \in 1 .. Len(Rounds(c)) : a = at[r] /\ Rounds(c)[a] = "step"
  BY <1>1, <1>2
<1>4. PICK b \in Nat : b = Base(r) /\ b + a = Len(asked[r]) + 1
  BY <1>1, <1>3
<1>5. /\ c \in Trains /\ a = IF c = "backward_step" THEN Params + 14 ELSE 2 * Params + 10
  BY <1>3, PlacesAre DEF Trains
<1>6. GroupInv' /\ CallInv'
  BY GroupNext, WorkKeeps DEF Next
<1>7. RankInv(r) /\ RankInv(r)'
  BY <1>6 DEF CallInv
<1>8. kind' = IF c = "backward_step" THEN "replicated" ELSE "sharded"
  BY <1>1, <1>2, <1>5, <1>7 DEF RankInv, Trains, Replicates, Shards, None, CallInv
<1>9. Base(r)' = Base(r)
  BY <1>1 DEF Base
<1>10. Traced(r, b, a, Rounds(c))'
  <2>1. \A i \in 1 .. a : i \in 1 .. (Len(asked'[r]) - Base(r)')
    <3>1. Len(asked'[r]) = b + a /\ Base(r)' = b
      BY ONLY <1>1, <1>4, <1>9
    <3>2. (b + a) - b = a
      BY ONLY a \in 1 .. Len(Rounds(c)), b \in Nat
    <3> QED BY ONLY <3>1, <3>2
  <2>2. ASSUME NEW i \in 1 .. a PROVE Tag(r, b + i)' = Rounds(c)[i]
    <3>1. Tag(r, Base(r) + i)' = Rounds(call[r])[i]
      BY <1>1, <1>7, <1>9, <2>1 DEF RankInv
    <3> QED BY <1>2, <1>4, <1>9, <3>1 DEF Tag
  <2> QED BY <2>2 DEF Traced
<1>11. PICK s \in Nat : s = b + a /\ s = Len(asked'[r])
  BY <1>1, <1>4
<1>12. a \in Nat
  BY <1>1, <1>3
<1>13. LedUp(r, s)'
  BY <1>5, <1>6, <1>8, <1>10, <1>11, <1>12, LedUpIs
<1> QED BY <1>1, <1>11, <1>13 DEF LedUp, Tag

\* A rank goes on as its last request demands, and a step applies what was reduced.
LEMMA ConfirmWorks ==
    ASSUME GroupInv, CallInv, RestoreInv, MeanInv, ConfirmInv, NEW r \in Ranks, Work(r)
    PROVE  ConfirmInv'
<1>1. /\ call[r] # None /\ ~Group!Waits(r) /\ at[r] \in 1 .. Len(Rounds(call[r]))
      /\ Round(r) = Rounds(call[r])[at[r]] /\ call[r] \in Replicates \cup Shards
      /\ UNCHANGED <<kind, session, call, at, built, saved, origin, confirmed, done, stopped>>
      /\ Len(asked[r]) \in Nat /\ Len(asked[r]) = Len(done[r])
      /\ Base(r) \in Nat /\ Base(r) + at[r] = Len(asked[r]) + 1
      /\ Len(asked'[r]) = Len(asked[r]) + 1 /\ Group!Waits(r)'
      /\ \A n \in 1 .. Len(asked[r]) : asked'[r][n] = asked[r][n]
      /\ \A q \in Ranks \ {r} : asked'[q] = asked[q]
      /\ \A m \in Nat : m = Len(asked[r]) + 1 => Tag(r, m)' = Round(r) /\ What(r, m)' = Value(r)
  BY WorkIs
<1>2. PICK ok \in BOOLEAN : LocalWork(r, ok) /\ (Asking(r)' <=> ok)
  BY WorkIs
<1>3. PICK n \in Nat : n = Len(asked[r])
  BY <1>1
<1>4. FollowInv(r) /\ StepInv(r) /\ PendingInv(r) /\ ModelInv(r) /\ RankInv(r)
  BY DEF ConfirmInv, MeanInv, CallInv
<1>5. /\ \A j \in 1 .. Len(asked[r]) - 1 : Follows(r, j) => Follows(r, j)'
      /\ Len(asked[r]) # 0 /\ Closed(r, Len(asked[r])) =>
           \A j : j = Len(asked[r]) => Closed(r, j)'
  BY <1>1, AskedStays
<1>6. FollowInv(r)'
  <2>1. ASSUME n # 0 PROVE Follows(r, n)'
    <3>0. Tag(r, n)' = Tag(r, n)
      <4>1. n \in 1 .. Len(asked[r])
        BY <1>3, <2>1
      <4>2. asked'[r][n] = asked[r][n]
        BY <1>1, <4>1
      <4> QED BY <4>2 DEF Tag
    <3>1. Tag(r, n)' = Tag(r, n) /\ Tag(r, n + 1)' = Round(r)
      BY <1>1, <1>3, <3>0
    <3>2. CASE at[r] = 1
      <4>1. Closed(r, Len(asked[r]))
        BY <1>1, <1>3, <1>4, <2>1, <3>2, CallIs DEF FollowInv
      <4>2. Closed(r, n)'
        BY <1>3, <1>5, <2>1, <4>1
      <4> QED BY <4>2 DEF Closed, Follows
    <3>3. CASE at[r] # 1
      <4>1. Run(r, n - Params, n)' => Run(r, n - Params, n)
        <5>1. \A j \in 1 .. n : Op(r, j)' = Op(r, j)
          BY <1>1, <1>3 DEF Op
        <5> QED BY <2>1, <5>1 DEF Run
      <4>2. /\ Tag(r, n) = "all_reduce" => Round(r) \in {"all_reduce", "copy"}
            /\ Tag(r, n) = "copy" => Round(r) = "step"
            /\ Tag(r, n) = "reduce_scatter" /\ Run(r, n - Params, n) => Round(r) = "zero"
            /\ Tag(r, n) = "zero" =>
                 (kind = "replicated" /\ Round(r) = "backward") \/ Round(r) = "seed"
            /\ Tag(r, n) = "seed" => Round(r) = "step"
        BY <1>1, <1>3, <3>3, GoesOn
      <4> QED BY <1>1, <3>1, <4>1, <4>2 DEF Follows
    <3> QED BY <3>2, <3>3
  <2>2. \A j \in 1 .. Len(asked'[r]) - 1 : j \in 1 .. Len(asked[r]) - 1 \/ (j = n /\ n # 0)
    BY <1>1, <1>3
  <2> QED BY <1>1, <1>4, <1>5, <2>1, <2>2 DEF FollowInv
<1>7. /\ Round(r) = "step" => /\ call[r] \in Trains /\ grad[r] = done[r][(n + 1) - Lead]
                              /\ (n + 1) - Lead \in 1 .. Len(done[r])
      /\ Round(r) = "built" => kind = "sharded" /\ ~built[r]
  <2>1. Round(r) = "built" => kind = "sharded" /\ ~built[r]
    BY <1>1, <1>4, WorksAt DEF RankInv, Replicates, Builds, CallInv
  <2> QED BY <1>3, <2>1, StepApplies
<1>8. /\ ~(ok /\ Round(r) \in {"step", "built"}) =>
           weights'[r] = weights[r] /\ moments'[r] = moments[r]
      /\ ok /\ Round(r) = "step" =>
           /\ weights'[r] = [weights[r] EXCEPT !.updates = Append(@, grad[r])]
           /\ moments'[r] = Append(moments[r], grad[r])
      /\ \A q \in Ranks \ {r} : weights'[q] = weights[q] /\ moments'[q] = moments[q]
  BY <1>2, LocalIs
<1>9. /\ ~(ok /\ Round(r) = "built") => \A u : Holds(r, u) => Holds(r, u)'
      /\ ok /\ Round(r) = "step" => \A u : u = grad[r] => Holds(r, u)'
  <2>1. IsModel(weights[r]) /\ IsSeq(moments[r])
    BY <1>4 DEF ModelInv
  <2>2. CASE ok /\ Round(r) = "step"
    BY <1>8, <2>1, <2>2, HoldsGrows
  <2>3. CASE ~(ok /\ Round(r) \in {"step", "built"})
    BY <1>8, <2>3, HoldsStays
  <2> QED BY <2>2, <2>3
<1>10. StepInv(r)'
  <2>1. Lead' = Lead /\ Len(asked'[r]) = n + 1
    BY <1>1, <1>3 DEF Lead
  <2>2. ASSUME NEW m \in 1 .. n + 1, Tag(r, m)' = "step"
        PROVE  /\ LedUp(r, m)'
               /\ asked'[r][m].ok => /\ built[r] /\ m - Lead \in 1 .. Len(done[r])
                                     /\ \A u : u = done[r][m - Lead] => Holds(r, u)'
    <3>1. CASE m = n + 1
      <4>1. Round(r) = "step"
        BY <1>1, <1>3, <2>2, <3>1
      <4>2. built[r]
        BY <1>1, <1>4, <1>7, <4>1 DEF RankInv, Trains, Builds
      <4>3. asked'[r][m].ok => ok
        BY <1>1, <1>2, <1>3, <3>1 DEF Asking
      <4>4. LedUp(r, m)'
        BY <1>1, <1>3, <3>1, <4>1, StepLedUp
      <4> QED BY <1>7, <1>9, <3>1, <4>1, <4>2, <4>3, <4>4
    <3>2. CASE m # n + 1
      <4>1. m \in 1 .. Len(asked[r]) /\ asked'[r][m] = asked[r][m]
        BY <1>1, <1>3, <3>2
      <4>2. Tag(r, m) = "step"
        BY <2>2, <4>1 DEF Tag
      <4>3. LedUp(r, m)'
        <5>1. LedUp(r, m)
          BY <1>4, <4>1, <4>2 DEF StepInv
        <5> QED BY <1>1, <4>1, <5>1, LedUpStays
      <4>4. ASSUME asked'[r][m].ok
            PROVE  /\ built[r] /\ m - Lead \in 1 .. Len(done[r])
                   /\ \A u : u = done[r][m - Lead] => Holds(r, u)'
        <5>1. built[r] /\ m - Lead \in 1 .. Len(done[r]) /\ Holds(r, done[r][m - Lead])
          BY <1>4, <4>1, <4>2, <4>4 DEF StepInv
        <5> QED BY <1>7, <1>9, <5>1
      <4> QED BY <4>3, <4>4
    <3> QED BY <3>1, <3>2
  <2>3. \A u : Holds(r, u)' <=> (u \in Range(weights'[r].updates) /\ u \in Range(moments'[r]))
    BY DEF Holds
  <2> QED BY <1>1, <2>1, <2>2, <2>3 DEF StepInv, Holds
<1>11. ASSUME NEW q \in Ranks, q # r PROVE FollowInv(q)' /\ StepInv(q)'
  <2>1. Len(asked[q]) \in Nat /\ Len(done[q]) \in Nat
    BY DEF GroupInv, IsSeq
  <2> QED BY <1>1, <1>8, <1>11, <2>1, ConfirmUnmoved
<1>12. \A q \in Ranks : PendingInv(q)'
  <2>1. ASSUME NEW m \in 1 .. Len(asked'[0])
        PROVE  \/ m \in 1 .. Len(asked[0]) /\ asked'[0][m] = asked[0][m]
               \/ Tag(0, m)' = "broadcast" => What(0, m)' = weights[0]
    <3>1. CASE r = 0
      <4>1. CASE m = n + 1
        <5>1. Tag(r, m)' = Round(r) /\ What(r, m)' = Value(r)
          BY <1>1, <1>3, <4>1
        <5> QED BY <3>1, <5>1 DEF Value
      <4>2. CASE m # n + 1
        BY <1>1, <1>3, <3>1, <4>2
      <4> QED BY <4>1, <4>2
    <3>2. CASE r # 0
      BY <1>1, <3>2, ConstantsAre
    <3> QED BY <3>1, <3>2
  <2> QED BY <1>1, <2>1, PendingStays
<1>13. StepsConfirmed'
  <2>1. ASSUME NEW q \in Ranks, NEW p \in Ranks, NEW u \in confirmed[p], Holds(q, u) PROVE Holds(q, u)'
    <3>1. CASE q # r
      BY <1>8, <2>1, <3>1, HoldsStays
    <3>2. CASE q = r
      <4>1. Round(r) # "built"
        BY <1>4, <1>7 DEF PendingInv
      <4> QED BY <1>9, <2>1, <3>2, <4>1
    <3> QED BY <3>1, <3>2
  <2> QED BY <1>1, <2>1, ConfirmedStay
<1> QED BY <1>1, <1>6, <1>10, <1>11, <1>12, <1>13 DEF ConfirmInv

\* A result that arrives changes neither requests nor models.
LEMMA ConfirmReceives ==
    ASSUME GroupInv, CallInv, ConfirmInv, NEW r \in Ranks, Receive(r)
    PROVE  ConfirmInv'
<1>1. /\ call[r] # None /\ Group!Waits(r) /\ Group!Receive(r)
      /\ at' = [at EXCEPT ![r] = at[r] + 1] /\ asked' = asked
      /\ \A q \in Ranks \ {r} : call'[q] = call[q] /\ stopped'[q] = stopped[q]
      /\ stopped'[r] \/ call'[r] = call[r]
      /\ UNCHANGED <<kind, built, weights, moments, confirmed>>
  BY DEF Receive, Group!Receive, CallInv, GroupInv, state
<1>2. /\ at[r] \in Nat \ {0} /\ DOMAIN at = Ranks
      /\ \A q \in Ranks : Len(asked[q]) \in Nat /\ Len(done[q]) \in Nat
  BY <1>1, CallIs DEF CallInv, GroupInv, IsSeq
<1>3. /\ Len(done'[r]) = Len(done[r]) + 1 /\ \A q \in Ranks \ {r} : done'[q] = done[q]
      /\ \A n \in 1 .. Len(done[r]) : done'[r][n] = done[r][n]
  BY <1>1, ReceiveAdds
<1>4. at'[r] # 1 /\ \A q \in Ranks \ {r} : at'[q] = at[q]
  BY <1>1, <1>2
<1>5. FollowInv(r) /\ StepInv(r)
  BY DEF ConfirmInv
<1>6. \A j \in 1 .. Len(asked[r]) - 1 : Follows(r, j) => Follows(r, j)'
  BY <1>1, <1>2, AskedStays
<1>7. FollowInv(r)'
  BY <1>1, <1>4, <1>5, <1>6 DEF FollowInv
<1>8. StepInv(r)'
  <2>1. Len(done'[r]) \in Nat /\ Len(done[r]) <= Len(done'[r])
    BY <1>2, <1>3
  <2> QED BY <1>1, <1>2, <1>3, <1>5, <2>1, StepStays, HoldsStays
<1>9. ASSUME NEW q \in Ranks, q # r PROVE FollowInv(q)' /\ StepInv(q)'
  BY <1>1, <1>2, <1>3, <1>4, <1>9, ConfirmUnmoved
<1>10. \A q \in Ranks : PendingInv(q)'
  BY <1>1, PendingStays
<1>11. StepsConfirmed'
  BY <1>1, ConfirmedStay DEF Holds
<1> QED BY <1>1, <1>7, <1>8, <1>9, <1>10, <1>11 DEF ConfirmInv

\* A call that returns Ok confirms only what all have applied; one that makes a
\* trainer finds nothing confirmed, or all of it in the model that was broadcast.
LEMMA ConfirmFinishes ==
    ASSUME GroupInv, CallInv, MeanInv, ConfirmInv, NEW r \in Ranks, Finish(r)
    PROVE  ConfirmInv'
<1>1. /\ call[r] # None /\ Round(r) = "end" /\ call' = [call EXCEPT ![r] = None] /\ ~Group!Waits(r)
      /\ UNCHANGED <<kind, at, asked, done, stopped>>
      /\ built' = [built EXCEPT ![r] = TRUE]
      /\ moments' = IF call[r] = "restore" THEN [moments EXCEPT ![r] = record[r].moments] ELSE moments
      /\ confirmed' = IF call[r] \in Trains
                      THEN [confirmed EXCEPT ![r] = confirmed[r] \cup {grad[r]}] ELSE confirmed
  BY DEF Finish, Works, group
<1>2. weights' = CASE call[r] = "construct" -> [weights EXCEPT ![r] = hand[r]]
                   [] call[r] = "restore" -> [weights EXCEPT ![r] = record[r].weights]
                   [] OTHER -> weights
  BY DEF Finish
<1>3. /\ DOMAIN call = Ranks /\ DOMAIN weights = Ranks /\ DOMAIN moments = Ranks
      /\ DOMAIN built = Ranks /\ DOMAIN confirmed = Ranks
      /\ \A q \in Ranks : Len(asked[q]) \in Nat /\ Len(done[q]) \in Nat /\ built[q] \in BOOLEAN
  BY DEF CallInv, RankInv, MeanInv, ConfirmInv, GroupInv, IsSeq
<1>4. /\ FollowInv(r) /\ StepInv(r) /\ PendingInv(r) /\ RankInv(r) /\ BroadcastInv(r)
  BY DEF ConfirmInv, CallInv, MeanInv
<1>5. /\ call'[r] = None /\ \A q \in Ranks \ {r} : call'[q] = call[q] /\ built'[q] = built[q]
      /\ built'[r] /\ \A q \in Ranks : built[q] => built'[q]
  BY <1>1, <1>3
<1>6. \A q \in Ranks \ {r} : weights'[q] = weights[q] /\ moments'[q] = moments[q]
  BY <1>1, <1>2, <1>3
<1>7. call[r] \notin {"construct", "restore"} => weights' = weights /\ moments' = moments
  BY <1>1, <1>2
<1>8. call[r] \in Builds <=> ~built[r]
  BY <1>1, <1>4 DEF RankInv
<1>9. FollowInv(r)'
  <2>1. Len(asked[r]) # 0 => Closed(r, Len(asked[r]))
    BY <1>1, <1>4, LeavesClosed
  <2>2. /\ \A j \in 1 .. Len(asked[r]) - 1 : Follows(r, j) => Follows(r, j)'
        /\ Len(asked[r]) # 0 /\ Closed(r, Len(asked[r])) =>
             \A j : j = Len(asked[r]) => Closed(r, j)'
    BY <1>1, <1>3, AskedStays
  <2> QED BY <1>1, <1>4, <2>1, <2>2 DEF FollowInv
<1>10. StepInv(r)'
  <2>1. ASSUME built[r], NEW u, Holds(r, u) PROVE Holds(r, u)'
    <3>1. weights' = weights /\ moments' = moments
      BY <1>7, <1>8, <2>1 DEF Builds
    <3> QED BY <2>1, <3>1, HoldsStays
  <2> QED BY <1>1, <1>3, <1>4, <1>5, <2>1, StepStays
<1>11. ASSUME NEW q \in Ranks, q # r PROVE FollowInv(q)' /\ StepInv(q)'
  BY <1>1, <1>3, <1>5, <1>6, <1>11, ConfirmUnmoved
<1>12. CASE call[r] \in Trains
  <2>1. \A q \in Ranks : built[q] /\ Holds(q, grad[r])
    BY <1>12, ConfirmedIs
  <2>2. weights' = weights /\ moments' = moments
    BY <1>7, <1>12 DEF Trains
  <2>3. \A p \in Ranks : \A u \in confirmed'[p] : u \in confirmed[p] \/ u = grad[r]
    BY <1>1, <1>3, <1>12
  <2>4. StepsConfirmed'
    BY <2>1, <2>2, <2>3 DEF StepsConfirmed, ConfirmInv, Holds
  <2>5. \A q \in Ranks : PendingInv(q)'
    BY <1>5, <2>1 DEF PendingInv
  <2>6. DOMAIN confirmed' = Ranks
    BY <1>1, <1>3
  <2> QED BY <1>9, <1>10, <1>11, <2>4, <2>5, <2>6 DEF ConfirmInv
<1>13. CASE call[r] \notin Trains
  <2>1. confirmed' = confirmed
    BY <1>1, <1>13
  <2>2. \A q \in Ranks : PendingInv(q)'
    BY <1>1, <1>5, <2>1, PendingStays
  <2>3. ASSUME NEW q \in Ranks, NEW p \in Ranks, NEW u \in confirmed[p], Holds(q, u)
        PROVE  Holds(q, u)'
    <3>1. CASE q # r
      BY <1>6, <2>3, <3>1, HoldsStays
    <3>2. CASE q = r /\ call[r] \notin {"construct", "restore"}
      BY <1>7, <2>3, <3>2, HoldsStays
    <3>3. CASE q = r /\ call[r] = "restore"
      <4>1. kind = "sharded" /\ ~built[r]
        BY <1>4, <1>8, <3>3 DEF RankInv, Replicates, Builds, None, CallInv
      <4> QED BY <1>4, <4>1 DEF PendingInv
    <3>4. CASE q = r /\ call[r] = "construct"
      <4>1. PICK a \in Nat : a = at[r] /\ a = Params + 3
        <5>1. at[r] = Len(Rounds(call[r])) + 1
          BY <1>1, EndIs
        <5>2. Rounds(call[r]) = Construct /\ Len(Rounds(call[r])) = Params + 2 /\ Params \in Nat \ {0}
          BY <3>4, ConstructIs, ConstantsAre DEF Rounds
        <5> QED BY <5>1, <5>2
      <4>2. PICK n \in 1 .. Len(done[r]) : n = Base(r) + at[r] - 1 /\ n = Base(r) + (Params + 2)
        <5>1. PICK b \in Nat : b = Base(r) /\ b + a = Len(done[r]) + 1 /\ Len(done[r]) \in Nat
          BY <1>1, <4>1, CallIs
        <5>2. Params \in Nat \ {0}
          BY ConstantsAre
        <5>3. PICK m \in 1 .. Len(done[r]) : m = b + (Params + 2)
          BY <4>1, <5>1, <5>2
        <5>4. m = Base(r) + at[r] - 1 /\ m = Base(r) + (Params + 2)
          BY <4>1, <5>1, <5>2, <5>3
        <5> QED BY <5>4
      <4>3. Tag(r, n) = "broadcast"
        <5>1. Params + 2 \in 1 .. at[r] - 1 /\ Params + 2 \in 3 .. Params + 2
          BY <4>1, ConstantsAre
        <5>2. Tag(r, Base(r) + (Params + 2)) = Rounds(call[r])[Params + 2]
          BY <1>1, <5>1, CallIs
        <5> QED BY <3>4, <4>2, <5>1, <5>2, ConstructIs DEF Rounds
      <4>4. hand[r] = done[r][n]
        <5>1. at[r] \in 4 .. Params + 3
          BY <4>1, ConstantsAre
        <5> QED BY <1>4, <3>4, <4>2, <5>1 DEF BroadcastInv
      <4>5. done[r][n] = What(0, n) /\ Tag(0, n) = "broadcast" /\ n \in 1 .. Len(asked[0])
        BY <4>3, BroadcastIs, ConstantsAre
      <4>6. ~built[r]
        BY <1>8, <3>4 DEF Builds
      <4>7. u \in Range(hand[r].updates)
        BY <1>4, <4>4, <4>5, <4>6 DEF PendingInv
      <4>8. weights'[r] = hand[r] /\ moments'[r] = moments[r]
        BY <1>1, <1>2, <1>3, <3>4
      <4> QED BY <2>3, <3>4, <4>7, <4>8 DEF Holds
    <3> QED BY <3>1, <3>2, <3>3, <3>4
  <2>4. StepsConfirmed'
    BY <2>1, <2>3, ConfirmedStay
  <2> QED BY <1>3, <1>9, <1>10, <1>11, <2>1, <2>2, <2>4 DEF ConfirmInv
<1> QED BY <1>12, <1>13

\* Initially nothing is confirmed.
LEMMA ConfirmInit == ASSUME Init PROVE ConfirmInv
<1>1. asked = [r \in Ranks |-> <<>>] /\ confirmed = [r \in Ranks |-> {}]
  BY DEF Init, Group!Init
<1>2. ASSUME NEW r \in Ranks PROVE FollowInv(r) /\ StepInv(r) /\ PendingInv(r)
  <2>1. 1 .. Len(asked[r]) = {} /\ Len(asked[r]) = 0 /\ 1 .. Len(asked[r]) - 1 = {}
    BY <1>1, EmptyIs
  <2> QED BY <1>1, <2>1 DEF FollowInv, StepInv, PendingInv
<1> QED BY <1>1, <1>2 DEF ConfirmInv, StepsConfirmed

\* No step confirms what is not in every model.
LEMMA ConfirmNext ==
    ASSUME GroupInv, CallInv, RestoreInv, MeanInv, ConfirmInv, Next
    PROVE  ConfirmInv'
BY ConfirmRenews, ConfirmBegins, ConfirmWorks, ConfirmReceives, ConfirmFinishes,
   ConfirmLeaves DEF Next

\* Nothing changes.
LEMMA ConfirmStutters ==
    ASSUME GroupInv, ConfirmInv, UNCHANGED vars
    PROVE  ConfirmInv'
<1>1. UNCHANGED <<kind, asked, done, stopped, call, at, built, weights, moments, confirmed>>
  BY DEF vars, group, state
<1>2. \A q \in Ranks : Len(asked[q]) \in Nat /\ Len(done[q]) \in Nat
  BY DEF GroupInv, IsSeq
<1>3. \A q \in Ranks : FollowInv(q)' /\ StepInv(q)'
  BY <1>1, <1>2, ConfirmUnmoved
<1>4. \A q \in Ranks : PendingInv(q)'
  BY <1>1, PendingStays
<1>5. StepsConfirmed'
  BY <1>1, ConfirmedStay DEF Holds
<1> QED BY <1>1, <1>3, <1>4, <1>5 DEF ConfirmInv

\* A train call returns Ok on a rank only when its update is in the weights and the
\* moments of every rank, however often steps fail, calls are left early and sessions
\* begin anew (agree_status after try_step in backward_step and train_step).
THEOREM ConfirmedEverywhere == Spec => []StepsConfirmed
<1> DEFINE Inv == GroupInv /\ CallInv /\ RestoreInv /\ MeanInv /\ ConfirmInv
<1>1. Init => Inv
  BY RestoreInit, MeanInit, ConfirmInit
<1>2. Inv /\ [Next]_vars => Inv'
  BY GroupNext, CallNext, RestoreNext, RestoreStutters, MeanNext, MeanStutters,
     ConfirmNext, ConfirmStutters
<1>3. Inv => StepsConfirmed
  BY DEF ConfirmInv
<1> QED BY <1>1, <1>2, <1>3, PTL DEF Spec
-----------------------------------------------------------------------------
\* Replicas

\* All ranks sent the same in collective n
Agreed(n) == \A p, q \in Ranks : asked[p][n].value = asked[q][n].value

\* The ranks have found in this session that they agree on their settings
Settled == \E n \in Nat : Concluded(n) /\ Agreed(n) /\ \E r \in Ranks : Tag(r, n) = "same_config"

\* The rank has applied a step that nobody has concluded, and what it has applied
Ahead(r) ==
    LET n == Len(asked[r])
    IN  n # 0 /\ Tag(r, n) = "step" /\ asked[r][n].ok /\ ~Concluded(n)
Applied(r) == done[r][Len(asked[r]) - Lead]

\* What two ranks hold differs in the step that only one of them has applied
Level(r, q, u, v) ==
    /\ (Ahead(r) <=> Ahead(q)) => u = v
    /\ Ahead(r) /\ ~Ahead(q) => u = Append(v, Applied(r))

\* The moments of replicas outlive a session; its first agreement shows them equal
PairInv(r, q) ==
    /\ built[r] /\ built[q] =>
        /\ weights[r].base = weights[q].base
        /\ Level(r, q, weights[r].updates, weights[q].updates)
    /\ (IF kind = "replicated" THEN Settled ELSE built[r] /\ built[q]) =>
        Level(r, q, moments[r], moments[q])

Near(u, v) == u = v \/ \E x : u = Append(v, x) \/ v = Append(u, x)

UnsettledInv ==
    kind = "replicated" /\ ~Settled => \A r, q \in Ranks : Near(moments[r], moments[q])

\* A rank steps in a call that found agreement, of moments as they are
SettingInv(r) ==
    kind = "replicated" =>
        /\ call[r] = "backward_step" /\ at[r] >= 6 => Agreed(Base(r) + 5)
        /\ Len(asked[r]) # 0 /\ Tag(r, Len(asked[r])) = "same_config" =>
            What(r, Len(asked[r])) = Len(moments[r])

\* What the call gives that ended with collective m and gave the rank its trainer
Given(r, c, m) ==
    /\ c = "construct" => weights[r] = What(0, m)
    /\ c = "new" => weights[r] = What(0, m - 4) /\ moments[r] = <<>>
    /\ c = "restore" => weights[r] = What(r, m - 8).weights /\ moments[r] = What(r, m - 8).moments

Born(r, c, m) ==
    /\ c \in Builds /\ (kind = "replicated" <=> c = "construct") /\ Len(Rounds(c)) <= m
    /\ Traced(r, m - Len(Rounds(c)), Len(Rounds(c)), Rounds(c))
    /\ call[r] # None => m <= Base(r)
    /\ \A n \in m + 1 .. Len(asked[r]) :
        /\ Tag(r, n) # "broadcast"
        /\ Tag(r, n) = "records" => What(r, n).stamp[1] = session
    /\ Len(asked[r]) <= m + 1 => Given(r, c, m) /\ Tag(r, Len(asked[r])) # "step"

\* A trainer is what its call made of it, until it makes a step
BornInv(r) == built[r] => \E m \in 1 .. Len(done[r]) : \E c \in Builds : Born(r, c, m)

\* What a call is about to make a trainer of
NewInv(r) ==
    call[r] = "new" /\ ((at[r] = Params + 3 /\ Asking(r)) \/ at[r] >= Params + 4) =>
        weights[r] = What(0, Base(r) + Params + 2) /\ moments[r] = <<>>

SentInv(r) ==
    call[r] = "restore" =>
        /\ (at[r] = 2 /\ Group!Waits(r)) \/ at[r] >= 3 => What(r, Base(r) + 2) = record[r]
        /\ at[r] \in {3, 4} => \A q \in Ranks : hand[r][q] = asked[q][Base(r) + 2].value
        /\ at[r] >= 5 => \A q \in Ranks :
            Tag(q, Base(r) + 2) = "records" /\ What(q, Base(r) + 2).stamp = record[r].stamp

\* The records a rank has, or has sent
RecordsOf(r) ==
    {saved[r], record[r]} \cup {What(r, n) : n \in {m \in 1 .. Len(asked[r]) : Tag(r, m) = "records"}}

\* A record is what its rank held when all ranks had made as many collectives
RecordInv(r) == \A x \in RecordsOf(r) : x # Nothing =>
    /\ x = [stamp |-> <<x.stamp[1], x.stamp[2]>>, weights |-> x.weights, moments |-> x.moments]
    /\ x.stamp[1] \in Nat /\ x.stamp[2] \in Nat /\ x.stamp[1] <= session
    /\ x.stamp[1] = session =>
        /\ built[r] /\ x.stamp[2] + 1 \in 1 .. Len(asked[r])
        /\ Tag(r, x.stamp[2] + 1) = "capture"
        /\ Len(asked[r]) = x.stamp[2] + 1 => x.weights = weights[r] /\ x.moments = moments[r]

SameRecords ==
    \A r, q \in Ranks : \A x \in RecordsOf(r), y \in RecordsOf(q) :
        x.stamp = y.stamp => x = y

CloseInv ==
    /\ \A r \in Ranks : /\ SettingInv(r) /\ BornInv(r) /\ NewInv(r) /\ SentInv(r) /\ RecordInv(r)
                        /\ \A q \in Ranks : PairInv(r, q)
    /\ UnsettledInv /\ SameRecords

\* The requests of a collective that was concluded are what they were.
LEMMA ConcludedStays ==
    ASSUME GroupInv, Grows, NEW n \in Nat, Concluded(n)
    PROVE  /\ \A q \in Ranks : /\ n \in 1 .. Len(asked[q]) /\ n \in 1 .. Len(asked'[q])
                               /\ asked'[q][n] = asked[q][n] /\ Tag(q, n)' = Tag(q, n)
                               /\ What(q, n)' = What(q, n)
           /\ Agreed(n)' <=> Agreed(n)
<1>1. \A q \in Ranks : n \in 1 .. Len(asked[q])
  BY ConcludedIs
<1>2. \A q \in Ranks : n \in 1 .. Len(asked'[q]) /\ asked'[q][n] = asked[q][n]
  BY <1>1 DEF Grows
<1>3. \A q \in Ranks : Tag(q, n)' = Tag(q, n) /\ What(q, n)' = What(q, n)
  BY <1>2 DEF Tag, What
<1>4. Agreed(n)' <=> Agreed(n)
  BY <1>2 DEF Agreed
<1> QED BY <1>1, <1>2, <1>3, <1>4

\* What a call gave stays what it gave.
LEMMA GivenStays ==
    ASSUME GroupInv, Grows, NEW r \in Ranks, NEW c \in Builds, NEW m \in 1 .. Len(done[r]),
           Len(Rounds(c)) <= m, Given(r, c, m), weights'[r] = weights[r], moments'[r] = moments[r]
    PROVE  Given(r, c, m)'
<1>1. Len(done[r]) \in Nat /\ m \in Nat /\ Concluded(m)
  BY DEF GroupInv, IsSeq, Concluded
<1>2. What(0, m)' = What(0, m)
  BY <1>1, ConcludedStays, ConstantsAre
<1>3. ASSUME c = "new" PROVE What(0, m - 4)' = What(0, m - 4)
  <2>1. PICK n \in 1 .. Len(done[r]) : n = m - 4
    BY <1>1, <1>3, NewIs, ConstantsAre
  <2>2. n \in Nat /\ Concluded(n)
    BY <1>1 DEF Concluded
  <2> QED BY <2>1, <2>2, ConcludedStays, ConstantsAre
<1>4. ASSUME c = "restore" PROVE What(r, m - 8)' = What(r, m - 8)
  <2>1. PICK n \in 1 .. Len(done[r]) : n = m - 8
    BY <1>1, <1>4, RestoreIs
  <2>2. n \in Nat /\ Concluded(n)
    BY <1>1 DEF Concluded
  <2> QED BY <2>1, <2>2, ConcludedStays
<1> QED BY <1>2, <1>3, <1>4 DEF Given

\* A trainer that makes no step is what it was.
LEMMA BornStays ==
    ASSUME GroupInv, CallInv, Grows, UNCHANGED <<kind, session>>, NEW r \in Ranks, BornInv(r),
           built'[r] = built[r], asked'[r] = asked[r], 1 .. Len(done[r]) \subseteq 1 .. Len(done'[r]),
           weights'[r] = weights[r], moments'[r] = moments[r],
           \A b : b = Base(r)' =>
              \/ call'[r] = None
              \/ call'[r] = call[r] /\ b = Base(r)
              \/ b \in Nat /\ b >= Len(done[r])
    PROVE  BornInv(r)'
<1> SUFFICES ASSUME built[r] PROVE BornInv(r)'
  BY DEF BornInv
<1>1. PICK m \in 1 .. Len(done[r]) : \E c \in Builds : Born(r, c, m)
  BY DEF BornInv
<1>2. PICK c \in Builds : Born(r, c, m)
  BY <1>1
<1>3. Len(done[r]) \in Nat /\ m \in Nat /\ Concluded(m) /\ Len(asked[r]) \in Nat
  BY DEF GroupInv, IsSeq, Concluded
<1>4. \A n : Tag(r, n)' = Tag(r, n) /\ What(r, n)' = What(r, n)
  BY DEF Tag, What
<1>5. Traced(r, m - Len(Rounds(c)), Len(Rounds(c)), Rounds(c))'
  BY <1>2, <1>4 DEF Born, Traced
<1>6. call'[r] # None => m <= Base(r)'
  <2>1. PICK b : b = Base(r)'
    OBVIOUS
  <2>2. CASE call'[r] = call[r] /\ b = Base(r)
    BY <1>2, <2>1, <2>2 DEF Born
  <2>3. CASE b \in Nat /\ b >= Len(done[r])
    BY <1>3, <2>1, <2>3
  <2> QED BY <2>1, <2>2, <2>3
<1>7. Len(asked[r]) <= m + 1 => Given(r, c, m)' /\ Tag(r, Len(asked[r])) # "step"
  <2> SUFFICES ASSUME Len(asked[r]) <= m + 1
               PROVE  Given(r, c, m)' /\ Tag(r, Len(asked[r])) # "step"
    OBVIOUS
  <2>1. Given(r, c, m) /\ Tag(r, Len(asked[r])) # "step"
    BY <1>2 DEF Born
  <2>2. Len(Rounds(c)) <= m
    BY <1>2 DEF Born
  <2> QED BY <2>1, <2>2, GivenStays
<1>8. Born(r, c, m)'
  <2>1. /\ c \in Builds /\ (kind = "replicated" <=> c = "construct") /\ Len(Rounds(c)) <= m
        /\ \A n \in m + 1 .. Len(asked[r]) :
            /\ Tag(r, n) # "broadcast"
            /\ Tag(r, n) = "records" => What(r, n).stamp[1] = session
    BY <1>2 DEF Born
  <2>2. \A n : asked'[r] = asked[r] /\ Tag(r, n)' = Tag(r, n) /\ What(r, n)' = What(r, n)
    BY <1>4
  <2>3. \A n : n = Len(asked[r]) => Tag(r, n)' = Tag(r, n)
    BY <1>4
  <2> QED BY <1>5, <1>6, <1>7, <2>1, <2>2, <2>3 DEF Born, Tag, What
<1> QED BY <1>8 DEF BornInv

\* What is known of a rank stays known while it only begins or leaves a call.
LEMMA CloseUnmoved ==
    ASSUME GroupInv, CallInv, CloseInv, Grows, UNCHANGED <<kind, session>>, NEW q \in Ranks,
           asked'[q] = asked[q], done'[q] = done[q], built'[q] = built[q], hand'[q] = hand[q],
           weights'[q] = weights[q], moments'[q] = moments[q], record'[q] = record[q],
           saved'[q] \in {saved[q], record[q]},
           \/ call'[q] = None
           \/ call'[q] = call[q] /\ at'[q] = at[q]
           \/ at'[q] = 1
    PROVE  /\ SettingInv(q)' /\ BornInv(q)' /\ NewInv(q)' /\ SentInv(q)' /\ RecordInv(q)'
           /\ RecordsOf(q)' \subseteq RecordsOf(q)
<1>1. /\ Len(asked[q]) \in Nat /\ Len(done[q]) \in Nat /\ Len(done[q]) <= Len(asked[q])
      /\ SettingInv(q) /\ BornInv(q) /\ NewInv(q) /\ SentInv(q) /\ RecordInv(q) /\ RankInv(q)
  BY DEF GroupInv, IsSeq, CloseInv, CallInv
<1>2. /\ \A n : Tag(q, n)' = Tag(q, n) /\ What(q, n)' = What(q, n)
      /\ Group!Waits(q)' <=> Group!Waits(q)
      /\ Asking(q)' <=> Asking(q)
      /\ at'[q] = at[q] => Base(q)' = Base(q)
      /\ at'[q] = 1 => Base(q)' = Len(done[q])
  BY <1>1 DEF Tag, What, Group!Waits, Asking, Base
<1>3. Params \in Nat \ {0}
  BY ConstantsAre
<1>4. BornInv(q)'
  <2>1. \A b : b = Base(q)' =>
          \/ call'[q] = None
          \/ call'[q] = call[q] /\ b = Base(q)
          \/ b \in Nat /\ b >= Len(done[q])
    BY <1>1, <1>2
  <2> QED BY <1>1, <2>1, BornStays
<1>5. CASE call'[q] = None \/ at'[q] = 1
  <2>1. SettingInv(q)'
    <3>1. \A n : n = Len(asked[q]) => Tag(q, n)' = Tag(q, n) /\ What(q, n)' = What(q, n)
      BY <1>2
    <3> QED BY <1>1, <1>5, <3>1 DEF SettingInv, Tag, What, None
  <2>2. NewInv(q)' /\ SentInv(q)'
    BY <1>3, <1>5 DEF NewInv, SentInv, None
  <2>3. RecordsOf(q)' \subseteq RecordsOf(q)
    BY <1>1, <1>2 DEF RecordsOf, Tag, What
  <2>4. RecordInv(q)'
    BY <1>1, <1>2, <2>3 DEF RecordInv, Tag
  <2> QED BY ONLY <1>4, <2>1, <2>2, <2>3, <2>4
<1>6. CASE call'[q] = call[q] /\ call[q] # None /\ at'[q] = at[q]
  <2>1. /\ at[q] \in Nat \ {0} /\ Base(q) \in Nat /\ Base(q) + at[q] = Len(done[q]) + 1
    BY <1>6, CallIs
  <2>2. PICK b \in Nat : b = Base(q) /\ b = Base(q)'
    BY <1>2, <1>6, <2>1
  <2>3. ASSUME NEW i \in 1 .. at[q] - 1
        PROVE  b + i \in Nat /\ Concluded(b + i)
    <3>1. b + i \in 1 .. Len(done[q])
      BY <1>1, <2>1, <2>2
    <3> QED BY <1>1, <3>1 DEF Concluded
  <2>4. SettingInv(q)'
    <3>1. kind = "replicated" /\ call[q] = "backward_step" /\ at[q] >= 6 => Agreed(b + 5)'
      <4> SUFFICES ASSUME kind = "replicated", call[q] = "backward_step", at[q] >= 6 PROVE Agreed(b + 5)'
        OBVIOUS
      <4>1. 5 \in 1 .. at[q] - 1 /\ Agreed(b + 5)
        BY <1>1, <2>1, <2>2 DEF SettingInv
      <4> QED BY <2>3, <4>1, ConcludedStays
    <3>2. \A n : n = Len(asked[q]) => Tag(q, n)' = Tag(q, n) /\ What(q, n)' = What(q, n)
      BY <1>2
    <3> QED BY <1>1, <1>6, <2>2, <3>1, <3>2 DEF SettingInv, Tag, What
  <2>5. NewInv(q)'
    <3>1. ASSUME call[q] = "new", at[q] >= Params + 3
          PROVE  What(0, b + Params + 2)' = What(0, b + Params + 2)
      <4>1. Params + 2 \in 1 .. at[q] - 1 /\ b + (Params + 2) = b + Params + 2
        BY <1>3, <2>1, <2>2, <3>1
      <4> QED BY <2>3, <4>1, ConcludedStays, ConstantsAre
    <3>2. call[q] = "new" /\ ((at[q] = Params + 3 /\ Asking(q)) \/ at[q] >= Params + 4) =>
            at[q] >= Params + 3 /\ weights[q] = What(0, b + Params + 2) /\ moments[q] = <<>>
      BY <1>1, <1>3, <2>1, <2>2 DEF NewInv
    <3> QED BY <1>2, <1>6, <2>2, <3>1, <3>2 DEF NewInv, What
  <2>6. SentInv(q)'
    <3>1. What(q, b + 2)' = What(q, b + 2)
      BY <1>2
    <3>2. ASSUME at[q] >= 3, NEW p \in Ranks
          PROVE  asked'[p][b + 2] = asked[p][b + 2]
      <4>1. 2 \in 1 .. at[q] - 1
        BY <2>1, <3>2
      <4> QED BY <2>3, <4>1, ConcludedStays
    <3>3. ASSUME call[q] = "restore"
          PROVE  /\ (at[q] = 2 /\ Group!Waits(q)) \/ at[q] >= 3 => What(q, b + 2) = record[q]
                 /\ at[q] \in {3, 4} => \A p \in Ranks : hand[q][p] = asked[p][b + 2].value
                 /\ at[q] >= 5 => \A p \in Ranks :
                      Tag(p, b + 2) = "records" /\ What(p, b + 2).stamp = record[q].stamp
      BY <1>1, <2>2, <3>3 DEF SentInv
    <3>4. at[q] \in {3, 4} \/ at[q] >= 5 => at[q] >= 3
      BY <2>1
    <3> QED BY <1>2, <1>6, <2>2, <3>1, <3>2, <3>3, <3>4 DEF SentInv, What, Tag
  <2>7. RecordsOf(q)' \subseteq RecordsOf(q)
    BY <1>1, <1>2 DEF RecordsOf, Tag, What
  <2>8. RecordInv(q)'
    BY <1>1, <1>2, <2>7 DEF RecordInv, Tag
  <2> QED BY ONLY <1>4, <2>4, <2>5, <2>6, <2>7, <2>8
<1> QED BY <1>5, <1>6

\* Models that stay as they are, after the same requests and answers, stay alike.
LEMMA PairsStay ==
    ASSUME UNCHANGED <<kind, asked, done, weights, moments>>, CloseInv,
           \A q \in Ranks : built'[q] = built[q]
    PROVE  /\ \A r, q \in Ranks : PairInv(r, q)'
           /\ UnsettledInv'
<1>1. /\ \A n : Concluded(n)' <=> Concluded(n)
      /\ \A n : Agreed(n)' <=> Agreed(n)
      /\ \A r, n : Tag(r, n)' = Tag(r, n)
      /\ Lead' = Lead
  BY DEF Concluded, Agreed, Tag, Lead
<1>2. Settled' <=> Settled
  BY <1>1 DEF Settled
<1>3. \A r \in Ranks : (Ahead(r)' <=> Ahead(r)) /\ Applied(r)' = Applied(r)
  BY <1>1 DEF Ahead, Applied, Tag, Concluded
<1>4. \A r, q \in Ranks : PairInv(r, q)'
  <2> TAKE r \in Ranks, q \in Ranks
  <2>1. PairInv(r, q)
    BY DEF CloseInv
  <2> QED BY <1>2, <1>3, <2>1 DEF PairInv, Level
<1>5. UnsettledInv'
  BY <1>2 DEF CloseInv, UnsettledInv, Near
<1> QED BY <1>4, <1>5

\* Nothing is lost from the records but some of them.
LEMMA RecordsStay ==
    ASSUME CloseInv, \A q \in Ranks : RecordsOf(q)' \subseteq RecordsOf(q)
    PROVE  SameRecords'
<1>1. ASSUME NEW r \in Ranks, NEW q \in Ranks, NEW x \in RecordsOf(r)', NEW y \in RecordsOf(q)', x.stamp = y.stamp
      PROVE  x = y
  <2>1. x \in RecordsOf(r) /\ y \in RecordsOf(q)
    OBVIOUS
  <2> QED BY <1>1, <2>1 DEF CloseInv, SameRecords
<1> QED BY <1>1 DEF SameRecords

\* A call that begins, or is left, changes no model.
LEMMA CloseQuiet ==
    ASSUME GroupInv, CallInv, CloseInv,
           UNCHANGED <<kind, session, asked, done, built, weights, moments, hand, record, saved>>,
           \A q \in Ranks : \/ call'[q] = None
                            \/ call'[q] = call[q] /\ at'[q] = at[q]
                            \/ at'[q] = 1
    PROVE  CloseInv'
<1>1. Grows
  BY DEF Grows
<1>2. \A q \in Ranks : /\ SettingInv(q)' /\ BornInv(q)' /\ NewInv(q)' /\ SentInv(q)' /\ RecordInv(q)'
                       /\ RecordsOf(q)' \subseteq RecordsOf(q)
  BY <1>1, CloseUnmoved
<1>3. SameRecords'
  BY <1>2, RecordsStay
<1>4. (\A r, q \in Ranks : PairInv(r, q)') /\ UnsettledInv'
  BY PairsStay
<1> QED BY <1>2, <1>3, <1>4 DEF CloseInv

\* Calls begin and are left, and nothing changes.
LEMMA CloseIdles ==
    ASSUME GroupInv, CallInv, CloseInv, NEW r \in Ranks,
           (\E c : Begin(r, c)) \/ LeaveEarly(r) \/ Error(r) \/ Drop(r)
    PROVE  CloseInv'
<1>1. /\ UNCHANGED <<kind, session, asked, done, built, weights, moments, hand, record, saved>>
      /\ DOMAIN call = Ranks /\ DOMAIN at = Ranks
  BY DEF Begin, LeaveEarly, Error, Drop, Group!Stop, group, state, CallInv
<1>2. \A q \in Ranks : \/ call'[q] = None
                       \/ call'[q] = call[q] /\ at'[q] = at[q]
                       \/ at'[q] = 1
  BY <1>1 DEF Begin, LeaveEarly, Error, Drop
<1> QED BY <1>1, <1>2, CloseQuiet

\* Nothing changes.
LEMMA CloseStutters ==
    ASSUME GroupInv, CallInv, CloseInv, UNCHANGED vars
    PROVE  CloseInv'
<1>1. /\ UNCHANGED <<kind, session, asked, done, built, weights, moments, hand, record, saved>>
      /\ UNCHANGED <<call, at>>
  BY DEF vars, group, state
<1> QED BY <1>1, CloseQuiet

\* Within reach of each other, as far as one step.
LEMMA LevelIsNear ==
    ASSUME NEW r \in Ranks, NEW q \in Ranks, NEW u, NEW v, Level(r, q, u, v), Level(q, r, v, u)
    PROVE  Near(u, v)
BY DEF Level, Near

\* Replicas begin a session with what the last one left them; shards begin anew.
LEMMA CloseRenews == ASSUME GroupInv, CallInv, RestoreInv, CloseInv, NewSession PROVE CloseInv'
<1>1. /\ kind' = kind /\ session' = session + 1 /\ session \in Nat
      /\ asked' = [r \in Ranks |-> <<>>] /\ built' = [r \in Ranks |-> FALSE]
      /\ done' = [r \in Ranks |-> <<>>]
      /\ \A r \in Ranks : call'[r] = None
      /\ UNCHANGED <<record, saved>>
      /\ kind = "replicated" => moments' = moments
  BY DEF NewSession, state, CallInv
<1>2. \A r \in Ranks : 1 .. Len(asked'[r]) = {} /\ Len(asked'[r]) = 0 /\ 1 .. Len(done'[r]) = {} /\ ~built'[r]
  BY <1>1, EmptyIs
<1>3. ASSUME NEW r \in Ranks
      PROVE  SettingInv(r)' /\ BornInv(r)' /\ NewInv(r)' /\ SentInv(r)'
  BY <1>1, <1>2 DEF SettingInv, BornInv, NewInv, SentInv, None
<1>4. \A r \in Ranks : RecordsOf(r)' \subseteq RecordsOf(r)
  BY <1>1, <1>2 DEF RecordsOf
<1>5. ASSUME NEW r \in Ranks PROVE RecordInv(r)'
  <2>1. ASSUME NEW x \in RecordsOf(r), x # Nothing
        PROVE  /\ x = [stamp |-> <<x.stamp[1], x.stamp[2]>>, weights |-> x.weights, moments |-> x.moments]
               /\ x.stamp[1] \in Nat /\ x.stamp[2] \in Nat /\ x.stamp[1] <= session + 1
               /\ x.stamp[1] # session + 1
    <3>1. /\ x = [stamp |-> <<x.stamp[1], x.stamp[2]>>, weights |-> x.weights, moments |-> x.moments]
          /\ x.stamp[1] \in Nat /\ x.stamp[2] \in Nat /\ x.stamp[1] <= session
      BY <2>1 DEF CloseInv, RecordInv
    <3>2. \A i \in Nat : i <= session => i <= session + 1 /\ i # session + 1
      BY <1>1
    <3> QED BY <3>1, <3>2
  <2> QED BY <1>1, <1>4, <2>1 DEF RecordInv
<1>6. SameRecords'
  BY <1>4, RecordsStay
<1>7. ~Settled'
  BY <1>2 DEF Settled, Concluded
<1>8. \A r, q \in Ranks : PairInv(r, q)'
  <2>1. kind = "replicated" \/ kind # "replicated"
    OBVIOUS
  <2> QED BY <1>1, <1>2, <1>7 DEF PairInv
<1>9. UnsettledInv'
  <2>1. ASSUME kind = "replicated", NEW r \in Ranks, NEW q \in Ranks PROVE Near(moments[r], moments[q])
    <3>1. CASE Settled
      <4>1. Level(r, q, moments[r], moments[q]) /\ Level(q, r, moments[q], moments[r])
        BY <2>1, <3>1 DEF CloseInv, PairInv
      <4> QED BY <4>1, LevelIsNear
    <3>2. CASE ~Settled
      BY <2>1, <3>2 DEF CloseInv, UnsettledInv
    <3> QED BY <3>1, <3>2
  <2>2. ASSUME kind' = "replicated", NEW r \in Ranks, NEW q \in Ranks PROVE Near(moments'[r], moments'[q])
    <3>1. kind = "replicated" /\ moments' = moments
      BY ONLY <1>1, <2>2
    <3> QED BY ONLY <2>1, <3>1, r \in Ranks, q \in Ranks
  <2> QED BY ONLY <2>2 DEF UnsettledInv
<1> QED BY <1>3, <1>5, <1>6, <1>8, <1>9 DEF CloseInv

\* A rank asks to agree on its moments as they are.
LEMMA SettingWorks ==
    ASSUME GroupInv, CallInv, RestoreInv, MeanInv, CloseInv, Grows, NEW r \in Ranks, Work(r)
    PROVE  SettingInv(r)'
<1>1. /\ call[r] # None /\ at[r] \in 1 .. Len(Rounds(call[r])) /\ call[r] \in Replicates \cup Shards
      /\ UNCHANGED <<kind, call, at, done>>
      /\ Len(asked[r]) \in Nat /\ Len(asked[r]) = Len(done[r])
      /\ Base(r) \in Nat /\ Base(r) + at[r] = Len(asked[r]) + 1
      /\ Len(asked'[r]) = Len(asked[r]) + 1
      /\ \A m \in Nat : m = Len(asked[r]) + 1 => Tag(r, m)' = Round(r) /\ What(r, m)' = Value(r)
  BY WorkIs
<1>2. PICK ok \in BOOLEAN : LocalWork(r, ok)
  BY WorkIs
<1>3. PICK b \in Nat : b = Base(r) /\ b = Base(r)'
  BY <1>1 DEF Base
<1>4. PICK a \in Nat : a = at[r]
  BY <1>1, RoundsAre
<1>5. SettingInv(r)
  BY DEF CloseInv
<1>6. ASSUME kind = "replicated", call[r] = "backward_step", a >= 6 PROVE Agreed(b + 5)'
  <2>1. Agreed(b + 5)
    BY <1>3, <1>4, <1>5, <1>6 DEF SettingInv
  <2>2. b + 5 \in 1 .. Len(done[r]) /\ b + 5 \in Nat
    <3>1. a >= 6 /\ a \in Nat /\ b \in Nat /\ b + a = Len(done[r]) + 1 /\ Len(done[r]) \in Nat
      BY ONLY <1>1, <1>3, <1>4, <1>6, a \in Nat, b \in Nat
    <3> QED BY ONLY <3>1
  <2>3. Concluded(b + 5)
    BY <2>2 DEF Concluded
  <2> QED BY <2>1, <2>2, <2>3, ConcludedStays
<1>7. PICK m \in Nat : m = Len(asked'[r]) /\ m = Len(asked[r]) + 1
  BY <1>1
<1>8. Tag(r, m)' = Round(r) /\ What(r, m)' = Value(r)
  BY <1>1, <1>7
<1>9. Round(r) = "same_config" => Value(r) = Len(moments[r]) /\ moments'[r] = moments[r]
  <2>1. Round(r) = "same_config" => Value(r) = Len(moments[r])
    BY DEF Value, Settings
  <2>2. Round(r) = "same_config" => moments'[r] = moments[r]
    BY <1>2, LocalIs
  <2> QED BY <2>1, <2>2
<1> QED BY <1>1, <1>3, <1>4, <1>6, <1>7, <1>8, <1>9 DEF SettingInv, Tag, What

\* A sharded trainer is built from what rank 0 broadcast.
LEMMA NewWorks ==
    ASSUME GroupInv, CallInv, RestoreInv, MeanInv, CloseInv, Grows, NEW r \in Ranks, Work(r)
    PROVE  NewInv(r)'
<1>1. /\ call[r] # None /\ at[r] \in 1 .. Len(Rounds(call[r])) /\ call[r] \in Replicates \cup Shards
      /\ Round(r) = Rounds(call[r])[at[r]]
      /\ UNCHANGED <<kind, call, at, done>> /\ ~Group!Waits(r)
      /\ Len(asked[r]) \in Nat /\ Len(asked[r]) = Len(done[r])
      /\ Base(r) \in Nat /\ Base(r) + at[r] = Len(asked[r]) + 1
  BY WorkIs
<1>2. PICK ok \in BOOLEAN : LocalWork(r, ok) /\ (Asking(r)' <=> ok)
  BY WorkIs
<1>3. PICK b \in Nat : b = Base(r) /\ b = Base(r)'
  BY <1>1 DEF Base
<1>4. PICK a \in Nat : a = at[r]
  BY <1>1, RoundsAre
<1>5. Params \in Nat \ {0}
  BY ConstantsAre
<1>6. NewInv(r) /\ BroadcastInv(r)
  BY DEF CloseInv, MeanInv
<1> SUFFICES ASSUME call[r] = "new", (a = Params + 3 /\ ok) \/ a >= Params + 4
             PROVE  /\ \A n : n = b + Params + 2 => weights'[r] = What(0, n)'
                    /\ moments'[r] = <<>>
  BY <1>1, <1>2, <1>3, <1>4 DEF NewInv, What
<1>7. PICK n \in 1 .. Len(done[r]) : n = b + Params + 2
  <2>1. a >= Params + 3
    BY <1>4, <1>5
  <2>2. b + Params + 2 \in 1 .. Len(done[r])
    <3>1. b + a = Len(done[r]) + 1
      BY ONLY <1>1, <1>3, <1>4
    <3> QED BY ONLY <1>5, <2>1, <3>1, a \in Nat, b \in Nat
  <2> QED BY ONLY <2>2
<1>8. n \in Nat /\ Concluded(n)
  BY <1>1, <1>7 DEF Concluded
<1>9. What(0, n)' = What(0, n)
  BY <1>8, ConcludedStays, ConstantsAre
<1>10. CASE a = Params + 3 /\ ok
  <2>1. Round(r) = "built"
    BY <1>1, <1>4, <1>10, NewIs
  <2>2. weights'[r] = hand[r] /\ moments'[r] = <<>>
    BY <1>2, <1>10, <2>1, LocalIs
  <2>3. hand[r] = done[r][n]
    <3>1. a \in 4 .. Params + 3 /\ n = b + a - 1
      BY <1>3, <1>5, <1>7, <1>10
    <3> QED BY <1>3, <1>4, <1>6, <3>1 DEF BroadcastInv
  <2>4. Tag(r, n) = "broadcast"
    <3>1. Params + 2 \in 1 .. a - 1 /\ Params + 2 \in 3 .. Params + 2 /\ n = b + (Params + 2)
      BY <1>3, <1>5, <1>7, <1>10
    <3>2. Tag(r, b + (Params + 2)) = Rounds(call[r])[Params + 2]
      <4>1. \A i \in 1 .. at[r] - 1 : Tag(r, Base(r) + i) = Rounds(call[r])[i]
        BY <1>1, CallIs
      <4> QED BY ONLY <1>3, <1>4, <3>1, <4>1
    <3> QED BY <3>1, <3>2, NewIs
  <2>5. done[r][n] = What(0, n)
    BY <2>4, BroadcastIs
  <2> QED BY <1>7, <1>9, <2>2, <2>3, <2>5
<1>11. CASE a >= Params + 4
  <2>1. Round(r) \notin {"step", "built"}
    <3>1. Round(r) = "step" => FALSE
      BY <1>1, <1>4, PlacesAre
    <3>2. Round(r) = "built" => a = Params + 3
      BY <1>1, <1>4, PlacesAre
    <3> QED BY <1>5, <1>11, <3>1, <3>2
  <2>2. weights'[r] = weights[r] /\ moments'[r] = moments[r]
    BY <1>2, <2>1, LocalIs
  <2>3. weights[r] = What(0, n) /\ moments[r] = <<>>
    BY <1>3, <1>4, <1>6, <1>7, <1>11 DEF NewInv
  <2> QED BY <1>7, <1>9, <2>2, <2>3
<1> QED BY <1>10, <1>11

\* A rank that restores sends the record it has.
LEMMA SentWorks ==
    ASSUME GroupInv, CallInv, RestoreInv, MeanInv, CloseInv, Grows, NEW r \in Ranks, Work(r)
    PROVE  SentInv(r)'
<1>1. /\ call[r] # None /\ at[r] \in 1 .. Len(Rounds(call[r])) /\ call[r] \in Replicates \cup Shards
      /\ Round(r) = Rounds(call[r])[at[r]]
      /\ UNCHANGED <<kind, call, at, done>>
      /\ Len(asked[r]) \in Nat /\ Len(asked[r]) = Len(done[r])
      /\ Base(r) \in Nat /\ Base(r) + at[r] = Len(asked[r]) + 1
      /\ \A m \in Nat : m = Len(asked[r]) + 1 => What(r, m)' = Value(r)
  BY WorkIs
<1>2. PICK ok \in BOOLEAN : LocalWork(r, ok)
  BY WorkIs
<1>3. PICK b \in Nat : b = Base(r) /\ b = Base(r)'
  BY <1>1 DEF Base
<1>4. PICK a \in Nat : a = at[r] /\ a # 0 /\ b + a = Len(asked[r]) + 1
  BY <1>1, <1>3, RoundsAre
<1>5. SentInv(r)
  BY DEF CloseInv
<1> SUFFICES ASSUME call[r] = "restore", a >= 2
             PROVE  /\ What(r, b + 2)' = record'[r]
                    /\ a \in {3, 4} => \A q \in Ranks : hand'[r][q] = asked'[q][b + 2].value
                    /\ a >= 5 => \A q \in Ranks :
                        Tag(q, b + 2)' = "records" /\ What(q, b + 2)'.stamp = record'[r].stamp
  BY <1>1, <1>3, <1>4 DEF SentInv, What, Tag
<1>6. record'[r] = record[r] /\ hand'[r] = hand[r]
  <2>1. Round(r) = "valid" => at[r] = 1
    BY <1>1, PlacesAre
  <2>2. at[r] # 1
    BY <1>4
  <2>3. Round(r) \notin {"capture", "gradients"}
    BY <1>1, PlacesAre
  <2>4. Round(r) \notin {"capture", "gradients", "valid"}
    BY ONLY <2>1, <2>2, <2>3
  <2>5. record'[r] = record[r]
    BY <1>2, <2>4, LocalIs
  <2>6. hand'[r] = hand[r]
    BY <1>2, <2>4, LocalIs
  <2> QED BY <2>5, <2>6
<1>7. CASE a = 2
  <2>1. Round(r) = "records"
    BY <1>1, <1>4, <1>7, RestoreIs
  <2>2. Value(r) = record[r]
    BY <2>1 DEF Value
  <2>3. b + 2 \in Nat /\ b + 2 = Len(asked[r]) + 1
    BY <1>4, <1>7
  <2> QED BY <1>1, <1>6, <1>7, <2>2, <2>3
<1>8. CASE a >= 3
  <2>1. b + 2 \in 1 .. Len(done[r]) /\ b + 2 \in Nat
    BY <1>1, <1>4, <1>8
  <2>2. Concluded(b + 2)
    BY <2>1 DEF Concluded
  <2>3. \A q \in Ranks : /\ asked'[q][b + 2] = asked[q][b + 2] /\ Tag(q, b + 2)' = Tag(q, b + 2)
                         /\ What(q, b + 2)' = What(q, b + 2)
    BY <2>1, <2>2, ConcludedStays
  <2>4. /\ What(r, b + 2) = record[r]
        /\ a \in {3, 4} => \A q \in Ranks : hand[r][q] = asked[q][b + 2].value
        /\ a >= 5 => \A q \in Ranks :
             Tag(q, b + 2) = "records" /\ What(q, b + 2).stamp = record[r].stamp
    BY <1>3, <1>4, <1>5, <1>8 DEF SentInv
  <2> QED BY <1>6, <2>3, <2>4
<1> QED BY <1>4, <1>7, <1>8

\* A trainer's first call begins with no step, and no call sends a record but its own.
LEMMA BornWorks ==
    ASSUME GroupInv, CallInv, RestoreInv, MeanInv, CloseInv, Grows, NEW r \in Ranks, Work(r)
    PROVE  BornInv(r)'
<1>1. /\ call[r] # None /\ at[r] \in 1 .. Len(Rounds(call[r])) /\ call[r] \in Replicates \cup Shards
      /\ Round(r) = Rounds(call[r])[at[r]]
      /\ UNCHANGED <<kind, session, call, at, built, done>>
      /\ Len(asked[r]) \in Nat /\ Len(asked[r]) = Len(done[r])
      /\ Base(r) \in Nat /\ Base(r) + at[r] = Len(asked[r]) + 1
      /\ Len(asked'[r]) = Len(asked[r]) + 1
      /\ \A n \in 1 .. Len(asked[r]) : asked'[r][n] = asked[r][n]
      /\ \A m \in Nat : m = Len(asked[r]) + 1 => Tag(r, m)' = Round(r) /\ What(r, m)' = Value(r)
  BY WorkIs
<1>2. PICK ok \in BOOLEAN : LocalWork(r, ok)
  BY WorkIs
<1> SUFFICES ASSUME built[r] PROVE BornInv(r)'
  BY <1>1 DEF BornInv
<1>3. PICK n \in Nat : n = Len(asked[r])
  BY <1>1
<1>4. PICK m \in 1 .. n : \E c \in Builds : Born(r, c, m)
  BY <1>1, <1>3 DEF CloseInv, BornInv
<1>5. PICK c \in Builds : Born(r, c, m)
  BY <1>4
<1>6. RankInv(r) /\ CapturingInv(r)
  BY DEF CallInv, RestoreInv
<1>7. call[r] \in {"backward_step", "train_step", "checkpoint"}
  BY <1>1, <1>6 DEF RankInv, Builds, Replicates, Shards
<1>8. m <= Base(r)
  BY <1>1, <1>5 DEF Born
<1>9. \A j \in 1 .. n : Tag(r, j)' = Tag(r, j) /\ What(r, j)' = What(r, j)
  BY <1>1, <1>3 DEF Tag, What
<1>10. Len(Rounds(c)) <= m /\ Len(Rounds(c)) \in Nat /\ m \in Nat
  BY <1>5, RoundsAre DEF Born, Builds, Replicates, Shards
<1>11. Traced(r, m - Len(Rounds(c)), Len(Rounds(c)), Rounds(c))'
  <2> SUFFICES ASSUME NEW i \in 1 .. Len(Rounds(c))
               PROVE  \A j : j = m - Len(Rounds(c)) + i => Tag(r, j)' = Rounds(c)[i]
    BY DEF Traced
  <2>1. PICK j \in 1 .. n : j = m - Len(Rounds(c)) + i
    <3>1. m - Len(Rounds(c)) + i \in 1 .. n
      BY ONLY <1>10, m \in 1 .. n, n \in Nat, i \in 1 .. Len(Rounds(c))
    <3> QED BY ONLY <3>1
  <2>2. Tag(r, j) = Rounds(c)[i]
    BY <1>5, <2>1 DEF Born, Traced
  <2> QED BY <1>9, <2>1, <2>2
<1>12. ASSUME NEW j \in m + 1 .. n + 1
       PROVE  /\ Tag(r, j)' # "broadcast"
              /\ Tag(r, j)' = "records" => What(r, j)'.stamp[1] = session
  <2>1. CASE j = n + 1
    <3>1. Tag(r, j)' = Round(r) /\ What(r, j)' = Value(r)
      BY <1>1, <1>3, <2>1
    <3>2. Round(r) # "broadcast"
      BY <1>7, WorksAt
    <3>3. ASSUME Round(r) = "records" PROVE Value(r).stamp[1] = session
      <4>1. call[r] = "checkpoint" /\ at[r] = 3
        BY <1>7, <3>3, WorksAt
      <4>2. Value(r) = record[r]
        BY <3>3 DEF Value
      <4> QED BY <1>6, <4>1, <4>2 DEF CapturingInv
    <3> QED BY <3>1, <3>2, <3>3
  <2>2. CASE j # n + 1
    <3>1. j \in m + 1 .. Len(asked[r]) /\ j \in 1 .. n
      BY <1>3, <1>10, <2>2
    <3> QED BY <1>5, <1>9, <3>1 DEF Born
  <2> QED BY <2>1, <2>2
<1>13. ASSUME n + 1 <= m + 1
       PROVE  Given(r, c, m)' /\ \A j : j = n + 1 => Tag(r, j)' # "step"
  <2>1. m = n /\ at[r] = 1
    BY <1>1, <1>3, <1>8, <1>10, <1>13
  <2>2. Round(r) \notin {"step", "built"}
    BY <2>1, WorksAt
  <2>3. weights'[r] = weights[r] /\ moments'[r] = moments[r]
    BY <1>2, <2>2, LocalIs
  <2>4. Len(asked[r]) <= m + 1
    BY <1>3, <2>1
  <2>5. Given(r, c, m)
    BY <1>5, <2>4 DEF Born
  <2>6. m \in 1 .. Len(done[r])
    BY <1>1, <1>3
  <2>7. Given(r, c, m)'
    BY <1>10, <2>3, <2>5, <2>6, GivenStays
  <2>8. \A j : j = n + 1 => Tag(r, j)' = Round(r)
    BY <1>1, <1>3
  <2> QED BY <2>2, <2>7, <2>8
<1>14. Born(r, c, m)'
  <2>1. c \in Builds /\ (kind' = "replicated" <=> c = "construct") /\ Len(asked'[r]) = n + 1
    BY <1>1, <1>3, <1>5 DEF Born
  <2>2. call'[r] # None => m <= Base(r)'
    BY <1>1, <1>8 DEF Base
  <2>3. Len(asked'[r]) <= m + 1 => Given(r, c, m)' /\ \A j : j = Len(asked'[r]) => Tag(r, j)' # "step"
    BY <1>13, <2>1
  <2>4. \A j \in m + 1 .. Len(asked'[r]) :
          /\ Tag(r, j)' # "broadcast"
          /\ Tag(r, j)' = "records" => What(r, j)'.stamp[1] = session'
    BY <1>1, <1>12, <2>1
  <2> QED BY <1>10, <1>11, <2>1, <2>2, <2>3, <2>4 DEF Born, Tag, What
<1>15. m \in 1 .. Len(done'[r])
  BY <1>1, <1>3
<1> QED BY <1>14, <1>15 DEF BornInv

\* A rank between collectives is at most one behind another, and never before it.
LEMMA ReachIs ==
    ASSUME GroupInv, NEW r \in Ranks, NEW q \in Ranks, Len(asked[r]) = Len(done[r])
    PROVE  /\ Len(asked[r]) \in Nat /\ Len(asked[q]) \in Nat /\ Len(done[q]) \in Nat
           /\ Len(done[q]) <= Len(asked[r]) /\ Len(asked[r]) <= Len(asked[q])
           /\ Len(asked[q]) <= Len(asked[r]) + 1 /\ Len(asked[q]) <= Len(done[q]) + 1
<1>1. /\ Len(asked[r]) \in Nat /\ Len(asked[q]) \in Nat /\ Len(done[q]) \in Nat
      /\ Len(done[r]) \in Nat /\ Len(asked[q]) <= Len(done[q]) + 1
  BY DEF GroupInv, IsSeq
<1>2. Len(done[q]) <= Len(asked[r])
  <2>1. CASE Len(done[q]) = 0
    BY <1>1, <2>1
  <2>2. CASE Len(done[q]) # 0
    <3>1. PICK n \in 1 .. Len(done[q]) : n = Len(done[q]) /\ n \in Nat
      BY <1>1, <2>2
    <3>2. Concluded(n)
      BY <3>1 DEF Concluded
    <3>3. n \in 1 .. Len(asked[r])
      BY <3>1, <3>2, ConcludedIs
    <3> QED BY <1>1, <3>1, <3>3
  <2> QED BY <2>1, <2>2
<1>3. Len(asked[r]) <= Len(asked[q])
  <2>1. CASE Len(done[r]) = 0
    BY <1>1, <2>1
  <2>2. CASE Len(done[r]) # 0
    <3>1. PICK n \in 1 .. Len(done[r]) : n = Len(done[r]) /\ n \in Nat
      BY <1>1, <2>2
    <3>2. Concluded(n)
      BY <3>1 DEF Concluded
    <3>3. n \in 1 .. Len(asked[q])
      BY <3>1, <3>2, ConcludedIs
    <3> QED BY <1>1, <3>1, <3>3
  <2> QED BY <2>1, <2>2
<1> QED BY <1>1, <1>2, <1>3

\* A rank between collectives is not ahead.
LEMMA NotAhead ==
    ASSUME GroupInv, NEW r \in Ranks, Len(asked[r]) = Len(done[r])
    PROVE  ~Ahead(r)
<1>1. Len(done[r]) \in Nat
  BY DEF GroupInv, IsSeq
<1>2. ASSUME Len(asked[r]) # 0 PROVE Concluded(Len(asked[r]))
  <2>1. Len(asked[r]) \in 1 .. Len(done[r])
    BY <1>1, <1>2
  <2> QED BY <2>1 DEF Concluded
<1> QED BY <1>2 DEF Ahead

\* A capture is the same on all ranks.
LEMMA CaptureIs ==
    ASSUME GroupInv, CallInv, RestoreInv, MeanInv, CloseInv, NEW r \in Ranks, Work(r),
           Round(r) = "capture", NEW q \in Ranks, NEW y \in RecordsOf(q),
           y.stamp = <<session, Len(done[r])>>
    PROVE  y = [stamp |-> <<session, Len(done[r])>>, weights |-> weights[r], moments |-> moments[r]]
<1>1. call[r] = "checkpoint" /\ Len(asked[r]) = Len(done[r]) /\ Len(done[r]) \in Nat /\ call[r] # None
  BY WorksAt, WorkIs
<1>2. PICK n \in Nat : n = Len(done[r])
  BY <1>1
<1>3. y # Nothing
  <2>1. Nothing.stamp = <<>> /\ <<session, n>> # <<>>
    BY DEF Nothing
  <2> QED BY <1>2, <2>1
<1>4. y.stamp[1] = session /\ y.stamp[2] = n
  BY <1>2
<1>5. /\ y = [stamp |-> <<y.stamp[1], y.stamp[2]>>, weights |-> y.weights, moments |-> y.moments]
      /\ built[q] /\ n + 1 \in 1 .. Len(asked[q]) /\ Tag(q, n + 1) = "capture"
      /\ Len(asked[q]) = n + 1 => y.weights = weights[q] /\ y.moments = moments[q]
  BY <1>3, <1>4 DEF CloseInv, RecordInv
<1>6. Len(asked[q]) = n + 1
  <2>1. Len(asked[q]) \in Nat /\ Len(asked[q]) <= n + 1
    BY <1>1, <1>2, ReachIs
  <2> QED BY <1>5, <2>1
<1>7. ~Ahead(r) /\ ~Ahead(q)
  BY <1>1, <1>5, <1>6, NotAhead DEF Ahead
<1>8. built[r] /\ kind = "sharded"
  BY <1>1 DEF CallInv, RankInv, Builds, Replicates
<1>9. PairInv(r, q) /\ IsModel(weights[r]) /\ IsModel(weights[q])
  BY DEF CloseInv, MeanInv, ModelInv
<1>10. /\ weights[r].base = weights[q].base /\ weights[r].updates = weights[q].updates
       /\ moments[r] = moments[q]
  BY <1>5, <1>7, <1>8, <1>9 DEF PairInv, Level
<1>11. weights[r] = weights[q]
  BY <1>9, <1>10 DEF IsModel
<1> QED BY <1>2, <1>4, <1>5, <1>6, <1>10, <1>11

\* A rank makes a record of what it holds, and sends no other than it has.
LEMMA RecordWorks ==
    ASSUME GroupInv, CallInv, RestoreInv, MeanInv, CloseInv, Grows, NEW r \in Ranks, Work(r)
    PROVE  /\ RecordInv(r)'
           /\ \A x \in RecordsOf(r)' :
                \/ x \in RecordsOf(r)
                \/ /\ Round(r) = "capture"
                   /\ x = [stamp |-> <<session, Len(done[r])>>, weights |-> weights[r], moments |-> moments[r]]
<1>1. /\ call[r] # None
      /\ UNCHANGED <<kind, session, call, at, built, done, saved>>
      /\ Len(asked[r]) \in Nat /\ Len(asked[r]) = Len(done[r])
      /\ Len(asked'[r]) = Len(asked[r]) + 1
      /\ \A n \in 1 .. Len(asked[r]) : asked'[r][n] = asked[r][n]
      /\ \A m \in Nat : m = Len(asked[r]) + 1 => Tag(r, m)' = Round(r) /\ What(r, m)' = Value(r)
  BY WorkIs
<1>2. PICK ok \in BOOLEAN : LocalWork(r, ok)
  BY WorkIs
<1>3. PICK n \in Nat : n = Len(asked[r])
  BY <1>1
<1> DEFINE x0 == [stamp |-> <<session, n>>, weights |-> weights[r], moments |-> moments[r]]
<1>4. /\ Round(r) = "capture" => record'[r] = x0
      /\ Round(r) = "valid" => record'[r] = saved[r]
      /\ Round(r) \notin {"capture", "valid"} => record'[r] = record[r]
      /\ Round(r) = "capture" => weights'[r] = weights[r] /\ moments'[r] = moments[r]
  BY <1>1, <1>2, <1>3, LocalIs
<1>5. ASSUME NEW x \in RecordsOf(r)'
      PROVE  x \in RecordsOf(r) \/ (Round(r) = "capture" /\ x = x0)
  <2>1. \/ x = saved[r] \/ x = record'[r]
        \/ \E m \in 1 .. Len(asked'[r]) : Tag(r, m)' = "records" /\ x = What(r, m)'
    BY <1>1 DEF RecordsOf
  <2>2. CASE x = saved[r]
    BY <2>2 DEF RecordsOf
  <2>3. CASE x = record'[r]
    <3>1. CASE Round(r) = "capture"
      BY <1>4, <2>3, <3>1
    <3>2. CASE Round(r) # "capture"
      <4>1. x \in {saved[r], record[r]}
        BY <1>4, <2>3, <3>2
      <4> QED BY <4>1 DEF RecordsOf
    <3> QED BY <3>1, <3>2
  <2>4. ASSUME NEW m \in 1 .. Len(asked'[r]), Tag(r, m)' = "records", x = What(r, m)'
        PROVE  x \in RecordsOf(r)
    <3>1. CASE m = n + 1
      <4>1. Round(r) = "records" /\ x = Value(r)
        BY <1>1, <1>3, <2>4, <3>1
      <4>2. x = record[r]
        BY <4>1 DEF Value
      <4> QED BY <4>2 DEF RecordsOf
    <3>2. CASE m # n + 1
      <4>1. m \in 1 .. Len(asked[r]) /\ asked'[r][m] = asked[r][m]
        BY <1>1, <1>3, <3>2
      <4>2. Tag(r, m) = "records" /\ x = What(r, m)
        BY <2>4, <4>1 DEF Tag, What
      <4> QED BY <4>1, <4>2 DEF RecordsOf
    <3> QED BY <3>1, <3>2
  <2> QED BY <2>1, <2>2, <2>3, <2>4
<1>6. RecordInv(r)'
  <2>1. ASSUME NEW x \in RecordsOf(r)', x # Nothing
        PROVE  /\ x = [stamp |-> <<x.stamp[1], x.stamp[2]>>, weights |-> x.weights, moments |-> x.moments]
               /\ x.stamp[1] \in Nat /\ x.stamp[2] \in Nat /\ x.stamp[1] <= session
               /\ x.stamp[1] = session =>
                    /\ built[r] /\ x.stamp[2] + 1 \in 1 .. n + 1
                    /\ \A m : m = x.stamp[2] + 1 => Tag(r, m)' = "capture"
                    /\ n + 1 = x.stamp[2] + 1 => x.weights = weights'[r] /\ x.moments = moments'[r]
    <3>1. CASE x \in RecordsOf(r)
      <4>1. /\ x = [stamp |-> <<x.stamp[1], x.stamp[2]>>, weights |-> x.weights, moments |-> x.moments]
            /\ x.stamp[1] \in Nat /\ x.stamp[2] \in Nat /\ x.stamp[1] <= session
            /\ x.stamp[1] = session =>
                 built[r] /\ x.stamp[2] + 1 \in 1 .. Len(asked[r]) /\ Tag(r, x.stamp[2] + 1) = "capture"
        BY <2>1, <3>1 DEF CloseInv, RecordInv
      <4>2. ASSUME x.stamp[1] = session
            PROVE  /\ x.stamp[2] + 1 \in 1 .. n + 1 /\ n + 1 # x.stamp[2] + 1
                   /\ \A m : m = x.stamp[2] + 1 => Tag(r, m)' = "capture"
        <5>1. x.stamp[2] + 1 \in 1 .. n /\ x.stamp[2] \in Nat
          BY <1>3, <4>1, <4>2
        <5>2. asked'[r][x.stamp[2] + 1] = asked[r][x.stamp[2] + 1]
          BY <1>1, <1>3, <5>1
        <5> QED BY <4>1, <4>2, <5>1, <5>2 DEF Tag
      <4> QED BY <4>1, <4>2
    <3>2. CASE Round(r) = "capture" /\ x = x0
      <4>1. x.stamp[1] = session /\ x.stamp[2] = n /\ x.weights = weights'[r] /\ x.moments = moments'[r]
        BY <1>4, <3>2
      <4>2. \A m : m = n + 1 => Tag(r, m)' = "capture"
        BY <1>1, <1>3, <3>2
      <4>3. built[r]
        BY <1>1, <3>2, WorksAt DEF CallInv, RankInv, Builds
      <4>4. x = [stamp |-> <<x.stamp[1], x.stamp[2]>>, weights |-> x.weights, moments |-> x.moments]
        BY <3>2, <4>1
      <4>5. session \in Nat /\ session <= session /\ n + 1 \in 1 .. n + 1
        BY DEF CallInv
      <4> QED BY <4>1, <4>2, <4>3, <4>4, <4>5
    <3> QED BY <1>5, <3>1, <3>2
  <2>2. Len(asked'[r]) = n + 1
    BY <1>1, <1>3
  <2> HIDE DEF x0
  <2> QED BY <1>1, <2>1, <2>2 DEF RecordInv, Tag
<1> QED BY <1>1, <1>3, <1>5, <1>6

\* Records of one capture are the same when one more is made.
LEMMA SameWorks ==
    ASSUME GroupInv, CallInv, RestoreInv, MeanInv, CloseInv, Grows, NEW r \in Ranks, Work(r),
           \A q \in Ranks \ {r} : RecordsOf(q)' \subseteq RecordsOf(q)
    PROVE  SameRecords'
<1> DEFINE x0 == [stamp |-> <<session, Len(done[r])>>, weights |-> weights[r], moments |-> moments[r]]
<1>1. ASSUME NEW q \in Ranks, NEW x \in RecordsOf(q)'
      PROVE  x \in RecordsOf(q) \/ (Round(r) = "capture" /\ x = x0)
  BY RecordWorks
<1>2. x0.stamp = <<session, Len(done[r])>>
  OBVIOUS
<1>3. ASSUME Round(r) = "capture", NEW q \in Ranks, NEW y \in RecordsOf(q), y.stamp = x0.stamp
      PROVE  y = x0
  BY <1>2, <1>3, CaptureIs
<1> HIDE DEF x0
<1>4. ASSUME NEW p \in Ranks, NEW q \in Ranks, NEW x \in RecordsOf(p)', NEW y \in RecordsOf(q)',
             x.stamp = y.stamp
      PROVE  x = y
  <2>1. CASE x \in RecordsOf(p) /\ y \in RecordsOf(q)
    BY <1>4, <2>1 DEF CloseInv, SameRecords
  <2>2. CASE Round(r) = "capture" /\ x = x0
    BY <1>1, <1>3, <1>4, <2>2
  <2>3. CASE Round(r) = "capture" /\ y = x0
    BY <1>1, <1>3, <1>4, <2>3
  <2> QED BY <1>1, <2>1, <2>2, <2>3
<1> QED BY <1>4 DEF SameRecords

\* No request that a rank adds changes what was settled, or who else is ahead.
LEMMA OthersStay ==
    ASSUME GroupInv, Grows, UNCHANGED <<kind, done>>, NEW r \in Ranks, Len(asked[r]) = Len(done[r]),
           \A q \in Ranks \ {r} : asked'[q] = asked[q]
    PROVE  /\ Settled' <=> Settled
           /\ \A q \in Ranks \ {r} : (Ahead(q)' <=> Ahead(q)) /\ Applied(q)' = Applied(q)
<1>1. \A n : Concluded(n)' <=> Concluded(n)
  BY DEF Concluded
<1>2. \A n \in Nat : Concluded(n) => /\ \A q \in Ranks : Tag(q, n)' = Tag(q, n)
                                     /\ Agreed(n)' <=> Agreed(n)
  BY ConcludedStays
<1>3. Settled' <=> Settled
  BY <1>1, <1>2 DEF Settled
<1>4. Lead' = Lead
  BY DEF Lead
<1>5. \A q \in Ranks \ {r} : (Ahead(q)' <=> Ahead(q)) /\ Applied(q)' = Applied(q)
  BY <1>1, <1>4 DEF Ahead, Applied, Tag, Concluded
<1> QED BY <1>3, <1>5

\* A rank that is ahead has applied what the step of another is about to apply.
LEMMA SameStep ==
    ASSUME GroupInv, CallInv, MeanInv, ConfirmInv, NEW r \in Ranks, Work(r), Round(r) = "step",
           NEW q \in Ranks, Ahead(q)
    PROVE  Applied(q) = grad[r]
<1>1. /\ grad[r] = done[r][(Len(asked[r]) + 1) - Lead]
      /\ (Len(asked[r]) + 1) - Lead \in 1 .. Len(done[r])
      /\ Len(asked[r]) = Len(done[r])
  BY StepApplies, WorkIs
<1>2. /\ Len(asked[r]) \in Nat /\ Len(asked[q]) \in Nat /\ Len(done[q]) \in Nat
      /\ Len(done[q]) <= Len(asked[r]) /\ Len(asked[r]) <= Len(asked[q])
      /\ Len(asked[q]) <= Len(asked[r]) + 1 /\ Len(asked[q]) <= Len(done[q]) + 1
  BY <1>1, ReachIs
<1>3. Len(asked[q]) = Len(asked[r]) + 1
  <2>1. Len(asked[q]) # Len(asked[r])
    <3>1. ASSUME Len(asked[q]) = Len(asked[r]) PROVE Concluded(Len(asked[q]))
      <4>1. Len(asked[q]) \in 1 .. Len(done[r])
        BY <1>1, <1>2, <3>1 DEF Ahead
      <4> QED BY <4>1 DEF Concluded
    <3> QED BY <3>1 DEF Ahead
  <2> QED BY <1>2, <2>1
<1>4. PICK n \in 1 .. Len(done[r]) : n = Len(asked[q]) - Lead /\ grad[r] = done[r][n]
  BY <1>1, <1>3
<1>5. n \in 1 .. Len(done[q])
  <2>1. Len(asked[q]) \in 1 .. Len(asked[q]) /\ Tag(q, Len(asked[q])) = "step" /\ asked[q][Len(asked[q])].ok
    BY <1>2 DEF Ahead
  <2> QED BY <1>4, <2>1 DEF ConfirmInv, StepInv
<1>6. done[q][n] = done[r][n]
  BY <1>5, OneOutcome
<1> QED BY <1>4, <1>6 DEF Applied

\* Moments that stay where they are stay near.
LEMMA NearStays ==
    ASSUME UnsettledInv, kind' = kind, Settled' <=> Settled, \A q \in Ranks : moments'[q] = moments[q]
    PROVE  UnsettledInv'
<1> SUFFICES ASSUME kind = "replicated", ~Settled, NEW p \in Ranks, NEW q \in Ranks
             PROVE  Near(moments[p], moments[q])'
  BY DEF UnsettledInv
<1>1. Near(moments[p], moments[q])
  BY DEF UnsettledInv
<1>2. moments'[p] = moments[p] /\ moments'[q] = moments[q]
  OBVIOUS
<1> QED BY <1>1, <1>2 DEF Near

\* A step brings a rank ahead of the others, or up to them.
LEMMA PairWorks ==
    ASSUME GroupInv, CallInv, RestoreInv, MeanInv, ConfirmInv, CloseInv, Grows, NEW r \in Ranks, Work(r)
    PROVE  (\A p, q \in Ranks : PairInv(p, q)') /\ UnsettledInv'
<1>1. /\ call[r] # None /\ at[r] \in 1 .. Len(Rounds(call[r])) /\ ~Group!Waits(r)
      /\ UNCHANGED <<kind, session, call, at, built, done>>
      /\ Len(asked[r]) \in Nat /\ Len(asked[r]) = Len(done[r])
      /\ Base(r) \in Nat /\ Base(r) + at[r] = Len(asked[r]) + 1
      /\ Len(asked'[r]) = Len(asked[r]) + 1 /\ Group!Waits(r)'
      /\ \A q \in Ranks \ {r} : asked'[q] = asked[q]
      /\ \A m \in Nat : m = Len(asked[r]) + 1 => Tag(r, m)' = Round(r)
  BY WorkIs
<1>2. PICK ok \in BOOLEAN : LocalWork(r, ok) /\ (Asking(r)' <=> ok)
  BY WorkIs
<1>3. PICK n \in Nat : n = Len(asked[r])
  BY <1>1
<1>4. /\ Settled' <=> Settled
      /\ \A q \in Ranks \ {r} : (Ahead(q)' <=> Ahead(q)) /\ Applied(q)' = Applied(q)
  BY <1>1, OthersStay
<1>5. ~Ahead(r)
  BY <1>1, NotAhead
<1>6. Ahead(r)' <=> (Round(r) = "step" /\ ok)
  <2>1. Len(asked'[r]) = n + 1 /\ n + 1 # 0
    BY <1>1, <1>3
  <2>2. Tag(r, n + 1)' = Round(r)
    BY <1>1, <1>3
  <2>3. asked'[r][n + 1].ok <=> ok
    BY <1>1, <1>2, <1>3 DEF Asking
  <2>4. ~Concluded(n + 1)'
    <3>1. Concluded(n + 1)' <=> Concluded(n + 1)
      BY <1>1 DEF Concluded
    <3>2. ASSUME Concluded(n + 1) PROVE FALSE
      <4>1. n + 1 \in 1 .. Len(asked[r])
        BY <3>2, ConcludedIs
      <4> QED BY <1>3, <4>1
    <3> QED BY <3>1, <3>2
  <2>5. Ahead(r)' <=> /\ Len(asked'[r]) # 0 /\ \A m : m = Len(asked'[r]) => Tag(r, m)' = "step"
                      /\ \A m : m = Len(asked'[r]) => asked'[r][m].ok /\ ~Concluded(m)'
    BY DEF Ahead, Tag, Concluded
  <2> QED BY <2>1, <2>2, <2>3, <2>4, <2>5
<1>7. /\ \A q \in Ranks \ {r} : weights'[q] = weights[q] /\ moments'[q] = moments[q]
      /\ ~(ok /\ Round(r) \in {"step", "built"}) => weights'[r] = weights[r] /\ moments'[r] = moments[r]
      /\ ok /\ Round(r) = "step" =>
           /\ weights'[r] = [weights[r] EXCEPT !.updates = Append(@, grad[r])]
           /\ moments'[r] = Append(moments[r], grad[r])
  BY <1>2, LocalIs
<1>8. \A p, q \in Ranks : PairInv(p, q)
  BY DEF CloseInv
<1>9. CASE ~(ok /\ Round(r) \in {"step", "built"})
  <2>1. \A q \in Ranks : weights'[q] = weights[q] /\ moments'[q] = moments[q]
    BY <1>7, <1>9
  <2>2. \A q \in Ranks : (Ahead(q)' <=> Ahead(q)) /\ (Ahead(q) => Applied(q)' = Applied(q))
    BY <1>4, <1>5, <1>6, <1>9
  <2>3. ASSUME NEW p \in Ranks, NEW q \in Ranks PROVE PairInv(p, q)'
    <3>1. Level(p, q, weights[p].updates, weights[q].updates) =>
            Level(p, q, weights[p].updates, weights[q].updates)'
      BY <2>1, <2>2 DEF Level
    <3>2. Level(p, q, moments[p], moments[q]) => Level(p, q, moments[p], moments[q])'
      BY <2>1, <2>2 DEF Level
    <3> QED BY <1>1, <1>4, <1>8, <2>1, <3>1, <3>2 DEF PairInv
  <2>4. UnsettledInv'
    BY <1>1, <1>4, <2>1, NearStays DEF CloseInv
  <2> QED BY <2>3, <2>4
<1>10. CASE ok /\ Round(r) = "built"
  <2>1. ~built[r] /\ kind # "replicated"
    BY <1>1, <1>10, WorksAt DEF CallInv, RankInv, Replicates, Builds
  <2>2. ASSUME NEW p \in Ranks, NEW q \in Ranks PROVE PairInv(p, q)'
    <3>1. CASE p = r \/ q = r
      BY <1>1, <2>1, <3>1 DEF PairInv
    <3>2. CASE p # r /\ q # r
      <4>1. /\ weights'[p] = weights[p] /\ moments'[p] = moments[p] /\ weights'[q] = weights[q]
            /\ moments'[q] = moments[q]
            /\ Ahead(p)' <=> Ahead(p)
            /\ Ahead(q)' <=> Ahead(q)
            /\ Applied(p)' = Applied(p)
        BY <1>4, <1>7, <3>2
      <4> QED BY <1>1, <1>4, <1>8, <4>1 DEF PairInv, Level
    <3> QED BY <3>1, <3>2
  <2>3. UnsettledInv'
    BY <1>1, <2>1 DEF UnsettledInv
  <2> QED BY <2>2, <2>3
<1>11. CASE ok /\ Round(r) = "step"
  <2>1. \A x : x = Applied(r)' => x = grad[r]
    <3>1. grad[r] = done[r][(n + 1) - Lead]
      BY <1>3, <1>11, StepApplies
    <3>2. Lead' = Lead /\ Len(asked'[r]) = n + 1
      BY <1>1, <1>3 DEF Lead
    <3> QED BY <1>1, <3>1, <3>2 DEF Applied
  <2>2. \A q \in Ranks : Ahead(q) => Applied(q) = grad[r]
    BY <1>11, SameStep
  <2>3. kind = "replicated" => Settled
    <3> SUFFICES ASSUME kind = "replicated" PROVE Settled
      OBVIOUS
    <3>1. call[r] = "backward_step" /\ at[r] = Params + 14
      BY <1>1, <1>11, WorksAt DEF CallInv, RankInv, Replicates
    <3>2. PICK m \in Nat : m = Base(r) + 5 /\ m \in 1 .. Len(done[r]) /\ 5 \in 1 .. at[r] - 1 /\ at[r] >= 6
      BY <1>1, <3>1, ConstantsAre
    <3>3. Tag(r, m) = "same_config"
      <4>1. Tag(r, Base(r) + 5) = Rounds(call[r])[5]
        BY <1>1, <3>2, CallIs
      <4> QED BY <3>1, <3>2, <4>1, BackwardIs
    <3>4. Agreed(m)
      BY <3>1, <3>2 DEF CloseInv, SettingInv
    <3> QED BY <3>2, <3>3, <3>4 DEF Settled, Concluded
  <2>4. IsModel(weights[r])
    BY DEF MeanInv, ModelInv
  <2>5. /\ weights'[r].updates = Append(weights[r].updates, grad[r])
        /\ weights'[r].base = weights[r].base /\ moments'[r] = Append(moments[r], grad[r])
    <3>1. weights[r] = [base |-> weights[r].base, updates |-> weights[r].updates]
      BY <2>4 DEF IsModel
    <3> QED BY <1>7, <1>11, <3>1
  <2>6. ASSUME NEW q \in Ranks \ {r} PROVE PairInv(r, q)' /\ PairInv(q, r)'
    <3>1. weights'[q] = weights[q] /\ moments'[q] = moments[q]
      BY <1>7
    <3>2. Ahead(r)' /\ (Ahead(q)' <=> Ahead(q)) /\ Applied(r)' = grad[r] /\ (Ahead(q) => Applied(q) = grad[r])
      BY <1>4, <1>6, <1>11, <2>1, <2>2
    <3>3. PairInv(r, q) /\ PairInv(q, r)
      BY <1>8
    <3>4. built'[r] /\ built'[q] =>
            /\ weights'[r].base = weights'[q].base
            /\ Level(r, q, weights[r].updates, weights[q].updates)
            /\ Level(q, r, weights[q].updates, weights[r].updates)
      BY <1>1, <2>5, <3>1, <3>3 DEF PairInv
    <3>5. (IF kind' = "replicated" THEN Settled' ELSE built'[r] /\ built'[q]) =>
            Level(r, q, moments[r], moments[q]) /\ Level(q, r, moments[q], moments[r])
      BY <1>1, <1>4, <3>3 DEF PairInv
    <3>6. built'[r] /\ built'[q] =>
            /\ weights'[r].base = weights'[q].base
            /\ Ahead(q)' => weights'[r].updates = weights'[q].updates
            /\ ~Ahead(q)' => weights'[r].updates = Append(weights'[q].updates, Applied(r)')
      BY <1>5, <2>5, <3>1, <3>2, <3>4 DEF Level
    <3>7. (IF kind' = "replicated" THEN Settled' ELSE built'[r] /\ built'[q]) =>
            /\ Ahead(q)' => moments'[r] = moments'[q]
            /\ ~Ahead(q)' => moments'[r] = Append(moments'[q], Applied(r)')
      BY <1>5, <2>5, <3>1, <3>2, <3>5 DEF Level
    <3> QED BY <3>2, <3>6, <3>7 DEF PairInv, Level
  <2>7. PairInv(r, r)'
    BY DEF PairInv, Level
  <2>8. ASSUME NEW p \in Ranks \ {r}, NEW q \in Ranks \ {r} PROVE PairInv(p, q)'
    <3>1. /\ weights'[p] = weights[p] /\ moments'[p] = moments[p] /\ weights'[q] = weights[q]
          /\ moments'[q] = moments[q]
          /\ Ahead(p)' <=> Ahead(p)
          /\ Ahead(q)' <=> Ahead(q)
          /\ Applied(p)' = Applied(p)
      BY <1>4, <1>7
    <3> QED BY <1>1, <1>4, <1>8, <3>1 DEF PairInv, Level
  <2>9. UnsettledInv'
    BY <1>1, <1>4, <2>3 DEF UnsettledInv
  <2> QED BY <2>6, <2>7, <2>8, <2>9
<1> QED BY <1>9, <1>10, <1>11

\* Local work and what it asks keep the replicas close.
LEMMA CloseWorks ==
    ASSUME GroupInv, CallInv, RestoreInv, MeanInv, ConfirmInv, CloseInv, Grows, NEW r \in Ranks, Work(r)
    PROVE  CloseInv'
<1>1. /\ UNCHANGED <<kind, session, call, at, built, saved, done>>
      /\ \A q \in Ranks \ {r} : asked'[q] = asked[q]
  BY WorkIs
<1>2. PICK ok \in BOOLEAN : LocalWork(r, ok)
  BY WorkIs
<1>3. ASSUME NEW q \in Ranks \ {r}
      PROVE  /\ hand'[q] = hand[q] /\ record'[q] = record[q]
             /\ weights'[q] = weights[q] /\ moments'[q] = moments[q]
  BY <1>2, LocalIs
<1>4. ASSUME NEW q \in Ranks \ {r}
      PROVE  /\ SettingInv(q)' /\ BornInv(q)' /\ NewInv(q)' /\ SentInv(q)' /\ RecordInv(q)'
             /\ RecordsOf(q)' \subseteq RecordsOf(q)
  BY <1>1, <1>3, CloseUnmoved
<1>5. SettingInv(r)' /\ BornInv(r)' /\ NewInv(r)' /\ SentInv(r)' /\ RecordInv(r)'
  BY SettingWorks, BornWorks, NewWorks, SentWorks, RecordWorks
<1>6. SameRecords'
  BY <1>4, SameWorks
<1>7. (\A p, q \in Ranks : PairInv(p, q)') /\ UnsettledInv'
  BY PairWorks
<1>8. \A q \in Ranks : SettingInv(q)' /\ BornInv(q)' /\ NewInv(q)' /\ SentInv(q)' /\ RecordInv(q)'
  BY <1>4, <1>5
<1> QED BY <1>6, <1>7, <1>8 DEF CloseInv

\* What a rank receives tells it that the ranks agree, or of what capture their records are.
LEMMA ReceiveLearns ==
    ASSUME GroupInv, CallInv, RestoreInv, MeanInv, CloseInv, Grows, NEW r \in Ranks, Receive(r)
    PROVE  /\ SettingInv(r)' /\ BornInv(r)' /\ NewInv(r)' /\ SentInv(r)' /\ RecordInv(r)'
           /\ RecordsOf(r)' \subseteq RecordsOf(r)
<1>1. /\ call[r] # None /\ Group!Waits(r) /\ Group!Receive(r)
      /\ at' = [at EXCEPT ![r] = at[r] + 1] /\ asked' = asked
      /\ call'[r] \in {None, call[r]}
      /\ UNCHANGED <<kind, session, built, weights, moments, record, saved>>
  BY DEF Receive, Group!Receive, CallInv, state
<1>2. /\ at[r] \in Nat \ {0} /\ Len(asked[r]) = Len(done[r]) + 1 /\ Len(done[r]) \in Nat
      /\ at[r] \in 1 .. Len(Rounds(call[r])) /\ Round(r) = Rounds(call[r])[at[r]]
      /\ Base(r) \in Nat /\ Base(r) + at[r] = Len(done[r]) + 1
  BY <1>1, CallIs
<1>3. Len(done'[r]) = Len(done[r]) + 1
  BY <1>1, ReceiveAdds
<1>4. /\ DOMAIN at = Ranks /\ DOMAIN hand = Ranks /\ RestoringInv(r)
      /\ SettingInv(r) /\ BornInv(r) /\ NewInv(r) /\ SentInv(r) /\ RecordInv(r)
  BY DEF CallInv, RestoreInv, CloseInv
<1>5. at'[r] = at[r] + 1 /\ ~Group!Waits(r)' /\ ~Asking(r)'
  BY <1>1, <1>2, <1>3, <1>4 DEF Group!Waits, Asking
<1>6. PICK b \in Nat : b = Base(r) /\ b = Base(r)'
  <2>1. Base(r)' = Base(r)
    BY ONLY <1>2, <1>3, <1>5 DEF Base
  <2> QED BY ONLY <1>2, <2>1
<1>7. PICK m \in Nat : m = Len(asked[r]) /\ m = b + at[r]
  BY <1>2, <1>6
<1>8. /\ Operation(Round(r)) = "Barrier" => hand' = hand
      /\ Operation(Round(r)) = "Bytes" => \A q \in Ranks : hand'[r][q] = asked[q][m].value
      /\ asked[r][m].ok
  <2>1. /\ Operation(Round(r)) = "Barrier" => hand' = hand
        /\ Operation(Round(r)) # "Barrier" =>
             hand' = [hand EXCEPT ![r] = Outcome(Group!Requests(m), r)]
        /\ asked[r][m].ok /\ \A q \in Ranks : Op(q, m) = Operation(Round(r))
    BY <1>4, <1>7, GotIs
  <2>2. ASSUME Operation(Round(r)) = "Bytes"
        PROVE  Outcome(Group!Requests(m), r) = [q \in Ranks |-> asked[q][m].value]
    <3>1. Group!Requests(m)[0].operation = "Bytes"
      BY <2>1, <2>2, ConstantsAre DEF Group!Requests, Op
    <3>2. \A q \in Ranks : Group!Requests(m)[q].value = asked[q][m].value
      BY DEF Group!Requests
    <3> QED BY <3>1, <3>2 DEF Outcome
  <2>3. ASSUME Operation(Round(r)) = "Bytes"
        PROVE  \A q \in Ranks : hand'[r][q] = asked[q][m].value
    <3>1. hand' = [hand EXCEPT ![r] = [q \in Ranks |-> asked[q][m].value]]
      BY <2>1, <2>2, <2>3
    <3> QED BY <1>4, <3>1
  <2> QED BY <2>1, <2>3
<1>9. call'[r] # None /\ Round(r) = "same_config" => Agreed(m)
  <2> SUFFICES ASSUME call'[r] # None, Round(r) = "same_config" PROVE Agreed(m)
    OBVIOUS
  <2>1. Operation(Round(r)) = "Bytes" /\ Round(r) \in Agreements
    BY DEF Operation, Agreements
  <2>2. ~Differ(hand'[r])
    BY <1>4, <2>1 DEF Receive, CallInv
  <2> QED BY <1>8, <2>1, <2>2 DEF Agreed, Differ
<1>10. \A n : /\ \A q : Tag(q, n)' = Tag(q, n) /\ What(q, n)' = What(q, n)
              /\ Agreed(n)' <=> Agreed(n)
  BY <1>1 DEF Tag, What, Agreed
<1>11. SettingInv(r)'
  <2>1. ASSUME kind = "replicated", call'[r] = "backward_step", at[r] + 1 >= 6 PROVE Agreed(b + 5)'
    <3>1. call[r] = "backward_step" /\ call'[r] # None
      BY <1>1, <2>1 DEF None
    <3>2. CASE at[r] >= 6
      BY <1>4, <1>6, <1>10, <2>1, <3>1, <3>2 DEF SettingInv
    <3>3. CASE at[r] = 5
      <4>1. Round(r) = "same_config"
        BY <1>2, <3>1, <3>3, BackwardIs
      <4> QED BY <1>7, <1>9, <1>10, <3>1, <3>3, <4>1
    <3> QED BY <1>2, <2>1, <3>2, <3>3
  <2>2. \A n : n = Len(asked[r]) => Tag(r, n)' = Tag(r, n) /\ What(r, n)' = What(r, n)
    BY <1>10
  <2> QED BY <1>1, <1>4, <1>5, <1>6, <2>1, <2>2 DEF SettingInv, Tag, What
<1>12. BornInv(r)'
  <2>1. \A x : x = Base(r)' => x = Base(r)
    BY <1>6
  <2>2. 1 .. Len(done[r]) \subseteq 1 .. Len(done'[r])
    BY <1>2, <1>3
  <2> QED BY <1>1, <1>4, <2>1, <2>2, BornStays
<1>13. NewInv(r)'
  <2>1. ASSUME call'[r] = "new", at[r] + 1 >= Params + 4
        PROVE  weights[r] = What(0, b + Params + 2) /\ moments[r] = <<>>
    <3>1. call[r] = "new"
      BY <1>1, <2>1 DEF None
    <3>2. (at[r] = Params + 3 /\ Asking(r)) \/ at[r] >= Params + 4
      BY <1>1, <1>2, <1>7, <1>8, <2>1, ConstantsAre DEF Asking
    <3> QED BY <1>4, <1>6, <3>1, <3>2 DEF NewInv
  <2> QED BY <1>1, <1>5, <1>6, <1>10, <2>1 DEF NewInv, What
<1>14. SentInv(r)'
  <2> SUFFICES ASSUME call'[r] = "restore" PROVE SentInv(r)'
    BY DEF SentInv
  <2>1. /\ call[r] = "restore" /\ at[r] \in 1 .. 10 /\ Asking(r)
        /\ at[r] = 2 => Operation(Round(r)) = "Bytes"
        /\ at[r] \in {3, 4} => Operation(Round(r)) = "Barrier"
    <3>1. call[r] = "restore" /\ Asking(r)
      BY <1>1, <1>7, <1>8 DEF None, Asking
    <3>2. /\ at[r] \in 1 .. 10
          /\ at[r] = 2 => Round(r) = "records"
          /\ at[r] = 3 => Round(r) = "decode"
          /\ at[r] = 4 => Round(r) = "consolidate"
      BY <1>2, <3>1, RestoreIs
    <3> QED BY <3>1, <3>2 DEF Operation, Agreements
  <2>2. /\ at[r] >= 2 => What(r, b + 2) = record[r]
        /\ at[r] \in {3, 4} => \A q \in Ranks : hand[r][q] = asked[q][b + 2].value
        /\ at[r] >= 5 => \A q \in Ranks :
            Tag(q, b + 2) = "records" /\ What(q, b + 2).stamp = record[r].stamp
    BY <1>1, <1>2, <1>4, <1>6, <2>1 DEF SentInv
  <2>3. at[r] \in {2, 3} => \A q \in Ranks : hand'[r][q] = asked[q][b + 2].value
    BY <1>7, <1>8, <2>1, <2>2
  <2>4. at[r] = 4 => \A q \in Ranks :
          Tag(q, b + 2) = "records" /\ What(q, b + 2).stamp = record[r].stamp
    <3> SUFFICES ASSUME at[r] = 4
                 PROVE  \A q \in Ranks :
                          Tag(q, b + 2) = "records" /\ What(q, b + 2).stamp = record[r].stamp
      OBVIOUS
    <3>1. Decoded(r) /\ OneCapture(hand[r])
      BY <1>4, <2>1 DEF RestoringInv
    <3>2. \A q \in Ranks : hand[r][q][1] = Tag(q, b + 2) /\ hand[r][q][2] = What(q, b + 2)
      BY <2>2 DEF Tag, What
    <3>3. \A q \in Ranks : Tag(q, b + 2) = "records" /\ What(q, b + 2).stamp = What(0, b + 2).stamp
      BY <3>1, <3>2, ConstantsAre DEF OneCapture, Decoded
    <3>4. What(r, b + 2).stamp = record[r].stamp
      BY <2>2
    <3> QED BY <3>3, <3>4
  <2>5. /\ What(r, b + 2)' = What(r, b + 2)
        /\ \A q : Tag(q, b + 2)' = Tag(q, b + 2) /\ What(q, b + 2)' = What(q, b + 2)
    BY <1>10
  <2> QED BY <1>1, <1>5, <1>6, <2>1, <2>2, <2>3, <2>4, <2>5 DEF SentInv, Tag, What
<1>15. RecordInv(r)' /\ RecordsOf(r)' \subseteq RecordsOf(r)
  BY <1>1, <1>4 DEF RecordInv, RecordsOf, Tag, What
<1> QED BY <1>11, <1>12, <1>13, <1>14, <1>15

\* Moments within reach of each other are the same if they are equally long.
LEMMA NearIsSame ==
    ASSUME NEW u, NEW v, IsSeq(u), IsSeq(v), Near(u, v), Len(u) = Len(v)
    PROVE  u = v
<1>1. Len(u) \in Nat /\ Len(v) \in Nat
  BY DEF IsSeq
<1>2. ASSUME NEW x PROVE Len(Append(v, x)) = Len(v) + 1 /\ Len(Append(u, x)) = Len(u) + 1
  BY AppendIs
<1>3. ASSUME NEW x PROVE u # Append(v, x) /\ v # Append(u, x)
  BY <1>1, <1>2
<1> QED BY <1>3 DEF Near

\* The first rank that concludes a collective is behind nobody, and a step is
\* concluded when all ranks have made it.
LEMMA FirstReceives ==
    ASSUME GroupInv, CallInv, MeanInv, ConfirmInv, CloseInv, NEW r \in Ranks, Group!Receive(r),
           NEW n \in Nat, n = Len(asked[r]), ~Concluded(n)
    PROVE  /\ \A q \in Ranks : Len(asked[q]) = n
           /\ \A p, q \in Ranks : Ahead(p) <=> Ahead(q)
<1>1. n = Len(done[r]) + 1 /\ Len(done[r]) \in Nat /\ Group!Made(n) /\ Accepts(Group!Requests(n))
  BY ReceiveAdds DEF Group!Receive, GroupInv, IsSeq
<1>2. \A q \in Ranks : Len(asked[q]) \in Nat /\ Len(done[q]) \in Nat /\ Len(asked[q]) <= Len(done[q]) + 1
  BY DEF GroupInv, IsSeq
<1>3. \A q \in Ranks : n <= Len(asked[q]) /\ asked[q][n].ok
  BY <1>1 DEF Group!Made, Accepts, Group!Requests
<1>4. \A q \in Ranks : n \notin 1 .. Len(done[q])
  BY DEF Concluded
<1>5. \A q \in Ranks : Len(asked[q]) = n
  BY <1>1, <1>2, <1>3, <1>4
<1>6. ASSUME NEW p \in Ranks, NEW q \in Ranks, Ahead(p) PROVE Ahead(q)
  <2>1. n # 0 /\ Tag(p, n) = "step"
    BY <1>5, <1>6 DEF Ahead
  <2>2. \A x \in Ranks : n \in 1 .. Len(asked[x]) /\ asked[x][n].ok
    BY <1>3, <1>5, <2>1
  <2>3. \A j \in 1 .. n - 1 : Concluded(j)
    BY <1>1 DEF Concluded
  <2>4. Tag(q, n) = "step"
    BY <2>1, <2>2, <2>3, SteppedIs
  <2> QED BY <1>5, <2>1, <2>2, <2>4 DEF Ahead
<1> QED BY <1>5, <1>6

\* When a collective is concluded, the step it may be has been made by all.
LEMMA PairReceives ==
    ASSUME GroupInv, CallInv, MeanInv, ConfirmInv, CloseInv, NEW r \in Ranks, Receive(r)
    PROVE  (\A p, q \in Ranks : PairInv(p, q)') /\ UnsettledInv'
<1>1. Group!Receive(r) /\ asked' = asked /\ UNCHANGED <<kind, built, weights, moments>>
  BY DEF Receive, Group!Receive, state
<1>2. PICK n \in Nat : n = Len(asked[r]) /\ n = Len(done[r]) + 1 /\ Len(done'[r]) = n
  BY <1>1, ReceiveAdds DEF GroupInv, IsSeq
<1>3. \A q \in Ranks \ {r} : done'[q] = done[q]
  BY <1>1, ReceiveAdds
<1>4. \A k \in Nat : Concluded(k)' <=> Concluded(k) \/ k = n
  <2>1. Len(done[r]) \in Nat
    BY DEF GroupInv, IsSeq
  <2>2. \A k \in Nat : k \in 1 .. Len(done'[r]) <=> k \in 1 .. Len(done[r]) \/ k = n
    BY <1>2, <2>1
  <2> QED BY <1>3, <2>2 DEF Concluded
<1>5. \A k : (Agreed(k)' <=> Agreed(k)) /\ \A q : Tag(q, k)' = Tag(q, k)
  BY <1>1 DEF Agreed, Tag
<1>6. Settled => Settled'
  BY <1>4, <1>5 DEF Settled
<1>7. Lead' = Lead
  BY <1>1 DEF Lead
<1>8. CASE Concluded(n)
  <2>1. \A k \in Nat : Concluded(k)' <=> Concluded(k)
    BY <1>4, <1>8
  <2>2. Settled' <=> Settled
    BY <1>5, <2>1 DEF Settled
  <2>3. \A q \in Ranks : Ahead(q)' <=> Ahead(q)
    <3>1. \A q \in Ranks : Len(asked[q]) \in Nat
      BY DEF GroupInv, IsSeq
    <3>2. \A q \in Ranks : \A k \in Nat : k = Len(asked[q]) =>
            (Tag(q, k)' = Tag(q, k)) /\ (Concluded(k)' <=> Concluded(k))
      BY <1>5, <2>1
    <3> QED BY <1>1, <3>1, <3>2 DEF Ahead, Tag, Concluded
  <2>4. ~Ahead(r)
    BY <1>2, <1>8 DEF Ahead
  <2>5. \A q \in Ranks : Ahead(q) => Applied(q)' = Applied(q)
    BY <1>1, <1>3, <1>7, <2>4 DEF Applied
  <2>6. ASSUME NEW p \in Ranks, NEW q \in Ranks PROVE PairInv(p, q)'
    <3>1. /\ PairInv(p, q) /\ (Ahead(p)' <=> Ahead(p)) /\ (Ahead(q)' <=> Ahead(q))
          /\ Ahead(p) => Applied(p)' = Applied(p)
      BY <2>3, <2>5 DEF CloseInv
    <3> QED BY <1>1, <2>2, <3>1 DEF PairInv, Level
  <2>7. UnsettledInv'
    BY <1>1, <2>2, NearStays DEF CloseInv
  <2> QED BY <2>6, <2>7
<1>9. CASE ~Concluded(n)
  <2>1. /\ \A q \in Ranks : Len(asked[q]) = n
        /\ \A p, q \in Ranks : Ahead(p) <=> Ahead(q)
    BY <1>1, <1>2, <1>9, FirstReceives
  <2>2. \A q \in Ranks : ~Ahead(q)'
    <3>1. Concluded(n)'
      BY <1>4
    <3>2. \A q \in Ranks : Len(asked'[q]) = n
      BY <1>1, <2>1
    <3> QED BY <3>1, <3>2 DEF Ahead, Concluded
  <2>3. ASSUME Settled', ~Settled, kind = "replicated", NEW p \in Ranks, NEW q \in Ranks
        PROVE  moments[p] = moments[q]
    <3>1. PICK k \in Nat : (Concluded(k) \/ k = n) /\ Agreed(k) /\ \E x \in Ranks : Tag(x, k) = "same_config"
      BY <1>4, <1>5, <2>3 DEF Settled
    <3>2. k = n
      BY <2>3, <3>1 DEF Settled
    <3>3. \A x \in Ranks : Tag(x, n) = "same_config" /\ What(x, n) = What(p, n)
      BY <3>1, <3>2 DEF Agreed, Tag, What
    <3>4. \A x \in Ranks : What(x, n) = Len(moments[x])
      BY <1>2, <2>1, <2>3, <3>3 DEF CloseInv, SettingInv
    <3>5. Len(moments[p]) = Len(moments[q])
      BY <3>3, <3>4
    <3>6. Near(moments[p], moments[q]) /\ IsSeq(moments[p]) /\ IsSeq(moments[q])
      BY <2>3 DEF CloseInv, UnsettledInv, MeanInv, ModelInv
    <3> QED BY <3>5, <3>6, NearIsSame
  <2>4. ASSUME NEW p \in Ranks, NEW q \in Ranks PROVE PairInv(p, q)'
    <3>1. PairInv(p, q) /\ (Ahead(p) <=> Ahead(q)) /\ ~Ahead(p)' /\ ~Ahead(q)'
      BY <2>1, <2>2 DEF CloseInv
    <3>2. built[p] /\ built[q] =>
            weights[p].base = weights[q].base /\ weights[p].updates = weights[q].updates
      BY <3>1 DEF PairInv, Level
    <3>3. (IF kind = "replicated" THEN Settled' ELSE built[p] /\ built[q]) => moments[p] = moments[q]
      BY <2>3, <3>1 DEF PairInv, Level
    <3> QED BY <1>1, <3>1, <3>2, <3>3 DEF PairInv, Level
  <2>5. UnsettledInv'
    <3> SUFFICES ASSUME kind = "replicated", ~Settled, NEW p \in Ranks, NEW q \in Ranks
                 PROVE  Near(moments[p], moments[q])'
      BY <1>1, <1>6 DEF UnsettledInv
    <3>1. Near(moments[p], moments[q])
      BY DEF CloseInv, UnsettledInv
    <3> QED BY <1>1, <3>1 DEF Near
  <2> QED BY <2>4, <2>5
<1> QED BY <1>8, <1>9

\* A collective that returns keeps the replicas close.
LEMMA CloseReceives ==
    ASSUME GroupInv, CallInv, RestoreInv, MeanInv, ConfirmInv, CloseInv, Grows, NEW r \in Ranks, Receive(r)
    PROVE  CloseInv'
<1>1. /\ UNCHANGED <<kind, session, asked, built, weights, moments, record, saved>>
      /\ \A q \in Ranks \ {r} : call'[q] = call[q] /\ at'[q] = at[q] /\ done'[q] = done[q] /\ hand'[q] = hand[q]
  <2>1. Group!Receive(r) /\ DOMAIN hand = Ranks
    BY DEF Receive, RestoreInv
  <2>2. \A q \in Ranks \ {r} : done'[q] = done[q] /\ hand'[q] = hand[q]
    BY <2>1, GotIs, ReceiveAdds
  <2> QED BY <2>1, <2>2 DEF Receive, Group!Receive, CallInv, state
<1>2. ASSUME NEW q \in Ranks \ {r}
      PROVE  /\ SettingInv(q)' /\ BornInv(q)' /\ NewInv(q)' /\ SentInv(q)' /\ RecordInv(q)'
             /\ RecordsOf(q)' \subseteq RecordsOf(q)
  BY <1>1, CloseUnmoved
<1>3. /\ SettingInv(r)' /\ BornInv(r)' /\ NewInv(r)' /\ SentInv(r)' /\ RecordInv(r)'
      /\ RecordsOf(r)' \subseteq RecordsOf(r)
  BY ReceiveLearns
<1>4. SameRecords'
  BY <1>2, <1>3, RecordsStay
<1>5. (\A p, q \in Ranks : PairInv(p, q)') /\ UnsettledInv'
  BY PairReceives
<1>6. \A q \in Ranks : SettingInv(q)' /\ BornInv(q)' /\ NewInv(q)' /\ SentInv(q)' /\ RecordInv(q)'
  BY <1>2, <1>3
<1> QED BY <1>4, <1>5, <1>6 DEF CloseInv

\* Calls that give no trainer leave the models as they are when they end.
LEMMA CloseEnds ==
    ASSUME GroupInv, CallInv, RestoreInv, CloseInv, Grows, NEW r \in Ranks, Finish(r), call[r] \notin Builds
    PROVE  CloseInv'
<1>1. /\ call[r] # None /\ Round(r) = "end" /\ call' = [call EXCEPT ![r] = None]
      /\ UNCHANGED <<kind, session, at, asked, done, weights, moments, hand, record>>
      /\ built' = [built EXCEPT ![r] = TRUE]
      /\ saved' = IF call[r] = "checkpoint" THEN [saved EXCEPT ![r] = hand[r][r][2]] ELSE saved
  BY DEF Finish, Works, group, Builds
<1>2. /\ DOMAIN call = Ranks /\ DOMAIN built = Ranks /\ DOMAIN saved = Ranks /\ RankInv(r)
      /\ CapturingInv(r)
  BY DEF CallInv, RestoreInv
<1>3. \A q \in Ranks : built'[q] = built[q]
  BY <1>1, <1>2 DEF RankInv
<1>4. saved'[r] \in {saved[r], record[r]} /\ \A q \in Ranks \ {r} : saved'[q] = saved[q]
  <2>1. call[r] = "checkpoint" => hand[r][r][2] = record[r]
    <3> SUFFICES ASSUME call[r] = "checkpoint" PROVE hand[r][r][2] = record[r]
      OBVIOUS
    <3>1. at[r] = Len(Rounds(call[r])) + 1
      BY <1>1, EndIs
    <3>2. Len(Rounds(call[r])) = 5
      BY CheckpointIs
    <3>3. at[r] = 6
      BY ONLY <3>1, <3>2
    <3> QED BY <1>2, <3>3 DEF CapturingInv
  <2> QED BY <1>1, <1>2, <2>1
<1>5. \A q \in Ranks : /\ SettingInv(q)' /\ BornInv(q)' /\ NewInv(q)' /\ SentInv(q)' /\ RecordInv(q)'
                       /\ RecordsOf(q)' \subseteq RecordsOf(q)
  <2> TAKE q \in Ranks
  <2>1. /\ call'[q] = None \/ (call'[q] = call[q] /\ at'[q] = at[q])
        /\ saved'[q] \in {saved[q], record[q]}
    BY <1>1, <1>2, <1>4
  <2> QED BY <1>1, <1>3, <2>1, CloseUnmoved
<1>6. SameRecords'
  BY <1>5, RecordsStay
<1>7. (\A p, q \in Ranks : PairInv(p, q)') /\ UnsettledInv'
  BY <1>1, <1>3, PairsStay
<1> QED BY <1>5, <1>6, <1>7 DEF CloseInv

\* The operations of the last collectives of new.
LEMMA NewEnds ==
    ASSUME GroupInv, NEW r \in Ranks, NEW n \in Nat, n <= Len(asked[r]), Len(Rounds("new")) <= n,
           Traced(r, n - Len(Rounds("new")), Len(Rounds("new")), Rounds("new"))
    PROVE  /\ n >= 7 /\ Op(r, n) = "Bytes" /\ Tag(r, n) = "same_config" /\ Op(r, n - 4) = "Broadcast"
           /\ Op(r, n - 1) = "Barrier" /\ Op(r, n - 2) = "Barrier" /\ Op(r, n - 3) = "Barrier"
<1>1. Params \in Nat \ {0} /\ Len(Rounds("new")) = Params + 6 /\ Len(asked[r]) \in Nat
  BY NewIs, ConstantsAre DEF GroupInv, IsSeq
<1>2. PICK b \in Nat : b = n - (Params + 6) /\ n = b + (Params + 6)
  BY <1>1
<1>3. \A i \in 1 .. Params + 6 : Tag(r, b + i) = Rounds("new")[i]
  BY <1>1, <1>2 DEF Traced
<1>4. /\ n = b + (Params + 6) /\ n - 1 = b + (Params + 5) /\ n - 2 = b + (Params + 4)
      /\ n - 3 = b + (Params + 3) /\ n - 4 = b + (Params + 2)
      /\ Params + 2 \in 3 .. Params + 2 /\ n >= 7
      /\ {Params + 2, Params + 3, Params + 4, Params + 5, Params + 6} \subseteq 1 .. Params + 6
  BY <1>1, <1>2
<1>5. /\ Tag(r, n) = "same_config" /\ Tag(r, n - 1) = "config" /\ Tag(r, n - 2) = "registered"
      /\ Tag(r, n - 3) = "built" /\ Tag(r, n - 4) = "broadcast"
  BY <1>3, <1>4, NewIs
<1>6. \A k \in {n, n - 1, n - 2, n - 3, n - 4} : Op(r, k) = Operation(Tag(r, k))
  <2>1. \A k \in {n, n - 1, n - 2, n - 3, n - 4} : k \in 1 .. Len(asked[r])
    BY <1>1, <1>4
  <2> QED BY <2>1 DEF GroupInv
<1> QED BY <1>4, <1>5, <1>6 DEF Operation, Agreements

\* The operations of the last collectives of restore.
LEMMA RestoreEnds ==
    ASSUME GroupInv, NEW r \in Ranks, NEW n \in Nat, n <= Len(asked[r]), Len(Rounds("restore")) <= n,
           Traced(r, n - Len(Rounds("restore")), Len(Rounds("restore")), Rounds("restore"))
    PROVE  /\ n >= 10 /\ Op(r, n) = "Barrier" /\ Tag(r, n) = "prepared" /\ Op(r, n - 1) = "Bytes"
           /\ Tag(r, n - 1) = "same_config"
           /\ \A k \in n - 7 .. n - 2 : Op(r, k) = "Barrier"
           /\ Tag(r, n - 8) = "records" /\ Op(r, n - 8) = "Bytes"
<1>1. Len(Rounds("restore")) = 10 /\ Len(asked[r]) \in Nat
  BY RestoreIs DEF GroupInv, IsSeq
<1>2. PICK b \in Nat : b = n - 10 /\ n = b + 10
  <2>1. 10 <= n
    BY <1>1
  <2>2. n - 10 \in Nat /\ n = (n - 10) + 10
    BY ONLY <2>1, n \in Nat
  <2> QED BY <2>2
<1>3. \A i \in 1 .. 10 : Tag(r, b + i) = Rounds("restore")[i]
  BY <1>1, <1>2 DEF Traced
<1>4. \A i \in 1 .. 10 : b + i \in 1 .. Len(asked[r]) /\ Op(r, b + i) = Operation(Rounds("restore")[i])
  <2> TAKE i \in 1 .. 10
  <2>1. b + i \in 1 .. Len(asked[r])
    BY <1>1, <1>2
  <2> QED BY <1>3, <2>1 DEF GroupInv
<1>5. n = b + 10 /\ n - 1 = b + 9 /\ n - 8 = b + 2 /\ n >= 10
  BY <1>2
<1>6. ASSUME NEW k \in n - 7 .. n - 2 PROVE Op(r, k) = "Barrier"
  <2>1. PICK i \in 3 .. 8 : k = b + i
    <3>1. k - b \in 3 .. 8 /\ k = b + (k - b)
      BY <1>2
    <3> QED BY <3>1
  <2>2. i \in 1 .. 10 /\ (i = 3 \/ i = 4 \/ i = 5 \/ i = 6 \/ i = 7 \/ i = 8)
    OBVIOUS
  <2>3. Rounds("restore")[i] \in {"decode", "consolidate", "tensors", "rebuilt", "registered", "config"}
    BY <2>2, RestoreIs
  <2> QED BY <1>4, <2>1, <2>2, <2>3 DEF Operation, Agreements
<1>7. /\ Tag(r, b + 10) = "prepared" /\ Tag(r, b + 9) = "same_config" /\ Tag(r, b + 2) = "records"
      /\ Op(r, b + 10) = Operation("prepared") /\ Op(r, b + 9) = Operation("same_config")
      /\ Op(r, b + 2) = Operation("records")
  <2>1. 2 \in 1 .. 10 /\ 9 \in 1 .. 10 /\ 10 \in 1 .. 10
    OBVIOUS
  <2>2. /\ Tag(r, b + 10) = Rounds("restore")[10] /\ Tag(r, b + 9) = Rounds("restore")[9]
        /\ Tag(r, b + 2) = Rounds("restore")[2]
    BY ONLY <1>3, <2>1
  <2>3. /\ Op(r, b + 10) = Operation(Rounds("restore")[10])
        /\ Op(r, b + 9) = Operation(Rounds("restore")[9])
        /\ Op(r, b + 2) = Operation(Rounds("restore")[2])
    BY ONLY <1>4, <2>1
  <2> QED BY ONLY <2>2, <2>3, RestoreIs
<1> QED BY <1>5, <1>6, <1>7 DEF Operation, Agreements

\* While a rank is about to end the call that gives it its trainer, another that has
\* one had it from the same call, with the same collectives.
LEMMA SameBirth ==
    ASSUME GroupInv, CallInv, RestoreInv, CloseInv, NEW r \in Ranks, NEW q \in Ranks,
           NEW c \in Builds, NEW d \in Builds, call[r] = c, Round(r) = "end", ~Group!Waits(r),
           NEW n \in 1 .. Len(done[r]), n = Len(done[r]), n = Len(asked[r]), Len(Rounds(c)) <= n,
           Traced(r, n - Len(Rounds(c)), Len(Rounds(c)), Rounds(c)),
           Base(r) = n - Len(Rounds(c)), kind = "replicated" <=> c = "construct",
           NEW m \in 1 .. Len(done[q]), Born(q, d, m)
    PROVE  m = n /\ d = c
<1>1. n \in Nat /\ m \in Nat /\ Len(done[r]) \in Nat /\ m <= n /\ n <= Len(asked[q]) /\ Len(asked[q]) \in Nat
  <2>1. /\ Len(asked[r]) \in Nat /\ Len(asked[q]) \in Nat /\ Len(done[q]) \in Nat
        /\ Len(done[q]) <= Len(asked[r]) /\ Len(asked[r]) <= Len(asked[q])
    <3>1. Len(asked[r]) = Len(done[r])
      OBVIOUS
    <3> QED BY <3>1, ReachIs
  <2>2. n = Len(done[r]) /\ n = Len(asked[r]) /\ m \in 1 .. Len(done[q])
    OBVIOUS
  <2> QED BY ONLY <2>1, <2>2
<1>2. \A k \in 1 .. n : /\ k \in 1 .. Len(asked[r]) /\ k \in 1 .. Len(asked[q]) /\ Op(r, k) = Op(q, k)
                        /\ Op(r, k) = Operation(Tag(r, k)) /\ Op(q, k) = Operation(Tag(q, k))
  <2> TAKE k \in 1 .. n
  <2>1. Concluded(k) /\ k \in Nat
    <3>1. k \in 1 .. n /\ n = Len(done[r]) /\ r \in Ranks
      OBVIOUS
    <3> QED BY ONLY <1>1, <3>1 DEF Concluded
  <2>2. k \in 1 .. Len(asked[r]) /\ k \in 1 .. Len(asked[q]) /\ Op(r, k) = Op(q, k)
    BY <2>1, ConcludedIs
  <2> QED BY <2>2 DEF GroupInv
<1>3. /\ kind = "replicated" <=> d = "construct"
      /\ Len(Rounds(d)) <= m /\ m <= Len(asked[q])
      /\ Traced(q, m - Len(Rounds(d)), Len(Rounds(d)), Rounds(d))
      /\ \A k \in m + 1 .. n : /\ Tag(q, k) # "broadcast"
                               /\ Tag(q, k) = "records" => What(q, k).stamp[1] = session
  BY <1>1 DEF Born
<1>4. \A k \in m + 1 .. n : Op(r, k) # "Broadcast"
  <2> TAKE k \in m + 1 .. n
  <2>1. k \in m + 1 .. n
    OBVIOUS
  <2>2. k \in 1 .. n
    BY ONLY <1>1, <2>1
  <2>3. Tag(q, k) # "broadcast"
    BY <1>3, <2>1
  <2> QED BY <1>2, <2>2, <2>3 DEF Operation, Agreements
<1>5. d = "new" =>
        /\ m >= 7 /\ Op(q, m) = "Bytes" /\ Tag(q, m) = "same_config" /\ Op(q, m - 4) = "Broadcast"
        /\ Op(q, m - 1) = "Barrier" /\ Op(q, m - 2) = "Barrier" /\ Op(q, m - 3) = "Barrier"
  BY <1>1, <1>3, NewEnds
<1>6. d = "restore" =>
        /\ m >= 10 /\ Op(q, m) = "Barrier" /\ Op(q, m - 1) = "Bytes" /\ Tag(q, m - 1) = "same_config"
  BY <1>1, <1>3, RestoreEnds
<1>7. CASE c = "construct"
  <2>1. Params \in Nat \ {0} /\ Len(Rounds(c)) = Params + 2 /\ Rounds(c) = Construct
    BY <1>7, ConstructIs, ConstantsAre DEF Rounds
  <2>2. Tag(r, n) = "broadcast"
    <3>1. Params + 2 \in 1 .. Len(Rounds(c)) /\ n - Len(Rounds(c)) + (Params + 2) = n
          /\ Params + 2 \in 3 .. Params + 2
      BY ONLY <1>1, <2>1
    <3>2. Tag(r, n - Len(Rounds(c)) + (Params + 2)) = Rounds(c)[Params + 2]
      BY <3>1 DEF Traced
    <3> QED BY <2>1, <3>1, <3>2, ConstructIs
  <2>3. Op(r, n) = "Broadcast"
    BY <1>1, <1>2, <2>2 DEF Operation, Agreements
  <2>4. m = n
    BY <1>1, <1>4, <2>3
  <2> QED BY <1>3, <1>7, <2>4
<1>8. CASE c = "new"
  <2>1. /\ n >= 7 /\ Op(r, n) = "Bytes" /\ Op(r, n - 4) = "Broadcast"
        /\ Op(r, n - 1) = "Barrier" /\ Op(r, n - 2) = "Barrier" /\ Op(r, n - 3) = "Barrier"
    BY <1>1, <1>8, NewEnds
  <2>2. m >= n - 4
    BY <1>1, <1>4, <2>1
  <2>3. m = n \/ m = n - 1 \/ m = n - 2 \/ m = n - 3 \/ m = n - 4
    BY ONLY <1>1, <2>2
  <2>4. Op(q, m) = Op(r, m)
    BY <1>1, <1>2
  <2>5. CASE d = "new"
    BY <1>5, <1>8, <2>1, <2>3, <2>4, <2>5
  <2>6. CASE d = "restore"
    <3>1. Op(q, m) = "Barrier" /\ Op(q, m - 1) = "Bytes" /\ m >= 10 /\ m - 1 \in 1 .. n
      BY <1>1, <1>6, <2>6
    <3>2. Op(r, m) = "Barrier" /\ Op(r, m - 1) = "Bytes"
      BY <1>2, <2>4, <3>1
    <3>3. m = n - 1 \/ m = n - 2 \/ m = n - 3
      BY <2>1, <2>3, <3>2
    <3>4. m - 1 = n - 2 \/ m - 1 = n - 3 \/ m - 1 = n - 4
      BY <1>1, <3>3
    <3> QED BY <2>1, <3>2, <3>4
  <2> QED BY <1>3, <1>8, <2>5, <2>6 DEF Builds
<1>9. CASE c = "restore"
  <2>1. /\ n >= 10 /\ Op(r, n) = "Barrier" /\ Op(r, n - 1) = "Bytes"
        /\ \A k \in n - 7 .. n - 2 : Op(r, k) = "Barrier"
        /\ Op(r, n - 8) = "Bytes"
    BY <1>1, <1>9, RestoreEnds
  <2>2. PICK k \in 1 .. n : k = n - 8
    BY <1>1, <2>1
  <2>3. Tag(q, k) = "records" /\ What(q, k).stamp = record[r].stamp
    <3>1. Base(r) + 2 = k
      <4>1. Base(r) = n - Len(Rounds(c)) /\ Len(Rounds(c)) = 10
        BY <1>9, RestoreIs
      <4> QED BY ONLY <1>1, <2>1, <2>2, <4>1
    <3>2. at[r] >= 5
      <4>1. at[r] = Len(Rounds(call[r])) + 1
        BY <1>9, EndIs DEF None
      <4>2. Len(Rounds(call[r])) = 10
        BY <1>9, RestoreIs
      <4> QED BY <4>1, <4>2
    <3>3. Tag(q, Base(r) + 2) = "records" /\ What(q, Base(r) + 2).stamp = record[r].stamp
      BY <1>9, <3>2 DEF CloseInv, SentInv
    <3> QED BY <3>1, <3>3
  <2>4. record[r].stamp[1] # session
    <3>1. record[r] = saved[r] /\ saved[r] # Nothing
      <4>1. at[r] >= 2
        <5>1. at[r] = Len(Rounds(call[r])) + 1
          BY <1>9, EndIs DEF None
        <5>2. Len(Rounds(call[r])) = 10
          BY <1>9, RestoreIs
        <5> QED BY <5>1, <5>2
      <4> QED BY <1>9, <4>1 DEF RestoreInv, RestoringInv
    <3>2. ~built[r]
      BY <1>9 DEF CallInv, RankInv, Builds, None
    <3> QED BY <3>1, <3>2 DEF RestoreInv, KeptInv, CallInv
  <2>5. m >= k
    <3>1. ASSUME m < k PROVE FALSE
      <4>1. k \in m + 1 .. n
        BY <1>1, <3>1
      <4> QED BY <1>3, <2>3, <2>4, <4>1
    <3> QED BY <1>1, <2>2, <3>1
  <2>6. m = n \/ m = n - 1 \/ m \in n - 7 .. n - 2 \/ m = k
    BY ONLY <1>1, <2>2, <2>5
  <2>7. Op(q, m) = Op(r, m)
    BY <1>1, <1>2
  <2>8. CASE d = "new"
    <3>1. Op(r, m) = "Bytes" /\ Op(q, m - 4) = "Broadcast" /\ Tag(q, m) = "same_config" /\ m >= 7
      BY <1>5, <2>7, <2>8
    <3>2. m = n - 1
      BY <2>1, <2>3, <2>6, <3>1
    <3>3. m - 4 \in n - 7 .. n - 2 /\ m - 4 \in 1 .. n
      BY <1>1, <3>1, <3>2
    <3> QED BY <1>2, <2>1, <3>1, <3>3
  <2>9. CASE d = "restore"
    <3>1. /\ Op(r, m) = "Barrier" /\ Op(q, m - 1) = "Bytes" /\ Tag(q, m - 1) = "same_config" /\ m >= 10
      BY <1>6, <2>7, <2>9
    <3>2. m = n \/ m \in n - 7 .. n - 2
      BY <2>1, <2>2, <2>6, <3>1
    <3>3. ASSUME m \in n - 7 .. n - 2 PROVE FALSE
      <4>1. m - 1 \in n - 7 .. n - 2 \/ m - 1 = k
        BY <1>1, <2>2, <3>3
      <4>2. m - 1 \in 1 .. n
        BY <1>1, <3>1
      <4>3. Op(r, m - 1) = "Bytes"
        BY <1>2, <3>1, <4>2
      <4>4. m - 1 # k
        BY <2>3, <3>1
      <4> QED BY <2>1, <4>1, <4>3, <4>4
    <3> QED BY <1>9, <2>9, <3>2, <3>3
  <2> QED BY <1>3, <1>9, <2>8, <2>9 DEF Builds
<1> QED BY <1>7, <1>8, <1>9 DEF Builds

\* Where the call ends that gives a rank its trainer.
LEMMA BirthEnds ==
    ASSUME GroupInv, CallInv, NEW r \in Ranks, NEW c \in Builds, call[r] = c, Round(r) = "end",
           ~Group!Waits(r)
    PROVE  \E n \in 1 .. Len(done[r]) :
            /\ n = Len(done[r]) /\ n = Len(asked[r]) /\ Len(Rounds(c)) <= n /\ Len(Rounds(c)) \in Nat
            /\ Base(r) = n - Len(Rounds(c)) /\ at[r] = Len(Rounds(c)) + 1
            /\ Traced(r, n - Len(Rounds(c)), Len(Rounds(c)), Rounds(c))
            /\ kind = "replicated" <=> c = "construct"
            /\ Tag(r, n) # "step"
<1>1. call[r] # None
  BY DEF Builds, None
<1>2. /\ Len(asked[r]) = Len(done[r]) /\ Len(done[r]) \in Nat /\ Base(r) \in Nat
      /\ Base(r) + at[r] = Len(done[r]) + 1 /\ Len(Rounds(c)) \in Nat
      /\ at[r] = Len(Rounds(c)) + 1
      /\ \A i \in 1 .. at[r] - 1 : Tag(r, Base(r) + i) = Rounds(c)[i]
  BY <1>1, CallIs, EndIs
<1>3. Len(Rounds(c)) # 0 /\ (\A i \in Nat : i = Len(Rounds(c)) => Rounds(c)[i] \in {"broadcast", "same_config", "prepared"})
  <2>1. CASE c = "construct"
    <3>1. Rounds(c) = Construct /\ Len(Construct) = Params + 2 /\ Params \in Nat \ {0}
      BY <2>1, ConstructIs, ConstantsAre DEF Rounds
    <3>2. Params + 2 \in 3 .. Params + 2
      BY <3>1
    <3> QED BY <3>1, <3>2, ConstructIs
  <2>2. CASE c = "new"
    <3>1. Len(Rounds(c)) = Params + 6 /\ Rounds(c)[Params + 6] = "same_config" /\ Params \in Nat \ {0}
      BY <2>2, NewIs, ConstantsAre
    <3> QED BY <3>1
  <2>3. CASE c = "restore"
    BY <2>3, RestoreIs
  <2> QED BY <2>1, <2>2, <2>3 DEF Builds
<1>4. PICK l \in Nat \ {0} : l = Len(Rounds(c))
  BY <1>2, <1>3
<1>5. PICK n \in Nat : n = Len(done[r])
  BY <1>2
<1>6. /\ n \in 1 .. Len(done[r]) /\ n = Len(asked[r]) /\ l <= n /\ Base(r) = n - l
      /\ n - l + l = n /\ at[r] - 1 = l
  BY ONLY <1>2, <1>4, <1>5
<1>7. \A i \in 1 .. l : Tag(r, (n - l) + i) = Rounds(c)[i]
  BY <1>2, <1>6
<1>8. Tag(r, n) # "step"
  <2>1. l \in 1 .. l
    BY <1>4
  <2>2. Tag(r, (n - l) + l) = Rounds(c)[l]
    BY <1>7, <2>1
  <2>3. (n - l) + l = n
    BY <1>4, <1>5
  <2>4. Rounds(c)[l] \in {"broadcast", "same_config", "prepared"}
    BY <1>3, <1>4
  <2> QED BY <2>2, <2>3, <2>4
<1>9. kind = "replicated" <=> c = "construct"
  BY <1>1 DEF CallInv, RankInv, Builds, Replicates, Shards
<1>10. Traced(r, n - l, l, Rounds(c))
  BY <1>7 DEF Traced
<1>11. at[r] = l + 1
  BY <1>2, <1>4
<1>12. l <= n /\ l \in Nat /\ n = Len(done[r]) /\ l = Len(Rounds(c))
  BY <1>4, <1>5, <1>6
<1> QED BY <1>6, <1>8, <1>9, <1>10, <1>11, <1>12

\* What the call gives, it gives by its end.
LEMMA BirthGives ==
    ASSUME GroupInv, CallInv, RestoreInv, MeanInv, CloseInv, NEW r \in Ranks, Finish(r),
           NEW c \in Builds, call[r] = c, NEW n \in 1 .. Len(done[r]), n = Len(done[r]),
           Len(Rounds(c)) <= n, Base(r) = n - Len(Rounds(c)), at[r] = Len(Rounds(c)) + 1,
           Traced(r, n - Len(Rounds(c)), Len(Rounds(c)), Rounds(c))
    PROVE  /\ c = "construct" => weights'[r] = What(0, n) /\ moments' = moments
           /\ c = "new" => weights'[r] = What(0, n - 4) /\ moments'[r] = <<>>
           /\ c = "restore" => /\ weights'[r] = What(r, n - 8).weights
                               /\ moments'[r] = What(r, n - 8).moments
                               /\ \A q \in Ranks : Tag(q, n - 8) = "records"
                                                   /\ What(q, n - 8).stamp = What(r, n - 8).stamp
<1>1. /\ DOMAIN weights = Ranks /\ DOMAIN moments = Ranks /\ BroadcastInv(r) /\ NewInv(r) /\ SentInv(r)
      /\ Params \in Nat \ {0}
  BY ConstantsAre DEF MeanInv, CloseInv
<1>2. n \in Nat
  BY DEF GroupInv, IsSeq
<1>3. CASE c = "construct"
  <2>1. weights' = [weights EXCEPT ![r] = hand[r]] /\ moments' = moments
    BY <1>3 DEF Finish
  <2>2. Len(Rounds(c)) = Params + 2 /\ Rounds(c) = Construct
    BY <1>3, ConstructIs DEF Rounds
  <2>3. at[r] = Params + 3 /\ Base(r) = n - (Params + 2)
    BY ONLY <1>1, <2>2, at[r] = Len(Rounds(c)) + 1, Base(r) = n - Len(Rounds(c))
  <2>4. at[r] \in 4 .. Params + 3 /\ Base(r) + at[r] - 1 = n
    BY ONLY <1>1, <1>2, <2>3
  <2>5. hand[r] = done[r][n]
    BY <1>1, <1>3, <2>4 DEF BroadcastInv
  <2>6. Tag(r, n) = "broadcast"
    <3>1. /\ Params + 2 \in 1 .. Len(Rounds(c)) /\ (n - Len(Rounds(c))) + (Params + 2) = n
          /\ Params + 2 \in 3 .. Params + 2
      BY ONLY <1>1, <1>2, <2>2
    <3>2. Tag(r, (n - Len(Rounds(c))) + (Params + 2)) = Rounds(c)[Params + 2]
      BY <3>1 DEF Traced
    <3> QED BY <2>2, <3>1, <3>2, ConstructIs
  <2>7. done[r][n] = What(0, n)
    BY <2>6, BroadcastIs
  <2> QED BY <1>1, <1>3, <2>1, <2>5, <2>7
<1>4. CASE c = "new"
  <2>1. weights' = weights /\ moments' = moments
    BY <1>4 DEF Finish
  <2>2. Len(Rounds(c)) = Params + 6
    BY <1>4, NewIs
  <2>3. at[r] >= Params + 4 /\ Base(r) + Params + 2 = n - 4
    BY ONLY <1>1, <1>2, <2>2, at[r] = Len(Rounds(c)) + 1, Base(r) = n - Len(Rounds(c))
  <2> QED BY <1>1, <1>4, <2>1, <2>3 DEF NewInv
<1>5. CASE c = "restore"
  <2>1. /\ weights' = [weights EXCEPT ![r] = record[r].weights]
        /\ moments' = [moments EXCEPT ![r] = record[r].moments]
    BY <1>5 DEF Finish
  <2>2. Len(Rounds(c)) = 10
    BY <1>5, RestoreIs
  <2>3. at[r] >= 5 /\ at[r] >= 3 /\ Base(r) + 2 = n - 8
    BY ONLY <1>2, <2>2, at[r] = Len(Rounds(c)) + 1, Base(r) = n - Len(Rounds(c))
  <2>4. /\ What(r, Base(r) + 2) = record[r]
        /\ \A q \in Ranks : Tag(q, Base(r) + 2) = "records" /\ What(q, Base(r) + 2).stamp = record[r].stamp
    BY <1>1, <1>5, <2>3 DEF SentInv
  <2>5. /\ What(r, n - 8) = record[r]
        /\ \A q \in Ranks : Tag(q, n - 8) = "records" /\ What(q, n - 8).stamp = record[r].stamp
    BY <2>3, <2>4
  <2> QED BY <1>1, <1>5, <2>1, <2>5
<1> QED BY <1>3, <1>4, <1>5 DEF Builds

\* A trainer is given what another that has one was given, and has not stepped from.
LEMMA BirthAlike ==
    ASSUME GroupInv, CallInv, RestoreInv, MeanInv, CloseInv, NEW r \in Ranks, Finish(r),
           NEW c \in Builds, call[r] = c, NEW q \in Ranks, built[q]
    PROVE  /\ ~Ahead(q) /\ ~Ahead(r) /\ weights'[r] = weights[q]
           /\ kind # "replicated" => moments'[r] = moments[q]
<1>1. Round(r) = "end" /\ ~Group!Waits(r)
  BY DEF Finish, Works
<1>2. PICK n \in 1 .. Len(done[r]) :
        /\ n = Len(done[r]) /\ n = Len(asked[r]) /\ Len(Rounds(c)) <= n /\ Len(Rounds(c)) \in Nat
        /\ Base(r) = n - Len(Rounds(c)) /\ at[r] = Len(Rounds(c)) + 1
        /\ Traced(r, n - Len(Rounds(c)), Len(Rounds(c)), Rounds(c))
        /\ kind = "replicated" <=> c = "construct"
        /\ Tag(r, n) # "step"
  BY <1>1, BirthEnds
<1>3. PICK m \in 1 .. Len(done[q]) : \E d \in Builds : Born(q, d, m)
  BY DEF CloseInv, BornInv
<1>4. PICK d \in Builds : Born(q, d, m)
  BY <1>3
<1>5. m = n /\ d = c
  BY <1>1, <1>2, <1>4, SameBirth
<1>6. Born(q, c, n)
  BY <1>4, <1>5
<1>7. Len(asked[r]) = Len(done[r])
  BY <1>2
<1>8. /\ n \in Nat /\ n <= Len(asked[q]) /\ Len(asked[q]) <= n + 1 /\ Len(asked[q]) \in Nat
  <2>1. /\ Len(asked[r]) \in Nat /\ Len(asked[q]) \in Nat /\ Len(asked[r]) <= Len(asked[q])
        /\ Len(asked[q]) <= Len(asked[r]) + 1
    BY <1>7, ReachIs
  <2>2. n = Len(asked[r])
    BY <1>2
  <2> QED BY ONLY <2>1, <2>2
<1>9. Given(q, c, n) /\ Tag(q, Len(asked[q])) # "step"
  BY <1>6, <1>8 DEF Born
<1>10. ~Ahead(q) /\ ~Ahead(r)
  BY <1>7, <1>9, NotAhead DEF Ahead
<1>11. /\ c = "construct" => weights'[r] = What(0, n) /\ moments' = moments
       /\ c = "new" => weights'[r] = What(0, n - 4) /\ moments'[r] = <<>>
       /\ c = "restore" => /\ weights'[r] = What(r, n - 8).weights
                           /\ moments'[r] = What(r, n - 8).moments
                           /\ \A p \in Ranks : Tag(p, n - 8) = "records"
                                               /\ What(p, n - 8).stamp = What(r, n - 8).stamp
  BY <1>2, BirthGives
<1>12. ASSUME c = "restore" PROVE What(q, n - 8) = What(r, n - 8)
  <2>1. Len(Rounds(c)) = 10
    BY <1>12, RestoreIs
  <2>2. Len(Rounds(c)) <= n /\ n = Len(asked[r])
    BY <1>2
  <2>3. n - 8 \in 1 .. Len(asked[q]) /\ n - 8 \in 1 .. Len(asked[r])
    BY ONLY <1>8, <2>1, <2>2
  <2>4. What(q, n - 8) \in RecordsOf(q) /\ What(r, n - 8) \in RecordsOf(r)
    BY <1>11, <1>12, <2>3 DEF RecordsOf
  <2> QED BY <1>11, <1>12, <2>4 DEF CloseInv, SameRecords
<1>13. weights'[r] = weights[q]
  <2>1. CASE c = "construct"
    BY <1>9, <1>11, <2>1 DEF Given
  <2>2. CASE c = "new"
    BY <1>9, <1>11, <2>2 DEF Given
  <2>3. CASE c = "restore"
    BY <1>9, <1>11, <1>12, <2>3 DEF Given
  <2> QED BY <2>1, <2>2, <2>3 DEF Builds
<1>14. ASSUME kind # "replicated" PROVE moments'[r] = moments[q]
  <2>1. CASE c = "new"
    BY <1>9, <1>11, <2>1 DEF Given
  <2>2. CASE c = "restore"
    BY <1>9, <1>11, <1>12, <2>2 DEF Given
  <2> QED BY <1>2, <1>14, <2>1, <2>2 DEF Builds
<1> QED BY <1>10, <1>13, <1>14

\* What a call gives stays known when it has given it.
LEMMA BirthKnown ==
    ASSUME GroupInv, CallInv, RestoreInv, MeanInv, CloseInv, NEW r \in Ranks, Finish(r),
           NEW c \in Builds, call[r] = c
    PROVE  BornInv(r)'
<1>1. /\ Round(r) = "end" /\ ~Group!Waits(r)
      /\ UNCHANGED <<kind, session, asked, done>> /\ call'[r] = None
  BY DEF Finish, Works, group, CallInv
<1>2. PICK n \in 1 .. Len(done[r]) :
        /\ n = Len(done[r]) /\ n = Len(asked[r]) /\ Len(Rounds(c)) <= n /\ Len(Rounds(c)) \in Nat
        /\ Base(r) = n - Len(Rounds(c)) /\ at[r] = Len(Rounds(c)) + 1
        /\ Traced(r, n - Len(Rounds(c)), Len(Rounds(c)), Rounds(c))
        /\ kind = "replicated" <=> c = "construct"
        /\ Tag(r, n) # "step"
  BY <1>1, BirthEnds
<1>3. \A p, k : Tag(p, k)' = Tag(p, k) /\ What(p, k)' = What(p, k)
  BY <1>1 DEF Tag, What
<1>4. Given(r, c, n)'
  <2>1. /\ c = "construct" => weights'[r] = What(0, n) /\ moments' = moments
        /\ c = "new" => weights'[r] = What(0, n - 4) /\ moments'[r] = <<>>
        /\ c = "restore" => weights'[r] = What(r, n - 8).weights /\ moments'[r] = What(r, n - 8).moments
    BY <1>2, BirthGives
  <2> QED BY <1>3, <2>1 DEF Given, What
<1>5. Traced(r, n - Len(Rounds(c)), Len(Rounds(c)), Rounds(c))'
  BY <1>2, <1>3 DEF Traced, Tag
<1>6. n + 1 .. Len(asked[r]) = {}
  <2>1. n = Len(asked[r]) /\ Len(asked[r]) \in Nat
    BY <1>2 DEF GroupInv, IsSeq
  <2> QED BY ONLY <2>1
<1>7. Tag(r, Len(asked[r]))' # "step"
  <2>1. \A k : k = Len(asked[r]) => Tag(r, k)' # "step"
    BY <1>2, <1>3
  <2> QED BY <1>1, <2>1 DEF Tag
<1>8. Born(r, c, n)'
  <2>1. kind' = "replicated" <=> c = "construct"
    BY <1>1, <1>2
  <2>2. \A k \in n + 1 .. Len(asked'[r]) : FALSE
    BY <1>1, <1>6
  <2>3. Len(Rounds(c)) <= n
    BY <1>2
  <2> QED BY <1>1, <1>4, <1>5, <1>7, <2>1, <2>2, <2>3 DEF Born
<1>9. n \in 1 .. Len(done'[r])
  BY <1>1, <1>2
<1> QED BY <1>8, <1>9 DEF BornInv

\* A rank that gets its trainer is as close to those that have theirs as they are to each other.
LEMMA CloseBirths ==
    ASSUME GroupInv, CallInv, RestoreInv, MeanInv, CloseInv, Grows, NEW r \in Ranks, Finish(r),
           call[r] \in Builds
    PROVE  CloseInv'
<1>1. /\ call[r] # None /\ call' = [call EXCEPT ![r] = None] /\ ~Group!Waits(r)
      /\ UNCHANGED <<kind, session, at, asked, done, hand, record, saved>>
      /\ built' = [built EXCEPT ![r] = TRUE]
      /\ moments' = IF call[r] = "restore" THEN [moments EXCEPT ![r] = record[r].moments] ELSE moments
  BY DEF Finish, Works, group, Builds
<1>2. weights' = CASE call[r] = "construct" -> [weights EXCEPT ![r] = hand[r]]
                   [] call[r] = "restore" -> [weights EXCEPT ![r] = record[r].weights]
                   [] OTHER -> weights
  BY DEF Finish
<1>3. /\ DOMAIN call = Ranks /\ DOMAIN weights = Ranks /\ DOMAIN moments = Ranks
      /\ DOMAIN built = Ranks /\ RankInv(r)
  BY DEF CallInv, MeanInv
<1>4. \A q \in Ranks \ {r} : /\ weights'[q] = weights[q] /\ moments'[q] = moments[q]
                             /\ built'[q] = built[q] /\ call'[q] = call[q]
  BY <1>1, <1>2, <1>3
<1>5. ~built[r] /\ built'[r] /\ call'[r] = None
  BY <1>1, <1>3 DEF RankInv
<1>6. kind = "replicated" => moments' = moments
  BY <1>1, <1>3 DEF RankInv, Replicates, None
<1>7. \A k : /\ \A q : Tag(q, k)' = Tag(q, k) /\ What(q, k)' = What(q, k)
             /\ Agreed(k)' <=> Agreed(k)
             /\ Concluded(k)' <=> Concluded(k)
  BY <1>1 DEF Tag, What, Agreed, Concluded
<1>8. ASSUME NEW q \in Ranks \ {r}
      PROVE  /\ SettingInv(q)' /\ BornInv(q)' /\ NewInv(q)' /\ SentInv(q)' /\ RecordInv(q)'
             /\ RecordsOf(q)' \subseteq RecordsOf(q)
  BY <1>1, <1>4, CloseUnmoved
<1>9. SettingInv(r)'
  <2>1. SettingInv(r)
    BY DEF CloseInv
  <2>2. \A k : k = Len(asked[r]) => Tag(r, k)' = Tag(r, k) /\ What(r, k)' = What(r, k)
    BY <1>7
  <2> QED BY <1>1, <1>5, <1>6, <2>1, <2>2 DEF SettingInv, Tag, What, None
<1>10. BornInv(r)'
  BY BirthKnown
<1>11. NewInv(r)' /\ SentInv(r)'
  BY <1>5 DEF NewInv, SentInv, None
<1>12. RecordInv(r)' /\ RecordsOf(r)' \subseteq RecordsOf(r)
  <2>1. RecordsOf(r)' = RecordsOf(r)
    BY <1>1 DEF RecordsOf, Tag, What
  <2>2. ASSUME NEW x \in RecordsOf(r), x # Nothing
        PROVE  /\ x = [stamp |-> <<x.stamp[1], x.stamp[2]>>, weights |-> x.weights, moments |-> x.moments]
               /\ x.stamp[1] \in Nat /\ x.stamp[2] \in Nat /\ x.stamp[1] <= session
               /\ x.stamp[1] # session
    BY <1>5, <2>2 DEF CloseInv, RecordInv
  <2> QED BY <1>1, <2>1, <2>2 DEF RecordInv
<1>13. SameRecords'
  BY <1>8, <1>12, RecordsStay
<1>14. Settled' <=> Settled
  BY <1>7 DEF Settled
<1>15. \A q \in Ranks : (Ahead(q)' <=> Ahead(q)) /\ Applied(q)' = Applied(q)
  <2>1. Lead' = Lead
    BY <1>1 DEF Lead
  <2> QED BY <1>1, <2>1 DEF Ahead, Applied, Tag, Concluded
<1>16. \A p, q \in Ranks : PairInv(p, q)
  BY DEF CloseInv
<1>17. ASSUME NEW q \in Ranks \ {r} PROVE PairInv(r, q)' /\ PairInv(q, r)'
  <2>1. ASSUME built'[q]
        PROVE  /\ ~Ahead(q)' /\ ~Ahead(r)' /\ weights'[r] = weights'[q]
               /\ kind # "replicated" => moments'[r] = moments'[q]
    <3>1. built[q]
      BY <1>4, <2>1
    <3>2. /\ ~Ahead(q) /\ ~Ahead(r) /\ weights'[r] = weights[q]
          /\ kind # "replicated" => moments'[r] = moments[q]
      BY <3>1, BirthAlike
    <3> QED BY <1>4, <1>15, <3>2
  <2>2. ASSUME kind = "replicated", Settled'
        PROVE  Level(r, q, moments[r], moments[q])' /\ Level(q, r, moments[q], moments[r])'
    <3>1. Level(r, q, moments[r], moments[q]) /\ Level(q, r, moments[q], moments[r])
      BY <1>14, <1>16, <2>2 DEF PairInv
    <3> QED BY <1>6, <1>15, <2>2, <3>1 DEF Level
  <2>3. PairInv(r, q)'
    BY <1>1, <2>1, <2>2 DEF PairInv, Level
  <2>4. PairInv(q, r)'
    BY <1>1, <2>1, <2>2 DEF PairInv, Level
  <2> QED BY <2>3, <2>4
<1>18. PairInv(r, r)'
  BY DEF PairInv, Level
<1>19. ASSUME NEW p \in Ranks \ {r}, NEW q \in Ranks \ {r} PROVE PairInv(p, q)'
  <2>1. PairInv(p, q) /\ (Ahead(p)' <=> Ahead(p)) /\ (Ahead(q)' <=> Ahead(q)) /\ Applied(p)' = Applied(p)
    BY <1>15, <1>16
  <2> QED BY <1>1, <1>4, <1>14, <2>1 DEF PairInv, Level
<1>20. UnsettledInv'
  <2>1. UnsettledInv
    BY DEF CloseInv
  <2>2. CASE kind = "replicated"
    BY <1>1, <1>6, <1>14, <2>1, <2>2, NearStays
  <2>3. CASE kind # "replicated"
    BY <1>1, <2>3 DEF UnsettledInv
  <2> QED BY <2>2, <2>3
<1>21. \A p, q \in Ranks : PairInv(p, q)'
  BY <1>17, <1>18, <1>19
<1>22. \A q \in Ranks : SettingInv(q)' /\ BornInv(q)' /\ NewInv(q)' /\ SentInv(q)' /\ RecordInv(q)'
  BY <1>8, <1>9, <1>10, <1>11, <1>12
<1> QED BY <1>13, <1>20, <1>21, <1>22 DEF CloseInv

\* Initially nobody has a trainer, or a record.
LEMMA CloseInit == ASSUME Init PROVE CloseInv
<1>1. /\ asked = [r \in Ranks |-> <<>>] /\ done = [r \in Ranks |-> <<>>]
      /\ \A r \in Ranks : /\ call[r] = None /\ ~built[r] /\ moments[r] = <<>>
                          /\ record[r] = Nothing /\ saved[r] = Nothing
  BY DEF Init, Group!Init
<1>2. \A r \in Ranks : 1 .. Len(asked[r]) = {} /\ Len(asked[r]) = 0 /\ 1 .. Len(done[r]) = {}
  BY <1>1, EmptyIs
<1>3. \A r \in Ranks : RecordsOf(r) = {Nothing}
  BY <1>1, <1>2 DEF RecordsOf
<1>4. ~Settled
  BY <1>2 DEF Settled, Concluded
<1>5. ASSUME NEW r \in Ranks
      PROVE  SettingInv(r) /\ BornInv(r) /\ NewInv(r) /\ SentInv(r) /\ RecordInv(r)
  BY <1>1, <1>2, <1>3 DEF SettingInv, BornInv, NewInv, SentInv, RecordInv, None
<1>6. \A r, q \in Ranks : PairInv(r, q)
  <2>1. kind = "replicated" \/ kind # "replicated"
    OBVIOUS
  <2> QED BY <1>1, <1>4, <2>1 DEF PairInv
<1>7. UnsettledInv
  BY <1>1 DEF UnsettledInv, Near
<1>8. SameRecords
  BY <1>3 DEF SameRecords
<1> QED BY <1>5, <1>6, <1>7, <1>8 DEF CloseInv

\* No step sets replicas apart by more than one update.
LEMMA CloseNext ==
    ASSUME GroupInv, CallInv, RestoreInv, MeanInv, ConfirmInv, CloseInv, Next
    PROVE  CloseInv'
<1>1. CASE NewSession
  BY <1>1, CloseRenews
<1>2. CASE ~NewSession
  <2>1. Grows
    BY <1>2, SessionGrows
  <2>2. PICK r \in Ranks :
          \/ Work(r) \/ Receive(r) \/ Finish(r) \/ LeaveEarly(r) \/ Error(r) \/ Drop(r)
          \/ \E c \in Offers(r) : Begin(r, c)
    BY <1>2 DEF Next
  <2>3. CASE Finish(r)
    BY <2>1, <2>3, CloseEnds, CloseBirths
  <2>4. CASE Work(r) \/ Receive(r)
    BY <2>1, <2>4, CloseWorks, CloseReceives
  <2>5. CASE LeaveEarly(r) \/ Error(r) \/ Drop(r) \/ \E c \in Offers(r) : Begin(r, c)
    BY <2>5, CloseIdles
  <2> QED BY <2>2, <2>3, <2>4, <2>5
<1> QED BY <1>1, <1>2

\* One more at the end keeps what is before it.
LEMMA OneMoreIs ==
    ASSUME NEW v, IsSeq(v), NEW x
    PROVE  Close(Append(v, x), v) /\ Close(v, Append(v, x)) /\ Close(v, v)
<1>1. Len(v) \in Nat
  BY DEF IsSeq
<1>2. PICK u : u = Append(v, x)
  OBVIOUS
<1>3. IsSeq(u) /\ Len(u) = Len(v) + 1 /\ \A i \in 1 .. Len(v) : u[i] = v[i]
  BY <1>2, AppendIs
<1>4. SubSeq(u, 1, Len(v)) = [i \in 1 .. Len(v) |-> u[i]] /\ SubSeq(v, 1, Len(v)) = [i \in 1 .. Len(v) |-> v[i]]
  <2>1. PICK S : u \in Seq(S)
    <3>1. u \in Seq({u[i] : i \in 1 .. Len(u)})
      BY <1>3 DEF IsSeq
    <3> QED BY <3>1
  <2>2. PICK T : v \in Seq(T)
    <3>1. v \in Seq({v[i] : i \in 1 .. Len(v)})
      BY DEF IsSeq
    <3> QED BY <3>1
  <2> QED BY <1>1, <1>3, <2>1, <2>2
<1>5. SubSeq(v, 1, Len(v)) = SubSeq(u, 1, Len(v))
  BY <1>3, <1>4
<1>6. IsPrefix(v, u) /\ IsPrefix(v, v)
  BY <1>1, <1>3, <1>5 DEF IsPrefix
<1> QED BY <1>1, <1>2, <1>3, <1>6 DEF Close

\* Levels, and moments within reach, are close.
LEMMA ReplicasAre == ASSUME MeanInv, CloseInv PROVE ReplicasClose
<1> SUFFICES ASSUME NEW r \in Ranks, NEW q \in Ranks, built[r], built[q]
             PROVE  /\ weights[r].base = weights[q].base
                    /\ Close(weights[r].updates, weights[q].updates) /\ Close(moments[r], moments[q])
  BY DEF ReplicasClose
<1>1. ASSUME NEW u, NEW v, IsSeq(u), IsSeq(v), Near(u, v) PROVE Close(u, v)
  BY <1>1, OneMoreIs DEF Near
<1>2. /\ IsSeq(weights[r].updates) /\ IsSeq(weights[q].updates) /\ IsSeq(moments[r])
      /\ IsSeq(moments[q])
  BY DEF MeanInv, ModelInv, IsModel
<1>3. PairInv(r, q) /\ PairInv(q, r) /\ UnsettledInv
  BY DEF CloseInv
<1>4. weights[r].base = weights[q].base /\ Near(weights[r].updates, weights[q].updates)
  <2>1. /\ Level(r, q, weights[r].updates, weights[q].updates)
        /\ Level(q, r, weights[q].updates, weights[r].updates)
        /\ weights[r].base = weights[q].base
    BY <1>3 DEF PairInv
  <2> QED BY <2>1, LevelIsNear
<1>5. Near(moments[r], moments[q])
  <2>1. CASE kind = "replicated" /\ ~Settled
    BY <1>3, <2>1 DEF UnsettledInv
  <2>2. CASE ~(kind = "replicated" /\ ~Settled)
    <3>1. Level(r, q, moments[r], moments[q]) /\ Level(q, r, moments[q], moments[r])
      BY <1>3, <2>2 DEF PairInv
    <3> QED BY <3>1, LevelIsNear
  <2> QED BY <2>1, <2>2
<1> QED BY <1>1, <1>2, <1>4, <1>5

\* The trainers of one session hold the same weights and moments, up to one update:
\* after any local errors, refusals, lost collectives, checkpoints and restores, in
\* however many sessions and on however many ranks (the broadcasts of construct and
\* new, the identical checks of settings and the status before each step).
THEOREM ReplicasAreClose == Spec => []ReplicasClose
<1> DEFINE Inv == GroupInv /\ CallInv /\ RestoreInv /\ MeanInv /\ ConfirmInv /\ CloseInv
<1>1. Init => Inv
  BY RestoreInit, MeanInit, ConfirmInit, CloseInit
<1>2. Inv /\ [Next]_vars => Inv'
  BY GroupNext, CallNext, RestoreNext, RestoreStutters, MeanNext, MeanStutters,
     ConfirmNext, ConfirmStutters, CloseNext, CloseStutters
<1>3. Inv => ReplicasClose
  BY ReplicasAre
<1> QED BY <1>1, <1>2, <1>3, PTL DEF Spec
=============================================================================
