-------------------------- MODULE ByteBudgetProofs --------------------------
(***************************************************************************)
(* Theorems of the byte budget, for any number of batches and workers, any *)
(* limit and any set of footprints.                                        *)
(***************************************************************************)
EXTENDS ByteBudget, TLAPS

USE RequestsAssumption, WorkersAssumption, LimitAssumption, SizesAssumption

\* The inductive invariant.  NoLostWakeup needs nothing but the types; the
\* capacity check of Fits subtracts used from Limit, so it needs WithinLimit.
BudgetInv ==
    /\ TypeOK
    /\ WithinLimit
    /\ NoLostWakeup
    /\ AdmittedPrefix

\* notify_all leaves no call parked and changes nothing else a property reads.
LEMMA NotifyAllType ==
    ASSUME NEW c \in [Seqs -> CallStates]
    PROVE  /\ NotifyAll(c) \in [Seqs -> CallStates]
           /\ \A s \in Seqs : NotifyAll(c)[s] # "parked"
           /\ \A s \in Seqs : NotifyAll(c)[s] \in {"held", "released"}
                                <=> c[s] \in {"held", "released"}
           /\ \A s \in Seqs : NotifyAll(c)[s] = "held" <=> c[s] = "held"
BY DEF NotifyAll, CallStates

\* Batch sequences are natural numbers.
LEMMA SeqsAreNaturals == Seqs \subseteq Nat
BY DEF Seqs

\* A fresh budget satisfies the inductive invariant (BudgetState::default).
LEMMA BudgetInit == Init => BudgetInv
<1> SUFFICES ASSUME Init PROVE BudgetInv
  OBVIOUS
<1>1. TypeOK
  BY DEF Init, TypeOK, CallStates
<1>2. WithinLimit
  BY DEF Init, WithinLimit
<1>3. NoLostWakeup
  BY DEF Init, NoLostWakeup
<1>4. AdmittedPrefix
  <2>1. \A s \in Seqs : ~(s < nextOrdered)
    BY SeqsAreNaturals DEF Init
  <2>2. \A s \in Seqs : call[s] \notin {"held", "released"}
    BY DEF Init
  <2> QED
    BY <2>1, <2>2 DEF AdmittedPrefix
<1> QED
  BY <1>1, <1>2, <1>3, <1>4 DEF BudgetInv

\* Every critical section of the budget preserves it.
LEMMA BudgetNext == BudgetInv /\ [Next]_vars => BudgetInv'
<1> SUFFICES ASSUME BudgetInv, [Next]_vars
             PROVE  BudgetInv'
  OBVIOUS
<1> USE DEF BudgetInv
<1>1. ASSUME NEW s \in Seqs, Enter(s)
      PROVE  BudgetInv'
  BY <1>1 DEF Enter, TypeOK, WithinLimit, NoLostWakeup, AdmittedPrefix, CallStates,
              Rejected, Oversize, Duplicate, Admissible, SequenceReady, Fits
<1>2. ASSUME NEW s \in Seqs, Reject(s)
      PROVE  BudgetInv'
  BY <1>2 DEF Reject, TypeOK, WithinLimit, NoLostWakeup, AdmittedPrefix, CallStates,
              Running, Rejection, Rejected, Oversize, Duplicate, Admissible,
              SequenceReady, Fits, WaitersAfterWake, SaturatingSub
<1>3. ASSUME NEW s \in Seqs, Admit(s)
      PROVE  BudgetInv'
  <2>0. s \in Nat /\ bytes[s] \in Nat /\ used \in Nat /\ nextOrdered \in Nat /\ waiters \in Nat
    BY SeqsAreNaturals DEF TypeOK
  <2>1. used' \in Nat /\ used' <= Limit
    BY <1>3, <2>0 DEF Admit, Admissible, Fits, WithinLimit
  <2>2. nextOrdered' \in Nat /\ waiters' \in Nat
    <3>1. nextOrdered' = IF ordered THEN nextOrdered + 1 ELSE nextOrdered
      BY <1>3, <2>0 DEF Admit
    <3>2. \A t \in Seqs : WaitersAfterWake(t) \in Nat
      BY <2>0 DEF WaitersAfterWake, SaturatingSub
    <3>3. waiters' = WaitersAfterWake(s)
      BY <1>3 DEF Admit
    <3> QED
      BY ONLY <2>0, <3>1, <3>2, <3>3, s \in Seqs
  <2> DEFINE admitted == [call EXCEPT ![s] = "held"]
  <2>3. admitted \in [Seqs -> CallStates]
    BY DEF TypeOK, CallStates
  <2>4. call' = IF ordered THEN NotifyAll(admitted) ELSE admitted
    BY <1>3 DEF Admit, CallsAfterAdmission
  <2>5. call' \in [Seqs -> CallStates]
    BY <2>3, <2>4, NotifyAllType
  <2>6. TypeOK'
    BY <1>3, <2>1, <2>2, <2>5 DEF Admit, TypeOK
  <2>7. NoLostWakeup'
    <3>1. CASE ordered
      <4> HIDE DEF admitted
      <4>1. \A t \in Seqs : call'[t] # "parked"
        BY <2>3, <2>4, <3>1, NotifyAllType
      <4> QED
        BY <4>1 DEF NoLostWakeup
    <3>2. CASE ~ordered
      <4> SUFFICES ASSUME NEW t \in Seqs, call'[t] = "parked"
                   PROVE  ~Rejected(t)' /\ ~Admissible(t)'
        BY DEF NoLostWakeup
      <4>1. call[t] = "parked"
        BY <2>4, <3>2 DEF TypeOK
      <4>2. ~Rejected(t) /\ ~Admissible(t)
        BY <4>1 DEF NoLostWakeup
      <4>3. bytes[t] \in Nat
        BY DEF TypeOK
      <4> QED
        BY <1>3, <2>0, <3>2, <4>2, <4>3 DEF Admit, Rejected, Oversize, Duplicate,
           Admissible, SequenceReady, Fits
    <3> QED
      BY <3>1, <3>2
  <2>8. AdmittedPrefix'
    <3> SUFFICES ASSUME ordered, NEW t \in Seqs
                 PROVE  call'[t] \in {"held", "released"} <=> t < nextOrdered'
      BY <1>3 DEF AdmittedPrefix, Admit
    <3>1. call'[t] \in {"held", "released"} <=> admitted[t] \in {"held", "released"}
      BY <2>3, <2>4, NotifyAllType
    <3>2. admitted[t] \in {"held", "released"} <=> t = s \/ call[t] \in {"held", "released"}
      BY DEF TypeOK
    <3>3. s = nextOrdered /\ nextOrdered' = nextOrdered + 1
      BY <1>3 DEF Admit, Admissible, SequenceReady
    <3>4. t \in Nat
      BY SeqsAreNaturals
    <3> QED
      BY <2>0, <3>1, <3>2, <3>3, <3>4 DEF AdmittedPrefix
  <2> QED
    BY <2>1, <2>6, <2>7, <2>8 DEF WithinLimit, BudgetInv
<1>4. ASSUME NEW s \in Seqs, Park(s)
      PROVE  BudgetInv'
  <2>1. NotifyAll(call) \in [Seqs -> CallStates]
    BY NotifyAllType DEF TypeOK
  <2>2. waiters' \in Nat
    BY <1>4 DEF Park, WaitersAfterWake, SaturatingSub, TypeOK
  <2>3. call' = [NotifyAll(call) EXCEPT ![s] = "parked"]
    BY <1>4 DEF Park
  <2>4. TypeOK'
    BY <1>4, <2>1, <2>2, <2>3 DEF Park, TypeOK, CallStates
  <2>5. ASSUME NEW t \in Seqs, call'[t] = "parked"
        PROVE  t = s
    BY <2>1, <2>3, <2>5, NotifyAllType DEF TypeOK
  <2>6. ~Rejected(s)' /\ ~Admissible(s)'
    BY <1>4 DEF Park, Rejected, Oversize, Duplicate, Admissible, SequenceReady, Fits
  <2>7. NoLostWakeup'
    BY <2>5, <2>6 DEF NoLostWakeup
  <2>8. \A t \in Seqs : call'[t] \in {"held", "released"} <=> call[t] \in {"held", "released"}
    <3>1. call[s] \notin {"held", "released"}
      BY <1>4 DEF Park, Running
    <3> QED
      BY <2>1, <2>3, <3>1, NotifyAllType DEF TypeOK
  <2>9. AdmittedPrefix' /\ WithinLimit'
    BY <1>4, <2>8 DEF Park, AdmittedPrefix, WithinLimit
  <2> QED
    BY <2>4, <2>7, <2>9 DEF BudgetInv
<1>5. ASSUME NEW s \in Seqs, SpuriousWake(s)
      PROVE  BudgetInv'
  BY <1>5 DEF SpuriousWake, TypeOK, WithinLimit, NoLostWakeup, AdmittedPrefix, CallStates,
              Rejected, Oversize, Duplicate, Admissible, SequenceReady, Fits
<1>6. ASSUME NEW s \in Seqs, Release(s)
      PROVE  BudgetInv'
  <2> DEFINE released == [call EXCEPT ![s] = "released"]
  <2>1. released \in [Seqs -> CallStates]
    BY DEF TypeOK, CallStates
  <2>2. call' = NotifyAll(released)
    BY <1>6 DEF Release, CallsAfterRelease
  <2> HIDE DEF released
  <2>3. used' \in Nat /\ used' <= Limit
    <3>1. used \in Nat /\ bytes[s] \in Nat
      BY DEF TypeOK
    <3> QED
      BY <1>6, <3>1 DEF Release, UsedAfterRelease, SaturatingSub, WithinLimit
  <2>4. TypeOK'
    BY <1>6, <2>1, <2>2, <2>3, NotifyAllType DEF Release, TypeOK
  <2>5. NoLostWakeup'
    <3>1. \A t \in Seqs : call'[t] # "parked"
      BY <2>1, <2>2, NotifyAllType
    <3> QED
      BY <3>1 DEF NoLostWakeup
  <2>6. \A t \in Seqs : call'[t] \in {"held", "released"} <=> call[t] \in {"held", "released"}
    <3>1. call[s] = "held"
      BY <1>6 DEF Release
    <3>2. \A t \in Seqs : released[t] \in {"held", "released"} <=> call[t] \in {"held", "released"}
      BY <3>1 DEF TypeOK, released
    <3> QED
      BY <2>1, <2>2, <3>2, NotifyAllType
  <2>7. AdmittedPrefix'
    BY <1>6, <2>6 DEF Release, AdmittedPrefix
  <2> QED
    BY <2>3, <2>4, <2>5, <2>7 DEF WithinLimit, BudgetInv
<1>7. ASSUME CloseBudget
      PROVE  BudgetInv'
  BY <1>7, NotifyAllType DEF CloseBudget, TypeOK, WithinLimit, NoLostWakeup, AdmittedPrefix
<1>8. CASE UNCHANGED vars
  BY <1>8 DEF vars, TypeOK, WithinLimit, NoLostWakeup, AdmittedPrefix,
              Rejected, Oversize, Duplicate, Admissible, SequenceReady, Fits
<1> QED
  BY <1>1, <1>2, <1>3, <1>4, <1>5, <1>6, <1>7, <1>8 DEF Next, Cancel, CancelOnError

\* Type correctness of the budget and of every call in it.
THEOREM BudgetTypeCorrect == Spec => []TypeOK
<1>1. BudgetInv => TypeOK
  BY DEF BudgetInv
<1> QED
  BY <1>1, BudgetInit, BudgetNext, PTL DEF Spec

\* The configured number of bytes is never exceeded (acquire_inner).
THEOREM BudgetIsStrict == Spec => []WithinLimit
<1>1. BudgetInv => WithinLimit
  BY DEF BudgetInv
<1> QED
  BY <1>1, BudgetInit, BudgetNext, PTL DEF Spec

\* No call sleeps through the change it waits for (acquire_inner, cancel,
\* BytePermit::drop), for any number of concurrent calls.
THEOREM BudgetLosesNoWakeup == Spec => []NoLostWakeup
<1>1. BudgetInv => NoLostWakeup
  BY DEF BudgetInv
<1> QED
  BY <1>1, BudgetInit, BudgetNext, PTL DEF Spec

\* Ordered admission follows the batch sequence without gap or repetition
\* (acquire_ordered).
THEOREM BudgetAdmitsInOrder == Spec => []AdmittedPrefix
<1>1. BudgetInv => AdmittedPrefix
  BY DEF BudgetInv
<1> QED
  BY <1>1, BudgetInit, BudgetNext, PTL DEF Spec

\* No step of a cancelled budget grants a permit: acquire_inner tests cancelled
\* first.
LEMMA ClosedBudgetGrantsNothing ==
    ASSUME call \in [Seqs -> CallStates], Next, cancelled
    PROVE  \A s \in Seqs : call'[s] = "held" => call[s] = "held"
<1> SUFFICES ASSUME NEW s \in Seqs, call'[s] = "held"
             PROVE  call[s] = "held"
  OBVIOUS
<1>1. ASSUME NEW t \in Seqs, Enter(t) \/ Reject(t) \/ SpuriousWake(t)
      PROVE  call[s] = "held"
  BY <1>1 DEF Enter, Reject, SpuriousWake, Rejection
<1>2. ASSUME NEW t \in Seqs, Admit(t) \/ Park(t)
      PROVE  call[s] = "held"
  BY <1>2 DEF Admit, Park, Rejected
<1>3. ASSUME NEW t \in Seqs, Release(t)
      PROVE  call[s] = "held"
  <2> DEFINE released == [call EXCEPT ![t] = "released"]
  <2>1. released \in [Seqs -> CallStates] /\ (released[s] = "held" => call[s] = "held")
    BY DEF CallStates
  <2>2. call' = NotifyAll(released)
    BY <1>3 DEF Release, CallsAfterRelease
  <2> HIDE DEF released
  <2> QED
    BY <2>1, <2>2, NotifyAllType
<1>4. CASE CloseBudget
  BY <1>4, NotifyAllType DEF CloseBudget
<1> QED
  BY <1>1, <1>2, <1>3, <1>4 DEF Next, Cancel, CancelOnError

\* Once the budget is cancelled no call is granted bytes, so a failing worker
\* that closes the budget before the generation's token cannot be overtaken by
\* a late admission.
THEOREM BudgetStaysClosed == Spec => NoAdmissionAfterCancel
<1> DEFINE Closed == cancelled => \A s \in Seqs : call'[s] = "held" => call[s] = "held"
<1>1. BudgetInv /\ [Next]_vars => [Closed]_vars
  BY ClosedBudgetGrantsNothing DEF BudgetInv, TypeOK
<1>2. NoAdmissionAfterCancel <=> [][Closed]_vars
  BY DEF NoAdmissionAfterCancel
<1> HIDE DEF Closed
<1> QED
  BY <1>1, <1>2, BudgetInit, BudgetNext, PTL DEF Spec
=============================================================================
