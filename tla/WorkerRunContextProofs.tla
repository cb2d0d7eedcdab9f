----------------------- MODULE WorkerRunContextProofs -----------------------
(***************************************************************************)
(* Theorems of the run context: of its cancellation token and deadline,    *)
(* and of the token with the byte budget, for any threads, any number of   *)
(* calls, any timeouts, any clock, and any batches.                        *)
(***************************************************************************)
EXTENDS WorkerRunContext, ByteBudgetProofs

USE CallsAssumption, TimeoutsAssumption, MaxTimeAssumption, MaxInstantAssumption,
    NobodyAssumption

\* Inside a run the budget behaves as it does alone.
LEMMA BudgetWithin == [RunNext]_runVars => [Next]_vars
BY DEF RunNext, BudgetStep, TokenStep, RunCancels, UserCancels, OtherCall, runVars

\* And so does the token.
LEMMA TokenWithin == [RunNext]_runVars => [Token!Next]_(Token!vars)
<1>1. BudgetStep => UNCHANGED Token!vars
  BY DEF BudgetStep, tokenVars, Token!vars
<1>2. ASSUME NEW t \in Threads, RunCancels(t) \/ UserCancels(t) \/ OtherCall(t)
      PROVE  Token!Next
  BY <1>2 DEF RunCancels, UserCancels, OtherCall, Token!Next, Token!Ops
<1>3. TokenStep => Token!Next
  BY DEF TokenStep, Token!Next
<1>4. UNCHANGED runVars => UNCHANGED Token!vars
  BY DEF runVars, tokenVars, Token!vars
<1> QED
  BY <1>1, <1>2, <1>3, <1>4 DEF RunNext

\* A run is a behaviour of the budget and one of the token: what is proved of
\* ByteBudget's Spec holds of RunSpec too.
THEOREM RunComposesBoth == RunSpec => Spec /\ Token!Spec
<1>1. RunInit => Init /\ Token!Init
  BY DEF RunInit
<1> QED
  BY <1>1, BudgetWithin, TokenWithin, PTL DEF RunSpec, Spec, Token!Spec

-----------------------------------------------------------------------------
Holding == {"inside", "announce", "checked"}

\* wait_lock is held exactly by the thread in a critical section
LockInv == \A t \in Threads : pc[t] \in Holding <=> waitLock = t

\* What a thread in its critical section has done or read still holds, and the
\* deadline is None only while nobody has armed it
SectionInv ==
    /\ now <= MaxTime
    /\ armed <=> deadline # Token!None
    /\ \A t \in Threads :
        /\ pc[t] = "announce" => flag
        /\ pc[t] = "checked" => ~flag
        /\ pc[t] = "checked" /\ op[t] = "waitDeadline" => timer[t] = deadline

\* The inductive invariant.  NoLostNotice needs the lock: what a thread has
\* checked is still true when it parks because nobody else can be inside.
TokenInv == Token!TypeOK /\ LockInv /\ SectionInv /\ Token!NoLostNotice /\ Token!ToldOnlyIfCancelled

\* A fresh CancellationState.
LEMMA TokenInit == Token!Init => TokenInv
<1> SUFFICES ASSUME Token!Init
             PROVE  TokenInv
  OBVIOUS
<1>1. Token!TypeOK
  <2>1. /\ flag \in BOOLEAN /\ senderDropped \in BOOLEAN
        /\ deadline \in 0 .. MaxInstant \cup {Token!None}
        /\ waitLock \in Threads \cup {Nobody} /\ armed \in BOOLEAN
    BY DEF Token!Init
  <2>2. now \in Nat
    BY DEF Token!Init
  <2>3. op \in [Threads -> Token!Ops] /\ timer \in [Threads -> Token!Instant]
    BY DEF Token!Init, Token!Ops, Token!Instant
  <2>4. calls \in [Threads -> 0 .. Calls]
    BY DEF Token!Init
  <2> QED
    BY <2>1, <2>2, <2>3, <2>4 DEF Token!Init, Token!TypeOK
<1>2. LockInv /\ SectionInv /\ Token!NoLostNotice /\ Token!ToldOnlyIfCancelled
  BY DEF Token!Init, LockInv, SectionInv, Token!NoLostNotice, Token!ToldOnlyIfCancelled, Holding, Token!None
<1> QED
  BY <1>1, <1>2 DEF TokenInv

\* Every step of every thread, and of the clock, preserves it.
LEMMA TokenNext == TokenInv /\ [Token!Next]_(Token!vars) => TokenInv'
<1> SUFFICES ASSUME TokenInv, [Token!Next]_(Token!vars)
             PROVE  TokenInv'
  OBVIOUS
<1> USE DEF TokenInv, Token!TypeOK, LockInv, SectionInv, Token!NoLostNotice, Token!ToldOnlyIfCancelled, Holding,
        Token!Ops, Token!Waits, Token!Instant, Token!None, Token!Passed
<1>1. ASSUME NEW t \in Threads, NEW o \in Token!Ops, Token!Call(t, o)
      PROVE  TokenInv'
  BY <1>1 DEF Token!Call, Token!Return
<1>2. ASSUME NEW t \in Threads, Token!Lock(t)
      PROVE  TokenInv'
  BY <1>2 DEF Token!Lock, Token!LockFree
<1>3. ASSUME NEW t \in Threads, Token!CancelSwap(t)
      PROVE  TokenInv'
  BY <1>3 DEF Token!CancelSwap, Token!Inside, Token!Return
<1>4. ASSUME NEW t \in Threads, Token!CancelAnnounce(t)
      PROVE  TokenInv'
  BY <1>4 DEF Token!CancelAnnounce, Token!Return, Token!NotifyAll
<1>5. ASSUME NEW t \in Threads, Token!Arm(t)
      PROVE  TokenInv'
  BY <1>5 DEF Token!Arm, Token!Inside, Token!Return, Token!NotifyAll, Token!InstantAfter
<1>6. ASSUME NEW t \in Threads, Token!Disarm(t)
      PROVE  TokenInv'
  BY <1>6 DEF Token!Disarm, Token!Inside, Token!Return, Token!NotifyAll
<1>7. ASSUME NEW t \in Threads, Token!WaitReturns(t)
      PROVE  TokenInv'
  BY <1>7 DEF Token!WaitReturns, Token!Inside, Token!Return, Token!SeesDeadline
<1>8. ASSUME NEW t \in Threads, Token!TimedWaitEnds(t)
      PROVE  TokenInv'
  BY <1>8 DEF Token!TimedWaitEnds, Token!Inside
<1>9. ASSUME NEW t \in Threads, Token!Reread(t)
      PROVE  TokenInv'
  BY <1>9 DEF Token!Reread, Token!Return, Token!TimedOutcome
<1>10. ASSUME NEW t \in Threads, Token!Check(t)
       PROVE  TokenInv'
  BY <1>10 DEF Token!Check
<1>11. ASSUME NEW t \in Threads, Token!Park(t)
       PROVE  TokenInv'
  BY <1>11 DEF Token!Park
<1>12. ASSUME NEW t \in Threads, Token!Wakes(t)
       PROVE  TokenInv'
  BY <1>12 DEF Token!Wakes
<1>13. ASSUME NEW t \in Threads, Token!SelectReturns(t)
       PROVE  TokenInv'
  BY <1>13 DEF Token!SelectReturns, Token!Return
<1>14. CASE Token!Tick
  BY <1>14 DEF Token!Tick
<1>15. CASE UNCHANGED Token!vars
  BY <1>15 DEF Token!vars
<1> QED
  BY <1>1, <1>2, <1>3, <1>4, <1>5, <1>6, <1>7, <1>8, <1>9, <1>10, <1>11, <1>12, <1>13,
     <1>14, <1>15 DEF Token!Next, Token!Progress, Token!TimerFires

\* The invariant holds of every run, with a budget or without.
LEMMA TokenInvariant == RunSpec => []TokenInv
<1>1. RunInit => TokenInv
  BY TokenInit DEF RunInit
<1> QED
  BY <1>1, TokenNext, TokenWithin, PTL DEF RunSpec

\* Type correctness; in particular a deadline is always one the platform's
\* clock can represent (Deadline::arm).
THEOREM TokenTypeCorrect == RunSpec => []Token!TypeOK
<1>1. TokenInv => Token!TypeOK
  BY DEF TokenInv
<1> QED
  BY <1>1, TokenInvariant, PTL

\* No cancel, arm or disarm falls between a thread's predicate check and its
\* park, for any number of threads (CancellationToken, Deadline).
THEOREM TokenLosesNoWakeup == RunSpec => []NoLostNotice
<1>1. TokenInv => NoLostNotice
  BY DEF TokenInv, NoLostNotice
<1> QED
  BY <1>1, TokenInvariant, PTL

\* A wake-up, a return value or a disconnected signal that says "cancelled"
\* is never ahead of the flag (cancel swaps it before it takes the sender).
THEOREM TokenTellsTheTruth == RunSpec => []ToldOnlyIfCancelled
<1>1. TokenInv => ToldOnlyIfCancelled
  BY DEF TokenInv, ToldOnlyIfCancelled
<1> QED
  BY <1>1, TokenInvariant, PTL

-----------------------------------------------------------------------------
\* Who is inside the token's cancel for the run has closed the budget, and so
\* has whoever has set the flag
BudgetFirst ==
    budgeted /\ ~userCancelled =>
        /\ flag => cancelled
        /\ \A t \in Threads : op[t] = "cancel" /\ pc[t] # "idle" => cancelled

\* The inductive invariant: the token's connects who was told with the flag,
\* BudgetFirst the flag with the budget.
RunInv == BudgetInv /\ TokenInv /\ BudgetFirst

\* A budget is never reopened.
LEMMA BudgetClosesForGood == [Next]_vars => (cancelled => cancelled')
BY DEF Next, Enter, Reject, Admit, Park, SpuriousWake, Release, Cancel, CancelOnError,
       CloseBudget, vars

\* The flag is set from inside cancel only, where a thread gets by a call; the
\* run makes it after it has closed the budget.
LEMMA OrderIsKept == TokenInv /\ BudgetFirst /\ [RunNext]_runVars => BudgetFirst'
<1> SUFFICES ASSUME TokenInv, BudgetFirst, [RunNext]_runVars,
                    budgeted', ~userCancelled'
             PROVE  /\ flag' => cancelled'
                    /\ \A t \in Threads : op'[t] = "cancel" /\ pc'[t] # "idle" => cancelled'
  BY DEF BudgetFirst
<1>1. budgeted /\ ~userCancelled
  <2>1. \/ (budgeted' => budgeted) /\ (userCancelled => userCancelled')
        \/ \E t \in Threads : UserCancels(t)
    BY DEF RunNext, BudgetStep, TokenStep, RunCancels, OtherCall, runVars
  <2>2. ASSUME NEW t \in Threads, UserCancels(t)
        PROVE  FALSE
    BY <2>2 DEF UserCancels
  <2> QED
    BY <2>1, <2>2
<1>2. cancelled => cancelled'
  BY BudgetWithin, BudgetClosesForGood
<1>3. /\ op \in [Threads -> Token!Ops]
      /\ pc \in [Threads -> {"idle", "wants", "inside", "announce", "checked", "parked", "reread", "select"}]
  BY DEF TokenInv, Token!TypeOK
<1>4. /\ flag => cancelled
      /\ \A t \in Threads : op[t] = "cancel" /\ pc[t] # "idle" => cancelled
  BY <1>1 DEF BudgetFirst
<1>5. CASE UNCHANGED <<flag, op, pc>>
  BY <1>2, <1>4, <1>5
<1>6. ASSUME NEW t \in Threads, RunCancels(t)
      PROVE  cancelled'
  BY <1>1, <1>2, <1>6 DEF RunCancels, BudgetClosed
<1>7. ASSUME NEW t \in Threads, UserCancels(t)
      PROVE  FALSE
  BY <1>7 DEF UserCancels
<1>8. ASSUME NEW t \in Threads, OtherCall(t)
      PROVE  /\ UNCHANGED flag
             /\ \A u \in Threads : op'[u] = "cancel" /\ pc'[u] # "idle" =>
                  op[u] = "cancel" /\ pc[u] # "idle"
  BY <1>3, <1>8 DEF OtherCall, Token!Call
<1>9. ASSUME NEW t \in Threads, Token!CancelSwap(t)
      PROVE  cancelled'
  BY <1>2, <1>3, <1>4, <1>9 DEF Token!CancelSwap, Token!Inside
<1>10. ASSUME NEW t \in Threads,
              \/ Token!Lock(t) \/ Token!CancelAnnounce(t) \/ Token!Arm(t) \/ Token!Disarm(t)
              \/ Token!WaitReturns(t) \/ Token!TimedWaitEnds(t) \/ Token!Reread(t)
              \/ Token!Check(t) \/ Token!Park(t) \/ Token!Wakes(t) \/ Token!SelectReturns(t)
       PROVE  /\ UNCHANGED <<flag, op>>
              /\ \A u \in Threads : pc'[u] # "idle" => pc[u] # "idle"
  BY <1>3, <1>10 DEF Token!Lock, Token!CancelAnnounce, Token!Arm, Token!Disarm, Token!WaitReturns,
     Token!TimedWaitEnds, Token!Reread, Token!Check, Token!Park, Token!Wakes, Token!SelectReturns,
     Token!Inside, Token!NotifyAll
<1>11. BudgetStep \/ Token!Tick \/ UNCHANGED runVars => UNCHANGED <<flag, op, pc>>
  BY DEF BudgetStep, Token!Tick, runVars, tokenVars
<1> QED
  BY <1>2, <1>4, <1>5, <1>6, <1>7, <1>8, <1>9, <1>10, <1>11
     DEF RunNext, TokenStep, Token!Progress, Token!TimerFires

\* RunInv holds of every run.
LEMMA RunInvariant == RunSpec => []RunInv
<1>1. RunInit => RunInv
  <2>1. RunInit => BudgetFirst
    BY DEF RunInit, Token!Init, BudgetFirst
  <2> QED
    BY <2>1, BudgetInit, TokenInit DEF RunInit, RunInv
<1>2. RunInv /\ [RunNext]_runVars => RunInv'
  BY OrderIsKept, BudgetWithin, TokenWithin, BudgetNext, TokenNext DEF RunInv
<1> QED
  BY <1>1, <1>2, PTL DEF RunSpec

\* cancel_with_hook closes the budget before the token: whoever has learnt from
\* the token that the run was cancelled sees no more bytes granted.
THEOREM NoGrantFollowsTheTelling == RunSpec => NoGrantAfterTold
<1> DEFINE Refused ==
      budgeted /\ ~userCancelled /\ Told =>
          \A s \in Seqs : call'[s] = "held" => call[s] = "held"
<1>1. RunInv /\ [RunNext]_runVars => [Refused]_runVars
  <2> SUFFICES ASSUME RunInv, RunNext, budgeted, ~userCancelled, Told
               PROVE  \A s \in Seqs : call'[s] = "held" => call[s] = "held"
    OBVIOUS
  <2>1. flag
    BY DEF RunInv, TokenInv, Token!ToldOnlyIfCancelled, Told
  <2>2. cancelled /\ call \in [Seqs -> CallStates]
    BY <2>1 DEF RunInv, BudgetFirst, BudgetInv, TypeOK
  <2>3. CASE BudgetStep
    BY <2>2, <2>3, ClosedBudgetGrantsNothing DEF BudgetStep
  <2>4. CASE UNCHANGED vars
    BY <2>4 DEF vars
  <2> QED
    BY <2>3, <2>4 DEF RunNext, TokenStep, RunCancels, UserCancels, OtherCall
<1>2. NoGrantAfterTold <=> [][Refused]_runVars
  BY DEF NoGrantAfterTold
<1> HIDE DEF Refused
<1> QED
  BY <1>1, <1>2, RunInvariant, PTL DEF RunSpec
=============================================================================
