-------------------------- MODULE ScreenLockerProofs --------------------------
(***************************************************************************)
(* Proofs about the screen locker, for any budget of polls: the shared     *)
(* deadline, the fallback, that each of its steps is a step of             *)
(* LockContract or none, and that a call returns because its rounds run    *)
(* out.                                                                    *)
(***************************************************************************)
EXTENDS ScreenLocker, TLAPS

\* A task that sleeps is neither cancelled nor past the deadline, and none
\* sleeps between two calls.
SleepInv ==
  asleep => pc # "idle" /\ ~cancelled /\ left > 0

\* A sleep taken has used up an interval once it is over; one that is not over
\* yet will.  A cancelled task takes no more.
BudgetInv ==
  /\ SleepInv
  /\ sleeps <= Budget
  /\ asleep => sleeps + left <= Budget + 1
  /\ ~asleep /\ ~cancelled /\ pc # "idle" => sleeps + left <= Budget

\* The mechanism being awaited has been tried, and there is no answer yet.
FallbackInv ==
  /\ pc = "CGSession" => "CGSession" \in tried
  /\ pc # "idle" => answer = "none"
  /\ FailureOnlyAfterFallback

\* Every step keeps the types.
LEMMA TypeStep == TypeOK /\ [Next]_vars => TypeOK'
<1> SUFFICES ASSUME TypeOK, [Next]_vars PROVE TypeOK'
  OBVIOUS
<1> USE BudgetAssumption DEF BudgetAssumption, TypeOK, Mechanisms
<1>1. CASE Call
  <2>1. left' \in 0 .. Budget /\ sleeps' \in Nat
    BY <1>1 DEF Call
  <2>2. /\ pc' \in Mechanisms
        /\ requests' \in SUBSET Mechanisms
        /\ tried' \in SUBSET Mechanisms
    BY <1>1 DEF Call, Invoke
  <2> QED
    BY <1>1, <2>1, <2>2 DEF Call
<1>2. CASE Poll
  <2>1. sleeps' \in Nat
    BY <1>2 DEF Poll
  <2>2. /\ pc' \in Mechanisms \cup {"idle"}
        /\ requests' \in SUBSET Mechanisms
        /\ tried' \in SUBSET Mechanisms
        /\ answer' \in {"none", "locked", "failed"}
    BY <1>2 DEF Poll, FallThrough, Return, Invoke
  <2> QED
    BY <1>2, <2>1, <2>2 DEF Poll, FallThrough, Return
<1>3. CASE Wake
  <2>1. left' \in 0 .. Budget
    BY <1>3 DEF Wake
  <2> QED
    BY <1>3, <2>1 DEF Wake
<1>4. CASE Cancel
  BY <1>4 DEF Cancel
<1>5. ASSUME NEW m \in Mechanisms, TakeEffect(m) PROVE TypeOK'
  BY <1>5 DEF TakeEffect, Sessions
<1>6. CASE SessionChanges
  BY <1>6 DEF SessionChanges
<1>7. CASE UNCHANGED vars
  BY <1>7 DEF vars
<1> QED
  BY <1>1, <1>2, <1>3, <1>4, <1>5, <1>6, <1>7 DEF Next

\* Every variable keeps its type (ScreenLocker.swift:40-79).
THEOREM LockerTypeCorrect == Spec => []TypeOK
<1>1. Init => TypeOK
  <2> SUFFICES ASSUME Init PROVE TypeOK
    OBVIOUS
  <2>1. left \in 0 .. Budget /\ sleeps \in Nat
    BY BudgetAssumption DEF BudgetAssumption, Init
  <2>2. requests \in SUBSET Mechanisms /\ tried \in SUBSET Mechanisms
    BY DEF Init
  <2> QED
    BY <2>1, <2>2 DEF Init, TypeOK, Sessions
<1> QED
  BY <1>1, TypeStep, PTL DEF Spec

\* Every step keeps the account of the budget.
LEMMA BudgetStep == TypeOK /\ BudgetInv /\ [Next]_vars => BudgetInv'
<1> SUFFICES ASSUME TypeOK, BudgetInv, [Next]_vars PROVE BudgetInv'
  OBVIOUS
<1> USE BudgetAssumption DEF BudgetAssumption, TypeOK, BudgetInv, SleepInv, Mechanisms
<1>1. CASE Call
  BY <1>1 DEF Call, Invoke
<1>2. CASE Poll
  <2>1. CASE PollAgain
    BY <1>2, <2>1 DEF Poll, PollAgain
  <2>2. CASE ~PollAgain
    BY <1>2, <2>2 DEF Poll, FallThrough, Return, Invoke
  <2> QED
    BY <2>1, <2>2
<1>3. CASE Wake
  <2>1. left \in Int /\ sleeps \in Int /\ Budget \in Int
    OBVIOUS
  <2>2. left' \in Int /\ left' <= left - 1
    BY <1>3 DEF Wake
  <2>3. sleeps + left <= Budget + 1
    BY <1>3 DEF Wake
  <2>4. \A a, b, c, d \in Int : a + b <= c + 1 /\ d <= b - 1 => a + d <= c
    OBVIOUS
  <2>5. sleeps + left' <= Budget
    BY <2>1, <2>2, <2>3, <2>4
  <2> QED
    BY <1>3, <2>5 DEF Wake
<1>4. CASE Cancel
  BY <1>4 DEF Cancel
<1>5. ASSUME NEW m \in Mechanisms, TakeEffect(m) PROVE BudgetInv'
  BY <1>5 DEF TakeEffect
<1>6. CASE SessionChanges
  BY <1>6 DEF SessionChanges
<1>7. CASE UNCHANGED vars
  BY <1>7 DEF vars
<1> QED
  BY <1>1, <1>2, <1>3, <1>4, <1>5, <1>6, <1>7 DEF Next

\* Both mechanisms together sleep no more often than one budget allows
\* (ScreenLocker.swift:54-57,165-171).
THEOREM SharedDeadlineHolds == Spec => []SharedDeadline
<1>1. Init => BudgetInv
  BY BudgetAssumption DEF BudgetAssumption, Init, BudgetInv, SleepInv
<1>2. BudgetInv => SharedDeadline
  BY DEF BudgetInv, SharedDeadline
<1> QED
  BY <1>1, <1>2, BudgetStep, LockerTypeCorrect, PTL DEF Spec

\* Every step keeps the record of the mechanisms.
LEMMA FallbackStep == TypeOK /\ FallbackInv /\ [Next]_vars => FallbackInv'
<1> SUFFICES ASSUME TypeOK, FallbackInv, [Next]_vars PROVE FallbackInv'
  OBVIOUS
<1> USE DEF TypeOK, FallbackInv, FailureOnlyAfterFallback, Mechanisms
<1>1. CASE Call
  BY <1>1 DEF Call, Invoke
<1>2. CASE Poll
  BY <1>2 DEF Poll, FallThrough, Return, Invoke
<1>3. CASE Wake
  BY <1>3 DEF Wake
<1>4. CASE Cancel
  BY <1>4 DEF Cancel
<1>5. ASSUME NEW m \in Mechanisms, TakeEffect(m) PROVE FallbackInv'
  BY <1>5 DEF TakeEffect
<1>6. CASE SessionChanges
  BY <1>6 DEF SessionChanges
<1>7. CASE UNCHANGED vars
  BY <1>7 DEF vars
<1> QED
  BY <1>1, <1>2, <1>3, <1>4, <1>5, <1>6, <1>7 DEF Next

\* lock() reports failure only after the fallback was tried, cancelled or not
\* (ScreenLocker.swift:59-76).
THEOREM FailureOnlyAfterFallbackHolds == Spec => []FailureOnlyAfterFallback
<1>1. Init => FallbackInv
  BY DEF Init, FallbackInv, FailureOnlyAfterFallback
<1>2. FallbackInv => FailureOnlyAfterFallback
  BY DEF FallbackInv
<1> QED
  BY <1>1, <1>2, FallbackStep, LockerTypeCorrect, PTL DEF Spec

-----------------------------------------------------------------------------
(***************************************************************************)
(* The refinement, but for its fairness.                                   *)
(***************************************************************************)
\* A call begins, the session changes, an answer is given that is true at that
\* moment, or the contract sees nothing of the step.
LEMMA ContractStep ==
  TypeOK /\ FallbackInv /\ [Next]_vars => [Contract!Next]_(Contract!vars)
<1> SUFFICES ASSUME TypeOK, FallbackInv, [Next]_vars
             PROVE  Contract!Next \/ UNCHANGED Contract!vars
  OBVIOUS
<1> USE DEF TypeOK, Contract!vars
<1>1. CASE Call
  <2>1. Contract!Begin
    BY <1>1 DEF Call, Invoke, Mechanisms, Contract!Begin
  <2> QED
    BY <2>1 DEF Contract!Next
<1>2. CASE Poll
  <2>1. CASE PollAgain
    BY <1>2, <2>1 DEF Poll
  <2>2. CASE ~PollAgain /\ pc = "SAC" /\ ~IsScreenLockedNow
    BY <1>2, <2>2 DEF Poll, FallThrough, Invoke
  <2>3. CASE ~PollAgain /\ ~(pc = "SAC" /\ ~IsScreenLockedNow)
    <3>1. Contract!Finish
      BY <1>2, <2>3 DEF Poll, Return, IsScreenLockedNow, Contract!Finish
    <3> QED
      BY <3>1 DEF Contract!Next
  <2> QED
    BY <2>1, <2>2, <2>3
<1>3. CASE Wake
  BY <1>3 DEF Wake
<1>4. CASE Cancel
  BY <1>4 DEF Cancel
<1>5. ASSUME NEW m \in Mechanisms, TakeEffect(m) PROVE Contract!Next
  <2>1. Contract!Change
    BY <1>5 DEF TakeEffect, Sessions, Contract!Change
  <2> QED
    BY <2>1 DEF Contract!Next
<1>6. CASE SessionChanges
  <2>1. Contract!Change
    BY <1>6 DEF SessionChanges, Contract!Change
  <2> QED
    BY <2>1 DEF Contract!Next
<1>7. CASE UNCHANGED vars
  BY <1>7 DEF vars
<1> QED
  BY <1>1, <1>2, <1>3, <1>4, <1>5, <1>6, <1>7 DEF Next

\* What the contract forbids, the locker never does: it answers once per call,
\* and with the state of the session (ScreenLocker.swift:33-38,72-78).
THEOREM LockerStepsAreContractSteps ==
  Spec => Contract!Init /\ [][Contract!Next]_(Contract!vars)
<1>1. Init => Contract!Init
  BY DEF Init, Contract!Init, Sessions
<1>2. Init => FallbackInv
  BY DEF Init, FallbackInv, FailureOnlyAfterFallback
<1> QED
  BY <1>1, <1>2, ContractStep, FallbackStep, LockerTypeCorrect, PTL DEF Spec

-----------------------------------------------------------------------------
(***************************************************************************)
(* Every call returns.  That an action whose guard holds is enabled is a   *)
(* premise, since the provers have no rule for ENABLED: TLC evaluates it   *)
(* in the states of a run.                                                 *)
(***************************************************************************)
DueIsEnabled ==
  /\ pc # "idle" /\ ~asleep => ENABLED <<Poll>>_vars
  /\ pc # "idle" /\ asleep /\ left > 0 => ENABLED <<Wake>>_vars

\* What is left of a call: the mechanism to fall through to, the intervals of
\* the budget with a poll and a sleep each, and a cancellation, which cuts a
\* sleep short.
Rounds ==
  IF pc = "idle" THEN 0
  ELSE 1 + (IF pc = "SAC" THEN 1 ELSE 0) + 2 * left + (IF asleep THEN 0 ELSE 1)
         + (IF cancelled THEN 0 ELSE 2)

\* A call in progress has at least one round left, and at most two for each
\* interval of the budget and five.
LEMMA RoundsBounded ==
  ASSUME TypeOK
  PROVE  /\ Rounds \in Nat
         /\ Rounds > 0 <=> pc # "idle"
         /\ Rounds <= 2 * Budget + 5
<1>1. left \in Nat /\ left <= Budget /\ Budget \in Nat
  BY BudgetAssumption DEF BudgetAssumption, TypeOK
<1> QED
  BY <1>1 DEF Rounds

\* A call in progress loses a round by its polls and by its sleeps, and by
\* nothing that happens meanwhile does it gain one.
LEMMA RoundsStep ==
  ASSUME TypeOK, TypeOK', SleepInv, [Next]_vars, pc # "idle", pc' # "idle"
  PROVE  /\ Rounds' < Rounds \/ (Rounds' = Rounds /\ (asleep' <=> asleep))
         /\ Poll \/ Wake => Rounds' < Rounds
<1>0. /\ left \in Nat /\ left' \in Nat
      /\ asleep \in BOOLEAN /\ cancelled \in BOOLEAN
  BY BudgetAssumption DEF BudgetAssumption, TypeOK
<1>1. CASE Poll
  <2>1. CASE PollAgain
    <3>1. /\ ~asleep /\ asleep' /\ pc' = pc /\ left' = left
          /\ cancelled' = cancelled
      BY <1>1, <2>1 DEF Poll
    <3> QED
      BY <1>0, <3>1 DEF Rounds
  <2>2. CASE ~PollAgain
    <3>1. /\ ~asleep /\ asleep' = asleep /\ left' = left /\ cancelled' = cancelled
          /\ pc = "SAC" /\ pc' = "CGSession"
      BY <1>1, <2>2 DEF Poll, FallThrough, Return, Invoke
    <3> QED
      BY <1>0, <3>1 DEF Rounds
  <2> QED
    BY <2>1, <2>2
<1>2. CASE Wake
  <2>1. /\ asleep /\ ~asleep' /\ left' <= left - 1 /\ pc' = pc
        /\ cancelled' = cancelled
    BY <1>0, <1>2 DEF Wake
  <2>2. \A a, b, c, d \in Int :
          a <= b - 1 => c + 2 * a + 1 + d < c + 2 * b + d
    OBVIOUS
  <2> DEFINE first == 1 + (IF pc = "SAC" THEN 1 ELSE 0)
             last == IF cancelled THEN 0 ELSE 2
  <2>3. first \in Int /\ last \in Int /\ first' = first /\ last' = last
    BY <2>1
  <2>4. Rounds = first + 2 * left + last /\ Rounds' = first + 2 * left' + 1 + last
    BY <1>0, <2>1, <2>3 DEF Rounds
  <2> HIDE DEF first, last
  <2>5. first + 2 * left' + 1 + last < first + 2 * left + last
    <3>1. left \in Int /\ left' \in Int /\ left' <= left - 1
      BY <1>0, <2>1
    <3> QED
      BY <2>2, <2>3, <3>1
  <2> QED
    BY <2>4, <2>5
<1>3. CASE Cancel
  <2>1. ~cancelled /\ cancelled' /\ ~asleep' /\ pc' = pc /\ left' = left
    BY <1>3 DEF Cancel
  <2>2. Rounds' < Rounds
    <3>1. CASE asleep
      BY <1>0, <2>1, <3>1 DEF Rounds
    <3>2. CASE ~asleep
      BY <1>0, <2>1, <3>2 DEF Rounds
    <3> QED
      BY <3>1, <3>2
  <2> QED
    BY <2>2
<1>4. CASE (\E m \in Mechanisms : TakeEffect(m)) \/ SessionChanges \/ UNCHANGED vars
  <2>1. UNCHANGED <<pc, asleep, left, cancelled>>
    BY <1>4 DEF TakeEffect, SessionChanges, vars
  <2>2. ~Wake
    <3> SUFFICES ASSUME Wake PROVE FALSE
      OBVIOUS
    <3>1. asleep = TRUE /\ asleep' = FALSE
      BY DEF Wake, TypeOK
    <3> QED
      BY <2>1, <3>1
  <2>3. CASE Poll
    BY <1>1, <2>3
  <2>4. Rounds' = Rounds
    BY <2>1 DEF Rounds
  <2>5. asleep' <=> asleep
    BY <2>1
  <2> QED
    BY <2>2, <2>3, <2>4, <2>5
<1>5. ~Call
  BY DEF Call
<1> QED
  BY <1>1, <1>2, <1>3, <1>4, <1>5 DEF Next

\* A call with at most k rounds left; that it is over in the end, as names for
\* the provers.
Within(k) == pc # "idle" /\ Rounds <= k
Over == <>(pc = "idle")
Finishes(k) == [](Within(k) => Over)

\* The account of the budget, which the rounds rest on.
LEMMA LockerInvariant == Spec => [](TypeOK /\ SleepInv)
<1>1. Init => BudgetInv
  BY BudgetAssumption DEF BudgetAssumption, Init, BudgetInv, SleepInv
<1>2. BudgetInv => SleepInv
  BY DEF BudgetInv
<1> QED
  BY <1>1, <1>2, BudgetStep, LockerTypeCorrect, PTL DEF Spec

\* The induction step of the argument that a call returns, for any budget: a
\* call that ends when k rounds are left ends when k + 1 are, since it polls
\* or wakes, and since neither macOS, nor the user, nor a cancellation gives it
\* a round more (ScreenLocker.swift:54-79,165-171).
THEOREM CallGetsOn ==
  ASSUME NEW k \in Nat
  PROVE  Spec /\ []DueIsEnabled => (Finishes(k) => Finishes(k + 1))
<1> DEFINE Inv == TypeOK /\ SleepInv
           Last == pc # "idle" /\ Rounds = k + 1
           Awake == Last /\ asleep = FALSE
           Asleep == Last /\ asleep = TRUE
           Less == Within(k)
           Gone == pc = "idle"
<1>1. Inv => (Within(k + 1) => Less \/ Awake \/ Asleep)
  BY RoundsBounded DEF Within, TypeOK
<1>2. TypeOK' => (Rounds \in Nat)'
  <2>1. TypeOK => Rounds \in Nat
    BY RoundsBounded
  <2> QED
    BY <2>1, PTL
<1>3. ASSUME Inv, Inv', [Next]_vars, Last
      PROVE  /\ Less' \/ Gone' \/ (Last' /\ (asleep' <=> asleep))
             /\ Poll \/ Wake => Less' \/ Gone'
  <2> SUFFICES ASSUME pc' # "idle"
               PROVE  /\ Rounds' <= k \/ (Rounds' = k + 1 /\ (asleep' <=> asleep))
                      /\ Poll \/ Wake => Rounds' <= k
    BY DEF Within
  <2>1. Rounds' < Rounds => Rounds' <= k
    BY <1>2, <1>3
  <2> QED
    BY <1>3, <2>1, RoundsStep
<1>4. /\ Inv /\ Inv' /\ [Next]_vars /\ Awake => Awake' \/ Less' \/ Gone'
      /\ Inv /\ Inv' /\ [Next]_vars /\ Asleep => Asleep' \/ Less' \/ Gone'
  <2>1. ASSUME Inv, Inv', [Next]_vars, Last
        PROVE  \/ Less' \/ Gone'
               \/ Last' /\ asleep' = FALSE /\ asleep = FALSE
               \/ Last' /\ asleep' = TRUE /\ asleep = TRUE
    <3> asleep \in BOOLEAN /\ asleep' \in BOOLEAN
      BY <2>1 DEF TypeOK
    <3> HIDE DEF Last, Less, Gone
    <3> QED
      BY <1>3, <2>1
  <2> HIDE DEF Inv, Last, Less, Gone
  <2> QED
    BY <2>1
<1>5. /\ Inv /\ Inv' /\ Awake /\ <<Next /\ Poll>>_vars => Less' \/ Gone'
      /\ Inv /\ Inv' /\ Asleep /\ <<Next /\ Wake>>_vars => Less' \/ Gone'
  <2> HIDE DEF Inv, Last, Less, Gone
  <2> QED
    BY <1>3
<1>6. /\ <<Poll>>_vars => <<Next /\ Poll>>_vars
      /\ <<Wake>>_vars => <<Next /\ Wake>>_vars
  BY DEF Next
<1>7. /\ DueIsEnabled /\ Inv /\ Awake => ENABLED <<Poll>>_vars
      /\ DueIsEnabled /\ Inv /\ Asleep => ENABLED <<Wake>>_vars
  BY DEF DueIsEnabled, SleepInv
<1>8. Spec => []Inv
  BY LockerInvariant
<1> HIDE DEF Inv, Last, Awake, Asleep, Less, Gone
<1>9. Spec /\ []DueIsEnabled => (Awake ~> (Less \/ Gone))
  BY <1>4, <1>5, <1>6, <1>7, <1>8, PTL DEF Spec
<1>10. Spec /\ []DueIsEnabled => (Asleep ~> (Less \/ Gone))
  BY <1>4, <1>5, <1>6, <1>7, <1>8, PTL DEF Spec
<1> QED
  BY <1>1, <1>8, <1>9, <1>10, PTL DEF Finishes, Over, Less, Gone

\* A call has two rounds for each interval of its budget and five more, so it
\* returns once that many of the above are put together.  Here they are for up
\* to two thousand intervals -- the program has three seconds in tenths
\* (ScreenLocker.swift:54-57,181-195).
THEOREM CallReturnsHolds ==
  ASSUME Budget <= 2000
  PROVE  Spec /\ []DueIsEnabled => (pc # "idle" ~> pc = "idle")
<1>1. Spec /\ []DueIsEnabled => Finishes(0)
  <2>1. TypeOK => ~Within(0)
    BY RoundsBounded DEF Within
  <2> QED
    BY <2>1, LockerTypeCorrect, PTL DEF Finishes
<1>2. \A k \in Nat : Spec /\ []DueIsEnabled => (Finishes(k) => Finishes(k + 1))
  BY CallGetsOn
<1>3. Spec /\ []DueIsEnabled => Finishes(4096)
  <2> DEFINE Gains(n) == \A k \in Nat :
               Spec /\ []DueIsEnabled => (Finishes(k) => Finishes(k + n))
  <2>1. Gains(8)
    BY <1>2
  <2>2. Gains(64)
    BY <2>1
  <2>3. Gains(512)
    BY <2>2
  <2>4. Gains(4096)
    BY <2>3
  <2> QED
    BY <1>1, <2>4
<1>4. TypeOK => (pc # "idle" => Within(4096))
  BY RoundsBounded, BudgetAssumption DEF BudgetAssumption, Within
<1> QED
  BY <1>3, <1>4, LockerTypeCorrect, PTL DEF Finishes, Over

\* The refinement, with its fairness: every call returns, and with
\* the session's true state as its answer (ScreenLocker.swift:33-38,54-79).
\* The contract's own guard is the second premise about ENABLED.
THEOREM LockerImplementsContract ==
  ASSUME Budget <= 2000
  PROVE  Spec /\ []DueIsEnabled /\ []Contract!FinishIsDue => ImplementsContract
<1> DEFINE CanFinish == ENABLED <<Contract!Finish>>_(Contract!vars)
<1>1. Spec /\ []DueIsEnabled => []<>(pc = "idle")
  <2>1. Spec /\ []DueIsEnabled => (pc # "idle" ~> pc = "idle")
    BY CallReturnsHolds
  <2>2. pc # "idle" \/ pc = "idle"
    OBVIOUS
  <2> QED
    BY <2>1, <2>2, PTL
<1>2. Contract!FinishIsDue => (pc = "idle" => ~CanFinish)
  BY DEF Contract!FinishIsDue
<1> QED
  BY <1>1, <1>2, LockerStepsAreContractSteps, PTL
  DEF ImplementsContract, Contract!Spec

=============================================================================
