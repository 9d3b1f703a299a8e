------------------------- MODULE PresenceEngineProofs -------------------------
(***************************************************************************)
(* Theorems about PresenceEngine, for any number of tasks and any values   *)
(* of the tunables.                                                        *)
(***************************************************************************)
EXTENDS PresenceEngine, TLAPS

-----------------------------------------------------------------------------
(***************************************************************************)
(* Type correctness.  The two effects that several actions share, a        *)
(* cleared and a counted absence, get a lemma each.                        *)
(***************************************************************************)
LEMMA EndTickType ==
  ASSUME TypeOK, NEW t \in Loops, EndTick(t)
  PROVE  pc' \in [Tasks -> TaskStep] /\ time' \in [Loops -> Times]
BY ConfigAssumption DEF TypeOK, EndTick, TaskStep, Times, Tasks

LEMMA MarkPresentType ==
  ASSUME TypeOK, NEW t \in Loops, NEW s \in PresenceState, MarkPresent(t, s)
  PROVE  /\ state' \in PresenceState
         /\ consecutiveAbsentTicks' \in Nat
         /\ consecutiveErrorTicks' \in Nat
         /\ absentSince' \in Times \cup {Never}
         /\ lockAttempted' \in BOOLEAN
         /\ isLocking' \in BOOLEAN
         /\ callAssumedSince' \in Times \cup {Never}
         /\ pc' \in [Tasks -> TaskStep]
         /\ time' \in [Loops -> Times]
         /\ clearedAt' \in Times
         /\ attempts' \in Nat
         /\ held' \in Nat
<1>1. EndTick(t)
  BY DEF MarkPresent
<1>2. pc' \in [Tasks -> TaskStep] /\ time' \in [Loops -> Times]
  BY <1>1, EndTickType
<1>3. QED
  BY <1>2 DEF TypeOK, MarkPresent, ResetAbsenceAccounting, NoteCleared

LEMMA MarkAbsentType ==
  ASSUME TypeOK, NEW t \in Loops, MarkAbsent(t)
  PROVE  /\ state' \in PresenceState
         /\ consecutiveAbsentTicks' \in Nat
         /\ consecutiveErrorTicks' \in Nat
         /\ absentSince' \in Times \cup {Never}
         /\ lockAttempted' \in BOOLEAN
         /\ isLocking' \in BOOLEAN
         /\ pc' \in [Tasks -> TaskStep]
         /\ time' \in [Loops -> Times]
         /\ clearedAt' \in Times
         /\ attempts' \in Nat
         /\ held' \in Nat
<1>1. pc' \in [Tasks -> TaskStep] /\ time' \in [Loops -> Times]
  <2>1. CASE Fires(t) /\ ~isLocking
    BY <2>1 DEF MarkAbsent, TypeOK, TaskStep
  <2>2. CASE ~(Fires(t) /\ ~isLocking)
    BY <2>2, EndTickType DEF MarkAbsent
  <2>3. QED
    BY <2>1, <2>2
<1>2. absentSince' \in Times \cup {Never}
  BY DEF MarkAbsent, SinceNow, TypeOK
<1>3. lockAttempted' \in BOOLEAN /\ isLocking' \in BOOLEAN
  BY DEF MarkAbsent, TypeOK
<1>4. state' \in PresenceState
  BY DEF MarkAbsent, TypeOK, PresenceState
<1>5. QED
  BY <1>1, <1>2, <1>3, <1>4 DEF MarkAbsent, AbsentNow, NoteHeld, TypeOK

LEMMA TypeInit == Init => TypeOK
<1> SUFFICES ASSUME Init
             PROVE  TypeOK
  OBVIOUS
<1>1. 0 \in Times /\ 0 \in Nat
  BY ConfigAssumption DEF Times
<1>2. pc \in [Tasks -> TaskStep]
  BY DEF Init, TaskStep
<1>3. time \in [Loops -> Times]
  BY <1>1 DEF Init
<1>4. state \in PresenceState
  BY DEF Init, PresenceState
<1>5. QED
  BY <1>1, <1>2, <1>3, <1>4 DEF Init, TypeOK

LEMMA TypeStep == TypeOK /\ [Next]_vars => TypeOK'
<1> SUFFICES ASSUME TypeOK, [Next]_vars
             PROVE  TypeOK'
  OBVIOUS
<1>1. ASSUME NEW t \in Loops, StartLoop(t)
      PROVE  TypeOK'
  BY <1>1 DEF StartLoop, TypeOK, TaskStep, accounting, history
<1>2. ASSUME NEW t \in Loops, BeginTick(t)
      PROVE  TypeOK'
  BY <1>2 DEF BeginTick, TypeOK, TaskStep, accounting, history
<1>3. ASSUME NEW t \in Loops, NEW s \in {"suspended", "cameraUnavailable"},
             CaptureNothing(t, s)
      PROVE  TypeOK'
  <2>1. s \in PresenceState /\ MarkPresent(t, s)
    BY <1>3 DEF CaptureNothing, PresenceState
  <2>2. QED
    BY <1>3, <2>1, MarkPresentType
       DEF CaptureNothing, TypeOK, NoteReading, NoteNotBusy
<1>4. ASSUME NEW t \in Loops, CaptureBusy(t)
      PROVE  TypeOK'
  <2>1. callAssumedSince' \in Times \cup {Never}
    BY <1>4 DEF CaptureBusy, WindowStart, TypeOK
  <2>2. intruded' \in BOOLEAN /\ busyRun' \in Nat /\ callFrom' \in Times
    BY <1>4 DEF CaptureBusy, NoteReading, TypeOK
  <2>3. loopTask' \in Loops \cup {NoTask} /\ clock' \in Times
    BY <1>4 DEF CaptureBusy, TypeOK
  <2>4. CASE time[t] - WindowStart(t) >= MaxCall
    <3>1. MarkAbsent(t)
      BY <1>4, <2>4 DEF CaptureBusy
    <3>2. QED
      BY <2>1, <2>2, <2>3, <3>1, MarkAbsentType DEF TypeOK
  <2>5. CASE ~(time[t] - WindowStart(t) >= MaxCall)
    <3>1. EndTick(t)
      BY <1>4, <2>5 DEF CaptureBusy
    <3>2. pc' \in [Tasks -> TaskStep] /\ time' \in [Loops -> Times]
      BY <3>1, EndTickType
    <3>3. /\ state' = "callAssumedPresent"
          /\ consecutiveAbsentTicks' = 0 /\ consecutiveErrorTicks' = 0
          /\ absentSince' = Never
          /\ lockAttempted' = FALSE /\ isLocking' = isLocking
          /\ clearedAt' = clock /\ attempts' = 0 /\ held' = 0
      BY <1>4, <2>5 DEF CaptureBusy, NoteCleared
    <3>4. QED
      BY <2>1, <2>2, <2>3, <3>2, <3>3 DEF TypeOK, PresenceState
  <2>6. QED
    BY <2>4, <2>5
<1>5. ASSUME NEW t \in Loops, CaptureFrame(t)
      PROVE  TypeOK'
  BY <1>5 DEF CaptureFrame, TypeOK, TaskStep, NoteReading, NoteNotBusy
<1>6. ASSUME NEW t \in Loops, RecognizePresent(t)
      PROVE  TypeOK'
  <2>1. "present" \in PresenceState /\ MarkPresent(t, "present")
    BY <1>6 DEF RecognizePresent, PresenceState
  <2>2. QED
    BY <1>6, <2>1, MarkPresentType
       DEF RecognizePresent, TypeOK, NoteReading, NoteNotBusy
<1>7. ASSUME NEW t \in Loops, RecognizeAbsent(t)
      PROVE  TypeOK'
  BY <1>7, MarkAbsentType DEF RecognizeAbsent, TypeOK, NoteReading
<1>8. ASSUME NEW t \in Loops, RecognizeError(t)
      PROVE  TypeOK'
  <2>1. CASE ErrorsExhausted
    BY <1>8, <2>1, MarkAbsentType DEF RecognizeError, TypeOK, NoteReading
  <2>2. CASE ~ErrorsExhausted
    <3>1. EndTick(t)
      BY <1>8, <2>2 DEF RecognizeError
    <3>2. pc' \in [Tasks -> TaskStep] /\ time' \in [Loops -> Times]
      BY <3>1, EndTickType
    <3>3. QED
      BY <1>8, <2>2, <3>2 DEF RecognizeError, TypeOK, NoteHeld, NoteReading
  <2>3. QED
    BY <2>1, <2>2
<1>9. ASSUME NEW m \in Menus, LockNow(m)
      PROVE  TypeOK'
  BY <1>9 DEF LockNow, TypeOK, TaskStep, accounting, history
<1>10. ASSUME NEW t \in Tasks, NEW ok \in BOOLEAN, LockReturns(t, ok)
       PROVE  TypeOK'
  <2>1. pc' \in [Tasks -> TaskStep] /\ time' \in [Loops -> Times]
    BY <1>10, EndTickType DEF LockReturns, TypeOK, TaskStep
  <2>2. /\ state' \in PresenceState
        /\ consecutiveAbsentTicks' \in Nat
        /\ absentSince' \in Times \cup {Never}
        /\ held' \in Nat
    BY <1>10 DEF LockReturns, TypeOK, PresenceState
  <2>3. QED
    BY <1>10, <2>1, <2>2 DEF LockReturns, TypeOK
<1>11. ASSUME NEW s \in DisabledState, Disable(s)
       PROVE  TypeOK'
  <2>1. pc' \in [Tasks -> TaskStep]
    BY <1>11 DEF Disable, TypeOK, TaskStep
  <2>2. time' \in [Loops -> Times]
    BY <1>11, ConfigAssumption DEF Disable, TypeOK, Times
  <2>3. QED
    BY <1>11, <2>1, <2>2
       DEF Disable, TypeOK, PresenceState, DisabledState,
           ResetAbsenceAccounting, NoteCleared, NoteNotBusy
<1>12. CASE Advance
  BY <1>12, ConfigAssumption DEF Advance, TypeOK, Times, accounting, history
<1>13. CASE UNCHANGED vars
  BY <1>13 DEF vars, TypeOK, accounting, history
<1>14. QED
  BY <1>1, <1>2, <1>3, <1>4, <1>5, <1>6, <1>7, <1>8, <1>9, <1>10, <1>11,
     <1>12, <1>13 DEF Next, Tick

\* Every reachable state is well typed.
THEOREM TypeCorrect == Spec => []TypeOK
<1>1. Init => TypeOK
  BY TypeInit
<1>2. TypeOK /\ [Next]_vars => TypeOK'
  BY TypeStep
<1>3. QED
  BY <1>1, <1>2, PTL DEF Spec

-----------------------------------------------------------------------------
(***************************************************************************)
(* The lock.  With respect to isLocking and to who is inside lock(), every *)
(* step is one of four kinds; the theorems about locking follow from that. *)
(***************************************************************************)
LockStays ==
  /\ isLocking' = isLocking
  /\ \A u \in Tasks : pc'[u] = "locking" <=> pc[u] = "locking"

LockStarts(t) ==
  /\ ~isLocking
  /\ isLocking' = TRUE
  /\ \A u \in Tasks : pc'[u] = "locking" <=> (pc[u] = "locking" \/ u = t)

LockEnds(t) ==
  /\ pc[t] = "locking"
  /\ isLocking' = FALSE
  /\ \A u \in Tasks : pc'[u] = "locking" <=> (pc[u] = "locking" /\ u # t)

\* The running loop's tick decides to lock.
LoopLocks(t) ==
  /\ LockStarts(t)
  /\ pc[t] \in {"capturing", "recognizing"}
  /\ Fires(t)

LockStep ==
  \/ LockStays
  \/ \E t \in Tasks : LockEnds(t)
  \/ \E m \in Menus : LockStarts(m)
  \/ \E t \in Loops : LoopLocks(t)

LEMMA EndTickLock ==
  ASSUME TypeOK, NEW t \in Loops, EndTick(t)
  PROVE  \A u \in Tasks : pc'[u] = "locking" <=> (pc[u] = "locking" /\ u # t)
BY DEF TypeOK, EndTick, Tasks

LEMMA MarkPresentLock ==
  ASSUME TypeOK, NEW t \in Loops, pc[t] \in {"capturing", "recognizing"},
         NEW s, MarkPresent(t, s)
  PROVE  LockStays
BY EndTickLock DEF MarkPresent, LockStays, Tasks

LEMMA MarkAbsentLock ==
  ASSUME TypeOK, NEW t \in Loops, pc[t] \in {"capturing", "recognizing"},
         MarkAbsent(t)
  PROVE  LockStays \/ LoopLocks(t)
<1>1. CASE Fires(t) /\ ~isLocking
  BY <1>1 DEF MarkAbsent, LoopLocks, LockStarts, TypeOK, Tasks
<1>2. CASE ~(Fires(t) /\ ~isLocking)
  BY <1>2, EndTickLock DEF MarkAbsent, LockStays, Tasks
<1>3. QED
  BY <1>1, <1>2

LEMMA LockSteps == TypeOK /\ [Next]_vars => LockStep
<1> SUFFICES ASSUME TypeOK, [Next]_vars
             PROVE  LockStep
  OBVIOUS
<1>1. ASSUME NEW t \in Loops, StartLoop(t)
      PROVE  LockStays
  BY <1>1 DEF StartLoop, LockStays, TypeOK, Tasks
<1>2. ASSUME NEW t \in Loops, BeginTick(t)
      PROVE  LockStays
  BY <1>2 DEF BeginTick, LockStays, TypeOK, Tasks
<1>3. ASSUME NEW t \in Loops, NEW s, CaptureNothing(t, s)
      PROVE  LockStays
  BY <1>3, MarkPresentLock DEF CaptureNothing
<1>4. ASSUME NEW t \in Loops, CaptureBusy(t)
      PROVE  LockStays \/ LoopLocks(t)
  <2>1. CASE MarkAbsent(t)
    BY <1>4, <2>1, MarkAbsentLock DEF CaptureBusy
  <2>2. CASE EndTick(t) /\ isLocking' = isLocking
    BY <1>4, <2>2, EndTickLock DEF CaptureBusy, LockStays, Tasks
  <2>3. QED
    BY <1>4, <2>1, <2>2 DEF CaptureBusy
<1>5. ASSUME NEW t \in Loops, CaptureFrame(t)
      PROVE  LockStays
  BY <1>5 DEF CaptureFrame, LockStays, TypeOK, Tasks
<1>6. ASSUME NEW t \in Loops, RecognizePresent(t)
      PROVE  LockStays
  BY <1>6, MarkPresentLock DEF RecognizePresent
<1>7. ASSUME NEW t \in Loops, RecognizeAbsent(t)
      PROVE  LockStays \/ LoopLocks(t)
  BY <1>7, MarkAbsentLock DEF RecognizeAbsent
<1>8. ASSUME NEW t \in Loops, RecognizeError(t)
      PROVE  LockStays \/ LoopLocks(t)
  <2>1. CASE MarkAbsent(t)
    BY <1>8, <2>1, MarkAbsentLock DEF RecognizeError
  <2>2. CASE EndTick(t) /\ isLocking' = isLocking
    BY <1>8, <2>2, EndTickLock DEF RecognizeError, LockStays, Tasks
  <2>3. QED
    BY <1>8, <2>1, <2>2 DEF RecognizeError
<1>9. ASSUME NEW m \in Menus, LockNow(m)
      PROVE  LockStarts(m)
  BY <1>9 DEF LockNow, LockStarts, TypeOK, Tasks
<1>10. ASSUME NEW t \in Tasks, NEW ok \in BOOLEAN, LockReturns(t, ok)
       PROVE  LockEnds(t)
  BY <1>10, EndTickLock DEF LockReturns, LockEnds, TypeOK
<1>11. ASSUME NEW s \in DisabledState, Disable(s)
       PROVE  LockStays
  BY <1>11 DEF Disable, LockStays
<1>12. CASE Advance \/ UNCHANGED vars
  BY <1>12 DEF Advance, vars, LockStays, LockStep
<1>13. ASSUME NEW t \in Loops, StartLoop(t) \/ Tick(t)
       PROVE  LockStep
  BY <1>1, <1>2, <1>3, <1>4, <1>5, <1>6, <1>7, <1>8, <1>13 DEF Tick, LockStep
<1>14. ASSUME NEW t \in Tasks, LockReturns(t, TRUE) \/ LockReturns(t, FALSE)
       PROVE  LockStep
  BY <1>10, <1>14 DEF LockStep
<1>15. QED
  BY <1>9, <1>11, <1>12, <1>13, <1>14 DEF Next, LockStep

\* isLocking serialises the calls of locker.lock().
THEOREM LockExclusionHolds == Spec => []LockExclusion
<1>1. Init => LockExclusion
  BY DEF Init, LockExclusion
<1>2. TypeOK /\ LockExclusion /\ [Next]_vars => LockExclusion'
  <2> SUFFICES ASSUME TypeOK, LockExclusion, [Next]_vars
               PROVE  LockExclusion'
    OBVIOUS
  <2>1. CASE LockStays
    BY <2>1 DEF LockStays, LockExclusion
  <2>2. ASSUME NEW t \in Tasks, LockEnds(t)
        PROVE  LockExclusion'
    BY <2>2 DEF LockEnds, LockExclusion
  <2>3. ASSUME NEW t \in Tasks, LockStarts(t)
        PROVE  LockExclusion'
    BY <2>3 DEF LockStarts, LockExclusion
  <2>4. QED
    BY <2>1, <2>2, <2>3, LockSteps DEF LockStep, LoopLocks, Tasks
<1>3. QED
  BY <1>1, <1>2, TypeCorrect, PTL DEF Spec

\* An automatic lock is started only by the loop the app still holds.
THEOREM OnlyTheRunningLoopLocksHolds == Spec => OnlyTheRunningLoopLocks
<1>1. TypeOK /\ [Next]_vars
        => [\A t \in Loops : AutoLockStarts(t) => t = loopTask]_vars
  <2> SUFFICES ASSUME TypeOK, [Next]_vars, NEW t \in Loops, AutoLockStarts(t)
               PROVE  t = loopTask
    OBVIOUS
  <2>1. t \in Tasks /\ t \notin Menus
    BY TasksAssumption DEF Tasks
  <2>2. LoopLocks(t)
    BY <2>1, LockSteps
       DEF LockStep, LockStays, LockEnds, LockStarts, LoopLocks, AutoLockStarts
  <2>3. QED
    BY <2>2 DEF LoopLocks, Fires, Cancelled
<1>2. QED
  BY <1>1, TypeCorrect, PTL DEF Spec, OnlyTheRunningLoopLocks

-----------------------------------------------------------------------------
(***************************************************************************)
(* One attempt per episode.  Inductive with the converse of what a tick    *)
(* sets: as long as no attempt is recorded, none was made.                 *)
(***************************************************************************)
AttemptInv == attempts <= 1 /\ (~lockAttempted => attempts = 0)

LEMMA AttemptStep == TypeOK /\ AttemptInv /\ [Next]_vars => AttemptInv'
<1> SUFFICES ASSUME TypeOK, AttemptInv, [Next]_vars
             PROVE  AttemptInv'
  OBVIOUS
<1> USE DEF AttemptInv
<1>1. ASSUME NEW t \in Loops, MarkAbsent(t)
      PROVE  AttemptInv'
  <2>1. CASE Fires(t) /\ ~isLocking
    <3>1. attempts' = attempts + 1 /\ lockAttempted'
      BY <1>1, <2>1 DEF MarkAbsent
    <3>2. ~lockAttempted
      BY <2>1 DEF Fires, Confirmed
    <3>3. QED
      BY <3>1, <3>2
  <2>2. CASE ~(Fires(t) /\ ~isLocking)
    <3>1. attempts' = attempts /\ (lockAttempted => lockAttempted')
      BY <1>1, <2>2 DEF MarkAbsent
    <3>2. QED
      BY <3>1
  <2>3. QED
    BY <2>1, <2>2
<1>2. ASSUME NEW t \in Loops, NEW s, MarkPresent(t, s)
      PROVE  AttemptInv'
  BY <1>2 DEF MarkPresent, ResetAbsenceAccounting, NoteCleared
<1>3. ASSUME NEW t \in Loops, Tick(t)
      PROVE  AttemptInv'
  <2>1. CASE BeginTick(t) \/ CaptureFrame(t)
    BY <2>1 DEF BeginTick, CaptureFrame, accounting, history
  <2>2. ASSUME NEW s, CaptureNothing(t, s)
        PROVE  AttemptInv'
    BY <2>2, <1>2 DEF CaptureNothing
  <2>3. CASE CaptureBusy(t)
    BY <2>3, <1>1 DEF CaptureBusy, NoteCleared
  <2>4. CASE RecognizePresent(t)
    BY <2>4, <1>2 DEF RecognizePresent
  <2>5. CASE RecognizeAbsent(t)
    BY <2>5, <1>1 DEF RecognizeAbsent
  <2>6. CASE RecognizeError(t)
    BY <2>6, <1>1 DEF RecognizeError
  <2>7. QED
    BY <1>3, <2>1, <2>2, <2>3, <2>4, <2>5, <2>6 DEF Tick
<1>4. ASSUME NEW t \in Loops, StartLoop(t)
      PROVE  AttemptInv'
  BY <1>4 DEF StartLoop, accounting, history
<1>5. ASSUME NEW m \in Menus, LockNow(m)
      PROVE  AttemptInv'
  BY <1>5 DEF LockNow, accounting, history
<1>6. ASSUME NEW t \in Tasks, NEW ok \in BOOLEAN, LockReturns(t, ok)
      PROVE  AttemptInv'
  BY <1>6 DEF LockReturns
<1>7. ASSUME NEW s \in DisabledState, Disable(s)
      PROVE  AttemptInv'
  BY <1>7 DEF Disable, NoteCleared
<1>8. CASE Advance \/ UNCHANGED vars
  BY <1>8 DEF Advance, vars, accounting, history
<1>9. QED
  BY <1>3, <1>4, <1>5, <1>6, <1>7, <1>8 DEF Next

\* One absence never leads to two automatic lock() calls.
THEOREM OneAttemptPerEpisodeHolds == Spec => []OneAttemptPerEpisode
<1>1. Init => AttemptInv
  BY DEF Init, AttemptInv
<1>2. AttemptInv => OneAttemptPerEpisode
  BY DEF AttemptInv, OneAttemptPerEpisode
<1>3. QED
  BY <1>1, <1>2, AttemptStep, TypeCorrect, PTL DEF Spec

-----------------------------------------------------------------------------
(***************************************************************************)
(* The full wait.  Each reading of the running loop that counts an absence *)
(* comes at least one interval after the one before, because the loop      *)
(* sleeps in between; so a count of k puts the time of the reading at least *)
(* k - 1 intervals after the last clearing.                                *)
(***************************************************************************)
PastInv == clearedAt <= clock /\ \A t \in Loops : time[t] <= clock

CountInv(t) ==
  /\ pc[t] = "ready" => consecutiveAbsentTicks = 0
  /\ pc[t] \in {"capturing", "recognizing"}
       => time[t] >= clearedAt + consecutiveAbsentTicks
  /\ pc[t] = "sleeping" => time[t] >= clearedAt + consecutiveAbsentTicks - 1
  /\ pc[t] = "locking" => clock >= clearedAt + consecutiveAbsentTicks - 1

WaitInv ==
  ~intruded =>
    /\ absentSince # Never => absentSince >= clearedAt + ConsensusTicks - 1
    /\ loopTask = NoTask => consecutiveAbsentTicks = 0
    /\ loopTask # NoTask => pc[loopTask] # "off" /\ CountInv(loopTask)

FullWaitInv == PastInv /\ WaitInv

LEMMA PastStep == TypeOK /\ PastInv /\ [Next]_vars => PastInv'
<1> SUFFICES ASSUME TypeOK, PastInv, [Next]_vars
             PROVE  PastInv'
  OBVIOUS
<1> USE ConfigAssumption DEF PastInv, TypeOK, Times
<1>1. ASSUME NEW t \in Loops, EndTick(t), clock' = clock, 
             clearedAt' \in {clearedAt, clock}
      PROVE  PastInv'
  BY <1>1 DEF EndTick
<1>2. ASSUME NEW t \in Loops, MarkAbsent(t), clock' = clock
      PROVE  PastInv'
  BY <1>1, <1>2 DEF MarkAbsent, NoteHeld
<1>3. ASSUME NEW t \in Loops, NEW s, MarkPresent(t, s), clock' = clock
      PROVE  PastInv'
  BY <1>1, <1>3 DEF MarkPresent, NoteCleared
<1>4. ASSUME NEW t \in Loops, Tick(t)
      PROVE  PastInv'
  <2>1. CASE BeginTick(t) \/ CaptureFrame(t)
    BY <2>1 DEF BeginTick, CaptureFrame, history
  <2>2. ASSUME NEW s, CaptureNothing(t, s)
        PROVE  PastInv'
    BY <2>2, <1>3 DEF CaptureNothing
  <2>3. CASE CaptureBusy(t)
    BY <2>3, <1>1, <1>2 DEF CaptureBusy, NoteCleared
  <2>4. CASE RecognizePresent(t)
    BY <2>4, <1>3 DEF RecognizePresent
  <2>5. CASE RecognizeAbsent(t)
    BY <2>5, <1>2 DEF RecognizeAbsent
  <2>6. CASE RecognizeError(t)
    BY <2>6, <1>1, <1>2 DEF RecognizeError, NoteHeld
  <2>7. QED
    BY <1>4, <2>1, <2>2, <2>3, <2>4, <2>5, <2>6 DEF Tick
<1>5. ASSUME NEW t \in Loops, StartLoop(t)
      PROVE  PastInv'
  BY <1>5 DEF StartLoop, history
<1>6. ASSUME NEW m \in Menus, LockNow(m)
      PROVE  PastInv'
  BY <1>6 DEF LockNow, history
<1>7. ASSUME NEW t \in Tasks, NEW ok \in BOOLEAN, LockReturns(t, ok)
      PROVE  PastInv'
  BY <1>7, <1>1 DEF LockReturns
<1>8. ASSUME NEW s \in DisabledState, Disable(s)
      PROVE  PastInv'
  BY <1>8 DEF Disable, NoteCleared
<1>9. CASE Advance \/ UNCHANGED vars
  BY <1>9 DEF Advance, vars, history
<1>10. QED
  BY <1>4, <1>5, <1>6, <1>7, <1>8, <1>9 DEF Next


\* What a reading of the running loop's own tick leaves behind.
LEMMA MarkAbsentWait ==
  ASSUME TypeOK, FullWaitInv, ~intruded,
         NEW t \in Loops, t = loopTask, loopTask' = loopTask, clock' = clock,
         pc[t] \in {"capturing", "recognizing"}, MarkAbsent(t)
  PROVE  WaitInv'
<1> USE ConfigAssumption DEF FullWaitInv, WaitInv, PastInv, TypeOK, Times
<1>1. /\ time[t] >= clearedAt + consecutiveAbsentTicks
      /\ time[t] <= clock
      /\ clearedAt' = clearedAt
      /\ consecutiveAbsentTicks' = consecutiveAbsentTicks + 1
  BY TasksAssumption DEF CountInv, MarkAbsent, NoteHeld, AbsentNow
<1>2. absentSince' # Never => absentSince' >= clearedAt + ConsensusTicks - 1
  BY <1>1 DEF MarkAbsent, SinceNow, Confirmed, AbsentNow, Never
<1>3. t # NoTask
  BY TasksAssumption
<1>4. pc'[t] # "off" /\ CountInv(t)'
  <2>1. CASE pc' = [pc EXCEPT ![t] = "locking"]
    BY <1>1, <2>1 DEF CountInv, Tasks
  <2>2. CASE EndTick(t)
    BY <1>1, <2>2 DEF CountInv, Tasks, EndTick, Cancelled
  <2>3. QED
    BY <2>1, <2>2 DEF MarkAbsent
<1>5. QED
  BY <1>1, <1>2, <1>3, <1>4

LEMMA ClearedWait ==
  ASSUME TypeOK, NEW t \in Loops, t = loopTask, loopTask' = loopTask,
         clock' = clock, EndTick(t), NoteCleared,
         consecutiveAbsentTicks' = 0, absentSince' = Never
  PROVE  WaitInv'
<1>1. t # NoTask
  BY TasksAssumption
<1>2. pc'[t] = "sleeping" /\ time'[t] = clock /\ clearedAt' = clock
  BY DEF EndTick, Cancelled, TypeOK, Tasks, NoteCleared
<1>3. CountInv(t)'
  BY <1>2 DEF CountInv, TypeOK, Times
<1>4. QED
  BY <1>1, <1>2, <1>3 DEF WaitInv

LEMMA WaitStep == TypeOK /\ FullWaitInv /\ [Next]_vars => WaitInv'
<1> SUFFICES ASSUME TypeOK, FullWaitInv, [Next]_vars, ~intruded'
             PROVE  WaitInv'
  BY DEF WaitInv
<1> USE ConfigAssumption, TasksAssumption
<1>1. ASSUME NEW t \in Loops, Tick(t)
      PROVE  WaitInv'
  <2>1. CASE BeginTick(t)
    BY <2>1 DEF BeginTick, WaitInv, FullWaitInv, PastInv, CountInv, TypeOK,
                Times, Tasks, accounting, history
  <2>2. CASE NoteReading(t)
    <3>1. ~intruded /\ t = loopTask
      BY <2>2 DEF NoteReading, Cancelled
    <3>2. pc[t] \in {"capturing", "recognizing"} \/ BeginTick(t)
      BY <1>1 DEF Tick, CaptureNothing, CaptureBusy, CaptureFrame,
                  RecognizePresent, RecognizeAbsent, RecognizeError
    <3>3. clock' = clock /\ loopTask' = loopTask
      BY <1>1 DEF Tick, CaptureNothing, CaptureBusy, CaptureFrame,
                  RecognizePresent, RecognizeAbsent, RecognizeError, BeginTick
    <3>4. CASE MarkAbsent(t)
      BY <2>1, <3>1, <3>2, <3>3, <3>4, MarkAbsentWait
    <3>5. ASSUME NEW s, MarkPresent(t, s)
          PROVE  WaitInv'
      BY <3>1, <3>3, <3>5, ClearedWait
         DEF MarkPresent, ResetAbsenceAccounting
    <3>6. CASE CaptureBusy(t)
      BY <3>1, <3>3, <3>4, <3>6, ClearedWait DEF CaptureBusy
    <3>7. CASE CaptureFrame(t)
      BY <3>1, <3>7 DEF CaptureFrame, WaitInv, FullWaitInv, CountInv, TypeOK,
                        Tasks
    <3>8. CASE RecognizeError(t)
      <4>1. CASE ErrorsExhausted
        BY <3>4, <3>8, <4>1 DEF RecognizeError
      <4>2. CASE ~ErrorsExhausted
        <5>1. /\ EndTick(t) /\ pc[t] = "recognizing"
              /\ UNCHANGED <<consecutiveAbsentTicks, absentSince, clearedAt>>
          BY <3>8, <4>2 DEF RecognizeError, NoteHeld
        <5>2. pc'[t] = "sleeping" /\ time'[t] = clock
          BY <3>1, <5>1 DEF EndTick, Cancelled, TypeOK, Tasks
        <5>3. QED
          BY <3>1, <3>3, <5>1, <5>2 DEF WaitInv, FullWaitInv, PastInv, CountInv,
                                        TypeOK, Times
      <4>3. QED
        BY <4>1, <4>2
    <3>9. QED
      BY <1>1, <2>1, <3>4, <3>5, <3>6, <3>7, <3>8
         DEF Tick, CaptureNothing, RecognizePresent, RecognizeAbsent
  <2>3. QED
    BY <1>1, <2>1, <2>2 DEF Tick, CaptureNothing, CaptureBusy, CaptureFrame,
                            RecognizePresent, RecognizeAbsent, RecognizeError
<1>2. ASSUME NEW t \in Loops, StartLoop(t)
      PROVE  WaitInv'
  BY <1>2 DEF StartLoop, WaitInv, FullWaitInv, CountInv, TypeOK, Tasks,
              accounting, history
<1>3. ASSUME NEW m \in Menus, LockNow(m)
      PROVE  WaitInv'
  BY <1>3 DEF LockNow, WaitInv, FullWaitInv, CountInv, TypeOK, Tasks,
              accounting, history
<1>4. ASSUME NEW t \in Tasks, NEW ok \in BOOLEAN, LockReturns(t, ok)
      PROVE  WaitInv'
  <2>1. /\ ~intruded /\ clearedAt' = clearedAt /\ clock' = clock
        /\ loopTask' = loopTask
        /\ consecutiveAbsentTicks' \in {0, consecutiveAbsentTicks}
        /\ absentSince' \in {Never, absentSince}
    BY <1>4 DEF LockReturns
  <2>2. CASE t = loopTask
    <3>1. t \in Loops /\ t # NoTask
      BY <2>2 DEF Tasks, TypeOK
    <3>2. EndTick(t) /\ pc[t] = "locking"
      BY <1>4, <3>1 DEF LockReturns
    <3>3. pc'[t] = "sleeping" /\ time'[t] = clock
      BY <2>2, <3>1, <3>2 DEF EndTick, Cancelled, TypeOK, Tasks
    <3>4. clock >= clearedAt + consecutiveAbsentTicks - 1
      BY <2>1, <2>2, <3>1, <3>2 DEF FullWaitInv, WaitInv, CountInv
    <3>5. CountInv(t)'
      <4>1. clock >= clearedAt' + consecutiveAbsentTicks' - 1
        <5>1. clearedAt \in Int /\ clock \in Int /\ clearedAt <= clock
          BY DEF FullWaitInv, PastInv, TypeOK, Times
        <5>2. CASE consecutiveAbsentTicks' = 0
          BY <2>1, <5>1, <5>2
        <5>3. CASE consecutiveAbsentTicks' = consecutiveAbsentTicks
          BY <2>1, <3>4, <5>3
        <5>4. QED
          BY <2>1, <5>2, <5>3
      <4>2. QED
        BY <3>3, <4>1 DEF CountInv
    <3>6. QED
      BY <2>1, <2>2, <3>1, <3>3, <3>5 DEF WaitInv, FullWaitInv
  <2>3. CASE t # loopTask
    <3>1. ASSUME loopTask # NoTask
          PROVE  pc'[loopTask] = pc[loopTask] /\ time'[loopTask] = time[loopTask]
      BY <1>4, <2>3, <3>1 DEF LockReturns, EndTick, TypeOK, Tasks
    <3>2. absentSince' # Never => absentSince' >= clearedAt' + ConsensusTicks - 1
      BY <2>1 DEF WaitInv, FullWaitInv
    <3>3. loopTask' = NoTask => consecutiveAbsentTicks' = 0
      BY <2>1 DEF WaitInv, FullWaitInv
    <3>4. ASSUME loopTask # NoTask
          PROVE  pc'[loopTask] # "off" /\ CountInv(loopTask)'
      <4>1. pc[loopTask] # "off" /\ CountInv(loopTask)
        BY <2>1, <3>4 DEF WaitInv, FullWaitInv
      <4>2. /\ clearedAt \in Int /\ clearedAt <= clock /\ clock \in Int
            /\ consecutiveAbsentTicks \in Nat
        BY DEF FullWaitInv, PastInv, TypeOK, Times
      <4>3. CASE consecutiveAbsentTicks' = consecutiveAbsentTicks
        BY <2>1, <3>1, <3>4, <4>1, <4>3 DEF CountInv
      <4>4. CASE consecutiveAbsentTicks' = 0
        <5>1. /\ time[loopTask] \in Int
              /\ pc[loopTask] = "sleeping" => clearedAt <= time[loopTask] + 1
          BY <3>4, <4>1, <4>2 DEF CountInv, TypeOK, Times
        <5>2. QED
          BY <2>1, <3>1, <3>4, <4>1, <4>2, <4>4, <5>1 DEF CountInv
      <4>5. QED
        BY <2>1, <4>3, <4>4
    <3>5. QED
      BY <2>1, <3>2, <3>3, <3>4 DEF WaitInv
  <2>4. QED
    BY <2>2, <2>3
<1>5. ASSUME NEW s \in DisabledState, Disable(s)
      PROVE  WaitInv'
  BY <1>5 DEF Disable, WaitInv, ResetAbsenceAccounting
<1>6. CASE Advance
  BY <1>6 DEF Advance, WaitInv, FullWaitInv, PastInv, CountInv, TypeOK, Times,
              accounting, history
<1>7. CASE UNCHANGED vars
  BY <1>7 DEF vars, WaitInv, FullWaitInv, CountInv, accounting, history
<1>8. QED
  BY <1>1, <1>2, <1>3, <1>4, <1>5, <1>6, <1>7 DEF Next

\* Unless a cancelled tick meddled, no automatic lock cuts the wait short.
THEOREM LockNeedsFullWaitHolds == Spec => LockNeedsFullWait
<1>1. Init => FullWaitInv
  BY ConfigAssumption DEF Init, FullWaitInv, PastInv, WaitInv
<1>2. TypeOK /\ FullWaitInv /\ [Next]_vars => FullWaitInv'
  BY PastStep, WaitStep DEF FullWaitInv
<1>3. TypeOK /\ FullWaitInv /\ [Next]_vars
        => [\A t \in Loops : AutoLockStarts(t) /\ ~intruded
              => clock - clearedAt >= ConsensusTicks - 1 + Grace]_vars
  <2> SUFFICES ASSUME TypeOK, FullWaitInv, [Next]_vars, ~intruded,
                      NEW t \in Loops, AutoLockStarts(t)
               PROVE  clock - clearedAt >= ConsensusTicks - 1 + Grace
    OBVIOUS
  <2>1. t \in Tasks /\ t \notin Menus /\ t # NoTask
    BY TasksAssumption DEF Tasks
  <2>2. LoopLocks(t)
    BY <2>1, LockSteps
       DEF LockStep, LockStays, LockEnds, LockStarts, LoopLocks, AutoLockStarts
  <2>3. /\ t = loopTask /\ Confirmed /\ time[t] - SinceNow(t) >= Grace
        /\ pc[t] \in {"capturing", "recognizing"}
    BY <2>2 DEF LoopLocks, Fires, Cancelled
  <2>4. time[t] <= clock /\ time[t] >= clearedAt + consecutiveAbsentTicks
    BY <2>1, <2>3 DEF FullWaitInv, PastInv, WaitInv, CountInv
  <2>5. SinceNow(t) >= clearedAt + ConsensusTicks - 1
    BY <2>3, <2>4, ConfigAssumption
       DEF SinceNow, Confirmed, AbsentNow, FullWaitInv, WaitInv, TypeOK, Times
  <2>6. SinceNow(t) \in Int
    BY DEF SinceNow, TypeOK, Times, Never
  <2>7. QED
    BY <2>3, <2>4, <2>5, <2>6, ConfigAssumption DEF TypeOK, Times
<1>4. QED
  BY <1>1, <1>2, <1>3, TypeCorrect, PTL DEF Spec, LockNeedsFullWait

-----------------------------------------------------------------------------
(***************************************************************************)
(* The engine implements the contract the app is checked against: its      *)
(* states with enforcement on are one, a task not yet begun is asleep, and *)
(* the two awaits of a tick before the lock are one.                       *)
(***************************************************************************)
ContractState ==
  IF state \in {"unknown", "present", "absent", "callAssumedPresent"}
  THEN "watching" ELSE state

StepOf(p) ==
  IF p \in {"ready", "sleeping"} THEN "asleep"
  ELSE IF p \in {"capturing", "recognizing"} THEN "ticking" ELSE p

ContractStep == [t \in Tasks |-> StepOf(pc[t])]

Contract == INSTANCE EngineContract
              WITH state <- ContractState, step <- ContractStep

LEMMA StepMoves ==
  ASSUME TypeOK, NEW t \in Tasks, NEW p, pc' = [pc EXCEPT ![t] = p]
  PROVE  ContractStep' = [ContractStep EXCEPT ![t] = StepOf(p)]
BY DEF ContractStep, TypeOK, TaskStep

LEMMA StepsStay ==
  ASSUME UNCHANGED pc PROVE UNCHANGED ContractStep
BY DEF ContractStep

LEMMA TickEndsContract ==
  ASSUME TypeOK, NEW t \in Loops, EndTick(t)
  PROVE  Contract!EndTick(t)
BY StepMoves, TasksAssumption
DEF EndTick, Contract!EndTick, Cancelled, StepOf, Tasks

LEMMA TickingContract ==
  ASSUME TypeOK, NEW t \in Tasks
  PROVE  /\ pc[t] \in {"capturing", "recognizing"} <=> ContractStep[t] = "ticking"
         /\ pc[t] = "locking" <=> ContractStep[t] = "locking"
         /\ pc[t] = "off" <=> ContractStep[t] = "off"
BY DEF TypeOK, TaskStep, ContractStep, StepOf

LEMMA LockingContract ==
  ASSUME TypeOK, LockExclusion
  PROVE  isLocking <=> Contract!Locking
BY TickingContract DEF LockExclusion, Contract!Locking, Contract!Tasks, Tasks

\* A reading that clears the absence.
LEMMA PresentContract ==
  ASSUME TypeOK, NEW t \in Loops, NEW s \in PresenceState,
         pc[t] \in {"capturing", "recognizing"},
         s \in {"present", "callAssumedPresent", "suspended", "cameraUnavailable"},
         state' = s, EndTick(t), UNCHANGED loopTask
  PROVE  Contract!Reading(t)
<1>1. ContractStep[t] = "ticking"
  BY TickingContract DEF Tasks
<1>2. ContractState' \in {"watching", "suspended", "cameraUnavailable"}
  BY DEF ContractState
<1>3. QED
  BY <1>1, <1>2, TickEndsContract DEF Contract!Reading

\* One that counts towards it, and may end in a lock.
LEMMA AbsentContract ==
  ASSUME TypeOK, LockExclusion, NEW t \in Loops, MarkAbsent(t),
         pc[t] \in {"capturing", "recognizing"}, UNCHANGED loopTask
  PROVE  Contract!Reading(t) \/ Contract!AutoLock(t)
<1>1. ContractStep[t] = "ticking"
  BY TickingContract DEF Tasks
<1>2. CASE Fires(t) /\ ~isLocking
  <2>1. t = loopTask /\ ~lockAttempted
    BY <1>2 DEF Fires, Confirmed, Cancelled
  <2>2. pc' = [pc EXCEPT ![t] = "locking"]
    BY <1>2 DEF MarkAbsent
  <2>3. ContractStep' = [ContractStep EXCEPT ![t] = "locking"]
    BY <2>2, StepMoves DEF StepOf, Tasks
  <2>4. state' = IF state = "lockFailed" THEN state ELSE "absent"
    BY <2>1 DEF MarkAbsent
  <2>5. ContractState' =
          IF ContractState = "lockFailed" THEN ContractState ELSE "watching"
    BY <2>4 DEF ContractState
  <2>6. ~Contract!Locking
    BY <1>2, LockingContract
  <2> QED
    BY <1>1, <2>1, <2>3, <2>5, <2>6 DEF Contract!AutoLock
<1>3. CASE ~(Fires(t) /\ ~isLocking)
  <2>1. EndTick(t)
    BY <1>3 DEF MarkAbsent
  <2>2. state' \in {state, "absent"}
    BY DEF MarkAbsent
  <2>3. ContractState' \in {"watching", ContractState}
    BY <2>2 DEF ContractState
  <2> QED
    BY <1>1, <2>1, <2>3, TickEndsContract DEF Contract!Reading
<1> QED
  BY <1>2, <1>3

\* Every step of the engine is one of the contract, or the contract sees
\* nothing of it: the clock, a frame that has arrived.
LEMMA EngineContractStep ==
  TypeOK /\ LockExclusion /\ [Next]_vars => [Contract!Next]_(Contract!vars)
<1> SUFFICES ASSUME TypeOK, LockExclusion, [Next]_vars
             PROVE  Contract!Next \/ UNCHANGED Contract!vars
  OBVIOUS
<1>1. ASSUME NEW t \in Loops, StartLoop(t) PROVE Contract!Next
  <2>1. ContractStep[t] = "off" /\ loopTask = NoTask
    BY <1>1, TickingContract DEF StartLoop, Tasks
  <2>2. ContractStep' = [ContractStep EXCEPT ![t] = "asleep"]
    BY <1>1, StepMoves DEF StartLoop, StepOf, Tasks
  <2>3. UNCHANGED ContractState
    BY <1>1 DEF StartLoop, ContractState
  <2>4. Contract!StartLoop(t)
    BY <1>1, <2>1, <2>2, <2>3 DEF StartLoop, Contract!StartLoop
  <2> QED
    BY <2>4 DEF Contract!Next
<1>2. ASSUME NEW t \in Loops, BeginTick(t) PROVE Contract!Next
  <2>1. ContractStep[t] = "asleep"
    BY <1>2 DEF BeginTick, ContractStep, StepOf, Tasks
  <2>2. ContractStep' = [ContractStep EXCEPT ![t] = "ticking"]
    BY <1>2, StepMoves DEF BeginTick, StepOf, Tasks
  <2>3. UNCHANGED <<ContractState, loopTask>>
    BY <1>2 DEF BeginTick, ContractState
  <2>4. Contract!BeginTick(t)
    BY <2>1, <2>2, <2>3 DEF Contract!BeginTick
  <2> QED
    BY <2>4 DEF Contract!Next
<1>3. ASSUME NEW t \in Loops, NEW s \in {"suspended", "cameraUnavailable"},
             CaptureNothing(t, s)
      PROVE  Contract!Next
  <2>1. Contract!Reading(t)
    BY <1>3, PresentContract DEF CaptureNothing, MarkPresent, PresenceState
  <2> QED
    BY <2>1 DEF Contract!Next
<1>4. ASSUME NEW t \in Loops, CaptureBusy(t) PROVE Contract!Next
  <2>1. CASE MarkAbsent(t)
    BY <1>4, <2>1, AbsentContract DEF CaptureBusy, Contract!Next
  <2>2. CASE ~MarkAbsent(t)
    <3>1. Contract!Reading(t)
      BY <1>4, <2>2, PresentContract DEF CaptureBusy, PresenceState
    <3> QED
      BY <3>1 DEF Contract!Next
  <2> QED
    BY <2>1, <2>2
<1>5. ASSUME NEW t \in Loops, CaptureFrame(t) PROVE UNCHANGED Contract!vars
  <2>1. ContractStep' = [ContractStep EXCEPT ![t] = "ticking"]
    BY <1>5, StepMoves DEF CaptureFrame, StepOf, Tasks
  <2>2. ContractStep[t] = "ticking"
    BY <1>5, TickingContract DEF CaptureFrame, Tasks
  <2>3. UNCHANGED ContractStep
    BY <2>1, <2>2 DEF ContractStep
  <2> QED
    BY <1>5, <2>3 DEF CaptureFrame, ContractState, Contract!vars
<1>6. ASSUME NEW t \in Loops, RecognizePresent(t) PROVE Contract!Next
  <2>1. Contract!Reading(t)
    BY <1>6, PresentContract DEF RecognizePresent, MarkPresent, PresenceState
  <2> QED
    BY <2>1 DEF Contract!Next
<1>7. ASSUME NEW t \in Loops, RecognizeAbsent(t) PROVE Contract!Next
  BY <1>7, AbsentContract DEF RecognizeAbsent, Contract!Next
<1>8. ASSUME NEW t \in Loops, RecognizeError(t) PROVE Contract!Next
  <2>1. CASE MarkAbsent(t)
    BY <1>8, <2>1, AbsentContract DEF RecognizeError, Contract!Next
  <2>2. CASE ~MarkAbsent(t)
    <3>1. pc[t] = "recognizing" /\ EndTick(t) /\ UNCHANGED <<state, loopTask>>
      BY <1>8, <2>2 DEF RecognizeError
    <3>2. UNCHANGED ContractState
      BY <3>1 DEF ContractState
    <3>3. Contract!Reading(t)
      BY <3>1, <3>2, TickingContract, TickEndsContract
      DEF Contract!Reading, Tasks
    <3> QED
      BY <3>3 DEF Contract!Next
  <2> QED
    BY <2>1, <2>2
<1>9. ASSUME NEW m \in Menus, LockNow(m) PROVE Contract!Next
  <2>1. ContractStep[m] = "off" /\ ~Contract!Locking
    BY <1>9, TickingContract, LockingContract DEF LockNow, Tasks
  <2>2. ContractStep' = [ContractStep EXCEPT ![m] = "locking"]
    BY <1>9, StepMoves DEF LockNow, StepOf, Tasks
  <2>3. UNCHANGED <<ContractState, loopTask>>
    BY <1>9 DEF LockNow, ContractState
  <2>4. Contract!LockNow(m)
    BY <2>1, <2>2, <2>3 DEF Contract!LockNow
  <2> QED
    BY <2>4 DEF Contract!Next
<1>10. ASSUME NEW t \in Tasks, NEW ok \in BOOLEAN, LockReturns(t, ok)
       PROVE  Contract!Next
  <2>1. ContractStep[t] = "locking"
    BY <1>10, TickingContract DEF LockReturns
  <2>2. ContractState' = IF ok THEN "suspended" ELSE "lockFailed"
    BY <1>10 DEF LockReturns, ContractState
  <2>3. CASE t \in Loops
    BY <1>10, <2>1, <2>2, <2>3, TickEndsContract
    DEF LockReturns, Contract!LockReturns, Contract!Next, Contract!Tasks, Tasks
  <2>4. CASE t \notin Loops
    <3>1. ContractStep' = [ContractStep EXCEPT ![t] = "off"]
      BY <1>10, <2>4, StepMoves DEF LockReturns, StepOf
    <3>2. Contract!LockReturns(t, ok)
      BY <1>10, <2>1, <2>2, <2>4, <3>1 DEF LockReturns, Contract!LockReturns
    <3> QED
      BY <3>2 DEF Contract!Next, Contract!Tasks, Tasks
  <2> QED
    BY <2>3, <2>4
<1>11. ASSUME NEW s \in DisabledState, Disable(s) PROVE Contract!Next
  <2>1. ContractState' = s /\ loopTask' = NoTask
    BY <1>11 DEF Disable, DisabledState, ContractState
  <2>2. pc' = [t \in Tasks |-> IF pc[t] \in {"ready", "sleeping"} THEN "off"
                                                              ELSE pc[t]]
    BY <1>11 DEF Disable
  <2>3. ContractStep' =
          [t \in Tasks |-> IF ContractStep[t] = "asleep" THEN "off"
                                                         ELSE ContractStep[t]]
    BY <2>2 DEF ContractStep, StepOf, TypeOK, TaskStep
  <2>4. Contract!Disable(s)
    BY <2>1, <2>3 DEF Contract!Disable, Contract!Tasks, Tasks
  <2> QED
    BY <2>4 DEF Contract!Next, DisabledState
<1>12. CASE Advance
  BY <1>12, StepsStay DEF Advance, Contract!vars, ContractState
<1>13. CASE UNCHANGED vars
  BY <1>13, StepsStay DEF vars, Contract!vars, ContractState
<1> QED
  BY <1>1, <1>2, <1>3, <1>4, <1>5, <1>6, <1>7, <1>8, <1>9, <1>10, <1>11,
     <1>12, <1>13
  DEF Next, Tick

\* The engine keeps what the app counts on (EngineContract): a lock is started
\* by the held loop or by the menu, one at a time, and between the gate's
\* resets the display state changes only when a tick or a lock() call ends
\* (PresenceEngine.swift:43-84,169-220).
THEOREM EngineImplementsContract == Spec => Contract!Spec
<1>1. Init => Contract!Init
  BY DEF Init, Contract!Init, Contract!Tasks, ContractState, ContractStep,
         StepOf, Tasks
<1> QED
  BY <1>1, EngineContractStep, TypeCorrect, LockExclusionHolds, PTL
  DEF Spec, Contract!Spec

=============================================================================
