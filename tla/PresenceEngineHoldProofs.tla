----------------------- MODULE PresenceEngineHoldProofs -----------------------
(***************************************************************************)
(* The two ways in which the engine holds the Mac unlocked although it     *)
(* sees nobody, and that both are bounded, for any tunables.               *)
(*                                                                         *)
(* The first: the loop's ticks that do not clear an absence are bounded    *)
(* until a lock has been attempted.  Before the consensus, each absence    *)
(* counted costs at most MaxErrors ticks (a streak of errors is cut off by *)
(* counting an absence), so                                                *)
(*   MaxErrors * consecutiveAbsentTicks + consecutiveErrorTicks            *)
(* bounds the ticks held.  From the consensus on, each tick costs an       *)
(* interval of the grace, and once the grace is over only a last streak of *)
(* errors can come before the absence that locks.                          *)
(*                                                                         *)
(* The second: the busy readings taken for a call are bounded by its       *)
(* window, which opens no earlier than the last reading of another kind.   *)
(***************************************************************************)
EXTENDS PresenceEngineProofs

(***************************************************************************)
(* The hold of an absence.                                                 *)
(***************************************************************************)
\* The tick of the running loop that was counted last, or is being waited for,
\* measures how much of the grace the held ticks have used up.
GraceUsed ==
  /\ held <= MaxErrors * ConsensusTicks + Grace - 1 + consecutiveErrorTicks
  /\ loopTask # NoTask /\ pc[loopTask] \in {"capturing", "recognizing"}
       => held <= MaxErrors * ConsensusTicks + time[loopTask] - 1 - absentSince
  /\ loopTask # NoTask /\ pc[loopTask] = "sleeping"
       => held <= MaxErrors * ConsensusTicks + time[loopTask] - absentSince

Hold ==
  /\ consecutiveErrorTicks <= MaxErrors - 1
  /\ loopTask = NoTask => consecutiveAbsentTicks = 0
  /\ loopTask # NoTask =>
       /\ pc[loopTask] # "off"
       /\ pc[loopTask] = "ready" => consecutiveAbsentTicks = 0
       /\ pc[loopTask] = "locking" => lockAttempted
  /\ ~lockAttempted /\ consecutiveAbsentTicks < ConsensusTicks =>
       /\ absentSince = Never
       /\ held <= MaxErrors * consecutiveAbsentTicks + consecutiveErrorTicks
  /\ ~lockAttempted /\ consecutiveAbsentTicks >= ConsensusTicks =>
       absentSince # Never /\ GraceUsed

HoldInv == ~intruded => Hold

\* The arithmetic of the potential.
LEMMA OneMoreAbsence ==
  ASSUME NEW m \in Nat, NEW a \in Nat
  PROVE  m * a \in Nat /\ m * (a + 1) = m * a + m
OBVIOUS

\* A count below the consensus leaves room for a whole streak.
LEMMA BelowConsensus ==
  ASSUME NEW m \in Nat, NEW a \in Nat, NEW c \in Nat, a < c
  PROVE  m * a + m <= m * c
<1>1. PICK d \in Nat : c = (a + 1) + d
  <2>1. c - (a + 1) \in Nat
    OBVIOUS
  <2> WITNESS c - (a + 1) \in Nat
  <2> QED
    OBVIOUS
<1>2. m * c = m * a + m + m * d
  BY <1>1
<1>3. m * d \in Nat /\ m * a \in Nat
  OBVIOUS
<1> QED
  BY <1>2, <1>3

\* The invariant bounds the hold.
LEMMA HoldBounds == TypeOK /\ HoldInv => FailOpenBounded
<1> SUFFICES ASSUME TypeOK, Hold, ~lockAttempted
             PROVE  held <= MaxErrors * (ConsensusTicks + 1) + Grace - 2
  BY DEF HoldInv, FailOpenBounded
<1>1. /\ MaxErrors \in Nat /\ MaxErrors >= 1 /\ ConsensusTicks \in Nat
      /\ Grace \in Nat /\ held \in Nat /\ consecutiveErrorTicks \in Nat
      /\ consecutiveAbsentTicks \in Nat
  BY ConfigAssumption DEF TypeOK
<1>2. /\ MaxErrors * ConsensusTicks \in Nat
      /\ MaxErrors * (ConsensusTicks + 1)
           = MaxErrors * ConsensusTicks + MaxErrors
  BY <1>1, OneMoreAbsence
<1>3. consecutiveErrorTicks <= MaxErrors - 1
  BY DEF Hold
<1>4. CASE consecutiveAbsentTicks < ConsensusTicks
  <2>1. held <= MaxErrors * consecutiveAbsentTicks + consecutiveErrorTicks
    BY <1>4 DEF Hold
  <2>2. /\ MaxErrors * consecutiveAbsentTicks \in Nat
        /\ MaxErrors * consecutiveAbsentTicks + MaxErrors
             <= MaxErrors * ConsensusTicks
    BY <1>1, <1>4, OneMoreAbsence, BelowConsensus
  <2> QED
    BY ONLY <1>1, <1>2, <1>3, <2>1, <2>2
<1>5. CASE consecutiveAbsentTicks >= ConsensusTicks
  <2>1. held <= MaxErrors * ConsensusTicks + Grace - 1 + consecutiveErrorTicks
    BY <1>5 DEF Hold, GraceUsed
  <2> QED
    BY ONLY <1>1, <1>2, <1>3, <2>1
<1> QED
  BY <1>1, <1>4, <1>5

\* A reading that clears the absence clears the hold.
LEMMA ClearedHold ==
  ASSUME TypeOK, NEW t \in Loops, t = loopTask, loopTask' = loopTask,
         EndTick(t), consecutiveAbsentTicks' = 0, consecutiveErrorTicks' = 0,
         absentSince' = Never, held' = 0
  PROVE  Hold'
<1>1. pc'[t] = "sleeping"
  BY DEF EndTick, Cancelled, TypeOK, Tasks
<1>2. t # NoTask
  BY TasksAssumption
<1> QED
  BY <1>1, <1>2, ConfigAssumption DEF Hold

\* A reading that counts an absence uses up its streak of errors, or an
\* interval of the grace, or attempts the lock.
LEMMA AbsentHold ==
  ASSUME TypeOK, PastInv, Hold, NEW t \in Loops, t = loopTask,
         loopTask' = loopTask, clock' = clock,
         pc[t] \in {"capturing", "recognizing"}, MarkAbsent(t)
  PROVE  Hold'
<1>1. /\ MaxErrors \in Nat /\ MaxErrors >= 1 /\ ConsensusTicks \in Nat
      /\ Grace \in Nat /\ held \in Nat /\ consecutiveErrorTicks \in Nat
      /\ consecutiveAbsentTicks \in Nat /\ time[t] \in Int /\ clock \in Int
      /\ time[t] <= clock /\ t # NoTask
  BY ConfigAssumption, TasksAssumption DEF TypeOK, PastInv, Times
<1>2. /\ consecutiveErrorTicks' = 0
      /\ consecutiveAbsentTicks' = consecutiveAbsentTicks + 1
      /\ held' = held + 1
      /\ lockAttempted' = (lockAttempted \/ Fires(t))
  BY DEF MarkAbsent, AbsentNow, NoteHeld, Cancelled
<1>3. CASE lockAttempted \/ Fires(t)
  <2>1. pc'[t] \in {"locking", "sleeping"}
    BY DEF MarkAbsent, EndTick, Cancelled, TypeOK, Tasks
  <2>2. lockAttempted'
    BY <1>2, <1>3
  <2>3. consecutiveErrorTicks' <= MaxErrors - 1
    BY <1>1, <1>2
  <2> QED
    BY <1>1, <2>1, <2>2, <2>3 DEF Hold
<1>4. CASE ~lockAttempted /\ ~Fires(t)
  <2>1. EndTick(t)
    BY <1>4 DEF MarkAbsent
  <2>2. pc'[t] = "sleeping" /\ time'[t] = clock
    BY <2>1 DEF EndTick, Cancelled, TypeOK, Tasks
  <2>3. ~lockAttempted' /\ absentSince' = SinceNow(t)
    BY <1>2, <1>4 DEF MarkAbsent
  <2>4. CASE consecutiveAbsentTicks < ConsensusTicks
    <3>1. /\ absentSince = Never
          /\ held <= MaxErrors * consecutiveAbsentTicks + consecutiveErrorTicks
          /\ consecutiveErrorTicks <= MaxErrors - 1
      BY <1>4, <2>4 DEF Hold
    <3>2. /\ MaxErrors * consecutiveAbsentTicks \in Nat
          /\ MaxErrors * (consecutiveAbsentTicks + 1)
               = MaxErrors * consecutiveAbsentTicks + MaxErrors
      BY <1>1, OneMoreAbsence
    <3>3. held' <= MaxErrors * (consecutiveAbsentTicks + 1)
      <4>1. held + 1 <= MaxErrors * consecutiveAbsentTicks + MaxErrors
        BY ONLY <1>1, <3>1, <3>2
      <4> QED
        BY <1>2, <3>2, <4>1
    <3>4. CASE consecutiveAbsentTicks + 1 < ConsensusTicks
      <4>1. absentSince' = Never
        BY <1>1, <2>3, <3>1, <3>4 DEF SinceNow, Confirmed, AbsentNow
      <4>2. held' <= MaxErrors * consecutiveAbsentTicks' + consecutiveErrorTicks'
        BY <1>1, <1>2, <3>2, <3>3
      <4>3. ~(consecutiveAbsentTicks' >= ConsensusTicks)
        BY <1>1, <1>2, <3>4
      <4> QED
        BY <1>1, <1>2, <2>2, <4>1, <4>2, <4>3 DEF Hold
    <3>5. CASE consecutiveAbsentTicks + 1 = ConsensusTicks
      <4>1. Confirmed /\ absentSince' = time[t]
        BY <1>1, <1>4, <2>3, <3>1, <3>5 DEF SinceNow, Confirmed, AbsentNow
      <4>2. Grace >= 1
        BY <1>1, <1>4, <2>3, <4>1 DEF Fires, Cancelled
      <4>3. held' <= MaxErrors * ConsensusTicks
        BY <3>3, <3>5
      <4>4. MaxErrors * ConsensusTicks \in Nat /\ held' \in Nat
        BY <1>1, <1>2, OneMoreAbsence
      <4>5. GraceUsed'
        BY <1>1, <1>2, <2>2, <4>1, <4>2, <4>3, <4>4 DEF GraceUsed
      <4>6. absentSince' # Never
        BY <4>1, <1>1 DEF Never, TypeOK, Times
      <4>7. ~(consecutiveAbsentTicks' < ConsensusTicks)
        BY <1>1, <1>2, <3>5
      <4> QED
        BY <1>1, <1>2, <2>2, <4>5, <4>6, <4>7 DEF Hold
    <3> QED
      BY <1>1, <2>4, <3>4, <3>5
  <2>5. CASE consecutiveAbsentTicks >= ConsensusTicks
    <3>1. /\ absentSince # Never
          /\ held <= MaxErrors * ConsensusTicks + time[t] - 1 - absentSince
      BY <1>1, <1>4, <2>5 DEF Hold, GraceUsed
    <3>2. Confirmed /\ SinceNow(t) = absentSince
      BY <1>1, <1>4, <2>5, <3>1 DEF SinceNow, Confirmed, AbsentNow
    <3>3. absentSince \in Int /\ ~(time[t] - absentSince >= Grace)
      BY <1>4, <3>1, <3>2 DEF Fires, Cancelled, TypeOK, Times
    <3>4. MaxErrors * ConsensusTicks \in Nat
      BY <1>1, OneMoreAbsence
    <3>5. /\ held + 1 <= MaxErrors * ConsensusTicks + Grace - 1
          /\ held + 1 <= MaxErrors * ConsensusTicks + clock - absentSince
      BY ONLY <1>1, <3>1, <3>3, <3>4
    <3>6. GraceUsed'
      BY <1>1, <1>2, <2>2, <2>3, <3>2, <3>4, <3>5 DEF GraceUsed
    <3>7. ~(consecutiveAbsentTicks' < ConsensusTicks)
      BY <1>1, <1>2, <2>5
    <3> QED
      BY <1>1, <1>2, <2>2, <2>3, <3>1, <3>2, <3>6, <3>7 DEF Hold
  <2> QED
    BY <1>1, <2>4, <2>5
<1> QED
  BY <1>3, <1>4

\* A held error lengthens the streak by one.
LEMMA ErrorHold ==
  ASSUME TypeOK, PastInv, Hold, NEW t \in Loops, t = loopTask,
         loopTask' = loopTask, clock' = clock,
         pc[t] = "recognizing", EndTick(t), ~ErrorsExhausted,
         consecutiveErrorTicks' = consecutiveErrorTicks + 1, held' = held + 1,
         UNCHANGED <<consecutiveAbsentTicks, absentSince, lockAttempted>>
  PROVE  Hold'
<1>1. /\ MaxErrors \in Nat /\ ConsensusTicks \in Nat
      /\ Grace \in Nat /\ held \in Nat /\ consecutiveErrorTicks \in Nat
      /\ consecutiveAbsentTicks \in Nat /\ time[t] \in Int /\ clock \in Int
      /\ time[t] <= clock /\ t # NoTask
      /\ MaxErrors * ConsensusTicks \in Nat
      /\ MaxErrors * consecutiveAbsentTicks \in Nat
  BY ConfigAssumption, TasksAssumption, OneMoreAbsence
     DEF TypeOK, PastInv, Times
<1>2. pc'[t] = "sleeping" /\ time'[t] = clock
  BY DEF EndTick, Cancelled, TypeOK, Tasks
<1>3. consecutiveErrorTicks' <= MaxErrors - 1
  BY <1>1 DEF ErrorsExhausted
<1>4. CASE lockAttempted
  BY <1>1, <1>2, <1>3, <1>4 DEF Hold
<1>5. CASE ~lockAttempted /\ consecutiveAbsentTicks < ConsensusTicks
  <2>1. /\ absentSince = Never
        /\ held <= MaxErrors * consecutiveAbsentTicks + consecutiveErrorTicks
    BY <1>5 DEF Hold
  <2>2. held' <= MaxErrors * consecutiveAbsentTicks + consecutiveErrorTicks'
    BY <1>1, <2>1
  <2> QED
    BY <1>1, <1>2, <1>3, <1>5, <2>1, <2>2 DEF Hold
<1>6. CASE ~lockAttempted /\ consecutiveAbsentTicks >= ConsensusTicks
  <2>1. /\ absentSince # Never
        /\ held <= MaxErrors * ConsensusTicks + Grace - 1 + consecutiveErrorTicks
        /\ held <= MaxErrors * ConsensusTicks + time[t] - 1 - absentSince
    BY <1>1, <1>6 DEF Hold, GraceUsed
  <2>2. absentSince \in Int
    BY <2>1 DEF TypeOK, Times
  <2>3. held + 1 <= MaxErrors * ConsensusTicks + clock - absentSince
    BY ONLY <1>1, <2>1, <2>2
  <2>4. GraceUsed'
    BY <1>1, <1>2, <2>1, <2>3 DEF GraceUsed
  <2> QED
    BY <1>1, <1>2, <1>3, <1>6, <2>1, <2>4 DEF Hold
<1> QED
  BY <1>1, <1>4, <1>5, <1>6

\* Every step keeps the invariant.
LEMMA HoldStep == TypeOK /\ PastInv /\ HoldInv /\ [Next]_vars => HoldInv'
<1> SUFFICES ASSUME TypeOK, PastInv, HoldInv, [Next]_vars, ~intruded'
             PROVE  Hold'
  BY DEF HoldInv
<1>1. ASSUME NEW t \in Loops, CaptureNothing(t, "suspended")
                \/ CaptureNothing(t, "cameraUnavailable") \/ RecognizePresent(t)
      PROVE  Hold'
  <2>1. t = loopTask /\ loopTask' = loopTask
    BY <1>1 DEF CaptureNothing, RecognizePresent, NoteReading, Cancelled
  <2>2. /\ EndTick(t) /\ held' = 0
        /\ consecutiveAbsentTicks' = 0 /\ consecutiveErrorTicks' = 0
        /\ absentSince' = Never
    BY <1>1 DEF CaptureNothing, RecognizePresent, MarkPresent,
                ResetAbsenceAccounting, NoteCleared
  <2> QED
    BY <2>1, <2>2, ClearedHold
<1>2. ASSUME NEW t \in Loops,
             CaptureBusy(t) \/ RecognizeAbsent(t) \/ RecognizeError(t)
      PROVE  Hold'
  <2>1. /\ t = loopTask /\ loopTask' = loopTask /\ clock' = clock /\ Hold
        /\ pc[t] \in {"capturing", "recognizing"}
    BY <1>2 DEF CaptureBusy, RecognizeAbsent, RecognizeError, NoteReading,
                Cancelled, HoldInv
  <2>2. CASE MarkAbsent(t)
    BY <2>1, <2>2, AbsentHold
  <2>3. CASE CaptureBusy(t) /\ ~MarkAbsent(t)
    <3>1. /\ EndTick(t) /\ held' = 0
          /\ consecutiveAbsentTicks' = 0 /\ consecutiveErrorTicks' = 0
          /\ absentSince' = Never
      BY <2>3 DEF CaptureBusy, NoteCleared
    <3> QED
      BY <2>1, <3>1, ClearedHold
  <2>4. CASE RecognizeError(t) /\ ~MarkAbsent(t)
    <3>1. /\ pc[t] = "recognizing" /\ ~ErrorsExhausted /\ EndTick(t)
          /\ consecutiveErrorTicks' = consecutiveErrorTicks + 1
          /\ held' = held + 1
          /\ UNCHANGED <<consecutiveAbsentTicks, absentSince, lockAttempted>>
      BY <2>1, <2>4 DEF RecognizeError, NoteHeld, Cancelled
    <3> QED
      BY <2>1, <3>1, ErrorHold
  <2> QED
    BY <1>2, <2>2, <2>3, <2>4 DEF RecognizeAbsent
<1>3. ASSUME NEW t \in Loops, CaptureFrame(t)
      PROVE  Hold'
  <2>1. t = loopTask /\ t # NoTask /\ ~intruded
    BY <1>3, TasksAssumption DEF CaptureFrame, NoteReading, Cancelled
  <2>2. /\ pc[t] = "capturing" /\ pc'[t] = "recognizing" /\ Hold
        /\ UNCHANGED <<consecutiveAbsentTicks, consecutiveErrorTicks,
                       absentSince, lockAttempted, loopTask, time, held>>
    BY <1>3, <2>1 DEF CaptureFrame, TypeOK, Tasks, HoldInv
  <2> QED
    BY <2>1, <2>2 DEF Hold, GraceUsed
<1>4. ASSUME NEW t \in Loops, BeginTick(t)
      PROVE  Hold'
  <2>1. /\ Hold
        /\ UNCHANGED <<consecutiveAbsentTicks, consecutiveErrorTicks,
                       absentSince, lockAttempted, loopTask, held>>
    BY <1>4 DEF BeginTick, accounting, history, HoldInv
  <2>2. CASE t = loopTask
    <3>1. t # NoTask /\ pc'[t] = "capturing" /\ time'[t] = clock
      BY <1>4, TasksAssumption DEF BeginTick, TypeOK, Tasks
    <3>2. ASSUME ~lockAttempted, consecutiveAbsentTicks >= ConsensusTicks
          PROVE  held <= MaxErrors * ConsensusTicks + clock - 1 - absentSince
      <4>1. pc[t] = "sleeping" /\ clock > time[t]
        BY <1>4, <2>1, <2>2, <3>1, <3>2, ConfigAssumption DEF BeginTick, Hold
      <4>2. held <= MaxErrors * ConsensusTicks + time[t] - absentSince
        BY <2>1, <2>2, <3>1, <3>2, <4>1 DEF Hold, GraceUsed
      <4>3. /\ held \in Int /\ clock \in Int /\ time[t] \in Int
            /\ absentSince \in Int /\ MaxErrors * ConsensusTicks \in Nat
        BY ConfigAssumption, OneMoreAbsence DEF TypeOK, Times, Never
      <4> QED
        BY ONLY <4>1, <4>2, <4>3
    <3> QED
      BY <2>1, <2>2, <3>1, <3>2 DEF Hold, GraceUsed
  <2>3. CASE t # loopTask
    <3>1. loopTask # NoTask => /\ pc'[loopTask] = pc[loopTask]
                               /\ time'[loopTask] = time[loopTask]
      BY <1>4, <2>3 DEF BeginTick, TypeOK, Tasks
    <3> QED
      BY <2>1, <3>1 DEF Hold, GraceUsed
  <2> QED
    BY <2>2, <2>3
<1>5. ASSUME NEW t \in Loops, StartLoop(t)
      PROVE  Hold'
  <2>1. /\ Hold /\ loopTask = NoTask /\ loopTask' = t /\ pc'[t] = "ready"
        /\ UNCHANGED <<consecutiveAbsentTicks, consecutiveErrorTicks,
                       absentSince, lockAttempted, held>>
    BY <1>5 DEF StartLoop, accounting, history, HoldInv, TypeOK, Tasks
  <2> QED
    BY <2>1, ConfigAssumption DEF Hold
<1>6. ASSUME NEW m \in Menus, LockNow(m)
      PROVE  Hold'
  <2>1. /\ Hold
        /\ UNCHANGED <<consecutiveAbsentTicks, consecutiveErrorTicks,
                       absentSince, lockAttempted, loopTask, time, held>>
    BY <1>6 DEF LockNow, accounting, history, HoldInv
  <2>2. loopTask # NoTask => pc'[loopTask] = pc[loopTask]
    BY <1>6, TasksAssumption DEF LockNow, TypeOK, Tasks
  <2> QED
    BY <2>1, <2>2 DEF Hold, GraceUsed
<1>7. ASSUME NEW t \in Tasks, NEW ok \in BOOLEAN, LockReturns(t, ok)
      PROVE  Hold'
  <2>1. /\ Hold /\ pc[t] = "locking"
        /\ UNCHANGED <<consecutiveErrorTicks, lockAttempted, loopTask>>
        /\ \/ /\ consecutiveAbsentTicks' = 0 /\ absentSince' = Never
              /\ held' = 0
           \/ UNCHANGED <<consecutiveAbsentTicks, absentSince, held>>
    BY <1>7 DEF LockReturns, HoldInv
  <2>2. CASE t = loopTask
    <3>1. t \in Loops /\ t # NoTask
      BY <2>2, TasksAssumption DEF TypeOK, Tasks
    <3>2. pc'[t] = "sleeping"
      BY <1>7, <2>2, <3>1 DEF LockReturns, EndTick, Cancelled, TypeOK, Tasks
    <3>3. lockAttempted
      BY <2>1, <2>2, <3>1 DEF Hold
    <3> QED
      BY <2>1, <2>2, <3>1, <3>2, <3>3 DEF Hold
  <2>3. CASE t # loopTask
    <3>1. loopTask # NoTask => /\ pc'[loopTask] = pc[loopTask]
                               /\ time'[loopTask] = time[loopTask]
      BY <1>7, <2>3 DEF LockReturns, EndTick, TypeOK, Tasks
    <3>2. CASE UNCHANGED <<consecutiveAbsentTicks, absentSince, held>>
      BY <2>1, <3>1, <3>2 DEF Hold, GraceUsed
    <3>3. CASE consecutiveAbsentTicks' = 0 /\ absentSince' = Never /\ held' = 0
      BY <2>1, <3>1, <3>3, ConfigAssumption DEF Hold, TypeOK
    <3> QED
      BY <2>1, <3>2, <3>3
  <2> QED
    BY <2>2, <2>3
<1>8. ASSUME NEW s \in DisabledState, Disable(s)
      PROVE  Hold'
  BY <1>8, ConfigAssumption
     DEF Disable, ResetAbsenceAccounting, NoteCleared, Hold
<1>9. CASE Advance \/ UNCHANGED vars
  BY <1>9 DEF Advance, vars, accounting, history, HoldInv, Hold, GraceUsed
<1> QED
  BY <1>1, <1>2, <1>3, <1>4, <1>5, <1>6, <1>7, <1>8, <1>9 DEF Next, Tick

\* No mixture of absences, recognizer errors and expired busy readings keeps
\* the Mac unlocked beyond the bound the tunables give (EC-10 and ADR-0003;
\* PresenceEngine.swift:69-80,99-106).
THEOREM FailOpenBoundedHolds == Spec => []FailOpenBounded
<1>1. Init => PastInv /\ HoldInv
  BY ConfigAssumption DEF Init, PastInv, HoldInv, Hold
<1>2. TypeOK /\ HoldInv => FailOpenBounded
  BY HoldBounds
<1> QED
  BY <1>1, <1>2, PastStep, HoldStep, TypeCorrect, PTL DEF Spec

-----------------------------------------------------------------------------
(***************************************************************************)
(* The call window.  It opens at the tick of the first busy reading, and   *)
(* the busy readings counted since are at least an interval apart.         *)
(***************************************************************************)
\* The readings counted while the window is open.
WindowUsed(t) ==
  /\ pc[t] = "capturing" =>
       /\ callFrom <= time[t]
       /\ callAssumedSince # Never => busyRun <= time[t] - callAssumedSince
  /\ pc[t] = "sleeping" /\ callAssumedSince # Never
       => busyRun <= time[t] - callAssumedSince + 1
  /\ pc[t] = "locking" /\ callAssumedSince # Never
       => busyRun <= clock - callAssumedSince + 1

Call ==
  /\ callAssumedSince # Never => callFrom <= callAssumedSince
  /\ callAssumedSince = Never => busyRun = 0
  /\ state = "callAssumedPresent" => ~lockAttempted /\ busyRun <= MaxCall
  /\ loopTask = NoTask => callAssumedSince = Never
  /\ loopTask # NoTask =>
       /\ pc[loopTask] # "off"
       /\ pc[loopTask] \in {"ready", "recognizing"} => callAssumedSince = Never
       /\ WindowUsed(loopTask)

CallInv == callFrom <= clock /\ (~intruded => Call)

\* A reading other than busy closes the window.
LEMMA ClosedCall ==
  ASSUME TypeOK, NEW t \in Loops, t = loopTask, loopTask' = loopTask,
         EndTick(t), callAssumedSince' = Never, busyRun' = 0,
         state' # "callAssumedPresent"
  PROVE  Call'
<1>1. pc'[t] = "sleeping" /\ t # NoTask
  BY TasksAssumption DEF EndTick, Cancelled, TypeOK, Tasks
<1> QED
  BY <1>1 DEF Call, WindowUsed

\* A busy reading that comes in the open window, or opens it, or ends it.
LEMMA BusyCall ==
  ASSUME TypeOK, PastInv, CallInv, ~intruded, NEW t \in Loops, t = loopTask,
         CaptureBusy(t)
  PROVE  Call'
<1>1. /\ Call /\ t # NoTask /\ pc[t] = "capturing"
      /\ callFrom <= time[t] /\ time[t] <= clock
      /\ time[t] \in Nat /\ clock \in Nat /\ callFrom \in Nat
      /\ busyRun \in Nat /\ MaxCall \in Nat
  BY TasksAssumption, ConfigAssumption
     DEF CaptureBusy, CallInv, Call, WindowUsed, PastInv, TypeOK, Times
<1>2. /\ busyRun' = busyRun + 1 /\ callFrom' = callFrom /\ loopTask' = t
      /\ clock' = clock /\ callAssumedSince' = WindowStart(t)
  BY DEF CaptureBusy, Cancelled
<1>3. /\ WindowStart(t) \in Nat /\ WindowStart(t) # Never
      /\ callFrom <= WindowStart(t) /\ WindowStart(t) <= time[t] + 1
      /\ busyRun + 1 <= time[t] - WindowStart(t) + 1
  <2>1. CASE callAssumedSince = Never
    BY <1>1, <2>1 DEF WindowStart, Call, Never
  <2>2. CASE callAssumedSince # Never
    BY <1>1, <2>2 DEF WindowStart, Call, WindowUsed, TypeOK, Times
  <2> QED
    BY <2>1, <2>2
<1>4. busyRun' <= clock' - callAssumedSince' + 1
  BY <1>1, <1>2, <1>3
<1>5. CASE time[t] - WindowStart(t) >= MaxCall
  <2>1. MarkAbsent(t)
    BY <1>5 DEF CaptureBusy
  <2>2. \/ pc'[t] = "locking"
        \/ pc'[t] = "sleeping" /\ time'[t] = clock
    BY <2>1 DEF MarkAbsent, EndTick, Cancelled, TypeOK, Tasks
  <2>3. state' # "callAssumedPresent"
    BY <1>1, <2>1 DEF MarkAbsent, Call
  <2> QED
    BY <1>1, <1>2, <1>3, <1>4, <2>2, <2>3 DEF Call, WindowUsed
<1>6. CASE ~(time[t] - WindowStart(t) >= MaxCall)
  <2>1. EndTick(t) /\ lockAttempted' = FALSE
    BY <1>6 DEF CaptureBusy
  <2>2. pc'[t] = "sleeping" /\ time'[t] = clock
    BY <2>1 DEF EndTick, Cancelled, TypeOK, Tasks
  <2>3. busyRun' <= MaxCall
    BY <1>1, <1>2, <1>3, <1>6
  <2> QED
    BY <1>1, <1>2, <1>3, <1>4, <2>1, <2>2, <2>3 DEF Call, WindowUsed
<1> QED
  BY <1>5, <1>6

\* The last reading other than busy is not in the future.
LEMMA CallFromStep == TypeOK /\ callFrom <= clock /\ [Next]_vars
                        => callFrom' <= clock'
<1> SUFFICES ASSUME TypeOK, callFrom <= clock, [Next]_vars
             PROVE  callFrom' <= clock'
  OBVIOUS
<1>1. callFrom \in Int /\ clock \in Int
  BY DEF TypeOK, Times
<1>2. /\ callFrom' \in {callFrom, clock}
      /\ clock' \in {clock, clock + 1}
  BY DEF Next, Tick, vars, history, accounting, StartLoop, BeginTick,
         CaptureNothing, CaptureBusy, CaptureFrame, RecognizePresent,
         RecognizeAbsent, RecognizeError, LockNow, LockReturns, Disable,
         Advance, NoteNotBusy
<1> QED
  BY <1>1, <1>2

\* Every step keeps the invariant.
LEMMA CallStep == TypeOK /\ PastInv /\ CallInv /\ [Next]_vars => CallInv'
<1> SUFFICES ASSUME TypeOK, PastInv, CallInv, [Next]_vars, ~intruded'
             PROVE  Call'
  BY CallFromStep DEF CallInv
<1>1. ASSUME NEW t \in Loops, CaptureNothing(t, "suspended")
                \/ CaptureNothing(t, "cameraUnavailable") \/ RecognizePresent(t)
      PROVE  Call'
  <2>1. t = loopTask /\ loopTask' = loopTask
    BY <1>1 DEF CaptureNothing, RecognizePresent, NoteReading, Cancelled
  <2>2. /\ EndTick(t) /\ callAssumedSince' = Never /\ busyRun' = 0
        /\ state' # "callAssumedPresent"
    BY <1>1 DEF CaptureNothing, RecognizePresent, MarkPresent,
                ResetAbsenceAccounting, NoteNotBusy
  <2> QED
    BY <2>1, <2>2, ClosedCall
<1>2. ASSUME NEW t \in Loops, CaptureBusy(t)
      PROVE  Call'
  BY <1>2, BusyCall DEF CaptureBusy, NoteReading, Cancelled
<1>3. ASSUME NEW t \in Loops, CaptureFrame(t)
      PROVE  Call'
  <2>1. t = loopTask /\ t # NoTask /\ ~intruded
    BY <1>3, TasksAssumption DEF CaptureFrame, NoteReading, Cancelled
  <2>2. /\ pc'[t] = "recognizing" /\ loopTask' = loopTask
        /\ callAssumedSince' = Never /\ busyRun' = 0
        /\ UNCHANGED <<state, lockAttempted>>
    BY <1>3 DEF CaptureFrame, NoteNotBusy, TypeOK, Tasks
  <2> QED
    BY <2>1, <2>2, ConfigAssumption DEF Call, WindowUsed, CallInv
<1>4. ASSUME NEW t \in Loops, RecognizeAbsent(t) \/ RecognizeError(t)
      PROVE  Call'
  <2>1. /\ t = loopTask /\ t # NoTask /\ Call /\ pc[t] = "recognizing"
        /\ UNCHANGED <<callAssumedSince, busyRun, loopTask>>
    BY <1>4, TasksAssumption
       DEF RecognizeAbsent, RecognizeError, NoteReading, Cancelled, CallInv
  <2>2. callAssumedSince = Never /\ busyRun = 0
    BY <2>1 DEF Call
  <2>3. pc'[t] \in {"locking", "sleeping"}
    BY <1>4, <2>1 DEF RecognizeAbsent, RecognizeError, MarkAbsent, EndTick,
                      Cancelled, TypeOK, Tasks
  <2>4. state' = "callAssumedPresent" => ~lockAttempted'
    BY <1>4, <2>1 DEF RecognizeAbsent, RecognizeError, MarkAbsent, Call
  <2> QED
    BY <2>1, <2>2, <2>3, <2>4, ConfigAssumption DEF Call, WindowUsed
<1>5. ASSUME NEW t \in Loops, BeginTick(t)
      PROVE  Call'
  <2>1. /\ Call /\ callFrom <= clock
        /\ UNCHANGED <<state, lockAttempted, callAssumedSince, callFrom,
                       busyRun, loopTask, clock>>
    BY <1>5 DEF BeginTick, accounting, history, CallInv
  <2>2. CASE t = loopTask
    <3>1. t # NoTask /\ pc'[t] = "capturing" /\ time'[t] = clock
      BY <1>5, TasksAssumption DEF BeginTick, TypeOK, Tasks
    <3>2. ASSUME callAssumedSince # Never
          PROVE  busyRun <= clock - callAssumedSince
      <4>1. pc[t] = "sleeping" /\ clock > time[t]
        BY <1>5, <2>1, <2>2, <3>1, <3>2 DEF BeginTick, Call
      <4>2. busyRun <= time[t] - callAssumedSince + 1
        BY <2>1, <2>2, <3>1, <3>2, <4>1 DEF Call, WindowUsed
      <4>3. /\ busyRun \in Int /\ clock \in Int /\ time[t] \in Int
            /\ callAssumedSince \in Int
        BY DEF TypeOK, Times, Never
      <4> QED
        BY ONLY <4>1, <4>2, <4>3
    <3> QED
      BY <2>1, <2>2, <3>1, <3>2 DEF Call, WindowUsed
  <2>3. CASE t # loopTask
    <3>1. loopTask # NoTask => /\ pc'[loopTask] = pc[loopTask]
                               /\ time'[loopTask] = time[loopTask]
      BY <1>5, <2>3 DEF BeginTick, TypeOK, Tasks
    <3> QED
      BY <2>1, <3>1 DEF Call, WindowUsed
  <2> QED
    BY <2>2, <2>3
<1>6. ASSUME NEW t \in Loops, StartLoop(t)
      PROVE  Call'
  <2>1. /\ Call /\ loopTask = NoTask /\ loopTask' = t /\ pc'[t] = "ready"
        /\ UNCHANGED <<state, lockAttempted, callAssumedSince, callFrom,
                       busyRun>>
    BY <1>6 DEF StartLoop, accounting, history, CallInv, TypeOK, Tasks
  <2>2. t # NoTask
    BY TasksAssumption
  <2> QED
    BY <2>1, <2>2 DEF Call, WindowUsed
<1>7. ASSUME NEW m \in Menus, LockNow(m)
      PROVE  Call'
  <2>1. /\ Call
        /\ UNCHANGED <<state, lockAttempted, callAssumedSince, callFrom,
                       busyRun, loopTask, time, clock>>
    BY <1>7 DEF LockNow, accounting, history, CallInv
  <2>2. loopTask # NoTask => pc'[loopTask] = pc[loopTask]
    BY <1>7, TasksAssumption DEF LockNow, TypeOK, Tasks
  <2> QED
    BY <2>1, <2>2 DEF Call, WindowUsed
<1>8. ASSUME NEW t \in Tasks, NEW ok \in BOOLEAN, LockReturns(t, ok)
      PROVE  Call'
  <2>1. /\ Call /\ pc[t] = "locking" /\ state' # "callAssumedPresent"
        /\ UNCHANGED <<lockAttempted, callAssumedSince, callFrom, busyRun,
                       loopTask, clock>>
    BY <1>8 DEF LockReturns, CallInv
  <2>2. CASE t = loopTask
    <3>1. t \in Loops /\ t # NoTask
      BY <2>2, TasksAssumption DEF TypeOK, Tasks
    <3>2. pc'[t] = "sleeping" /\ time'[t] = clock
      BY <1>8, <2>2, <3>1 DEF LockReturns, EndTick, Cancelled, TypeOK, Tasks
    <3> QED
      BY <2>1, <2>2, <3>1, <3>2 DEF Call, WindowUsed
  <2>3. CASE t # loopTask
    <3>1. loopTask # NoTask => /\ pc'[loopTask] = pc[loopTask]
                               /\ time'[loopTask] = time[loopTask]
      BY <1>8, <2>3 DEF LockReturns, EndTick, TypeOK, Tasks
    <3> QED
      BY <2>1, <3>1 DEF Call, WindowUsed
  <2> QED
    BY <2>2, <2>3
<1>9. ASSUME NEW s \in DisabledState, Disable(s)
      PROVE  Call'
  BY <1>9 DEF Disable, DisabledState, ResetAbsenceAccounting, NoteNotBusy, Call
<1>10. CASE Advance
  <2>1. busyRun \in Int /\ clock \in Int /\ callAssumedSince \in Int
    BY DEF TypeOK, Times, Never
  <2> QED
    BY <1>10, <2>1 DEF Advance, accounting, history, CallInv, Call, WindowUsed
<1>11. CASE UNCHANGED vars
  BY <1>11 DEF vars, accounting, history, CallInv, Call, WindowUsed
<1> QED
  BY <1>1, <1>2, <1>3, <1>4, <1>5, <1>6, <1>7, <1>8, <1>9, <1>10, <1>11
     DEF Next, Tick

\* The invariant of the call window holds.
LEMMA CallInvHolds == Spec => [](PastInv /\ CallInv)
<1>1. Init => PastInv /\ CallInv
  BY DEF Init, PastInv, CallInv, Call
<1> QED
  BY <1>1, PastStep, CallStep, TypeCorrect, PTL DEF Spec

\* A camera that stays busy is taken for a call for MaxCall ticks at most,
\* however the busy readings mix with others (PresenceEngine.swift:99-117).
THEOREM CallHoldBoundedHolds == Spec => []CallHoldBounded
<1>1. CallInv => CallHoldBounded
  BY DEF CallInv, Call, CallHoldBounded
<1> QED
  BY <1>1, CallInvHolds, PTL

\* A tick that goes from its capture straight to the lock found the window
\* expired.
LEMMA BusyLocks ==
  ASSUME TypeOK, [Next]_vars, NEW t \in Loops, t \notin Menus,
         pc[t] = "capturing", pc'[t] = "locking"
  PROVE  time[t] - WindowStart(t) >= MaxCall
<1>1. t \in Tasks
  BY DEF Tasks
<1>2. ASSUME NEW u \in Loops, CaptureBusy(u)
      PROVE  time[t] - WindowStart(t) >= MaxCall
  BY <1>1, <1>2 DEF CaptureBusy, MarkAbsent, EndTick, TypeOK, Tasks
<1>3. ASSUME NEW u \in Loops, RecognizeAbsent(u) \/ RecognizeError(u)
      PROVE  FALSE
  BY <1>1, <1>3 DEF RecognizeAbsent, RecognizeError, MarkAbsent, EndTick,
                    TypeOK, Tasks
<1>4. ASSUME NEW u \in Loops, CaptureNothing(u, "suspended")
                \/ CaptureNothing(u, "cameraUnavailable")
                \/ RecognizePresent(u) \/ CaptureFrame(u) \/ BeginTick(u)
                \/ StartLoop(u)
      PROVE  FALSE
  BY <1>1, <1>4 DEF CaptureNothing, RecognizePresent, MarkPresent, EndTick,
                    CaptureFrame, BeginTick, StartLoop, TypeOK, Tasks
<1>5. ASSUME NEW m \in Menus, LockNow(m)
      PROVE  FALSE
  BY <1>1, <1>5 DEF LockNow, TypeOK, Tasks
<1>6. ASSUME NEW u \in Tasks, NEW ok \in BOOLEAN, LockReturns(u, ok)
      PROVE  FALSE
  BY <1>1, <1>6 DEF LockReturns, EndTick, TypeOK, Tasks
<1>7. ASSUME NEW s \in DisabledState, Disable(s)
      PROVE  FALSE
  BY <1>1, <1>7 DEF Disable
<1>8. CASE Advance \/ UNCHANGED vars
  BY <1>8 DEF Advance, vars
<1> QED
  BY <1>2, <1>3, <1>4, <1>5, <1>6, <1>7, <1>8 DEF Next, Tick

\* A busy reading locks only at the end of a whole window (ND-033,
\* PresenceEngine.swift:119-132).
THEOREM FreshCallNeverLocksHolds == Spec => FreshCallNeverLocks
<1>1. TypeOK /\ PastInv /\ CallInv /\ [Next]_vars
        => [\A t \in Loops :
              AutoLockStarts(t) /\ pc[t] = "capturing" /\ ~intruded
                => clock - callFrom >= MaxCall]_vars
  <2> SUFFICES ASSUME TypeOK, PastInv, CallInv, [Next]_vars, ~intruded,
                      NEW t \in Loops, AutoLockStarts(t), pc[t] = "capturing"
               PROVE  clock - callFrom >= MaxCall
    OBVIOUS
  <2>1. t \in Tasks /\ t \notin Menus /\ t # NoTask
    BY TasksAssumption DEF Tasks
  <2>2. LoopLocks(t)
    BY <2>1, LockSteps
       DEF LockStep, LockStays, LockEnds, LockStarts, LoopLocks, AutoLockStarts
  <2>3. t = loopTask
    BY <2>2 DEF LoopLocks, Fires, Cancelled
  <2>4. time[t] - WindowStart(t) >= MaxCall
    BY <2>1, BusyLocks DEF AutoLockStarts
  <2>5. /\ callFrom <= WindowStart(t) /\ WindowStart(t) \in Int
        /\ time[t] <= clock
    BY <2>1, <2>3 DEF WindowStart, CallInv, Call, WindowUsed, PastInv, TypeOK,
                      Times, Never
  <2>6. /\ time[t] \in Int /\ clock \in Int /\ callFrom \in Int
        /\ MaxCall \in Int
    BY ConfigAssumption DEF TypeOK, Times
  <2> QED
    BY ONLY <2>4, <2>5, <2>6
<1> QED
  BY <1>1, CallInvHolds, TypeCorrect, PTL DEF Spec, FreshCallNeverLocks

=============================================================================
