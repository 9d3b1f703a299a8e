---------------------------- MODULE PresenceEngine ----------------------------
(***************************************************************************)
(* The decision core: PresenceEngine.swift, together with the loop task    *)
(* that ticks it (main.swift, startLoop and stopLoop), the menu's "Lock    *)
(* now" tasks and the reset calls of the enforcement gate.                 *)
(*                                                                         *)
(* Everything runs on the main actor, so code is atomic between two awaits *)
(* and every action below is one such stretch.  A tick suspends at         *)
(* camera.capture(), recognizer.recognize() and locker.lock(); cancelling  *)
(* the loop does not abort a suspended tick, so ticks of a cancelled loop  *)
(* and of its successor may be in flight together.                         *)
(*                                                                         *)
(* One unit of time is one tick interval (Config.tickIntervalSeconds).     *)
(***************************************************************************)
EXTENDS Integers

CONSTANTS
  Loops,            \* identities of loop tasks; bounds the loops alive at once
  Menus,            \* identities of "Lock now" tasks in flight at once
  NoTask,           \* loopTask == nil
  ConsensusTicks,   \* Config.consecutiveAbsentTicksToLock
  Grace,            \* Config.graceSeconds
  MaxErrors,        \* Config.maxConsecutiveErrorsBeforeAbsent
  MaxCall,          \* Config.maxCallAssumedPresentSeconds
  MaxClock          \* bound on the clock

ASSUME TasksAssumption ==
  NoTask \notin Loops \cup Menus /\ Loops \cap Menus = {}

ASSUME ConfigAssumption ==
  /\ ConsensusTicks \in Nat \ {0}
  /\ MaxErrors \in Nat \ {0}
  /\ Grace \in Nat
  /\ MaxCall \in Nat
  /\ MaxClock \in Nat

VARIABLES
  state,                    \* what the menu bar shows
  consecutiveAbsentTicks,
  consecutiveErrorTicks,
  absentSince,
  lockAttempted,
  isLocking,
  callAssumedSince,
  loopTask,                 \* the task the app delegate holds, or NoTask
  pc,                       \* where each task is suspended
  time,                     \* loop task: Date() of its tick, or of its last sleep
  clock

(***************************************************************************)
(* History variables: they observe the engine, no action depends on them.  *)
(***************************************************************************)
VARIABLES
  clearedAt,   \* when a reading or a reset last cleared the absence
  intruded,    \* a cancelled task applied a reading since the last gate reset
  attempts,    \* automatic lock() calls since the absence was last cleared
  held,        \* the loop's ticks since then that did not clear it
  callFrom,    \* when the last reading other than "busy", or reset, came in
  busyRun      \* the loop's busy readings since then

accounting == <<consecutiveAbsentTicks, consecutiveErrorTicks, absentSince,
                lockAttempted, callAssumedSince>>
history == <<clearedAt, intruded, attempts, held, callFrom, busyRun>>
vars == <<state, accounting, isLocking, loopTask, pc, time, clock, history>>

Never == -1
Tasks == Loops \cup Menus
Times == 0 .. MaxClock

PresenceState == {"unknown", "present", "absent", "paused", "trustedNetwork",
                  "callAssumedPresent", "suspended", "cameraUnavailable",
                  "lockFailed"}

\* The states the gate's reset calls set: sessionSuspended, pause and
\* disabledOnTrustedNetwork.
DisabledState == {"suspended", "paused", "trustedNetwork"}

\* Mutant: stopLoop drops its handle and does not cancel the task.
NeverCancelled(t) == FALSE

\* The app cancels a loop task exactly when it drops it.
Cancelled(t) == t # loopTask

-----------------------------------------------------------------------------
Init ==
  /\ state = "unknown"
  /\ consecutiveAbsentTicks = 0
  /\ consecutiveErrorTicks = 0
  /\ absentSince = Never
  /\ lockAttempted = FALSE
  /\ isLocking = FALSE
  /\ callAssumedSince = Never
  /\ loopTask = NoTask
  /\ pc = [t \in Tasks |-> "off"]
  /\ time = [t \in Loops |-> 0]
  /\ clock = 0
  /\ clearedAt = 0
  /\ intruded = FALSE
  /\ attempts = 0
  /\ held = 0
  /\ callFrom = 0
  /\ busyRun = 0

(***************************************************************************)
(* What a reading or a reset does to the accounting.                       *)
(***************************************************************************)
\* Mutant: the grace countdown of an earlier episode survives the reset.
ResetKeepingCountdown ==
  /\ consecutiveAbsentTicks' = 0
  /\ lockAttempted' = FALSE
  /\ consecutiveErrorTicks' = 0
  /\ callAssumedSince' = Never
  /\ UNCHANGED absentSince

\* Mutant: the window of an earlier call survives the reset (ND-033).
ResetKeepingCallWindow ==
  /\ consecutiveAbsentTicks' = 0
  /\ absentSince' = Never
  /\ lockAttempted' = FALSE
  /\ consecutiveErrorTicks' = 0
  /\ UNCHANGED callAssumedSince

ResetAbsenceAccounting ==
  /\ consecutiveAbsentTicks' = 0
  /\ absentSince' = Never
  /\ lockAttempted' = FALSE
  /\ consecutiveErrorTicks' = 0
  /\ callAssumedSince' = Never

\* The observers' view of an absence that has been cleared.
NoteCleared ==
  /\ clearedAt' = clock
  /\ attempts' = 0
  /\ held' = 0

\* The observers' view of a reading of t that leaves the absence standing.
NoteHeld(t) ==
  /\ held' = IF Cancelled(t) THEN held ELSE held + 1
  /\ UNCHANGED clearedAt

NoteReading(t) == intruded' = (intruded \/ Cancelled(t))

NoteNotBusy == callFrom' = clock /\ busyRun' = 0

\* Back in the loop after tick(): a cancelled loop ends, another one sleeps.
EndTick(t) ==
  /\ pc' = [pc EXCEPT ![t] = IF Cancelled(t) THEN "off" ELSE "sleeping"]
  /\ time' = [time EXCEPT ![t] = IF Cancelled(t) THEN 0 ELSE clock]

MarkPresent(t, newState) ==
  /\ state' = newState
  /\ ResetAbsenceAccounting
  /\ NoteCleared
  /\ UNCHANGED isLocking
  /\ EndTick(t)

(***************************************************************************)
(* markAbsent up to its end or to the await in attemptLock.                *)
(***************************************************************************)
AbsentNow == consecutiveAbsentTicks + 1

\* Mutant: an attempt is not terminal for its episode.
ConfirmedAgain == AbsentNow >= ConsensusTicks

Confirmed == ~lockAttempted /\ AbsentNow >= ConsensusTicks

\* Mutant: the countdown is back-dated by the consensus it waited for.
SinceFirstAbsence(t) == time[t] - ConsensusTicks

SinceNow(t) == IF Confirmed /\ absentSince = Never THEN time[t] ELSE absentSince

Fires(t) ==
  /\ Confirmed
  /\ time[t] - SinceNow(t) >= Grace
  /\ ~Cancelled(t)

MarkAbsent(t) ==
  /\ consecutiveErrorTicks' = 0
  /\ consecutiveAbsentTicks' = AbsentNow
  /\ absentSince' = SinceNow(t)
  /\ state' = IF lockAttempted \/ state = "lockFailed" THEN state ELSE "absent"
  /\ lockAttempted' = (lockAttempted \/ Fires(t))
  /\ IF Fires(t) /\ ~isLocking
     THEN /\ isLocking' = TRUE
          /\ pc' = [pc EXCEPT ![t] = "locking"]
          /\ attempts' = attempts + 1
          /\ UNCHANGED time
     ELSE /\ UNCHANGED <<isLocking, attempts>>
          /\ EndTick(t)
  /\ NoteHeld(t)

-----------------------------------------------------------------------------
(***************************************************************************)
(* The loop task.                                                          *)
(***************************************************************************)
StartLoop(t) ==
  /\ loopTask = NoTask
  /\ pc[t] = "off"
  /\ loopTask' = t
  /\ pc' = [pc EXCEPT ![t] = "ready"]
  /\ UNCHANGED <<state, accounting, isLocking, time, clock, history>>

\* The loop body begins: at once, or after a sleep of one interval.
BeginTick(t) ==
  /\ \/ pc[t] = "ready"
     \/ pc[t] = "sleeping" /\ clock > time[t]
  /\ pc' = [pc EXCEPT ![t] = "capturing"]
  /\ time' = [time EXCEPT ![t] = clock]
  /\ UNCHANGED <<state, accounting, isLocking, loopTask, clock, history>>

\* capture() yields .suspended or .unavailable.
CaptureNothing(t, newState) ==
  /\ pc[t] = "capturing"
  /\ MarkPresent(t, newState)     \* the same effect: set the state, clear all
  /\ NoteReading(t)
  /\ NoteNotBusy
  /\ UNCHANGED <<loopTask, clock>>

\* capture() yields .cameraBusyNoFrames: handleCameraBusy.
\* Mutant: every busy reading opens the window anew.
WindowRestarted(t) == time[t]

WindowStart(t) == IF callAssumedSince = Never THEN time[t] ELSE callAssumedSince

CaptureBusy(t) ==
  /\ pc[t] = "capturing"
  /\ IF time[t] - WindowStart(t) >= MaxCall
     THEN MarkAbsent(t)
     ELSE /\ state' = "callAssumedPresent"
          /\ consecutiveAbsentTicks' = 0
          /\ absentSince' = Never
          /\ lockAttempted' = FALSE
          /\ consecutiveErrorTicks' = 0
          /\ NoteCleared
          /\ UNCHANGED isLocking
          /\ EndTick(t)
  /\ callAssumedSince' = WindowStart(t)
  /\ NoteReading(t)
  /\ busyRun' = IF Cancelled(t) THEN busyRun ELSE busyRun + 1
  /\ UNCHANGED <<callFrom, loopTask, clock>>

\* capture() yields a frame: tick() goes on to await recognize().
CaptureFrame(t) ==
  /\ pc[t] = "capturing"
  /\ callAssumedSince' = Never
  /\ pc' = [pc EXCEPT ![t] = "recognizing"]
  /\ NoteReading(t)
  /\ NoteNotBusy
  /\ UNCHANGED <<state, consecutiveAbsentTicks, consecutiveErrorTicks,
                 absentSince, lockAttempted, isLocking, loopTask, time, clock,
                 clearedAt, attempts, held>>

RecognizePresent(t) ==
  /\ pc[t] = "recognizing"
  /\ MarkPresent(t, "present")
  /\ NoteReading(t)
  /\ NoteNotBusy
  /\ UNCHANGED <<loopTask, clock>>

\* .strangerOnly and .noFace are handled alike.
RecognizeAbsent(t) ==
  /\ pc[t] = "recognizing"
  /\ MarkAbsent(t)
  /\ NoteReading(t)
  /\ UNCHANGED <<callAssumedSince, callFrom, busyRun, loopTask, clock>>

\* .error: a bounded hold, then an absence.
\* Mutant: one error too many is held.
ErrorsExceeded == consecutiveErrorTicks + 1 > MaxErrors

ErrorsExhausted == consecutiveErrorTicks + 1 >= MaxErrors

RecognizeError(t) ==
  /\ pc[t] = "recognizing"
  /\ IF ErrorsExhausted
     THEN MarkAbsent(t)
     ELSE /\ consecutiveErrorTicks' = consecutiveErrorTicks + 1
          /\ NoteHeld(t)
          /\ EndTick(t)
          /\ UNCHANGED <<state, consecutiveAbsentTicks, absentSince,
                         lockAttempted, isLocking, attempts>>
  /\ NoteReading(t)
  /\ UNCHANGED <<callAssumedSince, callFrom, busyRun, loopTask, clock>>

(***************************************************************************)
(* attemptLock: the menu's entry, and the end of the await for any task.   *)
(* A menu task that finds isLocking set returns at once, changing nothing. *)
(***************************************************************************)
\* Mutant: isLocking is not consulted.
LockNowRegardless(m) ==
  /\ pc[m] = "off"
  /\ isLocking' = TRUE
  /\ pc' = [pc EXCEPT ![m] = "locking"]
  /\ UNCHANGED <<state, accounting, loopTask, time, clock, history>>

LockNow(m) ==
  /\ pc[m] = "off"
  /\ ~isLocking
  /\ isLocking' = TRUE
  /\ pc' = [pc EXCEPT ![m] = "locking"]
  /\ UNCHANGED <<state, accounting, loopTask, time, clock, history>>

LockReturns(t, ok) ==
  /\ pc[t] = "locking"
  /\ isLocking' = FALSE
  /\ IF ok
     THEN /\ state' = "suspended"
          /\ consecutiveAbsentTicks' = 0
          /\ absentSince' = Never
          /\ held' = 0
     ELSE /\ state' = "lockFailed"
          /\ UNCHANGED <<consecutiveAbsentTicks, absentSince, held>>
  /\ IF t \in Loops
     THEN EndTick(t)
     ELSE pc' = [pc EXCEPT ![t] = "off"] /\ UNCHANGED time
  /\ UNCHANGED <<consecutiveErrorTicks, lockAttempted, callAssumedSince,
                 loopTask, clock, clearedAt, intruded, attempts, callFrom,
                 busyRun>>

(***************************************************************************)
(* The gate, when enforcement is off: stopLoop if a loop runs, then one of *)
(* sessionSuspended, pause and disabledOnTrustedNetwork.  A loop that is   *)
(* asleep or not yet begun ends without another step of its own.           *)
(***************************************************************************)
Disable(newState) ==
  /\ state' = newState
  /\ ResetAbsenceAccounting
  /\ loopTask' = NoTask
  /\ pc' = [t \in Tasks |-> IF pc[t] \in {"ready", "sleeping"} THEN "off"
                                                              ELSE pc[t]]
  /\ time' = [t \in Loops |-> IF pc'[t] = "off" THEN 0 ELSE time[t]]
  /\ NoteCleared
  /\ NoteNotBusy
  /\ intruded' = FALSE
  /\ UNCHANGED <<isLocking, clock>>

Advance ==
  /\ clock < MaxClock
  /\ clock' = clock + 1
  /\ UNCHANGED <<state, accounting, isLocking, loopTask, pc, time, history>>

-----------------------------------------------------------------------------
Tick(t) ==
  \/ BeginTick(t)
  \/ CaptureNothing(t, "suspended")
  \/ CaptureNothing(t, "cameraUnavailable")
  \/ CaptureBusy(t)
  \/ CaptureFrame(t)
  \/ RecognizePresent(t)
  \/ RecognizeAbsent(t)
  \/ RecognizeError(t)

Next ==
  \/ \E t \in Loops : StartLoop(t) \/ Tick(t)
  \/ \E m \in Menus : LockNow(m)
  \/ \E t \in Tasks : LockReturns(t, TRUE) \/ LockReturns(t, FALSE)
  \/ \E s \in DisabledState : Disable(s)
  \/ Advance

Spec == Init /\ [][Next]_vars

-----------------------------------------------------------------------------
(***************************************************************************)
(* Properties.                                                             *)
(***************************************************************************)
TaskStep == {"off", "ready", "capturing", "recognizing", "locking", "sleeping"}

\* Every variable has its type; timestamps never lie outside the clock's range.
TypeOK ==
  /\ state \in PresenceState
  /\ consecutiveAbsentTicks \in Nat
  /\ consecutiveErrorTicks \in Nat
  /\ absentSince \in Times \cup {Never}
  /\ lockAttempted \in BOOLEAN
  /\ isLocking \in BOOLEAN
  /\ callAssumedSince \in Times \cup {Never}
  /\ loopTask \in Loops \cup {NoTask}
  /\ pc \in [Tasks -> TaskStep]
  /\ time \in [Loops -> Times]
  /\ clock \in Times
  /\ clearedAt \in Times
  /\ intruded \in BOOLEAN
  /\ attempts \in Nat
  /\ held \in Nat
  /\ callFrom \in Times
  /\ busyRun \in Nat

\* No two calls of locker.lock() overlap, whoever makes them -- a tick of the
\* running loop, a tick of a cancelled one, a menu task -- and isLocking says
\* exactly whether one is in flight (attemptLock, PresenceEngine.swift:170-183).
LockExclusion ==
  /\ \A t, u \in Tasks : pc[t] = "locking" /\ pc[u] = "locking" => t = u
  /\ isLocking <=> \E t \in Tasks : pc[t] = "locking"

\* However the ticks of several loops interleave, one absence leads to at most
\* one automatic lock() call: a failed lock is not retried in a storm
\* (lockAttempted, PresenceEngine.swift:188-192).
OneAttemptPerEpisode == attempts <= 1

AutoLockStarts(t) == pc[t] # "locking" /\ pc'[t] = "locking"

\* Only the loop the app still holds locks the screen on its own: a tick that
\* was in flight when the gate turned enforcement off never starts a lock, not
\* even when another loop has been started since (PresenceEngine.swift:205-216).
OnlyTheRunningLoopLocks ==
  [][\A t \in Loops : AutoLockStarts(t) => t = loopTask]_vars

\* An automatic lock comes no sooner after the last sign of presence, camera
\* outage or reset than the consensus and the grace together take, provided no
\* cancelled tick meddled with this run of the loop (Config.swift:10-12,32-36).
LockNeedsFullWait ==
  [][\A t \in Loops : AutoLockStarts(t) /\ ~intruded
        => clock - clearedAt >= ConsensusTicks - 1 + Grace]_vars

\* The hold is bounded: when the loop's readings have not cleared the absence
\* for this many ticks, in any mixture of absences, recognizer errors and busy
\* readings past the call window, an attempt to lock has been made (EC-10 and
\* ADR-0003: no indefinite fail-open, PresenceEngine.swift:69-80,99-106).  The
\* exact bound is for a loop no cancelled tick meddled with: such a tick may use
\* up the loop's error streak for an absence that cannot lock.
FailOpenBounded ==
  ~intruded /\ ~lockAttempted
    => held <= MaxErrors * (ConsensusTicks + 1) + Grace - 2

\* A camera that stays busy is taken for a call for MaxCall ticks at most
\* (handleCameraBusy, PresenceEngine.swift:99-117).  A cancelled tick that comes
\* back busy judges the window by its own, older time and may prolong the hold.
CallHoldBounded ==
  state = "callAssumedPresent" /\ ~intruded => busyRun <= MaxCall

\* A busy reading never locks before the camera has been busy for the whole
\* call window: a window left over from an earlier call cannot make a fresh
\* call lock (ND-033, PresenceEngine.swift:119-132).
FreshCallNeverLocks ==
  [][\A t \in Loops : AutoLockStarts(t) /\ pc[t] = "capturing" /\ ~intruded
        => clock - callFrom >= MaxCall]_vars

(***************************************************************************)
(* What the comments promise and the code does not keep.                   *)
(***************************************************************************)
\* "a manual failure keeps the warning AND the engine still auto-attempts after
\* grace" (PresenceEngine.swift:199-200): when the warning stands and the
\* episode is spent, so that no tick will attempt again, an automatic attempt
\* has been made.
FailureLeavesAutoAttempt ==
  state = "lockFailed" /\ lockAttempted => attempts = 1

=============================================================================
