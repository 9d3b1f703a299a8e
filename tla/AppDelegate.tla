------------------------------ MODULE AppDelegate ------------------------------
(***************************************************************************)
(* The running app (main.swift): the enforcement gate, the presence engine *)
(* the gate starts and stops, and the two that show the engine's state,    *)
(* the menu bar and the camera notifier.                                   *)
(*                                                                         *)
(* The gate is EnforcementGate.  The engine is taken by its contract       *)
(* (EngineContract), which PresenceEngine implements.  A step of the app   *)
(* is a step of one of the two together with what it calls: a gate pass    *)
(* starts the loop or resets the engine, then renders; a tick of the loop  *)
(* that is held renders when it ends; a "Lock now" task renders, too, and  *)
(* does not feed the notifier.                                             *)
(***************************************************************************)
EXTENDS Naturals

CONSTANTS
  Enrollments, NoEnrollment, MaxResumes,   \* of EnforcementGate
  Loops, Menus, NoTask,                    \* of EngineContract
  MaxPosts                                 \* of CameraStatusNotifier

ASSUME AppAssumption ==
  /\ NoEnrollment \notin Enrollments
  /\ MaxResumes \in Nat \ {0}
  /\ NoTask \notin Loops \cup Menus
  /\ Loops \cap Menus = {}
  /\ MaxPosts \in Nat \ {0}

\* The gate, its inputs and what it switches.
VARIABLES realActive, isActive, isPaused, timed, timer, resumeTasks, onTrusted,
          wifiNote, isEnrolling, enrollmentTask, capture, loopRunning, cameraOn,
          display, seenTrusted

\* The engine and the tasks that run it.
VARIABLES state, loopTask, step

\* The notifier.
VARIABLES isUnavailable, lastPostedAt, posts, banner, authorized, orphan

VARIABLES
  lastRenderedState,  \* what the menu bar shows
  strayed             \* history: since the gate or the loop last rendered, a
                      \* cancelled tick or a "Lock now" task has set the state

Gate == INSTANCE EnforcementGate
Engine == INSTANCE EngineContract
Notifier == INSTANCE CameraStatusNotifier

gate == <<realActive, isActive, isPaused, timed, timer, resumeTasks, onTrusted,
          wifiNote, isEnrolling, enrollmentTask, capture, loopRunning, cameraOn,
          display, seenTrusted>>
engine == <<state, loopTask, step>>
notifier == <<isUnavailable, lastPostedAt, posts, banner, authorized, orphan>>
vars == <<gate, engine, notifier, lastRenderedState, strayed>>

Init ==
  /\ Gate!Init
  /\ Notifier!Init
  /\ IF loopRunning
     THEN /\ loopTask \in Loops
          /\ state = "watching"
          /\ step = [t \in Loops \cup Menus |->
                       IF t = loopTask THEN "asleep" ELSE "off"]
     ELSE /\ loopTask = NoTask
          /\ state = display
          /\ step = [t \in Loops \cup Menus |-> "off"]
  /\ lastRenderedState = state
  /\ strayed = FALSE

-----------------------------------------------------------------------------
(***************************************************************************)
(* Rendering.                                                              *)
(***************************************************************************)
\* The gate's and the loop's render path: the menu bar and the notifier.
Render ==
  /\ lastRenderedState' = state'
  /\ Notifier!Update(state')
  /\ strayed' = FALSE

\* A cancelled loop's task: the loop breaks off before it renders.
NotRendered ==
  /\ UNCHANGED <<lastRenderedState, notifier>>
  /\ strayed' = TRUE

Silent == UNCHANGED <<notifier, lastRenderedState, strayed>>

(***************************************************************************)
(* The gate.                                                               *)
(***************************************************************************)
\* What runs no pass: two inputs change outside the app, ...
Unseen == Gate!SessionFlips \/ Gate!WiFiMoves

\* ... the pause timer queues its task, or a resume finds nothing to resume, ...
NothingResumed == Gate!TimerFires \/ (Gate!ResumeTask /\ ~isPaused)

\* ... an enrollment shows its result.
ResultShown ==
  \E e \in Enrollments : Gate!CaptureEnds(e) /\ capture'[e] = "alert"

\* The handlers that run one.
Handler ==
  \/ Gate!Recompute
  \/ \E isTimed \in BOOLEAN : Gate!PauseFor(isTimed)
  \/ Gate!ResumeTask /\ isPaused
  \/ Gate!MenuResume
  \/ Gate!WiFiChange
  \/ Gate!ToggleTrust
  \/ Gate!ResetEnrollment
  \/ \E e \in Enrollments :
        \/ Gate!StartEnrollment(e)
        \/ Gate!CaptureEnds(e) /\ capture'[e] = "off"
        \/ Gate!AlertDismissed(e)

\* Mutant: a disabling pass resets the engine and does not stop the loop.
SwitchUnstopped ==
  IF loopRunning'
  THEN IF loopRunning THEN UNCHANGED engine
                      ELSE \E t \in Loops : Engine!StartLoop(t)
  ELSE state' = display' /\ UNCHANGED <<loopTask, step>>

\* What a pass does to the engine.
Switch ==
  IF loopRunning'
  THEN IF loopRunning THEN UNCHANGED engine
                      ELSE \E t \in Loops : Engine!StartLoop(t)
  ELSE Engine!Disable(display')

Unnoticed ==
  /\ Unseen \/ NothingResumed \/ ResultShown
  /\ UNCHANGED engine
  /\ Silent

GatePass ==
  /\ Handler
  /\ Switch
  /\ Render

-----------------------------------------------------------------------------
(***************************************************************************)
(* The tasks of the engine, on the main queue.                             *)
(***************************************************************************)
BeginTick(t) ==
  /\ ~Gate!AlertUp
  /\ Engine!BeginTick(t)
  /\ UNCHANGED gate
  /\ Silent

\* Mutant: the loop renders without looking whether it has been cancelled.
RenderTickRegardless(t) ==
  /\ Render
  /\ UNCHANGED gate

\* A tick of the held loop renders, one of a cancelled loop does not.
RenderTick(t) ==
  IF t = loopTask THEN Render /\ Gate!LoopReads
                  ELSE NotRendered /\ UNCHANGED gate

TickEnds(t) ==
  /\ ~Gate!AlertUp
  /\ Engine!Reading(t) \/ \E ok \in BOOLEAN : Engine!LockReturns(t, ok)
  /\ RenderTick(t)

\* The tick goes on to await lock(); nothing is rendered until it returns.
AutoLock(t) ==
  /\ ~Gate!AlertUp
  /\ Engine!AutoLock(t)
  /\ UNCHANGED <<gate, notifier, lastRenderedState>>
  /\ strayed' = (strayed \/ state' # state)

LockNow(m) ==
  /\ ~Gate!AlertUp
  /\ Engine!LockNow(m)
  /\ UNCHANGED gate
  /\ Silent

\* The task renders the state it finds, that of another task if lock() was
\* already in flight.
LockNowEnds(m) ==
  /\ ~Gate!AlertUp
  /\ \/ \E ok \in BOOLEAN : Engine!LockReturns(m, ok)
     \/ step[m] = "off" /\ Engine!Locking /\ UNCHANGED engine
  /\ lastRenderedState' = state'
  /\ strayed' = TRUE
  /\ UNCHANGED <<gate, notifier>>

NotifierSteps ==
  /\ Notifier!Environment
  /\ UNCHANGED <<gate, engine, lastRenderedState, strayed>>

-----------------------------------------------------------------------------
Next ==
  \/ Unnoticed
  \/ GatePass
  \/ \E t \in Loops : BeginTick(t) \/ TickEnds(t) \/ AutoLock(t)
  \/ \E m \in Menus : LockNow(m) \/ LockNowEnds(m)
  \/ NotifierSteps

Spec == Init /\ [][Next]_vars

-----------------------------------------------------------------------------
(***************************************************************************)
(* Properties.                                                             *)
(***************************************************************************)
\* The parts have their types; and the gate's idea of the loop is the app's:
\* it runs exactly while the app holds a task, and that task has not ended.
TypeOK ==
  /\ Gate!TypeOK
  /\ Notifier!TypeOK
  /\ state \in Engine!States
  /\ loopTask \in Loops \cup {NoTask}
  /\ step \in [Loops \cup Menus -> Engine!Steps]
  /\ lastRenderedState \in Engine!States
  /\ strayed \in BOOLEAN
  /\ loopRunning <=> loopTask # NoTask
  /\ loopTask # NoTask => step[loopTask] # "off"

\* "Nothing locks mid-capture / mid-pause" (PresenceEngine.swift:205-216): when
\* a tick calls lock(), the session is active, nothing is paused, no enrollment
\* is on, and the gate's last pass did not find the network trusted.
NothingLocksWhileOff ==
  [][\A t \in Loops : step[t] # "locking" /\ step'[t] = "locking"
        => isActive /\ ~isPaused /\ ~isEnrolling /\ ~seenTrusted]_vars

\* "No second source of truth" (CameraStatusNotifier.swift:22-24): the menu bar
\* and the notifier agree with the engine, and while enforcement is off with the
\* reason for that, unless a cancelled tick or a "Lock now" task has set the
\* state since they were last told (main.swift:54-60,377-384).
OneSourceOfTruth ==
  ~strayed =>
    /\ lastRenderedState = state
    /\ isUnavailable <=> state = "cameraUnavailable"
    /\ ~loopRunning => state = display

\* The banner is up only while the app watches and the camera is unavailable:
\* every recovery, pause or suspension withdraws it -- unless it was posted by a
\* callback that the withdrawal overtook (CameraStatusNotifier.swift:78-85,102).
BannerIsTrue ==
  banner /\ ~orphan => isUnavailable /\ loopRunning

=============================================================================
