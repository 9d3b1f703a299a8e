---------------------------- MODULE EnforcementGate ----------------------------
(***************************************************************************)
(* The app shell: the enforcement gate (main.swift, applyEnforcement) with *)
(* everything that calls it -- SessionStateMonitor, PauseController, the   *)
(* Wi-Fi monitor's change callback, the menu and the enrollment tasks --   *)
(* and what it switches: the presence loop and the camera.                 *)
(*                                                                         *)
(* Everything runs on the main thread, and each action is one callback run *)
(* to completion, gate pass included.  Swift tasks on the main actor go    *)
(* through the main queue, which is not served while an enrollment task    *)
(* shows its modal alert; timers, notifications and menu clicks are.       *)
(* The one-time explainer alerts are left out.                             *)
(***************************************************************************)
EXTENDS Naturals

CONSTANTS
  Enrollments,     \* identities of enrollment tasks; bounds those in flight
  NoEnrollment,    \* enrollmentTask == nil
  MaxResumes       \* bound on the resume tasks a fired pause timer left queued

ASSUME GateAssumption ==
  /\ NoEnrollment \notin Enrollments
  /\ MaxResumes \in Nat \ {0}

VARIABLES
  realActive,      \* what SessionStateMonitor.currentlyActive() would return
  isActive,        \* SessionStateMonitor.isActive
  isPaused,        \* PauseController.isPaused
  timed,           \* PauseController.expiry # nil
  timer,           \* the pause timer is scheduled
  resumeTasks,     \* tasks a fired pause timer has queued
  onTrusted,       \* WiFiMonitor.isOnTrustedNetwork, read live by the gate
  wifiNote,        \* WiFiMonitor.onChange is about to be called
  isEnrolling,
  enrollmentTask,
  capture,         \* where each enrollment task is
  loopRunning,     \* loopTask # nil
  cameraOn,        \* the camera was last asked to resume, not to suspend
  display          \* the state the gate or the loop last rendered

\* History: onTrusted as the gate's last pass read it.
VARIABLE seenTrusted

session == <<realActive, isActive>>
pause == <<isPaused, timed, timer, resumeTasks>>
wifi == <<onTrusted, wifiNote>>
enrollment == <<isEnrolling, enrollmentTask, capture>>
enforcement == <<loopRunning, cameraOn, display, seenTrusted>>
vars == <<session, pause, wifi, enrollment, enforcement>>

AlertUp == \E e \in Enrollments : capture[e] = "alert"

-----------------------------------------------------------------------------
(***************************************************************************)
(* The gate.  It reads the inputs as the calling handler has just left     *)
(* them (primed), and isEnrolling as the handler left it (enrolling).      *)
(***************************************************************************)
\* A suspended session ends the enrollment.
StillEnrolling(enrolling) == enrolling /\ isActive'

Allowed(enrolling) ==
  isActive' /\ ~StillEnrolling(enrolling) /\ ~isPaused' /\ ~onTrusted'

\* The camera once the pass is over.  Mutant: every reason to disable takes the
\* camera away, also from an enrollment.
CameraTaken(enrolling) == Allowed(enrolling) /\ (cameraOn \/ ~loopRunning)

\* Mutant: no branch for a suspension that finds the loop stopped.
CameraForgotten(enrolling) ==
  IF Allowed(enrolling) THEN cameraOn \/ ~loopRunning
  ELSE IF loopRunning THEN cameraOn /\ StillEnrolling(enrolling)
  ELSE cameraOn \/ StillEnrolling(enrolling)

CameraAfter(enrolling) ==
  IF Allowed(enrolling) THEN cameraOn \/ ~loopRunning
  ELSE IF loopRunning THEN cameraOn /\ StillEnrolling(enrolling)
  ELSE StillEnrolling(enrolling) \/ (cameraOn /\ isActive')

\* The display state of disabled enforcement.  Mutant: pausing comes first.
PausedFirst(enrolling) ==
  CASE enrolling \/ isPaused'  -> "paused"
    [] ~isActive'              -> "suspended"
    [] OTHER                   -> "trustedNetwork"

OffDisplay(enrolling) ==
  IF ~isActive' THEN "suspended"
  ELSE IF enrolling \/ isPaused' THEN "paused"
  ELSE "trustedNetwork"

\* The pass; tasks is capture as the handler leaves it.  A cancelled task sees
\* the cancellation only before it shows its result.
ApplyEnforcement(enrolling, tasks) ==
  /\ isEnrolling' = StillEnrolling(enrolling)
  /\ capture' = [e \in Enrollments |->
                   IF /\ enrolling /\ ~isActive'
                      /\ e = enrollmentTask /\ tasks[e] = "capturing"
                   THEN "cancelled" ELSE tasks[e]]
  /\ loopRunning' = Allowed(enrolling)
  /\ seenTrusted' = onTrusted'
  /\ display' = IF Allowed(enrolling) THEN display ELSE OffDisplay(enrolling)

\* A pass from a handler that has nothing to do with enrollment.
GatePass ==
  /\ ApplyEnforcement(isEnrolling, capture)
  /\ cameraOn' = CameraAfter(isEnrolling)
  /\ UNCHANGED enrollmentTask

\* applicationDidFinishLaunching, its gate pass included.
Init ==
  /\ realActive \in BOOLEAN
  /\ isActive = realActive
  /\ isPaused = FALSE
  /\ timed = FALSE
  /\ timer = FALSE
  /\ resumeTasks = 0
  /\ onTrusted \in BOOLEAN
  /\ wifiNote = FALSE
  /\ isEnrolling = FALSE
  /\ enrollmentTask = NoEnrollment
  /\ capture = [e \in Enrollments |-> "off"]
  /\ loopRunning = (isActive /\ ~onTrusted)
  /\ cameraOn = loopRunning
  /\ display = IF loopRunning THEN "reading"
               ELSE IF isActive THEN "trustedNetwork" ELSE "suspended"
  /\ seenTrusted = onTrusted

-----------------------------------------------------------------------------
(***************************************************************************)
(* SessionStateMonitor.                                                    *)
(***************************************************************************)
SessionFlips ==
  /\ realActive' = ~realActive
  /\ UNCHANGED <<isActive, pause, wifi, enrollment, enforcement>>

\* Mutant: the new state is stored and nobody is told.
RecomputeSilently ==
  /\ isActive # realActive
  /\ isActive' = realActive
  /\ UNCHANGED <<realActive, pause, wifi, enrollment, enforcement>>

\* A notification, which may be missed, or the two-second safety poll.
Recompute ==
  /\ isActive # realActive
  /\ isActive' = realActive
  /\ UNCHANGED <<realActive, pause, wifi>>
  /\ GatePass

(***************************************************************************)
(* PauseController.  The menu offers to pause only when not paused, and to *)
(* resume only when paused; a user can reach it only in an active session. *)
(***************************************************************************)
PauseFor(isTimed) ==
  /\ realActive
  /\ ~isPaused
  /\ isPaused' = TRUE
  /\ timed' = isTimed
  /\ timer' = isTimed
  /\ UNCHANGED <<session, resumeTasks, wifi>>
  /\ GatePass

\* Mutant: the closure of the timer finds its controller gone.
TimerFiresInVain ==
  /\ timer
  /\ resumeTasks < MaxResumes
  /\ timer' = FALSE
  /\ UNCHANGED <<session, isPaused, timed, resumeTasks, wifi, enrollment,
                 enforcement>>

TimerFires ==
  /\ timer
  /\ resumeTasks < MaxResumes
  /\ timer' = FALSE
  /\ resumeTasks' = resumeTasks + 1
  /\ UNCHANGED <<session, isPaused, timed, wifi, enrollment, enforcement>>

\* Mutant: an early resume leaves the timer scheduled.
ResumeEarly ==
  /\ isPaused
  /\ isPaused' = FALSE
  /\ timed' = FALSE
  /\ UNCHANGED <<session, timer, wifi>>
  /\ GatePass

Resume ==
  /\ timer' = FALSE
  /\ IF isPaused
     THEN /\ isPaused' = FALSE
          /\ timed' = FALSE
          /\ UNCHANGED <<session, wifi>>
          /\ GatePass
     ELSE UNCHANGED <<session, isPaused, timed, wifi, enrollment, enforcement>>

ResumeTask ==
  /\ ~AlertUp
  /\ resumeTasks > 0
  /\ resumeTasks' = resumeTasks - 1
  /\ Resume

MenuResume ==
  /\ realActive
  /\ isPaused
  /\ UNCHANGED resumeTasks
  /\ Resume

(***************************************************************************)
(* The Wi-Fi monitor as the gate sees it (WiFiMonitor.tla has the rest).   *)
(***************************************************************************)
\* The Mac joins or leaves a network, or its name becomes readable or stops
\* being so.  Whether a report follows, and whether one that was due still does,
\* hangs on the name the monitor remembers: none is made of a return to that.
WiFiMoves ==
  /\ onTrusted' \in BOOLEAN
  /\ wifiNote' \in BOOLEAN
  /\ UNCHANGED <<session, pause, enrollment, enforcement>>

WiFiChange ==
  /\ ~AlertUp
  /\ wifiNote
  /\ wifiNote' = FALSE
  /\ UNCHANGED <<session, pause, onTrusted>>
  /\ GatePass

\* The menu's trust item, which may change the answer and runs the gate.
ToggleTrust ==
  /\ realActive
  /\ onTrusted' \in BOOLEAN
  /\ UNCHANGED <<session, pause, wifiNote>>
  /\ GatePass

(***************************************************************************)
(* Enrollment.                                                             *)
(***************************************************************************)
ResetEnrollment ==
  /\ realActive
  /\ ~isEnrolling
  /\ UNCHANGED <<session, pause, wifi>>
  /\ GatePass

\* The camera is resumed after the pass, whatever the pass decided.
StartEnrollment(e) ==
  /\ realActive
  /\ ~isEnrolling
  /\ capture[e] = "off"
  /\ UNCHANGED <<session, pause, wifi>>
  /\ ApplyEnforcement(TRUE, [capture EXCEPT ![e] = "capturing"])
  /\ cameraOn' = TRUE
  /\ enrollmentTask' = e

\* Mutant: the deferred clean-up forgets the flag.
CleanUpHalf(e) ==
  /\ ApplyEnforcement(isEnrolling, [capture EXCEPT ![e] = "off"])
  /\ cameraOn' = CameraAfter(isEnrolling)
  /\ enrollmentTask' = NoEnrollment

\* Mutant: the deferred clean-up does not run the gate again.
CleanUpUngated(e) ==
  /\ isEnrolling' = FALSE
  /\ capture' = [capture EXCEPT ![e] = "off"]
  /\ enrollmentTask' = NoEnrollment
  /\ UNCHANGED enforcement

\* The defer block: it clears the flag and the handle, whosever they are.
CleanUp(e) ==
  /\ ApplyEnforcement(FALSE, [capture EXCEPT ![e] = "off"])
  /\ cameraOn' = CameraAfter(FALSE)
  /\ enrollmentTask' = NoEnrollment

\* coordinator.enroll() returns.
CaptureEnds(e) ==
  /\ ~AlertUp
  /\ UNCHANGED <<session, pause, wifi>>
  /\ \/ capture[e] = "cancelled" /\ CleanUp(e)
     \/ /\ capture[e] = "capturing"
        /\ capture' = [capture EXCEPT ![e] = "alert"]
        /\ UNCHANGED <<isEnrolling, enrollmentTask, enforcement>>

AlertDismissed(e) ==
  /\ realActive
  /\ capture[e] = "alert"
  /\ UNCHANGED <<session, pause, wifi>>
  /\ CleanUp(e)

\* The running loop renders a reading.
LoopReads ==
  /\ ~AlertUp
  /\ loopRunning
  /\ display' = "reading"
  /\ UNCHANGED <<session, pause, wifi, enrollment, loopRunning, cameraOn,
                 seenTrusted>>

-----------------------------------------------------------------------------
Next ==
  \/ SessionFlips
  \/ Recompute
  \/ \E isTimed \in BOOLEAN : PauseFor(isTimed)
  \/ TimerFires
  \/ ResumeTask
  \/ MenuResume
  \/ WiFiMoves
  \/ WiFiChange
  \/ ToggleTrust
  \/ ResetEnrollment
  \/ \E e \in Enrollments :
        StartEnrollment(e) \/ CaptureEnds(e) \/ AlertDismissed(e)
  \/ LoopReads

\* The session poll and the pause timer fire.  The main queue serves its tasks
\* in order whenever it is served at all, hence strong fairness for those.
\* Nothing is assumed of the user.
CaptureFair(e) == SF_vars(CaptureEnds(e))

Fairness ==
  /\ WF_vars(Recompute)
  /\ WF_vars(TimerFires)
  /\ SF_vars(ResumeTask)
  /\ SF_vars(WiFiChange)
  /\ \A e \in Enrollments : CaptureFair(e)

Spec == Init /\ [][Next]_vars /\ Fairness

-----------------------------------------------------------------------------
(***************************************************************************)
(* Properties.                                                             *)
(***************************************************************************)
\* Types, and a pause timer is scheduled only for the timed pause it will end.
TypeOK ==
  /\ realActive \in BOOLEAN
  /\ isActive \in BOOLEAN
  /\ isPaused \in BOOLEAN
  /\ timed \in BOOLEAN
  /\ timer \in BOOLEAN
  /\ timer => isPaused /\ timed
  /\ resumeTasks \in 0 .. MaxResumes
  /\ onTrusted \in BOOLEAN
  /\ wifiNote \in BOOLEAN
  /\ isEnrolling \in BOOLEAN
  /\ enrollmentTask \in Enrollments \cup {NoEnrollment}
  /\ capture \in [Enrollments -> {"off", "capturing", "cancelled", "alert"}]
  /\ loopRunning \in BOOLEAN
  /\ cameraOn \in BOOLEAN
  /\ display \in {"reading", "suspended", "paused", "trustedNetwork"}
  /\ seenTrusted \in BOOLEAN

\* No handler leaves the gate behind: after each of them, in any order, the
\* loop runs exactly if every input allows it, the network as the last pass read
\* it (main.swift:136-141,166).
GateIsCurrent ==
  loopRunning <=> isActive /\ ~isEnrolling /\ ~isPaused /\ ~seenTrusted

\* While enforcement is off the display names the reason with the highest
\* priority (main.swift:198-212).
HonestReason ==
  ~loopRunning =>
    display = (IF ~isActive THEN "suspended"
               ELSE IF isEnrolling \/ isPaused THEN "paused"
               ELSE "trustedNetwork")

\* As long as the app says it is enrolling, some enrollment task is there to
\* end that, and has the camera on and the loop stopped (main.swift:177-192).
EnrollmentHasCamera ==
  isEnrolling =>
    /\ cameraOn /\ ~loopRunning
    /\ \E e \in Enrollments : capture[e] # "off"

\* Once a session is known to be suspended and no enrollment task is left, the
\* camera is off, whatever was going on before (main.swift:151-155,193-197).
NoCameraBehindLockScreen ==
  ~isActive /\ (\A e \in Enrollments : capture[e] = "off") => ~cameraOn

\* Enforcement comes back once the session is active, nothing is paused or
\* trusted and no enrollment task is left (SessionStateMonitor.swift:71-79: a
\* missed unlock event self-heals) -- provided the Wi-Fi monitor reports the end
\* of a trust the gate has acted on, which it need not (WiFiMonitor.swift:
\* 150-156; StaleTrustEnds in WiFiMonitor.tla has that case).
Wanted ==
  /\ realActive /\ ~isPaused /\ ~onTrusted
  /\ seenTrusted => wifiNote
  /\ \A e \in Enrollments : capture[e] = "off"

EnforcementReturns == Wanted ~> (loopRunning \/ ~Wanted)

\* isEnrolling cannot get stuck: it ends, or the user is shown a result
\* (main.swift:41-44,266-270).
EnrollmentReleases == isEnrolling ~> (~isEnrolling \/ AlertUp)

\* A timed pause ends by itself (PauseController.swift:27-30), or else the
\* main queue is held up by an alert nobody dismisses.
TimedPauseEnds == (isPaused /\ timed) ~> (~(isPaused /\ timed) \/ AlertUp)

(***************************************************************************)
(* What the comments promise and the code does not keep.                   *)
(***************************************************************************)
\* "Every other disabled reason ... turns the camera off (light honestly off)"
\* (main.swift:185-187): with enforcement off and no enrollment, no camera.
CameraOffWhenDisabled ==
  ~loopRunning /\ (\A e \in Enrollments : capture[e] = "off")
    => ~cameraOn

\* "applyEnforcement() stops the presence loop (giving the coordinator
\* exclusive use of camera.capture())" (main.swift:237-239): no loop runs while
\* an enrollment that has not been cancelled captures.
NothingRunsMidCapture ==
  (\E e \in Enrollments : capture[e] = "capturing") => ~loopRunning

=============================================================================
