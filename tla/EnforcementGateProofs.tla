------------------------- MODULE EnforcementGateProofs -------------------------
(***************************************************************************)
(* Proofs about the enforcement gate, for any number of enrollment tasks   *)
(* and any backlog of resume tasks.                                        *)
(*                                                                         *)
(* Every action either runs a gate pass as its last step or leaves what    *)
(* the gate decides alone, so the proofs go by what a pass leaves behind:  *)
(* a lemma for each of the three handlers' passes (GatePass, CleanUp and   *)
(* StartEnrollment), and one for the actions that run none.                *)
(***************************************************************************)
EXTENDS EnforcementGate, TLAPS

\* The inputs of the gate and the record of the tasks.
InputsTyped ==
  /\ isActive \in BOOLEAN
  /\ isPaused \in BOOLEAN
  /\ onTrusted \in BOOLEAN
  /\ wifiNote \in BOOLEAN

\* What a pass decides.
DecisionTyped ==
  /\ isEnrolling \in BOOLEAN
  /\ enrollmentTask \in Enrollments \cup {NoEnrollment}
  /\ capture \in [Enrollments -> {"off", "capturing", "cancelled", "alert"}]
  /\ loopRunning \in BOOLEAN
  /\ cameraOn \in BOOLEAN
  /\ display \in {"reading", "suspended", "paused", "trustedNetwork"}
  /\ seenTrusted \in BOOLEAN

\* The safety of the gate, in one inductive invariant.
GateSafety ==
  /\ GateIsCurrent
  /\ HonestReason
  /\ EnrollmentHasCamera
  /\ NoCameraBehindLockScreen

-----------------------------------------------------------------------------
(***************************************************************************)
(* Types.                                                                  *)
(***************************************************************************)
\* A pass leaves its decision well typed, whichever handler runs it.
LEMMA GatePassTyped ==
  ASSUME DecisionTyped, InputsTyped', GatePass
  PROVE  DecisionTyped'
BY DEF DecisionTyped, InputsTyped, GatePass, ApplyEnforcement, CameraAfter,
       OffDisplay, Allowed, StillEnrolling

LEMMA CleanUpTyped ==
  ASSUME DecisionTyped, InputsTyped', NEW e \in Enrollments, CleanUp(e)
  PROVE  DecisionTyped'
BY DEF DecisionTyped, InputsTyped, CleanUp, ApplyEnforcement, CameraAfter,
       OffDisplay, Allowed, StillEnrolling

LEMMA StartTyped ==
  ASSUME DecisionTyped, InputsTyped, NEW e \in Enrollments, StartEnrollment(e)
  PROVE  DecisionTyped'
BY DEF DecisionTyped, InputsTyped, StartEnrollment, ApplyEnforcement,
       OffDisplay, Allowed, StillEnrolling, session, pause, wifi

\* Every step keeps the types.
LEMMA TypeStep == TypeOK /\ [Next]_vars => TypeOK'
<1> SUFFICES ASSUME TypeOK, [Next]_vars PROVE TypeOK'
  OBVIOUS
<1> USE GateAssumption DEF GateAssumption
<1>0. InputsTyped /\ DecisionTyped
  BY DEF TypeOK, InputsTyped, DecisionTyped
<1>a. ASSUME InputsTyped', DecisionTyped', realActive' \in BOOLEAN,
             timed' \in BOOLEAN, timer' \in BOOLEAN,
             timer' => isPaused' /\ timed', resumeTasks' \in 0 .. MaxResumes
      PROVE  TypeOK'
  BY <1>a DEF TypeOK, InputsTyped, DecisionTyped
<1>1. CASE SessionFlips
  BY <1>1 DEF SessionFlips, TypeOK, pause, wifi, enrollment, enforcement
<1>2. CASE Recompute
  <2>1. InputsTyped' /\ GatePass
    BY <1>2 DEF Recompute, TypeOK, InputsTyped, pause, wifi
  <2>2. DecisionTyped'
    BY <1>0, <2>1, GatePassTyped
  <2> QED
    BY <1>2, <1>a, <2>1, <2>2 DEF Recompute, TypeOK, pause, wifi
<1>3. ASSUME NEW isTimed \in BOOLEAN, PauseFor(isTimed) PROVE TypeOK'
  <2>1. InputsTyped' /\ GatePass
    BY <1>3 DEF PauseFor, TypeOK, InputsTyped, session, wifi
  <2>2. DecisionTyped'
    BY <1>0, <2>1, GatePassTyped
  <2> QED
    BY <1>3, <1>a, <2>1, <2>2 DEF PauseFor, TypeOK, session, wifi
<1>4. CASE TimerFires
  <2>1. resumeTasks' \in 0 .. MaxResumes
    BY <1>4 DEF TimerFires, TypeOK
  <2> QED
    BY <1>4, <2>1
    DEF TimerFires, TypeOK, session, wifi, enrollment, enforcement
<1>5. ASSUME Resume, resumeTasks' \in 0 .. MaxResumes PROVE TypeOK'
  <2>1. CASE isPaused
    <3>1. InputsTyped' /\ GatePass
      BY <1>5, <2>1 DEF Resume, TypeOK, InputsTyped, session, wifi
    <3>2. DecisionTyped'
      BY <1>0, <3>1, GatePassTyped
    <3> QED
      BY <1>5, <1>a, <2>1, <3>1, <3>2 DEF Resume, TypeOK, session, wifi
  <2>2. CASE ~isPaused
    BY <1>5, <2>2 DEF Resume, TypeOK, session, wifi, enrollment, enforcement
  <2> QED
    BY <2>1, <2>2
<1>6. CASE ResumeTask
  <2>1. resumeTasks' \in 0 .. MaxResumes
    BY <1>6 DEF ResumeTask, TypeOK
  <2> QED
    BY <1>5, <1>6, <2>1 DEF ResumeTask
<1>7. CASE MenuResume
  BY <1>5, <1>7 DEF MenuResume, TypeOK
<1>8. CASE WiFiMoves
  BY <1>8 DEF WiFiMoves, TypeOK, session, pause, enrollment, enforcement
<1>9. CASE WiFiChange
  <2>1. InputsTyped' /\ GatePass
    BY <1>9 DEF WiFiChange, TypeOK, InputsTyped, session, pause
  <2>2. DecisionTyped'
    BY <1>0, <2>1, GatePassTyped
  <2> QED
    BY <1>9, <1>a, <2>1, <2>2 DEF WiFiChange, TypeOK, session, pause
<1>10. CASE ToggleTrust
  <2>1. InputsTyped' /\ GatePass
    BY <1>10 DEF ToggleTrust, TypeOK, InputsTyped, session, pause
  <2>2. DecisionTyped'
    BY <1>0, <2>1, GatePassTyped
  <2> QED
    BY <1>10, <1>a, <2>1, <2>2 DEF ToggleTrust, TypeOK, session, pause
<1>11. CASE ResetEnrollment
  <2>1. InputsTyped' /\ GatePass
    BY <1>11 DEF ResetEnrollment, TypeOK, InputsTyped, session, pause, wifi
  <2>2. DecisionTyped'
    BY <1>0, <2>1, GatePassTyped
  <2> QED
    BY <1>11, <1>a, <2>1, <2>2
    DEF ResetEnrollment, TypeOK, session, pause, wifi
<1>12. ASSUME NEW e \in Enrollments, StartEnrollment(e) PROVE TypeOK'
  <2>1. DecisionTyped'
    BY <1>0, <1>12, StartTyped
  <2> QED
    BY <1>12, <1>a, <2>1
    DEF StartEnrollment, TypeOK, InputsTyped, session, pause, wifi
<1>13. ASSUME NEW e \in Enrollments, CleanUp(e),
              UNCHANGED <<session, pause, wifi>>
       PROVE  TypeOK'
  <2>1. InputsTyped'
    BY <1>13 DEF TypeOK, InputsTyped, session, pause, wifi
  <2>2. DecisionTyped'
    BY <1>0, <1>13, <2>1, CleanUpTyped
  <2> QED
    BY <1>13, <1>a, <2>1, <2>2 DEF TypeOK, session, pause, wifi
<1>14. ASSUME NEW e \in Enrollments, CaptureEnds(e) PROVE TypeOK'
  <2>1. CASE CleanUp(e)
    BY <1>13, <1>14, <2>1 DEF CaptureEnds
  <2>2. CASE ~CleanUp(e)
    BY <1>14, <2>2
    DEF CaptureEnds, TypeOK, session, pause, wifi, enforcement
  <2> QED
    BY <2>1, <2>2
<1>15. ASSUME NEW e \in Enrollments, AlertDismissed(e) PROVE TypeOK'
  BY <1>13, <1>15 DEF AlertDismissed
<1>16. CASE LoopReads
  BY <1>16 DEF LoopReads, TypeOK, session, pause, wifi, enrollment
<1>17. CASE UNCHANGED vars
  BY <1>17
  DEF TypeOK, vars, session, pause, wifi, enrollment, enforcement
<1> QED
  BY <1>1, <1>2, <1>3, <1>4, <1>6, <1>7, <1>8, <1>9, <1>10, <1>11, <1>12,
     <1>14, <1>15, <1>16, <1>17
  DEF Next

\* Every variable keeps its type and the timer belongs to the timed pause
\* (PauseController.swift:27-44).
THEOREM GateTypeCorrect == Spec => []TypeOK
<1>1. Init => TypeOK
  <2> SUFFICES ASSUME Init PROVE TypeOK
    OBVIOUS
  <2>1. resumeTasks \in 0 .. MaxResumes
    BY GateAssumption DEF GateAssumption, Init
  <2>2. InputsTyped /\ DecisionTyped
    <3>1. display \in {"reading", "suspended", "paused", "trustedNetwork"}
      BY Zenon DEF Init
    <3> QED
      BY <3>1 DEF Init, InputsTyped, DecisionTyped
  <2> QED
    BY <2>1, <2>2 DEF Init, TypeOK, InputsTyped, DecisionTyped
<1>2. TypeOK /\ [Next]_vars => TypeOK'
  BY TypeStep
<1> QED
  BY <1>1, <1>2, PTL DEF Spec

-----------------------------------------------------------------------------
(***************************************************************************)
(* Safety of the gate.                                                     *)
(***************************************************************************)
\* A pass at the end of a handler re-establishes the whole of GateSafety.
LEMMA GatePassIsSafe ==
  ASSUME TypeOK, TypeOK', GateSafety, GatePass
  PROVE  GateSafety'
<1> USE DEF GatePass, ApplyEnforcement, Allowed, StillEnrolling
<1>1. GateIsCurrent'
  BY DEF TypeOK, GateIsCurrent
<1>2. HonestReason'
  BY DEF TypeOK, HonestReason, OffDisplay
<1>3. EnrollmentHasCamera'
  BY DEF TypeOK, GateSafety, EnrollmentHasCamera, CameraAfter
<1>4. NoCameraBehindLockScreen'
  BY DEF TypeOK, NoCameraBehindLockScreen, CameraAfter
<1> QED
  BY <1>1, <1>2, <1>3, <1>4 DEF GateSafety

\* So does the deferred clean-up, from any state.
LEMMA CleanUpIsSafe ==
  ASSUME TypeOK, TypeOK', NEW e \in Enrollments, CleanUp(e)
  PROVE  GateSafety'
<1> USE DEF CleanUp, ApplyEnforcement, Allowed, StillEnrolling
<1>1. GateIsCurrent'
  BY DEF TypeOK, GateIsCurrent
<1>2. HonestReason'
  BY DEF TypeOK, HonestReason, OffDisplay
<1>3. EnrollmentHasCamera'
  BY DEF TypeOK, EnrollmentHasCamera
<1>4. NoCameraBehindLockScreen'
  BY DEF TypeOK, NoCameraBehindLockScreen, CameraAfter
<1> QED
  BY <1>1, <1>2, <1>3, <1>4 DEF GateSafety

\* So does the start of an enrollment, the stale flag included.
LEMMA StartIsSafe ==
  ASSUME TypeOK, TypeOK', NEW e \in Enrollments, StartEnrollment(e)
  PROVE  GateSafety'
<1> USE DEF StartEnrollment, ApplyEnforcement, Allowed, StillEnrolling
<1>1. GateIsCurrent'
  BY DEF TypeOK, GateIsCurrent
<1>2. HonestReason'
  BY DEF TypeOK, HonestReason, OffDisplay
<1>3. capture'[e] # "off"
  BY DEF TypeOK
<1>4. EnrollmentHasCamera'
  BY <1>3 DEF TypeOK, EnrollmentHasCamera
<1>5. NoCameraBehindLockScreen'
  BY <1>3 DEF NoCameraBehindLockScreen
<1> QED
  BY <1>1, <1>2, <1>4, <1>5 DEF GateSafety

\* Every step keeps GateSafety.
LEMMA GateSafetyStep ==
  TypeOK /\ TypeOK' /\ GateSafety /\ [Next]_vars => GateSafety'
<1> SUFFICES ASSUME TypeOK, TypeOK', GateSafety, [Next]_vars PROVE GateSafety'
  OBVIOUS
<1> USE DEF GateSafety, GateIsCurrent, HonestReason, EnrollmentHasCamera,
            NoCameraBehindLockScreen
<1>1. ASSUME UNCHANGED <<isActive, isPaused, enrollment, enforcement>>
      PROVE  GateSafety'
  BY <1>1 DEF enrollment, enforcement
<1>2. CASE SessionFlips
  BY <1>1, <1>2 DEF SessionFlips, pause, wifi
<1>3. CASE TimerFires
  BY <1>1, <1>3 DEF TimerFires, session, wifi
<1>4. CASE WiFiMoves
  BY <1>4 DEF WiFiMoves, session, pause, enrollment, enforcement
<1>5. CASE LoopReads
  BY <1>5 DEF LoopReads, session, pause, wifi, enrollment
<1>6. ASSUME Resume PROVE GateSafety'
  <2>1. CASE isPaused
    BY <1>6, <2>1, GatePassIsSafe DEF Resume
  <2>2. CASE ~isPaused
    BY <1>1, <1>6, <2>2 DEF Resume, session, wifi
  <2> QED
    BY <2>1, <2>2
<1>7. CASE \/ Recompute
           \/ \E isTimed \in BOOLEAN : PauseFor(isTimed)
           \/ WiFiChange
           \/ ToggleTrust
           \/ ResetEnrollment
  <2>1. GatePass
    BY <1>7 DEF Recompute, PauseFor, WiFiChange, ToggleTrust, ResetEnrollment
  <2> QED
    BY <2>1, GatePassIsSafe
<1>8. CASE ResumeTask \/ MenuResume
  BY <1>6, <1>8 DEF ResumeTask, MenuResume
<1>9. ASSUME NEW e \in Enrollments, StartEnrollment(e) PROVE GateSafety'
  BY <1>9, StartIsSafe
<1>10. ASSUME NEW e \in Enrollments, CaptureEnds(e) PROVE GateSafety'
  <2>1. CASE CleanUp(e)
    BY <2>1, CleanUpIsSafe
  <2>2. CASE ~CleanUp(e)
    <3>1. capture'[e] = "alert"
      BY <1>10, <2>2 DEF CaptureEnds, TypeOK
    <3> QED
      BY <1>10, <2>2, <3>1
      DEF CaptureEnds, session, pause, wifi, enforcement
  <2> QED
    BY <2>1, <2>2
<1>11. ASSUME NEW e \in Enrollments, AlertDismissed(e) PROVE GateSafety'
  BY <1>11, CleanUpIsSafe DEF AlertDismissed
<1>12. CASE UNCHANGED vars
  BY <1>1, <1>12 DEF vars, session, pause, wifi
<1> QED
  BY <1>2, <1>3, <1>4, <1>5, <1>7, <1>8, <1>9, <1>10, <1>11, <1>12 DEF Next

\* All four hold together after every callback: each pass settles the loop, the
\* display and the camera, and no other callback touches what it settled
\* (main.swift:142-221).
THEOREM GateSafetyHolds == Spec => []GateSafety
<1>1. Init => GateSafety
  <2> SUFFICES ASSUME Init PROVE GateSafety
    OBVIOUS
  <2> USE DEF Init
  <2>1. GateIsCurrent /\ EnrollmentHasCamera
    BY DEF GateIsCurrent, EnrollmentHasCamera
  <2>2. HonestReason
    BY DEF HonestReason
  <2>3. NoCameraBehindLockScreen
    BY DEF NoCameraBehindLockScreen
  <2> QED
    BY <2>1, <2>2, <2>3 DEF GateSafety
<1>2. TypeOK /\ TypeOK' /\ GateSafety /\ [Next]_vars => GateSafety'
  BY GateSafetyStep
<1> QED
  BY <1>1, <1>2, GateTypeCorrect, PTL DEF Spec

\* Whatever the handlers do in whatever order, the loop runs exactly if every
\* input of the gate allows it, the network as the gate last read it
\* (main.swift:136-141,166).
THEOREM GateIsCurrentHolds == Spec => []GateIsCurrent
<1>1. GateSafety => GateIsCurrent
  BY DEF GateSafety
<1> QED
  BY <1>1, GateSafetyHolds, PTL

\* The display names the reason of the highest priority (main.swift:198-212).
THEOREM HonestReasonHolds == Spec => []HonestReason
<1>1. GateSafety => HonestReason
  BY DEF GateSafety
<1> QED
  BY <1>1, GateSafetyHolds, PTL

\* While the app says it is enrolling there is a task to end that, with the
\* camera on and the loop stopped, however many tasks of earlier enrollments
\* are still about (main.swift:177-192).
THEOREM EnrollmentHasCameraHolds == Spec => []EnrollmentHasCamera
<1>1. GateSafety => EnrollmentHasCamera
  BY DEF GateSafety
<1> QED
  BY <1>1, GateSafetyHolds, PTL

\* Behind a lock screen the app knows of, with no enrollment task left, the
\* camera is off (main.swift:151-155,193-197).
THEOREM NoCameraBehindLockScreenHolds == Spec => []NoCameraBehindLockScreen
<1>1. GateSafety => NoCameraBehindLockScreen
  BY DEF GateSafety
<1> QED
  BY <1>1, GateSafetyHolds, PTL

-----------------------------------------------------------------------------
(***************************************************************************)
(* Liveness.  What fairness says of an action speaks of the states it is   *)
(* enabled in, and the provers have no rule for ENABLED.  It stays a       *)
(* premise here: an action whose guard holds is enabled, which is so       *)
(* because none of them constrains a variable twice.  TLC evaluates it in  *)
(* every state of a run; all the rest of the argument is proved.           *)
(***************************************************************************)
DueIsEnabled ==
  /\ isActive # realActive => ENABLED <<Recompute>>_vars
  /\ timer /\ resumeTasks < MaxResumes => ENABLED <<TimerFires>>_vars
  /\ ~AlertUp /\ resumeTasks > 0 => ENABLED <<ResumeTask>>_vars
  /\ ~AlertUp /\ wifiNote => ENABLED <<WiFiChange>>_vars
  /\ \A e \in Enrollments :
       ~AlertUp /\ capture[e] \in {"capturing", "cancelled"}
         => ENABLED <<CaptureEnds(e)>>_vars

\* A pass run while enforcement is wanted of an active session starts the loop.
LEMMA PassReturnsEnforcement ==
  ASSUME TypeOK, TypeOK', GateSafety, Wanted', isActive', GatePass,
         \A e \in Enrollments : capture[e] = "off"
  PROVE  loopRunning'
<1>1. ~isEnrolling
  BY DEF GateSafety, EnrollmentHasCamera
<1> QED
  BY <1>1 DEF GatePass, ApplyEnforcement, Allowed, StillEnrolling, Wanted, TypeOK

\* Enforcement is wanted and off: the session's return is not noticed yet.
AwaitsPoll == Wanted /\ ~loopRunning /\ ~isActive

\* Enforcement is wanted and off: the Wi-Fi monitor has not called back yet.
AwaitsWiFi == Wanted /\ ~loopRunning /\ isActive /\ wifiNote

\* What a step can make of either wait.
LEMMA WaitStep ==
  ASSUME TypeOK, TypeOK', GateSafety, AwaitsPoll \/ AwaitsWiFi, [Next]_vars
  PROVE  \/ loopRunning' \/ ~Wanted'
         \/ AwaitsPoll' /\ ~isActive
         \/ AwaitsWiFi' /\ isActive
<1> SUFFICES ASSUME ~loopRunning', Wanted'
             PROVE  \/ ~isActive /\ ~isActive'
                    \/ isActive /\ isActive' /\ wifiNote'
  BY DEF AwaitsPoll, AwaitsWiFi
<1>1. /\ \A e \in Enrollments : capture[e] = "off"
      /\ realActive /\ ~isPaused /\ ~onTrusted
      /\ isActive \in BOOLEAN /\ (isActive => wifiNote /\ seenTrusted)
  BY DEF TypeOK, AwaitsPoll, AwaitsWiFi, Wanted, GateSafety, GateIsCurrent,
         EnrollmentHasCamera
<1>2. ~timer
  BY <1>1 DEF TypeOK
<1>3. GatePass => ~isActive'
  BY <1>1, PassReturnsEnforcement
<1>4. CASE SessionFlips
  BY <1>1, <1>4 DEF SessionFlips, Wanted
<1>5. CASE Recompute
  BY <1>1, <1>3, <1>5 DEF Recompute
<1>6. ASSUME NEW isTimed \in BOOLEAN, PauseFor(isTimed) PROVE FALSE
  BY <1>6 DEF PauseFor, Wanted
<1>7. CASE ResumeTask
  BY <1>1, <1>7 DEF ResumeTask, Resume, session, wifi
<1>8. CASE WiFiMoves
  BY <1>1, <1>8 DEF WiFiMoves, Wanted, session, enforcement
<1>9. CASE WiFiChange
  BY <1>3, <1>9 DEF WiFiChange, session
<1>10. CASE ToggleTrust \/ ResetEnrollment
  BY <1>3, <1>10 DEF ToggleTrust, ResetEnrollment, session, wifi
<1>11. ASSUME NEW e \in Enrollments, StartEnrollment(e) PROVE FALSE
  <2>1. capture'[e] # "off"
    BY <1>11 DEF StartEnrollment, ApplyEnforcement, TypeOK
  <2> QED
    BY <2>1 DEF Wanted
<1>12. ASSUME NEW e \in Enrollments, CaptureEnds(e) \/ AlertDismissed(e)
       PROVE  FALSE
  BY <1>1, <1>12 DEF CaptureEnds, AlertDismissed
<1>13. CASE UNCHANGED vars
  BY <1>1, <1>13 DEF vars, session, wifi
<1> QED
  BY <1>1, <1>2, <1>4, <1>5, <1>6, <1>7, <1>8, <1>9, <1>10, <1>11, <1>12,
     <1>13
  DEF Next, TimerFires, MenuResume, LoopReads, AwaitsPoll, AwaitsWiFi

\* Enforcement that is wanted and off waits for the session poll, or for the
\* callback the Wi-Fi monitor is about to make, and each of them comes: once the
\* session is active, nothing is paused or trusted and no enrollment task is left,
\* only a trust whose end is not reported can hold the loop off (main.swift:
\* 136-141,166, SessionStateMonitor.swift:71-79, WiFiMonitor.swift:150-156).
THEOREM EnforcementReturnsHolds ==
  Spec /\ []DueIsEnabled => EnforcementReturns
<1>1. TypeOK /\ GateSafety /\ Wanted => loopRunning \/ AwaitsPoll \/ AwaitsWiFi
  BY DEF GateSafety, GateIsCurrent, EnrollmentHasCamera, Wanted, AwaitsPoll,
         AwaitsWiFi
<1>2. /\ TypeOK /\ TypeOK' /\ GateSafety /\ [Next]_vars
      /\ AwaitsPoll
      => (loopRunning \/ ~Wanted)' \/ AwaitsPoll'
  BY WaitStep DEF AwaitsPoll
<1>3. /\ TypeOK /\ TypeOK' /\ GateSafety /\ [Next]_vars
      /\ AwaitsWiFi
      => (loopRunning \/ ~Wanted)' \/ AwaitsWiFi'
  BY WaitStep DEF AwaitsWiFi
<1>4. /\ TypeOK /\ TypeOK' /\ GateSafety
      /\ AwaitsPoll /\ <<Recompute>>_vars
      => (loopRunning \/ ~Wanted)'
  <2> SUFFICES ASSUME TypeOK, TypeOK', GateSafety, AwaitsPoll, Recompute
               PROVE  (loopRunning \/ ~Wanted)'
    OBVIOUS
  <2>1. isActive' /\ \A e \in Enrollments : capture[e] = "off"
    BY DEF AwaitsPoll, Wanted, Recompute
  <2> QED
    BY <2>1, PassReturnsEnforcement DEF Recompute
<1>5. /\ TypeOK /\ TypeOK' /\ GateSafety
      /\ AwaitsWiFi /\ <<WiFiChange>>_vars
      => (loopRunning \/ ~Wanted)'
  <2> SUFFICES ASSUME TypeOK, TypeOK', GateSafety, AwaitsWiFi, WiFiChange
               PROVE  (loopRunning \/ ~Wanted)'
    OBVIOUS
  <2>1. isActive' /\ \A e \in Enrollments : capture[e] = "off"
    BY DEF AwaitsWiFi, Wanted, WiFiChange, session
  <2> QED
    BY <2>1, PassReturnsEnforcement DEF WiFiChange
<1>6. TypeOK /\ DueIsEnabled /\ AwaitsPoll => ENABLED <<Recompute>>_vars
  <2>1. TypeOK /\ AwaitsPoll => isActive # realActive
    <3> SUFFICES ASSUME TypeOK, AwaitsPoll, isActive = realActive PROVE FALSE
      OBVIOUS
    <3> QED
      BY DEF AwaitsPoll, Wanted, TypeOK
  <2> QED
    BY <2>1 DEF DueIsEnabled
<1>7. DueIsEnabled /\ AwaitsWiFi => ENABLED <<WiFiChange>>_vars
  <2>1. AwaitsWiFi => ~AlertUp /\ wifiNote
    BY DEF AwaitsWiFi, Wanted, AlertUp
  <2> QED
    BY <2>1 DEF DueIsEnabled
<1>8. Spec => WF_vars(Recompute) /\ SF_vars(WiFiChange)
  BY PTL DEF Spec, Fairness
<1>9. Spec => []TypeOK /\ []GateSafety
  BY GateTypeCorrect, GateSafetyHolds
<1>10. Spec /\ []DueIsEnabled => (AwaitsPoll ~> (loopRunning \/ ~Wanted))
  BY <1>2, <1>4, <1>6, <1>8, <1>9, PTL DEF Spec
<1>11. Spec /\ []DueIsEnabled => (AwaitsWiFi ~> (loopRunning \/ ~Wanted))
  BY <1>3, <1>5, <1>7, <1>8, <1>9, PTL DEF Spec
<1> QED
  BY <1>1, <1>9, <1>10, <1>11, PTL DEF EnforcementReturns

\* A timed pause is never left without its end: the timer is scheduled, or it
\* has fired and the task it queued is still to run.
TimedPauseHasEnd == isPaused /\ timed => timer \/ resumeTasks > 0

\* What a step can make of a timed pause: it keeps the timer or the backlog,
\* unless the pause ends.
LEMMA TimedPauseStep ==
  ASSUME TypeOK, TimedPauseHasEnd, [Next]_vars
  PROVE  /\ TimedPauseHasEnd'
         /\ isPaused /\ timed /\ resumeTasks > 0
            => ~(isPaused /\ timed)' \/ resumeTasks' > 0
<1> USE DEF TimedPauseHasEnd
<1>1. resumeTasks \in Nat
  BY GateAssumption DEF GateAssumption, TypeOK
<1>2. CASE SessionFlips
  BY <1>2 DEF SessionFlips, pause
<1>3. CASE Recompute
  BY <1>3 DEF Recompute, pause
<1>4. ASSUME NEW isTimed \in BOOLEAN, PauseFor(isTimed)
      PROVE  /\ TimedPauseHasEnd'
             /\ resumeTasks' = resumeTasks
  BY <1>4 DEF PauseFor
<1>5. CASE TimerFires
  <2>1. resumeTasks' > 0
    BY <1>1, <1>5 DEF TimerFires
  <2> QED
    BY <2>1
<1>6. CASE ResumeTask \/ MenuResume
  <2>1. ~isPaused'
    BY <1>6 DEF ResumeTask, MenuResume, Resume, TypeOK
  <2> QED
    BY <2>1
<1>7. CASE WiFiMoves \/ WiFiChange \/ ToggleTrust \/ ResetEnrollment
  BY <1>7 DEF WiFiMoves, WiFiChange, ToggleTrust, ResetEnrollment, pause
<1>8. ASSUME NEW e \in Enrollments,
             StartEnrollment(e) \/ CaptureEnds(e) \/ AlertDismissed(e)
      PROVE  UNCHANGED pause
  BY <1>8 DEF StartEnrollment, CaptureEnds, AlertDismissed
<1>9. CASE LoopReads
  BY <1>9 DEF LoopReads, pause
<1>10. CASE UNCHANGED vars
  BY <1>10 DEF vars, pause
<1> QED
  BY <1>2, <1>3, <1>4, <1>5, <1>6, <1>7, <1>8, <1>9, <1>10 DEF Next, pause

\* No order of pausing, resuming early and pausing again, with the tasks of
\* earlier timers still in the queue, leaves a timed pause with nothing to end
\* it (PauseController.swift:27-44).
THEOREM TimedPauseHasEndHolds == Spec => []TimedPauseHasEnd
<1>1. Init => TimedPauseHasEnd
  BY DEF Init, TimedPauseHasEnd
<1>2. TypeOK /\ TimedPauseHasEnd /\ [Next]_vars => TimedPauseHasEnd'
  BY TimedPauseStep
<1> QED
  BY <1>1, <1>2, GateTypeCorrect, PTL DEF Spec

\* A timed pause whose timer has yet to fire, and one whose end is queued.
AwaitsTimer == isPaused /\ timed /\ ~AlertUp /\ resumeTasks = 0
AwaitsResume == isPaused /\ timed /\ ~AlertUp /\ resumeTasks > 0

\* A timed pause ends by itself, unless the main queue is held up by an alert:
\* the timer fires, and the task it queues is served (PauseController.swift:27-30).
THEOREM TimedPauseEndsHolds == Spec /\ []DueIsEnabled => TimedPauseEnds
<1> DEFINE Over == ~(isPaused /\ timed) \/ AlertUp
<1>1. TypeOK => (isPaused /\ timed => AwaitsTimer \/ AwaitsResume \/ Over)
  BY GateAssumption DEF GateAssumption, TypeOK, AwaitsTimer, AwaitsResume
<1>2. /\ TypeOK /\ TypeOK' /\ TimedPauseHasEnd /\ [Next]_vars
      /\ AwaitsTimer
      => AwaitsTimer' \/ AwaitsResume' \/ Over'
  BY GateAssumption DEF GateAssumption, TypeOK, AwaitsTimer, AwaitsResume
<1>3. /\ TypeOK /\ TypeOK' /\ TimedPauseHasEnd /\ [Next]_vars
      /\ AwaitsResume
      => AwaitsResume' \/ Over'
  BY TimedPauseStep DEF AwaitsResume
<1>4. TypeOK /\ AwaitsTimer /\ <<TimerFires>>_vars => ~AwaitsTimer'
  BY DEF TimerFires, AwaitsTimer
<1>5. TypeOK /\ <<ResumeTask>>_vars => Over'
  BY DEF ResumeTask, Resume, TypeOK
<1>6. TypeOK /\ TimedPauseHasEnd /\ DueIsEnabled /\ AwaitsTimer
      => ENABLED <<TimerFires>>_vars
  <2>1. TypeOK /\ TimedPauseHasEnd /\ AwaitsTimer
        => timer /\ resumeTasks < MaxResumes
    BY GateAssumption DEF GateAssumption, TimedPauseHasEnd, AwaitsTimer
  <2> QED
    BY <2>1 DEF DueIsEnabled
<1>7. DueIsEnabled /\ AwaitsResume => ENABLED <<ResumeTask>>_vars
  BY DEF DueIsEnabled, AwaitsResume
<1>8. Spec => WF_vars(TimerFires) /\ SF_vars(ResumeTask)
  BY PTL DEF Spec, Fairness
<1>9. Spec => []TypeOK /\ []TimedPauseHasEnd
  BY GateTypeCorrect, TimedPauseHasEndHolds
<1> HIDE DEF Over
<1>10. Spec /\ []DueIsEnabled => (AwaitsResume ~> Over)
  BY <1>3, <1>5, <1>7, <1>8, <1>9, PTL DEF Spec
<1>11. Spec /\ []DueIsEnabled => (AwaitsTimer ~> (AwaitsResume \/ Over))
  BY <1>2, <1>4, <1>6, <1>8, <1>9, PTL DEF Spec
<1> QED
  BY <1>1, <1>9, <1>10, <1>11, PTL DEF TimedPauseEnds, Over

\* An enrollment the app is in, with task e still about; and what that leads to,
\* as operators, since the provers take a temporal formula only as a name.
AwaitsCapture(e) ==
  isEnrolling /\ ~AlertUp /\ capture[e] \in {"capturing", "cancelled"}
Released == ~isEnrolling \/ AlertUp
Eventually == <>Released
TaskReleases(e) == AwaitsCapture(e) => Eventually

\* Nothing but its own end touches a capture of an enrollment the app is in:
\* another task's end clears the flag.
LEMMA CaptureStep ==
  ASSUME TypeOK, TypeOK', NEW e \in Enrollments, AwaitsCapture(e), [Next]_vars
  PROVE  AwaitsCapture(e)' \/ Released'
<1> SUFFICES ASSUME ~Released'
             PROVE  capture'[e] \in {"capturing", "cancelled"}
  BY DEF AwaitsCapture, Released
<1> USE DEF AwaitsCapture, Released
<1>1. GatePass => capture'[e] \in {"capturing", "cancelled"}
  BY DEF GatePass, ApplyEnforcement
<1>2. ASSUME UNCHANGED enrollment
      PROVE  capture'[e] \in {"capturing", "cancelled"}
  BY <1>2 DEF enrollment
<1>3. CASE SessionFlips \/ TimerFires \/ WiFiMoves \/ LoopReads
  BY <1>2, <1>3 DEF SessionFlips, TimerFires, WiFiMoves, LoopReads
<1>4. CASE Recompute \/ \E isTimed \in BOOLEAN : PauseFor(isTimed)
  BY <1>1, <1>4 DEF Recompute, PauseFor
<1>5. CASE ResumeTask \/ MenuResume
  BY <1>1, <1>2, <1>5 DEF ResumeTask, MenuResume, Resume
<1>6. CASE WiFiChange \/ ToggleTrust \/ ResetEnrollment
  BY <1>1, <1>6 DEF WiFiChange, ToggleTrust, ResetEnrollment
<1>7. ASSUME NEW d \in Enrollments, StartEnrollment(d) PROVE FALSE
  BY <1>7 DEF StartEnrollment
<1>8. ASSUME NEW d \in Enrollments, CleanUp(d) PROVE FALSE
  BY <1>8 DEF CleanUp, ApplyEnforcement, StillEnrolling
<1>9. ASSUME NEW d \in Enrollments, CaptureEnds(d) \/ AlertDismissed(d)
      PROVE  FALSE
  <2>1. capture'[d] = "alert"
    BY <1>8, <1>9 DEF CaptureEnds, AlertDismissed, TypeOK
  <2> QED
    BY <2>1 DEF AlertUp
<1>10. CASE UNCHANGED vars
  BY <1>2, <1>10 DEF vars
<1> QED
  BY <1>3, <1>4, <1>5, <1>6, <1>7, <1>9, <1>10 DEF Next

\* The end of a capture shows a result or runs the clean-up.
LEMMA CaptureEndReleases ==
  ASSUME TypeOK, NEW e \in Enrollments, CaptureEnds(e)
  PROVE  Released'
<1>1. CASE CleanUp(e)
  BY <1>1 DEF CleanUp, ApplyEnforcement, StillEnrolling, Released
<1>2. CASE ~CleanUp(e)
  <2>1. capture'[e] = "alert"
    BY <1>2 DEF CaptureEnds, TypeOK
  <2> QED
    BY <2>1 DEF AlertUp, Released
<1> QED
  BY <1>1, <1>2

\* isEnrolling cannot get stuck, whichever tasks are about when it is set and
\* whichever of them ends first: it ends, or the user is shown a result
\* (main.swift:41-44,266-270).
THEOREM EnrollmentReleasesHolds ==
  Spec /\ []DueIsEnabled => EnrollmentReleases
<1>0. Spec => \A e \in Enrollments : CaptureFair(e)
  BY PTL DEF Spec, Fairness
<1>1. ASSUME NEW e \in Enrollments
      PROVE  Spec /\ []DueIsEnabled => []TaskReleases(e)
  <2>1. TypeOK /\ TypeOK' /\ [Next]_vars /\ AwaitsCapture(e)
        => AwaitsCapture(e)' \/ Released'
    BY CaptureStep
  <2>2. TypeOK /\ <<CaptureEnds(e)>>_vars => Released'
    BY CaptureEndReleases
  <2>3. DueIsEnabled /\ AwaitsCapture(e) => ENABLED <<CaptureEnds(e)>>_vars
    BY DEF DueIsEnabled, AwaitsCapture
  <2>4. Spec => CaptureFair(e)
    BY <1>0
  <2>5. Spec => []TypeOK
    BY GateTypeCorrect
  <2> QED
    BY <2>1, <2>2, <2>3, <2>4, <2>5, PTL
    DEF Spec, CaptureFair, TaskReleases, Eventually
<1>2. Spec /\ []DueIsEnabled => \A e \in Enrollments : []TaskReleases(e)
  BY <1>1
<1>3. (\A e \in Enrollments : []TaskReleases(e))
      => [](\A e \in Enrollments : TaskReleases(e))
  OBVIOUS
<1>4. TypeOK /\ EnrollmentHasCamera /\ isEnrolling
      => Released \/ \E e \in Enrollments : AwaitsCapture(e)
  BY DEF TypeOK, EnrollmentHasCamera, Released, AwaitsCapture, AlertUp
<1>5. (\A e \in Enrollments : TaskReleases(e))
      => ((\E e \in Enrollments : AwaitsCapture(e)) => Eventually)
  BY DEF TaskReleases
<1>6. Spec => []TypeOK /\ []EnrollmentHasCamera
  BY GateTypeCorrect, EnrollmentHasCameraHolds
<1> QED
  BY <1>2, <1>3, <1>4, <1>5, <1>6, PTL
  DEF EnrollmentReleases, Eventually, Released

=============================================================================
