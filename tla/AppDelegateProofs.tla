--------------------------- MODULE AppDelegateProofs ---------------------------
(***************************************************************************)
(* Proofs about the running app, for any number of loops, "Lock now" and   *)
(* enrollment tasks and any number of outstanding settings callbacks.      *)
(*                                                                         *)
(* The argument is by what each step leaves alone.  A step of the app is a *)
(* step of the gate or leaves it alone (AppGateStep), so what is proved of *)
(* the gate alone holds in the app; the handlers that run a gate pass      *)
(* settle the loop and the display (HandlerSettles), the others keep them  *)
(* (PasslessKeeps).                                                        *)
(***************************************************************************)
EXTENDS AppDelegate, TLAPS

\* The gate's theorems, for the gate of the app.
GateProofs == INSTANCE EnforcementGateProofs

\* A loop the app holds is one the gate's inputs allow, the network as the gate
\* last read it: the inductive form of NothingLocksWhileOff.
LoopIsAllowed ==
  loopRunning => isActive /\ ~isPaused /\ ~isEnrolling /\ ~seenTrusted

\* The handlers that run no pass.
Passless == Unseen \/ NothingResumed \/ ResultShown

\* The inductive form of BannerIsTrue: what would become a banner counts, too.
BannerIsOwed ==
  /\ ~orphan /\ (banner \/ posts > 0) => isUnavailable
  /\ isUnavailable => loopRunning

\* The engine's part of TypeOK.
EngineTyped ==
  /\ state \in Engine!States
  /\ loopTask \in Loops \cup {NoTask}
  /\ step \in [Loops \cup Menus -> Engine!Steps]
  /\ loopTask # NoTask => step[loopTask] # "off"

\* The inductive invariant of the app.
AppSafety ==
  /\ TypeOK
  /\ LoopIsAllowed
  /\ BannerIsOwed
  /\ OneSourceOfTruth

-----------------------------------------------------------------------------
(***************************************************************************)
(* The gate in the app.                                                    *)
(***************************************************************************)
\* The two instances of the gate are the same state machine.
LEMMA SameGate ==
  /\ Gate!Init <=> GateProofs!Init
  /\ Gate!vars = GateProofs!vars
  /\ Gate!TypeOK <=> GateProofs!TypeOK
<1>1. Gate!Init <=> GateProofs!Init
  BY DEF Gate!Init, GateProofs!Init
<1>2. Gate!vars = GateProofs!vars
  BY DEF Gate!vars, GateProofs!vars, Gate!session, GateProofs!session,
         Gate!pause, GateProofs!pause, Gate!wifi, GateProofs!wifi,
         Gate!enrollment, GateProofs!enrollment,
         Gate!enforcement, GateProofs!enforcement
<1>3. Gate!TypeOK <=> GateProofs!TypeOK
  BY DEF Gate!TypeOK, GateProofs!TypeOK
<1> QED
  BY <1>1, <1>2, <1>3

LEMMA SameGateNext == Gate!Next => GateProofs!Next
BY DEF Gate!Next, GateProofs!Next, Gate!SessionFlips,
       GateProofs!SessionFlips, Gate!Recompute, GateProofs!Recompute,
       Gate!PauseFor, GateProofs!PauseFor, Gate!TimerFires,
       GateProofs!TimerFires, Gate!Resume, GateProofs!Resume,
       Gate!ResumeTask, GateProofs!ResumeTask, Gate!MenuResume,
       GateProofs!MenuResume, Gate!WiFiMoves, GateProofs!WiFiMoves,
       Gate!WiFiChange, GateProofs!WiFiChange, Gate!ToggleTrust,
       GateProofs!ToggleTrust, Gate!ResetEnrollment,
       GateProofs!ResetEnrollment, Gate!StartEnrollment,
       GateProofs!StartEnrollment, Gate!CaptureEnds,
       GateProofs!CaptureEnds, Gate!AlertDismissed,
       GateProofs!AlertDismissed, Gate!CleanUp, GateProofs!CleanUp,
       Gate!LoopReads, GateProofs!LoopReads, Gate!GatePass,
       GateProofs!GatePass, Gate!ApplyEnforcement,
       GateProofs!ApplyEnforcement, Gate!StillEnrolling,
       GateProofs!StillEnrolling, Gate!Allowed, GateProofs!Allowed,
       Gate!CameraAfter, GateProofs!CameraAfter, Gate!OffDisplay,
       GateProofs!OffDisplay, Gate!AlertUp, GateProofs!AlertUp,
       Gate!session, GateProofs!session, Gate!pause, GateProofs!pause,
       Gate!wifi, GateProofs!wifi, Gate!enrollment,
       GateProofs!enrollment, Gate!enforcement, GateProofs!enforcement

\* A step of the app is one of the gate, or leaves the gate alone.
LEMMA AppGateStep == [Next]_vars => [Gate!Next]_(Gate!vars)
<1> SUFFICES ASSUME [Next]_vars PROVE [Gate!Next]_(Gate!vars)
  OBVIOUS
<1>1. ASSUME UNCHANGED gate PROVE UNCHANGED Gate!vars
  BY <1>1
  DEF gate, Gate!vars, Gate!session, Gate!pause, Gate!wifi, Gate!enrollment,
      Gate!enforcement
<1>2. CASE Unnoticed
  BY <1>2 DEF Unnoticed, Unseen, NothingResumed, ResultShown, Gate!Next
<1>3. CASE GatePass
  BY <1>3 DEF GatePass, Handler, Gate!Next
<1>4. ASSUME NEW t \in Loops, BeginTick(t) \/ TickEnds(t) \/ AutoLock(t)
      PROVE  [Gate!Next]_(Gate!vars)
  <2>1. UNCHANGED gate \/ Gate!LoopReads
    BY <1>4 DEF BeginTick, TickEnds, AutoLock, RenderTick
  <2> QED
    BY <1>1, <2>1 DEF Gate!Next
<1>5. ASSUME NEW m \in Menus, LockNow(m) \/ LockNowEnds(m)
      PROVE  [Gate!Next]_(Gate!vars)
  BY <1>1, <1>5 DEF LockNow, LockNowEnds
<1>6. CASE NotifierSteps
  BY <1>1, <1>6 DEF NotifierSteps
<1>7. CASE UNCHANGED vars
  BY <1>1, <1>7 DEF vars
<1> QED
  BY <1>2, <1>3, <1>4, <1>5, <1>6, <1>7 DEF Next

\* The app runs the gate as EnforcementGate describes it: whatever is an
\* invariant of the gate's steps holds in the app (main.swift:142-221).
THEOREM AppRunsGate == Spec => Gate!Init /\ [][Gate!Next]_(Gate!vars)
<1>1. Init => Gate!Init
  BY DEF Init
<1> QED
  BY <1>1, AppGateStep, PTL DEF Spec

\* What the last lines of a handler that runs a pass leave behind.
LEMMA HandlerSettles ==
  ASSUME Gate!TypeOK, Gate!TypeOK', Handler
  PROVE  /\ loopRunning' => /\ isActive' /\ ~isPaused' /\ ~isEnrolling'
                            /\ ~seenTrusted'
         /\ ~loopRunning' => display' \in {"suspended", "paused", "trustedNetwork"}
<1>1. PICK b : \E c : Gate!ApplyEnforcement(b, c)
  <2>1. CASE Gate!GatePass
    BY <2>1 DEF Gate!GatePass
  <2>2. CASE \E e \in Enrollments : Gate!CleanUp(e)
    BY <2>2 DEF Gate!CleanUp
  <2>3. CASE \E e \in Enrollments : Gate!StartEnrollment(e)
    BY <2>3 DEF Gate!StartEnrollment
  <2>4. ASSUME NEW e \in Enrollments, Gate!CaptureEnds(e), capture'[e] = "off"
        PROVE  Gate!CleanUp(e)
    BY <2>4 DEF Gate!CaptureEnds, Gate!TypeOK
  <2> QED
    BY <2>1, <2>2, <2>3, <2>4
    DEF Handler, Gate!Recompute, Gate!PauseFor, Gate!ResumeTask,
        Gate!MenuResume, Gate!Resume, Gate!WiFiChange, Gate!ToggleTrust,
        Gate!ResetEnrollment, Gate!AlertDismissed
<1>2. /\ loopRunning' = Gate!Allowed(b) /\ isEnrolling' = Gate!StillEnrolling(b)
      /\ seenTrusted' = onTrusted'
  BY <1>1 DEF Gate!ApplyEnforcement
<1>3. ~loopRunning' => display' = Gate!OffDisplay(b)
  BY <1>1, <1>2 DEF Gate!ApplyEnforcement
<1> QED
  BY <1>2, <1>3
  DEF Gate!Allowed, Gate!StillEnrolling, Gate!OffDisplay, Gate!TypeOK

\* What the other handlers keep: no input a pass has acted on changes, as far as
\* the pass has read it.
LEMMA PasslessKeeps ==
  ASSUME Gate!TypeOK, Passless
  PROVE  UNCHANGED <<isActive, isPaused, isEnrolling, loopRunning, display,
                     seenTrusted>>
<1> USE DEF Gate!session, Gate!pause, Gate!wifi, Gate!enrollment,
            Gate!enforcement
<1>1. CASE Gate!SessionFlips \/ Gate!TimerFires \/ Gate!WiFiMoves
  BY <1>1 DEF Gate!SessionFlips, Gate!TimerFires, Gate!WiFiMoves
<1>2. CASE Gate!ResumeTask /\ ~isPaused
  BY <1>2 DEF Gate!ResumeTask, Gate!Resume
<1>3. ASSUME NEW e \in Enrollments, Gate!CaptureEnds(e), capture'[e] = "alert"
      PROVE  UNCHANGED <<isActive, isPaused, isEnrolling, loopRunning, display,
                         seenTrusted>>
  <2>1. ~Gate!CleanUp(e)
    <3> SUFFICES ASSUME Gate!CleanUp(e) PROVE FALSE
      OBVIOUS
    <3>1. capture'[e] \in {"cancelled", "off"}
      BY DEF Gate!CleanUp, Gate!ApplyEnforcement, Gate!TypeOK
    <3> QED
      BY <1>3, <3>1
  <2> QED
    BY <1>3, <2>1 DEF Gate!CaptureEnds
<1> QED
  BY <1>1, <1>2, <1>3 DEF Passless, Unseen, NothingResumed, ResultShown

-----------------------------------------------------------------------------
(***************************************************************************)
(* The engine and the notifier in the app.                                 *)
(***************************************************************************)
\* The gate's two calls keep the engine well typed, whatever tasks are about.
LEMMA SwitchTyped ==
  ASSUME TypeOK, Gate!TypeOK', Handler, Switch
  PROVE  EngineTyped' /\ (loopRunning' <=> loopTask' # NoTask)
<1> USE DEF EngineTyped, TypeOK, Engine!States, Engine!Steps, Engine!Tasks
<1>1. CASE loopRunning' /\ loopRunning
  BY <1>1 DEF Switch, engine
<1>2. CASE loopRunning' /\ ~loopRunning
  <2>1. PICK t \in Loops : Engine!StartLoop(t)
    BY <1>2 DEF Switch
  <2>2. t # NoTask /\ step'[t] = "asleep"
    BY <2>1, AppAssumption DEF AppAssumption, Engine!StartLoop
  <2> QED
    BY <1>2, <2>1, <2>2 DEF Engine!StartLoop
<1>3. CASE ~loopRunning'
  <2>1. Engine!Disable(display')
    BY <1>3 DEF Switch
  <2>2. display' \in {"suspended", "paused", "trustedNetwork"}
    BY <1>3, HandlerSettles
  <2> QED
    BY <1>3, <2>1, <2>2 DEF Engine!Disable
<1> QED
  BY <1>1, <1>2, <1>3

\* So do the tasks, and none of them changes which loop the app holds.
LEMMA TaskTyped ==
  ASSUME EngineTyped, NEW t \in Loops \cup Menus, loopTask \notin Menus,
         \/ t \in Loops /\ ( \/ Engine!BeginTick(t) \/ Engine!Reading(t)
                             \/ Engine!AutoLock(t))
         \/ t \in Menus /\ Engine!LockNow(t)
         \/ \E ok \in BOOLEAN : Engine!LockReturns(t, ok)
  PROVE  EngineTyped' /\ loopTask' = loopTask
<1> USE DEF EngineTyped, Engine!States, Engine!Steps, Engine!Tasks
<1>1. ASSUME t \in Loops, Engine!BeginTick(t) PROVE EngineTyped' /\ loopTask' = loopTask
  BY <1>1 DEF Engine!BeginTick
<1>2. ASSUME t \in Loops, Engine!Reading(t) PROVE EngineTyped' /\ loopTask' = loopTask
  BY <1>2 DEF Engine!Reading, Engine!EndTick
<1>3. ASSUME t \in Loops, Engine!AutoLock(t) PROVE EngineTyped' /\ loopTask' = loopTask
  BY <1>3 DEF Engine!AutoLock
<1>4. ASSUME t \in Menus, Engine!LockNow(t) PROVE EngineTyped' /\ loopTask' = loopTask
  BY <1>4 DEF Engine!LockNow
<1>5. ASSUME NEW ok \in BOOLEAN, Engine!LockReturns(t, ok)
      PROVE  EngineTyped' /\ loopTask' = loopTask
  BY <1>5 DEF Engine!LockReturns, Engine!EndTick
<1> QED
  BY <1>1, <1>2, <1>3, <1>4, <1>5

\* Being told the state, the notifier ends up in the episode it says, and has
\* nothing outstanding that is not of this episode or an orphan.
LEMMA UpdateNotes ==
  ASSUME Notifier!TypeOK, BannerIsOwed, MaxPosts \in Nat,
         NEW s, Notifier!Update(s)
  PROVE  /\ Notifier!TypeOK'
         /\ isUnavailable' <=> s = "cameraUnavailable"
         /\ ~orphan' /\ (banner' \/ posts' > 0) => isUnavailable'
<1> USE DEF Notifier!TypeOK, BannerIsOwed, Notifier!episode, Notifier!center
<1>1. CASE Notifier!Post /\ s = "cameraUnavailable"
  <2>1. posts' \in 0 .. MaxPosts
    BY <1>1 DEF Notifier!Post
  <2> QED
    BY <1>1, <2>1 DEF Notifier!Post, Notifier!Update
<1>2. CASE Notifier!Withdraw /\ s # "cameraUnavailable"
  <2>1. orphan' \in BOOLEAN /\ (posts > 0 => orphan')
    BY <1>2 DEF Notifier!Withdraw
  <2> QED
    BY <1>2, <2>1 DEF Notifier!Withdraw, Notifier!Update
<1>3. CASE /\ UNCHANGED <<Notifier!episode, Notifier!center, orphan>>
           /\ isUnavailable <=> s = "cameraUnavailable"
  BY <1>3 DEF Notifier!Update
<1> QED
  BY <1>1, <1>2, <1>3 DEF Notifier!Update

\* What happens to the notifier meanwhile starts no episode and ends none.
LEMMA EnvironmentKeeps ==
  ASSUME Notifier!TypeOK, BannerIsOwed, MaxPosts \in Nat, Notifier!Environment
  PROVE  /\ Notifier!TypeOK'
         /\ isUnavailable' = isUnavailable
         /\ ~orphan' /\ (banner' \/ posts' > 0) => isUnavailable'
<1> USE DEF Notifier!TypeOK, BannerIsOwed, Notifier!episode, Notifier!center
<1>1. CASE Notifier!SettingsArrive
  <2>1. posts' \in 0 .. MaxPosts
    BY <1>1 DEF Notifier!SettingsArrive
  <2>2. banner' \in BOOLEAN
    BY <1>1 DEF Notifier!SettingsArrive
  <2>3. UNCHANGED <<isUnavailable, lastPostedAt, authorized, orphan>> /\ posts > 0
    BY <1>1 DEF Notifier!SettingsArrive
  <2> QED
    BY <2>1, <2>2, <2>3
<1>2. CASE Notifier!IntervalElapses
  BY <1>2 DEF Notifier!IntervalElapses
<1>3. CASE Notifier!Decide
  BY <1>3 DEF Notifier!Decide
<1>4. CASE Notifier!Dismiss
  BY <1>4 DEF Notifier!Dismiss
<1> QED
  BY <1>1, <1>2, <1>3, <1>4 DEF Notifier!Environment

-----------------------------------------------------------------------------
(***************************************************************************)
(* Safety of the app.                                                      *)
(***************************************************************************)
\* The gate's part of TypeOK is the gate's own affair.
LEMMA GateTyped == Gate!TypeOK /\ [Next]_vars => Gate!TypeOK'
<1>1. GateProofs!TypeOK /\ [GateProofs!Next]_(GateProofs!vars) => GateProofs!TypeOK'
  BY GateProofs!TypeStep, AppAssumption DEF GateProofs!TypeStep
<1>2. Gate!TypeOK' <=> GateProofs!TypeOK'
  BY DEF Gate!TypeOK, GateProofs!TypeOK
<1>3. Gate!vars' = GateProofs!vars'
  BY DEF Gate!vars, GateProofs!vars, Gate!session, GateProofs!session,
         Gate!pause, GateProofs!pause, Gate!wifi, GateProofs!wifi,
         Gate!enrollment, GateProofs!enrollment,
         Gate!enforcement, GateProofs!enforcement
<1> QED
  BY <1>1, <1>2, <1>3, SameGate, SameGateNext, AppGateStep

\* A handler that runs no pass.
LEMMA UnnoticedIsSafe ==
  ASSUME AppSafety, Gate!TypeOK', Unnoticed
  PROVE  AppSafety'
<1>1. Passless /\ UNCHANGED <<engine, notifier, lastRenderedState, strayed>>
  BY DEF Unnoticed, Passless, Silent
<1>2. UNCHANGED <<isActive, isPaused, isEnrolling, loopRunning, display,
                  seenTrusted>>
  BY <1>1, PasslessKeeps DEF AppSafety, TypeOK
<1>3. TypeOK'
  BY <1>1, <1>2
  DEF AppSafety, TypeOK, engine, notifier, Notifier!TypeOK, Engine!States,
      Engine!Steps
<1>4. LoopIsAllowed'
  BY <1>2 DEF AppSafety, LoopIsAllowed
<1>5. BannerIsOwed' /\ OneSourceOfTruth'
  BY <1>1, <1>2 DEF AppSafety, BannerIsOwed, OneSourceOfTruth, engine, notifier
<1> QED
  BY <1>3, <1>4, <1>5 DEF AppSafety

\* A handler that runs one: whatever was shown before, all is told afresh.
LEMMA GatePassIsSafe ==
  ASSUME AppSafety, Gate!TypeOK', GatePass
  PROVE  AppSafety'
<1>1. Handler /\ Switch /\ Render
  BY DEF GatePass
<1>2. EngineTyped' /\ (loopRunning' <=> loopTask' # NoTask)
  BY <1>1, SwitchTyped DEF AppSafety, TypeOK
<1>3. /\ Notifier!TypeOK'
      /\ isUnavailable' <=> state' = "cameraUnavailable"
      /\ ~orphan' /\ (banner' \/ posts' > 0) => isUnavailable'
  BY <1>1, UpdateNotes, AppAssumption DEF AppAssumption, AppSafety, TypeOK, Render
<1>4. /\ loopRunning' => /\ isActive' /\ ~isPaused' /\ ~isEnrolling'
                         /\ ~seenTrusted'
      /\ ~loopRunning' => display' \in {"suspended", "paused", "trustedNetwork"}
  BY <1>1, HandlerSettles DEF AppSafety, TypeOK
<1>5. ~loopRunning' => state' = display' /\ state' # "cameraUnavailable"
  BY <1>1, <1>4 DEF Switch, Engine!Disable
<1>6. TypeOK'
  BY <1>1, <1>2, <1>3 DEF TypeOK, EngineTyped, Render, Engine!States, Engine!Steps
<1>7. LoopIsAllowed'
  BY <1>4 DEF LoopIsAllowed
<1>8. BannerIsOwed'
  BY <1>3, <1>5 DEF BannerIsOwed
<1>9. OneSourceOfTruth'
  BY <1>1, <1>3, <1>5 DEF OneSourceOfTruth, Render
<1> QED
  BY <1>6, <1>7, <1>8, <1>9 DEF AppSafety

\* A task of the engine: only the loop the app holds renders, and nobody but the
\* gate changes what the gate decided.
LEMMA TaskIsSafe ==
  ASSUME AppSafety, Gate!TypeOK', NEW t \in Loops \cup Menus,
         \/ t \in Loops /\ (BeginTick(t) \/ TickEnds(t) \/ AutoLock(t))
         \/ t \in Menus /\ (LockNow(t) \/ LockNowEnds(t))
  PROVE  AppSafety'
<1>1. loopTask \notin Menus
  BY AppAssumption DEF AppAssumption, AppSafety, TypeOK
<1>2. EngineTyped' /\ loopTask' = loopTask
  <2>1. EngineTyped
    BY DEF AppSafety, TypeOK, EngineTyped
  <2>2. CASE UNCHANGED engine
    BY <2>1, <2>2 DEF EngineTyped, engine, Engine!States, Engine!Steps
  <2> QED
    BY <1>1, <2>1, <2>2, TaskTyped
    DEF BeginTick, TickEnds, AutoLock, LockNow, LockNowEnds
<1>3. UNCHANGED <<isActive, isPaused, isEnrolling, seenTrusted, loopRunning>>
  BY DEF BeginTick, TickEnds, AutoLock, LockNow, LockNowEnds, RenderTick, gate,
         Gate!LoopReads, Gate!session, Gate!pause, Gate!wifi, Gate!enrollment
<1>4. LoopIsAllowed'
  BY <1>3 DEF AppSafety, LoopIsAllowed
<1>5. CASE t \in Loops /\ TickEnds(t) /\ t = loopTask
  <2>1. Render /\ Gate!LoopReads
    BY <1>5 DEF TickEnds, RenderTick
  <2>2. /\ Notifier!TypeOK'
        /\ isUnavailable' <=> state' = "cameraUnavailable"
        /\ ~orphan' /\ (banner' \/ posts' > 0) => isUnavailable'
    BY <2>1, UpdateNotes, AppAssumption
    DEF AppAssumption, AppSafety, TypeOK, Render
  <2>3. TypeOK'
    BY <1>2, <1>3, <2>1, <2>2
    DEF AppSafety, TypeOK, EngineTyped, Render, Engine!States, Engine!Steps
  <2>4. loopRunning'
    BY <1>3, <2>1 DEF Gate!LoopReads
  <2> QED
    BY <1>4, <2>1, <2>2, <2>3, <2>4
    DEF AppSafety, BannerIsOwed, OneSourceOfTruth, Render
<1>6. ASSUME UNCHANGED notifier, lastRenderedState' \in {lastRenderedState, state'},
             \/ strayed' = TRUE
             \/ UNCHANGED <<state, lastRenderedState, strayed, display>>
      PROVE  AppSafety'
  <2>1. TypeOK'
    <3>1. Notifier!TypeOK'
      BY <1>6 DEF AppSafety, TypeOK, notifier, Notifier!TypeOK
    <3>2. lastRenderedState' \in Engine!States
      BY <1>2, <1>6 DEF AppSafety, TypeOK, EngineTyped, Engine!States
    <3>3. strayed' \in BOOLEAN
      BY <1>6 DEF AppSafety, TypeOK
    <3>4. loopRunning' <=> loopTask' # NoTask
      BY <1>2, <1>3 DEF AppSafety, TypeOK
    <3> QED
      BY <1>2, <3>1, <3>2, <3>3, <3>4
      DEF TypeOK, EngineTyped, Engine!States, Engine!Steps
  <2>2. BannerIsOwed'
    BY <1>3, <1>6 DEF AppSafety, BannerIsOwed, notifier
  <2>3. OneSourceOfTruth'
    BY <1>3, <1>6 DEF AppSafety, OneSourceOfTruth, notifier
  <2> QED
    BY <1>4, <2>1, <2>2, <2>3 DEF AppSafety
<1>7. CASE t \in Loops /\ TickEnds(t) /\ t # loopTask
  BY <1>6, <1>7 DEF TickEnds, RenderTick, NotRendered
<1>8. CASE t \in Loops /\ BeginTick(t)
  BY <1>6, <1>8 DEF BeginTick, Engine!BeginTick, Silent, gate
<1>9. CASE t \in Loops /\ AutoLock(t)
  <2>1. strayed' = TRUE \/ UNCHANGED <<state, strayed>>
    BY <1>9 DEF AutoLock, AppSafety, TypeOK
  <2> QED
    BY <1>6, <1>9, <2>1 DEF AutoLock, gate
<1>10. CASE t \in Menus /\ LockNow(t)
  BY <1>6, <1>10 DEF LockNow, Engine!LockNow, Silent, gate
<1>11. CASE t \in Menus /\ LockNowEnds(t)
  BY <1>6, <1>11 DEF LockNowEnds
<1> QED
  BY <1>5, <1>7, <1>8, <1>9, <1>10, <1>11

\* The user and Notification Center.
LEMMA NotifierIsSafe ==
  ASSUME AppSafety, Gate!TypeOK', NotifierSteps
  PROVE  AppSafety'
<1>1. /\ Notifier!TypeOK'
      /\ isUnavailable' = isUnavailable
      /\ ~orphan' /\ (banner' \/ posts' > 0) => isUnavailable'
  BY EnvironmentKeeps, AppAssumption
  DEF AppAssumption, AppSafety, TypeOK, NotifierSteps
<1>2. UNCHANGED <<gate, engine, lastRenderedState, strayed>>
  BY DEF NotifierSteps
<1>3. TypeOK'
  BY <1>1, <1>2 DEF AppSafety, TypeOK, gate, engine, Engine!States, Engine!Steps
<1>4. LoopIsAllowed' /\ BannerIsOwed'
  BY <1>1, <1>2 DEF AppSafety, LoopIsAllowed, BannerIsOwed, gate
<1>5. OneSourceOfTruth'
  BY <1>1, <1>2 DEF AppSafety, OneSourceOfTruth, gate, engine
<1> QED
  BY <1>3, <1>4, <1>5 DEF AppSafety

LEMMA AppSafetyStep == AppSafety /\ [Next]_vars => AppSafety'
<1> SUFFICES ASSUME AppSafety, [Next]_vars PROVE AppSafety'
  OBVIOUS
<1>1. Gate!TypeOK'
  BY GateTyped DEF AppSafety, TypeOK
<1>2. CASE Unnoticed
  BY <1>1, <1>2, UnnoticedIsSafe
<1>3. CASE GatePass
  BY <1>1, <1>3, GatePassIsSafe
<1>4. CASE \/ \E t \in Loops : BeginTick(t) \/ TickEnds(t) \/ AutoLock(t)
           \/ \E m \in Menus : LockNow(m) \/ LockNowEnds(m)
  BY <1>1, <1>4, TaskIsSafe
<1>5. CASE NotifierSteps
  BY <1>1, <1>5, NotifierIsSafe
<1>6. CASE UNCHANGED vars
  <2>1. TypeOK'
    BY <1>1, <1>6
    DEF AppSafety, TypeOK, vars, gate, engine, notifier, Notifier!TypeOK,
        Engine!States, Engine!Steps
  <2>2. LoopIsAllowed' /\ BannerIsOwed' /\ OneSourceOfTruth'
    BY <1>6
    DEF AppSafety, LoopIsAllowed, BannerIsOwed, OneSourceOfTruth, vars, gate,
        engine, notifier
  <2> QED
    BY <2>1, <2>2 DEF AppSafety
<1> QED
  BY <1>2, <1>3, <1>4, <1>5, <1>6 DEF Next

LEMMA AppSafetyInit == Init => AppSafety
<1> SUFFICES ASSUME Init PROVE AppSafety
  OBVIOUS
<1>1. Gate!TypeOK
  <2>1. realActive \in BOOLEAN /\ isActive \in BOOLEAN /\ onTrusted \in BOOLEAN
        /\ loopRunning \in BOOLEAN /\ cameraOn \in BOOLEAN
        /\ seenTrusted \in BOOLEAN
    BY DEF Init, Gate!Init
  <2>2. display \in {"reading", "suspended", "paused", "trustedNetwork"}
    BY Zenon DEF Init, Gate!Init
  <2>3. resumeTasks \in 0 .. MaxResumes
    BY AppAssumption DEF AppAssumption, Init, Gate!Init
  <2> QED
    BY <2>1, <2>2, <2>3 DEF Init, Gate!Init, Gate!TypeOK
<1>2. Notifier!TypeOK
  <2>1. posts \in 0 .. MaxPosts
    BY AppAssumption DEF AppAssumption, Init, Notifier!Init
  <2> QED
    BY <2>1 DEF Init, Notifier!Init, Notifier!TypeOK
<1>3. EngineTyped /\ (loopRunning <=> loopTask # NoTask)
  <2> USE AppAssumption
      DEF AppAssumption, Init, EngineTyped, Engine!States, Engine!Steps
  <2>1. CASE loopRunning
    BY <2>1
  <2>2. CASE ~loopRunning
    <3>1. display \in {"suspended", "trustedNetwork"}
      BY <2>2, Zenon DEF Gate!Init
    <3> QED
      BY <2>2, <3>1
  <2> QED
    BY <2>1, <2>2
<1>4. TypeOK
  BY <1>1, <1>2, <1>3 DEF Init, TypeOK, EngineTyped
<1>5. LoopIsAllowed /\ BannerIsOwed
  <2>1. LoopIsAllowed
    BY DEF Init, Gate!Init, LoopIsAllowed
  <2>2. ~(posts > 0) /\ ~isUnavailable /\ (banner => orphan)
    BY DEF Init, Notifier!Init
  <2> QED
    BY <2>1, <2>2 DEF BannerIsOwed
<1>6. OneSourceOfTruth
  <2>1. state # "cameraUnavailable"
    <3>1. CASE loopRunning
      BY <3>1 DEF Init
    <3>2. CASE ~loopRunning
      <4>1. display \in {"suspended", "trustedNetwork"}
        BY <3>2, Zenon DEF Init, Gate!Init
      <4> QED
        BY <3>2, <4>1 DEF Init
    <3> QED
      BY <3>1, <3>2
  <2> QED
    BY <2>1 DEF Init, Notifier!Init, OneSourceOfTruth
<1> QED
  BY <1>4, <1>5, <1>6 DEF AppSafety

\* All of it together, after every step (main.swift:142-221,372-394).
THEOREM AppIsSafe == Spec => []AppSafety
  BY AppSafetyInit, AppSafetyStep, PTL DEF Spec

\* The gate's flag and the app's loop are one thing, and the loop the app holds
\* is alive (main.swift:166-173,386-394).
THEOREM AppTypeCorrect == Spec => []TypeOK
<1>1. AppSafety => TypeOK
  BY DEF AppSafety
<1> QED
  BY <1>1, AppIsSafe, PTL

\* Menu bar, notifier and engine agree, whatever ticks of cancelled loops are
\* still about (CameraStatusNotifier.swift:22-24, main.swift:377-384).
THEOREM OneSourceOfTruthHolds == Spec => []OneSourceOfTruth
<1>1. AppSafety => OneSourceOfTruth
  BY DEF AppSafety
<1> QED
  BY <1>1, AppIsSafe, PTL

\* A banner that is up without reason is always an orphan of a withdrawn
\* episode (CameraStatusNotifier.swift:78-85).
THEOREM BannerIsTrueHolds == Spec => []BannerIsTrue
<1>1. AppSafety => BannerIsTrue
  BY DEF AppSafety, BannerIsOwed, BannerIsTrue
<1> QED
  BY <1>1, AppIsSafe, PTL

\* No tick that a pause, an enrollment, a suspension or a trusted network has
\* overtaken calls lock() (PresenceEngine.swift:205-216).
THEOREM NothingLocksWhileOffHolds == Spec => NothingLocksWhileOff
<1> DEFINE Locks == \A t \in Loops : step[t] # "locking" /\ step'[t] = "locking"
                      => isActive /\ ~isPaused /\ ~isEnrolling /\ ~seenTrusted
<1>1. AppSafety /\ [Next]_vars => [Locks]_vars
  <2> SUFFICES ASSUME AppSafety, Next, NEW t \in Loops,
                      step[t] # "locking", step'[t] = "locking"
               PROVE  LoopIsAllowed /\ loopRunning
    BY DEF LoopIsAllowed
  <2>1. AutoLock(t)
    <3> USE DEF AppSafety, TypeOK, Engine!Steps, engine
    <3>1. ~Unnoticed /\ ~NotifierSteps
      BY DEF Unnoticed, NotifierSteps
    <3>2. ~GatePass
      BY DEF GatePass, Switch, Engine!StartLoop, Engine!Disable, Engine!Tasks
    <3>3. ASSUME NEW u \in Loops, BeginTick(u) \/ TickEnds(u) PROVE FALSE
      BY <3>3
      DEF BeginTick, TickEnds, Engine!BeginTick, Engine!Reading, Engine!EndTick,
          Engine!LockReturns
    <3>4. ASSUME NEW m \in Menus, LockNow(m) \/ LockNowEnds(m) PROVE FALSE
      <4>1. m # t /\ m \notin Loops
        BY AppAssumption DEF AppAssumption
      <4> QED
        BY <3>4, <4>1
        DEF LockNow, LockNowEnds, Engine!LockNow, Engine!LockReturns
    <3>5. ASSUME NEW u \in Loops, AutoLock(u) PROVE u = t
      BY <3>5 DEF AutoLock, Engine!AutoLock
    <3> QED
      BY <3>1, <3>2, <3>3, <3>4, <3>5 DEF Next
  <2>2. loopTask \in Loops
    BY <2>1 DEF AutoLock, Engine!AutoLock
  <2> QED
    BY <2>2, AppAssumption DEF AppAssumption, AppSafety, TypeOK
<1> QED
  BY <1>1, AppIsSafe, PTL DEF Spec, NothingLocksWhileOff

-----------------------------------------------------------------------------
(***************************************************************************)
(* What the parts guarantee, in the app: the gate's safety carries over,   *)
(* and the app drives the engine only as its contract allows.              *)
(***************************************************************************)
\* The gate's safety, in the app.
GateIsSafe ==
  /\ Gate!GateIsCurrent
  /\ Gate!HonestReason
  /\ Gate!EnrollmentHasCamera
  /\ Gate!NoCameraBehindLockScreen

\* Neither instance of the gate's safety says more than the other.
LEMMA SameSafety == GateIsSafe <=> GateProofs!GateSafety
BY DEF GateIsSafe, GateProofs!GateSafety, Gate!GateIsCurrent,
       GateProofs!GateIsCurrent, Gate!HonestReason, GateProofs!HonestReason,
       Gate!EnrollmentHasCamera, GateProofs!EnrollmentHasCamera,
       Gate!NoCameraBehindLockScreen, GateProofs!NoCameraBehindLockScreen

\* The gate's safety survives every step of the app, of whatever part.
LEMMA GateIsSafeStep ==
  TypeOK /\ TypeOK' /\ GateIsSafe /\ [Next]_vars => GateIsSafe'
<1>1. /\ GateProofs!TypeOK /\ GateProofs!TypeOK' /\ GateProofs!GateSafety
      /\ [GateProofs!Next]_(GateProofs!vars)
      => GateProofs!GateSafety'
  BY GateProofs!GateSafetyStep, AppAssumption
  DEF GateProofs!GateSafetyStep, AppAssumption, GateProofs!GateAssumption
<1>2. Gate!TypeOK' <=> GateProofs!TypeOK'
  BY DEF Gate!TypeOK, GateProofs!TypeOK
<1>3. GateIsSafe' <=> GateProofs!GateSafety'
  BY DEF GateIsSafe, GateProofs!GateSafety, Gate!GateIsCurrent,
         GateProofs!GateIsCurrent, Gate!HonestReason, GateProofs!HonestReason,
         Gate!EnrollmentHasCamera, GateProofs!EnrollmentHasCamera,
         Gate!NoCameraBehindLockScreen, GateProofs!NoCameraBehindLockScreen
<1>4. [Next]_vars => [GateProofs!Next]_(GateProofs!vars)
  <2>1. Gate!vars' = GateProofs!vars'
    BY DEF Gate!vars, GateProofs!vars, Gate!session, GateProofs!session,
           Gate!pause, GateProofs!pause, Gate!wifi, GateProofs!wifi,
           Gate!enrollment, GateProofs!enrollment,
           Gate!enforcement, GateProofs!enforcement
  <2> QED
    BY <2>1, SameGate, SameGateNext, AppGateStep
<1> QED
  BY <1>1, <1>2, <1>3, <1>4, SameGate, SameSafety DEF TypeOK

\* Composed with the engine, its tasks and the notifier the gate keeps its
\* promises: the loop runs exactly if every input allows it, the reason is
\* honest, an enrollment has the camera and nothing else has it behind the lock
\* screen (main.swift:136-221).
THEOREM AppKeepsTheGate == Spec => []GateIsSafe
<1>1. Init => GateIsSafe
  <2> SUFFICES ASSUME Init PROVE GateIsSafe
    OBVIOUS
  <2> USE DEF Init, Gate!Init
  <2>1. Gate!GateIsCurrent /\ Gate!EnrollmentHasCamera
    BY DEF Gate!GateIsCurrent, Gate!EnrollmentHasCamera
  <2>2. Gate!HonestReason
    BY DEF Gate!HonestReason
  <2>3. Gate!NoCameraBehindLockScreen
    BY DEF Gate!NoCameraBehindLockScreen
  <2> QED
    BY <2>1, <2>2, <2>3 DEF GateIsSafe
<1> QED
  BY <1>1, GateIsSafeStep, AppTypeCorrect, PTL DEF Spec

\* What the user is shown while the app does not watch is why it does not: the
\* reason of the highest priority, from the gate's inputs to the menu bar,
\* unless a cancelled tick or a "Lock now" task has rendered since
\* (main.swift:198-221,372-394).
MenuBarNamesTheReason ==
  ~strayed /\ loopTask = NoTask =>
    lastRenderedState = (IF ~isActive THEN "suspended"
                         ELSE IF isEnrolling \/ isPaused THEN "paused"
                         ELSE "trustedNetwork")

\* From the gate's inputs to the menu bar: the gate's display is honest, and what
\* is rendered is the gate's display (main.swift:198-221).
THEOREM MenuBarNamesTheReasonHolds == Spec => []MenuBarNamesTheReason
<1>1. AppSafety /\ GateIsSafe => MenuBarNamesTheReason
  BY DEF AppSafety, TypeOK, OneSourceOfTruth, GateIsSafe, Gate!HonestReason,
         MenuBarNamesTheReason
<1> QED
  BY <1>1, AppIsSafe, AppKeepsTheGate, PTL

\* A step of the app is one of the engine's contract, or leaves the engine alone.
LEMMA AppEngineStep == TypeOK /\ TypeOK' /\ [Next]_vars => [Engine!Next]_(Engine!vars)
<1> SUFFICES ASSUME TypeOK, TypeOK', [Next]_vars
             PROVE  Engine!Next \/ UNCHANGED Engine!vars
  OBVIOUS
<1>1. ASSUME UNCHANGED engine PROVE UNCHANGED Engine!vars
  BY <1>1 DEF engine, Engine!vars
<1>2. CASE GatePass
  <2>1. CASE loopRunning' /\ loopRunning
    BY <1>1, <1>2, <2>1 DEF GatePass, Switch
  <2>2. CASE loopRunning' /\ ~loopRunning
    BY <1>2, <2>2 DEF GatePass, Switch, Engine!Next
  <2>3. CASE ~loopRunning'
    <3>1. display' \in {"suspended", "paused", "trustedNetwork"}
      BY <1>2, <2>3, HandlerSettles DEF GatePass, TypeOK
    <3> QED
      BY <1>2, <2>3, <3>1 DEF GatePass, Switch, Engine!Next
  <2> QED
    BY <2>1, <2>2, <2>3
<1>3. ASSUME NEW t \in Loops, BeginTick(t) \/ TickEnds(t) \/ AutoLock(t)
      PROVE  Engine!Next
  BY <1>3 DEF BeginTick, TickEnds, AutoLock, Engine!Next, Engine!Tasks
<1>4. ASSUME NEW m \in Menus, LockNow(m) \/ LockNowEnds(m)
      PROVE  Engine!Next \/ UNCHANGED Engine!vars
  BY <1>1, <1>4 DEF LockNow, LockNowEnds, Engine!Next, Engine!Tasks
<1>5. CASE Unnoticed \/ NotifierSteps \/ UNCHANGED vars
  BY <1>1, <1>5 DEF Unnoticed, NotifierSteps, vars
<1> QED
  BY <1>2, <1>3, <1>4, <1>5 DEF Next

\* Whatever the gate, the loops and the menu do, the engine sees one of the
\* operations of EngineContract, which PresenceEngine implements: when it is
\* stopped it is put into one of the three states that are reasons to be off
\* (main.swift:198-212,372-394).
THEOREM AppRunsEngine == Spec => [][Engine!Next]_(Engine!vars)
BY AppEngineStep, AppTypeCorrect, PTL DEF Spec

\* At any time at most one task of the app is in lock(), be it a tick of any
\* loop, cancelled or held, or a "Lock now" (PresenceEngine.swift:170-183).
OneLockAtATime ==
  \A t, u \in Loops \cup Menus :
     step[t] = "locking" /\ step[u] = "locking" => t = u

\* The engine's exclusion, in the app and for all its tasks: an operation of the
\* contract enters lock() only when no other task is in it.
THEOREM OneLockAtATimeHolds == Spec => []OneLockAtATime
<1>1. Init => OneLockAtATime
  <2> SUFFICES ASSUME Init, NEW t \in Loops \cup Menus PROVE step[t] # "locking"
    BY DEF OneLockAtATime
  <2> QED
    BY DEF Init
<1>2. /\ TypeOK /\ TypeOK' /\ OneLockAtATime /\ [Engine!Next]_(Engine!vars)
      => OneLockAtATime'
  <2> SUFFICES ASSUME TypeOK, OneLockAtATime, [Engine!Next]_(Engine!vars),
                      NEW t \in Loops \cup Menus, NEW u \in Loops \cup Menus,
                      step'[t] = "locking", step'[u] = "locking"
               PROVE  t = u
    BY DEF OneLockAtATime
  <2>1. step \in [Loops \cup Menus -> Engine!Steps]
    BY DEF TypeOK
  <2>2. CASE step[t] = "locking" /\ step[u] = "locking"
    BY <2>2 DEF OneLockAtATime
  <2>3. ASSUME NEW v \in Loops \cup Menus, ~Engine!Locking,
               step' = [step EXCEPT ![v] = "locking"]
        PROVE  t = u
    BY <2>1, <2>3 DEF Engine!Locking, Engine!Tasks
  <2>4. ASSUME NEW v \in Loops \cup Menus, step'[v] = "locking", step[v] # "locking"
        PROVE  \E x \in Loops \cup Menus :
                 /\ ~Engine!Locking
                 /\ step' = [step EXCEPT ![x] = "locking"]
    BY <2>1, <2>4
    DEF Engine!Next, Engine!StartLoop, Engine!BeginTick, Engine!Reading,
        Engine!EndTick, Engine!AutoLock, Engine!LockNow, Engine!LockReturns,
        Engine!Disable, Engine!Tasks, Engine!vars
  <2> QED
    BY <2>2, <2>3, <2>4
<1> QED
  BY <1>1, <1>2, AppRunsEngine, AppTypeCorrect, PTL DEF Spec

=============================================================================
