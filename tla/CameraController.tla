--------------------------- MODULE CameraController ---------------------------
(***************************************************************************)
(* CameraController.swift: one AVCaptureSession, configured by the first   *)
(* capture() that finds it not configured, and switched off and on by      *)
(* suspend() and resume().  All of that, the teardown after a fault and    *)
(* the delivery of frames happens in blocks on one serial queue; capture() *)
(* runs off the main actor, so that its block may enter the queue after a  *)
(* suspend() which was called later.                                       *)
(*                                                                         *)
(* An exception of a dead device is caught around every session call, and  *)
(* where the code then goes on regardless the session may be left as it    *)
(* was: the flag running and the session itself (live) are two things.     *)
(***************************************************************************)
EXTENDS Naturals, Sequences

CONSTANTS
  Captures,    \* identities of capture() calls in flight
  MaxQueue     \* bound on the blocks queued at once

Requests == {"suspend", "resume", "teardown", "frame"}

ASSUME CameraAssumption ==
  /\ MaxQueue \in Nat \ {0}
  /\ Captures \cap Requests = {}

VARIABLES
  queue,       \* the blocks on sessionQueue; a capture stands for its own
  configured,  \* configured, and activeInput # nil
  running,     \* the flag
  live,        \* the session runs, and the light with it
  attached,    \* the session holds an input or an output of ours
  observing,   \* observerTokens # []
  alive,       \* the device in use is still connected
  camera,      \* AVCaptureDevice.default(for: .video) # nil
  buffer,      \* the delegate's latest frame
  pc,          \* where each capture() is
  wanted       \* the app's last request: the camera resumed or suspended

\* History.
VARIABLES
  old,           \* the buffered frame is older than the last suspend() call, or
                 \* than a stop that has run since
  late,          \* ... and was delivered to a session that had been stopped
  overtaken,     \* the queued frame was taken before a stop that ran ahead of it
  after,         \* the captures called after the last suspend()
  reconfigured,  \* one has configured the session since that
  unstopped      \* the last stopRunning threw and left the session on

device == <<alive, camera>>
config == <<configured, running, live, attached, observing>>
frame == <<buffer, old, late, overtaken>>
history == <<old, late, overtaken, after, reconfigured, unstopped>>
vars == <<queue, config, device, buffer, pc, wanted, history>>

Enqueued(block) == Append(queue, block)
Room == Len(queue) < MaxQueue
Pending(block) == \E i \in DOMAIN queue : queue[i] = block

\* The app has just been launched; the gate has resumed the camera or not.
Init ==
  /\ queue = <<>>
  /\ configured = FALSE
  /\ running = FALSE
  /\ live = FALSE
  /\ attached = FALSE
  /\ observing = FALSE
  /\ alive = FALSE
  /\ camera \in BOOLEAN
  /\ buffer = "none"
  /\ pc = [c \in Captures |-> "off"]
  /\ wanted \in BOOLEAN
  /\ old = FALSE
  /\ late = FALSE
  /\ overtaken = FALSE
  /\ after = Captures
  /\ reconfigured = FALSE
  /\ unstopped = FALSE

-----------------------------------------------------------------------------
(***************************************************************************)
(* capture().                                                              *)
(***************************************************************************)
\* The result is a frame, "busy" or "unavailable": what the loop makes of each
\* is PresenceEngine's.
Returns(c) == pc' = [pc EXCEPT ![c] = "off"]

\* The camera need not be wanted: an enrollment whose flag was lost is not
\* cancelled by a suspension, and goes on capturing (main.swift:157-161).
Call(c) ==
  /\ pc[c] = "off"
  /\ pc' = [pc EXCEPT ![c] = "called"]
  /\ after' = after \cup {c}
  /\ UNCHANGED <<queue, config, device, frame, wanted, reconfigured, unstopped>>

\* No permission: nothing is touched.
Refuse(c) ==
  /\ pc[c] = "called"
  /\ Returns(c)
  /\ UNCHANGED <<queue, config, device, buffer, wanted, history>>

Enqueue(c) ==
  /\ pc[c] = "called"
  /\ Room
  /\ queue' = Enqueued(c)
  /\ pc' = [pc EXCEPT ![c] = "configuring"]
  /\ UNCHANGED <<config, device, buffer, wanted, history>>

\* latestBuffer, at once or from waitForFirstFrame.
Sample(c) ==
  /\ pc[c] = "sampling"
  /\ buffer = "fresh"
  /\ Returns(c)
  /\ UNCHANGED <<queue, config, device, buffer, wanted, history>>

\* The wait is over: busy if another application uses the camera.
GiveUp(c) ==
  /\ pc[c] = "sampling"
  /\ buffer # "fresh"
  /\ Returns(c)
  /\ UNCHANGED <<queue, config, device, buffer, wanted, history>>

(***************************************************************************)
(* ensureConfigured's block, for capture c.                                *)
(***************************************************************************)
Configured(c) ==
  /\ camera
  /\ configured' = TRUE
  /\ running' = TRUE
  /\ live' = TRUE
  /\ attached' = TRUE
  /\ observing' = TRUE
  /\ alive' = TRUE
  /\ reconfigured' = TRUE
  /\ unstopped' = FALSE
  /\ pc' = [pc EXCEPT ![c] = "sampling"]

\* Mutant: a failed configuration does not resume its continuation.
ConfigurationLost(c) ==
  /\ attached' \in IF camera THEN {attached, TRUE} ELSE {attached}
  /\ UNCHANGED <<configured, running, live, observing, alive, reconfigured,
                 unstopped, pc>>

\* No device, or a step failed: rolled back, or, when commitConfiguration or
\* the roll-back itself fails, with the input left in the session.
ConfigurationFails(c) ==
  /\ attached' \in IF camera THEN {attached, TRUE} ELSE {attached}
  /\ Returns(c)
  /\ UNCHANGED <<configured, running, live, observing, alive, reconfigured,
                 unstopped>>

\* Mutant: capture() restarts a session that has been stopped.
ConfigureAnyway(c) ==
  /\ IF configured
     THEN /\ running' = TRUE
          /\ live' = TRUE
          /\ unstopped' = FALSE
          /\ pc' = [pc EXCEPT ![c] = "sampling"]
          /\ UNCHANGED <<configured, attached, observing, alive, reconfigured>>
     ELSE Configured(c) \/ ConfigurationFails(c)
  /\ UNCHANGED frame

Configure(c) ==
  /\ IF configured
     THEN /\ pc' = [pc EXCEPT ![c] = "sampling"]
          /\ UNCHANGED <<config, alive, reconfigured, unstopped>>
     ELSE Configured(c) \/ ConfigurationFails(c)
  /\ UNCHANGED frame

(***************************************************************************)
(* The blocks of suspend(), resume(), the fault observers and the output.  *)
(***************************************************************************)
\* Mutant: the last frame survives the stop.
StoppedKeepingFrame ==
  /\ live' \in {live, FALSE}
  /\ unstopped' = live'
  /\ running' = FALSE
  /\ overtaken' = Pending("frame")
  /\ UNCHANGED <<buffer, old, late>>

\* stopRunning, whose exception is only logged, and delegate.clear().
Stopped ==
  /\ live' \in {live, FALSE}
  /\ unstopped' = live'
  /\ running' = FALSE
  /\ buffer' = "none"
  /\ old' = FALSE
  /\ late' = FALSE
  /\ overtaken' = Pending("frame")

\* Mutant: the observers outlive the session they were registered for.
TeardownObserved ==
  /\ Stopped
  /\ attached' \in IF configured THEN {attached, FALSE} ELSE {attached}
  /\ configured' = FALSE
  /\ UNCHANGED <<observing, alive, pc, reconfigured>>

\* What cannot be removed from the session stays there.
Teardown ==
  /\ Stopped
  /\ attached' \in IF configured THEN {attached, FALSE} ELSE {attached}
  /\ configured' = FALSE
  /\ observing' = FALSE
  /\ UNCHANGED <<alive, pc, reconfigured>>

Suspend ==
  /\ \/ running /\ Stopped
     \/ /\ ~running
        /\ overtaken' = Pending("frame")
        /\ UNCHANGED <<running, live, unstopped, buffer, old, late>>
  /\ UNCHANGED <<configured, attached, observing, alive, pc, reconfigured>>

Resume ==
  \/ configured /\ ~running /\ Teardown      \* startRunning threw
  \/ /\ IF configured /\ ~running
        THEN running' = TRUE /\ live' = TRUE /\ unstopped' = FALSE
        ELSE UNCHANGED <<running, live, unstopped>>
     /\ UNCHANGED <<configured, attached, observing, alive, pc, frame,
                    reconfigured>>

\* captureOutput: the frame replaces the one that was there.
Frame ==
  /\ buffer' = "fresh"
  /\ old' = (overtaken \/ Pending("suspend"))
  /\ late' = (overtaken \/ ~running)
  /\ overtaken' = FALSE
  /\ UNCHANGED <<config, alive, pc, reconfigured, unstopped>>

RunBlock ==
  /\ queue # <<>>
  /\ queue' = Tail(queue)
  /\ CASE Head(queue) = "suspend"  -> Suspend
       [] Head(queue) = "resume"   -> Resume
       [] Head(queue) = "teardown" -> Teardown
       [] Head(queue) = "frame"    -> Frame
       [] OTHER                    -> Configure(Head(queue))
  /\ UNCHANGED <<camera, wanted, after>>

-----------------------------------------------------------------------------
(***************************************************************************)
(* The app, and the hardware.                                              *)
(***************************************************************************)
RequestSuspend ==
  /\ Room
  /\ queue' = Enqueued("suspend")
  /\ wanted' = FALSE
  /\ old' = (buffer # "none")
  /\ after' = {}
  /\ reconfigured' = FALSE
  /\ UNCHANGED <<config, device, buffer, pc, late, overtaken, unstopped>>

RequestResume ==
  /\ Room
  /\ queue' = Enqueued("resume")
  /\ wanted' = TRUE
  /\ UNCHANGED <<config, device, buffer, pc, history>>

\* The session has a frame and queues its delivery on the same serial queue,
\* where it may come to stand behind a suspension; late frames are discarded, so
\* that there is one at a time.
Deliver ==
  /\ live /\ attached /\ alive
  /\ Room
  /\ ~Pending("frame")
  /\ queue' = Enqueued("frame")
  /\ UNCHANGED <<config, device, buffer, pc, wanted, history>>

\* The freshness threshold passes without a delivery.
Stall ==
  /\ buffer = "fresh"
  /\ buffer' = "stale"
  /\ UNCHANGED <<queue, config, device, pc, wanted, history>>

\* The device in use is removed; another may take its place as the default.
Disconnect ==
  /\ alive
  /\ observing => Room
  /\ alive' = FALSE
  /\ camera' \in BOOLEAN
  /\ queue' = IF observing THEN Enqueued("teardown") ELSE queue
  /\ UNCHANGED <<config, buffer, pc, wanted, history>>

\* A hard fault, after which the session may have stopped by itself.
RuntimeError ==
  /\ observing
  /\ Room
  /\ queue' = Enqueued("teardown")
  /\ live' \in {live, FALSE}
  /\ UNCHANGED <<configured, running, attached, observing, device, buffer, pc,
                 wanted, history>>

Connect ==
  /\ ~camera
  /\ camera' = TRUE
  /\ UNCHANGED <<queue, config, alive, buffer, pc, wanted, history>>

-----------------------------------------------------------------------------
Next ==
  \/ \E c \in Captures :
        Call(c) \/ Refuse(c) \/ Enqueue(c) \/ Sample(c) \/ GiveUp(c)
  \/ RunBlock
  \/ RequestSuspend
  \/ RequestResume
  \/ Deliver
  \/ Stall
  \/ Disconnect
  \/ RuntimeError
  \/ Connect

\* The queue is served, and a capture() in flight goes on; the hardware and the
\* app need not do anything.
CaptureFair(c) == SF_vars(Enqueue(c)) /\ WF_vars(Sample(c) \/ GiveUp(c))

Spec ==
  /\ Init /\ [][Next]_vars
  /\ WF_vars(RunBlock)
  /\ \A c \in Captures : CaptureFair(c)

-----------------------------------------------------------------------------
(***************************************************************************)
(* Properties.                                                             *)
(***************************************************************************)
\* The types; and a capture() waits for its configuration exactly while its
\* block is queued (CameraController.swift:168-170).
TypeOK ==
  /\ \A c \in Captures : pc[c] = "configuring" <=> Pending(c)
  /\ queue \in Seq(Captures \cup Requests) /\ Len(queue) <= MaxQueue
  /\ configured \in BOOLEAN
  /\ running \in BOOLEAN
  /\ live \in BOOLEAN
  /\ attached \in BOOLEAN
  /\ observing \in BOOLEAN
  /\ alive \in BOOLEAN
  /\ camera \in BOOLEAN
  /\ buffer \in {"none", "fresh", "stale"}
  /\ pc \in [Captures -> {"off", "called", "configuring", "sampling"}]
  /\ wanted \in BOOLEAN
  /\ old \in BOOLEAN
  /\ late \in BOOLEAN
  /\ overtaken \in BOOLEAN
  /\ after \in SUBSET Captures
  /\ reconfigured \in BOOLEAN
  /\ unstopped \in BOOLEAN

\* In whatever order faults, suspensions and configurations reach the queue,
\* the observers of a session are there exactly as long as the session, and
\* only a configured session runs (CameraController.swift:72-76,388-396).
SetUpTogether ==
  /\ observing <=> configured
  /\ running => configured /\ attached

\* "a stale pre-suspend frame (e.g. the previous user's face ...) can never be
\* returned by a later capture()" (CameraController.swift:510-515), although
\* suspend() itself only queues a block -- unless the frame was delivered to a
\* session already stopped: its delivery was queued behind the stop on the same
\* queue (CameraController.swift:219), or the stop threw.
NoPreSuspendFrame ==
  [][\A c \in after : pc[c] = "sampling" /\ Sample(c) => ~old \/ late]_vars

\* capture() does not restart a stopped session (CameraController.swift:
\* 121-126): with every request carried out, the light of a camera that is to
\* be off is on only if the session was configured anew since the suspend() --
\* by a capture queued after it, called before it or by an enrollment that goes
\* on regardless (CameraController.swift:170,283, main.swift:157-161) -- or if
\* stopRunning threw (CameraController.swift:426).
StoppedStaysStopped ==
  queue = <<>> /\ ~wanted /\ live => reconfigured \/ unstopped

\* Every capture() returns: each path through the queued configuration resumes
\* its continuation (CameraController.swift:168-307), so a tick cannot hang.
EveryCaptureReturns ==
  \A c \in Captures : (pc[c] = "configuring") ~> (pc[c] = "off")

=============================================================================
