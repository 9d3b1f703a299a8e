# No Donuts in TLA+

No Donuts is a macOS menu-bar app that watches the camera and locks the screen
when the person in front of it leaves. These modules model its decision core,
its enforcement gate, its camera, lock, Wi-Fi and enrollment components, and the
running app that puts gate, engine, menu bar and notifier together. TLC checks
them on small instances. TLAPS proves their safety properties for every value of
the constants, and their liveness from the fairness stated, up to two premises
named below. Paths below are relative to the repository root, Swift files
to `Sources/`.

## The system

| Component (source) | State it keeps | Operations | What makes it correct |
|---|---|---|---|
| Presence engine (`NoDonutsCore/Presence/PresenceEngine.swift`) | display state, absence / error / call accounting, `isLocking` | `tick`, `lockNow`, the resets `sessionSuspended`, `pause`, `disabledOnTrustedNetwork` | locks neither too early, twice, nor never |
| Loop task (`NoDonuts/App/main.swift`, `startLoop`/`stopLoop`) | `loopTask` | start, cancel | a cancelled loop does not lock |
| Screen locker (`NoDonutsCore/Lock/ScreenLocker.swift`) | none between calls | `lock` | bounded, tries the fallback, answers with the truth |
| Enforcement gate (`main.swift`, `applyEnforcement`) | `loopTask`, `isEnrolling`, `enrollmentTask` | one pass, run by every handler | loop, camera and display agree with the inputs |
| Session monitor (`SessionStateMonitor.swift`) | `isActive` | `recompute` (events, poll) | a missed event heals |
| Pause controller (`PauseController.swift`) | `isPaused`, `expiry`, timer | `pause`, `resume`, timer | a timed pause ends |
| Wi-Fi monitor (`WiFiMonitor.swift`, `TrustedNetworksStore.swift`) | `lastSSID`, `pendingTrust`, poll timer, trusted set | events, poll, trust toggle, authorization callback | not knowing the network means enforcing |
| Camera (`CameraController.swift`) | session, its flags `configured` and `running`, observers, last frame | `capture`, `suspend`, `resume`, teardown | the light follows the gate; no stale frame; no hang |
| Enrollment (`Enrollment.swift`, `EnrollmentStore.swift`, `FaceRecognizer.swift`) | Keychain item, its cache | `enroll`, `reset`, `enrollmentState`, `recognize` | only the enrolled pass; failures change nothing |
| Face embedding, detection, similarity | none | pure calls | -- |
| Camera notifier (`NoDonuts/App/CameraStatusNotifier.swift`) | `isUnavailable`, `lastPostedAt`; the banner | `update`, settings callback | the banner is up only while it is true |
| Menu bar (`MenuBarController.swift`) | `lastRenderedState` | `render`, clicks | shows the engine's state |
| Permissions | three flags | -- | -- |

How they interact. Almost everything runs on the main actor, so code is atomic
between two `await`s and the hard behaviour comes from what happens at them:

* a tick suspends at `capture()`, `recognize()` and `lock()`; cancelling its
  task does not abort it, so ticks of an old and a new loop may be in flight
  together and share the engine's accounting;
* every input of the gate (session, pause, Wi-Fi, enrollment) changes in a
  callback of its own and calls `applyEnforcement`, which starts or cancels the
  loop, cancels an enrollment, and calls the camera's `suspend`/`resume`;
* those only queue blocks on the camera's serial queue, and `capture()` queues
  its configuration from off the main actor, so calls and blocks can swap; the
  frames are delivered on that queue too, behind whatever stands in it;
* the gate and the loop render the engine's state to the menu bar and the
  notifier, "Lock now" to the menu bar alone, and a cancelled tick to neither;
  the notifier posts through a callback off the main actor;
* `recognize()` reads the enrollment store off the main actor, while enrolling
  and resetting write it on the main actor;
* session, network and device notifications may be lost, late or repeated, and
  timers stand in for them; a modal alert keeps the main queue, but not timers
  and notifications, from being served.

## Modules

`PROJECT.json` maps every definition to the lines it stands for. Definitions
marked "Mutant" are plausible bugs, used to see that each property notices them.

**PresenceEngine** -- the engine with the loop tasks and menu tasks that enter
it. `pc[t]` is where a task is suspended; each action is the code from one
await to the next (`CaptureBusy` is `handleCameraBusy` with `markAbsent` inside
it, `LockReturns` the end of `attemptLock`). `Disable` is what the gate does to
the engine. A cancelled loop is one that `loopTask` no longer names. Time is
counted in tick intervals. The last six variables are history: they record when
and by whom the absence was cleared and what happened since.

**EngineContract** -- what the app relies on: the engine without clock and
accounting. Any tick may lock, if it is the held loop's and no lock is in flight;
any tick may change the display state when it ends; cancelling a loop leaves its
tick in flight. The four states in which the engine watches are one.
`PresenceEngine` implements it, with the map `ContractState`, `ContractStep` of
`PresenceEngineProofs` (tasks before a tick are "asleep", those in `capture()` or
`recognize()` "ticking").

**ScreenLocker**, **LockContract** -- one `lock()` call after another: both
mechanisms, polls, the shared deadline, cancellation, and a session that
changes by itself. `LockContract` is what the engine relies on: every call
returns, with the session's state as its answer. `ScreenLocker` implements it,
liveness included (`ImplementsContract`, with `busy <- pc # "idle"`).

**EnforcementGate** -- the app delegate, session monitor and pause controller.
Each action is one callback including its gate pass. `ApplyEnforcement` reads
the inputs as the handler leaves them and is given `isEnrolling` and the tasks
as they stand when the pass begins; `CameraAfter` is the gate's branch on the
camera. The network may change with or without a report to come (`WiFiMoves`):
whether the Wi-Fi monitor makes one is `WiFiMonitor`'s business. The gate learns
of it in its next pass, and `seenTrusted`, a history variable, is what the last
pass read. The main queue is not served while an enrollment shows its alert
(`AlertUp`). A menu item whose target is set stays enabled (the menu enables
its items automatically), so "Enroll" can be chosen whenever the session is
really active; it is `startEnrollment`'s guard that counts.

**CameraStatusNotifier** -- `update` with its throttle, the settings callback that
adds the banner, the withdrawal that callback may overtake, and the user. `orphan`
is history: what is in Notification Center, or on its way there, belongs to an
episode that is over or to an earlier launch. It has no `Next` of its own.

**AppDelegate** -- the running app, composed of `EnforcementGate`,
`EngineContract` and `CameraStatusNotifier`, which it takes by INSTANCE with the
variables of the same names. `Unnoticed` is what runs no pass: what changes
outside the app, a timer that queues its task or a resume of nothing, and an
enrollment that shows its result. `GatePass` is a handler of the gate together with
what the pass does to the engine (`Switch`) and what it renders (`Render`);
`TickEnds` is the end of a tick, which renders if its loop is still held
(`RenderTick`) -- that is the gate's `LoopReads` -- and breaks off if not.
`AutoLock`, `LockNow` and `LockNowEnds` are the two ways to `lock()`. `strayed` is
history: a cancelled tick or a "Lock now" task has set the engine's state since
the gate or the loop last rendered it.

**WiFiMonitor** -- the monitor, the store and the gate's last view of them.
CoreWLAN names the network only while Location is granted; a change of network
may go unreported; a refresh and the authorization callback are queued tasks.

**CameraController** -- the serial queue as a sequence of blocks (suspensions,
resumes, teardowns, configurations of captures, deliveries of frames) and the
session they work on. `running` is the code's flag, `live` the session itself and
with it the light: where an exception of a dead device is caught and the code
goes on (`stopRunning`, `removeInput`), the session may be left as it was
(`Stopped`, `Teardown`); where the code gives up, `ConfigurationFails` or the
teardown in `Resume` does. `capture()` may be called at any time, also while
the camera is suspended: the enrollment of finding 3 does that. A session that is
live queues a frame, one at a time since late ones are discarded (`Deliver`), and
`Frame` is its delivery, which may come behind a stop. The history variables say
whether the frame in the buffer is older than the last `suspend()` or stop
(`old`), and whether it came to a session already stopped (`late`, `overtaken`).

**Enrollment** -- the Keychain item and its cache, `recognize()` calls reading
them in separate steps (cache, Keychain, cache), `enroll()` and the reset
writing them in two steps each, relaunches. A signature is the person it shows.

**PresenceEngineProofs**, **PresenceEngineHoldProofs**,
**EnforcementGateProofs**, **AppDelegateProofs**, **ScreenLockerProofs**,
**WiFiMonitorProofs**, **CameraControllerProofs**, **EnrollmentProofs** -- the
theorems (below). **MCPresenceEngine** and **MCAppDelegate** add the symmetry of
loop identities; it is used where a run checks safety only.

## Runs

| Run | Bounds | Shows |
|---|---|---|
| `engine` | 2 loops, 1 manual lock; consensus 2, grace 1, errors 2, call window 3, clock 0..5 | the eight properties of the engine |
| `engine_failure` | same | a swallowed automatic lock (finding) |
| `locker` | deadline of 3 polls | contract, deadline, fallback |
| `gate` | 2 enrollments, 1 queued resume task | consistency of the gate, enforcement and pauses come to an end |
| `gate_camera`, `gate_capture` | same | camera left on, loop during a capture (findings) |
| `app` | 1 enrollment, 2 loops, 1 "Lock now", 1 settings callback | nothing locks while off; menu bar, banner, engine and gate agree |
| `wifi` | 2 networks | poll, leaving and revoked Location |
| `wifi_pending`, `wifi_stale` | same | deferred trust not dropped, trust held too long (findings) |
| `camera` | 2 captures, 3 queued blocks | no restart, no frame kept over a stop, no hang |
| `enrollment` | 2 people, 2 recognitions, 1 enrollment of 2 attempts needing 2 vectors | who passes, what is stored, what the alert says |

Why these are enough. *Engine*: two loops are an old one with a tick in flight
and its successor; consensus, errors and call window are at least 2 so that
"one too few" differs from "at once", and a clock of 6 values holds a whole
episode (consensus, grace, lock) with a reset inside it, and a call window
running out. The clock is bounded in the guard of `Advance`; nothing else is.
*Gate*: the second enrollment is what makes a clean-up hit a successor; a pause
timer is fired again only when its last task has run (`MaxResumes`). *App*: a cancelled tick beside its successor takes two loops, and a manual lock
meets either; the gate alone has two enrollments in `gate`, so one is enough here,
and `AppDelegateProofs` has any number of everything. With one settings callback
outstanding (`MaxPosts`, in the guard of `Post`) a withdrawal can be overtaken; a
pass that would post a second one waits for it. *Camera*:
with three blocks a suspension and a resume surround a configuration or a frame,
or two teardowns follow each other; one capture can be configured while the other
waits or samples; requests and frames wait for room in the queue (`MaxQueue`).
*Locker*: the deadline can fall in either mechanism. *Enrollment*: two attempts
tell the last from the others, two readers and one writer make the cache race.

Deadlock is checked in every run.

## Fairness

* `ScreenLocker`: the task is resumed and a sleep ends (`WF`). `LockContract`
  asks for no more than `WF(Finish)`.
* `EnforcementGate`: the session poll is a repeating timer and the pause timer a
  scheduled one, on the main run loop in common modes, so an alert does not stop
  them (`WF`). Tasks on the main queue run in order whenever the queue is
  served, so alerts that come and go cannot starve them (`SF`). A Wi-Fi report
  under way is among them. That a change is reported is *not* assumed:
  `EnforcementReturns` promises nothing of a trust that has ended while the gate
  still goes by it (`seenTrusted`) and no report is under way (`wifiNote`), the
  case `wifi_stale` shows to last for ever. The user need do nothing.
* `WiFiMonitor`: the poll timer fires and queued tasks run (`WF`); events may
  all be lost.
* `CameraController`: the queue is served, a capture in flight goes on (`WF`;
  `SF` for entering the queue, whose bound is the model's).
* `Enrollment`: a recognition and a store operation in progress go on (`WF`);
  the awaits of a capture resume although other jobs share the main actor (`SF`).
* `AppDelegate`, `EngineContract` and `CameraStatusNotifier` have none: the
  composition is about safety.
* `PresenceEngine` has no fairness: its "must happen" properties are stated as
  bounds on counted ticks (`FailOpenBounded`, `CallHoldBounded`), which are
  safety properties and say more.

## Findings

Five runs end in a violation; each contradicts a line of the repository.

1. `engine_failure` -- `lockAttempted` is set before `attemptLock`, which does
   nothing while a manual lock is in flight. If that one fails, no automatic
   attempt is made in this absence, although the comment promises one.
2. `gate_camera` -- enroll while paused or on a trusted network: when the
   enrollment ends nothing turns the camera off.
3. `gate_capture` -- enroll just after unlocking, before the monitor's next
   recompute: the gate pass drops `isEnrolling`, the capture goes on and the
   loop starts beside it. Two enrollments in a row around a suspension do the
   same, through the first one's clean-up.
4. `wifi_pending` -- deny Location, and the pending trust stays; grant it later,
   and whatever network is joined becomes trusted.
5. `wifi_stale` -- `lastSSID` is not updated by every gate pass that reads the
   network, so a return to it looks like no change.

Others are exceptions inside passing properties, at the place that has them:

* a capture whose configuration is queued behind a suspension -- it was called
  before, or by the enrollment of finding 3 during it -- and finds the session torn
  down or never set up starts it and leaves the light on although
  `CameraController.swift:121-123` says a suspension must win (`reconfigured` in
  `StoppedStaysStopped`);
* a `stopRunning` that throws is taken for done, so the session may go on, light
  and all, and later suspensions return at the flag (`unstopped` in
  `StoppedStaysStopped`; `CameraController.swift:424-427`);
* a frame whose delivery is queued behind the block that stops the session is put
  back after `clear()`, and so is every frame of a session that could not be
  stopped; a capture that goes on during the suspension, or the first one after a
  resume within three seconds, can return it, against
  `CameraController.swift:510-515` (`late` in `NoPreSuspendFrame`). Whether
  AVFoundation ever has such a delivery outstanding is not in the code, so this
  is not listed as a finding;
* the end of a trust that the Wi-Fi monitor does not report leaves enforcement off
  (`seenTrusted => wifiNote` in `EnforcementReturns`; finding 5);
* "Lock now" renders what it finds without telling the notifier
  (`main.swift:57-58`), a tick cancelled in flight may set the engine's state
  after the gate did, and neither is put right before the next pass or tick
  (`strayed` in `OneSourceOfTruth`);
* a settings callback that a withdrawal overtakes posts a banner which nothing
  withdraws before the end of the next episode, and neither is one that an
  earlier launch left (`orphan` in `BannerIsTrue`);
* a cancelled tick applies its reading to the accounting (`markAbsent` looks at
  the cancellation only before the lock), so after a pause the next loop may
  lock earlier than the full wait. `LockNeedsFullWait` excludes exactly the runs
  in which a cancelled tick applied a reading since the last reset
  (`intruded`); `FailOpenBounded`, `CallHoldBounded` and `FreshCallNeverLocks`
  need the same exclusion;
* a reader of the enrollment store that a write overtakes between its Keychain
  read and its cache write leaves the outdated state in the cache for good
  (`overtaken` in `CacheIsCurrent` and `OnlyEnrolledPass`). It takes a cache
  still empty, that is a Keychain that could not be read until then.

## Proofs

`PresenceEngineProofs` proves, from `TasksAssumption` and `ConfigAssumption`
alone (any number of loops and manual locks, any consensus, grace and clock
bound):

* `TypeCorrect`: `Spec => []TypeOK`, by induction; two lemmas state what
  `MarkPresent` and `MarkAbsent` do to types.
* `LockExclusionHolds`, `OnlyTheRunningLoopLocksHolds`: `LockExclusion` is
  inductive given `TypeOK`; the action property follows because only
  `MarkAbsent` and `LockNow` lead to `"locking"`, the former under `~Cancelled`.
* `OneAttemptPerEpisodeHolds`: `attempts <= 1` is not inductive; `AttemptInv`
  adds that an attempt counted implies `lockAttempted`, and that until then
  there is none.
* `LockNeedsFullWaitHolds`: `FullWaitInv` adds that no timestamp lies in the
  future, that the running loop's tick is not older than the readings counted,
  and, unless a cancelled tick meddled, that `consecutiveAbsentTicks` readings
  took at least as many intervals less one since the absence was cleared, and
  `absentSince` lies at least the consensus after it. The wait of a lock is then
  the sum of consensus and grace.

`EnforcementGateProofs` proves, from `GateAssumption` (any number of enrollment
tasks, any backlog of resume tasks):

* `GateTypeCorrect`: `Spec => []TypeOK`, with one lemma per kind of gate pass.
* `GateIsCurrentHolds`, `HonestReasonHolds`, `EnrollmentHasCameraHolds`,
  `NoCameraBehindLockScreenHolds`: their conjunction `GateSafety` is inductive
  given `TypeOK` and needs no strengthening, because a handler ends with a pass
  and the pass settles all four from the inputs; the clean-up and the start of an
  enrollment do so from any state. Only `EnrollmentHasCamera` and
  `GateSafety` itself need the state before, for a pass in the middle of an
  enrollment and for the callbacks that run no pass.

`PresenceEngineHoldProofs` proves the two bounds on a hold, from the same
assumptions:

* `FailOpenBoundedHolds`: `HoldInv` has two regimes. Below the consensus the
  potential `MaxErrors * consecutiveAbsentTicks + consecutiveErrorTicks` bounds
  the ticks held, since a streak of errors ends in a counted absence; from there
  on the time between `absentSince` and the last tick does (`GraceUsed`), and an
  absence at the end of the grace locks. The invariant also needs that a loop
  inside `lock()` has its attempt recorded, and that a new loop starts from zero.
* `CallHoldBoundedHolds`, `FreshCallNeverLocksHolds`: `CallInv` says that the
  window opened no earlier than the last reading of another kind, and that the
  busy readings counted since fit into the time since. `BusyLocks` reduces a lock
  straight from a capture to an expired window.

`PresenceEngineProofs` also proves the refinement:

* `EngineImplementsContract`: `Spec => Contract!Spec`, one lemma for each way a
  tick ends. It needs `TypeOK` and `LockExclusion`, so that `isLocking` can be
  told from where the tasks are, which is all the contract has.

`AppDelegateProofs` proves, from `AppAssumption` (any number of loops, manual
locks, enrollments and outstanding callbacks):

* `AppRunsGate`: every step of the app is a step of `EnforcementGate` or leaves
  its variables alone; `AppKeepsTheGate` carries the gate's four invariants over.
* `MenuBarNamesTheReasonHolds`: the two put together -- the gate's display is
  honest (`HonestReason`) and what is rendered is that display
  (`OneSourceOfTruth`) -- from the gate's inputs to what the user sees.
* `AppRunsEngine`, `OneLockAtATimeHolds`: every step is one of `EngineContract`
  or leaves the engine alone, and so at most one task is in `lock()`.
* `AppTypeCorrect`, `OneSourceOfTruthHolds`, `BannerIsTrueHolds`,
  `NothingLocksWhileOffHolds`: from `AppSafety`. What it adds to the properties is
  `LoopIsAllowed` (a loop is held only if the gate's inputs, as its last pass read
  them, allow it -- a tick locks only from the held loop, hence the action property) and
  `BannerIsOwed` (a callback outstanding counts as a banner; an episode lasts only
  while the loop runs). The handlers that run a pass settle loop, display and
  rendering from the inputs (`HandlerSettles`); all others leave them alone.

`WiFiMonitorProofs` proves, from `SSIDAssumption`:

* `WiFiTypeCorrect`, `PollingWhileTrustedHolds`: inductive as they stand; every
  change of the store ends in `UpdatePollTimer`.
* `TrustNamesTheNetwork`: not knowing the network means not trusting it.
  `TrustIsCurrentWhenTaken` and `TrustsOnlyWhereItIs` say the same of steps: when
  the gate turns to trusted, and how a network gets into the store. They rest on
  what a handler that tells the gate does (`PassKnows`) and what the others leave
  alone (`SilentStep`).
* `RevocationIsPendingHolds`: the invariant behind `RevokedLocationEnforces`.

`CameraControllerProofs` proves, for any number of captures and any queue:

* `CameraTypeCorrect`, `SetUpTogetherHolds`, `StoppedStaysStoppedHolds`,
  `NoPreSuspendFrameHolds`: from `CameraSafety`, whose parts are about the order
  of blocks in the queue. `Once`: a capture's block is queued at most once, so a
  capture waits exactly while it is. `Behind`: a capture called since the last
  `suspend()` has its block behind every queued suspension, and none is queued
  once it samples; with `OldIsDoomed` (an old frame that is not late means a
  running session and a suspension still queued) it cannot return one. `Last`:
  while the camera is to be off, every queued resume is followed by a suspension.
  `LiveIsKnown` and `FrameWhileRunning` tie session and buffer to the flag: the
  session is on with it or because a stop threw, and a frame in the buffer of a
  stopped session is late.

`EnrollmentProofs` proves, for any people, recognitions, enrollments and attempts:

* `EnrollmentTypeCorrect`, `CacheIsCurrentHolds`, `ResultIsHonestHolds`,
  `OnlyEnrolledPassHolds`, `OnlyCompleteCapturesAreStoredHolds`: from
  `EnrollmentSafety`. `CacheKnown` says what the cache may hold in the middle of a
  write (what the last complete operation left); `SeenInWindow` that what a
  recognition works with is something the store has held since it began, the
  Keychain's content included at all times; `Complete` and `Honest` tie the write
  to the capture.

`ScreenLockerProofs` proves, from `BudgetAssumption` alone:

* `SharedDeadlineHolds`: inductive with the time left (`BudgetInv`): a sleep
  taken and not over yet has still to use up an interval, a cancelled task takes
  no more.
* `FailureOnlyAfterFallbackHolds`: with the mechanism awaited being one tried.
* `LockerStepsAreContractSteps`: every step is a step of `LockContract` or
  leaves its variables alone.
* `LockerImplementsContract`: the whole refinement, `WF(Finish)` included, by the
  argument below.

### Liveness

What fairness says of an action speaks of the states in which it is ENABLED, for
which the provers have no rule. Each proof module that needs it therefore defines
`DueIsEnabled`: an action of the code whose guard holds is enabled. The liveness
theorems have the form `Spec /\ []DueIsEnabled => Property`, the locker's
refinement also has `LockContract`'s `FinishIsDue` (`Finish` is enabled only
during a call). The premises are about the shape of actions, not about the
system. TLC evaluates them where they are defined: run a component's own cfg on
its proof module (`tlc -config EnforcementGate.cfg EnforcementGateProofs.tla`)
with `INVARIANT DueIsEnabled` added, and `FinishIsDue` on `LockContract` itself;
they hold in every reachable state of those instances. All the rest is proved,
from the fairness conditions by temporal logic:

* `EnforcementReturnsHolds`: enforcement that is wanted and off awaits the session
  poll (`AwaitsPoll`) or a Wi-Fi report under way (`AwaitsWiFi`), nothing else,
  given `GateSafety`; `WaitStep` says what any other callback can make of either.
* `TimedPauseEndsHolds` rests on the invariant `TimedPauseHasEnd`: a timed pause
  has a timer armed or a resume task queued. `EnrollmentReleasesHolds` goes by
  the task that `EnrollmentHasCamera` names.
* `LeavingIsNoticedHolds` rests on `PollingWhileTrusted`,
  `RevokedLocationEnforcesHolds` on `RevocationIsPending`.
* `EveryCaptureReturns`, `EnrollReturns` and the return of `lock()` need a measure
  that falls: the place of a capture's block in the queue, the attempts and
  stages an enrollment has left (`Work`), the polls, sleeps and mechanisms a call
  has left (`Rounds`). That nothing raises it and that the fair action lowers it
  is proved for every value (`CaptureMovesUp`, `EnrollmentGetsOn`, `CallGetsOn`:
  what ends from k ends from k + 1, for any k, any queue, number of attempts and
  budget). The induction over k cannot be carried out in general -- the library's
  induction theorem takes an operator, which the provers cannot instantiate -- so
  the steps are put together 4096 times. That proves `EnrollReturns` for up to a
  thousand attempts (the program has ten), the return of `lock()` and with it
  `LockerImplementsContract` for up to two thousand polls (the program has
  thirty), and `EveryCaptureReturns` for up to 4096 queued blocks (the program's
  queue has no bound, but holds one block for each call made meanwhile).
* An enrollment needs the main actor, which other saves and resets occupy:
  `MainActorIsFreed` says that they let go of it again and again, and the strong
  fairness of the capture's awaits does the rest.
* `UnavailabilityHealsPerCall` is the property for one recognition, and so for any
  number of them one by one.

To be able to name the fairness of one task in a proof, `EnforcementGate`,
`Enrollment` and `CameraController` give it a name (`CaptureFair`,
`RecognitionFair`).

Only model-checked: `UnavailabilityHeals`, which says "from some point on" of all
recognitions at once (an induction over their number); `EnrollReturns`,
`EveryCaptureReturns` and the liveness of `ImplementsContract` for constants beyond
those named; the premises about ENABLED.

In the engine the guard `~Task.isCancelled` before the lock matters only when
readings of cancelled ticks pile up (or with no grace): every cancellation comes
with a reset, so a single stale tick finds the count at zero. The proof does not
need that observation, the guard is in `Fires`.

## Not modelled

* Similarity (floating point), face embedding and detection (Vision calls without
  state): their outcomes are inputs. How well a face matches a signature is not
  modelled: it matches its owner's and no other.
* Drawing: the menu bar's glyph and labels, and the header laid over the state
  while enrolling. Only the state last rendered is there.
* The explainer alerts and their flags, the requests for permission at launch,
  `applicationWillTerminate` (the process is going away), frame rate selection and
  interruption logging of the camera, the wording of every message.
* The test program `EngineCheck`, the scripts and the packaging.
* The documentation site, with the two search libraries it carries
  (`site/assets/javascripts/lunr/wordcut.js`, `tinyseg.js`): third-party word
  segmentation for languages the site is not written in, generated into the site
  by its build tool and reached by nothing in the app. The app is the Swift code
  under `Sources/`, and that is what is modelled.
* When the camera calls throw, and whether frames outlive `stopRunning`, is up to
  AVFoundation: the model has both, at any time.
* What happens to a pause when a fired timer's task runs after the user has
  resumed and paused again is in `EnforcementGate`, and no property forbids it:
  the code has nothing that tells the pauses apart, and no document promises it.

## Status

Every component with state and behaviour of its own is modelled. Every safety
property a run checks is proved, and every liveness property but one is proved as
said under Liveness. What could follow: the camera's queue in the composition
(here the gate's `cameraOn` is the last request made, and `CameraController` shows
what becomes of requests), and a store that leaves no outdated cache behind, to
prove `CacheIsCurrent` without its exception.
