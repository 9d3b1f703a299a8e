------------------------- MODULE CameraControllerProofs -------------------------
(***************************************************************************)
(* Proofs about the camera controller, for any number of captures and any  *)
(* length of its queue.                                                    *)
(*                                                                         *)
(* What matters is the order of the blocks in the queue: a capture's block *)
(* is in it at most once (Once), the captures called since the last        *)
(* suspend() stand behind every suspension (Behind), and with the camera   *)
(* to be off a suspension stands behind every resumption (Last).  A stop   *)
(* that throws and a frame that is delivered after the stop are the ways   *)
(* round that order, and the history says when one was taken.              *)
(***************************************************************************)
EXTENDS CameraController, SequenceTheorems, TLAPS

Blocks == Captures \cup Requests

Places == 1 .. Len(queue)

\* TypeOK but for its first conjunct, which needs Once.
SessionTyped ==
  /\ configured \in BOOLEAN
  /\ running \in BOOLEAN
  /\ live \in BOOLEAN
  /\ attached \in BOOLEAN
  /\ observing \in BOOLEAN
  /\ alive \in BOOLEAN
  /\ camera \in BOOLEAN
  /\ wanted \in BOOLEAN

HistoryTyped ==
  /\ old \in BOOLEAN
  /\ late \in BOOLEAN
  /\ overtaken \in BOOLEAN
  /\ reconfigured \in BOOLEAN
  /\ unstopped \in BOOLEAN

Typed ==
  /\ queue \in Seq(Blocks) /\ Len(queue) <= MaxQueue
  /\ buffer \in {"none", "fresh", "stale"}
  /\ pc \in [Captures -> {"off", "called", "configuring", "sampling"}]
  /\ after \in SUBSET Captures
  /\ SessionTyped
  /\ HistoryTyped

Once == \A i, j \in Places : queue[i] \in Captures /\ queue[i] = queue[j] => i = j

\* A capture waits exactly while its block is queued.
Waiting == \A c \in Captures : pc[c] = "configuring" <=> Pending(c)

\* A configured session holds its input and output.
Held == configured => attached

\* The session is on with the flag, or because it could not be stopped.
LiveIsKnown == live => running \/ unstopped

\* A buffered frame means a session not stopped yet, unless it was late.
FrameWhileRunning == buffer # "none" /\ ~running => late

\* An old frame is about to be dropped by a suspension that is still queued, ...
OldIsDoomed == old /\ ~late => running /\ Pending("suspend")

\* ... which no capture called since the last suspend() can be ahead of.
StandsBehind(c) ==
  \A i, j \in Places : queue[i] = c /\ queue[j] = "suspend" => j < i

Behind ==
  \A c \in after : StandsBehind(c) /\ (pc[c] = "sampling" => ~Pending("suspend"))

\* With the camera to be off, a suspension is the last request in the queue, and
\* it is still there unless the session is off or configured anew.
Last ==
  ~wanted =>
    /\ \A i \in Places :
         queue[i] = "resume" => \E j \in Places : i < j /\ queue[j] = "suspend"
    /\ running /\ ~reconfigured => Pending("suspend")

\* The inductive invariant.
CameraSafety ==
  /\ Typed /\ Once /\ Waiting
  /\ SetUpTogether /\ Held /\ LiveIsKnown
  /\ FrameWhileRunning /\ OldIsDoomed /\ Behind
  /\ Last

-----------------------------------------------------------------------------
(***************************************************************************)
(* The queue.                                                              *)
(***************************************************************************)
\* Dispatching a block puts it last.
LEMMA Appended ==
  ASSUME queue \in Seq(Blocks), NEW b \in Blocks, queue' = Enqueued(b)
  PROVE  /\ queue' \in Seq(Blocks)
         /\ Len(queue') = Len(queue) + 1
         /\ Len(queue) \in Nat
         /\ \A i \in 1 .. Len(queue) : queue'[i] = queue[i]
         /\ queue'[Len(queue) + 1] = b
BY AppendProperties DEF Enqueued

\* Running one takes the first away.
LEMMA Served ==
  ASSUME queue \in Seq(Blocks), queue # <<>>, queue' = Tail(queue)
  PROVE  /\ queue' \in Seq(Blocks)
         /\ Len(queue') = Len(queue) - 1
         /\ Len(queue) \in Nat \ {0}
         /\ \A i \in 1 .. Len(queue) - 1 : queue'[i] = queue[i + 1]
         /\ Head(queue) = queue[1]
         /\ Head(queue) \in Blocks
BY HeadTailProperties, EmptySeq

\* So a block is queued afterwards if it was or has been put there, ...
LEMMA PendingAppended ==
  ASSUME queue \in Seq(Blocks), NEW b \in Blocks, queue' = Enqueued(b), NEW x
  PROVE  Pending(x)' <=> Pending(x) \/ x = b
<1>1. /\ Len(queue') = Len(queue) + 1
      /\ Len(queue) \in Nat
      /\ \A i \in 1 .. Len(queue) : queue'[i] = queue[i]
      /\ queue'[Len(queue) + 1] = b
      /\ queue' \in Seq(Blocks)
  BY Appended
<1>2. DOMAIN queue = 1 .. Len(queue) /\ DOMAIN queue' = 1 .. Len(queue) + 1
  BY <1>1, LenProperties
<1> QED
  BY <1>1, <1>2 DEF Pending

\* ... and if it was and is not the only one that has run.
LEMMA PendingServed ==
  ASSUME queue \in Seq(Blocks), queue # <<>>, queue' = Tail(queue), NEW x
  PROVE  /\ Pending(x)' => Pending(x)
         /\ Pending(x) /\ ~Pending(x)' => Head(queue) = x
         /\ Once /\ x \in Captures /\ Head(queue) = x => ~Pending(x)'
<1>1. /\ Len(queue') = Len(queue) - 1
      /\ Len(queue) \in Nat \ {0}
      /\ \A i \in 1 .. Len(queue) - 1 : queue'[i] = queue[i + 1]
      /\ Head(queue) = queue[1]
      /\ queue' \in Seq(Blocks)
  BY Served
<1>2. DOMAIN queue = 1 .. Len(queue) /\ DOMAIN queue' = 1 .. Len(queue) - 1
  BY <1>1, LenProperties
<1>3. Pending(x)' => Pending(x)
  BY <1>1, <1>2 DEF Pending
<1>4. Pending(x) /\ ~Pending(x)' => Head(queue) = x
  <2> SUFFICES ASSUME NEW i \in 1 .. Len(queue), queue[i] = x, i # 1
               PROVE  Pending(x)'
    BY <1>1, <1>2 DEF Pending
  <2>1. i - 1 \in 1 .. Len(queue) - 1 /\ (i - 1) + 1 = i
    BY <1>1
  <2> QED
    BY <1>1, <1>2, <2>1 DEF Pending
<1>5. Once /\ x \in Captures /\ Head(queue) = x => ~Pending(x)'
  <2> SUFFICES ASSUME Once, x \in Captures, queue[1] = x,
                      NEW i \in 1 .. Len(queue) - 1, queue'[i] = x
               PROVE  FALSE
    BY <1>1, <1>2 DEF Pending
  <2>1. i + 1 \in 1 .. Len(queue) /\ 1 \in 1 .. Len(queue) /\ i + 1 # 1
    BY <1>1
  <2> QED
    BY <1>1, <2>1 DEF Once, Places
<1> QED
  BY <1>3, <1>4, <1>5

\* What a block does, by whose it is.
LEMMA BlockCases ==
  ASSUME queue \in Seq(Blocks), RunBlock
  PROVE  /\ queue # <<>> /\ queue' = Tail(queue)
         /\ UNCHANGED <<camera, wanted, after>>
         /\ \/ Head(queue) = "suspend" /\ Suspend
            \/ Head(queue) = "resume" /\ Resume
            \/ Head(queue) = "teardown" /\ Teardown
            \/ Head(queue) = "frame" /\ Frame
            \/ Head(queue) \in Captures /\ Configure(Head(queue))
<1>1. Head(queue) \in Captures \cup Requests
  BY Served DEF RunBlock, Blocks
<1> QED
  BY <1>1 DEF RunBlock, Requests

-----------------------------------------------------------------------------
(***************************************************************************)
(* Types.                                                                  *)
(***************************************************************************)
LEMMA SessionTypedStep ==
  ASSUME queue \in Seq(Blocks), SessionTyped, [Next]_vars
  PROVE  SessionTyped'
<1> USE DEF SessionTyped, config, device
<1>1. ASSUME UNCHANGED <<config, alive>>, UNCHANGED <<camera, wanted>>
      PROVE  SessionTyped'
  BY <1>1
<1>2. CASE RunBlock
  <2>1. UNCHANGED <<camera, wanted>>
    BY <1>2 DEF RunBlock
  <2>2. CASE Suspend
    BY <2>1, <2>2 DEF Suspend, Stopped
  <2>3. CASE Teardown
    <3>1. attached' \in BOOLEAN /\ live' \in BOOLEAN
      BY <2>3 DEF Teardown, Stopped
    <3> QED
      BY <2>1, <2>3, <3>1 DEF Teardown, Stopped
  <2>4. CASE Resume
    BY <2>1, <2>3, <2>4 DEF Resume
  <2>5. ASSUME NEW c \in Captures, Configure(c) PROVE SessionTyped'
    <3>1. attached' \in BOOLEAN
      BY <2>5 DEF Configure, Configured, ConfigurationFails
    <3> QED
      BY <2>1, <2>5, <3>1 DEF Configure, Configured, ConfigurationFails
  <2>6. CASE Frame
    BY <1>1, <2>1, <2>6 DEF Frame
  <2> QED
    BY <1>2, <2>2, <2>3, <2>4, <2>5, <2>6, BlockCases
<1>3. CASE RequestSuspend
  BY <1>3 DEF RequestSuspend
<1>4. CASE RequestResume
  BY <1>4 DEF RequestResume
<1>5. CASE Disconnect
  BY <1>5 DEF Disconnect
<1>6. CASE RuntimeError
  BY <1>6 DEF RuntimeError
<1>7. CASE Connect
  BY <1>7 DEF Connect
<1>8. CASE \/ \E c \in Captures :
                Call(c) \/ Refuse(c) \/ Enqueue(c) \/ Sample(c) \/ GiveUp(c)
           \/ Deliver \/ Stall \/ UNCHANGED vars
  BY <1>1, <1>8 DEF Call, Refuse, Enqueue, Sample, GiveUp, Deliver, Stall, vars
<1> QED
  BY <1>2, <1>3, <1>4, <1>5, <1>6, <1>7, <1>8 DEF Next

LEMMA HistoryTypedStep ==
  ASSUME queue \in Seq(Blocks), live \in BOOLEAN, running \in BOOLEAN,
         HistoryTyped, [Next]_vars
  PROVE  HistoryTyped'
<1> USE DEF HistoryTyped, frame, history
<1>1. CASE UNCHANGED <<old, late, overtaken, reconfigured, unstopped>>
  BY <1>1
<1>2. CASE RunBlock
  <2>1. CASE Stopped /\ UNCHANGED reconfigured
    <3>1. unstopped' \in BOOLEAN /\ overtaken' \in BOOLEAN
      BY <2>1 DEF Stopped, Pending
    <3> QED
      BY <2>1, <3>1 DEF Stopped
  <2>2. CASE Suspend
    <3>1. overtaken' \in BOOLEAN
      BY <2>2 DEF Suspend, Stopped, Pending
    <3> QED
      BY <2>1, <2>2, <3>1 DEF Suspend
  <2>3. CASE Teardown
    BY <2>1, <2>3 DEF Teardown
  <2>4. CASE Resume
    BY <2>3, <2>4 DEF Resume
  <2>5. ASSUME NEW c \in Captures, Configure(c) PROVE HistoryTyped'
    BY <2>5 DEF Configure, Configured, ConfigurationFails
  <2>6. CASE Frame
    <3>1. old' \in BOOLEAN /\ late' \in BOOLEAN
      BY <2>6 DEF Frame
    <3> QED
      BY <2>6, <3>1 DEF Frame
  <2> QED
    BY <1>2, <2>2, <2>3, <2>4, <2>5, <2>6, BlockCases
<1>3. CASE RequestSuspend
  <2>1. old' \in BOOLEAN
    BY <1>3 DEF RequestSuspend
  <2> QED
    BY <1>3, <2>1 DEF RequestSuspend
<1> QED
  BY <1>1, <1>2, <1>3
  DEF Next, vars, Call, Refuse, Enqueue, Sample, GiveUp, RequestResume, Deliver,
      Stall, Disconnect, RuntimeError, Connect

LEMMA TypedStep == Typed /\ [Next]_vars => Typed'
<1> SUFFICES ASSUME Typed, [Next]_vars PROVE Typed'
  OBVIOUS
<1>0. SessionTyped' /\ HistoryTyped'
  BY SessionTypedStep, HistoryTypedStep DEF Typed, SessionTyped
<1> USE DEF Typed, history, frame
<1>a. MaxQueue \in Nat
  BY CameraAssumption DEF CameraAssumption
<1>1. ASSUME NEW b \in Blocks, Room, queue' = Enqueued(b)
      PROVE  queue' \in Seq(Blocks) /\ Len(queue') <= MaxQueue
  BY <1>1, <1>a, Appended DEF Room
<1>2. ASSUME NEW c \in Captures,
             Call(c) \/ Refuse(c) \/ Enqueue(c) \/ Sample(c) \/ GiveUp(c)
      PROVE  Typed'
  <2>1. queue' \in Seq(Blocks) /\ Len(queue') <= MaxQueue
    BY <1>1, <1>2 DEF Call, Refuse, Enqueue, Sample, GiveUp, Blocks
  <2> QED
    BY <1>0, <1>2, <2>1 DEF Call, Refuse, Enqueue, Sample, GiveUp, Returns
<1>3. CASE RunBlock
  <2>1. queue' \in Seq(Blocks) /\ Len(queue') <= MaxQueue
    BY <1>3, <1>a, Served DEF RunBlock
  <2>2. UNCHANGED after
    BY <1>3 DEF RunBlock
  <2>3. CASE Suspend \/ Teardown \/ Resume \/ Frame
    BY <1>0, <2>1, <2>2, <2>3 DEF Suspend, Teardown, Resume, Stopped, Frame
  <2>4. ASSUME NEW c \in Captures, Configure(c) PROVE Typed'
    BY <1>0, <2>1, <2>2, <2>4
    DEF Configure, Configured, ConfigurationFails, Returns
  <2> QED
    BY <1>3, <2>3, <2>4, BlockCases
<1>4. CASE RequestSuspend \/ RequestResume \/ Deliver \/ RuntimeError \/ Disconnect
  <2>1. queue' \in Seq(Blocks) /\ Len(queue') <= MaxQueue
    BY <1>1, <1>4
    DEF RequestSuspend, RequestResume, Deliver, RuntimeError, Disconnect, Blocks,
        Requests
  <2> QED
    BY <1>0, <1>4, <2>1
    DEF RequestSuspend, RequestResume, Deliver, RuntimeError, Disconnect
<1>5. CASE Stall \/ Connect \/ UNCHANGED vars
  BY <1>0, <1>5 DEF Stall, Connect, vars
<1> QED
  BY <1>2, <1>3, <1>4, <1>5 DEF Next

\* The queue changes in two ways only, and a capture's block enters it only
\* when it is not in it.
LEMMA QueueSteps ==
  ASSUME Typed, Waiting, [Next]_vars
  PROVE  \/ UNCHANGED queue
         \/ queue # <<>> /\ queue' = Tail(queue) /\ RunBlock
         \/ \E b \in Blocks :
              /\ queue' = Enqueued(b)
              /\ b \in Captures => ~Pending(b) /\ Enqueue(b)
<1> USE DEF Blocks, Requests
<1>1. ASSUME NEW c \in Captures, Enqueue(c) PROVE ~Pending(c)
  BY <1>1 DEF Enqueue, Waiting
<1>2. /\ "suspend" \notin Captures /\ "resume" \notin Captures
      /\ "teardown" \notin Captures /\ "frame" \notin Captures
  BY CameraAssumption DEF CameraAssumption
<1> QED
  BY <1>1, <1>2
  DEF Next, vars, Call, Refuse, Enqueue, Sample, GiveUp, RunBlock,
      RequestSuspend, RequestResume, Deliver, Stall, Disconnect, RuntimeError,
      Connect

LEMMA OnceStep ==
  ASSUME Typed, Waiting, Once, [Next]_vars
  PROVE  Once'
<1> USE DEF Once, Places
<1>1. CASE UNCHANGED queue
  BY <1>1
<1>2. CASE queue # <<>> /\ queue' = Tail(queue)
  <2>1. /\ Len(queue') = Len(queue) - 1
        /\ Len(queue) \in Nat \ {0}
        /\ \A i \in 1 .. Len(queue) - 1 : queue'[i] = queue[i + 1]
    BY <1>2, Served DEF Typed
  <2> SUFFICES ASSUME NEW i \in 1 .. Len(queue) - 1, NEW j \in 1 .. Len(queue) - 1,
                      queue'[i] \in Captures, queue'[i] = queue'[j]
               PROVE  i = j
    BY <2>1
  <2>2. i + 1 \in 1 .. Len(queue) /\ j + 1 \in 1 .. Len(queue)
    BY <2>1
  <2>3. i + 1 = j + 1
    BY <2>1, <2>2
  <2> QED
    BY <2>3
<1>3. ASSUME NEW b \in Blocks, queue' = Enqueued(b), b \in Captures => ~Pending(b)
      PROVE  Once'
  <2>1. /\ queue' \in Seq(Blocks)
        /\ Len(queue') = Len(queue) + 1
        /\ Len(queue) \in Nat
        /\ \A i \in 1 .. Len(queue) : queue'[i] = queue[i]
        /\ queue'[Len(queue) + 1] = b
    BY <1>3, Appended DEF Typed
  <2>2. b \in Captures => \A i \in 1 .. Len(queue) : queue[i] # b
    BY <1>3, LenProperties DEF Pending, Typed
  <2> QED
    BY <2>1, <2>2
<1> QED
  BY <1>1, <1>2, <1>3, QueueSteps

LEMMA WaitingStep ==
  ASSUME Typed, Waiting, Once, [Next]_vars
  PROVE  Waiting'
<1> SUFFICES ASSUME NEW x \in Captures PROVE (pc[x] = "configuring" <=> Pending(x))'
  BY DEF Waiting
<1>0. pc[x] = "configuring" <=> Pending(x)
  BY DEF Waiting
<1>1. ASSUME UNCHANGED queue PROVE Pending(x)' <=> Pending(x)
  BY <1>1 DEF Pending
<1>2. ASSUME NEW b \in Requests, queue' = Enqueued(b) PROVE Pending(x)' <=> Pending(x)
  BY <1>2, PendingAppended, CameraAssumption DEF CameraAssumption, Typed, Blocks
<1> USE DEF Typed
<1>3. ASSUME NEW c \in Captures, Call(c) \/ Refuse(c) \/ Sample(c) \/ GiveUp(c)
      PROVE  (pc[x] = "configuring" <=> Pending(x))'
  <2>1. UNCHANGED queue /\ (pc'[x] = "configuring" <=> pc[x] = "configuring")
    BY <1>3 DEF Call, Refuse, Sample, GiveUp, Returns
  <2> QED
    BY <1>0, <1>1, <2>1
<1>4. ASSUME NEW c \in Captures, Enqueue(c)
      PROVE  (pc[x] = "configuring" <=> Pending(x))'
  <2>1. pc'[x] = IF x = c THEN "configuring" ELSE pc[x]
    BY <1>4 DEF Enqueue
  <2>2. Pending(x)' <=> Pending(x) \/ x = c
    BY <1>4, PendingAppended DEF Enqueue, Blocks
  <2> QED
    BY <1>0, <2>1, <2>2
<1>5. CASE RunBlock
  <2>1. /\ queue # <<>>
        /\ \/ Head(queue) \in Requests /\ UNCHANGED pc
           \/ Head(queue) \in Captures /\ Configure(Head(queue))
    BY <1>5, BlockCases DEF Suspend, Resume, Teardown, Frame, Requests
  <2>2. /\ Pending(x)' => Pending(x)
        /\ Pending(x) /\ ~Pending(x)' => Head(queue) = x
        /\ Head(queue) = x => ~Pending(x)'
    BY <1>5, BlockCases, PendingServed
  <2>3. CASE Head(queue) \in Requests /\ UNCHANGED pc
    BY <1>0, <2>2, <2>3, CameraAssumption DEF CameraAssumption
  <2>4. CASE Head(queue) \in Captures /\ Configure(Head(queue))
    <3>1. pc'[x] = pc[x] \/ x = Head(queue)
      BY <2>4 DEF Configure, Configured, ConfigurationFails, Returns
    <3>2. x = Head(queue) => pc'[x] \in {"sampling", "off"}
      BY <2>4 DEF Configure, Configured, ConfigurationFails, Returns
    <3> QED
      BY <1>0, <2>2, <3>1, <3>2
  <2> QED
    BY <2>1, <2>3, <2>4
<1>6. CASE RequestSuspend \/ RequestResume \/ RuntimeError \/ Disconnect \/ Deliver
  <2>1. UNCHANGED pc
    BY <1>6 DEF RequestSuspend, RequestResume, RuntimeError, Disconnect, Deliver
  <2>2. UNCHANGED queue \/ \E b \in Requests : queue' = Enqueued(b)
    BY <1>6
    DEF RequestSuspend, RequestResume, RuntimeError, Disconnect, Deliver, Requests
  <2> QED
    BY <1>0, <1>1, <1>2, <2>1, <2>2
<1>7. CASE Stall \/ Connect \/ UNCHANGED vars
  BY <1>0, <1>1, <1>7 DEF Stall, Connect, vars
<1> QED
  BY <1>3, <1>4, <1>5, <1>6, <1>7 DEF Next

-----------------------------------------------------------------------------
(***************************************************************************)
(* The session.                                                            *)
(***************************************************************************)
LEMMA SetUpStep ==
  ASSUME Typed, SetUpTogether, Held, [Next]_vars
  PROVE  SetUpTogether' /\ Held'
<1> USE DEF Typed, SessionTyped, SetUpTogether, Held, config
<1>1. CASE UNCHANGED <<configured, running, attached, observing>>
  BY <1>1
<1>2. CASE RunBlock
  <2>1. CASE Suspend
    <3>1. running' = FALSE \/ UNCHANGED running
      BY <2>1 DEF Suspend, Stopped
    <3>2. UNCHANGED <<configured, attached, observing>>
      BY <2>1 DEF Suspend
    <3> QED
      BY <3>1, <3>2
  <2>2. CASE Teardown
    BY <2>2 DEF Teardown, Stopped
  <2>3. CASE Resume
    <3>1. CASE Teardown
      BY <2>2, <3>1
    <3>2. CASE ~Teardown
      BY <2>3, <3>2 DEF Resume
    <3> QED
      BY <3>1, <3>2
  <2>4. ASSUME NEW c \in Captures, Configure(c) PROVE SetUpTogether' /\ Held'
    BY <2>4 DEF Configure, Configured, ConfigurationFails
  <2>5. CASE Frame
    BY <1>1, <2>5 DEF Frame
  <2> QED
    BY <1>2, <2>1, <2>2, <2>3, <2>4, <2>5, BlockCases
<1> QED
  BY <1>1, <1>2
  DEF Next, vars, Call, Refuse, Enqueue, Sample, GiveUp, RequestSuspend,
      RequestResume, Deliver, Stall, Disconnect, RuntimeError, Connect

\* The session goes on only with the flag, and is left on against it only by a
\* stop that throws.
LEMMA LiveStep ==
  ASSUME Typed, LiveIsKnown, [Next]_vars
  PROVE  LiveIsKnown'
<1> USE DEF Typed, SessionTyped, LiveIsKnown, config, history
<1>1. CASE UNCHANGED <<running, unstopped>> /\ (live' => live)
  BY <1>1
<1>2. CASE RunBlock
  <2>1. CASE Stopped
    BY <2>1 DEF Stopped
  <2>2. CASE Suspend
    BY <2>1, <2>2 DEF Suspend
  <2>3. CASE Teardown
    BY <2>1, <2>3 DEF Teardown
  <2>4. CASE Resume
    BY <2>3, <2>4 DEF Resume
  <2>5. ASSUME NEW c \in Captures, Configure(c) PROVE LiveIsKnown'
    BY <2>5 DEF Configure, Configured, ConfigurationFails
  <2>6. CASE Frame
    BY <1>1, <2>6 DEF Frame
  <2> QED
    BY <1>2, <2>2, <2>3, <2>4, <2>5, <2>6, BlockCases
<1>3. CASE RuntimeError
  BY <1>3 DEF RuntimeError
<1>4. CASE RequestSuspend \/ RequestResume \/ Deliver \/ Disconnect
  BY <1>4 DEF RequestSuspend, RequestResume, Deliver, Disconnect
<1> QED
  BY <1>1, <1>2, <1>3, <1>4
  DEF Next, vars, Call, Refuse, Enqueue, Sample, GiveUp, Stall, Connect

LEMMA FrameStep ==
  ASSUME Typed, FrameWhileRunning, [Next]_vars
  PROVE  FrameWhileRunning'
<1> USE DEF Typed, SessionTyped, FrameWhileRunning, config, frame, history
<1>1. CASE UNCHANGED <<buffer, running, late>>
  BY <1>1
<1>2. CASE RunBlock
  <2>1. CASE Stopped
    BY <2>1 DEF Stopped
  <2>2. CASE Suspend
    BY <2>1, <2>2 DEF Suspend
  <2>3. CASE Teardown
    BY <2>1, <2>3 DEF Teardown
  <2>4. CASE Resume
    BY <2>3, <2>4 DEF Resume
  <2>5. ASSUME NEW c \in Captures, Configure(c) PROVE FrameWhileRunning'
    BY <2>5 DEF Configure, Configured, ConfigurationFails
  <2>6. CASE Frame
    BY <2>6 DEF Frame
  <2> QED
    BY <1>2, <2>2, <2>3, <2>4, <2>5, <2>6, BlockCases
<1>3. CASE Stall
  BY <1>3 DEF Stall
<1>4. CASE RequestSuspend \/ RequestResume \/ Deliver \/ Disconnect \/ RuntimeError
  BY <1>4 DEF RequestSuspend, RequestResume, Deliver, Disconnect, RuntimeError
<1> QED
  BY <1>1, <1>2, <1>3, <1>4
  DEF Next, vars, Call, Refuse, Enqueue, Sample, GiveUp, Connect

\* A frame gets old by a suspend() that is queued behind it, and the block of
\* that drops it; one that is delivered after the stop is late.
LEMMA OldStep ==
  ASSUME Typed, FrameWhileRunning, OldIsDoomed, [Next]_vars
  PROVE  OldIsDoomed'
<1> USE DEF Typed, SessionTyped, OldIsDoomed, config, frame, history
<1>0. ASSUME UNCHANGED queue PROVE Pending("suspend")' <=> Pending("suspend")
  BY <1>0 DEF Pending
<1>1. ASSUME UNCHANGED <<running, old, late>>, Pending("suspend") => Pending("suspend")'
      PROVE  OldIsDoomed'
  BY <1>1
<1>2. CASE RunBlock
  <2>1. Pending("suspend") /\ ~Pending("suspend")' => Head(queue) = "suspend"
    BY <1>2, BlockCases, PendingServed
  <2>a. CASE Stopped
    BY <2>a DEF Stopped
  <2>2. CASE Head(queue) = "suspend" /\ Suspend
    BY <2>a, <2>2 DEF Suspend
  <2>3. CASE Head(queue) = "teardown" /\ Teardown
    BY <2>a, <2>3 DEF Teardown
  <2>4. CASE Head(queue) = "resume" /\ Resume
    <3>1. CASE Teardown
      BY <2>a, <3>1 DEF Teardown
    <3>2. CASE ~Teardown
      BY <2>1, <2>4, <3>2 DEF Resume
    <3> QED
      BY <3>1, <3>2
  <2>5. CASE Head(queue) \in Captures /\ Configure(Head(queue))
    <3>1. Head(queue) # "suspend"
      BY <2>5, CameraAssumption DEF CameraAssumption, Requests
    <3>2. UNCHANGED <<old, late>> /\ (running => running')
      BY <2>5 DEF Configure, Configured, ConfigurationFails
    <3> QED
      BY <2>1, <3>1, <3>2
  <2>6. CASE Head(queue) = "frame" /\ Frame
    <3>1. old' /\ ~late' => running /\ Pending("suspend")
      BY <2>6 DEF Frame
    <3> QED
      BY <2>1, <2>6, <3>1 DEF Frame
  <2> QED
    BY <1>2, <2>2, <2>3, <2>4, <2>5, <2>6, BlockCases
<1>3. CASE RequestSuspend
  <2>1. Pending("suspend")'
    BY <1>3, PendingAppended DEF RequestSuspend, Blocks, Requests
  <2>2. old' /\ ~late' => running'
    BY <1>3 DEF RequestSuspend, FrameWhileRunning
  <2> QED
    BY <2>1, <2>2
<1>5. ASSUME NEW c \in Captures, Enqueue(c) PROVE OldIsDoomed'
  BY <1>1, <1>5, PendingAppended DEF Enqueue, Blocks
<1>6. CASE RequestResume \/ RuntimeError \/ Disconnect \/ Deliver
  <2>1. UNCHANGED queue \/ \E b \in Requests : queue' = Enqueued(b)
    BY <1>6 DEF RequestResume, RuntimeError, Disconnect, Deliver, Requests
  <2>2. Pending("suspend") => Pending("suspend")'
    BY <1>0, <2>1, PendingAppended DEF Blocks
  <2> QED
    BY <1>1, <1>6, <2>2 DEF RequestResume, RuntimeError, Disconnect, Deliver
<1>7. CASE \/ \E c \in Captures : Call(c) \/ Refuse(c) \/ Sample(c) \/ GiveUp(c)
           \/ Stall \/ Connect \/ UNCHANGED vars
  <2>1. UNCHANGED <<queue, running, old, late>>
    BY <1>7 DEF Call, Refuse, Sample, GiveUp, Stall, Connect, vars
  <2> QED
    BY <1>0, <1>1, <2>1
<1> QED
  BY <1>2, <1>3, <1>5, <1>6, <1>7 DEF Next

\* Only a suspension that is put behind a capture ends its standing.
LEMMA StandsBehindStep ==
  ASSUME queue \in Seq(Blocks), NEW x \in Captures, StandsBehind(x),
         \/ UNCHANGED queue
         \/ queue # <<>> /\ queue' = Tail(queue)
         \/ \E b \in Blocks \ {"suspend"} : queue' = Enqueued(b)
  PROVE  StandsBehind(x)'
<1> USE DEF StandsBehind, Places
<1>0. queue \in Seq(Blocks)
  OBVIOUS
<1>1. CASE UNCHANGED queue
  BY <1>1
<1>2. CASE queue # <<>> /\ queue' = Tail(queue)
  <2>1. /\ Len(queue') = Len(queue) - 1
        /\ Len(queue) \in Nat \ {0}
        /\ \A i \in 1 .. Len(queue) - 1 : queue'[i] = queue[i + 1]
    BY ONLY <1>0, <1>2, Served
  <2> SUFFICES ASSUME NEW i \in 1 .. Len(queue) - 1, NEW j \in 1 .. Len(queue) - 1,
                      queue'[i] = x, queue'[j] = "suspend"
               PROVE  j < i
    BY <2>1
  <2>2. i + 1 \in 1 .. Len(queue) /\ j + 1 \in 1 .. Len(queue)
    BY <2>1
  <2>3. j + 1 < i + 1
    BY <2>1, <2>2
  <2> QED
    BY <2>3
<1>3. ASSUME NEW b \in Blocks \ {"suspend"}, queue' = Enqueued(b)
      PROVE  StandsBehind(x)'
  <2>1. /\ Len(queue') = Len(queue) + 1
        /\ Len(queue) \in Nat
        /\ \A i \in 1 .. Len(queue) : queue'[i] = queue[i]
        /\ queue'[Len(queue) + 1] = b
    BY <1>3, Appended
  <2> SUFFICES ASSUME NEW i \in 1 .. Len(queue) + 1, NEW j \in 1 .. Len(queue) + 1,
                      queue'[i] = x, queue'[j] = "suspend"
               PROVE  j < i
    BY <2>1
  <2>2. j \in 1 .. Len(queue)
    BY <1>3, <2>1
  <2> QED
    BY <2>1, <2>2
<1> QED
  BY <1>1, <1>2, <1>3

LEMMA BehindStep ==
  ASSUME Typed, Waiting, Once, Behind, [Next]_vars
  PROVE  Behind'
<1> USE DEF Typed, history
<1>0. "suspend" \notin Captures
  BY CameraAssumption DEF CameraAssumption, Requests
<1>a. ASSUME NEW x \in Captures, StandsBehind(x), UNCHANGED queue
      PROVE  StandsBehind(x)' /\ (Pending("suspend")' <=> Pending("suspend"))
  BY <1>a, StandsBehindStep DEF Pending
<1>b. ASSUME NEW x \in Captures, StandsBehind(x),
             NEW b \in Blocks \ {"suspend"}, queue' = Enqueued(b)
      PROVE  StandsBehind(x)' /\ (Pending("suspend")' <=> Pending("suspend"))
  BY <1>b, StandsBehindStep, PendingAppended
<1>1. ASSUME NEW c \in Captures, Call(c) PROVE Behind'
  <2>1. UNCHANGED queue /\ after' = after \cup {c}
    BY <1>1 DEF Call
  <2>2. StandsBehind(c)
    <3>1. ~Pending(c)
      BY <1>1 DEF Call, Waiting
    <3> QED
      BY <3>1, LenProperties DEF StandsBehind, Places, Pending
  <2>3. pc'[c] = "called" /\ \A x \in Captures \ {c} : pc'[x] = pc[x]
    BY <1>1 DEF Call
  <2> QED
    BY <1>a, <2>1, <2>2, <2>3 DEF Behind
<1>2. ASSUME NEW c \in Captures, Refuse(c) \/ Sample(c) \/ GiveUp(c)
      PROVE  Behind'
  <2>1. /\ UNCHANGED <<queue, after>>
        /\ \A x \in Captures : pc'[x] = pc[x] \/ pc'[x] = "off"
    BY <1>2 DEF Refuse, Sample, GiveUp, Returns
  <2> QED
    BY <1>a, <2>1 DEF Behind
<1>3. ASSUME NEW c \in Captures, Enqueue(c) PROVE Behind'
  <2>1. /\ c \in Blocks \ {"suspend"} /\ queue' = Enqueued(c) /\ UNCHANGED after
        /\ \A x \in Captures : pc'[x] = pc[x] \/ pc'[x] = "configuring"
    BY <1>0, <1>3 DEF Enqueue, Blocks
  <2> QED
    BY <1>b, <2>1 DEF Behind
<1>4. CASE RunBlock
  <2>1. queue # <<>> /\ queue' = Tail(queue) /\ UNCHANGED after
    BY <1>4, BlockCases
  <2>2. Pending("suspend")' => Pending("suspend")
    BY <2>1, PendingServed
  <2>3. ASSUME NEW x \in after, pc'[x] = "sampling" PROVE ~Pending("suspend")'
    <3>1. CASE pc[x] = "sampling"
      BY <2>2, <3>1 DEF Behind
    <3>2. CASE pc[x] # "sampling"
      <4>1. Head(queue) = x
        BY <1>4, <2>3, <3>2, BlockCases
        DEF Suspend, Resume, Teardown, Frame, Configure, Configured,
            ConfigurationFails, Returns
      <4>2. queue[1] = x /\ Len(queue) \in Nat \ {0}
        BY <2>1, <4>1, Served
      <4>3. ~Pending("suspend")
        BY <4>2, LenProperties DEF Pending, Behind, StandsBehind, Places
      <4> QED
        BY <2>2, <4>3
    <3> QED
      BY <3>1, <3>2
  <2>4. ASSUME NEW x \in after PROVE StandsBehind(x)'
    BY <2>1, StandsBehindStep DEF Behind
  <2> QED
    BY <2>1, <2>3, <2>4 DEF Behind
<1>5. CASE RequestSuspend
  BY <1>5 DEF RequestSuspend, Behind
<1>6. CASE RequestResume \/ RuntimeError \/ Disconnect \/ Deliver
  <2>1. UNCHANGED <<pc, after>>
    BY <1>6 DEF RequestResume, RuntimeError, Disconnect, Deliver
  <2>2. UNCHANGED queue \/ \E b \in Blocks \ {"suspend"} : queue' = Enqueued(b)
    BY <1>6 DEF RequestResume, RuntimeError, Disconnect, Deliver, Blocks, Requests
  <2> QED
    BY <1>a, <1>b, <2>1, <2>2 DEF Behind
<1>7. CASE Stall \/ Connect \/ UNCHANGED vars
  <2>1. UNCHANGED <<queue, pc, after>>
    BY <1>7 DEF Stall, Connect, vars
  <2> QED
    BY <1>a, <2>1 DEF Behind
<1> QED
  BY <1>1, <1>2, <1>3, <1>4, <1>5, <1>6, <1>7 DEF Next

\* The suspension that is to switch the session off is not lost.
LEMMA LastStep ==
  ASSUME Typed, Last, [Next]_vars
  PROVE  Last'
<1> DEFINE LastSuspends == \A i \in 1 .. Len(queue) : queue[i] = "resume" =>
                             \E j \in 1 .. Len(queue) : i < j /\ queue[j] = "suspend"
<1> USE DEF Typed, SessionTyped, config, frame, history
<1>a. Last <=> (~wanted => /\ LastSuspends
                           /\ running /\ ~reconfigured => Pending("suspend"))
  BY DEF Last, Places
<1>b. Last' <=> (~wanted' => /\ LastSuspends'
                             /\ running' /\ ~reconfigured' => Pending("suspend")')
  BY DEF Last, Places
<1>0. ASSUME UNCHANGED queue
      PROVE  (Pending("suspend")' <=> Pending("suspend")) /\ (LastSuspends => LastSuspends')
  BY <1>0 DEF Pending
<1>1. ASSUME NEW b \in Blocks \ {"resume"}, queue' = Enqueued(b)
      PROVE  (Pending("suspend") => Pending("suspend")') /\ (LastSuspends => LastSuspends')
  <2>1. /\ Len(queue') = Len(queue) + 1
        /\ Len(queue) \in Nat
        /\ \A i \in 1 .. Len(queue) : queue'[i] = queue[i]
        /\ queue'[Len(queue) + 1] = b
    BY <1>1, Appended
  <2>2. Pending("suspend") => Pending("suspend")'
    BY <1>1, PendingAppended
  <2>3. ASSUME LastSuspends, NEW i \in 1 .. Len(queue) + 1, queue'[i] = "resume"
        PROVE  \E j \in 1 .. Len(queue) + 1 : i < j /\ queue'[j] = "suspend"
    <3>1. i \in 1 .. Len(queue) /\ queue[i] = "resume"
      BY <1>1, <2>1, <2>3
    <3>2. PICK j \in 1 .. Len(queue) : i < j /\ queue[j] = "suspend"
      BY <2>3, <3>1
    <3> QED
      BY <2>1, <3>2
  <2>4. LastSuspends => LastSuspends'
    BY <2>1, <2>3
  <2> QED
    BY <2>2, <2>4
<1>2. CASE RequestSuspend
  <2>1. /\ Len(queue') = Len(queue) + 1
        /\ Len(queue) \in Nat
        /\ \A i \in 1 .. Len(queue) : queue'[i] = queue[i]
        /\ queue'[Len(queue) + 1] = "suspend"
    BY <1>2, Appended DEF RequestSuspend, Blocks, Requests
  <2>2. Pending("suspend")'
    BY <1>2, PendingAppended DEF RequestSuspend, Blocks, Requests
  <2>3. LastSuspends'
    BY <2>1
  <2> QED
    BY <1>b, <2>2, <2>3
<1>3. CASE RequestResume
  BY <1>3, <1>b DEF RequestResume
<1>4. CASE RunBlock
  <2>1. queue # <<>> /\ queue' = Tail(queue) /\ UNCHANGED wanted
    BY <1>4, BlockCases
  <2>2. /\ Len(queue') = Len(queue) - 1
        /\ Len(queue) \in Nat \ {0}
        /\ \A i \in 1 .. Len(queue) - 1 : queue'[i] = queue[i + 1]
        /\ Head(queue) = queue[1]
    BY <2>1, Served
  <2>3. ASSUME LastSuspends, NEW i \in 1 .. Len(queue) - 1, queue'[i] = "resume"
        PROVE  \E j \in 1 .. Len(queue) - 1 : i < j /\ queue'[j] = "suspend"
    <3>1. i + 1 \in 1 .. Len(queue) /\ queue[i + 1] = "resume"
      BY <2>2, <2>3
    <3>2. PICK j \in 1 .. Len(queue) : i + 1 < j /\ queue[j] = "suspend"
      BY <2>3, <3>1
    <3>3. j - 1 \in 1 .. Len(queue) - 1 /\ i < j - 1 /\ (j - 1) + 1 = j
      BY <2>2, <3>2
    <3> QED
      BY <2>2, <3>2, <3>3
  <2>4. LastSuspends => LastSuspends'
    BY <2>2, <2>3
  <2>5. Pending("suspend") /\ ~Pending("suspend")' => Head(queue) = "suspend"
    BY <2>1, PendingServed
  <2>6. CASE Head(queue) = "suspend" /\ Suspend
    BY <1>a, <1>b, <2>1, <2>4, <2>6 DEF Suspend, Stopped
  <2>7. CASE Head(queue) = "teardown" /\ Teardown
    BY <1>a, <1>b, <2>1, <2>4, <2>7 DEF Teardown, Stopped
  <2>8. CASE Head(queue) = "resume" /\ Resume
    <3>1. LastSuspends => Pending("suspend")'
      <4> SUFFICES ASSUME LastSuspends PROVE Pending("suspend")'
        OBVIOUS
      <4>1. PICK j \in 1 .. Len(queue) : 1 < j /\ queue[j] = "suspend"
        BY <2>2, <2>8
      <4>2. j - 1 \in 1 .. Len(queue) - 1 /\ queue'[j - 1] = "suspend"
        BY <2>2, <4>1
      <4> QED
        BY <2>1, <2>2, <4>2, Served, LenProperties DEF Pending
    <3> QED
      BY <1>a, <1>b, <2>1, <2>4, <3>1
  <2>9. CASE Head(queue) \in Captures /\ Configure(Head(queue))
    <3>1. Head(queue) # "suspend"
      BY <2>9, CameraAssumption DEF CameraAssumption, Requests
    <3>2. running' /\ ~reconfigured' => running /\ ~reconfigured
      BY <2>9 DEF Configure, Configured, ConfigurationFails
    <3> QED
      BY <1>a, <1>b, <2>1, <2>4, <2>5, <3>1, <3>2
  <2>10. CASE Head(queue) = "frame" /\ Frame
    BY <1>a, <1>b, <2>1, <2>4, <2>5, <2>10 DEF Frame
  <2> QED
    BY <1>4, <2>6, <2>7, <2>8, <2>9, <2>10, BlockCases
<1>5. ASSUME NEW c \in Captures, Enqueue(c) PROVE Last'
  <2>1. c \in Blocks \ {"resume"}
    BY CameraAssumption DEF CameraAssumption, Blocks, Requests
  <2> QED
    BY <1>1, <1>5, <1>a, <1>b, <2>1 DEF Enqueue
<1>6. CASE RuntimeError \/ Disconnect \/ Deliver
  <2>1. UNCHANGED <<wanted, running, reconfigured>>
    BY <1>6 DEF RuntimeError, Disconnect, Deliver
  <2>2. UNCHANGED queue \/ \E b \in Blocks \ {"resume"} : queue' = Enqueued(b)
    BY <1>6 DEF RuntimeError, Disconnect, Deliver, Blocks, Requests
  <2> QED
    BY <1>0, <1>1, <1>a, <1>b, <2>1, <2>2
<1>7. CASE \/ \E c \in Captures : Call(c) \/ Refuse(c) \/ Sample(c) \/ GiveUp(c)
           \/ Stall \/ Connect \/ UNCHANGED vars
  <2>1. UNCHANGED <<queue, wanted, running, reconfigured>>
    BY <1>7 DEF Call, Refuse, Sample, GiveUp, Stall, Connect, vars
  <2> QED
    BY <1>0, <1>a, <1>b, <2>1
<1> QED
  BY <1>2, <1>3, <1>4, <1>5, <1>6, <1>7 DEF Next

-----------------------------------------------------------------------------
(***************************************************************************)
(* The theorems.                                                           *)
(***************************************************************************)
\* All of it together, after every block and every callback.
THEOREM CameraIsSafe == Spec => []CameraSafety
<1>1. Init => CameraSafety
  <2> SUFFICES ASSUME Init PROVE CameraSafety
    OBVIOUS
  <2>1. Len(queue) = 0 /\ queue \in Seq(Blocks)
    BY EmptySeq DEF Init
  <2>2. Typed
    <3>1. Len(queue) <= MaxQueue
      BY <2>1, CameraAssumption DEF CameraAssumption
    <3>2. pc \in [Captures -> {"off", "called", "configuring", "sampling"}]
      BY DEF Init
    <3>3. camera \in BOOLEAN /\ wanted \in BOOLEAN /\ after \in SUBSET Captures
      BY DEF Init
    <3> QED
      BY <2>1, <3>1, <3>2, <3>3 DEF Init, Typed, SessionTyped, HistoryTyped
  <2>3. Once /\ Waiting
    BY <2>1 DEF Init, Once, Waiting, Places, Pending
  <2>4. SetUpTogether /\ Held /\ LiveIsKnown /\ FrameWhileRunning /\ OldIsDoomed
    BY DEF Init, SetUpTogether, Held, LiveIsKnown, FrameWhileRunning, OldIsDoomed
  <2>5. Behind /\ Last
    BY <2>1 DEF Init, Behind, StandsBehind, Last, Places
  <2> QED
    BY <2>2, <2>3, <2>4, <2>5 DEF CameraSafety
<1>2. CameraSafety /\ [Next]_vars => CameraSafety'
  BY TypedStep, OnceStep, WaitingStep, SetUpStep, LiveStep, FrameStep, OldStep,
     BehindStep, LastStep
  DEF CameraSafety
<1> QED
  BY <1>1, <1>2, PTL DEF Spec

\* No capture() waits for a configuration that is not queued, nor twice
\* (CameraController.swift:168-170).
THEOREM CameraTypeCorrect == Spec => []TypeOK
<1>1. CameraSafety => TypeOK
  BY DEF CameraSafety, Typed, SessionTyped, HistoryTyped, Waiting, TypeOK, Blocks
<1> QED
  BY <1>1, CameraIsSafe, PTL

\* In whatever order faults, suspensions and configurations reach the queue, the
\* observers last exactly as long as the session (CameraController.swift:72-76).
THEOREM SetUpTogetherHolds == Spec => []SetUpTogether
<1>1. CameraSafety => SetUpTogether
  BY DEF CameraSafety
<1> QED
  BY <1>1, CameraIsSafe, PTL

\* A camera that is to be off is on all the same only if a stop of it threw, or if
\* it has been configured since the last suspend(), never just restarted, whoever
\* goes on capturing (CameraController.swift:121-126,426, main.swift:157-161).
THEOREM StoppedStaysStoppedHolds == Spec => []StoppedStaysStopped
<1>1. CameraSafety => StoppedStaysStopped
  BY DEF CameraSafety, Last, LiveIsKnown, Pending, StoppedStaysStopped
<1> QED
  BY <1>1, CameraIsSafe, PTL

\* No capture called after a suspend() returns a frame from before it, although
\* the frame is dropped only when the queue gets there and captures go on in
\* between, unless the frame reached the buffer behind the stop or the session
\* could not be stopped (CameraController.swift:219,426,510-515).
THEOREM NoPreSuspendFrameHolds == Spec => NoPreSuspendFrame
<1> DEFINE NoOldFrame ==
             \A c \in after : pc[c] = "sampling" /\ Sample(c) => ~old \/ late
<1>1. CameraSafety => NoOldFrame
  BY DEF CameraSafety, Behind, OldIsDoomed
<1>2. CameraSafety /\ [Next]_vars => [NoOldFrame]_vars
  BY <1>1
<1> QED
  BY <1>2, CameraIsSafe, PTL DEF Spec, NoPreSuspendFrame

-----------------------------------------------------------------------------
(***************************************************************************)
(* Liveness.  A capture whose block is queued moves up with every block    *)
(* that runs, is overtaken by none, and goes on once its own has run.      *)
(* That an action whose guard holds is enabled is a premise, since the     *)
(* provers have no rule for ENABLED: TLC evaluates it in a run's states.   *)
(***************************************************************************)
DueIsEnabled ==
  /\ queue # <<>> => ENABLED <<RunBlock>>_vars
  /\ \A c \in Captures :
       pc[c] = "sampling" => ENABLED <<Sample(c) \/ GiveUp(c)>>_vars

\* A capture's block is among the first k of the queue.
Within(c, k) ==
  pc[c] = "configuring" /\ \E i \in Places : i <= k /\ queue[i] = c

Resumed(c) == pc[c] \in {"sampling", "off"}

\* A capture that waits for its configuration goes on by it, or waits on.
LEMMA ConfiguringStep ==
  ASSUME Typed, Typed', [Next]_vars, NEW c \in Captures,
         pc[c] \in {"configuring", "sampling"}
  PROVE  /\ pc'[c] = "configuring" => pc[c] = "configuring"
         /\ pc'[c] # "called"
<1> USE DEF Typed, config, device, history
<1>1. ASSUME NEW d \in Captures,
             Call(d) \/ Refuse(d) \/ Enqueue(d) \/ Sample(d) \/ GiveUp(d)
      PROVE  pc'[c] = pc[c] \/ pc'[c] = "off"
  BY <1>1 DEF Call, Refuse, Enqueue, Sample, GiveUp, Returns
<1>2. CASE RunBlock
  <2>1. ASSUME NEW d \in Captures, Configure(d)
        PROVE  pc'[c] = pc[c] \/ pc'[c] \in {"off", "sampling"}
    BY <2>1 DEF Configure, Configured, ConfigurationFails, Returns
  <2>2. UNCHANGED pc \/ \E d \in Captures : Configure(d)
    BY <1>2, BlockCases DEF Suspend, Resume, Teardown, Frame, Blocks
  <2> QED
    BY <2>1, <2>2
<1>3. CASE \/ RequestSuspend \/ RequestResume \/ Deliver \/ Stall \/ Disconnect
           \/ RuntimeError \/ Connect \/ UNCHANGED vars
  BY <1>3
  DEF RequestSuspend, RequestResume, Deliver, Stall, Disconnect, RuntimeError,
      Connect, vars
<1> QED
  BY <1>1, <1>2, <1>3 DEF Next

\* Nothing enters the queue before a block that is in it, and a block that runs
\* brings every other one place nearer.
LEMMA PlaceStep ==
  ASSUME CameraSafety, CameraSafety', [Next]_vars, NEW c \in Captures,
         NEW k \in Nat, Within(c, k + 1)
  PROVE  /\ Resumed(c)' \/ Within(c, k + 1)'
         /\ RunBlock => Resumed(c)' \/ Within(c, k)'
<1> USE DEF CameraSafety
<1>1. Resumed(c)' \/ pc'[c] = "configuring"
  BY ConfiguringStep DEF Within, Resumed, Typed
<1> SUFFICES ASSUME pc'[c] = "configuring"
             PROVE  /\ Within(c, k + 1)'
                    /\ RunBlock => Within(c, k)'
  BY <1>1
<1>2. PICK i \in Places : i <= k + 1 /\ queue[i] = c
  BY DEF Within
<1>3. Pending(c)'
  BY DEF Waiting
<1>4. Len(queue) \in Nat
  BY LenProperties DEF Typed
<1>5. CASE UNCHANGED queue
  <2>1. ~RunBlock
    <3>1. RunBlock => Len(queue') = Len(queue) - 1
      BY Served DEF RunBlock, Typed
    <3> QED
      BY <1>4, <1>5, <3>1
  <2> QED
    BY <1>2, <1>5, <2>1 DEF Within, Places
<1>6. CASE queue # <<>> /\ queue' = Tail(queue)
  <2>1. /\ Len(queue') = Len(queue) - 1
        /\ \A j \in 1 .. Len(queue) - 1 : queue'[j] = queue[j + 1]
        /\ Head(queue) = queue[1]
    BY <1>6, Served DEF Typed
  <2>2. i # 1
    BY <1>2, <1>3, <1>6, <2>1, PendingServed DEF Typed
  <2>3. i - 1 \in 1 .. Len(queue) - 1 /\ (i - 1) + 1 = i /\ i - 1 <= k
    BY <1>2, <1>4, <2>2 DEF Places
  <2>4. queue'[i - 1] = c /\ i - 1 \in Places'
    BY <1>2, <2>1, <2>3 DEF Places
  <2> QED
    BY <2>3, <2>4 DEF Within
<1>7. ASSUME NEW b \in Blocks, queue' = Enqueued(b)
      PROVE  Within(c, k + 1)' /\ ~RunBlock
  <2>1. /\ Len(queue') = Len(queue) + 1
        /\ \A j \in 1 .. Len(queue) : queue'[j] = queue[j]
    BY <1>7, Appended DEF Typed
  <2>2. RunBlock => Len(queue') = Len(queue) - 1
    BY Served DEF RunBlock, Typed
  <2> QED
    BY <1>2, <1>4, <2>1, <2>2 DEF Within, Places
<1> QED
  BY <1>5, <1>6, <1>7, QueueSteps

\* That a capture goes on in the end, and that it does from within the first k
\* blocks, as names for the provers.
Eventually(c) == <>Resumed(c)
GoesOn(c, k) == [](Within(c, k) => Eventually(c))

\* The fairness of each capture.
LEMMA CapturesAreFair == Spec => \A c \in Captures : CaptureFair(c)
BY PTL DEF Spec

\* The induction step of EveryCaptureReturns, for any length of the queue, any
\* number of captures and whatever else is queued: a capture that goes on from
\* within the first k blocks goes on from within the first k + 1
\* (CameraController.swift:168-170,298-307).
THEOREM CaptureMovesUp ==
  ASSUME NEW c \in Captures, NEW k \in Nat
  PROVE  Spec /\ []DueIsEnabled => (GoesOn(c, k) => GoesOn(c, k + 1))
<1> DEFINE Near == Within(c, k + 1)
           Nearer == Within(c, k)
           Done == Resumed(c)
<1>1. CameraSafety /\ CameraSafety' /\ [Next]_vars /\ Near => Near' \/ Done'
  BY PlaceStep
<1>2. CameraSafety /\ CameraSafety' /\ [Next]_vars /\ Near /\ <<RunBlock>>_vars
      => Nearer' \/ Done'
  BY PlaceStep
<1>3. CameraSafety /\ DueIsEnabled /\ Near => ENABLED <<RunBlock>>_vars
  <2>1. CameraSafety /\ Near => queue # <<>>
    BY LenProperties, EmptySeq DEF CameraSafety, Typed, Within, Places
  <2> QED
    BY <2>1 DEF DueIsEnabled
<1> HIDE DEF Near, Nearer, Done
<1>4. Spec /\ []DueIsEnabled => (Near ~> (Nearer \/ Done))
  BY <1>1, <1>2, <1>3, CameraIsSafe, PTL DEF Spec
<1> QED
  BY <1>4, PTL DEF GoesOn, Eventually, Near, Nearer, Done

\* A capture that has been configured, or not, returns with what it then finds:
\* a fresh frame, or none in time (CameraController.swift:140-160).
THEOREM SamplingReturns ==
  ASSUME NEW c \in Captures
  PROVE  Spec /\ []DueIsEnabled => (Resumed(c) ~> pc[c] = "off")
<1> DEFINE Sampling == pc[c] = "sampling"
           Off == pc[c] = "off"
<1>1. Typed /\ Typed' /\ [Next]_vars /\ Sampling => Sampling' \/ Off'
  BY ConfiguringStep DEF Typed
<1>2. Typed /\ <<Sample(c) \/ GiveUp(c)>>_vars => Off'
  BY DEF Typed, Sample, GiveUp, Returns
<1>3. DueIsEnabled /\ Sampling => ENABLED <<Sample(c) \/ GiveUp(c)>>_vars
  BY DEF DueIsEnabled
<1>4. Resumed(c) => Sampling \/ Off
  BY DEF Resumed
<1>5. Spec => CaptureFair(c)
  BY CapturesAreFair
<1>6. CameraSafety => Typed
  BY DEF CameraSafety
<1> HIDE DEF Sampling, Off
<1>7. Spec /\ []DueIsEnabled => (Resumed(c) ~> Off)
  BY <1>1, <1>2, <1>3, <1>4, <1>5, <1>6, CameraIsSafe, PTL DEF Spec, CaptureFair
<1> QED
  BY <1>7 DEF Off

\* Every capture() returns.  The rounds of CaptureMovesUp are put together for
\* queues of up to four thousand blocks, with any number of captures in flight
\* (CameraController.swift:168-307).
THEOREM EveryCaptureReturnsHolds ==
  ASSUME MaxQueue <= 4096
  PROVE  Spec /\ []DueIsEnabled => EveryCaptureReturns
<1>1. ASSUME NEW c \in Captures
      PROVE  Spec /\ []DueIsEnabled => pc[c] = "configuring" ~> pc[c] = "off"
  <2>1. Spec /\ []DueIsEnabled => GoesOn(c, 0)
    <3>1. CameraSafety => ~Within(c, 0)
      BY DEF Within, Places
    <3> QED
      BY <3>1, CameraIsSafe, PTL DEF GoesOn
  <2>2. \A k \in Nat :
          Spec /\ []DueIsEnabled => (GoesOn(c, k) => GoesOn(c, k + 1))
    BY CaptureMovesUp
  <2>3. Spec /\ []DueIsEnabled => GoesOn(c, 4096)
    <3> DEFINE Over(n) == \A k \in Nat :
                 Spec /\ []DueIsEnabled => (GoesOn(c, k) => GoesOn(c, k + n))
    <3>1. Over(8)
      BY <2>2
    <3>2. Over(64)
      BY <3>1
    <3>3. Over(512)
      BY <3>2
    <3>4. Over(4096)
      BY <3>3
    <3> QED
      BY <2>1, <3>4
  <2>4. CameraSafety => (pc[c] = "configuring" => Within(c, 4096))
    <3>1. CameraSafety
          => DOMAIN queue = Places /\ Len(queue) \in Nat /\ Len(queue) <= 4096
      BY LenProperties, CameraAssumption
      DEF CameraAssumption, CameraSafety, Typed, Places
    <3> QED
      BY <3>1 DEF Within, CameraSafety, Waiting, Pending, Places
  <2> QED
    BY <2>3, <2>4, SamplingReturns, CameraIsSafe, PTL DEF GoesOn, Eventually
<1> QED
  BY <1>1 DEF EveryCaptureReturns

=============================================================================
