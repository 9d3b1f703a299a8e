---------------------------- MODULE EngineContract ----------------------------
(***************************************************************************)
(* What the app relies on when it runs the presence engine: PresenceEngine *)
(* without its clock and its accounting.  Any reading may come at the end  *)
(* of any tick and any absence may be long enough; what is kept is who may *)
(* lock the screen, when the engine's display state changes, and that      *)
(* cancelling a loop leaves its tick in flight.                            *)
(*                                                                         *)
(* The states unknown, present, absent and callAssumedPresent are one      *)
(* ("watching"): to the app they only differ in what the menu bar draws.   *)
(***************************************************************************)
CONSTANTS
  Loops,      \* identities of loop tasks
  Menus,      \* identities of "Lock now" tasks in flight
  NoTask      \* loopTask == nil

VARIABLES
  state,      \* the engine's display state
  loopTask,   \* the loop the app holds; any other one is cancelled
  step        \* where each task is suspended

vars == <<state, loopTask, step>>

Tasks == Loops \cup Menus

States == {"watching", "suspended", "paused", "trustedNetwork",
           "cameraUnavailable", "lockFailed"}

Steps == {"off", "asleep", "ticking", "locking"}

\* isLocking.
Locking == \E t \in Tasks : step[t] = "locking"

Init ==
  /\ state = "watching"
  /\ loopTask = NoTask
  /\ step = [t \in Tasks |-> "off"]

StartLoop(t) ==
  /\ loopTask = NoTask
  /\ step[t] = "off"
  /\ loopTask' = t
  /\ step' = [step EXCEPT ![t] = "asleep"]
  /\ UNCHANGED state

BeginTick(t) ==
  /\ step[t] = "asleep"
  /\ step' = [step EXCEPT ![t] = "ticking"]
  /\ UNCHANGED <<state, loopTask>>

\* Back in the loop: a cancelled one ends.
EndTick(t) == step' = [step EXCEPT ![t] = IF t = loopTask THEN "asleep" ELSE "off"]

\* A tick ends without a lock; it may hold the state it found.
Reading(t) ==
  /\ step[t] = "ticking"
  /\ state' \in {"watching", "suspended", "cameraUnavailable", state}
  /\ EndTick(t)
  /\ UNCHANGED loopTask

\* Mutant: a tick does not look at the cancellation of its loop.
AutoLockRegardless(t) ==
  /\ step[t] = "ticking"
  /\ ~Locking
  /\ step' = [step EXCEPT ![t] = "locking"]
  /\ state' = IF state = "lockFailed" THEN state ELSE "watching"
  /\ UNCHANGED loopTask

\* The absence has lasted, and the tick calls lock().
AutoLock(t) ==
  /\ step[t] = "ticking"
  /\ t = loopTask
  /\ ~Locking
  /\ step' = [step EXCEPT ![t] = "locking"]
  /\ state' = IF state = "lockFailed" THEN state ELSE "watching"
  /\ UNCHANGED loopTask

LockNow(m) ==
  /\ step[m] = "off"
  /\ ~Locking
  /\ step' = [step EXCEPT ![m] = "locking"]
  /\ UNCHANGED <<state, loopTask>>

LockReturns(t, ok) ==
  /\ step[t] = "locking"
  /\ state' = IF ok THEN "suspended" ELSE "lockFailed"
  /\ IF t \in Loops THEN EndTick(t) ELSE step' = [step EXCEPT ![t] = "off"]
  /\ UNCHANGED loopTask

\* The gate cancels the loop and calls one of the engine's resets.
Disable(s) ==
  /\ state' = s
  /\ loopTask' = NoTask
  /\ step' = [t \in Tasks |-> IF step[t] = "asleep" THEN "off" ELSE step[t]]

Next ==
  \/ \E t \in Loops : StartLoop(t) \/ BeginTick(t) \/ Reading(t) \/ AutoLock(t)
  \/ \E m \in Menus : LockNow(m)
  \/ \E t \in Tasks, ok \in BOOLEAN : LockReturns(t, ok)
  \/ \E s \in {"suspended", "paused", "trustedNetwork"} : Disable(s)

Spec == Init /\ [][Next]_vars
=============================================================================
