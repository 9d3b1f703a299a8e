----------------------------- MODULE ScreenLocker -----------------------------
(***************************************************************************)
(* One caller's successive calls of ScreenLocker.lock(): two mechanisms    *)
(* tried in turn, each followed by a poll of the login session, under one  *)
(* shared deadline.  What a mechanism asks of macOS takes effect later, or *)
(* never; the session also changes by itself (the user unlocks, locks, or  *)
(* switches away), and the calling task may be cancelled at any time.      *)
(*                                                                         *)
(* One unit of time is one poll interval (0.1 s).                          *)
(***************************************************************************)
EXTENDS Integers

CONSTANT Budget    \* polls until the deadline (3 s)

ASSUME BudgetAssumption == Budget \in Nat \ {0}

VARIABLES
  pc,          \* "idle", or the mechanism whose effect is being awaited
  asleep,      \* in Task.sleep between two polls
  left,        \* time left until the deadline
  cancelled,   \* Task.isCancelled
  requests,    \* what the mechanisms asked for and macOS has not yet decided
  session,     \* what CGSessionCopyCurrentDictionary reports
  answer       \* what the last call returned

\* History: mechanisms invoked, and sleeps taken, by the current call.
VARIABLES tried, sleeps

vars == <<pc, asleep, left, cancelled, requests, session, answer, tried, sleeps>>

Mechanisms == {"SAC", "CGSession"}

\* "none" stands for a missing dictionary or a missing on-console key.
Sessions == {"unlocked", "locked", "offConsole", "none"}
LockedSessions == {"locked", "offConsole"}

IsScreenLockedNow == session \in LockedSessions

Init ==
  /\ pc = "idle"
  /\ asleep = FALSE
  /\ left = 0
  /\ cancelled = FALSE
  /\ requests = {}
  /\ session = "unlocked"
  /\ answer = "none"
  /\ tried = {}
  /\ sleeps = 0

-----------------------------------------------------------------------------
\* Invoking CGSession may fail to launch, which is only logged.
Invoke(m) ==
  /\ requests' \in {requests, requests \cup {m}}
  /\ pc' = m

\* lock(): SACLockScreenImmediate if its symbol resolves, else CGSession.
Call ==
  /\ pc = "idle"
  /\ \/ Invoke("SAC") /\ tried' = {"SAC"}
     \/ Invoke("CGSession") /\ tried' = {"CGSession"}
  /\ left' = Budget
  /\ asleep' = FALSE
  /\ cancelled' = FALSE
  /\ answer' = "none"
  /\ sleeps' = 0
  /\ UNCHANGED session

\* Mutant: having launched the fallback counts as having locked.
ReturnTrusting ==
  /\ pc' = "idle"
  /\ answer' = IF pc = "CGSession" \/ IsScreenLockedNow THEN "locked" ELSE "failed"
  /\ UNCHANGED <<left, requests, tried>>

\* Mutant: the first mechanism's timeout is final.
FallThroughNot ==
  /\ pc' = "idle"
  /\ answer' = "failed"
  /\ UNCHANGED <<left, requests, tried>>

\* Mutant: each mechanism gets a deadline of its own.
FallThroughAfresh ==
  /\ Invoke("CGSession")
  /\ tried' = tried \cup {"CGSession"}
  /\ left' = Budget
  /\ UNCHANGED answer

\* Mutant: the fallback's budget comes on top of what is left.
FallThroughExtended ==
  /\ Invoke("CGSession")
  /\ tried' = tried \cup {"CGSession"}
  /\ left' = left + Budget
  /\ UNCHANGED answer

Return ==
  /\ pc' = "idle"
  /\ answer' = IF IsScreenLockedNow THEN "locked" ELSE "failed"
  /\ UNCHANGED <<left, requests, tried>>

FallThrough ==
  /\ Invoke("CGSession")
  /\ tried' = tried \cup {"CGSession"}
  /\ UNCHANGED <<left, answer>>

(***************************************************************************)
(* One round of waitForScreenLocked, and what lock() does if it ends.      *)
(***************************************************************************)
PollAgain == ~cancelled /\ ~IsScreenLockedNow /\ left > 0

Poll ==
  /\ pc # "idle"
  /\ ~asleep
  /\ \/ /\ PollAgain
        /\ asleep' = TRUE
        /\ sleeps' = sleeps + 1
        /\ UNCHANGED <<pc, left, requests, answer, tried>>
     \/ /\ ~PollAgain
        /\ IF pc = "SAC" /\ ~IsScreenLockedNow THEN FallThrough ELSE Return
        /\ UNCHANGED <<asleep, sleeps>>
  /\ UNCHANGED <<cancelled, session>>

\* The sleep ends after one interval, or later on a busy machine.
Wake ==
  /\ asleep
  /\ asleep' = FALSE
  /\ left' \in 0 .. left - 1
  /\ UNCHANGED <<pc, cancelled, requests, session, answer, tried, sleeps>>

\* A cancelled sleep throws at once.
Cancel ==
  /\ pc # "idle"
  /\ ~cancelled
  /\ cancelled' = TRUE
  /\ asleep' = FALSE
  /\ UNCHANGED <<pc, left, requests, session, answer, tried, sleeps>>

(***************************************************************************)
(* macOS and the user.                                                     *)
(***************************************************************************)
TakeEffect(m) ==
  /\ m \in requests
  /\ requests' = requests \ {m}
  /\ session' \in {session, IF m = "SAC" THEN "locked" ELSE "offConsole"}
  /\ UNCHANGED <<pc, asleep, left, cancelled, answer, tried, sleeps>>

SessionChanges ==
  /\ session' \in Sessions \ {session}
  /\ UNCHANGED <<pc, asleep, left, cancelled, requests, answer, tried, sleeps>>

-----------------------------------------------------------------------------
Next ==
  \/ Call
  \/ Poll
  \/ Wake
  \/ Cancel
  \/ \E m \in Mechanisms : TakeEffect(m)
  \/ SessionChanges

\* The runtime resumes a task that is ready, and a sleep ends.
Spec == Init /\ [][Next]_vars /\ WF_vars(Poll) /\ WF_vars(Wake)

-----------------------------------------------------------------------------
TypeOK ==
  /\ pc \in Mechanisms \cup {"idle"}
  /\ asleep \in BOOLEAN
  /\ left \in 0 .. Budget
  /\ cancelled \in BOOLEAN
  /\ requests \in SUBSET Mechanisms
  /\ session \in Sessions
  /\ answer \in {"none", "locked", "failed"}
  /\ tried \in SUBSET Mechanisms
  /\ sleeps \in Nat

\* One deadline covers both mechanisms: however the polls are spread over
\* them, a call sleeps no more often than one budget allows
\* (ScreenLocker.swift:54-57,165-171), so the engine's loop is held up once.
SharedDeadline == sleeps <= Budget

\* lock() reports failure only after the public fallback was tried
\* (ScreenLocker.swift:59-76), also when it was cancelled half way.
FailureOnlyAfterFallback == answer = "failed" => "CGSession" \in tried

\* Every call returns, with the session's true state as its answer
\* (ScreenLocker.swift:33-38), whatever macOS does with the requests.
Contract == INSTANCE LockContract WITH busy <- pc # "idle"

ImplementsContract == Contract!Spec
=============================================================================
