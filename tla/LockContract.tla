----------------------------- MODULE LockContract -----------------------------
(***************************************************************************)
(* What the presence engine relies on when it awaits locker.lock()         *)
(* (ScreenLocking, ScreenLocker.swift): every call returns, and its answer *)
(* is the state of the login session at the moment it is given.  In        *)
(* between the session may change by itself or because of the call.        *)
(***************************************************************************)
CONSTANTS
  Sessions,         \* what CGSessionCopyCurrentDictionary can report
  LockedSessions    \* the reports that count as a locked screen

VARIABLES busy, session, answer

vars == <<busy, session, answer>>

Init ==
  /\ busy = FALSE
  /\ session \in Sessions
  /\ answer = "none"

Begin ==
  /\ ~busy
  /\ busy' = TRUE
  /\ answer' = "none"
  /\ session' \in Sessions

Change ==
  /\ session' \in Sessions
  /\ UNCHANGED <<busy, answer>>

Finish ==
  /\ busy
  /\ busy' = FALSE
  /\ answer' = IF session \in LockedSessions THEN "locked" ELSE "failed"
  /\ UNCHANGED session

Next == Begin \/ Change \/ Finish

Spec == Init /\ [][Next]_vars /\ WF_vars(Finish)

\* An answer is due only of a call that is in progress (for the proofs).
FinishIsDue == ENABLED <<Finish>>_vars => busy
=============================================================================
