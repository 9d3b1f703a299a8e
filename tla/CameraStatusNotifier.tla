------------------------- MODULE CameraStatusNotifier -------------------------
(***************************************************************************)
(* CameraStatusNotifier.swift: the "not protecting you" banner.  update()  *)
(* is called with the engine's state wherever the gate or the loop renders *)
(* it.  Posting is asynchronous: the notification settings are asked for,  *)
(* and their callback, off the main actor, adds the banner.  Withdrawing   *)
(* is immediate, so a callback still to come is not stopped by it.         *)
(***************************************************************************)
EXTENDS Naturals

CONSTANTS
  MaxPosts     \* bound on the settings callbacks outstanding

VARIABLES
  isUnavailable,   \* an episode of an unavailable camera is going on
  lastPostedAt,    \* "never", or "recent" and "old" by repeatInterval
  posts,           \* settings callbacks that have not run yet
  banner,          \* Notification Center holds the banner
  authorized       \* the user allows notifications, at least provisionally

\* History: the banner, or a callback to come, may be of an episode that is over
\* or of an earlier launch, which did not withdraw it.
VARIABLES orphan

episode == <<isUnavailable, lastPostedAt>>
center == <<posts, banner>>
vars == <<episode, center, authorized, orphan>>

Init ==
  /\ isUnavailable = FALSE
  /\ lastPostedAt = "never"
  /\ posts = 0
  /\ banner \in BOOLEAN
  /\ authorized \in BOOLEAN
  /\ orphan = banner

\* The throttle runs from the attempt, whatever becomes of it.
Post ==
  /\ posts < MaxPosts
  /\ isUnavailable' = TRUE
  /\ lastPostedAt' = "recent"
  /\ posts' = posts + 1
  /\ UNCHANGED <<banner, orphan>>

\* Mutant: the end of an episode is noted and the banner stays.
WithdrawNot ==
  /\ isUnavailable' = FALSE
  /\ lastPostedAt' = "never"
  /\ orphan' = (posts > 0)
  /\ UNCHANGED <<posts, banner>>

Withdraw ==
  /\ isUnavailable' = FALSE
  /\ lastPostedAt' = "never"
  /\ banner' = FALSE
  /\ orphan' = (posts > 0)
  /\ UNCHANGED posts

Update(s) ==
  /\ IF s = "cameraUnavailable"
     THEN IF isUnavailable /\ lastPostedAt # "old"
          THEN UNCHANGED <<episode, center, orphan>>
          ELSE Post
     ELSE IF isUnavailable THEN Withdraw
                           ELSE UNCHANGED <<episode, center, orphan>>
  /\ UNCHANGED authorized

\* The settings callback.  Adding the request may fail.
SettingsArrive ==
  /\ posts > 0
  /\ posts' = posts - 1
  /\ banner' \in IF authorized THEN {banner, TRUE} ELSE {banner}
  /\ UNCHANGED <<episode, authorized, orphan>>

IntervalElapses ==
  /\ lastPostedAt = "recent"
  /\ lastPostedAt' = "old"
  /\ UNCHANGED <<isUnavailable, center, authorized, orphan>>

\* The user: answers the prompt or changes the setting, or dismisses the banner.
Decide ==
  /\ authorized' = ~authorized
  /\ UNCHANGED <<episode, center, orphan>>

Dismiss ==
  /\ banner
  /\ banner' = FALSE
  /\ orphan' = (orphan /\ posts > 0)
  /\ UNCHANGED <<episode, posts, authorized>>

Environment ==
  \/ SettingsArrive
  \/ IntervalElapses
  \/ Decide
  \/ Dismiss

-----------------------------------------------------------------------------
TypeOK ==
  /\ isUnavailable \in BOOLEAN
  /\ lastPostedAt \in {"never", "recent", "old"}
  /\ isUnavailable <=> lastPostedAt # "never"
  /\ posts \in 0 .. MaxPosts
  /\ banner \in BOOLEAN
  /\ authorized \in BOOLEAN
  /\ orphan \in BOOLEAN
=============================================================================
