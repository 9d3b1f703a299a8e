------------------------------ MODULE WiFiMonitor ------------------------------
(***************************************************************************)
(* WiFiMonitor.swift over TrustedNetworksStore.swift: which Wi-Fi network  *)
(* the Mac is on, whether the user trusts it, and when the enforcement     *)
(* gate is told.  CoreWLAN names the network only while Location is        *)
(* granted, may lose the event of a change, and the fallback poll runs     *)
(* only while some network is trusted.                                     *)
(*                                                                         *)
(* Of the gate only the last answer it got is kept (gateTrusted).          *)
(***************************************************************************)
CONSTANTS
  SSIDs,      \* the networks
  NoSSID      \* no network, or one whose name cannot be read

ASSUME SSIDAssumption == NoSSID \notin SSIDs

VARIABLES
  joined,         \* the network the Mac is on
  auth,           \* Location authorization
  promptOpen,     \* the Location prompt is waiting for the user
  trusted,        \* TrustedNetworksStore, kept in UserDefaults
  lastSSID,
  pendingTrust,
  polling,        \* pollTimer # nil
  refreshDue,     \* a refreshIfChanged task is queued
  authDue,        \* a task of locationManagerDidChangeAuthorization is queued
  gateTrusted     \* isOnTrustedNetwork as the gate's last pass read it

world == <<joined, auth, promptOpen>>
monitor == <<lastSSID, pendingTrust, polling>>
queue == <<refreshDue, authDue>>
vars == <<world, trusted, monitor, queue, gateTrusted>>

CurrentSSID == IF auth = "granted" THEN joined ELSE NoSSID

OnTrustedNetwork == CurrentSSID \in trusted

Init ==
  /\ joined \in SSIDs \cup {NoSSID}
  /\ auth = "notDetermined"
  /\ promptOpen = FALSE
  /\ trusted = {}
  /\ lastSSID = NoSSID
  /\ pendingTrust = FALSE
  /\ polling = FALSE
  /\ refreshDue = FALSE
  /\ authDue = TRUE        \* CoreLocation reports to every new delegate
  /\ gateTrusted = FALSE

-----------------------------------------------------------------------------
(***************************************************************************)
(* The gate runs: it reads the monitor live.                               *)
(***************************************************************************)
GatePass == gateTrusted' = OnTrustedNetwork'

\* A gate pass for a session change, a pause or an enrollment.
OtherGatePass ==
  /\ UNCHANGED <<world, trusted, monitor, queue>>
  /\ GatePass

UpdatePollTimer == polling' = (trusted' # {})

-----------------------------------------------------------------------------
(***************************************************************************)
(* The network, its events and the poll.                                   *)
(***************************************************************************)
\* ssidDidChange is delivered, or lost.
Roam(n) ==
  /\ joined # n
  /\ joined' = n
  /\ refreshDue' \in {refreshDue, TRUE}
  /\ UNCHANGED <<auth, promptOpen, trusted, monitor, authDue, gateTrusted>>

PollFires ==
  /\ polling
  /\ refreshDue' = TRUE
  /\ UNCHANGED <<world, trusted, monitor, authDue, gateTrusted>>

\* Mutant: the change is noted and nobody is told.
RefreshQuietly ==
  /\ refreshDue
  /\ refreshDue' = FALSE
  /\ lastSSID' = CurrentSSID
  /\ UNCHANGED <<world, trusted, pendingTrust, polling, authDue, gateTrusted>>

\* refreshIfChanged.
Refresh ==
  /\ refreshDue
  /\ refreshDue' = FALSE
  /\ lastSSID' = CurrentSSID
  /\ UNCHANGED <<world, trusted, pendingTrust, polling, authDue>>
  /\ IF CurrentSSID # lastSSID THEN GatePass ELSE UNCHANGED gateTrusted

(***************************************************************************)
(* The menu's trust item: requestTrustCurrentNetwork, then a gate pass.    *)
(***************************************************************************)
Toggled(ssid) == IF ssid \in trusted THEN trusted \ {ssid} ELSE trusted \cup {ssid}

ToggleReadable ==
  /\ CurrentSSID # NoSSID
  /\ trusted' = Toggled(CurrentSSID)
  /\ pendingTrust' = FALSE
  /\ UpdatePollTimer
  /\ UNCHANGED promptOpen

ToggleUnreadable ==
  /\ CurrentSSID = NoSSID
  /\ IF auth = "notDetermined"
     THEN pendingTrust' = TRUE /\ promptOpen' = TRUE
     ELSE UNCHANGED <<pendingTrust, promptOpen>>
  /\ UNCHANGED <<trusted, polling>>

ToggleTrust ==
  /\ ToggleReadable \/ ToggleUnreadable
  /\ UNCHANGED <<joined, auth, lastSSID, queue>>
  /\ GatePass

(***************************************************************************)
(* Location.                                                               *)
(***************************************************************************)
AnswerPrompt(answer) ==
  /\ promptOpen
  /\ promptOpen' = FALSE
  /\ auth' = answer
  /\ authDue' = TRUE
  /\ UNCHANGED <<joined, trusted, monitor, refreshDue, gateTrusted>>

\* The user changes the decision in System Settings.
ChangeSetting(answer) ==
  /\ auth \in {"granted", "denied"} \ {answer}
  /\ auth' = answer
  /\ authDue' = TRUE
  /\ UNCHANGED <<joined, promptOpen, trusted, monitor, refreshDue, gateTrusted>>

\* Mutant: a deferred trust is completed whatever the network is.
AuthCallbackBlind ==
  /\ authDue
  /\ authDue' = FALSE
  /\ lastSSID' = CurrentSSID
  /\ trusted' = IF pendingTrust THEN trusted \cup {CurrentSSID} ELSE trusted
  /\ UpdatePollTimer
  /\ pendingTrust' = FALSE
  /\ UNCHANGED <<world, refreshDue>>
  /\ GatePass

\* Mutant: completing a deferred trust does not start the poll.
AuthCallbackUnpolled ==
  /\ authDue
  /\ authDue' = FALSE
  /\ lastSSID' = CurrentSSID
  /\ trusted' = IF pendingTrust /\ CurrentSSID # NoSSID
                THEN trusted \cup {CurrentSSID} ELSE trusted
  /\ pendingTrust' = (pendingTrust /\ auth # "granted")
  /\ UNCHANGED <<world, polling, refreshDue>>
  /\ GatePass

\* Mutant: the authorization is noted and nobody is told.
AuthCallbackQuietly ==
  /\ authDue
  /\ authDue' = FALSE
  /\ lastSSID' = CurrentSSID
  /\ pendingTrust' = FALSE
  /\ UNCHANGED <<world, trusted, polling, refreshDue, gateTrusted>>

\* A trust deferred to this point is completed; without a network it is dropped
\* if Location is granted.
AuthCallback ==
  /\ authDue
  /\ authDue' = FALSE
  /\ lastSSID' = CurrentSSID
  /\ IF pendingTrust /\ CurrentSSID # NoSSID
     THEN trusted' = trusted \cup {CurrentSSID} /\ UpdatePollTimer
     ELSE UNCHANGED <<trusted, polling>>
  /\ pendingTrust' = (pendingTrust /\ auth # "granted")
  /\ UNCHANGED <<world, refreshDue>>
  /\ GatePass

\* The app is quit and launched again: WiFiMonitor.start, and a gate pass.
Relaunch ==
  /\ lastSSID' = CurrentSSID
  /\ pendingTrust' = FALSE
  /\ polling' = (trusted # {})
  /\ refreshDue' = FALSE
  /\ authDue' = TRUE
  /\ promptOpen' = FALSE
  /\ UNCHANGED <<joined, auth, trusted>>
  /\ GatePass

-----------------------------------------------------------------------------
Next ==
  \/ \E n \in SSIDs \cup {NoSSID} : Roam(n)
  \/ PollFires
  \/ Refresh
  \/ ToggleTrust
  \/ \E answer \in {"granted", "denied"} :
        AnswerPrompt(answer) \/ ChangeSetting(answer)
  \/ AuthCallback
  \/ OtherGatePass
  \/ Relaunch

\* Timers fire and queued tasks run; a change of network, a decision of the
\* user or a gate pass for another reason need never come.
Spec == /\ Init /\ [][Next]_vars
        /\ WF_vars(PollFires) /\ WF_vars(Refresh) /\ WF_vars(AuthCallback)

-----------------------------------------------------------------------------
(***************************************************************************)
(* Properties.                                                             *)
(***************************************************************************)
\* Types; and the nameless network is never in the store, so that not knowing
\* the network means not trusting it (TrustedNetworksStore.swift:47-52).
TypeOK ==
  /\ joined \in SSIDs \cup {NoSSID}
  /\ auth \in {"notDetermined", "granted", "denied"}
  /\ promptOpen \in BOOLEAN
  /\ trusted \in SUBSET SSIDs
  /\ lastSSID \in SSIDs \cup {NoSSID}
  /\ pendingTrust \in BOOLEAN
  /\ polling \in BOOLEAN
  /\ refreshDue \in BOOLEAN
  /\ authDue \in BOOLEAN
  /\ gateTrusted \in BOOLEAN

\* The fallback poll runs exactly while it can matter, across relaunches and
\* trusts completed in the background (WiFiMonitor.swift:27-30,64-79).
PollingWhileTrusted == polling <=> trusted # {}

\* A network the monitor has seen to be trusted is not left unnoticed, although
\* every event may be lost (WiFiMonitor.swift:27-30,45-47).
LeavingIsNoticed ==
  (lastSSID \in trusted /\ ~OnTrustedNetwork) ~> (~gateTrusted \/ OnTrustedNetwork)

\* Once Location is no longer granted, the gate no longer holds a network to be
\* trusted: not knowing resumes enforcement (WiFiMonitor.swift:8-10,167-187).
RevokedLocationEnforces ==
  (auth = "denied") ~> (~gateTrusted \/ auth = "granted")

(***************************************************************************)
(* What the comments promise and the code does not keep.                   *)
(***************************************************************************)
\* "Only trusts if we now have a real SSID; otherwise the pending intent is
\* dropped (fail-safe)" (WiFiMonitor.swift:174-175): once the prompt has been
\* answered and the callback has run, no trust is pending any more.
PendingIsDropped == pendingTrust => promptOpen \/ authDue

\* "The app stops locking only when ... the current Wi-Fi is on the user's
\* trusted list" (SECURITY_PRIVACY.md:39): the gate does not hold a network the
\* Mac has left for good to be trusted forever.
StaleTrustEnds ==
  (gateTrusted /\ ~OnTrustedNetwork) ~> (~gateTrusted \/ OnTrustedNetwork)

=============================================================================
