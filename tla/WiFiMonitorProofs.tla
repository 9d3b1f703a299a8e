--------------------------- MODULE WiFiMonitorProofs ---------------------------
(***************************************************************************)
(* Proofs about the Wi-Fi monitor, for any set of networks.                *)
(*                                                                         *)
(* The two invariants are inductive, each by itself: the store takes in    *)
(* only what the monitor could read, and wherever the store may change,    *)
(* the poll timer is set after it.  The two liveness properties then need  *)
(* each one thing to be due as long as the gate is behind: the callback of *)
(* a revoked authorization, or the poll.                                   *)
(***************************************************************************)
EXTENDS WiFiMonitor, TLAPS

\* What the monitor reads is a network or none, and a name when it is readable.
LEMMA CurrentTyped ==
  TypeOK => CurrentSSID \in SSIDs \cup {NoSSID}
BY DEF TypeOK, CurrentSSID

\* A nameless network is never trusted.
LEMMA UnknownIsUntrusted ==
  TypeOK /\ CurrentSSID = NoSSID => ~OnTrustedNetwork
BY SSIDAssumption DEF SSIDAssumption, TypeOK, OnTrustedNetwork

-----------------------------------------------------------------------------
(***************************************************************************)
(* Types.                                                                  *)
(***************************************************************************)
LEMMA TypeStep == TypeOK /\ [Next]_vars => TypeOK'
<1> SUFFICES ASSUME TypeOK, [Next]_vars PROVE TypeOK'
  OBVIOUS
<1> USE DEF TypeOK, world, monitor, queue
<1>0. CurrentSSID \in SSIDs \cup {NoSSID}
  BY CurrentTyped
<1>a. ASSUME GatePass PROVE gateTrusted' \in BOOLEAN
  BY <1>a DEF GatePass, OnTrustedNetwork
<1>1. ASSUME NEW n \in SSIDs \cup {NoSSID}, Roam(n) PROVE TypeOK'
  BY <1>1 DEF Roam
<1>2. CASE PollFires
  BY <1>2 DEF PollFires
<1>3. CASE Refresh
  <2>1. gateTrusted' \in BOOLEAN
    BY <1>3, <1>a DEF Refresh
  <2> QED
    BY <1>0, <1>3, <2>1 DEF Refresh
<1>4. CASE ToggleTrust
  <2>1. gateTrusted' \in BOOLEAN
    BY <1>4, <1>a DEF ToggleTrust
  <2>2. CASE ToggleReadable
    <3>1. trusted' \in SUBSET SSIDs /\ polling' \in BOOLEAN
      BY <1>0, <2>2 DEF ToggleReadable, Toggled, UpdatePollTimer
    <3> QED
      BY <1>4, <2>1, <2>2, <3>1 DEF ToggleTrust, ToggleReadable
  <2>3. CASE ToggleUnreadable
    BY <1>4, <2>1, <2>3 DEF ToggleTrust, ToggleUnreadable
  <2> QED
    BY <1>4, <2>2, <2>3 DEF ToggleTrust
<1>5. ASSUME NEW answer \in {"granted", "denied"},
             AnswerPrompt(answer) \/ ChangeSetting(answer)
      PROVE  TypeOK'
  BY <1>5 DEF AnswerPrompt, ChangeSetting
<1>6. CASE AuthCallback
  <2>1. gateTrusted' \in BOOLEAN
    BY <1>6, <1>a DEF AuthCallback
  <2>2. trusted' \in SUBSET SSIDs /\ polling' \in BOOLEAN
    BY <1>0, <1>6 DEF AuthCallback, UpdatePollTimer
  <2>3. pendingTrust' \in BOOLEAN
    BY <1>6 DEF AuthCallback
  <2> QED
    BY <1>0, <1>6, <2>1, <2>2, <2>3 DEF AuthCallback
<1>7. CASE OtherGatePass
  BY <1>7, <1>a DEF OtherGatePass
<1>8. CASE Relaunch
  <2>1. gateTrusted' \in BOOLEAN /\ polling' \in BOOLEAN
    BY <1>8, <1>a DEF Relaunch
  <2> QED
    BY <1>0, <1>8, <2>1 DEF Relaunch
<1>9. CASE UNCHANGED vars
  BY <1>9 DEF vars
<1> QED
  BY <1>1, <1>2, <1>3, <1>4, <1>5, <1>6, <1>7, <1>8, <1>9 DEF Next

\* The store never holds the nameless network, so that not knowing the network
\* means not trusting it (TrustedNetworksStore.swift:47-52).
THEOREM WiFiTypeCorrect == Spec => []TypeOK
<1>1. Init => TypeOK
  BY DEF Init, TypeOK
<1>2. TypeOK /\ [Next]_vars => TypeOK'
  BY TypeStep
<1> QED
  BY <1>1, <1>2, PTL DEF Spec

\* Hence in the trusted state the monitor can always name the network it trusts:
\* Location is granted and the Mac is on it (WiFiMonitor.swift:8-10,86-91).
THEOREM TrustNamesTheNetwork ==
  Spec => [](OnTrustedNetwork => auth = "granted" /\ joined \in trusted)
<1>1. TypeOK => (OnTrustedNetwork => auth = "granted" /\ joined \in trusted)
  BY UnknownIsUntrusted DEF OnTrustedNetwork, CurrentSSID
<1> QED
  BY <1>1, WiFiTypeCorrect, PTL

-----------------------------------------------------------------------------
(***************************************************************************)
(* The poll.                                                               *)
(***************************************************************************)
\* Whatever changes the store sets the timer accordingly: the menu, a trust
\* completed in the background and a relaunch (WiFiMonitor.swift:27-30,64-79).
THEOREM PollingWhileTrustedHolds == Spec => []PollingWhileTrusted
<1>1. Init => PollingWhileTrusted
  BY DEF Init, PollingWhileTrusted
<1>2. PollingWhileTrusted /\ [Next]_vars => PollingWhileTrusted'
  <2> SUFFICES ASSUME PollingWhileTrusted, [Next]_vars PROVE PollingWhileTrusted'
    OBVIOUS
  <2> USE DEF PollingWhileTrusted, monitor
  <2>1. CASE UNCHANGED <<trusted, polling>>
    BY <2>1
  <2>2. CASE polling' = (trusted' # {})
    BY <2>2
  <2>3. ASSUME ToggleTrust
        PROVE  UNCHANGED <<trusted, polling>> \/ polling' = (trusted' # {})
    BY <2>3 DEF ToggleTrust, ToggleReadable, ToggleUnreadable, UpdatePollTimer
  <2>4. ASSUME AuthCallback
        PROVE  UNCHANGED <<trusted, polling>> \/ polling' = (trusted' # {})
    BY <2>4 DEF AuthCallback, UpdatePollTimer
  <2>5. ASSUME Relaunch PROVE polling' = (trusted' # {})
    BY <2>5 DEF Relaunch
  <2>6. ASSUME Next, ~ToggleTrust, ~AuthCallback, ~Relaunch
        PROVE  UNCHANGED <<trusted, polling>>
    BY <2>6
    DEF Next, Roam, PollFires, Refresh, AnswerPrompt, ChangeSetting,
        OtherGatePass
  <2>7. CASE UNCHANGED vars
    BY <2>1, <2>7 DEF vars
  <2> QED
    BY <2>1, <2>2, <2>3, <2>4, <2>5, <2>6, <2>7
<1> QED
  BY <1>1, <1>2, PTL DEF Spec

-----------------------------------------------------------------------------
(***************************************************************************)
(* What the gate is told.                                                  *)
(***************************************************************************)
\* The handlers that end with a gate pass.
TellsGate == ToggleTrust \/ AuthCallback \/ OtherGatePass \/ Relaunch

LEMMA TellingIsPassing == TellsGate => GatePass
BY DEF TellsGate, ToggleTrust, AuthCallback, OtherGatePass, Relaunch

\* A pass that trusts can name the network it trusts.
LEMMA PassKnows ==
  TypeOK' /\ GatePass /\ gateTrusted' => auth' = "granted" /\ joined' \in trusted'
<1> SUFFICES ASSUME TypeOK', GatePass, gateTrusted'
             PROVE  auth' = "granted" /\ joined' \in trusted'
  OBVIOUS
<1>1. CurrentSSID' \in trusted' /\ CurrentSSID' # NoSSID
  BY SSIDAssumption DEF SSIDAssumption, GatePass, OnTrustedNetwork, TypeOK
<1> QED
  BY <1>1 DEF CurrentSSID

\* What a step that tells the gate nothing leaves alone.
LEMMA SilentStep ==
  ASSUME TypeOK, [Next]_vars, ~TellsGate
  PROVE  /\ UNCHANGED <<trusted, polling>>
         /\ authDue => authDue'
         /\ UNCHANGED auth \/ authDue'
         /\ ~Refresh => (refreshDue => refreshDue') /\ UNCHANGED lastSSID
         /\ (gateTrusted' <=> gateTrusted) \/ (Refresh /\ GatePass)
<1> USE DEF world, monitor, queue
<1>1. ASSUME NEW n \in SSIDs \cup {NoSSID}, Roam(n)
      PROVE  /\ UNCHANGED <<trusted, polling, authDue, auth, lastSSID, gateTrusted>>
             /\ refreshDue => refreshDue'
  <2>1. ASSUME refreshDue = TRUE PROVE refreshDue' = TRUE
    BY <1>1, <2>1 DEF Roam
  <2>2. UNCHANGED <<trusted, polling, authDue, auth, lastSSID, gateTrusted>>
    BY <1>1 DEF Roam
  <2> QED
    BY <2>1, <2>2 DEF TypeOK
<1>2. CASE PollFires
  BY <1>2 DEF PollFires
<1>3. CASE Refresh
  BY <1>3 DEF Refresh
<1>4. ASSUME NEW answer \in {"granted", "denied"},
             AnswerPrompt(answer) \/ ChangeSetting(answer)
      PROVE  /\ UNCHANGED <<trusted, polling, lastSSID, refreshDue, gateTrusted>>
             /\ authDue'
  BY <1>4 DEF AnswerPrompt, ChangeSetting
<1>5. CASE UNCHANGED vars
  BY <1>5 DEF vars
<1> QED
  BY <1>1, <1>2, <1>3, <1>4, <1>5 DEF Next, TellsGate

\* The gate takes no trust from an earlier network: it turns to "trusted" only
\* in a step that leaves Location granted and the Mac on a trusted network
\* (WiFiMonitor.swift:86-91, main.swift:136-141).
THEOREM TrustIsCurrentWhenTaken ==
  Spec => [][~gateTrusted /\ gateTrusted'
               => auth' = "granted" /\ joined' \in trusted']_vars
<1>1. TypeOK /\ TypeOK' /\ [Next]_vars
      => [~gateTrusted /\ gateTrusted'
            => auth' = "granted" /\ joined' \in trusted']_vars
  <2> SUFFICES ASSUME TypeOK, TypeOK', [Next]_vars, ~gateTrusted, gateTrusted'
               PROVE  auth' = "granted" /\ joined' \in trusted'
    OBVIOUS
  <2>1. GatePass
    BY SilentStep, TellingIsPassing
  <2> QED
    BY <2>1, PassKnows
<1> QED
  BY <1>1, WiFiTypeCorrect, PTL DEF Spec

\* No network gets into the store but the one the Mac is on when the user asks,
\* or when the trust the user asked for is completed after the Location prompt,
\* in the background (WiFiMonitor.swift:103-127,167-187).
THEOREM TrustsOnlyWhereItIs ==
  Spec => [][\A n \in trusted' \ trusted :
               /\ auth = "granted" /\ n = joined
               /\ ToggleTrust \/ (AuthCallback /\ pendingTrust)]_vars
<1>1. TypeOK /\ [Next]_vars
      => [\A n \in trusted' \ trusted :
            /\ auth = "granted" /\ n = joined
            /\ ToggleTrust \/ (AuthCallback /\ pendingTrust)]_vars
  <2> SUFFICES ASSUME TypeOK, [Next]_vars, NEW n \in trusted' \ trusted
               PROVE  /\ auth = "granted" /\ n = joined
                      /\ ToggleTrust \/ (AuthCallback /\ pendingTrust)
    BY DEF TypeOK
  <2>1. CASE ToggleTrust
    <3>1. ToggleReadable /\ trusted' = Toggled(CurrentSSID)
      BY <2>1 DEF ToggleTrust, ToggleReadable, ToggleUnreadable
    <3>2. n = CurrentSSID /\ CurrentSSID # NoSSID
      BY <3>1 DEF Toggled, ToggleReadable
    <3> QED
      BY <2>1, <3>2 DEF CurrentSSID
  <2>2. CASE AuthCallback
    <3>1. n = CurrentSSID /\ CurrentSSID # NoSSID /\ pendingTrust
      BY <2>2 DEF AuthCallback
    <3> QED
      BY <2>2, <3>1 DEF CurrentSSID
  <2>3. CASE OtherGatePass \/ Relaunch
    BY <2>3 DEF OtherGatePass, Relaunch
  <2> QED
    BY <2>1, <2>2, <2>3, SilentStep DEF TellsGate
<1> QED
  BY <1>1, WiFiTypeCorrect, PTL DEF Spec

-----------------------------------------------------------------------------
(***************************************************************************)
(* Liveness.  That an action whose guard holds is enabled is a premise, as *)
(* the provers have no rule for ENABLED: TLC evaluates it in the states of *)
(* a run, all the rest is proved.                                          *)
(***************************************************************************)
DueIsEnabled ==
  /\ polling /\ ~refreshDue => ENABLED <<PollFires>>_vars
  /\ refreshDue => ENABLED <<Refresh>>_vars
  /\ authDue => ENABLED <<AuthCallback>>_vars

\* A gate that still trusts what it may no longer be told has a callback coming.
RevocationIsPending == gateTrusted /\ auth # "granted" => authDue

\* Every change of the authorization queues a callback, and no pass before it
\* trusts a network it cannot name (WiFiMonitor.swift:8-10,167-187).
THEOREM RevocationIsPendingHolds == Spec => []RevocationIsPending
<1>1. Init => RevocationIsPending
  BY DEF Init, RevocationIsPending
<1>2. TypeOK /\ TypeOK' /\ RevocationIsPending /\ [Next]_vars
      => RevocationIsPending'
  <2> SUFFICES ASSUME TypeOK, TypeOK', RevocationIsPending, [Next]_vars,
                      gateTrusted', auth' # "granted"
               PROVE  authDue'
    BY DEF RevocationIsPending
  <2>1. ~GatePass
    BY PassKnows
  <2>2. ~TellsGate
    BY <2>1, TellingIsPassing
  <2>3. CASE ~authDue'
    <3>1. auth # "granted" /\ gateTrusted /\ ~authDue
      BY <2>1, <2>2, <2>3, SilentStep
    <3> QED
      BY <3>1 DEF RevocationIsPending
  <2> QED
    BY <2>3
<1> QED
  BY <1>1, <1>2, WiFiTypeCorrect, PTL DEF Spec

\* Not knowing the network resumes enforcement: once Location is denied, the
\* gate is told (WiFiMonitor.swift:8-10,167-187).
THEOREM RevokedLocationEnforcesHolds ==
  Spec /\ []DueIsEnabled => RevokedLocationEnforces
<1> DEFINE Stale == gateTrusted /\ auth = "denied"
           Heard == ~gateTrusted \/ auth = "granted"
<1>1. auth = "denied" => Stale \/ Heard
  OBVIOUS
<1>2. TypeOK /\ TypeOK' /\ Stale /\ [Next]_vars => Stale' \/ Heard'
  <2> SUFFICES ASSUME TypeOK, Stale, [Next]_vars PROVE auth' # "notDetermined"
    BY DEF TypeOK
  <2> QED
    BY DEF Next, Roam, PollFires, Refresh, ToggleTrust, AnswerPrompt,
       ChangeSetting, AuthCallback, OtherGatePass, Relaunch, vars, world
<1>3. TypeOK' /\ Stale /\ <<AuthCallback>>_vars => Heard'
  BY PassKnows DEF AuthCallback
<1>4. RevocationIsPending /\ DueIsEnabled /\ Stale => ENABLED <<AuthCallback>>_vars
  BY DEF RevocationIsPending, DueIsEnabled
<1>5. Spec => []TypeOK /\ []RevocationIsPending
  BY WiFiTypeCorrect, RevocationIsPendingHolds
<1> HIDE DEF Stale, Heard
<1>6. Spec /\ []DueIsEnabled => (Stale ~> Heard)
  BY <1>2, <1>3, <1>4, <1>5, PTL DEF Spec
<1> QED
  BY <1>1, <1>6, PTL DEF RevokedLocationEnforces, Heard

\* A network seen to be trusted has been left while the gate still trusts it.
Unnoticed == lastSSID \in trusted /\ ~OnTrustedNetwork /\ gateTrusted
Noticed == ~gateTrusted \/ OnTrustedNetwork

LEMMA UnnoticedStep ==
  ASSUME TypeOK, TypeOK', Unnoticed, [Next]_vars
  PROVE  \/ Noticed'
         \/ Unnoticed' /\ (refreshDue => refreshDue')
<1>1. CASE TellsGate
  <2>1. gateTrusted' = OnTrustedNetwork'
    BY <1>1, TellingIsPassing DEF GatePass
  <2> QED
    BY <2>1 DEF Noticed
<1>2. CASE Refresh
  <2>1. GatePass
    BY <1>2 DEF Refresh, Unnoticed, OnTrustedNetwork
  <2>2. gateTrusted' = OnTrustedNetwork'
    BY <2>1 DEF GatePass
  <2> QED
    BY <2>2 DEF Noticed
<1>3. CASE ~TellsGate /\ ~Refresh
  BY <1>3, SilentStep DEF Unnoticed, Noticed
<1> QED
  BY <1>1, <1>2, <1>3

\* A trusted network that has been left is noticed although every event of it
\* may be lost: the poll runs as long as any network is trusted, and finds
\* another name than the one it remembers (WiFiMonitor.swift:27-30,45-47).
THEOREM LeavingIsNoticedHolds == Spec /\ []DueIsEnabled => LeavingIsNoticed
<1> DEFINE P == lastSSID \in trusted /\ ~OnTrustedNetwork
           Unpolled == Unnoticed /\ ~refreshDue
           Polled == Unnoticed /\ refreshDue
<1>1. P => Unpolled \/ Polled \/ Noticed
  BY DEF Unnoticed, Noticed
<1>2. TypeOK /\ TypeOK' /\ Unpolled /\ [Next]_vars
      => Unpolled' \/ Polled' \/ Noticed'
  BY UnnoticedStep
<1>3. TypeOK /\ TypeOK' /\ Polled /\ [Next]_vars => Polled' \/ Noticed'
  BY UnnoticedStep
<1>4. <<PollFires>>_vars => ~Unpolled'
  BY DEF PollFires
<1>5. Polled /\ <<Refresh>>_vars => ~Polled'
  BY DEF Refresh
<1>6. PollingWhileTrusted /\ DueIsEnabled /\ Unpolled => ENABLED <<PollFires>>_vars
  <2>1. PollingWhileTrusted /\ Unpolled => polling /\ ~refreshDue
    BY DEF PollingWhileTrusted, Unnoticed
  <2> QED
    BY <2>1 DEF DueIsEnabled
<1>7. DueIsEnabled /\ Polled => ENABLED <<Refresh>>_vars
  BY DEF DueIsEnabled
<1>8. Spec => []TypeOK /\ []PollingWhileTrusted
  BY WiFiTypeCorrect, PollingWhileTrustedHolds
<1> HIDE DEF Unpolled, Polled
<1>9. Spec /\ []DueIsEnabled => (Polled ~> Noticed)
  BY <1>3, <1>5, <1>7, <1>8, PTL DEF Spec
<1>10. Spec /\ []DueIsEnabled => (Unpolled ~> (Polled \/ Noticed))
  BY <1>2, <1>4, <1>6, <1>8, PTL DEF Spec
<1> QED
  BY <1>1, <1>9, <1>10, PTL DEF LeavingIsNoticed, Noticed

=============================================================================
