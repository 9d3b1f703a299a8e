------------------------------ MODULE Enrollment ------------------------------
(***************************************************************************)
(* The enrolled signature: EnrollmentStore.swift (a Keychain item and a    *)
(* cache of it), the capture that writes it (Enrollment.swift) and the     *)
(* recognizer that reads it at every tick (FaceRecognizer.swift).          *)
(*                                                                         *)
(* enroll() and the menu's reset run on the main actor, one at a time;     *)
(* recognize() runs off it, so that each of its store accesses may fall    *)
(* between a write to the Keychain and the write to the cache.             *)
(*                                                                         *)
(* A signature is the person it was taken from: a face matches a signature *)
(* of the same person and no other (how well it does is not modelled).     *)
(***************************************************************************)
EXTENDS Naturals

CONSTANTS
  People,
  Ticks,         \* identities of recognize() calls in flight
  Enrollments,   \* identities of enroll() calls in flight
  Attempts,      \* EnrollmentCoordinator.attempts
  MinVectors     \* EnrollmentCoordinator.minimumVectors

ASSUME EnrollmentAssumption ==
  /\ {"notEnrolled", "unavailable", "unread", "idle", "reset"}
       \cap (People \cup Enrollments) = {}
  /\ Attempts \in Nat \ {0}
  /\ MinVectors \in Nat \ {0}

VARIABLES
  keychain,    \* the stored item
  readable,    \* whether the Keychain answers (unlocked, access allowed)
  cached,      \* EnrollmentStore.cached
  main,        \* who is in a store operation on the main actor
  pc, seen,    \* recognize(): where a call is, the state it works with
  capture,     \* enroll(): where a call is, or what it returned
  attempt, gotFrame, vectors, cancelled

\* History: what the store held when its last operation was complete, what it
\* held during each recognize() call, whether a reader has put an outdated
\* state into the cache, whether an enrollment changed the Keychain.
VARIABLES published, window, overtaken, wrote

store == <<keychain, readable, cached, main>>
calls == <<pc, seen>>
captures == <<capture, attempt, gotFrame, vectors, cancelled>>
history == <<published, window, overtaken, wrote>>
vars == <<store, calls, captures, history>>

Contents == People \cup {"notEnrolled"}
Results == {"none", "success", "notEnoughFaces", "cameraUnavailable",
            "saveFailed", "cancelled"}
Live(e) == capture[e] \notin Results

\* The app has been launched: nothing is cached, nothing in flight.
Init ==
  /\ keychain \in Contents
  /\ readable \in BOOLEAN
  /\ cached = "unread"
  /\ main = "idle"
  /\ pc = [t \in Ticks |-> "off"]
  /\ seen = [t \in Ticks |-> "unread"]
  /\ capture = [e \in Enrollments |-> "none"]
  /\ attempt = [e \in Enrollments |-> 0]
  /\ gotFrame = [e \in Enrollments |-> FALSE]
  /\ vectors = [e \in Enrollments |-> 0]
  /\ cancelled = [e \in Enrollments |-> FALSE]
  /\ published = keychain
  /\ window = [t \in Ticks |-> {}]
  /\ overtaken = FALSE
  /\ wrote = [e \in Enrollments |-> FALSE]

-----------------------------------------------------------------------------
(***************************************************************************)
(* recognize(): enrollmentState(), then the embedding, then the verdict.   *)
(***************************************************************************)
\* The cache is consulted under its lock, which is then released.
Recognize(t) ==
  /\ pc[t] = "off"
  /\ pc' = [pc EXCEPT ![t] = CASE cached = "unread"      -> "reading"
                               [] cached = "unavailable" -> "failing"
                               [] OTHER                  -> "embedding"]
  /\ seen' = [seen EXCEPT ![t] = cached]
  /\ window' = [window EXCEPT ![t] =
                  IF overtaken THEN Contents ELSE {keychain, published}]
  /\ UNCHANGED <<store, captures, published, overtaken, wrote>>

\* Mutant: a failed read counts as "no item".
ReadFailOpen(t) ==
  /\ pc[t] = "reading"
  /\ seen' = [seen EXCEPT ![t] = IF readable THEN keychain ELSE "notEnrolled"]
  /\ pc' = [pc EXCEPT ![t] = "caching"]
  /\ UNCHANGED <<store, captures, history>>

\* Mutant: a failed read is cached like any other.
ReadCachingFailure(t) ==
  /\ pc[t] = "reading"
  /\ seen' = [seen EXCEPT ![t] = IF readable THEN keychain ELSE "unavailable"]
  /\ cached' = IF readable THEN cached ELSE "unavailable"
  /\ pc' = [pc EXCEPT ![t] = IF readable THEN "caching" ELSE "failing"]
  /\ UNCHANGED <<keychain, readable, main, captures, history>>

Read(t) ==
  /\ pc[t] = "reading"
  /\ seen' = [seen EXCEPT ![t] = IF readable THEN keychain ELSE "unavailable"]
  /\ pc' = [pc EXCEPT ![t] = IF readable THEN "caching" ELSE "failing"]
  /\ UNCHANGED <<store, captures, history>>

Cache(t) ==
  /\ pc[t] = "caching"
  /\ cached' = seen[t]
  /\ pc' = [pc EXCEPT ![t] = "embedding"]
  /\ overtaken' = (seen[t] # keychain)
  /\ UNCHANGED <<keychain, readable, main, seen, captures, published, window, wrote>>

Ends(t) ==
  /\ pc' = [pc EXCEPT ![t] = "off"]
  /\ seen' = [seen EXCEPT ![t] = "unread"]
  /\ window' = [window EXCEPT ![t] = {}]
  /\ UNCHANGED <<store, captures, published, overtaken, wrote>>

\* .enrolledUserPresent for the face of p: presence only, or a match.
Present(t, p) ==
  /\ pc[t] = "embedding"
  /\ seen[t] \in {"notEnrolled", p}
  /\ Ends(t)

\* .strangerOnly
Stranger(t, p) ==
  /\ pc[t] = "embedding"
  /\ seen[t] \notin {"notEnrolled", p}
  /\ Ends(t)

\* .noFace, or .error because the embedding or the store failed.
Unrecognized(t) ==
  /\ pc[t] \in {"embedding", "failing"}
  /\ Ends(t)

-----------------------------------------------------------------------------
(***************************************************************************)
(* enroll().  The gate admits one at a time, but may have dropped its flag *)
(* while a capture goes on (see EnforcementGate).                          *)
(***************************************************************************)
Return(e, result) ==
  /\ capture' = [capture EXCEPT ![e] = result]
  /\ attempt' = [attempt EXCEPT ![e] = 0]
  /\ gotFrame' = [gotFrame EXCEPT ![e] = FALSE]
  /\ vectors' = [vectors EXCEPT ![e] = 0]
  /\ cancelled' = [cancelled EXCEPT ![e] = FALSE]

Begin(e) ==
  /\ main = "idle"
  /\ ~Live(e)
  /\ capture' = [capture EXCEPT ![e] = "attempting"]
  /\ wrote' = [wrote EXCEPT ![e] = FALSE]
  /\ UNCHANGED <<store, calls, attempt, gotFrame, vectors, cancelled,
                 published, window, overtaken>>

\* The head of the loop body, at once or after the sleep between attempts.
Attempt(e) ==
  /\ main = "idle"
  /\ capture[e] = "attempting"
  /\ IF cancelled[e]
     THEN Return(e, "cancelled")
     ELSE /\ capture' = [capture EXCEPT ![e] = "capturing"]
          /\ UNCHANGED <<attempt, gotFrame, vectors, cancelled>>
  /\ UNCHANGED <<store, calls, history>>

\* Mutant: after the last attempt the cancellation is not checked again.
DecideUncancelled(e, frame, n) ==
  CASE ~frame          -> Return(e, "cameraUnavailable") /\ UNCHANGED main
    [] n < MinVectors  -> Return(e, "notEnoughFaces") /\ UNCHANGED main
    [] OTHER           -> /\ main' = e
                          /\ capture' = [capture EXCEPT ![e] = "saving"]
                          /\ vectors' = [vectors EXCEPT ![e] = n]
                          /\ UNCHANGED <<attempt, gotFrame, cancelled>>

\* After the last attempt, with no await in between.
Decide(e, frame, n) ==
  CASE cancelled[e]    -> Return(e, "cancelled") /\ UNCHANGED main
    [] ~frame          -> Return(e, "cameraUnavailable") /\ UNCHANGED main
    [] n < MinVectors  -> Return(e, "notEnoughFaces") /\ UNCHANGED main
    [] OTHER           -> /\ main' = e
                          /\ capture' = [capture EXCEPT ![e] = "saving"]
                          /\ vectors' = [vectors EXCEPT ![e] = n]
                          /\ UNCHANGED <<attempt, gotFrame, cancelled>>

\* Mutant: only an attempt that got an embedding counts.
AttemptDoneCountingFaces(e, frame, n) ==
  IF attempt[e] + 1 < Attempts
  THEN /\ capture' = [capture EXCEPT ![e] = "attempting"]
       /\ attempt' = [attempt EXCEPT ![e] = n]
       /\ gotFrame' = [gotFrame EXCEPT ![e] = frame]
       /\ vectors' = [vectors EXCEPT ![e] = n]
       /\ UNCHANGED <<main, cancelled>>
  ELSE Decide(e, frame, n)

AttemptDone(e, frame, n) ==
  IF attempt[e] + 1 < Attempts
  THEN /\ capture' = [capture EXCEPT ![e] = "attempting"]
       /\ attempt' = [attempt EXCEPT ![e] = @ + 1]
       /\ gotFrame' = [gotFrame EXCEPT ![e] = frame]
       /\ vectors' = [vectors EXCEPT ![e] = n]
       /\ UNCHANGED <<main, cancelled>>
  ELSE Decide(e, frame, n)

\* capture() returns: no frame, or one that goes to the embedder.
NoFrame(e) ==
  /\ main = "idle"
  /\ capture[e] = "capturing"
  /\ AttemptDone(e, gotFrame[e], vectors[e])
  /\ UNCHANGED <<keychain, readable, cached, calls, history>>

Frame(e) ==
  /\ main = "idle"
  /\ capture[e] = "capturing"
  /\ capture' = [capture EXCEPT ![e] = "embedding"]
  /\ UNCHANGED <<store, calls, attempt, gotFrame, vectors, cancelled, history>>

Embedded(e, found) ==
  /\ main = "idle"
  /\ capture[e] = "embedding"
  /\ AttemptDone(e, TRUE, IF found THEN vectors[e] + 1 ELSE vectors[e])
  /\ UNCHANGED <<keychain, readable, cached, calls, history>>

\* The gate suspends the session.
Cancel(e) ==
  /\ main = "idle"
  /\ Live(e)
  /\ cancelled' = [cancelled EXCEPT ![e] = TRUE]
  /\ UNCHANGED <<store, calls, capture, attempt, gotFrame, vectors, history>>

-----------------------------------------------------------------------------
(***************************************************************************)
(* The store's two writers, on the main actor.                             *)
(***************************************************************************)
Stored(value) ==
  /\ keychain' = value
  /\ window' = [t \in Ticks |-> IF pc[t] = "off" THEN {} ELSE window[t] \cup {value}]

\* The item is updated, or added when there is none; p is whose face the
\* capture saw.
Save(e, p) ==
  /\ main = e /\ capture[e] = "saving"
  /\ Stored(p)
  /\ wrote' = [wrote EXCEPT ![e] = TRUE]
  /\ capture' = [capture EXCEPT ![e] = "saved"]
  /\ UNCHANGED <<readable, cached, main, calls, attempt, gotFrame, vectors,
                 cancelled, published, overtaken>>

\* Mutant: the old item is deleted before the new one is added (S2).
SaveFailsDeleted(e) ==
  /\ main = e /\ capture[e] = "saving"
  /\ Stored("notEnrolled")
  /\ wrote' = [wrote EXCEPT ![e] = keychain # "notEnrolled"]
  /\ main' = "idle"
  /\ Return(e, "saveFailed")
  /\ UNCHANGED <<readable, cached, calls, published, overtaken>>

SaveFails(e) ==
  /\ main = e /\ capture[e] = "saving"
  /\ main' = "idle"
  /\ Return(e, "saveFailed")
  /\ UNCHANGED <<keychain, readable, cached, calls, history>>

\* Mutant: the cache keeps what it held before the write.
SaveUncached(e) ==
  /\ main = e /\ capture[e] = "saved"
  /\ main' = "idle"
  /\ published' = keychain
  /\ overtaken' = FALSE
  /\ Return(e, "success")
  /\ UNCHANGED <<keychain, readable, cached, calls, window, wrote>>

\* What it has just stored: nobody else writes while it has the main actor.
SaveCached(e) ==
  /\ main = e /\ capture[e] = "saved"
  /\ cached' = keychain
  /\ main' = "idle"
  /\ published' = keychain
  /\ overtaken' = FALSE
  /\ Return(e, "success")
  /\ UNCHANGED <<keychain, readable, calls, window, wrote>>

\* A delete that fails changes nothing.
Reset ==
  /\ main = "idle"
  /\ Stored("notEnrolled")
  /\ main' = "reset"
  /\ UNCHANGED <<readable, cached, calls, captures, published, overtaken, wrote>>

ResetCached ==
  /\ main = "reset"
  /\ cached' = "notEnrolled"
  /\ main' = "idle"
  /\ published' = keychain
  /\ overtaken' = FALSE
  /\ UNCHANGED <<keychain, readable, calls, captures, window, wrote>>

\* The header's isEnrolled: a read on the main actor, which no write overtakes.
Header ==
  /\ main = "idle"
  /\ cached = "unread" /\ readable
  /\ cached' = keychain
  /\ UNCHANGED <<keychain, readable, main, calls, captures, history>>

ReadableFlips ==
  /\ readable' = ~readable
  /\ UNCHANGED <<keychain, cached, main, calls, captures, history>>

\* The app quits or crashes, at any point, and starts again.
Relaunch ==
  /\ cached' = "unread"
  /\ main' = "idle"
  /\ pc' = [t \in Ticks |-> "off"]
  /\ seen' = [t \in Ticks |-> "unread"]
  /\ capture' = [e \in Enrollments |-> "none"]
  /\ attempt' = [e \in Enrollments |-> 0]
  /\ gotFrame' = [e \in Enrollments |-> FALSE]
  /\ vectors' = [e \in Enrollments |-> 0]
  /\ cancelled' = [e \in Enrollments |-> FALSE]
  /\ published' = keychain
  /\ window' = [t \in Ticks |-> {}]
  /\ overtaken' = FALSE
  /\ wrote' = [e \in Enrollments |-> FALSE]
  /\ UNCHANGED <<keychain, readable>>

-----------------------------------------------------------------------------
Recognition(t) ==
  Read(t) \/ Cache(t) \/ Unrecognized(t)
    \/ \E p \in People : Present(t, p) \/ Stranger(t, p)

Capturing(e) ==
  Attempt(e) \/ NoFrame(e) \/ Frame(e) \/ Embedded(e, TRUE) \/ Embedded(e, FALSE)

Saving(e) == (\E p \in People : Save(e, p)) \/ SaveFails(e) \/ SaveCached(e)

Next ==
  \/ \E t \in Ticks : Recognize(t) \/ Recognition(t)
  \/ \E e \in Enrollments :
        \/ Begin(e)
        \/ Capturing(e)
        \/ Cancel(e)
        \/ Saving(e)
  \/ Reset
  \/ ResetCached
  \/ Header
  \/ ReadableFlips
  \/ Relaunch

\* Calls in flight go on, and the main actor is fair to its jobs: the awaits of
\* a capture resume although other jobs keep taking the main actor.
RecognitionFair(t) == WF_vars(Recognition(t))
CaptureFair(e) == SF_vars(Capturing(e)) /\ WF_vars(Saving(e))

Spec ==
  /\ Init /\ [][Next]_vars
  /\ \A t \in Ticks : RecognitionFair(t)
  /\ \A e \in Enrollments : CaptureFair(e)
  /\ WF_vars(ResetCached)

-----------------------------------------------------------------------------
(***************************************************************************)
(* Properties.                                                             *)
(***************************************************************************)
\* The types; and who is in a store operation is where it should be.
TypeOK ==
  /\ keychain \in Contents
  /\ readable \in BOOLEAN
  /\ cached \in Contents \cup {"unread"}
  /\ main \in Enrollments \cup {"idle", "reset"}
  /\ \A e \in Enrollments : main = e <=> capture[e] \in {"saving", "saved"}
  /\ pc \in [Ticks -> {"off", "reading", "caching", "embedding", "failing"}]
  /\ seen \in [Ticks -> Contents \cup {"unread", "unavailable"}]
  /\ capture \in [Enrollments -> Results \cup
                    {"attempting", "capturing", "embedding", "saving", "saved"}]
  /\ attempt \in [Enrollments -> 0 .. Attempts - 1]
  /\ gotFrame \in [Enrollments -> BOOLEAN]
  /\ vectors \in [Enrollments -> 0 .. Attempts]
  /\ cancelled \in [Enrollments -> BOOLEAN]
  /\ published \in Contents
  /\ window \in [Ticks -> SUBSET Contents]
  /\ overtaken \in BOOLEAN
  /\ wrote \in [Enrollments -> BOOLEAN]

\* Between operations the cache holds what the Keychain holds, or nothing
\* (EnrollmentStore.swift:68-75), unless a reader that a write overtook between
\* its Keychain read and its cache write has put the outdated state there.
CacheIsCurrent ==
  main = "idle" /\ ~overtaken => cached \in {"unread", keychain}

\* A face counts as present only if, at some time during the call, nobody was
\* enrolled or its owner was: neither a failed read nor a write in progress
\* lets any face pass (S1, EnrollmentStore.swift:11-16; FaceRecognizer.swift:
\* 24-36), unless the call began with a cache spoilt as above.
OnlyEnrolledPass ==
  [][\A t \in Ticks, p \in People :
        Present(t, p) => window[t] \cap {"notEnrolled", p} # {}]_vars

\* "a partial/aborted capture must never wipe or overwrite existing enrollment"
\* (Enrollment.swift:64-66): an enrollment is stored only with enough vectors
\* and by a capture that has not been cancelled.
OnlyCompleteCapturesAreStored ==
  [][\A e \in Enrollments : wrote'[e] /\ ~wrote[e]
        => ~cancelled[e] /\ vectors[e] >= MinVectors]_vars

\* The alert tells the truth: "Your previous enrollment (if any) was left
\* unchanged" (main.swift:310,318) whenever the result is not a success, and a
\* success has been stored (S2, EnrollmentStore.swift:157-159).
ResultIsHonest ==
  \A e \in Enrollments :
    ~Live(e) => (capture[e] = "success" <=> wrote[e])

\* enroll() returns, whatever the camera, the embedder and the Keychain answer.
EnrollReturns ==
  \A e \in Enrollments : Live(e) ~> ~Live(e)

\* A transient read failure is not cached (EnrollmentStore.swift:74,100-101):
\* once the Keychain answers for good, recognize() no longer fails on the store.
UnavailabilityHeals ==
  <>[]readable => <>[](\A t \in Ticks : pc[t] # "failing")

=============================================================================
