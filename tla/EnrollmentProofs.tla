--------------------------- MODULE EnrollmentProofs ---------------------------
(***************************************************************************)
(* Proofs about the enrolled signature, for any people, any number of      *)
(* recognize() and enroll() calls, and any number of attempts.             *)
(*                                                                         *)
(* The cache is honest because of what a reader may have seen: as long as  *)
(* no reader has been overtaken, the cache holds what the Keychain holds   *)
(* or what the last complete operation left (CacheKnown), and what a call  *)
(* works with is something the store held during the call (SeenInWindow).  *)
(***************************************************************************)
EXTENDS Enrollment, TLAPS

Stages == {"attempting", "capturing", "embedding", "saving", "saved"}

\* TypeOK, by what the recognizer, the capture and the store contribute.
CallsTyped ==
  /\ pc \in [Ticks -> {"off", "reading", "caching", "embedding", "failing"}]
  /\ seen \in [Ticks -> Contents \cup {"unread", "unavailable"}]
  /\ window \in [Ticks -> SUBSET Contents]

CapturesTyped ==
  /\ capture \in [Enrollments -> Results \cup Stages]
  /\ attempt \in [Enrollments -> 0 .. Attempts - 1]
  /\ gotFrame \in [Enrollments -> BOOLEAN]
  /\ vectors \in [Enrollments -> 0 .. Attempts]
  /\ cancelled \in [Enrollments -> BOOLEAN]
  /\ wrote \in [Enrollments -> BOOLEAN]

StoreTyped ==
  /\ keychain \in Contents
  /\ readable \in BOOLEAN
  /\ cached \in Contents \cup {"unread"}
  /\ published \in Contents
  /\ overtaken \in BOOLEAN

MainTyped ==
  /\ main \in Enrollments \cup {"idle", "reset"}
  /\ \A e \in Enrollments : main = e <=> capture[e] \in {"saving", "saved"}

\* No more embeddings than attempts.
Counted ==
  \A e \in Enrollments : capture[e] \notin {"saving", "saved"} => vectors[e] <= attempt[e]

\* What is about to be stored is complete and wanted.
Complete ==
  \A e \in Enrollments :
    capture[e] = "saving" => ~cancelled[e] /\ vectors[e] >= MinVectors

\* An enrollment has written exactly if it is past the write or says so.
Honest == \A e \in Enrollments : wrote[e] <=> capture[e] \in {"saved", "success"}

\* A call works with something the store has held since the call began.
SeenInWindow ==
  \A t \in Ticks :
    /\ pc[t] # "off" => keychain \in window[t]
    /\ pc[t] \in {"caching", "embedding"} => seen[t] \in window[t]

\* No writer is between its two writes.
Clean == main # "reset" /\ \A e \in Enrollments : capture[e] # "saved"

Published == Clean => published = keychain

CacheKnown == ~overtaken => cached \in {"unread", keychain, published}

\* A reset that is under way has emptied the Keychain.
Wiped == main = "reset" => keychain = "notEnrolled"

\* The inductive invariant.
EnrollmentSafety ==
  /\ CallsTyped /\ CapturesTyped /\ StoreTyped /\ MainTyped
  /\ Counted /\ Complete /\ Honest
  /\ SeenInWindow /\ Published /\ CacheKnown /\ Wiped

-----------------------------------------------------------------------------
(***************************************************************************)
(* recognize().                                                            *)
(***************************************************************************)
LEMMA RecognizeIsSafe ==
  ASSUME EnrollmentSafety, NEW t \in Ticks, Recognize(t)
  PROVE  EnrollmentSafety'
<1> USE DEF EnrollmentSafety
<1>0. {"notEnrolled", "unavailable", "unread"} \cap People = {}
  BY EnrollmentAssumption DEF EnrollmentAssumption
<1>1. UNCHANGED <<store, captures, published, overtaken, wrote>>
  BY DEF Recognize
<1>2. StoreTyped' /\ CapturesTyped' /\ MainTyped' /\ Counted' /\ Complete' /\ Honest'
      /\ Published' /\ CacheKnown' /\ Wiped'
  BY <1>1
  DEF StoreTyped, CapturesTyped, MainTyped, Counted, Complete, Honest,
      Published, CacheKnown, Clean, Wiped, store, captures
<1>3. /\ pc' \in [Ticks -> {"off", "reading", "caching", "embedding", "failing"}]
      /\ pc'[t] = "embedding" => cached # "unread"
      /\ pc'[t] \in {"reading", "failing", "embedding"}
      /\ \A x \in Ticks \ {t} : pc'[x] = pc[x]
  BY Zenon DEF Recognize, CallsTyped
<1>4. /\ seen' = [seen EXCEPT ![t] = cached]
      /\ window' = [window EXCEPT ![t] =
                      IF overtaken THEN Contents ELSE {keychain, published}]
  BY DEF Recognize
<1>5. CallsTyped'
  BY <1>3, <1>4 DEF CallsTyped, StoreTyped
<1>6. SeenInWindow'
  <2> SUFFICES ASSUME NEW x \in Ticks
               PROVE  /\ pc'[x] # "off" => keychain' \in window'[x]
                      /\ pc'[x] \in {"caching", "embedding"} => seen'[x] \in window'[x]
    BY DEF SeenInWindow
  <2>1. keychain' = keychain
    BY <1>1 DEF store
  <2>2. CASE x # t
    BY <1>3, <1>4, <2>1, <2>2 DEF SeenInWindow, CallsTyped
  <2>3. CASE x = t
    BY <1>3, <1>4, <2>1, <2>3 DEF CallsTyped, StoreTyped, CacheKnown
  <2> QED
    BY <2>2, <2>3
<1> QED
  BY <1>2, <1>5, <1>6

\* The read, the write to the cache and the end of a call.
LEMMA RecognitionIsSafe ==
  ASSUME EnrollmentSafety, NEW t \in Ticks, Recognition(t)
  PROVE  EnrollmentSafety'
<1> USE DEF EnrollmentSafety
<1>1. UNCHANGED <<keychain, readable, main, captures, published, wrote>>
  BY DEF Recognition, Read, Cache, Unrecognized, Present, Stranger, Ends, store,
         history
<1>2. CapturesTyped' /\ MainTyped' /\ Counted' /\ Complete' /\ Honest' /\ Published'
      /\ Wiped'
  BY <1>1
  DEF CapturesTyped, MainTyped, Counted, Complete, Honest, Published, Clean,
      Wiped, captures
<1>3. CASE Read(t)
  <2>1. /\ UNCHANGED <<cached, overtaken, window>>
        /\ seen' = [seen EXCEPT ![t] = IF readable THEN keychain ELSE "unavailable"]
        /\ pc' = [pc EXCEPT ![t] = IF readable THEN "caching" ELSE "failing"]
        /\ pc[t] = "reading"
    BY <1>3 DEF Read, store, history
  <2>2. StoreTyped' /\ CacheKnown'
    BY <1>1, <2>1 DEF StoreTyped, CacheKnown
  <2>3. CallsTyped'
    BY <2>1 DEF CallsTyped, StoreTyped
  <2>4. SeenInWindow'
    BY <1>1, <2>1 DEF CallsTyped, SeenInWindow
  <2> QED
    BY <1>2, <2>2, <2>3, <2>4
<1>4. CASE Cache(t)
  <2>1. /\ pc[t] = "caching"
        /\ cached' = seen[t]
        /\ pc' = [pc EXCEPT ![t] = "embedding"]
        /\ overtaken' = (seen[t] # keychain)
        /\ UNCHANGED <<seen, window>>
    BY <1>4 DEF Cache
  <2>2. seen[t] \in Contents
    BY <2>1 DEF CallsTyped, SeenInWindow
  <2>3. overtaken' \in BOOLEAN /\ (~overtaken' => cached' = keychain)
    BY <2>1
  <2>4. StoreTyped' /\ CacheKnown'
    BY <1>1, <2>1, <2>2, <2>3 DEF StoreTyped, CacheKnown
  <2>5. CallsTyped' /\ SeenInWindow'
    BY <1>1, <2>1 DEF CallsTyped, SeenInWindow
  <2> QED
    BY <1>2, <2>4, <2>5
<1>5. CASE Ends(t)
  <2>1. UNCHANGED <<cached, overtaken>>
    BY <1>5 DEF Ends, store
  <2>2. StoreTyped' /\ CacheKnown'
    BY <1>1, <2>1 DEF StoreTyped, CacheKnown
  <2>3. CallsTyped'
    BY <1>5 DEF Ends, CallsTyped
  <2>4. SeenInWindow'
    BY <1>1, <1>5 DEF Ends, CallsTyped, SeenInWindow
  <2> QED
    BY <1>2, <2>2, <2>3, <2>4
<1> QED
  BY <1>3, <1>4, <1>5 DEF Recognition, Unrecognized, Present, Stranger

-----------------------------------------------------------------------------
(***************************************************************************)
(* enroll(), up to the save.                                               *)
(***************************************************************************)
\* What the steps of a capture leave alone, and so what they cannot break: they
\* have written nothing and write nothing.
LEMMA CaptureKeeps ==
  ASSUME EnrollmentSafety, UNCHANGED <<keychain, readable, cached, calls, published,
                                       window, overtaken>>,
         CapturesTyped', MainTyped', Counted', Complete', Honest',
         main' = "reset" <=> main = "reset",
         \A e \in Enrollments : capture'[e] = "saved" <=> capture[e] = "saved"
  PROVE  EnrollmentSafety'
<1>1. Clean' <=> Clean
  BY DEF Clean
<1>2. CallsTyped' /\ StoreTyped' /\ SeenInWindow' /\ CacheKnown'
  BY DEF EnrollmentSafety, CallsTyped, StoreTyped, SeenInWindow, CacheKnown, calls
<1>3. Published' /\ Wiped'
  BY <1>1 DEF EnrollmentSafety, Published, Wiped
<1> QED
  BY <1>2, <1>3 DEF EnrollmentSafety

\* A result is a result, and clears the record of the capture.
LEMMA ReturnKeeps ==
  ASSUME CapturesTyped, Counted, Complete, Honest, NEW e \in Enrollments,
         NEW r \in Results, Return(e, r), UNCHANGED wrote,
         r = "success" <=> wrote[e]
  PROVE  /\ CapturesTyped' /\ Counted' /\ Complete' /\ Honest'
         /\ capture'[e] = r
         /\ \A x \in Enrollments \ {e} : capture'[x] = capture[x]
<1> USE DEF Return, CapturesTyped
<1>0. 0 \in 0 .. Attempts - 1 /\ 0 \in 0 .. Attempts
  BY EnrollmentAssumption DEF EnrollmentAssumption
<1>1. CapturesTyped'
  BY <1>0
<1>2. capture'[e] = r /\ vectors'[e] = 0 /\ attempt'[e] = 0
  OBVIOUS
<1>3. \A x \in Enrollments \ {e} :
        /\ capture'[x] = capture[x] /\ vectors'[x] = vectors[x]
        /\ attempt'[x] = attempt[x] /\ cancelled'[x] = cancelled[x]
  OBVIOUS
<1>4. Counted' /\ Complete'
  BY <1>2, <1>3 DEF Counted, Complete, Results
<1>5. Honest'
  BY <1>2, <1>3 DEF Honest, Results
<1> QED
  BY <1>1, <1>2, <1>3, <1>4, <1>5

\* The end of an attempt, with n embeddings so far: the next attempt, a result,
\* or the save, and that only for a complete capture nobody has cancelled.
LEMMA AttemptDoneIsSafe ==
  ASSUME EnrollmentSafety, NEW e \in Enrollments, main = "idle",
         capture[e] \in {"capturing", "embedding"},
         NEW frame \in BOOLEAN, NEW n \in Nat, n <= attempt[e] + 1,
         AttemptDone(e, frame, n),
         UNCHANGED <<keychain, readable, cached, calls, history>>
  PROVE  EnrollmentSafety'
<1> USE DEF EnrollmentSafety, history
<1>0. Attempts \in Nat \ {0} /\ MinVectors \in Nat \ {0} /\ "idle" \notin Enrollments
  BY EnrollmentAssumption DEF EnrollmentAssumption
<1>1. ~wrote[e] /\ \A x \in Enrollments : capture[x] \notin {"saving", "saved"}
  BY <1>0 DEF Honest, MainTyped
<1>2. attempt[e] \in 0 .. Attempts - 1
  BY DEF CapturesTyped
<1>3. CASE attempt[e] + 1 < Attempts
  <2>1. /\ capture' = [capture EXCEPT ![e] = "attempting"]
        /\ attempt' = [attempt EXCEPT ![e] = attempt[e] + 1]
        /\ gotFrame' = [gotFrame EXCEPT ![e] = frame]
        /\ vectors' = [vectors EXCEPT ![e] = n]
        /\ UNCHANGED <<main, cancelled>>
    BY <1>3 DEF AttemptDone, CapturesTyped
  <2>2. attempt[e] + 1 \in 0 .. Attempts - 1 /\ n \in 0 .. Attempts
    BY <1>0, <1>2, <1>3
  <2>3. CapturesTyped'
    BY <2>1, <2>2 DEF CapturesTyped, Stages
  <2>4. MainTyped' /\ Counted' /\ Complete' /\ Honest'
    BY <1>1, <2>1 DEF MainTyped, Counted, Complete, Honest, CapturesTyped
  <2> QED
    BY <1>1, <2>1, <2>3, <2>4, CaptureKeeps DEF CapturesTyped
<1>4. CASE ~(attempt[e] + 1 < Attempts)
  <2>1. Decide(e, frame, n)
    BY <1>4 DEF AttemptDone
  <2>2. \/ \E r \in {"cancelled", "cameraUnavailable", "notEnoughFaces"} :
             Return(e, r) /\ UNCHANGED main
        \/ /\ ~cancelled[e] /\ ~(n < MinVectors)
           /\ main' = e
           /\ capture' = [capture EXCEPT ![e] = "saving"]
           /\ vectors' = [vectors EXCEPT ![e] = n]
           /\ UNCHANGED <<attempt, gotFrame, cancelled>>
    BY <2>1, Zenon DEF Decide
  <2>3. ASSUME NEW r \in {"cancelled", "cameraUnavailable", "notEnoughFaces"},
               Return(e, r), UNCHANGED main
        PROVE  EnrollmentSafety'
    <3>1. /\ CapturesTyped' /\ Counted' /\ Complete' /\ Honest'
          /\ capture'[e] = r
          /\ \A x \in Enrollments \ {e} : capture'[x] = capture[x]
      BY <1>1, <2>3, ReturnKeeps DEF Results
    <3>2. MainTyped'
      BY <1>0, <1>1, <2>3, <3>1 DEF MainTyped
    <3> QED
      BY <1>1, <2>3, <3>1, <3>2, CaptureKeeps
  <2>4. ASSUME ~cancelled[e], ~(n < MinVectors), main' = e,
               capture' = [capture EXCEPT ![e] = "saving"],
               vectors' = [vectors EXCEPT ![e] = n],
               UNCHANGED <<attempt, gotFrame, cancelled>>
        PROVE  EnrollmentSafety'
    <3>1. n \in 0 .. Attempts /\ n >= MinVectors
      BY <1>0, <1>2, <2>4
    <3>2. CapturesTyped'
      BY <2>4, <3>1 DEF CapturesTyped, Stages
    <3>3. MainTyped' /\ Counted' /\ Complete' /\ Honest'
      BY <1>1, <2>4, <3>1 DEF MainTyped, Counted, Complete, Honest, CapturesTyped
    <3>4. main' # "reset" /\ capture'[e] # "saved"
      BY <2>4, EnrollmentAssumption DEF EnrollmentAssumption, CapturesTyped
    <3> QED
      BY <1>1, <2>4, <3>2, <3>3, <3>4, CaptureKeeps DEF CapturesTyped
  <2> QED
    BY <2>2, <2>3, <2>4
<1> QED
  BY <1>3, <1>4

LEMMA CapturingIsSafe ==
  ASSUME EnrollmentSafety, NEW e \in Enrollments, Begin(e) \/ Capturing(e) \/ Cancel(e)
  PROVE  EnrollmentSafety'
<1> USE DEF EnrollmentSafety, store, history
<1>0. "idle" \notin Enrollments /\ main = "idle"
  BY EnrollmentAssumption
  DEF EnrollmentAssumption, Begin, Capturing, Attempt, NoFrame, Frame, Embedded, Cancel
<1>1. \A x \in Enrollments : capture[x] \notin {"saving", "saved"}
  BY <1>0 DEF MainTyped
<1>2. CASE Begin(e)
  <2>1. /\ capture' = [capture EXCEPT ![e] = "attempting"]
        /\ wrote' = [wrote EXCEPT ![e] = FALSE]
        /\ UNCHANGED <<main, attempt, gotFrame, vectors, cancelled>>
    BY <1>2 DEF Begin
  <2>2. CapturesTyped'
    BY <2>1 DEF CapturesTyped, Stages
  <2>3. MainTyped' /\ Counted' /\ Complete' /\ Honest'
    BY <1>1, <2>1 DEF MainTyped, Counted, Complete, Honest, CapturesTyped
  <2> QED
    BY <1>0, <1>1, <1>2, <2>1, <2>2, <2>3, CaptureKeeps DEF Begin, CapturesTyped
<1>3. CASE Attempt(e)
  <2>1. CASE cancelled[e]
    <3>1. Return(e, "cancelled") /\ UNCHANGED <<store, calls, history>> /\ ~wrote[e]
      BY <1>3, <2>1 DEF Attempt, Honest
    <3>2. /\ CapturesTyped' /\ Counted' /\ Complete' /\ Honest'
          /\ capture'[e] = "cancelled"
          /\ \A x \in Enrollments \ {e} : capture'[x] = capture[x]
      BY <3>1, ReturnKeeps DEF Results
    <3>3. MainTyped'
      BY <1>0, <1>1, <3>1, <3>2 DEF MainTyped
    <3> QED
      BY <1>0, <1>1, <3>1, <3>2, <3>3, CaptureKeeps
  <2>2. CASE ~cancelled[e]
    <3>1. /\ capture' = [capture EXCEPT ![e] = "capturing"]
          /\ UNCHANGED <<store, calls, history, attempt, gotFrame, vectors, cancelled>>
          /\ capture[e] = "attempting"
      BY <1>3, <2>2 DEF Attempt
    <3>2. CapturesTyped'
      BY <3>1 DEF CapturesTyped, Stages
    <3>3. MainTyped' /\ Counted' /\ Complete' /\ Honest'
      BY <1>1, <3>1 DEF MainTyped, Counted, Complete, Honest, CapturesTyped
    <3> QED
      BY <1>0, <1>1, <3>1, <3>2, <3>3, CaptureKeeps DEF CapturesTyped
  <2> QED
    BY <2>1, <2>2
<1>4. CASE NoFrame(e)
  <2>1. /\ vectors[e] \in Nat /\ attempt[e] \in Nat /\ gotFrame[e] \in BOOLEAN
        /\ vectors[e] <= attempt[e]
    BY <1>1, EnrollmentAssumption DEF EnrollmentAssumption, CapturesTyped, Counted
  <2>2. vectors[e] <= attempt[e] + 1
    BY <2>1
  <2> QED
    BY <1>4, <2>1, <2>2, AttemptDoneIsSafe DEF NoFrame
<1>5. CASE Frame(e)
  <2>1. /\ capture' = [capture EXCEPT ![e] = "embedding"]
        /\ UNCHANGED <<store, calls, history, attempt, gotFrame, vectors, cancelled>>
        /\ capture[e] = "capturing"
    BY <1>5 DEF Frame
  <2>2. CapturesTyped'
    BY <2>1 DEF CapturesTyped, Stages
  <2>3. MainTyped' /\ Counted' /\ Complete' /\ Honest'
    BY <1>1, <2>1 DEF MainTyped, Counted, Complete, Honest, CapturesTyped
  <2> QED
    BY <1>0, <1>1, <2>1, <2>2, <2>3, CaptureKeeps DEF CapturesTyped
<1>6. ASSUME NEW found \in BOOLEAN, Embedded(e, found) PROVE EnrollmentSafety'
  <2>1. /\ vectors[e] \in Nat /\ attempt[e] \in Nat
        /\ vectors[e] <= attempt[e]
    BY <1>1, EnrollmentAssumption DEF EnrollmentAssumption, CapturesTyped, Counted
  <2> DEFINE n == IF found THEN vectors[e] + 1 ELSE vectors[e]
  <2>2. n \in Nat /\ n <= attempt[e] + 1
    BY <2>1
  <2>3. AttemptDone(e, TRUE, n) /\ main = "idle" /\ capture[e] = "embedding"
        /\ UNCHANGED <<keychain, readable, cached, calls, history>>
    BY <1>6 DEF Embedded
  <2> HIDE DEF n
  <2> QED
    BY <2>2, <2>3, AttemptDoneIsSafe
<1>7. CASE Cancel(e)
  <2>1. /\ cancelled' = [cancelled EXCEPT ![e] = TRUE]
        /\ UNCHANGED <<store, calls, history, capture, attempt, gotFrame, vectors>>
    BY <1>7 DEF Cancel
  <2>2. CapturesTyped' /\ MainTyped' /\ Counted' /\ Complete' /\ Honest'
    BY <1>1, <2>1 DEF CapturesTyped, MainTyped, Counted, Complete, Honest
  <2> QED
    BY <1>0, <1>1, <2>1, <2>2, CaptureKeeps
<1> QED
  BY <1>2, <1>3, <1>4, <1>5, <1>6, <1>7 DEF Capturing

-----------------------------------------------------------------------------
(***************************************************************************)
(* The store's two writers.                                                *)
(***************************************************************************)
\* A write to the Keychain is seen by the window of every call in flight.
LEMMA StoredIsSeen ==
  ASSUME CallsTyped, SeenInWindow, NEW v \in Contents, Stored(v), UNCHANGED calls
  PROVE  CallsTyped' /\ SeenInWindow' /\ keychain' = v
<1>1. /\ keychain' = v /\ UNCHANGED <<pc, seen>>
      /\ window' = [t \in Ticks |-> IF pc[t] = "off" THEN {} ELSE window[t] \cup {v}]
  BY DEF Stored, calls
<1>2. CallsTyped'
  BY <1>1 DEF CallsTyped
<1>3. SeenInWindow'
  BY <1>1 DEF SeenInWindow, CallsTyped
<1> QED
  BY <1>1, <1>2, <1>3

LEMMA SavingIsSafe ==
  ASSUME EnrollmentSafety, NEW e \in Enrollments, Saving(e)
  PROVE  EnrollmentSafety'
<1> USE DEF EnrollmentSafety
<1>0. /\ main = e /\ capture[e] \in {"saving", "saved"}
      /\ e \notin {"idle", "reset"} /\ "idle" \notin Enrollments
      /\ {"notEnrolled", "unread"} \cap People = {}
  BY EnrollmentAssumption DEF EnrollmentAssumption, Saving, Save, SaveFails, SaveCached
<1>1. \A x \in Enrollments \ {e} : capture[x] \notin {"saving", "saved"}
  BY <1>0 DEF MainTyped
<1>2. ASSUME NEW p \in People, Save(e, p) PROVE EnrollmentSafety'
  <2>1. /\ Stored(p) /\ p \in Contents /\ capture[e] = "saving"
        /\ wrote' = [wrote EXCEPT ![e] = TRUE]
        /\ capture' = [capture EXCEPT ![e] = "saved"]
        /\ UNCHANGED <<readable, cached, main, calls, attempt, gotFrame, vectors,
                      cancelled, published, overtaken>>
    BY <1>2 DEF Save, Contents
  <2>2. CallsTyped' /\ SeenInWindow' /\ keychain' = p
    BY <2>1, StoredIsSeen
  <2>3. CapturesTyped'
    BY <2>1 DEF CapturesTyped, Stages
  <2>4. MainTyped' /\ Counted' /\ Complete' /\ Honest' /\ StoreTyped'
    BY <1>0, <1>1, <2>1, <2>2
    DEF MainTyped, Counted, Complete, Honest, StoreTyped, CapturesTyped
  <2>5. Clean /\ ~Clean'
    BY <1>0, <1>1, <2>1 DEF Clean, CapturesTyped
  <2>6. Published' /\ CacheKnown' /\ Wiped'
    BY <1>0, <2>1, <2>5 DEF Published, CacheKnown, Wiped
  <2> QED
    BY <2>2, <2>3, <2>4, <2>6
<1>a. ASSUME NEW r \in Results, Return(e, r), r = "success" <=> wrote[e],
             main' = "idle", UNCHANGED <<keychain, readable, calls, window, wrote>>
      PROVE  /\ CapturesTyped' /\ Counted' /\ Complete' /\ Honest' /\ MainTyped'
             /\ CallsTyped' /\ SeenInWindow' /\ Clean'
  <2>1. /\ CapturesTyped' /\ Counted' /\ Complete' /\ Honest'
        /\ capture'[e] = r
        /\ \A x \in Enrollments \ {e} : capture'[x] = capture[x]
    BY <1>a, ReturnKeeps
  <2>2. MainTyped' /\ Clean'
    BY <1>0, <1>1, <1>a, <2>1 DEF MainTyped, Clean, Results
  <2>3. CallsTyped' /\ SeenInWindow'
    BY <1>a DEF CallsTyped, SeenInWindow, calls
  <2> QED
    BY <2>1, <2>2, <2>3
<1>3. CASE SaveFails(e)
  <2>1. /\ capture[e] = "saving" /\ Return(e, "saveFailed") /\ main' = "idle"
        /\ UNCHANGED <<keychain, readable, cached, calls, published, window,
                      overtaken, wrote>>
    BY <1>3 DEF SaveFails, history
  <2>2. ~wrote[e] /\ Clean
    BY <1>0, <1>1, <2>1 DEF Honest, Clean
  <2>3. /\ CapturesTyped' /\ Counted' /\ Complete' /\ Honest' /\ MainTyped'
        /\ CallsTyped' /\ SeenInWindow' /\ Clean'
    BY <1>a, <2>1, <2>2 DEF Results
  <2>4. StoreTyped' /\ Published' /\ CacheKnown' /\ Wiped'
    BY <2>1, <2>2 DEF StoreTyped, Published, CacheKnown, Wiped
  <2> QED
    BY <2>3, <2>4
<1>4. CASE SaveCached(e)
  <2>1. /\ capture[e] = "saved" /\ Return(e, "success") /\ main' = "idle"
        /\ cached' = keychain /\ published' = keychain /\ overtaken' = FALSE
        /\ UNCHANGED <<keychain, readable, calls, window, wrote>>
    BY <1>4 DEF SaveCached
  <2>2. wrote[e] = TRUE
    BY <2>1 DEF Honest, CapturesTyped
  <2>3. /\ CapturesTyped' /\ Counted' /\ Complete' /\ Honest' /\ MainTyped'
        /\ CallsTyped' /\ SeenInWindow'
    BY <1>a, <2>1, <2>2 DEF Results
  <2>4. StoreTyped' /\ Published' /\ CacheKnown' /\ Wiped'
    BY <2>1 DEF StoreTyped, Published, CacheKnown, Wiped
  <2> QED
    BY <2>3, <2>4
<1> QED
  BY <1>2, <1>3, <1>4 DEF Saving

LEMMA ResetIsSafe ==
  ASSUME EnrollmentSafety, Reset \/ ResetCached \/ Header \/ ReadableFlips
  PROVE  EnrollmentSafety'
<1> USE DEF EnrollmentSafety
<1>0. "idle" \notin Enrollments /\ "reset" \notin Enrollments
  BY EnrollmentAssumption DEF EnrollmentAssumption
<1>1. UNCHANGED <<captures, wrote>>
  BY DEF Reset, ResetCached, Header, ReadableFlips, history
<1>2. CapturesTyped' /\ Counted' /\ Complete' /\ Honest'
  BY <1>1 DEF CapturesTyped, Counted, Complete, Honest, captures
<1>3. CASE Reset
  <2>1. /\ main = "idle" /\ main' = "reset" /\ Stored("notEnrolled")
        /\ UNCHANGED <<readable, cached, calls, published, overtaken>>
    BY <1>3 DEF Reset
  <2>2. CallsTyped' /\ SeenInWindow' /\ keychain' = "notEnrolled"
    BY <2>1, StoredIsSeen DEF Contents
  <2>3. MainTyped' /\ StoreTyped'
    BY <1>0, <1>1, <2>1, <2>2 DEF MainTyped, StoreTyped, Contents, captures
  <2>4. Clean /\ ~Clean'
    BY <1>0, <2>1 DEF Clean, MainTyped
  <2>5. Published' /\ CacheKnown' /\ Wiped'
    BY <2>1, <2>2, <2>4 DEF Published, CacheKnown, Wiped
  <2> QED
    BY <1>2, <2>2, <2>3, <2>5
<1>4. CASE ResetCached
  <2>1. /\ main = "reset" /\ main' = "idle" /\ cached' = "notEnrolled"
        /\ published' = keychain /\ overtaken' = FALSE
        /\ UNCHANGED <<keychain, readable, calls, window>>
    BY <1>4 DEF ResetCached
  <2>2. keychain = "notEnrolled"
    BY <2>1 DEF Wiped
  <2>3. CallsTyped' /\ SeenInWindow'
    BY <2>1 DEF CallsTyped, SeenInWindow, calls
  <2>4. MainTyped' /\ StoreTyped' /\ Published' /\ CacheKnown' /\ Wiped'
    BY <1>0, <1>1, <2>1, <2>2
    DEF MainTyped, StoreTyped, Published, CacheKnown, Wiped, Contents, captures
  <2> QED
    BY <1>2, <2>3, <2>4
<1>5. CASE Header \/ ReadableFlips
  <2>1. /\ UNCHANGED <<keychain, main, calls, captures, history>>
        /\ readable' \in BOOLEAN
        /\ cached' \in {cached, keychain}
    BY <1>5 DEF Header, ReadableFlips, StoreTyped
  <2>2. CallsTyped' /\ SeenInWindow' /\ MainTyped' /\ StoreTyped'
    BY <2>1
    DEF CallsTyped, SeenInWindow, MainTyped, StoreTyped, calls, captures, history
  <2>3. Published' /\ CacheKnown' /\ Wiped'
    BY <2>1 DEF Published, CacheKnown, Wiped, Clean, captures, history
  <2> QED
    BY <1>2, <2>2, <2>3
<1> QED
  BY <1>3, <1>4, <1>5

LEMMA UnchangedIsSafe ==
  ASSUME EnrollmentSafety, UNCHANGED vars
  PROVE  EnrollmentSafety'
BY DEF EnrollmentSafety, vars, store, calls, captures, history, CallsTyped,
       CapturesTyped, StoreTyped, MainTyped, Counted, Complete, Honest,
       SeenInWindow, Published, CacheKnown, Wiped, Clean

\* Whenever the app quits or crashes: what was being done has been done or has
\* not, and nothing is remembered but the Keychain.
LEMMA RelaunchIsSafe ==
  ASSUME EnrollmentSafety, Relaunch
  PROVE  EnrollmentSafety'
<1> USE DEF Relaunch, EnrollmentSafety
<1>1. 0 \in 0 .. Attempts - 1 /\ 0 \in 0 .. Attempts
      /\ "idle" \notin Enrollments
  BY EnrollmentAssumption DEF EnrollmentAssumption
<1>2. CallsTyped' /\ SeenInWindow'
  BY DEF CallsTyped, SeenInWindow
<1>3. CapturesTyped'
  BY <1>1 DEF CapturesTyped, Results
<1>4. StoreTyped' /\ MainTyped'
  BY <1>1 DEF StoreTyped, MainTyped
<1>5. Counted' /\ Complete' /\ Honest'
  BY DEF Counted, Complete, Honest
<1>6. Published' /\ CacheKnown' /\ Wiped'
  BY DEF Published, CacheKnown, Wiped
<1> QED
  BY <1>2, <1>3, <1>4, <1>5, <1>6

-----------------------------------------------------------------------------
(***************************************************************************)
(* The theorems.                                                           *)
(***************************************************************************)
\* All of it together, after every step.
THEOREM EnrollmentIsSafe == Spec => []EnrollmentSafety
<1>1. Init => EnrollmentSafety
  <2> SUFFICES ASSUME Init PROVE EnrollmentSafety
    OBVIOUS
  <2> USE DEF Init
  <2>1. 0 \in 0 .. Attempts - 1 /\ 0 \in 0 .. Attempts
        /\ "idle" \notin Enrollments
    BY EnrollmentAssumption DEF EnrollmentAssumption
  <2>2. CallsTyped /\ SeenInWindow
    BY DEF CallsTyped, SeenInWindow
  <2>3. CapturesTyped
    BY <2>1 DEF CapturesTyped, Results
  <2>4. StoreTyped /\ MainTyped
    BY <2>1 DEF StoreTyped, MainTyped
  <2>5. Counted /\ Complete /\ Honest
    BY DEF Counted, Complete, Honest
  <2>6. Published /\ CacheKnown /\ Wiped
    BY DEF Published, CacheKnown, Wiped
  <2> QED
    BY <2>2, <2>3, <2>4, <2>5, <2>6 DEF EnrollmentSafety
<1>2. EnrollmentSafety /\ [Next]_vars => EnrollmentSafety'
  BY RecognizeIsSafe, RecognitionIsSafe, CapturingIsSafe, SavingIsSafe, ResetIsSafe,
     RelaunchIsSafe, UnchangedIsSafe
  DEF Next
<1> QED
  BY <1>1, <1>2, PTL DEF Spec

\* Whoever is in a store operation is where the capture says
\* (EnrollmentStore.swift:149-195).
THEOREM EnrollmentTypeCorrect == Spec => []TypeOK
<1>1. EnrollmentSafety => TypeOK
  BY DEF EnrollmentSafety, CallsTyped, CapturesTyped, StoreTyped, MainTyped, Stages,
         TypeOK
<1> QED
  BY <1>1, EnrollmentIsSafe, PTL

\* Between operations the cache is what the Keychain holds, for any number of
\* readers in flight (EnrollmentStore.swift:68-75).
THEOREM CacheIsCurrentHolds == Spec => []CacheIsCurrent
<1>1. EnrollmentSafety => CacheIsCurrent
  <2> SUFFICES ASSUME EnrollmentSafety, main = "idle", ~overtaken
               PROVE  cached \in {"unread", keychain}
    BY DEF CacheIsCurrent
  <2>1. Clean
    BY EnrollmentAssumption
    DEF EnrollmentAssumption, EnrollmentSafety, MainTyped, Clean
  <2> QED
    BY <2>1 DEF EnrollmentSafety, Published, CacheKnown
<1> QED
  BY <1>1, EnrollmentIsSafe, PTL

\* The alert after an enrollment tells what became of the stored signature
\* (main.swift:310,318, EnrollmentStore.swift:157-159).
THEOREM ResultIsHonestHolds == Spec => []ResultIsHonest
<1>1. EnrollmentSafety => ResultIsHonest
  BY DEF EnrollmentSafety, Honest, ResultIsHonest, Live, Results
<1> QED
  BY <1>1, EnrollmentIsSafe, PTL

\* No face passes that was not the enrolled one, or free to pass, at some time
\* during the call (EnrollmentStore.swift:11-16, FaceRecognizer.swift:24-36).
THEOREM OnlyEnrolledPassHolds == Spec => OnlyEnrolledPass
<1> DEFINE Passes == \A t \in Ticks, p \in People :
                       Present(t, p) => window[t] \cap {"notEnrolled", p} # {}
<1>1. EnrollmentSafety => Passes
  BY DEF EnrollmentSafety, SeenInWindow, Present
<1>2. EnrollmentSafety /\ [Next]_vars => [Passes]_vars
  BY <1>1
<1> QED
  BY <1>2, EnrollmentIsSafe, PTL DEF Spec, OnlyEnrolledPass

\* Only a capture with enough embeddings that nobody has cancelled is stored
\* (Enrollment.swift:64-66).
THEOREM OnlyCompleteCapturesAreStoredHolds == Spec => OnlyCompleteCapturesAreStored
<1> DEFINE Stores == \A e \in Enrollments : wrote'[e] /\ ~wrote[e]
                       => ~cancelled[e] /\ vectors[e] >= MinVectors
<1>1. EnrollmentSafety /\ [Next]_vars => [Stores]_vars
  <2> SUFFICES ASSUME EnrollmentSafety, Next, NEW e \in Enrollments,
                      wrote'[e], ~wrote[e]
               PROVE  capture[e] = "saving"
    BY DEF EnrollmentSafety, Complete
  <2>1. wrote' # wrote /\ wrote \in [Enrollments -> BOOLEAN]
    BY DEF EnrollmentSafety, CapturesTyped
  <2>2. PICK x \in Enrollments : Begin(x) \/ (\E p \in People : Save(x, p)) \/ Relaunch
    BY <2>1
    DEF Next, Recognize, Recognition, Read, Cache, Unrecognized, Present, Stranger,
        Ends, Capturing, Attempt, NoFrame, Frame, Embedded, Cancel, Saving,
        SaveFails, SaveCached, Reset, ResetCached, Header, ReadableFlips, history
  <2>3. ~Begin(x) /\ ~Relaunch
    BY <2>1 DEF Begin, Relaunch
  <2>4. x = e /\ \E p \in People : Save(x, p)
    BY <2>1, <2>2, <2>3 DEF Save
  <2> QED
    BY <2>4 DEF Save
<1> QED
  BY <1>1, EnrollmentIsSafe, PTL DEF Spec, OnlyCompleteCapturesAreStored

-----------------------------------------------------------------------------
(***************************************************************************)
(* Liveness.  enroll() returns because the work it has left is bounded and *)
(* falls with each of its steps, while no other step adds to it; and its   *)
(* steps come because the main actor is released again by whoever has it.  *)
(***************************************************************************)
\* Stages and attempts left.
Work(e) ==
  CASE capture[e] = "attempting" -> 3 * (Attempts - attempt[e]) + 3
    [] capture[e] = "capturing"  -> 3 * (Attempts - attempt[e]) + 2
    [] capture[e] = "embedding"  -> 3 * (Attempts - attempt[e]) + 1
    [] capture[e] = "saving"     -> 2
    [] capture[e] = "saved"      -> 1
    [] OTHER                     -> 0

InCapture(e) == capture[e] \in {"attempting", "capturing", "embedding"}
InSave(e) == capture[e] \in {"saving", "saved"}

LEMMA StageTyped ==
  ASSUME TypeOK, NEW e \in Enrollments
  PROVE  /\ Live(e) <=> InCapture(e) \/ InSave(e)
         /\ attempt[e] \in Nat /\ attempt[e] <= Attempts - 1
         /\ Attempts \in Nat
         /\ Work(e) \in Nat
         /\ Live(e) <=> Work(e) > 0
         /\ Work(e) <= 3 * Attempts + 3
<1>1. attempt[e] \in Nat /\ attempt[e] <= Attempts - 1 /\ Attempts \in Nat
  BY EnrollmentAssumption DEF EnrollmentAssumption, TypeOK
<1>2. Live(e) <=> InCapture(e) \/ InSave(e)
  BY DEF TypeOK, Live, Results, InCapture, InSave
<1>3. /\ Work(e) \in Nat
      /\ InCapture(e) \/ InSave(e) <=> Work(e) > 0
      /\ Work(e) <= 3 * Attempts + 3
  BY <1>1 DEF Work, InCapture, InSave
<1> QED
  BY <1>1, <1>2, <1>3

\* The end of an attempt leaves fewer attempts, a result or the save.
LEMMA AttemptDoneWorks ==
  ASSUME TypeOK, NEW e \in Enrollments, NEW frame \in BOOLEAN, NEW n \in Nat,
         capture[e] \in {"capturing", "embedding"}, AttemptDone(e, frame, n)
  PROVE  /\ capture'[e] \in {"attempting", "saving"} \cup Results
         /\ capture'[e] = "attempting" => attempt'[e] = attempt[e] + 1
         /\ \A x \in Enrollments \ {e} :
              capture'[x] = capture[x] /\ attempt'[x] = attempt[x]
<1> USE DEF TypeOK
<1>1. CASE attempt[e] + 1 < Attempts
  BY <1>1 DEF AttemptDone
<1>2. CASE ~(attempt[e] + 1 < Attempts)
  <2>1. Decide(e, frame, n)
    BY <1>2 DEF AttemptDone
  <2>2. ASSUME NEW r \in {"cancelled", "cameraUnavailable", "notEnoughFaces"},
               Return(e, r)
        PROVE  /\ capture'[e] \in Results
               /\ \A x \in Enrollments \ {e} :
                    capture'[x] = capture[x] /\ attempt'[x] = attempt[x]
    BY <2>2 DEF Return, Results
  <2>3. CASE \E r \in {"cancelled", "cameraUnavailable", "notEnoughFaces"} :
               Return(e, r)
    BY <2>2, <2>3 DEF Results
  <2>4. CASE /\ capture' = [capture EXCEPT ![e] = "saving"]
             /\ UNCHANGED attempt
    BY <2>4
  <2> QED
    BY <2>1, <2>3, <2>4 DEF Decide
<1> QED
  BY <1>1, <1>2

\* A step of the capture lowers the work left, and only its own.
LEMMA CapturingWorks ==
  ASSUME TypeOK, TypeOK', NEW e \in Enrollments, Capturing(e)
  PROVE  /\ ~Live(e)' \/ Work(e)' < Work(e)
         /\ \A x \in Enrollments \ {e} :
              capture'[x] = capture[x] /\ attempt'[x] = attempt[x]
<1>0. /\ attempt[e] \in Nat /\ attempt[e] <= Attempts - 1 /\ Attempts \in Nat
      /\ attempt'[e] \in Nat /\ attempt'[e] <= Attempts - 1
      /\ vectors[e] \in Nat
  BY EnrollmentAssumption DEF EnrollmentAssumption, TypeOK
<1>1. CASE Attempt(e)
  <2>1. CASE cancelled[e]
    BY <1>1, <2>1 DEF Attempt, Return, TypeOK, Live, Results
  <2>2. CASE ~cancelled[e]
    <3>1. /\ capture[e] = "attempting" /\ capture'[e] = "capturing"
          /\ attempt' = attempt
          /\ \A x \in Enrollments \ {e} : capture'[x] = capture[x]
      BY <1>1, <2>2 DEF Attempt, TypeOK
    <3> QED
      BY <1>0, <3>1 DEF Work
  <2> QED
    BY <2>1, <2>2
<1>2. CASE Frame(e)
  <2>1. /\ capture[e] = "capturing" /\ capture'[e] = "embedding"
        /\ attempt' = attempt
        /\ \A x \in Enrollments \ {e} : capture'[x] = capture[x]
    BY <1>2 DEF Frame, TypeOK
  <2> QED
    BY <1>0, <2>1 DEF Work
<1>3. ASSUME NEW frame \in BOOLEAN, NEW n \in Nat, capture[e] \in {"capturing", "embedding"},
             AttemptDone(e, frame, n)
      PROVE  /\ ~Live(e)' \/ Work(e)' < Work(e)
             /\ \A x \in Enrollments \ {e} :
                  capture'[x] = capture[x] /\ attempt'[x] = attempt[x]
  <2>1. /\ capture'[e] \in {"attempting", "saving"} \cup Results
        /\ capture'[e] = "attempting" => attempt'[e] = attempt[e] + 1
        /\ \A x \in Enrollments \ {e} :
             capture'[x] = capture[x] /\ attempt'[x] = attempt[x]
    BY <1>3, AttemptDoneWorks
  <2>2. CASE capture'[e] \in Results
    BY <2>1, <2>2 DEF Live
  <2>3. CASE capture'[e] = "attempting"
    BY <1>0, <1>3, <2>1, <2>3 DEF Work
  <2>4. CASE capture'[e] = "saving"
    BY <1>0, <1>3, <2>1, <2>4 DEF Work
  <2> QED
    BY <2>1, <2>2, <2>3, <2>4
<1>4. CASE NoFrame(e)
  <2>1. /\ capture[e] \in {"capturing", "embedding"}
        /\ AttemptDone(e, gotFrame[e], vectors[e])
        /\ gotFrame[e] \in BOOLEAN
    BY <1>4 DEF NoFrame, TypeOK
  <2> QED
    BY <1>0, <1>3, <2>1
<1>5. ASSUME NEW found \in BOOLEAN, Embedded(e, found)
      PROVE  /\ ~Live(e)' \/ Work(e)' < Work(e)
             /\ \A x \in Enrollments \ {e} :
                  capture'[x] = capture[x] /\ attempt'[x] = attempt[x]
  <2> DEFINE n == IF found THEN vectors[e] + 1 ELSE vectors[e]
  <2>1. /\ capture[e] \in {"capturing", "embedding"}
        /\ AttemptDone(e, TRUE, n)
    BY <1>5 DEF Embedded
  <2>2. n \in Nat
    BY <1>0
  <2> HIDE DEF n
  <2> QED
    BY <1>3, <2>1, <2>2
<1> QED
  BY <1>1, <1>2, <1>4, <1>5 DEF Capturing

\* So does a step of the save.
LEMMA SavingWorks ==
  ASSUME TypeOK, TypeOK', NEW e \in Enrollments, Saving(e)
  PROVE  /\ ~Live(e)' \/ Work(e)' < Work(e)
         /\ \A x \in Enrollments \ {e} :
              capture'[x] = capture[x] /\ attempt'[x] = attempt[x]
<1> USE DEF TypeOK
<1>1. ASSUME NEW p \in People, Save(e, p)
      PROVE  /\ capture[e] = "saving" /\ capture'[e] = "saved"
             /\ attempt' = attempt
             /\ \A x \in Enrollments \ {e} : capture'[x] = capture[x]
  BY <1>1 DEF Save
<1>2. ASSUME SaveFails(e) \/ SaveCached(e)
      PROVE  /\ ~Live(e)'
             /\ \A x \in Enrollments \ {e} :
                  capture'[x] = capture[x] /\ attempt'[x] = attempt[x]
  BY <1>2 DEF SaveFails, SaveCached, Return, Live, Results
<1> QED
  BY <1>1, <1>2 DEF Saving, Work

\* A capture in flight stays where it is, or has less work left, or is over.
LEMMA WorkStep ==
  ASSUME TypeOK, TypeOK', [Next]_vars, NEW e \in Enrollments, Live(e)
  PROVE  \/ ~Live(e)' \/ Work(e)' < Work(e)
         \/ capture'[e] = capture[e] /\ attempt'[e] = attempt[e]
<1>1. ASSUME NEW t \in Ticks, Recognize(t) \/ Recognition(t)
      PROVE  UNCHANGED <<capture, attempt>>
  BY <1>1
  DEF Recognize, Recognition, Read, Cache, Unrecognized, Present, Stranger, Ends,
      captures
<1>2. ASSUME NEW d \in Enrollments, Begin(d)
      PROVE  capture'[e] = capture[e] /\ attempt'[e] = attempt[e]
  BY <1>2 DEF Begin, TypeOK
<1>3. ASSUME NEW d \in Enrollments, Cancel(d) PROVE UNCHANGED <<capture, attempt>>
  BY <1>3 DEF Cancel
<1>4. ASSUME NEW d \in Enrollments, Capturing(d) \/ Saving(d)
      PROVE  \/ ~Live(e)' \/ Work(e)' < Work(e)
             \/ capture'[e] = capture[e] /\ attempt'[e] = attempt[e]
  <2>1. CASE d = e
    BY <1>4, <2>1, CapturingWorks, SavingWorks
  <2>2. CASE d # e
    BY <1>4, <2>2, CapturingWorks, SavingWorks
  <2> QED
    BY <2>1, <2>2
<1>5. ASSUME Reset \/ ResetCached \/ Header \/ ReadableFlips
      PROVE  UNCHANGED <<capture, attempt>>
  BY <1>5 DEF Reset, ResetCached, Header, ReadableFlips, captures
<1>6. CASE Relaunch
  BY <1>6 DEF Relaunch, Live, Results
<1>7. CASE UNCHANGED vars
  BY <1>7 DEF vars, captures
<1> QED
  BY <1>1, <1>2, <1>3, <1>4, <1>5, <1>6, <1>7 DEF Next

\* Whoever has the main actor keeps it through its own steps only.
LEMMA BusyStep ==
  ASSUME TypeOK, [Next]_vars, main # "idle"
  PROVE  \/ main' = "idle"
         \/ main' = main /\ UNCHANGED capture
         \/ \E d \in Enrollments : Saving(d)
<1>1. ASSUME NEW t \in Ticks, Recognize(t) \/ Recognition(t)
      PROVE  main' = main /\ UNCHANGED capture
  BY <1>1
  DEF Recognize, Recognition, Read, Cache, Unrecognized, Present, Stranger, Ends,
      captures, store
<1>2. ASSUME NEW e \in Enrollments, Begin(e) \/ Capturing(e) \/ Cancel(e) PROVE FALSE
  BY <1>2 DEF Begin, Capturing, Attempt, NoFrame, Frame, Embedded, Cancel
<1>3. CASE Reset \/ ResetCached \/ Header \/ ReadableFlips
  BY <1>3 DEF Reset, ResetCached, Header, ReadableFlips, captures
<1>4. CASE Relaunch
  BY <1>4 DEF Relaunch
<1>5. CASE UNCHANGED vars
  BY <1>5 DEF vars, captures, store
<1> QED
  BY <1>1, <1>2, <1>3, <1>4, <1>5 DEF Next

\* The two parts of a save.
LEMMA SaveStep ==
  ASSUME TypeOK, NEW e \in Enrollments, Saving(e)
  PROVE  /\ main = e
         /\ \/ main' = "idle"
            \/ capture[e] = "saving" /\ capture'[e] = "saved" /\ main' = main
<1>1. ASSUME NEW p \in People, Save(e, p)
      PROVE  /\ main = e /\ main' = main
             /\ capture[e] = "saving" /\ capture'[e] = "saved"
  BY <1>1 DEF Save, TypeOK
<1>2. ASSUME SaveFails(e) \/ SaveCached(e) PROVE main = e /\ main' = "idle"
  BY <1>2 DEF SaveFails, SaveCached
<1> QED
  BY <1>1, <1>2 DEF Saving

-----------------------------------------------------------------------------
\* An action whose guard holds is enabled: a premise, since the provers have no
\* rule for ENABLED.  TLC evaluates it in the states of a run.
DueIsEnabled ==
  /\ \A e \in Enrollments :
       /\ main = "idle" /\ InCapture(e) => ENABLED <<Capturing(e)>>_vars
       /\ InSave(e) => ENABLED <<Saving(e)>>_vars
  /\ main = "reset" => ENABLED <<ResetCached>>_vars
  /\ \A t \in Ticks : pc[t] = "failing" => ENABLED <<Recognition(t)>>_vars

\* The fairness of each call.
LEMMA CallsAreFair ==
  /\ Spec => \A e \in Enrollments : CaptureFair(e)
  /\ Spec => \A t \in Ticks : RecognitionFair(t)
BY PTL DEF Spec

\* Temporal formulas the provers are to take as names.
Freed == <>(main = "idle")
SaverFrees(e) == InSave(e) => Freed

\* No job keeps the main actor: a save and a reset that have begun are finished
\* (EnrollmentStore.swift:157-196).
THEOREM MainActorIsFreed == Spec /\ []DueIsEnabled => []<>(main = "idle")
<1>1. ASSUME NEW e \in Enrollments
      PROVE  Spec /\ []DueIsEnabled => []SaverFrees(e)
  <2> DEFINE Idle == main = "idle"
             First == capture[e] = "saving"
             Second == capture[e] = "saved"
  <2>1. /\ TypeOK /\ TypeOK' /\ [Next]_vars /\ First => First' \/ Second' \/ Idle'
        /\ TypeOK /\ TypeOK' /\ [Next]_vars /\ Second => Second' \/ Idle'
    <3> SUFFICES ASSUME TypeOK, TypeOK', [Next]_vars, First \/ Second
                 PROVE  \/ Idle' \/ capture'[e] = capture[e]
                        \/ First /\ Second'
      OBVIOUS
    <3>1. main = e /\ main # "idle" /\ "idle" \notin Enrollments
      BY EnrollmentAssumption DEF EnrollmentAssumption, TypeOK
    <3>2. ASSUME NEW d \in Enrollments, Saving(d)
          PROVE  Idle' \/ (First /\ Second')
      BY <3>1, <3>2, SaveStep
    <3> QED
      BY <3>1, <3>2, BusyStep
  <2>2. /\ TypeOK /\ First /\ <<Saving(e)>>_vars => Second' \/ Idle'
        /\ TypeOK /\ Second /\ <<Saving(e)>>_vars => Idle'
    BY SaveStep
  <2>3. DueIsEnabled /\ (First \/ Second) => ENABLED <<Saving(e)>>_vars
    BY DEF DueIsEnabled, InSave
  <2>4. InSave(e) => First \/ Second
    BY DEF InSave
  <2>5. Spec => CaptureFair(e)
    BY CallsAreFair
  <2> HIDE DEF Idle, First, Second
  <2>6. Spec /\ []DueIsEnabled => (Second ~> Idle)
    BY <2>1, <2>2, <2>3, <2>5, EnrollmentTypeCorrect, PTL DEF Spec, CaptureFair
  <2>7. Spec /\ []DueIsEnabled => (First ~> (Second \/ Idle))
    BY <2>1, <2>2, <2>3, <2>5, EnrollmentTypeCorrect, PTL DEF Spec, CaptureFair
  <2> QED
    BY <2>4, <2>6, <2>7, PTL DEF SaverFrees, Freed, Idle
<1>2. Spec /\ []DueIsEnabled => \A e \in Enrollments : []SaverFrees(e)
  BY <1>1
<1>3. (\A e \in Enrollments : []SaverFrees(e))
      => [](\A e \in Enrollments : SaverFrees(e))
  OBVIOUS
<1>4. (\A e \in Enrollments : SaverFrees(e))
      => ((\E e \in Enrollments : InSave(e)) => Freed)
  BY DEF SaverFrees
<1>5. TypeOK => \/ main = "idle" \/ main = "reset"
                \/ \E e \in Enrollments : InSave(e)
  BY DEF TypeOK, InSave
<1>6. Spec /\ []DueIsEnabled => (main = "reset" ~> main = "idle")
  <2>1. TypeOK /\ main = "reset" /\ [Next]_vars => (main = "reset")' \/ (main = "idle")'
    <3> SUFFICES ASSUME TypeOK, main = "reset", [Next]_vars
                 PROVE  main' = "reset" \/ main' = "idle"
      OBVIOUS
    <3>1. ASSUME NEW d \in Enrollments, Saving(d) PROVE FALSE
      BY <3>1, SaveStep, EnrollmentAssumption DEF EnrollmentAssumption
    <3> QED
      BY <3>1, BusyStep
  <2>2. <<ResetCached>>_vars => (main = "idle")'
    BY DEF ResetCached
  <2>3. DueIsEnabled /\ main = "reset" => ENABLED <<ResetCached>>_vars
    BY DEF DueIsEnabled
  <2> QED
    BY <2>1, <2>2, <2>3, EnrollmentTypeCorrect, PTL DEF Spec
<1> QED
  BY <1>2, <1>3, <1>4, <1>5, <1>6, EnrollmentTypeCorrect, PTL DEF Freed

\* A capture with at most k steps of work left; that it is over in the end, as
\* names for the provers.
Within(e, k) == Live(e) /\ Work(e) <= k
Over(e) == <>~Live(e)
Finishes(e, k) == [](Within(e, k) => Over(e))

\* The induction step of EnrollReturns, for any number of attempts: a capture
\* that finishes from k steps of work finishes from k + 1, since it gets on,
\* waiting for the camera, for the embedder and for the main actor, and since
\* nothing adds to its work (Enrollment.swift:60-112).
THEOREM EnrollmentGetsOn ==
  ASSUME NEW e \in Enrollments, NEW k \in Nat
  PROVE  Spec /\ []DueIsEnabled => (Finishes(e, k) => Finishes(e, k + 1))
<1> DEFINE Gone == ~Live(e)
           InC == InCapture(e) /\ Work(e) = k + 1
           InS == InSave(e) /\ Work(e) = k + 1
           Less == Within(e, k)
           Idle == main = "idle"
<1>0. TypeOK' => (Work(e) \in Nat)'
  <2>1. TypeOK => Work(e) \in Nat
    BY StageTyped
  <2> QED
    BY <2>1, PTL
<1>1. TypeOK => (Within(e, k + 1) => Less \/ InC \/ InS)
  BY StageTyped DEF Within
<1>2. /\ TypeOK /\ TypeOK' /\ [Next]_vars /\ InC => InC' \/ Less' \/ Gone'
      /\ TypeOK /\ TypeOK' /\ [Next]_vars /\ InS => InS' \/ Less' \/ Gone'
  <2> SUFFICES ASSUME TypeOK, TypeOK', [Next]_vars, Live(e), Work(e) = k + 1,
                      Live(e)'
               PROVE  \/ Work(e)' <= k
                      \/ capture'[e] = capture[e] /\ attempt'[e] = attempt[e]
    BY StageTyped DEF Within, InCapture, InSave, Work
  <2>1. Work(e)' < Work(e) => Work(e)' <= k
    BY <1>0
  <2> QED
    BY <2>1, WorkStep
<1>3. /\ TypeOK /\ TypeOK' /\ InC /\ <<Capturing(e)>>_vars => Less' \/ Gone'
      /\ TypeOK /\ TypeOK' /\ InS /\ <<Saving(e)>>_vars => Less' \/ Gone'
  <2> SUFFICES ASSUME TypeOK, TypeOK', Work(e) = k + 1, Live(e)',
                      Work(e)' < Work(e)
               PROVE  Work(e)' <= k
    BY CapturingWorks, SavingWorks DEF Within
  <2> QED
    BY <1>0
<1>4. /\ DueIsEnabled /\ InC /\ Idle => ENABLED <<Capturing(e)>>_vars
      /\ DueIsEnabled /\ InS => ENABLED <<Saving(e)>>_vars
  BY DEF DueIsEnabled
<1>5. Spec => CaptureFair(e)
  BY CallsAreFair
<1>6. Spec => []TypeOK
  BY EnrollmentTypeCorrect
<1>7. Spec /\ []DueIsEnabled => []<>Idle
  BY MainActorIsFreed
<1> HIDE DEF Gone, InC, InS, Less, Idle
<1>8. Spec /\ []DueIsEnabled => (InC ~> (Less \/ Gone))
  BY <1>2, <1>3, <1>4, <1>5, <1>6, <1>7, PTL DEF Spec, CaptureFair
<1>9. Spec /\ []DueIsEnabled => (InS ~> (Less \/ Gone))
  BY <1>2, <1>3, <1>4, <1>5, <1>6, PTL DEF Spec, CaptureFair
<1> QED
  BY <1>1, <1>6, <1>8, <1>9, PTL DEF Finishes, Over, Less, Gone

\* A capture has at most three steps an attempt and three more, so it is over
\* once that many rounds of the above are put together.  Here they are for up to
\* a thousand attempts -- the program has ten (Enrollment.swift:44): enroll()
\* returns, for any number of people, of recognitions and of captures in flight.
THEOREM EnrollReturnsHolds ==
  ASSUME Attempts <= 1000
  PROVE  Spec /\ []DueIsEnabled => EnrollReturns
<1>1. ASSUME NEW e \in Enrollments
      PROVE  Spec /\ []DueIsEnabled => Live(e) ~> ~Live(e)
  <2>1. Spec /\ []DueIsEnabled => Finishes(e, 0)
    <3>1. TypeOK => ~Within(e, 0)
      BY StageTyped DEF Within
    <3> QED
      BY <3>1, EnrollmentTypeCorrect, PTL DEF Finishes
  <2>2. \A k \in Nat :
          Spec /\ []DueIsEnabled => (Finishes(e, k) => Finishes(e, k + 1))
    BY EnrollmentGetsOn
  <2>3. Spec /\ []DueIsEnabled => Finishes(e, 4096)
    <3> DEFINE Rounds(n) == \A k \in Nat :
                 Spec /\ []DueIsEnabled => (Finishes(e, k) => Finishes(e, k + n))
    <3>1. Rounds(8)
      BY <2>2
    <3>2. Rounds(64)
      BY <3>1
    <3>3. Rounds(512)
      BY <3>2
    <3>4. Rounds(4096)
      BY <3>3
    <3> QED
      BY <2>1, <3>4
  <2>4. TypeOK => (Live(e) => Within(e, 4096))
    BY StageTyped DEF Within
  <2> QED
    BY <2>3, <2>4, EnrollmentTypeCorrect, PTL DEF Finishes, Over
<1> QED
  BY <1>1 DEF EnrollReturns

\* A transient failure heals, call by call and so for any number of calls: once
\* the Keychain answers for good, no recognition fails on the store any more,
\* since a failed read never reaches the cache (EnrollmentStore.swift:74,100-101).
THEOREM UnavailabilityHealsPerCall ==
  ASSUME NEW t \in Ticks
  PROVE  Spec /\ []DueIsEnabled => (<>[]readable => <>[](pc[t] # "failing"))
<1> DEFINE Healthy == pc[t] # "failing"
<1>1. TypeOK /\ readable /\ Healthy /\ [Next]_vars => Healthy'
  <2> SUFFICES ASSUME TypeOK, readable, Healthy, [Next]_vars PROVE Healthy'
    OBVIOUS
  <2> USE DEF TypeOK
  <2>1. cached # "unavailable"
    BY EnrollmentAssumption DEF EnrollmentAssumption, Contents
  <2>2. ASSUME NEW x \in Ticks, Recognize(x) PROVE Healthy'
    BY <2>1, <2>2 DEF Recognize
  <2>3. ASSUME NEW x \in Ticks, Recognition(x) PROVE Healthy'
    <3>1. CASE Read(x)
      BY <3>1 DEF Read
    <3>2. CASE Cache(x)
      BY <3>2 DEF Cache
    <3>3. CASE Ends(x)
      BY <3>3 DEF Ends
    <3> QED
      BY <2>3, <3>1, <3>2, <3>3 DEF Recognition, Unrecognized, Present, Stranger
  <2>4. ASSUME NEW e \in Enrollments, Begin(e) \/ Capturing(e) \/ Cancel(e) \/ Saving(e)
        PROVE  pc' = pc
    BY <2>4
    DEF Begin, Capturing, Attempt, NoFrame, Frame, Embedded, Cancel, Saving, Save,
        SaveFails, SaveCached, calls
  <2>5. CASE Reset \/ ResetCached \/ Header \/ ReadableFlips
    BY <2>5 DEF Reset, ResetCached, Header, ReadableFlips, calls
  <2>6. CASE Relaunch
    BY <2>6 DEF Relaunch
  <2>7. CASE UNCHANGED vars
    BY <2>7 DEF vars, calls
  <2> QED
    BY <2>2, <2>3, <2>4, <2>5, <2>6, <2>7 DEF Next
<1>2. TypeOK /\ <<Recognition(t)>>_vars /\ ~Healthy => Healthy'
  <2> SUFFICES ASSUME TypeOK, Recognition(t), ~Healthy PROVE Ends(t)
    BY DEF Ends, TypeOK
  <2> QED
    BY DEF Recognition, Read, Cache, Unrecognized, Present, Stranger
<1>3. DueIsEnabled /\ ~Healthy => ENABLED <<Recognition(t)>>_vars
  BY DEF DueIsEnabled
<1>4. Spec => RecognitionFair(t)
  BY CallsAreFair
<1> HIDE DEF Healthy
<1>5. Spec /\ []DueIsEnabled => (<>[]readable => <>[]Healthy)
  BY <1>1, <1>2, <1>3, <1>4, EnrollmentTypeCorrect, PTL DEF Spec, RecognitionFair
<1> QED
  BY <1>5 DEF Healthy

=============================================================================
