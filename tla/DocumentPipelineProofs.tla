------------------------ MODULE DocumentPipelineProofs ------------------------
(***************************************************************************)
(* Proofs about DocumentPipeline, for any number of sessions, workers,     *)
(* contents and versions: what can be downloaded is what was scanned and   *)
(* announced, and a verdict is final.                                      *)
(***************************************************************************)
EXTENDS DocumentPipeline, FiniteSetTheorems, TLAPS

\* A document came out of its completed session and points at a stored version;
\* one that passed has a version id.
Pinned ==
  \A d \in Sessions : documents[d] # None =>
    /\ sessions[d] = "UPLOADED"
    /\ documents[d].version <= Len(objects[d])
    /\ documents[d].status = "CLEAN" => documents[d].version # 0

\* A worker holds a document that still waits for its verdict, and has read the
\* pinned version of it.
Held ==
  \A w \in Workers : scanning[w] # None =>
    LET d == scanning[w].document
    IN  /\ documents[d] # None
        /\ documents[d].status = "QUARANTINED"
        /\ ~documents[d].terminal
        /\ documents[d].version # 0
        /\ scanning[w].content = objects[d][documents[d].version]

\* The row lock: no two workers hold one document.
OneHolder ==
  \A v, w \in Workers :
    scanning[v] # None /\ scanning[w] # None /\ scanning[v].document = scanning[w].document => v = w

Queued == \A i \in DOMAIN queue : documents[queue[i]] # None

\* A document that may still be scanned has an attempt left.
AttemptsLeft ==
  \A d \in Sessions :
    documents[d] # None /\ documents[d].status = "QUARANTINED" /\ ~documents[d].terminal =>
      documents[d].attempts < MaxAttempts

Inductive ==
  TypeOK /\ Pinned /\ Held /\ OneHolder /\ Queued /\ AttemptsLeft /\ DownloadedIsScanned

\* What VerdictIsFinal says of one step.
KeepsVerdicts ==
  \A d \in Sessions :
    documents[d] # None /\ documents[d].status # "QUARANTINED" => documents'[d] = documents[d]

-----------------------------------------------------------------------------
\* The legacy documents Init begins with.
LEMMA InitIsInductive == Init => Inductive
<1> SUFFICES ASSUME Init PROVE Inductive
  OBVIOUS
<1>1. Cardinality(Legacy) \in Nat
  BY FS_CardinalityType, PipelineAssumption DEF PipelineAssumption
<1>2. queue \in Seq(Legacy)
  BY <1>1 DEF Init, SetToSeqs
<1>3. \A s \in Sessions : objects[s] \in Seq(Contents) /\ Len(objects[s]) <= 1
  <2> SUFFICES ASSUME NEW s \in Sessions
               PROVE  objects[s] \in Seq(Contents) /\ Len(objects[s]) <= 1
    OBVIOUS
  <2>1. objects[s] \in UNION {[1 .. m -> Contents] : m \in 0 .. 1}
    BY DEF Init, BoundedSeq, SeqOf
  <2>2. PICK m \in 0 .. 1 : objects[s] \in [1 .. m -> Contents]
    BY <2>1
  <2> QED
    BY <2>2
<1>4. \A s \in Legacy : Len(objects[s]) # 0
  BY <1>3, PipelineAssumption DEF Init, PipelineAssumption
<1>5. \A s \in Legacy : objects[s][1] \in Contents
  BY <1>3, <1>4, PipelineAssumption DEF PipelineAssumption
<1>6. \A s \in Legacy : Quarantined(0, objects[s][1]) \in Documents
  BY <1>5, PipelineAssumption DEF Quarantined, Documents, PipelineAssumption
<1>7. objects \in [Sessions -> Seq(Contents)]
  BY <1>3 DEF Init
<1>8. TypeOK
  BY <1>2, <1>3, <1>6, <1>7, PipelineAssumption DEF Init, TypeOK, SessionStatuses, PipelineAssumption
<1>9. \A d \in Sessions : documents[d] # None => d \in Legacy /\ documents[d] = Quarantined(0, objects[d][1])
  BY DEF Init
<1>10. \A d \in Legacy : documents[d] # None
  BY <1>6, NoneIsNoRow, PipelineAssumption DEF Init, NoneIsNoRow, PipelineAssumption
<1>11. Pinned /\ AttemptsLeft /\ DownloadedIsScanned
  <2>1. \A d \in Sessions : documents[d] # None =>
          /\ documents[d].version = 0 /\ documents[d].attempts = 0
          /\ documents[d].status = "QUARANTINED" /\ sessions[d] = "UPLOADED"
    BY <1>9 DEF Init, Quarantined
  <2>2. \A d \in Sessions : 0 <= Len(objects[d])
    BY <1>3
  <2> QED
    BY <2>1, <2>2, PipelineAssumption
       DEF Pinned, AttemptsLeft, DownloadedIsScanned, Downloadable, PipelineAssumption
<1>12. Held /\ OneHolder
  BY DEF Init, Held, OneHolder
<1>13. Queued
  BY <1>2, <1>10 DEF Queued
<1> QED
  BY <1>8, <1>11, <1>12, <1>13 DEF Inductive

-----------------------------------------------------------------------------
(* Upload.                                                                 *)

\* A further version leaves the stored ones as they are.
LEMMA PutPreserves ==
  ASSUME Inductive, NEW s \in Sessions, NEW content \in Contents, Put(s, content)
  PROVE  Inductive' /\ KeepsVerdicts
<1>1. objects[s] \in Seq(Contents) /\ Len(objects[s]) \in Nat /\ MaxVersions \in Nat
  BY PipelineAssumption DEF Inductive, TypeOK, PipelineAssumption
<1>2. objects' = [objects EXCEPT ![s] = Append(objects[s], content)]
  BY DEF Put
<1>3. objects' \in [Sessions -> Seq(Contents)]
  BY <1>1, <1>2 DEF Inductive, TypeOK
<1>4. /\ Len(objects'[s]) = Len(objects[s]) + 1
      /\ \A i \in 1 .. Len(objects[s]) : objects'[s][i] = objects[s][i]
      /\ \A d \in Sessions : d # s => objects'[d] = objects[d]
  BY <1>1, <1>2 DEF Inductive, TypeOK
<1>5. \A d \in Sessions : documents[d] # None =>
        documents[d].version \in Nat /\ documents[d].version <= Len(objects[d])
  BY DEF Inductive, Pinned, TypeOK, Documents
<1>6. \A d \in Sessions : documents[d] # None /\ documents[d].version # 0 =>
        objects'[d][documents[d].version] = objects[d][documents[d].version]
  BY <1>1, <1>4, <1>5
<1>7. TypeOK'
  BY <1>1, <1>3, <1>4 DEF Inductive, TypeOK, Put
<1>8. Pinned'
  <2>1. \A d \in Sessions : Len(objects[d]) \in Nat /\ Len(objects[d]) <= Len(objects'[d])
    <3>1. \A d \in Sessions : Len(objects[d]) \in Nat
      BY DEF Inductive, TypeOK
    <3> QED
      BY <1>4, <3>1
  <2>2. \A d \in Sessions : Len(objects'[d]) \in Nat
    BY <1>3
  <2>3. \A d \in Sessions : documents[d] # None => documents[d].version <= Len(objects'[d])
    BY <1>5, <2>1, <2>2
  <2> QED
    BY <2>3 DEF Inductive, Pinned, Put
<1>9. Held'
  BY <1>6 DEF Inductive, TypeOK, Held, Put, Scans
<1>10. DownloadedIsScanned'
  BY <1>6 DEF Inductive, Pinned, DownloadedIsScanned, Downloadable, Put
<1> QED
  BY <1>7, <1>8, <1>9, <1>10
     DEF Inductive, OneHolder, Queued, AttemptsLeft, KeepsVerdicts, Put

\* The version that is pinned is stored, and no document was made before.
LEMMA CompletionPreserves ==
  ASSUME Inductive, NEW s \in Sessions, NEW sha256 \in Contents,
         complete_document_upload_session(s, sha256)
  PROVE  Inductive' /\ KeepsVerdicts
<1> DEFINE new == Quarantined(Len(objects[s]), sha256)
<1>1. documents[s] = None
  BY DEF complete_document_upload_session, Inductive, Pinned
<1>2. Len(objects[s]) \in 0 .. MaxVersions /\ Len(objects[s]) # 0
  BY PipelineAssumption DEF Inductive, TypeOK, PipelineAssumption, complete_document_upload_session
<1>3. new \in Documents /\ new # None
  <2>1. 0 \in 0 .. MaxAttempts
    BY PipelineAssumption DEF PipelineAssumption
  <2>2. new \in Documents
    BY <1>2, <2>1 DEF Quarantined, Documents
  <2> QED
    BY <2>2, NoneIsNoRow DEF NoneIsNoRow
<1>4. /\ documents'[s] = new
      /\ \A d \in Sessions : d # s => documents'[d] = documents[d]
  BY DEF complete_document_upload_session, Inductive, TypeOK
<1>5. new.version = Len(objects[s]) /\ new.status = "QUARANTINED" /\ new.attempts = 0
  BY DEF Quarantined
<1> HIDE DEF new
<1>6. queue' = Append(queue, s) /\ queue \in Seq(Sessions)
  BY DEF complete_document_upload_session, Inductive, TypeOK
<1>7. TypeOK'
  <2>1. documents' = [documents EXCEPT ![s] = new]
    BY DEF complete_document_upload_session, new
  <2> QED
    BY <1>3, <1>6, <2>1 DEF Inductive, TypeOK, complete_document_upload_session, SessionStatuses
<1>8. Pinned'
  <2>1. sessions' = [sessions EXCEPT ![s] = "UPLOADED"] /\ objects' = objects
    BY DEF complete_document_upload_session
  <2> QED
    BY <1>2, <1>4, <1>5, <2>1 DEF Inductive, TypeOK, Pinned
<1>9. Held' /\ OneHolder'
  BY <1>1, <1>4 DEF Inductive, TypeOK, Held, OneHolder, Scans, complete_document_upload_session
<1>10. Queued'
  BY <1>3, <1>4, <1>6 DEF Inductive, Queued
<1>11. AttemptsLeft' /\ DownloadedIsScanned' /\ KeepsVerdicts
  BY <1>1, <1>4, <1>5, PipelineAssumption
     DEF Inductive, AttemptsLeft, DownloadedIsScanned, Downloadable, KeepsVerdicts,
         complete_document_upload_session, PipelineAssumption
<1> QED
  BY <1>7, <1>8, <1>9, <1>10, <1>11 DEF Inductive

\* The rest of the borrower's steps touch no document and no stored bytes.
LEMMA SessionPreserves ==
  ASSUME Inductive, NEW s \in Sessions,
         create_document_upload_session(s) \/ Expire(s) \/ complete_expired_session(s)
  PROVE  Inductive' /\ KeepsVerdicts
<1>1. UNCHANGED <<objects, documents, queue, scanning, delayed, reported>>
  BY DEF create_document_upload_session, Expire, complete_expired_session
<1>2. TypeOK'
  BY DEF Inductive, TypeOK, create_document_upload_session, Expire, complete_expired_session,
         SessionStatuses
<1>3. Pinned'
  BY DEF Inductive, TypeOK, Pinned, create_document_upload_session, Expire, complete_expired_session
<1> QED
  BY <1>1, <1>2, <1>3
     DEF Inductive, Held, OneHolder, Queued, AttemptsLeft, DownloadedIsScanned, Downloadable, KeepsVerdicts

-----------------------------------------------------------------------------
(* Scan.                                                                   *)

\* An eligible document is locked by nobody, and its pinned version is read.
LEMMA StartPreserves ==
  ASSUME Inductive, NEW w \in Workers, NEW i \in DOMAIN queue,
         scan_pending_document(w, queue[i])
  PROVE  Inductive' /\ KeepsVerdicts
<1> DEFINE d == queue[i]
<1> DEFINE scan == [document |-> d, content |-> objects[d][documents[d].version]]
<1>1. d \in Sessions /\ documents[d] # None
  BY DEF Inductive, TypeOK, Queued
<1>2. /\ documents[d] \in Documents
      /\ documents[d].status = "QUARANTINED" /\ ~documents[d].terminal
      /\ documents[d].version # 0
      /\ \A v \in Workers : scanning[v] # None => scanning[v].document # d
  BY <1>1 DEF Inductive, TypeOK, scan_pending_document, Oldest, Eligible, Locked, Scanning
<1>3. documents[d].version \in 1 .. Len(objects[d])
  BY <1>1, <1>2 DEF Inductive, TypeOK, Pinned, Documents
<1>4. scan \in Scans /\ scan # None
  <2>1. scan \in Scans
    BY <1>1, <1>3 DEF Scans, Inductive, TypeOK
  <2> QED
    BY <2>1, NoneIsNoRow DEF NoneIsNoRow
<1>5. /\ scanning' = [scanning EXCEPT ![w] = scan]
      /\ UNCHANGED <<sessions, expired, objects, documents, queue, delayed, reported>>
  BY DEF scan_pending_document, storage
<1>6. scan.document = d /\ scan.content = objects[d][documents[d].version]
  OBVIOUS
<1> HIDE DEF scan, d
<1>7. TypeOK'
  BY <1>4, <1>5 DEF Inductive, TypeOK
<1>8. /\ scanning'[w] = scan
      /\ \A v \in Workers : v # w => scanning'[v] = scanning[v]
  BY <1>5 DEF Inductive, TypeOK
<1>9. Held'
  BY <1>1, <1>2, <1>5, <1>6, <1>8 DEF Inductive, Held
<1>10. OneHolder'
  BY <1>2, <1>6, <1>8 DEF Inductive, OneHolder
<1> QED
  BY <1>5, <1>7, <1>9, <1>10
     DEF Inductive, Pinned, Queued, AttemptsLeft, DownloadedIsScanned, Downloadable, KeepsVerdicts

\* A document without a version id was never read, so it can only be given up.
LEMMA ReuploadPreserves ==
  ASSUME Inductive, NEW w \in Workers, NEW i \in DOMAIN queue, reupload_required(w, queue[i])
  PROVE  Inductive' /\ KeepsVerdicts
<1> DEFINE d == queue[i]
<1> DEFINE new == [documents[d] EXCEPT !.status = "REUPLOAD_REQUIRED", !.attempts = @ + 1]
<1>1. d \in Sessions /\ documents[d] # None
  BY DEF Inductive, TypeOK, Queued
<1>2. /\ documents[d] \in Documents
      /\ documents[d].status = "QUARANTINED" /\ ~documents[d].terminal
      /\ \A v \in Workers : scanning[v] # None => scanning[v].document # d
  BY <1>1 DEF Inductive, TypeOK, reupload_required, Oldest, Eligible, Locked, Scanning
<1>3. documents[d].attempts + 1 \in 0 .. MaxAttempts
  BY <1>1, <1>2, PipelineAssumption DEF Inductive, AttemptsLeft, Documents, PipelineAssumption
<1>4. new \in Documents /\ new # None
  <2>1. new \in Documents
    BY <1>2, <1>3 DEF Documents
  <2> QED
    BY <2>1, NoneIsNoRow DEF NoneIsNoRow
<1>5. new.status = "REUPLOAD_REQUIRED" /\ new.version = documents[d].version
  BY <1>2 DEF Documents
<1>6. /\ documents' = [documents EXCEPT ![d] = new]
      /\ UNCHANGED <<sessions, expired, objects, queue, delayed, scanning>>
      /\ reported' = reported \union {d}
  BY <1>1, <1>2 DEF reupload_required, storage, Inductive, TypeOK
<1> HIDE DEF new, d
<1>7. TypeOK'
  BY <1>1, <1>4, <1>6 DEF Inductive, TypeOK
<1>8. /\ documents'[d] = new
      /\ \A c \in Sessions : c # d => documents'[c] = documents[c]
  BY <1>1, <1>6 DEF Inductive, TypeOK
<1>9. Pinned' /\ Queued' /\ AttemptsLeft' /\ DownloadedIsScanned' /\ KeepsVerdicts
  BY <1>1, <1>2, <1>4, <1>5, <1>6, <1>8
     DEF Inductive, Pinned, Queued, AttemptsLeft, DownloadedIsScanned, Downloadable, KeepsVerdicts
<1>10. Held' /\ OneHolder'
  BY <1>2, <1>6, <1>8 DEF Inductive, TypeOK, Held, OneHolder, Scans
<1> QED
  BY <1>7, <1>9, <1>10 DEF Inductive

\* The end of a scan: only the document the worker holds gets an outcome, and it
\* is CLEAN only for the bytes that were read.
LEMMA EndPreserves ==
  ASSUME Inductive, NEW w \in Workers, scanning[w] # None,
         NEW status \in {"QUARANTINED", "CLEAN", "REJECTED"}, NEW terminal \in BOOLEAN,
         End(w, Scanned(w, status, terminal)),
         delayed' \subseteq Sessions, reported' \subseteq Sessions,
         status = "QUARANTINED" =>
           terminal \/ documents[scanning[w].document].attempts + 1 < MaxAttempts,
         status = "CLEAN" => Matches(w) /\ scanning[w].content \notin Infected
  PROVE  Inductive' /\ KeepsVerdicts
<1> DEFINE d == scanning[w].document
<1> DEFINE new == Scanned(w, status, terminal)
<1>1. /\ d \in Sessions /\ scanning[w] \in Scans
      /\ documents[d] # None /\ documents[d] \in Documents
      /\ documents[d].status = "QUARANTINED" /\ ~documents[d].terminal
      /\ documents[d].version # 0
      /\ scanning[w].content = objects[d][documents[d].version]
  BY DEF Inductive, TypeOK, Held, Scans
<1>2. documents[d].attempts + 1 \in 0 .. MaxAttempts
  BY <1>1, PipelineAssumption DEF Inductive, AttemptsLeft, Documents, PipelineAssumption
<1>3. new \in Documents /\ new # None
  <2>1. new \in Documents
    BY <1>1, <1>2 DEF Documents, Scanned
  <2> QED
    BY <2>1, NoneIsNoRow DEF NoneIsNoRow
<1>4. /\ new.version = documents[d].version /\ new.sha256 = documents[d].sha256
      /\ new.status = status /\ new.terminal = terminal
      /\ new.attempts = documents[d].attempts + 1
  BY <1>1 DEF Scanned, Documents
<1>5. /\ documents' = [documents EXCEPT ![d] = new]
      /\ scanning' = [scanning EXCEPT ![w] = None]
      /\ UNCHANGED <<sessions, expired, objects, queue>>
  BY DEF End
<1>6. status = "CLEAN" => scanning[w].content = documents[d].sha256 /\ scanning[w].content \notin Infected
  BY DEF Matches
<1>7. status = "QUARANTINED" => terminal \/ documents[d].attempts + 1 < MaxAttempts
  OBVIOUS
<1> HIDE DEF new, d
<1>8. TypeOK'
  BY <1>1, <1>3, <1>5 DEF Inductive, TypeOK
<1>9. /\ documents'[d] = new
      /\ \A c \in Sessions : c # d => documents'[c] = documents[c]
      /\ scanning'[w] = None
      /\ \A v \in Workers : v # w => scanning'[v] = scanning[v]
  BY <1>1, <1>5 DEF Inductive, TypeOK
<1>10. Pinned' /\ Queued' /\ AttemptsLeft' /\ KeepsVerdicts
  BY <1>1, <1>3, <1>4, <1>5, <1>7, <1>9
     DEF Inductive, Pinned, Queued, AttemptsLeft, KeepsVerdicts
<1>11. DownloadedIsScanned'
  BY <1>1, <1>4, <1>5, <1>6, <1>9 DEF Inductive, DownloadedIsScanned, Downloadable
<1>12. OneHolder'
  BY <1>9 DEF Inductive, OneHolder
<1>13. \A v \in Workers : v # w /\ scanning[v] # None => scanning[v].document # d /\ scanning[v].document \in Sessions
  BY DEF Inductive, TypeOK, OneHolder, Scans, d
<1>14. Held'
  BY <1>5, <1>9, <1>13 DEF Inductive, Held
<1> QED
  BY <1>8, <1>10, <1>11, <1>12, <1>14 DEF Inductive

LEMMA FinishPreserves ==
  ASSUME Inductive, NEW w \in Workers,
         checksum_mismatch(w) \/ scan_clean(w) \/ scan_infected(w) \/ provider_failed(w)
  PROVE  Inductive' /\ KeepsVerdicts
<1> DEFINE d == scanning[w].document
<1>1. scanning[w] # None
  BY DEF checksum_mismatch, scan_clean, scan_infected, provider_failed, Readable
<1>2. /\ d \in Sessions /\ documents[d] \in Documents
      /\ delayed \subseteq Sessions /\ reported \subseteq Sessions
  BY <1>1 DEF Inductive, TypeOK, Held, Scans
<1>3. CASE checksum_mismatch(w)
  <2>1. End(w, Scanned(w, "REJECTED", TRUE)) /\ delayed' \subseteq Sessions /\ reported' \subseteq Sessions
    BY <1>2, <1>3 DEF checksum_mismatch
  <2> QED
    BY <1>1, <2>1, EndPreserves
<1>4. CASE scan_clean(w)
  <2>1. /\ End(w, Scanned(w, "CLEAN", FALSE)) /\ delayed' \subseteq Sessions /\ reported' \subseteq Sessions
        /\ Matches(w) /\ scanning[w].content \notin Infected
    BY <1>2, <1>4 DEF scan_clean
  <2> QED
    BY <1>1, <2>1, EndPreserves
<1>5. CASE scan_infected(w)
  <2>1. End(w, Scanned(w, "REJECTED", FALSE)) /\ delayed' \subseteq Sessions /\ reported' \subseteq Sessions
    BY <1>2, <1>5 DEF scan_infected
  <2> QED
    BY <1>1, <2>1, EndPreserves
<1>6. CASE provider_failed(w)
  <2> DEFINE last == documents[d].attempts + 1 >= MaxAttempts
  <2>1. /\ End(w, Scanned(w, "QUARANTINED", last)) /\ last \in BOOLEAN
        /\ delayed' \subseteq Sessions /\ reported' \subseteq Sessions
    BY <1>2, <1>6 DEF provider_failed
  <2>2. last \/ documents[d].attempts + 1 < MaxAttempts
    BY <1>2, PipelineAssumption DEF Documents, PipelineAssumption
  <2> HIDE DEF last
  <2> QED
    BY <1>1, <2>1, <2>2, EndPreserves
<1> QED
  BY <1>3, <1>4, <1>5, <1>6

\* A scan that leaves no trace, and the time that passes.
LEMMA RestPreserves ==
  ASSUME Inductive,
         \/ \E w \in Workers : body_read_raises(w) \/ Stop(w)
         \/ \E d \in Sessions : Due(d)
         \/ UNCHANGED vars
  PROVE  Inductive' /\ KeepsVerdicts
<1>1. CASE (\E d \in Sessions : Due(d)) \/ UNCHANGED vars
  BY <1>1 DEF Due, vars, storage, Inductive, TypeOK, Pinned, Held, OneHolder, Queued, AttemptsLeft,
              DownloadedIsScanned, Downloadable, KeepsVerdicts
<1>2. ASSUME NEW w \in Workers, body_read_raises(w) \/ Stop(w)
      PROVE  Inductive' /\ KeepsVerdicts
  <2>1. /\ scanning' = [scanning EXCEPT ![w] = None]
        /\ UNCHANGED <<sessions, expired, objects, documents, queue, delayed, reported>>
    BY <1>2 DEF body_read_raises, Stop, storage
  <2>2. TypeOK'
    BY <2>1 DEF Inductive, TypeOK
  <2>3. /\ scanning'[w] = None
        /\ \A v \in Workers : v # w => scanning'[v] = scanning[v]
    BY <2>1 DEF Inductive, TypeOK
  <2>4. Held' /\ OneHolder'
    BY <2>1, <2>3 DEF Inductive, Held, OneHolder
  <2> QED
    BY <2>1, <2>2, <2>4 DEF Inductive, Pinned, Queued, AttemptsLeft, DownloadedIsScanned,
       Downloadable, KeepsVerdicts
<1> QED
  BY <1>1, <1>2

LEMMA StepPreserves == ASSUME Inductive, [Next]_vars PROVE Inductive' /\ KeepsVerdicts
<1>1. ASSUME NEW s \in Sessions, Borrower(s)
      PROVE  Inductive' /\ KeepsVerdicts
  BY <1>1, PutPreserves, CompletionPreserves, SessionPreserves DEF Borrower
<1>2. ASSUME NEW w \in Workers, Start(w)
      PROVE  Inductive' /\ KeepsVerdicts
  BY <1>2, StartPreserves, ReuploadPreserves DEF Start
<1>3. ASSUME NEW w \in Workers, Finish(w)
      PROVE  Inductive' /\ KeepsVerdicts
  BY <1>3, FinishPreserves, RestPreserves DEF Finish
<1> QED
  BY <1>1, <1>2, <1>3, RestPreserves DEF Next

LEMMA Invariance == Spec => []Inductive
BY InitIsInductive, StepPreserves, PTL DEF Spec

-----------------------------------------------------------------------------
\* Type correctness of the pipeline; a document is attempted MaxAttempts times
\* at most.
THEOREM TypeCorrect == Spec => []TypeOK
BY Invariance, PTL DEF Inductive

\* complete_document_upload_session and scan_pending_document: what can be
\* downloaded is what was scanned and announced, whatever the borrower stores
\* before and after.
THEOREM DownloadsAreScanned == Spec => []DownloadedIsScanned
BY Invariance, PTL DEF Inductive

\* scan_pending_document: no retry, second worker or later version changes a
\* verdict.
THEOREM VerdictsAreFinal == Spec => VerdictIsFinal
BY Invariance, StepPreserves, PTL DEF VerdictIsFinal, KeepsVerdicts, Spec

\* A document is given up in the transaction that reports it, and no other step
\* ends the waiting of one that is not reported.
LEMMA ReportPreserves ==
  ASSUME Inductive, Inductive', GivenUpIsReported, [Next]_vars
  PROVE  GivenUpIsReported'
<1> USE DEF Inductive, TypeOK
<1>1. ASSUME NEW s \in Sessions, Borrower(s)
      PROVE  GivenUpIsReported'
  <2>1. ASSUME NEW sha256 \in Contents, complete_document_upload_session(s, sha256)
        PROVE  GivenUpIsReported'
    BY <2>1 DEF complete_document_upload_session, Quarantined, GivenUpIsReported
  <2>2. ASSUME UNCHANGED <<documents, reported>>
        PROVE  GivenUpIsReported'
    BY <2>2 DEF GivenUpIsReported
  <2> QED
    BY <1>1, <2>1, <2>2 DEF Borrower, create_document_upload_session, Put, Expire, complete_expired_session
<1>2. ASSUME NEW w \in Workers, Start(w)
      PROVE  GivenUpIsReported'
  <2>1. PICK i \in DOMAIN queue : scan_pending_document(w, queue[i]) \/ reupload_required(w, queue[i])
    BY <1>2 DEF Start
  <2>2. CASE scan_pending_document(w, queue[i])
    BY <2>2 DEF scan_pending_document, GivenUpIsReported
  <2>3. CASE reupload_required(w, queue[i])
    <3> DEFINE d == queue[i]
    <3>1. d \in Sessions /\ documents[d] # None
      BY DEF Queued
    <3>2. documents' = [documents EXCEPT ![d] = documents'[d]] /\ reported' = reported \union {d}
      BY <2>3, <3>1 DEF reupload_required
    <3> HIDE DEF d
    <3> QED
      BY <3>1, <3>2 DEF GivenUpIsReported
  <2> QED
    BY <2>1, <2>2, <2>3
<1>3. ASSUME NEW w \in Workers, Finish(w)
      PROVE  GivenUpIsReported'
  <2> DEFINE d == scanning[w].document
  <2>1. CASE body_read_raises(w)
    BY <2>1 DEF body_read_raises, GivenUpIsReported
  <2>2. CASE checksum_mismatch(w) \/ scan_clean(w) \/ scan_infected(w) \/ provider_failed(w)
    <3>1. scanning[w] # None
      BY <2>2 DEF checksum_mismatch, scan_clean, scan_infected, provider_failed, Readable
    <3>2. d \in Sessions /\ documents[d] # None
      BY <3>1 DEF Held, Scans
    <3> DEFINE Ends(status, last) ==
          /\ documents' = [documents EXCEPT ![d] = Scanned(w, status, last)]
          /\ reported' = IF last THEN reported \union {d} ELSE reported
    <3>a. checksum_mismatch(w) => Ends("REJECTED", TRUE)
      BY DEF checksum_mismatch, End
    <3>b. scan_clean(w) => Ends("CLEAN", FALSE)
      BY DEF scan_clean, End
    <3>c. scan_infected(w) => Ends("REJECTED", FALSE)
      BY DEF scan_infected, End
    <3>d. provider_failed(w) => Ends("QUARANTINED", documents[d].attempts + 1 >= MaxAttempts)
      BY DEF provider_failed, End
    <3>e. (documents[d].attempts + 1 >= MaxAttempts) \in BOOLEAN
      OBVIOUS
    <3>3. PICK status \in {"REJECTED", "CLEAN", "QUARANTINED"}, last \in BOOLEAN : Ends(status, last)
      <4> HIDE DEF Ends
      <4> QED
        BY <2>2, <3>a, <3>b, <3>c, <3>d, <3>e, Zenon
    <3>4. /\ Scanned(w, status, last).status = status
          /\ Scanned(w, status, last).terminal = last
      BY <3>2 DEF Scanned, Documents
    <3> HIDE DEF d
    <3> QED
      BY <3>2, <3>3, <3>4 DEF GivenUpIsReported
  <2> QED
    BY <1>3, <2>1, <2>2 DEF Finish
<1>4. ASSUME NEW x, Due(x) \/ Stop(x) \/ UNCHANGED vars
      PROVE  GivenUpIsReported'
  BY <1>4 DEF Due, Stop, vars, GivenUpIsReported
<1> QED
  BY <1>1, <1>2, <1>3, <1>4 DEF Next

\* scan_pending_document: whatever fails, and however often, a document that
\* nobody will look at any more has its operational exception.
THEOREM GivenUpReported == Spec => []GivenUpIsReported
<1>1. Init => GivenUpIsReported
  BY DEF Init, Quarantined, GivenUpIsReported
<1> QED
  BY <1>1, Invariance, StepPreserves, ReportPreserves, PTL DEF Spec
=============================================================================
