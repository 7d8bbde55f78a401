--------------------------- MODULE DocumentPipeline ---------------------------
(***************************************************************************)
(* A borrower's document from the upload session to the lender's workspace:*)
(* the borrower puts the bytes into a versioned object store with a        *)
(* presigned URL, completes the session, and a worker scans what was       *)
(* stored.  The URL outlives the completion, so the borrower can store     *)
(* further versions at any time until it expires.                          *)
(*                                                                         *)
(* A scan is one transaction that locks the document row throughout: it    *)
(* starts (the bytes of the pinned version are read) and ends; a worker    *)
(* that stops in between leaves no trace in the database.                  *)
(***************************************************************************)
EXTENDS Naturals, Sequences, FiniteSets, SequencesExt

CONSTANTS Sessions,    \* upload sessions; a session makes at most one document
          Legacy,      \* documents stored before version ids were recorded
          Contents,    \* what an object may contain
          Infected,    \* the contents the scanner finds malware in
          Unreadable,  \* documents whose stored body breaks off while it is read
          Workers,
          MaxAttempts, \* PROVIDER_MAX_ATTEMPTS
          MaxVersions, \* bound: versions stored per object
          None

ASSUME PipelineAssumption ==
  /\ Legacy \subseteq Sessions
  /\ Infected \subseteq Contents
  /\ MaxAttempts \in Nat \ {0}
  /\ MaxVersions \in Nat \ {0}
  /\ IsFiniteSet(Legacy)

VARIABLES
  sessions,  \* document_upload_sessions.status, "NONE" before the row exists
  expired,   \* sessions past expires_at, whose presigned URL has expired too
  objects,   \* the versions at the storage key of a session; the index is the id
  documents, \* documents rows, None before the session is completed
  queue,     \* the documents in the order of created_at
  delayed,   \* documents whose provider_next_attempt_at lies ahead
  reported,  \* documents with an operational exception
  scanning   \* per worker, the document row it holds and the bytes it read

vars == <<sessions, expired, objects, documents, queue, delayed, reported, scanning>>

storage == <<sessions, expired, objects>>

SessionStatuses == {"NONE", "CREATED", "UPLOADED", "EXPIRED"}

Documents ==
  [version : 0 .. MaxVersions, sha256 : Contents,
   status : {"QUARANTINED", "CLEAN", "REJECTED", "REUPLOAD_REQUIRED"},
   attempts : 0 .. MaxAttempts, terminal : BOOLEAN]

Scans == [document : Sessions, content : Contents]

ASSUME NoneIsNoRow == None \notin Documents \union Scans

Quarantined(version, sha256) ==
  [version |-> version, sha256 |-> sha256, status |-> "QUARANTINED",
   attempts |-> 0, terminal |-> FALSE]

\* Legacy documents have bytes in the store and no version id (0).
Init ==
  /\ sessions = [s \in Sessions |-> IF s \in Legacy THEN "UPLOADED" ELSE "NONE"]
  /\ expired = Legacy
  /\ objects \in {f \in [Sessions -> BoundedSeq(Contents, 1)] :
                    \A s \in Sessions : f[s] # <<>> <=> s \in Legacy}
  /\ documents = [s \in Sessions |-> IF s \in Legacy THEN Quarantined(0, objects[s][1]) ELSE None]
  /\ queue \in SetToSeqs(Legacy)
  /\ delayed = {}
  /\ reported = {}
  /\ scanning = [w \in Workers |-> None]

-----------------------------------------------------------------------------
(* Upload.                                                                 *)

create_document_upload_session(s) ==
  /\ sessions[s] = "NONE"
  /\ sessions' = [sessions EXCEPT ![s] = "CREATED"]
  /\ UNCHANGED <<expired, objects, documents, queue, delayed, reported, scanning>>

\* The borrower uses the presigned URL, once or again, before or after the
\* completion.
Put(s, content) ==
  /\ sessions[s] # "NONE" /\ s \notin expired
  /\ Len(objects[s]) < MaxVersions
  /\ objects' = [objects EXCEPT ![s] = Append(@, content)]
  /\ UNCHANGED <<sessions, expired, documents, queue, delayed, reported, scanning>>

\* Ten minutes pass.
Expire(s) ==
  /\ sessions[s] # "NONE" /\ s \notin expired
  /\ expired' = expired \union {s}
  /\ UNCHANGED <<sessions, objects, documents, queue, delayed, reported, scanning>>

\* complete_document_upload_session pins the version it finds; the checksum is
\* the one the borrower states.
complete_document_upload_session(s, sha256) ==
  /\ sessions[s] = "CREATED"
  /\ s \notin expired
  /\ objects[s] # <<>>
  /\ sessions' = [sessions EXCEPT ![s] = "UPLOADED"]
  /\ documents' = [documents EXCEPT ![s] = Quarantined(Len(objects[s]), sha256)]
  /\ queue' = Append(queue, s)
  /\ UNCHANGED <<expired, objects, delayed, reported, scanning>>

\* The completion comes too late, which is recorded.
complete_expired_session(s) ==
  /\ sessions[s] = "CREATED"
  /\ s \in expired
  /\ sessions' = [sessions EXCEPT ![s] = "EXPIRED"]
  /\ UNCHANGED <<expired, objects, documents, queue, delayed, reported, scanning>>

-----------------------------------------------------------------------------
(* Scan.                                                                   *)

Scanning(w, d) == scanning[w] # None /\ scanning[w].document = d

\* Another worker holds the row: FOR UPDATE SKIP LOCKED passes over it.
Locked(d) == \E w \in Workers : Scanning(w, d)

Eligible(d) ==
  /\ documents[d].status = "QUARANTINED"
  /\ ~documents[d].terminal
  /\ d \notin delayed
  /\ ~Locked(d)

\* The oldest eligible document, by created_at.
Oldest(d) ==
  /\ Eligible(d)
  /\ \A i, j \in DOMAIN queue : queue[j] = d /\ i < j => ~Eligible(queue[i])

\* Mutant: newest bytes at the key, whatever version was recorded.
scan_latest(w, d) ==
  /\ scanning[w] = None
  /\ Oldest(d)
  /\ documents[d].version # 0
  /\ scanning' = [scanning EXCEPT ![w] = [document |-> d, content |-> Last(objects[d])]]
  /\ UNCHANGED <<storage, documents, queue, delayed, reported>>

\* scan_pending_document takes the oldest document and reads its version.
scan_pending_document(w, d) ==
  /\ scanning[w] = None
  /\ Oldest(d)
  /\ documents[d].version # 0
  /\ scanning' = [scanning EXCEPT ![w] =
       [document |-> d, content |-> objects[d][documents[d].version]]]
  /\ UNCHANGED <<storage, documents, queue, delayed, reported>>

\* A document without a version id is sent back to the borrower.
reupload_required(w, d) ==
  /\ scanning[w] = None
  /\ Oldest(d)
  /\ documents[d].version = 0
  /\ documents' = [documents EXCEPT ![d].status = "REUPLOAD_REQUIRED", ![d].attempts = @ + 1]
  /\ reported' = reported \union {d}
  /\ UNCHANGED <<storage, queue, delayed, scanning>>

\* The scan of w ends and writes its document.
End(w, outcome) ==
  LET d == scanning[w].document
  IN  /\ documents' = [documents EXCEPT ![d] = outcome]
      /\ scanning' = [scanning EXCEPT ![w] = None]
      /\ UNCHANGED <<sessions, expired, objects, queue>>

Readable(w) == scanning[w] # None /\ scanning[w].document \notin Unreadable

\* The document as the scan of w leaves it, one attempt later.
Scanned(w, status, terminal) ==
  [documents[scanning[w].document] EXCEPT !.status = status, !.attempts = @ + 1, !.terminal = terminal]

Matches(w) == scanning[w].content = documents[scanning[w].document].sha256

\* The stored bytes are not the ones the borrower announced.
checksum_mismatch(w) ==
  /\ Readable(w)
  /\ ~Matches(w)
  /\ End(w, Scanned(w, "REJECTED", TRUE))
  /\ reported' = reported \union {scanning[w].document}
  /\ UNCHANGED delayed

scan_clean(w) ==
  /\ Readable(w)
  /\ Matches(w)
  /\ scanning[w].content \notin Infected
  /\ End(w, Scanned(w, "CLEAN", FALSE))
  /\ UNCHANGED <<delayed, reported>>

\* Malware.  The object is also deleted by its key, which in a versioned store
\* leaves the pinned version in place; whether that succeeds is ignored.
scan_infected(w) ==
  /\ Readable(w)
  /\ Matches(w)
  /\ scanning[w].content \in Infected
  /\ End(w, Scanned(w, "REJECTED", FALSE))
  /\ UNCHANGED <<delayed, reported>>

\* Mutant: the last failure is not reported.
give_up_silently(w) ==
  LET d == scanning[w].document
      last == documents[d].attempts + 1 >= MaxAttempts
  IN  /\ Readable(w)
      /\ End(w, Scanned(w, "QUARANTINED", last))
      /\ delayed' = IF last THEN delayed ELSE delayed \union {d}
      /\ UNCHANGED reported

\* Mutant: a failing document is never given up.
retry_forever(w) ==
  LET d == scanning[w].document
  IN  /\ Readable(w)
      /\ End(w, documents[d])
      /\ delayed' = delayed \union {d}
      /\ UNCHANGED reported

\* The store or the scanner answers with a ProviderError: back off, or give up
\* after the last attempt and report it.
provider_failed(w) ==
  LET d == scanning[w].document
      last == documents[d].attempts + 1 >= MaxAttempts
  IN  /\ Readable(w)
      /\ End(w, Scanned(w, "QUARANTINED", last))
      /\ delayed' = IF last THEN delayed ELSE delayed \union {d}
      /\ reported' = IF last THEN reported \union {d} ELSE reported

\* The body is read outside the try of the storage adapter: the error is no
\* ProviderError, the transaction rolls back and the worker process ends.
body_read_raises(w) ==
  /\ scanning[w] # None
  /\ scanning[w].document \in Unreadable
  /\ scanning' = [scanning EXCEPT ![w] = None]
  /\ UNCHANGED <<storage, documents, queue, delayed, reported>>

\* The worker is stopped: the transaction rolls back.
Stop(w) ==
  /\ scanning[w] # None
  /\ scanning' = [scanning EXCEPT ![w] = None]
  /\ UNCHANGED <<storage, documents, queue, delayed, reported>>

\* The time of the next attempt comes.
Due(d) ==
  /\ d \in delayed
  /\ delayed' = delayed \ {d}
  /\ UNCHANGED <<storage, documents, queue, reported, scanning>>

-----------------------------------------------------------------------------
Borrower(s) ==
  \/ create_document_upload_session(s)
  \/ \E content \in Contents : Put(s, content)
  \/ Expire(s)
  \/ \E sha256 \in Contents : complete_document_upload_session(s, sha256)
  \/ complete_expired_session(s)

Finish(w) ==
  \/ checksum_mismatch(w) \/ scan_clean(w) \/ scan_infected(w)
  \/ provider_failed(w) \/ body_read_raises(w)

Start(w) == \E i \in DOMAIN queue : scan_pending_document(w, queue[i]) \/ reupload_required(w, queue[i])

Next ==
  \/ \E s \in Sessions : Borrower(s) \/ Due(s)
  \/ \E w \in Workers : Start(w) \/ Finish(w) \/ Stop(w)

Spec == Init /\ [][Next]_vars

\* The loop of a worker keeps coming round, not every scan of a document is
\* stopped from outside, and time passes.
FairSpec ==
  /\ Spec
  /\ \A w \in Workers : WF_vars(Start(w))
  /\ \A d \in Sessions :
       /\ SF_vars(\E w \in Workers : Scanning(w, d) /\ Finish(w))
       /\ WF_vars(Due(d))

-----------------------------------------------------------------------------
\* Every variable has its type.
TypeOK ==
  /\ sessions \in [Sessions -> SessionStatuses]
  /\ expired \subseteq Sessions
  /\ objects \in [Sessions -> Seq(Contents)]
  /\ \A s \in Sessions : Len(objects[s]) <= MaxVersions
  /\ documents \in [Sessions -> Documents \union {None}]
  /\ queue \in Seq(Sessions)
  /\ delayed \subseteq Sessions
  /\ reported \subseteq Sessions
  /\ scanning \in [Workers -> Scans \union {None}]

\* What a download or a lender's workspace hands out: the pinned version of a
\* document that passed.
Downloadable(d) == documents[d] # None /\ documents[d].status = "CLEAN"

\* The bytes that are handed out are the bytes that were scanned and announced,
\* although the borrower may have stored other versions before and since.
DownloadedIsScanned ==
  \A d \in Sessions : Downloadable(d) =>
    LET content == objects[d][documents[d].version]
    IN  content = documents[d].sha256 /\ content \notin Infected

\* A document that nobody will look at any more was reported to the operators,
\* unless the scanner itself rejected it.
GivenUpIsReported ==
  \A d \in Sessions : documents[d] # None =>
    (documents[d].terminal \/ documents[d].status = "REUPLOAD_REQUIRED" => d \in reported)

\* A verdict is final: no later version, retry or second worker changes it.
VerdictIsFinal ==
  [][\A d \in Sessions :
       documents[d] # None /\ documents[d].status # "QUARANTINED" => documents'[d] = documents[d]]_vars

\* What became of an uploaded document: a verdict, or somebody was told.
Settled(d) == d \in reported \/ (documents[d] # None /\ documents[d].status # "QUARANTINED")

\* An upload whose stored body breaks off ends the worker at every attempt, and
\* is taken again first: the uploads behind it may wait for ever.
Blocked(d) ==
  \E i, j \in DOMAIN queue : i < j /\ queue[i] \in Unreadable /\ queue[j] = d

\* Apart from that a failing document does not starve another one: every upload
\* is settled in the end.
NoStarvation ==
  \A d \in Sessions \ Unreadable : documents[d] # None ~> Settled(d) \/ Blocked(d)
=============================================================================
