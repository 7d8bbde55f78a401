---------------------------- MODULE ApplicationFile ----------------------------
(***************************************************************************)
(* The file of one application: its sections and owners, the requirements  *)
(* they complete, and the three requests that read the application without *)
(* a lock and commit later what they made of it: an edit of its fields,    *)
(* its submission, and a snapshot of its requirements.  Each requirement   *)
(* is a statement of its own, so owners come and go while a request asks.  *)
(* What follows READY_FOR_MATCHING is in LenderDesk and FundingLifecycle,  *)
(* how two first saves of a section meet in RequestKeys.                   *)
(***************************************************************************)
EXTENDS ApplicationStatus, FiniteSets

CONSTANTS
  Requests,
  Owners,      \* places for rows of owners
  None,
  MaxReviews   \* bound: underwriting reviews that move the application

VARIABLES
  application, \* its status and its version; its fields are left out
  sections,    \* the sections that have a row
  owners,
  capability,  \* the flag of a capability that asks for more, and its provider;
               \* no handler writes either
  timeline,    \* application_status_history
  announced,   \* the ApplicationSubmitted events
  snapshots,   \* per request that took one, whether it is ready_for_submission
  reviews,     \* underwriting reviews so far
  request,     \* per request its call and its answer; while that is "none", the
               \* application it read, what it has yet to ask, what was missing
  saw          \* (not in the code) the requests during which the file was complete

file == <<sections, owners, capability>>
vars == <<application, file, timeline, announced, snapshots, reviews, request, saw>>

Sections == {"BUSINESS_INFORMATION", "FINANCIAL_PROFILE"}

Calls == {"update", "submit", "snapshot"}

ASSUME FileAssumption == None \notin Requests /\ MaxReviews \in Nat

Init ==
  /\ application = [status |-> "APPLICATION_STARTED", version |-> 1]
  /\ sections = {}
  /\ owners = {}
  /\ capability \in [enabled : {TRUE}, provider : {"READY", "DISABLED"}]
  /\ timeline = <<>>
  /\ announced = {}
  /\ snapshots = {}
  /\ reviews = 0
  /\ request = [r \in Requests |-> None]
  /\ saw = {}

-----------------------------------------------------------------------------
(* The requirements *)

\* A capability without a provider is ready by its flag alone.
capability_is_ready == capability.enabled /\ capability.provider \in {None, "READY"}

\* A lead is stored with its consents, one at least, and they stay.  What a live
\* capability asks for, a connected bank or a verified business, no handler of
\* this commit ever records.
Complete(code) ==
  CASE code \in Sections       -> code \in sections
    [] code = "OWNERS"         -> owners # {}
    [] code = "CONSENTS"       -> TRUE
    [] code = "CAPABILITIES"   -> ~capability_is_ready

application_requirements == <<"BUSINESS_INFORMATION", "FINANCIAL_PROFILE", "OWNERS", "CONSENTS">>

FileComplete == \A i \in DOMAIN application_requirements : Complete(application_requirements[i])

IsOpen(r) == request[r] # None /\ request[r].answer = "none"

\* Recorded after every step that may complete the file or begins a request.
Witnessed ==
  saw' = saw \union {r \in Requests : IsOpen(r)' /\ FileComplete'}

-----------------------------------------------------------------------------
(* The sections *)

\* Only the first save makes a row; later ones, like update_owner, change values
\* that the model leaves out.
save_section(s) ==
  /\ s \notin sections
  /\ sections' = sections \union {s}
  /\ UNCHANGED <<application, owners, capability, timeline, announced, snapshots, reviews, request>>
  /\ Witnessed

add_owner(o) ==
  /\ o \notin owners
  /\ owners' = owners \union {o}
  /\ UNCHANGED <<application, sections, capability, timeline, announced, snapshots, reviews, request>>
  /\ Witnessed

\* In any status, the last owner like the others.
delete_owner(o) ==
  /\ o \in owners
  /\ owners' = owners \ {o}
  /\ UNCHANGED <<application, sections, capability, timeline, announced, snapshots, reviews, request, saw>>

-----------------------------------------------------------------------------
(* The requests *)

todo(call) ==
  CASE call = "update"   -> <<>>
    [] call = "submit"   -> application_requirements
    [] call = "snapshot" -> Append(application_requirements, "CAPABILITIES")

\* The session loads the application once and goes on with what it loaded.
get_authorized_application(r, call) ==
  /\ request[r] = None
  /\ request' = [request EXCEPT ![r] =
       [call |-> call, answer |-> "none", read |-> application, todo |-> todo(call), missing |-> {}]]
  /\ UNCHANGED <<application, file, timeline, announced, snapshots, reviews>>
  /\ Witnessed

\* One statement, which sees what is committed by now.
AskRequirement(r) ==
  /\ IsOpen(r)
  /\ request[r].todo # <<>>
  /\ LET code == Head(request[r].todo)
     IN request' = [request EXCEPT
          ![r].todo = Tail(@),
          ![r].missing = IF Complete(code) THEN @ ELSE @ \union {code}]
  /\ UNCHANGED <<application, file, timeline, announced, snapshots, reviews, saw>>

Asked(r, call) == IsOpen(r) /\ request[r].call = call /\ request[r].todo = <<>>

Accepts(r, call) ==
  /\ Asked(r, call)
  /\ request' = [request EXCEPT ![r] = [call |-> call, answer |-> "accepted"]]
  /\ UNCHANGED <<file, reviews, saw>>

Refuses(r) ==
  /\ request' = [request EXCEPT ![r] = [answer |-> "refused"]]
  /\ UNCHANGED <<application, file, timeline, announced, snapshots, reviews, saw>>

\* Mutant: three of the four requirements will do.
ReadyToSubmit_most(r) == Cardinality(request[r].missing) <= 1

ReadyToSubmit(r) == request[r].missing = {}

\* The history row of a transition.
Entry(from, to) == [from |-> from, to |-> to]

\* Mutant: the status is set without transition_application.
Recorded_forgotten(from, to) == timeline

Recorded(from, to) == IF from = to THEN timeline ELSE Append(timeline, Entry(from, to))

\* The version is raised once for the edit and once more for the transition,
\* both on the version that was read.
update_application(r) ==
  /\ Accepts(r, "update")
  /\ LET read == request[r].read
         first == read.status = "APPLICATION_STARTED"
     IN /\ application' =
             [status |-> IF first THEN "APPLICATION_IN_PROGRESS" ELSE application.status,
              version |-> read.version + (IF first THEN 2 ELSE 1)]
        /\ timeline' = IF first THEN Recorded(read.status, "APPLICATION_IN_PROGRESS") ELSE timeline
  /\ UNCHANGED <<announced, snapshots>>

\* An application that is READY_FOR_MATCHING stays as it is.
SubmittedVersion(r) ==
  IF request[r].read.status = "READY_FOR_MATCHING" THEN request[r].read.version
  ELSE request[r].read.version + 1


\* The key of the event is the application with its version, and unique.
MayAnnounce(r) == \A e \in announced : e.version # SubmittedVersion(r)

submit_application(r) ==
  /\ Accepts(r, "submit")
  /\ ReadyToSubmit(r)
  /\ MayBecome(request[r].read.status, "READY_FOR_MATCHING")
  /\ MayAnnounce(r)
  /\ application' = IF request[r].read.status = "READY_FOR_MATCHING" THEN application
                    ELSE [application EXCEPT !.status = "READY_FOR_MATCHING",
                                             !.version = SubmittedVersion(r)]
  /\ timeline' = Recorded(request[r].read.status, "READY_FOR_MATCHING")
  /\ announced' = announced \union {[version |-> SubmittedVersion(r), by |-> r]}
  /\ UNCHANGED snapshots

\* The requirements are missing, the transition is none, or the key is taken.
submit_refused(r) ==
  /\ Asked(r, "submit")
  /\ \/ ~ReadyToSubmit(r)
     \/ ~MayBecome(request[r].read.status, "READY_FOR_MATCHING")
     \/ ~MayAnnounce(r)
  /\ Refuses(r)

create_requirement_snapshot(r) ==
  /\ Accepts(r, "snapshot")
  /\ snapshots' = snapshots \union {[by |-> r, ready_for_submission |-> ReadyToSubmit(r)]}
  /\ UNCHANGED <<application, timeline, announced>>

\* The connection or the process is lost before the commit.
Lose(r) == IsOpen(r) /\ Refuses(r)

\* The underwriter locks the application and loads it after that.
create_underwriting_review(target) ==
  /\ reviews < MaxReviews
  /\ reviews' = reviews + 1
  /\ target # application.status
  /\ MayBecome(application.status, target)
  /\ application' = [application EXCEPT !.status = target, !.version = @ + 1]
  /\ timeline' = Recorded(application.status, target)
  /\ UNCHANGED <<file, announced, snapshots, request, saw>>

Next ==
  \/ \E s \in Sections : save_section(s)
  \/ \E o \in Owners : add_owner(o) \/ delete_owner(o)
  \/ \E r \in Requests :
       \/ \E call \in Calls : get_authorized_application(r, call)
       \/ AskRequirement(r)
       \/ update_application(r)
       \/ submit_application(r) \/ submit_refused(r)
       \/ create_requirement_snapshot(r)
       \/ Lose(r)
  \/ \E target \in {"READY_FOR_MATCHING", "FRAUD_REVIEW", "COMPLIANCE_REVIEW", "DECLINED"} :
       create_underwriting_review(target)

Spec == Init /\ [][Next]_vars

-----------------------------------------------------------------------------
(* Whoever is told that the file is complete, by an accepted submission or *)
(* by a snapshot that is ready_for_submission, was told so of a file that  *)
(* was complete at one moment of the request: the requirements are asked   *)
(* one after the other while owners are added and deleted, and no answer   *)
(* is put together from two incomplete files.  It rests on the order of    *)
(* the statements: the sections and the consents, which nothing deletes,   *)
(* around the owners (application_requirements).                           *)
Accepted(call) == {r \in Requests : request[r] = [call |-> call, answer |-> "accepted"]}

Told ==
  Accepted("submit") \union {s.by : s \in {x \in snapshots : x.ready_for_submission}}

ReadyWasComplete == Told \subseteq saw


(* The last row of the timeline is the status of the application, although *)
(* every request writes the status and the row from what it read before    *)
(* others committed (transition_application, application_timeline).        *)
application_timeline ==
  IF timeline = <<>> THEN "APPLICATION_STARTED" ELSE timeline[Len(timeline)].to

TimelineEndsAtStatus == application.status = application_timeline
=============================================================================
