------------------------------- MODULE LenderDesk -------------------------------
(***************************************************************************)
(* From matching to the lenders' answers, for one application: programs    *)
(* and their versions, the evaluation of the programs, the submissions it  *)
(* leads to, and what a lender does with a submission.  lender_decision,   *)
(* assignment, the edit of a program and the underwriting review lock what *)
(* they write and are one step each; matching, the preparation of          *)
(* submissions, the edit of the application, conditions and offers read    *)
(* without a lock, and a request of theirs commits in a later step what it *)
(* computed from what it read.  What follows the acceptance of an offer is *)
(* in FundingLifecycle.                                                    *)
(***************************************************************************)
EXTENDS ApplicationStatus, FiniteSets

CONSTANTS
  Lenders, Programs,
  LenderOf,        \* the lender organization of each program
  Profiles,        \* amount, revenue, age, state and industry of an applicant
  None,
  MaxRequests,     \* bound: edits, matchings and preparations begun
  MaxAnswers,      \* bound: requests of lenders and underwriters begun
  MaxVersion       \* bound: version of a program

VARIABLES
  application,     \* its profile and status
  programs,        \* per program its versions; the table has the last one only
  matches,         \* rows of application_matches
  submissions,     \* per program and version, the submission or None
  reviews, notices, offers,
  pending,         \* requests that have read and have yet to commit
  served, answered \* requests begun

vars == <<application, programs, matches, submissions, reviews, notices, offers, pending, served, answered>>

Keys == Programs \X (1..MaxVersion)

Version(p) == Len(programs[p])

Current(p) == programs[p][Version(p)]

\* The range of amounts, the minima and the lists of a program are the set of
\* the profiles that they let pass.
Terms == [fits : SUBSET Profiles \ {{}}, active : BOOLEAN]

Submission == [status : {"DRAFT", "QUEUED", "APPROVED", "DECLINED", "CONDITIONS", "ESCALATED", "OFFERED"},
               version : Nat, profiles : SUBSET Profiles]

ASSUME DeskAssumption == None \notin Keys /\ None \notin Submission

ASSUME FiniteDesk == IsFiniteSet(Programs) /\ MaxVersion \in Nat

\* A new program is active.
New == {t \in Terms : t.active}

Init ==
  /\ \E a \in Profiles :
       application = [profile |-> a, status |-> "READY_FOR_MATCHING"]
  /\ programs \in [Programs -> {<<>>} \union {<<t>> : t \in New}]
  /\ matches = {}
  /\ submissions = [k \in Keys |-> None]
  /\ reviews = <<>>
  /\ notices = {}
  /\ offers = {}
  /\ pending = {}
  /\ served = 0
  /\ answered = 0

Begin == served < MaxRequests /\ served' = served + 1 /\ UNCHANGED answered

Answer == answered < MaxAnswers /\ answered' = answered + 1 /\ UNCHANGED served

\* A request that has read.  Its number tells it from all others.
Reads(request) ==
  /\ pending' = pending \union {request}
  /\ UNCHANGED <<application, programs, matches, submissions, reviews, notices, offers>>

Commits(request) == pending' = pending \ {request} /\ UNCHANGED <<served, answered>>

\* The connection or the process is lost before the commit.
Lose ==
  /\ \E request \in pending : Commits(request)
  /\ UNCHANGED <<application, programs, matches, submissions, reviews, notices, offers>>

\* transition_application on the application as the request has read it: the
\* commit overwrites the status, unless it is to stay.
Moved(read, status) ==
  IF read.status = status THEN application
  ELSE [application EXCEPT !.status = status]

-----------------------------------------------------------------------------
(* The application and the programs *)

\* The version that the caller names is compared with the one read here, without
\* a lock: it orders no two edits that overlap, and is left out.

update_application_reads ==
  /\ Begin
  /\ \E a \in Profiles : Reads([call |-> "update", n |-> served, read |-> application, profile |-> a])

update_application_commits ==
  \E r \in pending :
    /\ r.call = "update"
    /\ Commits(r)
    /\ application' = [application EXCEPT !.profile = IF r.read.profile = r.profile THEN @ ELSE r.profile]
    /\ UNCHANGED <<programs, matches, submissions, reviews, notices, offers>>

create_program(p) ==
  /\ Begin
  /\ programs[p] = <<>>
  /\ \E t \in New : programs' = [programs EXCEPT ![p] = <<t>>]
  /\ UNCHANGED <<application, matches, submissions, reviews, notices, offers, pending>>

\* The editor names the version it edits; the row is locked for the comparison.
update_lender_program(p) ==
  /\ Begin
  /\ programs[p] # <<>>
  /\ Version(p) < MaxVersion
  /\ \E t \in Terms : programs' = [programs EXCEPT ![p] = Append(@, t)]
  /\ UNCHANGED <<application, matches, submissions, reviews, notices, offers, pending>>

-----------------------------------------------------------------------------
(* Matching and the submissions *)

Active == {p \in Programs : programs[p] # <<>> /\ Current(p).active}

\* Whether the terms let the profile pass; score names the reasons besides.
score(profile, terms) == profile \in terms.fits

\* The evaluation of every active program, with the version it evaluated and
\* (not in the table) the profile; a row belongs to the request that wrote it.
Evaluated(n) ==
  {[program |-> p, version |-> Version(p), profile |-> application.profile, by |-> n,
    eligible |-> score(application.profile, Current(p))] : p \in Active}

\* The rows that are there are deleted, whichever request wrote them.
match_reads ==
  /\ Begin
  /\ MayBecome(application.status, "MATCHED")
  /\ Reads([call |-> "match", n |-> served, read |-> application,
            old |-> matches, new |-> Evaluated(served)])

\* Mutant: the rows take the version that the program has at the commit.
match_commits_current ==
  \E r \in pending :
    /\ r.call = "match"
    /\ Commits(r)
    /\ matches' = (matches \ r.old) \union {[m EXCEPT !.version = Version(m.program)] : m \in r.new}
    /\ application' = Moved(r.read, "MATCHED")
    /\ UNCHANGED <<programs, submissions, reviews, notices, offers>>

match_commits ==
  \E r \in pending :
    /\ r.call = "match"
    /\ Commits(r)
    /\ matches' = (matches \ r.old) \union r.new
    /\ application' = Moved(r.read, "MATCHED")
    /\ UNCHANGED <<programs, submissions, reviews, notices, offers>>

\* A submission per eligible row whose program and version have none yet.
prepare_matched_submissions_reads ==
  /\ Begin
  /\ LET eligible == {m \in matches : m.eligible}
     IN /\ eligible # {}
        /\ Reads([call |-> "prepare", n |-> served, read |-> application,
                  missing |-> {m \in eligible : submissions[<<m.program, m.version>>] = None}])

\* The profiles it was evaluated for; two matchings that overlap leave two rows.
ProfilesOf(r, k) == {m.profile : m \in {x \in r.missing : <<x.program, x.version>> = k}}

\* Mutant: the status is left to the default of the column.
NewSubmission_default(r, k) == [status |-> "QUEUED", version |-> 1, profiles |-> ProfilesOf(r, k)]

NewSubmission(r, k) == [status |-> "DRAFT", version |-> 1, profiles |-> ProfilesOf(r, k)]

\* Two preparations of one submission: the unique constraint refuses the second
\* one as a whole.
prepare_matched_submissions_commits ==
  \E r \in pending :
    /\ r.call = "prepare"
    /\ Commits(r)
    /\ LET keys == {<<m.program, m.version>> : m \in r.missing}
       IN IF \E k \in keys : submissions[k] # None
          THEN UNCHANGED <<application, submissions>>
          ELSE /\ submissions' = [k \in Keys |->
                    IF k \in keys THEN NewSubmission(r, k) ELSE submissions[k]]
               /\ application' = IF r.read.status = "MATCHED"
                                 THEN Moved(r.read, "SUBMITTED_TO_LENDERS") ELSE application
    /\ UNCHANGED <<programs, matches, reviews, notices, offers>>

-----------------------------------------------------------------------------
(* The lender's answers *)

Submitted == {k \in Keys : submissions[k] # None}

\* Mutant: any version that the submission has had will do.
ExpectedVersions_any(k) == 1..submissions[k].version

\* The lock is held from the comparison of the version to the commit, so the
\* version named is the present one.  The idempotency record is looked for
\* after the comparison: a repetition, whose version is no longer the present
\* one, is refused before its stored answer could be found.
ExpectedVersions(k) == {submissions[k].version}

Decisions == {"APPROVE", "DECLINE", "CONDITIONS", "FRAUD_REVIEW", "COMPLIANCE_REVIEW"}

status_by_decision ==
  [d \in Decisions |->
    CASE d = "APPROVE"    -> "APPROVED"
      [] d = "DECLINE"    -> "DECLINED"
      [] d = "CONDITIONS" -> "CONDITIONS"
      [] OTHER            -> "ESCALATED"]

\* Mutant: the look for an existing notice is by application.
generate_adverse_action_notice_once(n) == IF notices = {} THEN {n} ELSE notices

\* One notice per review that declines a submission.
generate_adverse_action_notice(n) == notices \union {n}

\* Of a review by a lender the version that it expected and the one it left.
Review == [submission : Keys \union {None}, decision : Decisions, by : {"lender", "underwriter"},
           expected : Nat, version : Nat]

Reviewed(review) ==
  /\ reviews' = Append(reviews, review)
  /\ notices' = IF review.decision = "DECLINE" /\ review.submission # None
                THEN generate_adverse_action_notice(Len(reviews) + 1) ELSE notices

lender_decision(k, d) ==
  /\ Answer
  /\ submissions[k] # None
  /\ \E e \in ExpectedVersions(k) :
       Reviewed([submission |-> k, decision |-> d, by |-> "lender", expected |-> e,
                 version |-> submissions[k].version + 1])
  /\ submissions' = [submissions EXCEPT ![k].status = status_by_decision[d], ![k].version = @ + 1]
  /\ UNCHANGED <<application, programs, matches, offers, pending>>

assign_lender_submission(k) ==
  /\ Answer
  /\ submissions[k] # None
  /\ submissions' = [submissions EXCEPT ![k].version = @ + 1]
  /\ UNCHANGED <<application, programs, matches, reviews, notices, offers, pending>>

\* The submission is read without a lock, the application with one.
create_condition_reads(k) ==
  /\ Answer
  /\ submissions[k] # None
  /\ Reads([call |-> "condition", n |-> answered, submission |-> k, was |-> submissions[k].status])

create_condition_commits ==
  \E r \in pending :
    /\ r.call = "condition"
    /\ Commits(r)
    /\ submissions' = [submissions EXCEPT ![r.submission].status =
         IF r.was = "CONDITIONS" THEN @ ELSE "CONDITIONS"]
    /\ application' = IF application.status \in {"SUBMITTED_TO_LENDERS", "UNDERWRITING"}
                      THEN Moved(application, "CONDITIONS_PENDING") ELSE application
    /\ UNCHANGED <<programs, matches, reviews, notices, offers>>

create_submission_offer_reads(k) ==
  /\ Answer
  /\ submissions[k] # None
  /\ MayBecome(application.status, "OFFERS_AVAILABLE")
  /\ Reads([call |-> "offer", n |-> answered, submission |-> k, was |-> submissions[k].status,
            read |-> application])

create_submission_offer_commits ==
  \E r \in pending :
    /\ r.call = "offer"
    /\ Commits(r)
    /\ submissions' = [submissions EXCEPT ![r.submission].status =
         IF r.was = "OFFERED" THEN @ ELSE "OFFERED"]
    /\ application' = Moved(r.read, "OFFERS_AVAILABLE")
    /\ offers' = offers \union {[submission |-> r.submission, n |-> r.n]}
    /\ UNCHANGED <<programs, matches, reviews, notices>>

\* The underwriter's review, of a submission or of the application alone.  It
\* moves the application and leaves the submission as it is.
Target(d) ==
  CASE d = "APPROVE"    -> "READY_FOR_MATCHING"
    [] d = "DECLINE"    -> "DECLINED"
    [] d = "CONDITIONS" -> None
    [] OTHER            -> d

create_underwriting_review(k, d) ==
  /\ Answer
  /\ k \in Submitted \union {None}
  /\ Target(d) = None \/ MayBecome(application.status, Target(d))
  /\ application' = IF Target(d) = None THEN application ELSE Moved(application, Target(d))
  /\ Reviewed([submission |-> k, decision |-> d, by |-> "underwriter", expected |-> 0, version |-> 0])
  /\ UNCHANGED <<programs, matches, submissions, offers, pending>>

-----------------------------------------------------------------------------
(* What the lender portal and the compliance desk show. *)

\* The submissions of a lender; nobody else's are shown or changed.
lender_submissions(l) == {k \in Submitted : LenderOf[k[1]] = l}

InStatus(l, statuses) == {k \in lender_submissions(l) : submissions[k].status \in statuses}

lender_dashboard(l) ==
  [submissions |-> Cardinality(lender_submissions(l)),
   needs_review |-> Cardinality(InStatus(l, {"DRAFT", "QUEUED", "SUBMITTED", "UNDER_REVIEW"})),
   conditions_pending |-> Cardinality(InStatus(l, {"CONDITIONS"}))]

\* What the queue selects.  It shows the oldest 200 rows of a join that repeats a
\* submission for every bank analysis: whether a row is on it, nothing here says.
lender_bank_review_queue(l) == InStatus(l, {"DRAFT", "SUBMITTED", "UNDER_REVIEW", "CONDITIONS"})

\* The counters of the workspace; its lists show the newest 25 rows only, and no
\* property is about them.
lender_workspace(l) ==
  [submission_count |-> Cardinality(lender_submissions(l)),
   pending_submissions |-> Cardinality(InStatus(l, {"DRAFT", "QUEUED", "SUBMITTED", "UNDER_REVIEW"}))]

\* All that the lender offered for the application, under whichever program.
lender_submission_workspace(k) ==
  [submission |-> submissions[k],
   offers |-> {o \in offers : LenderOf[o.submission[1]] = LenderOf[k[1]]}]

\* All pages of the list.
list_all_adverse_action_notices == {reviews[i] : i \in notices}

compliance_overview == [adverse_action_notices |-> Cardinality(notices)]

-----------------------------------------------------------------------------
Next ==
  \/ update_application_reads \/ update_application_commits
  \/ \E p \in Programs : create_program(p) \/ update_lender_program(p)
  \/ match_reads \/ match_commits
  \/ prepare_matched_submissions_reads \/ prepare_matched_submissions_commits
  \/ \E k \in Keys :
       \/ \E d \in Decisions : lender_decision(k, d)
       \/ assign_lender_submission(k)
       \/ create_condition_reads(k)
       \/ create_submission_offer_reads(k)
  \/ create_condition_commits \/ create_submission_offer_commits
  \/ \E k \in Keys \union {None}, d \in Decisions : create_underwriting_review(k, d)
  \/ Lose

Spec == Init /\ [][Next]_vars

-----------------------------------------------------------------------------
TypeOK ==
  /\ programs \in [Programs -> Seq(Terms)]
  /\ submissions \in [Keys -> Submission \union {None}]
  /\ reviews \in Seq(Review)
  /\ notices \subseteq DOMAIN reviews
  /\ application \in [profile : Profiles, status : ApplicationStatuses]

(* A submission names a program and a version whose terms were evaluated   *)
(* for the application and fit it: the editions of the program and of the  *)
(* application, and matchings and preparations that overlap, bring no      *)
(* version to a lender that nobody evaluated (services.match against       *)
(* update_lender_program and prepare_matched_submissions).                 *)
EvaluatedTermsSubmitted ==
  \A k \in Submitted :
    LET terms == programs[k[1]][k[2]]
    IN terms.active /\ \A a \in submissions[k].profiles : score(a, terms)

(* Whoever decides on a submission has seen every earlier decision on it:  *)
(* two lenders at one desk never overrule each other unknowingly, and no   *)
(* two LenderDecisionRecorded events have one key.                         *)
DecisionsSeeEachOther ==
  \A i, j \in DOMAIN reviews :
    /\ i < j
    /\ reviews[i].by = "lender" /\ reviews[j].by = "lender"
    /\ reviews[i].submission = reviews[j].submission
    => reviews[i].version <= reviews[j].expected

(* A submission its lender has neither decided nor answered by an offer,   *)
(* whatever requests overwrote its status, is one that the bank review     *)
(* queue selects, and the counters of the dashboard and of the workspace,  *)
(* which have no limit, count it: the queue asks for other statuses than   *)
(* the counters.  On which page of the queue it stands is not said.        *)
Waiting(l) ==
  {k \in lender_submissions(l) :
     /\ \A i \in DOMAIN reviews : reviews[i].by = "lender" => reviews[i].submission # k
     /\ \A o \in lender_submission_workspace(k).offers : o.submission # k}

WaitingIsCounted ==
  \A l \in Lenders :
    /\ Waiting(l) \subseteq lender_bank_review_queue(l)
    /\ \A unanswered \in {lender_dashboard(l).needs_review, lender_workspace(l).pending_submissions} :
         Cardinality(Waiting(l)) <= unanswered + lender_dashboard(l).conditions_pending

(* Every decline of a submission, by its lender or by the underwriter, has *)
(* its adverse action notice, nothing else has one (so the compliance desk *)
(* counts the declines), and a submission that stands declined was         *)
(* declined, with a notice, by its lender.                                 *)
Declines == {i \in DOMAIN reviews : reviews[i].decision = "DECLINE" /\ reviews[i].submission # None}

DeclinedIsNotified ==
  /\ notices = Declines
  /\ compliance_overview.adverse_action_notices = Cardinality(Declines)
  /\ \A k \in Submitted : submissions[k].status = "DECLINED" =>
       \E n \in list_all_adverse_action_notices : n.submission = k /\ n.by = "lender"
=============================================================================
