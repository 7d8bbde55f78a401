--------------------------- MODULE LenderDeskProofs ---------------------------
(***************************************************************************)
(* What the lender desk guarantees for any number of programs, versions    *)
(* and requests under way.  Versions of a program are only ever appended,  *)
(* so what a matching has read of one stays true until a preparation       *)
(* commits; and the version of a submission only grows, so that a decision *)
(* that names the present one has seen every earlier decision.             *)
(***************************************************************************)
EXTENDS LenderDesk, FiniteSetTheorems, TLAPS

\* An evaluated version exists, and its terms let the profile pass that is eligible.
Holds(m) ==
  /\ m.program \in Programs /\ m.version \in DOMAIN programs[m.program]
  /\ m.eligible => LET terms == programs[m.program][m.version]
                   IN terms.active /\ score(m.profile, terms) /\ m.profile \in Profiles

RowsHold ==
  /\ \A m \in matches : Holds(m)
  /\ \A r \in pending :
       /\ r.call = "update" => r.profile \in Profiles
       /\ r.call = "match" => \A m \in r.new : Holds(m)
       /\ r.call = "prepare" => \A m \in r.missing : m.eligible /\ Holds(m)
       /\ r.call \in {"condition", "offer"} => r.submission \in Submitted

SubmittedExists == \A k \in Submitted : k[2] \in DOMAIN programs[k[1]]

\* The version that a decision left is not above the present one.
DecidedVersions ==
  \A i \in DOMAIN reviews : reviews[i].by = "lender" =>
    /\ reviews[i].submission \in Submitted
    /\ reviews[i].version <= submissions[reviews[i].submission].version

\* The inductive invariant.
IInv ==
  /\ TypeOK
  /\ RowsHold
  /\ SubmittedExists
  /\ EvaluatedTermsSubmitted
  /\ DecidedVersions
  /\ DecisionsSeeEachOther
  /\ DeclinedIsNotified

-----------------------------------------------------------------------------
LEMMA InitEstablishes == Init => IInv
<1> SUFFICES ASSUME Init PROVE IInv OBVIOUS
<1> USE DEF Init
<1>1. TypeOK
  <2>1. programs \in [Programs -> Seq(Terms)]
    <3>1. <<>> \in Seq(Terms) /\ \A t \in Terms : <<t>> \in Seq(Terms) OBVIOUS
    <3>2. \A p \in Programs : programs[p] \in {<<>>} \union {<<t>> : t \in New} OBVIOUS
    <3>3. \A p \in Programs : programs[p] \in Seq(Terms) BY <3>1, <3>2 DEF New
    <3>4. QED BY <3>3
  <2>2. application \in [profile : Profiles, status : ApplicationStatuses]
    BY DEF ApplicationStatuses
  <2>3. QED BY <2>1, <2>2 DEF TypeOK
<1>2. Submitted = {} /\ DOMAIN reviews = {} BY DEF Submitted
<1>3. RowsHold /\ SubmittedExists BY <1>2 DEF RowsHold, SubmittedExists
<1>4. EvaluatedTermsSubmitted /\ DecidedVersions /\ DecisionsSeeEachOther
  BY <1>2 DEF EvaluatedTermsSubmitted, DecidedVersions, DecisionsSeeEachOther
<1>5. DeclinedIsNotified
  BY <1>2 DEF DeclinedIsNotified, Declines, compliance_overview
<1>6. QED BY <1>1, <1>3, <1>4, <1>5 DEF IInv

\* Versions are appended; those that are there stay.
LEMMA ProgramsGrow ==
  ASSUME TypeOK, [Next]_vars
  PROVE /\ programs' \in [Programs -> Seq(Terms)]
        /\ \A p \in Programs : \A v \in DOMAIN programs[p] :
             v \in DOMAIN programs'[p] /\ programs'[p][v] = programs[p][v]
<1>0. programs \in [Programs -> Seq(Terms)] BY DEF TypeOK
<1>1. ASSUME NEW p \in Programs, create_program(p)
      PROVE \E t \in Terms : programs' = [programs EXCEPT ![p] = Append(programs[p], t)]
  <2>1. PICK t \in Terms : programs[p] = <<>> /\ programs' = [programs EXCEPT ![p] = <<t>>]
    BY <1>1 DEF create_program, New
  <2>2. Append(programs[p], t) = <<t>> BY <2>1
  <2>3. QED BY <2>1, <2>2
<1>2. ASSUME NEW p \in Programs, update_lender_program(p)
      PROVE \E t \in Terms : programs' = [programs EXCEPT ![p] = Append(programs[p], t)]
  BY <1>2 DEF update_lender_program
<1>3. ASSUME NEW p \in Programs, NEW t \in Terms,
             programs' = [programs EXCEPT ![p] = Append(programs[p], t)]
      PROVE /\ programs' \in [Programs -> Seq(Terms)]
            /\ \A q \in Programs : \A v \in DOMAIN programs[q] :
                 v \in DOMAIN programs'[q] /\ programs'[q][v] = programs[q][v]
  BY <1>0, <1>3
<1>4. CASE UNCHANGED programs BY <1>0, <1>4
<1>5. QED
  BY <1>1, <1>2, <1>3, <1>4 DEF Next, vars, Reads, Lose,
     update_application_reads, update_application_commits, match_reads, match_commits,
     prepare_matched_submissions_reads, prepare_matched_submissions_commits, lender_decision,
     assign_lender_submission, create_condition_reads, create_submission_offer_reads,
     create_condition_commits, create_submission_offer_commits, create_underwriting_review

\* What was evaluated stays evaluated.
LEMMA HoldsOn ==
  ASSUME TypeOK, [Next]_vars, NEW m, Holds(m) PROVE Holds(m)'
BY ProgramsGrow DEF Holds, score

\* The preparation inserts what was not there, as a whole or not at all.
LEMMA Prepared ==
  ASSUME IInv, prepare_matched_submissions_commits
  PROVE /\ submissions' \in [Keys -> Submission \union {None}]
        /\ \A k \in Submitted : submissions'[k] = submissions[k]
        /\ \A k \in Submitted' \ Submitted :
             /\ submissions'[k].status = "DRAFT"
             /\ \E m \in UNION {r.missing : r \in {x \in pending : x.call = "prepare"}} :
                  k = <<m.program, m.version>>
             /\ \A a \in submissions'[k].profiles :
                  \E m \in UNION {r.missing : r \in {x \in pending : x.call = "prepare"}} :
                    k = <<m.program, m.version>> /\ a = m.profile
<1> DEFINE All == UNION {r.missing : r \in {x \in pending : x.call = "prepare"}}
<1>0. submissions \in [Keys -> Submission \union {None}] BY DEF IInv, TypeOK
<1>1. PICK r \in pending :
        /\ r.call = "prepare"
        /\ LET keys == {<<m.program, m.version>> : m \in r.missing}
           IN IF \E k \in keys : submissions[k] # None
              THEN UNCHANGED <<application, submissions>>
              ELSE submissions' = [k \in Keys |->
                     IF k \in keys THEN NewSubmission(r, k) ELSE submissions[k]]
  BY DEF prepare_matched_submissions_commits
<1> DEFINE keys == {<<m.program, m.version>> : m \in r.missing}
<1>2. r.missing \subseteq All BY <1>1
<1>3. \A m \in r.missing : m.eligible /\ Holds(m) BY <1>1 DEF IInv, RowsHold
<1>4. ASSUME NEW k \in keys
      PROVE /\ NewSubmission(r, k) \in Submission
            /\ NewSubmission(r, k).status = "DRAFT"
            /\ \A a \in NewSubmission(r, k).profiles :
                 \E m \in All : k = <<m.program, m.version>> /\ a = m.profile
  <2>1. \A a \in ProfilesOf(r, k) : \E m \in r.missing : <<m.program, m.version>> = k /\ a = m.profile
    BY DEF ProfilesOf
  <2>2. ProfilesOf(r, k) \subseteq Profiles BY <2>1, <1>3 DEF Holds
  <2>3. NewSubmission(r, k) = [status |-> "DRAFT", version |-> 1, profiles |-> ProfilesOf(r, k)]
    BY DEF NewSubmission
  <2>4. NewSubmission(r, k) \in Submission BY <2>2, <2>3 DEF Submission
  <2>5. QED BY <2>1, <2>3, <2>4, <1>2
<1>5. CASE \E k \in keys : submissions[k] # None
  BY <1>0, <1>1, <1>5 DEF Submitted
<1>6. CASE ~ \E k \in keys : submissions[k] # None
  <2>1. submissions' = [k \in Keys |-> IF k \in keys THEN NewSubmission(r, k) ELSE submissions[k]]
    BY <1>1, <1>6
  <2>2. submissions' \in [Keys -> Submission \union {None}] BY <1>0, <1>4, <2>1
  <2>3. \A k \in Submitted : submissions'[k] = submissions[k] BY <1>6, <2>1 DEF Submitted
  <2>4. ASSUME NEW k \in Submitted' \ Submitted PROVE k \in keys /\ submissions'[k] = NewSubmission(r, k)
    BY <2>1, <2>4 DEF Submitted
  <2>5. ASSUME NEW k \in keys PROVE \E m \in All : k = <<m.program, m.version>> BY <1>2
  <2>6. QED BY <2>2, <2>3, <2>4, <2>5, <1>4
<1>7. QED BY <1>5, <1>6

With(k, x, v) ==
  [submissions EXCEPT ![k] = [status |-> x, version |-> v, profiles |-> submissions[k].profiles]]

\* A lender's answer changes the status and the version of one submission.
LEMMA AnswerTyped ==
  ASSUME TypeOK, NEW k \in Submitted,
         NEW x \in {"DRAFT", "QUEUED", "APPROVED", "DECLINED", "CONDITIONS", "ESCALATED", "OFFERED"},
         NEW v \in Nat, v >= submissions[k].version,
         submissions' = With(k, x, v)
  PROVE /\ submissions' \in [Keys -> Submission \union {None}]
        /\ Submitted' = Submitted
        /\ \A j \in Submitted :
             /\ submissions'[j].version >= submissions[j].version
             /\ submissions'[j].profiles = submissions[j].profiles
             /\ submissions'[j].status # submissions[j].status => j = k /\ submissions'[j].status = x
        /\ submissions'[k].version = v
<1>1. submissions \in [Keys -> Submission \union {None}] /\ k \in Keys /\ submissions[k] \in Submission
  BY DEF TypeOK, Submitted
<1> DEFINE s == [status |-> x, version |-> v, profiles |-> submissions[k].profiles]
<1>2. s \in Submission /\ s.version = v /\ s.status = x /\ s.profiles = submissions[k].profiles
  BY <1>1 DEF Submission
<1>3. s # None BY <1>2, DeskAssumption
<1>4. submissions'[k] = s /\ \A j \in Keys \ {k} : submissions'[j] = submissions[j] BY <1>1 DEF With
<1>5. submissions' \in [Keys -> Submission \union {None}] BY <1>1, <1>2 DEF With
<1>6. Submitted' = Submitted BY <1>3, <1>4 DEF Submitted
<1>7. \A j \in Submitted : submissions[j].version \in Nat BY <1>1 DEF Submitted, Submission
<1>8. QED BY <1>2, <1>4, <1>5, <1>6, <1>7 DEF Submitted

\* The status and the version that each answer writes.
LEMMA Answers ==
  ASSUME IInv
  PROVE /\ \A k \in Keys, d \in Decisions : lender_decision(k, d) =>
             /\ k \in Submitted
             /\ submissions' = With(k, status_by_decision[d], submissions[k].version + 1)
        /\ \A k \in Keys : assign_lender_submission(k) =>
             /\ k \in Submitted
             /\ submissions' = With(k, submissions[k].status, submissions[k].version + 1)
        /\ create_condition_commits \/ create_submission_offer_commits =>
             \E k \in Submitted : \E x \in {submissions[k].status, "CONDITIONS", "OFFERED"} :
               submissions' = With(k, x, submissions[k].version)
<1>1. submissions \in [Keys -> Submission \union {None}] BY DEF IInv, TypeOK
<1>2. ASSUME NEW k \in Keys, NEW d \in Decisions, lender_decision(k, d)
      PROVE /\ k \in Submitted
            /\ submissions' = With(k, status_by_decision[d], submissions[k].version + 1)
  <2>1. submissions[k] \in Submission /\ k \in Submitted
    BY <1>1, <1>2 DEF lender_decision, Submitted
  <2>2. [submissions[k] EXCEPT !.status = status_by_decision[d], !.version = submissions[k].version + 1]
          = [status |-> status_by_decision[d], version |-> submissions[k].version + 1,
             profiles |-> submissions[k].profiles]
    <3> DEFINE a == [submissions[k] EXCEPT !.status = status_by_decision[d]]
               b == [a EXCEPT !.version = submissions[k].version + 1]
    <3>1. a = [status |-> status_by_decision[d], version |-> submissions[k].version,
               profiles |-> submissions[k].profiles]
      BY <2>1 DEF Submission
    <3>2. b = [status |-> status_by_decision[d], version |-> submissions[k].version + 1,
               profiles |-> submissions[k].profiles]
      <4> HIDE DEF a
      <4> QED BY <3>1
    <3>3. [submissions[k] EXCEPT !.status = status_by_decision[d], !.version = submissions[k].version + 1]
            = b
      OBVIOUS
    <3>4. QED BY <3>2, <3>3
  <2>3. QED BY <1>2, <2>1, <2>2 DEF lender_decision, With
<1>3. ASSUME NEW k \in Keys, assign_lender_submission(k)
      PROVE /\ k \in Submitted
            /\ submissions' = With(k, submissions[k].status, submissions[k].version + 1)
  <2>1. submissions[k] \in Submission /\ k \in Submitted
    BY <1>1, <1>3 DEF assign_lender_submission, Submitted
  <2>2. [submissions[k] EXCEPT !.version = submissions[k].version + 1]
          = [status |-> submissions[k].status, version |-> submissions[k].version + 1,
             profiles |-> submissions[k].profiles]
    BY <2>1 DEF Submission
  <2>3. QED BY <1>3, <2>1, <2>2 DEF assign_lender_submission, With
<1>4. ASSUME NEW r \in pending, r.call \in {"condition", "offer"},
             NEW x \in {submissions[r.submission].status, "CONDITIONS", "OFFERED"},
             submissions' = [submissions EXCEPT ![r.submission].status = x]
      PROVE \E k \in Submitted : \E y \in {submissions[k].status, "CONDITIONS", "OFFERED"} :
              submissions' = With(k, y, submissions[k].version)
  <2>1. r.submission \in Submitted BY <1>4 DEF IInv, RowsHold
  <2>2. submissions[r.submission] \in Submission BY <1>1, <2>1 DEF Submitted
  <2>3. [submissions[r.submission] EXCEPT !.status = x]
          = [status |-> x, version |-> submissions[r.submission].version,
             profiles |-> submissions[r.submission].profiles]
    BY <2>2 DEF Submission
  <2>4. QED BY <1>4, <2>1, <2>3 DEF With
<1>5. ASSUME create_condition_commits
      PROVE \E r \in pending : \E x \in {submissions[r.submission].status, "CONDITIONS", "OFFERED"} :
              /\ r.call \in {"condition", "offer"}
              /\ submissions' = [submissions EXCEPT ![r.submission].status = x]
  BY <1>5 DEF create_condition_commits
<1>6. ASSUME create_submission_offer_commits
      PROVE \E r \in pending : \E x \in {submissions[r.submission].status, "CONDITIONS", "OFFERED"} :
              /\ r.call \in {"condition", "offer"}
              /\ submissions' = [submissions EXCEPT ![r.submission].status = x]
  BY <1>6 DEF create_submission_offer_commits
<1>7. QED BY <1>2, <1>3, <1>4, <1>5, <1>6

\* Submissions stay, with their profiles, and their version does not go down.
LEMMA SubmissionsGrow ==
  ASSUME IInv, [Next]_vars
  PROVE /\ submissions' \in [Keys -> Submission \union {None}]
        /\ \A k \in Submitted :
             /\ k \in Submitted'
             /\ submissions'[k].version >= submissions[k].version
             /\ submissions'[k].profiles = submissions[k].profiles
        /\ \A k \in Submitted' \ Submitted : prepare_matched_submissions_commits
<1> DEFINE Goal ==
      /\ submissions' \in [Keys -> Submission \union {None}]
      /\ \A k \in Submitted :
           /\ k \in Submitted'
           /\ submissions'[k].version >= submissions[k].version
           /\ submissions'[k].profiles = submissions[k].profiles
      /\ \A k \in Submitted' \ Submitted : prepare_matched_submissions_commits
<1>0. TypeOK /\ \A k \in Submitted : /\ submissions[k] \in Submission
                                     /\ submissions[k].version \in Nat
                                     /\ submissions[k].status \in {"DRAFT", "QUEUED", "APPROVED",
                                          "DECLINED", "CONDITIONS", "ESCALATED", "OFFERED"}
  BY DEF IInv, TypeOK, Submitted, Submission
<1>1. CASE prepare_matched_submissions_commits
  BY <1>0, <1>1, Prepared DEF Submitted
<1>2. ASSUME NEW k \in Keys, NEW d \in Decisions, lender_decision(k, d) PROVE Goal
  <2>1. status_by_decision[d] \in {"APPROVED", "DECLINED", "CONDITIONS", "ESCALATED"}
    BY DEF status_by_decision
  <2>a. k \in Submitted BY <1>2, Answers, Zenon
  <2>2. submissions[k].version + 1 \in Nat /\ submissions[k].version + 1 >= submissions[k].version
    BY <1>0, <2>a
  <2>3. submissions' = With(k, status_by_decision[d], submissions[k].version + 1)
    BY <1>2, Answers, Zenon
  <2>4. QED BY <1>0, <2>a, <2>1, <2>2, <2>3, AnswerTyped
<1>3. ASSUME NEW k \in Keys, assign_lender_submission(k) PROVE Goal
  <2>a. k \in Submitted BY <1>3, Answers, Zenon
  <2>2. submissions[k].version + 1 \in Nat /\ submissions[k].version + 1 >= submissions[k].version
    BY <1>0, <2>a
  <2>3. submissions' = With(k, submissions[k].status, submissions[k].version + 1)
    BY <1>3, Answers, Zenon
  <2>4. QED BY <1>0, <2>a, <2>2, <2>3, AnswerTyped
<1>4. CASE create_condition_commits \/ create_submission_offer_commits
  <2>1. PICK k \in Submitted : \E x \in {submissions[k].status, "CONDITIONS", "OFFERED"} :
          submissions' = With(k, x, submissions[k].version)
    BY <1>4, Answers, Zenon
  <2>2. PICK x \in {submissions[k].status, "CONDITIONS", "OFFERED"} :
          submissions' = With(k, x, submissions[k].version)
    BY <2>1
  <2>3. x \in {"DRAFT", "QUEUED", "APPROVED", "DECLINED", "CONDITIONS", "ESCALATED", "OFFERED"}
        /\ submissions[k].version \in Nat /\ submissions[k].version >= submissions[k].version
    BY <1>0
  <2>4. QED BY <1>0, <2>2, <2>3, AnswerTyped
<1>5. CASE UNCHANGED submissions BY <1>0, <1>5 DEF TypeOK, Submitted
<1>6. QED
  BY <1>1, <1>2, <1>3, <1>4, <1>5 DEF Next, vars, Reads, Lose,
     create_program, update_lender_program,
     update_application_reads, update_application_commits, match_reads, match_commits,
     prepare_matched_submissions_reads, create_condition_reads, create_submission_offer_reads,
     create_underwriting_review

\* A recorded review is the last one.
LEMMA ReviewRecorded ==
  ASSUME TypeOK, NEW v \in Review, Reviewed(v)
  PROVE /\ reviews' \in Seq(Review)
        /\ DOMAIN reviews' = DOMAIN reviews \union {Len(reviews) + 1}
        /\ Len(reviews) + 1 \notin DOMAIN reviews
        /\ \A i \in DOMAIN reviews : reviews'[i] = reviews[i] /\ i < Len(reviews) + 1
        /\ reviews'[Len(reviews) + 1] = v
        /\ notices' = IF v.decision = "DECLINE" /\ v.submission # None
                      THEN notices \union {Len(reviews) + 1} ELSE notices
BY DEF TypeOK, Reviewed, generate_adverse_action_notice

\* The reviews that two actions record.
LEMMA Reviews ==
  ASSUME IInv
  PROVE /\ \A k \in Keys, d \in Decisions : lender_decision(k, d) =>
             /\ k \in Submitted
             /\ \E v \in Review :
                  /\ Reviewed(v)
                  /\ v.submission = k /\ v.decision = d /\ v.by = "lender"
                  /\ v.expected = submissions[k].version
                  /\ v.version = submissions[k].version + 1
        /\ \A k \in Keys \union {None}, d \in Decisions : create_underwriting_review(k, d) =>
             \E v \in Review : Reviewed(v) /\ v.by = "underwriter" /\ v.decision = d
<1>1. ASSUME NEW k \in Keys, NEW d \in Decisions, lender_decision(k, d)
      PROVE /\ k \in Submitted
            /\ \E v \in Review :
                 /\ Reviewed(v)
                 /\ v.submission = k /\ v.decision = d /\ v.by = "lender"
                 /\ v.expected = submissions[k].version
                 /\ v.version = submissions[k].version + 1
  <2>1. k \in Submitted /\ submissions[k].version \in Nat
    BY <1>1 DEF lender_decision, IInv, TypeOK, Submitted, Submission
  <2> DEFINE v == [submission |-> k, decision |-> d, by |-> "lender",
                   expected |-> submissions[k].version, version |-> submissions[k].version + 1]
  <2>2. v \in Review BY <2>1 DEF Review, Decisions
  <2>3. Reviewed(v) BY <1>1 DEF lender_decision, ExpectedVersions
  <2>4. QED BY <2>1, <2>2, <2>3
<1>2. ASSUME NEW k \in Keys \union {None}, NEW d \in Decisions, create_underwriting_review(k, d)
      PROVE \E v \in Review : Reviewed(v) /\ v.by = "underwriter" /\ v.decision = d
  <2> DEFINE v == [submission |-> k, decision |-> d, by |-> "underwriter", expected |-> 0, version |-> 0]
  <2>1. v \in Review BY DEF Review, Decisions
  <2>2. Reviewed(v) BY <1>2 DEF create_underwriting_review
  <2>3. QED BY <2>1, <2>2
<1>3. QED BY <1>1, <1>2

\* Every other action leaves the reviews and the notices alone.
LEMMA NoReview ==
  ASSUME [Next]_vars
  PROVE \/ \E k \in Keys, d \in Decisions : lender_decision(k, d)
        \/ \E k \in Keys \union {None}, d \in Decisions : create_underwriting_review(k, d)
        \/ UNCHANGED <<reviews, notices>>
BY DEF Next, vars, Reads, Lose,
   create_program, update_lender_program,
   update_application_reads, update_application_commits, match_reads, match_commits,
   prepare_matched_submissions_reads, prepare_matched_submissions_commits,
   assign_lender_submission, create_condition_reads, create_submission_offer_reads,
   create_condition_commits, create_submission_offer_commits

LEMMA TypeStep == ASSUME IInv, [Next]_vars PROVE TypeOK'
<1>0. TypeOK BY DEF IInv
<1>1. programs' \in [Programs -> Seq(Terms)] BY <1>0, ProgramsGrow
<1>2. submissions' \in [Keys -> Submission \union {None}] BY SubmissionsGrow
<1>3. reviews' \in Seq(Review) /\ notices' \subseteq DOMAIN reviews'
  <2>1. ASSUME NEW v \in Review, Reviewed(v)
        PROVE reviews' \in Seq(Review) /\ notices' \subseteq DOMAIN reviews'
    BY <1>0, <2>1, ReviewRecorded DEF TypeOK
  <2>2. CASE UNCHANGED <<reviews, notices>> BY <1>0, <2>2 DEF TypeOK
  <2>3. QED BY <2>1, <2>2, NoReview, Reviews, Zenon
<1>4. application' \in [profile : Profiles, status : ApplicationStatuses]
  <2>1. application \in [profile : Profiles, status : ApplicationStatuses] BY <1>0 DEF TypeOK
  <2>2. \A read : \A x \in ApplicationStatuses :
          Moved(read, x) \in [profile : Profiles, status : ApplicationStatuses]
    BY <2>1 DEF Moved
  <2>3. {"MATCHED", "SUBMITTED_TO_LENDERS", "CONDITIONS_PENDING", "OFFERS_AVAILABLE",
         "READY_FOR_MATCHING", "DECLINED", "FRAUD_REVIEW", "COMPLIANCE_REVIEW"} \subseteq ApplicationStatuses
    BY DEF ApplicationStatuses
  <2>4. CASE update_application_commits
    <3>1. PICK r \in pending : /\ r.call = "update"
                               /\ application' = [application EXCEPT !.profile =
                                    IF r.read.profile = r.profile THEN @ ELSE r.profile]
      BY <2>4 DEF update_application_commits
    <3>2. r.profile \in Profiles BY <3>1 DEF IInv, RowsHold
    <3>3. QED BY <2>1, <3>1, <3>2
  <2>5. CASE match_commits BY <2>2, <2>3, <2>5 DEF match_commits
  <2>6. CASE prepare_matched_submissions_commits
    BY <2>1, <2>2, <2>3, <2>6 DEF prepare_matched_submissions_commits
  <2>7. CASE create_condition_commits BY <2>1, <2>2, <2>3, <2>7 DEF create_condition_commits
  <2>8. CASE create_submission_offer_commits BY <2>2, <2>3, <2>8 DEF create_submission_offer_commits
  <2>9. ASSUME NEW k \in Keys \union {None}, NEW d \in Decisions, create_underwriting_review(k, d)
        PROVE application' \in [profile : Profiles, status : ApplicationStatuses]
    <3>1. Target(d) = None \/ Target(d) \in ApplicationStatuses BY <2>3 DEF Target, Decisions
    <3>2. QED BY <2>1, <2>2, <2>9, <3>1 DEF create_underwriting_review
  <2>10. CASE UNCHANGED application BY <2>1, <2>10
  <2>11. QED
    BY <2>4, <2>5, <2>6, <2>7, <2>8, <2>9, <2>10 DEF Next, vars, Reads, Lose,
       create_program, update_lender_program, update_application_reads, match_reads,
       prepare_matched_submissions_reads, lender_decision, assign_lender_submission,
       create_condition_reads, create_submission_offer_reads
<1>5. QED BY <1>1, <1>2, <1>3, <1>4 DEF TypeOK

\* Rows of matchings and requests under way keep what they evaluated.
LEMMA RowsStep == ASSUME IInv, [Next]_vars PROVE RowsHold'
<1>0. TypeOK /\ RowsHold BY DEF IInv
<1> DEFINE Sound(r) == /\ r.call = "update" => r.profile \in Profiles
                       /\ r.call = "match" => \A m \in r.new : Holds(m)
                       /\ r.call = "prepare" => \A m \in r.missing : m.eligible /\ Holds(m)
                       /\ r.call \in {"condition", "offer"} => r.submission \in Submitted
<1>1. ASSUME NEW r, Sound(r) PROVE Sound(r)'
  BY <1>0, <1>1, HoldsOn, SubmissionsGrow
<1>2. \A m \in Evaluated(served) : Holds(m)
  <2> SUFFICES ASSUME NEW p \in Active
               PROVE Holds([program |-> p, version |-> Version(p), profile |-> application.profile,
                            by |-> served, eligible |-> score(application.profile, Current(p))])
    BY DEF Evaluated
  <2>1. programs[p] \in Seq(Terms) /\ programs[p] # <<>> /\ Current(p).active
    BY <1>0 DEF Active, TypeOK
  <2>2. Version(p) \in DOMAIN programs[p] BY <2>1 DEF Version
  <2>3. QED BY <1>0, <2>1, <2>2 DEF Holds, Active, Current, TypeOK
<1>3. \A r \in pending' \ pending : Sound(r)
  <2>1. CASE match_reads
    <3>1. pending' = pending \union {[call |-> "match", n |-> served, read |-> application,
                                      old |-> matches, new |-> Evaluated(served)]}
      BY <2>1 DEF match_reads, Reads
    <3>2. QED BY <1>2, <3>1
  <2>2. CASE prepare_matched_submissions_reads
    <3> DEFINE missing == {m \in {x \in matches : x.eligible} :
                             submissions[<<m.program, m.version>>] = None}
    <3>1. pending' = pending \union {[call |-> "prepare", n |-> served, read |-> application,
                                      missing |-> missing]}
      BY <2>2 DEF prepare_matched_submissions_reads, Reads
    <3>2. \A m \in missing : m.eligible /\ Holds(m) BY <1>0 DEF RowsHold
    <3> HIDE DEF missing
    <3>3. QED BY <3>1, <3>2
  <2>3. CASE update_application_reads BY <2>3 DEF update_application_reads, Reads
  <2>4. ASSUME NEW k \in Keys, create_condition_reads(k) \/ create_submission_offer_reads(k)
        PROVE \A r \in pending' \ pending : Sound(r)
    BY <2>4 DEF create_condition_reads, create_submission_offer_reads, Reads, Submitted
  <2>5. CASE pending' \subseteq pending BY <2>5
  <2>6. QED BY <2>1, <2>2, <2>3, <2>4, <2>5 DEF Next, vars, Commits, Lose,
      create_program, update_lender_program, update_application_commits, match_commits,
      prepare_matched_submissions_commits, lender_decision, assign_lender_submission,
      create_condition_commits, create_submission_offer_commits, create_underwriting_review
<1>4. \A m \in matches' : Holds(m)
  <2>1. CASE match_commits BY <1>0, <2>1 DEF match_commits, RowsHold
  <2>2. CASE UNCHANGED matches BY <1>0, <2>2 DEF RowsHold
  <2>3. QED BY <2>1, <2>2 DEF Next, vars, Reads, Lose,
      create_program, update_lender_program, update_application_reads, update_application_commits,
      match_reads, prepare_matched_submissions_reads, prepare_matched_submissions_commits,
      lender_decision, assign_lender_submission, create_condition_reads,
      create_submission_offer_reads, create_condition_commits, create_submission_offer_commits,
      create_underwriting_review
<1>5. \A r \in pending' : Sound(r)' BY <1>0, <1>1, <1>3 DEF RowsHold
<1>6. \A m \in matches' : Holds(m)' BY <1>0, <1>4, HoldsOn
<1>7. QED BY <1>5, <1>6 DEF RowsHold

\* A submission is of a version that its preparation found evaluated.
LEMMA SubmittedStep ==
  ASSUME IInv, [Next]_vars PROVE SubmittedExists' /\ EvaluatedTermsSubmitted'
<1>0. TypeOK /\ RowsHold /\ SubmittedExists /\ EvaluatedTermsSubmitted BY DEF IInv
<1> DEFINE Good(k) == /\ k[2] \in DOMAIN programs[k[1]]
                      /\ programs[k[1]][k[2]].active
                      /\ \A a \in submissions[k].profiles : score(a, programs[k[1]][k[2]])
<1>1. ASSUME NEW k \in Submitted PROVE Good(k)'
  <2>1. k[1] \in Programs BY DEF Submitted, Keys
  <2>2. Good(k) BY <1>0 DEF SubmittedExists, EvaluatedTermsSubmitted
  <2>3. submissions'[k].profiles = submissions[k].profiles BY SubmissionsGrow
  <2>4. QED BY <1>0, <2>1, <2>2, <2>3, ProgramsGrow DEF score
<1>2. ASSUME NEW k \in Submitted' \ Submitted PROVE Good(k)'
  <2> DEFINE All == UNION {r.missing : r \in {x \in pending : x.call = "prepare"}}
  <2>1. prepare_matched_submissions_commits BY SubmissionsGrow
  <2>2. \A m \in All : m.eligible /\ Holds(m) BY <1>0 DEF RowsHold
  <2>3. /\ \E m \in All : k = <<m.program, m.version>>
        /\ \A a \in submissions'[k].profiles :
             \E m \in All : k = <<m.program, m.version>> /\ a = m.profile
    BY <2>1, Prepared
  <2>4. programs' = programs BY <2>1 DEF prepare_matched_submissions_commits
  <2>5. QED BY <2>2, <2>3, <2>4 DEF Holds, score
<1>3. \A k \in Submitted' : Good(k)' BY <1>1, <1>2
<1>4. QED BY <1>3 DEF SubmittedExists, EvaluatedTermsSubmitted

\* A decision names the present version, which is not below that of any decision.
LEMMA DecisionsStep ==
  ASSUME IInv, [Next]_vars PROVE DecidedVersions' /\ DecisionsSeeEachOther'
<1>0. TypeOK /\ DecidedVersions /\ DecisionsSeeEachOther BY DEF IInv
<1>1. \A i \in DOMAIN reviews : reviews[i] \in Review BY <1>0 DEF TypeOK
<1>2. \A k \in Submitted : submissions[k].version \in Nat BY <1>0 DEF TypeOK, Submitted, Submission
<1>3. \A k \in Submitted' : submissions'[k].version \in Nat
  BY TypeStep DEF TypeOK, Submitted, Submission
<1>4. \A i \in DOMAIN reviews : reviews[i].by = "lender" =>
        /\ reviews[i].submission \in Submitted'
        /\ reviews[i].version <= submissions'[reviews[i].submission].version
  BY <1>0, <1>1, <1>2, <1>3, SubmissionsGrow DEF DecidedVersions, Review
<1>5. ASSUME NEW k \in Keys, NEW d \in Decisions, lender_decision(k, d)
      PROVE DecidedVersions' /\ DecisionsSeeEachOther'
  <2>1. k \in Submitted BY <1>5, Reviews, IInv
  <2>2. PICK v \in Review : /\ Reviewed(v)
                            /\ v.submission = k /\ v.by = "lender"
                            /\ v.expected = submissions[k].version
                            /\ v.version = submissions[k].version + 1
    BY <1>5, Reviews
  <2>3. submissions' = With(k, status_by_decision[d], submissions[k].version + 1) BY <1>5, Answers
  <2>4. k \in Submitted' /\ submissions'[k].version = submissions[k].version + 1
    BY <1>0, <2>1, <2>3, SubmissionsGrow DEF With, TypeOK
  <2> DEFINE n == Len(reviews) + 1
  <2>5. /\ DOMAIN reviews' = DOMAIN reviews \union {n} /\ n \notin DOMAIN reviews
        /\ reviews'[n] = v
        /\ \A i \in DOMAIN reviews : reviews'[i] = reviews[i] /\ i < n
    BY <1>0, <2>2, ReviewRecorded
  <2>6. DecidedVersions' BY <1>2, <1>4, <2>1, <2>2, <2>4, <2>5 DEF DecidedVersions
  <2>7. ASSUME NEW i \in DOMAIN reviews', NEW j \in DOMAIN reviews', i < j,
               reviews'[i].by = "lender", reviews'[j].by = "lender",
               reviews'[i].submission = reviews'[j].submission
        PROVE reviews'[i].version <= reviews'[j].expected
    <3>1. DOMAIN reviews \subseteq Nat /\ n \in Nat BY <1>0 DEF TypeOK
    <3>2. i \in DOMAIN reviews BY <2>5, <2>7, <3>1
    <3>3. CASE j \in DOMAIN reviews BY <1>0, <2>5, <2>7, <3>2, <3>3 DEF DecisionsSeeEachOther
    <3>4. CASE j = n BY <1>0, <2>2, <2>5, <2>7, <3>2, <3>4 DEF DecidedVersions
    <3>5. QED BY <2>5, <3>3, <3>4
  <2>8. QED BY <2>6, <2>7 DEF DecisionsSeeEachOther
<1>6. ASSUME NEW v \in Review, Reviewed(v), v.by = "underwriter"
      PROVE DecidedVersions' /\ DecisionsSeeEachOther'
  <2>1. \A i \in DOMAIN reviews' : reviews'[i].by = "lender" =>
          i \in DOMAIN reviews /\ reviews'[i] = reviews[i]
    BY <1>0, <1>6, ReviewRecorded
  <2>2. QED BY <1>0, <1>4, <2>1 DEF DecidedVersions, DecisionsSeeEachOther
<1>7. CASE UNCHANGED reviews BY <1>0, <1>4, <1>7 DEF DecidedVersions, DecisionsSeeEachOther
<1>8. QED BY <1>5, <1>6, <1>7, NoReview, Reviews, Zenon

\* A submission becomes declined with the decision that declines it.
LEMMA NewlyDeclined ==
  ASSUME IInv, [Next]_vars, NEW k \in Submitted', submissions'[k].status = "DECLINED"
  PROVE \/ k \in Submitted /\ submissions[k].status = "DECLINED"
        \/ lender_decision(k, "DECLINE")
<1>0. TypeOK /\ \A j \in Submitted : /\ submissions[j] \in Submission
                                     /\ submissions[j].version \in Nat
  BY DEF IInv, TypeOK, Submitted, Submission
<1> DEFINE Goal == \/ k \in Submitted /\ submissions[k].status = "DECLINED"
                   \/ lender_decision(k, "DECLINE")
<1>1. CASE prepare_matched_submissions_commits BY <1>1, Prepared
<1>2. ASSUME NEW j \in Keys, NEW d \in Decisions, lender_decision(j, d) PROVE Goal
  <2>1. j \in Submitted BY <1>2, Answers, Zenon
  <2>2. submissions' = With(j, status_by_decision[d], submissions[j].version + 1)
    BY <1>2, Answers, Zenon
  <2>3. /\ k # j => submissions'[k] = submissions[k]
        /\ k = j => submissions'[k].status = status_by_decision[d]
    BY <1>0, <2>1, <2>2 DEF With, TypeOK, Submitted
  <2>4. status_by_decision[d] = "DECLINED" => d = "DECLINE" BY DEF status_by_decision, Decisions
  <2>5. QED BY <1>2, <2>3, <2>4 DEF Submitted
<1>3. ASSUME NEW j \in Submitted, NEW x \in {submissions[j].status, "CONDITIONS", "OFFERED"}, NEW v,
             submissions' = With(j, x, v)
      PROVE Goal
  <2>1. /\ k # j => submissions'[k] = submissions[k]
        /\ k = j => submissions'[k].status = x
    BY <1>0, <1>3 DEF With, TypeOK, Submitted
  <2>2. QED BY <1>3, <2>1 DEF Submitted
<1>4. ASSUME NEW j \in Keys, assign_lender_submission(j) PROVE Goal
  <2>1. j \in Submitted BY <1>4, Answers, Zenon
  <2>2. submissions' = With(j, submissions[j].status, submissions[j].version + 1)
    BY <1>4, Answers, Zenon
  <2>3. QED BY <1>3, <2>1, <2>2
<1>5. CASE create_condition_commits \/ create_submission_offer_commits
  <2>1. PICK j \in Submitted : \E x \in {submissions[j].status, "CONDITIONS", "OFFERED"} :
          submissions' = With(j, x, submissions[j].version)
    BY <1>5, Answers, Zenon
  <2>2. QED BY <1>3, <2>1
<1>6. CASE UNCHANGED submissions BY <1>6 DEF Submitted
<1>7. QED
  BY <1>1, <1>2, <1>4, <1>5, <1>6 DEF Next, vars, Reads, Lose,
     create_program, update_lender_program,
     update_application_reads, update_application_commits, match_reads, match_commits,
     prepare_matched_submissions_reads, create_condition_reads, create_submission_offer_reads,
     create_underwriting_review

\* A decline and its notice are recorded together, and both stay.
LEMMA NoticesStep == ASSUME IInv, [Next]_vars PROVE DeclinedIsNotified'
<1>0. TypeOK /\ notices = Declines BY DEF IInv, DeclinedIsNotified
<1>1. notices' = Declines'
  <2>1. ASSUME NEW v \in Review, Reviewed(v) PROVE notices' = Declines'
    BY <1>0, <2>1, ReviewRecorded DEF Declines
  <2>2. CASE UNCHANGED <<reviews, notices>> BY <1>0, <2>2 DEF Declines
  <2>3. QED BY <2>1, <2>2, NoReview, Reviews, Zenon
<1>2. \A i \in notices : i \in notices' /\ reviews'[i] = reviews[i]
  <2>1. ASSUME NEW v \in Review, Reviewed(v)
        PROVE \A i \in notices : i \in notices' /\ reviews'[i] = reviews[i]
    BY <1>0, <2>1, ReviewRecorded DEF TypeOK
  <2>2. CASE UNCHANGED <<reviews, notices>> BY <2>2
  <2>3. QED BY <2>1, <2>2, NoReview, Reviews, Zenon
<1>3. ASSUME NEW k \in Submitted', submissions'[k].status = "DECLINED"
      PROVE \E i \in notices' : reviews'[i].submission = k /\ reviews'[i].by = "lender"
  <2>1. CASE k \in Submitted /\ submissions[k].status = "DECLINED"
    <3>1. PICK i \in notices : reviews[i].submission = k /\ reviews[i].by = "lender"
      BY <2>1 DEF IInv, DeclinedIsNotified, list_all_adverse_action_notices
    <3>2. QED BY <1>2, <3>1
  <2>2. CASE lender_decision(k, "DECLINE")
    <3>1. k \in Keys BY DEF Submitted
    <3>2. PICK v \in Review : Reviewed(v) /\ v.submission = k /\ v.decision = "DECLINE" /\ v.by = "lender"
      BY <2>2, <3>1, Reviews DEF Decisions
    <3>3. k # None BY <3>1, DeskAssumption
    <3>4. QED BY <1>0, <3>2, <3>3, ReviewRecorded
  <2>3. QED BY <1>3, <2>1, <2>2, NewlyDeclined
<1>4. QED
  BY <1>1, <1>3 DEF DeclinedIsNotified, compliance_overview, list_all_adverse_action_notices

LEMMA StepPreserves == IInv /\ [Next]_vars => IInv'
BY TypeStep, RowsStep, SubmittedStep, DecisionsStep, NoticesStep DEF IInv

LEMMA Inductive == Spec => []IInv
BY InitEstablishes, StepPreserves, PTL DEF Spec

-----------------------------------------------------------------------------
\* Type correctness for any programs, requests and bounds.
THEOREM TypeCorrect == Spec => []TypeOK
<1>1. IInv => TypeOK BY DEF IInv
<1>2. QED BY <1>1, Inductive, PTL

\* However matchings, preparations and the edits of programs and of the
\* application overlap, a lender gets only what was evaluated and fits
\* (services.match, prepare_matched_submissions).
THEOREM OnlyEvaluatedSubmitted == Spec => []EvaluatedTermsSubmitted
<1>1. IInv => EvaluatedTermsSubmitted BY DEF IInv
<1>2. QED BY <1>1, Inductive, PTL

\* A decision has seen every earlier decision on its submission, with any
\* number of requests under way (lender_decision).
THEOREM DecisionsOrdered == Spec => []DecisionsSeeEachOther
<1>1. IInv => DecisionsSeeEachOther BY DEF IInv
<1>2. QED BY <1>1, Inductive, PTL

\* Declines and adverse action notices correspond, and no submission stands
\* declined without one (generate_adverse_action_notice).
THEOREM DeclinesNotified == Spec => []DeclinedIsNotified
<1>1. IInv => DeclinedIsNotified BY DEF IInv
<1>2. QED BY <1>1, Inductive, PTL

-----------------------------------------------------------------------------
(* The queues of a lender.  A submission leaves the statuses DRAFT and     *)
(* CONDITIONS by the lender's decision or by an offer only, even though    *)
(* the request that makes an offer or a condition has read the status      *)
(* without a lock.                                                         *)

Decided(k) == \E i \in DOMAIN reviews : reviews[i].by = "lender" /\ reviews[i].submission = k

Offered(k) == \E o \in offers : o.submission = k

Shown(k) == submissions[k].status \in {"DRAFT", "CONDITIONS"}

AnsweredOrShown == \A k \in Submitted : Shown(k) \/ Decided(k) \/ Offered(k)

\* Decisions and offers stay.
LEMMA AnswersStay ==
  ASSUME IInv, [Next]_vars
  PROVE  /\ \A k \in Keys : Decided(k) => Decided(k)'
         /\ \A k \in Keys : Offered(k) => Offered(k)'
<1>1. \A i \in DOMAIN reviews : i \in DOMAIN reviews' /\ reviews'[i] = reviews[i]
  <2>1. ASSUME NEW v \in Review, Reviewed(v)
        PROVE \A i \in DOMAIN reviews : i \in DOMAIN reviews' /\ reviews'[i] = reviews[i]
    BY <2>1, ReviewRecorded DEF IInv
  <2>2. CASE UNCHANGED <<reviews, notices>> BY <2>2
  <2>3. QED BY <2>1, <2>2, NoReview, Reviews, Zenon
<1>2. offers \subseteq offers'
  BY DEF Next, vars, Reads, Lose,
     create_program, update_lender_program, update_application_reads, update_application_commits,
     match_reads, match_commits, prepare_matched_submissions_reads,
     prepare_matched_submissions_commits, lender_decision, assign_lender_submission,
     create_condition_reads, create_condition_commits, create_submission_offer_reads,
     create_submission_offer_commits, create_underwriting_review
<1>3. QED BY <1>1, <1>2 DEF Decided, Offered

WithStatus(k, x) == [submissions EXCEPT ![k].status = x]

\* A commit that writes the status of one submission.
LEMMA StatusWritten ==
  ASSUME IInv, NEW j \in Submitted, NEW k \in Submitted', NEW x,
         submissions' = WithStatus(j, x)
  PROVE  /\ k \in Submitted
         /\ k # j => submissions'[k].status = submissions[k].status
         /\ k = j => submissions'[k].status = x
<1>1. submissions \in [Keys -> Submission \union {None}] /\ submissions[j] \in Submission
  BY DEF IInv, TypeOK, Submitted
<1> DEFINE s == [submissions[j] EXCEPT !.status = x]
<1>2. s.status = x BY <1>1 DEF Submission
<1>3. submissions'[j] = s /\ \A i \in Keys \ {j} : submissions'[i] = submissions[i]
  BY <1>1 DEF WithStatus, Submitted
<1> HIDE DEF s
<1>4. QED BY <1>2, <1>3 DEF Submitted

\* What a step makes of a submission: it is new, keeps its status, or is
\* answered; a condition shows it.
LEMMA StatusStep ==
  ASSUME IInv, [Next]_vars, NEW k \in Submitted'
  PROVE \/ submissions'[k].status \in {"DRAFT", "CONDITIONS"}
        \/ k \in Submitted /\ submissions'[k].status = submissions[k].status
        \/ \E d \in Decisions : lender_decision(k, d)
        \/ Offered(k)'
<1> DEFINE Goal == \/ submissions'[k].status \in {"DRAFT", "CONDITIONS"}
                   \/ k \in Submitted /\ submissions'[k].status = submissions[k].status
                   \/ \E d \in Decisions : lender_decision(k, d)
                   \/ Offered(k)'
<1>0. TypeOK /\ k \in Keys BY DEF IInv, Submitted
<1>1. CASE prepare_matched_submissions_commits BY <1>1, Prepared
<1>2. ASSUME NEW j \in Keys, NEW d \in Decisions, lender_decision(j, d) PROVE Goal
  <2>1. j \in Submitted /\ submissions' = With(j, status_by_decision[d], submissions[j].version + 1)
    BY <1>2, Answers, Zenon
  <2>2. CASE k = j BY <1>2, <2>2
  <2>3. CASE k # j
    <3>1. submissions'[k] = submissions[k] BY <1>0, <2>1, <2>3 DEF With, TypeOK, Submitted
    <3>2. QED BY <3>1 DEF Submitted
  <2>4. QED BY <2>2, <2>3
<1>3. ASSUME NEW j \in Keys, assign_lender_submission(j) PROVE Goal
  <2>1. j \in Submitted /\ submissions' = With(j, submissions[j].status, submissions[j].version + 1)
    BY <1>3, Answers, Zenon
  <2>2. submissions'[k] = submissions[k] \/ (k = j /\ submissions'[k].status = submissions[k].status)
    BY <1>0, <2>1 DEF With, TypeOK, Submitted
  <2>3. QED BY <2>1, <2>2 DEF Submitted
<1>4. CASE create_condition_commits
  <2>1. PICK r \in pending :
          /\ r.call = "condition"
          /\ submissions' = [submissions EXCEPT ![r.submission].status =
               IF r.was = "CONDITIONS" THEN @ ELSE "CONDITIONS"]
    BY <1>4 DEF create_condition_commits
  <2>2. r.submission \in Submitted BY <2>1 DEF IInv, RowsHold
  <2> DEFINE x == IF r.was = "CONDITIONS" THEN submissions[r.submission].status ELSE "CONDITIONS"
  <2>3. submissions' = WithStatus(r.submission, x) BY <2>1 DEF WithStatus
  <2>4. x \in {submissions[r.submission].status, "CONDITIONS"} OBVIOUS
  <2> HIDE DEF x
  <2>5. /\ k \in Submitted
        /\ k # r.submission => submissions'[k].status = submissions[k].status
        /\ k = r.submission => submissions'[k].status = x
    BY <2>2, <2>3, StatusWritten
  <2>6. QED BY <2>4, <2>5
<1>5. CASE create_submission_offer_commits
  <2>1. PICK r \in pending :
          /\ r.call = "offer"
          /\ submissions' = [submissions EXCEPT ![r.submission].status =
               IF r.was = "OFFERED" THEN @ ELSE "OFFERED"]
          /\ offers' = offers \union {[submission |-> r.submission, n |-> r.n]}
    BY <1>5 DEF create_submission_offer_commits
  <2>2. r.submission \in Submitted BY <2>1 DEF IInv, RowsHold
  <2>3. CASE k = r.submission
    <3>1. [submission |-> r.submission, n |-> r.n] \in offers' BY <2>1
    <3>2. QED BY <2>3, <3>1 DEF Offered
  <2>4. CASE k # r.submission
    <3> DEFINE x == IF r.was = "OFFERED" THEN submissions[r.submission].status ELSE "OFFERED"
    <3>1. submissions' = WithStatus(r.submission, x) BY <2>1 DEF WithStatus
    <3> HIDE DEF x
    <3>2. QED BY <2>2, <2>4, <3>1, StatusWritten
  <2>5. QED BY <2>3, <2>4
<1>6. CASE UNCHANGED submissions BY <1>6 DEF Submitted
<1>7. QED
  BY <1>1, <1>2, <1>3, <1>4, <1>5, <1>6 DEF Next, vars, Reads, Lose,
     create_program, update_lender_program,
     update_application_reads, update_application_commits, match_reads, match_commits,
     prepare_matched_submissions_reads, create_condition_reads, create_submission_offer_reads,
     create_underwriting_review

LEMMA AnsweredStep == ASSUME IInv, AnsweredOrShown, [Next]_vars PROVE AnsweredOrShown'
<1> SUFFICES ASSUME NEW k \in Submitted' PROVE Shown(k)' \/ Decided(k)' \/ Offered(k)'
  BY DEF AnsweredOrShown
<1>0. k \in Keys BY DEF Submitted
<1>1. CASE submissions'[k].status \in {"DRAFT", "CONDITIONS"} BY <1>1 DEF Shown
<1>2. CASE k \in Submitted /\ submissions'[k].status = submissions[k].status
  BY <1>0, <1>2, AnswersStay DEF AnsweredOrShown, Shown
<1>3. ASSUME NEW d \in Decisions, lender_decision(k, d) PROVE Decided(k)'
  <2>1. PICK v \in Review : Reviewed(v) /\ v.submission = k /\ v.by = "lender"
    BY <1>0, <1>3, Reviews
  <2>2. Len(reviews) + 1 \in DOMAIN reviews' /\ reviews'[Len(reviews) + 1] = v
    BY <2>1, ReviewRecorded DEF IInv
  <2>3. QED BY <2>1, <2>2 DEF Decided
<1>4. QED BY <1>1, <1>2, <1>3, StatusStep

\* What waits is among what the counters count.
LEMMA ShownIsCounted ==
  ASSUME AnsweredOrShown, NEW l \in Lenders
  PROVE  /\ Waiting(l) \subseteq lender_bank_review_queue(l)
         /\ \A unanswered \in {lender_dashboard(l).needs_review, lender_workspace(l).pending_submissions} :
              Cardinality(Waiting(l)) <= unanswered + lender_dashboard(l).conditions_pending
<1> DEFINE A == InStatus(l, {"DRAFT", "QUEUED", "SUBMITTED", "UNDER_REVIEW"})
           B == InStatus(l, {"CONDITIONS"})
<1>1. ASSUME NEW k \in Waiting(l) PROVE k \in lender_submissions(l) /\ k \in Submitted /\ Shown(k)
  <2>1. k \in lender_submissions(l) /\ k \in Submitted BY DEF Waiting, lender_submissions
  <2>2. ~ Decided(k) BY DEF Waiting, Decided
  <2>3. ~ Offered(k) BY DEF Waiting, Offered, lender_submission_workspace
  <2>4. QED BY <2>1, <2>2, <2>3 DEF AnsweredOrShown
<1>2. Waiting(l) \subseteq A \union B
  BY <1>1 DEF InStatus, Shown
<1>3. Waiting(l) \subseteq lender_bank_review_queue(l)
  BY <1>1 DEF InStatus, Shown, lender_bank_review_queue
<1>4. IsFiniteSet(Keys)
  <2>1. IsFiniteSet(1..MaxVersion) BY FiniteDesk, FS_Interval
  <2>2. QED BY <2>1, FiniteDesk, FS_Product DEF Keys
<1>5. IsFiniteSet(A) /\ IsFiniteSet(B) /\ IsFiniteSet(A \intersect B)
  <2>1. A \in SUBSET Keys /\ B \in SUBSET Keys /\ A \intersect B \in SUBSET Keys
    BY DEF InStatus, lender_submissions, Submitted
  <2> HIDE DEF A, B
  <2>2. QED BY <1>4, <2>1, FS_Subset
<1>6. /\ lender_dashboard(l).needs_review = Cardinality(A)
      /\ lender_dashboard(l).conditions_pending = Cardinality(B)
      /\ lender_workspace(l).pending_submissions = Cardinality(A)
  BY DEF lender_dashboard, lender_workspace
<1> HIDE DEF A, B
<1>7. /\ IsFiniteSet(A \union B)
      /\ Cardinality(A \union B) = Cardinality(A) + Cardinality(B) - Cardinality(A \intersect B)
  BY <1>5, FS_Union
<1>8. IsFiniteSet(Waiting(l)) /\ Cardinality(Waiting(l)) <= Cardinality(A \union B)
  BY <1>2, <1>7, FS_Subset
<1>9. /\ Cardinality(A) \in Nat /\ Cardinality(B) \in Nat /\ Cardinality(A \intersect B) \in Nat
      /\ Cardinality(Waiting(l)) \in Nat
  BY <1>5, <1>8, FS_CardinalityType
<1>10. QED BY <1>3, <1>6, <1>7, <1>8, <1>9

\* However many requests overwrite its status, a submission that its lender has
\* not answered is selected by the queue and counted by the dashboard and the
\* workspace (lender_bank_review_queue, lender_dashboard and lender_workspace ask
\* for different sets of statuses).  The argument is AnsweredOrShown: a commit that
\* takes a submission out of the statuses shown has recorded a decision or an offer.
THEOREM WaitingCounted == Spec => []WaitingIsCounted
<1>1. Init => AnsweredOrShown BY DEF Init, AnsweredOrShown, Submitted
<1>2. IInv /\ AnsweredOrShown /\ [Next]_vars => AnsweredOrShown' BY AnsweredStep
<1>3. AnsweredOrShown => WaitingIsCounted BY ShownIsCounted DEF WaitingIsCounted
<1>4. QED BY <1>1, <1>2, <1>3, Inductive, PTL DEF Spec
=============================================================================
