---------------------------- MODULE FrontDoorProofs ----------------------------
(***************************************************************************)
(* What FrontDoor promises for any number of requests, keys, persons and   *)
(* addresses: at most one effect per key, the promise of KeyedPromise, and *)
(* accounts that belong to the person whose token asserted their address.  *)
(***************************************************************************)
EXTENDS FrontDoor, TLAPS

SignInPhases == {"sign in", "link", "register", "touch"}
Phases == {"new", "look", "insert", "overwrite", "done"} \union SignInPhases
Answers == {"none", "accepted", "duplicate", "conflict", "error"}

\* Every variable has its type.
TypeOK ==
  /\ ask \in [Requests -> KeyedAsks \union SignInAsks \union {None}]
  /\ phase \in [Requests -> Phases]
  /\ answer \in [Requests -> Answers]
  /\ rows \in [Tables \X Keys -> Records \union {None}]
  /\ users \in [Requests -> Emails \union {None}]
  /\ identities \in [Subjects -> Requests \union {None}]
  /\ answers \in [Subjects \X Calls -> Emails \union {None}]
  /\ seen \in [Requests -> Emails \union {None}]

\* How far a request is says what it asks and whether it has its answer.
StagedOf(r) ==
  /\ phase[r] = "new" <=> ask[r] = None
  /\ phase[r] \in {"look", "insert", "overwrite"} => ask[r] \in KeyedAsks
  /\ phase[r] \in SignInPhases => ask[r] \in SignInAsks
  /\ answer[r] # "none" <=> phase[r] = "done"
  /\ phase[r] = "overwrite" => Row(r) # None /\ ask[r].endpoint.overwrites # "never"

Staged == \A r \in Requests : StagedOf(r)

\* An accepted request that keeps rows has stored its own.
InsertedOf(r) ==
  ask[r] \in KeyedAsks /\ Keeps(r) /\ answer[r] = "accepted" =>
    \A t \in Targets(r) : rows[t] # None /\ rows[t].by = r

Inserted == \A r \in Requests : InsertedOf(r)

\* The rows of the promised tables have a body, and so have the requests for
\* them.
Bodied ==
  /\ \A s \in PromisedTables \X Keys : rows[s] # None => rows[s].body \in Bodies
  /\ \A r \in Requests : Promises(r) => ask[r] \in KeyedAsks /\ ask[r].body \in Bodies

\* Every account has one person, and every stored answer an account.
Linked ==
  /\ \A u \in Requests : users[u] # None =>
        phase[u] = "done" /\ \E s \in Subjects : identities[s] = u
  /\ \A s \in Subjects : identities[s] # None => users[identities[s]] # None
  /\ \A s, t \in Subjects : identities[s] # None /\ identities[s] = identities[t] => s = t
  /\ \A s \in Subjects, k \in Calls : answers[<<s, k>>] # None => identities[s] # None
  /\ \A r \in Requests : phase[r] \in {"link", "touch"} => Account(r) # None
  /\ \A r \in Requests : phase[r] = "touch" => StoredReplay(r) # None

\* The person's token has shown the address e.
Shown(s, e) ==
  \E r \in Requests : Admitted(r) /\ ask[r].subject = s /\ ask[r].email = e

\* What is stored for a person is an address that the person's token has shown.
Asserted ==
  /\ \A s \in Subjects : identities[s] # None => Shown(s, users[identities[s]])
  /\ \A s \in Subjects, k \in Calls : answers[<<s, k>>] # None => Shown(s, answers[<<s, k>>])

\* The inductive invariant.
IInv == TypeOK /\ Staged /\ Inserted /\ Bodied /\ Linked /\ Asserted

-----------------------------------------------------------------------------
(* The table of the endpoints.                                             *)

\* Tables that are written along with the one that is looked into.
Alongside == {"LeadSubmitted", "inbox", "payment inbox", "PlaidWebhookReceived"}

Shaped(e) ==
  /\ e.reads \in e.writes
  /\ e.writes \subseteq {e.reads} \union Alongside
  /\ e.reads \notin Alongside \union {"answers"}
  /\ e.compares \in BOOLEAN
  /\ e.rescues \in BOOLEAN
  /\ e.overwrites \in {"never", "unclaimed", "always"}

LEMMA EndpointFacts ==
  ASSUME NEW e \in Endpoints
  PROVE  Shaped(e) /\ e.writes \subseteq Tables
<1>1. ASSUME NEW f \in Consented PROVE Shaped(f)
  <2>1. Shaped(create_public_intake)
    BY DEF Shaped, Alongside, Endpoint, create_public_intake
  <2>2. Shaped(create_lead)
    BY DEF Shaped, Alongside, Endpoint, create_lead
  <2> QED
    BY <2>1, <2>2 DEF Consented
<1>2. ASSUME NEW f \in Signed PROVE Shaped(f)
  <2>1. Shaped(receive_provider_webhook)
    BY DEF Shaped, Alongside, Endpoint, receive_provider_webhook
  <2>2. Shaped(land_payment_webhook)
    BY DEF Shaped, Alongside, Endpoint, land_payment_webhook
  <2>3. Shaped(plaid_webhook)
    BY DEF Shaped, Alongside, Endpoint, plaid_webhook
  <2>4. Shaped(codestra_receipt)
    BY DEF Shaped, Alongside, Endpoint, codestra_receipt
  <2>5. Shaped(codestra_webhook)
    BY DEF Shaped, Alongside, Endpoint, codestra_webhook
  <2>6. Shaped(middesk_webhook)
    BY DEF Shaped, Alongside, Endpoint, middesk_webhook
  <2> QED
    BY <2>1, <2>2, <2>3, <2>4, <2>5, <2>6 DEF Signed
<1>3. ASSUME NEW f \in Owned PROVE Shaped(f)
  <2>1. Shaped(authorize_credit)
    BY DEF Shaped, Alongside, Endpoint, authorize_credit
  <2>2. Shaped(create_application)
    BY DEF Shaped, Alongside, Endpoint, create_application
  <2>3. Shaped(save_business)
    BY DEF Shaped, Alongside, Endpoint, save_business
  <2>4. Shaped(save_financial_profile)
    BY DEF Shaped, Alongside, Endpoint, save_financial_profile
  <2>5. Shaped(update_notification_preferences)
    BY DEF Shaped, Alongside, Endpoint, update_notification_preferences
  <2>6. Shaped(notification_preferences)
    BY DEF Shaped, Alongside, Endpoint, notification_preferences
  <2> QED
    BY <2>1, <2>2, <2>3, <2>4, <2>5, <2>6 DEF Owned
<1>4. e.writes \subseteq Tables
  BY DEF Tables
<1> QED
  BY <1>1, <1>2, <1>3, <1>4 DEF Endpoints

\* Only endpoints that look into a promised table write it, and they promise.
LEMMA PromisedWrites ==
  ASSUME NEW e \in Endpoints, NEW t \in e.writes, t \in PromisedTables
  PROVE  t = e.reads /\ e \in Promising
<1>1. PICK g \in Promising : t = g.reads
  BY DEF PromisedTables
<1>2. t = e.reads
  BY <1>1, EndpointFacts DEF Promising, Shaped
<1> QED
  BY <1>1, <1>2 DEF Promising

\* A promising endpoint never changes a row, so only the claims of an
\* application come without a body.
LEMMA PromisingKeeps ==
  ASSUME NEW e \in Promising
  PROVE  e \in Endpoints /\ e.overwrites = "never" /\ e # create_application
<1>1. create_application.overwrites = "unclaimed"
  BY DEF create_application, Endpoint
<1> QED
  BY <1>1 DEF Promising

\* The first calls of a person are none of these.
LEMMA SignInStandsApart == SignIn \notin Endpoints /\ SignIn.overwrites = "always"
<1>1. SignIn.reads = "answers" /\ SignIn.overwrites = "always"
  BY DEF SignIn, Endpoint
<1> QED
  BY <1>1, EndpointFacts DEF Shaped

-----------------------------------------------------------------------------
(* One request moves at a time, and an answered one no more.               *)

LEMMA Asks ==
  ASSUME NEW a
  PROVE  /\ a \in KeyedAsks =>
              /\ a.endpoint \in Endpoints /\ a.key \in Keys /\ a.body \in Bodies \union {None}
              /\ a # None /\ "subject" \notin DOMAIN a /\ a \notin SignInAsks
         /\ a \in SignInAsks =>
              /\ a.endpoint = SignIn /\ a.key \in Calls /\ a.subject \in Subjects /\ a.email \in Emails
              /\ a # None /\ "subject" \in DOMAIN a
BY KeyedAssumption, FrontAssumption DEF KeyedAsks, SignInAsks

Moves(r) ==
  /\ phase[r] # "done"
  /\ ask[r] # None => ask'[r] = ask[r]
  /\ \A q \in Requests \ {r} : ask'[q] = ask[q] /\ phase'[q] = phase[q] /\ answer'[q] = answer[q]

\* The typed variables of the requests.
RequestTypes ==
  /\ ask \in [Requests -> KeyedAsks \union SignInAsks \union {None}]
  /\ phase \in [Requests -> Phases]
  /\ answer \in [Requests -> Answers]

LEMMA AnswerMoves ==
  ASSUME RequestTypes, Staged, NEW r \in Requests, NEW a \in Answers \ {"none"}, Answer(r, a),
         phase[r] \notin {"new", "done"}
  PROVE  RequestTypes' /\ Moves(r) /\ answer'[r] = a /\ phase'[r] = "done" /\ ask'[r] = ask[r] /\ ask[r] # None
BY DEF RequestTypes, Staged, StagedOf, Answer, Moves, Phases

LEMMA ArriveMoves ==
  ASSUME RequestTypes, Staged, NEW r \in Requests, NEW a \in KeyedAsks \union SignInAsks, NEW p \in Phases,
         ask[r] = None, ask' = [ask EXCEPT ![r] = a], phase' = [phase EXCEPT ![r] = p], answer' = answer
  PROVE  RequestTypes' /\ Moves(r) /\ ask'[r] = a /\ phase'[r] = p /\ answer'[r] = "none"
BY DEF RequestTypes, Staged, StagedOf, Moves, Phases

LEMMA PhaseMoves ==
  ASSUME RequestTypes, Staged, NEW r \in Requests, NEW p \in Phases \ {"new", "done"},
         phase[r] \notin {"new", "done"}, phase' = [phase EXCEPT ![r] = p], UNCHANGED <<ask, answer>>
  PROVE  RequestTypes' /\ Moves(r) /\ ask'[r] = ask[r] /\ phase'[r] = p /\ answer'[r] = "none" /\ ask[r] # None
BY DEF RequestTypes, Staged, StagedOf, Moves, Phases

\* A row that exists stays, and stays the one its request inserted.
RowsGrow ==
  \A s \in Tables \X Keys : rows[s] # None => rows'[s] # None /\ rows'[s].by = rows[s].by

RowTypes == rows \in [Tables \X Keys -> Records \union {None}]

LEMMA Places ==
  ASSUME NEW r, ask[r] \in KeyedAsks
  PROVE  /\ <<ask[r].endpoint.reads, ask[r].key>> \in Targets(r)
         /\ Targets(r) \subseteq Tables \X Keys
BY Asks, EndpointFacts DEF Targets, Shaped

LEMMA RecordFacts ==
  ASSUME NEW b \in Bodies \union {None}, NEW r \in Requests
  PROVE  [body |-> b, by |-> r] \in Records /\ \A x \in Records : x # None /\ x.body \in Bodies \union {None}
BY KeyedAssumption DEF Records

\* What every step of the keyed endpoints does.
KeyedEffect(r) ==
  RequestTypes' /\ RowTypes' /\ Moves(r) /\ StagedOf(r)' /\ RowsGrow /\ phase'[r] \notin SignInPhases

LEMMA ArriveEffect ==
  ASSUME RequestTypes, RowTypes, Staged, NEW r \in Requests,
         ArrivePublic(r) \/ ArriveEvent(r) \/ ArriveSection(r)
  PROVE  KeyedEffect(r) /\ ask'[r] \in KeyedAsks /\ phase'[r] = "look" /\ rows' = rows
         /\ (ask'[r].endpoint # create_application => ask'[r].body \in Bodies)
<1>1. PICK e \in Endpoints, k \in Keys, b \in Bodies \union {None} :
        Arrive(r, e, k, b) /\ (b = None => e = create_application)
  BY KeyedAssumption DEF ArrivePublic, ArriveEvent, ArriveSection, Endpoints
<1>2. [endpoint |-> e, key |-> k, body |-> b] \in KeyedAsks
  BY DEF KeyedAsks
<1>3. RequestTypes' /\ Moves(r) /\ ask'[r] = [endpoint |-> e, key |-> k, body |-> b]
      /\ phase'[r] = "look" /\ answer'[r] = "none" /\ rows' = rows
  BY <1>1, <1>2, ArriveMoves DEF Arrive, Phases
<1>4. StagedOf(r)'
  BY <1>2, <1>3, Asks DEF StagedOf, SignInPhases
<1>5. RowTypes' /\ RowsGrow
  BY <1>3 DEF RowTypes, RowsGrow
<1> QED
  BY <1>1, <1>2, <1>3, <1>4, <1>5 DEF KeyedEffect, SignInPhases

\* An answer without a change of the rows.
LEMMA AnswerEffect ==
  ASSUME RequestTypes, RowTypes, Staged, NEW r \in Requests, NEW a \in Answers \ {"none"},
         Answer(r, a), phase[r] \notin {"new", "done"}, rows' = rows
  PROVE  KeyedEffect(r) /\ answer'[r] = a /\ ask'[r] = ask[r] /\ ask[r] # None
<1>1. RequestTypes' /\ Moves(r) /\ answer'[r] = a /\ phase'[r] = "done" /\ ask'[r] = ask[r] /\ ask[r] # None
  BY AnswerMoves
<1>2. StagedOf(r)'
  BY <1>1 DEF StagedOf, SignInPhases
<1>3. RowTypes' /\ RowsGrow
  BY DEF RowTypes, RowsGrow
<1> QED
  BY <1>1, <1>2, <1>3 DEF KeyedEffect, SignInPhases

LEMMA LookEffect ==
  ASSUME RequestTypes, RowTypes, Staged, NEW r \in Requests, Look(r)
  PROVE  KeyedEffect(r) /\ ask'[r] = ask[r] /\ rows' = rows
<1>1. phase[r] = "look" /\ rows' = rows
  BY DEF Look
<1>2. CASE Row(r) = None \/ Changes(r)
  <2> DEFINE p == IF Row(r) = None THEN "insert" ELSE "overwrite"
  <2>1. p \in Phases \ {"new", "done"} /\ phase' = [phase EXCEPT ![r] = p] /\ UNCHANGED <<ask, answer>>
    BY <1>2 DEF Look, Phases
  <2>2. RequestTypes' /\ Moves(r) /\ ask'[r] = ask[r] /\ phase'[r] = p /\ answer'[r] = "none" /\ ask[r] # None
    <3> HIDE DEF p
    <3> QED
      BY <1>1, <2>1, PhaseMoves
  <2>3. p = "overwrite" => Row(r)' # None /\ ask[r].endpoint.overwrites # "never"
    BY <1>1, <1>2, <2>2 DEF Row, Changes
  <2>4. ask[r] \in KeyedAsks
    BY <1>1 DEF Staged, StagedOf
  <2>5. StagedOf(r)'
    BY <2>2, <2>3, <2>4 DEF StagedOf, SignInPhases
  <2>6. RowTypes' /\ RowsGrow
    BY <1>1 DEF RowTypes, RowsGrow
  <2> QED
    BY <1>1, <2>2, <2>5, <2>6 DEF KeyedEffect, SignInPhases
<1>3. CASE ~(Row(r) = None \/ Changes(r))
  <2>1. PICK a \in {"duplicate", "conflict"} : Answer(r, a)
    BY <1>3 DEF Look, AnswerFromRow
  <2> QED
    BY <1>1, <2>1, AnswerEffect DEF Answers
<1> QED
  BY <1>2, <1>3

\* What the first of the requests with a key stores.
LEMMA InsertFresh ==
  ASSUME RequestTypes, RowTypes, Staged, NEW r \in Requests, Insert(r), Free(r)
  PROVE  /\ KeyedEffect(r) /\ ask'[r] = ask[r] /\ answer'[r] = "accepted" /\ ask[r] \in KeyedAsks
         /\ \A t \in Tables \X Keys :
              rows'[t] = IF t \in Targets(r) THEN [body |-> ask[r].body, by |-> r] ELSE rows[t]
<1>1. phase[r] = "insert" /\ Answer(r, "accepted") /\ ask[r] \in KeyedAsks
  BY DEF Insert, Staged, StagedOf
<1>2. RequestTypes' /\ Moves(r) /\ answer'[r] = "accepted" /\ phase'[r] = "done" /\ ask'[r] = ask[r]
  BY <1>1, AnswerMoves DEF Answers
<1>3. StagedOf(r)'
  BY <1>1, <1>2, Asks DEF StagedOf, SignInPhases
<1>4. rows' = [t \in Tables \X Keys |->
                IF t \in Targets(r) THEN [body |-> ask[r].body, by |-> r] ELSE rows[t]]
  BY DEF Insert, RowTypes
<1>5. [body |-> ask[r].body, by |-> r] \in Records
  BY <1>1, Asks, RecordFacts
<1>6. RowTypes'
  BY <1>4, <1>5 DEF RowTypes
<1>7. \A t \in Targets(r) : rows[t] = None
  BY DEF Free
<1>8. RowsGrow
  BY <1>4, <1>7 DEF RowsGrow
<1> QED
  BY <1>1, <1>2, <1>3, <1>4, <1>6, <1>8 DEF KeyedEffect, SignInPhases

\* What the others get: an answer from the row, or an error.
LEMMA InsertLate ==
  ASSUME RequestTypes, RowTypes, Staged, NEW r \in Requests, Insert(r), ~Free(r)
  PROVE  /\ KeyedEffect(r) /\ ask'[r] = ask[r] /\ answer'[r] \in {"duplicate", "conflict", "error"}
         /\ ask[r] # None /\ rows' = rows
         /\ answer'[r] = "duplicate" => Row(r) # None /\ Agrees(r)
<1>1. phase[r] = "insert" /\ rows' = rows
  BY DEF Insert
<1>2. PICK a \in {"duplicate", "conflict", "error"} : Answer(r, a) /\ (a = "duplicate" => Row(r) # None /\ Agrees(r))
  BY DEF Insert, AnswerFromRow
<1> QED
  BY <1>1, <1>2, AnswerEffect DEF Answers

LEMMA InsertEffect ==
  ASSUME RequestTypes, RowTypes, Staged, NEW r \in Requests, Insert(r)
  PROVE  KeyedEffect(r) /\ ask'[r] = ask[r]
BY InsertFresh, InsertLate

LEMMA OverwriteEffect ==
  ASSUME RequestTypes, RowTypes, Staged, NEW r \in Requests, Overwrite(r)
  PROVE  /\ KeyedEffect(r) /\ ask'[r] = ask[r] /\ ask[r] \in KeyedAsks /\ ask[r].endpoint.overwrites # "never"
         /\ \A t \in Tables \X Keys : t # <<ask[r].endpoint.reads, ask[r].key>> => rows'[t] = rows[t]
<1> DEFINE at == <<ask[r].endpoint.reads, ask[r].key>>
<1>1. phase[r] = "overwrite" /\ Answer(r, "accepted") /\ ask[r] \in KeyedAsks
      /\ rows[at] # None /\ ask[r].endpoint.overwrites # "never"
  BY DEF Overwrite, Staged, StagedOf, Row
<1>2. RequestTypes' /\ Moves(r) /\ phase'[r] = "done" /\ ask'[r] = ask[r] /\ answer'[r] = "accepted"
  BY <1>1, AnswerMoves DEF Answers
<1>3. StagedOf(r)'
  BY <1>1, <1>2, Asks DEF StagedOf, SignInPhases
<1>4. at \in Tables \X Keys
  BY <1>1, Places
<1>5. rows' = [rows EXCEPT ![at].body = ask[r].body]
  BY DEF Overwrite
<1> HIDE DEF at
<1>6. rows[at] \in Records
  BY <1>1, <1>4 DEF RowTypes
<1>7. rows'[at] = [body |-> ask[r].body, by |-> rows[at].by]
  BY <1>4, <1>5, <1>6 DEF RowTypes, Records
<1>8. rows'[at] \in Records /\ rows'[at] # None
  BY <1>1, <1>6, <1>7, Asks, RecordFacts DEF Records
<1>9. \A t \in Tables \X Keys : t # at => rows'[t] = rows[t]
  BY <1>4, <1>5 DEF RowTypes
<1>10. RowTypes'
  BY <1>5, <1>8, <1>9 DEF RowTypes
<1>11. RowsGrow
  BY <1>7, <1>8, <1>9 DEF RowsGrow
<1> QED
  BY <1>1, <1>2, <1>3, <1>9, <1>10, <1>11 DEF KeyedEffect, SignInPhases, at

\* A request that gets an error from the server, or none at all.
LEMMA FailEffect ==
  ASSUME RequestTypes, RowTypes, Staged, NEW r \in Requests,
         RefuseConsent(r) \/ RefuseSignature(r) \/ RefuseAccess(r) \/ Lose(r)
  PROVE  KeyedEffect(r) /\ ask'[r] = ask[r] /\ ask[r] # None /\ answer'[r] = "error" /\ rows' = rows
<1>1. Answer(r, "error") /\ phase[r] \notin {"new", "done"} /\ rows' = rows
  BY DEF RefuseConsent, RefuseSignature, RefuseAccess, Refuse, Lose
<1> QED
  BY <1>1, AnswerEffect DEF Answers

LEMMA KeyedStep ==
  ASSUME RequestTypes, RowTypes, Staged, KeyedNext
  PROVE  \E r \in Requests : KeyedEffect(r)
BY ArriveEffect, FailEffect, LookEffect, InsertEffect, OverwriteEffect DEF KeyedNext

-----------------------------------------------------------------------------
(* The first calls of a person.                                            *)

AccountTypes ==
  /\ users \in [Requests -> Emails \union {None}]
  /\ identities \in [Subjects -> Requests \union {None}]
  /\ answers \in [Subjects \X Calls -> Emails \union {None}]
  /\ seen \in [Requests -> Emails \union {None}]

\* What every step of a first call does.
AccountEffect(r) ==
  /\ RequestTypes' /\ RowTypes' /\ AccountTypes' /\ Moves(r) /\ StagedOf(r)'
  /\ rows' = rows /\ ask'[r] \in SignInAsks

LEMMA ArriveToSignInEffect ==
  ASSUME RequestTypes, RowTypes, AccountTypes, Staged, NEW r \in Requests, NEW s \in Subjects, NEW e \in Emails,
         NEW k \in Calls, ArriveToSignIn(r, s, e, k)
  PROVE  AccountEffect(r) /\ UNCHANGED accounts /\ phase'[r] = "sign in"
<1> DEFINE a == [endpoint |-> SignIn, key |-> k, subject |-> s, email |-> e]
<1>1. a \in SignInAsks
  BY DEF SignInAsks
<1>2. ask[r] = None /\ ask' = [ask EXCEPT ![r] = a] /\ phase' = [phase EXCEPT ![r] = "sign in"]
      /\ answer' = answer /\ rows' = rows /\ UNCHANGED accounts
  BY DEF ArriveToSignIn
<1> HIDE DEF a
<1>3. RequestTypes' /\ Moves(r) /\ ask'[r] = a /\ phase'[r] = "sign in" /\ answer'[r] = "none"
  BY <1>1, <1>2, ArriveMoves DEF Phases, SignInPhases
<1>4. StagedOf(r)'
  BY <1>1, <1>3, Asks DEF StagedOf, SignInPhases
<1> QED
  BY <1>1, <1>2, <1>3, <1>4 DEF AccountEffect, AccountTypes, RowTypes, accounts

\* The end of a first call.
LEMMA SignInAnswers ==
  ASSUME RequestTypes, RowTypes, Staged, NEW r \in Requests, phase[r] \in SignInPhases,
         NEW a \in Answers \ {"none"}, Answer(r, a), rows' = rows, AccountTypes'
  PROVE  AccountEffect(r) /\ phase'[r] = "done" /\ answer'[r] = a /\ ask'[r] = ask[r] /\ ask[r] \in SignInAsks
<1>1. ask[r] \in SignInAsks /\ phase[r] \notin {"new", "done"}
  BY DEF Staged, StagedOf, SignInPhases
<1> QED
  BY <1>1, AnswerEffect, AnswerMoves DEF AccountEffect, KeyedEffect

\* A step between two statements of a first call.
LEMMA SignInGoesOn ==
  ASSUME RequestTypes, RowTypes, Staged, NEW r \in Requests, phase[r] \in SignInPhases,
         NEW p \in SignInPhases, phase' = [phase EXCEPT ![r] = p], UNCHANGED <<ask, answer, rows>>, AccountTypes'
  PROVE  AccountEffect(r) /\ phase'[r] = p /\ ask'[r] = ask[r] /\ ask[r] \in SignInAsks
<1>1. ask[r] \in SignInAsks /\ phase[r] \notin {"new", "done"} /\ p \in Phases \ {"new", "done"}
  BY DEF Staged, StagedOf, SignInPhases, Phases
<1>2. RequestTypes' /\ Moves(r) /\ ask'[r] = ask[r] /\ phase'[r] = p /\ answer'[r] = "none" /\ ask[r] # None
  BY <1>1, PhaseMoves
<1>3. StagedOf(r)'
  BY <1>1, <1>2 DEF StagedOf, SignInPhases
<1> QED
  BY <1>1, <1>2, <1>3 DEF AccountEffect, RowTypes

LEMMA RefuseSignInEffect ==
  ASSUME RequestTypes, RowTypes, AccountTypes, Staged, NEW r \in Requests, RefuseSignIn(r)
  PROVE  AccountEffect(r) /\ UNCHANGED accounts /\ phase'[r] = "done" /\ answer'[r] = "error"
<1>1. phase[r] \in SignInPhases /\ Answer(r, "error") /\ rows' = rows /\ UNCHANGED accounts
  BY DEF RefuseSignIn, SignInPhases
<1>2. AccountTypes'
  BY <1>1 DEF AccountTypes, accounts
<1> QED
  BY <1>1, <1>2, SignInAnswers DEF Answers

LEMMA ReadsEffect ==
  ASSUME RequestTypes, RowTypes, AccountTypes, Staged, NEW r \in Requests, bootstrap_reads(r)
  PROVE  /\ AccountEffect(r) /\ UNCHANGED <<users, identities, answers>> /\ phase[r] = "sign in" /\ ask'[r] = ask[r]
         /\ answer'[r] \in {"none", "conflict"}
         /\ phase'[r] = "link" => Account(r) # None
         /\ phase'[r] = "touch" => StoredReplay(r) # None
<1>1. phase[r] = "sign in" /\ UNCHANGED <<rows, users, identities, answers>>
  BY DEF bootstrap_reads
<1>2. phase[r] \in SignInPhases /\ ask[r] \in SignInAsks
  BY <1>1 DEF SignInPhases, Staged, StagedOf
<1>3. Account(r) \in Requests \union {None}
  BY <1>2, Asks DEF AccountTypes, Account
<1>4. CASE StoredReplay(r) = None /\ EmailCollision(ask[r].email, Account(r))
  <2>1. Answer(r, "conflict") /\ UNCHANGED seen
    BY <1>4 DEF bootstrap_reads
  <2>2. AccountTypes'
    BY <1>1, <2>1 DEF AccountTypes
  <2> QED
    BY <1>1, <1>2, <2>1, <2>2, SignInAnswers DEF Answers
<1>5. CASE ~(StoredReplay(r) = None /\ EmailCollision(ask[r].email, Account(r)))
  <2> DEFINE p == IF StoredReplay(r) # None THEN "touch"
                  ELSE IF Account(r) # None THEN "link" ELSE "register"
  <2>1. /\ phase' = [phase EXCEPT ![r] = p] /\ UNCHANGED <<ask, answer>>
        /\ seen' = [seen EXCEPT ![r] = IF Account(r) = None THEN None ELSE users[Account(r)]]
    BY <1>5 DEF bootstrap_reads
  <2>2. p \in SignInPhases
    BY DEF SignInPhases
  <2>3. AccountTypes'
    BY <1>1, <1>3, <2>1 DEF AccountTypes
  <2>4. (p = "link" => Account(r) # None) /\ (p = "touch" => StoredReplay(r) # None)
    OBVIOUS
  <2>5. answer'[r] = "none"
    BY <1>1, <2>1 DEF Staged, StagedOf
  <2> HIDE DEF p
  <2>6. AccountEffect(r) /\ phase'[r] = p /\ ask'[r] = ask[r]
    BY <1>1, <1>2, <2>1, <2>2, <2>3, SignInGoesOn
  <2> QED
    BY <1>1, <2>4, <2>5, <2>6
<1> QED
  BY <1>4, <1>5

\* Where the account and the answer of a first call are.
LEMMA SignInPlaces ==
  ASSUME AccountTypes, NEW r, ask[r] \in SignInAsks
  PROVE  /\ ask[r].subject \in Subjects /\ ask[r].email \in Emails
         /\ <<ask[r].subject, ask[r].key>> \in Subjects \X Calls
         /\ Account(r) \in Requests \union {None} /\ StoredReplay(r) \in Emails \union {None}
BY Asks DEF AccountTypes, Account, StoredReplay

LEMMA LinkEffect ==
  ASSUME RequestTypes, RowTypes, AccountTypes, Staged, NEW r \in Requests, bootstrap_link(r)
  PROVE  /\ AccountEffect(r) /\ UNCHANGED identities /\ phase[r] = "link" /\ phase'[r] = "done" /\ ask'[r] = ask[r]
         /\ \/ answer'[r] = "error" /\ UNCHANGED <<users, answers>>
            \/ answer'[r] = "accepted" /\ record_idempotency(r) /\ users' = Written(r, ask[r].email)
<1>1. phase[r] = "link" /\ UNCHANGED <<rows, identities, seen>>
  BY DEF bootstrap_link
<1>2. phase[r] \in SignInPhases /\ ask[r] \in SignInAsks
  BY <1>1 DEF SignInPhases, Staged, StagedOf
<1>3. CASE Answer(r, "error") /\ UNCHANGED <<users, answers>>
  <2>1. AccountTypes'
    BY <1>1, <1>3 DEF AccountTypes
  <2> QED
    BY <1>1, <1>2, <1>3, <2>1, SignInAnswers DEF Answers
<1>4. CASE Answer(r, "accepted") /\ record_idempotency(r) /\ users' = Written(r, ask[r].email)
  <2>1. AccountTypes'
    BY <1>1, <1>2, <1>4, SignInPlaces DEF AccountTypes, Written, record_idempotency
  <2> QED
    BY <1>1, <1>2, <1>4, <2>1, SignInAnswers DEF Answers
<1> QED
  BY <1>3, <1>4 DEF bootstrap_link

LEMMA RegisterEffect ==
  ASSUME RequestTypes, RowTypes, AccountTypes, Staged, NEW r \in Requests, bootstrap_register(r)
  PROVE  /\ AccountEffect(r) /\ phase[r] = "register" /\ ask'[r] = ask[r]
         /\ \/ phase'[r] \in {"sign in", "done"} /\ UNCHANGED <<users, identities, answers>>
            \/ /\ phase'[r] = "done" /\ answer'[r] = "accepted" /\ Account(r) = None
               /\ record_idempotency(r) /\ users' = [users EXCEPT ![r] = ask[r].email]
               /\ identities' = [identities EXCEPT ![ask[r].subject] = r]
<1>1. phase[r] = "register" /\ UNCHANGED <<rows, seen>>
  BY DEF bootstrap_register
<1>2. phase[r] \in SignInPhases /\ ask[r] \in SignInAsks
  BY <1>1 DEF SignInPhases, Staged, StagedOf
<1>3. CASE Answer(r, "error") /\ UNCHANGED <<users, identities, answers>>
  <2>1. AccountTypes'
    BY <1>1, <1>3 DEF AccountTypes
  <2> QED
    BY <1>1, <1>2, <1>3, <2>1, SignInAnswers DEF Answers
<1>4. CASE phase' = [phase EXCEPT ![r] = "sign in"] /\ UNCHANGED <<ask, answer, users, identities, answers>>
  <2>1. AccountTypes' /\ "sign in" \in SignInPhases
    BY <1>1, <1>4 DEF AccountTypes, SignInPhases
  <2> QED
    BY <1>1, <1>2, <1>4, <2>1, SignInGoesOn
<1>5. CASE /\ Answer(r, "accepted") /\ record_idempotency(r) /\ Account(r) = None
           /\ users' = [users EXCEPT ![r] = ask[r].email]
           /\ identities' = [identities EXCEPT ![ask[r].subject] = r]
  <2>1. AccountTypes'
    BY <1>1, <1>2, <1>5, SignInPlaces DEF AccountTypes, record_idempotency
  <2> QED
    BY <1>1, <1>2, <1>5, <2>1, SignInAnswers DEF Answers
<1> QED
  BY <1>3, <1>4, <1>5 DEF bootstrap_register

LEMMA TouchEffect ==
  ASSUME RequestTypes, RowTypes, AccountTypes, Staged, NEW r \in Requests, account_bootstrap(r)
  PROVE  /\ AccountEffect(r) /\ UNCHANGED <<identities, answers>> /\ phase[r] = "touch" /\ phase'[r] = "done"
         /\ ask'[r] = ask[r] /\ users' \in {users, Written(r, StoredReplay(r))}
<1>1. phase[r] = "touch" /\ UNCHANGED <<rows, identities, answers, seen>>
  BY DEF account_bootstrap
<1>2. phase[r] \in SignInPhases /\ ask[r] \in SignInAsks
  BY <1>1 DEF SignInPhases, Staged, StagedOf
<1>3. PICK a \in {"duplicate", "error"} : Answer(r, a) /\ users' \in {users, Written(r, StoredReplay(r))}
  BY DEF account_bootstrap
<1>4. AccountTypes'
  BY <1>1, <1>2, <1>3, SignInPlaces DEF AccountTypes, Written
<1> QED
  BY <1>1, <1>2, <1>3, <1>4, SignInAnswers DEF Answers

LEMMA AccountStep ==
  ASSUME RequestTypes, RowTypes, AccountTypes, Staged, AccountNext
  PROVE  \E r \in Requests : AccountEffect(r)
BY ArriveToSignInEffect, RefuseSignInEffect, ReadsEffect, LinkEffect, RegisterEffect, TouchEffect DEF AccountNext

-----------------------------------------------------------------------------
(* The invariant of the keyed endpoints.                                   *)

LEMMA OthersStaged ==
  ASSUME RequestTypes, Staged, NEW r \in Requests, Moves(r), StagedOf(r)', RowsGrow
  PROVE  Staged'
<1> SUFFICES ASSUME NEW q \in Requests \ {r} PROVE StagedOf(q)'
  BY DEF Staged
<1>1. StagedOf(q) /\ ask'[q] = ask[q] /\ phase'[q] = phase[q] /\ answer'[q] = answer[q]
  BY DEF Staged, Moves
<1>2. phase[q] = "overwrite" => Row(q)' # None
  <2>1. SUFFICES ASSUME phase[q] = "overwrite" PROVE Row(q)' # None
    OBVIOUS
  <2>2. <<ask[q].endpoint.reads, ask[q].key>> \in Tables \X Keys /\ Row(q) # None
    BY <1>1, <2>1, Places DEF StagedOf
  <2> QED
    BY <1>1, <2>2 DEF Row, RowsGrow
<1> QED
  BY <1>1, <1>2 DEF StagedOf

LEMMA TypedParts == TypeOK <=> RequestTypes /\ RowTypes /\ AccountTypes
BY DEF TypeOK, RequestTypes, RowTypes, AccountTypes

\* The rows of an answered request stay.
LEMMA OthersInserted ==
  ASSUME Inserted, NEW r \in Requests, Moves(r), RowsGrow,
         InsertedOf(r)'
  PROVE  Inserted'
<1> SUFFICES ASSUME NEW q \in Requests \ {r} PROVE InsertedOf(q)'
  BY DEF Inserted
<1>1. InsertedOf(q) /\ ask'[q] = ask[q] /\ answer'[q] = answer[q]
  BY DEF Inserted, Moves
<1>2. Targets(q)' = Targets(q) /\ Keeps(q)' = Keeps(q)
  BY <1>1 DEF Targets, Keeps
<1> QED
  BY <1>1, <1>2, Places DEF InsertedOf, RowsGrow

\* The inductive invariant of the keyed endpoints.
KeyedInv == RequestTypes /\ RowTypes /\ Staged /\ Inserted /\ Bodied

\* No row changes, and the request that moves promises no more than before.
LEMMA BodiedStays ==
  ASSUME Bodied, NEW r \in Requests, Moves(r), rows' = rows,
         Promises(r)' => ask'[r] \in KeyedAsks /\ ask'[r].body \in Bodies
  PROVE  Bodied'
<1> SUFFICES ASSUME NEW q \in Requests, Promises(q)' PROVE ask'[q] \in KeyedAsks /\ ask'[q].body \in Bodies
  BY DEF Bodied
<1> QED
  BY DEF Bodied, Moves, Promises

LEMMA PromisesStay ==
  ASSUME Bodied, NEW r \in Requests, ask'[r] = ask[r]
  PROVE  Promises(r)' => ask'[r] \in KeyedAsks /\ ask'[r].body \in Bodies
BY DEF Bodied, Promises

LEMMA KeyedInvariant ==
  ASSUME KeyedInv, KeyedNext
  PROVE  KeyedInv'
<1> USE DEF KeyedInv
<1>1. PICK r \in Requests :
        \/ ArrivePublic(r) \/ ArriveEvent(r) \/ ArriveSection(r)
        \/ RefuseConsent(r) \/ RefuseSignature(r) \/ RefuseAccess(r)
        \/ Lose(r) \/ Look(r) \/ Insert(r) \/ Overwrite(r)
  BY DEF KeyedNext
<1>2. KeyedEffect(r)
  BY <1>1, ArriveEffect, FailEffect, LookEffect, InsertEffect, OverwriteEffect
<1>3. RequestTypes' /\ RowTypes' /\ Moves(r) /\ RowsGrow /\ Staged'
  BY <1>2, OthersStaged DEF KeyedEffect
<1>4. SUFFICES InsertedOf(r)' /\ Bodied'
  BY <1>3, OthersInserted
<1>5. CASE ArrivePublic(r) \/ ArriveEvent(r) \/ ArriveSection(r)
  <2>1. ask'[r] \in KeyedAsks /\ phase'[r] = "look" /\ rows' = rows
        /\ (ask'[r].endpoint # create_application => ask'[r].body \in Bodies)
    BY <1>5, ArriveEffect
  <2>2. InsertedOf(r)'
    BY <1>3, <2>1 DEF InsertedOf, Staged, StagedOf
  <2>3. Promises(r)' => ask'[r] \in KeyedAsks /\ ask'[r].body \in Bodies
    BY <2>1, PromisingKeeps DEF Promises
  <2> QED
    BY <1>3, <2>1, <2>2, <2>3, BodiedStays
<1>6. CASE RefuseConsent(r) \/ RefuseSignature(r) \/ RefuseAccess(r) \/ Lose(r)
  <2>1. ask'[r] = ask[r] /\ answer'[r] = "error" /\ rows' = rows
    BY <1>6, FailEffect
  <2>2. InsertedOf(r)'
    BY <2>1 DEF InsertedOf
  <2> QED
    BY <1>3, <2>1, <2>2, BodiedStays, PromisesStay
<1>7. CASE Look(r)
  <2>1. ask'[r] = ask[r] /\ rows' = rows
    BY <1>7, LookEffect
  <2>2. answer'[r] # "accepted"
    BY <1>7 DEF Look, AnswerFromRow, Answer, RequestTypes, Staged, StagedOf
  <2>3. InsertedOf(r)'
    BY <2>2 DEF InsertedOf
  <2> QED
    BY <1>3, <2>1, <2>3, BodiedStays, PromisesStay
<1>8. CASE Insert(r) /\ ~Free(r)
  <2>1. ask'[r] = ask[r] /\ answer'[r] # "accepted" /\ rows' = rows
    BY <1>8, InsertLate
  <2>2. InsertedOf(r)'
    BY <2>1 DEF InsertedOf
  <2> QED
    BY <1>3, <2>1, <2>2, BodiedStays, PromisesStay
<1>9. CASE Insert(r) /\ Free(r)
  <2> DEFINE record == [body |-> ask[r].body, by |-> r]
  <2>1. /\ ask'[r] = ask[r] /\ ask[r] \in KeyedAsks
        /\ \A t \in Tables \X Keys : rows'[t] = IF t \in Targets(r) THEN record ELSE rows[t]
    BY <1>9, InsertFresh
  <2>2. record \in Records /\ record # None
    BY <2>1, Asks, RecordFacts
  <2>3. Targets(r)' = Targets(r) /\ Targets(r) \subseteq Tables \X Keys
    BY <2>1, Places DEF Targets
  <2>4. InsertedOf(r)'
    BY <2>1, <2>2, <2>3 DEF InsertedOf
  <2>5. ASSUME NEW t \in PromisedTables \X Keys, rows'[t] # None PROVE rows'[t].body \in Bodies
    <3>1. t \in Tables \X Keys
      BY EndpointFacts, PromisingKeeps DEF PromisedTables, Shaped
    <3>2. CASE t \in Targets(r)
      <4>1. ask[r].endpoint \in Promising
        BY <2>1, <3>2, Asks, PromisedWrites DEF Targets
      <4>2. ask[r].body \in Bodies
        BY <2>1, <4>1, Asks DEF Bodied, Promises
      <4> QED
        BY <2>1, <3>1, <3>2, <4>2
    <3>3. CASE t \notin Targets(r)
      BY <2>1, <2>5, <3>1, <3>3 DEF Bodied
    <3> QED
      BY <3>2, <3>3
  <2>6. ASSUME NEW q \in Requests, Promises(q)' PROVE ask'[q] \in KeyedAsks /\ ask'[q].body \in Bodies
    BY <1>3, <2>1, <2>6 DEF Bodied, Promises, Moves
  <2> QED
    BY <2>4, <2>5, <2>6 DEF Bodied
<1>10. CASE Overwrite(r)
  <2> DEFINE at == <<ask[r].endpoint.reads, ask[r].key>>
  <2>1. /\ ask'[r] = ask[r] /\ ask[r] \in KeyedAsks /\ ask[r].endpoint.overwrites # "never"
        /\ \A t \in Tables \X Keys : t # at => rows'[t] = rows[t]
    BY <1>10, OverwriteEffect
  <2>2. InsertedOf(r)'
    BY <2>1 DEF InsertedOf, Keeps
  <2>3. ASSUME NEW t \in PromisedTables \X Keys PROVE t \in Tables \X Keys /\ t # at
    <3>1. t \in Tables \X Keys
      BY EndpointFacts, PromisingKeeps DEF PromisedTables, Shaped
    <3>2. ask[r].endpoint.reads \notin PromisedTables
      <4>1. ask[r].endpoint \in Endpoints
        BY <2>1, Asks
      <4> QED
        BY <2>1, <4>1 DEF PromisedTables, Promising
    <3> QED
      BY <3>1, <3>2
  <2>4. ASSUME NEW q \in Requests, Promises(q)' PROVE ask'[q] \in KeyedAsks /\ ask'[q].body \in Bodies
    BY <1>3, <2>1, <2>4 DEF Bodied, Promises, Moves
  <2> QED
    BY <2>1, <2>2, <2>3, <2>4 DEF Bodied
<1> QED
  BY <1>1, <1>5, <1>6, <1>7, <1>8, <1>9, <1>10

\* A first call leaves the rows alone.
LEMMA AccountsKeepRows ==
  ASSUME KeyedInv, NEW r \in Requests, AccountEffect(r)
  PROVE  KeyedInv'
<1> USE DEF KeyedInv
<1>1. RowsGrow
  BY DEF AccountEffect, RowsGrow
<1>2. Staged'
  BY <1>1, OthersStaged DEF AccountEffect
<1>3. InsertedOf(r)' /\ ~Promises(r)'
  BY Asks, SignInStandsApart DEF AccountEffect, InsertedOf, Promises, Promising
<1>4. Inserted'
  BY <1>1, <1>3, OthersInserted DEF AccountEffect
<1>5. Bodied'
  BY <1>3, BodiedStays DEF AccountEffect
<1> QED
  BY <1>2, <1>4, <1>5 DEF AccountEffect

-----------------------------------------------------------------------------
(* The accounts.                                                           *)

\* What a token has shown stays shown.
LEMMA ShownStays ==
  ASSUME Staged, NEW r \in Requests, Moves(r), NEW s, NEW e, Shown(s, e)
  PROVE  Shown(s, e)'
<1>1. PICK q \in Requests : Admitted(q) /\ ask[q].subject = s /\ ask[q].email = e
  BY DEF Shown
<1>2. q # r
  BY <1>1 DEF Moves, Admitted, Staged, StagedOf
<1>3. Admitted(q)' /\ ask'[q] = ask[q]
  BY <1>1, <1>2 DEF Moves, Admitted
<1> QED
  BY <1>1, <1>3 DEF Shown

\* Steps that change no account.
LEMMA AccountsStay ==
  ASSUME Staged, Linked, Asserted, NEW r \in Requests, Moves(r),
         UNCHANGED <<users, identities, answers>>,
         phase'[r] \in {"link", "touch"} => Account(r)' # None,
         phase'[r] = "touch" => StoredReplay(r)' # None
  PROVE  Linked' /\ Asserted'
<1>1. \A q \in Requests \ {r} : Account(q)' = Account(q) /\ StoredReplay(q)' = StoredReplay(q) /\ phase'[q] = phase[q]
  BY DEF Moves, Account, StoredReplay
<1>2. \A q \in Requests : phase[q] = "done" => phase'[q] = "done"
  BY DEF Moves
<1>3. Linked'
  BY <1>1, <1>2 DEF Linked
<1>4. Asserted'
  BY ShownStays DEF Asserted
<1> QED
  BY <1>3, <1>4

\* The account of a known person gets an address that its token has shown.
LEMMA AccountWritten ==
  ASSUME Staged, AccountTypes, Linked, Asserted, NEW r \in Requests, Moves(r), ask[r] \in SignInAsks, ask'[r] = ask[r],
         phase'[r] = "done", Account(r) # None, NEW e \in Emails, Shown(ask[r].subject, e)',
         users' \in {users, [users EXCEPT ![Account(r)] = e]}, identities' = identities,
         answers' \in {answers, [answers EXCEPT ![<<ask[r].subject, ask[r].key>>] = e]}
  PROVE  Linked' /\ Asserted'
<1> DEFINE at == <<ask[r].subject, ask[r].key>>
<1>1. ask[r].subject \in Subjects /\ at \in Subjects \X Calls /\ Account(r) \in Requests /\ e # None
  BY SignInPlaces, FrontAssumption
<1>2. \A u \in Requests : users'[u] # None <=> users[u] # None
  BY <1>1 DEF AccountTypes, Linked, Account
<1>3. \A s \in Subjects, k \in Calls : <<s, k>> # at => answers'[<<s, k>>] = answers[<<s, k>>]
  BY DEF AccountTypes
<1>4. \A s \in Subjects, k \in Calls : <<s, k>> = at => s = ask[r].subject
  OBVIOUS
<1>5. \A q \in Requests \ {r} : ask'[q] = ask[q] /\ phase'[q] = phase[q]
  BY DEF Moves
<1>6. \A s \in Subjects, k \in Calls : answers[<<s, k>>] # None => answers'[<<s, k>>] # None
  BY <1>1 DEF AccountTypes
<1>7. ASSUME NEW q \in Requests PROVE
        /\ phase'[q] \in {"link", "touch"} => Account(q)' # None
        /\ phase'[q] = "touch" => StoredReplay(q)' # None
  <2>1. CASE q = r
    BY <2>1
  <2>2. CASE q # r
    <3>1. ask[q] \in SignInAsks \/ phase[q] \notin {"link", "touch"}
      BY <2>2 DEF Staged, StagedOf, SignInPhases
    <3> QED
      BY <2>2, <3>1, <1>5, <1>6, Asks DEF Linked, Account, StoredReplay
  <2> QED
    BY <2>1, <2>2
<1>8. Linked'
  <2>1. \A u \in Requests : users'[u] # None => phase'[u] = "done" /\ \E s \in Subjects : identities'[s] = u
    BY <1>2, <1>5 DEF Linked
  <2>2. \A s \in Subjects : identities'[s] # None => identities[s] \in Requests /\ users'[identities'[s]] # None
    BY <1>2 DEF Linked, AccountTypes
  <2>3. \A s, t \in Subjects : identities'[s] # None /\ identities'[s] = identities'[t] => s = t
    BY DEF Linked
  <2>4. \A s \in Subjects, k \in Calls : answers'[<<s, k>>] # None => identities'[s] # None
    <3> SUFFICES ASSUME NEW s \in Subjects, NEW k \in Calls, answers'[<<s, k>>] # None PROVE identities[s] # None
      OBVIOUS
    <3>1. CASE <<s, k>> = at
      BY <3>1 DEF Account
    <3>2. CASE <<s, k>> # at
      BY <3>2, <1>3 DEF Linked
    <3> QED
      BY <3>1, <3>2
  <2> QED
    BY <1>7, <2>1, <2>2, <2>3, <2>4 DEF Linked
<1>9. ASSUME NEW s \in Subjects, identities'[s] # None PROVE Shown(s, users[identities[s]])'
  <2>1. identities[s] \in Requests /\ Shown(s, users[identities[s]])
    BY <1>9 DEF Asserted, AccountTypes
  <2>2. CASE users'[identities[s]] = users[identities[s]]
    BY <2>1, <2>2, ShownStays
  <2>3. CASE users'[identities[s]] # users[identities[s]]
    <3>1. identities[s] = Account(r) /\ users'[identities[s]] = e
      BY <2>1, <2>3 DEF AccountTypes
    <3>2. s = ask[r].subject
      BY <1>1, <1>9, <3>1 DEF Linked, Account
    <3> QED
      BY <3>1, <3>2
  <2> QED
    BY <2>2, <2>3
<1>10. ASSUME NEW s \in Subjects, NEW k \in Calls, answers'[<<s, k>>] # None
       PROVE  Shown(s, answers[<<s, k>>])'
  <2>1. CASE answers'[<<s, k>>] = answers[<<s, k>>]
    BY <1>10, <2>1, ShownStays DEF Asserted
  <2>2. CASE answers'[<<s, k>>] # answers[<<s, k>>]
    <3>1. <<s, k>> = at /\ answers'[<<s, k>>] = e
      BY <2>2, <1>1, <1>3 DEF AccountTypes
    <3> QED
      BY <3>1
  <2> QED
    BY <2>1, <2>2
<1> QED
  BY <1>8, <1>9, <1>10 DEF Asserted

\* A new account belongs to the person that had none.
LEMMA AccountRegistered ==
  ASSUME Staged, AccountTypes, AccountTypes', Linked, Asserted, NEW r \in Requests, Moves(r),
         ask[r] \in SignInAsks, ask'[r] = ask[r],
         phase'[r] = "done", answer'[r] = "accepted", Account(r) = None, record_idempotency(r),
         users' = [users EXCEPT ![r] = ask[r].email],
         identities' = [identities EXCEPT ![ask[r].subject] = r]
  PROVE  Linked' /\ Asserted'
<1> DEFINE own == ask[r].subject
           at == <<own, ask[r].key>>
<1>1. own \in Subjects /\ at \in Subjects \X Calls /\ ask[r].email \in Emails /\ ask[r].email # None /\ r # None
  BY SignInPlaces, FrontAssumption, KeyedAssumption
<1>2. identities[own] = None /\ users[r] = None
  BY DEF Account, Linked, Moves
<1>3. \A s \in Subjects : identities[s] # r
  BY <1>1, <1>2 DEF Linked
<1>4. /\ users'[r] = ask[r].email /\ \A u \in Requests \ {r} : users'[u] = users[u]
      /\ identities'[own] = r /\ \A s \in Subjects \ {own} : identities'[s] = identities[s]
      /\ answers'[at] = ask[r].email
      /\ \A s \in Subjects, k \in Calls : <<s, k>> # at => answers'[<<s, k>>] = answers[<<s, k>>]
  BY <1>1 DEF AccountTypes, record_idempotency
<1>5. \A q \in Requests \ {r} : ask'[q] = ask[q] /\ phase'[q] = phase[q]
  BY DEF Moves
<1>6. Admitted(r)' /\ ask'[r].subject = own /\ ask'[r].email = ask[r].email
  BY Asks DEF Admitted
<1>7. \A s \in Subjects, k \in Calls : <<s, k>> = at => s = own
  OBVIOUS
<1> HIDE DEF own, at
<1>8. ASSUME NEW q \in Requests PROVE
        /\ phase'[q] \in {"link", "touch"} => Account(q)' # None
        /\ phase'[q] = "touch" => StoredReplay(q)' # None
  <2>1. SUFFICES ASSUME q # r, phase[q] \in {"link", "touch"}
                 PROVE  Account(q)' # None /\ (phase[q] = "touch" => StoredReplay(q)' # None)
    BY <1>5
  <2>2. ask[q] \in SignInAsks
    BY <2>1 DEF Staged, StagedOf, SignInPhases
  <2>3. Account(q) # None /\ (phase[q] = "touch" => StoredReplay(q) # None)
    BY <2>1 DEF Linked
  <2>4. \A s \in Subjects : identities[s] # None => identities'[s] # None
    BY <1>1, <1>4
  <2>5. \A s \in Subjects, k \in Calls : answers[<<s, k>>] # None => answers'[<<s, k>>] # None
    BY <1>1, <1>4
  <2> QED
    BY <1>5, <2>1, <2>2, <2>3, <2>4, <2>5, Asks DEF Account, StoredReplay
<1>9. Linked'
  <2>1. ASSUME NEW u \in Requests, users'[u] # None
        PROVE  phase'[u] = "done" /\ \E s \in Subjects : identities'[s] = u
    <3>1. CASE u = r
      BY <1>1, <1>4, <3>1
    <3>2. CASE u # r
      BY <1>2, <1>4, <1>5, <2>1, <3>2, KeyedAssumption DEF Linked
    <3> QED
      BY <3>1, <3>2
  <2>2. ASSUME NEW s \in Subjects, identities'[s] # None PROVE users'[identities'[s]] # None
    BY <1>1, <1>3, <1>4, <2>2 DEF Linked, AccountTypes
  <2>3. ASSUME NEW s \in Subjects, NEW t \in Subjects, identities'[s] # None, identities'[s] = identities'[t]
        PROVE  s = t
    BY <1>3, <1>4, <2>3 DEF Linked
  <2>4. ASSUME NEW s \in Subjects, NEW k \in Calls, answers'[<<s, k>>] # None PROVE identities'[s] # None
    BY <1>1, <1>4, <1>7, <2>4 DEF Linked
  <2> QED
    BY <1>8, <2>1, <2>2, <2>3, <2>4 DEF Linked
<1>10. ASSUME NEW s \in Subjects, identities'[s] # None PROVE Shown(s, users[identities[s]])'
  <2>1. CASE s = own
    BY <1>1, <1>4, <1>6, <2>1 DEF Shown
  <2>2. CASE s # own
    <3>1. identities'[s] = identities[s] /\ identities[s] \in Requests \ {r} /\ identities[s] # None
      BY <1>3, <1>4, <1>10, <2>2 DEF AccountTypes
    <3>2. users'[identities'[s]] = users[identities[s]] /\ Shown(s, users[identities[s]])
      BY <1>4, <3>1 DEF Asserted
    <3> QED
      BY <3>2, ShownStays
  <2> QED
    BY <2>1, <2>2
<1>11. ASSUME NEW s \in Subjects, NEW k \in Calls, answers'[<<s, k>>] # None
       PROVE  Shown(s, answers[<<s, k>>])'
  <2>1. CASE <<s, k>> = at
    BY <1>1, <1>4, <1>6, <1>7, <2>1 DEF Shown
  <2>2. CASE <<s, k>> # at
    BY <1>4, <1>11, <2>2, ShownStays DEF Asserted
  <2> QED
    BY <2>1, <2>2
<1> QED
  BY <1>9, <1>10, <1>11 DEF Asserted

LEMMA AccountInvariant ==
  ASSUME IInv, AccountNext
  PROVE  IInv'
<1> USE DEF IInv
<1>1. RequestTypes /\ RowTypes /\ AccountTypes /\ KeyedInv
  BY TypedParts DEF KeyedInv
<1>2. ASSUME NEW r \in Requests, AccountEffect(r), Linked' /\ Asserted' PROVE IInv'
  <2>1. KeyedInv' /\ AccountTypes'
    BY <1>1, <1>2, AccountsKeepRows DEF AccountEffect
  <2> QED
    BY <1>2, <2>1 DEF KeyedInv, TypeOK, RequestTypes, RowTypes, AccountTypes
<1>3. CASE \E r \in Requests, s \in Subjects, e \in Emails, k \in Calls : ArriveToSignIn(r, s, e, k)
  <2>1. PICK r \in Requests, s \in Subjects, e \in Emails, k \in Calls : ArriveToSignIn(r, s, e, k)
    BY <1>3
  <2>2. AccountEffect(r) /\ UNCHANGED accounts /\ phase'[r] = "sign in"
    BY <1>1, <2>1, ArriveToSignInEffect
  <2>3. Linked' /\ Asserted'
    BY <2>2, AccountsStay DEF accounts, AccountEffect
  <2> QED
    BY <1>2, <2>2, <2>3
<1>4. CASE \E r \in Requests : RefuseSignIn(r)
  <2>1. PICK r \in Requests : RefuseSignIn(r)
    BY <1>4
  <2>2. AccountEffect(r) /\ UNCHANGED accounts /\ phase'[r] = "done"
    BY <1>1, <2>1, RefuseSignInEffect
  <2>3. Linked' /\ Asserted'
    BY <2>2, AccountsStay DEF accounts, AccountEffect
  <2> QED
    BY <1>2, <2>2, <2>3
<1>5. CASE \E r \in Requests : bootstrap_reads(r)
  <2>1. PICK r \in Requests : bootstrap_reads(r)
    BY <1>5
  <2>2. /\ AccountEffect(r) /\ UNCHANGED <<users, identities, answers>> /\ ask'[r] = ask[r]
        /\ (phase'[r] = "link" => Account(r) # None) /\ (phase'[r] = "touch" => StoredReplay(r) # None)
    BY <1>1, <2>1, ReadsEffect
  <2>3. Account(r)' = Account(r) /\ StoredReplay(r)' = StoredReplay(r)
    BY <2>2 DEF Account, StoredReplay
  <2>4. StoredReplay(r) # None => Account(r) # None
    BY <2>2, Asks DEF Linked, Account, StoredReplay, AccountEffect
  <2>5. Linked' /\ Asserted'
    BY <2>2, <2>3, <2>4, AccountsStay DEF AccountEffect
  <2> QED
    BY <1>2, <2>2, <2>5
<1>6. CASE \E r \in Requests : bootstrap_link(r)
  <2>1. PICK r \in Requests : bootstrap_link(r)
    BY <1>6
  <2>2. /\ AccountEffect(r) /\ UNCHANGED identities /\ phase[r] = "link" /\ phase'[r] = "done" /\ ask'[r] = ask[r]
        /\ \/ UNCHANGED <<users, answers>>
           \/ answer'[r] = "accepted" /\ record_idempotency(r) /\ users' = Written(r, ask[r].email)
    BY <1>1, <2>1, LinkEffect
  <2>3. CASE UNCHANGED <<users, answers>>
    <3>1. Linked' /\ Asserted'
      BY <2>2, <2>3, AccountsStay DEF AccountEffect
    <3> QED
      BY <1>2, <2>2, <3>1
  <2>4. CASE answer'[r] = "accepted" /\ record_idempotency(r) /\ users' = Written(r, ask[r].email)
    <3>1. PICK e \in Emails : e = ask[r].email
      BY <2>2, Asks DEF AccountEffect
    <3>2. PICK s \in Subjects : s = ask[r].subject
      BY <2>2, Asks DEF AccountEffect
    <3>3. Admitted(r)' /\ ask'[r].subject = s /\ ask'[r].email = e
      BY <2>2, <2>4, <3>1, <3>2, Asks DEF Admitted, AccountEffect
    <3>4. Shown(s, e)'
      BY <3>3 DEF Shown
    <3>5. Account(r) # None
      BY <2>2 DEF Linked
    <3>6. Linked' /\ Asserted'
      BY <1>1, <2>2, <2>4, <3>1, <3>2, <3>4, <3>5, AccountWritten DEF AccountEffect, Written, record_idempotency
    <3> QED
      BY <1>2, <2>2, <3>6
  <2> QED
    BY <2>2, <2>3, <2>4
<1>7. CASE \E r \in Requests : bootstrap_register(r)
  <2>1. PICK r \in Requests : bootstrap_register(r)
    BY <1>7
  <2>2. /\ AccountEffect(r) /\ ask'[r] = ask[r]
        /\ \/ phase'[r] \in {"sign in", "done"} /\ UNCHANGED <<users, identities, answers>>
           \/ /\ phase'[r] = "done" /\ answer'[r] = "accepted" /\ Account(r) = None
              /\ record_idempotency(r) /\ users' = [users EXCEPT ![r] = ask[r].email]
              /\ identities' = [identities EXCEPT ![ask[r].subject] = r]
    BY <1>1, <2>1, RegisterEffect
  <2>3. CASE phase'[r] \in {"sign in", "done"} /\ UNCHANGED <<users, identities, answers>>
    <3>1. Linked' /\ Asserted'
      BY <2>2, <2>3, AccountsStay DEF AccountEffect
    <3> QED
      BY <1>2, <2>2, <3>1
  <2>4. CASE ~(phase'[r] \in {"sign in", "done"} /\ UNCHANGED <<users, identities, answers>>)
    <3>1. Linked' /\ Asserted'
      BY <1>1, <2>2, <2>4, AccountRegistered DEF AccountEffect
    <3> QED
      BY <1>2, <2>2, <3>1
  <2> QED
    BY <2>3, <2>4
<1>8. CASE \E r \in Requests : account_bootstrap(r)
  <2>1. PICK r \in Requests : account_bootstrap(r)
    BY <1>8
  <2>2. /\ AccountEffect(r) /\ UNCHANGED <<identities, answers>> /\ phase[r] = "touch" /\ phase'[r] = "done"
        /\ ask'[r] = ask[r] /\ users' \in {users, Written(r, StoredReplay(r))}
    BY <1>1, <2>1, TouchEffect
  <2>3. ask[r] \in SignInAsks /\ Account(r) # None /\ StoredReplay(r) # None
    BY <2>2 DEF AccountEffect, Linked
  <2>4. PICK e \in Emails : e = StoredReplay(r)
    BY <1>1, <2>3, SignInPlaces
  <2>5. PICK s \in Subjects : s = ask[r].subject
    BY <1>1, <2>3, SignInPlaces
  <2>6. Shown(s, e)
    BY <2>3, <2>4, <2>5, Asks DEF Asserted, StoredReplay
  <2>7. Shown(s, e)'
    BY <2>2, <2>6, ShownStays DEF AccountEffect
  <2>8. Linked' /\ Asserted'
    BY <1>1, <2>2, <2>3, <2>4, <2>5, <2>7, AccountWritten DEF AccountEffect, Written
  <2> QED
    BY <1>2, <2>2, <2>8
<1> QED
  BY <1>3, <1>4, <1>5, <1>6, <1>7, <1>8 DEF AccountNext

-----------------------------------------------------------------------------
(* The promise.                                                            *)

\* The variables of KeyedPromise, seen from here.
AskedOf(r) ==
  IF Promises(r)
  THEN [slot |-> <<ask[r].endpoint.reads, ask[r].key>>, body |-> ask[r].body,
        strict |-> ask[r].endpoint.compares]
  ELSE None

SaidOf(r) ==
  IF ~Promises(r) THEN "none"
  ELSE IF answer[r] \in {"conflict", "error"} THEN "refused" ELSE answer[r]

StoredAt(s) == IF rows[s] = None THEN None ELSE rows[s].body

Slots == PromisedTables \X Keys
Asked == [r \in Requests |-> AskedOf(r)]
Stored == [s \in Slots |-> StoredAt(s)]
Said == [r \in Requests |-> SaidOf(r)]

LEMMA SlotFacts == Slots \subseteq Tables \X Keys
BY EndpointFacts, PromisingKeeps DEF Slots, PromisedTables, Shaped

\* A promising request and its slot.
LEMMA PromiserFacts ==
  ASSUME KeyedInv, NEW r \in Requests, Promises(r)
  PROVE  /\ ask[r] \in KeyedAsks /\ ask[r].body \in Bodies /\ ask[r].endpoint \in Promising
         /\ <<ask[r].endpoint.reads, ask[r].key>> \in Slots
         /\ AskedOf(r) = [slot |-> <<ask[r].endpoint.reads, ask[r].key>>, body |-> ask[r].body,
                          strict |-> ask[r].endpoint.compares]
         /\ AskedOf(r) # None
<1>1. ask[r] \in KeyedAsks /\ ask[r].body \in Bodies /\ ask[r].endpoint \in Promising
  BY DEF KeyedInv, Bodied, Promises
<1>2. <<ask[r].endpoint.reads, ask[r].key>> \in Slots
  BY <1>1, Asks DEF Slots, PromisedTables
<1>3. AskedOf(r) \in [slot : Tables \X Keys, body : Bodies, strict : BOOLEAN]
  BY <1>1, <1>2, Asks, SlotFacts, EndpointFacts DEF AskedOf, Shaped
<1> QED
  BY <1>1, <1>2, <1>3, KeyedAssumption DEF AskedOf

\* Only the request that moves asks or is answered.
LEMMA PromiseMoves ==
  ASSUME NEW r \in Requests, Moves(r)
  PROVE  /\ Asked' = [Asked EXCEPT ![r] = AskedOf(r)']
         /\ Said' = [Said EXCEPT ![r] = SaidOf(r)']
         /\ Asked[r] = AskedOf(r) /\ Said[r] = SaidOf(r)
<1>1. \A q \in Requests \ {r} : AskedOf(q)' = AskedOf(q) /\ SaidOf(q)' = SaidOf(q)
  BY DEF Moves, AskedOf, SaidOf, Promises
<1> QED
  BY <1>1 DEF Asked, Said

LEMMA PromiseStutters ==
  ASSUME NEW r \in Requests, Moves(r), AskedOf(r)' = AskedOf(r), SaidOf(r)' = SaidOf(r),
         \A s \in Slots : rows'[s] = rows[s]
  PROVE  UNCHANGED Promise!vars
<1>1. Asked' = Asked /\ Said' = Said
  BY PromiseMoves DEF Asked, Said
<1>2. Stored' = Stored
  BY DEF Stored, StoredAt
<1> QED
  BY <1>1, <1>2 DEF Promise!vars, Asked, Stored, Said, AskedOf, StoredAt, SaidOf, Slots

\* An answer, or none, that leaves the rows as they are.
LEMMA PromiseAnswered ==
  ASSUME KeyedInv, NEW r \in Requests, Moves(r), ask[r] # None, ask'[r] = ask[r], rows' = rows,
         answer'[r] \in {"none", "error", "conflict", "duplicate"},
         answer'[r] = "duplicate" => Row(r) # None /\ Agrees(r)
  PROVE  [Promise!Next]_(Promise!vars)
<1>1. Promises(r)' = Promises(r) /\ AskedOf(r)' = AskedOf(r)
  BY DEF Promises, AskedOf
<1>2. answer[r] = "none" /\ SaidOf(r) = "none"
  BY DEF KeyedInv, Staged, StagedOf, Moves, SaidOf
<1>3. CASE ~Promises(r) \/ answer'[r] = "none"
  <2>1. SaidOf(r)' = SaidOf(r)
    BY <1>1, <1>2, <1>3 DEF SaidOf
  <2> QED
    BY <1>1, <2>1, PromiseStutters
<1>4. CASE Promises(r) /\ answer'[r] # "none"
  <2> DEFINE at == <<ask[r].endpoint.reads, ask[r].key>>
  <2>1. /\ AskedOf(r) = [slot |-> at, body |-> ask[r].body, strict |-> ask[r].endpoint.compares]
        /\ AskedOf(r) # None /\ at \in Slots /\ ask[r].body \in Bodies
    BY <1>4, PromiserFacts
  <2>2. /\ Asked' = Asked /\ Said' = [Said EXCEPT ![r] = SaidOf(r)'] /\ Stored' = Stored
        /\ Asked[r] = AskedOf(r) /\ Said[r] = "none"
    BY <1>1, <1>2, PromiseMoves DEF Asked, Stored, StoredAt
  <2>3. CASE answer'[r] = "duplicate"
    <3>1. SaidOf(r)' = "duplicate"
      BY <1>1, <1>4, <2>3 DEF SaidOf
    <3>2. rows[at] # None /\ rows[at].body \in Bodies /\ Stored[at] = rows[at].body
      BY <2>1, <2>3 DEF Row, KeyedInv, Bodied, Slots, Stored, StoredAt
    <3>3. Stored[at] # None /\ (ask[r].endpoint.compares => Stored[at] = ask[r].body)
      BY <2>1, <2>3, <3>2, KeyedAssumption DEF Agrees, Row
    <3>4. /\ Asked[r] # None /\ Said[r] = "none" /\ Stored[Asked[r].slot] # None
          /\ Asked[r].strict => Stored[Asked[r].slot] = Asked[r].body
          /\ Said' = [Said EXCEPT ![r] = "duplicate"] /\ UNCHANGED <<Asked, Stored>>
      BY <2>1, <2>2, <3>1, <3>3
    <3>5. Promise!Repeat(r)
      BY <3>4 DEF Promise!Repeat, Promise!Pending, Asked, Stored, Said, AskedOf, StoredAt, SaidOf, Slots
    <3> QED
      BY <3>5 DEF Promise!Next
  <2>4. CASE answer'[r] # "duplicate"
    <3>1. SaidOf(r)' = "refused"
      BY <1>1, <1>4, <2>4 DEF SaidOf
    <3>2. /\ Asked[r] # None /\ Said[r] = "none"
          /\ Said' = [Said EXCEPT ![r] = "refused"] /\ UNCHANGED <<Asked, Stored>>
      BY <2>1, <2>2, <3>1
    <3>3. Promise!Refuse(r)
      BY <3>2 DEF Promise!Refuse, Promise!Pending, Asked, Stored, Said, AskedOf, StoredAt, SaidOf, Slots
    <3> QED
      BY <3>3 DEF Promise!Next
  <2> QED
    BY <2>3, <2>4
<1> QED
  BY <1>3, <1>4

LEMMA PromiseAsked ==
  ASSUME KeyedInv, KeyedInv', NEW r \in Requests, Moves(r), ask[r] = None, rows' = rows,
         phase'[r] # "done"
  PROVE  [Promise!Next]_(Promise!vars)
<1>1. AskedOf(r) = None /\ SaidOf(r) = "none" /\ SaidOf(r)' = "none"
  BY DEF KeyedInv, Staged, StagedOf, AskedOf, SaidOf, Promises
<1>2. CASE ~Promises(r)'
  <2>1. AskedOf(r)' = None
    BY <1>2 DEF AskedOf
  <2> QED
    BY <1>1, <2>1, PromiseStutters
<1>3. CASE Promises(r)'
  <2>1. /\ ask'[r] \in KeyedAsks /\ ask'[r].body \in Bodies /\ ask'[r].endpoint \in Promising
    BY <1>3 DEF KeyedInv, Bodied, Promises
  <2>2. PICK slot \in Slots, body \in Bodies, strict \in BOOLEAN :
          AskedOf(r)' = [slot |-> slot, body |-> body, strict |-> strict]
    <3>1. <<ask'[r].endpoint.reads, ask'[r].key>> \in Slots /\ ask'[r].endpoint.compares \in BOOLEAN
      BY <2>1, Asks, PromisingKeeps, EndpointFacts DEF Slots, PromisedTables, Shaped
    <3> QED
      BY <1>3, <2>1, <3>1 DEF AskedOf
  <2>3. /\ Asked[r] = None /\ Asked' = [Asked EXCEPT ![r] = [slot |-> slot, body |-> body, strict |-> strict]]
        /\ Said' = Said /\ Stored' = Stored
    BY <1>1, <2>2, PromiseMoves DEF Said, Stored, StoredAt
  <2>4. Promise!Ask(r)
    <3>1. /\ Asked[r] = None /\ UNCHANGED <<Stored, Said>>
          /\ \E sl \in Slots, bo \in Bodies, st \in BOOLEAN :
               Asked' = [Asked EXCEPT ![r] = [slot |-> sl, body |-> bo, strict |-> st]]
      BY <2>3
    <3> QED
      BY <3>1 DEF Promise!Ask, Asked, Stored, Said, AskedOf, StoredAt, SaidOf, Slots
  <2> QED
    BY <2>4 DEF Promise!Next
<1> QED
  BY <1>2, <1>3

LEMMA PromiseInserted ==
  ASSUME KeyedInv, NEW r \in Requests, Insert(r), Free(r)
  PROVE  [Promise!Next]_(Promise!vars)
<1> DEFINE record == [body |-> ask[r].body, by |-> r]
<1>1. /\ Moves(r) /\ ask'[r] = ask[r] /\ answer'[r] = "accepted" /\ ask[r] \in KeyedAsks
      /\ \A t \in Tables \X Keys : rows'[t] = IF t \in Targets(r) THEN record ELSE rows[t]
  BY InsertFresh DEF KeyedInv, KeyedEffect
<1>2. Promises(r)' = Promises(r) /\ AskedOf(r)' = AskedOf(r)
  BY <1>1 DEF Promises, AskedOf
<1>3. answer[r] = "none" /\ SaidOf(r) = "none"
  BY <1>1 DEF KeyedInv, Staged, StagedOf, Moves, SaidOf
<1>4. ASSUME NEW t \in Targets(r), t \in Slots
      PROVE  Promises(r) /\ t = <<ask[r].endpoint.reads, ask[r].key>>
  BY <1>1, <1>4, Asks, PromisedWrites DEF Targets, Slots, Promises
<1>5. CASE ~Promises(r)
  <2>1. \A s \in Slots : rows'[s] = rows[s]
    BY <1>1, <1>4, <1>5, SlotFacts
  <2>2. SaidOf(r)' = SaidOf(r)
    BY <1>2, <1>3, <1>5 DEF SaidOf
  <2> QED
    BY <1>1, <1>2, <2>1, <2>2, PromiseStutters
<1>6. CASE Promises(r)
  <2> DEFINE at == <<ask[r].endpoint.reads, ask[r].key>>
  <2>1. /\ AskedOf(r) = [slot |-> at, body |-> ask[r].body, strict |-> ask[r].endpoint.compares]
        /\ AskedOf(r) # None /\ at \in Slots /\ ask[r].body \in Bodies
    BY <1>6, PromiserFacts
  <2>2. at \in Targets(r) /\ rows[at] = None /\ rows'[at] = record
    BY <1>1, <2>1, Places, SlotFacts DEF Free
  <2>3. \A s \in Slots : s # at => rows'[s] = rows[s]
    BY <1>1, <1>4, SlotFacts
  <2>4. record # None
    BY <2>1, RecordFacts
  <2> HIDE DEF at
  <2>5. Stored[at] = None /\ Stored' = [Stored EXCEPT ![at] = ask[r].body]
    <3>1. StoredAt(at) = None
      BY <2>2 DEF StoredAt
    <3>2. \A s \in Slots :
            (IF rows'[s] = None THEN None ELSE rows'[s].body) = IF s = at THEN ask[r].body ELSE StoredAt(s)
      BY <2>2, <2>3, <2>4 DEF StoredAt
    <3>3. Stored' = [s \in Slots |-> IF s = at THEN ask[r].body ELSE StoredAt(s)]
      BY <3>2 DEF Stored, StoredAt
    <3> QED
      BY <2>1, <3>1, <3>3 DEF Stored
  <2>6. SaidOf(r)' = "accepted"
    BY <1>1, <1>2, <1>6 DEF SaidOf
  <2>7. /\ Asked' = Asked /\ Said' = [Said EXCEPT ![r] = "accepted"]
        /\ Asked[r] = AskedOf(r) /\ Said[r] = "none"
    BY <1>1, <1>2, <1>3, <2>6, PromiseMoves DEF Asked
  <2>8. /\ Asked[r] # None /\ Said[r] = "none" /\ Stored[Asked[r].slot] = None
        /\ Stored' = [Stored EXCEPT ![Asked[r].slot] = Asked[r].body]
        /\ Said' = [Said EXCEPT ![r] = "accepted"] /\ UNCHANGED Asked
    BY <2>1, <2>5, <2>7
  <2>9. Promise!Accept(r)
    BY <2>8 DEF Promise!Accept, Promise!Pending, Asked, Stored, Said, AskedOf, StoredAt, SaidOf, Slots
  <2> QED
    BY <2>9 DEF Promise!Next
<1> QED
  BY <1>5, <1>6

LEMMA PromiseOverwritten ==
  ASSUME KeyedInv, NEW r \in Requests, Overwrite(r)
  PROVE  [Promise!Next]_(Promise!vars)
<1> DEFINE at == <<ask[r].endpoint.reads, ask[r].key>>
<1>1. /\ Moves(r) /\ ask'[r] = ask[r] /\ ask[r] \in KeyedAsks /\ ask[r].endpoint.overwrites # "never"
      /\ \A t \in Tables \X Keys : t # at => rows'[t] = rows[t]
  BY OverwriteEffect DEF KeyedInv, KeyedEffect
<1>2. ask[r].endpoint \in Endpoints
  BY <1>1, Asks
<1>3. ask[r].endpoint.reads \notin PromisedTables /\ ~Promises(r)
  BY <1>1, <1>2, PromisingKeeps DEF PromisedTables, Promising, Promises
<1>4. \A s \in Slots : rows'[s] = rows[s]
  BY <1>1, <1>3, SlotFacts DEF Slots
<1>5. AskedOf(r)' = AskedOf(r) /\ SaidOf(r)' = SaidOf(r)
  BY <1>1, <1>3 DEF AskedOf, SaidOf, Promises
<1> QED
  BY <1>1, <1>4, <1>5, PromiseStutters

LEMMA PromiseSignedIn ==
  ASSUME KeyedInv, NEW r \in Requests, AccountEffect(r)
  PROVE  [Promise!Next]_(Promise!vars)
<1>1. Moves(r) /\ rows' = rows /\ ask'[r] \in SignInAsks
  BY DEF AccountEffect
<1>2. ~Promises(r)' /\ ~Promises(r)
  BY <1>1, Asks, SignInStandsApart DEF Promises, Promising, Moves
<1>3. AskedOf(r)' = AskedOf(r) /\ SaidOf(r)' = SaidOf(r)
  BY <1>2 DEF AskedOf, SaidOf
<1> QED
  BY <1>1, <1>3, PromiseStutters

LEMMA PromiseKeyed ==
  ASSUME KeyedInv, KeyedInv', KeyedNext
  PROVE  [Promise!Next]_(Promise!vars)
<1> USE DEF KeyedInv
<1>1. PICK r \in Requests :
        \/ ArrivePublic(r) \/ ArriveEvent(r) \/ ArriveSection(r)
        \/ RefuseConsent(r) \/ RefuseSignature(r) \/ RefuseAccess(r)
        \/ Lose(r) \/ Look(r) \/ Insert(r) \/ Overwrite(r)
  BY DEF KeyedNext
<1>2. CASE ArrivePublic(r) \/ ArriveEvent(r) \/ ArriveSection(r)
  <2>1. Moves(r) /\ phase'[r] = "look" /\ rows' = rows
    BY <1>2, ArriveEffect DEF KeyedEffect
  <2>2. ask[r] = None
    BY <1>2 DEF ArrivePublic, ArriveEvent, ArriveSection, Arrive
  <2> QED
    BY <2>1, <2>2, PromiseAsked
<1>3. CASE RefuseConsent(r) \/ RefuseSignature(r) \/ RefuseAccess(r) \/ Lose(r)
  <2>1. Moves(r) /\ ask'[r] = ask[r] /\ ask[r] # None /\ answer'[r] = "error" /\ rows' = rows
    BY <1>3, FailEffect DEF KeyedEffect
  <2> QED
    BY <2>1, PromiseAnswered
<1>4. CASE Look(r)
  <2>1. Moves(r) /\ ask'[r] = ask[r] /\ rows' = rows
    BY <1>4, LookEffect DEF KeyedEffect
  <2>2. ask[r] # None /\ answer[r] = "none"
    BY <1>4 DEF Look, Staged, StagedOf
  <2>3. /\ answer'[r] \in {"none", "duplicate", "conflict"}
        /\ answer'[r] = "duplicate" => Row(r) # None /\ Agrees(r)
    BY <1>4, <2>2 DEF Look, AnswerFromRow, Answer, RequestTypes
  <2> QED
    BY <2>1, <2>2, <2>3, PromiseAnswered
<1>5. CASE Insert(r) /\ Free(r)
  BY <1>5, PromiseInserted
<1>6. CASE Insert(r) /\ ~Free(r)
  <2>1. /\ Moves(r) /\ ask'[r] = ask[r] /\ answer'[r] \in {"duplicate", "conflict", "error"}
        /\ ask[r] # None /\ rows' = rows
        /\ answer'[r] = "duplicate" => Row(r) # None /\ Agrees(r)
    BY <1>6, InsertLate DEF KeyedEffect
  <2> QED
    BY <2>1, PromiseAnswered
<1>7. CASE Overwrite(r)
  BY <1>7, PromiseOverwritten
<1> QED
  BY <1>1, <1>2, <1>3, <1>4, <1>5, <1>6, <1>7

LEMMA InitialInvariant == FrontInit => IInv
<1> SUFFICES ASSUME FrontInit PROVE IInv
  OBVIOUS
<1> USE DEF FrontInit, KeyedInit
<1>1. RequestTypes
  BY DEF RequestTypes, Phases, Answers
<1>2. RowTypes /\ AccountTypes
  BY DEF RowTypes, AccountTypes
<1>3. Staged
  BY DEF Staged, StagedOf, SignInPhases
<1>4. Inserted
  BY DEF Inserted, InsertedOf
<1>5. Bodied
  BY SlotFacts DEF Bodied, Promises, Slots
<1>6. Linked /\ Asserted
  BY DEF Linked, Asserted
<1> QED
  BY <1>1, <1>2, <1>3, <1>4, <1>5, <1>6, TypedParts DEF IInv

LEMMA Inductive ==
  ASSUME IInv, [Next]_vars
  PROVE  IInv'
<1>1. CASE KeyedNext /\ UNCHANGED accounts
  <2>1. RequestTypes /\ RowTypes /\ AccountTypes /\ Staged /\ KeyedInv /\ Linked /\ Asserted
    BY TypedParts DEF IInv, KeyedInv
  <2>2. KeyedInv'
    BY <1>1, <2>1, KeyedInvariant
  <2>3. AccountTypes'
    BY <1>1, <2>1 DEF AccountTypes, accounts
  <2>4. PICK r \in Requests : KeyedEffect(r)
    BY <1>1, <2>1, KeyedStep
  <2>5. phase'[r] \notin {"link", "touch"}
    BY <2>4 DEF KeyedEffect, SignInPhases
  <2>6. Linked' /\ Asserted'
    BY <1>1, <2>1, <2>4, <2>5, AccountsStay DEF accounts, KeyedEffect, KeyedInv
  <2> QED
    BY <2>2, <2>3, <2>6 DEF IInv, KeyedInv, TypeOK, RequestTypes, RowTypes, AccountTypes
<1>2. CASE AccountNext
  BY <1>2, AccountInvariant
<1>3. CASE UNCHANGED vars
  BY <1>3 DEF vars, keyed, accounts, IInv, TypeOK, Staged, StagedOf, Row, Inserted, InsertedOf, Keeps, Targets, Bodied,
     Promises, Linked, Account, StoredReplay, Asserted, Shown, Admitted
<1> QED
  BY <1>1, <1>2, <1>3 DEF Next

\* The stages of every request, the rows and the accounts keep the invariant through
\* every look, insert and overwrite (receive_provider_webhook, bootstrap_account).
LEMMA Invariance == Spec => []IInv
<1>1. FrontInit => IInv
  BY InitialInvariant
<1>2. IInv /\ [Next]_vars => IInv'
  BY Inductive
<1> QED
  BY <1>1, <1>2, PTL DEF Spec

\* Every variable keeps its type: a stored row is a body under the key of a table,
\* a request has the stages of its handler.
THEOREM TypeCorrect == Spec => []TypeOK
<1>1. IInv => TypeOK
  BY DEF IInv
<1> QED
  BY <1>1, Invariance, PTL

\* Of all requests with one key, however they overlap, at most one that keeps
\* what it finds is accepted: the constraint of the table it looks into, or of
\* one it shares, stops the others (create_public_intake, create_lead,
\* receive_provider_webhook and the other endpoints that insert).
THEOREM OneEffect == Spec => []OneEffectPerKey
<1>1. IInv => OneEffectPerKey
  <2> SUFFICES ASSUME IInv, NEW r \in Requests, NEW s \in Requests, Keeps(r), Keeps(s),
                      answer[r] = "accepted", answer[s] = "accepted",
                      NEW t \in Targets(r) \intersect Targets(s)
               PROVE  r = s
    BY DEF OneEffectPerKey
  <2>1. ask[r] \in KeyedAsks /\ ask[s] \in KeyedAsks
    BY Asks, SignInStandsApart DEF IInv, TypeOK, Keeps
  <2> QED
    BY <2>1 DEF IInv, Inserted, InsertedOf
<1> QED
  BY <1>1, Invariance, PTL

\* However first calls overlap, an account has the address that a token of its
\* own person asserted, in a call that was answered (account_bootstrap).
THEOREM OwnAddressKept == Spec => []OwnAddress
<1>1. IInv => OwnAddress
  BY DEF IInv, Asserted, Shown, OwnAddress
<1> QED
  BY <1>1, Invariance, PTL

\* Every user that is stored has a person, and one only: bootstrap_account stores
\* the user and the link to it in one transaction.
THEOREM OneAccount == Spec => []OneAccountPerPerson
<1>1. IInv => OneAccountPerPerson
  <2> SUFFICES ASSUME IInv, NEW u \in Requests, users[u] # None
               PROVE  \E s \in Subjects : identities[s] = u /\ \A t \in Subjects \ {s} : identities[t] # u
    BY DEF OneAccountPerPerson
  <2>1. PICK s \in Subjects : identities[s] = u
    BY DEF IInv, Linked
  <2>2. u # None
    BY KeyedAssumption
  <2> QED
    BY <2>1, <2>2 DEF IInv, Linked
<1> QED
  BY <1>1, Invariance, PTL

\* The endpoints implement KeyedPromise: every step of the system is a step of
\* the promise (a first use of a key, its repetition or a conflict), or none of
\* its business.
THEOREM PromiseKept == Spec => KeepsPromise
<1>1. FrontInit => Promise!Init
  <2> SUFFICES ASSUME FrontInit PROVE Promise!Init
    OBVIOUS
  <2>1. \A r \in Requests : AskedOf(r) = None /\ SaidOf(r) = "none"
    BY DEF FrontInit, KeyedInit, AskedOf, SaidOf, Promises
  <2>2. \A s \in Slots : StoredAt(s) = None
    BY SlotFacts DEF FrontInit, KeyedInit, StoredAt
  <2> QED
    BY <2>1, <2>2 DEF Promise!Init, AskedOf, SaidOf, StoredAt, Slots
<1>2. IInv /\ IInv' /\ [Next]_vars => [Promise!Next]_(Promise!vars)
  <2> SUFFICES ASSUME IInv, IInv', [Next]_vars PROVE [Promise!Next]_(Promise!vars)
    OBVIOUS
  <2>1. KeyedInv /\ KeyedInv' /\ RequestTypes /\ RowTypes /\ AccountTypes /\ Staged
    BY TypedParts DEF IInv, KeyedInv, TypeOK, RequestTypes, RowTypes, AccountTypes
  <2>2. CASE KeyedNext
    BY <2>1, <2>2, PromiseKeyed
  <2>3. CASE AccountNext
    BY <2>1, <2>3, AccountStep, PromiseSignedIn
  <2>4. CASE UNCHANGED vars
    BY <2>4 DEF vars, keyed, Promise!vars, Promises
  <2> QED
    BY <2>2, <2>3, <2>4 DEF Next
<1> QED
  BY <1>1, <1>2, Invariance, PTL DEF Spec, KeepsPromise, Promise!Spec
=============================================================================
