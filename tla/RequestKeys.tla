------------------------------ MODULE RequestKeys ------------------------------
(***************************************************************************)
(* The endpoints that look whether the row they are about to insert exists:*)
(* public intakes and leads by idempotency key, webhooks by event id, the  *)
(* application of a lead and its sections.  Requests run in parallel,      *)
(* without locks: each reads, and commits later; a unique constraint       *)
(* decides who was first.  What differs from endpoint to endpoint is what  *)
(* is compared on a repetition and whether the violated constraint is      *)
(* handled, so an endpoint is a record of these, and a row is the body     *)
(* stored for a key of a table.                                            *)
(***************************************************************************)
EXTENDS Naturals, FiniteSets

CONSTANTS
  Requests,
  Keys,     \* idempotency keys, event ids, leads, subjects: whatever keys the row
  Bodies,   \* payloads, by their hash; the borrower who claims an application
  None

VARIABLES
  ask,    \* the request: an endpoint, a key, a body
  phase,  \* "new", "look" once it has arrived, "insert" or "overwrite" once it
          \* has read, "done"
  answer, \* "none", "accepted", "duplicate", "conflict" or "error"
  rows    \* per table and key the body stored and the request that inserted it

keyed == <<ask, phase, answer, rows>>

-----------------------------------------------------------------------------
(* The endpoints.  reads: the table looked into; writes: that table and    *)
(* those inserted into along with it; compares: a repetition with another  *)
(* body is a conflict; rescues: after a violated constraint the table is   *)
(* read again; overwrites: when an existing row is changed.                *)

Endpoint(reads, along, compares, rescues, overwrites) ==
  [reads |-> reads, writes |-> {reads} \union along, compares |-> compares,
   rescues |-> rescues, overwrites |-> overwrites]

\* The idempotency record comes with the intake, its consents and its event.
create_public_intake == Endpoint("intake record", {}, TRUE, TRUE, "never")

\* The event has the caller's key.
create_lead == Endpoint("lead record", {"LeadSubmitted"}, TRUE, TRUE, "never")

receive_provider_webhook == Endpoint("receipt", {"inbox"}, TRUE, TRUE, "never")

land_payment_webhook == Endpoint("payment receipt", {"payment inbox"}, TRUE, TRUE, "never")

plaid_webhook == Endpoint("plaid receipt", {"PlaidWebhookReceived"}, TRUE, TRUE, "never")

codestra_receipt == Endpoint("codestra inbox", {}, TRUE, TRUE, "never")

\* The table of codestra_receipt, without its comparison and its rescue.
codestra_webhook == Endpoint("codestra inbox", {}, FALSE, FALSE, "never")

middesk_webhook == Endpoint("middesk inbox", {}, FALSE, FALSE, "never")

authorize_credit == Endpoint("credit authorization", {}, TRUE, FALSE, "never")

\* The body is the borrower, or None when the staff asks.
create_application == Endpoint("application", {}, TRUE, FALSE, "unclaimed")

save_business == Endpoint("business", {}, FALSE, FALSE, "always")

save_financial_profile == Endpoint("financial profile", {}, FALSE, FALSE, "always")

update_notification_preferences == Endpoint("preferences", {}, FALSE, FALSE, "always")

\* Reading the preferences stores the default.
notification_preferences == Endpoint("preferences", {}, FALSE, FALSE, "never")

\* By what a request has to show: consent, a signature, or an application of
\* its own.
Consented == {create_public_intake, create_lead}

Signed ==
  {receive_provider_webhook, land_payment_webhook, plaid_webhook, codestra_receipt,
   codestra_webhook, middesk_webhook}

Owned ==
  {authorize_credit, create_application, save_business, save_financial_profile,
   update_notification_preferences, notification_preferences}

Endpoints == Consented \union Signed \union Owned

Tables == UNION {e.writes : e \in Endpoints}

\* What arrives, and what is stored for it.
KeyedAsks == [endpoint : Endpoints, key : Keys, body : Bodies \union {None}]
Records == [body : Bodies \union {None}, by : Requests]

ASSUME KeyedAssumption ==
  /\ None \notin Requests \union Bodies
  /\ None \notin KeyedAsks \union Records
  /\ None \notin [slot : Tables \X Keys, body : Bodies, strict : BOOLEAN]

KeyedInit ==
  /\ ask = [r \in Requests |-> None]
  /\ phase = [r \in Requests |-> "new"]
  /\ answer = [r \in Requests |-> "none"]
  /\ rows = [t \in Tables \X Keys |-> None]

-----------------------------------------------------------------------------
\* A request arrives; one that repeats another is a request of its own.
Arrive(r, e, k, b) ==
  /\ ask[r] = None
  /\ ask' = [ask EXCEPT ![r] = [endpoint |-> e, key |-> k, body |-> b]]
  /\ phase' = [phase EXCEPT ![r] = "look"]
  /\ UNCHANGED <<answer, rows>>

\* A form of the public site, under one of five names.
ArrivePublic(r) == \E e \in Consented, k \in Keys, b \in Bodies : Arrive(r, e, k, b)

\* An event of a provider, on the route of its name or on a generic one.
ArriveEvent(r) == \E e \in Signed, k \in Keys, b \in Bodies : Arrive(r, e, k, b)

ArriveSection(r) ==
  \E e \in Owned, k \in Keys, b \in Bodies \union {None} :
    (b = None => e = create_application) /\ Arrive(r, e, k, b)

Answer(r, a) ==
  /\ answer' = [answer EXCEPT ![r] = a]
  /\ phase' = [phase EXCEPT ![r] = "done"]
  /\ UNCHANGED ask

\* A request refused before anything is looked up.
Refuse(r, endpoints) ==
  /\ phase[r] = "look"
  /\ ask[r].endpoint \in endpoints
  /\ Answer(r, "error")
  /\ UNCHANGED rows

RefuseConsent(r) == Refuse(r, Consented)

\* The signature is wrong or its time stamp too old.
RefuseSignature(r) == Refuse(r, Signed)

RefuseAccess(r) == Refuse(r, Owned)

\* The connection is lost before the commit.
Lose(r) ==
  /\ phase[r] \in {"insert", "overwrite"}
  /\ Answer(r, "error")
  /\ UNCHANGED rows

Row(r) == rows[<<ask[r].endpoint.reads, ask[r].key>>]

\* Mutant: the hash is compared by the first look only.
Agrees_after_look(r) ==
  \/ ~ask[r].endpoint.compares \/ phase[r] = "insert"
  \/ ask[r].body \in {None, Row(r).body}

\* The row found is the one this request would have stored.
Agrees(r) ==
  \/ ~ask[r].endpoint.compares
  \/ ask[r].body \in {None, Row(r).body}

\* The request changes the row it found.
Changes(r) ==
  \/ ask[r].endpoint.overwrites = "always"
  \/ ask[r].endpoint.overwrites = "unclaimed" /\ Row(r).body = None /\ ask[r].body # None

AnswerFromRow(r) == Answer(r, IF Agrees(r) THEN "duplicate" ELSE "conflict")

\* The first statements, before anything is written.
Look(r) ==
  /\ phase[r] = "look"
  /\ IF Row(r) = None \/ Changes(r)
     THEN /\ phase' = [phase EXCEPT ![r] = IF Row(r) = None THEN "insert" ELSE "overwrite"]
          /\ UNCHANGED <<ask, answer>>
     ELSE AnswerFromRow(r)
  /\ UNCHANGED rows

Targets(r) == {<<t, ask[r].key>> : t \in ask[r].endpoint.writes}

\* Mutant: no unique constraint on what the request inserts.
Free_always(r) == TRUE

\* The unique constraints of the tables hold after the insertion.
Free(r) == \A t \in Targets(r) : rows[t] = None

\* flush or commit: all rows or, with a violated constraint, none.
Insert(r) ==
  /\ phase[r] = "insert"
  /\ IF Free(r)
     THEN /\ rows' = [t \in DOMAIN rows |->
                        IF t \in Targets(r) THEN [body |-> ask[r].body, by |-> r] ELSE rows[t]]
          /\ Answer(r, "accepted")
     ELSE /\ IF ask[r].endpoint.rescues /\ Row(r) # None
             THEN AnswerFromRow(r)
             ELSE Answer(r, "error")
          /\ UNCHANGED rows

\* The row that was read is written, whatever became of it since.
Overwrite(r) ==
  /\ phase[r] = "overwrite"
  /\ rows' = [rows EXCEPT ![<<ask[r].endpoint.reads, ask[r].key>>].body = ask[r].body]
  /\ Answer(r, "accepted")

KeyedNext == \E r \in Requests :
  \/ ArrivePublic(r) \/ ArriveEvent(r) \/ ArriveSection(r)
  \/ RefuseConsent(r) \/ RefuseSignature(r) \/ RefuseAccess(r)
  \/ Lose(r) \/ Look(r) \/ Insert(r) \/ Overwrite(r)

-----------------------------------------------------------------------------
\* Requests whose endpoint never changes a row it finds.
Keeps(r) == ask[r] # None /\ ask[r].endpoint.overwrites = "never"

\* However requests with one key overlap, at most one of them has an effect:
\* the intakes, leads, webhooks and authorizations that look up their own row.
OneEffectPerKey ==
  \A r, s \in Requests :
    /\ Keeps(r) /\ Keeps(s)
    /\ answer[r] = "accepted" /\ answer[s] = "accepted"
    /\ Targets(r) \intersect Targets(s) # {}
    => r = s

\* What the endpoints promise, without the sections and the claims, which do
\* change the row they find.
Promising == {e \in Endpoints : \A f \in Endpoints : f.reads = e.reads => f.overwrites = "never"}

PromisedTables == {e.reads : e \in Promising}

Promises(r) == ask[r] # None /\ ask[r].endpoint \in Promising

Promise == INSTANCE KeyedPromise WITH
  Slots <- PromisedTables \X Keys,
  asked <- [r \in Requests |->
    IF Promises(r)
    THEN [slot |-> <<ask[r].endpoint.reads, ask[r].key>>, body |-> ask[r].body,
          strict |-> ask[r].endpoint.compares]
    ELSE None],
  stored <- [s \in PromisedTables \X Keys |-> IF rows[s] = None THEN None ELSE rows[s].body],
  said <- [r \in Requests |->
    IF ~Promises(r) THEN "none"
    ELSE IF answer[r] \in {"conflict", "error"} THEN "refused" ELSE answer[r]]

\* The endpoints keep the promise of KeyedPromise: an accepted repetition, a
\* lost row or a duplicate of a row with another body would break it.
KeepsPromise == Promise!Spec
=============================================================================
