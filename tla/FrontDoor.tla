------------------------------- MODULE FrontDoor -------------------------------
(***************************************************************************)
(* Everything that enters the system by key: the endpoints of RequestKeys  *)
(* and account_bootstrap, the first call of a signed-in person.  Its key   *)
(* has the stored answer, its identity provider's subject the account, and *)
(* an e-mail address belongs to one account at most.  The call commits     *)
(* twice: bootstrap_account stores the account and the answer, the handler *)
(* then writes the answer's e-mail address into the account once more.     *)
(***************************************************************************)
EXTENDS RequestKeys

CONSTANTS
  Calls,     \* idempotency keys of first calls
  Subjects,  \* persons, by issuer and subject of their token
  Emails     \* verified addresses, in lower case

VARIABLES
  users,       \* per user, named by the request that created it, the address
  identities,  \* the user a subject is linked to
  answers,     \* the address in the answer stored per subject and key
  seen         \* the address of its user that a request has read

accounts == <<users, identities, answers, seen>>
vars == <<keyed, accounts>>

SignIn == Endpoint("answers", {}, FALSE, TRUE, "always")

SignInAsks == [endpoint : {SignIn}, key : Calls, subject : Subjects, email : Emails]

ASSUME FrontAssumption == None \notin Emails \union SignInAsks

FrontInit ==
  /\ KeyedInit
  /\ users = [r \in Requests |-> None]
  /\ identities = [s \in Subjects |-> None]
  /\ answers = [s \in Subjects \X Calls |-> None]
  /\ seen = [r \in Requests |-> None]

-----------------------------------------------------------------------------
ArriveToSignIn(r, s, e, k) ==
  /\ ask[r] = None
  /\ ask' = [ask EXCEPT ![r] = [endpoint |-> SignIn, key |-> k, subject |-> s, email |-> e]]
  /\ phase' = [phase EXCEPT ![r] = "sign in"]
  /\ UNCHANGED <<answer, rows, accounts>>

\* The unverified address, the client that may not register, the token of
\* another portal; and the connection lost before a commit.
RefuseSignIn(r) ==
  /\ phase[r] \in {"sign in", "link", "register", "touch"}
  /\ Answer(r, "error")
  /\ UNCHANGED <<rows, accounts>>

\* Another user has the address.
EmailCollision(e, own) == \E u \in Requests \ {own} : users[u] = e

Account(r) == identities[ask[r].subject]

StoredReplay(r) == answers[<<ask[r].subject, ask[r].key>>]

\* Mutant: the account that has the address becomes the person's account.
bootstrap_links(r) ==
  /\ phase[r] = "sign in"
  /\ LET s == ask[r].subject
         e == ask[r].email
     IN IF Account(r) = None /\ EmailCollision(e, None)
        THEN /\ identities' = [identities EXCEPT ![s] = CHOOSE u \in Requests : users[u] = e]
             /\ answers' = [answers EXCEPT ![<<s, ask[r].key>>] = e]
             /\ Answer(r, "accepted")
             /\ UNCHANGED <<users, seen>>
        ELSE /\ phase' = [phase EXCEPT ![r] =
                  IF StoredReplay(r) # None THEN "touch"
                  ELSE IF Account(r) # None THEN "link" ELSE "register"]
             /\ seen' = [seen EXCEPT ![r] = IF Account(r) = None THEN None ELSE users[Account(r)]]
             /\ UNCHANGED <<ask, answer, users, identities, answers>>
  /\ UNCHANGED rows

\* The reads of bootstrap_account: a stored answer first, then the account.
bootstrap_reads(r) ==
  /\ phase[r] = "sign in"
  /\ IF StoredReplay(r) = None /\ EmailCollision(ask[r].email, Account(r))
     THEN Answer(r, "conflict") /\ UNCHANGED seen
     ELSE /\ phase' = [phase EXCEPT ![r] =
               IF StoredReplay(r) # None THEN "touch"
               ELSE IF Account(r) # None THEN "link" ELSE "register"]
          /\ seen' = [seen EXCEPT ![r] = IF Account(r) = None THEN None ELSE users[Account(r)]]
          /\ UNCHANGED <<ask, answer>>
  /\ UNCHANGED <<rows, users, identities, answers>>

\* The answer is stored by the same commit.
record_idempotency(r) == answers' = [answers EXCEPT ![<<ask[r].subject, ask[r].key>>] = ask[r].email]

\* Committing e as the address of the request's user: an address equal to the
\* one that was read is not written.
MayWrite(r, e) == seen[r] = e \/ ~EmailCollision(e, Account(r))

Written(r, e) == IF seen[r] = e THEN users ELSE [users EXCEPT ![Account(r)] = e]

\* A known person; no constraint violation is handled.
bootstrap_link(r) ==
  /\ phase[r] = "link"
  /\ IF StoredReplay(r) = None /\ MayWrite(r, ask[r].email)
     THEN /\ record_idempotency(r)
          /\ users' = Written(r, ask[r].email)
          /\ Answer(r, "accepted")
     ELSE Answer(r, "error") /\ UNCHANGED <<users, answers>>
  /\ UNCHANGED <<rows, identities, seen>>

\* Mutant: the new user is committed before the identity that links it.
register_in_two_commits(r) ==
  /\ phase[r] = "register"
  /\ ~EmailCollision(ask[r].email, None)
  /\ users' = [users EXCEPT ![r] = ask[r].email]
  /\ IF Account(r) = None
     THEN /\ record_idempotency(r)
          /\ identities' = [identities EXCEPT ![ask[r].subject] = r]
          /\ Answer(r, "accepted")
     ELSE /\ phase' = [phase EXCEPT ![r] = "sign in"]
          /\ UNCHANGED <<ask, answer, identities, answers>>
  /\ UNCHANGED <<rows, seen>>

\* An unknown person: the user's insertion fails on its address, outside the
\* try; the identity's insertion makes the call begin again.
bootstrap_register(r) ==
  /\ phase[r] = "register"
  /\ IF EmailCollision(ask[r].email, None)
     THEN Answer(r, "error") /\ UNCHANGED <<users, identities, answers>>
     ELSE IF Account(r) # None
     THEN /\ phase' = [phase EXCEPT ![r] = "sign in"]
          /\ UNCHANGED <<ask, answer, users, identities, answers>>
     ELSE /\ record_idempotency(r)
          /\ users' = [users EXCEPT ![r] = ask[r].email]
          /\ identities' = [identities EXCEPT ![ask[r].subject] = r]
          /\ Answer(r, "accepted")
  /\ UNCHANGED <<rows, seen>>

\* The second commit of account_bootstrap, where it changes something: the
\* address of a stored answer replaces the one that was read.
account_bootstrap(r) ==
  /\ phase[r] = "touch"
  /\ IF MayWrite(r, StoredReplay(r))
     THEN Answer(r, "duplicate") /\ users' = Written(r, StoredReplay(r))
     ELSE Answer(r, "error") /\ UNCHANGED users
  /\ UNCHANGED <<rows, identities, answers, seen>>

AccountNext ==
  \/ \E r \in Requests, s \in Subjects, e \in Emails, k \in Calls : ArriveToSignIn(r, s, e, k)
  \/ \E r \in Requests : RefuseSignIn(r)
  \/ \E r \in Requests : bootstrap_reads(r)
  \/ \E r \in Requests : bootstrap_link(r)
  \/ \E r \in Requests : bootstrap_register(r)
  \/ \E r \in Requests : account_bootstrap(r)

Next ==
  \/ KeyedNext /\ UNCHANGED accounts
  \/ AccountNext

Spec == FrontInit /\ [][Next]_vars

-----------------------------------------------------------------------------
\* Sign-ins that were answered with an account.
Admitted(r) == ask[r] # None /\ "subject" \in DOMAIN ask[r] /\ answer[r] \in {"accepted", "duplicate"}

\* Automatic linking is blocked: whatever first calls, changed addresses and
\* replayed answers overlap, an account has an address that its own person's
\* token asserted.
OwnAddress ==
  \A s \in Subjects : identities[s] # None =>
    \E r \in Requests :
      Admitted(r) /\ ask[r].subject = s /\ ask[r].email = users[identities[s]]

\* Two first calls of one person leave one account, and no user without an
\* identity that would hold the address for ever.
OneAccountPerPerson ==
  \A u \in Requests : users[u] # None =>
    \E s \in Subjects : identities[s] = u /\ \A t \in Subjects \ {s} : identities[t] # u
=============================================================================
