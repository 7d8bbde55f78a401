------------------------------- MODULE PortalDesk -------------------------------
(***************************************************************************)
(* The desks of the borrower portal and of the admin portal: tasks,        *)
(* notifications and conversations about one application.  The admin's     *)
(* handlers lock the row they write (FOR UPDATE) and are one step here,    *)
(* except update_admin_conversation: it reads without a lock and decides   *)
(* on nothing it has read, so its commit, which waits for the row, is the  *)
(* step.  The borrower's handlers read without a lock, so a request of     *)
(* theirs reads in one step and commits in another.  A commit writes the   *)
(* columns whose value differs from what was read and leaves the others to *)
(* whoever wrote last.  A token is accepted by the portal it was issued    *)
(* for: borrowers call the borrower paths, staff the admin paths.  Texts,  *)
(* priorities, the lists and the audit log are left out; of a time the     *)
(* model keeps whether it is set.                                          *)
(***************************************************************************)
EXTENDS FiniteSets, Sequences, Integers

CONSTANTS
  Borrowers, Staff,  \* persons
  OrgOf,             \* the borrower organization of each borrower
  Tasks, Conversations, Notifications,
  None,
  MaxRequests        \* bound: requests begun in a behaviour

People == Borrowers \union Staff
Orgs == {OrgOf[b] : b \in Borrowers}

VARIABLES
  owner,          \* the organization that claimed the application, or None
  tasks, conversations, notifications,
  session,        \* per borrower, what the request under way has read and wants
  served          \* requests begun

vars == <<owner, tasks, conversations, notifications, session, served>>

Statuses == {"OPEN", "IN_PROGRESS", "COMPLETED", "DISMISSED"}

Task == [subject : People \union {None}, user : People \union {None},
         organization : Orgs \union {None}, application : BOOLEAN,
         status : Statuses, completed_at : BOOLEAN]

Conversation == [application : BOOLEAN, organization : Orgs, status : {"OPEN", "CLOSED"},
                 participants : SUBSET People, messages : Seq(People)]

ASSUME DeskAssumption ==
  /\ Borrowers \intersect Staff = {}
  /\ None \notin Orgs /\ None \notin Task /\ None \notin Conversation

Init ==
  /\ owner = None
  /\ tasks = [t \in Tasks |-> None]
  /\ conversations = [c \in Conversations |-> None]
  /\ notifications = [n \in Notifications |-> None]
  /\ session = [b \in Borrowers |-> None]
  /\ served = 0

Begin == served < MaxRequests /\ served' = served + 1

-----------------------------------------------------------------------------
\* The application: its organization reads it, and so does staff.
get_authorized_application(p) ==
  p \in Staff \/ (owner # None /\ owner = OrgOf[p])

\* A borrower who asks for an application nobody owns becomes its owner.
create_application_reads(b) ==
  /\ Begin
  /\ session[b] = None
  /\ owner = None
  /\ session' = [session EXCEPT ![b] = [call |-> "claim"]]
  /\ UNCHANGED <<owner, tasks, conversations, notifications>>

create_application_commits(b) ==
  /\ session[b] # None /\ session[b].call = "claim"
  /\ owner' = OrgOf[b]
  /\ session' = [session EXCEPT ![b] = None]
  /\ UNCHANGED <<tasks, conversations, notifications, served>>

\* The connection or the process is lost before the commit.
Lose(b) ==
  /\ session[b] # None
  /\ session' = [session EXCEPT ![b] = None]
  /\ UNCHANGED <<owner, tasks, conversations, notifications, served>>

-----------------------------------------------------------------------------
(* Tasks *)

BorrowerEdges ==
  {"OPEN"} \X {"IN_PROGRESS", "COMPLETED", "DISMISSED"}
    \union {"IN_PROGRESS"} \X {"OPEN", "COMPLETED", "DISMISSED"}

AdminEdges == BorrowerEdges \union {"COMPLETED", "DISMISSED"} \X {"OPEN"}

authorize_task(b, t) ==
  /\ tasks[t] # None
  /\ \/ tasks[t].subject = b
     \/ tasks[t].user = b
     \/ tasks[t].organization = OrgOf[b]
  /\ tasks[t].application => get_authorized_application(b)

completed_at(status) == status = "COMPLETED"

\* Mutant: the first time of completion is kept.
StampAfter_first(was, to, now) ==
  IF was = completed_at(to) THEN now ELSE completed_at(to)

\* The stamp that a borrower's commit leaves: an unset stamp that stays unset
\* is no change and is not written.
StampAfter(was, to, now) ==
  IF completed_at(to) \/ was THEN completed_at(to) ELSE now

create_admin_task(t) ==
  /\ Begin
  /\ tasks[t] = None
  /\ \E subject \in People \union {None}, user \in People \union {None},
        organization \in Orgs \union {None}, application \in BOOLEAN :
       /\ application /\ organization # None /\ owner # None => organization = owner
       /\ tasks' = [tasks EXCEPT ![t] =
            [subject |-> subject, user |-> user, organization |-> organization,
             application |-> application, status |-> "OPEN", completed_at |-> FALSE]]
  /\ UNCHANGED <<owner, conversations, notifications, session>>

update_admin_task(t) ==
  /\ Begin
  /\ tasks[t] # None
  /\ \E to \in Statuses, subject \in People \union {tasks[t].subject},
        user \in People \union {tasks[t].user} :
       /\ to # tasks[t].status => <<tasks[t].status, to>> \in AdminEdges
       /\ tasks' = [tasks EXCEPT ![t] = [@ EXCEPT
            !.status = to,
            !.completed_at = IF to = tasks[t].status THEN tasks[t].completed_at ELSE completed_at(to),
            !.subject = subject,
            !.user = user]]
  /\ UNCHANGED <<owner, conversations, notifications, session>>

update_borrower_task_reads(b, t) ==
  /\ Begin
  /\ session[b] = None
  /\ authorize_task(b, t)
  /\ \E to \in Statuses :
       /\ <<tasks[t].status, to>> \in BorrowerEdges
       /\ session' = [session EXCEPT ![b] =
            [call |-> "task", item |-> t, to |-> to, was |-> tasks[t].completed_at]]
  /\ UNCHANGED <<owner, tasks, conversations, notifications>>

update_borrower_task_commits(b) ==
  /\ session[b] # None /\ session[b].call = "task"
  /\ LET s == session[b]
     IN tasks' = [tasks EXCEPT ![s.item] = [@ EXCEPT
          !.status = s.to,
          !.completed_at = StampAfter(s.was, s.to, tasks[s.item].completed_at)]]
  /\ session' = [session EXCEPT ![b] = None]
  /\ UNCHANGED <<owner, conversations, notifications, served>>

-----------------------------------------------------------------------------
(* Notifications *)

create_admin_notification(n) ==
  /\ Begin
  /\ notifications[n] = None
  /\ \E subject \in Borrowers, organization \in Orgs \union {None} :
       notifications' = [notifications EXCEPT ![n] =
         [subject |-> subject, organization |-> organization, read_at |-> FALSE]]
  /\ UNCHANGED <<owner, tasks, conversations, session>>

Addressed(b, n) ==
  /\ notifications[n] # None
  /\ notifications[n].subject = b \/ notifications[n].organization = OrgOf[b]

\* Two readers write one after the other: the stamp is set either way.
read_borrower_notification(b, n) ==
  /\ Begin
  /\ Addressed(b, n)
  /\ ~ notifications[n].read_at
  /\ notifications' = [notifications EXCEPT ![n].read_at = TRUE]
  /\ UNCHANGED <<owner, tasks, conversations, session>>

-----------------------------------------------------------------------------
(* Conversations *)

Talk == UNCHANGED <<owner, tasks, notifications>>

Open(c) == conversations[c] # None /\ conversations[c].status = "OPEN"

Say(c, p) ==
  LET talk == conversations[c]
  IN conversations' = [conversations EXCEPT ![c] =
       [talk EXCEPT !.messages = Append(talk.messages, p),
                    !.participants = talk.participants \union {p}]]

create_borrower_conversation(b, c) ==
  /\ Begin
  /\ conversations[c] = None
  /\ \E application \in BOOLEAN :
       /\ application => get_authorized_application(b)
       /\ conversations' = [conversations EXCEPT ![c] =
            [application |-> application, organization |-> OrgOf[b], status |-> "OPEN",
             participants |-> {b}, messages |-> <<b>>]]
  /\ UNCHANGED session
  /\ Talk

\* The right to a conversation: to take part in it and to read its application.
authorize_conversation(b, c) ==
  /\ conversations[c] # None
  /\ b \in conversations[c].participants
  /\ conversations[c].application => get_authorized_application(b)

\* An attachment is a document of the conversation's application, which the
\* sender has just been allowed to read: it changes nothing that is kept here.
send_borrower_message_reads(b, c) ==
  /\ Begin
  /\ session[b] = None
  /\ authorize_conversation(b, c)
  /\ Open(c)
  /\ session' = [session EXCEPT ![b] = [call |-> "message", item |-> c]]
  /\ UNCHANGED conversations
  /\ Talk

send_borrower_message_commits(b) ==
  /\ session[b] # None /\ session[b].call = "message"
  /\ Say(session[b].item, b)
  /\ session' = [session EXCEPT ![b] = None]
  /\ UNCHANGED served
  /\ Talk

\* Mutant: the status is the one of a copy read before the lock.
admin_sends_unlocked(p, c) ==
  /\ conversations[c] # None
  /\ Begin
  /\ Say(c, p)
  /\ UNCHANGED session
  /\ Talk

\* The answer of staff, who takes part from then on.
admin_send_message(p, c) ==
  /\ Begin
  /\ Open(c)
  /\ Say(c, p)
  /\ UNCHANGED session
  /\ Talk

\* The status that is asked for, or none if it is the one that was read.
update_admin_conversation(c) ==
  /\ Begin
  /\ conversations[c] # None
  /\ \E to \in {"OPEN", "CLOSED"} :
       conversations' = [conversations EXCEPT ![c].status = to]
  /\ UNCHANGED session
  /\ Talk

-----------------------------------------------------------------------------
Next ==
  \/ \E b \in Borrowers :
       \/ create_application_reads(b)
       \/ create_application_commits(b)
       \/ Lose(b)
       \/ \E t \in Tasks : update_borrower_task_reads(b, t)
       \/ update_borrower_task_commits(b)
       \/ \E n \in Notifications : read_borrower_notification(b, n)
       \/ \E c \in Conversations :
            create_borrower_conversation(b, c) \/ send_borrower_message_reads(b, c)
       \/ send_borrower_message_commits(b)
  \/ \E t \in Tasks : create_admin_task(t) \/ update_admin_task(t)
  \/ \E n \in Notifications : create_admin_notification(n)
  \/ \E c \in Conversations :
       update_admin_conversation(c) \/ \E p \in Staff : admin_send_message(p, c)

Spec == Init /\ [][Next]_vars

-----------------------------------------------------------------------------
TypeOK ==
  /\ owner \in Orgs \union {None}
  /\ tasks \in [Tasks -> Task \union {None}]
  /\ conversations \in [Conversations -> Conversation \union {None}]

(* A task that is COMPLETED has its time of completion, whatever requests  *)
(* overwrote one another on the way: update_borrower_task reads without a  *)
(* lock and its commit may leave the stamp of another request.             *)
CompletedIsStamped ==
  \A t \in Tasks : tasks[t] # None /\ tasks[t].status = "COMPLETED" => tasks[t].completed_at

(* Staff never writes into a closed conversation: the message of           *)
(* admin_send_message and the CLOSED of update_admin_conversation exclude  *)
(* each other by the lock on the conversation.                             *)
ClosedIsClosedToStaff ==
  [][\A c \in Conversations :
       conversations[c] # None /\ conversations[c].status = "CLOSED" =>
         \A i \in DOMAIN conversations'[c].messages \ DOMAIN conversations[c].messages :
           conversations'[c].messages[i] \notin Staff]_vars
=============================================================================
