--------------------------- MODULE PortalDeskProofs ---------------------------
(***************************************************************************)
(* The desks with any number of borrowers, staff, tasks and conversations, *)
(* and a request of every borrower under way.  A borrower's commit writes  *)
(* a task that has changed since it was read: the status and the stamp may *)
(* come from different requests, yet a COMPLETED task always has a stamp.  *)
(***************************************************************************)
EXTENDS PortalDesk, TLAPS

\* What a request under way has read exists, and it writes what it may.
SessionsHold ==
  \A b \in Borrowers : session[b] # None =>
    /\ session[b].call \in {"claim", "task", "message"}
    /\ session[b].call = "task" =>
         /\ session[b].item \in Tasks /\ tasks[session[b].item] # None
         /\ session[b].to \in Statuses /\ session[b].was \in BOOLEAN
    /\ session[b].call = "message" =>
         session[b].item \in Conversations /\ conversations[session[b].item] # None

\* The inductive invariant.
IInv == TypeOK /\ DOMAIN session = Borrowers /\ SessionsHold /\ CompletedIsStamped

LEMMA InitEstablishes == Init => IInv
BY DEF Init, IInv, TypeOK, SessionsHold, CompletedIsStamped

-----------------------------------------------------------------------------
(* Tasks *)

Stamped(t) == t.status = "COMPLETED" => t.completed_at

\* A step leaves a task, or replaces it by one whose completion is stamped.
LEMMA TaskStep ==
  ASSUME IInv, [Next]_vars
  PROVE /\ tasks' \in [Tasks -> Task \union {None}]
        /\ \A t \in Tasks : tasks'[t] = tasks[t] \/ (tasks'[t] \in Task /\ Stamped(tasks'[t]))
<1> DEFINE Goal == /\ tasks' \in [Tasks -> Task \union {None}]
                   /\ \A t \in Tasks : tasks'[t] = tasks[t] \/ (tasks'[t] \in Task /\ Stamped(tasks'[t]))
<1>0. tasks \in [Tasks -> Task \union {None}] BY DEF IInv, TypeOK
<1>1. ASSUME NEW t \in Tasks, NEW x \in Task, Stamped(x), tasks' = [tasks EXCEPT ![t] = x]
      PROVE Goal
  BY <1>0, <1>1
<1>2. ASSUME NEW t \in Tasks, create_admin_task(t) PROVE Goal
  <2>1. PICK subject \in People \union {None}, user \in People \union {None},
             organization \in Orgs \union {None}, application \in BOOLEAN :
          /\ application /\ organization # None /\ owner # None => organization = owner
          /\ tasks' = [tasks EXCEPT ![t] =
               [subject |-> subject, user |-> user, organization |-> organization,
                application |-> application, status |-> "OPEN", completed_at |-> FALSE]]
    BY <1>2, Zenon DEF create_admin_task
  <2> DEFINE x == [subject |-> subject, user |-> user, organization |-> organization,
                   application |-> application, status |-> "OPEN", completed_at |-> FALSE]
  <2>2. x \in Task /\ Stamped(x) BY DEF Task, Statuses, Stamped
  <2>3. QED BY <1>1, <2>1, <2>2
<1>3. ASSUME NEW t \in Tasks, update_admin_task(t) PROVE Goal
  <2>1. tasks[t] \in Task /\ tasks[t] # None BY <1>0, <1>3 DEF update_admin_task
  <2>2. PICK to \in Statuses, subject \in People \union {tasks[t].subject},
             user \in People \union {tasks[t].user} :
          tasks' = [tasks EXCEPT ![t] = [tasks[t] EXCEPT
            !.status = to,
            !.completed_at = IF to = tasks[t].status THEN tasks[t].completed_at
                              ELSE completed_at(to),
            !.subject = subject,
            !.user = user]]
    BY <1>3 DEF update_admin_task
  <2> DEFINE x == [subject |-> subject, user |-> user, organization |-> tasks[t].organization,
                   application |-> tasks[t].application, status |-> to,
                   completed_at |-> IF to = tasks[t].status THEN tasks[t].completed_at
                                    ELSE completed_at(to)]
  <2>3. x \in Task
    <3>1. (IF to = tasks[t].status THEN tasks[t].completed_at ELSE completed_at(to)) \in BOOLEAN
      BY <2>1 DEF Task, completed_at
    <3>2. QED BY <2>1, <3>1 DEF Task
  <2>4. Stamped(x) BY <2>1 DEF Stamped, completed_at, IInv, CompletedIsStamped
  <2>5. tasks' = [tasks EXCEPT ![t] = x]
    <3> DEFINE stamp == IF to = tasks[t].status THEN tasks[t].completed_at ELSE completed_at(to)
               r1 == [tasks[t] EXCEPT !.status = to]
               r2 == [r1 EXCEPT !.completed_at = stamp]
               r3 == [r2 EXCEPT !.subject = subject]
               r4 == [r3 EXCEPT !.user = user]
    <3>1. r1 = [tasks[t] EXCEPT !.status = to] OBVIOUS
    <3>2. r1 = [subject |-> tasks[t].subject, user |-> tasks[t].user,
                organization |-> tasks[t].organization, application |-> tasks[t].application,
                status |-> to, completed_at |-> tasks[t].completed_at]
      BY <2>1 DEF Task
    <3>3. tasks' = [tasks EXCEPT ![t] = r4] BY <2>2 DEF r1, r2, r3, r4, stamp
    <3> HIDE DEF stamp, r1
    <3>a. r2 = [subject |-> tasks[t].subject, user |-> tasks[t].user,
                organization |-> tasks[t].organization, application |-> tasks[t].application,
                status |-> to, completed_at |-> stamp]
      BY <3>2
    <3> HIDE DEF r2
    <3>b. r3 = [subject |-> subject, user |-> tasks[t].user,
                organization |-> tasks[t].organization, application |-> tasks[t].application,
                status |-> to, completed_at |-> stamp]
      BY <3>a
    <3> HIDE DEF r3
    <3>4. r4 = [subject |-> subject, user |-> user,
                organization |-> tasks[t].organization, application |-> tasks[t].application,
                status |-> to, completed_at |-> stamp]
      BY <3>b
    <3>5. x = r4 BY <3>4 DEF stamp
    <3> HIDE DEF r4, x
    <3>6. QED BY <3>3, <3>5
  <2>6. QED BY <1>1, <2>3, <2>4, <2>5
<1>4. ASSUME NEW b \in Borrowers, update_borrower_task_commits(b) PROVE Goal
  <2> DEFINE s == session[b]
  <2>1. /\ s.item \in Tasks /\ tasks[s.item] # None /\ s.to \in Statuses /\ s.was \in BOOLEAN
        /\ tasks' = [tasks EXCEPT ![s.item] = [tasks[s.item] EXCEPT
             !.status = s.to,
             !.completed_at = StampAfter(s.was, s.to, tasks[s.item].completed_at)]]
    BY <1>4 DEF update_borrower_task_commits, IInv, SessionsHold
  <2>2. tasks[s.item] \in Task BY <1>0, <2>1
  <2> DEFINE x == [subject |-> tasks[s.item].subject, user |-> tasks[s.item].user,
                   organization |-> tasks[s.item].organization,
                   application |-> tasks[s.item].application, status |-> s.to,
                   completed_at |-> StampAfter(s.was, s.to, tasks[s.item].completed_at)]
  <2>3. StampAfter(s.was, s.to, tasks[s.item].completed_at) \in BOOLEAN
    BY <2>2 DEF StampAfter, completed_at, Task
  <2>4. x \in Task BY <2>1, <2>2, <2>3 DEF Task
  <2>5. Stamped(x) BY DEF Stamped, StampAfter, completed_at
  <2>6. tasks' = [tasks EXCEPT ![s.item] = x]
    <3> DEFINE stamp == StampAfter(s.was, s.to, tasks[s.item].completed_at)
               r1 == [tasks[s.item] EXCEPT !.status = s.to]
               r2 == [r1 EXCEPT !.completed_at = stamp]
    <3>1. r1 = [subject |-> tasks[s.item].subject, user |-> tasks[s.item].user,
                organization |-> tasks[s.item].organization,
                application |-> tasks[s.item].application,
                status |-> s.to, completed_at |-> tasks[s.item].completed_at]
      BY <2>2 DEF Task
    <3>2. tasks' = [tasks EXCEPT ![s.item] = r2] BY <2>1 DEF r1, stamp
    <3> HIDE DEF stamp, r1
    <3>3. r2 = [subject |-> tasks[s.item].subject, user |-> tasks[s.item].user,
                organization |-> tasks[s.item].organization,
                application |-> tasks[s.item].application,
                status |-> s.to, completed_at |-> stamp]
      BY <3>1
    <3>4. x = r2 BY <3>3 DEF stamp
    <3> HIDE DEF r2, x
    <3>5. QED BY <3>2, <3>4
  <2>7. QED BY <1>1, <2>1, <2>4, <2>5, <2>6
<1>5. CASE UNCHANGED tasks BY <1>0, <1>5
<1>6. QED
  BY <1>2, <1>3, <1>4, <1>5 DEF Next, vars, Talk, Lose, create_application_reads,
     create_application_commits, update_borrower_task_reads, read_borrower_notification,
     create_borrower_conversation, send_borrower_message_reads, send_borrower_message_commits,
     create_admin_notification, update_admin_conversation, admin_send_message

-----------------------------------------------------------------------------
(* Conversations *)

\* What is said is appended.
LEMMA Said ==
  ASSUME TypeOK, NEW c \in Conversations, conversations[c] # None, NEW p \in People, Say(c, p)
  PROVE /\ conversations' \in [Conversations -> Conversation \union {None}]
        /\ conversations'[c] # None
        /\ conversations'[c].messages = Append(conversations[c].messages, p)
        /\ \A d \in Conversations \ {c} : conversations'[d] = conversations[d]
<1> DEFINE talk == conversations[c]
           said == Append(talk.messages, p)
           joined == talk.participants \union {p}
           r1 == [talk EXCEPT !.messages = said]
           r2 == [r1 EXCEPT !.participants = joined]
<1>1. conversations \in [Conversations -> Conversation \union {None}] /\ talk \in Conversation
  BY DEF TypeOK
<1>2. said \in Seq(People) /\ joined \in SUBSET People BY <1>1 DEF Conversation
<1>3. conversations' = [conversations EXCEPT ![c] = r2] BY DEF Say, r1, r2, said, joined
<1> HIDE DEF said, joined
<1>4. r1 = [application |-> talk.application, organization |-> talk.organization,
            status |-> talk.status, participants |-> talk.participants, messages |-> said]
  <2> HIDE DEF talk
  <2>1. talk \in Conversation BY <1>1 DEF talk
  <2>2. QED BY <2>1 DEF Conversation
<1> HIDE DEF r1
<1>5. r2 = [application |-> talk.application, organization |-> talk.organization,
            status |-> talk.status, participants |-> joined, messages |-> said]
  <2> HIDE DEF talk
  <2>1. QED BY <1>4
<1>6. r2 \in Conversation BY <1>1, <1>2, <1>5 DEF Conversation
<1>7. r2 # None /\ r2.messages = said BY <1>5, <1>6, DeskAssumption
<1> HIDE DEF r2
<1>8. QED BY <1>1, <1>3, <1>6, <1>7 DEF said

\* A step leaves a closed conversation's messages, or a borrower adds one.
LEMMA ConversationStep ==
  ASSUME IInv, [Next]_vars
  PROVE /\ conversations' \in [Conversations -> Conversation \union {None}]
        /\ \A c \in Conversations : conversations[c] # None =>
             /\ conversations'[c] # None
             /\ conversations[c].status = "CLOSED" =>
                  \/ conversations'[c].messages = conversations[c].messages
                  \/ \E b \in Borrowers :
                       conversations'[c].messages = Append(conversations[c].messages, b)
<1> DEFINE Goal ==
      /\ conversations' \in [Conversations -> Conversation \union {None}]
      /\ \A c \in Conversations : conversations[c] # None =>
           /\ conversations'[c] # None
           /\ conversations[c].status = "CLOSED" =>
                \/ conversations'[c].messages = conversations[c].messages
                \/ \E b \in Borrowers :
                     conversations'[c].messages = Append(conversations[c].messages, b)
<1>0. TypeOK /\ conversations \in [Conversations -> Conversation \union {None}] BY DEF IInv, TypeOK
<1>1. ASSUME NEW b \in Borrowers, NEW c \in Conversations, create_borrower_conversation(b, c)
      PROVE Goal
  <2>1. PICK application \in BOOLEAN :
          /\ application => get_authorized_application(b)
          /\ conversations' = [conversations EXCEPT ![c] =
               [application |-> application, organization |-> OrgOf[b], status |-> "OPEN",
                participants |-> {b}, messages |-> <<b>>]]
    BY <1>1, Zenon DEF create_borrower_conversation
  <2>2. conversations[c] = None BY <1>1 DEF create_borrower_conversation
  <2> DEFINE x == [application |-> application, organization |-> OrgOf[b], status |-> "OPEN",
                   participants |-> {b}, messages |-> <<b>>]
  <2>3. x \in Conversation
    <3>1. OrgOf[b] \in Orgs /\ b \in People BY DEF Orgs, People
    <3>2. <<b>> \in Seq(People) BY <3>1
    <3>3. QED BY <3>1, <3>2 DEF Conversation
  <2>4. conversations' = [conversations EXCEPT ![c] = x] BY <2>1
  <2> HIDE DEF x
  <2>5. QED BY <1>0, <2>2, <2>3, <2>4
<1>2. ASSUME NEW b \in Borrowers, send_borrower_message_commits(b) PROVE Goal
  <2>1. /\ session[b].item \in Conversations /\ conversations[session[b].item] # None
        /\ Say(session[b].item, b) /\ b \in People
    BY <1>2 DEF send_borrower_message_commits, IInv, SessionsHold, People
  <2>2. QED BY <1>0, <2>1, Said
<1>3. ASSUME NEW p \in Staff, NEW c \in Conversations, admin_send_message(p, c) PROVE Goal
  <2>1. conversations[c] # None /\ conversations[c].status # "CLOSED" /\ Say(c, p) /\ p \in People
    BY <1>3 DEF admin_send_message, Open, People
  <2>2. QED BY <1>0, <2>1, Said
<1>4. ASSUME NEW c \in Conversations, update_admin_conversation(c) PROVE Goal
  <2>1. PICK to \in {"OPEN", "CLOSED"} : conversations' = [conversations EXCEPT ![c].status = to]
    BY <1>4 DEF update_admin_conversation
  <2>2. conversations[c] \in Conversation BY <1>0, <1>4 DEF update_admin_conversation
  <2> DEFINE x == [conversations[c] EXCEPT !.status = to]
  <2>3. x \in Conversation /\ x.messages = conversations[c].messages BY <2>2 DEF Conversation
  <2>4. x # None BY <2>3, DeskAssumption
  <2>5. conversations' = [conversations EXCEPT ![c] = x] BY <2>1
  <2> HIDE DEF x
  <2>6. QED BY <1>0, <2>3, <2>4, <2>5
<1>5. CASE UNCHANGED conversations BY <1>0, <1>5
<1>6. QED
  BY <1>1, <1>2, <1>3, <1>4, <1>5 DEF Next, vars, Talk, Lose, create_application_reads,
     create_application_commits, create_admin_task, update_admin_task,
     update_borrower_task_reads, update_borrower_task_commits, read_borrower_notification,
     send_borrower_message_reads, create_admin_notification

-----------------------------------------------------------------------------
\* A request begins with what is there, and what is there stays.
LEMMA SessionStep ==
  ASSUME IInv, [Next]_vars PROVE DOMAIN session' = Borrowers /\ SessionsHold'
<1> DEFINE Sound(s) == s # None =>
      /\ s.call \in {"claim", "task", "message"}
      /\ s.call = "task" => /\ s.item \in Tasks /\ tasks[s.item] # None
                            /\ s.to \in Statuses /\ s.was \in BOOLEAN
      /\ s.call = "message" => s.item \in Conversations /\ conversations[s.item] # None
<1>0. DOMAIN session = Borrowers /\ \A b \in Borrowers : Sound(session[b]) BY DEF IInv, SessionsHold
<1>1. \A t \in Tasks : tasks[t] # None => tasks'[t] # None BY TaskStep, DeskAssumption
<1>2. ASSUME NEW s, Sound(s) PROVE Sound(s)' BY <1>1, <1>2, ConversationStep
<1>3. DOMAIN session' = Borrowers /\ \A b \in Borrowers : Sound(session'[b])
  <2>1. ASSUME NEW b \in Borrowers, NEW s, Sound(s), session' = [session EXCEPT ![b] = s]
        PROVE DOMAIN session' = Borrowers /\ \A d \in Borrowers : Sound(session'[d])
    BY <1>0, <2>1
  <2>2. Sound(None) OBVIOUS
  <2>3. ASSUME NEW b \in Borrowers, create_application_reads(b)
        PROVE DOMAIN session' = Borrowers /\ \A d \in Borrowers : Sound(session'[d])
    <3>1. Sound([call |-> "claim"]) OBVIOUS
    <3>2. session' = [session EXCEPT ![b] = [call |-> "claim"]] BY <2>3 DEF create_application_reads
    <3> HIDE DEF Sound
    <3>3. QED BY <2>1, <3>1, <3>2
  <2>4. ASSUME NEW b \in Borrowers, NEW t \in Tasks, update_borrower_task_reads(b, t)
        PROVE DOMAIN session' = Borrowers /\ \A d \in Borrowers : Sound(session'[d])
    <3>1. PICK to \in Statuses : session' = [session EXCEPT ![b] =
            [call |-> "task", item |-> t, to |-> to, was |-> tasks[t].completed_at]]
      BY <2>4 DEF update_borrower_task_reads
    <3>2. tasks[t] # None /\ tasks[t].completed_at \in BOOLEAN
      BY <2>4 DEF update_borrower_task_reads, authorize_task, IInv, TypeOK, Task
    <3>3. Sound([call |-> "task", item |-> t, to |-> to, was |-> tasks[t].completed_at]) BY <3>2
    <3> HIDE DEF Sound
    <3>4. QED BY <2>1, <3>1, <3>3
  <2>5. ASSUME NEW b \in Borrowers, NEW c \in Conversations, send_borrower_message_reads(b, c)
        PROVE DOMAIN session' = Borrowers /\ \A d \in Borrowers : Sound(session'[d])
    <3>1. session' = [session EXCEPT ![b] = [call |-> "message", item |-> c]]
      BY <2>5 DEF send_borrower_message_reads
    <3>2. Sound([call |-> "message", item |-> c]) BY <2>5 DEF send_borrower_message_reads, Open
    <3> HIDE DEF Sound
    <3>3. QED BY <2>1, <3>1, <3>2
  <2>6. ASSUME NEW b \in Borrowers, session' = [session EXCEPT ![b] = None]
        PROVE DOMAIN session' = Borrowers /\ \A d \in Borrowers : Sound(session'[d])
    BY <2>1, <2>2, <2>6
  <2>7. CASE UNCHANGED session BY <1>0, <2>7
  <2> HIDE DEF Sound
  <2>8. QED
    BY <2>3, <2>4, <2>5, <2>6, <2>7 DEF Next, vars, Talk, Lose, create_application_commits,
       create_admin_task, update_admin_task, update_borrower_task_commits,
       read_borrower_notification, create_borrower_conversation, send_borrower_message_commits,
       create_admin_notification, update_admin_conversation, admin_send_message
<1>4. QED BY <1>2, <1>3 DEF SessionsHold

LEMMA StepPreserves == IInv /\ [Next]_vars => IInv'
<1> SUFFICES ASSUME IInv, [Next]_vars PROVE IInv' OBVIOUS
<1>1. owner' \in Orgs \union {None}
  <2>1. ASSUME NEW b \in Borrowers, create_application_commits(b) PROVE owner' \in Orgs \union {None}
    BY <2>1 DEF create_application_commits, Orgs
  <2>2. CASE UNCHANGED owner BY <2>2 DEF IInv, TypeOK
  <2>3. QED
    BY <2>1, <2>2 DEF Next, vars, Talk, Lose, create_application_reads,
       create_admin_task, update_admin_task, update_borrower_task_reads,
       update_borrower_task_commits, read_borrower_notification, create_borrower_conversation,
       send_borrower_message_reads, send_borrower_message_commits, create_admin_notification,
       update_admin_conversation, admin_send_message
<1>2. TypeOK' BY <1>1, TaskStep, ConversationStep DEF TypeOK
<1>3. CompletedIsStamped' BY TaskStep DEF IInv, CompletedIsStamped, Stamped
<1>4. QED BY <1>2, <1>3, SessionStep DEF IInv

LEMMA Inductive == Spec => []IInv
BY InitEstablishes, StepPreserves, PTL DEF Spec

-----------------------------------------------------------------------------
\* Type correctness for any persons, tasks and conversations.
THEOREM TypeCorrect == Spec => []TypeOK
<1>1. IInv => TypeOK BY DEF IInv
<1>2. QED BY <1>1, Inductive, PTL

\* A completed task has its time of completion although the borrower's edit is
\* not locked against anybody else's (update_borrower_task, update_admin_task).
THEOREM CompletedStamped == Spec => []CompletedIsStamped
<1>1. IInv => CompletedIsStamped BY DEF IInv
<1>2. QED BY <1>1, Inductive, PTL

\* Staff adds nothing to a closed conversation (admin_send_message).
THEOREM ClosedToStaff == Spec => ClosedIsClosedToStaff
<1> DEFINE Quiet ==
      \A c \in Conversations :
        conversations[c] # None /\ conversations[c].status = "CLOSED" =>
          \A i \in DOMAIN conversations'[c].messages \ DOMAIN conversations[c].messages :
            conversations'[c].messages[i] \notin Staff
<1>1. ASSUME IInv, [Next]_vars PROVE Quiet
  <2> SUFFICES ASSUME NEW c \in Conversations, conversations[c] # None,
                      conversations[c].status = "CLOSED",
                      NEW i \in DOMAIN conversations'[c].messages \ DOMAIN conversations[c].messages
               PROVE conversations'[c].messages[i] \notin Staff
    OBVIOUS
  <2>1. conversations[c].messages \in Seq(People)
    BY <1>1 DEF IInv, TypeOK, Conversation
  <2>2. PICK b \in Borrowers : conversations'[c].messages = Append(conversations[c].messages, b)
    BY <1>1, ConversationStep
  <2>3. conversations'[c].messages[i] = b BY <2>1, <2>2
  <2>4. QED BY <2>3, DeskAssumption
<1>2. QED BY Inductive, <1>1, PTL DEF Spec, ClosedIsClosedToStaff
=============================================================================
