--------------------------------- MODULE Stores --------------------------------
(***************************************************************************)
(* Stores of the app that share no table: a workspace's team, a report's   *)
(* delivery, feedback, a connector with its inventory cache, and the       *)
(* collections that run inside a request.  What is promised of them is     *)
(* promised of each by itself.                                             *)
(***************************************************************************)

CONSTANTS
  Null,
  User, Founder, Role, Invitation, Session,                            \* Membership
  Email, MaxContacts, Adder, Sender, Visitor,                          \* Delivery
  Message, Limit, Admin, MaxLosses,                                    \* Feedback
  Writer, Lister, TTL, MaxClock, MaxChanges, MaxFailures, Distinct,    \* Connector
  Job, Scan, Mortal, MaxEvents                                         \* Collections

VARIABLES
  part,  \* what a behaviour is about, where it is about one of them
  role, invitation, teamLock, tx, admitted,
  contacts, adding, sending, mailedTo, deliveries, visit, visits,
  feedback, done, request, mailed, losses,
  provider, connector, writer, granted, passed, lister, cache, clock, changes, failures,
  collections, job, runtime, readable

M == INSTANCE Membership WITH lock <- teamLock
D == INSTANCE Delivery WITH None <- Null, mailed <- mailedTo, row <- deliveries, clock <- visits
F == INSTANCE Feedback WITH row <- feedback
C == INSTANCE Connector WITH None <- Null, row <- connector
S == INSTANCE Collections WITH None <- Null, row <- collections

-------------------------------------------------------------------------------
\* A workspace has one owner, and an invitation admits one user or is revoked
\* (workspaces/store.ts).
TeamIsSound == M!TeamIsSound

\* What the rows say of messages and visits is true: who was sent a report and how often it
\* was opened (delivery/store.ts), and which feedback was mailed (feedback/store.ts).
MailIsTrue == D!DeliveryIsTrue /\ F!FeedbackIsTrue

\* An active connector holds a secret that has passed, and no listing is served that an
\* earlier credential produced (subscriptions/store.ts, inventory-cache.ts).
ConnectorIsSound == part # "verify" => C!ConnectorIsSound

\* A collection's row is complete only when the runtime was (scans/execute.ts,
\* live-metrics/execute.ts).
CompleteIsTrue == S!TypeOK /\ S!CompleteIsTrue
================================================================================
