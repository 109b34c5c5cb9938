-------------------------------- MODULE Delivery -------------------------------
(***************************************************************************)
(* Review and send: the contacts of a customer, the approved sends of a    *)
(* verified report to them, and the visits their links bring.  Each await  *)
(* of a request is a step; the mail provider and the visitors take theirs  *)
(* in between, and a request may die at any of them.                       *)
(***************************************************************************)
EXTENDS Naturals, FiniteSets

CONSTANTS
  Email,
  MaxContacts,  \* MAX_CONTACTS
  Adder,        \* the requests that add a contact
  Sender,       \* the requests that approve and send, each with a token of its own
  Visitor,      \* the visits
  None

Recipients == UNION {[E -> {"ok", "error"}] : E \in SUBSET Email}

\* A row of report_deliveries, as far as it is modelled.
Row ==
  [status : {"sent", "partial", "failed"}, recipients : Recipients,
   opens : Nat, firstOpened : Nat \cup {None}]

\* What the constants may be: None is neither an instant nor a row.
ConstantsFit == MaxContacts \in Nat /\ None \notin Nat /\ None \notin Row

VARIABLES
  contacts,  \* customer_contacts
  adding,    \* Adder -> how far it is
  sending,   \* Sender -> how far it is, the contacts left, and what was recorded of the others
  mailed,    \* Sender -> the addresses the provider has sent its message to
  row,       \* report_deliveries, by the send that wrote it; None before the insert
  visit,     \* Visitor -> the link it follows, its `now`, and the first opening it read
  clock      \* the visits begun: the instants they read

vars == <<contacts, adding, sending, mailed, row, visit, clock>>

Unrecorded == [e \in {} |-> "ok"]

Init ==
  /\ contacts \in {C \in SUBSET Email : Cardinality(C) <= MaxContacts}
  /\ adding = [a \in Adder |-> [pc |-> "idle"]]
  /\ sending = [s \in Sender |-> [pc |-> "idle", left |-> {}, recipients |-> Unrecorded]]
  /\ mailed = [s \in Sender |-> {}]
  /\ row = [s \in Sender |-> None]
  /\ visit = [v \in Visitor |-> [pc |-> "idle"]]
  /\ clock = 0

-------------------------------------------------------------------------------
(***************************************************************************)
(* Contacts.                                                               *)
(***************************************************************************)

CountContacts(a) ==
  /\ adding[a].pc = "idle" /\ Cardinality(contacts) < MaxContacts
  /\ adding' = [adding EXCEPT ![a] = [pc |-> "counted"]]
  /\ UNCHANGED <<contacts, sending, mailed, row, visit, clock>>

\* An address there already is refused by the unique constraint.
InsertContact(a) ==
  /\ adding[a].pc = "counted"
  /\ \E e \in Email : contacts' = contacts \cup {e}
  /\ adding' = [adding EXCEPT ![a] = [pc |-> "done"]]
  /\ UNCHANGED <<sending, mailed, row, visit, clock>>

RemoveContact(e) ==
  /\ e \in contacts
  /\ contacts' = contacts \ {e}
  /\ UNCHANGED <<adding, sending, mailed, row, visit, clock>>

-------------------------------------------------------------------------------
(***************************************************************************)
(* Approve and send.                                                       *)
(***************************************************************************)

\* sendableRun and listContacts: a verified report, and at least one contact.
Approve(s) ==
  /\ sending[s].pc = "idle" /\ contacts # {}
  /\ sending' = [sending EXCEPT ![s].pc = "mailing", ![s].left = contacts]
  /\ UNCHANGED <<contacts, adding, mailed, row, visit, clock>>

\* sendMail: the provider takes the message or refuses it, and its answer arrives or does not
\* (the request is given up after fifteen seconds).  A refusal does not stop the rest.
Mail(s, e) ==
  /\ sending[s].pc = "mailing" /\ e \in sending[s].left
  /\ \E taken, answered \in BOOLEAN :
       /\ mailed' = [mailed EXCEPT ![s] = IF taken THEN @ \cup {e} ELSE @]
       /\ sending' = [sending EXCEPT
            ![s].left = @ \ {e},
            ![s].recipients = [x \in DOMAIN @ \cup {e} |->
               IF x # e THEN @[x] ELSE IF taken /\ answered THEN "ok" ELSE "error"]]
  /\ UNCHANGED <<contacts, adding, row, visit, clock>>

Ok(recipients) == {e \in DOMAIN recipients : recipients[e] = "ok"}

Status(recipients) ==
  CASE Ok(recipients) = DOMAIN recipients -> "sent"
    [] Ok(recipients) = {} -> "failed"
    [] OTHER -> "partial"

\* A slip: the recipients are the contacts there are by then.
RecordCurrent(s) ==
  /\ sending[s].pc = "mailing" /\ sending[s].left = {}
  /\ LET named == [e \in contacts |->
                     IF e \in DOMAIN sending[s].recipients THEN sending[s].recipients[e] ELSE "ok"]
     IN  row' = [row EXCEPT ![s] = [status |-> Status(named), recipients |-> named,
                                    opens |-> 0, firstOpened |-> None]]
  /\ sending' = [sending EXCEPT ![s].pc = "done"]
  /\ UNCHANGED <<contacts, adding, mailed, visit, clock>>

\* The insert of the delivery, after the last message.
Record(s) ==
  /\ sending[s].pc = "mailing" /\ sending[s].left = {}
  /\ row' = [row EXCEPT ![s] = [status |-> Status(sending[s].recipients),
                                recipients |-> sending[s].recipients,
                                opens |-> 0, firstOpened |-> None]]
  /\ sending' = [sending EXCEPT ![s].pc = "done"]
  /\ UNCHANGED <<contacts, adding, mailed, visit, clock>>

\* The process dies, or the insert fails.
Die(s) ==
  /\ sending[s].pc = "mailing"
  /\ sending' = [sending EXCEPT ![s].pc = "dead"]
  /\ UNCHANGED <<contacts, adding, mailed, row, visit, clock>>

-------------------------------------------------------------------------------
(***************************************************************************)
(* The customer's link.                                                    *)
(***************************************************************************)

\* deliveryByToken: someone follows a link that was mailed.  Without a row there is no report.
Follow(v, s) ==
  /\ visit[v].pc = "idle" /\ mailed[s] # {}
  /\ clock' = clock + 1
  /\ visit' = [visit EXCEPT ![v] =
       IF row[s] = None THEN [pc |-> "not found", of |-> s]
       ELSE [pc |-> "read", of |-> s, now |-> clock', opens |-> row[s].opens,
             first |-> row[s].firstOpened]]
  /\ UNCHANGED <<contacts, adding, sending, mailed, row>>

\* openDelivery's update: the counter is incremented in the database, firstOpenedAt is written
\* as it was read, or the visit's own instant.
Counted(v) ==
  [row[visit[v].of] EXCEPT
     !.opens = @ + 1,
     !.firstOpened = IF visit[v].first = None THEN visit[v].now ELSE visit[v].first]

Count(v) ==
  /\ visit[v].pc = "read"
  /\ row' = [row EXCEPT ![visit[v].of] = Counted(v)]
  /\ visit' = [visit EXCEPT ![v].pc = "opened"]
  /\ UNCHANGED <<contacts, adding, sending, mailed, clock>>

Next ==
  \/ \E a \in Adder : CountContacts(a) \/ InsertContact(a)
  \/ \E e \in Email : RemoveContact(e)
  \/ \E s \in Sender : Approve(s) \/ Record(s) \/ Die(s) \/ \E e \in Email : Mail(s, e)
  \/ \E v \in Visitor : Count(v) \/ \E s \in Sender : Follow(v, s)

Spec == Init /\ [][Next]_vars

-------------------------------------------------------------------------------
\* The values the variables take, the visits' among them.
TypeOK ==
  /\ contacts \subseteq Email
  /\ \A s \in Sender :
       /\ sending[s].pc \in {"idle", "mailing", "done", "dead"}
       /\ sending[s].left \subseteq Email /\ sending[s].recipients \in Recipients
       /\ mailed[s] \subseteq Email
       /\ row[s] # None => row[s] \in Row /\ row[s].firstOpened \in 1 .. clock \cup {None}
  /\ \A v \in Visitor : visit[v].pc = "read" => row[visit[v].of] # None

\* A delivery says truly who was sent the report, whatever happened to the contacts while
\* the messages went out: an address recorded without an error was mailed, everyone who was
\* mailed is named, and "sent" leaves nobody out (approveAndSend).
RecordIsTrue ==
  \A s \in Sender :
    row[s] # None =>
      /\ Ok(row[s].recipients) \subseteq mailed[s] /\ mailed[s] \subseteq DOMAIN row[s].recipients
      /\ row[s].status = "sent" => mailed[s] = DOMAIN row[s].recipients

\* "Each visit is counted as an open" (r/[token]/page.tsx), visits that overlap too, and the
\* first opening is set exactly when there has been one.
CountsEveryVisit ==
  \A s \in Sender :
    row[s] # None =>
      /\ row[s].opens = Cardinality({v \in Visitor : visit[v].pc = "opened" /\ visit[v].of = s})
      /\ (row[s].firstOpened = None) = (row[s].opens = 0)

\* What the rows say of messages and visits is true: who was sent a report and how often it
\* was opened (delivery/store.ts).
DeliveryIsTrue == TypeOK /\ RecordIsTrue /\ CountsEveryVisit

\* "A customer has at most 20 contacts" (addContact).
AtMostMaxContacts == Cardinality(contacts) <= MaxContacts

\* "Approving and sending are one act, recorded with who did it and when" (delivery/store.ts):
\* a send that is over has mailed nobody unless it left its row.
MailedIsRecorded ==
  \A s \in Sender : sending[s].pc \in {"done", "dead"} /\ mailed[s] # {} => row[s] # None

\* Refuted (README, section 11): the first opening, once written, stays.
FirstOpeningStays ==
  [][\A s \in Sender :
       row[s] # None /\ row[s].firstOpened # None => row'[s].firstOpened = row[s].firstOpened]_vars

\* Refuted (README, section 11): a delivery that "failed" reached nobody.
FailedReachedNobody ==
  \A s \in Sender : row[s] # None /\ row[s].status = "failed" => mailed[s] = {}
================================================================================
