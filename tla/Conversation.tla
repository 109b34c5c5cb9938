------------------------------ MODULE Conversation -----------------------------
(***************************************************************************)
(* One conversation of Ask in DynamoDB: questions and answers appended to  *)
(* it, its deletion, and the reports its answers propose, which members    *)
(* request or dismiss while others do the same.  Requests go through the   *)
(* enqueue of runs and its dedupe key; all proposals are for one connector *)
(* and period.  The messages fit one page of the deletion's query, and one *)
(* deletion runs at a time.  Who may do what is left out.                  *)
(***************************************************************************)
EXTENDS Integers, Sequences, FiniteSets

CONSTANTS
  Turn,          \* questions asked, each in a request of its own
  Act,           \* requests to act on a proposal
  Scope,         \* the part of a dedupe key that the chosen preset decides
  MaxBucket,     \* the last 60-second bucket
  MaxDeletions,  \* how often the author deletes it
  None

ASSUME ConversationAssumption ==
  MaxBucket \in Nat /\ MaxDeletions \in Nat /\ None \notin Scope

VARIABLES
  meta,      \* the thread's own item
  items,     \* its messages
  ask,       \* each POST of a question
  del,       \* the deletion that runs
  proposal,  \* what the answer to a turn proposes
  act,       \* each POST on a proposal
  runs,      \* report_runs: the keys taken, and the proposal each was made for
  bucket     \* the time

vars == <<meta, items, ask, del, proposal, act, runs, bucket>>

Message == Turn \X {"question", "answer"}

NoProposal == [state |-> "none", run |-> 0]
NoAct == [pc |-> "idle", turn |-> None, key |-> None, run |-> 0]
NoDeletion == [pc |-> "idle", found |-> {}, late |-> {}, times |-> 0]

\* createThread has been called.
Init ==
  /\ meta = [there |-> TRUE, count |-> 0]
  /\ items = {}
  /\ ask = [t \in Turn |-> "idle"]
  /\ del = NoDeletion
  /\ proposal = [t \in Turn |-> NoProposal]
  /\ act = [a \in Act |-> NoAct]
  /\ runs = <<>>
  /\ bucket = 0

-------------------------------------------------------------------------------
(***************************************************************************)
(* Asking.                                                                 *)
(***************************************************************************)

ReadThread(t) ==
  /\ ask[t] = "idle" /\ meta.there
  /\ ask' = [ask EXCEPT ![t] = "read"]
  /\ UNCHANGED <<meta, items, del, proposal, act, runs, bucket>>

\* appendMessage: the message and the thread's count in one transaction.
Appended(m) ==
  /\ items' = items \cup {m}
  /\ meta' = [meta EXCEPT !.count = @ + 1]
  /\ del' = [del EXCEPT !.late = @ \cup {m}]

\* The question is stored before the runtime is invoked; the transaction asks for
\* the thread's item to be there.
StoreQuestion(t) ==
  /\ ask[t] = "read"
  /\ IF meta.there
     THEN Appended(<<t, "question">>) /\ ask' = [ask EXCEPT ![t] = "asked"]
     ELSE ask' = [ask EXCEPT ![t] = "failed"] /\ UNCHANGED <<meta, items, del>>
  /\ UNCHANGED <<proposal, act, runs, bucket>>

\* The turn has ended, one way or another, and its answer is stored.
StoreAnswer(t, proposes) ==
  /\ ask[t] = "asked"
  /\ IF meta.there
     THEN /\ Appended(<<t, "answer">>)
          /\ ask' = [ask EXCEPT ![t] = "answered"]
          /\ proposal' = IF proposes THEN [proposal EXCEPT ![t].state = "open"]
                         ELSE proposal
     ELSE /\ ask' = [ask EXCEPT ![t] = "failed"]
          /\ UNCHANGED <<meta, items, del, proposal>>
  /\ UNCHANGED <<act, runs, bucket>>

\* The instance is stopped during the turn.
AskDies(t) ==
  /\ ask[t] \in {"read", "asked"}
  /\ ask' = [ask EXCEPT ![t] = "failed"]
  /\ UNCHANGED <<meta, items, del, proposal, act, runs, bucket>>

-------------------------------------------------------------------------------
(***************************************************************************)
(* deleteThread.                                                           *)
(***************************************************************************)

DeleteQuery ==
  /\ del.pc = "idle" /\ meta.there /\ del.times < MaxDeletions
  /\ del' = [pc |-> "deleting", found |-> items, late |-> {}, times |-> del.times + 1]
  /\ UNCHANGED <<meta, items, ask, proposal, act, runs, bucket>>

\* Some of what was found is deleted: a batch, or what DynamoDB took of it.
DeleteSome(ms) ==
  /\ del.pc = "deleting" /\ ms # {} /\ ms \subseteq del.found
  /\ items' = items \ ms
  /\ del' = [del EXCEPT !.found = @ \ ms]
  /\ proposal' = [t \in Turn |-> IF <<t, "answer">> \in ms THEN NoProposal
                                 ELSE proposal[t]]
  /\ UNCHANGED <<meta, ask, act, runs, bucket>>

\* A slip: what DynamoDB left undeleted after the retries is forgotten.
MessagesForgotten == TRUE

MessagesGone == del.found = {}

\* The thread's own item goes last.
DeleteMeta ==
  /\ del.pc = "deleting" /\ MessagesGone
  /\ meta' = [meta EXCEPT !.there = FALSE]
  /\ del' = [del EXCEPT !.pc = "idle"]
  /\ UNCHANGED <<items, ask, proposal, act, runs, bucket>>

\* The retries end with items left, or the instance is stopped.
DeleteFails ==
  /\ del.pc = "deleting"
  /\ del' = [del EXCEPT !.pc = "idle", !.found = {}]
  /\ UNCHANGED <<meta, items, ask, proposal, act, runs, bucket>>

-------------------------------------------------------------------------------
(***************************************************************************)
(* Acting on a proposal.                                                   *)
(***************************************************************************)

FindThread(a) ==
  /\ act[a].pc = "idle" /\ meta.there
  /\ act' = [act EXCEPT ![a].pc = "found"]
  /\ UNCHANGED <<meta, items, ask, del, proposal, runs, bucket>>

\* The proposal is read and is open.
ReadProposal(a, t) ==
  /\ act[a].pc = "found"
  /\ <<t, "answer">> \in items /\ proposal[t].state = "open"
  /\ act' = [act EXCEPT ![a].pc = "read", ![a].turn = t]
  /\ UNCHANGED <<meta, items, ask, del, proposal, runs, bucket>>

\* A slip: whatever its state, the proposal is closed.
StillThere(t) == <<t, "answer">> \in items

\* closeProposal's condition.
StillOpen(t) == <<t, "answer">> \in items /\ proposal[t].state = "open"

\* closeProposal, and what the caller is told.
Close(a, state) ==
  LET t == act[a].turn IN
  IF StillOpen(t)
  THEN /\ proposal' = [proposal EXCEPT ![t] = [state |-> state, run |-> act[a].run]]
       /\ act' = [act EXCEPT ![a].pc = state]
  ELSE /\ act' = [act EXCEPT ![a].pc = "conflict"]
       /\ proposal' = proposal

Dismiss(a) ==
  /\ act[a].pc = "read"
  /\ Close(a, "dismissed")
  /\ UNCHANGED <<meta, items, ask, del, runs, bucket>>

\* enqueueRun fixes the key from the preset's scope and the time it starts at.
Enqueue(a, scope) ==
  /\ act[a].pc = "read"
  /\ act' = [act EXCEPT ![a].pc = "keyed", ![a].key = <<scope, bucket>>]
  /\ UNCHANGED <<meta, items, ask, del, proposal, runs, bucket>>

Holding(key) == {n \in DOMAIN runs : runs[n].key = key}

\* The key is unique: when it is taken, the run that has it is the answer.
InsertRun(a) ==
  /\ act[a].pc = "keyed"
  /\ IF Holding(act[a].key) = {}
     THEN /\ runs' = Append(runs, [key |-> act[a].key, turn |-> act[a].turn])
          /\ act' = [act EXCEPT ![a].pc = "enqueued", ![a].run = Len(runs) + 1]
     ELSE /\ \E n \in Holding(act[a].key) :
               act' = [act EXCEPT ![a].pc = "enqueued", ![a].run = n]
          /\ runs' = runs
  /\ UNCHANGED <<meta, items, ask, del, proposal, bucket>>

CloseRequested(a) ==
  /\ act[a].pc = "enqueued"
  /\ Close(a, "requested")
  /\ UNCHANGED <<meta, items, ask, del, runs, bucket>>

\* The instance is stopped, or the enqueue is refused.
ActDies(a) ==
  /\ act[a].pc \in {"found", "read", "keyed", "enqueued"}
  /\ act' = [act EXCEPT ![a].pc = "dead"]
  /\ UNCHANGED <<meta, items, ask, del, proposal, runs, bucket>>

TimePasses ==
  /\ bucket < MaxBucket
  /\ bucket' = bucket + 1
  /\ UNCHANGED <<meta, items, ask, del, proposal, act, runs>>

-------------------------------------------------------------------------------
Next ==
  \/ \E t \in Turn : ReadThread(t) \/ StoreQuestion(t) \/ AskDies(t)
  \/ \E t \in Turn, proposes \in BOOLEAN : StoreAnswer(t, proposes)
  \/ DeleteQuery \/ DeleteMeta \/ DeleteFails
  \/ \E ms \in SUBSET Message : DeleteSome(ms)
  \/ \E a \in Act, t \in Turn : ReadProposal(a, t)
  \/ \E a \in Act, scope \in Scope : Enqueue(a, scope)
  \/ \E a \in Act : FindThread(a) \/ Dismiss(a) \/ InsertRun(a) \/ CloseRequested(a) \/ ActDies(a)
  \/ TimePasses

Spec == Init /\ [][Next]_vars

-------------------------------------------------------------------------------
Key == Scope \X (0..MaxBucket)
ActType == [pc : {"idle", "found", "read", "keyed", "enqueued", "requested", "dismissed",
                  "conflict", "dead"},
            turn : Turn \cup {None}, key : Key \cup {None}, run : Nat]

\* The values the variables take.
TypeOK ==
  /\ meta \in [there : BOOLEAN, count : Nat]
  /\ items \subseteq Message
  /\ ask \in [Turn -> {"idle", "read", "asked", "answered", "failed"}]
  /\ del \in [pc : {"idle", "deleting"}, found : SUBSET Message, late : SUBSET Message,
              times : 0..MaxDeletions]
  /\ proposal \in [Turn -> [state : {"none", "open", "requested", "dismissed"}, run : Nat]]
  /\ act \in [Act -> ActType]
  /\ runs \in Seq([key : Key, turn : Turn])
  /\ bucket \in 0..MaxBucket

\* Until a deletion begins, the count is that of the messages, whichever turns
\* overlap and die (store.ts: the count "can never disagree with the messages").
CountAgrees == del.times = 0 => meta.count = Cardinality(items)

\* What is left behind a deleted thread was appended after its messages were
\* queried: no message that the deletion found (store.ts, deleteThread: "rather
\* than orphaned messages").
OrphansAreLate == ~meta.there => items \subseteq del.late

\* Of all who act on a proposal, at most one is told that it closed it, the
\* proposal says the same as long as it is there, and a requested one names the
\* run its request got, with the key of that request.
OneCloses ==
  \A a \in Act : act[a].pc \in {"requested", "dismissed"} =>
    LET mine == proposal[act[a].turn] IN
    /\ \A b \in Act \ {a} :
         act[b].pc \in {"requested", "dismissed"} => act[b].turn # act[a].turn
    /\ mine.state \in {act[a].pc, "none"}
    /\ mine.state = "requested" =>
         mine.run = act[a].run /\ mine.run \in DOMAIN runs /\ runs[mine.run].key = act[a].key

\* One proposal makes one run, whoever confirms it (store.ts: "two teammates
\* confirming the same proposal at once enqueue one run between them").
OneRunPerProposal ==
  \A t \in Turn : Cardinality({n \in DOMAIN runs : runs[n].turn = t}) <= 1
================================================================================
