-------------------------- MODULE ConversationProofs --------------------------
(***************************************************************************)
(* For any number of questions, answers, members and deletions: the count  *)
(* of a thread that is not being deleted is that of its messages, what a   *)
(* deletion leaves behind came after it looked, and one member closes a    *)
(* proposal.                                                               *)
(***************************************************************************)
EXTENDS Conversation, FiniteSetTheorems, SequenceTheorems, TLAPS

Closed == {"requested", "dismissed"}

\* A message is stored once, and the count follows the set.
Counted ==
  /\ IsFiniteSet(items)
  /\ \A t \in Turn :
       /\ ask[t] \in {"idle", "read"} => <<t, "question">> \notin items
       /\ ask[t] \in {"idle", "read", "asked"} => <<t, "answer">> \notin items
  /\ CountAgrees

\* What is stored and was not found by the deletion that runs came after it.
Looked ==
  /\ del.pc = "deleting" => items \subseteq del.found \cup del.late
  /\ OrphansAreLate

\* A proposal is that of an answer, and each who acts on it read it there.
Proposed ==
  /\ \A t \in Turn : proposal[t].state # "none" => ask[t] = "answered"
  /\ \A a \in Act : act[a].pc \notin {"idle", "found", "dead"} =>
       act[a].turn \in Turn /\ ask[act[a].turn] = "answered"

\* A request holds the run of its key.
Keyed ==
  \A a \in Act :
    /\ act[a].pc = "keyed" => act[a].key \in Key
    /\ act[a].pc \in {"enqueued", "requested"} =>
         act[a].run \in DOMAIN runs /\ runs[act[a].run].key = act[a].key

CInv == TypeOK /\ Counted /\ Looked /\ Proposed /\ Keyed /\ OneCloses

-------------------------------------------------------------------------------
LEMMA CInit == Init => CInv
<1> SUFFICES ASSUME Init PROVE CInv
  OBVIOUS
<1>1. TypeOK
  <2>1. NoAct \in ActType /\ NoProposal \in [state : {"none", "open", "requested", "dismissed"}, run : Nat]
    BY DEF NoAct, ActType, NoProposal
  <2>2. runs \in Seq([key : Key, turn : Turn])
    BY EmptySeq DEF Init
  <2> QED BY <2>1, <2>2, ConversationAssumption DEF Init, TypeOK, NoDeletion
<1>2. Counted
  BY FS_EmptySet DEF Init, Counted, CountAgrees, NoDeletion
<1> QED BY <1>1, <1>2 DEF Init, CInv, Looked, OrphansAreLate, NoDeletion, Proposed, Keyed,
           OneCloses, NoAct, NoProposal

\* What one POST of a question changes, and what it leaves alone.
LEMMA CRead == ASSUME CInv, NEW t \in Turn, ReadThread(t) \/ AskDies(t) PROVE CInv'
<1>1. /\ ask' \in [Turn -> {"idle", "read", "asked", "answered", "failed"}]
      /\ \A u \in Turn : u # t => ask'[u] = ask[u]
      /\ ask[t] # "answered"
      /\ ask'[t] = "failed" \/ (ask'[t] = "read" /\ ask[t] = "idle")
  BY DEF CInv, TypeOK, ReadThread, AskDies
<1>2. /\ meta' = meta /\ items' = items /\ del' = del /\ proposal' = proposal
      /\ act' = act /\ runs' = runs /\ bucket' = bucket
  BY DEF ReadThread, AskDies
<1>3. TypeOK'
  BY <1>1, <1>2 DEF CInv, TypeOK
<1>4. \A u \in Turn :
        /\ ask'[u] \in {"idle", "read"} => ask[u] \in {"idle", "read"}
        /\ ask'[u] = "asked" => ask[u] = "asked"
        /\ ask[u] = "answered" => ask'[u] = "answered"
  BY <1>1
<1>5. Counted'
  BY <1>2, <1>4 DEF CInv, Counted, CountAgrees
<1>6. Proposed'
  BY <1>2, <1>4 DEF CInv, Proposed
<1> QED BY <1>2, <1>3, <1>5, <1>6 DEF CInv, Looked, OrphansAreLate, Keyed, OneCloses

\* A new message is counted and late.
LEMMA AppendMeans ==
  ASSUME CInv, NEW m \in Message, m \notin items, Appended(m)
  PROVE  /\ items' = items \cup {m} /\ items' \subseteq Message
         /\ meta' \in [there : BOOLEAN, count : Nat] /\ meta'.there = meta.there
         /\ del' \in [pc : {"idle", "deleting"}, found : SUBSET Message,
                      late : SUBSET Message, times : 0..MaxDeletions]
         /\ IsFiniteSet(items') /\ CountAgrees' /\ (meta.there => Looked')
<1>1. meta \in [there : BOOLEAN, count : Nat] /\ items \subseteq Message
      /\ del \in [pc : {"idle", "deleting"}, found : SUBSET Message,
                  late : SUBSET Message, times : 0..MaxDeletions]
      /\ IsFiniteSet(items)
  BY DEF CInv, TypeOK, Counted
<1>2. items' = items \cup {m} /\ meta' = [meta EXCEPT !.count = meta.count + 1]
      /\ del' = [del EXCEPT !.late = del.late \cup {m}]
  BY DEF Appended
<1>3. Cardinality(items') = Cardinality(items) + 1 /\ IsFiniteSet(items')
  BY <1>1, <1>2, FS_AddElement
<1>4. CountAgrees'
  BY <1>1, <1>2, <1>3 DEF CInv, Counted, CountAgrees
<1>5. meta.there => Looked'
  BY <1>1, <1>2 DEF CInv, Looked, OrphansAreLate
<1> QED BY <1>1, <1>2, <1>3, <1>4, <1>5

LEMMA CQuestion == ASSUME CInv, NEW t \in Turn, StoreQuestion(t) PROVE CInv'
<1>1. ask' \in [Turn -> {"idle", "read", "asked", "answered", "failed"}]
      /\ (\A u \in Turn : u # t => ask'[u] = ask[u]) /\ ask[t] = "read"
      /\ ask'[t] = (IF meta.there THEN "asked" ELSE "failed")
  BY DEF CInv, TypeOK, StoreQuestion
<1>2. UNCHANGED <<proposal, act, runs, bucket>>
  BY DEF StoreQuestion
<1>3. Proposed' /\ Keyed' /\ OneCloses'
  BY <1>1, <1>2 DEF CInv, Proposed, Keyed, OneCloses
<1>4. CASE meta.there
  <2>1. <<t, "question">> \in Message /\ <<t, "question">> \notin items
    BY <1>1 DEF CInv, Counted, Message
  <2>2. Appended(<<t, "question">>)
    BY <1>4 DEF StoreQuestion
  <2>3. /\ items' = items \cup {<<t, "question">>} /\ items' \subseteq Message
        /\ meta' \in [there : BOOLEAN, count : Nat]
        /\ del' \in [pc : {"idle", "deleting"}, found : SUBSET Message,
                     late : SUBSET Message, times : 0..MaxDeletions]
        /\ IsFiniteSet(items') /\ CountAgrees' /\ Looked'
    BY <1>4, <2>1, <2>2, AppendMeans
  <2>4. Counted'
    BY <1>1, <1>4, <2>3 DEF CInv, Counted
  <2>5. TypeOK'
    BY <1>1, <1>2, <2>3 DEF CInv, TypeOK
  <2> QED BY <1>3, <2>3, <2>4, <2>5 DEF CInv
<1>5. CASE ~meta.there
  <2>1. UNCHANGED <<meta, items, del>>
    BY <1>5 DEF StoreQuestion
  <2>2. Counted'
    BY <1>1, <1>5, <2>1 DEF CInv, Counted, CountAgrees
  <2>3. TypeOK'
    BY <1>1, <1>2, <2>1 DEF CInv, TypeOK
  <2> QED BY <1>3, <2>1, <2>2, <2>3 DEF CInv, Looked, OrphansAreLate
<1> QED BY <1>4, <1>5

LEMMA CAnswer ==
  ASSUME CInv, NEW t \in Turn, NEW p \in BOOLEAN, StoreAnswer(t, p) PROVE CInv'
<1>1. ask' \in [Turn -> {"idle", "read", "asked", "answered", "failed"}]
      /\ (\A u \in Turn : u # t => ask'[u] = ask[u]) /\ ask[t] = "asked"
      /\ ask'[t] = (IF meta.there THEN "answered" ELSE "failed")
  BY DEF CInv, TypeOK, StoreAnswer
<1>2. UNCHANGED <<act, runs, bucket>>
  BY DEF StoreAnswer
<1>3. CASE meta.there
  <2>1. <<t, "answer">> \in Message /\ <<t, "answer">> \notin items
    BY <1>1 DEF CInv, Counted, Message
  <2>2. Appended(<<t, "answer">>)
    BY <1>3 DEF StoreAnswer
  <2>3. /\ items' = items \cup {<<t, "answer">>} /\ items' \subseteq Message
        /\ meta' \in [there : BOOLEAN, count : Nat]
        /\ del' \in [pc : {"idle", "deleting"}, found : SUBSET Message,
                     late : SUBSET Message, times : 0..MaxDeletions]
        /\ IsFiniteSet(items') /\ CountAgrees' /\ Looked'
    BY <1>3, <2>1, <2>2, AppendMeans
  <2>4. Counted'
    BY <1>1, <1>3, <2>3 DEF CInv, Counted
  <2>5. /\ proposal' \in [Turn -> [state : {"none", "open", "requested", "dismissed"}, run : Nat]]
        /\ \A u \in Turn : u # t => proposal'[u] = proposal[u]
    <3>1. proposal' = [proposal EXCEPT ![t].state = "open"] \/ proposal' = proposal
      BY <1>3 DEF StoreAnswer
    <3>2. proposal \in [Turn -> [state : {"none", "open", "requested", "dismissed"}, run : Nat]]
      BY DEF CInv, TypeOK
    <3> QED BY <3>1, <3>2
  <2>6. TypeOK'
    BY <1>1, <1>2, <2>3, <2>5 DEF CInv, TypeOK
  <2>7. Proposed'
    BY <1>1, <1>2, <1>3, <2>5 DEF CInv, Proposed
  <2>8. OneCloses'
    <3>1. \A a \in Act : act[a].pc \in Closed => act[a].turn \in Turn /\ act[a].turn # t
      BY <1>1 DEF CInv, Proposed, Closed
    <3> QED BY <1>2, <2>5, <3>1 DEF CInv, OneCloses, Closed
  <2> QED BY <1>2, <2>3, <2>4, <2>6, <2>7, <2>8 DEF CInv, Keyed
<1>4. CASE ~meta.there
  <2>1. UNCHANGED <<meta, items, del, proposal>>
    BY <1>4 DEF StoreAnswer
  <2>2. Counted'
    BY <1>1, <1>4, <2>1 DEF CInv, Counted, CountAgrees
  <2>3. TypeOK'
    BY <1>1, <1>2, <2>1 DEF CInv, TypeOK
  <2>4. Proposed'
    BY <1>1, <1>2, <1>4, <2>1 DEF CInv, Proposed
  <2> QED BY <1>2, <2>1, <2>2, <2>3, <2>4 DEF CInv, Looked, OrphansAreLate, Keyed, OneCloses
<1> QED BY <1>3, <1>4

-------------------------------------------------------------------------------
LEMMA CQuery == ASSUME CInv, DeleteQuery PROVE CInv'
<1>1. del' = [pc |-> "deleting", found |-> items, late |-> {}, times |-> del.times + 1]
      /\ UNCHANGED <<meta, items, ask, proposal, act, runs, bucket>>
  BY DEF DeleteQuery
<1>2. del.times \in 0..MaxDeletions /\ del.times < MaxDeletions /\ items \subseteq Message
      /\ meta.there
  BY DEF DeleteQuery, CInv, TypeOK
<1>3. TypeOK'
  BY <1>1, <1>2, ConversationAssumption DEF CInv, TypeOK
<1>4. Counted' /\ Looked'
  BY <1>1, <1>2 DEF CInv, Counted, CountAgrees, Looked, OrphansAreLate
<1> QED BY <1>1, <1>3, <1>4 DEF CInv, Proposed, Keyed, OneCloses

\* A deletion that runs, or has run, is not the none there was.
DeletedBefore == del.pc = "deleting" => del.times > 0

LEMMA CSome == ASSUME CInv, DeletedBefore, NEW ms \in SUBSET Message, DeleteSome(ms) PROVE CInv'
<1>1. items' = items \ ms /\ del' = [del EXCEPT !.found = del.found \ ms]
      /\ UNCHANGED <<meta, ask, act, runs, bucket>> /\ del.pc = "deleting"
  BY DEF DeleteSome
<1>2. /\ proposal' \in [Turn -> [state : {"none", "open", "requested", "dismissed"}, run : Nat]]
      /\ \A u \in Turn : proposal'[u] = proposal[u] \/ proposal'[u] = NoProposal
  BY DEF DeleteSome, CInv, TypeOK, NoProposal
<1>3. del' \in [pc : {"idle", "deleting"}, found : SUBSET Message, late : SUBSET Message,
                times : 0..MaxDeletions]
      /\ del'.pc = del.pc /\ del'.times = del.times /\ del'.late = del.late
      /\ del'.found = del.found \ ms
  BY <1>1 DEF CInv, TypeOK
<1>4. TypeOK'
  BY <1>1, <1>2, <1>3 DEF CInv, TypeOK
<1>5. Counted'
  BY <1>1, <1>3, FS_Subset DEF CInv, Counted, CountAgrees, DeletedBefore
<1>6. Looked'
  BY <1>1, <1>3 DEF CInv, Looked, OrphansAreLate
<1>7. Proposed'
  BY <1>1, <1>2 DEF CInv, Proposed, NoProposal
<1>8. OneCloses'
  <2>1. \A a \in Act : act[a].pc \in Closed => act[a].turn \in Turn
    BY DEF CInv, Proposed, Closed
  <2> QED BY <1>1, <1>2, <2>1 DEF CInv, OneCloses, NoProposal, Closed
<1> QED BY <1>1, <1>4, <1>5, <1>6, <1>7, <1>8 DEF CInv, Keyed

LEMMA CDelete == ASSUME CInv, DeletedBefore, DeleteMeta \/ DeleteFails PROVE CInv'
<1>1. UNCHANGED <<items, ask, proposal, act, runs, bucket>> /\ del.pc = "deleting"
  BY DEF DeleteMeta, DeleteFails
<1>2. /\ meta' \in [there : BOOLEAN, count : Nat]
      /\ del' \in [pc : {"idle", "deleting"}, found : SUBSET Message, late : SUBSET Message,
                   times : 0..MaxDeletions]
      /\ del'.pc = "idle" /\ del'.times = del.times /\ del'.late = del.late
      /\ meta'.there # meta.there => del.found = {}
  BY DEF DeleteMeta, DeleteFails, MessagesGone, CInv, TypeOK
<1>3. TypeOK'
  BY <1>1, <1>2 DEF CInv, TypeOK
<1>4. Counted'
  BY <1>1, <1>2 DEF CInv, Counted, CountAgrees, DeletedBefore
<1>5. Looked'
  BY <1>1, <1>2 DEF CInv, Looked, OrphansAreLate
<1> QED BY <1>1, <1>3, <1>4, <1>5 DEF CInv, Proposed, Keyed, OneCloses

-------------------------------------------------------------------------------
\* A member's request moves on without closing anything.
LEMMA CActs ==
  ASSUME CInv, NEW a \in Act,
         FindThread(a) \/ (\E t \in Turn : ReadProposal(a, t)) \/ ActDies(a)
           \/ (\E scope \in Scope : Enqueue(a, scope))
  PROVE  CInv'
<1>1. UNCHANGED <<meta, items, ask, del, proposal, runs, bucket>>
  BY DEF FindThread, ReadProposal, ActDies, Enqueue
<1>2. act \in [Act -> ActType] /\ bucket \in 0..MaxBucket
  BY DEF CInv, TypeOK
<1>3. /\ act' \in [Act -> ActType] /\ \A b \in Act : b # a => act'[b] = act[b]
      /\ act'[a].pc \in {"found", "read", "keyed", "dead"}
      /\ act'[a].pc = "keyed" => act'[a].key \in Key
      /\ act'[a].pc \in {"read", "keyed"} =>
           act'[a].turn \in Turn /\ ask[act'[a].turn] = "answered"
  <2>1. CASE FindThread(a)
    BY <1>2, <2>1 DEF FindThread, ActType
  <2>2. CASE \E t \in Turn : ReadProposal(a, t)
    <3> PICK t \in Turn : ReadProposal(a, t)
      BY <2>2
    <3>1. act' = [act EXCEPT ![a].pc = "read", ![a].turn = t] /\ proposal[t].state = "open"
      BY DEF ReadProposal
    <3>2. ask[t] = "answered"
      BY <3>1 DEF CInv, Proposed
    <3> QED BY <1>2, <3>1, <3>2 DEF ActType
  <2>3. CASE ActDies(a)
    BY <1>2, <2>3 DEF ActDies, ActType
  <2>4. CASE \E scope \in Scope : Enqueue(a, scope)
    <3> PICK scope \in Scope : Enqueue(a, scope)
      BY <2>4
    <3>1. act' = [act EXCEPT ![a].pc = "keyed", ![a].key = <<scope, bucket>>]
          /\ act[a].pc = "read" /\ <<scope, bucket>> \in Key
      BY <1>2 DEF Enqueue, Key
    <3> QED BY <1>2, <3>1 DEF ActType, CInv, Proposed
  <2> QED BY <2>1, <2>2, <2>3, <2>4
<1>4. TypeOK'
  BY <1>1, <1>3 DEF CInv, TypeOK
<1>5. Proposed' /\ Keyed'
  BY <1>1, <1>3 DEF CInv, Proposed, Keyed
<1>6. OneCloses'
  BY <1>1, <1>3 DEF CInv, OneCloses
<1> QED BY <1>1, <1>4, <1>5, <1>6 DEF CInv, Counted, CountAgrees, Looked, OrphansAreLate

LEMMA CInsert == ASSUME CInv, NEW a \in Act, InsertRun(a) PROVE CInv'
<1> DEFINE Run == [key : Key, turn : Turn]
<1>1. UNCHANGED <<meta, items, ask, del, proposal, bucket>> /\ act[a].pc = "keyed"
  BY DEF InsertRun
<1>2. act \in [Act -> ActType] /\ act[a] \in ActType /\ runs \in Seq(Run)
      /\ act[a].key \in Key /\ act[a].turn \in Turn /\ ask[act[a].turn] = "answered"
  BY <1>1 DEF CInv, TypeOK, Keyed, Proposed
<1>3. /\ act' \in [Act -> ActType] /\ \A b \in Act : b # a => act'[b] = act[b]
      /\ act'[a].pc = "enqueued" /\ act'[a].turn = act[a].turn /\ act'[a].key = act[a].key
      /\ act'[a].run \in DOMAIN runs' /\ runs'[act'[a].run].key = act[a].key
      /\ runs' \in Seq(Run) /\ DOMAIN runs \subseteq DOMAIN runs'
      /\ \A n \in DOMAIN runs : runs'[n] = runs[n]
  <2>1. CASE Holding(act[a].key) = {}
    <3>1. runs' = Append(runs, [key |-> act[a].key, turn |-> act[a].turn])
          /\ act' = [act EXCEPT ![a].pc = "enqueued", ![a].run = Len(runs) + 1]
      BY <2>1 DEF InsertRun
    <3>2. [key |-> act[a].key, turn |-> act[a].turn] \in Run /\ Len(runs) \in Nat
          /\ DOMAIN runs = 1..Len(runs)
      BY <1>2
    <3>3. runs' \in Seq(Run) /\ DOMAIN runs' = 1..(Len(runs) + 1)
          /\ (\A n \in DOMAIN runs : runs'[n] = runs[n])
          /\ runs'[Len(runs) + 1] = [key |-> act[a].key, turn |-> act[a].turn]
      BY <1>2, <3>1, <3>2
    <3>4. /\ act' \in [Act -> ActType] /\ (\A b \in Act : b # a => act'[b] = act[b])
          /\ act'[a].pc = "enqueued" /\ act'[a].turn = act[a].turn
          /\ act'[a].key = act[a].key /\ act'[a].run = Len(runs) + 1
      <4>1. Len(runs) + 1 \in Nat
        BY <3>2
      <4>2. act' = [act EXCEPT ![a] = [act[a] EXCEPT !.pc = "enqueued", !.run = Len(runs) + 1]]
        BY <3>1
      <4>3. [act[a] EXCEPT !.pc = "enqueued", !.run = Len(runs) + 1] \in ActType
        BY <1>2, <4>1 DEF ActType
      <4> QED BY <1>2, <4>2, <4>3 DEF ActType
    <3>5. Len(runs) + 1 \in DOMAIN runs' /\ DOMAIN runs \subseteq DOMAIN runs'
          /\ runs'[Len(runs) + 1].key = act[a].key
      BY <3>2, <3>3
    <3> HIDE DEF Run
    <3> QED BY <3>3, <3>4, <3>5
  <2>2. CASE Holding(act[a].key) # {}
    <3>1. PICK n \in Holding(act[a].key) :
            act' = [act EXCEPT ![a].pc = "enqueued", ![a].run = n]
      BY <2>2 DEF InsertRun
    <3>2. runs' = runs /\ n \in DOMAIN runs /\ runs[n].key = act[a].key /\ n \in Nat
      BY <1>2, <2>2 DEF InsertRun, Holding
    <3> HIDE DEF Run
    <3> QED BY <1>2, <3>1, <3>2 DEF ActType
  <2> QED BY <2>1, <2>2
<1> HIDE DEF Run
<1>4. TypeOK'
  BY <1>1, <1>3 DEF CInv, TypeOK, Run
<1>5. Proposed'
  <2>1. \A b \in Act : act'[b].pc \notin {"idle", "found", "dead"} =>
          act'[b].turn \in Turn /\ ask[act'[b].turn] = "answered"
    BY <1>2, <1>3 DEF CInv, Proposed
  <2> QED BY <1>1, <2>1 DEF CInv, Proposed
<1>6. Keyed'
  BY <1>2, <1>3 DEF CInv, Keyed, Key
<1>7. OneCloses'
  BY <1>1, <1>3 DEF CInv, OneCloses
<1> QED BY <1>1, <1>4, <1>5, <1>6, <1>7 DEF CInv, Counted, CountAgrees, Looked, OrphansAreLate

\* Closing is refused to all but the first.
LEMMA CCloses ==
  ASSUME CInv, NEW a \in Act, Dismiss(a) \/ CloseRequested(a)
  PROVE  CInv'
<1>1. UNCHANGED <<meta, items, ask, del, runs, bucket>>
  BY DEF Dismiss, CloseRequested
<1>2. PICK s \in Closed : Close(a, s) /\ act[a].pc \in {"read", "enqueued"}
                          /\ (s = "requested" => act[a].pc = "enqueued")
  BY DEF Dismiss, CloseRequested, Closed
<1> DEFINE t == act[a].turn
<1>3. /\ act \in [Act -> ActType] /\ act[a] \in ActType /\ t \in Turn /\ ask[t] = "answered"
      /\ proposal \in [Turn -> [state : {"none", "open", "requested", "dismissed"}, run : Nat]]
      /\ act[a].run \in Nat
  BY <1>2 DEF CInv, TypeOK, Proposed, ActType
<1>4. CASE StillOpen(t)
  <2>1. /\ proposal' = [proposal EXCEPT ![t] = [state |-> s, run |-> act[a].run]]
        /\ act' = [act EXCEPT ![a].pc = s]
    BY <1>2, <1>4 DEF Close
  <2>2. /\ act' \in [Act -> ActType] /\ \A b \in Act : b # a => act'[b] = act[b]
        /\ act'[a].pc = s /\ act'[a].turn = t /\ act'[a].run = act[a].run
        /\ act'[a].key = act[a].key
        /\ proposal' \in [Turn -> [state : {"none", "open", "requested", "dismissed"}, run : Nat]]
        /\ proposal'[t].state = s /\ proposal'[t].run = act[a].run
        /\ \A u \in Turn : u # t => proposal'[u] = proposal[u]
    BY <1>3, <2>1 DEF ActType, Closed
  <2>3. TypeOK'
    BY <1>1, <2>2 DEF CInv, TypeOK
  <2>4. Proposed' /\ Keyed'
    <3>1. Proposed'
      <4>1. \A u \in Turn : proposal'[u].state # "none" => ask'[u] = "answered"
        BY <1>1, <1>3, <2>2 DEF CInv, Proposed
      <4>2. \A b \in Act : act'[b].pc \notin {"idle", "found", "dead"} =>
              act'[b].turn \in Turn /\ ask'[act'[b].turn] = "answered"
        BY <1>1, <1>3, <2>2 DEF CInv, Proposed
      <4> QED BY <4>1, <4>2 DEF Proposed
    <3>2. \A b \in Act \ {a} : act'[b] = act[b]
      BY <2>2
    <3>3. act'[a].pc # "keyed" /\ act'[a].run = act[a].run /\ act'[a].key = act[a].key
          /\ (act'[a].pc \in {"enqueued", "requested"} => act[a].pc = "enqueued")
      BY <1>2, <2>2 DEF Closed
    <3>4. Keyed'
      BY <1>1, <3>2, <3>3 DEF CInv, Keyed, Key
    <3> QED BY <3>1, <3>4
  <2>5. \A b \in Act : act[b].pc \in Closed => act[b].turn \in Turn /\ act[b].turn # t
    BY <1>4 DEF CInv, Proposed, OneCloses, Closed, StillOpen
  <2>6. OneCloses'
    BY <1>1, <1>2, <2>2, <2>4, <2>5 DEF CInv, OneCloses, Keyed, Closed
  <2> QED BY <1>1, <2>3, <2>4, <2>6 DEF CInv, Counted, CountAgrees, Looked, OrphansAreLate
<1>5. CASE ~StillOpen(t)
  <2>1. act' = [act EXCEPT ![a].pc = "conflict"] /\ proposal' = proposal
    BY <1>2, <1>5 DEF Close
  <2>2. /\ act' \in [Act -> ActType] /\ \A b \in Act : b # a => act'[b] = act[b]
        /\ act'[a].pc = "conflict" /\ act'[a].turn = t
    BY <1>3, <2>1 DEF ActType
  <2>3. TypeOK'
    BY <1>1, <2>1, <2>2 DEF CInv, TypeOK
  <2>4. Proposed' /\ Keyed'
    BY <1>1, <1>3, <2>1, <2>2 DEF CInv, Proposed, Keyed
  <2>5. OneCloses'
    BY <1>1, <2>1, <2>2 DEF CInv, OneCloses
  <2> QED BY <1>1, <2>3, <2>4, <2>5 DEF CInv, Counted, CountAgrees, Looked, OrphansAreLate
<1> QED BY <1>4, <1>5

-------------------------------------------------------------------------------
LEMMA CNext == CInv /\ DeletedBefore /\ [Next]_vars => CInv' /\ DeletedBefore'
<1> SUFFICES ASSUME CInv, DeletedBefore, [Next]_vars PROVE CInv' /\ DeletedBefore'
  OBVIOUS
<1>1. CASE \E t \in Turn : ReadThread(t) \/ StoreQuestion(t) \/ AskDies(t)
  <2>1. CInv'
    BY <1>1, CRead, CQuestion
  <2>2. DeletedBefore'
    BY <1>1 DEF ReadThread, StoreQuestion, AskDies, Appended, DeletedBefore, CInv, TypeOK
  <2> QED BY <2>1, <2>2
<1>2. CASE \E t \in Turn, p \in BOOLEAN : StoreAnswer(t, p)
  <2>1. CInv'
    BY <1>2, CAnswer
  <2>2. DeletedBefore'
    BY <1>2 DEF StoreAnswer, Appended, DeletedBefore, CInv, TypeOK
  <2> QED BY <2>1, <2>2
<1>3. CASE DeleteQuery
  <2>1. CInv'
    BY <1>3, CQuery
  <2>2. DeletedBefore'
    BY <1>3 DEF DeleteQuery, DeletedBefore, CInv, TypeOK
  <2> QED BY <2>1, <2>2
<1>4. CASE DeleteMeta \/ DeleteFails
  <2>1. CInv'
    BY <1>4, CDelete
  <2>2. DeletedBefore'
    BY <1>4 DEF DeleteMeta, DeleteFails, DeletedBefore, CInv, TypeOK
  <2> QED BY <2>1, <2>2
<1>5. CASE \E ms \in SUBSET Message : DeleteSome(ms)
  <2>1. CInv'
    BY <1>5, CSome
  <2>2. DeletedBefore'
    BY <1>5 DEF DeleteSome, DeletedBefore, CInv, TypeOK
  <2> QED BY <2>1, <2>2
<1>6. CASE \E a \in Act, t \in Turn : ReadProposal(a, t)
  <2>1. CInv'
    BY <1>6, CActs
  <2>2. DeletedBefore'
    BY <1>6 DEF ReadProposal, DeletedBefore
  <2> QED BY <2>1, <2>2
<1>7. CASE \E a \in Act, scope \in Scope : Enqueue(a, scope)
  <2>1. CInv'
    BY <1>7, CActs
  <2>2. DeletedBefore'
    BY <1>7 DEF Enqueue, DeletedBefore
  <2> QED BY <2>1, <2>2
<1>8. CASE \E a \in Act : FindThread(a) \/ Dismiss(a) \/ InsertRun(a) \/ CloseRequested(a)
                           \/ ActDies(a)
  <2>1. CInv'
    BY <1>8, CActs, CCloses, CInsert
  <2>2. DeletedBefore'
    BY <1>8 DEF FindThread, Dismiss, InsertRun, CloseRequested, ActDies, DeletedBefore
  <2> QED BY <2>1, <2>2
<1>9. CASE TimePasses
  <2>1. bucket' \in 0..MaxBucket /\ UNCHANGED <<meta, items, ask, del, proposal, act, runs>>
    BY <1>9, ConversationAssumption DEF TimePasses, CInv, TypeOK
  <2>2. TypeOK'
    BY <2>1 DEF CInv, TypeOK
  <2> QED BY <2>1, <2>2 DEF CInv, Counted, CountAgrees, Looked, OrphansAreLate, Proposed,
             Keyed, OneCloses, DeletedBefore
<1>10. CASE UNCHANGED vars
  BY <1>10 DEF vars, CInv, TypeOK, Counted, CountAgrees, Looked, OrphansAreLate, Proposed,
               Keyed, OneCloses, DeletedBefore
<1> QED BY <1>1, <1>2, <1>3, <1>4, <1>5, <1>6, <1>7, <1>8, <1>9, <1>10 DEF Next

\* The invariant holds: every message is counted once, a deletion has found all that
\* came before it, and who acts on a proposal has read it (src/app/lib/chat/store.ts).
THEOREM ConversationInvariance == Spec => []CInv
<1>1. Init => CInv /\ DeletedBefore
  BY CInit DEF Init, DeletedBefore, NoDeletion
<1>2. CInv /\ DeletedBefore /\ [Next]_vars => CInv' /\ DeletedBefore'
  BY CNext
<1> QED BY <1>1, <1>2, PTL DEF Spec

\* Every value stays of its type, for any numbers of turns, members and deletions.
THEOREM ConversationTypes == Spec => []TypeOK
BY ConversationInvariance, PTL DEF CInv

\* The count of a conversation never disagrees with its messages before a deletion
\* of it begins (appendMessage's transaction).
THEOREM CountNeverDisagrees == Spec => []CountAgrees
<1>1. CInv => CountAgrees
  BY DEF CInv, Counted
<1> QED BY <1>1, ConversationInvariance, PTL

\* A deletion leaves behind only what was appended after it looked (deleteThread).
THEOREM OnlyLateOrphans == Spec => []OrphansAreLate
<1>1. CInv => OrphansAreLate
  BY DEF CInv, Looked
<1> QED BY <1>1, ConversationInvariance, PTL

\* However many members act on a proposal, one of them closes it (closeProposal).
THEOREM OnlyOneCloses == Spec => []OneCloses
BY ConversationInvariance, PTL DEF CInv
===============================================================================
