------------------------------ MODULE StoresProofs -----------------------------
(***************************************************************************)
(* The stores of the app, for any number of rows, requests and people: the *)
(* action register, a workspace's team, a report's delivery, feedback, a   *)
(* connector, and the collections that run inside a request.  They share   *)
(* no table, so each has its constants, its variables, its invariant and   *)
(* its theorems, one section after the other.                              *)
(***************************************************************************)
EXTENDS ActionRegister, Stores, FiniteSetTheorems, TLAPS

-------------------------------------------------------------------------------
(***************************************************************************)
(* The action register.  What it says rests on what a committed run saw.   *)
(* The invariant says so of the rows a transaction has written and not     *)
(* committed too: a committed item cites committed runs, a pending one may *)
(* also cite its own.                                                      *)
(***************************************************************************)

Committed == {r \in Run : sync[r].pc = "committed"}

\* Row w of key k rests on evidence of the runs in R.
Rests(w, k, R) ==
  /\ w.status = "resolved" => w.cited \in R /\ verdict[w.cited][k] = "clear"
  /\ w.first # None => w.first \in R /\ verdict[w.first][k] = "found"
  /\ w.seen # None => w.seen \in R /\ verdict[w.seen][k] = "found"
  /\ w.cited # None => w.cited \in R

ItemsRest == \A k \in Key : Rests(item[k], k, Committed)
PendingRest ==
  \A r \in Run : sync[r].pc = "syncing" =>
    \A k \in sync[r].done : Rests(sync[r].rows[k], k, Committed \cup {r})

EInv == TypeOK /\ ItemsRest /\ PendingRest

-------------------------------------------------------------------------------
LEMMA PlanMeans ==
  ASSUME NEW r \in Run, NEW k \in Key, NEW s \in ItemStatus,
         verdict \in [Run -> [Key -> {"found", "clear", "unchecked"}]]
  PROVE  /\ Plan(r, k, s) \in {"add", "see"} => verdict[r][k] = "found"
         /\ Plan(r, k, s) = "resolve" => verdict[r][k] = "clear"
         /\ Plan(r, k, s) \in {"add", "see", "resolve", "leave"}
BY DEF Plan

LEMMA UpcomingMeans ==
  ASSUME NEW r \in Run, NEW k \in Upcoming(r)
  PROVE  k \in Key /\ Plan(r, k, sync[r].read[k]) # "leave"
BY DEF Upcoming, Planned

LEMMA RestsMore ==
  ASSUME NEW w, NEW k, NEW R, NEW Q, R \subseteq Q, Rests(w, k, R)
  PROVE  Rests(w, k, Q)
BY DEF Rests

\* The row a transaction writes rests on what has committed and on its own run.
LEMMA RowWritten ==
  ASSUME EInv, NEW r \in Run, NEW k \in Upcoming(r), sync[r].pc = "syncing",
         NEW w, w = CASE Plan(r, k, sync[r].read[k]) = "add" -> Added(r)
                      [] Plan(r, k, sync[r].read[k]) = "see" -> Seen(r, k)
                      [] OTHER -> Resolved(r, k)
  PROVE  w \in ItemType /\ Rests(w, k, Committed \cup {r})
<1> DEFINE what == Plan(r, k, sync[r].read[k])
<1>1. /\ k \in Key /\ what # "leave" /\ r # None
      /\ item[k] \in ItemType /\ sync[r].read[k] \in ItemStatus
  <2>1. sync[r] \in SyncType /\ k \in Key /\ what # "leave" /\ r # None
    BY UpcomingMeans, NoneAssumption DEF EInv, TypeOK
  <2> QED BY <2>1 DEF EInv, TypeOK, SyncType
<1>2. /\ what \in {"add", "see"} => verdict[r][k] = "found"
      /\ what = "resolve" => verdict[r][k] = "clear"
      /\ what \in {"add", "see", "resolve"}
  BY <1>1, PlanMeans DEF EInv, TypeOK
<1>3. Rests(item[k], k, Committed \cup {r})
  BY <1>1, RestsMore DEF EInv, ItemsRest
<1>4. CASE what = "add"
  BY <1>1, <1>2, <1>4 DEF Added, Rests, ItemType, ItemStatus, EditableStatus
<1>5. CASE what = "see"
  <2>1. w = Seen(r, k)
    BY <1>5
  <2>2. w \in {[item[k] EXCEPT !.seen = r, !.status = "open", !.cited = None],
               [item[k] EXCEPT !.seen = r]}
    BY <2>1 DEF Seen
  <2> QED BY <1>1, <1>2, <1>3, <1>5, <2>2 DEF Rests, ItemType, ItemStatus, EditableStatus
<1>6. CASE what = "resolve"
  <2>1. w = [item[k] EXCEPT !.status = "resolved", !.cited = r]
    BY <1>6 DEF Resolved
  <2> QED BY <1>1, <1>2, <1>3, <1>6, <2>1 DEF Rests, ItemType, ItemStatus
<1> QED BY <1>2, <1>4, <1>5, <1>6

LEMMA EInit == Init => EInv
<1> SUFFICES ASSUME Init PROVE EInv
  OBVIOUS
<1>1. Absent \in ItemType
  BY DEF Absent, ItemType, ItemStatus
<1>2. NoSync \in SyncType
  BY <1>1 DEF NoSync, ItemStatus, SyncType
<1>3. NoEdit \in EditType
  BY DEF NoEdit, EditableStatus, EditType
<1>4. TypeOK
  BY <1>1, <1>2, <1>3 DEF Init, TypeOK
<1>5. ItemsRest
  BY DEF Init, ItemsRest, Rests, Absent
<1>6. PendingRest
  BY DEF Init, PendingRest, NoSync
<1> QED BY <1>4, <1>5, <1>6 DEF EInv

LEMMA EWrite ==
  ASSUME EInv, NEW r \in Run, NEW k \in Key, Write(r, k) PROVE EInv'
<1> DEFINE w == CASE Plan(r, k, sync[r].read[k]) = "add" -> Added(r)
                  [] Plan(r, k, sync[r].read[k]) = "see" -> Seen(r, k)
                  [] OTHER -> Resolved(r, k)
<1>1. /\ k \in Upcoming(r) /\ sync[r].pc = "syncing"
      /\ sync' = [sync EXCEPT ![r].done = @ \cup {k}, ![r].rows[k] = w]
      /\ lock' = [lock EXCEPT ![k] = r]
      /\ UNCHANGED <<verdict, item, edit, log>>
  BY DEF Write
<1>2. w \in ItemType /\ Rests(w, k, Committed \cup {r})
  BY <1>1, RowWritten
<1> HIDE DEF w
<1>31. sync[r] \in SyncType
  BY DEF EInv, TypeOK
<1>32. PICK v \in SyncType :
        /\ sync' = [sync EXCEPT ![r] = v] /\ v.pc = "syncing"
        /\ v.done = sync[r].done \cup {k} /\ v.rows = [sync[r].rows EXCEPT ![k] = w]
  <2> DEFINE u == [sync[r] EXCEPT !.done = @ \cup {k}, !.rows = [@ EXCEPT ![k] = w]]
  <2>1. u \in SyncType
    BY <1>31, <1>2 DEF SyncType
  <2>2. sync' = [sync EXCEPT ![r] = u]
    BY <1>1, <1>31 DEF SyncType, EInv, TypeOK
  <2>3. u.pc = "syncing" /\ u.done = sync[r].done \cup {k}
        /\ u.rows = [sync[r].rows EXCEPT ![k] = w]
    BY <1>1, <1>31 DEF SyncType
  <2> QED BY <2>1, <2>2, <2>3
<1>3. TypeOK'
  BY <1>1, <1>32 DEF EInv, TypeOK
<1>4. Committed' = Committed
  BY <1>1, <1>32 DEF Committed, EInv, TypeOK
<1>5. ItemsRest'
  BY <1>1, <1>4 DEF EInv, ItemsRest, Rests
<1>6. PendingRest'
  <2>0. verdict' = verdict
    BY <1>1
  <2> SUFFICES ASSUME NEW q \in Run, sync'[q].pc = "syncing", NEW j \in sync'[q].done
               PROVE  Rests(sync'[q].rows[j], j, Committed' \cup {q})
    BY <2>0 DEF PendingRest, Rests
  <2>1. CASE q = r /\ j = k
    <3>1. sync'[r] = v /\ v.rows[k] = w
      BY <1>31, <1>32 DEF EInv, TypeOK, SyncType
    <3> QED BY <1>2, <1>4, <2>1, <3>1
  <2>2. CASE q = r /\ j # k
    <3>1. sync'[r] = v /\ j \in sync[r].done
      BY <1>32, <2>2 DEF EInv, TypeOK
    <3>2. j \in Key /\ v.rows[j] = sync[r].rows[j]
      BY <1>31, <1>32, <2>2, <3>1 DEF SyncType
    <3> QED BY <1>1, <1>4, <2>2, <3>1, <3>2 DEF EInv, PendingRest
  <2>3. CASE q # r
    <3>1. sync'[q] = sync[q]
      BY <1>32, <2>3 DEF EInv, TypeOK
    <3> QED BY <1>4, <3>1 DEF EInv, PendingRest
  <2> QED BY <2>1, <2>2, <2>3
<1> QED BY <1>3, <1>5, <1>6 DEF EInv

LEMMA ECommit ==
  ASSUME EInv, NEW r \in Run, Commit(r) PROVE EInv'
<1>1. /\ sync[r].pc = "syncing"
      /\ item' = [k \in Key |-> IF k \in sync[r].done THEN sync[r].rows[k] ELSE item[k]]
      /\ sync' = [sync EXCEPT ![r].pc = "committed"] /\ log' = Append(log, r)
      /\ lock' = Released(r) /\ UNCHANGED <<verdict, edit>>
  BY DEF Commit
<1>31. sync[r] \in SyncType /\ [sync[r] EXCEPT !.pc = "committed"] \in SyncType
  <2>1. sync[r] \in SyncType
    BY DEF EInv, TypeOK
  <2> QED BY <2>1 DEF SyncType
<1>32. sync' \in [Run -> SyncType]
  BY <1>1, <1>31 DEF EInv, TypeOK
<1>33. item' \in [Key -> ItemType]
  BY <1>1, <1>31 DEF EInv, TypeOK, SyncType
<1>34. lock' \in [Key -> Run \cup {None}]
  BY <1>1 DEF EInv, TypeOK, Released
<1>2. TypeOK'
  BY <1>1, <1>32, <1>33, <1>34 DEF EInv, TypeOK
<1>3. Committed' = Committed \cup {r}
  BY <1>1 DEF Committed, EInv, TypeOK
<1>4. ItemsRest'
  <2> SUFFICES ASSUME NEW k \in Key PROVE Rests(item'[k], k, Committed \cup {r})
    BY <1>1, <1>3 DEF ItemsRest, Rests
  <2>1. CASE k \in sync[r].done
    BY <1>1, <2>1 DEF EInv, PendingRest
  <2>2. CASE k \notin sync[r].done
    BY <1>1, <2>2, RestsMore DEF EInv, ItemsRest
  <2> QED BY <2>1, <2>2
<1>5. PendingRest'
  <2> SUFFICES ASSUME NEW q \in Run, sync'[q].pc = "syncing", NEW j \in sync'[q].done
               PROVE  Rests(sync'[q].rows[j], j, Committed' \cup {q})
    BY <1>1 DEF PendingRest, Rests
  <2>1. q # r /\ sync'[q] = sync[q]
    BY <1>1 DEF EInv, TypeOK
  <2>2. Rests(sync[q].rows[j], j, Committed \cup {q})
    BY <2>1 DEF EInv, PendingRest
  <2> QED BY <1>3, <2>1, <2>2, RestsMore
<1> QED BY <1>2, <1>4, <1>5 DEF EInv

LEMMA EOther ==
  ASSUME EInv,
         \/ \E r \in Run : Skip(r) \/ Read(r) \/ Fail(r)
         \/ \E p \in Person, k \in Key, to \in EditableStatus : EditRead(p, k, to)
         \/ \E p \in Person : EditWrite(p)
         \/ UNCHANGED vars
  PROVE  EInv'
<1>1. ASSUME NEW r \in Run, Skip(r) \/ Fail(r) PROVE EInv'
  <2>1. /\ sync' = [sync EXCEPT ![r].pc = "failed"] /\ UNCHANGED <<verdict, item, edit, log>>
        /\ lock' \in {lock, Released(r)} /\ sync[r].pc # "committed"
    BY <1>1 DEF Skip, Fail
  <2>2. TypeOK'
    <3>1. [sync[r] EXCEPT !.pc = "failed"] \in SyncType
      <4>1. sync[r] \in SyncType
        BY DEF EInv, TypeOK
      <4> QED BY <4>1 DEF SyncType
    <3>2. lock' \in [Key -> Run \cup {None}]
      BY <2>1 DEF EInv, TypeOK, Released
    <3> QED BY <2>1, <3>1, <3>2 DEF EInv, TypeOK
  <2>3. Committed' = Committed
    BY <2>1 DEF Committed, EInv, TypeOK
  <2>4. ItemsRest'
    BY <2>1, <2>3 DEF EInv, ItemsRest, Rests
  <2>5. PendingRest'
    BY <2>1, <2>3 DEF EInv, PendingRest, Rests, TypeOK
  <2> QED BY <2>2, <2>4, <2>5 DEF EInv
<1>2. ASSUME NEW r \in Run, Read(r) PROVE EInv'
  <2> DEFINE new == [NoSync EXCEPT !.pc = "syncing", !.met = Syncing,
                                   !.read = [k \in Key |-> item[k].status]]
             old(q) == IF q \in Syncing THEN [sync[q] EXCEPT !.met = @ \cup {r}]
                       ELSE sync[q]
  <2>1. /\ sync[r].pc = "ready" /\ UNCHANGED <<verdict, item, lock, edit, log>>
        /\ sync' = [q \in Run |-> IF q = r THEN new ELSE old(q)]
    BY <1>2 DEF Read
  <2>2. new \in SyncType /\ new.done = {} /\ new.pc = "syncing"
    <3>1. Absent \in ItemType
      BY DEF Absent, ItemType, ItemStatus
    <3>2. \A k \in Key : item[k].status \in ItemStatus
      BY DEF EInv, TypeOK, ItemType
    <3> QED BY <3>1, <3>2 DEF NoSync, SyncType, Syncing
  <2>3. \A q \in Run : old(q) \in SyncType /\ old(q).pc = sync[q].pc
                       /\ old(q).done = sync[q].done /\ old(q).rows = sync[q].rows
    <3> SUFFICES ASSUME NEW q \in Run
                 PROVE  old(q) \in SyncType /\ old(q).pc = sync[q].pc
                        /\ old(q).done = sync[q].done /\ old(q).rows = sync[q].rows
      OBVIOUS
    <3>1. sync[q] \in SyncType
      BY DEF EInv, TypeOK
    <3> QED BY <3>1 DEF SyncType
  <2> HIDE DEF new, old
  <2>4. TypeOK'
    BY <2>1, <2>2, <2>3 DEF EInv, TypeOK
  <2>5. Committed' = Committed
    BY <2>1, <2>2, <2>3 DEF Committed
  <2>6. ItemsRest'
    BY <2>1, <2>5 DEF EInv, ItemsRest, Rests
  <2>7. PendingRest'
    BY <2>1, <2>2, <2>3, <2>5 DEF EInv, PendingRest, Rests
  <2> QED BY <2>4, <2>6, <2>7 DEF EInv
<1>3. ASSUME NEW p \in Person, NEW k \in Key, NEW to \in EditableStatus, EditRead(p, k, to)
      PROVE  EInv'
  <2>1. UNCHANGED <<verdict, item, lock, sync, log>>
    BY <1>3 DEF EditRead
  <2>2. edit' \in [Person -> EditType]
    BY <1>3 DEF EditRead, EInv, TypeOK, EditType
  <2>3. TypeOK'
    BY <2>1, <2>2 DEF EInv, TypeOK
  <2>4. ItemsRest'
    BY <2>1 DEF EInv, ItemsRest, Rests, Committed
  <2>5. PendingRest'
    BY <2>1 DEF EInv, PendingRest, Rests, Committed
  <2> QED BY <2>3, <2>4, <2>5 DEF EInv
<1>4. ASSUME NEW p \in Person, EditWrite(p) PROVE EInv'
  <2>1. /\ edit[p].to \in EditableStatus /\ edit[p].key \in Key \cup {None}
        /\ UNCHANGED <<verdict, sync, lock, log>>
    BY <1>4 DEF EditWrite, EInv, TypeOK, EditType
  <2>2. \A k \in Key : item'[k] = item[k] \/ item'[k] = [item[k] EXCEPT !.status = edit[p].to]
    BY <1>4 DEF EditWrite, EInv, TypeOK
  <2>3. item' \in [Key -> ItemType]
    <3>1. \A k \in Key : item'[k] \in ItemType
      <4> SUFFICES ASSUME NEW k \in Key PROVE item'[k] \in ItemType
        OBVIOUS
      <4>1. item[k] \in ItemType /\ [item[k] EXCEPT !.status = edit[p].to] \in ItemType
        BY <2>1 DEF EInv, TypeOK, ItemType, ItemStatus
      <4> QED BY <2>2, <4>1
    <3> QED BY <1>4, <3>1 DEF EditWrite, EInv, TypeOK
  <2>4. TypeOK'
    <3>1. edit[p] \in EditType /\ [edit[p] EXCEPT !.pc = "done"] \in EditType
      BY DEF EInv, TypeOK, EditType
    <3>2. edit' \in [Person -> EditType]
      BY <1>4, <3>1 DEF EditWrite, EInv, TypeOK
    <3> QED BY <2>1, <2>3, <3>2 DEF EInv, TypeOK
  <2>5. ItemsRest'
    <3> SUFFICES ASSUME NEW k \in Key PROVE Rests(item'[k], k, Committed)
      BY <2>1 DEF ItemsRest, Rests, Committed
    <3>1. item[k] \in ItemType /\ Rests(item[k], k, Committed)
      BY DEF EInv, TypeOK, ItemsRest
    <3>2. Rests([item[k] EXCEPT !.status = edit[p].to], k, Committed)
      BY <2>1, <3>1 DEF Rests, ItemType, EditableStatus
    <3> QED BY <2>2, <3>1, <3>2
  <2>6. PendingRest'
    BY <2>1 DEF EInv, PendingRest, Rests, Committed
  <2> QED BY <2>4, <2>5, <2>6 DEF EInv
<1>5. CASE UNCHANGED vars
  <2>1. UNCHANGED <<verdict, item, lock, sync, edit, log>>
    BY <1>5 DEF vars
  <2>2. TypeOK'
    BY <2>1 DEF EInv, TypeOK
  <2>3. ItemsRest' /\ PendingRest'
    BY <2>1 DEF EInv, ItemsRest, PendingRest, Rests, Committed
  <2> QED BY <2>2, <2>3 DEF EInv
<1> QED BY <1>1, <1>2, <1>3, <1>4, <1>5

-------------------------------------------------------------------------------
\* Items, and the rows of open transactions, rest on what runs saw.
THEOREM RegisterInvariance == Spec => []EInv
<1>1. EInv /\ [Next]_vars => EInv'
  BY EWrite, ECommit, EOther DEF Next
<1> QED BY <1>1, EInit, PTL DEF Spec

\* An item resolved cites a run that checked it and found it clear, however syncs
\* and edits interleave.
THEOREM ResolvedOnEvidence == Spec => []OnEvidence
<1>1. EInv => OnEvidence
  BY DEF EInv, OnEvidence, ItemsRest, Rests, Committed
<1> QED BY <1>1, RegisterInvariance, PTL

\* A sync that failed, at any statement, has left nothing behind.
THEOREM NothingOfFailedSyncs == Spec => []FailedLeavesNoTrace
<1>1. EInv => FailedLeavesNoTrace
  <2> SUFFICES ASSUME EInv, NEW r \in Run, NEW k \in Key, sync[r].pc # "committed"
               PROVE  r \notin {item[k].first, item[k].seen, item[k].cited}
    BY DEF FailedLeavesNoTrace
  <2> QED BY NoneAssumption DEF EInv, ItemsRest, Rests, Committed
<1> QED BY <1>1, RegisterInvariance, PTL
-------------------------------------------------------------------------------
(***************************************************************************)
(* What the last sync found.  A sync that met no other read the items as   *)
(* they stay until it commits, edits aside, and an edit never resolves: so *)
(* the rows it has written for what it found are open.  Later syncs that   *)
(* say nothing of a key write none of its rows.                            *)
(***************************************************************************)

\* The entries of the log that say anything of key k, of which one is the last.
Said(k) == {i \in DOMAIN log : verdict[log[i]][k] # "unchecked"}
Latest == \A k \in Key : Said(k) # {} => \E i \in Said(k) : \A j \in Said(k) : j <= i

Logged == \A i \in DOMAIN log : log[i] \in Committed

\* Two open transactions have met.
Meeting == \A r, q \in Syncing : r # q => sync[r].met # {}

Spoken == \A r \in Syncing : \A k \in sync[r].done : verdict[r][k] # "unchecked"

\* An open transaction that met no other.
Alone == {r \in Syncing : sync[r].met = {}}

StillAsRead ==
  \A r \in Alone, k \in Key :
    sync[r].read[k] \notin {"absent", "resolved"} => item[k].status \in EditableStatus

FoundPending ==
  \A r \in Alone : \A k \in sync[r].done :
    verdict[r][k] = "found" => sync[r].rows[k].status \in EditableStatus

FInv ==
  /\ EInv /\ Latest /\ Logged /\ Meeting /\ Spoken /\ StillAsRead /\ FoundPending
  /\ FoundIsNotResolved

\* The last entry is the log's, and of a run that has committed.
LEMMA LastOnFacts ==
  ASSUME Latest, NEW k \in Key
  PROVE  \/ LastOn(k) = None /\ Said(k) = {}
         \/ \E i \in Said(k) : LastOn(k) = log[i] /\ \A j \in Said(k) : j <= i
<1>1. CASE Said(k) = {}
  BY <1>1 DEF LastOn, Said
<1>2. CASE Said(k) # {}
  <2> DEFINE last == CHOOSE i \in Said(k) : \A j \in Said(k) : j <= i
  <2>1. last \in Said(k) /\ \A j \in Said(k) : j <= last
    BY <1>2 DEF Latest
  <2>2. LastOn(k) = log[last]
    BY <1>2 DEF LastOn, Said
  <2> QED BY <2>1, <2>2
<1> QED BY <1>1, <1>2

\* One more entry is the last on the keys it says anything of, and on no other.
LEMMA LastOnCommit ==
  ASSUME TypeOK, Latest, NEW r \in Run, NEW k \in Key,
         log' = Append(log, r), UNCHANGED verdict
  PROVE  /\ LastOn(k)' = IF verdict[r][k] # "unchecked" THEN r ELSE LastOn(k)
         /\ Said(k)' # {} => \E i \in Said(k)' : \A j \in Said(k)' : j <= i
<1> DEFINE n == Len(log)
<1>1. /\ log \in Seq(Run) /\ n \in Nat /\ DOMAIN log = 1 .. n /\ DOMAIN log' = 1 .. n + 1
      /\ log'[n + 1] = r /\ \A i \in 1 .. n : log'[i] = log[i]
  BY DEF TypeOK
<1>2. Said(k) \subseteq 1 .. n
  BY <1>1 DEF Said
<1>3. Said(k)' = Said(k) \cup (IF verdict[r][k] # "unchecked" THEN {n + 1} ELSE {})
  <2> SUFFICES ASSUME NEW i
               PROVE  i \in Said(k)' <=>
                        i \in Said(k) \/ (i = n + 1 /\ verdict[r][k] # "unchecked")
    OBVIOUS
  <2>1. i \in Said(k)' <=> i \in 1 .. n + 1 /\ verdict[log'[i]][k] # "unchecked"
    BY <1>1 DEF Said
  <2>2. i \in Said(k) <=> i \in 1 .. n /\ verdict[log[i]][k] # "unchecked"
    BY <1>1 DEF Said
  <2>3. i \in 1 .. n + 1 <=> i \in 1 .. n \/ i = n + 1
    BY <1>1
  <2>4. n + 1 \notin 1 .. n
    BY <1>1
  <2> QED BY <1>1, <2>1, <2>2, <2>3, <2>4
<1>4. LastOn(k)' = IF Said(k)' = {} THEN None
                   ELSE log'[CHOOSE i \in Said(k)' : \A j \in Said(k)' : j <= i]
  BY DEF LastOn, Said
<1>5. LastOn(k) = IF Said(k) = {} THEN None
                  ELSE log[CHOOSE i \in Said(k) : \A j \in Said(k) : j <= i]
  BY DEF LastOn, Said
<1>6. CASE verdict[r][k] # "unchecked"
  <2>1. n + 1 \in Said(k)' /\ \A j \in Said(k)' : j <= n + 1
    BY <1>1, <1>2, <1>3, <1>6
  <2>2. \A i \in Said(k)' : (\A j \in Said(k)' : j <= i) => i = n + 1
    BY <1>1, <1>2, <1>3, <2>1
  <2>3. (CHOOSE i \in Said(k)' : \A j \in Said(k)' : j <= i) = n + 1
    BY <2>1, <2>2
  <2> QED BY <1>1, <1>4, <1>6, <2>1, <2>3
<1>7. CASE verdict[r][k] = "unchecked"
  <2>1. Said(k)' = Said(k)
    BY <1>3, <1>7
  <2>2. CASE Said(k) = {}
    BY <1>4, <1>5, <1>7, <2>1, <2>2
  <2>3. CASE Said(k) # {}
    <3> DEFINE last == CHOOSE i \in Said(k) : \A j \in Said(k) : j <= i
    <3>1. last \in Said(k) /\ \A j \in Said(k) : j <= last
      BY <2>3 DEF Latest
    <3>2. log'[last] = log[last]
      BY <1>1, <1>2, <3>1
    <3>3. (CHOOSE i \in Said(k)' : \A j \in Said(k)' : j <= i) = last
      BY <2>1
    <3>4. LastOn(k)' = log'[last] /\ LastOn(k) = log[last]
      BY <1>4, <1>5, <2>1, <2>3, <3>3
    <3> QED BY <1>7, <2>1, <3>1, <3>2, <3>4
  <2> QED BY <2>2, <2>3
<1> QED BY <1>6, <1>7

\* What the other parts leave of FoundIsNotResolved: committed runs are met no more.
LEMMA LastOnKept ==
  ASSUME Latest, Logged, FoundIsNotResolved, UNCHANGED <<verdict, log>>,
         \A q \in Committed : sync'[q].met = sync[q].met,
         \A k \in Key : item[k].status \in EditableStatus => item'[k].status \in EditableStatus
  PROVE  Latest' /\ FoundIsNotResolved'
<1>1. Latest' /\ \A k \in Key : LastOn(k)' = LastOn(k)
  BY DEF Latest, Said, LastOn
<1>2. \A k \in Key : LastOn(k) = None \/ LastOn(k) \in Committed
  BY LastOnFacts DEF Logged, Said
<1>3. FoundIsNotResolved'
  <2> SUFFICES ASSUME NEW k \in Key, LastOn(k) # None, verdict[LastOn(k)][k] = "found",
                      sync'[LastOn(k)].met = {}
               PROVE  item'[k].status \in EditableStatus
    BY <1>1 DEF FoundIsNotResolved
  <2> QED BY <1>2 DEF FoundIsNotResolved
<1> QED BY <1>1, <1>3

LEMMA FInit == Init => FInv
<1> SUFFICES ASSUME Init PROVE FInv
  OBVIOUS
<1>1. EInv /\ log = <<>> /\ Syncing = {}
  BY EInit DEF Init, Syncing, NoSync
<1>2. \A k \in Key : Said(k) = {}
  BY <1>1 DEF Said
<1>3. Latest /\ Logged
  BY <1>1, <1>2 DEF Latest, Logged
<1>4. \A k \in Key : LastOn(k) = None
  BY <1>2, <1>3, LastOnFacts
<1> QED BY <1>1, <1>3, <1>4
        DEF FInv, Meeting, Spoken, Alone, StillAsRead, FoundPending, FoundIsNotResolved

\* A transaction that fails, or never begins, leaves the others as they are.
LEMMA FFail ==
  ASSUME FInv, NEW r \in Run, Skip(r) \/ Fail(r) PROVE FInv'
<1>1. EInv'
  BY EOther DEF FInv
<1>2. /\ sync' = [sync EXCEPT ![r].pc = "failed"] /\ UNCHANGED <<verdict, item, log>>
      /\ sync[r].pc # "committed" /\ sync \in [Run -> SyncType]
  BY DEF Skip, Fail, FInv, EInv, TypeOK
<1>3. /\ sync'[r] = [sync[r] EXCEPT !.pc = "failed"] /\ sync[r] \in SyncType
      /\ \A q \in Run \ {r} : sync'[q] = sync[q]
  BY <1>2
<1>4. /\ Committed' = Committed /\ Syncing' = Syncing \ {r}
      /\ Alone' = Alone \ {r} /\ \A q \in Run : sync'[q].met = sync[q].met
  BY <1>2, <1>3 DEF Committed, Syncing, Alone, SyncType
<1>5. \A q \in Syncing' : sync'[q] = sync[q] /\ q \in Syncing
  BY <1>3, <1>4 DEF Syncing
<1>6. Logged' /\ Latest' /\ FoundIsNotResolved'
  BY <1>2, <1>4, LastOnKept DEF FInv, Logged, Committed
<1>7. Meeting' /\ Spoken'
  BY <1>2, <1>5 DEF FInv, Meeting, Spoken
<1>8. StillAsRead' /\ FoundPending'
  BY <1>2, <1>4, <1>5 DEF FInv, StillAsRead, FoundPending, Alone
<1> QED BY <1>1, <1>6, <1>7, <1>8 DEF FInv

\* A transaction that begins meets whichever is open, and they meet it.
LEMMA FRead ==
  ASSUME FInv, NEW r \in Run, Read(r) PROVE FInv'
<1>1. EInv'
  BY EOther DEF FInv
<1> DEFINE new == [NoSync EXCEPT !.pc = "syncing", !.met = Syncing,
                                 !.read = [k \in Key |-> item[k].status]]
           old(q) == IF q \in Syncing THEN [sync[q] EXCEPT !.met = @ \cup {r}] ELSE sync[q]
<1>2. /\ sync[r].pc = "ready" /\ UNCHANGED <<verdict, item, log>>
      /\ sync' = [q \in Run |-> IF q = r THEN new ELSE old(q)]
  BY DEF Read
<1>3. sync'[r] = new /\ \A q \in Run \ {r} : sync'[q] = old(q)
  BY <1>2
<1>4. /\ new.pc = "syncing" /\ new.done = {} /\ new.met = Syncing
      /\ new.read = [k \in Key |-> item[k].status]
  BY DEF NoSync
<1>5. \A q \in Run : /\ old(q).pc = sync[q].pc /\ old(q).done = sync[q].done
                     /\ q \in Syncing => r \in old(q).met
  <2> SUFFICES ASSUME NEW q \in Run
               PROVE  /\ old(q).pc = sync[q].pc /\ old(q).done = sync[q].done
                      /\ q \in Syncing => r \in old(q).met
    OBVIOUS
  <2>1. sync[q] \in SyncType
    BY DEF FInv, EInv, TypeOK
  <2> QED BY <2>1 DEF SyncType
<1>6. \A q \in Committed : sync'[q] = sync[q]
  BY <1>2, <1>3 DEF Committed, Syncing
<1> HIDE DEF new, old
<1>7. /\ Committed' = Committed /\ Syncing' = Syncing \cup {r}
      /\ r \notin Syncing
  BY <1>2, <1>3, <1>4, <1>5 DEF Committed, Syncing
<1>8. Logged' /\ Latest' /\ FoundIsNotResolved'
  BY <1>2, <1>6, <1>7, LastOnKept DEF FInv, Logged
<1>9. Meeting'
  <2> SUFFICES ASSUME NEW p \in Syncing', NEW q \in Syncing', p # q
               PROVE  sync'[p].met # {}
    BY DEF Meeting
  <2>1. CASE p = r
    BY <1>3, <1>4, <1>7, <2>1
  <2>2. CASE p # r
    BY <1>3, <1>5, <1>7, <2>2 DEF Syncing
  <2> QED BY <2>1, <2>2
<1>10. Spoken'
  <2> SUFFICES ASSUME NEW q \in Syncing', NEW k \in sync'[q].done
               PROVE  verdict[q][k] # "unchecked"
    BY <1>2 DEF Spoken
  <2>1. q # r
    BY <1>3, <1>4
  <2>2. q \in Syncing /\ sync'[q].done = sync[q].done
    BY <1>3, <1>5, <1>7, <2>1 DEF Syncing
  <2> QED BY <2>2 DEF FInv, Spoken
<1>11. Alone' \subseteq {r}
  BY <1>3, <1>5, <1>7 DEF Alone, Syncing
<1>12. FoundPending'
  BY <1>3, <1>4, <1>11 DEF FoundPending
<1>13. StillAsRead'
  <2>1. \A k \in Key : item[k].status \in ItemStatus
    BY DEF FInv, EInv, TypeOK, ItemType
  <2> QED BY <1>2, <1>3, <1>4, <1>11, <2>1 DEF StillAsRead, ItemStatus
<1> QED BY <1>1, <1>8, <1>9, <1>10, <1>12, <1>13 DEF FInv

\* A row written is one the run says something of, and what it found is open in it.
LEMMA FWrite ==
  ASSUME FInv, NEW r \in Run, NEW k \in Key, Write(r, k) PROVE FInv'
<1>1. EInv'
  BY EWrite DEF FInv
<1> DEFINE what == Plan(r, k, sync[r].read[k])
           w == CASE what = "add" -> Added(r)
                  [] what = "see" -> Seen(r, k)
                  [] OTHER -> Resolved(r, k)
<1>2. /\ k \in Upcoming(r) /\ sync[r].pc = "syncing" /\ sync[r] \in SyncType
      /\ sync' = [sync EXCEPT ![r].done = @ \cup {k}, ![r].rows[k] = w]
      /\ UNCHANGED <<verdict, item, log>> /\ sync \in [Run -> SyncType]
  BY DEF Write, FInv, EInv, TypeOK
<1>3. what # "leave" /\ verdict[r][k] # "unchecked"
  BY <1>2, UpcomingMeans DEF Plan
<1>4. verdict[r][k] = "found" /\ r \in Alone => w.status \in EditableStatus
  <2> SUFFICES ASSUME verdict[r][k] = "found", r \in Alone PROVE w.status \in EditableStatus
    OBVIOUS
  <2>1. item[k] \in ItemType
    BY DEF FInv, EInv, TypeOK
  <2>2. CASE sync[r].read[k] = "absent"
    <3>1. w = Added(r)
      BY <2>2 DEF Plan
    <3> QED BY <3>1 DEF Added, EditableStatus
  <2>3. CASE sync[r].read[k] = "resolved"
    <3>1. w = [item[k] EXCEPT !.seen = r, !.status = "open", !.cited = None]
      BY <2>3 DEF Plan, Seen
    <3> QED BY <2>1, <3>1 DEF ItemType, EditableStatus
  <2>4. CASE sync[r].read[k] \notin {"absent", "resolved"}
    <3>1. w = [item[k] EXCEPT !.seen = r]
      BY <2>4 DEF Plan, Seen
    <3>2. item[k].status \in EditableStatus
      BY <2>4 DEF FInv, StillAsRead
    <3> QED BY <2>1, <3>1, <3>2 DEF ItemType
  <2> QED BY <2>2, <2>3, <2>4
<1> HIDE DEF w, what
<1>5. /\ \A q \in Run \ {r} : sync'[q] = sync[q]
      /\ sync'[r].pc = "syncing" /\ sync'[r].met = sync[r].met
      /\ sync'[r].read = sync[r].read /\ sync'[r].done = sync[r].done \cup {k}
      /\ sync'[r].rows = [sync[r].rows EXCEPT ![k] = w]
  BY <1>2 DEF SyncType
<1>6. /\ Committed' = Committed /\ Syncing' = Syncing /\ Alone' = Alone
      /\ r \in Syncing /\ \A q \in Run : sync'[q].met = sync[q].met
  BY <1>2, <1>5 DEF Committed, Syncing, Alone
<1>7. Logged' /\ Latest' /\ FoundIsNotResolved'
  BY <1>2, <1>6, LastOnKept DEF FInv, Logged, Committed
<1>8. Meeting' /\ Syncing \subseteq Run /\ Alone \subseteq Syncing
  BY <1>6 DEF FInv, Meeting, Syncing, Alone
<1>9. Spoken'
  BY <1>2, <1>3, <1>5, <1>6, <1>8 DEF FInv, Spoken
<1>10. StillAsRead'
  BY <1>2, <1>5, <1>6, <1>8 DEF FInv, StillAsRead
<1>11. FoundPending'
  <2> SUFFICES ASSUME NEW q \in Alone, NEW j \in sync'[q].done, verdict[q][j] = "found"
               PROVE  sync'[q].rows[j].status \in EditableStatus
    BY <1>2, <1>6 DEF FoundPending
  <2>1. CASE q = r /\ j = k
    <3>1. sync'[r].rows[k] = w
      BY <1>2, <1>5 DEF SyncType
    <3> QED BY <1>4, <2>1, <3>1
  <2>2. CASE q = r /\ j # k
    <3>1. j \in sync[r].done /\ j \in Key
      BY <1>2, <1>5, <2>2 DEF SyncType
    <3>2. sync'[r].rows[j] = sync[r].rows[j]
      BY <1>2, <1>5, <2>2, <3>1 DEF SyncType
    <3> QED BY <2>2, <3>1, <3>2 DEF FInv, FoundPending
  <2>3. CASE q # r
    BY <1>5, <1>8, <2>3 DEF FInv, FoundPending
  <2> QED BY <2>1, <2>2, <2>3
<1> QED BY <1>1, <1>7, <1>8, <1>9, <1>10, <1>11 DEF FInv

\* A commit makes its run the last on what it says, with what it found open; the
\* transactions still open have met it.
LEMMA FCommit ==
  ASSUME FInv, NEW r \in Run, Commit(r) PROVE FInv'
<1>1. EInv'
  BY ECommit DEF FInv
<1>2. /\ sync[r].pc = "syncing" /\ Upcoming(r) = {} /\ sync[r] \in SyncType
      /\ item' = [k \in Key |-> IF k \in sync[r].done THEN sync[r].rows[k] ELSE item[k]]
      /\ sync' = [sync EXCEPT ![r].pc = "committed"] /\ log' = Append(log, r)
      /\ UNCHANGED verdict /\ sync \in [Run -> SyncType] /\ TypeOK
      /\ log \in Seq(Run) /\ verdict \in [Run -> [Key -> {"found", "clear", "unchecked"}]]
  BY DEF Commit, FInv, EInv, TypeOK
<1>3. /\ sync'[r] = [sync[r] EXCEPT !.pc = "committed"]
      /\ \A q \in Run \ {r} : sync'[q] = sync[q]
  BY <1>2
<1>4. /\ Committed' = Committed \cup {r} /\ Syncing' = Syncing \ {r} /\ r \in Syncing
      /\ r \notin Committed /\ \A q \in Run : sync'[q].met = sync[q].met
  BY <1>2, <1>3 DEF Committed, Syncing, SyncType
<1>5. \A q \in Syncing' : sync'[q] = sync[q] /\ q \in Syncing /\ sync[q].met # {}
  BY <1>3, <1>4 DEF Syncing, FInv, Meeting
<1>6. Alone' = {}
  BY <1>5 DEF Alone
<1>7. Logged'
  <2> SUFFICES ASSUME NEW i \in DOMAIN log' PROVE log'[i] \in Committed'
    BY DEF Logged
  <2>1. (i \in DOMAIN log /\ log'[i] = log[i]) \/ log'[i] = r
    BY <1>2
  <2> QED BY <1>4, <2>1 DEF FInv, Logged
<1>8. Latest'
  BY <1>2, LastOnCommit DEF FInv, Latest
<1>9. Meeting' /\ Spoken'
  BY <1>2, <1>5 DEF FInv, Meeting, Spoken
<1>10. StillAsRead' /\ FoundPending'
  BY <1>6 DEF StillAsRead, FoundPending
<1>11. ASSUME NEW k \in Key, verdict[r][k] = "found" PROVE k \in sync[r].done
  <2>1. Plan(r, k, sync[r].read[k]) \in {"add", "see"}
    BY <1>11 DEF Plan
  <2> QED BY <1>2, <2>1 DEF Upcoming, Planned
<1>12. FoundIsNotResolved'
  <2> SUFFICES ASSUME NEW k \in Key, LastOn(k)' # None, verdict[LastOn(k)'][k] = "found",
                      sync'[LastOn(k)'].met = {}
               PROVE  item'[k].status \in EditableStatus
    BY <1>2 DEF FoundIsNotResolved
  <2>1. LastOn(k)' = IF verdict[r][k] # "unchecked" THEN r ELSE LastOn(k)
    BY <1>2, LastOnCommit DEF FInv
  <2>2. CASE verdict[r][k] = "unchecked"
    <3>1. k \notin sync[r].done
      BY <1>4, <2>2 DEF FInv, Spoken
    <3>2. LastOn(k) \in Run
      BY <2>1, <2>2, LastOnFacts DEF FInv, Logged, Said, Committed
    <3>3. sync[LastOn(k)].met = {}
      BY <1>4, <2>1, <2>2, <3>2
    <3> QED BY <1>2, <2>1, <2>2, <3>1, <3>3 DEF FInv, FoundIsNotResolved
  <2>3. CASE verdict[r][k] # "unchecked"
    <3>1. verdict[r][k] = "found" /\ r \in Alone
      BY <1>4, <2>1, <2>3 DEF Alone
    <3>2. k \in sync[r].done
      BY <1>11, <3>1
    <3> QED BY <1>2, <3>1, <3>2 DEF FInv, FoundPending
  <2> QED BY <2>2, <2>3
<1> QED BY <1>1, <1>7, <1>8, <1>9, <1>10, <1>12 DEF FInv

\* An edit never resolves.
LEMMA FEdit ==
  ASSUME FInv,
         \/ \E p \in Person, k \in Key, to \in EditableStatus : EditRead(p, k, to)
         \/ \E p \in Person : EditWrite(p)
         \/ UNCHANGED vars
  PROVE  FInv'
<1>1. EInv'
  BY EOther DEF FInv
<1>2. UNCHANGED <<verdict, sync, log>>
  BY DEF EditRead, EditWrite, vars
<1>3. \A k \in Key : item[k].status \in EditableStatus => item'[k].status \in EditableStatus
  <2>1. ASSUME NEW p \in Person, EditWrite(p)
        PROVE  \A k \in Key : item'[k].status \in {item[k].status, edit[p].to}
    <3> SUFFICES ASSUME NEW k \in Key PROVE item'[k].status \in {item[k].status, edit[p].to}
      OBVIOUS
    <3>1. item[k] \in ItemType
      BY DEF FInv, EInv, TypeOK
    <3>2. item'[k] \in {item[k], [item[k] EXCEPT !.status = edit[p].to]}
      BY <2>1 DEF EditWrite, FInv, EInv, TypeOK
    <3> QED BY <3>1, <3>2 DEF ItemType
  <2>2. \A p \in Person : edit[p].to \in EditableStatus
    BY DEF FInv, EInv, TypeOK, EditType
  <2> QED BY <2>1, <2>2 DEF EditRead, vars
<1>4. Logged' /\ Latest' /\ FoundIsNotResolved'
  BY <1>2, <1>3, LastOnKept DEF FInv, Logged, Committed
<1>5. Meeting' /\ Spoken' /\ StillAsRead' /\ FoundPending'
  BY <1>2, <1>3 DEF FInv, Meeting, Spoken, StillAsRead, FoundPending, Alone, Syncing
<1> QED BY <1>1, <1>4, <1>5 DEF FInv

\* FInv is inductive: what the last undisturbed sync found stays open.
THEOREM FoundInvariance == Spec => []FInv
<1>1. FInv /\ [Next]_vars => FInv'
  BY FFail, FRead, FWrite, FCommit, FEdit DEF Next
<1> QED BY <1>1, FInit, PTL DEF Spec

\* An item the last run to speak of it found is not resolved, whatever edits raced
\* it, unless that run's sync overlapped another: nothing keeps two of them apart.
THEOREM FoundStaysOpen == Spec => []FoundIsNotResolved
<1>1. FInv => FoundIsNotResolved
  BY DEF FInv
<1> QED BY <1>1, FoundInvariance, PTL

-------------------------------------------------------------------------------
(***************************************************************************)
(* A workspace's team.  Whoever holds the workspace's row is alone, so     *)
(* what a request has been allowed by is still true when it writes.        *)
(***************************************************************************)

TxType == {M!Idle} \cup [pc : {"locked", "allowed"}, req : M!Request]
InvitationType == [role : (Role \cup {"none"}) \ {"owner"}, accepted : SUBSET User, revoked : BOOLEAN]

TeamType ==
  /\ role \in [User -> Role \cup {"none"}]
  /\ invitation \in [Invitation -> InvitationType]
  /\ tx \in [Session -> TxType]
  /\ admitted \in [Invitation -> SUBSET User]

HeldAlone ==
  /\ teamLock = {s \in Session : tx[s] # M!Idle}
  /\ \A s, t \in teamLock : s = t

StillAllowed == \A s \in Session : tx[s].pc = "allowed" => M!Allowed(tx[s].req)

OwnerIsUnique == \E u \in User : \A v \in User : role[v] = "owner" <=> v = u

\* What accepting did is what the row says, of one user or of none.
Admission ==
  \A i \in Invitation :
    /\ admitted[i] = invitation[i].accepted
    /\ admitted[i] = {} \/ \E u \in User : admitted[i] = {u}
    /\ invitation[i].revoked => admitted[i] = {}

TeamInv == TeamType /\ HeldAlone /\ StillAllowed /\ OwnerIsUnique /\ Admission

\* The cardinality of the instance is the one the library's theorems are about.
LEMMA TeamCardinality == \A X : M!Cardinality(X) = Cardinality(X)
BY DEF M!Cardinality, Cardinality

\* Sets of at most one element.
LEMMA AtMostOne ==
  /\ Cardinality({}) = 0
  /\ \A e : Cardinality({e}) = 1
BY FS_EmptySet, FS_Singleton

LEMMA TxFacts ==
  ASSUME NEW t \in TxType
  PROVE  /\ t.pc \in {"idle", "locked", "allowed"}
         /\ t.pc = "idle" <=> t = M!Idle
         /\ t.pc # "idle" => t.req \in M!Request
BY DEF TxType, M!Idle

\* What a request was allowed by, for each kind.
LEMMA AllowedMeans ==
  ASSUME NEW r \in M!Request, M!Allowed(r)
  PROVE  /\ r.actor \in User
         /\ r.kind = "invite" => /\ r.on \in Invitation /\ r.to \in Role \ {"owner"}
                                 /\ invitation[r.on] = M!NoInvitation
         /\ r.kind = "accept" => /\ r.on \in Invitation /\ invitation[r.on].accepted = {}
                                 /\ ~invitation[r.on].revoked /\ invitation[r.on].role # "none"
         /\ r.kind = "revoke" => r.on \in Invitation
         /\ r.kind = "change" => /\ r.on \in User /\ r.to \in (Role \cup {"none"}) \ {"owner"}
                                 /\ role[r.on] # "owner"
         /\ r.kind = "transfer" => r.on \in User /\ r.on # r.actor /\ role[r.actor] = "owner"
<1>1. r.kind \in {"invite", "accept", "revoke", "change", "transfer"} /\ r.actor \in User
  BY DEF M!Request
<1>2. CASE r.kind = "invite"
  BY <1>1, <1>2 DEF M!Allowed, M!CanManage, M!Request
<1>3. CASE r.kind = "accept"
  BY <1>1, <1>3 DEF M!Allowed, M!Open, M!Request
<1>4. CASE r.kind = "revoke"
  BY <1>1, <1>4 DEF M!Allowed, M!Request
<1>5. CASE r.kind = "change"
  BY <1>1, <1>5 DEF M!Allowed, M!CanManage, M!Request
<1>6. CASE r.kind = "transfer"
  BY <1>1, <1>6 DEF M!Allowed, M!Actor, M!Request
<1> QED BY <1>1, <1>2, <1>3, <1>4, <1>5, <1>6

LEMMA TeamInit == M!ConstantsFit /\ M!Init => TeamInv
<1> SUFFICES ASSUME M!ConstantsFit, M!Init PROVE TeamInv
  OBVIOUS
<1>1. TeamType
  BY DEF M!ConstantsFit, M!Init, M!NoInvitation, TeamType, TxType, InvitationType
<1>2. HeldAlone
  BY DEF M!Init, HeldAlone
<1>3. StillAllowed
  BY DEF M!Init, M!Idle, StillAllowed
<1>4. OwnerIsUnique
  BY DEF M!ConstantsFit, M!Init, OwnerIsUnique
<1>5. Admission
  BY DEF M!Init, M!NoInvitation, Admission
<1> QED BY <1>1, <1>2, <1>3, <1>4, <1>5 DEF TeamInv

\* A session that takes the row, or goes on with it, disturbs nothing.
LEMMA TeamLock ==
  ASSUME TeamInv, NEW s \in Session, M!Lock(s) \/ M!Check(s) PROVE TeamInv'
<1>1. UNCHANGED <<role, invitation, admitted>>
  BY DEF M!Lock, M!Check
<1>2. PICK t \in TxType : /\ tx' = [tx EXCEPT ![s] = t] /\ t # M!Idle
                          /\ t.pc = "allowed" => M!Allowed(t.req)
  <2>1. CASE M!Lock(s)
    <3>1. PICK r \in M!Request : tx' = [tx EXCEPT ![s] = [pc |-> "locked", req |-> r]]
      BY <2>1 DEF M!Lock
    <3>2. [pc |-> "locked", req |-> r] \in TxType /\ [pc |-> "locked", req |-> r] # M!Idle
      BY DEF TxType, M!Idle
    <3> QED BY <3>1, <3>2
  <2>2. CASE M!Check(s)
    <3>1. tx[s] \in TxType /\ tx[s].pc = "locked"
      BY <2>2 DEF M!Check, TeamInv, TeamType
    <3>2. /\ [tx[s] EXCEPT !.pc = "allowed"] \in TxType
          /\ [tx[s] EXCEPT !.pc = "allowed"] # M!Idle
          /\ [tx[s] EXCEPT !.pc = "allowed"].req = tx[s].req
      BY <3>1 DEF TxType, M!Idle
    <3> QED BY <2>2, <3>2 DEF M!Check
  <2> QED BY <2>1, <2>2
<1>3. TeamType'
  BY <1>1, <1>2 DEF TeamInv, TeamType
<1>4. HeldAlone'
  <2>1. tx \in [Session -> TxType]
    BY DEF TeamInv, TeamType
  <2>2. CASE M!Lock(s)
    BY <1>2, <2>1, <2>2 DEF M!Lock, TeamInv, HeldAlone
  <2>3. CASE M!Check(s)
    <3>1. tx[s] # M!Idle
      BY <2>3 DEF M!Check, M!Idle
    <3> QED BY <1>2, <2>1, <2>3, <3>1 DEF M!Check, TeamInv, HeldAlone
  <2> QED BY <2>2, <2>3
<1>5. StillAllowed'
  <2>1. \A r : M!Allowed(r)' <=> M!Allowed(r)
    BY <1>1 DEF M!Allowed, M!Actor, M!CanManage, M!Open
  <2> QED BY <1>2, <2>1 DEF TeamInv, TeamType, StillAllowed
<1>6. OwnerIsUnique' /\ Admission'
  BY <1>1 DEF TeamInv, OwnerIsUnique, Admission
<1> QED BY <1>3, <1>4, <1>5, <1>6 DEF TeamInv

\* The row is given up, and nobody else is allowed anything meanwhile.
LEMMA TeamReleased ==
  ASSUME TeamInv, NEW s \in Session, tx[s] # M!Idle,
         tx' = [tx EXCEPT ![s] = M!Idle], teamLock' = teamLock \ {s}
  PROVE  tx' \in [Session -> TxType] /\ HeldAlone' /\ StillAllowed'
<1>1. tx' \in [Session -> TxType]
  BY DEF TeamInv, TeamType, TxType
<1>2. \A t \in Session : tx'[t] = M!Idle
  BY DEF TeamInv, TeamType, HeldAlone
<1>3. HeldAlone'
  BY <1>2 DEF TeamInv, HeldAlone
<1>4. StillAllowed'
  BY <1>2 DEF StillAllowed, M!Idle
<1> QED BY <1>1, <1>3, <1>4

LEMMA TeamRollBack ==
  ASSUME TeamInv, NEW s \in Session, M!RollBack(s) PROVE TeamInv'
<1>1. tx[s] # M!Idle /\ UNCHANGED <<role, invitation, admitted>>
  BY DEF M!RollBack, M!Idle
<1>2. tx' \in [Session -> TxType] /\ HeldAlone' /\ StillAllowed'
  BY <1>1, TeamReleased DEF M!RollBack
<1> QED BY <1>1, <1>2 DEF TeamInv, TeamType, OwnerIsUnique, Admission

\* What a commit writes, one kind after the other.
LEMMA TeamCommit ==
  ASSUME M!ConstantsFit, TeamInv, NEW s \in Session, M!Commit(s) PROVE TeamInv'
<1> DEFINE r == tx[s].req
<1>1. tx[s] \in TxType /\ tx[s] # M!Idle /\ r \in M!Request /\ M!Allowed(r)
  <2>1. tx[s] \in TxType /\ tx[s].pc = "allowed"
    BY DEF M!Commit, TeamInv, TeamType
  <2> QED BY <2>1, TxFacts DEF TeamInv, StillAllowed
<1>2. tx' \in [Session -> TxType] /\ HeldAlone' /\ StillAllowed'
  BY <1>1, TeamReleased DEF M!Commit
<1> HIDE DEF r
<1>3. /\ role \in [User -> Role \cup {"none"}]
      /\ invitation \in [Invitation -> InvitationType]
      /\ admitted \in [Invitation -> SUBSET User]
  BY DEF TeamInv, TeamType
<1> DEFINE Good == /\ role' \in [User -> Role \cup {"none"}]
                   /\ invitation' \in [Invitation -> InvitationType]
                   /\ admitted' \in [Invitation -> SUBSET User]
                   /\ OwnerIsUnique' /\ Admission'
<1> SUFFICES Good
  BY <1>2 DEF TeamInv, TeamType
<1>4. CASE M!CreateInvitation(r)
  <2>1. r.on \in Invitation /\ r.to \in Role \ {"owner"} /\ invitation[r.on] = M!NoInvitation
    BY <1>1, <1>4, AllowedMeans DEF M!CreateInvitation
  <2> DEFINE n == [M!NoInvitation EXCEPT !.role = r.to]
  <2>2. n \in InvitationType /\ n.accepted = {} /\ n.revoked = FALSE
    BY <2>1 DEF M!NoInvitation, InvitationType
  <2>3. M!NoInvitation.accepted = {}
    BY DEF M!NoInvitation
  <2>4. invitation' = [invitation EXCEPT ![r.on] = n] /\ UNCHANGED <<role, admitted>>
    BY <1>4 DEF M!CreateInvitation
  <2> HIDE DEF n
  <2>5. invitation' \in [Invitation -> InvitationType]
    BY <1>3, <2>2, <2>4
  <2>6. OwnerIsUnique'
    BY <2>4 DEF TeamInv, OwnerIsUnique
  <2>7. Admission'
    BY <1>3, <2>1, <2>2, <2>3, <2>4 DEF TeamInv, Admission
  <2> QED BY <1>3, <2>4, <2>5, <2>6, <2>7
<1>5. CASE M!AcceptInvitation(r)
  <2>1. /\ r.actor \in User /\ r.on \in Invitation /\ invitation[r.on].accepted = {}
        /\ ~invitation[r.on].revoked /\ invitation[r.on] \in InvitationType
    BY <1>1, <1>3, <1>5, AllowedMeans DEF M!AcceptInvitation
  <2> DEFINE n == [invitation[r.on] EXCEPT !.accepted = {r.actor}]
             w == IF role[r.actor] = "none" THEN invitation[r.on].role ELSE role[r.actor]
  <2>2. /\ n \in InvitationType /\ n.accepted = {r.actor} /\ n.revoked = invitation[r.on].revoked
        /\ w \in Role \cup {"none"} /\ (w = "owner" <=> role[r.actor] = "owner")
    BY <1>3, <2>1 DEF InvitationType
  <2>3. /\ invitation' = [invitation EXCEPT ![r.on] = n]
        /\ role' = [role EXCEPT ![r.actor] = w]
        /\ admitted' = [admitted EXCEPT ![r.on] = admitted[r.on] \cup {r.actor}]
    BY <1>3, <1>5, <2>1 DEF M!AcceptInvitation
  <2> HIDE DEF n, w
  <2>4. /\ invitation' \in [Invitation -> InvitationType] /\ role' \in [User -> Role \cup {"none"}]
        /\ admitted' \in [Invitation -> SUBSET User]
    BY <1>3, <2>1, <2>2, <2>3
  <2>5. \A u \in User : role'[u] = "owner" <=> role[u] = "owner"
    BY <1>3, <2>1, <2>2, <2>3
  <2>6. OwnerIsUnique'
    BY <2>5 DEF TeamInv, OwnerIsUnique
  <2>7. Admission'
    <3>1. admitted[r.on] = {} /\ admitted'[r.on] = {r.actor} /\ invitation'[r.on] = n
      BY <1>3, <2>1, <2>3 DEF TeamInv, Admission
    <3>2. \A i \in Invitation \ {r.on} : admitted'[i] = admitted[i] /\ invitation'[i] = invitation[i]
      BY <1>3, <2>1, <2>3
    <3>3. ASSUME NEW i \in Invitation \ {r.on}
          PROVE  /\ admitted'[i] = invitation'[i].accepted
                 /\ admitted'[i] = {} \/ \E u \in User : admitted'[i] = {u}
                 /\ invitation'[i].revoked => admitted'[i] = {}
      BY <3>2 DEF TeamInv, Admission
    <3> QED BY <2>1, <2>2, <3>1, <3>3 DEF Admission
  <2> QED BY <2>4, <2>6, <2>7
<1>6. CASE M!RevokeInvitation(r)
  <2>1. r.on \in Invitation /\ invitation[r.on] \in InvitationType
    BY <1>1, <1>3, <1>6, AllowedMeans DEF M!RevokeInvitation
  <2> DEFINE b == invitation[r.on].revoked \/ invitation[r.on].accepted = {}
             n == [invitation[r.on] EXCEPT !.revoked = b]
  <2>2. /\ b \in BOOLEAN
        /\ n \in InvitationType /\ n.accepted = invitation[r.on].accepted /\ n.revoked = b
    BY <2>1 DEF InvitationType
  <2>3. invitation' = [invitation EXCEPT ![r.on] = n] /\ UNCHANGED <<role, admitted>>
    BY <1>3, <1>6, <2>1 DEF M!RevokeInvitation
  <2> HIDE DEF n
  <2>4. invitation' \in [Invitation -> InvitationType]
    BY <1>3, <2>2, <2>3
  <2>5. OwnerIsUnique'
    BY <2>3 DEF TeamInv, OwnerIsUnique
  <2>6. Admission'
    BY <1>3, <2>1, <2>2, <2>3 DEF TeamInv, Admission
  <2> QED BY <1>3, <2>3, <2>4, <2>5, <2>6
<1>7. CASE M!ChangeMember(r)
  <2>1. r.on \in User /\ r.to \in (Role \cup {"none"}) \ {"owner"} /\ role[r.on] # "owner"
    BY <1>1, <1>7, AllowedMeans DEF M!ChangeMember
  <2>2. role' = [role EXCEPT ![r.on] = r.to] /\ UNCHANGED <<invitation, admitted>>
    BY <1>7 DEF M!ChangeMember
  <2>3. role' \in [User -> Role \cup {"none"}] /\ \A u \in User : role'[u] = "owner" <=> role[u] = "owner"
    BY <1>3, <2>1, <2>2
  <2> QED BY <1>3, <2>2, <2>3 DEF TeamInv, OwnerIsUnique, Admission
<1>8. CASE M!TransferOwnership(r)
  <2>1. r.actor \in User /\ r.on \in User /\ r.on # r.actor /\ role[r.actor] = "owner"
    BY <1>1, <1>8, AllowedMeans DEF M!TransferOwnership
  <2>2. /\ role' = [role EXCEPT ![r.on] = "owner", ![r.actor] = "admin"]
        /\ UNCHANGED <<invitation, admitted>>
    BY <1>8 DEF M!TransferOwnership
  <2>3. role' \in [User -> Role \cup {"none"}]
    BY <1>3, <2>1, <2>2 DEF M!ConstantsFit
  <2>4. \A u \in User : role'[u] = "owner" <=> u = r.on
    BY <1>3, <2>1, <2>2 DEF TeamInv, OwnerIsUnique
  <2> QED BY <1>3, <2>1, <2>2, <2>3, <2>4 DEF TeamInv, OwnerIsUnique, Admission
<1> QED BY <1>4, <1>5, <1>6, <1>7, <1>8 DEF M!Commit, r

\* The team's invariant: what a request was allowed by holds until it writes.
THEOREM TeamInvariance == ASSUME M!ConstantsFit PROVE M!Spec => []TeamInv
<1>1. TeamInv /\ [M!Next]_(M!vars) => TeamInv'
  <2> SUFFICES ASSUME TeamInv, [M!Next]_(M!vars) PROVE TeamInv'
    OBVIOUS
  <2>1. CASE M!Next
    BY <2>1, TeamLock, TeamRollBack, TeamCommit DEF M!Next
  <2>2. CASE UNCHANGED M!vars
    BY <2>2 DEF M!vars, TeamInv, TeamType, HeldAlone, StillAllowed, OwnerIsUnique, Admission,
       M!Allowed, M!Actor, M!CanManage, M!Open
  <2> QED BY <2>1, <2>2
<1> QED BY <1>1, TeamInit, PTL DEF M!Spec

\* A workspace has one owner through any overlap of transfers, removals and
\* invitations, and an invitation admits one user or is revoked.
THEOREM TeamSoundness == ASSUME M!ConstantsFit PROVE M!Spec => []TeamIsSound
<1>1. ASSUME TeamInv PROVE TeamIsSound
  <2>1. M!OneOwner
    <3>1. PICK u \in User : \A v \in User : role[v] = "owner" <=> v = u
      BY <1>1 DEF TeamInv, OwnerIsUnique
    <3>2. {v \in User : role[v] = "owner"} = {u}
      BY <3>1
    <3> QED BY <3>2, TeamCardinality, AtMostOne DEF M!OneOwner
  <2>2. M!InvitationEndsOnce
    <3> SUFFICES ASSUME NEW i \in Invitation
                 PROVE  /\ M!Cardinality(admitted[i]) <= 1
                        /\ invitation[i].revoked => admitted[i] = {}
      BY DEF M!InvitationEndsOnce
    <3>1. admitted[i] = {} \/ \E u \in User : admitted[i] = {u}
      BY <1>1 DEF TeamInv, Admission
    <3>2. Cardinality(admitted[i]) \in {0, 1}
      BY <3>1, AtMostOne
    <3>3. M!Cardinality(admitted[i]) <= 1
      BY <3>2, TeamCardinality
    <3> QED BY <1>1, <3>3 DEF TeamInv, Admission
  <2>3. M!TypeOK
    <3>1. teamLock = {} \/ \E s \in teamLock : teamLock = {s}
      BY <1>1 DEF TeamInv, HeldAlone
    <3>2. Cardinality(teamLock) \in {0, 1}
      BY <3>1, AtMostOne
    <3>3. M!Cardinality(teamLock) <= 1
      BY <3>2, TeamCardinality
    <3> QED BY <1>1, <3>3 DEF TeamInv, TeamType, HeldAlone, InvitationType, M!TypeOK
  <2> QED BY <2>1, <2>2, <2>3 DEF TeamIsSound, M!TeamIsSound
<1> QED BY <1>1, TeamInvariance, PTL

-------------------------------------------------------------------------------
(***************************************************************************)
(* A report's delivery.  What a send has recorded of its recipients is     *)
(* bounded by what the provider has taken from it while it still mails,    *)
(* and nobody but the send and its visits writes its row.                  *)
(***************************************************************************)

SendType ==
  [pc : {"idle", "mailing", "done", "dead"}, left : SUBSET Email, recipients : D!Recipients]

RowType ==
  [status : {"sent", "partial", "failed"}, recipients : D!Recipients,
   opens : Nat, firstOpened : 1 .. visits \cup {Null}]

VisitType ==
  [pc : {"idle"}] \cup [pc : {"not found"}, of : Sender]
  \cup [pc : {"read", "opened"}, of : Sender, now : 1 .. visits, opens : Nat,
        first : 1 .. visits \cup {Null}]

MailType ==
  /\ visits \in Nat
  /\ contacts \subseteq Email
  /\ sending \in [Sender -> SendType]
  /\ mailedTo \in [Sender -> SUBSET Email]
  /\ deliveries \in [Sender -> RowType \cup {Null}]
  /\ visit \in [Visitor -> VisitType]

\* What a send knows of its recipients: a recorded success was mailed, and whoever was mailed
\* is recorded.
Bounded(s, r) == D!Ok(r) \subseteq mailedTo[s] /\ mailedTo[s] \subseteq DOMAIN r

SendsAreTrue ==
  \A s \in Sender :
    /\ Bounded(s, sending[s].recipients)
    /\ deliveries[s] # Null =>
         /\ sending[s].pc = "done"
         /\ deliveries[s].recipients = sending[s].recipients
         /\ deliveries[s].status = D!Status(sending[s].recipients)

OpenedOf(s) == {v \in Visitor : visit[v].pc = "opened" /\ visit[v].of = s}

VisitsAreCounted ==
  /\ \A v \in Visitor : visit[v].pc \in {"read", "opened"} => deliveries[visit[v].of] # Null
  /\ \A s \in Sender :
       /\ IsFiniteSet(OpenedOf(s))
       /\ deliveries[s] = Null => OpenedOf(s) = {}
       /\ deliveries[s] # Null =>
            /\ deliveries[s].opens = Cardinality(OpenedOf(s))
            /\ (deliveries[s].firstOpened = Null) <=> (deliveries[s].opens = 0)

MailInv == MailType /\ SendsAreTrue /\ VisitsAreCounted

LEMMA MailCardinality ==
  /\ \A X : D!Cardinality(X) = Cardinality(X)
  /\ \A X : D!IsFiniteSet(X) <=> IsFiniteSet(X)
BY DEF D!Cardinality, Cardinality, D!IsFiniteSet, IsFiniteSet

\* A visit is of a kind, and the kind gives it its fields.
LEMMA VisitFacts ==
  ASSUME NEW x \in VisitType
  PROVE  /\ x.pc \in {"idle", "not found", "read", "opened"}
         /\ x.pc \in {"read", "opened"} =>
              /\ x.of \in Sender /\ x.now \in 1 .. visits /\ x.opens \in Nat
              /\ x.first \in 1 .. visits \cup {Null}
              /\ x \in [pc : {"read", "opened"}, of : Sender, now : 1 .. visits, opens : Nat,
                        first : 1 .. visits \cup {Null}]
BY DEF VisitType

\* What the recipients are once k is recorded of the address e.
Recorded(r, e, k) == [x \in DOMAIN r \cup {e} |-> IF x # e THEN r[x] ELSE k]

LEMMA RecipientsGrow ==
  ASSUME NEW r \in D!Recipients, NEW e \in Email, NEW k \in {"ok", "error"}
  PROVE  /\ Recorded(r, e, k) \in D!Recipients
         /\ DOMAIN Recorded(r, e, k) = DOMAIN r \cup {e}
         /\ D!Ok(Recorded(r, e, k)) \subseteq D!Ok(r) \cup (IF k = "ok" THEN {e} ELSE {})
<1>1. PICK A \in SUBSET Email : r \in [A -> {"ok", "error"}]
  BY DEF D!Recipients
<1>2. A \cup {e} \in SUBSET Email /\ DOMAIN r = A
  BY <1>1
<1>3. Recorded(r, e, k) \in [A \cup {e} -> {"ok", "error"}]
  BY <1>1, <1>2 DEF Recorded
<1>4. Recorded(r, e, k) \in D!Recipients
  BY <1>2, <1>3 DEF D!Recipients
<1>5. D!Ok(Recorded(r, e, k)) \subseteq D!Ok(r) \cup (IF k = "ok" THEN {e} ELSE {})
  BY <1>1 DEF D!Ok, Recorded
<1> QED BY <1>3, <1>2, <1>4, <1>5

LEMMA RowIsNotNone == ASSUME D!ConstantsFit, visits \in Nat PROVE Null \notin RowType
BY DEF D!ConstantsFit, D!Row, RowType

LEMMA MailInit == D!ConstantsFit /\ D!Init => MailInv
<1> SUFFICES ASSUME D!ConstantsFit, D!Init PROVE MailInv
  OBVIOUS
<1>1. D!Unrecorded \in D!Recipients /\ DOMAIN D!Unrecorded = {}
  <2>1. D!Unrecorded \in [{} -> {"ok", "error"}]
    BY DEF D!Unrecorded
  <2> QED BY <2>1 DEF D!Recipients, D!Unrecorded
<1>2. MailType
  BY <1>1 DEF D!Init, MailType, RowType, VisitType, SendType
<1>3. SendsAreTrue
  BY <1>1 DEF D!Init, SendsAreTrue, Bounded, D!Ok
<1>4. VisitsAreCounted
  <2>1. \A s \in Sender : OpenedOf(s) = {}
    BY DEF D!Init, OpenedOf
  <2> QED BY <2>1, FS_EmptySet DEF D!Init, VisitsAreCounted
<1> QED BY <1>2, <1>3, <1>4 DEF MailInv

\* Steps that touch neither the sends nor the visits.
LEMMA MailContacts ==
  ASSUME MailInv, contacts' \subseteq Email, UNCHANGED <<sending, mailedTo, deliveries, visit, visits>>
  PROVE  MailInv'
<1>1. MailType'
  BY DEF MailInv, MailType, RowType, VisitType
<1>2. SendsAreTrue'
  BY DEF MailInv, SendsAreTrue, Bounded
<1>3. VisitsAreCounted'
  BY DEF MailInv, VisitsAreCounted, OpenedOf
<1> QED BY <1>1, <1>2, <1>3 DEF MailInv

\* Steps of a send that write neither its recipients nor its row.
LEMMA MailSending ==
  ASSUME MailInv, NEW s \in Sender, sending' \in [Sender -> SendType],
         \A t \in Sender \ {s} : sending'[t] = sending[t],
         sending'[s].recipients = sending[s].recipients, deliveries[s] = Null,
         UNCHANGED <<contacts, mailedTo, deliveries, visit, visits>>
  PROVE  MailInv'
<1>1. MailType'
  BY DEF MailInv, MailType, RowType, VisitType
<1>2. \A t \in Sender : sending'[t].recipients = sending[t].recipients
  OBVIOUS
<1>3. SendsAreTrue'
  BY <1>2 DEF MailInv, SendsAreTrue, Bounded
<1>4. VisitsAreCounted'
  BY DEF MailInv, VisitsAreCounted, OpenedOf
<1> QED BY <1>1, <1>3, <1>4 DEF MailInv

LEMMA MailApprove == ASSUME MailInv, NEW s \in Sender, D!Approve(s) PROVE MailInv'
<1>1. sending \in [Sender -> SendType] /\ contacts \in SUBSET Email /\ deliveries[s] = Null
  BY DEF D!Approve, MailInv, MailType, SendsAreTrue
<1>2. /\ sending' \in [Sender -> SendType] /\ \A t \in Sender \ {s} : sending'[t] = sending[t]
      /\ sending'[s].recipients = sending[s].recipients
  BY <1>1 DEF D!Approve, SendType
<1> QED BY <1>1, <1>2, MailSending DEF D!Approve

LEMMA MailDie == ASSUME MailInv, NEW s \in Sender, D!Die(s) PROVE MailInv'
<1>1. sending \in [Sender -> SendType] /\ deliveries[s] = Null
  BY DEF D!Die, MailInv, MailType, SendsAreTrue
<1>2. /\ sending' \in [Sender -> SendType] /\ \A t \in Sender \ {s} : sending'[t] = sending[t]
      /\ sending'[s].recipients = sending[s].recipients
  BY <1>1 DEF D!Die, SendType
<1> QED BY <1>1, <1>2, MailSending DEF D!Die

\* One more message: what is recorded of it is no more than what happened.
LEMMA MailMail == ASSUME MailInv, NEW s \in Sender, NEW e \in Email, D!Mail(s, e) PROVE MailInv'
<1> DEFINE r == sending[s].recipients
<1>1. /\ sending \in [Sender -> SendType]
      /\ mailedTo \in [Sender -> SUBSET Email]
      /\ r \in D!Recipients
  BY DEF MailInv, MailType, SendType
<1>2. PICK taken \in BOOLEAN, answered \in BOOLEAN :
        /\ mailedTo' = [mailedTo EXCEPT ![s] = IF taken THEN @ \cup {e} ELSE @]
        /\ sending' = [sending EXCEPT
             ![s].left = @ \ {e},
             ![s].recipients = [x \in DOMAIN @ \cup {e} |->
                IF x # e THEN @[x] ELSE IF taken /\ answered THEN "ok" ELSE "error"]]
  BY DEF D!Mail
<1> DEFINE k == IF taken /\ answered THEN "ok" ELSE "error"
           n == Recorded(r, e, k)
<1>3. k \in {"ok", "error"} /\ (k = "ok" => taken)
  OBVIOUS
<1>4. /\ n \in D!Recipients /\ DOMAIN n = DOMAIN r \cup {e}
      /\ D!Ok(n) \subseteq D!Ok(r) \cup (IF k = "ok" THEN {e} ELSE {})
  BY <1>1, <1>3, RecipientsGrow
<1>5. /\ sending'[s] = [pc |-> sending[s].pc, left |-> sending[s].left \ {e}, recipients |-> n]
      /\ sending' \in [Sender -> SendType]
      /\ \A t \in Sender \ {s} : sending'[t] = sending[t]
  BY <1>1, <1>2, <1>4 DEF SendType, Recorded
<1>6. /\ mailedTo'[s] = IF taken THEN mailedTo[s] \cup {e} ELSE mailedTo[s]
      /\ mailedTo' \in [Sender -> SUBSET Email]
      /\ \A t \in Sender \ {s} : mailedTo'[t] = mailedTo[t]
  BY <1>1, <1>2
<1>7. deliveries[s] = Null /\ UNCHANGED <<contacts, deliveries, visit, visits>>
  BY DEF D!Mail, MailInv, SendsAreTrue
<1>8. Bounded(s, sending[s].recipients)'
  <2>1. D!Ok(r) \subseteq mailedTo[s] /\ mailedTo[s] \subseteq DOMAIN r
    BY DEF MailInv, SendsAreTrue, Bounded
  <2>2. D!Ok(n) \subseteq mailedTo'[s] /\ mailedTo'[s] \subseteq DOMAIN n
    BY <1>3, <1>4, <1>6, <2>1
  <2>3. sending'[s].recipients = n
    BY <1>5
  <2> QED BY <2>2, <2>3 DEF Bounded, D!Ok
<1> HIDE DEF r, n, k
<1>9. MailType'
  BY <1>5, <1>6, <1>7 DEF MailInv, MailType, RowType, VisitType
<1>10. SendsAreTrue'
  BY <1>5, <1>6, <1>7, <1>8 DEF MailInv, SendsAreTrue, Bounded
<1>11. VisitsAreCounted'
  BY <1>7 DEF MailInv, VisitsAreCounted, OpenedOf
<1> QED BY <1>9, <1>10, <1>11 DEF MailInv

\* The row names the recipients the send has recorded.
LEMMA MailRecord ==
  ASSUME D!ConstantsFit, MailInv, NEW s \in Sender, D!Record(s) PROVE MailInv'
<1> DEFINE r == sending[s].recipients
           w == [status |-> D!Status(r), recipients |-> r, opens |-> 0, firstOpened |-> Null]
<1>1. /\ sending \in [Sender -> SendType]
      /\ r \in D!Recipients /\ deliveries \in [Sender -> RowType \cup {Null}]
  BY DEF MailInv, MailType, SendType
<1>2. w \in RowType
  BY <1>1 DEF RowType, D!Status
<1>3. /\ deliveries[s] = Null /\ deliveries'[s] = w
      /\ \A t \in Sender \ {s} : deliveries'[t] = deliveries[t]
      /\ deliveries' \in [Sender -> RowType \cup {Null}]
  BY <1>1, <1>2 DEF D!Record, MailInv, SendsAreTrue
<1>4. /\ sending'[s].pc = "done" /\ sending'[s].recipients = r
      /\ \A t \in Sender \ {s} : sending'[t] = sending[t]
      /\ sending' \in [Sender -> SendType]
  BY <1>1 DEF D!Record, SendType
<1>5. UNCHANGED <<contacts, mailedTo, visit, visits>>
  BY DEF D!Record
<1>6. w.recipients = r /\ w.status = D!Status(r) /\ w.opens = 0 /\ w.firstOpened = Null
  OBVIOUS
<1> HIDE DEF r, w
<1>7. MailType'
  BY <1>3, <1>4, <1>5 DEF MailInv, MailType, RowType, VisitType
<1>8. SendsAreTrue'
  <2>1. Bounded(s, r)
    BY DEF MailInv, SendsAreTrue, r
  <2>2. ASSUME NEW t \in Sender PROVE Bounded(t, sending'[t].recipients)
    BY <1>4, <2>1 DEF MailInv, SendsAreTrue
  <2>3. ASSUME NEW t \in Sender, deliveries'[t] # Null
        PROVE  /\ sending'[t].pc = "done"
               /\ deliveries'[t].recipients = sending'[t].recipients
               /\ deliveries'[t].status = D!Status(sending'[t].recipients)
    BY <1>3, <1>4, <1>6, <2>3 DEF MailInv, SendsAreTrue
  <2> QED BY <1>5, <2>2, <2>3 DEF SendsAreTrue, Bounded
<1>9. VisitsAreCounted'
  <2>1. \A t \in Sender : OpenedOf(t)' = OpenedOf(t)
    BY <1>5 DEF OpenedOf
  <2>2. OpenedOf(s) = {}
    BY <1>3 DEF MailInv, VisitsAreCounted
  <2>3. /\ IsFiniteSet(OpenedOf(s)') /\ OpenedOf(s)' = {}
        /\ deliveries'[s].opens = Cardinality(OpenedOf(s)') /\ deliveries'[s].firstOpened = Null
        /\ deliveries'[s].opens = 0
    BY <1>3, <1>6, <2>1, <2>2, FS_EmptySet
  <2>4. \A v \in Visitor : visit'[v].pc \in {"read", "opened"} => deliveries'[visit'[v].of] # Null
    <3> SUFFICES ASSUME NEW v \in Visitor, visit[v].pc \in {"read", "opened"}
                 PROVE  deliveries'[visit[v].of] # Null
      BY <1>5
    <3>1. visit[v].of \in Sender /\ deliveries[visit[v].of] # Null
      BY VisitFacts DEF MailInv, VisitsAreCounted, MailType
    <3> QED BY <1>3, <3>1
  <2>5. ASSUME NEW t \in Sender \ {s}
        PROVE  /\ IsFiniteSet(OpenedOf(t)')
               /\ deliveries'[t] = Null => OpenedOf(t)' = {}
               /\ deliveries'[t] # Null =>
                    /\ deliveries'[t].opens = Cardinality(OpenedOf(t)')
                    /\ (deliveries'[t].firstOpened = Null) <=> (deliveries'[t].opens = 0)
    BY <1>3, <2>1 DEF MailInv, VisitsAreCounted
  <2> QED BY <2>3, <2>4, <2>5 DEF VisitsAreCounted
<1> QED BY <1>7, <1>8, <1>9 DEF MailInv

\* A visit begins: it reads the row, when there is one.
LEMMA MailFollow ==
  ASSUME D!ConstantsFit, MailInv, NEW v \in Visitor, NEW s \in Sender, D!Follow(v, s) PROVE MailInv'
<1>1. /\ visits \in Nat /\ visit \in [Visitor -> VisitType]
      /\ deliveries \in [Sender -> RowType \cup {Null}]
      /\ visit[v].pc = "idle" /\ visits' = visits + 1
      /\ UNCHANGED <<contacts, sending, mailedTo, deliveries>>
  BY DEF D!Follow, MailInv, MailType
<1>2. 1 .. visits \subseteq 1 .. visits' /\ visits' \in 1 .. visits' /\ visits' \in Nat
  BY <1>1
<1>3. RowType \subseteq RowType' /\ VisitType \subseteq VisitType'
  BY <1>2 DEF RowType, VisitType
<1> DEFINE x == IF deliveries[s] = Null THEN [pc |-> "not found", of |-> s]
                ELSE [pc |-> "read", of |-> s, now |-> visits', opens |-> deliveries[s].opens,
                      first |-> deliveries[s].firstOpened]
<1>4. visit' = [visit EXCEPT ![v] = x]
  BY DEF D!Follow
<1>5. /\ x \in VisitType' /\ x.pc \in {"not found", "read"} /\ x.of = s
      /\ x.pc = "read" => deliveries[s] # Null
  <2>1. CASE deliveries[s] = Null
    BY <2>1 DEF VisitType
  <2>2. CASE deliveries[s] # Null
    <3>1. deliveries[s].opens \in Nat /\ deliveries[s].firstOpened \in 1 .. visits' \cup {Null}
      BY <1>1, <1>2, <2>2 DEF RowType
    <3> QED BY <1>2, <2>2, <3>1 DEF VisitType
  <2> QED BY <2>1, <2>2
<1> HIDE DEF x
<1>6. MailType'
  <2>1. visit' \in [Visitor -> VisitType']
    BY <1>1, <1>3, <1>4, <1>5
  <2>2. deliveries' \in [Sender -> (RowType \cup {Null})']
    BY <1>1, <1>3
  <2> QED BY <1>1, <1>2, <2>1, <2>2 DEF MailInv, MailType
<1>7. SendsAreTrue'
  BY <1>1 DEF MailInv, SendsAreTrue, Bounded
<1>8. \A t \in Sender : OpenedOf(t)' = OpenedOf(t)
  BY <1>1, <1>4, <1>5 DEF OpenedOf
<1>9. VisitsAreCounted'
  <2>1. \A u \in Visitor : visit'[u].pc \in {"read", "opened"} => deliveries'[visit'[u].of] # Null
    BY <1>1, <1>4, <1>5 DEF MailInv, VisitsAreCounted
  <2> QED BY <1>1, <1>8, <2>1 DEF MailInv, VisitsAreCounted
<1> QED BY <1>6, <1>7, <1>9 DEF MailInv

\* It is counted: the row gains one opening, and the set of visits that opened it gains one.
LEMMA MailCount ==
  ASSUME D!ConstantsFit, MailInv, NEW v \in Visitor, D!Count(v) PROVE MailInv'
<1> DEFINE w == D!Counted(v)
           x == [visit[v] EXCEPT !.pc = "opened"]
<1>0. /\ visits \in Nat /\ visit \in [Visitor -> VisitType] /\ visit[v].pc = "read"
      /\ deliveries \in [Sender -> RowType \cup {Null}]
  BY DEF D!Count, MailInv, MailType
<1>2. PICK s \in Sender :
        /\ s = visit[v].of /\ visit[v].now \in 1 .. visits /\ visit[v].first \in 1 .. visits \cup {Null}
        /\ visit[v] \in [pc : {"read", "opened"}, of : Sender, now : 1 .. visits, opens : Nat,
                         first : 1 .. visits \cup {Null}]
  BY <1>0, VisitFacts
<1>1. /\ visits \in Nat /\ visit \in [Visitor -> VisitType] /\ visit[v].pc = "read"
      /\ deliveries \in [Sender -> RowType \cup {Null}]
      /\ UNCHANGED <<contacts, sending, mailedTo, visits>>
      /\ visit' = [visit EXCEPT ![v] = x] /\ deliveries' = [deliveries EXCEPT ![s] = w]
  BY <1>0, <1>2 DEF D!Count
<1>3. deliveries[s] # Null /\ deliveries[s] \in RowType
  BY <1>1, <1>2 DEF MailInv, VisitsAreCounted
<1>4. /\ w \in RowType /\ w.opens = deliveries[s].opens + 1
      /\ w.status = deliveries[s].status /\ w.recipients = deliveries[s].recipients
      /\ w.firstOpened \in 1 .. visits /\ deliveries[s].opens \in Nat
  <2> DEFINE f == IF visit[v].first = Null THEN visit[v].now ELSE visit[v].first
             d == deliveries[s]
  <2>1. f \in 1 .. visits /\ d \in RowType
    BY <1>2, <1>3
  <2>2. w = [d EXCEPT !.opens = d.opens + 1, !.firstOpened = f]
    BY <1>2, <1>3 DEF D!Counted, RowType
  <2> HIDE DEF f, d, w
  <2>3. w = [status |-> d.status, recipients |-> d.recipients, opens |-> d.opens + 1,
             firstOpened |-> f]
    BY <2>1, <2>2 DEF RowType
  <2>4. d.opens \in Nat /\ d.status \in {"sent", "partial", "failed"} /\ d.recipients \in D!Recipients
    BY <2>1 DEF RowType
  <2>5. w \in RowType
    BY <2>1, <2>3, <2>4 DEF RowType
  <2>6. w.opens = d.opens + 1 /\ w.status = d.status /\ w.recipients = d.recipients /\ w.firstOpened = f
    BY <2>3
  <2> QED BY <2>1, <2>4, <2>5, <2>6 DEF d
<1>5. w # Null /\ w.firstOpened # Null
  BY <1>1, <1>4, RowIsNotNone DEF D!ConstantsFit
<1>6. x \in VisitType /\ x.pc = "opened" /\ x.of = s
  BY <1>2 DEF VisitType
<1> HIDE DEF w, x
<1>7. MailType'
  <2>1. RowType' = RowType /\ VisitType' = VisitType
    BY <1>1 DEF RowType, VisitType
  <2> QED BY <1>1, <1>2, <1>4, <1>6, <2>1 DEF MailInv, MailType
<1>8. SendsAreTrue'
  BY <1>1, <1>2, <1>3, <1>4 DEF MailInv, SendsAreTrue, Bounded
<1>9. \A t \in Sender \ {s} : OpenedOf(t)' = OpenedOf(t)
  BY <1>1, <1>2, <1>6 DEF OpenedOf
<1>10. OpenedOf(s)' = OpenedOf(s) \cup {v} /\ v \notin OpenedOf(s)
  BY <1>1, <1>2, <1>6 DEF OpenedOf
<1>11. /\ IsFiniteSet(OpenedOf(s)')
       /\ Cardinality(OpenedOf(s)') = Cardinality(OpenedOf(s)) + 1
  <2>1. IsFiniteSet(OpenedOf(s))
    BY <1>2 DEF MailInv, VisitsAreCounted
  <2> QED BY <1>10, <2>1, FS_AddElement
<1>12. VisitsAreCounted'
  <2>1. \A u \in Visitor : visit'[u].pc \in {"read", "opened"} => deliveries'[visit'[u].of] # Null
    BY <1>1, <1>2, <1>5, <1>6 DEF MailInv, VisitsAreCounted
  <2>2. /\ deliveries'[s] = w /\ w.opens = Cardinality(OpenedOf(s)') /\ w.opens # 0
    BY <1>1, <1>2, <1>3, <1>4, <1>11 DEF MailInv, VisitsAreCounted
  <2>3. \A t \in Sender \ {s} : deliveries'[t] = deliveries[t]
    BY <1>1, <1>2
  <2> QED BY <1>5, <1>9, <1>11, <2>1, <2>2, <2>3 DEF MailInv, VisitsAreCounted
<1> QED BY <1>7, <1>8, <1>12 DEF MailInv

\* The invariant of a delivery.
THEOREM DeliveryInvariance == ASSUME D!ConstantsFit PROVE D!Spec => []MailInv
<1>1. MailInv /\ [D!Next]_(D!vars) => MailInv'
  <2> SUFFICES ASSUME MailInv, [D!Next]_(D!vars) PROVE MailInv'
    OBVIOUS
  <2>1. CASE \E a \in Adder : D!CountContacts(a) \/ D!InsertContact(a)
    BY <2>1, MailContacts DEF D!CountContacts, D!InsertContact, MailInv, MailType
  <2>2. CASE \E e \in Email : D!RemoveContact(e)
    BY <2>2, MailContacts DEF D!RemoveContact, MailInv, MailType
  <2>3. CASE \E s \in Sender : D!Approve(s) \/ D!Record(s) \/ D!Die(s) \/ \E e \in Email : D!Mail(s, e)
    BY <2>3, MailApprove, MailRecord, MailDie, MailMail
  <2>4. CASE \E v \in Visitor : D!Count(v) \/ \E s \in Sender : D!Follow(v, s)
    BY <2>4, MailCount, MailFollow
  <2>5. CASE UNCHANGED D!vars
    BY <2>5, MailContacts DEF D!vars, MailInv, MailType
  <2> QED BY <2>1, <2>2, <2>3, <2>4, <2>5 DEF D!Next
<1> QED BY <1>1, MailInit, PTL DEF D!Spec

\* A delivery says truly who was sent the report and how often it was opened, whatever
\* happens to its contacts while it mails and however its visits overlap.
THEOREM DeliverySoundness == ASSUME D!ConstantsFit PROVE D!Spec => []D!DeliveryIsTrue
<1>1. ASSUME MailInv PROVE D!DeliveryIsTrue
  <2>1. D!TypeOK
    BY <1>1 DEF MailInv, MailType, SendType, RowType, VisitsAreCounted, D!Row, D!TypeOK
  <2>2. D!RecordIsTrue
    <3> SUFFICES ASSUME NEW s \in Sender, deliveries[s] # Null
                 PROVE  /\ D!Ok(deliveries[s].recipients) \subseteq mailedTo[s]
                        /\ mailedTo[s] \subseteq DOMAIN deliveries[s].recipients
                        /\ deliveries[s].status = "sent" =>
                             mailedTo[s] = DOMAIN deliveries[s].recipients
      BY DEF D!RecordIsTrue
    <3>1. /\ Bounded(s, deliveries[s].recipients)
          /\ deliveries[s].status = D!Status(deliveries[s].recipients)
      BY <1>1 DEF MailInv, SendsAreTrue
    <3>2. deliveries[s].status = "sent" =>
            D!Ok(deliveries[s].recipients) = DOMAIN deliveries[s].recipients
      BY <3>1 DEF D!Status
    <3> QED BY <3>1, <3>2 DEF Bounded
  <2>3. D!CountsEveryVisit
    BY <1>1, MailCardinality DEF MailInv, VisitsAreCounted, OpenedOf, D!CountsEveryVisit
  <2> QED BY <2>1, <2>2, <2>3 DEF D!DeliveryIsTrue
<1> QED BY <1>1, DeliveryInvariance, PTL

-------------------------------------------------------------------------------
(***************************************************************************)
(* Feedback.  A request that mails is about a message that is saved        *)
(* already, and one that has been told of a success has mailed it.         *)
(***************************************************************************)

MessageRequests == [pc : {"saving", "emailing", "sent", "failed"}, of : Message]

FeedbackType ==
  /\ feedback \in [Message -> {"none", "pending", "sent", "failed"}]
  /\ request \in [F!Request -> {F!Idle, F!Dead} \cup MessageRequests]
  /\ losses \in 0 .. MaxLosses

SavedBeforeMailed ==
  /\ done \subseteq F!Saved /\ mailed \subseteq F!Saved
  /\ \A m \in Message : feedback[m] = "sent" => m \in mailed

ToldIsMailed ==
  \A q \in F!Request :
    /\ request[q].pc = "saving" => request[q].of = q
    /\ request[q].pc \in {"emailing", "sent", "failed"} => request[q].of \in F!Saved
    /\ request[q].pc = "sent" => request[q].of \in mailed

FeedbackInv == FeedbackType /\ SavedBeforeMailed /\ ToldIsMailed

LEMMA FeedbackInit == F!ConstantsFit /\ F!Init => FeedbackInv
BY DEF F!ConstantsFit, F!Init, F!Idle, F!Saved, FeedbackInv, FeedbackType, SavedBeforeMailed,
   ToldIsMailed

LEMMA RequestFacts ==
  ASSUME NEW x \in {F!Idle, F!Dead} \cup MessageRequests
  PROVE  /\ x.pc \in {"idle", "dead", "saving", "emailing", "sent", "failed"}
         /\ x.pc \notin {"idle", "dead"} => x \in MessageRequests /\ x.of \in Message
         /\ x.pc = "idle" <=> x = F!Idle
BY DEF MessageRequests, F!Idle, F!Dead

\* A request goes on from q: what it then claims is so, and nothing else is disturbed.
LEMMA RequestGoesOn ==
  ASSUME FeedbackInv, NEW q \in F!Request, NEW x \in {F!Idle, F!Dead} \cup MessageRequests,
         request' = [request EXCEPT ![q] = x],
         F!Saved \subseteq F!Saved', mailed \subseteq mailed',
         x.pc = "saving" => x.of = q,
         x.pc \in {"emailing", "sent", "failed"} => x.of \in F!Saved',
         x.pc = "sent" => x.of \in mailed'
  PROVE  /\ request' \in [F!Request -> {F!Idle, F!Dead} \cup MessageRequests]
         /\ ToldIsMailed'
<1>1. request \in [F!Request -> {F!Idle, F!Dead} \cup MessageRequests]
  BY DEF FeedbackInv, FeedbackType
<1>2. request'[q] = x /\ \A p \in F!Request \ {q} : request'[p] = request[p]
  BY <1>1
<1>3. F!Request' = F!Request
  BY DEF F!Request
<1>4. ToldIsMailed'
  BY <1>2, <1>3 DEF FeedbackInv, ToldIsMailed
<1> QED BY <1>1, <1>4

LEMMA FeedbackStep == ASSUME F!ConstantsFit, FeedbackInv, F!Next PROVE FeedbackInv'
<1> USE DEF F!ConstantsFit
<1>1. /\ request \in [F!Request -> {F!Idle, F!Dead} \cup MessageRequests]
      /\ feedback \in [Message -> {"none", "pending", "sent", "failed"}]
      /\ losses \in 0 .. MaxLosses /\ Message \subseteq F!Request /\ Admin \subseteq F!Request
  BY DEF FeedbackInv, FeedbackType, F!Request
<1>2. ASSUME NEW m \in Message, F!Submit(m) PROVE FeedbackInv'
  <2>1. [pc |-> "saving", of |-> m] \in MessageRequests
    BY DEF MessageRequests
  <2>2. UNCHANGED <<feedback, done, mailed, losses>> /\ F!Saved' = F!Saved
    BY <1>2 DEF F!Submit, F!Saved
  <2>3. request' \in [F!Request -> {F!Idle, F!Dead} \cup MessageRequests] /\ ToldIsMailed'
    BY <1>1, <1>2, <2>1, <2>2, RequestGoesOn DEF F!Submit
  <2> QED BY <1>1, <2>2, <2>3 DEF FeedbackInv, FeedbackType, SavedBeforeMailed, F!Request
<1>3. ASSUME NEW m \in Message, F!Save(m) PROVE FeedbackInv'
  <2>1. [pc |-> "emailing", of |-> m] \in MessageRequests
    BY DEF MessageRequests
  <2>2. /\ UNCHANGED <<done, mailed, losses>> /\ F!Saved' = F!Saved \cup {m}
        /\ feedback' = [feedback EXCEPT ![m] = "pending"]
    BY <1>1, <1>3 DEF F!Save, F!Saved
  <2>3. request' \in [F!Request -> {F!Idle, F!Dead} \cup MessageRequests] /\ ToldIsMailed'
    BY <1>1, <1>3, <2>1, <2>2, RequestGoesOn DEF F!Save
  <2> QED BY <1>1, <2>2, <2>3 DEF FeedbackInv, FeedbackType, SavedBeforeMailed, F!Request
<1>4. ASSUME NEW m \in Message, NEW a \in Admin, F!Resend(a, m) PROVE FeedbackInv'
  <2>1. [pc |-> "emailing", of |-> m] \in MessageRequests
    BY DEF MessageRequests
  <2>2. UNCHANGED <<feedback, done, mailed, losses>> /\ F!Saved' = F!Saved /\ m \in F!Saved
    BY <1>4 DEF F!Resend, F!Saved
  <2>3. request' \in [F!Request -> {F!Idle, F!Dead} \cup MessageRequests] /\ ToldIsMailed'
    BY <1>1, <1>4, <2>1, <2>2, RequestGoesOn DEF F!Resend
  <2> QED BY <1>1, <2>2, <2>3 DEF FeedbackInv, FeedbackType, SavedBeforeMailed, F!Request
<1>5. ASSUME NEW m \in Message, F!MarkDone(m) PROVE FeedbackInv'
  <2>1. UNCHANGED <<feedback, request, mailed, losses>> /\ F!Saved' = F!Saved /\ m \in F!Saved
    BY <1>5 DEF F!MarkDone, F!Saved
  <2>2. done' \subseteq F!Saved
    BY <1>5, <2>1 DEF F!MarkDone, FeedbackInv, SavedBeforeMailed
  <2> QED BY <2>1, <2>2 DEF FeedbackInv, FeedbackType, SavedBeforeMailed, ToldIsMailed, F!Request
<1>6. ASSUME NEW q \in F!Request, F!Mail(q) \/ F!MailFails(q) PROVE FeedbackInv'
  <2>1. /\ request[q].pc = "emailing" /\ request[q] \in MessageRequests
        /\ request[q].of \in F!Saved
    BY <1>1, <1>6, RequestFacts DEF F!Mail, F!MailFails, FeedbackInv, ToldIsMailed
  <2>2. PICK k \in {"sent", "failed"} :
          /\ request' = [request EXCEPT ![q] = [request[q] EXCEPT !.pc = k]]
          /\ k = "sent" => mailed' = mailed \cup {request[q].of}
    BY <1>6 DEF F!Mail, F!MailFails
  <2> DEFINE x == [request[q] EXCEPT !.pc = k]
  <2>3. x \in MessageRequests /\ x.pc = k /\ x.of = request[q].of
    BY <2>1 DEF MessageRequests
  <2>4. /\ UNCHANGED <<feedback, done>> /\ F!Saved' = F!Saved /\ losses' \in 0 .. MaxLosses
        /\ mailed \subseteq mailed' /\ mailed' \subseteq mailed \cup {request[q].of}
    BY <1>1, <1>6 DEF F!Mail, F!MailFails, F!Saved
  <2> HIDE DEF x
  <2>5. request' \in [F!Request -> {F!Idle, F!Dead} \cup MessageRequests] /\ ToldIsMailed'
    <3>1. request' = [request EXCEPT ![q] = x]
      BY <2>2 DEF x
    <3>2. x.pc = "sent" => x.of \in mailed'
      BY <2>2, <2>3
    <3> QED BY <2>1, <2>3, <2>4, <3>1, <3>2, RequestGoesOn
  <2> QED BY <1>1, <2>1, <2>4, <2>5 DEF FeedbackInv, FeedbackType, SavedBeforeMailed, F!Request
<1>7. ASSUME NEW q \in F!Request, F!Note(q) PROVE FeedbackInv'
  <2>1. PICK m \in Message, k \in {"sent", "failed"} :
          /\ m = request[q].of /\ k = request[q].pc /\ m \in F!Saved
          /\ k = "sent" => m \in mailed
    BY <1>1, <1>7, RequestFacts DEF F!Note, FeedbackInv, ToldIsMailed
  <2>2. /\ feedback' = [feedback EXCEPT ![m] = k] /\ UNCHANGED <<done, mailed, losses>>
        /\ request' = [request EXCEPT ![q] = F!Idle]
    BY <1>7, <2>1 DEF F!Note
  <2>3. F!Saved' = F!Saved
    BY <1>1, <2>1, <2>2 DEF F!Saved
  <2>4. F!Idle.pc = "idle"
    BY DEF F!Idle
  <2>5. request' \in [F!Request -> {F!Idle, F!Dead} \cup MessageRequests] /\ ToldIsMailed'
    BY <2>2, <2>3, <2>4, RequestGoesOn
  <2> QED BY <1>1, <2>1, <2>2, <2>3, <2>5 DEF FeedbackInv, FeedbackType, SavedBeforeMailed, F!Request
<1>8. ASSUME NEW q \in F!Request, F!Die(q) PROVE FeedbackInv'
  <2>1. /\ UNCHANGED <<feedback, done, mailed>> /\ F!Saved' = F!Saved
        /\ losses' \in 0 .. MaxLosses
    BY <1>1, <1>8 DEF F!Die, F!Saved
  <2>2. F!Idle.pc = "idle" /\ F!Dead.pc = "dead"
    BY DEF F!Idle, F!Dead
  <2>3. request' \in [F!Request -> {F!Idle, F!Dead} \cup MessageRequests] /\ ToldIsMailed'
    <3>1. PICK x \in {F!Idle, F!Dead} : request' = [request EXCEPT ![q] = x]
      BY <1>8 DEF F!Die
    <3> QED BY <2>1, <2>2, <3>1, RequestGoesOn
  <2> QED BY <1>1, <2>1, <2>3 DEF FeedbackInv, FeedbackType, SavedBeforeMailed, F!Request
<1> QED BY <1>2, <1>3, <1>4, <1>5, <1>6, <1>7, <1>8 DEF F!Next

\* The invariant of feedback.
THEOREM FeedbackInvariance == ASSUME F!ConstantsFit PROVE F!Spec => []FeedbackInv
<1>1. FeedbackInv /\ UNCHANGED F!vars => FeedbackInv'
  BY DEF F!vars, FeedbackInv, FeedbackType, SavedBeforeMailed, ToldIsMailed, F!Request, F!Saved
<1> QED BY <1>1, FeedbackInit, FeedbackStep, PTL DEF F!Spec

\* Feedback is saved before it is mailed, and what reads "sent" was mailed, whichever of its
\* requests die and however they repeat each other.
THEOREM FeedbackSoundness == ASSUME F!ConstantsFit PROVE F!Spec => []F!FeedbackIsTrue
<1>1. ASSUME FeedbackInv PROVE F!FeedbackIsTrue
  <2>1. F!TypeOK
    <3>1. \A q \in F!Request :
            /\ request[q].pc \in {"idle", "saving", "emailing", "sent", "failed", "dead"}
            /\ request[q] \notin {F!Idle, F!Dead} => request[q].of \in Message
      BY <1>1, RequestFacts DEF FeedbackInv, FeedbackType, MessageRequests
    <3>2. mailed \subseteq Message
      BY <1>1 DEF FeedbackInv, SavedBeforeMailed, F!Saved
    <3> QED BY <1>1, <3>1, <3>2 DEF FeedbackInv, FeedbackType, SavedBeforeMailed, F!TypeOK
  <2>2. F!NothingUnsaved
    BY <1>1 DEF FeedbackInv, SavedBeforeMailed, F!NothingUnsaved
  <2> QED BY <2>1, <2>2 DEF F!FeedbackIsTrue
<1> QED BY <1>1, FeedbackInvariance, PTL

\* What the rows say of reports and of feedback that were mailed is true of each store's
\* behaviours, which the other's do not touch.
THEOREM MailSoundness ==
  ASSUME D!ConstantsFit, F!ConstantsFit PROVE D!Spec /\ F!Spec => []MailIsTrue
<1>1. D!DeliveryIsTrue /\ F!FeedbackIsTrue => MailIsTrue
  BY DEF MailIsTrue
<1> QED BY <1>1, DeliverySoundness, FeedbackSoundness, PTL

-------------------------------------------------------------------------------
(***************************************************************************)
(* A connector.  Time only passes, so the row is never older than what a   *)
(* listing has read of it, nor than what the cache was filled from.        *)
(***************************************************************************)

ConnectorRow ==
  [secret : Writer \cup {Null}, verified : BOOLEAN, status : {"active", "pending"}, updatedAt : Nat]

WriterType == [pc : {"idle", "asking"}] \cup [pc : {"answered"}, verdict : BOOLEAN]

ListerType ==
  [pc : {"idle"}] \cup [pc : {"read"}, seen : Nat]
  \cup [pc : {"listing", "served"}, seen : Nat, by : Nat]

CacheEntry == [at : Nat, rowUpdatedAt : Nat, by : Nat]

ConnectorType ==
  /\ provider \in {"azure", "aws"} /\ granted \in BOOLEAN /\ passed \subseteq Writer \cup {Null}
  /\ connector \in ConnectorRow
  /\ writer \in [Writer -> WriterType]
  /\ lister \in [Lister -> ListerType]
  /\ clock \in 0 .. MaxClock /\ changes \in 0 .. MaxChanges /\ failures \in 0 .. MaxFailures

\* What is verified has passed, of the row and of a verdict that is still to be recorded.
VerdictsAreProven ==
  /\ connector.status = C!StatusFor(connector.verified) /\ connector.updatedAt <= clock
  /\ connector.verified => connector.secret \in passed
  /\ \A w \in Writer : writer[w].pc = "answered" /\ writer[w].verdict => C!Tested(w) \in passed

\* A listing's credential is no older than the row it saw, and the cache keeps that order.
ListsForward ==
  /\ \A l \in Lister :
       /\ lister[l].pc # "idle" => lister[l].seen <= connector.updatedAt
       /\ lister[l].pc \in {"listing", "served"} =>
            lister[l].seen <= lister[l].by /\ lister[l].by <= connector.updatedAt
  /\ cache # Null =>
       /\ cache \in CacheEntry /\ cache.at <= clock
       /\ cache.rowUpdatedAt <= cache.by /\ cache.by <= connector.updatedAt

ConnectorInv == ConnectorType /\ VerdictsAreProven /\ ListsForward

LEMMA WriterFacts ==
  ASSUME NEW x \in WriterType
  PROVE  /\ x.pc \in {"idle", "asking", "answered"}
         /\ x.pc = "answered" => x.verdict \in BOOLEAN
BY DEF WriterType

LEMMA ListerFacts ==
  ASSUME NEW x \in ListerType
  PROVE  /\ x.pc \in {"idle", "read", "listing", "served"}
         /\ x.pc # "idle" => x.seen \in Nat
         /\ x.pc \in {"listing", "served"} => x.by \in Nat
BY DEF ListerType

LEMMA ConnectorInit == C!ConstantsFit /\ C!Init => ConnectorInv
BY DEF C!ConstantsFit, C!Init, C!First, C!StatusFor, ConnectorInv, ConnectorType, ConnectorRow,
   WriterType, ListerType, VerdictsAreProven, ListsForward

\* A verification goes on: the verdict it holds, if any, has passed.
LEMMA WriterGoesOn ==
  ASSUME ConnectorInv, NEW w \in Writer, NEW x \in WriterType,
         writer' = [writer EXCEPT ![w] = x], provider' = provider,
         passed \subseteq passed', passed' \subseteq Writer \cup {Null},
         x.pc = "answered" /\ x.verdict => C!Tested(w) \in passed'
  PROVE  /\ writer' \in [Writer -> WriterType]
         /\ \A v \in Writer : writer'[v].pc = "answered" /\ writer'[v].verdict => C!Tested(v)' \in passed'
<1>1. writer \in [Writer -> WriterType]
  BY DEF ConnectorInv, ConnectorType
<1>2. \A v : C!Tested(v)' = C!Tested(v)
  BY DEF C!Tested, C!First
<1> QED BY <1>1, <1>2 DEF ConnectorInv, VerdictsAreProven

\* Steps of a verification before it writes the row.
LEMMA ConnectorVerify ==
  ASSUME C!ConstantsFit, ConnectorInv, NEW w \in Writer,
         C!Ask(w) \/ C!Answer(w) \/ C!Fail(w) \/ C!Die(w)
  PROVE  ConnectorInv'
<1>1. UNCHANGED <<provider, connector, granted, lister, cache, clock, changes>>
  BY DEF C!Ask, C!Answer, C!Fail, C!Die
<1>2. failures' \in 0 .. MaxFailures
  BY DEF C!Ask, C!Answer, C!Fail, C!Die, C!ConstantsFit, ConnectorInv, ConnectorType
<1>3. passed \subseteq passed' /\ passed' \subseteq Writer \cup {Null}
  BY DEF C!Ask, C!Answer, C!Fail, C!Die, C!Tested, C!First, ConnectorInv, ConnectorType
<1>4. PICK x \in WriterType : /\ writer' = [writer EXCEPT ![w] = x]
                              /\ x.pc = "answered" /\ x.verdict => C!Tested(w) \in passed'
  <2>1. CASE C!Ask(w)
    <3> DEFINE x == [pc |-> "asking"]
    <3>1. x \in WriterType /\ x.pc = "asking"
      BY DEF WriterType
    <3> QED BY <2>1, <3>1 DEF C!Ask
  <2>2. CASE C!Answer(w)
    <3> DEFINE x == [pc |-> "answered", verdict |-> granted]
    <3>1. x \in WriterType /\ x.verdict = granted
      BY DEF WriterType, ConnectorInv, ConnectorType
    <3>2. granted => C!Tested(w) \in passed'
      BY <2>2 DEF C!Answer
    <3> QED BY <2>2, <3>1, <3>2 DEF C!Answer
  <2>3. CASE C!Fail(w)
    <3> DEFINE x == [pc |-> "answered", verdict |-> FALSE]
    <3>1. x \in WriterType /\ ~x.verdict
      BY DEF WriterType
    <3> QED BY <2>3, <3>1 DEF C!Fail
  <2>4. CASE C!Die(w)
    <3> DEFINE x == [pc |-> "idle"]
    <3>1. x \in WriterType /\ x.pc = "idle"
      BY DEF WriterType
    <3> QED BY <2>4, <3>1 DEF C!Die
  <2> QED BY <2>1, <2>2, <2>3, <2>4
<1>5. /\ writer' \in [Writer -> WriterType]
      /\ \A v \in Writer : writer'[v].pc = "answered" /\ writer'[v].verdict => C!Tested(v)' \in passed'
  BY <1>1, <1>3, <1>4, WriterGoesOn
<1>6. ConnectorType'
  BY <1>1, <1>2, <1>3, <1>5 DEF ConnectorInv, ConnectorType
<1>7. VerdictsAreProven'
  BY <1>1, <1>3, <1>5 DEF ConnectorInv, VerdictsAreProven, C!StatusFor
<1>8. ListsForward'
  BY <1>1 DEF ConnectorInv, ListsForward
<1> QED BY <1>6, <1>7, <1>8 DEF ConnectorInv

\* The verdict is written, whatever the row has become meanwhile.
LEMMA ConnectorRecord ==
  ASSUME C!ConstantsFit, ConnectorInv, NEW w \in Writer, C!Record(w) PROVE ConnectorInv'
<1> DEFINE v == writer[w].verdict
           r == [secret |-> C!Tested(w), verified |-> v, status |-> C!StatusFor(v), updatedAt |-> clock]
<1>1. /\ connector' = r /\ writer' = [writer EXCEPT ![w] = [pc |-> "idle"]]
      /\ UNCHANGED <<provider, granted, passed, lister, cache, clock, changes, failures>>
  BY DEF C!Record
<1>2. writer[w] \in WriterType /\ writer[w].pc = "answered" /\ clock \in Nat /\ passed \subseteq Writer \cup {Null}
  BY DEF C!Record, C!ConstantsFit, ConnectorInv, ConnectorType
<1>3. v \in BOOLEAN /\ (v => C!Tested(w) \in passed) /\ C!Tested(w) \in Writer \cup {Null}
  BY <1>2, WriterFacts DEF ConnectorInv, VerdictsAreProven, C!Tested, C!First
<1>4. /\ r \in ConnectorRow /\ r.secret = C!Tested(w) /\ r.verified = v
      /\ r.status = C!StatusFor(v) /\ r.updatedAt = clock
  BY <1>2, <1>3 DEF ConnectorRow, C!StatusFor
<1> HIDE DEF v, r
<1>5. [pc |-> "idle"] \in WriterType
  BY DEF WriterType
<1>6. /\ writer' \in [Writer -> WriterType]
      /\ \A u \in Writer : writer'[u].pc = "answered" /\ writer'[u].verdict => C!Tested(u)' \in passed'
  BY <1>1, <1>2, <1>5, WriterGoesOn
<1>7. ConnectorType'
  BY <1>1, <1>4, <1>6 DEF ConnectorInv, ConnectorType
<1>8. VerdictsAreProven'
  BY <1>1, <1>2, <1>3, <1>4, <1>6 DEF VerdictsAreProven, C!StatusFor
<1>9. ListsForward'
  <2>1. connector.updatedAt \in Nat /\ connector.updatedAt <= connector'.updatedAt
    BY <1>1, <1>4 DEF ConnectorInv, ConnectorType, ConnectorRow, VerdictsAreProven
  <2>2. ASSUME NEW l \in Lister
        PROVE  /\ lister[l].pc # "idle" => lister[l].seen <= connector'.updatedAt
               /\ lister[l].pc \in {"listing", "served"} =>
                    lister[l].seen <= lister[l].by /\ lister[l].by <= connector'.updatedAt
    <3>1. lister[l] \in ListerType
      BY DEF ConnectorInv, ConnectorType
    <3> QED BY <1>1, <1>2, <1>4, <2>1, <3>1, ListerFacts DEF ConnectorInv, ListsForward
  <2>3. cache # Null => /\ cache \in CacheEntry /\ cache.at <= clock
                        /\ cache.rowUpdatedAt <= cache.by /\ cache.by <= connector'.updatedAt
    BY <1>1, <1>2, <1>4, <2>1 DEF ConnectorInv, ListsForward, CacheEntry
  <2> QED BY <1>1, <2>2, <2>3 DEF ListsForward
<1> QED BY <1>7, <1>8, <1>9 DEF ConnectorInv

\* Time passes, or the customer changes the role.
LEMMA ConnectorAround ==
  ASSUME C!ConstantsFit, ConnectorInv, C!Tick \/ C!Change PROVE ConnectorInv'
<1>1. UNCHANGED <<provider, connector, writer, passed, lister, cache, failures>>
  BY DEF C!Tick, C!Change
<1>2. /\ clock \in Nat /\ clock' \in 0 .. MaxClock /\ clock <= clock'
      /\ changes' \in 0 .. MaxChanges /\ granted' \in BOOLEAN
  <2>1. /\ clock \in 0 .. MaxClock /\ changes \in 0 .. MaxChanges /\ granted \in BOOLEAN
        /\ MaxClock \in Nat /\ MaxChanges \in Nat
    BY DEF C!ConstantsFit, ConnectorInv, ConnectorType
  <2>2. CASE C!Tick
    BY <2>1, <2>2 DEF C!Tick
  <2>3. CASE C!Change
    <3>1. granted' = ~granted
      BY <2>3 DEF C!Change
    <3>2. granted' \in BOOLEAN
      BY <2>1, <3>1
    <3> QED BY <2>1, <2>3, <3>2 DEF C!Change
  <2> QED BY <2>2, <2>3
<1>3. ConnectorType'
  BY <1>1, <1>2 DEF ConnectorInv, ConnectorType
<1>4. VerdictsAreProven'
  <2>1. connector.updatedAt \in Nat /\ connector.updatedAt <= clock
    BY DEF ConnectorInv, ConnectorType, ConnectorRow, VerdictsAreProven
  <2>2. connector.updatedAt <= clock'
    BY <1>2, <2>1
  <2> QED BY <1>1, <2>2 DEF ConnectorInv, VerdictsAreProven, C!StatusFor, C!Tested, C!First
<1>5. ListsForward'
  BY <1>1, <1>2 DEF ConnectorInv, ListsForward, CacheEntry
<1> QED BY <1>3, <1>4, <1>5 DEF ConnectorInv

\* A request for the inventory goes on: what it holds is in order.
LEMMA ListerGoesOn ==
  ASSUME ConnectorInv, NEW l \in Lister, NEW x \in ListerType, lister' = [lister EXCEPT ![l] = x],
         x.pc # "idle" => x.seen <= connector.updatedAt,
         x.pc \in {"listing", "served"} => x.seen <= x.by /\ x.by <= connector.updatedAt,
         cache' = cache \/ (/\ cache' \in CacheEntry /\ cache'.at <= clock
                            /\ cache'.rowUpdatedAt <= cache'.by /\ cache'.by <= connector.updatedAt),
         UNCHANGED <<provider, connector, writer, granted, passed, clock, changes, failures>>
  PROVE  ConnectorInv'
<1>1. lister \in [Lister -> ListerType]
  BY DEF ConnectorInv, ConnectorType
<1>2. ConnectorType'
  BY <1>1 DEF ConnectorInv, ConnectorType
<1>3. VerdictsAreProven'
  BY DEF ConnectorInv, VerdictsAreProven, C!StatusFor, C!Tested, C!First
<1>4. ListsForward'
  BY <1>1 DEF ConnectorInv, ListsForward
<1> QED BY <1>2, <1>3, <1>4 DEF ConnectorInv

LEMMA ConnectorList ==
  ASSUME ConnectorInv, NEW l \in Lister,
         C!ReadRow(l) \/ C!Serve(l) \/ C!Resolve(l) \/ C!Store(l) \/ C!Leave(l)
  PROVE  ConnectorInv'
<1>1. lister[l] \in ListerType /\ connector.updatedAt \in Nat /\ clock \in Nat
  BY DEF ConnectorInv, ConnectorType, ConnectorRow
<1>2. CASE C!ReadRow(l)
  <2> DEFINE x == [pc |-> "read", seen |-> connector.updatedAt]
  <2>1. x \in ListerType /\ x.pc = "read" /\ x.seen = connector.updatedAt
    BY <1>1 DEF ListerType
  <2> HIDE DEF x
  <2>2. lister' = [lister EXCEPT ![l] = x]
    BY <1>2 DEF C!ReadRow, x
  <2>3. x.seen <= connector.updatedAt
    BY <1>1, <2>1
  <2> QED BY <1>2, <2>1, <2>2, <2>3, ListerGoesOn DEF C!ReadRow
<1>3. CASE C!Serve(l)
  <2> DEFINE x == [pc |-> "served", seen |-> lister[l].seen, by |-> cache.by]
  <2>1. /\ cache \in CacheEntry /\ cache.rowUpdatedAt = lister[l].seen
        /\ cache.rowUpdatedAt <= cache.by /\ cache.by <= connector.updatedAt
        /\ lister[l].seen <= connector.updatedAt /\ lister[l].seen \in Nat
    BY <1>1, <1>3, ListerFacts DEF C!Serve, C!Hit, ConnectorInv, ListsForward
  <2>2. x \in ListerType /\ x.seen <= connector.updatedAt /\ x.seen <= x.by /\ x.by <= connector.updatedAt
    BY <2>1 DEF ListerType, CacheEntry
  <2> HIDE DEF x
  <2>3. lister' = [lister EXCEPT ![l] = x]
    BY <1>3 DEF C!Serve, x
  <2> QED BY <1>3, <2>2, <2>3, ListerGoesOn DEF C!Serve
<1>4. CASE C!Resolve(l)
  <2> DEFINE x == [pc |-> "listing", seen |-> lister[l].seen, by |-> connector.updatedAt]
  <2>1. lister[l].seen <= connector.updatedAt /\ lister[l].seen \in Nat
    BY <1>1, <1>4, ListerFacts DEF C!Resolve, ConnectorInv, ListsForward
  <2>2. x \in ListerType /\ x.seen <= connector.updatedAt /\ x.seen <= x.by /\ x.by <= connector.updatedAt
    BY <1>1, <2>1 DEF ListerType
  <2> HIDE DEF x
  <2>3. lister' = [lister EXCEPT ![l] = x]
    BY <1>4 DEF C!Resolve, x
  <2> QED BY <1>4, <2>2, <2>3, ListerGoesOn DEF C!Resolve
<1>5. CASE C!Store(l) \/ C!Leave(l)
  <2> DEFINE x == [pc |-> "idle"]
  <2>1. x \in ListerType /\ x.pc = "idle"
    BY DEF ListerType
  <2> HIDE DEF x
  <2>2. lister' = [lister EXCEPT ![l] = x]
    BY <1>5 DEF C!Store, C!Leave, x
  <2>3. cache' = cache \/ (/\ cache' \in CacheEntry /\ cache'.at <= clock
                           /\ cache'.rowUpdatedAt <= cache'.by /\ cache'.by <= connector.updatedAt)
    <3>1. CASE C!Store(l)
      <4>1. /\ lister[l].seen \in Nat /\ lister[l].by \in Nat
            /\ lister[l].seen <= lister[l].by /\ lister[l].by <= connector.updatedAt
        BY <1>1, <3>1, ListerFacts DEF C!Store, ConnectorInv, ListsForward
      <4> QED BY <1>1, <3>1, <4>1 DEF C!Store, CacheEntry
    <3>2. CASE C!Leave(l)
      BY <3>2 DEF C!Leave
    <3> QED BY <1>5, <3>1, <3>2
  <2> QED BY <1>5, <2>1, <2>2, <2>3, ListerGoesOn DEF C!Store, C!Leave
<1> QED BY <1>2, <1>3, <1>4, <1>5

\* The connector's invariant: verdicts are proven, and listings go forward.
THEOREM ConnectorInvariance == ASSUME C!ConstantsFit PROVE C!Spec => []ConnectorInv
<1>1. ConnectorInv /\ [C!Next]_(C!vars) => ConnectorInv'
  <2> SUFFICES ASSUME ConnectorInv, [C!Next]_(C!vars) PROVE ConnectorInv'
    OBVIOUS
  <2>1. CASE C!Next
    BY <2>1, ConnectorAround, ConnectorVerify, ConnectorRecord, ConnectorList DEF C!Next
  <2>2. CASE UNCHANGED C!vars
    BY <2>2 DEF C!vars, ConnectorInv, ConnectorType, VerdictsAreProven, ListsForward,
       C!StatusFor, C!Tested, C!First
  <2> QED BY <2>1, <2>2
<1> QED BY <1>1, ConnectorInit, PTL DEF C!Spec

\* An active connector holds a secret that has passed, whichever rotations and verifications
\* overlap, and no listing is served that a credential before the row it saw produced.
THEOREM ConnectorSoundness == ASSUME C!ConstantsFit PROVE C!Spec => []ConnectorIsSound
<1>1. ASSUME ConnectorInv PROVE ConnectorIsSound
  <2>1. C!TypeOK
    <3>1. \A w \in Writer : writer[w].pc = "answered" => writer[w].verdict \in BOOLEAN
      BY <1>1, WriterFacts DEF ConnectorInv, ConnectorType
    <3>2. cache # Null => /\ cache.at <= clock /\ cache.rowUpdatedAt <= connector.updatedAt
                          /\ cache.by <= connector.updatedAt
      BY <1>1 DEF ConnectorInv, ConnectorType, ConnectorRow, ListsForward, CacheEntry
    <3> QED BY <1>1, <3>1, <3>2 DEF ConnectorInv, ConnectorType, ConnectorRow, VerdictsAreProven,
            C!TypeOK, C!First
  <2>2. C!ActiveIsProven
    BY <1>1 DEF ConnectorInv, VerdictsAreProven, C!StatusFor, C!ActiveIsProven
  <2>3. C!NeverServedByPrevious
    <3>1. ASSUME NEW l \in Lister, lister[l].pc = "served" PROVE lister[l].by >= lister[l].seen
      BY <1>1, <3>1, ListerFacts DEF ConnectorInv, ConnectorType, ListsForward
    <3> QED BY <3>1 DEF C!NeverServedByPrevious
  <2> QED BY <2>1, <2>2, <2>3 DEF ConnectorIsSound, C!ConnectorIsSound
<1> QED BY <1>1, ConnectorInvariance, PTL

-------------------------------------------------------------------------------
(***************************************************************************)
(* Collections.  What a request has heard is never better than what the    *)
(* runtime has done, and once it judges it reads nothing more.             *)
(***************************************************************************)

Heard == [error : BOOLEAN, snapshot : BOOLEAN]
Place ==
  {"idle", "resolved", "created", "ready", "invoking", "reading", "releasing", "writing", "over",
   "refused", "dead"}

CollectionType ==
  /\ collections \in [Job -> S!Status] /\ readable \in BOOLEAN
  /\ job \in [Job -> [pc : Place, heard : Heard, outcome : {Null, "complete", "failed"}]]
  /\ runtime \in [Job -> [events : Nat, failed : BOOLEAN, snapshot : BOOLEAN, done : BOOLEAN]]

\* The runtime was done with the collection, and nothing had failed.
ReallyComplete(j) ==
  runtime[j].done /\ ~runtime[j].failed /\ (j \in Scan \/ runtime[j].snapshot)

\* Where a request is, what its row says, and what it knows.
Knows(j) ==
  /\ job[j].pc \in {"idle", "resolved"} => collections[j] = "none"
  /\ job[j].pc \in {"created", "ready"} => collections[j] = "queued"
  /\ job[j].pc \in {"idle", "resolved", "created", "ready", "invoking"} =>
       job[j].heard = S!Unheard /\ runtime[j] = S!NotRun
  /\ job[j].pc = "invoking" => collections[j] = "running"
  /\ job[j].pc = "reading" =>
       /\ collections[j] = "running"
       /\ runtime[j].failed => job[j].heard.error
       /\ job[j].heard.snapshot => runtime[j].snapshot
  /\ job[j].pc \in {"releasing", "writing"} =>
       /\ collections[j] = "running" /\ job[j].outcome \in {"complete", "failed"}
       /\ job[j].outcome = "complete" => ReallyComplete(j)
  /\ job[j].pc = "over" => collections[j] \in {"complete", "failed"}
  /\ collections[j] = "complete" => job[j].pc = "over" /\ ReallyComplete(j)

CollectionInv == CollectionType /\ \A j \in Job : Knows(j)

LEMMA CollectionInit == S!ConstantsFit /\ S!Init => CollectionInv
<1> SUFFICES ASSUME S!ConstantsFit, S!Init PROVE CollectionInv
  OBVIOUS
<1>1. S!Unheard \in Heard /\ S!NotRun \in [events : Nat, failed : BOOLEAN, snapshot : BOOLEAN, done : BOOLEAN]
  BY DEF Heard, S!Unheard, S!NotRun
<1>2. CollectionType
  BY <1>1 DEF S!Init, S!Status, CollectionType, Place
<1>3. ASSUME NEW j \in Job PROVE Knows(j)
  BY DEF S!Init, Knows
<1> QED BY <1>2, <1>3 DEF CollectionInv

\* A step of one request is no step of another.
LEMMA OnlyOneMoves ==
  ASSUME CollectionInv, NEW j \in Job,
         NEW x \in [pc : Place, heard : Heard, outcome : {Null, "complete", "failed"}],
         NEW r \in S!Status,
         NEW t \in [events : Nat, failed : BOOLEAN, snapshot : BOOLEAN, done : BOOLEAN],
         job' = [job EXCEPT ![j] = x], collections' = [collections EXCEPT ![j] = r],
         runtime' = [runtime EXCEPT ![j] = t], readable' = readable,
         Knows(j)'
  PROVE  CollectionInv'
<1>1. CollectionType'
  BY DEF CollectionInv, CollectionType
<1>2. ASSUME NEW k \in Job \ {j} PROVE Knows(k)'
  <2>1. job'[k] = job[k] /\ collections'[k] = collections[k] /\ runtime'[k] = runtime[k]
    BY DEF CollectionInv, CollectionType
  <2> QED BY <2>1 DEF CollectionInv, Knows, ReallyComplete
<1> QED BY <1>1, <1>2 DEF CollectionInv

\* An event is counted, and a snapshot or a failure is noted.
LEMMA OneMoreEvent ==
  ASSUME NEW T, T = [events : Nat, failed : BOOLEAN, snapshot : BOOLEAN, done : BOOLEAN],
         NEW t \in T, NEW n \in Nat, NEW b \in BOOLEAN
  PROVE  LET s == [t EXCEPT !.events = n, !.snapshot = b]
             f == [t EXCEPT !.events = n, !.failed = b]
         IN  /\ s \in T /\ s.snapshot = b /\ s.failed = t.failed
             /\ f \in T /\ f.failed = b /\ f.snapshot = t.snapshot
BY Zenon

\* The steps, as what they make of one request, its row and its runtime.
LEMMA CollectionStep ==
  ASSUME S!ConstantsFit, CollectionInv, NEW j \in Job,
         S!PullResolve(j) \/ S!ScanCreate(j) \/ S!Own(j) \/ S!Answer(j) \/ S!Die(j)
  PROVE  CollectionInv'
<1> DEFINE J == [pc : Place, heard : Heard, outcome : {Null, "complete", "failed"}]
           T == [events : Nat, failed : BOOLEAN, snapshot : BOOLEAN, done : BOOLEAN]
<1>1. /\ job \in [Job -> J] /\ collections \in [Job -> S!Status] /\ runtime \in [Job -> T]
      /\ readable \in BOOLEAN /\ Knows(j)
  BY DEF CollectionInv, CollectionType
<1>2. readable' = readable
  BY DEF S!PullResolve, S!ScanCreate, S!Own, S!Answer, S!PullCreate, S!ScanResolve, S!Run,
     S!Invoked, S!InvokeFails, S!Snapshot, S!Error, S!Done, S!Break, S!Release, S!Write, S!Die
<1> SUFFICES /\ \E x \in J : job' = [job EXCEPT ![j] = x]
             /\ \E r \in S!Status : collections' = [collections EXCEPT ![j] = r]
             /\ \E t \in T : runtime' = [runtime EXCEPT ![j] = t]
             /\ Knows(j)'
  BY <1>2, OnlyOneMoves
<1> DEFINE Good == /\ \E x \in J : job' = [job EXCEPT ![j] = x]
                   /\ \E r \in S!Status : collections' = [collections EXCEPT ![j] = r]
                   /\ \E t \in T : runtime' = [runtime EXCEPT ![j] = t]
                   /\ Knows(j)'
<1>3. collections = [collections EXCEPT ![j] = collections[j]] /\ runtime = [runtime EXCEPT ![j] = runtime[j]]
  BY <1>1
<1>4. ASSUME NEW p \in Place, [job EXCEPT ![j].pc = p] = job'
      PROVE  /\ [job[j] EXCEPT !.pc = p] \in J /\ job' = [job EXCEPT ![j] = [job[j] EXCEPT !.pc = p]]
             /\ job'[j].pc = p /\ job'[j].heard = job[j].heard /\ job'[j].outcome = job[j].outcome
  BY <1>1, <1>4
<1>5. CASE S!PullResolve(j)
  <2>1. job' = [job EXCEPT ![j].pc = "resolved"] /\ job[j].pc = "idle" /\ UNCHANGED <<collections, runtime>>
    BY <1>5 DEF S!PullResolve, S!Moves
  <2> QED BY <1>1, <1>3, <1>4, <2>1 DEF Knows, ReallyComplete, Place
<1>6. CASE S!PullCreate(j)
  <2>1. /\ job' = [job EXCEPT ![j].pc = "ready"] /\ job[j].pc = "resolved" /\ UNCHANGED runtime
        /\ collections' = [collections EXCEPT ![j] = "queued"]
    BY <1>6 DEF S!PullCreate, S!Moves
  <2> QED BY <1>1, <1>3, <1>4, <2>1 DEF Knows, ReallyComplete, Place, S!Status
<1>7. CASE S!ScanCreate(j)
  <2>1. /\ job' = [job EXCEPT ![j].pc = "created"] /\ job[j].pc = "idle" /\ UNCHANGED runtime
        /\ collections' = [collections EXCEPT ![j] = "queued"]
    BY <1>7 DEF S!ScanCreate, S!Moves
  <2> QED BY <1>1, <1>3, <1>4, <2>1 DEF Knows, ReallyComplete, Place, S!Status
<1>8. CASE S!ScanResolve(j)
  <2>1. PICK p \in {"ready", "refused"} :
          /\ job' = [job EXCEPT ![j].pc = p] /\ job[j].pc = "created" /\ UNCHANGED <<collections, runtime>>
    BY <1>8 DEF S!ScanResolve, S!Moves
  <2> QED BY <1>1, <1>3, <1>4, <2>1 DEF Knows, ReallyComplete, Place
<1>9. CASE S!Run(j)
  <2>1. /\ job' = [job EXCEPT ![j].pc = "invoking"] /\ job[j].pc = "ready" /\ UNCHANGED runtime
        /\ collections' = [collections EXCEPT ![j] = "running"]
    BY <1>9 DEF S!Run, S!Moves
  <2> QED BY <1>1, <1>3, <1>4, <2>1 DEF Knows, ReallyComplete, Place, S!Status
<1>10. CASE S!Invoked(j)
  <2>1. /\ job' = [job EXCEPT ![j].pc = "reading"] /\ job[j].pc = "invoking"
        /\ UNCHANGED <<collections, runtime>>
    BY <1>10 DEF S!Invoked, S!Moves
  <2>2. ~S!NotRun.failed /\ ~S!Unheard.snapshot /\ runtime[j] = S!NotRun /\ job[j].heard = S!Unheard
    BY <1>1, <2>1 DEF Knows, S!NotRun, S!Unheard
  <2>3. Knows(j)'
    BY <1>1, <1>4, <2>1, <2>2 DEF Knows, Place
  <2>4. \E x \in J : job' = [job EXCEPT ![j] = x]
    BY <1>4, <2>1 DEF Place
  <2> HIDE DEF J, T
  <2> QED BY <1>1, <1>3, <2>1, <2>3, <2>4
<1>11. CASE S!InvokeFails(j)
  <2>1. job[j] \in J /\ job[j].pc = "invoking" /\ UNCHANGED <<collections, runtime>>
    BY <1>1, <1>11 DEF S!InvokeFails
  <2> DEFINE x == S!Ends(j, "writing", "failed")
  <2>2. x \in J /\ x.pc = "writing" /\ x.outcome = "failed"
    BY <2>1 DEF S!Ends, Place
  <2>3. job' = [job EXCEPT ![j] = x]
    BY <1>11 DEF S!InvokeFails
  <2> HIDE DEF x
  <2>4. Knows(j)'
    BY <1>1, <2>1, <2>2, <2>3 DEF Knows
  <2> QED BY <1>1, <1>3, <2>1, <2>2, <2>3, <2>4
<1>12. CASE S!Snapshot(j)
  <2>1. job[j] \in J /\ runtime[j] \in T /\ job[j].pc = "reading"
    BY <1>1, <1>12 DEF S!Snapshot, S!Reading
  <2> DEFINE h == [job[j].heard EXCEPT !.snapshot = TRUE]
             x == [job[j] EXCEPT !.heard = h]
             t == [runtime[j] EXCEPT !.events = runtime[j].events + 1, !.snapshot = TRUE]
  <2>2. h \in Heard /\ h.error = job[j].heard.error
    BY <2>1 DEF Heard
  <2>3. x \in J /\ x.pc = "reading" /\ x.heard = h
    BY <2>1, <2>2
  <2>4. t \in T /\ t.snapshot /\ t.failed = runtime[j].failed
    <3>1. runtime[j].events + 1 \in Nat
      BY <2>1
    <3> QED BY <2>1, <3>1, OneMoreEvent, Zenon
  <2>5. job' = [job EXCEPT ![j] = x] /\ runtime' = [runtime EXCEPT ![j] = t] /\ UNCHANGED collections
    <3>1. job' = [job EXCEPT ![j] = x] /\ UNCHANGED collections
      BY <1>1, <1>12 DEF S!Snapshot
    <3>2. runtime' = [runtime EXCEPT ![j] = t]
      BY <1>1, <1>12 DEF S!Snapshot
    <3> QED BY <3>1, <3>2
  <2> HIDE DEF h, x, t
  <2>6. job'[j] = x /\ runtime'[j] = t /\ collections'[j] = collections[j]
    BY <1>1, <2>5
  <2>7. Knows(j)'
    BY <1>1, <2>1, <2>2, <2>3, <2>4, <2>6 DEF Knows
  <2> QED BY <1>1, <1>3, <2>3, <2>4, <2>5, <2>7
<1>13. CASE S!Error(j)
  <2>1. job[j] \in J /\ runtime[j] \in T /\ job[j].pc = "reading"
    BY <1>1, <1>13 DEF S!Error, S!Reading
  <2>2. PICK terminal \in BOOLEAN :
          /\ runtime' = [runtime EXCEPT ![j].events = @ + 1, ![j].failed = @ \/ terminal]
          /\ job' = [job EXCEPT ![j].heard.error = @ \/ terminal \/ j \in Scan]
    BY <1>13 DEF S!Error
  <2> DEFINE e == job[j].heard.error \/ terminal \/ j \in Scan
             f == runtime[j].failed \/ terminal
             h == [job[j].heard EXCEPT !.error = e]
             x == [job[j] EXCEPT !.heard = h]
             t == [runtime[j] EXCEPT !.events = runtime[j].events + 1, !.failed = f]
  <2>3. e \in BOOLEAN /\ f \in BOOLEAN
    BY <2>1 DEF Heard
  <2>4. job' = [job EXCEPT ![j] = x] /\ runtime' = [runtime EXCEPT ![j] = t] /\ UNCHANGED collections
    <3>1. job' = [job EXCEPT ![j] = x] /\ UNCHANGED collections
      BY <1>1, <1>13, <2>2 DEF S!Error
    <3>2. runtime' = [runtime EXCEPT ![j] = t]
      BY <1>1, <2>2
    <3> QED BY <3>1, <3>2
  <2>6. (job[j].heard.error => e) /\ (f => e \/ runtime[j].failed)
    OBVIOUS
  <2> HIDE DEF e, f
  <2>7. h \in Heard /\ h.error = e /\ h.snapshot = job[j].heard.snapshot
    BY <2>1, <2>3 DEF Heard
  <2> HIDE DEF h
  <2>8. x \in J /\ x.pc = "reading" /\ x.heard = h
    BY <2>1, <2>7
  <2>9. t \in T /\ t.failed = f /\ t.snapshot = runtime[j].snapshot
    <3>1. runtime[j].events + 1 \in Nat
      BY <2>1
    <3> QED BY <2>1, <2>3, <3>1, OneMoreEvent, Zenon
  <2> HIDE DEF x, t
  <2>10. job'[j] = x /\ runtime'[j] = t /\ collections'[j] = collections[j]
    BY <1>1, <2>4
  <2>11. Knows(j)'
    BY <1>1, <2>1, <2>6, <2>7, <2>8, <2>9, <2>10 DEF Knows
  <2> QED BY <1>1, <1>3, <2>4, <2>8, <2>9, <2>11
<1>14. CASE S!Done(j)
  <2>1. job[j] \in J /\ runtime[j] \in T /\ job[j].pc = "reading" /\ S!Judge(j) \in {"complete", "failed"}
    BY <1>1, <1>14 DEF S!Done, S!Reading, S!Judge
  <2> DEFINE x == S!Ends(j, "releasing", S!Judge(j))
             t == [runtime[j] EXCEPT !.done = TRUE]
  <2>2. x \in J /\ x.pc = "releasing" /\ x.outcome = S!Judge(j)
    BY <2>1 DEF S!Ends, Place
  <2>3. t \in T /\ t.done /\ t.failed = runtime[j].failed /\ t.snapshot = runtime[j].snapshot
    BY <2>1
  <2>4. job' = [job EXCEPT ![j] = x] /\ runtime' = [runtime EXCEPT ![j] = t] /\ UNCHANGED collections
    BY <1>1, <1>14 DEF S!Done
  <2> HIDE DEF x, t
  <2>5. job'[j] = x /\ runtime'[j] = t /\ collections'[j] = collections[j]
    BY <1>1, <2>4
  <2>6. S!Judge(j) = "complete" => ~runtime[j].failed /\ (j \in Scan \/ runtime[j].snapshot)
    BY <1>1, <2>1 DEF Knows, S!Judge
  <2>7. Knows(j)'
    BY <1>1, <2>1, <2>2, <2>3, <2>5, <2>6 DEF Knows, ReallyComplete
  <2> QED BY <1>1, <1>3, <2>2, <2>3, <2>4, <2>7
<1>15. CASE S!Break(j)
  <2>1. job[j] \in J /\ job[j].pc = "reading" /\ UNCHANGED <<collections, runtime>>
    BY <1>1, <1>15 DEF S!Break
  <2> DEFINE x == S!Ends(j, "releasing", "failed")
  <2>2. x \in J /\ x.pc = "releasing" /\ x.outcome = "failed"
    BY <2>1 DEF S!Ends, Place
  <2>3. job' = [job EXCEPT ![j] = x]
    BY <1>15 DEF S!Break
  <2> HIDE DEF x
  <2>4. Knows(j)'
    BY <1>1, <2>1, <2>2, <2>3 DEF Knows
  <2> QED BY <1>1, <1>3, <2>1, <2>2, <2>3, <2>4
<1>16. CASE S!Release(j)
  <2>1. /\ job' = [job EXCEPT ![j].pc = "writing"] /\ job[j].pc = "releasing"
        /\ UNCHANGED <<collections, runtime>>
    BY <1>16 DEF S!Release, S!Moves
  <2> QED BY <1>1, <1>3, <1>4, <2>1 DEF Knows, ReallyComplete, Place
<1>17. CASE S!Write(j)
  <2>1. /\ job' = [job EXCEPT ![j].pc = "over"] /\ job[j].pc = "writing" /\ UNCHANGED runtime
        /\ collections' = [collections EXCEPT ![j] = job[j].outcome]
    BY <1>17 DEF S!Write, S!Moves
  <2>2. job[j].outcome \in {"complete", "failed"} /\ (job[j].outcome = "complete" => ReallyComplete(j))
    BY <1>1, <2>1 DEF Knows
  <2> QED BY <1>1, <1>3, <1>4, <2>1, <2>2 DEF Knows, ReallyComplete, Place, S!Status
<1>18. CASE S!Die(j)
  <2>1. /\ job' = [job EXCEPT ![j].pc = "dead"] /\ job[j].pc \notin {"over"}
        /\ UNCHANGED <<collections, runtime>>
    BY <1>18 DEF S!Die
  <2> QED BY <1>1, <1>3, <1>4, <2>1 DEF Knows, ReallyComplete, Place
<1> QED
  BY <1>5, <1>6, <1>7, <1>8, <1>9, <1>10, <1>11, <1>12, <1>13, <1>14, <1>15, <1>16, <1>17, <1>18
     DEF S!Own, S!Answer

\* The invariant of the collections.
THEOREM CollectionInvariance == ASSUME S!ConstantsFit PROVE S!Spec => []CollectionInv
<1>1. CollectionInv /\ [S!Next]_(S!vars) => CollectionInv'
  <2> SUFFICES ASSUME CollectionInv, [S!Next]_(S!vars) PROVE CollectionInv'
    OBVIOUS
  <2>1. CASE S!Rotate
    BY <2>1 DEF S!Rotate, CollectionInv, CollectionType, Knows, ReallyComplete
  <2>2. CASE \E j \in Job : S!PullResolve(j) \/ S!ScanCreate(j) \/ S!Own(j) \/ S!Answer(j) \/ S!Die(j)
    BY <2>2, CollectionStep
  <2>3. CASE UNCHANGED S!vars
    BY <2>3 DEF S!vars, CollectionInv, CollectionType, Knows, ReallyComplete
  <2> QED BY <2>1, <2>2, <2>3 DEF S!Next
<1> QED BY <1>1, CollectionInit, PTL DEF S!Spec

\* A scan or a live pull reads "complete" only when the runtime was, whatever breaks, dies or
\* is rotated meanwhile.
THEOREM CompleteOnlyWhenDone == ASSUME S!ConstantsFit PROVE S!Spec => []CompleteIsTrue
<1>1. ASSUME CollectionInv PROVE CompleteIsTrue
  BY <1>1 DEF CollectionInv, CollectionType, Knows, ReallyComplete, S!TypeOK, S!CompleteIsTrue, CompleteIsTrue
<1> QED BY <1>1, CollectionInvariance, PTL
================================================================================
