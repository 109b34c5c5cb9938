------------------------------- MODULE AgentProofs ------------------------------
(***************************************************************************)
(* Parts of the agent, for any number of calls, events and resources: the  *)
(* credential an invocation's calls share, the heartbeat merge, the calls  *)
(* to CloudWatch, the batches to Azure and what becomes of one metric, the *)
(* days a run is about and the earlier runs a trend plots.                 *)
(* They share no state, so each has its variables, its invariant and its   *)
(* theorems, one section after the other.                                  *)
(***************************************************************************)
EXTENDS Credential, Agent, FiniteSetTheorems, SequenceTheorems, WellFoundedInduction, TLAPS

-------------------------------------------------------------------------------
(***************************************************************************)
(* The credential: one acquisition of an audience at a time and none that  *)
(* finds its token there; and when there is a worker more than there are   *)
(* calls on workers, no call waits for ever.                               *)
(***************************************************************************)

\* The queue holds the members of S, each once.
Lists(q, S) ==
  /\ \A i, j \in 1..Len(q) : q[i] = q[j] => i = j
  /\ \A i \in 1..Len(q) : q[i] \in S
  /\ \A e \in S : \E i \in 1..Len(q) : q[i] = e

LEMMA ListsAppend ==
  ASSUME NEW T, NEW q \in Seq(T), NEW S, Lists(q, S), NEW e \in T, e \notin S
  PROVE  Lists(Append(q, e), S \cup {e})
<1> DEFINE p == Append(q, e)
<1>1. /\ Len(q) \in Nat /\ Len(p) = Len(q) + 1 /\ p[Len(q) + 1] = e
      /\ \A i \in 1..Len(q) : p[i] = q[i]
  BY AppendProperties, LenProperties
<1>2. \A i \in 1..Len(p) : i \in 1..Len(q) \/ i = Len(q) + 1
  BY <1>1
<1>3. 1..Len(q) \subseteq 1..Len(p) /\ Len(q) + 1 \in 1..Len(p)
  BY <1>1
<1> HIDE DEF p
<1>4. \A i, j \in 1..Len(p) : p[i] = p[j] => i = j
  BY <1>1, <1>2 DEF Lists
<1>5. \A i \in 1..Len(p) : p[i] \in S \cup {e}
  BY <1>1, <1>2 DEF Lists
<1>6. \A x \in S \cup {e} : \E i \in 1..Len(p) : p[i] = x
  BY <1>1, <1>3 DEF Lists
<1> QED BY <1>4, <1>5, <1>6 DEF Lists, p

LEMMA ListsTail ==
  ASSUME NEW T, NEW q \in Seq(T), q # <<>>, NEW S, Lists(q, S)
  PROVE  Head(q) \in S /\ Lists(Tail(q), S \ {Head(q)})
<1> DEFINE p == Tail(q)
<1>1. /\ Len(q) \in Nat \ {0} /\ Len(p) = Len(q) - 1 /\ q[1] = Head(q)
      /\ \A i \in 1..Len(p) : p[i] = q[i + 1]
  BY HeadTailProperties, EmptySeq
<1>2. /\ 1 \in 1..Len(q) /\ \A i \in 1..Len(p) : i + 1 \in 1..Len(q) /\ i + 1 # 1
      /\ \A i \in 1..Len(q) : i # 1 => i - 1 \in 1..Len(p) /\ p[i - 1] = q[i]
  BY <1>1
<1> HIDE DEF p
<1>3. \A i, j \in 1..Len(p) : p[i] = p[j] => i = j
  <2> SUFFICES ASSUME NEW i \in 1..Len(p), NEW j \in 1..Len(p), p[i] = p[j] PROVE i = j
    OBVIOUS
  <2>1. i + 1 = j + 1
    BY <1>1, <1>2 DEF Lists
  <2> QED BY <2>1
<1>4. \A i \in 1..Len(p) : p[i] \in S \ {Head(q)}
  BY <1>1, <1>2 DEF Lists
<1>5. \A x \in S \ {Head(q)} : \E i \in 1..Len(p) : p[i] = x
  BY <1>1, <1>2 DEF Lists
<1> QED BY <1>1, <1>2, <1>3, <1>4, <1>5 DEF Lists, p

-------------------------------------------------------------------------------
OneHolder == \A s \in Scope : \A t, u \in Holder(s) : t = u

\* Whoever asks for a token to share found none, and only it can leave one.
Asked == \A t \in Thread : Stage(t) = "requesting" => ~Cached(ScopeOf[t[1]])

Queued == {t \in Thread : Stage(t) = "queued"}

AtLock(s) == {c \in Call : ScopeOf[c] = s /\ call[c] \in {"locked", "awaiting"}}

\* The executor's queue holds what has not begun; a lock's queue the calls at it, and
\* one that awaits its acquisition is its holder.
Queues ==
  /\ Lists(jobs, Queued)
  /\ \A s \in Scope : Lists(lockQueue[s], AtLock(s))
  /\ \A c \in Call : call[c] = "awaiting" => Head(lockQueue[ScopeOf[c]]) = c
  /\ \A c \in Call : call[c] = "awaiting" <=> acquiring[c] # "off"

CrInv == TypeOK /\ OneHolder /\ Asked /\ Queues

CallStage ==
  Ended \cup {"queued", "checking", "submitted", "locked", "awaiting", "blocking",
    "requesting", "sending", "challenged", "renewing", "resending"}
AcquireStage == {"off", "queued", "blocking", "requesting", "got", "refused"}

LEMMA ThreadFacts ==
  /\ \A t \in Thread : t[1] \in Call /\ ScopeOf[t[1]] \in Scope /\ t[2] \in {"call", "acquire"}
  /\ \A t \in Thread : t = <<t[1], t[2]>>
  /\ \A c \in Call : <<c, "call">> \in Thread /\ <<c, "acquire">> \in Thread
  BY CredentialAssumption DEF Thread

LEMMA BusyFinite ==
  IsFiniteSet(Thread) /\ IsFiniteSet(Busy) /\ IsFiniteSet(Busy')
<1>1. IsFiniteSet({"call", "acquire"})
  <2>1. IsFiniteSet({"call"} \cup {"acquire"})
    BY FS_Singleton, FS_AddElement
  <2>2. {"call"} \cup {"acquire"} = {"call", "acquire"}
    OBVIOUS
  <2> QED BY <2>1, <2>2
<1>2. IsFiniteSet(Thread)
  BY <1>1, CredentialAssumption, FS_Product DEF Thread
<1> QED BY <1>2, FS_Subset, Busy \subseteq Thread, Busy' \subseteq Thread DEF Busy

\* A step that starts no thread keeps their number.
LEMMA BusyShrinks ==
  ASSUME Cardinality(Busy) <= Workers, Busy' \subseteq Busy
  PROVE  Cardinality(Busy)' <= Workers
<1>1. Cardinality(Busy') <= Cardinality(Busy)
  BY BusyFinite, FS_Subset
<1>2. Cardinality(Busy') \in Nat /\ Cardinality(Busy) \in Nat
  BY BusyFinite, FS_CardinalityType
<1> QED BY <1>1, <1>2, CredentialAssumption

LEMMA MovesMeans ==
  ASSUME TypeOK, NEW t \in Thread, NEW stage, Moves(t, stage)
  PROVE  /\ Stage(t)' = stage
         /\ \A u \in Thread : u # t => Stage(u)' = Stage(u)
         /\ t[2] = "call" => acquiring' = acquiring /\ call' = [call EXCEPT ![t[1]] = stage]
         /\ t[2] = "acquire" => call' = call /\ acquiring' = [acquiring EXCEPT ![t[1]] = stage]
<1>1. \A u \in Thread : u # t => u[1] # t[1] \/ u[2] # t[2]
  BY ThreadFacts
<1> QED BY <1>1, ThreadFacts DEF Moves, Stage, TypeOK

\* A step of one thread that neither leaves nor joins a queue.
LEMMA QuietMove ==
  ASSUME CrInv, NEW t \in Thread, NEW stage, Moves(t, stage), UNCHANGED <<loop, lockQueue, jobs>>,
         stage \in IF t[2] = "call" THEN CallStage ELSE AcquireStage,
         Stage(t) \notin Ended \cup {"queued", "locked", "awaiting", "off"},
         stage \notin {"queued", "locked", "awaiting", "off"},
         t[2] = "acquire" => Stage(t) \in {"blocking", "requesting"},
         stage \in {"requesting", "renewing"} => Holder(ScopeOf[t[1]]) = {},
         stage = "requesting" => ~Cached(ScopeOf[t[1]]),
         tokens' \in [Scope -> {"none", "fresh", "stale"}],
         \A s \in Scope : tokens'[s] = "fresh" =>
           \/ tokens[s] = "fresh"
           \/ s = ScopeOf[t[1]] /\ Stage(t) = "requesting" /\ stage # "requesting"
  PROVE  CrInv'
<1>0. TypeOK
  BY DEF CrInv
<1>1. /\ Stage(t)' = stage
      /\ \A u \in Thread : u # t => Stage(u)' = Stage(u)
      /\ t[2] = "call" => acquiring' = acquiring /\ call' = [call EXCEPT ![t[1]] = stage]
      /\ t[2] = "acquire" => call' = call /\ acquiring' = [acquiring EXCEPT ![t[1]] = stage]
  BY <1>0, MovesMeans
<1>2. TypeOK'
  <2>1. Busy' \subseteq Busy
    BY <1>0, <1>1, ThreadFacts DEF Busy, Stage, TypeOK, Ended
  <2>2. Cardinality(Busy)' <= Workers
    BY <1>0, <2>1, BusyShrinks DEF TypeOK
  <2>3. call' \in [Call -> CallStage] /\ acquiring' \in [Call -> AcquireStage]
    <3>1. call \in [Call -> CallStage] /\ acquiring \in [Call -> AcquireStage]
      BY <1>0 DEF TypeOK, CallStage, AcquireStage
    <3>2. t[1] \in Call /\ t[2] \in {"call", "acquire"}
      BY ThreadFacts
    <3> QED BY <1>1, <3>1, <3>2
  <2> QED BY <1>0, <2>2, <2>3 DEF TypeOK, CallStage, AcquireStage
<1>3. OneHolder'
  <2> SUFFICES ASSUME NEW s \in Scope, NEW u \in Holder(s)', NEW v \in Holder(s)'
               PROVE  u = v
    BY DEF OneHolder
  <2>1. u \in Thread /\ v \in Thread
    BY DEF Holder
  <2>2. \A w \in Holder(s)' : w # t => w \in Holder(s)
    BY <1>1 DEF Holder
  <2>3. t \in Holder(s)' => t \in Holder(s) \/ Holder(s) = {}
    BY <1>1 DEF Holder
  <2> QED BY <2>1, <2>2, <2>3 DEF CrInv, OneHolder
<1>4. Asked'
  <2> SUFFICES ASSUME NEW u \in Thread, Stage(u)' = "requesting", Cached(ScopeOf[u[1]])'
               PROVE  FALSE
    BY DEF Asked
  <2> DEFINE s == ScopeOf[u[1]]
  <2>1. s \in Scope /\ tokens'[s] = "fresh"
    BY ThreadFacts DEF Cached
  <2>2. CASE u = t
    BY <1>1, <2>1, <2>2 DEF Cached
  <2>3. CASE u # t
    <3>1. Stage(u) = "requesting" /\ tokens[s] # "fresh"
      BY <1>1, <2>3 DEF CrInv, Asked, Cached
    <3>2. s = ScopeOf[t[1]] /\ Stage(t) = "requesting"
      BY <2>1, <3>1
    <3>3. u \in Holder(s) /\ t \in Holder(s)
      BY <3>1, <3>2 DEF Holder
    <3> QED BY <2>1, <2>3, <3>3 DEF CrInv, OneHolder
  <2> QED BY <2>2, <2>3
<1>5. Queues'
  <2>1. Queued' = Queued
    BY <1>1 DEF Queued
  <2>2. \A c \in Call : /\ call'[c] \in {"locked", "awaiting"} <=> call[c] \in {"locked", "awaiting"}
                        /\ call'[c] = "awaiting" <=> call[c] = "awaiting"
                        /\ acquiring'[c] # "off" <=> acquiring[c] # "off"
    BY <1>0, <1>1, ThreadFacts DEF TypeOK, Stage
  <2>3. \A s \in Scope : AtLock(s)' = AtLock(s)
    BY <2>2 DEF AtLock
  <2> QED BY <2>1, <2>2, <2>3 DEF CrInv, Queues
<1> QED BY <1>2, <1>3, <1>4, <1>5 DEF CrInv

LEMMA StartInv == ASSUME CrInv, Start PROVE CrInv'
<1>0. TypeOK
  BY DEF CrInv
<1>1. PICK t \in Thread :
        /\ t = Head(jobs) /\ jobs # <<>> /\ Tail(jobs) \in Seq(Thread)
        /\ Stage(t) = "queued" /\ Lists(jobs', Queued \ {t})
  <2>1. jobs # <<>> /\ jobs \in Seq(Thread) /\ Lists(jobs, Queued)
    BY DEF Start, CrInv, TypeOK, Queues
  <2>2. jobs' = Tail(jobs)
    BY DEF Start
  <2>3. Head(jobs) \in Queued /\ Lists(Tail(jobs), Queued \ {Head(jobs)})
    BY <2>1, ListsTail
  <2> QED BY <2>1, <2>2, <2>3, HeadTailProperties DEF Queued
<1> DEFINE stage == IF t[2] = "call" THEN "checking" ELSE "blocking"
<1>2. Moves(t, stage)
  BY <1>1 DEF Start
<1>3. /\ Stage(t)' = stage
      /\ \A u \in Thread : u # t => Stage(u)' = Stage(u)
      /\ t[2] = "call" => acquiring' = acquiring /\ call' = [call EXCEPT ![t[1]] = stage]
      /\ t[2] = "acquire" => call' = call /\ acquiring' = [acquiring EXCEPT ![t[1]] = stage]
  BY <1>0, <1>2, MovesMeans
<1>4. tokens' = tokens /\ lockQueue' = lockQueue /\ loop' = loop /\ jobs' = Tail(jobs)
      /\ Cardinality(Busy) < Workers
  BY DEF Start
<1>5. stage \notin {"queued", "requesting", "renewing", "off", "locked", "awaiting"}
  OBVIOUS
<1>6. t[1] \in Call /\ t[2] \in {"call", "acquire"}
  BY <1>1, ThreadFacts
<1>7. TypeOK'
  <2>1. Busy' \subseteq Busy \cup {t}
    BY <1>0, <1>1, <1>3, ThreadFacts DEF Busy, Stage
  <2>2. Cardinality(Busy') <= Workers
    <3>1. Cardinality(Busy \cup {t}) <= Cardinality(Busy) + 1 /\ IsFiniteSet(Busy \cup {t})
      <4>1. Cardinality(Busy) \in Nat
        BY BusyFinite, FS_CardinalityType
      <4>2. /\ IsFiniteSet(Busy \cup {t})
            /\ Cardinality(Busy \cup {t}) =
                 IF t \in Busy THEN Cardinality(Busy) ELSE Cardinality(Busy) + 1
        BY BusyFinite, FS_AddElement, Zenon
      <4> QED BY <4>1, <4>2
    <3>2. Cardinality(Busy') <= Cardinality(Busy \cup {t})
      BY <2>1, <3>1, FS_Subset
    <3>3. /\ Cardinality(Busy') \in Nat /\ Cardinality(Busy) \in Nat
          /\ Cardinality(Busy \cup {t}) \in Nat
      BY <3>1, BusyFinite, FS_CardinalityType
    <3> QED BY <1>4, <3>1, <3>2, <3>3, CredentialAssumption
  <2>3. call' \in [Call -> CallStage] /\ acquiring' \in [Call -> AcquireStage]
    <3>1. call \in [Call -> CallStage] /\ acquiring \in [Call -> AcquireStage]
      BY <1>0 DEF TypeOK, CallStage, AcquireStage
    <3>2. t[2] = "call" => stage \in CallStage
      BY DEF CallStage
    <3>3. t[2] = "acquire" => stage \in AcquireStage
      BY DEF AcquireStage
    <3> HIDE DEF stage
    <3> QED BY <1>3, <1>6, <3>1, <3>2, <3>3
  <2> QED BY <1>0, <1>1, <1>4, <2>2, <2>3 DEF TypeOK, CallStage, AcquireStage
<1> HIDE DEF stage
<1>8. \A s \in Scope : Holder(s)' \subseteq Holder(s)
  BY <1>3, <1>5 DEF Holder
<1>9. OneHolder'
  BY <1>8 DEF CrInv, OneHolder
<1>10. Asked'
  BY <1>3, <1>4, <1>5 DEF CrInv, Asked, Cached
<1>11. Queues'
  <2>1. Queued' = Queued \ {t}
    BY <1>1, <1>3, <1>5 DEF Queued
  <2>2. \A c \in Call : /\ call'[c] \in {"locked", "awaiting"} <=> call[c] \in {"locked", "awaiting"}
                        /\ call'[c] = "awaiting" <=> call[c] = "awaiting"
                        /\ acquiring'[c] # "off" <=> acquiring[c] # "off"
    BY <1>0, <1>1, <1>3, <1>5, <1>6 DEF TypeOK, Stage
  <2>3. \A s \in Scope : AtLock(s)' = AtLock(s)
    BY <2>2 DEF AtLock
  <2> QED BY <1>1, <1>4, <2>1, <2>2, <2>3 DEF CrInv, Queues
<1> QED BY <1>7, <1>9, <1>10, <1>11 DEF CrInv

\* A step of no thread of the pool that leaves each of them where it is, or where
\* neither the pool nor a lock sees it.
LEMMA IssueInv == ASSUME CrInv, NEW c \in Call, Issue(c) PROVE CrInv'
<1>0. TypeOK /\ call[c] = "idle"
  BY DEF CrInv, Issue
<1>1. /\ UNCHANGED <<loop, tokens, acquiring, lockQueue>>
      /\ \/ call' = [call EXCEPT ![c] = "submitted"] /\ jobs' = jobs /\ c \in LoopCall
         \/ call' = [call EXCEPT ![c] = "queued"] /\ jobs' = Append(jobs, <<c, "call">>)
  BY DEF Issue
<1>2. /\ call'[c] \in {"submitted", "queued"}
      /\ \A d \in Call : d # c => call'[d] = call[d]
      /\ call' \in [Call -> CallStage]
  BY <1>0, <1>1 DEF TypeOK, CallStage
<1>3. \A t \in Thread : \/ Stage(t)' = Stage(t)
                        \/ t = <<c, "call">> /\ Stage(t) = "idle" /\ Stage(t)' \in {"submitted", "queued"}
  BY <1>0, <1>1, <1>2, ThreadFacts DEF Stage
<1>4. TypeOK'
  <2>1. Busy' \subseteq Busy
    BY <1>1, <1>2, <1>0, ThreadFacts DEF Busy, Ended, TypeOK
  <2>2. jobs' \in Seq(Thread)
    <3>1. jobs \in Seq(Thread) /\ <<c, "call">> \in Thread
      BY <1>0, ThreadFacts DEF TypeOK
    <3>2. Append(jobs, <<c, "call">>) \in Seq(Thread)
      BY <3>1, AppendProperties
    <3> QED BY <1>1, <3>1, <3>2
  <2>3. Cardinality(Busy)' <= Workers
    BY <1>0, <2>1, BusyShrinks DEF TypeOK
  <2> QED BY <1>0, <1>1, <1>2, <2>2, <2>3 DEF TypeOK, CallStage
<1>5. OneHolder' /\ Asked'
  <2>1. \A s \in Scope : Holder(s)' = Holder(s)
    BY <1>3 DEF Holder
  <2> QED BY <1>1, <1>3, <2>1 DEF CrInv, OneHolder, Asked, Cached
<1>6. Queues'
  <2>1. Lists(jobs', Queued')
    <3>1. CASE call'[c] = "submitted"
      <4>1. Queued' = Queued /\ jobs' = jobs
        BY <1>0, <1>1, <1>2, <1>3, <3>1, ThreadFacts DEF Queued, Stage, TypeOK
      <4> QED BY <4>1 DEF CrInv, Queues
    <3>2. CASE call'[c] = "queued"
      <4>1. /\ Queued' = Queued \cup {<<c, "call">>} /\ <<c, "call">> \notin Queued
            /\ jobs' = Append(jobs, <<c, "call">>)
        <5>1. <<c, "call">> \in Thread /\ Stage(<<c, "call">>) = "idle" /\ Stage(<<c, "call">>)' = "queued"
          BY <1>0, <3>2, ThreadFacts DEF Stage
        <5>2. jobs' = Append(jobs, <<c, "call">>)
          BY <1>0, <1>1, <3>2 DEF TypeOK
        <5> QED BY <1>3, <5>1, <5>2 DEF Queued
      <4>2. jobs \in Seq(Thread) /\ Lists(jobs, Queued)
        BY <1>0 DEF TypeOK, CrInv, Queues
      <4> QED BY <4>1, <4>2, ListsAppend, ThreadFacts
    <3> QED BY <1>2, <3>1, <3>2
  <2>2. \A s \in Scope : AtLock(s)' = AtLock(s)
    BY <1>0, <1>2 DEF AtLock
  <2> QED BY <1>0, <1>1, <1>2, <2>1, <2>2 DEF CrInv, Queues
<1> QED BY <1>4, <1>5, <1>6 DEF CrInv

LEMMA ExpireInv == ASSUME CrInv, NEW s \in Scope, Expire(s) PROVE CrInv'
<1>1. /\ tokens' = [tokens EXCEPT ![s] = "stale"]
      /\ UNCHANGED <<loop, call, acquiring, lockQueue, jobs>>
  BY DEF Expire
<1>2. /\ \A t \in Thread : Stage(t)' = Stage(t)
      /\ Busy' = Busy
  BY <1>1 DEF Stage, Busy
<1>3. TypeOK'
  BY <1>1, <1>2 DEF CrInv, TypeOK
<1>4. OneHolder'
  <2>1. \A z \in Scope : Holder(z)' = Holder(z)
    BY <1>2 DEF Holder
  <2> QED BY <2>1 DEF CrInv, OneHolder
<1>5. Asked'
  <2>1. \A z \in Scope : tokens'[z] = "fresh" => tokens[z] = "fresh"
    BY <1>1 DEF CrInv, TypeOK
  <2> QED BY <1>2, <2>1, ThreadFacts DEF CrInv, Asked, Cached
<1>6. Queues'
  <2>1. Queued' = Queued /\ \A z \in Scope : AtLock(z)' = AtLock(z)
    BY <1>1, <1>2 DEF Queued, AtLock
  <2> QED BY <1>1, <2>1 DEF CrInv, Queues
<1> QED BY <1>3, <1>4, <1>5, <1>6 DEF CrInv

\* The call that arrives at a lock comes last.
LEMMA EnterLockInv == ASSUME CrInv, NEW c \in Call, EnterLock(c) PROVE CrInv'
<1>0. TypeOK /\ call[c] = "submitted" /\ ScopeOf[c] \in Scope
  BY CredentialAssumption DEF CrInv, EnterLock
<1>1. CASE Cached(ScopeOf[c])
  <2>1. /\ Moves(<<c, "call">>, Answered(c)) /\ UNCHANGED <<loop, tokens, lockQueue, jobs>>
        /\ <<c, "call">> \in Thread /\ Stage(<<c, "call">>) = "submitted"
    BY <1>0, <1>1, ThreadFacts DEF EnterLock, Moves, Stage
  <2>2. Answered(c) \in {"done", "sending"}
    BY DEF Answered
  <2> DEFINE stage == Answered(c)
             t == <<c, "call">>
  <2>3. stage \in CallStage /\ stage \notin {"queued", "locked", "awaiting", "off", "requesting", "renewing"}
    BY <2>2 DEF CallStage, Ended
  <2>4. t \in Thread /\ t[2] = "call" /\ Stage(t) = "submitted" /\ Moves(t, stage)
    BY <2>1
  <2> HIDE DEF stage, t
  <2> QED BY <1>0, <2>1, <2>3, <2>4, QuietMove DEF TypeOK, Ended
<1>2. CASE ~Cached(ScopeOf[c])
  <2>1. /\ call' = [call EXCEPT ![c] = "locked"]
        /\ lockQueue' = [lockQueue EXCEPT ![ScopeOf[c]] = Append(@, c)]
        /\ UNCHANGED <<loop, tokens, acquiring, jobs>>
    BY <1>2 DEF EnterLock
  <2>2. /\ call'[c] = "locked" /\ \A d \in Call : d # c => call'[d] = call[d]
        /\ call' \in [Call -> CallStage]
    BY <1>0, <2>1 DEF TypeOK, CallStage
  <2>3. \A t \in Thread : \/ Stage(t)' = Stage(t)
                          \/ t = <<c, "call">> /\ Stage(t) = "submitted" /\ Stage(t)' = "locked"
    BY <1>0, <2>1, <2>2, ThreadFacts DEF Stage
  <2>4. /\ lockQueue[ScopeOf[c]] \in Seq(Call)
        /\ Append(lockQueue[ScopeOf[c]], c) \in Seq(Call)
        /\ lockQueue'[ScopeOf[c]] = Append(lockQueue[ScopeOf[c]], c)
        /\ \A s \in Scope : s # ScopeOf[c] => lockQueue'[s] = lockQueue[s]
        /\ lockQueue' \in [Scope -> Seq(Call)]
    <3>1. lockQueue[ScopeOf[c]] \in Seq(Call) /\ lockQueue \in [Scope -> Seq(Call)]
      BY <1>0 DEF TypeOK
    <3>2. Append(lockQueue[ScopeOf[c]], c) \in Seq(Call)
      BY <3>1, AppendProperties
    <3> QED BY <1>0, <2>1, <3>1, <3>2
  <2>5. TypeOK'
    <3>1. Busy' \subseteq Busy
      BY <1>0, <2>1, <2>2, ThreadFacts DEF Busy, Ended
    <3>2. Cardinality(Busy)' <= Workers
      BY <1>0, <3>1, BusyShrinks DEF TypeOK
    <3> QED BY <1>0, <2>1, <2>2, <2>4, <3>2 DEF TypeOK, CallStage
  <2>6. OneHolder' /\ Asked'
    <3>1. \A s \in Scope : Holder(s)' = Holder(s)
      BY <2>3 DEF Holder
    <3> QED BY <2>1, <2>3, <3>1 DEF CrInv, OneHolder, Asked, Cached
  <2>7. Queues'
    <3>1. Queued' = Queued
      BY <2>3 DEF Queued
    <3>2. ASSUME NEW s \in Scope PROVE Lists(lockQueue'[s], AtLock(s)')
      <4>1. Lists(lockQueue[s], AtLock(s))
        BY DEF CrInv, Queues
      <4>2. CASE s = ScopeOf[c]
        <5>1. AtLock(s)' = AtLock(s) \cup {c} /\ c \notin AtLock(s)
          BY <1>0, <2>2, <4>2 DEF AtLock
        <5>2. lockQueue[s] \in Seq(Call) /\ lockQueue'[s] = Append(lockQueue[s], c)
          BY <2>4, <4>2
        <5>3. Lists(Append(lockQueue[s], c), AtLock(s) \cup {c})
          BY <4>1, <5>1, <5>2, ListsAppend
        <5> QED BY <5>1, <5>2, <5>3
      <4>3. CASE s # ScopeOf[c]
        <5>1. AtLock(s)' = AtLock(s)
          BY <2>2, <4>3 DEF AtLock
        <5> QED BY <2>4, <4>1, <4>3, <5>1
      <4> QED BY <4>2, <4>3
    <3>3. ASSUME NEW d \in Call, call'[d] = "awaiting" PROVE Head(lockQueue'[ScopeOf[d]]) = d
      <4>1. call[d] = "awaiting" /\ d # c /\ ScopeOf[d] \in Scope
        BY <2>2, <3>3, CredentialAssumption
      <4>2. Head(lockQueue[ScopeOf[d]]) = d /\ lockQueue[ScopeOf[d]] # <<>>
        <5>1. Lists(lockQueue[ScopeOf[d]], AtLock(ScopeOf[d])) /\ d \in AtLock(ScopeOf[d])
          BY <4>1 DEF CrInv, Queues, AtLock
        <5>2. lockQueue[ScopeOf[d]] # <<>>
          BY <5>1, EmptySeq DEF Lists
        <5> QED BY <4>1, <5>2 DEF CrInv, Queues
      <4>3. CASE ScopeOf[d] = ScopeOf[c]
        BY <2>4, <4>2, <4>3, HeadTailAppend
      <4> QED BY <2>4, <4>1, <4>2, <4>3
    <3>4. \A d \in Call : call'[d] = "awaiting" <=> call[d] = "awaiting"
      BY <1>0, <2>2
    <3> QED BY <2>1, <3>1, <3>2, <3>3, <3>4 DEF CrInv, Queues
  <2> QED BY <2>5, <2>6, <2>7 DEF CrInv
<1> QED BY <1>1, <1>2

\* The holder leaves the lock, and who is next is at its head.
LEMMA UnlockInv ==
  ASSUME CrInv, NEW c \in Call, NEW to \in {"done", "sending", "failed"},
         call[c] \in {"locked", "awaiting"}, acquiring[c] \in {"off", "got", "refused"},
         Head(lockQueue[ScopeOf[c]]) = c, Unlocks(ScopeOf[c]),
         call' = [call EXCEPT ![c] = to], acquiring' = [acquiring EXCEPT ![c] = "off"],
         UNCHANGED <<loop, tokens, jobs>>
  PROVE  CrInv'
<1>0. TypeOK /\ ScopeOf[c] \in Scope
  BY CredentialAssumption DEF CrInv
<1>1. /\ call'[c] = to /\ acquiring'[c] = "off"
      /\ \A d \in Call : d # c => call'[d] = call[d] /\ acquiring'[d] = acquiring[d]
      /\ call' \in [Call -> CallStage] /\ acquiring' \in [Call -> AcquireStage]
  BY <1>0 DEF TypeOK, CallStage, AcquireStage, Ended
<1>2. \A t \in Thread : \/ Stage(t)' = Stage(t)
                        \/ /\ Stage(t) \in {"locked", "awaiting", "off", "got", "refused"}
                           /\ Stage(t)' \in {to, "off"}
  BY <1>0, <1>1, ThreadFacts DEF Stage
<1> DEFINE z == ScopeOf[c]
           q == lockQueue[z]
<1>3. /\ q \in Seq(Call) /\ q # <<>> /\ Lists(q, AtLock(z))
      /\ Lists(Tail(q), AtLock(z) \ {c}) /\ Tail(q) \in Seq(Call)
  <2>1. q \in Seq(Call) /\ Lists(q, AtLock(z)) /\ c \in AtLock(z)
    BY <1>0 DEF TypeOK, CrInv, Queues, AtLock
  <2>2. q # <<>>
    BY <2>1, EmptySeq DEF Lists
  <2>3. Lists(Tail(q), AtLock(z) \ {Head(q)})
    BY <2>1, <2>2, ListsTail
  <2> QED BY <2>1, <2>2, <2>3, HeadTailProperties
<1>4. /\ lockQueue'[z] = Tail(q) /\ \A s \in Scope : s # z => lockQueue'[s] = lockQueue[s]
      /\ lockQueue' \in [Scope -> Seq(Call)]
  BY <1>0, <1>3 DEF Unlocks, TypeOK
<1>5. TypeOK'
  <2>1. Busy' \subseteq Busy
    BY <1>0, <1>1, ThreadFacts DEF Busy, Ended
  <2>2. Cardinality(Busy)' <= Workers
    BY <1>0, <2>1, BusyShrinks DEF TypeOK
  <2> QED BY <1>0, <1>1, <1>4, <2>2 DEF TypeOK, CallStage, AcquireStage
<1>6. OneHolder' /\ Asked'
  <2>1. \A s \in Scope : Holder(s)' = Holder(s)
    BY <1>2 DEF Holder
  <2> QED BY <1>2, <2>1 DEF CrInv, OneHolder, Asked, Cached
<1>7. Queues'
  <2>1. Queued' = Queued
    BY <1>2 DEF Queued
  <2>2. ASSUME NEW s \in Scope PROVE Lists(lockQueue'[s], AtLock(s)')
    <3>1. CASE s = z
      <4>1. AtLock(s)' = AtLock(s) \ {c}
        BY <1>1, <3>1 DEF AtLock
      <4> QED BY <1>3, <1>4, <3>1, <4>1
    <3>2. CASE s # z
      <4>1. AtLock(s)' = AtLock(s)
        BY <1>1, <3>2 DEF AtLock
      <4> QED BY <1>4, <3>2, <4>1 DEF CrInv, Queues
    <3> QED BY <3>1, <3>2
  <2>3. ASSUME NEW d \in Call, call'[d] = "awaiting" PROVE Head(lockQueue'[ScopeOf[d]]) = d
    <3>1. call[d] = "awaiting" /\ d # c /\ ScopeOf[d] \in Scope
      BY <1>1, <2>3, CredentialAssumption
    <3>2. Head(lockQueue[ScopeOf[d]]) = d
      BY <3>1 DEF CrInv, Queues
    <3> QED BY <1>4, <3>1, <3>2
  <2>4. \A d \in Call : call'[d] = "awaiting" <=> acquiring'[d] # "off"
    BY <1>1 DEF CrInv, Queues
  <2> QED BY <2>1, <2>2, <2>3, <2>4 DEF CrInv, Queues
<1> QED BY <1>5, <1>6, <1>7 DEF CrInv

LEMMA ResumeInv == ASSUME CrInv, NEW c \in Call, Resume(c) PROVE CrInv'
<1> DEFINE to == IF acquiring[c] = "got" THEN Answered(c) ELSE "failed"
<1>1. to \in {"done", "sending", "failed"}
  BY DEF Answered
<1>2. Head(lockQueue[ScopeOf[c]]) = c
  BY DEF CrInv, Queues, Resume
<1>3. call' = [call EXCEPT ![c] = to]
  BY DEF Resume
<1> HIDE DEF to
<1> QED BY <1>1, <1>2, <1>3, UnlockInv DEF Resume

LEMMA HoldLockInv == ASSUME CrInv, NEW c \in Call, HoldLock(c) PROVE CrInv'
<1>0. TypeOK /\ call[c] = "locked" /\ acquiring[c] = "off" /\ ScopeOf[c] \in Scope
      /\ Head(lockQueue[ScopeOf[c]]) = c
  BY CredentialAssumption DEF CrInv, HoldLock, Queues, TypeOK
<1>1. CASE Cached(ScopeOf[c])
  <2>1. Answered(c) \in {"done", "sending", "failed"}
    BY DEF Answered
  <2>2. acquiring' = [acquiring EXCEPT ![c] = "off"]
    BY <1>0, <1>1 DEF HoldLock, TypeOK
  <2>3. /\ call' = [call EXCEPT ![c] = Answered(c)] /\ Unlocks(ScopeOf[c])
        /\ UNCHANGED <<loop, tokens, jobs>>
    BY <1>1 DEF HoldLock
  <2> QED BY <1>0, <2>1, <2>2, <2>3, UnlockInv
<1>2. CASE ~Cached(ScopeOf[c])
  <2> DEFINE t == <<c, "acquire">>
  <2>1. /\ call' = [call EXCEPT ![c] = "awaiting"]
        /\ acquiring' = [acquiring EXCEPT ![c] = "queued"]
        /\ jobs' = Append(jobs, t)
        /\ UNCHANGED <<loop, tokens, lockQueue>>
    BY <1>2 DEF HoldLock
  <2>2. /\ call'[c] = "awaiting" /\ acquiring'[c] = "queued"
        /\ \A d \in Call : d # c => call'[d] = call[d] /\ acquiring'[d] = acquiring[d]
        /\ call' \in [Call -> CallStage] /\ acquiring' \in [Call -> AcquireStage]
    BY <1>0, <2>1 DEF TypeOK, CallStage, AcquireStage
  <2>3. /\ t \in Thread /\ Stage(t) = "off" /\ Stage(t)' = "queued"
        /\ \A u \in Thread : \/ u = t
                             \/ Stage(u)' = Stage(u)
                             \/ Stage(u) = "locked" /\ Stage(u)' = "awaiting"
    BY <1>0, <2>2, ThreadFacts DEF Stage
  <2>4. jobs \in Seq(Thread) /\ jobs' \in Seq(Thread) /\ Lists(jobs', Queued \cup {t})
    <3>1. jobs \in Seq(Thread) /\ Lists(jobs, Queued) /\ t \notin Queued
      BY <1>0, <2>3 DEF TypeOK, CrInv, Queues, Queued
    <3> HIDE DEF t
    <3> QED BY <2>1, <2>3, <3>1, AppendProperties, ListsAppend
  <2>5. TypeOK'
    <3>1. Busy' \subseteq Busy
      BY <1>0, <2>2, ThreadFacts DEF Busy, Ended
    <3>2. Cardinality(Busy)' <= Workers
      BY <1>0, <3>1, BusyShrinks DEF TypeOK
    <3> QED BY <1>0, <2>1, <2>2, <2>4, <3>2 DEF TypeOK, CallStage, AcquireStage
  <2>6. OneHolder' /\ Asked'
    <3>1. \A s \in Scope : Holder(s)' = Holder(s)
      BY <2>3 DEF Holder
    <3> QED BY <2>1, <2>3, <3>1 DEF CrInv, OneHolder, Asked, Cached
  <2>7. Queues'
    <3>1. Queued' = Queued \cup {t}
      BY <2>3 DEF Queued
    <3>2. \A s \in Scope : AtLock(s)' = AtLock(s)
      BY <1>0, <2>2 DEF AtLock
    <3>3. \A d \in Call : call'[d] = "awaiting" => Head(lockQueue'[ScopeOf[d]]) = d
      BY <1>0, <2>1, <2>2 DEF CrInv, Queues
    <3>4. \A d \in Call : call'[d] = "awaiting" <=> acquiring'[d] # "off"
      BY <2>2 DEF CrInv, Queues
    <3> QED BY <2>1, <2>4, <3>1, <3>2, <3>3, <3>4 DEF CrInv, Queues
  <2> QED BY <2>5, <2>6, <2>7 DEF CrInv
<1> QED BY <1>1, <1>2

-------------------------------------------------------------------------------
\* The steps of a call on its worker.
LEMMA CallInv ==
  ASSUME CrInv, NEW c \in Call, AcquireTokenSync(c) \/ Sent(c) \/ AcquireUncached(c) \/ Renewed(c)
  PROVE  CrInv'
<1> DEFINE t == <<c, "call">>
<1>1. PICK stage : call' = [call EXCEPT ![c] = stage]
                   /\ \/ /\ call[c] \in {"checking", "sending", "resending", "renewing"}
                         /\ stage \in {"sending", "submitted", "blocking", "done", "challenged",
                                       "resending", "failed"}
                      \/ /\ call[c] = "challenged" /\ stage = "renewing"
                         /\ Holder(ScopeOf[c]) = {}
  BY DEF AcquireTokenSync, Sent, AcquireUncached, Renewed
<1>2. UNCHANGED <<loop, tokens, acquiring, lockQueue, jobs>>
  BY DEF AcquireTokenSync, Sent, AcquireUncached, Renewed
<1>3. /\ t \in Thread /\ t[2] = "call" /\ t[1] = c /\ Stage(t) = call[c] /\ Moves(t, stage)
      /\ tokens \in [Scope -> {"none", "fresh", "stale"}]
  BY <1>1, <1>2, ThreadFacts DEF Stage, Moves, CrInv, TypeOK
<1>4. stage \in CallStage
  BY <1>1 DEF CallStage, Ended
<1> HIDE DEF t
<1> QED BY <1>1, <1>2, <1>3, <1>4, QuietMove DEF Ended

\* The steps of a thread that acquires.
LEMMA AcquireInv ==
  ASSUME CrInv, NEW t \in Thread, AcquireBlocking(t) \/ TokenGranted(t) \/ TokenRefused(t)
  PROVE  CrInv'
<1>0. /\ tokens \in [Scope -> {"none", "fresh", "stale"}]
      /\ t[2] \in {"call", "acquire"} /\ ScopeOf[t[1]] \in Scope
  BY ThreadFacts DEF CrInv, TypeOK
<1>1. CASE AcquireBlocking(t)
  <2> DEFINE stage == IF Cached(ScopeOf[t[1]]) THEN Got(t) ELSE "requesting"
  <2>1. /\ Moves(t, stage) /\ Stage(t) = "blocking" /\ Holder(ScopeOf[t[1]]) = {}
        /\ UNCHANGED <<loop, tokens, lockQueue, jobs>>
    BY <1>1 DEF AcquireBlocking
  <2>2. /\ stage \in IF t[2] = "call" THEN CallStage ELSE AcquireStage
        /\ stage \notin {"queued", "locked", "awaiting", "off"}
        /\ stage = "requesting" => ~Cached(ScopeOf[t[1]])
    BY DEF Got, CallStage, AcquireStage
  <2> HIDE DEF stage
  <2> QED BY <1>0, <2>1, <2>2, QuietMove DEF Ended
<1>2. CASE TokenGranted(t)
  <2> DEFINE stage == Got(t)
  <2>1. /\ Moves(t, stage) /\ Stage(t) = "requesting"
        /\ tokens' = [tokens EXCEPT ![ScopeOf[t[1]]] = "fresh"]
        /\ UNCHANGED <<loop, lockQueue, jobs>>
    BY <1>2 DEF TokenGranted
  <2>2. /\ stage \in IF t[2] = "call" THEN CallStage ELSE AcquireStage
        /\ stage \notin {"queued", "locked", "awaiting", "off", "requesting", "renewing"}
    BY DEF Got, CallStage, AcquireStage
  <2>3. /\ tokens' \in [Scope -> {"none", "fresh", "stale"}]
        /\ \A s \in Scope : tokens'[s] = "fresh" => tokens[s] = "fresh" \/ s = ScopeOf[t[1]]
    BY <1>0, <2>1
  <2> HIDE DEF stage
  <2> QED BY <2>1, <2>2, <2>3, QuietMove DEF Ended
<1>3. CASE TokenRefused(t)
  <2> DEFINE stage == IF t[2] = "call" THEN "failed" ELSE "refused"
  <2>1. /\ Moves(t, stage) /\ Stage(t) = "requesting"
        /\ UNCHANGED <<loop, tokens, lockQueue, jobs>>
    BY <1>3 DEF TokenRefused
  <2>2. /\ stage \in IF t[2] = "call" THEN CallStage ELSE AcquireStage
        /\ stage \notin {"queued", "locked", "awaiting", "off", "requesting", "renewing"}
    BY DEF CallStage, AcquireStage, Ended
  <2> HIDE DEF stage
  <2> QED BY <1>0, <2>1, <2>2, QuietMove DEF Ended
<1> QED BY <1>1, <1>2, <1>3

LEMMA InitCr == Init => CrInv
<1> SUFFICES ASSUME Init PROVE CrInv
  OBVIOUS
<1>1. \A t \in Thread : Stage(t) \in {"idle", "off"}
  BY ThreadFacts DEF Init, Stage
<1>2. TypeOK
  <2>1. Busy = {}
    BY ThreadFacts DEF Init, Busy, Ended
  <2>2. Cardinality(Busy) <= Workers
    BY <2>1, FS_EmptySet, CredentialAssumption
  <2>3. <<>> \in Seq(Thread) /\ <<>> \in Seq(Call)
    BY EmptySeq
  <2> QED BY <2>2, <2>3 DEF Init, TypeOK, Ended
<1>3. OneHolder /\ Asked
  BY <1>1 DEF OneHolder, Holder, Asked
<1>4. Queues
  <2>1. Queued = {} /\ \A s \in Scope : AtLock(s) = {}
    BY <1>1 DEF Init, Queued, AtLock
  <2>2. Lists(<<>>, {})
    BY EmptySeq DEF Lists
  <2> QED BY <2>1, <2>2 DEF Init, Queues
<1> QED BY <1>2, <1>3, <1>4 DEF CrInv

LEMMA NextCr == CrInv /\ [Next]_vars => CrInv'
<1> SUFFICES ASSUME CrInv, [Next]_vars PROVE CrInv'
  OBVIOUS
<1>1. CASE Next
  BY <1>1, StartInv, IssueInv, ExpireInv, EnterLockInv, HoldLockInv, ResumeInv, CallInv, AcquireInv
     DEF Next, Progress
<1>2. CASE UNCHANGED vars
  <2>1. UNCHANGED <<loop, tokens, call, acquiring, lockQueue, jobs>>
    BY <1>2 DEF vars
  <2> QED BY <2>1 DEF CrInv, TypeOK, OneHolder, Holder, Asked, Cached, Queues, Queued, AtLock,
        Stage, Busy, Thread, Lists
<1> QED BY <1>1, <1>2

\* The inductive invariant: an audience's lock has one holder, the queues hold who waits,
\* and whoever awaits its acquisition is the holder of its lock.
THEOREM CredentialInvariance == Spec => []CrInv
  BY InitCr, NextCr, PTL DEF Spec

\* Values stay in range and no more threads run than there are workers.
THEOREM CredentialTypes == Spec => []TypeOK
<1>1. CrInv => TypeOK
  BY DEF CrInv
<1> QED BY <1>1, CredentialInvariance, PTL

\* An audience has at most one acquisition in flight, for any number of calls.
THEOREM AcquisitionsSerialized == Spec => []OneAcquisition
<1>1. CrInv => OneAcquisition
  <2> SUFFICES ASSUME CrInv, NEW s \in Scope PROVE Cardinality(Holder(s)) <= 1
    BY DEF OneAcquisition
  <2>1. CASE Holder(s) = {}
    BY <2>1, FS_EmptySet
  <2>2. CASE Holder(s) # {}
    <3>1. PICK t : Holder(s) = {t}
      BY <2>2 DEF CrInv, OneHolder
    <3>2. Cardinality({t}) = 1
      BY FS_Singleton
    <3> QED BY <3>1, <3>2
  <2> QED BY <2>1, <2>2
<1> QED BY <1>1, CredentialInvariance, PTL

\* No acquisition for the cache finds that another has filled it.
THEOREM BurstsCollapse == Spec => BurstCollapses
<1>1. CrInv => \A t \in Thread :
        Stage(t) = "requesting" /\ Stage(t)' = Got(t) => ~Cached(ScopeOf[t[1]])
  BY DEF CrInv, Asked
<1> QED BY <1>1, CredentialInvariance, PTL DEF BurstCollapses

-------------------------------------------------------------------------------
\* A thread that cannot move waits in a queue, or in a lock for one that waits there; and a
\* lock's holder waits for its acquisition.
LEMMA UnmovedWaits ==
  ASSUME CrInv, ~CanMove
  PROVE  /\ \A s \in Scope : Holder(s) = {}
         /\ \A t \in Thread : Stage(t) \notin {"blocking", "requesting"}
         /\ \A d \in Call : call[d] \in Ended \cup {"queued", "locked", "awaiting"}
         /\ \A d \in Call : call[d] = "awaiting" => acquiring[d] = "queued"
         /\ \A d \in Call : call[d] \in {"locked", "awaiting"} =>
              acquiring[Head(lockQueue[ScopeOf[d]])] = "queued"
<1>0. TypeOK
  BY DEF CrInv
<1>1. \A s \in Scope : Holder(s) = {}
  <2> SUFFICES ASSUME NEW s \in Scope, NEW t \in Holder(s) PROVE FALSE
    OBVIOUS
  <2>1. t \in Thread /\ Stage(t) \in {"requesting", "renewing"}
    BY DEF Holder
  <2>2. CASE Stage(t) = "requesting"
    BY <2>1, <2>2 DEF CanMove
  <2>3. CASE Stage(t) = "renewing"
    BY <1>0, <2>1, <2>3, ThreadFacts DEF CanMove, Stage, TypeOK
  <2> QED BY <2>1, <2>2, <2>3
<1>2. \A t \in Thread : Stage(t) \notin {"blocking", "requesting"}
  BY <1>1, ThreadFacts DEF CanMove
<1>3. \A d \in Call : call[d] \in Ended \cup {"queued", "locked", "awaiting"}
  <2> SUFFICES ASSUME NEW d \in Call PROVE call[d] \in Ended \cup {"queued", "locked", "awaiting"}
    OBVIOUS
  <2>1. Stage(<<d, "call">>) = call[d] /\ <<d, "call">> \in Thread /\ ScopeOf[d] \in Scope
    BY ThreadFacts, CredentialAssumption DEF Stage
  <2>2. call[d] \notin {"checking", "sending", "resending", "renewing", "submitted", "challenged"}
    BY <1>1, <2>1 DEF CanMove
  <2> QED BY <1>0, <1>2, <2>1, <2>2 DEF TypeOK
<1>4. \A d \in Call : call[d] = "awaiting" => acquiring[d] = "queued"
  <2> SUFFICES ASSUME NEW d \in Call, call[d] = "awaiting" PROVE acquiring[d] = "queued"
    OBVIOUS
  <2>1. acquiring[d] \notin {"off", "got", "refused"} /\ acquiring[d] \in AcquireStage
    BY <1>0 DEF CrInv, Queues, CanMove, TypeOK, AcquireStage
  <2>2. Stage(<<d, "acquire">>) = acquiring[d] /\ <<d, "acquire">> \in Thread
    BY ThreadFacts DEF Stage
  <2> QED BY <1>2, <2>1, <2>2 DEF AcquireStage
<1>5. \A d \in Call : call[d] \in {"locked", "awaiting"} =>
        acquiring[Head(lockQueue[ScopeOf[d]])] = "queued"
  <2> SUFFICES ASSUME NEW d \in Call, call[d] \in {"locked", "awaiting"}
               PROVE  acquiring[Head(lockQueue[ScopeOf[d]])] = "queued"
    OBVIOUS
  <2> DEFINE q == lockQueue[ScopeOf[d]]
  <2>1. ScopeOf[d] \in Scope /\ d \in AtLock(ScopeOf[d]) /\ q \in Seq(Call)
    BY <1>0, CredentialAssumption DEF AtLock, TypeOK
  <2>2. Lists(q, AtLock(ScopeOf[d]))
    BY <2>1 DEF CrInv, Queues
  <2>3. q # <<>>
    BY <2>1, <2>2, EmptySeq DEF Lists
  <2>4. Head(q) \in AtLock(ScopeOf[d])
    BY <2>1, <2>2, <2>3, ListsTail
  <2>5. Head(q) \in Call /\ ScopeOf[Head(q)] = ScopeOf[d] /\ call[Head(q)] \in {"locked", "awaiting"}
    BY <2>4 DEF AtLock
  <2>6. call[Head(q)] # "locked"
    BY <2>5 DEF CanMove
  <2> QED BY <1>4, <2>5, <2>6
<1> QED BY <1>1, <1>2, <1>3, <1>4, <1>5

\* What hangs hangs for want of a worker, and no worker is idle: each is kept by a call that
\* waits behind an acquisition that none of them will begin.
LEMMA HungIsStarved == CrInv => HangsOnlyStarved
<1> SUFFICES ASSUME CrInv, NEW c \in Call, call[c] \notin Ended, ~CanMove
             PROVE  Starved
  BY DEF HangsOnlyStarved, Unfinished
<1>0. TypeOK
  BY DEF CrInv
<1>1. Cardinality(Busy) = Workers
  <2>1. Queued # {}
    <3>1. CASE call[c] = "queued"
      BY <3>1, ThreadFacts DEF Queued, Stage
    <3>2. CASE call[c] \in {"locked", "awaiting"}
      <4> DEFINE h == Head(lockQueue[ScopeOf[c]])
      <4>1. acquiring[h] = "queued"
        BY <3>2, UnmovedWaits
      <4>2. h \in Call
        <5> DEFINE q == lockQueue[ScopeOf[c]]
        <5>1. q \in Seq(Call) /\ Lists(q, AtLock(ScopeOf[c])) /\ c \in AtLock(ScopeOf[c])
          BY <1>0, <3>2, CredentialAssumption DEF CrInv, Queues, TypeOK, AtLock
        <5>2. q # <<>>
          BY <5>1, EmptySeq DEF Lists
        <5> QED BY <5>1, <5>2, ListsTail DEF AtLock
      <4> QED BY <4>1, <4>2, ThreadFacts DEF Queued, Stage
    <3> QED BY <3>1, <3>2, UnmovedWaits
  <2>2. jobs # <<>>
    BY <2>1, EmptySeq DEF CrInv, Queues, Lists
  <2>3. ~(Cardinality(Busy) < Workers)
    BY <2>2 DEF CanMove
  <2>4. Cardinality(Busy) \in Nat /\ Cardinality(Busy) <= Workers /\ Workers \in Nat
    BY <1>0, BusyFinite, FS_CardinalityType, CredentialAssumption DEF TypeOK
  <2> QED BY <2>3, <2>4
<1>2. ASSUME NEW t \in Busy
      PROVE  /\ Stage(t) \in {"locked", "awaiting"}
             /\ acquiring[Head(lockQueue[ScopeOf[t[1]]])] = "queued"
  <2>1. t \in Thread /\ t[1] \in Call
    BY ThreadFacts DEF Busy
  <2>2. t[2] = "call"
    BY <2>1, UnmovedWaits DEF Busy, Stage
  <2>3. Stage(t) = call[t[1]] /\ call[t[1]] \notin Ended \cup {"queued"}
    BY <2>2 DEF Busy, Stage
  <2>4. call[t[1]] \in {"locked", "awaiting"}
    BY <2>1, <2>3, UnmovedWaits
  <2> QED BY <2>1, <2>3, <2>4, UnmovedWaits
<1> QED BY <1>1, <1>2 DEF Starved

\* Of any number of calls, over any number of workers: one that is unfinished can go on, or
\* the executor is starved.  The locks, the cache and the challenges hang nobody.
THEOREM OnlyStarvationHangs == Spec => []HangsOnlyStarved
  BY HungIsStarved, CredentialInvariance, PTL

-------------------------------------------------------------------------------
(***************************************************************************)
(* The heartbeat merge.  A deadline is never further off than an interval, *)
(* so whoever asks on an empty queue is told by a beat if by nothing else; *)
(* and what is queued of the pipeline is what it has yielded since the     *)
(* last event given, in its order, with the end behind it.                 *)
(***************************************************************************)

PumpType == [pc : {"running", "ended"}, yielded : 0 .. MaxEvents, failure : BOOLEAN]
TickerType ==
  [pc : {"turn", "sleeping", "stopped"}, due : 0 .. MaxTime + Interval,
   ready : 0 .. MaxTime + Interval, caught : Nat]
ConsumerType ==
  [pc : {"getting", "yielded", "yielded_done", "closed", "raised", "left"},
   asked : 0 .. MaxTime, since : 0 .. MaxTime]

\* A living ticker's turn comes within Lag of its time, and its deadline within an interval.
TickerOnTime ==
  ticker.pc # "stopped" =>
    /\ now <= ticker.ready + Lag
    /\ ticker.due <= now + Interval
    /\ ticker.pc = "turn" => ticker.ready <= now
    /\ ticker.pc = "sleeping" => ticker.ready = ticker.due

\* A client that waits on an empty queue waits for the beat that is due, and on one that is
\* not empty for its turn.
ToldSoon ==
  consumer.pc = "getting" =>
    /\ consumer.asked <= now
    /\ queue # <<>> => now <= consumer.since + Lag
    /\ ticker.pc # "stopped" =>
         /\ queue = <<>> =>
              /\ ticker.due <= consumer.asked + Interval
              /\ ticker.pc = "turn" => ticker.ready <= consumer.asked + Interval + Lag
         /\ queue # <<>> => consumer.since <= consumer.asked + Interval + 2 * Lag

TimeInv == H!TypeOK /\ TickerOnTime /\ ToldSoon

Told(item) == item.type \in {"event", "done"}

\* What is queued of the pipeline: all it has yielded and the client was not given, in order,
\* and nothing behind its end.
InOrder ==
  /\ \A i \in 1 .. Len(queue) :
       Told(queue[i]) => queue[i].n \in given + 1 .. pump.yielded
  /\ \A i, j \in 1 .. Len(queue) :
       Told(queue[i]) /\ Told(queue[j]) /\ i < j => queue[i].n < queue[j].n
  /\ \A k \in given + 1 .. pump.yielded :
       \E i \in 1 .. Len(queue) : Told(queue[i]) /\ queue[i].n = k
  /\ \A i \in 1 .. Len(queue) :
       queue[i] = H!Exhausted =>
         pump.pc = "ended" /\ \A j \in 1 .. Len(queue) : i < j => ~Told(queue[j])

QueueInv == H!TypeOK /\ InOrder /\ given <= pump.yielded

LEMMA ItemFacts ==
  /\ H!Beat \in H!ItemType /\ ~Told(H!Beat) /\ H!Beat # H!Exhausted
  /\ H!Exhausted \in H!ItemType /\ ~Told(H!Exhausted)
  /\ \A n \in 1 .. MaxEvents :
       /\ H!Event(n) \in H!ItemType /\ Told(H!Event(n)) /\ H!Event(n).n = n
       /\ H!DoneEvent(n) \in H!ItemType /\ Told(H!DoneEvent(n)) /\ H!DoneEvent(n).n = n
       /\ H!Event(n) # H!Exhausted /\ H!DoneEvent(n) # H!Exhausted
  /\ \A x \in H!ItemType : x # H!Beat /\ x # H!Exhausted => Told(x) /\ x.n \in 1 .. MaxEvents
BY DEF H!Beat, H!Exhausted, H!ItemType, H!Event, H!DoneEvent, Told

LEMMA HeartbeatTypes ==
  ASSUME H!ConstantsFit, H!TypeOK
  PROVE  /\ now \in Nat /\ now <= MaxTime /\ Interval \in Nat \ {0} /\ Lag \in Nat
         /\ MaxTime \in Nat /\ MaxEvents \in Nat /\ MaxCatchUp \in Nat \ {0}
         /\ pump \in PumpType /\ ticker \in TickerType /\ consumer \in ConsumerType
         /\ queue \in Seq(H!ItemType) /\ given \in 0 .. MaxEvents
BY DEF H!ConstantsFit, H!TypeOK, PumpType, TickerType, ConsumerType

\* The times that are compared are numbers, and the ticker is in one of three places.
LEMMA HeartbeatTimes ==
  ASSUME H!ConstantsFit, H!TypeOK
  PROVE  /\ now \in Nat /\ Interval \in Nat \ {0} /\ Lag \in Nat
         /\ ticker.pc \in {"turn", "sleeping", "stopped"}
         /\ ticker.due \in Nat /\ ticker.ready \in Nat
         /\ consumer.asked \in Nat /\ consumer.since \in Nat
<1>1. now \in Nat /\ Interval \in Nat \ {0} /\ Lag \in Nat /\ MaxTime \in Nat
  BY HeartbeatTypes
<1>2. /\ ticker.pc \in {"turn", "sleeping", "stopped"}
      /\ ticker.due \in Nat /\ ticker.ready \in Nat
  BY <1>1, HeartbeatTypes DEF TickerType
<1>3. consumer.asked \in Nat /\ consumer.since \in Nat
  BY <1>1, HeartbeatTypes DEF ConsumerType
<1> QED BY <1>1, <1>2, <1>3

\* What a put does to the queue and the consumer.
LEMMA PutFacts ==
  ASSUME H!ConstantsFit, H!TypeOK, NEW item \in H!ItemType, H!Put(item)
  PROVE  /\ queue' = Append(queue, item) /\ queue' \in Seq(H!ItemType) /\ queue' # <<>>
         /\ consumer' \in ConsumerType /\ consumer'.pc = consumer.pc
         /\ consumer'.asked = consumer.asked
         /\ queue = <<>> => consumer'.since = now
         /\ queue # <<>> => consumer' = consumer
<1>1. now \in 0 .. MaxTime /\ consumer \in ConsumerType /\ queue \in Seq(H!ItemType)
  BY HeartbeatTypes
<1>2. queue' = Append(queue, item)
  BY DEF H!Put
<1>3. queue' \in Seq(H!ItemType) /\ queue' # <<>>
  BY <1>1, <1>2, AppendProperties
<1>4. CASE queue = <<>>
  <2>1. consumer' = [consumer EXCEPT !.since = now]
    BY <1>4 DEF H!Put
  <2> QED BY <1>1, <1>2, <1>3, <1>4, <2>1 DEF ConsumerType
<1>5. CASE queue # <<>>
  <2>1. consumer' = consumer
    BY <1>5 DEF H!Put
  <2> QED BY <1>1, <1>2, <1>3, <1>5, <2>1
<1> QED BY <1>4, <1>5

LEMMA HeartbeatInit == H!ConstantsFit /\ H!Init => TimeInv /\ QueueInv
<1> SUFFICES ASSUME H!ConstantsFit, H!Init PROVE TimeInv /\ QueueInv
  OBVIOUS
<1>1. H!TypeOK
  BY DEF H!ConstantsFit, H!Init, H!TypeOK
<1>2. TickerOnTime /\ ToldSoon
  BY DEF H!ConstantsFit, H!Init, TickerOnTime, ToldSoon
<1>3. InOrder /\ given <= pump.yielded
  BY DEF H!ConstantsFit, H!Init, InOrder
<1> QED BY <1>1, <1>2, <1>3 DEF TimeInv, QueueInv

\* A client on an empty queue waits for a beat that is due.
LEMMA BeatIsDue ==
  ASSUME H!ConstantsFit, TimeInv, queue = <<>>, consumer.pc = "getting", ticker.pc # "stopped"
  PROVE  now <= consumer.asked + Interval + 2 * Lag
<1>1. /\ now \in Nat /\ Interval \in Nat /\ Lag \in Nat
      /\ ticker.due \in Nat /\ ticker.ready \in Nat /\ consumer.asked \in Nat
      /\ ticker.pc \in {"turn", "sleeping"}
  BY HeartbeatTimes DEF TimeInv
<1>2. now <= ticker.ready + Lag /\ ticker.due <= consumer.asked + Interval
  BY DEF TimeInv, TickerOnTime, ToldSoon
<1>3. CASE ticker.pc = "turn"
  <2>1. ticker.ready <= consumer.asked + Interval + Lag
    BY <1>3 DEF TimeInv, ToldSoon
  <2> QED BY <1>1, <1>2, <2>1
<1>4. CASE ticker.pc = "sleeping"
  <2>1. ticker.ready = ticker.due
    BY <1>4 DEF TimeInv, TickerOnTime
  <2> QED BY <1>1, <1>2, <2>1
<1> QED BY <1>1, <1>3, <1>4

\* A put of the pump leaves every deadline as it is.
LEMMA PutInTime ==
  ASSUME H!ConstantsFit, TimeInv, NEW item \in H!ItemType, H!Put(item), UNCHANGED <<now, ticker>>
  PROVE  TickerOnTime' /\ ToldSoon'
<1>1. H!TypeOK
  BY DEF TimeInv
<1>2. TickerOnTime'
  BY DEF TimeInv, TickerOnTime
<1>3. ToldSoon'
  <2>1. CASE queue = <<>>
    <3>1. ticker.pc # "stopped" /\ consumer.pc = "getting" =>
            now <= consumer.asked + Interval + 2 * Lag
      BY <2>1, BeatIsDue
    <3> QED BY <1>1, <2>1, <3>1, HeartbeatTimes, PutFacts DEF TimeInv, ToldSoon
  <2>2. CASE queue # <<>>
    BY <1>1, <2>2, PutFacts DEF TimeInv, ToldSoon
  <2> QED BY <2>1, <2>2
<1> QED BY <1>2, <1>3

LEMMA TimeStep == ASSUME H!ConstantsFit, TimeInv, H!Next PROVE TimeInv'
<1>1. H!TypeOK
  BY DEF TimeInv
<1>2. /\ now \in Nat /\ now <= MaxTime /\ Interval \in Nat \ {0} /\ Lag \in Nat
      /\ MaxTime \in Nat /\ MaxEvents \in Nat /\ MaxCatchUp \in Nat \ {0}
      /\ pump \in PumpType /\ ticker \in TickerType /\ consumer \in ConsumerType
      /\ queue \in Seq(H!ItemType) /\ given \in 0 .. MaxEvents
  BY <1>1, HeartbeatTypes
<1>3. ASSUME now' \in 0 .. MaxTime, pump' \in PumpType, ticker' \in TickerType,
             consumer' \in ConsumerType, queue' \in Seq(H!ItemType), given' \in 0 .. MaxEvents
      PROVE  H!TypeOK'
  BY <1>3 DEF H!TypeOK, H!ItemType, H!Beat, H!Exhausted, PumpType, TickerType, ConsumerType
<1>4. CASE H!TimePasses
  <2>1. /\ now' = now + 1 /\ now' \in 0 .. MaxTime
        /\ UNCHANGED <<pump, ticker, queue, consumer, given>>
    BY <1>2, <1>4 DEF H!TimePasses
  <2>2. H!TypeOK'
    BY <1>2, <1>3, <2>1
  <2>3. TickerOnTime'
    BY <1>2, <1>4, <2>1 DEF H!TimePasses, TimeInv, TickerOnTime, TickerType
  <2>4. ToldSoon'
    BY <1>2, <1>4, <2>1 DEF H!TimePasses, TimeInv, ToldSoon, TickerType, ConsumerType
  <2> QED BY <2>2, <2>3, <2>4 DEF TimeInv
<1>5. CASE \E item \in {H!Event(n) : n \in 1 .. MaxEvents} \cup {H!DoneEvent(n) : n \in 1 .. MaxEvents} :
             H!PumpEvent(item)
  <2>1. PICK item \in H!ItemType : H!PumpEvent(item)
    BY <1>5, ItemFacts
  <2>2. /\ H!Put(item) /\ pump' \in PumpType /\ UNCHANGED <<now, ticker, given>>
    BY <1>2, <2>1 DEF H!PumpEvent, PumpType
  <2>3. H!TypeOK'
    BY <1>1, <1>2, <1>3, <2>2, PutFacts
  <2> QED BY <2>2, <2>3, PutInTime DEF TimeInv
<1>6. CASE \E failure \in BOOLEAN : H!PumpEnds(failure)
  <2>1. PICK failure \in BOOLEAN : H!PumpEnds(failure)
    BY <1>6
  <2>2. /\ H!Put(H!Exhausted) /\ pump' \in PumpType /\ UNCHANGED <<now, ticker, given>>
    BY <1>2, <2>1 DEF H!PumpEnds, PumpType
  <2>3. H!TypeOK'
    BY <1>1, <1>2, <1>3, <2>2, PutFacts, ItemFacts
  <2> QED BY <2>2, <2>3, PutInTime, ItemFacts DEF TimeInv
<1>7. CASE H!TickerTurn
  <2>1. UNCHANGED <<now, pump, given>> /\ ticker.pc = "turn"
    BY <1>7 DEF H!TickerTurn
  <2>2. CASE now < ticker.due /\ UNCHANGED <<queue, consumer>>
             /\ ticker' = [ticker EXCEPT !.pc = "sleeping", !.ready = H!WakeAt, !.caught = 0]
    <3>1. /\ ticker' \in TickerType /\ ticker'.pc = "sleeping" /\ ticker'.due = ticker.due
          /\ ticker'.ready = ticker.due
      BY <1>2, <2>2 DEF TickerType, H!WakeAt
    <3>2. H!TypeOK'
      BY <1>2, <1>3, <2>1, <2>2, <3>1
    <3>3. TickerOnTime'
      BY <1>1, <2>1, <2>2, <3>1, HeartbeatTimes DEF TimeInv, TickerOnTime
    <3>4. ToldSoon'
      BY <1>1, <2>1, <2>2, <3>1, HeartbeatTimes DEF TimeInv, ToldSoon
    <3> QED BY <3>2, <3>3, <3>4 DEF TimeInv
  <2>3. CASE now >= ticker.due /\ H!Put(H!Beat) /\ ~(now < ticker.due)
    <3> DEFINE due == ticker.due + Interval
               givesUp == ticker.caught + 1 >= MaxCatchUp /\ due <= now
               d == IF givesUp THEN now + Interval ELSE due
               c == IF givesUp THEN 0 ELSE ticker.caught + 1
    <3>1. ticker' = [pc |-> "turn", ready |-> now, due |-> d, caught |-> c]
      BY <1>7, <2>3 DEF H!TickerTurn
    <3>2. d \in 0 .. MaxTime + Interval /\ d <= now + Interval /\ c \in Nat
      BY <1>2, <2>3 DEF TickerType
    <3> HIDE DEF d, c
    <3>3. /\ ticker' \in TickerType /\ ticker'.pc = "turn" /\ ticker'.ready = now /\ ticker'.due = d
      BY <1>2, <3>1, <3>2 DEF TickerType
    <3>4. H!TypeOK'
      BY <1>1, <1>2, <1>3, <2>1, <2>3, <3>3, PutFacts, ItemFacts
    <3>5. TickerOnTime'
      BY <1>2, <2>1, <3>2, <3>3 DEF TickerOnTime
    <3>6. ToldSoon'
      <4>1. /\ queue' # <<>> /\ consumer'.pc = consumer.pc /\ consumer'.asked = consumer.asked
            /\ queue = <<>> => consumer'.since = now
            /\ queue # <<>> => consumer' = consumer
        BY <1>1, <2>3, PutFacts, ItemFacts
      <4>2. queue = <<>> /\ consumer.pc = "getting" => now <= consumer.asked + Interval + 2 * Lag
        BY <2>1, BeatIsDue
      <4> QED BY <1>1, <2>1, <4>1, <4>2, HeartbeatTimes DEF TimeInv, ToldSoon
    <3> QED BY <3>4, <3>5, <3>6 DEF TimeInv
  <2> QED BY <1>2, <1>7, <2>2, <2>3 DEF H!TickerTurn, TickerType
<1>8. CASE H!TickerWakes
  <2>1. /\ ticker.pc = "sleeping" /\ now >= ticker.ready
        /\ ticker' = [ticker EXCEPT !.pc = "turn", !.ready = now]
        /\ UNCHANGED <<now, pump, queue, consumer, given>>
    BY <1>8 DEF H!TickerWakes
  <2>2. ticker' \in TickerType /\ ticker'.pc = "turn" /\ ticker'.ready = now /\ ticker'.due = ticker.due
    <3>1. now \in 0 .. MaxTime + Interval
      BY <1>2
    <3> QED BY <1>2, <2>1, <3>1 DEF TickerType
  <2>3. H!TypeOK'
    BY <1>2, <1>3, <2>1, <2>2
  <2>4. TickerOnTime'
    BY <1>1, <2>1, <2>2, HeartbeatTimes DEF TimeInv, TickerOnTime
  <2>5. now <= ticker.due + Lag
    BY <2>1 DEF TimeInv, TickerOnTime
  <2>6. consumer.pc = "getting" /\ queue = <<>> =>
          ticker.due <= consumer.asked + Interval /\ now <= consumer.asked + Interval + Lag
    BY <1>1, <2>1, <2>5, HeartbeatTimes DEF TimeInv, ToldSoon
  <2>7. ToldSoon'
    BY <2>1, <2>2, <2>6 DEF TimeInv, ToldSoon
  <2> QED BY <2>3, <2>4, <2>7 DEF TimeInv
<1>9. CASE H!TickerFails
  <2>1. /\ ticker' = [ticker EXCEPT !.pc = "stopped"]
        /\ UNCHANGED <<now, pump, queue, consumer, given>>
    BY <1>9 DEF H!TickerFails
  <2>2. ticker' \in TickerType /\ ticker'.pc = "stopped"
    BY <1>2, <2>1 DEF TickerType
  <2>3. H!TypeOK'
    BY <1>2, <1>3, <2>1, <2>2
  <2> QED BY <2>1, <2>2, <2>3 DEF TimeInv, TickerOnTime, ToldSoon
<1>10. CASE H!Take
  <2>1. /\ consumer.pc = "getting" /\ queue # <<>> /\ queue' = Tail(queue) /\ now' = now
    BY <1>10 DEF H!Take
  <2>2. Head(queue) \in H!ItemType /\ queue' \in Seq(H!ItemType)
    BY <1>2, <2>1, HeadTailProperties
  <2>3. CASE Head(queue) = H!Exhausted
    <3>1. H!Close /\ UNCHANGED given
      BY <1>10, <2>3 DEF H!Take
    <3>2. /\ consumer' \in ConsumerType /\ consumer'.pc \in {"raised", "closed"}
          /\ ticker' \in TickerType /\ ticker'.pc = "stopped" /\ pump' \in PumpType
      BY <1>2, <3>1 DEF H!Close, ConsumerType, TickerType, PumpType
    <3>3. H!TypeOK'
      BY <1>2, <1>3, <2>1, <2>2, <3>1, <3>2
    <3> QED BY <3>2, <3>3 DEF TimeInv, TickerOnTime, ToldSoon
  <2>4. CASE Head(queue) # H!Exhausted
    <3>1. /\ UNCHANGED <<pump, ticker>>
          /\ consumer' \in ConsumerType /\ consumer'.pc \in {"yielded", "yielded_done"}
      BY <1>2, <1>10, <2>4 DEF H!Take, ConsumerType
    <3>2. given' \in 0 .. MaxEvents
      BY <1>2, <1>10, <2>2, <2>4, ItemFacts DEF H!Take
    <3>3. H!TypeOK'
      BY <1>2, <1>3, <2>1, <2>2, <3>1, <3>2
    <3> QED BY <2>1, <3>1, <3>3 DEF TimeInv, TickerOnTime, ToldSoon
  <2> QED BY <2>3, <2>4
<1>11. CASE H!ClientAsks
  <2>1. UNCHANGED <<now, queue, given>>
    BY <1>11 DEF H!ClientAsks
  <2>2. CASE /\ consumer.pc = "yielded"
             /\ consumer' = [pc |-> "getting", asked |-> now, since |-> now]
             /\ UNCHANGED <<pump, ticker>>
    <3>1. /\ consumer' \in ConsumerType /\ consumer'.pc = "getting"
          /\ consumer'.asked = now /\ consumer'.since = now
      BY <1>2, <2>2 DEF ConsumerType
    <3>2. H!TypeOK'
      BY <1>2, <1>3, <2>1, <2>2, <3>1
    <3>3. TickerOnTime' /\ ToldSoon'
      BY <1>2, <2>1, <2>2, <3>1 DEF TimeInv, TickerOnTime, ToldSoon, TickerType
    <3> QED BY <3>2, <3>3 DEF TimeInv
  <2>3. CASE H!Close
    <3>1. /\ consumer' \in ConsumerType /\ consumer'.pc \in {"raised", "closed"}
          /\ ticker' \in TickerType /\ ticker'.pc = "stopped" /\ pump' \in PumpType
      BY <1>2, <2>3 DEF H!Close, ConsumerType, TickerType, PumpType
    <3>2. H!TypeOK'
      BY <1>2, <1>3, <2>1, <3>1
    <3> QED BY <3>1, <3>2 DEF TimeInv, TickerOnTime, ToldSoon
  <2> QED BY <1>11, <2>2, <2>3 DEF H!ClientAsks
<1>12. CASE H!ClientLeaves
  <2>1. UNCHANGED <<now, queue, given>>
    BY <1>12 DEF H!ClientLeaves
  <2>2. /\ consumer' \in ConsumerType /\ consumer'.pc = "left"
        /\ ticker' \in TickerType /\ ticker'.pc = "stopped" /\ pump' \in PumpType
    BY <1>2, <1>12 DEF H!ClientLeaves, ConsumerType, TickerType, PumpType
  <2>3. H!TypeOK'
    BY <1>2, <1>3, <2>1, <2>2
  <2> QED BY <2>2, <2>3 DEF TimeInv, TickerOnTime, ToldSoon
<1> QED BY <1>4, <1>5, <1>6, <1>7, <1>8, <1>9, <1>10, <1>11, <1>12 DEF H!Next

\* The inductive invariant of the clock: when the ticker is due, and by when a client that
\* waits has something in the queue.
THEOREM HeartbeatInvariance == ASSUME H!ConstantsFit PROVE H!Spec => []TimeInv
<1>1. TimeInv /\ UNCHANGED H!vars => TimeInv'
  BY DEF H!vars, TimeInv, TickerOnTime, ToldSoon, H!TypeOK, H!ItemType, H!Beat, H!Exhausted
<1> QED BY <1>1, HeartbeatInit, TimeStep, PTL DEF H!Spec

\* A client that waits is told something within the interval and three turns of the loop, for
\* as long as the ticker lives, whatever the interval, the lag and the pipeline's pace.
THEOREM ClientsAreTold == ASSUME H!ConstantsFit PROVE H!Spec => []ToldInTime
<1>1. ASSUME TimeInv PROVE ToldInTime
  <2>1. /\ now \in Nat /\ Interval \in Nat /\ Lag \in Nat
        /\ ticker.pc \in {"turn", "sleeping", "stopped"}
        /\ ticker.due \in Nat /\ ticker.ready \in Nat
        /\ consumer.asked \in Nat /\ consumer.since \in Nat
    BY <1>1, HeartbeatTimes DEF TimeInv
  <2>2. ASSUME consumer.pc = "getting", ticker.pc # "stopped"
        PROVE  now - consumer.asked <= Interval + 3 * Lag
    <3>1. CASE queue = <<>>
      <4>1. now <= consumer.asked + Interval + 2 * Lag
        BY <1>1, <2>2, <3>1, BeatIsDue
      <4> QED BY <2>1, <4>1
    <3>2. CASE queue # <<>>
      BY <1>1, <2>1, <2>2, <3>2 DEF TimeInv, ToldSoon
    <3> QED BY <3>1, <3>2
  <2> QED BY <1>1, <2>2 DEF TimeInv, ToldInTime, H!ToldInTime
<1> QED BY <1>1, HeartbeatInvariance, PTL

-------------------------------------------------------------------------------

\* Putting an item behind the queue keeps what is queued in order.
LEMMA PutInOrder ==
  ASSUME H!ConstantsFit, QueueInv, NEW item \in H!ItemType, queue' = Append(queue, item),
         given' = given, pump' \in PumpType,
         \/ ~Told(item) /\ item # H!Exhausted /\ pump'.yielded = pump.yielded /\ pump'.pc = pump.pc
         \/ ~Told(item) /\ pump'.yielded = pump.yielded /\ pump'.pc = "ended"
         \/ Told(item) /\ item # H!Exhausted /\ pump.pc = "running"
            /\ item.n = pump.yielded + 1 /\ pump'.yielded = pump.yielded + 1
  PROVE  InOrder' /\ given' <= pump'.yielded
<1>1. /\ queue \in Seq(H!ItemType) /\ given \in Nat /\ pump \in PumpType /\ MaxEvents \in Nat
      /\ given <= pump.yielded /\ InOrder
  BY HeartbeatTypes DEF QueueInv
<1> DEFINE l == Len(queue)
<1>2. /\ l \in Nat /\ Len(queue') = l + 1 /\ queue'[l + 1] = item
      /\ \A i \in 1 .. l : queue'[i] = queue[i]
  BY <1>1, AppendProperties, LenProperties
<1>3. pump.yielded \in Nat /\ pump'.yielded \in Nat /\ given' \in Nat
      /\ pump.yielded <= pump'.yielded
  BY <1>1 DEF PumpType
<1>4. \A i \in 1 .. l : Told(queue[i]) => queue[i].n \in given + 1 .. pump.yielded
  BY <1>1 DEF InOrder
<1>5. \A i, j \in 1 .. l : Told(queue[i]) /\ Told(queue[j]) /\ i < j => queue[i].n < queue[j].n
  BY <1>1 DEF InOrder
<1>6. \A k \in given + 1 .. pump.yielded : \E i \in 1 .. l : Told(queue[i]) /\ queue[i].n = k
  BY <1>1 DEF InOrder
<1>7. \A i \in 1 .. l : queue[i] = H!Exhausted =>
        pump.pc = "ended" /\ \A j \in 1 .. l : i < j => ~Told(queue[j])
  BY <1>1 DEF InOrder
<1> HIDE DEF l
<1>8. \A i \in 1 .. l + 1 : i \in 1 .. l \/ i = l + 1
  BY <1>2
<1>9. \A i \in 1 .. l + 1 : Told(queue'[i]) => queue'[i].n \in given' + 1 .. pump'.yielded
  BY <1>1, <1>2, <1>3, <1>4, <1>8
<1>10. \A i, j \in 1 .. l + 1 :
         Told(queue'[i]) /\ Told(queue'[j]) /\ i < j => queue'[i].n < queue'[j].n
  <2> SUFFICES ASSUME NEW i \in 1 .. l + 1, NEW j \in 1 .. l + 1,
                      Told(queue'[i]), Told(queue'[j]), i < j
               PROVE  queue'[i].n < queue'[j].n
    OBVIOUS
  <2>1. i \in 1 .. l /\ queue[i].n \in given + 1 .. pump.yielded /\ queue'[i] = queue[i]
    BY <1>2, <1>4
  <2>2. CASE j \in 1 .. l
    BY <1>2, <1>5, <2>1, <2>2
  <2>3. CASE j = l + 1
    BY <1>1, <1>2, <1>3, <2>1, <2>3
  <2> QED BY <1>8, <2>2, <2>3
<1>11. \A k \in given' + 1 .. pump'.yielded :
         \E i \in 1 .. l + 1 : Told(queue'[i]) /\ queue'[i].n = k
  <2> SUFFICES ASSUME NEW k \in given' + 1 .. pump'.yielded
               PROVE  \E i \in 1 .. l + 1 : Told(queue'[i]) /\ queue'[i].n = k
    OBVIOUS
  <2>1. CASE k \in given + 1 .. pump.yielded
    <3>1. PICK i \in 1 .. l : Told(queue[i]) /\ queue[i].n = k
      BY <1>6, <2>1
    <3> QED BY <1>2, <3>1
  <2>2. CASE k \notin given + 1 .. pump.yielded
    <3>1. Told(item) /\ item.n = k
      BY <1>1, <1>3, <2>2
    <3> QED BY <1>2, <3>1
  <2> QED BY <2>1, <2>2
<1>12. \A i \in 1 .. l + 1 : queue'[i] = H!Exhausted =>
         pump'.pc = "ended" /\ \A j \in 1 .. l + 1 : i < j => ~Told(queue'[j])
  <2> SUFFICES ASSUME NEW i \in 1 .. l + 1, queue'[i] = H!Exhausted
               PROVE  pump'.pc = "ended" /\ \A j \in 1 .. l + 1 : i < j => ~Told(queue'[j])
    OBVIOUS
  <2>1. CASE i \in 1 .. l
    <3>1. pump.pc = "ended" /\ \A j \in 1 .. l : i < j => ~Told(queue[j])
      BY <1>2, <1>7, <2>1
    <3>2. ~Told(item) /\ pump'.pc = "ended"
      BY <3>1
    <3> QED BY <1>2, <1>8, <3>1, <3>2
  <2>2. CASE i = l + 1
    BY <1>2, <2>2
  <2> QED BY <1>8, <2>1, <2>2
<1>13. Len(queue)' = l + 1
  BY <1>2
<1>14. InOrder'
  BY <1>9, <1>10, <1>11, <1>12, <1>13 DEF InOrder, Told
<1> QED BY <1>1, <1>3, <1>14

\* What stands at the head of the queue, and what is left behind it.
LEMMA HeadInOrder ==
  ASSUME H!ConstantsFit, QueueInv, queue # <<>>
  PROVE  /\ Head(queue) = H!Exhausted => given = pump.yielded
         /\ Told(Head(queue)) => Head(queue).n = given + 1 /\ given + 1 <= pump.yielded
<1>1. /\ queue \in Seq(H!ItemType) /\ given \in Nat /\ pump \in PumpType /\ MaxEvents \in Nat
      /\ given <= pump.yielded /\ InOrder
  BY HeartbeatTypes DEF QueueInv
<1>2. Len(queue) \in Nat /\ 1 \in 1 .. Len(queue) /\ Head(queue) = queue[1]
  BY <1>1, HeadTailProperties, EmptySeq, LenProperties
<1>3. pump.yielded \in Nat
  BY <1>1 DEF PumpType
<1>4. CASE given = pump.yielded
  BY <1>1, <1>2, <1>3, <1>4 DEF InOrder
<1>5. CASE given # pump.yielded
  <2>1. given + 1 \in given + 1 .. pump.yielded
    BY <1>1, <1>3, <1>5
  <2>2. PICK i \in 1 .. Len(queue) : Told(queue[i]) /\ queue[i].n = given + 1
    BY <1>1, <2>1 DEF InOrder
  <2>3. CASE i = 1
    BY <1>2, <2>1, <2>2, <2>3, ItemFacts
  <2>4. CASE i # 1
    <3>1. 1 < i
      BY <1>2, <2>4
    <3>2. Head(queue) # H!Exhausted
      BY <1>1, <1>2, <2>2, <3>1 DEF InOrder
    <3>3. ~Told(Head(queue))
      <4> SUFFICES ASSUME Told(queue[1]) PROVE FALSE
        BY <1>2
      <4>1. queue[1].n \in given + 1 .. pump.yielded /\ queue[1].n < queue[i].n
        BY <1>1, <1>2, <2>2, <3>1 DEF InOrder
      <4> QED BY <1>1, <1>3, <2>2, <4>1
    <3> QED BY <3>2, <3>3
  <2> QED BY <2>3, <2>4
<1> QED BY <1>4, <1>5

\* Taking the head keeps the rest in order.
LEMMA TakeInOrder ==
  ASSUME H!ConstantsFit, QueueInv, queue # <<>>, queue' = Tail(queue),
         pump' \in PumpType, pump'.yielded = pump.yielded,
         pump.pc = "ended" => pump'.pc = "ended",
         given' = IF Told(Head(queue)) THEN given + 1 ELSE given
  PROVE  InOrder' /\ given' <= pump'.yielded
<1>1. /\ queue \in Seq(H!ItemType) /\ given \in Nat /\ pump \in PumpType /\ MaxEvents \in Nat
      /\ given <= pump.yielded /\ InOrder
  BY HeartbeatTypes DEF QueueInv
<1>2. pump.yielded \in Nat /\ given' \in Nat /\ given <= given' /\ given' <= pump.yielded
  BY <1>1, HeadInOrder DEF PumpType
<1>3. /\ Len(queue) \in Nat \ {0} /\ Head(queue) = queue[1]
      /\ Len(queue') = Len(queue) - 1
      /\ \A i \in 1 .. Len(queue) - 1 : queue'[i] = queue[i + 1]
  BY <1>1, HeadTailProperties, EmptySeq, LenProperties
<1> DEFINE l == Len(queue) - 1
<1>4. \A i \in 1 .. l : i + 1 \in 1 .. Len(queue) /\ 1 < i + 1 /\ 1 \in 1 .. Len(queue)
  BY <1>3
<1>5. \A i \in 1 .. Len(queue) : Told(queue[i]) => queue[i].n \in given + 1 .. pump.yielded
  BY <1>1 DEF InOrder
<1>6. \A i, j \in 1 .. Len(queue) :
        Told(queue[i]) /\ Told(queue[j]) /\ i < j => queue[i].n < queue[j].n
  BY <1>1 DEF InOrder
<1>7. \A k \in given + 1 .. pump.yielded :
        \E i \in 1 .. Len(queue) : Told(queue[i]) /\ queue[i].n = k
  BY <1>1 DEF InOrder
<1>8. \A i \in 1 .. Len(queue) : queue[i] = H!Exhausted =>
        pump.pc = "ended" /\ \A j \in 1 .. Len(queue) : i < j => ~Told(queue[j])
  BY <1>1 DEF InOrder
<1>9. \A i \in 1 .. l : Told(queue'[i]) => queue'[i].n \in given' + 1 .. pump'.yielded
  <2> SUFFICES ASSUME NEW i \in 1 .. l, Told(queue[i + 1])
               PROVE  queue[i + 1].n \in given' + 1 .. pump.yielded
    BY <1>3
  <2>1. queue[i + 1].n \in given + 1 .. pump.yielded
    BY <1>4, <1>5
  <2>2. CASE Told(Head(queue))
    <3>1. queue[1].n < queue[i + 1].n /\ queue[1].n = given + 1
      BY <1>3, <1>4, <1>6, <2>2, HeadInOrder
    <3> QED BY <1>1, <1>2, <2>1, <2>2, <3>1
  <2> QED BY <2>1, <2>2
<1>10. \A i, j \in 1 .. l :
         Told(queue'[i]) /\ Told(queue'[j]) /\ i < j => queue'[i].n < queue'[j].n
  <2> SUFFICES ASSUME NEW i \in 1 .. l, NEW j \in 1 .. l, i < j,
                      Told(queue[i + 1]), Told(queue[j + 1])
               PROVE  queue[i + 1].n < queue[j + 1].n
    BY <1>3
  <2>1. i + 1 < j + 1
    BY <1>3
  <2> QED BY <1>4, <1>6, <2>1
<1>11. \A k \in given' + 1 .. pump'.yielded :
         \E i \in 1 .. l : Told(queue'[i]) /\ queue'[i].n = k
  <2> SUFFICES ASSUME NEW k \in given' + 1 .. pump.yielded
               PROVE  \E i \in 1 .. l : Told(queue'[i]) /\ queue'[i].n = k
    OBVIOUS
  <2>1. k \in given + 1 .. pump.yielded
    BY <1>1, <1>2
  <2>2. PICK i \in 1 .. Len(queue) : Told(queue[i]) /\ queue[i].n = k
    BY <1>7, <2>1
  <2>3. i # 1
    BY <1>1, <1>2, <1>3, <2>2, HeadInOrder
  <2>4. i - 1 \in 1 .. l /\ (i - 1) + 1 = i
    BY <1>3, <2>3
  <2>5. queue'[i - 1] = queue[i]
    BY <1>3, <2>4
  <2> QED BY <2>2, <2>4, <2>5
<1>12. \A i \in 1 .. l : queue'[i] = H!Exhausted =>
         pump'.pc = "ended" /\ \A j \in 1 .. l : i < j => ~Told(queue'[j])
  <2> SUFFICES ASSUME NEW i \in 1 .. l, queue[i + 1] = H!Exhausted
               PROVE  pump.pc = "ended" /\ \A j \in 1 .. l : i < j => ~Told(queue[j + 1])
    BY <1>3
  <2>1. \A j \in 1 .. l : i < j => i + 1 < j + 1
    BY <1>3
  <2> QED BY <1>4, <1>8, <2>1
<1>13. Len(queue)' = l
  BY <1>3
<1> HIDE DEF l
<1>14. InOrder'
  BY <1>9, <1>10, <1>11, <1>12, <1>13 DEF InOrder, Told
<1> QED BY <1>2, <1>14

LEMMA QueueStep ==
  ASSUME H!ConstantsFit, TimeInv, QueueInv, H!Next
  PROVE  /\ QueueInv'
         /\ given' # given => given' = given + 1 /\ consumer.pc = "getting"
         /\ consumer.pc = "getting" /\ consumer'.pc \in {"closed", "raised"} =>
              given = pump.yielded
<1>1. H!TypeOK /\ H!TypeOK'
  BY TimeStep DEF TimeInv
<1>2. /\ queue \in Seq(H!ItemType) /\ given \in Nat /\ pump \in PumpType /\ MaxEvents \in Nat
      /\ consumer \in ConsumerType /\ pump' \in PumpType
  BY <1>1, HeartbeatTypes DEF H!TypeOK, PumpType
<1>3. ASSUME UNCHANGED <<queue, given>>, pump'.yielded = pump.yielded,
             pump.pc = "ended" => pump'.pc = "ended"
      PROVE  QueueInv'
  BY <1>1, <1>3 DEF QueueInv, InOrder, Told
<1>4. CASE H!TimePasses
  <2>1. UNCHANGED <<pump, queue, consumer, given>>
    BY <1>4 DEF H!TimePasses
  <2> QED BY <1>3, <2>1
<1>5. CASE \E item \in {H!Event(n) : n \in 1 .. MaxEvents} \cup {H!DoneEvent(n) : n \in 1 .. MaxEvents} :
             H!PumpEvent(item)
  <2>1. PICK item \in H!ItemType : H!PumpEvent(item)
    BY <1>5, ItemFacts
  <2>2. /\ pump.pc = "running" /\ pump.yielded < MaxEvents /\ H!Put(item) /\ given' = given
        /\ item \in {H!Event(pump.yielded + 1), H!DoneEvent(pump.yielded + 1)}
        /\ pump'.yielded = pump.yielded + 1
    BY <1>2, <2>1 DEF H!PumpEvent, PumpType
  <2>3. pump.yielded + 1 \in 1 .. MaxEvents
    BY <1>2, <2>2 DEF PumpType
  <2>4. Told(item) /\ item # H!Exhausted /\ item.n = pump.yielded + 1
    BY <2>2, <2>3, ItemFacts
  <2>5. InOrder' /\ given' <= pump'.yielded
    BY <1>1, <1>2, <2>2, <2>4, PutFacts, PutInOrder
  <2>6. consumer'.pc = consumer.pc
    BY <1>1, <2>2, PutFacts
  <2> QED BY <1>1, <2>2, <2>5, <2>6 DEF QueueInv
<1>6. CASE \E failure \in BOOLEAN : H!PumpEnds(failure)
  <2>1. PICK failure \in BOOLEAN : H!PumpEnds(failure)
    BY <1>6
  <2>2. /\ H!Put(H!Exhausted) /\ given' = given
        /\ pump'.yielded = pump.yielded /\ pump'.pc = "ended"
    BY <1>2, <2>1 DEF H!PumpEnds, PumpType
  <2>3. InOrder' /\ given' <= pump'.yielded
    BY <1>1, <1>2, <2>2, ItemFacts, PutFacts, PutInOrder
  <2>4. consumer'.pc = consumer.pc
    BY <1>1, <2>2, ItemFacts, PutFacts
  <2> QED BY <1>1, <2>2, <2>3, <2>4 DEF QueueInv
<1>7. CASE H!TickerTurn
  <2>1. UNCHANGED <<pump, given>>
    BY <1>7 DEF H!TickerTurn
  <2>2. CASE UNCHANGED <<queue, consumer>>
    BY <1>3, <2>1, <2>2
  <2>3. CASE H!Put(H!Beat)
    <3>1. InOrder' /\ given' <= pump'.yielded
      BY <1>1, <1>2, <2>1, <2>3, ItemFacts, PutFacts, PutInOrder
    <3>2. consumer'.pc = consumer.pc
      BY <1>1, <2>3, ItemFacts, PutFacts
    <3> QED BY <1>1, <2>1, <3>1, <3>2 DEF QueueInv
  <2> QED BY <1>7, <2>2, <2>3 DEF H!TickerTurn
<1>8. CASE H!TickerWakes \/ H!TickerFails
  <2>1. UNCHANGED <<pump, queue, consumer, given>>
    BY <1>8 DEF H!TickerWakes, H!TickerFails
  <2> QED BY <1>3, <2>1
<1>9. CASE H!Take
  <2>1. consumer.pc = "getting" /\ queue # <<>> /\ queue' = Tail(queue)
    BY <1>9 DEF H!Take
  <2>2. Head(queue) \in H!ItemType
    BY <1>2, <2>1, HeadTailProperties
  <2>3. CASE Head(queue) = H!Exhausted
    <3>1. given' = given /\ pump'.yielded = pump.yielded /\ pump'.pc = "ended"
      BY <1>2, <1>9, <2>3 DEF H!Take, H!Close, PumpType
    <3>2. ~Told(Head(queue)) /\ given = pump.yielded
      BY <2>1, <2>3, ItemFacts, HeadInOrder
    <3>3. InOrder' /\ given' <= pump'.yielded
      BY <1>2, <2>1, <3>1, <3>2, TakeInOrder
    <3> QED BY <1>1, <3>1, <3>2, <3>3 DEF QueueInv
  <2>4. CASE Head(queue) # H!Exhausted
    <3>1. /\ given' = IF Head(queue) = H!Beat THEN given ELSE Head(queue).n
          /\ pump' = pump /\ consumer'.pc \in {"yielded", "yielded_done"}
      BY <1>2, <1>9, <2>4 DEF H!Take, ConsumerType
    <3>2. Told(Head(queue)) <=> Head(queue) # H!Beat
      BY <2>2, <2>4, ItemFacts
    <3>3. given' = IF Told(Head(queue)) THEN given + 1 ELSE given
      BY <2>1, <3>1, <3>2, HeadInOrder
    <3>4. InOrder' /\ given' <= pump'.yielded
      BY <1>2, <2>1, <3>1, <3>3, TakeInOrder
    <3> QED BY <1>1, <2>1, <3>1, <3>3, <3>4 DEF QueueInv
  <2> QED BY <2>3, <2>4
<1>10. CASE H!ClientAsks \/ H!ClientLeaves
  <2>1. /\ UNCHANGED <<queue, given>> /\ pump'.yielded = pump.yielded
        /\ pump.pc = "ended" => pump'.pc = "ended"
    BY <1>2, <1>10 DEF H!ClientAsks, H!ClientLeaves, H!Close, PumpType
  <2>2. ~(consumer.pc = "getting" /\ consumer'.pc \in {"closed", "raised"})
    BY <1>2, <1>10 DEF H!ClientAsks, H!ClientLeaves, H!Close, ConsumerType
  <2> QED BY <1>3, <2>1, <2>2
<1> QED BY <1>4, <1>5, <1>6, <1>7, <1>8, <1>9, <1>10 DEF H!Next

\* The client gets the pipeline's events one by one in their order, and a merge that closes
\* while the client waits has given it all that was yielded: for every number of events.
THEOREM EventsInOrder == ASSUME H!ConstantsFit PROVE H!Spec => ForwardedInOrder
<1> DEFINE Forward ==
             /\ given' # given => given' = given + 1 /\ consumer.pc = "getting"
             /\ consumer.pc = "getting" /\ consumer'.pc \in {"closed", "raised"} =>
                  given = pump.yielded
           Both == TimeInv /\ QueueInv
<1>1. Both /\ [H!Next]_H!vars => Both' /\ [Forward]_H!vars
  <2>1. CASE H!Next
    BY <2>1, TimeStep, QueueStep
  <2>2. CASE UNCHANGED H!vars
    BY <2>2 DEF H!vars, TimeInv, TickerOnTime, ToldSoon, QueueInv, InOrder, Told, H!TypeOK,
                H!ItemType, H!Beat, H!Exhausted
  <2> QED BY <2>1, <2>2
<1>2. H!Init => Both
  BY HeartbeatInit
<1> QED BY <1>1, <1>2, PTL DEF H!Spec, ForwardedInOrder, H!ForwardedInOrder

-------------------------------------------------------------------------------
(***************************************************************************)
(* Ranks: where a member of a finite set of numbers stands in their order. *)
(* Consecutive blocks of ranks cut a set into parts of the same size.      *)
(***************************************************************************)

Below(S, i) == {j \in S : j < i}
Rank(S, i) == Cardinality(Below(S, i))

LEMMA Quotient ==
  ASSUME NEW a \in Nat, NEW c \in Nat \ {0}
  PROVE  a \div c \in Nat /\ c * (a \div c) <= a /\ a < c * (a \div c) + c
OBVIOUS

LEMMA RankLess ==
  ASSUME NEW S \in SUBSET Int, IsFiniteSet(S), NEW i \in Int, NEW j \in S, j < i
  PROVE  Rank(S, j) < Rank(S, i)
<1>1. Below(S, j) \subseteq Below(S, i) /\ j \in Below(S, i) /\ j \notin Below(S, j)
  <2>1. \A x \in S : x \in Int
    OBVIOUS
  <2>2. j \in Below(S, i)
    BY DEF Below
  <2>3. j \notin Below(S, j)
    BY <2>1 DEF Below
  <2>4. ASSUME NEW x \in Below(S, j) PROVE x \in Below(S, i)
    <3>1. x \in S /\ x < j /\ x \in Int /\ j \in Int
      BY <2>1, <2>4 DEF Below
    <3> QED BY <3>1 DEF Below
  <2> QED BY <2>2, <2>3, <2>4
<1>2. IsFiniteSet(Below(S, i)) /\ IsFiniteSet(Below(S, j))
  BY FS_Subset DEF Below
<1>3. Cardinality(Below(S, j)) <= Cardinality(Below(S, i)) /\
      Cardinality(Below(S, j)) # Cardinality(Below(S, i))
  BY <1>1, <1>2, FS_Subset
<1> QED BY <1>2, <1>3, FS_CardinalityType DEF Rank

\* The ranks of S are the numbers below its size, each of one member.
LEMMA Ranks ==
  ASSUME NEW S \in SUBSET Int, IsFiniteSet(S)
  PROVE  /\ Cardinality(S) \in Nat
         /\ \A i \in S : Rank(S, i) \in Nat /\ Rank(S, i) < Cardinality(S)
         /\ \A i, j \in S : Rank(S, i) = Rank(S, j) => i = j
         /\ \A k \in Nat : k < Cardinality(S) => \E i \in S : Rank(S, i) = k
<1> DEFINE n == Cardinality(S)
           R == 0 .. n - 1
           f == [i \in S |-> Rank(S, i)]
<1>1. n \in Nat
  BY FS_CardinalityType
<1>2. ASSUME NEW i \in S PROVE Rank(S, i) \in Nat /\ Rank(S, i) < n
  <2>1. Below(S, i) \subseteq S /\ i \notin Below(S, i)
    BY DEF Below
  <2>2. IsFiniteSet(Below(S, i)) /\ Cardinality(Below(S, i)) <= n /\ Cardinality(Below(S, i)) # n
    BY <2>1, FS_Subset
  <2> QED BY <1>1, <2>2, FS_CardinalityType DEF Rank
<1>3. \A i, j \in S : Rank(S, i) = Rank(S, j) => i = j
  <2> SUFFICES ASSUME NEW i \in S, NEW j \in S, i # j PROVE Rank(S, i) # Rank(S, j)
    OBVIOUS
  <2>1. i < j \/ j < i
    OBVIOUS
  <2>2. Rank(S, i) \in Nat /\ Rank(S, j) \in Nat
    BY <1>2
  <2>3. i < j => Rank(S, i) < Rank(S, j)
    BY RankLess
  <2>4. j < i => Rank(S, j) < Rank(S, i)
    BY RankLess
  <2> QED BY <2>1, <2>2, <2>3, <2>4
<1>4. f \in Injection(S, R)
  <2>1. f \in [S -> R]
    BY <1>1, <1>2
  <2> QED BY <1>3, <2>1 DEF Injection, IsInjective
<1>5. IsFiniteSet(R) /\ Cardinality(R) = n
  BY <1>1, FS_Interval
<1> HIDE DEF n, R, f
<1>6. f \in Surjection(S, R)
  <2>1. Cardinality(S) = Cardinality(R)
    BY <1>5 DEF n
  <2> QED BY <1>4, <1>5, <2>1, FS_Injection
<1>7. \A k \in R : \E i \in S : f[i] = k
  BY <1>6 DEF Surjection
<1>8. \A k \in Nat : k < n => \E i \in S : Rank(S, i) = k
  BY <1>1, <1>7 DEF R, f
<1> QED BY <1>1, <1>2, <1>3, <1>8 DEF n

\* A block of c ranks holds c members at most.
LEMMA BlockSize ==
  ASSUME NEW S \in SUBSET Int, IsFiniteSet(S), NEW c \in Nat \ {0}, NEW q \in Nat
  PROVE  LET block == {i \in S : Rank(S, i) \div c = q} IN
         IsFiniteSet(block) /\ Cardinality(block) \in Nat /\ Cardinality(block) <= c
<1> DEFINE block == {i \in S : Rank(S, i) \div c = q}
           R == c * q .. c * q + c - 1
           f == [i \in block |-> Rank(S, i)]
<1>1. IsFiniteSet(block)
  BY FS_Subset
<1>2. \A i \in block : Rank(S, i) \in R
  <2> SUFFICES ASSUME NEW i \in block PROVE Rank(S, i) \in R
    OBVIOUS
  <2>1. Rank(S, i) \in Nat
    BY Ranks
  <2> QED BY <2>1, Quotient
<1>3. f \in Injection(block, R)
  <2>1. f \in [block -> R]
    BY <1>2
  <2>2. \A i, j \in block : f[i] = f[j] => i = j
    BY Ranks
  <2> QED BY <2>1, <2>2 DEF Injection, IsInjective
<1>4. c * q \in Int /\ c * q + c - 1 \in Int
  OBVIOUS
<1>5. IsFiniteSet(R) /\ Cardinality(R) = c
  BY <1>4, FS_Interval
<1> HIDE DEF block, R, f
<1>6. Cardinality(block) <= c
  BY <1>3, <1>5, FS_Injection
<1>7. Cardinality(block) \in Nat
  BY <1>1, FS_CardinalityType
<1> QED BY <1>1, <1>6, <1>7 DEF block

\* The blocks of c ranks are as many as c goes into the size, rounded up, and none is empty.
LEMMA BlockNumbers ==
  ASSUME NEW S \in SUBSET Int, IsFiniteSet(S), NEW c \in Nat \ {0}
  PROVE  LET blocks == (Cardinality(S) + c - 1) \div c IN
         /\ blocks \in Nat
         /\ \A i \in S : Rank(S, i) \div c + 1 \in 1 .. blocks
         /\ \A n \in 1 .. blocks : \E i \in S : Rank(S, i) \div c = n - 1
<1> DEFINE N == Cardinality(S)
           blocks == (N + c - 1) \div c
<1>1. N \in Nat /\ N + c - 1 \in Nat
  BY Ranks
<1>2. blocks \in Nat /\ c * blocks <= N + c - 1 /\ N + c - 1 < c * blocks + c
  BY <1>1, Quotient
<1> HIDE DEF blocks
<1>3. ASSUME NEW i \in S PROVE Rank(S, i) \div c + 1 \in 1 .. blocks
  <2> DEFINE q == Rank(S, i) \div c
  <2>1. Rank(S, i) \in Nat /\ Rank(S, i) < N
    BY Ranks
  <2>2. q \in Nat /\ c * q <= Rank(S, i)
    BY <2>1, Quotient
  <2> HIDE DEF q
  <2>3. c * q < c * blocks
    BY <1>1, <1>2, <2>1, <2>2
  <2>4. q < blocks
    BY <1>2, <2>2, <2>3
  <2> QED BY <1>2, <2>2, <2>4 DEF q
<1>4. ASSUME NEW n \in 1 .. blocks PROVE \E i \in S : Rank(S, i) \div c = n - 1
  <2> DEFINE k == c * (n - 1)
  <2>1. n - 1 \in Nat /\ k \in Nat
    BY <1>2
  <2>2. c * n <= c * blocks /\ c * n = k + c
    BY <1>2
  <2>3. k < N
    BY <1>1, <1>2, <2>1, <2>2
  <2>4. PICK i \in S : Rank(S, i) = k
    BY <2>1, <2>3, Ranks
  <2>5. k \div c = n - 1
    BY <2>1
  <2> QED BY <2>4, <2>5
<1> QED BY <1>2, <1>3, <1>4 DEF blocks

-------------------------------------------------------------------------------
(***************************************************************************)
(* The calls to CloudWatch.  A group's calls are blocks of its resources,  *)
(* so each resource is of exactly one; what a group has behind it, what it *)
(* is archiving and what it has still to ask are told apart by the call.   *)
(***************************************************************************)

LEMMA SameSizes == \A X : C!Cardinality(X) = Cardinality(X) /\ (C!IsFiniteSet(X) <=> IsFiniteSet(X))
BY DEF C!Cardinality, Cardinality, C!IsFiniteSet, IsFiniteSet

\* How many resources go into a call.
LEMMA PerCallFacts ==
  ASSUME C!ConstantsFit, NEW g \in C!Group
  PROVE  /\ C!QueriesPerResource(g) \in Nat \ {0} /\ C!PerCall(g) \in Nat \ {0}
         /\ C!PerCall(g) * C!QueriesPerResource(g) <= MaxQueries \/ C!PerCall(g) = 1
<1> DEFINE q == C!QueriesPerResource(g)
           m == MaxQueries \div q
           c == C!PerCall(g)
<1>1. q \in Nat \ {0}
  <2>1. /\ IsFiniteSet(Areas[g].metrics) /\ Areas[g].metrics # {}
        /\ Areas[g].statistics \in Nat \ {0}
    BY SameSizes DEF C!ConstantsFit
  <2>2. Cardinality(Areas[g].metrics) \in Nat \ {0}
    BY <2>1, FS_CardinalityType, FS_EmptySet
  <2>3. q = Cardinality(Areas[g].metrics) * Areas[g].statistics
    BY SameSizes DEF C!QueriesPerResource
  <2> QED BY <2>1, <2>2, <2>3
<1>2. MaxQueries \in Nat \ {0}
  BY DEF C!ConstantsFit
<1> HIDE DEF q
<1>3. m \in Nat /\ q * m <= MaxQueries
  BY <1>1, <1>2, Quotient
<1>4. c = CHOOSE x \in {1, m} : \A y \in {1, m} : x >= y
  BY DEF C!PerCall, C!Max, q
<1> HIDE DEF m, c
<1>5. \E x \in {1, m} : \A y \in {1, m} : x >= y
  BY <1>3
<1>6. c \in {1, m} /\ \A y \in {1, m} : c >= y
  BY <1>4, <1>5
<1>7. c \in Nat \ {0}
  BY <1>3, <1>6
<1>8. c * q <= MaxQueries \/ c = 1
  BY <1>1, <1>2, <1>3, <1>6
<1> QED BY <1>1, <1>7, <1>8 DEF q, c

\* The calls of a group are within the limit, and each of its resources is of one.
LEMMA CallFacts ==
  ASSUME C!ConstantsFit, NEW g \in C!Group
  PROVE  /\ C!Calls(g) \in Nat
         /\ \A n : C!Call(g, n) \subseteq C!Members(Areas[g].resources)
         /\ \A n \in 1 .. C!Calls(g) : C!Call(g, n) # {} /\ C!InLimit(g, n)
         /\ \A r \in C!Members(Areas[g].resources) :
              r \in Named => \E n \in 1 .. C!Calls(g) : r \in C!Call(g, n)
         /\ \A n, k \in Nat : \A r : r \in C!Call(g, n) /\ r \in C!Call(g, k) => n = k
<1> DEFINE res == Areas[g].resources
           S == C!Askable(g)
           c == C!PerCall(g)
           q == C!QueriesPerResource(g)
<1>1. /\ res \in Seq(C!Members(res)) /\ \A i, j \in DOMAIN res : res[i] = res[j] => i = j
      /\ c \in Nat \ {0} /\ q \in Nat \ {0} /\ (c * q <= MaxQueries \/ c = 1)
      /\ MaxQueries \in Nat
  BY PerCallFacts DEF C!ConstantsFit
<1>2. /\ S \in SUBSET Int /\ IsFiniteSet(S)
      /\ \A i \in S : i \in DOMAIN res /\ res[i] \in Named
      /\ \A i \in DOMAIN res : res[i] \in Named => i \in S
  <2>1. DOMAIN res = 1 .. Len(res) /\ Len(res) \in Nat
    BY <1>1, LenProperties
  <2>2. S \subseteq 1 .. Len(res)
    BY <2>1 DEF C!Askable
  <2>3. IsFiniteSet(1 .. Len(res))
    <3> HIDE DEF res
    <3> QED BY <2>1, FS_Interval
  <2>4. IsFiniteSet(S)
    <3> HIDE DEF S, res
    <3> QED BY <2>2, <2>3, FS_Subset
  <2>5. \A i \in S : i \in 1 .. Len(res) /\ res[i] \in Named
    BY <2>1 DEF C!Askable
  <2>6. S \in SUBSET Int
    BY <2>1, <2>5
  <2>7. \A i \in DOMAIN res : res[i] \in Named => i \in S
    BY DEF C!Askable
  <2> QED BY <2>1, <2>4, <2>5, <2>6, <2>7
<1>3. C!Calls(g) = (Cardinality(S) + c - 1) \div c
  BY SameSizes DEF C!Calls
<1>4. \A i : C!CallOf(g, i) = Rank(S, i) \div c + 1
  BY SameSizes DEF C!CallOf, Rank, Below
<1>5. \A n : C!Call(g, n) = {res[i] : i \in {i \in S : Rank(S, i) \div c + 1 = n}}
  BY <1>4 DEF C!Call
<1>6. \A n : C!Call(g, n) \subseteq C!Members(res)
  BY <1>2, <1>5 DEF C!Members
<1> HIDE DEF res, S, c, q
<1> DEFINE N == (Cardinality(S) + c - 1) \div c
<1>12. /\ N \in Nat
       /\ \A i \in S : Rank(S, i) \div c + 1 \in 1 .. N
       /\ \A n \in 1 .. N : \E i \in S : Rank(S, i) \div c = n - 1
  BY <1>1, <1>2, BlockNumbers
<1>13. C!Calls(g) = N
  BY <1>3
<1> HIDE DEF N
<1>7. \A i \in S : Rank(S, i) \in Nat /\ Rank(S, i) \div c \in Nat
  BY <1>1, <1>2, Ranks, Quotient
<1>8. ASSUME NEW n \in 1 .. C!Calls(g)
      PROVE  C!Call(g, n) # {} /\ C!InLimit(g, n)
  <2> DEFINE block == {i \in S : Rank(S, i) \div c = n - 1}
             f == [i \in block |-> res[i]]
             T == C!Call(g, n)
  <2>1. C!Calls(g) \in Nat /\ n - 1 \in Nat
    BY <1>12, <1>13
  <2>2. IsFiniteSet(block) /\ Cardinality(block) \in Nat /\ Cardinality(block) <= c
    <3> HIDE DEF block
    <3> DEFINE b(k) == {i \in S : Rank(S, i) \div c = k}
    <3>1. \A k \in Nat : IsFiniteSet(b(k)) /\ Cardinality(b(k)) \in Nat /\ Cardinality(b(k)) <= c
      BY <1>1, <1>2, BlockSize
    <3>2. block = b(n - 1)
      BY DEF block
    <3> QED BY <2>1, <3>1, <3>2
  <2>3. \A i \in S : Rank(S, i) \div c + 1 = n <=> Rank(S, i) \div c = n - 1
    BY <1>7, <2>1
  <2>4. T = {res[i] : i \in block}
    BY <1>5, <2>3
  <2>5. \E i \in S : Rank(S, i) \div c = n - 1
    BY <1>12, <1>13
  <2> HIDE DEF T, block
  <2>6. T # {}
    BY <2>4, <2>5 DEF block
  <2>7. f \in Surjection(block, T)
    BY <2>4 DEF Surjection
  <2>8. IsFiniteSet(T) /\ Cardinality(T) <= Cardinality(block)
    BY <2>2, <2>7, FS_Surjection
  <2>9. Cardinality(T) \in Nat /\ Cardinality(T) <= c /\ Cardinality(T) # 0
    BY <1>1, <2>2, <2>6, <2>8, FS_CardinalityType, FS_EmptySet
  <2>10. Cardinality(T) * q <= MaxQueries \/ Cardinality(T) = 1
    <3>1. CASE c = 1
      BY <2>9, <3>1
    <3>2. CASE c * q <= MaxQueries
      <4> DEFINE k == Cardinality(T)
      <4>1. k \in Nat /\ k <= c
        BY <2>9
      <4> HIDE DEF k
      <4>2. k * q <= c * q
        BY <1>1, <4>1
      <4>3. k * q <= MaxQueries
        BY <1>1, <3>2, <4>1, <4>2
      <4> QED BY <4>3 DEF k
    <3> QED BY <1>1, <3>1, <3>2
  <2> QED BY <2>6, <2>10, SameSizes DEF C!InLimit, T, q
<1>9. ASSUME NEW r \in C!Members(res), r \in Named
      PROVE  \E n \in 1 .. C!Calls(g) : r \in C!Call(g, n)
  <2>1. PICK i \in DOMAIN res : res[i] = r
    BY DEF C!Members
  <2>2. i \in S
    BY <1>2, <1>9, <2>1
  <2>3. Rank(S, i) \div c + 1 \in 1 .. C!Calls(g)
    BY <1>12, <1>13, <2>2
  <2> QED BY <1>5, <2>1, <2>2, <2>3
<1>10. ASSUME NEW n \in Nat, NEW k \in Nat, NEW r, r \in C!Call(g, n), r \in C!Call(g, k)
       PROVE  n = k
  <2>1. PICK i \in S : res[i] = r /\ Rank(S, i) \div c + 1 = n
    BY <1>5, <1>10
  <2>2. PICK j \in S : res[j] = r /\ Rank(S, j) \div c + 1 = k
    BY <1>5, <1>10
  <2>3. i = j
    BY <1>1, <1>2, <2>1, <2>2
  <2> QED BY <2>1, <2>2, <2>3
<1>11. C!Calls(g) \in Nat
  BY <1>12, <1>13
<1> QED BY <1>6, <1>8, <1>9, <1>10, <1>11 DEF res

\* The calls a group has behind it hold the resource.
Behind(p) == \E n \in 1 .. made[p[1]] : p[2] \in C!Call(p[1], n)

Times(p) == summed[p] + missed[p] + (IF answers[p] = "nothing" THEN 1 ELSE 0)

Resource == UNION {C!Members(Areas[g].resources) : g \in C!Group}

CallTypes ==
  /\ made \in [C!Group -> Nat] /\ answering \in [C!Group -> SUBSET Resource]
  /\ answers \in [C!Pair -> C!Status \cup {"due"}] /\ silent \subseteq C!Region
  /\ filed \in [pairs : SUBSET C!Pair, complete : BOOLEAN]
  /\ summed \in [C!Pair -> Nat] /\ missed \in [C!Pair -> Nat]
  /\ verdict \in {"collecting", "collected", "unreachable", "no_statistics"}

\* What is being archived is the next call; and nothing is left when it is judged.
CallsInOrder ==
  /\ \A g \in C!Group : made[g] <= C!Calls(g)
  /\ \A g \in C!Group : answering[g] # {} =>
       /\ verdict = "collecting" /\ made[g] < C!Calls(g)
       /\ answering[g] = C!Call(g, made[g] + 1)
  /\ verdict # "collecting" => \A g \in C!Group : made[g] = C!Calls(g)

\* A pair is accounted for by its call and by no other.
AccountedByCall ==
  \A p \in C!Pair :
    /\ Behind(p) => Times(p) = 1
    /\ ~Behind(p) => /\ summed[p] = 0 /\ missed[p] = 0
                     /\ answers[p] = "due" \/ p[2] \in answering[p[1]]
    /\ p[2] \in answering[p[1]] => answers[p] # "due"

CallsInv == CallTypes /\ CallsInOrder /\ AccountedByCall /\ C!ReplayFoldsTheSame

LEMMA PairFacts ==
  ASSUME NEW p \in C!Pair
  PROVE  /\ p[1] \in C!Group /\ p[2] \in C!Members(Areas[p[1]].resources)
         /\ \A g, R : p \in C!PairsOf(g, R) <=> p[1] = g /\ p[2] \in R
<1>1. PICK h \in C!Group : p \in C!PairsOf(h, C!Members(Areas[h].resources))
  BY DEF C!Pair
<1>2. /\ p = <<p[1], p[2], p[3]>> /\ p[1] = h /\ p[2] \in C!Members(Areas[h].resources)
      /\ p[3] \in Areas[h].metrics
  BY <1>1 DEF C!PairsOf
<1> QED BY <1>2 DEF C!PairsOf

\* A group's next call: the pairs that come to be behind it.
LEMMA NextCall ==
  ASSUME C!ConstantsFit, CallTypes, CallsInOrder, NEW g \in C!Group,
         made' = [made EXCEPT ![g] = @ + 1], NEW p \in C!Pair
  PROVE  /\ Behind(p)' <=> Behind(p) \/ (p[1] = g /\ p[2] \in C!Call(g, made[g] + 1))
         /\ p[1] = g /\ p[2] \in C!Call(g, made[g] + 1) => ~Behind(p)
<1>1. made[g] \in Nat /\ made[p[1]] \in Nat /\ p[1] \in C!Group /\ made'[g] = made[g] + 1
      /\ (p[1] # g => made'[p[1]] = made[p[1]])
  BY PairFacts DEF CallTypes
<1>2. CASE p[1] # g
  BY <1>1, <1>2 DEF Behind
<1>3. CASE p[1] = g
  <2>1. 1 .. made[g] + 1 = 1 .. made[g] \cup {made[g] + 1}
    BY <1>1
  <2>2. Behind(p)' <=> \E n \in 1 .. made[g] + 1 : p[2] \in C!Call(g, n)
    BY <1>1, <1>3 DEF Behind
  <2>3. \A n \in 1 .. made[g] : n \in Nat /\ made[g] + 1 \in Nat /\ n # made[g] + 1
    BY <1>1
  <2>4. p[2] \in C!Call(g, made[g] + 1) => ~Behind(p)
    BY <1>3, <2>3, CallFacts DEF Behind
  <2> QED BY <1>3, <2>1, <2>2, <2>4 DEF Behind
<1> QED BY <1>2, <1>3

LEMMA CallsInit == C!ConstantsFit /\ C!Init => CallsInv
<1> SUFFICES ASSUME C!ConstantsFit, C!Init PROVE CallsInv
  OBVIOUS
<1>1. CallTypes
  BY DEF C!Init, CallTypes
<1>2. CallsInOrder
  BY CallFacts DEF C!Init, CallsInOrder
<1>3. AccountedByCall
  <2> SUFFICES ASSUME NEW p \in C!Pair
               PROVE  ~Behind(p) /\ summed[p] = 0 /\ missed[p] = 0 /\ answers[p] = "due"
                      /\ p[2] \notin answering[p[1]]
    BY DEF AccountedByCall
  <2>1. made[p[1]] = 0 /\ answering[p[1]] = {}
    BY PairFacts DEF C!Init
  <2> QED BY <2>1 DEF C!Init, Behind
<1>4. C!ReplayFoldsTheSame
  BY DEF C!Init, C!ReplayFoldsTheSame
<1> QED BY <1>1, <1>2, <1>3, <1>4 DEF CallsInv

LEMMA FailsStep ==
  ASSUME C!ConstantsFit, CallsInv, NEW g \in C!Group, C!Fails(g) PROVE CallsInv'
<1> DEFINE new == C!PairsOf(g, C!Call(g, made[g] + 1))
<1>1. /\ CallTypes /\ CallsInOrder /\ AccountedByCall /\ C!ReplayFoldsTheSame
      /\ verdict = "collecting" /\ answering[g] = {} /\ made[g] < C!Calls(g)
      /\ made' = [made EXCEPT ![g] = @ + 1] /\ silent' = silent \cup {Areas[g].region}
      /\ missed' = C!Once(missed, new)
      /\ UNCHANGED <<answering, answers, filed, summed, verdict>>
  BY DEF CallsInv, C!Fails, C!Due
<1>2. /\ made[g] \in Nat /\ C!Calls(g) \in Nat /\ made'[g] = made[g] + 1
      /\ \A h \in C!Group : h # g => made'[h] = made[h]
  BY <1>1, CallFacts DEF CallTypes
<1>3. \A p \in C!Pair : missed'[p] = (IF p \in new THEN missed[p] + 1 ELSE missed[p])
  BY <1>1 DEF C!Once
<1>4. CallTypes'
  <2>1. made' \in [C!Group -> Nat] /\ silent' \subseteq C!Region
    BY <1>1 DEF CallTypes, C!Region
  <2>2. missed' \in [C!Pair -> Nat]
    BY <1>1 DEF CallTypes, C!Once
  <2> QED BY <1>1, <2>1, <2>2 DEF CallTypes
<1>5. CallsInOrder'
  <2>1. \A h \in C!Group : made'[h] <= C!Calls(h)
    BY <1>1, <1>2 DEF CallsInOrder
  <2> QED BY <1>1, <1>2, <2>1 DEF CallsInOrder
<1>6. AccountedByCall'
  <2> SUFFICES ASSUME NEW p \in C!Pair
               PROVE  /\ Behind(p)' => Times(p)' = 1
                      /\ ~Behind(p)' => /\ summed'[p] = 0 /\ missed'[p] = 0
                                        /\ answers'[p] = "due" \/ p[2] \in answering'[p[1]]
                      /\ p[2] \in answering'[p[1]] => answers'[p] # "due"
    BY DEF AccountedByCall
  <2>1. CASE p \in new
    <3>1. p[1] = g /\ p[2] \in C!Call(g, made[g] + 1)
      BY <2>1, PairFacts
    <3>2. ~Behind(p) /\ Behind(p)'
      BY <1>1, <3>1, NextCall
    <3>3. summed[p] = 0 /\ missed[p] = 0 /\ answers[p] = "due" /\ p[2] \notin answering[p[1]]
      BY <1>1, <3>1, <3>2 DEF AccountedByCall
    <3> QED BY <1>1, <1>3, <2>1, <3>2, <3>3 DEF Times
  <2>2. CASE p \notin new
    <3>1. ~(p[1] = g /\ p[2] \in C!Call(g, made[g] + 1))
      BY <2>2, PairFacts
    <3>2. Behind(p)' <=> Behind(p)
      BY <1>1, <3>1, NextCall
    <3> QED BY <1>1, <1>3, <2>2, <3>2 DEF AccountedByCall, Times
  <2> QED BY <2>1, <2>2
<1>7. C!ReplayFoldsTheSame'
  BY <1>1 DEF C!ReplayFoldsTheSame
<1> QED BY <1>4, <1>5, <1>6, <1>7 DEF CallsInv

LEMMA AnswersStep ==
  ASSUME C!ConstantsFit, CallsInv, NEW g \in C!Group, C!Answers(g) PROVE CallsInv'
<1> DEFINE resources == C!Call(g, made[g] + 1)
           new == C!PairsOf(g, resources)
<1>1. /\ CallTypes /\ CallsInOrder /\ AccountedByCall /\ C!ReplayFoldsTheSame
      /\ verdict = "collecting" /\ answering[g] = {} /\ made[g] < C!Calls(g)
      /\ answering' = [answering EXCEPT ![g] = resources]
      /\ UNCHANGED <<made, silent, filed, summed, missed, verdict>>
  BY DEF CallsInv, C!Answers, C!Due
<1>2. PICK said \in [new -> C!Status] :
        answers' = [p \in C!Pair |-> IF p \in DOMAIN said THEN said[p] ELSE answers[p]]
  BY DEF C!Answers
<1>3. /\ answers' \in [C!Pair -> C!Status \cup {"due"}]
      /\ \A p \in C!Pair : p \in new => answers'[p] \in C!Status
      /\ \A p \in C!Pair : p \notin new => answers'[p] = answers[p]
  <2> HIDE DEF new
  <2> QED BY <1>1, <1>2 DEF CallTypes
<1>4. CallTypes'
  <2>1. resources \subseteq Resource
    BY CallFacts DEF Resource
  <2>2. answering' \in [C!Group -> SUBSET Resource]
    BY <1>1, <2>1 DEF CallTypes
  <2> QED BY <1>1, <1>3, <2>2 DEF CallTypes
<1>5. answering'[g] = resources /\ \A h \in C!Group : h # g => answering'[h] = answering[h]
  BY <1>1 DEF CallTypes
<1>6. CallsInOrder'
  BY <1>1, <1>5 DEF CallsInOrder
<1>7. AccountedByCall'
  <2> SUFFICES ASSUME NEW p \in C!Pair
               PROVE  /\ Behind(p)' => Times(p)' = 1
                      /\ ~Behind(p)' => /\ summed'[p] = 0 /\ missed'[p] = 0
                                        /\ answers'[p] = "due" \/ p[2] \in answering'[p[1]]
                      /\ p[2] \in answering'[p[1]] => answers'[p] # "due"
    BY DEF AccountedByCall
  <2>1. Behind(p)' <=> Behind(p)
    BY <1>1 DEF Behind
  <2>2. CASE p \in new
    <3>1. p[1] = g /\ p[2] \in resources
      BY <2>2, PairFacts
    <3>2. ~Behind(p)
      <4> DEFINE next == [made EXCEPT ![g] = @ + 1]
      <4>1. made[g] \in Nat
        BY <1>1 DEF CallTypes
      <4> QED BY <3>1, <4>1, CallFacts DEF Behind
    <3>3. summed[p] = 0 /\ missed[p] = 0
      BY <1>1, <3>2 DEF AccountedByCall
    <3>4. answers'[p] # "due"
      BY <1>3, <2>2 DEF C!Status
    <3> QED BY <1>1, <1>5, <2>1, <3>1, <3>2, <3>3, <3>4
  <2>3. CASE p \notin new
    <3>1. ~(p[1] = g /\ p[2] \in resources)
      BY <2>3, PairFacts
    <3>2. \/ answering'[p[1]] = answering[p[1]]
          \/ p[1] = g /\ p[2] \notin answering'[p[1]] /\ answering[p[1]] = {}
      BY <1>1, <1>5, <3>1, PairFacts
    <3>3. answers'[p] = answers[p]
      BY <1>3, <2>3
    <3> QED BY <1>1, <2>1, <3>2, <3>3 DEF AccountedByCall, Times
  <2> QED BY <2>2, <2>3
<1>8. C!ReplayFoldsTheSame'
  BY <1>1 DEF C!ReplayFoldsTheSame
<1> QED BY <1>4, <1>6, <1>7, <1>8 DEF CallsInv

LEMMA FoldsStep ==
  ASSUME C!ConstantsFit, CallsInv, NEW g \in C!Group, C!Folds(g) PROVE CallsInv'
<1> DEFINE pairs == C!PairsOf(g, answering[g])
           fold == C!Foldable(pairs)
           gap == C!Refused(pairs)
<1>1. /\ CallTypes /\ CallsInOrder /\ AccountedByCall /\ C!ReplayFoldsTheSame
      /\ answering[g] # {}
      /\ made' = [made EXCEPT ![g] = @ + 1]
      /\ answering' = [answering EXCEPT ![g] = {}]
      /\ summed' = C!Once(summed, fold) /\ missed' = C!Once(missed, gap)
      /\ UNCHANGED <<answers, silent, verdict>>
  BY DEF CallsInv, C!Folds
<1>2. PICK wrote \in BOOLEAN :
        filed' = [pairs |-> IF wrote THEN filed.pairs \cup fold ELSE filed.pairs,
                  complete |-> filed.complete /\ wrote]
  BY DEF C!Folds
<1>3. verdict = "collecting" /\ made[g] < C!Calls(g) /\ answering[g] = C!Call(g, made[g] + 1)
  BY <1>1 DEF CallsInOrder
<1>4. /\ made[g] \in Nat /\ C!Calls(g) \in Nat /\ made'[g] = made[g] + 1
      /\ \A h \in C!Group : h # g => made'[h] = made[h] /\ answering'[h] = answering[h]
      /\ answering'[g] = {}
  BY <1>1, CallFacts DEF CallTypes
<1>5. \A p \in C!Pair : p \in pairs <=> p[1] = g /\ p[2] \in answering[g]
  BY PairFacts
<1>6. \A p : /\ p \in fold <=> p \in pairs /\ answers[p] = "points"
             /\ p \in gap <=> p \in pairs /\ answers[p] = "refused"
  BY DEF C!Foldable, C!Refused
<1> HIDE DEF pairs, fold, gap
<1>7. /\ \A p \in C!Pair : summed'[p] = (IF p \in fold THEN summed[p] + 1 ELSE summed[p])
      /\ \A p \in C!Pair : missed'[p] = (IF p \in gap THEN missed[p] + 1 ELSE missed[p])
      /\ summed' \in [C!Pair -> Nat] /\ missed' \in [C!Pair -> Nat]
  BY <1>1 DEF C!Once, CallTypes
<1>8. fold \subseteq C!Pair
  <2>1. answering[g] \subseteq C!Members(Areas[g].resources)
    BY <1>3, CallFacts
  <2>2. pairs \subseteq C!Pair
    BY <2>1 DEF pairs, C!PairsOf, C!Pair
  <2> QED BY <1>6, <2>2
<1>9. CallTypes'
  <2>1. made' \in [C!Group -> Nat] /\ answering' \in [C!Group -> SUBSET Resource]
    BY <1>1 DEF CallTypes
  <2>2. filed' \in [pairs : SUBSET C!Pair, complete : BOOLEAN]
    BY <1>1, <1>2, <1>8 DEF CallTypes
  <2> QED BY <1>1, <1>7, <2>1, <2>2 DEF CallTypes
<1>10. CallsInOrder'
  <2>1. \A h \in C!Group : made'[h] <= C!Calls(h)
    BY <1>1, <1>3, <1>4 DEF CallsInOrder
  <2> QED BY <1>1, <1>3, <1>4, <2>1 DEF CallsInOrder
<1>11. AccountedByCall'
  <2> SUFFICES ASSUME NEW p \in C!Pair
               PROVE  /\ Behind(p)' => Times(p)' = 1
                      /\ ~Behind(p)' => /\ summed'[p] = 0 /\ missed'[p] = 0
                                        /\ answers'[p] = "due" \/ p[2] \in answering'[p[1]]
                      /\ p[2] \in answering'[p[1]] => answers'[p] # "due"
    BY DEF AccountedByCall
  <2>1. CASE p \in pairs
    <3>1. p[1] = g /\ p[2] \in C!Call(g, made[g] + 1) /\ p[2] \in answering[p[1]]
      BY <1>3, <1>5, <2>1
    <3>2. ~Behind(p) /\ Behind(p)'
      BY <1>1, <3>1, NextCall
    <3>3. summed[p] = 0 /\ missed[p] = 0 /\ answers[p] # "due"
      BY <1>1, <3>1, <3>2 DEF AccountedByCall
    <3>4. answers[p] \in C!Status
      BY <1>1, <3>3 DEF CallTypes
    <3>5. Times(p)' = 1
      BY <1>1, <1>6, <1>7, <2>1, <3>3, <3>4 DEF Times, C!Status
    <3> QED BY <1>4, <3>1, <3>2, <3>5
  <2>2. CASE p \notin pairs
    <3>1. ~(p[1] = g /\ p[2] \in C!Call(g, made[g] + 1))
      BY <1>3, <1>5, <2>2
    <3>2. Behind(p)' <=> Behind(p)
      BY <1>1, <3>1, NextCall
    <3>3. summed'[p] = summed[p] /\ missed'[p] = missed[p]
      BY <1>6, <1>7, <2>2
    <3>4. p[2] \in answering'[p[1]] <=> p[2] \in answering[p[1]]
      BY <1>3, <1>4, <3>1, PairFacts
    <3> QED BY <1>1, <3>2, <3>3, <3>4 DEF AccountedByCall, Times
  <2> QED BY <2>1, <2>2
<1>12. C!ReplayFoldsTheSame'
  <2> SUFFICES ASSUME filed'.complete PROVE filed'.pairs = {p \in C!Pair : summed'[p] > 0}
    BY DEF C!ReplayFoldsTheSame
  <2>1. filed.complete /\ filed'.pairs = filed.pairs \cup fold
    BY <1>2
  <2>2. filed.pairs = {p \in C!Pair : summed[p] > 0}
    BY <1>1, <2>1 DEF C!ReplayFoldsTheSame
  <2>3. \A p \in C!Pair : summed'[p] > 0 <=> summed[p] > 0 \/ p \in fold
    BY <1>1, <1>7 DEF CallTypes
  <2> QED BY <1>8, <2>1, <2>2, <2>3
<1> QED BY <1>9, <1>10, <1>11, <1>12 DEF CallsInv

LEMMA GateStep == ASSUME C!ConstantsFit, CallsInv, C!Gate PROVE CallsInv'
<1>1. /\ CallTypes /\ CallsInOrder /\ AccountedByCall /\ C!ReplayFoldsTheSame
      /\ \A g \in C!Group : made[g] = C!Calls(g)
      /\ verdict' \in {"collected", "unreachable", "no_statistics"}
      /\ UNCHANGED <<made, answering, answers, silent, filed, summed, missed>>
  BY DEF CallsInv, C!Gate
<1>2. CallTypes'
  BY <1>1 DEF CallTypes
<1>3. \A g \in C!Group : answering[g] = {}
  BY <1>1, CallFacts DEF CallsInOrder
<1>4. CallsInOrder'
  BY <1>1, <1>3 DEF CallsInOrder
<1>5. AccountedByCall'
  BY <1>1 DEF AccountedByCall, Behind, Times
<1>6. C!ReplayFoldsTheSame'
  BY <1>1 DEF C!ReplayFoldsTheSame
<1> QED BY <1>2, <1>4, <1>5, <1>6 DEF CallsInv

\* The inductive invariant: the calls of a group that are behind it have accounted for their
\* resources, and nothing else has.
THEOREM CallsInvariance == ASSUME C!ConstantsFit PROVE C!Spec => []CallsInv
<1>1. CallsInv /\ [C!Next]_C!vars => CallsInv'
  <2>1. CASE C!Next
    BY <2>1, FailsStep, AnswersStep, FoldsStep, GateStep DEF C!Next
  <2>2. CASE UNCHANGED C!vars
    BY <2>2 DEF C!vars, CallsInv, CallTypes, CallsInOrder, AccountedByCall, Behind, Times,
                C!ReplayFoldsTheSame
  <2> QED BY <2>1, <2>2
<1> QED BY <1>1, CallsInit, PTL DEF C!Spec

\* Whatever answers, fails or cannot be written: the calls to CloudWatch are in order, each
\* pair is folded, reported or without points, and only one of these, and a complete archive
\* holds what was folded.
THEOREM CallsAccounted ==
  ASSUME C!ConstantsFit PROVE C!Spec => [](C!TypeOK /\ C!EachPairOnce /\ C!ReplayFoldsTheSame)
<1>1. ASSUME CallsInv PROVE C!TypeOK /\ C!EachPairOnce /\ C!ReplayFoldsTheSame
  <2>1. CallTypes /\ CallsInOrder /\ AccountedByCall /\ C!ReplayFoldsTheSame
    BY <1>1 DEF CallsInv
  <2>2. C!TypeOK
    <3>1. ASSUME NEW g \in C!Group
          PROVE  made[g] \in 0 .. C!Calls(g) /\ answering[g] \subseteq C!Members(Areas[g].resources)
      <4>1. made[g] \in Nat /\ C!Calls(g) \in Nat /\ made[g] <= C!Calls(g)
        BY <2>1, CallFacts DEF CallTypes, CallsInOrder
      <4>2. answering[g] = {} \/ answering[g] = C!Call(g, made[g] + 1)
        BY <2>1 DEF CallsInOrder
      <4> QED BY <4>1, <4>2, CallFacts
    <3> QED BY <2>1, <3>1 DEF C!TypeOK, CallTypes
  <2>3. C!EachPairOnce
    <3>1. \A g \in C!Group : \A n \in 1 .. C!Calls(g) : C!InLimit(g, n)
      BY CallFacts
    <3>2. ASSUME NEW p \in C!Pair
          PROVE  Times(p) <= 1 /\ (verdict # "collecting" /\ p[2] \in Named => Times(p) = 1)
      <4>1. CASE Behind(p)
        BY <2>1, <4>1 DEF AccountedByCall
      <4>2. CASE ~Behind(p)
        <5>1. Times(p) <= 1
          BY <2>1, <4>2 DEF AccountedByCall, Times
        <5>2. ASSUME verdict # "collecting", p[2] \in Named PROVE FALSE
          <6>1. p[1] \in C!Group /\ p[2] \in C!Members(Areas[p[1]].resources)
            BY PairFacts
          <6>2. PICK n \in 1 .. C!Calls(p[1]) : p[2] \in C!Call(p[1], n)
            BY <5>2, <6>1, CallFacts
          <6>3. made[p[1]] = C!Calls(p[1])
            BY <2>1, <5>2, <6>1 DEF CallsInOrder
          <6> QED BY <4>2, <6>2, <6>3 DEF Behind
        <5> QED BY <5>1, <5>2
      <4> QED BY <4>1, <4>2
    <3> QED BY <3>1, <3>2 DEF C!EachPairOnce, Times
  <2> QED BY <2>1, <2>2, <2>3
<1> QED BY <1>1, CallsInvariance, PTL

-------------------------------------------------------------------------------
(***************************************************************************)
(* The requests to Azure.  Whatever a request turns into holds pairs of    *)
(* its own and of no other, so that a pair is always of one request, or    *)
(* folded, or reported, unless a request that had it has raised.           *)
(***************************************************************************)

LEMMA BatchSizes == \A X : B!Cardinality(X) = Cardinality(X) /\ (B!IsFiniteSet(X) <=> IsFiniteSet(X))
BY DEF B!Cardinality, Cardinality, B!IsFiniteSet, IsFiniteSet

Raised == {"throttled", "failed", "type_error"}

Metrics(g) == B!Names(Groups[g].metrics)

\* The requests of a group.
TaskType(g) ==
  [group : {g}, resources : (SUBSET B!Resources(g)) \ {{}}, todo : (SUBSET Metrics(g)) \ {{}},
   split : BOOLEAN, pc : {"ready", "batch", "fallback", "waiting", "archiving"},
   throttled : 0 .. MaxConsecutive429 - 1, answered : SUBSET B!Resources(g)]

BatchTypes ==
  /\ outcome \in {"collecting", "collected", "unreachable"} \cup Raised
  /\ group \in DOMAIN Groups
  /\ tasks \subseteq TaskType(group)
  /\ \A t \in tasks : t.answered \subseteq t.resources
  /\ fallbackOnly \cup requested \cup unreachable \subseteq B!Location
  /\ folded \in [B!Pairs -> Nat] /\ gaps \in [B!Pairs -> Nat]
  /\ archive \in [pairs : SUBSET B!Pairs, incomplete : BOOLEAN]

DoneWith(p) == folded[p] + gaps[p]

\* The pairs of the groups so far, and of those to come.
PairsHeld ==
  \A p \in B!Pairs :
    /\ \A t, u \in tasks : B!Has(t, p) /\ B!Has(u, p) => t = u
    /\ DoneWith(p) <= 1
    /\ (\E t \in tasks : B!Has(t, p)) => DoneWith(p) = 0
    /\ p[1] > group => DoneWith(p) = 0
    /\ p[1] <= group /\ DoneWith(p) = 0 => outcome \in Raised \/ \E t \in tasks : B!Has(t, p)

BatchInv ==
  /\ BatchTypes /\ PairsHeld /\ B!ReplayFoldsTheSame
  /\ outcome \in {"collected", "unreachable"} => tasks = {}

LEMMA GroupFacts ==
  ASSUME B!ConstantsFit
  PROVE  /\ DOMAIN Groups = 1 .. Len(Groups) /\ Len(Groups) \in Nat \ {0}
         /\ \A g \in DOMAIN Groups :
              /\ Groups[g].size \in Nat \ {0} /\ B!Resources(g) = 1 .. Groups[g].size
              /\ IsFiniteSet(Metrics(g)) /\ Metrics(g) # {}
         /\ \A p \in B!Pairs :
              p[1] \in DOMAIN Groups /\ p[2] \in B!Resources(p[1]) /\ p[3] \in Metrics(p[1])
         /\ \A g \in DOMAIN Groups : \A R \in SUBSET B!Resources(g), M \in SUBSET Metrics(g) :
              /\ {g} \X R \X M \subseteq B!Pairs
              /\ \A p \in B!Pairs : p \in {g} \X R \X M <=> p[1] = g /\ p[2] \in R /\ p[3] \in M
<1>1. DOMAIN Groups = 1 .. Len(Groups) /\ Len(Groups) \in Nat \ {0}
  <2>1. Groups \in Seq({Groups[g] : g \in DOMAIN Groups}) /\ Groups # <<>>
    BY DEF B!ConstantsFit
  <2> QED BY <2>1, LenProperties, EmptySeq
<1>2. ASSUME NEW g \in DOMAIN Groups
      PROVE  /\ Groups[g].size \in Nat \ {0} /\ B!Resources(g) = 1 .. Groups[g].size
             /\ IsFiniteSet(Metrics(g)) /\ Metrics(g) # {}
  <2> DEFINE seq == Groups[g].metrics
  <2>1. seq \in Seq(DOMAIN Groups[g].aggs) /\ seq # <<>> /\ Groups[g].size \in Nat \ {0}
    BY DEF B!ConstantsFit
  <2>2. Metrics(g) = {seq[i] : i \in DOMAIN seq}
    BY DEF Metrics, B!Names
  <2> HIDE DEF seq
  <2>3. DOMAIN seq = 1 .. Len(seq) /\ Len(seq) \in Nat \ {0}
    BY <2>1, LenProperties, EmptySeq
  <2>4. IsFiniteSet(DOMAIN seq)
    BY <2>3, FS_Interval
  <2>5. [i \in DOMAIN seq |-> seq[i]] \in Surjection(DOMAIN seq, Metrics(g))
    BY <2>2 DEF Surjection
  <2>6. IsFiniteSet(Metrics(g))
    BY <2>4, <2>5, FS_Surjection
  <2> QED BY <2>1, <2>2, <2>3, <2>6 DEF B!Resources
<1>3. ASSUME NEW p \in B!Pairs
      PROVE  p[1] \in DOMAIN Groups /\ p[2] \in B!Resources(p[1]) /\ p[3] \in Metrics(p[1])
             /\ p = <<p[1], p[2], p[3]>>
  <2>1. PICK g \in DOMAIN Groups : p \in {g} \X B!Resources(g) \X B!Names(Groups[g].metrics)
    BY DEF B!Pairs
  <2> QED BY <2>1 DEF Metrics
<1>4. ASSUME NEW g \in DOMAIN Groups, NEW R \in SUBSET B!Resources(g), NEW M \in SUBSET Metrics(g)
      PROVE  /\ {g} \X R \X M \subseteq B!Pairs
             /\ \A p \in B!Pairs : p \in {g} \X R \X M <=> p[1] = g /\ p[2] \in R /\ p[3] \in M
  <2>1. {g} \X R \X M \subseteq B!Pairs
    BY DEF B!Pairs, Metrics
  <2>2. ASSUME NEW p \in B!Pairs
        PROVE  p \in {g} \X R \X M <=> p[1] = g /\ p[2] \in R /\ p[3] \in M
    <3>1. p = <<p[1], p[2], p[3]>>
      BY <1>3
    <3> QED BY <3>1
  <2> QED BY <2>1, <2>2
<1> QED BY <1>1, <1>2, <1>3, <1>4

LEMMA AskedFacts ==
  ASSUME NEW t
  PROVE  /\ B!Asked(t) \subseteq t.todo
         /\ ~t.split => B!Asked(t) = t.todo
BY DEF B!Asked, B!First

\* A fresh request, and whether it has a pair.
LEMMA TaskFacts ==
  ASSUME B!ConstantsFit, NEW g, NEW R \in (SUBSET B!Resources(g)) \ {{}},
         NEW M \in (SUBSET Metrics(g)) \ {{}}, NEW t,
         t = B!Task(g, R, M, TRUE) \/ t = B!Task(g, R, M, FALSE)
  PROVE  /\ t \in TaskType(g) /\ t.answered \subseteq t.resources
         /\ \A p : B!Has(t, p) <=> p[1] = g /\ p[2] \in R /\ p[3] \in M
<1>1. 0 \in 0 .. MaxConsecutive429 - 1
  BY DEF B!ConstantsFit
<1>2. CASE t = B!Task(g, R, M, TRUE)
  BY <1>1, <1>2 DEF B!Task, TaskType, B!Has
<1>3. CASE t = B!Task(g, R, M, FALSE)
  BY <1>1, <1>3 DEF B!Task, TaskType, B!Has
<1> QED BY <1>2, <1>3

\* What becomes of one request: what it turns into and what is counted are pairs of its own.
TurnsInto(t, next, done) ==
  /\ B!Becomes(t, next) /\ group' = group
  /\ outcome' = outcome \/ (outcome' \in Raised /\ outcome = "collecting")
  /\ next \subseteq TaskType(group) /\ \A v \in next : v.answered \subseteq v.resources
  /\ \A p \in B!Pairs :
       /\ \A v \in next : B!Has(v, p) => B!Has(t, p) /\ p \notin done
       /\ \A v, w \in next : B!Has(v, p) /\ B!Has(w, p) => v = w
       /\ p \in done => B!Has(t, p)
       /\ DoneWith(p)' = IF p \in done THEN DoneWith(p) + 1 ELSE DoneWith(p)
       /\ B!Has(t, p) => p \in done \/ outcome' \in Raised \/ \E v \in next : B!Has(v, p)
  /\ folded' \in [B!Pairs -> Nat] /\ gaps' \in [B!Pairs -> Nat]

Accounts ==
  /\ fallbackOnly \cup requested \cup unreachable \subseteq B!Location
  /\ archive \in [pairs : SUBSET B!Pairs, incomplete : BOOLEAN]
  /\ B!ReplayFoldsTheSame

LEMMA StepOf ==
  ASSUME B!ConstantsFit, BatchInv, NEW t \in tasks, NEW next, NEW done,
         TurnsInto(t, next, done), Accounts'
  PROVE  BatchInv'
<1> USE DEF TurnsInto, Accounts
<1>1. /\ tasks' = (tasks \ {t}) \cup next /\ tasks \subseteq TaskType(group) /\ PairsHeld
      /\ folded \in [B!Pairs -> Nat] /\ gaps \in [B!Pairs -> Nat]
      /\ \A u \in tasks : u.answered \subseteq u.resources
      /\ outcome \notin {"collected", "unreachable"}
  BY DEF BatchInv, BatchTypes, B!Becomes
<1>0. group \in Nat /\ group \in DOMAIN Groups
  BY GroupFacts DEF BatchInv, BatchTypes
<1>2. TaskType(group)' = TaskType(group)
  BY DEF TaskType, Metrics, B!Resources, B!Names
<1>3. \A u, p : B!Has(u, p)' <=> B!Has(u, p)
  BY DEF B!Has, B!Asked, B!First
<1>4. PairsHeld'
  <2> SUFFICES ASSUME NEW p \in B!Pairs
               PROVE  /\ \A u, v \in tasks' : B!Has(u, p) /\ B!Has(v, p) => u = v
                      /\ DoneWith(p)' <= 1
                      /\ (\E u \in tasks' : B!Has(u, p)) => DoneWith(p)' = 0
                      /\ p[1] > group' => DoneWith(p)' = 0
                      /\ p[1] <= group' /\ DoneWith(p)' = 0 =>
                           outcome' \in Raised \/ \E u \in tasks' : B!Has(u, p)
    BY <1>3 DEF PairsHeld
  <2>1. /\ \A u, v \in tasks : B!Has(u, p) /\ B!Has(v, p) => u = v
        /\ DoneWith(p) <= 1
        /\ (\E u \in tasks : B!Has(u, p)) => DoneWith(p) = 0
        /\ p[1] > group => DoneWith(p) = 0
        /\ p[1] <= group /\ DoneWith(p) = 0 => outcome \in Raised \/ \E u \in tasks : B!Has(u, p)
    BY <1>1 DEF PairsHeld
  <2>2. DoneWith(p) \in Nat /\ DoneWith(p)' = IF p \in done THEN DoneWith(p) + 1 ELSE DoneWith(p)
    BY <1>1 DEF DoneWith
  <2>3. \A u, v \in tasks' : B!Has(u, p) /\ B!Has(v, p) => u = v
    BY <1>1, <2>1
  <2>4. p \in done => B!Has(t, p) /\ DoneWith(p) = 0 /\ \A u \in tasks' : ~B!Has(u, p)
    BY <1>1, <2>1
  <2>5. (\E u \in tasks' : B!Has(u, p)) => DoneWith(p)' = 0
    BY <1>1, <2>1, <2>2, <2>4
  <2>6. p \in done => p[1] = group
    BY <1>1, <2>4 DEF B!Has, TaskType
  <2>7. p[1] > group' => DoneWith(p)' = 0
    <3>1. CASE p \in done
      <4>1. p[1] = group /\ group' = group
        BY <2>6, <3>1
      <4> QED BY <1>0, <2>1, <2>2, <4>1, <3>1
    <3> QED BY <2>1, <2>2, <3>1
  <2>8. p[1] <= group' /\ DoneWith(p)' = 0 => outcome' \in Raised \/ \E u \in tasks' : B!Has(u, p)
    <3> SUFFICES ASSUME p[1] <= group, DoneWith(p)' = 0, outcome' \notin Raised
                 PROVE  \E u \in tasks' : B!Has(u, p)
      OBVIOUS
    <3>1. p \notin done /\ DoneWith(p) = 0
      BY <2>2
    <3>2. PICK u \in tasks : B!Has(u, p)
      BY <2>1, <3>1
    <3>3. CASE u = t
      BY <1>1, <3>1, <3>2, <3>3
    <3>4. CASE u # t
      BY <1>1, <3>2, <3>4
    <3> QED BY <3>3, <3>4
  <2>9. DoneWith(p)' <= 1
    BY <2>1, <2>2, <2>4
  <2> QED BY <2>3, <2>5, <2>7, <2>8, <2>9
<1>5. tasks' \subseteq TaskType(group)' /\ \A u \in tasks' : u.answered \subseteq u.resources
  BY <1>1, <1>2
<1>6. outcome' \in {"collecting"} \cup Raised
  BY <1>1 DEF BatchInv, BatchTypes, Raised
<1>7. BatchTypes'
  BY <1>0, <1>5, <1>6 DEF BatchTypes
<1> QED BY <1>4, <1>6, <1>7 DEF BatchInv, Raised

Stages == {"ready", "batch", "fallback", "waiting", "archiving"}

Same(v, t) ==
  v.group = t.group /\ v.resources = t.resources /\ v.todo = t.todo /\ v.split = t.split

\* A request that goes on as it is.
LEMMA Moved ==
  ASSUME NEW g, NEW t \in TaskType(g), NEW c \in Stages, NEW v, v = [t EXCEPT !.pc = c]
  PROVE  v \in TaskType(g) /\ Same(v, t) /\ v.pc = c /\ v.answered = t.answered
BY Zenon DEF TaskType, Stages, Same

LEMMA RequestFacts ==
  ASSUME B!ConstantsFit, BatchInv, NEW t \in tasks
  PROVE  /\ group \in DOMAIN Groups /\ t \in TaskType(group) /\ t.group = group
         /\ t.resources \in (SUBSET B!Resources(group)) \ {{}}
         /\ t.todo \in (SUBSET Metrics(group)) \ {{}} /\ t.split \in BOOLEAN
         /\ t.pc \in Stages /\ t.throttled \in 0 .. MaxConsecutive429 - 1
         /\ t.answered \subseteq t.resources
         /\ \A p : B!Has(t, p) <=> /\ p[1] = group /\ p[2] \in t.resources /\ p[3] \in t.todo
                                   /\ t.pc = "archiving" /\ p[3] \in B!Asked(t) => p[2] \in t.answered
         /\ \A R \in SUBSET t.resources :
              /\ B!Covered(t, R) \subseteq B!Pairs
              /\ \A p \in B!Pairs : p \in B!Covered(t, R) <=>
                                     p[1] = group /\ p[2] \in R /\ p[3] \in B!Asked(t)
<1>1. /\ group \in DOMAIN Groups /\ t \in TaskType(group) /\ t.answered \subseteq t.resources
  BY DEF BatchInv, BatchTypes
<1>2. /\ t.group = group /\ t.resources \in (SUBSET B!Resources(group)) \ {{}}
      /\ t.todo \in (SUBSET Metrics(group)) \ {{}} /\ t.split \in BOOLEAN
      /\ t.pc \in Stages /\ t.throttled \in 0 .. MaxConsecutive429 - 1
  BY <1>1 DEF TaskType, Stages
<1>3. \A p : B!Has(t, p) <=> /\ p[1] = group /\ p[2] \in t.resources /\ p[3] \in t.todo
                             /\ t.pc = "archiving" /\ p[3] \in B!Asked(t) => p[2] \in t.answered
  BY <1>2 DEF B!Has
<1>4. ASSUME NEW R \in SUBSET t.resources
      PROVE  /\ B!Covered(t, R) \subseteq B!Pairs
             /\ \A p \in B!Pairs : p \in B!Covered(t, R) <=>
                                    p[1] = group /\ p[2] \in R /\ p[3] \in B!Asked(t)
  <2>1. R \in SUBSET B!Resources(group) /\ B!Asked(t) \in SUBSET Metrics(group)
    BY <1>2, AskedFacts
  <2>2. B!Covered(t, R) = {group} \X R \X B!Asked(t)
    BY <1>2 DEF B!Covered
  <2> QED BY <1>1, <2>1, <2>2, GroupFacts
<1> QED BY <1>1, <1>2, <1>3, <1>4

\* Counting some pairs once more.
LEMMA OnceFacts ==
  ASSUME NEW count \in [B!Pairs -> Nat], NEW pairs
  PROVE  /\ B!Once(count, pairs) \in [B!Pairs -> Nat]
         /\ \A p \in B!Pairs :
              B!Once(count, pairs)[p] = IF p \in pairs THEN count[p] + 1 ELSE count[p]
BY DEF B!Once

\* A request that goes on with all its pairs.
LEMMA SamePairs ==
  ASSUME B!ConstantsFit, BatchInv, NEW t \in tasks, NEW v \in TaskType(group),
         v.answered \subseteq v.resources, \A p \in B!Pairs : B!Has(v, p) <=> B!Has(t, p),
         B!Becomes(t, {v}), UNCHANGED <<outcome, group, folded, gaps, archive>>,
         fallbackOnly' \cup requested' \cup unreachable' \subseteq B!Location
  PROVE  BatchInv'
<1>1. /\ folded \in [B!Pairs -> Nat] /\ gaps \in [B!Pairs -> Nat] /\ B!ReplayFoldsTheSame
      /\ archive \in [pairs : SUBSET B!Pairs, incomplete : BOOLEAN]
  BY DEF BatchInv, BatchTypes
<1>2. \A p \in B!Pairs : DoneWith(p)' = DoneWith(p)
  BY DEF DoneWith
<1>3. B!ReplayFoldsTheSame'
  BY <1>1 DEF B!ReplayFoldsTheSame
<1> DEFINE next == {v}
           done == {}
<1>4. next \subseteq TaskType(group) /\ \A w \in next : w.answered \subseteq w.resources
  OBVIOUS
<1>5. \A p \in B!Pairs : \A w \in next : B!Has(w, p) => B!Has(t, p) /\ p \notin done
  OBVIOUS
<1>6. \A p \in B!Pairs : \A w, u \in next : B!Has(w, p) /\ B!Has(u, p) => w = u
  OBVIOUS
<1>7. \A p \in B!Pairs : p \in done => B!Has(t, p)
  OBVIOUS
<1>8. \A p \in B!Pairs :
        B!Has(t, p) => p \in done \/ outcome' \in Raised \/ \E w \in next : B!Has(w, p)
  OBVIOUS
<1>9. \A p \in B!Pairs : DoneWith(p)' = IF p \in done THEN DoneWith(p) + 1 ELSE DoneWith(p)
  BY <1>2
<1>10. B!Becomes(t, next)
  OBVIOUS
<1>11. folded' \in [B!Pairs -> Nat] /\ gaps' \in [B!Pairs -> Nat]
       /\ archive' \in [pairs : SUBSET B!Pairs, incomplete : BOOLEAN]
  BY <1>1
<1> HIDE DEF next, done
<1>12. TurnsInto(t, next, done) /\ Accounts'
  BY <1>3, <1>4, <1>5, <1>6, <1>7, <1>8, <1>9, <1>10, <1>11 DEF TurnsInto, Accounts
<1> QED BY <1>12, StepOf

\* A request that raises.
LEMMA Dropped ==
  ASSUME B!ConstantsFit, BatchInv, NEW t \in tasks, NEW as \in Raised, B!Raise(t, as),
         UNCHANGED <<group, folded, gaps, archive>>,
         fallbackOnly' \cup requested' \cup unreachable' \subseteq B!Location
  PROVE  BatchInv'
<1>1. /\ folded \in [B!Pairs -> Nat] /\ gaps \in [B!Pairs -> Nat] /\ B!ReplayFoldsTheSame
      /\ archive \in [pairs : SUBSET B!Pairs, incomplete : BOOLEAN]
      /\ outcome \in {"collecting"} \cup Raised
  BY DEF BatchInv, BatchTypes
<1>2. B!ReplayFoldsTheSame'
  BY <1>1 DEF B!ReplayFoldsTheSame
<1> DEFINE next == {}
           done == {}
<1>3. next \subseteq TaskType(group) /\ \A w \in next : w.answered \subseteq w.resources
  OBVIOUS
<1>4. \A p \in B!Pairs : \A w \in next : B!Has(w, p) => B!Has(t, p) /\ p \notin done
  OBVIOUS
<1>5. \A p \in B!Pairs : \A w, u \in next : B!Has(w, p) /\ B!Has(u, p) => w = u
  OBVIOUS
<1>6. \A p \in B!Pairs : p \in done => B!Has(t, p)
  OBVIOUS
<1>7. /\ outcome' = outcome \/ (outcome' \in Raised /\ outcome = "collecting")
      /\ outcome' \in Raised
  BY <1>1 DEF B!Raise
<1>8. \A p \in B!Pairs :
        B!Has(t, p) => p \in done \/ outcome' \in Raised \/ \E w \in next : B!Has(w, p)
  BY <1>7
<1>9. \A p \in B!Pairs : DoneWith(p)' = IF p \in done THEN DoneWith(p) + 1 ELSE DoneWith(p)
  BY DEF DoneWith
<1>10. B!Becomes(t, next)
  BY DEF B!Raise
<1>11. folded' \in [B!Pairs -> Nat] /\ gaps' \in [B!Pairs -> Nat]
       /\ archive' \in [pairs : SUBSET B!Pairs, incomplete : BOOLEAN]
  BY <1>1
<1> HIDE DEF next, done
<1>12. group' = group
  OBVIOUS
<1>13. TurnsInto(t, next, done) /\ Accounts'
  BY <1>2, <1>3, <1>4, <1>5, <1>6, <1>7, <1>8, <1>9, <1>10, <1>11, <1>12 DEF TurnsInto, Accounts
<1> QED BY <1>13, StepOf

LEMMA OnwardFacts ==
  ASSUME B!ConstantsFit, BatchInv, NEW t \in tasks
  PROVE  /\ B!Onward(t) \subseteq TaskType(group)
         /\ \A v, w \in B!Onward(t) : v = w
         /\ \A v \in B!Onward(t) :
              /\ v.answered \subseteq v.resources
              /\ \A p : B!Has(v, p) <=> p[1] = group /\ p[2] \in t.resources /\ p[3] \in t.todo
                                        /\ p[3] \notin B!Asked(t)
         /\ B!Onward(t) = {} => B!Asked(t) = t.todo
<1>1. /\ t.group = group /\ t.resources \in (SUBSET B!Resources(group)) \ {{}}
      /\ t.todo \in (SUBSET Metrics(group)) \ {{}} /\ t.split \in BOOLEAN
  BY RequestFacts
<1>2. B!Asked(t) \subseteq t.todo /\ (~t.split => B!Asked(t) = t.todo)
  BY AskedFacts
<1> DEFINE left == t.todo \ B!Asked(t)
           R == t.resources
           v == B!Task(group, R, left, TRUE)
<1>3. B!Onward(t) = IF t.split /\ t.todo # B!Asked(t) THEN {v} ELSE {}
  BY <1>1 DEF B!Onward
<1>4. CASE t.split /\ t.todo # B!Asked(t)
  <2>1. left \in (SUBSET Metrics(group)) \ {{}}
    BY <1>1, <1>2, <1>4
  <2>2. /\ R \in (SUBSET B!Resources(group)) \ {{}}
        /\ v = B!Task(group, R, left, TRUE) \/ v = B!Task(group, R, left, FALSE)
    BY <1>1
  <2>3. B!Onward(t) = {v}
    BY <1>3, <1>4
  <2> HIDE DEF left, R, v
  <2>4. PICK w : w = v
    OBVIOUS
  <2>5. w \in TaskType(group) /\ w.answered \subseteq w.resources
    BY <2>1, <2>2, <2>4, TaskFacts
  <2>6. ASSUME NEW p PROVE B!Has(w, p) <=> p[1] = group /\ p[2] \in R /\ p[3] \in left
    <3>1. w.group = group /\ w.resources = R /\ w.todo = left /\ w.pc = "ready"
      BY <2>2, <2>4 DEF B!Task
    <3> QED BY <3>1 DEF B!Has
  <2>7. B!Onward(t) = {w}
    BY <2>3, <2>4
  <2> QED BY <2>5, <2>6, <2>7 DEF left, R
<1>5. CASE ~(t.split /\ t.todo # B!Asked(t))
  BY <1>1, <1>2, <1>3, <1>5
<1> QED BY <1>4, <1>5

\* A request that is done with what it asked for.
LEMMA Settled ==
  ASSUME B!ConstantsFit, BatchInv, NEW t \in tasks, NEW done,
         \A p \in B!Pairs : p \in done <=> B!Has(t, p) /\ p[3] \in B!Asked(t),
         B!Becomes(t, B!Onward(t)), UNCHANGED <<outcome, group>>,
         folded' \in [B!Pairs -> Nat], gaps' \in [B!Pairs -> Nat],
         \A p \in B!Pairs : DoneWith(p)' = IF p \in done THEN DoneWith(p) + 1 ELSE DoneWith(p),
         Accounts'
  PROVE  BatchInv'
<1> DEFINE next == B!Onward(t)
<1>1. /\ \A p : B!Has(t, p) <=> /\ p[1] = group /\ p[2] \in t.resources /\ p[3] \in t.todo
                                /\ t.pc = "archiving" /\ p[3] \in B!Asked(t) => p[2] \in t.answered
  BY RequestFacts
<1>2. /\ next \subseteq TaskType(group) /\ \A v, w \in next : v = w
      /\ \A v \in next : v.answered \subseteq v.resources
      /\ next = {} => B!Asked(t) = t.todo
  BY OnwardFacts
<1>3. ASSUME NEW v \in next, NEW p
      PROVE  B!Has(v, p) <=> p[1] = group /\ p[2] \in t.resources /\ p[3] \in t.todo
                             /\ p[3] \notin B!Asked(t)
  BY <1>3, OnwardFacts
<1>4. B!Becomes(t, next)
  OBVIOUS
<1> HIDE DEF next
<1>5. \A p \in B!Pairs : \A w \in next : B!Has(w, p) => B!Has(t, p) /\ p \notin done
  BY <1>1, <1>3
<1>6. \A p \in B!Pairs : \A w, u \in next : B!Has(w, p) /\ B!Has(u, p) => w = u
  BY <1>2
<1>7. ASSUME NEW p \in B!Pairs, B!Has(t, p), p \notin done PROVE \E w \in next : B!Has(w, p)
  <2>1. p[3] \notin B!Asked(t) /\ p[1] = group /\ p[2] \in t.resources /\ p[3] \in t.todo
    BY <1>1, <1>7
  <2>2. PICK w : w \in next
    BY <1>2, <2>1
  <2> QED BY <1>3, <2>1, <2>2
<1>8. \A p \in B!Pairs :
        B!Has(t, p) => p \in done \/ outcome' \in Raised \/ \E w \in next : B!Has(w, p)
  BY <1>7
<1>9. \A p \in B!Pairs : p \in done => B!Has(t, p)
  OBVIOUS
<1>10. group' = group /\ outcome' = outcome
  OBVIOUS
<1>11. TurnsInto(t, next, done)
  BY <1>2, <1>4, <1>5, <1>6, <1>8, <1>9, <1>10 DEF TurnsInto
<1> QED BY <1>11, StepOf

-------------------------------------------------------------------------------
(***************************************************************************)
(* The steps of one request.                                               *)
(***************************************************************************)

LEMMA HereFacts ==
  ASSUME B!ConstantsFit, BatchInv, NEW t \in tasks
  PROVE  Groups[t.group].location \in B!Location
BY RequestFacts DEF B!Location

LEMMA RequestStep ==
  ASSUME B!ConstantsFit, BatchInv, NEW t \in tasks, B!Request(t) \/ B!WaitEnds(t) \/ B!DnsFails(t)
  PROVE  BatchInv'
<1>1. PICK c \in {"ready", "batch", "fallback"} :
        /\ B!Becomes(t, {[t EXCEPT !.pc = c]})
        /\ UNCHANGED <<outcome, group, folded, gaps, archive>>
        /\ t.pc # "archiving"
        /\ fallbackOnly' \cup requested' \cup unreachable' \subseteq B!Location
  <2>1. fallbackOnly \cup requested \cup unreachable \subseteq B!Location
    BY DEF BatchInv, BatchTypes
  <2>2. CASE B!Request(t)
    BY <2>1, <2>2, HereFacts DEF B!Request
  <2>3. CASE B!WaitEnds(t)
    BY <2>1, <2>3 DEF B!WaitEnds
  <2>4. CASE B!DnsFails(t)
    BY <2>1, <2>4, HereFacts DEF B!DnsFails
  <2> QED BY <2>2, <2>3, <2>4
<1> DEFINE v == [t EXCEPT !.pc = c]
<1>2. t \in TaskType(group) /\ t.answered \subseteq t.resources
  BY RequestFacts
<1>3. c \in Stages /\ v = [t EXCEPT !.pc = c]
  BY DEF Stages
<1>5. B!Becomes(t, {v})
  BY <1>1
<1> HIDE DEF v
<1>4. v \in TaskType(group) /\ Same(v, t) /\ v.pc = c /\ v.answered = t.answered
  BY <1>2, <1>3, Moved
<1>6. \A p \in B!Pairs : B!Has(v, p) <=> B!Has(t, p)
  BY <1>1, <1>4 DEF B!Has, Same
<1>7. v.answered \subseteq v.resources
  BY <1>2, <1>4 DEF Same
<1> QED BY <1>1, <1>4, <1>5, <1>6, <1>7, SamePairs

LEMMA RaiseStep ==
  ASSUME B!ConstantsFit, BatchInv, NEW t \in tasks, B!TransportFails(t)
  PROVE  BatchInv'
<1>1. fallbackOnly \cup requested \cup unreachable \subseteq B!Location /\ "failed" \in Raised
  BY DEF BatchInv, BatchTypes, Raised
<1> QED BY <1>1, Dropped DEF B!TransportFails

\* What an answer of the batch endpoint leaves alone.
Quiet ==
  /\ UNCHANGED <<group, folded, archive>>
  /\ fallbackOnly' \cup requested' \cup unreachable' \subseteq B!Location

LEMMA AnsweredStep ==
  ASSUME B!ConstantsFit, BatchInv, NEW t \in tasks, t.pc = "batch", Quiet, B!Answered(t)
  PROVE  BatchInv'
<1> DEFINE v == [t EXCEPT !.pc = "archiving", !.answered = t.resources]
<1>1. t \in TaskType(group) /\ t.resources \in SUBSET B!Resources(group)
  BY RequestFacts
<1>2. "archiving" \in Stages /\ v = [t EXCEPT !.pc = "archiving", !.answered = t.resources]
  BY DEF Stages
<1>4. B!Becomes(t, {v}) /\ UNCHANGED <<outcome, group, folded, gaps, archive>>
      /\ fallbackOnly' \cup requested' \cup unreachable' \subseteq B!Location
  BY DEF B!Answered, Quiet
<1> HIDE DEF v
<1>3. v \in TaskType(group) /\ Same(v, t) /\ v.answered = t.resources
  BY <1>1, <1>2, Zenon DEF TaskType, Stages, Same
<1>5. v.answered \subseteq v.resources /\ \A p \in B!Pairs : B!Has(v, p) <=> B!Has(t, p)
  BY <1>3 DEF B!Has, Same
<1> QED BY <1>3, <1>4, <1>5, SamePairs

LEMMA ThrottledStep ==
  ASSUME B!ConstantsFit, BatchInv, NEW t \in tasks, t.pc = "batch", Quiet, B!Throttled(t)
  PROVE  BatchInv'
<1>1. UNCHANGED <<group, folded, gaps, archive>>
      /\ fallbackOnly' \cup requested' \cup unreachable' \subseteq B!Location
  BY DEF B!Throttled, Quiet
<1>2. CASE t.throttled + 1 >= MaxConsecutive429
  <2>1. B!Raise(t, "throttled") /\ "throttled" \in Raised
    BY <1>2 DEF B!Throttled, Raised
  <2> QED BY <1>1, <2>1, Dropped
<1>3. CASE ~(t.throttled + 1 >= MaxConsecutive429)
  <2> DEFINE n == t.throttled + 1
             v == [t EXCEPT !.pc = "waiting", !.throttled = n]
  <2>1. t \in TaskType(group) /\ t.answered \subseteq t.resources
        /\ t.throttled \in 0 .. MaxConsecutive429 - 1
    BY RequestFacts
  <2>2. n \in 0 .. MaxConsecutive429 - 1 /\ "waiting" \in Stages
    BY <1>3, <2>1 DEF Stages, B!ConstantsFit
  <2>3. B!Becomes(t, {v}) /\ UNCHANGED outcome
    BY <1>3 DEF B!Throttled, B!Waits
  <2> HIDE DEF n
  <2>4. v = [t EXCEPT !.pc = "waiting", !.throttled = n]
    OBVIOUS
  <2> HIDE DEF v
  <2>7. v \in TaskType(group) /\ Same(v, t) /\ v.pc = "waiting" /\ v.answered = t.answered
    BY <2>1, <2>2, <2>4, Zenon DEF TaskType, Stages, Same
  <2>5. \A p \in B!Pairs : B!Has(v, p) <=> B!Has(t, p)
    BY <2>7 DEF B!Has, Same
  <2>8. v.answered \subseteq v.resources
    BY <2>1, <2>7 DEF Same
  <2>6. UNCHANGED <<outcome, group, folded, gaps, archive>>
    BY <1>1, <2>3
  <2> QED BY <1>1, <2>3, <2>5, <2>6, <2>7, <2>8, SamePairs
<1> QED BY <1>2, <1>3

LEMMA FailedStep ==
  ASSUME B!ConstantsFit, BatchInv, NEW t \in tasks, t.pc = "batch", Quiet,
         gaps' = B!Once(gaps, B!Covered(t, t.resources)), B!Becomes(t, B!Onward(t)),
         UNCHANGED outcome
  PROVE  BatchInv'
<1> DEFINE done == B!Covered(t, t.resources)
<1>1. /\ folded \in [B!Pairs -> Nat] /\ gaps \in [B!Pairs -> Nat] /\ B!ReplayFoldsTheSame
      /\ archive \in [pairs : SUBSET B!Pairs, incomplete : BOOLEAN]
  BY DEF BatchInv, BatchTypes
<1>2. \A p \in B!Pairs : p \in done <=> B!Has(t, p) /\ p[3] \in B!Asked(t)
  <2>1. \A p \in B!Pairs : p \in done <=>
          p[1] = group /\ p[2] \in t.resources /\ p[3] \in B!Asked(t)
    BY RequestFacts
  <2>2. \A p : B!Has(t, p) <=> p[1] = group /\ p[2] \in t.resources /\ p[3] \in t.todo
    BY RequestFacts DEF B!Has
  <2> HIDE DEF done
  <2> QED BY <2>1, <2>2, AskedFacts
<1>3. gaps' = B!Once(gaps, done) /\ folded' = folded /\ archive' = archive
      /\ UNCHANGED <<outcome, group>>
  BY DEF Quiet
<1> HIDE DEF done
<1>4. /\ gaps' \in [B!Pairs -> Nat]
      /\ \A p \in B!Pairs : gaps'[p] = IF p \in done THEN gaps[p] + 1 ELSE gaps[p]
  BY <1>1, <1>3, OnceFacts
<1>5. \A p \in B!Pairs : DoneWith(p)' = IF p \in done THEN DoneWith(p) + 1 ELSE DoneWith(p)
  BY <1>1, <1>3, <1>4 DEF DoneWith
<1>6. Accounts' /\ folded' \in [B!Pairs -> Nat]
  BY <1>1, <1>3 DEF Accounts, Quiet, B!ReplayFoldsTheSame
<1> QED BY <1>2, <1>3, <1>4, <1>5, <1>6, Settled

\* The request is sent again, whole, or by metric at its one resource.
LEMMA AgainStep ==
  ASSUME B!ConstantsFit, BatchInv, NEW t \in tasks, t.pc = "batch", Quiet, NEW v,
         v = B!Task(t.group, t.resources, t.todo, TRUE) \/
           v = B!Task(t.group, t.resources, t.todo, FALSE),
         B!Becomes(t, {v}), UNCHANGED <<outcome, gaps>>
  PROVE  BatchInv'
<1>1. t.group = group /\ t.resources \in (SUBSET B!Resources(group)) \ {{}}
      /\ t.todo \in (SUBSET Metrics(group)) \ {{}}
  BY RequestFacts
<1>2. v \in TaskType(group) /\ v.answered \subseteq v.resources
  <2> DEFINE R == t.resources
             M == t.todo
  <2>1. v = B!Task(group, R, M, TRUE) \/ v = B!Task(group, R, M, FALSE)
    BY <1>1
  <2>2. R \in (SUBSET B!Resources(group)) \ {{}} /\ M \in (SUBSET Metrics(group)) \ {{}}
    BY <1>1
  <2> HIDE DEF R, M
  <2> QED BY <2>1, <2>2, TaskFacts
<1>3. v.group = t.group /\ v.resources = t.resources /\ v.todo = t.todo /\ v.pc = "ready"
  BY DEF B!Task
<1>4. \A p \in B!Pairs : B!Has(v, p) <=> B!Has(t, p)
  BY <1>3 DEF B!Has
<1>5. UNCHANGED <<outcome, group, folded, gaps, archive>>
      /\ fallbackOnly' \cup requested' \cup unreachable' \subseteq B!Location
  BY DEF Quiet
<1> QED BY <1>2, <1>4, <1>5, SamePairs

\* A batch is halved: neither half is empty, and a resource is in one of them.
LEMMA HalvesFacts ==
  ASSUME B!ConstantsFit, BatchInv, NEW t \in tasks, Cardinality(t.resources) > 1
  PROVE  /\ B!Halves(t) \subseteq TaskType(group)
         /\ \A v \in B!Halves(t) : v.answered \subseteq v.resources
         /\ \A p : \A v \in B!Halves(t) : B!Has(v, p) =>
                     p[1] = group /\ p[2] \in t.resources /\ p[3] \in t.todo
         /\ \A p : \A v, w \in B!Halves(t) : B!Has(v, p) /\ B!Has(w, p) => v = w
         /\ \A p : p[1] = group /\ p[2] \in t.resources /\ p[3] \in t.todo =>
                     \E v \in B!Halves(t) : B!Has(v, p)
<1> DEFINE S == t.resources
           half == Cardinality(S) \div 2
           first == {r \in S : Rank(S, r) < half}
           rest == S \ first
           M == t.todo
           v == B!Task(group, first, M, FALSE)
           w == B!Task(group, rest, M, FALSE)
<1>1. group \in DOMAIN Groups /\ t.group = group /\ S \in (SUBSET B!Resources(group)) \ {{}}
      /\ t.todo \in (SUBSET Metrics(group)) \ {{}}
  BY RequestFacts
<1>2. S \in SUBSET Int /\ IsFiniteSet(S)
  <2>1. Groups[group].size \in Nat /\ B!Resources(group) = 1 .. Groups[group].size
    BY <1>1, GroupFacts
  <2> DEFINE n == Groups[group].size
  <2>3. n \in Int /\ 1 \in Int /\ B!Resources(group) = 1 .. n
    BY <2>1
  <2> HIDE DEF n
  <2>2. IsFiniteSet(B!Resources(group))
    BY <2>3, FS_Interval
  <2> QED BY <1>1, <2>1, <2>2, FS_Subset
<1>3. /\ Cardinality(S) \in Nat
      /\ \A k \in Nat : k < Cardinality(S) => \E r \in S : Rank(S, r) = k
  BY <1>2, Ranks
<1>4. half \in Nat /\ 0 < half /\ half < Cardinality(S)
  BY <1>3
<1>5. B!Halves(t) = {v, w}
  <2>1. B!Cardinality(S) = Cardinality(S) /\ \A i \in S :
          B!Cardinality({q \in S : q < i}) = Rank(S, i)
    BY BatchSizes DEF Rank, Below
  <2>2. first = {r \in t.resources :
                   B!Cardinality({q \in t.resources : q < r}) < B!Cardinality(t.resources) \div 2}
    BY <2>1
  <2> HIDE DEF first
  <2> QED BY <1>1, <2>2 DEF B!Halves
<1> HIDE DEF half
<1>6. first # {} /\ S \ first # {}
  <2>1. PICK i \in S : Rank(S, i) = 0
    BY <1>3, <1>4
  <2>2. PICK j \in S : Rank(S, j) = half
    BY <1>3, <1>4
  <2>3. i \in first /\ j \notin first
    BY <1>4, <2>1, <2>2
  <2> QED BY <2>2, <2>3
<1>7. first \in (SUBSET B!Resources(group)) \ {{}} /\ rest \in (SUBSET B!Resources(group)) \ {{}}
      /\ first \cup rest = S /\ first \cap rest = {} /\ M \in (SUBSET Metrics(group)) \ {{}}
  BY <1>1, <1>6
<1> HIDE DEF first, rest, M
<1>8. v.group = group /\ v.resources = first /\ v.todo = M /\ v.pc = "ready"
      /\ w.group = group /\ w.resources = rest /\ w.todo = M /\ w.pc = "ready"
  BY DEF B!Task
<1>16. v = B!Task(group, first, M, TRUE) \/ v = B!Task(group, first, M, FALSE)
  OBVIOUS
<1>17. w = B!Task(group, rest, M, TRUE) \/ w = B!Task(group, rest, M, FALSE)
  OBVIOUS
<1> HIDE DEF v, w
<1>18. first \in (SUBSET B!Resources(group)) \ {{}} /\ M \in (SUBSET Metrics(group)) \ {{}}
  BY <1>7
<1>9. v \in TaskType(group) /\ v.answered \subseteq v.resources
  BY <1>18, <1>16, TaskFacts
<1>10. w \in TaskType(group) /\ w.answered \subseteq w.resources
  BY <1>7, <1>17, TaskFacts
<1>11. \A p : ~(B!Has(v, p) /\ B!Has(w, p))
  BY <1>7, <1>8 DEF B!Has
<1>12. ASSUME NEW p, p[1] = group, p[2] \in S, p[3] \in M PROVE B!Has(v, p) \/ B!Has(w, p)
  BY <1>7, <1>8, <1>12 DEF B!Has
<1>13. ASSUME NEW p, B!Has(v, p) \/ B!Has(w, p) PROVE p[1] = group /\ p[2] \in S /\ p[3] \in M
  BY <1>7, <1>8, <1>13 DEF B!Has
<1> HIDE DEF S
<1> QED BY <1>5, <1>9, <1>10, <1>11, <1>12, <1>13 DEF S, M

LEMMA HalvedStep ==
  ASSUME B!ConstantsFit, BatchInv, NEW t \in tasks, t.pc = "batch", Quiet,
         Cardinality(t.resources) > 1, B!Becomes(t, B!Halves(t)), UNCHANGED <<outcome, gaps>>
  PROVE  BatchInv'
<1> DEFINE next == B!Halves(t)
           done == {}
<1>1. /\ folded \in [B!Pairs -> Nat] /\ gaps \in [B!Pairs -> Nat] /\ B!ReplayFoldsTheSame
      /\ archive \in [pairs : SUBSET B!Pairs, incomplete : BOOLEAN]
  BY DEF BatchInv, BatchTypes
<1>2. \A p : B!Has(t, p) <=> p[1] = group /\ p[2] \in t.resources /\ p[3] \in t.todo
  BY RequestFacts DEF B!Has
<1>3. /\ next \subseteq TaskType(group) /\ \A v \in next : v.answered \subseteq v.resources
      /\ \A p : \A v \in next : B!Has(v, p) => p[1] = group /\ p[2] \in t.resources /\ p[3] \in t.todo
      /\ \A p : \A v, w \in next : B!Has(v, p) /\ B!Has(w, p) => v = w
      /\ \A p : p[1] = group /\ p[2] \in t.resources /\ p[3] \in t.todo =>
                  \E v \in next : B!Has(v, p)
  BY HalvesFacts
<1>4. B!Becomes(t, next) /\ \A p : p \notin done
  OBVIOUS
<1> HIDE DEF next, done
<1>5. \A p \in B!Pairs :
        /\ \A v \in next : B!Has(v, p) => B!Has(t, p) /\ p \notin done
        /\ \A v, w \in next : B!Has(v, p) /\ B!Has(w, p) => v = w
        /\ p \in done => B!Has(t, p)
        /\ B!Has(t, p) => p \in done \/ outcome' \in Raised \/ \E v \in next : B!Has(v, p)
  BY <1>2, <1>3, <1>4
<1>6. \A p \in B!Pairs : DoneWith(p)' = IF p \in done THEN DoneWith(p) + 1 ELSE DoneWith(p)
  BY <1>4 DEF DoneWith, Quiet
<1>7. /\ folded' \in [B!Pairs -> Nat] /\ gaps' \in [B!Pairs -> Nat]
      /\ outcome' = outcome /\ group' = group
  BY <1>1 DEF Quiet
<1>8. Accounts'
  BY <1>1 DEF Accounts, Quiet, B!ReplayFoldsTheSame
<1>9. TurnsInto(t, next, done)
  BY <1>3, <1>4, <1>5, <1>6, <1>7 DEF TurnsInto
<1> QED BY <1>8, <1>9, StepOf

LEMMA TooLargeStep ==
  ASSUME B!ConstantsFit, BatchInv, NEW t \in tasks, t.pc = "batch", Quiet, B!TooLarge(t)
  PROVE  BatchInv'
<1>0. UNCHANGED outcome
  BY DEF B!TooLarge
<1>1. CASE t.split
  <2>1. gaps' = B!Once(gaps, B!Covered(t, t.resources)) /\ B!Becomes(t, B!Onward(t))
    BY <1>1 DEF B!TooLarge
  <2> QED BY <1>0, <2>1, FailedStep
<1>2. CASE ~t.split /\ Cardinality(t.resources) > 1
  <2>1. B!Becomes(t, B!Halves(t)) /\ UNCHANGED gaps
    BY <1>2, BatchSizes DEF B!TooLarge
  <2> QED BY <1>0, <1>2, <2>1, HalvedStep
<1>3. CASE ~t.split /\ ~(Cardinality(t.resources) > 1)
  <2>1. B!Becomes(t, {B!Task(t.group, t.resources, t.todo, TRUE)}) /\ UNCHANGED gaps
    BY <1>3, BatchSizes DEF B!TooLarge
  <2> QED BY <1>0, <2>1, AgainStep
<1> QED BY <1>1, <1>2, <1>3

LEMMA BatchStep ==
  ASSUME B!ConstantsFit, BatchInv, NEW t \in tasks, B!BatchAnswers(t)
  PROVE  BatchInv'
<1>1. t.pc = "batch" /\ UNCHANGED <<group, requested, folded, archive>>
      /\ (B!Answered(t) \/ B!Throttled(t) \/ B!TooLarge(t) \/ B!Refused(t) \/ B!Failed(t))
  BY DEF B!BatchAnswers
<1>2. Quiet
  <2>1. fallbackOnly \cup requested \cup unreachable \subseteq B!Location
    BY DEF BatchInv, BatchTypes
  <2>2. fallbackOnly' \subseteq fallbackOnly \cup {Groups[t.group].location}
    <3>1. CASE B!Refused(t) /\ ~t.split
      BY <3>1 DEF B!Refused
    <3>2. CASE B!Answered(t) \/ B!Throttled(t) \/ B!TooLarge(t) \/ B!Failed(t)
               \/ (B!Refused(t) /\ t.split)
      BY <3>2 DEF B!Answered, B!Throttled, B!TooLarge, B!Failed, B!Refused
    <3> QED BY <1>1, <3>1, <3>2
  <2>3. unreachable' \subseteq unreachable /\ requested' = requested
    BY DEF B!BatchAnswers
  <2> QED BY <1>1, <2>1, <2>2, <2>3, HereFacts DEF Quiet
<1>3. CASE B!Answered(t)
  BY <1>1, <1>2, <1>3, AnsweredStep
<1>4. CASE B!Throttled(t)
  BY <1>1, <1>2, <1>4, ThrottledStep
<1>5. CASE B!TooLarge(t)
  BY <1>1, <1>2, <1>5, TooLargeStep
<1>6. CASE B!Failed(t) \/ (B!Refused(t) /\ t.split)
  <2>1. gaps' = B!Once(gaps, B!Covered(t, t.resources)) /\ B!Becomes(t, B!Onward(t))
        /\ UNCHANGED outcome
    BY <1>6 DEF B!Refused, B!Failed
  <2> QED BY <1>1, <1>2, <2>1, FailedStep
<1>7. CASE B!Refused(t) /\ ~t.split
  <2>1. B!Becomes(t, {B!Task(t.group, t.resources, t.todo, FALSE)}) /\ UNCHANGED <<outcome, gaps>>
    BY <1>7 DEF B!Refused
  <2> QED BY <1>1, <1>2, <2>1, AgainStep
<1> QED BY <1>1, <1>3, <1>4, <1>5, <1>6, <1>7

LEMMA FoldStep ==
  ASSUME B!ConstantsFit, BatchInv, NEW t \in tasks, NEW wrote \in BOOLEAN, B!Fold(t, wrote)
  PROVE  BatchInv'
<1> DEFINE done == B!Covered(t, t.answered)
<1>1. /\ folded \in [B!Pairs -> Nat] /\ gaps \in [B!Pairs -> Nat] /\ B!ReplayFoldsTheSame
      /\ archive \in [pairs : SUBSET B!Pairs, incomplete : BOOLEAN]
      /\ fallbackOnly \cup requested \cup unreachable \subseteq B!Location
  BY DEF BatchInv, BatchTypes
<1>2. t.pc = "archiving" /\ B!Written(t, wrote) /\ folded' = B!Once(folded, done)
      /\ B!Becomes(t, B!Onward(t))
      /\ UNCHANGED <<outcome, group, fallbackOnly, requested, unreachable, gaps>>
  BY DEF B!Fold
<1>3. done \subseteq B!Pairs
  BY RequestFacts
<1>4. \A p \in B!Pairs : p \in done <=> B!Has(t, p) /\ p[3] \in B!Asked(t)
  <2>1. \A p \in B!Pairs : p \in done <=>
          p[1] = group /\ p[2] \in t.answered /\ p[3] \in B!Asked(t)
    BY RequestFacts
  <2>2. \A p : B!Has(t, p) <=> /\ p[1] = group /\ p[2] \in t.resources /\ p[3] \in t.todo
                               /\ p[3] \in B!Asked(t) => p[2] \in t.answered
    BY <1>2, RequestFacts
  <2>3. t.answered \subseteq t.resources
    BY RequestFacts
  <2> HIDE DEF done
  <2> QED BY <2>1, <2>2, <2>3, AskedFacts
<1>5. archive' = [pairs      |-> IF wrote THEN archive.pairs \cup done ELSE archive.pairs,
                  incomplete |-> archive.incomplete \/ ~wrote]
  BY <1>2 DEF B!Written
<1> HIDE DEF done
<1>6. /\ folded' \in [B!Pairs -> Nat]
      /\ \A p \in B!Pairs : folded'[p] = IF p \in done THEN folded[p] + 1 ELSE folded[p]
  BY <1>1, <1>2, OnceFacts
<1>7. \A p \in B!Pairs : DoneWith(p)' = IF p \in done THEN DoneWith(p) + 1 ELSE DoneWith(p)
  BY <1>1, <1>2, <1>6 DEF DoneWith
<1>8. archive' \in [pairs : SUBSET B!Pairs, incomplete : BOOLEAN]
  BY <1>1, <1>3, <1>5
<1>9. B!ReplayFoldsTheSame'
  <2> SUFFICES ASSUME ~archive'.incomplete, NEW p \in B!Pairs
               PROVE  (p \in archive'.pairs) <=> folded'[p] > 0
    BY DEF B!ReplayFoldsTheSame
  <2>1. wrote /\ ~archive.incomplete /\ archive'.pairs = archive.pairs \cup done
    BY <1>5
  <2>2. (p \in archive.pairs) <=> folded[p] > 0
    BY <1>1, <2>1 DEF B!ReplayFoldsTheSame
  <2>3. folded[p] \in Nat
    BY <1>1
  <2> QED BY <1>6, <2>1, <2>2, <2>3
<1>10. Accounts' /\ gaps' \in [B!Pairs -> Nat] /\ UNCHANGED <<outcome, group>>
  BY <1>1, <1>2, <1>8, <1>9 DEF Accounts
<1> QED BY <1>2, <1>4, <1>6, <1>7, <1>10, Settled

LEMMA FallbackStep ==
  ASSUME B!ConstantsFit, BatchInv, NEW t \in tasks, NEW answered \in SUBSET t.resources,
         B!FallbackAnswers(t, answered)
  PROVE  BatchInv'
<1>1. /\ folded \in [B!Pairs -> Nat] /\ gaps \in [B!Pairs -> Nat] /\ B!ReplayFoldsTheSame
      /\ archive \in [pairs : SUBSET B!Pairs, incomplete : BOOLEAN]
      /\ fallbackOnly \cup requested \cup unreachable \subseteq B!Location
  BY DEF BatchInv, BatchTypes
<1>2. t.pc = "fallback" /\ UNCHANGED <<group, fallbackOnly, requested, folded, archive>>
  BY DEF B!FallbackAnswers
<1>3. unreachable' \subseteq B!Location
  BY <1>1, HereFacts DEF B!FallbackAnswers
<1>4. CASE t.split
  <2>1. B!Raise(t, "type_error") /\ UNCHANGED gaps /\ "type_error" \in Raised
    BY <1>4 DEF B!FallbackAnswers, Raised
  <2> QED BY <1>1, <1>2, <1>3, <2>1, Dropped
<1>5. CASE ~t.split
  <2> DEFINE done == B!Covered(t, t.resources \ answered)
             v == [t EXCEPT !.pc = "archiving", !.answered = answered]
             next == IF answered = {} THEN {} ELSE {v}
  <2>1. gaps' = B!Once(gaps, done) /\ B!Becomes(t, next) /\ UNCHANGED outcome
    BY <1>5 DEF B!FallbackAnswers
  <2>2. t \in TaskType(group) /\ t.resources \in SUBSET B!Resources(group) /\ B!Asked(t) = t.todo
    BY <1>5, RequestFacts, AskedFacts
  <2>3. \A p : B!Has(t, p) <=> p[1] = group /\ p[2] \in t.resources /\ p[3] \in t.todo
    BY <1>2, RequestFacts DEF B!Has
  <2>4. \A p \in B!Pairs : p \in done <=>
          p[1] = group /\ p[2] \in t.resources \ answered /\ p[3] \in t.todo
    BY <2>2, RequestFacts
  <2>5. "archiving" \in Stages /\ v = [t EXCEPT !.pc = "archiving", !.answered = answered]
        /\ answered \subseteq B!Resources(group)
    BY <2>2 DEF Stages
  <2> HIDE DEF done, v
  <2>6. v \in TaskType(group) /\ Same(v, t) /\ v.pc = "archiving" /\ v.answered = answered
    BY <2>2, <2>5, Zenon DEF TaskType, Stages, Same
  <2>7. B!Asked(v) = v.todo
    BY <1>5, <2>6, AskedFacts DEF Same
  <2>8. t.group = group
    BY RequestFacts
  <2>9. ASSUME NEW p PROVE B!Has(v, p) <=> p[1] = group /\ p[2] \in answered /\ p[3] \in t.todo
    BY <2>6, <2>7, <2>8 DEF B!Has, Same
  <2>10. /\ next \subseteq TaskType(group) /\ \A w \in next : w.answered \subseteq w.resources
         /\ \A w \in next : w = v
         /\ answered # {} => v \in next
    BY <2>6 DEF Same
  <2> HIDE DEF next
  <2>11. \A p \in B!Pairs :
           /\ \A w \in next : B!Has(w, p) => B!Has(t, p) /\ p \notin done
           /\ \A w, u \in next : B!Has(w, p) /\ B!Has(u, p) => w = u
           /\ p \in done => B!Has(t, p)
    BY <2>3, <2>4, <2>9, <2>10
  <2>12. ASSUME NEW p \in B!Pairs, B!Has(t, p), p \notin done PROVE \E w \in next : B!Has(w, p)
    <3>1. p[1] = group /\ p[2] \in answered /\ p[3] \in t.todo
      BY <2>3, <2>4, <2>12
    <3>2. B!Has(v, p) /\ v \in next
      BY <2>9, <2>10, <3>1
    <3> QED BY <3>2
  <2>13. /\ gaps' \in [B!Pairs -> Nat]
         /\ \A p \in B!Pairs : gaps'[p] = IF p \in done THEN gaps[p] + 1 ELSE gaps[p]
    BY <1>1, <2>1, OnceFacts
  <2>14. \A p \in B!Pairs : DoneWith(p)' = IF p \in done THEN DoneWith(p) + 1 ELSE DoneWith(p)
    BY <1>1, <1>2, <2>13 DEF DoneWith
  <2>15. folded' \in [B!Pairs -> Nat] /\ outcome' = outcome /\ group' = group
    BY <1>1, <1>2, <2>1
  <2>16. Accounts'
    BY <1>1, <1>2, <1>3 DEF Accounts, B!ReplayFoldsTheSame
  <2>17. TurnsInto(t, next, done)
    BY <2>1, <2>10, <2>11, <2>12, <2>13, <2>14, <2>15 DEF TurnsInto
  <2> QED BY <2>16, <2>17, StepOf
<1> QED BY <1>4, <1>5

-------------------------------------------------------------------------------
(***************************************************************************)
(* The batches of a group hold each of its pairs once.                     *)
(***************************************************************************)

\* The chunk a resource is in: the numbers a multiple of size after the first.
LEMMA ChunkFacts ==
  ASSUME B!ConstantsFit, NEW g \in DOMAIN Groups, NEW size \in Nat \ {0}
  PROVE  /\ \A c \in B!Chunks(g, size) : c \in (SUBSET B!Resources(g)) \ {{}}
         /\ \A r \in B!Resources(g) : \E c \in B!Chunks(g, size) : r \in c
         /\ \A c, d \in B!Chunks(g, size) : \A r \in c \cap d : c = d
<1> DEFINE S == B!Resources(g)
           From(first) == {r \in S : first <= r /\ r < first + size}
           Firsts == {r \in S : (r - 1) % size = 0}
<1>1. PICK n \in Nat : S = 1 .. n
  BY GroupFacts
<1>2. B!Chunks(g, size) = {From(first) : first \in Firsts}
  BY DEF B!Chunks
<1>3. ASSUME NEW r \in S
      PROVE  \A first \in Firsts : r \in From(first) <=> first = size * ((r - 1) \div size) + 1
  <2> DEFINE q == (r - 1) \div size
  <2>1. r \in Int /\ 1 <= r /\ r - 1 \in Nat
    BY <1>1
  <2>2. q \in Nat /\ size * q <= r - 1 /\ r - 1 < size * q + size
    BY <2>1, Quotient
  <2> HIDE DEF q
  <2>3. ASSUME NEW first \in Firsts PROVE r \in From(first) <=> first = size * q + 1
    <3> DEFINE k == (first - 1) \div size
    <3>1. first \in S /\ first - 1 \in Nat /\ (first - 1) % size = 0
      BY <1>1
    <3>2. k \in Nat /\ first - 1 = size * k
      BY <3>1
    <3> HIDE DEF k, Firsts
    <3>3. r \in From(first) <=> first <= r /\ r < first + size
      OBVIOUS
    <3>4. ASSUME first <= r, r < first + size PROVE k = q
      <4>1. size * k <= r - 1 /\ r - 1 < size * k + size
        BY <2>1, <3>1, <3>2, <3>4
      <4>2. size * k < size * (q + 1) /\ size * q < size * (k + 1)
        BY <2>1, <2>2, <3>2, <4>1
      <4>3. k < q + 1 /\ q < k + 1
        BY <2>2, <3>2, <4>2
      <4> QED BY <2>2, <3>2, <4>3
    <3>5. k = q => first <= r /\ r < first + size
      BY <2>1, <2>2, <3>1, <3>2
    <3>6. first = size * q + 1 => k = q
      BY <2>2, <3>2
    <3>7. k = q => first = size * q + 1
      <4> SUFFICES ASSUME k = q PROVE first = size * q + 1
        OBVIOUS
      <4>1. first \in Int /\ first - 1 = size * q
        BY <1>1, <3>1, <3>2
      <4> HIDE DEF From
      <4>2. size * q \in Int
        BY <2>2
      <4> QED BY <4>1, <4>2
    <3> HIDE DEF From
    <3>8. CASE k = q
      BY <3>3, <3>5, <3>7, <3>8
    <3>9. CASE k # q
      BY <3>3, <3>4, <3>6, <3>9
    <3> QED BY <3>8, <3>9
  <2> QED BY <2>3 DEF q
<1>4. ASSUME NEW r \in S PROVE size * ((r - 1) \div size) + 1 \in Firsts
  <2> DEFINE q == (r - 1) \div size
  <2>1. r \in Int /\ 1 <= r /\ r <= n /\ r - 1 \in Nat
    BY <1>1
  <2>2. q \in Nat /\ size * q <= r - 1 /\ size * q \in Nat
    BY <2>1, Quotient
  <2> HIDE DEF q
  <2>3. size * q + 1 \in S
    BY <1>1, <2>1, <2>2
  <2>4. ((size * q + 1) - 1) % size = 0
    <3> DEFINE m == size * q
    <3>1. m \in Nat
      BY <2>2
    <3>2. size * (m \div size) = m
      BY <2>2
    <3> HIDE DEF m
    <3>4. m % size \in Int /\ m = size * (m \div size) + (m % size)
      BY <3>1
    <3>5. m = m + (m % size)
      BY <3>2, <3>4
    <3>6. m % size = 0
      BY <3>1, <3>4, <3>5
    <3>3. (m + 1) - 1 = m
      BY <3>1
    <3> QED BY <3>3, <3>6 DEF m
  <2> QED BY <2>3, <2>4 DEF q
<1>5. \A first \in Firsts : first \in From(first) /\ From(first) \subseteq S
  BY <1>1
<1> HIDE DEF From, Firsts
<1>6. \A c \in B!Chunks(g, size) : c \in (SUBSET S) \ {{}}
  <2> SUFFICES ASSUME NEW first \in Firsts PROVE From(first) \in (SUBSET S) \ {{}}
    BY <1>2
  <2>1. first \in From(first) /\ From(first) \subseteq S
    BY <1>5
  <2> DEFINE c == From(first)
  <2> HIDE DEF c, S
  <2>2. c # {} /\ c \in SUBSET S
    BY <2>1 DEF c
  <2> QED BY <2>2 DEF c
<1>7. \A r \in S : \E c \in B!Chunks(g, size) : r \in c
  <2> SUFFICES ASSUME NEW r \in S PROVE \E c \in B!Chunks(g, size) : r \in c
    OBVIOUS
  <2> DEFINE first == size * ((r - 1) \div size) + 1
  <2>1. first \in Firsts /\ r \in From(first)
    BY <1>3, <1>4
  <2> HIDE DEF first
  <2> QED BY <1>2, <2>1
<1>8. \A c, d \in B!Chunks(g, size) : \A r \in c \cap d : c = d
  <2> SUFFICES ASSUME NEW i \in Firsts, NEW j \in Firsts, NEW r \in From(i) \cap From(j)
               PROVE  i = j
    BY <1>2
  <2>1. r \in S
    BY <1>5
  <2> QED BY <1>3, <2>1
<1> QED BY <1>6, <1>7, <1>8

LEMMA PartitionFacts ==
  ASSUME B!ConstantsFit, NEW g \in DOMAIN Groups
  PROVE  /\ \A N \in B!PartitionByAggregations(g) :
              N \in (SUBSET Metrics(g)) \ {{}} /\ B!Capacity(N) \in Nat \ {0}
         /\ \A m \in Metrics(g) : \E N \in B!PartitionByAggregations(g) : m \in N
         /\ \A N, O \in B!PartitionByAggregations(g) : \A m \in N \cap O : N = O
<1> DEFINE aggs == Groups[g].aggs
           With(set) == {m \in Metrics(g) : aggs[m] = set}
<1>1. B!PartitionByAggregations(g) = {With(set) : set \in {aggs[m] : m \in Metrics(g)}}
  BY DEF B!PartitionByAggregations, Metrics
<1>2. \A m \in Metrics(g) : m \in With(aggs[m]) /\ With(aggs[m]) \in B!PartitionByAggregations(g)
  BY <1>1
<1>3. ASSUME NEW N \in B!PartitionByAggregations(g)
      PROVE  N \in (SUBSET Metrics(g)) \ {{}}
  <2>1. PICK m \in Metrics(g) : N = With(aggs[m])
    BY <1>1
  <2> QED BY <2>1
<1>4. ASSUME NEW N \in B!PartitionByAggregations(g)
      PROVE  B!Capacity(N) \in Nat \ {0}
  <2>1. IsFiniteSet(N) /\ N # {}
    BY <1>3, GroupFacts, FS_Subset
  <2>2. Cardinality(N) \in Nat \ {0}
    BY <2>1, FS_EmptySet, FS_CardinalityType
  <2> DEFINE size == Cardinality(N) * Intervals
             fits == PointsBudget \div size
  <2>3. size \in Nat \ {0}
    BY <2>2 DEF B!ConstantsFit
  <2> HIDE DEF size
  <2>6. PointsBudget \in Nat
    BY DEF B!ConstantsFit
  <2>4. fits \in Nat
    BY <2>3, <2>6, Quotient
  <2>5. B!Capacity(N) = IF fits = 0 THEN 1 ELSE fits
    BY BatchSizes DEF B!Capacity, size
  <2> HIDE DEF fits
  <2> QED BY <2>4, <2>5
<1>5. \A N, O \in B!PartitionByAggregations(g) : \A m \in N \cap O : N = O
  BY <1>1
<1> QED BY <1>2, <1>3, <1>4, <1>5

LEMMA PlanFacts ==
  ASSUME B!ConstantsFit, NEW g \in DOMAIN Groups
  PROVE  /\ B!PlanBatches(g) \subseteq TaskType(g)
         /\ \A t \in B!PlanBatches(g) : t.answered \subseteq t.resources
         /\ \A p \in B!Pairs :
              /\ \A t, u \in B!PlanBatches(g) : B!Has(t, p) /\ B!Has(u, p) => t = u
              /\ (\E t \in B!PlanBatches(g) : B!Has(t, p)) <=> p[1] = g
<1> DEFINE Of(c, N) == B!Task(g, c, N, FALSE)
           Parts == B!PartitionByAggregations(g)
           ChunksFor(N) == B!Chunks(g, B!Capacity(N))
<1>1. B!PlanBatches(g) = UNION {{Of(c, N) : c \in ChunksFor(N)} : N \in Parts}
  BY DEF B!PlanBatches
<1>2. \A N \in Parts : N \in (SUBSET Metrics(g)) \ {{}} /\ B!Capacity(N) \in Nat \ {0}
  BY PartitionFacts
<1>3. ASSUME NEW N \in Parts
      PROVE  /\ \A c \in ChunksFor(N) : c \in (SUBSET B!Resources(g)) \ {{}}
             /\ \A r \in B!Resources(g) : \E c \in ChunksFor(N) : r \in c
             /\ \A c, d \in ChunksFor(N) : \A r \in c \cap d : c = d
  <2> DEFINE size == B!Capacity(N)
  <2>1. size \in Nat \ {0}
    BY <1>2
  <2> HIDE DEF size
  <2>2. /\ \A c \in B!Chunks(g, size) : c \in (SUBSET B!Resources(g)) \ {{}}
        /\ \A r \in B!Resources(g) : \E c \in B!Chunks(g, size) : r \in c
        /\ \A c, d \in B!Chunks(g, size) : \A r \in c \cap d : c = d
    BY <2>1, ChunkFacts
  <2> QED BY <2>2 DEF size
<1>4. /\ \A m \in Metrics(g) : \E N \in Parts : m \in N
      /\ \A N, O \in Parts : \A m \in N \cap O : N = O
  BY PartitionFacts
<1> HIDE DEF Parts, ChunksFor
<1>5. ASSUME NEW N \in Parts, NEW c \in ChunksFor(N)
      PROVE  /\ Of(c, N) \in TaskType(g)
             /\ Of(c, N).answered \subseteq Of(c, N).resources
             /\ Of(c, N).group = g /\ Of(c, N).resources = c /\ Of(c, N).todo = N
             /\ Of(c, N).pc = "ready"
  <2>1. c \in (SUBSET B!Resources(g)) \ {{}} /\ N \in (SUBSET Metrics(g)) \ {{}}
    BY <1>2, <1>3
  <2>2. 0 \in 0 .. MaxConsecutive429 - 1
    BY DEF B!ConstantsFit
  <2> QED BY <2>1, <2>2 DEF B!Task, TaskType
<1>6. ASSUME NEW t \in B!PlanBatches(g)
      PROVE  \E N \in Parts : \E c \in ChunksFor(N) : t = Of(c, N)
  <2> HIDE DEF Of
  <2>1. PICK N \in Parts : t \in {Of(c, N) : c \in ChunksFor(N)}
    BY <1>1
  <2> QED BY <2>1
<1>7. ASSUME NEW N \in Parts, NEW c \in ChunksFor(N) PROVE Of(c, N) \in B!PlanBatches(g)
  <2> HIDE DEF Of
  <2>1. Of(c, N) \in {Of(d, N) : d \in ChunksFor(N)}
    OBVIOUS
  <2> QED BY <1>1, <2>1
<1>8. ASSUME NEW N \in Parts, NEW c \in ChunksFor(N), NEW p
      PROVE  B!Has(Of(c, N), p) <=> p[1] = g /\ p[2] \in c /\ p[3] \in N
  <2> DEFINE t == Of(c, N)
  <2>1. t.group = g /\ t.resources = c /\ t.todo = N /\ t.pc = "ready"
    BY <1>5
  <2> HIDE DEF t, Of
  <2>2. B!Has(t, p) <=> p[1] = g /\ p[2] \in c /\ p[3] \in N
    BY <2>1 DEF B!Has
  <2> QED BY <2>2 DEF t
<1> HIDE DEF Of
<1>9. B!PlanBatches(g) \subseteq TaskType(g)
      /\ \A t \in B!PlanBatches(g) : t.answered \subseteq t.resources
  BY <1>5, <1>6
<1>10. ASSUME NEW p \in B!Pairs, NEW t \in B!PlanBatches(g), NEW u \in B!PlanBatches(g),
              B!Has(t, p), B!Has(u, p)
       PROVE  t = u
  <2>1. PICK N \in Parts : \E c \in ChunksFor(N) : t = Of(c, N)
    BY <1>6
  <2>2. PICK O \in Parts : \E d \in ChunksFor(O) : u = Of(d, O)
    BY <1>6
  <2>6. PICK c \in ChunksFor(N) : t = Of(c, N)
    BY <2>1
  <2>7. PICK d \in ChunksFor(O) : u = Of(d, O)
    BY <2>2
  <2>3. p[2] \in c /\ p[3] \in N /\ p[2] \in d /\ p[3] \in O
    BY <1>8, <1>10, <2>6, <2>7
  <2>4. N = O
    BY <1>4, <2>3
  <2>5. c = d
    BY <1>3, <2>3, <2>4
  <2> QED BY <2>4, <2>5, <2>6, <2>7
<1>11. ASSUME NEW p \in B!Pairs, p[1] = g PROVE \E t \in B!PlanBatches(g) : B!Has(t, p)
  <2>1. p[2] \in B!Resources(g) /\ p[3] \in Metrics(g)
    BY <1>11, GroupFacts
  <2>2. PICK N \in Parts : p[3] \in N
    BY <1>4, <2>1
  <2>3. PICK c \in ChunksFor(N) : p[2] \in c
    BY <1>3, <2>1
  <2> QED BY <1>7, <1>8, <1>11, <2>2, <2>3
<1>12. ASSUME NEW p \in B!Pairs, NEW t \in B!PlanBatches(g), B!Has(t, p) PROVE p[1] = g
  BY <1>6, <1>8, <1>12
<1> QED BY <1>9, <1>10, <1>11, <1>12

LEMMA ReturnStep ==
  ASSUME B!ConstantsFit, BatchInv, B!GroupReturns
  PROVE  BatchInv'
<1>1. /\ BatchTypes /\ PairsHeld /\ B!ReplayFoldsTheSame
      /\ outcome = "collecting" /\ tasks = {}
      /\ UNCHANGED <<fallbackOnly, requested, unreachable, folded, gaps, archive>>
  BY DEF BatchInv, B!GroupReturns
<1>2. DOMAIN Groups = 1 .. Len(Groups) /\ Len(Groups) \in Nat \ {0} /\ group \in DOMAIN Groups
  BY <1>1, GroupFacts DEF BatchTypes
<1>3. \A p : DoneWith(p)' = DoneWith(p)
  BY <1>1 DEF DoneWith
<1>4. ASSUME NEW p \in B!Pairs
      PROVE  /\ p[1] \in Nat /\ DoneWith(p) <= 1 /\ DoneWith(p) \in Nat
             /\ p[1] <= group => DoneWith(p) # 0
             /\ p[1] > group => DoneWith(p) = 0
  <2>1. /\ DoneWith(p) <= 1
        /\ p[1] > group => DoneWith(p) = 0
        /\ p[1] <= group /\ DoneWith(p) = 0 => outcome \in Raised
    BY <1>1 DEF PairsHeld
  <2>2. p[1] \in DOMAIN Groups
    BY GroupFacts
  <2>3. outcome \notin Raised
    BY <1>1 DEF Raised
  <2>4. DoneWith(p) \in Nat
    BY <1>1 DEF DoneWith, BatchTypes
  <2> QED BY <1>2, <2>1, <2>2, <2>3, <2>4
<1>5. B!ReplayFoldsTheSame'
  BY <1>1 DEF B!ReplayFoldsTheSame
<1>6. \A u, p : B!Has(u, p)' <=> B!Has(u, p)
  BY DEF B!Has, B!Asked, B!First
<1>7. CASE group < Len(Groups)
  <2> DEFINE next == group + 1
  <2>1. group' = next /\ tasks' = B!PlanBatches(next) /\ outcome' = outcome
    BY <1>7 DEF B!GroupReturns
  <2>2. next \in DOMAIN Groups
    BY <1>2, <1>7
  <2>3. \A p \in B!Pairs :
          /\ p[1] \in Nat /\ DoneWith(p) <= 1
          /\ p[1] >= next => DoneWith(p) = 0
          /\ p[1] <= next /\ DoneWith(p) = 0 => p[1] = next
    BY <1>2, <1>4
  <2> HIDE DEF next
  <2>4. TaskType(group)' = TaskType(next)
    BY <2>1 DEF TaskType, Metrics, B!Resources, B!Names
  <2>5. /\ tasks' \subseteq TaskType(next) /\ \A t \in tasks' : t.answered \subseteq t.resources
        /\ \A p \in B!Pairs :
             /\ \A t, u \in tasks' : B!Has(t, p) /\ B!Has(u, p) => t = u
             /\ (\E t \in tasks' : B!Has(t, p)) <=> p[1] = next
    BY <2>1, <2>2, PlanFacts
  <2>6. BatchTypes'
    BY <1>1, <2>1, <2>2, <2>4, <2>5 DEF BatchTypes
  <2>7. PairsHeld'
    <3> SUFFICES ASSUME NEW p \in B!Pairs
                 PROVE  /\ \A u, v \in tasks' : B!Has(u, p) /\ B!Has(v, p) => u = v
                        /\ DoneWith(p) <= 1
                        /\ (\E u \in tasks' : B!Has(u, p)) => DoneWith(p) = 0
                        /\ p[1] > next => DoneWith(p) = 0
                        /\ p[1] <= next /\ DoneWith(p) = 0 => \E u \in tasks' : B!Has(u, p)
      BY <1>3, <1>6, <2>1 DEF PairsHeld
    <3>1. next \in Nat
      BY <1>2, <2>2
    <3> QED BY <2>3, <2>5, <3>1
  <2>8. outcome' = "collecting"
    BY <1>1, <2>1
  <2> QED BY <1>5, <2>6, <2>7, <2>8 DEF BatchInv
<1>8. CASE ~(group < Len(Groups))
  <2>1. outcome' \in {"unreachable", "collected"} /\ group' = group /\ tasks' = tasks
    BY <1>8 DEF B!GroupReturns
  <2>2. BatchTypes'
    BY <1>1, <1>2, <2>1 DEF BatchTypes
  <2>3. PairsHeld'
    BY <1>1, <1>3, <1>4, <2>1 DEF PairsHeld
  <2> QED BY <1>1, <1>5, <2>1, <2>2, <2>3 DEF BatchInv
<1> QED BY <1>7, <1>8

LEMMA BatchInit ==
  ASSUME B!ConstantsFit, B!Init
  PROVE  BatchInv
<1>1. DOMAIN Groups = 1 .. Len(Groups) /\ Len(Groups) \in Nat \ {0} /\ 1 \in DOMAIN Groups
  BY GroupFacts
<1>2. /\ outcome = "collecting" /\ group = 1 /\ tasks = B!PlanBatches(1)
      /\ fallbackOnly = {} /\ requested = {} /\ unreachable = {}
      /\ folded = [p \in B!Pairs |-> 0] /\ gaps = [p \in B!Pairs |-> 0]
      /\ archive = [pairs |-> {}, incomplete |-> FALSE]
  BY DEF B!Init
<1>3. /\ tasks \subseteq TaskType(1) /\ \A t \in tasks : t.answered \subseteq t.resources
      /\ \A p \in B!Pairs :
           /\ \A t, u \in tasks : B!Has(t, p) /\ B!Has(u, p) => t = u
           /\ (\E t \in tasks : B!Has(t, p)) <=> p[1] = 1
  BY <1>1, <1>2, PlanFacts
<1>4. BatchTypes
  BY <1>1, <1>2, <1>3 DEF BatchTypes
<1>5. PairsHeld
  <2> SUFFICES ASSUME NEW p \in B!Pairs
               PROVE  /\ \A t, u \in tasks : B!Has(t, p) /\ B!Has(u, p) => t = u
                      /\ DoneWith(p) = 0
                      /\ p[1] <= 1 => \E t \in tasks : B!Has(t, p)
    BY <1>2 DEF PairsHeld
  <2>1. p[1] \in DOMAIN Groups
    BY GroupFacts
  <2>2. p[1] <= 1 => p[1] = 1
    BY <1>1, <2>1
  <2> QED BY <1>2, <1>3, <2>2 DEF DoneWith
<1>6. B!ReplayFoldsTheSame
  BY <1>2 DEF B!ReplayFoldsTheSame
<1> QED BY <1>2, <1>4, <1>5, <1>6 DEF BatchInv

\* The inductive invariant: a pair is of one request at most and of none once it is counted,
\* and is in neither only when a request has raised or its group is still to come.
THEOREM BatchesInvariance ==
  ASSUME B!ConstantsFit
  PROVE  B!Spec => []BatchInv
<1>1. B!Init => BatchInv
  BY BatchInit
<1>2. BatchInv /\ [B!Next]_(B!vars) => BatchInv'
  <2> SUFFICES ASSUME BatchInv, [B!Next]_(B!vars) PROVE BatchInv'
    OBVIOUS
  <2>1. CASE B!GroupReturns
    BY <2>1, ReturnStep
  <2>2. ASSUME NEW t \in tasks, B!TaskNext(t) PROVE BatchInv'
    <3>1. CASE B!Request(t) \/ B!WaitEnds(t) \/ B!DnsFails(t)
      BY <2>2, <3>1, RequestStep
    <3>2. CASE B!BatchAnswers(t)
      BY <2>2, <3>2, BatchStep
    <3>3. CASE B!TransportFails(t)
      BY <2>2, <3>3, RaiseStep
    <3>4. CASE \E answered \in SUBSET t.resources : B!FallbackAnswers(t, answered)
      BY <2>2, <3>4, FallbackStep
    <3>5. CASE \E wrote \in BOOLEAN : B!Fold(t, wrote)
      BY <2>2, <3>5, FoldStep
    <3> QED BY <2>2, <3>1, <3>2, <3>3, <3>4, <3>5 DEF B!TaskNext
  <2>3. CASE UNCHANGED B!vars
    <3>1. UNCHANGED <<outcome, group, tasks, folded, gaps, archive>>
          /\ UNCHANGED <<fallbackOnly, requested, unreachable>>
      BY <2>3 DEF B!vars
    <3>2. TaskType(group)' = TaskType(group)
      BY <3>1 DEF TaskType, Metrics, B!Resources, B!Names
    <3>3. \A u, p : B!Has(u, p)' <=> B!Has(u, p)
      BY DEF B!Has, B!Asked, B!First
    <3>4. BatchTypes'
      BY <3>1, <3>2 DEF BatchInv, BatchTypes
    <3>5. PairsHeld'
      BY <3>1, <3>3 DEF BatchInv, PairsHeld, DoneWith
    <3>6. B!ReplayFoldsTheSame'
      BY <3>1 DEF BatchInv, B!ReplayFoldsTheSame
    <3> QED BY <3>1, <3>4, <3>5, <3>6 DEF BatchInv
  <2> QED BY <2>1, <2>2, <2>3 DEF B!Next
<1> QED BY <1>1, <1>2, PTL DEF B!Spec

\* A task holds a pair or none does: the number that do.
LEMMA BatchesAccounted ==
  ASSUME B!ConstantsFit, BatchInv
  PROVE  B!TypeOK /\ B!EachPairOnce /\ B!ReplayFoldsTheSame
<1>1. BatchTypes /\ PairsHeld /\ B!ReplayFoldsTheSame
  BY DEF BatchInv
<1>2. B!EachPairOnce
  <2> SUFFICES ASSUME NEW p \in B!Pairs, p[1] <= group
               PROVE  LET held  == {t \in tasks : B!Has(t, p)}
                          times == folded[p] + gaps[p] + B!Cardinality(held)
                      IN  times <= 1 /\ (times = 0 => outcome \in Raised)
    BY DEF B!EachPairOnce, Raised
  <2> DEFINE held == {t \in tasks : B!Has(t, p)}
  <2>1. folded[p] \in Nat /\ gaps[p] \in Nat
    BY <1>1 DEF BatchTypes
  <2>2. /\ \A t, u \in held : t = u
        /\ folded[p] + gaps[p] <= 1
        /\ held # {} => folded[p] + gaps[p] = 0
        /\ folded[p] + gaps[p] = 0 => outcome \in Raised \/ held # {}
    BY <1>1 DEF PairsHeld, DoneWith
  <2> HIDE DEF held
  <2>3. CASE held = {}
    <3>1. B!Cardinality(held) = 0
      BY <2>3, BatchSizes, FS_EmptySet
    <3> QED BY <2>1, <2>2, <2>3, <3>1 DEF held
  <2>4. CASE held # {}
    <3>1. PICK t : held = {t}
      BY <2>2, <2>4
    <3>2. B!Cardinality(held) = 1
      BY <3>1, BatchSizes, FS_Singleton
    <3> QED BY <2>1, <2>2, <2>4, <3>2 DEF held
  <2> QED BY <2>3, <2>4
<1>3. B!TypeOK
  <2>1. group \in Nat /\ 1 <= group
    BY <1>1, GroupFacts DEF BatchTypes
  <2>2. ASSUME NEW t \in tasks
        PROVE  /\ t.group \in 1 .. group
               /\ t.resources \in (SUBSET B!Resources(t.group)) \ {{}}
               /\ t.answered \subseteq t.resources
               /\ t.todo \in (SUBSET B!Names(Groups[t.group].metrics)) \ {{}}
               /\ t.split \in BOOLEAN
               /\ t.pc \in {"ready", "batch", "fallback", "waiting", "archiving"}
               /\ t.throttled \in 0 .. MaxConsecutive429 - 1
    BY <2>1, RequestFacts DEF Metrics, Stages
  <2> QED BY <1>1, <2>2 DEF BatchTypes, Raised, B!TypeOK
<1> QED BY <1>1, <1>2, <1>3

\* However batches are halved, split by metric, throttled, refused or sent to the fallback:
\* every pair is folded once, or reported once, or still of one request, or of one that
\* raised; and a complete archive holds exactly what was folded.
THEOREM BatchesAccountedFor ==
  ASSUME B!ConstantsFit
  PROVE  B!Spec => [](B!TypeOK /\ B!EachPairOnce /\ B!ReplayFoldsTheSame)
<1>1. BatchInv => B!TypeOK /\ B!EachPairOnce /\ B!ReplayFoldsTheSame
  BY BatchesAccounted
<1> QED BY <1>1, BatchesInvariance, PTL

-------------------------------------------------------------------------------
(***************************************************************************)
(* What becomes of one metric.  An average that was folded at all has a    *)
(* positive count, so that whatever was folded has a statistic; what had   *)
(* nothing to fold is said to have no samples, and of a resource that is   *)
(* excluded nothing is said.                                               *)
(***************************************************************************)

\* What was folded has a statistic to come, and an excluded resource neither hours nor gaps
\* of finalize.
SeriesInv ==
  /\ kind \in Series!Kinds /\ leaves \in [Series!Sample -> Leaves]
  /\ answer \in {"answered", "omitted", "error", "silent"}
  /\ window.folded \in Nat /\ window.count \in Nat
  /\ kind = "averages" /\ window.folded > 0 => window.count > 0
  /\ finalized # Series!None => pending = {}
  /\ excluded => /\ byHour = Series!Nothing
                 /\ \A g \in recorded : g.type \notin {"no_samples", "sku_capability_missing"}
  /\ Series!AbsenceIsExplained

LEMMA StatisticsFacts ==
  ASSUME NEW acc
  PROVE  /\ kind = "averages" /\ acc.count > 0 => Series!Statistics(acc) # Series!Nothing
         /\ kind = "totals" => Series!Statistics(acc) # Series!Nothing
<1> DEFINE f == Series!Statistics(acc)
<1>1. acc.count > 0 => "avg" \in DOMAIN f
  BY DEF Series!Statistics
<1>2. kind = "totals" => "sum" \in DOMAIN f
  BY DEF Series!Statistics
<1> HIDE DEF f
<1>3. DOMAIN Series!Nothing = {}
  BY DEF Series!Nothing
<1> QED BY <1>1, <1>2, <1>3 DEF f

LEMMA FoldedFacts ==
  ASSUME Series!ConstantsFit, NEW acc, acc.folded \in Nat, acc.count \in Nat, NEW p \in Leaves,
         NEW k \in Series!Kinds, k = "averages" /\ acc.folded > 0 => acc.count > 0
  PROVE  LET new == Series!FoldInterval(acc, p, Series!Aggregations(k)) IN
         /\ new.folded \in Nat /\ new.count \in Nat
         /\ k = "averages" /\ new.folded > 0 => new.count > 0
<1> DEFINE aggs == Series!Aggregations(k)
           new == Series!FoldInterval(acc, p, aggs)
<1>1. p.count = Absent \/ p.count \in Int
  BY DEF Series!ConstantsFit, Series!LeafFits
<1>2. k = "averages" <=> "count" \in aggs
  BY DEF Series!Kinds, Series!Aggregations
<1> HIDE DEF aggs
<1>3. CASE Series!Malformed(p, aggs) \/ (Series!AsksCount(aggs) /\ p.count = 0)
  BY <1>3 DEF Series!FoldInterval, aggs
<1>4. CASE ~(Series!Malformed(p, aggs) \/ (Series!AsksCount(aggs) /\ p.count = 0))
  <2>1. /\ new.folded = acc.folded + 1
        /\ new.count = acc.count + (IF Series!AsksCount(aggs) THEN p.count ELSE 0)
    BY <1>4 DEF Series!FoldInterval
  <2>2. Series!AsksCount(aggs) => p.count \in Int /\ p.count > 0
    BY <1>1, <1>4 DEF Series!Malformed
  <2>3. Series!AsksCount(aggs) <=> k = "averages"
    BY <1>2 DEF Series!AsksCount
  <2> HIDE DEF new
  <2>4. new.folded \in Nat /\ new.count \in Nat /\ (k = "averages" => new.count > 0)
    BY <2>1, <2>2, <2>3
  <2> QED BY <2>4 DEF new, aggs
<1> QED BY <1>3, <1>4

LEMMA CollectStep ==
  ASSUME Series!ConstantsFit, SeriesInv, NEW i \in Series!Sample,
         Series!Screen(i) \/ Series!Fold(i)
  PROVE  SeriesInv'
<1>1. /\ UNCHANGED <<kind, excluded, answer, leaves, finalized>> /\ pending # {}
      /\ excluded => window' = window /\ byHour' = byHour
      /\ \/ window' = window
         \/ window' = Series!FoldInterval(window, leaves[i], Series!Aggregations(kind))
      /\ \A g \in recorded' : g \in recorded \/
           g.type \in {"interval_counts_missing", "interval_malformed"}
  <2>2. CASE Series!Screen(i)
    BY <2>2 DEF Series!Screen, Series!Gap
  <2>3. CASE Series!Fold(i)
    BY <2>3 DEF Series!Fold, Series!FoldDay, Series!Gap
  <2> QED BY <2>2, <2>3
<1>2. leaves[i] \in Leaves
  BY DEF SeriesInv
<1>3. /\ window'.folded \in Nat /\ window'.count \in Nat
      /\ kind = "averages" /\ window'.folded > 0 => window'.count > 0
  BY <1>1, <1>2, FoldedFacts DEF SeriesInv
<1>4. finalized = Series!None
  BY <1>1 DEF SeriesInv
<1> QED BY <1>1, <1>3, <1>4 DEF SeriesInv, Series!AbsenceIsExplained

LEMMA FinalizeStep ==
  ASSUME Series!ConstantsFit, SeriesInv, Series!FinalizeNothing \/ Series!Finalize
  PROVE  SeriesInv'
<1>1. /\ UNCHANGED <<kind, excluded, answer, leaves, pending, window, byHour>>
      /\ pending = {} /\ recorded \subseteq recorded'
      /\ excluded => finalized'.statistics = Series!Nothing /\ recorded' = recorded
      /\ ~excluded => \/ recorded' # {}
                      \/ window.folded > 0 /\ finalized'.statistics = Series!Statistics(window)
  <2>1. CASE Series!FinalizeNothing
    BY <2>1 DEF Series!FinalizeNothing, Series!Close
  <2>2. CASE Series!Finalize
    BY <2>2 DEF Series!Finalize, Series!Close
  <2> QED BY <2>1, <2>2
<1>2. kind # "extremes" /\ window.folded > 0 => Series!Statistics(window) # Series!Nothing
  BY StatisticsFacts DEF SeriesInv, Series!Kinds
<1>3. Series!AbsenceIsExplained'
  BY <1>1, <1>2 DEF SeriesInv, Series!AbsenceIsExplained
<1> QED BY <1>1, <1>3 DEF SeriesInv

\* The inductive invariant of one metric, from its response to its statistics.
THEOREM SeriesInvariance == ASSUME Series!ConstantsFit PROVE Series!Spec => []SeriesInv
<1>1. Series!Init => SeriesInv
  BY DEF Series!Init, Series!Empty, SeriesInv, Series!AbsenceIsExplained
<1>2. SeriesInv /\ [Series!Next]_(Series!vars) => SeriesInv'
  <2> SUFFICES ASSUME SeriesInv, [Series!Next]_(Series!vars) PROVE SeriesInv'
    OBVIOUS
  <2>1. CASE Series!Unanswered
    <3>1. UNCHANGED <<kind, excluded, answer, leaves, window, byHour, finalized>>
          /\ pending # {}
          /\ \A g \in recorded' : g \in recorded \/
               g.type \in {"resource_absent_from_response", "metric_error"}
      BY <2>1 DEF SeriesInv, Series!Unanswered, Series!Gap
    <3>2. finalized = Series!None
      BY <3>1 DEF SeriesInv
    <3> QED BY <3>1, <3>2 DEF SeriesInv, Series!AbsenceIsExplained
  <2>2. ASSUME NEW i \in Series!Sample, Series!Screen(i) \/ Series!Fold(i) PROVE SeriesInv'
    BY <2>2, CollectStep
  <2>3. CASE Series!FinalizeNothing \/ Series!Finalize
    BY <2>3, FinalizeStep
  <2>4. CASE UNCHANGED Series!vars
    BY <2>4 DEF Series!vars, SeriesInv, Series!AbsenceIsExplained
  <2> QED BY <2>1, <2>2, <2>3, <2>4 DEF Series!Next
<1> QED BY <1>1, <1>2, PTL DEF Series!Spec

\* A pair without a statistic has a gap that says why, where totals are asked for, and a pair
\* of an excluded resource has neither: whatever the intervals hold and come in what order.
THEOREM AbsencesExplained ==
  ASSUME Series!ConstantsFit PROVE Series!Spec => []Series!AbsenceIsExplained
<1>1. SeriesInv => Series!AbsenceIsExplained
  BY DEF SeriesInv
<1> QED BY <1>1, SeriesInvariance, PTL

\* A resource's metric is accounted for once by the requests to either platform, and by what
\* becomes of its samples: PairsAccounted is true of each part's behaviours, however the
\* others go on.
THEOREM PairsAreAccounted ==
  ASSUME B!ConstantsFit, C!ConstantsFit, Series!ConstantsFit
  PROVE  B!Spec /\ C!Spec /\ Series!Spec => []PairsAccounted
<1>1. /\ B!TypeOK /\ B!EachPairOnce /\ B!ReplayFoldsTheSame
      /\ C!TypeOK /\ C!EachPairOnce /\ C!ReplayFoldsTheSame
      /\ Series!AbsenceIsExplained
      => PairsAccounted
  BY DEF PairsAccounted
<1> QED BY <1>1, BatchesAccountedFor, CallsAccounted, AbsencesExplained, PTL

-------------------------------------------------------------------------------
(***************************************************************************)
(* Induction over the numbers: the least of a set of them, from which a set*)
(* that has 0 and with a number the next has all, and a function that is   *)
(* given for 0 and from each number for the next exists.                   *)
(***************************************************************************)

\* Some numbers have a least one.
LEMMA LeastNat ==
  ASSUME NEW T, T \subseteq Nat, T # {}
  PROVE  \E n \in T : \A m \in T : n <= m
<1> DEFINE R == {p \in Nat \X Nat : p[1] < p[2]}
<1>1. IsWellFoundedOn(R, Nat)
  BY NatLessThanWellFounded DEF OpToRel
<1>2. PICK n \in T : \A m \in T : ~(<<m, n>> \in R)
  <2> HIDE DEF R
  <2> QED BY <1>1, WFMin
<1>3. ASSUME NEW m \in T PROVE n <= m
  <2>1. m \in Nat /\ n \in Nat
    OBVIOUS
  <2>2. <<m, n>> \in Nat \X Nat /\ <<m, n>>[1] = m /\ <<m, n>>[2] = n
    BY <2>1
  <2>3. ~(m < n)
    BY <1>2, <2>2
  <2> QED BY <2>1, <2>3
<1> QED BY <1>3

\* A set that has 0, and with a number the next one, has all of them.
LEMMA Induction ==
  ASSUME NEW T, 0 \in T, \A n \in Nat : n \in T => n + 1 \in T
  PROVE  \A n \in Nat : n \in T
<1> SUFFICES ASSUME NEW k \in Nat, k \notin T PROVE FALSE
  OBVIOUS
<1> DEFINE U == {n \in Nat : n \notin T}
<1>1. U \subseteq Nat /\ U # {}
  OBVIOUS
<1>2. PICK n \in U : \A m \in U : n <= m
  <2> HIDE DEF U
  <2> QED BY <1>1, LeastNat
<1>3. n \in Nat /\ n \notin T /\ n # 0
  BY <1>2
<1>4. n - 1 \in Nat /\ n - 1 \notin U /\ n = (n - 1) + 1
  BY <1>2, <1>3
<1> QED BY <1>3, <1>4

Follows(f, a, s) == f[0] = a /\ \A n \in Nat : f[n + 1] = s[n][f[n]]

\* A function that is given for 0 and from each number for the next exists.
LEMMA Recursion ==
  ASSUME NEW V, NEW a \in V, NEW s \in [Nat -> [V -> V]]
  PROVE  \E f \in [Nat -> V] : Follows(f, a, s)
<1> DEFINE Upto(n) == {g \in [0..n -> V] : g[0] = a /\ \A i \in 0..(n - 1) : g[i + 1] = s[i][g[i]]}
           T == {n \in Nat : \E g : Upto(n) = {g}}
<1>1. 0 \in T
  <2> DEFINE g == [i \in 0..0 |-> a]
  <2>1. g \in Upto(0)
    OBVIOUS
  <2>2. ASSUME NEW h \in Upto(0) PROVE h = g
    <3>1. h \in [0..0 -> V] /\ h[0] = a
      OBVIOUS
    <3>2. \A i \in 0..0 : i = 0
      OBVIOUS
    <3> QED BY <3>1, <3>2
  <2> HIDE DEF Upto, g
  <2> QED BY <2>1, <2>2
<1>2. ASSUME NEW n \in Nat, n \in T PROVE n + 1 \in T
  <2>1. PICK g : Upto(n) = {g}
    BY <1>2
  <2>2. g \in [0..n -> V] /\ g[0] = a /\ \A i \in 0..(n - 1) : g[i + 1] = s[i][g[i]]
    BY <2>1
  <2> DEFINE h == [i \in 0..(n + 1) |-> IF i = n + 1 THEN s[n][g[n]] ELSE g[i]]
  <2>3. h \in Upto(n + 1)
    <3>1. g[n] \in V /\ s[n][g[n]] \in V
      BY <2>2
    <3>2. h \in [0..(n + 1) -> V]
      BY <2>2, <3>1
    <3>3. h[0] = a
      BY <2>2
    <3>4. ASSUME NEW i \in 0..(n + 1 - 1) PROVE h[i + 1] = s[i][h[i]]
      <4>1. i \in 0..n /\ i + 1 \in 0..(n + 1) /\ i # n + 1 /\ h[i] = g[i]
        OBVIOUS
      <4>2. CASE i = n
        BY <4>1, <4>2
      <4>3. CASE i # n
        BY <2>2, <4>1, <4>3
      <4> QED BY <4>2, <4>3
    <3> HIDE DEF h
    <3> QED BY <3>2, <3>3, <3>4
  <2>4. ASSUME NEW k \in Upto(n + 1) PROVE k = h
    <3>1. k \in [0..(n + 1) -> V] /\ k[0] = a /\ \A i \in 0..n : k[i + 1] = s[i][k[i]]
      <4>1. n + 1 - 1 = n
        OBVIOUS
      <4> QED BY <4>1
    <3> DEFINE r == [i \in 0..n |-> k[i]]
    <3>2. r \in Upto(n)
      <4>1. r \in [0..n -> V] /\ r[0] = a
        BY <3>1
      <4>2. ASSUME NEW i \in 0..(n - 1) PROVE r[i + 1] = s[i][r[i]]
        <5>1. i \in 0..n /\ i + 1 \in 0..n
          OBVIOUS
        <5> QED BY <3>1, <5>1
      <4> HIDE DEF r
      <4> QED BY <4>1, <4>2
    <3>3. r = g
      <4> HIDE DEF r, Upto
      <4> QED BY <2>1, <3>2
    <3>4. ASSUME NEW i \in 0..(n + 1) PROVE k[i] = h[i]
      <4>1. CASE i = n + 1
        <5>1. k[n + 1] = s[n][k[n]] /\ k[n] = g[n]
          BY <3>1, <3>3
        <5> QED BY <4>1, <5>1
      <4>2. CASE i # n + 1
        <5>1. i \in 0..n
          BY <4>2
        <5> QED BY <3>3, <4>2, <5>1
      <4> QED BY <4>1, <4>2
    <3> QED BY <3>1, <3>4
  <2> HIDE DEF Upto, h
  <2> QED BY <2>3, <2>4
<1>3. \A n \in Nat : n \in T
  <2> HIDE DEF T
  <2> QED BY <1>1, <1>2, Induction
<1> DEFINE The(n) == CHOOSE g : Upto(n) = {g}
           f == [n \in Nat |-> The(n)[n]]
<1>4. ASSUME NEW n \in Nat PROVE Upto(n) = {The(n)} /\ The(n) \in Upto(n)
  <2>1. \E g : Upto(n) = {g}
    BY <1>3
  <2> HIDE DEF Upto
  <2> QED BY <2>1
<1>5. ASSUME NEW n \in Nat
      PROVE  /\ f[n] \in V /\ (n = 0 => f[n] = a)
             /\ f[n + 1] = s[n][f[n]]
  <2> DEFINE g == The(n)
             h == The(n + 1)
             r == [i \in 0..n |-> h[i]]
  <2>1. g \in [0..n -> V] /\ g[0] = a
    <3> HIDE DEF The
    <3> QED BY <1>4
  <2>2. n + 1 \in Nat /\ h \in Upto(n + 1) /\ n + 1 - 1 = n
    <3> HIDE DEF The, Upto
    <3> QED BY <1>4
  <2>3. h \in [0..(n + 1) -> V] /\ h[0] = a /\ \A i \in 0..n : h[i + 1] = s[i][h[i]]
    <3> HIDE DEF h
    <3> QED BY <2>2
  <2>4. r \in Upto(n)
    <3> HIDE DEF h
    <3>1. r \in [0..n -> V] /\ r[0] = a
      BY <2>3
    <3>2. ASSUME NEW i \in 0..(n - 1) PROVE r[i + 1] = s[i][r[i]]
      <4>1. i \in 0..n /\ i + 1 \in 0..n
        OBVIOUS
      <4> QED BY <2>3, <4>1
    <3> HIDE DEF r
    <3> QED BY <3>1, <3>2
  <2>5. r = g
    <3> HIDE DEF r, Upto, The
    <3> QED BY <1>4, <2>4
  <2>6. f[n] = g[n] /\ f[n + 1] = h[n + 1]
    <3> HIDE DEF The
    <3> QED BY <2>2
  <2>7. g[n] = h[n] /\ h[n + 1] = s[n][h[n]]
    <3> HIDE DEF g, h
    <3> QED BY <2>3, <2>5
  <2> HIDE DEF f, g, h
  <2> QED BY <2>1, <2>6, <2>7
<1>6. f \in [Nat -> V]
  <2>1. f = [n \in Nat |-> f[n]]
    OBVIOUS
  <2> HIDE DEF f
  <2> QED BY <1>5, <2>1
<1> HIDE DEF f
<1>7. Follows(f, a, s)
  BY <1>5 DEF Follows
<1> QED BY <1>6, <1>7

-------------------------------------------------------------------------------
(***************************************************************************)
(* The days a run is about.  The local days are cut at their midnights, each*)
(* lasts, and no change of the clocks comes between the two readings of one;*)
(* so windows that meet in days meet in instants, and the slots of a day are*)
(* all of it.                                                              *)
(***************************************************************************)

\* The greatest of some of the numbers from 1 to n.
LEMMA Greatest ==
  ASSUME NEW n \in Nat, NEW T, T \subseteq 1..n, T # {}
  PROVE  P!Max(T) \in T /\ \A i \in T : i <= P!Max(T)
<1> DEFINE U == {n - i : i \in T}
<1>1. U \subseteq Nat /\ U # {}
  <2>1. \A i \in T : i \in 1..n
    OBVIOUS
  <2>2. \A i \in T : n - i \in Nat
    BY <2>1
  <2> QED BY <2>2
<1>2. PICK u \in U : \A v \in U : u <= v
  BY <1>1, LeastNat
<1>3. PICK m \in T : u = n - m
  OBVIOUS
<1>4. \A i \in T : n - m <= n - i
  BY <1>2, <1>3
<1>5. \A i \in T : m >= i
  BY <1>4
<1>6. P!Max(T) \in T /\ \A i \in T : P!Max(T) >= i
  BY <1>5 DEF P!Max
<1> QED BY <1>6

Q == P!QuartersPerDay

\* A day is of whole hours, an hour of four quarters.
LEMMA QuarterFacts ==
  ASSUME P!CalendarFits
  PROVE  Q \in Nat /\ Q >= 4 /\ Q % 4 = 0 /\ Q \div 2 \in Nat /\ 2 * (Q \div 2) = Q
<1>1. HoursPerDay \in Nat /\ HoursPerDay >= 1
  BY DEF P!CalendarFits
<1>2. Q = HoursPerDay * 4
  BY DEF Q, P!QuartersPerDay, P!QuartersPerHour
<1> QED BY <1>1, <1>2

\* The offset after so many changes of the clocks.
Off(z, k) == IF k = 0 THEN z.start ELSE z.trans[k].offset

\* How many changes there are up to the latest of these.
Latest(S) == IF S = {} THEN 0 ELSE P!Max(S)

\* Of changes in their order those up to a time are the first so many.
LEMMA Prefix ==
  ASSUME NEW n \in Nat, NEW S, S \subseteq 1..n,
         \A i, j \in 1..n : i < j /\ j \in S => i \in S
  PROVE  Latest(S) \in 0..n /\ \A i \in 1..n : i \in S <=> i <= Latest(S)
<1>1. CASE S = {}
  BY <1>1 DEF Latest
<1>2. CASE S # {}
  <2> DEFINE k == Latest(S)
  <2>1. k \in S /\ \A i \in S : i <= k
    BY <1>2, Greatest DEF Latest
  <2> HIDE DEF k
  <2>2. k \in 1..n
    BY <2>1
  <2>3. \A i \in 1..n : i <= k => i = k \/ i < k
    BY <2>2
  <2>4. \A i \in 1..n : i \in S <=> i <= k
    BY <2>1, <2>2, <2>3
  <2> QED BY <2>2, <2>4 DEF k
<1> QED BY <1>1, <1>2

Changes(z) == 1..Len(z.trans)

\* The changes of a zone are in their order, with room between them, and its offsets less
\* than half a day.
LEMMA ZoneFacts ==
  ASSUME P!CalendarFits, NEW z, P!ZoneFits(z)
  PROVE  /\ Len(z.trans) \in Nat /\ DOMAIN z.trans = Changes(z)
         /\ \A k \in 0..Len(z.trans) : Off(z, k) \in Int /\ 0 - Q < Off(z, k) /\ Off(z, k) < Q
         /\ \A i \in Changes(z) :
              /\ Off(z, i - 1) \in Int /\ Off(z, i) \in Int
              /\ z.trans[i].at \in Int /\ P!Earlier(z, i) \in Int /\ P!Later(z, i) \in Int
              /\ P!Earlier(z, i) \in {z.trans[i].at + Off(z, i - 1), z.trans[i].at + Off(z, i)}
              /\ P!Later(z, i) \in {z.trans[i].at + Off(z, i - 1), z.trans[i].at + Off(z, i)}
              /\ P!Earlier(z, i) <= z.trans[i].at + Off(z, i - 1)
              /\ P!Earlier(z, i) <= z.trans[i].at + Off(z, i)
              /\ z.trans[i].at + Off(z, i - 1) <= P!Later(z, i)
              /\ z.trans[i].at + Off(z, i) <= P!Later(z, i)
              /\ P!Later(z, i) - P!Earlier(z, i) < Q
         /\ \A i, j \in Changes(z) : i < j =>
              /\ z.trans[j].at - z.trans[i].at >= 2 * Q
              /\ P!Later(z, i) <= P!Earlier(z, j)
<1> DEFINE n == Len(z.trans)
           Offset == 1 - Q .. Q - 1
<1>1. z.start \in Offset /\ z.trans \in Seq([at : Int, offset : Offset])
  BY DEF P!ZoneFits, Q
<1>2. n \in Nat /\ DOMAIN z.trans = 1..n /\ \A i \in 1..n : z.trans[i] \in [at : Int, offset : Offset]
  BY <1>1, LenProperties, ElementOfSeq
<1>3. Q \in Nat /\ Q >= 4
  BY QuarterFacts
<1>4. \A k \in 0..n : Off(z, k) \in Int /\ 0 - Q < Off(z, k) /\ Off(z, k) < Q
  <2> SUFFICES ASSUME NEW k \in 0..n
               PROVE  Off(z, k) \in Int /\ 0 - Q < Off(z, k) /\ Off(z, k) < Q
    OBVIOUS
  <2>1. Off(z, k) \in Offset
    BY <1>1, <1>2 DEF Off
  <2> QED BY <1>3, <2>1
<1>5. ASSUME NEW a \in Int, NEW b \in Int
      PROVE  /\ P!Min({a, b}) \in {a, b} /\ P!Min({a, b}) <= a /\ P!Min({a, b}) <= b
             /\ P!Max({a, b}) \in {a, b} /\ a <= P!Max({a, b}) /\ b <= P!Max({a, b})
  <2>1. P!Min({a, b}) \in {a, b} /\ \A y \in {a, b} : P!Min({a, b}) <= y
    BY DEF P!Min
  <2>2. P!Max({a, b}) \in {a, b} /\ \A y \in {a, b} : P!Max({a, b}) >= y
    BY DEF P!Max
  <2> QED BY <2>1, <2>2
<1>6. ASSUME NEW i \in 1..n
      PROVE  /\ Off(z, i - 1) \in Int /\ Off(z, i) \in Int
             /\ z.trans[i].at \in Int /\ P!Earlier(z, i) \in Int /\ P!Later(z, i) \in Int
             /\ P!Earlier(z, i) \in {z.trans[i].at + Off(z, i - 1), z.trans[i].at + Off(z, i)}
             /\ P!Later(z, i) \in {z.trans[i].at + Off(z, i - 1), z.trans[i].at + Off(z, i)}
             /\ P!Earlier(z, i) <= z.trans[i].at + Off(z, i - 1)
             /\ P!Earlier(z, i) <= z.trans[i].at + Off(z, i)
             /\ z.trans[i].at + Off(z, i - 1) <= P!Later(z, i)
             /\ z.trans[i].at + Off(z, i) <= P!Later(z, i)
             /\ P!Later(z, i) - P!Earlier(z, i) < Q
             /\ P!Later(z, i) <= z.trans[i].at + Q /\ z.trans[i].at - Q <= P!Earlier(z, i)
  <2> DEFINE b == Off(z, i - 1)
             a == Off(z, i)
             at == z.trans[i].at
  <2>1. P!OffsetBefore(z, i) = b /\ z.trans[i].offset = a
    BY DEF P!OffsetBefore, Off
  <2>2. i - 1 \in 0..n /\ i \in 0..n
    BY <1>2
  <2>3. b \in Int /\ 0 - Q < b /\ b < Q /\ a \in Int /\ 0 - Q < a /\ a < Q /\ at \in Int
    BY <1>2, <1>4, <2>2
  <2>4. P!Earlier(z, i) = at + P!Min({b, a}) /\ P!Later(z, i) = at + P!Max({b, a})
    BY <2>1 DEF P!Earlier, P!Later
  <2>5. P!Later(z, i) - P!Earlier(z, i) < Q
    BY <1>2 DEF P!ZoneFits, Q
  <2> HIDE DEF a, b, at
  <2>6. /\ P!Min({b, a}) \in {b, a} /\ P!Min({b, a}) <= b /\ P!Min({b, a}) <= a
        /\ P!Max({b, a}) \in {b, a} /\ b <= P!Max({b, a}) /\ a <= P!Max({b, a})
    BY <1>5, <2>3
  <2>7. /\ P!Earlier(z, i) \in Int /\ P!Later(z, i) \in Int
        /\ P!Earlier(z, i) \in {at + b, at + a} /\ P!Later(z, i) \in {at + b, at + a}
        /\ P!Earlier(z, i) <= at + b /\ P!Earlier(z, i) <= at + a
        /\ at + b <= P!Later(z, i) /\ at + a <= P!Later(z, i)
        /\ P!Later(z, i) <= at + Q /\ at - Q <= P!Earlier(z, i)
    BY <1>3, <2>3, <2>4, <2>6
  <2> QED BY <2>3, <2>5, <2>7 DEF a, b, at
<1>7. ASSUME NEW i \in 1..n, NEW j \in 1..n, i < j
      PROVE  z.trans[j].at - z.trans[i].at >= 2 * Q /\ P!Later(z, i) <= P!Earlier(z, j)
  <2>1. z.trans[j].at - z.trans[i].at >= 2 * Q
    BY <1>2, <1>7 DEF P!ZoneFits, Q
  <2> DEFINE ai == z.trans[i].at
             aj == z.trans[j].at
             li == P!Later(z, i)
             ej == P!Earlier(z, j)
  <2>2. /\ ai \in Int /\ aj \in Int /\ li \in Int /\ ej \in Int
        /\ li <= ai + Q /\ aj - Q <= ej /\ aj - ai >= 2 * Q
    BY <1>6, <2>1
  <2> HIDE DEF ai, aj, li, ej
  <2>3. li <= ej
    BY <1>3, <2>2
  <2> QED BY <2>1, <2>3 DEF li, ej
<1> QED BY <1>2, <1>4, <1>6, <1>7 DEF Changes

\* How many changes lie behind an instant, and behind a reading of the wall clock.
Since(z, t) == Latest({i \in DOMAIN z.trans : z.trans[i].at <= t})
Read(z, wall) == Latest({i \in DOMAIN z.trans : wall >= P!Later(z, i)})

\* The offset of an instant, and of a reading of the wall clock.
LEMMA Offsets ==
  ASSUME P!CalendarFits, NEW z, P!ZoneFits(z), NEW t \in Int
  PROVE  /\ P!UtcOffset(z, t) = Off(z, Since(z, t)) /\ P!UtcOf(z, t) = t - Off(z, Read(z, t))
         /\ Since(z, t) \in 0..Len(z.trans) /\ Read(z, t) \in 0..Len(z.trans)
         /\ \A i \in Changes(z) : i <= Since(z, t) <=> z.trans[i].at <= t
         /\ \A i \in Changes(z) : i <= Read(z, t) <=> P!Later(z, i) <= t
         /\ P!UtcOffset(z, t) \in Int /\ P!UtcOf(z, t) \in Int
<1>1. Len(z.trans) \in Nat /\ DOMAIN z.trans = 1..Len(z.trans)
  BY ZoneFacts DEF Changes
<1>0. Q \in Nat /\ Q >= 4
  BY QuarterFacts
<1>2. ASSUME NEW i \in 1..Len(z.trans), NEW j \in 1..Len(z.trans), i < j
      PROVE  /\ z.trans[i].at \in Int /\ z.trans[j].at \in Int /\ z.trans[i].at <= z.trans[j].at
             /\ P!Later(z, i) \in Int /\ P!Later(z, j) \in Int /\ P!Later(z, i) <= P!Later(z, j)
  <2>1. /\ z.trans[i].at \in Int /\ z.trans[j].at \in Int /\ Off(z, j) \in Int
        /\ P!Later(z, i) \in Int /\ P!Later(z, j) \in Int /\ P!Earlier(z, j) \in Int
        /\ P!Earlier(z, j) <= z.trans[j].at + Off(z, j) /\ z.trans[j].at + Off(z, j) <= P!Later(z, j)
    BY ZoneFacts DEF Changes
  <2>2. z.trans[j].at - z.trans[i].at >= 2 * Q /\ P!Later(z, i) <= P!Earlier(z, j)
    BY <1>2, ZoneFacts DEF Changes
  <2> DEFINE ai == z.trans[i].at
             aj == z.trans[j].at
             li == P!Later(z, i)
             lj == P!Later(z, j)
             ej == P!Earlier(z, j)
             oj == Off(z, j)
  <2>3. /\ ai \in Int /\ aj \in Int /\ oj \in Int /\ li \in Int /\ lj \in Int /\ ej \in Int
        /\ ej <= aj + oj /\ aj + oj <= lj /\ aj - ai >= 2 * Q /\ li <= ej
    BY <2>1, <2>2
  <2> HIDE DEF ai, aj, li, lj, ej, oj
  <2>4. ai <= aj
    BY <1>0, <2>3
  <2>5. li <= lj
    BY <2>3
  <2> QED BY <2>3, <2>4, <2>5 DEF ai, aj, li, lj
<1> DEFINE S == {i \in DOMAIN z.trans : z.trans[i].at <= t}
           R == {i \in DOMAIN z.trans : t >= P!Later(z, i)}
<1>4. Latest(S) \in 0..Len(z.trans) /\ \A i \in 1..Len(z.trans) : i \in S <=> i <= Latest(S)
  <2>1. S \subseteq 1..Len(z.trans) /\ \A i, j \in 1..Len(z.trans) : i < j /\ j \in S => i \in S
    <3>1. S \subseteq 1..Len(z.trans)
      BY <1>1
    <3>2. \A i \in 1..Len(z.trans) : i \in S <=> z.trans[i].at <= t
      BY <1>1
    <3>3. ASSUME NEW i \in 1..Len(z.trans), NEW j \in 1..Len(z.trans), i < j, j \in S PROVE i \in S
      <4> HIDE DEF S
      <4> QED BY <1>2, <3>2, <3>3
    <3> QED BY <3>1, <3>3
  <2> HIDE DEF S
  <2> QED BY <1>1, <2>1, Prefix
<1>5. Latest(R) \in 0..Len(z.trans) /\ \A i \in 1..Len(z.trans) : i \in R <=> i <= Latest(R)
  <2>1. R \subseteq 1..Len(z.trans) /\ \A i, j \in 1..Len(z.trans) : i < j /\ j \in R => i \in R
    <3>1. R \subseteq 1..Len(z.trans)
      BY <1>1
    <3>2. \A i \in 1..Len(z.trans) : i \in R <=> t >= P!Later(z, i)
      BY <1>1
    <3>3. ASSUME NEW i \in 1..Len(z.trans), NEW j \in 1..Len(z.trans), i < j, j \in R PROVE i \in R
      <4> HIDE DEF R
      <4> QED BY <1>2, <3>2, <3>3
    <3> QED BY <3>1, <3>3
  <2> HIDE DEF R
  <2> QED BY <1>1, <2>1, Prefix
<1>6. \A X : X \subseteq 1..Len(z.trans) => P!After(z, X) = Off(z, Latest(X))
  <2> SUFFICES ASSUME NEW X, X \subseteq 1..Len(z.trans) PROVE P!After(z, X) = Off(z, Latest(X))
    OBVIOUS
  <2>1. CASE X = {}
    BY <2>1 DEF P!After, Off, Latest
  <2>2. CASE X # {}
    <3>1. P!Max(X) \in 1..Len(z.trans)
      BY <1>1, <2>2, Greatest
    <3> QED BY <2>2, <3>1 DEF P!After, Off, Latest
  <2> QED BY <2>1, <2>2
<1>7. P!UtcOffset(z, t) = Off(z, Latest(S)) /\ P!UtcOf(z, t) = t - Off(z, Latest(R))
  BY <1>1, <1>6 DEF P!UtcOffset, P!UtcOf
<1>8. Off(z, Latest(S)) \in Int /\ Off(z, Latest(R)) \in Int
  BY <1>4, <1>5, ZoneFacts
<1> QED BY <1>0, <1>1, <1>4, <1>5, <1>7, <1>8 DEF Since, Read, Changes

\* A reading of the wall clock that no change of the clocks has between its two: whoever has
\* come to it in local time has come to its instant, and the other way round.
LEMMA ClockParts ==
  ASSUME P!CalendarFits, NEW z, P!ZoneFits(z), NEW w \in Int, NEW t \in Int,
         \A i \in Changes(z) : ~(P!Earlier(z, i) < w /\ w < P!Later(z, i))
  PROVE  w <= P!Local(z, t) <=> P!UtcOf(z, w) <= t
<1> DEFINE k == Since(z, t)
           j == Read(z, w)
           n == Len(z.trans)
<1>1. /\ n \in Nat /\ k \in 0..n /\ j \in 0..n /\ Q \in Nat
      /\ P!Local(z, t) = t + Off(z, k) /\ P!UtcOf(z, w) = w - Off(z, j)
      /\ Off(z, k) \in Int /\ Off(z, j) \in Int
      /\ \A i \in Changes(z) : i <= k <=> z.trans[i].at <= t
      /\ \A i \in Changes(z) : i <= j <=> P!Later(z, i) <= w
  BY ZoneFacts, Offsets, QuarterFacts DEF P!Local
<1> HIDE DEF k, j, n
<1>2. CASE k = j
  BY <1>1, <1>2
<1>3. CASE j < k
  <2> DEFINE ak == z.trans[k].at
             ek == P!Earlier(z, k)
             aj == z.trans[j + 1].at
             ej == P!Earlier(z, j + 1)
             lj == P!Later(z, j + 1)
             bj == Off(z, j)
             ok == Off(z, k)
  <2>1. k \in Changes(z) /\ j + 1 \in Changes(z)
    BY <1>1, <1>3 DEF Changes, n
  <2>2. /\ ak \in Int /\ ek \in Int /\ aj \in Int /\ ej \in Int /\ lj \in Int /\ bj \in Int /\ ok \in Int
        /\ ek <= ak + ok /\ ej <= aj + bj
    <3>1. (j + 1) - 1 = j
      BY <1>1
    <3> QED BY <1>1, <2>1, <3>1, ZoneFacts
  <2>3. ~(lj <= w) /\ ~(ej < w /\ w < lj) /\ ak <= t
    <3>1. ~(j + 1 <= j) /\ k <= k
      BY <1>1
    <3> QED BY <1>1, <2>1, <3>1
  <2>4. ej <= ek /\ aj <= ak
    <3>1. CASE k = j + 1
      BY <2>2, <3>1
    <3>2. CASE j + 1 < k
      <4>1. ak - aj >= 2 * Q /\ lj <= ek
        BY <2>1, <3>2, ZoneFacts
      <4>2. ej <= lj
        <5>1. ej <= aj + Off(z, j + 1) /\ aj + Off(z, j + 1) <= lj /\ Off(z, j + 1) \in Int
          BY <2>1, ZoneFacts
        <5> HIDE DEF ej, aj, lj
        <5> QED BY <2>2, <5>1
      <4> HIDE DEF ak, aj, lj, ek, ej
      <4> QED BY <1>1, <2>2, <4>1, <4>2
    <3> QED BY <1>1, <1>3, <3>1, <3>2
  <2> HIDE DEF ak, ek, aj, ej, lj
  <2>5. w <= t + ok /\ w - bj <= t
    <3> HIDE DEF ok, bj
    <3> QED BY <2>2, <2>3, <2>4
  <2> QED BY <1>1, <2>5
<1>4. CASE k < j
  <2> DEFINE aj == z.trans[j].at
             lj == P!Later(z, j)
             oj == Off(z, j)
             ak == z.trans[k + 1].at
             lk == P!Later(z, k + 1)
             bk == Off(z, k)
  <2>1. j \in Changes(z) /\ k + 1 \in Changes(z)
    BY <1>1, <1>4 DEF Changes, n
  <2>2. /\ ak \in Int /\ aj \in Int /\ lk \in Int /\ lj \in Int /\ bk \in Int /\ oj \in Int
        /\ ak + bk <= lk /\ aj + oj <= lj
    <3>1. (k + 1) - 1 = k
      BY <1>1
    <3> QED BY <1>1, <2>1, <3>1, ZoneFacts
  <2>3. lj <= w /\ ~(ak <= t)
    <3>1. ~(k + 1 <= k) /\ j <= j
      BY <1>1
    <3> QED BY <1>1, <2>1, <3>1
  <2>4. lk <= lj /\ ak <= aj
    <3>1. CASE j = k + 1
      BY <2>2, <3>1
    <3>2. CASE k + 1 < j
      <4> DEFINE ej == P!Earlier(z, j)
      <4>1. aj - ak >= 2 * Q /\ lk <= ej
        BY <2>1, <3>2, ZoneFacts
      <4>2. ej \in Int /\ ej <= aj + oj
        BY <2>1, ZoneFacts
      <4> HIDE DEF ak, aj, lj, lk, ej, oj
      <4> QED BY <1>1, <2>2, <4>1, <4>2
    <3> QED BY <1>1, <1>4, <3>1, <3>2
  <2> HIDE DEF ak, aj, lk, lj
  <2>5. ~(w <= t + bk) /\ ~(w - oj <= t)
    <3> HIDE DEF oj, bk
    <3> QED BY <2>2, <2>3, <2>4
  <2> QED BY <1>1, <2>5
<1> QED BY <1>1, <1>2, <1>3, <1>4

\* A midnight, in local time.
Midnight(z, d) == P!UtcOf(z, d * Q)

\* Days and quarters: where a number lies between two multiples of another.
LEMMA Multiples ==
  ASSUME P!CalendarFits
  PROVE  /\ \A d \in Int : d * Q \in Int /\ (d * Q) % Q = 0 /\ (d + 1) * Q = d * Q + Q
         /\ \A d \in Int : d * Q + Q \div 2 \in Int /\ (d * Q + Q \div 2) % Q = Q \div 2
         /\ \A d \in Int : (d * Q) % 4 = 0
         /\ \A x, d \in Int : d <= x \div Q <=> d * Q <= x
         /\ \A x \in Int : x \div Q \in Int
<1>1. Q \in Nat /\ Q >= 4 /\ Q \div 2 \in Nat /\ 2 * (Q \div 2) = Q
  BY QuarterFacts
<1>2. PICK h \in Nat : Q = h * 4
  BY DEF P!CalendarFits, Q, P!QuartersPerDay, P!QuartersPerHour
<1> DEFINE half == Q \div 2
<1>3. half \in Nat /\ half < Q
  BY <1>1
<1> HIDE DEF half
<1>4. ASSUME NEW d \in Int PROVE d * Q \in Int /\ (d + 1) * Q = d * Q + Q
  BY <1>1
<1>5. ASSUME NEW x \in Int, NEW d \in Int PROVE x \div Q \in Int /\ (d <= x \div Q <=> d * Q <= x)
  <2> DEFINE q == x \div Q
  <2>1. q \in Int /\ q * Q <= x /\ x < q * Q + Q
    BY <1>1
  <2> HIDE DEF q
  <2>2. CASE d <= q
    <3>1. d * Q <= q * Q
      BY <1>1, <2>1, <2>2
    <3> QED BY <1>4, <2>1, <2>2, <3>1 DEF q
  <2>3. CASE ~(d <= q)
    <3>1. q + 1 <= d /\ q + 1 \in Int
      BY <2>1, <2>3
    <3>2. (q + 1) * Q <= d * Q /\ (q + 1) * Q = q * Q + Q
      BY <1>1, <2>1, <3>1
    <3> QED BY <1>4, <2>1, <2>3, <3>2 DEF q
  <2> QED BY <2>2, <2>3
<1>6. ASSUME NEW d \in Int PROVE (d * Q) % Q = 0 /\ (d * Q + half) % Q = half /\ (d * Q) % 4 = 0
  <2>1. d * Q = (d * h) * 4 /\ d * h \in Int
    BY <1>2
  <2>2. (d * Q) % 4 = 0
    BY <2>1
  <2>3. (d * Q) % Q = 0
    BY <1>1
  <2>4. (d * Q + half) % Q = half
    <3> DEFINE x == d * Q + half
               q == x \div Q
    <3>1. d * Q \in Int /\ d + 1 \in Int /\ (d + 1) * Q = d * Q + Q
      BY <1>4
    <3>2. x \in Int /\ d * Q <= x /\ ~((d + 1) * Q <= x)
      BY <1>1, <1>3, <3>1
    <3>3. x = q * Q + (x % Q) /\ q \in Int /\ x % Q \in Int
      <4> HIDE DEF x
      <4> QED BY <1>1, <3>2
    <3>4. d <= q /\ ~(d + 1 <= q)
      <4> HIDE DEF x
      <4> QED BY <1>5, <3>1, <3>2
    <3>5. q = d
      <4> HIDE DEF x, q
      <4> QED BY <3>3, <3>4
    <3>6. x = d * Q + (x % Q)
      BY <3>3, <3>5
    <3> DEFINE r == x % Q
               y == d * Q
    <3>7. y + half = y + r /\ y \in Int /\ r \in Int
      BY <3>1, <3>3, <3>6
    <3>8. half = r
      <4> HIDE DEF x, y, r
      <4> QED BY <1>3, <3>7
    <3> QED BY <3>8
  <2> QED BY <2>2, <2>3, <2>4
<1>7. \A d \in Int : d * Q + half \in Int
  BY <1>3, <1>4
<1>8. \A x, d \in Int : d <= x \div Q <=> d * Q <= x
  BY <1>5
<1>9. \A x \in Int : x \div Q \in Int
  BY <1>1
<1> QED BY <1>4, <1>6, <1>7, <1>8, <1>9 DEF half

\* A midnight is no more between the two readings of a changing clock than the end of a day is.
LEMMA MidnightUnbroken ==
  ASSUME P!CalendarFits, NEW z, P!ZoneFits(z), NEW d \in Int
  PROVE  \A i \in Changes(z) : ~(P!Earlier(z, i) < d * Q /\ d * Q < P!Later(z, i))
<1> SUFFICES ASSUME NEW i \in Changes(z), P!Earlier(z, i) < d * Q, d * Q < P!Later(z, i)
             PROVE  FALSE
  OBVIOUS
<1> DEFINE e == P!Earlier(z, i)
           l == P!Later(z, i)
           w == d * Q
<1>1. e \in Int /\ l \in Int /\ i \in DOMAIN z.trans /\ w \in Int /\ w % Q = 0
  BY ZoneFacts, Multiples
<1>2. \A wall \in e .. l : wall % Q = 0 => wall \in {e, l}
  BY <1>1 DEF P!ZoneFits, Q
<1>3. e < w /\ w < l
  OBVIOUS
<1> HIDE DEF e, l, w
<1> QED BY <1>1, <1>2, <1>3

\* The local days are cut at their midnights.
LEMMA DayParts ==
  ASSUME P!CalendarFits, NEW z, P!ZoneFits(z), NEW d \in Int, NEW t \in Int
  PROVE  /\ Midnight(z, d) \in Int /\ P!LocalDay(z, t) \in Int
         /\ d <= P!LocalDay(z, t) <=> Midnight(z, d) <= t
         /\ d = P!LocalDay(z, t) <=> Midnight(z, d) <= t /\ t < Midnight(z, d + 1)
<1>1. \A c \in Int : c * Q \in Int
  BY Multiples
<1>2. P!Local(z, t) \in Int
  BY Offsets DEF P!Local
<1>3. ASSUME NEW c \in Int
      PROVE Midnight(z, c) \in Int /\ (c <= P!LocalDay(z, t) <=> Midnight(z, c) <= t)
  <2>1. c <= P!LocalDay(z, t) <=> c * Q <= P!Local(z, t)
    BY <1>2, Multiples DEF P!LocalDay, Q
  <2>2. c * Q <= P!Local(z, t) <=> Midnight(z, c) <= t
    BY <1>1, MidnightUnbroken, ClockParts DEF Midnight
  <2> QED BY <1>1, <2>1, <2>2, Offsets DEF Midnight
<1>4. P!LocalDay(z, t) \in Int
  BY <1>2, Multiples DEF P!LocalDay, Q
<1>5. d + 1 \in Int
  OBVIOUS
<1>6. d = P!LocalDay(z, t) <=> d <= P!LocalDay(z, t) /\ ~(d + 1 <= P!LocalDay(z, t))
  BY <1>4
<1>7. ~(Midnight(z, d + 1) <= t) <=> t < Midnight(z, d + 1)
  BY <1>3, <1>5
<1> QED BY <1>3, <1>4, <1>5, <1>6, <1>7

\* Each day has time.
LEMMA DaysLast ==
  ASSUME P!CalendarFits, NEW z, P!ZoneFits(z), NEW d \in Int
  PROVE  Midnight(z, d) < Midnight(z, d + 1)
<1> SUFFICES ASSUME ~(Midnight(z, d) < Midnight(z, d + 1)) PROVE FALSE
  OBVIOUS
<1> DEFINE t == Midnight(z, d)
           k == Since(z, t)
           j == Since(z, t - 1)
           n == Len(z.trans)
<1>1. t \in Int /\ t - 1 \in Int /\ Midnight(z, d + 1) \in Int /\ d + 1 \in Int
  <2>1. d + 1 \in Int /\ d * Q \in Int /\ (d + 1) * Q \in Int
    BY Multiples
  <2>2. t \in Int /\ Midnight(z, d + 1) \in Int
    BY <2>1, Offsets DEF Midnight
  <2> HIDE DEF t
  <2> QED BY <2>1, <2>2
<1>2. d + 1 <= P!LocalDay(z, t) /\ ~(d <= P!LocalDay(z, t - 1))
  <2>1. Midnight(z, d + 1) <= t /\ ~(t <= t - 1)
    BY <1>1
  <2> HIDE DEF t
  <2>2. d <= P!LocalDay(z, t - 1) <=> t <= t - 1
    BY <1>1, DayParts DEF t
  <2> QED BY <1>1, <2>1, <2>2, DayParts
<1>3. (d + 1) * Q <= P!Local(z, t) /\ ~(d * Q <= P!Local(z, t - 1))
  <2>1. P!Local(z, t) \in Int /\ P!Local(z, t - 1) \in Int
    <3>1. \A x \in Int : P!UtcOffset(z, x) \in Int
      BY Offsets
    <3>2. \A x \in Int : P!Local(z, x) \in Int
      BY <3>1 DEF P!Local
    <3> QED BY <1>1, <3>2
  <2> QED BY <1>1, <1>2, <2>1, Multiples DEF P!LocalDay, Q
<1>4. (d + 1) * Q = d * Q + Q /\ d * Q \in Int /\ Q \in Nat
  BY Multiples, QuarterFacts
<1> HIDE DEF t
<1>5. /\ k \in 0..n /\ j \in 0..n /\ n \in Nat /\ Off(z, k) \in Int /\ Off(z, j) \in Int
      /\ P!Local(z, t) = t + Off(z, k) /\ P!Local(z, t - 1) = t - 1 + Off(z, j)
      /\ \A i \in Changes(z) : i <= k <=> z.trans[i].at <= t
      /\ \A i \in Changes(z) : i <= j <=> z.trans[i].at <= t - 1
  BY <1>1, ZoneFacts, Offsets DEF P!Local
<1> HIDE DEF k, j, n
<1>6. Off(z, k) - Off(z, j) >= Q
  <2> DEFINE x == d * Q
             ok == Off(z, k)
             oj == Off(z, j)
  <2>1. x + Q <= t + ok /\ ~(x <= t - 1 + oj) /\ x \in Int /\ ok \in Int /\ oj \in Int
    BY <1>3, <1>4, <1>5
  <2> HIDE DEF x, ok, oj
  <2>2. ok - oj >= Q
    BY <1>1, <1>4, <2>1
  <2> QED BY <2>2 DEF ok, oj
<1>7. k # j
  <2>1. CASE k = j
    <3>1. Off(z, k) - Off(z, j) = 0
      BY <1>5, <2>1
    <3>2. Q >= 4
      BY QuarterFacts
    <3> QED BY <1>4, <1>6, <3>1, <3>2
  <2> QED BY <2>1
<1>8. \A i \in Changes(z) : i <= j => i <= k
  <2> SUFFICES ASSUME NEW i \in Changes(z), i <= j PROVE i <= k
    OBVIOUS
  <2> DEFINE a == z.trans[i].at
  <2>1. a \in Int /\ a <= t - 1
    BY <1>5, ZoneFacts
  <2> HIDE DEF a
  <2>2. a <= t
    BY <1>1, <2>1
  <2> QED BY <1>5, <2>2 DEF a
<1>9. j < k
  <2>1. CASE k < j
    <3>1. j \in Changes(z) /\ j <= j
      BY <1>5, <2>1 DEF Changes, n
    <3> QED BY <1>5, <1>8, <2>1, <3>1
  <2> QED BY <1>5, <1>7, <2>1
<1>10. k = j + 1
  <2> SUFFICES ASSUME j + 1 < k PROVE FALSE
    BY <1>5, <1>9
  <2> DEFINE a == z.trans[j + 1].at
             b == z.trans[k].at
  <2>1. j + 1 \in Changes(z) /\ k \in Changes(z) /\ ~(j + 1 <= j) /\ k <= k
    BY <1>5 DEF Changes, n
  <2>2. ~(a <= t - 1) /\ b <= t /\ b - a >= 2 * Q /\ a \in Int /\ b \in Int
    BY <1>5, <2>1, ZoneFacts
  <2>3. Q >= 4
    BY QuarterFacts
  <2> HIDE DEF a, b
  <2> QED BY <1>1, <1>4, <2>2, <2>3
<1>11. k \in Changes(z) /\ k - 1 = j
  BY <1>5, <1>10 DEF Changes, n
<1> DEFINE e == P!Earlier(z, k)
           l == P!Later(z, k)
           a == z.trans[k].at
           ok == Off(z, k)
           oj == Off(z, j)
<1>12. /\ e \in Int /\ l \in Int /\ a \in Int /\ ok \in Int /\ oj \in Int
       /\ e <= a + oj /\ a + ok <= l /\ l - e < Q
  BY <1>11, ZoneFacts
<1>13. ok - oj >= Q
  BY <1>6
<1> HIDE DEF e, l, a, ok, oj
<1> QED BY <1>4, <1>12, <1>13

\* A later day has a later midnight.
LEMMA MidnightsInOrder ==
  ASSUME P!CalendarFits, NEW z, P!ZoneFits(z), NEW c \in Int, NEW d \in Int, c <= d
  PROVE  Midnight(z, c) <= Midnight(z, d)
<1>1. Midnight(z, d) \in Int
  BY DayParts
<1> DEFINE t == Midnight(z, d)
<1>2. t <= t
  BY <1>1
<1>3. d <= P!LocalDay(z, t) /\ P!LocalDay(z, t) \in Int
  BY <1>1, <1>2, DayParts
<1>4. c <= P!LocalDay(z, t)
  BY <1>3
<1> QED BY <1>1, <1>4, DayParts

\* The offset between two changes of the clocks.
LEMMA OffsetIs ==
  ASSUME P!CalendarFits, NEW z, P!ZoneFits(z), NEW x \in Int, NEW j \in 0..Len(z.trans),
         j = 0 \/ z.trans[j].at <= x, j = Len(z.trans) \/ x < z.trans[j + 1].at
  PROVE  P!UtcOffset(z, x) = Off(z, j)
<1> DEFINE k == Since(z, x)
           n == Len(z.trans)
<1>1. n \in Nat /\ k \in 0..n /\ P!UtcOffset(z, x) = Off(z, k)
      /\ \A i \in Changes(z) : i <= k <=> z.trans[i].at <= x
  BY ZoneFacts, Offsets
<1> HIDE DEF k
<1>2. CASE j < k
  <2> DEFINE a == z.trans[j + 1].at
  <2>1. j + 1 \in Changes(z) /\ j + 1 <= k /\ x < a
    BY <1>1, <1>2 DEF Changes
  <2>2. a \in Int /\ a <= x
    BY <1>1, <2>1, ZoneFacts
  <2> HIDE DEF a
  <2> QED BY <2>1, <2>2
<1>3. CASE k < j
  <2>1. j \in Changes(z) /\ z.trans[j].at <= x
    BY <1>1, <1>3 DEF Changes
  <2>2. j <= k
    BY <1>1, <2>1
  <2> QED BY <1>1, <1>3, <2>2
<1>4. k \in Nat /\ j \in Nat
  BY <1>1
<1>5. CASE k = j
  BY <1>1, <1>5
<1> QED BY <1>2, <1>3, <1>4, <1>5

\* A midnight lies after the change its offset is from, and not after the next one; on the
\* next one only where the clock is set forward from that midnight.
LEMMA MidnightBetween ==
  ASSUME P!CalendarFits, NEW z, P!ZoneFits(z), NEW d \in Int
  PROVE  \E j \in 0..Len(z.trans) :
           /\ Midnight(z, d) = d * Q - Off(z, j) /\ Off(z, j) \in Int
           /\ j = 0 \/ z.trans[j].at <= Midnight(z, d)
           /\ j = Len(z.trans) \/ Midnight(z, d) <= z.trans[j + 1].at
           /\ j # Len(z.trans) /\ Midnight(z, d) = z.trans[j + 1].at =>
                Off(z, j + 1) \in Int /\ (Off(z, j + 1) - Off(z, j)) % 4 = 0
<1> DEFINE w == d * Q
           j == Read(z, w)
           n == Len(z.trans)
           M == Midnight(z, d)
           o == Off(z, j)
<1>1. w \in Int /\ w % Q = 0
  BY Multiples
<1>2. /\ n \in Nat /\ j \in 0..n /\ M = w - o /\ o \in Int
      /\ \A i \in Changes(z) : i <= j <=> P!Later(z, i) <= w
  <2> HIDE DEF w
  <2> QED BY <1>1, ZoneFacts, Offsets DEF Midnight, w
<1> HIDE DEF w, j, n, M, o
<1>3. j = 0 \/ z.trans[j].at <= M
  <2> SUFFICES ASSUME j # 0 PROVE z.trans[j].at <= M
    OBVIOUS
  <2> DEFINE a == z.trans[j].at
             l == P!Later(z, j)
  <2>1. j \in Changes(z) /\ j <= j
    BY <1>2 DEF Changes, n
  <2>2. a \in Int /\ l \in Int /\ a + o <= l /\ l <= w
    BY <1>2, <2>1, ZoneFacts DEF o
  <2> HIDE DEF a, l
  <2>3. a <= M
    BY <1>1, <1>2, <2>2
  <2> QED BY <2>3 DEF a
<1>4. ASSUME j # n
      PROVE  /\ M <= z.trans[j + 1].at
             /\ M = z.trans[j + 1].at => Off(z, j + 1) \in Int /\ (Off(z, j + 1) - Off(z, j)) % 4 = 0
  <2> DEFINE i == j + 1
             a == z.trans[i].at
             e == P!Earlier(z, i)
             l == P!Later(z, i)
             p == Off(z, i)
  <2>1. i \in Changes(z) /\ i - 1 = j /\ ~(i <= j) /\ i \in Nat
    BY <1>2, <1>4 DEF Changes, n
  <2>2. /\ a \in Int /\ e \in Int /\ l \in Int /\ p \in Int
        /\ e <= a + o /\ l \in {a + o, a + p} /\ ~(l <= w)
    BY <1>2, <2>1, ZoneFacts DEF o
  <2>3. ~(e < w /\ w < l)
    BY <2>1, MidnightUnbroken DEF w
  <2>4. w <= e /\ w <= a + o
    <3> HIDE DEF a, e, l, p
    <3> QED BY <1>1, <1>2, <2>2, <2>3
  <2>5. M <= a
    <3> HIDE DEF a
    <3> QED BY <1>1, <1>2, <2>2, <2>4
  <2>6. ASSUME M = a PROVE (p - o) % 4 = 0
    <3>1. e = w /\ p - o > 0
      <4> HIDE DEF a, e, l, p
      <4> QED BY <1>1, <1>2, <2>2, <2>4, <2>6
    <3>2. i \in DOMAIN z.trans
      BY <2>1, ZoneFacts
    <3>3. P!OffsetBefore(z, i) = o /\ z.trans[i].offset = p
      <4>1. i # 0
        BY <2>1 DEF Changes
      <4>2. z.trans[i].offset = p
        BY <4>1 DEF Off
      <4>3. CASE i = 1
        <5>1. j = 0
          BY <2>1, <4>3
        <5> QED BY <4>2, <4>3, <5>1 DEF P!OffsetBefore, Off, o
      <4>4. CASE i # 1
        <5>1. j # 0
          BY <2>1, <4>4
        <5> HIDE DEF i
        <5> QED BY <2>1, <4>2, <4>4, <5>1 DEF P!OffsetBefore, Off, o
      <4> QED BY <4>3, <4>4
    <3>4. p - o > 0 /\ e % Q = 0 => P!IsWholeHour(p - o)
      <4> HIDE DEF i
      <4> QED BY <3>2, <3>3 DEF P!ZoneFits, Q
    <3> QED BY <1>1, <3>1, <3>4 DEF P!IsWholeHour, P!QuartersPerHour
  <2> QED BY <2>2, <2>5, <2>6 DEF o
<1> QED BY <1>2, <1>3, <1>4 DEF M, n, o, w

\* Where each offset that is looked at is of whole hours, so is each midnight.
LEMMA WholeHours ==
  ASSUME P!CalendarFits, NEW z, P!ZoneFits(z), NEW first \in Int, NEW last \in Int, first <= last,
         \A o \in P!OffsetsAcross(z, P!ResolveWindow(z, first, last)) : P!IsWholeHour(o),
         NEW d \in first..(last + 1)
  PROVE  Midnight(z, d) % 4 = 0
<1> DEFINE start == Midnight(z, first)
           end == Midnight(z, last + 1)
           M == Midnight(z, d)
           n == Len(z.trans)
           Sampled(x) == x = end \/ (start <= x /\ x < end /\ (x - start) % 4 = 0)
<1>0. d \in Int /\ last + 1 \in Int /\ first <= d /\ d <= last + 1
  OBVIOUS
<1>1. /\ start \in Int /\ end \in Int /\ M \in Int /\ start <= M /\ M <= end /\ n \in Nat
      /\ Q \in Nat /\ Q >= 4
  BY <1>0, DayParts, MidnightsInOrder, ZoneFacts, QuarterFacts
<1>2. ASSUME NEW x \in Int, Sampled(x) PROVE P!UtcOffset(z, x) % 4 = 0
  <2> DEFINE w == P!ResolveWindow(z, first, last)
  <2>1. w.start = start /\ w.end = end
    BY DEF P!ResolveWindow, Midnight, Q
  <2> HIDE DEF w, start, end
  <2>2. x \in {w.end} \cup {t \in w.start .. w.end - 1 : (t - w.start) % 4 = 0}
    BY <1>1, <1>2, <2>1
  <2>3. P!UtcOffset(z, x) \in P!OffsetsAcross(z, w)
    BY <2>2 DEF P!OffsetsAcross, P!QuartersPerHour
  <2> QED BY <2>3 DEF P!IsWholeHour, P!QuartersPerHour, w
<1>3. PICK j \in 0..n :
           /\ M = d * Q - Off(z, j) /\ Off(z, j) \in Int
           /\ j = 0 \/ z.trans[j].at <= M
           /\ j = n \/ M <= z.trans[j + 1].at
           /\ j # n /\ M = z.trans[j + 1].at =>
                Off(z, j + 1) \in Int /\ (Off(z, j + 1) - Off(z, j)) % 4 = 0
  BY <1>0, MidnightBetween
<1> DEFINE a == z.trans[j].at
           b == z.trans[j + 1].at
           o == Off(z, j)
           p == Off(z, j + 1)
<1>4. /\ j # 0 => a \in Int
      /\ j # n => b \in Int
      /\ j # 0 /\ j # n => b - a >= 2 * Q
      /\ j # n /\ j + 1 # n => z.trans[j + 2].at \in Int /\ z.trans[j + 2].at - b >= 2 * Q
  <2>1. j # 0 => j \in Changes(z)
    BY <1>1 DEF Changes
  <2>2. j # n => j + 1 \in Changes(z) /\ j < j + 1
    BY <1>1 DEF Changes
  <2>3. j # n /\ j + 1 # n => j + 2 \in Changes(z) /\ j + 1 < j + 2
    BY <1>1 DEF Changes
  <2> QED BY <2>1, <2>2, <2>3, ZoneFacts
<1>5. d * Q \in Int /\ (d * Q) % 4 = 0
  BY <1>0, Multiples
<1> DEFINE y == d * Q
<1>6. ASSUME o % 4 = 0 PROVE M % 4 = 0
  <2>1. M = y - o /\ y \in Int /\ y % 4 = 0 /\ o \in Int
    BY <1>3, <1>5
  <2> HIDE DEF M, y, o
  <2> QED BY <1>6, <2>1
<1> DEFINE r == (M - start) % 4
           s == M - r
<1>7. /\ r \in 0..3 /\ s \in Int /\ s <= M /\ M < s + 4 /\ start <= s /\ (s - start) % 4 = 0
      /\ s + 4 \in Int /\ (s + 4 - start) % 4 = 0
  <2> HIDE DEF start, M
  <2>1. r \in 0..3 /\ (M - start) - r >= 0 /\ ((M - start) - r) % 4 = 0
    BY <1>1
  <2> QED BY <1>1, <2>1
<1>8. ASSUME j # n, M = b PROVE M % 4 = 0
  <2>1. p \in Int /\ (p - o) % 4 = 0 /\ o \in Int
    BY <1>3, <1>8
  <2>2. P!UtcOffset(z, M) = p
    <3>1. j + 1 \in 0..Len(z.trans) /\ j + 1 # 0 /\ b <= M
      BY <1>1, <1>4, <1>8
    <3>2. j + 1 = Len(z.trans) \/ M < z.trans[(j + 1) + 1].at
      <4> SUFFICES ASSUME j + 1 # n PROVE M < z.trans[j + 2].at
        OBVIOUS
      <4> DEFINE c == z.trans[j + 2].at
      <4>1. c \in Int /\ c - b >= 2 * Q /\ b \in Int
        BY <1>4, <1>8
      <4> HIDE DEF c, b, M
      <4>2. M < c
        BY <1>1, <1>8, <4>1
      <4> QED BY <4>2 DEF c
    <3> HIDE DEF M
    <3> QED BY <1>1, <3>1, <3>2, OffsetIs
  <2>3. CASE M = end \/ r = 0
    <3>1. Sampled(M)
      <4>1. CASE M = end
        BY <4>1
      <4>2. CASE r = 0 /\ M # end
        <5> HIDE DEF start, end, M
        <5> QED BY <1>1, <1>7, <4>2
      <4> QED BY <2>3, <4>1, <4>2
    <3>2. p % 4 = 0
      BY <1>1, <1>2, <2>2, <3>1
    <3>3. o % 4 = 0
      <4> HIDE DEF p, o
      <4> QED BY <2>1, <3>2
    <3> QED BY <1>6, <3>3
  <2>4. CASE M # end /\ r # 0
    <3>1. Sampled(s)
      <4> HIDE DEF start, end, M, r
      <4> QED BY <1>1, <1>7, <2>4
    <3>2. (j = 0 \/ a <= s) /\ s < b
      <4>1. s < b
        <5> HIDE DEF M, b, r
        <5> QED BY <1>1, <1>7, <1>8, <2>4
      <4>2. j = 0 \/ a <= s
        <5> SUFFICES ASSUME j # 0 PROVE a <= s
          OBVIOUS
        <5>1. a \in Int /\ b \in Int /\ b - a >= 2 * Q
          BY <1>4, <1>8
        <5> HIDE DEF M, b, a, s
        <5> QED BY <1>1, <1>7, <1>8, <5>1
      <4> QED BY <4>1, <4>2
    <3>3. P!UtcOffset(z, s) = o
      <4> HIDE DEF s
      <4> QED BY <1>7, <3>2, OffsetIs
    <3>4. o % 4 = 0
      <4> HIDE DEF s, o
      <4> QED BY <1>2, <1>7, <3>1, <3>3
    <3> QED BY <1>6, <3>4
  <2> QED BY <2>3, <2>4
<1>9. ASSUME j = n \/ M # b PROVE M % 4 = 0
  <2>1. j = n \/ M < b
    <3>1. j # n => b \in Int /\ M <= b
      BY <1>3, <1>4
    <3> HIDE DEF M, b
    <3> QED BY <1>1, <1>9, <3>1
  <2>2. ASSUME NEW x \in Int, Sampled(x), j = 0 \/ a <= x, j = n \/ x < b PROVE M % 4 = 0
    <3>1. P!UtcOffset(z, x) = o
      BY <2>2, OffsetIs
    <3>2. o % 4 = 0
      BY <1>2, <2>2, <3>1
    <3> QED BY <1>6, <3>2
  <2>3. CASE M = end
    BY <1>1, <1>3, <2>1, <2>2, <2>3
  <2>4. CASE M # end /\ (j = 0 \/ a <= s)
    <3>1. Sampled(s) /\ (j = n \/ s < b)
      <4>1. Sampled(s)
        <5> HIDE DEF start, end, M, s, r
        <5>1. s < end
          BY <1>1, <1>7, <2>4
        <5> QED BY <1>7, <5>1
      <4>2. j = n \/ s < b
        <5>1. j # n => b \in Int
          BY <1>4
        <5> HIDE DEF M, s, b
        <5> QED BY <1>1, <1>7, <2>1, <5>1
      <4> QED BY <4>1, <4>2
    <3> HIDE DEF s, M
    <3> QED BY <1>7, <2>2, <2>4, <3>1
  <2>5. CASE M # end /\ j # 0 /\ ~(a <= s)
    <3> DEFINE x == IF s + 4 < end THEN s + 4 ELSE end
    <3>1. x \in Int /\ Sampled(x) /\ M <= x /\ x <= s + 4
      <4> HIDE DEF start, end, M, r, s
      <4> QED BY <1>1, <1>7, <2>5
    <3>2. a <= x
      <4>1. a \in Int /\ a <= M
        BY <1>3, <1>4, <2>5
      <4> HIDE DEF a, M, x
      <4> QED BY <1>1, <3>1, <4>1
    <3>3. j = n \/ x < b
      <4> SUFFICES ASSUME j # n PROVE x < b
        OBVIOUS
      <4>1. a \in Int /\ b \in Int /\ b - a >= 2 * Q
        BY <1>4, <2>5
      <4> HIDE DEF a, b, s, x, M
      <4> QED BY <1>1, <1>7, <2>5, <3>1, <4>1
    <3> HIDE DEF x, M
    <3> QED BY <2>2, <3>1, <3>2, <3>3
  <2> QED BY <2>3, <2>4, <2>5
<1> QED BY <1>8, <1>9

PeriodSizes == \A X : P!Cardinality(X) = Cardinality(X)

\* The sizes of sets are the same in the instance.
LEMMA SizesOfPeriods == PeriodSizes
BY DEF PeriodSizes, P!Cardinality, Cardinality

SlotsBetween(s, g, a, b) == {t \in a..(b - 1) : (t - s) % g = 0}
Filled(s, g, a, b) == P!Cardinality(SlotsBetween(s, g, a, b)) * g = b - a

\* As many slots as there is time.
LEMMA SlotsOf ==
  ASSUME NEW g \in {1, 4}, NEW s \in Int, NEW a \in Int, NEW b \in Int,
         s <= a, a <= b, (a - s) % g = 0, (b - s) % g = 0
  PROVE  Filled(s, g, a, b)
<1> USE DEF SlotsBetween, Filled
<1> DEFINE S == SlotsBetween(s, g, a, b)
           n == (b - a) \div g
           f == [i \in 1..n |-> a + g * (i - 1)]
<1>1. n \in Nat /\ n * g = b - a
  <2>1. CASE g = 1
    BY <2>1
  <2>2. CASE g = 4
    BY <2>2
  <2> QED BY <2>1, <2>2
<1>2. ASSUME NEW i \in 1..n PROVE f[i] \in S
  <2>1. i \in Int /\ 1 <= i /\ i <= n /\ f[i] = a + g * (i - 1)
    BY <1>1
  <2> HIDE DEF f, n
  <2>2. CASE g = 1
    BY <1>1, <2>1, <2>2
  <2>3. CASE g = 4
    BY <1>1, <2>1, <2>3
  <2> QED BY <2>2, <2>3
<1>3. ASSUME NEW i \in 1..n, NEW j \in 1..n, f[i] = f[j] PROVE i = j
  <2>1. i \in Int /\ j \in Int /\ a + g * (i - 1) = a + g * (j - 1)
    BY <1>1, <1>3
  <2>2. CASE g = 1
    BY <2>1, <2>2
  <2>3. CASE g = 4
    BY <2>1, <2>3
  <2> QED BY <2>2, <2>3
<1>4. ASSUME NEW t \in S PROVE \E i \in 1..n : f[i] = t
  <2> DEFINE i == (t - a) \div g + 1
  <2>1. t \in Int /\ a <= t /\ t < b /\ (t - s) % g = 0
    OBVIOUS
  <2>2. i \in 1..n /\ a + g * (i - 1) = t
    <3>1. CASE g = 1
      BY <1>1, <2>1, <3>1
    <3>2. CASE g = 4
      <4>1. (t - a) % 4 = 0
        BY <2>1, <3>2
      <4>2. t - a = 4 * ((t - a) \div 4) /\ (t - a) \div 4 \in Nat
        BY <2>1, <4>1
      <4> HIDE DEF n
      <4> QED BY <1>1, <2>1, <3>2, <4>2
    <3> QED BY <3>1, <3>2
  <2> HIDE DEF i, n
  <2> QED BY <2>2
<1>5. f \in Bijection(1..n, S)
  <2> HIDE DEF n
  <2>1. f \in [1..n -> S]
    <3>1. f = [i \in 1..n |-> f[i]]
      OBVIOUS
    <3> HIDE DEF f, S
    <3> QED BY <1>2, <3>1
  <2> HIDE DEF f, S
  <2> QED BY <1>3, <1>4, <2>1 DEF Bijection, Injection, IsInjective, Surjection
<1>6. Cardinality(S) = n
  <2> HIDE DEF S, f, n
  <2> QED BY <1>1, <1>5, FS_CountingElements DEF ExistsBijection
<1>7. P!Cardinality(S) = n
  BY <1>6, SizesOfPeriods DEF PeriodSizes
<1> QED BY <1>1, <1>7

\* Days of a window with the grain that is chosen for it.
LEMMA WindowDays ==
  ASSUME P!CalendarFits, NEW z, P!ZoneFits(z), NEW first \in Int, NEW last \in Int, first <= last,
         NEW w, w = P!ResolveWindow(z, first, last), NEW g, g = P!ChooseGrain(z, w)
  PROVE  /\ \A t \in P!Slots(w, g) : P!LocalDay(z, t) = P!LocalDay(z, t + g - 1)
         /\ DOMAIN P!DayBuckets(z, w, g) = w.first .. w.last
         /\ \A d \in DOMAIN P!DayBuckets(z, w, g) :
              LET day == P!ResolveWindow(z, d, d)
              IN  P!DayBuckets(z, w, g)[d] * g = day.end - day.start
<1> DEFINE M(d) == Midnight(z, d)
           start == M(first)
           end == M(last + 1)
           slots == P!Slots(w, g)
           b == P!DayBuckets(z, w, g)
<1>1. w.first = first /\ w.last = last /\ w.start = start /\ w.end = end
  BY DEF P!ResolveWindow, Midnight, Q
<1>2. g \in {1, 4}
  BY DEF P!ChooseGrain, P!BaseGrain, P!FallbackGrain, P!QuartersPerHour
<1>3. /\ start \in Int /\ end \in Int /\ last + 1 \in Int
      /\ \A d \in Int : M(d) \in Int /\ d + 1 \in Int
  BY DayParts
<1>4. ASSUME NEW d \in first..(last + 1)
      PROVE  d \in Int /\ (M(d) - start) % g = 0 /\ start <= M(d) /\ M(d) <= end
  <2>1. d \in Int /\ first <= d /\ d <= last + 1
    OBVIOUS
  <2>2. start <= M(d) /\ M(d) <= end
    BY <1>3, <2>1, MidnightsInOrder
  <2>3. CASE g = 1
    BY <1>3, <2>1, <2>2, <2>3
  <2>4. CASE g = 4
    <3>1. \A o \in P!OffsetsAcross(z, w) : P!IsWholeHour(o)
      BY <2>4 DEF P!ChooseGrain, P!BaseGrain, P!FallbackGrain, P!QuartersPerHour
    <3>2. first \in first..(last + 1)
      OBVIOUS
    <3>3. M(d) % 4 = 0 /\ start % 4 = 0
      BY <3>1, <3>2, WholeHours
    <3>4. M(d) \in Int
      BY <1>3, <2>1
    <3> HIDE DEF M
    <3> QED BY <1>3, <2>1, <2>2, <2>4, <3>3, <3>4
  <2> QED BY <1>2, <2>3, <2>4
<1>5. ASSUME NEW t \in Int
      PROVE  t \in slots <=> start <= t /\ t < end /\ (t - start) % g = 0
  <2> HIDE DEF start, end
  <2> QED BY <1>1, <1>3 DEF P!Slots
<1>6. ASSUME NEW t \in slots
      PROVE  /\ t \in Int /\ P!LocalDay(z, t) \in first..last
             /\ P!LocalDay(z, t) = P!LocalDay(z, t + g - 1)
  <2>1. t \in Int
    BY <1>1, <1>3 DEF P!Slots
  <2>2. start <= t /\ t < end /\ (t - start) % g = 0
    BY <1>5, <2>1
  <2> DEFINE d == P!LocalDay(z, t)
  <2>3. d \in Int /\ first <= d /\ ~(last + 1 <= d)
    BY <1>3, <2>1, <2>2, DayParts
  <2>4. d \in first..last /\ d + 1 \in first..(last + 1) /\ d \in first..(last + 1)
    BY <2>3
  <2>5. M(d) <= t /\ t < M(d + 1) /\ M(d) \in Int /\ M(d + 1) \in Int
    BY <1>3, <2>1, <2>3, DayParts
  <2>6. (M(d + 1) - start) % g = 0
    BY <1>4, <2>4
  <2>7. M(d) <= t + g - 1 /\ t + g - 1 < M(d + 1) /\ t + g - 1 \in Int
    <3> DEFINE x == M(d + 1)
               y == M(d)
    <3> HIDE DEF M, d, start, x, y
    <3>1. x \in Int /\ (x - start) % g = 0 /\ t < x /\ y <= t /\ y \in Int
      BY <2>5, <2>6 DEF x, y
    <3>2. CASE g = 1
      BY <2>1, <3>1, <3>2 DEF x, y
    <3>3. CASE g = 4
      <4>1. t + 3 < x
        BY <1>3, <2>1, <2>2, <3>1, <3>3
      <4> QED BY <2>1, <3>1, <3>3, <4>1 DEF x, y
    <3> QED BY <1>2, <3>2, <3>3
  <2>8. d = P!LocalDay(z, t + g - 1)
    BY <2>3, <2>7, DayParts
  <2> QED BY <2>1, <2>4, <2>8
<1>7. DOMAIN b = {P!LocalDay(z, t) : t \in slots}
  BY DEF P!DayBuckets
<1>8. ASSUME NEW d \in first..last PROVE d \in DOMAIN b
  <2>1. d \in Int /\ d \in first..(last + 1) /\ d + 1 \in first..(last + 1)
    OBVIOUS
  <2>2. M(d) \in Int /\ M(d) < M(d + 1) /\ M(d + 1) \in Int /\ M(d + 1) <= end
    BY <1>3, <1>4, <2>1, DaysLast
  <2>3. start <= M(d) /\ (M(d) - start) % g = 0 /\ M(d) < end
    BY <1>3, <1>4, <2>1, <2>2
  <2>4. M(d) \in slots
    BY <1>5, <2>2, <2>3
  <2>5. P!LocalDay(z, M(d)) = d
    BY <2>1, <2>2, DayParts
  <2> HIDE DEF b, M
  <2> QED BY <1>7, <2>4, <2>5
<1>9. ASSUME NEW d \in first..last PROVE b[d] * g = M(d + 1) - M(d)
  <2> DEFINE held == {t \in slots : P!LocalDay(z, t) = d}
             c == M(d)
             e == M(d + 1)
  <2>1. d \in Int /\ d \in first..(last + 1) /\ d + 1 \in first..(last + 1) /\ d \in DOMAIN b
    BY <1>8
  <2>2. /\ c \in Int /\ e \in Int /\ c < e /\ start <= c /\ e <= end
        /\ (c - start) % g = 0 /\ (e - start) % g = 0
    BY <1>3, <1>4, <2>1, DaysLast
  <2>3. held = {t \in c..(e - 1) : (t - start) % g = 0}
    <3>1. ASSUME NEW t \in Int
          PROVE  t \in held <=> c <= t /\ t < e /\ (t - start) % g = 0
      <4>1. d = P!LocalDay(z, t) <=> c <= t /\ t < e
        BY <2>1, DayParts
      <4>2. c <= t /\ t < e => start <= t /\ t < end
        <5> HIDE DEF M, c, e, start, end
        <5> QED BY <1>3, <2>2
      <4> HIDE DEF c, e, start, end, slots
      <4> QED BY <1>5, <4>1, <4>2
    <3>2. \A t \in held : t \in Int
      BY <1>6
    <3> HIDE DEF c, e, start, held
    <3> QED BY <2>2, <3>1, <3>2
  <2>4. P!Cardinality(held) * g = e - c
    <3>1. /\ g \in {1, 4} /\ start \in Int /\ c \in Int /\ e \in Int /\ start <= c /\ c <= e
          /\ (c - start) % g = 0 /\ (e - start) % g = 0
      <4> HIDE DEF M, c, e, start, end
      <4> QED BY <1>2, <1>3, <2>2
    <3> HIDE DEF held
    <3>2. Filled(start, g, c, e)
      BY <3>1, SlotsOf
    <3> QED BY <2>3, <3>2 DEF SlotsBetween, Filled
  <2>5. b[d] = P!Cardinality(held)
    BY <2>1, <1>7 DEF P!DayBuckets
  <2> QED BY <2>4, <2>5
<1>10. DOMAIN b = w.first .. w.last
  <2> HIDE DEF b, slots
  <2> QED BY <1>1, <1>6, <1>7, <1>8
<1>11. ASSUME NEW d \in DOMAIN b
       PROVE  LET day == P!ResolveWindow(z, d, d) IN b[d] * g = day.end - day.start
  <2>1. d \in first..last
    BY <1>1, <1>10
  <2>2. P!ResolveWindow(z, d, d).end = M(d + 1) /\ P!ResolveWindow(z, d, d).start = M(d)
    BY DEF P!ResolveWindow, Midnight, Q
  <2> HIDE DEF b, M
  <2> QED BY <1>9, <2>1, <2>2
<1> QED BY <1>6, <1>10, <1>11

\* The three look-ups of an offset end at the one that holds at noon.
LEMMA NoonOffset ==
  ASSUME P!CalendarFits, NEW z, P!ZoneFits(z), NEW d \in Int
  PROVE  P!UtcOffsetOn(z, d) = P!UtcOffset(z, P!UtcOf(z, d * Q + Q \div 2))
<1> DEFINE w == d * Q + Q \div 2
           k == Read(z, w)
           j == Since(z, w)
           n == Len(z.trans)
           o == Off(z, k)
           f == Off(z, j)
           before == z.trans[k].at
           after == z.trans[k + 1].at
<1>1. w \in Int /\ w % Q = Q \div 2 /\ Q \in Nat /\ Q >= 4
  BY Multiples, QuarterFacts
<1>2. /\ n \in Nat /\ k \in 0..n /\ j \in 0..n
      /\ P!UtcOffset(z, w) = f /\ P!UtcOf(z, w) = w - o
      /\ o \in Int /\ 0 - Q < o /\ o < Q /\ f \in Int /\ 0 - Q < f /\ f < Q
      /\ \A i \in Changes(z) : i <= j <=> z.trans[i].at <= w
      /\ \A i \in Changes(z) : i <= k <=> P!Later(z, i) <= w
  <2> HIDE DEF w
  <2> QED BY <1>1, ZoneFacts, Offsets
<1>3. ASSUME NEW i \in Changes(z) PROVE w < P!Earlier(z, i) \/ P!Later(z, i) <= w
  <2> DEFINE e == P!Earlier(z, i)
             l == P!Later(z, i)
  <2>1. e \in Int /\ l \in Int /\ i \in DOMAIN z.trans
    BY ZoneFacts
  <2>2. w \in e .. l => w = l
    BY <1>1, <2>1 DEF P!ZoneFits, Q
  <2> HIDE DEF w, e, l
  <2>3. w < e \/ l <= w
    BY <1>1, <2>1, <2>2
  <2> QED BY <2>3 DEF e, l
<1>4. /\ k # 0 => before \in Int /\ before + o <= w
                    /\ before + Off(z, k - 1) <= w /\ Off(z, k - 1) \in Int
      /\ k # n => after \in Int /\ w < after + o
                    /\ w < after + Off(z, k + 1) /\ Off(z, k + 1) \in Int
  <2>1. ASSUME k # 0
        PROVE  before \in Int /\ before + o <= w
                 /\ before + Off(z, k - 1) <= w /\ Off(z, k - 1) \in Int
    <3> DEFINE l == P!Later(z, k)
               p == Off(z, k - 1)
    <3>1. k \in Changes(z) /\ k <= k
      BY <1>2, <2>1 DEF Changes
    <3>2. l \in Int /\ before \in Int /\ p \in Int /\ before + o <= l /\ before + p <= l /\ l <= w
      BY <1>2, <3>1, ZoneFacts
    <3> HIDE DEF w, l, before, o, p, k, j, n, f
    <3>3. before + o <= w /\ before + p <= w
      BY <1>1, <1>2, <3>2
    <3> QED BY <3>2, <3>3 DEF p
  <2>2. ASSUME k # n
        PROVE  after \in Int /\ w < after + o
                 /\ w < after + Off(z, k + 1) /\ Off(z, k + 1) \in Int
    <3> DEFINE i == k + 1
               e == P!Earlier(z, i)
               l == P!Later(z, i)
               p == Off(z, i)
    <3>1. i \in Changes(z) /\ ~(i <= k) /\ i - 1 = k
      BY <1>2, <2>2 DEF Changes
    <3>2. /\ e \in Int /\ l \in Int /\ after \in Int /\ p \in Int /\ ~(l <= w)
          /\ e <= after + o /\ e <= after + p
      BY <1>2, <3>1, ZoneFacts
    <3>3. w < e
      BY <1>3, <3>1, <3>2
    <3> HIDE DEF w, e, l, after, o, p, i, k, j, n, f
    <3>4. w < after + o /\ w < after + p
      BY <1>1, <1>2, <3>2, <3>3
    <3> QED BY <3>2, <3>4 DEF p, i
  <2> QED BY <2>1, <2>2
<1>5. k # 0 /\ k # n => after - before >= 2 * Q
  <2> SUFFICES ASSUME k # 0, k # n PROVE after - before >= 2 * Q
    OBVIOUS
  <2>1. k \in Changes(z) /\ k + 1 \in Changes(z) /\ k < k + 1
    BY <1>2 DEF Changes
  <2> QED BY <2>1, ZoneFacts
<1>6. ASSUME NEW x \in Int, k # 0 => before <= x, k # n => x < after
      PROVE  P!UtcOffset(z, x) = o
  BY <1>2, <1>6, OffsetIs
<1>7. P!UtcOffset(z, w - o) = o
  <2>1. w - o \in Int /\ (k # 0 => before <= w - o) /\ (k # n => w - o < after)
    <3> HIDE DEF w, o, before, after, k, n
    <3> QED BY <1>1, <1>2, <1>4
  <2> HIDE DEF w, o, before, after, k, n
  <2> QED BY <1>6, <2>1
<1>8. P!UtcOffset(z, w - f) = o
  <2>1. w - f \in Int
    BY <1>1, <1>2
  <2>2. CASE j = k
    BY <1>7, <2>2
  <2>3. CASE j > k
    <3> DEFINE c == z.trans[k + 2].at
    <3>1. /\ k + 1 \in Changes(z) /\ k + 1 <= j /\ k # n
          /\ j # k + 1 => k + 2 \in Changes(z) /\ k + 2 <= j /\ k + 1 < k + 2
      BY <1>2, <2>3 DEF Changes
    <3>2. after <= w /\ (j # k + 1 => c <= w)
      BY <1>2, <3>1
    <3>3. j # k + 1 => c \in Int /\ c - after >= 2 * Q
      BY <3>1, ZoneFacts
    <3>4. j = k + 1
      <4> HIDE DEF w, o, after, c, k, n, j
      <4> QED BY <1>1, <1>2, <1>4, <3>1, <3>2, <3>3
    <3>5. w - f < after /\ (k # 0 => before <= w - f)
      <4>1. w < after + f
        BY <1>4, <3>1, <3>4
      <4> HIDE DEF w, o, f, before, after, k, n, j
      <4> QED BY <1>1, <1>2, <1>4, <1>5, <3>1, <3>2, <4>1
    <3> HIDE DEF w, o, f, before, after, k, n
    <3> QED BY <1>6, <2>1, <3>5
  <2>4. CASE j < k
    <3> DEFINE c == z.trans[k - 1].at
    <3>1. /\ k \in Changes(z) /\ ~(k <= j) /\ k # 0
          /\ j # k - 1 => k - 1 \in Changes(z) /\ ~(k - 1 <= j) /\ k - 1 < k
      BY <1>2, <2>4 DEF Changes
    <3>2. ~(before <= w) /\ (j # k - 1 => ~(c <= w))
      BY <1>2, <3>1
    <3>3. j # k - 1 => c \in Int /\ before - c >= 2 * Q
      BY <3>1, ZoneFacts
    <3>4. j = k - 1
      <4> HIDE DEF w, o, before, c, k, n, j
      <4> QED BY <1>1, <1>2, <1>4, <3>1, <3>2, <3>3
    <3>5. before <= w - f /\ (k # n => w - f < after)
      <4>1. before + f <= w
        BY <1>4, <3>1, <3>4
      <4> HIDE DEF w, o, f, before, after, k, n, j
      <4> QED BY <1>1, <1>2, <1>4, <1>5, <3>1, <3>2, <4>1
    <3> HIDE DEF w, o, f, before, after, k, n
    <3> QED BY <1>6, <2>1, <3>5
  <2>5. j \in Int /\ k \in Int
    BY <1>2
  <2> QED BY <2>2, <2>3, <2>4, <2>5
<1>9. P!UtcOffsetOn(z, d) = P!UtcOffset(z, w - P!UtcOffset(z, w - P!UtcOffset(z, w)))
  BY DEF P!UtcOffsetOn, Q
<1> QED BY <1>2, <1>7, <1>8, <1>9

\* The months follow each other, and a day of one is of no other.
LEMMA MonthFacts ==
  ASSUME P!CalendarFits
  PROVE  /\ \A m \in P!Month : /\ m \in Int /\ 1 <= m /\ m < Len(Months)
                               /\ P!FirstOfMonth(m) \in Int /\ P!LastOfMonth(m) \in Int
                               /\ P!FirstOfMonth(m) <= P!LastOfMonth(m)
         /\ \A m, n \in P!Month : m < n => P!LastOfMonth(m) < P!FirstOfMonth(n)
         /\ \A m, n \in P!Month : n = m + 1 => P!LastOfMonth(m) + 1 = P!FirstOfMonth(n)
         /\ \A m \in P!Month : \A d \in P!DaysOfMonth(m) :
              d \in Int /\ P!FirstOfMonth(m) <= d /\ d <= P!LastOfMonth(m) /\ P!MonthOf(d) = m
<1>1. Months \in Seq(Int) /\ Len(Months) \in Nat /\ DOMAIN Months = 1..Len(Months)
  BY DEF P!CalendarFits
<1>2. \A i \in 1..Len(Months) : Months[i] \in Int
  BY <1>1
<1>3. \A i, j \in 1..Len(Months) : i < j => Months[i] < Months[j]
  BY <1>1 DEF P!CalendarFits
<1>4. ASSUME NEW m \in P!Month
      PROVE  /\ m \in Int /\ 1 <= m /\ m < Len(Months) /\ m \in 1..Len(Months) /\ m + 1 \in 1..Len(Months)
             /\ P!FirstOfMonth(m) \in Int /\ P!LastOfMonth(m) \in Int
             /\ P!FirstOfMonth(m) = Months[m] /\ P!LastOfMonth(m) = Months[m + 1] - 1
             /\ P!FirstOfMonth(m) <= P!LastOfMonth(m)
  <2>1. m \in Int /\ 1 <= m /\ m < Len(Months) /\ m \in 1..Len(Months) /\ m + 1 \in 1..Len(Months)
    BY <1>1 DEF P!Month
  <2>2. Months[m] \in Int /\ Months[m + 1] \in Int /\ Months[m] < Months[m + 1]
    BY <1>2, <1>3, <2>1
  <2> QED BY <2>1, <2>2 DEF P!FirstOfMonth, P!LastOfMonth
<1>5. ASSUME NEW m \in P!Month, NEW n \in P!Month, m < n
      PROVE  P!LastOfMonth(m) < P!FirstOfMonth(n)
  <2>1. m + 1 = n \/ m + 1 < n
    BY <1>4, <1>5
  <2>2. Months[m + 1] <= Months[n]
    BY <1>2, <1>3, <1>4, <2>1
  <2>3. Months[m + 1] \in Int /\ Months[n] \in Int
    BY <1>2, <1>4
  <2> QED BY <1>4, <2>2, <2>3
<1>6. ASSUME NEW m \in P!Month, NEW n \in P!Month, n = m + 1
      PROVE  P!LastOfMonth(m) + 1 = P!FirstOfMonth(n)
  <2>1. Months[m + 1] \in Int
    BY <1>2, <1>4
  <2> QED BY <1>4, <1>6, <2>1
<1>7. ASSUME NEW m \in P!Month, NEW d \in P!DaysOfMonth(m)
      PROVE  d \in Int /\ P!FirstOfMonth(m) <= d /\ d <= P!LastOfMonth(m)
  BY <1>4 DEF P!DaysOfMonth
<1>8. ASSUME NEW m \in P!Month, NEW d \in P!DaysOfMonth(m) PROVE P!MonthOf(d) = m
  <2> SUFFICES ASSUME NEW n \in P!Month, d \in P!DaysOfMonth(n) PROVE n = m
    BY DEF P!MonthOf
  <2>1. ~(m < n)
    BY <1>4, <1>5, <1>7
  <2>2. ~(n < m)
    BY <1>4, <1>5, <1>7
  <2> QED BY <1>4, <2>1, <2>2
<1> QED BY <1>4, <1>5, <1>6, <1>7, <1>8

\* A day before one of a later month than the first is in a month.
LEMMA DayBefore ==
  ASSUME P!CalendarFits, NEW m \in P!Month \ {1}, NEW d \in P!DaysOfMonth(m)
  PROVE  /\ m - 1 \in P!Month /\ P!LastOfMonth(m - 1) \in P!DaysOfMonth(m - 1)
         /\ \E n \in P!Month : d - 1 \in P!DaysOfMonth(n)
<1>1. m \in P!Month /\ m # 1
  OBVIOUS
<1>2. m \in Int /\ 1 <= m /\ m < Len(Months) /\ Len(Months) \in Nat
  BY <1>1, MonthFacts DEF P!CalendarFits
<1>3. m - 1 \in P!Month /\ m = (m - 1) + 1
  BY <1>1, <1>2 DEF P!Month
<1>4. P!LastOfMonth(m - 1) + 1 = P!FirstOfMonth(m)
  BY <1>1, <1>3, MonthFacts
<1>5. /\ P!FirstOfMonth(m - 1) \in Int /\ P!LastOfMonth(m - 1) \in Int
      /\ P!FirstOfMonth(m - 1) <= P!LastOfMonth(m - 1)
  BY <1>3, MonthFacts
<1>6. d \in Int /\ P!FirstOfMonth(m) <= d /\ d <= P!LastOfMonth(m)
      /\ P!FirstOfMonth(m) \in Int /\ P!LastOfMonth(m) \in Int
  BY <1>1, MonthFacts
<1>7. P!LastOfMonth(m - 1) \in P!DaysOfMonth(m - 1)
  BY <1>5 DEF P!DaysOfMonth
<1>8. CASE d = P!FirstOfMonth(m)
  <2>1. d - 1 = P!LastOfMonth(m - 1)
    BY <1>4, <1>5, <1>8
  <2> QED BY <1>3, <1>7, <2>1
<1>9. CASE d # P!FirstOfMonth(m)
  <2>1. d - 1 \in P!DaysOfMonth(m)
    BY <1>6, <1>9 DEF P!DaysOfMonth
  <2> QED BY <1>1, <1>3, <1>7, <2>1
<1> QED BY <1>8, <1>9

\* What is known of the days that were accepted.
Accepted(p, spec, z) ==
  /\ z \in Zones /\ p.at \in Instants /\ p.first \in Int /\ p.last \in Int /\ p.first <= p.last
  /\ p.days \in 1..MaxSpan /\ p.last < P!LocalDay(z, p.at)
  /\ p.offset = P!UtcOffset(z, P!UtcOf(z, p.first * Q + Q \div 2))
  /\ \E m \in P!Month : /\ p.last \in P!DaysOfMonth(m)
                        /\ spec.kind = "last_full_month" =>
                             p.first = P!FirstOfMonth(m) /\ p.last = P!LastOfMonth(m)

\* What a rule resolves to is a period: its days, its instant and its offset are the rule's.
LEMMA RuleIsAccepted ==
  ASSUME P!ConstantsFit, NEW spec \in P!Specs, NEW at \in Instants, NEW z \in Zones \cup {NoZone},
         P!ResolvePeriod(spec, at, z).code = "ok"
  PROVE  /\ Accepted(P!ResolvePeriod(spec, at, z), spec, z)
         /\ P!ResolvePeriod(spec, at, z).at = at
<1> DEFINE current == P!LocalDay(z, at)
           d == P!DaysOf(spec, current)
           p == P!ResolvePeriod(spec, at, z)
<1>1. z # NoZone /\ z \in Zones
  BY DEF P!ResolvePeriod
<1>2. P!CalendarFits /\ P!ZoneFits(z) /\ at \in Int /\ MaxSpan \in Int
  BY <1>1 DEF P!ConstantsFit
<1>3. current \in Int
  BY <1>2, DayParts
<1>4. /\ spec.kind # "unrecognized" /\ p = P!JudgeDays(z, at, d)
      /\ ~(spec.kind = "custom" /\ NoDate \in {spec.first, spec.last})
  BY <1>1 DEF P!ResolvePeriod
<1>5. PICK m \in P!Month \ {1} : current \in P!DaysOfMonth(m)
  BY <1>1 DEF P!ConstantsFit
<1>6. /\ m \in P!Month /\ P!MonthOf(current) = m /\ m - 1 \in P!Month
      /\ P!FirstOfMonth(m) <= current /\ current <= P!LastOfMonth(m)
      /\ P!FirstOfMonth(m) \in Int /\ P!LastOfMonth(m) \in Int
      /\ P!FirstOfMonth(m - 1) \in Int /\ P!LastOfMonth(m - 1) \in Int
      /\ P!LastOfMonth(m - 1) \in P!DaysOfMonth(m - 1)
      /\ \E n \in P!Month : current - 1 \in P!DaysOfMonth(n)
  BY <1>2, <1>5, MonthFacts, DayBefore
<1>7. /\ d[1] \in Int /\ d[2] \in Int
      /\ \E n \in P!Month : /\ d[2] \in P!DaysOfMonth(n)
                            /\ spec.kind = "last_full_month" =>
                                 d[1] = P!FirstOfMonth(n) /\ d[2] = P!LastOfMonth(n)
  <2> HIDE DEF current
  <2>0. ShortSpan \in Int /\ LongSpan \in Int
    BY DEF P!ConstantsFit
  <2>1. CASE spec.kind = "last_24h"
    <3>1. d = <<current - 1, current - 1>>
      BY <2>1 DEF P!DaysOf
    <3> QED BY <1>3, <1>6, <2>1, <3>1
  <2>2. CASE spec.kind = "last_7d"
    <3>1. d = <<current - 1 - (ShortSpan - 1), current - 1>>
      BY <2>2 DEF P!DaysOf
    <3> QED BY <1>3, <1>6, <2>0, <2>2, <3>1
  <2>3. CASE spec.kind = "last_30d"
    <3>1. d = <<current - 1 - (LongSpan - 1), current - 1>>
      BY <2>3 DEF P!DaysOf
    <3> QED BY <1>3, <1>6, <2>0, <2>3, <3>1
  <2>4. CASE spec.kind = "last_full_month"
    <3>1. d = <<P!FirstOfMonth(m - 1), P!LastOfMonth(m - 1)>>
      BY <1>6, <2>4 DEF P!DaysOf
    <3>2. d[1] = P!FirstOfMonth(m - 1) /\ d[2] = P!LastOfMonth(m - 1)
      BY <3>1
    <3> HIDE DEF d
    <3> QED BY <1>6, <3>2
  <2>5. CASE spec.kind = "mtd"
    <3>1. d = <<P!FirstOfMonth(m), current - 1>>
      BY <1>6, <2>5 DEF P!DaysOf
    <3> QED BY <1>3, <1>6, <2>5, <3>1
  <2>6. CASE spec.kind = "custom"
    <3>1. PICK c \in Customs : spec = [kind |-> "custom", first |-> c[1], last |-> c[2]]
      BY <2>6 DEF P!Specs, P!Kinds
    <3>2. c[1] # NoDate /\ c[2] # NoDate /\ d = <<c[1], c[2]>>
      BY <1>4, <2>6, <3>1 DEF P!DaysOf
    <3>3. (\E n \in P!Month : c[1] \in P!DaysOfMonth(n)) /\ (\E n \in P!Month : c[2] \in P!DaysOfMonth(n))
      BY <3>2 DEF P!ConstantsFit
    <3>4. c[1] \in Int /\ c[2] \in Int
      BY <1>2, <3>3, MonthFacts
    <3>5. d[1] = c[1] /\ d[2] = c[2] /\ spec.kind # "last_full_month"
      BY <2>6, <3>2
    <3> HIDE DEF d
    <3> QED BY <3>3, <3>4, <3>5
  <2>7. spec.kind \in P!Kinds \cup {"unrecognized", "custom"}
    BY DEF P!Specs
  <2> QED BY <1>4, <2>1, <2>2, <2>3, <2>4, <2>5, <2>6, <2>7 DEF P!Kinds
<1>8. /\ d[2] - d[1] + 1 \in 1..MaxSpan /\ d[2] < current
      /\ p = [code |-> "ok", at |-> at, first |-> d[1], last |-> d[2], days |-> d[2] - d[1] + 1,
              offset |-> P!UtcOffsetOn(z, d[1])]
  <2> DEFINE days == d[2] - d[1] + 1
  <2>1. days \in Int
    BY <1>7
  <2> HIDE DEF d, current
  <2>2. days < 1 \/ days > MaxSpan \/ days \in 1..MaxSpan
    BY <1>2, <2>1
  <2>3. ~(days < 1) /\ ~(days > MaxSpan)
    <3>1. p.code = "ok"
      OBVIOUS
    <3>2. CASE days < 1
      <4>1. ~(days \in 1..MaxSpan)
        BY <1>2, <2>1, <3>2
      <4> QED BY <1>4, <2>1, <1>2, <3>1, <3>2, <4>1 DEF P!JudgeDays
    <3>3. CASE days > MaxSpan
      <4>1. ~(days \in 1..MaxSpan)
        BY <1>2, <2>1, <3>3
      <4> QED BY <1>4, <2>1, <1>2, <3>1, <3>3, <4>1 DEF P!JudgeDays
    <3> QED BY <3>2, <3>3
  <2>4. d[2] >= current \/ d[2] < current
    BY <1>3, <1>7
  <2> QED BY <1>4, <2>2, <2>3, <2>4, <1>2, <1>3, <1>7 DEF P!JudgeDays, current
<1>9. P!UtcOffsetOn(z, d[1]) = P!UtcOffset(z, P!UtcOf(z, d[1] * Q + Q \div 2))
  BY <1>2, <1>7, NoonOffset
<1>10. d[1] <= d[2]
  <2> HIDE DEF d
  <2> QED BY <1>2, <1>7, <1>8
<1>11. p.first = d[1] /\ p.last = d[2] /\ p.at = at /\ p.days = d[2] - d[1] + 1 /\ p.offset = P!UtcOffsetOn(z, d[1])
  <2> HIDE DEF d, p
  <2> QED BY <1>8
<1> HIDE DEF d, p
<1> QED BY <1>1, <1>7, <1>8, <1>9, <1>10, <1>11 DEF Accepted, p

TheMonths == P!TrendMonths(plan.window, SeedMonths)

\* Accepted days are never resolved again, the window is theirs, and the agent's day is
\* past them; each month that was dealt with has the window it has on that day.
PeriodsInv ==
  /\ P!TypeOK
  /\ period = P!None => clock \in Instants /\ plan = P!None
  /\ period.code = "ok" => Accepted(period, asked, zone)
  /\ period.code = "ok" /\ plan = P!None => clock = period.at
  /\ plan = P!None => trend = <<>>
  /\ plan # P!None =>
       /\ period.code = "ok"
       /\ plan.window = P!ResolveWindow(zone, period.first, period.last)
       /\ plan.grain = P!ChooseGrain(zone, plan.window)
       /\ today \in Int /\ P!LocalDay(zone, period.at) <= today
       /\ DOMAIN trend \subseteq TheMonths
       /\ \A m \in DOMAIN trend :
            /\ trend[m].window = P!MonthWindow(zone, m, today)
            /\ trend[m].from = "period" <=> trend[m].window = plan.window

\* At the start nothing is asked or planned.
LEMMA PeriodsInit == ASSUME P!ConstantsFit, P!Init PROVE PeriodsInv
<1>1. P!None.code # "ok" /\ P!None.code = "none"
  BY DEF P!None
<1>2. clock \in Nat /\ DOMAIN trend = {}
  BY DEF P!Init, P!ConstantsFit
<1> QED BY <1>1, <1>2 DEF P!Init, PeriodsInv, P!TypeOK

\* Resolving what was asked.
LEMMA EnqueueSound ==
  ASSUME P!ConstantsFit, PeriodsInv, NEW spec \in P!Specs, P!Enqueue(spec)
  PROVE  PeriodsInv'
<1>1. /\ period = P!None /\ asked' = spec /\ period' = P!ResolvePeriod(spec, clock, zone)
      /\ clock' = clock /\ zone' = zone /\ workspace' = workspace /\ plan' = plan /\ trend' = trend
      /\ clock \in Instants /\ plan = P!None /\ trend = <<>> /\ P!TypeOK
  BY DEF P!Enqueue, PeriodsInv
<1>2. period'.code = "ok" => Accepted(period', spec, zone) /\ period'.at = clock
  BY <1>1, RuleIsAccepted DEF P!TypeOK
<1>3. period'.code = "ok" => Accepted(period, asked, zone)'
  <2>1. asked' = spec /\ zone' = zone
    BY <1>1
  <2>2. P!LocalDay(zone, period.at)' = P!LocalDay(zone', period'.at)
    BY DEF P!LocalDay, P!Local, P!UtcOffset, P!After, P!OffsetBefore
  <2>3. P!UtcOffset(zone, P!UtcOf(zone, period.first * Q + Q \div 2))'
        = P!UtcOffset(zone', P!UtcOf(zone', period'.first * Q + Q \div 2))
    BY DEF P!UtcOffset, P!UtcOf, P!After, P!Later, P!OffsetBefore
  <2> QED BY <1>2, <2>1, <2>2, <2>3 DEF Accepted
<1>4. period'.code = "ok" => period'.days \in 1..MaxSpan
  BY <1>2 DEF Accepted
<1> QED BY <1>1, <1>2, <1>3, <1>4 DEF PeriodsInv, P!TypeOK

\* Days do not go back.
LEMMA DaysGoOn ==
  ASSUME P!CalendarFits, NEW z, P!ZoneFits(z), NEW t \in Int, NEW u \in Int, t <= u
  PROVE  P!LocalDay(z, t) \in Int /\ P!LocalDay(z, u) \in Int /\ P!LocalDay(z, t) <= P!LocalDay(z, u)
<1> DEFINE d == P!LocalDay(z, t)
<1>1. d \in Int /\ d <= d /\ P!LocalDay(z, u) \in Int
  BY DayParts
<1>2. Midnight(z, d) \in Int /\ Midnight(z, d) <= t
  BY <1>1, DayParts
<1>3. Midnight(z, d) <= u
  BY <1>2
<1>4. d <= P!LocalDay(z, u)
  BY <1>1, <1>3, DayParts
<1> QED BY <1>1, <1>4

\* Planning a run: its window and its grain.
LEMMA StartSound ==
  ASSUME P!ConstantsFit, PeriodsInv, NEW later \in Delays, P!Start(later)
  PROVE  PeriodsInv'
<1> DEFINE w == P!ResolveWindow(zone, period.first, period.last)
           g == P!ChooseGrain(zone, w)
<1>1. /\ period.code = "ok" /\ plan = P!None
      /\ plan' = [code |-> "planned", window |-> w, grain |-> g]
      /\ clock' = clock + later /\ today' = P!LocalDay(zone, clock')
      /\ zone' = zone /\ workspace' = workspace /\ asked' = asked /\ period' = period /\ trend' = trend
      /\ clock = period.at /\ trend = <<>> /\ P!TypeOK /\ Accepted(period, asked, zone)
  BY DEF P!Start, PeriodsInv
<1>2. later \in Nat /\ clock \in Nat /\ P!CalendarFits /\ P!ZoneFits(zone)
  BY <1>1 DEF P!ConstantsFit, P!TypeOK, Accepted
<1>3. plan' # P!None /\ plan'.window = w /\ plan'.grain = g
  <2>1. plan'.code = "planned" /\ P!None.code = "none"
    BY <1>1 DEF P!None
  <2> QED BY <1>1, <2>1
<1>4. clock' \in Nat /\ today' \in Int /\ P!LocalDay(zone, period.at) <= today'
  <2>1. clock' \in Nat /\ clock' \in Int /\ clock \in Int /\ clock <= clock'
    BY <1>1, <1>2
  <2> QED BY <1>1, <1>2, <2>1, DaysGoOn
<1>5. g \in {P!BaseGrain, P!FallbackGrain}
  BY DEF P!ChooseGrain
<1>6. period # P!None
  BY <1>1 DEF P!None
<1>7. DOMAIN trend = {} /\ trend' = trend
  BY <1>1
<1>8. /\ P!ResolveWindow(zone, period.first, period.last)' = w
      /\ P!ChooseGrain(zone, plan.window)' = P!ChooseGrain(zone, w)
      /\ P!LocalDay(zone, period.at)' = P!LocalDay(zone, period.at)
      /\ Accepted(period, asked, zone)'
  BY <1>1, <1>3
<1>9. P!TypeOK'
  BY <1>1, <1>3, <1>4, <1>5, <1>7 DEF P!TypeOK
<1>10. DOMAIN trend' = {}
  BY <1>7
<1>11. period'.code = "ok" /\ period' # P!None
  BY <1>1, <1>6
<1> HIDE DEF w, g
<1> QED BY <1>1, <1>3, <1>4, <1>8, <1>9, <1>10, <1>11 DEF PeriodsInv, w, g

\* The least of some months.
LEMMA LeastMonth ==
  ASSUME NEW S, S \subseteq P!Month, S # {}
  PROVE  P!Min(S) \in S
<1>1. S \subseteq Nat
  BY DEF P!Month
<1>2. \E n \in S : \A m \in S : n <= m
  BY <1>1, LeastNat
<1> QED BY <1>2 DEF P!Min

\* The month the window ends in is the last of the trend's, and those before it are over.
LEMMA Anchored ==
  ASSUME P!ConstantsFit, PeriodsInv, plan # P!None
  PROVE  LET anchor == P!MonthOf(plan.window.last) IN
         /\ P!CalendarFits /\ P!ZoneFits(zone)
         /\ period.first \in Int /\ period.last \in Int /\ period.first <= period.last
         /\ plan.window.first = period.first /\ plan.window.last = period.last
         /\ period.at \in Int /\ period.last < P!LocalDay(zone, period.at)
         /\ P!LocalDay(zone, period.at) \in Int
         /\ TheMonths \subseteq P!Month /\ anchor \in TheMonths
         /\ \A m \in TheMonths : m <= anchor
         /\ \A m \in TheMonths : m # anchor => ~(today < P!LastOfMonth(m))
         /\ asked.kind = "last_full_month" => P!MonthWindow(zone, anchor, today) = plan.window
<1> DEFINE anchor == P!MonthOf(plan.window.last)
<1>1. /\ Accepted(period, asked, zone) /\ today \in Int /\ P!LocalDay(zone, period.at) <= today
      /\ plan.window = P!ResolveWindow(zone, period.first, period.last)
  BY DEF PeriodsInv
<1>2. /\ P!CalendarFits /\ P!ZoneFits(zone) /\ SeedMonths \in Nat \ {0}
      /\ period.first \in Int /\ period.last \in Int /\ period.first <= period.last
      /\ period.at \in Int /\ period.last < P!LocalDay(zone, period.at)
  <2>1. /\ zone \in Zones /\ period.first \in Int /\ period.last \in Int
        /\ period.first <= period.last /\ period.at \in Instants
        /\ period.last < P!LocalDay(zone, period.at)
    BY <1>1 DEF Accepted
  <2>2. P!CalendarFits /\ P!ZoneFits(zone) /\ SeedMonths \in Nat \ {0} /\ Instants \subseteq Nat
    BY <2>1 DEF P!ConstantsFit
  <2>3. period.at \in Int
    <3>1. period.at \in Instants /\ Instants \subseteq Nat
      BY <2>1, <2>2
    <3>2. period.at \in Nat
      BY <3>1, Zenon
    <3> QED BY <3>2
  <2> QED BY <2>1, <2>2, <2>3, Zenon
<1>3. P!LocalDay(zone, period.at) \in Int
  BY <1>2, DayParts
<1>4. plan.window.first = period.first /\ plan.window.last = period.last
  BY <1>1 DEF P!ResolveWindow
<1>5. PICK m \in P!Month :
        /\ period.last \in P!DaysOfMonth(m)
        /\ asked.kind = "last_full_month" =>
             period.first = P!FirstOfMonth(m) /\ period.last = P!LastOfMonth(m)
  BY <1>1 DEF Accepted
<1>6. anchor = m /\ P!FirstOfMonth(m) <= period.last /\ P!FirstOfMonth(m) \in Int /\ m \in Int
  BY <1>2, <1>4, <1>5, MonthFacts
<1>7. TheMonths = {n \in P!Month : n <= m /\ n > m - SeedMonths}
  BY <1>6 DEF TheMonths, P!TrendMonths
<1>8. m \in TheMonths /\ TheMonths \subseteq P!Month /\ \A n \in TheMonths : n <= m
  BY <1>2, <1>6, <1>7
<1>9. ASSUME NEW n \in TheMonths, n # m PROVE ~(today < P!LastOfMonth(n))
  <2>0. n \in P!Month /\ n <= m
    BY <1>8
  <2>1. n \in P!Month /\ n \in Int /\ n < m
    <3>1. n \in Int
      BY <1>2, <2>0, MonthFacts
    <3> QED BY <1>6, <1>9, <2>0, <3>1
  <2>2. P!LastOfMonth(n) < P!FirstOfMonth(m) /\ P!LastOfMonth(n) \in Int
    BY <1>2, <2>1, MonthFacts
  <2> QED BY <1>1, <1>2, <1>3, <1>6, <2>2
<1>10. ASSUME asked.kind = "last_full_month"
       PROVE  P!MonthWindow(zone, anchor, today) = plan.window
  <2>1. period.first = P!FirstOfMonth(m) /\ period.last = P!LastOfMonth(m)
    BY <1>5, <1>10
  <2>2. ~(today < P!LastOfMonth(m))
    BY <1>1, <1>2, <1>3, <2>1
  <2>3. P!MonthWindow(zone, m, today) = P!ResolveWindow(zone, P!FirstOfMonth(m), P!LastOfMonth(m))
    BY <2>2 DEF P!MonthWindow
  <2> QED BY <1>1, <1>6, <2>1, <2>3
<1> QED BY <1>1, <1>2, <1>3, <1>4, <1>6, <1>8, <1>9, <1>10

\* A month of the trend is recorded.
LEMMA RecordSound ==
  ASSUME P!ConstantsFit, PeriodsInv, P!Unfinished, NEW from, P!Record(from),
         from \in {"period", "live", "failed", "workspace", "nowhere"},
         from = "period" <=> P!OwnWindow
  PROVE  PeriodsInv'
<1> DEFINE n == P!NextMonth
           w == P!MonthWindow(zone, n, today)
           r == [window |-> w, slots |-> P!SlotCount(w), from |-> from]
<1>1. /\ trend' = [m \in DOMAIN trend \cup {n} |-> IF m = n THEN r ELSE trend[m]]
      /\ zone' = zone /\ clock' = clock /\ workspace' = workspace /\ asked' = asked
      /\ period' = period /\ plan' = plan /\ today' = today
  BY DEF P!Record
<1>2. plan # P!None /\ TheMonths # DOMAIN trend /\ DOMAIN trend \subseteq TheMonths
  BY DEF P!Unfinished, PeriodsInv, TheMonths
<1>3. TheMonths \subseteq P!Month
  BY <1>2, Anchored
<1>4. n \in TheMonths \ DOMAIN trend
  <2> DEFINE S == TheMonths \ DOMAIN trend
  <2>1. S # {} /\ S \subseteq P!Month
    BY <1>2, <1>3
  <2>2. n = P!Min(S)
    BY DEF P!NextMonth, TheMonths
  <2> HIDE DEF S
  <2>3. n \in S
    BY <2>1, <2>2, LeastMonth
  <2> QED BY <2>3 DEF S
<1>5. w = plan.window <=> from = "period"
  BY DEF P!OwnWindow
<1>6. r.window = w /\ r.from = from
  OBVIOUS
<1> HIDE DEF n, w, r
<1>7. DOMAIN trend' = DOMAIN trend \cup {n} /\ DOMAIN trend' \subseteq TheMonths
  BY <1>1, <1>2, <1>4
<1>8. ASSUME NEW m \in DOMAIN trend'
      PROVE  /\ trend'[m].window = P!MonthWindow(zone, m, today)
             /\ trend'[m].from = "period" <=> trend'[m].window = plan.window
             /\ trend'[m].from \in {"period", "live", "failed", "workspace", "nowhere"}
  <2>1. CASE m = n
    <3>1. trend'[m] = r
      BY <1>1, <1>7, <2>1
    <3>2. w = P!MonthWindow(zone, m, today)
      BY <2>1 DEF w
    <3> QED BY <1>5, <1>6, <3>1, <3>2
  <2>2. CASE m # n
    <3>1. trend'[m] = trend[m] /\ m \in DOMAIN trend
      BY <1>1, <1>7, <2>2
    <3> QED BY <1>2, <3>1 DEF PeriodsInv, P!TypeOK
  <2> QED BY <2>1, <2>2
<1>9. P!TypeOK'
  BY <1>1, <1>3, <1>7, <1>8 DEF PeriodsInv, P!TypeOK
<1>10. /\ TheMonths' = TheMonths /\ Accepted(period, asked, zone)' = Accepted(period, asked, zone)
       /\ P!ResolveWindow(zone, period.first, period.last)' = P!ResolveWindow(zone, period.first, period.last)
       /\ P!ChooseGrain(zone, plan.window)' = P!ChooseGrain(zone, plan.window)
       /\ P!LocalDay(zone, period.at)' = P!LocalDay(zone, period.at)
       /\ \A m \in DOMAIN trend' :
            trend'[m].window = P!MonthWindow(zone', m, today')
  BY <1>1, <1>8 DEF TheMonths
<1> QED BY <1>1, <1>2, <1>7, <1>8, <1>9, <1>10 DEF PeriodsInv

\* Every step keeps the invariant.
LEMMA PeriodsStep == ASSUME P!ConstantsFit, PeriodsInv, [P!Next]_(P!vars) PROVE PeriodsInv'
<1>1. ASSUME NEW spec \in P!Specs, P!Enqueue(spec) PROVE PeriodsInv'
  BY <1>1, EnqueueSound
<1>2. ASSUME NEW later \in Delays, P!Start(later) PROVE PeriodsInv'
  BY <1>2, StartSound
<1>3. CASE P!Reuse
  BY <1>3, RecordSound DEF P!Reuse
<1>4. CASE P!AskWorkspace
  <2> DEFINE from == IF workspace THEN "workspace" ELSE "nowhere"
  <2>1. P!Unfinished /\ ~P!OwnWindow /\ P!Record(from)
    BY <1>4 DEF P!AskWorkspace
  <2>2. from \in {"workspace", "nowhere"}
    OBVIOUS
  <2> HIDE DEF from
  <2> QED BY <2>1, <2>2, RecordSound
<1>5. CASE P!AskLive
  BY <1>5, RecordSound DEF P!AskLive
<1>6. CASE UNCHANGED P!vars
  BY <1>6 DEF P!vars, PeriodsInv, P!TypeOK, Accepted, TheMonths
<1> QED BY <1>1, <1>2, <1>3, <1>4, <1>5, <1>6 DEF P!Next

\* The window is over, its days are whole, the offset is that of noon, the trend's months
\* meet, and a whole month's own is taken from what was measured for it.
PeriodsSound ==
  P!TypeOK /\ P!WindowIsPast /\ P!DaysAreWhole /\ P!OffsetIsOfNoon /\ P!OwnMonthOnce /\ P!MonthsMeet

\* What the invariant says of the figures.
LEMMA PeriodsHold == ASSUME P!ConstantsFit, PeriodsInv PROVE PeriodsSound
<1>1. P!TypeOK
  BY DEF PeriodsInv
<1>2. P!WindowIsPast
  <2> SUFFICES ASSUME plan # P!None PROVE plan.window.end <= period.at
    BY DEF P!WindowIsPast
  <2>1. /\ P!CalendarFits /\ P!ZoneFits(zone) /\ period.last \in Int /\ period.at \in Int
        /\ period.last < P!LocalDay(zone, period.at) /\ P!LocalDay(zone, period.at) \in Int
    BY Anchored
  <2>2. plan.window.end = Midnight(zone, period.last + 1)
    BY DEF PeriodsInv, P!ResolveWindow, Midnight, Q
  <2>3. period.last + 1 \in Int /\ period.last + 1 <= P!LocalDay(zone, period.at)
    BY <2>1
  <2> QED BY <2>1, <2>2, <2>3, DayParts
<1>3. P!DaysAreWhole
  <2> SUFFICES ASSUME plan # P!None
               PROVE  LET w == plan.window
                          buckets == P!DayBuckets(zone, w, plan.grain)
                      IN  /\ \A t \in P!Slots(w, plan.grain) :
                               P!LocalDay(zone, t) = P!LocalDay(zone, t + plan.grain - 1)
                          /\ DOMAIN buckets = w.first .. w.last
                          /\ \A d \in DOMAIN buckets :
                               LET day == P!ResolveWindow(zone, d, d)
                               IN  buckets[d] * plan.grain = day.end - day.start
    BY DEF P!DaysAreWhole
  <2>1. /\ P!CalendarFits /\ P!ZoneFits(zone)
        /\ period.first \in Int /\ period.last \in Int /\ period.first <= period.last
    BY Anchored
  <2>2. /\ plan.window = P!ResolveWindow(zone, period.first, period.last)
        /\ plan.grain = P!ChooseGrain(zone, plan.window)
    BY DEF PeriodsInv
  <2> QED BY <2>1, <2>2, WindowDays
<1>4. P!OffsetIsOfNoon
  BY DEF P!OffsetIsOfNoon, PeriodsInv, Accepted, Q
<1>5. P!OwnMonthOnce
  <2>1. ASSUME NEW m \in DOMAIN trend, trend[m].from = "period"
        PROVE  trend[m].window = plan.window
    <3>1. DOMAIN <<>> = {}
      OBVIOUS
    <3>2. plan # P!None
      BY <3>1 DEF PeriodsInv
    <3> QED BY <2>1, <3>2 DEF PeriodsInv
  <2>2. ASSUME plan # P!None, asked.kind = "last_full_month", ~P!Unfinished
        PROVE  trend[P!MonthOf(plan.window.last)].from = "period"
    <3> DEFINE a == P!MonthOf(plan.window.last)
    <3>1. a \in TheMonths /\ P!MonthWindow(zone, a, today) = plan.window
      BY <2>2, Anchored
    <3>2. TheMonths = DOMAIN trend
      BY <2>2 DEF P!Unfinished, TheMonths
    <3> HIDE DEF a
    <3>3. trend[a].window = P!MonthWindow(zone, a, today)
          /\ (trend[a].from = "period" <=> trend[a].window = plan.window)
      BY <2>2, <3>1, <3>2 DEF PeriodsInv
    <3>4. trend[a].from = "period"
      BY <3>1, <3>3
    <3> QED BY <3>4 DEF a
  <2> QED BY <2>1, <2>2 DEF P!OwnMonthOnce
<1>6. P!MonthsMeet
  <2> SUFFICES ASSUME NEW m \in DOMAIN trend, m + 1 \in DOMAIN trend
               PROVE  trend[m].window.end = trend[m + 1].window.start
    BY DEF P!MonthsMeet
  <2>1. DOMAIN <<>> = {}
    OBVIOUS
  <2>2. plan # P!None
    BY <2>1 DEF PeriodsInv
  <2>3. /\ m \in TheMonths /\ m + 1 \in TheMonths
        /\ trend[m].window = P!MonthWindow(zone, m, today)
        /\ trend[m + 1].window = P!MonthWindow(zone, m + 1, today)
    BY <2>2 DEF PeriodsInv
  <2>4. m \in P!Month /\ m + 1 \in P!Month /\ m + 1 <= P!MonthOf(plan.window.last) /\ P!CalendarFits
    BY <2>2, <2>3, Anchored
  <2>5. m \in Int
    BY <2>4, MonthFacts
  <2>6. ~(today < P!LastOfMonth(m))
    <3>1. P!MonthOf(plan.window.last) \in P!Month
      BY <2>2, Anchored
    <3>2. P!MonthOf(plan.window.last) \in Int
      BY <2>4, <3>1, MonthFacts
    <3>3. m # P!MonthOf(plan.window.last)
      BY <2>4, <2>5, <3>2
    <3> QED BY <2>2, <2>3, <3>3, Anchored
  <2>7. P!LastOfMonth(m) + 1 = P!FirstOfMonth(m + 1)
    BY <2>4, MonthFacts
  <2> QED BY <2>3, <2>6, <2>7 DEF P!MonthWindow, P!ResolveWindow
<1> QED BY <1>1, <1>2, <1>3, <1>4, <1>5, <1>6 DEF PeriodsSound

\* The days a run and its trend are about are over, whole and met end to end, the offset that
\* is kept for a day is the one at its noon, and the month of the report itself is taken from
\* its own window: in every zone, whatever the clocks do and whenever the run starts.
THEOREM PeriodsAreSound == ASSUME P!ConstantsFit PROVE P!Spec => []PeriodsSound
<1>1. P!Init => PeriodsInv
  BY PeriodsInit
<1>2. PeriodsInv /\ [P!Next]_(P!vars) => PeriodsInv'
  BY PeriodsStep
<1>3. PeriodsInv => PeriodsSound
  BY PeriodsHold
<1> QED BY <1>1, <1>2, <1>3, PTL DEF P!Spec

-------------------------------------------------------------------------------
(***************************************************************************)
(* What is folded of one metric.  The window, each day and each hour of the*)
(* week are what their intervals add up to, an interval that comes moves the*)
(* sum by itself, and an average stays between the extremes.               *)
(***************************************************************************)

SeriesSizes == \A X : Series!Cardinality(X) = Cardinality(X)

\* The sizes of sets are the same in the instance.
LEMMA SizesOfSeries == SeriesSizes
BY DEF SeriesSizes, Series!Cardinality, Cardinality

\* The sums over these intervals up to each.
Sums(f, leaf, S) ==
  /\ f[0] = 0
  /\ \A n \in Nat : f[n + 1] = f[n] + (IF n + 1 \in S THEN leaves[n + 1][leaf] ELSE 0)

\* The sum is the last of the sums up to each interval.
LEMMA SumIsLast ==
  ASSUME NEW leaf, NEW S, \A n \in S : leaves[n][leaf] \in Int
  PROVE  \E f \in [Nat -> Int] : Sums(f, leaf, S) /\ Series!SumOf(leaf, S) = f[Len(Starts)]
<1> DEFINE add(n) == IF n \in S THEN leaves[n][leaf] ELSE 0
           body(g) == [n \in Nat |-> IF n = 0 THEN 0 ELSE g[n - 1] + add(n)]
           f == CHOOSE g : g = body(g)
<1>1. \A n : add(n) \in Int
  OBVIOUS
<1>0. PICK s : s = [n \in Nat |-> [v \in Int |-> v + add(n + 1)]]
  OBVIOUS
<1>2. s \in [Nat -> [Int -> Int]] /\ 0 \in Int
  <2> HIDE DEF add
  <2> QED BY <1>0, <1>1
<1>3. \A n \in Nat : \A v \in Int : s[n][v] = v + add(n + 1)
  <2> HIDE DEF add
  <2> QED BY <1>0
<1>4. PICK g \in [Nat -> Int] : Follows(g, 0, s)
  BY <1>2, Recursion
<1>5. \A n \in Nat : g[n + 1] = g[n] + add(n + 1)
  <2> HIDE DEF add
  <2> QED BY <1>3, <1>4 DEF Follows
<1>6. g = body(g)
  <2> HIDE DEF add
  <2>1. ASSUME NEW n \in Nat PROVE g[n] = IF n = 0 THEN 0 ELSE g[n - 1] + add(n)
    <3>1. CASE n = 0
      BY <1>4, <3>1 DEF Follows
    <3>2. CASE n # 0
      <4>1. n - 1 \in Nat /\ (n - 1) + 1 = n
        BY <3>2
      <4>2. g[(n - 1) + 1] = g[n - 1] + add((n - 1) + 1)
        BY <1>5, <4>1
      <4> QED BY <3>2, <4>1, <4>2
    <3> QED BY <3>1, <3>2
  <2> QED BY <1>4, <2>1
<1>7. f = body(f)
  <2> HIDE DEF body
  <2> QED BY <1>6
<1>8. f[0] = 0 /\ \A n \in Nat : f[n + 1] = f[n] + add(n + 1)
  <2> HIDE DEF f, add
  <2>1. ASSUME NEW n \in Nat PROVE f[n + 1] = f[n] + add(n + 1)
    <3>1. n + 1 \in Nat /\ n + 1 # 0 /\ (n + 1) - 1 = n
      OBVIOUS
    <3>2. f[n + 1] = body(f)[n + 1]
      BY <1>7
    <3> QED BY <3>1, <3>2
  <2>2. f[0] = body(f)[0]
    BY <1>7
  <2> QED BY <2>1, <2>2
<1>9. \A n \in Nat : f[n] \in Int
  <2> DEFINE T == {n \in Nat : f[n] \in Int}
  <2> HIDE DEF f, add
  <2>1. 0 \in T
    BY <1>8
  <2>2. \A n \in Nat : n \in T => n + 1 \in T
    BY <1>1, <1>8
  <2> HIDE DEF T
  <2>3. \A n \in Nat : n \in T
    BY <2>1, <2>2, Induction
  <2> QED BY <2>3 DEF T
<1>10. f \in [Nat -> Int]
  <2> HIDE DEF f, add
  <2> QED BY <1>7, <1>9
<1>11. Series!SumOf(leaf, S) = f[Len(Starts)]
  BY DEF Series!SumOf
<1>12. Sums(f, leaf, S)
  <2> HIDE DEF f
  <2> QED BY <1>8 DEF Sums
<1> HIDE DEF f
<1> QED BY <1>10, <1>11, <1>12

\* Between a number and the next there is none.
LEMMA NextApart == \A i, n \in Nat : n + 1 # i => (i <= n <=> i <= n + 1)
OBVIOUS

\* The sum over no intervals, and over one more.
LEMMA SumOfOneMore ==
  ASSUME Starts \in Seq(Int), NEW leaf, NEW S, S \subseteq Series!Sample, NEW i \in Series!Sample \ S,
         \A n \in S \cup {i} : leaves[n][leaf] \in Int
  PROVE  /\ Series!SumOf(leaf, S) \in Int
         /\ Series!SumOf(leaf, S \cup {i}) = Series!SumOf(leaf, S) + leaves[i][leaf]
<1>0. PICK R : R = S \cup {i}
  OBVIOUS
<1> DEFINE last == Len(Starts)
           v == leaves[i][leaf]
<1>1. last \in Nat /\ i \in Nat /\ 1 <= i /\ i <= last /\ v \in Int
  <2>1. last \in Nat /\ i \in 1..last
    BY DEF Series!Sample
  <2> HIDE DEF last
  <2> QED BY <2>1
<1>2. PICK f \in [Nat -> Int] : Sums(f, leaf, S) /\ Series!SumOf(leaf, S) = f[last]
  BY SumIsLast
<1>3. PICK g \in [Nat -> Int] : Sums(g, leaf, R) /\ Series!SumOf(leaf, R) = g[last]
  <2>1. \A n \in R : leaves[n][leaf] \in Int
    BY <1>0
  <2> QED BY <2>1, SumIsLast
<1> DEFINE T == {n \in Nat : IF i <= n THEN g[n] = f[n] + v ELSE g[n] = f[n]}
<1>4. 0 \in T
  BY <1>1, <1>2, <1>3 DEF Sums
<1>5. ASSUME NEW n \in Nat, n \in T PROVE n + 1 \in T
  <2>0. /\ i <= n => g[n] = f[n] + v
        /\ ~(i <= n) => g[n] = f[n]
        /\ f[n] \in Int /\ g[n] \in Int
    BY <1>5
  <2>1. CASE n + 1 = i
    <3>0. n + 1 \in R /\ n + 1 \notin S /\ leaves[n + 1][leaf] = v
      BY <1>0, <2>1
    <3>1. g[n + 1] = g[n] + v /\ f[n + 1] = f[n] + 0
      <4> HIDE DEF v
      <4> QED BY <1>2, <1>3, <3>0 DEF Sums
    <3>2. ~(i <= n) /\ i <= n + 1
      BY <1>1, <2>1
    <3>3. g[n + 1] = f[n + 1] + v
      <4> HIDE DEF v
      <4> QED BY <2>0, <3>1, <3>2
    <3> QED BY <3>2, <3>3
  <2>2. CASE n + 1 # i
    <3>1. i <= n <=> i <= n + 1
      <4>1. i \in Nat
        BY <1>1
      <4> QED BY <2>2, <4>1, NextApart
    <3>2. n + 1 \in R <=> n + 1 \in S
      BY <1>0, <2>2
    <3> DEFINE w == IF n + 1 \in S THEN leaves[n + 1][leaf] ELSE 0
    <3>3. w \in Int
      OBVIOUS
    <3>4. g[n + 1] = g[n] + w /\ f[n + 1] = f[n] + w
      BY <1>2, <1>3, <3>2 DEF Sums
    <3> HIDE DEF w, v, last
    <3>5. CASE i <= n
      <4>1. g[n + 1] = f[n + 1] + v
        BY <1>1, <2>0, <3>3, <3>4, <3>5
      <4> QED BY <3>1, <3>5, <4>1
    <3>6. CASE ~(i <= n)
      <4>1. g[n + 1] = f[n + 1]
        BY <2>0, <3>4, <3>6
      <4> QED BY <3>1, <3>6, <4>1
    <3> QED BY <3>5, <3>6
  <2> QED BY <2>1, <2>2
<1>6. last \in T
  <2> HIDE DEF T
  <2> QED BY <1>1, <1>4, <1>5, Induction
<1>7. g[last] = f[last] + v
  BY <1>1, <1>6
<1> QED BY <1>0, <1>1, <1>2, <1>3, <1>7

\* The sum over no interval.
LEMMA SumOfNone ==
  ASSUME Starts \in Seq(Int), NEW leaf
  PROVE  Series!SumOf(leaf, {}) = 0
<1>0. PICK S : S = {}
  OBVIOUS
<1>1. PICK f \in [Nat -> Int] : Sums(f, leaf, S) /\ Series!SumOf(leaf, S) = f[Len(Starts)]
  <2>1. \A n \in S : leaves[n][leaf] \in Int
    BY <1>0
  <2> QED BY <2>1, SumIsLast
<1>2. PICK T : T = {n \in Nat : f[n] = 0}
  OBVIOUS
<1>3. 0 \in T
  BY <1>1, <1>2 DEF Sums
<1>4. ASSUME NEW n \in Nat, n \in T PROVE n + 1 \in T
  BY <1>0, <1>1, <1>2, <1>4 DEF Sums
<1>5. \A n \in Nat : n \in T
  BY <1>3, <1>4, Induction
<1>6. Len(Starts) \in Nat
  OBVIOUS
<1> QED BY <1>0, <1>1, <1>2, <1>5, <1>6

\* Products grow with a factor.
LEMMA Grows ==
  ASSUME NEW a \in Int, NEW b \in Int, NEW n \in Nat, a <= b
  PROVE  a * n <= b * n /\ a * n \in Int /\ b * n \in Int
<1>1. a * n \in Int /\ b * n \in Int
  OBVIOUS
<1>2. PICK c \in Nat : b = a + c
  <2>1. b - a \in Nat /\ b = a + (b - a)
    OBVIOUS
  <2> QED BY <2>1
<1>3. (a + c) * n = a * n + c * n
  OBVIOUS
<1>4. c * n \in Nat
  OBVIOUS
<1> QED BY <1>1, <1>2, <1>3, <1>4

\* The lesser and the greater of two.
LEMMA OfTwo ==
  ASSUME NEW a \in Int, NEW b \in Int
  PROVE  /\ Series!Min({a, b}) = IF a <= b THEN a ELSE b
         /\ Series!Max({a, b}) = IF a <= b THEN b ELSE a
<1>1. CASE a <= b
  <2>1. Series!Min({a, b}) = a
    BY <1>1 DEF Series!Min
  <2>2. Series!Max({a, b}) = b
    BY <1>1 DEF Series!Max
  <2> QED BY <1>1, <2>1, <2>2
<1>2. CASE ~(a <= b)
  <2>1. Series!Min({a, b}) = b
    BY <1>2 DEF Series!Min
  <2>2. Series!Max({a, b}) = a
    BY <1>2 DEF Series!Max
  <2> QED BY <1>2, <2>1, <2>2
<1> QED BY <1>1, <1>2

IsLeast(v, K) == IF K = {} THEN v = Absent ELSE v \in K /\ \A y \in K : v <= y
IsGreatest(v, K) == IF K = {} THEN v = Absent ELSE v \in K /\ \A y \in K : y <= v

\* The least and the greatest of a set are its minimum and its maximum.
LEMMA LeastIsMin ==
  ASSUME NEW K, K \subseteq Int, NEW v
  PROVE  /\ IsLeast(v, K) => v = IF K = {} THEN Absent ELSE Series!Min(K)
         /\ IsGreatest(v, K) => v = IF K = {} THEN Absent ELSE Series!Max(K)
<1>1. ASSUME IsLeast(v, K), K # {} PROVE v = Series!Min(K)
  <2>1. v \in K /\ \A y \in K : v <= y
    BY <1>1 DEF IsLeast
  <2>2. Series!Min(K) \in K /\ Series!Min(K) <= v
    BY <2>1 DEF Series!Min
  <2>3. v <= Series!Min(K) /\ v \in Int /\ Series!Min(K) \in Int
    BY <2>1, <2>2
  <2> QED BY <2>2, <2>3
<1>2. ASSUME IsGreatest(v, K), K # {} PROVE v = Series!Max(K)
  <2>1. v \in K /\ \A y \in K : y <= v
    BY <1>2 DEF IsGreatest
  <2>2. Series!Max(K) \in K /\ v <= Series!Max(K)
    BY <2>1 DEF Series!Max
  <2>3. Series!Max(K) <= v /\ v \in Int /\ Series!Max(K) \in Int
    BY <2>1, <2>2
  <2> QED BY <2>2, <2>3
<1> QED BY <1>1, <1>2 DEF IsLeast, IsGreatest

\* The least and the greatest when one comes to a set.
LEMMA OneMoreLeast ==
  ASSUME NEW K, K \subseteq Int, Absent \notin K, NEW v, NEW x, x = Absent \/ x \in Int
  PROVE  /\ IsLeast(v, K) => IsLeast(Series!Lower(v, x), (K \cup {x}) \ {Absent})
         /\ IsGreatest(v, K) => IsGreatest(Series!Higher(v, x), (K \cup {x}) \ {Absent})
<1>1. CASE x = Absent
  <2>1. (K \cup {x}) \ {Absent} = K
    BY <1>1
  <2>2. Series!Lower(v, x) = v /\ Series!Higher(v, x) = v
    BY <1>1 DEF Series!Lower, Series!Higher
  <2> QED BY <2>1, <2>2
<1>2. CASE x # Absent /\ K = {}
  <2>1. (K \cup {x}) \ {Absent} = {x} /\ x <= x
    BY <1>2
  <2> QED BY <1>2, <2>1 DEF IsLeast, IsGreatest, Series!Lower, Series!Higher
<1>3. CASE x # Absent /\ K # {}
  <2>1. (K \cup {x}) \ {Absent} = K \cup {x} /\ x \in Int
    BY <1>3
  <2>2. ASSUME IsLeast(v, K) PROVE IsLeast(Series!Lower(v, x), K \cup {x})
    <3>1. v \in K /\ v \in Int /\ v # Absent /\ \A y \in K : y \in Int /\ v <= y
      BY <1>3, <2>2 DEF IsLeast
    <3>2. Series!Lower(v, x) = IF v <= x THEN v ELSE x
      BY <1>3, <2>1, <3>1, OfTwo DEF Series!Lower
    <3> QED BY <2>1, <3>1, <3>2 DEF IsLeast
  <2>3. ASSUME IsGreatest(v, K) PROVE IsGreatest(Series!Higher(v, x), K \cup {x})
    <3>1. v \in K /\ v \in Int /\ v # Absent /\ \A y \in K : y \in Int /\ y <= v
      BY <1>3, <2>3 DEF IsGreatest
    <3>2. Series!Higher(v, x) = IF v <= x THEN x ELSE v
      BY <1>3, <2>1, <3>1, OfTwo DEF Series!Higher
    <3> QED BY <2>1, <3>1, <3>2 DEF IsGreatest
  <2> QED BY <2>1, <2>2, <2>3
<1> QED BY <1>1, <1>2, <1>3

Aggs == Series!Aggregations(kind)

\* What is asked for of each kind of metric.
LEMMA AskedFor ==
  ASSUME kind \in Series!Kinds
  PROVE  /\ Series!AsksTotal(Aggs) <=> kind # "extremes"
         /\ Series!AsksCount(Aggs) <=> kind = "averages"
         /\ "total" \in Aggs <=> kind # "extremes"
         /\ "count" \in Aggs <=> kind = "averages"
<1>1. CASE kind = "averages"
  <2>1. Aggs = {"total", "count", "minimum", "maximum"}
    BY <1>1 DEF Aggs, Series!Aggregations
  <2> QED BY <1>1, <2>1 DEF Series!AsksTotal, Series!AsksCount
<1>2. CASE kind = "totals"
  <2>1. Aggs = {"total"}
    BY <1>2 DEF Aggs, Series!Aggregations
  <2> QED BY <1>2, <2>1 DEF Series!AsksTotal, Series!AsksCount
<1>3. CASE kind = "extremes"
  <2>1. Aggs = {"minimum", "maximum"}
    BY <1>3 DEF Aggs, Series!Aggregations
  <2> QED BY <1>3, <2>1 DEF Series!AsksTotal, Series!AsksCount
<1> QED BY <1>1, <1>2, <1>3 DEF Series!Kinds

\* The interval has all that its kind of metric asks for, and samples.
Contributes(p) ==
  /\ kind # "extremes" => p.total # Absent
  /\ kind = "averages" => p.count # Absent /\ p.count > 0

\* What folding an interval does to an accumulator.
LEMMA FoldIs ==
  ASSUME kind \in Series!Kinds, NEW p, p.count = Absent \/ p.count \in Int, NEW acc
  PROVE  /\ ~Contributes(p) => Series!FoldInterval(acc, p, Aggs) = acc
         /\ Contributes(p) => Series!FoldInterval(acc, p, Aggs) =
              [total |-> acc.total + (IF kind # "extremes" THEN p.total ELSE 0),
               count |-> acc.count + (IF kind = "averages" THEN p.count ELSE 0),
               minimum |-> Series!Lower(acc.minimum, p.minimum),
               maximum |-> Series!Higher(acc.maximum, p.maximum),
               folded |-> acc.folded + 1]
<1>1. Contributes(p) <=> ~(Series!Malformed(p, Aggs) \/ (Series!AsksCount(Aggs) /\ p.count = 0))
  <2>1. kind = "averages" /\ p.count # Absent => p.count \in Int
    OBVIOUS
  <2>2. Series!Malformed(p, Aggs) <=>
          \/ kind # "extremes" /\ p.total = Absent
          \/ kind = "averages" /\ (p.count = Absent \/ p.count < 0)
    BY AskedFor DEF Series!Malformed
  <2>3. CASE kind = "averages"
    BY <2>1, <2>2, <2>3, AskedFor DEF Contributes
  <2>4. CASE kind # "averages"
    BY <2>2, <2>4, AskedFor DEF Contributes
  <2> QED BY <2>3, <2>4
<1> QED BY <1>1, AskedFor DEF Series!FoldInterval

Known(leaf, S) == {leaves[i][leaf] : i \in S} \ {Absent}

\* Adds, with the extremes as the least and the greatest of a set.
AddsUp(acc, S) ==
  /\ acc.folded = Series!Cardinality(S)
  /\ acc.total = IF kind = "extremes" THEN 0 ELSE Series!SumOf("total", S)
  /\ acc.count = IF kind = "averages" THEN Series!SumOf("count", S) ELSE 0
  /\ IsLeast(acc.minimum, Known("minimum", S)) /\ IsGreatest(acc.maximum, Known("maximum", S))

\* What the leaves of some intervals hold.
LEMMA KnownFacts ==
  ASSUME Series!ConstantsFit, leaves \in [Series!Sample -> Leaves],
         NEW S, S \subseteq Series!Sample, NEW leaf \in {"total", "count", "minimum", "maximum"}
  PROVE  /\ Known(leaf, S) \subseteq Int /\ Absent \notin Known(leaf, S)
         /\ \A i \in S : leaves[i][leaf] = Absent \/ leaves[i][leaf] \in Int
<1>1. \A p \in Leaves : p[leaf] = Absent \/ p[leaf] \in Int
  BY DEF Series!ConstantsFit, Series!LeafFits
<1>2. \A i \in S : leaves[i] \in Leaves
  OBVIOUS
<1> QED BY <1>1, <1>2 DEF Known

\* The sum that is proved to stay true is the one that is checked.
LEMMA UpIsAdds ==
  ASSUME Series!ConstantsFit, leaves \in [Series!Sample -> Leaves],
         NEW S, S \subseteq Series!Sample, NEW acc, AddsUp(acc, S)
  PROVE  Series!Adds(acc, S)
<1>1. Known("minimum", S) \subseteq Int /\ Known("maximum", S) \subseteq Int
  BY KnownFacts
<1>2. /\ acc.minimum = IF Known("minimum", S) = {} THEN Absent ELSE Series!Min(Known("minimum", S))
      /\ acc.maximum = IF Known("maximum", S) = {} THEN Absent ELSE Series!Max(Known("maximum", S))
  BY <1>1, LeastIsMin DEF AddsUp
<1>3. /\ acc.folded = Series!Cardinality(S)
      /\ acc.total = IF kind = "extremes" THEN 0 ELSE Series!SumOf("total", S)
      /\ acc.count = IF kind = "averages" THEN Series!SumOf("count", S) ELSE 0
  BY DEF AddsUp
<1> QED BY <1>2, <1>3 DEF Series!Adds, Known

\* A new accumulator has no interval.
LEMMA EmptyAdds ==
  ASSUME Series!ConstantsFit
  PROVE  AddsUp(Series!Empty, {})
<1>1. Series!Cardinality({}) = 0
  BY FS_EmptySet, SizesOfSeries DEF SeriesSizes
<1>2. Series!SumOf("total", {}) = 0 /\ Series!SumOf("count", {}) = 0
  BY SumOfNone DEF Series!ConstantsFit
<1>3. \A leaf : Known(leaf, {}) = {}
  BY DEF Known
<1> QED BY <1>1, <1>2, <1>3 DEF AddsUp, Series!Empty, IsLeast, IsGreatest

\* One more interval.
LEMMA AddsOne ==
  ASSUME Series!ConstantsFit, kind \in Series!Kinds, leaves \in [Series!Sample -> Leaves],
         NEW acc, NEW S, S \subseteq Series!Sample, AddsUp(acc, S), NEW i \in Series!Sample \ S,
         \A n \in S \cup {i} : Contributes(leaves[n])
  PROVE  AddsUp(Series!FoldInterval(acc, leaves[i], Aggs), S \cup {i})
<1> DEFINE p == leaves[i]
           new == Series!FoldInterval(acc, p, Aggs)
<1>0. PICK R : R = S \cup {i}
  OBVIOUS
<1>1. /\ R \subseteq Series!Sample /\ Starts \in Seq(Int) /\ Contributes(p)
      /\ \A leaf \in {"total", "count", "minimum", "maximum"} :
           \A n \in R : leaves[n][leaf] = Absent \/ leaves[n][leaf] \in Int
  BY <1>0, KnownFacts DEF Series!ConstantsFit
<1>2. new = [total |-> acc.total + (IF kind # "extremes" THEN p.total ELSE 0),
             count |-> acc.count + (IF kind = "averages" THEN p.count ELSE 0),
             minimum |-> Series!Lower(acc.minimum, p.minimum),
             maximum |-> Series!Higher(acc.maximum, p.maximum),
             folded |-> acc.folded + 1]
  <2>1. p.count = Absent \/ p.count \in Int
    BY <1>0, <1>1
  <2> HIDE DEF p
  <2> QED BY <1>1, <2>1, FoldIs
<1>3. Series!Cardinality(R) = Series!Cardinality(S) + 1
  <2>1. IsFiniteSet(Series!Sample)
    <3>1. Series!Sample = 1..Len(Starts) /\ Len(Starts) \in Nat
      BY <1>1 DEF Series!Sample
    <3> QED BY <3>1, FS_Interval
  <2>2. IsFiniteSet(S)
    BY <2>1, FS_Subset
  <2>3. Cardinality(S \cup {i}) = Cardinality(S) + 1
    BY <2>2, FS_AddElement
  <2> QED BY <1>0, <2>3, SizesOfSeries DEF SeriesSizes
<1>4. kind # "extremes" => Series!SumOf("total", R) = Series!SumOf("total", S) + p.total
  <2> SUFFICES ASSUME kind # "extremes" PROVE Series!SumOf("total", S \cup {i}) = Series!SumOf("total", S) + p.total
    BY <1>0
  <2>1. \A n \in S \cup {i} : leaves[n]["total"] \in Int
    BY <1>0, <1>1 DEF Contributes
  <2>2. Series!SumOf("total", S \cup {i}) = Series!SumOf("total", S) + leaves[i]["total"]
    BY <1>1, <2>1, SumOfOneMore
  <2> QED BY <2>2
<1>5. kind = "averages" => Series!SumOf("count", R) = Series!SumOf("count", S) + p.count
  <2> SUFFICES ASSUME kind = "averages" PROVE Series!SumOf("count", S \cup {i}) = Series!SumOf("count", S) + p.count
    BY <1>0
  <2>1. \A n \in S \cup {i} : leaves[n]["count"] \in Int
    BY <1>0, <1>1 DEF Contributes
  <2>2. Series!SumOf("count", S \cup {i}) = Series!SumOf("count", S) + leaves[i]["count"]
    BY <1>1, <2>1, SumOfOneMore
  <2> QED BY <2>2
<1>6. \A leaf : Known(leaf, R) = (Known(leaf, S) \cup {p[leaf]}) \ {Absent}
  BY <1>0 DEF Known
<1>7. IsLeast(Series!Lower(acc.minimum, p.minimum), Known("minimum", R))
      /\ IsGreatest(Series!Higher(acc.maximum, p.maximum), Known("maximum", R))
  <2>1. /\ Known("minimum", S) \subseteq Int /\ Absent \notin Known("minimum", S)
        /\ Known("maximum", S) \subseteq Int /\ Absent \notin Known("maximum", S)
    BY KnownFacts
  <2>2. (p.minimum = Absent \/ p.minimum \in Int) /\ (p.maximum = Absent \/ p.maximum \in Int)
    BY <1>0, <1>1
  <2>3. IsLeast(acc.minimum, Known("minimum", S)) /\ IsGreatest(acc.maximum, Known("maximum", S))
    BY DEF AddsUp
  <2>4. IsLeast(Series!Lower(acc.minimum, p.minimum), (Known("minimum", S) \cup {p.minimum}) \ {Absent})
    BY <2>1, <2>2, <2>3, OneMoreLeast
  <2>5. IsGreatest(Series!Higher(acc.maximum, p.maximum), (Known("maximum", S) \cup {p.maximum}) \ {Absent})
    BY <2>1, <2>2, <2>3, OneMoreLeast
  <2> QED BY <1>6, <2>4, <2>5
<1>8. /\ acc.folded = Series!Cardinality(S)
      /\ acc.total = IF kind = "extremes" THEN 0 ELSE Series!SumOf("total", S)
      /\ acc.count = IF kind = "averages" THEN Series!SumOf("count", S) ELSE 0
  BY DEF AddsUp
<1>9. /\ new.folded = acc.folded + 1
      /\ new.total = acc.total + (IF kind # "extremes" THEN p.total ELSE 0)
      /\ new.count = acc.count + (IF kind = "averages" THEN p.count ELSE 0)
      /\ new.minimum = Series!Lower(acc.minimum, p.minimum)
      /\ new.maximum = Series!Higher(acc.maximum, p.maximum)
  <2> HIDE DEF new
  <2> QED BY <1>2
<1> HIDE DEF new, p
<1>10. /\ new.folded = Series!Cardinality(R)
       /\ new.total = IF kind = "extremes" THEN 0 ELSE Series!SumOf("total", R)
       /\ new.count = IF kind = "averages" THEN Series!SumOf("count", R) ELSE 0
  BY <1>3, <1>4, <1>5, <1>8, <1>9
<1>11. AddsUp(new, R)
  BY <1>7, <1>9, <1>10 DEF AddsUp
<1> QED BY <1>0, <1>11 DEF new, p

\* Extremes in their order, and an average between them.
Ordered(acc) ==
  /\ acc.total \in Int /\ acc.count \in Nat
  /\ acc.minimum = Absent <=> acc.maximum = Absent
  /\ acc.minimum # Absent =>
       acc.minimum \in Int /\ acc.maximum \in Int /\ acc.minimum <= acc.maximum
  /\ kind = "averages" /\ acc.count = 0 => acc.total = 0
  /\ acc.count > 0 => /\ kind = "averages" /\ acc.minimum # Absent
                      /\ acc.minimum * acc.count <= acc.total
                      /\ acc.total <= acc.maximum * acc.count

\* An average of n with the sum s lies between the two.
Between(low, high, n, s) == low * n <= s /\ s <= high * n

\* Of two averages with their bounds, the average of both.
LEMMA MeanOfBoth ==
  ASSUME NEW a \in Int, NEW b \in Int, NEW n \in Nat, NEW k \in Nat, NEW s \in Int, NEW t \in Int,
         NEW low \in Int, NEW high \in Int,
         n > 0, low <= a, Between(a, b, n, s), b <= high,
         NEW c \in Int, NEW d \in Int, low <= c, d <= high, Between(c, d, k, t)
  PROVE  Between(low, high, n + k, s + t)
<1> USE DEF Between
<1>1. low * k <= c * k /\ d * k <= high * k
  BY Grows
<1>2. low * k \in Int /\ c * k \in Int /\ d * k \in Int /\ high * k \in Int
  OBVIOUS
<1>3. low * n <= s /\ s <= high * n
  <2>1. low * n <= a * n /\ b * n <= high * n
    BY Grows
  <2>2. low * n \in Int /\ a * n \in Int /\ b * n \in Int /\ high * n \in Int
    OBVIOUS
  <2>3. a * n <= s /\ s <= b * n
    OBVIOUS
  <2> QED BY <2>1, <2>2, <2>3
<1>4. low * (n + k) = low * n + low * k /\ high * (n + k) = high * n + high * k
  OBVIOUS
<1>5. low * n \in Int /\ high * n \in Int
  OBVIOUS
<1> QED BY <1>1, <1>2, <1>3, <1>4, <1>5

\* An interval between extremes keeps an accumulator between its own.
LEMMA FoldIsOrdered ==
  ASSUME kind \in Series!Kinds, NEW p, Series!LeafFits(p), NEW acc, Ordered(acc)
  PROVE  Ordered(Series!FoldInterval(acc, p, Aggs))
<1>1. /\ p.count = Absent \/ p.count \in Int
      /\ p.total = Absent \/ p.total \in Int
      /\ p.minimum = Absent \/ p.minimum \in Int
      /\ p.maximum = Absent \/ p.maximum \in Int
  BY DEF Series!LeafFits
<1>2. /\ p.minimum = Absent <=> p.maximum = Absent
      /\ p.minimum # Absent => p.minimum <= p.maximum
      /\ p.total # Absent /\ p.count # Absent /\ p.count > 0 =>
           /\ p.minimum # Absent
           /\ p.minimum * p.count <= p.total /\ p.total <= p.maximum * p.count
  BY DEF Series!LeafFits
<1>3. CASE ~Contributes(p)
  BY <1>1, <1>3, FoldIs
<1>4. CASE Contributes(p)
  <2> DEFINE low == Series!Lower(acc.minimum, p.minimum)
             high == Series!Higher(acc.maximum, p.maximum)
             add == IF kind # "extremes" THEN p.total ELSE 0
             more == IF kind = "averages" THEN p.count ELSE 0
             new == [total |-> acc.total + add, count |-> acc.count + more,
                     minimum |-> low, maximum |-> high, folded |-> acc.folded + 1]
  <2>1. Series!FoldInterval(acc, p, Aggs) = new
    BY <1>1, <1>4, FoldIs
  <2>2. /\ acc.total \in Int /\ acc.count \in Nat
        /\ acc.minimum = Absent <=> acc.maximum = Absent
        /\ acc.minimum # Absent =>
             acc.minimum \in Int /\ acc.maximum \in Int /\ acc.minimum <= acc.maximum
        /\ kind = "averages" /\ acc.count = 0 => acc.total = 0
        /\ acc.count > 0 => kind = "averages" /\ acc.minimum # Absent
    BY DEF Ordered
  <2>3. /\ low = Absent <=> high = Absent
        /\ low = Absent <=> acc.minimum = Absent /\ p.minimum = Absent
        /\ low # Absent => low \in Int /\ high \in Int /\ low <= high
        /\ acc.minimum # Absent => low <= acc.minimum /\ acc.maximum <= high
        /\ p.minimum # Absent => low <= p.minimum /\ p.maximum <= high
    <3>1. CASE acc.minimum = Absent
      <4>1. low = p.minimum /\ high = p.maximum
        BY <2>2, <3>1 DEF Series!Lower, Series!Higher
      <4> HIDE DEF low, high
      <4> QED BY <1>1, <1>2, <3>1, <4>1
    <3>2. CASE acc.minimum # Absent /\ p.minimum = Absent
      <4>1. low = acc.minimum /\ high = acc.maximum
        BY <1>2, <2>2, <3>2 DEF Series!Lower, Series!Higher
      <4> HIDE DEF low, high
      <4> QED BY <2>2, <3>2, <4>1
    <3>3. CASE acc.minimum # Absent /\ p.minimum # Absent
      <4>1. /\ acc.minimum \in Int /\ p.minimum \in Int /\ acc.maximum \in Int /\ p.maximum \in Int
            /\ acc.maximum # Absent /\ p.maximum # Absent
            /\ acc.minimum <= acc.maximum /\ p.minimum <= p.maximum
        BY <1>1, <1>2, <2>2, <3>3
      <4>2. /\ low = IF acc.minimum <= p.minimum THEN acc.minimum ELSE p.minimum
            /\ high = IF acc.maximum <= p.maximum THEN p.maximum ELSE acc.maximum
        BY <3>3, <4>1, OfTwo DEF Series!Lower, Series!Higher
      <4>3. low # Absent /\ high # Absent
        <5> HIDE DEF low, high
        <5> QED BY <3>3, <4>1, <4>2
      <4> HIDE DEF low, high
      <4> QED BY <3>3, <4>1, <4>2, <4>3
    <3> QED BY <3>1, <3>2, <3>3
  <2>4. /\ add \in Int /\ more \in Nat
        /\ kind = "averages" => more > 0 /\ more = p.count /\ add = p.total
        /\ kind # "averages" => more = 0
    BY <1>1, <1>4 DEF Contributes
  <2>5. ASSUME kind = "averages"
        PROVE  /\ low # Absent
               /\ low * (acc.count + more) <= acc.total + add
               /\ acc.total + add <= high * (acc.count + more)
    <3>1. /\ p.minimum # Absent /\ p.minimum * more <= add /\ add <= p.maximum * more
          /\ p.minimum \in Int /\ p.maximum \in Int
      BY <1>1, <1>2, <1>4, <2>4, <2>5 DEF Contributes
    <3>2. /\ low # Absent /\ low \in Int /\ high \in Int
          /\ low <= p.minimum /\ p.maximum <= high
      BY <2>3, <3>1
    <3>3. CASE acc.count = 0
      <4>1. acc.total = 0
        BY <2>2, <2>5, <3>3
      <4> HIDE DEF low, high, add, more
      <4>2. low * more <= p.minimum * more /\ p.maximum * more <= high * more
        BY <2>4, <3>1, <3>2, Grows
      <4>3. /\ low * more \in Int /\ p.minimum * more \in Int
            /\ p.maximum * more \in Int /\ high * more \in Int
        BY <2>4, <3>1, <3>2
      <4>4. low * more <= add /\ add <= high * more
        BY <2>4, <3>1, <4>2, <4>3
      <4>5. acc.count + more = more /\ acc.total + add = add
        BY <2>4, <3>3, <4>1
      <4> QED BY <3>2, <4>4, <4>5
    <3>4. CASE acc.count > 0
      <4>1. /\ acc.minimum # Absent /\ acc.minimum \in Int /\ acc.maximum \in Int
            /\ low <= acc.minimum /\ acc.maximum <= high
        BY <2>2, <2>3, <3>4
      <4>2. acc.minimum * acc.count <= acc.total /\ acc.total <= acc.maximum * acc.count
        BY <3>4 DEF Ordered
      <4> HIDE DEF low, high, add, more
      <4>3. Between(acc.minimum, acc.maximum, acc.count, acc.total)
            /\ Between(p.minimum, p.maximum, more, add)
        BY <3>1, <4>2 DEF Between
      <4>4. acc.total \in Int /\ acc.count \in Nat /\ add \in Int /\ more \in Nat
        BY <2>2, <2>4
      <4>5. Between(low, high, acc.count + more, acc.total + add)
        BY <3>1, <3>2, <3>4, <4>1, <4>3, <4>4, MeanOfBoth
      <4> QED BY <3>2, <4>5 DEF Between
    <3> QED BY <2>2, <3>3, <3>4
  <2>6. /\ new.total = acc.total + add /\ new.count = acc.count + more
        /\ new.minimum = low /\ new.maximum = high
    OBVIOUS
  <2> HIDE DEF low, high, add, more, new
  <2>7. acc.total + add \in Int /\ acc.count + more \in Nat
    BY <2>2, <2>4
  <2>8. /\ kind = "averages" => ~(acc.count + more = 0)
        /\ acc.count + more > 0 => kind = "averages"
    BY <2>2, <2>4
  <2>9. Ordered(new)
    BY <2>3, <2>5, <2>6, <2>7, <2>8 DEF Ordered
  <2> QED BY <2>1, <2>9
<1> QED BY <1>3, <1>4

\* The intervals that belong to the window, to a day, and to an hour of the week.
InWindow == IF excluded THEN {} ELSE {i \in Series!Sample : Series!Sampled(i)}
InDay(d) == {i \in Series!Sample : Series!Sampled(i) /\ leaves[i].stamped /\ Series!DayOf(i) = d}
InHour(c) == {i \in Series!Sample : Series!Sampled(i) /\ leaves[i].stamped /\ Series!CellOf(i) = c}

HasItsDay ==
  \A i \in Series!Sample : Series!Sampled(i) /\ leaves[i].stamped =>
    Series!DayOf(i) \in DOMAIN byDay /\ (excluded \/ Series!CellOf(i) \in DOMAIN byHour)

\* The window, each day and each hour are what their intervals add up to.
SumsInv ==
  /\ kind \in Series!Kinds /\ excluded \in BOOLEAN
  /\ answer \in {"answered", "omitted", "error", "silent"}
  /\ leaves \in [Series!Sample -> Leaves] /\ capacity \in Capacities \cup {Absent}
  /\ pending \subseteq Series!Sample
  /\ \A g \in recorded : g.at \in Series!Sample \cup {Absent}
  /\ finalized = Series!None \/ DOMAIN finalized.derived \subseteq Series!Directions
  /\ AddsUp(window, InWindow) /\ Ordered(window)
  /\ \A d \in DOMAIN byDay : AddsUp(byDay[d], InDay(d))
  /\ \A c \in DOMAIN byHour : AddsUp(byHour[c], InHour(c))
  /\ HasItsDay
  /\ excluded => DOMAIN byHour = {}
  /\ Series!DerivedInOrder

\* An interval was sampled when it was answered, has been folded and contributes.
LEMMA SampledIs ==
  ASSUME kind \in Series!Kinds, NEW i
  PROVE  Series!Sampled(i) <=> answer = "answered" /\ i \notin pending /\ Contributes(leaves[i])
BY AskedFor DEF Series!Sampled, Contributes, Aggs

\* Sums depend on the intervals and the kind of metric alone.
LEMMA AddsUpStays ==
  ASSUME kind' = kind, leaves' = leaves, NEW acc, NEW S, AddsUp(acc, S)
  PROVE  AddsUp(acc, S)'
BY DEF AddsUp, Known, Series!SumOf

\* The order of an accumulator depends on the kind of metric alone.
LEMMA OrderedStays ==
  ASSUME kind' = kind, NEW acc, Ordered(acc)
  PROVE  Ordered(acc)'
BY DEF Ordered

\* The invariant of a step that folds nothing: as long as no interval becomes one that was
\* sampled.
LEMMA NothingFolded ==
  ASSUME SumsInv, UNCHANGED <<kind, excluded, leaves, window, byDay, byHour>>,
         \A i \in Series!Sample : Series!Sampled(i)' <=> Series!Sampled(i)
  PROVE  /\ AddsUp(window, InWindow)' /\ Ordered(window)'
         /\ (\A d \in DOMAIN byDay : AddsUp(byDay[d], InDay(d)))'
         /\ (\A c \in DOMAIN byHour : AddsUp(byHour[c], InHour(c)))'
         /\ HasItsDay'
<1>1. /\ InWindow' = InWindow /\ \A d : InDay(d)' = InDay(d) /\ \A c : InHour(c)' = InHour(c)
  BY DEF InWindow, InDay, InHour
<1>2. AddsUp(window, InWindow)'
  <2>1. PICK w, S : w = window /\ S = InWindow
    OBVIOUS
  <2>2. AddsUp(w, S)'
    BY <2>1, AddsUpStays DEF SumsInv
  <2> QED BY <1>1, <2>1, <2>2
<1>3. Ordered(window)'
  <2>1. PICK w : w = window
    OBVIOUS
  <2>2. Ordered(w)'
    BY <2>1, OrderedStays DEF SumsInv
  <2> QED BY <2>1, <2>2
<1>4. ASSUME NEW d \in DOMAIN byDay' PROVE (AddsUp(byDay[d], InDay(d)))'
  <2>1. PICK a, S : a = byDay[d] /\ S = InDay(d)
    OBVIOUS
  <2>2. AddsUp(a, S)'
    BY <2>1, AddsUpStays DEF SumsInv
  <2> QED BY <1>1, <2>1, <2>2
<1>5. ASSUME NEW c \in DOMAIN byHour' PROVE (AddsUp(byHour[c], InHour(c)))'
  <2>1. PICK a, S : a = byHour[c] /\ S = InHour(c)
    OBVIOUS
  <2>2. AddsUp(a, S)'
    BY <2>1, AddsUpStays DEF SumsInv
  <2> QED BY <1>1, <2>1, <2>2
<1>6. HasItsDay'
  BY DEF SumsInv, HasItsDay
<1> QED BY <1>2, <1>3, <1>4, <1>5, <1>6

\* At the start nothing has been folded.
LEMMA SeriesInit == ASSUME Series!ConstantsFit, Series!Init PROVE SumsInv
<1>1. \A i \in Series!Sample : ~Series!Sampled(i)
  BY DEF Series!Init, Series!Sampled
<1>2. InWindow = {}
  BY <1>1 DEF InWindow
<1>3. DOMAIN byDay = {} /\ DOMAIN byHour = {}
  BY DEF Series!Init, Series!Nothing
<1>4. AddsUp(window, InWindow)
  BY <1>2, EmptyAdds DEF Series!Init
<1>5. Ordered(window)
  BY DEF Series!Init, Series!Empty, Ordered
<1>6. Series!DerivedInOrder
  BY DEF Series!Init, Series!DerivedInOrder
<1> QED BY <1>1, <1>3, <1>4, <1>5, <1>6 DEF SumsInv, Series!Init, HasItsDay

\* A resource or metric that is not answered folds nothing.
LEMMA UnansweredSound == ASSUME SumsInv, Series!Unanswered PROVE SumsInv'
<1>1. /\ answer # "answered" /\ pending' = {}
      /\ UNCHANGED <<kind, excluded, answer, leaves, capacity, window, byDay, byHour, finalized>>
      /\ \A g \in recorded' : g \in recorded \/ g.at = Absent
  BY DEF Series!Unanswered, Series!Gap, SumsInv
<1>2. \A i \in Series!Sample : Series!Sampled(i)' <=> Series!Sampled(i)
  BY <1>1 DEF Series!Sampled
<1>3. /\ AddsUp(window, InWindow)' /\ Ordered(window)'
      /\ (\A d \in DOMAIN byDay : AddsUp(byDay[d], InDay(d)))'
      /\ (\A c \in DOMAIN byHour : AddsUp(byHour[c], InHour(c)))'
      /\ HasItsDay'
  BY <1>1, <1>2, NothingFolded
<1>4. Series!DerivedInOrder'
  BY <1>1 DEF SumsInv, Series!DerivedInOrder
<1> QED BY <1>1, <1>3, <1>4 DEF SumsInv

\* An interval without a leaf that was asked for is folded nowhere.
LEMMA ScreenSound ==
  ASSUME SumsInv, NEW i \in Series!Sample, Series!Screen(i)
  PROVE  SumsInv'
<1>1. /\ answer = "answered" /\ i \in pending /\ pending' = pending \ {i}
      /\ Series!CountsMissing(leaves[i], Aggs)
      /\ UNCHANGED <<kind, excluded, answer, leaves, capacity, window, byDay, byHour, finalized>>
      /\ \A g \in recorded' : g \in recorded \/ g.at = i
  BY DEF Series!Screen, Series!Gap, SumsInv, Aggs
<1>2. ~Contributes(leaves[i])
  BY <1>1, AskedFor DEF Series!CountsMissing, Contributes, SumsInv
<1>3. ASSUME NEW j \in Series!Sample PROVE Series!Sampled(j)' <=> Series!Sampled(j)
  <2>1. Series!Sampled(j) <=> answer = "answered" /\ j \notin pending /\ Contributes(leaves[j])
    BY SampledIs DEF SumsInv
  <2>2. Series!Sampled(j)' <=> answer = "answered" /\ j \notin pending' /\ Contributes(leaves[j])
    <3>1. Series!Sampled(j)' <=>
            /\ answer = "answered" /\ j \notin pending'
            /\ "total" \in Aggs => leaves[j].total # Absent
            /\ "count" \in Aggs => leaves[j].count # Absent /\ leaves[j].count > 0
      BY <1>1 DEF Series!Sampled, Aggs
    <3> QED BY <3>1, AskedFor DEF Contributes, SumsInv
  <2> QED BY <1>1, <1>2, <2>1, <2>2
<1>4. /\ AddsUp(window, InWindow)' /\ Ordered(window)'
      /\ (\A d \in DOMAIN byDay : AddsUp(byDay[d], InDay(d)))'
      /\ (\A c \in DOMAIN byHour : AddsUp(byHour[c], InHour(c)))'
      /\ HasItsDay'
  BY <1>1, <1>3, NothingFolded
<1>5. Series!DerivedInOrder'
  BY <1>1 DEF SumsInv, Series!DerivedInOrder
<1> QED BY <1>1, <1>4, <1>5 DEF SumsInv

\* An accumulator and the intervals it has, when an interval comes to it.
LEMMA OneInterval ==
  ASSUME Series!ConstantsFit, kind \in Series!Kinds, leaves \in [Series!Sample -> Leaves],
         NEW acc, NEW S, S \subseteq Series!Sample, AddsUp(acc, S), NEW i \in Series!Sample \ S,
         \A n \in S : Contributes(leaves[n]),
         NEW R, R = IF Contributes(leaves[i]) THEN S \cup {i} ELSE S
  PROVE  AddsUp(Series!FoldInterval(acc, leaves[i], Aggs), R)
<1>1. CASE Contributes(leaves[i])
  BY <1>1, AddsOne
<1>2. CASE ~Contributes(leaves[i])
  <2>1. leaves[i].count = Absent \/ leaves[i].count \in Int
    BY DEF Series!ConstantsFit, Series!LeafFits
  <2> QED BY <1>2, <2>1, FoldIs
<1> QED BY <1>1, <1>2

\* What is kept under its keys, when an interval has been folded under one of them.
Folded(new, accs, key, p) ==
  /\ DOMAIN new = DOMAIN accs \cup {key}
  /\ \A k \in DOMAIN accs : k # key => new[k] = accs[k]
  /\ new[key] = Series!FoldInterval(IF key \in DOMAIN accs THEN accs[key] ELSE Series!Empty, p, Aggs)

\* Folding under a key touches what is kept under it and nothing else.
LEMMA UnderKey ==
  ASSUME NEW accs, NEW key, NEW p
  PROVE  Folded(Series!FoldUnder(accs, key, p, Aggs), accs, key, p)
BY DEF Series!FoldUnder, Folded

\* An interval is folded into the window, its day and its hour.
LEMMA FoldSound ==
  ASSUME Series!ConstantsFit, SumsInv, NEW i \in Series!Sample, Series!Fold(i)
  PROVE  SumsInv'
<1> DEFINE p == leaves[i]
           day == Series!DayOf(i)
           cell == Series!CellOf(i)
<1>1. /\ answer = "answered" /\ i \in pending /\ pending' = pending \ {i}
      /\ UNCHANGED <<kind, excluded, answer, leaves, capacity, finalized>>
      /\ window' = IF excluded THEN window ELSE Series!FoldInterval(window, p, Aggs)
      /\ \A g \in recorded' : g \in recorded \/ g.at = i
  BY DEF Series!Fold, Series!FoldDay, Series!Gap, SumsInv, Aggs
<1>a. /\ p.stamped => Folded(byDay', byDay, day, p)
      /\ ~p.stamped => byDay' = byDay
      /\ p.stamped /\ ~excluded => Folded(byHour', byHour, cell, p)
      /\ ~p.stamped \/ excluded => byHour' = byHour
  <2>1. /\ byDay' = IF p.stamped THEN Series!FoldUnder(byDay, day, p, Aggs) ELSE byDay
        /\ byHour' = IF p.stamped /\ ~excluded THEN Series!FoldUnder(byHour, cell, p, Aggs) ELSE byHour
    BY DEF Series!Fold, Series!FoldDay, Aggs
  <2>2. /\ Folded(Series!FoldUnder(byDay, day, p, Aggs), byDay, day, p)
        /\ Folded(Series!FoldUnder(byHour, cell, p, Aggs), byHour, cell, p)
    BY UnderKey
  <2> HIDE DEF p, day, cell
  <2> QED BY <2>1, <2>2, Zenon
<1>2. kind \in Series!Kinds /\ leaves \in [Series!Sample -> Leaves]
  BY DEF SumsInv
<1>3. ASSUME NEW j \in Series!Sample
      PROVE  /\ Series!Sampled(j) => Contributes(leaves[j]) /\ j # i
             /\ Series!Sampled(j)' <=> Series!Sampled(j) \/ (j = i /\ Contributes(p))
  <2>1. Series!Sampled(j) <=> answer = "answered" /\ j \notin pending /\ Contributes(leaves[j])
    BY SampledIs DEF SumsInv
  <2>2. Series!Sampled(j)' <=> answer = "answered" /\ j \notin pending' /\ Contributes(leaves[j])
    <3>1. Series!Sampled(j)' <=>
            /\ answer = "answered" /\ j \notin pending'
            /\ "total" \in Aggs => leaves[j].total # Absent
            /\ "count" \in Aggs => leaves[j].count # Absent /\ leaves[j].count > 0
      BY <1>1 DEF Series!Sampled, Aggs
    <3> QED BY <3>1, AskedFor DEF Contributes, SumsInv
  <2> QED BY <1>1, <2>1, <2>2
<1>4. AddsUp(window, InWindow)'
  <2>1. PICK w, S : w = window' /\ S = InWindow'
    OBVIOUS
  <2>2. AddsUp(w, S)
    <3>1. CASE excluded
      <4>1. window' = window /\ S = InWindow
        BY <1>1, <2>1, <3>1 DEF InWindow
      <4> QED BY <2>1, <4>1 DEF SumsInv
    <3>2. CASE ~excluded
      <4>1. PICK old : old = InWindow
        OBVIOUS
      <4>2. old = {j \in Series!Sample : Series!Sampled(j)}
        BY <3>2, <4>1 DEF InWindow
      <4>3. S = {j \in Series!Sample : Series!Sampled(j)'}
        BY <1>1, <2>1, <3>2 DEF InWindow, Series!Sample
      <4>4. /\ old \subseteq Series!Sample /\ i \in Series!Sample \ old
            /\ \A n \in old : Contributes(leaves[n])
            /\ S = IF Contributes(p) THEN old \cup {i} ELSE old
        BY <1>3, <4>2, <4>3
      <4>5. AddsUp(window, old)
        BY <4>1 DEF SumsInv
      <4>6. w = Series!FoldInterval(window, leaves[i], Aggs)
        BY <1>1, <2>1, <3>2
      <4> QED BY <1>2, <4>4, <4>5, <4>6, OneInterval
    <3> QED BY <3>1, <3>2
  <2>3. AddsUp(w, S)'
    BY <1>1, <2>2, AddsUpStays
  <2> QED BY <2>1, <2>3
<1>5. Ordered(window)'
  <2>1. PICK w : w = window'
    OBVIOUS
  <2>2. Series!LeafFits(leaves[i])
    BY <1>2 DEF Series!ConstantsFit
  <2>3. Ordered(w)
    BY <1>1, <1>2, <2>1, <2>2, FoldIsOrdered DEF SumsInv
  <2>4. Ordered(w)'
    BY <1>1, <2>3, OrderedStays
  <2> QED BY <2>1, <2>4
<1>6. ASSUME NEW d \in DOMAIN byDay' PROVE (AddsUp(byDay[d], InDay(d)))'
  <2>1. PICK a, S, old : a = byDay'[d] /\ S = InDay(d)' /\ old = InDay(d)
    OBVIOUS
  <2>2. S = {j \in Series!Sample : Series!Sampled(j)' /\ leaves[j].stamped /\ Series!DayOf(j) = d}
    BY <1>1, <2>1 DEF InDay, Series!Sample, Series!DayOf
  <2>3. old = {j \in Series!Sample : Series!Sampled(j) /\ leaves[j].stamped /\ Series!DayOf(j) = d}
    BY <2>1 DEF InDay
  <2>4. old \subseteq Series!Sample /\ i \in Series!Sample \ old /\ \A n \in old : Contributes(leaves[n])
    BY <1>3, <2>3
  <2>5. AddsUp(a, S)
    <3>1. CASE p.stamped /\ d = day
      <4>1. PICK b : b = IF d \in DOMAIN byDay THEN byDay[d] ELSE Series!Empty
        OBVIOUS
      <4>2. a = Series!FoldInterval(b, leaves[i], Aggs)
        BY <1>1, <1>a, <2>1, <3>1, <4>1 DEF Folded
      <4>3. S = IF Contributes(leaves[i]) THEN old \cup {i} ELSE old
        BY <1>3, <2>2, <2>3, <3>1
      <4>4. AddsUp(b, old)
        <5>1. CASE d \in DOMAIN byDay
          BY <2>1, <4>1, <5>1 DEF SumsInv
        <5>2. CASE d \notin DOMAIN byDay
          <6>1. old = {}
            BY <2>3, <5>2 DEF SumsInv, HasItsDay
          <6> QED BY <4>1, <5>2, <6>1, EmptyAdds
        <5> QED BY <5>1, <5>2
      <4> QED BY <1>2, <2>4, <4>2, <4>3, <4>4, OneInterval
    <3>2. CASE ~(p.stamped /\ d = day)
      <4>1. d \in DOMAIN byDay /\ a = byDay[d]
        BY <1>1, <1>a, <2>1, <3>2 DEF Folded
      <4>2. S = old
        BY <1>3, <2>2, <2>3, <3>2
      <4> QED BY <2>1, <4>1, <4>2 DEF SumsInv
    <3> QED BY <3>1, <3>2
  <2>6. AddsUp(a, S)'
    BY <1>1, <2>5, AddsUpStays
  <2> QED BY <2>1, <2>6
<1>7. ASSUME NEW c \in DOMAIN byHour' PROVE (AddsUp(byHour[c], InHour(c)))'
  <2>1. PICK a, S, old : a = byHour'[c] /\ S = InHour(c)' /\ old = InHour(c)
    OBVIOUS
  <2>2. S = {j \in Series!Sample : Series!Sampled(j)' /\ leaves[j].stamped /\ Series!CellOf(j) = c}
    BY <1>1, <2>1 DEF InHour, Series!Sample, Series!CellOf, Series!DayOf
  <2>3. old = {j \in Series!Sample : Series!Sampled(j) /\ leaves[j].stamped /\ Series!CellOf(j) = c}
    BY <2>1 DEF InHour
  <2>4. old \subseteq Series!Sample /\ i \in Series!Sample \ old /\ \A n \in old : Contributes(leaves[n])
    BY <1>3, <2>3
  <2>5. CASE ~excluded
    <3>1. AddsUp(a, S)
      <4>1. CASE p.stamped /\ c = cell
        <5>1. PICK b : b = IF c \in DOMAIN byHour THEN byHour[c] ELSE Series!Empty
          OBVIOUS
        <5>2. a = Series!FoldInterval(b, leaves[i], Aggs)
          BY <1>1, <1>a, <2>1, <2>5, <4>1, <5>1 DEF Folded
        <5>3. S = IF Contributes(leaves[i]) THEN old \cup {i} ELSE old
          BY <1>3, <2>2, <2>3, <4>1
        <5>4. AddsUp(b, old)
          <6>1. CASE c \in DOMAIN byHour
            BY <2>1, <5>1, <6>1 DEF SumsInv
          <6>2. CASE c \notin DOMAIN byHour
            <7>1. old = {}
              BY <2>3, <2>5, <6>2 DEF SumsInv, HasItsDay
            <7> QED BY <5>1, <6>2, <7>1, EmptyAdds
          <6> QED BY <6>1, <6>2
        <5> QED BY <1>2, <2>4, <5>2, <5>3, <5>4, OneInterval
      <4>2. CASE ~(p.stamped /\ c = cell)
        <5>1. c \in DOMAIN byHour /\ a = byHour[c]
          BY <1>1, <1>a, <2>1, <2>5, <4>2 DEF Folded
        <5>2. S = old
          BY <1>3, <2>2, <2>3, <4>2
        <5> QED BY <2>1, <5>1, <5>2 DEF SumsInv
      <4> QED BY <4>1, <4>2
    <3>2. AddsUp(a, S)'
      BY <1>1, <3>1, AddsUpStays
    <3> QED BY <2>1, <3>2
  <2>6. CASE excluded
    BY <1>a, <2>6 DEF SumsInv
  <2> QED BY <2>5, <2>6
<1>8. HasItsDay'
  <2> SUFFICES ASSUME NEW j \in Series!Sample, Series!Sampled(j)', leaves[j].stamped
               PROVE  /\ Series!DayOf(j) \in DOMAIN byDay'
                      /\ excluded \/ Series!CellOf(j) \in DOMAIN byHour'
    BY <1>1 DEF HasItsDay, Series!Sample, Series!DayOf, Series!CellOf
  <2>1. DOMAIN byDay \subseteq DOMAIN byDay' /\ DOMAIN byHour \subseteq DOMAIN byHour'
    BY <1>a DEF Folded
  <2>2. CASE Series!Sampled(j)
    BY <2>1, <2>2 DEF SumsInv, HasItsDay
  <2>3. CASE j = i
    <3>1. day \in DOMAIN byDay' /\ (excluded \/ cell \in DOMAIN byHour')
      BY <1>a, <2>3 DEF Folded
    <3> QED BY <2>3, <3>1
  <2> QED BY <1>3, <2>2, <2>3
<1>b. excluded' => DOMAIN byHour' = {}
  BY <1>1, <1>a DEF SumsInv
<1>9. Series!DerivedInOrder'
  BY <1>1 DEF SumsInv, Series!DerivedInOrder
<1>10. /\ kind' \in Series!Kinds /\ excluded' \in BOOLEAN
       /\ answer' \in {"answered", "omitted", "error", "silent"}
       /\ leaves' \in [Series!Sample -> Leaves] /\ capacity' \in Capacities \cup {Absent}
       /\ pending' \subseteq Series!Sample
       /\ \A g \in recorded' : g.at \in Series!Sample \cup {Absent}
       /\ finalized' = Series!None \/ DOMAIN finalized'.derived \subseteq Series!Directions
  BY <1>1 DEF SumsInv
<1> QED BY <1>4, <1>5, <1>6, <1>7, <1>8, <1>9, <1>10, <1>b DEF SumsInv

\* The order of the shares that are used, from the order of what is available.
LEMMA LeastUsed ==
  ASSUME NEW c \in Nat, NEW n \in Nat, NEW t \in Int, NEW m \in Int, t <= m * n
  PROVE  (c * 1 - m) * (c * n) <= (c * n - t) * (c * 1)
<1>1. PICK k \in Int : k = m * n
  OBVIOUS
<1>2. PICK q \in Nat : q = c * n
  OBVIOUS
<1>3. (c * 1 - m) * (c * n) = c * (q - k)
  <2>1. m * (c * n) = c * k
    BY <1>1
  <2>2. (c - m) * q = c * q - m * q
    BY <1>2
  <2>3. m * q = c * k /\ c * (q - k) = c * q - c * k
    BY <1>1, <1>2, <2>1
  <2> QED BY <1>2, <2>2, <2>3
<1>4. (c * n - t) * (c * 1) = c * (q - t)
  BY <1>2
<1>5. (q - k) * c <= (q - t) * c
  BY <1>1, <1>2, Grows
<1> QED BY <1>3, <1>4, <1>5

\* The other side: what is used of a capacity is most where what is available is least.
LEMMA MostUsed ==
  ASSUME NEW c \in Nat, NEW n \in Nat, NEW t \in Int, NEW m \in Int, m * n <= t
  PROVE  (c * n - t) * (c * 1) <= (c * 1 - m) * (c * n)
<1>1. PICK k \in Int : k = m * n
  OBVIOUS
<1>2. PICK q \in Nat : q = c * n
  OBVIOUS
<1>3. (c * 1 - m) * (c * n) = c * (q - k)
  <2>1. m * (c * n) = c * k
    BY <1>1
  <2>2. (c - m) * q = c * q - m * q
    BY <1>2
  <2>3. m * q = c * k /\ c * (q - k) = c * q - c * k
    BY <1>1, <1>2, <2>1
  <2> QED BY <1>2, <2>2, <2>3
<1>4. (c * n - t) * (c * 1) = c * (q - t)
  BY <1>2
<1>5. (q - t) * c <= (q - k) * c
  BY <1>1, <1>2, Grows
<1> QED BY <1>3, <1>4, <1>5

\* The statistics an accumulator has.
LEMMA StatisticsAre ==
  ASSUME NEW acc
  PROVE  /\ "avg" \in DOMAIN Series!Statistics(acc) <=> acc.count > 0
         /\ "min" \in DOMAIN Series!Statistics(acc) <=> acc.minimum # Absent
         /\ "max" \in DOMAIN Series!Statistics(acc) <=> acc.maximum # Absent
         /\ acc.count > 0 => Series!Statistics(acc)["avg"] = <<acc.total, acc.count>>
         /\ acc.minimum # Absent => Series!Statistics(acc)["min"] = <<acc.minimum, 1>>
         /\ acc.maximum # Absent => Series!Statistics(acc)["max"] = <<acc.maximum, 1>>
BY DEF Series!Statistics

\* A derived value is the used share of its source, and a percentage.
LEMMA DerivedAre ==
  ASSUME NEW result, NEW d \in DOMAIN Series!Derive(result).values
  PROVE  /\ capacity \notin {Absent, 0} /\ d \in Series!Directions
         /\ Series!SourceOf(d) \in DOMAIN result
         /\ Series!Derive(result).values[d] = Series!Used(result[Series!SourceOf(d)])
         /\ Series!IsPercent(Series!Derive(result).values[d])
BY DEF Series!Derive, Series!Nothing

\* Values in their order.
SharesInOrder(v) ==
  /\ DOMAIN v \subseteq Series!Directions
  /\ \A d \in DOMAIN v : Series!IsPercent(v[d])
  /\ \A a, b \in DOMAIN v : <<a, b>> \in {<<"min", "avg">>, <<"avg", "max">>, <<"min", "max">>}
       => Series!AtMost(v[a], v[b])

\* The values derived from an accumulator in its order are in theirs.
LEMMA DerivedOrdered ==
  ASSUME Series!ConstantsFit, capacity \in Capacities \cup {Absent}, NEW acc, Ordered(acc)
  PROVE  SharesInOrder(Series!Derive(Series!Statistics(acc)).values)
<1>1. PICK result : result = Series!Statistics(acc)
  OBVIOUS
<1>2. PICK v : v = Series!Derive(result).values
  OBVIOUS
<1>3. \A d \in DOMAIN v : /\ capacity \notin {Absent, 0} /\ d \in Series!Directions
                          /\ Series!SourceOf(d) \in DOMAIN result
                          /\ v[d] = Series!Used(result[Series!SourceOf(d)])
                          /\ Series!IsPercent(v[d])
  BY <1>2, DerivedAre
<1>4. PICK c : c = capacity
  OBVIOUS
<1>5. \A d \in DOMAIN v : c \in Nat
  BY <1>3, <1>4 DEF Series!ConstantsFit
<1>6. /\ "avg" \in DOMAIN v => /\ acc.count > 0
                               /\ v["avg"] = <<c * acc.count - acc.total, c * acc.count>>
      /\ "min" \in DOMAIN v => /\ acc.maximum # Absent
                               /\ v["min"] = <<c * 1 - acc.maximum, c * 1>>
      /\ "max" \in DOMAIN v => /\ acc.minimum # Absent
                               /\ v["max"] = <<c * 1 - acc.minimum, c * 1>>
  <2>1. /\ "avg" \in DOMAIN v => "avg" \in DOMAIN result /\ v["avg"] = Series!Used(result["avg"])
        /\ "min" \in DOMAIN v => "max" \in DOMAIN result /\ v["min"] = Series!Used(result["max"])
        /\ "max" \in DOMAIN v => "min" \in DOMAIN result /\ v["max"] = Series!Used(result["min"])
    BY <1>3 DEF Series!SourceOf
  <2>2. /\ "avg" \in DOMAIN v => acc.count > 0 /\ v["avg"] = Series!Used(<<acc.total, acc.count>>)
        /\ "min" \in DOMAIN v => acc.maximum # Absent /\ v["min"] = Series!Used(<<acc.maximum, 1>>)
        /\ "max" \in DOMAIN v => acc.minimum # Absent /\ v["max"] = Series!Used(<<acc.minimum, 1>>)
    BY <1>1, <2>1, StatisticsAre
  <2> QED BY <1>4, <2>2 DEF Series!Used
<1>7. /\ acc.total \in Int /\ acc.count \in Nat
      /\ acc.minimum # Absent =>
           acc.minimum \in Int /\ acc.maximum \in Int /\ acc.minimum <= acc.maximum
      /\ acc.maximum # Absent => acc.minimum # Absent
      /\ acc.count > 0 => /\ acc.minimum # Absent
                          /\ acc.minimum * acc.count <= acc.total
                          /\ acc.total <= acc.maximum * acc.count
  BY DEF Ordered
<1>8. "min" \in DOMAIN v /\ "avg" \in DOMAIN v => Series!AtMost(v["min"], v["avg"])
  <2> HAVE "min" \in DOMAIN v /\ "avg" \in DOMAIN v
  <2>1. c \in Nat /\ acc.maximum \in Int /\ acc.total <= acc.maximum * acc.count
    BY <1>5, <1>6, <1>7
  <2>2. (c * 1 - acc.maximum) * (c * acc.count) <= (c * acc.count - acc.total) * (c * 1)
    BY <1>7, <2>1, LeastUsed
  <2> QED BY <1>6, <2>2 DEF Series!AtMost
<1>9. "avg" \in DOMAIN v /\ "max" \in DOMAIN v => Series!AtMost(v["avg"], v["max"])
  <2> HAVE "avg" \in DOMAIN v /\ "max" \in DOMAIN v
  <2>1. c \in Nat /\ acc.minimum \in Int /\ acc.minimum * acc.count <= acc.total
    BY <1>5, <1>6, <1>7
  <2>2. (c * acc.count - acc.total) * (c * 1) <= (c * 1 - acc.minimum) * (c * acc.count)
    BY <1>7, <2>1, MostUsed
  <2> QED BY <1>6, <2>2 DEF Series!AtMost
<1>10. "min" \in DOMAIN v /\ "max" \in DOMAIN v => Series!AtMost(v["min"], v["max"])
  <2> HAVE "min" \in DOMAIN v /\ "max" \in DOMAIN v
  <2>1. c \in Nat /\ acc.minimum \in Int /\ acc.maximum \in Int /\ acc.minimum <= acc.maximum
    BY <1>5, <1>6, <1>7
  <2>2. (c * 1 - acc.maximum) * (c * 1) <= (c * 1 - acc.minimum) * (c * 1)
    BY <2>1, Grows
  <2> QED BY <1>6, <2>2 DEF Series!AtMost
<1>11. SharesInOrder(v)
  <2>1. DOMAIN v \subseteq Series!Directions /\ \A d \in DOMAIN v : Series!IsPercent(v[d])
    BY <1>3
  <2> QED BY <1>8, <1>9, <1>10, <2>1, Zenon DEF SharesInOrder
<1> QED BY <1>1, <1>2, <1>11

\* The statistics and the derived values.
LEMMA FinalizeSound ==
  ASSUME Series!ConstantsFit, SumsInv, Series!FinalizeNothing \/ Series!Finalize
  PROVE  SumsInv'
<1>1. PICK v, more, result :
        /\ Series!Close(result, v, more) /\ SharesInOrder(v)
        /\ \A g \in more : g.at = Absent
  <2>1. CASE Series!FinalizeNothing
    <3>1. SharesInOrder(Series!Nothing)
      BY DEF SharesInOrder, Series!Nothing
    <3>2. \A g \in (IF excluded THEN {} ELSE {Series!Gap("no_samples", Absent)}) : g.at = Absent
      BY DEF Series!Gap
    <3> QED BY <2>1, <3>1, <3>2 DEF Series!FinalizeNothing
  <2>2. CASE Series!Finalize
    <3>1. SharesInOrder(Series!Derive(Series!Statistics(window)).values)
      <4>1. PICK w : w = window
        OBVIOUS
      <4> QED BY <4>1, DerivedOrdered DEF SumsInv
    <3>2. \A g \in Series!Derive(Series!Statistics(window)).gaps : g.at = Absent
      BY DEF Series!Derive, Series!Gap
    <3> QED BY <2>2, <3>1, <3>2 DEF Series!Finalize
  <2> QED BY <2>1, <2>2
<1>2. /\ UNCHANGED <<kind, excluded, answer, leaves, capacity, pending, window, byDay, byHour>>
      /\ finalized' = [state |-> "given", statistics |-> result, derived |-> v]
      /\ recorded' = recorded \cup more
  BY <1>1 DEF Series!Close
<1>3. \A i \in Series!Sample : Series!Sampled(i)' <=> Series!Sampled(i)
  BY <1>2 DEF Series!Sampled
<1>4. /\ AddsUp(window, InWindow)' /\ Ordered(window)'
      /\ (\A d \in DOMAIN byDay : AddsUp(byDay[d], InDay(d)))'
      /\ (\A c \in DOMAIN byHour : AddsUp(byHour[c], InHour(c)))'
      /\ HasItsDay'
  BY <1>2, <1>3, NothingFolded
<1>5. finalized'.derived = v
  BY <1>2
<1>6. Series!DerivedInOrder'
  BY <1>1, <1>5 DEF Series!DerivedInOrder, SharesInOrder
<1>7. DOMAIN finalized'.derived \subseteq Series!Directions
  BY <1>1, <1>5 DEF SharesInOrder
<1>8. \A g \in recorded' : g.at \in Series!Sample \cup {Absent}
  BY <1>1, <1>2 DEF SumsInv
<1> QED BY <1>2, <1>4, <1>6, <1>7, <1>8 DEF SumsInv

\* Every step keeps the invariant.
LEMMA SeriesStep ==
  ASSUME Series!ConstantsFit, SumsInv, [Series!Next]_(Series!vars)
  PROVE  SumsInv'
<1>1. CASE Series!Unanswered
  BY <1>1, UnansweredSound
<1>2. ASSUME NEW i \in Series!Sample, Series!Screen(i) PROVE SumsInv'
  BY <1>2, ScreenSound
<1>3. ASSUME NEW i \in Series!Sample, Series!Fold(i) PROVE SumsInv'
  BY <1>3, FoldSound
<1>4. CASE Series!FinalizeNothing \/ Series!Finalize
  BY <1>4, FinalizeSound
<1>5. CASE UNCHANGED Series!vars
  <2>1. UNCHANGED <<kind, excluded, answer, leaves, capacity, pending, window, byDay, byHour,
                    recorded, finalized>>
    BY <1>5 DEF Series!vars
  <2>2. \A i \in Series!Sample : Series!Sampled(i)' <=> Series!Sampled(i)
    BY <2>1 DEF Series!Sampled
  <2>3. /\ AddsUp(window, InWindow)' /\ Ordered(window)'
        /\ (\A d \in DOMAIN byDay : AddsUp(byDay[d], InDay(d)))'
        /\ (\A c \in DOMAIN byHour : AddsUp(byHour[c], InHour(c)))'
        /\ HasItsDay'
    BY <2>1, <2>2, NothingFolded
  <2>4. Series!DerivedInOrder'
    BY <2>1 DEF SumsInv, Series!DerivedInOrder
  <2> QED BY <2>1, <2>3, <2>4 DEF SumsInv
<1> QED BY <1>1, <1>2, <1>3, <1>4, <1>5 DEF Series!Next

\* What the invariant says of the figures.
LEMMA SumsHold ==
  ASSUME Series!ConstantsFit, SumsInv
  PROVE  Series!TypeOK /\ Series!FoldsAgree /\ Series!DerivedInOrder
<1>1. Series!FoldsAgree
  <2>1. Series!Adds(window, IF excluded THEN {} ELSE {i \in Series!Sample : Series!Sampled(i)})
    <3>1. PICK w, S : w = window /\ S = InWindow
      OBVIOUS
    <3>2. S \subseteq Series!Sample
      BY <3>1 DEF InWindow
    <3>3. Series!Adds(w, S)
      BY <3>1, <3>2, UpIsAdds DEF SumsInv
    <3> QED BY <3>1, <3>3 DEF InWindow
  <2>2. ASSUME NEW d \in DOMAIN byDay PROVE Series!Adds(byDay[d], InDay(d))
    <3>1. PICK a, S : a = byDay[d] /\ S = InDay(d)
      OBVIOUS
    <3>2. S \subseteq Series!Sample
      BY <3>1 DEF InDay
    <3>3. Series!Adds(a, S)
      BY <3>1, <3>2, UpIsAdds DEF SumsInv
    <3> QED BY <3>1, <3>3
  <2>3. ASSUME NEW c \in DOMAIN byHour PROVE Series!Adds(byHour[c], InHour(c))
    <3>1. PICK a, S : a = byHour[c] /\ S = InHour(c)
      OBVIOUS
    <3>2. S \subseteq Series!Sample
      BY <3>1 DEF InHour
    <3>3. Series!Adds(a, S)
      BY <3>1, <3>2, UpIsAdds DEF SumsInv
    <3> QED BY <3>1, <3>3
  <2>4. \A i \in Series!Sample : Series!Sampled(i) /\ leaves[i].stamped =>
          Series!DayOf(i) \in DOMAIN byDay /\ (excluded \/ Series!CellOf(i) \in DOMAIN byHour)
    BY DEF SumsInv, HasItsDay
  <2> QED BY <2>1, <2>2, <2>3, <2>4, Zenon DEF Series!FoldsAgree, InDay, InHour
<1>2. window.folded \in 0 .. Series!Cardinality(Series!Sample)
  <2>1. PICK S : S = InWindow
    OBVIOUS
  <2>2. S \subseteq Series!Sample /\ window.folded = Series!Cardinality(S)
    BY <2>1 DEF InWindow, SumsInv, AddsUp
  <2>3. Series!Sample = 1 .. Len(Starts) /\ Len(Starts) \in Nat
    BY DEF Series!Sample, Series!ConstantsFit
  <2>4. IsFiniteSet(Series!Sample)
    BY <2>3, FS_Interval
  <2>5. IsFiniteSet(S) /\ Cardinality(S) <= Cardinality(Series!Sample)
    BY <2>2, <2>4, FS_Subset
  <2>6. Cardinality(S) \in Nat /\ Cardinality(Series!Sample) \in Nat
    BY <2>4, <2>5, FS_CardinalityType
  <2> QED BY <2>2, <2>5, <2>6, SizesOfSeries DEF SeriesSizes
<1> QED BY <1>1, <1>2 DEF SumsInv, Series!TypeOK

\* Whatever order the intervals of a metric come in, the window, every local day and every
\* hour of the week hold exactly what their intervals add up to, and what is derived of it
\* is a share of the capacity, in its order.
THEOREM SeriesIsSummed ==
  ASSUME Series!ConstantsFit
  PROVE  Series!Spec => [](Series!TypeOK /\ Series!FoldsAgree /\ Series!DerivedInOrder)
<1>1. Series!Init => SumsInv
  BY SeriesInit
<1>2. SumsInv /\ [Series!Next]_(Series!vars) => SumsInv'
  BY SeriesStep
<1>3. SumsInv => Series!TypeOK /\ Series!FoldsAgree /\ Series!DerivedInOrder
  BY SumsHold
<1> QED BY <1>1, <1>2, <1>3, PTL DEF Series!Spec

-------------------------------------------------------------------------------
(***************************************************************************)
(* Which prior runs a trend plots.  The sweep keeps, of what hangs together*)
(* by overlaps, the newest: what it has swept ends before the latest that is*)
(* kept does, so a run that starts later than that touches nothing of it.  *)
(***************************************************************************)

\* The candidates as they are queried: the newer a run, the later its period ends.
Queried ==
  /\ prior \in [Selection!Run -> Selection!Candidate]
  /\ \A i, j \in Selection!Run : i < j => prior[i].end >= prior[j].end

\* Periods have their days in order, and the newer run the later end.
LEMMA PeriodFacts ==
  ASSUME Selection!ConstantsFit, Queried
  PROVE  /\ Selection!Verified \subseteq 1 .. Runs /\ Runs \in Nat
         /\ \A i \in Selection!Verified : /\ i \in Nat /\ i <= Runs
                                  /\ prior[i].start \in Nat /\ prior[i].end \in Nat
                                  /\ prior[i].start <= prior[i].end
         /\ \A i, j \in Selection!Verified : i < j => prior[j].end <= prior[i].end
<1>1. Selection!Run = 1 .. Runs /\ Runs \in Nat /\ Days \in Nat
  BY DEF Selection!Run, Selection!ConstantsFit
<1>2. Selection!Verified \subseteq Selection!Run
  BY DEF Selection!Verified
<1>3. ASSUME NEW i \in Selection!Verified
      PROVE  /\ i \in Nat /\ i <= Runs
             /\ prior[i].start \in Nat /\ prior[i].end \in Nat /\ prior[i].start <= prior[i].end
  <2>1. i \in 1 .. Runs
    BY <1>1, <1>2
  <2>2. prior[i] \in Selection!Candidate
    BY <1>2 DEF Queried
  <2>3. prior[i].start \in 1 .. Days /\ prior[i].end \in 1 .. Days /\ prior[i].start <= prior[i].end
    BY <2>2 DEF Selection!Candidate
  <2> QED BY <1>1, <2>1, <2>3
<1>4. ASSUME NEW i \in Selection!Verified, NEW j \in Selection!Verified, i < j
      PROVE  prior[j].end <= prior[i].end
  <2>1. prior[i].end >= prior[j].end
    BY <1>2, <1>4 DEF Queried
  <2> QED BY <1>3, <2>1
<1> QED BY <1>1, <1>2, <1>3, <1>4

\* Of some runs there is one to sweep first.
LEMMA FirstIs ==
  ASSUME Selection!ConstantsFit, Queried, NEW S, S \subseteq Selection!Verified, S # {}
  PROVE  /\ Selection!First(S) \in S
         /\ \A j \in S \ {Selection!First(S)} : Selection!StartsBefore(Selection!First(S), j)
<1> DEFINE starts == {prior[i].start : i \in S}
<1>1. \A i \in S : i \in Nat /\ i <= Runs /\ prior[i].start \in Nat
  BY PeriodFacts
<1>0. Runs \in Nat
  BY PeriodFacts
<1>2. starts \subseteq Nat /\ starts # {}
  BY <1>1
<1>3. PICK a \in starts : \A b \in starts : a <= b
  <2> HIDE DEF starts
  <2> QED BY <1>2, LeastNat
<1> DEFINE early == {i \in S : prior[i].start = a}
           rest == {Runs - i : i \in early}
<1>4. rest \subseteq Nat /\ rest # {}
  <2>1. \A i \in early : Runs - i \in Nat
    BY <1>0, <1>1
  <2>2. early # {}
    BY <1>3
  <2> QED BY <2>1, <2>2
<1>5. PICK r \in rest : \A q \in rest : r <= q
  <2> HIDE DEF rest
  <2> QED BY <1>4, LeastNat
<1>6. PICK i \in early : r = Runs - i
  BY <1>5
<1>7. ASSUME NEW j \in S \ {i} PROVE Selection!StartsBefore(i, j)
  <2>1. a <= prior[j].start /\ prior[i].start = a
    BY <1>3, <1>6
  <2>2. /\ a \in Nat /\ prior[j].start \in Nat /\ i \in Nat /\ j \in Nat /\ i <= Runs
        /\ j <= Runs /\ i # j
    BY <1>1, <1>2, <1>3, <1>6
  <2>3. CASE prior[j].start = a
    <3>1. r <= Runs - j
      BY <1>5, <2>3
    <3>2. j < i
      BY <1>0, <1>6, <2>2, <3>1
    <3> QED BY <2>1, <2>3, <3>2 DEF Selection!StartsBefore, Selection!Newer
  <2>4. CASE prior[j].start # a
    <3>1. a < prior[j].start
      BY <2>1, <2>2, <2>4
    <3> QED BY <2>1, <3>1 DEF Selection!StartsBefore
  <2> QED BY <2>3, <2>4
<1>8. i \in S
  BY <1>6
<1> HIDE DEF starts, early, rest
<1>9. PICK k : k = Selection!First(S)
  OBVIOUS
<1>10. k \in S /\ \A j \in S \ {k} : Selection!StartsBefore(k, j)
  BY <1>7, <1>8, <1>9 DEF Selection!First
<1> QED BY <1>9, <1>10

\* What hangs together, what is closed under it, and a run that is the newest of such a set.
Closed(S) ==
  /\ S \subseteq Selection!Verified
  /\ \A x \in S, y \in Selection!Verified : Selection!Touching(x, y) => y \in S
Stands(i) == \E S : Closed(S) /\ i \in S /\ \A j \in S : i <= j
Beaten(i) == \E j \in Selection!Verified : j < i /\ Selection!Together(i, j)

\* The newest of a set that nothing outside touches is together with none newer.
LEMMA StandsUnbeaten ==
  ASSUME Queried, Selection!ConstantsFit, NEW i \in Selection!Verified, Stands(i)
  PROVE  ~Beaten(i)
<1> SUFFICES ASSUME NEW j \in Selection!Verified, j < i, Selection!Together(i, j) PROVE FALSE
  BY DEF Beaten
<1>1. PICK S : Closed(S) /\ i \in S /\ \A k \in S : i <= k
  BY DEF Stands
<1>2. j \in S
  BY <1>1 DEF Selection!Together, Closed
<1>3. i \in Nat /\ j \in Nat
  BY PeriodFacts
<1> QED BY <1>1, <1>2, <1>3

\* Two that touch hang together.
LEMMA TouchingIsTogether ==
  ASSUME NEW i \in Selection!Verified, NEW j \in Selection!Verified, Selection!Touching(i, j)
  PROVE  Selection!Together(i, j)
BY DEF Selection!Together

\* The runs swept so far are those that start first; each of them that is not retained is
\* beaten, and each that is retained stands, but for the latest, which is the newest of
\* those that nothing before them touches.
Lead(i, block, done) ==
  /\ block \subseteq done /\ i \in block /\ \A j \in block : i <= j
  /\ \A j \in done \ block : \A k \in block : prior[j].end < prior[k].start

SweepInv(kept, left) ==
  /\ kept \in Seq(Selection!Verified) /\ left \subseteq Selection!Verified
  /\ \A i \in Selection!Verified \ left : \A j \in left : prior[i].start <= prior[j].start
  /\ \A k \in 1 .. Len(kept) : kept[k] \notin left
  /\ kept = <<>> <=> Selection!Verified \ left = {}
  /\ \A k \in 1 .. Len(kept) - 1 : Stands(kept[k])
  /\ kept # <<>> => \E block : Lead(kept[Len(kept)], block, Selection!Verified \ left)
  /\ \A i \in Selection!Verified \ left : (\A k \in 1 .. Len(kept) : kept[k] # i) => Beaten(i)

\* Whatever is swept ends before the latest that is retained does.
LEMMA LeadEndsLast ==
  ASSUME Selection!ConstantsFit, Queried, NEW i, NEW block, NEW done, done \subseteq Selection!Verified,
         Lead(i, block, done)
  PROVE  /\ i \in Selection!Verified
         /\ \A j \in done : prior[j].end <= prior[i].end
<1>1. i \in Selection!Verified
  BY DEF Lead
<1>2. ASSUME NEW j \in done PROVE prior[j].end <= prior[i].end
  <2>1. /\ i \in Nat /\ j \in Nat /\ prior[i].start \in Nat /\ prior[i].end \in Nat
        /\ prior[i].start <= prior[i].end /\ prior[j].end \in Nat
    BY <1>1, PeriodFacts
  <2>2. CASE j \in block
    <3>1. i <= j
      BY <2>2 DEF Lead
    <3>2. i < j => prior[j].end <= prior[i].end
      BY <1>1, PeriodFacts
    <3>3. i = j \/ i < j
      BY <2>1, <3>1
    <3> QED BY <2>1, <3>2, <3>3
  <2>3. CASE j \notin block
    <3>1. prior[j].end < prior[i].start
      BY <2>3 DEF Lead
    <3> QED BY <2>1, <3>1
  <2> QED BY <2>2, <2>3
<1> QED BY <1>1, <1>2

\* The latest stands when the next run to sweep starts after its end.
LEMMA LeadSettles ==
  ASSUME Selection!ConstantsFit, Queried, NEW i, NEW block, NEW left, left \subseteq Selection!Verified,
         Lead(i, block, Selection!Verified \ left), \A j \in left : prior[i].end < prior[j].start
  PROVE  Stands(i)
<1>1. block \subseteq Selection!Verified /\ i \in block /\ \A j \in block : i <= j
  BY DEF Lead
<1>2. ASSUME NEW x \in block, NEW y \in Selection!Verified, Selection!Touching(x, y) PROVE y \in block
  <2>1. /\ x \in Selection!Verified /\ x \in Selection!Verified \ left
        /\ prior[x].start <= prior[y].end /\ prior[y].start <= prior[x].end
    BY <1>2 DEF Lead, Selection!Touching
  <2>2. /\ i \in Selection!Verified /\ prior[x].end <= prior[i].end
    BY <2>1, LeadEndsLast
  <2>3. /\ prior[x].start \in Nat /\ prior[x].end \in Nat /\ prior[y].start \in Nat
        /\ prior[y].end \in Nat /\ prior[i].end \in Nat
    BY <2>1, <2>2, PeriodFacts
  <2>4. y \notin left
    <3> SUFFICES ASSUME y \in left PROVE FALSE
      OBVIOUS
    <3>1. prior[i].end < prior[y].start
      OBVIOUS
    <3> QED BY <2>1, <2>2, <2>3, <3>1
  <2>5. ~(prior[y].end < prior[x].start)
    BY <2>1, <2>3
  <2> QED BY <2>4, <2>5 DEF Lead
<1> QED BY <1>1, <1>2 DEF Stands, Closed

\* One run is swept.
LEMMA SweepStep ==
  ASSUME Selection!ConstantsFit, Queried, NEW kept, NEW left, SweepInv(kept, left),
         NEW c \in left, \A j \in left \ {c} : Selection!StartsBefore(c, j)
  PROVE  SweepInv(Selection!Sweep(kept, c), left \ {c})
<1> DEFINE V == Selection!Verified
           done == V \ left
           n == Len(kept)
           last == kept[n]
<1>1. PICK new, rest : new = Selection!Sweep(kept, c) /\ rest = left \ {c}
  OBVIOUS
<1>2. kept \in Seq(V) /\ n \in Nat /\ c \in V /\ left \subseteq V /\ rest \subseteq V
      /\ (n = 0 <=> kept = <<>>)
  BY <1>1 DEF SweepInv
<1>3. V \ rest = done \cup {c} /\ c \notin done
  BY <1>1, <1>2
<1>4. \A i \in done : prior[i].start <= prior[c].start
  BY DEF SweepInv
<1>5. \A j \in rest : prior[c].start <= prior[j].start
  <2> SUFFICES ASSUME NEW j \in rest PROVE prior[c].start <= prior[j].start
    OBVIOUS
  <2>1. Selection!StartsBefore(c, j) /\ j \in V
    BY <1>1, <1>2
  <2>2. prior[c].start \in Nat /\ prior[j].start \in Nat
    BY <1>2, <2>1, PeriodFacts
  <2> QED BY <2>1, <2>2 DEF Selection!StartsBefore
<1>6. \A i \in V \ rest : \A j \in rest : prior[i].start <= prior[j].start
  <2>1. \A i \in done : \A j \in rest : prior[i].start <= prior[j].start
    BY <1>1 DEF SweepInv
  <2> QED BY <1>3, <1>5, <2>1
<1>7. /\ \A k \in 1 .. n : kept[k] \in V /\ kept[k] \notin left
      /\ \A k \in 1 .. n - 1 : Stands(kept[k])
      /\ \A i \in done : (\A k \in 1 .. n : kept[k] # i) => Beaten(i)
  BY <1>2 DEF SweepInv
<1>8. CASE kept = <<>>
  <2>1. new = <<c>> /\ done = {}
    BY <1>1, <1>8 DEF Selection!Sweep, SweepInv
  <2>2. new \in Seq(V) /\ Len(new) = 1 /\ new[1] = c /\ new # <<>>
    BY <1>2, <2>1
  <2>3. Lead(c, {c}, V \ rest)
    <3>1. c \in Nat
      BY <1>2, PeriodFacts
    <3> QED BY <1>3, <2>1, <3>1 DEF Lead
  <2>4. /\ \A k \in 1 .. 1 : k = 1 /\ 1 .. 1 - 1 = {} /\ c \notin rest
    BY <1>1
  <2>5. V \ rest = {c}
    BY <1>3, <2>1
  <2> HIDE DEF V, done, n, last
  <2>6. SweepInv(new, rest)
    BY <1>1, <1>2, <1>6, <2>2, <2>3, <2>4, <2>5 DEF SweepInv, V
  <2> QED BY <1>1, <2>6
<1>9. ASSUME kept # <<>> PROVE SweepInv(new, rest)
  <2>1. n \in 1 .. n /\ last \in V /\ last \in done /\ last # c
    BY <1>2, <1>7, <1>9
  <2>2. PICK block : Lead(last, block, done)
    BY <1>9 DEF SweepInv
  <2>3. /\ \A i \in done : prior[i].end <= prior[last].end
    BY <2>2, LeadEndsLast
  <2>4. \A i \in V : /\ i \in Nat /\ prior[i].start \in Nat /\ prior[i].end \in Nat
                     /\ prior[i].start <= prior[i].end
    BY PeriodFacts
  <2>5. ASSUME ~Selection!Overlaps(last, c) PROVE SweepInv(new, rest)
    <3>1. new = Append(kept, c)
      BY <1>1, <1>9, <2>5 DEF Selection!Sweep, Selection!Latest
    <3>2. /\ new \in Seq(V) /\ Len(new) = n + 1 /\ new[n + 1] = c /\ new # <<>>
          /\ \A k \in 1 .. n : new[k] = kept[k]
      BY <1>2, <3>1
    <3>3. prior[last].end < prior[c].start
      BY <1>2, <2>1, <2>4, <2>5 DEF Selection!Overlaps
    <3>4. Stands(last)
      <4>1. ASSUME NEW j \in left PROVE prior[last].end < prior[j].start
        <5>1. prior[c].start <= prior[j].start
          BY <1>1, <1>2, <1>5, <2>4
        <5>2. prior[last].end \in Nat /\ prior[c].start \in Nat /\ prior[j].start \in Nat
          BY <1>2, <2>1, <2>4
        <5> QED BY <3>3, <5>1, <5>2
      <4>2. PICK i : i = last
        OBVIOUS
      <4> QED BY <1>2, <2>2, <4>1, <4>2, LeadSettles
    <3>5. \A k \in 1 .. n : Stands(new[k])
      <4> SUFFICES ASSUME NEW k \in 1 .. n PROVE Stands(new[k])
        OBVIOUS
      <4>1. k = n \/ k \in 1 .. n - 1
        BY <1>2
      <4> QED BY <1>7, <3>2, <3>4, <4>1
    <3>6. Lead(c, {c}, V \ rest)
      <4>1. \A j \in done : prior[j].end < prior[c].start
        BY <1>2, <2>1, <2>3, <2>4, <3>3
      <4> QED BY <1>2, <1>3, <2>4, <4>1 DEF Lead
    <3>7. \A i \in V \ rest : (\A k \in 1 .. n + 1 : new[k] # i) => Beaten(i)
      <4> SUFFICES ASSUME NEW i \in V \ rest, \A k \in 1 .. n + 1 : new[k] # i PROVE Beaten(i)
        OBVIOUS
      <4>1. i # c /\ \A k \in 1 .. n : kept[k] # i
        BY <1>2, <3>2
      <4> QED BY <1>3, <1>7, <4>1
    <3>8. \A k \in 1 .. n + 1 : new[k] \notin rest
      <4> SUFFICES ASSUME NEW k \in 1 .. n + 1 PROVE new[k] \notin rest
        OBVIOUS
      <4>1. k = n + 1 \/ k \in 1 .. n
        BY <1>2
      <4> QED BY <1>1, <1>7, <3>2, <4>1
    <3>9. n + 1 - 1 = n
      BY <1>2
    <3> HIDE DEF V, done, n, last
    <3> QED BY <1>2, <1>3, <1>6, <3>2, <3>5, <3>6, <3>7, <3>8, <3>9 DEF SweepInv, V
  <2>6. ASSUME Selection!Overlaps(last, c) PROVE SweepInv(new, rest)
    <3>1. prior[c].start <= prior[last].end
      BY <2>6 DEF Selection!Overlaps
    <3>2. Selection!Touching(c, last) /\ Selection!Touching(last, c)
      <4>1. prior[last].start <= prior[c].start
        BY <1>4, <2>1
      <4>2. prior[last].start <= prior[c].end
        BY <1>2, <2>1, <2>4, <4>1
      <4> QED BY <3>1, <4>2 DEF Selection!Touching
    <3>3. Selection!Together(c, last) /\ Selection!Together(last, c)
      BY <1>2, <2>1, <3>2, TouchingIsTogether
    <3>4. \A j \in (V \ rest) \ (block \cup {c}) : \A k \in block \cup {c} : prior[j].end < prior[k].start
      <4> SUFFICES ASSUME NEW j \in done \ block PROVE \A k \in block \cup {c} : prior[j].end < prior[k].start
        BY <1>3
      <4>1. \A k \in block : prior[j].end < prior[k].start
        BY <2>2 DEF Lead
      <4>2. prior[j].end < prior[last].start /\ prior[last].start <= prior[c].start
        BY <1>4, <2>1, <2>2, <4>1 DEF Lead
      <4>3. prior[j].end \in Nat /\ prior[last].start \in Nat /\ prior[c].start \in Nat
        BY <1>2, <2>1, <2>4
      <4> QED BY <4>1, <4>2, <4>3
    <3>5. block \cup {c} \subseteq V \ rest /\ last \in block /\ block \subseteq V /\ \A j \in block : last <= j
      BY <1>3, <2>2 DEF Lead
    <3>6. c \in Nat /\ last \in Nat
      BY <1>2, <2>1, <2>4
    <3>7. CASE c < last
      <4>1. new = [kept EXCEPT ![n] = c]
        BY <1>1, <1>9, <2>6, <3>7 DEF Selection!Sweep, Selection!Newer, Selection!Latest
      <4>2. /\ new \in Seq(V) /\ Len(new) = n /\ new[n] = c /\ new # <<>>
            /\ \A k \in 1 .. n - 1 : new[k] = kept[k]
        BY <1>2, <1>9, <2>1, <4>1
      <4>3. Lead(c, block \cup {c}, V \ rest)
        <5>1. \A j \in block \cup {c} : c <= j
          BY <2>4, <3>5, <3>6, <3>7
        <5> QED BY <3>4, <3>5, <5>1 DEF Lead
      <4>4. \A i \in V \ rest : (\A k \in 1 .. n : new[k] # i) => Beaten(i)
        <5> SUFFICES ASSUME NEW i \in V \ rest, \A k \in 1 .. n : new[k] # i PROVE Beaten(i)
          OBVIOUS
        <5>1. i # c /\ i \in done
          BY <1>3, <2>1, <4>2
        <5>2. CASE i = last
          BY <1>2, <3>3, <3>7, <5>2 DEF Beaten
        <5>3. CASE i # last
          <6>1. \A k \in 1 .. n : k = n \/ k \in 1 .. n - 1
            BY <1>2
          <6>2. \A k \in 1 .. n : kept[k] # i
            BY <4>2, <5>3, <6>1
          <6> QED BY <1>7, <5>1, <6>2
        <5> QED BY <5>2, <5>3
      <4>5. \A k \in 1 .. n : new[k] \notin rest
        <5>1. \A k \in 1 .. n : k = n \/ k \in 1 .. n - 1
          BY <1>2
        <5>2. \A k \in 1 .. n - 1 : k \in 1 .. n
          BY <1>2
        <5> QED BY <1>1, <1>7, <4>2, <5>1, <5>2
      <4>6. \A k \in 1 .. n - 1 : Stands(new[k])
        BY <1>7, <4>2
      <4> HIDE DEF V, done, n, last
      <4> QED BY <1>2, <1>3, <1>6, <4>2, <4>3, <4>4, <4>5, <4>6 DEF SweepInv, V
    <3>8. CASE ~(c < last)
      <4>1. new = kept
        BY <1>1, <1>9, <2>6, <3>8 DEF Selection!Sweep, Selection!Newer, Selection!Latest
      <4>2. last < c
        BY <2>1, <3>6, <3>8
      <4>3. Lead(last, block \cup {c}, V \ rest)
        <5>1. \A j \in block \cup {c} : last <= j
          BY <3>5, <3>6, <4>2
        <5> QED BY <3>4, <3>5, <5>1 DEF Lead
      <4>4. Beaten(c)
        BY <2>1, <3>3, <4>2 DEF Beaten
      <4>5. \A i \in V \ rest : (\A k \in 1 .. n : kept[k] # i) => Beaten(i)
        BY <1>3, <1>7, <4>4
      <4>6. \A k \in 1 .. n : kept[k] \notin rest
        BY <1>1, <1>7
      <4>7. V \ rest # {}
        BY <1>3
      <4> HIDE DEF V, done
      <4> QED BY <1>2, <1>6, <1>7, <1>9, <4>1, <4>3, <4>5, <4>6, <4>7 DEF SweepInv, V
    <3> QED BY <3>7, <3>8
  <2> QED BY <2>5, <2>6
<1> QED BY <1>1, <1>8, <1>9

\* What is retained, and what is left to sweep.
Sweeps == [kept : Seq(Selection!Verified), left : SUBSET Selection!Verified]
Unswept == [kept |-> <<>>, left |-> Selection!Verified]

SweptFrom(f) == f[0] = Unswept /\ \A n \in Nat : f[n + 1] = Selection!SweepFirst(f[n])

\* What is retained of the verified runs is verified.
LEMMA SweepFirstType ==
  ASSUME Selection!ConstantsFit, Queried, NEW s \in Sweeps
  PROVE  Selection!SweepFirst(s) \in Sweeps
<1>1. s.kept \in Seq(Selection!Verified) /\ s.left \subseteq Selection!Verified
  BY DEF Sweeps
<1>2. CASE s.left = {}
  BY <1>2 DEF Selection!SweepFirst
<1>3. CASE s.left # {}
  <2>1. PICK c : c = Selection!First(s.left)
    OBVIOUS
  <2>2. c \in Selection!Verified
    BY <1>1, <1>3, <2>1, FirstIs
  <2>3. Selection!Sweep(s.kept, c) \in Seq(Selection!Verified)
    <3>1. PICK kept : kept = s.kept
      OBVIOUS
    <3>2. CASE Selection!Sweep(kept, c) = Append(kept, c)
      BY <1>1, <2>2, <3>1, <3>2
    <3>3. CASE Selection!Sweep(kept, c) = kept
      BY <1>1, <3>1, <3>3
    <3>4. CASE kept # <<>> /\ Selection!Sweep(kept, c) = [kept EXCEPT ![Len(kept)] = c]
      <4>1. kept \in Seq(Selection!Verified) /\ Len(kept) \in 1 .. Len(kept)
        BY <1>1, <3>1, <3>4
      <4> QED BY <2>2, <3>1, <3>4, <4>1
    <3> QED BY <3>1, <3>2, <3>3, <3>4 DEF Selection!Sweep
  <2>4. Selection!SweepFirst(s) = [kept |-> Selection!Sweep(s.kept, c), left |-> s.left \ {c}]
    BY <1>3, <2>1 DEF Selection!SweepFirst
  <2> QED BY <1>1, <2>3, <2>4 DEF Sweeps
<1> QED BY <1>2, <1>3

\* The sweep goes from run to run, and what it ends with is retained.
LEMMA RetainedIsSwept ==
  ASSUME Selection!ConstantsFit, Queried
  PROVE  \E f : /\ SweptFrom(f)
                /\ Selection!Retained = {f[Runs].kept[k] : k \in DOMAIN f[Runs].kept}
<1> DEFINE body(g) == [n \in Nat |-> IF n = 0 THEN Unswept ELSE Selection!SweepFirst(g[n - 1])]
           f == CHOOSE g : g = body(g)
<1>1. PICK s : s = [n \in Nat |-> [v \in Sweeps |-> Selection!SweepFirst(v)]]
  OBVIOUS
<1>2. s \in [Nat -> [Sweeps -> Sweeps]]
  BY <1>1, SweepFirstType
<1>3. Unswept \in Sweeps
  BY DEF Unswept, Sweeps
<1>4. PICK a : a = Unswept
  OBVIOUS
<1>5. PICK g \in [Nat -> Sweeps] : Follows(g, a, s)
  BY <1>2, <1>3, <1>4, Recursion
<1>6. \A n \in Nat : g[n + 1] = Selection!SweepFirst(g[n])
  BY <1>1, <1>5 DEF Follows
<1>7. g[0] = Unswept
  BY <1>4, <1>5 DEF Follows
<1>8. g = body(g)
  <2>1. ASSUME NEW n \in Nat
        PROVE  g[n] = IF n = 0 THEN Unswept ELSE Selection!SweepFirst(g[n - 1])
    <3>1. CASE n = 0
      BY <1>7, <3>1
    <3>2. CASE n # 0
      <4>1. n - 1 \in Nat /\ (n - 1) + 1 = n
        BY <3>2
      <4>2. g[(n - 1) + 1] = Selection!SweepFirst(g[n - 1])
        BY <1>6, <4>1
      <4> QED BY <3>2, <4>1, <4>2
    <3> QED BY <3>1, <3>2
  <2> QED BY <1>5, <2>1
<1>9. f = body(f)
  <2> HIDE DEF body
  <2> QED BY <1>8
<1>10. SweptFrom(f)
  <2> HIDE DEF f
  <2>1. ASSUME NEW n \in Nat PROVE f[n + 1] = Selection!SweepFirst(f[n])
    <3>1. n + 1 \in Nat /\ n + 1 # 0 /\ (n + 1) - 1 = n
      OBVIOUS
    <3>2. f[n + 1] = body(f)[n + 1]
      BY <1>9
    <3> QED BY <3>1, <3>2
  <2>2. f[0] = body(f)[0]
    BY <1>9
  <2>3. f[0] = Unswept
    BY <2>2
  <2> QED BY <2>1, <2>3 DEF SweptFrom
<1>11. Selection!Retained = {f[Runs].kept[k] : k \in DOMAIN f[Runs].kept}
  BY DEF Selection!Retained, Unswept
<1> HIDE DEF f
<1> QED BY <1>10, <1>11

\* Of the runs that hang together the newest is retained and no other.
LEMMA RetainedAre ==
  ASSUME Selection!ConstantsFit, Queried
  PROVE  /\ Selection!Retained \subseteq Selection!Verified
         /\ \A i \in Selection!Verified : i \in Selection!Retained <=> ~Beaten(i)
<1>1. PICK f : /\ SweptFrom(f)
               /\ Selection!Retained = {f[Runs].kept[k] : k \in DOMAIN f[Runs].kept}
  BY RetainedIsSwept
<1> DEFINE V == Selection!Verified
           Good(n) == /\ SweepInv(f[n].kept, f[n].left) /\ IsFiniteSet(f[n].left)
                      /\ Cardinality(f[n].left) + n <= Runs \/ f[n].left = {}
           Goods == {n \in Nat : Good(n)}
<1>2. Runs \in Nat /\ V \subseteq 1 .. Runs
  BY PeriodFacts
<1>3. IsFiniteSet(V) /\ Cardinality(V) <= Runs
  <2>1. IsFiniteSet(1 .. Runs) /\ Cardinality(1 .. Runs) = Runs
    BY <1>2, FS_Interval
  <2> QED BY <1>2, <2>1, FS_Subset
<1>4. 0 \in Goods
  <2>1. f[0].kept = <<>> /\ f[0].left = V
    BY <1>1 DEF SweptFrom, Unswept
  <2>2. Cardinality(V) + 0 <= Runs
    BY <1>2, <1>3, FS_CardinalityType
  <2>3. SweepInv(<<>>, V)
    BY DEF SweepInv
  <2> QED BY <1>3, <2>1, <2>2, <2>3
<1>5. ASSUME NEW n \in Nat, n \in Goods PROVE n + 1 \in Goods
  <2>0. n + 1 \in Nat
    OBVIOUS
  <2>1. PICK s : s = f[n]
    OBVIOUS
  <2>2. /\ SweepInv(s.kept, s.left) /\ IsFiniteSet(s.left)
        /\ Cardinality(s.left) + n <= Runs \/ s.left = {}
    BY <1>5, <2>1
  <2>3. f[n + 1] = Selection!SweepFirst(s)
    BY <1>1, <2>1 DEF SweptFrom
  <2>4. CASE s.left = {}
    <3>1. f[n + 1] = s
      BY <2>3, <2>4 DEF Selection!SweepFirst
    <3>2. Good(n + 1)
      BY <2>2, <2>4, <3>1
    <3> QED BY <2>0, <3>2
  <2>5. CASE s.left # {}
    <3>1. PICK c : c = Selection!First(s.left)
      OBVIOUS
    <3>2. c \in s.left /\ \A j \in s.left \ {c} : Selection!StartsBefore(c, j)
      BY <2>2, <2>5, <3>1, FirstIs DEF SweepInv
    <3>3. f[n + 1] = [kept |-> Selection!Sweep(s.kept, c), left |-> s.left \ {c}]
      BY <2>3, <2>5, <3>1 DEF Selection!SweepFirst
    <3>4. PICK kept, left : kept = s.kept /\ left = s.left
      OBVIOUS
    <3>5. SweepInv(Selection!Sweep(kept, c), left \ {c})
      BY <2>2, <3>2, <3>4, SweepStep
    <3>6. IsFiniteSet(left \ {c}) /\ Cardinality(left \ {c}) = Cardinality(left) - 1
      BY <2>2, <3>2, <3>4, FS_RemoveElement
    <3>7. Cardinality(left) \in Nat
      BY <2>2, <3>4, FS_CardinalityType
    <3>8. Cardinality(left \ {c}) + (n + 1) <= Runs
      BY <1>2, <2>2, <2>5, <3>4, <3>6, <3>7
    <3>9. f[n + 1].kept = Selection!Sweep(kept, c) /\ f[n + 1].left = left \ {c}
      BY <3>3, <3>4
    <3>10. Good(n + 1)
      BY <3>5, <3>6, <3>8, <3>9
    <3> QED BY <2>0, <3>10
  <2> QED BY <2>4, <2>5
<1>6. Runs \in Goods
  <2> HIDE DEF Goods
  <2>1. \A n \in Nat : n \in Goods
    BY <1>4, <1>5, Induction
  <2> QED BY <1>2, <2>1
<1>7. PICK kept, left : kept = f[Runs].kept /\ left = f[Runs].left
  OBVIOUS
<1>8. SweepInv(kept, left) /\ left = {}
  <2>1. SweepInv(kept, left) /\ IsFiniteSet(left) /\ (Cardinality(left) + Runs <= Runs \/ left = {})
    BY <1>6, <1>7
  <2>2. Cardinality(left) \in Nat
    BY <2>1, FS_CardinalityType
  <2>3. Cardinality(left) = 0 \/ left = {}
    BY <1>2, <2>1, <2>2
  <2> QED BY <2>1, <2>3, FS_EmptySet
<1>9. kept \in Seq(V) /\ Len(kept) \in Nat /\ DOMAIN kept = 1 .. Len(kept)
  BY <1>8 DEF SweepInv
<1>10. Selection!Retained = {kept[k] : k \in 1 .. Len(kept)}
  BY <1>1, <1>7, <1>9
<1>11. Selection!Retained \subseteq V
  BY <1>9, <1>10
<1>12. ASSUME NEW i \in V, i \notin Selection!Retained PROVE Beaten(i)
  <2>1. \A k \in 1 .. Len(kept) : kept[k] # i
    BY <1>10, <1>12
  <2> QED BY <1>8, <2>1 DEF SweepInv
<1>13. ASSUME NEW k \in 1 .. Len(kept) PROVE Stands(kept[k])
  <2>1. CASE k = Len(kept)
    <3>1. PICK i : i = kept[Len(kept)]
      OBVIOUS
    <3>2. kept # <<>>
      BY <1>9
    <3>3. PICK block : Lead(i, block, Selection!Verified \ left)
      BY <1>8, <3>1, <3>2 DEF SweepInv
    <3>4. Stands(i)
      BY <1>8, <3>3, LeadSettles
    <3> QED BY <2>1, <3>1, <3>4
  <2>2. CASE k # Len(kept)
    <3>1. k \in 1 .. Len(kept) - 1
      <4>1. PICK n \in Nat : n = Len(kept)
        BY <1>9
      <4>2. k \in 1 .. n /\ k # n
        BY <2>2, <4>1
      <4>3. k \in 1 .. n - 1
        BY <4>2
      <4> QED BY <4>1, <4>3, Zenon
    <3> QED BY <1>8, <3>1 DEF SweepInv
  <2> QED BY <2>1, <2>2
<1>14. ASSUME NEW i \in Selection!Retained PROVE ~Beaten(i)
  <2>1. PICK k \in 1 .. Len(kept) : i = kept[k]
    BY <1>10
  <2>2. Stands(i) /\ i \in Selection!Verified
    BY <1>11, <1>13, <2>1
  <2> QED BY <2>2, StandsUnbeaten
<1> QED BY <1>11, <1>12, <1>14

\* Of some runs there are no more than n with fewer than n newer ones.
LEMMA NewestAreFew ==
  ASSUME NEW S \in SUBSET Int, IsFiniteSet(S), NEW n \in Nat \ {0}
  PROVE  /\ IsFiniteSet(Selection!NewestOf(S, n))
         /\ Cardinality(Selection!NewestOf(S, n)) <= n
<1> DEFINE block == {i \in S : Rank(S, i) \div n = 0}
<1>1. IsFiniteSet(block) /\ Cardinality(block) \in Nat /\ Cardinality(block) <= n
  BY BlockSize
<1>2. \A X : Selection!Cardinality(X) = Cardinality(X)
  BY DEF Selection!Cardinality, Cardinality
<1>3. Selection!NewestOf(S, n) = {i \in S : Rank(S, i) < n}
  BY <1>2 DEF Selection!NewestOf, Selection!Newer, Rank, Below
<1>4. \A i \in S : Rank(S, i) < n => Rank(S, i) \div n = 0
  <2> SUFFICES ASSUME NEW i \in S, Rank(S, i) < n PROVE Rank(S, i) \div n = 0
    OBVIOUS
  <2>1. PICK r \in Nat : r = Rank(S, i)
    BY Ranks
  <2>2. r \div n = 0
    BY <2>1
  <2> QED BY <2>1, <2>2
<1>5. Selection!NewestOf(S, n) \subseteq block
  BY <1>3, <1>4
<1> HIDE DEF block
<1>6. IsFiniteSet(Selection!NewestOf(S, n)) /\ Cardinality(Selection!NewestOf(S, n)) <= Cardinality(block)
  BY <1>1, <1>5, FS_Subset
<1>7. Cardinality(Selection!NewestOf(S, n)) \in Nat
  BY <1>6, FS_CardinalityType
<1> QED BY <1>1, <1>6, <1>7

\* What becomes of a run in a selection.
Outcomes ==
  {"status_not_completed", "verification_not_passed", "period_overlapping", "beyond_lookback",
   "metric_absent_in_snapshot", "fidelity_tier_differs", "selected"}

LEMMA SelectIs ==
  ASSUME Selection!Retained \subseteq Selection!Verified, NEW n, NEW F
  PROVE  /\ Selection!Select(n, F) \in [Selection!Run -> Outcomes]
         /\ \A i \in Selection!Run : Selection!Select(n, F)[i] = "selected" =>
              \/ i \in Selection!NewestOf(Selection!Retained, n)
              \/ prior[i].standing \notin {"unfinished", "unverified", "verified"}
         /\ \A i \in Selection!Verified :
              Selection!Select(n, F)[i] = "period_overlapping" <=> i \notin Selection!Retained
<1>1. PICK R : R = Selection!Retained
  OBVIOUS
<1>2. PICK N : N = Selection!NewestOf(R, n)
  OBVIOUS
<1>3. PICK f : f = Selection!Select(n, F)
  OBVIOUS
<1>4. f = [i \in Selection!Run |->
     CASE prior[i].standing = "unfinished"                          -> "status_not_completed"
       [] prior[i].standing = "unverified"                          -> "verification_not_passed"
       [] i \in Selection!Verified \ R                                 -> "period_overlapping"
       [] i \in R \ N                                              -> "beyond_lookback"
       [] OTHER ->
            IF i \notin F \/ prior[i].snapshot = "no_metric" THEN "metric_absent_in_snapshot"
            ELSE IF prior[i].snapshot = "other_tier" THEN "fidelity_tier_differs"
            ELSE "selected"]
  BY <1>1, <1>2, <1>3 DEF Selection!Select
<1>5. ASSUME NEW i \in Selection!Run
      PROVE  /\ f[i] \in Outcomes
             /\ f[i] = "selected" =>
                  i \in N \/ prior[i].standing \notin {"unfinished", "unverified", "verified"}
             /\ i \in Selection!Verified => (f[i] = "period_overlapping" <=> i \notin R)
  <2>1. i \in Selection!Verified <=> prior[i].standing = "verified"
    BY DEF Selection!Verified
  <2>2. f[i] = CASE prior[i].standing = "unfinished"               -> "status_not_completed"
       [] prior[i].standing = "unverified"                          -> "verification_not_passed"
       [] i \in Selection!Verified \ R                                 -> "period_overlapping"
       [] i \in R \ N                                              -> "beyond_lookback"
       [] OTHER ->
            IF i \notin F \/ prior[i].snapshot = "no_metric" THEN "metric_absent_in_snapshot"
            ELSE IF prior[i].snapshot = "other_tier" THEN "fidelity_tier_differs"
            ELSE "selected"
    BY <1>4
  <2>3. /\ prior[i].standing = "unfinished" => i \notin Selection!Verified
                                                /\ ~(prior[i].standing = "unverified")
        /\ prior[i].standing = "unverified" => i \notin Selection!Verified
        /\ i \in R => i \in Selection!Verified
    BY <1>1, <2>1
  <2>4. prior[i].standing = "unfinished" => f[i] = "status_not_completed"
    BY <2>2, <2>3, Zenon
  <2>5. prior[i].standing = "unverified" => f[i] = "verification_not_passed"
    BY <2>2, <2>3, Zenon
  <2>6. i \in Selection!Verified \ R => f[i] = "period_overlapping"
    BY <2>2, <2>3, Zenon
  <2>7. i \in R \ N => f[i] = "beyond_lookback"
    BY <2>2, <2>3, Zenon
  <2>8. \/ prior[i].standing = "unfinished" \/ prior[i].standing = "unverified"
        \/ i \in Selection!Verified \ R \/ i \in R \ N
        \/ f[i] \in {"metric_absent_in_snapshot", "fidelity_tier_differs", "selected"}
    <3> DEFINE rest == IF i \notin F \/ prior[i].snapshot = "no_metric" THEN "metric_absent_in_snapshot"
                       ELSE IF prior[i].snapshot = "other_tier" THEN "fidelity_tier_differs"
                       ELSE "selected"
    <3>1. rest \in {"metric_absent_in_snapshot", "fidelity_tier_differs", "selected"}
      OBVIOUS
    <3>2. \/ prior[i].standing = "unfinished" \/ prior[i].standing = "unverified"
          \/ i \in Selection!Verified \ R \/ i \in R \ N \/ f[i] = rest
      BY <2>2
    <3> HIDE DEF rest
    <3> QED BY <3>1, <3>2
  <2> HIDE <2>2
  <2>9. CASE prior[i].standing = "unfinished"
    BY <2>3, <2>4, <2>9 DEF Outcomes
  <2>10. CASE prior[i].standing = "unverified"
    BY <2>3, <2>5, <2>10 DEF Outcomes
  <2>11. CASE i \in Selection!Verified
    BY <2>1, <2>3, <2>6, <2>7, <2>8, <2>11 DEF Outcomes
  <2>12. CASE prior[i].standing \notin {"unfinished", "unverified", "verified"}
    BY <2>1, <2>3, <2>7, <2>8, <2>12 DEF Outcomes
  <2> QED BY <2>1, <2>9, <2>10, <2>11, <2>12
<1> QED BY <1>1, <1>2, <1>3, <1>4, <1>5 DEF Selection!Verified

\* What is retained and selected depends on the prior runs alone.
LEMMA PriorStays ==
  ASSUME prior' = prior
  PROVE  /\ Selection!Retained' = Selection!Retained /\ Selection!Verified' = Selection!Verified
         /\ \A n, F : Selection!Select(n, F)' = Selection!Select(n, F)
<1>1. Selection!Verified' = Selection!Verified
  BY DEF Selection!Verified
<1>2. Selection!Retained' = Selection!Retained
  BY DEF Selection!Retained, Selection!Verified, Selection!SweepFirst, Selection!Sweep,
         Selection!First, Selection!StartsBefore, Selection!Overlaps
<1>3. ASSUME NEW n, NEW F PROVE Selection!Select(n, F)' = Selection!Select(n, F)
  BY <1>1, <1>2 DEF Selection!Select, Selection!NewestOf
<1> QED BY <1>1, <1>2, <1>3

\* What was selected was selected by the rule, and what is plotted was retained.
TrendInv ==
  /\ Queried
  /\ step \in {"select", "compile", "replay", "done"}
  /\ toRead \subseteq Selection!Run /\ got \subseteq Selection!Run /\ toRead \cap got = {}
  /\ chosen \in Seq([Selection!Run -> Outcomes]) /\ Len(chosen) <= Len(Lookbacks)
  /\ step = "select" => Len(chosen) < Len(Lookbacks)
  /\ \A b \in DOMAIN chosen : \E F : chosen[b] = Selection!Select(Lookbacks[b], F)
  /\ \A b \in DOMAIN points : points[b] \subseteq Selection!Retained
  /\ failures \in 0 .. MaxFailures
  /\ step \in {"compile", "replay"} => Len(chosen) = Len(Lookbacks)

TrendSound == Selection!TypeOK /\ Selection!KeepsNewest /\ Selection!GateAccepts

\* What a block selects is retained and within its lookback.
LEMMA LookbackFacts ==
  ASSUME Selection!ConstantsFit, Queried, chosen \in Seq([Selection!Run -> Outcomes]),
         NEW b \in DOMAIN chosen, b \in DOMAIN Lookbacks, NEW F,
         chosen[b] = Selection!Select(Lookbacks[b], F)
  PROVE  /\ Selection!Selected(b) \subseteq Selection!NewestOf(Selection!Retained, Lookbacks[b])
         /\ Selection!Selected(b) \subseteq Selection!Retained
<1>1. PICK n : n = Lookbacks[b]
  OBVIOUS
<1>2. Selection!Retained \subseteq Selection!Verified
  BY RetainedAre
<1>3. ASSUME NEW i \in Selection!Selected(b)
      PROVE  i \in Selection!NewestOf(Selection!Retained, n)
  <2>1. i \in Selection!Run /\ Selection!Select(n, F)[i] = "selected"
    BY <1>1, <1>3 DEF Selection!Selected
  <2>2. prior[i].standing \in {"unfinished", "unverified", "verified"}
    BY <2>1 DEF Queried, Selection!Candidate
  <2> QED BY <1>2, <2>1, <2>2, SelectIs
<1>4. Selection!NewestOf(Selection!Retained, n) \subseteq Selection!Retained
  BY DEF Selection!NewestOf
<1> QED BY <1>1, <1>3, <1>4

\* What the invariant says of the figures.
LEMMA TrendHold == ASSUME Selection!ConstantsFit, TrendInv PROVE TrendSound
<1>1. Queried /\ chosen \in Seq([Selection!Run -> Outcomes]) /\ Len(chosen) <= Len(Lookbacks)
  BY DEF TrendInv
<1>2. /\ Selection!Retained \subseteq Selection!Verified
      /\ \A i \in Selection!Verified : i \in Selection!Retained <=> ~Beaten(i)
  BY <1>1, RetainedAre
<1>3. \A b \in DOMAIN chosen : b \in DOMAIN Lookbacks /\ Lookbacks[b] \in Nat \ {0}
  <2>1. Lookbacks \in Seq(Nat \ {0})
    BY DEF Selection!ConstantsFit
  <2>2. Len(chosen) \in Nat /\ Len(Lookbacks) \in Nat
        /\ DOMAIN chosen = 1 .. Len(chosen) /\ DOMAIN Lookbacks = 1 .. Len(Lookbacks)
    BY <1>1, <2>1
  <2>3. \A b \in DOMAIN chosen : b \in DOMAIN Lookbacks
    BY <1>1, <2>2
  <2> QED BY <2>1, <2>2, <2>3
<1>4. Selection!TypeOK
  <2>1. ASSUME NEW b \in DOMAIN chosen
        PROVE  Selection!Cardinality(Selection!Selected(b)) <= Lookbacks[b]
    <3>1. PICK F : chosen[b] = Selection!Select(Lookbacks[b], F)
      BY DEF TrendInv
    <3>2. PICK n \in Nat \ {0} : n = Lookbacks[b]
      BY <1>3
    <3>3. PICK R : R = Selection!Retained
      OBVIOUS
    <3>4. Selection!Selected(b) \subseteq Selection!NewestOf(R, n)
      BY <1>1, <1>3, <3>1, <3>2, <3>3, LookbackFacts
    <3>5. R \in SUBSET Int /\ IsFiniteSet(R)
      <4>1. Selection!Verified \subseteq 1 .. Runs /\ Runs \in Nat
        BY <1>1, PeriodFacts
      <4>2. IsFiniteSet(1 .. Runs)
        BY <4>1, FS_Interval
      <4>3. R \subseteq 1 .. Runs
        BY <1>2, <3>3, <4>1
      <4>4. IsFiniteSet(R)
        BY <4>2, <4>3, FS_Subset
      <4>5. \A i \in R : i \in Int
        BY <4>1, <4>3
      <4> QED BY <4>4, <4>5
    <3>6. /\ IsFiniteSet(Selection!NewestOf(R, n))
          /\ Cardinality(Selection!NewestOf(R, n)) <= n
      BY <3>5, NewestAreFew
    <3>7. PICK S : S = Selection!Selected(b)
      OBVIOUS
    <3>8. IsFiniteSet(S) /\ Cardinality(S) <= Cardinality(Selection!NewestOf(R, n))
      BY <3>4, <3>6, <3>7, FS_Subset
    <3>9. Cardinality(S) \in Nat /\ Cardinality(Selection!NewestOf(R, n)) \in Nat
      BY <3>6, <3>8, FS_CardinalityType
    <3>10. Selection!Cardinality(S) = Cardinality(S)
      BY DEF Selection!Cardinality, Cardinality
    <3> QED BY <3>2, <3>6, <3>7, <3>8, <3>9, <3>10
  <2> QED BY <2>1 DEF Selection!TypeOK, TrendInv, Queried
<1>5. Selection!KeepsNewest
  <2> SUFFICES ASSUME NEW b \in DOMAIN chosen, NEW i \in Selection!Verified
               PROVE  chosen[b][i] = "period_overlapping" <=>
                        \E j \in Selection!Verified : Selection!Newer(j, i) /\ Selection!Together(i, j)
    BY DEF Selection!KeepsNewest
  <2>1. PICK F : chosen[b] = Selection!Select(Lookbacks[b], F)
    BY DEF TrendInv
  <2>2. chosen[b][i] = "period_overlapping" <=> i \notin Selection!Retained
    BY <1>2, <2>1, SelectIs
  <2> QED BY <1>2, <2>2 DEF Beaten, Selection!Newer
<1>6. Selection!GateAccepts
  <2> SUFFICES ASSUME NEW b \in DOMAIN points, NEW c \in DOMAIN points,
                      NEW i \in points[b], NEW j \in points[c], i # j, Selection!GateOverlap(i, j)
               PROVE  FALSE
    BY DEF Selection!GateAccepts
  <2>1. i \in Selection!Retained /\ j \in Selection!Retained
    BY DEF TrendInv
  <2>2. i \in Selection!Verified /\ j \in Selection!Verified /\ ~Beaten(i) /\ ~Beaten(j)
    BY <1>2, <2>1
  <2>3. /\ i \in Nat /\ j \in Nat /\ prior[i].start \in Nat /\ prior[i].end \in Nat
        /\ prior[j].start \in Nat /\ prior[j].end \in Nat
    BY <1>1, <2>2, PeriodFacts
  <2>4. Selection!Touching(i, j) /\ Selection!Touching(j, i)
    BY <2>3 DEF Selection!Touching, Selection!GateOverlap
  <2>5. Selection!Together(i, j) /\ Selection!Together(j, i)
    BY <2>2, <2>4, TouchingIsTogether
  <2>6. i < j \/ j < i
    BY <2>3
  <2> QED BY <2>2, <2>5, <2>6 DEF Beaten
<1> QED BY <1>4, <1>5, <1>6 DEF TrendSound

\* At the start nothing is selected.
LEMMA TrendInit == ASSUME Selection!ConstantsFit, Selection!Init PROVE TrendInv
<1>1. Queried
  BY DEF Selection!Init, Queried, Selection!Newer
<1>2. Selection!Loads(1) \subseteq Selection!Run
  BY DEF Selection!Loads, Selection!NewestOf, Selection!Verified
<1>3. chosen \in Seq([Selection!Run -> Outcomes]) /\ Len(chosen) = 0 /\ DOMAIN chosen = {}
      /\ DOMAIN points = {}
  BY DEF Selection!Init
<1>4. Len(Lookbacks) \in Nat /\ Len(Lookbacks) > 0 /\ MaxFailures \in Nat
  BY DEF Selection!ConstantsFit
<1>5. /\ step = "select" /\ toRead = Selection!Loads(1) /\ got = {} /\ failures = 0
  BY DEF Selection!Init
<1>6. failures \in 0 .. MaxFailures /\ Len(chosen) <= Len(Lookbacks) /\ Len(chosen) < Len(Lookbacks)
  BY <1>3, <1>4, <1>5
<1> QED BY <1>1, <1>2, <1>3, <1>5, <1>6 DEF TrendInv

\* What a step that selects nothing keeps.
LEMMA NothingSelected ==
  ASSUME TrendInv, prior' = prior, chosen' = chosen
  PROVE  /\ Queried'
         /\ (\A b \in DOMAIN chosen : \E F : chosen[b] = Selection!Select(Lookbacks[b], F))'
         /\ chosen' \in Seq([Selection!Run -> Outcomes])
         /\ Selection!Retained' = Selection!Retained
<1>1. Queried'
  BY DEF TrendInv, Queried
<1>2. ASSUME NEW b \in DOMAIN chosen
      PROVE  (\E F : chosen[b] = Selection!Select(Lookbacks[b], F))'
  <2>1. PICK F : chosen[b] = Selection!Select(Lookbacks[b], F)
    BY DEF TrendInv
  <2>2. PICK n : n = Lookbacks[b]
    OBVIOUS
  <2>3. Selection!Select(n, F)' = Selection!Select(n, F)
    BY PriorStays
  <2>4. (chosen[b] = Selection!Select(n, F))'
    BY <2>1, <2>2, <2>3
  <2> QED BY <2>2, <2>4
<1>3. Selection!Retained' = Selection!Retained
  BY PriorStays
<1> QED BY <1>1, <1>2, <1>3 DEF TrendInv

\* Every step keeps the invariant.
LEMMA TrendStep ==
  ASSUME Selection!ConstantsFit, TrendInv, [Selection!Next]_(Selection!vars)
  PROVE  TrendInv'
<1>0. /\ Len(Lookbacks) \in Nat /\ Lookbacks \in Seq(Nat \ {0}) /\ MaxFailures \in Nat
      /\ Len(chosen) \in Nat
  BY DEF Selection!ConstantsFit, TrendInv
<1>1. CASE Selection!Read
  <2>1. /\ UNCHANGED <<prior, step, chosen, points, replayed>>
        /\ \E i \in toRead :
             /\ toRead' = toRead \ {i}
             /\ \/ got' = got \cup {i} /\ failures' = failures
                \/ failures < MaxFailures /\ failures' = failures + 1 /\ got' = got
    BY <1>1 DEF Selection!Read
  <2>2. failures' \in 0 .. MaxFailures
    BY <1>0, <2>1 DEF TrendInv
  <2>3. toRead' \subseteq Selection!Run /\ got' \subseteq Selection!Run /\ toRead' \cap got' = {}
    BY <2>1 DEF TrendInv
  <2> QED BY <2>1, <2>2, <2>3, NothingSelected DEF TrendInv
<1>2. CASE Selection!SelectBlock
  <2> DEFINE n == Len(chosen)
             new == Selection!Select(Lookbacks[n + 1], got)
  <2>1. /\ step = "select" /\ chosen' = Append(chosen, new)
        /\ IF Len(chosen') < Len(Lookbacks)
             THEN toRead' = Selection!Loads(Len(chosen') + 1) /\ step' = step
             ELSE toRead' = Selection!SelectedByAny(chosen') /\ step' = "compile"
        /\ got' = {} /\ UNCHANGED <<prior, points, replayed, failures>>
    BY <1>2 DEF Selection!SelectBlock
  <2>2. chosen \in Seq([Selection!Run -> Outcomes]) /\ n \in Nat /\ n < Len(Lookbacks)
    BY <2>1 DEF TrendInv
  <2>3. new \in [Selection!Run -> Outcomes]
    <3>1. Selection!Retained \subseteq Selection!Verified
      BY RetainedAre DEF TrendInv
    <3>2. PICK l : l = Lookbacks[n + 1]
      OBVIOUS
    <3> QED BY <3>1, <3>2, SelectIs
  <2>4. PICK c : c = new
    OBVIOUS
  <2>5. /\ chosen' \in Seq([Selection!Run -> Outcomes]) /\ Len(chosen') = n + 1
        /\ \A b \in 1 .. n : chosen'[b] = chosen[b]
        /\ chosen'[n + 1] = c
        /\ DOMAIN chosen = 1 .. n /\ DOMAIN chosen' = 1 .. n + 1
    <3> HIDE DEF new
    <3> QED BY <2>1, <2>2, <2>3, <2>4
  <2>6. Len(chosen') <= Len(Lookbacks) /\ (Len(chosen') < Len(Lookbacks) \/ Len(chosen') = Len(Lookbacks))
    BY <1>0, <2>2, <2>5
  <2>7. ASSUME NEW b \in DOMAIN chosen'
        PROVE  (\E F : chosen[b] = Selection!Select(Lookbacks[b], F))'
    <3>1. PICK F : chosen'[b] = Selection!Select(Lookbacks[b], F)
      <4>1. CASE b = n + 1
        BY <2>4, <2>5, <4>1
      <4>2. CASE b \in 1 .. n
        <5>1. \E F : chosen[b] = Selection!Select(Lookbacks[b], F)
          BY <2>5, <4>2 DEF TrendInv
        <5> QED BY <2>5, <4>2, <5>1
      <4>3. b = n + 1 \/ b \in 1 .. n
        BY <2>2, <2>5
      <4> QED BY <4>1, <4>2, <4>3
    <3>2. PICK l : l = Lookbacks[b]
      OBVIOUS
    <3>3. Selection!Select(l, F)' = Selection!Select(l, F)
      BY <2>1, PriorStays
    <3>4. (chosen[b] = Selection!Select(l, F))'
      BY <3>1, <3>2, <3>3
    <3> QED BY <3>2, <3>4
  <2>8. toRead' \subseteq Selection!Run
    <3>1. \A k : Selection!Loads(k) \subseteq Selection!Run
      BY DEF Selection!Loads, Selection!NewestOf, Selection!Verified
    <3>2. Selection!SelectedByAny(chosen') \subseteq Selection!Run
      BY DEF Selection!SelectedByAny
    <3> QED BY <2>1, <3>1, <3>2
  <2>9. step' \in {"select", "compile"} /\ (step' = "select" => Len(chosen') < Len(Lookbacks))
        /\ (step' = "compile" => Len(chosen') = Len(Lookbacks))
    BY <2>1, <2>6
  <2>10. Queried' /\ Selection!Retained' = Selection!Retained
    BY <2>1, PriorStays DEF TrendInv, Queried
  <2>11. got' = {} /\ points' = points /\ failures' = failures
    BY <2>1
  <2> HIDE DEF n, new
  <2> QED BY <2>5, <2>6, <2>7, <2>8, <2>9, <2>10, <2>11 DEF TrendInv
<1>3. ASSUME Selection!Compile \/ Selection!Recompile PROVE TrendInv'
  <2>1. /\ UNCHANGED <<prior, chosen, failures>> /\ got' = {} /\ step \in {"compile", "replay"}
        /\ toRead' \subseteq Selection!Run
        /\ step' \in {"replay", "done"}
        /\ points' = points \/ points' = Selection!Plotted
    <3>1. CASE Selection!Compile
      <4>1. Selection!SelectedByAny(chosen) \subseteq Selection!Run
        BY DEF Selection!SelectedByAny
      <4> QED BY <3>1, <4>1 DEF Selection!Compile
    <3>2. CASE Selection!Recompile
      BY <3>2 DEF Selection!Recompile, TrendInv
    <3> QED BY <1>3, <3>1, <3>2
  <2>2. Len(chosen) = Len(Lookbacks)
    BY <2>1 DEF TrendInv
  <2>3. \A b \in DOMAIN points' : points'[b] \subseteq Selection!Retained
    <3>1. ASSUME NEW b \in DOMAIN Selection!Plotted
          PROVE  Selection!Plotted[b] \subseteq Selection!Retained
      <4>1. b \in DOMAIN Lookbacks /\ Selection!Plotted[b] = Selection!Selected(b) \cap got
        BY <3>1 DEF Selection!Plotted
      <4>2. b \in DOMAIN chosen
        BY <2>2, <4>1, <1>0 DEF TrendInv
      <4>3. PICK F : chosen[b] = Selection!Select(Lookbacks[b], F)
        BY <4>2 DEF TrendInv
      <4>4. Selection!Selected(b) \subseteq Selection!Retained
        BY <4>1, <4>2, <4>3, LookbackFacts DEF TrendInv
      <4> QED BY <4>1, <4>4
    <3> QED BY <2>1, <3>1 DEF TrendInv
  <2>4. /\ Queried' /\ chosen' \in Seq([Selection!Run -> Outcomes])
        /\ (\A b \in DOMAIN chosen : \E F : chosen[b] = Selection!Select(Lookbacks[b], F))'
        /\ Selection!Retained' = Selection!Retained
    BY <2>1, NothingSelected
  <2> QED BY <2>1, <2>2, <2>3, <2>4 DEF TrendInv
<1>4. CASE UNCHANGED Selection!vars
  <2>1. UNCHANGED <<prior, step, toRead, got, chosen, points, replayed, failures>>
    BY <1>4 DEF Selection!vars
  <2> QED BY <2>1, NothingSelected DEF TrendInv
<1> QED BY <1>1, <1>2, <1>3, <1>4 DEF Selection!Next

\* Of the prior runs that hang together by overlaps each block of a report plots the newest,
\* no more of them than it looks back, and none that the verifier's gate would refuse.
THEOREM TrendIsSound ==
  ASSUME Selection!ConstantsFit PROVE Selection!Spec => []TrendSound
<1>1. Selection!Init => TrendInv
  BY TrendInit
<1>2. TrendInv /\ [Selection!Next]_(Selection!vars) => TrendInv'
  BY TrendStep
<1>3. TrendInv => TrendSound
  BY TrendHold
<1> QED BY <1>1, <1>2, <1>3, PTL DEF Selection!Spec

\* A figure is made of what it is said to be made of: FiguresAreSound is true of the trend's,
\* the days' and the samples' behaviours, however the other parts go on.
THEOREM FiguresSound ==
  ASSUME P!ConstantsFit, Selection!ConstantsFit, Series!ConstantsFit
  PROVE  P!Spec /\ Selection!Spec /\ Series!Spec => []FiguresAreSound
<1>1. PeriodsSound /\ TrendSound /\ (Series!TypeOK /\ Series!FoldsAgree /\ Series!DerivedInOrder)
      => FiguresAreSound
  BY DEF FiguresAreSound, PeriodsSound, TrendSound
<1> QED BY <1>1, PeriodsAreSound, TrendIsSound, SeriesIsSummed, PTL
================================================================================
