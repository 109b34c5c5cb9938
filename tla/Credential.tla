------------------------------- MODULE Credential ------------------------------
(***************************************************************************)
(* The one credential of an invocation and the calls that ask it for a     *)
(* token.  A call of an Azure client runs on a worker of the loop's        *)
(* default executor and comes back to the loop for its token, where a lock *)
(* per audience admits one at a time; the one admitted sends the           *)
(* acquisition to the same executor.  A call keeps its worker until it is  *)
(* answered.  Each call is made once.                                      *)
(***************************************************************************)
EXTENDS Integers, Sequences, FiniteSets

CONSTANTS
  Call,      \* the requests in flight at once,
  LoopCall,  \*   those that a coroutine makes without a worker
  Scope,     \* the audiences
  ScopeOf,   \* the audience of each call
  Workers    \* the workers of the default executor

ASSUME CredentialAssumption ==
  /\ IsFiniteSet(Call) /\ LoopCall \subseteq Call
  /\ ScopeOf \in [Call -> Scope]
  /\ Workers \in Nat \ {0}

VARIABLES
  loop,       \* whether the credential was constructed on a running loop
  tokens,     \* the cache: no token, one that is comfortably valid, or a stale one
  call,       \* where each call is
  acquiring,  \* where the acquisition is that its coroutine awaits
  lockQueue,  \* the asyncio.Lock of each audience: its holder, then those it admits next
  jobs        \* the executor's queue of what no worker has begun

vars == <<loop, tokens, call, acquiring, lockQueue, jobs>>

Ended == {"idle", "done", "failed"}

\* What a worker may run: a call, or the acquisition for one.
Thread == Call \X {"call", "acquire"}

Stage(t) == IF t[2] = "call" THEN call[t[1]] ELSE acquiring[t[1]]

Moves(t, stage) ==
  IF t[2] = "call"
  THEN call' = [call EXCEPT ![t[1]] = stage] /\ UNCHANGED acquiring
  ELSE acquiring' = [acquiring EXCEPT ![t[1]] = stage] /\ UNCHANGED call

\* A worker is kept while its call waits for the loop.
Busy ==
  {t \in Thread :
     IF t[2] = "call"
     THEN t[1] \notin LoopCall /\ call[t[1]] \notin Ended \cup {"queued"}
     ELSE acquiring[t[1]] \in {"blocking", "requesting"}}

\* The thread in the threading.Lock of the audience.
Holder(s) ==
  {t \in Thread : ScopeOf[t[1]] = s /\ Stage(t) \in {"requesting", "renewing"}}

Cached(s) == tokens[s] = "fresh"

Init ==
  /\ loop \in BOOLEAN
  /\ tokens = [s \in Scope |-> "none"]
  /\ call = [c \in Call |-> "idle"]
  /\ acquiring = [c \in Call |-> "off"]
  /\ lockQueue = [s \in Scope |-> <<>>]
  /\ jobs = <<>>

-------------------------------------------------------------------------------
(***************************************************************************)
(* On a worker.                                                            *)
(***************************************************************************)

\* _send hands the request to a worker; a coroutine asks for its token itself.
Issue(c) ==
  /\ call[c] = "idle"
  /\ IF c \in LoopCall
     THEN loop /\ call' = [call EXCEPT ![c] = "submitted"] /\ UNCHANGED jobs
     ELSE call' = [call EXCEPT ![c] = "queued"] /\ jobs' = Append(jobs, <<c, "call">>)
  /\ UNCHANGED <<loop, tokens, acquiring, lockQueue>>

Start ==
  /\ jobs # <<>> /\ Cardinality(Busy) < Workers
  /\ Moves(Head(jobs), IF Head(jobs)[2] = "call" THEN "checking" ELSE "blocking")
  /\ jobs' = Tail(jobs)
  /\ UNCHANGED <<loop, tokens, lockQueue>>

\* acquire_token_sync: the cache, else the loop, else this thread.
AcquireTokenSync(c) ==
  /\ call[c] = "checking"
  /\ call' = [call EXCEPT ![c] = IF Cached(ScopeOf[c]) THEN "sending"
                                 ELSE IF loop THEN "submitted" ELSE "blocking"]
  /\ UNCHANGED <<loop, tokens, acquiring, lockQueue, jobs>>

Got(t) == IF t[2] = "call" THEN "sending" ELSE "got"

\* A slip: the cache is not read again once the lock is had.
AcquireBlockingBlindly(t) ==
  /\ Stage(t) = "blocking" /\ Holder(ScopeOf[t[1]]) = {}
  /\ Moves(t, "requesting")
  /\ UNCHANGED <<loop, tokens, lockQueue, jobs>>

\* _acquire_blocking, once it has the audience's threading.Lock.
AcquireBlocking(t) ==
  /\ Stage(t) = "blocking" /\ Holder(ScopeOf[t[1]]) = {}
  /\ Moves(t, IF Cached(ScopeOf[t[1]]) THEN Got(t) ELSE "requesting")
  /\ UNCHANGED <<loop, tokens, lockQueue, jobs>>

\* _request_token answers: stored and shared, or raised to its caller alone.
TokenGranted(t) ==
  /\ Stage(t) = "requesting"
  /\ tokens' = [tokens EXCEPT ![ScopeOf[t[1]]] = "fresh"]
  /\ Moves(t, Got(t))
  /\ UNCHANGED <<loop, lockQueue, jobs>>

TokenRefused(t) ==
  /\ Stage(t) = "requesting"
  /\ Moves(t, IF t[2] = "call" THEN "failed" ELSE "refused")
  /\ UNCHANGED <<loop, tokens, lockQueue, jobs>>

\* The request is answered, or challenged for a token with other claims.
Sent(c) ==
  /\ \/ call[c] = "sending" /\ \E to \in {"done", "challenged"} : call' = [call EXCEPT ![c] = to]
     \/ call[c] = "resending" /\ call' = [call EXCEPT ![c] = "done"]
  /\ UNCHANGED <<loop, tokens, acquiring, lockQueue, jobs>>

\* acquire_token_uncached: under the same lock, past the cache.
AcquireUncached(c) ==
  /\ call[c] = "challenged" /\ Holder(ScopeOf[c]) = {}
  /\ call' = [call EXCEPT ![c] = "renewing"]
  /\ UNCHANGED <<loop, tokens, acquiring, lockQueue, jobs>>

Renewed(c) ==
  /\ call[c] = "renewing"
  /\ \E to \in {"resending", "failed"} : call' = [call EXCEPT ![c] = to]
  /\ UNCHANGED <<loop, tokens, acquiring, lockQueue, jobs>>

-------------------------------------------------------------------------------
(***************************************************************************)
(* On the loop: acquire_token.                                             *)
(***************************************************************************)

\* The future of a call on a worker is resolved; a coroutine has what it asked for.
Answered(c) == IF c \in LoopCall THEN "done" ELSE "sending"

Unlocks(s) == lockQueue' = [lockQueue EXCEPT ![s] = Tail(@)]

\* Up to the lock.
EnterLock(c) ==
  /\ call[c] = "submitted"
  /\ IF Cached(ScopeOf[c])
     THEN call' = [call EXCEPT ![c] = Answered(c)] /\ UNCHANGED lockQueue
     ELSE /\ call' = [call EXCEPT ![c] = "locked"]
          /\ lockQueue' = [lockQueue EXCEPT ![ScopeOf[c]] = Append(@, c)]
  /\ UNCHANGED <<loop, tokens, acquiring, jobs>>

\* With the lock: the cache once more, or the acquisition sent to a worker.
HoldLock(c) ==
  /\ call[c] = "locked" /\ Head(lockQueue[ScopeOf[c]]) = c
  /\ IF Cached(ScopeOf[c])
     THEN /\ call' = [call EXCEPT ![c] = Answered(c)]
          /\ Unlocks(ScopeOf[c])
          /\ UNCHANGED <<acquiring, jobs>>
     ELSE /\ call' = [call EXCEPT ![c] = "awaiting"]
          /\ acquiring' = [acquiring EXCEPT ![c] = "queued"]
          /\ jobs' = Append(jobs, <<c, "acquire">>)
          /\ UNCHANGED lockQueue
  /\ UNCHANGED <<loop, tokens>>

\* A slip: an exception passes the lock without releasing it.
ResumeKeepsLock(c) ==
  /\ call[c] = "awaiting" /\ acquiring[c] \in {"got", "refused"}
  /\ call' = [call EXCEPT ![c] = IF acquiring[c] = "got" THEN Answered(c) ELSE "failed"]
  /\ acquiring' = [acquiring EXCEPT ![c] = "off"]
  /\ IF acquiring[c] = "got" THEN Unlocks(ScopeOf[c]) ELSE UNCHANGED lockQueue
  /\ UNCHANGED <<loop, tokens, jobs>>

\* The acquisition returned or raised.
Resume(c) ==
  /\ call[c] = "awaiting" /\ acquiring[c] \in {"got", "refused"}
  /\ call' = [call EXCEPT ![c] = IF acquiring[c] = "got" THEN Answered(c) ELSE "failed"]
  /\ acquiring' = [acquiring EXCEPT ![c] = "off"]
  /\ Unlocks(ScopeOf[c])
  /\ UNCHANGED <<loop, tokens, jobs>>

\* A token comes within TOKEN_EXPIRY_MARGIN_SECONDS of its end.
Expire(s) ==
  /\ tokens[s] = "fresh"
  /\ tokens' = [tokens EXCEPT ![s] = "stale"]
  /\ UNCHANGED <<loop, call, acquiring, lockQueue, jobs>>

Progress ==
  \/ Start
  \/ \E c \in Call :
       \/ AcquireTokenSync(c) \/ Sent(c) \/ AcquireUncached(c) \/ Renewed(c)
       \/ EnterLock(c) \/ HoldLock(c) \/ Resume(c)
  \/ \E t \in Thread : AcquireBlocking(t) \/ TokenGranted(t) \/ TokenRefused(t)

Next ==
  \/ Progress
  \/ \E c \in Call : Issue(c)
  \/ \E s \in Scope : Expire(s)

\* Some thread or the loop goes on while one of them can.
Spec == Init /\ [][Next]_vars /\ WF_vars(Progress)

-------------------------------------------------------------------------------
\* The values the variables take, no more than Workers threads, and what waits for a
\* worker in the queue, once.
TypeOK ==
  /\ loop \in BOOLEAN
  /\ tokens \in [Scope -> {"none", "fresh", "stale"}]
  /\ call \in [Call -> Ended \cup
       {"queued", "checking", "submitted", "locked", "awaiting", "blocking", "requesting",
        "sending", "challenged", "renewing", "resending"}]
  /\ acquiring \in [Call -> {"off", "queued", "blocking", "requesting", "got", "refused"}]
  /\ lockQueue \in [Scope -> Seq(Call)]
  /\ jobs \in Seq(Thread)
  /\ Cardinality(Busy) <= Workers

\* "At most one token acquisition per audience at a time" (Req 19.5), by whichever road.
OneAcquisition == \A s \in Scope : Cardinality(Holder(s)) <= 1

\* A burst is served by one acquisition: none is made for the cache that finds a token
\* there another has left since.
BurstCollapses ==
  [][\A t \in Thread : Stage(t) = "requesting" /\ Stage(t)' = Got(t) => ~Cached(ScopeOf[t[1]])]_vars

\* What keeps a call from waiting for ever: something it waits for can go on.
CanMove ==
  \/ jobs # <<>> /\ Cardinality(Busy) < Workers
  \/ \E c \in Call :
       \/ call[c] \in {"checking", "sending", "resending", "renewing", "submitted"}
       \/ call[c] = "challenged" /\ Holder(ScopeOf[c]) = {}
       \/ call[c] = "locked" /\ Head(lockQueue[ScopeOf[c]]) = c
       \/ call[c] = "awaiting" /\ acquiring[c] \in {"got", "refused"}
  \/ \E t \in Thread :
       \/ Stage(t) = "requesting"
       \/ Stage(t) = "blocking" /\ Holder(ScopeOf[t[1]]) = {}

Unfinished == \E c \in Call : call[c] \notin Ended

\* Every worker is kept by a call that waits for its token, behind an acquisition that
\* no worker has begun.
Starved ==
  /\ Cardinality(Busy) = Workers
  /\ \A t \in Busy :
       /\ Stage(t) \in {"locked", "awaiting"}
       /\ acquiring[Head(lockQueue[ScopeOf[t[1]]])] = "queued"

\* The wait for the loop is unbounded since "a hang ... cannot happen" (acquire_token_sync).
\* It can, in one way: asyncio.to_thread takes a worker of the executor whose workers wait.
\* Locks, cache and challenges add no other.
HangsOnlyStarved == Unfinished => CanMove \/ Starved

\* A call that is made is answered or fails, unless the workers are starved, and then they
\* are for good.
EndsUnlessStarved ==
  \A c \in Call : call[c] # "idle" ~> (call[c] \in {"done", "failed"} \/ []Starved)

\* Refuted (README, section 11): "a hang that cannot happen".
NeverStuck == Unfinished => CanMove
================================================================================
