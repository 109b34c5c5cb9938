-------------------------- MODULE PresetEditorProofs ---------------------------
(***************************************************************************)
(* For any number of tabs, edits and publications: the revision keeps      *)
(* edits made elsewhere, but for the one a publication answers with.  The  *)
(* invariant says what a revision is worth: whoever holds the row's own,   *)
(* and did not learn it from a publication, has seen all of the draft.     *)
(***************************************************************************)
EXTENDS PresetEditor, TLAPS

\* Who holds revision rev of row w with the edits in D has seen the draft.
Current(w, rev, told, D) ==
  rev <= w.rev /\ (~told /\ rev = w.rev => w.draft \subseteq D)

TabsSeen == \A t \in Tab : tab[t].pc # "new" => Current(row, tab[t].rev, tab[t].told, tab[t].defn)
CallsSeen ==
  \A t \in Tab, c \in Call :
    /\ call[t][c].pc = "flies" =>
         /\ call[t][c].defn \subseteq tab[t].defn
         /\ Current(row, call[t][c].rev, call[t][c].told, call[t][c].defn)
    /\ call[t][c].pc = "saved" => Current(row, call[t][c].rev, FALSE, tab[t].defn)
    /\ call[t][c].pc # "free" => tab[t].pc # "new"
PostsKnown == \A t \in Tab : post[t].pc = "published" => post[t].rev <= row.rev

PInv == TypeOK /\ TabsSeen /\ CallsSeen /\ PostsKnown

-------------------------------------------------------------------------------
LEMMA PInit == Init => PInv
<1> SUFFICES ASSUME Init PROVE PInv
  OBVIOUS
<1>1. NoCall \in CallType /\ NoPost \in PostType
  BY DEF NoCall, NoPost, CallType, PostType
<1>2. row \in RowType /\ tab \in [Tab -> TabType]
  BY ConstantsAssumption DEF Init, RowType, TabType
<1>3. TypeOK
  BY <1>1, <1>2 DEF Init, TypeOK
<1> QED BY <1>3 DEF PInv, Init, TabsSeen, CallsSeen, PostsKnown, NoCall, NoPost

LEMMA POpen == ASSUME PInv, NEW t \in Tab, Open(t) PROVE PInv'
<1>1. row \in RowType /\ tab[t] \in TabType
  BY DEF PInv, TypeOK
<1>2. TypeOK'
  BY <1>1 DEF PInv, TypeOK, Open, TabType, RowType
<1>3. TabsSeen'
  BY <1>1 DEF PInv, TypeOK, Open, TabsSeen, Current, TabType, RowType
<1>4. CallsSeen'
  BY <1>1 DEF PInv, TypeOK, Open, CallsSeen, Current, TabType, RowType
<1> QED BY <1>2, <1>3, <1>4 DEF PInv, PostsKnown, Open

LEMMA PEdit == ASSUME PInv, NEW t \in Tab, Edit(t) PROVE PInv'
<1>1. row \in RowType /\ tab[t] \in TabType /\ tab \in [Tab -> TabType]
  BY DEF PInv, TypeOK
<1>2. <<t, tab[t].edits + 1>> \in Edits
  BY <1>1, ConstantsAssumption DEF Edit, Edits, TabType
<1>3. /\ tab'[t] \in TabType /\ tab[t].defn \subseteq tab'[t].defn
      /\ tab'[t].rev = tab[t].rev /\ tab'[t].told = tab[t].told /\ tab'[t].pc = "open"
      /\ \A u \in Tab : u # t => tab'[u] = tab[u]
      /\ tab' \in [Tab -> TabType] /\ tab[t].pc = "open"
  BY <1>1, <1>2, ConstantsAssumption DEF Edit, TabType
<1>4. TypeOK'
  BY <1>3 DEF PInv, TypeOK, Edit
<1>5. TabsSeen'
  BY <1>3 DEF PInv, Edit, TabsSeen, Current
<1>6. CallsSeen'
  BY <1>3 DEF PInv, Edit, CallsSeen, Current
<1> QED BY <1>4, <1>5, <1>6 DEF PInv, PostsKnown, Edit

\* What save() does to the tab and its calls.
LEMMA SaveMeans ==
  ASSUME PInv, NEW t \in Tab, NEW c \in Call, NEW p \in BOOLEAN, Save(t, c, p),
         tab[t].pc = "open", p => tab[t].publishes < MaxPublishes
  PROVE  /\ tab' \in [Tab -> TabType] /\ call' \in [Tab -> [Call -> CallType]]
         /\ \A u \in Tab : tab'[u].pc = tab[u].pc /\ tab'[u].rev = tab[u].rev
                           /\ tab'[u].told = tab[u].told /\ tab'[u].defn = tab[u].defn
         /\ \A u \in Tab, d \in Call : <<u, d>> # <<t, c>> => call'[u][d] = call[u][d]
         /\ call'[t][c].pc \in {"flies", "waits"}
         /\ call'[t][c].pc = "flies" =>
              /\ call'[t][c].defn = tab[t].defn /\ call'[t][c].rev = tab[t].rev
              /\ call'[t][c].told = tab[t].told
<1>1. /\ tab \in [Tab -> TabType] /\ call \in [Tab -> [Call -> CallType]]
      /\ tab[t] \in TabType /\ call[t] \in [Call -> CallType]
  BY DEF PInv, TypeOK
<1>2. (tab[t].publishes + (IF p THEN 1 ELSE 0)) \in 0..MaxPublishes
  BY <1>1, ConstantsAssumption DEF TabType
<1>3. PICK v \in CallType :
        /\ call' = [call EXCEPT ![t][c] = v] /\ v.pc \in {"flies", "waits"}
        /\ v.pc = "flies" => v.defn = tab[t].defn /\ v.rev = tab[t].rev
                             /\ v.told = tab[t].told
  <2>1. Request(t, p) \in CallType
    BY <1>1 DEF Request, TabType, CallType
  <2>2. [NoCall EXCEPT !.pc = "waits", !.on = tab[t].inFlight, !.publish = p] \in CallType
    BY <1>1 DEF NoCall, TabType, CallType
  <2>3. CASE tab[t].inFlight = None
    BY <2>1, <2>3 DEF Save, Request
  <2>4. CASE tab[t].inFlight # None
    BY <2>2, <2>4 DEF Save, NoCall
  <2> QED BY <2>3, <2>4
<1>4. PICK w \in TabType :
        /\ tab' = [tab EXCEPT ![t] = w] /\ w.pc = tab[t].pc /\ w.rev = tab[t].rev
        /\ w.told = tab[t].told /\ w.defn = tab[t].defn
  <2> DEFINE x == [tab[t] EXCEPT !.timer = FALSE, !.inFlight = c, !.failed = FALSE,
                                 !.publishes = @ + (IF p THEN 1 ELSE 0)]
             y == [tab[t] EXCEPT !.timer = FALSE,
                                 !.publishes = @ + (IF p THEN 1 ELSE 0)]
  <2>1. x \in TabType /\ y \in TabType
    BY <1>1, <1>2 DEF TabType
  <2>2. tab' = [tab EXCEPT ![t] = x] \/ tab' = [tab EXCEPT ![t] = y]
    BY <1>1 DEF Save, TabType
  <2>3. /\ x.pc = tab[t].pc /\ x.rev = tab[t].rev /\ x.told = tab[t].told
        /\ x.defn = tab[t].defn
        /\ y.pc = tab[t].pc /\ y.rev = tab[t].rev /\ y.told = tab[t].told
        /\ y.defn = tab[t].defn
    BY <1>1 DEF TabType
  <2> HIDE DEF x, y
  <2> QED BY <2>1, <2>2, <2>3
<1>5. call' \in [Tab -> [Call -> CallType]] /\ call'[t][c] = v
      /\ \A u \in Tab, d \in Call : <<u, d>> # <<t, c>> => call'[u][d] = call[u][d]
  BY <1>1, <1>3
<1>6. tab' \in [Tab -> TabType] /\ tab'[t] = w /\ \A u \in Tab : u # t => tab'[u] = tab[u]
  BY <1>1, <1>4
<1> QED BY <1>3, <1>4, <1>5, <1>6

LEMMA PSave ==
  ASSUME PInv, NEW t \in Tab, NEW c \in Call, NEW p \in BOOLEAN, Save(t, c, p),
         tab[t].pc = "open", p => tab[t].publishes < MaxPublishes, UNCHANGED row,
         post' \in [Tab -> PostType],
         \A u \in Tab : post'[u].pc = "published" => post'[u] = post[u]
  PROVE  PInv'
<1>1. /\ tab' \in [Tab -> TabType] /\ call' \in [Tab -> [Call -> CallType]]
      /\ \A u \in Tab : tab'[u].pc = tab[u].pc /\ tab'[u].rev = tab[u].rev
                        /\ tab'[u].told = tab[u].told /\ tab'[u].defn = tab[u].defn
      /\ \A u \in Tab, d \in Call : <<u, d>> # <<t, c>> => call'[u][d] = call[u][d]
      /\ call'[t][c].pc \in {"flies", "waits"}
      /\ call'[t][c].pc = "flies" =>
           /\ call'[t][c].defn = tab[t].defn /\ call'[t][c].rev = tab[t].rev
           /\ call'[t][c].told = tab[t].told
  BY SaveMeans
<1>2. TypeOK'
  BY <1>1 DEF PInv, TypeOK
<1>3. TabsSeen' /\ PostsKnown'
  BY <1>1 DEF PInv, TabsSeen, PostsKnown, Current
<1>4. CallsSeen'
  <2> SUFFICES ASSUME NEW u \in Tab, NEW d \in Call
               PROVE  /\ call'[u][d].pc = "flies" =>
                           /\ call'[u][d].defn \subseteq tab'[u].defn
                           /\ Current(row', call'[u][d].rev, call'[u][d].told, call'[u][d].defn)
                      /\ call'[u][d].pc = "saved" => Current(row', call'[u][d].rev, FALSE, tab'[u].defn)
                      /\ call'[u][d].pc # "free" => tab'[u].pc # "new"
    BY DEF CallsSeen, Current
  <2>1. CASE <<u, d>> = <<t, c>>
    BY <1>1, <2>1 DEF PInv, TabsSeen, Current
  <2>2. CASE <<u, d>> # <<t, c>>
    BY <1>1, <2>2 DEF PInv, CallsSeen, Current
  <2> QED BY <2>1, <2>2
<1> QED BY <1>2, <1>3, <1>4 DEF PInv

\* One call of save() replaced by m.
LEMMA OneCall ==
  ASSUME TypeOK, NEW t \in Tab, NEW c \in Call, NEW m \in CallType,
         call' = [call EXCEPT ![t][c] = m]
  PROVE  /\ call' \in [Tab -> [Call -> CallType]] /\ call'[t][c] = m
         /\ \A u \in Tab, d \in Call : <<u, d>> # <<t, c>> => call'[u][d] = call[u][d]
BY DEF TypeOK

LEMMA HeardMeans ==
  ASSUME PInv, NEW t \in Tab, NEW c \in Call, tab[t].pc = "open",
         call[t][c].pc \in {"saved", "refused"}
  PROVE  /\ Heard(t, c) \in TabType /\ Heard(t, c).pc = "open"
         /\ Heard(t, c).defn = tab[t].defn
         /\ Current(row, Heard(t, c).rev, Heard(t, c).told, Heard(t, c).defn)
<1>1. tab[t] \in TabType /\ call[t][c] \in CallType
  BY DEF PInv, TypeOK
<1>2. CASE call[t][c].pc = "saved"
  BY <1>1, <1>2 DEF Heard, PInv, CallsSeen, Current, TabType, CallType
<1>3. CASE call[t][c].pc = "refused"
  BY <1>1, <1>3 DEF Heard, PInv, TabsSeen, Current, TabType
<1> QED BY <1>2, <1>3

LEMMA PAnswer == ASSUME PInv, NEW t \in Tab, NEW c \in Call, Answer(t, c) PROVE PInv'
<1> DEFINE h == Heard(t, c)
           sent(d) == [pc |-> "flies", on |-> None, publish |-> call[t][d].publish,
                       defn |-> h.defn, rev |-> h.rev, told |-> h.told]
           cs == [d \in Call |-> IF d = c THEN NoCall
                                ELSE IF d \in Waiting(t, c) THEN sent(d) ELSE call[t][d]]
<1>1. /\ tab[t].pc = "open" /\ call[t][c].pc \in {"saved", "refused"}
      /\ call' = [call EXCEPT ![t] = cs] /\ row' = row
  BY DEF Answer
<1>2. /\ h \in TabType /\ h.pc = "open" /\ h.defn = tab[t].defn
      /\ Current(row, h.rev, h.told, h.defn)
  BY <1>1, HeardMeans
<1>3. PICK w \in TabType : /\ tab' = [tab EXCEPT ![t] = w] /\ w.pc = "open"
                           /\ w.rev = h.rev /\ w.told = h.told /\ w.defn = h.defn
  <2>1. CASE Waiting(t, c) = {}
    <3> DEFINE w == [h EXCEPT !.inFlight = None]
    <3>1. w \in TabType /\ w.pc = "open" /\ w.rev = h.rev /\ w.told = h.told
          /\ w.defn = h.defn
      BY <1>2 DEF TabType
    <3>2. tab' = [tab EXCEPT ![t] = w]
      BY <2>1 DEF Answer
    <3> HIDE DEF w
    <3> QED BY <3>1, <3>2
  <2>2. CASE Waiting(t, c) # {}
    <3>1. PICK last \in Waiting(t, c) :
            tab' = [tab EXCEPT ![t] = [h EXCEPT !.inFlight = last, !.failed = FALSE]]
      BY <2>2 DEF Answer
    <3> DEFINE w == [h EXCEPT !.inFlight = last, !.failed = FALSE]
    <3>2. w \in TabType /\ w.pc = "open" /\ w.rev = h.rev /\ w.told = h.told
          /\ w.defn = h.defn
      BY <1>2 DEF TabType, Waiting
    <3>3. tab' = [tab EXCEPT ![t] = w]
      BY <3>1
    <3> HIDE DEF w
    <3> QED BY <3>2, <3>3
  <2> QED BY <2>1, <2>2
<1>4. post' \in [Tab -> PostType]
      /\ \A u \in Tab : post'[u].pc = "published" => post'[u] = post[u]
  <2> DEFINE x == IF call[t][c].pc = "saved"
                  THEN [pc |-> "flies", defn |-> h.defn, rev |-> h.rev] ELSE NoPost
  <2>1. x \in PostType /\ x.pc # "published"
    BY <1>2 DEF PostType, TabType, NoPost
  <2>2. post' = post \/ post' = [post EXCEPT ![t] = x]
    BY DEF Answer
  <2>3. post \in [Tab -> PostType]
    BY DEF PInv, TypeOK
  <2> HIDE DEF x
  <2> QED BY <2>1, <2>2, <2>3
<1>5. \A d \in Call : sent(d) \in CallType
  BY <1>2 DEF PInv, TypeOK, TabType, CallType
<1>6. cs \in [Call -> CallType]
  <2>1. NoCall \in CallType /\ \A d \in Call : call[t][d] \in CallType
    BY DEF PInv, TypeOK, NoCall, CallType
  <2> HIDE DEF sent
  <2> QED BY <1>5, <2>1
<1>7. \A d \in Call :
        /\ cs[d].pc = "flies" => \/ /\ cs[d].defn = h.defn /\ cs[d].rev = h.rev
                                    /\ cs[d].told = h.told
                                 \/ cs[d] = call[t][d]
        /\ cs[d].pc = "saved" => cs[d] = call[t][d]
  BY DEF NoCall
<1> HIDE DEF cs, h, sent
<1>8. TypeOK'
  BY <1>1, <1>3, <1>4, <1>6 DEF PInv, TypeOK
<1>9. TabsSeen' /\ PostsKnown'
  BY <1>1, <1>2, <1>3, <1>4 DEF PInv, TypeOK, TabsSeen, PostsKnown, Current
<1>10. CallsSeen'
  <2>1. /\ tab'[t] = w /\ \A u \in Tab : u # t => tab'[u] = tab[u]
        /\ call'[t] = cs /\ \A u \in Tab : u # t => call'[u] = call[u]
    BY <1>1, <1>3 DEF PInv, TypeOK
  <2> SUFFICES ASSUME NEW u \in Tab, NEW d \in Call
               PROVE  /\ call'[u][d].pc = "flies" =>
                           /\ call'[u][d].defn \subseteq tab'[u].defn
                           /\ Current(row, call'[u][d].rev, call'[u][d].told, call'[u][d].defn)
                      /\ call'[u][d].pc = "saved" => Current(row, call'[u][d].rev, FALSE, tab'[u].defn)
                      /\ call'[u][d].pc # "free" => tab'[u].pc # "new"
    BY <1>1 DEF CallsSeen
  <2>2. CASE u = t
    <3>1. /\ call'[u][d] = cs[d] /\ tab'[u].pc = "open" /\ tab'[u].defn = h.defn
          /\ tab[t].defn = h.defn
      BY <1>2, <1>3, <2>1, <2>2
    <3>2. CASE cs[d] = call[t][d]
      BY <3>1, <3>2, <2>2 DEF PInv, CallsSeen
    <3>3. CASE cs[d].defn = h.defn /\ cs[d].rev = h.rev /\ cs[d].told = h.told
      BY <1>2, <1>7, <3>1, <3>2, <3>3
    <3> QED BY <1>7, <3>1, <3>2, <3>3
  <2>3. CASE u # t
    BY <2>1, <2>3 DEF PInv, CallsSeen
  <2> QED BY <2>2, <2>3
<1> QED BY <1>8, <1>9, <1>10 DEF PInv

LEMMA PPublishAnswer == ASSUME PInv, NEW t \in Tab, PublishAnswer(t) PROVE PInv'
<1>1. /\ post[t] \in PostType /\ NoPost \in PostType /\ tab[t] \in TabType
      /\ row \in RowType /\ NoPost.pc = "idle"
  BY DEF PInv, TypeOK, NoPost, PostType
<1>2. TypeOK'
  BY <1>1 DEF PInv, TypeOK, PublishAnswer, TabType, PostType
<1>3. /\ row' = row /\ call' = call
      /\ \A u \in Tab : tab'[u].pc = tab[u].pc /\ tab'[u].defn = tab[u].defn
      /\ \A u \in Tab : \/ tab'[u].rev = tab[u].rev /\ tab'[u].told = tab[u].told
                        \/ tab'[u].told /\ tab'[u].rev <= row.rev
      /\ \A u \in Tab : post'[u].pc = "published" => post'[u] = post[u]
  BY <1>1 DEF PInv, TypeOK, PublishAnswer, PostsKnown, TabType
<1>4. TabsSeen' /\ CallsSeen' /\ PostsKnown'
  BY <1>3 DEF PInv, TabsSeen, CallsSeen, PostsKnown, Current
<1> QED BY <1>2, <1>4 DEF PInv

LEMMA PClose == ASSUME PInv, NEW t \in Tab, Close(t) PROVE PInv'
<1>1. tab[t] \in TabType /\ tab[t].pc = "open" /\ row' = row /\ post' = post
  BY DEF PInv, TypeOK, Close
<1>2. /\ tab' \in [Tab -> TabType]
      /\ \A u \in Tab : /\ tab'[u].defn = tab[u].defn /\ tab'[u].rev = tab[u].rev
                        /\ tab'[u].told = tab[u].told
                        /\ (tab'[u].pc = "new") <=> (tab[u].pc = "new")
  BY <1>1 DEF PInv, TypeOK, Close, TabType
<1>3. Request(t, FALSE) \in CallType /\ Request(t, FALSE).pc = "flies"
      /\ Request(t, FALSE).defn = tab[t].defn /\ Request(t, FALSE).rev = tab[t].rev
      /\ Request(t, FALSE).told = tab[t].told
  BY <1>1 DEF Request, CallType, TabType
<1>4. /\ call' \in [Tab -> [Call -> CallType]]
      /\ \A u \in Tab, d \in Call :
           call'[u][d] = call[u][d] \/ (u = t /\ call'[u][d] = Request(t, FALSE))
  <2>1. call' = call \/ \E c \in Call : call' = [call EXCEPT ![t][c] = Request(t, FALSE)]
    BY DEF Close
  <2>2. ASSUME NEW c \in Call, call' = [call EXCEPT ![t][c] = Request(t, FALSE)]
        PROVE  /\ call' \in [Tab -> [Call -> CallType]] /\ call'[t][c] = Request(t, FALSE)
               /\ \A u \in Tab, d \in Call : <<u, d>> # <<t, c>> => call'[u][d] = call[u][d]
    BY <1>3, <2>2, OneCall DEF PInv
  <2> QED BY <2>1, <2>2 DEF PInv, TypeOK
<1>5. TypeOK'
  BY <1>1, <1>2, <1>4 DEF PInv, TypeOK
<1>6. TabsSeen' /\ PostsKnown'
  BY <1>1, <1>2 DEF PInv, TabsSeen, PostsKnown, Current
<1>7. CallsSeen'
  <2> SUFFICES ASSUME NEW u \in Tab, NEW d \in Call
               PROVE  /\ call'[u][d].pc = "flies" =>
                           /\ call'[u][d].defn \subseteq tab[u].defn
                           /\ Current(row, call'[u][d].rev, call'[u][d].told, call'[u][d].defn)
                      /\ call'[u][d].pc = "saved" => Current(row, call'[u][d].rev, FALSE, tab[u].defn)
                      /\ call'[u][d].pc # "free" => tab[u].pc # "new"
    BY <1>1, <1>2 DEF CallsSeen
  <2>1. CASE call'[u][d] = call[u][d]
    BY <2>1 DEF PInv, CallsSeen
  <2>2. CASE u = t /\ call'[u][d] = Request(t, FALSE)
    BY <1>1, <1>3, <2>2 DEF PInv, TabsSeen
  <2> QED BY <1>4, <2>1, <2>2
<1> QED BY <1>5, <1>6, <1>7 DEF PInv

LEMMA PRefused ==
  ASSUME PInv, NEW t \in Tab, NEW c \in Call, NEW m \in CallType, m.pc = "refused",
         call[t][c].pc # "free", call' = [call EXCEPT ![t][c] = m],
         UNCHANGED <<row, tab, post>>
  PROVE  PInv'
<1>1. /\ call' \in [Tab -> [Call -> CallType]] /\ call'[t][c] = m
      /\ \A u \in Tab, d \in Call : <<u, d>> # <<t, c>> => call'[u][d] = call[u][d]
  BY DEF PInv, TypeOK
<1>2. TypeOK' /\ TabsSeen' /\ PostsKnown'
  BY <1>1 DEF PInv, TypeOK, TabsSeen, PostsKnown
<1>3. CallsSeen'
  <2> SUFFICES ASSUME NEW u \in Tab, NEW d \in Call
               PROVE  /\ call'[u][d].pc = "flies" =>
                           /\ call'[u][d].defn \subseteq tab[u].defn
                           /\ Current(row, call'[u][d].rev, call'[u][d].told, call'[u][d].defn)
                      /\ call'[u][d].pc = "saved" => Current(row, call'[u][d].rev, FALSE, tab[u].defn)
                      /\ call'[u][d].pc # "free" => tab[u].pc # "new"
    BY DEF CallsSeen
  <2>1. CASE <<u, d>> = <<t, c>>
    BY <1>1, <2>1 DEF PInv, CallsSeen
  <2>2. CASE <<u, d>> # <<t, c>>
    BY <1>1, <2>2 DEF PInv, CallsSeen
  <2> QED BY <2>1, <2>2
<1> QED BY <1>2, <1>3 DEF PInv

LEMMA PPatch == ASSUME PInv, NEW t \in Tab, NEW c \in Call, PatchArrives(t, c) PROVE PInv'
<1> DEFINE m == call[t][c]
<1>1. row \in RowType /\ m \in CallType /\ m.pc = "flies" /\ tab' = tab /\ post' = post
  BY DEF PInv, TypeOK, PatchArrives
<1>2. CASE ~Matches(m.rev)
  <2> DEFINE n == [m EXCEPT !.pc = "refused"]
  <2>1. row' = row /\ call' = [call EXCEPT ![t][c] = n]
    BY <1>2 DEF PatchArrives, PInv, TypeOK
  <2>2. n \in CallType /\ n.pc = "refused"
    BY <1>1 DEF CallType
  <2> HIDE DEF n
  <2> QED BY <1>1, <2>1, <2>2, PRefused
<1>3. CASE Matches(m.rev)
  <2> DEFINE n == [m EXCEPT !.pc = "saved", !.rev = row.rev + 1]
             w == [row EXCEPT !.draft = m.defn, !.rev = @ + 1]
  <2>0. row.rev + 1 \in Nat /\ m.defn \in SUBSET Edits
    BY <1>1 DEF RowType, CallType
  <2>1. /\ row' = w /\ call' = [call EXCEPT ![t][c] = n]
    BY <1>3 DEF PatchArrives, PInv, TypeOK
  <2>2. w \in RowType /\ w.rev = row.rev + 1 /\ w.draft = m.defn
    BY <1>1, <2>0 DEF RowType
  <2>3. n \in CallType /\ n.pc = "saved" /\ n.rev = row.rev + 1
    BY <1>1, <2>0 DEF CallType
  <2> HIDE DEF n, w
  <2>4. /\ call' \in [Tab -> [Call -> CallType]] /\ call'[t][c] = n
        /\ \A u \in Tab, d \in Call : <<u, d>> # <<t, c>> => call'[u][d] = call[u][d]
    BY <2>1, <2>3, OneCall DEF PInv
  <2>5. m.defn \subseteq tab[t].defn /\ row.rev \in Nat
    BY <1>1 DEF PInv, CallsSeen, RowType
  <2>6. /\ \A u \in Tab : tab[u].rev \in Nat /\ post[u].rev \in Nat
        /\ \A u \in Tab, d \in Call : call[u][d].rev \in Nat
    BY DEF PInv, TypeOK, TabType, PostType, CallType
  <2>7. TypeOK'
    BY <1>1, <2>1, <2>2, <2>4 DEF PInv, TypeOK
  <2>8. TabsSeen' /\ PostsKnown'
    BY <1>1, <2>1, <2>2, <2>5, <2>6 DEF PInv, TabsSeen, PostsKnown, Current
  <2>9. CallsSeen'
    <3> SUFFICES ASSUME NEW u \in Tab, NEW d \in Call
                 PROVE  /\ call'[u][d].pc = "flies" =>
                             /\ call'[u][d].defn \subseteq tab[u].defn
                             /\ Current(row', call'[u][d].rev, call'[u][d].told, call'[u][d].defn)
                        /\ call'[u][d].pc = "saved" => Current(row', call'[u][d].rev, FALSE, tab[u].defn)
                        /\ call'[u][d].pc # "free" => tab[u].pc # "new"
      BY <1>1 DEF CallsSeen
    <3>1. CASE <<u, d>> = <<t, c>>
      BY <1>1, <2>1, <2>2, <2>3, <2>4, <2>5, <3>1 DEF PInv, CallsSeen, Current
    <3>2. CASE <<u, d>> # <<t, c>>
      BY <1>1, <2>1, <2>2, <2>4, <2>5, <2>6, <3>2 DEF PInv, CallsSeen, Current
    <3> QED BY <3>1, <3>2
  <2> QED BY <2>7, <2>8, <2>9 DEF PInv
<1> QED BY <1>2, <1>3

LEMMA InsertedMeans ==
  ASSUME row \in RowType, NEW D \in SUBSET Edits
  PROVE  /\ Inserted(D) \in RowType /\ Inserted(D).draft = row.draft
         /\ Inserted(D) = row \/ Inserted(D).rev = row.rev + 1
         /\ VersionsDiffer => \A n \in DOMAIN Inserted(D).versions :
              n > 1 => Inserted(D).versions[n] # Inserted(D).versions[n - 1]
<1>1. CASE row.versions # <<>> /\ row.versions[Len(row.versions)] = D
  BY <1>1 DEF Inserted, VersionsDiffer
<1>2. CASE ~(row.versions # <<>> /\ row.versions[Len(row.versions)] = D)
  <2> DEFINE v == Append(row.versions, D)
             w == [row EXCEPT !.versions = v, !.current = Len(row.versions) + 1,
                              !.rev = @ + 1]
  <2>1. Inserted(D) = w
    BY <1>2 DEF Inserted
  <2>2. v \in Seq(SUBSET Edits) /\ Len(v) = Len(row.versions) + 1 /\ v[Len(v)] = D
        /\ \A n \in 1..Len(row.versions) : v[n] = row.versions[n]
    BY DEF RowType
  <2>4. row.versions \in Seq(SUBSET Edits) /\ Len(row.versions) + 1 \in Nat
        /\ row.rev + 1 \in Nat
    BY DEF RowType
  <2> HIDE DEF v
  <2>3. w \in RowType /\ w.draft = row.draft /\ w.rev = row.rev + 1 /\ w.versions = v
    BY <2>2, <2>4 DEF RowType
  <2> USE DEF v
  <2>5. VersionsDiffer => \A n \in DOMAIN v : n > 1 => v[n] # v[n - 1]
    <3> SUFFICES ASSUME VersionsDiffer, NEW n \in 1..Len(v), n > 1
                 PROVE  v[n] # v[n - 1]
      BY <2>2
    <3> HIDE DEF v
    <3>1. CASE n = Len(v)
      BY <1>2, <2>2, <2>4, <3>1
    <3>2. CASE n # Len(v)
      <4>1. n \in 1..Len(row.versions) /\ n - 1 \in 1..Len(row.versions)
        BY <2>2, <2>4, <3>2
      <4>2. n \in DOMAIN row.versions /\ n > 1
        BY <2>4, <4>1
      <4>3. row.versions[n] # row.versions[n - 1]
        BY <4>2 DEF VersionsDiffer
      <4> QED BY <2>2, <4>1, <4>3
    <3> QED BY <3>1, <3>2
  <2> HIDE DEF v, w
  <2> QED BY <2>1, <2>3, <2>5
<1> QED BY <1>1, <1>2

LEMMA PPostArrives == ASSUME PInv, NEW t \in Tab, PostArrives(t) PROVE PInv'
<1>1. /\ row \in RowType /\ post[t] \in PostType /\ tab' = tab /\ call' = call
      /\ row.rev \in Nat /\ post[t].defn \in SUBSET Edits
  BY DEF PInv, TypeOK, PostArrives, RowType, PostType
<1>2. /\ row' \in RowType /\ row'.draft = row.draft
      /\ row' = row \/ row'.rev = row.rev + 1
  BY <1>1, InsertedMeans DEF PostArrives
<1>3. /\ post' \in [Tab -> PostType]
      /\ \A u \in Tab : post'[u].pc = "published" => post'[u] = post[u]
  <2> DEFINE p == [post[t] EXCEPT !.pc = "committed"]
             q == [post[t] EXCEPT !.pc = "refused"]
  <2>1. p \in PostType /\ p.pc = "committed" /\ q \in PostType /\ q.pc = "refused"
    BY <1>1 DEF PostType
  <2>2. post' = [post EXCEPT ![t] = p] \/ post' = [post EXCEPT ![t] = q]
    BY DEF PostArrives, PInv, TypeOK
  <2> HIDE DEF p, q
  <2> QED BY <2>1, <2>2 DEF PInv, TypeOK
<1>4. TypeOK'
  BY <1>1, <1>2, <1>3 DEF PInv, TypeOK
<1>5. /\ \A u \in Tab : tab[u].rev \in Nat /\ post[u].rev \in Nat
      /\ \A u \in Tab, d \in Call : call[u][d].rev \in Nat
  BY DEF PInv, TypeOK, TabType, PostType, CallType
<1>6. TabsSeen' /\ CallsSeen' /\ PostsKnown'
  BY <1>1, <1>2, <1>3, <1>5 DEF PInv, TabsSeen, CallsSeen, PostsKnown, Current
<1> QED BY <1>4, <1>6 DEF PInv

LEMMA PPostReads == ASSUME PInv, NEW t \in Tab, PostReads(t) PROVE PInv'
<1>1. /\ row \in RowType /\ post[t] \in PostType /\ row.rev \in Nat
      /\ tab' = tab /\ call' = call /\ row' = row
  BY DEF PInv, TypeOK, PostReads, RowType
<1>2. /\ post' \in [Tab -> PostType]
      /\ \A u \in Tab : post'[u].pc = "published" =>
           post'[u] = post[u] \/ post'[u].rev = row.rev
  <2> DEFINE p == IF row.gone THEN [post[t] EXCEPT !.pc = "refused"]
                  ELSE [post[t] EXCEPT !.pc = "published", !.rev = row.rev]
  <2>1. p \in PostType /\ (p.pc = "published" => p.rev = row.rev)
    BY <1>1 DEF PostType
  <2>2. post' = [post EXCEPT ![t] = p]
    BY DEF PostReads
  <2> HIDE DEF p
  <2> QED BY <2>1, <2>2 DEF PInv, TypeOK
<1>3. TypeOK' /\ TabsSeen' /\ CallsSeen'
  BY <1>1, <1>2 DEF PInv, TypeOK, TabsSeen, CallsSeen
<1>4. PostsKnown'
  BY <1>1, <1>2 DEF PInv, PostsKnown
<1> QED BY <1>3, <1>4 DEF PInv

LEMMA PLost == ASSUME PInv, NEW t \in Tab, Lost(t) PROVE PInv'
<1>1. CASE \E c \in Call : /\ call[t][c].pc \in {"flies", "saved"}
                           /\ call' = [call EXCEPT ![t][c].pc = "refused"]
                           /\ post' = post
  <2>1. PICK c \in Call : /\ call[t][c].pc \in {"flies", "saved"}
                          /\ call' = [call EXCEPT ![t][c].pc = "refused"]
                          /\ post' = post
    BY <1>1
  <2> DEFINE n == [call[t][c] EXCEPT !.pc = "refused"]
  <2>2. call[t][c] \in CallType /\ call' = [call EXCEPT ![t][c] = n]
    BY <2>1 DEF PInv, TypeOK
  <2>3. n \in CallType /\ n.pc = "refused"
    BY <2>2 DEF CallType
  <2> HIDE DEF n
  <2>4. call[t][c].pc # "free" /\ UNCHANGED <<row, tab, post>>
    BY <2>1 DEF Lost
  <2> QED BY <2>2, <2>3, <2>4, PRefused
<1>2. CASE /\ post' = [post EXCEPT ![t].pc = "refused"]
           /\ call' = call
  <2> DEFINE p == [post[t] EXCEPT !.pc = "refused"]
  <2>1. post[t] \in PostType /\ post' = [post EXCEPT ![t] = p]
    BY <1>2 DEF PInv, TypeOK
  <2>2. p \in PostType /\ p.pc = "refused"
    BY <2>1 DEF PostType
  <2> HIDE DEF p
  <2>3. /\ post' \in [Tab -> PostType]
        /\ \A u \in Tab : post'[u].pc = "published" => post'[u] = post[u]
    BY <2>1, <2>2 DEF PInv, TypeOK
  <2>4. UNCHANGED <<row, tab, call>>
    BY <1>2 DEF Lost
  <2> QED BY <2>3, <2>4 DEF PInv, TypeOK, TabsSeen, CallsSeen, PostsKnown
<1> QED BY <1>1, <1>2 DEF Lost

LEMMA PDelete == ASSUME PInv, Delete PROVE PInv'
<1>1. row \in RowType /\ UNCHANGED <<tab, call, post>>
  BY DEF PInv, TypeOK, Delete
<1>2. row' \in RowType /\ row'.rev = row.rev /\ row'.draft = {}
  <2>1. <<>> \in Seq(SUBSET Edits)
    OBVIOUS
  <2> QED BY <1>1, <2>1 DEF Delete, RowType
<1> QED BY <1>1, <1>2 DEF PInv, TypeOK, TabsSeen, CallsSeen, PostsKnown, Current

LEMMA PStep == PInv /\ [Next]_vars => PInv'
<1> SUFFICES ASSUME PInv, [Next]_vars PROVE PInv'
  OBVIOUS
<1>1. ASSUME NEW t \in Tab, TimerFires(t) PROVE PInv'
  <2>1. PICK c \in Call : Save(t, c, FALSE)
    BY <1>1 DEF TimerFires
  <2>2. tab[t].pc = "open" /\ UNCHANGED <<row, post>> /\ post' \in [Tab -> PostType]
    BY <1>1 DEF TimerFires, PInv, TypeOK
  <2> QED BY <2>1, <2>2, PSave
<1>2. ASSUME NEW t \in Tab, Publish(t) PROVE PInv'
  <2>1. PICK c \in Call : Save(t, c, TRUE)
    BY <1>2 DEF Publish
  <2> DEFINE p == [post[t] EXCEPT !.pc = "saving"]
  <2>2. /\ tab[t].pc = "open" /\ tab[t].publishes < MaxPublishes /\ UNCHANGED row
        /\ post[t] \in PostType /\ post' = [post EXCEPT ![t] = p]
    BY <1>2 DEF Publish, PInv, TypeOK
  <2>3. p \in PostType /\ p.pc = "saving"
    BY <2>2 DEF PostType
  <2> HIDE DEF p
  <2>4. /\ post' \in [Tab -> PostType]
        /\ \A u \in Tab : post'[u].pc = "published" => post'[u] = post[u]
    BY <2>2, <2>3 DEF PInv, TypeOK
  <2> QED BY <2>1, <2>2, <2>4, PSave
<1>3. CASE UNCHANGED vars
  BY <1>3 DEF PInv, TypeOK, TabsSeen, CallsSeen, PostsKnown, vars
<1> QED BY <1>1, <1>2, <1>3, POpen, PEdit, PPublishAnswer, PClose, PAnswer, PPatch,
           PPostArrives, PPostReads, PLost, PDelete DEF Next

-------------------------------------------------------------------------------
(***************************************************************************)
(* The theorems.                                                           *)
(***************************************************************************)

\* The values the variables take, and what a revision is worth.
THEOREM PresetInvariance == Spec => []PInv
BY PInit, PStep, PTL DEF Spec

\* A preset, its drafts and its versions stay of the values they may have (lib/templates).
THEOREM PresetTypes == Spec => []TypeOK
<1>1. PInv => TypeOK
  BY DEF PInv
<1> QED BY <1>1, PresetInvariance, PTL

\* No two versions in a row are the same definition (store.ts, attemptInsertVersion).
THEOREM VersionsAlwaysDiffer == Spec => []VersionsDiffer
<1>1. Init => VersionsDiffer
  BY DEF Init, VersionsDiffer
<1>2. ASSUME PInv, VersionsDiffer, [Next]_vars PROVE VersionsDiffer'
  <2>1. ASSUME NEW t \in Tab, PostArrives(t) PROVE VersionsDiffer'
    <3>1. row \in RowType /\ post[t].defn \in SUBSET Edits
      BY <1>2 DEF PInv, TypeOK, PostType
    <3>2. row' = row \/ row' = Inserted(post[t].defn)
      BY <2>1 DEF PostArrives
    <3>3. CASE row' = row
      BY <1>2, <3>3 DEF VersionsDiffer
    <3>4. CASE row' = Inserted(post[t].defn)
      <4>1. \A n \in DOMAIN Inserted(post[t].defn).versions :
              n > 1 => Inserted(post[t].defn).versions[n]
                         # Inserted(post[t].defn).versions[n - 1]
        BY <1>2, <3>1, InsertedMeans
      <4> QED BY <3>4, <4>1 DEF VersionsDiffer
    <3> QED BY <3>2, <3>3, <3>4
  <2>2. ASSUME Delete PROVE VersionsDiffer'
    <3>1. row'.versions = <<>>
      BY <1>2, <2>2 DEF Delete, PInv, TypeOK, RowType
    <3> QED BY <3>1 DEF VersionsDiffer
  <2>3. ASSUME NEW t \in Tab, NEW c \in Call, PatchArrives(t, c) PROVE VersionsDiffer'
    <3>1. row'.versions = row.versions
      BY <1>2, <2>3 DEF PatchArrives, PInv, TypeOK, RowType
    <3> QED BY <1>2, <3>1 DEF VersionsDiffer
  <2>4. ASSUME row' = row PROVE VersionsDiffer'
    BY <1>2, <2>4 DEF VersionsDiffer
  <2> QED
    BY <1>2, <2>1, <2>2, <2>3, <2>4 DEF Next, vars, Open, Edit, TimerFires, Publish,
       Answer, PublishAnswer, Close, PostReads, Lost
<1> QED BY <1>1, <1>2, PresetInvariance, PTL DEF Spec

\* The step that replaces the draft.
LEMMA OnlyTold ==
  ASSUME PInv, [Next]_vars
  PROVE  \/ row'.gone \/ row.draft \subseteq row'.draft
         \/ \E t \in Tab, c \in Call : call[t][c].pc = "flies" /\ call[t][c].told
<1>1. ASSUME NEW t \in Tab, NEW c \in Call, PatchArrives(t, c), ~call[t][c].told
      PROVE  row.draft \subseteq row'.draft
  <2>1. call[t][c].pc = "flies" /\ row \in RowType
    BY <1>1 DEF PatchArrives, PInv, TypeOK
  <2>2. CASE Matches(call[t][c].rev)
    <3>1. row.draft \subseteq call[t][c].defn
      BY <1>1, <2>1, <2>2 DEF PInv, CallsSeen, Current, Matches
    <3>2. row'.draft = call[t][c].defn
      BY <1>1, <2>1, <2>2 DEF PatchArrives, RowType
    <3> QED BY <3>1, <3>2
  <2>3. CASE ~Matches(call[t][c].rev)
    BY <1>1, <2>3 DEF PatchArrives
  <2> QED BY <2>2, <2>3
<1>2. ASSUME NEW t \in Tab, PostArrives(t) PROVE row.draft \subseteq row'.draft
  BY <1>2, InsertedMeans DEF PostArrives, PInv, TypeOK, PostType
<1>3. ASSUME Delete PROVE row'.gone
  BY <1>3 DEF Delete, PInv, TypeOK, RowType
<1>4. ASSUME NEW t \in Tab, NEW c \in Call, PatchArrives(t, c)
      PROVE  call[t][c].pc = "flies"
  BY <1>4 DEF PatchArrives
<1>5. ASSUME row' = row PROVE row.draft \subseteq row'.draft
  BY <1>5
<1> QED
  BY <1>1, <1>2, <1>3, <1>4, <1>5 DEF Next, vars, Open, Edit, TimerFires, Publish,
     Answer, PublishAnswer, Close, PostReads, Lost

\* Only a save sent with the revision of a publication can overwrite what its tab
\* has not seen (use-autosave.ts, patchTemplate).
THEOREM RevisionKeepsEdits == Spec => OverwrittenOnlyAfterPublishing
<1>1. PInv /\ [Next]_vars =>
        [\/ row'.gone \/ row.draft \subseteq row'.draft
         \/ \E t \in Tab, c \in Call : call[t][c].pc = "flies" /\ call[t][c].told]_vars
  BY OnlyTold
<1> QED BY <1>1, PresetInvariance, PTL DEF Spec, OverwrittenOnlyAfterPublishing
================================================================================
