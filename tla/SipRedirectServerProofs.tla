----------------------- MODULE SipRedirectServerProofs -----------------------
(***************************************************************************)
(* The redirect server implements RedirectContract, for any number of      *)
(* requests and redirectors: an invariant, facts about the operations,     *)
(* that every step keeps the invariant, and that every step is a step of   *)
(* RedirectContract or changes nothing in it.                              *)
(*                                                                         *)
(* The invariant says what the sequence number, the count and the flags of *)
(* a suspend object have to do with the searches that are going on and the *)
(* restarts that are in the queue.  A restart is accepted on the strength  *)
(* of a number and an index alone, so all of it is needed.                 *)
(***************************************************************************)
EXTENDS SipRedirectServer, FiniteSetTheorems, TLAPS

\* What each step is tried with, and for how long.
USE ZenonT(5), SMTT(20), ZenonT(60)

Types ==
    /\ queue \in Seq(Message)
    /\ pass # NULL => pass \in Pass
    /\ mSuspendList \in [DOMAIN mSuspendList -> Suspended]
    /\ DOMAIN mSuspendList \subseteq Nat
    /\ mNextSeqNo \in Nat
    /\ stage \in [Requests -> {"unseen", "queued", "taken"}]
    /\ number \in [Requests -> Nat]
    /\ searching \in [Requests -> SUBSET Redirectors]
    /\ owed \in [Requests -> SUBSET Redirectors]
    /\ reply \in [Requests -> Reply]

\* A suspend object: its number, its count, and the searches of its request.
ObjectOK(k, object) ==
    /\ k < mNextSeqNo
    /\ stage[object.mMessage] = "taken"
    /\ object.mSuspendCount = Cardinality(object.suspended)
    /\ object.needsCancel \subseteq Active
    /\ owed[object.mMessage] = object.needsCancel
    /\ searching[object.mMessage] \subseteq object.suspended
    /\ searching[object.mMessage] # {} => number[object.mMessage] = k

Objects ==
    /\ \A k \in DOMAIN mSuspendList : ObjectOK(k, mSuspendList[k])
    /\ \A k, n \in DOMAIN mSuspendList : mSuspendList[k].mMessage = mSuspendList[n].mMessage => k = n

\* A request: what holds when it has no suspend object, or is not taken yet.
RequestOK(r) ==
    /\ Listed(r) = {} => owed[r] = {}
    /\ searching[r] # {} =>
          /\ number[r] < mNextSeqNo
          /\ number[r] \in DOMAIN mSuspendList => mSuspendList[number[r]].mMessage = r
    /\ stage[r] # "taken" => searching[r] = {} /\ reply[r].failures = 0

\* A message of the queue: a request is not taken, a restart finds its redirector
\* suspended if it finds the request.
MessageOK(m) ==
    /\ m.type = "PHONE_APP" => stage[m.req] = "queued"
    /\ m.type = "REDIRECT_RESTART" =>
          /\ m.seqNo < mNextSeqNo
          /\ m.seqNo \in DOMAIN mSuspendList =>
                /\ m.redirector \in mSuspendList[m.seqNo].suspended
                /\ m.redirector \notin searching[mSuspendList[m.seqNo].mMessage]

\* No two messages are about the same.
Same(m1, m2) ==
    \/ m1.type = "PHONE_APP" /\ m2.type = "PHONE_APP" /\ m1.req = m2.req
    \/ /\ m1.type = "REDIRECT_RESTART" /\ m2.type = "REDIRECT_RESTART"
       /\ m1.seqNo = m2.seqNo /\ m1.redirector = m2.redirector
       /\ m1.seqNo \in DOMAIN mSuspendList

Queued ==
    /\ \A j \in 1..Len(queue) : MessageOK(queue[j])
    /\ \A j1, j2 \in 1..Len(queue) : j1 # j2 => ~Same(queue[j1], queue[j2])

\* The execution of processRedirect.
PassOK ==
    /\ stage[pass.req] = "taken"
    /\ pass.first => reply[pass.req].failures = 0
    /\ pass.willSuspend => pass.seqNo \in DOMAIN mSuspendList
                           /\ mSuspendList[pass.seqNo].suspended # {}
    /\ IF pass.seqNo \in DOMAIN mSuspendList
       THEN /\ mSuspendList[pass.seqNo].mMessage = pass.req
            /\ \A i \in mSuspendList[pass.seqNo].suspended : i < pass.at
       ELSE /\ pass.seqNo = mNextSeqNo
            /\ searching[pass.req] = {}
            /\ Listed(pass.req) = {}

Inv ==
    /\ Types
    /\ Objects
    /\ \A r \in Requests : RequestOK(r)
    /\ Queued
    /\ pass # NULL => PassOK
-----------------------------------------------------------------------------
\* What Append and Tail do, by index.
LEMMA AppendFacts ==
    ASSUME NEW S, NEW q \in Seq(S), NEW m \in S
    PROVE  /\ Append(q, m) \in Seq(S)
           /\ Len(Append(q, m)) = Len(q) + 1
           /\ Len(q) \in Nat
           /\ \A j \in 1..Len(q) : Append(q, m)[j] = q[j] /\ q[j] \in S
           /\ Append(q, m)[Len(q) + 1] = m
  OBVIOUS

LEMMA TailFacts ==
    ASSUME NEW S, NEW q \in Seq(S), q # <<>>
    PROVE  /\ Tail(q) \in Seq(S)
           /\ Len(q) \in Nat /\ Len(q) >= 1
           /\ Len(Tail(q)) = Len(q) - 1
           /\ \A j \in 1..Len(Tail(q)) : Tail(q)[j] = q[j + 1] /\ j + 1 \in 1..Len(q)
           /\ Head(q) = q[1] /\ q[1] \in S
  OBVIOUS

\* The head of the queue goes: what is left keeps its properties.
LEMMA HandlingFacts ==
    ASSUME Inv, NEW type, Handling(type)
    PROVE  /\ pass = NULL
           /\ Head(queue) \in Message /\ Head(queue).type = type
           /\ MessageOK(Head(queue))
           /\ queue' \in Seq(Message) /\ Len(queue') \in Nat
           /\ \A j \in 1..Len(queue') :
                 queue'[j] \in Message /\ MessageOK(queue'[j]) /\ ~Same(Head(queue), queue'[j])
           /\ \A j1, j2 \in 1..Len(queue') : j1 # j2 => ~Same(queue'[j1], queue'[j2])
<1>1. pass = NULL /\ queue # <<>> /\ queue \in Seq(Message) /\ queue' = Tail(queue)
      /\ Head(queue).type = type
  BY DEF Handling, Inv, Types
<1>2. /\ queue' \in Seq(Message)
      /\ Len(queue) \in Nat /\ Len(queue) >= 1 /\ Len(queue') = Len(queue) - 1
      /\ \A j \in 1..Len(queue') : queue'[j] = queue[j + 1] /\ j + 1 \in 1..Len(queue)
      /\ Head(queue) = queue[1] /\ queue[1] \in Message
  BY <1>1, TailFacts
<1>3. \A j \in 1..Len(queue) : MessageOK(queue[j]) /\ queue[j] \in Message
  BY <1>1 DEF Inv, Queued
<1>4. \A j1, j2 \in 1..Len(queue) : j1 # j2 => ~Same(queue[j1], queue[j2])
  BY DEF Inv, Queued
<1>5. \A j \in 1..Len(queue') : ~Same(Head(queue), queue'[j])
  BY <1>2, <1>4
<1>6. \A j1, j2 \in 1..Len(queue') : j1 # j2 => ~Same(queue'[j1], queue'[j2])
  BY <1>2, <1>4, SMTT(30)
<1>7. \A j \in 1..Len(queue') : queue'[j] \in Message /\ MessageOK(queue'[j])
  BY <1>2, <1>3
<1>8. MessageOK(Head(queue)) /\ Len(queue') \in Nat
  BY <1>2, <1>3
<1> QED
  BY <1>1, <1>2, <1>5, <1>6, <1>7, <1>8

LEMMA QueueFacts ==
    ASSUME Inv
    PROVE  /\ queue \in Seq(Message)
           /\ \A j \in 1..Len(queue) : queue[j] \in Message /\ MessageOK(queue[j])
           /\ \A j1, j2 \in 1..Len(queue) : j1 # j2 => ~Same(queue[j1], queue[j2])
<1>1. queue \in Seq(Message)
  BY DEF Inv, Types
<1>2. \A j \in 1..Len(queue) : queue[j] \in Message
  BY <1>1
<1> QED
  BY <1>1, <1>2 DEF Inv, Queued

\* The suspend objects numbered ks are gone: nothing else changes for the others.
LEMMA CancelFacts ==
    ASSUME Inv, NEW ks \in SUBSET DOMAIN mSuspendList, cancelRedirect(ks),
           UNCHANGED <<mNextSeqNo, stage>>
    PROVE  /\ mSuspendList' \in [DOMAIN mSuspendList' -> Suspended]
           /\ DOMAIN mSuspendList' = DOMAIN mSuspendList \ ks
           /\ \A k \in DOMAIN mSuspendList' : mSuspendList'[k] = mSuspendList[k]
           /\ owed' \in [Requests -> SUBSET Redirectors]
           /\ \A r \in Requests :
                 owed'[r] = IF \E k \in ks : mSuspendList[k].mMessage = r THEN {} ELSE owed[r]
           /\ Objects'
           /\ number' = number /\ searching' = searching
<1>1. /\ mSuspendList' = [k \in DOMAIN mSuspendList \ ks |-> mSuspendList[k]]
      /\ owed' = [r \in Requests |->
            owed[r] \ {i \in Active : \E k \in ks : /\ mSuspendList[k].mMessage = r
                                                    /\ i \in mSuspendList[k].needsCancel}]
      /\ number' = number /\ searching' = searching
  BY DEF cancelRedirect
<1>2. /\ mSuspendList \in [DOMAIN mSuspendList -> Suspended]
      /\ owed \in [Requests -> SUBSET Redirectors]
  BY DEF Inv, Types
<1>3. /\ mSuspendList' \in [DOMAIN mSuspendList' -> Suspended]
      /\ DOMAIN mSuspendList' = DOMAIN mSuspendList \ ks
      /\ \A k \in DOMAIN mSuspendList' : mSuspendList'[k] = mSuspendList[k]
      /\ owed' \in [Requests -> SUBSET Redirectors]
  BY <1>1, <1>2
<1>4. ASSUME NEW r \in Requests
      PROVE  owed'[r] = IF \E k \in ks : mSuspendList[k].mMessage = r THEN {} ELSE owed[r]
  <2>1. CASE \E k \in ks : mSuspendList[k].mMessage = r
    <3>1. PICK k \in ks : mSuspendList[k].mMessage = r
      BY <2>1
    <3>2. owed[r] = mSuspendList[k].needsCancel /\ mSuspendList[k].needsCancel \subseteq Active
      BY <3>1 DEF Inv, Objects, ObjectOK
    <3> QED
      BY <1>1, <2>1, <3>1, <3>2
  <2>2. CASE ~\E k \in ks : mSuspendList[k].mMessage = r
    BY <1>1, <1>2, <2>2
  <2> QED
    BY <2>1, <2>2
<1>5. Objects'
  <2>1. \A k, n \in DOMAIN mSuspendList' :
            mSuspendList'[k].mMessage = mSuspendList'[n].mMessage => k = n
    BY <1>3 DEF Inv, Objects
  <2>2. ASSUME NEW k \in DOMAIN mSuspendList' PROVE ObjectOK(k, mSuspendList[k])'
    <3>1. /\ k \in DOMAIN mSuspendList /\ k \notin ks /\ mSuspendList'[k] = mSuspendList[k]
          /\ ObjectOK(k, mSuspendList[k]) /\ mSuspendList[k].mMessage \in Requests
      BY <1>2, <1>3 DEF Inv, Objects, Suspended
    <3>2. ~\E n \in ks : mSuspendList[n].mMessage = mSuspendList[k].mMessage
      BY <3>1 DEF Inv, Objects
    <3>3. owed'[mSuspendList[k].mMessage] = owed[mSuspendList[k].mMessage]
      BY <1>4, <3>1, <3>2
    <3> QED
      BY <1>1, <3>1, <3>3 DEF ObjectOK
  <2> QED
    BY <2>1, <2>2 DEF Objects
<1> QED
  BY <1>1, <1>3, <1>4, <1>5

\* Answers leave the count of 503 responses alone.
LEMMA AnswerFacts ==
    ASSUME NEW rs \in SUBSET Requests, NEW kind \in Kinds, Answer(rs, kind),
           reply \in [Requests -> Reply]
    PROVE  /\ reply' \in [Requests -> Reply]
           /\ \A r \in Requests : reply'[r].failures = reply[r].failures
           /\ \A r \in Requests :
                 reply'[r].finals = IF r \in rs THEN reply[r].finals + 1 ELSE reply[r].finals
<1>1. ASSUME NEW r \in Requests
      PROVE  /\ reply'[r] \in Reply
             /\ reply'[r].failures = reply[r].failures
             /\ reply'[r].finals = IF r \in rs THEN reply[r].finals + 1 ELSE reply[r].finals
  <2>1. reply[r] \in Reply /\ reply'[r] = IF r \in rs THEN Final(reply[r], kind) ELSE reply[r]
    BY DEF Answer
  <2>2. \A a \in Reply : /\ Final(a, kind) \in Reply /\ Final(a, kind).failures = a.failures
                         /\ Final(a, kind).finals = a.finals + 1
    BY DEF Final, Reply
  <2> QED
    BY <2>1, <2>2
<1>2. reply' = [r \in Requests |-> reply'[r]]
  BY DEF Answer
<1> QED
  BY <1>1, <1>2

LEMMA FailedFacts ==
    ASSUME Inv, exception
    PROVE  /\ pass # NULL /\ pass \in Pass /\ pass' = NULL
           /\ reply' \in [Requests -> Reply]
           /\ \A r \in Requests : r # pass.req => reply'[r] = reply[r]
           /\ reply'[pass.req].finals = reply[pass.req].finals
           /\ reply'[pass.req].failures =
                 IF pass.first THEN reply[pass.req].failures + 1 ELSE reply[pass.req].failures
<1>1. /\ pass # NULL /\ pass \in Pass /\ pass' = NULL /\ pass.req \in Requests
      /\ reply \in [Requests -> Reply]
      /\ reply' = [reply EXCEPT ![pass.req] = Failed(reply[pass.req], pass.first)]
  BY DEF exception, Asking, Inv, Types, Pass
<1>2. \A a \in Reply, b \in BOOLEAN :
         /\ Failed(a, b) \in Reply /\ Failed(a, b).finals = a.finals
         /\ Failed(a, b).failures = IF b THEN a.failures + 1 ELSE a.failures
  BY DEF Failed, Reply, Kinds
<1>3. pass.first \in BOOLEAN
  BY <1>1 DEF Pass
<1> QED
  BY <1>1, <1>2, <1>3

\* A redirector changes its private storage: all else in the object stays.
LEMMA StoreFacts ==
    ASSUME Inv, NEW k \in DOMAIN mSuspendList, NEW i \in Redirectors, NEW storage \in Storage,
           store(k, i, storage)
    PROVE  /\ DOMAIN mSuspendList' = DOMAIN mSuspendList
           /\ mSuspendList' \in [DOMAIN mSuspendList -> Suspended]
           /\ \A n \in DOMAIN mSuspendList :
                 /\ mSuspendList'[n].mMessage = mSuspendList[n].mMessage
                 /\ mSuspendList'[n].suspended = mSuspendList[n].suspended
                 /\ mSuspendList'[n].needsCancel = mSuspendList[n].needsCancel
                 /\ mSuspendList'[n].mSuspendCount = mSuspendList[n].mSuspendCount
<1>1. mSuspendList' = [mSuspendList EXCEPT ![k].privateStorage[i] = storage]
  BY DEF store
<1>2. mSuspendList \in [DOMAIN mSuspendList -> Suspended]
  BY DEF Inv, Types
<1>3. ASSUME NEW a \in Suspended
      PROVE  LET b == [a EXCEPT !.privateStorage[i] = storage]
             IN /\ b \in Suspended /\ b.mMessage = a.mMessage /\ b.suspended = a.suspended
                /\ b.needsCancel = a.needsCancel /\ b.mSuspendCount = a.mSuspendCount
  BY DEF Suspended
<1> QED
  BY <1>1, <1>2, <1>3

LEMMA RedirectorsFinite == ASSUME NEW T \in SUBSET Redirectors PROVE IsFiniteSet(T)
<1>1. IsFiniteSet(1..mRedirectorCount)
  BY CountAssumption, FS_Interval
<1> QED
  BY <1>1, FS_Subset, Zenon DEF Redirectors

\* A restart takes one redirector off those the request waits for.
LEMMA RestartedFacts ==
    ASSUME NEW a \in Suspended, NEW i \in a.suspended, a.mSuspendCount = Cardinality(a.suspended)
    PROVE  LET b == Restarted(a, i)
           IN /\ b \in Suspended /\ b.mMessage = a.mMessage /\ b.needsCancel = a.needsCancel
              /\ b.suspended = a.suspended \ {i}
              /\ b.mSuspendCount = Cardinality(b.suspended)
              /\ Resumed(a) <=> a.suspended = {i}
<1>1. a.suspended \in SUBSET Redirectors
  BY DEF Suspended
<1>2. IsFiniteSet(a.suspended)
  BY <1>1, RedirectorsFinite
<1>3. /\ Cardinality(a.suspended \ {i}) = Cardinality(a.suspended) - 1
      /\ IsFiniteSet(a.suspended \ {i})
  BY <1>2, FS_RemoveElement
<1>4. Cardinality(a.suspended) \in Nat /\ Cardinality(a.suspended \ {i}) \in Nat
  BY <1>2, <1>3, FS_CardinalityType
<1>5. (Cardinality(a.suspended \ {i}) = 0) <=> (a.suspended \ {i} = {})
  BY <1>3, FS_EmptySet, Zenon
<1>6. (a.mSuspendCount = 1) <=> a.suspended = {i}
  BY <1>3, <1>4, <1>5
<1>7. PICK c \in Nat : c = a.mSuspendCount - 1
  BY <1>3, <1>4
<1>8. Restarted(a, i) = [a EXCEPT !.suspended = a.suspended \ {i}, !.mSuspendCount = c]
  BY <1>7 DEF Restarted
<1>9. /\ Restarted(a, i) \in Suspended /\ Restarted(a, i).mMessage = a.mMessage
      /\ Restarted(a, i).needsCancel = a.needsCancel
      /\ Restarted(a, i).suspended = a.suspended \ {i} /\ Restarted(a, i).mSuspendCount = c
  BY <1>8, Zenon DEF Suspended
<1> QED
  BY <1>3, <1>6, <1>7, <1>9 DEF Resumed

\* What a redirector returns is noted: one suspension more, or none.
LEMMA NotedFacts ==
    ASSUME NEW a \in Suspended, NEW i \in Redirectors, NEW status, NEW storage \in Storage \cup {NULL},
           i \notin a.suspended, a.mSuspendCount = Cardinality(a.suspended)
    PROVE  LET b == Noted(a, i, status, storage)
           IN /\ b \in Suspended /\ b.mMessage = a.mMessage
              /\ b.mSuspendCount = Cardinality(b.suspended)
              /\ IF status = "SEARCH_PENDING"
                 THEN b.suspended = a.suspended \cup {i} /\ b.needsCancel = a.needsCancel \cup {i}
                 ELSE b.suspended = a.suspended /\ b.needsCancel = a.needsCancel
<1> DEFINE b == Noted(a, i, status, storage)
<1>1. a.suspended \in SUBSET Redirectors
  BY DEF Suspended
<1>2. IsFiniteSet(a.suspended)
  BY <1>1, RedirectorsFinite
<1>3. /\ Cardinality(a.suspended \cup {i}) = Cardinality(a.suspended) + 1
      /\ Cardinality(a.suspended) \in Nat
  BY <1>2, FS_AddElement, FS_CardinalityType
<1>4. CASE status = "SEARCH_PENDING"
  <2>1. PICK c \in Nat : c = a.mSuspendCount + 1
    BY <1>3
  <2>2. PICK s \in SUBSET Redirectors, n \in SUBSET Redirectors :
           s = a.suspended \cup {i} /\ n = a.needsCancel \cup {i}
    BY Zenon DEF Suspended
  <2>3. PICK p \in [Redirectors -> Storage \cup {NULL}] :
           p = [a.privateStorage EXCEPT ![i] = storage]
    BY Zenon DEF Suspended
  <2>4. b = [a EXCEPT !.privateStorage = p, !.suspended = s, !.needsCancel = n, !.mSuspendCount = c]
    BY <1>4, <2>1, <2>2, <2>3 DEF Noted
  <2>5. /\ b \in Suspended /\ b.mMessage = a.mMessage /\ b.mSuspendCount = c
        /\ b.suspended = s /\ b.needsCancel = n
    BY <2>4, Zenon DEF Suspended
  <2> QED
    BY <1>3, <1>4, <2>1, <2>2, <2>5, Zenon
<1>5. CASE status # "SEARCH_PENDING"
  <2>1. b = [a EXCEPT !.privateStorage[i] = storage]
    BY <1>5 DEF Noted
  <2>2. /\ b \in Suspended /\ b.mMessage = a.mMessage /\ b.mSuspendCount = a.mSuspendCount
        /\ b.suspended = a.suspended /\ b.needsCancel = a.needsCancel
    BY <2>1 DEF Suspended
  <2> QED
    BY <1>5, <2>2
<1> QED
  BY <1>4, <1>5

\* The suspend object of the request that is looked up, old or new: the redirector
\* whose turn it is is not suspended in it.
LEMMA SuspendObjectFacts ==
    ASSUME Inv, MayLookUp
    PROVE  /\ suspendObject \in Suspended /\ suspendObject.mMessage = pass.req
           /\ pass \in Pass /\ pass.at \in Redirectors /\ pass.at \in Active
           /\ pass.at \notin suspendObject.suspended
           /\ suspendObject.mSuspendCount = Cardinality(suspendObject.suspended)
           /\ suspendObject.needsCancel \subseteq Active
           /\ owed[pass.req] = suspendObject.needsCancel
           /\ searching[pass.req] \subseteq suspendObject.suspended
<1>1. /\ pass # NULL /\ pass \in Pass /\ pass.at \in Redirectors /\ pass.at \in Active /\ PassOK
      /\ pass.at \in Nat /\ pass.req \in Requests
  BY ConfigAssumption DEF MayLookUp, Asking, Inv, Types, Pass
<1>2. CASE pass.seqNo \in DOMAIN mSuspendList
  <2>1. suspendObject = mSuspendList[pass.seqNo]
    BY <1>2 DEF suspendObject
  <2> QED
    BY <1>1, <1>2, <2>1 DEF PassOK, Inv, Types, Objects, ObjectOK
<1>3. CASE pass.seqNo \notin DOMAIN mSuspendList
  <2>1. suspendObject = NewSuspend(pass.req)
    BY <1>3 DEF suspendObject
  <2>2. searching[pass.req] = {} /\ owed[pass.req] = {}
    BY <1>1, <1>3 DEF PassOK, Inv, RequestOK
  <2>3. Cardinality({}) = 0
    BY FS_EmptySet
  <2> QED
    BY <1>1, <2>1, <2>2, <2>3 DEF NewSuspend, Suspended
<1> QED
  BY <1>2, <1>3

\* The fields of the execution after a lookup.
LEMMA LookUpPass ==
    ASSUME Inv, NEW status, NEW storage, NEW modified \in BOOLEAN, NEW entries \in Entries,
           lookUp(status, storage, modified, entries)
    PROVE  /\ pass' \in Pass /\ pass'.req = pass.req /\ pass'.seqNo = pass.seqNo
           /\ pass'.at = pass.at + 1 /\ pass'.first = pass.first
           /\ pass'.willSuspend <=> pass.willSuspend \/ status = "SEARCH_PENDING"
<1>1. pass \in Pass /\ pass.at \in Redirectors
  BY SuspendObjectFacts DEF lookUp
<1>2. /\ pass.at + 1 \in Nat /\ pass.level \in Int /\ pass.entries \in Entries
      /\ authorityLevel[pass.at] \in Int
  BY <1>1, ConfigAssumption DEF Pass
<1>3. PICK at \in Nat, err \in BOOLEAN, sus \in BOOLEAN, lev \in Int, ent \in Entries :
         /\ at = pass.at + 1
         /\ err = (status = "ERROR")
         /\ sus = (pass.willSuspend \/ status = "SEARCH_PENDING")
         /\ lev = IF status = "SUCCESS" /\ modified THEN authorityLevel[pass.at] ELSE pass.level
         /\ ent = IF modified THEN entries ELSE pass.entries
  BY <1>2, Zenon
<1>4. pass' = [pass EXCEPT !.at = at, !.willError = err, !.willSuspend = sus,
                           !.level = lev, !.entries = ent]
  BY <1>3 DEF lookUp
<1>5. /\ pass' \in Pass /\ pass'.req = pass.req /\ pass'.seqNo = pass.seqNo
      /\ pass'.at = at /\ pass'.first = pass.first
      /\ pass'.willSuspend = sus
  BY <1>1, <1>4, Zenon DEF Pass
<1> QED
  BY <1>3, <1>5, Zenon

\* What a lookup that is noted does to the suspend objects and the searches.
NotedStep(k, r, i, b, status) ==
    /\ DOMAIN mSuspendList' = DOMAIN mSuspendList \cup {k} /\ mSuspendList'[k] = b
    /\ \A n \in DOMAIN mSuspendList : n # k => /\ mSuspendList'[n] = mSuspendList[n]
                                               /\ mSuspendList[n].mMessage # r
    /\ mSuspendList' \in [DOMAIN mSuspendList' -> Suspended]
    /\ mNextSeqNo' \in Nat /\ mNextSeqNo <= mNextSeqNo' /\ k < mNextSeqNo'
    /\ k \in Nat /\ r \in Requests /\ (k \notin DOMAIN mSuspendList => k = mNextSeqNo)
    /\ IF status = "SEARCH_PENDING"
       THEN /\ number' = [number EXCEPT ![r] = k]
            /\ searching' = [searching EXCEPT ![r] = @ \cup {i}]
            /\ owed' = [owed EXCEPT ![r] = @ \cup {i}]
       ELSE number' = number /\ searching' = searching /\ owed' = owed

LEMMA LookUpNoted ==
    ASSUME Inv, NEW status \in LookUpStatus, NEW storage \in Storage \cup {NULL},
           NEW modified, NEW entries, lookUp(status, storage, modified, entries),
           pass.seqNo \in DOMAIN mSuspendList \/ status = "SEARCH_PENDING" \/ storage # NULL
    PROVE  NotedStep(pass.seqNo, pass.req, pass.at,
                     Noted(suspendObject, pass.at, status, storage), status)
<1> DEFINE b == Noted(suspendObject, pass.at, status, storage)
<1>1. /\ MayLookUp /\ mSuspendList' = Stored(mSuspendList, pass.seqNo, b)
      /\ mNextSeqNo' = NextSeqNo(status = "SEARCH_PENDING" \/ storage # NULL)
  BY DEF lookUp
<1>2. /\ suspendObject \in Suspended /\ pass \in Pass /\ pass.at \in Redirectors
      /\ pass.at \notin suspendObject.suspended
      /\ suspendObject.mSuspendCount = Cardinality(suspendObject.suspended)
  BY <1>1, SuspendObjectFacts
<1>3. b \in Suspended
  BY <1>2, NotedFacts
<1>4. PICK k, r : k = pass.seqNo /\ r = pass.req
  OBVIOUS
<1> HIDE DEF b
<1>5. /\ DOMAIN mSuspendList' = DOMAIN mSuspendList \cup {k} /\ mSuspendList'[k] = b
      /\ \A n \in DOMAIN mSuspendList : n # k => mSuspendList'[n] = mSuspendList[n]
      /\ mSuspendList' \in [DOMAIN mSuspendList' -> Suspended]
  BY <1>1, <1>3, <1>4 DEF Stored, Inv, Types
<1>6. /\ k \in Nat /\ r \in Requests /\ PassOK
      /\ k \notin DOMAIN mSuspendList => k = mNextSeqNo
  BY <1>1, <1>2, <1>4 DEF MayLookUp, Asking, Inv, PassOK, Pass
<1>7. \A n \in DOMAIN mSuspendList : n # k => mSuspendList[n].mMessage # r
  BY <1>4, <1>6 DEF PassOK, Listed, Inv, Objects
<1>8. mNextSeqNo' \in Nat /\ mNextSeqNo <= mNextSeqNo' /\ k < mNextSeqNo'
  <2>1. mNextSeqNo \in Nat /\ (k \in DOMAIN mSuspendList => k < mNextSeqNo)
    BY DEF Inv, Types, Objects, ObjectOK
  <2>2. mNextSeqNo' = IF k \in DOMAIN mSuspendList THEN mNextSeqNo ELSE mNextSeqNo + 1
    BY <1>1, <1>4, <1>6 DEF NextSeqNo
  <2> QED
    BY <1>6, <2>1, <2>2
<1>9. IF status = "SEARCH_PENDING"
      THEN /\ number' = [number EXCEPT ![r] = k]
           /\ searching' = [searching EXCEPT ![r] = @ \cup {pass.at}]
           /\ owed' = [owed EXCEPT ![r] = @ \cup {pass.at}]
      ELSE number' = number /\ searching' = searching /\ owed' = owed
  BY <1>4 DEF lookUp, pluginVars
<1>10. NotedStep(k, r, pass.at, b, status)
  BY <1>5, <1>6, <1>7, <1>8, <1>9 DEF NotedStep
<1> QED
  BY <1>4, <1>10 DEF b
-----------------------------------------------------------------------------
\* Every step of the redirect server keeps the invariant.

\* A redirector is asked: its suspension is new, the number is that of the request
\* alone, and a number that was not in use has no restart in the queue.
LEMMA LookUpInv ==
    ASSUME Inv, NEW status \in LookUpStatus, NEW storage \in Storage \cup {NULL},
           NEW modified \in BOOLEAN, NEW entries \in Entries,
           lookUp(status, storage, modified, entries)
    PROVE  Inv'
<1>1. /\ MayLookUp /\ pass # NULL /\ PassOK
      /\ UNCHANGED <<queue, server, stage, reply>>
  BY DEF lookUp, MayLookUp, Asking, Inv
<1>2. /\ pass' \in Pass /\ pass'.req = pass.req /\ pass'.seqNo = pass.seqNo
      /\ pass'.at = pass.at + 1 /\ pass'.first = pass.first
      /\ pass'.willSuspend <=> pass.willSuspend \/ status = "SEARCH_PENDING"
  BY LookUpPass
<1>3. PICK k, r, i, a, b : /\ k = pass.seqNo /\ r = pass.req /\ i = pass.at
                           /\ a = suspendObject /\ b = Noted(a, i, status, storage)
  OBVIOUS
<1>4. /\ a \in Suspended /\ a.mMessage = r /\ i \in Redirectors /\ i \in Active
      /\ i \notin a.suspended /\ a.mSuspendCount = Cardinality(a.suspended)
      /\ a.needsCancel \subseteq Active /\ owed[r] = a.needsCancel
      /\ searching[r] \subseteq a.suspended /\ i \in Nat
  BY <1>1, <1>3, SuspendObjectFacts DEF Redirectors
<1>5. CASE ~(k \in DOMAIN mSuspendList \/ status = "SEARCH_PENDING" \/ storage # NULL)
  <2>1. UNCHANGED <<mSuspendList, mNextSeqNo, number, searching, owed>>
    BY <1>3, <1>5 DEF lookUp, NextSeqNo, pluginVars
  <2>2. Types'
    BY <1>1, <1>2, <2>1 DEF Inv, Types
  <2>3. Objects' /\ (\A x \in Requests : RequestOK(x)') /\ Queued'
    BY <1>1, <2>1 DEF Inv, Objects, ObjectOK, RequestOK, Listed, Queued, MessageOK, Same
  <2>4. PassOK'
    BY <1>1, <1>2, <1>3, <1>5, <2>1 DEF PassOK, Listed
  <2> QED
    BY <2>2, <2>3, <2>4 DEF Inv
<1>6. CASE k \in DOMAIN mSuspendList \/ status = "SEARCH_PENDING" \/ storage # NULL
  <2>1. NotedStep(k, r, i, b, status)
    BY <1>3, <1>6, LookUpNoted
  <2>2. /\ b \in Suspended /\ b.mMessage = r /\ b.mSuspendCount = Cardinality(b.suspended)
        /\ IF status = "SEARCH_PENDING"
           THEN b.suspended = a.suspended \cup {i} /\ b.needsCancel = a.needsCancel \cup {i}
           ELSE b.suspended = a.suspended /\ b.needsCancel = a.needsCancel
    BY <1>3, <1>4, NotedFacts
  <2>3. \A x \in Requests : x # r => /\ number'[x] = number[x] /\ searching'[x] = searching[x]
                                     /\ owed'[x] = owed[x]
    BY <2>1 DEF NotedStep, Inv, Types
  <2>4. /\ owed'[r] = b.needsCancel /\ b.needsCancel \subseteq Active
        /\ searching'[r] \subseteq b.suspended /\ searching'[r] \subseteq searching[r] \cup {i}
        /\ status # "SEARCH_PENDING" => /\ number'[r] = number[r]
                                        /\ searching'[r] = searching[r]
        /\ status = "SEARCH_PENDING" => number'[r] = k
    <3>1. CASE status = "SEARCH_PENDING"
      <4>1. /\ number'[r] = k /\ searching'[r] = searching[r] \cup {i} /\ owed'[r] = owed[r] \cup {i}
        BY <2>1, <3>1 DEF NotedStep, Inv, Types
      <4> QED
        BY <1>4, <2>2, <3>1, <4>1
    <3>2. CASE status # "SEARCH_PENDING"
      BY <1>4, <2>1, <2>2, <3>2 DEF NotedStep
    <3> QED
      BY <3>1, <3>2
  <2>5. searching[r] # {} => k \in DOMAIN mSuspendList /\ number[r] = k
    BY <1>1, <1>3, <2>1, Zenon DEF PassOK, Inv, Objects, ObjectOK, NotedStep
  <2>6. a = IF k \in DOMAIN mSuspendList THEN mSuspendList[k] ELSE NewSuspend(r)
    BY <1>3 DEF suspendObject
  <2>7. Types'
    <3>1. /\ number' \in [Requests -> Nat] /\ searching' \in [Requests -> SUBSET Redirectors]
          /\ owed' \in [Requests -> SUBSET Redirectors]
      <4>1. /\ number \in [Requests -> Nat] /\ searching \in [Requests -> SUBSET Redirectors]
            /\ owed \in [Requests -> SUBSET Redirectors] /\ r \in Requests /\ k \in Nat
            /\ i \in Redirectors
        BY <1>4, <2>1 DEF NotedStep, Inv, Types
      <4>2. CASE status = "SEARCH_PENDING"
        <5>1. number' \in [Requests -> Nat]
          BY <2>1, <4>1, <4>2 DEF NotedStep
        <5>2. searching' \in [Requests -> SUBSET Redirectors]
          BY <2>1, <4>1, <4>2 DEF NotedStep
        <5>3. owed' \in [Requests -> SUBSET Redirectors]
          BY <2>1, <4>1, <4>2 DEF NotedStep
        <5> QED
          BY <5>1, <5>2, <5>3
      <4>3. CASE status # "SEARCH_PENDING"
        BY <2>1, <4>1, <4>3 DEF NotedStep
      <4> QED
        BY <4>2, <4>3
    <3>2. /\ mSuspendList' \in [DOMAIN mSuspendList' -> Suspended]
          /\ DOMAIN mSuspendList' \subseteq Nat /\ mNextSeqNo' \in Nat
      BY <2>1 DEF NotedStep, Inv, Types
    <3> QED
      BY <3>1, <3>2, <1>1, <1>2 DEF Inv, Types
  <2>8. Objects'
    <3>1. ObjectOK(k, b)'
      BY <1>1, <1>3, <2>1, <2>2, <2>4, <2>5 DEF ObjectOK, PassOK, NotedStep
    <3>2. ASSUME NEW n \in DOMAIN mSuspendList, n # k PROVE ObjectOK(n, mSuspendList[n])'
      <4>1. /\ ObjectOK(n, mSuspendList[n]) /\ n \in Nat /\ mNextSeqNo \in Nat
            /\ mSuspendList[n].mMessage \in Requests
        BY DEF Inv, Objects, Types, Suspended
      <4> QED
        BY <1>1, <2>1, <2>3, <3>2, <4>1 DEF ObjectOK, NotedStep
    <3>3. \A n \in DOMAIN mSuspendList' : ObjectOK(n, mSuspendList[n])'
      BY <2>1, <3>1, <3>2 DEF NotedStep
    <3> QED
      BY <2>1, <2>2, <3>3 DEF Inv, Objects, NotedStep
  <2>9. ASSUME NEW x \in Requests PROVE RequestOK(x)'
    <3>1. CASE x = r
      BY <1>1, <1>3, <2>1, <2>2, <2>4, <2>5, <3>1 DEF RequestOK, Listed, PassOK, NotedStep
    <3>2. CASE x # r
      <4>1. RequestOK(x) /\ number[x] \in Nat /\ mNextSeqNo \in Nat
        BY DEF Inv, Types
      <4>2. Listed(x)' = {} => Listed(x) = {}
        BY <1>1, <1>3, <2>1, <3>2 DEF Listed, PassOK, NotedStep
      <4>3. searching[x] # {} => number[x] # k
        BY <1>1, <1>3, <2>1, <3>2, <4>1 DEF RequestOK, PassOK, NotedStep
      <4> QED
        BY <1>1, <2>1, <2>3, <3>2, <4>1, <4>2, <4>3 DEF RequestOK, NotedStep
    <3> QED
      BY <3>1, <3>2
  <2>10. \A j \in 1..Len(queue') : MessageOK(queue[j])'
    <3> SUFFICES ASSUME NEW j \in 1..Len(queue) PROVE MessageOK(queue[j])'
      BY <1>1
    <3>1. PICK m \in Message : m = queue[j] /\ MessageOK(m)
      BY QueueFacts
    <3>2. MessageOK(m)'
      <4>1. m.type = "PHONE_APP" => stage'[m.req] = "queued"
        BY <1>1, <3>1 DEF MessageOK
      <4>2. ASSUME m.type = "REDIRECT_RESTART"
            PROVE  /\ m.seqNo < mNextSeqNo'
                   /\ m.seqNo \in DOMAIN mSuspendList' =>
                         /\ m.redirector \in mSuspendList'[m.seqNo].suspended
                         /\ m.redirector \notin searching'[mSuspendList'[m.seqNo].mMessage]
        <5>1. m.seqNo \in Nat /\ mNextSeqNo \in Nat /\ m.seqNo < mNextSeqNo
          BY <3>1, <4>2 DEF MessageOK, Message, Inv, Types
        <5>2. CASE m.seqNo = k
          <6>1. k \in DOMAIN mSuspendList /\ a = mSuspendList[k]
            BY <2>1, <2>6, <5>1, <5>2 DEF NotedStep
          <6>2. m.redirector \in a.suspended /\ m.redirector \notin searching[r]
            BY <1>4, <3>1, <4>2, <5>2, <6>1 DEF MessageOK
          <6> QED
            BY <1>4, <2>1, <2>2, <2>4, <5>1, <5>2, <6>2 DEF NotedStep
        <5>3. CASE m.seqNo # k
          <6>1. ASSUME m.seqNo \in DOMAIN mSuspendList'
                PROVE  /\ m.seqNo \in DOMAIN mSuspendList /\ mSuspendList[m.seqNo].mMessage # r
                       /\ mSuspendList'[m.seqNo] = mSuspendList[m.seqNo]
                       /\ mSuspendList[m.seqNo].mMessage \in Requests
            BY <2>1, <5>3, <6>1 DEF NotedStep, Inv, Types, Suspended
          <6>2. m.seqNo < mNextSeqNo'
            BY <2>1, <5>1 DEF NotedStep
          <6> QED
            BY <2>3, <3>1, <4>2, <6>1, <6>2 DEF MessageOK
        <5> QED
          BY <5>2, <5>3
      <4> QED
        BY <4>1, <4>2 DEF MessageOK
    <3> QED
      BY <1>1, <3>1, <3>2 DEF MessageOK
  <2>11. \A j1, j2 \in 1..Len(queue') : j1 # j2 => ~Same(queue[j1], queue[j2])'
    <3>1. \A j \in 1..Len(queue) : queue[j].type = "REDIRECT_RESTART" =>
             queue[j].seqNo \in Nat /\ queue[j].seqNo < mNextSeqNo
      BY QueueFacts DEF MessageOK, Message
    <3>2. \A j \in 1..Len(queue) : queue[j].type = "REDIRECT_RESTART" =>
             (queue[j].seqNo \in DOMAIN mSuspendList' => queue[j].seqNo \in DOMAIN mSuspendList)
      BY <2>1, <3>1 DEF Inv, Types, NotedStep
    <3> QED
      BY <1>1, <3>2, QueueFacts DEF Same
  <2>12. PassOK'
    <3>1. b.suspended \subseteq a.suspended \cup {i} /\ \A t \in a.suspended : t < i /\ t \in Nat
      <4>1. b.suspended \subseteq a.suspended \cup {i}
        BY <2>2
      <4>2. \A t \in a.suspended : t \in Nat
        BY <1>4 DEF Suspended, Redirectors
      <4>3. \A t \in a.suspended : t < i
        BY <1>1, <1>3, <2>6 DEF PassOK, NewSuspend
      <4> QED
        BY <4>1, <4>2, <4>3
    <3>2. \A t \in b.suspended : t < pass'.at
      BY <1>2, <1>3, <1>4, <3>1, SMTT(30)
    <3>3. pass'.willSuspend => b.suspended # {}
      BY <1>1, <1>2, <1>3, <2>2, <2>6 DEF PassOK
    <3> QED
      BY <1>1, <1>2, <1>3, <2>1, <2>2, <3>2, <3>3 DEF PassOK, NotedStep
  <2> QED
    BY <2>7, <2>8, <2>9, <2>10, <2>11, <2>12 DEF Inv, Queued, NotedStep
<1> QED
  BY <1>5, <1>6

LEMMA InitInv == Init => Inv
  BY DEF Init, Inv, Types, Objects, RequestOK, Queued, Listed, Reply, Kinds

\* A request arrives: it was not taken, so it has no suspend object.
LEMMA ArriveInv == ASSUME Inv, NEW r \in Requests, arrive(r) PROVE Inv'
<1> DEFINE m == [type |-> "PHONE_APP", req |-> r]
<1>1. /\ stage[r] = "unseen" /\ stage' = [stage EXCEPT ![r] = "queued"]
      /\ queue' = Append(queue, m)
      /\ UNCHANGED <<pass, mSuspendList, mNextSeqNo, server, number, searching, owed, reply>>
  BY DEF arrive, post, serverVars, pluginVars
<1>2. m \in Message
  BY DEF Message
<1>3. queue \in Seq(Message)
  BY DEF Inv, Types
<1>4. /\ queue' \in Seq(Message) /\ Len(queue') = Len(queue) + 1 /\ Len(queue) \in Nat
      /\ \A j \in 1..Len(queue) : queue'[j] = queue[j] /\ queue[j] \in Message
      /\ queue'[Len(queue) + 1] = m
  BY <1>1, <1>2, <1>3, AppendFacts
<1>5. Types'
  BY <1>1, <1>4 DEF Inv, Types
<1>6. Objects'
  BY <1>1 DEF Inv, Types, Objects, ObjectOK, Suspended
<1>7. \A x \in Requests : RequestOK(x)'
  BY <1>1 DEF Inv, Types, RequestOK, Listed
<1>8. \A j \in 1..Len(queue') : MessageOK(queue[j])'
  <2> SUFFICES ASSUME NEW j \in 1..Len(queue') PROVE MessageOK(queue[j])'
    OBVIOUS
  <2>1. CASE j \in 1..Len(queue)
    <3>1. MessageOK(queue[j]) /\ queue'[j] = queue[j] /\ queue[j] \in Message
      BY <1>4, <2>1 DEF Inv, Queued
    <3> QED
      BY <3>1, <1>1 DEF MessageOK, Message, Inv, Types
  <2>2. CASE j = Len(queue) + 1
    BY <2>2, <1>1, <1>4 DEF MessageOK, Inv, Types
  <2> QED
    BY <1>4, <2>1, <2>2
<1>9. \A j1, j2 \in 1..Len(queue') : j1 # j2 => ~Same(queue[j1], queue[j2])'
  <2>1. \A j \in 1..Len(queue) : queue[j].type = "PHONE_APP" => queue[j].req # r
    BY <1>1 DEF Inv, Queued, MessageOK
  <2> QED
    BY <2>1, <1>1, <1>4 DEF Inv, Queued, Same
<1>10. pass' # NULL => PassOK'
  BY <1>1 DEF Inv, Types, Pass, PassOK, Listed
<1> QED
  BY <1>5, <1>6, <1>7, <1>8, <1>9, <1>10 DEF Inv, Queued

\* A message that is neither a request nor a restart is no concern of the invariant.
LEMMA PostInv ==
    ASSUME Inv, NEW m \in Message, m.type \in {"CANCEL", "OS_SHUTDOWN"},
           queue' = Append(queue, m),
           UNCHANGED <<pass, mSuspendList, mNextSeqNo, stage, number, searching, owed, reply>>
    PROVE  Inv'
<1>1. queue \in Seq(Message)
  BY DEF Inv, Types
<1>2. /\ queue' \in Seq(Message) /\ Len(queue') = Len(queue) + 1 /\ Len(queue) \in Nat
      /\ \A j \in 1..Len(queue) : queue'[j] = queue[j] /\ queue[j] \in Message
      /\ queue'[Len(queue) + 1] = m
  BY <1>1, AppendFacts
<1>3. Types'
  BY <1>2 DEF Inv, Types
<1>4. Objects'
  BY DEF Inv, Objects, ObjectOK
<1>5. \A x \in Requests : RequestOK(x)'
  BY DEF Inv, RequestOK, Listed
<1>6. pass' # NULL => PassOK'
  BY DEF Inv, PassOK, Listed
<1>7. Queued'
  BY <1>2 DEF Inv, Queued, MessageOK, Same
<1> QED
  BY <1>3, <1>4, <1>5, <1>6, <1>7 DEF Inv

\* A search ends and its restart is posted: if the suspend object is still there,
\* the redirector is suspended in it, and no other restart for it is in the queue.
LEMMA ResumeRequestInv ==
    ASSUME Inv, NEW r \in Requests, NEW i \in Redirectors, resumeRequest(r, i) PROVE Inv'
<1> DEFINE m == [type |-> "REDIRECT_RESTART", seqNo |-> number[r], redirector |-> i]
<1>1. /\ i \in searching[r] /\ searching' = [searching EXCEPT ![r] = @ \ {i}]
      /\ queue' = Append(queue, m)
      /\ UNCHANGED <<pass, mSuspendList, mNextSeqNo, server, stage, number, owed, reply>>
  BY DEF resumeRequest, post, serverVars
<1>2. m \in Message
  BY DEF Message, Inv, Types
<1>3. queue \in Seq(Message) /\ searching \in [Requests -> SUBSET Redirectors]
  BY DEF Inv, Types
<1>4. /\ queue' \in Seq(Message) /\ Len(queue') = Len(queue) + 1 /\ Len(queue) \in Nat
      /\ \A j \in 1..Len(queue) : queue'[j] = queue[j] /\ queue[j] \in Message
      /\ queue'[Len(queue) + 1] = m
  BY <1>1, <1>2, <1>3, AppendFacts
<1>5. /\ searching' \in [Requests -> SUBSET Redirectors]
      /\ \A x \in Requests : searching'[x] \subseteq searching[x]
      /\ i \notin searching'[r] /\ searching[r] # {}
  BY <1>1, <1>3
<1>6. /\ number[r] < mNextSeqNo
      /\ number[r] \in DOMAIN mSuspendList => /\ mSuspendList[number[r]].mMessage = r
                                              /\ i \in mSuspendList[number[r]].suspended
  BY <1>1, <1>5 DEF Inv, RequestOK, Objects, ObjectOK
<1>7. Types'
  BY <1>1, <1>4, <1>5 DEF Inv, Types
<1>8. Objects'
  BY <1>1, <1>5 DEF Inv, Types, Objects, ObjectOK, Suspended
<1>9. \A x \in Requests : RequestOK(x)'
  BY <1>1, <1>5 DEF Inv, RequestOK, Listed
<1>10. \A j \in 1..Len(queue') : MessageOK(queue[j])'
  <2> SUFFICES ASSUME NEW j \in 1..Len(queue') PROVE MessageOK(queue[j])'
    OBVIOUS
  <2>1. CASE j \in 1..Len(queue)
    <3>1. MessageOK(queue[j]) /\ queue'[j] = queue[j] /\ queue[j] \in Message
      BY <1>4, <2>1, SMTT(30) DEF Inv, Queued
    <3> QED
      BY <3>1, <1>1, <1>5 DEF MessageOK, Inv, Types, Suspended
  <2>2. CASE j = Len(queue) + 1
    BY <2>2, <1>1, <1>4, <1>5, <1>6 DEF MessageOK
  <2> QED
    BY <1>4, <2>1, <2>2
<1>11. \A j1, j2 \in 1..Len(queue') : j1 # j2 => ~Same(queue[j1], queue[j2])'
  <2>1. \A j \in 1..Len(queue) : ~Same(queue[j], m) /\ ~Same(m, queue[j])
    BY <1>1, <1>6 DEF Inv, Queued, MessageOK, Same
  <2> QED
    BY <2>1, <1>1, <1>4, SMTT(30) DEF Inv, Queued, Same
<1>12. pass' # NULL => PassOK'
  BY <1>1, <1>5 DEF Inv, Types, Pass, PassOK, Listed
<1> QED
  BY <1>7, <1>8, <1>9, <1>10, <1>11, <1>12 DEF Inv, Queued

\* A request is taken from the queue: the next number is not in use, and the
\* request has neither a suspend object nor searches.
LEMMA HandleRequestInv == ASSUME Inv, handleRequest PROVE Inv'
<1>1. /\ pass' = Begin(Head(queue).req, mNextSeqNo, TRUE)
      /\ stage' = [stage EXCEPT ![Head(queue).req] = "taken"]
      /\ UNCHANGED <<mSuspendList, mNextSeqNo, server, number, searching, owed, reply>>
      /\ Handling("PHONE_APP")
  BY DEF handleRequest, pluginVars
<1>2. /\ pass = NULL
      /\ Head(queue) \in Message /\ Head(queue).type = "PHONE_APP"
      /\ MessageOK(Head(queue))
      /\ queue' \in Seq(Message) /\ Len(queue') \in Nat
      /\ \A j \in 1..Len(queue') :
            queue'[j] \in Message /\ MessageOK(queue'[j]) /\ ~Same(Head(queue), queue'[j])
      /\ \A j1, j2 \in 1..Len(queue') : j1 # j2 => ~Same(queue'[j1], queue'[j2])
  BY <1>1, HandlingFacts
<1>3. PICK r \in Requests : r = Head(queue).req /\ stage[r] = "queued"
  BY <1>2 DEF MessageOK, Message
<1>4. Types'
  <2>1. Begin(r, mNextSeqNo, TRUE) \in Pass
    BY <1>3 DEF Begin, Pass, Entries, Inv, Types
  <2> QED
    BY <2>1, <1>1, <1>2, <1>3, Zenon DEF Inv, Types
<1>5. Objects'
  BY <1>1, <1>3 DEF Inv, Types, Objects, ObjectOK, Suspended
<1>6. \A x \in Requests : RequestOK(x)'
  BY <1>1, <1>3, SMTT(30) DEF Inv, Types, RequestOK, Listed
<1>7. \A j \in 1..Len(queue') : MessageOK(queue[j])'
  BY <1>1, <1>2, <1>3 DEF MessageOK, Same, Message, Inv, Types
<1>8. \A j1, j2 \in 1..Len(queue') : j1 # j2 => ~Same(queue[j1], queue[j2])'
  BY <1>1, <1>2, Zenon DEF Same
<1>9. PassOK'
  <2>1. mNextSeqNo \notin DOMAIN mSuspendList /\ Listed(r) = {}
    BY <1>3 DEF Inv, Types, Objects, ObjectOK, Listed
  <2>2. searching[r] = {} /\ reply[r].failures = 0
    BY <1>3 DEF Inv, RequestOK
  <2>3. /\ pass'.req = r /\ pass'.seqNo = mNextSeqNo
        /\ pass'.willSuspend = FALSE /\ stage'[r] = "taken"
    BY <1>1, <1>3 DEF Begin, Inv, Types
  <2>4. Listed(r)' = {}
    BY <2>1, <1>1 DEF Listed
  <2> QED
    BY <2>1, <2>2, <2>3, <2>4, <1>1, Zenon DEF PassOK
<1> QED
  BY <1>4, <1>5, <1>6, <1>7, <1>8, <1>9 DEF Inv, Queued

\* The restart that was handled is one of a search that is over, so the redirector
\* may be taken off; the restarts that are left are for others.
LEMMA HandleRestartInv == ASSUME Inv, handleRestart PROVE Inv'
<1>1. /\ Handling("REDIRECT_RESTART")
      /\ UNCHANGED <<mNextSeqNo, server, stage, number, searching, owed, reply>>
  BY DEF handleRestart, pluginVars
<1>2. /\ pass = NULL
      /\ Head(queue) \in Message /\ Head(queue).type = "REDIRECT_RESTART"
      /\ MessageOK(Head(queue))
      /\ queue' \in Seq(Message) /\ Len(queue') \in Nat
      /\ \A j \in 1..Len(queue') :
            queue'[j] \in Message /\ MessageOK(queue'[j]) /\ ~Same(Head(queue), queue'[j])
      /\ \A j1, j2 \in 1..Len(queue') : j1 # j2 => ~Same(queue'[j1], queue'[j2])
  BY <1>1, HandlingFacts
<1>3. PICK k \in Nat, i \in Redirectors : k = Head(queue).seqNo /\ i = Head(queue).redirector
  BY <1>2 DEF Message
<1>4. CASE ~(k \in DOMAIN mSuspendList /\ i \in mSuspendList[k].suspended)
  <2>1. UNCHANGED <<mSuspendList, pass>>
    BY <1>3, <1>4, Zenon DEF handleRestart
  <2>2. Types'
    BY <2>1, <1>1, <1>2 DEF Inv, Types
  <2>3. Objects'
    BY <2>1, <1>1 DEF Inv, Objects, ObjectOK
  <2>4. \A x \in Requests : RequestOK(x)'
    BY <2>1, <1>1, SMTT(30) DEF Inv, RequestOK, Listed
  <2>5. Queued'
    BY <2>1, <1>1, <1>2 DEF Queued, MessageOK, Same
  <2> QED
    BY <2>1, <2>2, <2>3, <2>4, <2>5, <1>2 DEF Inv
<1>5. CASE k \in DOMAIN mSuspendList /\ i \in mSuspendList[k].suspended
  <2>1. PICK a \in Suspended : a = mSuspendList[k]
    BY <1>5 DEF Inv, Types
  <2>2. /\ mSuspendList' = [mSuspendList EXCEPT ![k] = Restarted(a, i)]
        /\ pass' = IF Resumed(a) THEN Begin(a.mMessage, k, FALSE) ELSE NULL
    BY <1>3, <1>5, <2>1, Zenon DEF handleRestart
  <2>3. /\ ObjectOK(k, a) /\ i \in a.suspended /\ mSuspendList \in [DOMAIN mSuspendList -> Suspended]
    BY <1>5, <2>1 DEF Inv, Objects, Types
  <2>4. PICK b \in Suspended : /\ b = Restarted(a, i)
                               /\ b.mMessage = a.mMessage /\ b.needsCancel = a.needsCancel
                               /\ b.suspended = a.suspended \ {i}
                               /\ b.mSuspendCount = Cardinality(b.suspended)
                               /\ Resumed(a) <=> a.suspended = {i}
    BY <2>3, RestartedFacts DEF ObjectOK
  <2>5. /\ DOMAIN mSuspendList' = DOMAIN mSuspendList /\ mSuspendList'[k] = b
        /\ \A n \in DOMAIN mSuspendList : n # k => mSuspendList'[n] = mSuspendList[n]
        /\ mSuspendList' \in [DOMAIN mSuspendList -> Suspended]
        /\ \A n \in DOMAIN mSuspendList : mSuspendList'[n].mMessage = mSuspendList[n].mMessage
    BY <1>5, <2>1, <2>2, <2>3, <2>4, SMTT(30)
  <2>6. i \notin searching[a.mMessage] /\ a.mMessage \in Requests /\ stage[a.mMessage] = "taken"
    BY <1>2, <1>3, <1>5, <2>1, <2>3 DEF MessageOK, ObjectOK, Suspended
  <2>7. Types'
    <3>1. Begin(a.mMessage, k, FALSE) \in Pass
      BY <2>6 DEF Begin, Pass, Entries
    <3> QED
      BY <3>1, <1>1, <1>2, <2>2, <2>5, Zenon DEF Inv, Types
  <2>8. Objects'
    <3>1. ObjectOK(k, b)'
      BY <1>1, <2>3, <2>4, <2>6 DEF ObjectOK
    <3>2. \A n \in DOMAIN mSuspendList : n # k => ObjectOK(n, mSuspendList[n])'
      BY <1>1, <2>5 DEF Inv, Objects, ObjectOK
    <3> QED
      BY <2>5, <3>1, <3>2 DEF Inv, Objects
  <2>9. \A x \in Requests : RequestOK(x)'
    BY <1>1, <2>5 DEF Inv, RequestOK, Listed
  <2>10. \A j \in 1..Len(queue') : MessageOK(queue[j])'
    <3> SUFFICES ASSUME NEW j \in 1..Len(queue') PROVE MessageOK(queue[j])'
      OBVIOUS
    <3>1. PICK m \in Message : m = queue'[j] /\ MessageOK(m) /\ ~Same(Head(queue), m)
      BY <1>2
    <3>2. ~(m.type = "REDIRECT_RESTART" /\ m.seqNo = k /\ m.redirector = i)
      BY <1>2, <1>3, <1>5, <3>1, SMTT(30) DEF Same
    <3>3. MessageOK(m)'
      BY <1>1, <2>1, <2>4, <2>5, <3>1, <3>2, SMTT(30) DEF MessageOK
    <3> QED
      BY <3>1, <3>3 DEF MessageOK
  <2>11. \A j1, j2 \in 1..Len(queue') : j1 # j2 => ~Same(queue[j1], queue[j2])'
    BY <1>2, <2>5 DEF Same
  <2>12. pass' # NULL => PassOK'
    <3> SUFFICES ASSUME pass' # NULL PROVE PassOK'
      OBVIOUS
    <3>1. /\ pass'.req = a.mMessage /\ pass'.seqNo = k /\ pass'.first = FALSE
          /\ pass'.willSuspend = FALSE /\ a.suspended = {i}
      BY <2>2, <2>4 DEF Begin
    <3> QED
      BY <1>1, <1>5, <2>4, <2>5, <2>6, <3>1 DEF PassOK
  <2> QED
    BY <2>7, <2>8, <2>9, <2>10, <2>11, <2>12 DEF Inv, Queued
<1> QED
  BY <1>4, <1>5

LEMMA CancelInv ==
    ASSUME Inv, NEW ks \in SUBSET DOMAIN mSuspendList, cancelRedirect(ks),
           UNCHANGED <<mNextSeqNo, stage>>, pass' = NULL,
           reply' \in [Requests -> Reply],
           \A r \in Requests : reply'[r].failures = reply[r].failures,
           queue' \in Seq(Message),
           \A j \in 1..Len(queue') : queue'[j] \in Message /\ MessageOK(queue'[j]),
           \A j1, j2 \in 1..Len(queue') : j1 # j2 => ~Same(queue'[j1], queue'[j2])
    PROVE  Inv'
<1>1. /\ mSuspendList' \in [DOMAIN mSuspendList' -> Suspended]
      /\ DOMAIN mSuspendList' = DOMAIN mSuspendList \ ks
      /\ \A k \in DOMAIN mSuspendList' : mSuspendList'[k] = mSuspendList[k]
      /\ owed' \in [Requests -> SUBSET Redirectors]
      /\ \A r \in Requests :
            owed'[r] = IF \E k \in ks : mSuspendList[k].mMessage = r THEN {} ELSE owed[r]
      /\ Objects'
      /\ number' = number /\ searching' = searching
  BY CancelFacts, Zenon
<1>2. Types'
  BY <1>1 DEF Inv, Types
<1>3. ASSUME NEW r \in Requests PROVE RequestOK(r)'
  <2>1. Listed(r)' = {} => owed'[r] = {}
    BY <1>1 DEF Listed, Inv, RequestOK
  <2>2. searching'[r] # {} =>
            /\ number'[r] < mNextSeqNo'
            /\ number'[r] \in DOMAIN mSuspendList' => mSuspendList'[number'[r]].mMessage = r
    BY <1>1 DEF Inv, RequestOK
  <2>3. stage'[r] # "taken" => searching'[r] = {} /\ reply'[r].failures = 0
    BY <1>1 DEF Inv, RequestOK
  <2> QED
    BY <2>1, <2>2, <2>3 DEF RequestOK
<1>4. Queued'
  BY <1>1 DEF Queued, MessageOK, Same
<1> QED
  BY <1>1, <1>2, <1>3, <1>4 DEF Inv

LEMMA ConcludeInv == ASSUME Inv, conclude PROVE Inv'
<1>1. /\ pass # NULL /\ Answer({pass.req}, Outcome(pass))
      /\ cancelRedirect(DOMAIN mSuspendList \cap {pass.seqNo})
      /\ pass' = NULL /\ UNCHANGED <<queue, mNextSeqNo, stage>>
  BY DEF conclude
<1>2. pass.req \in Requests /\ Outcome(pass) \in Kinds
  BY <1>1 DEF Inv, Types, Pass, Outcome, Kinds
<1>3. /\ reply' \in [Requests -> Reply]
      /\ \A r \in Requests : reply'[r].failures = reply[r].failures
  BY <1>1, <1>2, AnswerFacts, Zenon DEF Inv, Types
<1> QED
  BY <1>1, <1>3, QueueFacts, CancelInv

LEMMA HandleCancelInv == ASSUME Inv, handleCancel PROVE Inv'
<1> DEFINE ks == InvitesFor(Head(queue).req)
<1>1. /\ Handling("CANCEL")
      /\ Answer({mSuspendList[k].mMessage : k \in ks}, "487")
      /\ cancelRedirect(ks)
      /\ UNCHANGED <<pass, mNextSeqNo, server, stage, canceled>>
  BY DEF handleCancel
<1>2. ks \in SUBSET DOMAIN mSuspendList
  BY DEF InvitesFor
<1>3. {mSuspendList[k].mMessage : k \in ks} \in SUBSET Requests
  BY <1>2 DEF Inv, Types, Suspended
<1>4. /\ pass = NULL /\ queue' \in Seq(Message)
      /\ \A j \in 1..Len(queue') : queue'[j] \in Message /\ MessageOK(queue'[j])
      /\ \A j1, j2 \in 1..Len(queue') : j1 # j2 => ~Same(queue'[j1], queue'[j2])
  BY <1>1, HandlingFacts
<1>5. /\ reply' \in [Requests -> Reply]
      /\ \A r \in Requests : reply'[r].failures = reply[r].failures
  BY <1>1, <1>3, AnswerFacts DEF Inv, Types, Kinds
<1> HIDE DEF ks
<1> QED
  BY <1>1, <1>2, <1>4, <1>5, CancelInv

LEMMA HandleShutdownInv == ASSUME Inv, handleShutdown PROVE Inv'
<1>1. /\ Handling("OS_SHUTDOWN")
      /\ cancelRedirect(DOMAIN mSuspendList)
      /\ UNCHANGED <<pass, mNextSeqNo, stage, reply>>
  BY DEF handleShutdown
<1>2. /\ pass = NULL /\ queue' \in Seq(Message)
      /\ \A j \in 1..Len(queue') : queue'[j] \in Message /\ MessageOK(queue'[j])
      /\ \A j1, j2 \in 1..Len(queue') : j1 # j2 => ~Same(queue'[j1], queue'[j2])
  BY <1>1, HandlingFacts
<1>3. reply' \in [Requests -> Reply]
  BY <1>1 DEF Inv, Types
<1> QED
  BY <1>1, <1>2, <1>3, CancelInv

LEMMA ObserveInv == ASSUME Inv, observe PROVE Inv'
<1>1. /\ pass # NULL /\ pass \in Pass /\ pass' = [pass EXCEPT !.at = pass.at + 1]
      /\ UNCHANGED <<queue, mSuspendList, mNextSeqNo, stage, number, searching, owed, reply>>
  BY DEF observe, Asking, Inv, Types, pluginVars
<1>2. /\ pass' \in Pass /\ pass'.at = pass.at + 1 /\ pass'.req = pass.req
      /\ pass'.seqNo = pass.seqNo /\ pass'.first = pass.first
      /\ pass'.willSuspend = pass.willSuspend /\ pass.at \in Nat
  BY <1>1 DEF Pass
<1>3. Types'
  BY <1>1, <1>2 DEF Inv, Types
<1>4. Objects' /\ (\A x \in Requests : RequestOK(x)') /\ Queued'
  BY <1>1 DEF Inv, Objects, ObjectOK, RequestOK, Listed, Queued, MessageOK, Same
<1>5. PassOK'
  <2>1. PassOK
    BY <1>1 DEF Inv
  <2>2. pass.seqNo \in DOMAIN mSuspendList => mSuspendList[pass.seqNo].suspended \subseteq Nat
    BY CountAssumption DEF Inv, Types, Suspended, Redirectors
  <2> QED
    BY <1>1, <1>2, <2>1, <2>2 DEF PassOK, Listed
<1> QED
  BY <1>3, <1>4, <1>5 DEF Inv

\* The execution of processRedirect ends, and suspend objects stay as they are.
LEMMA EndInv ==
    ASSUME Inv, pass' = NULL, reply' \in [Requests -> Reply],
           \A r \in Requests : stage[r] # "taken" => reply'[r] = reply[r],
           UNCHANGED <<queue, mSuspendList, mNextSeqNo, stage, number, searching, owed>>
    PROVE  Inv'
<1>1. Types'
  BY SMTT(30) DEF Inv, Types
<1>2. Objects' /\ Queued'
  BY SMTT(30) DEF Inv, Objects, ObjectOK, Queued, MessageOK, Same
<1>3. \A x \in Requests : RequestOK(x)'
  BY SMTT(30) DEF Inv, RequestOK, Listed
<1> QED
  BY <1>1, <1>2, <1>3 DEF Inv

LEMMA StoreInv ==
    ASSUME Inv, NEW k \in DOMAIN mSuspendList, NEW i \in Redirectors, NEW storage \in Storage,
           store(k, i, storage)
    PROVE  Inv'
<1>1. /\ pass = NULL /\ UNCHANGED <<queue, pass, mNextSeqNo, stage, number, searching, owed, reply>>
  BY DEF store, pluginVars
<1>2. /\ DOMAIN mSuspendList' = DOMAIN mSuspendList
      /\ mSuspendList' \in [DOMAIN mSuspendList -> Suspended]
      /\ \A n \in DOMAIN mSuspendList :
            /\ mSuspendList'[n].mMessage = mSuspendList[n].mMessage
            /\ mSuspendList'[n].suspended = mSuspendList[n].suspended
            /\ mSuspendList'[n].needsCancel = mSuspendList[n].needsCancel
            /\ mSuspendList'[n].mSuspendCount = mSuspendList[n].mSuspendCount
  BY StoreFacts
<1>3. Types'
  BY <1>1, <1>2 DEF Inv, Types
<1>4. Objects'
  <2>1. \A n \in DOMAIN mSuspendList : ObjectOK(n, mSuspendList[n])
    BY SMTT(30) DEF Inv, Objects
  <2>2. \A n \in DOMAIN mSuspendList' : ObjectOK(n, mSuspendList[n])'
    BY <1>1, <1>2, <2>1, ZenonT(30) DEF ObjectOK
  <2> QED
    BY <1>2, <2>2 DEF Inv, Objects
<1>5. ASSUME NEW x \in Requests PROVE RequestOK(x)'
  <2>1. Listed(x)' = Listed(x)
    BY <1>2 DEF Listed
  <2>2. RequestOK(x)
    BY DEF Inv
  <2> QED
    BY <1>1, <1>2, <2>1, <2>2 DEF RequestOK
<1>6. Queued'
  <2>1. \A j \in 1..Len(queue) : MessageOK(queue[j])'
    BY <1>1, <1>2 DEF Inv, Queued, MessageOK
  <2>2. \A j1, j2 \in 1..Len(queue) : j1 # j2 => ~Same(queue[j1], queue[j2])'
    BY <1>1, <1>2 DEF Inv, Queued, Same
  <2> QED
    BY <1>1, <2>1, <2>2 DEF Queued
<1> QED
  BY <1>1, <1>2, <1>3, <1>4, <1>5, <1>6 DEF Inv

LEMMA NextInv == ASSUME Inv, [Next]_vars PROVE Inv'
<1>1. ASSUME NEW r \in Requests, arrive(r) PROVE Inv'
  BY <1>1, ArriveInv
<1>2. ASSUME NEW r \in Requests, arriveCancel(r) PROVE Inv'
  <2>1. [type |-> "CANCEL", req |-> r] \in Message
    BY DEF Message
  <2> QED
    BY <1>2, <2>1, PostInv DEF arriveCancel, post, serverVars, pluginVars
<1>3. ASSUME NEW r \in Requests, NEW i \in Redirectors, resumeRequest(r, i) PROVE Inv'
  BY <1>3, ResumeRequestInv
<1>4. CASE requestShutdown
  <2>1. [type |-> "OS_SHUTDOWN"] \in Message
    BY DEF Message
  <2> QED
    BY <1>4, <2>1, PostInv DEF requestShutdown, post, serverVars, pluginVars
<1>5. CASE suspend
  BY <1>5, EndInv, SMTT(30) DEF suspend, pluginVars, Inv, Types
<1>6. CASE exception
  <2>1. stage[pass.req] = "taken"
    BY <1>6 DEF exception, Asking, Inv, PassOK
  <2> QED
    BY <1>6, <2>1, FailedFacts, EndInv, Zenon DEF exception, pluginVars
<1>7. CASE finalized \/ UNCHANGED vars
  <2>1. UNCHANGED <<queue, pass, mSuspendList, mNextSeqNo, stage, number, searching, owed, reply>>
    BY <1>7 DEF finalized, pluginVars, serverVars, vars
  <2>2. Types'
    BY <2>1 DEF Inv, Types
  <2>3. Objects' /\ \A x \in Requests : RequestOK(x)'
    BY <2>1, SMTT(30) DEF Inv, Objects, ObjectOK, RequestOK, Listed
  <2>4. Queued'
    <3>1. \A j \in 1..Len(queue) : MessageOK(queue[j])'
      BY <2>1, Zenon DEF Inv, Queued, MessageOK
    <3>2. \A j1, j2 \in 1..Len(queue) : j1 # j2 => ~Same(queue[j1], queue[j2])'
      BY <2>1, SMTT(30) DEF Inv, Queued, Same
    <3> QED
      BY <2>1, <3>1, <3>2, SMTT(30) DEF Queued
  <2>5. pass' # NULL => PassOK'
    BY <2>1 DEF Inv, PassOK, Listed
  <2> QED
    BY <2>2, <2>3, <2>4, <2>5 DEF Inv
<1> QED
  BY <1>1, <1>2, <1>3, <1>4, <1>5, <1>6, <1>7, HandleRequestInv, HandleCancelInv,
     HandleRestartInv, HandleShutdownInv, ObserveInv, ConcludeInv, LookUpInv, StoreInv
  DEF Next, Redirecting

\* For any number of requests and redirectors, whatever they return and whenever they
\* post their restarts: the counts and numbers of the suspend objects agree with the
\* searches and with the messages of the queue.
THEOREM Bookkeeping == Spec => []Inv
  BY InitInv, NextInv, PTL DEF Spec
-----------------------------------------------------------------------------
\* Every step of the redirect server is a step of RedirectContract, or changes
\* nothing in it.

\* Each step is a step of RedirectContract, or changes nothing in it.
Kept == [Contract!Next]_Contract!vars

\* A request has one suspend object at most.
LEMMA ListedFacts ==
    ASSUME Inv, NEW k \in DOMAIN mSuspendList
    PROVE  /\ Listed(mSuspendList[k].mMessage) = {k}
           /\ Waiting(mSuspendList[k].mMessage) = mSuspendList[k].suspended
           /\ mSuspendList[k].mMessage \in Requests
<1>1. Listed(mSuspendList[k].mMessage) = {k}
  BY DEF Inv, Objects, Listed
<1> QED
  BY <1>1 DEF Waiting, Inv, Types, Suspended

LEMMA PassFacts ==
    ASSUME Inv, pass # NULL
    PROVE  /\ pass.req \in Requests /\ phase[pass.req] = "open"
           /\ Listed(pass.req) = {pass.seqNo} \cap DOMAIN mSuspendList
           /\ Waiting(pass.req) = IF pass.seqNo \in DOMAIN mSuspendList
                                  THEN mSuspendList[pass.seqNo].suspended ELSE {}
<1>1. PassOK /\ pass.req \in Requests
  BY DEF Inv, Types, Pass
<1>2. CASE pass.seqNo \in DOMAIN mSuspendList
  BY <1>1, <1>2, ListedFacts DEF PassOK, phase, Phase
<1>3. CASE pass.seqNo \notin DOMAIN mSuspendList
  BY <1>1, <1>3 DEF PassOK, phase, Phase, Waiting
<1> QED
  BY <1>2, <1>3

\* What the contract does not see.
LEMMA Unseen ==
    ASSUME DOMAIN mSuspendList' = DOMAIN mSuspendList,
           \A n \in DOMAIN mSuspendList : /\ mSuspendList'[n].mMessage = mSuspendList[n].mMessage
                                          /\ mSuspendList'[n].suspended = mSuspendList[n].suspended,
           (pass' # NULL) <=> (pass # NULL), pass # NULL => pass'.req = pass.req,
           \A r \in Requests : stage'[r] = "taken" <=> stage[r] = "taken",
           reply' = reply
    PROVE  UNCHANGED <<phase, waiting, finals, failures>>
<1>1. \A r \in Requests : Listed(r)' = Listed(r)
  BY DEF Listed
<1>2. \A r \in Requests : Waiting(r)' = Waiting(r)
  BY <1>1 DEF Waiting, Listed
<1>3. \A r \in Requests : Phase(r)' = Phase(r)
  BY <1>1 DEF Phase
<1> QED
  BY <1>2, <1>3 DEF phase, waiting, finals, failures

\* Arrivals, restarts that are posted, and what redirectors store or observe.
LEMMA OutsideKept ==
    ASSUME Inv, \/ \E r \in Requests : arrive(r) \/ arriveCancel(r)
                \/ \E r \in Requests, i \in Redirectors : resumeRequest(r, i)
                \/ requestShutdown \/ finalized \/ observe \/ UNCHANGED vars
                \/ \E k \in DOMAIN mSuspendList, i \in Redirectors, storage \in Storage :
                      store(k, i, storage)
    PROVE  Kept
<1>1. ASSUME NEW r \in Requests, arrive(r) PROVE Kept
  <2>1. UNCHANGED <<phase, waiting, finals, failures>>
    BY <1>1, Unseen DEF arrive, serverVars, Inv, Types
  <2> QED
    BY <1>1, <2>1 DEF Kept, Contract!vars, arrive, pluginVars
<1>2. ASSUME UNCHANGED <<pass, mSuspendList, stage, reply>>
      PROVE  UNCHANGED <<phase, waiting, finals, failures>>
  BY <1>2, Unseen
<1>3. ASSUME NEW r \in Requests, arriveCancel(r) PROVE Kept
  BY <1>2, <1>3 DEF Kept, Contract!vars, arriveCancel, pluginVars, serverVars
<1>4. ASSUME NEW r \in Requests, NEW i \in Redirectors, resumeRequest(r, i) PROVE Kept
  <2>1. Contract!Report(r, i)
    BY <1>2, <1>4 DEF Contract!Report, resumeRequest, serverVars
  <2> QED
    BY <2>1 DEF Kept, Contract!Next
<1>5. CASE requestShutdown \/ finalized \/ UNCHANGED vars
  BY <1>2, <1>5 DEF Kept, Contract!vars, requestShutdown, finalized, vars, pluginVars, serverVars
<1>6. CASE observe
  <2>1. pass # NULL /\ pass' = [pass EXCEPT !.at = pass.at + 1] /\ pass \in Pass
    BY <1>6 DEF observe, Asking, Inv, Types
  <2>2. pass' # NULL /\ pass'.req = pass.req
    <3>1. pass' \in Pass /\ pass'.req = pass.req
      BY <2>1 DEF Pass
    <3> QED
      BY <3>1, NullAssumption
  <2>3. UNCHANGED <<phase, waiting, finals, failures>>
    BY <1>6, <2>1, <2>2, Unseen DEF observe
  <2> QED
    BY <1>6, <2>3 DEF Kept, Contract!vars, observe, pluginVars
<1>7. ASSUME NEW k \in DOMAIN mSuspendList, NEW i \in Redirectors, NEW storage \in Storage,
             store(k, i, storage)
      PROVE  Kept
  <2>1. UNCHANGED <<phase, waiting, finals, failures>>
    BY <1>7, StoreFacts, Unseen DEF store
  <2> QED
    BY <1>7, <2>1 DEF Kept, Contract!vars, store, pluginVars
<1> QED
  BY <1>1, <1>3, <1>4, <1>5, <1>6, <1>7

LEMMA HandleRequestKept == ASSUME Inv, handleRequest PROVE Kept
<1>1. /\ pass = NULL /\ Head(queue) \in Message /\ Head(queue).type = "PHONE_APP"
      /\ MessageOK(Head(queue))
  BY HandlingFacts DEF handleRequest
<1>2. PICK r \in Requests : r = Head(queue).req /\ stage[r] = "queued"
  BY <1>1 DEF MessageOK, Message
<1>3. /\ pass' # NULL /\ pass'.req = r /\ stage' = [stage EXCEPT ![r] = "taken"]
      /\ UNCHANGED <<mSuspendList, reply, number, searching, owed>>
  <2>1. pass' = Begin(r, mNextSeqNo, TRUE)
    BY <1>2 DEF handleRequest
  <2>2. Begin(r, mNextSeqNo, TRUE) \in Pass
    BY DEF Begin, Pass, Entries, Inv, Types
  <2>3. pass' # NULL /\ pass'.req = r
    BY <2>1, <2>2, NullAssumption, Zenon DEF Begin
  <2> QED
    BY <2>3, <1>2, Zenon DEF handleRequest, pluginVars
<1>4. \A x \in Requests : Listed(x)' = Listed(x)
  BY <1>3 DEF Listed
<1>5. \A x \in Requests : Waiting(x)' = Waiting(x)
  BY <1>3, <1>4 DEF Waiting
<1>6. Listed(r) = {}
  BY <1>2 DEF Inv, Objects, ObjectOK, Listed
<1>7. \A x \in Requests : Phase(x)' = IF x = r THEN "open" ELSE Phase(x)
  BY <1>1, <1>3, <1>4 DEF Phase, Inv, Types
<1>8. Contract!Accept(r)
  <2>1. Phase(r) = "unseen"
    BY <1>1, <1>2, <1>6 DEF Phase
  <2>2. UNCHANGED <<waiting, finals, failures>>
    BY <1>3, <1>5 DEF waiting, finals, failures
  <2>3. phase' = [phase EXCEPT ![r] = "open"]
    BY <1>7, Zenon DEF phase
  <2> QED
    BY <1>3, <2>1, <2>2, <2>3 DEF Contract!Accept, phase
<1> QED
  BY <1>8 DEF Kept, Contract!Next

\* An execution ends with the suspend objects as they are.
LEMMA LeftFacts ==
    ASSUME Inv, pass # NULL, pass' = NULL, UNCHANGED <<mSuspendList, stage>>
    PROVE  /\ waiting' = waiting
           /\ phase' = [phase EXCEPT ![pass.req] =
                           IF pass.seqNo \in DOMAIN mSuspendList THEN "suspended" ELSE "done"]
<1>1. \A x \in Requests : Listed(x)' = Listed(x)
  BY DEF Listed
<1>2. \A x \in Requests : Waiting(x)' = Waiting(x)
  BY <1>1 DEF Waiting
<1>3. stage[pass.req] = "taken"
  BY DEF Inv, PassOK
<1>4. \A x \in Requests :
         Phase(x)' = IF x = pass.req
                     THEN IF pass.seqNo \in DOMAIN mSuspendList THEN "suspended" ELSE "done"
                     ELSE Phase(x)
  BY <1>1, <1>3, PassFacts DEF Phase
<1>5. phase' = [phase EXCEPT ![pass.req] =
                   IF pass.seqNo \in DOMAIN mSuspendList THEN "suspended" ELSE "done"]
  BY <1>4, PassFacts DEF phase
<1> QED
  BY <1>2, <1>5 DEF waiting

LEMMA SuspendKept == ASSUME Inv, suspend PROVE Kept
<1>1. /\ pass # NULL /\ pass' = NULL /\ pass.willSuspend
      /\ UNCHANGED <<mSuspendList, stage, searching, owed, reply>>
  BY DEF suspend, pluginVars
<1>2. /\ pass.seqNo \in DOMAIN mSuspendList /\ mSuspendList[pass.seqNo].suspended # {}
      /\ pass.req \in Requests /\ phase[pass.req] = "open"
      /\ Waiting(pass.req) = mSuspendList[pass.seqNo].suspended
  BY <1>1, PassFacts DEF Inv, PassOK
<1>3. waiting' = waiting /\ phase' = [phase EXCEPT ![pass.req] = "suspended"]
  BY <1>1, <1>2, LeftFacts
<1>4. Contract!Suspend(pass.req)
  BY <1>1, <1>2, <1>3 DEF Contract!Suspend, waiting, finals, failures
<1> QED
  BY <1>2, <1>4 DEF Kept, Contract!Next

LEMMA ExceptionKept == ASSUME Inv, exception PROVE Kept
<1>1. /\ pass # NULL /\ pass' = NULL /\ PassOK
      /\ UNCHANGED <<mSuspendList, stage, searching, owed>>
  BY DEF exception, Asking, pluginVars, Inv
<1>2. pass.req \in Requests /\ phase[pass.req] = "open"
  BY <1>1, PassFacts
<1>3. finals' = finals
  BY FailedFacts, <1>2 DEF finals
<1>4. \/ failures' = failures
      \/ failures[pass.req] = 0 /\ failures' = [failures EXCEPT ![pass.req] = 1]
  <2>1. /\ \A r \in Requests : r # pass.req => reply'[r] = reply[r]
        /\ reply'[pass.req].failures =
              IF pass.first THEN reply[pass.req].failures + 1 ELSE reply[pass.req].failures
    BY FailedFacts
  <2>2. CASE pass.first
    <3>1. reply[pass.req].failures = 0 /\ reply'[pass.req].failures = 1
      BY <1>1, <2>1, <2>2 DEF PassOK
    <3> QED
      BY <1>2, <2>1, <3>1 DEF failures
  <2>3. CASE ~pass.first
    BY <1>2, <2>1, <2>3 DEF failures
  <2> QED
    BY <2>2, <2>3
<1>5. /\ waiting' = waiting
      /\ \/ phase' = [phase EXCEPT ![pass.req] = "suspended"]
         \/ /\ owed[pass.req] = {} /\ waiting[pass.req] = {}
            /\ phase' = [phase EXCEPT ![pass.req] = "done"]
  <2>1. pass.seqNo \notin DOMAIN mSuspendList => owed[pass.req] = {} /\ waiting[pass.req] = {}
    BY <1>1, <1>2, PassFacts DEF Inv, RequestOK, waiting
  <2> QED
    BY <1>1, <2>1, LeftFacts
<1>6. Contract!Fail(pass.req)
  BY <1>1, <1>2, <1>3, <1>4, <1>5 DEF Contract!Fail
<1> QED
  BY <1>2, <1>6 DEF Kept, Contract!Next

\* The requests whose suspend objects go are over, and their redirectors canceled.
LEMMA EndedFacts ==
    ASSUME Inv, NEW ks \in SUBSET DOMAIN mSuspendList, cancelRedirect(ks),
           UNCHANGED <<mNextSeqNo, stage, failures>>, pass' = NULL,
           NEW rs \in SUBSET Requests,
           \A k \in DOMAIN mSuspendList : k \in ks <=> mSuspendList[k].mMessage \in rs,
           \A r \in rs : stage[r] = "taken",
           pass # NULL => pass.req \in rs
    PROVE  Contract!Ended(rs)
<1>1. /\ DOMAIN mSuspendList' = DOMAIN mSuspendList \ ks
      /\ \A k \in DOMAIN mSuspendList' : mSuspendList'[k] = mSuspendList[k]
      /\ owed' \in [Requests -> SUBSET Redirectors]
      /\ \A r \in Requests :
            owed'[r] = IF \E k \in ks : mSuspendList[k].mMessage = r THEN {} ELSE owed[r]
      /\ searching' = searching
  BY CancelFacts, Zenon
<1>2. \A r \in Requests : Listed(r)' = IF r \in rs THEN {} ELSE Listed(r)
  BY <1>1 DEF Listed
<1>3. \A r \in Requests : Waiting(r)' = IF r \in rs THEN {} ELSE Waiting(r)
  <2> SUFFICES ASSUME NEW r \in Requests PROVE Waiting(r)' = IF r \in rs THEN {} ELSE Waiting(r)
    OBVIOUS
  <2>1. CASE r \in rs
    BY <1>2, <2>1 DEF Waiting
  <2>2. CASE r \notin rs
    <3>1. \A k \in Listed(r) : k \in DOMAIN mSuspendList'
      BY <1>1, <2>2 DEF Listed
    <3> QED
      BY <1>1, <1>2, <2>2, <3>1 DEF Waiting
  <2> QED
    BY <2>1, <2>2
<1>4. \A r \in Requests : Phase(r)' = IF r \in rs THEN "done" ELSE Phase(r)
  BY <1>2 DEF Phase
<1>5. owed' = [r \in Requests |-> IF r \in rs THEN {} ELSE owed[r]]
  <2>1. ASSUME NEW r \in Requests PROVE owed'[r] = IF r \in rs THEN {} ELSE owed[r]
    <3>1. Listed(r) = {} => owed[r] = {}
      BY DEF Inv, RequestOK
    <3>2. CASE r \in rs
      BY <1>1, <3>1, <3>2 DEF Listed
    <3>3. CASE r \notin rs
      BY <1>1, <3>3
    <3> QED
      BY <3>2, <3>3
  <2> QED
    BY <1>1, <2>1
<1>6. phase' = [r \in Requests |-> IF r \in rs THEN "done" ELSE phase[r]]
  BY <1>4 DEF phase
<1>7. waiting' = [r \in Requests |-> IF r \in rs THEN {} ELSE waiting[r]]
  BY <1>3 DEF waiting
<1> QED
  BY <1>1, <1>5, <1>6, <1>7 DEF Contract!Ended

LEMMA AnsweredFacts ==
    ASSUME NEW rs \in SUBSET Requests, NEW kind \in Kinds, Answer(rs, kind),
           reply \in [Requests -> Reply]
    PROVE  failures' = failures /\ Contract!Answered(rs)
<1>1. \A r \in Requests :
         /\ reply'[r].failures = reply[r].failures
         /\ reply'[r].finals = IF r \in rs THEN reply[r].finals + 1 ELSE reply[r].finals
  BY AnswerFacts
<1>2. failures' = failures
  BY <1>1 DEF failures
<1>3. finals' = [r \in Requests |-> IF r \in rs THEN finals[r] + 1 ELSE finals[r]]
  BY <1>1 DEF finals
<1> QED
  BY <1>2, <1>3 DEF Contract!Answered

LEMMA ConcludeKept == ASSUME Inv, conclude PROVE Kept
<1>1. /\ pass # NULL /\ Answer({pass.req}, Outcome(pass)) /\ pass' = NULL
      /\ cancelRedirect(DOMAIN mSuspendList \cap {pass.seqNo}) /\ UNCHANGED <<mNextSeqNo, stage>>
  BY DEF conclude
<1>2. /\ pass.req \in Requests /\ Outcome(pass) \in Kinds /\ reply \in [Requests -> Reply]
      /\ phase[pass.req] = "open" /\ stage[pass.req] = "taken"
      /\ Listed(pass.req) = {pass.seqNo} \cap DOMAIN mSuspendList
  BY <1>1, PassFacts DEF Inv, Types, Pass, PassOK, Outcome, Kinds
<1>3. failures' = failures /\ Contract!Answered({pass.req})
  BY <1>1, <1>2, AnsweredFacts
<1>4. Contract!Ended({pass.req})
  BY <1>1, <1>2, <1>3, EndedFacts DEF Listed
<1>5. Contract!Conclude(pass.req)
  BY <1>2, <1>3, <1>4 DEF Contract!Conclude
<1> QED
  BY <1>2, <1>5 DEF Kept, Contract!Next

\* Requests that have a suspend object, when no execution is under way.
LEMMA SuspendedFacts ==
    ASSUME Inv, pass = NULL, NEW ks \in SUBSET DOMAIN mSuspendList,
           NEW rs, rs = {mSuspendList[k].mMessage : k \in ks}
    PROVE  /\ rs \in SUBSET Requests
           /\ \A r \in rs : phase[r] = "suspended" /\ stage[r] = "taken"
           /\ \A k \in DOMAIN mSuspendList : k \in ks <=> mSuspendList[k].mMessage \in rs
<1>1. rs \in SUBSET Requests
  BY DEF Inv, Types, Suspended
<1>2. ASSUME NEW r \in rs PROVE phase[r] = "suspended" /\ stage[r] = "taken"
  <2>1. PICK k \in ks : r = mSuspendList[k].mMessage
    OBVIOUS
  <2>2. Listed(r) # {} /\ stage[r] = "taken"
    BY <2>1, ListedFacts DEF Inv, Objects, ObjectOK
  <2> QED
    BY <1>1, <2>2 DEF phase, Phase
<1>3. \A k \in DOMAIN mSuspendList : k \in ks <=> mSuspendList[k].mMessage \in rs
  BY DEF Inv, Objects
<1> QED
  BY <1>1, <1>2, <1>3

LEMMA HandleCancelKept == ASSUME Inv, handleCancel PROVE Kept
<1> DEFINE ks == InvitesFor(Head(queue).req)
           rs == {mSuspendList[k].mMessage : k \in ks}
<1>1. /\ Handling("CANCEL") /\ Answer(rs, "487") /\ cancelRedirect(ks)
      /\ UNCHANGED <<pass, mNextSeqNo, stage>>
  BY DEF handleCancel
<1>2. ks \in SUBSET DOMAIN mSuspendList /\ pass = NULL /\ pass' = NULL
  BY <1>1, HandlingFacts DEF InvitesFor
<1> HIDE DEF ks
<1>3. /\ rs \in SUBSET Requests
      /\ \A r \in rs : phase[r] = "suspended" /\ stage[r] = "taken"
      /\ \A k \in DOMAIN mSuspendList : k \in ks <=> mSuspendList[k].mMessage \in rs
  BY <1>2, SuspendedFacts, Zenon
<1> HIDE DEF rs
<1>4. failures' = failures /\ Contract!Answered(rs)
  BY <1>1, <1>3, AnsweredFacts DEF Kinds, Inv, Types
<1>5. Contract!Ended(rs)
  BY <1>1, <1>2, <1>3, <1>4, EndedFacts
<1>6. Contract!Terminate(rs)
  BY <1>3, <1>4, <1>5 DEF Contract!Terminate
<1> QED
  BY <1>3, <1>6 DEF Kept, Contract!Next

LEMMA HandleShutdownKept == ASSUME Inv, handleShutdown PROVE Kept
<1> DEFINE ks == DOMAIN mSuspendList
           rs == {mSuspendList[k].mMessage : k \in ks}
<1>1. /\ Handling("OS_SHUTDOWN") /\ cancelRedirect(ks)
      /\ UNCHANGED <<pass, mNextSeqNo, stage, reply>>
  BY DEF handleShutdown
<1>2. pass = NULL /\ pass' = NULL
  BY <1>1, HandlingFacts
<1>3. /\ rs \in SUBSET Requests
      /\ \A r \in rs : phase[r] = "suspended" /\ stage[r] = "taken"
      /\ \A k \in DOMAIN mSuspendList : k \in ks <=> mSuspendList[k].mMessage \in rs
  BY <1>2, SuspendedFacts, Zenon
<1> HIDE DEF rs
<1>4. failures' = failures /\ finals' = finals
  BY <1>1 DEF failures, finals
<1>5. Contract!Ended(rs)
  BY <1>1, <1>2, <1>3, <1>4, EndedFacts
<1>6. Contract!Shutdown(rs)
  BY <1>3, <1>4, <1>5 DEF Contract!Shutdown
<1> QED
  BY <1>3, <1>6 DEF Kept, Contract!Next

LEMMA HandleRestartKept == ASSUME Inv, handleRestart PROVE Kept
<1>1. /\ Handling("REDIRECT_RESTART") /\ UNCHANGED <<stage, searching, owed, reply>>
  BY DEF handleRestart, pluginVars
<1>2. /\ pass = NULL /\ Head(queue) \in Message /\ Head(queue).type = "REDIRECT_RESTART"
      /\ MessageOK(Head(queue))
  BY <1>1, HandlingFacts
<1>3. PICK k \in Nat, i \in Redirectors : k = Head(queue).seqNo /\ i = Head(queue).redirector
  BY <1>2 DEF Message
<1>4. CASE ~(k \in DOMAIN mSuspendList /\ i \in mSuspendList[k].suspended)
  <2>1. UNCHANGED <<mSuspendList, pass>>
    BY <1>3, <1>4, Zenon DEF handleRestart
  <2>2. UNCHANGED <<phase, waiting, finals, failures>>
    BY <1>1, <2>1, Unseen
  <2> QED
    BY <1>1, <2>2 DEF Kept, Contract!vars
<1>5. CASE k \in DOMAIN mSuspendList /\ i \in mSuspendList[k].suspended
  <2>1. PICK a \in Suspended, r \in Requests : a = mSuspendList[k] /\ r = a.mMessage
    BY <1>5, ListedFacts DEF Inv, Types
  <2>2. /\ mSuspendList' = [mSuspendList EXCEPT ![k] = Restarted(a, i)]
        /\ pass' = IF Resumed(a) THEN Begin(r, k, FALSE) ELSE NULL
    BY <1>3, <1>5, <2>1, Zenon DEF handleRestart
  <2>3. ObjectOK(k, a) /\ i \in a.suspended /\ i \notin searching[r] /\ stage[r] = "taken"
    BY <1>2, <1>3, <1>5, <2>1 DEF Inv, Objects, ObjectOK, MessageOK
  <2>4. PICK b \in Suspended : /\ b = Restarted(a, i) /\ b.mMessage = r
                               /\ b.suspended = a.suspended \ {i}
                               /\ Resumed(a) <=> a.suspended = {i}
    BY <2>1, <2>3, RestartedFacts DEF ObjectOK
  <2>5. /\ DOMAIN mSuspendList' = DOMAIN mSuspendList /\ mSuspendList'[k] = b
        /\ \A n \in DOMAIN mSuspendList : n # k => mSuspendList'[n] = mSuspendList[n]
    BY <1>5, <2>2, <2>4
  <2>6. /\ Listed(r) = {k} /\ Waiting(r) = a.suspended
    BY <1>5, <2>1, ListedFacts
  <2>7. \A x \in Requests : Listed(x)' = Listed(x)
    BY <1>5, <2>1, <2>4, <2>5 DEF Listed
  <2>8. ASSUME NEW x \in Requests
        PROVE  Waiting(x)' = IF x = r THEN a.suspended \ {i} ELSE Waiting(x)
    <3>1. CASE x = r
      <4>1. Listed(x)' = {k}
        BY <2>6, <2>7, <3>1
      <4> QED
        BY <2>4, <2>5, <3>1, <4>1 DEF Waiting
    <3>2. CASE x # r
      <4>1. \A n \in Listed(x) : n # k /\ mSuspendList'[n] = mSuspendList[n]
        BY <2>1, <2>5, <3>2 DEF Listed
      <4> QED
        BY <2>7, <3>2, <4>1 DEF Waiting
    <3> QED
      BY <3>1, <3>2
  <2>9. IF a.suspended = {i} THEN pass' # NULL /\ pass'.req = r ELSE pass' = NULL
    <3>1. Begin(r, k, FALSE) \in Pass /\ Begin(r, k, FALSE).req = r
      BY DEF Begin, Pass, Entries
    <3> QED
      BY <2>2, <2>4, <3>1, NullAssumption, Zenon
  <2>10. \A x \in Requests :
            Phase(x)' = IF x = r /\ a.suspended = {i} THEN "open" ELSE Phase(x)
    BY <1>1, <1>2, <2>7, <2>9 DEF Phase
  <2>11. Contract!Resume(r, i)
    <3>1. phase[r] = "suspended" /\ waiting[r] = a.suspended
      BY <1>2, <2>6 DEF phase, Phase, waiting
    <3>2. waiting' = [waiting EXCEPT ![r] = @ \ {i}]
      BY <2>6, <2>8, Zenon DEF waiting
    <3>3. phase' = IF a.suspended = {i} THEN [phase EXCEPT ![r] = "open"] ELSE phase
      BY <2>10 DEF phase
    <3>4. UNCHANGED <<finals, failures>>
      BY <1>1 DEF finals, failures
    <3> QED
      BY <1>1, <2>3, <3>1, <3>2, <3>3, <3>4 DEF Contract!Resume
  <2> QED
    BY <2>11 DEF Kept, Contract!Next
<1> QED
  BY <1>4, <1>5

LEMMA LookUpKept ==
    ASSUME Inv, NEW status \in LookUpStatus, NEW storage \in Storage \cup {NULL},
           NEW modified \in BOOLEAN, NEW entries \in Entries,
           lookUp(status, storage, modified, entries)
    PROVE  Kept
<1>1. MayLookUp /\ pass # NULL /\ UNCHANGED <<stage, reply>>
  BY DEF lookUp, MayLookUp, Asking
<1>2. pass' # NULL /\ pass'.req = pass.req
  BY LookUpPass, NullAssumption
<1>3. UNCHANGED <<finals, failures>>
  BY <1>1 DEF finals, failures
<1>4. CASE ~(pass.seqNo \in DOMAIN mSuspendList \/ status = "SEARCH_PENDING" \/ storage # NULL)
  <2>1. UNCHANGED <<mSuspendList, searching, owed>>
    BY <1>4 DEF lookUp, pluginVars
  <2>2. UNCHANGED <<phase, waiting, finals, failures>>
    BY <1>1, <1>2, <2>1, Unseen
  <2> QED
    BY <2>1, <2>2 DEF Kept, Contract!vars
<1>5. CASE pass.seqNo \in DOMAIN mSuspendList \/ status = "SEARCH_PENDING" \/ storage # NULL
  <2>1. PICK k, r, i, a, b : /\ k = pass.seqNo /\ r = pass.req /\ i = pass.at
                             /\ a = suspendObject /\ b = Noted(a, i, status, storage)
    OBVIOUS
  <2>2. NotedStep(k, r, i, b, status)
    BY <1>5, <2>1, LookUpNoted
  <2>3. /\ a \in Suspended /\ i \in Redirectors /\ i \notin a.suspended
        /\ a.mSuspendCount = Cardinality(a.suspended) /\ a.mMessage = r
    BY <1>1, <2>1, SuspendObjectFacts
  <2>4. /\ b.mMessage = r
        /\ b.suspended = IF status = "SEARCH_PENDING" THEN a.suspended \cup {i} ELSE a.suspended
    <3>1. /\ b.mMessage = a.mMessage
          /\ IF status = "SEARCH_PENDING"
             THEN b.suspended = a.suspended \cup {i} /\ b.needsCancel = a.needsCancel \cup {i}
             ELSE b.suspended = a.suspended /\ b.needsCancel = a.needsCancel
      BY <2>1, <2>3, NotedFacts
    <3> QED
      BY <2>3, <3>1
  <2>5. /\ Waiting(r) = a.suspended /\ r \in Requests /\ phase[r] = "open"
        /\ Listed(r) = {k} \cap DOMAIN mSuspendList
    BY <1>1, <2>1, PassFacts DEF suspendObject, NewSuspend
  <2>6. \A x \in Requests : Listed(x)' = IF x = r THEN {k} ELSE Listed(x)
    BY <2>2, <2>4, <2>5 DEF Listed, NotedStep
  <2>7. ASSUME NEW x \in Requests
        PROVE  Waiting(x)' = IF x = r THEN b.suspended ELSE Waiting(x)
    <3>1. CASE x = r
      BY <2>2, <2>6, <3>1 DEF Waiting, NotedStep
    <3>2. CASE x # r
      <4>1. \A n \in Listed(x) : n # k /\ mSuspendList'[n] = mSuspendList[n]
        BY <2>2, <2>5, <3>2 DEF Listed, NotedStep
      <4> QED
        BY <2>6, <3>2, <4>1 DEF Waiting
    <3> QED
      BY <3>1, <3>2
  <2>8. phase' = phase
    <3>1. \A x \in Requests : Phase(x)' = Phase(x)
      BY <1>1, <1>2, <2>1, <2>6 DEF Phase
    <3> QED
      BY <3>1 DEF phase
  <2>9. waiting' = [waiting EXCEPT ![r] = b.suspended] /\ waiting[r] = a.suspended
    BY <2>5, <2>7, Zenon DEF waiting
  <2>10. CASE status = "SEARCH_PENDING"
    <3>1. Contract!Search(r, i)
      BY <1>3, <2>2, <2>3, <2>4, <2>5, <2>8, <2>9, <2>10 DEF Contract!Search, NotedStep
    <3> QED
      BY <2>3, <2>5, <3>1 DEF Kept, Contract!Next
  <2>11. CASE status # "SEARCH_PENDING"
    <3>1. waiting' = waiting
      BY <2>4, <2>9, <2>11 DEF waiting
    <3>2. searching' = searching /\ owed' = owed
      BY <2>2, <2>11 DEF NotedStep
    <3> QED
      BY <1>3, <2>8, <3>1, <3>2 DEF Kept, Contract!vars
  <2> QED
    BY <2>10, <2>11
<1> QED
  BY <1>4, <1>5

LEMMA NextKept == ASSUME Inv, [Next]_vars PROVE Kept
  BY OutsideKept, HandleRequestKept, HandleCancelKept, HandleRestartKept, HandleShutdownKept,
     SuspendKept, ExceptionKept, ConcludeKept, LookUpKept
  DEF Next, Redirecting

\* For any number of requests and redirectors, whatever the redirectors return, in
\* whatever order restarts, CANCELs and the shutdown reach the queue, and with an
\* exception in any lookup: handleMessage and processRedirect do what RedirectContract
\* promises.
THEOREM Refinement == Spec => KeepsContract
<1>1. Init => Contract!Init
  <2> SUFFICES ASSUME Init PROVE Contract!Init
    OBVIOUS
  <2>1. \A r \in Requests : Listed(r) = {}
    BY DEF Init, Listed
  <2>2. \A r \in Requests : Phase(r) = "unseen" /\ Waiting(r) = {}
    BY <2>1 DEF Init, Phase, Waiting
  <2> QED
    BY <2>2 DEF Init, Contract!Init, phase, waiting, finals, failures
<1>2. Inv /\ [Next]_vars => Kept
  BY NextKept
<1> QED
  BY <1>1, <1>2, Bookkeeping, PTL DEF Spec, KeepsContract, Contract!Spec, Kept

\* What the proof of Promise needs besides: an answer is given once because the
\* request is over then, and what is over stays so.
PromiseInv ==
    /\ phase \in [Requests -> {"unseen", "open", "suspended", "done"}]
    /\ waiting \in [Requests -> SUBSET Redirectors]
    /\ owed \in [Requests -> SUBSET Redirectors]
    /\ finals \in [Requests -> {0, 1}]
    /\ failures \in [Requests -> {0, 1}]
    /\ \A r \in Requests : /\ finals[r] = 1 => phase[r] = "done"
                           /\ phase[r] \in {"unseen", "done"} => owed[r] = {} /\ waiting[r] = {}

\* Whatever implements RedirectContract keeps the promises to the senders of requests and
\* to the redirectors.  The proof uses nothing of how the redirect server does it: the
\* definitions of phase, waiting, finals and failures are not expanded.
THEOREM PromiseKept == Contract!Spec => []Contract!Promise
<1>1. Contract!Init => PromiseInv
  BY DEF Contract!Init, PromiseInv
<1>2. PromiseInv /\ [Contract!Next]_(Contract!vars) => PromiseInv'
  <2> SUFFICES ASSUME PromiseInv, [Contract!Next]_(Contract!vars) PROVE PromiseInv'
    OBVIOUS
  <2>1. ASSUME NEW r \in Requests, Contract!Accept(r) \/ Contract!Suspend(r) PROVE PromiseInv'
    BY <2>1 DEF PromiseInv, Contract!Accept, Contract!Suspend
  <2>2. ASSUME NEW r \in Requests, Contract!Fail(r) PROVE PromiseInv'
    BY <2>2 DEF PromiseInv, Contract!Fail
  <2>3. ASSUME NEW r \in Requests, NEW i \in Redirectors,
               Contract!Search(r, i) \/ Contract!Report(r, i) \/ Contract!Resume(r, i)
        PROVE  PromiseInv'
    BY <2>3 DEF PromiseInv, Contract!Search, Contract!Report, Contract!Resume
  <2>4. ASSUME NEW rs \in SUBSET Requests, Contract!Ended(rs),
               \A r \in rs : phase[r] \in {"open", "suspended"},
               Contract!Answered(rs) \/ UNCHANGED finals
        PROVE  PromiseInv'
    <3>1. \A r \in rs : finals[r] = 0
      BY <2>4 DEF PromiseInv
    <3>2. finals' \in [Requests -> {0, 1}] /\ \A r \in Requests : r \notin rs => finals'[r] = finals[r]
      BY <2>4, <3>1 DEF PromiseInv, Contract!Answered
    <3> QED
      BY <2>4, <3>2 DEF PromiseInv, Contract!Ended
  <2>5. ASSUME NEW r \in Requests, Contract!Conclude(r) PROVE PromiseInv'
    <3>1. {r} \in SUBSET Requests /\ \A x \in {r} : phase[x] \in {"open", "suspended"}
      BY <2>5 DEF Contract!Conclude
    <3> QED
      BY <2>4, <2>5, <3>1 DEF Contract!Conclude
  <2>6. ASSUME NEW rs \in SUBSET Requests, Contract!Terminate(rs) \/ Contract!Shutdown(rs) PROVE PromiseInv'
    BY <2>4, <2>6 DEF Contract!Terminate, Contract!Shutdown
  <2>7. CASE UNCHANGED Contract!vars
    BY <2>7 DEF PromiseInv, Contract!vars
  <2> QED
    BY <2>1, <2>2, <2>3, <2>5, <2>6, <2>7 DEF Contract!Next
<1>3. PromiseInv => Contract!Promise
  <2>1. \A a, b \in {0, 1} : a + b <= 2 /\ a <= 1 /\ b <= 1
    OBVIOUS
  <2> QED
    BY <2>1 DEF PromiseInv, Contract!Promise
<1> QED
  BY <1>1, <1>2, <1>3, PTL DEF Contract!Spec

\* A request is answered once at most, but for the 503 of an exception, and when it is
\* over every redirector that returned SEARCH_PENDING has had its cancel().
THEOREM Promises == Spec => []Contract!Promise
  BY Refinement, PromiseKept, PTL DEF KeepsContract
==============================================================================
