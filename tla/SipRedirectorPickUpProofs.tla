--------------------- MODULE SipRedirectorPickUpProofs ---------------------
(***************************************************************************)
(* The redirect server with its pick-up redirectors, their timers, tasks   *)
(* and NOTIFYs is a redirect server: the redirectors keep to what          *)
(* SipRedirectServer allows them, so all that is proved there holds.       *)
(***************************************************************************)
EXTENDS SipRedirectorPickUp, SipRedirectServerProofs

\* What each step is tried with, and for how long.
USE ZenonT(5), SMTT(20), ZenonT(60)

\* What the redirectors store and the timers name is what the server knows of.
TasksOK ==
    /\ timers \subseteq Requests \X PickUps
    /\ inbox \in [PickUps -> Seq(Notify \cup [type : {"OS_SHUTDOWN"}])]
    /\ task \in [PickUps -> {"receive", "respond", "ended"}]
    /\ \A i \in PickUps : task[i] = "respond" => inbox[i] # <<>>
    /\ agent \subseteq PickUps

PickInv == Inv /\ TasksOK

\* What a redirector returns and keeps when it is asked in lookUpAny.
Asked(status, storage) ==
    /\ IF pass.at \in Codes[pass.req]
       THEN /\ storage # NULL
            /\ IF status = "SEARCH_PENDING"
               THEN suspendObject.privateStorage[pass.at] = NULL /\ storage = Absent
               ELSE storage = suspendObject.privateStorage[pass.at]
       ELSE storage = NULL /\ status # "SEARCH_PENDING"
    /\ IF status = "SEARCH_PENDING"
       THEN /\ subscribed' = subscribed \cup {<<pass.req, pass.at>>}
            /\ timers' = timers \cup {<<pass.req, pass.at>>}
       ELSE UNCHANGED <<subscribed, timers>>
    /\ UNCHANGED <<inbox, heard, taskVars>>

LEMMA LookUpAnyStep ==
    ASSUME PickInv, lookUpAny
    PROVE  /\ \E status \in LookUpStatus, storage \in Storage \cup {NULL}, modified \in BOOLEAN,
                 entries \in Entries :
                    lookUp(status, storage, modified, entries) /\ Asked(status, storage)
           /\ pass.req \in Requests
           /\ pass.at \in Codes[pass.req] => pass.at \in PickUps
<1>1. pass # NULL /\ pass \in Pass /\ pass.req \in Requests /\ UNCHANGED taskVars
  BY DEF lookUpAny, PickInv, Inv, Types, Pass
<1>2. /\ "ERROR" \in LookUpStatus /\ "SUCCESS" \in LookUpStatus /\ "SEARCH_PENDING" \in LookUpStatus
      /\ NULL \in Storage \cup {NULL} /\ Absent \in Storage \cup {NULL} /\ Absent # NULL
      /\ 0 \in Entries /\ 1 \in Entries /\ 2 \in Entries
      /\ TRUE \in BOOLEAN /\ FALSE \in BOOLEAN
  BY PickUpAssumption, NullAssumption DEF LookUpStatus, Entries
<1>3. CASE pass.at \in Codes[pass.req]
  <2>1. pass.at \in PickUps
    BY <1>1, <1>3, PickUpAssumption
  <2>2. CASE lookUpFirst(pass.req, pass.at)
    <3>1. lookUp("SEARCH_PENDING", Absent, FALSE, 0)
      BY <2>2, Zenon DEF lookUpFirst
    <3>2. Asked("SEARCH_PENDING", Absent)
      BY <1>1, <1>2, <1>3, <2>2 DEF lookUpFirst, Asked
    <3> QED
      BY <1>1, <1>2, <2>1, <3>1, <3>2, Zenon
  <2>3. CASE lookUpAgain(pass.req, pass.at)
    <3>1. PICK duration : /\ duration = suspendObject.privateStorage[pass.at] /\ duration # NULL
                          /\ lookUp("SUCCESS", duration, duration # Absent,
                                    IF pass.entries = 0 THEN 1 ELSE 2)
                          /\ UNCHANGED netVars
      BY <2>3 DEF lookUpAgain
    <3>2. suspendObject \in Suspended /\ pass.at \in Redirectors
      BY <3>1, SuspendObjectFacts DEF lookUp, PickInv
    <3>3. duration \in Storage \cup {NULL}
      BY <3>1, <3>2 DEF Suspended
    <3>4. (IF pass.entries = 0 THEN 1 ELSE 2) \in Entries /\ (duration # Absent) \in BOOLEAN
      BY <1>2
    <3>5. Asked("SUCCESS", duration)
      BY <1>1, <1>3, <3>1 DEF Asked, netVars
    <3> QED
      BY <1>1, <1>2, <2>1, <3>1, <3>3, <3>4, <3>5, Zenon
  <2> QED
    BY <1>3, <2>2, <2>3 DEF lookUpAny, lookUpDialog
<1>4. CASE pass.at \notin Codes[pass.req]
  <2>1. lookUpAtOnce
    BY <1>4 DEF lookUpAny
  <2>2. /\ \/ lookUp("ERROR", NULL, FALSE, 0)
           \/ lookUp("SUCCESS", NULL, FALSE, 0)
           \/ \E entries \in 1..2 : lookUp("SUCCESS", NULL, TRUE, entries)
        /\ UNCHANGED <<timers, subscribed, inbox, heard>>
    BY <2>1, Zenon DEF lookUpAtOnce, netVars
  <2>3. \A entries \in 1..2 : entries \in Entries
    BY DEF Entries
  <2>4. Asked("ERROR", NULL) /\ Asked("SUCCESS", NULL)
    BY <1>1, <1>4, <2>2 DEF Asked
  <2> QED
    BY <1>1, <1>2, <1>4, <2>2, <2>3, <2>4, Zenon
<1> QED
  BY <1>3, <1>4

\* The NOTIFY at the head of a queue is stored if its request is still suspended.
LEMMA RecordStep ==
    ASSUME PickInv, NEW i \in PickUps, record(i)
    PROVE  /\ \/ UNCHANGED vars
              \/ \E k \in DOMAIN mSuspendList, j \in Redirectors, storage \in Storage :
                    store(k, j, storage)
           /\ UNCHANGED <<timers, inbox>>
<1>1. /\ inbox[i] # <<>> /\ Head(inbox[i]).type = "NOTIFY" /\ UNCHANGED <<timers, inbox>>
  BY DEF record, Handles
<1>2. inbox[i] \in Seq(Notify \cup [type : {"OS_SHUTDOWN"}])
  BY DEF PickInv, TasksOK
<1>3. Head(inbox[i]) \in Notify \cup [type : {"OS_SHUTDOWN"}]
  BY <1>1, <1>2
<1>4. PICK r \in Requests, d \in Storage : r = Head(inbox[i]).req /\ d = Head(inbox[i]).duration
  BY <1>1, <1>3, PickUpAssumption, Zenon DEF Notify
<1>5. i \in Redirectors
  BY PickUpAssumption, ConfigAssumption
<1>6. CASE Owners(r, i) = {}
  BY <1>1, <1>4, <1>6 DEF record
<1>7. CASE Owners(r, i) # {}
  <2>1. PICK k \in Owners(r, i) : processNotify(i, k, r, d)
    BY <1>4, <1>7 DEF record
  <2>2. PICK best : best = mSuspendList[k].privateStorage[i]
    OBVIOUS
  <2>3. k \in DOMAIN mSuspendList /\ best \in Storage
    BY <1>5, <2>1, <2>2 DEF Owners, PickInv, Inv, Types, Suspended
  <2>4. store(k, i, IF d > best THEN d ELSE best)
    BY <2>1, <2>2 DEF processNotify
  <2> QED
    BY <1>1, <1>4, <1>5, <2>3, <2>4
<1> QED
  BY <1>6, <1>7

\* Every step of the composition is a step of the redirect server or leaves it alone.
LEMMA PickStep == ASSUME PickInv, [PickNext]_allVars PROVE [Next]_vars /\ TasksOK'
<1>1. TasksOK
  BY DEF PickInv
<1>2. ASSUME timers' \subseteq timers, UNCHANGED <<inbox, task, agent>> PROVE TasksOK'
  BY <1>1, <1>2 DEF TasksOK
<1>3. ASSUME Server PROVE [Next]_vars /\ TasksOK'
  <2>1. CASE (handleRequest \/ handleRestart \/ observe \/ suspend) /\ UNCHANGED <<netVars, taskVars>>
    BY <1>2, <2>1 DEF Next, Redirecting, netVars, taskVars
  <2>2. CASE exception /\ pass.at \in MayThrow /\ UNCHANGED <<netVars, taskVars>>
    BY <1>2, <2>2 DEF Next, Redirecting, netVars, taskVars
  <2>3. CASE (conclude \/ handleCancel \/ handleShutdown) /\ Forgotten /\ UNCHANGED taskVars
    <3>1. timers' \subseteq timers /\ UNCHANGED <<inbox, task, agent>>
      BY <2>3 DEF Forgotten, taskVars
    <3> QED
      BY <1>2, <2>3, <3>1 DEF Next, Redirecting
  <2>4. CASE lookUpAny
    <3>1. PICK status \in LookUpStatus, storage \in Storage \cup {NULL}, modified \in BOOLEAN,
               entries \in Entries :
            lookUp(status, storage, modified, entries) /\ Asked(status, storage)
      BY <2>4, LookUpAnyStep
    <3>2. pass.req \in Requests /\ (pass.at \in Codes[pass.req] => pass.at \in PickUps)
      BY <2>4, LookUpAnyStep
    <3>3. TasksOK'
      BY <1>1, <3>1, <3>2 DEF Asked, TasksOK, taskVars
    <3> QED
      BY <3>1, <3>3 DEF Next, Redirecting
  <2> QED
    BY <1>3, <2>1, <2>2, <2>3, <2>4 DEF Server
<1>4. ASSUME NEW p \in timers, signal(p[1], p[2]) PROVE [Next]_vars /\ TasksOK'
  <2>1. p[1] \in Requests /\ p[2] \in Redirectors
    BY <1>1, PickUpAssumption, ConfigAssumption DEF TasksOK
  <2>2. timers' \subseteq timers /\ UNCHANGED <<inbox, task, agent>>
    BY <1>4 DEF signal, taskVars
  <2> QED
    BY <1>2, <1>4, <2>1, <2>2 DEF signal, Next
<1>5. CASE registrar
  BY <1>2, <1>5 DEF registrar, Next, taskVars
<1>6. ASSUME NEW i \in PickUps, NEW m \in Notify \cup [type : {"OS_SHUTDOWN"}],
             inbox' = [inbox EXCEPT ![i] = Append(@, m)], UNCHANGED <<timers, task>>,
             agent' \subseteq agent
      PROVE  TasksOK'
  <2>1. inbox[i] \in Seq(Notify \cup [type : {"OS_SHUTDOWN"}])
    BY <1>1 DEF TasksOK
  <2>2. /\ Append(inbox[i], m) \in Seq(Notify \cup [type : {"OS_SHUTDOWN"}])
        /\ Append(inbox[i], m) # <<>>
    BY <2>1
  <2> QED
    BY <1>1, <1>6, <2>2 DEF TasksOK
<1>7. ASSUME NEW r \in Requests, NEW i \in PickUps, NEW d \in Durations \cup {Absent}, notify(r, i, d)
      PROVE  [Next]_vars /\ TasksOK'
  <2>1. [type |-> "NOTIFY", req |-> r, duration |-> d] \in Notify
    BY DEF Notify
  <2> QED
    BY <1>6, <1>7, <2>1, Zenon DEF notify, taskVars
<1>8. ASSUME NEW i \in Redirectors, finalize(i) PROVE [Next]_vars /\ TasksOK'
  <2>1. [type |-> "OS_SHUTDOWN"] \in [type : {"OS_SHUTDOWN"}]
    OBVIOUS
  <2>2. i \in PickUps
    BY <1>1, <1>8 DEF finalize, TasksOK
  <2> QED
    BY <1>6, <1>8, <2>1, <2>2, Zenon DEF finalize
<1>9. ASSUME NEW i \in Redirectors, deleted(i) PROVE [Next]_vars /\ TasksOK'
  BY <1>2, <1>9 DEF deleted, netVars
<1>10. CASE Finalized
  BY <1>2, <1>10 DEF Finalized, Next, netVars, taskVars
<1>11. ASSUME NEW i \in PickUps, record(i) PROVE [Next]_vars /\ TasksOK'
  <2>1. UNCHANGED <<timers, inbox, agent>> /\ task' = [task EXCEPT ![i] = "respond"] /\ inbox[i] # <<>>
    BY <1>11 DEF record, Handles
  <2>2. TasksOK'
    BY <1>1, <2>1 DEF TasksOK
  <2> QED
    BY <1>11, <2>2, RecordStep DEF Next
<1>12. ASSUME NEW i \in PickUps, respond(i) \/ endTask(i) PROVE [Next]_vars /\ TasksOK'
  <2>1. inbox[i] # <<>> /\ inbox[i] \in Seq(Notify \cup [type : {"OS_SHUTDOWN"}])
    BY <1>1, <1>12 DEF TasksOK, respond, endTask, Handles
  <2>2. Tail(inbox[i]) \in Seq(Notify \cup [type : {"OS_SHUTDOWN"}])
    BY <2>1
  <2>3. /\ inbox' = [inbox EXCEPT ![i] = Tail(inbox[i])]
        /\ task' = [task EXCEPT ![i] = IF i \in stopping THEN "ended" ELSE "receive"]
        /\ UNCHANGED <<vars, timers, agent>>
    BY <1>12 DEF respond, endTask, Handled
  <2> QED
    BY <1>1, <2>2, <2>3 DEF TasksOK
<1>13. CASE UNCHANGED allVars
  BY <1>2, <1>13 DEF allVars, netVars, taskVars
<1> QED
  BY <1>3, <1>4, <1>5, <1>7, <1>8, <1>9, <1>10, <1>11, <1>12, <1>13 DEF PickNext, ServerTask

\* For any number of requests, redirectors and phones, with NOTIFYs lost, repeated and
\* out of order and timers that fire late: the composition behaves as a redirect server
\* behaves, so it keeps RedirectContract too.
THEOREM Composition == PickSpec => Spec /\ KeepsContract
<1>1. PickInit => Init /\ PickInv
  <2>1. PickInit => TasksOK
    BY DEF PickInit, TasksOK
  <2> QED
    BY <2>1, InitInv DEF PickInit, PickInv
<1>2. PickInv /\ [PickNext]_allVars => PickInv' /\ [Next]_vars
  BY PickStep, NextInv DEF PickInv
<1> QED
  BY <1>1, <1>2, Refinement, PTL DEF PickSpec, Spec

-----------------------------------------------------------------------------
\* The types, and the numbers that are given out.

Taken == {r \in Requests : stage[r] = "taken"}

\* A number is given to one request at most, so there are no more than requests.
Counted ==
    /\ mNextSeqNo <= Cardinality(Taken)
    /\ pass # NULL /\ pass.seqNo \notin DOMAIN mSuspendList => mNextSeqNo < Cardinality(Taken)

\* The members of the server that Inv leaves out; after the OS_SHUTDOWN there is
\* nothing left to process.
ServerOK ==
    /\ canceled \subseteq Requests
    /\ server \in {"running", "finalizing", "stopped"}
    /\ pass # NULL => pass.at <= mRedirectorCount + 1
    /\ server # "running" => pass = NULL /\ DOMAIN mSuspendList = {}

LEMMA TakenFacts ==
    /\ IsFiniteSet(Taken) /\ Cardinality(Taken) \in Nat
    /\ Cardinality(Taken) <= Cardinality(Requests)
<1>1. Taken \subseteq Requests
  BY DEF Taken
<1> QED
  BY <1>1, FiniteAssumption, FS_Subset, FS_CardinalityType

\* Steps that neither begin a request nor ask a redirector.
LEMMA CountedStay ==
    ASSUME Inv, Counted, UNCHANGED <<stage, mNextSeqNo>>,
           pass' # NULL => \/ pass # NULL /\ pass'.seqNo = pass.seqNo
                              /\ DOMAIN mSuspendList \subseteq DOMAIN mSuspendList'
                           \/ pass'.seqNo \in DOMAIN mSuspendList'
    PROVE  Counted'
BY DEF Counted, Taken

LEMMA CountedRequest == ASSUME Inv, Counted, handleRequest PROVE Counted'
<1>1. PICK r : r = Head(queue).req
  OBVIOUS
<1>2. /\ Head(queue) \in Message /\ Head(queue).type = "PHONE_APP" /\ MessageOK(Head(queue))
      /\ mNextSeqNo' = mNextSeqNo /\ stage' = [stage EXCEPT ![r] = "taken"]
  BY <1>1, HandlingFacts DEF handleRequest
<1>3. r \in Requests /\ stage[r] = "queued"
  BY <1>1, <1>2 DEF Message, MessageOK
<1>4. stage \in [Requests -> {"unseen", "queued", "taken"}] /\ mNextSeqNo \in Nat
  BY DEF Inv, Types
<1>5. Taken' = Taken \cup {r} /\ r \notin Taken
  BY <1>2, <1>3, <1>4 DEF Taken
<1>6. Cardinality(Taken') = Cardinality(Taken) + 1
  BY <1>5, TakenFacts, FS_AddElement
<1> QED
  BY <1>2, <1>4, <1>6, TakenFacts DEF Counted

LEMMA CountedLookUp ==
    ASSUME Inv, Counted, NEW status \in LookUpStatus, NEW storage \in Storage \cup {NULL},
           NEW modified \in BOOLEAN, NEW entries \in Entries,
           lookUp(status, storage, modified, entries)
    PROVE  Counted'
<1>1. /\ pass # NULL /\ pass' \in Pass /\ pass'.seqNo = pass.seqNo /\ stage' = stage
      /\ mNextSeqNo \in Nat
  <2>1. pass' \in Pass /\ pass'.seqNo = pass.seqNo
    BY LookUpPass
  <2> QED
    BY <2>1 DEF lookUp, MayLookUp, Asking, Inv, Types
<1>2. CASE ~(pass.seqNo \in DOMAIN mSuspendList \/ status = "SEARCH_PENDING" \/ storage # NULL)
  <2>1. UNCHANGED <<mSuspendList, mNextSeqNo>>
    BY <1>2 DEF lookUp, NextSeqNo
  <2> QED
    BY <1>1, <2>1, CountedStay
<1>3. CASE pass.seqNo \in DOMAIN mSuspendList \/ status = "SEARCH_PENDING" \/ storage # NULL
  <2>1. DOMAIN mSuspendList' = DOMAIN mSuspendList \cup {pass.seqNo}
    BY <1>3, LookUpNoted DEF NotedStep
  <2>2. \/ mNextSeqNo' = mNextSeqNo
        \/ mNextSeqNo' = mNextSeqNo + 1 /\ pass.seqNo \notin DOMAIN mSuspendList
    BY DEF lookUp, NextSeqNo
  <2> QED
    BY <1>1, <2>1, <2>2, TakenFacts DEF Counted, Taken
<1> QED
  BY <1>2, <1>3

LEMMA ServerNext == ASSUME Inv, Counted, ServerOK, [Next]_vars PROVE Counted' /\ ServerOK'
<1>1. ASSUME UNCHANGED <<pass, mSuspendList, mNextSeqNo, stage, server>>, canceled' \subseteq Requests
      PROVE  Counted' /\ ServerOK'
  BY <1>1, CountedStay DEF ServerOK
<1>2. ASSUME NEW r \in Requests, arrive(r) \/ arriveCancel(r) PROVE Counted' /\ ServerOK'
  <2>1. CASE arrive(r)
    <3>1. /\ stage[r] = "unseen" /\ stage' = [stage EXCEPT ![r] = "queued"]
          /\ UNCHANGED <<pass, mSuspendList, mNextSeqNo, server, canceled>>
      BY <2>1 DEF arrive, serverVars
    <3>2. Taken' = Taken
      BY <3>1 DEF Taken, Inv, Types
    <3> QED
      BY <3>1, <3>2 DEF Counted, ServerOK
  <2>2. CASE arriveCancel(r)
    BY <1>1, <2>2 DEF arriveCancel, serverVars, ServerOK
  <2> QED
    BY <1>2, <2>1, <2>2
<1>3. ASSUME NEW r \in Requests, NEW i \in Redirectors, resumeRequest(r, i)
      PROVE  Counted' /\ ServerOK'
  BY <1>1, <1>3 DEF resumeRequest, serverVars, ServerOK
<1>4. CASE requestShutdown
  BY <1>1, <1>4 DEF requestShutdown, serverVars, ServerOK
<1>5. CASE handleRequest
  <2>1. ServerOK'
    <3>1. server = "running" /\ pass' = Begin(Head(queue).req, mNextSeqNo, TRUE)
          /\ UNCHANGED <<server, canceled>>
      BY <1>5 DEF handleRequest, Handling
    <3> QED
      BY <3>1, CountAssumption DEF ServerOK, Begin
  <2> QED
    BY <1>5, <2>1, CountedRequest
<1>6. CASE handleCancel
  BY <1>6, CountedStay DEF handleCancel, cancelRedirect, Handling, ServerOK
<1>7. CASE handleRestart
  <2>1. /\ server = "running" /\ UNCHANGED <<mNextSeqNo, server, stage, canceled>>
        /\ pass' # NULL => \E k \in DOMAIN mSuspendList' : \E r : pass' = Begin(r, k, FALSE)
    BY <1>7 DEF handleRestart, Handling
  <2>2. pass' # NULL => pass'.seqNo \in DOMAIN mSuspendList' /\ pass'.at = 1
    BY <2>1 DEF Begin
  <2> QED
    BY <2>1, <2>2, CountedStay, CountAssumption DEF ServerOK
<1>8. CASE handleShutdown
  BY <1>8, CountedStay DEF handleShutdown, cancelRedirect, Handling, ServerOK
<1>9. CASE finalized
  BY <1>9, CountedStay DEF finalized, ServerOK
<1>10. CASE observe
  <2>1. /\ pass # NULL /\ pass.at <= mRedirectorCount /\ pass' = [pass EXCEPT !.at = @ + 1]
        /\ UNCHANGED <<mSuspendList, mNextSeqNo, stage, server, canceled>>
    BY <1>10 DEF observe, Asking
  <2>2. pass \in Pass
    BY <2>1 DEF Inv, Types
  <2>3. pass'.seqNo = pass.seqNo /\ pass'.at = pass.at + 1 /\ pass.at \in Nat
    BY <2>1, <2>2 DEF Pass
  <2> QED
    BY <2>1, <2>3, CountedStay, CountAssumption DEF ServerOK
<1>11. CASE conclude \/ suspend \/ exception
  BY <1>11, CountedStay DEF conclude, suspend, exception, cancelRedirect, Asking, ServerOK
<1>12. ASSUME NEW status \in LookUpStatus, NEW storage \in Storage \cup {NULL},
              NEW modified \in BOOLEAN, NEW entries \in Entries,
              lookUp(status, storage, modified, entries)
       PROVE  Counted' /\ ServerOK'
  <2>1. pass # NULL /\ pass.at <= mRedirectorCount /\ UNCHANGED <<server, canceled>>
    BY <1>12 DEF lookUp, MayLookUp, Asking
  <2>2. pass'.at = pass.at + 1 /\ pass.at \in Nat
    BY <1>12, <2>1, LookUpPass DEF Inv, Types, Pass
  <2>3. ServerOK'
    BY <2>1, <2>2, CountAssumption DEF ServerOK
  <2> QED
    BY <1>12, <2>3, CountedLookUp
<1>13. ASSUME NEW k \in DOMAIN mSuspendList, NEW i \in Redirectors, NEW storage \in Storage,
              store(k, i, storage)
       PROVE  Counted' /\ ServerOK'
  BY <1>13, CountedStay DEF store, ServerOK
<1>14. CASE UNCHANGED vars
  BY <1>1, <1>14 DEF vars, serverVars, ServerOK
<1> QED
  BY <1>2, <1>3, <1>4, <1>5, <1>6, <1>7, <1>8, <1>9, <1>10, <1>11, <1>12, <1>13, <1>14
  DEF Next, Redirecting

-----------------------------------------------------------------------------
\* Timers, restarts and recorded dialogs.

\* What TypeOK says of the redirectors.
PlugsOK ==
    /\ searching \in [Requests -> SUBSET PickUps]
    /\ owed \in [Requests -> SUBSET PickUps]
    /\ timers \subseteq subscribed
    /\ subscribed \subseteq Requests \X PickUps
    /\ stopping \subseteq PickUps
    /\ finalizing \in 1..mRedirectorCount + 1
    /\ heard \in [Requests \X PickUps -> SUBSET Storage]

Restart(k, i) == [type |-> "REDIRECT_RESTART", seqNo |-> k, redirector |-> i]
Restarting(k, i) == \E j \in 1..Len(queue) : queue[j] = Restart(k, i)

\* Dialogs are recorded for a request that has private storage, as long as it is
\* not answered: private storage is never made anew.
HeardOK(r, i) ==
    heard[<<r, i>>] # {} =>
        /\ stage[r] = "taken" /\ i \in Codes[r]
        /\ \A k \in Listed(r) : mSuspendList[k].privateStorage[i] # NULL
        /\ pass # NULL /\ pass.req = r => pass.seqNo \in DOMAIN mSuspendList

DialogInv ==
    /\ \A r \in Requests, i \in PickUps : HeardOK(r, i)
    /\ \A k \in DOMAIN mSuspendList, i \in PickUps :
          mSuspendList[k].privateStorage[i] # NULL => i \in Codes[mSuspendList[k].mMessage]
    /\ LongestDialog

\* A suspend object that stays has its request and its private storage, waits for
\* no more redirectors than before, and its timers turn into restarts.
Keeps(k) ==
    /\ k \in DOMAIN mSuspendList
    /\ mSuspendList'[k].mMessage = mSuspendList[k].mMessage
    /\ mSuspendList'[k].privateStorage = mSuspendList[k].privateStorage
    /\ \A i \in mSuspendList'[k].suspended :
          /\ i \in mSuspendList[k].suspended
          /\ <<mSuspendList[k].mMessage, i>> \in timers =>
                <<mSuspendList[k].mMessage, i>> \in timers' \/ Restarting(k, i)'
          /\ Restarting(k, i) => Restarting(k, i)'

LEMMA AwaitedStay ==
    ASSUME Inv', Awaited, \A k \in DOMAIN mSuspendList' : Keeps(k)
    PROVE  Awaited'
<1> SUFFICES ASSUME NEW k \in DOMAIN mSuspendList'
             PROVE  /\ mSuspendList'[k].mSuspendCount = Cardinality(mSuspendList'[k].suspended)
                    /\ \A i \in mSuspendList'[k].suspended :
                          <<mSuspendList'[k].mMessage, i>> \in timers' \/ Restarting(k, i)'
  BY DEF Awaited, Restarting, Restart
<1>1. mSuspendList'[k].mSuspendCount = Cardinality(mSuspendList'[k].suspended)
  BY DEF Inv, Objects, ObjectOK
<1>2. \A i \in mSuspendList[k].suspended :
         <<mSuspendList[k].mMessage, i>> \in timers \/ Restarting(k, i)
  BY DEF Awaited, Keeps, Restarting, Restart
<1> QED
  BY <1>1, <1>2 DEF Keeps

\* Who is processed afterwards: the same request, or one with a suspend object, or
\* one that was not taken before.
Proceeds ==
    pass' # NULL =>
        \/ pass'.seqNo \in DOMAIN mSuspendList'
        \/ /\ pass # NULL /\ pass'.req = pass.req /\ pass'.seqNo = pass.seqNo
           /\ DOMAIN mSuspendList \subseteq DOMAIN mSuspendList'
        \/ stage[pass'.req] # "taken"

LEMMA DialogStay ==
    ASSUME DialogInv, UNCHANGED heard, Proceeds,
           \A r \in Requests : stage[r] = "taken" => stage'[r] = "taken",
           \A k \in DOMAIN mSuspendList' : Keeps(k)
    PROVE  DialogInv'
<1>1. ASSUME NEW r \in Requests, NEW i \in PickUps PROVE HeardOK(r, i)'
  <2> SUFFICES ASSUME heard[<<r, i>>] # {}
               PROVE  /\ stage'[r] = "taken" /\ i \in Codes[r]
                      /\ \A k \in Listed(r)' : mSuspendList'[k].privateStorage[i] # NULL
                      /\ pass' # NULL /\ pass'.req = r => pass'.seqNo \in DOMAIN mSuspendList'
    BY DEF HeardOK
  <2>1. /\ stage[r] = "taken" /\ i \in Codes[r]
        /\ \A k \in Listed(r) : mSuspendList[k].privateStorage[i] # NULL
        /\ pass # NULL /\ pass.req = r => pass.seqNo \in DOMAIN mSuspendList
    BY DEF DialogInv, HeardOK
  <2>2. Listed(r)' \subseteq Listed(r)
    BY DEF Listed, Keeps
  <2>3. \A k \in Listed(r)' : mSuspendList'[k].privateStorage[i] # NULL
    BY <2>1, <2>2 DEF Listed, Keeps
  <2>4. pass' # NULL /\ pass'.req = r => pass'.seqNo \in DOMAIN mSuspendList'
    BY <2>1 DEF Proceeds
  <2> QED
    BY <2>1, <2>3, <2>4
<1>2. \A k \in DOMAIN mSuspendList', i \in PickUps :
         mSuspendList'[k].privateStorage[i] # NULL => i \in Codes[mSuspendList'[k].mMessage]
  BY DEF DialogInv, Keeps
<1>3. LongestDialog'
  BY DEF DialogInv, LongestDialog, Keeps
<1> QED
  BY <1>1, <1>2, <1>3 DEF DialogInv

PlugInv == PlugsOK /\ Awaited /\ DialogInv

LEMMA PlugStay ==
    ASSUME Inv', PlugInv, UNCHANGED <<subscribed, heard>>, timers' \subseteq timers,
           stopping' \subseteq PickUps, finalizing' \in 1..mRedirectorCount + 1,
           searching' \in [Requests -> SUBSET PickUps], owed' \in [Requests -> SUBSET PickUps],
           \A r \in Requests : stage[r] = "taken" => stage'[r] = "taken",
           Proceeds, \A k \in DOMAIN mSuspendList' : Keeps(k)
    PROVE  PlugInv'
BY AwaitedStay, DialogStay DEF PlugInv, PlugsOK

LEMMA RestartsPosted ==
    ASSUME Inv, NEW m \in Message, post(m), NEW k, NEW i
    PROVE  /\ Restarting(k, i) => Restarting(k, i)'
           /\ m = Restart(k, i) => Restarting(k, i)'
<1>1. queue \in Seq(Message) /\ queue' = Append(queue, m)
  BY DEF Inv, Types, post
<1> QED
  BY <1>1, AppendFacts DEF Restarting

LEMMA RestartsHandled ==
    ASSUME Inv, NEW type, Handling(type), NEW k, NEW i, Restarting(k, i)
    PROVE  Restarting(k, i)' \/ Head(queue) = Restart(k, i)
<1>1. queue \in Seq(Message) /\ queue # <<>> /\ queue' = Tail(queue)
  BY DEF Inv, Types, Handling
<1>2. PICK j \in 1..Len(queue) : queue[j] = Restart(k, i)
  BY DEF Restarting
<1>3. /\ Len(queue) \in Nat /\ Len(Tail(queue)) = Len(queue) - 1 /\ Head(queue) = queue[1]
      /\ \A n \in 1..Len(Tail(queue)) : Tail(queue)[n] = queue[n + 1]
  BY <1>1, TailFacts
<1>4. CASE j # 1
  <2>1. j - 1 \in 1..Len(Tail(queue)) /\ (j - 1) + 1 = j
    BY <1>3, <1>4
  <2> QED
    BY <1>1, <1>2, <1>3, <2>1 DEF Restarting
<1> QED
  BY <1>2, <1>3, <1>4

\* processRedirect goes on without asking a redirector, or a request is taken.
LEMMA PlugPass ==
    ASSUME PickInv, Inv', PlugInv, UNCHANGED <<netVars, taskVars>>,
           handleRequest \/ observe \/ suspend \/ exception
    PROVE  PlugInv'
<1>1. /\ UNCHANGED <<subscribed, heard, timers, stopping, finalizing, searching, owed, mSuspendList>>
      /\ stopping \subseteq PickUps /\ finalizing \in 1..mRedirectorCount + 1
      /\ searching \in [Requests -> SUBSET PickUps] /\ owed \in [Requests -> SUBSET PickUps]
  BY DEF netVars, taskVars, PlugInv, PlugsOK, handleRequest, observe, suspend, exception, pluginVars
<1>2. ASSUME \A k, i : Restarting(k, i) /\ k \in DOMAIN mSuspendList => Restarting(k, i)'
      PROVE  \A k \in DOMAIN mSuspendList' : Keeps(k)
  BY <1>1, <1>2 DEF Keeps
<1>3. CASE handleRequest
  <2>1. /\ Head(queue) \in Message /\ Head(queue).type = "PHONE_APP" /\ MessageOK(Head(queue))
        /\ Handling("PHONE_APP")
    BY <1>3, HandlingFacts DEF handleRequest, PickInv
  <2>2. \A k, i : Head(queue) # Restart(k, i)
    BY <2>1 DEF Restart
  <2>3. \A k, i : Restarting(k, i) => Restarting(k, i)'
    BY <2>1, <2>2, RestartsHandled DEF PickInv
  <2>4. Proceeds
    BY <1>3, <2>1 DEF handleRequest, Begin, MessageOK, Proceeds
  <2>5. \A r \in Requests : stage[r] = "taken" => stage'[r] = "taken"
    BY <1>3 DEF handleRequest, PickInv, Inv, Types
  <2> QED
    BY <1>1, <1>2, <2>3, <2>4, <2>5, PlugStay
<1>4. CASE observe \/ suspend \/ exception
  <2>1. UNCHANGED <<queue, stage>>
    BY <1>4 DEF observe, suspend, exception
  <2>2. \A k, i : Restarting(k, i) => Restarting(k, i)'
    BY <2>1 DEF Restarting
  <2>3. Proceeds
    <3>1. CASE observe
      <4>1. pass # NULL /\ pass \in Pass /\ pass' = [pass EXCEPT !.at = @ + 1]
        BY <3>1 DEF observe, Asking, PickInv, Inv, Types
      <4>2. pass'.req = pass.req /\ pass'.seqNo = pass.seqNo
        BY <4>1 DEF Pass
      <4> QED
        BY <1>1, <4>1, <4>2 DEF Proceeds
    <3>2. CASE suspend \/ exception
      BY <3>2 DEF suspend, exception, Proceeds
    <3> QED
      BY <1>4, <3>1, <3>2
  <2> QED
    BY <1>1, <1>2, <2>1, <2>2, <2>3, PlugStay
<1> QED
  BY <1>3, <1>4

\* REDIRECT_RESTART takes the restart out of the queue and its redirector out of
\* those that the suspend object waits for.
LEMMA PlugRestart ==
    ASSUME PickInv, Inv', PlugInv, handleRestart, UNCHANGED <<netVars, taskVars>>
    PROVE  PlugInv'
<1>1. /\ UNCHANGED <<subscribed, heard, timers, stopping, finalizing, searching, owed, stage>>
      /\ stopping \subseteq PickUps /\ finalizing \in 1..mRedirectorCount + 1
      /\ searching \in [Requests -> SUBSET PickUps] /\ owed \in [Requests -> SUBSET PickUps]
  BY DEF netVars, taskVars, PlugInv, PlugsOK, handleRestart, pluginVars
<1>2. Handling("REDIRECT_RESTART") /\ pass = NULL
  BY DEF handleRestart, Handling
<1>3. PICK k, i : k = Head(queue).seqNo /\ i = Head(queue).redirector
  OBVIOUS
<1>4. \A n, x : Head(queue) = Restart(n, x) => n = k /\ x = i
  BY <1>3 DEF Restart
<1>5. \A n, x : Restarting(n, x) /\ (n # k \/ x # i) => Restarting(n, x)'
  BY <1>2, <1>4, RestartsHandled DEF PickInv
<1>6. CASE k \in DOMAIN mSuspendList /\ i \in mSuspendList[k].suspended
  <2>1. PICK a : a = mSuspendList[k]
    OBVIOUS
  <2>2. /\ mSuspendList' = [mSuspendList EXCEPT ![k] = Restarted(a, i)]
        /\ pass' = IF Resumed(a) THEN Begin(a.mMessage, k, FALSE) ELSE NULL
    BY <1>3, <1>6, <2>1 DEF handleRestart
  <2>3. a \in Suspended
    BY <1>6, <2>1 DEF PickInv, Inv, Types
  <2>4. /\ Restarted(a, i).mMessage = a.mMessage
        /\ Restarted(a, i).privateStorage = a.privateStorage
        /\ Restarted(a, i).suspended = a.suspended \ {i}
    BY <2>3 DEF Restarted, Suspended
  <2>5. ASSUME NEW n \in DOMAIN mSuspendList' PROVE Keeps(n)
    <3>1. n \in DOMAIN mSuspendList /\ mSuspendList'[n] = IF n = k THEN Restarted(a, i) ELSE mSuspendList[n]
      BY <2>2
    <3> QED
      BY <1>1, <1>5, <2>1, <2>4, <3>1 DEF Keeps
  <2>6. Proceeds
    BY <1>6, <2>2 DEF Proceeds, Begin
  <2> QED
    BY <1>1, <2>5, <2>6, PlugStay
<1>7. CASE ~(k \in DOMAIN mSuspendList /\ i \in mSuspendList[k].suspended)
  <2>1. UNCHANGED <<mSuspendList, pass>>
    BY <1>3, <1>7 DEF handleRestart
  <2>2. ASSUME NEW n \in DOMAIN mSuspendList' PROVE Keeps(n)
    BY <1>1, <1>5, <1>7, <2>1 DEF Keeps
  <2>3. Proceeds
    BY <1>2, <2>1 DEF Proceeds
  <2> QED
    BY <1>1, <2>2, <2>3, PlugStay
<1> QED
  BY <1>6, <1>7

\* An answer, a CANCEL and the shutdown delete suspend objects and their timers.
LEMMA PlugCancel ==
    ASSUME PickInv, Inv', PlugInv, conclude \/ handleCancel \/ handleShutdown, Forgotten,
           UNCHANGED taskVars
    PROVE  PlugInv'
<1>1. PICK ks : cancelRedirect(ks) /\ pass' = NULL /\ stage' = stage
  BY DEF conclude, handleCancel, handleShutdown, Handling
<1>2. /\ mSuspendList' = [k \in DOMAIN mSuspendList \ ks |-> mSuspendList[k]]
      /\ \A r \in Requests : owed'[r] \subseteq owed[r]
      /\ owed' = [r \in Requests |-> owed'[r]]
      /\ searching' = searching
  BY <1>1 DEF cancelRedirect
<1>3. /\ UNCHANGED <<subscribed, heard, stopping, finalizing>>
      /\ timers' \subseteq timers
      /\ \A p \in timers : (\E k \in DOMAIN mSuspendList' : mSuspendList'[k].mMessage = p[1]) => p \in timers'
  BY DEF Forgotten, taskVars
<1>4. \A k, i : Restarting(k, i) => Restarting(k, i)'
  <2>1. CASE conclude
    BY <2>1 DEF conclude, Restarting
  <2>2. ASSUME NEW type \in {"CANCEL", "OS_SHUTDOWN"}, Handling(type)
        PROVE  \A k, i : Restarting(k, i) => Restarting(k, i)'
    <3>1. \A k, i : Head(queue) # Restart(k, i)
      BY <2>2 DEF Handling, Restart
    <3> QED
      BY <2>2, <3>1, RestartsHandled DEF PickInv
  <2> QED
    BY <2>1, <2>2 DEF handleCancel, handleShutdown
<1>5. ASSUME NEW k \in DOMAIN mSuspendList' PROVE Keeps(k)
  <2>1. k \in DOMAIN mSuspendList /\ mSuspendList'[k] = mSuspendList[k]
    BY <1>2
  <2>2. \A i : <<mSuspendList[k].mMessage, i>> \in timers => <<mSuspendList[k].mMessage, i>> \in timers'
    BY <1>3, <2>1
  <2> QED
    BY <1>4, <2>1, <2>2 DEF Keeps
<1>6. Proceeds
  BY <1>1 DEF Proceeds
<1>7. /\ stopping' \subseteq PickUps /\ finalizing' \in 1..mRedirectorCount + 1
      /\ searching' \in [Requests -> SUBSET PickUps] /\ owed' \in [Requests -> SUBSET PickUps]
  BY <1>2, <1>3 DEF PlugInv, PlugsOK
<1> QED
  BY <1>1, <1>3, <1>5, <1>6, <1>7, PlugStay

\* A timer turns into the restart with the number of the suspend object.
LEMMA PlugSignal ==
    ASSUME PickInv, Inv', ServerOK, PlugInv, NEW r \in Requests, NEW i \in PickUps, signal(r, i)
    PROVE  PlugInv'
<1>1. /\ UNCHANGED <<subscribed, heard, stopping, finalizing>>
      /\ timers' = timers \ {<<r, i>>}
      /\ stopping \subseteq PickUps /\ finalizing \in 1..mRedirectorCount + 1
      /\ searching \in [Requests -> SUBSET PickUps] /\ owed \in [Requests -> SUBSET PickUps]
  BY DEF signal, taskVars, PlugInv, PlugsOK
<1>2. CASE server = "stopped"
  <2>1. UNCHANGED vars /\ DOMAIN mSuspendList = {} /\ pass = NULL
    BY <1>2 DEF signal, ServerOK
  <2>2. UNCHANGED <<stage, searching, owed, mSuspendList, pass>>
    BY <2>1 DEF vars, serverVars, pluginVars
  <2> QED
    BY <1>1, <2>1, <2>2, PlugStay DEF Proceeds
<1>3. CASE server # "stopped"
  <2>0. PICK n : n = number[r]
    OBVIOUS
  <2>1. /\ i \in searching[r] /\ post(Restart(n, i))
        /\ searching' = [searching EXCEPT ![r] = @ \ {i}]
        /\ UNCHANGED <<pass, mSuspendList, stage, owed>>
    BY <1>3, <2>0 DEF signal, resumeRequest, serverVars, Restart
  <2>2. n \in Nat /\ i \in Redirectors
    BY <2>0, PickUpAssumption, ConfigAssumption DEF PickInv, Inv, Types
  <2>3. Restart(n, i) \in Message
    BY <2>2 DEF Restart, Message
  <2>4. /\ \A k, x : Restarting(k, x) => Restarting(k, x)'
        /\ Restarting(n, i)'
    BY <2>1, <2>3, RestartsPosted DEF PickInv
  <2>5. ASSUME NEW k \in DOMAIN mSuspendList' PROVE Keeps(k)
    <3>1. k \in DOMAIN mSuspendList /\ mSuspendList'[k] = mSuspendList[k]
      BY <2>1
    <3>2. mSuspendList[k].mMessage = r => n = k
      BY <2>0, <2>1, <3>1 DEF PickInv, Inv, Objects, ObjectOK
    <3> QED
      BY <1>1, <2>4, <3>1, <3>2 DEF Keeps
  <2>6. Proceeds
    BY <2>1 DEF Proceeds
  <2>7. searching' \in [Requests -> SUBSET PickUps]
    BY <1>1, <2>1
  <2> QED
    BY <1>1, <2>1, <2>5, <2>6, <2>7, PlugStay
<1> QED
  BY <1>2, <1>3

\* Requests, CANCELs and the shutdown arrive.
LEMMA PlugArrives == ASSUME PickInv, Inv', PlugInv, registrar PROVE PlugInv'
<1>1. /\ UNCHANGED <<subscribed, heard, timers, stopping, finalizing>>
      /\ stopping \subseteq PickUps /\ finalizing \in 1..mRedirectorCount + 1
      /\ searching \in [Requests -> SUBSET PickUps] /\ owed \in [Requests -> SUBSET PickUps]
  BY DEF registrar, taskVars, PlugInv, PlugsOK
<1>2. PICK m \in Message : post(m)
  <2>1. [type |-> "OS_SHUTDOWN"] \in Message
    BY DEF Message
  <2>2. \A r \in Requests : /\ [type |-> "PHONE_APP", req |-> r] \in Message
                            /\ [type |-> "CANCEL", req |-> r] \in Message
    BY DEF Message
  <2> QED
    BY <2>1, <2>2 DEF registrar, requestShutdown, arrive, arriveCancel
<1>3. /\ UNCHANGED <<pass, mSuspendList, searching, owed>>
      /\ \A r \in Requests : stage[r] = "taken" => stage'[r] = "taken"
  BY DEF registrar, requestShutdown, arrive, arriveCancel, serverVars, pluginVars, PickInv, Inv, Types
<1>4. ASSUME NEW k \in DOMAIN mSuspendList' PROVE Keeps(k)
  BY <1>1, <1>2, <1>3, RestartsPosted DEF Keeps, PickInv
<1>5. Proceeds
  BY <1>3 DEF Proceeds
<1> QED
  BY <1>1, <1>3, <1>4, <1>5, PlugStay

\* Steps of the tasks and of the finalization leave the requests alone.
LEMMA PlugElsewhere ==
    ASSUME PickInv, Inv', PlugInv, UNCHANGED <<timers, subscribed, heard>>,
           UNCHANGED <<queue, pass, mSuspendList, stage, searching, owed>>,
           stopping' \subseteq PickUps, finalizing' \in 1..mRedirectorCount + 1
    PROVE  PlugInv'
<1>1. searching \in [Requests -> SUBSET PickUps] /\ owed \in [Requests -> SUBSET PickUps]
  BY DEF PlugInv, PlugsOK
<1>2. ASSUME NEW k \in DOMAIN mSuspendList' PROVE Keeps(k)
  BY DEF Keeps, Restarting
<1> QED
  BY <1>1, <1>2, PlugStay DEF Proceeds

\* A NOTIFY is recorded: with the dialogs that were recorded before, the storage
\* holds the longest.
LEMMA PlugRecord ==
    ASSUME PickInv, Inv', PlugInv, NEW i \in PickUps, record(i)
    PROVE  PlugInv'
<1>1. PICK r, d : r = Head(inbox[i]).req /\ d = Head(inbox[i]).duration
  OBVIOUS
<1>2. r \in Requests /\ d \in Storage
  <2>1. inbox[i] # <<>> /\ Head(inbox[i]).type = "NOTIFY"
    BY DEF record, Handles
  <2>2. inbox[i] \in Seq(Notify \cup [type : {"OS_SHUTDOWN"}])
    BY DEF PickInv, TasksOK
  <2>3. Head(inbox[i]) \in Notify \cup [type : {"OS_SHUTDOWN"}]
    BY <2>1, <2>2
  <2> QED
    BY <1>1, <2>1, <2>3, PickUpAssumption, Zenon DEF Notify
<1>3. /\ UNCHANGED <<timers, subscribed, stopping, finalizing>>
      /\ stopping \subseteq PickUps /\ finalizing \in 1..mRedirectorCount + 1
  BY DEF record, PlugInv, PlugsOK
<1>4. CASE Owners(r, i) = {}
  <2>1. UNCHANGED <<vars, heard>>
    BY <1>1, <1>4 DEF record
  <2>2. UNCHANGED <<queue, pass, mSuspendList, stage, searching, owed>>
    BY <2>1 DEF vars, serverVars, pluginVars
  <2> QED
    BY <1>3, <2>1, <2>2, PlugElsewhere
<1>5. ASSUME NEW k \in Owners(r, i), processNotify(i, k, r, d) PROVE PlugInv'
  <2>1. PICK old, best : /\ old = mSuspendList[k].privateStorage[i]
                         /\ best = IF d > old THEN d ELSE old
    OBVIOUS
  <2>2. /\ store(k, i, best) /\ pass = NULL
        /\ heard' = [heard EXCEPT ![<<r, i>>] = @ \cup {d}]
        /\ UNCHANGED <<queue, pass, stage, searching, owed>>
    BY <1>5, <2>1 DEF processNotify, store, pluginVars
  <2>3. k \in DOMAIN mSuspendList /\ mSuspendList[k].mMessage = r /\ old # NULL
    BY <2>1 DEF Owners
  <2>4. i \in Redirectors /\ mSuspendList[k] \in Suspended
    BY <2>3, PickUpAssumption, ConfigAssumption DEF PickInv, Inv, Types
  <2>5. old \in Storage /\ best \in Storage /\ best # NULL
    BY <1>2, <2>1, <2>3, <2>4, NullAssumption DEF Suspended
  <2>6. /\ mSuspendList' = [mSuspendList EXCEPT ![k].privateStorage[i] = best]
        /\ mSuspendList \in [DOMAIN mSuspendList -> Suspended]
    BY <2>2 DEF store, PickInv, Inv, Types
  <2>7. /\ DOMAIN mSuspendList' = DOMAIN mSuspendList
        /\ \A n \in DOMAIN mSuspendList :
              /\ mSuspendList'[n].mMessage = mSuspendList[n].mMessage
              /\ mSuspendList'[n].suspended = mSuspendList[n].suspended
              /\ mSuspendList'[n].mSuspendCount = mSuspendList[n].mSuspendCount
    BY <2>2, <2>3, <2>4, <2>5, StoreFacts DEF PickInv
  <2>8. \A n \in DOMAIN mSuspendList, x \in PickUps :
           mSuspendList'[n].privateStorage[x] =
              IF n = k /\ x = i THEN best ELSE mSuspendList[n].privateStorage[x]
    BY <2>3, <2>4, <2>6, PickUpAssumption, ConfigAssumption DEF Suspended
  <2>9. /\ heard \in [Requests \X PickUps -> SUBSET Storage]
        /\ heard' \in [Requests \X PickUps -> SUBSET Storage]
        /\ \A q \in Requests, x \in PickUps :
              heard'[<<q, x>>] = IF q = r /\ x = i THEN heard[<<q, x>>] \cup {d} ELSE heard[<<q, x>>]
    BY <1>2, <2>2 DEF PlugInv, PlugsOK
  <2>10. PlugsOK'
    BY <1>3, <2>2, <2>9 DEF PlugInv, PlugsOK
  <2>11. Awaited'
    BY <1>3, <2>2, <2>7 DEF Awaited, PlugInv
  <2>12. i \in Codes[r] /\ stage[r] = "taken"
    BY <2>1, <2>3 DEF PlugInv, DialogInv, PickInv, Inv, Objects, ObjectOK
  <2>13. ASSUME NEW q \in Requests, NEW x \in PickUps PROVE HeardOK(q, x)'
    <3>1. CASE q = r /\ x = i
      <4>1. \A n \in Listed(r)' : n = k
        BY <2>3, <2>7 DEF Listed, PickInv, Inv, Objects
      <4> QED
        BY <2>2, <2>3, <2>5, <2>7, <2>8, <2>12, <3>1, <4>1 DEF HeardOK
    <3>2. CASE q # r \/ x # i
      <4>1. heard'[<<q, x>>] = heard[<<q, x>>] /\ HeardOK(q, x)
        BY <2>9, <3>2 DEF PlugInv, DialogInv
      <4>2. Listed(q)' = Listed(q)
        BY <2>7 DEF Listed
      <4>3. \A n \in Listed(q) : mSuspendList[n].privateStorage[x] # NULL
                => mSuspendList'[n].privateStorage[x] # NULL
        BY <2>5, <2>8 DEF Listed
      <4> QED
        BY <2>2, <4>1, <4>2, <4>3 DEF HeardOK
    <3> QED
      BY <3>1, <3>2
  <2>14. \A n \in DOMAIN mSuspendList', x \in PickUps :
            mSuspendList'[n].privateStorage[x] # NULL => x \in Codes[mSuspendList'[n].mMessage]
    BY <2>3, <2>7, <2>8, <2>12 DEF PlugInv, DialogInv
  <2>15. LongestDialog'
    <3> SUFFICES ASSUME NEW n \in DOMAIN mSuspendList, NEW x \in PickUps,
                        mSuspendList'[n].privateStorage[x] # NULL
                 PROVE  /\ mSuspendList'[n].privateStorage[x] \in
                              heard'[<<mSuspendList'[n].mMessage, x>>] \cup {Absent}
                        /\ \A e \in heard'[<<mSuspendList'[n].mMessage, x>>] \cup {Absent} :
                              e <= mSuspendList'[n].privateStorage[x]
      BY <2>7 DEF LongestDialog
    <3>1. PICK q \in Requests : q = mSuspendList[n].mMessage
      BY DEF PickInv, Inv, Types, Suspended
    <3>2. CASE n = k /\ x = i
      <4>1. q = r /\ heard'[<<r, i>>] = heard[<<r, i>>] \cup {d} /\ mSuspendList'[n].privateStorage[x] = best
        BY <1>2, <2>3, <2>8, <2>9, <3>1, <3>2
      <4>2. /\ old \in heard[<<r, i>>] \cup {Absent}
            /\ \A e \in heard[<<r, i>>] \cup {Absent} : e <= old
        BY <2>1, <2>3, <3>1 DEF PlugInv, DialogInv, LongestDialog
      <4>3. /\ heard[<<r, i>>] \subseteq Int /\ Absent \in Int /\ d \in Int /\ old \in Int
        <5>1. Absent \in Int /\ Storage \subseteq Int
          BY PickUpAssumption DEF Absent
        <5>2. heard[<<r, i>>] \subseteq Storage
          BY <1>2, <2>9
        <5> QED
          BY <1>2, <2>5, <5>1, <5>2
      <4>4. \A e \in heard[<<r, i>>] \cup {d, Absent} : e <= best
        BY <2>1, <4>2, <4>3
      <4>5. best \in heard[<<r, i>>] \cup {d, Absent}
        BY <2>1, <4>2
      <4>6. mSuspendList'[n].mMessage = r
        BY <2>7, <3>1, <4>1
      <4> QED
        BY <3>2, <4>1, <4>4, <4>5, <4>6
    <3>3. CASE n # k \/ x # i
      <4>1. q # r \/ x # i
        BY <2>3, <3>1, <3>3 DEF PickInv, Inv, Objects
      <4>2. /\ heard'[<<q, x>>] = heard[<<q, x>>]
            /\ mSuspendList'[n].privateStorage[x] = mSuspendList[n].privateStorage[x]
        BY <2>8, <2>9, <3>3, <4>1
      <4> QED
        BY <2>7, <3>1, <4>2 DEF PlugInv, DialogInv, LongestDialog
    <3> QED
      BY <3>2, <3>3
  <2> QED
    BY <2>10, <2>11, <2>13, <2>14, <2>15 DEF PlugInv, DialogInv
<1> QED
  BY <1>1, <1>4, <1>5 DEF record

\* What lookUp notes in private storage.
LEMMA NotedStorage ==
    ASSUME NEW a \in Suspended, NEW i \in Redirectors, NEW status, NEW storage
    PROVE  Noted(a, i, status, storage).privateStorage = [a.privateStorage EXCEPT ![i] = storage]
BY DEF Noted, Suspended

\* A redirector is asked: it sets a timer when it is to be waited for, its storage
\* is made when no dialog has been recorded yet, and kept from then on.
LEMMA PlugLookUp == ASSUME PickInv, Inv', PlugInv, lookUpAny PROVE PlugInv'
<1>1. PICK status \in LookUpStatus, storage \in Storage \cup {NULL}, modified \in BOOLEAN,
           entries \in Entries : lookUp(status, storage, modified, entries) /\ Asked(status, storage)
  BY LookUpAnyStep
<1>2. PICK k, r, i, a, b : /\ k = pass.seqNo /\ r = pass.req /\ i = pass.at
                           /\ a = suspendObject /\ b = Noted(a, i, status, storage)
  OBVIOUS
<1>3. /\ MayLookUp /\ pass # NULL /\ PassOK /\ UNCHANGED <<queue, stage, heard, stopping, finalizing>>
      /\ r \in Requests /\ (i \in Codes[r] => i \in PickUps)
  BY <1>1, <1>2, LookUpAnyStep DEF lookUp, MayLookUp, Asking, PickInv, Inv, Asked, taskVars
<1>4. /\ a \in Suspended /\ a.mMessage = r /\ i \in Redirectors /\ i \notin a.suspended
      /\ a.mSuspendCount = Cardinality(a.suspended)
  BY <1>2, <1>3, SuspendObjectFacts DEF PickInv
<1>5. pass'.req = r /\ pass'.seqNo = k
  BY <1>1, <1>2, LookUpPass DEF PickInv
<1>6. /\ stopping \subseteq PickUps /\ finalizing \in 1..mRedirectorCount + 1
      /\ searching \in [Requests -> SUBSET PickUps] /\ owed \in [Requests -> SUBSET PickUps]
      /\ heard \in [Requests \X PickUps -> SUBSET Storage]
      /\ timers \subseteq subscribed /\ subscribed \subseteq Requests \X PickUps
  BY DEF PlugInv, PlugsOK
<1>7. \A n, x : Restarting(n, x) => Restarting(n, x)'
  BY <1>3 DEF Restarting
<1>8. CASE ~(k \in DOMAIN mSuspendList \/ status = "SEARCH_PENDING" \/ storage # NULL)
  <2>1. UNCHANGED <<mSuspendList, searching, owed, timers, subscribed>>
    BY <1>1, <1>2, <1>8 DEF lookUp, pluginVars, Asked
  <2>2. Proceeds
    BY <1>2, <1>3, <1>5, <2>1 DEF Proceeds
  <2>3. ASSUME NEW n \in DOMAIN mSuspendList' PROVE Keeps(n)
    BY <1>7, <2>1 DEF Keeps
  <2> QED
    BY <1>3, <1>6, <2>1, <2>2, <2>3, PlugStay
<1>9. CASE k \in DOMAIN mSuspendList \/ status = "SEARCH_PENDING" \/ storage # NULL
  <2>1. NotedStep(k, r, i, b, status)
    BY <1>1, <1>2, <1>9, LookUpNoted DEF PickInv
  <2>2. /\ DOMAIN mSuspendList' = DOMAIN mSuspendList \cup {k} /\ mSuspendList'[k] = b
        /\ \A n \in DOMAIN mSuspendList \ {k} : /\ mSuspendList'[n] = mSuspendList[n]
                                                /\ mSuspendList[n].mMessage # r
    BY <2>1 DEF NotedStep
  <2>3. /\ b.mMessage = r
        /\ IF status = "SEARCH_PENDING" THEN b.suspended = a.suspended \cup {i}
                                        ELSE b.suspended = a.suspended
    BY <1>1, <1>2, <1>4, NotedFacts
  <2>4. b.privateStorage = [a.privateStorage EXCEPT ![i] = storage]
        /\ a.privateStorage \in [Redirectors -> Storage \cup {NULL}]
    BY <1>2, <1>4, NotedStorage DEF Suspended
  <2>5. IF k \in DOMAIN mSuspendList THEN a = mSuspendList[k] ELSE a = NewSuspend(r)
    BY <1>2 DEF suspendObject
  <2>6. k \notin DOMAIN mSuspendList =>
           /\ a.suspended = {} /\ \A x \in Redirectors : a.privateStorage[x] = NULL
           /\ Listed(r) = {} /\ \A x \in PickUps : heard[<<r, x>>] = {}
    <3> SUFFICES ASSUME k \notin DOMAIN mSuspendList
                 PROVE  /\ a.suspended = {} /\ \A x \in Redirectors : a.privateStorage[x] = NULL
                        /\ Listed(r) = {} /\ \A x \in PickUps : heard[<<r, x>>] = {}
      OBVIOUS
    <3>1. a.suspended = {} /\ \A x \in Redirectors : a.privateStorage[x] = NULL
      BY <2>5 DEF NewSuspend
    <3>2. Listed(r) = {}
      BY <1>2, <1>3 DEF PassOK
    <3>3. \A x \in PickUps : heard[<<r, x>>] = {}
      BY <1>2, <1>3 DEF PlugInv, DialogInv, HeardOK
    <3> QED
      BY <3>1, <3>2, <3>3
  <2>7. IF status = "SEARCH_PENDING"
        THEN /\ i \in Codes[r] /\ i \in PickUps /\ a.privateStorage[i] = NULL /\ storage = Absent
             /\ timers' = timers \cup {<<r, i>>} /\ subscribed' = subscribed \cup {<<r, i>>}
             /\ searching' = [searching EXCEPT ![r] = @ \cup {i}]
             /\ owed' = [owed EXCEPT ![r] = @ \cup {i}]
        ELSE /\ UNCHANGED <<timers, subscribed, searching, owed>>
             /\ IF i \in Codes[r] THEN storage = a.privateStorage[i] ELSE storage = NULL
    BY <1>1, <1>2, <1>3, <2>1 DEF Asked, NotedStep
  <2>8. PlugsOK'
    <3>1. CASE status = "SEARCH_PENDING"
      BY <1>3, <1>6, <2>7, <3>1 DEF PlugsOK
    <3>2. CASE status # "SEARCH_PENDING"
      BY <1>3, <1>6, <2>7, <3>2 DEF PlugsOK
    <3> QED
      BY <3>1, <3>2
  <2>9. Awaited'
    <3> SUFFICES ASSUME NEW n \in DOMAIN mSuspendList'
                 PROVE  /\ mSuspendList'[n].mSuspendCount = Cardinality(mSuspendList'[n].suspended)
                        /\ \A x \in mSuspendList'[n].suspended :
                              <<mSuspendList'[n].mMessage, x>> \in timers' \/ Restarting(n, x)'
      BY DEF Awaited, Restarting, Restart
    <3>1. mSuspendList'[n].mSuspendCount = Cardinality(mSuspendList'[n].suspended)
      BY DEF Inv, Objects, ObjectOK
    <3>2. timers \subseteq timers'
      BY <2>7
    <3>3. \A m \in DOMAIN mSuspendList : \A x \in mSuspendList[m].suspended :
             <<mSuspendList[m].mMessage, x>> \in timers \/ Restarting(m, x)
      BY DEF PlugInv, Awaited, Restarting, Restart
    <3>4. CASE n = k
      <4>1. ASSUME NEW x \in a.suspended PROVE <<r, x>> \in timers' \/ Restarting(k, x)'
        BY <1>4, <1>7, <2>5, <2>6, <3>2, <3>3, <4>1
      <4>2. status = "SEARCH_PENDING" => <<r, i>> \in timers'
        BY <2>7
      <4> QED
        BY <2>2, <2>3, <3>1, <3>4, <4>1, <4>2
    <3>5. CASE n # k
      BY <1>7, <2>2, <3>1, <3>2, <3>3, <3>5
    <3> QED
      BY <3>4, <3>5
  <2>10. \A x \in PickUps : x \in Redirectors
    BY PickUpAssumption, ConfigAssumption
  <2>11. ASSUME NEW x \in PickUps
         PROVE  IF status = "SEARCH_PENDING" /\ x = i
                THEN b.privateStorage[x] = Absent /\ heard[<<r, x>>] = {}
                ELSE b.privateStorage[x] = IF x = i /\ i \notin Codes[r] THEN NULL ELSE a.privateStorage[x]
    <3>1. b.privateStorage[x] = IF x = i THEN storage ELSE a.privateStorage[x]
      BY <1>4, <2>4, <2>10
    <3>2. k \in DOMAIN mSuspendList => k \in Listed(r)
      BY <1>4, <2>5 DEF Listed
    <3>3. a.privateStorage[x] = NULL => heard[<<r, x>>] = {}
      BY <1>3, <2>5, <2>6, <3>2 DEF PlugInv, DialogInv, HeardOK
    <3> QED
      BY <2>7, <3>1, <3>3
  <2>12. \A q \in Requests : Listed(q)' = IF q = r THEN {k} ELSE Listed(q)
    BY <2>2, <2>3, <2>5, <1>4 DEF Listed
  <2>13. ASSUME NEW q \in Requests, NEW x \in PickUps PROVE HeardOK(q, x)'
    <3> SUFFICES ASSUME heard[<<q, x>>] # {}
                 PROVE  /\ stage[q] = "taken" /\ x \in Codes[q]
                        /\ \A n \in Listed(q)' : mSuspendList'[n].privateStorage[x] # NULL
                        /\ q = r => k \in DOMAIN mSuspendList'
      BY <1>3, <1>5 DEF HeardOK
    <3>1. /\ stage[q] = "taken" /\ x \in Codes[q]
          /\ \A n \in Listed(q) : mSuspendList[n].privateStorage[x] # NULL
      BY DEF PlugInv, DialogInv, HeardOK
    <3>2. CASE q = r
      <4>1. k \in Listed(r) /\ a = mSuspendList[k]
        BY <1>4, <2>5, <2>6, <3>2 DEF Listed
      <4>2. b.privateStorage[x] # NULL
        BY <2>11, <3>1, <3>2, <4>1
      <4> QED
        BY <2>2, <2>12, <3>1, <3>2, <4>2
    <3>3. CASE q # r
      <4>1. \A n \in Listed(q) : mSuspendList'[n] = mSuspendList[n]
        BY <1>4, <2>2, <2>5, <3>3 DEF Listed
      <4> QED
        BY <2>12, <3>1, <3>3, <4>1
    <3> QED
      BY <3>2, <3>3
  <2>14. ASSUME NEW n \in DOMAIN mSuspendList', NEW x \in PickUps,
                mSuspendList'[n].privateStorage[x] # NULL
         PROVE  x \in Codes[mSuspendList'[n].mMessage]
    <3>1. CASE n = k
      <4>1. a.privateStorage[x] # NULL => x \in Codes[r]
        BY <1>4, <2>5, <2>6, <2>10 DEF PlugInv, DialogInv
      <4> QED
        BY <2>2, <2>3, <2>7, <2>11, <2>14, <3>1, <4>1
    <3>2. CASE n # k
      BY <2>2, <2>14, <3>2 DEF PlugInv, DialogInv
    <3> QED
      BY <3>1, <3>2
  <2>15. LongestDialog'
    <3> SUFFICES ASSUME NEW n \in DOMAIN mSuspendList', NEW x \in PickUps,
                        mSuspendList'[n].privateStorage[x] # NULL
                 PROVE  /\ mSuspendList'[n].privateStorage[x] \in
                              heard[<<mSuspendList'[n].mMessage, x>>] \cup {Absent}
                        /\ \A e \in heard[<<mSuspendList'[n].mMessage, x>>] \cup {Absent} :
                              e <= mSuspendList'[n].privateStorage[x]
      BY <1>3 DEF LongestDialog
    <3>1. CASE n = k
      <4>1. mSuspendList'[n].mMessage = r /\ mSuspendList'[n].privateStorage[x] = b.privateStorage[x]
        BY <2>2, <2>3, <3>1
      <4>2. CASE status = "SEARCH_PENDING" /\ x = i
        <5>1. b.privateStorage[x] = Absent /\ heard[<<r, x>>] = {} /\ Absent <= Absent
          BY <2>11, <4>2 DEF Absent
        <5> QED
          BY <4>1, <5>1
      <4>3. CASE ~(status = "SEARCH_PENDING" /\ x = i)
        <5>1. b.privateStorage[x] = a.privateStorage[x] /\ a.privateStorage[x] # NULL
          BY <2>11, <4>1, <4>3
        <5>2. k \in DOMAIN mSuspendList /\ a = mSuspendList[k]
          BY <2>5, <2>6, <2>10, <5>1
        <5> QED
          BY <1>4, <4>1, <5>1, <5>2 DEF PlugInv, DialogInv, LongestDialog
      <4> QED
        BY <4>2, <4>3
    <3>2. CASE n # k
      BY <2>2, <3>2 DEF PlugInv, DialogInv, LongestDialog
    <3> QED
      BY <3>1, <3>2
  <2> QED
    BY <2>8, <2>9, <2>13, <2>14, <2>15 DEF PlugInv, DialogInv
<1> QED
  BY <1>8, <1>9

LEMMA PlugNext ==
    ASSUME PickInv, Inv', ServerOK, PlugInv, [PickNext]_allVars
    PROVE  PlugInv'
<1>1. stopping \subseteq PickUps /\ finalizing \in 1..mRedirectorCount + 1 /\ agent \subseteq PickUps
  BY DEF PlugInv, PlugsOK, PickInv, TasksOK
<1>2. ASSUME UNCHANGED <<vars, timers, subscribed, heard>>,
             stopping' \subseteq PickUps, finalizing' \in 1..mRedirectorCount + 1
      PROVE  PlugInv'
  BY <1>2, PlugElsewhere DEF vars, serverVars, pluginVars
<1>3. CASE Server
  BY <1>3, PlugPass, PlugRestart, PlugCancel, PlugLookUp DEF Server
<1>4. ASSUME NEW p \in timers, signal(p[1], p[2]) PROVE PlugInv'
  <2>1. p[1] \in Requests /\ p[2] \in PickUps
    BY DEF PlugInv, PlugsOK
  <2> QED
    BY <1>4, <2>1, PlugSignal
<1>5. CASE registrar
  BY <1>5, PlugArrives
<1>6. ASSUME NEW r \in Requests, NEW i \in PickUps, NEW d \in Durations \cup {Absent}, notify(r, i, d)
      PROVE  PlugInv'
  BY <1>1, <1>2, <1>6 DEF notify, taskVars
<1>7. ASSUME NEW i \in Redirectors, finalize(i) \/ deleted(i) PROVE PlugInv'
  <2>1. CASE finalize(i)
    BY <1>1, <1>2, <2>1 DEF finalize
  <2>2. CASE deleted(i)
    <3>1. finalizing' = i + 1 /\ UNCHANGED <<vars, netVars, stopping>>
      BY <2>2 DEF deleted
    <3>2. i + 1 \in 1..mRedirectorCount + 1
      BY CountAssumption DEF Redirectors
    <3> QED
      BY <1>1, <1>2, <3>1, <3>2 DEF netVars
  <2> QED
    BY <1>7, <2>1, <2>2
<1>8. CASE Finalized
  <2>1. UNCHANGED <<queue, pass, mSuspendList, stage, searching, owed, netVars, taskVars>>
    BY <1>8 DEF Finalized, finalized, pluginVars
  <2> QED
    BY <1>1, <2>1, PlugElsewhere DEF netVars, taskVars
<1>9. ASSUME NEW i \in PickUps, record(i) \/ respond(i) \/ endTask(i) PROVE PlugInv'
  <2>1. CASE record(i)
    BY <2>1, PlugRecord
  <2>2. CASE respond(i) \/ endTask(i)
    BY <1>1, <1>2, <2>2 DEF respond, endTask, Handled
  <2> QED
    BY <1>9, <2>1, <2>2
<1>10. CASE UNCHANGED allVars
  BY <1>1, <1>2, <1>10 DEF allVars, netVars, taskVars
<1> QED
  BY <1>3, <1>4, <1>5, <1>6, <1>7, <1>8, <1>9, <1>10 DEF PickNext, ServerTask

\* All of it, for the theorems below.
WholeInv == PickInv /\ Counted /\ ServerOK /\ PlugInv

\* Whatever the phones report, and whenever the timers fire: what the server, its
\* queue, the timers and the private storage of the redirectors have to do with
\* each other.
THEOREM WholeCorrect == PickSpec => []WholeInv
<1>1. PickInit => WholeInv
  <2> SUFFICES ASSUME PickInit PROVE WholeInv
    OBVIOUS
  <2>1. PickInv
    BY InitInv DEF PickInit, PickInv, TasksOK
  <2>2. Counted
    <3>1. mNextSeqNo = 0 /\ pass = NULL
      BY DEF PickInit, Init
    <3> QED
      BY <3>1, TakenFacts DEF Counted
  <2>3. ServerOK
    BY DEF PickInit, Init, ServerOK
  <2>4. PlugsOK
    BY CountAssumption DEF PickInit, Init, PlugsOK
  <2>5. Awaited /\ DialogInv
    BY DEF PickInit, Init, Awaited, DialogInv, HeardOK, LongestDialog
  <2> QED
    BY <2>1, <2>2, <2>3, <2>4, <2>5 DEF WholeInv, PlugInv
<1>2. WholeInv /\ [PickNext]_allVars => WholeInv'
  <2> SUFFICES ASSUME WholeInv, [PickNext]_allVars PROVE WholeInv'
    OBVIOUS
  <2>1. [Next]_vars /\ TasksOK'
    BY PickStep DEF WholeInv
  <2>2. Inv'
    BY <2>1, NextInv DEF WholeInv, PickInv
  <2>3. Counted' /\ ServerOK'
    BY <2>1, ServerNext DEF WholeInv, PickInv
  <2>4. PlugInv'
    BY <2>2, PlugNext DEF WholeInv
  <2> QED
    BY <2>1, <2>2, <2>3, <2>4 DEF WholeInv, PickInv
<1> QED
  BY <1>1, <1>2, PTL DEF PickSpec

\* The members of the server and of its redirectors keep their types; sequence
\* numbers are not given out to more requests than there are.
THEOREM TypesKept == PickSpec => []TypeOK
<1>1. WholeInv => TypeOK
  <2> SUFFICES ASSUME WholeInv PROVE TypeOK
    OBVIOUS
  <2>1. Types /\ Objects /\ Counted /\ ServerOK /\ PlugsOK /\ TasksOK
    BY DEF WholeInv, PickInv, PlugInv, Inv
  <2>2. DOMAIN mSuspendList \subseteq 0..mNextSeqNo - 1
    BY <2>1 DEF Types, Objects, ObjectOK
  <2>3. mNextSeqNo \in 0..Cardinality(Requests)
    <3>1. Cardinality(Requests) \in Nat
      BY FiniteAssumption, FS_CardinalityType
    <3> QED
      BY <2>1, <3>1, TakenFacts DEF Counted, Types
  <2> QED
    BY <2>1, <2>2, <2>3 DEF TypeOK, Types, ServerOK, PlugsOK, TasksOK
<1> QED
  BY <1>1, WholeCorrect, PTL

\* No suspended request is forgotten: a timer or a restart in the queue stands for
\* each redirector that mSuspendCount counts, also when timers fire late and other
\* requests are restarted, cancelled or shut down in between.
THEOREM SuspendedAreAwaited == PickSpec => []Awaited
<1>1. WholeInv => Awaited
  BY DEF WholeInv, PlugInv
<1> QED
  BY <1>1, WholeCorrect, PTL

\* processNotify keeps the longest dialog, for any number of NOTIFYs in any order.
THEOREM LongestDialogKept == PickSpec => []LongestDialog
<1>1. WholeInv => LongestDialog
  BY DEF WholeInv, PlugInv, DialogInv
<1> QED
  BY <1>1, WholeCorrect, PTL
=============================================================================
