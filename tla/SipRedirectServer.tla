------------------------- MODULE SipRedirectServer -------------------------
(***************************************************************************)
(* The redirect server of the registrar (sipXregistry/SipRedirectServer):  *)
(* a server task that asks its redirectors, in order, where a request      *)
(* should go.  A redirector that needs time suspends the request and posts *)
(* a REDIRECT_RESTART when it is ready; when all have, the request is      *)
(* processed again from the first redirector.                              *)
(*                                                                         *)
(* Each call of a redirector's lookUp or observe is a step of the task,    *)
(* with any outcome, an exception included.  The task holds                *)
(* mRedirectorMutex while pass # NULL.  Sequence numbers do not roll over  *)
(* here; the code's do after 2^32 suspended requests.                      *)
(***************************************************************************)
EXTENDS Integers, Sequences, FiniteSets

CONSTANTS
    Requests,           \* the requests the registrar receives, CANCELs aside
    Acks,               \* those that are ACKs; the others are INVITEs
    Session,            \* Session[r]: what isSameTransaction compares
    mRedirectorCount,
    Active,             \* redirectors whose initialize() succeeded (bActive)
    authorityLevel,     \* authorityLevel[i], from the configuration
    Storage,            \* what a redirector may keep in private storage
    NULL

Redirectors == 1..mRedirectorCount

LookUpStatus == {"ERROR", "SEARCH_PENDING", "SUCCESS"}

\* Numbers of contacts that the code tells apart; 2 stands for several.
Entries == 0..2

\* An execution of processRedirect.
Pass == [req : Requests, seqNo : Nat, at : Nat, first : BOOLEAN,
         willError : BOOLEAN, willSuspend : BOOLEAN, level : Int, entries : Entries]

\* RedirectSuspend: the flags of its array mRedirectors as sets.
Suspended == [mMessage : Requests, mSuspendCount : Nat,
              suspended : SUBSET Redirectors, needsCancel : SUBSET Redirectors,
              privateStorage : [Redirectors -> Storage \cup {NULL}]]

\* A message in the queue of the server task.
Message ==
    [type : {"PHONE_APP", "CANCEL"}, req : Requests]
    \cup [type : {"REDIRECT_RESTART"}, seqNo : Nat, redirector : Redirectors]
    \cup [type : {"OS_SHUTDOWN"}]

ASSUME CountAssumption == mRedirectorCount \in Nat
ASSUME ConfigAssumption == Active \subseteq Redirectors /\ authorityLevel \in [Redirectors -> Int]
ASSUME RequestAssumption == Acks \subseteq Requests
ASSUME NullAssumption == NULL \notin Storage /\ NULL \notin Pass

VARIABLES
    queue,          \* mIncomingQ of the server task
    pass,           \* the execution of processRedirect under way, or NULL
    mSuspendList,   \* suspend objects by sequence number
    mNextSeqNo,
    server,         \* "running", "finalizing" (in OS_SHUTDOWN), "stopped"
    stage,          \* stage[r]: the request is "unseen", "queued" or "taken"
    canceled,       \* requests whose sender sent a CANCEL
    number,         \* number[r]: the sequence number lookUp gave the searches of r
    searching,      \* searching[r]: redirectors that will post a restart for r
    owed,           \* owed[r]: redirectors that returned SEARCH_PENDING, no cancel yet
    reply           \* reply[r]: the answers to r so far

serverVars == <<pass, mSuspendList, mNextSeqNo, server>>
pluginVars == <<number, searching, owed>>
vars == <<queue, serverVars, stage, canceled, pluginVars, reply>>

Kinds == {"none", "302", "404", "error", "487", "503", "forwarded", "dropped"}

\* The last answer; how many there were, those of exceptions apart; and how
\* many exceptions the sender was told (503) or not told of.
Reply == [kind : Kinds, finals : Nat, failures : Nat, lost : Nat]

Init ==
    /\ queue = <<>>
    /\ pass = NULL
    /\ mSuspendList = [k \in {} |-> NULL]
    /\ mNextSeqNo = 0
    /\ server = "running"
    /\ stage = [r \in Requests |-> "unseen"]
    /\ canceled = {}
    /\ number = [r \in Requests |-> 0]
    /\ searching = [r \in Requests |-> {}]
    /\ owed = [r \in Requests |-> {}]
    /\ reply = [r \in Requests |-> [kind |-> "none", finals |-> 0, failures |-> 0, lost |-> 0]]
-----------------------------------------------------------------------------
\* What is posted to the server task.

post(m) == queue' = Append(queue, m)

\* The registrar's task passes the requests on (sendToRedirectServer) until it
\* shuts the redirect server down.
Open == server = "running" /\ \A j \in 1..Len(queue) : queue[j].type # "OS_SHUTDOWN"

arrive(r) ==
    /\ Open /\ stage[r] = "unseen"
    /\ stage' = [stage EXCEPT ![r] = "queued"]
    /\ post([type |-> "PHONE_APP", req |-> r])
    /\ UNCHANGED <<serverVars, canceled, pluginVars, reply>>

arriveCancel(r) ==
    /\ Open /\ stage[r] # "unseen" /\ r \notin Acks \cup canceled
    /\ canceled' = canceled \cup {r}
    /\ post([type |-> "CANCEL", req |-> r])
    /\ UNCHANGED <<serverVars, stage, pluginVars, reply>>

\* resumeRequest: "It should not be called more than once following each
\* invocation of lookUp that returns SEARCH_PENDING" (RedirectPlugin.h).
resumeRequest(r, i) ==
    /\ i \in searching[r]
    /\ searching' = [searching EXCEPT ![r] = @ \ {i}]
    /\ post([type |-> "REDIRECT_RESTART", seqNo |-> number[r], redirector |-> i])
    /\ UNCHANGED <<serverVars, stage, canceled, number, owed, reply>>

requestShutdown ==
    /\ Open
    /\ post([type |-> "OS_SHUTDOWN"])
    /\ UNCHANGED <<serverVars, stage, canceled, pluginVars, reply>>
-----------------------------------------------------------------------------
\* processRedirect, which the handlers of requests and of restarts begin.

Begin(r, k, first) ==
    [req |-> r, seqNo |-> k, at |-> 1, first |-> first, willError |-> FALSE,
     willSuspend |-> FALSE, level |-> 0, entries |-> 0]

\* The loop over the redirectors goes on.
Asking == pass # NULL /\ ~pass.willError /\ pass.at <= mRedirectorCount

NewSuspend(r) ==
    [mMessage |-> r, mSuspendCount |-> 0, suspended |-> {}, needsCancel |-> {},
     privateStorage |-> [i \in Redirectors |-> NULL]]

suspendObject ==
    IF pass.seqNo \in DOMAIN mSuspendList THEN mSuspendList[pass.seqNo]
                                          ELSE NewSuspend(pass.req)

Stored(list, k, object) ==
    [n \in DOMAIN list \cup {k} |-> IF n = k THEN object ELSE list[n]]

\* Redirector i is inactive, or may only observe.
observe ==
    /\ Asking
    /\ pass.at \in Active => authorityLevel[pass.at] < pass.level
    /\ pass' = [pass EXCEPT !.at = @ + 1]
    /\ UNCHANGED <<queue, mSuspendList, mNextSeqNo, server, stage, canceled, pluginVars, reply>>

MayLookUp == Asking /\ pass.at \in Active /\ authorityLevel[pass.at] >= pass.level

\* Mutant of Noted: a flag instead of a count.
NotedFlag(object, i, status, storage) ==
    IF status = "SEARCH_PENDING"
    THEN [object EXCEPT !.privateStorage[i] = storage, !.suspended = @ \cup {i},
                        !.needsCancel = @ \cup {i}, !.mSuspendCount = 1]
    ELSE [object EXCEPT !.privateStorage[i] = storage]

\* The suspend object with what redirector i returned.
Noted(object, i, status, storage) ==
    IF status = "SEARCH_PENDING"
    THEN [object EXCEPT !.privateStorage[i] = storage,
                        !.suspended = @ \cup {i},
                        !.needsCancel = @ \cup {i},
                        !.mSuspendCount = @ + 1]
    ELSE [object EXCEPT !.privateStorage[i] = storage]

\* Mutant of NextSeqNo: the number is used again.
NextSeqNoKept(needed) == mNextSeqNo

\* The number is taken when a suspend object is created for the request.
NextSeqNo(needed) ==
    IF needed /\ pass.seqNo \notin DOMAIN mSuspendList /\ pass.seqNo = mNextSeqNo
    THEN mNextSeqNo + 1 ELSE mNextSeqNo

\* lookUp returns a status, with private storage and a list of `entries' contacts.
lookUp(status, storage, modified, entries) ==
    /\ MayLookUp
    /\ LET i == pass.at
           r == pass.req
           listed == pass.seqNo \in DOMAIN mSuspendList
           needed == status = "SEARCH_PENDING" \/ storage # NULL
       IN /\ mSuspendList' =
                IF listed \/ needed
                THEN Stored(mSuspendList, pass.seqNo, Noted(suspendObject, i, status, storage))
                ELSE mSuspendList
          /\ mNextSeqNo' = NextSeqNo(needed)
          /\ pass' = [pass EXCEPT
                !.at = i + 1,
                !.willError = (status = "ERROR"),
                !.willSuspend = (@ \/ status = "SEARCH_PENDING"),
                !.level = IF status = "SUCCESS" /\ modified THEN authorityLevel[i] ELSE @,
                !.entries = IF modified THEN entries ELSE @]
          /\ IF status = "SEARCH_PENDING"
             THEN /\ number' = [number EXCEPT ![r] = pass.seqNo]
                  /\ searching' = [searching EXCEPT ![r] = @ \cup {i}]
                  /\ owed' = [owed EXCEPT ![r] = @ \cup {i}]
             ELSE UNCHANGED pluginVars
    /\ UNCHANGED <<queue, server, stage, canceled, reply>>

\* Mutant of cancelRedirect: only redirectors that are still searching are told.
cancelRedirectSuspended(ks) ==
    /\ mSuspendList' = [k \in DOMAIN mSuspendList \ ks |-> mSuspendList[k]]
    /\ owed' = [r \in Requests |->
          owed[r] \ {i \in Active : \E k \in ks : /\ mSuspendList[k].mMessage = r
                                                  /\ i \in mSuspendList[k].suspended}]
    /\ UNCHANGED <<number, searching>>

\* cancelRedirect for the suspend objects numbered ks.
cancelRedirect(ks) ==
    /\ mSuspendList' = [k \in DOMAIN mSuspendList \ ks |-> mSuspendList[k]]
    /\ owed' = [r \in Requests |->
          owed[r] \ {i \in Active : \E k \in ks : /\ mSuspendList[k].mMessage = r
                                                  /\ i \in mSuspendList[k].needsCancel}]
    /\ UNCHANGED <<number, searching>>

Outcome(p) ==
    IF p.req \in Acks
    THEN IF ~p.willError /\ p.entries = 1 THEN "forwarded" ELSE "dropped"
    ELSE IF p.willError THEN "error"
    ELSE IF p.entries > 0 THEN "302" ELSE "404"

\* A reply with one more final answer.
Final(a, kind) ==
    [kind |-> kind, finals |-> a.finals + 1, failures |-> a.failures, lost |-> a.lost]

Answer(rs, kind) ==
    reply' = [r \in Requests |-> IF r \in rs THEN Final(reply[r], kind) ELSE reply[r]]

\* After the loop: "redirector has done all it can".
conclude ==
    /\ pass # NULL /\ ~Asking
    /\ pass.willError \/ ~pass.willSuspend
    /\ Answer({pass.req}, Outcome(pass))
    /\ cancelRedirect(DOMAIN mSuspendList \cap {pass.seqNo})
    /\ pass' = NULL
    /\ UNCHANGED <<queue, mNextSeqNo, server, stage, canceled>>

\* After the loop: "Request is suspended".
suspend ==
    /\ pass # NULL /\ ~Asking
    /\ ~pass.willError /\ pass.willSuspend
    /\ pass' = NULL
    /\ UNCHANGED <<queue, mSuspendList, mNextSeqNo, server, stage, canceled, pluginVars, reply>>

\* A reply after an exception, which the sender is told of or not.
Failed(a, told) ==
    IF told THEN [kind |-> "503", finals |-> a.finals, failures |-> a.failures + 1, lost |-> a.lost]
            ELSE [kind |-> a.kind, finals |-> a.finals, failures |-> a.failures, lost |-> a.lost + 1]

\* An exception of a redirector reaches handleMessage, which answers 503 when
\* it was handling the request itself.
exception ==
    /\ Asking /\ pass.at \in Active
    /\ reply' = [reply EXCEPT ![pass.req] = Failed(@, pass.first)]
    /\ pass' = NULL
    /\ UNCHANGED <<queue, mSuspendList, mNextSeqNo, server, stage, canceled, pluginVars>>
-----------------------------------------------------------------------------
\* handleMessage.

Handling(type) ==
    /\ server = "running" /\ pass = NULL
    /\ queue # <<>> /\ Head(queue).type = type
    /\ queue' = Tail(queue)

handleRequest ==
    /\ Handling("PHONE_APP")
    /\ pass' = Begin(Head(queue).req, mNextSeqNo, TRUE)
    /\ stage' = [stage EXCEPT ![Head(queue).req] = "taken"]
    /\ UNCHANGED <<mSuspendList, mNextSeqNo, server, canceled, pluginVars, reply>>

\* The suspended INVITEs that the CANCEL applies to (isInviteFor).
InvitesFor(r) ==
    {k \in DOMAIN mSuspendList : /\ mSuspendList[k].mMessage \notin Acks
                                 /\ Session[mSuspendList[k].mMessage] = Session[r]}

handleCancel ==
    /\ Handling("CANCEL")
    /\ LET ks == InvitesFor(Head(queue).req)
       IN /\ Answer({mSuspendList[k].mMessage : k \in ks}, "487")
          /\ cancelRedirect(ks)
    /\ UNCHANGED <<pass, mNextSeqNo, server, stage, canceled>>

\* The suspend object without the suspension of redirector i.
Restarted(object, i) == [object EXCEPT !.suspended = @ \ {i}, !.mSuspendCount = @ - 1]

\* Mutant of Resumed: the count is tested before it is decremented.
ResumedEarlyTest(object) == object.mSuspendCount = 0

\* Whether the restart of one redirector leaves none to wait for.
Resumed(object) == object.mSuspendCount = 1

\* REDIRECT_RESTART, for a request and a redirector that are suspended.
handleRestart ==
    /\ Handling("REDIRECT_RESTART")
    /\ LET k == Head(queue).seqNo
           i == Head(queue).redirector
       IN IF k \in DOMAIN mSuspendList /\ i \in mSuspendList[k].suspended
          THEN /\ mSuspendList' = [mSuspendList EXCEPT ![k] = Restarted(@, i)]
               /\ pass' = IF Resumed(mSuspendList[k])
                          THEN Begin(mSuspendList[k].mMessage, k, FALSE) ELSE NULL
          ELSE UNCHANGED <<mSuspendList, pass>>
    /\ UNCHANGED <<mNextSeqNo, server, stage, canceled, pluginVars, reply>>

\* OS_SHUTDOWN up to the finalization of the redirectors ...
handleShutdown ==
    /\ Handling("OS_SHUTDOWN")
    /\ cancelRedirect(DOMAIN mSuspendList)
    /\ server' = "finalizing"
    /\ UNCHANGED <<pass, mNextSeqNo, stage, canceled, reply>>

\* ... and after it: spInstance = NULL and the task ends.
finalized ==
    /\ server = "finalizing"
    /\ server' = "stopped"
    /\ UNCHANGED <<queue, pass, mSuspendList, mNextSeqNo, stage, canceled, pluginVars, reply>>

\* A redirector changes its private storage, holding mRedirectorMutex.
store(k, i, storage) ==
    /\ pass = NULL
    /\ mSuspendList[k].privateStorage[i] # NULL
    /\ mSuspendList' = [mSuspendList EXCEPT ![k].privateStorage[i] = storage]
    /\ UNCHANGED <<queue, pass, mNextSeqNo, server, stage, canceled, pluginVars, reply>>

Redirecting ==
    \/ observe \/ conclude \/ suspend \/ exception
    \/ \E status \in LookUpStatus, storage \in Storage \cup {NULL},
          modified \in BOOLEAN, entries \in Entries : lookUp(status, storage, modified, entries)

Next ==
    \/ \E r \in Requests : arrive(r) \/ arriveCancel(r)
    \/ \E r \in Requests, i \in Redirectors : resumeRequest(r, i)
    \/ requestShutdown
    \/ handleRequest \/ handleCancel \/ handleRestart \/ handleShutdown \/ finalized
    \/ Redirecting
    \/ \E k \in DOMAIN mSuspendList, i \in Redirectors, storage \in Storage : store(k, i, storage)

Spec == Init /\ [][Next]_vars
-----------------------------------------------------------------------------
\* How the server keeps the promises of RedirectContract.

Listed(r) == {k \in DOMAIN mSuspendList : mSuspendList[k].mMessage = r}

Phase(r) ==
    IF pass # NULL /\ pass.req = r THEN "open"
    ELSE IF Listed(r) # {} THEN "suspended"
    ELSE IF stage[r] = "taken" THEN "done" ELSE "unseen"

\* The redirectors that the suspend object of r waits for.
Waiting(r) == UNION {mSuspendList[k].suspended : k \in Listed(r)}

phase == [r \in Requests |-> Phase(r)]
waiting == [r \in Requests |-> Waiting(r)]
finals == [r \in Requests |-> reply[r].finals]
failures == [r \in Requests |-> reply[r].failures]

Contract == INSTANCE RedirectContract WITH
    phase <- phase, waiting <- waiting, finals <- finals, failures <- failures

\* The redirect server, with its queue, numbers, counts and restarts that come
\* late or for a request that is gone, does what RedirectContract promises: each
\* search is resumed once, a request is processed again when the last search has
\* been reported and not before, and no redirector is left without its cancel().
KeepsContract == Contract!Spec
=============================================================================
