------------------------ MODULE SipRedirectorPickUp ------------------------
(***************************************************************************)
(* The redirect server with its asynchronous redirectors, call pick-up and *)
(* join (SipRedirectorPickUp.cpp, SipRedirectorJoin.cpp).  Each sends a    *)
(* SUBSCRIBE to the phone whose call is to be picked up, sets a timer and  *)
(* suspends the request; a task of its own records the dialogs that come   *)
(* back in NOTIFYs; when the timer fires the request is processed again    *)
(* with the longest dialog recorded so far.                                *)
(*                                                                         *)
(* SUBSCRIBEs and NOTIFYs may be lost, late, repeated and out of order:    *)
(* any NOTIFY for a SUBSCRIBE that was sent may come at any time, or never.*)
(* A timer that is deleted may fire all the same, when its thread was on   *)
(* its way (OsTimer).                                                      *)
(***************************************************************************)
EXTENDS SipRedirectServer

CONSTANTS
    PickUps,        \* the asynchronous redirectors
    Codes,          \* Codes[r]: those of them whose feature code r dials
    Durations,      \* durations of the early incoming dialogs a phone may report
    MaxArrivals,    \* bound on the arrivals
    MayThrow        \* redirectors whose database may throw

Absent == -1        \* TargetDialogDurationAbsent: also a NOTIFY without such a dialog

ASSUME PickUpAssumption ==
    /\ PickUps \subseteq Active /\ \A r \in Requests : Codes[r] \subseteq PickUps
    /\ Durations \subseteq Nat /\ MaxArrivals \in Nat /\ MayThrow \subseteq Redirectors
    /\ Storage = Durations \cup {Absent}
ASSUME FiniteAssumption == IsFiniteSet(Requests)

VARIABLES
    timers,         \* <<r, i>>: mTimer of i's private storage for r is armed
    subscribed,     \* <<r, i>>: i has sent its SUBSCRIBE for r
    inbox,          \* inbox[i]: queue of i's task
    arrivals,       \* requests, CANCELs, NOTIFYs and shutdowns that have arrived
    task,           \* task[i]: "receive", "respond" (NOTIFY recorded) or "ended"
    stopping,       \* tasks that were asked to shut down
    agent,          \* redirectors whose SipUserAgent is alive
    finalizing,     \* the redirector being finalized
    heard           \* heard[<<r, i>>]: durations recorded for a suspended request

netVars == <<timers, subscribed, inbox, arrivals, heard>>
taskVars == <<task, stopping, agent, finalizing>>
allVars == <<vars, netVars, taskVars>>

PickInit ==
    /\ Init
    /\ timers = {} /\ subscribed = {}
    /\ inbox = [i \in PickUps |-> <<>>]
    /\ arrivals = 0
    /\ task = [i \in PickUps |-> "receive"]
    /\ stopping = {}
    /\ agent = PickUps
    /\ finalizing = 1
    /\ heard = [p \in Requests \X PickUps |-> {}]
-----------------------------------------------------------------------------
\* Calls of lookUp.

\* lookUpDialog, first call: SUBSCRIBE, private storage, timer.
lookUpFirst(r, i) ==
    /\ suspendObject.privateStorage[i] = NULL
    /\ lookUp("SEARCH_PENDING", Absent, FALSE, 0)
    /\ subscribed' = subscribed \cup {<<r, i>>}
    /\ timers' = timers \cup {<<r, i>>}
    /\ UNCHANGED <<inbox, arrivals, heard>>

\* lookUpDialog when the request is processed again: the recorded dialog.
lookUpAgain(r, i) ==
    LET duration == suspendObject.privateStorage[i]
    IN /\ duration # NULL
       /\ lookUp("SUCCESS", duration, duration # Absent,
                 IF pass.entries = 0 THEN 1 ELSE 2)
       /\ UNCHANGED netVars

lookUpDialog(r, i) == lookUpFirst(r, i) \/ lookUpAgain(r, i)

\* lookUp of a redirector that is not concerned, or that answers at once.
lookUpAtOnce ==
    /\ \/ lookUp("ERROR", NULL, FALSE, 0)
       \/ lookUp("SUCCESS", NULL, FALSE, 0)
       \/ \E entries \in 1..2 : lookUp("SUCCESS", NULL, TRUE, entries)
    /\ UNCHANGED netVars

lookUpAny ==
    /\ pass # NULL
    /\ IF pass.at \in Codes[pass.req] THEN lookUpDialog(pass.req, pass.at) ELSE lookUpAtOnce
    /\ UNCHANGED taskVars

\* Deleting the suspend objects deletes private storage and timers.
Forgotten ==
    /\ LET kept == {p \in timers : \E k \in DOMAIN mSuspendList' : mSuspendList'[k].mMessage = p[1]}
       IN \E late \in SUBSET (timers \ kept) : timers' = kept \cup late
    /\ UNCHANGED <<subscribed, inbox, arrivals, heard>>

Server ==
    \/ /\ handleRequest \/ handleRestart \/ observe \/ suspend
       /\ UNCHANGED <<netVars, taskVars>>
    \/ exception /\ pass.at \in MayThrow /\ UNCHANGED <<netVars, taskVars>>
    \/ (conclude \/ handleCancel \/ handleShutdown) /\ Forgotten /\ UNCHANGED taskVars
    \/ lookUpAny
-----------------------------------------------------------------------------
\* Timers and NOTIFYs.

\* SipRedirectorPickUpNotification::signal.
signal(r, i) ==
    /\ <<r, i>> \in timers
    /\ timers' = timers \ {<<r, i>>}
    /\ IF server = "stopped" THEN UNCHANGED vars ELSE resumeRequest(r, i)
    /\ UNCHANGED <<subscribed, inbox, arrivals, heard, taskVars>>

Arriving == arrivals < MaxArrivals /\ arrivals' = arrivals + 1

\* What the task of the registrar does: sendToRedirectServer, and the shutdown.
registrar ==
    /\ Arriving
    /\ requestShutdown \/ \E r \in Requests : arrive(r) \/ arriveCancel(r)
    /\ UNCHANGED <<timers, subscribed, inbox, heard, taskVars>>

\* A NOTIFY for the SUBSCRIBE of redirector i.
notify(r, i, duration) ==
    /\ <<r, i>> \in subscribed /\ i \in agent
    /\ Arriving
    /\ inbox' = [inbox EXCEPT ![i] = Append(@, [type |-> "NOTIFY", req |-> r, duration |-> duration])]
    /\ UNCHANGED <<vars, timers, subscribed, heard, taskVars>>
-----------------------------------------------------------------------------
\* The task of redirector i.  The message at the head of its queue is the one it
\* is handling.

\* The loop of OsServerTask::run ends when the task was asked to shut down.
Handled(i) ==
    /\ inbox' = [inbox EXCEPT ![i] = Tail(@)]
    /\ task' = [task EXCEPT ![i] = IF i \in stopping THEN "ended" ELSE "receive"]
    /\ UNCHANGED <<vars, timers, subscribed, arrivals, heard, stopping, agent, finalizing>>

Handles(i, type) == task[i] = "receive" /\ inbox[i] # <<>> /\ Head(inbox[i]).type = type

\* Mutant of processNotify: the last dialog is kept.
processNotifyLast(i, k, r, duration) ==
    /\ store(k, i, duration)
    /\ heard' = [heard EXCEPT ![<<r, i>>] = @ \cup {duration}]

\* processNotify for the request whose SUBSCRIBE has the Call-Id, if it is still
\* suspended: the dialog with the longest duration is kept.
processNotify(i, k, r, duration) ==
    /\ store(k, i, IF duration > mSuspendList[k].privateStorage[i]
                   THEN duration ELSE mSuspendList[k].privateStorage[i])
    /\ heard' = [heard EXCEPT ![<<r, i>>] = @ \cup {duration}]

Owners(r, i) ==
    {k \in DOMAIN mSuspendList : /\ mSuspendList[k].mMessage = r
                                 /\ mSuspendList[k].privateStorage[i] # NULL}

\* Holding mRedirectorMutex, which the server task does not give up while it
\* processes a request or finalizes its redirectors.
record(i) ==
    /\ Handles(i, "NOTIFY")
    /\ pass = NULL /\ server # "finalizing"
    /\ LET notice == Head(inbox[i])
           ks == Owners(notice.req, i)
       IN IF ks = {} THEN UNCHANGED <<vars, heard>>
          ELSE \E k \in ks : processNotify(i, k, notice.req, notice.duration)
    /\ task' = [task EXCEPT ![i] = "respond"]
    /\ UNCHANGED <<timers, subscribed, inbox, arrivals, stopping, agent, finalizing>>

\* The 200 response to the NOTIFY, after the mutex was released.
respond(i) == task[i] = "respond" /\ Handled(i)

endTask(i) == Handles(i, "OS_SHUTDOWN") /\ Handled(i)
-----------------------------------------------------------------------------
\* Finalization of the redirectors, in order.

\* Mutant of finalize: the task is not woken up.
finalizeNoWake(i) ==
    /\ server = "finalizing" /\ finalizing = i /\ i \in agent
    /\ agent' = agent \ {i}
    /\ stopping' = stopping \cup {i}
    /\ UNCHANGED <<vars, netVars, task, finalizing>>

\* finalize of an asynchronous redirector: its user agent is deleted, then its
\* task is asked to shut down ...
finalize(i) ==
    /\ server = "finalizing" /\ finalizing = i /\ i \in agent
    /\ agent' = agent \ {i}
    /\ stopping' = stopping \cup {i}
    /\ inbox' = [inbox EXCEPT ![i] = Append(@, [type |-> "OS_SHUTDOWN"])]
    /\ UNCHANGED <<vars, timers, subscribed, arrivals, heard, task, finalizing>>

\* ... and deleted, which waits until it has ended.
deleted(i) ==
    /\ server = "finalizing" /\ finalizing = i
    /\ i \in PickUps => task[i] = "ended"
    /\ finalizing' = i + 1
    /\ UNCHANGED <<vars, netVars, task, stopping, agent>>

Finalized ==
    /\ finalizing > mRedirectorCount
    /\ finalized
    /\ UNCHANGED <<netVars, taskVars>>

\* Whether waitUntilShutDown comes to its assert(false): the task it waits for
\* waits for the mutex the server task holds.
Stuck ==
    /\ server = "finalizing"
    /\ finalizing \in stopping /\ Handles(finalizing, "NOTIFY")

ServerTask == Server \/ (\E i \in Redirectors : finalize(i) \/ deleted(i)) \/ Finalized

PickNext ==
    \/ ServerTask
    \/ registrar
    \/ \E p \in timers : signal(p[1], p[2])
    \/ \E r \in Requests, i \in PickUps, d \in Durations \cup {Absent} : notify(r, i, d)
    \/ \E i \in PickUps : record(i) \/ respond(i) \/ endTask(i)

PickSpec == PickInit /\ [][PickNext]_allVars

\* The tasks, the timer threads and the server task are scheduled; nothing makes
\* a phone send a NOTIFY, nor anyone a request, a CANCEL or a shutdown.
FairSpec ==
    /\ PickSpec
    /\ WF_allVars(ServerTask)
    /\ \A i \in PickUps : WF_allVars(record(i) \/ respond(i) \/ endTask(i))
    /\ WF_allVars(\E p \in timers : signal(p[1], p[2]))
-----------------------------------------------------------------------------
Notify == [type : {"NOTIFY"}, req : Requests, duration : Durations \cup {Absent}]

\* The types of the members of the server, of its redirectors and of the history.
TypeOK ==
    /\ queue \in Seq(Message)
    /\ pass # NULL => pass \in Pass /\ pass.at <= mRedirectorCount + 1
    /\ DOMAIN mSuspendList \subseteq 0..mNextSeqNo - 1
    /\ \A k \in DOMAIN mSuspendList : mSuspendList[k] \in Suspended
    /\ mNextSeqNo \in 0..Cardinality(Requests)
    /\ server \in {"running", "finalizing", "stopped"}
    /\ stage \in [Requests -> {"unseen", "queued", "taken"}]
    /\ canceled \subseteq Requests
    /\ number \in [Requests -> Nat]
    /\ searching \in [Requests -> SUBSET PickUps]
    /\ owed \in [Requests -> SUBSET PickUps]
    /\ reply \in [Requests -> Reply]
    /\ timers \subseteq subscribed
    /\ subscribed \subseteq Requests \X PickUps
    /\ \A i \in PickUps : inbox[i] \in Seq(Notify \cup [type : {"OS_SHUTDOWN"}])
    /\ task \in [PickUps -> {"receive", "respond", "ended"}]
    /\ stopping \subseteq PickUps /\ agent \subseteq PickUps
    /\ finalizing \in 1..mRedirectorCount + 1

\* A suspended request is going to be resumed: for each redirector it waits for
\* there is a timer or a restart in the queue that
\* names the request; and mSuspendCount counts them.
Awaited ==
    \A k \in DOMAIN mSuspendList :
        LET object == mSuspendList[k]
        IN /\ object.mSuspendCount = Cardinality(object.suspended)
           /\ \A i \in object.suspended :
                 \/ <<object.mMessage, i>> \in timers
                 \/ \E j \in 1..Len(queue) :
                       queue[j] = [type |-> "REDIRECT_RESTART", seqNo |-> k, redirector |-> i]

\* Private storage holds the longest of the dialogs that were reported for this
\* request while it was suspended, whatever the order and number of the NOTIFYs.
LongestDialog ==
    \A k \in DOMAIN mSuspendList, i \in PickUps :
        LET best == mSuspendList[k].privateStorage[i]
            known == heard[<<mSuspendList[k].mMessage, i>>] \cup {Absent}
        IN best # NULL => best \in known /\ \A d \in known : d <= best

\* Every request is answered although NOTIFYs are lost, unless the server is shut
\* down or an exception hits the second attempt, which no one is told of.
Answers ==
    \A r \in Requests :
        stage[r] = "queued" ~>
            reply[r].kind # "none" \/ reply[r].lost > 0 \/ server # "running"

\* The wait for a task to end never becomes a deadlock, which waitUntilShutDown
\* asserts: "assert(false);  // core dump to find deadlock" (OsTaskLinux.cpp).
NoDeadlock == ~Stuck

\* The shutdown of the server ends, but for the wait that Stuck describes.
ShutsDown == server = "finalizing" ~> server = "stopped" \/ Stuck
=============================================================================
