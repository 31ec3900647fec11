---------------------------- MODULE OsServerTask ----------------------------
(***************************************************************************)
(* An active object: a task with its message loop (os/OsServerTask.cpp),   *)
(* the life of its thread (os/OsTask.cpp, os/linux/OsTaskLinux.cpp) and    *)
(* its message queue (OsMsgQShared).                                       *)
(*                                                                         *)
(* The owner creates the object, starts it, once or again after it has     *)
(* terminated, and destroys it when no client is inside it. Clients post   *)
(* messages and ask the task to shut down. Each start makes a thread.      *)
(*                                                                         *)
(* A critical section of mDataGuard is one step. at[p] is where thread p   *)
(* stands; in the places marked * it may be inside the queue:              *)
(*   idle, over       outside; will not come back                          *)
(*   posting*         in postMessage                                       *)
(*   asking           in requestShutdown, isNotShut was TRUE               *)
(*   asked*           in requestShutdown, posting OS_SHUTDOWN              *)
(*   shut             in waitUntilShutDown, about to call requestShutdown  *)
(*   acquire          in waitUntilShutDown, at mDeleteGuard                *)
(*   flush, flushing* in the destructor, at mIncomingQ.flush               *)
(*   none             a thread that is not created yet                     *)
(*   entry            in taskEntry                                         *)
(*   run, receiving*  in run, before and in receiveMessage                 *)
(*   test             in run, before isStarted                             *)
(*   ack              in ackShutdown                                       *)
(*   release          in ackShutdown, without mDataGuard, before           *)
(*                    mDeleteGuard.release                                 *)
(***************************************************************************)
EXTENDS OsMsgQShared

CONSTANTS
    Owner,
    Clients,
    TaskThreads,
    OS_SHUTDOWN,         \* the message
    MaxPosts             \* bound on the other messages

ASSUME ThreadsDiffer ==
    /\ Threads = {Owner} \cup Clients \cup TaskThreads
    /\ Owner \notin Clients \cup TaskThreads
    /\ Clients \cap TaskThreads = {}
    /\ NULL \notin TaskThreads
ASSUME ShutdownIsAMessage == OS_SHUTDOWN \in Messages

VARIABLES
    mState,
    mTaskId,
    mDeleteGuard,        \* a binary semaphore: 0 or 1
    at,
    object,              \* alive, destroying (in the destructor) or destroyed
    posts,
    hasty                \* TERMINATED was taken for the end of a thread that
                         \* had still to release mDeleteGuard

taskVars == <<mState, mTaskId, mDeleteGuard, at, object, posts, hasty>>
vars == <<queueVars, taskVars>>

TaskInit ==
    /\ Init
    /\ mState = "UNINITIALIZED"
    /\ mTaskId = NULL
    /\ mDeleteGuard = 0
    /\ at = [p \in Threads |-> IF p \in TaskThreads THEN "none" ELSE "idle"]
    /\ object = "alive"
    /\ posts = 0
    /\ hasty = FALSE

Move(p, place) == at' = [at EXCEPT ![p] = place]
Returned(p) == pc[p] = "out"
Releasing == \E k \in TaskThreads : at[k] = "release"

\* start, which may fail to create the thread.
start ==
    /\ at[Owner] = "idle" /\ mState \in {"UNINITIALIZED", "TERMINATED"}
    /\ mDeleteGuard' = 0
    /\ \/ \E k \in TaskThreads :
            /\ at[k] = "none"
            /\ Move(k, "entry")
            /\ mTaskId' = k
            /\ mState' = "RUNNING"
            /\ hasty' = (hasty \/ Releasing)
       \/ UNCHANGED <<at, mTaskId, mState, hasty>>
    /\ UNCHANGED <<queueVars, object, posts>>

-----------------------------------------------------------------------------
postMessage(p) ==
    /\ at[p] = "idle" /\ object = "alive" /\ posts < MaxPosts
    /\ \E m \in Messages \ {OS_SHUTDOWN}, t \in BOOLEAN : send(p, m, t)
    /\ Move(p, "posting")
    /\ posts' = posts + 1
    /\ UNCHANGED <<mState, mTaskId, mDeleteGuard, object, hasty>>

\* OsServerTask::requestShutdown looks first whether there is anything to do,
\* and looks again in the critical section of OsTask::requestShutdown.
requestShutdown(p) ==
    /\ \/ at[p] = "idle" /\ object = "alive" /\ mState \in {"UNINITIALIZED", "RUNNING"}
       \/ at[p] = "shut"
    /\ Move(p, IF mState \in {"UNINITIALIZED", "RUNNING"} THEN "asking" ELSE "acquire")
    /\ UNCHANGED <<queueVars, mState, mTaskId, mDeleteGuard, object, posts, hasty>>

\* OsTask::requestShutdown.
Requested ==
    CASE mState = "UNINITIALIZED" -> "TERMINATED"
      [] mState = "RUNNING" -> "SHUTTING_DOWN"
      [] OTHER -> mState

\* Variant: the message loop is not woken up.
askSilently(p) ==
    /\ at[p] = "asking"
    /\ mState' = Requested
    /\ Move(p, "asked")
    /\ UNCHANGED <<queueVars, mTaskId, mDeleteGuard, object, posts, hasty>>

ask(p) ==
    /\ at[p] = "asking"
    /\ mState' = Requested
    /\ send(p, OS_SHUTDOWN, FALSE)
    /\ Move(p, "asked")
    /\ UNCHANGED <<mTaskId, mDeleteGuard, object, posts, hasty>>

\* postMessage returns.
posted(p) ==
    /\ at[p] \in {"posting", "asked"} /\ Returned(p)
    /\ Move(p, IF object = "alive" THEN "idle" ELSE "acquire")
    /\ UNCHANGED <<queueVars, mState, mTaskId, mDeleteGuard, object, posts, hasty>>

-----------------------------------------------------------------------------
\* The new thread initializes the task; if that fails, it does not run.
taskEntry(k) ==
    /\ at[k] = "entry"
    /\ Move(k, "run") \/ Move(k, "ack")
    /\ UNCHANGED <<queueVars, mState, mTaskId, mDeleteGuard, object, posts, hasty>>

\* OsServerTask::run: wait for a message ...
receiveMessage(k) ==
    /\ at[k] = "run"
    /\ receive(k, FALSE)
    /\ Move(k, "receiving")
    /\ UNCHANGED <<mState, mTaskId, mDeleteGuard, object, posts, hasty>>

\* ... handle it ...
handleMessage(k) ==
    /\ at[k] = "receiving" /\ Returned(k)
    /\ mState' = IF data[k] = OS_SHUTDOWN THEN Requested ELSE mState
    /\ releaseMsg(k)
    /\ Move(k, "test")
    /\ UNCHANGED <<mTaskId, mDeleteGuard, object, posts, hasty>>

\* ... and go on while isStarted.
isStarted(k) ==
    /\ at[k] = "test"
    /\ Move(k, IF mState = "RUNNING" THEN "run" ELSE "ack")
    /\ UNCHANGED <<queueVars, mState, mTaskId, mDeleteGuard, object, posts, hasty>>

\* Variant: the guard is given back before the thread has come to an end.
ackShutdownEarly(k) ==
    /\ at[k] = "ack"
    /\ mState' = "TERMINATED"
    /\ mTaskId' = NULL
    /\ mDeleteGuard' = 1
    /\ Move(k, "release")
    /\ UNCHANGED <<queueVars, object, posts, hasty>>

\* OsTaskLinux::ackShutdown, up to the release of mDataGuard.
ackShutdown(k) ==
    /\ at[k] = "ack"
    /\ mState' = "TERMINATED"
    /\ mTaskId' = NULL
    /\ Move(k, IF mState # "TERMINATED" /\ mTaskId # NULL THEN "release" ELSE "over")
    /\ UNCHANGED <<queueVars, mDeleteGuard, object, posts, hasty>>

\* Variant: mDeleteGuard counts.
releaseDeleteGuardCounting(k) ==
    /\ at[k] = "release"
    /\ mDeleteGuard' = mDeleteGuard + 1
    /\ Move(k, "over")
    /\ UNCHANGED <<queueVars, mState, mTaskId, object, posts, hasty>>

\* The rest of it.
releaseDeleteGuard(k) ==
    /\ at[k] = "release"
    /\ mDeleteGuard' = 1
    /\ Move(k, "over")
    /\ UNCHANGED <<queueVars, mState, mTaskId, object, posts, hasty>>

-----------------------------------------------------------------------------
\* ~OsServerTask calls waitUntilShutDown.
waitUntilShutDown ==
    /\ at[Owner] = "idle" /\ object = "alive"
    /\ \A c \in Clients : at[c] = "idle"
    /\ object' = "destroying"
    /\ Move(Owner, CASE mState = "RUNNING" -> "shut"
                     [] mState = "SHUTTING_DOWN" -> "acquire"
                     [] OTHER -> "flush")
    /\ mState' = IF mState = "UNINITIALIZED" THEN "TERMINATED" ELSE mState
    /\ mDeleteGuard' = IF mState \in {"UNINITIALIZED", "TERMINATED"} THEN 1 ELSE mDeleteGuard
    /\ hasty' = (hasty \/ (mState = "TERMINATED" /\ Releasing))
    /\ UNCHANGED <<queueVars, mTaskId, posts>>

\* mDeleteGuard is acquired and released again for others.
acquireDeleteGuard ==
    /\ at[Owner] = "acquire" /\ mDeleteGuard = 1
    /\ Move(Owner, "flush")
    /\ UNCHANGED <<queueVars, mState, mTaskId, mDeleteGuard, object, posts, hasty>>

\* flush receives until nothing is left; ~OsTaskLinux finds TERMINATED.
flush ==
    /\ at[Owner] = "flush"
    /\ receive(Owner, TRUE)
    /\ Move(Owner, "flushing")
    /\ UNCHANGED <<mState, mTaskId, mDeleteGuard, object, posts, hasty>>

flushed ==
    /\ at[Owner] = "flushing" /\ Returned(Owner)
    /\ IF data[Owner] # NULL
       THEN releaseMsg(Owner) /\ Move(Owner, "flush") /\ UNCHANGED object
       ELSE Move(Owner, "over") /\ object' = "destroyed" /\ UNCHANGED queueVars
    /\ UNCHANGED <<mState, mTaskId, mDeleteGuard, posts, hasty>>

-----------------------------------------------------------------------------
\* The steps of the queue.
InQueue(p) ==
    \/ UNCHANGED taskVars /\ wait(p)
    \/ UNCHANGED taskVars /\ push(p)
    \/ UNCHANGED taskVars /\ pop(p)
    \/ UNCHANGED taskVars /\ signal(p)

TimeOut(p) == UNCHANGED taskVars /\ timeOut(p)
WakeUp(p) == UNCHANGED taskVars /\ wakeUp(p)

\* A caller goes on with what it is at.
Call(p) == (at[p] = "shut" /\ requestShutdown(p)) \/ ask(p) \/ posted(p)

TaskRun(k) ==
    \/ taskEntry(k) \/ receiveMessage(k) \/ handleMessage(k) \/ isStarted(k)
    \/ ackShutdown(k) \/ releaseDeleteGuard(k)

Destructor == acquireDeleteGuard \/ flush \/ flushed

TaskNext ==
    \/ start \/ waitUntilShutDown \/ Destructor
    \/ \E c \in Clients : postMessage(c)
    \/ \E p \in {Owner} \cup Clients : requestShutdown(p) \/ ask(p) \/ posted(p)
    \/ \E k \in TaskThreads : TaskRun(k)
    \/ \E p \in Threads : InQueue(p) \/ TimeOut(p) \/ WakeUp(p)

TaskSpec == TaskInit /\ [][TaskNext]_vars

\* Threads that can go on do. The deadline of a timed wait is a point in time,
\* which wake-ups do not put off.
FairTaskSpec ==
    /\ TaskSpec
    /\ \A p \in Threads : WF_vars(InQueue(p)) /\ SF_vars(TimeOut(p))
    /\ \A p \in {Owner} \cup Clients : WF_vars(Call(p))
    /\ \A k \in TaskThreads : WF_vars(TaskRun(k))
    /\ WF_vars(Destructor)

-----------------------------------------------------------------------------
Stations ==
    {"idle", "over", "posting", "asking", "asked", "shut", "acquire", "flush", "flushing",
     "none", "entry", "run", "receiving", "test", "ack", "release"}

Alive(k) == at[k] \notin {"none", "over"}

TypeOK ==
    /\ QueueTypeOK
    /\ mState \in {"UNINITIALIZED", "RUNNING", "SHUTTING_DOWN", "TERMINATED"}
    /\ mTaskId \in TaskThreads \cup {NULL}
    /\ mDeleteGuard \in {0, 1}
    /\ at \in [Threads -> Stations]
    /\ object \in {"alive", "destroying", "destroyed"}
    /\ posts \in Nat
    /\ hasty \in BOOLEAN

\* "Wait until the task is shut down and the run method has exited" (OsTask.h):
\* no thread is left when the object goes, unless start or the destructor came
\* in the moment between TERMINATED and the release of mDeleteGuard.
GoneBeforeDestroyed ==
    object = "destroyed" /\ ~hasty => \A k \in TaskThreads : ~Alive(k)

\* A place in the queue that nobody will make free: the loop has been left.
Stranded(p) ==
    /\ pc[p] = "waitEmpty" /\ count["empty"] = 0
    /\ \A k \in TaskThreads : at[k] \in {"none", "ack", "release", "over"}

\* The destructor comes to its end, except that its OS_SHUTDOWN waits for ever
\* at a full queue when the task has seen SHUTTING_DOWN and left its loop.
ShutdownEnds ==
    object = "destroying" ~> object = "destroyed" \/ Stranded(Owner)

\* While the task runs, a full queue delays a sender and does not stop it.
PostReturns ==
    \A c \in Clients : pc[c] = "waitEmpty" ~> pc[c] # "waitEmpty" \/ mState # "RUNNING"
=============================================================================
