------------------------- MODULE SipTransactionList -------------------------
(***************************************************************************)
(* The list of SIP transactions and the lock it puts on each transaction   *)
(* tree (net/SipTransactionList.cpp and the tree operations of             *)
(* net/SipTransaction.cpp), with the OsEvent (os/OsEvent.cpp) on which a   *)
(* thread waits for a busy tree.                                           *)
(*                                                                         *)
(* mListMutex makes each operation one step, except where an event is      *)
(* signaled: OsEvent::signal takes no lock and is three steps (test the    *)
(* flag, set it, post the semaphore), which a waiter that gave up takes    *)
(* without mListMutex and the releasing thread with it.                    *)
(*                                                                         *)
(* pc[p] is where process p stands:                                        *)
(*   idle   in no operation of the list                                    *)
(*   hold   owns the tree of tx[p]: it is processing a message, a timer    *)
(*          event or a queued CANCEL                                       *)
(*   retry  in waitUntilAvailable, about to lock the list                  *)
(*   wait   waiting on event ev[p]                                         *)
(*   test, set, post   in OsEvent::signal of ev[p]                         *)
(*   after  in waitUntilAvailable, done with the event                     *)
(*   sweep  the collector in removeOldTransactions                         *)
(*                                                                         *)
(* Stamps are modelled by ages: a stamp of `now' is an age of 0.           *)
(***************************************************************************)
EXTENDS Integers, Sequences, Functions

CONSTANTS
    Threads,             \* the tasks that process messages and timer events
    GC,                  \* the garbage collection thread
    Transactions,        \* addresses of SipTransaction objects
    Events,              \* addresses of OsEvent objects
    NULL,
    LIFETIME,            \* seconds a transaction is kept after its last use
    INVITE_LIFETIME,     \* the same for an INVITE
    COMPLETE_LIFETIME,   \* 32: seconds a complete INVITE tree is kept
    Settings             \* the situations that are looked at: records with the
                         \* threads at work, the addresses the heap has for
                         \* transactions of each kind, and whether a tree may
                         \* stay busy for longer than the waits

ASSUME LifetimesOrdered ==
    /\ LIFETIME \in Nat /\ INVITE_LIFETIME \in Nat /\ COMPLETE_LIFETIME \in Nat
    /\ LIFETIME <= INVITE_LIFETIME
ASSUME SettingsAreThere ==
    /\ Settings \subseteq [threads : SUBSET Threads, invites : SUBSET Transactions,
                           others : SUBSET Transactions, events : SUBSET Events,
                           overruns : BOOLEAN]
    /\ \A s \in Settings : s.invites \cap s.others = {}
ASSUME NoneIsNull ==
    GC \notin Threads /\ NULL \notin Threads \cup {GC} \cup Transactions \cup Events

VARIABLES
    setting,             \* one of Settings
    mTransactions,       \* the transactions in the list
    parent,              \* mpParentTransaction
    mIsBusy,
    complete,            \* mTransactionState >= TRANSACTION_COMPLETE
    age,                 \* seconds since mTimeStamp
    unused,              \* seconds since it was used under a top in progress;
                         \* OLDEST when it comes under a complete one
    mWaitingList,        \* events waiting for a tree, at its top most parent
    allocated,           \* the events that exist
    mIsSignaled,
    mSignalSem,          \* 0 or 1
    mListMutex,          \* who holds it, or NULL
    doomed,              \* transactionsToBeDeleted
    pc, tx, ev,
    waitTime,            \* waits done in this round of waitUntilAvailable
    waitStatus,          \* the last of them returned OS_SUCCESS
    err                  \* what went wrong: a failed assert, a freed object used

treeVars  == <<mTransactions, parent, mIsBusy, complete>>
ageVars   == <<age, unused>>
eventVars == <<allocated, mIsSignaled, mSignalSem>>
callVars  == <<tx, ev, waitTime, waitStatus>>
vars == <<setting, treeVars, ageVars, mWaitingList, eventVars, mListMutex, doomed, pc,
          callVars, err>>

Procs == Threads \cup {GC}
OLDEST == 1 + (IF INVITE_LIFETIME > COMPLETE_LIFETIME      \* ages saturate here
              THEN INVITE_LIFETIME ELSE COMPLETE_LIFETIME)

Init ==
    /\ setting \in Settings
    /\ mTransactions = {}
    /\ parent = [t \in Transactions |-> NULL]
    /\ mIsBusy = [t \in Transactions |-> FALSE]
    /\ complete = [t \in Transactions |-> FALSE]
    /\ age = [t \in Transactions |-> 0]
    /\ unused = [t \in Transactions |-> 0]
    /\ mWaitingList = [t \in Transactions |-> <<>>]
    /\ allocated = {}
    /\ mIsSignaled = [e \in Events |-> FALSE]
    /\ mSignalSem = [e \in Events |-> 0]
    /\ mListMutex = NULL
    /\ doomed = {}
    /\ pc = [p \in Procs |-> "idle"]
    /\ tx = [p \in Threads |-> NULL]
    /\ ev = [p \in Procs |-> NULL]
    /\ waitTime = [p \in Threads |-> 0]
    /\ waitStatus = [p \in Threads |-> FALSE]
    /\ err = "none"

At(p, place) == err = "none" /\ pc[p] = place
Goto(p, place) == pc' = [pc EXCEPT ![p] = place]

\* getTopMostParent, or the transaction itself when it has no parent.
TopMost(up, t) ==
    LET top[s \in Transactions] == IF up[s] = NULL THEN s ELSE top[up[s]]
    IN  top[t]
Top(t) == TopMost(parent, t)
Tree(t) == {s \in mTransactions : Top(s) = Top(t)}

\* markBusy, doMarkBusy: the top most parent and everything below it.
markBusy(t) ==
    mIsBusy' = [s \in Transactions |-> s \in Tree(t) \/ mIsBusy[s]]

\* Variant: only the transaction itself and the top most parent are touched.
touchTopOnly(t) ==
    /\ age' = [age EXCEPT ![t] = IF complete[t] THEN age[t] ELSE 0]
    /\ unused' = [s \in Transactions |->
                    IF s \in Tree(t) /\ ~complete[t] THEN 0 ELSE unused[s]]

\* touch at a top most parent t: its stamp is renewed unless it is complete,
\* and whatever stamp it then has is written to all below it that are not.
touch(t) ==
    LET stamp == IF complete[t] THEN age[t] ELSE 0
    IN  /\ age' = [s \in Transactions |->
                     IF s \in Tree(t) /\ ~complete[s] THEN stamp ELSE age[s]]
        /\ unused' = [s \in Transactions |->
                        IF s \in Tree(t) /\ ~complete[t] THEN 0 ELSE unused[s]]

-----------------------------------------------------------------------------
\* Addresses where the heap may put a new transaction. A thread that still
\* points to a deleted one finds its hash gone, whatever is there by then.
\* (The fields of objects that do not exist keep the values of new ones.)
NewObjects == {t \in Transactions \ mTransactions : \A p \in Threads : tx[p] # t}

\* One address for all that would do: nothing tells them apart.
OneOf(addresses) == IF addresses = {} THEN {} ELSE {CHOOSE a \in addresses : TRUE}

\* SipUserAgent::send and dispatch: a message of no known transaction makes a
\* new one, marked busy and then added.
newTransaction(p) ==
    /\ At(p, "idle") /\ mListMutex = NULL
    /\ \E t \in OneOf(NewObjects \cap setting.invites) \cup OneOf(NewObjects \cap setting.others) :
         /\ mTransactions' = mTransactions \cup {t}
         /\ mIsBusy' = [mIsBusy EXCEPT ![t] = TRUE]
         /\ tx' = [tx EXCEPT ![p] = t]
    /\ Goto(p, "hold")
    /\ UNCHANGED <<parent, complete, ageVars, mWaitingList, eventVars, mListMutex,
                   doomed, ev, waitTime, waitStatus, err>>

SameMethod(t) == IF t \in setting.invites THEN setting.invites ELSE setting.others

\* Variant: the child does not inherit the busy mark.
linkChildNotBusy(p) ==
    /\ At(p, "hold") /\ mListMutex = NULL
    /\ \E t \in OneOf(NewObjects \cap SameMethod(tx[p])) :
         /\ mTransactions' = mTransactions \cup {t}
         /\ parent' = [parent EXCEPT ![t] = tx[p]]
    /\ UNCHANGED <<mIsBusy, complete, ageVars, mWaitingList, eventVars, mListMutex,
                   doomed, pc, callVars, err>>

\* The holder forks: a child of its transaction, for the same request, is
\* linked (it inherits the busy mark) and added.
linkChild(p) ==
    /\ At(p, "hold") /\ mListMutex = NULL
    /\ \E t \in OneOf(NewObjects \cap SameMethod(tx[p])) :
         /\ mTransactions' = mTransactions \cup {t}
         /\ parent' = [parent EXCEPT ![t] = tx[p]]
         /\ mIsBusy' = [mIsBusy EXCEPT ![t] = mIsBusy[tx[p]]]
         /\ unused' = [unused EXCEPT ![t] = IF complete[Top(tx[p])] THEN OLDEST ELSE 0]
    /\ UNCHANGED <<complete, age, mWaitingList, eventVars, mListMutex, doomed,
                   pc, callVars, err>>

\* The message or timer event that is being handled completes the transaction.
completeTransaction(p) ==
    /\ At(p, "hold") /\ ~complete[tx[p]]
    /\ complete' = [complete EXCEPT ![tx[p]] = TRUE]
    /\ UNCHANGED <<mTransactions, parent, mIsBusy, ageVars, mWaitingList,
                   eventVars, mListMutex, doomed, pc, callVars, err>>

\* A message matches transaction t: take its tree, or go and wait for it.
findTransactionFor(p) ==
    /\ At(p, "idle") /\ mListMutex = NULL
    /\ \E t \in mTransactions :
         /\ tx' = [tx EXCEPT ![p] = t]
         /\ \/ /\ ~mIsBusy[t]
               /\ markBusy(t)
               /\ Goto(p, "hold")
            \/ /\ mIsBusy[t]
               /\ Goto(p, "retry")
               /\ UNCHANGED mIsBusy
    /\ UNCHANGED <<mTransactions, parent, complete, ageVars, mWaitingList,
                   eventVars, mListMutex, doomed, ev, waitTime, waitStatus, err>>

-----------------------------------------------------------------------------
\* An address that holds no event and that nobody still points to.
FreeAddresses ==
    {e \in setting.events \ allocated :
        /\ \A p \in Procs : ev[p] # e
        /\ \A t \in Transactions : e \notin Range(mWaitingList[t])}

\* Variant: the event is put on the list of the transaction itself.
notifyWhenAvailableHere(t, e) ==
    mWaitingList' = [mWaitingList EXCEPT ![t] = Append(@, e)]

notifyWhenAvailable(t, e) ==
    mWaitingList' = [mWaitingList EXCEPT ![Top(t)] = Append(@, e)]

\* One round of waitUntilAvailable, under mListMutex: the transaction is gone,
\* or free and taken, or busy and waited for with a new event.
waitUntilAvailable(p) ==
    /\ At(p, "retry") /\ mListMutex = NULL
    /\ LET t == tx[p] IN
       \/ /\ t \notin mTransactions
          /\ tx' = [tx EXCEPT ![p] = NULL]
          /\ Goto(p, "idle")
          /\ UNCHANGED <<mIsBusy, mWaitingList, eventVars, ev>>
       \/ /\ t \in mTransactions /\ ~mIsBusy[t]
          /\ markBusy(t)
          /\ Goto(p, "hold")
          /\ UNCHANGED <<mWaitingList, eventVars, tx, ev>>
       \/ /\ t \in mTransactions /\ mIsBusy[t]
          /\ \E e \in OneOf(FreeAddresses) :
               /\ allocated' = allocated \cup {e}
               /\ notifyWhenAvailable(t, e)
               /\ ev' = [ev EXCEPT ![p] = e]
          /\ Goto(p, "wait")
          /\ UNCHANGED <<mIsBusy, tx, mIsSignaled, mSignalSem>>
    /\ UNCHANGED <<mTransactions, parent, complete, ageVars, mListMutex,
                   doomed, waitTime, waitStatus, err>>

\* waitEvent->wait(transBusyTimeout) is answered by the semaphore.
waitSignaled(p) ==
    /\ At(p, "wait") /\ mSignalSem[ev[p]] = 1
    /\ mSignalSem' = [mSignalSem EXCEPT ![ev[p]] = 0]
    /\ waitTime' = [waitTime EXCEPT ![p] = @ + 1]
    /\ waitStatus' = [waitStatus EXCEPT ![p] = TRUE]
    /\ Goto(p, "test")
    /\ UNCHANGED <<treeVars, ageVars, mWaitingList, allocated, mIsSignaled,
                   mListMutex, doomed, tx, ev, err>>

\* Or it times out: twice, and the thread gives up. The answer of a timed wait
\* is decided before the mutex of the semaphore is taken back, so it may be a
\* timeout although the semaphore has just been posted.
waitTimedOut(p) ==
    /\ setting.overruns
    /\ At(p, "wait")
    /\ waitTime' = [waitTime EXCEPT ![p] = @ + 1]
    /\ waitStatus' = [waitStatus EXCEPT ![p] = FALSE]
    /\ Goto(p, IF waitTime[p] + 1 < 2 THEN "wait" ELSE "test")
    /\ UNCHANGED <<treeVars, ageVars, mWaitingList, eventVars, mListMutex, doomed,
                   tx, ev, err>>

\* Where OsEvent::signal returns to: the collector, the thread in
\* markAvailable (which still has mListMutex), or the waiter.
Return(p) ==
    IF p = GC THEN Goto(p, "sweep") /\ UNCHANGED mListMutex
    ELSE IF mListMutex = p THEN Goto(p, "idle") /\ mListMutex' = NULL
    ELSE Goto(p, "after") /\ UNCHANGED mListMutex

UNCHANGED_BY_SIGNAL ==
    UNCHANGED <<treeVars, ageVars, mWaitingList, doomed, tx, waitTime, waitStatus>>

\* Variant: nobody deletes an event that was already signaled.
signalTestKeep(p) ==
    /\ At(p, "test")
    /\ IF ev[p] \notin allocated
       THEN err' = "event" /\ UNCHANGED <<mListMutex, pc, ev>>
       ELSE /\ IF mIsSignaled[ev[p]]
               THEN ev' = [ev EXCEPT ![p] = NULL] /\ Return(p)
               ELSE Goto(p, "set") /\ UNCHANGED <<mListMutex, ev>>
            /\ UNCHANGED err
    /\ UNCHANGED <<mSignalSem, mIsSignaled, allocated>>
    /\ UNCHANGED_BY_SIGNAL

\* signal: OS_ALREADY_SIGNALED makes each of its callers delete the event.
signalTest(p) ==
    /\ At(p, "test")
    /\ IF ev[p] \notin allocated
       THEN err' = "event" /\ UNCHANGED <<mListMutex, pc, ev, eventVars>>
       ELSE /\ IF mIsSignaled[ev[p]]
               THEN /\ allocated' = allocated \ {ev[p]}
                    /\ mIsSignaled' = [mIsSignaled EXCEPT ![ev[p]] = FALSE]
                    /\ mSignalSem' = [mSignalSem EXCEPT ![ev[p]] = 0]
                    /\ ev' = [ev EXCEPT ![p] = NULL]
                    /\ Return(p)
               ELSE Goto(p, "set") /\ UNCHANGED <<mListMutex, ev, eventVars>>
            /\ UNCHANGED err
    /\ UNCHANGED_BY_SIGNAL

signalSet(p) ==
    /\ At(p, "set")
    /\ IF ev[p] \notin allocated
       THEN err' = "event" /\ UNCHANGED <<mIsSignaled, pc>>
       ELSE /\ mIsSignaled' = [mIsSignaled EXCEPT ![ev[p]] = TRUE]
            /\ Goto(p, "post")
            /\ UNCHANGED err
    /\ UNCHANGED <<allocated, mSignalSem, mListMutex, ev>>
    /\ UNCHANGED_BY_SIGNAL

\* mSignalSem.release() fails on a full semaphore, and the assert with it.
signalPost(p) ==
    /\ At(p, "post")
    /\ CASE ev[p] \notin allocated ->
              err' = "event" /\ UNCHANGED <<mSignalSem, mListMutex, pc, ev>>
         [] ev[p] \in allocated /\ mSignalSem[ev[p]] = 1 ->
              err' = "assert" /\ UNCHANGED <<mSignalSem, mListMutex, pc, ev>>
         [] OTHER ->
              /\ mSignalSem' = [mSignalSem EXCEPT ![ev[p]] = 1]
              /\ ev' = [ev EXCEPT ![p] = NULL]
              /\ Return(p)
              /\ UNCHANGED err
    /\ UNCHANGED <<allocated, mIsSignaled>>
    /\ UNCHANGED_BY_SIGNAL

\* Variant: the count of waits is not reset between rounds.
waitDoneNoReset(p) ==
    /\ At(p, "after")
    /\ IF waitStatus[p]
       THEN Goto(p, "retry") /\ UNCHANGED tx
       ELSE Goto(p, "idle") /\ tx' = [tx EXCEPT ![p] = NULL]
    /\ UNCHANGED <<treeVars, ageVars, mWaitingList, eventVars, mListMutex, doomed,
                   ev, waitTime, waitStatus, err>>

\* The rest of the round: a thread that waited twice writes the transaction
\* tree to the log, without mListMutex; one that gave up returns FALSE.
waitDone(p) ==
    /\ At(p, "after")
    /\ IF waitTime[p] > 1 /\ tx[p] \notin mTransactions
       THEN err' = "transaction" /\ UNCHANGED <<tx, pc, waitTime, waitStatus>>
       ELSE /\ IF waitStatus[p]
               THEN Goto(p, "retry") /\ UNCHANGED tx
               ELSE Goto(p, "idle") /\ tx' = [tx EXCEPT ![p] = NULL]
            /\ waitTime' = [waitTime EXCEPT ![p] = 0]
            /\ waitStatus' = [waitStatus EXCEPT ![p] = FALSE]
            /\ UNCHANGED err
    /\ UNCHANGED <<treeVars, ageVars, mWaitingList, eventVars, mListMutex, doomed,
                   ev>>

-----------------------------------------------------------------------------
\* Variant: the waiting threads are not told.
signalNextAvailableNone(p, t) ==
    Goto(p, "idle") /\ UNCHANGED <<mWaitingList, ev, mListMutex>>

\* Variant: the event stays in the list.
signalNextAvailableKeep(p, t) ==
    IF mWaitingList[t] = <<>>
    THEN Goto(p, "idle") /\ UNCHANGED <<mWaitingList, ev, mListMutex>>
    ELSE /\ ev' = [ev EXCEPT ![p] = Head(mWaitingList[t])]
         /\ mListMutex' = p
         /\ Goto(p, "test")
         /\ UNCHANGED mWaitingList

\* The first event waiting at top most parent t is removed and signaled.
signalNextAvailable(p, t) ==
    IF mWaitingList[t] = <<>>
    THEN Goto(p, "idle") /\ UNCHANGED <<mWaitingList, ev, mListMutex>>
    ELSE /\ mWaitingList' = [mWaitingList EXCEPT ![t] = Tail(@)]
         /\ ev' = [ev EXCEPT ![p] = Head(mWaitingList[t])]
         /\ mListMutex' = p
         /\ Goto(p, "test")

\* markAvailable: touch, clear the busy mark of the tree, wake one waiter.
markAvailable(p) ==
    /\ At(p, "hold") /\ mListMutex = NULL
    /\ LET t == Top(tx[p]) IN
         /\ touch(t)
         /\ mIsBusy' = [s \in Transactions |-> mIsBusy[s] /\ s \notin Tree(t)]
         /\ signalNextAvailable(p, t)
    /\ tx' = [tx EXCEPT ![p] = NULL]
    /\ UNCHANGED <<mTransactions, parent, complete, eventVars, doomed,
                   waitTime, waitStatus, err>>

-----------------------------------------------------------------------------
Lifetime(t) == IF t \in setting.invites THEN INVITE_LIFETIME ELSE LIFETIME
Children(t) == {s \in mTransactions : parent[s] = t}

\* A complete INVITE without a parent, past COMPLETE_LIFETIME, goes with all
\* its children unless one is busy.
Finished(t) ==
    /\ t \in setting.invites /\ complete[t] /\ parent[t] = NULL
    /\ age[t] > COMPLETE_LIFETIME
    /\ \A s \in Children(t) : ~mIsBusy[s]

TransactionsToBeDeleted ==
    LET old  == {t \in mTransactions : ~mIsBusy[t] /\ age[t] > Lifetime(t)}
        done == {t \in mTransactions : ~mIsBusy[t] /\ Finished(t)}
    IN  old \cup done \cup UNION {Children(t) : t \in done}

\* removeOldTransactions takes mListMutex and chooses.
removeOldTransactions ==
    /\ At(GC, "idle") /\ mListMutex = NULL
    /\ TransactionsToBeDeleted # {}
    /\ doomed' = TransactionsToBeDeleted
    /\ mListMutex' = GC
    /\ Goto(GC, "sweep")
    /\ UNCHANGED <<treeVars, ageVars, mWaitingList, eventVars, callVars, err>>

\* signalAllAvailable for each of them: all events at its top most parent.
signalAllAvailable ==
    /\ At(GC, "sweep")
    /\ \E t \in {Top(s) : s \in doomed} :
         /\ mWaitingList[t] # <<>>
         /\ mWaitingList' = [mWaitingList EXCEPT ![t] = Tail(@)]
         /\ ev' = [ev EXCEPT ![GC] = Head(mWaitingList[t])]
    /\ Goto(GC, "test")
    /\ UNCHANGED <<treeVars, ageVars, eventVars, mListMutex, doomed, tx, waitTime,
                   waitStatus, err>>

\* The links that remain: ~SipTransaction cuts those to the parent and to the
\* children.
RemainingLinks ==
    [t \in Transactions |-> IF t \in doomed \/ parent[t] \in doomed THEN NULL ELSE parent[t]]

\* Then they are removed and deleted. (What is cut off may come under a
\* complete top.)
deleteTransactions ==
    /\ At(GC, "sweep")
    /\ \A s \in doomed : mWaitingList[Top(s)] = <<>>
    /\ mTransactions' = mTransactions \ doomed
    /\ complete' = [t \in Transactions |-> complete[t] /\ t \notin doomed]
    /\ age' = [t \in Transactions |-> IF t \in doomed THEN 0 ELSE age[t]]
    /\ parent' = RemainingLinks
    /\ LET top(t) == TopMost(RemainingLinks, t)
       IN  unused' = [t \in Transactions |->
                        IF t \in doomed THEN 0
                        ELSE IF top(t) # Top(t) /\ complete[top(t)] THEN OLDEST
                        ELSE unused[t]]
    /\ mListMutex' = NULL
    /\ doomed' = {}
    /\ Goto(GC, "idle")
    /\ UNCHANGED <<mIsBusy, mWaitingList, eventVars, callVars, err>>

\* A second passes.
Tick ==
    /\ err = "none"
    /\ \E t \in mTransactions : age[t] < OLDEST \/ unused[t] < OLDEST
    /\ LET older(f) == [t \in Transactions |->
                          IF t \in mTransactions /\ f[t] < OLDEST THEN f[t] + 1 ELSE f[t]]
       IN  age' = older(age) /\ unused' = older(unused)
    /\ UNCHANGED <<treeVars, mWaitingList, eventVars, mListMutex, doomed, pc,
                   callVars, err>>

-----------------------------------------------------------------------------
\* The steps of a thread that is inside an operation or handling a message.
Progress(p) ==
    /\ UNCHANGED setting
    /\ \/ waitUntilAvailable(p) \/ waitSignaled(p) \/ signalTest(p) \/ signalSet(p)
       \/ signalPost(p) \/ waitDone(p) \/ markAvailable(p)

Collect ==
    /\ UNCHANGED setting
    /\ \/ removeOldTransactions \/ signalAllAvailable \/ deleteTransactions
       \/ signalTest(GC) \/ signalSet(GC) \/ signalPost(GC)

Next ==
    \/ \E p \in setting.threads :
         \/ Progress(p)
         \/ /\ UNCHANGED setting
            /\ \/ newTransaction(p) \/ linkChild(p) \/ completeTransaction(p)
               \/ findTransactionFor(p) \/ waitTimedOut(p)
    \/ Collect
    \/ UNCHANGED setting /\ Tick

Spec == Init /\ [][Next]_vars

\* Handlers return, waiting threads and the collector are scheduled, and a
\* thread that asks for mListMutex is not passed over for ever.
FairSpec ==
    /\ Spec
    /\ WF_vars(Collect)
    /\ \A p \in Threads : SF_vars(Progress(p))

-----------------------------------------------------------------------------
Held == {p \in Threads : pc[p] = "hold"}
Waiting == {p \in Threads : pc[p] = "wait"}

TypeOK ==
    /\ setting \in Settings
    /\ mTransactions \subseteq Transactions
    /\ parent \in [Transactions -> Transactions \cup {NULL}]
    /\ mIsBusy \in [Transactions -> BOOLEAN]
    /\ complete \in [Transactions -> BOOLEAN]
    /\ age \in [Transactions -> 0..OLDEST]
    /\ unused \in [Transactions -> 0..OLDEST]
    /\ \A t \in Transactions : Range(mWaitingList[t]) \subseteq Events
    /\ allocated \subseteq Events
    /\ mIsSignaled \in [Events -> BOOLEAN]
    /\ mSignalSem \in [Events -> 0..1]
    /\ mListMutex \in Procs \cup {NULL}
    /\ doomed \subseteq mTransactions
    /\ pc \in [Procs -> {"idle", "hold", "retry", "wait", "test", "set", "post",
                         "after", "sweep"}]
    /\ tx \in [Threads -> Transactions \cup {NULL}]
    /\ ev \in [Procs -> Events \cup {NULL}]
    /\ waitTime \in [Threads -> 0..2]
    /\ waitStatus \in [Threads -> BOOLEAN]
    /\ err \in {"none", "event", "assert", "transaction"}

\* A transaction tree is busy exactly while a thread handles it, and one at
\* most does, also while the tree grows under linkChild and is cut by the
\* collector, which never deletes a transaction that a thread handles.
OneHolder ==
    /\ \A p \in Held : tx[p] \in mTransactions
    /\ \A p, q \in Held : p # q => Top(tx[p]) # Top(tx[q])
    /\ \A t \in mTransactions : mIsBusy[t] <=> \E p \in Held : Top(tx[p]) = Top(t)

\* Of the two sides of an event one frees it: an event that exists is still
\* known to a waiting list or to a thread.
EventOwned ==
    \A e \in allocated :
        \/ \E p \in Procs : ev[p] = e
        \/ \E t \in mTransactions : e \in Range(mWaitingList[t])

\* "Note only a parent tx should have a waiting list" (SipTransaction.h): no
\* event waits where markAvailable does not look, below the top of a tree or
\* at a deleted transaction.
WaitersAtTheTop ==
    \A t \in Transactions :
        mWaitingList[t] # <<>> => t \in mTransactions /\ parent[t] = NULL

\* "The given event is signaled when this transaction is not busy"
\* (SipTransaction.h): while a thread waits for a signal, its tree is busy, or
\* a release or a collection is signaling, or a thread that was woken is on
\* its way to take the tree. (While no wait times out.)
NoLostWakeup ==
    ~setting.overruns => \A p \in Waiting :
        err = "none" /\ mSignalSem[ev[p]] = 0 =>
            \/ mListMutex # NULL
            \/ tx[p] \in mTransactions /\ mIsBusy[tx[p]]
            \/ \E q \in Threads \ {p} :
                 /\ tx[q] # NULL /\ Top(tx[q]) = Top(tx[p])
                 /\ \/ pc[q] = "wait" /\ mSignalSem[ev[q]] = 1
                    \/ pc[q] \in {"retry", "test", "set", "post", "after"}

\* With every tree released before the waits time out, the event of a waiter
\* is used by one side at a time: no assert, no use after delete.
NoError == ~setting.overruns => err = "none"

\* What touch is for: a transaction in progress, at or below one in progress,
\* is collected only when its tree has not been used for its lifetime.
CollectedWhenStale ==
    [][\A t \in mTransactions \ mTransactions' :
          ~complete[t] /\ ~complete[Top(t)] => unused[t] > Lifetime(t)]_vars

\* What waitUntilAvailable needs from markAvailable and from the collector: a
\* thread whose tree is released in time does not wait on its event for ever.
WaitOfEnds(p) == pc[p] = "wait" /\ ~setting.overruns ~> pc[p] # "wait"
=============================================================================
