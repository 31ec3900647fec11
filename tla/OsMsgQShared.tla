---------------------------- MODULE OsMsgQShared ----------------------------
(***************************************************************************)
(* The message queue of a task (os/shared/OsMsgQShared.cpp and .h): a      *)
(* std::queue between two counting semaphores, `empty' for the free places *)
(* and `full' for the messages, each made of a mutex, a count and one      *)
(* condition variable.                                                     *)
(*                                                                         *)
(* pc[p] is where thread p stands:                                         *)
(*   out          in no operation of the queue                             *)
(*   waitEmpty    in _empty->wait, before or in the loop on _count         *)
(*   push         about to push under _cs                                  *)
(*   signalFull   in _full->signal                                         *)
(*   waitFull, pop, signalEmpty   the same three of a receiver             *)
(*   aborted      front() of an empty queue, or its assert                 *)
(* A thread in condition[s] sleeps in the condition variable of semaphore  *)
(* s. A critical section of a semaphore's mutex, up to the point where it  *)
(* goes to sleep, is one step.                                             *)
(***************************************************************************)
EXTENDS Naturals, Sequences, FiniteSets

CONSTANTS
    Threads,
    Messages,
    NULL,
    mMaxMsgs

ASSUME CapacityIsPositive == mMaxMsgs \in Nat \ {0}
ASSUME FinitelyManyThreads == IsFiniteSet(Threads)
ASSUME NullIsNoMessage == NULL \notin Messages

VARIABLES
    queuePreference,     \* QUEUE_LIMITED or QUEUE_UNLIMITED, for good
    count,               \* _count of each semaphore
    condition,           \* who sleeps in _condition of each semaphore
    queue,
    pc,
    data,                \* the message a thread sends, or received if any came
    timed                \* rTimeout is not infinite

semVars == <<count, condition>>
queueVars == <<queuePreference, semVars, queue, pc, data, timed>>

Semaphores == {"empty", "full"}
Places == {"out", "waitEmpty", "push", "signalFull", "waitFull", "pop", "signalEmpty", "aborted"}
Limited == queuePreference = "QUEUE_LIMITED"

\* Without a limit there is no _empty, and the maximum of _full is 2^32 - 1.
Init ==
    /\ queuePreference \in {"QUEUE_LIMITED", "QUEUE_UNLIMITED"}
    /\ count = [s \in Semaphores |-> IF s = "empty" /\ Limited THEN mMaxMsgs ELSE 0]
    /\ condition = [s \in Semaphores |-> {}]
    /\ queue = <<>>
    /\ pc = [p \in Threads |-> "out"]
    /\ data = [p \in Threads |-> NULL]
    /\ timed = [p \in Threads |-> FALSE]

Goto(p, place) == pc' = [pc EXCEPT ![p] = place]
Sem(p) == IF pc[p] \in {"waitEmpty", "signalEmpty"} THEN "empty" ELSE "full"
Asleep(p) == p \in condition[Sem(p)]

\* send and doSend: a copy of the message is made and handed to doSendCore.
send(p, m, t) ==
    /\ pc[p] = "out" /\ data[p] = NULL
    /\ Goto(p, IF Limited THEN "waitEmpty" ELSE "push")
    /\ data' = [data EXCEPT ![p] = m]
    /\ timed' = [timed EXCEPT ![p] = t]
    /\ UNCHANGED <<queuePreference, semVars, queue>>

receive(p, t) ==
    /\ pc[p] = "out" /\ data[p] = NULL
    /\ Goto(p, "waitFull")
    /\ timed' = [timed EXCEPT ![p] = t]
    /\ UNCHANGED <<queuePreference, semVars, queue, data>>

\* The receiver is done with its message.
releaseMsg(p) ==
    /\ pc[p] = "out" /\ data[p] # NULL
    /\ data' = [data EXCEPT ![p] = NULL]
    /\ UNCHANGED <<queuePreference, semVars, queue, pc, timed>>

-----------------------------------------------------------------------------
\* Semaphore::wait, each time round its loop.
wait(p) ==
    /\ pc[p] \in {"waitEmpty", "waitFull"} /\ ~Asleep(p)
    /\ IF count[Sem(p)] = 0
       THEN /\ condition' = [condition EXCEPT ![Sem(p)] = @ \cup {p}]
            /\ UNCHANGED <<count, pc, timed>>
       ELSE /\ count' = [count EXCEPT ![Sem(p)] = @ - 1]
            /\ Goto(p, IF pc[p] = "waitEmpty" THEN "push" ELSE "pop")
            /\ timed' = [timed EXCEPT ![p] = FALSE]
            /\ UNCHANGED condition
    /\ UNCHANGED <<queuePreference, queue, data>>

\* Variant: a send that has timed out puts its message into the queue.
timeOutPush(p) ==
    /\ pc[p] \in {"waitEmpty", "waitFull"} /\ Asleep(p) /\ timed[p]
    /\ condition' = [condition EXCEPT ![Sem(p)] = @ \ {p}]
    /\ Goto(p, IF pc[p] = "waitEmpty" THEN "push" ELSE "out")
    /\ UNCHANGED <<queuePreference, count, queue, data, timed>>

\* timed_wait ends without a notification. A send gives its copy up.
timeOut(p) ==
    /\ pc[p] \in {"waitEmpty", "waitFull"} /\ Asleep(p) /\ timed[p]
    /\ condition' = [condition EXCEPT ![Sem(p)] = @ \ {p}]
    /\ Goto(p, "out")
    /\ data' = [data EXCEPT ![p] = NULL]
    /\ timed' = [timed EXCEPT ![p] = FALSE]
    /\ UNCHANGED <<queuePreference, count, queue>>

\* A condition variable may wake a thread that nobody has notified.
wakeUp(p) ==
    /\ Asleep(p)
    /\ condition' = [condition EXCEPT ![Sem(p)] = @ \ {p}]
    /\ UNCHANGED <<queuePreference, count, queue, pc, data, timed>>

push(p) ==
    /\ pc[p] = "push"
    /\ queue' = Append(queue, data[p])
    /\ data' = [data EXCEPT ![p] = NULL]
    /\ Goto(p, "signalFull")
    /\ UNCHANGED <<queuePreference, semVars, timed>>

\* Variant: the place of the message is not given back.
popKeep(p) ==
    /\ pc[p] = "pop" /\ queue # <<>>
    /\ data' = [data EXCEPT ![p] = Head(queue)]
    /\ queue' = Tail(queue)
    /\ Goto(p, "out")
    /\ UNCHANGED <<queuePreference, semVars, timed>>

\* front() of an empty queue is undefined, and a null message is asserted against.
pop(p) ==
    /\ pc[p] = "pop"
    /\ IF queue = <<>>
       THEN Goto(p, "aborted") /\ UNCHANGED <<queue, data>>
       ELSE /\ data' = [data EXCEPT ![p] = Head(queue)]
            /\ queue' = Tail(queue)
            /\ Goto(p, IF Limited THEN "signalEmpty" ELSE "out")
    /\ UNCHANGED <<queuePreference, semVars, timed>>

\* Without a limit the maximum, 2^32 - 1, is out of reach.
AtMaximum(s) == Limited /\ count[s] >= mMaxMsgs

\* Variant: nobody is told of a count that was 0.
notifySilent(s) ==
    IF condition[s] = {} \/ count[s] = 0 THEN UNCHANGED condition
    ELSE \E q \in condition[s] : condition' = [condition EXCEPT ![s] = @ \ {q}]

\* notify_one wakes any one of the sleepers.
notify_one(s) ==
    IF condition[s] = {} THEN UNCHANGED condition
    ELSE \E q \in condition[s] : condition' = [condition EXCEPT ![s] = @ \ {q}]

\* Semaphore::signal: it sleeps while the count is at its maximum, in the
\* condition variable of those that wait for the count to rise.
signal(p) ==
    /\ pc[p] \in {"signalFull", "signalEmpty"} /\ ~Asleep(p)
    /\ IF AtMaximum(Sem(p))
       THEN /\ condition' = [condition EXCEPT ![Sem(p)] = @ \cup {p}]
            /\ UNCHANGED <<count, pc>>
       ELSE /\ count' = [count EXCEPT ![Sem(p)] = @ + 1]
            /\ notify_one(Sem(p))
            /\ Goto(p, "out")
    /\ UNCHANGED <<queuePreference, queue, data, timed>>

-----------------------------------------------------------------------------
\* The steps of a thread that is inside an operation and need not sleep.
Proceed(p) == wait(p) \/ push(p) \/ pop(p) \/ signal(p)

Next ==
    \E p \in Threads :
        \/ \E m \in Messages, t \in BOOLEAN : send(p, m, t)
        \/ \E t \in BOOLEAN : receive(p, t)
        \/ releaseMsg(p)
        \/ Proceed(p) \/ timeOut(p) \/ wakeUp(p)

Spec == Init /\ [][Next]_queueVars

-----------------------------------------------------------------------------
At(place) == {p \in Threads : pc[p] = place}

QueueTypeOK ==
    /\ queuePreference \in {"QUEUE_LIMITED", "QUEUE_UNLIMITED"}
    /\ count \in [Semaphores -> Nat]
    /\ condition \in [Semaphores -> SUBSET Threads]
    /\ queue \in Seq(Messages)
    /\ pc \in [Threads -> Places]
    /\ data \in [Threads -> Messages \cup {NULL}]
    /\ timed \in [Threads -> BOOLEAN]

\* The semaphores and the queue add up: each message in the queue is counted
\* by `full', or about to be, or promised to a receiver; each place is counted
\* by `empty', promised to a sender, taken, or about to be given back. So the
\* queue keeps its limit, front() finds a message, and signal never sleeps.
Accounting ==
    /\ Len(queue) = count["full"] + Cardinality(At("signalFull")) + Cardinality(At("pop"))
    /\ Limited => mMaxMsgs = count["empty"] + Cardinality(At("push"))
                             + Len(queue) + Cardinality(At("signalEmpty"))
    /\ At("aborted") = {}

\* Whatever a semaphore with count n has to give while threads sleep is on its
\* way to those of the waiting threads that are awake.
Covered(n, sleeping, waiting) ==
    /\ sleeping \subseteq waiting
    /\ sleeping # {} => n <= Cardinality(waiting \ sleeping)

\* "Otherwise, we might not wake up enough waiting threads" (OsMsgQShared.h):
\* no thread sleeps while there is something for it that no other thread is
\* about to take, and nobody sleeps in signal.
NoneOverslept ==
    /\ Covered(count["empty"], condition["empty"], At("waitEmpty"))
    /\ Covered(count["full"], condition["full"], At("waitFull"))
=============================================================================
