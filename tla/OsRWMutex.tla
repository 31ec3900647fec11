----------------------------- MODULE OsRWMutex -----------------------------
(***************************************************************************)
(* The readers/writer lock of the portability layer (os/OsRWMutex.cpp).    *)
(*                                                                         *)
(* Every critical section guarded by mGuard performs no blocking call, so  *)
(* each is one step, except tryAcquireWrite, which takes its ticket inside *)
(* the section and could lose it to a thread blocked on mWriteSem: there   *)
(* the guard is held from one step to the next.                            *)
(*                                                                         *)
(* pc[t] is where thread t stands:                                         *)
(*   idle     holds nothing, may call any operation                        *)
(*   rwait    in doAcquireRead, about to take a ticket from mReadSem       *)
(*   rtry     the same, inside tryAcquireRead                              *)
(*   reading  acquireRead has returned                                     *)
(*   wwait    in doAcquireWrite, about to take a ticket from mWriteSem     *)
(*   wtry     in tryAcquireWrite, holding mGuard, tickets granted          *)
(*   wexcl    ticket taken, about to take mWriteExclSem                    *)
(*   wexcltry the same, inside tryAcquireWrite                             *)
(*   writing  acquireWrite or tryAcquireWrite has returned OS_SUCCESS      *)
(*   wrel     in releaseWrite, mWriteExclSem released                      *)
(*   aborted  an assert of the code failed                                 *)
(***************************************************************************)
EXTENDS Integers, FiniteSets

CONSTANTS
    Threads,            \* the tasks sharing the lock
    SEMAPHORE_CNT_MAX   \* largest count of mReadSem and of mWriteSem

ASSUME ThreadsFinite == IsFiniteSet(Threads)
\* The comment on SEMAPHORE_CNT_MAX: "upper bound on the number of
\* simultaneous readers or writers".
ASSUME CountMaxAssumption ==
    SEMAPHORE_CNT_MAX \in Nat /\ Cardinality(Threads) <= SEMAPHORE_CNT_MAX

VARIABLES
    mGuard,             \* binary semaphore: 1 when the critical section is free
    mReadSem,           \* count of mReadSem: read tickets not yet taken
    mWriteSem,          \* count of mWriteSem: write tickets not yet taken
    mWriteExclSem,      \* binary semaphore: 1 when no writer holds it
    mActiveReadersCnt,
    mActiveWritersCnt,
    mRunningReadersCnt,
    mRunningWritersCnt,
    pc,
    tried               \* history: tryAcquireWrite has passed its test once

vars == <<mGuard, mReadSem, mWriteSem, mWriteExclSem, mActiveReadersCnt,
          mActiveWritersCnt, mRunningReadersCnt, mRunningWritersCnt, pc,
          tried>>

readVars  == <<mReadSem, mActiveReadersCnt, mRunningReadersCnt>>
writeVars == <<mWriteSem, mActiveWritersCnt, mRunningWritersCnt>>

Places == {"idle", "rwait", "rtry", "reading", "wwait", "wtry", "wexcl",
           "wexcltry", "writing", "wrel", "aborted"}

Init ==
    /\ mGuard = 1
    /\ mReadSem = 0
    /\ mWriteSem = 0
    /\ mWriteExclSem = 1
    /\ mActiveReadersCnt = 0
    /\ mActiveWritersCnt = 0
    /\ mRunningReadersCnt = 0
    /\ mRunningWritersCnt = 0
    /\ pc = [t \in Threads |-> "idle"]
    /\ tried = FALSE

At(t, place) == pc[t] = place
Goto(t, place) == pc' = [pc EXCEPT ![t] = place]

\* n releases of a counting semaphore: a release at the maximum fails, and
\* the code that grants tickets does not look at the result.
Released(sem, n) ==
    IF sem + n <= SEMAPHORE_CNT_MAX THEN sem + n ELSE SEMAPHORE_CNT_MAX

\* Variants used to show that the properties can fail: a grant that forgets
\* to look at the other side.
grantReadTicketsUnchecked(active, running, writers) ==
    /\ mRunningReadersCnt' = active
    /\ mReadSem' = Released(mReadSem, active - running)

\* With `active' readers and `writers' active writers, issue the tickets of
\* all active readers that are not running, if no writer is active.
grantReadTickets(active, running, writers) ==
    IF writers = 0 /\ running < active
    THEN /\ mRunningReadersCnt' = active
         /\ mReadSem' = Released(mReadSem, active - running)
    ELSE /\ mRunningReadersCnt' = running
         /\ mReadSem' = mReadSem

grantWriteTicketsUnchecked(active, running, readers) ==
    /\ mRunningWritersCnt' = active
    /\ mWriteSem' = Released(mWriteSem, active - running)

\* With `readers' running readers, the same for the writers.
grantWriteTickets(active, running, readers) ==
    IF readers = 0 /\ running < active
    THEN /\ mRunningWritersCnt' = active
         /\ mWriteSem' = Released(mWriteSem, active - running)
    ELSE /\ mRunningWritersCnt' = running
         /\ mWriteSem' = mWriteSem

-----------------------------------------------------------------------------
\* doAcquireRead(FALSE) up to the wait for a ticket.
acquireRead(t) ==
    /\ At(t, "idle")
    /\ mGuard = 1
    /\ mActiveReadersCnt' = mActiveReadersCnt + 1
    /\ grantReadTickets(mActiveReadersCnt + 1, mRunningReadersCnt, mActiveWritersCnt)
    /\ Goto(t, "rwait")
    /\ UNCHANGED <<mGuard, mWriteExclSem, writeVars>>

\* doAcquireRead(TRUE): OS_BUSY when a writer is active (the thread stays idle
\* and nothing changes), otherwise as acquireRead.
tryAcquireRead(t) ==
    /\ At(t, "idle")
    /\ mGuard = 1
    /\ mActiveWritersCnt = 0
    /\ mActiveReadersCnt' = mActiveReadersCnt + 1
    /\ grantReadTickets(mActiveReadersCnt + 1, mRunningReadersCnt, mActiveWritersCnt)
    /\ Goto(t, "rtry")
    /\ UNCHANGED <<mGuard, mWriteExclSem, writeVars>>

\* mReadSem.acquire() returns.
takeReadTicket(t) ==
    /\ At(t, "rwait") \/ At(t, "rtry")
    /\ mReadSem > 0
    /\ mReadSem' = mReadSem - 1
    /\ Goto(t, "reading")
    /\ UNCHANGED <<mGuard, mWriteExclSem, writeVars,
                   mActiveReadersCnt, mRunningReadersCnt>>

\* Variant: a reader that leaves without serving the waiting writers.
releaseReadNoGrant(t) ==
    /\ At(t, "reading")
    /\ mGuard = 1
    /\ mRunningReadersCnt' = mRunningReadersCnt - 1
    /\ mActiveReadersCnt' = mActiveReadersCnt - 1
    /\ Goto(t, "idle")
    /\ UNCHANGED <<mGuard, mWriteExclSem, mReadSem, writeVars>>

\* Variant: the counters decremented twice.
releaseReadTwice(t) ==
    /\ At(t, "reading")
    /\ mGuard = 1
    /\ mRunningReadersCnt' = mRunningReadersCnt - 2
    /\ mActiveReadersCnt' = mActiveReadersCnt - 2
    /\ Goto(t, "idle")
    /\ UNCHANGED <<mGuard, mWriteExclSem, mReadSem, writeVars>>

\* releaseRead with doReleaseRead and the asserts of both.
releaseRead(t) ==
    /\ At(t, "reading")
    /\ mGuard = 1
    /\ IF mRunningReadersCnt > 0 /\ mActiveReadersCnt >= mRunningReadersCnt
       THEN /\ mRunningReadersCnt' = mRunningReadersCnt - 1
            /\ mActiveReadersCnt' = mActiveReadersCnt - 1
            /\ grantWriteTickets(mActiveWritersCnt, mRunningWritersCnt,
                                 mRunningReadersCnt - 1)
            /\ Goto(t, "idle")
            /\ UNCHANGED <<mReadSem, mActiveWritersCnt>>
       ELSE Goto(t, "aborted") /\ UNCHANGED <<readVars, writeVars>>
    /\ UNCHANGED <<mGuard, mWriteExclSem>>

\* doAcquireWrite(FALSE) up to the wait for a ticket.
acquireWrite(t) ==
    /\ At(t, "idle")
    /\ mGuard = 1
    /\ mActiveWritersCnt' = mActiveWritersCnt + 1
    /\ grantWriteTickets(mActiveWritersCnt + 1, mRunningWritersCnt, mRunningReadersCnt)
    /\ Goto(t, "wwait")
    /\ UNCHANGED <<mGuard, mWriteExclSem, readVars>>

\* mWriteSem.acquire() returns.
takeWriteTicket(t) ==
    /\ At(t, "wwait")
    /\ mWriteSem > 0
    /\ mWriteSem' = mWriteSem - 1
    /\ Goto(t, "wexcl")
    /\ UNCHANGED <<mGuard, mWriteExclSem, readVars,
                   mActiveWritersCnt, mRunningWritersCnt>>

\* Variant: tryAcquireWrite tests only for running writers.
tryAcquireWriteWritersOnly(t) ==
    /\ At(t, "idle")
    /\ mGuard = 1
    /\ mRunningWritersCnt = 0
    /\ mGuard' = 0
    /\ mActiveWritersCnt' = mActiveWritersCnt + 1
    /\ grantWriteTickets(mActiveWritersCnt + 1, mRunningWritersCnt, mRunningReadersCnt)
    /\ Goto(t, "wtry")
    /\ UNCHANGED <<mWriteExclSem, readVars>>

\* doAcquireWrite(TRUE) up to mWriteSem.tryAcquire(), with mGuard kept; when
\* readers or writers are running it returns OS_BUSY and nothing changes.
tryAcquireWrite(t) ==
    /\ At(t, "idle")
    /\ mGuard = 1
    /\ mRunningReadersCnt = 0
    /\ mRunningWritersCnt = 0
    /\ mGuard' = 0
    /\ mActiveWritersCnt' = mActiveWritersCnt + 1
    /\ grantWriteTickets(mActiveWritersCnt + 1, mRunningWritersCnt, mRunningReadersCnt)
    /\ Goto(t, "wtry")
    /\ UNCHANGED <<mWriteExclSem, readVars>>

\* mWriteSem.tryAcquire(), or doReleaseNonExclWrite(TRUE) when it is OS_BUSY,
\* and the release of mGuard.
tryWriteTicket(t) ==
    /\ At(t, "wtry")
    /\ mGuard' = 1
    /\ IF mWriteSem > 0
       THEN /\ mWriteSem' = mWriteSem - 1
            /\ Goto(t, "wexcltry")
            /\ UNCHANGED <<readVars, mActiveWritersCnt, mRunningWritersCnt>>
       ELSE /\ mRunningWritersCnt' = mRunningWritersCnt - 1
            /\ mActiveWritersCnt' = mActiveWritersCnt - 1
            /\ grantReadTickets(mActiveReadersCnt, mRunningReadersCnt,
                                mActiveWritersCnt - 1)
            /\ Goto(t, "idle")
            /\ UNCHANGED <<mWriteSem, mActiveReadersCnt>>
    /\ UNCHANGED mWriteExclSem

\* Variant: exclusive access without waiting for the semaphore.
acquireExclWriteNoWait(t) ==
    /\ At(t, "wexcl")
    /\ mWriteExclSem' = 0
    /\ Goto(t, "writing")
    /\ UNCHANGED <<mGuard, readVars, writeVars>>

\* doAcquireExclWrite(FALSE).
acquireExclWrite(t) ==
    /\ At(t, "wexcl")
    /\ mWriteExclSem = 1
    /\ mWriteExclSem' = 0
    /\ Goto(t, "writing")
    /\ UNCHANGED <<mGuard, readVars, writeVars>>

\* doAcquireExclWrite(TRUE) returns OS_SUCCESS whatever tryAcquire() answers,
\* so doAcquireWrite never takes its path for a failure.
tryAcquireExclWrite(t) ==
    /\ At(t, "wexcltry")
    /\ mWriteExclSem' = 0
    /\ Goto(t, "writing")
    /\ UNCHANGED <<mGuard, readVars, writeVars>>

\* releaseWrite: assert(mRunningWritersCnt > 0), then doReleaseExclWrite, which
\* asserts that the semaphore was not full.
releaseExclWrite(t) ==
    /\ At(t, "writing")
    /\ IF mRunningWritersCnt > 0 /\ mWriteExclSem = 0
       THEN mWriteExclSem' = 1 /\ Goto(t, "wrel")
       ELSE Goto(t, "aborted") /\ UNCHANGED mWriteExclSem
    /\ UNCHANGED <<mGuard, readVars, writeVars>>

\* doReleaseNonExclWrite(FALSE).
releaseNonExclWrite(t) ==
    /\ At(t, "wrel")
    /\ mGuard = 1
    /\ IF mRunningWritersCnt > 0 /\ mActiveWritersCnt >= mRunningWritersCnt
       THEN /\ mRunningWritersCnt' = mRunningWritersCnt - 1
            /\ mActiveWritersCnt' = mActiveWritersCnt - 1
            /\ grantReadTickets(mActiveReadersCnt, mRunningReadersCnt,
                                mActiveWritersCnt - 1)
            /\ Goto(t, "idle")
            /\ UNCHANGED <<mWriteSem, mActiveReadersCnt>>
       ELSE Goto(t, "aborted") /\ UNCHANGED <<readVars, writeVars>>
    /\ UNCHANGED <<mGuard, mWriteExclSem>>

\* A failed assert ends the process.
Alive == \A t \in Threads : ~At(t, "aborted")

\* The steps of a call that has begun: the scheduler runs them.
Running(t) ==
    /\ Alive
    /\ UNCHANGED tried
    /\ \/ takeReadTicket(t)
       \/ releaseRead(t)
       \/ takeWriteTicket(t)
       \/ tryWriteTicket(t)
       \/ acquireExclWrite(t)
       \/ tryAcquireExclWrite(t)
       \/ releaseExclWrite(t)
       \/ releaseNonExclWrite(t)

Calling(t) ==
    /\ Alive
    /\ \/ acquireRead(t) /\ UNCHANGED tried
       \/ tryAcquireRead(t) /\ UNCHANGED tried
       \/ acquireWrite(t) /\ UNCHANGED tried
       \/ tryAcquireWrite(t) /\ tried' = TRUE

Next == \E t \in Threads : Running(t) \/ Calling(t)

Spec == Init /\ [][Next]_vars

\* A task that is inside an operation, or holds the lock, is scheduled again;
\* nothing obliges a task to call the lock.
FairSpec == Spec /\ \A t \in Threads : WF_vars(Running(t))

-----------------------------------------------------------------------------
\* The threads that the places pcs put at one of `places'.
Standing(pcs, places) == {t \in Threads : pcs[t] \in places}

ReadWaiting  == Standing(pc, {"rwait", "rtry"})
Reading      == Standing(pc, {"reading"})
WriteWaiting == Standing(pc, {"wwait", "wtry"})
Ticketed     == Standing(pc, {"wexcl", "wexcltry", "writing", "wrel"})
Writing      == Standing(pc, {"writing"})

\* The types of the members of OsRWMutex and of the threads' places.
TypeOK ==
    /\ mGuard \in {0, 1}
    /\ mReadSem \in 0..SEMAPHORE_CNT_MAX
    /\ mWriteSem \in 0..SEMAPHORE_CNT_MAX
    /\ mWriteExclSem \in {0, 1}
    /\ mActiveReadersCnt \in Nat
    /\ mActiveWritersCnt \in Nat
    /\ mRunningReadersCnt \in Nat
    /\ mRunningWritersCnt \in Nat
    /\ pc \in [Threads -> Places]

\* No thread that acquireRead let in overlaps one that acquireWrite let in:
\* "each writer must have exclusive access" (OsRWMutex.cpp, opening comment).
ReadersExcludeWriters == Reading # {} => Ticketed = {}

\* "Only one writer at a time is allowed" (acquireWrite): while no task has used
\* tryAcquireWrite, whose doAcquireExclWrite drops the answer of the semaphore.
OneWriter == ~tried => \A t, u \in Writing : t = u

\* Both: what a caller of the lock relies on (OsRWMutex.cpp, opening comment).
MutualExclusion == ReadersExcludeWriters /\ OneWriter

\* The four counters and the two ticket semaphores account for every thread:
\* no ticket is lost, none is issued twice, and whoever may run has its ticket.
\* Once an assert has failed the process is gone.
TicketAccounting ==
    Alive =>
    /\ mActiveReadersCnt = Cardinality(ReadWaiting) + Cardinality(Reading)
    /\ mRunningReadersCnt = mReadSem + Cardinality(Reading)
    /\ mActiveWritersCnt = Cardinality(WriteWaiting) + Cardinality(Ticketed)
    /\ mRunningWritersCnt = mWriteSem + Cardinality(Ticketed)
    /\ mRunningReadersCnt <= mActiveReadersCnt
    /\ mRunningWritersCnt <= mActiveWritersCnt
    /\ mActiveWritersCnt = 0 => mRunningReadersCnt = mActiveReadersCnt
    /\ mRunningReadersCnt = 0 => mRunningWritersCnt = mActiveWritersCnt

\* The asserts of releaseRead, releaseWrite and their helpers hold while no task
\* has used tryAcquireWrite.
AssertsHold == ~tried => Alive

\* tryAcquireWrite never finds its ticket gone: the path that gives the ticket
\* back inside the critical section (doReleaseNonExclWrite(TRUE)) is not taken.
TryTicketIsThere == \A t \in Threads : pc[t] = "wtry" => mWriteSem > 0

\* While a writer is active no further reader is let in: "When a writer is ready
\* to use the resource, it should be enabled to do so as soon as possible".
WriterPriority ==
    [][mActiveWritersCnt > 0 /\ mActiveWritersCnt' > 0
          => mRunningReadersCnt' <= mRunningReadersCnt]_vars

\* When a thread waits to write, some thread gets to write (or an assert ends the
\* process): the readers in the way leave, none replaces them, and the tickets
\* and mWriteExclSem move on.
SomeWriterRuns == WriteWaiting # {} ~> Writing # {} \/ ~Alive
=============================================================================
