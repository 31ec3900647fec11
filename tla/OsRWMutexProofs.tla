-------------------------- MODULE OsRWMutexProofs --------------------------
(***************************************************************************)
(* Proofs about the readers/writer lock, for every finite set of threads   *)
(* not larger than SEMAPHORE_CNT_MAX.                                      *)
(*                                                                         *)
(* The inductive invariant has a part that holds for every use of the lock *)
(* (the tickets add up while no assert has failed) and a part that needs   *)
(* tryAcquireWrite not to be called (mWriteExclSem is empty exactly while  *)
(* one thread writes).                                                     *)
(***************************************************************************)
EXTENDS OsRWMutex, FiniteSetTheorems, TLAPS

\* The accounts of the readers by themselves: every active reader waits or
\* reads, every running one reads or has a ticket in mReadSem.
ReadSide ==
    /\ mActiveReadersCnt \in Nat /\ mRunningReadersCnt \in Nat /\ mReadSem \in Nat
    /\ Cardinality(ReadWaiting) \in Nat /\ Cardinality(Reading) \in Nat
    /\ mActiveReadersCnt = Cardinality(ReadWaiting) + Cardinality(Reading)
    /\ mRunningReadersCnt = mReadSem + Cardinality(Reading)
    /\ mRunningReadersCnt <= mActiveReadersCnt

\* The same for the writers.
WriteSide ==
    /\ mActiveWritersCnt \in Nat /\ mRunningWritersCnt \in Nat /\ mWriteSem \in Nat
    /\ Cardinality(WriteWaiting) \in Nat /\ Cardinality(Ticketed) \in Nat
    /\ mActiveWritersCnt = Cardinality(WriteWaiting) + Cardinality(Ticketed)
    /\ mRunningWritersCnt = mWriteSem + Cardinality(Ticketed)
    /\ mRunningWritersCnt <= mActiveWritersCnt

\* Whoever may run has been given its ticket, and readers and writers are
\* never both running.
Granted ==
    /\ mActiveWritersCnt = 0 => mRunningReadersCnt = mActiveReadersCnt
    /\ mRunningReadersCnt = 0 => mRunningWritersCnt = mActiveWritersCnt
    /\ mRunningReadersCnt = 0 \/ mRunningWritersCnt = 0

\* A thread inside tryAcquireWrite's critical section is the only one waiting
\* for a write ticket, and finds one.
TryAlone ==
    \A t \in Threads : pc[t] = "wtry" =>
        /\ mGuard = 0
        /\ mWriteSem > 0
        /\ \A u \in Threads : u # t => pc[u] \notin {"wwait", "wtry"}

Shape ==
    /\ mGuard \in {0, 1}
    /\ mWriteExclSem \in {0, 1}
    /\ pc \in [Threads -> Places]

\* The inductive invariant while no assert has failed ...
Core == Shape /\ ReadSide /\ WriteSide /\ Granted /\ TryAlone

\* ... and the one that holds to the end.
IInv ==
    /\ TypeOK
    /\ ReadersExcludeWriters
    /\ TryTicketIsThere
    /\ Alive => Core

\* How much a set of threads grows when a thread moves from a to b.
Delta(Q, a, b) == (IF b \in Q THEN 1 ELSE 0) - (IF a \in Q THEN 1 ELSE 0)

\* The four sets of threads that the counters count, after a move of thread t.
LEMMA CountsMove ==
    ASSUME Shape, NEW t \in Threads, NEW p \in Places, Goto(t, p)
    PROVE  /\ Cardinality(ReadWaiting) \in Nat /\ Cardinality(ReadWaiting') \in Nat
           /\ Cardinality(Reading) \in Nat /\ Cardinality(Reading') \in Nat
           /\ Cardinality(WriteWaiting) \in Nat /\ Cardinality(WriteWaiting') \in Nat
           /\ Cardinality(Ticketed) \in Nat /\ Cardinality(Ticketed') \in Nat
           /\ Cardinality(ReadWaiting') =
                 Cardinality(ReadWaiting) + Delta({"rwait", "rtry"}, pc[t], p)
           /\ Cardinality(Reading') = Cardinality(Reading) + Delta({"reading"}, pc[t], p)
           /\ Cardinality(WriteWaiting') =
                 Cardinality(WriteWaiting) + Delta({"wwait", "wtry"}, pc[t], p)
           /\ Cardinality(Ticketed') = Cardinality(Ticketed)
                 + Delta({"wexcl", "wexcltry", "writing", "wrel"}, pc[t], p)
           /\ pc' \in [Threads -> Places]
<1>1. pc \in [Threads -> Places] /\ pc' = [pc EXCEPT ![t] = p]
  BY DEF Shape, Goto
<1>2. pc' \in [Threads -> Places]
  BY <1>1
<1>3. ASSUME NEW Q
      PROVE  /\ Cardinality(Standing(pc, Q)) \in Nat
             /\ Cardinality(Standing(pc', Q)) \in Nat
             /\ Cardinality(Standing(pc', Q))
                   = Cardinality(Standing(pc, Q)) + Delta(Q, pc[t], p)
  <2> DEFINE F == Standing(pc, Q)
             G == Standing(pc', Q)
  <2>1. F \subseteq Threads /\ G \subseteq Threads
    BY DEF Standing
  <2>2. IsFiniteSet(F) /\ IsFiniteSet(G)
    BY <2>1, ThreadsFinite, FS_Subset
  <2>3. Cardinality(F) \in Nat /\ Cardinality(G) \in Nat /\ Cardinality(Threads) \in Nat
    BY <2>2, ThreadsFinite, FS_CardinalityType
  <2>5. CASE pc[t] \in Q <=> p \in Q
    <3>1. G = F
      BY <1>1, <2>5 DEF Standing
    <3>2. Delta(Q, pc[t], p) = 0
      BY <2>5 DEF Delta
    <3> QED BY <2>3, <3>1, <3>2
  <2>6. CASE pc[t] \notin Q /\ p \in Q
    <3>1. G = F \cup {t} /\ t \notin F
      BY <1>1, <2>6 DEF Standing
    <3>2. Cardinality(G) = Cardinality(F) + 1
      BY <3>1, <2>2, FS_AddElement
    <3>3. Delta(Q, pc[t], p) = 1
      BY <2>6 DEF Delta
    <3> QED BY <2>3, <3>2, <3>3
  <2>7. CASE pc[t] \in Q /\ p \notin Q
    <3>1. G = F \ {t} /\ t \in F
      BY <1>1, <2>7 DEF Standing
    <3>2. Cardinality(G) = Cardinality(F) - 1
      BY <3>1, <2>2, FS_RemoveElement
    <3>3. Delta(Q, pc[t], p) = -1
      BY <2>7 DEF Delta
    <3> QED BY <2>3, <3>2, <3>3
  <2> QED BY <2>5, <2>6, <2>7
<1> QED
  BY <1>2, <1>3 DEF ReadWaiting, Reading, WriteWaiting, Ticketed

\* The counted sets are finite, and a count is 0 exactly for the empty set.
LEMMA Counts ==
    /\ Cardinality(ReadWaiting) \in Nat
    /\ Cardinality(Reading) \in Nat
    /\ Cardinality(WriteWaiting) \in Nat
    /\ Cardinality(Ticketed) \in Nat
    /\ Cardinality(Reading) = 0 <=> Reading = {}
    /\ Cardinality(WriteWaiting) = 0 <=> WriteWaiting = {}
    /\ Cardinality(Ticketed) = 0 <=> Ticketed = {}
<1>1. ASSUME NEW Q
      PROVE  /\ Cardinality(Standing(pc, Q)) \in Nat
             /\ Cardinality(Standing(pc, Q)) = 0 <=> Standing(pc, Q) = {}
  <2>1. Standing(pc, Q) \subseteq Threads
    BY DEF Standing
  <2>2. IsFiniteSet(Standing(pc, Q))
    BY <2>1, ThreadsFinite, FS_Subset
  <2> QED BY <2>2, FS_CardinalityType, FS_EmptySet
<1> QED
  BY <1>1 DEF ReadWaiting, Reading, WriteWaiting, Ticketed

\* No more threads wait than a ticket semaphore can count.
LEMMA WaitersFit ==
    /\ Cardinality(ReadWaiting) <= SEMAPHORE_CNT_MAX
    /\ Cardinality(WriteWaiting) <= SEMAPHORE_CNT_MAX
<1>1. ReadWaiting \subseteq Threads /\ WriteWaiting \subseteq Threads
  BY DEF ReadWaiting, WriteWaiting, Standing
<1>2. /\ Cardinality(ReadWaiting) <= Cardinality(Threads)
      /\ Cardinality(WriteWaiting) <= Cardinality(Threads)
      /\ IsFiniteSet(ReadWaiting) /\ IsFiniteSet(WriteWaiting)
  BY <1>1, ThreadsFinite, FS_Subset
<1>3. /\ Cardinality(ReadWaiting) \in Nat /\ Cardinality(WriteWaiting) \in Nat
      /\ Cardinality(Threads) \in Nat
  BY <1>2, ThreadsFinite, FS_CardinalityType
<1> QED BY <1>2, <1>3, CountMaxAssumption

\* The accounts keep readers and writers apart.
LEMMA CoreSuffices == Core => IInv /\ TicketAccounting
<1> SUFFICES ASSUME Core PROVE IInv /\ TicketAccounting
  OBVIOUS
<1>1. mReadSem \in 0..SEMAPHORE_CNT_MAX
  BY WaitersFit, CountMaxAssumption DEF Core, ReadSide
<1>2. mWriteSem \in 0..SEMAPHORE_CNT_MAX
  BY WaitersFit, CountMaxAssumption DEF Core, WriteSide
<1>3. TypeOK
  BY <1>1, <1>2 DEF Core, Shape, ReadSide, WriteSide, TypeOK
<1>4. ReadersExcludeWriters
  <2>1. Cardinality(Reading) = 0 \/ Cardinality(Ticketed) = 0
    BY DEF Core, Granted, ReadSide, WriteSide
  <2> QED BY <2>1, Counts DEF ReadersExcludeWriters
<1>5. TryTicketIsThere
  BY DEF TryTicketIsThere, Core, TryAlone
<1>6. TicketAccounting
  BY DEF TicketAccounting, Core, Granted, ReadSide, WriteSide
<1> QED BY <1>3, <1>4, <1>5, <1>6 DEF IInv

LEMMA InitIInv == Init => IInv
<1> SUFFICES ASSUME Init PROVE Core
  BY CoreSuffices
<1>1. Shape
  BY DEF Init, Shape, Places
<1>2. ReadWaiting = {} /\ Reading = {} /\ WriteWaiting = {} /\ Ticketed = {}
  BY DEF Init, ReadWaiting, Reading, WriteWaiting, Ticketed, Standing
<1>3. ReadSide /\ WriteSide
  BY <1>2, FS_EmptySet DEF Init, ReadSide, WriteSide
<1>4. Granted /\ TryAlone
  BY DEF Init, Granted, TryAlone
<1> QED BY <1>1, <1>3, <1>4 DEF Core

\* What a move does to the counts of the readers and of the writers.
ReadMoved(waiting, reading) ==
    /\ Cardinality(ReadWaiting') \in Nat /\ Cardinality(Reading') \in Nat
    /\ Cardinality(ReadWaiting') = Cardinality(ReadWaiting) + waiting
    /\ Cardinality(Reading') = Cardinality(Reading) + reading

WriteMoved(waiting, ticketed) ==
    /\ Cardinality(WriteWaiting') \in Nat /\ Cardinality(Ticketed') \in Nat
    /\ Cardinality(WriteWaiting') = Cardinality(WriteWaiting) + waiting
    /\ Cardinality(Ticketed') = Cardinality(Ticketed) + ticketed

LEMMA StepIInv == IInv /\ [Next]_vars => IInv'
<1> SUFFICES ASSUME IInv, [Next]_vars PROVE IInv'
  OBVIOUS
<1> USE DEF Places, At
<1>1. Core' => IInv'
  BY CoreSuffices, PTL
<1>2. CASE UNCHANGED vars
  BY <1>2 DEF vars, IInv, TypeOK, ReadersExcludeWriters, TryTicketIsThere, Alive,
     Core, Shape, ReadSide, WriteSide, Granted, TryAlone,
     ReadWaiting, Reading, WriteWaiting, Ticketed, Standing
<1>3. CASE Next
  <2>1. PICK t \in Threads : Running(t) \/ Calling(t)
    BY <1>3 DEF Next
  <2>2. Shape /\ ReadSide /\ WriteSide /\ Granted /\ TryAlone
    BY <2>1 DEF Running, Calling, IInv, Core
  <2>3. CASE acquireRead(t)
    <3>1. Goto(t, "rwait") /\ pc[t] = "idle"
      BY <2>3 DEF acquireRead
    <3>2. ReadMoved(1, 0) /\ WriteMoved(0, 0) /\ pc' \in [Threads -> Places]
      BY <2>2, <3>1, CountsMove DEF Delta, ReadMoved, WriteMoved
    <3>3. /\ mActiveReadersCnt' = mActiveReadersCnt + 1
          /\ mActiveWritersCnt = 0 => /\ mRunningReadersCnt = mActiveReadersCnt
                                      /\ mRunningReadersCnt' = mActiveReadersCnt + 1
                                      /\ mReadSem' = mReadSem + 1
          /\ mActiveWritersCnt # 0 => UNCHANGED <<mRunningReadersCnt, mReadSem>>
          /\ UNCHANGED <<mGuard, mWriteExclSem, writeVars>>
      <4>1. /\ mActiveReadersCnt' = mActiveReadersCnt + 1
            /\ grantReadTickets(mActiveReadersCnt + 1, mRunningReadersCnt, mActiveWritersCnt)
            /\ UNCHANGED <<mGuard, mWriteExclSem, writeVars>>
        BY <2>3 DEF acquireRead
      <4>2. /\ mReadSem + (mActiveReadersCnt + 1 - mRunningReadersCnt) <= SEMAPHORE_CNT_MAX
            /\ mRunningReadersCnt < mActiveReadersCnt + 1
        <5>1. (/\ Cardinality(ReadWaiting) <= SEMAPHORE_CNT_MAX
               /\ Cardinality(WriteWaiting) <= SEMAPHORE_CNT_MAX)'
          BY WaitersFit, PTL
        <5> QED BY <2>2, <3>2, <5>1, CountMaxAssumption DEF ReadSide, ReadMoved
      <4> QED BY <2>2, <4>1, <4>2
              DEF grantReadTickets, Released, ReadSide, Granted
    <3>4. Shape'
      BY <2>2, <3>2, <3>3 DEF Shape
    <3>5. ReadSide'
      BY <2>2, <3>2, <3>3 DEF ReadSide, ReadMoved, readVars
    <3>6. WriteSide'
      BY <2>2, <3>2, <3>3 DEF WriteSide, WriteMoved, writeVars
    <3>7. Granted'
      BY <2>2, <3>3 DEF ReadSide, WriteSide, Granted, readVars, writeVars
    <3>8. TryAlone'
      BY <2>2, <3>1, <3>3 DEF TryAlone, Goto, Shape, WriteSide, writeVars
    <3> QED BY <1>1, <3>4, <3>5, <3>6, <3>7, <3>8 DEF Core
  <2>4. CASE tryAcquireRead(t)
    <3>1. Goto(t, "rtry") /\ pc[t] = "idle"
      BY <2>4 DEF tryAcquireRead
    <3>2. ReadMoved(1, 0) /\ WriteMoved(0, 0) /\ pc' \in [Threads -> Places]
      BY <2>2, <3>1, CountsMove DEF Delta, ReadMoved, WriteMoved
    <3>3. /\ mActiveReadersCnt' = mActiveReadersCnt + 1
          /\ mActiveWritersCnt = 0 => /\ mRunningReadersCnt = mActiveReadersCnt
                                      /\ mRunningReadersCnt' = mActiveReadersCnt + 1
                                      /\ mReadSem' = mReadSem + 1
          /\ mActiveWritersCnt # 0 => UNCHANGED <<mRunningReadersCnt, mReadSem>>
          /\ UNCHANGED <<mGuard, mWriteExclSem, writeVars>>
      <4>1. /\ mActiveReadersCnt' = mActiveReadersCnt + 1
            /\ grantReadTickets(mActiveReadersCnt + 1, mRunningReadersCnt, mActiveWritersCnt)
            /\ UNCHANGED <<mGuard, mWriteExclSem, writeVars>>
        BY <2>4 DEF tryAcquireRead
      <4>2. /\ mReadSem + (mActiveReadersCnt + 1 - mRunningReadersCnt) <= SEMAPHORE_CNT_MAX
            /\ mRunningReadersCnt < mActiveReadersCnt + 1
        <5>1. (/\ Cardinality(ReadWaiting) <= SEMAPHORE_CNT_MAX
               /\ Cardinality(WriteWaiting) <= SEMAPHORE_CNT_MAX)'
          BY WaitersFit, PTL
        <5> QED BY <2>2, <3>2, <5>1, CountMaxAssumption DEF ReadSide, ReadMoved
      <4> QED BY <2>2, <4>1, <4>2
              DEF grantReadTickets, Released, ReadSide, Granted
    <3>4. Shape'
      BY <2>2, <3>2, <3>3 DEF Shape
    <3>5. ReadSide'
      BY <2>2, <3>2, <3>3 DEF ReadSide, ReadMoved, readVars
    <3>6. WriteSide'
      BY <2>2, <3>2, <3>3 DEF WriteSide, WriteMoved, writeVars
    <3>7. Granted'
      BY <2>2, <3>3 DEF ReadSide, WriteSide, Granted, readVars, writeVars
    <3>8. TryAlone'
      BY <2>2, <3>1, <3>3 DEF TryAlone, Goto, Shape, WriteSide, writeVars
    <3> QED BY <1>1, <3>4, <3>5, <3>6, <3>7, <3>8 DEF Core
  <2>5. CASE takeReadTicket(t)
    <3>1. Goto(t, "reading") /\ pc[t] \in {"rwait", "rtry"}
      BY <2>5 DEF takeReadTicket
    <3>2. ReadMoved(-1, 1) /\ WriteMoved(0, 0) /\ pc' \in [Threads -> Places]
      BY <2>2, <3>1, CountsMove DEF Delta, ReadMoved, WriteMoved
    <3>3. /\ mReadSem > 0 /\ mReadSem' = mReadSem - 1
          /\ UNCHANGED <<mActiveReadersCnt, mRunningReadersCnt>>
          /\ UNCHANGED <<mGuard, mWriteExclSem, writeVars>>
      BY <2>5 DEF takeReadTicket
    <3>4. Shape'
      BY <2>2, <3>2, <3>3 DEF Shape
    <3>5. ReadSide'
      BY <2>2, <3>2, <3>3 DEF ReadSide, ReadMoved, readVars
    <3>6. WriteSide'
      BY <2>2, <3>2, <3>3 DEF WriteSide, WriteMoved, writeVars
    <3>7. Granted'
      BY <2>2, <3>3 DEF ReadSide, WriteSide, Granted, readVars, writeVars
    <3>8. TryAlone'
      BY <2>2, <3>1, <3>3 DEF TryAlone, Goto, Shape, WriteSide, writeVars
    <3> QED BY <1>1, <3>4, <3>5, <3>6, <3>7, <3>8 DEF Core
  <2>6. CASE releaseRead(t)
    <3>0. mRunningReadersCnt > 0 /\ mActiveReadersCnt >= mRunningReadersCnt
      <4>1. t \in Reading
        BY <2>6 DEF releaseRead, Reading, Standing
      <4> QED BY <2>2, <4>1, Counts DEF ReadSide
    <3>1. Goto(t, "idle") /\ pc[t] = "reading"
      BY <2>6, <3>0 DEF releaseRead
    <3>2. ReadMoved(0, -1) /\ WriteMoved(0, 0) /\ pc' \in [Threads -> Places]
      BY <2>2, <3>1, CountsMove DEF Delta, ReadMoved, WriteMoved
    <3>3. /\ mRunningReadersCnt > 0 /\ mRunningReadersCnt' = mRunningReadersCnt - 1
          /\ mActiveReadersCnt' = mActiveReadersCnt - 1
          /\ mRunningWritersCnt = 0
          /\ mRunningReadersCnt = 1 => /\ mRunningWritersCnt' = mActiveWritersCnt
                                       /\ mWriteSem' = mActiveWritersCnt
          /\ mRunningReadersCnt # 1 => UNCHANGED <<mRunningWritersCnt, mWriteSem>>
          /\ UNCHANGED <<mGuard, mWriteExclSem, mReadSem, mActiveWritersCnt>>
      <4>1. /\ mRunningReadersCnt' = mRunningReadersCnt - 1
            /\ mActiveReadersCnt' = mActiveReadersCnt - 1
            /\ grantWriteTickets(mActiveWritersCnt, mRunningWritersCnt, mRunningReadersCnt - 1)
            /\ UNCHANGED <<mGuard, mWriteExclSem, mReadSem, mActiveWritersCnt>>
        BY <2>6, <3>0 DEF releaseRead
      <4>2. mRunningWritersCnt = 0 /\ mWriteSem = 0
        BY <2>2, <3>0 DEF Granted, ReadSide, WriteSide
      <4>3. mActiveWritersCnt <= SEMAPHORE_CNT_MAX
        BY <2>2, <4>2, WaitersFit, CountMaxAssumption DEF WriteSide
      <4> QED BY <2>2, <3>0, <4>1, <4>2, <4>3
              DEF grantWriteTickets, Released, ReadSide, WriteSide
    <3>4. Shape'
      BY <2>2, <3>2, <3>3 DEF Shape
    <3>5. ReadSide'
      BY <2>2, <3>2, <3>3 DEF ReadSide, ReadMoved, readVars
    <3>6. WriteSide'
      <4>1. mWriteSem = 0 /\ Cardinality(Ticketed) = 0
        BY <2>2, <3>3 DEF WriteSide
      <4>2. CASE mRunningReadersCnt = 1
        BY <2>2, <3>2, <3>3, <4>1, <4>2 DEF WriteSide, WriteMoved
      <4>3. CASE mRunningReadersCnt # 1
        BY <2>2, <3>2, <3>3, <4>1, <4>3 DEF WriteSide, WriteMoved
      <4> QED BY <4>2, <4>3
    <3>7. Granted'
      BY <2>2, <3>3 DEF ReadSide, WriteSide, Granted, readVars, writeVars
    <3>8. TryAlone'
      BY <2>2, <3>1, <3>3 DEF TryAlone, Goto, Shape, WriteSide, writeVars
    <3> QED BY <1>1, <3>4, <3>5, <3>6, <3>7, <3>8 DEF Core
  <2>7. CASE acquireWrite(t)
    <3>1. Goto(t, "wwait") /\ pc[t] = "idle"
      BY <2>7 DEF acquireWrite
    <3>2. ReadMoved(0, 0) /\ WriteMoved(1, 0) /\ pc' \in [Threads -> Places]
      BY <2>2, <3>1, CountsMove DEF Delta, ReadMoved, WriteMoved
    <3>3. /\ mActiveWritersCnt' = mActiveWritersCnt + 1
          /\ mRunningReadersCnt = 0 => /\ mRunningWritersCnt = mActiveWritersCnt
                                       /\ mRunningWritersCnt' = mActiveWritersCnt + 1
                                       /\ mWriteSem' = mWriteSem + 1
          /\ mRunningReadersCnt # 0 => UNCHANGED <<mRunningWritersCnt, mWriteSem>>
          /\ mGuard = 1
          /\ UNCHANGED <<mGuard, mWriteExclSem, readVars>>
      <4>1. /\ mActiveWritersCnt' = mActiveWritersCnt + 1
            /\ grantWriteTickets(mActiveWritersCnt + 1, mRunningWritersCnt, mRunningReadersCnt)
            /\ mGuard = 1
            /\ UNCHANGED <<mGuard, mWriteExclSem, readVars>>
        BY <2>7 DEF acquireWrite
      <4>2. /\ mWriteSem + (mActiveWritersCnt + 1 - mRunningWritersCnt) <= SEMAPHORE_CNT_MAX
            /\ mRunningWritersCnt < mActiveWritersCnt + 1
        <5>1. (/\ Cardinality(ReadWaiting) <= SEMAPHORE_CNT_MAX
               /\ Cardinality(WriteWaiting) <= SEMAPHORE_CNT_MAX)'
          BY WaitersFit, PTL
        <5> QED BY <2>2, <3>2, <5>1, CountMaxAssumption DEF WriteSide, WriteMoved
      <4> QED BY <2>2, <4>1, <4>2
              DEF grantWriteTickets, Released, WriteSide, Granted
    <3>4. Shape'
      BY <2>2, <3>2, <3>3 DEF Shape
    <3>5. ReadSide'
      BY <2>2, <3>2, <3>3 DEF ReadSide, ReadMoved, readVars
    <3>6. WriteSide'
      BY <2>2, <3>2, <3>3 DEF WriteSide, WriteMoved, writeVars
    <3>7. Granted'
      BY <2>2, <3>3 DEF ReadSide, WriteSide, Granted, readVars, writeVars
    <3>8. TryAlone'
      BY <2>2, <3>1, <3>3 DEF TryAlone, Goto, Shape, WriteSide, writeVars
    <3> QED BY <1>1, <3>4, <3>5, <3>6, <3>7, <3>8 DEF Core
  <2>8. CASE takeWriteTicket(t)
    <3>1. Goto(t, "wexcl") /\ pc[t] = "wwait"
      BY <2>8 DEF takeWriteTicket
    <3>2. ReadMoved(0, 0) /\ WriteMoved(-1, 1) /\ pc' \in [Threads -> Places]
      BY <2>2, <3>1, CountsMove DEF Delta, ReadMoved, WriteMoved
    <3>3. /\ mWriteSem > 0 /\ mWriteSem' = mWriteSem - 1
          /\ UNCHANGED <<mActiveWritersCnt, mRunningWritersCnt>>
          /\ UNCHANGED <<mGuard, mWriteExclSem, readVars>>
      BY <2>8 DEF takeWriteTicket
    <3>4. Shape'
      BY <2>2, <3>2, <3>3 DEF Shape
    <3>5. ReadSide'
      BY <2>2, <3>2, <3>3 DEF ReadSide, ReadMoved, readVars
    <3>6. WriteSide'
      BY <2>2, <3>2, <3>3 DEF WriteSide, WriteMoved, writeVars
    <3>7. Granted'
      BY <2>2, <3>3 DEF ReadSide, WriteSide, Granted, readVars, writeVars
    <3>8. TryAlone'
      BY <2>2, <3>1, <3>3 DEF TryAlone, Goto, Shape, WriteSide, writeVars
    <3> QED BY <1>1, <3>4, <3>5, <3>6, <3>7, <3>8 DEF Core
  <2>9. CASE tryAcquireWrite(t)
    <3>1. Goto(t, "wtry") /\ pc[t] = "idle"
      BY <2>9 DEF tryAcquireWrite
    <3>2. ReadMoved(0, 0) /\ WriteMoved(1, 0) /\ pc' \in [Threads -> Places]
      BY <2>2, <3>1, CountsMove DEF Delta, ReadMoved, WriteMoved
    <3>3. /\ mRunningReadersCnt = 0 /\ mRunningWritersCnt = 0
          /\ mActiveWritersCnt = 0 /\ mWriteSem = 0
          /\ mActiveWritersCnt' = 1 /\ mRunningWritersCnt' = 1 /\ mWriteSem' = 1
          /\ mGuard' = 0
          /\ UNCHANGED <<mWriteExclSem, readVars>>
      <4>1. /\ mRunningReadersCnt = 0 /\ mRunningWritersCnt = 0
            /\ mActiveWritersCnt' = mActiveWritersCnt + 1
            /\ grantWriteTickets(mActiveWritersCnt + 1, mRunningWritersCnt, mRunningReadersCnt)
            /\ mGuard' = 0
            /\ UNCHANGED <<mWriteExclSem, readVars>>
        BY <2>9 DEF tryAcquireWrite
      <4>2. mActiveWritersCnt = 0 /\ mWriteSem = 0
        BY <2>2, <4>1 DEF Granted, WriteSide
      <4>3. SEMAPHORE_CNT_MAX >= 1
        BY ThreadsFinite, FS_EmptySet, FS_CardinalityType, CountMaxAssumption
      <4> QED BY <4>1, <4>2, <4>3, CountMaxAssumption DEF grantWriteTickets, Released
    <3>4. Shape'
      BY <2>2, <3>2, <3>3 DEF Shape
    <3>5. ReadSide'
      BY <2>2, <3>2, <3>3 DEF ReadSide, ReadMoved, readVars
    <3>6. WriteSide'
      <4>1. Cardinality(WriteWaiting) = 0 /\ Cardinality(Ticketed) = 0
        BY <2>2, <3>3 DEF WriteSide
      <4> QED BY <3>2, <3>3, <4>1 DEF WriteSide, WriteMoved
    <3>7. Granted'
      BY <2>2, <3>3 DEF ReadSide, WriteSide, Granted, readVars, writeVars
    <3>8. TryAlone'
      <4>1. WriteWaiting = {}
        BY <2>2, <3>3, Counts DEF WriteSide
      <4>2. \A u \in Threads : u # t => pc'[u] \notin {"wwait", "wtry"}
        BY <2>2, <3>1, <4>1 DEF Goto, Shape, WriteWaiting, Standing
      <4> QED BY <3>3, <4>2 DEF TryAlone
    <3> QED BY <1>1, <3>4, <3>5, <3>6, <3>7, <3>8 DEF Core
  <2>10. CASE tryWriteTicket(t)
    <3>0. mWriteSem > 0
      BY <2>2, <2>10 DEF tryWriteTicket, TryAlone
    <3>1. Goto(t, "wexcltry") /\ pc[t] = "wtry"
      BY <2>10, <3>0 DEF tryWriteTicket
    <3>2. ReadMoved(0, 0) /\ WriteMoved(-1, 1) /\ pc' \in [Threads -> Places]
      BY <2>2, <3>1, CountsMove DEF Delta, ReadMoved, WriteMoved
    <3>3. /\ mWriteSem' = mWriteSem - 1 /\ mGuard' = 1
          /\ UNCHANGED <<mActiveWritersCnt, mRunningWritersCnt>>
          /\ UNCHANGED <<mWriteExclSem, readVars>>
      BY <2>10, <3>0 DEF tryWriteTicket
    <3>4. Shape'
      BY <2>2, <3>2, <3>3 DEF Shape
    <3>5. ReadSide'
      BY <2>2, <3>2, <3>3 DEF ReadSide, ReadMoved, readVars
    <3>6. WriteSide'
      BY <2>2, <3>0, <3>2, <3>3 DEF WriteSide, WriteMoved, writeVars
    <3>7. Granted'
      BY <2>2, <3>3 DEF ReadSide, WriteSide, Granted, readVars, writeVars
    <3>8. TryAlone'
      BY <2>2, <3>1, <3>3 DEF TryAlone, Goto, Shape, WriteSide, writeVars
    <3> QED BY <1>1, <3>4, <3>5, <3>6, <3>7, <3>8 DEF Core
  <2>11. CASE acquireExclWrite(t)
    <3>1. Goto(t, "writing") /\ pc[t] = "wexcl"
      BY <2>11 DEF acquireExclWrite
    <3>2. ReadMoved(0, 0) /\ WriteMoved(0, 0) /\ pc' \in [Threads -> Places]
      BY <2>2, <3>1, CountsMove DEF Delta, ReadMoved, WriteMoved
    <3>3. mWriteExclSem' = 0 /\ UNCHANGED <<mGuard, readVars, writeVars>>
      BY <2>11 DEF acquireExclWrite
    <3>4. Shape'
      BY <2>2, <3>2, <3>3 DEF Shape
    <3>5. ReadSide'
      BY <2>2, <3>2, <3>3 DEF ReadSide, ReadMoved, readVars
    <3>6. WriteSide'
      BY <2>2, <3>2, <3>3 DEF WriteSide, WriteMoved, writeVars
    <3>7. Granted'
      BY <2>2, <3>3 DEF ReadSide, WriteSide, Granted, readVars, writeVars
    <3>8. TryAlone'
      BY <2>2, <3>1, <3>3 DEF TryAlone, Goto, Shape, WriteSide, writeVars
    <3> QED BY <1>1, <3>4, <3>5, <3>6, <3>7, <3>8 DEF Core
  <2>12. CASE tryAcquireExclWrite(t)
    <3>1. Goto(t, "writing") /\ pc[t] = "wexcltry"
      BY <2>12 DEF tryAcquireExclWrite
    <3>2. ReadMoved(0, 0) /\ WriteMoved(0, 0) /\ pc' \in [Threads -> Places]
      BY <2>2, <3>1, CountsMove DEF Delta, ReadMoved, WriteMoved
    <3>3. mWriteExclSem' = 0 /\ UNCHANGED <<mGuard, readVars, writeVars>>
      BY <2>12 DEF tryAcquireExclWrite
    <3>4. Shape'
      BY <2>2, <3>2, <3>3 DEF Shape
    <3>5. ReadSide'
      BY <2>2, <3>2, <3>3 DEF ReadSide, ReadMoved, readVars
    <3>6. WriteSide'
      BY <2>2, <3>2, <3>3 DEF WriteSide, WriteMoved, writeVars
    <3>7. Granted'
      BY <2>2, <3>3 DEF ReadSide, WriteSide, Granted, readVars, writeVars
    <3>8. TryAlone'
      BY <2>2, <3>1, <3>3 DEF TryAlone, Goto, Shape, WriteSide, writeVars
    <3> QED BY <1>1, <3>4, <3>5, <3>6, <3>7, <3>8 DEF Core
  <2>13. CASE releaseExclWrite(t)
    <3>1. CASE ~(mRunningWritersCnt > 0 /\ mWriteExclSem = 0)
      <4>1. pc' = [pc EXCEPT ![t] = "aborted"] /\ UNCHANGED <<mGuard, mWriteExclSem, readVars, writeVars>>
        BY <2>13, <3>1 DEF releaseExclWrite, Goto
      <4> QED
        BY <2>2, <4>1 DEF IInv, TypeOK, ReadersExcludeWriters, TryTicketIsThere, Alive,
           Shape, Reading, Ticketed, Standing, readVars, writeVars
    <3>2. CASE mRunningWritersCnt > 0 /\ mWriteExclSem = 0
      <4>1. Goto(t, "wrel") /\ pc[t] = "writing"
        BY <2>13, <3>2 DEF releaseExclWrite
      <4>2. ReadMoved(0, 0) /\ WriteMoved(0, 0) /\ pc' \in [Threads -> Places]
        BY <2>2, <4>1, CountsMove DEF Delta, ReadMoved, WriteMoved
      <4>3. mWriteExclSem' = 1 /\ UNCHANGED <<mGuard, readVars, writeVars>>
        BY <2>13, <3>2 DEF releaseExclWrite
      <4>4. Shape'
        BY <2>2, <4>2, <4>3 DEF Shape
      <4>5. ReadSide'
        BY <2>2, <4>2, <4>3 DEF ReadSide, ReadMoved, readVars
      <4>6. WriteSide'
        BY <2>2, <4>2, <4>3 DEF WriteSide, WriteMoved, writeVars
      <4>7. Granted'
        BY <2>2, <4>3 DEF ReadSide, WriteSide, Granted, readVars, writeVars
      <4>8. TryAlone'
        BY <2>2, <4>1, <4>3 DEF TryAlone, Goto, Shape, WriteSide, writeVars
      <4> QED BY <1>1, <4>4, <4>5, <4>6, <4>7, <4>8 DEF Core
    <3> QED BY <3>1, <3>2
  <2>14. CASE releaseNonExclWrite(t)
    <3>0. mRunningWritersCnt > 0 /\ mActiveWritersCnt >= mRunningWritersCnt
      <4>1. t \in Ticketed
        BY <2>14 DEF releaseNonExclWrite, Ticketed, Standing
      <4> QED BY <2>2, <4>1, Counts DEF WriteSide
    <3>1. Goto(t, "idle") /\ pc[t] = "wrel"
      BY <2>14, <3>0 DEF releaseNonExclWrite
    <3>2. ReadMoved(0, 0) /\ WriteMoved(0, -1) /\ pc' \in [Threads -> Places]
      BY <2>2, <3>1, CountsMove DEF Delta, ReadMoved, WriteMoved
    <3>3. /\ mRunningWritersCnt > 0 /\ mRunningWritersCnt' = mRunningWritersCnt - 1
          /\ mActiveWritersCnt' = mActiveWritersCnt - 1 /\ mActiveWritersCnt = mRunningWritersCnt
          /\ mRunningReadersCnt = 0
          /\ mActiveWritersCnt = 1 => /\ mRunningReadersCnt' = mActiveReadersCnt
                                      /\ mReadSem' = mActiveReadersCnt
          /\ mActiveWritersCnt # 1 => UNCHANGED <<mRunningReadersCnt, mReadSem>>
          /\ UNCHANGED <<mGuard, mWriteExclSem, mWriteSem, mActiveReadersCnt>>
      <4>1. /\ mRunningWritersCnt' = mRunningWritersCnt - 1
            /\ mActiveWritersCnt' = mActiveWritersCnt - 1
            /\ grantReadTickets(mActiveReadersCnt, mRunningReadersCnt, mActiveWritersCnt - 1)
            /\ UNCHANGED <<mGuard, mWriteExclSem, mWriteSem, mActiveReadersCnt>>
        BY <2>14, <3>0 DEF releaseNonExclWrite
      <4>2. mRunningReadersCnt = 0 /\ mReadSem = 0 /\ mActiveWritersCnt = mRunningWritersCnt
        BY <2>2, <3>0 DEF Granted, ReadSide, WriteSide
      <4>3. mActiveReadersCnt <= SEMAPHORE_CNT_MAX
        BY <2>2, <4>2, WaitersFit, CountMaxAssumption DEF ReadSide
      <4> QED BY <2>2, <3>0, <4>1, <4>2, <4>3
              DEF grantReadTickets, Released, ReadSide, WriteSide
    <3>4. Shape'
      BY <2>2, <3>2, <3>3 DEF Shape
    <3>5. ReadSide'
      <4>1. mReadSem = 0 /\ Cardinality(Reading) = 0
        BY <2>2, <3>3 DEF ReadSide
      <4>2. CASE mActiveWritersCnt = 1
        BY <2>2, <3>2, <3>3, <4>1, <4>2 DEF ReadSide, ReadMoved
      <4>3. CASE mActiveWritersCnt # 1
        BY <2>2, <3>2, <3>3, <4>1, <4>3 DEF ReadSide, ReadMoved
      <4> QED BY <4>2, <4>3
    <3>6. WriteSide'
      BY <2>2, <3>2, <3>3 DEF WriteSide, WriteMoved, writeVars
    <3>7. Granted'
      BY <2>2, <3>3 DEF ReadSide, WriteSide, Granted, readVars, writeVars
    <3>8. TryAlone'
      BY <2>2, <3>1, <3>3 DEF TryAlone, Goto, Shape, WriteSide, writeVars
    <3> QED BY <1>1, <3>4, <3>5, <3>6, <3>7, <3>8 DEF Core
  <2> QED
    BY <2>1, <2>3, <2>4, <2>5, <2>6, <2>7, <2>8, <2>9,
       <2>10, <2>11, <2>12, <2>13, <2>14 DEF Running, Calling
<1> QED BY <1>2, <1>3

\* The members keep their types whatever the tasks call: no counter of
\* OsRWMutex goes below zero and no ticket semaphore past its maximum.
THEOREM TypeCorrect == Spec => []TypeOK
<1>1. IInv => TypeOK
  BY DEF IInv
<1> QED BY <1>1, InitIInv, StepIInv, PTL DEF Spec

\* A reader let in by acquireRead or tryAcquireRead never overlaps a writer let
\* in by acquireWrite or tryAcquireWrite, for any number of tasks.
THEOREM Exclusion == Spec => []ReadersExcludeWriters
<1>1. IInv => ReadersExcludeWriters
  BY DEF IInv
<1> QED BY <1>1, InitIInv, StepIInv, PTL DEF Spec

\* tryAcquireWrite, once it has passed its test, always finds its ticket in
\* mWriteSem: its error path inside the critical section is dead code.
THEOREM TryTicket == Spec => []TryTicketIsThere
<1>1. IInv => TryTicketIsThere
  BY DEF IInv
<1> QED BY <1>1, InitIInv, StepIInv, PTL DEF Spec

-----------------------------------------------------------------------------
\* What mWriteExclSem guarantees when every writer waits for it: it is empty
\* while a thread writes, and then nobody else does.
Exclusive ==
    /\ \A t \in Threads : pc[t] \notin {"wtry", "wexcltry", "aborted"}
    /\ \A t \in Threads : pc[t] = "writing" => mWriteExclSem = 0
    /\ \A t, u \in Threads : pc[t] = "writing" /\ pc[u] = "writing" => t = u

\* tryAcquireWrite, whose doAcquireExclWrite ignores the answer of the
\* semaphore, ends it.
ExclusiveSem == ~tried => Exclusive

LEMMA InitExclusiveSem == Init => ExclusiveSem
  BY DEF Init, ExclusiveSem, Exclusive

\* Without tryAcquireWrite every step keeps it.
LEMMA StepExclusiveSem == IInv /\ ExclusiveSem /\ [Next]_vars => ExclusiveSem'
<1> SUFFICES ASSUME IInv, ExclusiveSem, [Next]_vars, ~tried' PROVE Exclusive'
  BY DEF ExclusiveSem
<1>0. ~tried
  BY DEF Next, Running, Calling, vars
<1>e. Exclusive
  BY <1>0 DEF ExclusiveSem
<1> HIDE DEF ExclusiveSem
<1> USE <1>e DEF Places, At, Goto, Exclusive
<1>1. CASE UNCHANGED vars
  BY <1>1 DEF vars
<1>2. CASE Next
  <2>1. PICK t \in Threads : Running(t) \/ Calling(t)
    BY <1>2 DEF Next
  <2>2. Shape /\ ReadSide /\ WriteSide
    BY <2>1 DEF Running, Calling, IInv, Core
  <2>3. CASE acquireRead(t) \/ tryAcquireRead(t) \/ takeReadTicket(t)
    BY <2>2, <2>3 DEF acquireRead, tryAcquireRead, takeReadTicket, Shape
  <2>4. CASE acquireWrite(t) \/ takeWriteTicket(t)
    BY <2>2, <2>4 DEF acquireWrite, takeWriteTicket, Shape
  <2>5. CASE releaseRead(t)
    <3>1. t \in Reading
      BY <2>5 DEF releaseRead, Reading, Standing
    <3>2. mRunningReadersCnt > 0 /\ mActiveReadersCnt >= mRunningReadersCnt
      BY <2>2, <3>1, Counts DEF ReadSide
    <3> QED BY <2>2, <2>5, <3>2 DEF releaseRead, Shape
  <2>6. CASE tryWriteTicket(t) \/ tryAcquireExclWrite(t)
    BY <2>6 DEF tryWriteTicket, tryAcquireExclWrite
  <2>7. CASE acquireExclWrite(t)
    BY <2>2, <2>7 DEF acquireExclWrite, Shape
  <2>8. CASE releaseExclWrite(t)
    <3>1. t \in Ticketed
      BY <2>8 DEF releaseExclWrite, Ticketed, Standing
    <3>2. mRunningWritersCnt > 0
      BY <2>2, <3>1, Counts DEF WriteSide
    <3>3. mWriteExclSem = 0 /\ pc' = [pc EXCEPT ![t] = "wrel"] /\ pc[t] = "writing"
      BY <2>8, <3>2 DEF releaseExclWrite
    <3> QED BY <2>2, <3>3 DEF Shape
  <2>9. CASE releaseNonExclWrite(t)
    <3>1. t \in Ticketed
      BY <2>9 DEF releaseNonExclWrite, Ticketed, Standing
    <3>2. mRunningWritersCnt > 0 /\ mActiveWritersCnt >= mRunningWritersCnt
      BY <2>2, <3>1, Counts DEF WriteSide
    <3> QED BY <2>2, <2>9, <3>2 DEF releaseNonExclWrite, Shape
  <2> QED
    BY <2>1, <2>3, <2>4, <2>5, <2>6, <2>7, <2>8, <2>9 DEF Running, Calling
<1> QED BY <1>1, <1>2

\* Two tasks never write at once when writers use acquireWrite only.
THEOREM WriterExclusion == Spec => []OneWriter
<1>1. ExclusiveSem => OneWriter
  BY DEF ExclusiveSem, Exclusive, OneWriter, Writing, Standing
<1> QED
  BY <1>1, InitIInv, StepIInv, InitExclusiveSem, StepExclusiveSem, PTL DEF Spec

\* The lock excludes whom it has to exclude: readers and writers always, and two
\* writers as long as nobody uses tryAcquireWrite.
THEOREM LockExcludes == Spec => []MutualExclusion
BY Exclusion, WriterExclusion, PTL DEF MutualExclusion

\* No assert of releaseRead, releaseWrite or their helpers fails when writers
\* use acquireWrite only.
THEOREM NoAssertFails == Spec => []AssertsHold
<1>1. ExclusiveSem => AssertsHold
  BY DEF ExclusiveSem, Exclusive, AssertsHold, Alive, At
<1> QED
  BY <1>1, InitIInv, StepIInv, InitExclusiveSem, StepExclusiveSem, PTL DEF Spec

\* Every thread inside the lock is counted, and no ticket is lost or issued
\* twice, whatever the tasks call.
THEOREM Accounting == Spec => []TicketAccounting
<1>1. IInv => TicketAccounting
  BY CoreSuffices DEF IInv, TicketAccounting
<1> QED BY <1>1, InitIInv, StepIInv, PTL DEF Spec

\* While a writer is active, doAcquireRead and the releases issue no read
\* ticket: the number of running readers only falls, so readers that keep
\* coming do not hold a writer up.
THEOREM WritersGoFirst == Spec => WriterPriority
<1>1. ASSUME IInv, [Next]_vars, mActiveWritersCnt > 0, mActiveWritersCnt' > 0
      PROVE  mRunningReadersCnt' <= mRunningReadersCnt
  <2>1. mRunningReadersCnt \in Int /\ mActiveWritersCnt \in Int
    BY <1>1 DEF IInv, TypeOK
  <2>2. CASE UNCHANGED vars
    BY <2>1, <2>2 DEF vars, readVars
  <2>3. CASE Next
    <3>1. PICK t \in Threads : Running(t) \/ Calling(t)
      BY <2>3 DEF Next
    <3>2. CASE acquireRead(t) \/ tryAcquireRead(t)
      BY <1>1, <2>1, <3>2 DEF acquireRead, tryAcquireRead, grantReadTickets
    <3>3. CASE releaseRead(t)
      BY <2>1, <3>3 DEF releaseRead, readVars
    <3>4. CASE tryWriteTicket(t)
      BY <1>1, <2>1, <3>4 DEF tryWriteTicket, grantReadTickets, readVars
    <3>5. CASE releaseNonExclWrite(t)
      BY <1>1, <2>1, <3>5 DEF releaseNonExclWrite, grantReadTickets, readVars
    <3>6. CASE \/ takeReadTicket(t) \/ acquireWrite(t) \/ takeWriteTicket(t)
               \/ tryAcquireWrite(t) \/ acquireExclWrite(t)
               \/ tryAcquireExclWrite(t) \/ releaseExclWrite(t)
      BY <2>1, <3>6 DEF takeReadTicket, acquireWrite, takeWriteTicket, tryAcquireWrite,
         acquireExclWrite, tryAcquireExclWrite, releaseExclWrite, readVars
    <3> QED BY <3>1, <3>2, <3>3, <3>4, <3>5, <3>6 DEF Running, Calling
  <2> QED BY <1>1, <2>2, <2>3
<1> QED BY <1>1, InitIInv, StepIInv, PTL DEF Spec, WriterPriority
=============================================================================
