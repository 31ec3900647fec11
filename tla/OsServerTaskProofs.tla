------------------------- MODULE OsServerTaskProofs -------------------------
(***************************************************************************)
(* For every capacity and every number of threads: the semaphores of the   *)
(* queue add up and no thread oversleeps; the active object uses its queue *)
(* as the queue allows; and no thread outlives the object, but for the one *)
(* window that OsServerTask records in hasty.                              *)
(***************************************************************************)
EXTENDS OsServerTask, FiniteSetTheorems, TLAPS

-----------------------------------------------------------------------------
\* The queue.

QueueInv == QueueTypeOK /\ Accounting /\ NoneOverslept

LEMMA AtFinite ==
    ASSUME NEW x
    PROVE  IsFiniteSet(At(x)) /\ Cardinality(At(x)) \in Nat
<1>1. At(x) \subseteq Threads
  BY DEF At
<1> QED BY <1>1, FinitelyManyThreads, FS_Subset, FS_CardinalityType

\* The numbers that Accounting adds up.
LEMMA Sums ==
    ASSUME QueueInv
    PROVE  /\ count["empty"] \in Nat /\ count["full"] \in Nat /\ Len(queue) \in Nat
           /\ Cardinality(At("push")) \in Nat /\ Cardinality(At("signalFull")) \in Nat
           /\ Cardinality(At("pop")) \in Nat /\ Cardinality(At("signalEmpty")) \in Nat
           /\ Len(queue) = count["full"] + Cardinality(At("signalFull"))
                           + Cardinality(At("pop"))
           /\ Limited => mMaxMsgs = count["empty"] + Cardinality(At("push"))
                                    + Len(queue) + Cardinality(At("signalEmpty"))
           /\ At("aborted") = {} /\ mMaxMsgs \in Nat
<1>1. count["empty"] \in Nat /\ count["full"] \in Nat /\ Len(queue) \in Nat
  BY DEF QueueInv, QueueTypeOK, Semaphores
<1> QED BY <1>1, AtFinite, CapacityIsPositive DEF QueueInv, Accounting

\* What a thread's move from place a to place b does to the threads at x.
Shifted(p, a, b, x) ==
    /\ x = b => /\ At(x)' = At(x) \cup {p} /\ p \notin At(x)
                /\ Cardinality(At(x)') = Cardinality(At(x)) + 1
    /\ x = a => /\ At(x)' = At(x) \ {p} /\ p \in At(x)
                /\ Cardinality(At(x)) >= 1
                /\ Cardinality(At(x)') = Cardinality(At(x)) - 1
    /\ x # b /\ x # a => At(x)' = At(x)
    /\ Cardinality(At(x)) \in Nat

LEMMA Moved ==
    ASSUME pc \in [Threads -> Places], NEW p \in Threads, NEW a, NEW b \in Places,
           pc[p] = a, a # b, Goto(p, b), NEW x
    PROVE  Shifted(p, a, b, x)
<1> USE DEF Shifted
<1>1. pc' = [pc EXCEPT ![p] = b]
  BY DEF Goto
<1>2. IsFiniteSet(At(x)) /\ Cardinality(At(x)) \in Nat
  BY AtFinite
<1>3. CASE x = b
  <2>1. At(x)' = At(x) \cup {p} /\ p \notin At(x)
    BY <1>1, <1>3 DEF At
  <2> QED BY <1>2, <1>3, <2>1, FS_AddElement
<1>4. CASE x = a
  <2>1. At(x)' = At(x) \ {p} /\ p \in At(x)
    BY <1>1, <1>4 DEF At
  <2>2. Cardinality(At(x)') = Cardinality(At(x)) - 1
    BY <1>2, <2>1, FS_RemoveElement, SMTT(30)
  <2>3. Cardinality(At(x) \ {p}) \in Nat
    BY <1>2, FS_RemoveElement, FS_CardinalityType
  <2> QED BY <1>2, <1>4, <2>1, <2>2, <2>3
<1>5. CASE x # b /\ x # a
  <2>1. At(x)' = At(x)
    BY <1>1, <1>5 DEF At
  <2> QED BY <1>2, <1>5, <2>1
<1> QED BY <1>3, <1>4, <1>5

\* Covered holds on when a thread comes to wait, ...
LEMMA CoveredCome ==
    ASSUME NEW A, NEW C, NEW n \in Nat, NEW p, IsFiniteSet(A), Covered(n, C, A), p \notin A
    PROVE  Covered(n, C, A \cup {p})
<1>1. (A \cup {p}) \ C = (A \ C) \cup {p} /\ p \notin A \ C
  BY DEF Covered
<1>2. IsFiniteSet(A \ C)
  BY FS_Difference
<1>3. Cardinality(A \ C) \in Nat /\ Cardinality((A \ C) \cup {p}) = Cardinality(A \ C) + 1
  BY <1>1, <1>2, FS_CardinalityType, FS_AddElement
<1> QED BY <1>1, <1>3 DEF Covered

\* ... takes one of what there is, ...
LEMMA CoveredTake ==
    ASSUME NEW A, NEW C, NEW n \in Nat, NEW p, IsFiniteSet(A), Covered(n, C, A),
           p \in A, p \notin C, n # 0
    PROVE  Covered(n - 1, C, A \ {p})
<1>1. (A \ {p}) \ C = (A \ C) \ {p} /\ p \in A \ C
  OBVIOUS
<1>2. IsFiniteSet(A \ C)
  BY FS_Difference
<1>3. /\ Cardinality(A \ C) \in Nat
      /\ Cardinality((A \ C) \ {p}) = Cardinality(A \ C) - 1
  BY <1>1, <1>2, FS_CardinalityType, FS_RemoveElement
<1>4. C \subseteq A \ {p}
  BY DEF Covered
<1>5. C # {} => n - 1 <= Cardinality((A \ {p}) \ C)
  <2>1. C # {} => n <= Cardinality(A \ C)
    BY DEF Covered
  <2>2. n - 1 <= Cardinality(A \ C) - 1 <=> n <= Cardinality(A \ C)
    BY <1>3
  <2> QED BY <1>1, <1>3, <2>1, <2>2
<1> QED BY <1>4, <1>5 DEF Covered

\* ... goes to sleep because there is nothing, ...
LEMMA CoveredSleep ==
    ASSUME NEW A, NEW C, NEW p, IsFiniteSet(A), Covered(0, C, A), p \in A
    PROVE  Covered(0, C \cup {p}, A)
<1>1. IsFiniteSet(A \ (C \cup {p}))
  BY FS_Difference
<1>2. Cardinality(A \ (C \cup {p})) \in Nat
  BY <1>1, FS_CardinalityType
<1> QED BY <1>2 DEF Covered

\* ... gives up, ...
LEMMA CoveredLeave ==
    ASSUME NEW A, NEW C, NEW n \in Nat, NEW p, Covered(n, C, A), p \in C
    PROVE  Covered(n, C \ {p}, A \ {p})
<1>1. (A \ {p}) \ (C \ {p}) = A \ C
  OBVIOUS
<1> QED BY <1>1 DEF Covered

\* ... or is woken, with or without a new thing to take.
LEMMA CoveredWake ==
    ASSUME NEW A, NEW C, NEW n \in Nat, NEW p, IsFiniteSet(A), Covered(n, C, A), p \in C
    PROVE  Covered(n, C \ {p}, A) /\ Covered(n + 1, C \ {p}, A)
<1>1. A \ (C \ {p}) = (A \ C) \cup {p} /\ p \notin A \ C
  BY DEF Covered
<1>2. IsFiniteSet(A \ C)
  BY FS_Difference
<1>3. Cardinality(A \ C) \in Nat /\ Cardinality((A \ C) \cup {p}) = Cardinality(A \ C) + 1
  BY <1>1, <1>2, FS_CardinalityType, FS_AddElement
<1> QED BY <1>1, <1>3 DEF Covered
-----------------------------------------------------------------------------
LEMMA QueueInit == Init => QueueInv
<1> SUFFICES ASSUME Init PROVE QueueInv
  OBVIOUS
<1>1. QueueTypeOK
  <2>1. queue \in Seq(Messages)
    BY DEF Init
  <2>2. count \in [Semaphores -> Nat]
    BY CapacityIsPositive DEF Init
  <2>3. condition \in [Semaphores -> SUBSET Threads] /\ pc \in [Threads -> Places]
    BY DEF Init, Places
  <2>4. data \in [Threads -> Messages \cup {NULL}] /\ timed \in [Threads -> BOOLEAN]
    BY DEF Init
  <2> QED BY <2>1, <2>2, <2>3, <2>4 DEF Init, QueueTypeOK
<1>2. \A x : x # "out" => At(x) = {}
  BY DEF Init, At
<1>3. Accounting
  <2>1. \A x : x # "out" => Cardinality(At(x)) = 0
    BY <1>2, FS_EmptySet
  <2>2. count["full"] = 0 /\ (Limited => count["empty"] = mMaxMsgs) /\ Len(queue) = 0
    BY DEF Init, Semaphores, Limited
  <2> QED BY <1>2, <2>1, <2>2, CapacityIsPositive DEF Accounting
<1>4. NoneOverslept
  BY DEF Init, NoneOverslept, Covered, Semaphores
<1> QED BY <1>1, <1>3, <1>4 DEF QueueInv

\* A thread comes to the queue: at first it holds nothing.
LEMMA EnterInv ==
    ASSUME QueueInv, NEW p \in Threads, NEW m \in Messages, NEW t \in BOOLEAN,
           send(p, m, t) \/ receive(p, t)
    PROVE  QueueInv'
<1> USE DEF QueueInv
<1>1. PICK b \in {"waitEmpty", "push", "waitFull"} :
          /\ Goto(p, b)
          /\ b = "push" => ~Limited
  BY DEF send, receive
<1>2. /\ pc[p] = "out" /\ pc \in [Threads -> Places] /\ b \in Places /\ pc[p] # b
      /\ UNCHANGED <<queuePreference, count, condition, queue>>
      /\ count \in [Semaphores -> Nat]
  BY <1>1 DEF send, receive, QueueTypeOK, Places, semVars
<1>3. QueueTypeOK'
  <2>1. pc' \in [Threads -> Places]
    BY <1>1, <1>2 DEF Goto
  <2>2. data' \in [Threads -> Messages \cup {NULL}] /\ timed' \in [Threads -> BOOLEAN]
    BY DEF send, receive, QueueTypeOK
  <2> QED BY <1>2, <2>1, <2>2 DEF QueueTypeOK
<1>a. \A x : Shifted(p, "out", b, x)
  BY <1>1, <1>2, Moved
<1>4. \A x \in {"signalFull", "pop", "signalEmpty", "aborted"} : At(x)' = At(x)
  BY <1>1, <1>a DEF Shifted
<1>5. ~Limited \/ At("push")' = At("push")
  BY <1>1, <1>a DEF Shifted
<1>6. Accounting'
  BY <1>2, <1>4, <1>5 DEF Accounting, Limited
<1>7. ASSUME NEW x \in {"waitEmpty", "waitFull"}, NEW n \in Nat, NEW C, Covered(n, C, At(x))
      PROVE  Covered(n, C, At(x)')
  <2>1. At(x)' = At(x) \/ (At(x)' = At(x) \cup {p} /\ p \notin At(x))
    BY <1>1, <1>a DEF Shifted
  <2> QED BY <1>7, <2>1, AtFinite, CoveredCome
<1>8. NoneOverslept'
  <2>1. count["empty"] \in Nat /\ count["full"] \in Nat
    BY <1>2 DEF Semaphores
  <2>2. /\ Covered(count["empty"], condition["empty"], At("waitEmpty")')
        /\ Covered(count["full"], condition["full"], At("waitFull")')
    BY <1>7, <2>1 DEF NoneOverslept
  <2> QED BY <1>2, <2>2 DEF NoneOverslept
<1> QED BY <1>3, <1>6, <1>8

\* Semaphore::wait, when there is something: the count goes to the thread.
LEMMA TakeInv ==
    ASSUME QueueInv, NEW p \in Threads, wait(p), count[Sem(p)] # 0
    PROVE  QueueInv'
<1> USE DEF QueueInv
<1>1. /\ pc \in [Threads -> Places] /\ count \in [Semaphores -> Nat]
      /\ condition \in [Semaphores -> SUBSET Threads]
      /\ queue \in Seq(Messages) /\ Len(queue) \in Nat
      /\ UNCHANGED <<queuePreference, condition, queue, data>>
      /\ p \notin condition[Sem(p)]
      /\ timed' = [timed EXCEPT ![p] = FALSE]
      /\ count' = [count EXCEPT ![Sem(p)] = @ - 1]
  BY DEF wait, QueueTypeOK, Asleep
<1>2. count["empty"] \in Nat /\ count["full"] \in Nat
  BY <1>1 DEF Semaphores
<1>3. CASE pc[p] = "waitEmpty"
  <2>1. Sem(p) = "empty"
    BY <1>3 DEF Sem
  <2>2. /\ Goto(p, "push")
        /\ count'["empty"] = count["empty"] - 1 /\ count'["full"] = count["full"]
        /\ count' \in [Semaphores -> Nat]
    BY <1>1, <1>2, <1>3, <2>1 DEF wait, Semaphores
  <2>3. "push" \in Places /\ pc[p] # "push"
    BY <1>3 DEF Places
  <2>a. \A x : Shifted(p, "waitEmpty", "push", x)
    BY <1>1, <1>3, <2>2, <2>3, Moved
  <2>4. /\ At("waitEmpty")' = At("waitEmpty") \ {p} /\ p \in At("waitEmpty")
        /\ Cardinality(At("push")') = Cardinality(At("push")) + 1
        /\ Cardinality(At("push")) \in Nat
        /\ At("waitFull")' = At("waitFull")
        /\ At("signalFull")' = At("signalFull") /\ At("signalEmpty")' = At("signalEmpty")
        /\ At("pop")' = At("pop") /\ At("aborted")' = At("aborted")
    BY <2>a DEF Shifted
  <2>5. QueueTypeOK'
    <3>1. pc' \in [Threads -> Places]
      BY <1>1, <2>2, <2>3 DEF Goto
    <3> QED BY <1>1, <2>2, <3>1 DEF QueueTypeOK
  <2>6. Accounting'
    <3>1. Cardinality(At("signalEmpty")) \in Nat
      BY AtFinite
    <3>2. Limited => mMaxMsgs = (count["empty"] - 1) + (Cardinality(At("push")) + 1)
                                + Len(queue) + Cardinality(At("signalEmpty"))
      BY Sums, SMTT(30)
    <3> QED BY <1>1, <2>2, <2>4, <3>2 DEF Accounting, Limited
  <2>7. NoneOverslept'
    <3>1. Covered(count["empty"] - 1, condition["empty"], At("waitEmpty") \ {p})
      BY <1>1, <1>2, <2>1, <2>4, AtFinite, CoveredTake DEF NoneOverslept
    <3> QED BY <1>1, <2>2, <2>4, <3>1 DEF NoneOverslept
  <2> QED BY <2>5, <2>6, <2>7
<1>4. CASE pc[p] = "waitFull"
  <2>1. Sem(p) = "full"
    BY <1>4 DEF Sem
  <2>2. /\ Goto(p, "pop")
        /\ count'["full"] = count["full"] - 1 /\ count'["empty"] = count["empty"]
        /\ count' \in [Semaphores -> Nat]
    BY <1>1, <1>2, <1>4, <2>1 DEF wait, Semaphores
  <2>3. "pop" \in Places /\ pc[p] # "pop"
    BY <1>4 DEF Places
  <2>a. \A x : Shifted(p, "waitFull", "pop", x)
    BY <1>1, <1>4, <2>2, <2>3, Moved
  <2>4. /\ At("waitFull")' = At("waitFull") \ {p} /\ p \in At("waitFull")
        /\ Cardinality(At("pop")') = Cardinality(At("pop")) + 1
        /\ Cardinality(At("pop")) \in Nat
        /\ At("waitEmpty")' = At("waitEmpty")
        /\ At("signalFull")' = At("signalFull") /\ At("signalEmpty")' = At("signalEmpty")
        /\ At("push")' = At("push") /\ At("aborted")' = At("aborted")
    BY <2>a DEF Shifted
  <2>5. QueueTypeOK'
    <3>1. pc' \in [Threads -> Places]
      BY <1>1, <2>2, <2>3 DEF Goto
    <3> QED BY <1>1, <2>2, <3>1 DEF QueueTypeOK
  <2>6. Accounting'
    <3>1. Cardinality(At("signalFull")) \in Nat
      BY AtFinite
    <3> QED BY <1>1, <1>2, <2>1, <2>2, <2>4, <3>1 DEF Accounting, Limited
  <2>7. NoneOverslept'
    <3>1. Covered(count["full"] - 1, condition["full"], At("waitFull") \ {p})
      BY <1>1, <1>2, <2>1, <2>4, AtFinite, CoveredTake DEF NoneOverslept
    <3> QED BY <1>1, <2>2, <2>4, <3>1 DEF NoneOverslept
  <2> QED BY <2>5, <2>6, <2>7
<1> QED BY <1>3, <1>4 DEF wait

\* Steps that only change who sleeps.
LEMMA SleepInv ==
    ASSUME QueueInv, NEW p \in Threads, (wait(p) /\ count[Sem(p)] = 0) \/ wakeUp(p)
    PROVE  QueueInv'
<1> USE DEF QueueInv
<1>1. /\ pc \in [Threads -> Places] /\ count \in [Semaphores -> Nat]
      /\ condition \in [Semaphores -> SUBSET Threads]
      /\ UNCHANGED <<queuePreference, count, queue, pc, data>>
      /\ timed' = timed
      /\ Sem(p) \in Semaphores
  BY DEF wait, wakeUp, QueueTypeOK, Sem, Semaphores
<1>2. \A x : At(x)' = At(x)
  BY <1>1 DEF At
<1>3. QueueTypeOK'
  <2>1. condition' \in [Semaphores -> SUBSET Threads]
    BY <1>1 DEF wait, wakeUp
  <2> QED BY <1>1, <2>1 DEF QueueTypeOK
<1>4. Accounting'
  BY <1>1, <1>2 DEF Accounting, Limited
<1>5. ASSUME NEW s \in Semaphores, NEW x, Covered(count[s], condition[s], At(x)),
             Sem(p) = s /\ wait(p) => p \in At(x)
      PROVE  Covered(count[s], condition'[s], At(x))
  <2>1. CASE s # Sem(p)
    BY <1>1, <1>5, <2>1 DEF wait, wakeUp
  <2>2. CASE s = Sem(p) /\ wait(p) /\ count[Sem(p)] = 0
    <3>1. condition'[s] = condition[s] \cup {p} /\ count[s] = 0
      BY <1>1, <2>2 DEF wait
    <3> QED BY <1>5, <2>2, <3>1, AtFinite, CoveredSleep
  <2>3. CASE s = Sem(p) /\ wakeUp(p)
    <3>1. condition'[s] = condition[s] \ {p} /\ p \in condition[s] /\ count[s] \in Nat
      BY <1>1, <2>3 DEF wakeUp, Asleep
    <3> QED BY <1>5, <3>1, AtFinite, CoveredWake
  <2> QED BY <2>1, <2>2, <2>3
<1>6. NoneOverslept'
  <2>1. /\ "empty" = Sem(p) /\ wait(p) => p \in At("waitEmpty")
        /\ "full" = Sem(p) /\ wait(p) => p \in At("waitFull")
    BY DEF wait, Sem, At
  <2>2. "empty" \in Semaphores /\ "full" \in Semaphores
    BY DEF Semaphores
  <2>3. /\ Covered(count["empty"], condition'["empty"], At("waitEmpty"))
        /\ Covered(count["full"], condition'["full"], At("waitFull"))
    BY <1>5, <2>1, <2>2 DEF NoneOverslept
  <2> QED BY <1>1, <1>2, <2>3 DEF NoneOverslept
<1> QED BY <1>3, <1>4, <1>6

\* A timed wait gives up: the others that wait are covered as before.
LEMMA TimeOutInv ==
    ASSUME QueueInv, NEW p \in Threads, timeOut(p)
    PROVE  QueueInv'
<1> USE DEF QueueInv
<1>1. /\ pc \in [Threads -> Places] /\ count \in [Semaphores -> Nat]
      /\ condition \in [Semaphores -> SUBSET Threads]
      /\ UNCHANGED <<queuePreference, count, queue>>
      /\ pc[p] \in {"waitEmpty", "waitFull"} /\ Goto(p, "out")
      /\ Sem(p) \in Semaphores /\ p \in condition[Sem(p)]
      /\ condition' = [condition EXCEPT ![Sem(p)] = @ \ {p}]
  BY DEF timeOut, QueueTypeOK, Sem, Semaphores, Asleep
<1>2. "out" \in Places /\ pc[p] # "out"
  BY <1>1 DEF Places
<1>3. \A x : Shifted(p, pc[p], "out", x)
  BY <1>1, <1>2, Moved
<1>4. QueueTypeOK'
  <2>1. /\ pc' \in [Threads -> Places]
        /\ condition' \in [Semaphores -> SUBSET Threads]
    BY <1>1, <1>2 DEF Goto
  <2>2. data' \in [Threads -> Messages \cup {NULL}] /\ timed' \in [Threads -> BOOLEAN]
    BY DEF timeOut, QueueTypeOK
  <2> QED BY <1>1, <2>1, <2>2 DEF QueueTypeOK
<1>5. \A x \in {"signalFull", "pop", "push", "signalEmpty", "aborted"} : At(x)' = At(x)
  BY <1>1, <1>3 DEF Shifted
<1>6. Accounting'
  BY <1>1, <1>5 DEF Accounting, Limited
<1>7. ASSUME NEW s \in Semaphores, NEW x, Covered(count[s], condition[s], At(x)),
             s = Sem(p) <=> x = pc[p], x # "out"
      PROVE  Covered(count[s], condition'[s], At(x)')
  <2>1. CASE s = Sem(p)
    <3>1. At(x)' = At(x) \ {p}
      BY <1>3, <1>7, <2>1 DEF Shifted
    <3>2. condition'[s] = condition[s] \ {p} /\ p \in condition[s] /\ count[s] \in Nat
      BY <1>1, <2>1
    <3> QED BY <1>7, <3>1, <3>2, CoveredLeave
  <2>2. CASE s # Sem(p)
    <3>1. At(x)' = At(x)
      BY <1>3, <1>7, <2>2 DEF Shifted
    <3>2. condition'[s] = condition[s]
      BY <1>1, <2>2
    <3> QED BY <1>7, <3>1, <3>2
  <2> QED BY <2>1, <2>2
<1>8. NoneOverslept'
  <2>1. /\ "empty" = Sem(p) <=> "waitEmpty" = pc[p]
        /\ "full" = Sem(p) <=> "waitFull" = pc[p]
    BY <1>1 DEF Sem
  <2>2. "empty" \in Semaphores /\ "full" \in Semaphores
    BY DEF Semaphores
  <2>3. /\ Covered(count["empty"], condition'["empty"], At("waitEmpty")')
        /\ Covered(count["full"], condition'["full"], At("waitFull")')
    BY <1>7, <2>1, <2>2 DEF NoneOverslept
  <2> QED BY <1>1, <2>3 DEF NoneOverslept
<1> QED BY <1>4, <1>6, <1>8

LEMMA PushInv ==
    ASSUME QueueInv, NEW p \in Threads, push(p), data[p] \in Messages
    PROVE  QueueInv'
<1> USE DEF QueueInv
<1>1. /\ pc \in [Threads -> Places] /\ count \in [Semaphores -> Nat]
      /\ queue \in Seq(Messages) /\ Len(queue) \in Nat
      /\ UNCHANGED <<queuePreference, count, condition, timed>>
      /\ pc[p] = "push" /\ Goto(p, "signalFull")
      /\ queue' = Append(queue, data[p])
  BY DEF push, QueueTypeOK, semVars
<1>2. "signalFull" \in Places
  BY DEF Places
<1>3. \A x : Shifted(p, "push", "signalFull", x)
  BY <1>1, <1>2, Moved
<1>4. Len(queue') = Len(queue) + 1 /\ queue' \in Seq(Messages)
  BY <1>1
<1>5. QueueTypeOK'
  <2>1. pc' \in [Threads -> Places]
    BY <1>1, <1>2 DEF Goto
  <2>2. data' \in [Threads -> Messages \cup {NULL}]
    BY DEF push, QueueTypeOK
  <2> QED BY <1>1, <1>4, <2>1, <2>2 DEF QueueTypeOK
<1>6. Accounting'
  <2>1. /\ Cardinality(At("push")') = Cardinality(At("push")) - 1
        /\ Cardinality(At("push")) \in Nat /\ Cardinality(At("signalFull")) \in Nat
        /\ Cardinality(At("signalFull")') = Cardinality(At("signalFull")) + 1
        /\ At("pop")' = At("pop") /\ At("signalEmpty")' = At("signalEmpty")
        /\ At("aborted")' = At("aborted")
    BY <1>3 DEF Shifted
  <2>2. /\ Cardinality(At("pop")) \in Nat /\ Cardinality(At("signalEmpty")) \in Nat
        /\ count["empty"] \in Nat /\ count["full"] \in Nat
    BY <1>1, AtFinite DEF Semaphores
  <2>3. Len(queue) + 1 = count["full"] + (Cardinality(At("signalFull")) + 1)
                         + Cardinality(At("pop"))
    BY Sums, SMTT(30)
  <2>4. Limited => mMaxMsgs = count["empty"] + (Cardinality(At("push")) - 1)
                              + (Len(queue) + 1) + Cardinality(At("signalEmpty"))
    BY Sums, SMTT(30)
  <2> QED BY <1>1, <1>4, <2>1, <2>3, <2>4 DEF Accounting, Limited
<1>7. NoneOverslept'
  <2>1. At("waitEmpty")' = At("waitEmpty") /\ At("waitFull")' = At("waitFull")
    BY <1>3 DEF Shifted
  <2> QED BY <1>1, <2>1 DEF NoneOverslept
<1> QED BY <1>5, <1>6, <1>7

\* front() finds a message: the receiver at pop is one of those counted.
LEMMA PopInv ==
    ASSUME QueueInv, NEW p \in Threads, pop(p)
    PROVE  QueueInv'
<1> USE DEF QueueInv
<1>1. /\ pc \in [Threads -> Places] /\ count \in [Semaphores -> Nat]
      /\ queue \in Seq(Messages) /\ Len(queue) \in Nat
      /\ UNCHANGED <<queuePreference, count, condition, timed>>
      /\ pc[p] = "pop"
  BY DEF pop, QueueTypeOK, semVars
<1>2. /\ Cardinality(At("pop")) >= 1 /\ Cardinality(At("pop")) \in Nat
      /\ Cardinality(At("signalFull")) \in Nat
      /\ Cardinality(At("push")) \in Nat /\ Cardinality(At("signalEmpty")) \in Nat
      /\ count["empty"] \in Nat /\ count["full"] \in Nat
  <2>1. p \in At("pop")
    BY <1>1 DEF At
  <2>2. Cardinality(At("pop")) # 0
    BY <2>1, AtFinite, FS_EmptySet
  <2> QED BY <1>1, <2>2, AtFinite DEF Semaphores
<1>3. Len(queue) # 0
  BY <1>1, <1>2 DEF Accounting
<1>4. queue # <<>>
  BY <1>3
<1>5. PICK b \in {"signalEmpty", "out"} : Goto(p, b) /\ (b = "signalEmpty" <=> Limited)
  BY <1>4 DEF pop
<1>6. /\ Head(queue) \in Messages /\ Tail(queue) \in Seq(Messages)
      /\ Len(Tail(queue)) = Len(queue) - 1
  BY <1>1, <1>4
<1>7. queue' = Tail(queue) /\ data' = [data EXCEPT ![p] = Head(queue)]
  BY <1>4 DEF pop
<1>8. \A x : Shifted(p, "pop", b, x)
  <2>1. b \in Places /\ b # "pop"
    BY DEF Places
  <2> QED BY <1>1, <1>5, <2>1, Moved
<1>9. QueueTypeOK'
  <2>1. pc' \in [Threads -> Places]
    BY <1>1, <1>5 DEF Goto, Places
  <2>2. data' \in [Threads -> Messages \cup {NULL}]
    BY <1>6, <1>7 DEF QueueTypeOK
  <2> QED BY <1>1, <1>6, <1>7, <2>1, <2>2 DEF QueueTypeOK
<1>10. Accounting'
  <2>1. /\ Cardinality(At("pop")') = Cardinality(At("pop")) - 1
        /\ b = "signalEmpty" =>
              Cardinality(At("signalEmpty")') = Cardinality(At("signalEmpty")) + 1
        /\ At("push")' = At("push") /\ At("signalFull")' = At("signalFull")
        /\ At("aborted")' = At("aborted")
    BY <1>8 DEF Shifted
  <2>2. Len(queue) - 1 = count["full"] + Cardinality(At("signalFull"))
                         + (Cardinality(At("pop")) - 1)
    BY <1>1, <1>2 DEF Accounting
  <2>3. Limited => mMaxMsgs = count["empty"] + Cardinality(At("push"))
                              + (Len(queue) - 1) + (Cardinality(At("signalEmpty")) + 1)
    <3>1. PICK a \in Nat, b1 \in Nat, c \in Nat, d \in Nat :
              /\ a = count["empty"] /\ b1 = Cardinality(At("push"))
              /\ c = Len(queue) /\ d = Cardinality(At("signalEmpty"))
      BY <1>1, <1>2
    <3>2. a + b1 + (c - 1) + (d + 1) = a + b1 + c + d
      OBVIOUS
    <3> QED BY <3>1, <3>2, Sums
  <2> QED BY <1>1, <1>5, <1>6, <1>7, <2>1, <2>2, <2>3 DEF Accounting, Limited
<1>11. NoneOverslept'
  <2>1. At("waitEmpty")' = At("waitEmpty") /\ At("waitFull")' = At("waitFull")
    BY <1>8 DEF Shifted
  <2> QED BY <1>1, <2>1 DEF NoneOverslept
<1> QED BY <1>9, <1>10, <1>11

\* Semaphore::signal: the count is below its maximum, since what the thread
\* gives back is not in it yet. One sleeper is woken for it.
LEMMA SignalInv ==
    ASSUME QueueInv, NEW p \in Threads, signal(p)
    PROVE  QueueInv'
<1> USE DEF QueueInv
<1>1. /\ pc \in [Threads -> Places] /\ count \in [Semaphores -> Nat]
      /\ condition \in [Semaphores -> SUBSET Threads]
      /\ UNCHANGED <<queuePreference, queue, data, timed>>
      /\ pc[p] \in {"signalFull", "signalEmpty"}
      /\ Sem(p) \in Semaphores
  BY DEF signal, QueueTypeOK, Sem, Semaphores
<1>2. p \in At(pc[p]) /\ Cardinality(At(pc[p])) # 0
  <2>1. p \in At(pc[p])
    BY DEF At
  <2> QED BY <2>1, AtFinite, FS_EmptySet
<1>3. ~AtMaximum(Sem(p))
  <2>1. CASE pc[p] = "signalFull"
    <3>1. Sem(p) = "full" /\ Cardinality(At("signalFull")) # 0
      BY <1>2, <2>1 DEF Sem
    <3>2. Limited => Len(queue) <= mMaxMsgs
      BY Sums, SMTT(30)
    <3>3. count["full"] < Len(queue)
      BY <3>1, Sums
    <3> QED BY <3>1, <3>2, <3>3, Sums DEF AtMaximum
  <2>2. CASE pc[p] = "signalEmpty"
    <3>1. Sem(p) = "empty" /\ Cardinality(At("signalEmpty")) # 0
      BY <1>2, <2>2 DEF Sem
    <3>2. Limited => count["empty"] < mMaxMsgs
      BY <3>1, Sums
    <3> QED BY <3>1, <3>2, Sums DEF AtMaximum
  <2> QED BY <1>1, <2>1, <2>2
<1>4. /\ count' = [count EXCEPT ![Sem(p)] = @ + 1]
      /\ notify_one(Sem(p)) /\ Goto(p, "out")
  BY <1>3 DEF signal
<1>5. "out" \in Places /\ pc[p] # "out"
  BY <1>1 DEF Places
<1>6. \A x : Shifted(p, pc[p], "out", x)
  BY <1>1, <1>4, <1>5, Moved
<1>7. QueueTypeOK'
  <2>1. pc' \in [Threads -> Places] /\ count' \in [Semaphores -> Nat]
    BY <1>1, <1>4, <1>5 DEF Goto
  <2>2. condition' \in [Semaphores -> SUBSET Threads]
    BY <1>1, <1>4 DEF notify_one
  <2> QED BY <1>1, <2>1, <2>2 DEF QueueTypeOK
<1>8. Accounting'
  <2>1. /\ At("push")' = At("push") /\ At("pop")' = At("pop")
        /\ At("aborted")' = At("aborted")
    BY <1>1, <1>6 DEF Shifted
  <2>2. CASE pc[p] = "signalFull"
    <3>1. count'["full"] = count["full"] + 1 /\ count'["empty"] = count["empty"]
      BY <1>1, <1>4, <2>2 DEF Sem, Semaphores
    <3>2. /\ Cardinality(At("signalFull")') = Cardinality(At("signalFull")) - 1
          /\ At("signalEmpty")' = At("signalEmpty")
      BY <1>6, <2>2 DEF Shifted
    <3>3. Len(queue) = (count["full"] + 1) + (Cardinality(At("signalFull")) - 1)
                       + Cardinality(At("pop"))
      BY Sums, SMTT(30)
    <3> QED BY <1>1, <2>1, <3>1, <3>2, <3>3 DEF Accounting, Limited
  <2>3. CASE pc[p] = "signalEmpty"
    <3>1. count'["empty"] = count["empty"] + 1 /\ count'["full"] = count["full"]
      BY <1>1, <1>4, <2>3 DEF Sem, Semaphores
    <3>2. /\ Cardinality(At("signalEmpty")') = Cardinality(At("signalEmpty")) - 1
          /\ At("signalFull")' = At("signalFull")
      BY <1>6, <2>3 DEF Shifted
    <3>3. Limited => mMaxMsgs = (count["empty"] + 1) + Cardinality(At("push"))
                                + Len(queue) + (Cardinality(At("signalEmpty")) - 1)
      <4>1. PICK a \in Nat, b \in Nat, c \in Nat, d \in Nat :
                /\ a = count["empty"] /\ b = Cardinality(At("push"))
                /\ c = Len(queue) /\ d = Cardinality(At("signalEmpty"))
        BY Sums, SMTT(30)
      <4>2. (a + 1) + b + c + (d - 1) = a + b + c + d
        OBVIOUS
      <4> QED BY <4>1, <4>2, Sums
    <3> QED BY <1>1, <2>1, <3>1, <3>2, <3>3 DEF Accounting, Limited
  <2> QED BY <1>1, <2>2, <2>3
<1>9. ASSUME NEW s \in Semaphores, NEW x, Covered(count[s], condition[s], At(x))
      PROVE  Covered(count'[s], condition'[s], At(x))
  <2>1. CASE s # Sem(p)
    <3>1. count'[s] = count[s] /\ condition'[s] = condition[s]
      BY <1>1, <1>4, <2>1 DEF notify_one
    <3> QED BY <1>9, <3>1
  <2>2. CASE s = Sem(p) /\ condition[s] = {}
    <3>1. condition'[s] = {}
      BY <1>4, <2>2 DEF notify_one
    <3> QED BY <3>1 DEF Covered
  <2>3. CASE s = Sem(p) /\ condition[s] # {}
    <3>1. PICK q \in condition[s] : condition' = [condition EXCEPT ![s] = @ \ {q}]
      BY <1>4, <2>3 DEF notify_one
    <3>2. condition'[s] = condition[s] \ {q} /\ count'[s] = count[s] + 1 /\ count[s] \in Nat
      BY <1>1, <1>4, <2>3, <3>1
    <3>3. Covered(count[s] + 1, condition[s] \ {q}, At(x))
      BY <1>9, <3>2, AtFinite, CoveredWake, SMTT(30)
    <3> QED BY <3>2, <3>3
  <2> QED BY <2>1, <2>2, <2>3
<1>10. NoneOverslept'
  <2>1. At("waitEmpty")' = At("waitEmpty") /\ At("waitFull")' = At("waitFull")
    BY <1>1, <1>6 DEF Shifted
  <2>2. "empty" \in Semaphores /\ "full" \in Semaphores
    BY DEF Semaphores
  <2>3. /\ Covered(count'["empty"], condition'["empty"], At("waitEmpty"))
        /\ Covered(count'["full"], condition'["full"], At("waitFull"))
    BY <1>9, <2>2 DEF NoneOverslept
  <2> QED BY <2>1, <2>3 DEF NoneOverslept
<1> QED BY <1>7, <1>8, <1>10

LEMMA ReleaseMsgInv ==
    ASSUME QueueInv, NEW p \in Threads, releaseMsg(p)
    PROVE  QueueInv'
<1>1. data' \in [Threads -> Messages \cup {NULL}]
  BY DEF QueueInv, QueueTypeOK, releaseMsg
<1>2. UNCHANGED <<queuePreference, count, condition, queue, pc, timed>>
  BY DEF releaseMsg, semVars
<1>3. \A x : At(x)' = At(x)
  BY <1>2 DEF At
<1> QED BY <1>1, <1>2, <1>3 DEF QueueInv, QueueTypeOK, Accounting, NoneOverslept, Limited

\* A thread on its way to push has a message to push.
Carrying == \A p \in Threads : pc[p] \in {"waitEmpty", "push"} => data[p] # NULL

LEMMA CarryingKept ==
    ASSUME QueueInv, Carrying, Next
    PROVE  Carrying'
<1>1. pc \in [Threads -> Places] /\ data \in [Threads -> Messages \cup {NULL}]
  BY DEF QueueInv, QueueTypeOK
<1>2. PICK p \in Threads : \/ \E m \in Messages, t \in BOOLEAN : send(p, m, t)
                           \/ \E t \in BOOLEAN : receive(p, t)
                           \/ releaseMsg(p) \/ Proceed(p) \/ timeOut(p) \/ wakeUp(p)
  BY DEF Next
<1> SUFFICES ASSUME NEW q \in Threads, pc'[q] \in {"waitEmpty", "push"}
             PROVE  data'[q] # NULL
  BY DEF Carrying
<1>3. CASE \E m \in Messages, t \in BOOLEAN : send(p, m, t)
  BY <1>1, <1>3, NullIsNoMessage DEF send, Goto, Carrying
<1>4. CASE \E t \in BOOLEAN : receive(p, t)
  BY <1>1, <1>4 DEF receive, Goto, Carrying
<1>5. CASE releaseMsg(p)
  BY <1>1, <1>5 DEF releaseMsg, Carrying
<1>6. CASE wait(p)
  BY <1>1, <1>6 DEF wait, Goto, Carrying
<1>7. CASE push(p)
  BY <1>1, <1>7 DEF push, Goto, Carrying
<1>8. CASE pop(p)
  BY <1>1, <1>8 DEF pop, Goto, Carrying
<1>9. CASE signal(p)
  BY <1>1, <1>9 DEF signal, Goto, Carrying
<1>10. CASE timeOut(p)
  BY <1>1, <1>10 DEF timeOut, Goto, Carrying
<1>11. CASE wakeUp(p)
  BY <1>1, <1>11 DEF wakeUp, Carrying
<1> QED BY <1>2, <1>3, <1>4, <1>5, <1>6, <1>7, <1>8, <1>9, <1>10, <1>11 DEF Proceed

LEMMA QueueNext ==
    ASSUME QueueInv, Carrying, [Next]_queueVars
    PROVE  QueueInv' /\ Carrying'
<1>1. CASE UNCHANGED queueVars
  <2>1. /\ UNCHANGED <<queuePreference, count, condition, queue, pc, data, timed>>
        /\ \A x : At(x)' = At(x)
    BY <1>1 DEF queueVars, semVars, At
  <2> QED BY <2>1 DEF QueueInv, Carrying, QueueTypeOK, Accounting, NoneOverslept, Limited
<1>2. CASE Next
  <2> SUFFICES QueueInv'
    BY <1>2, CarryingKept
  <2>1. PICK p \in Threads : \/ \E m \in Messages, t \in BOOLEAN : send(p, m, t)
                             \/ \E t \in BOOLEAN : receive(p, t)
                             \/ releaseMsg(p) \/ Proceed(p) \/ timeOut(p) \/ wakeUp(p)
    BY <1>2 DEF Next
  <2>2. CASE \E m \in Messages, t \in BOOLEAN : send(p, m, t)
    BY <2>2, EnterInv
  <2>3. CASE \E t \in BOOLEAN : receive(p, t)
    BY <2>3, EnterInv, ShutdownIsAMessage
  <2>4. CASE wait(p)
    BY <2>4, TakeInv, SleepInv
  <2>5. CASE push(p)
    <3>1. data[p] \in Messages
      BY <2>5 DEF push, Carrying, QueueInv, QueueTypeOK
    <3> QED BY <2>5, <3>1, PushInv
  <2> QED BY <2>1, <2>2, <2>3, <2>4, <2>5, PopInv, SignalInv, TimeOutInv, SleepInv,
             ReleaseMsgInv DEF Proceed
<1> QED BY <1>1, <1>2

\* The semaphores and the queue of OsMsgQShared add up, whatever the capacity
\* and the number of threads: front() is never called on an empty queue, the
\* queue keeps its limit, and Semaphore::signal never waits.
THEOREM QueueAccounts == Spec => []Accounting
<1>1. Init => QueueInv /\ Carrying
  BY QueueInit DEF Init, Carrying
<1>2. QueueInv /\ Carrying /\ [Next]_queueVars => QueueInv' /\ Carrying'
  BY QueueNext
<1>3. QueueInv => Accounting
  BY DEF QueueInv
<1> QED BY <1>1, <1>2, <1>3, PTL DEF Spec

\* The single notify_one of Semaphore::signal is enough for any number of
\* waiting threads: none sleeps over a message or a place meant for it.
THEOREM QueueWakes == Spec => []NoneOverslept
<1>1. Init => QueueInv /\ Carrying
  BY QueueInit DEF Init, Carrying
<1>2. QueueInv /\ Carrying /\ [Next]_queueVars => QueueInv' /\ Carrying'
  BY QueueNext
<1>3. QueueInv => NoneOverslept
  BY DEF QueueInv
<1> QED BY <1>1, <1>2, <1>3, PTL DEF Spec

-----------------------------------------------------------------------------
\* The task. What its threads do with the queue is what the queue allows.

LEMMA TaskUsesQueue ==
    ASSUME [TaskNext]_vars
    PROVE  [Next]_queueVars
<1>1. CASE UNCHANGED vars
  BY <1>1 DEF vars
<1>2. CASE start \/ waitUntilShutDown \/ acquireDeleteGuard
  BY <1>2 DEF start, waitUntilShutDown, acquireDeleteGuard
<1>3. CASE flush \/ flushed
  <2>1. Owner \in Threads
    BY ThreadsDiffer
  <2> QED BY <1>3, <2>1 DEF flush, flushed, Next
<1>4. CASE \E c \in Clients : postMessage(c)
  <2>1. PICK c \in Clients : postMessage(c)
    BY <1>4
  <2>2. c \in Threads
    BY ThreadsDiffer
  <2>3. \E m \in Messages, t \in BOOLEAN : send(c, m, t)
    BY <2>1 DEF postMessage
  <2> QED BY <2>2, <2>3 DEF Next
<1>5. CASE \E p \in {Owner} \cup Clients : requestShutdown(p) \/ ask(p) \/ posted(p)
  <2>1. PICK p \in {Owner} \cup Clients : requestShutdown(p) \/ ask(p) \/ posted(p)
    BY <1>5
  <2>2. p \in Threads
    BY ThreadsDiffer
  <2>3. CASE ask(p)
    <3>1. send(p, OS_SHUTDOWN, FALSE)
      BY <2>3 DEF ask
    <3> QED BY <2>2, <3>1, ShutdownIsAMessage DEF Next
  <2>4. CASE requestShutdown(p) \/ posted(p)
    BY <2>4 DEF requestShutdown, posted
  <2> QED BY <2>1, <2>3, <2>4
<1>6. CASE \E k \in TaskThreads : TaskRun(k)
  <2>1. PICK k \in TaskThreads : TaskRun(k)
    BY <1>6
  <2>2. k \in Threads
    BY ThreadsDiffer
  <2>3. CASE receiveMessage(k) \/ handleMessage(k)
    BY <2>2, <2>3 DEF receiveMessage, handleMessage, Next
  <2>4. CASE taskEntry(k) \/ isStarted(k) \/ ackShutdown(k) \/ releaseDeleteGuard(k)
    BY <2>4 DEF taskEntry, isStarted, ackShutdown, releaseDeleteGuard
  <2> QED BY <2>1, <2>3, <2>4 DEF TaskRun
<1>7. CASE \E p \in Threads : InQueue(p) \/ TimeOut(p) \/ WakeUp(p)
  BY <1>7 DEF InQueue, TimeOut, WakeUp, Proceed, Next
<1> QED BY <1>1, <1>2, <1>3, <1>4, <1>5, <1>6, <1>7 DEF TaskNext, Destructor

\* The active object uses its queue as a client of OsMsgQShared may: every
\* behaviour of the task with its callers is one of the queue.
THEOREM QueueUse == TaskSpec => Spec
<1>1. TaskInit => Init
  BY DEF TaskInit
<1>2. [TaskNext]_vars => [Next]_queueVars
  BY TaskUsesQueue
<1> QED BY <1>1, <1>2, PTL DEF TaskSpec, Spec

-----------------------------------------------------------------------------
\* The life of the threads. What is left of a thread outside its loop:
Spent(k) == at[k] \in {"none", "over", "release"}

\* mState says which threads can be in the loop: none, or the one in mTaskId.
Loops ==
    /\ mState = "UNINITIALIZED" => \A k \in TaskThreads : at[k] = "none"
    /\ mState = "TERMINATED" => \A k \in TaskThreads : Spent(k)
    /\ mState \in {"RUNNING", "SHUTTING_DOWN"} =>
          /\ mTaskId \in TaskThreads
          /\ at[mTaskId] \in {"entry", "run", "receiving", "test", "ack"}
          /\ \A k \in TaskThreads \ {mTaskId} : Spent(k)

\* Unless TERMINATED was taken for the end, one thread lives at a time, and
\* none does once mDeleteGuard is released or the destructor is past it.
Lives ==
    ~hasty =>
       /\ \A j, k \in TaskThreads : Alive(j) /\ Alive(k) => j = k
       /\ mDeleteGuard = 1 => \A k \in TaskThreads : ~Alive(k)
       /\ at[Owner] \in {"flush", "flushing", "over"} => \A k \in TaskThreads : ~Alive(k)

TaskTypeOK ==
    /\ mState \in {"UNINITIALIZED", "RUNNING", "SHUTTING_DOWN", "TERMINATED"}
    /\ mTaskId \in TaskThreads \cup {NULL}
    /\ mDeleteGuard \in {0, 1}
    /\ at \in [Threads -> Stations]
    /\ object \in {"alive", "destroying", "destroyed"}
    /\ posts \in Nat
    /\ hasty \in BOOLEAN

LifeInv ==
    /\ TaskTypeOK /\ Loops /\ Lives
    /\ object = "destroyed" => at[Owner] = "over"

LEMMA LifeInit == TaskInit => LifeInv
<1> SUFFICES ASSUME TaskInit PROVE LifeInv
  OBVIOUS
<1>1. at \in [Threads -> Stations] /\ \A k \in TaskThreads : at[k] = "none"
  BY ThreadsDiffer DEF TaskInit, Stations
<1>2. at[Owner] = "idle"
  BY ThreadsDiffer DEF TaskInit
<1> QED BY <1>1, <1>2 DEF TaskInit, LifeInv, TaskTypeOK, Loops, Lives, Alive

\* Steps of the callers that leave the threads of the task where they are.
LEMMA CallerLife ==
    ASSUME LifeInv, NEW p \in {Owner} \cup Clients, NEW b \in Stations, Move(p, b),
           UNCHANGED <<mTaskId, mDeleteGuard, hasty>>,
           mState' \in {mState, Requested}, posts' \in Nat,
           object' \in {"alive", "destroying", "destroyed"},
           object' = "destroyed" => \/ p = Owner /\ b = "over"
                                    \/ p # Owner /\ object = "destroyed",
           ~hasty /\ p = Owner /\ b \in {"flush", "flushing", "over"} =>
              \A k \in TaskThreads : ~Alive(k)
    PROVE  LifeInv'
<1>1. at \in [Threads -> Stations] /\ at' = [at EXCEPT ![p] = b]
      /\ p \in Threads /\ p \notin TaskThreads /\ Owner \in Threads /\ TaskThreads \subseteq Threads
  BY ThreadsDiffer DEF LifeInv, TaskTypeOK, Move
<1>2. \A k \in TaskThreads : at'[k] = at[k]
  BY <1>1
<1>3. TaskTypeOK'
  BY <1>1 DEF LifeInv, TaskTypeOK, Requested
<1>4. Loops'
  BY <1>2 DEF LifeInv, TaskTypeOK, Loops, Spent, Requested
<1>5. Lives'
  BY <1>1, <1>2 DEF LifeInv, Lives, Alive
<1>6. object' = "destroyed" => at'[Owner] = "over"
  BY <1>1 DEF LifeInv
<1> QED BY <1>3, <1>4, <1>5, <1>6 DEF LifeInv

\* The task's own steps inside its loop.
LEMMA LoopLife ==
    ASSUME LifeInv, NEW k \in TaskThreads,
           taskEntry(k) \/ receiveMessage(k) \/ handleMessage(k) \/ isStarted(k)
    PROVE  LifeInv'
<1> USE DEF LifeInv
<1>1. PICK b \in {"run", "receiving", "test", "ack"} : Move(k, b)
  BY DEF taskEntry, receiveMessage, handleMessage, isStarted
<1>2. /\ UNCHANGED <<mTaskId, mDeleteGuard, object, posts, hasty>>
      /\ mState' \in {mState, Requested}
      /\ at[k] \in {"entry", "run", "receiving", "test"}
  BY DEF taskEntry, receiveMessage, handleMessage, isStarted
<1>3. at \in [Threads -> Stations] /\ at' = [at EXCEPT ![k] = b]
      /\ k \in Threads /\ Owner \in Threads /\ Owner # k /\ TaskThreads \subseteq Threads
  BY <1>1, ThreadsDiffer DEF TaskTypeOK, Move
<1>4. mState \in {"RUNNING", "SHUTTING_DOWN"} /\ mTaskId = k
  BY <1>2 DEF TaskTypeOK, Loops, Spent
<1>5. TaskTypeOK'
  BY <1>2, <1>3 DEF TaskTypeOK, Requested, Stations
<1>6. Loops'
  BY <1>2, <1>3, <1>4 DEF Loops, Spent, Requested
<1>7. Alive(k) /\ Alive(k)' /\ \A j \in TaskThreads : Alive(j)' <=> Alive(j)
  BY <1>2, <1>3 DEF Alive
<1>8. Lives'
  BY <1>2, <1>3, <1>7 DEF Lives
<1> QED BY <1>2, <1>3, <1>5, <1>6, <1>8

\* The end of a thread.
LEMMA EndLife ==
    ASSUME LifeInv, NEW k \in TaskThreads, ackShutdown(k) \/ releaseDeleteGuard(k)
    PROVE  LifeInv'
<1> USE DEF LifeInv
<1>1. at \in [Threads -> Stations]
      /\ k \in Threads /\ Owner \in Threads /\ Owner # k /\ TaskThreads \subseteq Threads
  BY ThreadsDiffer DEF TaskTypeOK
<1>2. UNCHANGED <<object, posts, hasty>>
  BY DEF ackShutdown, releaseDeleteGuard
<1>3. CASE ackShutdown(k)
  <2>1. mState \in {"RUNNING", "SHUTTING_DOWN"} /\ mTaskId = k
    BY <1>3 DEF ackShutdown, TaskTypeOK, Loops, Spent
  <2>2. at' = [at EXCEPT ![k] = "release"]
    BY <1>3, <2>1, ThreadsDiffer DEF ackShutdown, Move
  <2>3. at[k] = "ack" /\ mState' = "TERMINATED" /\ mTaskId' = NULL /\ mDeleteGuard' = mDeleteGuard
    BY <1>3 DEF ackShutdown
  <2>4. TaskTypeOK'
    BY <1>1, <1>2, <2>2, <2>3 DEF TaskTypeOK, Stations
  <2>5. Loops'
    BY <1>1, <2>1, <2>2, <2>3 DEF Loops, Spent
  <2>6. \A j \in TaskThreads : Alive(j)' <=> Alive(j)
    BY <1>1, <2>2, <2>3 DEF Alive
  <2>7. Lives'
    BY <1>1, <1>2, <2>2, <2>3, <2>6 DEF Lives
  <2> QED BY <1>1, <1>2, <2>2, <2>4, <2>5, <2>7
<1>4. CASE releaseDeleteGuard(k)
  <2>1. /\ at[k] = "release" /\ at' = [at EXCEPT ![k] = "over"]
        /\ mState' = mState /\ mTaskId' = mTaskId /\ mDeleteGuard' = 1
    BY <1>4 DEF releaseDeleteGuard, Move
  <2>2. TaskTypeOK'
    BY <1>1, <1>2, <2>1 DEF TaskTypeOK, Stations
  <2>3. Loops'
    BY <1>1, <2>1 DEF Loops, Spent
  <2>4. ~Alive(k)' /\ \A j \in TaskThreads : Alive(j)' => Alive(j)
    BY <1>1, <2>1 DEF Alive
  <2>5. ~hasty => \A j \in TaskThreads : ~Alive(j)'
    <3>1. Alive(k)
      BY <2>1 DEF Alive
    <3> QED BY <2>4, <3>1 DEF Lives
  <2>6. Lives'
    BY <1>2, <2>5 DEF Lives
  <2> QED BY <1>1, <1>2, <2>1, <2>2, <2>3, <2>6
<1> QED BY <1>3, <1>4

\* start makes a new thread; all the others have left, or hasty is set.
LEMMA StartLife ==
    ASSUME LifeInv, start
    PROVE  LifeInv'
<1> USE DEF LifeInv
<1>1. at \in [Threads -> Stations] /\ Owner \in Threads /\ Owner \notin TaskThreads
      /\ TaskThreads \subseteq Threads
  BY ThreadsDiffer DEF TaskTypeOK
<1>2. /\ at[Owner] = "idle" /\ mState \in {"UNINITIALIZED", "TERMINATED"}
      /\ mDeleteGuard' = 0 /\ UNCHANGED <<object, posts>>
  BY DEF start
<1>3. CASE UNCHANGED <<at, mTaskId, mState, hasty>>
  BY <1>2, <1>3 DEF TaskTypeOK, Loops, Lives, Spent, Alive
<1>4. ASSUME NEW k \in TaskThreads, at[k] = "none", Move(k, "entry"), mTaskId' = k,
             mState' = "RUNNING", hasty' = (hasty \/ Releasing)
      PROVE  LifeInv'
  <2>1. at' = [at EXCEPT ![k] = "entry"]
    BY <1>4 DEF Move
  <2>2. TaskTypeOK'
    BY <1>1, <1>2, <1>4, <2>1 DEF TaskTypeOK, Stations
  <2>3. \A j \in TaskThreads : Spent(j)
    BY <1>2 DEF Loops, Spent
  <2>4. Loops'
    BY <1>1, <1>4, <2>1, <2>3 DEF Loops, Spent
  <2>5. ~hasty' => \A j \in TaskThreads : ~Alive(j)
    BY <1>4, <2>3 DEF Releasing, Spent, Alive
  <2>6. Lives'
    BY <1>1, <1>2, <1>4, <2>1, <2>5 DEF Lives, Alive
  <2> QED BY <1>1, <1>2, <2>1, <2>2, <2>4, <2>6
<1> QED BY <1>3, <1>4 DEF start

\* The destructor finds no thread, or sets hasty.
LEMMA WaitLife ==
    ASSUME LifeInv, waitUntilShutDown
    PROVE  LifeInv'
<1> USE DEF LifeInv
<1>1. at \in [Threads -> Stations] /\ Owner \in Threads /\ Owner \notin TaskThreads
      /\ TaskThreads \subseteq Threads
  BY ThreadsDiffer DEF TaskTypeOK
<1>2. PICK b \in {"shut", "acquire", "flush"} :
          at' = [at EXCEPT ![Owner] = b] /\ (b = "flush" <=> mState \in {"UNINITIALIZED", "TERMINATED"})
  BY DEF waitUntilShutDown, Move, TaskTypeOK
<1>3. /\ UNCHANGED <<mTaskId, posts>> /\ object' = "destroying"
      /\ mState' = (IF mState = "UNINITIALIZED" THEN "TERMINATED" ELSE mState)
      /\ mDeleteGuard' = (IF mState \in {"UNINITIALIZED", "TERMINATED"} THEN 1 ELSE mDeleteGuard)
      /\ hasty' = (hasty \/ (mState = "TERMINATED" /\ Releasing))
  BY DEF waitUntilShutDown
<1>4. \A k \in TaskThreads : at'[k] = at[k]
  BY <1>1, <1>2
<1>5. TaskTypeOK'
  BY <1>1, <1>2, <1>3 DEF TaskTypeOK, Stations
<1>6. Loops'
  BY <1>3, <1>4 DEF Loops, Spent
<1>7. ~hasty' /\ mState \in {"UNINITIALIZED", "TERMINATED"} => \A j \in TaskThreads : ~Alive(j)
  BY <1>3 DEF Loops, Releasing, Spent, Alive
<1>8. Lives'
  BY <1>1, <1>2, <1>3, <1>4, <1>7 DEF Lives, Alive
<1> QED BY <1>3, <1>5, <1>6, <1>8

LEMMA DestructorLife ==
    ASSUME LifeInv, Destructor
    PROVE  LifeInv'
<1>1. PICK b \in {"flush", "flushing", "over"} :
          /\ Move(Owner, b)
          /\ object' = "destroyed" => b = "over"
  BY DEF Destructor, acquireDeleteGuard, flush, flushed, LifeInv
<1>2. /\ UNCHANGED <<mState, mTaskId, mDeleteGuard, posts, hasty>>
      /\ object' \in {"alive", "destroying", "destroyed"} /\ posts \in Nat
  BY DEF Destructor, acquireDeleteGuard, flush, flushed, LifeInv, TaskTypeOK
<1>3. ~hasty => \A k \in TaskThreads : ~Alive(k)
  BY DEF Destructor, acquireDeleteGuard, flush, flushed, LifeInv, Lives
<1>4. b \in Stations
  BY DEF Stations
<1> QED BY <1>1, <1>2, <1>3, <1>4, CallerLife

LEMMA CallLife ==
    ASSUME LifeInv, NEW p \in {Owner} \cup Clients,
           requestShutdown(p) \/ ask(p) \/ posted(p) \/ postMessage(p)
    PROVE  LifeInv'
<1>1. PICK b \in {"asking", "acquire", "asked", "idle", "posting"} : Move(p, b)
  BY DEF requestShutdown, ask, posted, postMessage
<1>2. /\ UNCHANGED <<mTaskId, mDeleteGuard, hasty, object>> /\ mState' \in {mState, Requested}
      /\ posts' \in Nat
  <2>1. posts \in Nat
    BY DEF LifeInv, TaskTypeOK
  <2>2. CASE requestShutdown(p)
    BY <2>1, <2>2 DEF requestShutdown
  <2>3. CASE ask(p)
    BY <2>1, <2>3 DEF ask
  <2>4. CASE posted(p)
    BY <2>1, <2>4 DEF posted
  <2>5. CASE postMessage(p)
    BY <2>1, <2>5 DEF postMessage
  <2> QED BY <2>2, <2>3, <2>4, <2>5
<1>3. p = Owner => object # "destroyed"
  BY DEF requestShutdown, ask, posted, postMessage, LifeInv
<1>4. b \in Stations /\ object' \in {"alive", "destroying", "destroyed"}
  BY <1>2 DEF Stations, LifeInv, TaskTypeOK
<1> QED BY <1>1, <1>2, <1>3, <1>4, CallerLife

LEMMA LifeNext ==
    ASSUME LifeInv, [TaskNext]_vars
    PROVE  LifeInv'
<1>1. CASE UNCHANGED taskVars
  BY <1>1 DEF taskVars, LifeInv, TaskTypeOK, Loops, Lives, Spent, Alive
<1>2. CASE start \/ waitUntilShutDown \/ Destructor
  BY <1>2, StartLife, WaitLife, DestructorLife
<1>3. CASE \E c \in Clients : postMessage(c)
  BY <1>3, CallLife
<1>4. CASE \E p \in {Owner} \cup Clients : requestShutdown(p) \/ ask(p) \/ posted(p)
  BY <1>4, CallLife
<1>5. CASE \E k \in TaskThreads : TaskRun(k)
  BY <1>5, LoopLife, EndLife DEF TaskRun
<1>6. CASE \E p \in Threads : InQueue(p) \/ TimeOut(p) \/ WakeUp(p)
  BY <1>1, <1>6 DEF InQueue, TimeOut, WakeUp
<1> QED BY <1>1, <1>2, <1>3, <1>4, <1>5, <1>6 DEF TaskNext, vars

\* mDeleteGuard stays binary and mState, mTaskId and the queue keep their
\* types, whoever starts, posts to, shuts down and destroys the task.
THEOREM TaskTypes == TaskSpec => []TypeOK
<1>1. TaskInit => LifeInv /\ QueueInv /\ Carrying
  BY LifeInit, QueueInit DEF TaskInit, Init, Carrying
<1>2. LifeInv /\ QueueInv /\ Carrying /\ [TaskNext]_vars => (LifeInv /\ QueueInv /\ Carrying)'
  BY LifeNext, QueueNext, TaskUsesQueue
<1>3. LifeInv /\ QueueInv => TypeOK
  BY DEF LifeInv, TaskTypeOK, QueueInv, TypeOK
<1> QED BY <1>1, <1>2, <1>3, PTL DEF TaskSpec

\* ~OsServerTask outlives every thread of the task, however often the task was
\* started and shut down and whoever asked for it, as long as nobody took
\* TERMINATED for the end of a thread (hasty).
THEOREM NoThreadLeft == TaskSpec => []GoneBeforeDestroyed
<1>1. TaskInit => LifeInv
  BY LifeInit
<1>2. LifeInv /\ [TaskNext]_vars => LifeInv'
  BY LifeNext
<1>3. LifeInv => GoneBeforeDestroyed
  BY DEF LifeInv, Lives, GoneBeforeDestroyed
<1> QED BY <1>1, <1>2, <1>3, PTL DEF TaskSpec
=============================================================================
