----------------------- MODULE SipTransactionListEvents -----------------------
(***************************************************************************)
(* The events with which a thread of the transaction list waits for a busy *)
(* transaction, for any number of threads, transactions and events.        *)
(*                                                                         *)
(* An event (OsEvent) has two sides: the thread that waits on it, and the  *)
(* waiting list, from which the thread that makes the transaction          *)
(* available takes it.  Each side signals the event once, with a test, a   *)
(* set and a post that others come between, and the second one frees it.   *)
(*   EventInv  which sides an event has, and what is left of a freed one;  *)
(*   Located   the list an event waits in is that of the top of a tree;    *)
(*   TimeInv   where no wait times out, a waiting thread leaves its event  *)
(*             to the other side until that one has posted it;             *)
(*   WakeInv   where no wait times out, a tree that threads wait for is    *)
(*             busy, or somebody is about to signal or to take it.         *)
(***************************************************************************)
EXTENDS SipTransactionListTrees

\* What each step is tried with, and for how long.
USE ZenonT(5), SMTT(20), ZenonT(60)

-----------------------------------------------------------------------------
\* The two sides of an event.

On(t) == Range(mWaitingList[t])
Once(s) == \A i, j \in 1..Len(s) : s[i] = s[j] => i = j

\* One side is the thread that waits on the event, or gives up and signals it.
Waits(p, e) == p # mListMutex /\ ev[p] = e
Waited(e) == \E p \in Threads : Waits(p, e)
\* The other side is the waiting list, and then the one that signals with
\* mListMutex what it took from there.
Listed(e) == \E t \in Transactions : e \in On(t)
Signaled(e) == \E p \in Procs : p = mListMutex /\ ev[p] = e
Pending(e) == Listed(e) \/ Signaled(e)

\* Each side has at most one reference to the event.
Single(e) ==
    /\ \A p, q \in Threads : Waits(p, e) /\ Waits(q, e) => p = q
    /\ \A t, u \in Transactions : e \in On(t) /\ e \in On(u) => t = u
    /\ Signaled(e) => ~Listed(e)

\* What a freed event leaves behind: a side that is about to post it.
Freed(e) ==
    e \notin allocated =>
        /\ ~mIsSignaled[e] /\ mSignalSem[e] = 0 /\ ~Listed(e)
        /\ \A p \in Procs : ev[p] = e => pc[p] = "post"

\* While both sides know the event, it is not signaled but by one that is about
\* to post it.
Shared(e) ==
    e \in allocated /\ Waited(e) /\ Pending(e) =>
        /\ mSignalSem[e] = 0
        /\ mIsSignaled[e] => \E p \in Procs : ev[p] = e /\ pc[p] = "post"

\* The side that is done with the event has signaled it and leaves it to the
\* other one; the semaphore stays posted until that one tests the flag.
Left(e) ==
    e \in allocated /\ ~(Waited(e) /\ Pending(e)) =>
        /\ Waited(e) \/ Pending(e)
        /\ mIsSignaled[e]
        /\ \A p \in Procs : ev[p] = e /\ pc[p] # "test" => mSignalSem[e] = 1
        /\ Listed(e) => mSignalSem[e] = 1

Posted(e) ==
    \A p \in Procs : ev[p] = e /\ pc[p] = "post" /\ e \in allocated => mIsSignaled[e]

Good(e) == Single(e) /\ Freed(e) /\ Shared(e) /\ Left(e) /\ Posted(e)

EventInv ==
    /\ \A t \in Transactions : Once(mWaitingList[t])
    /\ \A e \in Events : Good(e)

\* An event waits at the top of the tree its thread waits for.
Located ==
    /\ WaitersAtTheTop
    /\ \A e \in Events : \A p \in Threads : \A t \in Transactions :
         Waits(p, e) /\ e \in On(t) => tx[p] \in mTransactions /\ Top(tx[p]) = t

-----------------------------------------------------------------------------
\* Sequences of events.

LEMMA EmptyRange ==
    ASSUME NEW s \in Seq(Events)
    PROVE  s = <<>> <=> Range(s) = {}
<1>1. CASE s = <<>>
  BY <1>1 DEF Range
<1>2. CASE s # <<>>
  <2>1. DOMAIN s = 1..Len(s) /\ 1 \in 1..Len(s)
    BY <1>2
  <2> QED BY <1>2, <2>1 DEF Range
<1> QED BY <1>1, <1>2

LEMMA AppendRange ==
    ASSUME NEW s \in Seq(Events), NEW e \in Events
    PROVE  /\ Range(Append(s, e)) = Range(s) \cup {e}
           /\ Once(s) /\ e \notin Range(s) => Once(Append(s, e))
<1>1. /\ Len(Append(s, e)) = Len(s) + 1 /\ DOMAIN Append(s, e) = 1..(Len(s) + 1)
      /\ \A i \in 1..Len(s) : Append(s, e)[i] = s[i]
      /\ Append(s, e)[Len(s) + 1] = e /\ Len(s) \in Nat /\ DOMAIN s = 1..Len(s)
  OBVIOUS
<1>2. PICK a : a = Append(s, e)
  OBVIOUS
<1>3. Range(a) = Range(s) \cup {e}
  <2>1. ASSUME NEW x \in Range(a) PROVE x \in Range(s) \cup {e}
    <3>1. PICK i \in 1..(Len(s) + 1) : x = a[i]
      BY <1>1, <1>2, <2>1 DEF Range
    <3>2. CASE i = Len(s) + 1
      BY <1>1, <1>2, <3>1, <3>2
    <3>3. CASE i # Len(s) + 1
      <4>1. i \in 1..Len(s)
        BY <1>1, <3>1, <3>3
      <4> QED BY <1>1, <1>2, <3>1, <4>1 DEF Range
    <3> QED BY <3>2, <3>3
  <2>2. ASSUME NEW x \in Range(s) PROVE x \in Range(a)
    <3>1. PICK i \in 1..Len(s) : x = s[i]
      BY <1>1 DEF Range
    <3>2. i \in 1..(Len(s) + 1) /\ a[i] = x
      BY <1>1, <1>2, <3>1
    <3> QED BY <1>1, <1>2, <3>2 DEF Range
  <2>3. e \in Range(a)
    <3>1. Len(s) + 1 \in 1..(Len(s) + 1)
      BY <1>1
    <3> QED BY <1>1, <1>2, <3>1 DEF Range
  <2> QED BY <2>1, <2>2, <2>3
<1>4. ASSUME Once(s), e \notin Range(s)
      PROVE  Once(a)
  <2> SUFFICES ASSUME NEW i \in 1..(Len(s) + 1), NEW j \in 1..(Len(s) + 1), a[i] = a[j]
               PROVE  i = j
    BY <1>1, <1>2 DEF Once
  <2>1. \A k \in 1..Len(s) : s[k] \in Range(s)
    BY <1>1 DEF Range
  <2>2. \A k \in 1..(Len(s) + 1) : k = Len(s) + 1 \/ k \in 1..Len(s)
    BY <1>1
  <2> QED BY <1>1, <1>2, <1>4, <2>1, <2>2 DEF Once
<1> QED BY <1>2, <1>3, <1>4

LEMMA TailRange ==
    ASSUME NEW s \in Seq(Events), s # <<>>, Once(s)
    PROVE  /\ Head(s) \in Range(s)
           /\ Range(Tail(s)) = Range(s) \ {Head(s)}
           /\ Once(Tail(s))
<1>1. /\ Len(s) \in Nat /\ Len(s) > 0 /\ DOMAIN s = 1..Len(s) /\ Head(s) = s[1]
      /\ Len(Tail(s)) = Len(s) - 1 /\ DOMAIN Tail(s) = 1..(Len(s) - 1)
      /\ \A i \in 1..(Len(s) - 1) : Tail(s)[i] = s[i + 1]
  OBVIOUS
<1>2. PICK a, h : a = Tail(s) /\ h = Head(s)
  OBVIOUS
<1>3. h \in Range(s)
  <2>1. 1 \in 1..Len(s)
    BY <1>1
  <2> QED BY <1>1, <1>2, <2>1 DEF Range
<1>4. \A i \in 1..(Len(s) - 1) : i + 1 \in 1..Len(s) /\ i + 1 # 1 /\ a[i] = s[i + 1]
  BY <1>1, <1>2
<1>5. \A k \in 1..Len(s) : k = 1 \/ (k - 1 \in 1..(Len(s) - 1) /\ a[k - 1] = s[k])
  <2> SUFFICES ASSUME NEW k \in 1..Len(s), k # 1
               PROVE  k - 1 \in 1..(Len(s) - 1) /\ a[k - 1] = s[k]
    OBVIOUS
  <2>1. k - 1 \in 1..(Len(s) - 1) /\ (k - 1) + 1 = k
    BY <1>1
  <2> QED BY <1>4, <2>1
<1>6. 1 \in 1..Len(s)
  BY <1>1
<1>7. Range(a) = Range(s) \ {h}
  <2>1. ASSUME NEW x \in Range(a) PROVE x \in Range(s) \ {h}
    <3>1. PICK i \in 1..(Len(s) - 1) : x = a[i]
      BY <1>1, <1>2, <2>1 DEF Range
    <3>2. x = s[i + 1] /\ i + 1 \in 1..Len(s) /\ i + 1 # 1
      BY <1>4, <3>1
    <3>3. x # h
      BY <1>1, <1>2, <1>6, <3>2 DEF Once
    <3> QED BY <1>1, <3>2, <3>3 DEF Range
  <2>2. ASSUME NEW x \in Range(s), x # h PROVE x \in Range(a)
    <3>1. PICK k \in 1..Len(s) : x = s[k]
      BY <1>1 DEF Range
    <3>2. k # 1
      BY <1>1, <1>2, <2>2, <3>1
    <3> QED BY <1>1, <1>2, <1>5, <3>1, <3>2 DEF Range
  <2> QED BY <2>1, <2>2
<1>8. Once(a)
  <2> SUFFICES ASSUME NEW i \in 1..(Len(s) - 1), NEW j \in 1..(Len(s) - 1), a[i] = a[j]
               PROVE  i = j
    BY <1>1, <1>2 DEF Once
  <2>1. i + 1 = j + 1
    BY <1>4 DEF Once
  <2> QED BY <2>1
<1> QED BY <1>2, <1>3, <1>7, <1>8

-----------------------------------------------------------------------------
\* A step that leaves event e alone.
Same(e) ==
    /\ \A p \in Procs : ev'[p] = e <=> ev[p] = e
    /\ \A p \in Procs : ev[p] = e => pc'[p] = pc[p] /\ (mListMutex' = p <=> mListMutex = p)
    /\ \A t \in Transactions : e \in On(t)' <=> e \in On(t)
    /\ e \in allocated' <=> e \in allocated
    /\ mIsSignaled'[e] <=> mIsSignaled[e]
    /\ mSignalSem'[e] = mSignalSem[e]

LEMMA SameSides ==
    ASSUME NEW e, Same(e)
    PROVE  /\ \A p \in Procs : Waits(p, e)' <=> Waits(p, e)
           /\ Waited(e)' <=> Waited(e)
           /\ Listed(e)' <=> Listed(e)
           /\ Signaled(e)' <=> Signaled(e)
           /\ Pending(e)' <=> Pending(e)
<1>1. \A p \in Procs : Waits(p, e)' <=> Waits(p, e)
  BY DEF Waits, Same
<1>2. Waited(e)' <=> Waited(e)
  BY <1>1 DEF Waited, Procs
<1>3. Listed(e)' <=> Listed(e)
  BY DEF Listed, Same
<1>4. Signaled(e)' <=> Signaled(e)
  BY DEF Signaled, Same
<1> QED BY <1>1, <1>2, <1>3, <1>4 DEF Pending

LEMMA SameGood ==
    ASSUME NEW e, Good(e), Same(e)
    PROVE  Good(e)'
<1> USE SameSides
<1>1. Single(e)'
  BY DEF Good, Single, Same, Procs
<1>2. Freed(e)'
  BY DEF Good, Freed, Same
<1>3. Shared(e)'
  BY DEF Good, Shared, Same
<1>4. Left(e)'
  BY DEF Good, Left, Same
<1>5. Posted(e)'
  BY DEF Good, Posted, Same
<1> QED BY <1>1, <1>2, <1>3, <1>4, <1>5 DEF Good

-----------------------------------------------------------------------------
\* What the steps do to the events.

Known(S) == \A e \in S : Same(e)

\* Nobody but the holder of mListMutex and the waiting threads has an event.
LEMMA SidesAre ==
    ASSUME LockInv, NEW e \in Events, NEW p \in Procs, ev[p] = e
    PROVE  /\ p = mListMutex \/ (p \in Threads /\ Waits(p, e))
           /\ pc[p] \in {"wait", "test", "set", "post"}
           /\ p = mListMutex => Signaled(e)
           /\ p # mListMutex => Waited(e)
           /\ p = GC => p = mListMutex
<1>1. e # NULL /\ GC \notin Threads
  BY NoneIsNull
<1>2. CASE p = GC
  BY <1>1, <1>2 DEF LockInv, Places, Waits, Signaled
<1>3. CASE p # GC
  BY <1>1, <1>3 DEF LockInv, Places, Waits, Signaled, Waited, Procs
<1> QED BY <1>2, <1>3

LEMMA EventsStay ==
    ASSUME LockInv,
           UNCHANGED <<mWaitingList, ev, allocated, mIsSignaled, mSignalSem>>,
           \A p \in Procs : ev[p] # NULL =>
               pc'[p] = pc[p] /\ (mListMutex' = p <=> mListMutex = p)
    PROVE  Known(Events) /\ (EventInv => EventInv')
<1>1. \A e \in Events : Same(e)
  BY NoneIsNull DEF Same, On
<1>2. EventInv => EventInv'
  BY <1>1, SameGood DEF EventInv
<1> QED BY <1>1, <1>2 DEF Known

\* The steps in which no event takes part.
LEMMA EventsElsewhere ==
    ASSUME LockInv,
           \/ \E p \in Threads : \/ newTransaction(p) \/ linkChild(p)
                                 \/ completeTransaction(p) \/ findTransactionFor(p)
                                 \/ waitDone(p)
           \/ removeOldTransactions \/ deleteTransactions \/ Tick
    PROVE  Known(Events) /\ (EventInv => EventInv')
<1> USE NoneIsNull DEF At, Goto, eventVars, callVars, LockInv, Types, TypeOK, Places, Procs
<1>1. UNCHANGED <<mWaitingList, ev, allocated, mIsSignaled, mSignalSem>>
  BY DEF newTransaction, linkChild, completeTransaction, findTransactionFor, waitDone,
         removeOldTransactions, deleteTransactions, Tick
<1>2. ASSUME NEW p \in Threads,
             \/ newTransaction(p) \/ linkChild(p) \/ completeTransaction(p)
             \/ findTransactionFor(p) \/ waitDone(p)
      PROVE  \A q \in Procs : ev[q] # NULL =>
               pc'[q] = pc[q] /\ (mListMutex' = q <=> mListMutex = q)
  <2>1. mListMutex' = mListMutex /\ \/ pc' = pc
                                    \/ \E x : pc' = [pc EXCEPT ![p] = x] /\ ev[p] = NULL
    <3>1. CASE newTransaction(p) \/ linkChild(p) \/ completeTransaction(p)
      BY <3>1 DEF newTransaction, linkChild, completeTransaction
    <3>2. CASE findTransactionFor(p)
      BY <3>2 DEF findTransactionFor
    <3>3. CASE waitDone(p)
      BY <3>3 DEF waitDone
    <3> QED BY <1>2, <3>1, <3>2, <3>3
  <2> QED BY <2>1
<1>3. ASSUME removeOldTransactions \/ deleteTransactions
      PROVE  \A q \in Procs : ev[q] # NULL =>
               pc'[q] = pc[q] /\ (mListMutex' = q <=> mListMutex = q)
  <2>1. ev[GC] = NULL /\ mListMutex \in {NULL, GC} /\ mListMutex' \in {NULL, GC}
        /\ \E x : pc' = [pc EXCEPT ![GC] = x]
    BY <1>3 DEF removeOldTransactions, deleteTransactions
  <2> QED BY <2>1
<1>4. ASSUME Tick
      PROVE  UNCHANGED <<pc, mListMutex>>
  BY <1>4 DEF Tick
<1> QED BY <1>1, <1>2, <1>3, <1>4, EventsStay

\* A new event is put on the list.
Adds(p, e) ==
    /\ e \in Events /\ e # NULL /\ Known(Events \ {e})
    /\ tx[p] \in mTransactions /\ mIsBusy[tx[p]] /\ UNCHANGED <<tx, mIsBusy>>
    /\ e \notin allocated /\ e \in allocated'
    /\ \A q \in Procs : ev[q] # e
    /\ \A t \in Transactions : e \notin On(t)
    /\ Top(tx[p]) \in Transactions
    /\ \A t \in Transactions : On(t)' = IF t = Top(tx[p]) THEN On(t) \cup {e} ELSE On(t)
    /\ \A t \in Transactions : t # Top(tx[p]) => mWaitingList'[t] = mWaitingList[t]
    /\ \A t \in Transactions : Once(mWaitingList'[t])
    /\ ev'[p] = e /\ pc'[p] = "wait"
    /\ \A q \in Procs \ {p} : ev'[q] = ev[q] /\ pc'[q] = pc[q]
    /\ UNCHANGED <<mIsSignaled, mSignalSem>>

LEMMA WaitFacts ==
    ASSUME LockInv, EventInv, NEW p \in Threads, waitUntilAvailable(p)
    PROVE  \/ /\ Known(Events) /\ UNCHANGED <<mWaitingList, ev, allocated, mIsSignaled, mSignalSem>>
              /\ \/ /\ tx[p] \notin mTransactions /\ tx' = [tx EXCEPT ![p] = NULL]
                    /\ pc' = [pc EXCEPT ![p] = "idle"] /\ UNCHANGED mIsBusy
                 \/ /\ tx[p] \in mTransactions /\ markBusy(tx[p])
                    /\ pc' = [pc EXCEPT ![p] = "hold"] /\ UNCHANGED tx
           \/ \E e : Adds(p, e)
<1> USE NoneIsNull DEF At, Goto, ageVars, eventVars
<1>1. pc[p] = "retry" /\ mListMutex = NULL /\ p # GC /\ p \in Procs /\ ev[p] = NULL
      /\ mListMutex' = mListMutex
  BY DEF waitUntilAvailable, Procs, LockInv, Places
<1>2. tx[p] \in Transactions
  BY <1>1 DEF LockInv, Places, Types, TypeOK
<1>3. ASSUME UNCHANGED <<mWaitingList, ev, allocated, mIsSignaled, mSignalSem>>,
             NEW x, pc' = [pc EXCEPT ![p] = x]
      PROVE  Known(Events)
  <2>1. \A q \in Procs : ev[q] # NULL => pc'[q] = pc[q]
    BY <1>1, <1>3 DEF LockInv, Types, TypeOK
  <2> QED BY <1>1, <1>3, <2>1, EventsStay
<1>4. CASE /\ tx[p] \notin mTransactions
           /\ tx' = [tx EXCEPT ![p] = NULL]
           /\ pc' = [pc EXCEPT ![p] = "idle"]
           /\ UNCHANGED <<mIsBusy, mWaitingList, eventVars, ev>>
  BY <1>3, <1>4
<1>5. CASE /\ tx[p] \in mTransactions
           /\ markBusy(tx[p])
           /\ pc' = [pc EXCEPT ![p] = "hold"]
           /\ UNCHANGED <<mWaitingList, eventVars, tx, ev>>
  BY <1>3, <1>5
<1>6. ASSUME tx[p] \in mTransactions, mIsBusy[tx[p]],
             NEW e \in OneOf(FreeAddresses),
             allocated' = allocated \cup {e},
             notifyWhenAvailable(tx[p], e),
             ev' = [ev EXCEPT ![p] = e],
             pc' = [pc EXCEPT ![p] = "wait"],
             UNCHANGED <<mIsBusy, tx, mIsSignaled, mSignalSem>>
      PROVE  Adds(p, e)
  <2>1. /\ e \in Events /\ e \notin allocated /\ \A q \in Procs : ev[q] # e
        /\ \A t \in Transactions : e \notin On(t)
    BY OneOfMany, SettingType DEF FreeAddresses, LockInv, Types, TypeOK, On
  <2>2. PICK r \in Transactions : r = Top(tx[p])
    BY <1>2, Tops DEF LockInv
  <2>3. PICK s \in Seq(Events) : s = mWaitingList[r] /\ Once(s)
    BY <2>2 DEF LockInv, Types, EventInv
  <2>4. \A t \in Transactions : mWaitingList'[t] = IF t = r THEN Append(s, e) ELSE mWaitingList[t]
    BY <1>6, <2>2, <2>3 DEF notifyWhenAvailable, LockInv, Types
  <2>5. \A t \in Transactions : On(t)' = IF t = r THEN On(t) \cup {e} ELSE On(t)
    BY <2>1, <2>3, <2>4, AppendRange DEF On
  <2>6. \A t \in Transactions : Once(mWaitingList'[t])
    BY <2>1, <2>2, <2>3, <2>4, AppendRange DEF On, EventInv
  <2>7. ev'[p] = e /\ pc'[p] = "wait" /\ \A q \in Procs \ {p} : ev'[q] = ev[q] /\ pc'[q] = pc[q]
    BY <1>1, <1>6 DEF LockInv, Types, TypeOK
  <2>8. ASSUME NEW d \in Events \ {e} PROVE Same(d)
    <3>1. \A q \in Procs : ev'[q] = d <=> ev[q] = d
      BY <1>1, <2>7
    <3>2. \A q \in Procs : ev[q] = d => pc'[q] = pc[q] /\ (mListMutex' = q <=> mListMutex = q)
      BY <1>1, <2>7
    <3>3. \A t \in Transactions : d \in On(t)' <=> d \in On(t)
      BY <2>5
    <3> QED BY <1>6, <3>1, <3>2, <3>3 DEF Same
  <2> QED BY <1>6, <2>1, <2>2, <2>4, <2>5, <2>6, <2>7, <2>8 DEF Known, Adds
<1> QED BY <1>4, <1>5, <1>6 DEF waitUntilAvailable

LEMMA EventsWait ==
    ASSUME LockInv, EventInv, NEW p \in Threads, waitUntilAvailable(p)
    PROVE  EventInv'
<1>1. CASE UNCHANGED <<mWaitingList, ev, allocated, mIsSignaled, mSignalSem>> /\ Known(Events)
  BY <1>1, SameGood DEF EventInv, Known
<1>2. ASSUME NEW e, Adds(p, e)
      PROVE  EventInv'
  <2> USE <1>2 DEF Adds
  <2>1. mListMutex' = NULL /\ NULL \notin Procs
    BY NoneIsNull DEF waitUntilAvailable, At, Procs
  <2>2. /\ \A q \in Threads : Waits(q, e)' <=> q = p
        /\ \A t \in Transactions : e \in On(t)' <=> t = Top(tx[p])
        /\ ~Signaled(e)'
    BY <1>2, <2>1 DEF Waits, Signaled, Procs
  <2>3. Waited(e)' /\ Listed(e)'
    BY <1>2, <2>2 DEF Waited, Listed
  <2>4. ~mIsSignaled'[e] /\ mSignalSem'[e] = 0
    BY <1>2 DEF EventInv, Good, Freed
  <2>5. \A q \in Procs : ev'[q] = e => q = p
    BY <1>2
  <2>6. Good(e)'
    BY <1>2, <2>2, <2>3, <2>4, <2>5 DEF Good, Single, Freed, Shared, Left, Posted, Pending
  <2> QED BY <1>2, <2>6, SameGood DEF EventInv, Known
<1> QED BY <1>1, <1>2, WaitFacts

\* The holder of mListMutex takes the first event of a list.
Takes(p, t, e) ==
    /\ p \in Procs /\ t \in Transactions /\ e \in Events
    /\ ev[p] = NULL /\ ev'[p] = e /\ pc'[p] = "test"
    /\ \A q \in Procs \ {p} : ev'[q] = ev[q] /\ pc'[q] = pc[q]
    /\ mListMutex \in {NULL, p} /\ mListMutex' = p
    /\ e \in On(t)
    /\ \A u \in Transactions : On(u)' = IF u = t THEN On(t) \ {e} ELSE On(u)
    /\ \A u \in Transactions : u # t => mWaitingList'[u] = mWaitingList[u]
    /\ \A u \in Transactions : Once(mWaitingList'[u])
    /\ Known(Events \ {e})
    /\ UNCHANGED <<allocated, mIsSignaled, mSignalSem>>

LEMMA TakeFacts ==
    ASSUME LockInv, EventInv, NEW p \in Procs, NEW t \in Transactions,
           ev[p] = NULL, mListMutex \in {NULL, p}, mListMutex' = p,
           mWaitingList[t] # <<>>,
           mWaitingList' = [mWaitingList EXCEPT ![t] = Tail(mWaitingList[t])],
           ev' = [ev EXCEPT ![p] = Head(mWaitingList[t])],
           pc' = [pc EXCEPT ![p] = "test"],
           UNCHANGED <<allocated, mIsSignaled, mSignalSem>>
    PROVE  Takes(p, t, Head(mWaitingList[t]))
<1>1. PICK s \in Seq(Events) : s = mWaitingList[t] /\ Once(s) /\ s # <<>>
  BY DEF LockInv, Types, EventInv
<1>2. PICK e \in Events, r \in Seq(Events) : e = Head(s) /\ r = Tail(s)
  BY <1>1, TailType
<1>3. e \in Range(s) /\ Range(r) = Range(s) \ {e} /\ Once(r)
  BY <1>1, <1>2, TailRange
<1>4. \A u \in Transactions : mWaitingList'[u] = IF u = t THEN r ELSE mWaitingList[u]
  BY <1>1, <1>2 DEF LockInv, Types
<1>5. \A u \in Transactions : On(u)' = IF u = t THEN On(t) \ {e} ELSE On(u)
  <2>1. ASSUME NEW u \in Transactions, u # t PROVE On(u)' = On(u)
    BY <1>4, <2>1 DEF On
  <2>2. mWaitingList'[t] = r
    BY <1>4
  <2>3. On(t)' = On(t) \ {e}
    BY <1>1, <1>3, <2>2 DEF On
  <2> QED BY <2>1, <2>3
<1>6. \A u \in Transactions : Once(mWaitingList'[u])
  BY <1>3, <1>4 DEF EventInv
<1>7. /\ ev'[p] = e /\ pc'[p] = "test"
      /\ \A q \in Procs \ {p} : ev'[q] = ev[q] /\ pc'[q] = pc[q]
  BY <1>1, <1>2 DEF LockInv, Types, TypeOK
<1>8. ASSUME NEW d \in Events \ {e} PROVE Same(d)
  <2>1. d # NULL
    BY NoneIsNull
  <2>2. \A q \in Procs : ev'[q] = d <=> ev[q] = d
    BY <1>7, <2>1
  <2>3. NULL \notin Procs
    BY NoneIsNull DEF Procs
  <2>4. \A q \in Procs : ev[q] = d => pc'[q] = pc[q] /\ (mListMutex' = q <=> mListMutex = q)
    BY <1>7, <2>1, <2>3
  <2>5. \A u \in Transactions : d \in On(u)' <=> d \in On(u)
    BY <1>5
  <2> QED BY <2>2, <2>4, <2>5 DEF Same
<1>9. e \in On(t)
  BY <1>1, <1>3 DEF On
<1> QED BY <1>1, <1>2, <1>4, <1>5, <1>6, <1>7, <1>8, <1>9 DEF Takes, Known

LEMMA EventsTake ==
    ASSUME LockInv, EventInv, NEW p, NEW t, NEW e, Takes(p, t, e)
    PROVE  EventInv'
<1> USE DEF Takes
<1>1. Good(e) /\ Listed(e) /\ e # NULL /\ NULL \notin Procs
  BY NoneIsNull DEF EventInv, Listed, Procs
<1>2. ~Signaled(e) /\ \A u \in Transactions : e \in On(u) => u = t
  BY <1>1 DEF Good, Single
<1>3. Signaled(e)' /\ ~Listed(e)'
  BY <1>2 DEF Signaled, Listed
<1>4. \A q \in Threads : Waits(q, e)' <=> Waits(q, e)
  BY <1>1, <1>2 DEF Waits, Signaled, Procs
<1>5. Waited(e)' <=> Waited(e)
  BY <1>4 DEF Waited
<1>6. e \in allocated
  BY <1>1 DEF Good, Freed
<1>7. Single(e)'
  BY <1>1, <1>3, <1>4, <1>2 DEF Good, Single, Listed
<1>8. Freed(e)' /\ Posted(e)'
  <2>1. \A q \in Procs : ev'[q] = e /\ pc'[q] = "post" => ev[q] = e /\ pc[q] = "post"
    OBVIOUS
  <2> QED BY <1>1, <1>6, <2>1 DEF Good, Freed, Posted
<1>9. Shared(e)'
  <2> SUFFICES ASSUME Waited(e)
               PROVE  /\ mSignalSem'[e] = 0
                      /\ mIsSignaled'[e] => \E q \in Procs : ev'[q] = e /\ pc'[q] = "post"
    BY <1>5 DEF Shared
  <2>1. /\ mSignalSem[e] = 0
        /\ mIsSignaled[e] => \E q \in Procs : ev[q] = e /\ pc[q] = "post"
    BY <1>1, <1>6 DEF Good, Shared, Pending
  <2>2. \A q \in Procs : ev[q] = e => q # p
    BY <1>1
  <2> QED BY <2>1, <2>2
<1>10. Left(e)'
  <2> SUFFICES ASSUME ~Waited(e)
               PROVE  mIsSignaled[e] /\ mSignalSem[e] = 1
    BY <1>3, <1>5 DEF Left, Pending
  <2> QED BY <1>1, <1>6 DEF Good, Left
<1>11. Good(e)'
  BY <1>7, <1>8, <1>9, <1>10 DEF Good
<1> QED BY <1>11, SameGood DEF EventInv, Known

LEMMA ReleaseEvents ==
    ASSUME LockInv, EventInv, NEW p \in Threads, markAvailable(p)
    PROVE  \/ /\ mWaitingList[Top(tx[p])] = <<>> /\ Known(Events) /\ pc'[p] = "idle"
              /\ UNCHANGED <<mWaitingList, ev, mListMutex, allocated, mIsSignaled, mSignalSem>>
           \/ mWaitingList[Top(tx[p])] # <<>> /\ \E e : Takes(p, Top(tx[p]), e)
<1> DEFINE t == Top(tx[p])
<1>1. /\ p \in Procs /\ ev[p] = NULL /\ t \in Transactions /\ mListMutex = NULL
      /\ UNCHANGED <<allocated, mIsSignaled, mSignalSem>>
  BY ReleaseFacts DEF Procs, LockInv, Places, Types, TypeOK
<1>2. \/ /\ mWaitingList[t] = <<>>
         /\ pc' = [pc EXCEPT ![p] = "idle"] /\ UNCHANGED <<mWaitingList, ev, mListMutex>>
      \/ /\ mWaitingList[t] # <<>>
         /\ mWaitingList' = [mWaitingList EXCEPT ![t] = Tail(@)]
         /\ ev' = [ev EXCEPT ![p] = Head(mWaitingList[t])]
         /\ mListMutex' = p /\ pc' = [pc EXCEPT ![p] = "test"]
  BY ReleaseFacts
<1> HIDE DEF t
<1>3. CASE /\ mWaitingList[t] = <<>>
           /\ pc' = [pc EXCEPT ![p] = "idle"] /\ UNCHANGED <<mWaitingList, ev, mListMutex>>
  <2>1. pc'[p] = "idle" /\ \A q \in Procs : ev[q] # NULL => pc'[q] = pc[q]
    BY <1>1, <1>3 DEF LockInv, Types, TypeOK
  <2>2. Known(Events)
    BY <1>1, <1>3, <2>1, EventsStay
  <2> QED BY <1>1, <1>3, <2>1, <2>2 DEF t
<1>4. CASE /\ mWaitingList[t] # <<>>
           /\ mWaitingList' = [mWaitingList EXCEPT ![t] = Tail(@)]
           /\ ev' = [ev EXCEPT ![p] = Head(mWaitingList[t])]
           /\ mListMutex' = p /\ pc' = [pc EXCEPT ![p] = "test"]
  <2>1. Takes(p, t, Head(mWaitingList[t]))
    BY <1>1, <1>4, TakeFacts
  <2> QED BY <1>4, <2>1 DEF t
<1> QED BY <1>2, <1>3, <1>4

LEMMA SweepEvents ==
    ASSUME LockInv, EventInv, signalAllAvailable
    PROVE  \E d \in doomed : \E e : Takes(GC, Top(d), e)
<1>1. PICK t \in Transactions, e \in Events, s \in Seq(Events) :
             /\ \E d \in doomed : t = Top(d)
             /\ mWaitingList[t] # <<>> /\ e = Head(mWaitingList[t]) /\ s = Tail(mWaitingList[t])
             /\ mWaitingList' = [mWaitingList EXCEPT ![t] = s]
             /\ ev' = [ev EXCEPT ![GC] = e]
             /\ pc[GC] = "sweep" /\ pc' = [pc EXCEPT ![GC] = "test"]
             /\ mListMutex = GC
             /\ UNCHANGED <<allocated, mIsSignaled, mSignalSem, mListMutex>>
  BY SweepFacts
<1>2. GC \in Procs /\ ev[GC] = NULL
  BY <1>1 DEF Procs, LockInv, Places
<1>3. Takes(GC, t, e)
  BY <1>1, <1>2, TakeFacts
<1> QED BY <1>1, <1>3

\* The semaphore answers a waiting thread: the other side has left.
LEMMA SignaledFacts ==
    ASSUME LockInv, EventInv, NEW p \in Threads, waitSignaled(p)
    PROVE  \E e \in Events :
             /\ e = ev[p] /\ ev' = ev /\ pc[p] = "wait" /\ pc'[p] = "test" /\ Waits(p, e)
             /\ \A q \in Procs \ {p} : pc'[q] = pc[q]
             /\ e \in allocated /\ ~Pending(e) /\ mIsSignaled[e]
             /\ mSignalSem[e] = 1 /\ mSignalSem'[e] = 0
             /\ \A d \in Events \ {e} : mSignalSem'[d] = mSignalSem[d]
             /\ Known(Events \ {e})
             /\ UNCHANGED <<mTransactions, parent, mIsBusy, doomed, mWaitingList, allocated,
                            mIsSignaled, mListMutex, tx, err>>
             /\ waitTime' = [waitTime EXCEPT ![p] = @ + 1]
             /\ waitStatus' = [waitStatus EXCEPT ![p] = TRUE]
<1> USE NoneIsNull DEF treeVars
<1>1. /\ pc[p] = "wait" /\ mSignalSem[ev[p]] = 1
      /\ mSignalSem' = [mSignalSem EXCEPT ![ev[p]] = 0]
      /\ pc' = [pc EXCEPT ![p] = "test"]
      /\ UNCHANGED <<mTransactions, parent, mIsBusy, doomed, mWaitingList, allocated,
                     mIsSignaled, mListMutex, tx, ev, err>>
      /\ waitTime' = [waitTime EXCEPT ![p] = @ + 1]
      /\ waitStatus' = [waitStatus EXCEPT ![p] = TRUE]
  BY DEF waitSignaled, At, Goto
<1>2. PICK e \in Events : e = ev[p]
  BY <1>1 DEF LockInv, Places, Types, TypeOK, Procs
<1>3. p \in Procs /\ p # mListMutex
  BY <1>1 DEF Procs, LockInv, Places
<1>4. Waits(p, e) /\ Waited(e)
  BY <1>2, <1>3 DEF Waits, Waited
<1>5. Good(e)
  BY DEF EventInv
<1>6. e \in allocated
  BY <1>1, <1>2, <1>5 DEF Good, Freed
<1>7. ~Pending(e) /\ mIsSignaled[e]
  BY <1>1, <1>2, <1>4, <1>5, <1>6 DEF Good, Shared, Left
<1>8. /\ mSignalSem'[e] = 0 /\ \A d \in Events \ {e} : mSignalSem'[d] = mSignalSem[d]
      /\ pc'[p] = "test" /\ \A q \in Procs \ {p} : pc'[q] = pc[q]
  BY <1>1, <1>2, <1>3 DEF LockInv, Types, TypeOK
<1>9. ASSUME NEW d \in Events \ {e} PROVE Same(d)
  BY <1>1, <1>2, <1>8 DEF Same, On
<1> QED BY <1>1, <1>2, <1>4, <1>6, <1>7, <1>8, <1>9 DEF Known

LEMMA EventsSignaled ==
    ASSUME LockInv, EventInv, NEW p \in Threads, waitSignaled(p)
    PROVE  EventInv'
<1>1. PICK e \in Events :
             /\ e = ev[p] /\ ev' = ev /\ pc[p] = "wait" /\ pc'[p] = "test" /\ Waits(p, e)
             /\ \A q \in Procs \ {p} : pc'[q] = pc[q]
             /\ e \in allocated /\ ~Pending(e) /\ mIsSignaled[e]
             /\ mSignalSem'[e] = 0
             /\ Known(Events \ {e})
             /\ UNCHANGED <<mWaitingList, allocated, mIsSignaled, mListMutex>>
  BY SignaledFacts
<1>2. Good(e)
  BY DEF EventInv
<1>3. /\ \A q \in Procs : Waits(q, e)' <=> Waits(q, e)
      /\ Listed(e)' <=> Listed(e)
      /\ Signaled(e)' <=> Signaled(e)
  BY <1>1 DEF Waits, Listed, Signaled, On
<1>4. Waited(e)' /\ ~Pending(e)' /\ ~Listed(e)' /\ ~Signaled(e)'
  BY <1>1, <1>3 DEF Waited, Pending, Procs
<1>5. \A q \in Procs : ev[q] = e => q = p
  BY <1>1, <1>2, SidesAre DEF Good, Single, Pending
<1>6. Single(e)'
  BY <1>1, <1>2, <1>3, <1>4 DEF Good, Single, Procs, On
<1>7. Freed(e)' /\ Shared(e)' /\ Posted(e)'
  BY <1>1, <1>4 DEF Freed, Shared, Posted
<1>8. Left(e)'
  BY <1>1, <1>4, <1>5 DEF Left
<1>9. Good(e)'
  BY <1>6, <1>7, <1>8 DEF Good
<1> QED BY <1>1, <1>9, SameGood DEF EventInv, Known

LEMMA EventsTimedOut ==
    ASSUME LockInv, EventInv, NEW p \in Threads, waitTimedOut(p)
    PROVE  EventInv'
<1>1. /\ pc[p] = "wait" /\ p \in Procs
      /\ UNCHANGED <<mWaitingList, allocated, mIsSignaled, mSignalSem, mListMutex, ev>>
      /\ \E x \in {"wait", "test"} : pc' = [pc EXCEPT ![p] = x]
  BY DEF waitTimedOut, At, Goto, Procs, eventVars
<1>2. PICK e \in Events : e = ev[p]
  BY <1>1 DEF LockInv, Places, Types, TypeOK, Procs
<1>3. pc'[p] \in {"wait", "test"} /\ \A q \in Procs \ {p} : pc'[q] = pc[q]
  BY <1>1 DEF LockInv, Types, TypeOK
<1>4. ASSUME NEW d \in Events \ {e} PROVE Same(d)
  BY <1>1, <1>2, <1>3 DEF Same, On
<1>5. Good(e)
  BY DEF EventInv
<1>6. /\ \A q \in Procs : Waits(q, e)' <=> Waits(q, e)
      /\ Listed(e)' <=> Listed(e)
      /\ Signaled(e)' <=> Signaled(e)
  BY <1>1 DEF Waits, Listed, Signaled, On
<1>7. (Waited(e)' <=> Waited(e)) /\ (Pending(e)' <=> Pending(e))
  BY <1>6 DEF Waited, Pending, Procs
<1>8. Single(e)'
  BY <1>1, <1>5, <1>6 DEF Good, Single, Procs, On
<1>9. e \in allocated
  BY <1>1, <1>2, <1>5 DEF Good, Freed
<1>10. \A q \in Procs : pc'[q] = "post" <=> pc[q] = "post"
  BY <1>1, <1>3
<1>11. Freed(e)' /\ Posted(e)'
  BY <1>1, <1>5, <1>9, <1>10 DEF Good, Freed, Posted
<1>12. Shared(e)'
  BY <1>1, <1>5, <1>7, <1>10 DEF Good, Shared
<1>13. Left(e)'
  BY <1>1, <1>2, <1>3, <1>5, <1>6, <1>7 DEF Good, Left
<1>14. Good(e)'
  BY <1>8, <1>11, <1>12, <1>13 DEF Good
<1> QED BY <1>1, <1>4, <1>14, SameGood DEF EventInv

-----------------------------------------------------------------------------
\* OsEvent::signal.

\* p, in signal of e, returns from it.
Drops(p, e) ==
    /\ ev[p] = e /\ ev'[p] = NULL
    /\ \A q \in Procs \ {p} : /\ ev'[q] = ev[q] /\ pc'[q] = pc[q]
                              /\ mListMutex' = q <=> mListMutex = q
    /\ \/ p = GC /\ mListMutex = p /\ mListMutex' = p /\ pc'[p] = "sweep"
       \/ p \in Threads /\ mListMutex = p /\ mListMutex' = NULL /\ pc'[p] = "idle"
       \/ p \in Threads /\ mListMutex # p /\ mListMutex' = mListMutex /\ pc'[p] = "after"
    /\ UNCHANGED mWaitingList

LEMMA DropFacts ==
    ASSUME LockInv, NEW p \in Procs, NEW e \in Events, ev[p] = e, Return(p),
           ev' = [ev EXCEPT ![p] = NULL], UNCHANGED mWaitingList
    PROVE  Drops(p, e)
<1>1. ev'[p] = NULL /\ \A q \in Procs \ {p} : ev'[q] = ev[q]
  BY DEF LockInv, Types, TypeOK
<1>2. /\ \A q \in Procs \ {p} : pc'[q] = pc[q] /\ (mListMutex' = q <=> mListMutex = q)
      /\ \/ p = GC /\ mListMutex' = mListMutex /\ pc'[p] = "sweep"
         \/ p \in Threads /\ mListMutex = p /\ mListMutex' = NULL /\ pc'[p] = "idle"
         \/ p \in Threads /\ mListMutex # p /\ mListMutex' = mListMutex /\ pc'[p] = "after"
  <2> USE NoneIsNull DEF Goto, Procs
  <2>1. CASE p = GC
    BY <2>1 DEF Return, LockInv, Types, TypeOK
  <2>2. CASE p # GC /\ mListMutex = p
    BY <2>2 DEF Return, LockInv, Types, TypeOK
  <2>3. CASE p # GC /\ mListMutex # p
    BY <2>3 DEF Return, LockInv, Types, TypeOK
  <2> QED BY <2>1, <2>2, <2>3
<1>3. p = GC => mListMutex = GC
  BY SidesAre
<1> QED BY <1>1, <1>2, <1>3 DEF Drops

LEMMA DropSides ==
    ASSUME LockInv, NEW p \in Procs, NEW e \in Events, Drops(p, e)
    PROVE  /\ \A q \in Procs : ev'[q] = e <=> ev[q] = e /\ q # p
           /\ \A q \in Procs : Waits(q, e)' <=> Waits(q, e) /\ q # p
           /\ Waited(e)' <=> \E q \in Threads : Waits(q, e) /\ q # p
           /\ Listed(e)' <=> Listed(e)
           /\ Signaled(e)' <=> Signaled(e) /\ p # mListMutex
           /\ \A d \in Events \ {e} :
                /\ d \in allocated' <=> d \in allocated
                /\ mIsSignaled'[d] <=> mIsSignaled[d]
                /\ mSignalSem'[d] = mSignalSem[d]
                => Same(d)
<1>1. e # NULL /\ NULL \notin Procs
  BY NoneIsNull DEF Procs
<1>2. \A q \in Procs : ev'[q] = e <=> ev[q] = e /\ q # p
  BY <1>1 DEF Drops
<1>3. \A q \in Procs : Waits(q, e)' <=> Waits(q, e) /\ q # p
  BY <1>2 DEF Drops, Waits
<1>4. Waited(e)' <=> \E q \in Threads : Waits(q, e) /\ q # p
  BY <1>3 DEF Waited, Procs
<1>5. Listed(e)' <=> Listed(e)
  BY DEF Drops, Listed, On
<1>6. Signaled(e)' <=> Signaled(e) /\ p # mListMutex
  BY <1>2 DEF Drops, Signaled
<1>7. ASSUME NEW d \in Events \ {e},
             d \in allocated' <=> d \in allocated, mIsSignaled'[d] <=> mIsSignaled[d],
             mSignalSem'[d] = mSignalSem[d]
      PROVE  Same(d)
  <2>1. d # NULL
    BY NoneIsNull
  <2> QED BY <1>7, <2>1 DEF Drops, Same, On
<1> QED BY <1>2, <1>3, <1>4, <1>5, <1>6, <1>7

\* An event that has been signaled already is left by the other side, or that one
\* is about to post it: it is freed, and the other side's reference dangles.
TestsSignaled(p, e) ==
    /\ Drops(p, e) /\ mIsSignaled[e] /\ Known(Events \ {e}) /\ err' = err
    /\ e \in allocated /\ allocated' = allocated \ {e}
    /\ ~mIsSignaled'[e] /\ mSignalSem'[e] = 0
    /\ \A d \in Events \ {e} : mSignalSem'[d] = mSignalSem[d]
\* Otherwise signal goes on.
GoesOn(p, e, x) ==
    /\ ev[p] = e /\ e \in allocated /\ pc'[p] = x
    /\ \A q \in Procs \ {p} : pc'[q] = pc[q]
    /\ Known(Events \ {e})
    /\ UNCHANGED <<mWaitingList, allocated, mSignalSem, mListMutex, ev, err>>

LEMMA TestFacts ==
    ASSUME LockInv, EventInv, NEW p \in Procs, signalTest(p)
    PROVE  \E e \in Events : /\ e = ev[p] /\ pc[p] = "test"
                             /\ \/ TestsSignaled(p, e)
                                \/ GoesOn(p, e, "set") /\ ~mIsSignaled[e] /\ ~mIsSignaled'[e]
<1>1. pc[p] = "test" /\ UNCHANGED mWaitingList
  BY DEF signalTest, At, UNCHANGED_BY_SIGNAL
<1>2. PICK e \in Events : e = ev[p]
  BY <1>1 DEF LockInv, Places, Types, TypeOK, Procs
<1>3. e \in allocated
  BY <1>1, <1>2 DEF EventInv, Good, Freed
<1>4. CASE mIsSignaled[e]
  <2>1. /\ allocated' = allocated \ {e} /\ err' = err
        /\ mIsSignaled' = [mIsSignaled EXCEPT ![e] = FALSE]
        /\ mSignalSem' = [mSignalSem EXCEPT ![e] = 0]
        /\ ev' = [ev EXCEPT ![p] = NULL] /\ Return(p)
    BY <1>2, <1>3, <1>4 DEF signalTest
  <2>2. /\ ~mIsSignaled'[e] /\ mSignalSem'[e] = 0
        /\ \A d \in Events \ {e} :
             (mIsSignaled'[d] <=> mIsSignaled[d]) /\ mSignalSem'[d] = mSignalSem[d]
    BY <2>1 DEF LockInv, Types, TypeOK
  <2>3. Drops(p, e)
    BY <1>1, <1>2, <2>1, DropFacts
  <2>4. Known(Events \ {e})
    BY <2>1, <2>2, <2>3, DropSides DEF Known
  <2>5. TestsSignaled(p, e)
    BY <1>3, <1>4, <2>1, <2>2, <2>3, <2>4 DEF TestsSignaled
  <2> QED BY <1>1, <1>2, <2>5
<1>5. CASE ~mIsSignaled[e]
  <2>1. /\ pc' = [pc EXCEPT ![p] = "set"]
        /\ UNCHANGED <<mListMutex, ev, allocated, mIsSignaled, mSignalSem, err>>
    BY <1>2, <1>3, <1>5 DEF signalTest, Goto, eventVars
  <2>2. pc'[p] = "set" /\ \A q \in Procs \ {p} : pc'[q] = pc[q]
    BY <2>1 DEF LockInv, Types, TypeOK
  <2>3. ASSUME NEW d \in Events \ {e} PROVE Same(d)
    BY <1>1, <1>2, <2>1, <2>2 DEF Same, On
  <2>4. GoesOn(p, e, "set")
    BY <1>1, <1>2, <1>3, <2>1, <2>2, <2>3 DEF GoesOn, Known
  <2> QED BY <1>1, <1>2, <1>5, <2>1, <2>4
<1> QED BY <1>4, <1>5

LEMMA SetFacts ==
    ASSUME LockInv, EventInv, NEW p \in Procs, signalSet(p)
    PROVE  \E e \in Events :
             e = ev[p] /\ pc[p] = "set" /\ GoesOn(p, e, "post") /\ mIsSignaled'[e]
<1>1. pc[p] = "set" /\ UNCHANGED mWaitingList
  BY DEF signalSet, At, UNCHANGED_BY_SIGNAL
<1>2. PICK e \in Events : e = ev[p]
  BY <1>1 DEF LockInv, Places, Types, TypeOK, Procs
<1>3. e \in allocated
  BY <1>1, <1>2 DEF EventInv, Good, Freed
<1>4. /\ pc' = [pc EXCEPT ![p] = "post"]
      /\ mIsSignaled' = [mIsSignaled EXCEPT ![e] = TRUE]
      /\ UNCHANGED <<mListMutex, ev, allocated, mSignalSem, err>>
  BY <1>2, <1>3 DEF signalSet, Goto
<1>5. /\ pc'[p] = "post" /\ \A q \in Procs \ {p} : pc'[q] = pc[q]
      /\ mIsSignaled'[e] /\ \A d \in Events \ {e} : mIsSignaled'[d] <=> mIsSignaled[d]
  BY <1>4 DEF LockInv, Types, TypeOK
<1>6. ASSUME NEW d \in Events \ {e} PROVE Same(d)
  BY <1>1, <1>2, <1>4, <1>5 DEF Same, On
<1>7. GoesOn(p, e, "post")
  BY <1>1, <1>2, <1>3, <1>4, <1>5, <1>6 DEF GoesOn, Known
<1> QED BY <1>1, <1>2, <1>5, <1>7

\* The semaphore is posted while the other side still knows the event.
Posts(p, e) ==
    /\ Drops(p, e) /\ Known(Events \ {e}) /\ err' = err
    /\ e \in allocated /\ mSignalSem[e] = 0 /\ mSignalSem'[e] = 1
    /\ \A d \in Events \ {e} : mSignalSem'[d] = mSignalSem[d]
    /\ UNCHANGED <<allocated, mIsSignaled>>

LEMMA PostFacts ==
    ASSUME LockInv, EventInv, NEW p \in Procs, signalPost(p)
    PROVE  \E e \in Events :
             /\ e = ev[p] /\ pc[p] = "post"
             /\ \/ /\ e \notin allocated \/ mSignalSem[e] = 1
                   /\ UNCHANGED <<allocated, mIsSignaled, mSignalSem, mListMutex, pc, ev,
                                  mWaitingList>>
                \/ Posts(p, e)
<1>1. pc[p] = "post" /\ UNCHANGED <<mWaitingList, allocated, mIsSignaled>>
  BY DEF signalPost, At, UNCHANGED_BY_SIGNAL
<1>2. PICK e \in Events : e = ev[p]
  BY <1>1 DEF LockInv, Places, Types, TypeOK, Procs
<1>3. CASE e \notin allocated \/ mSignalSem[e] = 1
  BY <1>1, <1>2, <1>3 DEF signalPost
<1>4. CASE e \in allocated /\ mSignalSem[e] # 1
  <2>1. /\ mSignalSem' = [mSignalSem EXCEPT ![e] = 1]
        /\ ev' = [ev EXCEPT ![p] = NULL] /\ Return(p) /\ err' = err
    BY <1>2, <1>4 DEF signalPost
  <2>2. /\ mSignalSem[e] = 0 /\ mSignalSem'[e] = 1
        /\ \A d \in Events \ {e} : mSignalSem'[d] = mSignalSem[d]
    BY <1>4, <2>1 DEF LockInv, Types, TypeOK
  <2>3. Drops(p, e)
    BY <1>1, <1>2, <2>1, DropFacts
  <2>4. Known(Events \ {e})
    BY <1>1, <2>2, <2>3, DropSides DEF Known
  <2>5. Posts(p, e)
    BY <1>1, <1>4, <2>1, <2>2, <2>3, <2>4 DEF Posts
  <2> QED BY <1>1, <1>2, <2>5
<1> QED BY <1>3, <1>4

LEMMA EventsFree ==
    ASSUME LockInv, EventInv, NEW p \in Procs, NEW e \in Events, pc[p] = "test",
           TestsSignaled(p, e)
    PROVE  EventInv'
<1> USE DEF TestsSignaled
<1>1. Good(e) /\ ev[p] = e
  BY DEF EventInv, Drops
<1>2. /\ \A q \in Procs : ev'[q] = e <=> ev[q] = e /\ q # p
      /\ \A q \in Procs : Waits(q, e)' <=> Waits(q, e) /\ q # p
      /\ Listed(e)' <=> Listed(e)
      /\ Signaled(e)' <=> Signaled(e) /\ p # mListMutex
  BY DropSides
<1>3. \A q \in Procs : ev[q] = e /\ q # p => (p = mListMutex <=> q # mListMutex)
  BY <1>1, SidesAre DEF Good, Single, Waits, Procs
<1>4. ~Listed(e) /\ \A q \in Procs : ev[q] = e /\ q # p => pc[q] = "post"
  <2>1. CASE Waited(e) /\ Pending(e)
    <3>1. PICK q \in Procs : ev[q] = e /\ pc[q] = "post"
      BY <1>1, <2>1 DEF Good, Shared
    <3>2. q # p
      BY <3>1
    <3>3. ~Listed(e)
      BY <1>1, <1>3, <3>1, <3>2, SidesAre DEF Good, Single
    <3>4. \A r \in Procs : ev[r] = e /\ r # p => r = q
      <4> SUFFICES ASSUME NEW r \in Procs, ev[r] = e, r # p
                   PROVE  r = q
        OBVIOUS
      <4>1. CASE p = mListMutex
        <5>1. r # mListMutex /\ q # mListMutex
          BY <3>1, <3>2, <4>1
        <5> QED BY <1>1, <3>1, <5>1, SidesAre DEF Good, Single
      <4>2. CASE p # mListMutex
        BY <1>3, <3>1, <3>2, <4>2
      <4> QED BY <4>1, <4>2
    <3> QED BY <3>1, <3>3, <3>4
  <2>2. CASE ~(Waited(e) /\ Pending(e))
    <3>1. CASE p = mListMutex
      <4>1. Signaled(e)
        BY <1>1, <3>1, SidesAre
      <4>2. ~Waited(e) /\ ~Listed(e)
        BY <1>1, <2>2, <4>1 DEF Pending, Good, Single
      <4> QED BY <1>3, <3>1, <4>2, SidesAre
    <3>2. CASE p # mListMutex
      <4>1. Waited(e)
        BY <1>1, <3>2, SidesAre
      <4>2. ~Signaled(e) /\ ~Listed(e)
        BY <2>2, <4>1 DEF Pending
      <4> QED BY <1>3, <3>2, <4>2, SidesAre
    <3> QED BY <3>1, <3>2
  <2> QED BY <2>1, <2>2
<1>5. \A q \in Procs : ev'[q] = e => pc'[q] = "post"
  BY <1>2, <1>4 DEF Drops
<1>6. Single(e)'
  BY <1>1, <1>2, <1>4 DEF Good, Single, Listed, Procs
<1>7. Freed(e)'
  BY <1>2, <1>4, <1>5 DEF Freed
<1>8. Shared(e)' /\ Left(e)' /\ Posted(e)'
  BY DEF Shared, Left, Posted
<1>9. Good(e)'
  BY <1>6, <1>7, <1>8 DEF Good
<1>10. \A t \in Transactions : Once(mWaitingList'[t])
  BY DEF EventInv, Drops
<1> QED BY <1>9, <1>10, SameGood DEF EventInv, Known

LEMMA EventsGoOn ==
    ASSUME LockInv, EventInv, NEW p \in Procs, NEW e \in Events,
           \/ GoesOn(p, e, "set") /\ pc[p] = "test" /\ ~mIsSignaled[e] /\ ~mIsSignaled'[e]
           \/ GoesOn(p, e, "post") /\ pc[p] = "set" /\ mIsSignaled'[e]
    PROVE  EventInv'
<1> USE DEF GoesOn
<1>1. Good(e) /\ ev[p] = e
  BY DEF EventInv
<1>2. /\ \A q \in Procs : Waits(q, e)' <=> Waits(q, e)
      /\ Listed(e)' <=> Listed(e)
      /\ Signaled(e)' <=> Signaled(e)
  BY DEF Waits, Listed, Signaled, On
<1>3. (Waited(e)' <=> Waited(e)) /\ (Pending(e)' <=> Pending(e))
  BY <1>2 DEF Waited, Pending, Procs
<1>4. Single(e)'
  BY <1>1, <1>2 DEF Good, Single, Procs, On
<1>5. Freed(e)'
  BY DEF Freed
<1>6. Shared(e)'
  BY <1>1, <1>3 DEF Good, Shared
<1>7. Left(e)'
  <2>1. CASE pc[p] = "test" /\ ~mIsSignaled[e]
    BY <1>1, <1>3, <2>1 DEF Good, Left
  <2>2. CASE pc[p] = "set" /\ mIsSignaled'[e]
    BY <1>1, <1>2, <1>3, <2>2 DEF Good, Left
  <2> QED BY <2>1, <2>2
<1>8. Posted(e)'
  <2>1. CASE pc[p] = "test" /\ ~mIsSignaled[e] /\ GoesOn(p, e, "set") /\ ~mIsSignaled'[e]
    <3>1. \A q \in Procs : pc'[q] = "post" => q # p
      BY <2>1
    <3> QED BY <1>1, <2>1, <3>1 DEF Good, Posted
  <2>2. CASE mIsSignaled'[e]
    BY <2>2 DEF Posted
  <2> QED BY <2>1, <2>2
<1>9. Good(e)'
  BY <1>4, <1>5, <1>6, <1>7, <1>8 DEF Good
<1>10. \A t \in Transactions : Once(mWaitingList'[t])
  BY DEF EventInv
<1> QED BY <1>9, <1>10, SameGood DEF EventInv, Known

LEMMA EventsPost ==
    ASSUME LockInv, EventInv, NEW p \in Procs, NEW e \in Events, pc[p] = "post", Posts(p, e)
    PROVE  EventInv'
<1> USE DEF Posts
<1>1. Good(e) /\ ev[p] = e
  BY DEF EventInv, Drops
<1>2. /\ \A q \in Procs : ev'[q] = e <=> ev[q] = e /\ q # p
      /\ \A q \in Procs : Waits(q, e)' <=> Waits(q, e) /\ q # p
      /\ Waited(e)' <=> \E q \in Threads : Waits(q, e) /\ q # p
      /\ Listed(e)' <=> Listed(e)
      /\ Signaled(e)' <=> Signaled(e) /\ p # mListMutex
  BY DropSides
<1>3. Waited(e) /\ Pending(e) /\ mIsSignaled[e]
  BY <1>1 DEF Good, Left, Posted
<1>4. p = mListMutex => ~Listed(e) /\ ~Pending(e)' /\ Waited(e)'
  <2>1. p = mListMutex => Signaled(e)
    BY <1>1, SidesAre
  <2>2. p = mListMutex => ~Listed(e)
    BY <1>1, <2>1 DEF Good, Single
  <2>3. p = mListMutex => Waited(e)'
    BY <1>2, <1>3 DEF Waited, Waits
  <2> QED BY <1>2, <2>2, <2>3 DEF Pending
<1>5. p # mListMutex => ~Waited(e)' /\ Pending(e)'
  <2>1. p # mListMutex => p \in Threads /\ Waits(p, e)
    BY <1>1, SidesAre
  <2>2. p # mListMutex => ~Waited(e)'
    BY <1>1, <1>2, <2>1 DEF Good, Single
  <2> QED BY <1>2, <1>3, <2>2 DEF Pending
<1>6. Single(e)'
  BY <1>1, <1>2 DEF Good, Single, Procs, On, Drops
<1>7. Freed(e)' /\ Posted(e)'
  BY <1>3 DEF Freed, Posted
<1>8. Shared(e)' /\ Left(e)'
  BY <1>3, <1>4, <1>5 DEF Shared, Left
<1>9. Good(e)'
  BY <1>6, <1>7, <1>8 DEF Good
<1>10. \A t \in Transactions : Once(mWaitingList'[t])
  BY DEF EventInv, Drops
<1> QED BY <1>9, <1>10, SameGood DEF EventInv, Known

LEMMA EventsSignal ==
    ASSUME LockInv, EventInv, NEW p \in Procs, signalTest(p) \/ signalSet(p) \/ signalPost(p)
    PROVE  EventInv'
<1>1. CASE signalTest(p)
  BY <1>1, TestFacts, EventsFree, EventsGoOn
<1>2. CASE signalSet(p)
  BY <1>2, SetFacts, EventsGoOn
<1>3. CASE signalPost(p)
  <2>1. CASE UNCHANGED <<allocated, mIsSignaled, mSignalSem, mListMutex, pc, ev, mWaitingList>>
    BY <2>1, EventsStay
  <2>2. ASSUME NEW e \in Events, pc[p] = "post", Posts(p, e)
        PROVE  EventInv'
    BY <2>2, EventsPost
  <2> QED BY <1>3, <2>1, <2>2, PostFacts
<1> QED BY <1>1, <1>2, <1>3

LEMMA EventInit == Init => EventInv
<1> SUFFICES ASSUME Init PROVE EventInv
  OBVIOUS
<1>1. /\ \A t \in Transactions : mWaitingList[t] = <<>>
      /\ \A p \in Procs : ev[p] = NULL
      /\ \A e \in Events : e \notin allocated /\ ~mIsSignaled[e] /\ mSignalSem[e] = 0 /\ e # NULL
  BY NoneIsNull DEF Init
<1>2. \A t \in Transactions : On(t) = {} /\ Once(mWaitingList[t])
  BY <1>1 DEF On, Once, Range
<1>3. ASSUME NEW e \in Events PROVE Good(e)
  <2>1. \A p \in Procs : ev[p] # e
    BY <1>1
  <2>2. ~Listed(e) /\ ~Signaled(e) /\ \A p \in Threads : ~Waits(p, e)
    BY <1>2, <2>1 DEF Listed, Signaled, Waits, Procs
  <2> QED BY <1>1, <1>2, <2>1, <2>2 DEF Good, Single, Freed, Shared, Left, Posted
<1> QED BY <1>2, <1>3 DEF EventInv

LEMMA EventNext == LockInv /\ EventInv /\ [Next]_vars => EventInv'
<1> SUFFICES ASSUME LockInv, EventInv, [Next]_vars
             PROVE  EventInv'
  OBVIOUS
<1>1. CASE Next
  <2>1. \A p \in setting.threads : p \in Threads /\ p \in Procs
    BY SettingType DEF LockInv, Types, TypeOK, Procs
  <2>2. GC \in Procs
    BY DEF Procs
  <2>3. ASSUME \/ \E p \in Threads : \/ newTransaction(p) \/ linkChild(p)
                                     \/ completeTransaction(p) \/ findTransactionFor(p)
                                     \/ waitDone(p)
               \/ removeOldTransactions \/ deleteTransactions \/ Tick
        PROVE  EventInv'
    BY <2>3, EventsElsewhere
  <2>4. ASSUME NEW p \in Threads,
               waitUntilAvailable(p) \/ waitSignaled(p) \/ waitTimedOut(p) \/ markAvailable(p)
        PROVE  EventInv'
    <3>1. CASE markAvailable(p)
      BY <3>1, ReleaseEvents, EventsTake, SameGood DEF EventInv, Known
    <3> QED BY <2>4, <3>1, EventsWait, EventsSignaled, EventsTimedOut
  <2>5. ASSUME NEW p \in Procs, signalTest(p) \/ signalSet(p) \/ signalPost(p)
        PROVE  EventInv'
    BY <2>5, EventsSignal
  <2>6. ASSUME signalAllAvailable
        PROVE  EventInv'
    BY <2>6, SweepEvents, EventsTake
  <2> QED BY <1>1, <2>1, <2>2, <2>3, <2>4, <2>5, <2>6 DEF Next, Progress, Collect
<1>2. CASE UNCHANGED vars
  BY <1>2, EventsStay DEF vars, eventVars, callVars
<1> QED BY <1>1, <1>2

\* waitUntilAvailable, markAvailable, the collector and the steps of
\* OsEvent::signal, in any order, with any waits timing out: an event has one
\* waiting thread and one place in the lists at most, and a freed one is in none.
THEOREM EventsCorrect == Spec => []EventInv
<1> QED BY EventInit, EventNext, LockCorrect, PTL DEF Spec

-----------------------------------------------------------------------------
\* Where events wait.

LEMMA Lists ==
    ASSUME LockInv
    PROVE  \A t \in Transactions : mWaitingList[t] = <<>> <=> On(t) = {}
BY EmptyRange DEF LockInv, Types, On

LEMMA LocatedStay ==
    ASSUME LockInv, LockInv', Located,
           \A t \in Transactions : On(t)' \subseteq On(t),
           \A e \in Events : \A p \in Threads :
               Waits(p, e)' /\ Listed(e) => Waits(p, e) /\ tx'[p] = tx[p],
           \A s \in mTransactions : On(Top(s)) # {} =>
               s \in mTransactions' /\ Top(s)' = Top(s) /\ parent'[s] = parent[s]
    PROVE  Located'
<1>1. \A t \in Transactions : mWaitingList'[t] = <<>> <=> On(t)' = {}
  BY EmptyRange DEF LockInv, Types, On
<1>2. WaitersAtTheTop'
  <2> SUFFICES ASSUME NEW t \in Transactions, mWaitingList'[t] # <<>>
               PROVE  t \in mTransactions' /\ parent'[t] = NULL
    BY DEF WaitersAtTheTop
  <2>1. On(t) # {} /\ t \in mTransactions /\ parent[t] = NULL
    BY <1>1, Lists DEF Located, WaitersAtTheTop
  <2>2. Top(t) = t
    BY <2>1, Tops DEF LockInv
  <2> QED BY <2>1, <2>2
<1>3. ASSUME NEW e \in Events, NEW p \in Threads, NEW t \in Transactions,
             Waits(p, e)', e \in On(t)'
      PROVE  tx'[p] \in mTransactions' /\ Top(tx[p])' = t
  <2>1. e \in On(t) /\ Listed(e)
    BY <1>3 DEF Listed
  <2>2. Waits(p, e) /\ tx'[p] = tx[p]
    BY <1>3, <2>1
  <2>3. tx[p] \in mTransactions /\ Top(tx[p]) = t
    BY <2>1, <2>2 DEF Located
  <2>4. PICK s : s = tx[p] /\ s = tx'[p]
    BY <2>2
  <2>5. s \in mTransactions' /\ Top(s)' = t
    BY <2>1, <2>3, <2>4
  <2> QED BY <2>4, <2>5 DEF Top
<1> QED BY <1>2, <1>3 DEF Located

\* The steps that neither change the trees nor add to the lists.
LEMMA LocatedTrees ==
    ASSUME LockInv, LockInv', Located, UNCHANGED <<mTransactions, parent>>,
           \A t \in Transactions : On(t)' \subseteq On(t),
           \A e \in Events : \A p \in Threads :
               Waits(p, e)' /\ Listed(e) => Waits(p, e) /\ tx'[p] = tx[p]
    PROVE  Located'
BY LocatedStay DEF Top

LEMMA WaitersStay ==
    ASSUME LockInv,
           \/ \E p \in Threads : \/ newTransaction(p) \/ linkChild(p)
                                 \/ completeTransaction(p) \/ findTransactionFor(p)
                                 \/ waitDone(p)
           \/ removeOldTransactions \/ deleteTransactions \/ Tick
    PROVE  /\ UNCHANGED mWaitingList
           /\ \A q \in Threads : ev[q] # NULL => tx'[q] = tx[q]
           /\ \A e \in Events : \A q \in Threads :
                /\ Waits(q, e)' <=> Waits(q, e)
                /\ Waits(q, e) => tx'[q] = tx[q]
<1> USE NoneIsNull DEF At, eventVars, callVars, LockInv, Types, TypeOK, Places, Procs
<1>1. UNCHANGED <<mWaitingList, ev>>
  BY DEF newTransaction, linkChild, completeTransaction, findTransactionFor, waitDone,
         removeOldTransactions, deleteTransactions, Tick
<1>2. \A q \in Threads : ev[q] # NULL => tx'[q] = tx[q]
  <2>1. \/ tx' = tx
        \/ \E p \in Threads : ev[p] = NULL /\ \E x : tx' = [tx EXCEPT ![p] = x]
    <3>1. ASSUME NEW p \in Threads,
                 \/ newTransaction(p) \/ linkChild(p) \/ completeTransaction(p)
                 \/ findTransactionFor(p)
          PROVE  tx' = tx \/ (ev[p] = NULL /\ \E x : tx' = [tx EXCEPT ![p] = x])
      BY <3>1 DEF newTransaction, linkChild, completeTransaction, findTransactionFor
    <3>2. ASSUME NEW p \in Threads, waitDone(p)
          PROVE  tx' = tx \/ (ev[p] = NULL /\ \E x : tx' = [tx EXCEPT ![p] = x])
      BY <3>2 DEF waitDone
    <3>3. ASSUME removeOldTransactions \/ deleteTransactions \/ Tick
          PROVE  tx' = tx
      BY <3>3 DEF removeOldTransactions, deleteTransactions, Tick
    <3> QED BY <3>1, <3>2, <3>3
  <2> QED BY <2>1
<1>3. Known(Events)
  BY EventsElsewhere
<1>4. \A e \in Events : \A q \in Threads : Waits(q, e)' <=> Waits(q, e)
  BY <1>3, SameSides DEF Known
<1>5. \A e \in Events : \A q \in Threads : Waits(q, e) => tx'[q] = tx[q]
  BY <1>2 DEF Waits
<1> QED BY <1>1, <1>2, <1>4, <1>5

LEMMA LocatedElsewhere ==
    ASSUME LockInv, LockInv', Located,
           \/ \E p \in Threads : \/ newTransaction(p) \/ linkChild(p)
                                 \/ completeTransaction(p) \/ findTransactionFor(p)
                                 \/ waitDone(p)
           \/ removeOldTransactions \/ deleteTransactions \/ Tick
    PROVE  Located'
<1>1. /\ \A t \in Transactions : On(t)' = On(t)
      /\ \A e \in Events : \A q \in Threads : Waits(q, e)' => Waits(q, e) /\ tx'[q] = tx[q]
  BY WaitersStay DEF On
<1>2. \A s \in mTransactions : On(Top(s)) # {} =>
               s \in mTransactions' /\ Top(s)' = Top(s) /\ parent'[s] = parent[s]
  <2>1. ASSUME UNCHANGED <<mTransactions, parent>>
        PROVE  \A s \in mTransactions : s \in mTransactions' /\ Top(s)' = Top(s) /\ parent'[s] = parent[s]
    BY <2>1 DEF Top
  <2>2. ASSUME NEW p \in Threads, newTransaction(p)
        PROVE  \A s \in mTransactions : s \in mTransactions' /\ Top(s)' = Top(s) /\ parent'[s] = parent[s]
    BY <2>2 DEF Top, newTransaction
  <2>3. ASSUME NEW p \in Threads, linkChild(p)
        PROVE  \A s \in mTransactions : s \in mTransactions' /\ Top(s)' = Top(s) /\ parent'[s] = parent[s]
    <3>1. PICK t \in Transactions :
             /\ t \notin mTransactions
             /\ mTransactions' = mTransactions \cup {t}
             /\ parent' = [parent EXCEPT ![t] = tx[p]]
             /\ \A s \in Transactions \ {t} : Top(s)' = Top(s)
      BY <2>3, LinkFacts
    <3> QED BY <3>1 DEF LockInv, Types, TypeOK
  <2>4. ASSUME deleteTransactions
        PROVE  \A s \in mTransactions : On(Top(s)) # {} =>
               s \in mTransactions' /\ Top(s)' = Top(s) /\ parent'[s] = parent[s]
    <3> SUFFICES ASSUME NEW s \in mTransactions, On(Top(s)) # {}
                 PROVE  s \in mTransactions' /\ Top(s)' = Top(s) /\ parent'[s] = parent[s]
      OBVIOUS
    <3>1. s \in Transactions /\ Top(s) \in Transactions
      BY Tops DEF LockInv, Types, TypeOK
    <3>2. \A d \in doomed : Top(d) # Top(s)
      BY <2>4, <3>1, Lists DEF deleteTransactions
    <3>3. parent[s] \notin doomed
      <4>1. parent[s] \in doomed => parent[s] # NULL
        BY NoneIsNull DEF LockInv, Types, TypeOK
      <4> QED BY <3>1, <3>2, <4>1, Tops DEF LockInv
    <3>4. s \notin doomed /\ Top(s)' = Top(s) /\ mTransactions' = mTransactions \ doomed
          /\ parent' = RemainingLinks
      BY <2>4, <3>1, <3>2, DeleteFacts
    <3> QED BY <3>1, <3>3, <3>4 DEF RemainingLinks
  <2>5. \/ UNCHANGED <<mTransactions, parent>> \/ deleteTransactions
        \/ \E p \in Threads : newTransaction(p) \/ linkChild(p)
    BY DEF completeTransaction, findTransactionFor, waitDone, removeOldTransactions, Tick, treeVars
  <2> QED BY <2>1, <2>2, <2>3, <2>4, <2>5
<1> QED BY <1>1, <1>2, LocatedStay

LEMMA LocatedWait ==
    ASSUME LockInv, LockInv', EventInv, Located, NEW p \in Threads, waitUntilAvailable(p)
    PROVE  Located'
<1>1. UNCHANGED <<mTransactions, parent, mListMutex>> /\ ev[p] = NULL
  BY DEF waitUntilAvailable, At, LockInv, Places
<1>2. CASE /\ UNCHANGED <<mWaitingList, ev>>
           /\ tx' = [tx EXCEPT ![p] = NULL] \/ UNCHANGED tx
  <2>1. \A e \in Events : \A q \in Threads : Waits(q, e)' => Waits(q, e) /\ tx'[q] = tx[q]
    BY <1>1, <1>2, NoneIsNull DEF Waits, LockInv, Types, TypeOK
  <2>2. \A t \in Transactions : On(t)' = On(t)
    BY <1>2 DEF On
  <2> QED BY <1>1, <2>1, <2>2, LocatedTrees
<1>3. ASSUME NEW e, Adds(p, e)
      PROVE  Located'
  <2> USE <1>3 DEF Adds
  <2>1. \A t \in Transactions : Top(t)' = Top(t)
    BY <1>1 DEF Top
  <2>2. WaitersAtTheTop'
    <3>1. Top(tx[p]) \in mTransactions /\ parent[Top(tx[p])] = NULL
      BY <1>3, Tops DEF LockInv, Types, TypeOK
    <3> QED BY <1>1, <1>3, <3>1 DEF Located, WaitersAtTheTop
  <2>3. ASSUME NEW d \in Events, NEW q \in Threads, NEW t \in Transactions,
               Waits(q, d)', d \in On(t)'
        PROVE  tx'[q] \in mTransactions' /\ Top(tx[q])' = t
    <3>1. Top(tx[q])' = Top(tx[q])
      BY <1>1, <1>3 DEF Top
    <3>2. CASE d = e
      <4>1. q = p /\ t = Top(tx[p])
        BY <1>3, <2>3, <3>2 DEF Waits, Procs
      <4> QED BY <1>1, <1>3, <3>1, <4>1
    <3>3. CASE d # e
      <4>1. Waits(q, d) /\ d \in On(t)
        BY <1>3, <2>3, <3>3, SameSides DEF Known, Procs
      <4> QED BY <1>1, <1>3, <3>1, <4>1 DEF Located
    <3> QED BY <3>2, <3>3
  <2> QED BY <2>2, <2>3 DEF Located
<1> QED BY <1>2, <1>3, WaitFacts

LEMMA LocatedRest ==
    ASSUME LockInv, LockInv', EventInv, Located,
           \/ \E p \in Threads : waitSignaled(p) \/ waitTimedOut(p) \/ markAvailable(p)
           \/ \E p \in Procs : signalTest(p) \/ signalSet(p) \/ signalPost(p)
           \/ signalAllAvailable
    PROVE  Located'
<1> USE NoneIsNull
<1>1. ASSUME NEW p \in Threads, waitSignaled(p) \/ waitTimedOut(p)
      PROVE  Located'
  <2>1. UNCHANGED <<mTransactions, parent, mWaitingList, tx, ev, mListMutex>>
    BY <1>1 DEF waitSignaled, waitTimedOut, treeVars
  <2> QED BY <2>1, LocatedTrees DEF On, Waits
<1>2. ASSUME NEW p \in Procs, signalTest(p) \/ signalSet(p) \/ signalPost(p)
      PROVE  Located'
  <2>1. UNCHANGED <<mTransactions, parent, mWaitingList, tx>>
    BY <1>2 DEF signalTest, signalSet, signalPost, UNCHANGED_BY_SIGNAL, treeVars
  <2>2. \A q \in Procs : ev'[q] # NULL => ev'[q] = ev[q] /\ (mListMutex' # q => mListMutex # q)
    <3>1. ASSUME NEW e \in Events, Drops(p, e)
          PROVE  \A q \in Procs : ev'[q] # NULL => ev'[q] = ev[q] /\ (mListMutex' # q => mListMutex # q)
      BY <3>1 DEF Drops
    <3>2. UNCHANGED <<ev, mListMutex>> \/ \E e \in Events : Drops(p, e)
      <4>1. CASE signalTest(p)
        BY <4>1, TestFacts DEF TestsSignaled, GoesOn
      <4>2. CASE signalSet(p)
        BY <4>2, SetFacts DEF GoesOn
      <4>3. CASE signalPost(p)
        BY <4>3, PostFacts DEF Posts
      <4> QED BY <1>2, <4>1, <4>2, <4>3
    <3> QED BY <3>1, <3>2
  <2>3. \A e \in Events : \A q \in Threads : Waits(q, e)' => Waits(q, e) /\ tx'[q] = tx[q]
    BY <2>1, <2>2 DEF Waits, Procs
  <2>4. \A t \in Transactions : On(t)' = On(t)
    BY <2>1 DEF On
  <2> QED BY <2>1, <2>3, <2>4, LocatedTrees
<1>3. ASSUME NEW p, NEW t, NEW e, Takes(p, t, e), UNCHANGED <<mTransactions, parent>>,
             \A q \in Threads \ {p} : tx'[q] = tx[q]
      PROVE  Located'
  <2>1. \A u \in Transactions : On(u)' \subseteq On(u)
    BY <1>3 DEF Takes
  <2>2. \A d \in Events : \A q \in Threads : Waits(q, d)' => Waits(q, d) /\ tx'[q] = tx[q]
    BY <1>3 DEF Takes, Waits, Procs
  <2> QED BY <1>3, <2>1, <2>2, LocatedTrees
<1>4. ASSUME NEW p \in Threads, markAvailable(p)
      PROVE  Located'
  <2>1. /\ UNCHANGED <<mTransactions, parent>> /\ ev[p] = NULL
        /\ \A q \in Threads \ {p} : tx'[q] = tx[q]
    BY <1>4, ReleaseFacts DEF LockInv, Places
  <2>2. CASE UNCHANGED <<mWaitingList, ev, mListMutex>>
    <3>1. \A d \in Events : \A q \in Threads : Waits(q, d)' => Waits(q, d) /\ tx'[q] = tx[q]
      <4> SUFFICES ASSUME NEW d \in Events, NEW q \in Threads, Waits(q, d)'
                   PROVE  Waits(q, d) /\ tx'[q] = tx[q]
        OBVIOUS
      <4>1. Waits(q, d) /\ q # p
        BY <2>1, <2>2 DEF Waits
      <4> QED BY <2>1, <4>1
    <3>2. \A u \in Transactions : On(u)' = On(u)
      BY <2>2 DEF On
    <3> QED BY <2>1, <3>1, <3>2, LocatedTrees
  <2> QED BY <1>3, <1>4, <2>1, <2>2, ReleaseEvents
<1>5. ASSUME signalAllAvailable
      PROVE  Located'
  <2>1. UNCHANGED <<mTransactions, parent, tx>>
    BY <1>5, SweepFacts
  <2> QED BY <1>3, <1>5, <2>1, SweepEvents
<1> QED BY <1>1, <1>2, <1>4, <1>5

LEMMA LocatedNext == LockInv /\ EventInv /\ Located /\ [Next]_vars => Located'
<1> SUFFICES ASSUME LockInv, EventInv, Located, [Next]_vars
             PROVE  Located'
  OBVIOUS
<1>1. LockInv'
  BY LockNext
<1>2. CASE Next
  <2>1. \A p \in setting.threads : p \in Threads /\ p \in Procs
    BY SettingType DEF LockInv, Types, TypeOK, Procs
  <2>2. GC \in Procs
    BY DEF Procs
  <2> QED BY <1>1, <1>2, <2>1, <2>2, LocatedElsewhere, LocatedWait, LocatedRest
          DEF Next, Progress, Collect
<1>3. CASE UNCHANGED vars
  BY <1>1, <1>3, LocatedTrees DEF vars, treeVars, callVars, On, Waits
<1> QED BY <1>2, <1>3

LEMMA LocatedInit == Init => Located
BY EmptyRange, NoneIsNull DEF Init, Located, WaitersAtTheTop, Waits, On, Range, Procs

\* An event is in the list of the top of the tree its thread waits for: linkChild
\* adds below, and the collector signals all of a tree before it cuts it.
THEOREM LocatedCorrect == Spec => []Located
<1> QED BY LocatedInit, LocatedNext, LockCorrect, EventsCorrect, PTL DEF Spec

\* Events wait where markAvailable and the collector look for them, whatever the
\* trees grow to and however they are cut.
THEOREM WaitersStayAtTheTop == Spec => []WaitersAtTheTop
<1>1. Located => WaitersAtTheTop
  BY DEF Located
<1> QED BY <1>1, LocatedCorrect, PTL

\* One of the two sides of an event frees it, also when waits time out: no event
\* is leaked.
THEOREM EventsOwned == Spec => []EventOwned
<1>1. EventInv /\ Located /\ LockInv => EventOwned
  <2> SUFFICES ASSUME EventInv, Located, LockInv, NEW e \in allocated
               PROVE  \/ \E p \in Procs : ev[p] = e
                      \/ \E t \in mTransactions : e \in Range(mWaitingList[t])
    BY DEF EventOwned
  <2>1. e \in Events /\ (Waited(e) \/ Listed(e) \/ Signaled(e))
    BY DEF EventInv, Good, Left, Pending, LockInv, Types, TypeOK
  <2>2. CASE Waited(e) \/ Signaled(e)
    BY <2>2 DEF Waited, Waits, Signaled, Procs
  <2>3. CASE Listed(e)
    <3>1. PICK t \in Transactions : e \in On(t)
      BY <2>3 DEF Listed
    <3>2. t \in mTransactions
      BY <3>1, Lists DEF Located, WaitersAtTheTop
    <3> QED BY <3>1, <3>2 DEF On
  <2> QED BY <2>1, <2>2, <2>3
<1> QED BY <1>1, LocatedCorrect, LockCorrect, EventsCorrect, PTL

-----------------------------------------------------------------------------
\* Events when no wait times out.

\* A waiting thread leaves its event to the other side until that one is done
\* with it.
OnTime(e) ==
    /\ \A p \in Threads :
         Waits(p, e) => pc[p] = "wait" \/ (pc[p] = "test" /\ ~Pending(e))
    /\ Pending(e) => e \in allocated /\ Waited(e)

\* It has waited once by then, and has its answer.
Rounds ==
    \A p \in Threads :
        /\ pc[p] = "wait" => waitTime[p] = 0
        /\ pc[p] = "test" /\ p # mListMutex => waitTime[p] = 1 /\ waitStatus[p]
        /\ pc[p] = "after" => waitTime[p] = 1 /\ waitStatus[p]

InTime == err = "none" /\ Rounds /\ \A e \in Events : OnTime(e)

LEMMA SameOnTime ==
    ASSUME NEW e, OnTime(e), Same(e)
    PROVE  OnTime(e)'
BY SameSides DEF OnTime, Same, Waits, Procs

LEMMA InTimeElsewhere ==
    ASSUME LockInv, InTime,
           \/ \E p \in Threads : \/ newTransaction(p) \/ linkChild(p)
                                 \/ completeTransaction(p) \/ findTransactionFor(p)
                                 \/ waitDone(p)
           \/ removeOldTransactions \/ deleteTransactions \/ Tick
    PROVE  InTime'
<1> USE NoneIsNull DEF At, Goto, callVars, LockInv, Types, TypeOK, Procs
<1>1. \A e \in Events : OnTime(e)'
  BY EventsElsewhere, SameOnTime DEF Known, InTime
<1>2. err' = "none" /\ Rounds'
  <2>1. ASSUME NEW p \in Threads,
               \/ newTransaction(p) \/ linkChild(p) \/ completeTransaction(p)
               \/ findTransactionFor(p)
        PROVE  err' = "none" /\ Rounds'
    <3>1. /\ UNCHANGED <<err, waitTime, waitStatus, mListMutex>>
          /\ pc' = pc \/ \E x \in {"hold", "retry"} : pc' = [pc EXCEPT ![p] = x]
      BY <2>1 DEF newTransaction, linkChild, completeTransaction, findTransactionFor
    <3> QED BY <3>1 DEF InTime, Rounds
  <2>2. ASSUME NEW p \in Threads, waitDone(p)
        PROVE  err' = "none" /\ Rounds'
    <3>1. pc[p] = "after" /\ waitTime[p] = 1 /\ waitStatus[p]
      BY <2>2 DEF waitDone, InTime, Rounds
    <3>2. ~(waitTime[p] > 1)
      BY <3>1
    <3>3. /\ UNCHANGED <<err, mListMutex>>
          /\ waitTime' = [waitTime EXCEPT ![p] = 0]
          /\ waitStatus' = [waitStatus EXCEPT ![p] = FALSE]
          /\ pc' = [pc EXCEPT ![p] = "retry"]
      BY <2>2, <3>1, <3>2 DEF waitDone
    <3> QED BY <3>3 DEF InTime, Rounds
  <2>3. ASSUME removeOldTransactions \/ deleteTransactions \/ Tick
        PROVE  err' = "none" /\ Rounds'
    <3>1. /\ UNCHANGED <<err, waitTime, waitStatus>>
          /\ pc' = pc \/ \E x \in {"sweep", "idle"} : pc' = [pc EXCEPT ![GC] = x]
          /\ \A q \in Threads : mListMutex' = q <=> mListMutex = q
      BY <2>3 DEF removeOldTransactions, deleteTransactions, Tick, Places
    <3> QED BY <3>1 DEF InTime, Rounds
  <2> QED BY <2>1, <2>2, <2>3
<1> QED BY <1>1, <1>2 DEF InTime

LEMMA InTimeWait ==
    ASSUME LockInv, EventInv, InTime, NEW p \in Threads, waitUntilAvailable(p)
    PROVE  InTime'
<1> USE NoneIsNull
<1>1. UNCHANGED <<mListMutex, waitTime, waitStatus, err>> /\ waitTime[p] = 0 /\ p \in Procs
      /\ mListMutex = NULL /\ pc[p] = "retry"
  BY DEF waitUntilAvailable, At, LockInv, Places, Procs
<1>2. CASE Known(Events) /\ \E x \in {"idle", "hold"} : pc' = [pc EXCEPT ![p] = x]
  <2>1. \A e \in Events : OnTime(e)'
    BY <1>2, SameOnTime DEF Known, InTime
  <2>2. Rounds'
    BY <1>1, <1>2 DEF InTime, Rounds, LockInv, Types, TypeOK
  <2> QED BY <1>1, <2>1, <2>2 DEF InTime
<1>3. ASSUME NEW e, Adds(p, e)
      PROVE  InTime'
  <2> USE <1>3 DEF Adds
  <2>1. \A q \in Threads : Waits(q, e)' <=> q = p
    <3>1. ASSUME NEW q \in Threads, q # p
          PROVE  ev'[q] # e
      BY <3>1 DEF Procs
    <3>2. \A q \in Threads : q # mListMutex'
      BY <1>1
    <3> QED BY <3>1, <3>2 DEF Waits
  <2>2. Waited(e)'
    BY <2>1 DEF Waited
  <2>3. OnTime(e)'
    BY <2>1, <2>2 DEF OnTime
  <2>4. \A d \in Events : OnTime(d)'
    BY <2>3, SameOnTime DEF Known, InTime
  <2>5. Rounds'
    BY <1>1 DEF InTime, Rounds, Procs
  <2> QED BY <1>1, <2>4, <2>5 DEF InTime
<1> QED BY <1>2, <1>3, WaitFacts

LEMMA InTimeSignaled ==
    ASSUME LockInv, EventInv, InTime, NEW p \in Threads, waitSignaled(p)
    PROVE  InTime'
<1>1. PICK e \in Events :
             /\ e = ev[p] /\ ev' = ev /\ pc[p] = "wait" /\ pc'[p] = "test" /\ Waits(p, e)
             /\ \A q \in Procs \ {p} : pc'[q] = pc[q]
             /\ ~Pending(e)
             /\ Known(Events \ {e})
             /\ UNCHANGED <<mWaitingList, mListMutex, err>>
             /\ waitTime' = [waitTime EXCEPT ![p] = @ + 1]
             /\ waitStatus' = [waitStatus EXCEPT ![p] = TRUE]
  BY SignaledFacts
<1>2. /\ \A q \in Threads : Waits(q, e)' <=> Waits(q, e)
      /\ Pending(e)' <=> Pending(e)
  BY <1>1 DEF Waits, Pending, Listed, Signaled, On
<1>3. \A q \in Threads : Waits(q, e) => q = p
  BY <1>1 DEF EventInv, Good, Single
<1>4. OnTime(e)'
  BY <1>1, <1>2, <1>3 DEF OnTime
<1>5. \A d \in Events : OnTime(d)'
  BY <1>1, <1>4, SameOnTime DEF Known, InTime
<1>6. waitTime[p] = 0
  BY <1>1 DEF InTime, Rounds
<1>7. waitTime'[p] = 1 /\ waitStatus'[p]
  BY <1>1, <1>6 DEF LockInv, Types, TypeOK
<1>8. \A q \in Threads \ {p} : waitTime'[q] = waitTime[q] /\ waitStatus'[q] = waitStatus[q]
  BY <1>1 DEF LockInv, Types, TypeOK
<1>9. Rounds'
  BY <1>1, <1>7, <1>8 DEF InTime, Rounds, Procs
<1> QED BY <1>1, <1>5, <1>9 DEF InTime

LEMMA InTimeTake ==
    ASSUME LockInv, EventInv, InTime, NEW p, NEW t, NEW e, Takes(p, t, e),
           UNCHANGED <<waitTime, waitStatus, err>>
    PROVE  InTime'
<1> USE NoneIsNull DEF Takes
<1>1. Pending(e) /\ e # NULL
  BY DEF Pending, Listed
<1>2. \A q \in Threads : Waits(q, e) => Waits(q, e)' /\ q # p
  BY <1>1 DEF Waits, Procs
<1>3. \A q \in Threads : Waits(q, e)' => Waits(q, e)
  BY DEF Waits, Procs
<1>4. OnTime(e)'
  <2>1. e \in allocated /\ Waited(e) /\ \A q \in Threads : Waits(q, e) => pc[q] = "wait"
    BY <1>1 DEF InTime, OnTime
  <2>2. Waited(e)' /\ \A q \in Threads : Waits(q, e)' => pc'[q] = "wait"
    BY <1>2, <1>3, <2>1 DEF Waited, Procs
  <2> QED BY <2>1, <2>2 DEF OnTime
<1>5. \A d \in Events : OnTime(d)'
  BY <1>4, SameOnTime DEF Known, InTime
<1>6. Rounds'
  BY DEF InTime, Rounds, Procs
<1> QED BY <1>5, <1>6 DEF InTime

LEMMA InTimeRelease ==
    ASSUME LockInv, EventInv, InTime, NEW p \in Threads, markAvailable(p)
    PROVE  InTime'
<1>1. UNCHANGED <<waitTime, waitStatus, err>>
  BY ReleaseFacts
<1>2. CASE Known(Events) /\ pc'[p] = "idle" /\ UNCHANGED mListMutex
  <2>1. \A q \in Threads \ {p} : pc'[q] = pc[q]
    BY ReleaseFacts
  <2>2. Rounds'
    BY <1>1, <1>2, <2>1 DEF InTime, Rounds
  <2> QED BY <1>1, <1>2, <2>2, SameOnTime DEF InTime, Known
<1> QED BY <1>1, <1>2, ReleaseEvents, InTimeTake

\* The side that has mListMutex finds the event unsignaled and the semaphore
\* free; the waiting thread finds the event signaled and left to it.
LEMMA SignalInTime ==
    ASSUME LockInv, EventInv, InTime, NEW p \in Procs, NEW e \in Events, ev[p] = e,
           pc[p] \in {"test", "set", "post"}
    PROVE  /\ e \in allocated
           /\ p = mListMutex => /\ Pending(e) /\ Waited(e) /\ mSignalSem[e] = 0
                                /\ pc[p] # "post" => ~mIsSignaled[e]
           /\ p # mListMutex => /\ pc[p] = "test" /\ mIsSignaled[e] /\ ~Pending(e)
                                /\ p \in Threads /\ Waits(p, e)
<1>1. Good(e) /\ OnTime(e)
  BY DEF EventInv, InTime
<1>2. CASE p = mListMutex
  <2>1. Signaled(e) /\ Pending(e)
    BY <1>2, SidesAre DEF Pending
  <2>2. e \in allocated /\ Waited(e) /\ \A q \in Threads : Waits(q, e) => pc[q] = "wait"
    BY <1>1, <2>1 DEF OnTime
  <2>3. /\ mSignalSem[e] = 0
        /\ mIsSignaled[e] => \E q \in Procs : ev[q] = e /\ pc[q] = "post"
    BY <1>1, <2>1, <2>2 DEF Good, Shared
  <2>4. \A q \in Procs : ev[q] = e /\ pc[q] = "post" => q = p
    BY <1>2, <2>2, SidesAre
  <2> QED BY <1>2, <2>1, <2>2, <2>3, <2>4
<1>3. CASE p # mListMutex
  <2>1. p \in Threads /\ Waits(p, e) /\ Waited(e)
    BY <1>3, SidesAre
  <2>2. pc[p] = "test" /\ ~Pending(e)
    BY <1>1, <2>1 DEF OnTime
  <2>3. e \in allocated /\ mIsSignaled[e]
    BY <1>1, <2>2 DEF Good, Freed, Left
  <2> QED BY <1>3, <2>1, <2>2, <2>3
<1> QED BY <1>2, <1>3

LEMMA InTimeSignal ==
    ASSUME LockInv, EventInv, InTime, NEW p \in Procs,
           signalTest(p) \/ signalSet(p) \/ signalPost(p)
    PROVE  InTime'
<1> USE NoneIsNull
<1>1. UNCHANGED <<waitTime, waitStatus>> /\ pc[p] \in {"test", "set", "post"}
  BY DEF signalTest, signalSet, signalPost, UNCHANGED_BY_SIGNAL, At
<1>2. PICK e \in Events : e = ev[p]
  BY <1>1 DEF LockInv, Places, Types, TypeOK, Procs
<1>3. /\ e \in allocated
      /\ p = mListMutex => /\ Pending(e) /\ Waited(e) /\ mSignalSem[e] = 0
                           /\ pc[p] # "post" => ~mIsSignaled[e]
      /\ p # mListMutex => /\ pc[p] = "test" /\ mIsSignaled[e] /\ ~Pending(e)
                           /\ p \in Threads /\ Waits(p, e)
  BY <1>1, <1>2, SignalInTime
<1>4. OnTime(e) /\ Good(e)
  BY DEF InTime, EventInv
<1>5. ASSUME TestsSignaled(p, e), pc[p] = "test"
      PROVE  InTime'
  <2> USE <1>5 DEF TestsSignaled
  <2>1. p # mListMutex
    BY <1>3
  <2>2. \A q \in Threads : ~Waits(q, e)'
    BY <1>3, <1>4, <2>1, DropSides DEF Good, Single, Procs
  <2>3. ~Pending(e)'
    BY <1>3, <2>1, DropSides DEF Pending
  <2>4. OnTime(e)'
    BY <2>2, <2>3 DEF OnTime
  <2>5. Rounds'
    BY <1>1, <1>3, <2>1 DEF InTime, Rounds, Drops, Procs
  <2> QED BY <2>4, <2>5, SameOnTime DEF InTime, Known
<1>6. ASSUME NEW x \in {"set", "post"}, GoesOn(p, e, x), p = mListMutex
      PROVE  InTime'
  <2> USE <1>6 DEF GoesOn
  <2>1. /\ \A q \in Threads : Waits(q, e)' => Waits(q, e) /\ q # p
        /\ Pending(e)' <=> Pending(e)
        /\ Waited(e)' <=> Waited(e)
    BY DEF Waits, Pending, Waited, Listed, Signaled, On
  <2>2. OnTime(e)'
    BY <1>4, <2>1 DEF OnTime, Procs
  <2>3. Rounds'
    BY <1>1 DEF InTime, Rounds, Procs
  <2> QED BY <2>2, <2>3, SameOnTime DEF InTime, Known
<1>7. ASSUME Posts(p, e), p = mListMutex
      PROVE  InTime'
  <2> USE <1>7 DEF Posts
  <2>1. \A q \in Threads : Waits(q, e) => pc[q] = "wait"
    BY <1>3, <1>4 DEF OnTime
  <2>2. \A q \in Threads : Waits(q, e)' => pc'[q] = "wait"
    BY <2>1, DropSides DEF Drops, Procs
  <2>3. ~Pending(e)'
    <3>1. Signaled(e)
      BY <1>2, SidesAre
    <3> QED BY <1>4, <3>1, DropSides DEF Good, Single, Pending
  <2>4. OnTime(e)'
    BY <2>2, <2>3 DEF OnTime
  <2>5. Rounds'
    BY <1>1 DEF InTime, Rounds, Drops, Procs
  <2> QED BY <2>4, <2>5, SameOnTime DEF InTime, Known
<1>8. CASE signalTest(p)
  <2>1. pc[p] = "test" /\ \/ TestsSignaled(p, e)
                          \/ GoesOn(p, e, "set") /\ ~mIsSignaled[e]
    BY <1>2, <1>8, TestFacts
  <2> QED BY <1>3, <1>5, <1>6, <2>1
<1>9. CASE signalSet(p)
  <2>1. pc[p] = "set" /\ GoesOn(p, e, "post")
    BY <1>2, <1>9, SetFacts
  <2> QED BY <1>3, <1>6, <2>1
<1>10. CASE signalPost(p)
  <2>1. pc[p] = "post" /\ (Posts(p, e) \/ e \notin allocated \/ mSignalSem[e] = 1)
    BY <1>2, <1>10, PostFacts
  <2> QED BY <1>3, <1>7, <2>1
<1> QED BY <1>8, <1>9, <1>10

\* As an invariant, for the situations in which no wait times out.
TimeInv == ~setting.overruns => InTime

LEMMA TimeInit == Init => TimeInv
<1> SUFFICES ASSUME Init PROVE InTime
  BY DEF TimeInv
<1>1. \A p \in Procs : ev[p] = NULL /\ pc[p] = "idle"
  BY DEF Init
<1>2. \A t \in Transactions : On(t) = {}
  BY DEF Init, On, Range
<1>3. Rounds
  BY <1>1 DEF Rounds, Procs
<1>4. \A e \in Events : OnTime(e)
  BY <1>1, <1>2, NoneIsNull DEF OnTime, Waits, Pending, Listed, Signaled, Procs
<1> QED BY <1>3, <1>4 DEF InTime, Init

LEMMA TimeNext == LockInv /\ EventInv /\ TimeInv /\ [Next]_vars => TimeInv'
<1> SUFFICES ASSUME LockInv, EventInv, TimeInv, [Next]_vars, ~setting'.overruns
             PROVE  InTime'
  BY DEF TimeInv
<1>1. setting' = setting
  BY DEF Next, Progress, Collect, vars
<1>2. InTime /\ ~setting.overruns
  BY <1>1 DEF TimeInv
<1>3. CASE Next
  <2>1. \A p \in setting.threads : p \in Threads /\ p \in Procs
    BY SettingType DEF LockInv, Types, TypeOK, Procs
  <2>2. GC \in Procs
    BY DEF Procs
  <2>3. ASSUME signalAllAvailable
        PROVE  InTime'
    BY <1>2, <2>3, SweepEvents, SweepFacts, InTimeTake
  <2>4. \A p : ~waitTimedOut(p)
    BY <1>2 DEF waitTimedOut
  <2> QED BY <1>2, <1>3, <2>1, <2>2, <2>3, <2>4, InTimeElsewhere, InTimeWait, InTimeSignaled,
             InTimeRelease, InTimeSignal DEF Next, Progress, Collect
<1>4. CASE UNCHANGED vars
  <2>1. UNCHANGED <<mWaitingList, ev, allocated, mIsSignaled, mSignalSem, pc, mListMutex,
                    waitTime, waitStatus, err>>
    BY <1>4 DEF vars, eventVars, callVars
  <2>2. Known(Events)
    BY <2>1, EventsStay
  <2>3. \A e \in Events : OnTime(e)'
    BY <1>2, <2>2, SameOnTime DEF InTime, Known
  <2> QED BY <1>2, <2>1, <2>3 DEF InTime, Rounds
<1> QED BY <1>3, <1>4

\* Where every tree is released in time, the thread in waitUntilAvailable signals
\* its event last, after one wait, and frees it.
THEOREM TimeCorrect == Spec => []TimeInv
<1> QED BY TimeInit, TimeNext, LockCorrect, EventsCorrect, PTL DEF Spec

\* With every tree released before the waits time out, OsEvent::signal is not
\* called for a freed event, its semaphore is not posted twice, and no freed
\* transaction is logged.
THEOREM NoErrorInTime == Spec => []NoError
<1>1. TimeInv => NoError
  BY DEF TimeInv, InTime, NoError
<1> QED BY <1>1, TimeCorrect, PTL

-----------------------------------------------------------------------------
\* A tree that threads wait for has somebody to see to it: its holder, a thread
\* that was woken, or the one that signals.

Agent(q, t) ==
    /\ tx[q] # NULL /\ Top(tx[q]) = t
    /\ \/ pc[q] \in {"retry", "test", "set", "post", "after"}
       \/ pc[q] = "wait" /\ mSignalSem[ev[q]] = 1

Signaling(t) ==
    \/ mListMutex = GC /\ \E s \in doomed : Top(s) = t
    \/ \E p \in Threads, q \in Threads :
         p = mListMutex /\ Waits(q, ev[p]) /\ Top(tx[q]) = t

Attended(t) == mIsBusy[t] \/ (\E q \in Threads : Agent(q, t)) \/ Signaling(t)

AllAttended == \A t \in Transactions : On(t) # {} => Attended(t)

LEMMA SameAgent ==
    ASSUME NEW q \in Threads, NEW t, Agent(q, t),
           tx'[q] = tx[q], pc'[q] = pc[q], ev'[q] = ev[q],
           pc[q] = "wait" /\ mSignalSem[ev[q]] = 1 => mSignalSem'[ev[q]] = 1,
           TopMost(parent', tx[q]) = TopMost(parent, tx[q])
    PROVE  Agent(q, t)'
BY DEF Agent, Top

LEMMA Listeners ==
    ASSUME LockInv, Located, NEW t \in Transactions, On(t) # {}
    PROVE  t \in mTransactions /\ parent[t] = NULL /\ Top(t) = t
<1>1. t \in mTransactions /\ parent[t] = NULL
  BY Lists DEF Located, WaitersAtTheTop
<1> QED BY <1>1, Tops DEF LockInv

\* The steps of a thread that was not an agent, while nobody signals.
LEMMA AttendedOthers ==
    ASSUME LockInv, NEW p \in Threads, NEW t \in Transactions, Attended(t), mListMutex = NULL,
           pc[p] \in {"idle", "hold"} \/ ~Agent(p, t),
           mIsBusy[t] => mIsBusy'[t],
           \A q \in Threads \ {p} :
             /\ tx'[q] = tx[q] /\ pc'[q] = pc[q] /\ ev'[q] = ev[q]
             /\ tx[q] # NULL => TopMost(parent', tx[q]) = TopMost(parent, tx[q]),
           UNCHANGED mSignalSem
    PROVE  Attended(t)'
<1>1. CASE mIsBusy[t]
  BY <1>1 DEF Attended
<1>2. ASSUME NEW q \in Threads, Agent(q, t)
      PROVE  Attended(t)'
  <2>1. q # p
    BY <1>2 DEF Agent
  <2>2. tx[q] # NULL
    BY <1>2 DEF Agent
  <2>3. Agent(q, t)'
    BY <1>2, <2>1, <2>2, SameAgent
  <2> QED BY <2>3 DEF Attended
<1>3. ~Signaling(t)
  BY NoneIsNull DEF Signaling
<1> QED BY <1>1, <1>2, <1>3 DEF Attended

LEMMA AttendedNew ==
    ASSUME LockInv, Located, AllAttended, NEW p \in Threads,
           newTransaction(p) \/ linkChild(p) \/ findTransactionFor(p)
    PROVE  AllAttended'
<1> USE NoneIsNull DEF At, Goto, LockInv, Types, TypeOK, Procs, eventVars
<1>1. /\ UNCHANGED <<mWaitingList, mSignalSem, ev>> /\ mListMutex = NULL
      /\ pc[p] \in {"idle", "hold"}
  BY DEF newTransaction, linkChild, findTransactionFor, callVars
<1>2. \A q \in Threads \ {p} : tx'[q] = tx[q] /\ pc'[q] = pc[q]
  <2>1. CASE newTransaction(p)
    BY <2>1 DEF newTransaction
  <2>2. CASE linkChild(p)
    BY <2>2 DEF linkChild, callVars
  <2>3. CASE findTransactionFor(p)
    BY <2>3 DEF findTransactionFor
  <2> QED BY <2>1, <2>2, <2>3
<1>3. \A q \in Threads : tx[q] # NULL => TopMost(parent', tx[q]) = TopMost(parent, tx[q])
  <2>1. CASE newTransaction(p) \/ findTransactionFor(p)
    BY <2>1 DEF newTransaction, findTransactionFor
  <2>2. CASE linkChild(p)
    <3>1. PICK t \in NewObjects : \A s \in Transactions \ {t} : Top(s)' = Top(s)
      BY <2>2, LinkFacts
    <3>2. \A q \in Threads : tx[q] # t
      BY <3>1 DEF NewObjects
    <3> QED BY <3>1, <3>2 DEF Top
  <2> QED BY <2>1, <2>2
<1>4. \A t \in mTransactions : mIsBusy[t] => mIsBusy'[t]
  <2>1. CASE newTransaction(p)
    BY <2>1 DEF newTransaction
  <2>2. CASE linkChild(p)
    <3>1. PICK t \in NewObjects : mIsBusy' = [mIsBusy EXCEPT ![t] = TRUE]
      BY <2>2, LinkFacts
    <3>2. mIsBusy \in [Transactions -> BOOLEAN] /\ mTransactions \subseteq Transactions
      BY DEF LockInv, Types, TypeOK
    <3> QED BY <3>1, <3>2
  <2>3. CASE findTransactionFor(p)
    BY <2>3 DEF findTransactionFor, markBusy
  <2> QED BY <2>1, <2>2, <2>3
<1> HIDE DEF LockInv, Types, TypeOK
<1>5. ASSUME NEW t \in Transactions, On(t)' # {}
      PROVE  Attended(t)'
  <2>1. On(t) # {}
    BY <1>1, <1>5 DEF On
  <2>2. t \in mTransactions /\ Attended(t)
    BY <2>1, Listeners DEF AllAttended
  <2> QED BY <1>1, <1>2, <1>3, <1>4, <2>2, AttendedOthers
<1> QED BY <1>5 DEF AllAttended

\* The steps that change neither trees, threads nor events.
LEMMA AttendedStay ==
    ASSUME AllAttended,
           UNCHANGED <<parent, mIsBusy, tx, pc, ev, mSignalSem, mListMutex, mWaitingList, doomed>>
    PROVE  AllAttended'
BY DEF AllAttended, Attended, Agent, Signaling, Waits, On, Top

LEMMA AttendedCollect ==
    ASSUME LockInv, Located, AllAttended, removeOldTransactions \/ deleteTransactions
    PROVE  AllAttended'
<1> USE NoneIsNull
<1>1. /\ UNCHANGED <<mIsBusy, mWaitingList, mSignalSem, tx, ev>>
      /\ \E x : pc' = [pc EXCEPT ![GC] = x]
  BY DEF removeOldTransactions, deleteTransactions, At, Goto, eventVars, callVars, treeVars
<1>2. \A q \in Threads : pc'[q] = pc[q]
  BY <1>1 DEF LockInv, Types, TypeOK, Procs
<1>3. ASSUME NEW t \in Transactions, On(t)' # {}
      PROVE  Attended(t)'
  <2>1. On(t) # {}
    BY <1>1, <1>3 DEF On
  <2>2. t \in mTransactions /\ parent[t] = NULL /\ Attended(t)
    BY <2>1, Listeners DEF AllAttended
  <2>3. ~Signaling(t)
    <3>1. CASE removeOldTransactions
      BY <3>1 DEF removeOldTransactions, Signaling
    <3>2. CASE deleteTransactions
      <4>1. mListMutex = GC
        BY <3>2, DeleteFacts
      <4>2. \A d \in doomed : Top(d) # t
        BY <2>1, <3>2, Lists DEF deleteTransactions
      <4> QED BY <4>1, <4>2 DEF Signaling
    <3> QED BY <3>1, <3>2
  <2>4. CASE mIsBusy[t]
    BY <1>1, <2>4 DEF Attended
  <2>5. ASSUME NEW q \in Threads, Agent(q, t)
        PROVE  Attended(t)'
    <3>1. tx[q] \in Transactions /\ Top(tx[q]) = t
      BY <2>5 DEF Agent, LockInv, Types, TypeOK
    <3>2. TopMost(parent', tx[q]) = TopMost(parent, tx[q])
      <4>1. CASE removeOldTransactions
        BY <4>1 DEF removeOldTransactions, treeVars
      <4>2. CASE deleteTransactions
        <5>1. \A d \in doomed : Top(d) # Top(tx[q])
          BY <2>1, <3>1, <4>2, Lists DEF deleteTransactions
        <5>2. PICK s \in Transactions : s = tx[q]
          BY <3>1
        <5>3. Top(s)' = Top(s)
          BY <4>2, <5>1, <5>2, DeleteFacts
        <5> QED BY <5>2, <5>3 DEF Top
      <4> QED BY <4>1, <4>2
    <3>3. Agent(q, t)'
      BY <1>1, <1>2, <2>5, <3>2, SameAgent
    <3> QED BY <3>3 DEF Attended
  <2> QED BY <2>2, <2>3, <2>4, <2>5 DEF Attended
<1> QED BY <1>3 DEF AllAttended

LEMMA AttendedWait ==
    ASSUME LockInv, EventInv, Located, AllAttended, NEW p \in Threads, waitUntilAvailable(p)
    PROVE  AllAttended'
<1> USE NoneIsNull
<1>1. /\ UNCHANGED <<mTransactions, parent, mListMutex>> /\ mListMutex = NULL /\ pc[p] = "retry"
      /\ p \in Procs /\ mIsBusy \in [Transactions -> BOOLEAN] /\ mTransactions \subseteq Transactions
      /\ tx[p] \in Transactions /\ Top(tx[p]) \in Transactions
  BY Tops DEF waitUntilAvailable, At, Procs, LockInv, Types, TypeOK, Places
<1>2. /\ \A q \in Threads \ {p} : tx'[q] = tx[q] /\ pc'[q] = pc[q] /\ ev'[q] = ev[q]
      /\ UNCHANGED mSignalSem
      /\ \A t \in mTransactions : mIsBusy[t] => mIsBusy'[t]
      /\ \/ tx[p] \notin mTransactions /\ UNCHANGED mWaitingList
         \/ tx[p] \in mTransactions /\ UNCHANGED mWaitingList /\ markBusy(tx[p])
         \/ /\ tx[p] \in mTransactions /\ mIsBusy[tx[p]] /\ UNCHANGED mIsBusy
            /\ \A t \in Transactions : t # Top(tx[p]) => On(t)' = On(t)
  <2>1. CASE /\ UNCHANGED <<mWaitingList, ev, mSignalSem>>
             /\ tx[p] \notin mTransactions /\ tx' = [tx EXCEPT ![p] = NULL]
             /\ pc' = [pc EXCEPT ![p] = "idle"] /\ UNCHANGED mIsBusy
    BY <2>1 DEF LockInv, Types, TypeOK, Procs
  <2>2. CASE /\ UNCHANGED <<mWaitingList, ev, mSignalSem>>
             /\ tx[p] \in mTransactions /\ markBusy(tx[p])
             /\ pc' = [pc EXCEPT ![p] = "hold"] /\ UNCHANGED tx
    <3>1. \A t \in mTransactions : mIsBusy[t] => mIsBusy'[t]
      BY <1>1, <2>2 DEF markBusy
    <3>2. \A q \in Threads \ {p} : pc'[q] = pc[q]
      BY <2>2 DEF LockInv, Types, TypeOK, Procs
    <3> QED BY <2>2, <3>1, <3>2
  <2>3. ASSUME NEW e, Adds(p, e)
        PROVE  /\ \A q \in Threads \ {p} : tx'[q] = tx[q] /\ pc'[q] = pc[q] /\ ev'[q] = ev[q]
               /\ UNCHANGED mSignalSem
               /\ tx[p] \in mTransactions /\ mIsBusy[tx[p]] /\ UNCHANGED mIsBusy
               /\ \A t \in Transactions : t # Top(tx[p]) => On(t)' = On(t)
    BY <2>3 DEF Adds, Procs
  <2> QED BY <2>1, <2>2, <2>3, WaitFacts
<1>3. ASSUME NEW t \in Transactions, On(t)' # {}
      PROVE  Attended(t)'
  <2>1. CASE t = Top(tx[p]) /\ tx[p] \in mTransactions
    <3>1. t \in mTransactions /\ Top(t) = t
      BY <1>1, <2>1, Tops DEF LockInv
    <3>2. CASE markBusy(tx[p])
      <4>1. t \in Tree(tx[p])
        BY <2>1, <3>1 DEF Tree
      <4>2. mIsBusy'[t]
        BY <3>2, <4>1 DEF markBusy
      <4> QED BY <4>2 DEF Attended
    <3>3. CASE mIsBusy[tx[p]]
      <4>1. mIsBusy[t]
        BY <2>1, <3>1, <3>3 DEF LockInv, OneHolder
      <4> QED BY <1>2, <3>1, <4>1 DEF Attended
    <3> QED BY <1>2, <2>1, <3>2, <3>3
  <2>2. CASE ~(t = Top(tx[p]) /\ tx[p] \in mTransactions)
    <3>1. On(t) # {}
      BY <1>2, <1>3, <2>2 DEF On
    <3>2. t \in mTransactions /\ Attended(t)
      BY <3>1, Listeners DEF AllAttended
    <3>3. ~Agent(p, t)
      <4>1. tx[p] \notin mTransactions => Top(tx[p]) = tx[p]
        BY <1>1, Tops DEF LockInv
      <4> QED BY <2>2, <3>2, <4>1 DEF Agent
    <3> QED BY <1>1, <1>2, <3>2, <3>3, AttendedOthers
  <2> QED BY <2>1, <2>2
<1> QED BY <1>3 DEF AllAttended

LEMMA AttendedSignaled ==
    ASSUME LockInv, EventInv, AllAttended, NEW p \in Threads, waitSignaled(p)
    PROVE  AllAttended'
<1>1. PICK e \in Events :
             /\ e = ev[p] /\ ev' = ev /\ pc[p] = "wait" /\ pc'[p] = "test" /\ Waits(p, e)
             /\ \A q \in Procs \ {p} : pc'[q] = pc[q]
             /\ \A d \in Events \ {e} : mSignalSem'[d] = mSignalSem[d]
             /\ UNCHANGED <<mTransactions, parent, mIsBusy, doomed, mWaitingList, mListMutex, tx>>
  BY SignaledFacts
<1>2. ASSUME NEW t, NEW q \in Threads, Agent(q, t)
      PROVE  Agent(q, t)'
  <2>1. CASE q = p
    BY <1>1, <1>2, <2>1 DEF Agent, Top
  <2>2. CASE q # p
    <3>1. pc'[q] = pc[q]
      BY <1>1, <2>2 DEF Procs
    <3>2. pc[q] = "wait" => mSignalSem'[ev[q]] = mSignalSem[ev[q]]
      <4> SUFFICES ASSUME pc[q] = "wait" PROVE ev[q] \in Events \ {e}
        BY <1>1
      <4>1. ev[q] \in Events /\ q # mListMutex
        BY NoneIsNull DEF LockInv, Places, Types, TypeOK, Procs
      <4>2. ev[q] = e => Waits(q, e)
        BY <4>1 DEF Waits
      <4> QED BY <1>1, <2>2, <4>1, <4>2 DEF EventInv, Good, Single
    <3> QED BY <1>1, <1>2, <3>1, <3>2, SameAgent
  <2> QED BY <2>1, <2>2
<1>3. \A t : Signaling(t) => Signaling(t)'
  BY <1>1 DEF Signaling, Waits, Top
<1> QED BY <1>1, <1>2, <1>3 DEF AllAttended, Attended, On

\* The waiting thread of an event that is taken from a list.
LEMMA AttendedRelease ==
    ASSUME LockInv, EventInv, Located, InTime, AllAttended, NEW p \in Threads, markAvailable(p)
    PROVE  AllAttended'
<1>0. PICK r : r = Top(tx[p])
  OBVIOUS
<1>1. /\ r \in mTransactions /\ tx'[p] = NULL /\ pc[p] = "hold" /\ ev[p] = NULL
      /\ mListMutex = NULL /\ UNCHANGED <<mTransactions, parent, mSignalSem>>
      /\ \A q \in Threads \ {p} : tx'[q] = tx[q] /\ pc'[q] = pc[q]
      /\ \A s \in Transactions : mIsBusy'[s] <=> mIsBusy[s] /\ ~(s \in mTransactions /\ Top(s) = r)
  BY <1>0, ReleaseFacts DEF LockInv, Places
<1>2. \/ On(r) = {} /\ UNCHANGED <<mWaitingList, ev>>
      \/ \E e : Takes(p, r, e)
  BY <1>0, <1>1, ReleaseEvents, Lists DEF LockInv, Types, TypeOK
<1>3. /\ \A q \in Threads \ {p} : ev'[q] = ev[q]
      /\ \A t \in Transactions : On(t)' \subseteq On(t)
  BY <1>2 DEF Takes, Procs, On
<1>4. ASSUME NEW t \in Transactions, On(t)' # {}, t # r
      PROVE  Attended(t)'
  <2>1. On(t) # {}
    BY <1>3, <1>4
  <2>2. t \in mTransactions /\ Top(t) = t /\ Attended(t)
    BY <2>1, Listeners DEF AllAttended
  <2>3. mIsBusy[t] => mIsBusy'[t]
    BY <1>1, <1>4, <2>2
  <2> QED BY <1>1, <1>3, <2>2, <2>3, AttendedOthers
<1>5. ASSUME On(r)' # {}
      PROVE  Attended(r)'
  <2>1. PICK e : Takes(p, r, e)
    BY <1>2, <1>5 DEF On
  <2>2. e \in Events /\ e \in On(r) /\ Pending(e) /\ r \in Transactions
    BY <2>1 DEF Takes, Pending, Listed
  <2>3. PICK q \in Threads : Waits(q, e)
    BY <2>2 DEF InTime, OnTime, Waited
  <2>4. Top(tx[q]) = r
    BY <2>2, <2>3 DEF Located
  <2>5. q # p
    BY <1>1, <2>2, <2>3, NoneIsNull DEF Waits
  <2>6. p = mListMutex' /\ ev'[p] = e /\ q # mListMutex' /\ ev'[q] = e
    BY <1>3, <2>1, <2>3, <2>5 DEF Takes, Waits
  <2>7. Waits(q, ev[p])'
    BY <2>6 DEF Waits
  <2>8. Top(tx[q])' = r
    BY <1>1, <2>4, <2>5 DEF Top
  <2>9. Signaling(r)'
    BY <2>6, <2>7, <2>8 DEF Signaling
  <2> QED BY <2>9 DEF Attended
<1> QED BY <1>4, <1>5 DEF AllAttended

LEMMA AttendedSweep ==
    ASSUME LockInv, EventInv, AllAttended, signalAllAvailable
    PROVE  AllAttended'
<1>1. /\ UNCHANGED <<mTransactions, parent, mIsBusy, mSignalSem, mListMutex, doomed, tx>>
      /\ mListMutex = GC
  BY SweepFacts
<1>2a. PICK d \in doomed : \E e : Takes(GC, Top(d), e)
  BY SweepEvents
<1>2. PICK e : Takes(GC, Top(d), e)
  BY <1>2a
<1>3. /\ \A q \in Threads : pc'[q] = pc[q] /\ ev'[q] = ev[q]
      /\ \A t \in Transactions : On(t)' \subseteq On(t)
  BY <1>2, NoneIsNull DEF Takes, Procs
<1>4. \A t, q : q \in Threads /\ Agent(q, t) => Agent(q, t)'
  BY <1>1, <1>3, SameAgent
<1>5. \A t : Signaling(t) => Signaling(t)'
  BY <1>1, NoneIsNull DEF Signaling, Top
<1> QED BY <1>1, <1>3, <1>4, <1>5 DEF AllAttended, Attended

LEMMA AttendedDone ==
    ASSUME LockInv, InTime, AllAttended, NEW p \in Threads, waitDone(p)
    PROVE  AllAttended'
<1>1. pc[p] = "after" /\ waitTime[p] = 1 /\ waitStatus[p]
  BY DEF waitDone, At, InTime, Rounds
<1>2. ~(waitTime[p] > 1)
  BY <1>1
<1>3. /\ UNCHANGED <<parent, mIsBusy, tx, ev, mSignalSem, mListMutex, mWaitingList, doomed>>
      /\ pc' = [pc EXCEPT ![p] = "retry"]
  BY <1>1, <1>2 DEF waitDone, Goto, treeVars, eventVars
<1>4. pc'[p] = "retry" /\ \A q \in Threads \ {p} : pc'[q] = pc[q]
  BY <1>3 DEF LockInv, Types, TypeOK, Procs
<1>5. ASSUME NEW t, NEW q \in Threads, Agent(q, t)
      PROVE  Agent(q, t)'
  BY <1>1, <1>3, <1>4, <1>5 DEF Agent, Top
<1>6. \A t : Signaling(t) => Signaling(t)'
  BY <1>3 DEF Signaling, Waits, Top
<1> QED BY <1>3, <1>5, <1>6 DEF AllAttended, Attended, On

LEMMA AttendedSignal ==
    ASSUME LockInv, EventInv, Located, InTime, AllAttended, NEW p \in Procs,
           signalTest(p) \/ signalSet(p) \/ signalPost(p)
    PROVE  AllAttended'
<1> USE NoneIsNull
<1>1. /\ UNCHANGED <<mTransactions, parent, mIsBusy, mWaitingList, doomed, tx>>
      /\ pc[p] \in {"test", "set", "post"}
  BY DEF signalTest, signalSet, signalPost, UNCHANGED_BY_SIGNAL, At, treeVars
<1>2. PICK e \in Events : e = ev[p]
  BY <1>1 DEF LockInv, Places, Types, TypeOK, Procs
<1>3. /\ e \in allocated
      /\ p = mListMutex => /\ Pending(e) /\ Waited(e) /\ mSignalSem[e] = 0
                           /\ pc[p] # "post" => ~mIsSignaled[e]
      /\ p # mListMutex => /\ pc[p] = "test" /\ mIsSignaled[e] /\ ~Pending(e)
                           /\ p \in Threads /\ Waits(p, e)
  BY <1>1, <1>2, SignalInTime
<1>4. SUFFICES ASSUME NEW t \in Transactions, Attended(t)
               PROVE  Attended(t)'
  BY <1>1 DEF AllAttended, On
<1>5. CASE mIsBusy[t]
  BY <1>1, <1>5 DEF Attended
\* The waiting thread frees its event and goes on as an agent.
<1>6. ASSUME TestsSignaled(p, e), p # mListMutex
      PROVE  Attended(t)'
  <2> USE <1>6 DEF TestsSignaled, Drops
  <2>1. ASSUME NEW q \in Threads, Agent(q, t) PROVE Agent(q, t)'
    <3>1. CASE q = p
      BY <1>1, <2>1, <3>1 DEF Agent, Top
    <3>2. CASE q # p
      <4>1. pc[q] = "wait" => ev[q] \in Events \ {e}
        <5>1. pc[q] = "wait" => ev[q] \in Events /\ q # mListMutex
          BY DEF LockInv, Places, Types, TypeOK, Procs
        <5>2. Waits(q, e) => q = p
          BY <1>3 DEF EventInv, Good, Single
        <5> QED BY <3>2, <5>1, <5>2 DEF Waits
      <4>2. tx'[q] = tx[q] /\ pc'[q] = pc[q] /\ ev'[q] = ev[q]
        BY <1>1, <3>2 DEF Procs
      <4> QED BY <1>1, <2>1, <4>1, <4>2, SameAgent
    <3> QED BY <3>1, <3>2
  <2>2. ASSUME Signaling(t) PROVE Signaling(t)'
    <3>1. CASE mListMutex = GC /\ \E s \in doomed : Top(s) = t
      BY <1>1, <3>1 DEF Signaling, Top
    <3>2. ASSUME NEW h \in Threads, NEW q \in Threads,
                 h = mListMutex, Waits(q, ev[h]), Top(tx[q]) = t
          PROVE  Signaling(t)'
      <4>1. ev[h] # e
        BY <1>3, <3>2 DEF Pending, Signaled, Procs
      <4>2. q # p /\ h # p
        BY <1>2, <3>2, <4>1 DEF Waits
      <4>3. h = mListMutex' /\ ev'[h] = ev[h] /\ ev'[q] = ev[q] /\ q # mListMutex'
        BY <3>2, <4>2 DEF Procs, Waits
      <4>4. Waits(q, ev[h])' /\ Top(tx[q])' = t
        BY <1>1, <3>2, <4>3 DEF Waits, Top
      <4> QED BY <4>3, <4>4 DEF Signaling
    <3> QED BY <2>2, <3>1, <3>2 DEF Signaling
  <2> QED BY <1>4, <1>5, <2>1, <2>2 DEF Attended
\* The one with mListMutex is no agent: it is signaling until it has posted, ...
<1>7. p = mListMutex => \A q \in Threads : Agent(q, t) => q # p
  BY DEF Agent, LockInv, Places
<1>8. ASSUME NEW x \in {"set", "post"}, GoesOn(p, e, x), p = mListMutex
      PROVE  Attended(t)'
  <2> USE <1>8 DEF GoesOn
  <2>1. ASSUME NEW q \in Threads, Agent(q, t) PROVE Agent(q, t)'
    BY <1>1, <1>7, <2>1, SameAgent DEF Procs
  <2>2. Signaling(t) => Signaling(t)'
    BY <1>1 DEF Signaling, Waits, Top
  <2> QED BY <1>4, <1>5, <2>1, <2>2 DEF Attended
\* ... and then the waiting thread is one.
<1>9. ASSUME Posts(p, e), p = mListMutex
      PROVE  Attended(t)'
  <2> USE <1>9 DEF Posts, Drops
  <2>1. \A q \in Procs : ev[q] \in Events /\ mSignalSem[ev[q]] = 1 => mSignalSem'[ev[q]] = 1
    BY <1>3
  <2>2. ASSUME NEW q \in Threads, Agent(q, t) PROVE Agent(q, t)'
    <3>1. q # p /\ q \in Procs
      BY <1>7, <2>2 DEF Procs
    <3>2. pc[q] = "wait" => ev[q] \in Events
      BY <3>1 DEF LockInv, Places, Types, TypeOK
    <3> QED BY <1>1, <2>1, <2>2, <3>1, <3>2, SameAgent
  <2>3. CASE mListMutex = GC /\ \E s \in doomed : Top(s) = t
    <3>1. mListMutex' = GC
      BY <2>3
    <3>2. Signaling(t)'
      BY <1>1, <2>3, <3>1 DEF Signaling, Top
    <3> QED BY <3>2 DEF Attended
  <2>4. ASSUME NEW h \in Threads, NEW q \in Threads,
               h = mListMutex, Waits(q, ev[h]), Top(tx[q]) = t
        PROVE  Attended(t)'
    <3>1. Waits(q, e) /\ q # p /\ q \in Procs
      BY <1>2, <2>4 DEF Waits, Procs
    <3>2. pc[q] = "wait"
      BY <1>3, <3>1 DEF InTime, OnTime
    <3>3. tx[q] # NULL
      BY <3>1, <3>2 DEF LockInv, Places, Waits
    <3>4. ev'[q] = e /\ pc'[q] = "wait" /\ mSignalSem'[ev'[q]] = 1
      BY <3>1, <3>2 DEF Waits
    <3>5. Agent(q, t)'
      BY <1>1, <2>4, <3>3, <3>4 DEF Agent, Top
    <3> QED BY <3>5 DEF Attended
  <2> QED BY <1>4, <1>5, <2>2, <2>3, <2>4 DEF Attended, Signaling
<1>10. CASE signalTest(p)
  <2>1. pc[p] = "test" /\ \/ TestsSignaled(p, e) /\ mIsSignaled[e]
                          \/ GoesOn(p, e, "set") /\ ~mIsSignaled[e]
    BY <1>2, <1>10, TestFacts DEF TestsSignaled
  <2> QED BY <1>3, <1>6, <1>8, <2>1
<1>11. CASE signalSet(p)
  <2>1. pc[p] = "set" /\ GoesOn(p, e, "post")
    BY <1>2, <1>11, SetFacts
  <2> QED BY <1>3, <1>8, <2>1
<1>12. CASE signalPost(p)
  <2>1. pc[p] = "post" /\ (Posts(p, e) \/ e \notin allocated \/ mSignalSem[e] = 1)
    BY <1>2, <1>12, PostFacts
  <2> QED BY <1>3, <1>9, <2>1
<1> QED BY <1>10, <1>11, <1>12

WakeInv == ~setting.overruns => AllAttended

LEMMA WakeInit == Init => WakeInv
BY DEF Init, WakeInv, AllAttended, On, Range

LEMMA WakeNext ==
    LockInv /\ EventInv /\ Located /\ TimeInv /\ WakeInv /\ [Next]_vars => WakeInv'
<1> SUFFICES ASSUME LockInv, EventInv, Located, TimeInv, WakeInv, [Next]_vars,
                    ~setting'.overruns
             PROVE  AllAttended'
  BY DEF WakeInv
<1>1. setting' = setting
  BY DEF Next, Progress, Collect, vars
<1>2. AllAttended /\ InTime /\ ~setting.overruns
  BY <1>1 DEF WakeInv, TimeInv
<1>3. CASE Next
  <2>1. \A p \in setting.threads : p \in Threads /\ p \in Procs
    BY SettingType DEF LockInv, Types, TypeOK, Procs
  <2>2. GC \in Procs
    BY DEF Procs
  <2>3. ASSUME Tick \/ \E p : completeTransaction(p)
        PROVE  AllAttended'
    <3>1. UNCHANGED <<parent, mIsBusy, tx, pc, ev, mSignalSem, mListMutex, mWaitingList, doomed>>
      BY <2>3 DEF Tick, completeTransaction, treeVars, eventVars, callVars
    <3> QED BY <1>2, <3>1, AttendedStay
  <2>4. \A p : ~waitTimedOut(p)
    BY <1>2 DEF waitTimedOut
  <2> QED BY <1>2, <1>3, <2>1, <2>2, <2>3, <2>4, AttendedNew, AttendedCollect, AttendedWait,
             AttendedSignaled, AttendedRelease, AttendedSweep, AttendedDone, AttendedSignal
          DEF Next, Progress, Collect
<1>4. CASE UNCHANGED vars
  <2>1. UNCHANGED <<parent, mIsBusy, tx, pc, ev, mSignalSem, mListMutex, mWaitingList, doomed>>
    BY <1>4 DEF vars, treeVars, eventVars, callVars
  <2> QED BY <1>2, <2>1, AttendedStay
<1> QED BY <1>3, <1>4

\* Where every tree is released in time, a tree with a waiting list is busy, being
\* signaled, or about to be taken by a thread that was woken.
THEOREM WakeCorrect == Spec => []WakeInv
<1> QED BY WakeInit, WakeNext, LockCorrect, EventsCorrect, LocatedCorrect, TimeCorrect, PTL
        DEF Spec

\* While no wait times out, a thread that waits for a signal is not forgotten, for
\* any number of threads, transactions and events: its tree is held, a signal is
\* on its way, or a thread that was woken is about to take the tree.
THEOREM NoWakeupIsLost == Spec => []NoLostWakeup
<1>1. LockInv /\ EventInv /\ Located /\ TimeInv /\ WakeInv => NoLostWakeup
  <2> SUFFICES ASSUME LockInv, EventInv, Located, InTime, AllAttended,
                      NEW p \in Waiting, mSignalSem[ev[p]] = 0, mListMutex = NULL
               PROVE  \/ tx[p] \in mTransactions /\ mIsBusy[tx[p]]
                      \/ \E q \in Threads \ {p} :
                           /\ tx[q] # NULL /\ Top(tx[q]) = Top(tx[p])
                           /\ \/ pc[q] = "wait" /\ mSignalSem[ev[q]] = 1
                              \/ pc[q] \in {"retry", "test", "set", "post", "after"}
    BY DEF NoLostWakeup, TimeInv, WakeInv
  <2>1. p \in Threads /\ p \in Procs /\ pc[p] = "wait" /\ p # mListMutex
    BY NoneIsNull DEF Waiting, Procs
  <2>2. PICK e \in Events : e = ev[p]
    BY <2>1 DEF LockInv, Places, Types, TypeOK
  <2>3. Waits(p, e) /\ Waited(e) /\ Good(e)
    BY <2>1, <2>2 DEF Waits, Waited, EventInv
  <2>4. e \in allocated
    BY <2>1, <2>2, <2>3 DEF Good, Freed
  <2>5. Pending(e)
    BY <2>1, <2>2, <2>3, <2>4 DEF Good, Left
  <2>6. PICK t \in Transactions : e \in On(t)
    BY <2>5, NoneIsNull DEF Pending, Listed, Signaled, Procs
  <2>7. tx[p] \in mTransactions /\ Top(tx[p]) = t
    BY <2>1, <2>3, <2>6 DEF Located
  <2>8. t \in mTransactions /\ Top(t) = t
    BY <2>6, Listeners
  <2>9. Attended(t) /\ ~Signaling(t)
    BY <2>6, NoneIsNull DEF AllAttended, Signaling
  <2>10. mIsBusy[t] => mIsBusy[tx[p]]
    BY <2>7, <2>8 DEF LockInv, OneHolder
  <2>11. ~Agent(p, t)
    BY <2>1 DEF Agent
  <2>12. ASSUME NEW q \in Threads, Agent(q, t)
         PROVE  /\ q # p /\ tx[q] # NULL /\ Top(tx[q]) = Top(tx[p])
                /\ \/ pc[q] = "wait" /\ mSignalSem[ev[q]] = 1
                   \/ pc[q] \in {"retry", "test", "set", "post", "after"}
    BY <2>7, <2>11, <2>12 DEF Agent
  <2> QED BY <2>7, <2>9, <2>10, <2>12 DEF Attended
<1> QED BY <1>1, LockCorrect, EventsCorrect, LocatedCorrect, TimeCorrect, WakeCorrect, PTL
=============================================================================
