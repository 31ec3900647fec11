--------------------------- MODULE OsTimerProofs ---------------------------
(***************************************************************************)
(* Proofs about OsTimer, for any number of tasks and of threads of the     *)
(* timer service.  A one-shot timer is safe because nobody but a start     *)
(* sets _isRunning: the part of onTimerFire that arms the deadline again   *)
(* is never reached (OneShot), so whoever set _isRunning is still to arm   *)
(* the deadline, or the wait it armed or one that was aborted is on its    *)
(* way to onTimerFire, which resets _isRunning (OneShotWillFire).  The     *)
(* destructor finds the timer stopped or stops it, and no start follows    *)
(* (DeletedIsStopped).                                                     *)
(***************************************************************************)
EXTENDS OsTimer, TLAPS

(* A one-shot timer never takes the periodic part of the code. *)
OneShot ==
  kind = "oneshot" =>
    /\ periodic = FALSE
    /\ \A t \in Users \cup Workers : pc[t] \notin {"start", "rearm", "run"}

(* After a stop nobody has set _isRunning. *)
OffIsStopped == kind = "oneshot" /\ off => state = "STOPPED"

(* Nobody starts a timer that is in its destructor, which leaves it stopped. *)
DeletedIsStopped ==
  kind = "oneshot" =>
    /\ life # "used" => \A u \in Users : pc[u] # "arm"
    /\ life = "freed" => state = "STOPPED"
    /\ \A u \in Users : pc[u] = "free" => life # "used" /\ state = "STOPPED"

Inv == TypeOK /\ OneShot /\ OneShotWillFire /\ OffIsStopped /\ DeletedIsStopped

(* A new timer (the constructors) satisfies the invariant. *)
LEMMA InvInit == Init => Inv
<1>. SUFFICES ASSUME Init PROVE Inv
  OBVIOUS
<1>1. pc \in [Users \cup Workers -> Places] /\ code \in [Workers -> Errors]
  BY DEF Init, Places, Errors
<1>2. posted \in [Errors -> Nat]
  BY DEF Init
<1>3. starts \in 0..MaxStarts /\ owed \in Int /\ armed \in {0, 1}
  BY StartsAssumption DEF Init
<1>4. kind \in Kinds /\ state \in {"STOPPED", "STARTED"} /\ periodic \in BOOLEAN /\ off \in BOOLEAN
      /\ life \in {"used", "deleting", "freed"}
  BY DEF Init
<1>5. TypeOK
  BY <1>1, <1>2, <1>3, <1>4 DEF TypeOK
<1>6. OneShot /\ OneShotWillFire /\ OffIsStopped /\ DeletedIsStopped
  BY DEF Init, OneShot, OneShotWillFire, OffIsStopped, DeletedIsStopped
<1>. QED
  BY <1>5, <1>6 DEF Inv

(* Every step of a task or of the timer service keeps the types. *)
LEMMA TypeStep == TypeOK /\ [Next]_vars => TypeOK'
<1>. SUFFICES ASSUME TypeOK, [Next]_vars PROVE TypeOK'
  OBVIOUS
<1>. USE StartsAssumption DEF TypeOK, Places, Errors, Goto
<1>1. ASSUME NEW u \in Users, periodicEvery(u) PROVE TypeOK'
  BY <1>1 DEF periodicEvery
<1>2. ASSUME NEW u \in Users, oneshotAfter(u) PROVE TypeOK'
  <2>1. CASE /\ state = "STOPPED" /\ starts < MaxStarts
             /\ state' = "STARTED"
             /\ starts' = starts + 1
             /\ owed' = owed + 1
             /\ off' = FALSE
             /\ pc' = [pc EXCEPT ![u] = "arm"]
    <3>1. starts' \in 0..MaxStarts /\ owed' \in Int
      BY <2>1
    <3>2. pc' \in [Users \cup Workers -> Places]
      BY <2>1
    <3>3. UNCHANGED <<kind, periodic, armed, posted, code, life>>
      BY <1>2 DEF oneshotAfter
    <3>4. off' \in BOOLEAN /\ state' \in {"STOPPED", "STARTED"}
      BY <2>1
    <3>. QED
      BY <3>1, <3>2, <3>3, <3>4
  <2>2. CASE UNCHANGED <<state, starts, owed, off>>
    BY <1>2, <2>2 DEF oneshotAfter
  <2>. QED
    BY <1>2, <2>1, <2>2 DEF oneshotAfter
<1>3. ASSUME NEW u \in Users, arm(u) PROVE TypeOK'
  BY <1>3 DEF arm, async_wait
<1>4. ASSUME NEW u \in Users, stop(u) PROVE TypeOK'
  BY <1>4 DEF stop
<1>5. ASSUME NEW u \in Users, clearPeriodic(u) PROVE TypeOK'
  BY <1>5 DEF clearPeriodic
<1>6. ASSUME NEW u \in Users, cancel(u) PROVE TypeOK'
  BY <1>6 DEF cancel
<1>7. CASE expire
  BY <1>7 DEF expire
<1>8. ASSUME NEW w \in Workers, onTimerFire(w) PROVE TypeOK'
  BY <1>8 DEF onTimerFire
<1>9. ASSUME NEW w \in Workers, signalNotifier(w) PROVE TypeOK'
  BY <1>9 DEF signalNotifier
<1>10. ASSUME NEW w \in Workers, testPeriodic(w) PROVE TypeOK'
  BY <1>10 DEF testPeriodic
<1>11. ASSUME NEW w \in Workers, rearm(w) PROVE TypeOK'
  BY <1>11 DEF rearm, async_wait
<1>12. ASSUME NEW w \in Workers, setRunning(w) PROVE TypeOK'
  BY <1>12 DEF setRunning
<1>13. ASSUME NEW u \in Users, destroy(u) PROVE TypeOK'
  BY <1>13, ThreadsAssumption DEF destroy
<1>14. ASSUME NEW u \in Users, free(u) PROVE TypeOK'
  BY <1>14 DEF free
<1>15. CASE UNCHANGED vars
  BY <1>15 DEF vars
<1>. QED
  BY <1>1, <1>2, <1>3, <1>4, <1>5, <1>6, <1>7, <1>8, <1>9, <1>10, <1>11, <1>12, <1>13, <1>14,
     <1>15 DEF Next, Fire

(* Every step keeps a one-shot timer out of the periodic code, and what     *)
(* _isRunning promises.                                                     *)
LEMMA OneShotStep ==
  Inv /\ [Next]_vars => (OneShot /\ OneShotWillFire /\ OffIsStopped /\ DeletedIsStopped)'
<1>. DEFINE Safe == OneShot /\ OneShotWillFire /\ OffIsStopped /\ DeletedIsStopped
<1>. SUFFICES ASSUME Inv, [Next]_vars PROVE Safe'
  OBVIOUS
<1>. USE DEF Inv, TypeOK, Places, Errors, Goto, OneShot, OneShotWillFire, OffIsStopped,
             DeletedIsStopped, ToCome
<1>1. ASSUME NEW u \in Users, periodicEvery(u) PROVE Safe'
  BY <1>1 DEF periodicEvery
<1>2. ASSUME NEW u \in Users, oneshotAfter(u) PROVE Safe'
  BY <1>2 DEF oneshotAfter
<1>3. ASSUME NEW u \in Users, arm(u) PROVE Safe'
  BY <1>3 DEF arm, async_wait
<1>4. ASSUME NEW u \in Users, stop(u) PROVE Safe'
  BY <1>4 DEF stop
<1>5. ASSUME NEW u \in Users, clearPeriodic(u) PROVE Safe'
  BY <1>5 DEF clearPeriodic
<1>6. ASSUME NEW u \in Users, cancel(u) PROVE Safe'
  BY <1>6 DEF cancel
<1>7. CASE expire
  BY <1>7 DEF expire
<1>8. ASSUME NEW w \in Workers, onTimerFire(w) PROVE Safe'
  BY <1>8 DEF onTimerFire
<1>9. ASSUME NEW w \in Workers, signalNotifier(w) PROVE Safe'
  BY <1>9 DEF signalNotifier
<1>10. ASSUME NEW w \in Workers, testPeriodic(w) PROVE Safe'
  BY <1>10 DEF testPeriodic
<1>11. ASSUME NEW w \in Workers, rearm(w) PROVE Safe'
  BY <1>11 DEF rearm, async_wait
<1>12. ASSUME NEW w \in Workers, setRunning(w) PROVE Safe'
  BY <1>12 DEF setRunning
<1>13. ASSUME NEW u \in Users, destroy(u) PROVE Safe'
  BY <1>13, ThreadsAssumption DEF destroy
<1>14. ASSUME NEW u \in Users, free(u) PROVE Safe'
  BY <1>14 DEF free
<1>15. CASE UNCHANGED vars
  BY <1>15 DEF vars
<1>. QED
  BY <1>1, <1>2, <1>3, <1>4, <1>5, <1>6, <1>7, <1>8, <1>9, <1>10, <1>11, <1>12, <1>13, <1>14,
     <1>15 DEF Next, Fire

LEMMA InvAlways == Spec => []Inv
<1>1. Inv /\ [Next]_vars => Inv'
  BY TypeStep, OneShotStep DEF Inv
<1>. QED
  BY InvInit, <1>1, PTL DEF Spec

(* For any number of tasks and threads of the timer service no more than    *)
(* one wait of the deadline timer is armed, and all state has its type.     *)
THEOREM TimerTypes == Spec => []TypeOK
<1>1. Inv => TypeOK
  BY DEF Inv
<1>. QED
  BY InvAlways, <1>1, PTL

(* A one-shot timer in state STARTED is going to fire, however many tasks   *)
(* start and stop it at once.                                               *)
THEOREM StartedFires == Spec => []OneShotWillFire
<1>1. Inv => OneShotWillFire
  BY DEF Inv
<1>. QED
  BY InvAlways, <1>1, PTL

(* Once stop has returned OS_SUCCESS or the destructor has run, no          *)
(* execution of the event routine of a one-shot timer is committed until    *)
(* the timer is started again.                                              *)
THEOREM StopHolds == Spec => StopIsFinal
<1>. DEFINE Kept == \A w \in Workers :
                      kind = "oneshot" /\ (off \/ life = "freed") /\ pc[w] = "idle"
                        => pc'[w] = "idle"
<1>1. ASSUME Inv, Next PROVE Kept
  <2>. SUFFICES ASSUME NEW w \in Workers, kind = "oneshot", off \/ life = "freed",
                       pc[w] = "idle"
                PROVE  pc'[w] = "idle"
    OBVIOUS
  <2>1. state = "STOPPED" /\ w \notin Users
    BY <1>1, ThreadsAssumption DEF Inv, OffIsStopped, DeletedIsStopped
  <2>2. CASE \E u \in Users : pc' = [pc EXCEPT ![u] = pc'[u]]
    BY <1>1, <2>1, <2>2 DEF Inv, TypeOK
  <2>3. CASE pc' = pc
    BY <2>3
  <2>4. ASSUME NEW v \in Workers, Fire(v) PROVE pc'[w] = "idle"
    BY <1>1, <2>1, <2>4
       DEF Inv, TypeOK, Fire, onTimerFire, signalNotifier, testPeriodic, rearm, setRunning, Goto
  <2>. QED
    BY <1>1, <2>2, <2>3, <2>4, ZenonT(30)
       DEF Next, periodicEvery, oneshotAfter, arm, stop, clearPeriodic, cancel, destroy, free,
           expire, Goto, Inv, TypeOK
<1>2. Inv /\ [Next]_vars => [Kept]_vars
  BY <1>1
<1>. QED
  BY InvAlways, <1>2, PTL DEF Spec, StopIsFinal
=============================================================================
