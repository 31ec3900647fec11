------------------------------ MODULE OsTimer ------------------------------
(***************************************************************************)
(* One timer (sipXportLib/src/os/OsTimer.cpp): tasks that start and stop   *)
(* it, and the threads of the timer service that run its event routine.    *)
(*                                                                         *)
(* _isRunning, _periodic and the deadline are guarded by two mutexes, and  *)
(* each operation takes them one after the other, so every critical        *)
(* section is an action.  A wait of the boost deadline timer ends in a     *)
(* call of onTimerFire, with the error operation_aborted when it was       *)
(* canceled; cancel and expires_from_now do not reach a call that is       *)
(* already posted to the service.                                          *)
(*                                                                         *)
(* A wait and a call of onTimerFire share in the Timer object and keep it  *)
(* alive, but name the OsTimer that owns it by a plain pointer.            *)
(*                                                                         *)
(* Left out: the times themselves (a wait may end whenever it is armed)    *)
(* and the life of the timer service.                                      *)
(***************************************************************************)
EXTENDS Integers

CONSTANTS
  Users,        \* tasks that call the timer
  Workers,      \* threads of the timer service
  Kinds,        \* how the owner may use the timer: "oneshot", "periodic"
  MaxStarts     \* bound on the successful starts

ASSUME StartsAssumption == MaxStarts \in Nat

ASSUME ThreadsAssumption == Users \cap Workers = {}

VARIABLES
  kind,         \* how the timer is used
  state,        \* _isRunning
  periodic,     \* _periodic
  armed,        \* waits of the deadline timer that have not ended: 0 or 1
  posted,       \* posted[e]: calls of onTimerFire to come, with error e
  pc,           \* where each thread is
  code,         \* code[w]: the error onTimerFire was called with
  starts,       \* number of successful starts
  owed,         \* starts of a one-shot timer that were not signaled yet
  off,          \* stop has returned OS_SUCCESS and no start has succeeded since
  life          \* the OsTimer: "used", "deleting" (in its destructor) or "freed"

vars == <<kind, state, periodic, armed, posted, pc, code, starts, owed, off, life>>

Errors == {"none", "aborted"}

Init ==
  /\ kind \in Kinds
  /\ state = "STOPPED"
  /\ periodic = FALSE
  /\ armed = 0
  /\ posted = [e \in Errors |-> 0]
  /\ pc = [t \in Users \cup Workers |-> "idle"]
  /\ code = [w \in Workers |-> "none"]
  /\ starts = 0
  /\ owed = 0
  /\ off = FALSE
  /\ life = "used"

Goto(t, place) == pc' = [pc EXCEPT ![t] = place]

(* Mutant of async_wait: the earlier wait goes on. *)
async_waitBoth ==
  /\ armed' = armed + 1
  /\ UNCHANGED posted

(* expires_from_now and async_wait: a wait that was armed is aborted. *)
async_wait ==
  /\ posted' = [posted EXCEPT !["aborted"] = @ + armed]
  /\ armed' = 1

(* The deadline passes. *)
expire ==
  /\ armed = 1
  /\ armed' = 0
  /\ posted' = [posted EXCEPT !["none"] = @ + 1]
  /\ UNCHANGED <<kind, state, periodic, pc, code, starts, owed, off, life>>
-----------------------------------------------------------------------------
(* Tasks. *)

(* periodicEvery and periodicAt, which go on as oneshotAfter and oneshotAt. *)
periodicEvery(u) ==
  /\ pc[u] = "idle" /\ kind = "periodic" /\ starts < MaxStarts /\ life = "used"
  /\ periodic' = TRUE
  /\ Goto(u, "start")
  /\ UNCHANGED <<kind, state, armed, posted, code, starts, owed, off, life>>

(* Mutant of oneshotAfter: the timer may be running. *)
oneshotAgain(u) ==
  /\ IF kind = "oneshot" THEN pc[u] = "idle" /\ life = "used" ELSE pc[u] = "start"
  /\ starts < MaxStarts
  /\ state' = "STARTED"
  /\ starts' = starts + 1
  /\ owed' = owed + 1
  /\ off' = FALSE
  /\ Goto(u, "arm")
  /\ UNCHANGED <<kind, periodic, armed, posted, code, life>>

(* The first half of oneshotAfter and oneshotAt; the latter also fails when *)
(* the time is in the past.                                                 *)
oneshotAfter(u) ==
  /\ IF kind = "oneshot" THEN pc[u] = "idle" /\ life = "used" ELSE pc[u] = "start"
  /\ \/ /\ state = "STOPPED" /\ starts < MaxStarts
        /\ state' = "STARTED"
        /\ starts' = starts + 1
        /\ owed' = owed + 1
        /\ off' = FALSE
        /\ Goto(u, "arm")
     \/ /\ Goto(u, "idle")
        /\ UNCHANGED <<state, starts, owed, off>>
  /\ UNCHANGED <<kind, periodic, armed, posted, code, life>>

(* Their second half. *)
arm(u) ==
  /\ pc[u] = "arm"
  /\ async_wait
  /\ Goto(u, "idle")
  /\ UNCHANGED <<kind, state, periodic, code, starts, owed, off, life>>

(* stop looks, clears _periodic and cancels. *)
stop(u) ==
  /\ pc[u] = "idle" /\ state = "STARTED" /\ life = "used"
  /\ Goto(u, "clear")
  /\ UNCHANGED <<kind, state, periodic, armed, posted, code, starts, owed, off, life>>

clearPeriodic(u) ==
  /\ pc[u] = "clear"
  /\ periodic' = FALSE
  /\ Goto(u, "cancel")
  /\ UNCHANGED <<kind, state, armed, posted, code, starts, owed, off, life>>

(* Mutant of cancel: _isRunning stays. *)
cancelRunning(u) ==
  /\ pc[u] = "cancel"
  /\ posted' = [posted EXCEPT !["aborted"] = @ + armed]
  /\ armed' = 0
  /\ off' = TRUE
  /\ Goto(u, IF life = "used" THEN "idle" ELSE "free")
  /\ UNCHANGED <<kind, state, periodic, code, starts, owed, life>>

cancel(u) ==
  /\ pc[u] = "cancel"
  /\ state' = "STOPPED"
  /\ posted' = [posted EXCEPT !["aborted"] = @ + armed]
  /\ armed' = 0
  /\ off' = TRUE
  /\ Goto(u, IF life = "used" THEN "idle" ELSE "free")
  /\ UNCHANGED <<kind, periodic, code, starts, owed, life>>

(* The destructor, which nobody calls while another task uses the timer,    *)
(* stops it ...                                                             *)
destroy(u) ==
  /\ life = "used" /\ \A v \in Users : pc[v] = "idle"
  /\ life' = "deleting"
  /\ Goto(u, IF state = "STARTED" THEN "clear" ELSE "free")
  /\ UNCHANGED <<kind, state, periodic, armed, posted, code, starts, owed, off>>

(* ... and leaves the Timer object to those that share in it. *)
free(u) ==
  /\ pc[u] = "free"
  /\ life' = "freed"
  /\ Goto(u, "idle")
  /\ UNCHANGED <<kind, state, periodic, armed, posted, code, starts, owed, off>>
-----------------------------------------------------------------------------
(* Threads of the timer service: onTimerFire. *)

(* Mutant of onTimerFire: _isRunning stays. *)
onTimerFireRunning(w) ==
  /\ pc[w] = "idle" /\ state = "STARTED"
  /\ \E e \in Errors :
       /\ posted[e] > 0
       /\ posted' = [posted EXCEPT ![e] = @ - 1]
       /\ code' = [code EXCEPT ![w] = e]
  /\ Goto(w, "signal")
  /\ UNCHANGED <<kind, state, periodic, armed, starts, owed, off, life>>

onTimerFire(w) ==
  /\ pc[w] = "idle"
  /\ \E e \in Errors :
       /\ posted[e] > 0
       /\ posted' = [posted EXCEPT ![e] = @ - 1]
       /\ code' = [code EXCEPT ![w] = e]
  /\ state' = "STOPPED"
  /\ Goto(w, IF state = "STARTED" THEN "signal" ELSE "idle")
  /\ UNCHANGED <<kind, periodic, armed, starts, owed, off, life>>

(* The notifier of the owner is signaled unless the wait was aborted; what  *)
(* becomes of that when the owner is freed is undefined.                    *)
signalNotifier(w) ==
  /\ pc[w] = "signal"
  /\ \/ owed' = IF code[w] = "none" /\ kind = "oneshot" THEN owed - 1 ELSE owed
     \/ life = "freed" /\ owed' = owed
  /\ Goto(w, "test")
  /\ UNCHANGED <<kind, state, periodic, armed, posted, code, starts, off, life>>

testPeriodic(w) ==
  /\ pc[w] = "test"
  /\ Goto(w, IF periodic THEN "rearm" ELSE "idle")
  /\ UNCHANGED <<kind, state, periodic, armed, posted, code, starts, owed, off, life>>

rearm(w) ==
  /\ pc[w] = "rearm"
  /\ async_wait
  /\ Goto(w, "run")
  /\ UNCHANGED <<kind, state, periodic, code, starts, owed, off, life>>

setRunning(w) ==
  /\ pc[w] = "run"
  /\ state' = "STARTED"
  /\ Goto(w, "idle")
  /\ UNCHANGED <<kind, periodic, armed, posted, code, starts, owed, off, life>>

Call(u) ==
  arm(u) \/ clearPeriodic(u) \/ cancel(u) \/ free(u) \/ (kind = "periodic" /\ oneshotAfter(u))

Fire(w) == onTimerFire(w) \/ signalNotifier(w) \/ testPeriodic(w) \/ rearm(w) \/ setRunning(w)

Next ==
  \/ \E u \in Users : periodicEvery(u) \/ oneshotAfter(u) \/ arm(u)
                      \/ stop(u) \/ clearPeriodic(u) \/ cancel(u)
                      \/ destroy(u) \/ free(u)
  \/ expire
  \/ \E w \in Workers : Fire(w)

Spec == Init /\ [][Next]_vars

(* An operation that has begun goes on, deadlines pass and the timer        *)
(* service runs.                                                            *)
FairSpec ==
  /\ Spec
  /\ \A u \in Users : WF_vars(Call(u))
  /\ WF_vars(expire)
  /\ \A w \in Workers : WF_vars(Fire(w))
-----------------------------------------------------------------------------
Places == {"idle", "start", "arm", "clear", "cancel", "free", "signal", "test", "rearm",
           "run"}

(* Types; no more than one wait of the deadline timer is ever armed, since  *)
(* expires_from_now cancels the one before.                                 *)
TypeOK ==
  /\ kind \in Kinds
  /\ state \in {"STOPPED", "STARTED"}
  /\ periodic \in BOOLEAN
  /\ armed \in {0, 1}
  /\ posted \in [Errors -> Nat]
  /\ pc \in [Users \cup Workers -> Places]
  /\ code \in [Workers -> Errors]
  /\ starts \in 0..MaxStarts
  /\ owed \in Int
  /\ off \in BOOLEAN
  /\ life \in {"used", "deleting", "freed"}

(* A wait is armed or about to be, or a call of onTimerFire is posted. *)
ToCome ==
  \/ armed = 1
  \/ \E e \in Errors : posted[e] > 0
  \/ \E u \in Users : pc[u] = "arm"

(* "STARTED ... timer is running and will fire" (OsTimer.h): however tasks  *)
(* start and stop a one-shot timer, in state STARTED onTimerFire is to come.*)
OneShotWillFire == kind = "oneshot" /\ state = "STARTED" => ToCome

(* "timer is running and will fire" (OsTimer.h) of a periodic timer too.    *)
StartedWillFire == state = "STARTED" => ToCome

(* "an event routine execution that has been previously committed may       *)
(* execute after stop() returns" (OsTimer.h:60), but none is committed      *)
(* later: once stop has returned OS_SUCCESS or the destructor has run,      *)
(* onTimerFire of a one-shot timer goes no further than its test until the  *)
(* timer is started again.                                                  *)
StopIsFinal ==
  [][\A w \in Workers :
       kind = "oneshot" /\ (off \/ life = "freed") /\ pc[w] = "idle" => pc'[w] = "idle"]_vars

(* "the timer is guaranteed to exist until after the event routine returns" *)
(* (OsTimer.h:70): onTimerFire does not go on to signal an owner that the   *)
(* destructor has freed.                                                    *)
ExistsForRoutine == life = "freed" => \A w \in Workers : pc[w] # "signal"

(* No start of a one-shot timer that nobody stops or destroys is lost: the  *)
(* notifier is signaled once for each.                                      *)
NoneLost ==
  [](kind = "oneshot" /\ life = "used" /\ \A u \in Users : pc[u] # "clear")
    => <>[](owed = 0)
=============================================================================
