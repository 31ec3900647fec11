-------------------------- MODULE ResponseContext --------------------------
(***************************************************************************)
(* What the transactions of one INVITE promise together: the "response     *)
(* context" of SipTransaction.cpp, without how the search goes about it.   *)
(* Module SipTransaction, with the search, implements this one.            *)
(*                                                                         *)
(* The client transactions of the call are Branches; up[b] is the one b    *)
(* belongs to, or Server.  A branch is none before it is created, ready    *)
(* when it was created and not sent (LOCALLY_INITIATED), trying while its  *)
(* address has the request (CALLING, PROCEEDING), and done after that.     *)
(***************************************************************************)
EXTENDS Integers, Sequences

CONSTANTS Server, Branches

VARIABLES
  up,           \* mpParentTransaction
  phase,        \* mTransactionState of the branches
  canceled,     \* the branches with mIsCanceled
  queued,       \* the branches on SipUserAgent::_cancelQueue
  final,        \* the last final response of the server transaction, or 0
  upstream      \* the responses sent to the caller, from the first final one

vars == <<up, phase, canceled, queued, final, upstream>>

Phases == {"none", "ready", "trying", "done"}

Success == 200..299
Failure == 300..699

(* A branch belongs to the server transaction in the end. *)
Grounded == \A S \in SUBSET Branches : S # {} => \E b \in S : up[b] \notin S

Exists(b) == phase[b] # "none"

(* mChildTransactions *)
Kids(t) == {b \in Branches : up[b] = t /\ Exists(b)}

Init ==
  /\ up \in [Branches -> Branches \cup {Server}] /\ Grounded
  /\ phase = [b \in Branches |-> "none"]
  /\ canceled = {} /\ queued = {}
  /\ final = 0 /\ upstream = <<>>

Rank == [none |-> 0, ready |-> 1, trying |-> 2, done |-> 3]

(* A search sends the request on: it creates and starts branches, none of  *)
(* them canceled or below a canceled one, and none below a branch that was *)
(* not sent itself.                                                        *)
Search(Moved) ==
  /\ phase' \in [Branches -> Phases]
  /\ \A b \in Branches \ Moved :
       \/ phase'[b] = phase[b]
       \/ /\ Rank[phase[b]] < Rank[phase'[b]]
          /\ b \notin canceled' /\ up[b] \notin canceled'
          /\ up[b] = Server \/ phase'[up[b]] \in {"trying", "done"}

(* Only the router gives the server transaction a branch. *)
KeepsTop == \A b \in Branches : up[b] = Server /\ Exists(b)' => Exists(b)

Sends(code) == final' = code /\ upstream' = Append(upstream, code)

(* The router forwards the request. *)
Forward ==
  /\ Kids(Server) = {}
  /\ UNCHANGED <<up, canceled, queued, final, upstream>>
  /\ Search({})

(* A branch answers 2xx: that goes upstream at once, and the branches are   *)
(* to be canceled.                                                          *)
Succeed(b) ==
  /\ phase[b] \in {"trying", "done"}
  /\ final' \in Success /\ Sends(final')
  /\ phase' = [phase EXCEPT ![b] = "done"]
  /\ queued' = queued \cup Kids(Server)
  /\ UNCHANGED <<up, canceled>>

(* Branch b fails or a timer of it runs out.  The latter may cancel it.     *)
(* The search goes on; if it leaves no branch trying, and nothing final was *)
(* sent, the best response goes upstream.                                   *)
GoOn(b) ==
  /\ phase[b] \in {"trying", "done"}
  /\ phase'[b] \in {phase[b], "done"}
  /\ Search({b}) /\ KeepsTop
  /\ \/ UNCHANGED <<canceled, queued>>
     \/ canceled' = canceled \cup {b} /\ queued' = queued \cup Kids(b)
  /\ \/ UNCHANGED <<final, upstream>>
     \/ /\ final = 0 /\ \A c \in Branches : phase'[c] = "trying" => c \in canceled'
        /\ final' \in Failure /\ Sends(final')
  /\ UNCHANGED up

(* The caller cancels: 487, unless there is a final response. *)
ReceiveCancel ==
  /\ final = 0
  /\ Sends(487)
  /\ queued' = queued \cup Kids(Server)
  /\ UNCHANGED <<up, phase, canceled>>

(* The next branch of the cancel queue, which may be on it twice. *)
Cancel(b) ==
  /\ b \in queued
  /\ LET below == IF b \in canceled THEN {} ELSE Kids(b)
     IN queued' = queued \cup below \/ queued' = (queued \ {b}) \cup below
  /\ canceled' = canceled \cup {b}
  /\ UNCHANGED <<up, phase, final, upstream>>

Next ==
  \/ Forward
  \/ \E b \in Branches : Succeed(b) \/ GoOn(b) \/ Cancel(b)
  \/ ReceiveCancel

Spec == Init /\ [][Next]_vars
-----------------------------------------------------------------------------
(* The branches have their phases, only branches that exist are canceled or *)
(* to be canceled, and what went upstream are final responses               *)
(* (SipTransaction.h).                                                      *)
TypeOK ==
  /\ up \in [Branches -> Branches \cup {Server}]
  /\ phase \in [Branches -> Phases]
  /\ canceled \subseteq {b \in Branches : Exists(b)}
  /\ queued \subseteq {b \in Branches : Exists(b)}
  /\ final \in {0} \cup Success \cup Failure
  /\ upstream \in Seq(Success \cup Failure)

Final(code) == code >= 200

(* What the caller is sent: after a final response only 2xx responses       *)
(* follow (handleChildIncoming: "Once a final response is sent we no longer *)
(* send provisional responses, but we still send 2XX class responses",      *)
(* SipTransaction.cpp:2002), so the INVITE fails at most once and never     *)
(* after it succeeded, whichever of CANCEL, time-out and response comes     *)
(* first.                                                                   *)
UpstreamOrder ==
  \A i, j \in DOMAIN upstream :
    i < j /\ Final(upstream[i]) => upstream[j] \in Success

Answered == \E i \in DOMAIN upstream : upstream[i] \in Success

Pending == {b \in Branches : phase[b] = "trying" /\ b \notin canceled}

(* When the call was answered and the cancel queue has been worked off, no  *)
(* other address is left ringing (the 2xx branch of handleChildIncoming and *)
(* cancelChildren).                                                         *)
AnsweredElsewhere == Answered /\ queued = {} => Pending = {}
=============================================================================
