-------------------------- MODULE RedirectContract --------------------------
(***************************************************************************)
(* What the redirect server promises to the senders of requests and to its *)
(* redirectors (RedirectPlugin.h, SipRedirectServer.h), without its queue, *)
(* its sequence numbers, its list of suspended requests and its counters.  *)
(*                                                                         *)
(* A request is looked up by the redirectors while it is open.  Each may   *)
(* ask for time to search; the request is then suspended and is looked up  *)
(* again when all of those searches have been reported.  A request that is *)
(* done has no answer to come, and no redirector is left without the       *)
(* cancel() that a search entitles it to.                                  *)
(***************************************************************************)
EXTENDS Naturals

CONSTANTS Requests, Redirectors

VARIABLES
    phase,      \* phase[r]: "unseen", "open", "suspended" or "done"
    searching,  \* searching[r]: redirectors whose search goes on
    waiting,    \* waiting[r]: redirectors the suspended request waits for
    owed,       \* owed[r]: redirectors that asked for time, not yet canceled
    finals,     \* finals[r]: answers given, but for the 503 of an exception
    failures    \* failures[r]: 503 responses to an exception

vars == <<phase, searching, waiting, owed, finals, failures>>

Init ==
    /\ phase = [r \in Requests |-> "unseen"]
    /\ searching = [r \in Requests |-> {}]
    /\ waiting = [r \in Requests |-> {}]
    /\ owed = [r \in Requests |-> {}]
    /\ finals = [r \in Requests |-> 0]
    /\ failures = [r \in Requests |-> 0]

Accept(r) ==
    /\ phase[r] = "unseen"
    /\ phase' = [phase EXCEPT ![r] = "open"]
    /\ UNCHANGED <<searching, waiting, owed, finals, failures>>

\* lookUp returns SEARCH_PENDING: never twice without a resumption between.
Search(r, i) ==
    /\ phase[r] = "open"
    /\ i \notin waiting[r]
    /\ searching' = [searching EXCEPT ![r] = @ \cup {i}]
    /\ waiting' = [waiting EXCEPT ![r] = @ \cup {i}]
    /\ owed' = [owed EXCEPT ![r] = @ \cup {i}]
    /\ UNCHANGED <<phase, finals, failures>>

\* The search ends, perhaps long after the request.
Report(r, i) ==
    /\ i \in searching[r]
    /\ searching' = [searching EXCEPT ![r] = @ \ {i}]
    /\ UNCHANGED <<phase, waiting, owed, finals, failures>>

Suspend(r) ==
    /\ phase[r] = "open"
    /\ waiting[r] # {}
    /\ phase' = [phase EXCEPT ![r] = "suspended"]
    /\ UNCHANGED <<searching, waiting, owed, finals, failures>>

\* Only a search that was reported is resumed, and only the last one opens the
\* request again.
Resume(r, i) ==
    /\ phase[r] = "suspended"
    /\ i \in waiting[r] \ searching[r]
    /\ waiting' = [waiting EXCEPT ![r] = @ \ {i}]
    /\ phase' = IF waiting[r] = {i} THEN [phase EXCEPT ![r] = "open"] ELSE phase
    /\ UNCHANGED <<searching, owed, finals, failures>>

\* The requests of rs end, and their redirectors are canceled.
Ended(rs) ==
    /\ phase' = [r \in Requests |-> IF r \in rs THEN "done" ELSE phase[r]]
    /\ waiting' = [r \in Requests |-> IF r \in rs THEN {} ELSE waiting[r]]
    /\ owed' = [r \in Requests |-> IF r \in rs THEN {} ELSE owed[r]]
    /\ UNCHANGED <<searching, failures>>

Answered(rs) == finals' = [r \in Requests |-> IF r \in rs THEN finals[r] + 1 ELSE finals[r]]

Conclude(r) ==
    /\ phase[r] = "open"
    /\ Ended({r})
    /\ Answered({r})

\* A CANCEL ends suspended requests.
Terminate(rs) ==
    /\ \A r \in rs : phase[r] = "suspended"
    /\ Ended(rs)
    /\ Answered(rs)

Shutdown(rs) ==
    /\ \A r \in rs : phase[r] = "suspended"
    /\ Ended(rs)
    /\ UNCHANGED finals

\* A redirector throws an exception: the request stays suspended, or is over
\* when no redirector had asked for time.  The sender is told when it happens
\* on the first attempt, so at most once.
Fail(r) ==
    /\ phase[r] = "open"
    /\ \/ phase' = [phase EXCEPT ![r] = "suspended"]
       \/ owed[r] = {} /\ waiting[r] = {} /\ phase' = [phase EXCEPT ![r] = "done"]
    /\ \/ failures' = failures
       \/ failures[r] = 0 /\ failures' = [failures EXCEPT ![r] = 1]
    /\ UNCHANGED <<searching, waiting, owed, finals>>

Next ==
    \/ \E r \in Requests :
          \/ Accept(r) \/ Suspend(r) \/ Conclude(r) \/ Fail(r)
          \/ \E i \in Redirectors : Search(r, i) \/ Report(r, i) \/ Resume(r, i)
    \/ \E rs \in SUBSET Requests : Terminate(rs) \/ Shutdown(rs)

Spec == Init /\ [][Next]_vars

\* A request gets one final answer at most besides the 503 of an exception, and
\* when it is done every redirector that returned SEARCH_PENDING has had its
\* cancel(): "the redirect server guarantees to call cancel after the moment when
\* lookUp will never be called again for the request" (RedirectPlugin.h).
Promise ==
    \A r \in Requests :
        /\ finals[r] + failures[r] <= 2 /\ finals[r] <= 1 /\ failures[r] <= 1
        /\ finals[r] = 1 => phase[r] = "done"
        /\ phase[r] \in {"unseen", "done"} => owed[r] = {} /\ waiting[r] = {}
=============================================================================
