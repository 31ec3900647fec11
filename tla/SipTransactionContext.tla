----------------------- MODULE SipTransactionContext ------------------------
(***************************************************************************)
(* The transactions of one INVITE, and what the caller and the addresses   *)
(* see of them (module ResponseContext).  How the transactions work is in  *)
(* module SipTransaction.                                                  *)
(*                                                                         *)
(* The tree.  Server is the server transaction.  A member of Clients sends *)
(* the request to a URI ("class 1" in SipTransaction.h): it looks the URI  *)
(* up and has one child for each address found.  A member of DnsChildren   *)
(* (mIsDnsSrvChild, "class 2") sends it to one address; when that answers  *)
(* 3xx its children are Clients, one for each contact.  The field kids of  *)
(* a scenario lists the children of each transaction.                      *)
(***************************************************************************)
EXTENDS Integers, Sequences

CONSTANTS
  Server, Clients, DnsChildren,
  Scenarios             \* Scenarios[n]: a request and what the proxy meets on its
                        \* way, a record

ClientTransactions == Clients \cup DnsChildren
Transactions == {Server} \cup ClientTransactions

VARIABLES
  tree,                 \* tree[t]: the fields of transaction t
  cancelQueue,          \* SipUserAgent::_cancelQueue
  upstream,             \* the responses sent to the caller, from the first final one
  env                   \* what the proxy finds around it: the scenario, the
                        \* q-values, the loops and the unreachable addresses

(* Worked out once for each scenario; a transaction that is not used in it  *)
(* counts as a child of Server.                                             *)
Parents ==
  [n \in DOMAIN Scenarios |-> [t \in ClientTransactions |->
     CHOOSE p \in Transactions :
       LET kids == Scenarios[n].kids
           above == {q \in Transactions : \E i \in DOMAIN kids[q] : kids[q][i] = t}
       IN IF above = {} THEN p = Server ELSE p \in above]]
-----------------------------------------------------------------------------
(* mTransactionState, as far as it is seen from outside. *)
Phase ==
  [none |-> "none", LOCALLY_INITIATED |-> "ready", CALLING |-> "trying", PROCEEDING |-> "trying",
   COMPLETE |-> "done", CONFIRMED |-> "done", TERMINATED |-> "done"]

up == Parents[env.scenario]

phase == [b \in ClientTransactions |-> IF b \in DOMAIN tree THEN Phase[tree[b].state] ELSE "none"]

cut == {b \in DOMAIN tree : tree[b].canceled}

queued == {cancelQueue[i] : i \in DOMAIN cancelQueue}

finalSent == tree[Server].final

Context ==
  INSTANCE ResponseContext WITH
    Branches <- ClientTransactions, canceled <- cut, final <- finalSent

(* The search keeps what ResponseContext promises: nothing is started that  *)
(* is canceled or below a canceled transaction (startSequentialSearch,      *)
(* recurseChildren, recurseDnsSrvChildren), a failure goes upstream only    *)
(* when no address is being tried and nothing final was sent                *)
(* (handleChildIncoming, handleChildTimeoutEvent), and whatever is canceled *)
(* has its children queued (cancel, cancelChildren).                        *)
KeepsContext == Context!Spec

(* What the caller is sent: after a final response only 2xx responses       *)
(* follow (handleChildIncoming: "Once a final response is sent we no longer *)
(* send provisional responses, but we still send 2XX class responses",      *)
(* SipTransaction.cpp:2002).                                                *)
UpstreamOrder == Context!UpstreamOrder

(* When the call was answered and the cancel queue has been worked off, no  *)
(* other address is left ringing (the 2xx branch of handleChildIncoming and *)
(* cancelChildren).                                                         *)
AnsweredElsewhere == Context!AnsweredElsewhere
=============================================================================
