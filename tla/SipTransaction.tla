--------------------------- MODULE SipTransaction ---------------------------
(***************************************************************************)
(* One INVITE going through the proxy: the tree of SipTransaction objects  *)
(* (sipXtackLib/src/net/SipTransaction.cpp) that forwards it, forks it on  *)
(* redirections, fails over between the addresses of a DNS lookup, cancels *)
(* what is left over and sends one answer upstream.                        *)
(*                                                                         *)
(* Module SipTransactionContext has the transactions and the tree they     *)
(* make.  Kids[t] lists the children t gets when its lookup or its 3xx     *)
(* comes, highest q-value first (the order linkChild keeps).               *)
(*                                                                         *)
(* A handler runs while its thread holds the whole tree (markBusy, module  *)
(* SipTransactionList), so each handler is one action.  Handlers call each *)
(* other up and down the tree; they are operators on a "world" w, a record *)
(* of the three variables they change.  Three things run by themselves:    *)
(* the router thread that forwards the request, the timers, and the thread *)
(* that takes transactions off SipUserAgent's cancel queue.                *)
(*                                                                         *)
(* Left out: the contents of messages, what is dispatched to applications, *)
(* time stamps, the resending of the answer until the ACK, and the resend  *)
(* and expires timers of a CANCEL, whose handlers change nothing (the test *)
(* !mIsCanceled in handleResendEvent, the CANCEL branch of                 *)
(* handleChildTimeoutEvent).                                               *)
(***************************************************************************)
EXTENDS SipTransactionContext, BestResponse, FiniteSets, SequencesExt

(* FoldLeft of SequencesExt; as a recursive function TLC evaluates it far   *)
(* faster.                                                                  *)
Scan(Op(_, _), base, s) ==
  LET upTo[i \in 0..Len(s)] == IF i = 0 THEN base ELSE Op(upTo[i - 1], s[i])
  IN upTo[Len(s)]

CONSTANT
  SIP_RESEND_TIMES      \* bound on the sends of one request

vars == <<tree, cancelQueue, upstream, env>>

(* The request and what the proxy meets on its way. *)
Scenario == Scenarios[env.scenario]

Kids == Scenario.kids             \* Kids[t]: the children t may get, in list order
Expiring == Scenario.expiring     \* Clients whose request has an Expires header
Answers == Scenario.answers       \* Answers[d]: what address d may respond; 183 has SDP
Timed == Scenario.timed           \* transactions whose timers may expire; those of
                                  \* the others are too long to matter
MayCancel == Scenario.mayCancel   \* whether the caller may send a CANCEL
RecurseOnlyOne300 == Scenario.recurseOnlyOne300
                                  \* SipUserAgent::recurseOnlyOne300Contact

Rank == [none |-> 0, LOCALLY_INITIATED |-> 1, CALLING |-> 2, PROCEEDING |-> 3,
         COMPLETE |-> 4, CONFIRMED |-> 5, TERMINATED |-> 6]

(* A transaction before it is created. *)
Blank ==
  [state |-> "none",       \* mTransactionState
   prov |-> FALSE,         \* mpLastProvisionalResponse
   final |-> 0,            \* mpLastFinalResponse: its status code
   sdp |-> FALSE,          \* mProvisionalSdp
   canceled |-> FALSE,     \* mIsCanceled
   cancelMsg |-> FALSE,    \* mpCancel
   recursing |-> FALSE,    \* mIsRecursing
   extends |-> FALSE,      \* mProvoExtendsTimer
   timers |-> {},          \* mTimers: of the request
   timesSent |-> 0]        \* SipMessage::getTimesSent of the request

World == [tree |-> tree, cancelQueue |-> cancelQueue, upstream |-> upstream]

Becomes(w) ==
  /\ tree' = w.tree
  /\ cancelQueue' = w.cancelQueue
  /\ upstream' = w.upstream

Parent(t) == up[t]

RECURSIVE Descendants(_, _)

Descendants(kids, t) ==
  UNION {{kids[t][i]} \cup Descendants(kids, kids[t][i]) : i \in DOMAIN kids[t]}

(* The transactions at or below each transaction. *)
Subtrees ==
  [n \in DOMAIN Scenarios |-> [t \in Transactions |->
     {t} \cup Descendants(Scenarios[n].kids, t)]]

Subtree(t) == Subtrees[env.scenario][t]

(* The client transactions of the tree: "class 1" and "class 2" of          *)
(* SipTransaction.h.                                                        *)
Class1 == Clients \cap DOMAIN tree
Class2 == DnsChildren \cap DOMAIN tree

(* mChildTransactions *)
Children(w, t) == SelectSeq(Kids[t], LAMBDA c : w.tree[c].state # "none")

(* Timers are set: those that may expire are remembered. *)
Timers(t, kinds) == IF t \in Timed THEN kinds ELSE {}

Create(w, ts) ==
  [w EXCEPT !.tree = [t \in DOMAIN w.tree |->
     IF t \in ts THEN [Blank EXCEPT !.state = "LOCALLY_INITIATED"] ELSE w.tree[t]]]

Busy(x) == x.state \in {"CALLING", "PROCEEDING"}

(* isChildSerial: the children of t are not all tried at once. *)
isChildSerial(w, t) ==
  LET kids == Children(w, t)
  IN kids # <<>> /\ Head(kids) \in Clients /\ env.qvalue[Head(kids)] # env.qvalue[Last(kids)]
-----------------------------------------------------------------------------
(* addResponse: what a message of each kind leaves in transaction x. *)

Advance(x, s) == [x EXCEPT !.state = IF Rank[@] < Rank[s] THEN s ELSE @]

addRequest(x) == Advance(x, "CALLING")

addProvisional(x, code) ==
  [Advance(x, "PROCEEDING") EXCEPT !.prov = TRUE, !.sdp = @ \/ code = 183,
                                   !.extends = @ \/ code > 100]

addFinal(x, code) == [Advance(x, "COMPLETE") EXCEPT !.final = code]
-----------------------------------------------------------------------------
(* The responses of the server transaction. *)

sendFinal(w, code) ==
  [w EXCEPT !.tree[Server] = addFinal(@, code), !.upstream = Append(@, code)]

sendProvisional(w, code) ==
  [w EXCEPT !.tree[Server] = [Advance(@, "PROCEEDING") EXCEPT !.prov = TRUE],
            !.upstream = IF @ = <<>> THEN @ ELSE Append(@, code)]

(* cancelChildren only enqueues: another thread calls cancel. *)
cancelChildren(w, t) == [w EXCEPT !.cancelQueue = @ \o Children(w, t)]

(* Mutant of cancel: the children are forgotten. *)
cancelFlat(w, t) ==
  [w EXCEPT !.tree[t].canceled = TRUE,
            !.tree[t].cancelMsg = @ \/ (t \in DnsChildren /\ w.tree[t].state = "PROCEEDING")]

(* cancel: the CANCEL goes out only when a provisional response came. *)
cancel(w, t) ==
  LET x == w.tree[t]
      done == [w EXCEPT !.tree[t].canceled = TRUE,
                        !.tree[t].cancelMsg = @ \/ (t \in DnsChildren /\ x.state = "PROCEEDING")]
  IN IF x.canceled THEN w
     ELSE IF x.state = "LOCALLY_INITIATED" THEN done
     ELSE cancelChildren(done, t)
-----------------------------------------------------------------------------
(* Sending the request.  Each operator returns the new world and whether   *)
(* something was sent.                                                     *)

doFirstSend(w, d) ==
  IF d \in env.unreachable
  THEN [w |-> [w EXCEPT !.tree[d] = Advance(@, "TERMINATED")], started |-> FALSE]
  ELSE [w |-> [w EXCEPT !.tree[d] = [addRequest(@) EXCEPT !.timers = Timers(d, {"resend", "expires"}),
                                                          !.timesSent = 1]],
        started |-> TRUE]

(* The lookup: the timers of c, and a child for each address. *)
lookup(w, c) ==
  LET timers == IF Kids[c] = <<>> THEN {"expires"}
                ELSE {"timerC"} \cup
                     (IF c \in Expiring \/ isChildSerial(w, Parent(c)) THEN {"expires"} ELSE {})
  IN Create([w EXCEPT !.tree[c] = [Advance(@, "CONFIRMED") EXCEPT !.timers = Timers(c, timers)]],
            Range(Kids[c]))

(* What the loop over children has reached: t is recursing if it sent. *)
recursed(r, t) ==
  [w |-> IF r.started THEN [r.w EXCEPT !.tree[t].recursing = TRUE] ELSE r.w,
   started |-> r.started]

looked(w, c) == IF Rank[w.tree[c].state] < Rank["CONFIRMED"] THEN lookup(w, c) ELSE w

(* One round of recurseDnsSrvChildren: send to d, unless an earlier address *)
(* is being tried or has responded.                                         *)
tryAddress(acc, d) ==
  LET x == acc.w.tree[d]
      first == doFirstSend(acc.w, d)
  IN IF acc.started \/ acc.stop THEN acc
     ELSE IF x.state = "LOCALLY_INITIATED"
          THEN [acc EXCEPT !.w = first.w, !.started = first.started]
     ELSE [acc EXCEPT !.stop = ~x.canceled /\ (Busy(x) \/ x.prov \/ x.final # 0)]

tryAddresses(w, c) ==
  recursed(Scan(tryAddress, [w |-> w, started |-> FALSE, stop |-> FALSE], Children(w, c)), c)

(* Look the URI up, once, and go to the next address. *)
recurseDnsSrvChildren(w, c) == tryAddresses(looked(w, c), c)

(* handleOutgoing of a request to a URI. *)
handleOutgoing(w, c) == recurseDnsSrvChildren([w EXCEPT !.tree[c] = addRequest(@)], c)

(* A 3xx that is not a loop gives t a child for each contact. *)
followed(w, t) ==
  IF ~(w.tree[t].final \in 300..399 /\ Children(w, t) = <<>>) THEN w
  ELSE IF t \in env.looping THEN [w EXCEPT !.tree[t] = addFinal(@, 482)]
  ELSE Create(w, Range(Kids[t]))

sentTo(acc, c, r) ==
  [w |-> r.w, nextQ |-> env.qvalue[c], started |-> acc.started \/ r.started]

(* Mutant of tryContact: the q-values do not matter. *)
tryContactAny(acc, c) ==
  IF acc.w.tree[c].state = "LOCALLY_INITIATED"
  THEN sentTo(acc, c, handleOutgoing(acc.w, c)) ELSE acc

(* One round of recurseChildren: send to contact c if nobody was sent the  *)
(* request or is busy, or if those who are have the q-value of c.          *)
tryContact(acc, c) ==
  LET x == acc.w.tree[c]
      nextQ == IF acc.started THEN acc.nextQ ELSE -1
  IN IF x.state = "LOCALLY_INITIATED" /\ (nextQ <= 0 \/ nextQ = env.qvalue[c])
     THEN sentTo(acc, c, handleOutgoing(acc.w, c))
     ELSE [acc EXCEPT !.nextQ = IF Busy(x) /\ ~x.canceled THEN env.qvalue[c] ELSE nextQ]

tryContacts(w, t, kids) ==
  recursed(Scan(tryContact, [w |-> w, nextQ |-> -1, started |-> FALSE], kids), t)

(* The contacts that are considered: code is that of the 3xx. *)
Considered(w, t, code) ==
  IF RecurseOnlyOne300 /\ code = 300 /\ Children(w, t) # <<>>
  THEN <<Head(Children(w, t))>> ELSE Children(w, t)

recurseFollowed(w, t, code) == tryContacts(w, t, Considered(w, t, code))

(* Follow the redirection t got: the contacts with the highest q-value     *)
(* nobody was sent the request yet.                                        *)
recurseChildren(w, t) ==
  IF w.tree[t].final = 0 THEN [w |-> w, started |-> FALSE]
  ELSE recurseFollowed(followed(w, t), t, w.tree[t].final)

RECURSIVE startSequentialSearch(_, _)

(* What the search knows after it went down to a child, followed the       *)
(* redirection of a child, or tried the next child.                        *)
wentDown(acc, r) == [acc EXCEPT !.w = r.w, !.still = @ \/ r.started]
wentOn(acc, r) == [acc EXCEPT !.w = r.w, !.starting = @ \/ r.started]
triedNext(acc, r) == [acc EXCEPT !.w = r.w, !.starting = r.started, !.left = r.started]

searchEnds(r, t) ==
  [w |-> [r.w EXCEPT !.tree[t].recursing = r.still \/ r.starting],
   started |-> r.still \/ r.starting]

(* Is something below t still being tried?  If not, try the next thing. *)
startSequentialSearch(w, t) ==
  LET Look(acc, c) ==
        LET x == acc.w.tree[c]
        IN IF acc.left THEN acc
           ELSE IF ~x.canceled /\ Busy(x) THEN [acc EXCEPT !.still = TRUE]
           ELSE IF x.recursing THEN wentDown(acc, startSequentialSearch(acc.w, c))
           ELSE IF acc.still \/ acc.w.tree[t].canceled \/ x.canceled THEN acc
           ELSE IF x.state \in {"COMPLETE", "CONFIRMED"}
                THEN wentOn(acc, recurseChildren(acc.w, c))
           ELSE IF x.state = "LOCALLY_INITIATED" /\ ~acc.starting
                THEN triedNext(acc, IF t \in Clients THEN recurseDnsSrvChildren(acc.w, t)
                                    ELSE recurseChildren(acc.w, t))
           ELSE acc
  IN searchEnds(Scan(Look, [w |-> w, still |-> FALSE, starting |-> FALSE, left |-> FALSE],
                         Children(w, t)), t)
-----------------------------------------------------------------------------
(* The tree as findBestResponse sees it. *)
Searched(w) ==
  [final |-> [t \in DOMAIN w.tree |-> IF w.tree[t].final = 0 THEN NoResponse
                                      ELSE [code |-> w.tree[t].final, realms |-> {}]],
   canceled |-> [t \in DOMAIN w.tree |-> w.tree[t].canceled],
   children |-> [t \in DOMAIN w.tree |-> Children(w, t)]]

bestCode(w) == findBestResponse(Searched(w), Server, Cardinality(DOMAIN w.tree)).code

(* Mutant of timeoutAfter: it sends nothing unless some address answered. *)
timeoutSilent(search) ==
  LET best == bestCode(search.w)
  IN IF search.started \/ search.w.tree[Server].final # 0 \/ best < 400 \/ best = 408
     THEN search.w
     ELSE sendFinal(search.w, best)

(* What a time-out sends after the search. *)
timeoutAfter(search) ==
  LET best == bestCode(search.w)
  IN IF search.started \/ search.w.tree[Server].final # 0 THEN search.w
     ELSE sendFinal(search.w, IF best < 400 \/ best = 404 THEN 408 ELSE best)

(* handleChildTimeoutEvent, which goes to the top of the tree. *)
handleChildTimeoutEvent(w) == timeoutAfter(startSequentialSearch(w, Server))

RECURSIVE extendParents(_, _)

(* handleChildIncoming on the way up: each parent takes over the flag of   *)
(* the child the response came from (the server transaction has no use for *)
(* it and is left out).                                                    *)
extendParents(w, t) ==
  IF Parent(t) = Server THEN w
  ELSE extendParents([w EXCEPT !.tree[Parent(t)].extends = w.tree[t].extends], Parent(t))

(* Mutant of sendBest: it does not wait for the end of the search. *)
sendBestEarly(search) == sendFinal(search.w, bestCode(search.w))

(* The search is over: the best response goes upstream. *)
sendBest(search) ==
  IF search.started THEN search.w ELSE sendFinal(search.w, bestCode(search.w))

(* Mutant of handleChildIncoming: failures are sent after the first final  *)
(* response too.                                                           *)
incomingTwice(w, code) ==
  CASE code = 100 -> w
    [] code \in 200..299 -> cancelChildren(sendFinal(w, code), Server)
    [] code \in 101..199 -> sendProvisional(w, code)
    [] OTHER -> sendBest(startSequentialSearch(w, Server))

(* handleChildIncoming at the server transaction.  A 2xx is sent at once   *)
(* and ends the search; a provisional response is sent until there is a    *)
(* final one; any other response may be the end of the search.             *)
handleChildIncoming(w, code) ==
  LET final == w.tree[Server].final
  IN CASE code = 100 -> w
       [] code \in 200..299 -> cancelChildren(sendFinal(w, code), Server)
       [] code \in 101..199 /\ final = 0 -> sendProvisional(w, code)
       [] code >= 300 /\ final = 0 -> sendBest(startSequentialSearch(w, Server))
       [] OTHER -> w
-----------------------------------------------------------------------------
(* The proxy has the INVITE and has sent 100 Trying. *)
Init ==
  /\ \E n \in DOMAIN Scenarios :
       env \in [scenario : {n}, qvalue : Scenarios[n].qvalues,
               looping : SUBSET Scenarios[n].mayLoop,
               unreachable : SUBSET Scenarios[n].mayBeUnreachable]
  /\ tree = [t \in Subtree(Server) |->
               IF t = Server THEN [Blank EXCEPT !.state = "PROCEEDING", !.prov = TRUE]
               ELSE Blank]
  /\ cancelQueue = <<>>
  /\ upstream = <<>>

(* SipUserAgent::send, called by the router: a child of the server         *)
(* transaction for the request, whatever happened to it meanwhile.         *)
send ==
  LET c == Head(Kids[Server]) IN
  /\ tree[c].state = "none"
  /\ Becomes(handleOutgoing(Create(World, {c}), c).w)
  /\ UNCHANGED env

(* An address can only answer a request it was sent. *)
Reached(d) == tree[d].state \notin {"none", "LOCALLY_INITIATED", "TERMINATED"}

(* handleIncoming, a provisional response: a CANCEL that waited for it is  *)
(* sent now.                                                               *)
receiveProvisional(d, code) ==
  LET x == addProvisional(tree[d], code)
      w == [World EXCEPT !.tree[d] = [x EXCEPT !.cancelMsg = @ \/ x.canceled]]
  IN /\ Reached(d)
     /\ Becomes(handleChildIncoming(extendParents(w, d), code))
     /\ UNCHANGED env

(* handleIncoming, the first final response.  An address answers 487 only  *)
(* when it was sent a CANCEL.                                              *)
receiveFinal(d, code) ==
  LET w == [World EXCEPT !.tree[d] = addFinal(@, code)]
  IN /\ Reached(d)
     /\ tree[d].final = 0
     /\ code = 487 => tree[d].cancelMsg
     /\ Becomes(handleChildIncoming(extendParents(w, d), code))
     /\ UNCHANGED env

(* Mutant of resendTimer: one send too many. *)
resendOnceMore(d) ==
  /\ "resend" \in tree[d].timers
  /\ tree[d].timesSent <= SIP_RESEND_TIMES
  /\ Becomes([World EXCEPT !.tree[d].timesSent = @ + 1])
  /\ UNCHANGED env

(* handleResendEvent of the request: send it again, or give up. *)
resendTimer(d) ==
  LET x == tree[d]
      waiting == x.state = "CALLING" /\ ~x.canceled /\ ~x.prov /\ x.final = 0
      over == [World EXCEPT !.tree[d].timers = @ \ {"resend"},
                            !.tree[d].state = IF @ = "CALLING" THEN "COMPLETE" ELSE @]
  IN /\ "resend" \in x.timers
     /\ \/ waiting /\ x.timesSent < SIP_RESEND_TIMES
           /\ Becomes([World EXCEPT !.tree[d].timesSent = @ + 1])
        \/ ~(waiting /\ x.timesSent < SIP_RESEND_TIMES)
           /\ Becomes(handleChildTimeoutEvent(over))
     /\ UNCHANGED env

isEarlyDialogWithMedia(x) == x.sdp /\ Busy(x)

(* The last of the children that were started decides. *)
isChildEarlyDialogWithMedia(w, t) ==
  LET started == SelectSeq(Children(w, t), LAMBDA c : w.tree[c].state # "LOCALLY_INITIATED")
  IN started # <<>> /\ isEarlyDialogWithMedia(w.tree[Last(started)])

(* Mutant of expire: the search is not brought on. *)
expireSilent(w, t) == IF w.tree[t].final = 0 THEN cancel(w, t) ELSE w

(* handleExpiresEvent, the part after the Timer C extension. *)
expire(w, t) ==
  LET x == w.tree[t]
      spared == \/ t \in DnsChildren /\ (x.prov \/ x.final # 0)
                \/ /\ t \in Clients
                   /\ isChildSerial(w, Parent(t))
                   /\ isChildEarlyDialogWithMedia(w, t)
  IN handleChildTimeoutEvent(
       IF ~spared /\ (x.recursing \/ x.state = "LOCALLY_INITIATED" \/ Busy(x))
       THEN cancel(w, t) ELSE w)

expiresTimer(t) ==
  /\ "expires" \in tree[t].timers
  /\ Becomes(expire([World EXCEPT !.tree[t].timers = @ \ {"expires"}], t))
  /\ UNCHANGED env

timerC(c) ==
  /\ "timerC" \in tree[c].timers
  /\ \/ tree[c].extends /\ Becomes([World EXCEPT !.tree[c].extends = FALSE])
     \/ ~tree[c].extends
        /\ Becomes(expire([World EXCEPT !.tree[c].timers = @ \ {"timerC"}], c))
  /\ UNCHANGED env

(* handleIncoming of the caller's CANCEL: the INVITE is answered 487 at    *)
(* once (gEnableHopByHopCancel) and the branches are to be canceled.       *)
receiveCancel ==
  LET x == tree[Server]
      w == [World EXCEPT !.tree[Server].cancelMsg = TRUE]
  IN /\ MayCancel /\ ~x.cancelMsg
     /\ Becomes(IF Busy(x)
                THEN cancelChildren(IF x.final = 0 THEN sendFinal(w, 487) ELSE w, Server)
                ELSE w)
     /\ UNCHANGED env

(* One round of SipUserAgent::handleCancelQueue. *)
handleCancelQueue ==
  /\ cancelQueue # <<>>
  /\ Becomes(cancel([World EXCEPT !.cancelQueue = Tail(@)], Head(cancelQueue)))
  /\ UNCHANGED env

Ring == \E d \in Class2 : \E code \in Answers[d] \cap 100..199 : receiveProvisional(d, code)

Answer(d) == \E code \in Answers[d] \ 100..199 : receiveFinal(d, code)

Next ==
  \/ send
  \/ Ring
  \/ \E d \in Class2 : Answer(d) \/ resendTimer(d)
  \/ \E t \in Class1 \cup Class2 : expiresTimer(t)
  \/ \E c \in Class1 : timerC(c)
  \/ receiveCancel
  \/ handleCancelQueue

Spec == Init /\ [][Next]_vars

Armed == \E t \in DOMAIN tree : tree[t].timers # {}

Unsent == tree[Head(Kids[Server])].state = "none"

(* The router sends the request, timers expire (none stays set for ever)    *)
(* and the thread of the cancel queue works it off; nothing is promised of  *)
(* the network.  This is weak fairness of those steps, which can each be    *)
(* taken only finitely often unless an address rings for ever.              *)
Runs == []<>~Unsent /\ []<>~Armed /\ []<>(cancelQueue = <<>>)

FairSpec == Spec /\ Runs

(* Besides, every address that was sent a CANCEL answers the request. *)
CancelUnanswered(d) == d \in Class2 /\ tree[d].cancelMsg /\ tree[d].final = 0

AnsweringSpec == FairSpec /\ \A d \in DnsChildren : <>[]~CancelUnanswered(d)
-----------------------------------------------------------------------------
TxState ==
  [state : DOMAIN Rank, prov : BOOLEAN, final : {0} \cup 200..699,
   sdp : BOOLEAN, canceled : BOOLEAN, cancelMsg : BOOLEAN, recursing : BOOLEAN,
   extends : BOOLEAN, timers : SUBSET {"resend", "expires", "timerC"},
   timesSent : 0..SIP_RESEND_TIMES]

(* The fields of every transaction have their types, the cancel queue has   *)
(* only client transactions that exist, and a transaction that exists has a *)
(* parent that exists (SipTransaction.h, SipUserAgent::_cancelQueue).       *)
TypeOK ==
  /\ tree \in [Subtree(Server) -> TxState]
  /\ \A i \in DOMAIN cancelQueue : /\ cancelQueue[i] \in Class1 \cup Class2
                                   /\ tree[cancelQueue[i]].state # "none"
  /\ \A t \in DOMAIN tree : \A i \in DOMAIN Kids[t] :
       tree[Kids[t][i]].state # "none" => tree[t].state \notin {"none", "LOCALLY_INITIATED"}

(* Addresses at or below t that were sent the request, have not answered    *)
(* and are not being canceled.                                              *)
Pending(t) ==
  {d \in Subtree(t) \cap DnsChildren : Busy(tree[d]) /\ ~tree[d].canceled}

(* "Larger values are processed first; equal values are recursed in         *)
(* parallel" (SipTransaction.h, mQvalue): while a contact rings, no contact *)
(* with a lower q-value does, and while an address of a DNS lookup is being *)
(* tried, no other address of that lookup is.                               *)
HighestFirst ==
  /\ \A t, u \in Class1 :
       Parent(t) = Parent(u) /\ env.qvalue[t] > env.qvalue[u] => Pending(t) = {} \/ Pending(u) = {}
  /\ \A c \in Class1 : \A d, e \in Range(Kids[c]) :
       d # e => ~(Busy(tree[d]) /\ Busy(tree[e]) /\ ~tree[d].canceled /\ ~tree[e].canceled)

(* While no final response was sent the proxy has not lost track of the     *)
(* INVITE: a transaction below is still being tried, or some timer or       *)
(* queued cancellation will bring the search on.                            *)
Tracked ==
  tree[Server].final = 0 /\ tree[Head(Kids[Server])].state # "none" =>
    \/ Pending(Server) # {}
    \/ cancelQueue # <<>>
    \/ \E t \in Class1 \cup Class2 : tree[t].timers # {}
    \/ \E d \in Class2 : CancelUnanswered(d)

(* Where all timers run, the INVITE gets a final response, unless some      *)
(* address keeps ringing: the                                               *)
(* timers of the client transactions "enforce 'request expiration', that    *)
(* is, the Expires header and Timer C for INVITEs" (SipTransaction.h:504).  *)
FinalUpstream ==
  []<><<Ring>>_vars \/ <>(tree[Server].final # 0) \/ ~(Subtree(Server) \subseteq Timed \cup {Server})

(* handleIncoming of a CANCEL: "A proxy MUST cancel any pending client      *)
(* transactions associated with a response context when it receives a       *)
(* matching CANCEL request" (SipTransaction.cpp:4494): after the CANCEL,    *)
(* once the cancel queue is empty, no address rings on.                     *)
CancelReachesAll ==
  tree[Server].cancelMsg /\ cancelQueue = <<>> => Pending(Server) = {}

=============================================================================
