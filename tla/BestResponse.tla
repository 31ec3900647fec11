---------------------------- MODULE BestResponse ----------------------------
(***************************************************************************)
(* Which final response a proxy sends upstream when the search is over:    *)
(* SipTransaction::findBestResponse (SipTransaction.cpp).                   *)
(*                                                                         *)
(* The search looks at a tree of transactions, a record s of functions on  *)
(* the transactions:                                                       *)
(*   s.final[t]     the final response of t, or NoResponse                 *)
(*   s.canceled[t]  mIsCanceled                                            *)
(*   s.children[t]  mChildTransactions, in the order of the list           *)
(* A response is [code, realms]: its status code and the realms of the     *)
(* authentication challenges it carries.                                   *)
(***************************************************************************)
EXTENDS Integers, Sequences

NoResponse == [code |-> -1, realms |-> {}]

(* enum ResponsePriority, highest priority first. *)
RESP_PRI_CHALLENGE == 0
RESP_PRI_CANCEL == 1
RESP_PRI_3XX == 2
RESP_PRI_4XX == 3
RESP_PRI_404 == 4
RESP_PRI_5XX == 5
RESP_PRI_6XX == 6
RESP_PRI_NOMATCH == 8

(* findRespPriority: 603 (decline) is listed with the 4xx codes. *)
findRespPriority(code) ==
  CASE code \in {401, 407}              -> RESP_PRI_CHALLENGE
    [] code = 487                       -> RESP_PRI_CANCEL
    [] code \in 300..399                -> RESP_PRI_3XX
    [] code = 404                       -> RESP_PRI_404
    [] code \in 400..499 \ {401, 404, 407, 487} \/ code = 603 -> RESP_PRI_4XX
    [] code \in 500..599                -> RESP_PRI_5XX
    [] code >= 600 /\ code # 603        -> RESP_PRI_6XX
    [] OTHER                            -> RESP_PRI_NOMATCH

(* Mutant: any failure replaces any other. *)
PreferredAny(s, child, bestPri) ==
  bestPri = RESP_PRI_NOMATCH \/ bestPri >= RESP_PRI_4XX

(* The branches of the switch that set useThisResp, for a child with a     *)
(* final response while the best response so far has priority bestPri.     *)
Preferred(s, child, bestPri) ==
  LET respPri == findRespPriority(s.final[child].code) IN
  \/ bestPri = RESP_PRI_NOMATCH
  \/ respPri = RESP_PRI_CHALLENGE /\ bestPri >= RESP_PRI_4XX
  \/ respPri = RESP_PRI_CANCEL /\ s.canceled[child] /\ bestPri >= RESP_PRI_4XX
  \/ respPri = RESP_PRI_3XX /\ bestPri >= RESP_PRI_4XX /\ s.children[child] = <<>>
  \/ respPri \in {RESP_PRI_4XX, RESP_PRI_5XX, RESP_PRI_6XX} /\ bestPri > respPri
  \/ respPri \in {RESP_PRI_404, RESP_PRI_NOMATCH}

(* Mutant: the realms of a second challenge are lost. *)
mergeChallengeNone(best, response) == best

(* pathNum 4: a second challenge adds its realms to the first. *)
mergeChallenge(best, response) ==
  IF findRespPriority(best.code) = RESP_PRI_CHALLENGE
     /\ findRespPriority(response.code) = RESP_PRI_CHALLENGE
  THEN [best EXCEPT !.realms = @ \cup response.realms]
  ELSE best

(* A 503 of one branch says nothing of this proxy: it is sent on as 500. *)
forwardable(response) ==
  IF response.code = 503 THEN [response EXCEPT !.code = 500] ELSE response

(* One round of the loop, once the child's own subtree was searched.       *)
(* useThisResp is a local of the whole loop.                               *)
considerChild(s, acc, child) ==
  LET use == acc.useThisResp \/ Preferred(s, child, findRespPriority(acc.best.code)) IN
  IF s.final[child] = NoResponse THEN acc
  ELSE [best        |-> IF use THEN forwardable(s.final[child])
                        ELSE mergeChallenge(acc.best, s.final[child]),
        found       |-> acc.found \/ use,
        useThisResp |-> use]

(* below[<<t, best>>] is what the search below t makes of the best response *)
(* so far.                                                                  *)
searchChild(s, below, acc, child) ==
  LET result == below[<<child, acc.best>>]
  IN considerChild(s, [best        |-> result.best,
                       found       |-> acc.found \/ result.found,
                       useThisResp |-> acc.useThisResp], child)

searchChildren(s, below, t, best) ==
  LET upTo[i \in 0..Len(s.children[t])] ==
        IF i = 0 THEN [best |-> best, found |-> FALSE, useThisResp |-> FALSE]
        ELSE searchChild(s, below, upTo[i - 1], s.children[t][i])
      all == upTo[Len(s.children[t])]
  IN [best |-> all.best, found |-> all.found]

(* The best responses there can be, and what the search below a transaction *)
(* is asked: the transaction and the best response before it.               *)
Candidates(s) == [code : Int, realms : SUBSET UNION {s.final[t].realms : t \in DOMAIN s.final}]

Asked(s) == (DOMAIN s.final) \X Candidates(s)

(* The recursion goes down by one generation at a time; below a tree of     *)
(* height generations there is nothing.                                     *)
findBestChildResponse(s, height) ==
  LET below[h \in 0..height] ==
        IF h = 0 THEN [x \in Asked(s) |-> [best |-> x[2], found |-> FALSE]]
        ELSE [x \in Asked(s) |-> searchChildren(s, below[h - 1], x[1], x[2])]
  IN below[height]

(* At the top of the tree no response at all is a time-out. *)
findBestResponse(s, top, height) ==
  LET result == findBestChildResponse(s, height)[<<top, NoResponse>>] IN
  IF result.found THEN result.best ELSE [code |-> 408, realms |-> {}]
=============================================================================
