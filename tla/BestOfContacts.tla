--------------------------- MODULE BestOfContacts ---------------------------
(***************************************************************************)
(* What findBestResponse (module BestResponse) has to make of the tree the *)
(* proxy builds for a redirection: the request went to one address, which  *)
(* redirected it (302) to some contacts, and each contact was tried at the *)
(* addresses of its DNS lookup.  answer[b][a] is the final response of     *)
(* address a of contact b, or NoResponse; canceled[b][a] tells whether     *)
(* that transaction is canceled.                                           *)
(***************************************************************************)
EXTENDS BestResponse

(* A transaction is the path to it from the top: <<>> is the server         *)
(* transaction, <<1, 1>> the address that redirects, <<1, 1, b>> contact b  *)
(* and <<1, 1, b, a>> its address a.                                        *)
Paths(answer) ==
  {<<>>, <<1>>, <<1, 1>>} \cup {<<1, 1, b>> : b \in DOMAIN answer}
    \cup UNION {{<<1, 1, b, a>> : a \in DOMAIN answer[b]} : b \in DOMAIN answer}

(* The height of that tree. *)
Height == 4

(* The final response, and the number of children, of the transaction at    *)
(* path t.                                                                  *)
FinalAt(answer, t) ==
  CASE Len(t) = Height -> answer[t[3]][t[4]]
    [] Len(t) = 2 -> [code |-> 302, realms |-> {}]
    [] Len(t) \in {0, 1, 3} -> NoResponse

KidsAt(answer, t) ==
  CASE Len(t) < 2 -> 1
    [] Len(t) = 2 -> Len(answer)
    [] Len(t) = 3 -> Len(answer[t[3]])
    [] Len(t) = Height -> 0

Searched(answer, canceled) ==
  [final    |-> [t \in Paths(answer) |-> FinalAt(answer, t)],
   canceled |-> [t \in Paths(answer) |-> Len(t) = Height /\ canceled[t[3]][t[4]]],
   children |-> [t \in Paths(answer) |-> [i \in 1..KidsAt(answer, t) |-> Append(t, i)]]]

Best(answer, canceled) == findBestResponse(Searched(answer, canceled), <<>>, Height)
-----------------------------------------------------------------------------
Challenge == {401, 407}

Answers(answer) ==
  UNION {{x \in {b} \X DOMAIN answer[b] : answer[b][x[2]] # NoResponse} : b \in DOMAIN answer}

Code(answer, x) == answer[x[1]][x[2]].code

(* The classes that are never replaced by a plain failure: a challenge, the *)
(* 487 of a canceled branch, a redirection nobody followed.                 *)
Decisive(answer, canceled) ==
  {x \in Answers(answer) : \/ Code(answer, x) \in Challenge \cup 300..399
                           \/ Code(answer, x) = 487 /\ canceled[x[1]][x[2]]}

(* A 487 nobody asked for counts only when it is the first to be looked at. *)
Ordinary(answer) == {x \in Answers(answer) : findRespPriority(Code(answer, x)) >= RESP_PRI_4XX}

(* The response findBestResponse picks when each contact was answered from  *)
(* one address: a challenge, a canceled branch's 487 or an unfollowed       *)
(* redirection when there is one; otherwise a 4xx before a 5xx before a     *)
(* 6xx (603 counts as a 4xx), whatever the order of the contacts.  Once a   *)
(* contact answered, the redirection that was followed is never sent, and   *)
(* never a 503.                                                             *)
BestClassOf(answer, canceled) ==
  LET best == Best(answer, canceled)
      pri == findRespPriority(best.code)
  IN /\ Decisive(answer, canceled) # {} => pri <= RESP_PRI_3XX
     /\ Decisive(answer, canceled) = {} /\ Ordinary(answer) # {} =>
          \/ \A x \in Ordinary(answer) : pri <= findRespPriority(Code(answer, x))
          \/ best.code = 487
     /\ Answers(answer) # {} =>
          best.code \in {IF Code(answer, x) = 503 THEN 500 ELSE Code(answer, x) : x \in Answers(answer)}

(* When the caller is challenged it sees the challenge of every branch that *)
(* challenged (the loop over getAuthenticateField in findBestChildResponse).*)
EveryRealmAskedOf(answer, canceled) ==
  LET best == Best(answer, canceled)
  IN best.code \in Challenge =>
       best.realms = UNION {answer[x[1]][x[2]].realms : x \in Answers(answer)}

(* "401 & 407 are better than any other 4xx, 5xx or 6xx"                    *)
(* (SipTransaction.cpp:3797), the comment on the challenge branch of the    *)
(* switch: when a branch challenged and the others failed with a plain 4xx, *)
(* 5xx or 6xx, the caller is challenged.                                    *)
ChallengeIsBetterOf(answer, canceled) ==
  (\E x \in Answers(answer) : Code(answer, x) \in Challenge)
    /\ (\A x \in Answers(answer) :
          Code(answer, x) \in Challenge \/ Code(answer, x) \in 400..699 \ {487})
  => Best(answer, canceled).code \in Challenge
=============================================================================
