--------------------------- MODULE MCBestResponse ---------------------------
(***************************************************************************)
(* The responses of a search come in, in any order, for the tree of module *)
(* BestOfContacts: Branches contacts, each tried at Addresses addresses,   *)
(* the next one only after the one before it was given up, and one that    *)
(* was given up may answer late.                                           *)
(***************************************************************************)
EXTENDS BestOfContacts

CONSTANTS Branches,     \* number of contacts
          Addresses,    \* addresses of each contact
          Codes,        \* final responses the contacts answer with
          Realms        \* realms that challenge

ASSUME BranchesAssumption == Branches \in Nat

VARIABLES answer,       \* answer[b][a]: final response of address a of contact b
          canceled      \* canceled[b][a]: that transaction is canceled

vars == <<answer, canceled>>

Responses ==
  {[code |-> c, realms |-> r] : c \in Codes \ Challenge, r \in {{}}}
  \cup {[code |-> c, realms |-> {r}] : c \in Codes \cap Challenge, r \in Realms}

Init ==
  /\ answer = [b \in 1..Branches |-> [a \in 1..Addresses |-> NoResponse]]
  /\ canceled = [b \in 1..Branches |-> [a \in 1..Addresses |-> FALSE]]

Cancel(b, a) ==
  /\ ~canceled[b][a]
  /\ canceled' = [canceled EXCEPT ![b][a] = TRUE]
  /\ UNCHANGED answer

Answer(b, a) ==
  /\ answer[b][a] = NoResponse
  /\ a > 1 => canceled[b][a - 1]
  /\ \E r \in Responses : answer' = [answer EXCEPT ![b][a] = r]
  /\ UNCHANGED canceled

Next == \E b \in 1..Branches, a \in 1..Addresses : Cancel(b, a) \/ Answer(b, a)

Spec == Init /\ [][Next]_vars
-----------------------------------------------------------------------------
(* The response findBestResponse picks when each contact was answered from  *)
(* one address: the better class goes before the worse, whatever the order  *)
(* of the contacts.                                                         *)
BestClass == BestClassOf(answer, canceled)

(* When the caller is challenged it sees the challenge of every branch that *)
(* challenged (the loop over getAuthenticateField in findBestChildResponse).*)
EveryRealmAsked == EveryRealmAskedOf(answer, canceled)

(* "401 & 407 are better than any other 4xx, 5xx or 6xx"                    *)
(* (SipTransaction.cpp:3797), the comment on the challenge branch of the    *)
(* switch: when a branch challenged and the others failed with a plain 4xx, *)
(* 5xx or 6xx, the caller is challenged.                                    *)
ChallengeIsBetter == ChallengeIsBetterOf(answer, canceled)
=============================================================================
