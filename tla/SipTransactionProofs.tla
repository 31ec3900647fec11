------------------------ MODULE SipTransactionProofs ------------------------
(***************************************************************************)
(* Proofs of what the caller and the addresses of an INVITE see of a       *)
(* search that implements ResponseContext, for any number of branches and  *)
(* any tree of them, and of what findBestResponse makes of the answers of  *)
(* any number of contacts.                                                 *)
(***************************************************************************)
EXTENDS SipTransactionContext, MCBestResponse, WellFoundedInduction, TLAPS

-----------------------------------------------------------------------------
(* The response context.  The proofs use nothing of how SipTransaction      *)
(* keeps its tree: up, phase, cut, queued and finalSent are not expanded.   *)

(* A branch that exists belongs to one that was sent the request. *)
Rooted ==
  \A b \in ClientTransactions : Context!Exists(b) => up[b] = Server \/ phase[up[b]] \in {"trying", "done"}

(* What is below a canceled branch is canceled or waits for it. *)
CutOff ==
  \A b \in ClientTransactions : Context!Exists(b) /\ up[b] \in cut => b \in cut \cup queued

(* So is what is below the server transaction of a call that was answered. *)
Hung ==
  Context!Answered => Context!Kids(Server) # {} /\ Context!Kids(Server) \subseteq cut \cup queued

(* Nothing was sent, or one final response and then 2xx responses. *)
Sent ==
  /\ finalSent = 0 <=> upstream = <<>>
  /\ \A i \in DOMAIN upstream : i > 1 => upstream[i] \in Context!Success

(* The inductive invariant: UpstreamOrder rests on Sent, AnsweredElsewhere  *)
(* on the others.                                                           *)
Inv == Context!TypeOK /\ Context!Grounded /\ Rooted /\ CutOff /\ Hung /\ Sent

LEMMA FailureIsNoSuccess == \A code \in Context!Failure : code \notin Context!Success
<1>1. \A code \in Context!Failure : code \in Int /\ code >= 300
  BY DEF Context!Failure
<1>2. \A code \in Context!Success : code \in Int /\ code <= 299
  BY DEF Context!Success
<1> QED BY <1>1, <1>2

(* What a search does to the branches: none disappears, those that come to  *)
(* exist are not below a canceled one, and all keep their place.            *)
LEMMA SearchFacts ==
  ASSUME Context!TypeOK, Rooted, UNCHANGED up, NEW Moved, Context!Search(Moved),
         \A b \in Moved : b \in ClientTransactions /\ phase[b] \in {"trying", "done"}
                                         /\ phase'[b] \in {phase[b], "done"}
  PROVE  /\ phase' \in [ClientTransactions -> Context!Phases]
         /\ \A b \in ClientTransactions : Context!Exists(b) => Context!Exists(b)'
         /\ \A b \in ClientTransactions : Context!Exists(b)' => Context!Exists(b) \/ up[b] \notin cut'
         /\ Rooted'
<1>1. phase \in [ClientTransactions -> Context!Phases] /\ phase' \in [ClientTransactions -> Context!Phases]
  BY DEF Context!TypeOK, Context!Search
<1>2. ASSUME NEW b \in ClientTransactions
      PROVE  /\ phase[b] \in {"trying", "done"} => phase'[b] \in {"trying", "done"}
             /\ Context!Exists(b) => Context!Exists(b)'
             /\ Context!Exists(b)' => Context!Exists(b) \/ up[b] \notin cut'
  BY <1>1 DEF Context!Search, Context!Exists, Context!Rank, Context!Phases
<1>3. ASSUME NEW b \in ClientTransactions, Context!Exists(b)'
      PROVE  up'[b] = Server \/ phase'[up'[b]] \in {"trying", "done"}
  <2>1. CASE b \in Moved \/ phase'[b] = phase[b]
    <3>1. up[b] = Server \/ phase[up[b]] \in {"trying", "done"}
      BY <1>3, <2>1 DEF Rooted, Context!Exists
    <3>2. up[b] \in ClientTransactions \cup {Server}
      BY DEF Context!TypeOK
    <3> QED BY <1>2, <3>1, <3>2
  <2>2. CASE b \notin Moved /\ phase'[b] # phase[b]
    BY <2>2 DEF Context!Search
  <2> QED BY <2>1, <2>2
<1>4. Rooted'
  BY <1>3 DEF Rooted
<1> QED BY <1>1, <1>2, <1>4

LEMMA ForwardKeeps == ASSUME Inv, Context!Forward PROVE Inv'
<1>1. UNCHANGED <<up, cut, queued, finalSent, upstream>> /\ Context!Search({})
  BY DEF Context!Forward
<1>2. /\ phase' \in [ClientTransactions -> Context!Phases]
      /\ \A b \in ClientTransactions : Context!Exists(b) => Context!Exists(b)'
      /\ \A b \in ClientTransactions : Context!Exists(b)' => Context!Exists(b) \/ up[b] \notin cut'
      /\ Rooted'
  BY <1>1, SearchFacts DEF Inv
<1>3. Context!TypeOK'
  BY <1>1, <1>2 DEF Inv, Context!TypeOK
<1>4. Context!Grounded'
  BY <1>1 DEF Inv, Context!Grounded
<1>5. CutOff'
  BY <1>1, <1>2 DEF Inv, CutOff
<1>6. Hung'
  BY <1>1 DEF Inv, Hung, Context!Forward, Context!Answered
<1>7. Sent'
  BY <1>1 DEF Inv, Sent
<1> QED BY <1>2, <1>3, <1>4, <1>5, <1>6, <1>7 DEF Inv

(* A branch that exists is in the end below one of the server transaction. *)
LEMMA SomeTop ==
  ASSUME Context!TypeOK, Context!Grounded, Rooted, NEW b \in ClientTransactions, Context!Exists(b)
  PROVE  Context!Kids(Server) # {}
<1> DEFINE E == {c \in ClientTransactions : Context!Exists(c)}
<1>1. PICK c \in E : up[c] \notin E
  BY DEF Context!Grounded
<1>2. up[c] = Server
  BY <1>1 DEF Rooted, Context!Exists, Context!TypeOK
<1> QED BY <1>1, <1>2 DEF Context!Kids

(* What appending a final response does to what was sent. *)
LEMMA SendsFacts ==
  ASSUME Context!TypeOK, Sent, NEW code \in Context!Success \cup Context!Failure, Context!Sends(code),
         code \in Context!Success \/ finalSent = 0
  PROVE  /\ finalSent' \in {0} \cup Context!Success \cup Context!Failure
         /\ upstream' \in Seq(Context!Success \cup Context!Failure)
         /\ Sent'
         /\ code \notin Context!Success => ~Context!Answered'
<1>1. upstream \in Seq(Context!Success \cup Context!Failure)
  BY DEF Context!TypeOK
<1>2. /\ upstream' \in Seq(Context!Success \cup Context!Failure) /\ Len(upstream') = Len(upstream) + 1
      /\ DOMAIN upstream = 1..Len(upstream) /\ DOMAIN upstream' = 1..(Len(upstream) + 1)
      /\ Len(upstream) \in Nat
      /\ upstream'[Len(upstream) + 1] = code
      /\ \A i \in 1..Len(upstream) : upstream'[i] = upstream[i]
  BY <1>1 DEF Context!Sends
<1>3. finalSent' = code /\ code # 0
  BY DEF Context!Sends, Context!Success, Context!Failure
<1>4. upstream' # <<>>
  BY <1>2
<1>5. \A i \in DOMAIN upstream' : i > 1 => upstream'[i] \in Context!Success
  <2>1. CASE code \in Context!Success
    BY <1>2, <2>1 DEF Sent
  <2>2. CASE finalSent = 0
    <3>1. Len(upstream) = 0
      BY <2>2 DEF Sent
    <3> QED BY <1>2, <3>1
  <2> QED BY <2>1, <2>2
<1>6. ASSUME code \notin Context!Success PROVE ~Context!Answered'
  <2>1. Len(upstream) = 0
    BY <1>6 DEF Sent
  <2> QED BY <1>2, <1>6, <2>1 DEF Context!Answered
<1> QED BY <1>2, <1>3, <1>4, <1>5, <1>6 DEF Sent

LEMMA SucceedKeeps == ASSUME Inv, NEW b \in ClientTransactions, Context!Succeed(b) PROVE Inv'
<1>1. /\ phase[b] \in {"trying", "done"} /\ phase' = [phase EXCEPT ![b] = "done"]
      /\ finalSent' \in Context!Success /\ Context!Sends(finalSent') /\ queued' = queued \cup Context!Kids(Server)
      /\ UNCHANGED <<up, cut>>
  BY DEF Context!Succeed
<1>2. phase \in [ClientTransactions -> Context!Phases]
  BY DEF Inv, Context!TypeOK
<1>3. /\ phase' \in [ClientTransactions -> Context!Phases]
      /\ \A c \in ClientTransactions : Context!Exists(c) <=> Context!Exists(c)'
      /\ \A c \in ClientTransactions : phase[c] \in {"trying", "done"} => phase'[c] \in {"trying", "done"}
  BY <1>1, <1>2 DEF Context!Exists, Context!Phases
<1>4. Sent' /\ finalSent' \in {0} \cup Context!Success \cup Context!Failure /\ upstream' \in Seq(Context!Success \cup Context!Failure)
  BY <1>1, SendsFacts DEF Inv
<1>5. Context!Kids(Server)' = Context!Kids(Server)
  BY <1>1, <1>3 DEF Context!Kids
<1>6. Context!TypeOK'
  BY <1>1, <1>3, <1>4 DEF Inv, Context!TypeOK, Context!Kids
<1>7. Context!Grounded'
  BY <1>1 DEF Inv, Context!Grounded
<1>8. Rooted'
  BY <1>1, <1>3 DEF Inv, Rooted, Context!TypeOK
<1>9. CutOff'
  BY <1>1, <1>3 DEF Inv, CutOff
<1>10. Hung'
  <2>1. Context!Kids(Server) # {}
    BY <1>1, SomeTop DEF Inv, Context!Exists
  <2> QED BY <1>1, <1>5, <2>1 DEF Hung
<1> QED BY <1>4, <1>6, <1>7, <1>8, <1>9, <1>10 DEF Inv

LEMMA GoOnKeeps == ASSUME Inv, NEW b \in ClientTransactions, Context!GoOn(b) PROVE Inv'
<1>1. /\ phase[b] \in {"trying", "done"} /\ phase'[b] \in {phase[b], "done"}
      /\ Context!Search({b}) /\ Context!KeepsTop /\ UNCHANGED up
  BY DEF Context!GoOn
<1>2. \/ UNCHANGED <<cut, queued>>
      \/ cut' = cut \cup {b} /\ queued' = queued \cup Context!Kids(b)
  BY DEF Context!GoOn
<1>3. /\ phase' \in [ClientTransactions -> Context!Phases]
      /\ \A c \in ClientTransactions : Context!Exists(c) => Context!Exists(c)'
      /\ \A c \in ClientTransactions : Context!Exists(c)' => Context!Exists(c) \/ up[c] \notin cut'
      /\ Rooted'
  BY <1>1, SearchFacts DEF Inv
<1>4. /\ Sent' /\ finalSent' \in {0} \cup Context!Success \cup Context!Failure /\ upstream' \in Seq(Context!Success \cup Context!Failure)
      /\ Context!Answered' => Context!Answered
  <2>1. CASE UNCHANGED <<finalSent, upstream>>
    BY <2>1 DEF Inv, Sent, Context!TypeOK, Context!Answered
  <2>2. CASE finalSent = 0 /\ finalSent' \in Context!Failure /\ Context!Sends(finalSent')
    <3>1. PICK code \in Context!Failure : Context!Sends(code)
      BY <2>2
    <3>2. code \notin Context!Success
      BY FailureIsNoSuccess
    <3>3. Context!TypeOK /\ Sent /\ code \in Context!Success \cup Context!Failure /\ finalSent = 0
      BY <2>2 DEF Inv
    <3>4. /\ finalSent' \in {0} \cup Context!Success \cup Context!Failure
          /\ upstream' \in Seq(Context!Success \cup Context!Failure)
          /\ Sent'
          /\ code \notin Context!Success => ~Context!Answered'
      BY <3>1, <3>3, SendsFacts
    <3> QED BY <3>2, <3>4
  <2> QED BY <2>1, <2>2 DEF Context!GoOn
<1>5. Context!Exists(b) /\ Context!Exists(b)'
  BY <1>1, <1>3 DEF Context!Exists
<1>6. Context!TypeOK'
  BY <1>1, <1>2, <1>3, <1>4, <1>5 DEF Inv, Context!TypeOK, Context!Kids
<1>7. Context!Grounded'
  BY <1>1 DEF Inv, Context!Grounded
<1>8. CutOff'
  <2>1. ASSUME NEW c \in ClientTransactions, Context!Exists(c)', up'[c] \in cut'
        PROVE  c \in cut' \cup queued'
    <3>1. Context!Exists(c) /\ up[c] \in cut'
      BY <1>1, <1>3, <2>1
    <3>2. CASE up[c] \in cut
      BY <1>2, <3>1, <3>2 DEF Inv, CutOff
    <3>3. CASE up[c] = b /\ queued' = queued \cup Context!Kids(b)
      BY <3>1, <3>3 DEF Context!Kids
    <3> QED BY <1>2, <3>1, <3>2, <3>3
  <2> QED BY <2>1 DEF CutOff
<1>9. Hung'
  <2>1. Context!Kids(Server)' = Context!Kids(Server)
    BY <1>1, <1>3 DEF Context!Kids, Context!KeepsTop
  <2> QED BY <1>2, <1>4, <2>1 DEF Inv, Hung
<1> QED BY <1>3, <1>4, <1>6, <1>7, <1>8, <1>9 DEF Inv

LEMMA ReceiveCancelKeeps == ASSUME Inv, Context!ReceiveCancel PROVE Inv'
<1>1. /\ finalSent = 0 /\ Context!Sends(487) /\ queued' = queued \cup Context!Kids(Server)
      /\ UNCHANGED <<up, phase, cut>>
  BY DEF Context!ReceiveCancel
<1>2. 487 \in Context!Failure /\ 487 \notin Context!Success
  BY DEF Context!Success, Context!Failure
<1>3. /\ Sent' /\ finalSent' \in {0} \cup Context!Success \cup Context!Failure /\ upstream' \in Seq(Context!Success \cup Context!Failure)
      /\ ~Context!Answered'
  BY <1>1, <1>2, SendsFacts DEF Inv
<1>4. Context!TypeOK'
  BY <1>1, <1>3 DEF Inv, Context!TypeOK, Context!Kids, Context!Exists
<1>5. Context!Grounded' /\ Rooted'
  BY <1>1 DEF Inv, Context!Grounded, Rooted, Context!Exists
<1>6. CutOff'
  BY <1>1 DEF Inv, CutOff, Context!Exists
<1> QED BY <1>3, <1>4, <1>5, <1>6 DEF Inv, Hung

LEMMA CancelKeeps == ASSUME Inv, NEW b \in ClientTransactions, Context!Cancel(b) PROVE Inv'
<1>1. /\ b \in queued /\ cut' = cut \cup {b}
      /\ UNCHANGED <<up, phase, finalSent, upstream>>
  BY DEF Context!Cancel
<1>2. /\ queued \ {b} \subseteq queued' /\ queued' \subseteq queued \cup Context!Kids(b)
      /\ b \in cut \/ Context!Kids(b) \subseteq queued'
  BY DEF Context!Cancel
<1>3. Context!TypeOK'
  BY <1>1, <1>2 DEF Inv, Context!TypeOK, Context!Kids, Context!Exists
<1>4. Context!Grounded' /\ Rooted'
  BY <1>1 DEF Inv, Context!Grounded, Rooted, Context!Exists
<1>5. CutOff'
  <2>1. ASSUME NEW c \in ClientTransactions, Context!Exists(c), up[c] \in cut'
        PROVE  c \in cut' \cup queued'
    <3>1. CASE up[c] \in cut
      BY <1>1, <1>2, <2>1, <3>1 DEF Inv, CutOff
    <3>2. CASE up[c] = b /\ b \notin cut
      BY <1>2, <2>1, <3>2 DEF Context!Kids
    <3> QED BY <1>1, <2>1, <3>1, <3>2
  <2> QED BY <1>1, <2>1 DEF CutOff, Context!Exists
<1>6. Hung'
  <2>1. Context!Kids(Server)' = Context!Kids(Server) /\ Context!Answered' = Context!Answered
    BY <1>1 DEF Context!Kids, Context!Exists, Context!Answered
  <2> QED BY <1>1, <1>2, <2>1 DEF Inv, Hung
<1>7. Sent'
  BY <1>1 DEF Inv, Sent
<1> QED BY <1>3, <1>4, <1>5, <1>6, <1>7 DEF Inv

LEMMA StutterKeeps == ASSUME Inv, UNCHANGED Context!vars PROVE Inv'
<1>1. UNCHANGED <<up, phase, cut, queued, finalSent, upstream>>
  BY DEF Context!vars
<1>2. Context!TypeOK' /\ Context!Grounded' /\ Rooted'
  BY <1>1 DEF Inv, Context!TypeOK, Context!Grounded, Rooted, Context!Exists
<1>3. CutOff' /\ Hung' /\ Sent'
  BY <1>1 DEF Inv, CutOff, Hung, Sent, Context!Exists, Context!Kids, Context!Answered
<1> QED BY <1>2, <1>3 DEF Inv

(* The responses and cancellations of a call keep the inductive invariant,  *)
(* whatever the search of SipTransaction.cpp tries.                         *)
THEOREM Invariance == KeepsContext => []Inv
<1>1. Context!Init => Inv
  <2> SUFFICES ASSUME Context!Init PROVE Inv
    OBVIOUS
  <2>1. Context!TypeOK
    BY DEF Context!Init, Context!TypeOK, Context!Phases
  <2>2. Rooted /\ CutOff
    BY DEF Context!Init, Rooted, CutOff, Context!Exists
  <2>3. Sent /\ ~Context!Answered
    BY DEF Context!Init, Sent, Context!Answered
  <2> QED BY <2>1, <2>2, <2>3 DEF Context!Init, Inv, Hung
<1>2. Inv /\ [Context!Next]_(Context!vars) => Inv'
  BY ForwardKeeps, SucceedKeeps, GoOnKeeps, ReceiveCancelKeeps, CancelKeeps, StutterKeeps DEF Context!Next
<1> QED BY <1>1, <1>2, PTL DEF KeepsContext, Context!Spec

(* After a final response only 2xx responses go upstream, for any tree of   *)
(* branches and any order of answers, time-outs and the caller's CANCEL     *)
(* (handleChildIncoming, handleChildTimeoutEvent, handleIncoming).          *)
THEOREM CallerSeesOrder == KeepsContext => []UpstreamOrder
<1>1. Inv => UpstreamOrder
  <2> SUFFICES ASSUME Inv, NEW i \in DOMAIN upstream, NEW j \in DOMAIN upstream, i < j
               PROVE  upstream[j] \in Context!Success
    BY DEF UpstreamOrder, Context!UpstreamOrder
  <2>1. j > 1
    BY DEF Inv, Context!TypeOK
  <2> QED BY <2>1 DEF Inv, Sent
<1> QED BY <1>1, Invariance, PTL

(* However deep the redirections go: when a call was answered and the       *)
(* cancel queue is empty, no address is left ringing (the 2xx branch of     *)
(* handleChildIncoming, cancelChildren, cancel).                            *)
THEOREM NobodyRingsOn == KeepsContext => []AnsweredElsewhere
<1>1. Inv => AnsweredElsewhere
  <2> SUFFICES ASSUME Inv, Context!Answered, queued = {} PROVE Context!Pending = {}
    BY DEF AnsweredElsewhere, Context!AnsweredElsewhere
  <2> DEFINE Left == {b \in ClientTransactions : Context!Exists(b) /\ b \notin cut}
  <2>1. Left = {}
    <3> SUFFICES ASSUME Left # {} PROVE FALSE
      OBVIOUS
    <3>1. PICK b \in Left : up[b] \notin Left
      BY DEF Inv, Context!Grounded
    <3>2. CASE up[b] = Server
      BY <3>1, <3>2 DEF Inv, Hung, Context!Kids
    <3>3. CASE phase[up[b]] \in {"trying", "done"} /\ up[b] # Server
      <4>1. up[b] \in ClientTransactions /\ Context!Exists(up[b])
        BY <3>3 DEF Inv, Context!TypeOK, Context!Exists
      <4>2. up[b] \in cut
        BY <3>1, <4>1
      <4> QED BY <3>1, <4>2 DEF Inv, CutOff
    <3> QED BY <3>2, <3>3 DEF Inv, Rooted
  <2> QED BY <2>1 DEF Context!Pending, Context!Exists
<1> QED BY <1>1, Invariance, PTL
-----------------------------------------------------------------------------
(* The best response.                                                      *)

USE ZenonT(2), SMTT(20), ZenonT(60)

(* A set of naturals has a least member. *)
LEMMA Least == ASSUME NEW S \in SUBSET Nat, S # {} PROVE \E m \in S : \A k \in S : m <= k
<1> DEFINE R == OpToRel(<, Nat)
<1>1. IsWellFoundedOn(R, Nat)
  BY NatLessThanWellFounded
<1>2. R = {x \in Nat \X Nat : x[1] < x[2]}
  BY DEF OpToRel
<1> HIDE DEF R
<1>3. PICK m \in S : \A k \in S : ~ (<<k, m>> \in R)
  BY <1>1, WFMin
<1>4. \A k \in S : ~(k < m)
  BY <1>2, <1>3
<1> QED BY <1>4

(* So a set that holds 0 and, with every natural, the next one, holds them  *)
(* all: induction without an operator parameter.                            *)
LEMMA Induction ==
  ASSUME NEW S, 0 \in S, \A n \in Nat : n \in S => n + 1 \in S
  PROVE  Nat \subseteq S
<1> SUFFICES ASSUME Nat \ S # {} PROVE FALSE
  OBVIOUS
<1>1. PICK m \in Nat \ S : \A k \in Nat \ S : m <= k
  <2>1. Nat \ S \in SUBSET Nat
    OBVIOUS
  <2> QED BY <2>1, Least
<1>2. m # 0 /\ m - 1 \in Nat
  BY <1>1
<1>3. m - 1 \in S
  BY <1>1, <1>2
<1>4. (m - 1) + 1 \in S
  BY <1>2, <1>3
<1> QED BY <1>1, <1>4

(* The locals of the loop over mChildTransactions before its first round. *)
Start(best) == [best |-> best, found |-> FALSE, useThisResp |-> FALSE]

(* The rounds of the loop in findBestChildResponse: there is a function     *)
(* that computes them one after the other, and the loop returns its last    *)
(* value.                                                                   *)
LEMMA Loop ==
  ASSUME NEW s, NEW below, NEW t, NEW best, Len(s.children[t]) \in Nat
  PROVE  \E f : /\ f[0] = Start(best)
                /\ \A i \in 1..Len(s.children[t]) :
                      f[i] = searchChild(s, below, f[i - 1], s.children[t][i])
                /\ searchChildren(s, below, t, best) =
                     [best |-> f[Len(s.children[t])].best, found |-> f[Len(s.children[t])].found]
<1> DEFINE Rounds(m, f) ==
             f = [i \in 0..m |-> IF i = 0 THEN Start(best)
                                 ELSE searchChild(s, below, f[i - 1], s.children[t][i])]
           Done == {m \in Nat : \E f : Rounds(m, f)}
<1>1. 0 \in Done
  <2>1. Rounds(0, [i \in 0..0 |-> Start(best)])
    OBVIOUS
  <2> QED BY <2>1
<1>2. ASSUME NEW m \in Nat, m \in Done PROVE m + 1 \in Done
  <2>1. PICK g : Rounds(m, g)
    BY <1>2
  <2> DEFINE h == [i \in 0..(m + 1) |-> IF i <= m THEN g[i]
                                        ELSE searchChild(s, below, g[m], s.children[t][m + 1])]
  <2>2. ASSUME NEW i \in 0..(m + 1)
        PROVE  h[i] = IF i = 0 THEN Start(best) ELSE searchChild(s, below, h[i - 1], s.children[t][i])
    <3>1. CASE i = 0
      BY <2>1, <3>1
    <3>2. CASE i \in 1..m
      <4>1. h[i] = g[i] /\ h[i - 1] = g[i - 1]
        BY <3>2
      <4>2. g[i] = searchChild(s, below, g[i - 1], s.children[t][i])
        <5>1. i \in 0..m /\ i # 0
          BY <3>2
        <5> QED BY <2>1, <5>1, Zenon
      <4> QED BY <3>2, <4>1, <4>2
    <3>3. CASE i = m + 1
      <4>1. h[i - 1] = g[m] /\ h[i] = searchChild(s, below, g[m], s.children[t][m + 1])
        BY <3>3
      <4> QED BY <3>3, <4>1
    <3> QED BY <3>1, <3>2, <3>3
  <2>3. Rounds(m + 1, h)
    <3>1. h = [i \in 0..(m + 1) |-> h[i]]
      OBVIOUS
    <3> HIDE DEF h
    <3> QED BY <2>2, <3>1, Zenon
  <2>4. m + 1 \in Nat
    OBVIOUS
  <2> HIDE DEF Rounds, h
  <2> QED BY <2>3, <2>4
<1>3. \E f : Rounds(Len(s.children[t]), f)
  <2> HIDE DEF Rounds
  <2>1. Nat \subseteq Done
    <3> HIDE DEF Done
    <3> QED BY <1>1, <1>2, Induction
  <2> QED BY <2>1
<1> DEFINE f == CHOOSE g : Rounds(Len(s.children[t]), g)
<1>4. Rounds(Len(s.children[t]), f)
  BY <1>3
<1>5. searchChildren(s, below, t, best) =
        [best |-> f[Len(s.children[t])].best, found |-> f[Len(s.children[t])].found]
  BY DEF searchChildren, Start
<1> HIDE DEF f
<1> WITNESS f
<1>6. 0 \in 0..Len(s.children[t])
      /\ \A i \in 1..Len(s.children[t]) : i \in 0..Len(s.children[t]) /\ i # 0
  OBVIOUS
<1>7. /\ f[0] = Start(best)
      /\ \A i \in 1..Len(s.children[t]) : f[i] = searchChild(s, below, f[i - 1], s.children[t][i])
  BY <1>4, <1>6, Zenon
<1> QED BY <1>5, <1>7

(* The search below a tree that has no more generations, and one generation *)
(* of it.                                                                   *)
Bottom(s) == [x \in Asked(s) |-> [best |-> x[2], found |-> FALSE]]

Generation(s, below) == [x \in Asked(s) |-> searchChildren(s, below, x[1], x[2])]

(* The recursion of findBestChildResponse, one generation of transactions   *)
(* after the other.                                                         *)
LEMMA Generations ==
  ASSUME NEW s, NEW height \in Nat
  PROVE  \E f : /\ f[0] = Bottom(s)
                /\ \A h \in 1..height : f[h] = Generation(s, f[h - 1])
                /\ findBestChildResponse(s, height) = f[height]
<1> DEFINE Levels(m, f) ==
             f = [h \in 0..m |-> IF h = 0 THEN Bottom(s) ELSE Generation(s, f[h - 1])]
           Done == {m \in Nat : \E f : Levels(m, f)}
<1>1. 0 \in Done
  <2>1. Levels(0, [h \in 0..0 |-> Bottom(s)])
    OBVIOUS
  <2> QED BY <2>1
<1>2. ASSUME NEW m \in Nat, m \in Done PROVE m + 1 \in Done
  <2>1. PICK g : Levels(m, g)
    BY <1>2
  <2> DEFINE k == [h \in 0..(m + 1) |-> IF h <= m THEN g[h] ELSE Generation(s, g[m])]
  <2>2. ASSUME NEW h \in 0..(m + 1)
        PROVE  k[h] = IF h = 0 THEN Bottom(s) ELSE Generation(s, k[h - 1])
    <3>1. CASE h = 0
      BY <2>1, <3>1
    <3>2. CASE h \in 1..m
      <4>1. k[h] = g[h] /\ k[h - 1] = g[h - 1]
        BY <3>2
      <4>2. g[h] = Generation(s, g[h - 1])
        <5>1. h \in 0..m /\ h # 0
          BY <3>2
        <5> QED BY <2>1, <5>1, Zenon
      <4> QED BY <3>2, <4>1, <4>2
    <3>3. CASE h = m + 1
      <4>1. k[h - 1] = g[m] /\ k[h] = Generation(s, g[m])
        BY <3>3
      <4> QED BY <3>3, <4>1
    <3> QED BY <3>1, <3>2, <3>3
  <2>3. Levels(m + 1, k)
    <3>1. k = [h \in 0..(m + 1) |-> k[h]]
      OBVIOUS
    <3> HIDE DEF k
    <3> QED BY <2>2, <3>1, Zenon
  <2>4. m + 1 \in Nat
    OBVIOUS
  <2> HIDE DEF Levels, k
  <2> QED BY <2>3, <2>4
<1>3. \E f : Levels(height, f)
  <2> HIDE DEF Levels
  <2>1. Nat \subseteq Done
    <3> HIDE DEF Done
    <3> QED BY <1>1, <1>2, Induction
  <2> QED BY <2>1
<1> DEFINE f == CHOOSE g : Levels(height, g)
<1>4. Levels(height, f)
  BY <1>3
<1>5. findBestChildResponse(s, height) = f[height]
  BY DEF findBestChildResponse, Bottom, Generation
<1> HIDE DEF f
<1> WITNESS f
<1>6. 0 \in 0..height /\ \A h \in 1..height : h \in 0..height /\ h # 0
  OBVIOUS
<1>7. f[0] = Bottom(s) /\ \A h \in 1..height : f[h] = Generation(s, f[h - 1])
  BY <1>4, <1>6, Zenon
<1> QED BY <1>5, <1>7

(* A sequence with one more element. *)
LEMMA Appended ==
  ASSUME NEW p \in Seq(Int), NEW e \in Int, NEW q \in Seq(Int),
         Len(q) = Len(p) + 1, q[Len(q)] = e, \A i \in 1..Len(p) : q[i] = p[i]
  PROVE  Append(p, e) = q
<1> DEFINE r == Append(p, e)
<1>1. r \in Seq(Int) /\ Len(r) = Len(q)
  OBVIOUS
<1>2. \A i \in 1..Len(q) : r[i] = q[i]
  OBVIOUS
<1> HIDE DEF r
<1>3. r = [i \in 1..Len(r) |-> r[i]] /\ q = [i \in 1..Len(q) |-> q[i]]
  BY <1>1
<1>4. r = q
  BY <1>1, <1>2, <1>3
<1> QED BY <1>4 DEF r

(* The failures the contacts answer with.  A 404 is left out: it replaces a *)
(* better response, which the run with ChallengeIsBetter shows.             *)
FailureCodes == 300..699 \ {404}

Failures(realms) ==
  {r \in [code : FailureCodes, realms : SUBSET realms] : r.code \notin Challenge => r.realms = {}}

(* Any number of contacts, each with one address that gave one of those     *)
(* failures or nothing, in a transaction that was canceled or not.          *)
AnsweredOnce(finals, given, realms) ==
  /\ finals \in Seq([{1} -> Failures(realms) \cup {NoResponse}])
  /\ given \in [1..Len(finals) -> [{1} -> BOOLEAN]]

(* What the search sees of contact b and of its address. *)
ContactOf(finals, given, s, b) ==
  /\ <<1, 1, b>> \in DOMAIN s.final /\ <<1, 1, b, 1>> \in DOMAIN s.final
  /\ s.final[<<1, 1, b>>] = NoResponse /\ s.final[<<1, 1, b, 1>>] = finals[b][1]
  /\ s.canceled[<<1, 1, b, 1>>] = given[b][1]
  /\ s.children[<<1, 1>>][b] = <<1, 1, b>>
  /\ Len(s.children[<<1, 1, b>>]) = 1 /\ s.children[<<1, 1, b>>][1] = <<1, 1, b, 1>>
  /\ s.children[<<1, 1, b, 1>>] = <<>>

(* The transactions the search goes through. *)
LEMMA Tree ==
  ASSUME NEW finals, NEW given, NEW realms, AnsweredOnce(finals, given, realms),
         NEW s, s = Searched(finals, given)
  PROVE  /\ Len(finals) \in Nat /\ DOMAIN finals = 1..Len(finals)
         /\ {<<>>, << 1 >>, <<1, 1>>} \subseteq DOMAIN s.final
         /\ s.final[<< 1 >>] = NoResponse /\ s.final[<<1, 1>>] = [code |-> 302, realms |-> {}]
         /\ Len(s.children[<<>>]) = 1 /\ s.children[<<>>][1] = << 1 >>
         /\ Len(s.children[<< 1 >>]) = 1 /\ s.children[<< 1 >>][1] = <<1, 1>>
         /\ Len(s.children[<<1, 1>>]) = Len(finals)
         /\ \A b \in 1..Len(finals) : ContactOf(finals, given, s, b)
<1> DEFINE n == Len(finals)
<1>1. n \in Nat /\ DOMAIN finals = 1..n
  BY DEF AnsweredOnce
<1>2. \A b \in 1..n : DOMAIN finals[b] = {1}
  BY <1>1 DEF AnsweredOnce
<1>3. {<<>>, << 1 >>, <<1, 1>>} \subseteq Paths(finals)
  BY DEF Paths
<1>4. \A b \in 1..n : <<1, 1, b>> \in Paths(finals) /\ <<1, 1, b, 1>> \in Paths(finals)
  BY <1>1, <1>2 DEF Paths
<1>5. DOMAIN s.final = Paths(finals)
  BY DEF Searched
<1>6. ASSUME NEW p \in Paths(finals)
      PROVE  /\ s.final[p] = FinalAt(finals, p)
             /\ s.canceled[p] = (Len(p) = Height /\ given[p[3]][p[4]])
             /\ s.children[p] = [i \in 1..KidsAt(finals, p) |-> Append(p, i)]
  BY DEF Searched
<1>7. FinalAt(finals, << 1 >>) = NoResponse /\ FinalAt(finals, <<1, 1>>) = [code |-> 302, realms |-> {}]
  BY DEF FinalAt, Height
<1>8. ASSUME NEW b \in 1..n
      PROVE  /\ FinalAt(finals, <<1, 1, b>>) = NoResponse
             /\ FinalAt(finals, <<1, 1, b, 1>>) = finals[b][1]
             /\ (Len(<<1, 1, b, 1>>) = Height /\ given[<<1, 1, b, 1>>[3]][<<1, 1, b, 1>>[4]]) = given[b][1]
  <2>1. given[b][1] \in BOOLEAN
    BY DEF AnsweredOnce
  <2>2. Len(<<1, 1, b, 1>>) = Height /\ <<1, 1, b, 1>>[3] = b /\ <<1, 1, b, 1>>[4] = 1
    BY DEF Height
  <2>3. FinalAt(finals, <<1, 1, b>>) = NoResponse
    BY DEF FinalAt, Height
  <2>4. FinalAt(finals, <<1, 1, b, 1>>) = finals[b][1]
    BY DEF FinalAt, Height
  <2> QED BY <2>1, <2>2, <2>3, <2>4
<1>9. /\ KidsAt(finals, <<>>) = 1 /\ KidsAt(finals, << 1 >>) = 1 /\ KidsAt(finals, <<1, 1>>) = n
      /\ \A b \in 1..n : KidsAt(finals, <<1, 1, b>>) = 1
  <2>1. ASSUME NEW b \in 1..n PROVE Len(finals[b]) = 1
    <3>1. finals[b] \in [{1} -> Failures(realms) \cup {NoResponse}] /\ {1} = 1..1
      BY DEF AnsweredOnce
    <3> QED BY <3>1
  <2>2. ASSUME NEW b \in 1..n PROVE KidsAt(finals, <<1, 1, b>>) = 1
    <3>1. <<1, 1, b>>[3] = b /\ Len(<<1, 1, b>>) = 3
      OBVIOUS
    <3> QED BY <2>1, <3>1 DEF KidsAt, Height
  <2>3. Len(<<>>) = 0 /\ Len(<< 1 >>) = 1 /\ Len(<<1, 1>>) = 2
    OBVIOUS
  <2> QED BY <2>2, <2>3 DEF KidsAt, Height
<1>10. /\ Len(s.children[<<>>]) = 1 /\ s.children[<<>>][1] = Append(<<>>, 1)
       /\ Len(s.children[<< 1 >>]) = 1 /\ s.children[<< 1 >>][1] = Append(<< 1 >>, 1)
       /\ Len(s.children[<<1, 1>>]) = n /\ \A b \in 1..n : s.children[<<1, 1>>][b] = Append(<<1, 1>>, b)
  <2>1. ASSUME NEW p \in {<<>>, << 1 >>, <<1, 1>>}, NEW k \in Nat, KidsAt(finals, p) = k
        PROVE  Len(s.children[p]) = k /\ \A i \in 1..k : s.children[p][i] = Append(p, i)
    <3>1. s.children[p] = [i \in 1..k |-> Append(p, i)]
      BY <1>3, <1>6, <2>1
    <3> QED BY <3>1
  <2>2. 1 \in 1..1 /\ 1 \in Nat
    OBVIOUS
  <2> HIDE DEF n
  <2> QED BY <1>1, <1>9, <2>1, <2>2
<1>11. ASSUME NEW b \in 1..n
       PROVE  Len(s.children[<<1, 1, b>>]) = 1 /\ s.children[<<1, 1, b>>][1] = Append(<<1, 1, b>>, 1)
  <2>1. s.children[<<1, 1, b>>] = [i \in 1..1 |-> Append(<<1, 1, b>>, i)]
    BY <1>4, <1>6, <1>9
  <2> QED BY <2>1
<1>18. ASSUME NEW b \in 1..n PROVE s.children[<<1, 1, b, 1>>] = <<>>
  <2>1. KidsAt(finals, <<1, 1, b, 1>>) = 0
    <3>1. Len(<<1, 1, b, 1>>) = 4
      OBVIOUS
    <3> QED BY <3>1 DEF KidsAt, Height
  <2>2. s.children[<<1, 1, b, 1>>] = [i \in 1..0 |-> Append(<<1, 1, b, 1>>, i)]
    BY <1>4, <1>6, <2>1
  <2> QED BY <2>2
<1>12. /\ Append(<<>>, 1) = << 1 >> /\ Append(<< 1 >>, 1) = <<1, 1>>
       /\ \A b \in 1..n : Append(<<1, 1>>, b) = <<1, 1, b>> /\ Append(<<1, 1, b>>, 1) = <<1, 1, b, 1>>
  <2>1. Append(<<>>, 1) = << 1 >>
    OBVIOUS
  <2>2. Append(<< 1 >>, 1) = <<1, 1>>
    <3>1. << 1 >> \in Seq(Int) /\ <<1, 1>> \in Seq(Int) /\ 1 \in Int
      OBVIOUS
    <3>2. Len(<< 1 >>) = 1 /\ Len(<<1, 1>>) = 1 + 1 /\ <<1, 1>>[1 + 1] = 1 /\ \A i \in 1..1 : <<1, 1>>[i] = << 1 >>[i]
      OBVIOUS
    <3> QED BY <3>1, <3>2, Appended
  <2>3. ASSUME NEW b \in 1..n PROVE Append(<<1, 1>>, b) = <<1, 1, b>>
    <3>1. <<1, 1>> \in Seq(Int) /\ <<1, 1, b>> \in Seq(Int) /\ b \in Int
      OBVIOUS
    <3>2. Len(<<1, 1>>) = 2 /\ Len(<<1, 1, b>>) = 2 + 1 /\ <<1, 1, b>>[2 + 1] = b /\ \A i \in 1..2 : <<1, 1, b>>[i] = <<1, 1>>[i]
      OBVIOUS
    <3> QED BY <3>1, <3>2, Appended
  <2>4. ASSUME NEW b \in 1..n PROVE Append(<<1, 1, b>>, 1) = <<1, 1, b, 1>>
    <3>1. <<1, 1, b>> \in Seq(Int) /\ <<1, 1, b, 1>> \in Seq(Int) /\ 1 \in Int
      OBVIOUS
    <3>2. Len(<<1, 1, b>>) = 3 /\ Len(<<1, 1, b, 1>>) = 3 + 1 /\ <<1, 1, b, 1>>[3 + 1] = 1 /\ \A i \in 1..3 : <<1, 1, b, 1>>[i] = <<1, 1, b>>[i]
      OBVIOUS
    <3> QED BY <3>1, <3>2, Appended
  <2> QED BY <2>1, <2>2, <2>3, <2>4
<1>13. ASSUME NEW b \in 1..n
       PROVE  /\ s.children[<<1, 1>>][b] = <<1, 1, b>>
              /\ Len(s.children[<<1, 1, b>>]) = 1 /\ s.children[<<1, 1, b>>][1] = <<1, 1, b, 1>>
  BY <1>10, <1>11, <1>12
<1>14. /\ Len(s.children[<<>>]) = 1 /\ s.children[<<>>][1] = << 1 >>
       /\ Len(s.children[<< 1 >>]) = 1 /\ s.children[<< 1 >>][1] = <<1, 1>>
       /\ Len(s.children[<<1, 1>>]) = n
  BY <1>10, <1>12
<1>15. s.final[<< 1 >>] = NoResponse /\ s.final[<<1, 1>>] = [code |-> 302, realms |-> {}]
  BY <1>3, <1>6, <1>7
<1>16. ASSUME NEW b \in 1..n
       PROVE  /\ s.final[<<1, 1, b>>] = NoResponse
              /\ s.final[<<1, 1, b, 1>>] = finals[b][1]
              /\ s.canceled[<<1, 1, b, 1>>] = given[b][1]
  BY <1>4, <1>6, <1>8
<1>17. \A b \in 1..n : ContactOf(finals, given, s, b)
  BY <1>4, <1>5, <1>13, <1>16, <1>18 DEF ContactOf
<1> QED BY <1>1, <1>3, <1>5, <1>14, <1>15, <1>17


(* The code that is sent for code. *)
Forwarded(code) == IF code = 503 THEN 500 ELSE code

(* The priorities of these failures; sending a 503 on as 500 keeps its      *)
(* priority.                                                                *)
LEMMA Priorities ==
  ASSUME NEW c \in FailureCodes
  PROVE  /\ findRespPriority(c) \in {0, 1, 2, 3, 5, 6}
         /\ findRespPriority(Forwarded(c)) = findRespPriority(c)
         /\ findRespPriority(c) = 0 <=> c \in Challenge
         /\ findRespPriority(c) = 1 <=> c = 487
         /\ findRespPriority(c) = 2 <=> c \in 300..399
         /\ Forwarded(c) \in Challenge <=> c \in Challenge
<1> USE DEF FailureCodes
<1>1. CASE c \in 300..399
  <2>1. findRespPriority(c) = 2
    BY <1>1 DEF findRespPriority, RESP_PRI_3XX
  <2>2. Forwarded(c) = c /\ c \notin Challenge /\ c # 487
    BY <1>1 DEF Forwarded, Challenge
  <2> QED BY <1>1, <2>1, <2>2
<1>2. CASE c = 401
  <2>1. findRespPriority(c) = 0
    BY <1>2 DEF findRespPriority, RESP_PRI_CHALLENGE
  <2>2. Forwarded(c) = c /\ c \in Challenge /\ c # 487 /\ c \notin 300..399
    BY <1>2 DEF Forwarded, Challenge
  <2> QED BY <1>2, <2>1, <2>2
<1>3. CASE c = 407
  <2>1. findRespPriority(c) = 0
    BY <1>3 DEF findRespPriority, RESP_PRI_CHALLENGE
  <2>2. Forwarded(c) = c /\ c \in Challenge /\ c # 487 /\ c \notin 300..399
    BY <1>3 DEF Forwarded, Challenge
  <2> QED BY <1>3, <2>1, <2>2
<1>4. CASE c = 487
  <2>1. findRespPriority(c) = 1
    BY <1>4 DEF findRespPriority, RESP_PRI_CANCEL
  <2>2. Forwarded(c) = c /\ c \notin Challenge /\ c \notin 300..399
    BY <1>4 DEF Forwarded, Challenge
  <2> QED BY <1>4, <2>1, <2>2
<1>5. CASE c \in 400..499 \ {401, 404, 407, 487} \/ c = 603
  <2>1. findRespPriority(c) = 3
    BY <1>5 DEF findRespPriority, RESP_PRI_4XX
  <2>2. Forwarded(c) = c /\ c \notin Challenge /\ c # 487 /\ c \notin 300..399
    BY <1>5 DEF Forwarded, Challenge
  <2> QED BY <1>5, <2>1, <2>2
<1>6. CASE c \in 500..599
  <2>1. \A d \in 500..599 : findRespPriority(d) = 5
    BY DEF findRespPriority, RESP_PRI_5XX
  <2>2. Forwarded(c) \in 500..599
    BY <1>6 DEF Forwarded
  <2>3. c \notin Challenge /\ c # 487 /\ c \notin 300..399 /\ Forwarded(c) \notin Challenge
    BY <1>6, <2>2 DEF Challenge
  <2> QED BY <1>6, <2>1, <2>2, <2>3
<1>7. CASE c \in 600..699 \ {603}
  <2>1. findRespPriority(c) = 6
    BY <1>7 DEF findRespPriority, RESP_PRI_6XX
  <2>2. Forwarded(c) = c /\ c \notin Challenge /\ c # 487 /\ c \notin 300..399
    BY <1>7 DEF Forwarded, Challenge
  <2> QED BY <1>7, <2>1, <2>2
<1> QED BY <1>1, <1>2, <1>3, <1>4, <1>5, <1>6, <1>7

(* The priority of no response, of the redirection, and of a challenge. *)
LEMMA OtherPriorities ==
  /\ findRespPriority(-1) = RESP_PRI_NOMATCH /\ findRespPriority(302) = RESP_PRI_3XX
  /\ \A c \in Challenge : findRespPriority(c) = RESP_PRI_CHALLENGE
BY DEF findRespPriority, Challenge

(* The loop over one child. *)
LEMMA OnlyChild ==
  ASSUME NEW s, NEW below, NEW t, NEW best, NEW child,
         Len(s.children[t]) = 1, s.children[t][1] = child
  PROVE  LET r == searchChild(s, below, Start(best), child)
         IN searchChildren(s, below, t, best) = [best |-> r.best, found |-> r.found]
<1>1. Len(s.children[t]) \in Nat
  OBVIOUS
<1>2. PICK f : /\ f[0] = Start(best)
               /\ \A i \in 1..Len(s.children[t]) :
                     f[i] = searchChild(s, below, f[i - 1], s.children[t][i])
               /\ searchChildren(s, below, t, best) =
                    [best |-> f[Len(s.children[t])].best, found |-> f[Len(s.children[t])].found]
  BY <1>1, Loop
<1>3. f[1] = searchChild(s, below, f[1 - 1], s.children[t][1]) /\ 1 - 1 = 0
  <2>1. 1 \in 1..Len(s.children[t])
    OBVIOUS
  <2> QED BY <1>2, <2>1
<1>4. f[1] = searchChild(s, below, Start(best), child)
  BY <1>2, <1>3
<1> QED BY <1>2, <1>4

(* The best response after a transaction without children, and whether that *)
(* transaction's own response was taken.                                    *)
After(s, leaf, r) ==
  IF s.final[leaf] = NoResponse THEN r
  ELSE IF Preferred(s, leaf, findRespPriority(r.code)) THEN forwardable(s.final[leaf])
  ELSE mergeChallenge(r, s.final[leaf])

Used(s, leaf, r) == s.final[leaf] # NoResponse /\ Preferred(s, leaf, findRespPriority(r.code))

(* A round of the loop over the contacts: the contact itself has no         *)
(* response, so the best response is the one after its address.             *)
LEMMA Contact ==
  ASSUME NEW finals, NEW given, NEW realms, AnsweredOnce(finals, given, realms),
         NEW s, s = Searched(finals, given),
         NEW b \in 1..Len(finals), NEW r \in Candidates(s), NEW found \in BOOLEAN,
         NEW acc, acc = [best |-> r, found |-> found, useThisResp |-> FALSE]
  PROVE  searchChild(s, Generation(s, Bottom(s)), acc, <<1, 1, b>>) =
           [best        |-> After(s, <<1, 1, b, 1>>, r),
            found       |-> found \/ Used(s, <<1, 1, b, 1>>, r),
            useThisResp |-> FALSE]
<1> DEFINE c == <<1, 1, b>>
           leaf == <<1, 1, b, 1>>
<1>1. /\ c \in DOMAIN s.final /\ leaf \in DOMAIN s.final /\ s.final[c] = NoResponse
      /\ Len(s.children[c]) = 1 /\ s.children[c][1] = leaf
  BY Tree DEF ContactOf
<1>2. <<leaf, r>> \in Asked(s) /\ <<c, r>> \in Asked(s)
  BY <1>1 DEF Asked
<1> HIDE DEF c, leaf
<1>3. Bottom(s)[<<leaf, r>>] = [best |-> r, found |-> FALSE]
  BY <1>2 DEF Bottom
<1>4. searchChild(s, Bottom(s), Start(r), leaf) = considerChild(s, Start(r), leaf)
  <2>1. Start(r).best = r /\ Start(r).found = FALSE
    BY DEF Start
  <2>2. [best |-> r, found |-> FALSE, useThisResp |-> Start(r).useThisResp] = Start(r)
    BY DEF Start
  <2>3. Bottom(s)[<<leaf, r>>].best = r /\ Bottom(s)[<<leaf, r>>].found = FALSE
    BY <1>3
  <2>4. (Start(r).found \/ Bottom(s)[<<leaf, r>>].found) = FALSE
    BY <2>1, <2>3
  <2> QED BY <2>1, <2>2, <2>3, <2>4, Zenon DEF searchChild
<1>5. considerChild(s, Start(r), leaf) =
        [best |-> After(s, leaf, r), found |-> Used(s, leaf, r), useThisResp |-> Used(s, leaf, r)]
  <2>1. Start(r).best = r /\ Start(r).found = FALSE /\ Start(r).useThisResp = FALSE
    BY DEF Start
  <2>2. CASE s.final[leaf] = NoResponse
    BY <2>2 DEF considerChild, Start, After, Used
  <2>3. CASE s.final[leaf] # NoResponse
    <3>1. CASE Preferred(s, leaf, findRespPriority(r.code))
      BY <2>1, <2>3, <3>1 DEF considerChild, After, Used
    <3>2. CASE ~Preferred(s, leaf, findRespPriority(r.code))
      BY <2>1, <2>3, <3>2 DEF considerChild, After, Used
    <3> QED BY <3>1, <3>2
  <2> QED BY <2>2, <2>3
<1>6. Generation(s, Bottom(s))[<<c, r>>] = searchChildren(s, Bottom(s), c, r)
  BY <1>2 DEF Generation
<1>7. Generation(s, Bottom(s))[<<c, r>>] = [best |-> After(s, leaf, r), found |-> Used(s, leaf, r)]
  BY <1>1, <1>4, <1>5, <1>6, OnlyChild
<1>9. searchChild(s, Generation(s, Bottom(s)), acc, c) =
        [best |-> After(s, leaf, r), found |-> found \/ Used(s, leaf, r), useThisResp |-> FALSE]
  <2>1. acc.best = r /\ acc.found = found /\ acc.useThisResp = FALSE
    OBVIOUS
  <2>2. /\ Generation(s, Bottom(s))[<<c, r>>].best = After(s, leaf, r)
        /\ Generation(s, Bottom(s))[<<c, r>>].found = Used(s, leaf, r)
    BY <1>7
  <2> QED BY <1>1, <2>1, <2>2, Zenon DEF searchChild, considerChild
<1> QED BY <1>9 DEF c, leaf


(* The switch of findBestChildResponse, by the priorities of the child's    *)
(* response (p) and of the best one so far (q).                             *)
LEMMA Choice ==
  ASSUME NEW s, NEW leaf, s.children[leaf] = <<>>, s.canceled[leaf] \in BOOLEAN,
         NEW code \in FailureCodes, s.final[leaf].code = code,
         NEW q \in {0, 1, 2, 3, 5, 6, 8}
  PROVE  LET p == findRespPriority(code)
         IN Preferred(s, leaf, q) <=> \/ q = 8
                                      \/ p \in {0, 2} /\ q >= 3
                                      \/ p = 1 /\ s.canceled[leaf] /\ q >= 3
                                      \/ p \in {3, 5, 6} /\ q > p
<1> DEFINE p == findRespPriority(code)
<1>1. p \in {0, 1, 2, 3, 5, 6}
  BY Priorities
<1> HIDE DEF p
<1> QED BY <1>1 DEF p, Preferred, RESP_PRI_CHALLENGE, RESP_PRI_CANCEL, RESP_PRI_3XX, RESP_PRI_4XX, RESP_PRI_404,
         RESP_PRI_5XX, RESP_PRI_6XX, RESP_PRI_NOMATCH

(* The first i contacts that answered, and the priority of the answer of    *)
(* contact b.                                                               *)
Taken(finals, i) == {b \in 1..i : finals[b][1] # NoResponse}

Pri(finals, b) == findRespPriority(finals[b][1].code)

(* The invariant of the loop over the contacts, after i rounds.  The last   *)
(* conjunct needs the third from last: a challenge that becomes the best    *)
(* response replaces a plain failure only, so that no earlier contact       *)
(* challenged.                                                              *)
Kept(finals, given, s, i, acc) ==
  /\ acc.best \in Candidates(s)
  /\ Taken(finals, i) = {} => acc.best = NoResponse
  /\ Taken(finals, i) # {} => /\ acc.found = TRUE
                              /\ \E b \in Taken(finals, i) : acc.best.code = Forwarded(finals[b][1].code)
  /\ \A b \in Taken(finals, i) :
       Pri(finals, b) \in {0, 2} \/ (Pri(finals, b) = 1 /\ given[b][1]) => findRespPriority(acc.best.code) <= 2
  /\ \A b \in Taken(finals, i) :
       Pri(finals, b) >= 3 => findRespPriority(acc.best.code) <= Pri(finals, b)
  /\ acc.best.code \in Challenge => acc.best.realms = UNION {finals[b][1].realms : b \in Taken(finals, i)}

(* What a contact that answered has answered. *)
LEMMA GivenCodes ==
  ASSUME NEW finals, NEW given, NEW realms, AnsweredOnce(finals, given, realms),
         NEW i \in 0..Len(finals), NEW b \in Taken(finals, i)
  PROVE  /\ b \in 1..Len(finals) /\ finals[b][1] \in Failures(realms)
         /\ finals[b][1].code \in FailureCodes
         /\ finals[b][1].code \notin Challenge => finals[b][1].realms = {}
<1>1. b \in 1..Len(finals) /\ finals[b][1] # NoResponse
  BY DEF Taken, AnsweredOnce
<1>2. finals[b][1] \in Failures(realms)
  BY <1>1 DEF AnsweredOnce
<1> QED BY <1>1, <1>2 DEF Failures

(* The priority of the best response so far: there is none before the first *)
(* answer.                                                                  *)
LEMMA BestPriority ==
  ASSUME NEW finals, NEW given, NEW realms, AnsweredOnce(finals, given, realms), NEW s,
         NEW i \in 0..Len(finals), NEW acc, Kept(finals, given, s, i, acc)
  PROVE  /\ findRespPriority(acc.best.code) \in {0, 1, 2, 3, 5, 6, 8}
         /\ findRespPriority(acc.best.code) = 8 <=> Taken(finals, i) = {}
<1>1. CASE Taken(finals, i) = {}
  BY <1>1, OtherPriorities DEF Kept, NoResponse, RESP_PRI_NOMATCH
<1>2. CASE Taken(finals, i) # {}
  <2>1. PICK b \in Taken(finals, i) : acc.best.code = Forwarded(finals[b][1].code)
    BY <1>2 DEF Kept
  <2>2. finals[b][1].code \in FailureCodes
    BY GivenCodes
  <2>3. findRespPriority(acc.best.code) \in {0, 1, 2, 3, 5, 6}
    BY <2>1, <2>2, Priorities
  <2> QED BY <1>2, <2>3
<1> QED BY <1>1, <1>2


(* A round of the loop keeps the invariant. *)
LEMMA Round ==
  ASSUME NEW finals, NEW given, NEW realms, AnsweredOnce(finals, given, realms),
         NEW s, s = Searched(finals, given),
         NEW i \in 1..Len(finals), NEW old, Kept(finals, given, s, i - 1, old), old.found \in BOOLEAN,
         NEW new, new.best = After(s, <<1, 1, i, 1>>, old.best),
         new.found = (old.found \/ Used(s, <<1, 1, i, 1>>, old.best))
  PROVE  Kept(finals, given, s, i, new)
<1> DEFINE leaf == <<1, 1, i, 1>>
           resp == finals[i][1]
           p == findRespPriority(resp.code)
           q == findRespPriority(old.best.code)
           T == Taken(finals, i - 1)
           Dec(b) == Pri(finals, b) \in {0, 2} \/ (Pri(finals, b) = 1 /\ given[b][1])
<1>1. /\ s.final[leaf] = resp /\ s.canceled[leaf] = given[i][1] /\ s.children[leaf] = <<>>
      /\ leaf \in DOMAIN s.final
  <2>1. ContactOf(finals, given, s, i)
    BY Tree
  <2> QED BY <2>1 DEF ContactOf
<1>2. given[i][1] \in BOOLEAN
  BY DEF AnsweredOnce
<1>3. i - 1 \in 0..Len(finals) /\ i \in 0..Len(finals)
  BY DEF AnsweredOnce
<1>4. Taken(finals, i) = IF resp = NoResponse THEN T ELSE T \cup {i}
  BY DEF Taken, AnsweredOnce
<1>5. q \in {0, 1, 2, 3, 5, 6, 8} /\ (q = 8 <=> T = {})
  BY <1>3, BestPriority
<1>6. ASSUME NEW b \in T
      PROVE  /\ finals[b][1].code \in FailureCodes
             /\ finals[b][1].code \notin Challenge => finals[b][1].realms = {}
             /\ Pri(finals, b) \in {0, 1, 2, 3, 5, 6}
             /\ Pri(finals, b) = 0 <=> finals[b][1].code \in Challenge
  <2>1. /\ finals[b][1].code \in FailureCodes
        /\ finals[b][1].code \notin Challenge => finals[b][1].realms = {}
    BY <1>3, GivenCodes
  <2> QED BY <2>1, Priorities DEF Pri
<1>9. /\ old.best \in Candidates(s)
      /\ T # {} => /\ old.found = TRUE
                   /\ \E b \in T : old.best.code = Forwarded(finals[b][1].code)
      /\ old.best.code \in Challenge => old.best.realms = UNION {finals[b][1].realms : b \in T}
  BY DEF Kept
<1>10. ASSUME NEW b \in T PROVE (Dec(b) => q <= 2) /\ (Pri(finals, b) >= 3 => q <= Pri(finals, b))
  BY DEF Kept
<1>7. CASE resp = NoResponse
  <2>1. new.best = old.best /\ new.found = old.found /\ Taken(finals, i) = T
    BY <1>1, <1>4, <1>7 DEF After, Used
  <2> QED BY <2>1 DEF Kept
<1>8. CASE resp # NoResponse
  <2>1. Taken(finals, i) = T \cup {i} /\ i \in Taken(finals, i)
    BY <1>4, <1>8
  <2>2. /\ resp \in Failures(realms) /\ resp.code \in FailureCodes
        /\ resp.code \notin Challenge => resp.realms = {}
    BY <1>3, <2>1, GivenCodes
  <2>3. /\ p \in {0, 1, 2, 3, 5, 6} /\ findRespPriority(Forwarded(resp.code)) = p
        /\ p = 0 <=> resp.code \in Challenge
        /\ Forwarded(resp.code) \in Challenge <=> resp.code \in Challenge
        /\ Pri(finals, i) = p
    BY <2>2, Priorities DEF Pri
  <2> DEFINE P == Preferred(s, leaf, q)
  <2>4. P <=> \/ q = 8
              \/ p \in {0, 2} /\ q >= 3
              \/ p = 1 /\ given[i][1] /\ q >= 3
              \/ p \in {3, 5, 6} /\ q > p
    BY <1>1, <1>2, <1>5, <2>2, Choice
  <2> HIDE DEF P, T, q, p, Dec, leaf
  <2>5. CASE P
    <3>1. new.best = forwardable(resp) /\ new.found = TRUE
      BY <1>1, <1>8, <2>5 DEF After, Used, P, q, leaf
    <3>2. new.best.code = Forwarded(resp.code) /\ new.best.realms = resp.realms
      BY <2>2, <3>1 DEF forwardable, Forwarded, Failures
    <3>3. findRespPriority(new.best.code) = p
      BY <2>3, <3>2
    <3>4. ASSUME NEW b \in T PROVE ~Dec(b) /\ Pri(finals, b) # 0
      <4>1. q = 8 \/ q >= 3
        BY <1>5, <2>3, <2>4, <2>5
      <4>2. q # 8 /\ q \in Int
        BY <1>5
      <4>3. ~Dec(b)
        BY <1>10, <4>1, <4>2
      <4> QED BY <4>3 DEF Dec
    <3>5. new.best \in Candidates(s)
      <4>1. resp.realms \subseteq UNION {s.final[t].realms : t \in DOMAIN s.final}
        BY <1>1
      <4>2. forwardable(resp) \in [code : Int, realms : {resp.realms}]
        <5>1. resp = [code |-> resp.code, realms |-> resp.realms] /\ resp.code \in Int
          <6>1. resp \in [code : FailureCodes, realms : SUBSET realms]
            BY <2>2 DEF Failures
          <6> HIDE DEF resp
          <6>2. FailureCodes \subseteq Int
            BY DEF FailureCodes
          <6> QED BY <6>1, <6>2
        <5>2. CASE resp.code = 503
          <6>1. forwardable(resp) = [code |-> 500, realms |-> resp.realms]
            BY <5>1, <5>2 DEF forwardable
          <6> QED BY <6>1
        <5>3. CASE resp.code # 503
          BY <5>1, <5>3 DEF forwardable
        <5> QED BY <5>2, <5>3
      <4> QED BY <3>1, <4>1, <4>2 DEF Candidates
    <3>6. ASSUME NEW b \in Taken(finals, i), Pri(finals, b) >= 3 PROVE p <= Pri(finals, b)
      <4>1. CASE b = i
        BY <2>3, <4>1
      <4>2. CASE b \in T
        <5>1. q # 8 /\ q \in Int /\ q <= Pri(finals, b) /\ Pri(finals, b) \in Int
          BY <1>5, <1>6, <1>10, <3>6, <4>2
        <5>2. p \in Int /\ (p <= 2 \/ q > p)
          BY <2>3, <2>4, <2>5, <5>1
        <5> QED BY <3>6, <5>1, <5>2
      <4> QED BY <2>1, <4>1, <4>2
    <3>7. ASSUME NEW b \in Taken(finals, i), Dec(b) PROVE p <= 2
      <4>1. b = i
        BY <2>1, <3>4, <3>7
      <4> QED BY <2>3, <3>7, <4>1 DEF Dec
    <3>8. new.best.code \in Challenge => resp.realms = UNION {finals[b][1].realms : b \in Taken(finals, i)}
      <4>1. ASSUME NEW b \in T PROVE finals[b][1].realms = {}
        BY <1>6, <3>4
      <4> QED BY <2>1, <4>1
    <3> QED BY <2>1, <3>1, <3>2, <3>3, <3>5, <3>6, <3>7, <3>8 DEF Kept, Dec
  <2>6. CASE ~P
    <3>1. new.best = mergeChallenge(old.best, resp) /\ new.found = old.found
      BY <1>1, <1>8, <2>6 DEF After, Used, P, q, leaf
    <3>2. T # {} /\ q # 8
      BY <1>5, <2>4, <2>6
    <3>3. old.best \in Candidates(s)
      BY <1>9
    <3>4. /\ new.best.code = old.best.code
          /\ q = 0 /\ p = 0 => new.best.realms = old.best.realms \cup resp.realms
          /\ ~(q = 0 /\ p = 0) => new.best = old.best
      BY <3>1, <3>3 DEF mergeChallenge, Candidates, RESP_PRI_CHALLENGE, p, q
    <3>5. new.best \in Candidates(s)
      <4>1. resp.realms \subseteq UNION {s.final[t].realms : t \in DOMAIN s.final}
        BY <1>1
      <4> QED BY <3>1, <3>3, <4>1 DEF mergeChallenge, Candidates
    <3>6. ASSUME NEW b \in Taken(finals, i), Pri(finals, b) >= 3 PROVE q <= Pri(finals, b)
      <4>1. CASE b = i
        BY <1>5, <2>3, <2>4, <2>6, <3>6, <4>1
      <4> QED BY <1>10, <2>1, <3>6, <4>1
    <3>7. ASSUME NEW b \in Taken(finals, i), Dec(b) PROVE q <= 2
      <4>1. CASE b = i
        BY <1>5, <2>3, <2>4, <2>6, <3>7, <4>1 DEF Dec
      <4> QED BY <1>10, <2>1, <3>7, <4>1
    <3>8. \E b \in Taken(finals, i) : new.best.code = Forwarded(finals[b][1].code)
      BY <1>9, <2>1, <3>2, <3>4
    <3>9. old.best.code \in Challenge =>
            new.best.realms = UNION {finals[b][1].realms : b \in Taken(finals, i)}
      <4> HAVE old.best.code \in Challenge
      <4>1. q = 0
        BY OtherPriorities DEF RESP_PRI_CHALLENGE, q
      <4>2. old.best.realms = UNION {finals[b][1].realms : b \in T}
        BY <1>9
      <4>3. new.best.realms = old.best.realms \cup resp.realms
        BY <2>2, <2>3, <3>4, <4>1
      <4> QED BY <2>1, <4>2, <4>3
    <3>10. new.found = TRUE
      BY <1>9, <3>1, <3>2
    <3> QED BY <2>1, <3>4, <3>5, <3>6, <3>7, <3>8, <3>9, <3>10 DEF Kept, Dec, q
  <2> QED BY <2>5, <2>6
<1> QED BY <1>7, <1>8


(* So the loop over all the contacts ends with it. *)
LEMMA Contacts ==
  ASSUME NEW finals, NEW given, NEW realms, AnsweredOnce(finals, given, realms),
         NEW s, s = Searched(finals, given)
  PROVE  \E acc : /\ Kept(finals, given, s, Len(finals), acc)
                  /\ searchChildren(s, Generation(s, Bottom(s)), <<1, 1>>, NoResponse) =
                       [best |-> acc.best, found |-> acc.found]
<1> DEFINE n == Len(finals)
           below == Generation(s, Bottom(s))
<1>1. n \in Nat /\ Len(s.children[<<1, 1>>]) = n
  BY Tree
<1>2. PICK f : /\ f[0] = Start(NoResponse)
               /\ \A i \in 1..n : f[i] = searchChild(s, below, f[i - 1], s.children[<<1, 1>>][i])
               /\ searchChildren(s, below, <<1, 1>>, NoResponse) =
                    [best |-> f[n].best, found |-> f[n].found]
  <2> HIDE DEF n, below
  <2>1. Len(s.children[<<1, 1>>]) \in Nat
    BY <1>1
  <2>2. \E f : /\ f[0] = Start(NoResponse)
               /\ \A i \in 1..Len(s.children[<<1, 1>>]) :
                     f[i] = searchChild(s, below, f[i - 1], s.children[<<1, 1>>][i])
               /\ searchChildren(s, below, <<1, 1>>, NoResponse) =
                    [best  |-> f[Len(s.children[<<1, 1>>])].best,
                     found |-> f[Len(s.children[<<1, 1>>])].found]
    <3>1. PICK t : t = <<1, 1>>
      OBVIOUS
    <3>2. Len(s.children[t]) \in Nat
      BY <2>1, <3>1
    <3>3. \E f : /\ f[0] = Start(NoResponse)
                 /\ \A i \in 1..Len(s.children[t]) :
                       f[i] = searchChild(s, below, f[i - 1], s.children[t][i])
                 /\ searchChildren(s, below, t, NoResponse) =
                      [best |-> f[Len(s.children[t])].best, found |-> f[Len(s.children[t])].found]
      BY <3>2, Loop
    <3> QED BY <3>1, <3>3
  <2> QED BY <1>1, <2>2
<1> DEFINE Good(i) == /\ Kept(finals, given, s, i, f[i]) /\ f[i].found \in BOOLEAN
                      /\ f[i] = [best |-> f[i].best, found |-> f[i].found, useThisResp |-> FALSE]
           Done == {i \in Nat : i <= n => Good(i)}
<1>3. 0 \in Done
  <2>1. Taken(finals, 0) = {}
    BY DEF Taken
  <2>2. f[0].best = NoResponse /\ f[0].found = FALSE
    BY <1>2 DEF Start
  <2>3. NoResponse \in Candidates(s) /\ NoResponse.code \notin Challenge
    BY DEF NoResponse, Candidates, Challenge
  <2>4. Kept(finals, given, s, 0, f[0])
    BY <2>1, <2>2, <2>3 DEF Kept
  <2>5. f[0] = [best |-> f[0].best, found |-> f[0].found, useThisResp |-> FALSE]
    BY <1>2 DEF Start
  <2> QED BY <2>2, <2>4, <2>5
<1>4. ASSUME NEW k \in Nat, k \in Done PROVE k + 1 \in Done
  <2> SUFFICES ASSUME k + 1 <= n PROVE Good(k + 1)
    OBVIOUS
  <2> DEFINE b == k + 1
             leaf == <<1, 1, b, 1>>
  <2>1. Good(k) /\ b \in 1..n /\ b - 1 = k
    BY <1>1, <1>4
  <2>2. s.children[<<1, 1>>][b] = <<1, 1, b>>
    <3> HIDE DEF b
    <3>1. ContactOf(finals, given, s, b)
      BY <2>1, Tree
    <3> QED BY <3>1 DEF ContactOf
  <2>3. f[b] = searchChild(s, below, f[k], <<1, 1, b>>)
    BY <1>2, <2>1, <2>2
  <2>4. f[k].best \in Candidates(s)
    BY <2>1 DEF Kept
  <2>5. f[b] = [best        |-> After(s, leaf, f[k].best),
                found       |-> f[k].found \/ Used(s, leaf, f[k].best),
                useThisResp |-> FALSE]
    <3> HIDE DEF b
    <3> QED BY <2>1, <2>3, <2>4, Contact
  <2>6. /\ f[b].best = After(s, leaf, f[k].best)
        /\ f[b].found = (f[k].found \/ Used(s, leaf, f[k].best))
        /\ f[b] = [best |-> f[b].best, found |-> f[b].found, useThisResp |-> FALSE]
    <3> HIDE DEF b, leaf
    <3> QED BY <2>5
  <2>7. Kept(finals, given, s, b, f[b])
    <3> HIDE DEF b
    <3> QED BY <2>1, <2>6, Round
  <2>8. f[b].found \in BOOLEAN
    BY <2>6
  <2> QED BY <2>6, <2>7, <2>8
<1>5. Good(n)
  <2> HIDE DEF Good
  <2>1. Nat \subseteq Done
    <3> HIDE DEF Done
    <3> QED BY <1>3, <1>4, Induction
  <2> QED BY <1>1, <2>1
<1> QED BY <1>2, <1>5

(* The questions the search asks on its way down to the contacts. *)
LEMMA Asks ==
  ASSUME NEW finals, NEW given, NEW realms, AnsweredOnce(finals, given, realms),
         NEW s, s = Searched(finals, given)
  PROVE  \A t \in {<<>>, << 1 >>, <<1, 1>>} : <<t, NoResponse>> \in Asked(s)
<1>1. NoResponse \in Candidates(s)
  BY DEF NoResponse, Candidates
<1>2. {<<>>, << 1 >>, <<1, 1>>} \subseteq DOMAIN s.final
  BY Tree
<1> QED BY <1>1, <1>2 DEF Asked

(* Above the contacts: the address that redirected the request has          *)
(* children, so its 302 is taken only when no contact answered.             *)
LEMMA Outcome ==
  ASSUME NEW finals, NEW given, NEW realms, AnsweredOnce(finals, given, realms)
  PROVE  \E acc : /\ Kept(finals, given, Searched(finals, given), Len(finals), acc)
                  /\ Best(finals, given) = IF Taken(finals, Len(finals)) = {}
                                           THEN [code |-> 302, realms |-> {}] ELSE acc.best
<1> DEFINE n == Len(finals)
<1>1. PICK s : s = Searched(finals, given)
  OBVIOUS
<1>2. PICK acc : /\ Kept(finals, given, s, n, acc)
                 /\ searchChildren(s, Generation(s, Bottom(s)), <<1, 1>>, NoResponse) =
                      [best |-> acc.best, found |-> acc.found]
  BY <1>1, Contacts
<1>3. PICK f : /\ f[0] = Bottom(s)
               /\ \A h \in 1..4 : f[h] = Generation(s, f[h - 1])
               /\ findBestChildResponse(s, 4) = f[4]
  BY Generations
<1>4. /\ f[1] = Generation(s, Bottom(s)) /\ f[2] = Generation(s, f[1])
      /\ f[3] = Generation(s, f[2]) /\ f[4] = Generation(s, f[3])
  BY <1>3
<1>5. /\ <<<<>>, NoResponse>> \in Asked(s) /\ <<<< 1 >>, NoResponse>> \in Asked(s)
      /\ <<<<1, 1>>, NoResponse>> \in Asked(s)
  BY <1>1, Asks
<1>6. f[2][<<<<1, 1>>, NoResponse>>] = [best |-> acc.best, found |-> acc.found]
  <2>1. f[2][<<<<1, 1>>, NoResponse>>] = searchChildren(s, f[1], <<1, 1>>, NoResponse)
    BY <1>4, <1>5 DEF Generation
  <2> QED BY <1>2, <1>4, <2>1
<1>7. PICK r : r = searchChild(s, f[2], Start(NoResponse), <<1, 1>>)
  OBVIOUS
<1>8. f[3][<<<< 1 >>, NoResponse>>] = [best |-> r.best, found |-> r.found]
  <2>1. f[3][<<<< 1 >>, NoResponse>>] = searchChildren(s, f[2], << 1 >>, NoResponse)
    BY <1>4, <1>5 DEF Generation
  <2>2. Len(s.children[<< 1 >>]) = 1 /\ s.children[<< 1 >>][1] = <<1, 1>>
    BY <1>1, Tree
  <2> QED BY <1>7, <2>1, <2>2, OnlyChild
<1>9. PICK top : top = searchChild(s, f[3], Start(NoResponse), << 1 >>)
  OBVIOUS
<1>10. f[4][<<<<>>, NoResponse>>] = [best |-> top.best, found |-> top.found]
  <2>1. f[4][<<<<>>, NoResponse>>] = searchChildren(s, f[3], <<>>, NoResponse)
    BY <1>4, <1>5 DEF Generation
  <2>2. Len(s.children[<<>>]) = 1 /\ s.children[<<>>][1] = << 1 >>
    BY <1>1, Tree
  <2> QED BY <1>9, <2>1, <2>2, OnlyChild
<1>11. top.best = r.best /\ top.found = (FALSE \/ r.found)
  <2>1. s.final[<< 1 >>] = NoResponse
    BY <1>1, Tree
  <2>2. Start(NoResponse).best = NoResponse /\ Start(NoResponse).found = FALSE
    BY DEF Start
  <2>3. top = [best |-> r.best, found |-> FALSE \/ r.found, useThisResp |-> Start(NoResponse).useThisResp]
    <3>1. f[3][<<<< 1 >>, NoResponse>>].best = r.best /\ f[3][<<<< 1 >>, NoResponse>>].found = r.found
      BY <1>8
    <3> QED BY <1>9, <2>1, <2>2, <3>1, Zenon DEF searchChild, considerChild
  <2> QED BY <2>3
<1>12. r.best = (IF Taken(finals, n) = {} THEN [code |-> 302, realms |-> {}] ELSE acc.best) /\ r.found = TRUE
  <2> DEFINE redirect == [code |-> 302, realms |-> {}]
             use == Preferred(s, <<1, 1>>, findRespPriority(acc.best.code))
             mid == [best |-> acc.best, found |-> acc.found, useThisResp |-> FALSE]
  <2>1. s.final[<<1, 1>>] = redirect /\ redirect # NoResponse
    BY <1>1, Tree DEF NoResponse
  <2>2. r = considerChild(s, [best |-> acc.best, found |-> FALSE \/ acc.found, useThisResp |-> FALSE], <<1, 1>>)
    <3>1. f[2][<<<<1, 1>>, NoResponse>>].best = acc.best /\ f[2][<<<<1, 1>>, NoResponse>>].found = acc.found
      BY <1>6
    <3>2. /\ Start(NoResponse).best = NoResponse /\ Start(NoResponse).found = FALSE
          /\ Start(NoResponse).useThisResp = FALSE
      BY DEF Start
    <3> QED BY <1>7, <3>1, <3>2, Zenon DEF searchChild
  <2>3. CASE Taken(finals, n) = {}
    <3>1. acc.best = NoResponse
      BY <1>2, <2>3 DEF Kept
    <3>2. use
      BY <3>1, OtherPriorities DEF Preferred, NoResponse
    <3>3. r.best = forwardable(redirect) /\ r.found = TRUE
      BY <2>1, <2>2, <3>2 DEF considerChild
    <3>4. forwardable(redirect) = redirect
      BY DEF forwardable
    <3> QED BY <2>3, <3>3, <3>4
  <2>4. CASE Taken(finals, n) # {}
    <3>1. acc.found = TRUE
      BY <1>2, <2>4 DEF Kept
    <3>2. ~use
      <4>1. n \in Nat /\ n \in 0..n
        BY Tree, <1>1
      <4>2. findRespPriority(acc.best.code) # 8
        BY <1>2, <2>4, <4>1, BestPriority
      <4>3. s.children[<<1, 1>>] # <<>>
        <5>1. n # 0
          BY <2>4 DEF Taken
        <5>2. Len(s.children[<<1, 1>>]) = n
          BY <1>1, Tree
        <5> QED BY <5>1, <5>2
      <4>4. findRespPriority(s.final[<<1, 1>>].code) = 2
        BY <2>1, OtherPriorities DEF RESP_PRI_3XX
      <4> QED BY <4>2, <4>3, <4>4
              DEF Preferred, RESP_PRI_CHALLENGE, RESP_PRI_CANCEL, RESP_PRI_3XX, RESP_PRI_4XX,
                  RESP_PRI_404, RESP_PRI_5XX, RESP_PRI_6XX, RESP_PRI_NOMATCH
    <3>3. r.best = mergeChallenge(acc.best, redirect) /\ r.found = TRUE
      BY <2>1, <2>2, <3>1, <3>2 DEF considerChild
    <3>4. mergeChallenge(acc.best, redirect) = acc.best
      BY OtherPriorities DEF mergeChallenge, RESP_PRI_CHALLENGE, RESP_PRI_3XX
    <3> QED BY <2>4, <3>3, <3>4
  <2> QED BY <2>3, <2>4
<1>13. Best(finals, given) = r.best
  <2>1. findBestChildResponse(s, Height)[<<<<>>, NoResponse>>] = [best |-> top.best, found |-> top.found]
    BY <1>3, <1>10 DEF Height
  <2>2. findBestChildResponse(s, Height)[<<<<>>, NoResponse>>].found = TRUE
        /\ findBestChildResponse(s, Height)[<<<<>>, NoResponse>>].best = r.best
    <3>1. top.best = r.best /\ top.found = TRUE
      BY <1>11, <1>12
    <3> QED BY <2>1, <3>1
  <2> QED BY <1>1, <2>2 DEF Best, findBestResponse
<1> WITNESS acc
<1> QED BY <1>1, <1>2, <1>12, <1>13

(* What BestClass says of these contacts. *)
LEMMA ClassOfContacts ==
  ASSUME NEW finals, NEW given, NEW realms, AnsweredOnce(finals, given, realms)
  PROVE  BestClassOf(finals, given)
<1> DEFINE n == Len(finals)
           best == Best(finals, given)
           T == Taken(finals, n)
<1>1. PICK acc : /\ Kept(finals, given, Searched(finals, given), n, acc)
                 /\ best = IF T = {} THEN [code |-> 302, realms |-> {}] ELSE acc.best
  BY Outcome
<1>2. n \in Nat /\ DOMAIN finals = 1..n /\ n \in 0..n
  BY DEF AnsweredOnce
<1>3. Answers(finals) = {<<b, 1>> : b \in T}
  <2>1. \A b \in 1..n : DOMAIN finals[b] = {1}
    BY <1>2 DEF AnsweredOnce
  <2> QED BY <1>2, <2>1 DEF Answers, Taken
<1>4. ASSUME NEW x \in Answers(finals)
      PROVE  \E b \in T : /\ x = <<b, 1>> /\ Code(finals, x) = finals[b][1].code
                          /\ findRespPriority(Code(finals, x)) = Pri(finals, b)
  BY <1>3 DEF Code, Pri
<1>5. ASSUME NEW b \in T
      PROVE  /\ finals[b][1].code \in FailureCodes
             /\ Pri(finals, b) = 0 <=> finals[b][1].code \in Challenge
             /\ Pri(finals, b) = 1 <=> finals[b][1].code = 487
             /\ Pri(finals, b) = 2 <=> finals[b][1].code \in 300..399
  <2>1. PICK c \in FailureCodes : c = finals[b][1].code
    BY <1>2, GivenCodes
  <2>2. /\ findRespPriority(c) = 0 <=> c \in Challenge
        /\ findRespPriority(c) = 1 <=> c = 487
        /\ findRespPriority(c) = 2 <=> c \in 300..399
    BY Priorities
  <2> QED BY <2>1, <2>2 DEF Pri
<1>6. Decisive(finals, given) # {} => findRespPriority(best.code) <= RESP_PRI_3XX
  <2> SUFFICES ASSUME NEW x \in Decisive(finals, given) PROVE findRespPriority(best.code) <= 2
    BY DEF RESP_PRI_3XX
  <2>1. x \in Answers(finals) /\ \/ Code(finals, x) \in Challenge \cup 300..399
                                 \/ Code(finals, x) = 487 /\ given[x[1]][x[2]]
    BY DEF Decisive
  <2>2. PICK b \in T : x = <<b, 1>> /\ Code(finals, x) = finals[b][1].code
    BY <1>4, <2>1
  <2>3. Pri(finals, b) \in {0, 2} \/ (Pri(finals, b) = 1 /\ given[b][1])
    BY <1>5, <2>1, <2>2
  <2> QED BY <1>1, <2>3 DEF Kept
<1>7. \A x \in Ordinary(finals) : findRespPriority(best.code) <= findRespPriority(Code(finals, x))
  <2> SUFFICES ASSUME NEW x \in Ordinary(finals)
               PROVE  findRespPriority(best.code) <= findRespPriority(Code(finals, x))
    OBVIOUS
  <2>1. x \in Answers(finals) /\ findRespPriority(Code(finals, x)) >= 3
    BY DEF Ordinary, RESP_PRI_4XX
  <2>2. PICK b \in T : findRespPriority(Code(finals, x)) = Pri(finals, b)
    BY <1>4, <2>1
  <2> QED BY <1>1, <2>1, <2>2 DEF Kept
<1>8. Answers(finals) # {} =>
        best.code \in {IF Code(finals, x) = 503 THEN 500 ELSE Code(finals, x) : x \in Answers(finals)}
  <2> HAVE Answers(finals) # {}
  <2>1. T # {}
    BY <1>3
  <2>2. PICK b \in T : best.code = Forwarded(finals[b][1].code)
    BY <1>1, <2>1 DEF Kept
  <2>3. <<b, 1>> \in Answers(finals) /\ Code(finals, <<b, 1>>) = finals[b][1].code
    BY <1>3 DEF Code
  <2> QED BY <2>2, <2>3 DEF Forwarded
<1> QED BY <1>6, <1>7, <1>8 DEF BestClassOf

(* And what EveryRealmAsked says. *)
LEMMA RealmsOfContacts ==
  ASSUME NEW finals, NEW given, NEW realms, AnsweredOnce(finals, given, realms)
  PROVE  EveryRealmAskedOf(finals, given)
<1> DEFINE n == Len(finals)
           best == Best(finals, given)
           T == Taken(finals, n)
<1> SUFFICES ASSUME best.code \in Challenge
             PROVE  best.realms = UNION {finals[x[1]][x[2]].realms : x \in Answers(finals)}
  BY DEF EveryRealmAskedOf
<1>1. PICK acc : /\ Kept(finals, given, Searched(finals, given), n, acc)
                 /\ best = IF T = {} THEN [code |-> 302, realms |-> {}] ELSE acc.best
  BY Outcome
<1>2. n \in Nat /\ DOMAIN finals = 1..n /\ \A b \in 1..n : DOMAIN finals[b] = {1}
  BY DEF AnsweredOnce
<1>3. Answers(finals) = {<<b, 1>> : b \in T}
  BY <1>2 DEF Answers, Taken
<1>4. best = acc.best
  BY <1>1 DEF Challenge
<1>5. best.realms = UNION {finals[b][1].realms : b \in T}
  BY <1>1, <1>4 DEF Kept
<1>6. {finals[x[1]][x[2]].realms : x \in Answers(finals)} = {finals[b][1].realms : b \in T}
  <2>1. \A x \in Answers(finals) : \E b \in T : x[1] = b /\ x[2] = 1
    BY <1>3
  <2>2. ASSUME NEW b \in T PROVE \E x \in Answers(finals) : x[1] = b /\ x[2] = 1
    <3>1. <<b, 1>> \in Answers(finals) /\ <<b, 1>>[1] = b /\ <<b, 1>>[2] = 1
      BY <1>3
    <3> QED BY <3>1
  <2> QED BY <2>1, <2>2
<1> QED BY <1>5, <1>6
-----------------------------------------------------------------------------
(* As the responses come in.                                               *)

(* Each contact has one address, which gave a failure or nothing. *)
OneEach ==
  /\ answer \in [1..Branches -> [{1} -> Failures(Realms) \cup {NoResponse}]]
  /\ canceled \in [1..Branches -> [{1} -> BOOLEAN]]

LEMMA ResponsesAreFailures == ASSUME Codes \subseteq FailureCodes PROVE Responses \subseteq Failures(Realms)
  BY DEF Responses, Failures

LEMMA OneEachKept ==
  ASSUME Addresses = 1, Codes \subseteq FailureCodes
  PROVE  Spec => []OneEach
<1>1. 1..Addresses = {1}
  OBVIOUS
<1>2. Init => OneEach
  BY <1>1 DEF Init, OneEach
<1>3. OneEach /\ [Next]_vars => OneEach'
  <2> SUFFICES ASSUME OneEach, [Next]_vars PROVE OneEach'
    OBVIOUS
  <2>1. ASSUME NEW b \in 1..Branches, Cancel(b, 1) PROVE OneEach'
    BY <2>1 DEF OneEach, Cancel
  <2>2. ASSUME NEW b \in 1..Branches, Answer(b, 1) PROVE OneEach'
    BY <2>2, ResponsesAreFailures DEF OneEach, Answer
  <2>3. CASE UNCHANGED vars
    BY <2>3 DEF OneEach, vars
  <2> QED BY <1>1, <2>1, <2>2, <2>3 DEF Next
<1> QED BY <1>2, <1>3, PTL DEF Spec

LEMMA OneEachIsOnce == OneEach => AnsweredOnce(answer, canceled, Realms)
<1> SUFFICES ASSUME OneEach PROVE AnsweredOnce(answer, canceled, Realms)
  OBVIOUS
<1>1. answer \in Seq([{1} -> Failures(Realms) \cup {NoResponse}]) /\ Len(answer) = Branches
  BY BranchesAssumption DEF OneEach
<1> QED BY <1>1 DEF OneEach, AnsweredOnce

(* findBestResponse prefers the classes of responses as BestClass says, for *)
(* any number of contacts that answer in any order, each from one address   *)
(* and with any failure but 404: a challenge, a canceled branch's 487 and   *)
(* an unfollowed redirection go before a 4xx, that before a 5xx and a 6xx,  *)
(* and neither a 503 nor the redirection that was followed is sent.         *)
THEOREM BestOfAnyContacts ==
  ASSUME Addresses = 1, Codes \subseteq FailureCodes
  PROVE  Spec => []BestClass
<1>1. OneEach => BestClass
  BY OneEachIsOnce, ClassOfContacts DEF BestClass
<1> QED BY <1>1, OneEachKept, PTL

(* When findBestResponse challenges the caller, the challenge has the       *)
(* realms of every contact that challenged, for any number of contacts and  *)
(* realms.                                                                  *)
THEOREM AllChallengesOfContacts ==
  ASSUME Addresses = 1, Codes \subseteq FailureCodes
  PROVE  Spec => []EveryRealmAsked
<1>1. OneEach => EveryRealmAsked
  BY OneEachIsOnce, RealmsOfContacts DEF EveryRealmAsked
<1> QED BY <1>1, OneEachKept, PTL
=============================================================================
