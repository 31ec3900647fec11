-------------------------- MODULE MCSipTransaction --------------------------
(***************************************************************************)
(* Small trees for SipTransaction.  The names of the transactions tell     *)
(* their place: c is the client transaction the router creates, a and b    *)
(* its addresses; p and q are the contacts of a redirection, pa and qa     *)
(* their addresses.                                                        *)
(***************************************************************************)
EXTENDS SipTransaction

(* A tree with the children given; the other transactions have none. *)
Tree(kids) == [t \in Transactions |-> IF t \in DOMAIN kids THEN kids[t] ELSE <<>>]

AnswersOf(codes) == [d \in DnsChildren |-> IF d \in DOMAIN codes THEN codes[d] ELSE {}]

(* The contacts ring together, or one after the other. *)
Parallel == [c |-> 10, p |-> 10, q |-> 10]
Serial == [c |-> 10, p |-> 10, q |-> 5]

(* Two addresses for the request, no redirection. *)
Failover ==
  [kids |-> Tree([s |-> <<"c">>, c |-> <<"a", "b">>]),
   qvalues |-> {Parallel}, expiring |-> {}, mayLoop |-> {},
   mayBeUnreachable |-> {"a", "b"},
   answers |-> AnswersOf([a |-> {180, 200, 486, 487}, b |-> {100, 200, 487}]),
   timed |-> {"c", "a", "b"}, mayCancel |-> TRUE, recurseOnlyOne300 |-> FALSE]

(* The same with reachable addresses and no time-outs but Timer C. *)
CancelRace == [Failover EXCEPT !.mayBeUnreachable = {}, !.timed = {"c"}]

(* One address, which redirects to two contacts. *)
Fork ==
  [kids |-> Tree([s |-> <<"c">>, c |-> <<"a">>, a |-> <<"p", "q">>, p |-> <<"pa">>, q |-> <<"qa">>]),
   qvalues |-> {Parallel, Serial}, expiring |-> {}, mayLoop |-> {},
   mayBeUnreachable |-> {"pa"},
   answers |-> AnswersOf([a |-> {302}, pa |-> {200, 487}, qa |-> {180, 200, 404, 487}]),
   timed |-> {"p", "pa"}, mayCancel |-> TRUE, recurseOnlyOne300 |-> FALSE]

(* The lookup of the second contact finds nothing. *)
UnknownContact ==
  [kids |-> Tree([s |-> <<"c">>, c |-> <<"a">>, a |-> <<"p", "q">>, p |-> <<"pa">>]),
   qvalues |-> {Serial}, expiring |-> {"c"}, mayLoop |-> {"pa"},
   mayBeUnreachable |-> {"pa"},
   answers |-> AnswersOf([a |-> {300, 302}, pa |-> {302}]),
   timed |-> {"c", "a", "p", "pa"}, mayCancel |-> FALSE, recurseOnlyOne300 |-> TRUE]

Calls == [failover |-> Failover, unknown |-> UnknownContact, fork |-> Fork]
Race == [race |-> CancelRace]
=============================================================================
