------------------------ MODULE MCSipTransactionList ------------------------
(***************************************************************************)
(* The situations in which TLC looks at SipTransactionList.                *)
(***************************************************************************)
EXTENDS SipTransactionList

CONSTANTS t1, t2, t3, x1, x2, x3, e1, e2, e3

\* Three threads compete for one transaction.
Crowd ==
    [threads |-> {t1, t2, t3}, events |-> {e1, e2, e3},
     invites |-> {x1}, others |-> {}, overruns |-> FALSE]

\* A tree three deep grows and ages.
Chain == [Crowd EXCEPT !.threads = {t1}, !.events = {}, !.invites = {x1, x2, x3}]

\* Two threads at two INVITE transactions, alone or in one tree.
Pair == [Crowd EXCEPT !.threads = {t1, t2}, !.events = {e1, e2}, !.invites = {x1, x2}]

\* One transaction is not an INVITE and is collected earlier.
Mixed == [Pair EXCEPT !.invites = {x1}, !.others = {x2}]

\* Trees stay busy for longer than the waits.
LatePair == [Pair EXCEPT !.overruns = TRUE]

\* The same, with events that outlive their waits.
Late == [LatePair EXCEPT !.events = {e1, e2, e3}, !.invites = {x1}]

Situations == {Crowd, Chain, Pair, Mixed, LatePair, Late}

\* A wait in waitUntilAvailable ends when trees are released in time, also when
\* the collector deletes the tree. All threads are alike: one speaks for all.
WaitEnds == WaitOfEnds(t1)
=============================================================================
