----------------------- MODULE MCSipRedirectorPickUp -----------------------
\* Two asynchronous redirectors, the first with more authority than the second,
\* which may throw.
EXTENDS SipRedirectorPickUp

CONSTANTS i1, i2, a1

Authority == <<1, 0>>

\* Two branches of one INVITE, the first of which dials both feature codes.
OneSession == [r \in Requests |-> 1]
Dialed == [r \in Requests |-> IF r = i1 THEN {1, 2} ELSE IF r = i2 THEN {2} ELSE {}]

StoredValues == Durations \cup {Absent}
=============================================================================
