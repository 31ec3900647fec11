SPECIFICATION FairSpec
CONSTANTS
  Users = {u1, u2}
  Workers = {w1, w2}
  Kinds = {"oneshot", "periodic"}
  MaxStarts = 3
INVARIANTS
  TypeOK
  
PROPERTIES
  StopIsFinal
  NoneLost
\* A timer that is stopped and not started again is at rest.
CHECK_DEADLOCK FALSE
