SPECIFICATION Spec
CONSTANTS
  Users = {u1}
  Workers = {w1, w2}
  Kinds = {"periodic"}
  MaxStarts = 1
INVARIANTS
  StartedWillFire
\* A timer that is stopped and not started again is at rest.
CHECK_DEADLOCK FALSE
