SPECIFICATION Spec
CONSTANTS
  Users = {u1}
  Workers = {w1, w2}
  Kinds = {"oneshot"}
  MaxStarts = 1
INVARIANTS
  ExistsForRoutine
\* A timer that is stopped and not started again is at rest.
CHECK_DEADLOCK FALSE
