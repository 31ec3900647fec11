\* Two contacts, one is not found and one challenges.
SPECIFICATION Spec
CONSTANTS
  Branches = 2
  Addresses = 1
  Codes = {404, 407}
  Realms = {r1}
INVARIANTS
  ChallengeIsBetter
\* The search is over when every address has answered.
CHECK_DEADLOCK FALSE
