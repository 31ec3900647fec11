\* Three contacts, one address each; every class of response except 404.
SPECIFICATION Spec
CONSTANTS
  Branches = 3
  Addresses = 1
  Codes = {301, 401, 407, 486, 487, 503, 600, 603}
  Realms = {r1, r2}
INVARIANTS
  BestClass
  EveryRealmAsked
\* The search is over when every address has answered.
CHECK_DEADLOCK FALSE
