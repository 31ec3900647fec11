\* A CANCEL before the router forwards the request.
SPECIFICATION Spec
CONSTANTS
  Server = "s"
  Clients = {"c", "p", "q"}
  DnsChildren = {"a", "b", "pa", "qa"}
  Scenarios <- Race
  SIP_RESEND_TIMES = 2
INVARIANTS
  CancelReachesAll
\* The proxy is done with the INVITE when no timer is left.
CHECK_DEADLOCK FALSE
