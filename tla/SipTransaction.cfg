\* Failover, a redirection to two contacts, and one to an unknown contact.
SPECIFICATION AnsweringSpec
CONSTANTS
  Server = "s"
  Clients = {"c", "p", "q"}
  DnsChildren = {"a", "b", "pa", "qa"}
  Scenarios <- Calls
  SIP_RESEND_TIMES = 2
INVARIANTS
  TypeOK
  UpstreamOrder
  HighestFirst
  Tracked
  AnsweredElsewhere
PROPERTIES
  KeepsContext
  FinalUpstream
\* The proxy is done with the INVITE when no timer is left.
CHECK_DEADLOCK FALSE
