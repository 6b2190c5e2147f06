\* One issuance, two logins to two accounts and two scans of two clients that
\* may leave, over a window that passes.
SPECIFICATION Spec
CONSTANTS
  IssueCalls = {c1}
  LoginCalls = {c2, c3}
  ScanCalls = {c4, c5}
  Clients = {ip1, ip2}
  Accounts = {admin, other}
  GateLimit <- OneGateLimit
  IssueOptions <- Options
  LoginIpOptions <- MoreOptions
  LoginAccountOptions <- Options
  ScanOptions <- Options
  Limit = 1
  MaxTime = 2
  Inspected = 2
  Second = 1
SYMMETRY Symmetry
INVARIANTS
  GateIsExact
  ChecksBounded
\* Every request is answered once: a finite set of requests comes to an end.
CHECK_DEADLOCK FALSE
