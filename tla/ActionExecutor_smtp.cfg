SPECIFICATION Spec
CONSTANTS
  a1 = a1
  a2 = a2
  a3 = a3
  c1 = c1
  c2 = c2
  k1 = k1
  j1 = j1
  j2 = j2
  j3 = j3
  r1 = r1
  r2 = r2
  q1 = q1
  q2 = q2
  MaxContacts24h = 2
  MaxContacts7d = 3
  MaxInterventions = 2
  MinEirv = 100
  QuietStart = 21
  QuietEnd = 9
  GraceHours = 12
  Customers <- MCCustomers
  CaseCustomer <- MCCustomer
  RequireApproval <- MCNone
  Actions <- MCTwo
  Cases <- TwoCases
  Kind <- MCNudges
  ActionCase <- MCNudgeCase
  Automated <- MCNone
  Runs <- OneRun
  RunOf <- MCOneRunOf
  Requests <- OneRequest
  Jobs <- TwoJobs
  Parallel = 1
  Messaging = "smtp"
  Unnamed = FALSE
  Hours <- Noon
  MaxRetries = 1
  MaxFaults = 0
INVARIANT OneContactUnlessReopened
CHECK_DEADLOCK FALSE
