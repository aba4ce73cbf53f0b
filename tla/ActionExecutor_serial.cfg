SPECIFICATION FairSpec
CONSTANTS
  a1 = a1
  a2 = a2
  a3 = a3
  c1 = c1
  c2 = c2
  k1 = k1
  j1 = j1
  j2 = j2
  j3 = j3
  r1 = r1
  r2 = r2
  q1 = q1
  q2 = q2
  MaxContacts24h = 2
  MaxContacts7d = 3
  MaxInterventions = 2
  MinEirv = 100
  QuietStart = 21
  QuietEnd = 9
  GraceHours = 12
  Customers <- MCCustomers
  CaseCustomer <- MCCustomer
  RequireApproval <- MCNone
  Actions <- MCContacts
  Cases <- TwoCases
  Kind <- MCContactKind
  ActionCase <- MCContactCase
  Automated <- MCAutomatedCall
  Runs <- OneRun
  RunOf <- MCOneRunOf
  Requests <- OneRequest
  Jobs <- ThreeJobs
  Parallel = 1
  Messaging = "twilio"
  Unnamed = FALSE
  Hours <- Noon
  MaxRetries = 1
  MaxFaults = 1
INVARIANTS ContactsAreCounted CapsHold OneContactUnlessReopened ScheduledIsCarried
PROPERTY ScheduledIsSettled
CHECK_DEADLOCK FALSE
