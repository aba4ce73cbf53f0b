SPECIFICATION Spec
CONSTANTS
  e1 = e1
  e2 = e2
  MaxContacts24h = 2
  MaxContacts7d = 3
  MaxInterventions = 2
  MinEirv = 100
  QuietStart = 21
  QuietEnd = 9
  GraceHours = 12
  RequireApproval = {"VOICE_AGENT"}
  Execs <- MCExecs
  Orders <- MCOrders
  Edited <- MCEdited
  Messaging = "twilio"
  MaxLost = 1
SYMMETRY SymExecs
INVARIANTS NoFanOut OutcomeIsTrue MessagesAreGuarded
CHECK_DEADLOCK FALSE
