SPECIFICATION ScenarioSpec
CONSTANTS
  MaxContacts24h = 1
  MaxContacts7d = 2
  MaxInterventions = 1
  MinEirv = 100
  QuietStart = 21
  QuietEnd = 9
  GraceHours = 12
  LastHour = 26
  Eirvs <- MCEirvs
  Promises <- MCPromises
  RequireApproval <- ContactTypes
INVARIANT DeferIffTimeHelps
PROPERTY RefusalOutlivesFatigue
CHECK_DEADLOCK FALSE
