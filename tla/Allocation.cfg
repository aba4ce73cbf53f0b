SPECIFICATION BenchmarkSpec
CONSTANTS
  MaxContacts24h = 2
  MaxContacts7d = 2
  MaxInterventions = 1
  MinEirv = 100
  QuietStart = 21
  QuietEnd = 9
  GraceHours = 12
  RequireApproval = {"VOICE_AGENT"}
  Cases <- MCCases
  Portfolios <- MCPortfolios
  Budgets <- MCBudgets
  Limits <- MCLimits
  Hours <- MCHours
  Opinions <- MCOpinions
  Lanes <- MCLanes
  Answers <- MCAnswers
  Populations <- MCPopulations
INVARIANTS WithinBudgets EveryCaseIsServed DisplacedOnlyByBetter ModelsAuthoriseNothing NativeIsAFloor
CHECK_DEADLOCK FALSE
