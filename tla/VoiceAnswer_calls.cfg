SPECIFICATION FairSpec
CONSTANTS
  v1 = v1
  v2 = v2
  p1 = p1
  c1 = c1
  c2 = c2
  k1 = k1
  k2 = k2
  r1 = r1
  r2 = r2
  Voices <- MCOneVoice
  Planned <- MCPlanned
  Cases <- MCCases
  CaseOf <- MCCaseOf
  Runs = {r1}
  RunOf <- MCRunOf
  Linkable = {r1}
  Calls <- MCOneCall
  ActionOf <- MCOneActionOf
  Utterances <- MCUtterances
  Requests = {q1, q2}
  MaxCrashes = 1
  MaxFailures = 1
INVARIANTS LinkFollowsPromise OverlapBoundsLinks OverlapBoundsAnswers PromiseIsCarried PromiseHasOneLink
PROPERTY PromiseIsKept
CHECK_DEADLOCK FALSE
