SPECIFICATION Spec
CONSTANTS
  s1 = s1
  w1 = w1
  w2 = w2
  h1 = h1
  Subs <- MCSubs
  Episodes <- MCEpisodes
  Webhooks <- MCAll
  Workers <- MCOneWorker
  Handlers <- MCOneHandler
INVARIANTS MoneyHasEvidence StatusFollowsProviderTime NotReopenedPastCharge
PROPERTY RecoveryIsFinal
CHECK_DEADLOCK FALSE
