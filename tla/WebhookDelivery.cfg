SPECIFICATION FairSpec
CONSTANTS
  e1 = e1
  e2 = e2
  w1 = w1
  w2 = w2
  b1 = b1
  b2 = b2
  Events <- MCEvents
  Failing <- MCFailing
  LinkEvents <- MCNone
  Workers <- MCWorkers
  Beats <- MCBeats
  Batch = 1
  MaxRetries = 1
  MaxFaults = 2
INVARIANTS NoWorkLost DispatchedOnce OverlapBoundsEffects
PROPERTIES ImplementsContract EventuallyProcessed EventuallyQuiet
