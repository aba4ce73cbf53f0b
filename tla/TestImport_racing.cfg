SPECIFICATION ImportSpec
CONSTANTS
  s1 = s1
  w1 = w1
  h1 = h1
  r1 = r1
  r2 = r2
  p1 = p1
  Subs <- MCSubs
  Episodes <- MCEpisodes
  Webhooks <- MCWebhooks
  Workers <- MCOneWorker
  Handlers <- MCNoHandler
  Payments <- MCPayments
  Requests <- MCTwoRequests
  Batches <- MCBatches
INVARIANT RepliedIsImported
PROPERTY ImportedOnce
SYMMETRY Symmetry
CHECK_DEADLOCK FALSE
