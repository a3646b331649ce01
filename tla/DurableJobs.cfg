SPECIFICATION FairSpec
CONSTANTS
  Keys = {k1}
  Workers = {w1, w2}
  MaxAttempts = 2
  Cleans = TRUE
  Reruns = {"never", "succeeded", "errored", "finished"}
  MaxEnqueues = 3
  MaxOutages = 1
  MaxDeaths = 2
INVARIANTS TypeOK DoneIsFresh FailedInTurn
PROPERTIES EveryJobEnds
