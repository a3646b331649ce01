SPECIFICATION FairSpec
CONSTANTS
  Keys = {k1, k2}
  Workers = {w1}
  MaxAttempts = 2
  Cleans = TRUE
  Reruns = {"never", "succeeded", "errored", "finished"}
  MaxEnqueues = 3
  MaxOutages = 1
  MaxDeaths = 2
PROPERTIES EveryJobEnds SucceededStays
