SPECIFICATION FairSpec
CONSTANTS
  Keys = {k1}
  Workers = {w1}
  MaxAttempts = 2
  Cleans = FALSE
  Reruns = {"never"}
  MaxEnqueues = 1
  MaxOutages = 0
  MaxDeaths = 2
PROPERTY EveryJobEnds
