SPECIFICATION Spec
CONSTANTS
  Keys = {k1, k2}
  Workers = {w1, w2}
  MaxAttempts = 2
  Cleans = TRUE
  Reruns = {"succeeded", "errored"}
  MaxEnqueues = 2
  MaxOutages = 1
  MaxDeaths = 1
INVARIANTS TypeOK DoneIsFresh FailedAfterLastClaim NeverStranded
SYMMETRY Symmetry
