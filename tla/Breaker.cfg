\* Rejected proofs and the invalid-proof circuit breaker.
SPECIFICATION Spec
CONSTANTS
  None = None
  Headers = {h1, h2}
  StaleCancel = TRUE
  Batches = {1}
  Finds = {TRUE, FALSE}
  Macs = 3
  Temps = {60}
  Limit <- Defaults
  Reported = {"temp_c"}
  MaxCalls = 7
  ExitAfterInvalid = 2
INVARIANT CircuitBreaker
