\* The self-test: rotate_after = 4 as in cmd_self_test, after one paused answer.
\* The search for one proof: three batches of three attempts, every choice of which of
\* them prove and of what the GPU says, and a tip that moves once.
SPECIFICATION SearchSpec
CONSTANTS
  None = None
  Headers = {1, 2, 3}
  StaleCancel = TRUE
  Batches = {1}
  Finds = {TRUE}
  Macs = 3
  Temps = {60}
  Limit <- Defaults
  Reported = {}
  MaxCalls = 24
  RotateAfter = 4
  PausedFirst = 1
  Natt = 3
  MaxBatches = 3
  MaxTips = 1
INVARIANTS SearchTypeOK ChecksPass CountersAgree VerdictIsTrue
