\* The loop against a gateway that answers late, refuses, pauses, changes its
\* header at any moment or goes away.
SPECIFICATION FairSpec
CONSTANTS
  None = None
  Headers = {h1, h2}
  StaleCancel = TRUE
  Batches = {1, 2}
  Finds = {TRUE, FALSE}
  Macs = 3
  Temps = {80}
  Limit <- Defaults
  Reported = {"temp_c"}
  MaxCalls = 5
  ExitAfterInvalid = 2
INVARIANTS NoNonceSkipped AcceptedWereSeen
PROPERTIES ProofsAccountedFor DropsAreRaces DeadlineEndsLoop
