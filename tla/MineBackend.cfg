\* Batches of three that overlap two winners, two headers and two targets.
CONSTANTS
  h1 = h1  h2 = h2  zero = zero  low = low
  Headers = {h1, h2}
  None = None
  Targets = {zero, low}
  ZeroTarget = zero
  Winning <- MCWinning
  BatchSize = 3
  MaxAttempt = 3
SPECIFICATION Spec
INVARIANTS RightMatrices NoWinLost
