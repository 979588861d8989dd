\* Batches of one and two nonces, so that the key buffers grow twice, may fail to
\* grow from nothing and from one, and a graph is met again by a larger and by a
\* smaller batch.  With two addresses a buffer that grows gets its own again or that
\* of the other one, whose keys a graph kept too long would then read.
CONSTANTS
  h1 = h1  h2 = h2  x1 = x1  x2 = x2  easy = easy  hard = hard
  Headers = {h1, h2}
  None = None
  Nonces = {x1, x2}
  Targets = {easy, hard}
  Winning <- MCWinning
  MaxCount = 2
  Places = {p1, p2}
SYMMETRY PlacesAlike
SPECIFICATION Spec
INVARIANTS TypeOK KeyBuffersAreHeld
PROPERTY CallsAreFresh
