\* Up to three messages of the pool, in any phase: a reply can come one or several
\* phases late, and a job and a gate can meet in one collection.  Of AlphaPool four:
\* a challenge, the reply to its answer, an authorize and a job.
CONSTANTS
  MaxSaid = 3
  MaxHeard = 4
SPECIFICATION ProbesSpec
INVARIANTS ProbesTypeOK OpenMeansJob ReadyIsGranted
PROPERTIES NothingAfterGate TheProbeEnds
