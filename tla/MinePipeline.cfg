\* k_mine2: three threads, five steps: two chunks and a rest, each stage filled
\* more than twice.
CONSTANTS
  Threads = {t1, t2, t3}
  Steps = 5
  Chunk = 2
  Transposes = TRUE
SPECIFICATION Spec
INVARIANTS NoRace MultipliesItsStep TranscriptIsReference
PROPERTY BlockEnds
