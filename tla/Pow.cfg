\* The reference: int8 is four bits here and int32 eight, so that the accumulators wrap.  Of B's
\* columns and A's rows the last are a block too small for a hash tile; of the
\* inner dimension the last two are no full chunk; three full chunks go over the
\* two slots.
\* The scan: two attempts of two columns of output tiles with two hash tiles each, so
\* that the loops' order differs from the order of rows.  Every set of winners, every
\* order of the threads.
CONSTANTS
  M = 5
  K = 14
  N = 8
  Rank = 4
  HashH = 2
  HashW = 2
  Slots = 2
  NoiseRange = 8
  Bits = 4
  AccBits = 8
  WordBits = 4
  Samples = 8
  XorOf <- MCXor
  DataA <- MCDataA
  DataB <- MCDataB
  KeysA <- MCKeysA
  KeysB <- MCKeysB
  Natt = 2
  TI = 1
  TJ = 2
  SH = 2
  SW = 1
SPECIFICATION PowSpec
INVARIANTS LinesAreSigned NoiseFits ProductIsExact OpenedReplays ResultIsReference
