------------------------------ MODULE NoisyGemm ------------------------------
(***************************************************************************)
(* reference/pearl_reference.py: the noise of a pair of keys, the noised    *)
(* product with its transcripts, and the removal of the noise.              *)
(*                                                                          *)
(* B and its noise are kept by columns: b[j][k] is B[k, j], and br[j][s] is *)
(* E_BR[s, j].  A line of a permutation matrix is the places of its +1 and  *)
(* its -1.  A key hashes to any stream of bytes and words.  A transcript    *)
(* word is the sequence of the tiles folded into it, since nothing here     *)
(* depends on the rotation or on the XOR of a tile's elements.              *)
(***************************************************************************)
EXTENDS Integers, Sequences, FiniteSetsExt

CONSTANTS
  M, K, N,            \* the shapes: A is M x K, B is K x N
  Rank,               \* noise_rank, which is the tile of the matmul too
  HashH, HashW,       \* hash_tile_h and hash_tile_w
  Slots,              \* TRANSCRIPT_SIZE_U32
  NoiseRange,         \* noise_range
  Bits, AccBits,      \* the widths of int8 and of int32
  WordBits,           \* the width of a word of the hash
  XorOf,              \* ^ on the indices of a line, as a function
  DataA, DataB,       \* the matrices a caller may pass
  KeysA, KeysB        \* what keys hash to: a byte per dense entry, a word per line

Least(x, y) == IF x <= y THEN x ELSE y

Rows  == 0 .. M - 1
Cols  == 0 .. N - 1
Deep  == 0 .. K - 1
Ranks == 0 .. Rank - 1

Streams(lines) == [bytes : [lines -> [Ranks -> Nat]], words : [Deep -> 0 .. 2 ^ WordBits - 1]]

\* The constructors and generate raise for other shapes and ranges.  A
\* noise_range of 1, whose mask is -1, is left out.
ASSUME ShapeAssumption ==
  /\ {M, K, N, HashH, HashW, Slots, Bits, AccBits, WordBits} \subseteq Nat \ {0}
  /\ {Rank, NoiseRange} \subseteq Nat \ {0, 1} /\ Rank <= Least(M, Least(K, N))
  /\ {2 ^ (Bits - 1), 2 ^ (AccBits - 1), 2 ^ WordBits} \subseteq Nat \ {0}
  /\ 2 ^ Bits = 2 * 2 ^ (Bits - 1) /\ 2 ^ AccBits = 2 * 2 ^ (AccBits - 1)
  /\ NoiseRange <= 2 ^ (Bits - 1)

\* What is used of ^ below a power of two.
ASSUME XorAssumption ==
  \A x, y \in Ranks : XorOf[x][y] \in Ranks /\ (XorOf[x][y] = x => y = 0)

ASSUME InputAssumption ==
  /\ DataA \subseteq [Rows -> [Deep -> Int]] /\ DataB \subseteq [Cols -> [Deep -> Int]]
  /\ KeysA \subseteq Streams(Rows) /\ KeysB \subseteq Streams(Cols)

VARIABLES
  stage,    \* the place in generate and run
  a, b,     \* the matrices passed
  noise,    \* [al, ar, bl, br]: E_AL, E_AR, E_BL, E_BR
  noised,   \* [a, b, aebl, earb]: what noise_A and noise_B return
  at,       \* [i, j, p]: the loop variables of _tiled_matmul
  block,    \* [acc, reduction, words]: a block's accumulators and transcripts
  opened,   \* opened_block
  c         \* C

gemmVars == <<stage, a, b, noise, noised, at, block, opened, c>>

None  == [rows |-> <<>>, cols |-> <<>>, words |-> <<>>]

-----------------------------------------------------------------------------
\* astype to a signed integer of w bits.
Wrap(x, w) == ((x + 2 ^ (w - 1)) % 2 ^ w) - 2 ^ (w - 1)

\* A row by a column, over some of the inner dimension.
Dot(x, y, S) == SumFunction([s \in S |-> x[s] * y[s]])

\* _uniform_matrix: a byte masked and shifted.
RangeSize == NoiseRange \div 2
ZeroPoint == RangeSize \div 2

\* Mutant: the whole range for each of a line's two terms.
UniformWide(byte) == (byte % NoiseRange) - RangeSize

Uniform(byte) == (byte % RangeSize) - ZeroPoint

\* mul_hi_u32.
MulHi(x, y) == (x * y) \div 2 ^ WordBits

\* _permutation_matrix: a word's line, whose second entry is step away.
LineBy(u, step) == [plus |-> u % Rank, minus |-> XorOf[u % Rank][step]]

\* Mutant: the step may be zero.
LineOrNone(u) == LineBy(u, MulHi(Rank, u))

Line(u) == LineBy(u, 1 + MulHi(Rank - 1, u))

\* generate.
Noise(keyA, keyB) ==
  [al |-> [i \in Rows |-> [s \in Ranks |-> Uniform(keyA.bytes[i][s])]],
   ar |-> [k \in Deep |-> Line(keyA.words[k])],
   bl |-> [k \in Deep |-> Line(keyB.words[k])],
   br |-> [j \in Cols |-> [s \in Ranks |-> Uniform(keyB.bytes[j][s])]]]

\* _validate_matrix_range.
Low  == (NoiseRange - 2 ^ Bits) \div 2
High == Low + 2 ^ Bits - NoiseRange - 1

InRange(x) == \A i \in DOMAIN x : \A k \in Deep : x[i][k] \in Low .. High

\* A row of data and its noise: the product of a dense row and a line has one
\* term for the +1 and one for the -1.
AddNoise(x, e, lines) ==
  [k \in Deep |-> Wrap(x[k] + Wrap(e[lines[k].plus] - e[lines[k].minus], Bits), Bits)]

\* A row by the dense form of the lines.
Entry(line, s) == IF s = line.minus THEN -1 ELSE IF s = line.plus THEN 1 ELSE 0
Project(x, lines) ==
  [s \in Ranks |-> Wrap(Dot(x, [k \in Deep |-> Entry(lines[k], s)], Deep), AccBits)]

\* noise_A; noise_B projects the columns rest.
NoiseA == [a |-> [i \in Rows |-> AddNoise(a[i], noise.al[i], noise.ar)],
           aebl |-> [i \in Rows |-> Project(a[i], noise.bl)]]
NoiseBFrom(rest, bn) == [b |-> bn, earb |-> [j \in Cols |-> Project(rest[j], noise.ar)]]
ColumnsNoised == [j \in Cols |-> AddNoise(b[j], noise.br[j], noise.bl)]

\* Mutant: B is projected before its noise is added.
NoiseBEarly == NoiseBFrom(b, ColumnsNoised)

NoiseB == NoiseBFrom(ColumnsNoised, ColumnsNoised)

-----------------------------------------------------------------------------
\* The hash tiles that fit in a block of h x w.
TilesOf(h, w) == (0 .. (h \div HashH) - 1) \X (0 .. (w \div HashW) - 1)
Height(i) == Least(Rank, M - i)
Width(j)  == Least(Rank, N - j)
Tiles     == TilesOf(Height(at.i), Width(at.j))

NewBlock(i, j) ==
  [acc |-> [x \in (0 .. Height(i) - 1) \X (0 .. Width(j) - 1) |-> 0],
   reduction |-> 0,
   words |-> [t \in TilesOf(Height(i), Width(j)) |-> [s \in 0 .. Slots - 1 |-> <<>>]]]

\* inner_hash_tensor: the part of the accumulators that is hashed for a tile.
Tile(acc, t) ==
  [x \in 0 .. HashH - 1 |-> [y \in 0 .. HashW - 1 |-> acc[<<t[1] * HashH + x, t[2] * HashW + y>>]]]

\* One chunk of a block's product, and its folding into slot of every transcript.
Multiplied ==
  LET chunk == at.p .. Least(at.p + Rank, K) - 1
  IN  [xy \in DOMAIN block.acc |->
         Wrap(block.acc[xy] + Dot(noised.a[at.i + xy[1]], noised.b[at.j + xy[2]], chunk), AccBits)]
FoldedInto(slot) ==
  [acc |-> Multiplied, reduction |-> block.reduction + 1,
   words |-> [t \in Tiles |-> [block.words[t] EXCEPT ![slot] = Append(@, Tile(Multiplied, t))]]]

\* Mutant: the partial chunk at the end is folded too.
FoldAll == FoldedInto(block.reduction % Slots)

Fold == IF at.p + Rank <= K /\ Tiles # {}
        THEN FoldedInto(block.reduction % Slots)
        ELSE [acc |-> Multiplied, reduction |-> block.reduction, words |-> block.words]

\* OpenedBlock of the tile t of the block whose columns start at j.
Open(t) ==
  [rows |-> [x \in 0 .. HashH - 1 |-> at.i + t[1] * HashH + x],
   cols |-> [y \in 0 .. HashW - 1 |-> at.j + t[2] * HashW + y],
   words |-> block.words[t]]

-----------------------------------------------------------------------------
GemmInit ==
  /\ stage = "generate"
  /\ a \in DataA /\ b \in DataB
  /\ noise = <<>> /\ noised = <<>> /\ c = <<>>
  /\ at = [i |-> 0, j |-> 0, p |-> 0]
  /\ block = NewBlock(0, 0)
  /\ opened = None

Generate(keyA, keyB) ==
  /\ stage = "generate"
  /\ noise' = Noise(keyA, keyB)
  /\ stage' = "run"
  /\ UNCHANGED <<a, b, noised, at, block, opened, c>>

\* run raises ValueError: the data leave no room for the noise.
Refuse ==
  /\ stage = "run" /\ ~(InRange(a) /\ InRange(b))
  /\ stage' = "raised"
  /\ UNCHANGED <<a, b, noise, noised, at, block, opened, c>>

AddNoises ==
  /\ stage = "run" /\ InRange(a) /\ InRange(b)
  /\ noised' = [a |-> NoiseA.a, aebl |-> NoiseA.aebl, b |-> NoiseB.b, earb |-> NoiseB.earb]
  /\ c' = [i \in Rows |-> [j \in Cols |-> 0]]
  /\ stage' = "tiles"
  /\ UNCHANGED <<a, b, noise, at, block, opened>>

Chunk ==
  /\ stage = "tiles" /\ at.p < K
  /\ block' = Fold
  /\ at' = [at EXCEPT !.p = @ + Rank]
  /\ UNCHANGED <<stage, a, b, noise, noised, opened, c>>

\* The end of a block: its transcripts, of which those of lucky meet the target,
\* are looked through unless one was found; then C gets the block.
EndBlock(lucky) ==
  /\ stage = "tiles" /\ at.p >= K
  /\ opened' = IF opened = None /\ block.reduction > 0 /\ lucky # {}
               THEN Open(CHOOSE t \in lucky : \A u \in lucky :
                           t[1] < u[1] \/ (t[1] = u[1] /\ t[2] <= u[2]))
               ELSE opened
  /\ c' = [i \in Rows |-> [j \in Cols |->
             IF <<i - at.i, j - at.j>> \in DOMAIN block.acc
             THEN block.acc[<<i - at.i, j - at.j>>] ELSE c[i][j]]]
  /\ at' = IF at.j + Rank < N THEN [at EXCEPT !.j = @ + Rank, !.p = 0]
                              ELSE [i |-> at.i + Rank, j |-> 0, p |-> 0]
  /\ block' = NewBlock(at'.i, at'.j)
  /\ stage' = IF at'.i < M THEN "tiles" ELSE "denoise"
  /\ UNCHANGED <<a, b, noise, noised>>

\* gemm, after _tiled_matmul: both shares of the noise are taken off.
Denoise ==
  /\ stage = "denoise"
  /\ c' = [i \in Rows |-> [j \in Cols |->
             Wrap(c[i][j] - Wrap(Dot(noised.aebl[i], noise.br[j], Ranks), AccBits)
                          - Wrap(Dot(noise.al[i], noised.earb[j], Ranks), AccBits), AccBits)]]
  /\ stage' = "done"
  /\ UNCHANGED <<a, b, noise, noised, at, block, opened>>

Returned == stage \in {"done", "raised"} /\ UNCHANGED gemmVars

GemmNext ==
  \/ \E keyA \in KeysA, keyB \in KeysB : Generate(keyA, keyB)
  \/ Refuse \/ AddNoises \/ Chunk
  \/ \E lucky \in SUBSET Tiles : EndBlock(lucky)
  \/ Denoise \/ Returned

GemmSpec == GemmInit /\ [][GemmNext]_gemmVars

-----------------------------------------------------------------------------
Uniforms == -ZeroPoint .. RangeSize - 1 - ZeroPoint
SignedLines    == [plus : Ranks, minus : Ranks]

GemmTypeOK ==
  /\ stage \in {"generate", "run", "tiles", "denoise", "done", "raised"}
  /\ a \in DataA /\ b \in DataB
  /\ stage # "generate" =>
       noise \in [al : [Rows -> [Ranks -> Uniforms]], ar : [Deep -> SignedLines],
                  bl : [Deep -> SignedLines], br : [Cols -> [Ranks -> Uniforms]]]
  /\ at \in [i : Nat, j : Nat, p : Nat]
  /\ block.reduction \in Nat

\* _permutation_matrix: every line has one +1 and one -1, at two places, whatever
\* the word it is made of.
LinesAreSigned ==
  stage # "generate" => \A k \in Deep : /\ noise.ar[k].plus # noise.ar[k].minus
                                        /\ noise.bl[k].plus # noise.bl[k].minus

\* noise_A and noise_B: neither the noise nor the noised data leave int8, whatever
\* the keys; the casts lose nothing.
NoiseFits ==
  stage \in {"tiles", "denoise", "done"} =>
    /\ \A i \in Rows, k \in Deep :
         noised.a[i][k] = a[i][k] + (noise.al[i][noise.ar[k].plus] - noise.al[i][noise.ar[k].minus])
    /\ \A j \in Cols, k \in Deep :
         noised.b[j][k] = b[j][k] + (noise.br[j][noise.bl[k].plus] - noise.br[j][noise.bl[k].minus])

\* run: C is exactly A @ B (as int32), though the accumulators of the noised
\* product may wrap on the way.
ProductIsExact ==
  stage = "done" => \A i \in Rows, j \in Cols : c[i][j] = Wrap(Dot(a[i], b[j], Deep), AccBits)

\* OpenedBlock: from the opened rows and columns of the noised matrices alone, a
\* verifier gets the transcript that met the target: the products of the first 1,
\* 2, ... full chunks, dealt out to the slots in turn.
OpenedReplays ==
  LET After(chunks) ==
        [x \in 0 .. HashH - 1 |-> [y \in 0 .. HashW - 1 |->
           Wrap(Dot(noised.a[opened.rows[x]], noised.b[opened.cols[y]], 0 .. chunks * Rank - 1), AccBits)]]
  IN  opened # None =>
        \A s \in 0 .. Slots - 1 :
          opened.words[s] = [q \in 1 .. ((K \div Rank) + Slots - 1 - s) \div Slots
                               |-> After((q - 1) * Slots + s + 1)]
=============================================================================
