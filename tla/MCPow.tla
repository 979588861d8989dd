-------------------------------- MODULE MCPow --------------------------------
(***************************************************************************)
(* The reference's product with its transcripts, and the scan kernel of the *)
(* GPU, checked in one run.  They are separate programs and share nothing:  *)
(* a behaviour runs one of them, and the other stays in its initial state.  *)
(* The keys are a sample; the matrices hold the ends of their range, and    *)
(* one goes beyond it.                                                      *)
(***************************************************************************)
EXTENDS NoisyGemm, PowScan, Bitwise

CONSTANT Samples  \* the keys of each side

VARIABLE program

powVars == <<program, gemmVars, vars>>

MCXor == [x \in Ranks |-> [y \in Ranks |-> x ^^ y]]

Stream(lines, s) ==
  [bytes |-> [i \in lines |-> [t \in Ranks |-> (s * s + 7 * i * (s + 1) + 3 * t + i * t) % 16]],
   words |-> [k \in Deep |-> (5 * s + 3 * k + s * k) % 2 ^ WordBits]]

MCKeysA == {Stream(Rows, s) : s \in 1 .. Samples}
MCKeysB == {Stream(Cols, s) : s \in Samples .. 2 * Samples}

Matrix(lines, top, m) == [i \in lines |-> [k \in Deep |-> IF (i + k * m) % 3 = 0 THEN Low ELSE top]]

MCDataA == {Matrix(Rows, High, 1), Matrix(Rows, 1, 2), Matrix(Rows, High + 1, 1),
            [Matrix(Rows, High, 1) EXCEPT ![0][0] = Low - 1]}
MCDataB == {Matrix(Cols, High, 2), Matrix(Cols, Low, 1)}

PowInit ==
  \/ program = "reference" /\ GemmInit /\ Init /\ wins = {}
  \/ program = "kernel" /\ Init /\ GemmInit /\ a = Matrix(Rows, 1, 2) /\ b = Matrix(Cols, Low, 1)

PowNext ==
  \/ program = "reference" /\ GemmNext /\ UNCHANGED <<program, vars>>
  \/ program = "kernel" /\ Next /\ UNCHANGED <<program, gemmVars>>

PowSpec == PowInit /\ [][PowNext]_powVars
=============================================================================
