------------------------------- MODULE PowScan -------------------------------
(***************************************************************************)
(* The proof-of-work scan of cuda/src/mine_sm86.cu: one thread per tile and *)
(* attempt hashes its transcript and, if the digest meets the target, takes *)
(* the minimum of a shared word with its own index; then one thread turns   *)
(* the minimum into an attempt and a tile.  With Natt = 1 these are         *)
(* k_pow_scan_find and _emit, otherwise their _batched forms.               *)
(*                                                                          *)
(* What it must report is what the sequential scan of the reference would:  *)
(* the first tile, in the order of its nested loops, that meets the target. *)
(* Hashing and comparing are abstracted to the set of tiles that do.        *)
(***************************************************************************)
EXTENDS Integers

CONSTANTS
  Natt,    \* attempts
  TI, TJ,  \* output tiles of the matrix, r x r each: rows and columns
  SH, SW   \* hash tiles of an output tile: rows and columns

ASSUME ScanAssumption == {Natt, TI, TJ, SH, SW} \subseteq Nat \ {0}

Per   == TI * TJ * SH * SW
Total == Natt * Per
Gids  == 0 .. Total - 1

VARIABLES
  wins,    \* the transcripts that meet the target: <<attempt, tile row, tile column>>
  phase,   \* "find", then "done"
  todo,    \* the threads of the find kernel that have not run
  best,    \* the shared word; Total stands for the 0x7f7f7f7f it starts with
  result   \* what emit reports

vars == <<wins, phase, todo, best, result>>

Transcripts == (0 .. Natt - 1) \X (0 .. TI * SH - 1) \X (0 .. TJ * SW - 1)

NotFound == <<-1, -1, -1>>

TypeOK ==
  /\ wins \subseteq Transcripts
  /\ phase \in {"find", "done"}
  /\ todo \subseteq Gids
  /\ best \in 0 .. Total
  /\ result \in Transcripts \cup {NotFound}

Init ==
  /\ wins \in SUBSET Transcripts
  /\ phase = "find"
  /\ todo = Gids
  /\ best = Total
  /\ result = NotFound

\* pow_scan_index_to_tile: the tile of an index, the last loop variable first.
IndexToTile(idx) ==
  LET line  == idx \div SW
      block == line \div SH
      ti    == block \div TJ
      tj    == block % TJ
  IN  <<ti * SH + (line % SH), tj * SW + (idx % SW)>>

\* The transcript that thread gid hashes.
Transcript(gid) ==
  LET tile == IndexToTile(gid % Per)
  IN  <<gid \div Per, tile[1], tile[2]>>

\* A thread of the find kernel, in any order; write is what its atomic leaves.
Thread(gid, write) ==
  /\ phase = "find"
  /\ gid \in todo
  /\ todo' = todo \ {gid}
  /\ best' = IF Transcript(gid) \in wins THEN write ELSE best
  /\ UNCHANGED <<wins, phase, result>>

\* Mutant: the last winner's write stays.
FindExchanges(gid) == Thread(gid, gid)

Find(gid) == Thread(gid, IF gid < best THEN gid ELSE best)

\* The emit kernel starts when the find kernel is over.
Emit ==
  /\ phase = "find"
  /\ todo = {}
  /\ result' = IF best < Total THEN Transcript(best) ELSE NotFound
  /\ phase' = "done"
  /\ UNCHANGED <<wins, todo, best>>

Done == phase = "done" /\ UNCHANGED vars

Next == (\E gid \in Gids : Find(gid)) \/ Emit \/ Done

Spec == Init /\ [][Next]_vars

-----------------------------------------------------------------------------
(* The reference scan (_tiled_matmul of reference/pearl_reference.py, and   *)
(* k_pow_scan of naive_sm86.cu): loops over ti, tj, hi and wi, which stops  *)
(* at the first winner; attempts are tried in turn.                         *)

Positions == [att : 0 .. Natt - 1, ti : 0 .. TI - 1, tj : 0 .. TJ - 1,
              hi : 0 .. SH - 1, wi : 0 .. SW - 1]

\* The order in which the loops reach two positions.
Earlier(p, q) ==
  \/ p.att < q.att
  \/ p.att = q.att /\ p.ti < q.ti
  \/ p.att = q.att /\ p.ti = q.ti /\ p.tj < q.tj
  \/ p.att = q.att /\ p.ti = q.ti /\ p.tj = q.tj /\ p.hi < q.hi
  \/ p.att = q.att /\ p.ti = q.ti /\ p.tj = q.tj /\ p.hi = q.hi /\ p.wi < q.wi

At(p) == <<p.att, p.ti * SH + p.hi, p.tj * SW + p.wi>>

\* What the reference reports: the first position whose transcript wins.
Reference(r) ==
  \/ r = NotFound /\ \A p \in Positions : At(p) \notin wins
  \/ \E p \in Positions :
       /\ r = At(p)
       /\ At(p) \in wins
       /\ \A q \in Positions : Earlier(q, p) => At(q) \notin wins

-----------------------------------------------------------------------------

\* Whatever the order of the threads, the scan reports the attempt and the tile
\* that the reference's sequential loops stop at.
ResultIsReference == phase = "done" => Reference(result)

\* The inductive invariant: the word is the least winner among the threads that
\* have run, or still the sentinel.
LeastSoFar ==
  /\ best < Total => Transcript(best) \in wins
  /\ \A gid \in Gids \ todo : Transcript(gid) \in wins => best <= gid

Emitted ==
  phase = "done" => todo = {} /\ result = IF best < Total THEN Transcript(best) ELSE NotFound

IInv == TypeOK /\ LeastSoFar /\ Emitted
=============================================================================
