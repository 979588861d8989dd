---------------------------- MODULE MCMineBackend ----------------------------
(* Two winners in one batch of the easiest target, at its start, its middle   *)
(* and its end, and others for the second target.                             *)
EXTENDS MineBackend

CONSTANTS h1, h2, zero, low

MCWinning ==
  {<<h1, n, zero>> : n \in {1, 2, 5}} \cup {<<h2, n, zero>> : n \in {0, 3}}
  \cup {<<h1, 2, low>>, <<h2, 1, low>>}
=============================================================================
