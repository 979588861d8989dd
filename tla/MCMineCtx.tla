------------------------------ MODULE MCMineCtx ------------------------------
(* Two headers and two nonces: the second nonce wins on one header, the first *)
(* on both for the easy target.  Addresses are interchangeable.               *)
EXTENDS MineCtx, TLC

CONSTANTS h1, h2, x1, x2, easy, hard

MCWinning == {<<h1, x1, easy>>, <<h2, x1, easy>>, <<h1, x2, easy>>, <<h2, x2, hard>>}

PlacesAlike == Permutations(Places)
=============================================================================
