---------------------------- MODULE MiningContext ----------------------------
(***************************************************************************)
(* What a caller of the persistent GPU context may rely on (prl_mine_ctx_*  *)
(* of cuda/src/mine_sm86.cu, through miner/cuda_mine.py): the context keeps *)
(* the matrices A and B it was given last, and every call that succeeds     *)
(* reports the first winner among the nonces it was given, on those         *)
(* matrices and for its own target, whatever calls came before it.          *)
(*                                                                          *)
(* A nonce stands for the two keys derived from it, a header for the        *)
(* matrices derived from it.  The one-shot calls of the same library bring  *)
(* all they use and leave the context alone.                                *)
(***************************************************************************)
EXTENDS Integers, Sequences

CONSTANTS
  Headers, None,
  Nonces,    \* nonces a caller may try
  Targets,   \* proof-of-work targets
  Winning,   \* the <<header, nonce, target>> that win
  MaxCount   \* bound: nonces given to a call

Batches == UNION {[1 .. n -> Nonces] : n \in 1 .. MaxCount}

VARIABLES
  inputs,  \* the header whose matrices are on the device; None when not known
  reply    \* what the latest call returned

context == <<inputs, reply>>

Failed   == [rc |-> 4]
Ready    == [rc |-> 0]
NotFound == [rc |-> 0, found |-> FALSE]

\* What prl_noisegen returns: the factors of A's noise from one key, of B's from the other.
Noise(keyA, keyB) == [rc |-> 0, noise |-> <<keyA, keyA, keyB, keyB>>]

Found(i, h, x) == [rc |-> 0, found |-> TRUE, attempt |-> i, tile |-> <<h, x>>]

\* The first of the nonces that wins.
Reference(h, nonces, t) ==
  LET winners == {i \in 1 .. Len(nonces) : <<h, nonces[i], t>> \in Winning}
  IN  IF winners = {} THEN NotFound
      ELSE LET first == CHOOSE i \in winners : \A j \in winners : i <= j
           IN  Found(first, h, nonces[first])

ContextInit == inputs = None /\ reply = Ready

SetInputs(h) == inputs' = h /\ reply' = Ready

\* A and B come with the call.
RunWith(h, nonces, t) == inputs' = h /\ reply' = Reference(h, nonces, t)

\* A and B are those on the device; without any, nothing is promised.
RunKept(nonces, t) ==
  /\ UNCHANGED inputs
  /\ inputs # None => reply' = Reference(inputs, nonces, t)

\* A one-shot search: A, B and the nonces come with the call and go with it.
RunApart(h, nonces, t) == UNCHANGED inputs /\ reply' = Reference(h, nonces, t)

\* One-shot noise.
NoiseApart(keyA, keyB) == UNCHANGED inputs /\ reply' = Noise(keyA, keyB)

\* A call that fails may have replaced A and B, or some of them.
Fails == inputs' \in {inputs, None} /\ reply' = Failed

ContextNext ==
  \/ \E h \in Headers : SetInputs(h)
  \/ \E nonces \in Batches, t \in Targets :
       \/ \E h \in Headers : RunWith(h, nonces, t)
       \/ \E h \in Headers : RunApart(h, nonces, t)
       \/ RunKept(nonces, t)
  \/ \E x, y \in Nonces : NoiseApart(x, y)
  \/ Fails

Spec == ContextInit /\ [][ContextNext]_context
=============================================================================
