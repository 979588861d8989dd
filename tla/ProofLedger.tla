----------------------------- MODULE ProofLedger -----------------------------
(***************************************************************************)
(* What the mining loop's counters promise a reader of its status line:     *)
(* proofs are handled one at a time, and each one found ends up in exactly  *)
(* one of stale, accepted and rejected before the next one is looked for.   *)
(* A loop that dies leaves at most its last proof without a verdict.        *)
(***************************************************************************)
EXTENDS Naturals

VARIABLES wins, stale, accepted, rejected

ledger == <<wins, stale, accepted, rejected>>

Judged == stale + accepted + rejected

Init == wins = 0 /\ stale = 0 /\ accepted = 0 /\ rejected = 0

\* A proof is found while none is in hand.
Win ==
  /\ wins = Judged
  /\ wins' = wins + 1
  /\ UNCHANGED <<stale, accepted, rejected>>

\* The proof in hand gets its one verdict.
Drop   == wins = Judged + 1 /\ stale' = stale + 1       /\ UNCHANGED <<wins, accepted, rejected>>
Accept == wins = Judged + 1 /\ accepted' = accepted + 1 /\ UNCHANGED <<wins, stale, rejected>>
Reject == wins = Judged + 1 /\ rejected' = rejected + 1 /\ UNCHANGED <<wins, stale, accepted>>

Next == Win \/ Drop \/ Accept \/ Reject

Spec == Init /\ [][Next]_ledger
=============================================================================
