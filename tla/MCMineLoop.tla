------------------------------ MODULE MCMineLoop ------------------------------
(* Instances of MineLoop for TLC, and what the repository says of the loop    *)
(* that the code does not do.                                                 *)
EXTENDS MineLoop

CONSTANT
  ExitAfterInvalid  \* SafetyMonitor.exit_after_invalid

Defaults == [temp_c |-> 78, vram_temp_c |-> 96]

-----------------------------------------------------------------------------
(* Statements of the repository, each checked by a run of its own. *)

\* docs/security.md:29: after exit_after_invalid_proofs rejected proofs the
\* miner exits rather than asking for more work.
CircuitBreaker == metrics.rejected >= ExitAfterInvalid => pc # "search"

\* miner/runtime.py:187: a network failure of a submit is a rejected proof, and
\* the loop goes on; it does not die later of that call's late answer.
SubmitFailureSurvived == cause # "mismatch"
=============================================================================
