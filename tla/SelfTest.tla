------------------------------- MODULE SelfTest -------------------------------
(***************************************************************************)
(* The self-test (cmd_self_test of miner/prl3090_miner.py, and the test     *)
(* test_full_mine_loop_submits_and_handles_staleness): the mining loop over *)
(* the in-process stand-in for the gateway, which answers "paused" to its   *)
(* first paused_first requests and then changes its header on every         *)
(* rotate_after-th one, re-confirmations included.  The target is the       *)
(* easiest, so every search of the CPU backend finds.                       *)
(***************************************************************************)
EXTENDS MineLoop

CONSTANTS RotateAfter, PausedFirst

ASSUME MockAssumption ==
  /\ RotateAfter \in Nat
  /\ PausedFirst \in Nat
  /\ IsFiniteSet(Headers) /\ Headers = 1..Cardinality(Headers)  \* the headers of successive epochs, in a ring

VARIABLE calls  \* MockGateway._calls: getMiningInfo requests so far

mockVars == <<vars, calls>>

MockTypeOK == TypeOK /\ calls \in Nat

MockInit == Init /\ calls = 0

\* The 80-byte header of an epoch: successive epochs have different headers.
Rotate(h) == (h % Cardinality(Headers)) + 1

\* _next_job: count the request, and be paused, or turn the epoch and answer
\* with the header that is current after that.
NextJob ==
  /\ calls' = calls + 1
  /\ IF calls' <= PausedFirst
     THEN AnswerNoJob("paused")
     ELSE LET turn   == RotateAfter # 0 /\ (calls' - PausedFirst) % RotateAfter = 0
              header == IF turn THEN Rotate(gwHeader) ELSE gwHeader
          IN  /\ Asked("getMiningInfo")
              /\ Reply("job", header)
              /\ gwHeader' = header
              /\ served' = header
              /\ UNCHANGED seen

\* The stand-in runs in this process and answers at once: no call times out.
MockNext ==
  \/ (Finish \/ Poll \/ GotJob \/ GotPaused \/ CheckThermal) /\ UNCHANGED calls
  \/ (SearchHit \/ Confirm \/ Confirmed \/ StaleDrop \/ Submit \/ Acked) /\ UNCHANGED calls
  \/ NextJob /\ UNCHANGED loop
  \/ RecordSubmit /\ UNCHANGED <<loop, calls>>
  \/ Expire /\ UNCHANGED calls
  \/ Ended /\ UNCHANGED calls

MockSpec == MockInit /\ [][MockNext]_mockVars

-----------------------------------------------------------------------------

\* What cmd_self_test asks of the counters at the end, provided the duration
\* gave the loop time for two rotations: a job switch was noticed, a proof was
\* submitted, and the gateway kept one (prl3090_miner.py:115-121).
ChecksPass ==
  pc = "done" /\ calls >= PausedFirst + 2 * RotateAfter + 1 =>
    /\ metrics.attempts > 0
    /\ metrics.job_switches >= 2
    /\ metrics.submitted >= 1
    /\ seen.kept >= 1

\* Nothing is dropped by the stand-in: with one miner its header turns only on
\* the miner's own requests, so what the re-confirmation lets through is kept,
\* and the miner's counters agree with the gateway's when no call is open.
CountersAgree ==
  pc \in {"poll", "done"} =>
    /\ metrics.accepted = seen.kept
    /\ metrics.rejected = 0
    /\ seen.dropped = 0
=============================================================================
