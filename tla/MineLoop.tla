------------------------------- MODULE MineLoop -------------------------------
(***************************************************************************)
(* The core mine -> submit loop (mine_loop, JobManager, SafetyMonitor and   *)
(* Metrics of miner/runtime.py) over the gateway connection.  One iteration *)
(* polls the job, reads the temperatures, searches a batch of nonces, and   *)
(* confirms and submits what it found.  Every call to the gateway is two    *)
(* steps, the request and its outcome, so the header may move in between.   *)
(***************************************************************************)
EXTENDS Gateway, FiniteSets

CONSTANTS
  StaleCancel,  \* LoopConfig.stale_cancel
  Batches,      \* the numbers of nonces one backend.search may try
  Finds,        \* the outcomes a search may have: TRUE, a winner; FALSE, none
  Macs,         \* work units of one attempt (M * K * N)
  Temps,        \* temperatures the hardware may have
  Limit,        \* SafetyMonitor.max_temp_c and max_vram_temp_c, by reading
  Reported,     \* the readings the backend's device_info can report
  MaxCalls      \* bound: no iteration starts after this many requests

Readings == {"temp_c", "vram_temp_c"}

ASSUME LoopAssumption ==
  /\ StaleCancel \in BOOLEAN
  /\ Batches \subseteq Nat \ {0}
  /\ Finds \subseteq BOOLEAN
  /\ Macs \in Nat
  /\ Temps \subseteq Nat
  /\ None \notin Nat
  /\ Limit \in [Readings -> Nat]
  /\ Reported \subseteq Readings
  /\ MaxCalls \in Nat

VARIABLES
  pc,       \* where the loop is
  job,      \* the local job of this iteration
  current,  \* JobManager.current, the job-switch baseline
  attempt,  \* the next nonce
  metrics,  \* Metrics
  expired,  \* duration_s is over
  gpu,      \* the hardware's temperatures when device_info was last called
  dev,      \* what device_info reported
  cause,    \* why the loop died, if it did
  wins,     \* history: proofs found
  covered   \* history: for each header, the nonces whose outcome is known

loop == <<pc, job, current, attempt, metrics, expired, gpu, dev, cause, wins, covered>>

vars == <<link, gateway, loop>>

Awaiting == {"polling", "confirming", "submitting"}

PCs == {"poll", "check", "search", "confirm", "submit", "done", "died"} \cup Awaiting

Metrics == [attempts : Nat, work_units : Nat, submitted : Nat, accepted : Nat,
            rejected : Nat, stale : Nat, job_switches : Nat]

TypeOK ==
  /\ LinkTypeOK
  /\ GatewayTypeOK
  /\ pc \in PCs
  /\ job \in Headers \cup {None}
  /\ current \in Headers \cup {None}
  /\ attempt \in Nat
  /\ metrics \in Metrics
  /\ expired \in BOOLEAN
  /\ gpu \in [Readings -> Temps]
  /\ dev \in [Readings -> Temps \cup {None}]
  /\ cause \in {"alive", "link", "mismatch", "error"}
  /\ wins \in Nat
  /\ covered \in [Headers -> SUBSET Nat]

Init ==
  /\ LinkInit
  /\ GatewayInit
  /\ pc = "poll"
  /\ job = None
  /\ current = None
  /\ attempt = 0
  /\ metrics = [attempts |-> 0, work_units |-> 0, submitted |-> 0, accepted |-> 0,
                rejected |-> 0, stale |-> 0, job_switches |-> 0]
  /\ expired = FALSE
  /\ gpu \in [Readings -> Temps]
  /\ dev = [r \in Readings |-> None]
  /\ cause = "alive"
  /\ wins = 0
  /\ covered = [h \in Headers |-> {}]

-----------------------------------------------------------------------------
(* The head of the loop and jm.poll(). *)

\* while ... time.monotonic() < end: the deadline is only looked at here.
Finish ==
  /\ pc = "poll"
  /\ expired
  /\ pc' = "done"
  /\ UNCHANGED <<link, gateway, job, current, attempt, metrics, expired, gpu, dev, cause, wins, covered>>

Poll ==
  /\ pc = "poll"
  /\ ~expired
  /\ lastId < MaxCalls
  /\ Send("getMiningInfo", None)
  /\ pc' = "polling"
  /\ UNCHANGED <<gateway, job, current, attempt, metrics, expired, gpu, dev, cause, wins, covered>>

\* The header of the answer is not the baseline's.
NewHeader == current = None \/ Head(answers).header # current

\* poll returns a job: it is the new baseline, and on a change the nonces start
\* over.
SwitchTo(changed, first) ==
  /\ pc = "polling"
  /\ Receive("job")
  /\ pc' = "check"
  /\ job' = Head(answers).header
  /\ current' = Head(answers).header
  /\ attempt' = IF changed THEN first ELSE attempt
  /\ metrics' = [metrics EXCEPT !.job_switches = IF changed THEN @ + 1 ELSE @]
  /\ UNCHANGED <<gateway, expired, gpu, dev, cause, wins, covered>>

\* Mutants: the nonces do not start over; only the first job counts as a change.
GotJobNoReset   == SwitchTo(NewHeader, attempt)
GotJobUnnoticed == SwitchTo(current = None, 0)

GotJob == SwitchTo(NewHeader, 0)

\* Mining is paused: back off and poll again; the baseline stays.
GotPaused ==
  /\ pc = "polling"
  /\ Receive("paused")
  /\ pc' = "poll"
  /\ job' = None
  /\ UNCHANGED <<gateway, current, attempt, metrics, expired, gpu, dev, cause, wins, covered>>

-----------------------------------------------------------------------------
(* The thermal check and the search. *)

\* SafetyMonitor.check_thermal on one reading.
TooHot(r, v) == v # None /\ v >= Limit[r]

\* device_info reads what the backend can read, and a read may fail; then the
\* loop throttles or goes on.
CheckThermal ==
  /\ pc = "check"
  /\ \E heat \in [Readings -> Temps], failed \in SUBSET Reported :
       /\ gpu' = heat
       /\ dev' = [r \in Readings |-> IF r \in Reported \ failed THEN heat[r] ELSE None]
  /\ pc' = IF \E r \in Readings : TooHot(r, dev'[r]) THEN "poll" ELSE "search"
  /\ UNCHANGED <<link, gateway, job, current, attempt, metrics, expired, cause, wins, covered>>

\* backend.search tries the nonces from attempt on and reports the first winner
\* of the batch: n of them are accounted for.
Tried(n) ==
  /\ attempt' = attempt + n
  /\ metrics' = [metrics EXCEPT !.attempts = @ + n, !.work_units = @ + n * Macs]
  /\ covered' = [covered EXCEPT ![job] = @ \cup attempt..(attempt + n - 1)]
  /\ UNCHANGED <<link, gateway, job, current, expired, gpu, dev, cause>>

SearchMiss ==
  /\ pc = "search"
  /\ FALSE \in Finds
  /\ \E batch \in Batches : Tried(batch)
  /\ pc' = "poll"
  /\ UNCHANGED wins

SearchHit ==
  /\ pc = "search"
  /\ TRUE \in Finds
  /\ \E batch \in Batches : \E foundAttempt \in 0..(batch - 1) : Tried(foundAttempt + 1)
  /\ pc' = IF StaleCancel THEN "confirm" ELSE "submit"
  /\ wins' = wins + 1

-----------------------------------------------------------------------------
(* stale_cancel: ask again before submitting. *)

Confirm ==
  /\ pc = "confirm"
  /\ Send("getMiningInfo", None)
  /\ pc' = "confirming"
  /\ UNCHANGED <<gateway, job, current, attempt, metrics, expired, gpu, dev, cause, wins, covered>>

\* The confirmation has come: submit, or drop the proof as stale.
Proceed ==
  /\ pc = "confirming"
  /\ Receive("job")
  /\ pc' = "submit"
  /\ UNCHANGED <<gateway, job, current, attempt, metrics, expired, gpu, dev, cause, wins, covered>>

DropAsStale(next) ==
  /\ pc = "confirming"
  /\ \/ Receive("job") /\ Head(answers).header # job
     \/ Receive("paused")
  /\ metrics' = [metrics EXCEPT !.stale = @ + 1]
  /\ pc' = next
  /\ UNCHANGED <<gateway, job, current, attempt, expired, gpu, dev, cause, wins, covered>>

\* Mutants: any job confirms the proof, whatever its header; a stale proof is
\* counted and then submitted all the same.
ConfirmedByAnyJob == Proceed
StaleDropGoesOn   == DropAsStale("submit")

Confirmed == Proceed /\ Head(answers).header = job

\* The header has moved, or mining is paused: the proof is dropped.
StaleDrop == DropAsStale("poll")

Submit ==
  /\ pc = "submit"
  /\ Send("submitPlainProof", job)
  /\ metrics' = [metrics EXCEPT !.submitted = @ + 1]
  /\ pc' = "submitting"
  /\ UNCHANGED <<gateway, job, current, attempt, expired, gpu, dev, cause, wins, covered>>

Acked ==
  /\ pc = "submitting"
  /\ Receive("submitted")
  /\ metrics' = [metrics EXCEPT !.accepted = @ + 1]
  /\ pc' = "poll"
  /\ UNCHANGED <<gateway, job, current, attempt, expired, gpu, dev, cause, wins, covered>>

-----------------------------------------------------------------------------
(* Calls that raise. *)

\* Only submit is wrapped in try/except Exception, which counts the proof under
\* `verdict`; what poll and the confirmation raise leaves mine_loop.
RaiseCounting(why, verdict) ==
  /\ IF pc = "submitting"
     THEN /\ metrics' = [metrics EXCEPT ![verdict] = @ + 1]
          /\ pc' = "poll"
          /\ UNCHANGED cause
     ELSE /\ pc' = "died"
          /\ cause' = why
          /\ UNCHANGED metrics
  /\ UNCHANGED <<gateway, job, current, attempt, expired, gpu, dev, wins, covered>>

\* Mutant: a submit that raises counts as accepted: it was sent, after all.
RaiseAccepts(why) == RaiseCounting(why, "accepted")

Raise(why) == RaiseCounting(why, "rejected")

\* Time passes in the recv of a call.
CallWaits == pc \in Awaiting /\ RecvWaits /\ UNCHANGED <<gateway, loop>>

CallFails      == pc \in Awaiting /\ LinkFails         /\ Raise("link")
CallMismatched == pc \in Awaiting /\ ReceiveMismatched /\ Raise("mismatch")
CallRefused    == pc \in Awaiting /\ Receive("error")  /\ Raise("error")

-----------------------------------------------------------------------------

Expire ==
  /\ ~expired
  /\ expired' = TRUE
  /\ UNCHANGED <<link, gateway, pc, job, current, attempt, metrics, gpu, dev, cause, wins, covered>>

LoopNext ==
  \/ Finish \/ Poll \/ GotJob \/ GotPaused
  \/ CheckThermal \/ SearchMiss \/ SearchHit
  \/ Confirm \/ Confirmed \/ StaleDrop \/ Submit \/ Acked
  \/ CallWaits \/ CallFails \/ CallMismatched \/ CallRefused

\* The process has ended.
Ended == pc \in {"done", "died"} /\ UNCHANGED vars

Next ==
  \/ LoopNext
  \/ GatewayNext /\ UNCHANGED loop
  \/ Expire
  \/ Ended

Spec == Init /\ [][Next]_vars

\* The loop's thread keeps running, and so does the timeout of its socket (CallWaits):
\* the gateway, the node and the clock of the duration owe nothing.
FairSpec == Spec /\ WF_vars(LoopNext)

-----------------------------------------------------------------------------
(* Properties. *)

\* The counters keep the promise of ProofLedger: each proof found gets exactly
\* one verdict, before the next search (the branches of lines 165-190).
Ledger == INSTANCE ProofLedger WITH
            stale <- metrics.stale, accepted <- metrics.accepted, rejected <- metrics.rejected

ProofsAccountedFor == Ledger!Spec

\* With stale_cancel, the gateway drops a proof as stale only when its header
\* has moved since it last told the miner what to work on: never because the
\* miner went by an older answer (the id check of _call) or did not ask.
DropsAreRaces ==
  [][StaleCancel /\ seen'.dropped > seen.dropped => served # gwHeader]_vars

\* No nonce of the header being mined is skipped: all those below `attempt` have
\* been tried on this very header, whatever pauses, switches and re-confirmations
\* came between (the reset of lines 141-144 and the comment of line 167).
NoNonceSkipped == current # None => 0..(attempt - 1) \subseteq covered[current]

\* The accepted counter never claims a proof the gateway has not processed, and
\* no proof is processed that the miner did not count as submitted.
AcceptedWereSeen ==
  /\ metrics.accepted <= seen.kept + seen.dropped
  /\ seen.kept + seen.dropped <= metrics.submitted

\* Once the duration is over the loop ends, whatever the gateway does, unless that
\* is to send pieces of a line for ever: the timeout is only the socket's
\* (gateway_client.py:77-82), and no call has a deadline of its own.
DeadlineEndsLoop ==
  <>[][~GatewayDrips]_vars => (expired ~> pc \in {"done", "died"})

-----------------------------------------------------------------------------
(* The inductive invariant behind the safety properties. *)

HoldsProof == pc \in {"confirm", "confirming", "submit", "submitting"}

\* A proof is in hand exactly between its search and its verdict; a loop that
\* died may have died with one.
LedgerInv ==
  LET judged == metrics.stale + metrics.accepted + metrics.rejected
  IN  IF pc = "died" THEN wins \in {judged, judged + 1}
      ELSE wins = IF HoldsProof THEN judged + 1 ELSE judged

\* Outside a call nothing is on the connection, except what a submit that timed
\* out has left there when the next iteration begins.
QuietInv == pc \in {"check", "search", "confirm", "submit"} => Quiet

\* What is known of the header the gateway served last: the answer to the
\* latest request, the proof about to be submitted and the one being submitted
\* carry it.
ServedInv ==
  /\ \A i \in 1..Len(answers) :
       answers[i].id = lastId /\ answers[i].kind = "job" => answers[i].header = served
  /\ StaleCancel /\ pc = "submit" => job = served
  /\ \A i \in 1..Len(requests) :
       requests[i].method = "submitPlainProof" =>
         /\ i = 1
         /\ StaleCancel => requests[i].header = served

\* A submit still to be processed, and an ack still to be read, are not counted yet.
SeenInv ==
  LET total == seen.kept + seen.dropped
  IN  /\ metrics.accepted <= total
      /\ total <= metrics.submitted
      /\ (\E i \in 1..Len(answers) : answers[i].kind = "submitted") => metrics.accepted < total
      /\ (\E i \in 1..Len(requests) : requests[i].method = "submitPlainProof")
           => total < metrics.submitted

\* The loop searches for the header of the baseline.
JobInv == pc \in {"check", "search"} => job = current /\ job \in Headers

IInv == InOrder /\ QuietInv /\ ServedInv /\ SeenInv /\ LedgerInv /\ JobInv /\ NoNonceSkipped
=============================================================================
