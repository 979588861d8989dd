----------------------------- MODULE MineBackend -----------------------------
(***************************************************************************)
(* The backends of miner/backends.py that search, called as mine_loop of    *)
(* miner/runtime.py calls them.  CudaMineBackend works on the persistent    *)
(* context: it remembers the header whose matrices it preloaded, tries a    *)
(* batch of nonces from `attempt` on, and says how many it tried; the loop  *)
(* goes on after them.  CpuBackend and CudaNaiveBackend derive all they use *)
(* anew for one nonce: a one-shot call of the context's specification.      *)
(*                                                                          *)
(* The context is the abstract one: MineCtx implements MiningContext.       *)
(***************************************************************************)
EXTENDS Integers, Sequences

CONSTANTS
  Headers, None,
  Targets,
  ZeroTarget,        \* the target that stands for pow_target 0
  Winning,           \* the <<header, nonce, target>> that win
  BatchSize,         \* PRL_CUDA_BATCH
  MaxAttempt         \* bound: nonces tried for a header

ASSUME BackendAssumption ==
  /\ None \notin Headers
  /\ BatchSize \in Nat \ {0}
  /\ MaxAttempt \in Nat

VARIABLES
  inputs, reply,  \* the context's, see MiningContext
  backend,        \* the backend made at the start
  preloaded,      \* _preloaded_header_id
  job,            \* the header and target to search for
  attempt,        \* the loop's: the first nonce of the next search
  step,           \* "idle": between searches; "run": in one, inputs ready; "died"
  passed,         \* history: the <<header, nonce, target>> gone past
  reported        \* history: the winners reported to the loop

vars == <<inputs, reply, backend, preloaded, job, attempt, step, passed, reported>>

Ctx == INSTANCE MiningContext WITH Nonces <- Nat, MaxCount <- BatchSize

Jobs == [header : Headers, target : Targets]

\* The names make_backend accepts, but for the backend that is not built.
Backends == {"cpu", "cuda-naive", "cuda-mine"}

Init ==
  /\ Ctx!ContextInit
  /\ backend \in Backends
  /\ preloaded = None
  /\ job \in Jobs
  /\ attempt = 0
  /\ step = "idle"
  /\ passed = {}
  /\ reported = {}

\* mine_loop: another job; its nonces start over when its header is another.
NewJob ==
  /\ step = "idle"
  /\ job' \in Jobs
  /\ attempt' = IF job'.header = job.header THEN attempt ELSE 0
  /\ UNCHANGED <<inputs, reply, backend, preloaded, step, passed, reported>>

\* search, first half: with the matrices of another header on the device, preload
\* those of this one.  An error of the context is not caught by anybody.
StartSearch(mustPreload) ==
  /\ step = "idle"
  /\ attempt <= MaxAttempt
  /\ IF backend = "cuda-mine" /\ mustPreload
     THEN \/ Ctx!SetInputs(job.header) /\ preloaded' = job.header /\ step' = "run"
          \/ Ctx!Fails /\ step' = "died" /\ UNCHANGED preloaded
     ELSE step' = "run" /\ UNCHANGED <<inputs, reply, preloaded>>
  /\ UNCHANGED <<backend, job, attempt, passed, reported>>

\* Mutant: the matrices are preloaded once, for the first job.
SearchPreloadingOnce == StartSearch(preloaded = None)

Search == StartSearch(preloaded # job.header)

\* The nonces of a search: a batch only for the target that nothing meets.
BatchNonces ==
  [i \in 1 .. IF backend = "cuda-mine" /\ job.target = ZeroTarget THEN BatchSize ELSE 1
     |-> attempt + i - 1]

\* What the search runs on: the matrices on the device, or its own.
RunNonces ==
  IF backend = "cuda-mine" THEN Ctx!RunKept(BatchNonces, job.target)
                           ELSE Ctx!RunApart(job.header, BatchNonces, job.target)

\* search, second half: the loop goes past the nonces up to the winner, or past
\* all of them.
FinishSearch(tried(_, _)) ==
  /\ step = "run"
  /\ \/ /\ RunNonces
        /\ LET n == tried(reply', Len(BatchNonces))
           IN  /\ attempt' = attempt + n
               /\ passed' = passed \cup {<<job.header, attempt + i, job.target>> : i \in 0 .. n - 1}
        /\ reported' = IF reply'.found
                       THEN reported \cup {<<job.header, attempt + reply'.attempt - 1, job.target>>}
                       ELSE reported
        /\ step' = "idle"
     \/ /\ backend # "cpu"
        /\ Ctx!Fails
        /\ step' = "died"
        /\ UNCHANGED <<attempt, passed, reported>>
  /\ UNCHANGED <<backend, preloaded, job>>

UpToWinner(answer, batch) == IF answer.found THEN answer.attempt ELSE batch

\* Mutant: a search counts its whole batch, winner or not.
WholeBatch(answer, batch) == batch

RunCountingBatch == FinishSearch(WholeBatch)

Run == FinishSearch(UpToWinner)

\* The process has died of an error of the context.
Died == step = "died" /\ UNCHANGED vars

Next == NewJob \/ Search \/ Run \/ Died

Spec == Init /\ [][Next]_vars

-----------------------------------------------------------------------------

TypeOK ==
  /\ inputs \in Headers \cup {None}
  /\ preloaded \in Headers \cup {None}
  /\ backend \in Backends
  /\ backend = "cuda-mine" /\ step = "run" => preloaded = job.header
  /\ job \in Jobs
  /\ attempt \in Nat
  /\ step \in {"idle", "run", "died"}
  /\ passed \cup reported \subseteq Headers \X Nat \X Targets

\* Whatever the order of jobs, and of the batch's size: the device holds the
\* matrices of the header that is searched, through every change of job, so that
\* the header cache of search is never wrong while the miner lives.
RightMatrices == backend = "cuda-mine" /\ step = "run" => inputs = job.header

\* Of the nonces the loop has gone past, the backend reported those that win and
\* only those: a batch never hides a winner behind its first one.
NoWinLost == passed \cap Winning = reported
=============================================================================
