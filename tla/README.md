# Verification of prl-3090-miner

TLA+ models of the miner in `src/`, TLC configurations that check them on small
instances, and TLAPS proofs that hold for every instance. `PROJECT.json` lists the
runs, the definitions' lines in the source, the hazards and the theorems.

    tlc -workers 2 -config MineLoop.cfg MCMineLoop.tla      # one run
    tlapm MineLoop_proofs.tla                               # one module's proofs (Work_proofs takes minutes)

## 1. The system

The miner searches nonces for a Pearl block or pool share. A job (a header and a
target) comes from a gateway or a pool; a nonce and the header give two matrices
and their noise; the GPU multiplies the noised matrices tile by tile, folds the
accumulators into transcripts, and looks for a transcript whose digest meets the
target; a winner is confirmed, submitted and judged.

| Component | State | Operations | What is hard | Correct when |
|---|---|---|---|---|
| Mining loop (`miner/runtime.py`) | the job, the baseline of `JobManager`, the next nonce, seven counters, a deadline | poll, thermal check, search, re-confirm, submit | the header moves between any two calls; a submit may fail after it was processed | no nonce of the header is skipped; a proof found gets one verdict; the loop ends |
| Gateway client (`miner/gateway_client.py`) | one socket, a line buffer, an id counter | `_call` in its two methods | a late answer stays in the stream of a connection nobody closes | an answer is taken for the request it answers |
| Stand-in gateway (`miner/mock_gateway.py`) and self-test | a header that rotates on requests, a pause, counts of submissions | the request handler | rotation counts re-confirmations too | the self-test's checks follow from the loop |
| Mining backends (`miner/backends.py`) | CUDA: the header whose matrices are on the device; the others none | `search` | a cache beside the context; a batch reports only its first winner | the matrices are the job's; no winner is passed over |
| Mining context and one-shot calls (`cuda/src/mine_sm86.cu`, `miner/cuda_mine.py`) | device buffers, key buffers that grow, a captured graph, CUDA's pending error | `set_inputs`, `run`, `run_keyed`, `run_keyed_preloaded`, the batch; `mine2_search`, `mine2_batch_run`, `noisegen` | everything is reused, the graph holds addresses, any call may fail half-way | a call that succeeds answers for its own arguments |
| Mining kernels (`k_mine`, `k_mine2`) | two shared-memory stages, copies in flight, accumulators | one step of the pipeline per block of columns | a copy fills one stage while the other is read | no race; the transcript is the reference's |
| Proof-of-work scan (`k_pow_scan_*`) | one word, lowered by all threads | find, emit | the threads run in any order | the result is the tile the CPU reference finds |
| NVML monitor (`nvml_monitor.cpp`, `prl_cuda.cpp`) | a thread, a flag, a mutex, one sample | start, sample, stop | the sampler writes while a caller copies; restarts for other devices, which CUDA and NVML number differently; a seed that may fail | a sample is one reading, of a known GPU; no thread outlives its stop |
| Stratum client (`miner/pool_client.py`) | a socket, a buffer, an id counter | send, messages | replies are not matched to requests | (used by the next two) |
| LuckyPool miner (`luckypool_miner.py`) | current job, counters | pump, search, submit, wait for the reply | late replies, messages that only speak of an acceptance, jobs in every step, hang-ups | one reply counted per share; it ends |
| Handshake probe (`pool_client.py`) | what was observed, the phase | seven dialects, then a verdict | replies to an earlier phase | it stops at a gate; its verdict is true |
| AlphaPool client and probe (`alphapool_client.py`, `scripts/probe_alphapool.py`) | a counter of ids, the replies noted | answer the challenge, three requests, listen, a verdict | a challenge shifts the ids; recv blocks | its verdict is true; it ends |
| Noise and reference product (`reference/pearl_reference.py`) | the noise, the noised matrices, a block's accumulators and transcripts, C | generate, noise_A, noise_B, `_tiled_matmul`, gemm | widths, edges, the order of the noise terms | nothing wraps that must not; C is A @ B; an opened block replays |
| Fast path and solo miner (`fast_mine.py`, `simnet_solo.py`), dry run of `luckypool_miner.py` | the job fetched, one batch | fetch, build, search on the GPU, confirm, submit | the GPU is not trusted; the tip moves during the search | the exit code tells the truth |
| Benchmark harness (`scripts/protocol_benchmark.py`, `protocol_hashrate.py`) | a child, its pipe, a timer, a sampler thread, the share counts | start, read lines, time out, reap, summarise | the child may ignore the timer, close its output or leave it to another process | work is credited at the difficulty in force; nobody is left; it ends |

They interact by calls and messages: the loop calls a backend in its own thread and
the gateway over one connection; the backend calls the context; the context runs the
kernels on one CUDA stream; the binding starts and stops the NVML thread. Only five
places have actors that really interleave: the loop and its gateway, a pool client and
its pool, the NVML thread and its caller, the threads of a GPU block or grid, and the
harness with its timer, its sampler and its child.

Not modelled, and why:

- BLAKE3 and the comparison with the target: a digest is membership in a set of winners,
  and a key's stream of bytes and words is any stream. The permutation of words is beyond TLC.
- The XOR and rotation of a transcript word: a word keeps what was folded into it, in order.
- The kernels of the naive CUDA library: one call that keeps no state; its sequential scan
  is the reference of PowScan. The GEMM benchmarks and the scaffold kernels mine nothing.
- `alpha_submit_message` and `send_raw` of the AlphaPool client, which only tests call.
- The regular expressions of the harness and the arithmetic of its summaries: a line is what
  they find in it. The reading of a finished log is `note_line` again.
- The golden scripts (`generate_golden.py`, `verify_against_official.py`,
  `run_cuda_golden.py`): they run the arithmetic once and compare files.
- The words in which a call of the mining context returns its result (`dBest`, `dF`,
  `dFoundAttempt`, `dTrOut`): a call resets or rewrites those that its reply depends on, and
  MineCtx holds no such word from one call to the next.
- The memory left on the device (`mine_sm86.cu:400` leaks on an error): any call may fail
  at any time, which is all that a leak can lead to.
- Configuration, command line, build and CI: what they decide is a constant of a model.

## 2. Modules

Arrows read "builds on"; a `_proofs` module EXTENDS the modules it is about (MineLoop_proofs
the loop, the self-test and SoloMine; Work_proofs NoisyGemm, PowScan and the harness;
Probes_proofs both probes).

    GatewayClient <- Gateway <- MineLoop <- MCMineLoop (run), SelfTest <- MCSelfTest (run)
                     ProofLedger <== MineLoop           (abstract specification)
    MiningContext <== MineCtx <- MCMineCtx (run)        (abstract specification)
    MiningContext <- MineBackend <- MCMineBackend (run)
    MinePipeline (run)
    NoisyGemm, PowScan <- MCPow (run)
    NvmlMonitor <- MCNvmlMonitor (run)
    MCNvmlMonitor, ProtocolBenchmark <- MCTelemetry (run)
    StratumClient <- LuckyPool (run), PoolProbe
    PoolProbe, AlphaProbe <- MCProbes (run)
    SelfTest, SoloMine <- MCSelfTest (run)

MCPow, MCTelemetry, MCProbes and MCSelfTest each check two programs in one run. The two share
no variable and no action: a behaviour picks one program in its initial state, runs it, and
leaves the other in one initial state. It is a disjoint union, not a composition, and says
nothing about the two at once.

**GatewayClient.** `_call` is two steps: `Send` takes the next id and writes the request;
then `Receive` takes a line with that id, `ReceiveMismatched` one with another id
(`GatewayError`), or `LinkFails` stands for a timeout or a dead connection. The timeout is
that of one `recv`: `RecvWaits` says that the one under way has lasted so long (`waited`),
and the other end may undo that with a piece of a line (`Drip`), again and again. The two
directions are FIFO sequences. Nothing empties `answers` when a call fails, as nothing in
the client does. `Reply`, `Drip` and `CloseLink` are the other end.

**Gateway.** The handler of the stand-in: the answer to `getMiningInfo` is the header of
that moment, a pause or an error; a submit is kept or dropped by its header. `GatewayDrips`
is a gateway that sends pieces of a line. `NewTip` changes the header on its own: that is
the real node's doing, which `src/` does not hold.

**MineLoop.** One action per statement of `mine_loop` that talks to anybody or branches:
`Poll`/`GotJob`/`GotPaused`, `CheckThermal`, `SearchMiss`/`SearchHit`,
`Confirm`/`Confirmed`/`StaleDrop`, `Submit`/`Acked`, the wait of a call (`CallWaits`) and
the three ways it raises. Only a submit is inside `try`; what the poll or the
re-confirmation raises ends the loop (`died`). `pc` is the place in the loop, `metrics` is
`Metrics`; `wins` and `covered` are history. A search is a number of nonces tried: `Batches`
are the sizes, and a winner is at any place in the batch.

**ProofLedger.** What the counters promise: proofs are handled one at a time and each
gets exactly one of stale, accepted, rejected. MineLoop refines it with
`stale <- metrics.stale` and so on.

**SelfTest.** MineLoop over the stand-in's own rule (`_next_job` pauses once and turns the
header every `rotate_after` requests) and the checks of `cmd_self_test`.

**MiningContext / MineCtx.** The abstract context has two pieces of state: the header whose
matrices are kept, and the latest reply, which is a function of the call's arguments and
that header. The detailed one has the buffers: each holds *where its content comes from* (a
header, a nonce, `Zero` after a memset, `Bad` for anything else), and each copy, memset and
kernel is an operator on the record of buffers, composed in the stream's order. A call is
one step since every call waits for its stream. `RunBatch` has the growth of the key buffers
with either allocation failing, the graph that is destroyed first and captured again for
another size, and the error a failed call leaves for a later `cudaGetLastError`. Key memory
has addresses (`Places`): `heap` says which are allocated and how large, `keys` are the two
pointers, `graph.at` the pointers that the graph captured, and a replay reads what is at
those (`KeysFound`), so that a graph kept over a growth would read freed memory, or the
other buffer if that got the freed address. `RunOnce`, `SearchOnce` and `NoiseOnce` are the
one-shot calls of the same library: buffers of their own, and only the pending error in
common. The refinement maps `inputs` to the header given last.

**MineBackend.** `search` in two steps over MiningContext. The CUDA backend preloads unless
the header is the cached one, then runs one nonce, or a batch when the target is the one
that nothing meets (the throughput measurement). The CPU and the naive backend derive
everything anew for one nonce, which is a one-shot call (`RunApart`). An error is not caught
and ends the miner. `passed` and `reported` are history: the nonces the loop went past, and
the winners it was told of.

**MinePipeline.** A block of `Threads`, each with its own copies in flight, over two stages
of shared memory. Contents are step numbers: a slice holds the columns of the step it was
loaded for. `Load` issues the copies of the next step, `Land` completes any copy of any
thread at any time, `Wait` is `cp.async.wait_group`, `Filled`, `Turned` and `Used` are the
barriers, `Multiply` adds a step to the accumulator if every slice is of that step and makes
it `Junk` otherwise, `Hash` folds at the end of a chunk. `Transposes` chooses `k_mine2`,
which turns B in a step of its own with a barrier more.

**PowScan.** Every flat index is a thread that lowers `best` if its transcript wins, in any
order; `Emit` runs when all have; the winners are any subset of the transcripts. `Reference`
is the first tile in the order of the four nested loops of `_tiled_matmul`, attempts first.

**NvmlMonitor.** The sampler takes a step for each NVML read and each store, the caller one
for each copy, so that a torn sample would show. The caller goes start, sample, stop; then
again, for any device. A device is a number; `CudaGpu` and `NvmlGpu` are the GPUs that CUDA and
NVML give for it, any two functions. `StartFor` has the start's three outcomes: no NVML; a
sample filled by `prl_get_device_info`; or one left as it was, since line 74 does not look at
the status, and the thread started all the same. `seed` and `before` are history: whether the
latest start filled the sample, and what it found there.

**StratumClient, LuckyPool, PoolProbe.** The connection numbers requests and yields messages
in the pool's order; the pool answers any pending request at any time, or never. LuckyPool
is `live()`; PoolProbe is `probe()` in both modes with `_collect`; its three guards
(`TryLogin`, `TryShapes`, `TryShapeUnless`) are those of lines 178, 191 and 202. A search
and its CPU check are one choice of found or not. A message of LuckyPool is a notification,
a reply that accepts or refuses, or one that says "accept" with neither result nor error
(`Speak`), with a request's id or without: `WaitMessage` counts it, and ends the wait only
if the id is the share's, as lines 203-207 do. `missed` in LuckyPool is history: the jobs
whose notification the wait for a reply read and dropped.

**AlphaProbe.** `main` of the probe over `send` and `recv`. Before the requests each
challenge is answered, if a nonce is given, and takes an id; any other message is printed
and ends the wait. Then three requests, and messages until a job or the deadline. `recv`
blocks: it raises when the stream ends or the socket times out, and nobody catches that
(`crashed`). The timeout is that of one read (`ReceiveWaits`), and starts again with each
piece of a line (`PoolDrips`). The deadline is looked at between messages only. `granted`
and `offered` are history: what the pool really did.

**NoisyGemm.** The reference from keys to C. The noise of a line is an operator on the bytes
and words of a key's stream; `AddNoises` is `noise_A` and `noise_B` with their casts; `Chunk` is
a turn of the inner loop of `_tiled_matmul`, `EndBlock` the look through a block's transcripts
and its copy to C, `Denoise` the rest of `gemm`. Widths are constants (`Bits`, `AccBits`,
`WordBits`), and every cast wraps.

**SoloMine.** Four programs that look for one proof, chosen by `mode`. The answer of the GPU is
any attempt or none; whether an attempt holds a proof is fixed when the batch is built, in the
checks too, and `Official` looks it up by the index the GPU named. An exception, and
`sys.exit(message)`, end a program with 1 (`ExitByException`), even one out of a submit that the
gateway has already taken (`SubmitProof`). `TipMoves` is the node.

**ProtocolBenchmark.** `run_command` in the main thread, with `TimerFires`, the sampler thread
(`QueryReturns`, `WaitReturns`) and the child (`PrintLine`, `CloseOutput`, `Exit`). `Tick` is time,
for the one race that depends on it: the join of the sampler, which gives up after the
interval and a second, against a query with a timeout of its own.

Mutants are operators beside the definition they stand for, each a plausible slip in that
code; every property has one that breaks it.

## 3. Runs

All finish within a minute or two; deadlock is checked in all of them, the end of a program
being an explicit step that changes nothing.

| Run | What it asks | Bounds, and why they are enough |
|---|---|---|
| mine_loop | the loop's safety and its deadline against a gateway that is late, silent, refuses, pauses, moves or leaves | two headers (a header can be left and come back), batches of one and two nonces, five requests: an iteration makes at most three, so a late answer meets the next iteration |
| self_test | the checks of `cmd_self_test`, and that both sides count alike; the exit codes of the one-proof miners | 24 requests, more than the two rotations the checks assume; three batches of three attempts, every choice of those that prove and of what the GPU says, an exception in any step, a tip that moves once |
| mine_ctx | `MineCtx` implements `MiningContext` | batches of one and two: the buffers grow twice, either allocation failing, and the graph is met by a larger and a smaller batch; two addresses, so that a freed one is given again, to the same buffer or the other; two headers, nonces and targets, so that anything left of another call differs; one-shot calls in between |
| mine_backend | right matrices, no lost winner, with each backend | two headers, two targets, batches of three that hold two winners |
| mine_pipeline | `k_mine2` races, order and transcripts | three threads, five steps, chunks of two: each stage is filled twice, and the last step ends no chunk |
| pow | the reference's noise, product and opened blocks; the scan equals the reference | 5 x 14 x 8 with rank 4: blocks too small for a hash tile on both edges, three full chunks and a rest over two slots; int8 is four bits and int32 eight, so that the accumulators do wrap. Eight keys a side, and matrices with the ends of their range and beyond. The scan: two attempts of two tiles by two hash tiles, all 256 sets of winners |
| telemetry | whole samples, no thread left, stop returns; the harness's credits, its summary, its children and its end | two devices and two starts, the second of which may find the first one's sample; two GPUs that CUDA and NVML number in opposite orders; three readings; two lines of four kinds, two samples, a query as long as the interval (both are 5 s by default) and a join one longer |
| lucky_pool | counts, the job mined, the ends | three jobs, two shares: a late reply falls in the other share's wait, and a job can come in each step of an iteration; one message that only speaks of an acceptance |
| probes | the verdicts, the gate, the end | three messages of a Stratum pool, in any of the eight collections; four of AlphaPool: a challenge, its reply, an authorize, a job |
| circuit_breaker, submit_timeout, nvml_one_shot | three statements of the repository that the code does not keep (section 5) | the smallest instance that shows it |

What the properties say:

- `NoNonceSkipped`: all nonces below `attempt` were tried on the current header, through
  pauses, switches back and forth, and re-confirmations that bypass the baseline.
- `DropsAreRaces`: the gateway drops a proof as stale only when its header moved after the
  re-confirmation; never because the loop believed an older answer.
- `AcceptedWereSeen`: accepted <= processed <= submitted.
- `ProofsAccountedFor`: the refinement of ProofLedger.
- `ChecksPass`, `CountersAgree`: the self-test's checks hold whatever the timing, once the
  loop lasted two rotations, and the gateway's counts are those of the loop.
- `CallsAreFresh`, `KeyBuffersAreHeld`: the refinement of MiningContext; and after any growth, one
  that failed between the two allocations too, each key pointer is null or has memory for
  `key_batch_cap` keys, nothing else is left allocated, and the graph has captured these two.
- `RightMatrices`, `NoWinLost`: the header cache is right; winners passed = winners reported.
- `NoRace`, `MultipliesItsStep`, `TranscriptIsReference`, `BlockEnds`.
- `LinesAreSigned`, `NoiseFits`: every line of noise has its +1 and its -1 at two places; no
  cast to int8 loses anything, although the ranges meet the width exactly.
- `ProductIsExact`: C is A @ B as int32, though accumulators of the noised product wrap.
- `OpenedReplays`: what a verifier computes from the opened rows and columns alone is the
  transcript that met the target, at partial blocks and with a partial chunk too.
- `ResultIsReference`: the scan names the tile that the reference's loops find first.
- `SampleIsOneReading`, `NoThreadLeft`, `StopReturns`: the NVML monitor. A sample's values were read
  together, on the GPU that NVML gives for the number; its static fields are of the GPU that
  CUDA gives for it. If the start could not fill the sample, the caller has the one of before,
  or its static fields with new values (section 5).
- `WorkIsCredited`, `SummaryIsWhole`, `OrphanOnlyByError`, `ABenchEnds`: the harness.
  `OrphanOnlyByError` says that only an exception leaves a child, which it does (section 5).
  `ABenchEnds`: whatever the child does, the harness ends, or else it stays in the loop over
  an output that a child ignoring the timer, or an heir of the output, keeps open (section
  5).
- `OneReplyPerShare`, `MinesLastHeard`, `LostLinkEnds`, `DeadlineEnds`: LuckyPool. One reply
  at most is counted for a share, and beyond that what the pool has said in other words. A
  batch is on the job heard last, and a newer one is unread, was dropped by the wait for a
  reply, or was lost with the connection.
- `NothingAfterGate`, `OpenMeansJob`, `ReadyIsGranted`, `TheProbeEnds`: the two probes.
- `DeadlineEndsLoop`, `TheProbeEnds`: the ends of the loop and of the probes, but for a peer that
  sends pieces of a line for ever (section 5).
- `VerdictIsTrue`: the exit codes of the fast path, the solo miner and their two checks. 0 means
  that a proof was sent; 1 from a program that ran to its end, that none was; 1 from an
  exception says nothing of that. A check passes exactly if the library confirmed the attempt.

Type invariants are run in mine_ctx, self_test, telemetry and probes; all are theorems.

### Fairness

- MineLoop: weak fairness of the loop's steps as a whole, the wait of a `recv` for its timeout
  among them; gateway, node and clock owe nothing. The timeout restarts with every piece
  received (`gateway_client.py:77-82`), so `DeadlineEndsLoop` has a condition, that
  the gateway does not drip for ever; with it a call has an outcome.
- LuckyPool: weak fairness of the miner's steps, whose waits have deadlines; and strong
  fairness of reading a message or the end of the stream while pumping: the window (20 ms
  and more) is not over before the first read every time.
- PoolProbe: weak fairness of the probe; its collections have deadlines.
- AlphaProbe: weak fairness of the probe and of the passing of time; the socket's timeout is
  at least as long as the phase, so it ends a read only once time is up, and only if nothing was
  received in between: the same condition, on `PoolDrips`.
- ProtocolBenchmark: weak fairness of the main and the sampler thread (they are scheduled), of
  time and the timer, and of the end of a child that was told to end and obeys.
- NvmlMonitor: weak fairness of the sampler, which the OS schedules and whose waits and
  NVML calls return, and of the join. The caller need not call anything.
- MinePipeline: weak fairness of each thread, of its copies and of the barriers: the
  hardware keeps a resident block running.
- The others have no liveness property: a call of the context is one step, and the solo
  miners and the reference are loops with a fixed bound.

## 4. Proofs

Every safety property of the passing runs, invariant or action property, is a theorem for
all values of the constants; the bounds of the actions (`MaxCalls`, `MaxSaid`, ...) are
constants too, so no bound limits them. Two theorems have a hypothesis, given below.

| Module | Theorems | The argument |
|---|---|---|
| MineLoop_proofs, the loop | TypeCorrect, Invariance, NoNonceIsSkipped, AcceptedAreSeen, OnlyRacesAreDropped, LoopKeepsLedger | ids rise along the connection (`InOrder`), so an answer with the latest id is the last message; outside a call the connection is empty except for what a failed submit left (`QuietInv`); hence an accepted confirmation is the gateway's latest answer (`ServedInv`); and a proof is in hand exactly between its search and its verdict (`LedgerInv`), which is the refinement |
| the self-test | CountersAlwaysAgree, SelfTestPasses | the stand-in answers at once, so the connection holds one message during a call and none outside (`Exchange`); its header turns only on a request, so a job in hand is for the header of now (`HandInv`), nothing is dropped, and an answer not yet read is the one difference between the two counters (`KeptInv`). `ProgressInv` has the checks: the pauses come first, the first proof is confirmed and sent before the first turn, and a turn is noticed by the second poll after it at the latest |
| the search for one proof | SoloTypeCorrect, ExitCodeIsTrue, SearchTypes | the lists of attempts are those of the batch on the GPU, and a winner counts in it (`Stacked`); nothing is sent before it was confirmed, one proof at most, and the code is 1 wherever an exception leaves (`Account`) |
| MineCtx_proofs | CtxTypeCorrect, KeyBuffersHeld, ContextIsFresh | the refinement of MiningContext. A and B are of the header given last (`BufferInv`); each key pointer owns memory for the batches of its size or is null, and the graph has captured the two of now (`KeyInv`), so a replay finds the keys just copied. One lemma per operator on the buffers says what a run of one nonce leaves; the replay of the graph is by induction over its attempts, each of which answers for its own nonce whatever the one before left |
| MineBackend_proofs | BackendTypeCorrect, SearchesRightMatrices, NoWinIsLost | the cached header and the context's are the same unless the miner died; the first winner of the context is the least, so those before it lose |
| MinePipeline_proofs | PipelineTypeCorrect, PipelineHasNoRace, EveryStepIsMultiplied, TranscriptsAreReference | between two barriers the threads are at most one phase apart; a copy in flight is of the next step, or of this one before its owner's wait; so the stage being read is neither being filled nor stale. Both kernels, as `Transposes` is any Boolean |
| Work_proofs, the reference | GemmTypeCorrect, LinesHaveTwoSigns, NoiseNeverWraps, ProductsAreExact, OpenedCanBeReplayed | see below |
| the scan | ScanTypeCorrect, ScanIsReference | `best` is the least winner among those that ran; the index of a tile orders tiles as the nested loops do (a lemma on mixed-radix numbers), so the least index is the first tile |
| the harness | BenchTypeCorrect, CreditIsEarned, OrphansAreErrors, SummariesAreWhole | the credit is the sum over the accepted lines of the log, and a line more is a term more (`CreditInv`); an exception is on its way only after the reading, and without one the child is gone once the sampler is told to stop (`EndingInv`); when the join begins, it has more time than the query under way (`JoinInv`) |
| NvmlMonitor_proofs | MonitorTypeCorrect, SamplesAreWhole, StopLeavesNoThread | the stores and the copies are inside the mutex; the sampler's readings are of the index it was started with, for any numbering of the GPUs; `SharedInv` says what the sample is after a seed that filled it and after one that did not; and no thread is left running when another start comes |
| LuckyPool_proofs | LuckyTypeCorrect, OneReplyIsCounted, LastHeardIsMined | a wait ends with the plain reply it counts, and each wait follows a submit; any other message it counts was said and is read once, so those still unread are part of the balance (`CountInv`); the notifications in the inbox are newer than the current job and in order |
| Probes_proofs | ProbeTypeCorrect, OpenIsTrue, GateEndsProbe, AlphaTypeCorrect, ReadyIsTrue, ProbesTypes | every message still to be read is true of the pool; each challenge answered is a message read, so the three requests' ids are apart from those before, and only the authorize's reply is taken for it |

Each proof shows Init => IInv, IInv /\ [Next]_vars => IInv' and IInv => the property. The
inductive invariant is needed because the properties speak of two or three variables and
not of what is in flight.

The reference's product, in `Work_proofs`:

- *The noise fits.* The step of a line is in 1 .. rank - 1, and XOR with it moves the place,
  so a line has its +1 and -1 apart. A dense entry is in -zero_point .. range - 1 -
  zero_point, so the difference of two is less than the room that the range check leaves.
- *The product is exact.* `Alike` says that two integers differ by a multiple of 2^AccBits;
  it is kept by sums and products, and `Wrap` chooses one of a class. A sum over a rank of
  lines picks the two entries of the line (`Projection`), and finite sums may be swapped, so
  in the integers the noised product is A @ B plus the two terms that `gemm` takes off
  (`NoiseComesOff`); hence C is alike to A @ B, and both are in range. `ProductInv` carries
  this over the tiles: the accumulators are the product over the first `p` (`Accumulated`),
  the blocks before this one are in C (`Copied`), the two projections are those of the
  noised matrices (`Projected`).
- *An opened block replays.* A slot has a folding for each `Slots`-th full chunk, and each is
  the hashed tile of the product over the chunks so far (`Transcribed`, in `ReplayInv`). That
  is a function of the tile's rows and columns alone, and the index lists of the opened block
  name just these.

Sums and batches have no bound, so these proofs need induction over data. The library's
induction theorems take an operator as a parameter and cannot be used; `WFMin` and
`NatLessThanWellFounded` are first-order, and give that a non-empty set of naturals has a least
member (`LeastMember`). Induction on naturals, on the subsets of a finite set and on functions
that grow by a point (`SetInduction`, `SubsetInduction`, `GrowInduction`) follow, each about a *set*
instead of an operator. A sum (`SumFunctionOnSet`, a fold of the community modules) is a CHOOSE
of a function on subsets; that one exists is shown by induction, and from then on a sum is
its own recursion.

Hypotheses and assumptions:

- `SelfTestPasses` assumes `Obliging`: the header stays for more than two requests, there are two
  headers, the backend finds a proof in each search, and no reading is at its limit. That is what
  `cmd_self_test` sets up (`rotate_after=4`, the easiest target, the CPU's idle telemetry).
  With a rotation of two each proof may meet a turn at its re-confirmation and be dropped as stale.
- `SummariesAreWhole` assumes `QueryTimeout <= Interval`. Both are five seconds by default
  (`protocol_benchmark.py:34, 81`). `--telemetry-interval` (line 160) may be shorter: the join
  waits for the interval and a second, so with an interval of four seconds or less a query can
  outlive it and add a sample between the averages and the count. In whole seconds the hypothesis
  is exact, for a query that its timeout ends: `check_output` waits without one for the child it
  has killed, and the model has that wait return.
- The other assumptions are the named ASSUMEs of the modules (shapes and bounds are naturals,
  `None` is no header), which TLC evaluates in the runs. tlapm knows nothing of
  exponentiation, so `ShapeAssumption` states what is used of `2 ^ Bits` and `2 ^ AccBits`: they
  are naturals and twice the power below. `XorAssumption` is what is used of XOR on indices.

Only model-checked: the seven liveness properties (`DeadlineEndsLoop`, `LostLinkEnds`, `DeadlineEnds`,
`StopReturns`, `ABenchEnds`, `BlockEnds`, `TheProbeEnds`), as fairness and ENABLED are out of the prover's
reach; and the three violations of section 5, which are counterexamples.

## 5. Disagreements between the code and what the repository says

With a run each:

- **submit_timeout**: `runtime.py:187` treats a failed submit as a rejected proof and goes
  on. After a timeout the late answer is still in the stream; the next poll reads it, its
  id does not match, and the `GatewayError` ends the miner.
- **circuit_breaker**: `docs/security.md:29` says the miner exits after
  `exit_after_invalid_proofs` rejections. The loop never calls `note_invalid_proof`.
- **nvml_one_shot**: the comment "one-shot NVML read for live temp/power"
  (`prl_cuda.cpp:18`). The sample is taken right after the thread is created and is the
  seed, unless the thread has made its six NVML calls before the caller made one copy.

Seen while modelling, without a run of their own:

- A gateway, or an AlphaPool, that sends pieces of a line without end keeps the loop, or the
  probe, past its deadline for ever (`gateway_client.py:77-82`,
  `alphapool_client.py:138-142`): the socket's timeout restarts with each piece, and nothing
  else is looked at before the line is whole.
- `luckypool_miner.py:204` counts any message with "accept" in its text, before lines 206-207 ask
  whether it is the reply: a message shown to the user counts, and so does the reply after it.
- `nvml_monitor.cpp:74` does not look at the status of `prl_get_device_info`, which on
  failure leaves `g_sample` alone (`device_manager.cpp:19-24`): the caller then gets the
  readings of the device asked for before, as those of this one.
- `nvml_monitor.cpp:24` gives NVML the number that CUDA gave the device. The two number the GPUs in
  orders of their own: with several, the temperature of one may be reported beside the
  name of another.
- `fast_mine.py:214`: an exception out of the submit ends the program with 1, although the gateway
  may have taken the proof.
- `docs/security.md:26-27` promises a limit on `vram_temp_c`; every backend reports it as None.
- `luckypool_miner.py:187` "job rolled over mid-batch -> stale, drop it": `cur` changes only in
  the pump, so the comparison never differs and a replaced job's share is sent.
- The wait for a share's reply drops the notifications it reads (`luckypool_miner.py:201-207`).
- The probe ends with an uncaught error, and no verdict, on a reset (`pool_client.py:94`
  notes it as `_error`, not as a close), and overlooks a job in a login reply that is read in
  phase 3 (`pool_client.py:101`).
- `docs/protocol-notes.md:169` gives [-63, 62] for the noise; two entries -32 and 31 give +63.
  The sum still fits int8.
- `protocol_benchmark.py:127`: the kill of a child that ignores terminate is never reached
  while it keeps its output open, since the loop over the output comes first; a process
  that inherits the output has the same effect after the child has gone. And an exception
  in the handling of a line cancels the timer and leaves the child running.
- The report of `luckypool_miner.py:172` ends in "accepted=0" or the count so far; the pattern
  of `protocol_hashrate.py:19` counts each such line as a share.
- `pearl_reference.py:81-87`: a noise_range of 1 is accepted, and its mask is -1.
- `fast_mine.py:205`: "the node accepts the same proof, below". The job is fetched once and the
  exit code is 0 whether the gateway keeps the proof or drops it as stale.
- `probe_alphapool.py:47`: the probe reads before it speaks. A Stratum pool that waits for the
  client makes it end in a traceback of `recv`; a first message that is no challenge is only
  printed, a job included, and a challenge after that is not answered.

## 6. Plan

Done, in this order: the loop with its client and gateway; LuckyPool; the scan; the
context; the backend; the NVML monitor; the kernels; the probe; the reference's noise and
product; the fast path and the solo miner; the AlphaPool probe; the benchmark harness;
proofs of every safety property the runs check.

Next:

1. MineBackend over MineCtx instead of MiningContext (ContextIsFresh makes the one stand
   for the other), and the loop's search replaced by MineBackend: the nonces of NoNonceSkipped
   would then be those of NoWinLost.
2. An abstract specification of the pool client (a share gets one verdict), with LuckyPool and
   AlphaProbe shown to implement it.
3. Steps towards the liveness properties that are safety: bounds on the steps left, as
   invariants, from which fairness alone would give the end.
