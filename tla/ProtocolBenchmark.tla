-------------------------- MODULE ProtocolBenchmark --------------------------
(***************************************************************************)
(* The benchmark harness: run_command of scripts/protocol_benchmark.py with *)
(* its TelemetrySampler, and the share accounting of                        *)
(* miner/protocol_hashrate.py.  Four actors: the main thread, the timer     *)
(* thread that tells the child to end, the sampler thread, and the child,   *)
(* a black box whose output is a pipe.                                      *)
(*                                                                          *)
(* Tick is the passing of time, for the two waits that race: a query of     *)
(* nvidia-smi and the join of the thread that makes it.  Threads take no    *)
(* time otherwise.  The duration and the wait for the child are any time.   *)
(***************************************************************************)
EXTENDS Integers, Sequences, FiniteSetsExt

CONSTANTS
  Lines,         \* what the child may print: [words, diff, rate]
  ShareDiff,     \* args.share_diff
  QueryTimeout,  \* the timeout of the nvidia-smi query
  Interval,      \* args.telemetry_interval
  MaxLines,      \* bound: lines of the child
  MaxSamples     \* bound: samples of the sampler thread

Words == {"stale", "reject", "accept"}

\* diff is 0 when the line names no share difficulty.
ASSUME HarnessAssumption ==
  /\ Lines \subseteq [words : SUBSET Words, diff : Nat, rate : BOOLEAN]
  /\ {ShareDiff, QueryTimeout, Interval} \subseteq Nat \ {0}
  /\ {MaxLines, MaxSamples} \subseteq Nat

VARIABLES
  main,      \* where run_command is
  raised,    \* an exception is on its way out
  timer,     \* "none", "set", "fired" or "cancelled"
  child,     \* "none", "running", "told" (SIGTERM) or "gone"
  obeys,     \* the child ends when told to
  heir,      \* a process of its own keeps its output open
  open,      \* somebody can still write to the pipe
  pipe,      \* what the child printed and nobody read
  printed,   \* bound counter
  log,       \* the log file
  stats,     \* ShareStats
  telemetry, \* the sampler thread: "none", "query", "wait" or "over"
  left,      \* time until its wait is over
  patience,  \* time until the join gives up
  samples,   \* len(samples)
  seen       \* len(samples) as summary reads it, average by average

outputVars  == <<pipe, printed, log, stats>>
childVars   == <<timer, child, obeys, heir, open>>
samplerVars == <<telemetry, left, samples>>
benchVars   == <<main, raised, childVars, outputVars, samplerVars, patience, seen>>

NoStats == [accepted |-> 0, rejected |-> 0, stale |-> 0, work |-> 0, reported |-> 0, diff |-> ShareDiff]

-----------------------------------------------------------------------------
\* note_line: the difficulty is the line's, else the last one; a line is stale,
\* else rejected, else accepted; only then is it looked at for a rate.
Counted(s, line, d) ==
  CASE "stale" \in line.words  -> [s EXCEPT !.stale = @ + 1]
    [] "reject" \in line.words /\ "stale" \notin line.words -> [s EXCEPT !.rejected = @ + 1]
    [] OTHER -> [s EXCEPT !.accepted = @ + IF "accept" \in line.words THEN 1 ELSE 0,
                          !.work     = @ + IF "accept" \in line.words THEN d ELSE 0,
                          !.reported = @ + IF line.rate THEN 1 ELSE 0]

DiffOf(s, line) == IF line.diff # 0 THEN line.diff ELSE s.diff

\* Mutant: only an accepted share's difficulty is remembered.
NoteLineLate(s, line) ==
  LET d == DiffOf(s, line)
  IN  Counted([s EXCEPT !.diff = IF "accept" \in line.words THEN d ELSE @], line, d)

NoteLine(s, line) ==
  LET d == DiffOf(s, line) IN Counted([s EXCEPT !.diff = d], line, d)

-----------------------------------------------------------------------------
BenchInit ==
  /\ main = "start" /\ raised = FALSE
  /\ timer = "none" /\ child = "none" /\ obeys \in BOOLEAN /\ heir \in BOOLEAN /\ open = FALSE
  /\ pipe = <<>> /\ printed = 0 /\ log = <<>> /\ stats = NoStats
  /\ telemetry = "none" /\ left = 0 /\ samples = 0 /\ patience = 0 /\ seen = <<>>

StartSamplerIn(step) ==
  /\ main = "start"
  /\ telemetry' = step /\ left' = QueryTimeout
  /\ main' = "spawn"
  /\ UNCHANGED <<raised, childVars, outputVars, samples, patience, seen>>

\* Mutant: the thread is made and not started.
StartSamplerNever == StartSamplerIn("none")

StartSampler == StartSamplerIn("query")

\* Popen and the timer, set or not.
SpawnWith(set) ==
  /\ main = "spawn"
  /\ main' = "read" /\ child' = "running" /\ open' = TRUE /\ timer' = set
  /\ UNCHANGED <<raised, obeys, heir, outputVars, samplerVars, patience, seen>>

\* Mutant: the timer is not started.
SpawnUntimed == SpawnWith("none")

Spawn == SpawnWith("set")

\* The log file or the command cannot be opened.
SpawnFails ==
  /\ main = "spawn"
  /\ main' = "stop" /\ raised' = TRUE
  /\ UNCHANGED <<childVars, outputVars, samplerVars, patience, seen>>

ReadLine ==
  /\ main = "read" /\ pipe # <<>>
  /\ pipe' = Tail(pipe)
  /\ log' = Append(log, Head(pipe))
  /\ stats' = NoteLine(stats, Head(pipe))
  /\ UNCHANGED <<main, raised, childVars, printed, samplerVars, patience, seen>>

\* Decoding, printing or logging the line raises: the timer is cancelled, and
\* nothing tells the child any more.
ReadBreaks ==
  /\ main = "read" /\ pipe # <<>>
  /\ pipe' = Tail(pipe)
  /\ main' = "stop" /\ raised' = TRUE /\ timer' = "cancelled"
  /\ UNCHANGED <<child, obeys, heir, open, printed, log, stats, samplerVars, patience, seen>>

ReadEnd ==
  /\ main = "read" /\ pipe = <<>> /\ ~open
  /\ main' = "wait"
  /\ UNCHANGED <<raised, childVars, outputVars, samplerVars, patience, seen>>

\* The wait for the child, and the finally.
Reaped ==
  /\ main = "wait" /\ child = "gone"
  /\ main' = "stop" /\ timer' = "cancelled"
  /\ UNCHANGED <<raised, child, obeys, heir, open, outputVars, samplerVars, patience, seen>>

\* TimeoutExpired: the child is what the handler leaves of it.
ExpireLeaving(c) ==
  /\ main = "wait" /\ child # "gone"
  /\ child' = c
  /\ main' = "stop" /\ timer' = "cancelled"
  /\ UNCHANGED <<raised, obeys, heir, open, outputVars, samplerVars, patience, seen>>

\* Mutant: the child is told again instead of killed.
WaitExpiresMildly == ExpireLeaving("told")

WaitExpires == ExpireLeaving("gone")

\* TelemetrySampler.stop, with the timeout of the join.
StopFor(ticks) ==
  /\ main = "stop"
  /\ main' = "join" /\ patience' = ticks
  /\ UNCHANGED <<raised, childVars, outputVars, samplerVars, seen>>

\* Mutant: the join lasts an interval.
StopSamplingBriefly == StopFor(Interval)

StopSampling == StopFor(Interval + 1)

Stopped == main \notin {"start", "spawn", "read", "wait", "stop"}

\* The join returns; then the exception goes on, or summary runs.
Joined ==
  /\ main = "join" /\ (telemetry = "over" \/ patience = 0)
  /\ main' = IF raised THEN "raised" ELSE "sum"
  /\ UNCHANGED <<raised, childVars, outputVars, samplerVars, patience, seen>>

\* summary goes over the samples for each of three averages and counts them.
Summarise ==
  /\ main = "sum"
  /\ seen' = Append(seen, samples)
  /\ main' = IF samples = 0 \/ Len(seen') = 4 THEN "done" ELSE "sum"
  /\ UNCHANGED <<raised, childVars, outputVars, samplerVars, patience>>

MainNext ==
  \/ StartSampler \/ Spawn \/ SpawnFails \/ ReadLine \/ ReadBreaks \/ ReadEnd
  \/ Reaped \/ WaitExpires \/ StopSampling \/ Joined \/ Summarise

BenchIsOver == main \in {"done", "raised"}

-----------------------------------------------------------------------------
(* The timer, the sampler thread, and time. *)

\* Popen.terminate does nothing to a child that is gone.
TimerFires ==
  /\ timer = "set" /\ ~BenchIsOver
  /\ timer' = "fired"
  /\ child' = IF child = "running" THEN "told" ELSE child
  /\ UNCHANGED <<main, raised, obeys, heir, open, outputVars, samplerVars, patience, seen>>

\* query_nvidia_smi returns a sample, or None after an error or its timeout.
QueryReturns ==
  /\ telemetry = "query" /\ ~BenchIsOver
  /\ samples' \in {samples} \cup {n \in {samples + 1} : n <= MaxSamples}
  /\ telemetry' = "wait" /\ left' = Interval
  /\ UNCHANGED <<main, raised, childVars, outputVars, patience, seen>>

\* _stop.wait returns at once when stopped; then the loop is left.
WaitReturns ==
  /\ telemetry = "wait" /\ ~BenchIsOver /\ (Stopped \/ left = 0)
  /\ IF Stopped THEN telemetry' = "over" /\ left' = 0
                ELSE telemetry' = "query" /\ left' = QueryTimeout
  /\ UNCHANGED <<main, raised, childVars, outputVars, samples, patience, seen>>

TelemetryNext == QueryReturns \/ WaitReturns

\* Nobody's time is up, and somebody waits for it.
Less(n) == IF n > 0 THEN n - 1 ELSE 0
Tick ==
  /\ ~BenchIsOver /\ main # "sum"
  /\ telemetry = "query" => left > 0
  /\ telemetry = "wait" => left > 0 /\ ~Stopped
  /\ main = "join" => patience > 0 /\ telemetry # "over"
  /\ left + patience > 0
  /\ left' = Less(left) /\ patience' = Less(patience)
  /\ UNCHANGED <<main, raised, childVars, outputVars, telemetry, samples, seen>>

-----------------------------------------------------------------------------
(* The child. *)

Alive == child \in {"running", "told"}

PrintLine ==
  /\ Alive /\ open /\ printed < MaxLines /\ ~BenchIsOver
  /\ \E line \in Lines : pipe' = Append(pipe, line)
  /\ printed' = printed + 1
  /\ UNCHANGED <<main, raised, childVars, log, stats, samplerVars, patience, seen>>

\* The child goes on without its output, or the heir lets go of it.
CloseOutput ==
  /\ open /\ ~BenchIsOver /\ (Alive \/ heir)
  /\ open' = FALSE /\ heir' = FALSE
  /\ UNCHANGED <<main, raised, timer, child, obeys, outputVars, samplerVars, patience, seen>>

Exit ==
  /\ Alive /\ ~BenchIsOver
  /\ child' = "gone"
  /\ open' = (open /\ heir)
  /\ UNCHANGED <<main, raised, timer, obeys, heir, outputVars, samplerVars, patience, seen>>

Obey == child = "told" /\ obeys /\ Exit

BenchOver == BenchIsOver /\ UNCHANGED benchVars

BenchNext == MainNext \/ TimerFires \/ TelemetryNext \/ Tick \/ PrintLine \/ CloseOutput \/ Exit \/ BenchOver

BenchSpec == BenchInit /\ [][BenchNext]_benchVars

-----------------------------------------------------------------------------
BenchTypeOK ==
  /\ main \in {"start", "spawn", "read", "wait", "stop", "join", "sum", "done", "raised"}
  /\ timer \in {"none", "set", "fired", "cancelled"}
  /\ child \in {"none", "running", "told", "gone"}
  /\ {raised, obeys, heir, open} \subseteq BOOLEAN
  /\ telemetry \in {"none", "query", "wait", "over"}
  /\ {left, patience, samples, printed} \subseteq Nat
  /\ main = "start" <=> telemetry = "none"
  /\ main = "read" => child # "none"

\* protocol_hashrate: the credited work is, for each accepted line that is neither
\* stale nor rejected, the difficulty last named up to that line, on a line of any
\* kind, or else the one given.
WorkIsCredited ==
  LET Named(i) == {j \in 1 .. i : log[j].diff # 0}
      InForce(i) == IF Named(i) = {} THEN ShareDiff ELSE log[Max(Named(i))].diff
      Accepted == {i \in DOMAIN log : log[i].words = {"accept"}}
  IN  /\ stats.work = SumFunction([i \in Accepted |-> InForce(i)])
      /\ stats.accepted = Cardinality(Accepted)
      /\ stats.accepted + stats.rejected + stats.stale
           = Cardinality({i \in DOMAIN log : log[i].words # {}})

\* TelemetrySampler.stop: when summary runs the sampler thread has ended, so the
\* averages and the count are of the same samples.
SummaryIsWhole ==
  /\ main = "sum" => telemetry = "over"
  /\ \A i, j \in DOMAIN seen : seen[i] = seen[j]

\* run_command: a child still there at the end was left by an exception.
OrphanOnlyByError == BenchIsOver /\ Alive => main = "raised"

\* --duration: whatever the child does, the harness ends, or else it stays in the
\* loop over the output after its timer has fired, since a child that ignores
\* terminate, or a process that has its output, keeps that open.
KeptReading == main = "read" /\ timer = "fired" /\ open /\ (heir \/ (Alive /\ ~obeys))
BenchEnds == <>[](BenchIsOver \/ KeptReading)
=============================================================================
