----------------------------- MODULE MCTelemetry -----------------------------
(***************************************************************************)
(* The two threads that sample a GPU, checked in one run: the NVML monitor  *)
(* of the binding, and the sampler of the benchmark harness.  They are      *)
(* separate programs and share nothing: a behaviour runs one of them, and   *)
(* the other stays in its initial state.                                    *)
(***************************************************************************)
EXTENDS MCNvmlMonitor, ProtocolBenchmark

VARIABLE program

telemetryVars == <<program, vars, benchVars>>

\* A share of either difficulty, a refused one that names another, a stale one.
MCLines == {[words |-> {"accept"}, diff |-> 0, rate |-> TRUE],
            [words |-> {"accept"}, diff |-> 3, rate |-> FALSE],
            [words |-> {"reject"}, diff |-> 5, rate |-> FALSE],
            [words |-> {"accept", "stale"}, diff |-> 0, rate |-> TRUE]}

TelemetryInit ==
  /\ Init /\ BenchInit
  /\ \/ program = "nvml_monitor" /\ obeys /\ ~heir
     \/ program = "protocol_benchmark"

RunsMonitor(A) == program = "nvml_monitor" /\ A /\ UNCHANGED <<program, benchVars>>
RunsBench(A)   == program = "protocol_benchmark" /\ A /\ UNCHANGED <<program, vars>>

EitherNext == RunsMonitor(Next) \/ RunsBench(BenchNext)

\* The fairness of the program that runs: of the monitor that of its Spec; of the
\* harness that its threads are scheduled, that time passes, and that a child which
\* ends when told to does.
TelemetrySpec ==
  /\ TelemetryInit
  /\ [][EitherNext]_telemetryVars
  /\ WF_telemetryVars(RunsMonitor(SamplerNext))
  /\ WF_telemetryVars(RunsMonitor(Join))
  /\ WF_telemetryVars(RunsBench(MainNext))
  /\ WF_telemetryVars(RunsBench(TelemetryNext))
  /\ WF_telemetryVars(RunsBench(Tick))
  /\ WF_telemetryVars(RunsBench(TimerFires))
  /\ WF_telemetryVars(RunsBench(Obey))

\* The promise of the harness, when it is the one that runs.
ABenchEnds == program = "protocol_benchmark" => BenchEnds
=============================================================================
