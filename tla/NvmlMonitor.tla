----------------------------- MODULE NvmlMonitor -----------------------------
(***************************************************************************)
(* The NVML monitor (cuda/src/nvml_monitor.cpp): a background thread reads  *)
(* the temperatures and the power every half second into g_sample, under a  *)
(* mutex, and the miner's thread copies g_sample.  The caller is the        *)
(* binding's device_info (cuda/bindings/prl_cuda.cpp), or the correctness   *)
(* test's main: start, sample once, stop, for one device and then another.  *)
(* CUDA and NVML number the GPUs of a host each in its own way (CUDA's way  *)
(* depends on CUDA_VISIBLE_DEVICES and CUDA_DEVICE_ORDER): the number asked *)
(* for may be one GPU to the first and another to the second.               *)
(***************************************************************************)
EXTENDS Integers

CONSTANTS
  Devices, NoDevice,   \* the numbers of the GPUs
  Gpus, NoGpu,
  CudaGpu, NvmlGpu,    \* the GPU that CUDA, or NVML, gives for a number
  MaxCalls,     \* bound: starts of the monitor
  MaxReadings   \* bound: readings are numbered from 1 to this, over and over

ASSUME MonitorAssumption ==
  /\ NoDevice \notin Devices /\ NoGpu \notin Gpus
  /\ {CudaGpu, NvmlGpu} \subseteq [Devices -> Gpus]
  /\ MaxCalls \in Nat /\ MaxReadings \in Nat \ {0}

VARIABLES
  run,      \* g_run
  index,    \* g_index
  mutex,    \* who holds g_mutex
  shared,   \* g_sample: the GPU of its static fields, its temperature and power
  sampler,  \* where the thread is
  local,    \* the thread's own sample
  readings, \* the number of the latest reading
  caller,   \* where the calling thread is
  wants,    \* the device it asked for
  out,      \* its copy of the sample
  seed,     \* (history) whether the latest start filled g_sample
  before,   \* (history) g_sample as that start found it
  calls     \* bound counter

thread == <<sampler, local, readings>>
client == <<caller, wants, out, seed, before, calls>>

vars == <<run, index, mutex, shared, thread, client>>

Unread == 0

\* What a sample has: the static fields of a GPU, and two values that NVML gives
\* one by one, of a GPU too.
Blank(gpu) == [static |-> gpu, temp |-> Unread, power |-> Unread, of |-> NoGpu]

Samples == [static : Gpus \cup {NoGpu}, temp : 0 .. MaxReadings,
            power : 0 .. MaxReadings, of : Gpus \cup {NoGpu}]

SamplerSteps == {"none", "handle", "head", "temp", "power", "lock", "store temp", "store rest",
                 "sleep", "ended"}
CallerSteps  == {"idle", "lock", "copy temp", "copy rest", "sampled", "join", "terminated"}

TypeOK ==
  /\ run \in BOOLEAN
  /\ index \in Devices \cup {NoDevice}
  /\ mutex \in {"free", "sampler", "caller"}
  /\ shared \in Samples
  /\ sampler \in SamplerSteps
  /\ caller \in CallerSteps
  /\ {local, out, before} \subseteq Samples
  /\ seed \in {"filled", "failed"}
  /\ wants \in Devices \cup {NoDevice}
  /\ sampler \in {"store temp", "store rest"} => mutex = "sampler"
  /\ caller \in {"copy temp", "copy rest"} => mutex = "caller"
  /\ readings \in 0 .. MaxReadings
  /\ calls \in 0 .. MaxCalls

Init ==
  /\ run = FALSE
  /\ index = NoDevice
  /\ mutex = "free"
  /\ shared = Blank(NoGpu)
  /\ sampler = "none"
  /\ local = Blank(NoGpu)
  /\ readings = 0
  /\ caller = "idle"
  /\ wants = NoDevice
  /\ out = Blank(NoGpu)
  /\ seed = "failed"
  /\ before = Blank(NoGpu)
  /\ calls = 0

-----------------------------------------------------------------------------
(* The sampler thread. *)

Running == sampler \notin {"none", "ended"}

\* Without a handle of the device the thread ends at once.
GetHandle ==
  /\ sampler = "handle"
  /\ sampler' \in {"head", "ended"}
  /\ UNCHANGED <<run, index, mutex, shared, local, readings, client>>

\* The thread goes on while g_run is set; its local sample starts blank.
TestRun ==
  /\ sampler = "head"
  /\ IF run THEN /\ readings' = (readings % MaxReadings) + 1
                 /\ sampler' = "temp"
                 /\ local' = [Blank(NoGpu) EXCEPT !.of = NvmlGpu[index]]
            ELSE sampler' = "ended" /\ UNCHANGED <<local, readings>>
  /\ UNCHANGED <<run, index, mutex, shared, client>>

\* NVML gives each value, or fails and leaves it as it is.
Read(field, next) ==
  /\ sampler = field
  /\ sampler' = next
  /\ \E value \in {Unread, readings} : local' = [local EXCEPT ![field] = value]
  /\ UNCHANGED <<run, index, mutex, shared, readings, client>>

Lock ==
  /\ sampler = "lock"
  /\ mutex = "free"
  /\ mutex' = "sampler"
  /\ sampler' = "store temp"
  /\ UNCHANGED <<run, index, shared, local, readings, client>>

\* The static fields of g_sample are kept, the others replaced: one after another.
StoreTemp ==
  /\ sampler = "store temp"
  /\ shared' = [shared EXCEPT !.temp = local.temp]
  /\ local' = [local EXCEPT !.static = shared.static]
  /\ sampler' = "store rest"
  /\ UNCHANGED <<run, index, mutex, readings, client>>

StoreRest ==
  /\ sampler = "store rest"
  /\ shared' = local
  /\ mutex' = "free"
  /\ sampler' = "sleep"
  /\ UNCHANGED <<run, index, local, readings, client>>

Wake ==
  /\ sampler = "sleep"
  /\ sampler' = "head"
  /\ UNCHANGED <<run, index, mutex, shared, local, readings, client>>

SamplerNext ==
  \/ GetHandle \/ TestRun \/ Read("temp", "power") \/ Read("power", "lock")
  \/ Lock \/ StoreTemp \/ StoreRest \/ Wake

-----------------------------------------------------------------------------
(* The calling thread. *)

\* g_sample as prl_get_device_info leaves it, called on it for device d: cleared and
\* filled, or untouched when CUDA does not give the properties.
FilledFor(d) == Blank(CudaGpu[d])

\* prl_nvml_start, with a device whose properties CUDA gave to device_info: nvmlInit
\* may fail; else fill g_sample, without looking whether that succeeded, and start
\* the thread.  A thread object that is joinable must not be assigned to:
\* std::terminate.
StartFor(filled(_)) ==
  /\ caller = "idle"
  /\ calls < MaxCalls
  /\ calls' = calls + 1
  /\ wants' \in Devices
  /\ out' = Blank(CudaGpu[wants'])
  /\ before' = shared
  /\ \/ \* device_info reports the static fields it has, and no more
        seed' = "filled" /\ UNCHANGED <<run, index, shared, sampler, caller>>
     \/ /\ index' = wants'
        /\ seed' \in {"filled", "failed"}
        /\ shared' = IF seed' = "filled" THEN filled(wants') ELSE shared
        /\ run' = TRUE
        /\ IF Running THEN caller' = "terminated" /\ UNCHANGED sampler
                      ELSE caller' = "lock" /\ sampler' = "handle"
  /\ UNCHANGED <<mutex, local, readings>>

\* Mutant: the readings of the device before are not cleared (no memset).
KeepReadings(d) == [shared EXCEPT !.static = CudaGpu[d]]

StartUncleared == StartFor(KeepReadings)

Start == StartFor(FilledFor)

\* prl_nvml_sample: lock, copy, unlock.
SampleLock ==
  /\ caller = "lock"
  /\ mutex = "free"
  /\ mutex' = "caller"
  /\ caller' = "copy temp"
  /\ UNCHANGED <<run, index, shared, thread, wants, out, seed, before, calls>>

CopyTemp ==
  /\ caller = "copy temp"
  /\ out' = [out EXCEPT !.temp = shared.temp]
  /\ caller' = "copy rest"
  /\ UNCHANGED <<run, index, mutex, shared, thread, wants, seed, before, calls>>

CopyRest ==
  /\ caller = "copy rest"
  /\ out' = [shared EXCEPT !.temp = out.temp]
  /\ caller' = "sampled"
  /\ mutex' = "free"
  /\ UNCHANGED <<run, index, shared, thread, wants, seed, before, calls>>

\* prl_nvml_stop: clear g_run, wait for the thread.
StopWith(flag) ==
  /\ caller = "sampled"
  /\ run' = flag
  /\ caller' = "join"
  /\ UNCHANGED <<index, mutex, shared, thread, wants, out, seed, before, calls>>

\* Mutant: g_run is left set.
StopForgetting == StopWith(TRUE)

Stop == StopWith(FALSE)

JoinWhen(over) ==
  /\ caller = "join"
  /\ over
  /\ caller' = "idle"
  /\ UNCHANGED <<run, index, mutex, shared, thread, wants, out, seed, before, calls>>

\* Mutant: the thread is not waited for.
JoinNot == JoinWhen(TRUE)

Join == JoinWhen(~Running)

CallerNext ==
  \/ Start \/ SampleLock \/ CopyTemp \/ CopyRest \/ Stop \/ Join

\* All calls made, or terminated.
Over ==
  /\ caller = "terminated" \/ (caller = "idle" /\ calls = MaxCalls)
  /\ UNCHANGED vars

Next == SamplerNext \/ CallerNext \/ Over

\* The thread is scheduled, and so is a caller that waits for it.
Fairness == WF_vars(SamplerNext) /\ WF_vars(Join)

Spec == Init /\ [][Next]_vars /\ Fairness

-----------------------------------------------------------------------------

Sampled == caller \in {"sampled", "join", "idle"} /\ wants # NoDevice

\* The values of x were read together; on the GPU that NVML gives for device d.
OneReading(x) == x.temp # Unread /\ x.power # Unread => x.temp = x.power
ReadOn(x, d)  == x.temp # Unread \/ x.power # Unread => x.of = NvmlGpu[d]

\* No copy is torn by the sampler's stores: the values of a sample were read
\* together.  They were read on the GPU that NVML gives for the number asked for, and
\* the static fields are those that CUDA gives for it: nothing is left of the device
\* asked for before.  Unless the start could not fill g_sample, which it ignores: then
\* the caller has the sample of before as it was, or its static fields with values
\* read since.
SampleIsOneReading ==
  Sampled =>
    /\ OneReading(out)
    /\ IF seed = "filled" THEN out.static = CudaGpu[wants] /\ ReadOn(out, wants)
       ELSE /\ out.static = before.static
            /\ out = before \/ ReadOn(out, wants)

\* The monitor's thread never outlives its stop, so that a second start finds no
\* thread to replace (std::terminate), and nvmlShutdown no thread that uses NVML.
NoThreadLeft == caller # "terminated" /\ (caller = "idle" => ~Running)

\* A stop returns: the thread ends whatever it is in the middle of.
StopReturns == caller = "join" ~> caller = "idle"

\* "one-shot NVML read for live temp/power": device_info reads after starting the
\* monitor, so what it reports of a device NVML reads well is a reading.
OneShotIsLive == caller = "join" /\ seed = "filled" => out.of # NoGpu
=============================================================================
