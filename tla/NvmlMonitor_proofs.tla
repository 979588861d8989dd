-------------------------- MODULE NvmlMonitor_proofs --------------------------
(***************************************************************************)
(* Proofs for NvmlMonitor: a sample is one reading, of the GPU that NVML    *)
(* gives for the number asked for (or the sample of before, when the start  *)
(* could not fill it), and no sampler thread is left when its stop has      *)
(* returned, for any GPUs, however numbered, and any number of calls.       *)
(***************************************************************************)
EXTENDS NvmlMonitor, TLAPS

Storing == {"store temp", "store rest"}
Copying == {"copy temp", "copy rest"}
Busy    == CallerSteps \ {"idle", "terminated"}

\* The mutex is held in the two critical sections and nowhere else; the flag is
\* set until the stop; the thread is gone when the caller is.
Control ==
  /\ mutex = "sampler" <=> sampler \in Storing
  /\ mutex = "caller" <=> caller \in Copying
  /\ NoThreadLeft
  /\ caller \in Busy => index = wants /\ index \in Devices

\* What a sample may hold for the latest start, which was for device d.
ForStart(x, d) ==
  IF seed = "filled" THEN x.static = CudaGpu[d] /\ ReadOn(x, d)
  ELSE x.static = before.static /\ (x = before \/ ReadOn(x, d))

\* While the thread runs, its local sample is of the reading it is taking.
LocalInv ==
  Running =>
    /\ sampler \in {"temp", "power", "lock", "store temp", "store rest"} =>
         /\ local.of = NvmlGpu[index]
         /\ local.temp \in {Unread, readings}
         /\ local.power \in {Unread, readings}
    /\ sampler = "temp" => local.temp = Unread
    /\ sampler \in {"temp", "power"} => local.power = Unread
    /\ sampler = "store rest" => local.static = shared.static

\* g_sample is of one reading but between the stores; while the caller is at work,
\* it is what the start may have made of it.
SharedInv ==
  /\ sampler # "store rest" => OneReading(shared)
  /\ caller \in Busy =>
       IF sampler = "store rest"
       THEN /\ shared.temp = local.temp
            /\ shared.static = IF seed = "filled" THEN CudaGpu[index] ELSE before.static
       ELSE ForStart(shared, index)

\* A copy that is being made is of the sample as it stands.
CopyInv == caller = "copy rest" => out.temp = shared.temp

IInv == TypeOK /\ Control /\ LocalInv /\ SharedInv /\ CopyInv /\ SampleIsOneReading

-----------------------------------------------------------------------------

\* The sample a start publishes, before any reading, is one of the samples.
LEMMA BlankIsSample == \A g \in Gpus \cup {NoGpu} : Blank(g) \in Samples
BY MonitorAssumption DEF Blank, Samples, Unread

\* Readings are numbered within their bound.
LEMMA NextReading ==
  \A r \in 0 .. MaxReadings : (r % MaxReadings) + 1 \in 0 .. MaxReadings
BY MonitorAssumption

\* A value read, or not, leaves a sample a sample.
LEMMA ReadIsSample ==
  \A x \in Samples, r \in 0 .. MaxReadings : \A v \in {Unread, r} :
    [x EXCEPT !["temp"] = v] \in Samples /\ [x EXCEPT !["power"] = v] \in Samples
<1>1. \A r \in 0 .. MaxReadings : \A v \in {Unread, r} : v \in 0 .. MaxReadings
  BY MonitorAssumption DEF Unread
<1>2. \A x \in Samples, v \in 0 .. MaxReadings :
        [x EXCEPT !["temp"] = v] \in Samples /\ [x EXCEPT !["power"] = v] \in Samples
  BY DEF Samples
<1> QED  BY <1>1, <1>2

\* A monitor just made has no thread and its mutex is free.
LEMMA InitIInv == Init => IInv
<1> SUFFICES ASSUME Init PROVE IInv
  OBVIOUS
<1> USE DEF Init
<1>1. TypeOK
  <2>1. Blank(NoGpu) \in Samples /\ 0 \in 0 .. MaxReadings /\ 0 \in 0 .. MaxCalls
    BY BlankIsSample, MonitorAssumption
  <2> QED  BY <2>1 DEF TypeOK, SamplerSteps, CallerSteps
<1>2. Control /\ LocalInv /\ SharedInv /\ CopyInv
  BY MonitorAssumption DEF Control, NoThreadLeft, LocalInv, SharedInv, CopyInv, OneReading, Blank, Storing, Copying, Busy, Running
<1>3. SampleIsOneReading
  BY DEF SampleIsOneReading, Sampled
<1> QED  BY <1>1, <1>2, <1>3 DEF IInv

\* The sampler's steps that touch nothing but the thread.
LEMMA SamplerStepIInv ==
  ASSUME IInv, GetHandle \/ TestRun \/ Read("temp", "power") \/ Read("power", "lock") \/ Wake
  PROVE  IInv'
<1> USE DEF thread, client, GetHandle, TestRun, Read, Wake
<1>1. TypeOK'
  <2>0. TypeOK
    BY DEF IInv
  <2>1. local' \in Samples
    <3>1. CASE GetHandle \/ Wake
      BY <2>0, <3>1 DEF TypeOK
    <3>2. CASE TestRun
      <4>1. [Blank(NoGpu) EXCEPT !.of = NvmlGpu[index]] \in Samples
        <5>1. Running /\ index \in Devices
          BY <3>2 DEF IInv, TypeOK, Control, NoThreadLeft, Running, Busy
        <5> QED  BY <5>1, BlankIsSample, MonitorAssumption DEF Samples
      <4> QED  BY <2>0, <3>2, <4>1 DEF TypeOK
    <3>5. CASE Read("temp", "power") \/ Read("power", "lock")
      <4>1. local \in Samples /\ readings \in 0 .. MaxReadings
        BY <2>0 DEF TypeOK
      <4>2. \E v \in {Unread, readings} :
              local' = [local EXCEPT !["temp"] = v] \/ local' = [local EXCEPT !["power"] = v]
        BY <3>5
      <4> HIDE DEF Read
      <4> QED  BY <4>1, <4>2, ReadIsSample
    <3> QED  BY <3>1, <3>2, <3>5
  <2>2. readings' \in 0 .. MaxReadings
    BY <2>0, NextReading DEF TypeOK
  <2>3. sampler' \in SamplerSteps
    BY <2>0 DEF TypeOK, SamplerSteps
  <2> QED  BY <2>0, <2>1, <2>2, <2>3 DEF TypeOK
<1>2. Control'
  BY DEF IInv, TypeOK, Control, NoThreadLeft, Running, Storing, Copying, Busy
<1>3. LocalInv'
  BY DEF IInv, TypeOK, LocalInv, Running, Blank, Unread, Samples
<1>4. SharedInv' /\ CopyInv' /\ SampleIsOneReading'
  BY DEF IInv, TypeOK, SharedInv, CopyInv, SampleIsOneReading, OneReading, ReadOn, ForStart, Sampled, Busy
<1> QED  BY <1>1, <1>2, <1>3, <1>4 DEF IInv

\* The sampler's critical section.
LEMMA StoreIInv ==
  ASSUME IInv, Lock \/ StoreTemp \/ StoreRest
  PROVE  IInv'
<1> USE DEF thread, client, Lock, StoreTemp, StoreRest
<1>1. TypeOK'
  BY DEF IInv, TypeOK, Samples, SamplerSteps, CallerSteps
<1>2. Control'
  BY DEF IInv, TypeOK, Control, NoThreadLeft, Running, Storing, Copying, Busy, CallerSteps
<1>3. LocalInv'
  BY DEF IInv, TypeOK, LocalInv, Running, Unread, Samples
<1>4. SharedInv'
  BY DEF IInv, TypeOK, SharedInv, LocalInv, OneReading, ReadOn, ForStart, Busy, Running, Samples, Unread, CallerSteps
<1>5. CopyInv' /\ SampleIsOneReading'
  BY DEF IInv, TypeOK, Control, CopyInv, SampleIsOneReading, OneReading, ReadOn, Sampled, Storing, Copying
<1> QED  BY <1>1, <1>2, <1>3, <1>4, <1>5 DEF IInv

\* start finds no thread running, so the one it makes is the only one.
LEMMA StartIInv ==
  ASSUME IInv, Start
  PROVE  IInv'
<1> USE DEF thread, client, Start, StartFor
<1>0. ~Running /\ caller = "idle"
  BY DEF IInv, Control, NoThreadLeft
<1>1. TypeOK'
  <2>0. TypeOK /\ mutex # "sampler" /\ mutex # "caller"
    BY <1>0 DEF IInv, Control, Running, Storing, Copying
  <2>1. wants' \in Devices /\ Blank(CudaGpu[wants']) \in Samples
    BY BlankIsSample, MonitorAssumption
  <2>3. shared' \in Samples /\ seed' \in {"filled", "failed"}
    BY <2>0, <2>1 DEF TypeOK, FilledFor
  <2>4. index' \in Devices \cup {NoDevice} /\ run' \in BOOLEAN
    BY <2>0, <2>1 DEF TypeOK
  <2>2. calls' \in 0 .. MaxCalls
    <3>1. calls < MaxCalls /\ calls' = calls + 1
      OBVIOUS
    <3>2. calls \in 0 .. MaxCalls
      BY <2>0 DEF TypeOK
    <3> HIDE DEF Start, StartFor
    <3> QED  BY <3>1, <3>2, MonitorAssumption
  <2> QED  BY <1>0, <2>0, <2>1, <2>2, <2>3, <2>4 DEF TypeOK, SamplerSteps, CallerSteps
<1>2. Control'
  BY <1>0 DEF IInv, TypeOK, Control, NoThreadLeft, Running, Storing, Copying, Busy, CallerSteps
<1>3. LocalInv'
  BY <1>0 DEF IInv, LocalInv, Running
<1>4. OneReading(shared) /\ sampler # "store rest"
  BY <1>0 DEF IInv, SharedInv, Running
<1>5. SharedInv' /\ SampleIsOneReading'
  <2>1. CASE UNCHANGED <<run, index, shared, sampler, caller>> /\ seed' = "filled"
    BY <1>0, <1>4, <2>1
       DEF SharedInv, SampleIsOneReading, OneReading, ReadOn, ForStart, Blank, Busy
  <2>2. CASE index' = wants' /\ caller' = "lock" /\ sampler' = "handle" /\ seed' = "filled"
    <3>1. shared' = Blank(CudaGpu[wants'])
      BY <2>2 DEF FilledFor
    <3> QED  BY <2>2, <3>1
             DEF SharedInv, SampleIsOneReading, OneReading, ReadOn, ForStart, Blank, Sampled
  <2>3. CASE index' = wants' /\ caller' = "lock" /\ sampler' = "handle" /\ seed' = "failed"
    <3>1. shared' = shared /\ before' = shared
      BY <2>3
    <3> QED  BY <1>4, <2>3, <3>1
             DEF SharedInv, SampleIsOneReading, OneReading, ReadOn, ForStart, Sampled
  <2> QED  BY <1>0, <2>1, <2>2, <2>3
<1>6. CopyInv'
  BY <1>0 DEF CopyInv
<1> QED  BY <1>1, <1>2, <1>3, <1>5, <1>6 DEF IInv

\* The caller's critical section.
LEMMA CopyIInv ==
  ASSUME IInv, SampleLock \/ CopyTemp \/ CopyRest
  PROVE  IInv'
<1> USE DEF thread, client, SampleLock, CopyTemp, CopyRest
<1>1. TypeOK'
  BY DEF IInv, TypeOK, Samples, SamplerSteps, CallerSteps
<1>2. Control'
  BY DEF IInv, TypeOK, Control, NoThreadLeft, Running, Storing, Copying, Busy, CallerSteps
<1>3. LocalInv'
  BY DEF IInv, LocalInv, Running
<1>4. SharedInv'
  BY DEF IInv, SharedInv, OneReading, ReadOn, ForStart, Busy, CallerSteps
<1>5. CopyInv'
  BY DEF IInv, TypeOK, CopyInv, Samples
<1>6. SampleIsOneReading'
  <2>1. CASE CopyRest
    <3>1. caller = "copy rest" /\ out.temp = shared.temp /\ sampler # "store rest"
      BY <2>1 DEF IInv, Control, CopyInv, Storing, Copying
    <3>2. OneReading(shared) /\ ForStart(shared, wants)
      BY <3>1 DEF IInv, Control, SharedInv, Busy, CallerSteps
    <3>3. out' = shared /\ wants' = wants
      BY <2>1, <3>1 DEF IInv, TypeOK, Samples
    <3> QED  BY <2>1, <3>2, <3>3 DEF SampleIsOneReading, OneReading, ReadOn, ForStart
  <2>2. CASE SampleLock \/ CopyTemp
    BY <2>2 DEF IInv, TypeOK, SampleIsOneReading, OneReading, ReadOn, Sampled
  <2> QED  BY <2>1, <2>2
<1> QED  BY <1>1, <1>2, <1>3, <1>4, <1>5, <1>6 DEF IInv

\* stop clears the flag under which the thread goes on, and waits for it.
LEMMA StopIInv ==
  ASSUME IInv, Stop \/ Join
  PROVE  IInv'
<1> USE DEF thread, client, Stop, StopWith, Join, JoinWhen
<1>1. TypeOK'
  BY DEF IInv, TypeOK, Samples, SamplerSteps, CallerSteps
<1>2. Control'
  BY DEF IInv, TypeOK, Control, NoThreadLeft, Running, Storing, Copying, Busy, CallerSteps
<1>3. LocalInv' /\ SharedInv' /\ CopyInv'
  BY DEF IInv, TypeOK, LocalInv, SharedInv, CopyInv, OneReading, ReadOn, ForStart, Running, Busy, CallerSteps
<1>4. SampleIsOneReading'
  BY DEF IInv, TypeOK, SampleIsOneReading, OneReading, ReadOn, Sampled
<1> QED  BY <1>1, <1>2, <1>3, <1>4 DEF IInv

\* Every step keeps the inductive invariant.
LEMMA NextIInv == IInv /\ [Next]_vars => IInv'
<1>1. ASSUME IInv, UNCHANGED vars PROVE IInv'
  <2> USE DEF vars, thread, client
  <2>1. TypeOK' /\ Control' /\ LocalInv' /\ CopyInv'
    BY <1>1 DEF IInv, TypeOK, Control, NoThreadLeft, LocalInv, CopyInv, Running
  <2>2. SharedInv'
    BY <1>1 DEF IInv, SharedInv, OneReading, ReadOn, ForStart
  <2>3. SampleIsOneReading'
    BY <1>1 DEF IInv, SampleIsOneReading, OneReading, ReadOn, Sampled
  <2> QED  BY <2>1, <2>2, <2>3 DEF IInv
<1> QED
  BY <1>1, SamplerStepIInv, StoreIInv, StartIInv, CopyIInv, StopIInv
     DEF Next, SamplerNext, CallerNext, Over

\* The inductive invariant holds throughout.
LEMMA SpecIInv == Spec => []IInv
<1> QED  BY InitIInv, NextIInv, PTL DEF Spec

\* The state of the monitor keeps its types, and its mutex its discipline.
THEOREM MonitorTypeCorrect == Spec => []TypeOK
<1>1. IInv => TypeOK
  BY DEF IInv
<1> QED  BY SpecIInv, <1>1, PTL

\* A sample is never torn, nor left over from another device.
THEOREM SamplesAreWhole == Spec => []SampleIsOneReading
<1>1. IInv => SampleIsOneReading
  BY DEF IInv
<1> QED  BY SpecIInv, <1>1, PTL

\* No sampler thread outlives the stop that ends it.
THEOREM StopLeavesNoThread == Spec => []NoThreadLeft
<1>1. IInv => NoThreadLeft
  BY DEF IInv, Control
<1> QED  BY SpecIInv, <1>1, PTL
=============================================================================
