-------------------------- MODULE MinePipeline_proofs --------------------------
(***************************************************************************)
(* Proofs for MinePipeline, for any number of threads, steps and steps in a *)
(* chunk, with and without the transposition: the copies never race with    *)
(* the reads, and the transcripts are those of the reference.               *)
(***************************************************************************)
EXTENDS MinePipeline, TLAPS

\* The barriers keep the threads in the same part of the same step: Part numbers
\* the parts between two barriers, three to a step.
Part(t) ==
  CASE pc[t] \in {"transpose", "turned"} -> 3 * ks[t] + 1
    [] pc[t] \in {"multiply", "used"} -> 3 * ks[t] + 2
    [] pc[t] = "hash" -> 3 * ks[t] + 3
    [] OTHER -> 3 * ks[t]

InStep == \A t, u \in Threads : Part(t) = Part(u)

Before == {"begin", "load", "wait"}
Filling == {"wait", "filled", "transpose", "turned", "multiply", "used"}

\* A copy in flight is for this step only before the wait, and for the next only
\* after the load.
Flights(t) ==
  \A c \in flying[t] :
    /\ c.stage = Stage(c.step)
    /\ pc[t] # "begin"
    /\ pc[t] = "load" => c.step = ks[t]
    /\ pc[t] = "wait" => c.step \in {ks[t], ks[t] + 1}
    /\ pc[t] \notin Before => c.step = ks[t] + 1

\* The slice of a step has landed, or is in flight.
Copied(t, m, step) ==
  \/ [of |-> m, stage |-> Stage(step), step |-> step] \in flying[t]
  \/ stages[m][Stage(step)][t] = step

Slices(t) ==
  \A m \in {"A", "B"} :
    /\ pc[t] \in Filling \cup {"load"} => Copied(t, m, ks[t])
    /\ pc[t] \in Filling \cup {"hash"} /\ ks[t] + 1 < Steps => Copied(t, m, ks[t] + 1)

\* Only one way through a step is taken, and what was transposed is this step's.
TurnedInv(t) ==
  /\ pc[t] \in {"transpose", "turned"} => Transposes
  /\ Transposes /\ pc[t] \in {"turned", "multiply", "used"} => turned[Stage(ks[t])][t] = ks[t]

StepInv(t) ==
  /\ pc[t] = "begin" => ks[t] = 0
  /\ pc[t] = "done" <=> ks[t] = Steps

AccInv(t) == acc[t] = IF pc[t] \in {"used", "hash"} THEN ks[t] + 1 ELSE ks[t]

Folds(step) == [i \in 1 .. step \div Chunk |-> i * Chunk]

FoldInv(t) == folded[t] = Folds(ks[t])

ThreadInv(t) == StepInv(t) /\ Flights(t) /\ Slices(t) /\ TurnedInv(t) /\ AccInv(t) /\ FoldInv(t)

IInv == TypeOK /\ InStep /\ \A t \in Threads : ThreadInv(t)

-----------------------------------------------------------------------------

\* The two stages alternate.
LEMMA StageAlternates ==
  \A k \in Nat : Stage(k) \in {0, 1} /\ Stage(k + 1) # Stage(k)
BY DEF Stage

\* A step that ends a chunk begins the next multiple of Chunk; no other does.
LEMMA ChunkEnd ==
  ASSUME NEW k \in Nat
  PROVE  /\ k \div Chunk \in Nat
         /\ EndsChunk(k) => /\ (k + 1) \div Chunk = (k \div Chunk) + 1
                            /\ ((k \div Chunk) + 1) * Chunk = k + 1
         /\ ~EndsChunk(k) => (k + 1) \div Chunk = k \div Chunk
<1>1. Chunk \in Nat /\ Chunk > 0
  BY PipelineAssumption
<1>2. PICK q \in Nat, r \in 0 .. Chunk - 1 : k = q * Chunk + r
  <2>1. k \div Chunk \in Nat /\ k % Chunk \in 0 .. Chunk - 1 /\ k = (k \div Chunk) * Chunk + (k % Chunk)
    BY <1>1
  <2> QED  BY <2>1
<1>3. k \div Chunk = q
  BY <1>1, <1>2
<1>4. CASE r = Chunk - 1
  BY <1>1, <1>2, <1>3, <1>4 DEF EndsChunk
<1>5. CASE r # Chunk - 1
  BY <1>1, <1>2, <1>3, <1>5 DEF EndsChunk
<1> QED  BY <1>4, <1>5

\* What is folded grows by one sum at the end of a chunk.
LEMMA FoldsGrow ==
  ASSUME NEW k \in Nat
  PROVE  Folds(k + 1) = IF EndsChunk(k) THEN Append(Folds(k), k + 1) ELSE Folds(k)
<1> DEFINE n == k \div Chunk
<1>1. n \in Nat /\ Chunk \in Nat
  BY ChunkEnd, PipelineAssumption
<1>2. CASE EndsChunk(k)
  <2>1. (k + 1) \div Chunk = n + 1 /\ (n + 1) * Chunk = k + 1
    BY <1>2, ChunkEnd
  <2> HIDE DEF n
  <2>2. Folds(k) = [i \in 1 .. n |-> i * Chunk] /\ Folds(k + 1) = [i \in 1 .. n + 1 |-> i * Chunk]
    BY <2>1 DEF Folds, n
  <2>3. Folds(k) \in Seq(Nat) /\ Len(Folds(k)) = n
    BY <1>1, <2>2
  <2>4. \A i \in 1 .. n + 1 : Append(Folds(k), k + 1)[i] = i * Chunk
    <3>1. ASSUME NEW i \in 1 .. n PROVE Append(Folds(k), k + 1)[i] = i * Chunk
      <4>1. Append(Folds(k), k + 1)[i] = Folds(k)[i]
        BY <1>1, <2>3
      <4> QED  BY <2>2, <4>1
    <3>2. Append(Folds(k), k + 1)[n + 1] = (n + 1) * Chunk
      BY <1>1, <2>1, <2>3
    <3>3. \A i \in 1 .. n + 1 : i \in 1 .. n \/ i = n + 1
      BY <1>1
    <3> QED  BY <3>1, <3>2, <3>3
  <2>5. Append(Folds(k), k + 1) = [i \in 1 .. n + 1 |-> Append(Folds(k), k + 1)[i]]
    BY <1>1, <2>3
  <2> QED  BY <1>2, <2>2, <2>4, <2>5
<1>3. CASE ~EndsChunk(k)
  BY <1>3, ChunkEnd DEF Folds
<1> QED  BY <1>2, <1>3

\* A block starts with empty stages and nothing in flight.
LEMMA InitIInv == Init => IInv
<1> SUFFICES ASSUME Init PROVE IInv
  OBVIOUS
<1> USE DEF Init
<1>1. TypeOK
  BY PipelineAssumption DEF TypeOK, Places, Contents, Junk, Copies
<1>2. InStep
  BY DEF InStep, Part
<1>3. ASSUME NEW t \in Threads PROVE ThreadInv(t)
  <2>1. Folds(0) = << >>
    <3>1. 0 \div Chunk = 0
      BY PipelineAssumption
    <3> QED  BY <3>1 DEF Folds
  <2> QED
    BY <2>1, PipelineAssumption
       DEF ThreadInv, StepInv, Flights, Slices, TurnedInv, AccInv, FoldInv, Filling
<1> QED  BY <1>1, <1>2, <1>3 DEF IInv

-----------------------------------------------------------------------------

\* The invariant of a thread that a step leaves alone.
LEMMA Unmoved ==
  ASSUME TypeOK, NEW u \in Threads, ThreadInv(u),
         pc'[u] = pc[u], ks'[u] = ks[u], flying'[u] = flying[u], acc'[u] = acc[u],
         folded'[u] = folded[u],
         \A m \in {"A", "B"}, s \in {0, 1} : stages'[m][s][u] = stages[m][s][u],
         \A s \in {0, 1} : turned'[s][u] = turned[s][u]
  PROVE  ThreadInv(u)'
<1>1. ks[u] \in Nat /\ Stage(ks[u]) \in {0, 1} /\ Stage(ks[u] + 1) \in {0, 1}
  <2>1. ks[u] \in Nat
    BY PipelineAssumption DEF TypeOK
  <2> QED  BY <2>1, StageAlternates
<1>2. StepInv(u)' /\ Flights(u)' /\ AccInv(u)' /\ FoldInv(u)'
  BY DEF ThreadInv, StepInv, Flights, AccInv, FoldInv
<1>3. Slices(u)'
  BY <1>1 DEF ThreadInv, Slices, Copied
<1>4. TurnedInv(u)'
  BY <1>1 DEF ThreadInv, TurnedInv
<1> QED  BY <1>2, <1>3, <1>4 DEF ThreadInv

\* The parts of a thread that a step leaves where it was, and so InStep.
LEMMA StaysInStep ==
  ASSUME InStep, \A u \in Threads : Part(u)' = Part(u)
  PROVE  InStep'
BY DEF InStep

\* The first copies go to a stage that nobody reads yet.
LEMMA BeginIInv ==
  ASSUME IInv, NEW t \in Threads, Begin(t)
  PROVE  IInv'
<1> USE DEF Begin, Go
<1>0. TypeOK /\ pc[t] = "begin" /\ ks[t] = 0 /\ flying[t] = {} /\ ThreadInv(t)
  BY DEF IInv, ThreadInv, StepInv, Flights
<1>1. flying' = [flying EXCEPT ![t] = [of : {"A", "B"}, stage : {0}, step : {0}]]
  BY <1>0 DEF Issue
<1>2. TypeOK'
  BY <1>0, <1>1, PipelineAssumption DEF TypeOK, Places, Copies
<1>3. InStep'
  BY <1>0, StaysInStep DEF IInv, TypeOK, Part
<1>4. ThreadInv(t)'
  <2>1. pc'[t] = "load" /\ ks'[t] = 0
    BY <1>0 DEF TypeOK
  <2>2. flying'[t] = [of : {"A", "B"}, stage : {0}, step : {0}]
    BY <1>0, <1>1 DEF TypeOK
  <2>3. Stage(0) = 0
    BY DEF Stage
  <2>4. StepInv(t)' /\ TurnedInv(t)' /\ AccInv(t)' /\ FoldInv(t)'
    BY <1>0, <2>1, PipelineAssumption DEF ThreadInv, StepInv, TurnedInv, AccInv, FoldInv
  <2>5. Flights(t)'
    BY <2>1, <2>2, <2>3 DEF Flights, Before
  <2>6. Slices(t)'
    BY <2>1, <2>2, <2>3 DEF Slices, Copied, Filling
  <2> QED  BY <2>4, <2>5, <2>6 DEF ThreadInv
<1>5. ASSUME NEW u \in Threads, u # t PROVE ThreadInv(u)'
  BY <1>0, <1>1, <1>5, Unmoved DEF IInv, TypeOK
<1> QED  BY <1>2, <1>3, <1>4, <1>5 DEF IInv

\* The copies of the next step go to the stage that this step does not read.
LEMMA LoadIInv ==
  ASSUME IInv, NEW t \in Threads, Load(t)
  PROVE  IInv'
<1> USE DEF Load, LoadFrom, Go
<1> DEFINE k == ks[t]
           group == [of : {"A", "B"}, stage : {Stage(k + 1)}, step : {k + 1}]
<1>0. TypeOK /\ pc[t] = "load" /\ ThreadInv(t) /\ k \in Nat
  BY DEF IInv, TypeOK
<1>1. flying' = IF k + 1 < Steps THEN [flying EXCEPT ![t] = @ \cup group] ELSE flying
  BY <1>0 DEF Issue
<1>2. Stage(k + 1) \in {0, 1}
  BY <1>0, StageAlternates
<1>3. TypeOK'
  <2>1. k + 1 < Steps => group \subseteq Copies
    BY <1>0, <1>2, PipelineAssumption DEF Copies
  <2>2. flying' \in [Threads -> SUBSET Copies]
    BY <1>0, <1>1, <2>1 DEF TypeOK
  <2> QED  BY <1>0, <2>2 DEF TypeOK, Places
<1>4. InStep'
  BY <1>0, StaysInStep DEF IInv, TypeOK, Part
<1>5. ThreadInv(t)'
  <2>1. pc'[t] = "wait" /\ ks'[t] = k /\ acc' = acc /\ folded' = folded /\ turned' = turned
    BY <1>0 DEF TypeOK
  <2>2. flying'[t] = IF k + 1 < Steps THEN flying[t] \cup group ELSE flying[t]
    BY <1>0, <1>1 DEF TypeOK
  <2>3. StepInv(t)' /\ TurnedInv(t)' /\ AccInv(t)' /\ FoldInv(t)'
    BY <1>0, <2>1 DEF ThreadInv, StepInv, TurnedInv, AccInv, FoldInv
  <2>4. Flights(t)'
    <3>1. \A c \in group : c.stage = Stage(k + 1) /\ c.step = k + 1
      OBVIOUS
    <3>2. \A c \in flying[t] : c.stage = Stage(c.step) /\ c.step = k
      BY <1>0 DEF ThreadInv, Flights
    <3> QED  BY <2>1, <2>2, <3>1, <3>2 DEF Flights, Before
  <2>5. Slices(t)'
    <3>1. \A m \in {"A", "B"} : Copied(t, m, k)
      BY <1>0 DEF ThreadInv, Slices
    <3>2. \A m \in {"A", "B"} : Copied(t, m, k)'
      BY <2>2, <3>1 DEF Copied
    <3>3. ASSUME NEW m \in {"A", "B"}, k + 1 < Steps PROVE Copied(t, m, k + 1)'
      BY <2>2, <3>3 DEF Copied
    <3> QED  BY <2>1, <3>2, <3>3 DEF Slices, Copied, Filling
  <2> QED  BY <2>3, <2>4, <2>5 DEF ThreadInv
<1>6. ASSUME NEW u \in Threads, u # t PROVE ThreadInv(u)'
  <2>1. flying'[u] = flying[u]
    BY <1>0, <1>1, <1>6 DEF TypeOK
  <2> QED  BY <1>0, <2>1, <1>6, Unmoved DEF IInv, TypeOK
<1> QED  BY <1>3, <1>4, <1>5, <1>6 DEF IInv

\* A copy that lands: its slice is there, and no longer in flight.
LEMMA LandIInv ==
  ASSUME IInv, NEW t \in Threads, Land(t)
  PROVE  IInv'
<1>0. TypeOK /\ ThreadInv(t) /\ ks[t] \in Nat
  BY DEF IInv, TypeOK
<1>1. PICK c \in flying[t] :
        /\ flying' = [flying EXCEPT ![t] = @ \ {c}]
        /\ stages' = [stages EXCEPT ![c.of][c.stage][t] = c.step]
        /\ UNCHANGED <<pc, ks, turned, acc, folded>>
  BY DEF Land
<1>2. /\ c \in Copies /\ c.of \in {"A", "B"} /\ c.stage \in {0, 1} /\ c.step \in 0 .. Steps - 1
      /\ c.stage = Stage(c.step)
  BY <1>0 DEF TypeOK, Copies, ThreadInv, Flights
<1>3. flying'[t] = flying[t] \ {c} /\ \A u \in Threads : u # t => flying'[u] = flying[u]
  BY <1>0, <1>1 DEF TypeOK
<1>4. \A m \in {"A", "B"}, s \in {0, 1}, u \in Threads :
        stages'[m][s][u] = IF m = c.of /\ s = c.stage /\ u = t THEN c.step ELSE stages[m][s][u]
  <2> DEFINE matrix == stages[c.of]
             slices == matrix[c.stage]
             newSlices == [slices EXCEPT ![t] = c.step]
             newMatrix == [matrix EXCEPT ![c.stage] = newSlices]
  <2>1. /\ stages \in [{"A", "B"} -> [{0, 1} -> [Threads -> Contents]]]
        /\ matrix \in [{0, 1} -> [Threads -> Contents]]
        /\ slices \in [Threads -> Contents]
    BY <1>0, <1>2 DEF TypeOK
  <2>2. stages' = [stages EXCEPT ![c.of] = newMatrix]
    BY <1>1
  <2>3. \A u \in Threads : newSlices[u] = IF u = t THEN c.step ELSE slices[u]
    BY <2>1
  <2> HIDE DEF newSlices
  <2>4. \A s \in {0, 1} : newMatrix[s] = IF s = c.stage THEN newSlices ELSE matrix[s]
    BY <1>2, <2>1
  <2> HIDE DEF newMatrix
  <2>5. \A m \in {"A", "B"} : stages'[m] = IF m = c.of THEN newMatrix ELSE stages[m]
    BY <1>2, <2>1, <2>2
  <2> QED  BY <2>3, <2>4, <2>5
<1>5. TypeOK'
  <2>1. flying' \in [Threads -> SUBSET Copies]
    BY <1>0, <1>1 DEF TypeOK
  <2>2. stages' \in [{"A", "B"} -> [{0, 1} -> [Threads -> Contents]]]
    <3> DEFINE matrix == stages[c.of]
               slices == matrix[c.stage]
               newSlices == [slices EXCEPT ![t] = c.step]
               newMatrix == [matrix EXCEPT ![c.stage] = newSlices]
    <3>1. /\ stages \in [{"A", "B"} -> [{0, 1} -> [Threads -> Contents]]]
          /\ matrix \in [{0, 1} -> [Threads -> Contents]]
          /\ slices \in [Threads -> Contents]
      BY <1>0, <1>2 DEF TypeOK
    <3>2. newSlices \in [Threads -> Contents]
      BY <1>2, <3>1 DEF Contents
    <3> HIDE DEF newSlices
    <3>3. newMatrix \in [{0, 1} -> [Threads -> Contents]]
      BY <1>2, <3>1, <3>2
    <3>4. stages' = [stages EXCEPT ![c.of] = newMatrix]
      BY <1>1 DEF newSlices
    <3> HIDE DEF newMatrix
    <3> QED  BY <1>2, <3>1, <3>3, <3>4
  <2> QED  BY <1>0, <1>1, <2>1, <2>2 DEF TypeOK
<1>6. InStep'
  BY <1>1, StaysInStep DEF IInv, Part
<1>7. ThreadInv(t)'
  <2>1. StepInv(t)' /\ TurnedInv(t)' /\ AccInv(t)' /\ FoldInv(t)'
    BY <1>0, <1>1 DEF ThreadInv, StepInv, TurnedInv, AccInv, FoldInv
  <2>2. Flights(t)'
    BY <1>0, <1>1, <1>3 DEF ThreadInv, Flights
  <2>3. ASSUME NEW m \in {"A", "B"}, NEW step \in {ks[t], ks[t] + 1}, Copied(t, m, step)
        PROVE  Copied(t, m, step)'
    <3>1. Stage(step) \in {0, 1}
      BY <1>0, StageAlternates
    <3>2. c.step \in {ks[t], ks[t] + 1}
      BY <1>0 DEF ThreadInv, Flights, Before
    <3>3. CASE c = [of |-> m, stage |-> Stage(step), step |-> step]
      <4>1. stages'[m][Stage(step)][t] = step
        BY <1>4, <3>1, <3>3
      <4> QED  BY <1>1, <4>1 DEF Copied
    <3>4. CASE c # [of |-> m, stage |-> Stage(step), step |-> step]
      <4>1. CASE [of |-> m, stage |-> Stage(step), step |-> step] \in flying[t]
        BY <1>3, <3>4, <4>1 DEF Copied
      <4>2. CASE stages[m][Stage(step)][t] = step
        <5>1. m = c.of /\ Stage(step) = c.stage => c.step = step
          BY <1>0, <1>2, <3>2, StageAlternates
        <5>2. stages'[m][Stage(step)][t] = step
          BY <1>4, <3>1, <4>2, <5>1
        <5> QED  BY <5>2 DEF Copied
      <4> QED  BY <2>3, <4>1, <4>2 DEF Copied
    <3> QED  BY <3>3, <3>4
  <2>4. Slices(t)'
    <3>1. PICK k : k = ks[t]
      OBVIOUS
    <3>2. pc' = pc /\ ks' = ks
      BY <1>1
    <3>3. ASSUME NEW m \in {"A", "B"}
          PROVE  /\ pc[t] \in Filling \cup {"load"} => Copied(t, m, k)'
                 /\ pc[t] \in Filling \cup {"hash"} /\ k + 1 < Steps => Copied(t, m, k + 1)'
      <4>1. \A step \in {k, k + 1} : Copied(t, m, step) => Copied(t, m, step)'
        BY <2>3, <3>1
      <4>2. /\ pc[t] \in Filling \cup {"load"} => Copied(t, m, k)
            /\ pc[t] \in Filling \cup {"hash"} /\ k + 1 < Steps => Copied(t, m, k + 1)
        BY <1>0, <3>1 DEF ThreadInv, Slices
      <4> QED  BY <4>1, <4>2
    <3> QED  BY <3>1, <3>2, <3>3 DEF Slices, Copied
  <2> QED  BY <2>1, <2>2, <2>4 DEF ThreadInv
<1>8. ASSUME NEW u \in Threads, u # t PROVE ThreadInv(u)'
  BY <1>0, <1>1, <1>3, <1>4, <1>8, Unmoved DEF IInv
<1> QED  BY <1>5, <1>6, <1>7, <1>8 DEF IInv

\* Between the barriers of a step all threads are in the same part of it.
LEMMA SamePart ==
  ASSUME IInv, NEW t \in Threads, NEW u \in Threads
  PROVE  /\ pc[t] = "multiply" => pc[u] \in {"multiply", "used"} /\ ks[u] = ks[t]
         /\ pc[t] \in {"transpose", "turned"} => pc[u] \in {"transpose", "turned"} /\ ks[u] = ks[t]
<1>1. ks[t] \in Int /\ ks[u] \in Int /\ Part(t) = Part(u)
  BY DEF IInv, TypeOK, InStep
<1> QED  BY <1>1 DEF Part

\* After the wait of a step the thread's own slices have landed.
LEMMA Landed ==
  ASSUME IInv, NEW t \in Threads, pc[t] \in Filling \ {"wait"}, NEW m \in {"A", "B"}
  PROVE  stages[m][Stage(ks[t])][t] = ks[t]
<1>1. ks[t] \in Int /\ ThreadInv(t)
  BY DEF IInv, TypeOK
<1>2. \A c \in flying[t] : c.step = ks[t] + 1
  BY <1>1 DEF ThreadInv, Flights, Filling, Before
<1>3. Copied(t, m, ks[t])
  BY <1>1 DEF ThreadInv, Slices
<1>4. [of |-> m, stage |-> Stage(ks[t]), step |-> ks[t]] \notin flying[t]
  BY <1>1, <1>2
<1> QED  BY <1>3, <1>4 DEF Copied

\* A thread past its wait has this step's slices in shared memory.
LEMMA WaitIInv ==
  ASSUME IInv, NEW t \in Threads, Wait(t)
  PROVE  IInv'
<1> USE DEF Wait, WaitUntil, Go
<1>0. TypeOK /\ ThreadInv(t) /\ pc[t] = "wait" /\ ks[t] \in Nat
  BY DEF IInv, TypeOK
<1>1. TypeOK'
  BY <1>0 DEF TypeOK, Places
<1>2. InStep'
  BY <1>0, StaysInStep DEF IInv, TypeOK, Part
<1>3. pc'[t] = "filled" /\ UNCHANGED <<ks, stages, turned, flying, acc, folded>>
  BY <1>0 DEF TypeOK
<1>4. ThreadInv(t)'
  <2>1. StepInv(t)' /\ TurnedInv(t)' /\ AccInv(t)' /\ FoldInv(t)'
    BY <1>0, <1>3 DEF ThreadInv, StepInv, TurnedInv, AccInv, FoldInv
  <2>2. Flights(t)'
    <3>1. \A c \in flying[t] : c.step > ks[t]
      OBVIOUS
    <3> QED  BY <1>0, <1>3, <3>1 DEF ThreadInv, Flights, Before
  <2>3. Slices(t)'
    BY <1>0, <1>3 DEF ThreadInv, Slices, Copied, Filling
  <2> QED  BY <2>1, <2>2, <2>3 DEF ThreadInv
<1>5. ASSUME NEW u \in Threads, u # t PROVE ThreadInv(u)'
  BY <1>0, <1>3, <1>5, Unmoved DEF IInv, TypeOK
<1> QED  BY <1>1, <1>2, <1>4, <1>5 DEF IInv

\* A barrier takes all threads from one part of a step to the next.
LEMMA BarriersIInv ==
  ASSUME IInv, Barriers
  PROVE  IInv'
<1> USE DEF Filled, Turned, Used, Together
<1>0. TypeOK
  BY DEF IInv
<1>1. PICK place \in {"filled", "turned", "used"}, next \in {"transpose", "multiply", "hash"} :
        /\ \A t \in Threads : pc[t] = place
        /\ pc' = [t \in Threads |-> next]
        /\ UNCHANGED <<ks, stages, turned, flying, acc, folded>>
        /\ \/ place = "filled" /\ next = IF Transposes THEN "transpose" ELSE "multiply"
           \/ place = "turned" /\ next = "multiply"
           \/ place = "used" /\ next = "hash"
  BY DEF Barriers
<1>2. TypeOK'
  BY <1>0, <1>1 DEF TypeOK, Places
<1>3. InStep'
  <2>1. ASSUME NEW t \in Threads, NEW u \in Threads PROVE ks[t] = ks[u]
    <3>1. ks[t] \in Int /\ ks[u] \in Int /\ Part(t) = Part(u)
      BY DEF IInv, TypeOK, InStep
    <3> QED  BY <1>1, <3>1 DEF Part
  <2> QED  BY <1>1, <2>1 DEF InStep, Part
<1>4. ASSUME NEW t \in Threads PROVE ThreadInv(t)'
  <2>1. ThreadInv(t) /\ pc[t] = place /\ pc'[t] = next /\ ks[t] \in Nat
    BY <1>0, <1>1 DEF IInv, TypeOK
  <2>2. StepInv(t)' /\ AccInv(t)' /\ FoldInv(t)'
    BY <1>1, <2>1 DEF ThreadInv, StepInv, AccInv, FoldInv
  <2>3. Flights(t)'
    BY <1>1, <2>1 DEF ThreadInv, Flights, Before
  <2>4. Slices(t)'
    BY <1>1, <2>1 DEF ThreadInv, Slices, Copied, Filling
  <2>5. TurnedInv(t)'
    BY <1>1, <2>1, PipelineAssumption DEF ThreadInv, TurnedInv
  <2> QED  BY <2>2, <2>3, <2>4, <2>5 DEF ThreadInv
<1> QED  BY <1>2, <1>3, <1>4 DEF IInv

\* A thread transposes a stage that every thread has filled.
LEMMA TransposeIInv ==
  ASSUME IInv, NEW t \in Threads, Transpose(t)
  PROVE  IInv'
<1> USE DEF Transpose, Go
<1> DEFINE k == ks[t]
<1>0. TypeOK /\ ThreadInv(t) /\ pc[t] = "transpose" /\ k \in Nat
  BY DEF IInv, TypeOK
<1>1. Holds(stages["B"], k)
  BY <1>0, SamePart, Landed DEF Holds, Filling
<1>2. Stage(k) \in {0, 1} /\ k \in Contents
  <2>1. k # Steps /\ k \in 0 .. Steps
    BY <1>0 DEF ThreadInv, StepInv, TypeOK
  <2> QED  BY <1>0, <2>1, StageAlternates, PipelineAssumption DEF Contents
<1>3. turned' = [turned EXCEPT ![Stage(k)] = [turned[Stage(k)] EXCEPT ![t] = k]]
  BY <1>0, <1>1
<1>4. /\ turned' \in [{0, 1} -> [Threads -> Contents]]
      /\ turned'[Stage(k)][t] = k
      /\ \A s \in {0, 1}, u \in Threads : u # t => turned'[s][u] = turned[s][u]
  <2> DEFINE slices == turned[Stage(k)]
             newSlices == [slices EXCEPT ![t] = k]
  <2>1. turned \in [{0, 1} -> [Threads -> Contents]] /\ slices \in [Threads -> Contents]
    BY <1>0, <1>2 DEF TypeOK
  <2>2. /\ newSlices \in [Threads -> Contents] /\ newSlices[t] = k
        /\ \A u \in Threads : u # t => newSlices[u] = slices[u]
    BY <1>2, <2>1
  <2>3. turned' = [turned EXCEPT ![Stage(k)] = newSlices]
    BY <1>3
  <2> HIDE DEF newSlices
  <2> QED  BY <1>2, <2>1, <2>2, <2>3
<1>5. TypeOK'
  BY <1>0, <1>4 DEF TypeOK, Places
<1>6. InStep'
  BY <1>0, StaysInStep DEF IInv, TypeOK, Part
<1>7. pc'[t] = "turned" /\ UNCHANGED <<ks, stages, flying, acc, folded>>
  BY <1>0 DEF TypeOK
<1>8. ThreadInv(t)'
  <2>1. StepInv(t)' /\ AccInv(t)' /\ FoldInv(t)'
    BY <1>0, <1>7 DEF ThreadInv, StepInv, AccInv, FoldInv
  <2>2. TurnedInv(t)'
    BY <1>0, <1>4, <1>7 DEF ThreadInv, TurnedInv
  <2>3. Flights(t)'
    BY <1>0, <1>7 DEF ThreadInv, Flights, Before
  <2>4. Slices(t)'
    BY <1>0, <1>7 DEF ThreadInv, Slices, Copied, Filling
  <2> QED  BY <2>1, <2>2, <2>3, <2>4 DEF ThreadInv
<1>9. ASSUME NEW u \in Threads, u # t PROVE ThreadInv(u)'
  <2>1. pc'[u] = pc[u]
    BY <1>0, <1>9 DEF TypeOK
  <2>2. \A s \in {0, 1} : turned'[s][u] = turned[s][u]
    BY <1>4, <1>9
  <2> HIDE DEF Transpose
  <2> QED  BY <1>0, <1>7, <1>9, <2>1, <2>2, Unmoved DEF IInv
<1> QED  BY <1>5, <1>6, <1>8, <1>9 DEF IInv

\* Every thread's slices of this step are there, so the multiplication is right.
LEMMA MultiplyIInv ==
  ASSUME IInv, NEW t \in Threads, Multiply(t)
  PROVE  IInv'
<1> USE DEF Multiply, Go
<1> DEFINE k == ks[t]
<1>0. TypeOK /\ ThreadInv(t) /\ pc[t] = "multiply" /\ k \in Nat /\ acc[t] = k
  <2>1. TypeOK /\ ThreadInv(t) /\ pc[t] = "multiply"
    BY DEF IInv
  <2>2. k \in Nat
    BY <2>1, PipelineAssumption DEF TypeOK
  <2>3. acc[t] = k
    BY <2>1 DEF ThreadInv, AccInv
  <2> QED  BY <2>1, <2>2, <2>3
<1>1. \A u \in Threads : pc[u] \in {"multiply", "used"} /\ ks[u] = k
  BY <1>0, SamePart
<1>2. Holds(stages["A"], k) /\ Holds(stages["B"], k)
  BY <1>1, Landed DEF Holds, Filling
<1>3. Transposes => Holds(turned, k)
  BY <1>1 DEF IInv, ThreadInv, TurnedInv, Holds
<1>4. acc' = [acc EXCEPT ![t] = k + 1]
  BY <1>0, <1>2, <1>3
<1>5. k + 1 \in 0 .. Steps
  BY <1>0, PipelineAssumption DEF ThreadInv, StepInv, TypeOK
<1>6. TypeOK'
  BY <1>0, <1>4, <1>5 DEF TypeOK, Places
<1>7. InStep'
  BY <1>0, StaysInStep DEF IInv, TypeOK, Part
<1>8. pc'[t] = "used" /\ acc'[t] = k + 1 /\ UNCHANGED <<ks, stages, turned, flying, folded>>
  BY <1>0, <1>4 DEF TypeOK
<1>9. ThreadInv(t)'
  <2>1. StepInv(t)' /\ AccInv(t)' /\ FoldInv(t)' /\ TurnedInv(t)'
    BY <1>0, <1>8 DEF ThreadInv, StepInv, AccInv, FoldInv, TurnedInv
  <2>2. Flights(t)'
    BY <1>0, <1>8 DEF ThreadInv, Flights, Before
  <2>3. Slices(t)'
    BY <1>0, <1>8 DEF ThreadInv, Slices, Copied, Filling
  <2> QED  BY <2>1, <2>2, <2>3 DEF ThreadInv
<1>10. ASSUME NEW u \in Threads, u # t PROVE ThreadInv(u)'
  <2>1. pc'[u] = pc[u] /\ acc'[u] = acc[u]
    BY <1>0, <1>4, <1>10 DEF TypeOK
  <2> HIDE DEF Multiply
  <2> QED  BY <1>0, <1>8, <2>1, Unmoved DEF IInv
<1> QED  BY <1>6, <1>7, <1>9, <1>10 DEF IInv

\* The end of a step, with the sum of the chunk that ends there.
LEMMA HashIInv ==
  ASSUME IInv, NEW t \in Threads, Hash(t)
  PROVE  IInv'
<1> USE DEF Hash, HashAfter, Go
<1> DEFINE k == ks[t]
<1>0. TypeOK /\ ThreadInv(t) /\ pc[t] = "hash" /\ k \in Nat /\ acc[t] = k + 1 /\ folded[t] = Folds(k)
  BY DEF IInv, TypeOK, ThreadInv, AccInv, FoldInv
<1>1. k < Steps /\ k + 1 \in 0 .. Steps
  BY <1>0, PipelineAssumption DEF ThreadInv, StepInv, TypeOK
<1>2. /\ pc'[t] = IF k + 1 < Steps THEN "load" ELSE "done"
      /\ ks'[t] = k + 1
      /\ folded'[t] = Folds(k + 1)
      /\ UNCHANGED <<stages, turned, flying, acc>>
  <2>1. folded'[t] = IF EndsChunk(k) THEN Append(Folds(k), k + 1) ELSE Folds(k)
    BY <1>0 DEF TypeOK
  <2> QED  BY <1>0, <2>1, FoldsGrow DEF TypeOK
<1>3. TypeOK'
  <2>1. ks' \in [Threads -> 0 .. Steps] /\ pc' \in [Threads -> Places]
    BY <1>0, <1>1 DEF TypeOK, Places
  <2>2. folded' \in [Threads -> Seq(0 .. Steps \cup {Junk})]
    <3>1. Append(folded[t], acc[t]) \in Seq(0 .. Steps \cup {Junk})
      BY <1>0 DEF TypeOK
    <3> QED  BY <1>0, <3>1 DEF TypeOK
  <2> QED  BY <1>0, <1>2, <2>1, <2>2 DEF TypeOK
<1>4. \A u \in Threads : u # t =>
        pc'[u] = pc[u] /\ ks'[u] = ks[u] /\ folded'[u] = folded[u]
  BY <1>0 DEF TypeOK
<1>5. InStep'
  <2>1. Part(t)' = Part(t)
    BY <1>0, <1>2 DEF Part
  <2>2. \A u \in Threads : u # t => Part(u)' = Part(u)
    BY <1>4 DEF Part
  <2> QED  BY <2>1, <2>2, StaysInStep DEF IInv
<1>6. ThreadInv(t)'
  <2>1. StepInv(t)' /\ AccInv(t)' /\ FoldInv(t)' /\ TurnedInv(t)'
    BY <1>0, <1>1, <1>2, PipelineAssumption DEF StepInv, AccInv, FoldInv, TurnedInv
  <2>2. Flights(t)'
    <3>1. \A c \in flying[t] : c.stage = Stage(c.step) /\ c.step = k + 1 /\ c.step \in 0 .. Steps - 1
      BY <1>0 DEF ThreadInv, Flights, Before, TypeOK, Copies
    <3>2. k + 1 = Steps => flying[t] = {}
      BY <1>0, <3>1, PipelineAssumption
    <3> QED  BY <1>0, <1>1, <1>2, <3>1, <3>2, PipelineAssumption DEF Flights, Before
  <2>3. Slices(t)'
    BY <1>0, <1>1, <1>2 DEF ThreadInv, Slices, Copied, Filling
  <2> QED  BY <2>1, <2>2, <2>3 DEF ThreadInv
<1>7. ASSUME NEW u \in Threads, u # t PROVE ThreadInv(u)'
  <2>1. pc'[u] = pc[u] /\ ks'[u] = ks[u] /\ folded'[u] = folded[u]
    BY <1>4, <1>7
  <2> HIDE DEF Hash
  <2> QED  BY <1>0, <1>2, <2>1, Unmoved DEF IInv
<1> QED  BY <1>3, <1>5, <1>6, <1>7 DEF IInv

\* Every step keeps the inductive invariant.
LEMMA NextIInv == IInv /\ [Next]_vars => IInv'
<1> SUFFICES ASSUME IInv, [Next]_vars PROVE IInv'
  OBVIOUS
<1>1. CASE UNCHANGED vars
  <2>1. TypeOK' /\ InStep'
    BY <1>1 DEF vars, IInv, TypeOK, InStep, Part
  <2>2. ASSUME NEW u \in Threads PROVE ThreadInv(u)'
    BY <1>1, Unmoved DEF vars, IInv
  <2> QED  BY <2>1, <2>2 DEF IInv
<1>2. ASSUME NEW t \in Threads, Thread(t) PROVE IInv'
  BY <1>2, BeginIInv, LoadIInv, WaitIInv, TransposeIInv, MultiplyIInv, HashIInv DEF Thread
<1>3. ASSUME NEW t \in Threads, Land(t) PROVE IInv'
  BY <1>3, LandIInv
<1>4. CASE Barriers
  BY <1>4, BarriersIInv
<1> QED  BY <1>1, <1>2, <1>3, <1>4 DEF Next, Ended

\* The inductive invariant holds throughout.
LEMMA SpecIInv == Spec => []IInv
<1> QED  BY InitIInv, NextIInv, PTL DEF Spec

\* The state of a block keeps its types, for any number of threads and steps.
THEOREM PipelineTypeCorrect == Spec => []TypeOK
<1>1. IInv => TypeOK
  BY DEF IInv
<1> QED  BY SpecIInv, <1>1, PTL

\* The waits and the barriers leave no race between a copy and a read.
THEOREM PipelineHasNoRace == Spec => []NoRace
<1>1. IInv => NoRace
  <2> SUFFICES ASSUME IInv, NEW t \in Threads, NEW u \in Threads, NEW c \in flying[t],
                      pc[u] \in Reading
               PROVE  c.stage # Stage(ks[u])
    BY DEF NoRace
  <2>1. ks[u] \in Nat /\ ks[t] = ks[u] /\ pc[t] \notin Before
    <3>1. ks[u] \in Nat
      BY PipelineAssumption DEF IInv, TypeOK
    <3> QED  BY <3>1, SamePart DEF Reading, Before
  <2>2. c.stage = Stage(c.step) /\ c.step = ks[t] + 1
    BY <2>1 DEF IInv, ThreadInv, Flights
  <2> QED  BY <2>1, <2>2, StageAlternates
<1> QED  BY SpecIInv, <1>1, PTL

\* Every step multiplies its own data, for any interleaving of threads and copies.
THEOREM EveryStepIsMultiplied == Spec => []MultipliesItsStep
<1>1. IInv => MultipliesItsStep
  BY DEF IInv, ThreadInv, AccInv, MultipliesItsStep
<1> QED  BY SpecIInv, <1>1, PTL

\* The transcripts are those of the reference, for any number of steps and any
\* length of chunk.
THEOREM TranscriptsAreReference == Spec => []TranscriptIsReference
<1>1. IInv => TranscriptIsReference
  BY DEF IInv, ThreadInv, StepInv, FoldInv, Folds, TranscriptIsReference
<1> QED  BY SpecIInv, <1>1, PTL
=============================================================================
