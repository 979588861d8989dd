----------------------------- MODULE MinePipeline -----------------------------
(***************************************************************************)
(* One block of the fused kernels k_mine and k_mine2                        *)
(* (cuda/src/mine_sm86.cu): its threads walk along K in steps, copy the     *)
(* next step's slices of A and B into one of two stages of shared memory    *)
(* while they multiply from the other, and hash the accumulators at the end *)
(* of every chunk.  Copies are asynchronous (cp.async): each lands at any   *)
(* moment before the thread that issued it has waited for its group.        *)
(*                                                                          *)
(* k_mine2 also transposes the stage of B into a buffer of its own before   *)
(* it multiplies, with one more __syncthreads.                              *)
(***************************************************************************)
EXTENDS Integers, Sequences

CONSTANTS
  Threads,
  Steps,      \* nk: steps of 32 along K
  Chunk,      \* steps in a chunk (4)
  Transposes  \* TRUE: k_mine2; FALSE: k_mine

ASSUME PipelineAssumption ==
  /\ Steps \in Nat \ {0}
  /\ Chunk \in Nat \ {0}
  /\ Transposes \in BOOLEAN

VARIABLES
  pc,      \* where a thread is
  ks,      \* its step
  stages,  \* As and Bs: the step whose data each thread's slice of a stage holds
  turned,  \* Bst, likewise
  flying,  \* the copies a thread has issued that have not landed
  acc,     \* the steps a thread's accumulators sum up: 0 .. acc - 1; or Junk
  folded   \* what a thread folded into its transcript, in order

vars == <<pc, ks, stages, turned, flying, acc, folded>>

Junk     == -1
Contents == 0 .. Steps - 1 \cup {Junk}
Places   == {"begin", "load", "wait", "filled", "transpose", "turned", "multiply", "used",
             "hash", "done"}
Copies   == [of : {"A", "B"}, stage : {0, 1}, step : 0 .. Steps - 1]

TypeOK ==
  /\ pc \in [Threads -> Places]
  /\ ks \in [Threads -> 0 .. Steps]
  /\ stages \in [{"A", "B"} -> [{0, 1} -> [Threads -> Contents]]]
  /\ turned \in [{0, 1} -> [Threads -> Contents]]
  /\ flying \in [Threads -> SUBSET Copies]
  /\ acc \in [Threads -> 0 .. Steps \cup {Junk}]
  /\ folded \in [Threads -> Seq(0 .. Steps \cup {Junk})]

Init ==
  /\ pc = [t \in Threads |-> "begin"]
  /\ ks = [t \in Threads |-> 0]
  /\ stages = [m \in {"A", "B"} |-> [s \in {0, 1} |-> [t \in Threads |-> Junk]]]
  /\ turned = [s \in {0, 1} |-> [t \in Threads |-> Junk]]
  /\ flying = [t \in Threads |-> {}]
  /\ acc = [t \in Threads |-> 0]
  /\ folded = [t \in Threads |-> << >>]

-----------------------------------------------------------------------------

Go(t, place) == pc' = [pc EXCEPT ![t] = place]

\* The stage of a step.
Stage(step) == step % 2

\* LOAD and cp_commit: one group of two copies.
Issue(t, stage, step) ==
  flying' = [flying EXCEPT ![t] = @ \cup [of : {"A", "B"}, stage : {stage}, step : {step}]]

Begin(t) ==
  /\ pc[t] = "begin"
  /\ Issue(t, 0, 0)
  /\ Go(t, "load")
  /\ UNCHANGED <<ks, stages, turned, acc, folded>>

LoadFrom(t, step) ==
  /\ pc[t] = "load"
  /\ IF ks[t] + 1 < Steps THEN Issue(t, Stage(ks[t] + 1), step) ELSE UNCHANGED flying
  /\ Go(t, "wait")
  /\ UNCHANGED <<ks, stages, turned, acc, folded>>

\* Mutant: the next stage is filled from this step's columns.
LoadBehind(t) == LoadFrom(t, ks[t])

Load(t) == LoadFrom(t, ks[t] + 1)

\* Some copy of a thread lands.
Land(t) ==
  \E c \in flying[t] :
    /\ flying' = [flying EXCEPT ![t] = @ \ {c}]
    /\ stages' = [stages EXCEPT ![c.of][c.stage][t] = c.step]
    /\ UNCHANGED <<pc, ks, turned, acc, folded>>

WaitUntil(t, landed) ==
  /\ pc[t] = "wait"
  /\ landed
  /\ Go(t, "filled")
  /\ UNCHANGED <<ks, stages, turned, flying, acc, folded>>

\* Mutant: one group may be left in flight in the last step too.
WaitAllButOne(t) == WaitUntil(t, \A c \in flying[t] : c.step = ks[t] + 1 \/ ks[t] + 1 = Steps)

\* cp_wait1, or cp_wait0 in the last step: all groups but the one just issued.
Wait(t) == WaitUntil(t, \A c \in flying[t] : c.step > ks[t])

\* __syncthreads: nobody goes on until all are there.
Together(place, next) ==
  /\ \A t \in Threads : pc[t] = place
  /\ pc' = [t \in Threads |-> next]
  /\ UNCHANGED <<ks, stages, turned, flying, acc, folded>>

Filled == Together("filled", IF Transposes THEN "transpose" ELSE "multiply")

Turned == Together("turned", "multiply")

\* The stage holds what all threads copied for this step.
Holds(content, step) == \A u \in Threads : content[Stage(step)][u] = step

Transpose(t) ==
  /\ pc[t] = "transpose"
  /\ turned' = [turned EXCEPT ![Stage(ks[t])][t] = IF Holds(stages["B"], ks[t]) THEN ks[t] ELSE Junk]
  /\ Go(t, "turned")
  /\ UNCHANGED <<ks, stages, flying, acc, folded>>

\* The fragments come from everybody's slices.
Multiply(t) ==
  /\ pc[t] = "multiply"
  /\ LET b == IF Transposes THEN turned ELSE stages["B"]
     IN  acc' = [acc EXCEPT ![t] = IF @ = ks[t] /\ Holds(stages["A"], ks[t]) /\ Holds(b, ks[t])
                                   THEN ks[t] + 1 ELSE Junk]
  /\ Go(t, "used")
  /\ UNCHANGED <<ks, stages, turned, flying, folded>>

\* Mutant: the barrier after the multiplications is left out.
UsedAlone ==
  \E t \in Threads : pc[t] = "used" /\ Go(t, "hash") /\ UNCHANGED <<ks, stages, turned, flying, acc, folded>>

Used == Together("used", "hash")

\* At the end of a chunk the cumulative accumulators go into the transcript.
HashAfter(t, chunkEnds, next) ==
  /\ pc[t] = "hash"
  /\ folded' = IF chunkEnds THEN [folded EXCEPT ![t] = Append(@, acc[t])] ELSE folded
  /\ ks' = [ks EXCEPT ![t] = next]
  /\ Go(t, IF next < Steps THEN "load" ELSE "done")
  /\ UNCHANGED <<stages, turned, flying, acc>>

EndsChunk(step) == (step + 1) % Chunk = 0

\* Mutants: a chunk ends one step early; a step that ends no chunk is taken again.
HashEarly(t) == HashAfter(t, ks[t] % Chunk = 0, ks[t] + 1)

HashOrRepeat(t) == HashAfter(t, EndsChunk(ks[t]), IF EndsChunk(ks[t]) THEN ks[t] + 1 ELSE ks[t])

Hash(t) == HashAfter(t, EndsChunk(ks[t]), ks[t] + 1)

Thread(t) == Begin(t) \/ Load(t) \/ Wait(t) \/ Transpose(t) \/ Multiply(t) \/ Hash(t)

Barriers == Filled \/ Turned \/ Used

Ended == (\A t \in Threads : pc[t] = "done") /\ UNCHANGED vars

Next == (\E t \in Threads : Thread(t) \/ Land(t)) \/ Barriers \/ Ended

\* The hardware runs every thread of a resident block, ends every copy, and
\* releases a barrier when all have come.
Fairness ==
  /\ \A t \in Threads : WF_vars(Thread(t)) /\ WF_vars(Land(t))
  /\ WF_vars(Barriers)

Spec == Init /\ [][Next]_vars /\ Fairness

-----------------------------------------------------------------------------

Reading == {"transpose", "turned", "multiply"}

\* No copy is in flight to a stage that some thread may be reading: the waits
\* and the barriers leave no race on shared memory.
NoRace ==
  \A t, u \in Threads : \A c \in flying[t] : pc[u] \in Reading => c.stage # Stage(ks[u])

\* Every step multiplies its own data, from all the threads' slices.
MultipliesItsStep ==
  \A t \in Threads : acc[t] = IF pc[t] \in {"used", "hash"} THEN ks[t] + 1 ELSE ks[t]

\* What goes into the transcripts are the sums at the ends of the chunks, as in
\* the reference's tiled multiplication.
TranscriptIsReference ==
  \A t \in Threads : pc[t] = "done" => folded[t] = [i \in 1 .. Steps \div Chunk |-> i * Chunk]

\* The block ends: no thread waits for ever for a copy or at a barrier.
BlockEnds == <>(\A t \in Threads : pc[t] = "done")
=============================================================================
