------------------------------- MODULE MineCtx -------------------------------
(***************************************************************************)
(* The persistent context (PrlMineCtx) of cuda/src/mine_sm86.cu: device     *)
(* buffers allocated once and reused by every call, two buffers of keys     *)
(* that grow with the largest batch, and a CUDA graph captured for one      *)
(* batch size, with the addresses of the buffers of that moment in it.      *)
(* cudaMalloc may give any address that is free, one used before included.  *)
(*                                                                          *)
(* A buffer holds where its content comes from: a header for A and B, a     *)
(* nonce for what its keys generate, Zero after a memset, Bad for a mix.    *)
(* Every call enqueues its work on the context's one stream and waits for   *)
(* it, so a call is one step; its work is the composition of what each      *)
(* copy, memset and kernel does to the buffers, in order.                   *)
(*                                                                          *)
(* The one-shot entry points of the library allocate buffers of their own   *)
(* for one call.  What they share with the context is the CUDA runtime's    *)
(* pending error.                                                           *)
(***************************************************************************)
EXTENDS Integers, Sequences

CONSTANTS
  Headers, None, Nonces, Targets, Winning,   \* as in MiningContext
  MaxCount,    \* bound: nonces in a batch
  Places       \* the addresses that key buffers can have

ASSUME CtxAssumption == None \notin Headers \cup Places /\ MaxCount \in Nat \ {0}

VARIABLES
  dev,      \* the device buffers
  heap,     \* how many keys are allocated at each address, 0: none
  keys,     \* the pointers dKeyBatch and dKeyBBatch
  cap,      \* key_batch_cap
  graph,    \* batch_graph_exec: its batch size, and the pointers captured with it
  pending,  \* a CUDA error that no call has picked up with cudaGetLastError
  kept,     \* history: the header given last, None after a call that failed
  reply     \* what the latest call returned

vars == <<dev, heap, keys, cap, graph, pending, kept, reply>>

API == INSTANCE MiningContext WITH inputs <- kept

Bad  == <<"bad">>
Zero == <<"zero">>

Null == None

NoKeys  == [a |-> Null, b |-> Null]
NoGraph == [count |-> 0, at |-> NoKeys]

Buffers == {"A", "B", "EAL", "EAR", "EBL", "EBR", "An", "Bn", "Tr", "Key", "KeyB", "Tgt"}

\* Buffers straight from cudaMalloc.
Allocated == [b \in Buffers |-> IF b \in {"A", "B"} THEN None ELSE Bad]

TypeOK ==
  /\ DOMAIN dev = Buffers
  /\ {dev["A"], dev["B"]} \subseteq Headers \cup {None, Bad}
  /\ cap \in 0 .. MaxCount
  /\ heap \in [Places -> 0 .. MaxCount]
  /\ keys \in [a : Places \cup {Null}, b : Places \cup {Null}]
  /\ keys.b # Null => heap[keys.b] = cap
  /\ graph \in [count : 0 .. MaxCount, at : [a : Places \cup {Null}, b : Places \cup {Null}]]
  /\ pending \in BOOLEAN
  /\ kept \in Headers \cup {None}
  /\ reply.rc \in {0, 4}

\* prl_mine_ctx_create: allocated, not initialised; no key buffers, no graph.
Init ==
  /\ dev = Allocated
  /\ heap = [p \in Places |-> 0]
  /\ keys = NoKeys
  /\ cap = 0
  /\ graph = NoGraph
  /\ pending = FALSE
  /\ kept = None
  /\ reply = API!Ready

-----------------------------------------------------------------------------
(* What the stream's work does to the buffers. *)

CopyInputs(d, h) == [d EXCEPT !["A"] = h, !["B"] = h]

CopyKeys(d, x, t) == [d EXCEPT !["Key"] = x, !["KeyB"] = x, !["Tgt"] = t]

\* The noise factors copied from the host.
CopyNoise(d, x) == [d EXCEPT !["EAL"] = x, !["EAR"] = x, !["EBL"] = x, !["EBR"] = x]

ZeroPerms(d) == [d EXCEPT !["EAR"] = Zero, !["EBL"] = Zero]

ZeroTranscripts(d) == [d EXCEPT !["Tr"] = Zero]

\* k_ng_dense fills its output; k_ng_perm sets two entries of each line, so its
\* output must be zero; E_BR is the transpose of what k_ng_dense drew.
GenerateNoise(d, keyA, keyB) ==
  [d EXCEPT !["EAL"] = keyA,
            !["EAR"] = IF @ = Zero THEN keyA ELSE Bad,
            !["EBL"] = IF @ = Zero THEN keyB ELSE Bad,
            !["EBR"] = keyB]

AddNoise(d) ==
  [d EXCEPT !["An"] = <<d["A"], d["EAL"], d["EAR"]>>, !["Bn"] = <<d["B"], d["EBL"], d["EBR"]>>]

\* k_mine folds into what the transcripts hold.
Mine(d) == [d EXCEPT !["Tr"] = IF @ = Zero THEN <<d["An"], d["Bn"]>> ELSE Bad]

\* k_pow_scan_find and emit: the tile of these transcripts that meets the target,
\* if there is one.  What a mix of inputs or keys would give nobody can say.
Scan(d, key) ==
  IF \E h \in Headers : d["Tr"] = << <<h, key, key>>, <<h, key, key>> >> /\ key \in Nonces
  THEN LET h == d["Tr"][1][1]
       IN  IF <<h, key, d["Tgt"]>> \in Winning THEN API!Found(1, h, key) ELSE API!NotFound
  ELSE API!Found(1, Bad, key)

\* The answer for several attempts: that of the first that found a tile.
FirstHit(answers) ==
  LET hits  == {i \in DOMAIN answers : answers[i].found}
      first == CHOOSE i \in hits : \A j \in hits : i <= j
  IN  IF hits = {} THEN API!NotFound ELSE [answers[first] EXCEPT !.attempt = first]

\* One attempt with noise from keys: memsets, noise, noised matrices, transcripts.
AttemptOn(d, key) == Mine(AddNoise(GenerateNoise(ZeroPerms(d), key, key)))

\* Mutant: the transcripts of the attempt before are folded into.
AttemptUnzeroed(d, key) == AttemptOn(d, key)

Attempt(d, key) == AttemptOn(ZeroTranscripts(d), key)

-----------------------------------------------------------------------------
(* The end of a call: cudaStreamSynchronize and cudaGetLastError. *)

Broken(d) == [b \in Buffers |-> Bad]

\* The call's work is done; an error left by an earlier call fails it all the same.
Finish(d, header, answer) ==
  /\ pending' = FALSE
  /\ IF pending
     THEN /\ reply' = API!Failed
          /\ kept' = IF header = kept THEN kept ELSE None
     ELSE /\ reply' = answer
          /\ kept' = header
  /\ dev' = d

\* Some of the call's work fails: the buffers it writes are in any state, A and B
\* among them when it writes those.
FailDuring(writesInputs) ==
  /\ reply' = API!Failed
  /\ pending' = FALSE
  /\ IF writesInputs
     THEN dev' = Broken(dev) /\ kept' = None
     ELSE dev' = [Broken(dev) EXCEPT !["A"] = dev["A"], !["B"] = dev["B"]] /\ UNCHANGED kept

SetInputs ==
  /\ \/ \E h \in Headers : Finish(CopyInputs(dev, h), h, API!Ready)
     \/ FailDuring(TRUE)
  /\ UNCHANGED <<heap, keys, cap, graph>>

\* prl_mine_ctx_run: everything comes with the call.
Run ==
  /\ \/ \E h \in Headers, x \in Nonces, t \in Targets :
          LET d == Mine(AddNoise(ZeroTranscripts(CopyKeys(CopyNoise(CopyInputs(dev, h), x), x, t))))
          IN  Finish(d, h, Scan(d, d["Key"]))
     \/ FailDuring(TRUE)
  /\ UNCHANGED <<heap, keys, cap, graph>>

RunKeyed ==
  /\ \/ \E h \in Headers, x \in Nonces, t \in Targets :
          LET d == Attempt(CopyKeys(CopyInputs(dev, h), x, t), x)
          IN  Finish(d, h, Scan(d, d["Key"]))
     \/ FailDuring(TRUE)
  /\ UNCHANGED <<heap, keys, cap, graph>>

RunKeyedPreloaded ==
  /\ \/ \E x \in Nonces, t \in Targets :
          LET d == Attempt(CopyKeys(dev, x, t), x)
          IN  Finish(d, kept, Scan(d, d["Key"]))
     \/ FailDuring(FALSE)
  /\ UNCHANGED <<heap, keys, cap, graph>>

-----------------------------------------------------------------------------
(* A batch: grow the key buffers, build the graph, launch it. *)

\* The outcomes of ensure_key_batch: to grow, the graph and the old buffers go
\* first; then either allocation may fail, which leaves the capacity as it was.
Growths(count, newCap, keptGraph) ==
  LET freed  == [p \in Places |-> IF p \in {keys.a, keys.b} THEN 0 ELSE heap[p]]
      vacant == {p \in Places : freed[p] = 0}
      Grown(ok, a, b, c) ==
        [ok |-> ok, keys |-> [a |-> a, b |-> b], cap |-> c, graph |-> keptGraph,
         heap |-> [p \in Places |-> IF p \in {a, b} THEN count ELSE freed[p]]]
  IN  IF count <= cap
      THEN {[ok |-> TRUE, keys |-> keys, cap |-> cap, graph |-> graph, heap |-> heap]}
      ELSE (UNION {{Grown(TRUE, a, b, newCap) : b \in vacant \ {a}} : a \in vacant})
           \cup {Grown(FALSE, a, Null, cap) : a \in vacant \cup {Null}}

\* Mutants: the graph outlives the buffers whose addresses it has; the new
\* capacity is not recorded.
GrowKeepingGraph(count) == Growths(count, count, graph)

GrowUnrecorded(count) == Growths(count, cap, NoGraph)

EnsureKeyBatch(count) == Growths(count, count, NoGraph)

\* build_batch_graph: unless the graph that is there is for this count, destroy
\* it and capture one, with the addresses of now, null or not.
BuildBatchGraph(old, count, at) == IF old.count = count THEN old ELSE [count |-> count, at |-> at]

\* The attempts of the graph in turn, each with the key it finds; a result is only
\* stored while none is.
Replay(d, found) ==
  LET state[i \in 0 .. Len(found)] == IF i = 0 THEN d ELSE Attempt(state[i - 1], found[i])
  IN  [dev |-> state[Len(found)],
       reply |-> FirstHit([i \in 1 .. Len(found) |-> Scan(state[i], found[i])])]

\* The keys a graph finds once the nonces are copied to the two key buffers: those, if
\* it reads the buffers they were copied to and these have the room.
KeysFound(nonces, g) ==
  [i \in 1 .. g.count |->
     IF g.at = keys' /\ i \in DOMAIN nonces /\ heap'[keys'.a] >= i /\ heap'[keys'.b] >= i
     THEN nonces[i] ELSE Bad]

\* Copy the keys and the target, launch the graph, wait.  A copy to a null
\* pointer is an error.
Launch(nonces, t, g) ==
  LET done == Replay([dev EXCEPT !["Tgt"] = t], KeysFound(nonces, g))
  IN  \/ Null \notin {keys'.a, keys'.b} /\ Finish(done.dev, kept, done.reply)
      \/ FailDuring(FALSE)

RunBatch ==
  \E nonces \in API!Batches, t \in Targets : \E grown \in EnsureKeyBatch(Len(nonces)) :
    LET built == BuildBatchGraph(grown.graph, Len(nonces), grown.keys)
    IN  /\ heap' = grown.heap
        /\ keys' = grown.keys
        /\ cap' = grown.cap
        /\ \/ grown.ok /\ graph' = built /\ Launch(nonces, t, built)
           \/ \* an allocation, or the capture of a graph, fails
              /\ ~grown.ok \/ grown.graph # built
              /\ graph' = IF grown.ok THEN NoGraph ELSE grown.graph
              /\ pending' = TRUE
              /\ reply' = API!Failed
              /\ UNCHANGED <<dev, kept>>

-----------------------------------------------------------------------------
(* The one-shot calls. *)

\* Every copy and kernel of the call worked, and so did its cudaGetLastError unless
\* an error was pending.
FinishApart(answer) ==
  /\ reply' = IF pending THEN API!Failed ELSE answer
  /\ pending' = FALSE

\* An allocation or copy that fails returns at once and leaves its error pending;
\* a kernel's is picked up.
FailApart == reply' = API!Failed /\ pending' \in {TRUE, FALSE}

\* prl_mine_run, prl_mine2_run and the attempts of prl_mine2_batch_run: transcripts
\* zeroed, matrices, noise and keys copied, noised matrices, transcripts.
Apart(h, x, t) ==
  Mine(AddNoise(CopyKeys(CopyNoise(CopyInputs(ZeroTranscripts(Allocated), h), x), x, t)))

\* prl_mine2_search: the noised matrices come with the call.
ApartNoised(h, x, t) ==
  Mine(CopyKeys([ZeroTranscripts(Allocated) EXCEPT !["An"] = <<h, x, x>>, !["Bn"] = <<h, x, x>>], x, t))

RunOnce ==
  /\ \/ \E h \in Headers, nonces \in API!Batches, t \in Targets :
          FinishApart(FirstHit([i \in DOMAIN nonces |-> Scan(Apart(h, nonces[i], t), nonces[i])]))
     \/ FailApart
  /\ UNCHANGED <<dev, heap, keys, cap, graph, kept>>

SearchOnce ==
  /\ \/ \E h \in Headers, nonces \in API!Batches, t \in Targets :
          FinishApart(FirstHit([i \in DOMAIN nonces |-> Scan(ApartNoised(h, nonces[i], t), nonces[i])]))
     \/ FailApart
  /\ UNCHANGED <<dev, heap, keys, cap, graph, kept>>

\* prl_noisegen: the two keys need not be of the same nonce.
NoiseOnce ==
  /\ \/ \E x, y \in Nonces :
          LET d == GenerateNoise(ZeroPerms(Allocated), x, y)
          IN  FinishApart([rc |-> 0, noise |-> <<d["EAL"], d["EAR"], d["EBL"], d["EBR"]>>])
     \/ FailApart
  /\ UNCHANGED <<dev, heap, keys, cap, graph, kept>>

Next ==
  \/ SetInputs \/ Run \/ RunKeyed \/ RunKeyedPreloaded \/ RunBatch
  \/ RunOnce \/ SearchOnce \/ NoiseOnce

Spec == Init /\ [][Next]_vars

-----------------------------------------------------------------------------

\* Whatever calls came before, failed ones among them, a call that reports
\* success reports the first winner of its own nonces and target on the matrices
\* given last: no buffer, key or graph of an earlier call shows through.
CallsAreFresh == API!Spec

\* Whichever allocation fails, and however batches grow and shrink: a key pointer is
\* null or has memory of its own, for as many keys as key_batch_cap lets a batch copy
\* there; no other key memory is left behind; and the graph that a later batch may
\* launch again has captured the two pointers of now, never one that was freed.
KeyBuffersAreHeld ==
  /\ keys.a = keys.b => keys.a = Null
  /\ \A p \in {keys.a, keys.b} \cap Places : heap[p] > 0 /\ heap[p] >= cap
  /\ \A p \in Places : heap[p] > 0 => p \in {keys.a, keys.b}
  /\ graph.count # 0 => graph.at = keys
=============================================================================
