---------------------------- MODULE MineCtx_proofs ----------------------------
(***************************************************************************)
(* Proofs for MineCtx: its type invariant, that its key buffers are held,   *)
(* and that the context implements MiningContext, for any headers, nonces,  *)
(* targets and winners, and batches of any size.                            *)
(*                                                                         *)
(* The replay of a graph is a function defined by recursion on the attempt, *)
(* so what it computes is shown by induction: a set of naturals that has    *)
(* zero, and the successor of each of its members, has them all.            *)
(***************************************************************************)
EXTENDS MineCtx, WellFoundedInduction, TLAPS

\* A and B on the device are those of the header given last, if one is known.
InputsAreKept == kept # None => dev["A"] = kept /\ dev["B"] = kept

\* The invariant in two parts: what a call does to the buffers, and what it does to
\* the key buffers and the graph.
BufferInv ==
  /\ DOMAIN dev = Buffers
  /\ {dev["A"], dev["B"]} \subseteq Headers \cup {None, Bad}
  /\ pending \in BOOLEAN
  /\ kept \in Headers \cup {None}
  /\ reply.rc \in {0, 4}
  /\ InputsAreKept

Pointers == [a : Places \cup {Null}, b : Places \cup {Null}]

\* What holds of the key pointers k, the memory h, the capacity c and the graph g.
KeysGood(k, h, c, g) ==
  /\ c \in 0 .. MaxCount
  /\ h \in [Places -> 0 .. MaxCount]
  /\ k \in Pointers
  /\ k.b # Null => h[k.b] = c
  /\ g \in [count : 0 .. MaxCount, at : Pointers]
  /\ k.a = k.b => k.a = Null
  /\ \A p \in {k.a, k.b} \cap Places : h[p] > 0 /\ h[p] >= c
  /\ \A p \in Places : h[p] > 0 => p \in {k.a, k.b}
  /\ g.count # 0 => g.at = k

KeyInv == KeysGood(keys, heap, cap, graph)

IInv == BufferInv /\ KeyInv

-----------------------------------------------------------------------------
(* Induction, and the least member of a set of naturals. *)

\* A non-empty set of naturals has a least member.
LEMMA LeastMember ==
  ASSUME NEW S, S \subseteq Nat, S # {}
  PROVE  \E i \in S : \A j \in S : i <= j
<1>1. IsWellFoundedOn(OpToRel(<, Nat), Nat)
  BY NatLessThanWellFounded
<1>2. PICK i \in S : \A j \in S : <<j, i>> \notin OpToRel(<, Nat)
  BY <1>1, WFMin, Zenon
<1>3. \A j \in S : ~ (j < i)
  BY <1>2 DEF OpToRel
<1> QED  BY <1>3

\* A set that has zero, and the successor of each natural it has, has them all.
LEMMA SetInduction ==
  ASSUME NEW S, 0 \in S, \A n \in Nat : n \in S => n + 1 \in S
  PROVE  Nat \subseteq S
<1> DEFINE Others == {n \in Nat : n \notin S}
<1> SUFFICES ASSUME Others # {} PROVE FALSE
  OBVIOUS
<1>1. PICK n \in Others : \A m \in Others : n <= m
  BY LeastMember
<1>2. n # 0 /\ n - 1 \in Nat
  BY <1>1
<1>3. n - 1 \in S
  BY <1>1, <1>2
<1> QED  BY <1>1, <1>2, <1>3

-----------------------------------------------------------------------------
(* What the work of a call does to the buffers. *)

\* An attempt leaves A, B and the target alone, and its transcripts are of those
\* matrices and its own key, whatever the buffers held.
LEMMA AttemptIsOfItsKey ==
  ASSUME NEW d, DOMAIN d = Buffers, NEW x
  PROVE  LET e == Attempt(d, x)
         IN  /\ DOMAIN e = Buffers
             /\ e["A"] = d["A"] /\ e["B"] = d["B"] /\ e["Tgt"] = d["Tgt"] /\ e["Key"] = d["Key"]
             /\ e["Tr"] = << <<d["A"], x, x>>, <<d["B"], x, x>> >>
BY DEF Attempt, AttemptOn, ZeroTranscripts, ZeroPerms, GenerateNoise, AddNoise, Mine, Buffers

\* The scan of an attempt on the matrices of one header reports that attempt's
\* winner, if it has one.
LEMMA ScanIsOfItsAttempt ==
  ASSUME NEW d, NEW h \in Headers, NEW x \in Nonces,
         d["Tr"] = << <<h, x, x>>, <<h, x, x>> >>
  PROVE  Scan(d, x) = IF <<h, x, d["Tgt"]>> \in Winning THEN API!Found(1, h, x) ELSE API!NotFound
<1>1. d["Tr"][1][1] = h
  OBVIOUS
<1> QED  BY <1>1 DEF Scan

\* An answer whose attempt is replaced is the answer for that attempt.
LEMMA FoundAgain ==
  ASSUME NEW i, NEW j, NEW h, NEW x
  PROVE  [API!Found(i, h, x) EXCEPT !.attempt = j] = API!Found(j, h, x)
<1> DEFINE old == API!Found(i, h, x)
           new == [old EXCEPT !.attempt = j]
<1>1. new = [f \in DOMAIN old |-> IF f = "attempt" THEN j ELSE old[f]]
  BY Zenon
<1>2. DOMAIN old = {"rc", "found", "attempt", "tile"}
  BY DEF API!Found
<1>3. /\ new.rc = 0 /\ new.found = TRUE /\ new.attempt = j /\ new.tile = <<h, x>>
  BY <1>1, <1>2 DEF API!Found
<1> HIDE DEF new
<1> QED  BY <1>1, <1>2, <1>3 DEF API!Found

\* If the answers are those of the attempts, the first hit is the reference's.
LEMMA FirstHitIsReference ==
  ASSUME NEW h, NEW t, NEW nonces, Len(nonces) \in Nat, NEW answers,
         DOMAIN answers = 1 .. Len(nonces),
         \A i \in 1 .. Len(nonces) :
           answers[i] = IF <<h, nonces[i], t>> \in Winning
                        THEN API!Found(1, h, nonces[i]) ELSE API!NotFound
  PROVE  FirstHit(answers) = API!Reference(h, nonces, t)
<1> DEFINE winners == {i \in 1 .. Len(nonces) : <<h, nonces[i], t>> \in Winning}
           hits    == {i \in DOMAIN answers : answers[i].found}
           first   == CHOOSE i \in winners : \A j \in winners : i <= j
<1>1. \A i \in 1 .. Len(nonces) : answers[i].found <=> i \in winners
  BY DEF API!Found, API!NotFound
<1>2. hits = winners
  BY <1>1
<1>3. CASE winners = {}
  BY <1>2, <1>3 DEF FirstHit, API!Reference
<1>4. CASE winners # {}
  <2>1. first \in winners
    <3>1. winners \subseteq Nat
      OBVIOUS
    <3>2. \E i \in winners : \A j \in winners : i <= j
      BY <1>4, <3>1, LeastMember
    <3> QED  BY <3>2
  <2>2. FirstHit(answers) = [answers[first] EXCEPT !.attempt = first]
    BY <1>2, <1>4 DEF FirstHit
  <2>3. API!Reference(h, nonces, t) = API!Found(first, h, nonces[first])
    BY <1>4 DEF API!Reference
  <2> HIDE DEF first
  <2>4. answers[first] = API!Found(1, h, nonces[first])
    BY <2>1
  <2>5. [API!Found(1, h, nonces[first]) EXCEPT !.attempt = first] = API!Found(first, h, nonces[first])
    BY FoundAgain
  <2> QED  BY <2>2, <2>3, <2>4, <2>5
<1> QED  BY <1>3, <1>4

-----------------------------------------------------------------------------
(* The replay of a graph. *)

\* f is the state of the buffers after each of the first n attempts with these keys.
Replays(f, n, d, found) ==
  f = [i \in 0 .. n |-> IF i = 0 THEN d ELSE Attempt(f[i - 1], found[i])]

\* Such states exist, for any number of attempts.
LEMMA ReplayExists ==
  ASSUME NEW d, NEW found
  PROVE  \A n \in Nat : \E f : Replays(f, n, d, found)
<1> DEFINE S == {n \in Nat : \E f : Replays(f, n, d, found)}
<1>1. 0 \in S
  <2> DEFINE f == [i \in 0 .. 0 |-> d]
  <2>1. f = [i \in 0 .. 0 |-> IF i = 0 THEN d ELSE Attempt(f[i - 1], found[i])]
    OBVIOUS
  <2> QED  BY <2>1 DEF Replays
<1>2. ASSUME NEW n \in Nat, n \in S PROVE n + 1 \in S
  <2>1. PICK f : Replays(f, n, d, found)
    BY <1>2
  <2> DEFINE step(e, i) == IF i = 0 THEN d ELSE Attempt(e[i - 1], found[i])
             e == [i \in 0 .. n + 1 |-> IF i <= n THEN f[i] ELSE Attempt(f[n], found[n + 1])]
  <2>2. \A i \in 0 .. n : f[i] = step(f, i)
    BY <2>1 DEF Replays
  <2>3. ASSUME NEW i \in 0 .. n + 1 PROVE e[i] = step(e, i)
    <3>1. CASE i <= n
      <4>1. e[i] = f[i] /\ (i # 0 => e[i - 1] = f[i - 1])
        BY <3>1
      <4> QED  BY <2>2, <3>1, <4>1
    <3>2. CASE i = n + 1
      <4>1. e[i] = Attempt(f[n], found[n + 1]) /\ e[i - 1] = f[n] /\ i # 0
        BY <3>2
      <4> QED  BY <3>2, <4>1
    <3> QED  BY <3>1, <3>2
  <2>4. e = [i \in 0 .. n + 1 |-> step(e, i)]
    BY <2>3
  <2>5. Replays(e, n + 1, d, found)
    BY <2>4 DEF Replays
  <2> QED  BY <2>5
<1> HIDE DEF S
<1>3. Nat \subseteq S
  BY <1>1, <1>2, SetInduction
<1> QED  BY <1>3 DEF S

\* Replay runs through those states.
LEMMA ReplayRuns ==
  ASSUME NEW d, NEW found, Len(found) \in Nat
  PROVE  \E f : /\ Replays(f, Len(found), d, found)
                /\ Replay(d, found) =
                     [dev |-> f[Len(found)],
                      reply |-> FirstHit([i \in 1 .. Len(found) |-> Scan(f[i], found[i])])]
<1> DEFINE state == CHOOSE f : f = [i \in 0 .. Len(found) |->
                      IF i = 0 THEN d ELSE Attempt(f[i - 1], found[i])]
<1>1. Replay(d, found) =
        [dev |-> state[Len(found)],
         reply |-> FirstHit([i \in 1 .. Len(found) |-> Scan(state[i], found[i])])]
  BY DEF Replay
<1>2. \E f : Replays(f, Len(found), d, found)
  BY ReplayExists
<1>3. Replays(state, Len(found), d, found)
  BY <1>2, Zenon DEF Replays
<1> HIDE DEF state
<1> QED  BY <1>1, <1>3, Zenon

\* While the graph replays, A, B and the target stay; after each attempt the
\* transcripts are of its own nonce.
LEMMA ReplayKeepsInputs ==
  ASSUME NEW d, DOMAIN d = Buffers, NEW nonces, NEW n \in Nat,
         NEW f, Replays(f, n, d, nonces)
  PROVE  \A i \in 0 .. n :
           /\ DOMAIN f[i] = Buffers
           /\ f[i]["A"] = d["A"] /\ f[i]["B"] = d["B"] /\ f[i]["Tgt"] = d["Tgt"]
           /\ i > 0 => f[i]["Tr"] = << <<d["A"], nonces[i], nonces[i]>>, <<d["B"], nonces[i], nonces[i]>> >>
<1> DEFINE Good(i) ==
             /\ DOMAIN f[i] = Buffers
             /\ f[i]["A"] = d["A"] /\ f[i]["B"] = d["B"] /\ f[i]["Tgt"] = d["Tgt"]
             /\ i > 0 => f[i]["Tr"] = << <<d["A"], nonces[i], nonces[i]>>, <<d["B"], nonces[i], nonces[i]>> >>
           S == {i \in Nat : i <= n => Good(i)}
<1>1. f[0] = d
  BY DEF Replays
<1>2. ASSUME NEW i \in 1 .. n PROVE f[i] = Attempt(f[i - 1], nonces[i])
  BY DEF Replays
<1>3. 0 \in S
  BY <1>1
<1>4. ASSUME NEW i \in Nat, i \in S PROVE i + 1 \in S
  <2> SUFFICES ASSUME i + 1 <= n PROVE Good(i + 1)
    OBVIOUS
  <2>1. Good(i)
    BY <1>4
  <2>2. f[i + 1] = Attempt(f[i], nonces[i + 1])
    BY <1>2
  <2> QED  BY <2>1, <2>2, AttemptIsOfItsKey
<1> HIDE DEF S, Good
<1>5. Nat \subseteq S
  BY <1>3, <1>4, SetInduction
<1> QED  BY <1>5 DEF S, Good

\* A batch on the matrices of one header answers as the reference does, and leaves
\* the matrices where they were.
LEMMA ReplayIsReference ==
  ASSUME NEW d, DOMAIN d = Buffers, NEW h \in Headers, d["A"] = h, d["B"] = h,
         NEW nonces \in Seq(Nonces)
  PROVE  Replay(d, nonces).reply = API!Reference(h, nonces, d["Tgt"])
<1>1. Len(nonces) \in Nat /\ \A i \in 1 .. Len(nonces) : nonces[i] \in Nonces
  OBVIOUS
<1>2. PICK f : /\ Replays(f, Len(nonces), d, nonces)
               /\ Replay(d, nonces) =
                    [dev |-> f[Len(nonces)],
                     reply |-> FirstHit([i \in 1 .. Len(nonces) |-> Scan(f[i], nonces[i])])]
  BY <1>1, ReplayRuns
<1> DEFINE answers == [i \in 1 .. Len(nonces) |-> Scan(f[i], nonces[i])]
<1>3. ASSUME NEW i \in 1 .. Len(nonces)
      PROVE  answers[i] = IF <<h, nonces[i], d["Tgt"]>> \in Winning
                          THEN API!Found(1, h, nonces[i]) ELSE API!NotFound
  <2>1. f[i]["Tr"] = << <<h, nonces[i], nonces[i]>>, <<h, nonces[i], nonces[i]>> >> /\ f[i]["Tgt"] = d["Tgt"]
    BY <1>1, <1>2, ReplayKeepsInputs
  <2>2. Scan(f[i], nonces[i]) = IF <<h, nonces[i], f[i]["Tgt"]>> \in Winning
                                THEN API!Found(1, h, nonces[i]) ELSE API!NotFound
    BY <1>1, <2>1, ScanIsOfItsAttempt
  <2> QED  BY <2>1, <2>2
<1>4. FirstHit(answers) = API!Reference(h, nonces, d["Tgt"])
  <2>1. DOMAIN answers = 1 .. Len(nonces) /\ Len(nonces) \in Nat
    BY <1>1
  <2> HIDE DEF answers
  <2> QED  BY <1>3, <2>1, FirstHitIsReference
<1> QED  BY <1>2, <1>4

-----------------------------------------------------------------------------
(* The answers, and the ends of a call. *)

\* A batch is a sequence of one nonce or more.
LEMMA BatchIsSeq ==
  ASSUME NEW nonces \in API!Batches
  PROVE  /\ nonces \in Seq(Nonces)
         /\ Len(nonces) \in 1 .. MaxCount
<1>1. PICK n \in 1 .. MaxCount : nonces \in [1 .. n -> Nonces]
  BY DEF API!Batches
<1>2. n \in Nat
  BY CtxAssumption
<1>3. nonces \in Seq(Nonces) /\ Len(nonces) = n
  BY <1>1, <1>2
<1> QED  BY <1>1, <1>3

\* A nonce alone is a batch.
LEMMA OneIsBatch ==
  ASSUME NEW x \in Nonces
  PROVE  <<x>> \in API!Batches /\ Len(<<x>>) = 1 /\ <<x>>[1] = x
<1>1. <<x>> \in [1 .. 1 -> Nonces] /\ 1 \in 1 .. MaxCount
  BY CtxAssumption
<1> QED  BY <1>1 DEF API!Batches

\* Whatever a scan finds, it reports success.
LEMMA ScanSucceeds ==
  ASSUME NEW d, NEW x
  PROVE  \/ Scan(d, x) = API!NotFound
         \/ \E h : Scan(d, x) = API!Found(1, h, x)
BY DEF Scan

\* So does the first hit of several.
LEMMA FirstHitSucceeds ==
  ASSUME NEW n \in Nat, NEW answers, DOMAIN answers = 1 .. n,
         \A i \in 1 .. n : answers[i] = API!NotFound \/ \E h, x : answers[i] = API!Found(1, h, x)
  PROVE  FirstHit(answers).rc = 0
<1> DEFINE hits  == {i \in DOMAIN answers : answers[i].found}
           first == CHOOSE i \in hits : \A j \in hits : i <= j
<1>1. CASE hits = {}
  BY <1>1 DEF FirstHit, API!NotFound
<1>2. CASE hits # {}
  <2>1. first \in hits
    <3>1. \E i \in hits : \A j \in hits : i <= j
      <4>1. hits \subseteq Nat
        OBVIOUS
      <4> QED  BY <1>2, <4>1, LeastMember
    <3> QED  BY <3>1
  <2>2. FirstHit(answers) = [answers[first] EXCEPT !.attempt = first]
    BY <1>2 DEF FirstHit
  <2> HIDE DEF first
  <2>3. PICK h, x : answers[first] = API!Found(1, h, x)
    BY <2>1 DEF API!NotFound
  <2>4. FirstHit(answers) = API!Found(first, h, x)
    BY <2>2, <2>3, FoundAgain
  <2> QED  BY <2>4 DEF API!Found
<1> QED  BY <1>1, <1>2

\* The end of a call that did its work on the matrices of `header`.
LEMMA FinishKeepsBuffers ==
  ASSUME BufferInv, NEW d, DOMAIN d = Buffers,
         {d["A"], d["B"]} \subseteq Headers \cup {None, Bad},
         NEW header \in Headers \cup {None}, header # None => d["A"] = header /\ d["B"] = header,
         NEW answer, answer.rc = 0, Finish(d, header, answer)
  PROVE  BufferInv'
<1>1. dev' = d /\ pending' = FALSE
  BY DEF Finish
<1>2. kept' \in {header, None}
  BY DEF Finish
<1>3. reply'.rc \in {0, 4}
  BY DEF Finish, API!Failed
<1> QED  BY <1>1, <1>2, <1>3 DEF BufferInv, InputsAreKept

\* A call that failed on the way.
LEMMA FailKeepsBuffers ==
  ASSUME BufferInv, NEW writesInputs \in BOOLEAN, FailDuring(writesInputs)
  PROVE  BufferInv'
<1>1. CASE writesInputs
  BY <1>1 DEF BufferInv, InputsAreKept, FailDuring, Broken, API!Failed, Buffers
<1>2. CASE ~writesInputs
  BY <1>2 DEF BufferInv, InputsAreKept, FailDuring, Broken, API!Failed, Buffers
<1> QED  BY <1>1, <1>2

\* To a caller, a call that was done is one that answered or one that failed.
LEMMA FinishIsAnswerOrFailure ==
  ASSUME NEW d, NEW header, NEW answer, Finish(d, header, answer)
  PROVE  \/ kept' = header /\ reply' = answer
         \/ API!Fails
BY DEF Finish, API!Fails

\* And one that failed on the way is one that failed.
LEMMA FailDuringIsFailure ==
  ASSUME NEW writesInputs \in BOOLEAN, FailDuring(writesInputs)
  PROVE  API!Fails
BY DEF FailDuring, API!Fails

-----------------------------------------------------------------------------
(* The calls on the matrices of one nonce. *)

\* A search for one nonce that worked on the matrices of h answers for that batch of one.
LEMMA ScanIsReference ==
  ASSUME NEW d, NEW h \in Headers, NEW x \in Nonces,
         d["Tr"] = << <<h, x, x>>, <<h, x, x>> >>
  PROVE  Scan(d, x) = API!Reference(h, <<x>>, d["Tgt"])
<1> DEFINE t == d["Tgt"]
           winners == {i \in 1 .. Len(<<x>>) : <<h, <<x>>[i], t>> \in Winning}
<1>1. winners = IF <<h, x, t>> \in Winning THEN {1} ELSE {}
  BY OneIsBatch
<1>2. (CHOOSE i \in {1} : \A j \in {1} : i <= j) = 1
  OBVIOUS
<1>3. API!Reference(h, <<x>>, t) =
        IF winners = {} THEN API!NotFound
        ELSE API!Found(CHOOSE i \in winners : \A j \in winners : i <= j, h,
                       <<x>>[CHOOSE i \in winners : \A j \in winners : i <= j])
  BY DEF API!Reference
<1> HIDE DEF winners
<1>4. API!Reference(h, <<x>>, t) = IF <<h, x, t>> \in Winning THEN API!Found(1, h, x) ELSE API!NotFound
  <2>1. CASE <<h, x, t>> \in Winning
    BY <1>1, <1>2, <1>3, <2>1, OneIsBatch
  <2>2. CASE <<h, x, t>> \notin Winning
    BY <1>1, <1>3, <2>2
  <2> QED  BY <2>1, <2>2
<1> QED  BY <1>4, ScanIsOfItsAttempt

\* The work of prl_mine_ctx_run on its arguments.
LEMMA RunWork ==
  ASSUME NEW d, DOMAIN d = Buffers, NEW h, NEW x, NEW t
  PROVE  LET e == Mine(AddNoise(ZeroTranscripts(CopyKeys(CopyNoise(CopyInputs(d, h), x), x, t))))
         IN  /\ DOMAIN e = Buffers /\ e["A"] = h /\ e["B"] = h /\ e["Key"] = x /\ e["Tgt"] = t
             /\ e["Tr"] = << <<h, x, x>>, <<h, x, x>> >>
BY DEF Mine, AddNoise, ZeroTranscripts, CopyKeys, CopyNoise, CopyInputs, Buffers

\* That of prl_mine_ctx_run_keyed.
LEMMA RunKeyedWork ==
  ASSUME NEW d, DOMAIN d = Buffers, NEW h, NEW x, NEW t
  PROVE  LET e == Attempt(CopyKeys(CopyInputs(d, h), x, t), x)
         IN  /\ DOMAIN e = Buffers /\ e["A"] = h /\ e["B"] = h /\ e["Key"] = x /\ e["Tgt"] = t
             /\ e["Tr"] = << <<h, x, x>>, <<h, x, x>> >>
<1> DEFINE c == CopyKeys(CopyInputs(d, h), x, t)
<1>1. DOMAIN c = Buffers /\ c["A"] = h /\ c["B"] = h /\ c["Key"] = x /\ c["Tgt"] = t
  BY DEF CopyKeys, CopyInputs, Buffers
<1> HIDE DEF c
<1>2. QED  BY <1>1, AttemptIsOfItsKey DEF c

\* That of prl_mine_ctx_run_keyed_preloaded.
LEMMA RunPreloadedWork ==
  ASSUME NEW d, DOMAIN d = Buffers, NEW x, NEW t
  PROVE  LET e == Attempt(CopyKeys(d, x, t), x)
         IN  /\ DOMAIN e = Buffers /\ e["A"] = d["A"] /\ e["B"] = d["B"] /\ e["Key"] = x /\ e["Tgt"] = t
             /\ e["Tr"] = << <<d["A"], x, x>>, <<d["B"], x, x>> >>
<1> DEFINE c == CopyKeys(d, x, t)
<1>1. DOMAIN c = Buffers /\ c["A"] = d["A"] /\ c["B"] = d["B"] /\ c["Key"] = x /\ c["Tgt"] = t
  BY DEF CopyKeys, Buffers
<1> HIDE DEF c
<1>2. QED  BY <1>1, AttemptIsOfItsKey DEF c

-----------------------------------------------------------------------------
(* Batches. *)

\* However the key buffers grow, or fail to, what is left holds together; and a growth
\* that succeeded has the room.
LEMMA GrowthKeepsKeys ==
  ASSUME KeyInv, NEW count \in 1 .. MaxCount, NEW grown \in EnsureKeyBatch(count)
  PROVE  /\ KeysGood(grown.keys, grown.heap, grown.cap, grown.graph)
         /\ grown.ok => count <= grown.cap
<1>1. CASE count <= cap
  <2>1. grown = [ok |-> TRUE, keys |-> keys, cap |-> cap, graph |-> graph, heap |-> heap]
    BY <1>1 DEF EnsureKeyBatch, Growths
  <2>2. grown.ok = TRUE /\ grown.keys = keys /\ grown.cap = cap /\ grown.graph = graph /\ grown.heap = heap
    BY <2>1
  <2> QED  BY <1>1, <2>2 DEF KeyInv
<1>2. CASE ~(count <= cap)
  <2> DEFINE freed  == [p \in Places |-> IF p \in {keys.a, keys.b} THEN 0 ELSE heap[p]]
             vacant == {p \in Places : freed[p] = 0}
             Grown(ok, a, b, c) ==
               [ok |-> ok, keys |-> [a |-> a, b |-> b], cap |-> c, graph |-> NoGraph,
                heap |-> [p \in Places |-> IF p \in {a, b} THEN count ELSE freed[p]]]
  <2>1. grown \in (UNION {{Grown(TRUE, a, b, count) : b \in vacant \ {a}} : a \in vacant})
                  \cup {Grown(FALSE, a, Null, cap) : a \in vacant \cup {Null}}
    BY <1>2, Zenon DEF EnsureKeyBatch, Growths
  <2>2. \/ \E a \in vacant : \E b \in vacant \ {a} : grown = Grown(TRUE, a, b, count)
        \/ \E a \in vacant \cup {Null} : grown = Grown(FALSE, a, Null, cap)
    <3> HIDE DEF Grown, vacant
    <3>1. CASE grown \in {Grown(FALSE, a, Null, cap) : a \in vacant \cup {Null}}
      BY <3>1
    <3>2. CASE grown \in UNION {{Grown(TRUE, a, b, count) : b \in vacant \ {a}} : a \in vacant}
      <4>1. PICK a \in vacant : grown \in {Grown(TRUE, a, b, count) : b \in vacant \ {a}}
        BY <3>2
      <4> QED  BY <4>1
    <3> QED  BY <2>1, <3>1, <3>2
  <2>3. PICK ok, a, b, c :
          /\ grown = Grown(ok, a, b, c) /\ ok \in BOOLEAN
          /\ a \in Places \cup {Null} /\ b \in Places \cup {Null} /\ (a = b => a = Null)
          /\ (ok /\ c = count) \/ (~ok /\ c = cap /\ b = Null)
    <3> HIDE DEF Grown
    <3>1. \A a \in vacant : a \in Places
      OBVIOUS
    <3> HIDE DEF vacant
    <3>2. CASE \E a \in vacant : \E b \in vacant \ {a} : grown = Grown(TRUE, a, b, count)
      <4>1. PICK a \in vacant, b \in vacant : a # b /\ grown = Grown(TRUE, a, b, count)
        BY <3>2
      <4> QED  BY <3>1, <4>1
    <3>3. CASE \E a \in vacant \cup {Null} : grown = Grown(FALSE, a, Null, cap)
      <4>1. PICK a \in vacant \cup {Null} : grown = Grown(FALSE, a, Null, cap)
        BY <3>3
      <4> QED  BY <3>1, <4>1
    <3> QED  BY <2>2, <3>2, <3>3
  <2>4. /\ grown.ok = ok /\ grown.keys = [a |-> a, b |-> b] /\ grown.cap = c /\ grown.graph = NoGraph
        /\ grown.heap = [p \in Places |-> IF p \in {a, b} THEN count ELSE freed[p]]
    BY <2>3
  <2>5. \A p \in Places : freed[p] = 0
    BY DEF KeyInv, KeysGood
  <2> HIDE DEF freed, vacant
  <2>6. grown.heap = [p \in Places |-> IF p \in {a, b} THEN count ELSE 0]
    BY <2>4, <2>5
  <2>7. cap \in 0 .. MaxCount /\ count \in 0 .. MaxCount /\ count > cap /\ Null \notin Places
        /\ count > 0 /\ count \in Nat
    BY <1>2, CtxAssumption DEF KeyInv, KeysGood, Null
  <2>8. /\ NoGraph \in [count : 0 .. MaxCount, at : Pointers] /\ NoGraph.count = 0
        /\ grown.keys \in Pointers
    BY <2>3, <2>4, CtxAssumption DEF NoGraph, NoKeys, Pointers
  <2>9. grown.heap \in [Places -> 0 .. MaxCount]
    <3>1. 0 \in 0 .. MaxCount
      BY CtxAssumption
    <3> QED  BY <2>6, <2>7, <3>1
  <2>10. /\ grown.keys.a = a /\ grown.keys.b = b
         /\ \A p \in Places : grown.heap[p] = IF p \in {a, b} THEN count ELSE 0
    BY <2>4, <2>6
  <2>11. c \in 0 .. MaxCount /\ c <= count /\ (b # Null => c = count)
    BY <2>3, <2>7
  <2>12. KeysGood(grown.keys, grown.heap, grown.cap, grown.graph)
    BY <2>3, <2>4, <2>7, <2>8, <2>9, <2>10, <2>11 DEF KeysGood
  <2>13. grown.ok => count <= grown.cap
    BY <2>3, <2>4, <2>7
  <2> QED  BY <2>12, <2>13
<1> QED  BY <1>1, <1>2

\* The graph that is launched is for this batch, and has the addresses of now.
LEMMA BuiltIsCurrent ==
  ASSUME NEW count \in 1 .. MaxCount, NEW k, NEW h, NEW c, NEW old, KeysGood(k, h, c, old)
  PROVE  LET built == BuildBatchGraph(old, count, k)
         IN  /\ KeysGood(k, h, c, built)
             /\ built.count = count /\ built.at = k
<1> DEFINE built == BuildBatchGraph(old, count, k)
<1>1. built \in [count : 0 .. MaxCount, at : Pointers] /\ built.count = count /\ built.at = k
  BY CtxAssumption DEF BuildBatchGraph, KeysGood
<1> HIDE DEF built
<1>2. KeysGood(k, h, c, built)
  BY <1>1 DEF KeysGood
<1> QED  BY <1>1, <1>2 DEF built

\* What a batch leaves on the device, and that it answers.
LEMMA ReplayWork ==
  ASSUME NEW d, DOMAIN d = Buffers, NEW nonces \in Seq(Nonces)
  PROVE  LET done == Replay(d, nonces)
         IN  /\ DOMAIN done.dev = Buffers /\ done.dev["A"] = d["A"] /\ done.dev["B"] = d["B"]
             /\ done.reply.rc = 0
<1> DEFINE n == Len(nonces)
<1>1. n \in Nat
  OBVIOUS
<1>2. PICK f : /\ Replays(f, n, d, nonces)
               /\ Replay(d, nonces) =
                    [dev |-> f[n], reply |-> FirstHit([i \in 1 .. n |-> Scan(f[i], nonces[i])])]
  BY <1>1, ReplayRuns
<1>3. DOMAIN f[n] = Buffers /\ f[n]["A"] = d["A"] /\ f[n]["B"] = d["B"]
  BY <1>1, <1>2, ReplayKeepsInputs
<1> DEFINE answers == [i \in 1 .. n |-> Scan(f[i], nonces[i])]
<1>4. DOMAIN answers = 1 .. n
      /\ \A i \in 1 .. n : answers[i] = API!NotFound \/ \E h, x : answers[i] = API!Found(1, h, x)
  BY ScanSucceeds
<1>5. FirstHit(answers).rc = 0
  <2> HIDE DEF answers
  <2> QED  BY <1>1, <1>4, FirstHitSucceeds
<1> QED  BY <1>2, <1>3, <1>5

\* The graph finds the nonces of the batch: it reads the two buffers they were copied
\* to, and these have the room, since neither pointer is null.
LEMMA GraphFindsNonces ==
  ASSUME KeyInv', NEW nonces \in Seq(Nonces), Len(nonces) <= cap',
         NEW g, g.count = Len(nonces), g.at = keys', Null \notin {keys'.a, keys'.b}
  PROVE  KeysFound(nonces, g) = nonces
<1> DEFINE n == Len(nonces)
<1>1. n \in Nat /\ DOMAIN nonces = 1 .. n /\ nonces = [i \in 1 .. n |-> nonces[i]]
  OBVIOUS
<1>2. /\ keys'.a \in Places /\ keys'.b \in Places /\ cap' \in Int
      /\ heap'[keys'.a] \in Int /\ heap'[keys'.b] \in Int
      /\ heap'[keys'.a] >= cap' /\ heap'[keys'.b] >= cap'
  BY DEF KeyInv, KeysGood, Pointers
<1>3. \A i \in 1 .. n : heap'[keys'.a] >= i /\ heap'[keys'.b] >= i
  BY <1>1, <1>2
<1>4. KeysFound(nonces, g) = [i \in 1 .. n |-> nonces[i]]
  BY <1>1, <1>3 DEF KeysFound
<1> QED  BY <1>1, <1>4

\* A batch that was launched: the buffers, and what its caller sees.
LEMMA LaunchStep ==
  ASSUME BufferInv, KeyInv', NEW nonces \in API!Batches, NEW t \in Targets, Len(nonces) <= cap',
         NEW g, g.count = Len(nonces), g.at = keys', Launch(nonces, t, g)
  PROVE  BufferInv' /\ (API!RunKept(nonces, t) \/ API!Fails)
<1> DEFINE d == [dev EXCEPT !["Tgt"] = t]
           done == Replay(d, nonces)
<1>1. CASE FailDuring(FALSE)
  BY <1>1, FailKeepsBuffers, FailDuringIsFailure
<1>2. CASE Finish(done.dev, kept, done.reply)
  <2>1. DOMAIN d = Buffers /\ d["A"] = dev["A"] /\ d["B"] = dev["B"] /\ d["Tgt"] = t
    BY DEF BufferInv, Buffers
  <2>2. nonces \in Seq(Nonces)
    BY BatchIsSeq
  <2> HIDE DEF d
  <2>3. DOMAIN done.dev = Buffers /\ done.dev["A"] = dev["A"] /\ done.dev["B"] = dev["B"] /\ done.reply.rc = 0
    BY <2>1, <2>2, ReplayWork
  <2>4. kept # None => done.reply = API!Reference(kept, nonces, t)
    <3> SUFFICES ASSUME kept # None PROVE done.reply = API!Reference(kept, nonces, t)
      OBVIOUS
    <3>1. kept \in Headers /\ d["A"] = kept /\ d["B"] = kept
      BY <2>1 DEF BufferInv, InputsAreKept
    <3> QED  BY <2>1, <2>2, <3>1, ReplayIsReference
  <2> HIDE DEF done
  <2>5. BufferInv'
    BY <1>2, <2>3, FinishKeepsBuffers DEF BufferInv, InputsAreKept
  <2>6. API!RunKept(nonces, t) \/ API!Fails
    BY <1>2, <2>4, FinishIsAnswerOrFailure DEF API!RunKept
  <2> QED  BY <2>5, <2>6
<1>3. FailDuring(FALSE) \/ Finish(done.dev, kept, done.reply)
  <2>1. nonces \in Seq(Nonces)
    BY BatchIsSeq
  <2>2. Null \notin {keys'.a, keys'.b} => KeysFound(nonces, g) = nonces
    BY <2>1, GraphFindsNonces
  <2> QED  BY <2>2, Zenon DEF Launch
<1> QED  BY <1>1, <1>2, <1>3

-----------------------------------------------------------------------------
(* The one-shot calls. *)

\* The work of a one-shot search is on its own matrices and its own nonce.
LEMMA ApartWork ==
  ASSUME NEW h, NEW x, NEW t
  PROVE  /\ Apart(h, x, t)["Tr"] = << <<h, x, x>>, <<h, x, x>> >>
         /\ Apart(h, x, t)["Tgt"] = t
         /\ ApartNoised(h, x, t)["Tr"] = << <<h, x, x>>, <<h, x, x>> >>
         /\ ApartNoised(h, x, t)["Tgt"] = t
BY DEF Apart, ApartNoised, Mine, AddNoise, CopyKeys, CopyNoise, CopyInputs, ZeroTranscripts, Allocated, Buffers

\* Both kinds of one-shot search answer as the reference does.
LEMMA ApartIsReference ==
  ASSUME NEW h \in Headers, NEW nonces \in API!Batches, NEW t
  PROVE  /\ FirstHit([i \in DOMAIN nonces |-> Scan(Apart(h, nonces[i], t), nonces[i])])
              = API!Reference(h, nonces, t)
         /\ FirstHit([i \in DOMAIN nonces |-> Scan(ApartNoised(h, nonces[i], t), nonces[i])])
              = API!Reference(h, nonces, t)
<1>1. Len(nonces) \in Nat /\ DOMAIN nonces = 1 .. Len(nonces) /\ \A i \in 1 .. Len(nonces) : nonces[i] \in Nonces
  BY BatchIsSeq
<1> DEFINE first  == [i \in DOMAIN nonces |-> Scan(Apart(h, nonces[i], t), nonces[i])]
           second == [i \in DOMAIN nonces |-> Scan(ApartNoised(h, nonces[i], t), nonces[i])]
           answer(i) == IF <<h, nonces[i], t>> \in Winning THEN API!Found(1, h, nonces[i]) ELSE API!NotFound
<1>2. ASSUME NEW i \in 1 .. Len(nonces) PROVE first[i] = answer(i) /\ second[i] = answer(i)
  <2>1. nonces[i] \in Nonces /\ i \in DOMAIN nonces
    BY <1>1
  <2>2. /\ Scan(Apart(h, nonces[i], t), nonces[i]) = answer(i)
        /\ Scan(ApartNoised(h, nonces[i], t), nonces[i]) = answer(i)
    BY <2>1, ApartWork, ScanIsOfItsAttempt
  <2> QED  BY <2>1, <2>2
<1>3. DOMAIN first = 1 .. Len(nonces) /\ DOMAIN second = 1 .. Len(nonces)
  BY <1>1
<1> HIDE DEF first, second
<1>4. FirstHit(first) = API!Reference(h, nonces, t) /\ FirstHit(second) = API!Reference(h, nonces, t)
  BY <1>1, <1>2, <1>3, FirstHitIsReference
<1> QED  BY <1>4 DEF first, second

\* And report success.
LEMMA ApartSucceeds ==
  ASSUME NEW h, NEW nonces \in API!Batches, NEW t
  PROVE  /\ FirstHit([i \in DOMAIN nonces |-> Scan(Apart(h, nonces[i], t), nonces[i])]).rc = 0
         /\ FirstHit([i \in DOMAIN nonces |-> Scan(ApartNoised(h, nonces[i], t), nonces[i])]).rc = 0
<1>1. Len(nonces) \in Nat /\ DOMAIN nonces = 1 .. Len(nonces)
  BY BatchIsSeq
<1> DEFINE first  == [i \in DOMAIN nonces |-> Scan(Apart(h, nonces[i], t), nonces[i])]
           second == [i \in DOMAIN nonces |-> Scan(ApartNoised(h, nonces[i], t), nonces[i])]
<1>2. DOMAIN first = 1 .. Len(nonces)
      /\ \A i \in 1 .. Len(nonces) : first[i] = API!NotFound \/ \E g, x : first[i] = API!Found(1, g, x)
  BY <1>1, ScanSucceeds
<1>3. DOMAIN second = 1 .. Len(nonces)
      /\ \A i \in 1 .. Len(nonces) : second[i] = API!NotFound \/ \E g, x : second[i] = API!Found(1, g, x)
  BY <1>1, ScanSucceeds
<1> HIDE DEF first, second
<1>4. FirstHit(first).rc = 0 /\ FirstHit(second).rc = 0
  BY <1>1, <1>2, <1>3, FirstHitSucceeds
<1> QED  BY <1>4 DEF first, second

\* A one-shot call that was done leaves the context alone, and answers unless an
\* error was pending.
LEMMA FinishApartStep ==
  ASSUME BufferInv, UNCHANGED <<dev, kept>>, NEW answer, answer.rc = 0, FinishApart(answer)
  PROVE  BufferInv' /\ ((UNCHANGED kept /\ reply' = answer) \/ API!Fails)
BY DEF BufferInv, InputsAreKept, FinishApart, API!Fails, API!Failed

-----------------------------------------------------------------------------
(* The invariant, and the steps as a caller sees them. *)

\* A context just created knows no matrices and has no graph.
LEMMA InitIInv == Init => IInv /\ API!ContextInit
<1> SUFFICES ASSUME Init PROVE IInv /\ API!ContextInit
  OBVIOUS
<1>1. DOMAIN dev = Buffers /\ dev["A"] = None /\ dev["B"] = None
  BY DEF Init, Allocated, Buffers
<1>2. BufferInv
  BY <1>1 DEF Init, BufferInv, InputsAreKept, API!Ready
<1>3. KeyInv
  <2>1. /\ heap = [p \in Places |-> 0] /\ cap = 0 /\ graph = NoGraph /\ keys = NoKeys
        /\ 0 \in 0 .. MaxCount /\ NoKeys \in Pointers /\ NoKeys.a = Null /\ NoKeys.b = Null
        /\ Null \notin Places
    BY CtxAssumption DEF Init, NoKeys, Pointers, Null
  <2>2. NoGraph \in [count : 0 .. MaxCount, at : Pointers] /\ NoGraph.count = 0
    BY <2>1 DEF NoGraph
  <2>3. heap \in [Places -> 0 .. MaxCount] /\ \A p \in Places : heap[p] = 0
    BY <2>1
  <2> QED  BY <2>1, <2>2, <2>3 DEF KeyInv, KeysGood
<1> QED  BY <1>2, <1>3 DEF Init, IInv, API!ContextInit

\* Every call keeps the invariant, and is to its caller a call of MiningContext.
LEMMA NextStep ==
  ASSUME IInv, Next
  PROVE  IInv' /\ API!ContextNext
<1> USE DEF IInv
<1>1. CASE SetInputs
  <2>1. KeyInv'
    BY <1>1 DEF SetInputs, KeyInv
  <2>2. CASE FailDuring(TRUE)
    BY <2>1, <2>2, FailKeepsBuffers, FailDuringIsFailure DEF API!ContextNext
  <2>3. ASSUME NEW h \in Headers, Finish(CopyInputs(dev, h), h, API!Ready)
        PROVE  BufferInv' /\ API!ContextNext
    <3> DEFINE d == CopyInputs(dev, h)
    <3>1. DOMAIN d = Buffers /\ d["A"] = h /\ d["B"] = h
      BY DEF CopyInputs, BufferInv, Buffers
    <3>2. API!Ready.rc = 0
      BY DEF API!Ready
    <3> HIDE DEF d
    <3>3. BufferInv'
      BY <2>3, <3>1, <3>2, FinishKeepsBuffers DEF d
    <3>4. API!SetInputs(h) \/ API!Fails
      BY <2>3, FinishIsAnswerOrFailure DEF API!SetInputs
    <3> QED  BY <3>3, <3>4 DEF API!ContextNext
  <2> QED  BY <1>1, <2>1, <2>2, <2>3 DEF SetInputs
<1>2. CASE Run
  <2>1. KeyInv'
    BY <1>2 DEF Run, KeyInv
  <2>2. CASE FailDuring(TRUE)
    BY <2>1, <2>2, FailKeepsBuffers, FailDuringIsFailure DEF API!ContextNext
  <2> DEFINE d(h, x, t) == Mine(AddNoise(ZeroTranscripts(CopyKeys(CopyNoise(CopyInputs(dev, h), x), x, t))))
  <2>3. ASSUME NEW h \in Headers, NEW x \in Nonces, NEW t \in Targets,
               Finish(d(h, x, t), h, Scan(d(h, x, t), d(h, x, t)["Key"]))
        PROVE  BufferInv' /\ API!ContextNext
    <3>1. /\ DOMAIN d(h, x, t) = Buffers /\ d(h, x, t)["A"] = h /\ d(h, x, t)["B"] = h
          /\ d(h, x, t)["Key"] = x /\ d(h, x, t)["Tgt"] = t
          /\ d(h, x, t)["Tr"] = << <<h, x, x>>, <<h, x, x>> >>
      BY RunWork DEF BufferInv
    <3> HIDE DEF d
    <3>2. Scan(d(h, x, t), x) = API!Reference(h, <<x>>, t)
      BY <3>1, ScanIsReference
    <3>3. Scan(d(h, x, t), x).rc = 0
      BY ScanSucceeds DEF API!Found, API!NotFound
    <3>4. BufferInv'
      BY <2>3, <3>1, <3>3, FinishKeepsBuffers
    <3>5. API!RunWith(h, <<x>>, t) \/ API!Fails
      BY <2>3, <3>1, <3>2, FinishIsAnswerOrFailure DEF API!RunWith
    <3> QED  BY <3>4, <3>5, OneIsBatch DEF API!ContextNext
  <2> QED  BY <1>2, <2>1, <2>2, <2>3 DEF Run
<1>3. CASE RunKeyed
  <2>1. KeyInv'
    BY <1>3 DEF RunKeyed, KeyInv
  <2>2. CASE FailDuring(TRUE)
    BY <2>1, <2>2, FailKeepsBuffers, FailDuringIsFailure DEF API!ContextNext
  <2> DEFINE d(h, x, t) == Attempt(CopyKeys(CopyInputs(dev, h), x, t), x)
  <2>3. ASSUME NEW h \in Headers, NEW x \in Nonces, NEW t \in Targets,
               Finish(d(h, x, t), h, Scan(d(h, x, t), d(h, x, t)["Key"]))
        PROVE  BufferInv' /\ API!ContextNext
    <3>1. /\ DOMAIN d(h, x, t) = Buffers /\ d(h, x, t)["A"] = h /\ d(h, x, t)["B"] = h
          /\ d(h, x, t)["Key"] = x /\ d(h, x, t)["Tgt"] = t
          /\ d(h, x, t)["Tr"] = << <<h, x, x>>, <<h, x, x>> >>
      BY RunKeyedWork DEF BufferInv
    <3> HIDE DEF d
    <3>2. Scan(d(h, x, t), x) = API!Reference(h, <<x>>, t)
      BY <3>1, ScanIsReference
    <3>3. Scan(d(h, x, t), x).rc = 0
      BY ScanSucceeds DEF API!Found, API!NotFound
    <3>4. BufferInv'
      BY <2>3, <3>1, <3>3, FinishKeepsBuffers
    <3>5. API!RunWith(h, <<x>>, t) \/ API!Fails
      BY <2>3, <3>1, <3>2, FinishIsAnswerOrFailure DEF API!RunWith
    <3> QED  BY <3>4, <3>5, OneIsBatch DEF API!ContextNext
  <2> QED  BY <1>3, <2>1, <2>2, <2>3 DEF RunKeyed
<1>4. CASE RunKeyedPreloaded
  <2>1. KeyInv'
    BY <1>4 DEF RunKeyedPreloaded, KeyInv
  <2>2. CASE FailDuring(FALSE)
    BY <2>1, <2>2, FailKeepsBuffers, FailDuringIsFailure DEF API!ContextNext
  <2> DEFINE d(x, t) == Attempt(CopyKeys(dev, x, t), x)
  <2>3. ASSUME NEW x \in Nonces, NEW t \in Targets,
               Finish(d(x, t), kept, Scan(d(x, t), d(x, t)["Key"]))
        PROVE  BufferInv' /\ API!ContextNext
    <3>1. /\ DOMAIN d(x, t) = Buffers /\ d(x, t)["A"] = dev["A"] /\ d(x, t)["B"] = dev["B"]
          /\ d(x, t)["Key"] = x /\ d(x, t)["Tgt"] = t
          /\ d(x, t)["Tr"] = << <<dev["A"], x, x>>, <<dev["B"], x, x>> >>
      BY RunPreloadedWork DEF BufferInv
    <3> HIDE DEF d
    <3>2. kept # None => Scan(d(x, t), x) = API!Reference(kept, <<x>>, t)
      BY <3>1, ScanIsReference DEF BufferInv, InputsAreKept
    <3>3. Scan(d(x, t), x).rc = 0
      BY ScanSucceeds DEF API!Found, API!NotFound
    <3>4. BufferInv'
      BY <2>3, <3>1, <3>3, FinishKeepsBuffers DEF BufferInv, InputsAreKept
    <3>5. API!RunKept(<<x>>, t) \/ API!Fails
      BY <2>3, <3>1, <3>2, FinishIsAnswerOrFailure DEF API!RunKept
    <3> QED  BY <3>4, <3>5, OneIsBatch DEF API!ContextNext
  <2> QED  BY <1>4, <2>1, <2>2, <2>3 DEF RunKeyedPreloaded
<1>5. CASE RunBatch
  <2>1. PICK nonces \in API!Batches, t \in Targets : \E grown \in EnsureKeyBatch(Len(nonces)) :
          LET built == BuildBatchGraph(grown.graph, Len(nonces), grown.keys)
          IN  /\ heap' = grown.heap
              /\ keys' = grown.keys
              /\ cap' = grown.cap
              /\ \/ grown.ok /\ graph' = built /\ Launch(nonces, t, built)
                 \/ /\ ~grown.ok \/ grown.graph # built
                    /\ graph' = IF grown.ok THEN NoGraph ELSE grown.graph
                    /\ pending' = TRUE
                    /\ reply' = API!Failed
                    /\ UNCHANGED <<dev, kept>>
    BY <1>5 DEF RunBatch
  <2>2. PICK grown \in EnsureKeyBatch(Len(nonces)) :
          LET built == BuildBatchGraph(grown.graph, Len(nonces), grown.keys)
          IN  /\ heap' = grown.heap
              /\ keys' = grown.keys
              /\ cap' = grown.cap
              /\ \/ grown.ok /\ graph' = built /\ Launch(nonces, t, built)
                 \/ /\ ~grown.ok \/ grown.graph # built
                    /\ graph' = IF grown.ok THEN NoGraph ELSE grown.graph
                    /\ pending' = TRUE
                    /\ reply' = API!Failed
                    /\ UNCHANGED <<dev, kept>>
    BY <2>1
  <2> DEFINE built == BuildBatchGraph(grown.graph, Len(nonces), grown.keys)
  <2>3. Len(nonces) \in 1 .. MaxCount
    BY BatchIsSeq
  <2>4. /\ KeysGood(grown.keys, grown.heap, grown.cap, grown.graph)
        /\ grown.ok => Len(nonces) <= grown.cap
    BY <2>3, GrowthKeepsKeys
  <2>5. /\ KeysGood(grown.keys, grown.heap, grown.cap, built)
        /\ built.count = Len(nonces) /\ built.at = grown.keys
    BY <2>3, <2>4, BuiltIsCurrent
  <2>6. CASE grown.ok /\ graph' = built /\ Launch(nonces, t, built)
    <3> HIDE DEF built
    <3>1. KeyInv'
      BY <2>2, <2>5, <2>6 DEF KeyInv
    <3>2. BufferInv' /\ (API!RunKept(nonces, t) \/ API!Fails)
      BY <2>2, <2>4, <2>5, <2>6, <3>1, LaunchStep
    <3> QED  BY <3>1, <3>2 DEF API!ContextNext
  <2>7. CASE /\ graph' = IF grown.ok THEN NoGraph ELSE grown.graph
             /\ pending' = TRUE /\ reply' = API!Failed /\ UNCHANGED <<dev, kept>>
    <3>1. KeysGood(grown.keys, grown.heap, grown.cap, NoGraph)
      BY <2>4, CtxAssumption DEF KeysGood, NoGraph, NoKeys, Pointers
    <3>2. KeyInv'
      BY <2>2, <2>4, <2>7, <3>1 DEF KeyInv
    <3>3. BufferInv' /\ API!Fails
      BY <2>7 DEF BufferInv, InputsAreKept, API!Fails, API!Failed
    <3> QED  BY <3>2, <3>3 DEF API!ContextNext
  <2> QED  BY <2>2, <2>6, <2>7
<1>6. CASE RunOnce
  <2>1. KeyInv'
    BY <1>6 DEF RunOnce, KeyInv
  <2>2. CASE FailApart /\ UNCHANGED <<dev, kept>>
    <3>1. BufferInv' /\ API!Fails
      BY <2>2 DEF FailApart, BufferInv, InputsAreKept, API!Fails, API!Failed
    <3> QED  BY <2>1, <3>1 DEF API!ContextNext
  <2>3. ASSUME NEW h \in Headers, NEW nonces \in API!Batches, NEW t \in Targets, UNCHANGED <<dev, kept>>,
               FinishApart(FirstHit([i \in DOMAIN nonces |-> Scan(Apart(h, nonces[i], t), nonces[i])]))
        PROVE  BufferInv' /\ API!ContextNext
    <3>1. FirstHit([i \in DOMAIN nonces |-> Scan(Apart(h, nonces[i], t), nonces[i])])
            = API!Reference(h, nonces, t)
      BY ApartIsReference
    <3>2. FirstHit([i \in DOMAIN nonces |-> Scan(Apart(h, nonces[i], t), nonces[i])]).rc = 0
      BY ApartSucceeds
    <3> QED  BY <2>3, <3>1, <3>2, FinishApartStep DEF API!ContextNext, API!RunApart
  <2> QED  BY <1>6, <2>1, <2>2, <2>3 DEF RunOnce
<1>7. CASE SearchOnce
  <2>1. KeyInv'
    BY <1>7 DEF SearchOnce, KeyInv
  <2>2. CASE FailApart /\ UNCHANGED <<dev, kept>>
    <3>1. BufferInv' /\ API!Fails
      BY <2>2 DEF FailApart, BufferInv, InputsAreKept, API!Fails, API!Failed
    <3> QED  BY <2>1, <3>1 DEF API!ContextNext
  <2>3. ASSUME NEW h \in Headers, NEW nonces \in API!Batches, NEW t \in Targets, UNCHANGED <<dev, kept>>,
               FinishApart(FirstHit([i \in DOMAIN nonces |-> Scan(ApartNoised(h, nonces[i], t), nonces[i])]))
        PROVE  BufferInv' /\ API!ContextNext
    <3>1. FirstHit([i \in DOMAIN nonces |-> Scan(ApartNoised(h, nonces[i], t), nonces[i])])
            = API!Reference(h, nonces, t)
      BY ApartIsReference
    <3>2. FirstHit([i \in DOMAIN nonces |-> Scan(ApartNoised(h, nonces[i], t), nonces[i])]).rc = 0
      BY ApartSucceeds
    <3> QED  BY <2>3, <3>1, <3>2, FinishApartStep DEF API!ContextNext, API!RunApart
  <2> QED  BY <1>7, <2>1, <2>2, <2>3 DEF SearchOnce
<1>8. CASE NoiseOnce
  <2>1. KeyInv'
    BY <1>8 DEF NoiseOnce, KeyInv
  <2>2. CASE FailApart /\ UNCHANGED <<dev, kept>>
    <3>1. BufferInv' /\ API!Fails
      BY <2>2 DEF FailApart, BufferInv, InputsAreKept, API!Fails, API!Failed
    <3> QED  BY <2>1, <3>1 DEF API!ContextNext
  <2> DEFINE d(x, y) == GenerateNoise(ZeroPerms(Allocated), x, y)
  <2>3. ASSUME NEW x \in Nonces, NEW y \in Nonces, UNCHANGED <<dev, kept>>,
               FinishApart([rc |-> 0, noise |-> <<d(x, y)["EAL"], d(x, y)["EAR"], d(x, y)["EBL"], d(x, y)["EBR"]>>])
        PROVE  BufferInv' /\ API!ContextNext
    <3>1. d(x, y)["EAL"] = x /\ d(x, y)["EAR"] = x /\ d(x, y)["EBL"] = y /\ d(x, y)["EBR"] = y
      BY DEF GenerateNoise, ZeroPerms, Allocated, Buffers
    <3> HIDE DEF d
    <3>2. FinishApart(API!Noise(x, y)) /\ API!Noise(x, y).rc = 0
      BY <2>3, <3>1 DEF API!Noise
    <3>3. BufferInv' /\ ((UNCHANGED kept /\ reply' = API!Noise(x, y)) \/ API!Fails)
      BY <2>3, <3>2, FinishApartStep
    <3> QED  BY <3>3 DEF API!ContextNext, API!NoiseApart
  <2> QED  BY <1>8, <2>1, <2>2, <2>3 DEF NoiseOnce
<1> QED  BY <1>1, <1>2, <1>3, <1>4, <1>5, <1>6, <1>7, <1>8 DEF Next

\* A step that changes nothing keeps the invariant.
LEMMA StutterKeepsIInv == IInv /\ UNCHANGED vars => IInv'
BY DEF IInv, BufferInv, KeyInv, InputsAreKept, vars

\* The invariant holds in every reachable state.
LEMMA Invariant == Spec => []IInv
<1>1. Init => IInv
  BY InitIInv
<1>2. IInv /\ [Next]_vars => IInv'
  BY NextStep, StutterKeepsIInv
<1> QED  BY <1>1, <1>2, PTL DEF Spec

-----------------------------------------------------------------------------
\* The context keeps its types: A and B are those of a header, or of none that the
\* code relies on; the key buffers are there in full or not at all.
THEOREM CtxTypeCorrect == Spec => []TypeOK
<1>1. IInv => TypeOK
  BY DEF IInv, BufferInv, KeyInv, KeysGood, Pointers, TypeOK
<1> QED  BY <1>1, Invariant, PTL

\* Whichever allocation fails and however batches grow and shrink, a key pointer is
\* null or owns memory for key_batch_cap keys, nothing is left behind, and the graph
\* kept for the next batch of its size reads those two buffers (ensure_key_batch,
\* build_batch_graph).
THEOREM KeyBuffersHeld == Spec => []KeyBuffersAreHeld
<1>1. IInv => KeyBuffersAreHeld
  BY DEF IInv, KeyInv, KeysGood, KeyBuffersAreHeld
<1> QED  BY <1>1, Invariant, PTL

\* The context implements MiningContext: whatever calls came before, a call that
\* succeeds answers for its own nonces and target on the matrices given last.
THEOREM ContextIsFresh == Spec => CallsAreFresh
<1>1. Init => API!ContextInit
  BY InitIInv
<1>2. IInv /\ [Next]_vars => [API!ContextNext]_(API!context)
  BY NextStep DEF vars, API!context
<1> QED  BY <1>1, <1>2, Invariant, PTL DEF Spec, CallsAreFresh, API!Spec
===============================================================================
