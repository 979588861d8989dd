------------------------------ MODULE PoolProbe ------------------------------
(***************************************************************************)
(* The handshake probe of miner/pool_client.py (probe and _collect): one    *)
(* dialect after another, from the classic subscribe and authorize through  *)
(* login to five shapes of authorize, until the pool gives a job, asks for  *)
(* a challenge or closes; then a verdict.  In wallet mode, one authorize    *)
(* and all that comes until the deadline.                                   *)
(***************************************************************************)
EXTENDS StratumClient

CONSTANTS MaxSaid   \* bound: messages the pool sends, its answers included

ASSUME ProbeAssumption == MaxSaid \in Nat

VARIABLES
  stage,      \* 0: wallet mode; 1, 2: phases 1 and 2; 3 .. 7: the shapes of phase 3
  pc,         \* "collect", "decide", "ended" or "crashed"
  job, challenge, closed,   \* what was observed (obs)
  code,       \* the exit code, once ended
  said,       \* bound counter
  issued      \* history: the pool has put a job in a message

vars == <<stratum, stage, pc, job, challenge, closed, code, said, issued>>

LastStage == 7
None      == -1

\* Messages may name a job, show an auth gate, or both; replies have an id.
Says     == SUBSET {"job", "gate"}
Messages == [id : Nat \cup {None}, says : Says]

TypeOK ==
  /\ lastId \in Nat
  /\ pending \subseteq [id : 1 .. lastId]
  /\ inbox \in Seq(Messages)
  /\ line \in {"open", "closed", "broken"}
  /\ stage \in 0 .. LastStage
  /\ pc \in {"collect", "decide", "ended", "crashed"}
  /\ {job, challenge, closed, issued} \subseteq BOOLEAN
  /\ code \in {None, 0, 1, 3}
  /\ pc = "ended" <=> code # None
  /\ said \in 0 .. MaxSaid

\* Connected, and the first stage's requests are sent: subscribe and authorize, or
\* the wallet's authorize.
Init ==
  /\ stage \in {0, 1}
  /\ lastId = stage + 1
  /\ pending = [id : 1 .. lastId]
  /\ inbox = << >>
  /\ line = "open"
  /\ pc = "collect"
  /\ job = FALSE /\ challenge = FALSE /\ closed = FALSE
  /\ code = None
  /\ said = 0
  /\ issued = FALSE

-----------------------------------------------------------------------------

\* The ids of the requests of this stage.
Watched == IF stage = 1 THEN {1, 2} ELSE {lastId}

\* A job in a notification, or in the reply to a request of this stage.  (In
\* wallet mode only a notification counts.)
NamesJob(m) == "job" \in m.says /\ (m.id = None \/ (m.id \in Watched /\ stage # 0))

\* Mutant: any reply to a request of this stage stands for a job.
AnyReply(m) == m.says # {"gate"} /\ (m.id = None \/ m.id \in Watched)

Settled == job \/ challenge \/ closed

\* Read a message; a job or a gate ends the collection, except in wallet mode.
HearWith(namesJob(_)) ==
  /\ pc = "collect"
  /\ Yield
  /\ LET m == Head(inbox)
     IN  /\ job' = (job \/ namesJob(m))
         /\ challenge' = (challenge \/ ("gate" \in m.says /\ stage # 0))
  /\ pc' = IF stage # 0 /\ (job' \/ challenge') THEN "decide" ELSE "collect"
  /\ UNCHANGED <<stage, closed, code, said, issued>>

HearAnyReply == HearWith(AnyReply)

Hear == HearWith(NamesJob)

\* The stream ends: a close is noted, an error is only printed.
HearEnd ==
  /\ pc = "collect"
  /\ YieldEnd
  /\ closed' = (closed \/ (line = "closed" /\ stage # 0))
  /\ pc' = "decide"
  /\ UNCHANGED <<stage, job, challenge, code, said, issued>>

\* The deadline of the collection has passed.
Deadline(next) ==
  /\ pc = "collect"
  /\ pc' = next
  /\ UNCHANGED <<stratum, stage, job, challenge, closed, code, said, issued>>

\* Mutant: the collection goes on until something is heard.
CollectOn == Deadline("collect")

CollectOver == Deadline("decide")

\* The next request is sent; send may raise, and nothing catches that.
TryNext ==
  /\ pc = "decide"
  /\ stage' = stage + 1
  /\ \/ SendRequest([id |-> 0]) /\ pc' = "collect"
     \/ SendFails /\ pc' = "crashed"
  /\ UNCHANGED <<job, challenge, closed, code, said, issued>>

\* From the classic dialect to login (a closed connection is only reported).
TryLogin == stage = 1 /\ ~job /\ ~challenge /\ ~closed /\ TryNext

\* From login to the first shape of authorize.
TryShapes == stage = 2 /\ ~job /\ ~challenge /\ ~closed /\ TryNext

\* From one shape to the next, until something breaks the loop.
TryShapeUnless(stop) == stage \in 3 .. LastStage - 1 /\ ~stop /\ TryNext

\* Mutant: a gate does not break the loop over the shapes.
TryShapePastGate == TryShapeUnless(job \/ closed)

TryNextShape == TryShapeUnless(Settled)

Verdict ==
  CASE stage = 0 -> IF job THEN 0 ELSE 3
    [] challenge -> 1
    [] job       -> 0
    [] closed    -> 1
    [] OTHER     -> 3

\* The connection is closed and the verdict printed.
Judge ==
  /\ pc = "decide"
  /\ Settled \/ stage \in {0, LastStage}
  /\ pc' = "ended"
  /\ code' = Verdict
  /\ UNCHANGED <<stratum, stage, job, challenge, closed, said, issued>>

ProbeNext == Hear \/ HearEnd \/ CollectOver \/ TryLogin \/ TryShapes \/ TryNextShape \/ Judge

-----------------------------------------------------------------------------
(* The pool. *)

Bystander == UNCHANGED <<stage, pc, job, challenge, closed, code>>

Answer ==
  /\ said < MaxSaid
  /\ said' = said + 1
  /\ \E r \in pending, says \in Says :
       /\ PoolAnswers(r, [id |-> r.id, says |-> says])
       /\ issued' = (issued \/ "job" \in says)
  /\ Bystander

Notify ==
  /\ said < MaxSaid
  /\ said' = said + 1
  /\ \E says \in Says :
       /\ PoolSays([id |-> None, says |-> says])
       /\ issued' = (issued \/ "job" \in says)
  /\ Bystander

Leave == PoolLeaves /\ UNCHANGED <<said, issued>> /\ Bystander

Over == pc \in {"ended", "crashed"}

Done == Over /\ UNCHANGED vars

Next == ProbeNext \/ (~Over /\ (Answer \/ Notify \/ Leave)) \/ Done

\* Every read has a timeout and every collection a deadline.
Spec == Init /\ [][Next]_vars /\ WF_vars(ProbeNext)

-----------------------------------------------------------------------------

\* "detects it, reports it, and stops": once a gate was seen, whatever the pool
\* sends after it, the probe sends nothing more, in any dialect.
NothingAfterGate == [][challenge => lastId' = lastId]_vars

\* The verdict that the protocol is open rests on a job the pool did issue.
OpenMeansJob == code = 0 => issued

\* The probe ends, however silent or talkative the pool.
ProbeEnds == <>Over
=============================================================================
