------------------------------ MODULE LuckyPool ------------------------------
(***************************************************************************)
(* The live mode of miner/luckypool_miner.py: authorize, then in turn pump  *)
(* the messages that have come, search one batch on the current job,        *)
(* submit a share that was found, and wait for its reply.  A job is known   *)
(* by the number of its notification; header, target and job_id travel      *)
(* together in it.                                                          *)
(***************************************************************************)
EXTENDS StratumClient

CONSTANTS
  MaxJobs,    \* bound: notifications the pool sends
  MaxShares,  \* bound: shares submitted
  MaxSaid     \* bound: messages that speak of an acceptance and are no plain reply

ASSUME PoolAssumption == MaxJobs \in Nat /\ MaxShares \in Nat /\ MaxSaid \in Nat

VARIABLES
  pc,         \* where live() is
  cur,        \* the current job, 0 before the first
  job,        \* the job of the batch being searched
  submitted, accepted,
  deadline,   \* minutes are over
  latest,     \* the pool's latest job
  said,       \* history: the messages of kind "says" that the pool has sent
  missed      \* history: jobs whose notification was read and not applied

miner == <<pc, cur, job, submitted, accepted, deadline, missed>>

vars == <<stratum, miner, latest, said>>

\* "yes" and "no": replies with a result or an error, which the test of line 204
\* ("result" is true, or "accept" is in the text) takes for an acceptance or not.
\* "says": "accept" is in the text, and there is neither result nor error: a message
\* of the pool's own (id 0), or a reply of another form.
Messages == [kind : {"notify"}, job : 1..MaxJobs] \cup [kind : {"yes", "no", "says"}, id : Nat]

Steps == {"hello", "head", "pump", "search", "await", "ended", "crashed"}

TypeOK ==
  /\ lastId \in Nat
  /\ pending \subseteq [id : 1..lastId]
  /\ inbox \in Seq(Messages)
  /\ line \in {"open", "closed", "broken"}
  /\ pc \in Steps
  /\ {cur, job, latest} \subseteq 0..MaxJobs
  /\ {submitted, accepted} \subseteq Nat
  /\ deadline \in BOOLEAN
  /\ said \in 0..MaxSaid
  /\ missed \subseteq 1..MaxJobs

\* Connected, and mining.authorize is sent.
Init ==
  /\ lastId = 1
  /\ pending = {[id |-> 1]}
  /\ inbox = << >>
  /\ line = "open"
  /\ pc = "hello"
  /\ cur = 0 /\ job = 0 /\ latest = 0
  /\ submitted = 0 /\ accepted = 0 /\ said = 0
  /\ deadline = FALSE
  /\ missed = {}

-----------------------------------------------------------------------------
(* pump *)

Pumping == pc \in {"hello", "pump"}

IsNotify == Head(inbox).kind = "notify"

\* A notification becomes the current job; replies are only printed.
PumpMessageWhen(applies) ==
  /\ Pumping
  /\ Yield
  /\ cur' = IF applies THEN Head(inbox).job ELSE cur
  /\ UNCHANGED <<pc, job, submitted, accepted, deadline, latest, said, missed>>

\* Mutant: a new job is applied only while there is none.
PumpFirstJob == PumpMessageWhen(IsNotify /\ cur = 0)

PumpMessage == PumpMessageWhen(IsNotify)

\* The end of the stream is reported to the caller, which returns.
PumpClosedTo(next) ==
  /\ Pumping
  /\ YieldEnd
  /\ pc' = next
  /\ UNCHANGED <<cur, job, submitted, accepted, deadline, latest, said, missed>>

\* Mutant: what pump returned is ignored.
PumpClosedIgnored == PumpClosedTo("head")

PumpClosed == PumpClosedTo("ended")

\* The window is over, with messages left or not; without a job, sleep.
PumpOver ==
  /\ Pumping
  /\ pc' = IF pc = "pump" /\ cur # 0 THEN "search" ELSE "head"
  /\ job' = IF pc' = "search" THEN cur ELSE job
  /\ UNCHANGED <<stratum, cur, submitted, accepted, deadline, latest, said, missed>>

-----------------------------------------------------------------------------
(* The loop. *)

LoopHead ==
  /\ pc = "head"
  /\ pc' = IF deadline THEN "ended" ELSE "pump"
  /\ UNCHANGED <<stratum, cur, job, submitted, accepted, deadline, latest, said, missed>>

\* Nothing found, or the CPU check does not confirm it.
SearchMiss ==
  /\ pc = "search"
  /\ pc' = "head"
  /\ UNCHANGED <<stratum, cur, job, submitted, accepted, deadline, latest, said, missed>>

\* A share of the batch's job, if that is still the current one, is sent, or
\* the send raises.
SubmitShare ==
  /\ pc = "search"
  /\ job = cur
  /\ submitted < MaxShares
  /\ submitted' = submitted + 1
  /\ \/ SendRequest([id |-> 0]) /\ pc' = "await"
     \/ SendFails               /\ pc' = "crashed"
  /\ UNCHANGED <<cur, job, accepted, deadline, latest, said, missed>>

Counts(m) == m.kind \in {"yes", "says"}

\* The message has a result or an error, or the id of the share.
IsReply(m) == m.kind \in {"yes", "no"} \/ (m.kind = "says" /\ m.id = lastId)

\* The wait for the reply: every message read is counted or not, whatever it answers,
\* and then ends the wait or not.  A notification is printed, and not applied.
WaitMessage(ends(_)) ==
  /\ pc = "await"
  /\ Yield
  /\ accepted' = IF Counts(Head(inbox)) THEN accepted + 1 ELSE accepted
  /\ pc' = IF ends(Head(inbox)) THEN "head" ELSE "await"
  /\ missed' = IF IsNotify THEN missed \cup {Head(inbox).job} ELSE missed
  /\ UNCHANGED <<cur, job, submitted, deadline, latest, said>>

\* Mutant: only the reply to this very share ends the wait.
IsOwnReply(m) == m.kind # "notify" /\ m.id = lastId

AwaitOwnReply == WaitMessage(IsOwnReply)

AwaitReply == WaitMessage(IsReply)

\* Mutant: without a reply only the end of the stream ends the wait.
AwaitForever ==
  /\ pc = "await"
  /\ YieldEnd
  /\ pc' = "head"
  /\ UNCHANGED <<cur, job, submitted, accepted, deadline, latest, said, missed>>

\* The six seconds are over, or the stream ends.
AwaitOver ==
  /\ pc = "await"
  /\ pc' = "head"
  /\ UNCHANGED <<stratum, cur, job, submitted, accepted, deadline, latest, said, missed>>

-----------------------------------------------------------------------------
(* The pool and the clock. *)

Notify ==
  /\ latest < MaxJobs
  /\ PoolSays([kind |-> "notify", job |-> latest + 1])
  /\ latest' = latest + 1
  /\ UNCHANGED <<miner, said>>

Answer ==
  /\ \E request \in pending, kind \in {"yes", "no"} :
       PoolAnswers(request, [kind |-> kind, id |-> request.id])
  /\ UNCHANGED <<miner, latest, said>>

\* A message of kind "says", on its own or for a reply.
Speak ==
  /\ said < MaxSaid
  /\ said' = said + 1
  /\ \/ PoolSays([kind |-> "says", id |-> 0])
     \/ \E request \in pending : PoolAnswers(request, [kind |-> "says", id |-> request.id])
  /\ UNCHANGED <<miner, latest>>

Leave == PoolLeaves /\ UNCHANGED <<miner, latest, said>>

TimeIsUp ==
  /\ ~deadline
  /\ deadline' = TRUE
  /\ UNCHANGED <<stratum, pc, cur, job, submitted, accepted, latest, said, missed>>

MinerNext ==
  \/ PumpMessage \/ PumpClosed \/ PumpOver
  \/ LoopHead \/ SearchMiss \/ SubmitShare
  \/ AwaitReply \/ AwaitOver

Stopped == pc \in {"ended", "crashed"} /\ UNCHANGED vars

Next == MinerNext \/ Notify \/ Answer \/ Speak \/ Leave \/ TimeIsUp \/ Stopped

Spec == Init /\ [][Next]_vars

\* The miner runs on; a pump that has something to read does not always find
\* its window over before the first read.  The pool and the clock owe nothing.
FairSpec == Spec /\ WF_vars(MinerNext) /\ SF_vars(PumpMessage) /\ SF_vars(PumpClosed)

-----------------------------------------------------------------------------

\* However late the replies come and whichever request they answer, the
\* authorization's among them, one plain reply at most is counted for a share (the
\* break of lines 206-207): what is counted beyond the shares, the pool has said in
\* messages without a result or an error.
OneReplyPerShare == accepted <= submitted + said

\* mine each job (lines 16 and 181): a batch is on the job heard last, so that the
\* comparison of line 187 never drops a share; and a job the pool has replaced it
\* with is still unread, or its notification was read by the wait for a reply.
MinesLastHeard ==
  /\ pc = "search" => job = cur
  /\ \A j \in cur + 1 .. latest :
       \/ \E i \in DOMAIN inbox : inbox[i] = [kind |-> "notify", job |-> j]
       \/ j \in missed
       \/ line = "broken"

\* A connection that the pool has closed or that broke ends the miner: it does
\* not go on burning power without a job source (lines 177-178).
LostLinkEnds == line # "open" ~> pc \in {"ended", "crashed"}

\* After its minutes the miner ends, whatever the pool sends or keeps back.
DeadlineEnds == deadline ~> pc \in {"ended", "crashed"}
=============================================================================
