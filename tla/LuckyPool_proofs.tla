--------------------------- MODULE LuckyPool_proofs ---------------------------
(***************************************************************************)
(* For any number of jobs, shares and other messages, one plain reply at    *)
(* most is counted for a share submitted, and the job mined is the one      *)
(* heard last.                                                              *)
(***************************************************************************)
EXTENDS LuckyPool, FiniteSetTheorems, TLAPS

\* The places of the messages of kind "says" in a queue.
Spoken(q) == {i \in DOMAIN q : q[i].kind = "says"}

\* While a reply is awaited one share is still to be judged; a message of kind "says"
\* is unread or has been read, counted or not.
CountInv ==
  /\ accepted + Cardinality(Spoken(inbox)) <= submitted + said
  /\ pc = "await" => accepted + Cardinality(Spoken(inbox)) < submitted + said

IInv == TypeOK /\ CountInv

\* The messages of kind "says" in a queue are finitely many.
LEMMA SpokenFinite ==
  ASSUME NEW q \in Seq(Messages)
  PROVE  IsFiniteSet(Spoken(q)) /\ Cardinality(Spoken(q)) \in Nat
<1>1. IsFiniteSet(1 .. Len(q)) /\ Spoken(q) \in SUBSET (1 .. Len(q))
  BY FS_Interval DEF Spoken
<1>2. IsFiniteSet(Spoken(q))
  BY <1>1, FS_Subset
<1> QED  BY <1>2, FS_CardinalityType

\* One more, if the message put at the end is of that kind.
LEMMA SpokenAppend ==
  ASSUME NEW q \in Seq(Messages), NEW m \in Messages
  PROVE  Cardinality(Spoken(Append(q, m))) =
           Cardinality(Spoken(q)) + (IF m.kind = "says" THEN 1 ELSE 0)
<1> DEFINE r == Append(q, m)
           n == Len(q) + 1
<1>1. /\ DOMAIN r = DOMAIN q \cup {n} /\ r[n] = m /\ n \notin DOMAIN q
      /\ \A i \in DOMAIN q : r[i] = q[i]
  OBVIOUS
<1>2. n \notin Spoken(q)
  BY <1>1 DEF Spoken
<1>3. CASE m.kind = "says"
  <2>1. Spoken(r) = Spoken(q) \cup {n}
    BY <1>1, <1>3 DEF Spoken
  <2> HIDE DEF r, n
  <2>2. Cardinality(Spoken(q) \cup {n}) = Cardinality(Spoken(q)) + 1
    BY <1>2, SpokenFinite, FS_AddElement
  <2>3. Cardinality(Spoken(r)) = Cardinality(Spoken(q)) + 1
    BY <2>1, <2>2
  <2> QED  BY <1>3, <2>3 DEF r
<1>4. CASE m.kind # "says"
  <2>1. Spoken(r) = Spoken(q)
    BY <1>1, <1>4 DEF Spoken
  <2> HIDE DEF r, n
  <2>2. Cardinality(Spoken(r)) = Cardinality(Spoken(q)) /\ Cardinality(Spoken(q)) \in Nat
    BY <2>1, SpokenFinite
  <2> QED  BY <1>4, <2>2 DEF r
<1> QED  BY <1>3, <1>4

\* One less, if the message taken off the front is of that kind.
LEMMA SpokenTail ==
  ASSUME NEW q \in Seq(Messages), q # << >>
  PROVE  Cardinality(Spoken(Tail(q))) + (IF Head(q).kind = "says" THEN 1 ELSE 0) <=
           Cardinality(Spoken(q))
<1> DEFINE t == Tail(q)
           rest == Spoken(q) \ {1}
           f == [i \in Spoken(t) |-> i + 1]
<1>1. /\ Len(q) \in Nat \ {0} /\ Head(q) = q[1] /\ DOMAIN q = 1 .. Len(q)
      /\ t \in Seq(Messages) /\ DOMAIN t = 1 .. Len(q) - 1
      /\ \A i \in DOMAIN t : t[i] = q[i + 1]
  OBVIOUS
<1>2. f \in Injection(Spoken(t), rest)
  <2>1. \A i \in Spoken(t) : i \in Int /\ i + 1 \in rest
    BY <1>1 DEF Spoken
  <2>2. f \in [Spoken(t) -> rest]
    BY <2>1
  <2>3. \A i, k \in Spoken(t) : f[i] = f[k] => i = k
    BY <2>1
  <2> QED  BY <2>2, <2>3 DEF Injection, IsInjective
<1>3. 1 \in Spoken(q) <=> Head(q).kind = "says"
  BY <1>1 DEF Spoken
<1>4. /\ IsFiniteSet(rest)
      /\ Cardinality(rest) = IF 1 \in Spoken(q) THEN Cardinality(Spoken(q)) - 1
                             ELSE Cardinality(Spoken(q))
  BY SpokenFinite, FS_RemoveElement
<1> HIDE DEF t, rest, f
<1>5. Cardinality(Spoken(t)) <= Cardinality(rest)
  BY <1>2, <1>4, FS_Injection
<1>6. Cardinality(Spoken(q)) \in Nat /\ Cardinality(Spoken(t)) \in Nat
  BY <1>1, SpokenFinite
<1>7. Cardinality(Spoken(t)) + (IF Head(q).kind = "says" THEN 1 ELSE 0) <= Cardinality(Spoken(q))
  BY <1>3, <1>4, <1>5, <1>6
<1> QED  BY <1>7 DEF t

\* The invariant holds once mining.authorize is sent (luckypool_miner.py:132-136).
LEMMA InitIInv == Init => IInv
<1> SUFFICES ASSUME Init PROVE IInv
  OBVIOUS
<1> USE PoolAssumption DEF Init
<1>1. inbox \in Seq(Messages)
  OBVIOUS
<1>2. [id |-> 1] \in [id : 1..lastId]
  OBVIOUS
<1>3. pending \subseteq [id : 1..lastId]
  BY <1>2
<1>4. lastId \in Nat /\ line \in {"open", "closed", "broken"} /\ pc \in Steps
  BY DEF Steps
<1>5. {cur, job, latest} \subseteq 0..MaxJobs
  OBVIOUS
<1>6. {submitted, accepted} \subseteq Nat
  OBVIOUS
<1>7. deadline \in BOOLEAN
  OBVIOUS
<1>11. missed \subseteq 1..MaxJobs
  OBVIOUS
<1>12. said \in 0..MaxSaid
  OBVIOUS
<1>8. TypeOK
  <2> HIDE DEF Init
  <2> QED  BY <1>1, <1>3, <1>4, <1>5, <1>6, <1>7, <1>11, <1>12, Zenon DEF TypeOK
<1>9. Spoken(inbox) = {}
  BY DEF Spoken
<1>10. CountInv
  BY <1>9, FS_EmptySet DEF CountInv
<1> QED  BY <1>8, <1>10 DEF IInv

\* Every step of the miner and of the pool keeps the types (luckypool_miner.py:138-212).
LEMMA NextType == TypeOK /\ [Next]_vars => TypeOK'
<1> SUFFICES ASSUME TypeOK, [Next]_vars
             PROVE  TypeOK'
  OBVIOUS
<1> USE PoolAssumption DEF TypeOK, Steps
<1>1. ASSUME Yield
      PROVE  /\ Head(inbox) \in Messages
             /\ inbox' \in Seq(Messages)
             /\ IsNotify => Head(inbox).job \in 1..MaxJobs
  <2>1. Head(inbox) \in Messages /\ inbox' \in Seq(Messages)
    BY <1>1 DEF Yield
  <2> QED  BY <2>1 DEF IsNotify, Messages
<1>2. CASE PumpMessage
  BY <1>1, <1>2 DEF PumpMessage, PumpMessageWhen, Pumping, Yield
<1>3. CASE PumpClosed
  BY <1>3 DEF PumpClosed, PumpClosedTo, Pumping, YieldEnd, stratum
<1>4. CASE PumpOver
  BY <1>4 DEF PumpOver, Pumping, stratum
<1>5. CASE LoopHead
  BY <1>5 DEF LoopHead, stratum
<1>6. CASE SearchMiss
  BY <1>6 DEF SearchMiss, stratum
<1>7. CASE SubmitShare
  <2> USE DEF SubmitShare
  <2>1. CASE SendFails /\ pc' = "crashed"
    BY <1>7, <2>1 DEF SendFails, stratum
  <2>2. CASE SendRequest([id |-> 0]) /\ pc' = "await"
    <3>1. [[id |-> 0] EXCEPT !.id = lastId + 1] \in [id : 1..lastId']
      BY <2>2 DEF SendRequest
    <3>2. pending' \subseteq [id : 1..lastId']
      BY <2>2, <3>1 DEF SendRequest
    <3> QED  BY <1>7, <2>2, <3>2 DEF SendRequest
  <2> QED  BY <1>7, <2>1, <2>2
<1>8. CASE AwaitReply
  <2>1. Yield
    BY <1>8 DEF AwaitReply, WaitMessage
  <2>2. missed' \subseteq 1..MaxJobs
    BY <1>1, <1>8, <2>1 DEF AwaitReply, WaitMessage
  <2> QED  BY <1>1, <1>8, <2>1, <2>2 DEF AwaitReply, WaitMessage, Yield
<1>9. CASE AwaitOver
  BY <1>9 DEF AwaitOver, stratum
<1>10. CASE Notify
  <2>1. [kind |-> "notify", job |-> latest + 1] \in Messages
    BY <1>10 DEF Notify, Messages
  <2> QED  BY <1>10, <2>1 DEF Notify, PoolSays, miner
<1>11. CASE Answer
  <2>1. PICK request \in pending, kind \in {"yes", "no"} :
          PoolAnswers(request, [kind |-> kind, id |-> request.id])
    BY <1>11 DEF Answer
  <2>2. [kind |-> kind, id |-> request.id] \in Messages
    BY DEF Messages
  <2> QED  BY <1>11, <2>1, <2>2 DEF Answer, PoolAnswers, miner
<1>12. CASE Speak
  <2>1. [kind |-> "says", id |-> 0] \in Messages
    BY DEF Messages
  <2>2. \A request \in pending : [kind |-> "says", id |-> request.id] \in Messages
    BY DEF Messages
  <2>3. PICK m \in Messages : inbox' = Append(inbox, m)
    BY <1>12, <2>1, <2>2 DEF Speak, PoolSays, PoolAnswers
  <2>4. inbox' \in Seq(Messages)
    BY <2>3
  <2>5. pending' \subseteq pending /\ UNCHANGED <<lastId, line>>
    BY <1>12 DEF Speak, PoolSays, PoolAnswers
  <2>6. said' \in 0..MaxSaid
    BY <1>12 DEF Speak
  <2> QED  BY <1>12, <2>4, <2>5, <2>6 DEF Speak, miner
<1>13. CASE Leave
  BY <1>13 DEF Leave, PoolLeaves, miner
<1>14. CASE TimeIsUp
  BY <1>14 DEF TimeIsUp, stratum
<1>15. CASE UNCHANGED vars
  BY <1>15 DEF vars, stratum, miner
<1> QED
  BY <1>2, <1>3, <1>4, <1>5, <1>6, <1>7, <1>8, <1>9, <1>10, <1>11, <1>12, <1>13, <1>14, <1>15
     DEF Next, MinerNext, Stopped

\* Each message counted is the reply that ends the wait of one share, or was said
\* besides (luckypool_miner.py:201-207).
LEMMA NextCount == IInv /\ [Next]_vars => CountInv'
<1> SUFFICES ASSUME TypeOK, CountInv, [Next]_vars
             PROVE  CountInv'
  BY DEF IInv
<1> DEFINE left == Cardinality(Spoken(inbox))
<1>1. /\ left \in Nat /\ accepted \in Nat /\ submitted \in Nat /\ said \in Nat
      /\ inbox \in Seq(Messages)
  BY SpokenFinite, PoolAssumption DEF TypeOK
<1>2. ASSUME Yield
      PROVE  /\ left' \in Nat /\ left' <= left
             /\ Head(inbox).kind = "says" => left' + 1 <= left
  <2>1. inbox # << >> /\ inbox' = Tail(inbox) /\ Tail(inbox) \in Seq(Messages)
    BY <1>1, <1>2 DEF Yield
  <2>2. left' = Cardinality(Spoken(Tail(inbox))) /\ left' \in Nat
    BY <2>1, SpokenFinite
  <2>3. left' + (IF Head(inbox).kind = "says" THEN 1 ELSE 0) <= left
    BY <1>1, <2>1, <2>2, SpokenTail
  <2> QED  BY <1>1, <2>2, <2>3
<1>3. ASSUME NEW m \in Messages, inbox' = Append(inbox, m)
      PROVE  left' = left + (IF m.kind = "says" THEN 1 ELSE 0)
  BY <1>1, <1>3, SpokenAppend
<1>4. CASE PumpMessage
  <2>1. Yield /\ pc' = pc /\ pc # "await" /\ UNCHANGED <<accepted, submitted, said>>
    BY <1>4 DEF PumpMessage, PumpMessageWhen, Pumping
  <2> HIDE DEF left
  <2>2. left' \in Nat /\ left' <= left
    BY <1>2, <2>1
  <2>3. accepted + left' <= submitted + said
    BY <1>1, <2>2 DEF CountInv, left
  <2> QED  BY <2>1, <2>3 DEF CountInv, left
<1>5. CASE AwaitReply
  <2>1. /\ Yield /\ pc = "await" /\ UNCHANGED <<submitted, said>>
        /\ accepted' = IF Counts(Head(inbox)) THEN accepted + 1 ELSE accepted
        /\ pc' = IF IsReply(Head(inbox)) THEN "head" ELSE "await"
    BY <1>5 DEF AwaitReply, WaitMessage
  <2>2. accepted + left < submitted + said
    BY <2>1 DEF CountInv
  <2> HIDE DEF left
  <2>3. accepted' + left' <= submitted + said
    BY <1>1, <1>2, <2>1, <2>2 DEF Counts
  <2>4. ~IsReply(Head(inbox)) => accepted' + left' < submitted + said
    BY <1>1, <1>2, <2>1, <2>2 DEF Counts, IsReply
  <2> QED  BY <2>1, <2>3, <2>4 DEF CountInv, left
<1>6. CASE SubmitShare
  <2>1. submitted' = submitted + 1 /\ UNCHANGED <<accepted, said, inbox>>
    BY <1>6 DEF SubmitShare, SendRequest, SendFails, stratum
  <2>2. accepted + left < submitted' + said
    BY <1>1, <2>1 DEF CountInv
  <2> QED  BY <1>1, <2>1, <2>2 DEF CountInv
<1>7. CASE Notify
  <2>1. PICK m \in Messages : m.kind = "notify" /\ inbox' = Append(inbox, m)
    BY <1>7, PoolAssumption DEF Notify, PoolSays, Messages, TypeOK
  <2> HIDE DEF left
  <2>2. left' = left
    BY <1>1, <1>3, <2>1
  <2>3. UNCHANGED <<pc, accepted, submitted, said>>
    BY <1>7 DEF Notify, miner
  <2> QED  BY <2>2, <2>3 DEF CountInv, left
<1>8. CASE Answer
  <2>1. PICK m \in Messages : m.kind \in {"yes", "no"} /\ inbox' = Append(inbox, m)
    <3>1. PICK request \in pending, kind \in {"yes", "no"} :
            PoolAnswers(request, [kind |-> kind, id |-> request.id])
      BY <1>8 DEF Answer
    <3>2. [kind |-> kind, id |-> request.id] \in Messages
      BY DEF Messages, TypeOK
    <3> QED  BY <3>1, <3>2 DEF PoolAnswers
  <2> HIDE DEF left
  <2>2. left' = left
    BY <1>1, <1>3, <2>1
  <2>3. UNCHANGED <<pc, accepted, submitted, said>>
    BY <1>8 DEF Answer, miner
  <2> QED  BY <2>2, <2>3 DEF CountInv, left
<1>9. CASE Speak
  <2>1. PICK m \in Messages : m.kind = "says" /\ inbox' = Append(inbox, m)
    <3>1. [kind |-> "says", id |-> 0] \in Messages
      BY DEF Messages
    <3>2. \A request \in pending : [kind |-> "says", id |-> request.id] \in Messages
      BY DEF Messages, TypeOK
    <3> QED  BY <1>9, <3>1, <3>2 DEF Speak, PoolAnswers, PoolSays
  <2> HIDE DEF left
  <2>2. left' = left + 1
    BY <1>3, <2>1
  <2>3. said' = said + 1 /\ UNCHANGED <<pc, accepted, submitted>>
    BY <1>9 DEF Speak, miner
  <2>4. /\ accepted + left <= submitted + said
        /\ pc = "await" => accepted + left < submitted + said
    BY DEF CountInv, left
  <2>5. /\ accepted' + left' <= submitted' + said'
        /\ pc' = "await" => accepted' + left' < submitted' + said'
    BY <1>1, <2>2, <2>3, <2>4
  <2> QED  BY <2>5 DEF CountInv, left
<1>10. CASE Leave
  <2>1. UNCHANGED <<pc, accepted, submitted, said>> /\ (inbox' = inbox \/ inbox' = << >>)
    BY <1>10 DEF Leave, PoolLeaves, miner
  <2>2. inbox' = << >> => left' = 0
    BY FS_EmptySet DEF Spoken
  <2>3. inbox' = inbox => left' = left
    OBVIOUS
  <2>4. /\ accepted + left <= submitted + said
        /\ pc = "await" => accepted + left < submitted + said
    BY DEF CountInv
  <2> HIDE DEF left
  <2>5. /\ accepted + left' <= submitted + said
        /\ pc = "await" => accepted + left' < submitted + said
    BY <1>1, <2>1, <2>2, <2>3, <2>4
  <2> QED  BY <2>1, <2>5 DEF CountInv, left
<1>11. CASE PumpClosed \/ PumpOver \/ LoopHead \/ SearchMiss \/ AwaitOver \/ TimeIsUp \/ UNCHANGED vars
  <2>1. UNCHANGED <<accepted, submitted, said, inbox>> /\ (pc' = "await" => pc = "await")
    BY <1>11 DEF PumpClosed, PumpClosedTo, PumpOver, LoopHead, SearchMiss, AwaitOver, TimeIsUp,
         YieldEnd, vars, miner, stratum
  <2> QED  BY <2>1 DEF CountInv
<1> QED
  BY <1>4, <1>5, <1>6, <1>7, <1>8, <1>9, <1>10, <1>11 DEF Next, MinerNext, Stopped

\* The two parts together.
LEMMA NextIInv == IInv /\ [Next]_vars => IInv'
BY NextType, NextCount DEF IInv

-----------------------------------------------------------------------------
\* The notifications that wait to be read are newer than the current job, and in the
\* order in which the pool sent them.
IsNotice(i) == inbox[i].kind = "notify"

InboxOrdered ==
  /\ cur <= latest
  /\ \A i \in DOMAIN inbox : IsNotice(i) => cur < inbox[i].job /\ inbox[i].job <= latest
  /\ \A i, k \in DOMAIN inbox : IsNotice(i) /\ IsNotice(k) /\ i < k => inbox[i].job < inbox[k].job

JobsInv == InboxOrdered /\ MinesLastHeard

\* There is no job and nothing to read at the start.
LEMMA InitJobsInv == Init => JobsInv
BY DEF Init, JobsInv, InboxOrdered, MinesLastHeard

\* A message taken off the inbox: the others move up by one (pool_client.py:60).
LEMMA YieldMoves ==
  ASSUME TypeOK, Yield
  PROVE  /\ Len(inbox) \in Nat \ {0} /\ Head(inbox) = inbox[1]
         /\ DOMAIN inbox = 1 .. Len(inbox) /\ DOMAIN inbox' = 1 .. Len(inbox) - 1
         /\ \A i \in DOMAIN inbox' : inbox'[i] = inbox[i + 1]
         /\ UNCHANGED line
<1>1. inbox \in Seq(Messages) /\ inbox # << >> /\ inbox' = Tail(inbox) /\ UNCHANGED line
  BY DEF TypeOK, Yield
<1>2. Len(inbox) \in Nat \ {0} /\ DOMAIN inbox = 1 .. Len(inbox)
  BY <1>1
<1>3. inbox' \in Seq(Messages) /\ Len(inbox') = Len(inbox) - 1
  BY <1>1
<1> QED  BY <1>1, <1>2, <1>3

\* The ends of an interval.
LEMMA IntervalBounds ==
  ASSUME NEW x \in Int, NEW y \in Int, NEW j \in x + 1 .. y
  PROVE  j \in Int /\ x < j /\ j <= y
OBVIOUS

\* What the two ways of reading a message do with a notification.
Reading ==
  /\ pc' # "search"
  /\ \/ cur' = (IF IsNotify THEN Head(inbox).job ELSE cur) /\ UNCHANGED missed
     \/ missed' = (IF IsNotify THEN missed \cup {Head(inbox).job} ELSE missed) /\ UNCHANGED cur

\* Reading a notification, whether it is applied or not, keeps the order of those left
\* and loses no job but to missed (luckypool_miner.py:145-156, 201-207).
LEMMA ReadingKeepsJobs ==
  ASSUME TypeOK, JobsInv, Yield, UNCHANGED latest, Reading
  PROVE  JobsInv'
<1> USE DEF JobsInv, InboxOrdered, IsNotice, IsNotify
<1>1. Head(inbox) = inbox[1] /\ 1 \in DOMAIN inbox /\ inbox[1] \in Messages
  BY YieldMoves DEF TypeOK
<1>2. cur \in Int /\ latest \in Int /\ latest' = latest /\ (IsNotice(1) => inbox[1].job \in Int)
  BY <1>1 DEF TypeOK, Messages
<1>3. cur' <= latest' /\ cur' \in Int /\ latest' \in Int /\ cur <= cur'
  BY <1>1, <1>2 DEF Reading
<1>4. \A i \in DOMAIN inbox' : IsNotice(i)' => cur' < inbox'[i].job /\ inbox'[i].job <= latest'
  <2> TAKE i \in DOMAIN inbox'
  <2> HAVE IsNotice(i)'
  <2>1. i + 1 \in DOMAIN inbox /\ inbox'[i] = inbox[i + 1] /\ 1 < i + 1
    BY YieldMoves
  <2>2. cur < inbox[i + 1].job /\ inbox[i + 1].job <= latest
    BY <2>1
  <2>3. IsNotice(1) => inbox[1].job < inbox[i + 1].job
    BY <1>1, <2>1
  <2> QED  BY <1>1, <2>1, <2>2, <2>3 DEF Reading
<1>5. \A i, k \in DOMAIN inbox' : IsNotice(i)' /\ IsNotice(k)' /\ i < k => inbox'[i].job < inbox'[k].job
  <2> TAKE i, k \in DOMAIN inbox'
  <2> HAVE IsNotice(i)' /\ IsNotice(k)' /\ i < k
  <2>1. /\ i + 1 \in DOMAIN inbox /\ inbox'[i] = inbox[i + 1]
        /\ k + 1 \in DOMAIN inbox /\ inbox'[k] = inbox[k + 1] /\ i + 1 < k + 1
    BY YieldMoves
  <2> QED  BY <2>1
<1>6. MinesLastHeard'
  <2>1. ASSUME NEW j \in cur' + 1 .. latest'
        PROVE  \/ \E i \in DOMAIN inbox' : inbox'[i] = [kind |-> "notify", job |-> j]
               \/ j \in missed'
               \/ line' = "broken"
    <3> HIDE DEF JobsInv, InboxOrdered, IsNotice, IsNotify
    <3>0. j \in Int /\ cur' < j /\ j <= latest'
      BY <1>3, <2>1, IntervalBounds, Zenon
    <3>1. j \in cur + 1 .. latest
      BY <1>2, <1>3, <3>0
    <3> USE DEF JobsInv, InboxOrdered, IsNotice, IsNotify, Reading
    <3>2. CASE j \in missed \/ line = "broken"
      BY <3>2, YieldMoves
    <3>3. ASSUME NEW i \in DOMAIN inbox, inbox[i] = [kind |-> "notify", job |-> j]
          PROVE  \/ \E l \in DOMAIN inbox' : inbox'[l] = [kind |-> "notify", job |-> j]
                 \/ j \in missed'
      <4>1. CASE i = 1
        <5>1. IsNotify /\ Head(inbox).job = j
          BY <1>1, <3>3, <4>1
        <5>2. cur' # j
          BY <1>3, <3>0
        <5> QED  BY <5>1, <5>2
      <4>2. CASE i # 1
        <5>1. i - 1 \in DOMAIN inbox' /\ inbox'[i - 1] = inbox[i]
          BY <4>2, YieldMoves
        <5> QED  BY <3>3, <5>1
      <4> QED  BY <4>1, <4>2
    <3> QED  BY <3>1, <3>2, <3>3 DEF MinesLastHeard
  <2> QED  BY <2>1 DEF MinesLastHeard, Reading
<1> QED  BY <1>3, <1>4, <1>5, <1>6

\* A message put at the end of the inbox, a new job or a reply.
LEMMA WritingKeepsJobs ==
  ASSUME TypeOK, JobsInv, NEW m \in Messages, inbox' = Append(inbox, m),
         UNCHANGED <<miner, line>>,
         \/ m.kind # "notify" /\ UNCHANGED latest
         \/ m = [kind |-> "notify", job |-> latest + 1] /\ latest' = latest + 1
  PROVE  JobsInv'
<1> USE DEF JobsInv, InboxOrdered, IsNotice, TypeOK, miner
<1>1. /\ DOMAIN inbox' = DOMAIN inbox \cup {Len(inbox) + 1}
      /\ DOMAIN inbox = 1 .. Len(inbox) /\ Len(inbox) \in Nat
      /\ \A i \in DOMAIN inbox : inbox'[i] = inbox[i]
      /\ inbox'[Len(inbox) + 1] = m
  OBVIOUS
<1>2. cur \in Int /\ latest \in Int /\ latest <= latest' /\ latest' \in Int
  OBVIOUS
<1>3. \A i \in DOMAIN inbox' : IsNotice(i)' => cur' < inbox'[i].job /\ inbox'[i].job <= latest'
  <2> TAKE i \in DOMAIN inbox'
  <2> HAVE IsNotice(i)'
  <2>1. CASE i \in DOMAIN inbox
    <3>1. inbox[i].job <= latest /\ cur < inbox[i].job
      BY <1>1, <2>1
    <3>2. inbox[i] \in Messages
      BY <2>1
    <3>3. inbox[i].job \in Int
      BY <1>1, <2>1, <3>2 DEF Messages
    <3> QED  BY <1>1, <1>2, <2>1, <3>1, <3>3
  <2>2. CASE i = Len(inbox) + 1
    BY <1>1, <1>2, <2>2
  <2> QED  BY <1>1, <2>1, <2>2
<1>4. \A i, k \in DOMAIN inbox' : IsNotice(i)' /\ IsNotice(k)' /\ i < k => inbox'[i].job < inbox'[k].job
  <2> TAKE i, k \in DOMAIN inbox'
  <2> HAVE IsNotice(i)' /\ IsNotice(k)' /\ i < k
  <2>1. i \in DOMAIN inbox /\ inbox'[i] = inbox[i]
    BY <1>1
  <2>2. CASE k \in DOMAIN inbox
    BY <1>1, <2>1, <2>2
  <2>3. CASE k = Len(inbox) + 1
    <3>1. inbox[i].job <= latest /\ inbox[i].job \in Int
      BY <2>1 DEF Messages
    <3> QED  BY <1>1, <1>2, <2>1, <2>3, <3>1
  <2> QED  BY <1>1, <2>2, <2>3
<1>5. MinesLastHeard'
  <2>1. ASSUME NEW j \in cur' + 1 .. latest'
        PROVE  \/ \E i \in DOMAIN inbox' : inbox'[i] = [kind |-> "notify", job |-> j]
               \/ j \in missed'
               \/ line' = "broken"
    <3>1. CASE j \in cur + 1 .. latest
      BY <1>1, <3>1 DEF MinesLastHeard
    <3>2. CASE j \notin cur + 1 .. latest
      BY <1>1, <1>2, <2>1, <3>2
    <3> QED  BY <3>1, <3>2
  <2> QED  BY <2>1 DEF MinesLastHeard
<1> QED  BY <1>2, <1>3, <1>4, <1>5

\* Only reading and writing touch the jobs; the other steps leave them alone, or take
\* the current job for the batch.
LEMMA NextJobsInv == TypeOK /\ TypeOK' /\ JobsInv /\ [Next]_vars => JobsInv'
<1> SUFFICES ASSUME TypeOK, TypeOK', JobsInv, [Next]_vars
             PROVE  JobsInv'
  OBVIOUS
<1>1. CASE PumpMessage
  BY <1>1, ReadingKeepsJobs DEF PumpMessage, PumpMessageWhen, Pumping, Reading
<1>2. CASE AwaitReply
  BY <1>2, ReadingKeepsJobs DEF AwaitReply, WaitMessage, Reading
<1>3. CASE Notify
  <2>1. [kind |-> "notify", job |-> latest + 1] \in Messages
    BY <1>3, PoolAssumption DEF Notify, Messages, TypeOK
  <2> QED  BY <1>3, <2>1, WritingKeepsJobs DEF Notify, PoolSays
<1>4. CASE Answer
  <2>1. PICK request \in pending, kind \in {"yes", "no"} :
          PoolAnswers(request, [kind |-> kind, id |-> request.id])
    BY <1>4 DEF Answer
  <2>2. [kind |-> kind, id |-> request.id] \in Messages
    BY <2>1 DEF Messages, TypeOK
  <2> QED  BY <1>4, <2>1, <2>2, WritingKeepsJobs DEF Answer, PoolAnswers
<1>7. CASE Speak
  <2>1. [kind |-> "says", id |-> 0] \in Messages
    BY DEF Messages
  <2>2. \A request \in pending : [kind |-> "says", id |-> request.id] \in Messages
    BY DEF Messages, TypeOK
  <2>3. PICK m \in Messages : m.kind # "notify" /\ inbox' = Append(inbox, m) /\ UNCHANGED line
    BY <1>7, <2>1, <2>2 DEF Speak, PoolSays, PoolAnswers
  <2> QED  BY <1>7, <2>3, WritingKeepsJobs DEF Speak
<1>5. CASE Leave
  <2>1. inbox' = inbox \/ (inbox' = << >> /\ line' = "broken")
    BY <1>5 DEF Leave, PoolLeaves
  <2>2. UNCHANGED <<miner, latest>> /\ (line = "broken" => line' = "broken")
    BY <1>5 DEF Leave, PoolLeaves
  <2> QED  BY <2>1, <2>2 DEF JobsInv, InboxOrdered, IsNotice, MinesLastHeard, miner
<1>6. CASE \/ PumpClosed \/ PumpOver \/ LoopHead \/ SearchMiss \/ SubmitShare
           \/ AwaitOver \/ TimeIsUp \/ UNCHANGED vars
  <2>1. UNCHANGED <<inbox, line, cur, latest, missed>> /\ (pc' = "search" => job' = cur)
    BY <1>6 DEF PumpClosed, PumpClosedTo, PumpOver, LoopHead, SearchMiss, SubmitShare,
         AwaitOver, TimeIsUp, vars, miner, stratum, YieldEnd, SendFails, SendRequest,
         JobsInv, MinesLastHeard
  <2> QED  BY <2>1 DEF JobsInv, InboxOrdered, IsNotice, MinesLastHeard
<1> QED
  BY <1>1, <1>2, <1>3, <1>4, <1>5, <1>6, <1>7 DEF Next, MinerNext, Stopped

\* The state of live() and of the connection keeps its types for any number of
\* jobs and shares.
THEOREM LuckyTypeCorrect == Spec => []TypeOK
<1>1. IInv => TypeOK  BY DEF IInv
<1> QED  BY InitIInv, NextIInv, <1>1, PTL DEF Spec

\* One plain reply at most is counted for a share, whatever the order and delay of the
\* pool's replies; every acceptance beyond that is a message the pool sent without a
\* result or an error, each counted once at most (luckypool_miner.py:201-207).
THEOREM OneReplyIsCounted == Spec => []OneReplyPerShare
<1>1. IInv => OneReplyPerShare
  <2> SUFFICES ASSUME IInv PROVE OneReplyPerShare
    OBVIOUS
  <2>1. Cardinality(Spoken(inbox)) \in Nat
    BY SpokenFinite DEF IInv, TypeOK
  <2>2. accepted + Cardinality(Spoken(inbox)) <= submitted + said
    BY DEF IInv, CountInv
  <2>3. accepted \in Nat /\ submitted \in Nat /\ said \in Nat
    BY PoolAssumption DEF IInv, TypeOK
  <2> QED  BY <2>1, <2>2, <2>3 DEF OneReplyPerShare
<1> QED  BY InitIInv, NextIInv, <1>1, PTL DEF Spec

\* The job of a batch is always the one applied last, so the staleness test of
\* luckypool_miner.py:187 never drops a share; and a newer job is unread, or was read
\* by the wait for a reply (lines 201-207), or lost with a broken link.
THEOREM LastHeardIsMined == Spec => []MinesLastHeard
<1>1. JobsInv => MinesLastHeard  BY DEF JobsInv
<1>2. IInv => TypeOK  BY DEF IInv
<1>3. IInv /\ JobsInv /\ [Next]_vars => JobsInv'
  <2> SUFFICES ASSUME IInv, JobsInv, [Next]_vars PROVE JobsInv'
    OBVIOUS
  <2>1. IInv'
    BY NextIInv
  <2>2. TypeOK /\ TypeOK'
    BY <2>1 DEF IInv
  <2> QED  BY <2>2, NextJobsInv
<1> QED  BY InitIInv, NextIInv, InitJobsInv, <1>1, <1>3, PTL DEF Spec
=============================================================================
