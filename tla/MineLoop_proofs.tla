--------------------------- MODULE MineLoop_proofs ---------------------------
(***************************************************************************)
(* Theorems about the programs that mine, with their proofs: the loop of    *)
(* MineLoop for every set of headers, batch size, limit and bound; its      *)
(* self-test for every rule of the stand-in gateway; and SoloMine for any   *)
(* number of attempts and batches.                                          *)
(***************************************************************************)
EXTENDS MCSelfTest, FiniteSetTheorems, WellFoundedInduction, TLAPS

-----------------------------------------------------------------------------
(* The connection: what each of its operations does to the messages. *)

\* Every operation of the link keeps the link's types.
LEMMA LinkTypes ==
  ASSUME LinkTypeOK
  PROVE  /\ \A m \in Methods, h \in Headers \cup {None} : Send(m, h) => LinkTypeOK'
         /\ TakeAnswer => LinkTypeOK'
         /\ \A k \in Kinds, h \in Headers \cup {None} :
              (k = "job" <=> h # None) /\ Reply(k, h) => LinkTypeOK'
         /\ CloseLink => LinkTypeOK'
         /\ RecvWaits \/ Drip \/ LinkFails => LinkTypeOK'
         /\ UNCHANGED link => LinkTypeOK'
<1>1. ASSUME NEW m \in Methods, NEW h \in Headers \cup {None}, Send(m, h)
      PROVE  LinkTypeOK'
  <2> DEFINE r == [id |-> lastId + 1, method |-> m, header |-> h]
  <2>1. r \in Request
    BY DEF LinkTypeOK, Request
  <2>2. requests' \in Seq(Request)
    BY <1>1, <2>1 DEF Send, LinkTypeOK
  <2>3. lastId' \in Nat /\ answers' = answers /\ closed' = closed /\ waited' = FALSE
    BY <1>1 DEF Send, LinkTypeOK
  <2> QED
    BY <2>2, <2>3 DEF LinkTypeOK
<1>2. ASSUME TakeAnswer PROVE LinkTypeOK'
  <2>1. answers' \in Seq(Answer)
    BY <1>2 DEF TakeAnswer, LinkTypeOK
  <2>2. UNCHANGED <<lastId, requests, closed>> /\ waited' = FALSE
    BY <1>2 DEF TakeAnswer
  <2> QED
    BY <2>1, <2>2 DEF LinkTypeOK
<1>3. ASSUME NEW k \in Kinds, NEW h \in Headers \cup {None}, k = "job" <=> h # None, Reply(k, h)
      PROVE  LinkTypeOK'
  <2> DEFINE a == [id |-> Head(requests).id, kind |-> k, header |-> h]
  <2>1. Head(requests) \in Request
    BY <1>3 DEF Reply, LinkTypeOK
  <2>2. a \in Answer
    BY <1>3, <2>1 DEF Answer, Request
  <2>3. requests' \in Seq(Request)
    BY <1>3 DEF Reply, LinkTypeOK
  <2>4. answers' \in Seq(Answer)
    BY <1>3, <2>2 DEF Reply, LinkTypeOK
  <2> QED
    BY <1>3, <2>3, <2>4 DEF Reply, LinkTypeOK
<1>4. ASSUME CloseLink PROVE LinkTypeOK'
  <2>1. PICK n \in 0..Len(answers) : answers' = SubSeq(answers, 1, n)
    BY <1>4 DEF CloseLink
  <2>2. answers' \in Seq(Answer)
    BY <2>1 DEF LinkTypeOK
  <2> QED
    BY <1>4, <2>2 DEF CloseLink, LinkTypeOK
<1>5. ASSUME UNCHANGED link PROVE LinkTypeOK'
  BY <1>5 DEF link, LinkTypeOK
<1>6. ASSUME RecvWaits \/ Drip \/ LinkFails PROVE LinkTypeOK'
  BY <1>6 DEF RecvWaits, Drip, LinkFails, FailsIf, LinkTypeOK
<1> QED
  BY <1>1, <1>2, <1>3, <1>4, <1>5, <1>6

\* The timeout of the socket moves no message.
LEMMA TimeMovesNothing ==
  RecvWaits \/ Drip \/ LinkFails => UNCHANGED <<lastId, requests, answers>>
BY DEF RecvWaits, Drip, LinkFails, FailsIf

\* The head of the answers, when there is one, is an answer.
LEMMA HeadAnswer == LinkTypeOK /\ answers # << >> => Head(answers) \in Answer
  BY DEF LinkTypeOK

\* Adding to the attempts and the work units keeps the counters natural numbers.
LEMMA CountWork ==
  ASSUME NEW m \in Metrics, NEW n \in Nat, NEW work \in Nat
  PROVE  [m EXCEPT !.attempts = @ + n, !.work_units = @ + work] \in Metrics
<1>1. [m EXCEPT !.attempts = @ + n, !.work_units = @ + work]
        = [[m EXCEPT !.attempts = @ + n] EXCEPT !.work_units = @ + work]
  BY DEF Metrics
<1>2. [m EXCEPT !.attempts = @ + n] \in Metrics
  BY DEF Metrics
<1>3. \A q \in Metrics : [q EXCEPT !.work_units = @ + work] \in Metrics
  BY DEF Metrics
<1> QED
  BY <1>1, <1>2, <1>3

\* The types of the state (pc, metrics, header and wire variables of mine_loop
\* and GatewayClient) hold in every reachable state.
LEMMA TypeInit == Init => TypeOK
<1> SUFFICES ASSUME Init PROVE TypeOK
  OBVIOUS
<1>1. LinkTypeOK
  <2>1. << >> \in Seq(Request) /\ << >> \in Seq(Answer)
    OBVIOUS
  <2> QED
    BY <2>1 DEF Init, LinkInit, LinkTypeOK
<1>2. GatewayTypeOK
  BY DEF Init, GatewayInit, GatewayTypeOK
<1>3. metrics \in Metrics
  BY DEF Init, Metrics
<1>4. covered \in [Headers -> SUBSET Nat]
  BY DEF Init
<1>5. gpu \in [Readings -> Temps] /\ dev \in [Readings -> Temps \cup {None}]
  BY DEF Init
<1> QED
  BY <1>1, <1>2, <1>3, <1>4, <1>5 DEF Init, TypeOK, PCs

\* Every step of the loop and of the gateway keeps the types.
LEMMA TypeStep == TypeOK /\ [Next]_vars => TypeOK'
<1> SUFFICES ASSUME TypeOK, [Next]_vars PROVE TypeOK'
  OBVIOUS
<1> USE DEF TypeOK
<1>1. ASSUME UNCHANGED vars PROVE TypeOK'
  BY <1>1, LinkTypes DEF vars, link, gateway, loop, GatewayTypeOK
<1>2. CASE Finish
  BY <1>2, LinkTypes DEF Finish, gateway, GatewayTypeOK, PCs
<1>3. CASE Poll
  BY <1>3, LinkTypes DEF Poll, gateway, GatewayTypeOK, PCs, Awaiting, Methods
<1>4. CASE GotJob
  <2>1. Head(answers) \in Answer
    BY <1>4, HeadAnswer DEF GotJob, SwitchTo, NewHeader, Receive, TakeAnswer
  <2>2. metrics' \in Metrics
    BY <1>4 DEF GotJob, SwitchTo, NewHeader, Metrics
  <2> QED
    BY <1>4, <2>1, <2>2, LinkTypes DEF GotJob, SwitchTo, NewHeader, Receive, gateway, GatewayTypeOK, PCs, Answer
<1>5. CASE GotPaused
  BY <1>5, LinkTypes DEF GotPaused, Receive, gateway, GatewayTypeOK, PCs
<1>6. CASE CheckThermal
  BY <1>6, LinkTypes DEF CheckThermal, gateway, GatewayTypeOK, PCs
<1>7. ASSUME NEW n \in Nat, Tried(n), pc' \in PCs, wins' \in Nat PROVE TypeOK'
  <2>1. metrics' \in Metrics
    <3>1. PICK work \in Nat : work = n * Macs
      BY LoopAssumption
    <3>2. metrics' = [metrics EXCEPT !.attempts = @ + n, !.work_units = @ + work]
      BY <1>7, <3>1 DEF Tried
    <3> QED
      BY <1>7, <3>2, CountWork
  <2>2. covered' \in [Headers -> SUBSET Nat]
    <3>1. attempt..(attempt + n - 1) \in SUBSET Nat
      BY SMT
    <3> QED
      BY <1>7, <3>1 DEF Tried
  <2>3. attempt' \in Nat
    BY <1>7 DEF Tried
  <2> QED
    BY <1>7, <2>1, <2>2, <2>3, LinkTypes DEF Tried, gateway, GatewayTypeOK
<1>8. CASE SearchMiss
  BY <1>7, <1>8, LoopAssumption DEF SearchMiss, PCs
<1>9. CASE SearchHit
  BY <1>7, <1>9, LoopAssumption DEF SearchHit, PCs
<1>10. CASE Confirm
  BY <1>10, LinkTypes DEF Confirm, gateway, GatewayTypeOK, PCs, Awaiting, Methods
<1>11. CASE Confirmed
  BY <1>11, LinkTypes DEF Confirmed, Proceed, Receive, gateway, GatewayTypeOK, PCs
<1>12. CASE StaleDrop
  <2>1. metrics' \in Metrics
    BY <1>12 DEF StaleDrop, DropAsStale, Metrics
  <2> QED
    BY <1>12, <2>1, LinkTypes DEF StaleDrop, DropAsStale, Receive, gateway, GatewayTypeOK, PCs
<1>13. CASE Submit
  <2>1. metrics' \in Metrics
    BY <1>13 DEF Submit, Metrics
  <2> QED
    BY <1>13, <2>1, LinkTypes DEF Submit, gateway, GatewayTypeOK, PCs, Awaiting, Methods
<1>14. CASE Acked
  <2>1. metrics' \in Metrics
    BY <1>14 DEF Acked, Metrics
  <2> QED
    BY <1>14, <2>1, LinkTypes DEF Acked, Receive, gateway, GatewayTypeOK, PCs
<1>15. ASSUME NEW why \in {"link", "mismatch", "error"}, Raise(why), LinkTypeOK'
       PROVE  TypeOK'
  <2>1. metrics' \in Metrics
    BY <1>15 DEF Raise, RaiseCounting, Metrics
  <2> QED
    BY <1>15, <2>1 DEF Raise, RaiseCounting, gateway, GatewayTypeOK, PCs
<1>16. CASE CallFails
  BY <1>15, <1>16, LinkTypes DEF CallFails
<1>17. CASE CallMismatched
  BY <1>15, <1>17, LinkTypes DEF CallMismatched, ReceiveMismatched
<1>18. CASE CallRefused
  BY <1>15, <1>18, LinkTypes DEF CallRefused, Receive
<1>19. CASE Expire
  BY <1>19, LinkTypes DEF Expire, gateway, GatewayTypeOK
<1>20. ASSUME GatewayNext, UNCHANGED loop PROVE TypeOK'
  <2>1. LinkTypeOK'
    BY <1>20, LinkTypes, NoneAssumption DEF GatewayNext, AnswerJob, AnswerNoJob, RecordSubmit,
       RefuseSubmit, NewTip, GatewayDrips, GatewayCloses, Kinds, GatewayTypeOK
  <2>2. GatewayTypeOK'
    BY <1>20 DEF GatewayNext, AnswerJob, AnswerNoJob, RecordSubmit, RefuseSubmit,
       NewTip, GatewayDrips, GatewayCloses, gateway, GatewayTypeOK
  <2> QED
    BY <1>20, <2>1, <2>2 DEF loop
<1>21. CASE Ended
  BY <1>1, <1>21 DEF Ended
<1>22. CASE CallWaits
  BY <1>22, LinkTypes DEF CallWaits, loop, gateway, GatewayTypeOK
<1> QED
  BY <1>1, <1>2, <1>3, <1>4, <1>5, <1>6, <1>8, <1>9, <1>10, <1>11, <1>12, <1>13, <1>14,
     <1>16, <1>17, <1>18, <1>19, <1>20, <1>21, <1>22 DEF Next, LoopNext

THEOREM TypeCorrect == Spec => []TypeOK
BY TypeInit, TypeStep, PTL DEF Spec

-----------------------------------------------------------------------------
(* The order of the messages. *)

\* The messages on the connection are requests and answers, with numbers for ids.
LEMMA Elements ==
  ASSUME LinkTypeOK
  PROVE  /\ Len(answers) \in Nat /\ Len(requests) \in Nat /\ lastId \in Nat
         /\ \A i \in 1..Len(answers) : answers[i] \in Answer /\ answers[i].id \in Nat
         /\ \A i \in 1..Len(requests) : requests[i] \in Request /\ requests[i].id \in Nat
<1>1. \A i \in 1..Len(answers) : answers[i] \in Answer
  BY DEF LinkTypeOK
<1>2. \A i \in 1..Len(requests) : requests[i] \in Request
  BY DEF LinkTypeOK
<1>3. \A a \in Answer : a.id \in Nat
  BY DEF Answer
<1>4. \A r \in Request : r.id \in Nat
  BY DEF Request
<1>5. Len(answers) \in Nat /\ Len(requests) \in Nat /\ lastId \in Nat
  BY DEF LinkTypeOK
<1> QED
  BY <1>1, <1>2, <1>3, <1>4, <1>5

\* A message taken off a queue: what is left is what was behind it.
LEMMA TailElements ==
  ASSUME NEW S, NEW s \in Seq(S), s # << >>
  PROVE  /\ Tail(s) \in Seq(S)
         /\ Len(Tail(s)) = Len(s) - 1
         /\ \A i \in 1..Len(Tail(s)) : i + 1 \in 1..Len(s) /\ Tail(s)[i] = s[i + 1]
         /\ 1 \in 1..Len(s) /\ Head(s) = s[1]
  OBVIOUS

\* A message put on a queue comes last.
LEMMA AppendElements ==
  ASSUME NEW S, NEW s \in Seq(S), NEW e \in S
  PROVE  /\ Len(Append(s, e)) = Len(s) + 1
         /\ \A i \in 1..Len(Append(s, e)) :
              Append(s, e)[i] = IF i = Len(s) + 1 THEN e ELSE s[i]
  OBVIOUS

\* A prefix of a queue.
LEMMA PrefixElements ==
  ASSUME NEW S, NEW s \in Seq(S), NEW n \in 0..Len(s)
  PROVE  /\ Len(SubSeq(s, 1, n)) = n
         /\ \A i \in 1..n : SubSeq(s, 1, n)[i] = s[i]
  OBVIOUS

\* A request takes an id above all those on the connection.
LEMMA SendInOrder ==
  ASSUME LinkTypeOK, InOrder, NEW m \in Methods, NEW h \in Headers \cup {None}, Send(m, h)
  PROVE  InOrder'
<1> DEFINE r == [id |-> lastId + 1, method |-> m, header |-> h]
<1>1. r \in Request /\ r.id = lastId + 1
  BY DEF LinkTypeOK, Request
<1>2. lastId \in Nat /\ lastId' = lastId + 1 /\ answers' = answers
  BY DEF Send, LinkTypeOK
<1>3. \A i \in 1..Len(answers) : answers[i].id \in Nat
  BY Elements
<1>4. \A i \in 1..Len(requests) : requests[i].id \in Nat
  BY Elements
<1>5. /\ \A i \in 1..Len(answers) : answers[i].id <= lastId'
      /\ \A i, j \in 1..Len(answers) : i < j => answers[i].id < answers[j].id
  <2>1. \A i \in 1..Len(answers) : answers[i].id <= lastId
    BY DEF InOrder
  <2>2. \A i \in 1..Len(answers) : answers[i].id <= lastId'
    BY <1>2, <1>3, <2>1
  <2>3. \A i, j \in 1..Len(answers) : i < j => answers[i].id < answers[j].id
    BY DEF InOrder
  <2> QED
    BY <2>2, <2>3
<1>6. CASE closed
  <2>1. requests' = requests
    BY <1>6 DEF Send
  <2>2. \A i \in 1..Len(requests) : requests[i].id <= lastId
    BY DEF InOrder
  <2>3. \A i \in 1..Len(requests) : requests[i].id <= lastId'
    BY <1>2, <1>4, <2>2
  <2>4. \A i, j \in 1..Len(requests) : i < j => requests[i].id < requests[j].id
    BY DEF InOrder
  <2>5. \A i \in 1..Len(answers), j \in 1..Len(requests) : answers[i].id < requests[j].id
    BY DEF InOrder
  <2>6. answers' = answers
    BY <1>2
  <2> QED
    BY <1>5, <2>1, <2>3, <2>4, <2>5, <2>6 DEF InOrder
<1>7. CASE ~closed
  <2> HIDE DEF r
  <2>1. requests' = Append(requests, r)
    BY <1>7 DEF Send, r
  <2>2. /\ Len(requests') = Len(requests) + 1
        /\ \A i \in 1..Len(requests') :
             requests'[i] = IF i = Len(requests) + 1 THEN r ELSE requests[i]
    BY <2>1, <1>1, AppendElements DEF LinkTypeOK
  <2>3. Len(requests) \in Nat
    BY DEF LinkTypeOK
  <2>4. \A i \in 1..Len(requests') :
          IF i = Len(requests) + 1 THEN requests'[i].id = lastId + 1
          ELSE /\ i \in 1..Len(requests)
               /\ requests'[i].id = requests[i].id
               /\ requests[i].id \in Nat
               /\ requests[i].id <= lastId
    BY <1>1, <1>4, <2>2, <2>3 DEF InOrder
  <2>5. \A i \in 1..Len(requests') : requests'[i].id <= lastId'
    BY <1>2, <2>4
  <2>6. \A i, j \in 1..Len(requests') : i < j => requests'[i].id < requests'[j].id
    BY <1>2, <2>2, <2>3, <2>4 DEF InOrder
  <2>7. \A i \in 1..Len(answers'), j \in 1..Len(requests') : answers'[i].id < requests'[j].id
    BY <1>2, <1>3, <2>4 DEF InOrder
  <2>8. answers' = answers
    BY <1>2
  <2> QED
    BY <1>5, <2>5, <2>6, <2>7, <2>8 DEF InOrder
<1> QED
  BY <1>6, <1>7

\* An answer taken leaves the rest in order, and nothing when it had the latest id.
LEMMA TakeInOrder ==
  ASSUME LinkTypeOK, InOrder, TakeAnswer
  PROVE  InOrder' /\ (Matches => Quiet')
<1>1. /\ Len(Tail(answers)) = Len(answers) - 1
      /\ \A i \in 1..Len(Tail(answers)) : i + 1 \in 1..Len(answers) /\ Tail(answers)[i] = answers[i + 1]
      /\ 1 \in 1..Len(answers) /\ Head(answers) = answers[1]
  BY TailElements DEF LinkTypeOK, TakeAnswer
<1>2. lastId' = lastId /\ requests' = requests /\ answers' = Tail(answers) /\ lastId \in Nat
  BY DEF TakeAnswer, LinkTypeOK
<1>3. \A i \in 1..Len(answers) : answers[i].id \in Nat
  BY Elements
<1>4. \A i \in 1..Len(requests) : requests[i].id \in Nat
  BY Elements
<1>5. Len(answers) \in Nat /\ Len(requests) \in Nat
  BY DEF LinkTypeOK
<1>6. InOrder'
  BY <1>1, <1>2, <1>3, <1>4, <1>5 DEF InOrder
<1>7. ASSUME Matches PROVE Quiet'
  <2>1. answers[1].id = lastId
    BY <1>1, <1>7 DEF Matches
  <2>2. Len(answers) = 1
    <3>1. Len(answers) >= 1
      BY <1>1, <1>5
    <3>2. ASSUME Len(answers) >= 2 PROVE FALSE
      <4>1. 2 \in 1..Len(answers) /\ 1 \in 1..Len(answers)
        BY <1>5, <3>2
      <4>2. answers[1].id < answers[2].id /\ answers[2].id <= lastId
        BY <4>1 DEF InOrder
      <4> QED
        BY <2>1, <4>1, <4>2, <1>2, <1>3
    <3> QED
      BY <1>5, <3>1, <3>2
  <2>3. Len(requests) = 0
    <3>1. SUFFICES ASSUME Len(requests) # 0 PROVE FALSE
      OBVIOUS
    <3>2. 1 \in 1..Len(requests) /\ 1 \in 1..Len(answers)
      BY <1>1, <1>5, <3>1
    <3>3. answers[1].id < requests[1].id /\ requests[1].id <= lastId
      BY <3>2 DEF InOrder
    <3> QED
      BY <2>1, <3>2, <3>3, <1>2, <1>3, <1>4
  <2>4. requests = << >>
    BY <2>3 DEF LinkTypeOK
  <2>5. Tail(answers) = << >>
    BY <2>2 DEF LinkTypeOK, TakeAnswer
  <2> QED
    BY <1>2, <2>4, <2>5 DEF Quiet
<1> QED
  BY <1>6, <1>7

\* A reply moves the oldest request behind the newest answer.
LEMMA ReplyInOrder ==
  ASSUME LinkTypeOK, InOrder, NEW k \in Kinds, NEW h \in Headers \cup {None},
         k = "job" <=> h # None, Reply(k, h)
  PROVE  /\ InOrder'
         /\ lastId' = lastId
         /\ Len(answers') = Len(answers) + 1
         /\ \A i \in 1..Len(answers) : answers'[i] = answers[i] /\ answers[i].id # lastId
         /\ answers'[Len(answers) + 1].kind = k /\ answers'[Len(answers) + 1].header = h
         /\ Len(requests') = Len(requests) - 1
         /\ \A i \in 1..Len(requests') : i + 1 \in 1..Len(requests) /\ requests'[i] = requests[i + 1]
         /\ 1 \in 1..Len(requests) /\ Head(requests) = requests[1]
<1> DEFINE a == [id |-> Head(requests).id, kind |-> k, header |-> h]
<1>1. /\ Len(Tail(requests)) = Len(requests) - 1
      /\ \A i \in 1..Len(Tail(requests)) : i + 1 \in 1..Len(requests) /\ Tail(requests)[i] = requests[i + 1]
      /\ 1 \in 1..Len(requests) /\ Head(requests) = requests[1]
  BY TailElements DEF LinkTypeOK, Reply
<1>2. /\ lastId' = lastId /\ requests' = Tail(requests) /\ answers' = Append(answers, a)
      /\ lastId \in Nat
  BY DEF Reply, LinkTypeOK
<1>3. \A i \in 1..Len(answers) : answers[i].id \in Nat
  BY Elements
<1>4. \A i \in 1..Len(requests) : requests[i] \in Request /\ requests[i].id \in Nat
  BY Elements
<1>5. Len(answers) \in Nat /\ Len(requests) \in Nat
  BY DEF LinkTypeOK
<1>6. a \in Answer /\ a.id = requests[1].id /\ a.kind = k /\ a.header = h
  BY <1>1, <1>4 DEF Answer, Request
<1> HIDE DEF a
<1>7. /\ Len(answers') = Len(answers) + 1
      /\ \A i \in 1..Len(answers') : answers'[i] = IF i = Len(answers) + 1 THEN a ELSE answers[i]
  BY <1>2, <1>6, AppendElements DEF LinkTypeOK
<1>8. InOrder'
  BY <1>1, <1>2, <1>3, <1>4, <1>5, <1>6, <1>7 DEF InOrder
<1>9. \A i \in 1..Len(answers) : answers'[i] = answers[i] /\ answers[i].id # lastId
  BY <1>1, <1>2, <1>3, <1>4, <1>5, <1>7 DEF InOrder
<1> QED
  BY <1>1, <1>2, <1>5, <1>6, <1>7, <1>8, <1>9

\* When the connection closes, what is left of the answers is a prefix.
LEMMA CloseInOrder ==
  ASSUME LinkTypeOK, InOrder, CloseLink
  PROVE  /\ InOrder'
         /\ lastId' = lastId
         /\ requests' = << >>
         /\ \A i \in 1..Len(answers') : i \in 1..Len(answers) /\ answers'[i] = answers[i]
         /\ Quiet => Quiet'
<1>1. PICK n \in 0..Len(answers) : answers' = SubSeq(answers, 1, n)
  BY DEF CloseLink
<1>2. Len(answers') = n /\ \A i \in 1..n : answers'[i] = answers[i]
  BY <1>1, PrefixElements DEF LinkTypeOK
<1>3. Len(answers) \in Nat
  BY DEF LinkTypeOK
<1>4. lastId' = lastId /\ requests' = << >>
  BY DEF CloseLink
<1>5. \A i \in 1..Len(answers') : i \in 1..Len(answers) /\ answers'[i] = answers[i]
  BY <1>2, <1>3
<1>6. InOrder'
  BY <1>2, <1>3, <1>4, <1>5 DEF InOrder
<1>7. Quiet => Quiet'
  BY <1>1, <1>4 DEF Quiet, LinkTypeOK
<1> QED
  BY <1>4, <1>5, <1>6, <1>7

-----------------------------------------------------------------------------
(* The inductive invariant, conjunct by conjunct. *)

\* Ids rise along the connection (the counter of _call, gateway_client.py:60-65).
LEMMA InOrderStep == TypeOK /\ InOrder /\ [Next]_vars => InOrder'
<1> SUFFICES ASSUME TypeOK, InOrder, [Next]_vars PROVE InOrder'
  OBVIOUS
<1> USE DEF TypeOK
<1>1. ASSUME UNCHANGED <<lastId, requests, answers>> PROVE InOrder'
  BY <1>1 DEF InOrder
<1>2. CASE Poll \/ Confirm
  BY <1>2, SendInOrder DEF Poll, Confirm, Methods
<1>3. CASE Submit
  BY <1>3, SendInOrder DEF Submit, Methods
<1>4. CASE GotJob \/ GotPaused \/ Confirmed \/ StaleDrop \/ Acked \/ CallMismatched \/ CallRefused
  BY <1>4, TakeInOrder DEF GotJob, SwitchTo, NewHeader, GotPaused, Confirmed, Proceed, StaleDrop, DropAsStale, Acked, CallMismatched,
     CallRefused, Receive, ReceiveMismatched
<1>5. CASE Finish \/ CheckThermal \/ SearchMiss \/ SearchHit \/ CallWaits \/ CallFails \/ Expire
  BY <1>1, <1>5, TimeMovesNothing
     DEF Finish, CheckThermal, SearchMiss, SearchHit, Tried, CallWaits, CallFails, Expire, link
<1>6. ASSUME GatewayNext PROVE InOrder'
  <2>1. CASE AnswerJob \/ RecordSubmit \/ RefuseSubmit \/ \E kind \in {"paused", "error"} : AnswerNoJob(kind)
    BY <2>1, ReplyInOrder, NoneAssumption DEF AnswerJob, RecordSubmit, RefuseSubmit, AnswerNoJob,
       Kinds, GatewayTypeOK
  <2>2. CASE NewTip
    BY <1>1, <2>2 DEF NewTip, link
  <2>3. CASE GatewayCloses
    BY <2>3, CloseInOrder DEF GatewayCloses
  <2>4. CASE GatewayDrips
    BY <1>1, <2>4, TimeMovesNothing DEF GatewayDrips
  <2> QED
    BY <1>6, <2>1, <2>2, <2>3, <2>4 DEF GatewayNext
<1>7. CASE Ended \/ UNCHANGED vars
  BY <1>1, <1>7 DEF Ended, vars, link
<1> QED
  BY <1>2, <1>3, <1>4, <1>5, <1>6, <1>7 DEF Next, LoopNext

\* Nothing is on the connection outside a call, but what a submit that timed out
\* left there (mine_loop catches only what submit raises, runtime.py:179-190).
LEMMA QuietStep == TypeOK /\ InOrder /\ QuietInv /\ [Next]_vars => QuietInv'
<1> SUFFICES ASSUME TypeOK, InOrder, QuietInv, [Next]_vars PROVE QuietInv'
  OBVIOUS
<1> USE DEF TypeOK
<1>1. CASE GotJob \/ Confirmed
  BY <1>1, TakeInOrder DEF GotJob, SwitchTo, NewHeader, Confirmed, Proceed, Receive, QuietInv
<1>2. CASE CheckThermal \/ SearchHit
  BY <1>2 DEF CheckThermal, SearchHit, Tried, QuietInv, Quiet, link
<1>3. CASE Finish \/ Poll \/ GotPaused \/ SearchMiss \/ Confirm \/ StaleDrop \/ Submit \/ Acked
  BY <1>3 DEF Finish, Poll, GotPaused, SearchMiss, Confirm, StaleDrop, DropAsStale, Submit, Acked, QuietInv
<1>4. CASE CallFails \/ CallMismatched \/ CallRefused
  BY <1>4 DEF CallFails, CallMismatched, CallRefused, Raise, RaiseCounting, QuietInv
<1>5. CASE Expire
  BY <1>5 DEF Expire, QuietInv, Quiet, link
<1>6. ASSUME GatewayNext, UNCHANGED loop PROVE QuietInv'
  <2>1. CASE AnswerJob \/ RecordSubmit \/ RefuseSubmit \/ \E kind \in {"paused", "error"} : AnswerNoJob(kind)
    BY <1>6, <2>1 DEF AnswerJob, RecordSubmit, RefuseSubmit, AnswerNoJob, Asked, QuietInv, Quiet, loop
  <2>2. CASE NewTip
    BY <1>6, <2>2 DEF NewTip, QuietInv, Quiet, link, loop
  <2>3. CASE GatewayCloses
    BY <1>6, <2>3, CloseInOrder DEF GatewayCloses, QuietInv, loop
  <2>4. CASE GatewayDrips
    BY <1>6, <2>4, TimeMovesNothing DEF GatewayDrips, QuietInv, Quiet, loop
  <2> QED
    BY <1>6, <2>1, <2>2, <2>3, <2>4 DEF GatewayNext
<1>7. CASE Ended \/ UNCHANGED vars
  BY <1>7 DEF Ended, vars, loop, link, QuietInv, Quiet
<1>8. CASE CallWaits
  BY <1>8, TimeMovesNothing DEF CallWaits, QuietInv, Quiet, loop
<1> QED
  BY <1>1, <1>2, <1>3, <1>4, <1>5, <1>6, <1>7, <1>8 DEF Next, LoopNext

\* The proofs found are those judged and the one in hand (runtime.py:165-190).
LEMMA LedgerStep == TypeOK /\ LedgerInv /\ [Next]_vars => LedgerInv'
<1> SUFFICES ASSUME TypeOK, LedgerInv, [Next]_vars PROVE LedgerInv'
  OBVIOUS
<1> USE DEF TypeOK
<1>1. metrics.stale \in Nat /\ metrics.accepted \in Nat /\ metrics.rejected \in Nat
  BY DEF Metrics
<1>2. CASE Finish \/ Poll \/ GotPaused \/ CheckThermal \/ Confirm \/ Confirmed
  BY <1>2 DEF Finish, Poll, GotPaused, CheckThermal, Confirm, Confirmed, Proceed, LedgerInv, HoldsProof
<1>3. CASE GotJob
  BY <1>3 DEF GotJob, SwitchTo, NewHeader, LedgerInv, HoldsProof, Metrics
<1>4. CASE SearchMiss \/ SearchHit
  BY <1>1, <1>4 DEF SearchMiss, SearchHit, Tried, LedgerInv, HoldsProof, Metrics
<1>5. CASE StaleDrop
  BY <1>1, <1>5 DEF StaleDrop, DropAsStale, LedgerInv, HoldsProof, Metrics
<1>6. CASE Submit
  BY <1>6 DEF Submit, LedgerInv, HoldsProof, Metrics
<1>7. CASE Acked
  BY <1>1, <1>7 DEF Acked, LedgerInv, HoldsProof, Metrics
<1>8. CASE CallFails \/ CallMismatched \/ CallRefused
  <2>1. PICK why \in {"link", "mismatch", "error"} : Raise(why)
    BY <1>8 DEF CallFails, CallMismatched, CallRefused
  <2>2. pc \in Awaiting
    BY <1>8 DEF CallFails, CallMismatched, CallRefused
  <2> QED
    BY <1>1, <2>1, <2>2 DEF Raise, RaiseCounting, LedgerInv, HoldsProof, Metrics, Awaiting
<1>9. CASE Expire
  BY <1>9 DEF Expire, LedgerInv, HoldsProof
<1>10. CASE UNCHANGED loop \/ CallWaits \/ Ended \/ UNCHANGED vars
  BY <1>10 DEF CallWaits, Ended, vars, loop, LedgerInv, HoldsProof
<1> QED
  BY <1>2, <1>3, <1>4, <1>5, <1>6, <1>7, <1>8, <1>9, <1>10 DEF Next, LoopNext

\* The loop searches for the header of JobManager's baseline (runtime.py:107-146).
LEMMA JobStep == TypeOK /\ JobInv /\ [Next]_vars => JobInv'
<1> SUFFICES ASSUME TypeOK, JobInv, [Next]_vars PROVE JobInv'
  OBVIOUS
<1> USE DEF TypeOK
<1>1. CASE GotJob
  <2>1. Head(answers) \in Answer /\ Head(answers).kind = "job"
    BY <1>1, HeadAnswer DEF GotJob, SwitchTo, NewHeader, Receive, TakeAnswer
  <2> QED
    BY <1>1, <2>1 DEF GotJob, SwitchTo, NewHeader, JobInv, Answer
<1>2. CASE CheckThermal \/ SearchMiss \/ SearchHit
  BY <1>2 DEF CheckThermal, SearchMiss, SearchHit, Tried, JobInv
<1>3. CASE Finish \/ Poll \/ GotPaused \/ Confirm \/ Confirmed \/ StaleDrop \/ Submit \/ Acked
  BY <1>3 DEF Finish, Poll, GotPaused, Confirm, Confirmed, Proceed, StaleDrop, DropAsStale, Submit, Acked, JobInv
<1>4. CASE CallFails \/ CallMismatched \/ CallRefused
  BY <1>4 DEF CallFails, CallMismatched, CallRefused, Raise, RaiseCounting, JobInv
<1>5. CASE Expire \/ UNCHANGED loop \/ CallWaits \/ Ended \/ UNCHANGED vars
  BY <1>5 DEF CallWaits, Expire, Ended, vars, loop, JobInv
<1> QED
  BY <1>1, <1>2, <1>3, <1>4, <1>5 DEF Next, LoopNext

\* A step of the loop skips no nonce: the reset and the count agree
\* (runtime.py:141-144, 160-167).
LEMMA NonceStep == TypeOK /\ JobInv /\ NoNonceSkipped /\ [Next]_vars => NoNonceSkipped'
<1> SUFFICES ASSUME TypeOK, JobInv, NoNonceSkipped, [Next]_vars PROVE NoNonceSkipped'
  OBVIOUS
<1> USE DEF TypeOK
<1>1. CASE GotJob
  <2>1. 0..(0 - 1) = {}
    OBVIOUS
  <2>2. CASE NewHeader
    BY <1>1, <2>1, <2>2 DEF GotJob, SwitchTo, NewHeader, NoNonceSkipped
  <2>3. CASE ~NewHeader
    BY <1>1, <2>3 DEF GotJob, SwitchTo, NewHeader, NoNonceSkipped
  <2> QED
    BY <2>2, <2>3
<1>2. CASE SearchMiss \/ SearchHit
  <2>1. PICK n \in Nat : Tried(n)
    <3>1. CASE SearchMiss
      BY <3>1, LoopAssumption DEF SearchMiss
    <3>2. CASE SearchHit
      <4>1. PICK size \in Batches : \E foundAttempt \in 0..(size - 1) : Tried(foundAttempt + 1)
        BY <3>2 DEF SearchHit
      <4>2. PICK foundAttempt \in 0..(size - 1) : Tried(foundAttempt + 1)
        BY <4>1
      <4>3. foundAttempt + 1 \in Nat
        BY LoopAssumption
      <4> QED
        BY <4>2, <4>3
    <3> QED
      BY <1>2, <3>1, <3>2
  <2>2. pc = "search"
    BY <1>2 DEF SearchMiss, SearchHit
  <2>3. /\ current' = current /\ attempt' = attempt + n
        /\ covered'[current] = covered[current] \cup attempt..(attempt + n - 1)
    BY <2>1, <2>2 DEF Tried, JobInv
  <2>4. 0..(attempt + n - 1) = 0..(attempt - 1) \cup attempt..(attempt + n - 1)
    BY <2>1
  <2> QED
    BY <2>3, <2>4 DEF NoNonceSkipped
<1>3. CASE Finish \/ Poll \/ GotPaused \/ CheckThermal \/ Confirm \/ Confirmed \/ StaleDrop \/ Submit \/ Acked
  BY <1>3 DEF Finish, Poll, GotPaused, CheckThermal, Confirm, Confirmed, Proceed, StaleDrop, DropAsStale, Submit, Acked, NoNonceSkipped
<1>4. CASE CallFails \/ CallMismatched \/ CallRefused
  BY <1>4 DEF CallFails, CallMismatched, CallRefused, Raise, RaiseCounting, NoNonceSkipped
<1>5. CASE Expire \/ UNCHANGED loop \/ CallWaits \/ Ended \/ UNCHANGED vars
  BY <1>5 DEF CallWaits, Expire, Ended, vars, loop, NoNonceSkipped
<1> QED
  BY <1>1, <1>2, <1>3, <1>4, <1>5 DEF Next, LoopNext

\* What a step of the loop leaves of the messages: all but the oldest answer
\* stay, and at most one request joins.
LEMMA TakeElements ==
  ASSUME LinkTypeOK, TakeAnswer
  PROVE  /\ requests' = requests /\ lastId' = lastId
         /\ \A i \in 1..Len(answers') : i + 1 \in 1..Len(answers) /\ answers'[i] = answers[i + 1]
  BY TailElements DEF LinkTypeOK, TakeAnswer

\* ... and what a step of the loop does to both directions at once.
LEMMA SendElements ==
  ASSUME LinkTypeOK, NEW m \in Methods, NEW h \in Headers \cup {None}, Send(m, h)
  PROVE  /\ answers' = answers /\ lastId' = lastId + 1
         /\ \A i \in 1..Len(requests') :
              \/ i \in 1..Len(requests) /\ requests'[i] = requests[i]
              \/ i = Len(requests) + 1 /\ requests'[i].method = m /\ requests'[i].header = h
<1> DEFINE r == [id |-> lastId + 1, method |-> m, header |-> h]
<1>1. answers' = answers /\ lastId' = lastId + 1
  BY DEF Send
<1>2. Len(requests) \in Nat
  BY Elements
<1>3. CASE closed
  BY <1>1, <1>3 DEF Send
<1>4. CASE ~closed
  <2>1. r \in Request /\ r.method = m /\ r.header = h
    BY DEF LinkTypeOK, Request
  <2>2. requests' = Append(requests, r)
    BY <1>4 DEF Send
  <2> HIDE DEF r
  <2>3. /\ Len(requests') = Len(requests) + 1
        /\ \A i \in 1..Len(requests') : requests'[i] = IF i = Len(requests) + 1 THEN r ELSE requests[i]
    BY <2>1, <2>2, AppendElements DEF LinkTypeOK
  <2>4. \A i \in 1..Len(requests') :
          \/ i \in 1..Len(requests) /\ requests'[i] = requests[i]
          \/ i = Len(requests) + 1 /\ requests'[i] = r
    BY <2>3, <1>2
  <2> QED
    BY <1>1, <2>1, <2>4
<1> QED
  BY <1>3, <1>4

\* What the loop holds is what the gateway served last (runtime.py:168-178).
LEMMA ServedStep == TypeOK /\ InOrder /\ QuietInv /\ ServedInv /\ [Next]_vars => ServedInv'
<1> SUFFICES ASSUME TypeOK, InOrder, QuietInv, ServedInv, [Next]_vars PROVE ServedInv'
  OBVIOUS
<1> USE DEF TypeOK
<1>1. CASE Poll \/ Confirm
  <2>1. served' = served /\ pc' # "submit" /\ Send("getMiningInfo", None)
    BY <1>1 DEF Poll, Confirm, gateway
  <2>2. /\ answers' = answers /\ lastId' = lastId + 1
        /\ \A i \in 1..Len(requests') :
             \/ i \in 1..Len(requests) /\ requests'[i] = requests[i]
             \/ requests'[i].method = "getMiningInfo"
    BY <2>1, SendElements DEF Methods
  <2>3. \A i \in 1..Len(answers') : answers'[i].id # lastId'
    BY <2>2, Elements DEF InOrder
  <2> QED
    BY <2>1, <2>2, <2>3 DEF ServedInv
<1>2. CASE Submit
  <2>1. served' = served /\ pc' # "submit" /\ Send("submitPlainProof", job)
    BY <1>2 DEF Submit, gateway
  <2>2. requests = << >> /\ answers = << >> /\ (StaleCancel => job = served)
    BY <1>2 DEF Submit, QuietInv, Quiet, ServedInv
  <2>3. /\ answers' = answers
        /\ \A i \in 1..Len(requests') :
             \/ i \in 1..Len(requests) /\ requests'[i] = requests[i]
             \/ i = Len(requests) + 1 /\ requests'[i].header = job
    BY <2>1, SendElements DEF Methods
  <2> QED
    BY <2>1, <2>2, <2>3 DEF ServedInv
<1>3. CASE Confirmed
  <2>1. served' = served /\ job' = job /\ Head(answers).header = job /\ TakeAnswer
        /\ Head(answers).id = lastId /\ Head(answers).kind = "job"
    BY <1>3 DEF Confirmed, Proceed, Receive, Matches, gateway
  <2>2. 1 \in 1..Len(answers) /\ Head(answers) = answers[1]
    BY <2>1, TailElements DEF TakeAnswer, LinkTypeOK
  <2>3. job = served
    BY <2>1, <2>2 DEF ServedInv
  <2> QED
    BY <2>1, <2>3, TakeElements DEF ServedInv
<1>4. CASE GotJob \/ GotPaused \/ StaleDrop \/ Acked \/ CallMismatched \/ CallRefused
  <2>1. TakeAnswer /\ served' = served /\ pc' # "submit"
    BY <1>4 DEF GotJob, SwitchTo, NewHeader, GotPaused, StaleDrop, DropAsStale, Acked, CallMismatched, CallRefused, Receive,
       ReceiveMismatched, Raise, RaiseCounting, gateway
  <2> QED
    BY <2>1, TakeElements DEF ServedInv
<1>5. CASE Finish \/ CheckThermal \/ SearchMiss \/ CallWaits \/ CallFails
  <2>1. UNCHANGED <<lastId, requests, answers>> /\ served' = served
    BY <1>5, TimeMovesNothing
       DEF Finish, CheckThermal, SearchMiss, Tried, CallWaits, CallFails, Raise, RaiseCounting, link, gateway
  <2>2. pc' = "submit" => pc = "submit" /\ job' = job
    BY <1>5 DEF Finish, CheckThermal, SearchMiss, CallWaits, CallFails, Raise, RaiseCounting, loop
  <2> QED
    BY <2>1, <2>2 DEF ServedInv
<1>6. CASE SearchHit
  BY <1>6 DEF SearchHit, Tried, QuietInv, Quiet, link, gateway, ServedInv
<1>7. CASE Expire \/ Ended \/ UNCHANGED vars
  BY <1>7 DEF Expire, Ended, vars, loop, link, gateway, ServedInv
<1>8. ASSUME GatewayNext, UNCHANGED loop PROVE ServedInv'
  <2>1. CASE AnswerJob \/ \E kind \in {"paused", "error"} : AnswerNoJob(kind)
    <3>1. PICK k \in Kinds, h \in Headers \cup {None} :
            /\ Reply(k, h) /\ served' = h /\ (k = "job" <=> h # None)
      BY <2>1, NoneAssumption DEF AnswerJob, AnswerNoJob, Kinds, GatewayTypeOK
    <3>2. Asked("getMiningInfo")
      BY <2>1 DEF AnswerJob, AnswerNoJob
    <3>3. /\ lastId' = lastId
          /\ Len(answers') = Len(answers) + 1
          /\ \A i \in 1..Len(answers) : answers'[i] = answers[i] /\ answers[i].id # lastId
          /\ answers'[Len(answers) + 1].header = h
          /\ \A i \in 1..Len(requests') : i + 1 \in 1..Len(requests) /\ requests'[i] = requests[i + 1]
          /\ 1 \in 1..Len(requests) /\ Head(requests) = requests[1]
      BY <3>1, ReplyInOrder
    <3>4. \A i \in 1..Len(answers') : answers'[i].id = lastId' => answers'[i].header = served'
      BY <3>1, <3>3, Elements
    <3>5. \A i \in 1..Len(requests') : requests'[i].method # "submitPlainProof"
      BY <3>3, Elements DEF ServedInv
    <3>6. pc' # "submit"
      BY <1>8, <3>2 DEF Asked, QuietInv, Quiet, loop
    <3> QED
      BY <3>4, <3>5, <3>6 DEF ServedInv
  <2>2. CASE RecordSubmit \/ RefuseSubmit
    <3>1. PICK k \in {"submitted", "error"} : Reply(k, None) /\ served' = served
      BY <2>2 DEF RecordSubmit, RefuseSubmit, gateway
    <3>2. /\ lastId' = lastId
          /\ Len(answers') = Len(answers) + 1
          /\ \A i \in 1..Len(answers) : answers'[i] = answers[i] /\ answers[i].id # lastId
          /\ answers'[Len(answers) + 1].kind = k
          /\ \A i \in 1..Len(requests') : i + 1 \in 1..Len(requests) /\ requests'[i] = requests[i + 1]
      BY <3>1, ReplyInOrder DEF Kinds
    <3>3. \A i \in 1..Len(answers') : answers'[i].id = lastId' => answers'[i].kind # "job"
      BY <3>1, <3>2, Elements
    <3>4. \A i \in 1..Len(requests') : requests'[i].method # "submitPlainProof"
      BY <3>2, Elements DEF ServedInv
    <3> QED
      BY <1>8, <3>1, <3>3, <3>4 DEF ServedInv, loop
  <2>3. CASE NewTip
    BY <1>8, <2>3 DEF NewTip, link, loop, ServedInv
  <2>4. CASE GatewayCloses
    <3>1. served' = served /\ CloseLink
      BY <2>4 DEF GatewayCloses, gateway
    <3> QED
      BY <1>8, <3>1, CloseInOrder DEF ServedInv, loop
  <2>5. CASE GatewayDrips
    BY <1>8, <2>5, TimeMovesNothing DEF GatewayDrips, gateway, loop, ServedInv
  <2> QED
    BY <1>8, <2>1, <2>2, <2>3, <2>4, <2>5 DEF GatewayNext
<1> QED
  BY <1>1, <1>2, <1>3, <1>4, <1>5, <1>6, <1>7, <1>8 DEF Next, LoopNext

\* The counters of the two sides and the messages between them
\* (runtime.py:178-190, mock_gateway.py:83-91).
LEMMA SeenStep == TypeOK /\ InOrder /\ QuietInv /\ ServedInv /\ SeenInv /\ [Next]_vars => SeenInv'
<1> SUFFICES ASSUME TypeOK, InOrder, QuietInv, ServedInv, SeenInv, [Next]_vars PROVE SeenInv'
  OBVIOUS
<1> USE DEF TypeOK
<1> DEFINE total == seen.kept + seen.dropped
<1>1. metrics.accepted \in Nat /\ metrics.submitted \in Nat /\ total \in Nat
  BY DEF Metrics, GatewayTypeOK
<1>2. CASE Poll \/ Confirm
  <2>1. seen' = seen /\ metrics' = metrics /\ Send("getMiningInfo", None)
    BY <1>2 DEF Poll, Confirm, gateway
  <2>2. /\ answers' = answers
        /\ \A i \in 1..Len(requests') :
             \/ i \in 1..Len(requests) /\ requests'[i] = requests[i]
             \/ requests'[i].method = "getMiningInfo"
    BY <2>1, SendElements DEF Methods
  <2> QED
    BY <2>1, <2>2 DEF SeenInv
<1>3. CASE Submit
  <2>1. seen' = seen /\ metrics'.accepted = metrics.accepted /\ metrics'.submitted = metrics.submitted + 1
    BY <1>3 DEF Submit, gateway, Metrics
  <2>2. answers' = answers
    BY <1>3 DEF Submit, Send
  <2> QED
    BY <1>1, <2>1, <2>2 DEF SeenInv
<1>4. CASE Acked
  <2>1. /\ seen' = seen /\ TakeAnswer /\ Matches /\ Head(answers).kind = "submitted"
        /\ metrics'.accepted = metrics.accepted + 1 /\ metrics'.submitted = metrics.submitted
    BY <1>4 DEF Acked, Receive, gateway, Metrics
  <2>2. 1 \in 1..Len(answers) /\ Head(answers) = answers[1]
    BY <2>1, TailElements DEF TakeAnswer, LinkTypeOK
  <2>3. metrics.accepted < total
    BY <2>1, <2>2 DEF SeenInv
  <2>4. Quiet'
    BY <2>1, TakeInOrder
  <2> QED
    BY <1>1, <2>1, <2>3, <2>4 DEF SeenInv, Quiet
<1>5. CASE GotJob \/ GotPaused \/ Confirmed \/ StaleDrop \/ CallMismatched \/ CallRefused
  <2>1. /\ TakeAnswer /\ seen' = seen
        /\ metrics'.accepted = metrics.accepted /\ metrics'.submitted = metrics.submitted
    BY <1>5 DEF GotJob, SwitchTo, NewHeader, GotPaused, Confirmed, Proceed, StaleDrop, DropAsStale, CallMismatched, CallRefused, Receive,
       ReceiveMismatched, Raise, RaiseCounting, gateway, Metrics
  <2> QED
    BY <2>1, TakeElements DEF SeenInv
<1>6. CASE Finish \/ CheckThermal \/ SearchMiss \/ SearchHit \/ CallWaits \/ CallFails \/ Expire
  <2>1. /\ requests' = requests /\ answers' = answers /\ seen' = seen
        /\ metrics'.accepted = metrics.accepted /\ metrics'.submitted = metrics.submitted
    BY <1>6, TimeMovesNothing
       DEF Finish, CheckThermal, SearchMiss, SearchHit, Tried, CallWaits, CallFails, Raise, RaiseCounting,
           Expire, link, gateway, loop, Metrics
  <2> QED
    BY <2>1 DEF SeenInv
<1>7. CASE Ended \/ UNCHANGED vars
  BY <1>7 DEF Ended, vars, loop, link, gateway, SeenInv
<1>8. ASSUME GatewayNext, UNCHANGED loop PROVE SeenInv'
  <2>1. metrics' = metrics
    BY <1>8 DEF loop
  <2>2. CASE AnswerJob \/ RefuseSubmit \/ \E kind \in {"paused", "error"} : AnswerNoJob(kind)
    <3>1. PICK k \in Kinds, h \in Headers \cup {None} :
            Reply(k, h) /\ k # "submitted" /\ seen' = seen /\ (k = "job" <=> h # None)
      BY <2>2, NoneAssumption DEF AnswerJob, AnswerNoJob, RefuseSubmit, Kinds, GatewayTypeOK, gateway
    <3>2. /\ Len(answers') = Len(answers) + 1
          /\ \A i \in 1..Len(answers) : answers'[i] = answers[i]
          /\ answers'[Len(answers) + 1].kind = k
          /\ \A i \in 1..Len(requests') : i + 1 \in 1..Len(requests) /\ requests'[i] = requests[i + 1]
      BY <3>1, ReplyInOrder
    <3>3. \A i \in 1..Len(answers') :
            answers'[i].kind = "submitted" => i \in 1..Len(answers) /\ answers[i].kind = "submitted"
      BY <3>1, <3>2, Elements
    <3> QED
      BY <2>1, <3>1, <3>2, <3>3 DEF SeenInv
  <2>3. CASE RecordSubmit
    <3>1. Reply("submitted", None) /\ Head(requests).method = "submitPlainProof"
      BY <2>3 DEF RecordSubmit, Asked
    <3>2. /\ \A i \in 1..Len(requests') : i + 1 \in 1..Len(requests) /\ requests'[i] = requests[i + 1]
          /\ 1 \in 1..Len(requests) /\ Head(requests) = requests[1]
      BY <3>1, ReplyInOrder DEF Kinds
    <3>3. seen'.kept + seen'.dropped = total + 1
      BY <2>3 DEF RecordSubmit, GatewayTypeOK
    <3>4. total < metrics.submitted
      BY <3>1, <3>2 DEF SeenInv
    <3>5. \A i \in 1..Len(requests') : requests'[i].method # "submitPlainProof"
      BY <3>2, Elements DEF ServedInv
    <3> QED
      BY <1>1, <2>1, <3>3, <3>4, <3>5 DEF SeenInv
  <2>4. CASE NewTip
    BY <2>1, <2>4 DEF NewTip, link, SeenInv
  <2>5. CASE GatewayCloses
    <3>1. seen' = seen /\ CloseLink
      BY <2>5 DEF GatewayCloses, gateway
    <3> QED
      BY <2>1, <3>1, CloseInOrder DEF SeenInv
  <2>6. CASE GatewayDrips
    BY <2>1, <2>6, TimeMovesNothing DEF GatewayDrips, gateway, SeenInv
  <2> QED
    BY <1>8, <2>2, <2>3, <2>4, <2>5, <2>6 DEF GatewayNext
<1> QED
  BY <1>2, <1>3, <1>4, <1>5, <1>6, <1>7, <1>8 DEF Next, LoopNext

-----------------------------------------------------------------------------
(* The theorems. *)

\* The inductive invariant holds in every reachable state of the loop.
THEOREM Invariance == Spec => []IInv
<1>1. Init => IInv
  <2> SUFFICES ASSUME Init PROVE IInv
    OBVIOUS
  <2>1. 0..(0 - 1) = {}
    OBVIOUS
  <2> QED
    BY <2>1 DEF Init, LinkInit, GatewayInit, IInv, InOrder, QuietInv, ServedInv, SeenInv, LedgerInv,
       HoldsProof, JobInv, NoNonceSkipped
<1>2. TypeOK /\ IInv /\ [Next]_vars => IInv'
  BY InOrderStep, QuietStep, ServedStep, SeenStep, LedgerStep, JobStep, NonceStep DEF IInv
<1> QED
  BY <1>1, <1>2, TypeCorrect, PTL DEF Spec

\* No nonce of the header being mined is skipped (runtime.py:141-144).
THEOREM NoNonceIsSkipped == Spec => []NoNonceSkipped
<1>1. IInv => NoNonceSkipped
  BY DEF IInv
<1> QED
  BY <1>1, Invariance, PTL

\* accepted never exceeds what the gateway has processed, which never exceeds
\* what was submitted (runtime.py:178-188).
THEOREM AcceptedAreSeen == Spec => []AcceptedWereSeen
<1>1. IInv => AcceptedWereSeen
  BY DEF IInv, SeenInv, AcceptedWereSeen
<1> QED
  BY <1>1, Invariance, PTL

\* With stale_cancel the gateway drops a proof only when its header moved after
\* the re-confirmation (runtime.py:168-177, gateway_client.py:68).
THEOREM OnlyRacesAreDropped == Spec => DropsAreRaces
<1>1. ASSUME TypeOK, IInv, [Next]_vars, StaleCancel, seen'.dropped > seen.dropped
      PROVE  served # gwHeader
  <2>1. seen' # seen
    BY <1>1 DEF TypeOK, GatewayTypeOK
  <2>2. RecordSubmit
    BY <1>1, <2>1 DEF Next, LoopNext, Finish, Poll, GotJob, SwitchTo, NewHeader, GotPaused, CheckThermal, SearchMiss,
       SearchHit, Tried, Confirm, Confirmed, Proceed, StaleDrop, DropAsStale, Submit, Acked, CallWaits, CallFails, CallMismatched,
       CallRefused, Raise, RaiseCounting, Expire, Ended, GatewayNext, AnswerJob, AnswerNoJob, RefuseSubmit, NewTip,
       GatewayDrips, GatewayCloses, vars, gateway
  <2>3. requests # << >> /\ Head(requests).method = "submitPlainProof"
    BY <2>2 DEF RecordSubmit, Asked
  <2>4. 1 \in 1..Len(requests) /\ Head(requests) = requests[1]
    BY <1>1, <2>3, TailElements DEF TypeOK, LinkTypeOK
  <2>5. Head(requests).header = served
    BY <1>1, <2>3, <2>4 DEF IInv, ServedInv
  <2>6. Head(requests).header # gwHeader
    BY <1>1, <2>2 DEF RecordSubmit, TypeOK, GatewayTypeOK
  <2> QED
    BY <2>5, <2>6
<1>2. TypeOK /\ IInv /\ [Next]_vars
        => [StaleCancel /\ seen'.dropped > seen.dropped => served # gwHeader]_vars
  BY <1>1
<1> QED
  BY <1>2, TypeCorrect, Invariance, PTL DEF Spec, DropsAreRaces

\* The loop implements the ledger: every proof found gets exactly one verdict,
\* one proof at a time (runtime.py:165-190).
THEOREM LoopKeepsLedger == Spec => ProofsAccountedFor
<1>1. Init => Ledger!Init
  BY DEF Init, Ledger!Init
<1>2. TypeOK /\ IInv /\ [Next]_vars => [Ledger!Next]_(Ledger!ledger)
  <2> SUFFICES ASSUME TypeOK, LedgerInv, [Next]_vars PROVE [Ledger!Next]_(Ledger!ledger)
    BY DEF IInv
  <2> USE DEF TypeOK
  <2>1. /\ metrics \in Metrics /\ wins \in Nat
        /\ metrics.stale \in Nat /\ metrics.accepted \in Nat /\ metrics.rejected \in Nat
    BY DEF Metrics
  <2>2. CASE SearchHit
    <3>1. wins = metrics.stale + metrics.accepted + metrics.rejected
      BY <2>2 DEF SearchHit, LedgerInv, HoldsProof
    <3>2. /\ wins' = wins + 1
          /\ metrics'.stale = metrics.stale /\ metrics'.accepted = metrics.accepted
          /\ metrics'.rejected = metrics.rejected
      BY <2>1, <2>2 DEF SearchHit, Tried, Metrics
    <3> QED
      BY <3>1, <3>2 DEF Ledger!Next, Ledger!Win, Ledger!Judged
  <2>3. CASE StaleDrop
    <3>1. wins = metrics.stale + metrics.accepted + metrics.rejected + 1
      BY <2>3 DEF StaleDrop, DropAsStale, LedgerInv, HoldsProof
    <3>2. /\ wins' = wins
          /\ metrics'.stale = metrics.stale + 1 /\ metrics'.accepted = metrics.accepted
          /\ metrics'.rejected = metrics.rejected
      BY <2>1, <2>3 DEF StaleDrop, DropAsStale, Metrics
    <3> QED
      BY <3>1, <3>2 DEF Ledger!Next, Ledger!Drop, Ledger!Judged
  <2>4. CASE Acked
    <3>1. wins = metrics.stale + metrics.accepted + metrics.rejected + 1
      BY <2>4 DEF Acked, LedgerInv, HoldsProof
    <3>2. /\ wins' = wins
          /\ metrics'.stale = metrics.stale /\ metrics'.accepted = metrics.accepted + 1
          /\ metrics'.rejected = metrics.rejected
      BY <2>1, <2>4 DEF Acked, Metrics
    <3> QED
      BY <3>1, <3>2 DEF Ledger!Next, Ledger!Accept, Ledger!Judged
  <2>5. CASE CallFails \/ CallMismatched \/ CallRefused
    <3>1. PICK why : Raise(why)
      BY <2>5 DEF CallFails, CallMismatched, CallRefused
    <3>2. CASE pc = "submitting"
      <4>1. wins = metrics.stale + metrics.accepted + metrics.rejected + 1
        BY <3>2 DEF LedgerInv, HoldsProof
      <4>2. /\ wins' = wins
            /\ metrics'.stale = metrics.stale /\ metrics'.accepted = metrics.accepted
            /\ metrics'.rejected = metrics.rejected + 1
        BY <2>1, <3>1, <3>2 DEF Raise, RaiseCounting, Metrics
      <4> QED
        BY <4>1, <4>2 DEF Ledger!Next, Ledger!Reject, Ledger!Judged
    <3>3. CASE pc # "submitting"
      BY <3>1, <3>3 DEF Raise, RaiseCounting, Ledger!ledger
    <3> QED
      BY <3>2, <3>3
  <2>6. CASE Finish \/ Poll \/ GotPaused \/ CheckThermal \/ Confirm \/ Confirmed \/ Expire
    BY <2>6 DEF Finish, Poll, GotPaused, CheckThermal, Confirm, Confirmed, Proceed, Expire, Ledger!ledger
  <2>7. CASE GotJob \/ SearchMiss \/ Submit
    <3>1. /\ wins' = wins
          /\ metrics'.stale = metrics.stale /\ metrics'.accepted = metrics.accepted
          /\ metrics'.rejected = metrics.rejected
      BY <2>1, <2>7 DEF GotJob, SwitchTo, NewHeader, SearchMiss, Tried, Submit, Metrics
    <3> QED
      BY <3>1 DEF Ledger!ledger
  <2>8. CASE UNCHANGED loop \/ CallWaits \/ Ended \/ UNCHANGED vars
    BY <2>8 DEF CallWaits, Ended, vars, loop, Ledger!ledger
  <2> QED
    BY <2>2, <2>3, <2>4, <2>5, <2>6, <2>7, <2>8 DEF Next, LoopNext
<1> QED
  BY <1>1, <1>2, TypeCorrect, Invariance, PTL DEF Spec, ProofsAccountedFor, Ledger!Spec

-----------------------------------------------------------------------------
(* The self-test: the loop over the stand-in of the gateway. *)

\* The one request there is, and the one answer.
Pending ==
  /\ requests # << >> /\ Tail(requests) = << >> /\ answers = << >>
  /\ Head(requests).method = (IF pc = "submitting" THEN "submitPlainProof" ELSE "getMiningInfo")
  /\ pc = "submitting" => Head(requests).header = gwHeader

Answered ==
  /\ requests = << >> /\ answers # << >> /\ Tail(answers) = << >>
  /\ Head(answers).kind \in IF pc = "submitting" THEN {"submitted"} ELSE {"job", "paused"}
  /\ Head(answers).kind = "job" => Head(answers).header = gwHeader

\* Calls are answered one by one: the connection is empty between them.
Exchange ==
  /\ ~closed
  /\ pc # "died"
  /\ pc \in Awaiting => Pending \/ Answered
  /\ pc \notin Awaiting => Quiet

\* The header turns only on a request, so a job in hand is for the header of now.
HandInv == pc \in {"check", "search", "confirm", "submit"} => job = gwHeader

\* Nothing is rejected or dropped; an ack still to be read is not counted yet.
KeptInv ==
  /\ metrics.rejected = 0
  /\ seen.dropped = 0
  /\ seen.kept = IF pc = "submitting" /\ answers # << >> THEN metrics.accepted + 1 ELSE metrics.accepted

MockInv == MockTypeOK /\ Exchange /\ HandInv /\ KeptInv

\* A request sent over an empty connection is the only message on it.
LEMMA SendAlone ==
  ASSUME LinkTypeOK, ~closed, Quiet, NEW m \in Methods, NEW h \in Headers \cup {None}, Send(m, h)
  PROVE  /\ requests' # << >> /\ Tail(requests') = << >> /\ answers' = << >>
         /\ Head(requests').method = m /\ Head(requests').header = h
         /\ ~closed'
<1> DEFINE r == [id |-> lastId + 1, method |-> m, header |-> h]
<1>1. requests' = <<r>> /\ answers' = << >> /\ ~closed'
  BY DEF Send, Quiet
<1>2. r.method = m /\ r.header = h
  OBVIOUS
<1> HIDE DEF r
<1> QED  BY <1>1, <1>2

\* The only request is answered by the only answer.
LEMMA ReplyAlone ==
  ASSUME LinkTypeOK, ~closed, Tail(requests) = << >>, answers = << >>, NEW k, NEW h, Reply(k, h)
  PROVE  /\ requests' = << >> /\ answers' # << >> /\ Tail(answers') = << >>
         /\ Head(answers').kind = k /\ Head(answers').header = h
         /\ ~closed'
<1> DEFINE a == [id |-> Head(requests).id, kind |-> k, header |-> h]
<1>1. requests' = << >> /\ answers' = <<a>> /\ ~closed'
  BY DEF Reply
<1>2. a.kind = k /\ a.header = h
  OBVIOUS
<1> HIDE DEF a
<1> QED  BY <1>1, <1>2

\* The only answer is read, and nothing is left.
LEMMA TakeAlone ==
  ASSUME LinkTypeOK, Exchange, TakeAnswer, pc \in Awaiting
  PROVE  Quiet' /\ ~closed' /\ Answered
BY DEF TakeAnswer, Exchange, Pending, Answered, Quiet

\* The next header in the ring is a header.
LEMMA RotateTypes == ASSUME NEW h \in Headers PROVE Rotate(h) \in Headers
<1>1. Cardinality(Headers) \in Nat /\ Headers = 1 .. Cardinality(Headers)
  BY MockAssumption, FS_CardinalityType
<1> QED  BY <1>1 DEF Rotate

\* The stand-in's answer to getMiningInfo: paused, or the header after the turn.
LEMMA NextJobAnswers ==
  ASSUME MockInv, NextJob, UNCHANGED loop
  PROVE  /\ pc \in {"polling", "confirming"} /\ Pending
         /\ \/ Reply("paused", None) /\ gwHeader' = gwHeader /\ served' = None
            \/ Reply("job", gwHeader') /\ gwHeader' \in Headers /\ served' = gwHeader'
         /\ seen' = seen /\ calls' = calls + 1
<1>1. Asked("getMiningInfo")
  BY DEF NextJob, AnswerNoJob
<1>2. pc \in {"polling", "confirming"} /\ Pending
  BY <1>1 DEF Asked, MockInv, Exchange, Quiet, Pending, Answered, Awaiting
<1>3. gwHeader \in Headers /\ Rotate(gwHeader) \in Headers
  BY RotateTypes DEF MockInv, MockTypeOK, TypeOK, GatewayTypeOK
<1> QED  BY <1>2, <1>3 DEF NextJob, AnswerNoJob

\* A program that starts has asked for nothing.
LEMMA MockInitInv == MockInit => MockInv
BY TypeInit DEF MockInit, MockInv, MockTypeOK, Init, LinkInit, GatewayInit, Exchange, HandInv, KeptInv, Quiet, Awaiting

\* The types of the loop and of the stand-in, step by step.
LEMMA MockTypeStep == MockInv /\ [MockNext]_mockVars => MockTypeOK'
<1> SUFFICES ASSUME MockInv, [MockNext]_mockVars PROVE MockTypeOK'
  OBVIOUS
<1>1. TypeOK /\ calls \in Nat
  BY DEF MockInv, MockTypeOK
<1>2. CASE NextJob /\ UNCHANGED loop
  <2>1. \/ Reply("paused", None) /\ gwHeader' = gwHeader /\ served' = None
        \/ Reply("job", gwHeader') /\ gwHeader' \in Headers /\ served' = gwHeader'
    BY <1>2, NextJobAnswers
  <2>2. seen' = seen /\ calls' = calls + 1
    BY <1>2, NextJobAnswers
  <2>3. LinkTypeOK'
    BY <1>1, <2>1, LinkTypes, NoneAssumption DEF TypeOK, Kinds
  <2>4. GatewayTypeOK'
    BY <1>1, <2>1, <2>2 DEF TypeOK, GatewayTypeOK
  <2> QED  BY <1>1, <1>2, <2>2, <2>3, <2>4 DEF loop, TypeOK, MockTypeOK
<1>3. CASE ~(NextJob /\ UNCHANGED loop)
  <2>1. [Next]_vars /\ calls' = calls
    BY <1>3 DEF MockNext, mockVars, Next, LoopNext, GatewayNext
  <2> QED  BY <1>1, <2>1, TypeStep DEF MockTypeOK
<1> QED  BY <1>2, <1>3

\* A call of the loop, its answer and what it does with it.
LEMMA ExchangeStep == MockInv /\ [MockNext]_mockVars => Exchange' /\ HandInv' /\ KeptInv'
<1> SUFFICES ASSUME MockInv, [MockNext]_mockVars PROVE Exchange' /\ HandInv' /\ KeptInv'
  OBVIOUS
<1>1. LinkTypeOK /\ Exchange /\ HandInv /\ KeptInv /\ metrics \in Metrics /\ seen \in [kept : Nat, dropped : Nat]
  BY DEF MockInv, MockTypeOK, TypeOK, GatewayTypeOK
<1>2. ~closed /\ pc # "died"
  BY <1>1 DEF Exchange
<1>3. job \in Headers \cup {None} /\ gwHeader \in Headers /\ metrics.accepted \in Nat
  BY <1>1 DEF MockInv, MockTypeOK, TypeOK, GatewayTypeOK, Metrics
<1>4. CASE Finish
  BY <1>1, <1>4 DEF Finish, Exchange, HandInv, KeptInv, Quiet, Awaiting, link, gateway
<1>5. CASE Poll \/ Confirm
  <2>1. Quiet /\ Send("getMiningInfo", None) /\ pc' \in {"polling", "confirming"}
    BY <1>1, <1>5 DEF Poll, Confirm, Exchange, Awaiting
  <2>2. UNCHANGED <<gateway, metrics>> /\ pc # "submitting"
    BY <1>5 DEF Poll, Confirm
  <2>3. Pending' /\ ~closed'
    BY <1>1, <1>2, <2>1, SendAlone DEF Methods, Pending
  <2> QED  BY <1>1, <2>1, <2>2, <2>3 DEF Exchange, HandInv, KeptInv, Awaiting, gateway, Pending
<1>6. CASE Submit
  <2>1. Quiet /\ Send("submitPlainProof", job) /\ pc' = "submitting" /\ job = gwHeader /\ UNCHANGED gateway
    BY <1>1, <1>6 DEF Submit, Exchange, Awaiting, HandInv
  <2>2. Pending' /\ ~closed'
    BY <1>1, <1>2, <1>3, <2>1, SendAlone DEF Methods, Pending, gateway
  <2>3. metrics'.rejected = metrics.rejected /\ metrics'.accepted = metrics.accepted
    BY <1>1, <1>6 DEF Submit, Metrics
  <2>4. pc # "submitting"
    BY <1>6 DEF Submit
  <2> QED  BY <1>1, <2>1, <2>2, <2>3, <2>4 DEF Exchange, HandInv, KeptInv, Awaiting, gateway, Pending
<1>7. CASE GotJob \/ GotPaused \/ Confirmed \/ StaleDrop
  <2>1. TakeAnswer /\ pc \in Awaiting /\ pc # "submitting" /\ UNCHANGED gateway
    BY <1>7 DEF GotJob, SwitchTo, GotPaused, Confirmed, Proceed, StaleDrop, DropAsStale, Receive, Awaiting
  <2>2. Quiet' /\ ~closed' /\ Answered
    BY <1>1, <2>1, TakeAlone
  <2>3. pc' \notin Awaiting /\ pc' # "died"
    BY <1>7 DEF GotJob, SwitchTo, GotPaused, Confirmed, Proceed, StaleDrop, DropAsStale, Awaiting
  <2>4. metrics'.rejected = metrics.rejected /\ metrics'.accepted = metrics.accepted
    BY <1>1, <1>7 DEF GotJob, SwitchTo, GotPaused, Confirmed, Proceed, StaleDrop, DropAsStale, Metrics
  <2>5. HandInv'
    BY <1>7, <2>1, <2>2 DEF GotJob, SwitchTo, GotPaused, Confirmed, Proceed, StaleDrop, DropAsStale, Receive,
       HandInv, Answered, gateway
  <2> QED  BY <1>1, <2>1, <2>2, <2>3, <2>4, <2>5 DEF Exchange, KeptInv, Awaiting, gateway
<1>8. CASE Acked
  <2>1. TakeAnswer /\ pc = "submitting" /\ pc' = "poll" /\ UNCHANGED gateway
    BY <1>8 DEF Acked, Receive
  <2>2. Quiet' /\ ~closed' /\ Answered
    BY <1>1, <2>1, TakeAlone DEF Awaiting
  <2>3. metrics'.rejected = metrics.rejected /\ metrics'.accepted = metrics.accepted + 1
    BY <1>1, <1>8 DEF Acked, Metrics
  <2> QED  BY <1>1, <2>1, <2>2, <2>3 DEF Exchange, HandInv, KeptInv, Awaiting, Answered, gateway
<1>9. CASE CheckThermal
  BY <1>1, <1>9 DEF CheckThermal, Exchange, HandInv, KeptInv, Quiet, Awaiting, link, gateway
<1>10. CASE SearchHit
  <2>1. metrics'.rejected = metrics.rejected /\ metrics'.accepted = metrics.accepted
    BY <1>1, <1>10 DEF SearchHit, Tried, Metrics
  <2> QED  BY <1>1, <1>10, <2>1 DEF SearchHit, Tried, Exchange, HandInv, KeptInv, Quiet, Awaiting, link, gateway
<1>11. CASE NextJob /\ UNCHANGED loop
  <2>1. /\ pc \in {"polling", "confirming"} /\ Pending /\ seen' = seen
        /\ Reply("paused", None) \/ Reply("job", gwHeader')
    BY <1>11, NextJobAnswers
  <2>2. Answered' /\ ~closed'
    BY <1>1, <1>2, <1>11, <2>1, ReplyAlone DEF Pending, Answered, loop
  <2> QED  BY <1>1, <1>11, <2>1, <2>2 DEF Exchange, HandInv, KeptInv, Awaiting, loop
<1>12. CASE RecordSubmit /\ UNCHANGED loop
  <2>1. pc = "submitting" /\ Pending /\ Reply("submitted", None) /\ UNCHANGED gwHeader
    BY <1>1, <1>12 DEF RecordSubmit, Asked, Exchange, Pending, Answered, Quiet, Awaiting
  <2>2. Answered' /\ ~closed' /\ answers' # << >>
    BY <1>1, <1>2, <1>12, <2>1, ReplyAlone DEF Pending, Answered, loop
  <2>3. seen' = [seen EXCEPT !.kept = @ + 1]
    BY <1>12, <2>1 DEF RecordSubmit, Pending
  <2>4. seen'.kept = seen.kept + 1 /\ seen'.dropped = seen.dropped
    BY <1>1, <2>3
  <2> QED  BY <1>1, <1>12, <2>1, <2>2, <2>4 DEF Exchange, HandInv, KeptInv, Awaiting, Pending, loop
<1>13. CASE Expire \/ Ended \/ UNCHANGED mockVars
  BY <1>1, <1>13 DEF Expire, Ended, mockVars, vars, link, gateway, loop, Exchange, HandInv, KeptInv, Quiet, Pending, Answered, Awaiting
<1> QED  BY <1>4, <1>5, <1>6, <1>7, <1>8, <1>9, <1>10, <1>11, <1>12, <1>13 DEF MockNext

\* The inductive invariant of the self-test.
LEMMA MockInvariance == MockSpec => []MockInv
<1>1. MockInv /\ [MockNext]_mockVars => MockInv'
  BY MockTypeStep, ExchangeStep DEF MockInv
<1> QED  BY <1>1, MockInitInv, PTL DEF MockSpec

\* Whatever rule the stand-in turns its header by, and however long it is paused, it
\* keeps every proof it is sent, and the miner's counters agree with its own
\* (mock_gateway.py:60-91, runtime.py:168-190): with or without stale_cancel.
THEOREM CountersAlwaysAgree == MockSpec => []CountersAgree
<1>1. MockInv => CountersAgree
  BY DEF MockInv, KeptInv, CountersAgree
<1> QED  BY <1>1, MockInvariance, PTL

-----------------------------------------------------------------------------
(* What the self-test asks of its counters. *)

\* A stand-in whose header lasts long enough for a poll, a search and a re-confirmation,
\* and a backend that finds at once on a cool GPU.
Obliging ==
  /\ RotateAfter > 2
  /\ Cardinality(Headers) > 1
  /\ Finds = {TRUE}
  /\ \A r \in Reported, v \in Temps : v < Limit[r]

Working == {"check", "search", "confirm", "confirming", "submit"}

\* Before the first job: the answers are pauses, and the first job is not yet read.
PauseInv ==
  /\ current = None => pc \in {"poll", "polling", "done"}
  /\ current = None /\ calls > PausedFirst => pc = "polling" /\ calls = PausedFirst + 1 /\ requests = << >>
  /\ calls <= PausedFirst => current = None
  /\ pc \in {"polling", "confirming"} /\ answers # << >> =>
       (Head(answers).kind = "paused" <=> calls <= PausedFirst)

\* The first turn of the header is noticed by the second poll after it at the latest.
TurnInv ==
  /\ pc \in Working => job = current
  /\ pc = "confirming" /\ requests # << >> => job = gwHeader
  /\ current # None => metrics.job_switches > 0
  /\ current # None /\ calls < PausedFirst + RotateAfter => gwHeader = current
  /\ current # None /\ metrics.job_switches < 2 /\ calls >= PausedFirst + RotateAfter =>
       /\ gwHeader # current
       /\ calls > PausedFirst + RotateAfter =>
            calls = PausedFirst + RotateAfter + 1 /\ pc = "polling" /\ requests = << >>

\* The first proof is found, re-confirmed and submitted on the first header.
FirstInv ==
  /\ current # None /\ pc \notin {"check", "search"} => metrics.attempts > 0
  /\ metrics.submitted = IF pc = "submitting" THEN metrics.accepted + 1 ELSE metrics.accepted
  /\ current # None /\ metrics.submitted = 0 =>
       /\ pc \in Working
       /\ calls <= PausedFirst + 2
       /\ pc \in {"check", "search", "confirm"} \/ requests # << >> => calls = PausedFirst + 1

ProgressInv == PauseInv /\ TurnInv /\ FirstInv

\* Turns are RotateAfter requests apart.
LEMMA TurnsApart ==
  ASSUME NEW r \in Nat, r > 2
  PROVE  /\ \A x \in 1 .. (r - 1) : x % r # 0
         /\ r % r = 0
         /\ (r + 1) % r # 0
<1>1. ASSUME NEW x \in 1 .. (r - 1) PROVE x % r # 0
  BY <1>1
<1>2. r % r = 0
  OBVIOUS
<1>3. (r + 1) % r # 0
  OBVIOUS
<1> QED  BY <1>1, <1>2, <1>3

\* The next header in the ring is another.
LEMMA RotateMoves == ASSUME Obliging, NEW h \in Headers PROVE Rotate(h) # h
<1> DEFINE n == Cardinality(Headers)
<1>1. n \in Nat /\ n > 1 /\ h \in 1 .. n
  BY MockAssumption, FS_CardinalityType DEF Obliging
<1> HIDE DEF n
<1>2. CASE h < n
  <2>1. h % n = h
    BY <1>1, <1>2
  <2> QED  BY <1>1, <2>1 DEF Rotate, n
<1>3. CASE h = n
  <2>1. h % n = 0
    BY <1>1, <1>3
  <2> QED  BY <1>1, <1>3, <2>1 DEF Rotate, n
<1> QED  BY <1>1, <1>2, <1>3

\* What the stand-in's answers do to the header: it turns with the RotateAfter-th, and
\* neither before nor with the next one.
LEMMA NextJobTurns ==
  ASSUME Obliging, MockInv, NextJob, UNCHANGED loop
  PROVE  /\ calls' <= PausedFirst => Head(answers').kind = "paused" /\ gwHeader' = gwHeader
         /\ calls' > PausedFirst => Head(answers').kind = "job"
         /\ calls' > PausedFirst /\ calls' < PausedFirst + RotateAfter => gwHeader' = gwHeader
         /\ calls' = PausedFirst + RotateAfter => gwHeader' # gwHeader
         /\ calls' = PausedFirst + RotateAfter + 1 => gwHeader' = gwHeader
         /\ requests' = << >> /\ answers' # << >>
<1>1. LinkTypeOK /\ Exchange /\ calls \in Nat /\ gwHeader \in Headers /\ calls' = calls + 1
  BY NextJobAnswers DEF MockInv, MockTypeOK, TypeOK, GatewayTypeOK
<1>2. Pending /\ ~closed
  BY <1>1, NextJobAnswers DEF Exchange
<1>3. RotateAfter \in Nat /\ RotateAfter > 2 /\ PausedFirst \in Nat
  BY MockAssumption DEF Obliging
<1>4. ASSUME NEW k, NEW h, Reply(k, h) PROVE requests' = << >> /\ answers' # << >> /\ Head(answers').kind = k
  BY <1>1, <1>2, <1>4, ReplyAlone DEF Pending
<1>5. CASE calls' <= PausedFirst
  BY <1>1, <1>3, <1>4, <1>5 DEF NextJob, AnswerNoJob
<1>6. CASE calls' > PausedFirst
  <2> DEFINE turn == RotateAfter # 0 /\ (calls' - PausedFirst) % RotateAfter = 0
  <2>1. gwHeader' = (IF turn THEN Rotate(gwHeader) ELSE gwHeader) /\ Reply("job", gwHeader')
    BY <1>1, <1>3, <1>6 DEF NextJob
  <2>2. calls' < PausedFirst + RotateAfter => ~turn
    <3>1. calls' < PausedFirst + RotateAfter => calls' - PausedFirst \in 1 .. (RotateAfter - 1)
      BY <1>1, <1>3, <1>6
    <3> QED  BY <1>3, <3>1, TurnsApart
  <2>3. calls' = PausedFirst + RotateAfter => turn
    <3>1. calls' = PausedFirst + RotateAfter => calls' - PausedFirst = RotateAfter
      BY <1>1, <1>3
    <3> QED  BY <1>3, <3>1, TurnsApart
  <2>4. calls' = PausedFirst + RotateAfter + 1 => ~turn
    <3>1. calls' = PausedFirst + RotateAfter + 1 => calls' - PausedFirst = RotateAfter + 1
      BY <1>1, <1>3
    <3> QED  BY <1>3, <3>1, TurnsApart
  <2> HIDE DEF turn
  <2> QED  BY <1>1, <1>3, <1>4, <1>6, <2>1, <2>2, <2>3, <2>4, RotateMoves
<1> QED  BY <1>1, <1>3, <1>5, <1>6

\* No job has come when the loop starts.
LEMMA ProgressInit == MockInit => ProgressInv
BY MockAssumption DEF MockInit, Init, LinkInit, GatewayInit, ProgressInv, PauseInv, TurnInv, FirstInv, Working

\* A cool GPU is searched.
LEMMA CoolSearches == ASSUME Obliging, CheckThermal PROVE pc' = "search"
<1>1. \A r \in Readings : ~TooHot(r, dev'[r])
  <2>1. PICK heat \in [Readings -> Temps], failed \in SUBSET Reported :
          dev' = [r \in Readings |-> IF r \in Reported \ failed THEN heat[r] ELSE None]
    BY DEF CheckThermal
  <2> TAKE r \in Readings
  <2>2. dev'[r] = None \/ (r \in Reported /\ dev'[r] \in Temps)
    BY <2>1
  <2>3. Limit[r] \in Nat /\ Temps \subseteq Nat
    BY LoopAssumption
  <2> QED  BY <2>2, <2>3 DEF TooHot, Obliging
<1> QED  BY <1>1 DEF CheckThermal

\* Every step of the self-test keeps what its progress rests on.
LEMMA ProgressStep ==
  ASSUME Obliging, MockInv, ProgressInv, [MockNext]_mockVars
  PROVE  ProgressInv'
<1>1. /\ LinkTypeOK /\ Exchange /\ HandInv /\ KeptInv /\ metrics \in Metrics
      /\ calls \in Nat /\ gwHeader \in Headers /\ job \in Headers \cup {None} /\ current \in Headers \cup {None}
  BY DEF MockInv, MockTypeOK, TypeOK, GatewayTypeOK
<1>2. /\ metrics.accepted \in Nat /\ metrics.submitted \in Nat /\ metrics.job_switches \in Nat
      /\ metrics.attempts \in Nat
  BY <1>1 DEF Metrics
<1>3. RotateAfter \in Nat /\ RotateAfter > 2 /\ PausedFirst \in Nat
  BY MockAssumption DEF Obliging
<1>4. PauseInv /\ TurnInv /\ FirstInv
  BY DEF ProgressInv
<1> USE DEF ProgressInv
<1>5. CASE Finish /\ UNCHANGED calls
  BY <1>4, <1>5 DEF Finish, PauseInv, TurnInv, FirstInv, Working, link, gateway
<1>6. CASE Poll /\ UNCHANGED calls
  <2>1. Quiet /\ ~closed /\ answers' = << >> /\ requests' # << >>
    BY <1>1, <1>6, SendAlone DEF Poll, Exchange, Awaiting, Methods
  <2> QED  BY <1>3, <1>4, <1>6, <2>1 DEF Poll, PauseInv, TurnInv, FirstInv, Working, gateway, Quiet
<1>7. CASE Confirm /\ UNCHANGED calls
  <2>1. Quiet /\ ~closed /\ answers' = << >> /\ requests' # << >> /\ job = gwHeader
    BY <1>1, <1>7, SendAlone DEF Confirm, Exchange, Awaiting, Methods, HandInv
  <2> QED  BY <1>3, <1>4, <1>7, <2>1 DEF Confirm, PauseInv, TurnInv, FirstInv, Working, gateway, Quiet
<1>8. CASE Submit /\ UNCHANGED calls
  <2>1. Quiet /\ ~closed /\ answers' = << >> /\ requests' # << >> /\ job = gwHeader
    BY <1>1, <1>8, SendAlone DEF Submit, Exchange, Awaiting, Methods, HandInv
  <2>2. /\ metrics'.submitted = metrics.submitted + 1 /\ metrics'.accepted = metrics.accepted
        /\ metrics'.attempts = metrics.attempts /\ metrics'.job_switches = metrics.job_switches
    BY <1>1, <1>8 DEF Submit, Metrics
  <2> QED  BY <1>2, <1>3, <1>4, <1>8, <2>1, <2>2 DEF Submit, PauseInv, TurnInv, FirstInv, Working, gateway, Quiet
<1>9. CASE GotJob /\ UNCHANGED calls
  <2>1. /\ pc = "polling" /\ requests = << >> /\ answers # << >> /\ Head(answers).kind = "job"
        /\ Head(answers).header = gwHeader /\ Quiet'
    BY <1>1, <1>9, TakeAlone DEF GotJob, SwitchTo, Receive, Awaiting, Answered
  <2>2. /\ metrics'.submitted = metrics.submitted /\ metrics'.accepted = metrics.accepted
        /\ metrics'.attempts = metrics.attempts
        /\ metrics'.job_switches = IF current = None \/ gwHeader # current
                                   THEN metrics.job_switches + 1 ELSE metrics.job_switches
    BY <1>1, <1>9, <2>1 DEF GotJob, SwitchTo, NewHeader, Metrics
  <2>3. pc' = "check" /\ job' = gwHeader /\ current' = gwHeader /\ UNCHANGED <<gateway, calls>> /\ gwHeader # None
    BY <1>1, <1>9, <2>1, NoneAssumption DEF GotJob, SwitchTo
  <2>4. calls > PausedFirst
    BY <1>1, <1>3, <1>4, <2>1 DEF PauseInv
  <2>5. PauseInv'
    BY <1>1, <1>3, <2>3, <2>4 DEF PauseInv
  <2>6. TurnInv'
    BY <1>1, <1>2, <1>3, <1>4, <2>1, <2>2, <2>3, <2>4 DEF PauseInv, TurnInv, Working, gateway
  <2>7. FirstInv'
    BY <1>1, <1>2, <1>3, <1>4, <2>1, <2>2, <2>3, <2>4 DEF PauseInv, FirstInv, Working
  <2> QED  BY <2>5, <2>6, <2>7
<1>10. CASE GotPaused /\ UNCHANGED calls
  <2>1. Quiet' /\ requests = << >> /\ answers # << >> /\ Head(answers).kind = "paused" /\ pc = "polling"
    BY <1>1, <1>10, TakeAlone DEF GotPaused, Receive, Awaiting, Answered
  <2>2. current = None /\ calls <= PausedFirst
    BY <1>4, <2>1 DEF PauseInv
  <2> QED  BY <1>1, <1>3, <1>4, <1>10, <2>1, <2>2 DEF GotPaused, PauseInv, TurnInv, FirstInv, Working, gateway
<1>11. CASE (Confirmed \/ StaleDrop) /\ UNCHANGED calls
  <2>1. /\ Quiet' /\ requests = << >> /\ answers # << >> /\ pc = "confirming"
        /\ Head(answers).kind = "job" => Head(answers).header = gwHeader
    BY <1>1, <1>11, TakeAlone DEF Confirmed, Proceed, StaleDrop, DropAsStale, Receive, Awaiting, Answered
  <2>2. current # None /\ calls > PausedFirst /\ job = current /\ Head(answers).kind # "paused"
    BY <1>1, <1>3, <1>4, <2>1 DEF PauseInv, TurnInv, Working
  <2>3. /\ metrics'.submitted = metrics.submitted /\ metrics'.accepted = metrics.accepted
        /\ metrics'.attempts = metrics.attempts /\ metrics'.job_switches = metrics.job_switches
        /\ UNCHANGED <<gateway, job, current, calls>>
    BY <1>1, <1>11 DEF Confirmed, Proceed, StaleDrop, DropAsStale, Metrics
  <2>4. CASE Confirmed
    BY <1>1, <1>2, <1>3, <1>4, <2>1, <2>2, <2>3, <2>4
       DEF Confirmed, Proceed, PauseInv, TurnInv, FirstInv, Working, gateway, Quiet
  <2>5. CASE StaleDrop
    <3>1. gwHeader # current /\ pc' = "poll"
      BY <2>1, <2>2, <2>5 DEF StaleDrop, DropAsStale, Receive
    <3>2. calls >= PausedFirst + RotateAfter
      BY <1>1, <1>3, <1>4, <2>2, <3>1 DEF TurnInv
    <3>3. metrics.submitted # 0
      BY <1>1, <1>3, <1>4, <2>2, <3>2 DEF FirstInv
    <3> QED  BY <1>1, <1>2, <1>3, <1>4, <2>1, <2>2, <2>3, <3>1, <3>2, <3>3
             DEF PauseInv, TurnInv, FirstInv, Working, gateway, Quiet
  <2> QED  BY <1>11, <2>4, <2>5
<1>12. CASE Acked /\ UNCHANGED calls
  <2>1. Quiet' /\ pc = "submitting" /\ pc' = "poll"
    BY <1>1, <1>12, TakeAlone DEF Acked, Receive, Awaiting
  <2>2. /\ metrics'.submitted = metrics.submitted /\ metrics'.accepted = metrics.accepted + 1
        /\ metrics'.attempts = metrics.attempts /\ metrics'.job_switches = metrics.job_switches
        /\ UNCHANGED <<gateway, job, current, calls>>
    BY <1>1, <1>12 DEF Acked, Metrics
  <2> QED  BY <1>2, <1>3, <1>4, <2>1, <2>2 DEF PauseInv, TurnInv, FirstInv, Working, gateway, Quiet
<1>13. CASE CheckThermal /\ UNCHANGED calls
  <2>1. pc' = "search"
    BY <1>13, CoolSearches
  <2> QED  BY <1>4, <1>13, <2>1 DEF CheckThermal, PauseInv, TurnInv, FirstInv, Working, link, gateway
<1>14. CASE SearchHit /\ UNCHANGED calls
  <2>1. /\ metrics'.submitted = metrics.submitted /\ metrics'.accepted = metrics.accepted
        /\ metrics'.attempts > 0 /\ metrics'.job_switches = metrics.job_switches
        /\ UNCHANGED <<link, gateway, job, current, calls>> /\ pc' \in {"confirm", "submit"}
    <3>1. PICK n \in Nat : n > 0 /\ Tried(n)
      BY <1>14, LoopAssumption DEF SearchHit
    <3> DEFINE work == n * Macs
    <3>2. metrics' = [metrics EXCEPT !.attempts = @ + n, !.work_units = @ + work]
      BY <3>1 DEF Tried
    <3> HIDE DEF work
    <3> QED  BY <1>1, <1>2, <1>14, <3>1, <3>2 DEF SearchHit, Tried, Metrics
  <2> QED  BY <1>1, <1>2, <1>3, <1>4, <1>14, <2>1 DEF SearchHit, Exchange, Quiet, Awaiting,
           PauseInv, TurnInv, FirstInv, Working, link, gateway
<1>15. CASE NextJob /\ UNCHANGED loop
  <2>1. /\ pc \in {"polling", "confirming"} /\ requests # << >> /\ answers = << >>
        /\ calls' = calls + 1
    BY <1>15, NextJobAnswers DEF Pending
  <2>2. requests' = << >> /\ answers' # << >>
    BY <1>15, NextJobTurns
  <2>3. PauseInv'
    BY <1>1, <1>3, <1>4, <1>15, <2>1, <2>2, NextJobTurns DEF PauseInv, loop
  <2>4. TurnInv'
    <3>1. current # None /\ calls' < PausedFirst + RotateAfter => gwHeader' = current
      BY <1>1, <1>3, <1>4, <1>15, <2>1, NextJobTurns DEF PauseInv, TurnInv
    <3>2. ASSUME current # None, metrics.job_switches < 2, calls' >= PausedFirst + RotateAfter
          PROVE  /\ gwHeader' # current
                 /\ calls' > PausedFirst + RotateAfter =>
                      calls' = PausedFirst + RotateAfter + 1 /\ pc = "polling"
      <4>1. CASE calls' = PausedFirst + RotateAfter
        BY <1>1, <1>3, <1>4, <1>15, <2>1, <3>2, <4>1, NextJobTurns DEF TurnInv
      <4>2. CASE calls' > PausedFirst + RotateAfter
        <5>1. gwHeader # current /\ calls = PausedFirst + RotateAfter
          BY <1>1, <1>3, <1>4, <2>1, <3>2, <4>2 DEF TurnInv
        <5>2. pc = "polling"
          BY <1>4, <2>1, <5>1 DEF TurnInv, Working
        <5> QED  BY <1>3, <1>15, <2>1, <5>1, <5>2, NextJobTurns
      <4> QED  BY <1>1, <1>3, <2>1, <3>2, <4>1, <4>2
    <3> QED  BY <1>4, <1>15, <2>1, <2>2, <3>1, <3>2 DEF TurnInv, Working, loop
  <2>5. FirstInv'
    BY <1>1, <1>2, <1>3, <1>4, <1>15, <2>1, <2>2 DEF FirstInv, Working, loop
  <2> QED  BY <2>3, <2>4, <2>5
<1>16. CASE RecordSubmit /\ UNCHANGED <<loop, calls>>
  <2>1. pc = "submitting" /\ gwHeader' = gwHeader /\ calls' = calls
    BY <1>1, <1>16 DEF RecordSubmit, Asked, Exchange, Pending, Answered, Quiet, Awaiting
  <2> QED  BY <1>4, <1>16, <2>1 DEF PauseInv, TurnInv, FirstInv, Working, loop
<1>17. CASE ((Expire \/ Ended) /\ UNCHANGED calls) \/ UNCHANGED mockVars
  BY <1>4, <1>17 DEF Expire, Ended, mockVars, vars, link, gateway, loop, PauseInv, TurnInv, FirstInv, Working
<1> QED  BY <1>5, <1>6, <1>7, <1>8, <1>9, <1>10, <1>11, <1>12, <1>13, <1>14, <1>15, <1>16, <1>17 DEF MockNext

\* With an obliging stand-in the checks of cmd_self_test pass whenever the loop had the
\* time (prl3090_miner.py:115-121), for any rotation and any number of pauses.
THEOREM SelfTestPasses == ASSUME Obliging PROVE MockSpec => []ChecksPass
<1>1. MockInv /\ ProgressInv => ChecksPass
  <2> SUFFICES ASSUME MockInv, ProgressInv, pc = "done", calls >= PausedFirst + 2 * RotateAfter + 1
               PROVE  /\ metrics.attempts > 0 /\ metrics.job_switches >= 2
                      /\ metrics.submitted >= 1 /\ seen.kept >= 1
    BY DEF ChecksPass
  <2>1. /\ metrics.accepted \in Nat /\ metrics.submitted \in Nat /\ metrics.job_switches \in Nat
        /\ calls \in Nat /\ RotateAfter \in Nat /\ RotateAfter > 2 /\ PausedFirst \in Nat
    BY MockAssumption DEF MockInv, MockTypeOK, TypeOK, Metrics, Obliging
  <2>2. current # None
    BY <2>1 DEF ProgressInv, PauseInv
  <2>3. metrics.job_switches >= 2
    BY <2>1, <2>2 DEF ProgressInv, TurnInv
  <2>4. metrics.attempts > 0 /\ metrics.submitted # 0 /\ metrics.submitted = metrics.accepted
    BY <2>1, <2>2 DEF ProgressInv, FirstInv, Working
  <2>5. seen.kept = metrics.accepted
    BY DEF MockInv, KeptInv
  <2> QED  BY <2>1, <2>3, <2>4, <2>5
<1>2. MockInv /\ ProgressInv /\ [MockNext]_mockVars => ProgressInv'
  BY ProgressStep
<1> QED  BY <1>1, <1>2, ProgressInit, MockInvariance, PTL DEF MockSpec

-----------------------------------------------------------------------------
(* The search for one proof: the least member of a set of numbers, first. *)

\* A non-empty set of naturals has a least member.
LEMMA LeastMember ==
  ASSUME NEW S, S \subseteq Nat, S # {}
  PROVE  \E i \in S : \A j \in S : i <= j
<1>1. IsWellFoundedOn(OpToRel(<, Nat), Nat)
  BY NatLessThanWellFounded
<1>2. PICK i \in S : \A j \in S : <<j, i>> \notin OpToRel(<, Nat)
  BY <1>1, WFMin, Zenon
<1>3. \A j \in S : ~ (j < i)
  BY <1>2 DEF OpToRel
<1> QED  BY <1>3

\* A batch is looked up in the list it was stacked from; what the GPU named is in it.
Stacked ==
  /\ attempts = stack
  /\ place \in {"search", "confirm", "submit"} => Len(stack) = IF mode = "solo" THEN 1 ELSE Natt
  /\ place \in {"confirm", "submit"} => winner.att \in {Nothing} \cup 0 .. Len(stack) - 1
  /\ mode \notin Live => place # "submit"
  /\ mode = "solo" => place # "search"
  /\ place = "loop" => header # Nothing

\* The account so far: nothing is sent before the end, a proof about to be sent was
\* confirmed, and a batch was left only if its winner was not.
Account ==
  /\ place = "submit" => Proves
  /\ place \notin {"ended", "raised"} => sent = << >>
  /\ sent \in Seq([header : Int, proves : BOOLEAN, kept : BOOLEAN])
  /\ batch <= MaxBatches
  /\ VerdictIsTrue

SoloInv == SoloTypeOK /\ Stacked /\ Account

\* The first attempt that proves is an attempt of the batch, and proves.
LEMMA FirstOfIsFirst ==
  ASSUME NEW list \in Seq(BOOLEAN)
  PROVE  /\ FirstOf(list) \in [att : Int, tile : BOOLEAN]
         /\ FirstOf(list).att \in {Nothing} \cup 0 .. Len(list) - 1
         /\ (\E i \in DOMAIN list : list[i]) => FirstOf(list).att # Nothing /\ list[FirstOf(list).att + 1]
<1> DEFINE hits == {i \in 1 .. Len(list) : list[i]}
<1>0. DOMAIN list = 1 .. Len(list) /\ Len(list) \in Nat
  OBVIOUS
<1>1. CASE hits = {}
  <2>1. FirstOf(list) = NoWinner
    BY <1>0, <1>1 DEF FirstOf
  <2> QED  BY <1>0, <1>1, <2>1 DEF NoWinner, Nothing
<1>2. CASE hits # {}
  <2>1. hits \subseteq Nat
    BY <1>0
  <2>2. Min(hits) \in hits
    BY <1>2, <2>1, LeastMember DEF Min
  <2>3. SelectInSeq(list, LAMBDA proves : proves) = Min(hits)
    BY <1>2 DEF SelectInSeq
  <2>4. FirstOf(list) = [att |-> Min(hits) - 1, tile |-> TRUE]
    BY <1>0, <1>2, <2>3 DEF FirstOf
  <2> DEFINE m == Min(hits)
  <2>5. m \in 1 .. Len(list) /\ list[m]
    BY <2>2
  <2>6. FirstOf(list).att = m - 1 /\ FirstOf(list).tile = TRUE
    BY <2>4
  <2> HIDE DEF m
  <2> QED  BY <1>0, <2>4, <2>5, <2>6 DEF Nothing, m
<1> QED  BY <1>1, <1>2

\* A program that starts has begun no batch.
LEMMA SoloInitInv == SoloInit => SoloInv
BY SoloAssumption DEF SoloInit, SoloInv, SoloTypeOK, Stacked, Account, VerdictIsTrue, Proves, Modes, Live,
   Nothing, NoWinner

\* An exception ends the program with code 1.
LEMMA RaisesKeeps == ASSUME SoloInv, Raises PROVE SoloInv'
BY DEF SoloInv, SoloTypeOK, Stacked, Account, VerdictIsTrue, Proves, Raises, SoloOver, ExitByException, Nothing

\* The job.
LEMMA FetchKeeps == ASSUME SoloInv, Fetch PROVE SoloInv'
BY DEF Fetch, SoloInv, SoloTypeOK, Stacked, Account, VerdictIsTrue, Proves, Nothing

\* A batch is stacked from the list that its winner will be looked up in.
LEMMA BuildKeeps == ASSUME SoloInv, Build PROVE SoloInv'
<1> DEFINE n == IF mode = "solo" THEN 1 ELSE Natt
<1>1. n \in Nat \ {0}
  BY SoloAssumption
<1>2. PICK new \in [1 .. n -> BOOLEAN] : stack' = new /\ attempts' = << >> \o new
  BY Zenon DEF Build, BuildOnto
<1>3. new \in Seq(BOOLEAN) /\ Len(new) = n /\ << >> \o new = new
  BY <1>1, <1>2
<1>4. header # Nothing
  BY DEF Build, BuildOnto, SoloInv, SoloTypeOK, Stacked, Account
<1>5. SoloTypeOK'
  BY <1>1, <1>2, <1>3, <1>4, SoloAssumption
     DEF Build, BuildOnto, More, SoloInv, SoloTypeOK, Stacked, Account, VerdictIsTrue, Proves, NoWinner, Nothing, Live, Modes
<1>6. Stacked'
  BY <1>1, <1>2, <1>3, <1>4, SoloAssumption
     DEF Build, BuildOnto, More, SoloInv, SoloTypeOK, Stacked, Account, VerdictIsTrue, Proves, NoWinner, Nothing, Live, Modes
<1>7. Account'
  BY <1>1, <1>2, <1>3, <1>4, SoloAssumption
     DEF Build, BuildOnto, More, SoloInv, SoloTypeOK, Stacked, Account, VerdictIsTrue, Proves, NoWinner, Nothing, Live, Modes
<1> QED  BY <1>5, <1>6, <1>7 DEF SoloInv

\* Whatever the GPU says is an attempt of the batch, or none.
LEMMA GpuSearchKeeps == ASSUME SoloInv, GpuSearch PROVE SoloInv'
<1>1. /\ winner' \in {FirstOf(stack), NoWinner} \cup [att : 0 .. Natt - 1, tile : BOOLEAN]
      /\ place = "search" /\ place' = "confirm"
      /\ UNCHANGED <<mode, tip, header, batch, stack, attempts, verdict, sent, passed>>
  BY DEF GpuSearch
<1>2. Len(stack) = Natt /\ Natt \in Nat \ {0} /\ mode # "solo"
  BY SoloAssumption DEF GpuSearch, SoloInv, SoloTypeOK, Stacked
<1>3. winner' \in [att : Int, tile : BOOLEAN] /\ winner'.att \in {Nothing} \cup 0 .. Natt - 1
  <2>1. FirstOf(stack) \in [att : Int, tile : BOOLEAN] /\ FirstOf(stack).att \in {Nothing} \cup 0 .. Natt - 1
    BY <1>2, FirstOfIsFirst DEF SoloInv, SoloTypeOK
  <2>2. NoWinner \in [att : Int, tile : BOOLEAN] /\ NoWinner.att = Nothing
    BY DEF NoWinner, Nothing
  <2>3. CASE winner' \in [att : 0 .. Natt - 1, tile : BOOLEAN]
    BY <1>2, <2>3
  <2> QED  BY <1>1, <2>1, <2>2, <2>3
<1>4. SoloTypeOK' /\ Stacked'
  BY <1>1, <1>2, <1>3 DEF SoloInv, SoloTypeOK, Stacked
<1>5. Account'
  BY <1>1 DEF SoloInv, SoloTypeOK, Account, VerdictIsTrue, Nothing
<1> QED  BY <1>4, <1>5 DEF SoloInv

\* A batch is left only when the attempt that the GPU named does not prove.
LEMMA OfficialKeeps == ASSUME SoloInv, Official PROVE SoloInv'
<1>1. place = "confirm" /\ UNCHANGED <<mode, tip, header, batch, stack, attempts, winner, sent>>
  BY DEF Official, ConfirmIf
<1>2. CASE winner.att = Nothing \/ ~Proves
  <2>1. PassOver
    BY <1>2 DEF Official, ConfirmIf
  <2>2. (\E i \in DOMAIN stack : stack[i]) => winner.att # FirstOf(stack).att
    BY <1>2, FirstOfIsFirst DEF SoloInv, SoloTypeOK, Stacked, Proves
  <2>3. \A p \in passed' : (\E i \in DOMAIN p.stack : p.stack[i]) => p.winner.att # FirstOf(p.stack).att
    BY <2>1, <2>2 DEF PassOver, SoloInv, Account, VerdictIsTrue
  <2>4. IF mode \in Live THEN place' = "loop" /\ verdict' = verdict ELSE place' = "ended" /\ verdict' = 1
    BY <2>1 DEF PassOver, ExitWith
  <2>5. ~ (winner.att + 1 \in DOMAIN stack /\ stack[winner.att + 1])
    BY <1>2 DEF SoloInv, SoloTypeOK, Stacked, Proves, Nothing
  <2>6. SoloTypeOK' /\ Stacked'
    BY <1>1, <2>4 DEF SoloInv, SoloTypeOK, Stacked, Nothing
  <2>7. sent = << >> /\ verdict = Nothing
    BY <1>1 DEF SoloInv, SoloTypeOK, Account
  <2>8. VerdictIsTrue'
    BY <1>1, <2>3, <2>4, <2>5, <2>7 DEF VerdictIsTrue, Nothing
  <2> QED  BY <1>1, <2>4, <2>6, <2>7, <2>8 DEF SoloInv, Account
<1>3. CASE winner.att # Nothing /\ Proves
  <2>1. IF mode \in Live THEN place' = "submit" /\ UNCHANGED verdict
        ELSE ExitWith(IF mode = "selftest" /\ ~winner.tile THEN 1 ELSE 0)
    BY <1>3 DEF Official, ConfirmIf
  <2>2. UNCHANGED passed
    BY <1>3 DEF Official, ConfirmIf
  <2>3. winner.att + 1 \in DOMAIN stack /\ stack[winner.att + 1]
    BY <1>1, <1>3 DEF SoloInv, SoloTypeOK, Stacked, Proves
  <2>4. CASE mode \in Live
    BY <1>1, <1>3, <2>1, <2>2, <2>4 DEF SoloInv, SoloTypeOK, Stacked, Account, VerdictIsTrue, Proves
  <2>5. CASE mode \notin Live
    BY <1>1, <1>3, <2>1, <2>2, <2>3, <2>5 DEF ExitWith, SoloInv, SoloTypeOK, Stacked, Account, VerdictIsTrue, Proves, Nothing
  <2> QED  BY <2>4, <2>5
<1> QED  BY <1>2, <1>3

\* One proof is sent, and the program ends, with either code.
LEMMA SubmitKeeps == ASSUME SoloInv, SubmitProof PROVE SoloInv'
<1> DEFINE proof == [header |-> header, proves |-> Proves, kept |-> header = tip]
<1>1. sent = << >> /\ Proves /\ mode \in Live /\ header \in 0 .. tip /\ tip \in Nat
  BY DEF SubmitProof, SoloInv, SoloTypeOK, Stacked, Account, Nothing
<1>2. proof \in [header : Int, proves : BOOLEAN, kept : BOOLEAN]
  BY <1>1
<1>3. sent' = <<proof>>
  BY <1>1 DEF SubmitProof
<1>4. Len(sent') = 1 /\ DOMAIN sent' = {1} /\ sent'[1] = proof
  BY <1>3
<1>5. proof.header = header /\ proof.proves /\ (~proof.kept => tip > header)
  <2>1. proof.proves = Proves /\ proof.kept = (header = tip)
    BY Zenon
  <2>2. proof.header = header
    OBVIOUS
  <2>3. header # tip => tip > header
    BY <1>1
  <2> HIDE DEF proof
  <2>4. proof.proves
    BY <1>1, <2>1, Zenon
  <2>5. ~proof.kept => tip > header
    BY <2>1, <2>3, Zenon
  <2> QED  BY <2>2, <2>4, <2>5, Zenon
<1>6. \/ place' = "ended" /\ verdict' = 0
      \/ place' = "raised" /\ verdict' = 1
  BY DEF SubmitProof, ExitWith, ExitByException
<1>7. UNCHANGED <<mode, tip, header, batch, stack, attempts, winner, passed>> /\ place = "submit"
  BY DEF SubmitProof
<1>8. SoloTypeOK' /\ Stacked'
  BY <1>6, <1>7 DEF SoloInv, SoloTypeOK, Stacked, Nothing
<1> HIDE DEF proof
<1>9. VerdictIsTrue'
  BY <1>1, <1>4, <1>5, <1>6, <1>7 DEF SoloInv, Account, VerdictIsTrue
<1>10. sent' \in Seq([header : Int, proves : BOOLEAN, kept : BOOLEAN])
  BY <1>2, <1>3
<1> QED  BY <1>6, <1>7, <1>8, <1>9, <1>10 DEF SoloInv, Account

\* The batches are used up.
LEMMA GiveUpKeeps == ASSUME SoloInv, GiveUp PROVE SoloInv'
<1>1. mode \in Live => batch = MaxBatches
  BY SoloAssumption DEF GiveUp, More, SoloInv, SoloTypeOK
<1> QED  BY <1>1 DEF GiveUp, ExitWith, SoloInv, SoloTypeOK, Stacked, Account, VerdictIsTrue, Proves, Nothing

\* The node's tip moves while the program runs, so a proof sent keeps its verdict.
LEMMA TipKeeps == ASSUME SoloInv, TipMoves PROVE SoloInv'
<1>1. tip' \in 0 .. MaxTips /\ tip' > tip /\ tip \in Nat
  BY SoloAssumption DEF TipMoves, SoloInv, SoloTypeOK
<1>2. sent = << >>
  BY DEF TipMoves, SoloOver, SoloInv, Account
<1> QED  BY <1>1, <1>2 DEF TipMoves, SoloInv, SoloTypeOK, Stacked, Account, VerdictIsTrue, Proves, Nothing

\* Every step keeps the invariant.
LEMMA SoloStep == SoloInv /\ [SoloNext]_soloVars => SoloInv'
<1>1. SoloInv /\ UNCHANGED soloVars => SoloInv'
  BY DEF soloVars, SoloInv, SoloTypeOK, Stacked, Account, VerdictIsTrue, Proves
<1> QED  BY <1>1, FetchKeeps, BuildKeeps, GpuSearchKeeps, OfficialKeeps, SubmitKeeps, GiveUpKeeps, RaisesKeeps, TipKeeps DEF SoloNext

\* The search for one proof keeps its types, whatever the GPU answers.
THEOREM SoloTypeCorrect == SoloSpec => []SoloTypeOK
<1>1. SoloInv => SoloTypeOK
  BY DEF SoloInv
<1> QED  BY <1>1, SoloInitInv, SoloStep, PTL DEF SoloSpec

\* The exit code tells the truth for any number of attempts and batches, although
\* neither the GPU nor the tip can be relied on.
THEOREM ExitCodeIsTrue == SoloSpec => []VerdictIsTrue
<1>1. SoloInv => VerdictIsTrue
  BY DEF SoloInv, Account
<1> QED  BY <1>1, SoloInitInv, SoloStep, PTL DEF SoloSpec

-----------------------------------------------------------------------------
(* The two programs side by side, as they are checked. *)

\* Whichever of the two programs runs, both keep their types.
THEOREM SearchTypes == SearchSpec => []SearchTypeOK
<1>1. SearchInit => MockInv /\ SoloInv
  BY MockInitInv, SoloInitInv DEF SearchInit
<1>2. (MockInv /\ SoloInv) /\ [SearchNext]_searchVars => (MockInv /\ SoloInv)'
  <2> SUFFICES ASSUME MockInv, SoloInv, [SearchNext]_searchVars PROVE MockInv' /\ SoloInv'
    OBVIOUS
  <2>1. [MockNext]_mockVars /\ [SoloNext]_soloVars
    BY DEF SearchNext, searchVars
  <2> QED  BY <2>1, MockTypeStep, ExchangeStep, SoloStep DEF MockInv
<1>3. MockInv /\ SoloInv => SearchTypeOK
  BY DEF MockInv, SoloInv, SearchTypeOK
<1> QED  BY <1>1, <1>2, <1>3, PTL DEF SearchSpec
=============================================================================
