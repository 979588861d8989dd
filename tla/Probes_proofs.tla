---------------------------- MODULE Probes_proofs ----------------------------
(***************************************************************************)
(* The verdicts of the two handshake probes, for any number of messages of  *)
(* the pool, in any order and in any phase: that the protocol is open rests *)
(* on a job, and that a miner could submit rests on a granted authorize.    *)
(***************************************************************************)
EXTENDS MCProbes, TLAPS

-----------------------------------------------------------------------------
(* Queues of messages. *)

\* A message taken off a queue: what is left is what was behind it.
LEMMA TailOfQueue ==
  ASSUME NEW S, NEW s \in Seq(S), s # << >>
  PROVE  /\ Tail(s) \in Seq(S) /\ Head(s) \in S
         /\ Len(s) \in Nat /\ Len(Tail(s)) \in Nat /\ Len(Tail(s)) + 1 = Len(s)
         /\ \A i \in DOMAIN Tail(s) : \E k \in DOMAIN s : Tail(s)[i] = s[k]
         /\ \E k \in DOMAIN s : Head(s) = s[k]
<1>1. /\ Tail(s) \in Seq(S) /\ Len(s) \in Nat \ {0} /\ Len(Tail(s)) = Len(s) - 1
      /\ DOMAIN s = 1 .. Len(s) /\ DOMAIN Tail(s) = 1 .. Len(s) - 1
  OBVIOUS
<1>2. \A i \in 1 .. Len(s) - 1 : i + 1 \in 1 .. Len(s) /\ Tail(s)[i] = s[i + 1]
  BY <1>1
<1>3. 1 \in 1 .. Len(s) /\ Head(s) = s[1] /\ s[1] \in S
  BY <1>1
<1> QED  BY <1>1, <1>2, <1>3

\* A message put on a queue comes last.
LEMMA AppendToQueue ==
  ASSUME NEW S, NEW s \in Seq(S), NEW e \in S
  PROVE  /\ Append(s, e) \in Seq(S)
         /\ Len(s) \in Nat /\ Len(Append(s, e)) = Len(s) + 1
         /\ \A i \in DOMAIN Append(s, e) :
              Append(s, e)[i] = e \/ \E k \in DOMAIN s : Append(s, e)[i] = s[k]
<1>1. /\ Append(s, e) \in Seq(S) /\ Len(s) \in Nat /\ Len(Append(s, e)) = Len(s) + 1
      /\ DOMAIN s = 1 .. Len(s) /\ DOMAIN Append(s, e) = 1 .. Len(s) + 1
  OBVIOUS
<1>2. \A i \in 1 .. Len(s) + 1 : Append(s, e)[i] = IF i = Len(s) + 1 THEN e ELSE s[i]
  BY <1>1
<1>3. \A i \in 1 .. Len(s) + 1 : i = Len(s) + 1 \/ i \in 1 .. Len(s)
  BY <1>1
<1> QED  BY <1>1, <1>2, <1>3

-----------------------------------------------------------------------------
(* The Stratum probe. *)

\* What was read of a job, and what is still to be read of one, is the pool's.
JobIsThePools ==
  /\ job \/ code = 0 => issued
  /\ \A i \in DOMAIN inbox : "job" \in inbox[i].says => issued

ProbeInv == TypeOK /\ JobIsThePools

\* The probe is connected and has sent its first requests (pool_client.py:124-178).
LEMMA ProbeInitInv == Init => ProbeInv
<1> SUFFICES ASSUME Init PROVE ProbeInv
  OBVIOUS
<1> USE ProbeAssumption DEF Init, None, LastStage
<1>1. lastId \in Nat /\ pending \subseteq [id : 1 .. lastId] /\ inbox \in Seq(Messages)
  OBVIOUS
<1>2. stage \in 0 .. LastStage /\ said \in 0 .. MaxSaid
  OBVIOUS
<1>3. TypeOK
  BY <1>1, <1>2 DEF TypeOK
<1> QED  BY <1>3 DEF ProbeInv, JobIsThePools

\* A message read (pool_client.py:98-121).
LEMMA HearKeeps == ProbeInv /\ Hear => ProbeInv'
<1> SUFFICES ASSUME TypeOK, JobIsThePools, Hear PROVE TypeOK' /\ JobIsThePools'
  BY DEF ProbeInv
<1> USE DEF Hear, HearWith, Yield, None
<1>1. inbox \in Seq(Messages) /\ inbox # << >> /\ inbox' = Tail(inbox)
  BY DEF TypeOK
<1>2. /\ inbox' \in Seq(Messages)
      /\ \A i \in DOMAIN inbox' : \E k \in DOMAIN inbox : inbox'[i] = inbox[k]
      /\ \E k \in DOMAIN inbox : Head(inbox) = inbox[k]
  BY <1>1, TailOfQueue
<1>3. job' \in BOOLEAN /\ challenge' \in BOOLEAN
  OBVIOUS
<1>4. TypeOK'
  BY <1>2, <1>3 DEF TypeOK
<1>5. job' => job \/ "job" \in Head(inbox).says
  BY DEF NamesJob
<1>6. JobIsThePools'
  BY <1>2, <1>5 DEF JobIsThePools
<1> QED  BY <1>4, <1>6

\* One request more, of whichever dialect comes next.
NextDialect == TryLogin \/ TryShapes \/ TryNextShape

\* The end of a collection, the next dialect and the verdict (pool_client.py:89, 178-220).
LEMMA ProbeMovesKeep ==
  ProbeInv /\ (HearEnd \/ CollectOver \/ NextDialect \/ Judge) => ProbeInv'
<1> SUFFICES ASSUME TypeOK, JobIsThePools, HearEnd \/ CollectOver \/ NextDialect \/ Judge
             PROVE  TypeOK' /\ JobIsThePools'
  BY DEF ProbeInv
<1> USE DEF stratum, None
<1>1. CASE HearEnd
  BY <1>1 DEF HearEnd, YieldEnd, TypeOK, JobIsThePools
<1>2. CASE CollectOver
  BY <1>2 DEF CollectOver, Deadline, TypeOK, JobIsThePools
<1>3. CASE NextDialect
  <2> USE <1>3 DEF NextDialect, TryLogin, TryShapes, TryNextShape, TryShapeUnless, TryNext,
                   LastStage
  <2>1. stage' \in 0 .. LastStage /\ pc' \in {"collect", "crashed"} /\ pc = "decide"
    BY DEF TypeOK
  <2>2. CASE SendFails
    BY <2>1, <2>2 DEF SendFails, TypeOK, JobIsThePools
  <2>3. CASE SendRequest([id |-> 0])
    <3>1. lastId' \in Nat /\ inbox' = inbox /\ line' = line
      BY <2>3 DEF SendRequest, TypeOK
    <3>2. [[id |-> 0] EXCEPT !.id = lastId + 1] \in [id : 1 .. lastId']
      BY <2>3 DEF SendRequest, TypeOK
    <3>3. pending' \subseteq [id : 1 .. lastId']
      BY <2>3, <3>2 DEF SendRequest, TypeOK
    <3> QED  BY <2>1, <3>1, <3>3 DEF TypeOK, JobIsThePools
  <2> QED  BY <2>2, <2>3
<1>4. CASE Judge
  <2>1. Verdict \in {0, 1, 3} /\ (Verdict = 0 => job)
    BY DEF Verdict
  <2> QED  BY <1>4, <2>1 DEF Judge, TypeOK, JobIsThePools
<1> QED  BY <1>1, <1>2, <1>3, <1>4

\* What the pool sends, and its leaving.
LEMMA PoolKeeps == ProbeInv /\ (Answer \/ Notify \/ Leave) => ProbeInv'
<1> SUFFICES ASSUME TypeOK, JobIsThePools, Answer \/ Notify \/ Leave
             PROVE  TypeOK' /\ JobIsThePools'
  BY DEF ProbeInv
<1> USE DEF Bystander
<1>1. ASSUME NEW m \in Messages, inbox' = Append(inbox, m),
             issued' = (issued \/ "job" \in m.says), said < MaxSaid, said' = said + 1,
             pending' \subseteq pending, Bystander, UNCHANGED <<lastId, line>>
      PROVE  TypeOK' /\ JobIsThePools'
  <2>1. inbox \in Seq(Messages) /\ said' \in 0 .. MaxSaid
    BY <1>1, ProbeAssumption DEF TypeOK
  <2>2. /\ inbox' \in Seq(Messages)
        /\ \A i \in DOMAIN inbox' : inbox'[i] = m \/ \E k \in DOMAIN inbox : inbox'[i] = inbox[k]
    BY <1>1, <2>1, AppendToQueue
  <2>3. TypeOK'
    BY <1>1, <2>1, <2>2 DEF TypeOK
  <2>4. JobIsThePools'
    BY <1>1, <2>2 DEF JobIsThePools
  <2> QED  BY <2>3, <2>4
<1>2. CASE Answer
  <2>1. PICK r \in pending, says \in Says :
          /\ PoolAnswers(r, [id |-> r.id, says |-> says])
          /\ issued' = (issued \/ "job" \in says)
    BY <1>2 DEF Answer
  <2>2. [id |-> r.id, says |-> says] \in Messages
    BY DEF Messages, TypeOK
  <2> QED  BY <1>1, <1>2, <2>1, <2>2 DEF Answer, PoolAnswers
<1>3. CASE Notify
  <2>1. PICK says \in Says :
          /\ PoolSays([id |-> None, says |-> says])
          /\ issued' = (issued \/ "job" \in says)
    BY <1>3 DEF Notify
  <2>2. [id |-> None, says |-> says] \in Messages
    BY DEF Messages
  <2> QED  BY <1>1, <1>3, <2>1, <2>2 DEF Notify, PoolSays
<1>4. CASE Leave
  BY <1>4 DEF Leave, PoolLeaves, TypeOK, JobIsThePools
<1> QED  BY <1>2, <1>3, <1>4

\* Every step of the probe and of the pool.
LEMMA ProbeStepKeeps == ProbeInv /\ [Next]_vars => ProbeInv'
<1> SUFFICES ASSUME ProbeInv, [Next]_vars PROVE ProbeInv'
  OBVIOUS
<1>1. CASE UNCHANGED vars
  BY <1>1 DEF vars, stratum, ProbeInv, TypeOK, JobIsThePools
<1> QED  BY <1>1, HearKeeps, ProbeMovesKeep, PoolKeeps DEF Next, ProbeNext, NextDialect, Done

\* The invariant of the probe.
LEMMA ProbeAlways == Spec => []ProbeInv
BY ProbeInitInv, ProbeStepKeeps, PTL DEF Spec

\* The probe and its connection keep their types, whatever the pool sends in whatever
\* phase (pool_client.py:124-220).
THEOREM ProbeTypeCorrect == Spec => []TypeOK
<1>1. ProbeInv => TypeOK
  BY DEF ProbeInv
<1> QED  BY <1>1, ProbeAlways, PTL

\* The verdict that the protocol is open rests on a job of the pool, however late the
\* replies come (pool_client.py:101-110, 204-220).
THEOREM OpenIsTrue == Spec => []OpenMeansJob
<1>1. ProbeInv => OpenMeansJob
  BY DEF ProbeInv, JobIsThePools, OpenMeansJob
<1> QED  BY <1>1, ProbeAlways, PTL

\* Once a gate was seen no request is sent, in any dialect (pool_client.py:178, 191, 202).
THEOREM GateEndsProbe == Spec => NothingAfterGate
<1>1. [Next]_vars => (challenge => lastId' = lastId)
  <2> SUFFICES ASSUME [Next]_vars, challenge PROVE lastId' = lastId
    OBVIOUS
  <2>1. CASE ProbeNext
    BY <2>1 DEF ProbeNext, Hear, HearWith, HearEnd, CollectOver, Deadline, TryLogin,
                TryShapes, TryNextShape, TryShapeUnless, TryNext, Settled, Judge, Yield, YieldEnd, stratum
  <2>2. CASE Answer \/ Notify \/ Leave
    BY <2>2 DEF Answer, Notify, Leave, PoolAnswers, PoolSays, PoolLeaves
  <2> QED  BY <2>1, <2>2 DEF Next, Done, vars, stratum
<1> QED  BY <1>1, PTL DEF Spec, NothingAfterGate

-----------------------------------------------------------------------------
(* The AlphaPool probe. *)

\* Each challenge answered is a message read, so ids are bounded by what was heard; the
\* three requests have ids of their own, above those of the answers.
IdsApart ==
  /\ phase = "challenge" => ids = NoIds /\ got = {} /\ nextId + Len(unread) <= heard + 1
  /\ nextId <= heard + 4
  /\ phase = "listen" => /\ ids["configure"] > 0
                         /\ ids["subscribe"] = ids["configure"] + 1
                         /\ ids["authorize"] = ids["configure"] + 2

\* What a message says the pool did.
Told(m) ==
  /\ m.kind = "job" => offered
  /\ m.kind = "reply" => m.id \in 1 .. nextId - 1 /\ (m.id = ids["authorize"] /\ m.result => granted)

\* What the probe has noted, and what it is still to read, the pool did.
NotedIsTrue ==
  /\ phase = "listen" => ("authorize" \in got => granted) /\ ("job" \in got => offered)
  /\ exit = 0 => granted /\ offered
  /\ \A i \in DOMAIN unread : Told(unread[i])

AlphaInv == AlphaTypeOK /\ IdsApart /\ NotedIsTrue

\* The probe is connected (probe_alphapool.py:45).
LEMMA AlphaInitInv == AlphaInit => AlphaInv
<1> SUFFICES ASSUME AlphaInit PROVE AlphaInv
  OBVIOUS
<1> USE AlphaAssumption DEF AlphaInit, NoIds, Running, Requests
<1>1. AlphaTypeOK
  <2>1. {nonce, open, late, waited, granted, offered} \subseteq BOOLEAN
    OBVIOUS
  <2>2. nextId \in 1 .. MaxHeard + 4 /\ heard \in 0 .. MaxHeard /\ owed \subseteq 1 .. nextId - 1
    OBVIOUS
  <2>3. unread \in Seq(Replies \cup Notices) /\ ids \in [Requests -> 0 .. nextId - 1]
    OBVIOUS
  <2>4. exit \in {Running, 0, 2, 3} /\ (phase = "ended" <=> exit # Running) /\ got \subseteq Requests \cup {"job"}
    OBVIOUS
  <2> QED  BY <2>1, <2>2, <2>3, <2>4 DEF AlphaTypeOK
<1>2. IdsApart
  BY DEF IdsApart
<1>3. NotedIsTrue
  BY DEF NotedIsTrue
<1> QED  BY <1>1, <1>2, <1>3 DEF AlphaInv

\* A message read: it is true, and so are those behind it (alphapool_client.py:135-144).
LEMMA ReceiveReads ==
  ASSUME AlphaInv, Receive
  PROVE  /\ unread' \in Seq(Replies \cup Notices) /\ Head(unread) \in Replies \cup Notices
         /\ Len(unread) \in Nat /\ Len(unread') \in Nat /\ Len(unread') + 1 = Len(unread)
         /\ \A i \in DOMAIN unread' : Told(unread'[i])
         /\ Told(Head(unread))
         /\ waited' = FALSE
<1>0. waited' = FALSE
  BY DEF Receive
<1>1. unread \in Seq(Replies \cup Notices) /\ unread # << >> /\ unread' = Tail(unread)
  BY DEF AlphaInv, AlphaTypeOK, Receive
<1>2. /\ unread' \in Seq(Replies \cup Notices) /\ Head(unread) \in Replies \cup Notices
      /\ Len(unread) \in Nat /\ Len(unread') \in Nat /\ Len(unread') + 1 = Len(unread)
      /\ \A i \in DOMAIN unread' : \E k \in DOMAIN unread : unread'[i] = unread[k]
      /\ \E k \in DOMAIN unread : Head(unread) = unread[k]
  BY <1>1, TailOfQueue
<1>3. \A k \in DOMAIN unread : Told(unread[k])
  BY DEF AlphaInv, NotedIsTrue
<1> QED  BY <1>0, <1>2, <1>3

\* The requests are sent: n ids are taken, the last three of them by the requests
\* (probe_alphapool.py:70-76).
LEMMA SendingKeeps ==
  ASSUME AlphaInv, Receive, phase = "challenge", NEW n \in {3, 4}, Send(n),
         ids' = [configure |-> nextId + n - 3, subscribe |-> nextId + n - 2,
                 authorize |-> nextId + n - 1],
         phase' = "listen", late' = FALSE,
         UNCHANGED <<nonce, open, got, exit, heard, granted, offered>>
  PROVE  AlphaInv'
<1> USE DEF AlphaInv, Send
<1>1. nextId \in Nat \ {0} /\ heard \in 0 .. MaxHeard /\ nextId + Len(unread) <= heard + 1
  BY AlphaAssumption DEF AlphaTypeOK, IdsApart
<1>2. nextId' = nextId + n /\ nextId' <= heard + 4
  BY <1>1, ReceiveReads
<1>3. ids' \in [Requests -> 0 .. nextId' - 1]
  <2>1. {nextId + n - 3, nextId + n - 2, nextId + n - 1} \subseteq 0 .. nextId' - 1
    BY <1>1, <1>2
  <2> HIDE DEF AlphaInv, Send
  <2>2. ids' = [configure |-> nextId + n - 3, subscribe |-> nextId + n - 2,
                authorize |-> nextId + n - 1]
    OBVIOUS
  <2> QED  BY <2>1, <2>2 DEF Requests
<1>4. owed' \subseteq 1 .. nextId' - 1
  BY <1>1, <1>2 DEF AlphaTypeOK
<1>5. AlphaTypeOK'
  <2>1. {nonce, open, late, waited, granted, offered}' \subseteq BOOLEAN
    BY ReceiveReads DEF AlphaTypeOK
  <2>2. nextId' \in 1 .. MaxHeard + 4 /\ heard' \in 0 .. MaxHeard
    BY <1>1, <1>2, AlphaAssumption
  <2>3. exit' \in {Running, 0, 2, 3} /\ exit' = Running /\ got' \subseteq Requests \cup {"job"}
    BY DEF AlphaTypeOK
  <2> QED  BY <1>3, <1>4, <2>1, <2>2, <2>3, ReceiveReads DEF AlphaTypeOK
<1>6. IdsApart'
  BY <1>1, <1>2 DEF IdsApart
<1>7. ASSUME NEW i \in DOMAIN unread' PROVE Told(unread[i])'
  <2>1. Told(unread'[i])
    BY ReceiveReads
  <2>2. ids'["authorize"] > nextId - 1
    BY <1>1
  <2> QED  BY <1>1, <1>2, <2>1, <2>2 DEF Told
<1>8. NotedIsTrue'
  BY <1>7, <1>1 DEF NotedIsTrue, IdsApart
<1> QED  BY <1>5, <1>6, <1>8

\* The probe stops with a traceback, or for want of a nonce: nothing was noted.
LEMMA StoppingKeeps ==
  ASSUME AlphaInv, Receive \/ UNCHANGED <<unread, waited>>,
         \/ phase' = "crashed" /\ exit' = exit
         \/ phase' = "ended" /\ exit' = 3,
         phase \in {"challenge", "listen"},
         got' \subseteq Requests \cup {"job"},
         UNCHANGED <<nonce, nextId, open, late, ids, heard, owed, granted, offered>>
  PROVE  AlphaInv'
<1> USE DEF AlphaInv
<1>1. /\ unread' \in Seq(Replies \cup Notices) /\ waited' \in BOOLEAN
      /\ \A i \in DOMAIN unread' : Told(unread'[i])
  BY ReceiveReads DEF AlphaTypeOK, NotedIsTrue
<1>2. AlphaTypeOK'
  BY <1>1 DEF AlphaTypeOK, Running
<1>3. IdsApart'
  BY DEF IdsApart
<1>4. \A i \in DOMAIN unread' : Told(unread[i])'
  BY <1>1 DEF Told
<1>5. NotedIsTrue'
  BY <1>4 DEF NotedIsTrue
<1> QED  BY <1>2, <1>3, <1>5

\* Before the requests (probe_alphapool.py:45-76).
LEMMA ChallengeKeeps == AlphaInv /\ (HearChallenge \/ HearOther) => AlphaInv'
<1>1. ASSUME AlphaInv, HearOther PROVE AlphaInv'
  <2>1. Receive /\ phase = "challenge" /\ got' \subseteq Requests \cup {"job"}
    BY <1>1 DEF HearOther, AlphaInv, AlphaTypeOK
  <2>2. CASE SendRaises
    BY <1>1, <2>1, <2>2, StoppingKeeps DEF HearOther, SendRaises
  <2>3. CASE ~SendRaises
    <3>1. /\ Send(3) /\ phase' = "listen" /\ late' = FALSE /\ exit' = exit
          /\ ids' = [configure |-> nextId, subscribe |-> nextId + 1, authorize |-> nextId + 2]
      BY <1>1, <2>3 DEF HearOther, StartListening
    <3>2. nextId + 3 - 3 = nextId /\ nextId + 3 - 2 = nextId + 1 /\ nextId + 3 - 1 = nextId + 2
      BY <1>1, AlphaAssumption DEF AlphaInv, AlphaTypeOK
    <3> QED  BY <1>1, <2>1, <3>1, <3>2, SendingKeeps DEF HearOther
  <2> QED  BY <2>2, <2>3
<1>2. ASSUME AlphaInv, HearChallenge PROVE AlphaInv'
  <2> USE <1>2 DEF HearChallenge
  <2>1. Receive /\ phase = "challenge" /\ got' \subseteq Requests \cup {"job"}
    BY DEF AlphaInv, AlphaTypeOK
  <2>2. CASE ~nonce
    BY <2>1, <2>2, StoppingKeeps
  <2>3. CASE nonce /\ SendRaises
    BY <2>1, <2>3, StoppingKeeps DEF SendRaises
  <2>4. CASE nonce /\ ~late /\ Send(1) /\ UNCHANGED <<phase, late, ids, exit>>
    <3> USE DEF AlphaInv, Send
    <3>1. /\ nextId \in Nat \ {0} /\ heard \in 0 .. MaxHeard /\ nextId + Len(unread) <= heard + 1
          /\ ids = NoIds /\ nextId' = nextId + 1
      BY <2>1, <2>4, AlphaAssumption DEF AlphaTypeOK, IdsApart
    <3>2. IdsApart'
      <4>1. nextId' + Len(unread') <= heard' + 1 /\ nextId' <= heard' + 4
        BY <2>1, <3>1, ReceiveReads
      <4>2. phase' = "challenge" /\ ids' = NoIds /\ got' = {}
        BY <2>1, <2>4, <3>1 DEF IdsApart
      <4> QED  BY <4>1, <4>2 DEF IdsApart
    <3>3. ids' \in [Requests -> 0 .. nextId' - 1] /\ owed' \subseteq 1 .. nextId' - 1
      BY <2>4, <3>1 DEF AlphaTypeOK, NoIds
    <3>4. AlphaTypeOK'
      <4>1. {nonce, open, late, waited, granted, offered}' \subseteq BOOLEAN
        BY <2>1, <2>4, ReceiveReads DEF AlphaTypeOK
      <4>2. nextId' \in 1 .. MaxHeard + 4 /\ heard' \in 0 .. MaxHeard
        BY <3>1, <3>2, AlphaAssumption DEF IdsApart
      <4>3. exit' \in {Running, 0, 2, 3} /\ phase' = phase /\ (phase' = "ended" <=> exit' # Running)
        BY <2>4 DEF AlphaTypeOK
      <4>4. phase' \in {"challenge", "listen", "ended", "crashed"} /\ got' \subseteq Requests \cup {"job"}
        BY <2>1, <2>4 DEF AlphaTypeOK
      <4> QED  BY <2>1, <3>3, <4>1, <4>2, <4>3, <4>4, ReceiveReads DEF AlphaTypeOK
    <3>5. \A i \in DOMAIN unread' : Told(unread[i])'
      BY <2>1, <2>4, <3>1, ReceiveReads DEF Told, NoIds, Requests
    <3>6. NotedIsTrue'
      BY <2>1, <2>4, <3>5 DEF NotedIsTrue
    <3> QED  BY <3>2, <3>4, <3>6
  <2>5. CASE /\ nonce /\ late /\ Send(4) /\ phase' = "listen" /\ late' = FALSE /\ exit' = exit
             /\ ids' = [configure |-> nextId + 1, subscribe |-> nextId + 2, authorize |-> nextId + 3]
    <3>1. nextId + 4 - 3 = nextId + 1 /\ nextId + 4 - 2 = nextId + 2 /\ nextId + 4 - 1 = nextId + 3
      BY AlphaAssumption DEF AlphaInv, AlphaTypeOK
    <3> QED  BY <2>1, <2>5, <3>1, SendingKeeps
  <2> QED  BY <2>2, <2>3, <2>4, <2>5
<1> QED  BY <1>1, <1>2

\* A message noted while listening is true: the reply to the authorize is told from the
\* others by its id (probe_alphapool.py:79-102).
LEMMA NoteIsTrue ==
  ASSUME AlphaInv, phase = "listen", NEW m \in Replies \cup Notices, Told(m)
  PROVE  /\ Note(m) \subseteq Requests \cup {"job"}
         /\ "authorize" \in Note(m) => granted
         /\ m.kind # "malformed job" => ("job" \in Note(m) => offered)
<1>1. /\ got \subseteq Requests \cup {"job"}
      /\ "authorize" \in got => granted
      /\ "job" \in got => offered
  BY DEF AlphaInv, AlphaTypeOK, NotedIsTrue
<1>2. CASE m.kind = "reply"
  <2> DEFINE asked == {r \in Requests : ids[r] = m.id}
  <2>1. m.result \in BOOLEAN
    BY <1>2 DEF Replies, Notices
  <2>2. ids["authorize"] = m.id => asked = {"authorize"}
    BY DEF AlphaInv, AlphaTypeOK, IdsApart, Requests
  <2>3. Note(m) = IF asked = {"authorize"} /\ ~m.result THEN got \ asked ELSE got \cup asked
    BY <1>2 DEF Note
  <2>4. asked \subseteq Requests /\ "job" \notin asked
    BY DEF Requests
  <2>5. ASSUME "authorize" \in Note(m) PROVE granted
    <3>1. CASE "authorize" \in asked
      <4>1. ids["authorize"] = m.id /\ asked = {"authorize"}
        BY <2>2, <3>1
      <4>2. m.result
        BY <2>3, <2>5, <4>1
      <4> QED  BY <1>2, <4>1, <4>2 DEF Told
    <3>2. CASE "authorize" \notin asked
      <4>1. "authorize" \in got
        BY <2>3, <2>5, <3>2
      <4> QED  BY <1>1, <4>1
    <3> QED  BY <3>1, <3>2
  <2>6. "job" \in Note(m) => "job" \in got
    BY <2>3, <2>4
  <2>7. Note(m) \subseteq Requests \cup {"job"}
    BY <1>1, <2>3, <2>4
  <2> QED  BY <1>1, <2>5, <2>6, <2>7
<1>3. CASE m.kind \in {"job", "malformed job"}
  <2>1. Note(m) = got \cup {"job"}
    BY <1>3 DEF Note
  <2>2. m.kind # "malformed job" => offered
    BY <1>3 DEF Told
  <2> QED  BY <1>1, <2>1, <2>2
<1>4. CASE m.kind \notin {"reply", "job", "malformed job"}
  <2>1. Note(m) = got
    BY <1>4 DEF Note
  <2> QED  BY <1>1, <2>1
<1> QED  BY <1>2, <1>3, <1>4

\* A turn of the second loop (probe_alphapool.py:77-117).
LEMMA ListenKeeps == AlphaInv /\ Listen => AlphaInv'
<1> SUFFICES ASSUME AlphaInv, Listen PROVE AlphaInv'
  OBVIOUS
<1> DEFINE m == Head(unread)
<1>1. Receive /\ phase = "listen" /\ got' = Note(m) /\ m \in Replies \cup Notices /\ Told(m)
  BY ReceiveReads DEF Listen
<1>2. /\ got' \subseteq Requests \cup {"job"}
      /\ "authorize" \in got' => granted
      /\ m.kind # "malformed job" => ("job" \in got' => offered)
  BY <1>1, NoteIsTrue
<1>3. UNCHANGED <<nonce, nextId, open, late, ids, heard, owed, granted, offered>>
  BY DEF Listen
<1>4. CASE m.kind = "malformed job"
  <2>1. phase' = "crashed" /\ exit' = exit
    BY <1>4 DEF Listen
  <2> QED  BY <1>1, <1>2, <1>3, <2>1, StoppingKeeps
<1>5. CASE m.kind # "malformed job"
  <2>1. \/ phase' = phase /\ exit' = exit
        \/ phase' = "ended" /\ exit' \in {0, 2} /\ (exit' = 0 => {"job", "authorize"} \subseteq got')
    <3>1. CASE "job" \in got' \/ late
      <4>1. phase' = "ended" /\ exit' = IF {"job", "authorize"} \subseteq got' THEN 0 ELSE 2
        BY <1>5, <3>1, Zenon DEF Listen
      <4> QED  BY <4>1
    <3>2. CASE ~("job" \in got' \/ late)
      BY <1>5, <3>2 DEF Listen
    <3> QED  BY <3>1, <3>2
  <2>2. exit = Running
    BY <1>1 DEF AlphaInv, AlphaTypeOK
  <2>3. AlphaTypeOK'
    <3>1. {nonce, open, late, waited, granted, offered}' \subseteq BOOLEAN
      BY <1>1, <1>3, ReceiveReads DEF AlphaInv, AlphaTypeOK
    <3>2. /\ nextId' \in 1 .. MaxHeard + 4 /\ heard' \in 0 .. MaxHeard
          /\ ids' \in [Requests -> 0 .. nextId' - 1] /\ owed' \subseteq 1 .. nextId' - 1
      BY <1>3 DEF AlphaInv, AlphaTypeOK
    <3>3. /\ exit' \in {Running, 0, 2, 3} /\ (phase' = "ended" <=> exit' # Running)
          /\ phase' \in {"challenge", "listen", "ended", "crashed"}
      BY <1>1, <2>1, <2>2 DEF Running
    <3> QED  BY <1>1, <1>2, <3>1, <3>2, <3>3, ReceiveReads DEF AlphaTypeOK
  <2>4. IdsApart'
    BY <1>1, <1>3, <2>1 DEF AlphaInv, IdsApart
  <2>5. \A i \in DOMAIN unread' : Told(unread[i])'
    BY <1>1, <1>3, ReceiveReads DEF Told
  <2>6. NotedIsTrue'
    <3>1. ("authorize" \in got' => granted') /\ ("job" \in got' => offered')
      BY <1>2, <1>3, <1>5
    <3>2. exit' = 0 => {"job", "authorize"} \subseteq got'
      BY <2>1, <2>2 DEF Running
    <3> QED  BY <2>5, <3>1, <3>2 DEF NotedIsTrue
  <2> QED  BY <2>3, <2>4, <2>6 DEF AlphaInv
<1> QED  BY <1>4, <1>5

\* Time, and what the pool sends.
LEMMA AroundKeeps ==
  AlphaInv /\ (TimePasses \/ ReceiveWaits \/ PoolReplies \/ PoolNotifies \/ PoolCloses \/ PoolDrips)
    => AlphaInv'
<1> SUFFICES ASSUME AlphaInv,
                    TimePasses \/ ReceiveWaits \/ PoolReplies \/ PoolNotifies \/ PoolCloses \/ PoolDrips
             PROVE  AlphaInv'
  OBVIOUS
<1> USE DEF AlphaInv
<1>1. CASE TimePasses \/ ReceiveWaits \/ PoolCloses \/ PoolDrips
  <2>1. AlphaTypeOK' /\ IdsApart'
    BY <1>1 DEF TimePasses, ReceiveWaits, PoolCloses, PoolDrips, AlphaTypeOK, IdsApart
  <2>2. NotedIsTrue'
    BY <1>1 DEF TimePasses, ReceiveWaits, PoolCloses, PoolDrips, NotedIsTrue, Told
  <2> QED  BY <2>1, <2>2
<1>2. ASSUME NEW m \in Replies \cup Notices, Told(m)', unread' = Append(unread, m),
             heard < MaxHeard, heard' = heard + 1, owed' \subseteq owed,
             granted => granted', granted' \in BOOLEAN,
             offered => offered', offered' \in BOOLEAN,
             UNCHANGED <<nonce, nextId, open, phase, late, waited, ids, got, exit>>
      PROVE  AlphaInv'
  <2>1. unread \in Seq(Replies \cup Notices) /\ heard \in 0 .. MaxHeard /\ nextId \in Nat
    BY AlphaAssumption DEF AlphaTypeOK
  <2>2. /\ unread' \in Seq(Replies \cup Notices)
        /\ Len(unread) \in Nat /\ Len(unread') = Len(unread) + 1
        /\ \A i \in DOMAIN unread' : unread'[i] = m \/ \E k \in DOMAIN unread : unread'[i] = unread[k]
    BY <1>2, <2>1, AppendToQueue
  <2>3. heard' \in 0 .. MaxHeard
    BY <1>2, <2>1, AlphaAssumption
  <2>4. AlphaTypeOK'
    BY <1>2, <2>2, <2>3 DEF AlphaTypeOK
  <2>5. IdsApart'
    BY <1>2, <2>1, <2>2 DEF IdsApart
  <2>6. NotedIsTrue'
    BY <1>2, <2>2 DEF NotedIsTrue, Told
  <2> QED  BY <2>4, <2>5, <2>6
<1>3. CASE PoolReplies
  <2>1. PICK id \in owed, result \in BOOLEAN :
          /\ unread' = Append(unread, [kind |-> "reply", id |-> id, result |-> result])
          /\ owed' = owed \ {id}
          /\ granted' = (granted \/ (result /\ id = ids["authorize"]))
    BY <1>3 DEF PoolReplies
  <2> DEFINE m == [kind |-> "reply", id |-> id, result |-> result]
  <2>2. id \in 1 .. nextId - 1 /\ nextId' = nextId /\ ids' = ids
    BY <1>3 DEF PoolReplies, AlphaTypeOK
  <2>3. m \in Replies \cup Notices /\ Told(m)'
    BY <2>1, <2>2 DEF Replies, Told
  <2>4. granted' \in BOOLEAN /\ (granted => granted') /\ offered' \in BOOLEAN /\ (offered => offered')
    BY <1>3, <2>1 DEF PoolReplies, AlphaTypeOK
  <2>5. /\ heard < MaxHeard /\ heard' = heard + 1
        /\ UNCHANGED <<nonce, nextId, open, phase, late, waited, ids, got, exit>>
    BY <1>3 DEF PoolReplies
  <2> QED  BY <1>2, <2>1, <2>3, <2>4, <2>5
<1>4. CASE PoolNotifies
  <2>1. PICK m \in Notices : /\ unread' = Append(unread, m)
                             /\ offered' = (offered \/ m.kind = "job")
    BY <1>4 DEF PoolNotifies
  <2>2. m \in Replies \cup Notices /\ Told(m)'
    BY <2>1 DEF Notices, Told
  <2>3. granted' = granted /\ granted \in BOOLEAN /\ offered' \in BOOLEAN /\ (offered => offered')
    BY <1>4, <2>1 DEF PoolNotifies, AlphaTypeOK
  <2>4. /\ heard < MaxHeard /\ heard' = heard + 1 /\ owed' \subseteq owed
        /\ UNCHANGED <<nonce, nextId, open, phase, late, waited, ids, got, exit>>
    BY <1>4 DEF PoolNotifies
  <2> QED  BY <1>2, <2>1, <2>2, <2>3, <2>4
<1> QED  BY <1>1, <1>3, <1>4

\* Every step of the probe, of the clock and of the pool.
LEMMA AlphaStepKeeps == AlphaInv /\ [AlphaNext]_alphaVars => AlphaInv'
<1> SUFFICES ASSUME AlphaInv, [AlphaNext]_alphaVars PROVE AlphaInv'
  OBVIOUS
<1>1. CASE UNCHANGED alphaVars
  <2>1. AlphaTypeOK' /\ IdsApart'
    BY <1>1 DEF alphaVars, AlphaInv, AlphaTypeOK, IdsApart
  <2>2. NotedIsTrue'
    BY <1>1 DEF alphaVars, AlphaInv, NotedIsTrue, Told
  <2> QED  BY <2>1, <2>2 DEF AlphaInv
<1>2. CASE phase \in {"challenge", "listen"} /\ ReceiveRaises
  <2>1. got \subseteq Requests \cup {"job"}
    BY DEF AlphaInv, AlphaTypeOK
  <2> QED  BY <1>2, <2>1, StoppingKeeps DEF ReceiveRaises, RaisesIf
<1> QED
  BY <1>1, <1>2, ChallengeKeeps, ListenKeeps, AroundKeeps DEF AlphaNext, ProbeStep, AlphaDone

\* The invariant of the probe.
LEMMA AlphaAlways == AlphaSpec => []AlphaInv
BY AlphaInitInv, AlphaStepKeeps, PTL DEF AlphaSpec

\* The probe keeps its types, and its ids never run ahead of the messages it has read by
\* more than the three requests (alphapool_client.py:119-144).
THEOREM AlphaTypeCorrect == AlphaSpec => []AlphaTypeOK
<1>1. AlphaInv => AlphaTypeOK
  BY DEF AlphaInv
<1> QED  BY <1>1, AlphaAlways, PTL

\* "ready_for_submit" rests on a granted authorize and a job, however many challenges
\* shift the ids and however late the replies come (probe_alphapool.py:79-107).
THEOREM ReadyIsTrue == AlphaSpec => []ReadyIsGranted
<1>1. AlphaInv => ReadyIsGranted
  BY DEF AlphaInv, NotedIsTrue, ReadyIsGranted
<1> QED  BY <1>1, AlphaAlways, PTL

-----------------------------------------------------------------------------
(* Both programs. *)

\* Whichever of the probes runs, both keep their types: ProbesSpec, which the runs check,
\* takes only steps of the two specifications above.
THEOREM ProbesTypes == ProbesSpec => []ProbesTypeOK
<1>1. ProbesInit => ProbeInv /\ AlphaInv
  BY ProbeInitInv, AlphaInitInv DEF ProbesInit
<1>2. (ProbeInv /\ AlphaInv) /\ [ProbesNext]_probesVars => (ProbeInv /\ AlphaInv)'
  <2> SUFFICES ASSUME ProbeInv, AlphaInv, [ProbesNext]_probesVars PROVE ProbeInv' /\ AlphaInv'
    OBVIOUS
  <2>1. [Next]_vars /\ [AlphaNext]_alphaVars
    BY DEF ProbesNext, RunsPool, RunsAlpha, probesVars
  <2> QED  BY <2>1, ProbeStepKeeps, AlphaStepKeeps
<1>3. ProbeInv /\ AlphaInv => ProbesTypeOK
  BY DEF ProbeInv, AlphaInv, ProbesTypeOK
<1> QED  BY <1>1, <1>2, <1>3, PTL DEF ProbesSpec
=============================================================================
