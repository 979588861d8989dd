------------------------------ MODULE AlphaProbe ------------------------------
(***************************************************************************)
(* scripts/probe_alphapool.py over AlphaPoolStratumClient: read until the   *)
(* pool says something other than a challenge, send configure, subscribe    *)
(* and authorize, and read until a job or the deadline.  Unlike the client  *)
(* of pool_client.py this one blocks in recv and raises, and nobody catches *)
(* it: a timeout and a lost connection both end the probe with a traceback. *)
(* The timeout is the socket's, and starts again with each piece of a line. *)
(***************************************************************************)
EXTENDS Integers, Sequences

CONSTANTS MaxHeard   \* bound: messages the pool sends

ASSUME AlphaAssumption == MaxHeard \in Nat

VARIABLES
  nonce,     \* --challenge-nonce is given
  nextId,    \* AlphaPoolStratumClient._next_id
  unread,    \* what the pool has sent: in the socket, or in _rx
  open,      \* the pool has not closed the connection
  phase,     \* "challenge" or "listen", blocked in recv; "ended" or "crashed"
  late,      \* the deadline of this phase has passed
  waited,    \* the socket's recv under way has waited for the whole of its timeout
  ids,       \* [configure, subscribe, authorize], once sent
  got,       \* the keys of got that are true
  exit,      \* the exit code, once ended
  heard,     \* messages sent by the pool: bound counter
  owed,      \* the pool's: ids of the requests it has not answered
  granted,   \* history: the pool granted an authorize
  offered    \* history: the pool sent a job

alphaVars == <<nonce, nextId, unread, open, phase, late, waited, ids, got, exit,
               heard, owed, granted, offered>>

Running == -1
Requests == {"configure", "subscribe", "authorize"}
NoIds == [r \in Requests |-> 0]

\* A reply has the id of its request; a notification has none.  The parameters and
\* the difficulty are only noted, and are among the others.
Replies == [kind : {"reply"}, id : Nat, result : BOOLEAN]
Notices == [kind : {"challenge", "job", "malformed job", "other"}]

AlphaTypeOK ==
  /\ {nonce, open, late, waited, granted, offered} \subseteq BOOLEAN
  /\ nextId \in 1 .. MaxHeard + 4
  /\ unread \in Seq(Replies \cup Notices)
  /\ phase \in {"challenge", "listen", "ended", "crashed"}
  /\ ids \in [Requests -> 0 .. nextId - 1]
  /\ got \subseteq Requests \cup {"job"}
  /\ exit \in {Running, 0, 2, 3}
  /\ phase = "ended" <=> exit # Running
  /\ heard \in 0 .. MaxHeard
  /\ owed \subseteq 1 .. nextId - 1

\* Connected, and past the first test of the deadline.
AlphaInit ==
  /\ nonce \in BOOLEAN
  /\ nextId = 1
  /\ unread = << >>
  /\ open = TRUE
  /\ phase = "challenge"
  /\ late = FALSE /\ waited = FALSE
  /\ ids = NoIds
  /\ got = {}
  /\ exit = Running
  /\ heard = 0
  /\ owed = {}
  /\ granted = FALSE /\ offered = FALSE

-----------------------------------------------------------------------------
(* The connection. *)

\* recv returns a message.
Receive == unread # << >> /\ unread' = Tail(unread) /\ waited' = FALSE

\* The socket has nothing for the whole of its timeout.  That is as long as the phase and
\* starts no earlier, so the deadline has passed by then.
ReceiveWaits ==
  /\ unread = << >> /\ open
  /\ late /\ ~waited
  /\ waited' = TRUE
  /\ UNCHANGED <<nonce, nextId, unread, open, phase, late, ids, got, exit, heard, owed,
                 granted, offered>>

RaisesIf(due) ==
  /\ unread = << >>
  /\ ~open \/ due
  /\ phase' = "crashed"
  /\ UNCHANGED <<nonce, nextId, unread, open, late, waited, ids, got, exit, heard, owed,
                 granted, offered>>

\* Mutant: the socket has no timeout.
ReceiveForever == RaisesIf(FALSE)

\* recv raises: the stream has ended, or the socket's timeout ran out.
ReceiveRaises == RaisesIf(waited)

\* Mutant: the counter is moved once for the three requests.
SendOnce(n) ==
  /\ nextId' = nextId + 1
  /\ owed' = IF open THEN owed \cup {nextId} ELSE owed

\* send, n times in a row: each takes an id and writes the request.  sendall raises
\* when the pool has gone, or (the first time) may not have noticed.
Send(n) ==
  /\ nextId' = nextId + n
  /\ owed' = IF open THEN owed \cup nextId .. nextId + n - 1 ELSE owed

SendRaises ==
  /\ ~open
  /\ phase' = "crashed"
  /\ UNCHANGED <<nextId, late, ids, exit, owed>>

-----------------------------------------------------------------------------
(* main *)

\* configure, subscribe, authorize; then a new deadline.
StartListening ==
  \/ /\ Send(3)
     /\ ids' = [configure |-> nextId, subscribe |-> nextId + 1, authorize |-> nextId + 2]
     /\ phase' = "listen"
     /\ late' = FALSE
     /\ UNCHANGED exit
  \/ SendRaises

\* A challenge is fatal without a nonce, else answered; the deadline is tested again.
HearChallenge ==
  /\ phase = "challenge"
  /\ Receive
  /\ Head(unread).kind = "challenge"
  /\ \/ /\ ~nonce
        /\ phase' = "ended" /\ exit' = 3
        /\ UNCHANGED <<nextId, late, ids, owed>>
     \/ /\ nonce /\ ~late
        /\ Send(1)
        /\ UNCHANGED <<phase, late, ids, exit>>
     \/ /\ nonce /\ late
        /\ Send(4)
        /\ ids' = [configure |-> nextId + 1, subscribe |-> nextId + 2,
                   authorize |-> nextId + 3]
        /\ phase' = "listen"
        /\ late' = FALSE
        /\ UNCHANGED exit
     \/ nonce /\ SendRaises
  /\ UNCHANGED <<nonce, open, got, heard, granted, offered>>

\* Whatever else comes first is printed, and lost: a job or a difficulty too.
HearOther ==
  /\ phase = "challenge"
  /\ Receive
  /\ Head(unread).kind # "challenge"
  /\ StartListening
  /\ UNCHANGED <<nonce, open, got, heard, granted, offered>>

\* Mutant: the reply is noted, not what it says.
NoteReply(m) ==
  CASE m.kind = "reply" -> got \cup {r \in Requests : ids[r] = m.id}
    [] m.kind \in {"job", "malformed job"} -> got \cup {"job"}
    [] OTHER -> got

\* got after message m: a reply goes by its id; the last authorize reply counts.
Note(m) ==
  CASE m.kind = "reply" ->
         LET asked == {r \in Requests : ids[r] = m.id}
         IN  IF asked = {"authorize"} /\ ~m.result THEN got \ asked ELSE got \cup asked
    [] m.kind \in {"job", "malformed job"} -> got \cup {"job"}
    [] OTHER -> got

\* One turn of the second loop.  A job of a wrong shape raises; a job, or a late
\* message, ends the loop and gives the verdict.
Listen ==
  /\ phase = "listen"
  /\ Receive
  /\ got' = Note(Head(unread))
  /\ CASE Head(unread).kind = "malformed job" -> phase' = "crashed" /\ UNCHANGED exit
       [] Head(unread).kind # "malformed job" /\ ("job" \in got' \/ late) ->
            /\ phase' = "ended"
            /\ exit' = IF {"job", "authorize"} \subseteq got' THEN 0 ELSE 2
       [] OTHER -> UNCHANGED <<phase, exit>>
  /\ UNCHANGED <<nonce, nextId, open, late, ids, heard, owed, granted, offered>>

ProbeStep ==
  \/ HearChallenge
  \/ HearOther
  \/ Listen
  \/ phase \in {"challenge", "listen"} /\ (ReceiveWaits \/ ReceiveRaises)

-----------------------------------------------------------------------------
(* Time, and the pool. *)

Pending == phase \in {"challenge", "listen"}

TimePasses ==
  /\ Pending
  /\ ~late
  /\ late' = TRUE
  /\ UNCHANGED <<nonce, nextId, unread, open, phase, waited, ids, got, exit, heard, owed,
                 granted, offered>>

PoolReplies ==
  /\ Pending /\ open /\ heard < MaxHeard
  /\ heard' = heard + 1
  /\ \E id \in owed, result \in BOOLEAN :
       /\ unread' = Append(unread, [kind |-> "reply", id |-> id, result |-> result])
       /\ owed' = owed \ {id}
       /\ granted' = (granted \/ (result /\ id = ids["authorize"]))
  /\ UNCHANGED <<nonce, nextId, open, phase, late, waited, ids, got, exit, offered>>

PoolNotifies ==
  /\ Pending /\ open /\ heard < MaxHeard
  /\ heard' = heard + 1
  /\ \E m \in Notices : /\ unread' = Append(unread, m)
                        /\ offered' = (offered \/ m.kind = "job")
  /\ UNCHANGED <<nonce, nextId, open, phase, late, waited, ids, got, exit, owed, granted>>

PoolCloses ==
  /\ Pending /\ open
  /\ open' = FALSE
  /\ owed' = {}
  /\ UNCHANGED <<nonce, nextId, unread, phase, late, waited, ids, got, exit, heard,
                 granted, offered>>

\* A piece of a line: recv keeps it in _rx and asks the socket again, for a whole
\* timeout more (alphapool_client.py:138-142).
PoolDrips ==
  /\ Pending /\ open
  /\ unread = << >>
  /\ waited
  /\ waited' = FALSE
  /\ UNCHANGED <<nonce, nextId, unread, open, phase, late, ids, got, exit, heard, owed,
                 granted, offered>>

AlphaDone == ~Pending /\ UNCHANGED alphaVars

AlphaNext == ProbeStep \/ TimePasses \/ PoolReplies \/ PoolNotifies \/ PoolCloses \/ PoolDrips \/ AlphaDone

\* The process runs, and the deadline and the socket's timeout go by; the pool need not do anything.
AlphaSpec == AlphaInit /\ [][AlphaNext]_alphaVars /\ WF_alphaVars(ProbeStep) /\ WF_alphaVars(TimePasses)

-----------------------------------------------------------------------------

\* "ready_for_submit" rests on a job the pool sent and an authorize it granted, not on
\* its answer to a challenge or to another request (probe_alphapool.py:107).
ReadyIsGranted == exit = 0 => granted /\ offered

\* The probe ends, however silent or talkative the pool, unless it sends pieces of a line
\* without end: recv has no deadline of its own (alphapool_client.py:138-142).
AlphaEnds == <>[][~PoolDrips]_alphaVars => <>(~Pending)
=============================================================================
