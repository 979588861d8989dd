---------------------------- MODULE StratumClient ----------------------------
(***************************************************************************)
(* The Stratum connection to a pool (StratumClient of miner/pool_client.py) *)
(* used by the LuckyPool miner and by the probe: a counter that numbers the *)
(* requests, and a stream of messages read until a deadline.  The pool      *)
(* answers in the order it likes and sends notifications of its own, so     *)
(* nothing ties a message read to the request sent last.                    *)
(***************************************************************************)
EXTENDS Integers, Sequences, FiniteSets

VARIABLES
  lastId,   \* StratumClient._id
  pending,  \* requests the pool has not answered
  inbox,    \* messages not yet yielded: in the socket, or in StratumClient._rx
  line      \* the connection: "open", "closed" by the pool, "broken" (recv fails)

stratum == <<lastId, pending, inbox, line>>

\* connect: a fresh connection.
StratumInit ==
  /\ lastId = 0
  /\ pending = {}
  /\ inbox = << >>
  /\ line = "open"

\* send: take an id and write the request; a pool that has gone never reads it.
SendRequest(request) ==
  /\ lastId' = lastId + 1
  /\ pending' = IF line = "open" THEN pending \cup {[request EXCEPT !.id = lastId + 1]}
                ELSE pending
  /\ UNCHANGED <<inbox, line>>

\* send raises: sendall finds the connection gone, or the pool reads nothing until
\* its timeout.  (The first send after the pool has closed its end may succeed.)
SendFails == UNCHANGED stratum

\* messages yields the next message.
Yield ==
  /\ inbox # << >>
  /\ inbox' = Tail(inbox)
  /\ UNCHANGED <<lastId, pending, line>>

\* messages yields {"_closed"} or {"_error"} and ends.
YieldEnd == inbox = << >> /\ line # "open" /\ UNCHANGED stratum

-----------------------------------------------------------------------------
(* The pool's half. *)

\* An answer to one of the requests, with what the answer says.
PoolAnswers(request, message) ==
  /\ request \in pending
  /\ pending' = pending \ {request}
  /\ inbox' = Append(inbox, message)
  /\ UNCHANGED <<lastId, line>>

\* A message of the pool's own.
PoolSays(message) ==
  /\ line = "open"
  /\ inbox' = Append(inbox, message)
  /\ UNCHANGED <<lastId, pending, line>>

\* The pool closes the connection, or it breaks and unread messages are lost.
PoolLeaves ==
  /\ line = "open"
  /\ line' \in {"closed", "broken"}
  /\ inbox' = IF line' = "broken" THEN << >> ELSE inbox
  /\ pending' = {}
  /\ UNCHANGED lastId
=============================================================================
