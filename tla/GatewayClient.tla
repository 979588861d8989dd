---------------------------- MODULE GatewayClient ----------------------------
(***************************************************************************)
(* The miner's connection to the gateway (miner/gateway_client.py): line-   *)
(* delimited JSON-RPC over one TCP or Unix socket, one request at a time,   *)
(* a counter that numbers the requests, and a socket with a timeout.        *)
(*                                                                          *)
(* The socket is opened once, by __enter__, and nothing in the client       *)
(* closes it or empties its buffer when a call fails: an answer that comes  *)
(* after its call has timed out stays in the stream.  The two directions    *)
(* are FIFO sequences of messages; text is left out, and of framing what     *)
(* the timeout sees: it is the socket's, so it measures the wait for the    *)
(* next piece of a line and starts again with each one that comes.          *)
(***************************************************************************)
EXTENDS Integers, Sequences

CONSTANTS
  Headers,   \* the block headers the node may ask the miner to work on
  None       \* Python's None: no header, no reading

ASSUME NoneAssumption == None \notin Headers

VARIABLES
  lastId,    \* GatewayClient._id: the id of the latest request
  requests,  \* requests on their way to the gateway
  answers,   \* answers on their way back, client._buf included
  closed,    \* the gateway has closed the connection
  waited     \* the recv under way has waited for the whole of the timeout

link == <<lastId, requests, answers, closed, waited>>

Methods == {"getMiningInfo", "submitPlainProof"}

\* "paused" is the JSON-RPC error -32001, "error" every other error, a job that
\* MiningJob.from_dict refuses, and a submit result other than "submitted".
Kinds == {"job", "paused", "submitted", "error"}

Request == [id : Nat, method : Methods, header : Headers \cup {None}]
Answer  == {a \in [id : Nat, kind : Kinds, header : Headers \cup {None}] :
             a.kind = "job" <=> a.header # None}

LinkTypeOK ==
  /\ lastId \in Nat
  /\ requests \in Seq(Request)
  /\ answers \in Seq(Answer)
  /\ closed \in BOOLEAN
  /\ waited \in BOOLEAN

LinkInit ==
  /\ lastId = 0
  /\ requests = << >>
  /\ answers = << >>
  /\ closed = FALSE
  /\ waited = FALSE

-----------------------------------------------------------------------------
(* The client's half of _call. *)

\* _call: take the next id and write the request.
Send(method, header) ==
  /\ lastId' = lastId + 1
  /\ requests' = IF closed THEN requests
                 ELSE Append(requests, [id |-> lastId + 1, method |-> method, header |-> header])
  /\ waited' = FALSE
  /\ UNCHANGED <<answers, closed>>

\* _read_line: take one line off the buffer.
TakeAnswer ==
  /\ answers # << >>
  /\ answers' = Tail(answers)
  /\ waited' = FALSE
  /\ UNCHANGED <<lastId, requests, closed>>

\* _call accepts a line only when it carries the id of the request just sent.
Matches == Head(answers).id = lastId

\* _call takes the answer of the request it sent.
Receive(kind) == TakeAnswer /\ Matches /\ Head(answers).kind = kind

\* _call raises GatewayError: the line answers another request.
ReceiveMismatched == TakeAnswer /\ ~Matches

\* recv finds nothing, and the timeout goes by.
RecvWaits ==
  /\ answers = << >> /\ ~closed
  /\ ~waited
  /\ waited' = TRUE
  /\ UNCHANGED <<lastId, requests, answers, closed>>

FailsIf(due) ==
  /\ closed \/ due
  /\ waited' = FALSE
  /\ UNCHANGED <<lastId, requests, answers, closed>>

\* (mutant) A socket without a timeout: a call fails only when the link is gone.
LinkFailsWithoutTimeout == FailsIf(FALSE)

\* _call raises OSError or GatewayError: nothing at all within the timeout, or the
\* connection is gone (sendall fails, or recv returns nothing).
LinkFails == FailsIf(answers = << >> /\ waited)

-----------------------------------------------------------------------------
(* The gateway's half. *)

\* The handler's loop body: one request is read, one answer is written.
Reply(kind, header) ==
  /\ requests # << >>
  /\ ~closed
  /\ requests' = Tail(requests)
  /\ answers' = Append(answers, [id |-> Head(requests).id, kind |-> kind, header |-> header])
  /\ UNCHANGED <<lastId, closed, waited>>

\* A piece of an answer comes, without the end of its line: _read_line keeps it and
\* calls recv again, with the timeout from the start.
Drip ==
  /\ requests # << >> /\ answers = << >>
  /\ waited
  /\ waited' = FALSE
  /\ UNCHANGED <<lastId, requests, answers, closed>>

\* The gateway goes away (restart, crash): what it had not read is lost, and so
\* are any of the last answers it wrote.
CloseLink ==
  /\ ~closed
  /\ closed' = TRUE
  /\ requests' = << >>
  /\ \E n \in 0..Len(answers) : answers' = SubSeq(answers, 1, n)
  /\ UNCHANGED <<lastId, waited>>

-----------------------------------------------------------------------------
(* The order of messages on the connection. *)

\* Nothing is on its way.
Quiet == requests = << >> /\ answers = << >>

\* The ids on the connection rise from the oldest answer to the newest request
\* and none is above the latest id taken: an answer with that id is the last
\* message there is.
InOrder ==
  /\ \A i \in 1..Len(answers) : answers[i].id <= lastId
  /\ \A i \in 1..Len(requests) : requests[i].id <= lastId
  /\ \A i, j \in 1..Len(answers) : i < j => answers[i].id < answers[j].id
  /\ \A i, j \in 1..Len(requests) : i < j => requests[i].id < requests[j].id
  /\ \A i \in 1..Len(answers), j \in 1..Len(requests) : answers[i].id < requests[j].id
=============================================================================
