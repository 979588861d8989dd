------------------------------- MODULE Gateway -------------------------------
(***************************************************************************)
(* The gateway as the miner sees it.  src/ holds its in-process stand-in    *)
(* (miner/mock_gateway.py): one handler thread per connection that answers  *)
(* the requests in order, the current header, and the count of submissions  *)
(* that were for the current header or for a header it has left.            *)
(*                                                                          *)
(* The real gateway's header changes when the node finds a new tip, which   *)
(* no request causes (NewTip).  The stand-in's own rule, a new header every *)
(* rotate_after requests, is in module SelfTest.                            *)
(***************************************************************************)
EXTENDS GatewayClient

VARIABLES
  gwHeader,  \* the header the gateway's template has now
  served,    \* history: the header of its latest getMiningInfo answer, if a job
  seen       \* submissions it has processed: kept for the current header, dropped as stale

gateway == <<gwHeader, served, seen>>

GatewayTypeOK ==
  /\ gwHeader \in Headers
  /\ served \in Headers \cup {None}
  /\ seen \in [kept : Nat, dropped : Nat]

GatewayInit ==
  /\ gwHeader \in Headers
  /\ served = None
  /\ seen = [kept |-> 0, dropped |-> 0]

Asked(method) == requests # << >> /\ Head(requests).method = method

\* getMiningInfo with a template: the answer is the header of this moment.
AnswerJob ==
  /\ Asked("getMiningInfo")
  /\ Reply("job", gwHeader)
  /\ served' = gwHeader
  /\ UNCHANGED <<gwHeader, seen>>

\* getMiningInfo without one (paused), or one the gateway fails to serve.
AnswerNoJob(kind) ==
  /\ Asked("getMiningInfo")
  /\ kind \in {"paused", "error"}
  /\ Reply(kind, None)
  /\ served' = None
  /\ UNCHANGED <<gwHeader, seen>>

\* submitPlainProof: the proof is kept or dropped by the header it was mined
\* on, and either way the answer is "submitted".
RecordSubmit ==
  /\ Asked("submitPlainProof")
  /\ Reply("submitted", None)
  /\ seen' = IF Head(requests).header = gwHeader
             THEN [seen EXCEPT !.kept = @ + 1]
             ELSE [seen EXCEPT !.dropped = @ + 1]
  /\ UNCHANGED <<gwHeader, served>>

\* submitPlainProof refused with an error.
RefuseSubmit ==
  /\ Asked("submitPlainProof")
  /\ Reply("error", None)
  /\ UNCHANGED gateway

NewTip ==
  /\ gwHeader' \in Headers \ {gwHeader}
  /\ UNCHANGED <<link, served, seen>>

GatewayDrips == Drip /\ UNCHANGED gateway

GatewayCloses == CloseLink /\ UNCHANGED gateway

GatewayNext ==
  \/ AnswerJob
  \/ \E kind \in {"paused", "error"} : AnswerNoJob(kind)
  \/ RecordSubmit
  \/ RefuseSubmit
  \/ NewTip
  \/ GatewayDrips
  \/ GatewayCloses
=============================================================================
