------------------------------- MODULE MCProbes -------------------------------
(***************************************************************************)
(* The two handshake probes, checked in one run.  They are separate         *)
(* programs and share nothing: a behaviour runs one of them, and the        *)
(* other stays in its initial state.                                        *)
(***************************************************************************)
EXTENDS PoolProbe, AlphaProbe

VARIABLE program

probesVars == <<program, vars, alphaVars>>

ProbesInit ==
  /\ Init /\ AlphaInit
  /\ \/ program = "pool_client" /\ ~nonce
     \/ program = "probe_alphapool" /\ stage = 0

RunsPool(A)  == program = "pool_client" /\ A /\ UNCHANGED <<program, alphaVars>>
RunsAlpha(A) == program = "probe_alphapool" /\ A /\ UNCHANGED <<program, vars>>

ProbesNext == RunsPool(Next) \/ RunsAlpha(AlphaNext)

\* The fairness of Spec and AlphaSpec, for the program that runs.
ProbesSpec ==
  /\ ProbesInit
  /\ [][ProbesNext]_probesVars
  /\ WF_probesVars(RunsPool(ProbeNext))
  /\ WF_probesVars(RunsAlpha(ProbeStep))
  /\ WF_probesVars(RunsAlpha(TimePasses))

\* Both probes keep their types, the one that stays in its initial state too.
ProbesTypeOK == TypeOK /\ AlphaTypeOK

\* A probe ends, whichever of the two it is and however silent or talkative the pool
\* (pool_client.py:89, alphapool_client.py:102); that of AlphaPool unless the pool sends
\* it pieces of a line without end.
TheProbeEnds ==
  /\ program = "pool_client" => ProbeEnds
  /\ program = "probe_alphapool" => AlphaEnds
=============================================================================
