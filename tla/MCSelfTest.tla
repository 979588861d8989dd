------------------------------ MODULE MCSelfTest ------------------------------
(***************************************************************************)
(* The instance of SelfTest that TLC checks, and in the same run SoloMine.  *)
(* They are separate programs and share nothing: a behaviour runs one of    *)
(* them, and the other stays in its initial state.                          *)
(***************************************************************************)
EXTENDS SelfTest, SoloMine

VARIABLE program

searchVars == <<program, mockVars, soloVars>>

Defaults == [temp_c |-> 78, vram_temp_c |-> 96]

SearchInit ==
  /\ MockInit /\ SoloInit
  /\ \/ program = "self_test" /\ mode = "solo"
     \/ program = "solo" /\ gwHeader = 1

SearchNext ==
  \/ program = "self_test" /\ MockNext /\ UNCHANGED <<program, soloVars>>
  \/ program = "solo" /\ SoloNext /\ UNCHANGED <<program, mockVars>>

\* Each of the two keeps its types, the one that stays in its initial state too.
SearchTypeOK == MockTypeOK /\ SoloTypeOK

SearchSpec == SearchInit /\ [][SearchNext]_searchVars
=============================================================================
