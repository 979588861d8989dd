------------------------------- MODULE SoloMine -------------------------------
(***************************************************************************)
(* The miners that search for one proof: live of miner/fast_mine.py (a GPU  *)
(* searches batches of attempts, the official library confirms the winner), *)
(* main of miner/simnet_solo.py (the library alone, attempt by attempt),    *)
(* and the two checks of that path at the easiest target, selftest of       *)
(* fast_mine.py and dry_run of miner/luckypool_miner.py.                    *)
(*                                                                          *)
(* An attempt is whether it holds a proof, as the official library finds:   *)
(* in the checks too, where it is expected of every one but not assumed.    *)
(* The GPU may be wrong, since nothing here trusts it.  The gateway client  *)
(* and the library are not in the repository: any call of theirs may raise, *)
(* and that of the submit may do so although the gateway has the proof.     *)
(***************************************************************************)
EXTENDS Integers, SequencesExt

CONSTANTS
  Natt,        \* natt
  MaxBatches,  \* max_batches; range(500) of simnet_solo
  MaxTips      \* bound: headers of the node, from 0

ASSUME SoloAssumption == {Natt, MaxBatches} \subseteq Nat \ {0} /\ MaxTips \in Nat

Modes   == {"fast", "solo", "selftest", "dry_run"}
Live    == {"fast", "solo"}
Nothing == -1

VARIABLES
  mode,      \* the program
  place,     \* where it is; "raised" is an exception or an exit with a message
  tip,       \* the header of the gateway's template
  header,    \* the job's header
  batch,     \* batches begun
  stack,     \* the attempts stacked for the GPU
  attempts,  \* the list in which the winner is looked up
  winner,    \* what gpu_search returns: [att, tile], tile if it is the official one
  verdict,   \* the exit code
  sent,      \* the proofs submitted: [header, proves, kept]
  passed     \* history: the batches left, [stack, winner]

soloVars == <<mode, place, tip, header, batch, stack, attempts, winner, verdict, sent, passed>>

NoWinner == [att |-> Nothing, tile |-> FALSE]

SoloTypeOK ==
  /\ mode \in Modes
  /\ place \in {"fetch", "loop", "search", "confirm", "submit", "ended", "raised"}
  /\ tip \in 0 .. MaxTips
  /\ header \in 0 .. tip \cup {Nothing}
  /\ batch \in 0 .. MaxBatches
  /\ {stack, attempts} \subseteq Seq(BOOLEAN)
  /\ winner \in [att : Int, tile : BOOLEAN]
  /\ verdict \in {Nothing, 0, 1}
  /\ place \in {"ended", "raised"} <=> verdict # Nothing
  /\ place \in {"search", "confirm", "submit"} => header # Nothing /\ batch > 0

\* The two checks have a header of their own, and run one batch.
SoloInit ==
  /\ mode \in Modes
  /\ place = IF mode \in Live THEN "fetch" ELSE "loop"
  /\ tip = 0
  /\ header = IF mode \in Live THEN Nothing ELSE 0
  /\ batch = 0
  /\ stack = << >> /\ attempts = << >>
  /\ winner = NoWinner
  /\ verdict = Nothing
  /\ sent = << >>
  /\ passed = {}

SoloOver == place \in {"ended", "raised"}

\* Python's exit code of an exception that nothing catches, and of sys.exit(message).
ExitByException == place' = "raised" /\ verdict' = 1

\* A call raises: of the GPU (gpu_search exits on an error code), of the library or of
\* the client.
Raises ==
  /\ ~SoloOver
  /\ ExitByException
  /\ UNCHANGED <<mode, tip, header, batch, stack, attempts, winner, sent, passed>>

-----------------------------------------------------------------------------
\* get_mining_info: the job is fetched here and never again.
Fetch ==
  /\ place = "fetch"
  /\ header' = tip
  /\ place' = "loop"
  /\ UNCHANGED <<mode, tip, batch, stack, attempts, winner, verdict, sent, passed>>

\* Mutant: one batch more.
MoreOrOne == batch <= IF mode \in Live THEN MaxBatches ELSE 1

\* range(max_batches); the checks have one batch.
More == batch < IF mode \in Live THEN MaxBatches ELSE 1

\* The attempts of a batch on the job's header, random.  simnet_solo makes one and
\* goes to the library with it.
BuildOnto(older) ==
  /\ place = "loop" /\ More
  /\ batch' = batch + 1
  /\ \E new \in [1 .. IF mode = "solo" THEN 1 ELSE Natt -> BOOLEAN] :
       /\ stack' = new
       /\ attempts' = older \o new
  /\ winner' = IF mode = "solo" THEN [att |-> 0, tile |-> TRUE] ELSE NoWinner
  /\ place' = IF mode = "solo" THEN "confirm" ELSE "search"
  /\ UNCHANGED <<mode, tip, header, verdict, sent, passed>>

\* Mutant: the list of attempts is not begun anew with the batch.
BuildAfterLast == BuildOnto(attempts)

Build == BuildOnto(<< >>)

\* What a correct search returns: the first attempt that proves.
FirstOf(list) ==
  IF \E i \in DOMAIN list : list[i]
  THEN [att |-> SelectInSeq(list, LAMBDA proves : proves) - 1, tile |-> TRUE]
  ELSE NoWinner

\* gpu_search, right or wrong.
GpuSearch ==
  /\ place = "search"
  /\ winner' \in {FirstOf(stack), NoWinner} \cup [att : 0 .. Natt - 1, tile : BOOLEAN]
  /\ place' = "confirm"
  /\ UNCHANGED <<mode, tip, header, batch, stack, attempts, verdict, sent, passed>>

ExitWith(code) == place' = "ended" /\ verdict' = code

\* The batch is left: live goes on with the next, a check has failed.
PassOver ==
  /\ passed' = passed \cup {[stack |-> stack, winner |-> winner]}
  /\ IF mode \in Live THEN place' = "loop" /\ UNCHANGED verdict ELSE ExitWith(1)

\* The official product of the winner's attempt: without a proof in it, the batch is
\* left.  The tile counts in selftest only.
ConfirmIf(found) ==
  /\ place = "confirm"
  /\ CASE winner.att = Nothing \/ ~found -> PassOver
       [] OTHER -> /\ IF mode \in Live
                      THEN place' = "submit" /\ UNCHANGED verdict
                      ELSE ExitWith(IF mode = "selftest" /\ ~winner.tile THEN 1 ELSE 0)
                   /\ UNCHANGED passed
  /\ UNCHANGED <<mode, tip, header, batch, stack, attempts, winner, sent>>

Proves == winner.att # Nothing /\ attempts[winner.att + 1]

\* Mutant: the warning that the winner is not confirmed does not skip it.
ConfirmAnyway == ConfirmIf(TRUE)

Official == ConfirmIf(Proves)

\* create_proof on the job's header, then submit_plain_proof and close: the gateway
\* answers the same whether it keeps the proof or drops it, and the exit code is 0;
\* or the answer is lost, or close raises, after it took the proof.
SubmitProof ==
  /\ place = "submit"
  /\ sent' = Append(sent, [header |-> header, proves |-> Proves, kept |-> header = tip])
  /\ ExitWith(0) \/ ExitByException
  /\ UNCHANGED <<mode, tip, header, batch, stack, attempts, winner, passed>>

\* No proof in any of the batches: live only, a check does not come back for another.
GiveUp ==
  /\ mode \in Live
  /\ place = "loop" /\ ~More
  /\ ExitWith(1)
  /\ UNCHANGED <<mode, tip, header, batch, stack, attempts, winner, sent, passed>>

\* The node finds a new tip, of which nothing tells the program.
TipMoves ==
  /\ mode \in Live /\ ~SoloOver
  /\ tip < MaxTips
  /\ tip' = tip + 1
  /\ UNCHANGED <<mode, place, header, batch, stack, attempts, winner, verdict, sent, passed>>

SoloNext ==
  \/ Fetch \/ Build \/ GpuSearch \/ Official \/ SubmitProof \/ GiveUp \/ Raises \/ TipMoves
  \/ SoloOver /\ UNCHANGED soloVars

SoloSpec == SoloInit /\ [][SoloNext]_soloVars

-----------------------------------------------------------------------------
\* What the exit code tells, although the GPU is not trusted.  Of a live search it is 0
\* only after its one submission, of a proof that the official library found on the
\* fetched header; 1 without an exception means that every batch it may try was left and
\* nothing was submitted; but 1 by an exception does not mean that no proof was sent.
\* A batch with a proof in it is left only because the GPU named another attempt, or
\* none.  A proof sent is lost only if the tip moved since the job was fetched
\* (fast_mine.py:214), and the code is 0 all the same.  A check that runs to its end
\* passes exactly when the attempt it looked up was confirmed by the library, selftest on
\* the official tile too, and it sends nothing.
VerdictIsTrue ==
  /\ \A p \in passed : (\E i \in DOMAIN p.stack : p.stack[i]) => p.winner.att # FirstOf(p.stack).att
  /\ \A i \in DOMAIN sent : sent[i].proves /\ sent[i].header = header
                            /\ (~sent[i].kept => tip > header)
  /\ Len(sent) <= 1
  /\ mode \in Live =>
       /\ verdict = 0 => Len(sent) = 1
       /\ verdict = 1 /\ place = "ended" => batch = MaxBatches /\ sent = << >>
  /\ mode \notin Live =>
       /\ place = "ended" =>
            (verdict = 0 <=> /\ winner.att + 1 \in DOMAIN stack /\ stack[winner.att + 1]
                             /\ mode = "selftest" => winner.tile)
       /\ sent = << >>
=============================================================================
