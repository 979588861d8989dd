-------------------------- MODULE MineBackend_proofs --------------------------
(***************************************************************************)
(* Proofs for MineBackend: the type invariant, and with it that the header  *)
(* cache is right and that no winner is passed over, for any set of         *)
(* winners, any backend, any batch size and any sequence of jobs.          *)
(***************************************************************************)
EXTENDS MineBackend, WellFoundedInduction, TLAPS

\* What is on the device is what the backend remembers to have put there.
Cached == step # "died" => inputs = preloaded

IInv == TypeOK /\ Cached /\ RightMatrices /\ NoWinLost

\* A non-empty set of naturals has a least member.
LEMMA LeastMember ==
  ASSUME NEW S \in SUBSET Nat, S # {}
  PROVE  \E i \in S : \A j \in S : i <= j
<1>1. PICK i \in S : \A j \in S : ~ (<<j, i>> \in OpToRel(<, Nat))
  BY NatLessThanWellFounded, WFMin
<1>2. \A j \in S : ~ (j < i)
  BY <1>1 DEF OpToRel
<1> QED  BY <1>2

\* What the context's promise (Ctx!Reference) says of a batch: a first winner, or
\* that there is none.
LEMMA ReferenceIsFirst ==
  ASSUME NEW h, NEW t, NEW nonces, Len(nonces) \in Nat
  PROVE  LET answer == Ctx!Reference(h, nonces, t)
             wins(i) == <<h, nonces[i], t>> \in Winning
         IN  /\ answer.found \in BOOLEAN
             /\ ~answer.found => \A i \in 1 .. Len(nonces) : ~wins(i)
             /\ answer.found => /\ answer.attempt \in 1 .. Len(nonces)
                                /\ wins(answer.attempt)
                                /\ \A j \in 1 .. answer.attempt - 1 : ~wins(j)
<1> DEFINE winners == {i \in 1 .. Len(nonces) : <<h, nonces[i], t>> \in Winning}
           first == CHOOSE i \in winners : \A j \in winners : i <= j
<1>1. CASE winners = {}
  BY <1>1 DEF Ctx!Reference, Ctx!NotFound
<1>2. CASE winners # {}
  <2>1. winners \in SUBSET Nat
    OBVIOUS
  <2>2. \E i \in winners : \A j \in winners : i <= j
    BY <1>2, <2>1, LeastMember
  <2>3. first \in winners /\ \A j \in winners : first <= j
    BY <2>2
  <2>4. Ctx!Reference(h, nonces, t) = Ctx!Found(first, h, nonces[first])
    BY <1>2 DEF Ctx!Reference
  <2> HIDE DEF first
  <2>5. /\ Ctx!Reference(h, nonces, t).found = TRUE
        /\ Ctx!Reference(h, nonces, t).attempt = first
    BY <2>4 DEF Ctx!Found
  <2>6. \A j \in 1 .. first - 1 : <<h, nonces[j], t>> \notin Winning
    BY <2>1, <2>3
  <2> QED  BY <2>3, <2>5, <2>6
<1> QED  BY <1>1, <1>2

\* A backend just made has preloaded nothing and gone past nothing.
LEMMA InitIInv == Init => IInv
BY BackendAssumption
   DEF Init, IInv, TypeOK, Cached, RightMatrices, NoWinLost, Ctx!ContextInit, Jobs

\* The nonces of a search, and the ones it goes past.
LEMMA BatchIsConsecutive ==
  ASSUME TypeOK
  PROVE  /\ Len(BatchNonces) \in Nat
         /\ \A i \in 1 .. Len(BatchNonces) : BatchNonces[i] = attempt + i - 1
BY BackendAssumption DEF TypeOK, BatchNonces

\* A change of job happens between searches and touches neither cache nor histories.
LEMMA NewJobIInv == IInv /\ NewJob => IInv'
BY DEF IInv, NewJob, TypeOK, Cached, RightMatrices, NoWinLost, Jobs

\* The first half of a search leaves the job's matrices on the device, or dies.
LEMMA SearchIInv == IInv /\ Search => IInv'
<1> SUFFICES ASSUME IInv, Search PROVE IInv'
  OBVIOUS
<1> USE DEF Search, StartSearch, IInv, TypeOK, Jobs
<1>1. job.header \in Headers
  OBVIOUS
<1>2. TypeOK'
  BY <1>1 DEF Ctx!SetInputs, Ctx!Fails
<1>3. Cached' /\ RightMatrices'
  BY <1>1 DEF Cached, RightMatrices, Ctx!SetInputs
<1>4. NoWinLost'
  BY DEF NoWinLost
<1> QED  BY <1>2, <1>3, <1>4

\* A search goes past the nonces up to its winner, and those alone.
LEMMA RunIInv == IInv /\ Run => IInv'
<1> SUFFICES ASSUME IInv, Run PROVE IInv'
  OBVIOUS
<1>0. TypeOK /\ Cached /\ RightMatrices /\ NoWinLost
  BY DEF IInv
<1>1. CASE Ctx!Fails /\ step' = "died" /\ UNCHANGED <<attempt, passed, reported>>
  <2>1. UNCHANGED <<backend, preloaded, job>>
    BY DEF Run, FinishSearch
  <2> QED
    BY <1>0, <1>1, <2>1 DEF IInv, TypeOK, Cached, RightMatrices, NoWinLost, Ctx!Fails
<1>2. CASE /\ RunNonces
           /\ LET n == UpToWinner(reply', Len(BatchNonces))
              IN  /\ attempt' = attempt + n
                  /\ passed' = passed \cup {<<job.header, attempt + i, job.target>> : i \in 0 .. n - 1}
           /\ reported' = IF reply'.found
                          THEN reported \cup {<<job.header, attempt + reply'.attempt - 1, job.target>>}
                          ELSE reported
           /\ step' = "idle"
  <2> DEFINE h == job.header
             t == job.target
             len == Len(BatchNonces)
             wins(i) == <<h, attempt + i - 1, t>> \in Winning
             n == UpToWinner(reply', len)
             fresh == {<<h, attempt + i, t>> : i \in 0 .. n - 1}
             last == <<h, attempt + n - 1, t>>
  <2>1. step = "run" /\ UNCHANGED <<backend, preloaded, job>>
    BY DEF Run, FinishSearch
  <2>2. h \in Headers /\ t \in Targets /\ attempt \in Nat
    BY <1>0 DEF TypeOK, Jobs
  <2>3. inputs' = inputs /\ reply' = Ctx!Reference(h, BatchNonces, t)
    <3>1. CASE backend = "cuda-mine"
      <4>1. inputs = h
        BY <1>0, <2>1, <3>1 DEF RightMatrices
      <4> QED  BY <1>2, <2>2, <3>1, <4>1, BackendAssumption DEF RunNonces, Ctx!RunKept
    <3>2. CASE backend # "cuda-mine"
      BY <1>2, <3>2 DEF RunNonces, Ctx!RunApart
    <3> QED  BY <3>1, <3>2
  <2>4. len \in Nat /\ \A i \in 1 .. len : BatchNonces[i] = attempt + i - 1
    BY <1>0, BatchIsConsecutive
  <2>5. /\ reply'.found \in BOOLEAN
        /\ ~reply'.found => \A i \in 1 .. len : ~wins(i)
        /\ reply'.found => /\ reply'.attempt \in 1 .. len
                           /\ wins(reply'.attempt)
                           /\ \A j \in 1 .. reply'.attempt - 1 : ~wins(j)
    <3> DEFINE answer == Ctx!Reference(h, BatchNonces, t)
    <3>1. /\ answer.found \in BOOLEAN
          /\ ~answer.found => \A i \in 1 .. len : <<h, BatchNonces[i], t>> \notin Winning
          /\ answer.found => /\ answer.attempt \in 1 .. len
                             /\ <<h, BatchNonces[answer.attempt], t>> \in Winning
                             /\ \A j \in 1 .. answer.attempt - 1 :
                                  <<h, BatchNonces[j], t>> \notin Winning
      BY <2>4, ReferenceIsFirst
    <3> HIDE DEF answer
    <3>2. \A i \in 1 .. len : (<<h, BatchNonces[i], t>> \in Winning) = wins(i)
      BY <2>4
    <3>3. reply' = answer
      BY <2>3 DEF answer
    <3>4. answer.found => \A j \in 1 .. answer.attempt - 1 : j \in 1 .. len
      BY <2>4, <3>1
    <3> HIDE DEF wins, len
    <3> QED  BY <3>1, <3>2, <3>3, <3>4
  <2>6. n \in Nat /\ attempt + n \in Nat
    BY <2>2, <2>4, <2>5 DEF UpToWinner
  <2>7. passed' = passed \cup fresh /\ attempt' = attempt + n
    BY <1>2
  <2>8. fresh \subseteq Headers \X Nat \X Targets
    BY <2>2, <2>6
  <2>9. fresh \cap Winning = IF reply'.found THEN {last} ELSE {}
    <3>1. CASE ~reply'.found
      <4>1. \A i \in 0 .. n - 1 : wins(i + 1) = (<<h, attempt + i, t>> \in Winning)
        BY <2>2, <2>6
      <4> QED  BY <2>4, <2>5, <2>6, <3>1, <4>1 DEF UpToWinner
    <3>2. CASE reply'.found
      <4>1. n = reply'.attempt /\ n \in 1 .. len
        BY <2>5, <3>2 DEF UpToWinner
      <4>2. last \in fresh /\ last \in Winning
        <5>1. attempt + n - 1 = attempt + (n - 1) /\ n - 1 \in 0 .. n - 1
          BY <2>2, <2>4, <4>1
        <5> QED  BY <2>5, <3>2, <4>1, <5>1
      <4>3. ASSUME NEW i \in 0 .. n - 1, <<h, attempt + i, t>> \in Winning
            PROVE  <<h, attempt + i, t>> = last
        <5>1. i + 1 \in 1 .. n /\ attempt + (i + 1) - 1 = attempt + i
          BY <2>2, <2>4, <4>1
        <5>2. wins(i + 1)
          BY <4>3, <5>1
        <5>3. i + 1 = n
          BY <2>5, <2>4, <3>2, <4>1, <5>1, <5>2
        <5> QED  BY <2>2, <2>4, <4>1, <5>1, <5>3
      <4> QED  BY <3>2, <4>2, <4>3
    <3> QED  BY <2>5, <3>1, <3>2
  <2>10. reported' = reported \cup (fresh \cap Winning)
    BY <1>2, <2>5, <2>9 DEF UpToWinner
  <2> HIDE DEF fresh, n
  <2>11. TypeOK'
    BY <1>0, <1>2, <2>1, <2>2, <2>3, <2>6, <2>7, <2>8, <2>10 DEF TypeOK
  <2>12. Cached' /\ RightMatrices'
    BY <1>0, <1>2, <2>1, <2>3 DEF Cached, RightMatrices
  <2>13. NoWinLost'
    BY <1>0, <2>7, <2>10 DEF NoWinLost
  <2> QED  BY <2>11, <2>12, <2>13 DEF IInv
<1> QED  BY <1>1, <1>2 DEF Run, FinishSearch

\* Every step keeps the inductive invariant.
LEMMA NextIInv == IInv /\ [Next]_vars => IInv'
<1>1. IInv /\ UNCHANGED vars => IInv'
  BY DEF IInv, vars, TypeOK, Cached, RightMatrices, NoWinLost, Jobs
<1> QED
  BY <1>1, NewJobIInv, SearchIInv, RunIInv DEF Next, Died

\* The inductive invariant holds throughout.
LEMMA SpecIInv == Spec => []IInv
<1> QED  BY InitIInv, NextIInv, PTL DEF Spec

\* The state of the backend keeps its types, for any batch size, and a search in
\* progress is for the header the backend remembers.
THEOREM BackendTypeCorrect == Spec => []TypeOK
<1>1. IInv => TypeOK
  BY DEF IInv
<1> QED  BY SpecIInv, <1>1, PTL

\* The header cache of search is right: whatever jobs came before, the matrices on
\* the device are those of the header searched.
THEOREM SearchesRightMatrices == Spec => []RightMatrices
<1>1. IInv => RightMatrices
  BY DEF IInv
<1> QED  BY SpecIInv, <1>1, PTL

\* For any set of winners and any batch size, the nonces gone past that win are
\* those reported: a batch with several winners loses none of them.
THEOREM NoWinIsLost == Spec => []NoWinLost
<1>1. IInv => NoWinLost
  BY DEF IInv
<1> QED  BY SpecIInv, <1>1, PTL
=============================================================================
