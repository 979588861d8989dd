------------------------------ MODULE Work_proofs ------------------------------
(***************************************************************************)
(* Theorems of NoisyGemm, PowScan and ProtocolBenchmark: the work of the    *)
(* reference, the scan for it and the account of what it earned, for every  *)
(* shape and key, every grid of tiles and every log.  They rest on lemmas   *)
(* on numbers, proved first: sums over finite sets, digits of numbers, and  *)
(* numbers that an int32 cannot tell apart.                                 *)
(***************************************************************************)
EXTENDS NoisyGemm, PowScan, ProtocolBenchmark, FiniteSetTheorems, WellFoundedInduction, TLAPS

-----------------------------------------------------------------------------
(* Induction over the naturals, and over the subsets of a finite set. *)

\* A non-empty set of naturals has a least member.
LEMMA LeastMember ==
  ASSUME NEW S, S \subseteq Nat, S # {}
  PROVE  \E i \in S : \A j \in S : i <= j
<1>1. IsWellFoundedOn(OpToRel(<, Nat), Nat)
  BY NatLessThanWellFounded
<1>2. PICK i \in S : \A j \in S : <<j, i>> \notin OpToRel(<, Nat)
  BY <1>1, WFMin, Zenon
<1>3. \A j \in S : ~ (j < i)
  BY <1>2 DEF OpToRel
<1> QED  BY <1>3

\* A set that has zero, and the successor of each natural it has, has them all.
LEMMA SetInduction ==
  ASSUME NEW S, 0 \in S, \A n \in Nat : n \in S => n + 1 \in S
  PROVE  Nat \subseteq S
<1> DEFINE Others == {n \in Nat : n \notin S}
<1> SUFFICES ASSUME Others # {} PROVE FALSE
  OBVIOUS
<1>1. PICK n \in Others : \A m \in Others : n <= m
  BY LeastMember
<1>2. n # 0 /\ n - 1 \in Nat
  BY <1>1
<1>3. n - 1 \in S
  BY <1>1, <1>2
<1> QED  BY <1>1, <1>2, <1>3

\* A member taken out of a subset of a finite set: one less.
LEMMA OneLess ==
  ASSUME NEW T, IsFiniteSet(T), NEW s \in SUBSET T
  PROVE  /\ IsFiniteSet(s) /\ Cardinality(s) \in Nat /\ (Cardinality(s) = 0 <=> s = {})
         /\ \A x \in s : /\ s \ {x} \in SUBSET T /\ Cardinality(s \ {x}) \in Nat
                         /\ Cardinality(s) = Cardinality(s \ {x}) + 1
<1>1. IsFiniteSet(s)
  BY FS_Subset
<1>2. Cardinality(s) \in Nat /\ (Cardinality(s) = 0 <=> s = {})
  BY <1>1, FS_CardinalityType, FS_EmptySet
<1>3. ASSUME NEW x \in s
      PROVE  /\ s \ {x} \in SUBSET T /\ Cardinality(s \ {x}) \in Nat
             /\ Cardinality(s) = Cardinality(s \ {x}) + 1
  <2>1. IsFiniteSet(s \ {x}) /\ Cardinality(s \ {x}) = Cardinality(s) - 1
    BY <1>1, FS_RemoveElement
  <2>2. Cardinality(s \ {x}) \in Nat
    BY <2>1, FS_CardinalityType
  <2> QED  BY <1>2, <2>1, <2>2
<1> QED  BY <1>1, <1>2, <1>3

\* What holds of a subset of a finite set if it holds of every smaller one, holds of all.
LEMMA SubsetInduction ==
  ASSUME NEW T, IsFiniteSet(T), NEW P,
         \A s \in SUBSET T : (\A r \in SUBSET T : Cardinality(r) < Cardinality(s) => r \in P) => s \in P
  PROVE  SUBSET T \subseteq P
<1> DEFINE S == {n \in Nat : \A r \in SUBSET T : Cardinality(r) < n => r \in P}
<1>1. \A r \in SUBSET T : Cardinality(r) \in Nat
  BY OneLess
<1>2. 0 \in S
  BY <1>1
<1>3. ASSUME NEW n \in Nat, n \in S PROVE n + 1 \in S
  <2>1. ASSUME NEW r \in SUBSET T, Cardinality(r) < n + 1 PROVE r \in P
    <3>1. \A q \in SUBSET T : Cardinality(q) < Cardinality(r) => q \in P
      BY <1>1, <1>3, <2>1
    <3> QED  BY <3>1
  <2> QED  BY <2>1
<1> HIDE DEF S
<1>4. Nat \subseteq S
  BY <1>2, <1>3, SetInduction
<1>5. ASSUME NEW r \in SUBSET T PROVE r \in P
  <2>1. Cardinality(r) + 1 \in S /\ Cardinality(r) < Cardinality(r) + 1
    BY <1>1, <1>4
  <2> QED  BY <2>1 DEF S
<1> QED  BY <1>5

-----------------------------------------------------------------------------
(* Sums over finite sets. *)

\* A function that sums f over the subsets of T, one chosen member after the other.
Sums(g, f, T) ==
  \A s \in SUBSET T :
    g[s] = IF s = {} THEN 0 ELSE f[CHOOSE x \in s : TRUE] + g[s \ {CHOOSE x \in s : TRUE}]

SumsOn(g, f, T) ==
  g = [s \in SUBSET T |->
         IF s = {} THEN 0 ELSE f[CHOOSE x \in s : TRUE] + g[s \ {CHOOSE x \in s : TRUE}]]

\* There is one,
LEMMA SumsExist ==
  ASSUME NEW f, NEW T, IsFiniteSet(T)
  PROVE  \E g : SumsOn(g, f, T)
<1> DEFINE val(h, s) == IF s = {} THEN 0 ELSE f[CHOOSE x \in s : TRUE] + h[s \ {CHOOSE x \in s : TRUE}]
           Upto(n) == {s \in SUBSET T : Cardinality(s) < n}
           S == {n \in Nat : \E h : h = [s \in SUBSET T |-> h[s]] /\ \A s \in Upto(n) : h[s] = val(h, s)}
<1>1. 0 \in S
  <2>1. Upto(0) = {}
    BY OneLess
  <2>2. [s \in SUBSET T |-> 0] = [s \in SUBSET T |-> [r \in SUBSET T |-> 0][s]]
    OBVIOUS
  <2> QED  BY <2>1, <2>2
<1>2. ASSUME NEW n \in Nat, n \in S PROVE n + 1 \in S
  <2>1. PICK h : \A s \in Upto(n) : h[s] = val(h, s)
    BY <1>2
  <2> DEFINE k == [s \in SUBSET T |-> IF Cardinality(s) < n THEN h[s] ELSE val(h, s)]
  <2>2. \A s \in SUBSET T : Cardinality(s) < n + 1 => k[s] = val(h, s)
    BY <2>1
  <2>3. ASSUME NEW s \in Upto(n + 1) PROVE val(h, s) = val(k, s)
    <3>1. CASE s = {}
      BY <3>1
    <3>2. CASE s # {}
      <4> DEFINE x == CHOOSE y \in s : TRUE
      <4>1. x \in s
        BY <3>2
      <4>2. s \ {x} \in SUBSET T /\ Cardinality(s \ {x}) < n
        BY <4>1, OneLess
      <4>3. k[s \ {x}] = h[s \ {x}]
        BY <4>2
      <4> QED  BY <3>2, <4>3
    <3> QED  BY <3>1, <3>2
  <2>4. k = [s \in SUBSET T |-> k[s]]
    OBVIOUS
  <2>5. \A s \in Upto(n + 1) : k[s] = val(k, s)
    BY <2>2, <2>3
  <2> HIDE DEF k, Upto
  <2>6. \E hh : hh = [s \in SUBSET T |-> hh[s]] /\ \A s \in Upto(n + 1) : hh[s] = val(hh, s)
    <3> HIDE DEF val
    <3> WITNESS k
    <3> QED  BY <2>4, <2>5
  <2>7. n + 1 \in Nat
    OBVIOUS
  <2> QED  BY <2>6, <2>7
<1> HIDE DEF S
<1>3. Nat \subseteq S
  BY <1>1, <1>2, SetInduction
<1>4. Cardinality(T) + 1 \in S /\ Cardinality(T) \in Nat
  BY <1>3, OneLess
<1>5. PICK h : h = [s \in SUBSET T |-> h[s]] /\ \A s \in Upto(Cardinality(T) + 1) : h[s] = val(h, s)
  BY <1>4 DEF S
<1>6. \A s \in SUBSET T : s \in Upto(Cardinality(T) + 1)
  <2> TAKE s \in SUBSET T
  <2>1. Cardinality(s) <= Cardinality(T) /\ Cardinality(s) \in Nat
    BY FS_Subset, OneLess
  <2> QED  BY <1>4, <2>1
<1> HIDE DEF Upto
<1>7. h = [s \in SUBSET T |-> val(h, s)]
  BY <1>5, <1>6
<1> QED  BY <1>7 DEF SumsOn

\* and only one: two that sum the same values agree where both are defined.
LEMMA SumsAgree ==
  ASSUME NEW T, IsFiniteSet(T), NEW U, NEW f, NEW e, NEW g, NEW h, Sums(g, f, T), Sums(h, e, U),
         \A x \in T \cap U : f[x] = e[x]
  PROVE  \A s \in SUBSET (T \cap U) : g[s] = h[s]
<1> DEFINE W == T \cap U
           P == {s \in SUBSET W : g[s] = h[s]}
<1>1. IsFiniteSet(W)
  BY FS_Subset
<1>2. ASSUME NEW s \in SUBSET W, \A r \in SUBSET W : Cardinality(r) < Cardinality(s) => r \in P
      PROVE  s \in P
  <2> DEFINE x == CHOOSE y \in s : TRUE
  <2>1. s \in SUBSET T /\ s \in SUBSET U
    OBVIOUS
  <2>2. CASE s = {}
    BY <2>1, <2>2 DEF Sums
  <2>3. CASE s # {}
    <3>1. x \in s /\ x \in W
      BY <2>3
    <3>2. s \ {x} \in SUBSET W /\ Cardinality(s \ {x}) < Cardinality(s)
      BY <1>1, <3>1, OneLess
    <3>3. g[s \ {x}] = h[s \ {x}]
      BY <1>2, <3>2
    <3>4. g[s] = f[x] + g[s \ {x}] /\ h[s] = e[x] + h[s \ {x}]
      BY <2>1, <2>3 DEF Sums
    <3>5. f[x] = e[x]
      BY <3>1
    <3> QED  BY <3>3, <3>4, <3>5
  <2> QED  BY <2>2, <2>3
<1> HIDE DEF P
<1>3. SUBSET W \subseteq P
  BY <1>1, <1>2, SubsetInduction
<1> QED  BY <1>3 DEF P

\* The sum of the library is such a sum.
LEMMA SumIsSums ==
  ASSUME NEW f, NEW T, IsFiniteSet(T)
  PROVE  \E g : Sums(g, f, T) /\ \A S \in SUBSET T : SumFunctionOnSet(f, S) = g[S]
<1> DEFINE iter(S) == CHOOSE g : SumsOn(g, f, S)
<1>1. \A S : SumFunctionOnSet(f, S) = iter(S)[S]
  BY DEF SumFunctionOnSet, FoldFunctionOnSet, MapThenFoldSet, SumsOn
<1>2. ASSUME NEW S \in SUBSET T PROVE Sums(iter(S), f, S)
  <2>1. IsFiniteSet(S)
    BY FS_Subset
  <2>2. SumsOn(iter(S), f, S)
    BY <2>1, SumsExist, Zenon
  <2> HIDE DEF iter
  <2> QED  BY <2>2 DEF Sums, SumsOn
<1> HIDE DEF iter
<1>3. \A S \in SUBSET T : iter(S)[S] = iter(T)[S]
  <2> TAKE S \in SUBSET T
  <2>1. Sums(iter(S), f, S) /\ Sums(iter(T), f, T) /\ S \cap T = S /\ IsFiniteSet(S)
    BY <1>2, FS_Subset
  <2>2. \A s \in SUBSET (S \cap T) : iter(S)[s] = iter(T)[s]
    BY <2>1, SumsAgree
  <2> QED  BY <2>1, <2>2
<1>4. Sums(iter(T), f, T)
  BY <1>2
<1> QED  BY <1>1, <1>3, <1>4

\* Equal values have equal sums.
LEMMA SumCongruence ==
  ASSUME NEW T, IsFiniteSet(T), NEW f, NEW e, \A x \in T : f[x] = e[x]
  PROVE  SumFunctionOnSet(f, T) = SumFunctionOnSet(e, T)
<1>1. PICK g : Sums(g, f, T) /\ \A S \in SUBSET T : SumFunctionOnSet(f, S) = g[S]
  BY SumIsSums
<1>2. PICK h : Sums(h, e, T) /\ \A S \in SUBSET T : SumFunctionOnSet(e, S) = h[S]
  BY SumIsSums
<1>3. \A s \in SUBSET (T \cap T) : g[s] = h[s]
  BY <1>1, <1>2, SumsAgree
<1> QED  BY <1>1, <1>2, <1>3

\* Of numbers, the sum is a number, and any member may be taken out first.
LEMMA SumTakesOut ==
  ASSUME NEW T, IsFiniteSet(T), NEW f, \A x \in T : f[x] \in Int
  PROVE  /\ SumFunctionOnSet(f, {}) = 0
         /\ \A s \in SUBSET T : SumFunctionOnSet(f, s) \in Int
         /\ \A s \in SUBSET T : \A x \in s :
              SumFunctionOnSet(f, s) = f[x] + SumFunctionOnSet(f, s \ {x})
<1>1. PICK g : Sums(g, f, T) /\ \A S \in SUBSET T : SumFunctionOnSet(f, S) = g[S]
  BY SumIsSums
<1>2. g[{}] = 0
  BY <1>1 DEF Sums
<1> DEFINE P == {s \in SUBSET T : g[s] \in Int /\ \A x \in s : g[s] = f[x] + g[s \ {x}]}
<1>3. ASSUME NEW s \in SUBSET T, \A r \in SUBSET T : Cardinality(r) < Cardinality(s) => r \in P
      PROVE  s \in P
  <2> HIDE DEF P
  <2> DEFINE p == CHOOSE y \in s : TRUE
  <2>1. CASE s = {}
    BY <1>2, <2>1 DEF P
  <2>2. CASE s # {}
    <3>1. p \in s /\ g[s] = f[p] + g[s \ {p}] /\ f[p] \in Int
      BY <1>1, <2>2 DEF Sums
    <3>2. ASSUME NEW x \in s
          PROVE  s \ {x} \in SUBSET T /\ Cardinality(s \ {x}) < Cardinality(s) /\ s \ {x} \in P
      BY <1>3, OneLess
    <3>3. g[s \ {p}] \in Int
      BY <3>1, <3>2 DEF P
    <3>4. g[s] \in Int
      BY <3>1, <3>3
    <3> HIDE DEF p
    <3>5. ASSUME NEW x \in s, x # p PROVE g[s] = f[x] + g[s \ {x}]
      <4> DEFINE sp == s \ {p}
                 sx == s \ {x}
                 r  == sp \ {x}
      <4>1. x \in sp /\ p \in sx /\ r = sx \ {p}
        BY <3>1, <3>5
      <4>2. sp \in P /\ sx \in P /\ sp \in SUBSET T /\ Cardinality(sp) < Cardinality(s)
        BY <3>1, <3>2
      <4> HIDE DEF sp, sx
      <4>3. r \in SUBSET T /\ Cardinality(r) \in Nat /\ Cardinality(sp) = Cardinality(r) + 1
        BY <4>1, <4>2, OneLess
      <4>4. Cardinality(s) \in Nat /\ Cardinality(r) < Cardinality(s)
        BY <4>2, <4>3, OneLess
      <4>5. r \in P
        BY <1>3, <4>3, <4>4
      <4> HIDE DEF r
      <4>6. g[sp] = f[x] + g[r]
        BY <4>1, <4>2 DEF P, r
      <4>7. g[sx] = f[p] + g[r]
        BY <4>1, <4>2 DEF P
      <4>8. g[r] \in Int /\ f[x] \in Int /\ f[p] \in Int
        BY <3>1, <4>5 DEF P
      <4>9. g[s] = f[p] + g[sp]
        BY <3>1 DEF sp
      <4> QED  BY <4>6, <4>7, <4>8, <4>9 DEF sx
    <3>6. \A x \in s : g[s] = f[x] + g[s \ {x}]
      BY <3>1, <3>5
    <3> QED  BY <3>4, <3>6 DEF P
  <2> QED  BY <2>1, <2>2
<1> HIDE DEF P
<1>4. SUBSET T \subseteq P
  BY <1>3, SubsetInduction
<1>5. \A s \in SUBSET T : \A x \in s : s \ {x} \in SUBSET T
  OBVIOUS
<1> QED  BY <1>1, <1>2, <1>4, <1>5 DEF P

\* One more value is added to the sum.
LEMMA SumAdds ==
  ASSUME NEW T, IsFiniteSet(T), NEW x, x \notin T, NEW f, \A y \in T \cup {x} : f[y] \in Int
  PROVE  /\ SumFunctionOnSet(f, T) \in Int
         /\ SumFunctionOnSet(f, T \cup {x}) = SumFunctionOnSet(f, T) + f[x]
<1> DEFINE U == T \cup {x}
<1>1. IsFiniteSet(U) /\ T \in SUBSET U /\ U \in SUBSET U /\ x \in U /\ U \ {x} = T
  BY FS_AddElement
<1>2. SumFunctionOnSet(f, T) \in Int /\ SumFunctionOnSet(f, U) = f[x] + SumFunctionOnSet(f, U \ {x})
  BY <1>1, SumTakesOut
<1>3. f[x] \in Int
  OBVIOUS
<1> HIDE DEF U
<1>4. SumFunctionOnSet(f, U \ {x}) = SumFunctionOnSet(f, T)
  BY <1>1, Zenon
<1>5. SumFunctionOnSet(f, U) = SumFunctionOnSet(f, T) + f[x]
  BY <1>2, <1>3, <1>4
<1> QED  BY <1>2, <1>5, Zenon DEF U

-----------------------------------------------------------------------------
(* More sums. *)

\* What holds of the empty set, and of a part of T with one member more if it holds of
\* that part, holds of T.
LEMMA GrowInduction ==
  ASSUME NEW T, IsFiniteSet(T), NEW P, {} \in P,
         \A s \in SUBSET T : \A x \in T \ s : s \in P => s \cup {x} \in P
  PROVE  T \in P
<1>1. ASSUME NEW s \in SUBSET T, \A r \in SUBSET T : Cardinality(r) < Cardinality(s) => r \in P
      PROVE  s \in P
  <2>1. CASE s # {}
    <3>1. PICK x \in s : TRUE
      BY <2>1
    <3> DEFINE r == s \ {x}
    <3>2. r \in SUBSET T /\ x \in T \ r /\ r \cup {x} = s
      BY <3>1
    <3>3. Cardinality(r) < Cardinality(s)
      BY <3>1, OneLess
    <3> HIDE DEF r
    <3>4. r \in P
      BY <1>1, <3>2, <3>3
    <3> QED  BY <3>2, <3>4
  <2> QED  BY <2>1
<1>2. SUBSET T \subseteq P
  BY <1>1, SubsetInduction
<1> QED  BY <1>2

\* The members of a finite set one by one: the sum over a part, and over one member more.
LEMMA SumGrows ==
  ASSUME NEW T, IsFiniteSet(T), NEW f, \A x \in T : f[x] \in Int
  PROVE  /\ SumFunctionOnSet(f, {}) = 0
         /\ \A s \in SUBSET T : SumFunctionOnSet(f, s) \in Int
         /\ \A s \in SUBSET T : \A x \in T \ s :
              SumFunctionOnSet(f, s \cup {x}) = SumFunctionOnSet(f, s) + f[x]
<1>1. SumFunctionOnSet(f, {}) = 0 /\ \A s \in SUBSET T : SumFunctionOnSet(f, s) \in Int
  BY SumTakesOut
<1>2. ASSUME NEW s \in SUBSET T, NEW x \in T \ s
      PROVE  SumFunctionOnSet(f, s \cup {x}) = SumFunctionOnSet(f, s) + f[x]
  <2>1. IsFiniteSet(s) /\ x \notin s /\ \A y \in s \cup {x} : f[y] \in Int
    BY FS_Subset
  <2> QED  BY <2>1, SumAdds
<1> QED  BY <1>1, <1>2

\* A sum of sums.
LEMMA SumOfTwo ==
  ASSUME NEW T, IsFiniteSet(T), NEW f, NEW g, NEW h,
         \A x \in T : f[x] \in Int /\ g[x] \in Int /\ h[x] = f[x] + g[x]
  PROVE  SumFunctionOnSet(h, T) = SumFunctionOnSet(f, T) + SumFunctionOnSet(g, T)
<1> DEFINE P == {s \in SUBSET T : SumFunctionOnSet(h, s) = SumFunctionOnSet(f, s) + SumFunctionOnSet(g, s)}
<1>1. \A x \in T : f[x] \in Int /\ g[x] \in Int /\ h[x] \in Int
  OBVIOUS
<1>2. {} \in P
  BY <1>1, SumGrows
<1>3. ASSUME NEW s \in SUBSET T, NEW x \in T \ s, s \in P PROVE s \cup {x} \in P
  <2>1. /\ SumFunctionOnSet(f, s \cup {x}) = SumFunctionOnSet(f, s) + f[x]
        /\ SumFunctionOnSet(g, s \cup {x}) = SumFunctionOnSet(g, s) + g[x]
        /\ SumFunctionOnSet(h, s \cup {x}) = SumFunctionOnSet(h, s) + h[x]
    BY <1>1, SumGrows
  <2>2. SumFunctionOnSet(f, s) \in Int /\ SumFunctionOnSet(g, s) \in Int
    BY <1>1, SumGrows
  <2>3. SumFunctionOnSet(h, s) = SumFunctionOnSet(f, s) + SumFunctionOnSet(g, s)
    BY <1>3
  <2>4. h[x] = f[x] + g[x] /\ f[x] \in Int /\ g[x] \in Int
    OBVIOUS
  <2>5. SumFunctionOnSet(h, s \cup {x}) = SumFunctionOnSet(f, s \cup {x}) + SumFunctionOnSet(g, s \cup {x})
    BY <2>1, <2>2, <2>3, <2>4
  <2> QED  BY <2>5
<1> HIDE DEF P
<1>4. T \in P
  BY <1>2, <1>3, GrowInduction
<1> QED  BY <1>4 DEF P

\* A factor comes out of a sum.
LEMMA SumScales ==
  ASSUME NEW T, IsFiniteSet(T), NEW f, NEW g, NEW d \in Int,
         \A x \in T : f[x] \in Int /\ g[x] = f[x] * d
  PROVE  SumFunctionOnSet(g, T) = SumFunctionOnSet(f, T) * d
<1> DEFINE P == {s \in SUBSET T : SumFunctionOnSet(g, s) = SumFunctionOnSet(f, s) * d}
<1>1. \A x \in T : f[x] \in Int /\ g[x] \in Int
  OBVIOUS
<1>2. {} \in P
  BY <1>1, SumGrows
<1>3. ASSUME NEW s \in SUBSET T, NEW x \in T \ s, s \in P PROVE s \cup {x} \in P
  <2>1. /\ SumFunctionOnSet(f, s \cup {x}) = SumFunctionOnSet(f, s) + f[x]
        /\ SumFunctionOnSet(g, s \cup {x}) = SumFunctionOnSet(g, s) + g[x]
    BY <1>1, SumGrows
  <2>2. SumFunctionOnSet(f, s) \in Int
    BY <1>1, SumGrows
  <2>3. SumFunctionOnSet(g, s) = SumFunctionOnSet(f, s) * d
    BY <1>3
  <2>4. g[x] = f[x] * d /\ f[x] \in Int
    OBVIOUS
  <2>5. \A u, v \in Int : (u + v) * d = u * d + v * d
    OBVIOUS
  <2>6. SumFunctionOnSet(g, s \cup {x}) = SumFunctionOnSet(f, s \cup {x}) * d
    BY <2>1, <2>2, <2>3, <2>4, <2>5
  <2> QED  BY <2>6
<1> HIDE DEF P
<1>4. T \in P
  BY <1>2, <1>3, GrowInduction
<1> QED  BY <1>4 DEF P

\* Zeros come to zero.
LEMMA SumOfZeros ==
  ASSUME NEW T, IsFiniteSet(T), NEW f, \A x \in T : f[x] = 0
  PROVE  SumFunctionOnSet(f, T) = 0
<1>1. \A x \in T : f[x] \in Int /\ f[x] = f[x] * 0
  OBVIOUS
<1>2. SumFunctionOnSet(f, T) = SumFunctionOnSet(f, T) * 0
  BY <1>1, SumScales
<1>3. SumFunctionOnSet(f, T) \in Int
  BY <1>1, SumGrows
<1> QED  BY <1>2, <1>3

\* The sum over two sets without a common member.
LEMMA SumOfParts ==
  ASSUME NEW S, NEW T, IsFiniteSet(S), IsFiniteSet(T), S \cap T = {},
         NEW f, \A x \in S \cup T : f[x] \in Int
  PROVE  SumFunctionOnSet(f, S \cup T) = SumFunctionOnSet(f, S) + SumFunctionOnSet(f, T)
<1> DEFINE P == {r \in SUBSET T :
                   SumFunctionOnSet(f, S \cup r) = SumFunctionOnSet(f, S) + SumFunctionOnSet(f, r)}
           U == S \cup T
<1>1. IsFiniteSet(U) /\ S \in SUBSET U /\ T \in SUBSET U
  BY FS_Union
<1>2. SumFunctionOnSet(f, S) \in Int
  BY <1>1, SumGrows
<1>3. {} \in P
  <2>1. S \cup {} = S /\ SumFunctionOnSet(f, {}) = 0
    BY <1>1, SumGrows
  <2> QED  BY <1>2, <2>1
<1>4. ASSUME NEW r \in SUBSET T, NEW x \in T \ r, r \in P PROVE r \cup {x} \in P
  <2> DEFINE q == S \cup r
  <2>1. q \in SUBSET U /\ x \in U \ q /\ r \in SUBSET U /\ x \in U \ r /\ S \cup (r \cup {x}) = q \cup {x}
    OBVIOUS
  <2>2. SumFunctionOnSet(f, r \cup {x}) = SumFunctionOnSet(f, r) + f[x] /\ SumFunctionOnSet(f, r) \in Int
    BY <1>1, <2>1, SumGrows
  <2>3. SumFunctionOnSet(f, q) = SumFunctionOnSet(f, S) + SumFunctionOnSet(f, r) /\ f[x] \in Int
    BY <1>4
  <2> HIDE DEF q, U
  <2>4. SumFunctionOnSet(f, q \cup {x}) = SumFunctionOnSet(f, q) + f[x]
    BY <1>1, <2>1, SumGrows DEF U
  <2>5. SumFunctionOnSet(f, q \cup {x}) = SumFunctionOnSet(f, S) + SumFunctionOnSet(f, r \cup {x})
    BY <1>2, <2>2, <2>3, <2>4
  <2>6. r \cup {x} \in SUBSET T
    OBVIOUS
  <2> QED  BY <2>1, <2>5, <2>6
<1> HIDE DEF P
<1>5. T \in P
  BY <1>3, <1>4, GrowInduction
<1> QED  BY <1>5 DEF P

\* A table of numbers by rows, and the same by columns.
Table(F, G, T, U) == \A x \in T, y \in U : F[x][y] \in Int /\ G[y][x] = F[x][y]

\* The sum of a table by rows is its sum by columns.
LEMMA SumSwaps ==
  ASSUME NEW T, NEW U, IsFiniteSet(T), IsFiniteSet(U), NEW F, NEW G, Table(F, G, T, U),
         NEW r, \A x \in T : r[x] = SumFunctionOnSet(F[x], U),
         NEW q, \A y \in U : q[y] = SumFunctionOnSet(G[y], T)
  PROVE  SumFunctionOnSet(r, T) = SumFunctionOnSet(q, U)
<1>0. \A x \in T, y \in U : F[x][y] \in Int /\ G[y][x] = F[x][y]
  BY DEF Table
<1> DEFINE col(y)  == G[y]
           part(s) == [y \in U |-> SumFunctionOnSet(col(y), s)]
           P == {s \in SUBSET T : SumFunctionOnSet(r, s) = SumFunctionOnSet(part(s), U)}
<1>1. \A y \in U : \A x \in T : col(y)[x] = F[x][y] /\ col(y)[x] \in Int
  BY <1>0
<1>2. \A x \in T : r[x] = SumFunctionOnSet(F[x], U) /\ r[x] \in Int
  <2> TAKE x \in T
  <2>1. \A y \in U : F[x][y] \in Int
    BY <1>0
  <2>2. SumFunctionOnSet(F[x], U) \in Int
    BY <2>1, SumGrows
  <2> QED  BY <2>2
<1> HIDE DEF col
<1>3. \A y \in U : /\ SumFunctionOnSet(col(y), {}) = 0
                   /\ \A s \in SUBSET T : SumFunctionOnSet(col(y), s) \in Int
                   /\ \A s \in SUBSET T : \A x \in T \ s :
                        SumFunctionOnSet(col(y), s \cup {x}) = SumFunctionOnSet(col(y), s) + col(y)[x]
  BY <1>1, SumGrows
<1>4. {} \in P
  <2>1. \A y \in U : part({})[y] = 0
    BY <1>3
  <2> HIDE DEF part
  <2>2. SumFunctionOnSet(part({}), U) = 0
    BY <2>1, SumOfZeros
  <2>3. SumFunctionOnSet(r, {}) = 0
    BY <1>2, SumGrows
  <2> QED  BY <2>2, <2>3
<1>5. ASSUME NEW s \in SUBSET T, NEW x \in T \ s, s \in P PROVE s \cup {x} \in P
  <2> DEFINE more == s \cup {x}
  <2>1. \A y \in U : /\ part(s)[y] \in Int /\ F[x][y] \in Int
                     /\ part(more)[y] = part(s)[y] + F[x][y]
    BY <1>0, <1>1, <1>3
  <2> HIDE DEF part
  <2>2. SumFunctionOnSet(part(more), U) = SumFunctionOnSet(part(s), U) + SumFunctionOnSet(F[x], U)
    <3> DEFINE f == part(s)  g == F[x]  h == part(more)
    <3>1. \A y \in U : f[y] \in Int /\ g[y] \in Int /\ h[y] = f[y] + g[y]
      BY <2>1
    <3> HIDE DEF f, g, h
    <3>2. SumFunctionOnSet(h, U) = SumFunctionOnSet(f, U) + SumFunctionOnSet(g, U)
      BY <3>1, SumOfTwo
    <3> QED  BY <3>2 DEF f, g, h
  <2>3. SumFunctionOnSet(r, more) = SumFunctionOnSet(r, s) + r[x]
    BY <1>2, SumGrows
  <2>4. SumFunctionOnSet(r, s) = SumFunctionOnSet(part(s), U) /\ r[x] = SumFunctionOnSet(F[x], U)
    BY <1>2, <1>5
  <2>5. more \in SUBSET T
    OBVIOUS
  <2> HIDE DEF more
  <2>6. SumFunctionOnSet(r, more) = SumFunctionOnSet(part(more), U)
    BY <2>2, <2>3, <2>4
  <2> QED  BY <2>5, <2>6 DEF more
<1>6. T \in P
  <2> HIDE DEF P
  <2> QED  BY <1>4, <1>5, GrowInduction
<1>7. SumFunctionOnSet(part(T), U) = SumFunctionOnSet(q, U)
  <2>1. \A y \in U : part(T)[y] = q[y]
    BY DEF col
  <2> HIDE DEF part
  <2> QED  BY <2>1, SumCongruence
<1> QED  BY <1>6, <1>7

-----------------------------------------------------------------------------
(* Digits.  Products, quotients and remainders have names here, so that the  *)
(* lemmas below can be applied without arithmetic.                           *)

Times(x, y)  == x * y
Put(x, d, r) == x * d + r    \* the number with digits x and r
Quot(x, d)   == x \div d
Rem(x, d)    == x % d

\* Multiplication keeps the order.
LEMMA Scale ==
  ASSUME NEW d \in Nat, NEW x \in Nat, NEW y \in Nat, x <= y
  PROVE  x * d <= y * d
OBVIOUS

\* Quotient and remainder of what was put together from them.
LEMMA Digits ==
  ASSUME NEW d \in Nat \ {0}, NEW q \in Nat, NEW r \in 0 .. d - 1
  PROVE  Put(q, d, r) \in Nat /\ Quot(Put(q, d, r), d) = q /\ Rem(Put(q, d, r), d) = r
BY DEF Put, Quot, Rem

\* A number is put together from its quotient and remainder, and a bound on it
\* bounds the quotient.
LEMMA Split ==
  ASSUME NEW d \in Nat \ {0}, NEW e \in Nat, NEW x \in 0 .. Times(e, d) - 1
  PROVE  /\ Quot(x, d) \in 0 .. e - 1
         /\ Rem(x, d) \in 0 .. d - 1
         /\ x = Put(Quot(x, d), d, Rem(x, d))
<1>1. x \in Nat /\ x < e * d
  <2>1. e * d \in Nat  OBVIOUS
  <2> QED  BY <2>1 DEF Times
<1>2. x \div d \in Nat /\ x % d \in 0 .. d - 1 /\ x = (x \div d) * d + (x % d)
  BY <1>1
<1>3. x \div d < e
  BY <1>1
<1> QED  BY <1>2, <1>3 DEF Put, Quot, Rem

\* A leading digit decides; otherwise the last one does.
LEMMA DigitOrder ==
  ASSUME NEW d \in Nat \ {0}, NEW x \in Nat, NEW y \in Nat,
         NEW r \in 0 .. d - 1, NEW s \in 0 .. d - 1,
         x < y \/ (x = y /\ r < s)
  PROVE  Put(x, d, r) < Put(y, d, s)
<1>1. CASE x < y
  <2>1. (x + 1) * d <= y * d  BY <1>1, Scale
  <2>2. (x + 1) * d = x * d + d  OBVIOUS
  <2> QED  BY <2>1, <2>2 DEF Put
<1> QED  BY <1>1 DEF Put

\* A number with a digit in front stays below the product of the bounds.
LEMMA DigitBound ==
  ASSUME NEW d \in Nat \ {0}, NEW e \in Nat, NEW x \in 0 .. e - 1, NEW r \in 0 .. d - 1
  PROVE  Put(x, d, r) \in 0 .. Times(e, d) - 1
<1>1. (x + 1) * d <= e * d  BY Scale
<1>2. (x + 1) * d = x * d + d  OBVIOUS
<1>3. x * d \in Nat  OBVIOUS
<1>4. e * d \in Nat  OBVIOUS
<1> QED  BY <1>1, <1>2, <1>3, <1>4 DEF Put, Times

-----------------------------------------------------------------------------
(* Products of int32: numbers that an int32 cannot tell apart. *)

Modulus == 2 ^ AccBits

Alike(x, y) == \E q \in Int : x = y + q * Modulus

\* A multiple of the modulus less than the modulus is none.
LEMMA SmallMultiple ==
  ASSUME NEW P \in Nat \ {0}, NEW q \in Int, -P < q * P, q * P < P
  PROVE  q = 0
<1>1. CASE q >= 1
  <2>1. q - 1 \in Nat /\ (q - 1) * P \in Nat /\ q * P = (q - 1) * P + P
    BY <1>1
  <2> QED  BY <2>1
<1>2. CASE q <= -1
  <2>1. -1 - q \in Nat /\ (-1 - q) * P \in Nat /\ q * P = -((-1 - q) * P) - P
    BY <1>2
  <2> QED  BY <2>1
<1> QED  BY <1>1, <1>2

\* The modulus and what is half of it.
LEMMA ModulusType == Modulus \in Nat \ {0} /\ 2 ^ (AccBits - 1) \in Nat \ {0} /\ Modulus = 2 * 2 ^ (AccBits - 1)
<1>1. 2 ^ (AccBits - 1) \in Nat \ {0} /\ 2 ^ AccBits = 2 * 2 ^ (AccBits - 1)
  BY ShapeAssumption
<1> DEFINE H == 2 ^ (AccBits - 1)
<1> HIDE DEF H
<1>2. H \in Nat \ {0} => 2 * H \in Nat \ {0}
  OBVIOUS
<1> QED  BY <1>1, <1>2 DEF Modulus, H

\* Numbers alike leave the same remainder.
LEMMA AlikeRemainders ==
  ASSUME NEW P \in Nat \ {0}, NEW x \in Int, NEW y \in Int, NEW q \in Int, x = y + q * P
  PROVE  x % P = y % P
<1> DEFINE m == x \div P  n == y \div P  r == x % P  s == y % P
<1>1. m \in Int /\ r \in 0 .. P - 1 /\ x = P * m + r
  OBVIOUS
<1>2. n \in Int /\ s \in 0 .. P - 1 /\ y = P * n + s
  OBVIOUS
<1> HIDE DEF m, n, r, s
<1>3. q + n - m \in Int /\ r - s = (q + n - m) * P
  <2>1. (q + n - m) * P = q * P + P * n - P * m
    BY <1>1, <1>2
  <2>2. P * m \in Int /\ P * n \in Int /\ q * P \in Int
    BY <1>1, <1>2
  <2> QED  BY <1>1, <1>2, <2>1, <2>2
<1>4. -P < r - s /\ r - s < P
  BY <1>1, <1>2
<1>5. q + n - m = 0
  BY <1>3, <1>4, SmallMultiple
<1>6. 0 * P = 0
  OBVIOUS
<1> QED  BY <1>1, <1>2, <1>3, <1>5, <1>6 DEF r, s

\* A cast to int32: a number alike, and the same one for numbers alike.
LEMMA WrapAlike ==
  ASSUME NEW x \in Int
  PROVE  /\ Wrap(x, AccBits) \in Int /\ Alike(Wrap(x, AccBits), x)
         /\ \A y \in Int : Alike(x, y) => Wrap(x, AccBits) = Wrap(y, AccBits)
<1> DEFINE P == Modulus  H == 2 ^ (AccBits - 1)
<1>1. P \in Nat \ {0} /\ H \in Nat
  BY ModulusType
<1>2. \A z \in Int : Wrap(z, AccBits) = ((z + H) % P) - H
  BY DEF Wrap, Modulus
<1> HIDE DEF P, H
<1>3. /\ (x + H) % P \in Int /\ (x + H) \div P \in Int
      /\ x + H = P * ((x + H) \div P) + ((x + H) % P)
  BY <1>1
<1>4. Wrap(x, AccBits) \in Int
  BY <1>1, <1>2, <1>3
<1>5. Alike(Wrap(x, AccBits), x)
  <2> DEFINE q == (x + H) \div P
  <2>1. q \in Int /\ -q \in Int /\ (-q) * P = -(P * q) /\ P * q \in Int
    BY <1>1, <1>3
  <2> HIDE DEF q
  <2>2. ((x + H) % P) - H = x + (-q) * P
    BY <1>1, <1>3, <2>1 DEF q
  <2> QED  BY <1>2, <2>1, <2>2 DEF Alike, P
<1>6. ASSUME NEW y \in Int, Alike(x, y) PROVE Wrap(x, AccBits) = Wrap(y, AccBits)
  <2>1. PICK q \in Int : x = y + q * P
    BY <1>6 DEF Alike, P
  <2>2. q * P \in Int /\ x + H = (y + H) + q * P /\ x + H \in Int /\ y + H \in Int
    BY <1>1, <2>1
  <2>3. (x + H) % P = (y + H) % P
    BY <1>1, <2>2, AlikeRemainders
  <2> QED  BY <1>2, <2>3
<1> QED  BY <1>4, <1>5, <1>6

\* To be alike is an equivalence, and sums and products respect it.
LEMMA AlikeEquals ==
  ASSUME NEW x \in Int
  PROVE  /\ Alike(x, x)
         /\ \A y \in Int : Alike(x, y) => Alike(y, x)
         /\ \A y \in Int, z \in Int : Alike(x, y) /\ Alike(y, z) => Alike(x, z)
<1> DEFINE P == Modulus
<1>1. P \in Nat \ {0}
  BY ModulusType
<1> HIDE DEF P
<1>2. Alike(x, x)
  <2>1. x = x + 0 * P /\ 0 \in Int
    BY <1>1
  <2> QED  BY <2>1 DEF Alike, P
<1>3. ASSUME NEW y \in Int, Alike(x, y) PROVE Alike(y, x)
  <2>1. PICK q \in Int : x = y + q * P
    BY <1>3 DEF Alike, P
  <2>2. q * P \in Int /\ (-q) * P = -(q * P) /\ -q \in Int
    BY <1>1
  <2>3. y = x + (-q) * P
    BY <2>1, <2>2
  <2> QED  BY <2>2, <2>3 DEF Alike, P
<1>4. ASSUME NEW y \in Int, NEW z \in Int, Alike(x, y), Alike(y, z) PROVE Alike(x, z)
  <2>1. PICK q \in Int : x = y + q * P
    BY <1>4 DEF Alike, P
  <2>2. PICK r \in Int : y = z + r * P
    BY <1>4 DEF Alike, P
  <2>3. q * P \in Int /\ r * P \in Int /\ (r + q) * P = r * P + q * P /\ r + q \in Int
    BY <1>1
  <2>4. x = z + (r + q) * P
    BY <2>1, <2>2, <2>3
  <2> QED  BY <2>3, <2>4 DEF Alike, P
<1> QED  BY <1>2, <1>3, <1>4

\* Sums, differences and products by a number.
LEMMA AlikeSums ==
  ASSUME NEW x \in Int, NEW y \in Int, NEW u \in Int, NEW v \in Int, Alike(x, u), Alike(y, v)
  PROVE  Alike(x + y, u + v) /\ Alike(x - y, u - v) /\ \A d \in Int : Alike(x * d, u * d)
<1> DEFINE P == Modulus
<1>1. P \in Nat \ {0}
  BY ModulusType
<1> HIDE DEF P
<1>2. PICK q \in Int : x = u + q * P
  BY DEF Alike, P
<1>3. PICK r \in Int : y = v + r * P
  BY DEF Alike, P
<1>4. q * P \in Int /\ r * P \in Int /\ (q + r) * P = q * P + r * P /\ (q - r) * P = q * P - r * P
  BY <1>1
<1>5. x + y = (u + v) + (q + r) * P /\ q + r \in Int
  BY <1>2, <1>3, <1>4
<1>6. x - y = (u - v) + (q - r) * P /\ q - r \in Int
  BY <1>2, <1>3, <1>4
<1>7. ASSUME NEW d \in Int PROVE Alike(x * d, u * d)
  <2>1. x * d = u * d + (q * d) * P /\ q * d \in Int
    BY <1>1, <1>2
  <2> QED  BY <2>1 DEF Alike, P
<1> QED  BY <1>5, <1>6, <1>7 DEF Alike, P

\* Sums of numbers alike are alike.
LEMMA AlikeTotals ==
  ASSUME NEW T, IsFiniteSet(T), NEW f, NEW g,
         \A x \in T : f[x] \in Int /\ g[x] \in Int /\ Alike(f[x], g[x])
  PROVE  Alike(SumFunctionOnSet(f, T), SumFunctionOnSet(g, T))
<1> DEFINE P == {s \in SUBSET T : Alike(SumFunctionOnSet(f, s), SumFunctionOnSet(g, s))}
<1>1. {} \in P
  <2>1. SumFunctionOnSet(f, {}) = 0 /\ SumFunctionOnSet(g, {}) = 0
    BY SumGrows
  <2>2. Alike(0, 0)
    BY AlikeEquals
  <2> QED  BY <2>1, <2>2
<1>2. ASSUME NEW s \in SUBSET T, NEW x \in T \ s, s \in P PROVE s \cup {x} \in P
  <2>1. /\ SumFunctionOnSet(f, s \cup {x}) = SumFunctionOnSet(f, s) + f[x]
        /\ SumFunctionOnSet(g, s \cup {x}) = SumFunctionOnSet(g, s) + g[x]
        /\ SumFunctionOnSet(f, s) \in Int /\ SumFunctionOnSet(g, s) \in Int
    BY SumGrows
  <2>2. f[x] \in Int /\ g[x] \in Int /\ Alike(f[x], g[x])
    OBVIOUS
  <2>3. Alike(SumFunctionOnSet(f, s), SumFunctionOnSet(g, s))
    BY <1>2
  <2>4. Alike(SumFunctionOnSet(f, s) + f[x], SumFunctionOnSet(g, s) + g[x])
    BY <2>1, <2>2, <2>3, AlikeSums
  <2> QED  BY <2>1, <2>4
<1> HIDE DEF P
<1>3. T \in P
  BY <1>1, <1>2, GrowInduction
<1> QED  BY <1>3 DEF P

-----------------------------------------------------------------------------
(* Rows by columns. *)

\* The shapes are finite.
LEMMA ShapesFinite ==
  /\ {M, K, N, Rank, HashH, HashW, Slots} \subseteq Nat \ {0}
  /\ IsFiniteSet(Deep) /\ IsFiniteSet(Ranks) /\ \A p \in Int : IsFiniteSet(0 .. p - 1)
<1>1. {M, K, N, Rank, HashH, HashW, Slots} \subseteq Nat \ {0}
  BY ShapeAssumption
<1>2. \A p \in Int : p - 1 \in Int /\ 0 \in Int
  OBVIOUS
<1>3. \A p \in Int : IsFiniteSet(0 .. p - 1)
  BY <1>2, FS_Interval
<1> QED  BY <1>1, <1>3 DEF Deep, Ranks

\* A row by a column is a sum.
LEMMA DotIsSum ==
  ASSUME NEW S, IsFiniteSet(S), NEW x, NEW y, \A s \in S : x[s] \in Int /\ y[s] \in Int
  PROVE  /\ Dot(x, y, S) = SumFunctionOnSet([s \in S |-> x[s] * y[s]], S)
         /\ Dot(x, y, S) \in Int
<1> DEFINE f == [s \in S |-> x[s] * y[s]]
<1>1. Dot(x, y, S) = SumFunctionOnSet(f, S)
  BY DEF Dot, SumFunction
<1>2. \A s \in S : f[s] \in Int
  OBVIOUS
<1> HIDE DEF f
<1>3. SumFunctionOnSet(f, S) \in Int
  BY <1>2, SumGrows
<1> QED  BY <1>1, <1>3 DEF f

\* A line of a permutation matrix takes one entry and leaves another.
LEMMA LineTakesTwo ==
  ASSUME NEW d \in [Ranks -> Int], NEW line \in SignedLines, line.plus # line.minus,
         NEW f, \A s \in Ranks : f[s] = Entry(line, s) * d[s]
  PROVE  SumFunctionOnSet(f, Ranks) = d[line.plus] - d[line.minus]
<1> DEFINE p == line.plus  m == line.minus  most == Ranks \ {p}  rest == most \ {m}
<1>1. p \in Ranks /\ m \in Ranks /\ p # m
  BY DEF SignedLines
<1>2. f[p] = d[p] /\ f[m] = -d[m] /\ d[p] \in Int /\ d[m] \in Int
  BY <1>1 DEF Entry
<1>3. \A s \in Ranks : f[s] \in Int
  BY DEF Entry
<1>4. \A s \in rest : f[s] = 0
  BY DEF Entry
<1>5. Ranks \in SUBSET Ranks /\ most \in SUBSET Ranks /\ rest \in SUBSET Ranks /\ m \in most
  BY <1>1
<1>9. IsFiniteSet(Ranks)
  BY ShapesFinite
<1>6. SumFunctionOnSet(f, Ranks) = f[p] + SumFunctionOnSet(f, most)
  BY <1>1, <1>3, <1>5, <1>9, SumTakesOut
<1>7. SumFunctionOnSet(f, most) = f[m] + SumFunctionOnSet(f, rest)
  <2> HIDE DEF most
  <2> QED  BY <1>1, <1>3, <1>5, <1>9, SumTakesOut
<1>8. SumFunctionOnSet(f, rest) = 0
  <2>1. IsFiniteSet(rest)
    BY <1>5, ShapesFinite, FS_Subset
  <2> HIDE DEF rest
  <2> QED  BY <1>4, <2>1, SumOfZeros
<1> HIDE DEF most, rest
<1> QED  BY <1>2, <1>6, <1>7, <1>8

\* Lines with two signs, and what they take of d for a row v.
Signed(lines) == lines \in [Deep -> SignedLines] /\ \A k \in Deep : lines[k].plus # lines[k].minus
Takes(r, v, lines, d) ==
  \A k \in Deep : v[k] \in Int /\ r[k] = v[k] * (d[lines[k].plus] - d[lines[k].minus])

\* Projected by lines and multiplied by a column d of dense noise, a row v comes to the
\* products of its entries by what each line takes of d.
LEMMA Projection ==
  ASSUME NEW v, NEW lines, Signed(lines), NEW d \in [Ranks -> Int], NEW r, Takes(r, v, lines, d)
  PROVE  /\ \A s \in Ranks : Project(v, lines)[s] \in Int
         /\ Dot(Project(v, lines), d, Ranks) \in Int
         /\ SumFunctionOnSet(r, Deep) \in Int
         /\ Alike(Dot(Project(v, lines), d, Ranks), SumFunctionOnSet(r, Deep))
<1> DEFINE F == [k \in Deep |-> [s \in Ranks |-> (Entry(lines[k], s) * d[s]) * v[k]]]
           line(s) == [k \in Deep |-> Entry(lines[k], s)]
           e(s) == Dot(v, line(s), Deep)
           q == [s \in Ranks |-> e(s) * d[s]]
           w == [s \in Ranks |-> Project(v, lines)[s] * d[s]]
<1>0. /\ lines \in [Deep -> SignedLines] /\ \A k \in Deep : lines[k].plus # lines[k].minus
      /\ \A k \in Deep : v[k] \in Int /\ r[k] = v[k] * (d[lines[k].plus] - d[lines[k].minus])
  BY DEF Signed, Takes
<1>1. \A k \in Deep, s \in Ranks : Entry(lines[k], s) \in Int /\ d[s] \in Int /\ F[k][s] \in Int
  BY <1>0 DEF Entry
<1>2. ASSUME NEW k \in Deep
      PROVE  r[k] = SumFunctionOnSet(F[k], Ranks) /\ r[k] \in Int
  <2> DEFINE f == [s \in Ranks |-> Entry(lines[k], s) * d[s]]
             g == F[k]
  <2>1. \A s \in Ranks : f[s] = Entry(lines[k], s) * d[s] /\ f[s] \in Int /\ g[s] = f[s] * v[k]
    BY <1>1
  <2>2. lines[k] \in SignedLines /\ lines[k].plus # lines[k].minus /\ v[k] \in Int
    BY <1>0
  <2> HIDE DEF f, g
  <2>3. SumFunctionOnSet(f, Ranks) = d[lines[k].plus] - d[lines[k].minus]
    BY <2>1, <2>2, LineTakesTwo
  <2>4. SumFunctionOnSet(g, Ranks) = SumFunctionOnSet(f, Ranks) * v[k]
    <3>1. IsFiniteSet(Ranks) /\ v[k] \in Int /\ \A s \in Ranks : f[s] \in Int /\ g[s] = f[s] * v[k]
      BY <2>1, <2>2, ShapesFinite
    <3> QED  BY <3>1, SumScales
  <2>5. d[lines[k].plus] \in Int /\ d[lines[k].minus] \in Int
    BY <2>2 DEF SignedLines
  <2>6. r[k] = (d[lines[k].plus] - d[lines[k].minus]) * v[k]
    BY <1>0, <2>2, <2>5
  <2>7. r[k] \in Int
    BY <2>2, <2>5, <2>6
  <2> QED  BY <2>3, <2>4, <2>6, <2>7 DEF g
<1>3. ASSUME NEW s \in Ranks
      PROVE  /\ e(s) \in Int
             /\ e(s) * d[s] = SumFunctionOnSet([k \in Deep |-> F[k][s]], Deep)
             /\ Project(v, lines)[s] = Wrap(e(s), AccBits)
  <2> DEFINE f == [k \in Deep |-> v[k] * line(s)[k]]
             g == [k \in Deep |-> F[k][s]]
  <2>1. \A k \in Deep : v[k] \in Int /\ line(s)[k] \in Int
    BY <1>0, <1>1
  <2>2. e(s) = SumFunctionOnSet(f, Deep) /\ e(s) \in Int
    <3> HIDE DEF line
    <3> QED  BY <2>1, ShapesFinite, DotIsSum
  <2>3. \A k \in Deep : f[k] \in Int /\ g[k] = f[k] * d[s]
    <3> TAKE k \in Deep
    <3>1. f[k] = v[k] * Entry(lines[k], s) /\ g[k] = (Entry(lines[k], s) * d[s]) * v[k]
      OBVIOUS
    <3>2. v[k] \in Int /\ Entry(lines[k], s) \in Int /\ d[s] \in Int
      BY <1>0, <1>1
    <3> HIDE DEF f, g
    <3>3. \A x, y, z \in Int : (y * z) * x = (x * y) * z /\ x * y \in Int
      OBVIOUS
    <3> QED  BY <3>1, <3>2, <3>3
  <2>4. d[s] \in Int
    OBVIOUS
  <2> HIDE DEF f, g
  <2>5. SumFunctionOnSet(g, Deep) = SumFunctionOnSet(f, Deep) * d[s]
    <3>1. IsFiniteSet(Deep)
      BY ShapesFinite
    <3> QED  BY <2>3, <2>4, <3>1, SumScales
  <2>6. Project(v, lines)[s] = Wrap(e(s), AccBits)
    BY DEF Project
  <2> QED  BY <2>2, <2>5, <2>6 DEF g
<1> HIDE DEF e, F
<1>4. SumFunctionOnSet(r, Deep) = SumFunctionOnSet(q, Ranks)
  <2> DEFINE G == [s \in Ranks |-> [k \in Deep |-> F[k][s]]]
  <2>1. \A s \in Ranks : q[s] = SumFunctionOnSet(G[s], Deep)
    BY <1>3
  <2>2. \A k \in Deep : r[k] = SumFunctionOnSet(F[k], Ranks)
    BY <1>2
  <2>3. \A k \in Deep, s \in Ranks : F[k][s] \in Int
    BY <1>1
  <2>4. IsFiniteSet(Deep) /\ IsFiniteSet(Ranks)
    BY ShapesFinite
  <2>5. Table(F, G, Deep, Ranks)
    BY <2>3 DEF Table
  <2> HIDE DEF q, G
  <2> QED  BY <2>1, <2>2, <2>4, <2>5, SumSwaps
<1>5. SumFunctionOnSet(r, Deep) \in Int
  BY <1>2, ShapesFinite, SumGrows
<1>6. \A s \in Ranks : Project(v, lines)[s] \in Int /\ Alike(Project(v, lines)[s], e(s))
  BY <1>3, WrapAlike
<1>7. \A s \in Ranks : w[s] \in Int /\ q[s] \in Int /\ Alike(w[s], q[s])
  <2> TAKE s \in Ranks
  <2>1. d[s] \in Int /\ e(s) \in Int /\ Project(v, lines)[s] \in Int
    BY <1>3, <1>6
  <2>2. Alike(Project(v, lines)[s] * d[s], e(s) * d[s])
    BY <1>6, <2>1, AlikeSums
  <2> QED  BY <2>1, <2>2
<1>8. Dot(Project(v, lines), d, Ranks) = SumFunctionOnSet(w, Ranks) /\ Dot(Project(v, lines), d, Ranks) \in Int
  <2>1. \A s \in Ranks : Project(v, lines)[s] \in Int /\ d[s] \in Int
    BY <1>6
  <2> QED  BY <2>1, ShapesFinite, DotIsSum
<1> HIDE DEF w, q
<1>9. Alike(SumFunctionOnSet(w, Ranks), SumFunctionOnSet(q, Ranks))
  BY <1>7, ShapesFinite, AlikeTotals
<1> QED  BY <1>4, <1>5, <1>6, <1>8, <1>9

\* A row na of integers that is x with its noise.
IsNoised(na, x, e, lines) ==
  \A k \in Deep : x[k] \in Int /\ na[k] = x[k] + (e[lines[k].plus] - e[lines[k].minus])

\* The noise comes off: what is taken from the noised product is, for an int32, what the
\* noise has put there.
LEMMA NoiseComesOff ==
  ASSUME NEW x, NEW y, NEW al \in [Ranks -> Int], NEW br \in [Ranks -> Int],
         NEW ar, Signed(ar), NEW bl, Signed(bl),
         NEW na, IsNoised(na, x, al, ar), NEW nb, IsNoised(nb, y, br, bl)
  PROVE  Wrap(Wrap(Dot(na, nb, Deep), AccBits)
                - Wrap(Dot(Project(x, bl), br, Ranks), AccBits)
                - Wrap(Dot(al, Project(nb, ar), Ranks), AccBits), AccBits)
           = Wrap(Dot(x, y, Deep), AccBits)
<1> DEFINE ea(k) == al[ar[k].plus] - al[ar[k].minus]
           eb(k) == br[bl[k].plus] - br[bl[k].minus]
           f  == [k \in Deep |-> x[k] * y[k]]
           ra == [k \in Deep |-> x[k] * eb(k)]
           rb == [k \in Deep |-> nb[k] * ea(k)]
           fa == [k \in Deep |-> f[k] + ra[k]]
           n  == [k \in Deep |-> na[k] * nb[k]]
           off == Dot(Project(x, bl), br, Ranks)
           out == Dot(Project(nb, ar), al, Ranks)
<1>1. \A k \in Deep : /\ x[k] \in Int /\ y[k] \in Int /\ ea(k) \in Int /\ eb(k) \in Int
                      /\ na[k] = x[k] + ea(k) /\ nb[k] = y[k] + eb(k)
  BY DEF Signed, SignedLines, IsNoised
<1> HIDE DEF ea, eb
<1>2. \A k \in Deep : na[k] \in Int /\ nb[k] \in Int
  BY <1>1
<1>3. \A k \in Deep : /\ f[k] \in Int /\ ra[k] \in Int /\ rb[k] \in Int /\ fa[k] \in Int /\ n[k] \in Int
                      /\ fa[k] = f[k] + ra[k] /\ n[k] = fa[k] + rb[k]
  <2> TAKE k \in Deep
  <2>1. x[k] \in Int /\ y[k] \in Int /\ na[k] = x[k] + ea(k) /\ nb[k] = y[k] + eb(k) /\ ea(k) \in Int /\ eb(k) \in Int
    BY <1>1
  <2>2. f[k] = x[k] * y[k] /\ ra[k] = x[k] * eb(k) /\ rb[k] = nb[k] * ea(k) /\ fa[k] = f[k] + ra[k]
        /\ n[k] = na[k] * nb[k]
    OBVIOUS
  <2> HIDE DEF f, ra, rb, fa, n
  <2>3. \A p, q, d, e \in Int : /\ (p + d) * (q + e) = (p * q + p * e) + (q + e) * d
                                /\ p * q \in Int /\ p * e \in Int /\ (q + e) * d \in Int
    OBVIOUS
  <2>4. /\ na[k] * nb[k] = (x[k] * y[k] + x[k] * eb(k)) + nb[k] * ea(k)
        /\ x[k] * y[k] \in Int /\ x[k] * eb(k) \in Int /\ nb[k] * ea(k) \in Int
    BY <2>1, <2>3
  <2> QED  BY <2>2, <2>4
<1>4. IsFiniteSet(Deep) /\ IsFiniteSet(Ranks)
  BY ShapesFinite
<1>5. /\ off \in Int /\ SumFunctionOnSet(ra, Deep) \in Int /\ Alike(off, SumFunctionOnSet(ra, Deep))
  <2>1. Takes(ra, x, bl, br)
    BY <1>1 DEF Takes, eb
  <2>3. off = Dot(Project(x, bl), br, Ranks)
    OBVIOUS
  <2> HIDE DEF ra, f, rb, fa, n, off, out
  <2>4. /\ Dot(Project(x, bl), br, Ranks) \in Int /\ SumFunctionOnSet(ra, Deep) \in Int
        /\ Alike(Dot(Project(x, bl), br, Ranks), SumFunctionOnSet(ra, Deep))
    BY <2>1, Projection
  <2> QED  BY <2>3, <2>4
<1>6. /\ out \in Int /\ SumFunctionOnSet(rb, Deep) \in Int /\ Alike(out, SumFunctionOnSet(rb, Deep))
      /\ \A s \in Ranks : Project(nb, ar)[s] \in Int
  <2>1. Takes(rb, nb, ar, al)
    BY <1>2 DEF Takes, ea
  <2>3. out = Dot(Project(nb, ar), al, Ranks)
    OBVIOUS
  <2> HIDE DEF ra, f, rb, fa, n, off, out
  <2>4. /\ Dot(Project(nb, ar), al, Ranks) \in Int /\ SumFunctionOnSet(rb, Deep) \in Int
        /\ Alike(Dot(Project(nb, ar), al, Ranks), SumFunctionOnSet(rb, Deep))
        /\ \A s \in Ranks : Project(nb, ar)[s] \in Int
    BY <2>1, Projection
  <2> QED  BY <2>3, <2>4
<1>7. Dot(al, Project(nb, ar), Ranks) = out
  <2> DEFINE p == Project(nb, ar)
             u == [s \in Ranks |-> al[s] * p[s]]
             v == [s \in Ranks |-> p[s] * al[s]]
  <2>1. \A s \in Ranks : p[s] \in Int /\ al[s] \in Int
    BY <1>6
  <2> HIDE DEF p
  <2>2. \A s \in Ranks : u[s] = v[s]
    BY <2>1
  <2>3. Dot(al, p, Ranks) = SumFunctionOnSet(u, Ranks) /\ Dot(p, al, Ranks) = SumFunctionOnSet(v, Ranks)
    BY <1>4, <2>1, DotIsSum
  <2> HIDE DEF u, v
  <2>4. SumFunctionOnSet(u, Ranks) = SumFunctionOnSet(v, Ranks)
    BY <1>4, <2>2, SumCongruence
  <2> QED  BY <2>3, <2>4 DEF p
<1>8. Dot(na, nb, Deep) = SumFunctionOnSet(n, Deep) /\ Dot(x, y, Deep) = SumFunctionOnSet(f, Deep)
  BY <1>1, <1>2, <1>4, DotIsSum
<1> HIDE DEF f, ra, rb, fa, n, off, out
<1>9. /\ SumFunctionOnSet(fa, Deep) = SumFunctionOnSet(f, Deep) + SumFunctionOnSet(ra, Deep)
      /\ SumFunctionOnSet(n, Deep) = SumFunctionOnSet(fa, Deep) + SumFunctionOnSet(rb, Deep)
  BY <1>3, <1>4, SumOfTwo
<1>10. SumFunctionOnSet(f, Deep) \in Int /\ SumFunctionOnSet(n, Deep) \in Int
  BY <1>3, <1>4, SumGrows
<1> DEFINE sn == SumFunctionOnSet(n, Deep)  sa == SumFunctionOnSet(ra, Deep)
           sb == SumFunctionOnSet(rb, Deep) sf == SumFunctionOnSet(f, Deep)
           wn == Wrap(sn, AccBits)  wa == Wrap(off, AccBits)  wb == Wrap(out, AccBits)
<1>11. sn \in Int /\ sa \in Int /\ sb \in Int /\ sf \in Int /\ (sn - sa) - sb = sf
  BY <1>5, <1>6, <1>9, <1>10
<1>12. /\ wn \in Int /\ Alike(wn, sn)
       /\ wa \in Int /\ Alike(wa, off)
       /\ wb \in Int /\ Alike(wb, out)
  BY <1>5, <1>6, <1>11, WrapAlike
<1>13. Alike(wa, sa) /\ Alike(wb, sb)
  BY <1>5, <1>6, <1>11, <1>12, AlikeEquals
<1> HIDE DEF sn, sa, sb, sf, wn, wa, wb
<1>14. Alike(wn - wa, sn - sa) /\ wn - wa \in Int /\ sn - sa \in Int
  BY <1>11, <1>12, <1>13, AlikeSums
<1>15. Alike((wn - wa) - wb, (sn - sa) - sb) /\ (wn - wa) - wb \in Int
  BY <1>11, <1>12, <1>13, <1>14, AlikeSums
<1>16. Wrap((wn - wa) - wb, AccBits) = Wrap(sf, AccBits)
  BY <1>11, <1>15, WrapAlike
<1> QED  BY <1>7, <1>8, <1>16 DEF sn, sf, wn, wa, wb, off

-----------------------------------------------------------------------------
(* The noised product of the reference. *)

(* The high half of a product by less than a full word is below the factor. *)
LEMMA HighHalf ==
  ASSUME NEW P \in Nat \ {0}, NEW R \in Nat, R > 1, NEW u \in 0 .. P - 1
  PROVE  ((R - 1) * u) \div P \in 0 .. R - 2
<1> DEFINE q == ((R - 1) * u) \div P
<1>1. (R - 1) * u \in Nat /\ (R - 1) * u <= (R - 1) * (P - 1)
  OBVIOUS
<1>2. q \in Nat /\ q * P <= (R - 1) * u
  BY <1>1
<1>3. (R - 1) * (P - 1) < (R - 1) * P
  OBVIOUS
<1>4. q * P < (R - 1) * P
  BY <1>1, <1>2, <1>3
<1>5. q < R - 1
  BY <1>2, <1>4
<1> QED
  BY <1>2, <1>5

(* A word of the hash makes a line of the rank with two different places. *)
LEMMA LineSigned ==
  ASSUME NEW u \in 0 .. 2 ^ WordBits - 1
  PROVE  Line(u) \in SignedLines /\ Line(u).plus # Line(u).minus
<1> DEFINE first == u % Rank  step == 1 + MulHi(Rank - 1, u)
<1>1. Rank \in Nat /\ Rank > 1 /\ 2 ^ WordBits \in Nat \ {0}
  BY ShapeAssumption
<1>2. u \in Nat /\ first \in Ranks
  BY <1>1 DEF Ranks
<1>3. MulHi(Rank - 1, u) \in 0 .. Rank - 2
  BY <1>1, HighHalf DEF MulHi
<1>4. step \in Ranks /\ step # 0
  BY <1>1, <1>3 DEF Ranks
<1>5. XorOf[first][step] \in Ranks /\ XorOf[first][step] # first
  BY <1>2, <1>4, XorAssumption
<1> QED
  BY <1>2, <1>5 DEF Line, LineBy, SignedLines

(* The dense noise is in the range of its name. *)
LEMMA UniformInRange ==
  ASSUME NEW byte \in Nat
  PROVE  Uniform(byte) \in Uniforms
<1>1. RangeSize \in Nat \ {0} /\ ZeroPoint \in Nat
  BY ShapeAssumption DEF RangeSize, ZeroPoint
<1>2. byte % RangeSize \in 0 .. RangeSize - 1
  BY <1>1
<1> QED
  BY <1>1, <1>2 DEF Uniform, Uniforms

(* A cast to a width that has room keeps the value. *)
LEMMA WrapKeeps ==
  ASSUME NEW x \in Int, -(2 ^ (Bits - 1)) <= x, x < 2 ^ (Bits - 1)
  PROVE  Wrap(x, Bits) = x
<1> DEFINE H == 2 ^ (Bits - 1)  F == 2 ^ Bits
<1>1. H \in Nat \ {0} /\ F = 2 * H
  BY ShapeAssumption
<1> HIDE DEF H, F
<1>2. ASSUME NEW h \in Nat \ {0}, -h <= x, x < h PROVE ((x + h) % (2 * h)) - h = x
  BY <1>2
<1>3. ((x + H) % F) - H = x
  BY <1>1, <1>2 DEF H
<1> QED
  BY <1>3 DEF Wrap, H, F

(* What a row of data within its range and two dense entries come to. *)
LEMMA SumFits ==
  ASSUME NEW x \in Low .. High, NEW e \in Uniforms, NEW f \in Uniforms
  PROVE  /\ -(2 ^ (Bits - 1)) <= e - f /\ e - f < 2 ^ (Bits - 1)
         /\ -(2 ^ (Bits - 1)) <= x + (e - f) /\ x + (e - f) < 2 ^ (Bits - 1)
<1> DEFINE H == 2 ^ (Bits - 1)  F == 2 ^ Bits
<1>1. H \in Nat \ {0} /\ F = 2 * H /\ NoiseRange \in Nat /\ NoiseRange > 1 /\ NoiseRange <= H
  BY ShapeAssumption
<1> HIDE DEF H, F
<1>2. RangeSize \in Nat \ {0} /\ 2 * RangeSize <= NoiseRange /\ NoiseRange <= 2 * RangeSize + 1
  BY <1>1 DEF RangeSize
<1>3. ZeroPoint \in Nat
  BY <1>2 DEF ZeroPoint
<1>4. e \in Int /\ f \in Int /\ 1 - RangeSize <= e - f /\ e - f <= RangeSize - 1
  BY <1>2, <1>3 DEF Uniforms
<1>5. Low = (NoiseRange - 2 * H) \div 2 /\ High = Low + 2 * H - NoiseRange - 1
  BY <1>1 DEF Low, High, F
<1>6. Low \in Int /\ Low = RangeSize - H
  BY <1>1, <1>2, <1>5
<1>7. x \in Int /\ Low <= x /\ x <= High /\ High \in Int
  BY <1>1, <1>5, <1>6
<1>8. -H <= e - f /\ e - f < H /\ -H <= x + (e - f) /\ x + (e - f) < H
  BY <1>1, <1>2, <1>4, <1>5, <1>6, <1>7
<1> QED
  BY <1>8 DEF H

(* Adding noise to a row in range loses nothing. *)
LEMMA RowFits ==
  ASSUME NEW x \in [Deep -> Int], \A k \in Deep : x[k] \in Low .. High,
         NEW e \in [Ranks -> Uniforms], NEW lines \in [Deep -> SignedLines], NEW k \in Deep
  PROVE  AddNoise(x, e, lines)[k] = x[k] + (e[lines[k].plus] - e[lines[k].minus])
<1> DEFINE p == e[lines[k].plus]  q == e[lines[k].minus]
<1>1. p \in Uniforms /\ q \in Uniforms
  BY DEF SignedLines
<1>2. x[k] \in Low .. High /\ x[k] \in Int
  OBVIOUS
<1>3. p \in Int /\ q \in Int
  BY <1>1, ShapeAssumption DEF Uniforms, RangeSize, ZeroPoint
<1>4. p - q \in Int /\ x[k] + (p - q) \in Int
  BY <1>2, <1>3
<1>5. Wrap(p - q, Bits) = p - q
  BY <1>1, <1>2, <1>4, SumFits, WrapKeeps
<1>6. Wrap(x[k] + (p - q), Bits) = x[k] + (p - q)
  BY <1>1, <1>2, <1>4, SumFits, WrapKeeps
<1>7. AddNoise(x, e, lines)[k] = Wrap(x[k] + Wrap(p - q, Bits), Bits)
  BY DEF AddNoise
<1> QED
  BY <1>5, <1>6, <1>7

-----------------------------------------------------------------------------
GemmInv == GemmTypeOK /\ LinesAreSigned /\ NoiseFits

\* Nothing is generated at the start.
LEMMA InitHolds == GemmInit => GemmInv
BY DEF GemmInit, GemmInv, GemmTypeOK, LinesAreSigned, NoiseFits, NewBlock

(* generate gives typed noise with signed lines. *)
LEMMA GenerateHolds ==
  ASSUME GemmInv, NEW keyA \in KeysA, NEW keyB \in KeysB, Generate(keyA, keyB)
  PROVE  GemmInv'
<1>1. keyA \in Streams(Rows) /\ keyB \in Streams(Cols)
  BY InputAssumption
<1>2. \A i \in Rows, s \in Ranks : Uniform(keyA.bytes[i][s]) \in Uniforms
  BY <1>1, UniformInRange DEF Streams
<1>3. \A j \in Cols, s \in Ranks : Uniform(keyB.bytes[j][s]) \in Uniforms
  BY <1>1, UniformInRange DEF Streams
<1>4. \A k \in Deep : /\ Line(keyA.words[k]) \in SignedLines /\ Line(keyB.words[k]) \in SignedLines
                      /\ Line(keyA.words[k]).plus # Line(keyA.words[k]).minus
                      /\ Line(keyB.words[k]).plus # Line(keyB.words[k]).minus
  BY <1>1, LineSigned DEF Streams
<1>5. noise' = Noise(keyA, keyB) /\ stage' = "run" /\ UNCHANGED <<a, b, at, block>>
  BY DEF Generate
<1>6. GemmTypeOK'
  BY <1>2, <1>3, <1>4, <1>5 DEF GemmInv, GemmTypeOK, Noise
<1>7. LinesAreSigned'
  BY <1>4, <1>5 DEF LinesAreSigned, Noise
<1>8. NoiseFits'
  BY <1>5 DEF NoiseFits
<1> QED
  BY <1>6, <1>7, <1>8 DEF GemmInv

(* The data that pass the validation take the noise without a wrap. *)
LEMMA AddNoisesHolds ==
  ASSUME GemmInv, AddNoises
  PROVE  GemmInv'
<1>1. a \in [Rows -> [Deep -> Int]] /\ b \in [Cols -> [Deep -> Int]]
  BY InputAssumption DEF GemmInv, GemmTypeOK
<1>2. /\ \A i \in Rows : \A k \in Deep : a[i][k] \in Low .. High
      /\ \A j \in Cols : \A k \in Deep : b[j][k] \in Low .. High
  BY <1>1 DEF AddNoises, InRange
<1>3. noise \in [al : [Rows -> [Ranks -> Uniforms]], ar : [Deep -> SignedLines],
                  bl : [Deep -> SignedLines], br : [Cols -> [Ranks -> Uniforms]]]
  BY DEF GemmInv, GemmTypeOK, AddNoises
<1>4. /\ \A i \in Rows : noised'.a[i] = AddNoise(a[i], noise.al[i], noise.ar)
      /\ \A j \in Cols : noised'.b[j] = AddNoise(b[j], noise.br[j], noise.bl)
  BY DEF AddNoises, NoiseA, NoiseB, NoiseBFrom, ColumnsNoised
<1>5. UNCHANGED <<a, b, noise, at, block>> /\ stage' = "tiles" /\ stage = "run"
  BY DEF AddNoises
<1>6. GemmTypeOK'
  BY <1>5 DEF GemmInv, GemmTypeOK
<1>7. LinesAreSigned'
  BY <1>5 DEF GemmInv, LinesAreSigned
<1>8. ASSUME NEW i \in Rows, NEW k \in Deep
      PROVE  noised'.a[i][k] = a[i][k] + (noise.al[i][noise.ar[k].plus] - noise.al[i][noise.ar[k].minus])
  <2>1. a[i] \in [Deep -> Int] /\ noise.al[i] \in [Ranks -> Uniforms] /\ noise.ar \in [Deep -> SignedLines]
    BY <1>1, <1>3
  <2> QED
    BY <2>1, <1>2, <1>4, RowFits
<1>9. ASSUME NEW j \in Cols, NEW k \in Deep
      PROVE  noised'.b[j][k] = b[j][k] + (noise.br[j][noise.bl[k].plus] - noise.br[j][noise.bl[k].minus])
  <2>1. b[j] \in [Deep -> Int] /\ noise.br[j] \in [Ranks -> Uniforms] /\ noise.bl \in [Deep -> SignedLines]
    BY <1>1, <1>3
  <2> QED
    BY <2>1, <1>2, <1>4, RowFits
<1>10. NoiseFits'
  BY <1>5, <1>8, <1>9 DEF NoiseFits
<1> QED
  BY <1>6, <1>7, <1>10 DEF GemmInv

(* A step that leaves the data and the noise alone keeps the invariant. *)
LEMMA MovesHold ==
  ASSUME GemmInv, UNCHANGED <<a, b, noise, noised>>, stage \in {"tiles", "denoise"},
         stage' \in {"tiles", "denoise", "done"},
         at' \in [i : Nat, j : Nat, p : Nat], block'.reduction \in Nat
  PROVE  GemmInv'
BY DEF GemmInv, GemmTypeOK, LinesAreSigned, NoiseFits

(* The loops of the product move their own variables only. *)
LEMMA ProductHolds ==
  ASSUME GemmInv, Chunk \/ Denoise \/ \E lucky \in SUBSET Tiles : EndBlock(lucky)
  PROVE  GemmInv'
<1>1. {Rank} \subseteq Nat
  BY ShapeAssumption
<1>2. UNCHANGED <<a, b, noise, noised>> /\ stage \in {"tiles", "denoise"} /\ stage' \in {"tiles", "denoise", "done"}
  BY DEF GemmInv, GemmTypeOK, Chunk, Denoise, EndBlock
<1>3. CASE Chunk
  <2>1. at' = [at EXCEPT !.p = @ + Rank] /\ block' = Fold
    BY <1>3 DEF Chunk
  <2>2. at \in [i : Nat, j : Nat, p : Nat] /\ block.reduction \in Nat /\ Rank \in Nat
    BY <1>1 DEF GemmInv, GemmTypeOK
  <2>3. at' \in [i : Nat, j : Nat, p : Nat]
    BY <2>1, <2>2
  <2>4. Fold.reduction = block.reduction + 1 \/ Fold.reduction = block.reduction
    BY DEF Fold, FoldedInto
  <2> QED
    BY <2>1, <2>2, <2>3, <2>4, <1>2, MovesHold
<1>4. CASE \E lucky \in SUBSET Tiles : EndBlock(lucky)
  <2> PICK lucky \in SUBSET Tiles : EndBlock(lucky)
    BY <1>4
  <2>1. \/ at' = [at EXCEPT !.j = @ + Rank, !.p = 0]
        \/ at' = [i |-> at.i + Rank, j |-> 0, p |-> 0]
    BY DEF EndBlock
  <2>2. at \in [i : Nat, j : Nat, p : Nat] /\ Rank \in Nat
    BY <1>1 DEF GemmInv, GemmTypeOK
  <2>3. at.i + Rank \in Nat /\ at.j + Rank \in Nat /\ 0 \in Nat
    BY <2>2
  <2>4. at' \in [i : Nat, j : Nat, p : Nat]
    <3>1. CASE at' = [at EXCEPT !.j = @ + Rank, !.p = 0]
      BY <3>1, <2>2, <2>3
    <3>2. CASE at' = [i |-> at.i + Rank, j |-> 0, p |-> 0]
      BY <3>2, <2>3
    <3> QED
      BY <2>1, <3>1, <3>2
  <2>5. block'.reduction = 0
    BY DEF EndBlock, NewBlock
  <2> QED
    BY <2>4, <2>5, <1>2, MovesHold
<1>5. CASE Denoise
  <2>1. UNCHANGED <<at, block>>
    BY <1>5 DEF Denoise
  <2> QED
    BY <2>1, <1>2, MovesHold DEF GemmInv, GemmTypeOK
<1> QED
  BY <1>3, <1>4, <1>5

\* The noise is made once and the noised matrices once; the rest of run keeps them.
LEMMA StepHolds == GemmInv /\ [GemmNext]_gemmVars => GemmInv'
<1> SUFFICES ASSUME GemmInv, [GemmNext]_gemmVars PROVE GemmInv'
  OBVIOUS
<1>1. ASSUME NEW keyA \in KeysA, NEW keyB \in KeysB, Generate(keyA, keyB) PROVE GemmInv'
  BY <1>1, GenerateHolds
<1>2. CASE Refuse
  BY <1>2 DEF Refuse, GemmInv, GemmTypeOK, LinesAreSigned, NoiseFits
<1>3. CASE AddNoises
  BY <1>3, AddNoisesHolds
<1>4. CASE Chunk \/ Denoise \/ \E lucky \in SUBSET Tiles : EndBlock(lucky)
  BY <1>4, ProductHolds
<1>5. CASE Returned \/ UNCHANGED gemmVars
  BY <1>5 DEF Returned, gemmVars, GemmInv, GemmTypeOK, LinesAreSigned, NoiseFits
<1> QED
  BY <1>1, <1>2, <1>3, <1>4, <1>5 DEF GemmNext

\* The inductive invariant holds in every behaviour.
LEMMA AlwaysHolds == GemmSpec => []GemmInv
BY InitHolds, StepHolds, PTL DEF GemmSpec

(* pearl_reference.py: the noise factors keep their ranges (lines 98-144). *)
THEOREM GemmTypeCorrect == GemmSpec => []GemmTypeOK
BY AlwaysHolds, PTL DEF GemmInv

(* _permutation_matrix: every line has a +1 and a -1 at two different places. *)
THEOREM LinesHaveTwoSigns == GemmSpec => []LinesAreSigned
BY AlwaysHolds, PTL DEF GemmInv

(* noise_A and noise_B: no cast to int8 wraps, for any keys and any data that    *)
(* pass the validation.                                                          *)
THEOREM NoiseNeverWraps == GemmSpec => []NoiseFits
BY AlwaysHolds, PTL DEF GemmInv

-----------------------------------------------------------------------------
(* The blocks of the product. *)

\* The int32 entry of the noised product over the first p of the inner dimension.
ProductOf(x, y, p) == Wrap(Dot(x, y, 0 .. p - 1), AccBits)
Product(i, j, p)   == ProductOf(noised.a[i], noised.b[j], p)

Area == (0 .. Height(at.i) - 1) \X (0 .. Width(at.j) - 1)

Untouched == at = [i |-> 0, j |-> 0, p |-> 0] /\ block = NewBlock(0, 0) /\ opened = None

Projected ==
  /\ \A i \in Rows : noised.aebl[i] = Project(a[i], noise.bl)
  /\ \A j \in Cols : noised.earb[j] = Project(noised.b[j], noise.ar)

\* The accumulators are at p, and the blocks before this one are in C.
Accumulated ==
  /\ at.i < M /\ at.j < N
  /\ block.acc = [xy \in Area |-> Product(at.i + xy[1], at.j + xy[2], Least(at.p, K))]

Copied == \A i \in Rows, j \in Cols :
            i < at.i \/ (i < at.i + Rank /\ j < at.j) => c[i][j] = Product(i, j, K)

ProductInv ==
  /\ stage \in {"generate", "run"} => Untouched
  /\ stage = "tiles" => Accumulated /\ Copied
  /\ stage \in {"tiles", "denoise"} => Projected
  /\ stage = "denoise" => \A i \in Rows, j \in Cols : c[i][j] = Product(i, j, K)
  /\ ProductIsExact

\* Over nothing the product is zero; over p and the chunk up to q it is that over q.
LEMMA ProductStarts == ASSUME NEW x, NEW y PROVE ProductOf(x, y, 0) = 0
<1>1. 0 .. 0 - 1 = {} /\ IsFiniteSet({})
  BY FS_EmptySet
<1>2. \A s \in {} : x[s] \in Int /\ y[s] \in Int
  OBVIOUS
<1>3. \A f : SumFunctionOnSet(f, {}) = 0
  BY <1>1, SumTakesOut
<1>4. Dot(x, y, {}) = 0
  BY <1>1, <1>2, <1>3, DotIsSum
<1> DEFINE H == 2 ^ (AccBits - 1)
<1>5. H \in Nat \ {0} /\ Modulus = 2 * H
  BY ModulusType
<1> HIDE DEF H
<1>6. ((0 + H) % (2 * H)) - H = 0
  BY <1>5
<1> QED  BY <1>1, <1>4, <1>5, <1>6 DEF ProductOf, Wrap, Modulus, H

\* The next chunk.
LEMMA ProductGoesOn ==
  ASSUME NEW p \in Nat, NEW q \in Nat, p <= q, NEW x, NEW y, \A k \in 0 .. q - 1 : x[k] \in Int /\ y[k] \in Int
  PROVE  Wrap(ProductOf(x, y, p) + Dot(x, y, p .. q - 1), AccBits) = ProductOf(x, y, q)
<1> DEFINE S == 0 .. p - 1  T == p .. q - 1  U == 0 .. q - 1
           f == [k \in S |-> x[k] * y[k]]
           g == [k \in T |-> x[k] * y[k]]
           h == [k \in U |-> x[k] * y[k]]
<1>1. IsFiniteSet(S) /\ IsFiniteSet(T) /\ IsFiniteSet(U)
  BY FS_Interval
<1>2. S \cup T = U /\ S \cap T = {}
  OBVIOUS
<1>3. \A k \in U : x[k] \in Int /\ y[k] \in Int
  OBVIOUS
<1>4. (\A k \in S : f[k] = h[k]) /\ (\A k \in T : g[k] = h[k]) /\ \A k \in U : h[k] \in Int
  BY <1>2, <1>3
<1> HIDE DEF S, T, U
<1>5. /\ Dot(x, y, S) = SumFunctionOnSet(f, S) /\ Dot(x, y, S) \in Int
      /\ Dot(x, y, T) = SumFunctionOnSet(g, T) /\ Dot(x, y, T) \in Int
      /\ Dot(x, y, U) = SumFunctionOnSet(h, U) /\ Dot(x, y, U) \in Int
  BY <1>1, <1>2, <1>3, DotIsSum
<1> HIDE DEF f, g, h
<1>6. SumFunctionOnSet(f, S) = SumFunctionOnSet(h, S) /\ SumFunctionOnSet(g, T) = SumFunctionOnSet(h, T)
  BY <1>1, <1>4, SumCongruence
<1>7. SumFunctionOnSet(h, S \cup T) = SumFunctionOnSet(h, S) + SumFunctionOnSet(h, T)
  BY <1>1, <1>2, <1>4, SumOfParts
<1> DEFINE s == Dot(x, y, S)  t == Dot(x, y, T)  u == Dot(x, y, U)
<1>8. s \in Int /\ t \in Int /\ u \in Int /\ u = s + t
  BY <1>2, <1>5, <1>6, <1>7
<1> HIDE DEF s, t, u
<1>9. Wrap(s, AccBits) \in Int /\ Alike(Wrap(s, AccBits), s) /\ Alike(t, t)
  BY <1>8, WrapAlike, AlikeEquals
<1>10. Alike(Wrap(s, AccBits) + t, s + t) /\ Wrap(s, AccBits) + t \in Int
  <2> DEFINE w == Wrap(s, AccBits)
  <2>1. w \in Int /\ Alike(w, s)
    BY <1>9
  <2> HIDE DEF w
  <2>2. Alike(w + t, s + t)
    BY <1>8, <1>9, <2>1, AlikeSums
  <2> QED  BY <1>8, <2>1, <2>2 DEF w
<1>11. Wrap(Wrap(s, AccBits) + t, AccBits) = Wrap(u, AccBits)
  BY <1>8, <1>10, WrapAlike
<1> QED  BY <1>11 DEF ProductOf, s, t, u, S, T, U

\* The noised matrices are of integers, once they are made.
LEMMA NoisedType ==
  ASSUME GemmInv, stage \in {"tiles", "denoise", "done"}
  PROVE  /\ \A i \in Rows, k \in Deep : a[i][k] \in Int /\ noised.a[i][k] \in Int
         /\ \A j \in Cols, k \in Deep : b[j][k] \in Int /\ noised.b[j][k] \in Int
         /\ noise.al \in [Rows -> [Ranks -> Int]] /\ noise.br \in [Cols -> [Ranks -> Int]]
         /\ Signed(noise.ar) /\ Signed(noise.bl)
<1>1. a \in [Rows -> [Deep -> Int]] /\ b \in [Cols -> [Deep -> Int]]
  BY InputAssumption DEF GemmInv, GemmTypeOK
<1>2. noise \in [al : [Rows -> [Ranks -> Uniforms]], ar : [Deep -> SignedLines],
                 bl : [Deep -> SignedLines], br : [Cols -> [Ranks -> Uniforms]]]
  BY DEF GemmInv, GemmTypeOK
<1>3. Uniforms \subseteq Int
  BY ShapeAssumption DEF Uniforms, RangeSize, ZeroPoint
<1>4. noise.al \in [Rows -> [Ranks -> Int]] /\ noise.br \in [Cols -> [Ranks -> Int]]
  <2>1. noise.al \in [Rows -> [Ranks -> Uniforms]] /\ noise.br \in [Cols -> [Ranks -> Uniforms]]
    BY <1>2
  <2>2. [Ranks -> Uniforms] \subseteq [Ranks -> Int]
    BY <1>3
  <2> QED  BY <2>1, <2>2
<1>5. Signed(noise.ar) /\ Signed(noise.bl)
  BY <1>2 DEF GemmInv, LinesAreSigned, Signed
<1>6. \A i \in Rows, k \in Deep : a[i][k] \in Int /\ noised.a[i][k] \in Int
  <2> TAKE i \in Rows, k \in Deep
  <2>1. noise.ar[k].plus \in Ranks /\ noise.ar[k].minus \in Ranks /\ a[i][k] \in Int
    BY <1>1, <1>5 DEF Signed, SignedLines
  <2>2. noise.al[i][noise.ar[k].plus] \in Int /\ noise.al[i][noise.ar[k].minus] \in Int
    BY <1>4, <2>1
  <2>3. noised.a[i][k] = a[i][k] + (noise.al[i][noise.ar[k].plus] - noise.al[i][noise.ar[k].minus])
    BY DEF GemmInv, NoiseFits
  <2> QED  BY <2>1, <2>2, <2>3
<1>7. \A j \in Cols, k \in Deep : b[j][k] \in Int /\ noised.b[j][k] \in Int
  <2> TAKE j \in Cols, k \in Deep
  <2>1. noise.bl[k].plus \in Ranks /\ noise.bl[k].minus \in Ranks /\ b[j][k] \in Int
    BY <1>1, <1>5 DEF Signed, SignedLines
  <2>2. noise.br[j][noise.bl[k].plus] \in Int /\ noise.br[j][noise.bl[k].minus] \in Int
    BY <1>4, <2>1
  <2>3. noised.b[j][k] = b[j][k] + (noise.br[j][noise.bl[k].plus] - noise.br[j][noise.bl[k].minus])
    BY DEF GemmInv, NoiseFits
  <2> QED  BY <2>1, <2>2, <2>3
<1> QED  BY <1>4, <1>5, <1>6, <1>7

\* Of the loop variables and the shapes.
LEMMA LoopType ==
  ASSUME GemmInv
  PROVE  /\ at \in [i : Nat, j : Nat, p : Nat] /\ at.i \in Nat /\ at.j \in Nat /\ at.p \in Nat
         /\ M \in Nat \ {0} /\ N \in Nat \ {0} /\ K \in Nat \ {0} /\ Rank \in Nat \ {0}
         /\ block.reduction \in Nat
BY ShapesFinite DEF GemmInv, GemmTypeOK

\* Nothing is multiplied at the start.
LEMMA ProductInitInv == GemmInit => ProductInv
BY DEF GemmInit, ProductInv, Untouched, ProductIsExact

\* The first block begins.
LEMMA AddNoisesKeeps == ASSUME GemmInv, ProductInv, AddNoises PROVE ProductInv'
<1>1. /\ stage = "run" /\ stage' = "tiles" /\ UNCHANGED <<a, b, noise, at, block, opened>>
      /\ noised' = [a |-> NoiseA.a, aebl |-> NoiseA.aebl, b |-> NoiseB.b, earb |-> NoiseB.earb]
  BY DEF AddNoises
<1>2. at = [i |-> 0, j |-> 0, p |-> 0] /\ block = NewBlock(0, 0)
  BY <1>1 DEF ProductInv, Untouched
<1>3. Projected'
  <2>1. /\ noised'.aebl = [i \in Rows |-> Project(a[i], noise.bl)]
        /\ noised'.b = ColumnsNoised /\ noised'.earb = [j \in Cols |-> Project(ColumnsNoised[j], noise.ar)]
    BY <1>1 DEF NoiseA, NoiseB, NoiseBFrom
  <2> QED  BY <1>1, <2>1 DEF Projected
<1>4. Accumulated'
  <2>1. block.acc = [xy \in (0 .. Height(0) - 1) \X (0 .. Width(0) - 1) |-> 0]
    BY <1>2 DEF NewBlock
  <2>2. Least(0, K) = 0 /\ 0 < M /\ 0 < N
    BY LoopType DEF Least
  <2>3. \A x, y : ProductOf(x, y, 0) = 0
    BY ProductStarts
  <2>4. at'.i = 0 /\ at'.j = 0 /\ at'.p = 0 /\ block' = block /\ Area' = (0 .. Height(0) - 1) \X (0 .. Width(0) - 1)
    BY <1>1, <1>2 DEF Area, Height, Width
  <2> QED  BY <2>1, <2>2, <2>3, <2>4 DEF Accumulated, Product
<1>5. Copied'
  <2>1. \A i \in Rows, j \in Cols : ~(i < 0) /\ ~(j < 0)
    BY DEF Rows, Cols
  <2>2. at'.i = 0 /\ at'.j = 0
    BY <1>1, <1>2
  <2> QED  BY <2>1, <2>2 DEF Copied
<1> QED  BY <1>1, <1>3, <1>4, <1>5 DEF ProductInv, ProductIsExact

\* The chunk at p added to the accumulators.
LEMMA MultipliedIs ==
  ASSUME GemmInv, Accumulated, stage = "tiles", at.p < K
  PROVE  Multiplied = [xy \in Area |-> Product(at.i + xy[1], at.j + xy[2], Least(at.p + Rank, K))]
<1> DEFINE q == Least(at.p + Rank, K)
<1>1. q \in Nat /\ at.p <= q /\ q <= K /\ Least(at.p, K) = at.p
  BY LoopType DEF Least
<1> HIDE DEF q
<1>2. ASSUME NEW xy \in Area PROVE Multiplied[xy] = Product(at.i + xy[1], at.j + xy[2], q)
  <2> DEFINE x == noised.a[at.i + xy[1]]  y == noised.b[at.j + xy[2]]
  <2>1. at.i + xy[1] \in Rows /\ at.j + xy[2] \in Cols
    <3>1. xy[1] \in 0 .. Height(at.i) - 1 /\ xy[2] \in 0 .. Width(at.j) - 1
      BY DEF Area
    <3>2. Height(at.i) <= M - at.i /\ Width(at.j) <= N - at.j /\ Height(at.i) \in Int /\ Width(at.j) \in Int
      BY LoopType DEF Height, Width, Least
    <3>3. at.i \in Nat /\ at.j \in Nat /\ M \in Nat /\ N \in Nat
      BY LoopType
    <3> HIDE DEF Area
    <3> QED  BY <3>1, <3>2, <3>3 DEF Rows, Cols
  <2>2. \A k \in 0 .. q - 1 : x[k] \in Int /\ y[k] \in Int
    <3>1. \A k \in 0 .. q - 1 : k \in Deep
      BY <1>1, LoopType DEF Deep
    <3> QED  BY <2>1, <3>1, NoisedType
  <2>3. block.acc[xy] = ProductOf(x, y, at.p)
    BY <1>1 DEF Accumulated, Product
  <2>4. Multiplied[xy] = Wrap(block.acc[xy] + Dot(x, y, at.p .. q - 1), AccBits)
    BY DEF Multiplied, Accumulated, q
  <2>5. at.p \in Nat
    BY LoopType
  <2> HIDE DEF x, y
  <2>6. Wrap(ProductOf(x, y, at.p) + Dot(x, y, at.p .. q - 1), AccBits) = ProductOf(x, y, q)
    BY <1>1, <2>2, <2>5, ProductGoesOn
  <2> QED  BY <2>3, <2>4, <2>6 DEF Product, x, y
<1>3. DOMAIN block.acc = Area
  BY DEF Accumulated
<1>4. Multiplied = [xy \in Area |-> Multiplied[xy]]
  BY <1>3 DEF Multiplied
<1>5. Multiplied = [xy \in Area |-> Product(at.i + xy[1], at.j + xy[2], q)]
  BY <1>2, <1>4
<1> QED  BY <1>5 DEF q

\* A chunk: every accumulator is at the next p.
LEMMA ChunkKeeps == ASSUME GemmInv, ProductInv, Chunk PROVE ProductInv'
<1>1. /\ stage = "tiles" /\ stage' = "tiles" /\ at.p < K /\ block' = Fold
      /\ at' = [at EXCEPT !.p = @ + Rank] /\ UNCHANGED <<a, b, noise, noised, opened, c>>
  BY DEF Chunk
<1>2. /\ at'.i = at.i /\ at'.j = at.j /\ at'.p = at.p + Rank
  BY <1>1, LoopType
<1>3. block'.acc = Multiplied
  BY <1>1 DEF Fold, FoldedInto
<1>4. Accumulated /\ Copied /\ Projected
  BY <1>1 DEF ProductInv
<1>5. Multiplied = [xy \in Area |-> Product(at.i + xy[1], at.j + xy[2], Least(at.p + Rank, K))]
  BY <1>1, <1>4, MultipliedIs
<1>6. Area' = Area /\ \A i, j, p : Product(i, j, p)' = Product(i, j, p)
  BY <1>1, <1>2 DEF Area, Height, Width, Product
<1>7. Accumulated'
  BY <1>2, <1>3, <1>4, <1>5, <1>6 DEF Accumulated, Product
<1>8. Copied' /\ Projected'
  BY <1>1, <1>2, <1>4 DEF Copied, Projected, Product
<1> QED  BY <1>1, <1>7, <1>8 DEF ProductInv, ProductIsExact

\* A block is begun with its accumulators at zero.
LEMMA BlockStarts ==
  ASSUME NEW i \in Nat, NEW j \in Nat, i < M, j < N, at' = [i |-> i, j |-> j, p |-> 0], block' = NewBlock(i, j)
  PROVE  Accumulated'
<1>1. block'.acc = [xy \in (0 .. Height(i) - 1) \X (0 .. Width(j) - 1) |-> 0]
  BY DEF NewBlock
<1>2. at'.i = i /\ at'.j = j /\ at'.p = 0
  OBVIOUS
<1>3. Area' = (0 .. Height(i) - 1) \X (0 .. Width(j) - 1)
  BY <1>2 DEF Area, Height, Width
<1>4. Least(0, K) = 0
  BY ShapesFinite DEF Least
<1>5. \A x, y : ProductOf(x, y, 0) = 0
  BY ProductStarts
<1> QED  BY <1>1, <1>2, <1>3, <1>4, <1>5 DEF Accumulated, Product

\* A block's end: what the loops have reached, and the entries of C that it gives.
LEMMA EndBlockMoves ==
  ASSUME GemmInv, ProductInv, NEW lucky, EndBlock(lucky)
  PROVE  \E i \in Nat, j \in Nat :
           /\ at' = [i |-> i, j |-> j, p |-> 0]
           /\ \/ i = at.i /\ j = at.j + Rank /\ j < N
              \/ i = at.i + Rank /\ j = 0 /\ N <= at.j + Rank
           /\ block' = NewBlock(i, j)
           /\ stage' = (IF i < M THEN "tiles" ELSE "denoise")
           /\ \A u \in Rows, v \in Cols :
                c'[u][v] = IF u >= at.i /\ u < at.i + Rank /\ v >= at.j /\ v < at.j + Rank
                           THEN Product(u, v, K) ELSE c[u][v]
<1>1. /\ stage = "tiles" /\ at.p >= K
      /\ at' = IF at.j + Rank < N THEN [at EXCEPT !.j = @ + Rank, !.p = 0]
                                  ELSE [i |-> at.i + Rank, j |-> 0, p |-> 0]
      /\ block' = NewBlock(at'.i, at'.j)
      /\ stage' = IF at'.i < M THEN "tiles" ELSE "denoise"
  BY DEF EndBlock
<1>2. c' = [i \in Rows |-> [j \in Cols |->
              IF <<i - at.i, j - at.j>> \in DOMAIN block.acc
              THEN block.acc[<<i - at.i, j - at.j>>] ELSE c[i][j]]]
  BY DEF EndBlock
<1>3. at = [i |-> at.i, j |-> at.j, p |-> at.p] /\ at.i \in Nat /\ at.j \in Nat /\ at.p \in Nat
      /\ M \in Nat /\ N \in Nat /\ K \in Nat /\ Rank \in Nat
  BY LoopType
<1>4. Accumulated
  BY <1>1 DEF ProductInv
<1>5. ASSUME NEW u \in Rows, NEW v \in Cols
      PROVE  c'[u][v] = IF u >= at.i /\ u < at.i + Rank /\ v >= at.j /\ v < at.j + Rank
                        THEN Product(u, v, K) ELSE c[u][v]
  <2> DEFINE xy == <<u - at.i, v - at.j>>
  <2>1. u \in Nat /\ v \in Nat /\ u < M /\ v < N
    BY <1>3 DEF Rows, Cols
  <2>2. xy \in Area <=> u >= at.i /\ u < at.i + Rank /\ v >= at.j /\ v < at.j + Rank
    <3>1. xy \in Area <=> u - at.i \in 0 .. Height(at.i) - 1 /\ v - at.j \in 0 .. Width(at.j) - 1
      BY DEF Area
    <3>2. u - at.i \in 0 .. Height(at.i) - 1 <=> u >= at.i /\ u < at.i + Rank
      BY <1>3, <2>1 DEF Height, Least
    <3>3. v - at.j \in 0 .. Width(at.j) - 1 <=> v >= at.j /\ v < at.j + Rank
      BY <1>3, <2>1 DEF Width, Least
    <3> QED  BY <3>1, <3>2, <3>3
  <2>3. Least(at.p, K) = K
    BY <1>1, <1>3 DEF Least
  <2>4. xy \in Area => block.acc[xy] = Product(u, v, K)
    <3>1. at.i + xy[1] = u /\ at.j + xy[2] = v
      BY <1>3, <2>1
    <3> HIDE DEF xy
    <3> QED  BY <1>4, <2>3, <3>1 DEF Accumulated
  <2>5. DOMAIN block.acc = Area
    BY <1>4 DEF Accumulated
  <2>6. c'[u][v] = IF xy \in Area THEN block.acc[xy] ELSE c[u][v]
    BY <1>2, <2>5
  <2> HIDE DEF xy
  <2> QED  BY <2>2, <2>4, <2>6
<1>6. CASE at.j + Rank < N
  <2>1. at' = [i |-> at.i, j |-> at.j + Rank, p |-> 0]
    BY <1>1, <1>3, <1>6
  <2>2. at'.i = at.i /\ at'.j = at.j + Rank /\ at.j + Rank \in Nat
    BY <1>3, <2>1
  <2> QED  BY <1>1, <1>3, <1>5, <1>6, <2>1, <2>2
<1>7. CASE ~(at.j + Rank < N)
  <2>1. at' = [i |-> at.i + Rank, j |-> 0, p |-> 0]
    BY <1>1, <1>7
  <2>2. at'.i = at.i + Rank /\ at'.j = 0 /\ at.i + Rank \in Nat /\ N <= at.j + Rank
    BY <1>3, <1>7, <2>1
  <2> QED  BY <1>1, <1>3, <1>5, <2>1, <2>2
<1> QED  BY <1>6, <1>7

\* The block is copied to C and the next begins, or C is whole.
LEMMA EndBlockKeeps == ASSUME GemmInv, ProductInv, NEW lucky, EndBlock(lucky) PROVE ProductInv'
<1>1. stage = "tiles" /\ UNCHANGED <<a, b, noise, noised>>
  BY DEF EndBlock
<1>2. PICK i \in Nat, j \in Nat :
           /\ at' = [i |-> i, j |-> j, p |-> 0]
           /\ \/ i = at.i /\ j = at.j + Rank /\ j < N
              \/ i = at.i + Rank /\ j = 0 /\ N <= at.j + Rank
           /\ block' = NewBlock(i, j)
           /\ stage' = (IF i < M THEN "tiles" ELSE "denoise")
           /\ \A u \in Rows, v \in Cols :
                c'[u][v] = IF u >= at.i /\ u < at.i + Rank /\ v >= at.j /\ v < at.j + Rank
                           THEN Product(u, v, K) ELSE c[u][v]
  BY EndBlockMoves
<1>3. Accumulated /\ Copied /\ Projected
  BY <1>1 DEF ProductInv
<1>4. at.i \in Nat /\ at.j \in Nat /\ M \in Nat /\ N \in Nat \ {0} /\ Rank \in Nat /\ at.i < M
  BY <1>3, LoopType DEF Accumulated
<1>5. ASSUME NEW u \in Rows, NEW v \in Cols, u < i \/ (u < i + Rank /\ v < j)
      PROVE  c'[u][v] = Product(u, v, K)
  <2>1. u \in Nat /\ v \in Nat /\ u < M /\ v < N
    BY <1>4 DEF Rows, Cols
  <2>2. \/ u < at.i \/ (u < at.i + Rank /\ v < at.j)
        \/ u >= at.i /\ u < at.i + Rank /\ v >= at.j /\ v < at.j + Rank
    BY <1>2, <1>4, <1>5, <2>1
  <2>3. CASE u >= at.i /\ u < at.i + Rank /\ v >= at.j /\ v < at.j + Rank
    BY <1>2, <2>3
  <2>4. CASE ~(u >= at.i /\ u < at.i + Rank /\ v >= at.j /\ v < at.j + Rank)
    <3>1. c'[u][v] = c[u][v]
      BY <1>2, <2>4
    <3>2. c[u][v] = Product(u, v, K)
      BY <1>3, <2>2, <2>4 DEF Copied
    <3> QED  BY <3>1, <3>2
  <2> QED  BY <2>3, <2>4
<1>6. at'.i = i /\ at'.j = j /\ \A u, v, p : Product(u, v, p)' = Product(u, v, p)
  BY <1>1, <1>2 DEF Product
<1>7. Projected'
  BY <1>1, <1>3 DEF Projected
<1>8. CASE i < M
  <2>1. j < N
    BY <1>2, <1>4
  <2>2. Accumulated'
    BY <1>2, <1>8, <2>1, BlockStarts
  <2>3. Copied'
    BY <1>1, <1>5, <1>6 DEF Copied, Product
  <2>4. stage' = "tiles"
    BY <1>2, <1>8
  <2> QED  BY <1>7, <2>2, <2>3, <2>4 DEF ProductInv, ProductIsExact
<1>9. CASE ~(i < M)
  <2>1. \A u \in Rows, v \in Cols : c'[u][v] = Product(u, v, K)
    <3>1. \A u \in Rows : u < i
      BY <1>4, <1>9 DEF Rows
    <3> QED  BY <1>5, <3>1
  <2>2. stage' = "denoise"
    BY <1>2, <1>9
  <2>3. \A u \in Rows, v \in Cols : c'[u][v] = Product(u, v, K)'
    BY <1>6, <2>1
  <2> QED  BY <1>7, <2>2, <2>3 DEF ProductInv, ProductIsExact
<1> QED  BY <1>8, <1>9

\* The noise is taken off: C is the product of the data.
LEMMA DenoiseKeeps == ASSUME GemmInv, ProductInv, Denoise PROVE ProductInv'
<1>1. stage = "denoise" /\ stage' = "done" /\ UNCHANGED <<a, b>>
  BY DEF Denoise
<1>2. Projected /\ \A i \in Rows, j \in Cols : c[i][j] = Product(i, j, K)
  BY <1>1 DEF ProductInv
<1>3. ASSUME NEW i \in Rows, NEW j \in Cols PROVE c'[i][j] = Wrap(Dot(a[i], b[j], Deep), AccBits)
  <2> DEFINE x == a[i]  y == b[j]  na == noised.a[i]  nb == noised.b[j]
             al == noise.al[i]  br == noise.br[j]  ar == noise.ar  bl == noise.bl
  <2>2. al \in [Ranks -> Int] /\ br \in [Ranks -> Int] /\ Signed(ar) /\ Signed(bl)
    BY <1>1, NoisedType
  <2>3. IsNoised(na, x, al, ar)
    BY <1>1, NoisedType DEF GemmInv, NoiseFits, IsNoised
  <2>4. IsNoised(nb, y, br, bl)
    BY <1>1, NoisedType DEF GemmInv, NoiseFits, IsNoised
  <2>5. c'[i][j] = Wrap(c[i][j] - Wrap(Dot(noised.aebl[i], br, Ranks), AccBits)
                                - Wrap(Dot(al, noised.earb[j], Ranks), AccBits), AccBits)
    BY DEF Denoise
  <2>6. noised.aebl[i] = Project(x, bl) /\ noised.earb[j] = Project(nb, ar)
    BY <1>2 DEF Projected
  <2>7. c[i][j] = Wrap(Dot(na, nb, Deep), AccBits)
    BY <1>2 DEF Product, ProductOf, Deep
  <2> HIDE DEF x, y, na, nb, al, br, ar, bl
  <2>8. Wrap(Wrap(Dot(na, nb, Deep), AccBits)
                - Wrap(Dot(Project(x, bl), br, Ranks), AccBits)
                - Wrap(Dot(al, Project(nb, ar), Ranks), AccBits), AccBits)
           = Wrap(Dot(x, y, Deep), AccBits)
    BY <2>2, <2>3, <2>4, NoiseComesOff
  <2> QED  BY <2>5, <2>6, <2>7, <2>8 DEF x, y
<1>4. ProductIsExact'
  BY <1>1, <1>3 DEF ProductIsExact
<1> QED  BY <1>1, <1>4 DEF ProductInv

\* Every step of run keeps the product on its way.
LEMMA ProductStep == GemmInv /\ ProductInv /\ [GemmNext]_gemmVars => ProductInv'
<1> SUFFICES ASSUME GemmInv, ProductInv, [GemmNext]_gemmVars PROVE ProductInv'
  OBVIOUS
<1>1. ASSUME NEW keyA \in KeysA, NEW keyB \in KeysB, Generate(keyA, keyB) PROVE ProductInv'
  BY <1>1 DEF Generate, ProductInv, Untouched, ProductIsExact
<1>2. CASE Refuse
  BY <1>2 DEF Refuse, ProductInv, ProductIsExact
<1>3. CASE Returned \/ UNCHANGED gemmVars
  <2>1. UNCHANGED gemmVars
    BY <1>3 DEF Returned
  <2> QED  BY <2>1 DEF gemmVars, ProductInv, ProductIsExact, Untouched, Accumulated, Copied, Projected, Product, Area
<1> QED
  BY <1>1, <1>2, <1>3, AddNoisesKeeps, ChunkKeeps, EndBlockKeeps, DenoiseKeeps DEF GemmNext

\* run: C is A @ B, for all shapes, keys and matrices in range, though the accumulators
\* of the noised product and of the noise may each wrap (pearl_reference.py:245-328).
THEOREM ProductsAreExact == GemmSpec => []ProductIsExact
<1>1. ProductInv => ProductIsExact
  BY DEF ProductInv
<1> QED  BY <1>1, AlwaysHolds, ProductInitInv, ProductStep, PTL DEF GemmSpec

-----------------------------------------------------------------------------
(* The transcripts. *)

\* The hashed tile of the noised product over the first p, with its corner at i, j.
Piece(i, j, p) == [x \in 0 .. HashH - 1 |-> [y \in 0 .. HashW - 1 |-> Product(i + x, j + y, p)]]

\* What r foldings have put into the slot s: each Slots-th of them.
FoldsOf(r, s) == (r + Slots - 1 - s) \div Slots
WordOf(i, j, r, s) == [q \in 1 .. FoldsOf(r, s) |-> Piece(i, j, ((q - 1) * Slots + s + 1) * Rank)]

\* The foldings are the full chunks done, and the transcripts hold them.
Folded(n) ==
  n \in Nat /\ at.p = n * Rank /\ block.reduction = IF Tiles = {} THEN 0 ELSE Least(n, K \div Rank)

Transcribed ==
  block.words = [t \in Tiles |-> [s \in 0 .. Slots - 1 |->
                   WordOf(at.i + t[1] * HashH, at.j + t[2] * HashW, block.reduction, s)]]

ReplayInv ==
  /\ stage = "tiles" => (\E n : Folded(n)) /\ Transcribed
  /\ OpenedReplays

\* The foldings of a slot by the quotient and the remainder of their number.
LEMMA FoldsAre ==
  ASSUME NEW m \in Nat, NEW e \in 0 .. Slots - 1, NEW s \in 0 .. Slots - 1
  PROVE  FoldsOf(Put(m, Slots, e), s) = IF e > s THEN m + 1 ELSE m
<1>1. Slots \in Nat \ {0}
  BY ShapesFinite
<1>2. Put(m, Slots, e) \in Nat /\ Put(m, Slots, e) = m * Slots + e /\ m * Slots \in Nat
  BY <1>1, Digits DEF Put
<1>3. CASE e > s
  <2> DEFINE r == e - 1 - s
  <2>1. r \in 0 .. Slots - 1 /\ m + 1 \in Nat
    BY <1>1, <1>3
  <2>2. Put(m, Slots, e) + Slots - 1 - s = Put(m + 1, Slots, r)
    <3>1. (m + 1) * Slots = m * Slots + Slots
      BY <1>1
    <3> QED  BY <1>1, <1>2, <2>1, <3>1 DEF Put
  <2> HIDE DEF r
  <2>3. Quot(Put(m + 1, Slots, r), Slots) = m + 1
    BY <1>1, <2>1, Digits
  <2> QED  BY <1>3, <2>2, <2>3 DEF FoldsOf, Quot
<1>4. CASE ~(e > s)
  <2> DEFINE r == e + Slots - 1 - s
  <2>1. r \in 0 .. Slots - 1
    BY <1>1, <1>4
  <2>2. Put(m, Slots, e) + Slots - 1 - s = Put(m, Slots, r)
    BY <1>1, <1>2, <2>1 DEF Put
  <2> HIDE DEF r
  <2>3. Quot(Put(m, Slots, r), Slots) = m
    BY <1>1, <2>1, Digits
  <2> QED  BY <1>4, <2>2, <2>3 DEF FoldsOf, Quot
<1> QED  BY <1>3, <1>4

\* One folding more: the slot whose turn it is has one more, which is that folding.
LEMMA NextFold ==
  ASSUME NEW r \in Nat
  PROVE  /\ r % Slots \in 0 .. Slots - 1
         /\ \A s \in 0 .. Slots - 1 :
              /\ FoldsOf(r, s) \in Nat
              /\ FoldsOf(r + 1, s) = IF s = r % Slots THEN FoldsOf(r, s) + 1 ELSE FoldsOf(r, s)
              /\ s = r % Slots => (FoldsOf(r, s) * Slots) + s + 1 = r + 1
<1>1. Slots \in Nat \ {0}
  BY ShapesFinite
<1> DEFINE m == Quot(r, Slots)  e == Rem(r, Slots)
<1>2. m \in Nat /\ e \in 0 .. Slots - 1 /\ r = Put(m, Slots, e)
  BY <1>1 DEF Put, Quot, Rem
<1>3. e = r % Slots
  BY DEF Rem
<1> HIDE DEF m, e
<1>4. \A s \in 0 .. Slots - 1 : FoldsOf(r, s) = IF e > s THEN m + 1 ELSE m
  BY <1>2, FoldsAre
<1>5. \A s \in 0 .. Slots - 1 : FoldsOf(r + 1, s) = IF e >= s THEN m + 1 ELSE m
  <2>1. CASE e = Slots - 1
    <3>1. r + 1 = Put(m + 1, Slots, 0)
      <4>1. (m + 1) * Slots = m * Slots + Slots /\ m * Slots \in Nat
        BY <1>1, <1>2
      <4> QED  BY <1>1, <1>2, <2>1, <4>1 DEF Put
    <3>2. m + 1 \in Nat /\ 0 \in 0 .. Slots - 1
      BY <1>1, <1>2
    <3>3. \A s \in 0 .. Slots - 1 : FoldsOf(r + 1, s) = IF 0 > s THEN m + 1 + 1 ELSE m + 1
      BY <3>1, <3>2, FoldsAre
    <3> QED  BY <1>1, <1>2, <2>1, <3>3
  <2>2. CASE e # Slots - 1
    <3>1. r + 1 = Put(m, Slots, e + 1)
      <4>1. m * Slots \in Nat
        BY <1>1, <1>2
      <4> QED  BY <1>1, <1>2, <4>1 DEF Put
    <3>2. e + 1 \in 0 .. Slots - 1
      BY <1>1, <1>2, <2>2
    <3>3. \A s \in 0 .. Slots - 1 : FoldsOf(r + 1, s) = IF e + 1 > s THEN m + 1 ELSE m
      BY <1>2, <3>1, <3>2, FoldsAre
    <3> QED  BY <1>1, <1>2, <3>3
  <2> QED  BY <2>1, <2>2
<1>6. m * Slots + e + 1 = r + 1
  BY <1>1, <1>2 DEF Put
<1> QED  BY <1>1, <1>2, <1>3, <1>4, <1>5, <1>6

\* A sequence with one value more.
LEMMA OneMore ==
  ASSUME NEW n \in Nat, NEW F
  PROVE  Append([q \in 1 .. n |-> F[q]], F[n + 1]) = [q \in 1 .. n + 1 |-> F[q]]
<1> DEFINE s == [q \in 1 .. n |-> F[q]]  V == {F[q] : q \in 1 .. n + 1}
<1>1. s \in Seq(V) /\ Len(s) = n /\ F[n + 1] \in V
  OBVIOUS
<1> HIDE DEF V
<1>2. Append(s, F[n + 1]) = [q \in 1 .. n + 1 |-> IF q = n + 1 THEN F[n + 1] ELSE s[q]]
  BY <1>1
<1>3. \A q \in 1 .. n + 1 : (IF q = n + 1 THEN F[n + 1] ELSE s[q]) = F[q]
  OBVIOUS
<1> QED  BY <1>2, <1>3

\* A transcript's word after one more folding.
LEMMA WordGrows ==
  ASSUME NEW i, NEW j, NEW r \in Nat, NEW s \in 0 .. Slots - 1
  PROVE  WordOf(i, j, r + 1, s) = IF s = r % Slots
                                  THEN Append(WordOf(i, j, r, s), Piece(i, j, (r + 1) * Rank))
                                  ELSE WordOf(i, j, r, s)
<1>1. FoldsOf(r, s) \in Nat /\ Slots \in Nat /\ Rank \in Nat
  BY NextFold, ShapesFinite
<1>2. CASE s = r % Slots
  <2> DEFINE n == FoldsOf(r, s)
             F == [q \in 1 .. n + 1 |-> Piece(i, j, ((q - 1) * Slots + s + 1) * Rank)]
  <2>1. n \in Nat /\ FoldsOf(r + 1, s) = n + 1 /\ (n * Slots) + s + 1 = r + 1
    BY <1>1, <1>2, NextFold
  <2> HIDE DEF n
  <2>2. WordOf(i, j, r + 1, s) = [q \in 1 .. n + 1 |-> F[q]]
    BY <2>1 DEF WordOf
  <2>3. WordOf(i, j, r, s) = [q \in 1 .. n |-> F[q]]
    BY <2>1 DEF WordOf, n
  <2>4. F[n + 1] = Piece(i, j, (r + 1) * Rank)
    <3>1. n + 1 \in 1 .. n + 1 /\ (n + 1) - 1 = n
      BY <2>1
    <3> QED  BY <2>1, <3>1
  <2> HIDE DEF F
  <2> QED  BY <1>2, <2>1, <2>2, <2>3, <2>4, OneMore
<1>3. CASE s # r % Slots
  <2>1. FoldsOf(r + 1, s) = FoldsOf(r, s)
    BY <1>3, NextFold
  <2> QED  BY <1>3, <2>1 DEF WordOf
<1> QED  BY <1>2, <1>3

\* A hash tile lies within its block.
LEMMA TileFits ==
  ASSUME NEW h \in Int, NEW w \in Int, NEW t \in TilesOf(h, w), NEW x \in 0 .. HashH - 1, NEW y \in 0 .. HashW - 1
  PROVE  t[1] * HashH + x \in 0 .. h - 1 /\ t[2] * HashW + y \in 0 .. w - 1
<1>1. HashH \in Nat \ {0} /\ HashW \in Nat \ {0}
  BY ShapesFinite
<1>2. t[1] \in 0 .. (h \div HashH) - 1 /\ t[2] \in 0 .. (w \div HashW) - 1
  BY DEF TilesOf
<1>3. ASSUME NEW d \in Nat \ {0}, NEW v \in Int, NEW p \in 0 .. (v \div d) - 1, NEW r \in 0 .. d - 1
      PROVE  p * d + r \in 0 .. v - 1
  <2> DEFINE e == v \div d
  <2>1. e \in Int /\ d * e <= v
    OBVIOUS
  <2>2. p \in Nat /\ p + 1 <= e /\ e \in Nat
    OBVIOUS
  <2> HIDE DEF e
  <2>3. (p + 1) * d <= e * d
    BY <2>2, Scale
  <2>4. (p + 1) * d = p * d + d /\ p * d \in Nat /\ e * d = d * e /\ d * e \in Nat
    BY <2>2
  <2> QED  BY <2>1, <2>2, <2>3, <2>4
<1> QED  BY <1>1, <1>2, <1>3

\* Among the lucky tiles one is first in the order of the loops.
LEMMA FirstTile ==
  ASSUME NEW h, NEW w, NEW lucky \in SUBSET TilesOf(h, w), lucky # {}
  PROVE  \E t \in lucky : \A u \in lucky : t[1] < u[1] \/ (t[1] = u[1] /\ t[2] <= u[2])
<1>1. \A u \in lucky : u[1] \in Nat /\ u[2] \in Nat
  BY DEF TilesOf
<1> DEFINE Ones == {u[1] : u \in lucky}
<1>2. Ones \subseteq Nat /\ Ones # {}
  BY <1>1
<1>3. PICK one \in Ones : \A o \in Ones : one <= o
  BY <1>2, LeastMember
<1> DEFINE Twos == {u[2] : u \in {v \in lucky : v[1] = one}}
<1>4. Twos \subseteq Nat /\ Twos # {}
  BY <1>1, <1>3
<1>5. PICK two \in Twos : \A o \in Twos : two <= o
  <2> HIDE DEF Twos
  <2> QED  BY <1>4, LeastMember
<1>6. PICK t \in lucky : t[1] = one /\ t[2] = two
  BY <1>5
<1>7. ASSUME NEW u \in lucky PROVE t[1] < u[1] \/ (t[1] = u[1] /\ t[2] <= u[2])
  <2>1. one <= u[1] /\ one \in Nat
    BY <1>2, <1>3
  <2>2. u[1] = one => two <= u[2]
    BY <1>5
  <2> QED  BY <1>1, <1>6, <2>1, <2>2
<1> QED  BY <1>7

\* n full chunks fit if they end within K.
LEMMA FullChunks ==
  ASSUME NEW n \in Nat
  PROVE  K \div Rank \in Nat /\ (n * Rank <= K <=> n <= K \div Rank)
<1>1. K \in Nat /\ Rank \in Nat \ {0}
  BY ShapesFinite, ShapeAssumption
<1> DEFINE d == K \div Rank
<1>2. d \in Nat /\ Rank * d <= K /\ K < Rank * d + Rank
  BY <1>1
<1> HIDE DEF d
<1>3. d * Rank = Rank * d /\ (d + 1) * Rank = Rank * d + Rank /\ Rank * d \in Nat /\ n * Rank \in Nat
  BY <1>1, <1>2
<1>4. n <= d => n * Rank <= d * Rank
  BY <1>1, <1>2, Scale
<1>5. d + 1 <= n => (d + 1) * Rank <= n * Rank
  BY <1>1, <1>2, Scale
<1>6. n * Rank <= K <=> n <= d
  BY <1>1, <1>2, <1>3, <1>4, <1>5
<1> QED  BY <1>2, <1>6 DEF d

\* A block is begun with empty transcripts.
LEMMA TranscriptsStart ==
  ASSUME NEW i \in Nat, NEW j \in Nat, at' = [i |-> i, j |-> j, p |-> 0], block' = NewBlock(i, j)
  PROVE  (\E n : Folded(n))' /\ Transcribed'
<1>1. at'.i = i /\ at'.j = j /\ at'.p = 0 /\ Tiles' = TilesOf(Height(i), Width(j))
  BY DEF Tiles, Height, Width
<1>2. block'.reduction = 0
      /\ block'.words = [t \in TilesOf(Height(i), Width(j)) |-> [s \in 0 .. Slots - 1 |-> << >>]]
  BY DEF NewBlock
<1>3. Folded(0)'
  <2>1. Least(0, K \div Rank) = 0
    BY FullChunks DEF Least
  <2>2. 0 * Rank = 0
    BY ShapesFinite
  <2> QED  BY <1>1, <1>2, <2>1, <2>2 DEF Folded
<1>4. Transcribed'
  <2>1. \A u, v : \A s \in 0 .. Slots - 1 : WordOf(u, v, 0, s)' = << >>
    <3>1. \A s \in 0 .. Slots - 1 : FoldsOf(0, s) = 0
      <4>1. Slots \in Nat \ {0} /\ 0 \in 0 .. Slots - 1 /\ Put(0, Slots, 0) = 0
        BY ShapesFinite DEF Put
      <4> QED  BY <4>1, FoldsAre
    <3> QED  BY <3>1 DEF WordOf
  <2> QED  BY <1>1, <1>2, <2>1 DEF Transcribed
<1> QED  BY <1>3, <1>4

\* A chunk: a full one is folded into every transcript, at the slot whose turn it is.
LEMMA ChunkFolds ==
  ASSUME GemmInv, ProductInv, ReplayInv, Chunk
  PROVE  ReplayInv'
<1>1. /\ stage = "tiles" /\ stage' = "tiles" /\ at.p < K /\ block' = Fold
      /\ at' = [at EXCEPT !.p = @ + Rank] /\ UNCHANGED <<a, b, noise, noised, opened, c>>
  BY DEF Chunk
<1>2. /\ at'.i = at.i /\ at'.j = at.j /\ at'.p = at.p + Rank
  BY <1>1, LoopType
<1>3. Accumulated /\ Transcribed
  BY <1>1 DEF ProductInv, ReplayInv
<1>4. PICK n : Folded(n)
  BY <1>1 DEF ReplayInv
<1> DEFINE r == block.reduction  D == K \div Rank  slot == r % Slots
<1>5. /\ n \in Nat /\ at.p = n * Rank /\ D \in Nat /\ r \in Nat /\ K \in Nat /\ Rank \in Nat \ {0}
      /\ r = IF Tiles = {} THEN 0 ELSE Least(n, D)
  BY <1>4, FullChunks, LoopType DEF Folded
<1>6. (n + 1) * Rank = at.p + Rank /\ n + 1 \in Nat /\ (at.p + Rank <= K <=> n + 1 <= D)
  <2>1. (n + 1) * Rank = n * Rank + Rank
    BY <1>5
  <2>2. (n + 1) * Rank <= K <=> n + 1 <= D
    BY <1>5, FullChunks
  <2> QED  BY <1>5, <2>1, <2>2
<1>7. Tiles' = Tiles
  BY <1>2 DEF Tiles, Height, Width
<1>8. \A i, j, q, s : WordOf(i, j, q, s)' = WordOf(i, j, q, s)
  BY <1>1 DEF WordOf, FoldsOf, Piece, Product
<1>9. OpenedReplays'
  BY <1>1 DEF ReplayInv, OpenedReplays
<1>10. CASE at.p + Rank <= K /\ Tiles # {}
  <2>1. block' = FoldedInto(slot)
    BY <1>1, <1>10 DEF Fold
  <2>2. r = n /\ Least(n + 1, D) = n + 1
    BY <1>5, <1>6, <1>10 DEF Least
  <2>3. block'.reduction = n + 1
    BY <2>1, <2>2 DEF FoldedInto
  <2>4. Folded(n + 1)'
    BY <1>2, <1>6, <1>7, <1>10, <2>2, <2>3 DEF Folded
  <2>5. block'.words = [t \in Tiles |-> [block.words[t] EXCEPT ![slot] = Append(@, Tile(Multiplied, t))]]
    BY <2>1 DEF FoldedInto
  <2>6. Least(at.p + Rank, K) = (n + 1) * Rank
    BY <1>5, <1>6, <1>10 DEF Least
  <2>7. Multiplied = [xy \in Area |-> Product(at.i + xy[1], at.j + xy[2], (n + 1) * Rank)]
    BY <1>1, <1>3, <2>6, MultipliedIs
  <2>8. ASSUME NEW t \in Tiles
        PROVE  block'.words[t] = [s \in 0 .. Slots - 1 |->
                                    WordOf(at.i + t[1] * HashH, at.j + t[2] * HashW, n + 1, s)]
    <3> DEFINE i == at.i + t[1] * HashH  j == at.j + t[2] * HashW
    <3>1. Tile(Multiplied, t) = Piece(i, j, (n + 1) * Rank)
      <4>1. ASSUME NEW x \in 0 .. HashH - 1, NEW y \in 0 .. HashW - 1
            PROVE  Multiplied[<<t[1] * HashH + x, t[2] * HashW + y>>] = Product(i + x, j + y, (n + 1) * Rank)
        <5> DEFINE u == t[1] * HashH  v == t[2] * HashW
        <5>1. Height(at.i) \in Int /\ Width(at.j) \in Int
          BY LoopType DEF Height, Width, Least
        <5>2. u + x \in 0 .. Height(at.i) - 1 /\ v + y \in 0 .. Width(at.j) - 1
          BY <5>1, TileFits DEF Tiles
        <5>3. u \in Int /\ v \in Int
          <6>1. t[1] \in Int /\ t[2] \in Int
            BY DEF Tiles, TilesOf
          <6>2. HashH \in Int /\ HashW \in Int
            BY ShapesFinite
          <6> QED  BY <6>1, <6>2
        <5>4. at.i + (u + x) = (at.i + u) + x /\ at.j + (v + y) = (at.j + v) + y
          BY <5>3, LoopType
        <5> HIDE DEF u, v
        <5>5. <<u + x, v + y>> \in Area
          BY <5>2 DEF Area
        <5>6. Multiplied[<<u + x, v + y>>] = Product(at.i + (u + x), at.j + (v + y), (n + 1) * Rank)
          BY <2>7, <5>5
        <5> QED  BY <5>4, <5>6 DEF u, v
      <4> QED  BY <4>1 DEF Tile, Piece
    <3>2. block.words[t] = [s \in 0 .. Slots - 1 |-> WordOf(i, j, n, s)]
      BY <1>3, <2>2 DEF Transcribed
    <3>3. block'.words[t] = [block.words[t] EXCEPT ![slot] = Append(@, Tile(Multiplied, t))]
      BY <2>5
    <3> HIDE DEF i, j
    <3>4. slot = n % Slots
      BY <2>2
    <3>5. block'.words[t] = [s \in 0 .. Slots - 1 |->
             IF s = n % Slots THEN Append(WordOf(i, j, n, s), Piece(i, j, (n + 1) * Rank)) ELSE WordOf(i, j, n, s)]
      <4> DEFINE w == block.words[t]  p == Piece(i, j, (n + 1) * Rank)
                 W(s) == WordOf(i, j, n, s)
      <4>1. w = [s \in 0 .. Slots - 1 |-> W(s)]
        BY <3>2
      <4>2. block'.words[t] = [w EXCEPT ![n % Slots] = Append(@, p)]
        BY <3>1, <3>3, <3>4
      <4>3. n % Slots \in 0 .. Slots - 1
        BY <1>5, NextFold
      <4> HIDE DEF w, p, W
      <4>4. [w EXCEPT ![n % Slots] = Append(@, p)]
              = [s \in 0 .. Slots - 1 |-> IF s = n % Slots THEN Append(W(s), p) ELSE W(s)]
        BY <4>1, <4>3
      <4>5. block'.words[t] = [s \in 0 .. Slots - 1 |-> IF s = n % Slots THEN Append(W(s), p) ELSE W(s)]
        BY <4>2, <4>4
      <4> QED  BY <4>5 DEF p, W
    <3>6. \A s \in 0 .. Slots - 1 :
            WordOf(i, j, n + 1, s)
              = IF s = n % Slots THEN Append(WordOf(i, j, n, s), Piece(i, j, (n + 1) * Rank)) ELSE WordOf(i, j, n, s)
      BY <1>5, WordGrows
    <3> QED  BY <3>5, <3>6 DEF i, j
  <2>9. Transcribed'
    <3>1. block'.words = [t \in Tiles |-> block'.words[t]]
      BY <2>5
    <3>2. block'.words = [t \in Tiles |-> [s \in 0 .. Slots - 1 |->
                            WordOf(at.i + t[1] * HashH, at.j + t[2] * HashW, n + 1, s)]]
      BY <2>8, <3>1
    <3> QED  BY <1>2, <1>7, <1>8, <2>3, <3>2 DEF Transcribed
  <2> QED  BY <1>1, <1>9, <2>4, <2>9 DEF ReplayInv
<1>11. CASE ~(at.p + Rank <= K /\ Tiles # {})
  <2>1. block'.reduction = r /\ block'.words = block.words
    BY <1>1, <1>11 DEF Fold
  <2>2. Tiles # {} => Least(n + 1, D) = Least(n, D)
    BY <1>5, <1>6, <1>11 DEF Least
  <2>3. Folded(n + 1)'
    BY <1>2, <1>5, <1>6, <1>7, <2>1, <2>2 DEF Folded
  <2>4. Transcribed'
    BY <1>2, <1>3, <1>7, <1>8, <2>1 DEF Transcribed
  <2> QED  BY <1>1, <1>9, <2>3, <2>4 DEF ReplayInv
<1> QED  BY <1>10, <1>11

\* A block's end: the tile that is opened has the transcript of its rows and columns.
LEMMA EndBlockOpens ==
  ASSUME GemmInv, ProductInv, ReplayInv, NEW lucky \in SUBSET Tiles, EndBlock(lucky)
  PROVE  ReplayInv'
<1>1. stage = "tiles" /\ at.p >= K /\ UNCHANGED <<a, b, noise, noised>> /\ stage' \in {"tiles", "denoise"}
  BY DEF EndBlock
<1>2. Transcribed /\ OpenedReplays
  BY <1>1 DEF ReplayInv
<1>3. PICK n : Folded(n)
  BY <1>1 DEF ReplayInv
<1>4. (\E m : Folded(m))' /\ Transcribed'
  <2>1. PICK i \in Nat, j \in Nat : at' = [i |-> i, j |-> j, p |-> 0] /\ block' = NewBlock(i, j)
    BY EndBlockMoves
  <2> QED  BY <2>1, TranscriptsStart
<1>5. CASE opened' = opened
  <2>1. OpenedReplays'
    BY <1>1, <1>2, <1>5 DEF OpenedReplays
  <2> QED  BY <1>4, <2>1 DEF ReplayInv
<1>6. CASE opened' # opened
  <2> DEFINE t == CHOOSE t \in lucky : \A u \in lucky : t[1] < u[1] \/ (t[1] = u[1] /\ t[2] <= u[2])
             D == K \div Rank
             i == at.i + t[1] * HashH
             j == at.j + t[2] * HashW
  <2>1. lucky # {} /\ opened' = Open(t)
    BY <1>6 DEF EndBlock
  <2>2. t \in Tiles
    <3>1. \E u \in lucky : \A v \in lucky : u[1] < v[1] \/ (u[1] = v[1] /\ u[2] <= v[2])
      BY <2>1, FirstTile DEF Tiles
    <3> QED  BY <3>1
  <2>3. block.reduction = D
    <3>1. n \in Nat /\ at.p = n * Rank /\ D \in Nat /\ K \in Nat /\ Rank \in Nat \ {0}
          /\ block.reduction = Least(n, D)
      BY <1>3, <2>2, FullChunks, LoopType DEF Folded
    <3>2. D <= n
      <4>1. CASE n + 1 <= D
        <5>1. (n + 1) * Rank <= K /\ (n + 1) * Rank = n * Rank + Rank
          <6>1. n + 1 \in Nat
            BY <3>1
          <6>2. (n + 1) * Rank <= K
            BY <4>1, <6>1, FullChunks
          <6> QED  BY <3>1, <6>2
        <5>2. n * Rank \in Nat
          BY <3>1
        <5> QED  BY <1>1, <3>1, <5>1, <5>2
      <4> QED  BY <3>1, <4>1
    <3> QED  BY <3>1, <3>2 DEF Least
  <2>4. opened' = [rows |-> [x \in 0 .. HashH - 1 |-> i + x], cols |-> [y \in 0 .. HashW - 1 |-> j + y],
                   words |-> block.words[t]]
    BY <2>1 DEF Open
  <2> HIDE DEF t
  <2>5. block.words[t] = [s \in 0 .. Slots - 1 |-> WordOf(i, j, D, s)]
    BY <1>2, <2>2, <2>3 DEF Transcribed
  <2> HIDE DEF i, j
  <2>6. ASSUME NEW p
        PROVE  [x \in 0 .. HashH - 1 |-> [y \in 0 .. HashW - 1 |->
                  Wrap(Dot(noised'.a[opened'.rows[x]], noised'.b[opened'.cols[y]], 0 .. p - 1), AccBits)]]
                 = Piece(i, j, p)
    <3>1. \A x \in 0 .. HashH - 1 : opened'.rows[x] = i + x
      BY <2>4
    <3>2. \A y \in 0 .. HashW - 1 : opened'.cols[y] = j + y
      BY <2>4
    <3>3. noised' = noised
      BY <1>1
    <3> QED  BY <3>1, <3>2, <3>3 DEF Piece, Product, ProductOf
  <2>7. \A s \in 0 .. Slots - 1 : opened'.words[s] = [q \in 1 .. (D + Slots - 1 - s) \div Slots |->
                                     Piece(i, j, ((q - 1) * Slots + s + 1) * Rank)]
    BY <2>4, <2>5 DEF WordOf, FoldsOf
  <2>8. OpenedReplays'
    <3> DEFINE Of(p) == [x \in 0 .. HashH - 1 |-> [y \in 0 .. HashW - 1 |->
                           Wrap(Dot(noised'.a[opened'.rows[x]], noised'.b[opened'.cols[y]], 0 .. p - 1), AccBits)]]
    <3>1. \A p : Of(p) = Piece(i, j, p)
      BY <2>6
    <3> HIDE DEF Of
    <3>2. \A s \in 0 .. Slots - 1 : opened'.words[s] = [q \in 1 .. (D + Slots - 1 - s) \div Slots |->
                                       Of(((q - 1) * Slots + s + 1) * Rank)]
      BY <2>7, <3>1
    <3> QED  BY <3>2 DEF OpenedReplays, Of
  <2> QED  BY <1>4, <2>8 DEF ReplayInv
<1> QED  BY <1>5, <1>6

\* Every step of run keeps the transcripts those of the chunks done.
LEMMA ReplayStep == GemmInv /\ ProductInv /\ ReplayInv /\ [GemmNext]_gemmVars => ReplayInv'
<1> SUFFICES ASSUME GemmInv, ProductInv, ReplayInv, [GemmNext]_gemmVars PROVE ReplayInv'
  OBVIOUS
<1>1. ASSUME NEW keyA \in KeysA, NEW keyB \in KeysB, Generate(keyA, keyB) PROVE ReplayInv'
  BY <1>1 DEF Generate, ReplayInv, OpenedReplays
<1>2. CASE Refuse
  BY <1>2 DEF Refuse, ReplayInv, OpenedReplays
<1>3. CASE AddNoises
  <2>1. Untouched /\ UNCHANGED <<at, block, opened>>
    BY <1>3 DEF AddNoises, ProductInv
  <2>2. (\E n : Folded(n))' /\ Transcribed'
    BY <2>1, TranscriptsStart DEF Untouched
  <2>3. OpenedReplays'
    BY <2>1 DEF Untouched, OpenedReplays
  <2> QED  BY <2>2, <2>3 DEF ReplayInv
<1>4. CASE Denoise
  BY <1>4 DEF Denoise, ReplayInv, OpenedReplays
<1>5. CASE Returned \/ UNCHANGED gemmVars
  <2>1. UNCHANGED gemmVars
    BY <1>5 DEF Returned
  <2> QED
    BY <2>1 DEF gemmVars, ReplayInv, OpenedReplays, Folded, Transcribed, Tiles, WordOf, FoldsOf, Piece, Product
<1>6. ASSUME NEW lucky \in SUBSET Tiles, EndBlock(lucky) PROVE ReplayInv'
  BY <1>6, EndBlockOpens
<1> QED
  BY <1>1, <1>2, <1>3, <1>4, <1>5, <1>6, ChunkFolds DEF GemmNext

\* OpenedBlock: whoever has the opened rows and columns gets the transcript that met the
\* target, for all shapes, tiles and keys (pearl_reference.py:245-297).
THEOREM OpenedCanBeReplayed == GemmSpec => []OpenedReplays
<1>1. GemmInit => ReplayInv
  BY DEF GemmInit, ReplayInv, OpenedReplays
<1>2. (GemmInv /\ ProductInv /\ ReplayInv) /\ [GemmNext]_gemmVars => ReplayInv'
  BY ReplayStep
<1>3. ReplayInv => OpenedReplays
  BY DEF ReplayInv
<1> QED  BY <1>1, <1>2, <1>3, AlwaysHolds, ProductInitInv, ProductStep, PTL DEF GemmSpec

-----------------------------------------------------------------------------
(* Indices and positions. *)

Blocks == Times(TI, TJ)
ScanRows   == Times(Blocks, SH)

\* The digits of a position: its output tile, the row of hash tiles in it, its
\* index within the attempt, and the one among all attempts.
Block(p) == Put(p.ti, TJ, p.tj)
Row(p)   == Put(Block(p), SH, p.hi)
Idx(p)   == Put(Row(p), SW, p.wi)
Gid(p)   == Put(p.att, Per, Idx(p))

\* The bounds are positive, and so are their products.
LEMMA Sizes ==
  /\ Natt \in Nat \ {0} /\ TI \in Nat \ {0} /\ TJ \in Nat \ {0}
  /\ SH \in Nat \ {0} /\ SW \in Nat \ {0}
  /\ Blocks \in Nat \ {0} /\ ScanRows \in Nat \ {0} /\ Per \in Nat \ {0} /\ Total \in Nat \ {0}
  /\ Per = Times(ScanRows, SW) /\ Total = Times(Natt, Per)
<1>1. \A x, y \in Nat \ {0} : x * y \in Nat \ {0}
  OBVIOUS
<1>2. {Natt, TI, TJ, SH, SW} \subseteq Nat \ {0}
  BY ScanAssumption
<1>3. TI * TJ \in Nat \ {0}  BY <1>1, <1>2
<1>4. TI * TJ * SH \in Nat \ {0}  BY <1>1, <1>2, <1>3
<1>5. Per \in Nat \ {0}  BY <1>1, <1>2, <1>4 DEF Per
<1>6. Total \in Nat \ {0}  BY <1>1, <1>2, <1>5 DEF Total
<1>7. Blocks \in Nat \ {0} /\ ScanRows \in Nat \ {0}  BY <1>3, <1>4 DEF Blocks, ScanRows, Times
<1>8. Per = Times(ScanRows, SW) /\ Total = Times(Natt, Per)
  BY DEF Per, Total, Blocks, ScanRows, Times
<1> QED  BY <1>2, <1>5, <1>6, <1>7, <1>8

\* The digits of a position and their bounds.
LEMMA PositionDigits ==
  ASSUME NEW p \in Positions
  PROVE  /\ p.att \in 0 .. Natt - 1 /\ p.ti \in 0 .. TI - 1 /\ p.tj \in 0 .. TJ - 1
         /\ p.hi \in 0 .. SH - 1 /\ p.wi \in 0 .. SW - 1
         /\ Block(p) \in 0 .. Blocks - 1
         /\ Row(p) \in 0 .. ScanRows - 1
         /\ Idx(p) \in 0 .. Per - 1
         /\ Gid(p) \in 0 .. Total - 1
<1> USE Sizes
<1>1. /\ p.att \in 0 .. Natt - 1 /\ p.ti \in 0 .. TI - 1 /\ p.tj \in 0 .. TJ - 1
      /\ p.hi \in 0 .. SH - 1 /\ p.wi \in 0 .. SW - 1
  BY DEF Positions
<1>2. Block(p) \in 0 .. Blocks - 1
  <2>1. Put(p.ti, TJ, p.tj) \in 0 .. Times(TI, TJ) - 1
    BY <1>1, DigitBound
  <2> QED  BY <2>1 DEF Block, Blocks
<1>3. Row(p) \in 0 .. ScanRows - 1
  BY <1>1, <1>2, DigitBound DEF Row, ScanRows
<1>4. Idx(p) \in 0 .. Per - 1
  BY <1>1, <1>3, DigitBound DEF Idx
<1>5. Gid(p) \in 0 .. Total - 1
  BY <1>1, <1>4, DigitBound DEF Gid
<1> QED  BY <1>1, <1>2, <1>3, <1>4, <1>5

\* The index of a position is that of a thread, whose transcript is the one at
\* the position (pow_scan_index_to_tile undoes the loops, mine_sm86.cu:146-154).
LEMMA GidOfPosition ==
  ASSUME NEW p \in Positions
  PROVE  Gid(p) \in Gids /\ Transcript(Gid(p)) = At(p)
<1> USE Sizes
<1>0. /\ p.att \in Nat /\ p.ti \in Nat /\ p.tj \in 0 .. TJ - 1
      /\ p.hi \in 0 .. SH - 1 /\ p.wi \in 0 .. SW - 1
      /\ Block(p) \in Nat /\ Row(p) \in Nat /\ Idx(p) \in 0 .. Per - 1
      /\ Gid(p) \in 0 .. Total - 1
  BY PositionDigits
<1>1. Quot(Gid(p), Per) = p.att /\ Rem(Gid(p), Per) = Idx(p)
  <2>1. Per \in Nat \ {0} /\ p.att \in Nat /\ Idx(p) \in 0 .. Per - 1
    BY <1>0
  <2> HIDE Sizes
  <2>2. /\ Quot(Put(p.att, Per, Idx(p)), Per) = p.att
        /\ Rem(Put(p.att, Per, Idx(p)), Per) = Idx(p)
    BY <2>1, Digits
  <2> QED  BY <2>2 DEF Gid
<1>2. Quot(Idx(p), SW) = Row(p) /\ Rem(Idx(p), SW) = p.wi
  BY <1>0, Digits DEF Idx
<1>3. Quot(Row(p), SH) = Block(p) /\ Rem(Row(p), SH) = p.hi
  BY <1>0, Digits DEF Row
<1>4. Quot(Block(p), TJ) = p.ti /\ Rem(Block(p), TJ) = p.tj
  BY <1>0, Digits DEF Block
<1>5. IndexToTile(Idx(p)) = <<p.ti * SH + p.hi, p.tj * SW + p.wi>>
  BY <1>2, <1>3, <1>4 DEF IndexToTile, Quot, Rem
<1>6. Transcript(Gid(p)) = At(p)
  BY <1>1, <1>5 DEF Transcript, At, Quot, Rem
<1> QED  BY <1>0, <1>6 DEF Gids

\* Every thread has a position.
LEMMA PositionOfGid ==
  ASSUME NEW gid \in Gids
  PROVE  \E p \in Positions : Gid(p) = gid
<1> DEFINE att   == Quot(gid, Per)
           idx   == Rem(gid, Per)
           row   == Quot(idx, SW)
           blk == Quot(row, SH)
           p     == [att |-> att, ti |-> Quot(blk, TJ), tj |-> Rem(blk, TJ),
                     hi |-> Rem(row, SH), wi |-> Rem(idx, SW)]
<1> USE Sizes
<1>1. gid \in 0 .. Times(Natt, Per) - 1
  BY DEF Gids
<1>2. att \in 0 .. Natt - 1 /\ idx \in 0 .. Per - 1 /\ gid = Put(att, Per, idx)
  BY <1>1, Split
<1> HIDE DEF att, idx
<1>3. row \in 0 .. ScanRows - 1 /\ Rem(idx, SW) \in 0 .. SW - 1 /\ idx = Put(row, SW, Rem(idx, SW))
  BY <1>2, Split
<1> HIDE DEF row
<1>4. blk \in 0 .. Blocks - 1 /\ Rem(row, SH) \in 0 .. SH - 1 /\ row = Put(blk, SH, Rem(row, SH))
  BY <1>3, Split DEF ScanRows
<1> HIDE DEF blk
<1>5. /\ Quot(blk, TJ) \in 0 .. TI - 1
      /\ Rem(blk, TJ) \in 0 .. TJ - 1
      /\ blk = Put(Quot(blk, TJ), TJ, Rem(blk, TJ))
  BY <1>4, Split DEF Blocks
<1>6. p \in Positions
  BY <1>2, <1>3, <1>4, <1>5 DEF Positions
<1>7. Gid(p) = gid
  BY <1>2, <1>3, <1>4, <1>5 DEF Gid, Idx, Row, Block
<1> QED  BY <1>6, <1>7

\* An earlier position has a smaller index.
LEMMA GidOrder ==
  ASSUME NEW p \in Positions, NEW q \in Positions, Earlier(q, p)
  PROVE  Gid(q) < Gid(p)
<1> USE Sizes
<1>0. ASSUME NEW x \in Positions
      PROVE  /\ x.att \in Nat /\ x.ti \in Nat /\ x.tj \in 0 .. TJ - 1
             /\ x.hi \in 0 .. SH - 1 /\ x.wi \in 0 .. SW - 1
             /\ Block(x) \in Nat /\ Row(x) \in Nat /\ Idx(x) \in 0 .. Per - 1
  BY PositionDigits
<1>1. q.att < p.att \/ (q.att = p.att /\ Idx(q) < Idx(p)) => Gid(q) < Gid(p)
  BY <1>0, DigitOrder DEF Gid
<1>2. Row(q) < Row(p) \/ (Row(q) = Row(p) /\ q.wi < p.wi) => Idx(q) < Idx(p)
  BY <1>0, DigitOrder DEF Idx
<1>3. Block(q) < Block(p) \/ (Block(q) = Block(p) /\ q.hi < p.hi) => Row(q) < Row(p)
  BY <1>0, DigitOrder DEF Row
<1>4. q.ti < p.ti \/ (q.ti = p.ti /\ q.tj < p.tj) => Block(q) < Block(p)
  BY <1>0, DigitOrder DEF Block
<1>5. q.ti = p.ti /\ q.tj = p.tj => Block(q) = Block(p)
  BY DEF Block
<1>6. Block(q) = Block(p) /\ q.hi = p.hi => Row(q) = Row(p)
  BY DEF Row
<1> QED  BY <1>1, <1>2, <1>3, <1>4, <1>5, <1>6 DEF Earlier

\* The transcript of a thread is one of the transcripts.
LEMMA TranscriptType == ASSUME NEW gid \in Gids PROVE Transcript(gid) \in Transcripts
<1> USE Sizes
<1>1. PICK p \in Positions : Gid(p) = gid
  BY PositionOfGid
<1>2. Put(p.ti, SH, p.hi) \in 0 .. Times(TI, SH) - 1
  BY PositionDigits, DigitBound
<1>3. Put(p.tj, SW, p.wi) \in 0 .. Times(TJ, SW) - 1
  BY PositionDigits, DigitBound
<1>4. p.att \in 0 .. Natt - 1
  BY PositionDigits
<1>5. At(p) \in Transcripts
  BY <1>2, <1>3, <1>4 DEF At, Transcripts, Put, Times
<1> QED  BY <1>1, <1>5, GidOfPosition

-----------------------------------------------------------------------------
(* The scan. *)

\* The word starts at the sentinel, with every thread to run.
LEMMA InitIInv == Init => IInv
BY Sizes DEF Init, IInv, TypeOK, LeastSoFar, Emitted, Gids

\* Threads in any order keep the least winner so far (mine_sm86.cu:164-177,
\* 224-237), and emit reads it (179-199, 239-252).
LEMMA NextIInv == IInv /\ [Next]_vars => IInv'
<1> SUFFICES ASSUME IInv, [Next]_vars PROVE IInv'
  OBVIOUS
<1> USE Sizes
<1>1. ASSUME NEW gid \in Gids, Find(gid) PROVE IInv'
  <2>1. gid \in Nat /\ gid < Total
    BY DEF Gids
  <2>2. /\ phase = "find" /\ gid \in todo /\ todo' = todo \ {gid}
        /\ best' = IF Transcript(gid) \in wins THEN (IF gid < best THEN gid ELSE best) ELSE best
        /\ wins' = wins /\ phase' = phase /\ result' = result
    BY <1>1 DEF Find, Thread
  <2>3. TypeOK'
    BY <2>1, <2>2 DEF IInv, TypeOK
  <2>4. LeastSoFar'
    <3>1. \A g \in Gids : g \in Nat  BY DEF Gids
    <3>2. best \in Nat  BY DEF IInv, TypeOK
    <3>3. best' < Total => Transcript(best') \in wins
      BY <2>1, <2>2 DEF IInv, LeastSoFar
    <3>4. ASSUME NEW g \in Gids \ todo', Transcript(g) \in wins PROVE best' <= g
      BY <2>1, <2>2, <3>1, <3>2, <3>4 DEF IInv, LeastSoFar
    <3> QED  BY <2>2, <3>3, <3>4 DEF LeastSoFar
  <2>5. Emitted'
    BY <2>2 DEF IInv, Emitted
  <2> QED  BY <2>3, <2>4, <2>5 DEF IInv
<1>2. CASE Emit
  <2>1. best < Total => Transcript(best) \in Transcripts
    BY TranscriptType DEF IInv, TypeOK, Gids
  <2> QED
    BY <1>2, <2>1 DEF Emit, IInv, TypeOK, LeastSoFar, Emitted, Transcript, IndexToTile
<1>3. CASE UNCHANGED vars
  BY <1>3 DEF vars, IInv, TypeOK, LeastSoFar, Emitted, Transcript, IndexToTile
<1> QED  BY <1>1, <1>2, <1>3 DEF Next, Done

\* When every thread has run, the least winner is the reference's.
LEMMA LeastIsReference == IInv => ResultIsReference
<1> SUFFICES ASSUME IInv, phase = "done" PROVE Reference(result)
  BY DEF ResultIsReference
<1> USE Sizes
<1>1. todo = {} /\ result = IF best < Total THEN Transcript(best) ELSE NotFound
  BY DEF IInv, Emitted
<1>2. ASSUME NEW q \in Positions, At(q) \in wins PROVE best <= Gid(q)
  BY <1>1, <1>2, GidOfPosition DEF IInv, LeastSoFar
<1>3. CASE best < Total
  <2>1. best \in Gids
    BY <1>3 DEF IInv, TypeOK, Gids
  <2>2. PICK p \in Positions : Gid(p) = best
    BY <2>1, PositionOfGid
  <2>3. result = At(p) /\ At(p) \in wins
    BY <1>1, <1>3, <2>2, GidOfPosition DEF IInv, LeastSoFar
  <2>4. ASSUME NEW q \in Positions, Earlier(q, p) PROVE At(q) \notin wins
    <3>1. Gid(q) < best  BY <2>2, <2>4, GidOrder
    <3>2. Gid(q) \in Int /\ best \in Int  BY <2>1, GidOfPosition DEF Gids
    <3> QED  BY <1>2, <3>1, <3>2
  <2> QED  BY <2>3, <2>4 DEF Reference
<1>4. CASE ~(best < Total)
  <2>1. ASSUME NEW q \in Positions PROVE At(q) \notin wins
    <3>1. Gid(q) \in Nat /\ Gid(q) < Total  BY GidOfPosition DEF Gids
    <3>2. best \in Nat  BY DEF IInv, TypeOK
    <3> QED  BY <1>2, <1>4, <3>1, <3>2
  <2> QED  BY <1>1, <1>4, <2>1 DEF Reference
<1> QED  BY <1>3, <1>4

\* The word, the threads and the result keep their types: an emitted attempt and
\* tile are always within the grid.
THEOREM ScanTypeCorrect == Spec => []TypeOK
<1>1. IInv => TypeOK  BY DEF IInv
<1> QED  BY InitIInv, NextIInv, <1>1, PTL DEF Spec

\* Any number of threads in any order report what the sequential loops of the
\* reference would (mine_sm86.cu:146-252, pearl_reference.py:280-292).
THEOREM ScanIsReference == Spec => []ResultIsReference
BY InitIInv, NextIInv, LeastIsReference, PTL DEF Spec

-----------------------------------------------------------------------------
(* The benchmark harness. *)

LineSet == [words : SUBSET Words, diff : Nat, rate : BOOLEAN]

StatsSet == [accepted : Nat, rejected : Nat, stale : Nat, work : Nat, reported : Nat, diff : Nat]

\* The lines of lg that named a difficulty, up to i, and the one in force there.
NamedIn(lg, i)   == {j \in 1 .. i : lg[j].diff # 0}
InForceIn(lg, i) == IF NamedIn(lg, i) = {} THEN ShareDiff ELSE lg[Max(NamedIn(lg, i))].diff
AcceptedIn(lg)   == {i \in DOMAIN lg : lg[i].words = {"accept"}}
SharesIn(lg)     == {i \in DOMAIN lg : lg[i].words # {}}

\* The account of a log.
Accounted(st, lg) ==
  /\ st.diff = InForceIn(lg, Len(lg))
  /\ st.work = SumFunctionOnSet([i \in AcceptedIn(lg) |-> InForceIn(lg, i)], AcceptedIn(lg))
  /\ st.accepted = Cardinality(AcceptedIn(lg))
  /\ st.accepted + st.rejected + st.stale = Cardinality(SharesIn(lg))

CreditInv ==
  /\ pipe \in Seq(LineSet) /\ log \in Seq(LineSet)
  /\ stats \in StatsSet
  /\ Accounted(stats, log)

\* An exception is on its way only after the reading, and without one the child is gone
\* when it is over.
EndingInv ==
  /\ main \in {"start", "spawn", "read", "wait", "sum", "done"} => ~raised
  /\ main = "raised" => raised
  /\ ~raised /\ main \in {"stop", "join", "sum", "done"} => child = "gone"

BenchInv == BenchTypeOK /\ CreditInv /\ EndingInv

\* A finite non-empty set of numbers has a greatest member.
LEMMA GreatestMember ==
  ASSUME NEW S \in SUBSET Nat, NEW n \in Nat, S \subseteq 0 .. n, S # {}
  PROVE  \E m \in S : \A x \in S : m >= x
<1> DEFINE R == {n - x : x \in S}
<1>1. R \subseteq Nat /\ R # {}
  <2>1. \A x \in S : n - x \in Nat
    OBVIOUS
  <2> QED  BY <2>1
<1>2. PICK r \in R : \A q \in R : r <= q
  BY <1>1, LeastMember
<1>3. PICK m \in S : r = n - m
  OBVIOUS
<1>4. \A x \in S : n - m <= n - x
  BY <1>2, <1>3
<1> QED  BY <1>4

\* The greatest member.
LEMMA MaxIs ==
  ASSUME NEW S \in SUBSET Int, NEW m \in S, \A x \in S : m >= x
  PROVE  Max(S) = m
<1>1. \E x \in S : \A y \in S : x >= y
  OBVIOUS
<1>2. Max(S) \in S /\ \A y \in S : Max(S) >= y
  BY <1>1 DEF Max
<1> DEFINE w == Max(S)
<1>3. w \in Int /\ m \in Int /\ w >= m /\ m >= w
  BY <1>2
<1> HIDE DEF w
<1>4. w = m
  BY <1>3
<1> QED  BY <1>4 DEF w

\* A line noted: the difficulty is its own or the last one, and it is counted once.
LEMMA NoteLineIs ==
  ASSUME NEW st \in StatsSet, NEW line \in LineSet
  PROVE  /\ NoteLine(st, line) \in StatsSet
         /\ NoteLine(st, line).diff = DiffOf(st, line) /\ DiffOf(st, line) \in Nat
         /\ IF line.words = {"accept"}
            THEN /\ NoteLine(st, line).accepted = st.accepted + 1
                 /\ NoteLine(st, line).work = st.work + DiffOf(st, line)
            ELSE /\ NoteLine(st, line).accepted = st.accepted
                 /\ NoteLine(st, line).work = st.work
         /\ NoteLine(st, line).accepted + NoteLine(st, line).rejected + NoteLine(st, line).stale
              = st.accepted + st.rejected + st.stale + IF line.words = {} THEN 0 ELSE 1
<1> DEFINE d == DiffOf(st, line)
           s == [st EXCEPT !.diff = d]
<1>1. line.words \in SUBSET Words /\ d \in Nat
  BY DEF DiffOf, LineSet, StatsSet
<1>2. s \in StatsSet /\ s.diff = d /\ \A k \in {"accepted", "rejected", "stale", "work", "reported"} : s[k] = st[k]
  BY <1>1 DEF StatsSet
<1>3. NoteLine(st, line) = Counted(s, line, d)
  BY DEF NoteLine
<1> HIDE DEF s, d
<1>4. /\ s.accepted = st.accepted /\ s.rejected = st.rejected /\ s.stale = st.stale /\ s.work = st.work
      /\ {s.accepted, s.rejected, s.stale, s.work, s.reported} \subseteq Nat
  BY <1>2 DEF StatsSet
<1>5. CASE "stale" \in line.words
  <2>1. Counted(s, line, d) = [s EXCEPT !.stale = @ + 1]
    BY <1>5 DEF Counted
  <2>2. line.words # {"accept"} /\ line.words # {}
    BY <1>5
  <2> QED  BY <1>1, <1>2, <1>3, <1>4, <2>1, <2>2 DEF StatsSet, d
<1>6. CASE "stale" \notin line.words /\ "reject" \in line.words
  <2>1. Counted(s, line, d) = [s EXCEPT !.rejected = @ + 1]
    BY <1>6 DEF Counted
  <2>2. line.words # {"accept"} /\ line.words # {}
    BY <1>6
  <2> QED  BY <1>1, <1>2, <1>3, <1>4, <2>1, <2>2 DEF StatsSet, d
<1>7. CASE "stale" \notin line.words /\ "reject" \notin line.words
  <2> DEFINE one == IF "accept" \in line.words THEN 1 ELSE 0
             more == IF "accept" \in line.words THEN d ELSE 0
             rate == IF line.rate THEN 1 ELSE 0
  <2>1. Counted(s, line, d) = [s EXCEPT !.accepted = @ + one, !.work = @ + more, !.reported = @ + rate]
    BY <1>7 DEF Counted
  <2>2. line.words = IF "accept" \in line.words THEN {"accept"} ELSE {}
    BY <1>1, <1>7 DEF Words
  <2>3. one \in Nat /\ more \in Nat /\ rate \in Nat
    BY <1>1
  <2>4. line.words = {"accept"} => one = 1 /\ more = d
    BY <2>2
  <2>5. line.words # {"accept"} => one = 0 /\ more = 0 /\ line.words = {}
    BY <2>2
  <2>6. line.words = {} => one = 0
    BY <2>2
  <2> HIDE DEF one, more, rate
  <2> DEFINE cs == Counted(s, line, d)
  <2>7. /\ cs \in StatsSet /\ cs.diff = d
        /\ cs.accepted = st.accepted + one /\ cs.work = st.work + more
        /\ cs.rejected = st.rejected /\ cs.stale = st.stale
    <3>1. s \in StatsSet /\ s.diff = d
      BY <1>2
    <3>2. cs = [accepted |-> s.accepted + one, rejected |-> s.rejected, stale |-> s.stale,
               work |-> s.work + more, reported |-> s.reported + rate, diff |-> s.diff]
      BY <2>1, <3>1 DEF StatsSet
    <3> HIDE DEF cs
    <3>3. /\ s.accepted + one \in Nat /\ s.rejected \in Nat /\ s.stale \in Nat
          /\ s.work + more \in Nat /\ s.reported + rate \in Nat /\ s.diff \in Nat
      BY <1>1, <1>4, <2>3, <3>1
    <3>4. cs \in StatsSet
      BY <3>2, <3>3 DEF StatsSet
    <3> QED  BY <1>4, <3>1, <3>2, <3>4
  <2>8. {st.accepted, st.work, st.rejected, st.stale} \subseteq Nat
    BY DEF StatsSet
  <2>9. cs.accepted + cs.rejected + cs.stale = st.accepted + st.rejected + st.stale + one
    BY <2>3, <2>7, <2>8
  <2> HIDE DEF cs
  <2>10. IF line.words = {"accept"}
         THEN cs.accepted = st.accepted + 1 /\ cs.work = st.work + d
         ELSE cs.accepted = st.accepted /\ cs.work = st.work
    BY <2>4, <2>5, <2>7, <2>8
  <2>11. one = IF line.words = {} THEN 0 ELSE 1
    BY <2>4, <2>5, <2>6
  <2> QED  BY <1>1, <1>3, <2>7, <2>9, <2>10, <2>11 DEF cs, d
<1> QED  BY <1>5, <1>6, <1>7

\* A line more in the log changes nothing before it.
LEMMA LogGrows ==
  ASSUME NEW lg \in Seq(LineSet), NEW line \in LineSet, NEW st \in StatsSet,
         st.diff = InForceIn(lg, Len(lg))
  PROVE  LET new == Append(lg, line)
             n == Len(lg) + 1
         IN  /\ n \in Nat /\ Len(new) = n /\ DOMAIN new = DOMAIN lg \cup {n} /\ n \notin DOMAIN lg
             /\ DOMAIN lg = 1 .. Len(lg)
             /\ \A i \in DOMAIN lg : new[i] = lg[i] /\ InForceIn(new, i) = InForceIn(lg, i)
             /\ new[n] = line
             /\ InForceIn(new, n) = DiffOf(st, line)
<1> DEFINE new == Append(lg, line)
           n == Len(lg) + 1
<1>1. /\ n \in Nat /\ Len(new) = n /\ DOMAIN new = DOMAIN lg \cup {n} /\ n \notin DOMAIN lg
      /\ DOMAIN lg = 1 .. Len(lg) /\ Len(lg) \in Nat
  OBVIOUS
<1>2. new[n] = line /\ \A i \in 1 .. Len(lg) : new[i] = lg[i]
  OBVIOUS
<1> HIDE DEF new
<1>3. ASSUME NEW i \in 0 .. Len(lg) PROVE NamedIn(new, i) = NamedIn(lg, i) /\ InForceIn(new, i) = InForceIn(lg, i)
  <2>1. NamedIn(new, i) = NamedIn(lg, i)
    BY <1>1, <1>2 DEF NamedIn
  <2>2. CASE NamedIn(lg, i) = {}
    BY <2>1, <2>2 DEF InForceIn
  <2>3. CASE NamedIn(lg, i) # {}
    <3>1. /\ NamedIn(lg, i) \in SUBSET Int /\ NamedIn(lg, i) \in SUBSET Nat
          /\ NamedIn(lg, i) \subseteq 0 .. Len(lg) /\ NamedIn(lg, i) \subseteq 1 .. Len(lg)
      BY <1>1 DEF NamedIn
    <3>2. PICK m \in NamedIn(lg, i) : \A x \in NamedIn(lg, i) : m >= x
      BY <1>1, <2>3, <3>1, GreatestMember
    <3>3. Max(NamedIn(lg, i)) = m
      BY <3>1, <3>2, MaxIs
    <3> QED  BY <1>2, <2>1, <2>3, <3>1, <3>3 DEF InForceIn
  <2> QED  BY <2>1, <2>2, <2>3
<1>4. InForceIn(new, n) = DiffOf(st, line)
  <2>1. CASE line.diff # 0
    <3>1. n \in NamedIn(new, n) /\ \A x \in NamedIn(new, n) : n >= x
      BY <1>1, <1>2, <2>1 DEF NamedIn
    <3>2. NamedIn(new, n) \in SUBSET Int
      BY <1>1 DEF NamedIn
    <3>3. Max(NamedIn(new, n)) = n
      BY <3>1, <3>2, MaxIs
    <3> QED  BY <1>2, <2>1, <3>1, <3>3 DEF InForceIn, DiffOf
  <2>2. CASE line.diff = 0
    <3>1. NamedIn(new, n) = NamedIn(new, Len(lg))
      BY <1>1, <1>2, <2>2 DEF NamedIn
    <3>2. InForceIn(new, n) = InForceIn(new, Len(lg))
      BY <3>1 DEF InForceIn
    <3>3. InForceIn(new, Len(lg)) = InForceIn(lg, Len(lg))
      BY <1>1, <1>3
    <3> QED  BY <2>2, <3>2, <3>3 DEF DiffOf
  <2> QED  BY <2>1, <2>2
<1>5. \A i \in DOMAIN lg : new[i] = lg[i] /\ InForceIn(new, i) = InForceIn(lg, i)
  BY <1>1, <1>2, <1>3
<1> QED  BY <1>1, <1>2, <1>4, <1>5 DEF new

\* The difficulty in force is a number.
LEMMA InForceTypes ==
  ASSUME NEW lg \in Seq(LineSet), NEW i \in DOMAIN lg
  PROVE  InForceIn(lg, i) \in Nat
<1>1. DOMAIN lg = 1 .. Len(lg) /\ Len(lg) \in Nat
  OBVIOUS
<1>2. CASE NamedIn(lg, i) = {}
  BY <1>2, HarnessAssumption DEF InForceIn
<1>3. CASE NamedIn(lg, i) # {}
  <2>1. /\ NamedIn(lg, i) \in SUBSET Int /\ NamedIn(lg, i) \in SUBSET Nat
        /\ NamedIn(lg, i) \subseteq 0 .. Len(lg) /\ NamedIn(lg, i) \subseteq DOMAIN lg
    BY <1>1 DEF NamedIn
  <2>2. PICK m \in NamedIn(lg, i) : \A x \in NamedIn(lg, i) : m >= x
    BY <1>1, <1>3, <2>1, GreatestMember
  <2>3. Max(NamedIn(lg, i)) = m
    BY <2>1, <2>2, MaxIs
  <2>4. m \in DOMAIN lg /\ lg[m] \in LineSet
    BY <2>1, <2>2
  <2> QED  BY <1>3, <2>3, <2>4 DEF InForceIn, LineSet
<1> QED  BY <1>2, <1>3

\* The account of the log stays right with every line.
LEMMA NotedIsAccounted ==
  ASSUME NEW lg \in Seq(LineSet), NEW line \in LineSet, NEW st \in StatsSet, Accounted(st, lg)
  PROVE  Accounted(NoteLine(st, line), Append(lg, line))
<1> DEFINE new == Append(lg, line)
           n == Len(lg) + 1
           note == NoteLine(st, line)
           f == [i \in AcceptedIn(lg) |-> InForceIn(lg, i)]
           g == [i \in AcceptedIn(new) |-> InForceIn(new, i)]
<1>1. st.diff = InForceIn(lg, Len(lg))
  BY DEF Accounted
<1>2. /\ Len(new) = n /\ DOMAIN new = DOMAIN lg \cup {n} /\ n \notin DOMAIN lg /\ DOMAIN lg = 1 .. Len(lg)
      /\ \A i \in DOMAIN lg : new[i] = lg[i] /\ InForceIn(new, i) = InForceIn(lg, i)
      /\ new[n] = line
      /\ InForceIn(new, n) = DiffOf(st, line)
  BY <1>1, LogGrows
<1>3. IsFiniteSet(AcceptedIn(lg)) /\ IsFiniteSet(SharesIn(lg))
  <2>1. IsFiniteSet(1 .. Len(lg))
    BY FS_Interval
  <2> QED  BY <1>2, <2>1, FS_Subset DEF AcceptedIn, SharesIn
<1>4. Cardinality(AcceptedIn(lg)) \in Nat /\ Cardinality(SharesIn(lg)) \in Nat
  BY <1>3, FS_CardinalityType
<1>5. AcceptedIn(new) = IF line.words = {"accept"} THEN AcceptedIn(lg) \cup {n} ELSE AcceptedIn(lg)
  BY <1>2 DEF AcceptedIn
<1>6. SharesIn(new) = IF line.words = {} THEN SharesIn(lg) ELSE SharesIn(lg) \cup {n}
  BY <1>2 DEF SharesIn
<1>7. n \notin AcceptedIn(lg) /\ n \notin SharesIn(lg)
  BY <1>2 DEF AcceptedIn, SharesIn
<1>8. \A i \in AcceptedIn(lg) : g[i] = f[i] /\ f[i] \in Int
  BY <1>2, <1>5, InForceTypes DEF AcceptedIn
<1>9. SumFunctionOnSet(g, AcceptedIn(lg)) = SumFunctionOnSet(f, AcceptedIn(lg))
  BY <1>3, <1>8, SumCongruence
<1>10. DiffOf(st, line) \in Nat /\ note.diff = DiffOf(st, line)
  BY NoteLineIs
<1>11. note.work = SumFunctionOnSet(g, AcceptedIn(new))
  <2>1. st.work = SumFunctionOnSet(f, AcceptedIn(lg))
    BY DEF Accounted
  <2>2. CASE line.words = {"accept"}
    <3>1. g[n] = DiffOf(st, line) /\ \A y \in AcceptedIn(lg) \cup {n} : g[y] \in Int
      BY <1>2, <1>5, <1>8, <1>10, <2>2
    <3> HIDE DEF g, f, n, note
    <3>2. SumFunctionOnSet(g, AcceptedIn(lg) \cup {n}) = SumFunctionOnSet(g, AcceptedIn(lg)) + g[n]
      BY <1>3, <1>7, <3>1, SumAdds
    <3>3. note.work = st.work + DiffOf(st, line)
      BY <2>2, NoteLineIs DEF note
    <3> QED  BY <1>5, <1>9, <2>1, <2>2, <3>1, <3>2, <3>3
  <2>3. CASE line.words # {"accept"}
    <3>1. note.work = st.work
      BY <2>3, NoteLineIs
    <3> QED  BY <1>5, <1>9, <2>1, <2>3, <3>1
  <2> QED  BY <2>2, <2>3
<1>12. note.accepted = Cardinality(AcceptedIn(new))
  <2>1. Cardinality(AcceptedIn(lg) \cup {n}) = Cardinality(AcceptedIn(lg)) + 1
    BY <1>3, <1>7, FS_AddElement
  <2>2. st.accepted = Cardinality(AcceptedIn(lg))
    BY DEF Accounted
  <2>3. IF line.words = {"accept"} THEN note.accepted = st.accepted + 1 ELSE note.accepted = st.accepted
    BY NoteLineIs
  <2> QED  BY <1>5, <2>1, <2>2, <2>3
<1>13. note.accepted + note.rejected + note.stale = Cardinality(SharesIn(new))
  <2>1. Cardinality(SharesIn(lg) \cup {n}) = Cardinality(SharesIn(lg)) + 1
    BY <1>3, <1>7, FS_AddElement
  <2>2. st.accepted + st.rejected + st.stale = Cardinality(SharesIn(lg))
    BY DEF Accounted
  <2>3. note.accepted + note.rejected + note.stale
          = st.accepted + st.rejected + st.stale + IF line.words = {} THEN 0 ELSE 1
    BY NoteLineIs
  <2> QED  BY <1>4, <1>6, <2>1, <2>2, <2>3
<1> HIDE DEF note, n
<1>14. note.diff = InForceIn(new, Len(new))
  BY <1>2, <1>10
<1> QED  BY <1>11, <1>12, <1>13, <1>14 DEF Accounted, note


\* The harness starts with an empty log.
LEMMA BenchInitInv == BenchInit => BenchInv
<1> SUFFICES ASSUME BenchInit PROVE BenchInv
  OBVIOUS
<1>1. BenchTypeOK /\ EndingInv
  <2>1. {raised, obeys, heir, open} \subseteq BOOLEAN
    <3>1. raised \in BOOLEAN /\ obeys \in BOOLEAN /\ heir \in BOOLEAN /\ open \in BOOLEAN
      BY Zenon DEF BenchInit
    <3> QED  BY <3>1
  <2>2. BenchTypeOK
    BY <2>1 DEF BenchInit, BenchTypeOK
  <2>3. EndingInv
    BY DEF BenchInit, EndingInv
  <2> QED  BY <2>2, <2>3
<1>2. stats \in StatsSet /\ stats.diff = ShareDiff /\ stats.work = 0
      /\ stats.accepted = 0 /\ stats.rejected = 0 /\ stats.stale = 0
  BY HarnessAssumption DEF BenchInit, NoStats, StatsSet
<1>3. log = << >> /\ pipe = << >> /\ log \in Seq(LineSet) /\ pipe \in Seq(LineSet)
  BY DEF BenchInit
<1>4. DOMAIN log = {} /\ Len(log) = 0
  BY <1>3
<1>5. AcceptedIn(log) = {} /\ SharesIn(log) = {} /\ NamedIn(log, 0) = {}
  BY <1>4 DEF AcceptedIn, SharesIn, NamedIn
<1>6. Cardinality({}) = 0 /\ IsFiniteSet({})
  BY FS_EmptySet
<1>7. \A f : SumFunctionOnSet(f, {}) = 0
  BY <1>6, SumTakesOut
<1>8. Accounted(stats, log)
  BY <1>2, <1>4, <1>5, <1>6, <1>7 DEF Accounted, InForceIn
<1> QED  BY <1>1, <1>2, <1>3, <1>8 DEF BenchInv, CreditInv

\* The main thread, but for the lines it notes.
LEMMA MainKeeps ==
  ASSUME BenchInv,
         \/ StartSampler \/ Spawn \/ SpawnFails \/ ReadEnd \/ Reaped \/ WaitExpires
         \/ StopSampling \/ Joined \/ Summarise
  PROVE  BenchInv'
<1> USE DEF BenchInv, BenchTypeOK, EndingInv, CreditInv, Accounted, childVars, outputVars, samplerVars
<1>1. UNCHANGED outputVars
  BY DEF StartSampler, StartSamplerIn, Spawn, SpawnWith, SpawnFails, ReadEnd, Reaped, WaitExpires, ExpireLeaving,
     StopSampling, StopFor, Joined, Summarise
<1>2. CreditInv'
  BY <1>1
<1>3. BenchTypeOK' /\ EndingInv'
  <2>1. CASE StartSampler
    BY <2>1, HarnessAssumption DEF StartSampler, StartSamplerIn
  <2>2. CASE Spawn
    <3>1. BenchTypeOK'
      BY <2>2 DEF Spawn, SpawnWith
    <3>2. EndingInv'
      BY <2>2 DEF Spawn, SpawnWith
    <3> QED  BY <3>1, <3>2
  <2>6. CASE SpawnFails
    <3>1. BenchTypeOK'
      BY <2>6 DEF SpawnFails
    <3>2. EndingInv'
      BY <2>6 DEF SpawnFails
    <3> QED  BY <3>1, <3>2
  <2>3. CASE ReadEnd \/ Reaped \/ WaitExpires
    BY <2>3 DEF ReadEnd, Reaped, WaitExpires, ExpireLeaving
  <2>4. CASE StopSampling
    BY <2>4, HarnessAssumption DEF StopSampling, StopFor
  <2>5. CASE Joined \/ Summarise
    BY <2>5 DEF Joined, Summarise
  <2> QED  BY <2>1, <2>2, <2>3, <2>4, <2>5, <2>6
<1> QED  BY <1>2, <1>3

\* A line read is noted, or breaks the reading.
LEMMA ReadKeeps == ASSUME BenchInv, ReadLine \/ ReadBreaks PROVE BenchInv'
<1>1. pipe \in Seq(LineSet) /\ pipe # << >> /\ log \in Seq(LineSet) /\ stats \in StatsSet /\ Accounted(stats, log)
  BY DEF BenchInv, CreditInv, ReadLine, ReadBreaks
<1>2. Head(pipe) \in LineSet /\ Tail(pipe) \in Seq(LineSet) /\ pipe' = Tail(pipe)
  BY <1>1 DEF ReadLine, ReadBreaks
<1>3. CASE ReadLine
  <2>1. log' = Append(log, Head(pipe)) /\ stats' = NoteLine(stats, Head(pipe))
    BY <1>3 DEF ReadLine
  <2>2. log' \in Seq(LineSet) /\ stats' \in StatsSet
    BY <1>1, <1>2, <2>1, NoteLineIs
  <2>3. Accounted(stats', log')
    BY <1>1, <1>2, <2>1, NotedIsAccounted
  <2>4. CreditInv'
    BY <1>2, <2>2, <2>3 DEF CreditInv, Accounted
  <2>5. UNCHANGED <<main, raised, childVars, printed, samplerVars, patience>>
    BY <1>3 DEF ReadLine
  <2> QED  BY <2>4, <2>5 DEF BenchInv, BenchTypeOK, EndingInv, childVars, samplerVars
<1>4. CASE ReadBreaks
  <2>1. CreditInv'
    BY <1>1, <1>2, <1>4 DEF ReadBreaks, CreditInv, Accounted
  <2> QED  BY <1>4, <2>1 DEF ReadBreaks, BenchInv, BenchTypeOK, EndingInv, samplerVars
<1> QED  BY <1>3, <1>4

\* The timer, the sampler thread, time and the child leave the account alone.
LEMMA AroundKeeps ==
  ASSUME BenchInv, TimerFires \/ QueryReturns \/ WaitReturns \/ Tick \/ PrintLine \/ CloseOutput \/ Exit
  PROVE  BenchInv'
<1>1. pipe' \in Seq(LineSet) /\ UNCHANGED <<log, stats>>
  <2>1. CASE PrintLine
    BY <2>1, HarnessAssumption DEF PrintLine, BenchInv, CreditInv, LineSet
  <2>2. CASE ~PrintLine
    BY <2>2 DEF TimerFires, QueryReturns, WaitReturns, Tick, CloseOutput, Exit, outputVars, BenchInv, CreditInv
  <2> QED  BY <2>1, <2>2
<1>2. CreditInv'
  BY <1>1 DEF BenchInv, CreditInv, Accounted
<1>3. BenchTypeOK' /\ EndingInv'
  <2> USE DEF BenchInv, BenchTypeOK, EndingInv, childVars, outputVars, samplerVars
  <2>1. CASE TimerFires
    BY <2>1 DEF TimerFires
  <2>2. CASE QueryReturns
    BY <2>2, HarnessAssumption DEF QueryReturns
  <2>3. CASE WaitReturns
    BY <2>3, HarnessAssumption DEF WaitReturns
  <2>4. CASE Tick
    BY <2>4 DEF Tick, Less
  <2>5. CASE PrintLine
    BY <2>5 DEF PrintLine
  <2>6. CASE CloseOutput
    BY <2>6 DEF CloseOutput
  <2>7. CASE Exit
    BY <2>7 DEF Exit
  <2> QED  BY <2>1, <2>2, <2>3, <2>4, <2>5, <2>6, <2>7
<1> QED  BY <1>2, <1>3 DEF BenchInv

\* Every step of the harness keeps the invariant.
LEMMA BenchStep == BenchInv /\ [BenchNext]_benchVars => BenchInv'
<1>1. BenchInv /\ UNCHANGED benchVars => BenchInv'
  BY DEF benchVars, BenchInv, BenchTypeOK, EndingInv, CreditInv, Accounted, childVars, outputVars, samplerVars
<1> QED  BY <1>1, MainKeeps, ReadKeeps, AroundKeeps DEF BenchNext, MainNext, TelemetryNext, BenchOver

\* The inductive invariant of the harness.
LEMMA BenchInvariance == BenchSpec => []BenchInv
BY BenchInitInv, BenchStep, PTL DEF BenchSpec

\* The harness keeps its types, whatever the child prints and however its threads interleave.
THEOREM BenchTypeCorrect == BenchSpec => []BenchTypeOK
<1>1. BenchInv => BenchTypeOK
  BY DEF BenchInv
<1> QED  BY <1>1, BenchInvariance, PTL

\* The credited work is that of the accepted lines of the log, each at the difficulty in
\* force when it was read, for a log of any length (protocol_hashrate.py:42-59).
THEOREM CreditIsEarned == BenchSpec => []WorkIsCredited
<1>1. BenchInv => WorkIsCredited
  <2> SUFFICES ASSUME CreditInv PROVE WorkIsCredited
    BY DEF BenchInv
  <2> DEFINE f == [i \in AcceptedIn(log) |-> InForceIn(log, i)]
  <2>1. SumFunction(f) = SumFunctionOnSet(f, AcceptedIn(log))
    BY DEF SumFunction
  <2> QED  BY <2>1 DEF CreditInv, Accounted, WorkIsCredited, AcceptedIn, SharesIn, InForceIn, NamedIn
<1> QED  BY <1>1, BenchInvariance, PTL

\* A child is left running only by an exception (run_command, protocol_benchmark.py:110-134).
THEOREM OrphansAreErrors == BenchSpec => []OrphanOnlyByError
<1>1. BenchInv => OrphanOnlyByError
  BY DEF BenchInv, EndingInv, OrphanOnlyByError, BenchIsOver, Alive
<1> QED  BY <1>1, BenchInvariance, PTL

-----------------------------------------------------------------------------
(* The join of the sampler thread. *)

\* When the join begins it has more time than the query that may be under way, and when
\* it is over so is the thread: all that is counted of the samples is of the same ones.
JoinInv ==
  /\ telemetry = "query" => left <= QueryTimeout
  /\ main = "join" => \/ telemetry = "over"
                      \/ telemetry = "query" /\ patience > left
                      \/ telemetry = "wait" /\ patience > 0
  /\ main \in {"sum", "done"} => telemetry = "over"
  /\ seen \in Seq(Nat)
  /\ main \notin {"sum", "done"} => seen = << >>
  /\ \A i \in DOMAIN seen : seen[i] = samples

\* The sampler thread has not begun.
LEMMA JoinInitInv == BenchInit => JoinInv
BY DEF BenchInit, JoinInv

\* A query outlasts the join only if its timeout is longer than the interval.
LEMMA JoinStep ==
  ASSUME QueryTimeout <= Interval, BenchTypeOK, JoinInv, [BenchNext]_benchVars
  PROVE  JoinInv'
<1> USE DEF JoinInv
<1>1. QueryTimeout \in Nat \ {0} /\ Interval \in Nat \ {0}
  BY HarnessAssumption
<1>2. left \in Nat /\ patience \in Nat /\ samples \in Nat
  BY DEF BenchTypeOK
<1>3. CASE Summarise
  <2>1. seen' = Append(seen, samples) /\ samples' = samples /\ telemetry' = telemetry /\ main = "sum" /\ main' \in {"sum", "done"}
    BY <1>3 DEF Summarise, samplerVars
  <2>2. seen' \in Seq(Nat) /\ \A i \in DOMAIN seen' : seen'[i] = samples
    BY <1>2, <2>1
  <2> QED  BY <2>1, <2>2
<1>4. CASE QueryReturns
  <2>1. seen = << >> /\ UNCHANGED <<seen, main, patience>> /\ telemetry' = "wait"
    BY <1>4 DEF QueryReturns
  <2>2. main = "join" => patience > 0
    BY <1>2, <1>4 DEF QueryReturns
  <2> QED  BY <1>4, <2>1, <2>2 DEF QueryReturns
<1>5. CASE WaitReturns
  BY <1>1, <1>5 DEF WaitReturns, Stopped
<1>6. CASE Tick
  BY <1>1, <1>2, <1>6 DEF Tick, Less, Stopped
<1>7. CASE StartSampler
  BY <1>1, <1>7 DEF StartSampler, StartSamplerIn
<1>8. CASE StopSampling
  BY <1>1, <1>8 DEF StopSampling, StopFor, BenchTypeOK, samplerVars
<1>9. CASE Joined
  BY <1>2, <1>9 DEF Joined, samplerVars
<1>10. CASE Spawn \/ SpawnFails \/ ReadLine \/ ReadBreaks \/ ReadEnd \/ Reaped \/ WaitExpires
  BY <1>10 DEF Spawn, SpawnWith, SpawnFails, ReadLine, ReadBreaks, ReadEnd, Reaped, WaitExpires, ExpireLeaving, samplerVars
<1>11. CASE TimerFires \/ PrintLine \/ CloseOutput \/ Exit
  BY <1>11 DEF TimerFires, PrintLine, CloseOutput, Exit, samplerVars
<1>12. CASE BenchOver \/ UNCHANGED benchVars
  BY <1>12 DEF BenchOver, benchVars, samplerVars
<1> QED  BY <1>3, <1>4, <1>5, <1>6, <1>7, <1>8, <1>9, <1>10, <1>11, <1>12 DEF BenchNext, MainNext, TelemetryNext

\* The averages and the count of a summary are of the same samples, if a query of
\* nvidia-smi may last no longer than the interval (protocol_benchmark.py:43-81, where
\* the query has five seconds, and so has the interval if none is given).
THEOREM SummariesAreWhole == ASSUME QueryTimeout <= Interval PROVE BenchSpec => []SummaryIsWhole
<1>1. JoinInv => SummaryIsWhole
  BY DEF JoinInv, SummaryIsWhole
<1>2. BenchTypeOK /\ JoinInv /\ [BenchNext]_benchVars => JoinInv'
  BY JoinStep
<1> QED  BY <1>1, <1>2, JoinInitInv, BenchTypeCorrect, PTL DEF BenchSpec
=============================================================================
