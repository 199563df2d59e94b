--------------------------- MODULE ExitCodeProofs ---------------------------
(***************************************************************************)
(* What the proofs of several commands rest on: induction over the natural *)
(* numbers, and what aggregate_exit does with the codes of any number of   *)
(* targets.                                                                *)
(***************************************************************************)
EXTENDS ExitCodes, FiniteSetTheorems, WellFoundedInduction, TLAPS

-----------------------------------------------------------------------------
(***************************************************************************)
(* Induction over the natural numbers, for sets of them.                   *)
(***************************************************************************)
\* A set of natural numbers has a least element, if it has any.
LEMMA NatLeast ==
  ASSUME NEW T \in SUBSET Nat, T # {}
  PROVE  \E x \in T : \A y \in T : x <= y
<1> DEFINE R == {ss \in Nat \X Nat : ss[1] < ss[2]}
<1>1. IsWellFoundedOn(R, Nat)
  BY NatLessThanWellFounded DEF OpToRel
<1>2. \E x \in T : \A y \in T : ~(<<y, x>> \in R)
  <2> HIDE DEF R
  <2>. QED BY <1>1, WFMin
<1>3. \A x, y \in T : ~(<<y, x>> \in R) => x <= y
  <2>1. SUFFICES ASSUME NEW x \in T, NEW y \in T, ~(x <= y)
                 PROVE  <<y, x>> \in R
    OBVIOUS
  <2>2. y < x /\ x \in Nat /\ y \in Nat
    BY <2>1
  <2>. QED BY <2>2
<1> HIDE DEF R
<1>. QED BY <1>2, <1>3

LEMMA NatInduct ==
  ASSUME NEW T, 0 \in T, \A n \in Nat : n \in T => n + 1 \in T
  PROVE  Nat \subseteq T
<1>1. SUFFICES ASSUME Nat \ T # {}
               PROVE  FALSE
  OBVIOUS
<1>2. PICK x \in Nat \ T : \A y \in Nat \ T : x <= y
  BY <1>1, NatLeast
<1>3. x # 0 /\ x - 1 \in Nat /\ (x - 1) + 1 = x
  BY <1>2
<1>4. x - 1 \in T
  BY <1>2, <1>3
<1>. QED BY <1>2, <1>3, <1>4

\* A recursive definition has the values it asks for, as far as one likes.
Unfolds(g, D, base, step, n) ==
  g \in [0 .. n -> D] /\ g[0] = base /\ \A i \in 1 .. n : g[i] = step[<<g[i - 1], i>>]

LEMMA NatRecursion ==
  ASSUME NEW D, NEW base \in D, NEW step \in [D \X Nat -> D], NEW m \in Nat
  PROVE  \E g : Unfolds(g, D, base, step, m)
<1> DEFINE T == {n \in Nat : \E g : Unfolds(g, D, base, step, n)}
<1> USE DEF Unfolds
<1>1. 0 \in T
  <2>1. Unfolds([i \in 0 .. 0 |-> base], D, base, step, 0)
    OBVIOUS
  <2>. QED BY <2>1
<1>2. ASSUME NEW n \in Nat, n \in T
      PROVE  n + 1 \in T
  <2>1. PICK g : Unfolds(g, D, base, step, n)
    BY <1>2
  <2> DEFINE h == [i \in 0 .. n + 1 |-> IF i = n + 1 THEN step[<<g[n], n + 1>>] ELSE g[i]]
  <2>2. \A i \in 0 .. n + 1 : i = n + 1 \/ i \in 0 .. n
    OBVIOUS
  <2>3. g[n] \in D /\ step[<<g[n], n + 1>>] \in D
    BY <2>1
  <2>4. h \in [0 .. n + 1 -> D]
    BY <2>1, <2>2, <2>3
  <2>5. h[0] = base
    BY <2>1
  <2>6. \A i \in 1 .. n + 1 : h[i] = step[<<h[i - 1], i>>]
    <3> SUFFICES ASSUME NEW i \in 1 .. n + 1
                 PROVE  h[i] = step[<<h[i - 1], i>>]
      OBVIOUS
    <3>1. CASE i = n + 1
      BY <3>1, SMTT(20)
    <3>2. CASE i # n + 1
      <4>1. i \in 1 .. n /\ i \in 0 .. n + 1 /\ i - 1 \in 0 .. n + 1 /\ i - 1 # n + 1
        BY <3>2
      <4>. QED BY <2>1, <3>2, <4>1
    <3>. QED BY <3>1, <3>2
  <2> HIDE DEF h
  <2>. QED BY <2>4, <2>5, <2>6
<1>3. m \in T
  <2> HIDE DEF T
  <2>. QED BY <1>1, <1>2, NatInduct
<1>. QED BY <1>3

-----------------------------------------------------------------------------
(***************************************************************************)
(* Exit codes.                                                             *)
(***************************************************************************)

\* aggregate_exit sums up the codes of a sequence that is not empty.
LEMMA AggregateSummarises ==
  ASSUME NEW n \in Nat \ {0}, NEW codes, DOMAIN codes = 1 .. n
  PROVE  Summarises(AggregateExit({codes[i] : i \in DOMAIN codes}), codes)
<1> DEFINE all == {codes[i] : i \in DOMAIN codes}
           distinct == all \ {"OK"}
           Of(c) == {i \in DOMAIN codes : codes[i] = c}
<1>0. DOMAIN codes # {} /\ IsFiniteSet(all)
  <2>1. IsFiniteSet(DOMAIN codes)
    BY FS_Interval
  <2> DEFINE f == [i \in DOMAIN codes |-> codes[i]]
  <2>2. f \in Surjection(DOMAIN codes, all)
    BY DEF Surjection
  <2>3. 1 \in DOMAIN codes
    OBVIOUS
  <2> HIDE DEF f, all
  <2>. QED BY <2>1, <2>2, <2>3, FS_Surjection
<1>1. CASE distinct = {}
  <2>1. AggregateExit(all) = "OK"
    BY <1>1 DEF AggregateExit
  <2>2. Of("OK") = DOMAIN codes
    BY <1>1
  <2>. QED BY <2>1, <2>2 DEF Summarises
<1>2. CASE distinct # {} /\ Cardinality(distinct) = 1 /\ "OK" \notin all
  <2> DEFINE exit == CHOOSE c \in distinct : TRUE
  <2>1. AggregateExit(all) = exit
    BY <1>2 DEF AggregateExit
  <2>2. exit \in distinct
    BY <1>2
  <2>3. PICK x : distinct = {x}
    <3>1. IsFiniteSet(distinct)
      BY <1>0, FS_Subset
    <3>. QED BY <1>2, <3>1, FS_Singleton
  <2>4. \A i \in DOMAIN codes : codes[i] = exit
    BY <1>2, <2>2, <2>3
  <2>5. Of(exit) = DOMAIN codes
    BY <2>4
  <2>. QED BY <2>1, <2>5 DEF Summarises
<1>3. CASE distinct # {} /\ ~(Cardinality(distinct) = 1 /\ "OK" \notin all)
  <2>1. AggregateExit(all) = "PARTIAL"
    BY <1>3 DEF AggregateExit
  <2>2. ASSUME NEW i \in DOMAIN codes, Of(codes[i]) = DOMAIN codes
        PROVE  FALSE
    <3>1. all = {codes[i]}
      BY <2>2
    <3>2. CASE codes[i] = "OK"
      BY <1>3, <3>1, <3>2
    <3>3. CASE codes[i] # "OK"
      <4>1. distinct = {codes[i]} /\ "OK" \notin all
        BY <3>1, <3>3
      <4>. QED BY <1>3, <4>1, FS_Singleton
    <3>. QED BY <3>2, <3>3
  <2>. QED BY <2>1, <2>2 DEF Summarises
<1>. QED BY <1>1, <1>2, <1>3

\* It is the code of a target, or says that all is well or that they differ.
LEMMA AggregateOneOf ==
  ASSUME NEW codes
  PROVE  AggregateExit(codes) \in codes \cup {"OK", "PARTIAL"}
<1> DEFINE distinct == codes \ {"OK"}
<1>1. CASE distinct = {}
  BY <1>1 DEF AggregateExit
<1>2. CASE distinct # {} /\ Cardinality(distinct) = 1 /\ "OK" \notin codes
  <2>1. AggregateExit(codes) = CHOOSE c \in distinct : TRUE
    BY <1>2 DEF AggregateExit
  <2>. QED BY <1>2, <2>1
<1>3. CASE distinct # {} /\ ~(Cardinality(distinct) = 1 /\ "OK" \notin codes)
  BY <1>3 DEF AggregateExit
<1>. QED BY <1>1, <1>2, <1>3
=============================================================================
