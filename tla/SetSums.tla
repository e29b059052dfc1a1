------------------------------ MODULE SetSums ------------------------------
(***************************************************************************)
(* Sums of natural numbers over a finite set, as SumFunctionOnSet of the   *)
(* community modules defines them: by a recursive function over the        *)
(* subsets, which takes out one chosen element after the other.  The sum   *)
(* is a natural number, and does not depend on the order.                  *)
(***************************************************************************)
EXTENDS Integers, FiniteSets, Functions, FiniteSetTheorems,
        WellFoundedInduction, TLAPS

Pick(s) == CHOOSE x \in s : TRUE

\* What the recursive function is required to be, and the one that is chosen.
Sums(f, S, g) ==
  g = [s \in SUBSET S |-> IF s = {} THEN 0 ELSE f[Pick(s)] + g[s \ {Pick(s)}]]

SumsOver(f, S) == CHOOSE g : Sums(f, S, g)

-----------------------------------------------------------------------------
\* The operator of the community modules, its folds unfolded.
LEMMA SumIsChosen ==
  ASSUME NEW f, NEW S
  PROVE  SumFunctionOnSet(f, S) = SumsOver(f, S)[S]
BY DEF SumFunctionOnSet, FoldFunctionOnSet, MapThenFoldSet, SumsOver, Sums, Pick

\* Induction over the subsets of a finite set, as a least counterexample.
LEMMA SmallestSubset ==
  ASSUME NEW S, IsFiniteSet(S), NEW Bad, Bad \subseteq SUBSET S, Bad # {}
  PROVE  \E t \in Bad : \A s \in Bad : s \subseteq t => s = t
<1>1. IsWellFoundedOn(StrictSubsetOrdering(S), SUBSET S)
  BY FS_StrictSubsetOrderingWellFounded, FS_FiniteSubsetsOfFinite
<1>2. PICK t \in Bad : \A s \in Bad : <<s, t>> \notin StrictSubsetOrdering(S)
  BY <1>1, WFMin
<1>3. \A s \in Bad : s \subseteq t => s = t
  BY <1>2 DEF StrictSubsetOrdering
<1> QED BY <1>3

LEMMA PickIn ==
  ASSUME NEW s, s # {}
  PROVE  Pick(s) \in s
BY DEF Pick

\* A recursive function over the subsets of S, at one of them.
LEMMA SumsAt ==
  ASSUME NEW f, NEW S, NEW g, Sums(f, S, g), NEW s \in SUBSET S
  PROVE  g[s] = IF s = {} THEN 0 ELSE f[Pick(s)] + g[s \ {Pick(s)}]
<1> DEFINE value(t) == IF t = {} THEN 0 ELSE f[Pick(t)] + g[t \ {Pick(t)}]
<1>1. g = [t \in SUBSET S |-> value(t)]
  BY DEF Sums
<1> HIDE DEF value
<1>2. g[s] = value(s)
  BY <1>1
<1> QED BY <1>2 DEF value

\* Two recursive functions agree where both are defined.
LEMMA SumsAgree ==
  ASSUME NEW f, NEW S, IsFiniteSet(S), NEW T \in SUBSET S,
         NEW g, Sums(f, S, g), NEW h, Sums(f, T, h)
  PROVE  g[T] = h[T]
<1> DEFINE Bad == {s \in SUBSET T : g[s] # h[s]}
<1>1. SUFFICES ASSUME Bad # {} PROVE FALSE
  OBVIOUS
<1>2. IsFiniteSet(T)
  BY FS_Subset
<1>3. PICK t \in Bad : \A s \in Bad : s \subseteq t => s = t
  <2>1. Bad \subseteq SUBSET T
    OBVIOUS
  <2> HIDE DEF Bad
  <2> QED BY <1>1, <1>2, <2>1, SmallestSubset
<1>4. CASE t = {}
  BY <1>3, <1>4, SumsAt
<1>5. CASE t # {}
  <2>1. Pick(t) \in t
    BY <1>5, PickIn
  <2>2. g[t \ {Pick(t)}] = h[t \ {Pick(t)}]
    BY <1>3, <2>1
  <2>3. g[t] = f[Pick(t)] + g[t \ {Pick(t)}]
    BY <1>3, <1>5, SumsAt
  <2>4. h[t] = f[Pick(t)] + h[t \ {Pick(t)}]
    BY <1>3, <1>5, SumsAt
  <2> QED BY <1>3, <2>2, <2>3, <2>4
<1> QED BY <1>4, <1>5

\* The recursive function exists over every finite set.
LEMMA SumsExist ==
  ASSUME NEW f, NEW S, IsFiniteSet(S)
  PROVE  Sums(f, S, SumsOver(f, S))
<1> DEFINE Bad == {T \in SUBSET S : ~ \E h : Sums(f, T, h)}
<1>1. SUFFICES ASSUME Bad # {} PROVE FALSE
  BY DEF SumsOver
<1>2. PICK T \in Bad : \A t \in Bad : t \subseteq T => t = T
  <2>1. Bad \subseteq SUBSET S
    OBVIOUS
  <2> HIDE DEF Bad
  <2> QED BY <1>1, <2>1, SmallestSubset
<1>3. \A t \in SUBSET T : t # T => Sums(f, t, SumsOver(f, t))
  BY <1>2 DEF SumsOver
<1> DEFINE rest(t) == t \ {Pick(t)}
           part(t) == IF t = {} THEN 0
                      ELSE f[Pick(t)] + SumsOver(f, rest(t))[rest(t)]
           h == [t \in SUBSET T |-> part(t)]
<1>4. \A t \in SUBSET T : t # {} => rest(t) \in SUBSET T /\ rest(t) # T /\ rest(t) \subseteq t
  BY PickIn
<1>5. ASSUME NEW t \in SUBSET T, t # T
      PROVE  SumsOver(f, t)[t] = part(t)
  <2>1. Sums(f, t, SumsOver(f, t))
    BY <1>3, <1>5
  <2>2. CASE t = {}
    BY <2>1, <2>2, SumsAt
  <2>3. CASE t # {}
    <3>1. SumsOver(f, t)[t] = f[Pick(t)] + SumsOver(f, t)[rest(t)]
      BY <2>1, <2>3, SumsAt
    <3>2. Sums(f, rest(t), SumsOver(f, rest(t)))
      BY <1>3, <1>4, <2>3
    <3>3. IsFiniteSet(t)
      BY FS_Subset, <1>2
    <3>4. SumsOver(f, t)[rest(t)] = SumsOver(f, rest(t))[rest(t)]
      BY <2>1, <3>2, <3>3, SumsAgree
    <3> QED BY <2>3, <3>1, <3>4
  <2> QED BY <2>2, <2>3
<1>6. \A t \in SUBSET T : t # {} => part(t) = f[Pick(t)] + h[rest(t)]
  BY <1>4, <1>5
<1>7. \A t \in SUBSET T : h[t] = IF t = {} THEN 0 ELSE f[Pick(t)] + h[rest(t)]
  BY <1>6
<1>8. Sums(f, T, h)
  BY <1>7 DEF Sums
<1> HIDE DEF h
<1> QED BY <1>2, <1>8

-----------------------------------------------------------------------------
\* The sum over no element, and over some: the chosen one and the rest.
LEMMA SumByPick ==
  ASSUME NEW f, NEW S, IsFiniteSet(S)
  PROVE  /\ S = {} => SumFunctionOnSet(f, S) = 0
         /\ S # {} => SumFunctionOnSet(f, S)
                       = f[Pick(S)] + SumFunctionOnSet(f, S \ {Pick(S)})
<1> DEFINE rest == S \ {Pick(S)}
<1>1. IsFiniteSet(rest)
  BY FS_Subset
<1>2. Sums(f, S, SumsOver(f, S)) /\ Sums(f, rest, SumsOver(f, rest))
  BY <1>1, SumsExist
<1>3. SumsOver(f, S)[rest] = SumsOver(f, rest)[rest]
  BY <1>2, SumsAgree
<1>4. SumsOver(f, S)[S] = IF S = {} THEN 0 ELSE f[Pick(S)] + SumsOver(f, S)[rest]
  BY <1>2, SumsAt
<1> QED BY <1>3, <1>4, SumIsChosen

\* A sum of natural numbers is a natural number.
LEMMA SumIsNat ==
  ASSUME NEW f, NEW S, IsFiniteSet(S), \A x \in S : f[x] \in Nat
  PROVE  SumFunctionOnSet(f, S) \in Nat
<1> DEFINE Bad == {T \in SUBSET S : SumFunctionOnSet(f, T) \notin Nat}
<1>1. SUFFICES ASSUME Bad # {} PROVE FALSE
  OBVIOUS
<1>2. PICK T \in Bad : \A t \in Bad : t \subseteq T => t = T
  <2>1. Bad \subseteq SUBSET S
    OBVIOUS
  <2> HIDE DEF Bad
  <2> QED BY <1>1, <2>1, SmallestSubset
<1>3. IsFiniteSet(T)
  BY FS_Subset, <1>2
<1>4. ASSUME T = {} PROVE FALSE
  <2>1. SumFunctionOnSet(f, T) = 0
    BY <1>3, <1>4, SumByPick
  <2> QED BY <1>2, <2>1
<1>5. Pick(T) \in T /\ f[Pick(T)] \in Nat
  BY <1>2, <1>4, PickIn
<1>6. SumFunctionOnSet(f, T \ {Pick(T)}) \in Nat
  BY <1>2, <1>5
<1> QED BY <1>2, <1>3, <1>4, <1>5, <1>6, SumByPick

\* Any element may be taken out first.
LEMMA SumRemoveElement ==
  ASSUME NEW f, NEW S, IsFiniteSet(S), \A x \in S : f[x] \in Nat, NEW e \in S
  PROVE  SumFunctionOnSet(f, S) = f[e] + SumFunctionOnSet(f, S \ {e})
<1> DEFINE sum(T) == SumFunctionOnSet(f, T)
           Bad == {T \in SUBSET S : \E x \in T : sum(T) # f[x] + sum(T \ {x})}
<1>1. SUFFICES ASSUME Bad # {} PROVE FALSE
  OBVIOUS
<1>2. PICK T \in Bad : \A t \in Bad : t \subseteq T => t = T
  <2>1. Bad \subseteq SUBSET S
    OBVIOUS
  <2> HIDE DEF Bad
  <2> QED BY <1>1, <2>1, SmallestSubset
<1>3. PICK x \in T : sum(T) # f[x] + sum(T \ {x})
  BY <1>2
<1> DEFINE p == Pick(T)
<1>4. p \in T /\ p # x /\ sum(T) = f[p] + sum(T \ {p})
  <2>1. IsFiniteSet(T)
    BY FS_Subset, <1>2
  <2> QED BY <1>3, <2>1, PickIn, SumByPick
<1>5. sum(T \ {p}) = f[x] + sum((T \ {p}) \ {x})
  BY <1>2, <1>3, <1>4
<1>6. sum(T \ {x}) = f[p] + sum((T \ {x}) \ {p})
  BY <1>2, <1>3, <1>4
<1>7. (T \ {x}) \ {p} = (T \ {p}) \ {x}
  OBVIOUS
<1>8. f[x] \in Nat /\ f[p] \in Nat /\ sum((T \ {p}) \ {x}) \in Nat
  <2>1. IsFiniteSet((T \ {p}) \ {x})
    BY FS_Subset, <1>2
  <2> QED BY <1>2, <1>3, <1>4, <2>1, SumIsNat
<1> DEFINE left == sum((T \ {p}) \ {x})
<1>9. sum(T) = f[p] + (f[x] + left) /\ f[x] + sum(T \ {x}) = f[x] + (f[p] + left)
  BY <1>4, <1>5, <1>6, <1>7
<1> HIDE DEF p, sum, left, Bad
<1> QED BY <1>3, <1>8, <1>9 DEF left

\* What an element more adds.
LEMMA SumAddElement ==
  ASSUME NEW f, NEW S, IsFiniteSet(S), NEW e, e \notin S,
         \A x \in S \cup {e} : f[x] \in Nat
  PROVE  SumFunctionOnSet(f, S \cup {e}) = SumFunctionOnSet(f, S) + f[e]
<1>1. IsFiniteSet(S \cup {e}) /\ (S \cup {e}) \ {e} = S
  BY FS_AddElement
<1>2. f[e] \in Nat /\ SumFunctionOnSet(f, S) \in Nat
  BY SumIsNat
<1>3. SumFunctionOnSet(f, S \cup {e}) = f[e] + SumFunctionOnSet(f, S)
  BY <1>1, SumRemoveElement
<1> QED BY <1>2, <1>3
=============================================================================
