-------------------------- MODULE SettlementProofs --------------------------
(***************************************************************************)
(* Proofs about the aggregator and the vault contracts, about the trips    *)
(* the bot submits to them and about the books it keeps of what it does,   *)
(* for any users, tokens, pools and routes, whatever the pools pay, and    *)
(* for any number of scans, dimensions and transactions.                   *)
(*                                                                         *)
(* What a call leaves behind follows from an account of every token while  *)
(* it is executed (CallInv): the aggregator holds, on top of what it had,  *)
(* the rest of the leg's input, the amount on the route and what the       *)
(* routes have made; the payer has paid the input; nobody else who is not  *)
(* a pool has lost or gained; and a restricted call has only met           *)
(* registered pools.  What its leg events tell follows from their sums     *)
(* while it is executed (VolumeInv).                                       *)
(*                                                                         *)
(* What the bot hands to submit pays because a trip is followed from its   *)
(* first quote on (ScanInv): every part of its legs pays by the market it  *)
(* tells, the inputs of leg_back are the outputs of leg_out, and its       *)
(* amount is within what was asked of the vault.                           *)
(*                                                                         *)
(* The books add up because each counter is the number of scans, attempts  *)
(* or transactions that have been where it counts (BookInv, FunnelInv,     *)
(* ProfitInv).                                                             *)
(***************************************************************************)
EXTENDS Settlement, ArbOpportunity, SimulationBook, ArbFunnel, ProfitBook, FiniteSetTheorems, TLAPS

-----------------------------------------------------------------------------
(***************************************************************************)
(* Least elements, sums and counts                                         *)
(***************************************************************************)

\* A set of naturals has a least element: induction, as the search for the
\* smallest counterexample.
LEMMA LeastNumber ==
  ASSUME NEW S, S \subseteq Nat, S # {}
  PROVE \E n \in S : \A m \in S : n <= m
<1> DEFINE T == {1 .. n : n \in S}
<1>1. IsWellFoundedOn(StrictSubsetOrdering(Nat), FiniteSubsetsOf(Nat))
  BY FS_StrictSubsetOrderingWellFounded
<1>2. T \subseteq FiniteSubsetsOf(Nat) /\ T # {}
  <2>1. ASSUME NEW n \in S PROVE 1 .. n \subseteq Nat /\ IsFiniteSet(1 .. n)
    BY FS_Interval
  <2> QED BY <2>1 DEF FiniteSubsetsOf
<1>3. PICK x \in T : \A y \in T : <<y, x>> \notin StrictSubsetOrdering(Nat)
  <2> HIDE DEF T
  <2> QED BY <1>1, <1>2, WFMin
<1>4. PICK n \in S : x = 1 .. n
  OBVIOUS
<1>5. ASSUME NEW m \in S, ~ n <= m PROVE FALSE
  <2>1. 1 .. m \subseteq 1 .. n /\ n \in 1 .. n /\ n \notin 1 .. m
    BY <1>5
  <2>2. 1 .. m \subseteq Nat /\ 1 .. n \subseteq Nat
    OBVIOUS
  <2>3. <<1 .. m, x>> \in StrictSubsetOrdering(Nat)
    BY <1>4, <2>1, <2>2 DEF StrictSubsetOrdering
  <2>4. 1 .. m \in T
    BY <1>5
  <2> QED BY <1>3, <2>3, <2>4
<1> QED BY <1>5

SumOver(w, S) == MapThenSumSet(LAMBDA d : w[d], S)

\* The function that MapThenSumSet computes a sum with.
First(s) == CHOOSE x \in s : TRUE
SumsUp(g, w, S) ==
  g = [s \in SUBSET S |-> IF s = {} THEN 0 ELSE w[First(s)] + g[s \ {First(s)}]]

LEMMA SumUnfolds ==
  ASSUME NEW w, NEW S
  PROVE SumOver(w, S) = (CHOOSE g : SumsUp(g, w, S))[S]
  BY DEF SumOver, MapThenSumSet, MapThenFoldSet, SumsUp, First

\* A set of subsets of a finite set has a smallest one: induction over
\* finite sets, as the search for the smallest counterexample.
LEMMA SmallestSubset ==
  ASSUME NEW D, IsFiniteSet(D), NEW T \in SUBSET (SUBSET D), T # {}
  PROVE \E s \in T : \A t \in T : t \subseteq s => t = s
<1>1. IsWellFoundedOn(StrictSubsetOrdering(D), FiniteSubsetsOf(D))
  BY FS_StrictSubsetOrderingWellFounded
<1>2. T \subseteq FiniteSubsetsOf(D)
  BY FS_FiniteSubsetsOfFinite
<1>3. \E x \in T : \A y \in T : ~ (<<y, x>> \in StrictSubsetOrdering(D))
  BY <1>1, <1>2, WFMin
<1> QED BY <1>3 DEF StrictSubsetOrdering

\* Such a function exists for every finite set, and there is only one.
LEMMA SumsUnique ==
  ASSUME NEW S, IsFiniteSet(S), NEW w, NEW T \in SUBSET S, NEW g, SumsUp(g, w, S),
         NEW h, SumsUp(h, w, T)
  PROVE \A s \in SUBSET T : g[s] = h[s]
<1> DEFINE Bad == {s \in SUBSET T : g[s] # h[s]}
<1> SUFFICES ASSUME Bad # {} PROVE FALSE
  OBVIOUS
<1>1. PICK s \in Bad : \A t \in Bad : t \subseteq s => t = s
  <2>1. Bad \in SUBSET (SUBSET S)
    OBVIOUS
  <2> HIDE DEF Bad
  <2> QED BY <2>1, SmallestSubset
<1>2. s \in SUBSET S /\ s \in SUBSET T /\ g[s] # h[s]
  OBVIOUS
<1>3. g[s] = (IF s = {} THEN 0 ELSE w[First(s)] + g[s \ {First(s)}])
      /\ h[s] = (IF s = {} THEN 0 ELSE w[First(s)] + h[s \ {First(s)}])
  BY <1>2 DEF SumsUp
<1>4. s # {}
  BY <1>2, <1>3
<1>5. First(s) \in s
  BY <1>4 DEF First
<1>6. s \ {First(s)} \notin Bad
  BY <1>1, <1>5
<1>7. g[s \ {First(s)}] = h[s \ {First(s)}]
  BY <1>2, <1>6
<1> QED BY <1>2, <1>3, <1>7

Sums(w, S) == CHOOSE g : SumsUp(g, w, S)

LEMMA SumsExist ==
  ASSUME NEW S, IsFiniteSet(S), NEW w
  PROVE SumsUp(Sums(w, S), w, S)
<1> DEFINE Bad == {T \in SUBSET S : ~ \E g : SumsUp(g, w, T)}
<1>1. ASSUME Bad # {} PROVE FALSE
  <2>1. PICK T \in Bad : \A U \in Bad : U \subseteq T => U = T
    <3>1. Bad \in SUBSET (SUBSET S)
      OBVIOUS
    <3> HIDE DEF Bad
    <3> QED BY <1>1, <3>1, SmallestSubset
  <2>2. T \in SUBSET S /\ IsFiniteSet(T) /\ ~ \E g : SumsUp(g, w, T)
    BY FS_Subset
  <2> DEFINE val(U) == Sums(w, U)[U]
             G == [s \in SUBSET T |-> IF s = {} THEN 0 ELSE w[First(s)] + val(s \ {First(s)})]
  <2>3. ASSUME NEW U \in SUBSET T, U # T PROVE SumsUp(Sums(w, U), w, U)
    <3>1. U \notin Bad
      BY <2>1, <2>3
    <3>2. \E g : SumsUp(g, w, U)
      BY <2>2, <3>1
    <3> QED BY <3>2 DEF Sums
  <2>4. ASSUME NEW U \in SUBSET T, U # T PROVE G[U] = val(U)
    <3>1. SumsUp(Sums(w, U), w, U)
      BY <2>3, <2>4
    <3>2. val(U) = (IF U = {} THEN 0 ELSE w[First(U)] + Sums(w, U)[U \ {First(U)}])
      BY <3>1 DEF SumsUp
    <3>3. CASE U = {}
      BY <3>2, <3>3
    <3>4. CASE U # {}
      <4> DEFINE V == U \ {First(U)}
      <4>1. First(U) \in U
        BY <3>4 DEF First
      <4>2. V \in SUBSET U /\ V \in SUBSET T /\ V # T
        BY <4>1
      <4>3. SumsUp(Sums(w, V), w, V)
        BY <2>3, <4>2
      <4>4. IsFiniteSet(U)
        BY <2>2, FS_Subset
      <4>5. Sums(w, U)[V] = Sums(w, V)[V]
        BY <3>1, <4>2, <4>3, <4>4, SumsUnique
      <4> QED BY <3>2, <3>4, <4>5
    <3> QED BY <3>3, <3>4
  <2>5. ASSUME NEW s \in SUBSET T, s # {} PROVE G[s \ {First(s)}] = val(s \ {First(s)})
    <3>1. First(s) \in s
      BY <2>5 DEF First
    <3>2. s \ {First(s)} \in SUBSET T /\ s \ {First(s)} # T
      BY <3>1
    <3> HIDE DEF G, val
    <3> QED BY <2>4, <3>2
  <2>6. G = [s \in SUBSET T |-> IF s = {} THEN 0 ELSE w[First(s)] + G[s \ {First(s)}]]
    <3> DEFINE H == [s \in SUBSET T |-> IF s = {} THEN 0 ELSE w[First(s)] + G[s \ {First(s)}]]
    <3>1. ASSUME NEW s \in SUBSET T PROVE G[s] = H[s]
      <4>1. G[s] = IF s = {} THEN 0 ELSE w[First(s)] + val(s \ {First(s)})
        OBVIOUS
      <4> HIDE DEF G, val
      <4> QED BY <2>5, <4>1
    <3>2. G = [s \in SUBSET T |-> G[s]] /\ H = [s \in SUBSET T |-> H[s]]
      OBVIOUS
    <3> HIDE DEF G, H
    <3>3. [s \in SUBSET T |-> G[s]] = [s \in SUBSET T |-> H[s]]
      BY <3>1
    <3>4. G = H
      BY <3>2, <3>3
    <3> QED BY <3>4 DEF H
  <2>7. SumsUp(G, w, T)
    <3> HIDE DEF G
    <3> QED BY <2>6 DEF SumsUp
  <2> HIDE DEF G
  <2> QED BY <2>2, <2>7
<1>2. \E g : SumsUp(g, w, S)
  <2>1. S \in SUBSET S /\ S \notin Bad
    BY <1>1
  <2> QED BY <2>1
<1> QED BY <1>2 DEF Sums

LEMMA SumsMeet ==
  ASSUME NEW S, IsFiniteSet(S), NEW w, NEW T \in SUBSET S
  PROVE Sums(w, S)[T] = SumOver(w, T)
<1>1. IsFiniteSet(T)
  BY FS_Subset
<1>2. SumsUp(Sums(w, S), w, S) /\ SumsUp(Sums(w, T), w, T)
  BY <1>1, SumsExist
<1>3. Sums(w, S)[T] = Sums(w, T)[T]
  BY <1>2, SumsUnique
<1> QED BY <1>3, SumUnfolds DEF Sums

\* The sum over a set, one element at a time.
LEMMA SumOne ==
  ASSUME NEW S, IsFiniteSet(S), NEW w
  PROVE SumOver(w, S) = IF S = {} THEN 0 ELSE w[First(S)] + SumOver(w, S \ {First(S)})
<1>1. SumsUp(Sums(w, S), w, S) /\ Sums(w, S)[S] = SumOver(w, S)
  BY SumsExist, SumsMeet
<1>2. SumOver(w, S) = IF S = {} THEN 0 ELSE w[First(S)] + Sums(w, S)[S \ {First(S)}]
  BY <1>1 DEF SumsUp
<1>3. S \ {First(S)} \in SUBSET S
  OBVIOUS
<1> QED BY <1>2, <1>3, SumsMeet

LEMMA FirstIn == ASSUME NEW S, S # {} PROVE First(S) \in S
  BY DEF First

LEMMA SumInt ==
  ASSUME NEW S, IsFiniteSet(S), NEW w, \A d \in S : w[d] \in Int
  PROVE SumOver(w, S) \in Int
<1> DEFINE Bad == {T \in SUBSET S : SumOver(w, T) \notin Int}
<1> SUFFICES ASSUME S \in Bad PROVE FALSE
  OBVIOUS
<1>1. Bad \in SUBSET (SUBSET S) /\ Bad # {}
  OBVIOUS
<1>2. PICK T \in Bad : \A U \in Bad : U \subseteq T => U = T
  <2> HIDE DEF Bad
  <2> QED BY <1>1, SmallestSubset
<1>3. IsFiniteSet(T) /\ T \in SUBSET S /\ SumOver(w, T) \notin Int
  BY FS_Subset
<1>4. SumOver(w, T) = IF T = {} THEN 0 ELSE w[First(T)] + SumOver(w, T \ {First(T)})
  BY <1>3, SumOne
<1>5. T # {} /\ First(T) \in T
  BY <1>3, <1>4, FirstIn
<1>6. SumOver(w, T \ {First(T)}) \in Int
  BY <1>2, <1>5
<1> QED BY <1>3, <1>4, <1>5, <1>6

LEMMA SumTake ==
  ASSUME NEW S, IsFiniteSet(S), NEW w, \A d \in S : w[d] \in Int, NEW x \in S
  PROVE SumOver(w, S) = w[x] + SumOver(w, S \ {x})
<1> DEFINE Bad == {T \in SUBSET S : \E y \in T : SumOver(w, T) # w[y] + SumOver(w, T \ {y})}
<1> SUFFICES ASSUME S \in Bad PROVE FALSE
  OBVIOUS
<1>1. Bad \in SUBSET (SUBSET S) /\ Bad # {}
  OBVIOUS
<1>2. PICK T \in Bad : \A U \in Bad : U \subseteq T => U = T
  <2> HIDE DEF Bad
  <2> QED BY <1>1, SmallestSubset
<1>3. PICK y \in T : SumOver(w, T) # w[y] + SumOver(w, T \ {y})
  OBVIOUS
<1>4. T \in SUBSET S /\ \A U \in SUBSET T : IsFiniteSet(U) /\ SumOver(w, U) \in Int
  <2>1. T \in SUBSET S
    OBVIOUS
  <2>2. ASSUME NEW U \in SUBSET T PROVE IsFiniteSet(U) /\ SumOver(w, U) \in Int
    BY <2>1, FS_Subset, SumInt
  <2> QED BY <2>1, <2>2
<1> DEFINE f == First(T)
<1>5. f \in T
  BY FirstIn
<1>6. SumOver(w, T) = w[f] + SumOver(w, T \ {f})
  BY <1>4, <1>5, SumOne
<1> HIDE DEF f
<1>7. f # y
  BY <1>3, <1>6
<1>8. SumOver(w, T \ {f}) = w[y] + SumOver(w, T \ {f, y})
  <2>1. T \ {f} \notin Bad /\ T \ {f} \in SUBSET S
    BY <1>2, <1>4, <1>5
  <2>2. y \in T \ {f} /\ (T \ {f}) \ {y} = T \ {f, y}
    BY <1>7
  <2> QED BY <2>1, <2>2
<1>9. SumOver(w, T \ {y}) = w[f] + SumOver(w, T \ {f, y})
  <2>1. T \ {y} \notin Bad /\ T \ {y} \in SUBSET S
    BY <1>2, <1>4, <1>3
  <2>2. f \in T \ {y} /\ (T \ {y}) \ {f} = T \ {f, y}
    BY <1>5, <1>7
  <2> QED BY <2>1, <2>2
<1>10. w[f] \in Int /\ w[y] \in Int /\ SumOver(w, T \ {f, y}) \in Int
  BY <1>4, <1>5
<1> QED BY <1>3, <1>6, <1>8, <1>9, <1>10

\* The sum of a pointwise sum.
LEMMA SumAdds ==
  ASSUME NEW S, IsFiniteSet(S), NEW u, NEW v, NEW w,
         \A d \in S : u[d] \in Int /\ v[d] \in Int /\ w[d] = u[d] + v[d]
  PROVE SumOver(w, S) = SumOver(u, S) + SumOver(v, S)
<1> DEFINE Bad == {T \in SUBSET S : SumOver(w, T) # SumOver(u, T) + SumOver(v, T)}
<1> SUFFICES ASSUME S \in Bad PROVE FALSE
  OBVIOUS
<1>1. Bad \in SUBSET (SUBSET S) /\ Bad # {}
  OBVIOUS
<1>2. PICK T \in Bad : \A U \in Bad : U \subseteq T => U = T
  <2> HIDE DEF Bad
  <2> QED BY <1>1, SmallestSubset
<1>3. T \in SUBSET S /\ SumOver(w, T) # SumOver(u, T) + SumOver(v, T) /\ IsFiniteSet(T)
  BY FS_Subset
<1> DEFINE x == First(T)
           V == T \ {x}
<1>4. /\ SumOver(w, T) = IF T = {} THEN 0 ELSE w[x] + SumOver(w, V)
      /\ SumOver(u, T) = IF T = {} THEN 0 ELSE u[x] + SumOver(u, V)
      /\ SumOver(v, T) = IF T = {} THEN 0 ELSE v[x] + SumOver(v, V)
  BY <1>3, SumOne
<1>5. T # {} /\ x \in T
  BY <1>3, <1>4, FirstIn
<1> HIDE DEF x
<1>6. SumOver(w, V) = SumOver(u, V) + SumOver(v, V)
  BY <1>2, <1>5
<1>7. u[x] \in Int /\ v[x] \in Int /\ w[x] = u[x] + v[x]
  BY <1>3, <1>5
<1>8. SumOver(u, V) \in Int /\ SumOver(v, V) \in Int
  BY <1>3, FS_Subset, SumInt
<1> HIDE DEF V
<1> QED BY <1>3, <1>4, <1>5, <1>6, <1>7, <1>8

\* A sum of zeros is zero, and a sum of ones the number of them.
LEMMA SumZero ==
  ASSUME NEW S, IsFiniteSet(S), NEW w, \A d \in S : w[d] = 0
  PROVE SumOver(w, S) = 0
<1>1. SumOver(w, S) = SumOver(w, S) + SumOver(w, S)
  BY SumAdds
<1>2. SumOver(w, S) \in Int
  BY SumInt
<1>3. \A n \in Int : n = n + n => n = 0
  OBVIOUS
<1> QED BY <1>1, <1>2, <1>3

\* Outside of a subset only zeros: the sum is the subset's.
LEMMA SumWithin ==
  ASSUME NEW S, IsFiniteSet(S), NEW R \in SUBSET S, NEW u, NEW w, \A d \in R : u[d] \in Int,
         \A d \in S : w[d] = IF d \in R THEN u[d] ELSE 0
  PROVE SumOver(w, S) = SumOver(u, R)
<1> DEFINE Bad == {T \in SUBSET S : SumOver(w, T) # SumOver(u, T \cap R)}
<1> SUFFICES ASSUME S \in Bad PROVE FALSE
  <2>1. S \cap R = R
    OBVIOUS
  <2> QED BY <2>1
<1>1. Bad \in SUBSET (SUBSET S) /\ Bad # {}
  OBVIOUS
<1>2. PICK T \in Bad : \A U \in Bad : U \subseteq T => U = T
  <2> HIDE DEF Bad
  <2> QED BY <1>1, SmallestSubset
<1>3. T \in SUBSET S /\ SumOver(w, T) # SumOver(u, T \cap R) /\ IsFiniteSet(T) /\ IsFiniteSet(T \cap R)
  BY FS_Subset
<1> DEFINE x == First(T)
           V == T \ {x}
<1>4. SumOver(w, T) = IF T = {} THEN 0 ELSE w[x] + SumOver(w, V)
  BY <1>3, SumOne
<1>5. T # {} /\ x \in T
  <2>1. {} \cap R = {} /\ SumOver(u, {}) = 0
    BY SumOne, FS_EmptySet
  <2> QED BY <1>3, <1>4, <2>1, FirstIn
<1> HIDE DEF x
<1>6. SumOver(w, V) = SumOver(u, V \cap R) /\ SumOver(u, V \cap R) \in Int
  <2>1. IsFiniteSet(V \cap R) /\ V \cap R \subseteq R
    BY <1>3, FS_Subset
  <2>2. SumOver(u, V \cap R) \in Int
    BY <2>1, SumInt
  <2>3. V \notin Bad /\ V \in SUBSET S
    BY <1>2, <1>3, <1>5
  <2> QED BY <2>2, <2>3
<1>7. CASE x \in R
  <2>1. (T \cap R) \ {x} = V \cap R /\ x \in T \cap R
    BY <1>5, <1>7
  <2>2. SumOver(u, T \cap R) = u[x] + SumOver(u, V \cap R)
    BY <1>3, <2>1, SumTake
  <2> QED BY <1>3, <1>4, <1>5, <1>6, <1>7, <2>2
<1>8. CASE x \notin R
  <2>1. T \cap R = V \cap R
    BY <1>5, <1>8
  <2>2. w[x] = 0
    BY <1>3, <1>5, <1>8
  <2> QED BY <1>3, <1>4, <1>5, <1>6, <2>1, <2>2
<1> QED BY <1>7, <1>8

LEMMA SumOnes ==
  ASSUME NEW S, IsFiniteSet(S), NEW w, \A d \in S : w[d] = 1
  PROVE SumOver(w, S) = Cardinality(S)
<1> DEFINE Bad == {T \in SUBSET S : SumOver(w, T) # Cardinality(T)}
<1> SUFFICES ASSUME S \in Bad PROVE FALSE
  OBVIOUS
<1>1. Bad \in SUBSET (SUBSET S) /\ Bad # {}
  OBVIOUS
<1>2. PICK T \in Bad : \A U \in Bad : U \subseteq T => U = T
  <2> HIDE DEF Bad
  <2> QED BY <1>1, SmallestSubset
<1>3. T \in SUBSET S /\ SumOver(w, T) # Cardinality(T) /\ IsFiniteSet(T)
  BY FS_Subset
<1> DEFINE x == First(T)
<1>4. SumOver(w, T) = IF T = {} THEN 0 ELSE w[x] + SumOver(w, T \ {x})
  BY <1>3, SumOne
<1>5. T # {} /\ x \in T
  BY <1>3, <1>4, FirstIn, FS_EmptySet
<1> HIDE DEF x
<1>6. SumOver(w, T \ {x}) = Cardinality(T \ {x}) /\ w[x] = 1
  BY <1>2, <1>3, <1>5
<1>7. Cardinality(T \ {x}) = Cardinality(T) - 1 /\ Cardinality(T) \in Nat
  BY <1>3, <1>5, FS_RemoveElement, FS_CardinalityType
<1> QED BY <1>3, <1>4, <1>5, <1>6, <1>7

\* Induction up to a number.
LEMMA UpTo ==
  ASSUME NEW n \in Nat, NEW G, 0 \in G, \A k \in 0 .. n - 1 : k \in G => k + 1 \in G
  PROVE \A k \in 0 .. n : k \in G
<1> DEFINE Bad == {k \in 0 .. n : k \notin G}
<1> SUFFICES ASSUME Bad # {} PROVE FALSE
  OBVIOUS
<1>1. PICK k \in Bad : \A m \in Bad : k <= m
  <2>1. Bad \subseteq Nat
    OBVIOUS
  <2> HIDE DEF Bad
  <2> QED BY <2>1, LeastNumber
<1>2. k # 0 /\ k \in 0 .. n
  OBVIOUS
<1>3. k - 1 \in 0 .. n - 1 /\ k - 1 \in 0 .. n /\ ~ (k <= k - 1) /\ k - 1 + 1 = k
  BY <1>2
<1>4. k - 1 \in G
  BY <1>1, <1>3
<1> QED BY <1>3, <1>4

LEMMA SumSame ==
  ASSUME NEW S, IsFiniteSet(S), NEW u, NEW w, \A d \in S : u[d] \in Int /\ w[d] = u[d]
  PROVE SumOver(w, S) = SumOver(u, S)
BY SumWithin

LEMMA SumIs == ASSUME NEW w PROVE SumFunction(w) = SumOver(w, DOMAIN w)
BY DEF SumFunction, SumFunctionOnSet, FoldFunctionOnSet, SumOver, MapThenSumSet, MapThenFoldSet

\* The sum of a sequence, from its first element to its last.
Telescopes(w, n) ==
  /\ SumOver(w, 1 .. 0) = 0
  /\ \A k \in 0 .. n : SumOver(w, 1 .. k) \in Int
  /\ \A k \in 0 .. n - 1 : SumOver(w, 1 .. k + 1) = SumOver(w, 1 .. k) + w[k + 1]

LEMMA SumSteps ==
  ASSUME NEW n \in Nat, NEW w, \A k \in 1 .. n : w[k] \in Int
  PROVE Telescopes(w, n)
<1>1. \A k \in Int : IsFiniteSet(1 .. k)
  BY FS_Interval
<1>2. SumOver(w, 1 .. 0) = 0
  <2>1. \A d \in 1 .. 0 : w[d] = 0
    OBVIOUS
  <2> QED BY <1>1, <2>1, SumZero
<1>3. ASSUME NEW k \in 0 .. n PROVE SumOver(w, 1 .. k) \in Int
  BY <1>1, SumInt
<1>4. ASSUME NEW k \in 0 .. n - 1 PROVE SumOver(w, 1 .. k + 1) = SumOver(w, 1 .. k) + w[k + 1]
  <2> DEFINE e == k + 1
  <2>1. (1 .. e) \ {e} = 1 .. k /\ e \in 1 .. e /\ k \in 0 .. n /\ w[e] \in Int
    OBVIOUS
  <2>2. IsFiniteSet(1 .. e) /\ \A d \in 1 .. e : w[d] \in Int
    BY <1>1
  <2> HIDE DEF e
  <2>3. SumOver(w, 1 .. e) = w[e] + SumOver(w, (1 .. e) \ {e})
    BY <2>1, <2>2, SumTake
  <2>4. SumOver(w, 1 .. k) \in Int
    BY <1>3, <2>1
  <2>5. SumOver(w, (1 .. e) \ {e}) = SumOver(w, 1 .. k)
    BY <2>1, Zenon
  <2>6. SumOver(w, 1 .. e) = SumOver(w, 1 .. k) + w[e]
    BY <2>1, <2>3, <2>4, <2>5
  <2> QED BY <2>6 DEF e
<1> QED BY <1>2, <1>3, <1>4 DEF Telescopes

\* One more element is counted once.
LEMMA OneMore ==
  ASSUME NEW S, IsFiniteSet(S), NEW x, x \notin S
  PROVE Cardinality(S \union {x}) = Cardinality(S) + 1
  BY FS_AddElement

\* A counter among those of the reasons goes up, or none does.
LEMMA ReasonCounted ==
  ASSUME NEW f \in [Reasons -> Nat], NEW r
  PROVE [f EXCEPT ![r] = @ + 1] \in [Reasons -> Nat]
<1> DEFINE g == [f EXCEPT ![r] = @ + 1]
<1>1. CASE r \in Reasons
  BY <1>1
<1>2. CASE r \notin Reasons
  <2>1. g = f
    BY <1>2
  <2> QED BY <2>1
<1> QED BY <1>1, <1>2

-----------------------------------------------------------------------------
(***************************************************************************)
(* The contracts: a call and what it holds                                 *)
(***************************************************************************)

TwoLegs == {"round_trip", "vault"}

Payer == IF call.kind = "vault" THEN Vault ELSE call.user
LegIn == IF side = "there" THEN call.in ELSE call.out
LegOut == IF side = "there" THEN call.out ELSE call.in

\* What the aggregator holds of token t for the call.
Held(t) ==
  (IF t = LegIn THEN total - given ELSE 0)
  + (IF hop > 0 /\ t = Leg[route].steps[hop].in THEN amount ELSE 0)
  + (IF t = LegOut THEN made ELSE 0)

HoldingTable == [Holdings -> Int]
Allowances == [Users \X Tokens -> [left : Int, until : Int]]

Types ==
  /\ bal \in HoldingTable /\ allowance \in Allowances
  /\ before \in [bal : HoldingTable, allowance : Allowances]
  /\ total \in Int /\ given \in Int /\ amount \in Int /\ made \in Int

\* The arguments of the call passed the assertions.
WellFormed ==
  /\ call \in Calls
  /\ call.in # call.out
  /\ ValidLeg(call.there, call.in, call.out)
  /\ call.kind \in TwoLegs => ValidLeg(call.back, call.out, call.in)
  /\ call.kind = "restricted" => OnlyRegistered(call.there)

\* Where the execution is.
Placed ==
  /\ side \in {"there", "back"} /\ (side = "back" => call.kind \in TwoLegs)
  /\ route \in 0 .. Len(Leg) /\ hop \in Nat
  /\ hop > 0 => route > 0 /\ hop <= Len(Leg[route].steps)

\* The share of the weights the routes started so far stand for.
Weight == IF route = 0 THEN 0 ELSE call.back[route].upto

Shared ==
  /\ side = "there" => /\ total = Total(call.there)
                       /\ given = IF route = 0 THEN 0 ELSE call.there[route].upto
  /\ side = "back" /\ route = Len(call.back) => given = total
  /\ side = "back" /\ route < Len(call.back) =>
       /\ given * Total(call.back) <= Weight * total
       /\ Weight * total <= (given + route) * Total(call.back)

Balanced ==
  /\ \A t \in Tokens : bal[<<Agg, t>>] = before.bal[<<Agg, t>>] + Held(t)
  /\ \A a \in Users \union {Vault}, t \in Tokens :
       bal[<<a, t>>] = before.bal[<<a, t>>]
                       - (IF a = Payer /\ t = call.in THEN Total(call.there) ELSE 0)
  /\ call.kind = "restricted" =>
       \A v \in Venues \ registered, t \in Tokens : bal[<<v, t>>] = before.bal[<<v, t>>]

CallInv == Types /\ (call # NoCall => WellFormed /\ Placed /\ Shared /\ Balanced)
-----------------------------------------------------------------------------

\* What a transfer does to every holding.
LEMMA MovedIs ==
  ASSUME NEW b \in HoldingTable, NEW from, NEW to, NEW t, NEW x \in Int
  PROVE /\ Moved(b, from, to, t, x) \in HoldingTable
        /\ \A a \in Accounts, u \in Tokens :
             Moved(b, from, to, t, x)[<<a, u>>] =
               b[<<a, u>>] + (IF a = to /\ u = t THEN x ELSE 0)
                           - (IF a = from /\ u = t THEN x ELSE 0)
BY DEF Moved, Holdings, HoldingTable

\* What a leg that was accepted is like: its routes begin with a token, lead
\* to another and have something to swap.
Walkable(leg, from, to) ==
  /\ Len(leg) \in Nat \ {0} /\ DOMAIN leg = 1 .. Len(leg)
  /\ Total(leg) \in Nat \ {0} /\ Total(leg) = leg[Len(leg)].upto
  /\ \A i \in 1 .. Len(leg) :
       /\ leg[i].upto \in Nat \ {0} /\ Amount(leg, i) \in Nat \ {0}
       /\ leg[i].upto = Amount(leg, i) + (IF i = 1 THEN 0 ELSE leg[i - 1].upto)
       /\ Len(leg[i].steps) \in Nat \ {0}
       /\ leg[i].steps[1].in = from /\ leg[i].steps[Len(leg[i].steps)].out = to
       /\ \A j \in 1 .. Len(leg[i].steps) :
            /\ leg[i].steps[j] \in Steps /\ j \in DOMAIN leg[i].steps
            /\ j < Len(leg[i].steps) => leg[i].steps[j].out = leg[i].steps[j + 1].in

LEMMA LegIs ==
  ASSUME NEW leg \in Legs, NEW from, NEW to, ValidLeg(leg, from, to)
  PROVE Walkable(leg, from, to)
<1> DEFINE R == [upto : Int, steps : Seq(Steps)]
<1>1. leg \in Seq(R) /\ leg # <<>>
  BY SettlementAssumption DEF SettlementAssumption, ValidLeg
<1>2. Len(leg) \in Nat \ {0} /\ DOMAIN leg = 1 .. Len(leg)
  BY <1>1
<1>3. ASSUME NEW i \in 1 .. Len(leg)
      PROVE leg[i] \in R /\ leg[i].upto \in Int /\ leg[i].steps \in Seq(Steps)
            /\ Amount(leg, i) \in Int /\ Amount(leg, i) > 0
            /\ leg[i].upto = Amount(leg, i) + (IF i = 1 THEN 0 ELSE leg[i - 1].upto)
            /\ leg[i].steps # <<>>
            /\ Head(leg[i].steps).in = from /\ Last(leg[i].steps).out = to
            /\ \A j \in 1 .. Len(leg[i].steps) - 1 :
                 leg[i].steps[j].out = leg[i].steps[j + 1].in
  <2>1. leg[i] \in R
    <3> HIDE DEF R
    <3> QED BY <1>1, <1>2, <1>3
  <2>2. i = 1 \/ (i - 1 \in 1 .. Len(leg) /\ leg[i - 1] \in R)
    <3> HIDE DEF R
    <3> QED BY <1>1, <1>2, <1>3
  <2>3. leg[i].upto \in Int /\ leg[i].steps \in Seq(Steps) /\ (i = 1 \/ leg[i - 1].upto \in Int)
    BY <2>1, <2>2
  <2>4. /\ Amount(leg, i) > 0
        /\ leg[i].steps # <<>>
        /\ Head(leg[i].steps).in = from /\ Last(leg[i].steps).out = to
        /\ \A j \in 1 .. Len(leg[i].steps) - 1 :
             leg[i].steps[j].out = leg[i].steps[j + 1].in
    <3> HIDE DEF R
    <3> QED BY <1>2, <1>3 DEF ValidLeg
  <2>5. /\ Amount(leg, i) \in Int
        /\ leg[i].upto = Amount(leg, i) + (IF i = 1 THEN 0 ELSE leg[i - 1].upto)
    <3> HIDE DEF R
    <3> QED BY <2>3 DEF Amount
  <2> HIDE DEF R
  <2> QED BY <2>1, <2>3, <2>4, <2>5
<1>4. \A i \in 1 .. Len(leg) : leg[i].upto > 0
  <2> DEFINE Bad == {i \in 1 .. Len(leg) : ~ leg[i].upto > 0}
  <2> SUFFICES ASSUME Bad # {} PROVE FALSE
    OBVIOUS
  <2>1. PICK n \in Bad : \A m \in Bad : n <= m
    <3>1. Bad \subseteq Nat
      OBVIOUS
    <3> HIDE DEF Bad
    <3> QED BY <3>1, LeastNumber
  <2>2. n = 1 \/ (n - 1 \in 1 .. Len(leg) /\ n - 1 \notin Bad)
    BY <1>2, <2>1
  <2>3. n = 1 \/ leg[n - 1].upto > 0
    BY <2>2
  <2>4. n \in 1 .. Len(leg) /\ ~ leg[n].upto > 0
    OBVIOUS
  <2>5. n = 1 \/ leg[n - 1].upto \in Int
    BY <1>3, <2>2
  <2> QED BY <1>3, <2>3, <2>4, <2>5
<1>5. Total(leg) \in Nat \ {0} /\ Total(leg) = leg[Len(leg)].upto
  BY <1>2, <1>3, <1>4 DEF Total
<1>6. ASSUME NEW i \in 1 .. Len(leg)
      PROVE /\ Len(leg[i].steps) \in Nat \ {0}
            /\ leg[i].steps[1].in = from /\ leg[i].steps[Len(leg[i].steps)].out = to
            /\ \A j \in 1 .. Len(leg[i].steps) :
                 /\ leg[i].steps[j] \in Steps /\ j \in DOMAIN leg[i].steps
                 /\ j < Len(leg[i].steps) => leg[i].steps[j].out = leg[i].steps[j + 1].in
  <2> DEFINE s == leg[i].steps
  <2>1. s \in Seq(Steps) /\ s # <<>> /\ Head(s).in = from /\ Last(s).out = to
        /\ \A j \in 1 .. Len(s) - 1 : s[j].out = s[j + 1].in
    BY <1>3
  <2> HIDE DEF s
  <2>2. Len(s) \in Nat \ {0} /\ DOMAIN s = 1 .. Len(s) /\ \A j \in 1 .. Len(s) : s[j] \in Steps
    BY <2>1
  <2>3. Head(s) = s[1] /\ Last(s) = s[Len(s)]
    BY <2>1, <2>2 DEF Last
  <2>4. \A j \in 1 .. Len(s) : j < Len(s) => s[j].out = s[j + 1].in
    BY <2>1, <2>2
  <2>5. Len(s) \in Nat \ {0} /\ s[1].in = from /\ s[Len(s)].out = to
        /\ \A j \in 1 .. Len(s) : s[j] \in Steps /\ j \in DOMAIN s
             /\ (j < Len(s) => s[j].out = s[j + 1].in)
    BY <2>1, <2>2, <2>3, <2>4
  <2> QED BY <2>5 DEF s
<1> QED BY <1>2, <1>3, <1>4, <1>5, <1>6 DEF Walkable

-----------------------------------------------------------------------------

LEMMA AccountsDiffer ==
  /\ \A a \in Users \union {Vault} : a # Agg /\ a \in Accounts /\ a \notin Venues
  /\ \A v \in Venues : v # Agg /\ v # Vault /\ v \in Accounts
  /\ Agg \in Accounts /\ Vault \in Accounts /\ Agg # Vault /\ Vault \notin Users
  /\ \A a \in Accounts, t \in Tokens : <<a, t>> \in Holdings
BY SettlementAssumption DEF SettlementAssumption, Accounts, Holdings

LEMMA CallIs ==
  ASSUME NEW c \in Calls
  PROVE /\ c.kind \in {"swap", "restricted", "round_trip", "vault"}
        /\ c.user \in Users /\ c.in \in Tokens /\ c.out \in Tokens /\ c.there \in Legs
        /\ c.kind \in TwoLegs => c.back \in Legs
        /\ c.min \in Int
BY SettlementAssumption DEF SettlementAssumption, Calls, TwoLegs

\* The leg being executed leads from one of the call's tokens to the other.
LEMMA LegNow ==
  ASSUME CallInv, call # NoCall
  PROVE /\ Walkable(Leg, LegIn, LegOut)
        /\ LegIn \in Tokens /\ LegOut \in Tokens /\ LegIn # LegOut
        /\ side = "there" => LegIn = call.in /\ LegOut = call.out /\ Leg = call.there
        /\ side = "back" => LegIn = call.out /\ LegOut = call.in /\ Leg = call.back
<1>1. WellFormed /\ Placed
  BY DEF CallInv
<1>2. call \in Calls
  BY <1>1 DEF WellFormed
<1>3. CASE side = "there"
  BY <1>1, <1>2, <1>3, CallIs, LegIs DEF WellFormed, Leg, LegIn, LegOut
<1>4. CASE side = "back"
  BY <1>1, <1>2, <1>4, CallIs, LegIs DEF WellFormed, Placed, Leg, LegIn, LegOut
<1> QED BY <1>1, <1>3, <1>4 DEF Placed

\* An entry point that pulls the input from the payer begins a balanced call.
LEMMA BeginKeeps ==
  ASSUME CallInv, NEW c \in Calls, NEW pulled \in HoldingTable, Begin(c, pulled),
         allowance' \in Allowances,
         c.in # c.out, ValidLeg(c.there, c.in, c.out),
         c.kind \in TwoLegs => ValidLeg(c.back, c.out, c.in),
         c.kind = "restricted" => OnlyRegistered(c.there),
         \A a \in Accounts, u \in Tokens :
           pulled[<<a, u>>] =
             bal[<<a, u>>]
             + (IF a = Agg /\ u = c.in THEN Total(c.there) ELSE 0)
             - (IF a = (IF c.kind = "vault" THEN Vault ELSE c.user) /\ u = c.in
                  THEN Total(c.there) ELSE 0)
  PROVE CallInv'
<1>1. /\ call' = c /\ before' = [bal |-> bal, allowance |-> allowance] /\ bal' = pulled /\ registered' = registered
      /\ side' = "there" /\ total' = Total(c.there) /\ given' = 0 /\ route' = 0 /\ hop' = 0
      /\ amount' = 0 /\ made' = 0
  BY DEF Begin, config
<1>2. Walkable(c.there, c.in, c.out)
  BY CallIs, LegIs
<1>3. Types'
  BY <1>1, <1>2 DEF Types, CallInv, Walkable
<1>4. WellFormed'
  BY <1>1 DEF WellFormed, OnlyRegistered
<1>5. Placed'
  BY <1>1, <1>2 DEF Placed, Leg, Walkable
<1>6. Shared'
  BY <1>1 DEF Shared
<1>7. Balanced'
  <2>1. c.user \in Users /\ c.in \in Tokens
    BY CallIs
  <2>2. \A h \in Holdings : bal[h] \in Int
    BY DEF CallInv, Types, HoldingTable
  <2>3. \A t \in Tokens : Held(t)' = IF t = c.in THEN Total(c.there) ELSE 0
    BY <1>1, <1>2 DEF Held, LegIn, LegOut, Walkable
  <2>4. Payer' = IF c.kind = "vault" THEN Vault ELSE c.user
    BY <1>1 DEF Payer
  <2>5. Total(c.there) \in Int
    BY <1>2 DEF Walkable
  <2> DEFINE payer == IF c.kind = "vault" THEN Vault ELSE c.user
  <2>6. payer \in Users \union {Vault}
    BY <2>1
  <2>7. \A a \in Accounts, u \in Tokens :
          pulled[<<a, u>>] = bal[<<a, u>>]
                             + (IF a = Agg /\ u = c.in THEN Total(c.there) ELSE 0)
                             - (IF a = payer /\ u = c.in THEN Total(c.there) ELSE 0)
    OBVIOUS
  <2>8. Payer' = payer
    BY <2>4
  <2> HIDE DEF payer
  <2>9. ASSUME NEW t \in Tokens
        PROVE pulled[<<Agg, t>>] = bal[<<Agg, t>>] + (IF t = c.in THEN Total(c.there) ELSE 0)
    BY <2>2, <2>5, <2>6, <2>7, AccountsDiffer
  <2>10. ASSUME NEW a \in Users \union {Vault}, NEW t \in Tokens
         PROVE pulled[<<a, t>>] =
                 bal[<<a, t>>] - (IF a = payer /\ t = c.in THEN Total(c.there) ELSE 0)
    BY <2>2, <2>5, <2>7, AccountsDiffer
  <2>11. ASSUME NEW v \in Venues, NEW t \in Tokens
         PROVE pulled[<<v, t>>] = bal[<<v, t>>]
    BY <2>2, <2>5, <2>6, <2>7, AccountsDiffer
  <2> QED BY <1>1, <2>3, <2>8, <2>9, <2>10, <2>11 DEF Balanced
<1> QED BY <1>3, <1>4, <1>5, <1>6, <1>7 DEF CallInv

LEMMA StartRouteKeeps ==
  ASSUME CallInv, StartRoute
  PROVE CallInv'
<1>1. /\ call # NoCall /\ hop = 0 /\ route < Len(Leg)
      /\ route' = route + 1 /\ hop' = 1 /\ amount' > 0 /\ given' = given + amount'
      /\ amount' = IF side = "there" THEN Amount(Leg, route + 1) ELSE Scaled(route + 1)
      /\ UNCHANGED <<bal, allowance, call, before, side, total, made, registered>>
  BY DEF StartRoute, config
<1>2. Types /\ WellFormed /\ Placed /\ Shared /\ Balanced
  BY <1>1 DEF CallInv
<1>3. /\ Walkable(Leg, LegIn, LegOut)
      /\ LegIn \in Tokens /\ LegOut \in Tokens /\ LegIn # LegOut
      /\ side = "there" => LegIn = call.in /\ LegOut = call.out /\ Leg = call.there
      /\ side = "back" => LegIn = call.out /\ LegOut = call.in /\ Leg = call.back
  BY <1>1, LegNow
<1>4. /\ Leg' = Leg /\ LegIn' = LegIn /\ LegOut' = LegOut /\ Payer' = Payer
  BY <1>1 DEF Leg, LegIn, LegOut, Payer
<1>5. route \in Nat /\ route + 1 \in 1 .. Len(Leg) /\ Len(Leg) \in Nat
  BY <1>1, <1>2, <1>3 DEF Placed, Walkable
<1>6. Placed'
  BY <1>1, <1>2, <1>3, <1>4, <1>5 DEF Placed, Walkable
<1>7. WellFormed'
  BY <1>1, <1>2 DEF WellFormed, OnlyRegistered
<1>8. amount' \in Int /\ Shared'
  <2>1. CASE side = "there"
    <3>1. amount' \in Int
      BY <1>1, <1>3, <1>5, <2>1 DEF Walkable
    <3>2. given = IF route = 0 THEN 0 ELSE call.there[route].upto
      BY <1>2, <2>1 DEF Shared
    <3>3. call.there[route + 1].upto =
            amount' + (IF route + 1 = 1 THEN 0 ELSE call.there[(route + 1) - 1].upto)
      BY <1>1, <1>3, <1>5, <2>1 DEF Walkable
    <3>4. (route + 1) - 1 = route /\ (route + 1 = 1 <=> route = 0)
      BY <1>5
    <3>5. given' = call.there[route + 1].upto
      BY <1>1, <1>2, <3>1, <3>2, <3>3, <3>4 DEF Types
    <3> QED BY <1>1, <1>2, <1>5, <2>1, <3>1, <3>5 DEF Shared
  <2>2. CASE side = "back"
    <3> DEFINE n == Len(call.back)
               w == Total(call.back)
               a == Amount(call.back, route + 1)
    <3>1. n = Len(Leg) /\ w \in Nat \ {0} /\ a \in Nat \ {0} /\ n \in Nat
      BY <1>3, <1>5, <2>2 DEF Walkable
    <3>2. total \in Int /\ given \in Int
      BY <1>2 DEF Types
    <3>3. CASE route + 1 = n
      <4>1. amount' = total - given
        BY <1>1, <2>2, <3>3 DEF Scaled
      <4> QED BY <1>1, <2>2, <3>2, <3>3, <4>1 DEF Shared
    <3>4. CASE route + 1 # n
      <4>1. amount' = (a * total) \div w
        BY <1>1, <2>2, <3>4 DEF Scaled
      <4>2. Weight \in Int /\ call.back[route + 1].upto \in Int
            /\ call.back[route + 1].upto = a + Weight
        <5>1. call.back[route + 1].upto \in Nat
              /\ call.back[route + 1].upto =
                   a + (IF route + 1 = 1 THEN 0 ELSE call.back[(route + 1) - 1].upto)
          BY <1>3, <1>5, <2>2 DEF Walkable
        <5>2. (route + 1) - 1 = route /\ (route + 1 = 1 <=> route = 0)
          BY <1>5
        <5>3. route = 0 \/ call.back[route].upto \in Nat
          BY <1>3, <1>5, <2>2 DEF Walkable
        <5> QED BY <5>1, <5>2, <5>3, <3>1 DEF Weight
      <4>3. given * w <= Weight * total /\ Weight * total <= (given + route) * w
        BY <1>2, <1>5, <2>2, <3>1, <1>1 DEF Shared
      <4>4. amount' \in Int /\ amount' * w <= a * total /\ a * total < (amount' + 1) * w
        <5> HIDE DEF a, w
        <5>1. a * total \in Int
          BY <3>1, <3>2
        <5>2. ASSUME NEW p \in Int, NEW q \in Nat \ {0}
              PROVE p \div q \in Int /\ (p \div q) * q <= p /\ p < ((p \div q) + 1) * q
          OBVIOUS
        <5> QED BY <3>1, <4>1, <5>1, <5>2
      <4>5. Weight' = a + Weight
        BY <1>1, <1>5, <4>2 DEF Weight
      <4>6. given' * w <= Weight' * total /\ Weight' * total <= (given' + route') * w
        <5>1. ASSUME NEW g \in Int, NEW x \in Int, NEW W \in Int, NEW T \in Int, NEW r \in Int,
                     NEW b \in Int, NEW z \in Int,
                     g * z <= W * T, W * T <= (g + r) * z, x * z <= b * T, b * T < (x + 1) * z
              PROVE (g + x) * z <= (b + W) * T
                    /\ (b + W) * T <= ((g + x) + (r + 1)) * z
          <6>1. (g + x) * z = g * z + x * z /\ (b + W) * T = b * T + W * T
                /\ ((g + x) + (r + 1)) * z = (g + r) * z + (x + 1) * z
            BY <5>1
          <6> QED BY <5>1, <6>1
        <5>2. given \in Int /\ amount' \in Int /\ Weight \in Int /\ total \in Int
              /\ route \in Int /\ a \in Int /\ w \in Int
          BY <1>5, <3>1, <3>2, <4>2, <4>4
        <5>3. given' = given + amount' /\ route' = route + 1
          BY <1>1
        <5> HIDE DEF a, w
        <5>4. (given + amount') * w <= (a + Weight) * total
              /\ (a + Weight) * total <= ((given + amount') + (route + 1)) * w
          BY <4>3, <4>4, <5>1, <5>2
        <5> QED BY <4>5, <5>3, <5>4
      <4> QED BY <1>1, <1>5, <2>2, <3>1, <3>4, <4>4, <4>6 DEF Shared
    <3> QED BY <3>3, <3>4
  <2> QED BY <1>2, <2>1, <2>2 DEF Placed
<1>9. Types'
  BY <1>1, <1>2, <1>8 DEF Types
<1>10. Balanced'
  <2>1. Leg[route + 1].steps[1].in = LegIn
    BY <1>3, <1>5 DEF Walkable
  <2>2. Leg'[route'].steps[hop'].in = LegIn /\ hop' > 0
    BY <1>1, <1>4, <2>1
  <2>3. ASSUME NEW t \in Tokens
        PROVE Held(t)' = Held(t)
    <3>1. Held(t) = (IF t = LegIn THEN total - given ELSE 0)
                    + (IF t = LegOut THEN made ELSE 0)
      BY <1>1, <1>2 DEF Held, Types
    <3>2. Held(t)' = (IF t = LegIn THEN total' - given' ELSE 0)
                     + (IF t = LegIn THEN amount' ELSE 0)
                     + (IF t = LegOut THEN made' ELSE 0)
      BY <1>4, <2>2 DEF Held
    <3>3. total \in Int /\ given \in Int /\ made \in Int
      BY <1>2 DEF Types
    <3>4. given' = given + amount' /\ total' = total /\ made' = made /\ amount' \in Int
      BY <1>1, <1>8
    <3>5. total - given = (total' - given') + amount' /\ total - given \in Int
          /\ total' - given' \in Int
      <4>1. total' - given' = total - (given + amount')
        BY <3>4
      <4> DEFINE T == total
                 g == given
                 x == amount'
      <4>2. T \in Int /\ g \in Int /\ x \in Int
        BY <3>3, <3>4
      <4> HIDE DEF T, g, x
      <4>3. T - g = (T - (g + x)) + x /\ T - g \in Int /\ T - (g + x) \in Int
        BY <4>2
      <4> QED BY <4>1, <4>3 DEF T, g, x
    <3> DEFINE kept == IF t = LegOut THEN made ELSE 0
    <3>6. kept \in Int
      BY <3>3
    <3>7. /\ Held(t) = (IF t = LegIn THEN total - given ELSE 0) + kept
          /\ Held(t)' = (IF t = LegIn THEN total' - given' ELSE 0)
                        + (IF t = LegIn THEN amount' ELSE 0) + kept
      BY <3>1, <3>2, <3>4
    <3> HIDE DEF kept
    <3> QED BY <3>4, <3>5, <3>6, <3>7
  <2> QED BY <1>1, <1>2, <1>4, <2>3 DEF Balanced
<1> QED BY <1>6, <1>7, <1>8, <1>9, <1>10 DEF CallInv

\* The step that is due takes the whole amount to its pool, and what the pool
\* pays is the next amount.
LEMMA HopIs ==
  ASSUME CallInv, Hop
  PROVE LET s == Leg[route].steps[hop]
        IN /\ route \in 1 .. Len(Leg) /\ hop \in 1 .. Len(Leg[route].steps)
           /\ s.venue \in Venues /\ s.in \in Tokens /\ s.out \in Tokens /\ s.in # s.out
           /\ bal' \in HoldingTable
           /\ amount' \in Int /\ amount' > 0
           /\ amount' \in Pays(s.venue, amount, s.in, s.out)
           /\ \A a \in Accounts, u \in Tokens :
                bal'[<<a, u>>] =
                  bal[<<a, u>>]
                  + (IF a = s.venue /\ u = s.in THEN amount ELSE 0)
                  - (IF a = Agg /\ u = s.in THEN amount ELSE 0)
                  + (IF a = Agg /\ u = s.out THEN amount' ELSE 0)
                  - (IF a = s.venue /\ u = s.out THEN amount' ELSE 0)
<1> DEFINE s == Leg[route].steps[hop]
           v == s.venue
<1>1. call # NoCall /\ hop > 0 /\ s.in # s.out /\ amount' > 0
  BY DEF Hop
<1>2. PICK paid \in Pays(v, amount, s.in, s.out) :
        /\ paid \in 0 .. bal[<<v, s.out>>]
        /\ bal' = Moved(Moved(bal, Agg, v, s.in, amount), v, Agg, s.out, paid)
        /\ amount' = Received(v, paid, bal[<<Agg, s.out>>], bal'[<<Agg, s.out>>])
  BY DEF Hop
<1>3. Types /\ Placed /\ Walkable(Leg, LegIn, LegOut)
  BY <1>1, LegNow DEF CallInv
<1>4. route \in 1 .. Len(Leg) /\ hop \in 1 .. Len(Leg[route].steps)
  BY <1>1, <1>3 DEF Placed, Walkable
<1>5. s \in Steps
  BY <1>3, <1>4 DEF Walkable
<1>6. v \in Venues /\ s.in \in Tokens /\ s.out \in Tokens
  BY <1>5 DEF Steps
<1> HIDE DEF s, v
<1>7. bal \in HoldingTable /\ amount \in Int /\ paid \in Int
  BY <1>2, <1>3 DEF Types
<1> DEFINE mid == Moved(bal, Agg, v, s.in, amount)
<1>8. /\ mid \in HoldingTable
      /\ \A a \in Accounts, u \in Tokens :
           mid[<<a, u>>] = bal[<<a, u>>] + (IF a = v /\ u = s.in THEN amount ELSE 0)
                                         - (IF a = Agg /\ u = s.in THEN amount ELSE 0)
  BY <1>7, MovedIs
<1>9. /\ bal' \in HoldingTable
      /\ \A a \in Accounts, u \in Tokens :
           bal'[<<a, u>>] = mid[<<a, u>>] + (IF a = Agg /\ u = s.out THEN paid ELSE 0)
                                          - (IF a = v /\ u = s.out THEN paid ELSE 0)
  <2>1. bal' = Moved(mid, v, Agg, s.out, paid)
    BY <1>2
  <2> HIDE DEF mid
  <2> QED BY <1>7, <1>8, <2>1, MovedIs
<1> HIDE DEF mid
<1>10. \A a \in Accounts, u \in Tokens : bal[<<a, u>>] \in Int
  BY <1>7, AccountsDiffer DEF HoldingTable
<1>11. amount' = paid
  <2>1. mid[<<Agg, s.out>>] = bal[<<Agg, s.out>>]
    BY <1>1, <1>6, <1>7, <1>8, <1>10, AccountsDiffer
  <2>2. bal'[<<Agg, s.out>>] = bal[<<Agg, s.out>>] + paid
    BY <1>6, <1>7, <1>9, <1>10, <2>1, AccountsDiffer
  <2>3. bal[<<Agg, s.out>>] \in Int
    BY <1>6, <1>10, AccountsDiffer
  <2> QED BY <1>2, <1>7, <2>2, <2>3 DEF Received
<1>12. ASSUME NEW a \in Accounts, NEW u \in Tokens
       PROVE bal'[<<a, u>>] =
                  bal[<<a, u>>]
                  + (IF a = v /\ u = s.in THEN amount ELSE 0)
                  - (IF a = Agg /\ u = s.in THEN amount ELSE 0)
                  + (IF a = Agg /\ u = s.out THEN amount' ELSE 0)
                  - (IF a = v /\ u = s.out THEN amount' ELSE 0)
  BY <1>7, <1>8, <1>9, <1>10, <1>11
<1> QED BY <1>1, <1>2, <1>4, <1>6, <1>7, <1>9, <1>11, <1>12 DEF s, v

LEMMA HopKeeps ==
  ASSUME CallInv, Hop
  PROVE CallInv'
<1> DEFINE s == Leg[route].steps[hop]
<1>1. /\ call # NoCall /\ hop > 0
      /\ UNCHANGED <<allowance, call, before, side, total, given, route, registered>>
      /\ IF hop = Len(Leg[route].steps) THEN hop' = 0 /\ made' = made + amount'
                                        ELSE hop' = hop + 1 /\ made' = made
  BY DEF Hop, config
<1>2. Types /\ WellFormed /\ Placed /\ Shared /\ Balanced
  BY <1>1 DEF CallInv
<1>3. /\ Walkable(Leg, LegIn, LegOut)
      /\ LegIn \in Tokens /\ LegOut \in Tokens /\ LegIn # LegOut
      /\ side = "there" => Leg = call.there
  BY <1>1, LegNow
<1>4. /\ Leg' = Leg /\ LegIn' = LegIn /\ LegOut' = LegOut /\ Payer' = Payer
  BY <1>1 DEF Leg, LegIn, LegOut, Payer
<1>5. /\ route \in 1 .. Len(Leg) /\ hop \in 1 .. Len(Leg[route].steps)
      /\ s.venue \in Venues /\ s.in \in Tokens /\ s.out \in Tokens /\ s.in # s.out
      /\ bal' \in HoldingTable /\ amount' \in Int
      /\ \A a \in Accounts, u \in Tokens :
           bal'[<<a, u>>] = bal[<<a, u>>]
                            + (IF a = s.venue /\ u = s.in THEN amount ELSE 0)
                            - (IF a = Agg /\ u = s.in THEN amount ELSE 0)
                            + (IF a = Agg /\ u = s.out THEN amount' ELSE 0)
                            - (IF a = s.venue /\ u = s.out THEN amount' ELSE 0)
  BY HopIs
<1>6. Len(Leg[route].steps) \in Nat
  BY <1>3, <1>5 DEF Walkable
<1>7. hop = Len(Leg[route].steps) => s.out = LegOut
  BY <1>3, <1>5 DEF Walkable
<1>8. hop # Len(Leg[route].steps) => Leg[route].steps[hop + 1].in = s.out
  BY <1>3, <1>5, <1>6 DEF Walkable
<1>9. Types'
  BY <1>1, <1>2, <1>5 DEF Types
<1>10. WellFormed'
  BY <1>1, <1>2 DEF WellFormed, OnlyRegistered
<1>11. Placed'
  BY <1>1, <1>2, <1>4, <1>5, <1>6 DEF Placed
<1>12. Shared'
  BY <1>1, <1>2 DEF Shared, Weight
<1>13. \A a \in Accounts, u \in Tokens : bal[<<a, u>>] \in Int /\ before.bal[<<a, u>>] \in Int
  BY <1>2, AccountsDiffer DEF Types, HoldingTable
<1>14. total \in Int /\ given \in Int /\ made \in Int /\ amount \in Int
  BY <1>2 DEF Types
<1>15. ASSUME NEW t \in Tokens
       PROVE Held(t)' = Held(t) - (IF t = s.in THEN amount ELSE 0)
                                + (IF t = s.out THEN amount' ELSE 0)
  <2> DEFINE rest == IF t = LegIn THEN total - given ELSE 0
             out(m) == IF t = LegOut THEN m ELSE 0
  <2>1. Held(t) = rest + (IF t = s.in THEN amount ELSE 0) + out(made)
    BY <1>1 DEF Held
  <2>2. rest \in Int
    BY <1>14
  <2>3. CASE hop = Len(Leg[route].steps)
    <3>1. Held(t)' = rest + out(made')
      BY <1>1, <1>4, <2>3, <1>14, <1>9 DEF Held, Types
    <3>2. s.out = LegOut /\ made' = made + amount'
      BY <1>1, <1>7, <2>3
    <3>3. out(made') = out(made) + (IF t = s.out THEN amount' ELSE 0) /\ out(made) \in Int
      BY <1>5, <1>14, <3>2
    <3> HIDE DEF s, rest, out
    <3> QED BY <1>5, <1>14, <2>1, <2>2, <3>1, <3>3
  <2>4. CASE hop # Len(Leg[route].steps)
    <3>1. Held(t)' = rest + (IF t = s.out THEN amount' ELSE 0) + out(made)
      BY <1>1, <1>4, <1>6, <1>5, <1>8, <2>4 DEF Held
    <3> HIDE DEF s, rest
    <3> QED BY <1>5, <1>14, <2>1, <2>2, <3>1
  <2> QED BY <2>3, <2>4
<1> HIDE DEF s
<1>16. ASSUME NEW t \in Tokens
       PROVE bal'[<<Agg, t>>] = before.bal[<<Agg, t>>] + Held(t)'
  <2>1. bal'[<<Agg, t>>] = bal[<<Agg, t>>] - (IF t = s.in THEN amount ELSE 0)
                                           + (IF t = s.out THEN amount' ELSE 0)
    BY <1>5, <1>13, <1>14, AccountsDiffer
  <2>2. bal[<<Agg, t>>] = before.bal[<<Agg, t>>] + Held(t)
    BY <1>2 DEF Balanced
  <2>3. Held(t) \in Int
    BY <1>2, <1>14, AccountsDiffer DEF Held
  <2>4. bal[<<Agg, t>>] \in Int /\ before.bal[<<Agg, t>>] \in Int
    BY <1>13, AccountsDiffer
  <2> DEFINE spent == IF t = s.in THEN amount ELSE 0
             got == IF t = s.out THEN amount' ELSE 0
  <2>5. spent \in Int /\ got \in Int
    BY <1>5, <1>14
  <2>6. Held(t)' = Held(t) - spent + got
    BY <1>15
  <2>7. bal'[<<Agg, t>>] = bal[<<Agg, t>>] - spent + got
    BY <2>1
  <2> HIDE DEF spent, got
  <2> QED BY <2>2, <2>3, <2>4, <2>5, <2>6, <2>7
<1>17. ASSUME NEW a \in Users \union {Vault}, NEW t \in Tokens
       PROVE bal'[<<a, t>>] = bal[<<a, t>>]
  BY <1>5, <1>13, <1>14, AccountsDiffer
<1>18. ASSUME call.kind = "restricted", NEW w \in Venues \ registered, NEW t \in Tokens
       PROVE bal'[<<w, t>>] = bal[<<w, t>>]
  <2>1. side = "there"
    BY <1>2, <1>18 DEF Placed, TwoLegs
  <2>2. s.venue \in registered
    <3>1. route \in DOMAIN call.there /\ hop \in DOMAIN call.there[route].steps
      BY <1>3, <1>5, <2>1 DEF Walkable
    <3> QED BY <1>2, <1>3, <1>18, <2>1, <3>1 DEF WellFormed, OnlyRegistered, s
  <2>3. w # s.venue
    BY <1>18, <2>2
  <2> QED BY <1>5, <1>13, <1>14, <2>3, AccountsDiffer
<1>19. Balanced'
  BY <1>1, <1>2, <1>4, <1>16, <1>17, <1>18 DEF Balanced
<1> QED BY <1>9, <1>10, <1>11, <1>12, <1>19 DEF CallInv

LEMMA TurnBackKeeps ==
  ASSUME CallInv, TurnBack
  PROVE CallInv'
<1>1. /\ call # NoCall /\ hop = 0 /\ route = Len(Leg) /\ side = "there"
      /\ call.kind \in TwoLegs /\ made > 0
      /\ side' = "back" /\ total' = made /\ given' = 0 /\ route' = 0 /\ made' = 0
      /\ UNCHANGED <<bal, allowance, call, before, hop, amount, registered>>
  BY DEF TurnBack, LegDone, config, TwoLegs
<1>2. Types /\ WellFormed /\ Placed /\ Shared /\ Balanced
  BY <1>1 DEF CallInv
<1>3. call \in Calls
  BY <1>2 DEF WellFormed
<1>4. Walkable(call.there, call.in, call.out) /\ Walkable(call.back, call.out, call.in)
      /\ call.in # call.out
  BY <1>1, <1>2, <1>3, CallIs, LegIs DEF WellFormed
<1>5. Types'
  BY <1>1, <1>2 DEF Types
<1>6. WellFormed'
  BY <1>1, <1>2 DEF WellFormed, OnlyRegistered
<1>7. Placed'
  BY <1>1, <1>2, <1>4 DEF Placed, Walkable, Leg
<1>8. Shared'
  <2>1. made \in Int /\ Len(call.back) \in Nat \ {0} /\ Total(call.back) \in Int
    BY <1>2, <1>4 DEF Types, Walkable
  <2> QED BY <1>1, <2>1 DEF Shared, Weight
<1>9. Balanced'
  <2>1. Leg = call.there /\ given = total
    BY <1>1, <1>2, <1>4 DEF Leg, Shared, Walkable
  <2>2. \A t \in Tokens : Held(t)' = Held(t)
    BY <1>1, <1>2, <1>4, <2>1 DEF Held, LegIn, LegOut, Types
  <2> QED BY <1>1, <1>2, <2>2 DEF Balanced, Payer
<1> QED BY <1>5, <1>6, <1>7, <1>8, <1>9 DEF CallInv

\* A call that ends leaves nothing to account for.
LEMMA EndKeeps ==
  ASSUME CallInv, Idle, bal' \in HoldingTable, allowance' \in Allowances
  PROVE CallInv'
BY DEF CallInv, Types, Idle

-----------------------------------------------------------------------------
(***************************************************************************)
(* The theorems                                                            *)
(***************************************************************************)

LEMMA CallInvStep ==
  ASSUME CallInv, [Next]_vars
  PROVE CallInv'
<1>0. Types
  BY DEF CallInv
<1>1. ASSUME NEW c \in Calls, Swap(c) \/ RoundTrip(c)
      PROVE CallInv'
  <2> DEFINE pulled == Moved(bal, c.user, Agg, c.in, Total(c.there))
  <2>1. /\ Begin(c, pulled) /\ c.kind # "vault"
        /\ c.in # c.out /\ ValidLeg(c.there, c.in, c.out)
        /\ c.kind \in TwoLegs => ValidLeg(c.back, c.out, c.in)
        /\ c.kind = "restricted" => OnlyRegistered(c.there)
    BY <1>1 DEF Swap, RoundTrip, ValidRoundTrip, TwoLegs
  <2>2. Total(c.there) \in Int
    BY <2>1, CallIs, LegIs DEF Walkable
  <2>3. /\ pulled \in HoldingTable
        /\ \A a \in Accounts, u \in Tokens :
             pulled[<<a, u>>] =
               bal[<<a, u>>]
               + (IF a = Agg /\ u = c.in THEN Total(c.there) ELSE 0)
               - (IF a = c.user /\ u = c.in THEN Total(c.there) ELSE 0)
    BY <1>0, <2>2, MovedIs DEF Types
  <2>4. allowance' \in Allowances
    BY <1>0, <1>1 DEF Swap, RoundTrip, Types
  <2> HIDE DEF pulled
  <2> QED BY <2>1, <2>3, <2>4, BeginKeeps
<1>2. ASSUME NEW c \in Calls, ExecuteRoundTrip(c)
      PROVE CallInv'
  <2> DEFINE lent == Moved(bal, Vault, c.user, c.in, Total(c.there))
             pulled == Moved(lent, c.user, Agg, c.in, Total(c.there))
  <2>1. /\ Begin(c, pulled) /\ c.kind = "vault"
        /\ c.in # c.out /\ ValidLeg(c.there, c.in, c.out) /\ ValidLeg(c.back, c.out, c.in)
    BY <1>2 DEF ExecuteRoundTrip, ValidRoundTrip
  <2>2. Total(c.there) \in Int
    BY <2>1, CallIs, LegIs DEF Walkable
  <2>3. /\ lent \in HoldingTable
        /\ \A a \in Accounts, u \in Tokens :
             lent[<<a, u>>] =
               bal[<<a, u>>]
               + (IF a = c.user /\ u = c.in THEN Total(c.there) ELSE 0)
               - (IF a = Vault /\ u = c.in THEN Total(c.there) ELSE 0)
    BY <1>0, <2>2, MovedIs DEF Types
  <2>4. /\ pulled \in HoldingTable
        /\ \A a \in Accounts, u \in Tokens :
             pulled[<<a, u>>] =
               lent[<<a, u>>]
               + (IF a = Agg /\ u = c.in THEN Total(c.there) ELSE 0)
               - (IF a = c.user /\ u = c.in THEN Total(c.there) ELSE 0)
    <3> HIDE DEF lent
    <3> QED BY <2>2, <2>3, MovedIs
  <2> HIDE DEF pulled, lent
  <2>5. \A a \in Accounts, u \in Tokens : bal[<<a, u>>] \in Int
    BY <1>0, AccountsDiffer DEF Types, HoldingTable
  <2>6. ASSUME NEW a \in Accounts, NEW u \in Tokens
        PROVE pulled[<<a, u>>] =
               bal[<<a, u>>]
               + (IF a = Agg /\ u = c.in THEN Total(c.there) ELSE 0)
               - (IF a = Vault /\ u = c.in THEN Total(c.there) ELSE 0)
    BY <2>2, <2>3, <2>4, <2>5
  <2>7. allowance' \in Allowances
    <3>1. PICK until \in ledger .. MaxLedger :
            allowance' = [allowance EXCEPT ![<<c.user, c.in>>] =
                            [left |-> I128Max, until |-> until]]
      BY <1>2 DEF ExecuteRoundTrip
    <3>2. until \in Int /\ I128Max \in Int
      BY SettlementAssumption DEF SettlementAssumption
    <3> QED BY <1>0, <3>1, <3>2 DEF Types, Allowances
  <2> QED BY <2>1, <2>4, <2>6, <2>7, BeginKeeps
<1>3. CASE StartRoute
  BY <1>3, StartRouteKeeps
<1>4. CASE Hop
  BY <1>4, HopKeeps
<1>5. CASE TurnBack
  BY <1>5, TurnBackKeeps
<1>6. CASE PayOut \/ PayBack
  <2>1. made \in Int /\ bal \in HoldingTable
    BY <1>0 DEF Types
  <2>2. bal' \in HoldingTable /\ Idle /\ allowance' \in Allowances
    BY <1>0, <1>6, <2>1, MovedIs DEF PayOut, PayBack, Types
  <2> QED BY <2>2, EndKeeps
<1>7. CASE PayVault
  <2>1. made \in Int /\ bal \in HoldingTable
    BY <1>0 DEF Types
  <2> DEFINE paid == Moved(bal, Agg, call.user, call.in, made)
  <2>2. paid \in HoldingTable
    BY <2>1, MovedIs
  <2>3. bal' = Moved(paid, call.user, Vault, call.in, made) /\ Idle
    BY <1>7 DEF PayVault, Reclaimed
  <2> HIDE DEF paid
  <2>4. bal' \in HoldingTable
    BY <2>1, <2>2, <2>3, MovedIs
  <2>5. allowance' \in Allowances
    <3> DEFINE a == allowance[<<call.user, call.in>>]
    <3>1. <<call.user, call.in>> \in Users \X Tokens
      BY <1>7, CallIs DEF CallInv, WellFormed, PayVault, LegDone
    <3>2. a.left - made \in Int /\ a.until \in Int /\ a \in [left : Int, until : Int]
      BY <1>0, <2>1, <3>1 DEF Types, Allowances
    <3>3. allowance' = [allowance EXCEPT ![<<call.user, call.in>>] =
                          [a EXCEPT !.left = @ - made]]
      BY <1>7 DEF PayVault, Reclaimed
    <3>4. [a EXCEPT !.left = @ - made] \in [left : Int, until : Int]
      BY <3>2
    <3> QED BY <1>0, <3>3, <3>4 DEF Types, Allowances
  <2> QED BY <2>3, <2>4, <2>5, EndKeeps
<1>8. CASE Revert
  BY <1>0, <1>8, EndKeeps DEF Revert, Types
<1>9. ASSUME NEW from, NEW to, NEW t, NEW x \in 1 .. MaxFund, Fund(from, to, t, x)
      PROVE CallInv'
  <2>1. /\ bal' \in HoldingTable /\ before' = [before EXCEPT !.bal = bal'] /\ call = NoCall
        /\ UNCHANGED <<allowance, call, progress>>
    <3>1. bal \in HoldingTable /\ x \in Int
      BY <1>0, SettlementAssumption DEF Types
    <3>2. bal' = Moved(bal, from, to, t, x) /\ before' = [before EXCEPT !.bal = bal']
          /\ call = NoCall /\ UNCHANGED <<allowance, call, progress>>
      BY <1>9 DEF Fund, Administer
    <3> QED BY <3>1, <3>2, MovedIs
  <2> QED BY <1>0, <2>1 DEF CallInv, Types, progress
<1>10. CASE \E v \in Venues : SetVenue(v)
  BY <1>0, <1>10 DEF SetVenue, Administer, CallInv, Types, progress
<1>11. CASE (\E u \in Users : SetCaller(u)) \/ Tick
  BY <1>0, <1>11 DEF SetCaller, Tick, Administer, CallInv, Types, progress
<1>12. CASE UNCHANGED vars
  BY <1>12 DEF vars, progress, config, CallInv, Types, WellFormed, Placed, Shared, Balanced,
               OnlyRegistered, Leg, LegIn, LegOut, Payer, Weight, Held
<1> QED
  BY <1>1, <1>2, <1>3, <1>4, <1>5, <1>6, <1>7, <1>8, <1>9, <1>10, <1>11, <1>12 DEF Next

LEMMA CallInvInit ==
  ASSUME Init
  PROVE CallInv
<1>1. bal \in HoldingTable
  BY SettlementAssumption DEF Init, SettlementAssumption, HoldingTable
<1>2. allowance \in Allowances
  BY DEF Init, Allowances
<1>3. before = [bal |-> bal, allowance |-> allowance] /\ call = NoCall
      /\ total = 0 /\ given = 0 /\ amount = 0 /\ made = 0
  BY DEF Init
<1> QED BY <1>1, <1>2, <1>3 DEF CallInv, Types

(***************************************************************************)
(* Every route of a second leg gets its share by weight, and none whose    *)
(* share is a unit or more is refused as empty (scale_sub_routes_to_total),*)
(* for routes of any number and weight.                                    *)
(***************************************************************************)
THEOREM SharesByWeight == Spec => []SharesFollowWeights
<1>1. ASSUME CallInv PROVE SharesFollowWeights
  <2> SUFFICES ASSUME call # NoCall, side = "back", hop = 0, route < Len(call.back)
               PROVE LET i == route + 1
                         n == Len(call.back)
                         w == Total(call.back)
                         share == Amount(call.back, i) * total
                     IN /\ IF i < n THEN Scaled(i) * w <= share /\ share < (Scaled(i) + 1) * w
                             ELSE share <= Scaled(i) * w /\ Scaled(i) * w <= share + (n - 1) * w
                        /\ share >= w => Scaled(i) > 0
    BY DEF SharesFollowWeights
  <2> DEFINE i == route + 1
             n == Len(call.back)
             w == Total(call.back)
             a == Amount(call.back, i)
             share == a * total
  <2>1. Types /\ Placed /\ Shared
    BY <1>1 DEF CallInv
  <2>2. Walkable(call.back, LegIn, LegOut) /\ Leg = call.back
    BY <1>1, LegNow
  <2>3. route \in Nat /\ n \in Nat /\ i \in 1 .. n /\ w \in Nat \ {0} /\ a \in Nat \ {0}
        /\ total \in Int /\ given \in Int
    BY <2>1, <2>2 DEF Walkable, Placed, Types
  <2>4. share \in Int
    BY <2>3
  <2>5. CASE i < n
    <3>1. Scaled(i) = share \div w
      BY <2>5 DEF Scaled
    <3>2. ASSUME NEW p \in Int, NEW q \in Nat \ {0}
          PROVE p \div q \in Int /\ (p \div q) * q <= p /\ p < ((p \div q) + 1) * q
      OBVIOUS
    <3>3. Scaled(i) \in Int /\ Scaled(i) * w <= share /\ share < (Scaled(i) + 1) * w
      <4> HIDE DEF share, w
      <4> QED BY <2>3, <2>4, <3>1, <3>2
    <3>4. share >= w => Scaled(i) > 0
      <4>1. ASSUME NEW p \in Int, NEW q \in Nat \ {0}, NEW k \in Int, p >= q, p < (k + 1) * q
            PROVE k > 0
        <5>1. CASE k + 1 <= 1
          <6>1. (k + 1) * q <= 1 * q
            BY <4>1, <5>1
          <6> QED BY <4>1, <6>1
        <5> QED BY <4>1, <5>1
      <4> HIDE DEF share, w
      <4> QED BY <2>3, <2>4, <3>3, <4>1
    <3> QED BY <2>5, <3>3, <3>4
  <2>6. CASE ~ i < n
    <3>1. i = n /\ Scaled(i) = total - given
      BY <2>3, <2>6 DEF Scaled
    <3>2. w = a + Weight /\ Weight \in Int
      <4>1. w = call.back[i].upto
        BY <2>2, <3>1 DEF Walkable
      <4>2. /\ call.back[i].upto \in Nat
            /\ call.back[i].upto = a + (IF i = 1 THEN 0 ELSE call.back[i - 1].upto)
        BY <2>2, <2>3 DEF Walkable
      <4>3. i - 1 = route /\ (i = 1 <=> route = 0)
        BY <2>3
      <4>4. i = 1 \/ call.back[i - 1].upto \in Nat
        BY <2>2, <2>3, <4>3 DEF Walkable
      <4> QED BY <2>3, <4>1, <4>2, <4>3, <4>4 DEF Weight
    <3>3. given * w <= Weight * total /\ Weight * total <= (given + route) * w
      BY <2>1 DEF Shared
    <3>4. ASSUME NEW W \in Int, NEW A \in Int, NEW q \in Int, NEW T \in Int, NEW g \in Int,
                 NEW r \in Int, q = A + W, g * q <= W * T, W * T <= (g + r) * q
          PROVE A * T <= (T - g) * q /\ (T - g) * q <= A * T + r * q
      <4>1. A * T = q * T - W * T /\ (T - g) * q = q * T - g * q /\ (g + r) * q = g * q + r * q
        BY <3>4
      <4> QED BY <3>4, <4>1
    <3>5. share <= Scaled(i) * w /\ Scaled(i) * w <= share + (n - 1) * w /\ Scaled(i) \in Int
      <4>1. n - 1 = route
        BY <2>3, <3>1
      <4> HIDE DEF a, w, n, i
      <4> QED BY <2>3, <3>1, <3>2, <3>3, <3>4, <4>1
    <3>6. share >= w => Scaled(i) > 0
      <4>1. ASSUME NEW p \in Int, NEW q \in Nat \ {0}, NEW k \in Int, p >= q, p <= k * q
            PROVE k > 0
        <5>1. CASE k <= 0
          <6>1. k * q <= 0
            BY <4>1, <5>1
          <6> QED BY <4>1, <6>1
        <5> QED BY <4>1, <5>1
      <4> HIDE DEF share, w
      <4> QED BY <2>3, <2>4, <3>5, <4>1
    <3> QED BY <2>6, <3>5, <3>6
  <2> QED BY <2>5, <2>6
<1> QED BY <1>1, CallInvInit, CallInvStep, PTL DEF Spec

\* What the aggregator computes outside a pair is what the pair accepts, as
\* long as neither the fee nor the new reserve leaves the range of an i128.
LEMMA QuoteIsAccepted ==
  ASSUME NEW x \in Int, NEW in \in Int, NEW out \in Int, NEW paid \in Int, paid > 0,
         paid = SoroswapOut(x, in, out), 3 * (in + x) + 999 <= I128Max
  PROVE Accepts(in, out, x, paid)
<1> DEFINE less == x - SoroswapFee(x)
           product == IF less * out > I128Max THEN I128Max ELSE less * out
           sum == IF in + less > I128Max THEN I128Max ELSE in + less
<1>1. x > 0 /\ in > 0 /\ out > 0 /\ less > 0 /\ paid = product \div sum
  <2>1. IF x <= 0 \/ in <= 0 \/ out <= 0 \/ less <= 0 THEN paid = 0
                                                      ELSE paid = product \div sum
    BY DEF SoroswapOut
  <2>2. less \in Int
    BY SettlementAssumption DEF SettlementAssumption, SoroswapFee
  <2> HIDE DEF less, product, sum
  <2> QED BY <2>1, <2>2
<1>2. /\ less \in Int /\ less = x - PairFee(x) /\ PairFee(x) \in Int /\ PairFee(x) >= 0
  <2>1. I128Max \in Int
    BY SettlementAssumption DEF SettlementAssumption
  <2>2. SoroswapFee(x) = PairFee(x)
    BY <1>1, <2>1 DEF SoroswapFee, PairFee
  <2>3. PairFee(x) \in Int /\ PairFee(x) >= 0
    BY <1>1 DEF PairFee
  <2> QED BY <2>2, <2>3
<1> HIDE DEF less
<1>3. sum = in + less /\ sum \in Nat \ {0}
  <2>1. I128Max \in Int
    BY SettlementAssumption DEF SettlementAssumption
  <2> QED BY <1>1, <1>2, <2>1
<1>4. product <= less * out /\ product \in Int /\ less * out \in Int
  <2>1. I128Max \in Int /\ less * out \in Int
    BY <1>2, SettlementAssumption DEF SettlementAssumption
  <2> QED BY <2>1
<1> HIDE DEF product, sum
<1>5. paid * sum <= less * out
  <2>1. ASSUME NEW p \in Int, NEW q \in Nat \ {0}
        PROVE (p \div q) * q <= p /\ p \div q \in Int
    OBVIOUS
  <2>2. paid * sum <= product
    BY <1>1, <1>3, <1>4, <2>1
  <2>3. paid * sum \in Int
    BY <1>3
  <2> QED BY <1>4, <2>2, <2>3
<1>6. (in + less) * (out - paid) >= in * out
  <2>1. ASSUME NEW i \in Int, NEW l \in Int, NEW o \in Int, NEW p \in Int, p * (i + l) <= l * o
        PROVE (i + l) * (o - p) >= i * o
    <3>1. (i + l) * (o - p) = i * o + l * o - p * (i + l)
      BY <2>1
    <3> QED BY <2>1, <3>1
  <2> QED BY <1>2, <1>3, <1>5, <2>1
<1>7. in + x - PairFee(x) = in + less
  BY <1>2
<1> QED BY <1>6, <1>7 DEF Accepts

\* No Soroswap pair holds so much that the fee of a swap, or what it holds
\* after one, leaves the range of an i128.
Modest ==
  \A v \in Venues, t \in Tokens : Kind[v] = "soroswap" => 3 * bal[<<v, t>>] + 999 <= I128Max

LEMMA PairsAcceptHop ==
  ASSUME CallInv, Hop, Modest'
  PROVE PairsAccept
<1> DEFINE s == Leg[route].steps[hop]
<1>1. /\ s.venue \in Venues /\ s.in \in Tokens /\ s.out \in Tokens /\ s.in # s.out
      /\ amount' \in Int /\ amount' > 0
      /\ amount' \in Pays(s.venue, amount, s.in, s.out)
      /\ \A a \in Accounts, u \in Tokens :
                bal'[<<a, u>>] =
                  bal[<<a, u>>]
                  + (IF a = s.venue /\ u = s.in THEN amount ELSE 0)
                  - (IF a = Agg /\ u = s.in THEN amount ELSE 0)
                  + (IF a = Agg /\ u = s.out THEN amount' ELSE 0)
                  - (IF a = s.venue /\ u = s.out THEN amount' ELSE 0)
  BY HopIs
<1> HIDE DEF s
<1>2. /\ \A a \in Accounts, u \in Tokens : bal[<<a, u>>] \in Int
      /\ amount \in Int
  BY AccountsDiffer DEF CallInv, Types, HoldingTable
<1> SUFFICES ASSUME NEW v \in Venues, NEW t \in Tokens, NEW u \in Tokens, Kind[v] = "soroswap",
                    bal'[<<v, t>>] - bal[<<v, t>>] > 0, bal[<<v, u>>] - bal'[<<v, u>>] > 0
             PROVE Accepts(bal[<<v, t>>], bal[<<v, u>>],
                           bal'[<<v, t>>] - bal[<<v, t>>], bal[<<v, u>>] - bal'[<<v, u>>])
  BY DEF PairsAccept
<1>3. v \in Accounts /\ v # Agg
  BY AccountsDiffer
<1>4. v = s.venue /\ t = s.in /\ bal'[<<v, t>>] = bal[<<v, t>>] + amount
  BY <1>1, <1>2, <1>3
<1>5. amount > 0 /\ u = s.out /\ bal'[<<v, u>>] = bal[<<v, u>>] - amount'
  BY <1>1, <1>2, <1>3, <1>4
<1>6. amount' = SoroswapOut(amount, bal[<<v, t>>], bal[<<v, u>>])
  BY <1>1, <1>4, <1>5 DEF Pays
<1>7. 3 * (bal[<<v, t>>] + amount) + 999 <= I128Max
  <2>1. 3 * bal'[<<v, t>>] + 999 <= I128Max
    BY DEF Modest
  <2> QED BY <1>4, <2>1
<1>8. /\ bal'[<<v, t>>] - bal[<<v, t>>] = amount
      /\ bal[<<v, u>>] - bal'[<<v, u>>] = amount'
      /\ bal[<<v, t>>] \in Int /\ bal[<<v, u>>] \in Int
  BY <1>1, <1>2, <1>3, <1>4, <1>5
<1> QED BY <1>1, <1>2, <1>6, <1>7, <1>8, QuoteIsAccepted

\* What the aggregator, the users and the vault hold when a leg is done.
LEMMA WhenLegIsDone ==
  ASSUME CallInv, LegDone, call.kind \in {"swap", "restricted"} \/ side = "back"
  PROVE /\ call \in Calls /\ call.in # call.out /\ call.in \in Tokens /\ call.out \in Tokens
        /\ Payer \in Users \union {Vault} /\ call.user \in Users
        /\ Total(call.there) \in Int /\ made \in Int /\ LegOut \in Tokens
        /\ call.kind \in {"swap", "restricted"} => LegOut = call.out
        /\ side = "back" => call.kind \in TwoLegs /\ LegOut = call.in
        /\ bal \in HoldingTable
        /\ \A a \in Accounts, t \in Tokens :
             before.bal[<<a, t>>] \in Int /\ bal[<<a, t>>] \in Int
        /\ \A t \in Tokens :
             bal[<<Agg, t>>] = before.bal[<<Agg, t>>] + (IF t = LegOut THEN made ELSE 0)
        /\ \A a \in Users \union {Vault}, t \in Tokens :
             bal[<<a, t>>] = before.bal[<<a, t>>]
                             - (IF a = Payer /\ t = call.in THEN Total(call.there) ELSE 0)
        /\ call.kind = "restricted" =>
             \A v \in Venues \ registered, t \in Tokens : bal[<<v, t>>] = before.bal[<<v, t>>]
<1>1. Types /\ WellFormed /\ Placed /\ Shared /\ Balanced /\ call # NoCall /\ hop = 0
      /\ route = Len(Leg)
  BY DEF CallInv, LegDone
<1>2. call \in Calls
  BY <1>1 DEF WellFormed
<1>3. Walkable(call.there, call.in, call.out) /\ Walkable(Leg, LegIn, LegOut)
  BY <1>1, <1>2, CallIs, LegIs, LegNow DEF WellFormed
<1>4. total = given
  BY <1>1, <1>3 DEF Placed, Shared, Walkable, Leg, TwoLegs
<1>5. total \in Int /\ given \in Int /\ made \in Int /\ Total(call.there) \in Int
  BY <1>1, <1>3 DEF Types, Walkable
<1>6. \A t \in Tokens : Held(t) = IF t = LegOut THEN made ELSE 0
  BY <1>1, <1>4, <1>5 DEF Held
<1>7. /\ LegOut \in Tokens /\ (side = "there" => LegOut = call.out)
      /\ (side = "back" => LegOut = call.in)
  BY <1>1, LegNow
<1>8. \A a \in Accounts, t \in Tokens : before.bal[<<a, t>>] \in Int /\ bal[<<a, t>>] \in Int
  BY <1>1, AccountsDiffer DEF Types, HoldingTable
<1>9. side = "there" \/ (side = "back" /\ call.kind \in TwoLegs)
  BY <1>1 DEF Placed
<1>10. /\ call.in \in Tokens /\ call.out \in Tokens /\ call.user \in Users
       /\ Payer \in Users \union {Vault}
  BY <1>2, CallIs DEF Payer
<1>11. call.in # call.out /\ bal \in HoldingTable
  BY <1>1 DEF WellFormed, Types
<1>12. call.kind \in {"swap", "restricted"} => LegOut = call.out
  BY <1>7, <1>9 DEF TwoLegs
<1>13. side = "back" => call.kind \in TwoLegs /\ LegOut = call.in
  BY <1>7, <1>9
<1>14. /\ \A t \in Tokens :
            bal[<<Agg, t>>] = before.bal[<<Agg, t>>] + (IF t = LegOut THEN made ELSE 0)
       /\ \A a \in Users \union {Vault}, t \in Tokens :
             bal[<<a, t>>] = before.bal[<<a, t>>]
                             - (IF a = Payer /\ t = call.in THEN Total(call.there) ELSE 0)
       /\ call.kind = "restricted" =>
             \A v \in Venues \ registered, t \in Tokens : bal[<<v, t>>] = before.bal[<<v, t>>]
  BY <1>1, <1>6 DEF Balanced
<1> QED BY <1>2, <1>5, <1>7, <1>8, <1>10, <1>11, <1>12, <1>13, <1>14

Settled == OnlyPayerMoves /\ PayerGetsMinimum /\ OnlyRegisteredPaid

\* What a swap or a round trip pays its user.
LEMMA PayingSettles ==
  ASSUME CallInv, PayOut \/ PayBack
  PROVE Settled
<1>1. /\ LegDone /\ made >= call.min /\ bal' = Moved(bal, Agg, call.user, LegOut, made)
      /\ call.kind \in {"swap", "restricted"} \/ side = "back"
      /\ \/ call.kind \in {"swap", "restricted"} /\ LegOut = call.out
         \/ call.kind = "round_trip" /\ LegOut = call.in
  BY WhenLegIsDone DEF PayOut, PayBack
<1>2. /\ call \in Calls /\ call.in # call.out /\ call.in \in Tokens /\ call.out \in Tokens
      /\ call.user \in Users /\ Payer = call.user
      /\ Total(call.there) \in Int /\ made \in Int /\ LegOut \in Tokens
      /\ bal \in HoldingTable
      /\ \A a \in Accounts, t \in Tokens :
           before.bal[<<a, t>>] \in Int /\ bal[<<a, t>>] \in Int
      /\ \A t \in Tokens :
             bal[<<Agg, t>>] = before.bal[<<Agg, t>>] + (IF t = LegOut THEN made ELSE 0)
      /\ \A a \in Users \union {Vault}, t \in Tokens :
             bal[<<a, t>>] = before.bal[<<a, t>>]
                             - (IF a = Payer /\ t = call.in THEN Total(call.there) ELSE 0)
      /\ call.kind = "restricted" =>
             \A v \in Venues \ registered, t \in Tokens : bal[<<v, t>>] = before.bal[<<v, t>>]
  BY <1>1, WhenLegIsDone DEF Payer
<1>3. \A a \in Accounts, t \in Tokens :
        bal'[<<a, t>>] = bal[<<a, t>>] + (IF a = call.user /\ t = LegOut THEN made ELSE 0)
                                       - (IF a = Agg /\ t = LegOut THEN made ELSE 0)
  <2>1. bal \in HoldingTable /\ made \in Int /\ bal' = Moved(bal, Agg, call.user, LegOut, made)
    BY <1>1, <1>2
  <2>2. /\ Moved(bal, Agg, call.user, LegOut, made) \in HoldingTable
        /\ \A a \in Accounts, u \in Tokens :
             Moved(bal, Agg, call.user, LegOut, made)[<<a, u>>] =
               bal[<<a, u>>] + (IF a = call.user /\ u = LegOut THEN made ELSE 0)
                             - (IF a = Agg /\ u = LegOut THEN made ELSE 0)
    BY <2>1, MovedIs
  <2> QED BY <2>1, <2>2
<1>4. call.min \in Int
  BY <1>2, CallIs
<1>5. \A t \in Tokens : Loss(<<Agg, t>>) = 0
  BY <1>2, <1>3, AccountsDiffer DEF Loss
<1>6. \A a \in Users \union {Vault}, t \in Tokens :
        Loss(<<a, t>>) = (IF a = call.user /\ t = call.in THEN Total(call.there) ELSE 0)
                         - (IF a = call.user /\ t = LegOut THEN made ELSE 0)
  <2> TAKE a \in Users \union {Vault}, t \in Tokens
  <2>1. a \in Accounts /\ a # Agg
    BY AccountsDiffer
  <2>2. bal'[<<a, t>>] = bal[<<a, t>>] + (IF a = call.user /\ t = LegOut THEN made ELSE 0)
    BY <1>2, <1>3, <2>1
  <2>3. bal[<<a, t>>] = before.bal[<<a, t>>]
                        - (IF a = call.user /\ t = call.in THEN Total(call.there) ELSE 0)
    BY <1>2
  <2>4. /\ before.bal[<<a, t>>] \in Int /\ bal[<<a, t>>] \in Int
        /\ Total(call.there) \in Int /\ made \in Int
    BY <1>2, <2>1
  <2> QED BY <2>2, <2>3, <2>4 DEF Loss
<1>7. call.kind = "restricted" => \A v \in Venues \ registered, t \in Tokens : Loss(<<v, t>>) = 0
  <2> SUFFICES ASSUME call.kind = "restricted", NEW v \in Venues \ registered, NEW t \in Tokens
               PROVE Loss(<<v, t>>) = 0
    OBVIOUS
  <2>1. v \in Accounts /\ v # Agg /\ v # call.user
    BY <1>2, AccountsDiffer
  <2>2. bal'[<<v, t>>] = bal[<<v, t>>] /\ bal[<<v, t>>] = before.bal[<<v, t>>]
        /\ bal[<<v, t>>] \in Int
    BY <1>2, <1>3, <2>1
  <2> QED BY <2>2 DEF Loss
<1>8. OnlyPayerMoves
  BY <1>1, <1>2, <1>5, <1>6, AccountsDiffer DEF OnlyPayerMoves
<1>9. PayerGetsMinimum
  <2>1. CASE call.kind \in {"swap", "restricted"} /\ LegOut = call.out
    <3>1. Loss(<<call.user, call.in>>) = Total(call.there)
          /\ Loss(<<call.user, call.out>>) = -made
      BY <1>2, <1>6, <2>1
    <3>2. -made <= -call.min
      BY <1>1, <1>2, <1>4
    <3> QED BY <2>1, <3>1, <3>2 DEF PayerGetsMinimum
  <2>2. CASE call.kind = "round_trip" /\ LegOut = call.in
    <3>1. Loss(<<call.user, call.in>>) = Total(call.there) - made
          /\ Loss(<<call.user, call.out>>) = 0
      BY <1>2, <1>6, <2>2
    <3>2. Total(call.there) - made <= Total(call.there) - call.min
      BY <1>1, <1>2, <1>4
    <3> QED BY <2>2, <3>1, <3>2 DEF PayerGetsMinimum
  <2> QED BY <1>1, <2>1, <2>2
<1> QED BY <1>7, <1>8, <1>9 DEF Settled, OnlyRegisteredPaid

\* What the vault takes back.
LEMMA ReclaimingSettles ==
  ASSUME CallInv, PayVault
  PROVE Settled
<1> DEFINE paid == Moved(bal, Agg, call.user, call.in, made)
<1>1. /\ LegDone /\ side = "back" /\ call.kind = "vault" /\ made >= call.min
      /\ bal' = Moved(paid, call.user, Vault, call.in, made)
  BY DEF PayVault, Reclaimed
<1>2. /\ call \in Calls /\ call.in # call.out /\ call.in \in Tokens /\ call.out \in Tokens
      /\ call.user \in Users /\ Payer = Vault /\ LegOut = call.in
      /\ Total(call.there) \in Int /\ made \in Int
      /\ bal \in HoldingTable
      /\ \A a \in Accounts, t \in Tokens :
           before.bal[<<a, t>>] \in Int /\ bal[<<a, t>>] \in Int
      /\ \A t \in Tokens :
             bal[<<Agg, t>>] = before.bal[<<Agg, t>>] + (IF t = LegOut THEN made ELSE 0)
      /\ \A a \in Users \union {Vault}, t \in Tokens :
             bal[<<a, t>>] = before.bal[<<a, t>>]
                             - (IF a = Payer /\ t = call.in THEN Total(call.there) ELSE 0)
  BY <1>1, WhenLegIsDone DEF Payer
<1>3. /\ paid \in HoldingTable
      /\ \A a \in Accounts, t \in Tokens :
           paid[<<a, t>>] = bal[<<a, t>>] + (IF a = call.user /\ t = call.in THEN made ELSE 0)
                                          - (IF a = Agg /\ t = call.in THEN made ELSE 0)
  BY <1>2, MovedIs
<1> HIDE DEF paid
<1>4. \A a \in Accounts, t \in Tokens :
        bal'[<<a, t>>] = paid[<<a, t>>] + (IF a = Vault /\ t = call.in THEN made ELSE 0)
                                        - (IF a = call.user /\ t = call.in THEN made ELSE 0)
  <2>1. paid \in HoldingTable /\ made \in Int
        /\ bal' = Moved(paid, call.user, Vault, call.in, made)
    BY <1>1, <1>2, <1>3
  <2>2. /\ Moved(paid, call.user, Vault, call.in, made) \in HoldingTable
        /\ \A a \in Accounts, u \in Tokens :
             Moved(paid, call.user, Vault, call.in, made)[<<a, u>>] =
               paid[<<a, u>>] + (IF a = Vault /\ u = call.in THEN made ELSE 0)
                              - (IF a = call.user /\ u = call.in THEN made ELSE 0)
    BY <2>1, MovedIs
  <2> QED BY <2>1, <2>2
<1>5. call.min \in Int
  BY <1>2, CallIs
<1>6. \A a \in Accounts, t \in Tokens :
        bal'[<<a, t>>] = bal[<<a, t>>] + (IF a = Vault /\ t = call.in THEN made ELSE 0)
                                       - (IF a = Agg /\ t = call.in THEN made ELSE 0)
  <2> TAKE a \in Accounts, t \in Tokens
  <2>1. bal[<<a, t>>] \in Int /\ made \in Int
    BY <1>2
  <2> QED BY <1>3, <1>4, <2>1
<1>7. \A t \in Tokens : Loss(<<Agg, t>>) = 0
  BY <1>2, <1>6, AccountsDiffer DEF Loss
<1>8. \A a \in Users \union {Vault}, t \in Tokens :
        Loss(<<a, t>>) = (IF a = Vault /\ t = call.in THEN Total(call.there) ELSE 0)
                         - (IF a = Vault /\ t = call.in THEN made ELSE 0)
  <2> TAKE a \in Users \union {Vault}, t \in Tokens
  <2>1. a \in Accounts /\ a # Agg
    BY AccountsDiffer
  <2>2. bal'[<<a, t>>] = bal[<<a, t>>] + (IF a = Vault /\ t = call.in THEN made ELSE 0)
    BY <1>2, <1>6, <2>1
  <2>3. bal[<<a, t>>] = before.bal[<<a, t>>]
                        - (IF a = Vault /\ t = call.in THEN Total(call.there) ELSE 0)
    BY <1>2
  <2>4. /\ before.bal[<<a, t>>] \in Int /\ bal[<<a, t>>] \in Int
        /\ Total(call.there) \in Int /\ made \in Int
    BY <1>2, <2>1
  <2> QED BY <2>2, <2>3, <2>4 DEF Loss
<1>9. OnlyPayerMoves
  BY <1>1, <1>2, <1>7, <1>8, AccountsDiffer DEF OnlyPayerMoves
<1>10. PayerGetsMinimum
  <2>1. Loss(<<Vault, call.in>>) = Total(call.there) - made /\ Loss(<<Vault, call.out>>) = 0
    BY <1>2, <1>8
  <2>2. Total(call.there) - made <= Total(call.there) - call.min
    BY <1>1, <1>2, <1>5
  <2> QED BY <1>1, <2>1, <2>2 DEF PayerGetsMinimum
<1> QED BY <1>1, <1>9, <1>10 DEF Settled, OnlyRegisteredPaid

(***************************************************************************)
(* Whatever the pools pay and however a call is routed, it leaves its user *)
(* or the vault, and everyone else, with what the contracts promise, or it *)
(* is undone; and a Soroswap pair accepts what the aggregator asks of it,  *)
(* unless its reserves come near the largest i128 (Modest).                *)
(***************************************************************************)
THEOREM EveryCallSettles == Spec /\ []Modest => CallsSettle
<1> DEFINE Ends == (call # NoCall /\ call' = NoCall /\ bal' # before.bal) =>
                     OnlyPayerMoves /\ PayerGetsMinimum /\ OnlyRegisteredPaid
           Goes == (call # NoCall /\ call' # NoCall) => PairsAccept
<1>1. CallInv /\ Modest' /\ [Next]_vars => [Ends /\ Goes]_vars
  <2> SUFFICES ASSUME CallInv, Modest', Next PROVE Ends /\ Goes
    OBVIOUS
  <2>1. CASE call = NoCall
    BY <2>1
  <2>2. CASE StartRoute \/ TurnBack
    <3>1. call' = call /\ bal' = bal /\ call # NoCall
      BY <2>2 DEF StartRoute, TurnBack, LegDone
    <3>2. \A a \in Accounts, t \in Tokens : bal[<<a, t>>] \in Int
      BY AccountsDiffer DEF CallInv, Types, HoldingTable
    <3>3. PairsAccept
      BY <3>1, <3>2, AccountsDiffer DEF PairsAccept
    <3> QED BY <3>1, <3>3
  <2>3. CASE Hop
    <3>1. call' = call /\ call # NoCall
      BY <2>3 DEF Hop
    <3> QED BY <2>3, <3>1, PairsAcceptHop
  <2>4. CASE PayOut \/ PayBack
    <3>1. call' = NoCall
      BY <2>4 DEF PayOut, PayBack, Idle
    <3> QED BY <2>4, <3>1, PayingSettles DEF Settled
  <2>5. CASE PayVault
    <3>1. call' = NoCall
      BY <2>5 DEF PayVault, Idle
    <3> QED BY <2>5, <3>1, ReclaimingSettles DEF Settled
  <2>6. CASE Revert
    <3>1. call' = NoCall /\ bal' = before.bal
      BY <2>6 DEF Revert, Idle
    <3> QED BY <3>1
  <2> QED BY <2>1, <2>2, <2>3, <2>4, <2>5, <2>6
          DEF Next, SetVenue, SetCaller, Fund, Administer, Tick
<1> QED BY <1>1, CallInvInit, CallInvStep, PTL DEF Spec, CallsSettle

-----------------------------------------------------------------------------
(***************************************************************************)
(* The leg events of a call                                                *)
(***************************************************************************)

\* What a leg event is.
Events == [hop : Nat, venue : Venues, in : Tokens, amount : Int]

\* What the events of ls with a hop index add up to, as Volume folds them.
VolumeOf(h, ls) == FoldSeq(LAMBDA e, sum : IF e.hop = h THEN sum + e.amount ELSE sum, 0, ls)

\* What each event counts for a hop index.
Adds(h, ls) == [i \in DOMAIN ls |-> IF ls[i].hop = h THEN ls[i].amount ELSE 0]

\* The function that the fold computes a volume with.
FoldsUp(g, h, ls) ==
  g = [s \in SUBSET (DOMAIN ls) |->
         IF s = {} THEN 0
         ELSE IF ls[First(s)].hop = h THEN g[s \ {First(s)}] + ls[First(s)].amount
              ELSE g[s \ {First(s)}]]

LEMMA VolumeUnfolds ==
  ASSUME NEW h, NEW ls
  PROVE VolumeOf(h, ls) = (CHOOSE g : FoldsUp(g, h, ls))[DOMAIN ls]
BY DEF VolumeOf, FoldSeq, FoldFunction, FoldFunctionOnSet, MapThenFoldSet, FoldsUp, First

\* The volume is the sum of what the events count.
LEMMA VolumeIsSum ==
  ASSUME NEW h, NEW ls \in Seq(Events)
  PROVE VolumeOf(h, ls) = SumOver(Adds(h, ls), DOMAIN ls)
<1> DEFINE S == DOMAIN ls
           w == Adds(h, ls)
<1>1. IsFiniteSet(S) /\ \A i \in S : ls[i].amount \in Int /\ w[i] \in Int
      /\ w[i] = IF ls[i].hop = h THEN ls[i].amount ELSE 0
  <2>1. S = 1 .. Len(ls) /\ Len(ls) \in Nat
    OBVIOUS
  <2>2. ASSUME NEW i \in S PROVE ls[i] \in Events
    BY <2>1
  <2>3. IsFiniteSet(S)
    BY <2>1, FS_Interval
  <2> QED BY <2>2, <2>3 DEF Events, Adds
<1> HIDE DEF S, w
<1>2. SumsUp(Sums(w, S), w, S)
  BY <1>1, SumsExist
<1>3. ASSUME NEW T \in SUBSET S PROVE Sums(w, S)[T] \in Int
  <2>1. IsFiniteSet(T) /\ \A d \in T : w[d] \in Int
    BY <1>1, FS_Subset
  <2>2. SumOver(w, T) \in Int
    BY <2>1, SumInt
  <2> QED BY <1>1, <2>2, SumsMeet
<1>4. ASSUME NEW T \in SUBSET S, T # {}
      PROVE /\ First(T) \in S /\ T \ {First(T)} \in SUBSET S
            /\ Sums(w, S)[T] = IF ls[First(T)].hop = h
                                 THEN Sums(w, S)[T \ {First(T)}] + ls[First(T)].amount
                                 ELSE Sums(w, S)[T \ {First(T)}]
  <2>1. First(T) \in S /\ T \ {First(T)} \in SUBSET S
    BY <1>4, FirstIn
  <2>2. Sums(w, S)[T] = w[First(T)] + Sums(w, S)[T \ {First(T)}]
    BY <1>2, <1>4 DEF SumsUp
  <2>3. Sums(w, S)[T \ {First(T)}] \in Int
    BY <1>3, <2>1
  <2> QED BY <1>1, <2>1, <2>2, <2>3
<1>5. \E g : FoldsUp(g, h, ls)
  <2> DEFINE G == [T \in SUBSET S |-> Sums(w, S)[T]]
             K == [T \in SUBSET S |->
                     IF T = {} THEN 0
                     ELSE IF ls[First(T)].hop = h THEN G[T \ {First(T)}] + ls[First(T)].amount
                          ELSE G[T \ {First(T)}]]
  <2>1. ASSUME NEW T \in SUBSET S PROVE G[T] = K[T]
    <3>1. CASE T = {}
      BY <1>2, <3>1 DEF SumsUp
    <3>2. CASE T # {}
      <4>1. G[T \ {First(T)}] = Sums(w, S)[T \ {First(T)}]
        BY <1>4, <3>2
      <4> QED BY <1>4, <3>2, <4>1
    <3> QED BY <3>1, <3>2
  <2>2. G = [T \in SUBSET S |-> G[T]] /\ K = [T \in SUBSET S |-> K[T]]
    OBVIOUS
  <2>3. G = K
    <3> HIDE DEF G, K
    <3>1. [T \in SUBSET S |-> G[T]] = [T \in SUBSET S |-> K[T]]
      BY <2>1
    <3> QED BY <2>2, <3>1
  <2> HIDE DEF G
  <2>4. FoldsUp(G, h, ls)
    BY <2>3 DEF FoldsUp, S
  <2> QED BY <2>4
<1>6. PICK g : FoldsUp(g, h, ls) /\ VolumeOf(h, ls) = g[S]
  BY <1>5, VolumeUnfolds DEF S
<1> DEFINE Bad == {T \in SUBSET S : g[T] # Sums(w, S)[T]}
<1>7. Bad = {}
  <2> SUFFICES ASSUME Bad # {} PROVE FALSE
    OBVIOUS
  <2>1. PICK T \in Bad : \A U \in Bad : U \subseteq T => U = T
    <3>1. Bad \in SUBSET (SUBSET S)
      OBVIOUS
    <3> HIDE DEF Bad
    <3> QED BY <1>1, <3>1, SmallestSubset
  <2>2. T \in SUBSET S /\ g[T] # Sums(w, S)[T]
    OBVIOUS
  <2>3. g[T] = IF T = {} THEN 0
               ELSE IF ls[First(T)].hop = h THEN g[T \ {First(T)}] + ls[First(T)].amount
                    ELSE g[T \ {First(T)}]
    BY <1>6, <2>2 DEF FoldsUp, S
  <2>4. T # {}
    BY <1>2, <2>2, <2>3 DEF SumsUp
  <2>5. First(T) \in T
    BY <2>4, FirstIn
  <2>6. g[T \ {First(T)}] = Sums(w, S)[T \ {First(T)}]
    <3>1. T \ {First(T)} \notin Bad
      BY <2>1, <2>5
    <3> QED BY <2>2, <3>1
  <2> QED BY <1>4, <2>2, <2>3, <2>4, <2>6
<1>8. g[S] = Sums(w, S)[S]
  BY <1>7
<1>9. Sums(w, S)[S] = SumOver(w, S)
  BY <1>1, SumsMeet
<1> QED BY <1>6, <1>8, <1>9 DEF w, S

\* One more event adds its amount to the volume of its hop index only.
LEMMA OneMoreEvent ==
  ASSUME NEW h, NEW ls \in Seq(Events), NEW e \in Events
  PROVE /\ VolumeOf(h, ls) \in Int
        /\ VolumeOf(h, Append(ls, e)) = VolumeOf(h, ls) + (IF e.hop = h THEN e.amount ELSE 0)
<1> DEFINE more == Append(ls, e)
           n == Len(ls) + 1
           u == Adds(h, ls)
           w == Adds(h, more)
<1>1. /\ Len(ls) \in Nat /\ DOMAIN ls = 1 .. Len(ls) /\ DOMAIN more = 1 .. n
      /\ \A i \in 1 .. Len(ls) : ls[i] \in Events
      /\ more \in Seq(Events) /\ more[n] = e
      /\ \A i \in 1 .. Len(ls) : more[i] = ls[i]
  OBVIOUS
<1> HIDE DEF more
<1>2. ASSUME NEW i \in 1 .. Len(ls) PROVE u[i] \in Int /\ w[i] = u[i]
  <2>1. ls[i] \in Events /\ more[i] = ls[i] /\ i \in DOMAIN ls /\ i \in DOMAIN more
    BY <1>1
  <2>2. u[i] = (IF ls[i].hop = h THEN ls[i].amount ELSE 0) /\ w[i] = u[i]
    BY <2>1 DEF Adds
  <2> QED BY <2>1, <2>2 DEF Events
<1>3. w[n] = (IF e.hop = h THEN e.amount ELSE 0) /\ w[n] \in Int
  BY <1>1 DEF Adds, Events
<1>4. /\ VolumeOf(h, ls) = SumOver(u, 1 .. Len(ls))
      /\ VolumeOf(h, more) = SumOver(w, 1 .. n)
  BY <1>1, VolumeIsSum
<1> HIDE DEF u, w
<1>5. IsFiniteSet(1 .. Len(ls)) /\ IsFiniteSet(1 .. n)
  BY <1>1, FS_Interval
<1>6. SumOver(u, 1 .. Len(ls)) \in Int
  BY <1>2, <1>5, SumInt
<1>7. SumOver(w, 1 .. n) = w[n] + SumOver(w, (1 .. n) \ {n})
  <2>1. n \in 1 .. n /\ \A i \in 1 .. n : w[i] \in Int
    BY <1>1, <1>2, <1>3
  <2> QED BY <1>5, <2>1, SumTake
<1>8. (1 .. n) \ {n} = 1 .. Len(ls)
  BY <1>1
<1>9. SumOver(w, 1 .. Len(ls)) = SumOver(u, 1 .. Len(ls))
  <2> DEFINE R == 1 .. Len(ls)
  <2>1. /\ R \in SUBSET R /\ IsFiniteSet(R) /\ \A i \in R : u[i] \in Int
        /\ \A i \in R : w[i] = IF i \in R THEN u[i] ELSE 0
    BY <1>2, <1>5
  <2> HIDE DEF R
  <2>2. SumOver(w, R) = SumOver(u, R)
    BY <2>1, SumWithin
  <2> QED BY <2>2 DEF R
<1>10. SumOver(w, 1 .. n) = w[n] + SumOver(u, 1 .. Len(ls))
  BY <1>7, <1>8, <1>9
<1> HIDE DEF n
<1>11. VolumeOf(h, more) = VolumeOf(h, ls) + w[n] /\ VolumeOf(h, ls) \in Int
  BY <1>3, <1>4, <1>6, <1>10
<1> QED BY <1>3, <1>11 DEF more

\* No event with a hop index, no volume.
LEMMA NoEvents ==
  ASSUME NEW h, NEW ls \in Seq(Events), \A i \in 1 .. Len(ls) : ls[i].hop # h
  PROVE VolumeOf(h, ls) = 0
<1>1. DOMAIN ls = 1 .. Len(ls) /\ IsFiniteSet(1 .. Len(ls))
  BY FS_Interval
<1>2. \A i \in 1 .. Len(ls) : Adds(h, ls)[i] = 0
  BY <1>1 DEF Adds
<1>3. SumOver(Adds(h, ls), 1 .. Len(ls)) = 0
  BY <1>1, <1>2, SumZero
<1> QED BY <1>1, <1>3, VolumeIsSum

\* What the leg events tell while a call is executed.
Told ==
  /\ legs \in Seq(Events) /\ base \in Nat /\ depth \in Nat
  /\ \A i \in 1 .. Len(legs) : legs[i].hop < base + depth
  /\ VolumeOf(base, legs) = given - (IF hop = 1 THEN amount ELSE 0)
  /\ side = "there" => base = 0
  /\ side = "back" => base > 0 /\ VolumeOf(0, legs) = Total(call.there)
  /\ (route > 0 /\ hop # 1) => depth > 0

VolumeInv == CallInv /\ (call # NoCall => Told)

\* A leg that is done has been given all there was.
LEMMA AllGiven ==
  ASSUME CallInv, LegDone
  PROVE given = total /\ route > 0 /\ (side = "there" => total = Total(call.there))
<1>1. call # NoCall /\ route = Len(Leg) /\ Placed /\ Shared
  BY DEF CallInv, LegDone
<1>2. Walkable(Leg, LegIn, LegOut)
  BY <1>1, LegNow
<1> QED BY <1>1, <1>2 DEF Placed, Shared, Walkable, Leg

LEMMA HopTells ==
  ASSUME VolumeInv, Hop
  PROVE Told'
<1> DEFINE s == Leg[route].steps[hop]
           e == [hop |-> base + hop - 1, venue |-> s.venue, in |-> s.in, amount |-> amount]
<1>1. /\ call # NoCall /\ legs' = Append(legs, e)
      /\ depth' = (IF hop > depth THEN hop ELSE depth)
      /\ hop' = 0 \/ hop' = hop + 1
      /\ UNCHANGED <<call, side, total, given, route, base>>
  BY DEF Hop
<1>2. Told /\ CallInv /\ Types
  BY <1>1 DEF VolumeInv, CallInv
<1>3. /\ legs \in Seq(Events) /\ base \in Nat /\ depth \in Nat /\ amount \in Int
      /\ given \in Int /\ \A i \in 1 .. Len(legs) : legs[i].hop < base + depth
  BY <1>2 DEF Told, Types
<1>4. hop \in Nat \ {0} /\ s.venue \in Venues /\ s.in \in Tokens
  <2>1. /\ hop \in 1 .. Len(Leg[route].steps) /\ s.venue \in Venues /\ s.in \in Tokens
    BY <1>2, HopIs
  <2> QED BY <2>1
<1> HIDE DEF s
<1>5. e \in Events /\ e.hop = base + hop - 1 /\ e.amount = amount
  BY <1>3, <1>4 DEF Events
<1> HIDE DEF e
<1>6. legs' \in Seq(Events) /\ base' \in Nat /\ depth' \in Nat \ {0}
      /\ depth' >= depth /\ depth' >= hop
  BY <1>1, <1>3, <1>4, <1>5
<1>7. ASSUME NEW i \in 1 .. Len(legs') PROVE legs'[i].hop < base' + depth'
  <2>1. CASE i \in 1 .. Len(legs)
    <3>1. legs'[i] = legs[i] /\ legs[i] \in Events
      BY <1>1, <1>3, <2>1
    <3>2. legs[i].hop \in Nat /\ legs[i].hop < base + depth
      BY <1>3, <2>1, <3>1 DEF Events
    <3> QED BY <1>1, <1>3, <1>6, <3>1, <3>2
  <2>2. CASE i \notin 1 .. Len(legs)
    <3>1. legs'[i] = e
      BY <1>1, <1>3, <1>7, <2>2
    <3> QED BY <1>1, <1>3, <1>4, <1>5, <1>6, <3>1
  <2> QED BY <2>1, <2>2
<1>8. VolumeOf(base, legs)' = given' - (IF hop' = 1 THEN amount' ELSE 0)
  <2>1. VolumeOf(base, Append(legs, e)) = VolumeOf(base, legs) + (IF hop = 1 THEN amount ELSE 0)
    <3>1. e.hop = base <=> hop = 1
      BY <1>3, <1>4, <1>5
    <3> QED BY <1>3, <1>5, <3>1, OneMoreEvent
  <2>2. VolumeOf(base, legs) = given - (IF hop = 1 THEN amount ELSE 0)
    BY <1>2 DEF Told
  <2>3. VolumeOf(base, legs)' = VolumeOf(base, Append(legs, e))
    BY <1>1
  <2>4. hop' # 1
    BY <1>1, <1>4
  <2> QED BY <1>1, <1>3, <2>1, <2>2, <2>3, <2>4
<1>9. (side = "there" => base = 0)'
  BY <1>1, <1>2 DEF Told
<1>10. (side = "back" => base > 0 /\ VolumeOf(0, legs) = Total(call.there))'
  <2> SUFFICES ASSUME side = "back"
               PROVE base > 0 /\ VolumeOf(0, legs)' = Total(call.there)
    BY <1>1
  <2>1. base > 0 /\ VolumeOf(0, legs) = Total(call.there)
    BY <1>2 DEF Told
  <2>2. VolumeOf(0, Append(legs, e)) = VolumeOf(0, legs)
    <3>1. e.hop # 0 /\ VolumeOf(0, legs) \in Int
      BY <1>3, <1>4, <1>5, <2>1, OneMoreEvent
    <3> QED BY <1>3, <1>5, <3>1, OneMoreEvent
  <2>3. VolumeOf(0, legs)' = VolumeOf(0, Append(legs, e))
    BY <1>1
  <2> QED BY <2>1, <2>2, <2>3
<1> QED BY <1>6, <1>7, <1>8, <1>9, <1>10 DEF Told

LEMMA StartRouteTells ==
  ASSUME VolumeInv, StartRoute
  PROVE Told'
<1>1. /\ call # NoCall /\ hop = 0 /\ hop' = 1 /\ given' = given + amount'
      /\ UNCHANGED <<call, side, base, depth, legs>>
  BY DEF StartRoute
<1>2. Told /\ Types /\ CallInv'
  BY <1>1, StartRouteKeeps DEF VolumeInv, CallInv
<1>3. given \in Int /\ amount' \in Int
  BY <1>2 DEF Types, CallInv
<1>4. VolumeOf(base, legs)' = VolumeOf(base, legs) /\ VolumeOf(0, legs)' = VolumeOf(0, legs)
  BY <1>1
<1>5. VolumeOf(base, legs) = given
  BY <1>1, <1>2, <1>3 DEF Told
<1>6. (VolumeOf(base, legs) = given - (IF hop = 1 THEN amount ELSE 0))'
  <2>1. VolumeOf(base, legs)' = given
    BY <1>4, <1>5
  <2>2. given' = given + amount' /\ hop' = 1
    BY <1>1
  <2>3. \A g, x \in Int : g = (g + x) - x
    OBVIOUS
  <2>4. given = given' - amount'
    BY <1>3, <2>2, <2>3
  <2> QED BY <2>1, <2>2, <2>4
<1>7. (side = "back" => base > 0 /\ VolumeOf(0, legs) = Total(call.there))'
  BY <1>1, <1>2, <1>4 DEF Told
<1>8. ((route > 0 /\ hop # 1) => depth > 0)'
  BY <1>1
<1> QED BY <1>1, <1>2, <1>6, <1>7, <1>8 DEF Told

LEMMA TurnBackTells ==
  ASSUME VolumeInv, TurnBack
  PROVE Told'
<1>1. /\ LegDone /\ call # NoCall /\ hop = 0 /\ side = "there" /\ side' = "back" /\ given' = 0
      /\ route' = 0 /\ base' = base + depth /\ depth' = 0
      /\ UNCHANGED <<call, hop, legs>>
  BY DEF TurnBack, LegDone, NextBase
<1>2. Told /\ CallInv /\ Types
  BY <1>1 DEF VolumeInv, CallInv
<1>3. given = Total(call.there) /\ route > 0
  BY <1>1, <1>2, AllGiven
<1>4. base = 0 /\ depth > 0 /\ base \in Nat /\ depth \in Nat /\ legs \in Seq(Events)
      /\ VolumeOf(base, legs) = given /\ \A i \in 1 .. Len(legs) : legs[i].hop < base + depth
  <2>1. given \in Int
    BY <1>2 DEF Types
  <2> QED BY <1>1, <1>2, <1>3, <2>1 DEF Told
<1>5. VolumeOf(0, legs)' = Total(call.there)'
  <2>1. VolumeOf(0, legs)' = VolumeOf(0, legs) /\ Total(call.there)' = Total(call.there)
    BY <1>1 DEF Total
  <2> QED BY <1>3, <1>4, <2>1
<1>6. VolumeOf(base, legs)' = 0
  <2>1. ASSUME NEW i \in 1 .. Len(legs) PROVE legs[i].hop # base + depth
    <3>1. legs[i] \in Events /\ legs[i].hop < base + depth
      BY <1>4
    <3> QED BY <1>4, <3>1 DEF Events
  <2>2. VolumeOf(base + depth, legs) = 0
    BY <1>4, <2>1, NoEvents
  <2>3. VolumeOf(base, legs)' = VolumeOf(base + depth, legs)
    BY <1>1
  <2> QED BY <2>2, <2>3
<1>7. base' \in Nat /\ depth' \in Nat /\ base' > 0 /\ base' + depth' = base + depth
  BY <1>1, <1>4
<1> QED BY <1>1, <1>4, <1>5, <1>6, <1>7 DEF Told

LEMMA BeginTells ==
  ASSUME NEW c, NEW pulled, Begin(c, pulled)
  PROVE Told'
<1>1. legs' = <<>> /\ base' = 0 /\ depth' = 0 /\ given' = 0 /\ hop' = 0 /\ route' = 0
      /\ side' = "there"
  BY DEF Begin
<1>2. <<>> \in Seq(Events) /\ Len(<<>>) = 0
  OBVIOUS
<1>3. VolumeOf(0, <<>>) = 0
  <2>1. \A i \in 1 .. Len(<<>>) : <<>>[i].hop # 0
    BY <1>2
  <2> QED BY <1>2, <2>1, NoEvents
<1>4. VolumeOf(base, legs)' = VolumeOf(0, <<>>)
  BY <1>1
<1>5. 1 .. Len(legs') = {}
  BY <1>1, <1>2
<1> QED BY <1>1, <1>2, <1>3, <1>4, <1>5 DEF Told

LEMMA VolumeInvStep ==
  ASSUME VolumeInv, [Next]_vars
  PROVE VolumeInv'
<1>1. CallInv'
  BY CallInvStep DEF VolumeInv
<1>2. ASSUME NEW c \in Calls, Swap(c) \/ RoundTrip(c) \/ ExecuteRoundTrip(c)
      PROVE Told'
  BY <1>2, BeginTells DEF Swap, RoundTrip, ExecuteRoundTrip
<1>3. CASE StartRoute \/ Hop \/ TurnBack
  BY <1>1, <1>3, StartRouteTells, HopTells, TurnBackTells DEF VolumeInv
<1>4. CASE PayOut \/ PayBack \/ PayVault \/ Revert
  BY <1>1, <1>4 DEF PayOut, PayBack, PayVault, Revert, Idle, VolumeInv
<1>5. CASE \/ \E v \in Venues : SetVenue(v)
           \/ \E u \in Users : SetCaller(u)
           \/ \E u \in Users, t \in Tokens, x \in 1 .. MaxFund :
                Fund(u, Vault, t, x) \/ Fund(Vault, u, t, x)
           \/ Tick
  BY <1>1, <1>5 DEF SetVenue, SetCaller, Fund, Tick, Administer, VolumeInv
<1>6. CASE UNCHANGED vars
  BY <1>1, <1>6 DEF vars, progress, VolumeInv, Told
<1> QED BY <1>1, <1>2, <1>3, <1>4, <1>5, <1>6 DEF Next, VolumeInv

(***************************************************************************)
(* Every leg of a call divides its input as its routes say, and the leg    *)
(* events tell the volume: those with the first hop index of a leg add up  *)
(* to the leg's input, even if its paths have different lengths, because   *)
(* the second leg begins to count where the longest path of the first one  *)
(* has ended (leg_counter and max_depth of execute_sub_routes).            *)
(***************************************************************************)
THEOREM LegsToldWhole == Spec => []LegsAddUp
<1>1. ASSUME Init PROVE VolumeInv
  BY <1>1, CallInvInit DEF Init, VolumeInv
<1>2. ASSUME VolumeInv PROVE LegEventsTellVolume
  <2> SUFFICES ASSUME LegDone
               PROVE /\ Volume(base) = total
                     /\ side = "back" => Volume(0) = Total(call.there)
    BY DEF LegEventsTellVolume
  <2>1. Told /\ CallInv /\ Types /\ hop = 0
    BY <1>2 DEF VolumeInv, LegDone, CallInv
  <2>2. given = total /\ given \in Int
    BY <2>1, AllGiven DEF Types
  <2>3. Volume(base) = VolumeOf(base, legs) /\ Volume(0) = VolumeOf(0, legs)
    BY DEF Volume, VolumeOf
  <2> QED BY <2>1, <2>2, <2>3 DEF Told
<1>3. Spec => []LegEventsTellVolume
  BY <1>1, <1>2, VolumeInvStep, PTL DEF Spec
<1> QED BY <1>3, SharesByWeight, PTL DEF LegsAddUp

-----------------------------------------------------------------------------
(***************************************************************************)
(* The opportunity the bot simulates                                       *)
(***************************************************************************)

\* The parts of a leg, and the field f of each of them.
LegParts == [pool : Pools, in : Nat \ {0}, out : Nat \ {0}]
FieldOf(subs, f) == [k \in DOMAIN subs |-> subs[k][f]]

LEMMA LegSums ==
  ASSUME NEW subs \in Seq(LegParts), NEW f \in {"in", "out"}
  PROVE /\ DOMAIN subs = 1 .. Len(subs) /\ Len(subs) \in Nat
        /\ \A k \in 1 .. Len(subs) : FieldOf(subs, f)[k] = subs[k][f] /\ subs[k][f] \in Nat \ {0}
        /\ Sum(subs, f) = SumOver(FieldOf(subs, f), 1 .. Len(subs))
        /\ Sum(subs, f) \in Int
<1>1. DOMAIN subs = 1 .. Len(subs) /\ Len(subs) \in Nat
  OBVIOUS
<1>2. \A k \in 1 .. Len(subs) : FieldOf(subs, f)[k] = subs[k][f] /\ subs[k][f] \in Nat \ {0}
  <2>1. ASSUME NEW k \in 1 .. Len(subs) PROVE subs[k] \in LegParts /\ FieldOf(subs, f)[k] = subs[k][f]
    BY <1>1 DEF FieldOf
  <2>2. \A x \in LegParts : x[f] \in Nat \ {0}
    BY DEF LegParts
  <2> QED BY <2>1, <2>2
<1>3. DOMAIN FieldOf(subs, f) = 1 .. Len(subs)
  BY <1>1 DEF FieldOf
<1>4. Sum(subs, f) = SumOver(FieldOf(subs, f), 1 .. Len(subs))
  <2>1. Sum(subs, f) = SumFunction(FieldOf(subs, f))
    BY DEF Sum, FieldOf
  <2> QED BY <1>3, <2>1, SumIs
<1>5. SumOver(FieldOf(subs, f), 1 .. Len(subs)) \in Int
  <2>1. IsFiniteSet(1 .. Len(subs))
    BY <1>1, FS_Interval
  <2>2. \A k \in 1 .. Len(subs) : FieldOf(subs, f)[k] \in Int
    BY <1>2
  <2> QED BY <2>1, <2>2, SumInt
<1> QED BY <1>1, <1>2, <1>4, <1>5

\* The parts of two sequences add up to what each of them adds up to.
LEMMA SumJoined ==
  ASSUME NEW s \in Seq(LegParts), NEW t \in Seq(LegParts), NEW f \in {"in", "out"}
  PROVE Sum(s \o t, f) = Sum(s, f) + Sum(t, f)
<1> DEFINE n == Len(s)
           m == Len(t)
           u == FieldOf(s, f)
           v == FieldOf(t, f)
           w == FieldOf(s \o t, f)
<1>1. s \o t \in Seq(LegParts) /\ Len(s \o t) = n + m /\ n \in Nat /\ m \in Nat
  OBVIOUS
<1>2. /\ \A k \in 1 .. n : (s \o t)[k] = s[k]
      /\ \A k \in 1 .. m : (s \o t)[n + k] = t[k]
  OBVIOUS
<1>3. /\ Sum(s, f) = SumOver(u, 1 .. n) /\ Sum(t, f) = SumOver(v, 1 .. m)
      /\ Sum(s \o t, f) = SumOver(w, 1 .. n + m)
      /\ \A k \in 1 .. n : u[k] = s[k][f] /\ u[k] \in Int
      /\ \A k \in 1 .. m : v[k] = t[k][f] /\ v[k] \in Int
      /\ \A k \in 1 .. n + m : w[k] = (s \o t)[k][f] /\ w[k] \in Int
  <2> HIDE DEF u, v, w
  <2>1. \A k \in 1 .. n : u[k] = s[k][f] /\ s[k][f] \in Nat \ {0}
    BY LegSums DEF u
  <2>2. \A k \in 1 .. m : v[k] = t[k][f] /\ t[k][f] \in Nat \ {0}
    BY LegSums DEF v
  <2>3. \A k \in 1 .. n + m : w[k] = (s \o t)[k][f] /\ (s \o t)[k][f] \in Nat \ {0}
    <3>1. \A k \in 1 .. Len(s \o t) : FieldOf(s \o t, f)[k] = (s \o t)[k][f] /\ (s \o t)[k][f] \in Nat \ {0}
      BY <1>1, LegSums
    <3> QED BY <1>1, <3>1 DEF w
  <2>4. Sum(s, f) = SumOver(u, 1 .. n) /\ Sum(t, f) = SumOver(v, 1 .. m)
    BY LegSums DEF u, v
  <2>5. Sum(s \o t, f) = SumOver(w, 1 .. n + m)
    BY <1>1, LegSums DEF w
  <2> QED BY <2>1, <2>2, <2>3, <2>4, <2>5
<1>4. /\ \A k \in 1 .. n : w[k] = u[k] /\ u[k] \in Int
      /\ \A k \in 1 .. m : w[n + k] = v[k] /\ v[k] \in Int
      /\ \A k \in 1 .. n + m : w[k] \in Int
  <2> HIDE DEF u, v, w
  <2>1. \A k \in 1 .. n : k \in 1 .. n + m
    BY <1>1
  <2>2. \A k \in 1 .. m : n + k \in 1 .. n + m
    BY <1>1
  <2>3. \A k \in 1 .. n : w[k] = u[k]
    BY <1>2, <1>3, <2>1
  <2>4. \A k \in 1 .. m : w[n + k] = v[k]
    BY <1>2, <1>3, <2>2
  <2> QED BY <1>3, <2>3, <2>4
<1> HIDE DEF n, m, u, v, w
<1>5. SumOver(w, 1 .. n) = SumOver(u, 1 .. n)
  <2>1. IsFiniteSet(1 .. n)
    BY <1>1, FS_Interval
  <2> QED BY <1>4, <2>1, SumSame
<1>6. SumOver(u, 1 .. n) \in Int
  <2>1. IsFiniteSet(1 .. n)
    BY <1>1, FS_Interval
  <2> QED BY <1>4, <2>1, SumInt
<1>v. Telescopes(v, m)
  BY <1>1, <1>4, SumSteps
<1>w. Telescopes(w, n + m)
  <2>1. n + m \in Nat
    BY <1>1
  <2> QED BY <1>4, <2>1, SumSteps
<1> DEFINE G == {k \in 0 .. m : SumOver(w, 1 .. n + k) = SumOver(u, 1 .. n) + SumOver(v, 1 .. k)}
<1>7. 0 \in G
  <2>2. n + 0 = n /\ 0 \in 0 .. m
    BY <1>1
  <2> QED BY <1>5, <1>6, <1>v, <2>2 DEF Telescopes
<1>8. ASSUME NEW k \in 0 .. m - 1, k \in G PROVE k + 1 \in G
  <2>1. k + 1 \in 1 .. m /\ k + 1 \in 0 .. m /\ k \in 0 .. m
    BY <1>1
  <2>2. PICK e \in Nat : e = n + k
    BY <1>1
  <2>3. e \in 0 .. (n + m) - 1 /\ n + (k + 1) = e + 1
    BY <1>1, <2>2
  <2>4. SumOver(w, 1 .. e + 1) = SumOver(w, 1 .. e) + w[e + 1]
    BY <1>w, <2>3, Zenon DEF Telescopes
  <2>5. SumOver(v, 1 .. k + 1) = SumOver(v, 1 .. k) + v[k + 1] /\ SumOver(v, 1 .. k) \in Int
    BY <1>v, <2>1 DEF Telescopes
  <2>6. w[e + 1] = v[k + 1] /\ v[k + 1] \in Int
    BY <1>4, <2>1, <2>3
  <2>7. SumOver(w, 1 .. e) = SumOver(u, 1 .. n) + SumOver(v, 1 .. k)
    BY <1>8, <2>2
  <2> QED BY <1>6, <2>1, <2>3, <2>4, <2>5, <2>6, <2>7
<1>9. m \in G
  <2>1. m \in 0 .. m
    BY <1>1
  <2> HIDE DEF G
  <2> QED BY <1>1, <1>7, <1>8, <2>1, UpTo
<1> QED BY <1>3, <1>9

\* What a pool pays, and the reserves it is left with.
LEMMA PoolPays ==
  ASSUME NEW r \in Nat \ {0}, NEW s \in Nat \ {0}, NEW a \in Nat
  PROVE /\ (a * r) \div (s + a) \in Nat
        /\ (a * r) \div (s + a) < r
        /\ a = 0 => (a * r) \div (s + a) = 0
<1> DEFINE d == s + a
           x == a * r
           y == x \div d
<1>1. d \in Nat \ {0} /\ x \in Nat /\ a < d
  OBVIOUS
<1>2. x < d * r
  <2>1. d * r = s * r + a * r /\ s * r > 0
    OBVIOUS
  <2> QED BY <2>1
<1>3. y \in Nat /\ d * y <= x
  <2> HIDE DEF d, x
  <2> QED BY <1>1
<1>4. y < r
  <2> SUFFICES ASSUME r <= y PROVE FALSE
    BY <1>3
  <2> HIDE DEF x, y, d
  <2>1. d * r <= d * y
    BY <1>1, <1>3
  <2>2. d * r \in Nat /\ d * y \in Nat
    BY <1>1, <1>3
  <2> QED BY <1>1, <1>2, <1>3, <2>1, <2>2
<1>5. a = 0 => y = 0
  <2> HAVE a = 0
  <2>1. x = 0
    OBVIOUS
  <2> HIDE DEF x, d
  <2> QED BY <1>1, <2>1
<1> QED BY <1>3, <1>4, <1>5

Stocks == [Pools -> (Nat \ {0}) \X (Nat \ {0})]
Ways == {"there", "back"}
Given == [pool : Pools, in : Int]
RouteStates == [res : Stocks, got : Nat, ok : BOOLEAN]

LEMMA PaidIs ==
  ASSUME NEW res \in Stocks, NEW p \in Pools, NEW dir \in Ways, NEW a \in Nat
  PROVE /\ Paid(res, p, dir, a) \in Nat
        /\ a = 0 => Paid(res, p, dir, a) = 0
        /\ After(res, p, dir, a) \in Stocks
        /\ \A t \in Pools : t # p => After(res, p, dir, a)[t] = res[t]
<1>1. res[p] = <<res[p][1], res[p][2]>> /\ res[p][1] \in Nat \ {0} /\ res[p][2] \in Nat \ {0}
  BY DEF Stocks
<1> DEFINE x == Paid(res, p, dir, a)
<1>2. CASE dir = "there"
  <2>1. x = (a * res[p][2]) \div (res[p][1] + a)
    BY <1>2 DEF Paid
  <2>2. x \in Nat /\ x < res[p][2] /\ (a = 0 => x = 0)
    BY <1>1, <2>1, PoolPays
  <2>3. After(res, p, dir, a) = [res EXCEPT ![p] = <<res[p][1] + a, res[p][2] - x>>]
    BY <1>2 DEF After
  <2> HIDE DEF x
  <2>4. res[p][1] + a \in Nat \ {0} /\ res[p][2] - x \in Nat \ {0}
    BY <1>1, <2>2
  <2> QED BY <2>2, <2>3, <2>4 DEF Stocks, x
<1>3. CASE dir = "back"
  <2>1. x = (a * res[p][1]) \div (res[p][2] + a)
    BY <1>3 DEF Paid
  <2>2. x \in Nat /\ x < res[p][1] /\ (a = 0 => x = 0)
    BY <1>1, <2>1, PoolPays
  <2>3. After(res, p, dir, a) = [res EXCEPT ![p] = <<res[p][1] - x, res[p][2] + a>>]
    BY <1>3 DEF After
  <2> HIDE DEF x
  <2>4. res[p][2] + a \in Nat \ {0} /\ res[p][1] - x \in Nat \ {0}
    BY <1>1, <2>2
  <2> QED BY <2>2, <2>3, <2>4 DEF Stocks, x
<1> QED BY <1>2, <1>3 DEF Ways

\* One route of a leg.
LEMMA ThroughIs ==
  ASSUME NEW s \in RouteStates, NEW dir \in Ways, NEW sub \in Given
  PROVE /\ Through(s, dir, sub) \in RouteStates
        /\ s.ok /\ sub.in > 0 /\ Paid(s.res, sub.pool, dir, sub.in) > 0 =>
             /\ Through(s, dir, sub).ok
             /\ Through(s, dir, sub).got = s.got + Paid(s.res, sub.pool, dir, sub.in)
             /\ \A t \in Pools : t # sub.pool => Through(s, dir, sub).res[t] = s.res[t]
<1> DEFINE x == Paid(s.res, sub.pool, dir, sub.in)
           good == s.ok /\ sub.in > 0 /\ x > 0
           y == After(s.res, sub.pool, dir, sub.in)
<1>1. Through(s, dir, sub) = IF good THEN [res |-> y, got |-> s.got + x, ok |-> TRUE]
                             ELSE [s EXCEPT !.ok = FALSE]
  BY DEF Through
<1>2. s.res \in Stocks /\ s.got \in Nat /\ sub.pool \in Pools /\ sub.in \in Int
  BY DEF RouteStates, Given
<1>3. [s EXCEPT !.ok = FALSE] \in RouteStates
  BY DEF RouteStates
<1>4. ASSUME good PROVE x \in Nat /\ y \in Stocks /\ \A t \in Pools : t # sub.pool => y[t] = s.res[t]
  <2>1. sub.in \in Nat
    BY <1>2, <1>4
  <2> QED BY <1>2, <2>1, PaidIs
<1> HIDE DEF x, y
<1>5. ASSUME good PROVE [res |-> y, got |-> s.got + x, ok |-> TRUE] \in RouteStates
  BY <1>2, <1>4, <1>5 DEF RouteStates
<1> QED BY <1>1, <1>3, <1>4, <1>5 DEF x

\* The routes of a leg, one after the other: the function Swapped computes.
RunsThrough(g, start, dir, subs, n) ==
  g = [k \in 0 .. n |-> IF k = 0 THEN [start EXCEPT !.got = 0] ELSE Through(g[k - 1], dir, subs[k])]

Chained(g, start, dir, subs, n) ==
  /\ g[0] = [start EXCEPT !.got = 0]
  /\ \A k \in 0 .. n - 1 : g[k + 1] = Through(g[k], dir, subs[k + 1])

LEMMA SwappedRuns ==
  ASSUME NEW start, NEW dir, NEW subs, Len(subs) \in Nat
  PROVE \E g : Chained(g, start, dir, subs, Len(subs)) /\ Swapped(start, dir, subs) = g[Len(subs)]
<1> DEFINE n == Len(subs)
           G == {m \in 0 .. n : \E g : RunsThrough(g, start, dir, subs, m)}
<1>1. 0 \in G
  <2> DEFINE g == [k \in 0 .. 0 |-> [start EXCEPT !.got = 0]]
             h == [k \in 0 .. 0 |-> IF k = 0 THEN [start EXCEPT !.got = 0] ELSE Through(g[k - 1], dir, subs[k])]
  <2>1. g = h
    OBVIOUS
  <2>2. RunsThrough(g, start, dir, subs, 0)
    BY <2>1 DEF RunsThrough
  <2> HIDE DEF g
  <2> QED BY <2>2
<1>2. ASSUME NEW m \in 0 .. n - 1, m \in G PROVE m + 1 \in G
  <2>1. PICK g : RunsThrough(g, start, dir, subs, m)
    BY <1>2
  <2> DEFINE e == Through(g[m], dir, subs[m + 1])
             h == [k \in 0 .. m + 1 |-> IF k = m + 1 THEN e ELSE g[k]]
             f == [k \in 0 .. m + 1 |-> IF k = 0 THEN [start EXCEPT !.got = 0] ELSE Through(h[k - 1], dir, subs[k])]
  <2>2. ASSUME NEW k \in 0 .. m + 1 PROVE h[k] = f[k]
    <3>1. CASE k = m + 1
      <4>1. k # 0 /\ k - 1 = m /\ m \in 0 .. m + 1 /\ m # m + 1
        BY <3>1
      <4>2. h[k - 1] = g[m]
        BY <4>1
      <4> QED BY <3>1, <4>1, <4>2
    <3>2. CASE k # m + 1
      <4>1. k \in 0 .. m /\ h[k] = g[k]
        BY <3>2
      <4>2. k # 0 => k - 1 \in 0 .. m + 1 /\ k - 1 # m + 1
        BY <4>1
      <4>3. k # 0 => h[k - 1] = g[k - 1]
        BY <4>2
      <4>4. g[k] = IF k = 0 THEN [start EXCEPT !.got = 0] ELSE Through(g[k - 1], dir, subs[k])
        BY <2>1, <4>1 DEF RunsThrough
      <4>5. f[k] = IF k = 0 THEN [start EXCEPT !.got = 0] ELSE Through(h[k - 1], dir, subs[k])
        OBVIOUS
      <4> HIDE DEF h, f
      <4> QED BY <4>1, <4>3, <4>4, <4>5
    <3> QED BY <3>1, <3>2
  <2>3. h = f
    <3>1. h = [k \in 0 .. m + 1 |-> h[k]] /\ f = [k \in 0 .. m + 1 |-> f[k]]
      OBVIOUS
    <3> HIDE DEF h, f
    <3>2. [k \in 0 .. m + 1 |-> h[k]] = [k \in 0 .. m + 1 |-> f[k]]
      BY <2>2
    <3> QED BY <3>1, <3>2
  <2>4. RunsThrough(h, start, dir, subs, m + 1)
    <3> HIDE DEF h
    <3> QED BY <2>3 DEF RunsThrough
  <2> HIDE DEF h
  <2>5. m + 1 \in 0 .. n
    OBVIOUS
  <2> QED BY <2>4, <2>5
<1>3. n \in G
  <2> HIDE DEF G
  <2>1. n \in 0 .. n
    OBVIOUS
  <2> QED BY <1>1, <1>2, <2>1, UpTo
<1>4. \E g : RunsThrough(g, start, dir, subs, n)
  BY <1>3
<1> DEFINE c == CHOOSE g : RunsThrough(g, start, dir, subs, n)
<1>5. RunsThrough(c, start, dir, subs, n)
  BY <1>4
<1>6. Swapped(start, dir, subs) = c[n]
  BY DEF Swapped, RunsThrough
<1> HIDE DEF c
<1>7. PICK h : RunsThrough(h, start, dir, subs, n) /\ Swapped(start, dir, subs) = h[n]
  BY <1>5, <1>6
<1>8. h[0] = [start EXCEPT !.got = 0]
  <2>1. 0 \in 0 .. n
    OBVIOUS
  <2> QED BY <1>7, <2>1 DEF RunsThrough
<1>9. ASSUME NEW k \in 0 .. n - 1 PROVE h[k + 1] = Through(h[k], dir, subs[k + 1])
  <2>1. PICK j \in Nat : j = k + 1
    OBVIOUS
  <2>2. j \in 0 .. n /\ j # 0 /\ j - 1 = k
    BY <2>1
  <2> HIDE DEF n
  <2>3. h[j] = Through(h[j - 1], dir, subs[j])
    BY <1>7, <2>2 DEF RunsThrough
  <2> QED BY <2>1, <2>2, <2>3
<1>10. Chained(h, start, dir, subs, n)
  BY <1>8, <1>9 DEF Chained
<1> QED BY <1>7, <1>10

LEMMA SwappedTyped ==
  ASSUME NEW start \in RouteStates, NEW dir \in Ways, NEW subs \in Seq(Given)
  PROVE Swapped(start, dir, subs) \in RouteStates
<1> DEFINE n == Len(subs)
<1>1. n \in Nat /\ \A k \in 1 .. n : subs[k] \in Given
  OBVIOUS
<1>2. PICK g : Chained(g, start, dir, subs, n) /\ Swapped(start, dir, subs) = g[n]
  BY <1>1, SwappedRuns
<1>3. g[0] = [start EXCEPT !.got = 0] /\ \A k \in 0 .. n - 1 : g[k + 1] = Through(g[k], dir, subs[k + 1])
  BY <1>2 DEF Chained
<1> DEFINE G == {k \in 0 .. n : g[k] \in RouteStates}
<1>4. 0 \in G
  BY <1>1, <1>3 DEF RouteStates
<1>5. ASSUME NEW k \in 0 .. n - 1, k \in G PROVE k + 1 \in G
  <2>1. k + 1 \in 1 .. n /\ k + 1 \in 0 .. n
    BY <1>1
  <2>2. Through(g[k], dir, subs[k + 1]) \in RouteStates
    BY <1>1, <1>5, <2>1, ThroughIs
  <2> QED BY <1>3, <2>1, <2>2
<1>6. n \in G
  <2>1. n \in 0 .. n
    BY <1>1
  <2> HIDE DEF G
  <2> QED BY <1>1, <1>4, <1>5, <2>1, UpTo
<1> QED BY <1>2, <1>6

\* What a leg is quoted for: every part pays by the reserves R.
PaysBy(subs, dir, R) ==
  \A k \in 1 .. Len(subs) : subs[k].out = Paid(R, subs[k].pool, dir, subs[k].in)
AsQuoted(gs, subs) ==
  /\ gs \in Seq(Given) /\ Len(gs) = Len(subs)
  /\ \A k \in 1 .. Len(subs) : gs[k].pool = subs[k].pool /\ gs[k].in = subs[k].in

\* A leg whose pools have the reserves it was quoted by pays what was quoted.
LEMMA SwappedExactly ==
  ASSUME NEW start \in RouteStates, start.ok, NEW dir \in Ways, NEW R \in Stocks,
         NEW subs \in Seq(LegParts), PaysBy(subs, dir, R), NEW gs, AsQuoted(gs, subs),
         \A k \in 1 .. Len(subs) : start.res[subs[k].pool] = R[subs[k].pool],
         \A i, j \in 1 .. Len(subs) : i # j => subs[i].pool # subs[j].pool
  PROVE LET s == Swapped(start, dir, gs)
        IN /\ s \in RouteStates /\ s.ok /\ s.got = Sum(subs, "out")
           /\ \A p \in Pools : (\A j \in 1 .. Len(subs) : subs[j].pool # p) => s.res[p] = start.res[p]
<1> DEFINE n == Len(subs)
           w == FieldOf(subs, "out")
<1>1. /\ n \in Nat /\ Len(gs) = n
      /\ \A k \in 1 .. n : subs[k] \in LegParts
      /\ \A k \in 1 .. n : gs[k] \in Given /\ gs[k].pool = subs[k].pool /\ gs[k].in = subs[k].in
  BY DEF AsQuoted
<1>2. PICK g : Chained(g, start, dir, gs, n) /\ Swapped(start, dir, gs) = g[n]
  <2> HIDE DEF n
  <2> QED BY <1>1, SwappedRuns
<1>3. g[0] = [start EXCEPT !.got = 0] /\ \A k \in 0 .. n - 1 : g[k + 1] = Through(g[k], dir, gs[k + 1])
  BY <1>2 DEF Chained
<1>4. /\ Sum(subs, "out") = SumOver(w, 1 .. n)
      /\ \A k \in 1 .. n : w[k] = subs[k].out /\ subs[k].out \in Nat \ {0}
  BY LegSums
<1>5. /\ SumOver(w, 1 .. 0) = 0
      /\ \A k \in 0 .. n - 1 : SumOver(w, 1 .. k + 1) = SumOver(w, 1 .. k) + w[k + 1]
  <2>1. \A k \in 1 .. n : w[k] \in Int
    BY <1>4
  <2> HIDE DEF n, w
  <2>2. Telescopes(w, n)
    BY <1>1, <2>1, SumSteps
  <2> QED BY <2>2 DEF Telescopes
<1> DEFINE Kept(r, k) == \A p \in Pools : (\A j \in 1 .. k : subs[j].pool # p) => r[p] = start.res[p]
           G == {k \in 0 .. n : /\ g[k] \in RouteStates /\ g[k].ok /\ g[k].got = SumOver(w, 1 .. k)
                                /\ Kept(g[k].res, k)}
<1>6. 0 \in G
  <2>1. g[0] \in RouteStates /\ g[0].ok /\ g[0].got = 0 /\ g[0].res = start.res
    BY <1>3 DEF RouteStates
  <2>2. Kept(g[0].res, 0)
    BY <2>1
  <2>3. 0 \in 0 .. n
    BY <1>1
  <2> HIDE DEF Kept, w, n
  <2> QED BY <1>5, <2>1, <2>2, <2>3
<1>7. ASSUME NEW k \in 0 .. n - 1, k \in G PROVE k + 1 \in G
  <2> DEFINE sub == gs[k + 1]
             x == Paid(g[k].res, sub.pool, dir, sub.in)
  <2>1. k + 1 \in 1 .. n /\ k + 1 \in 0 .. n /\ k + 1 - 1 = k
    BY <1>1
  <2>2. g[k] \in RouteStates /\ g[k].ok /\ g[k].got = SumOver(w, 1 .. k) /\ Kept(g[k].res, k)
    <3> HIDE DEF Kept, w
    <3> QED BY <1>7
  <2>3. sub \in Given /\ sub.pool = subs[k + 1].pool /\ sub.in = subs[k + 1].in /\ subs[k + 1] \in LegParts
    BY <1>1, <2>1
  <2>4. sub.pool \in Pools /\ sub.in > 0
    <3> HIDE DEF sub
    <3> QED BY <2>3 DEF LegParts
  <2>5. g[k].res[sub.pool] = R[sub.pool]
    <3>1. \A j \in 1 .. k : subs[j].pool # subs[k + 1].pool
      <4> TAKE j \in 1 .. k
      <4>1. j \in 1 .. n /\ j # k + 1
        BY <1>1, <2>1
      <4> QED BY <2>1, <4>1
    <3>2. start.res[subs[k + 1].pool] = R[subs[k + 1].pool]
      BY <2>1
    <3> HIDE DEF sub
    <3> QED BY <2>2, <2>3, <2>4, <3>1, <3>2
  <2>6. x = subs[k + 1].out
    <3>1. subs[k + 1].out = Paid(R, subs[k + 1].pool, dir, subs[k + 1].in)
      BY <2>1 DEF PaysBy
    <3>2. x = Paid(R, sub.pool, dir, sub.in)
      <4> HIDE DEF sub
      <4> QED BY <2>5 DEF Paid
    <3> HIDE DEF x, sub
    <3> QED BY <2>3, <3>1, <3>2
  <2>7. x > 0 /\ x = w[k + 1]
    <3> HIDE DEF x, w
    <3> QED BY <1>4, <2>1, <2>6
  <2>8. /\ g[k + 1] \in RouteStates /\ g[k + 1].ok /\ g[k + 1].got = g[k].got + x
        /\ \A t \in Pools : t # sub.pool => g[k + 1].res[t] = g[k].res[t]
    <3>1. g[k + 1] = Through(g[k], dir, sub)
      BY <1>3
    <3>2. /\ Through(g[k], dir, sub) \in RouteStates
          /\ Through(g[k], dir, sub).ok
          /\ Through(g[k], dir, sub).got = g[k].got + x
          /\ \A t \in Pools : t # sub.pool => Through(g[k], dir, sub).res[t] = g[k].res[t]
      <4> HIDE DEF sub
      <4> QED BY <2>2, <2>3, <2>4, <2>7, ThroughIs
    <3> HIDE DEF x, sub
    <3> QED BY <3>1, <3>2
  <2>9. g[k + 1].got = SumOver(w, 1 .. k + 1)
    <3>1. SumOver(w, 1 .. k + 1) = SumOver(w, 1 .. k) + w[k + 1]
      <4> HIDE DEF w
      <4> QED BY <1>5
    <3> HIDE DEF x, w
    <3> QED BY <2>1, <2>2, <2>7, <2>8, <3>1
  <2>10. Kept(g[k + 1].res, k + 1)
    <3> SUFFICES ASSUME NEW p \in Pools, \A j \in 1 .. k + 1 : subs[j].pool # p
                 PROVE g[k + 1].res[p] = start.res[p]
      OBVIOUS
    <3>1. p # sub.pool
      <4>1. k + 1 \in 1 .. k + 1
        OBVIOUS
      <4> QED BY <2>3, <4>1
    <3>2. \A j \in 1 .. k : subs[j].pool # p
      <4> TAKE j \in 1 .. k
      <4>1. j \in 1 .. k + 1
        OBVIOUS
      <4> QED BY <4>1
    <3> HIDE DEF sub
    <3> QED BY <2>2, <2>8, <3>1, <3>2
  <2> HIDE DEF Kept, w
  <2> QED BY <2>1, <2>8, <2>9, <2>10
<1>8. n \in G
  <2> HIDE DEF G
  <2>1. n \in 0 .. n
    BY <1>1
  <2> QED BY <1>1, <1>6, <1>7, <2>1, UpTo
<1>9. g[n] \in RouteStates /\ g[n].ok /\ g[n].got = SumOver(w, 1 .. n) /\ Kept(g[n].res, n)
  <2> HIDE DEF Kept, w
  <2> QED BY <1>8
<1> HIDE DEF w
<1> QED BY <1>2, <1>4, <1>9

LEMMA SumAtLeast ==
  ASSUME NEW subs \in Seq(LegParts), NEW f \in {"in", "out"}
  PROVE /\ Sum(subs, f) \in Nat /\ Sum(subs, f) >= Len(subs)
        /\ Len(subs) = 1 => Sum(subs, f) = subs[1][f]
<1> DEFINE n == Len(subs)
           w == FieldOf(subs, f)
<1>1. /\ n \in Nat /\ Sum(subs, f) = SumOver(w, 1 .. n)
      /\ \A k \in 1 .. n : w[k] = subs[k][f] /\ subs[k][f] \in Nat \ {0}
  BY LegSums
<1> HIDE DEF n, w
<1>2. Telescopes(w, n)
  <2>1. \A k \in 1 .. n : w[k] \in Int
    BY <1>1
  <2> QED BY <1>1, <2>1, SumSteps
<1> DEFINE G == {k \in 0 .. n : SumOver(w, 1 .. k) >= k}
<1>3. 0 \in G
  BY <1>1, <1>2 DEF Telescopes
<1>4. ASSUME NEW k \in 0 .. n - 1, k \in G PROVE k + 1 \in G
  <2>1. k + 1 \in 1 .. n /\ k + 1 \in 0 .. n /\ k \in 0 .. n /\ SumOver(w, 1 .. k) >= k
    BY <1>1, <1>4
  <2>2. SumOver(w, 1 .. k) \in Int /\ SumOver(w, 1 .. k + 1) = SumOver(w, 1 .. k) + w[k + 1]
    BY <1>2, <2>1 DEF Telescopes
  <2>3. w[k + 1] \in Nat \ {0}
    BY <1>1, <2>1
  <2> QED BY <2>1, <2>2, <2>3
<1>5. n \in G
  <2> HIDE DEF G
  <2>1. n \in 0 .. n
    BY <1>1
  <2> QED BY <1>1, <1>3, <1>4, <2>1, UpTo
<1>6. SumOver(w, 1 .. n) \in Int
  <2>1. n \in 0 .. n
    BY <1>1
  <2> QED BY <1>2, <2>1 DEF Telescopes
<1>7. ASSUME n = 1 PROVE SumOver(w, 1 .. n) = subs[1][f]
  <2>1. 0 \in 0 .. n - 1 /\ 0 + 1 = 1 /\ 1 \in 1 .. n
    BY <1>7
  <2>2. SumOver(w, 1 .. 0 + 1) = SumOver(w, 1 .. 0) + w[0 + 1]
    BY <1>2, <2>1, Zenon DEF Telescopes
  <2>3. SumOver(w, 1 .. 0) = 0
    BY <1>2 DEF Telescopes
  <2>4. w[1] = subs[1][f] /\ w[1] \in Nat
    BY <1>1, <2>1
  <2> QED BY <1>7, <2>1, <2>2, <2>3, <2>4
<1> QED BY <1>1, <1>5, <1>6, <1>7 DEF n

\* A leg as the bot keeps it: sound, and every part pays by the market it tells.
LegSet == [subs : Seq(LegParts), in : Nat, out : Nat, state : Nat, age : Nat]
LegOk(leg, dir) ==
  /\ leg \in LegSet
  /\ leg.subs # <<>> /\ leg.in # 0
  /\ leg.state \in DOMAIN Markets
  /\ Sum(leg.subs, "in") = leg.in /\ Sum(leg.subs, "out") = leg.out
  /\ PaysBy(leg.subs, dir, Markets[leg.state])

LEMMA MarketsAre ==
  /\ Len(Markets) \in Nat \ {0} /\ DOMAIN Markets = 1 .. Len(Markets)
  /\ \A i \in DOMAIN Markets : Markets[i] \in Stocks
<1>1. Markets \in Seq(Stocks) /\ Markets # <<>>
  BY OpportunityAssumption DEF OpportunityAssumption, Stocks
<1> QED BY <1>1

\* The equal parts of an amount, the rest to the last.
LEMMA EqualParts ==
  ASSUME NEW a \in Nat, NEW n \in Nat \ {0}
  PROVE a \div n \in Nat /\ a - (n - 1) * (a \div n) \in Nat
<1> DEFINE y == a \div n
<1>1. y \in Nat /\ n * y <= a
  OBVIOUS
<1> HIDE DEF y
<1>2. (n - 1) * y = n * y - y /\ n * y \in Nat
  BY <1>1
<1> QED BY <1>1, <1>2 DEF y

LEMMA QuotedLegIs ==
  ASSUME NEW dir \in Ways, NEW a \in Nat, NEW ps \in Routings, NEW i \in DOMAIN Markets, NEW age \in Nat,
         \A k \in DOMAIN LegQuote(dir, a, ps, i, age).subs : LegQuote(dir, a, ps, i, age).subs[k].out > 0
  PROVE LET x == LegQuote(dir, a, ps, i, age)
        IN /\ x = [subs |-> x.subs, in |-> a, out |-> x.out, state |-> i, age |-> age]
           /\ x.subs \in Seq(LegParts) /\ x.subs # <<>>
           /\ PaysBy(x.subs, dir, Markets[i])
           /\ x.out = Sum(x.subs, "out")
<1> DEFINE n == Len(ps)
           part(k) == IF k < n THEN a \div n ELSE a - (n - 1) * (a \div n)
           subs == [k \in 1 .. n |-> [pool |-> ps[k], in |-> part(k),
                                      out |-> Paid(Markets[i], ps[k], dir, part(k))]]
           x == LegQuote(dir, a, ps, i, age)
<1>1. x = [subs |-> subs, in |-> a, out |-> Sum(subs, "out"), state |-> i, age |-> age]
  BY DEF LegQuote
<1>2. n \in Nat \ {0} /\ \A k \in 1 .. n : ps[k] \in Pools
  <2>1. ps \in Seq(Pools) /\ ps # <<>>
    BY OpportunityAssumption DEF OpportunityAssumption
  <2> QED BY <2>1
<1>3. Markets[i] \in Stocks
  BY MarketsAre
<1>4. \A k \in 1 .. n : part(k) \in Nat
  <2> HIDE DEF n
  <2> QED BY <1>2, EqualParts
<1> HIDE DEF part
<1>5. DOMAIN subs = 1 .. n /\ \A k \in 1 .. n : subs[k].out > 0
  <2>1. x.subs = subs
    <3> HIDE DEF subs, x
    <3> QED BY <1>1
  <2>2. DOMAIN subs = 1 .. n
    OBVIOUS
  <2> HIDE DEF subs
  <2> QED BY <2>1, <2>2
<1>6. ASSUME NEW k \in 1 .. n PROVE subs[k] \in LegParts /\ subs[k].out = Paid(Markets[i], subs[k].pool, dir, subs[k].in)
  <2> DEFINE y == Paid(Markets[i], ps[k], dir, part(k))
  <2>1. subs[k] = [pool |-> ps[k], in |-> part(k), out |-> y]
    OBVIOUS
  <2>2. part(k) \in Nat /\ ps[k] \in Pools /\ subs[k].out > 0
    BY <1>2, <1>4, <1>5
  <2>3. y \in Nat /\ (part(k) = 0 => y = 0)
    BY <1>3, <2>2, PaidIs
  <2> HIDE DEF subs, y
  <2>4. y > 0
    BY <2>1, <2>2
  <2>5. part(k) # 0
    BY <2>3, <2>4
  <2>6. subs[k] \in LegParts
    BY <2>1, <2>2, <2>3, <2>4, <2>5 DEF LegParts
  <2> QED BY <2>1, <2>6 DEF y
<1> HIDE DEF subs
<1>7. subs \in Seq(LegParts) /\ Len(subs) = n /\ subs # <<>>
  <2>1. subs = [k \in 1 .. n |-> subs[k]]
    BY DEF subs
  <2>2. subs \in [1 .. n -> LegParts]
    BY <1>6, <2>1
  <2> HIDE DEF n
  <2> QED BY <1>2, <1>5, <2>2
<1>8. PaysBy(subs, dir, Markets[i])
  BY <1>6, <1>7 DEF PaysBy
<1> QED BY <1>1, <1>7, <1>8

\* Whatever the API answers: a leg the bot keeps is as it should be.
LEMMA AnswerIs ==
  ASSUME market \in DOMAIN Markets, NEW dir \in Ways, NEW onChain, NEW a \in Nat \ {0},
         NEW leg \in Answers(dir, onChain, a), leg # None, Sound(leg, a)
  PROVE LegOk(leg, dir) /\ leg.in = a
<1>1. PICK ps \in Routings, b \in 0 .. Least(1, market - 1) :
        LET x == LegQuote(dir, a, ps, IF onChain THEN market ELSE market - b, b)
        IN /\ \A k \in DOMAIN x.subs : x.subs[k].out > 0
           /\ leg = x \/ leg = [x EXCEPT !.subs = Front(@)]
  BY DEF Answers
<1> DEFINE i == IF onChain THEN market ELSE market - b
           x == LegQuote(dir, a, ps, i, b)
<1>2. i \in DOMAIN Markets /\ b \in Nat
  BY MarketsAre DEF Least
<1>3. /\ x = [subs |-> x.subs, in |-> a, out |-> x.out, state |-> i, age |-> b]
      /\ x.subs \in Seq(LegParts) /\ x.subs # <<>>
      /\ PaysBy(x.subs, dir, Markets[i])
      /\ x.out = Sum(x.subs, "out")
  <2>1. \A k \in DOMAIN x.subs : x.subs[k].out > 0
    BY <1>1
  <2> HIDE DEF i
  <2> QED BY <1>2, <2>1, QuotedLegIs
<1>4. leg = x \/ leg = [x EXCEPT !.subs = Front(@)]
  BY <1>1
<1> HIDE DEF x, i
<1>5. x.out \in Nat
  BY <1>3, SumAtLeast
<1>6. \E s \in Seq(LegParts) :
        /\ leg = [subs |-> s, in |-> a, out |-> x.out, state |-> i, age |-> b]
        /\ PaysBy(s, dir, Markets[i])
  <2>1. CASE leg = x
    BY <1>3, <2>1
  <2>2. CASE leg = [x EXCEPT !.subs = Front(@)]
    <3> DEFINE s == Front(x.subs)
               n == Len(x.subs) - 1
    <3>1. n \in Nat /\ s \in Seq(LegParts) /\ Len(s) = n /\ \A k \in 1 .. n : s[k] = x.subs[k]
      <4>1. PICK y \in Seq(LegParts) : y = x.subs /\ y # <<>>
        BY <1>3
      <4>2. SubSeq(y, 1, Len(y) - 1) \in Seq(LegParts) /\ Len(SubSeq(y, 1, Len(y) - 1)) = Len(y) - 1
        BY <4>1
      <4>3. \A k \in 1 .. Len(y) - 1 : SubSeq(y, 1, Len(y) - 1)[k] = y[k]
        BY <4>1
      <4>4. Len(y) - 1 \in Nat
        BY <4>1
      <4> QED BY <4>1, <4>2, <4>3, <4>4 DEF Front
    <3>2. leg = [subs |-> s, in |-> a, out |-> x.out, state |-> i, age |-> b]
      <4> HIDE DEF s
      <4>1. leg = [x EXCEPT !.subs = s]
        BY <2>2 DEF s
      <4>2. PICK y : x = [subs |-> y, in |-> a, out |-> x.out, state |-> i, age |-> b]
        BY <1>3
      <4> QED BY <4>1, <4>2
    <3>3. PaysBy(s, dir, Markets[i])
      <4> HIDE DEF s
      <4>1. \A k \in 1 .. n : k \in 1 .. Len(x.subs)
        BY <3>1
      <4> QED BY <1>3, <3>1, <4>1 DEF PaysBy
    <3> HIDE DEF s
    <3> QED BY <3>1, <3>2, <3>3
  <2> QED BY <1>4, <2>1, <2>2
<1>7. PICK s \in Seq(LegParts) :
        /\ leg = [subs |-> s, in |-> a, out |-> x.out, state |-> i, age |-> b]
        /\ PaysBy(s, dir, Markets[i])
  BY <1>6
<1>8. leg \in LegSet /\ leg.subs = s /\ leg.in = a /\ leg.state = i
  <2>1. i \in Nat
    BY <1>2, MarketsAre
  <2> QED BY <1>2, <1>5, <1>7, <2>1 DEF LegSet
<1> QED BY <1>2, <1>7, <1>8 DEF LegOk, Sound

\* The parts of several legs, one after the other: the function FlattenSeq
\* computes.
Flattens(g, ss, n) == g = [k \in 1 .. n |-> IF k = 1 THEN ss[k] ELSE g[k - 1] \o ss[k]]
Appends(g, ss, n) ==
  /\ g[1] = ss[1]
  /\ \A k \in 1 .. n - 1 : g[k + 1] = g[k] \o ss[k + 1]

LEMMA FlattenRuns ==
  ASSUME NEW ss, Len(ss) \in Nat \ {0}
  PROVE \E g : Appends(g, ss, Len(ss)) /\ FlattenSeq(ss) = g[Len(ss)]
<1> DEFINE n == Len(ss)
           G == {m \in 0 .. n - 1 : \E g : Flattens(g, ss, m + 1)}
<1>1. 0 \in G
  <2> DEFINE g == [k \in 1 .. 1 |-> ss[1]]
             h == [k \in 1 .. 1 |-> IF k = 1 THEN ss[k] ELSE g[k - 1] \o ss[k]]
  <2>1. g = h
    OBVIOUS
  <2>2. Flattens(g, ss, 1)
    BY <2>1 DEF Flattens
  <2> HIDE DEF g
  <2>3. 0 + 1 = 1 /\ 0 \in 0 .. n - 1
    OBVIOUS
  <2> QED BY <2>2, <2>3
<1>2. ASSUME NEW m \in 0 .. (n - 1) - 1, m \in G PROVE m + 1 \in G
  <2>1. PICK g : Flattens(g, ss, m + 1)
    BY <1>2
  <2>2. PICK l \in Nat : l = m + 2
    OBVIOUS
  <2> DEFINE e == g[l - 1] \o ss[l]
             h == [k \in 1 .. l |-> IF k = l THEN e ELSE g[k]]
             f == [k \in 1 .. l |-> IF k = 1 THEN ss[k] ELSE h[k - 1] \o ss[k]]
  <2>3. m + 1 = l - 1 /\ l # 1 /\ l - 1 \in 1 .. l /\ l - 1 # l /\ (m + 1) + 1 = l
    BY <2>2
  <2>4. ASSUME NEW k \in 1 .. l PROVE h[k] = f[k]
    <3>1. CASE k = l
      <4>1. h[k - 1] = g[l - 1]
        BY <2>3, <3>1
      <4> QED BY <2>3, <3>1, <4>1
    <3>2. CASE k # l
      <4>1. k \in 1 .. l - 1 /\ h[k] = g[k]
        BY <3>2
      <4>2. k # 1 => k - 1 \in 1 .. l /\ k - 1 # l
        BY <4>1
      <4>3. k # 1 => h[k - 1] = g[k - 1]
        BY <4>2
      <4>4. g[k] = IF k = 1 THEN ss[k] ELSE g[k - 1] \o ss[k]
        BY <2>1, <2>3, <4>1 DEF Flattens
      <4>5. f[k] = IF k = 1 THEN ss[k] ELSE h[k - 1] \o ss[k]
        OBVIOUS
      <4> HIDE DEF h, f
      <4> QED BY <4>1, <4>3, <4>4, <4>5
    <3> QED BY <3>1, <3>2
  <2>5. h = f
    <3>1. h = [k \in 1 .. l |-> h[k]] /\ f = [k \in 1 .. l |-> f[k]]
      OBVIOUS
    <3> HIDE DEF h, f
    <3>2. [k \in 1 .. l |-> h[k]] = [k \in 1 .. l |-> f[k]]
      BY <2>4
    <3> QED BY <3>1, <3>2
  <2>6. Flattens(h, ss, l)
    <3> HIDE DEF h
    <3> QED BY <2>5 DEF Flattens
  <2> HIDE DEF h
  <2>7. m + 1 \in 0 .. n - 1
    OBVIOUS
  <2> HIDE DEF n
  <2>8. \E y : Flattens(y, ss, (m + 1) + 1)
    BY <2>3, <2>6
  <2> QED BY <2>7, <2>8
<1>3. n - 1 \in G
  <2> HIDE DEF G
  <2>1. n - 1 \in 0 .. n - 1 /\ n - 1 \in Nat
    OBVIOUS
  <2> DEFINE e == n - 1
  <2> HIDE DEF e
  <2>2. e \in Nat /\ e \in 0 .. e
    BY <2>1 DEF e
  <2>3. \A m \in 0 .. e - 1 : m \in G => m + 1 \in G
    BY <1>2 DEF e
  <2>4. e \in G
    BY <1>1, <2>2, <2>3, UpTo
  <2> QED BY <2>4 DEF e
<1>4. \E g : Flattens(g, ss, n)
  <2>1. (n - 1) + 1 = n
    OBVIOUS
  <2> HIDE DEF n
  <2> QED BY <1>3, <2>1
<1> DEFINE c == CHOOSE g : Flattens(g, ss, n)
<1>5. Flattens(c, ss, n)
  BY <1>4
<1>6. FlattenSeq(ss) = c[n]
  BY DEF FlattenSeq, Flattens
<1> HIDE DEF c
<1>7. PICK h : Flattens(h, ss, n) /\ FlattenSeq(ss) = h[n]
  BY <1>5, <1>6
<1>8. h[1] = ss[1]
  <2>1. 1 \in 1 .. n
    OBVIOUS
  <2> QED BY <1>7, <2>1 DEF Flattens
<1>9. ASSUME NEW k \in 1 .. n - 1 PROVE h[k + 1] = h[k] \o ss[k + 1]
  <2>1. PICK j \in Nat : j = k + 1
    OBVIOUS
  <2>2. j \in 1 .. n /\ j # 1 /\ j - 1 = k
    BY <2>1
  <2> HIDE DEF n
  <2>3. h[j] = h[j - 1] \o ss[j]
    BY <1>7, <2>2 DEF Flattens
  <2> QED BY <2>1, <2>2, <2>3
<1>10. Appends(h, ss, n)
  BY <1>8, <1>9 DEF Appends
<1> QED BY <1>7, <1>10

\* What the parts of the legs bs are together.
Joins(s, bs, m) ==
  /\ s \in Seq(LegParts) /\ Len(s) >= m
  /\ \A f \in {"in", "out"} : Sum(s, f) = SumOver(FieldOf(bs, f), 1 .. m)
  /\ \A j \in 1 .. Len(s) : \E i \in 1 .. m : \E l \in 1 .. Len(bs[i].subs) : s[j] = bs[i].subs[l]
  /\ Len(s) = m => \A k \in 1 .. m : Len(bs[k].subs) = 1 /\ s[k] = bs[k].subs[1]

LEMMA JoinOne ==
  ASSUME NEW bs \in Seq(LegSet), bs # <<>>,
         \A k \in 1 .. Len(bs) : LegOk(bs[k], "back")
  PROVE Joins(bs[1].subs, bs, 1)
<1> DEFINE b == bs[1]
           s == b.subs
<1>1. 1 \in 1 .. Len(bs) /\ Len(bs) \in Nat /\ DOMAIN bs = 1 .. Len(bs)
  OBVIOUS
<1>2. LegOk(b, "back") /\ s \in Seq(LegParts) /\ s # <<>>
  BY <1>1 DEF LegOk, LegSet
<1>3. Len(s) \in Nat /\ Len(s) >= 1 /\ 1 \in 1 .. 1
  BY <1>2
<1>4. ASSUME NEW f \in {"in", "out"} PROVE Sum(s, f) = SumOver(FieldOf(bs, f), 1 .. 1)
  <2> DEFINE w == FieldOf(bs, f)
  <2>1. w[1] = Sum(s, f) /\ w[1] \in Int
    <3>1. w[1] = b[f]
      BY <1>1 DEF FieldOf
    <3>2. b[f] = Sum(s, f)
      BY <1>2 DEF LegOk
    <3>3. b[f] \in Nat
      BY <1>2 DEF LegOk, LegSet
    <3> HIDE DEF w, b
    <3> QED BY <3>1, <3>2, <3>3
  <2> HIDE DEF w
  <2>2. Telescopes(w, 1)
    <3>1. \A k \in 1 .. 1 : w[k] \in Int
      BY <2>1
    <3> QED BY <3>1, SumSteps
  <2>3. SumOver(w, 1 .. 0 + 1) = SumOver(w, 1 .. 0) + w[0 + 1] /\ SumOver(w, 1 .. 0) = 0
    <3>1. 0 \in 0 .. 1 - 1
      OBVIOUS
    <3> QED BY <2>2, <3>1, Zenon DEF Telescopes
  <2>4. 0 + 1 = 1
    OBVIOUS
  <2>5. SumOver(w, 1 .. 1) = 0 + w[1]
    BY <2>3, <2>4
  <2>6. SumOver(w, 1 .. 1) = w[1]
    BY <2>1, <2>5
  <2> QED BY <2>1, <2>6 DEF w
<1>5. \A j \in 1 .. Len(s) : \E i \in 1 .. 1 : \E l \in 1 .. Len(bs[i].subs) : s[j] = bs[i].subs[l]
  BY <1>3
<1>6. Len(s) = 1 => \A k \in 1 .. 1 : Len(bs[k].subs) = 1 /\ s[k] = bs[k].subs[1]
  OBVIOUS
<1> QED BY <1>2, <1>3, <1>4, <1>5, <1>6 DEF Joins

LEMMA JoinNext ==
  ASSUME NEW bs \in Seq(LegSet), NEW m \in 1 .. Len(bs) - 1, NEW s, Joins(s, bs, m),
         \A k \in 1 .. Len(bs) : LegOk(bs[k], "back")
  PROVE Joins(s \o bs[m + 1].subs, bs, m + 1)
<1> DEFINE b == bs[m + 1]
           t == b.subs
           r == s \o t
<1>1. m + 1 \in 1 .. Len(bs) /\ Len(bs) \in Nat /\ DOMAIN bs = 1 .. Len(bs) /\ m \in Nat
  OBVIOUS
<1>2. LegOk(b, "back") /\ t \in Seq(LegParts) /\ t # <<>>
  BY <1>1 DEF LegOk, LegSet
<1>3. s \in Seq(LegParts) /\ Len(s) >= m
  BY DEF Joins
<1>4. Len(t) \in Nat /\ Len(t) >= 1
  BY <1>2
<1> HIDE DEF t
<1>5. /\ r \in Seq(LegParts) /\ Len(r) = Len(s) + Len(t) /\ Len(s) \in Nat /\ Len(r) >= m + 1
      /\ \A j \in 1 .. Len(s) : r[j] = s[j]
      /\ \A j \in 1 .. Len(t) : r[Len(s) + j] = t[j]
  BY <1>1, <1>2, <1>3, <1>4
<1>6. ASSUME NEW f \in {"in", "out"} PROVE Sum(r, f) = SumOver(FieldOf(bs, f), 1 .. m + 1)
  <2> DEFINE w == FieldOf(bs, f)
  <2>1. ASSUME NEW k \in 1 .. Len(bs) PROVE w[k] = bs[k][f] /\ bs[k][f] = Sum(bs[k].subs, f) /\ bs[k][f] \in Nat
    <3>1. w[k] = bs[k][f]
      BY <1>1 DEF FieldOf
    <3>2. LegOk(bs[k], "back")
      OBVIOUS
    <3>3. bs[k][f] = Sum(bs[k].subs, f) /\ bs[k][f] \in Nat
      BY <3>2 DEF LegOk, LegSet
    <3> QED BY <3>1, <3>3
  <2>2. w[m + 1] = Sum(t, f) /\ w[m + 1] \in Int
    <3> HIDE DEF w
    <3> QED BY <1>1, <2>1 DEF t
  <2> HIDE DEF w
  <2>3. Telescopes(w, Len(bs))
    <3>1. \A k \in 1 .. Len(bs) : w[k] \in Int
      BY <2>1
    <3> QED BY <1>1, <3>1, SumSteps
  <2>4. SumOver(w, 1 .. m + 1) = SumOver(w, 1 .. m) + w[m + 1]
    <3>1. m \in 0 .. Len(bs) - 1
      BY <1>1
    <3> QED BY <2>3, <3>1 DEF Telescopes
  <2>5. Sum(s, f) = SumOver(w, 1 .. m)
    BY DEF Joins, w
  <2>6. Sum(r, f) = Sum(s, f) + Sum(t, f)
    BY <1>2, <1>3, SumJoined
  <2>7. Sum(r, f) = SumOver(w, 1 .. m + 1)
    BY <2>2, <2>4, <2>5, <2>6
  <2> QED BY <2>7 DEF w
<1>7. ASSUME NEW j \in 1 .. Len(r)
      PROVE \E i \in 1 .. m + 1 : \E l \in 1 .. Len(bs[i].subs) : r[j] = bs[i].subs[l]
  <2>1. CASE j <= Len(s)
    <3>1. j \in 1 .. Len(s) /\ r[j] = s[j]
      BY <1>5, <2>1
    <3>2. PICK i \in 1 .. m : \E l \in 1 .. Len(bs[i].subs) : s[j] = bs[i].subs[l]
      BY <3>1 DEF Joins
    <3>3. i \in 1 .. m + 1
      OBVIOUS
    <3> HIDE DEF r
    <3> QED BY <3>1, <3>2, <3>3
  <2>2. CASE ~ (j <= Len(s))
    <3>1. PICK l \in 1 .. Len(t) : j = Len(s) + l
      <4>1. j - Len(s) \in 1 .. Len(t) /\ j = Len(s) + (j - Len(s))
        BY <1>4, <1>5, <2>2
      <4> QED BY <4>1
    <3>2. r[j] = t[l]
      BY <1>5, <3>1
    <3>3. m + 1 \in 1 .. m + 1
      BY <1>1
    <3> HIDE DEF r
    <3> QED BY <3>2, <3>3 DEF t
  <2> QED BY <2>1, <2>2
<1>8. ASSUME Len(r) = m + 1, NEW k \in 1 .. m + 1 PROVE Len(bs[k].subs) = 1 /\ r[k] = bs[k].subs[1]
  <2>1. Len(s) = m /\ Len(t) = 1
    <3>1. Len(r) = m + 1 /\ Len(r) = Len(s) + Len(t) /\ Len(s) \in Nat
      BY <1>5, <1>8
    <3>2. Len(s) >= m /\ Len(t) >= 1 /\ m \in Nat /\ Len(t) \in Nat
      BY <1>1, <1>3, <1>4
    <3>3. \A x, y, z \in Nat : x + y = z + 1 /\ x >= z /\ y >= 1 => x = z /\ y = 1
      OBVIOUS
    <3> HIDE DEF r
    <3> QED BY <3>1, <3>2, <3>3
  <2>2. CASE k = m + 1
    <3>1. r[Len(s) + 1] = t[1]
      BY <1>5, <2>1
    <3> HIDE DEF r
    <3> QED BY <2>1, <2>2, <3>1 DEF t
  <2>3. CASE k # m + 1
    <3>1. k \in 1 .. m
      BY <1>1, <2>3
    <3>2. r[k] = s[k]
      BY <1>5, <2>1, <3>1
    <3> HIDE DEF r
    <3> QED BY <2>1, <3>1, <3>2 DEF Joins
  <2> QED BY <2>2, <2>3
<1> HIDE DEF r
<1>9. Joins(r, bs, m + 1)
  BY <1>5, <1>6, <1>7, <1>8 DEF Joins
<1> QED BY <1>9 DEF r, t

LEMMA JoinAll ==
  ASSUME NEW bs \in Seq(LegSet), bs # <<>>,
         \A k \in 1 .. Len(bs) : LegOk(bs[k], "back")
  PROVE Joins(FlattenSeq([k \in DOMAIN bs |-> bs[k].subs]), bs, Len(bs))
<1> DEFINE n == Len(bs)
           ss == [k \in DOMAIN bs |-> bs[k].subs]
<1>1. n \in Nat \ {0} /\ Len(ss) = n /\ \A k \in 1 .. n : ss[k] = bs[k].subs
  OBVIOUS
<1> HIDE DEF ss
<1>2. PICK g : Appends(g, ss, n) /\ FlattenSeq(ss) = g[n]
  BY <1>1, FlattenRuns
<1> DEFINE G == {m \in 0 .. n - 1 : Joins(g[m + 1], bs, m + 1)}
<1>3. 0 \in G
  <2>1. g[1] = bs[1].subs
    BY <1>1, <1>2 DEF Appends
  <2>2. Joins(g[1], bs, 1)
    BY <2>1, JoinOne
  <2>3. 0 + 1 = 1 /\ 0 \in 0 .. n - 1
    BY <1>1
  <2> HIDE DEF n
  <2> QED BY <2>2, <2>3
<1>4. ASSUME NEW m \in 0 .. (n - 1) - 1, m \in G PROVE m + 1 \in G
  <2>1. PICK l \in Nat : l = m + 1
    OBVIOUS
  <2>2. l \in 1 .. n - 1 /\ l \in 0 .. n - 1 /\ l + 1 \in 1 .. n
    BY <1>1, <2>1
  <2>3. g[l + 1] = g[l] \o bs[l + 1].subs
    BY <1>1, <1>2, <2>2 DEF Appends
  <2>4. Joins(g[l], bs, l)
    BY <1>4, <2>1
  <2>5. Joins(g[l + 1], bs, l + 1)
    BY <2>2, <2>3, <2>4, JoinNext
  <2> QED BY <2>1, <2>2, <2>5
<1>5. n - 1 \in G
  <2> HIDE DEF G
  <2> DEFINE e == n - 1
  <2>2. e \in Nat /\ e \in 0 .. e
    BY <1>1
  <2> HIDE DEF e
  <2>3. \A m \in 0 .. e - 1 : m \in G => m + 1 \in G
    BY <1>4 DEF e
  <2>4. e \in G
    BY <1>3, <2>2, <2>3, UpTo
  <2> QED BY <2>4 DEF e
<1>6. Joins(g[n], bs, n)
  <2>1. (n - 1) + 1 = n
    BY <1>1
  <2> HIDE DEF n
  <2> QED BY <1>5, <2>1
<1> QED BY <1>2, <1>6 DEF ss

\* A round trip the bot can settle as it is quoted.
Matched(q) ==
  Len(q.there.subs) = Len(q.back.subs) /\ Len(q.there.subs) > 1 =>
    \A k \in 1 .. Len(q.there.subs) : q.there.subs[k].out = q.back.subs[k].in
TripOk(q) ==
  /\ q.amount \in Nat \ {0}
  /\ LegOk(q.there, "there") /\ q.there.in = q.amount
  /\ q.back.subs \in Seq(LegParts) /\ q.back.subs # <<>>
  /\ Sum(q.back.subs, "in") = q.there.out /\ Sum(q.back.subs, "out") = q.back.out
  /\ Matched(q)
  /\ \A i \in DOMAIN Markets : (\A leg \in q.told : leg.state = i) =>
       PaysBy(q.there.subs, "there", Markets[i]) /\ PaysBy(q.back.subs, "back", Markets[i])

\* The legs of a trip that is being quoted: the first n inputs of leg_back are.
Quoting(t, n) ==
  /\ LegOk(t.there, "there") /\ t.there.in = t.amount
  /\ t.backs \in Seq(LegSet) /\ Len(t.backs) = n
  /\ \A k \in 1 .. n : LegOk(t.backs[k], "back") /\ t.backs[k].in = BackInputs(t.there)[k]

\* There is an input of leg_back for every part of leg_out.
LEMMA BackInputsAre ==
  ASSUME NEW leg, LegOk(leg, "there")
  PROVE /\ Len(BackInputs(leg)) = Len(leg.subs) /\ Len(leg.subs) \in Nat \ {0}
        /\ leg.out \in Nat \ {0}
        /\ \A k \in 1 .. Len(leg.subs) : /\ BackInputs(leg)[k] = leg.subs[k].out
                                         /\ leg.subs[k].out \in Nat \ {0}
<1> DEFINE n == Len(leg.subs)
<1>1. leg.subs \in Seq(LegParts) /\ n \in Nat \ {0} /\ DOMAIN leg.subs = 1 .. n
  BY DEF LegOk, LegSet
<1>2. leg.out = Sum(leg.subs, "out")
  BY DEF LegOk
<1>3. /\ Sum(leg.subs, "out") \in Nat /\ Sum(leg.subs, "out") >= n
      /\ n = 1 => Sum(leg.subs, "out") = leg.subs[1].out
  BY <1>1, SumAtLeast
<1>4. \A k \in 1 .. n : leg.subs[k].out \in Nat \ {0}
  BY <1>1, LegSums
<1> HIDE DEF n
<1>5. CASE n = 1
  <2>1. BackInputs(leg) = <<leg.out>>
    BY <1>5 DEF BackInputs, n
  <2>2. Len(<<leg.out>>) = 1 /\ <<leg.out>>[1] = leg.out
    OBVIOUS
  <2>3. \A k \in 1 .. n : k = 1
    BY <1>5
  <2> QED BY <1>1, <1>2, <1>3, <1>4, <1>5, <2>1, <2>2, <2>3 DEF n
<1>6. CASE n # 1
  <2>1. BackInputs(leg) = [k \in DOMAIN leg.subs |-> leg.subs[k].out]
    BY <1>1, <1>6 DEF BackInputs, n
  <2>2. BackInputs(leg) = [k \in 1 .. n |-> leg.subs[k].out]
    BY <1>1, <2>1
  <2>3. Len(BackInputs(leg)) = n /\ \A k \in 1 .. n : BackInputs(leg)[k] = leg.subs[k].out
    BY <1>1, <2>2
  <2> QED BY <1>1, <1>2, <1>3, <1>4, <2>3 DEF n
<1> QED BY <1>5, <1>6

\* Once all of them are, the trip is one the bot can settle as it is quoted.
LEMMA QuotedTripIs ==
  ASSUME NEW t, t.amount \in Nat \ {0}, Quoting(t, Len(BackInputs(t.there)))
  PROVE TripOk(QuotedTrip(t, t.backs)) /\ QuotedTrip(t, t.backs).amount = t.amount
<1> DEFINE q == QuotedTrip(t, t.backs)
           n == Len(t.there.subs)
           bs == t.backs
           there == t.there
           flat == FlattenSeq([k \in DOMAIN bs |-> bs[k].subs])
<1>1. LegOk(there, "there") /\ there.in = t.amount
  BY DEF Quoting
<1>2. /\ Len(BackInputs(there)) = n /\ n \in Nat \ {0} /\ there.out \in Nat \ {0}
      /\ \A k \in 1 .. n : BackInputs(there)[k] = there.subs[k].out /\ there.subs[k].out \in Nat \ {0}
  BY <1>1, BackInputsAre
<1>3. /\ bs \in Seq(LegSet) /\ Len(bs) = n /\ DOMAIN bs = 1 .. n
      /\ \A k \in 1 .. n : LegOk(bs[k], "back") /\ bs[k].in = there.subs[k].out
  BY <1>2 DEF Quoting
<1>4. /\ q.amount = t.amount /\ q.there = there
      /\ q.back = IF Len(bs) = 1 THEN bs[1]
                  ELSE [subs |-> flat, in |-> there.out, out |-> Sum(bs, "out"),
                        state |-> there.state, age |-> there.age]
      /\ q.told = {[state |-> leg.state, age |-> leg.age] : leg \in {there} \union Range(bs)}
  BY DEF QuotedTrip
<1> HIDE DEF n, flat, q, there, bs
<1>5. PICK s : s = q.back.subs /\ Joins(s, bs, n) /\ q.back.out = Sum(bs, "out")
  <2>1. CASE n = 1
    <3>1. q.back = bs[1] /\ bs # <<>> /\ 1 \in 1 .. n
      <4>1. Len(<<>>) = 0
        OBVIOUS
      <4>2. ASSUME bs = <<>> PROVE FALSE
        <5>1. Len(bs) = 0 /\ Len(bs) = 1
          BY <1>3, <2>1, <4>1, <4>2
        <5> QED BY <5>1
      <4> QED BY <1>3, <1>4, <2>1, <4>2
    <3>2. Joins(bs[1].subs, bs, 1)
      BY <1>3, <3>1, JoinOne
    <3>3. Sum(bs[1].subs, "out") = SumOver(FieldOf(bs, "out"), 1 .. 1)
      BY <3>2 DEF Joins
    <3>4. bs[1].out = Sum(bs[1].subs, "out")
      BY <1>3, <3>1 DEF LegOk
    <3>5. Sum(bs, "out") = SumOver(FieldOf(bs, "out"), 1 .. n)
      <4>1. Sum(bs, "out") = SumFunction(FieldOf(bs, "out")) /\ DOMAIN FieldOf(bs, "out") = 1 .. n
        BY <1>3 DEF Sum, FieldOf
      <4> QED BY <4>1, SumIs
    <3> QED BY <2>1, <3>1, <3>2, <3>3, <3>4, <3>5
  <2>2. CASE n # 1
    <3>1. q.back.subs = flat /\ q.back.out = Sum(bs, "out")
      BY <1>3, <1>4, <2>2
    <3>2. Joins(flat, bs, n)
      <4>1. bs # <<>>
        BY <1>2, <1>3
      <4> QED BY <1>3, <4>1, JoinAll DEF flat
    <3> QED BY <3>1, <3>2
  <2> QED BY <2>1, <2>2
<1>6. s \in Seq(LegParts) /\ Len(s) >= n /\ s # <<>> /\ Len(s) \in Nat
  BY <1>2, <1>5 DEF Joins
<1>7. \A f \in {"in", "out"} : Sum(bs, f) = Sum(s, f) /\ Sum(bs, f) = SumOver(FieldOf(bs, f), 1 .. n)
  <2> TAKE f \in {"in", "out"}
  <2>1. Sum(bs, f) = SumFunction(FieldOf(bs, f)) /\ DOMAIN FieldOf(bs, f) = 1 .. n
    BY <1>3 DEF Sum, FieldOf
  <2>2. Sum(bs, f) = SumOver(FieldOf(bs, f), 1 .. n)
    BY <2>1, SumIs
  <2> QED BY <1>5, <2>2 DEF Joins
<1>8. Sum(s, "in") = there.out
  <2>1. FieldOf(bs, "in") = FieldOf(there.subs, "out")
    <3>1. DOMAIN there.subs = 1 .. n
      <4>1. there.subs \in Seq(LegParts)
        BY <1>1 DEF LegOk, LegSet
      <4> QED BY <4>1 DEF n, there
    <3>2. \A k \in 1 .. n : bs[k].in = there.subs[k].out
      BY <1>3
    <3>3. FieldOf(bs, "in") = [k \in 1 .. n |-> bs[k].in]
      BY <1>3 DEF FieldOf
    <3>4. FieldOf(there.subs, "out") = [k \in 1 .. n |-> there.subs[k].out]
      BY <3>1 DEF FieldOf
    <3> QED BY <3>2, <3>3, <3>4
  <2>2. Sum(bs, "in") = Sum(there.subs, "out")
    <3>1. Sum(bs, "in") = SumFunction(FieldOf(bs, "in")) /\ Sum(there.subs, "out") = SumFunction(FieldOf(there.subs, "out"))
      BY DEF Sum, FieldOf
    <3> QED BY <2>1, <3>1
  <2>3. Sum(there.subs, "out") = there.out
    BY <1>1 DEF LegOk
  <2> QED BY <1>7, <2>2, <2>3
<1>9. Matched(q)
  <2> SUFFICES ASSUME n = Len(s), n > 1, NEW k \in 1 .. n PROVE there.subs[k].out = s[k].in
    BY <1>4, <1>5 DEF Matched, n, there
  <2>1. Len(bs[k].subs) = 1 /\ s[k] = bs[k].subs[1]
    BY <1>5 DEF Joins
  <2>2. LegOk(bs[k], "back") /\ bs[k].in = there.subs[k].out
    BY <1>3
  <2>3. bs[k].subs \in Seq(LegParts) /\ Sum(bs[k].subs, "in") = bs[k].in
    BY <2>2 DEF LegOk, LegSet
  <2>4. Sum(bs[k].subs, "in") = bs[k].subs[1].in
    BY <2>1, <2>3, SumAtLeast
  <2> QED BY <2>1, <2>2, <2>3, <2>4
<1>10. ASSUME NEW i \in DOMAIN Markets, \A leg \in q.told : leg.state = i
       PROVE PaysBy(there.subs, "there", Markets[i]) /\ PaysBy(s, "back", Markets[i])
  <2>1. there.state = i
    <3>1. [state |-> there.state, age |-> there.age] \in q.told
      BY <1>4
    <3> QED BY <1>10, <3>1
  <2>2. ASSUME NEW k \in 1 .. n PROVE bs[k].state = i
    <3>1. bs[k] \in Range(bs)
      BY <1>3 DEF Range
    <3>2. [state |-> bs[k].state, age |-> bs[k].age] \in q.told
      BY <1>4, <3>1
    <3> QED BY <1>10, <3>2
  <2>3. PaysBy(there.subs, "there", Markets[i])
    BY <1>1, <2>1 DEF LegOk
  <2>4. ASSUME NEW j \in 1 .. Len(s) PROVE s[j].out = Paid(Markets[i], s[j].pool, "back", s[j].in)
    <3>1. PICK k \in 1 .. n : \E l \in 1 .. Len(bs[k].subs) : s[j] = bs[k].subs[l]
      BY <1>5 DEF Joins
    <3>2. PICK l \in 1 .. Len(bs[k].subs) : s[j] = bs[k].subs[l]
      BY <3>1
    <3>3. PaysBy(bs[k].subs, "back", Markets[i])
      BY <1>3, <2>2 DEF LegOk
    <3> QED BY <3>2, <3>3 DEF PaysBy
  <2> QED BY <2>3, <2>4 DEF PaysBy
<1>11. TripOk(q)
  <2>1. \A i \in DOMAIN Markets : (\A leg \in q.told : leg.state = i) =>
          PaysBy(q.there.subs, "there", Markets[i]) /\ PaysBy(q.back.subs, "back", Markets[i])
    BY <1>4, <1>5, <1>10
  <2> QED BY <1>1, <1>4, <1>5, <1>6, <1>7, <1>8, <1>9, <2>1 DEF TripOk
<1> QED BY <1>4, <1>11 DEF q, bs

\* What an operation carries.
LEMMA OperationIs ==
  ASSUME NEW q, TripOk(q)
  PROVE /\ Operation(q).amount = q.amount /\ Operation(q).min = q.amount + 1
        /\ AsQuoted(Operation(q).there, q.there.subs)
        /\ Sum(Operation(q).there, "in") = q.amount
        /\ AsQuoted(Operation(q).back, q.back.subs)
<1> DEFINE ts == q.there.subs
           bs == q.back.subs
           n == Len(ts)
           m == Len(bs)
           a == q.amount
<1>1. /\ ts \in Seq(LegParts) /\ ts # <<>> /\ Sum(ts, "in") = a /\ a \in Nat \ {0}
      /\ bs \in Seq(LegParts) /\ bs # <<>>
  BY DEF TripOk, LegOk, LegSet
<1>2. /\ n \in Nat \ {0} /\ DOMAIN ts = 1 .. n /\ \A k \in 1 .. n : ts[k] \in LegParts
      /\ m \in Nat \ {0} /\ DOMAIN bs = 1 .. m /\ \A k \in 1 .. m : bs[k] \in LegParts
  <2> HIDE DEF ts, bs
  <2> QED BY <1>1
<1> HIDE DEF ts, bs, n, m, a
<1>3. Operation(q) = [amount |-> a, min |-> a + 1, there |-> Zipped(ts, Normalized(Parts(ts), a)), back |-> Weighted(q)]
  BY DEF Operation, ts, a
<1>4. Parts(ts) = [k \in 1 .. n |-> ts[k].in] /\ Len(Parts(ts)) = n
  BY <1>2 DEF Parts
<1>5. SumFunction(Parts(ts)) = a
  <2>1. Parts(ts) = FieldOf(ts, "in")
    BY DEF Parts, FieldOf
  <2>2. Sum(ts, "in") = SumFunction(FieldOf(ts, "in"))
    BY DEF Sum, FieldOf
  <2> QED BY <1>1, <2>1, <2>2
<1>6. Normalized(Parts(ts), a) = Parts(ts)
  <2>1. Normalized(Parts(ts), a) = IF n = 1 THEN <<a>> ELSE Parts(ts)
    BY <1>4, <1>5 DEF Normalized
  <2>2. ASSUME n = 1 PROVE <<a>> = Parts(ts)
    <3>1. ts[1].in = a
      BY <1>1, <2>2, SumAtLeast DEF n
    <3>2. Parts(ts) = [k \in 1 .. 1 |-> a]
      BY <1>4, <2>2, <3>1
    <3> QED BY <3>2
  <2> QED BY <2>1, <2>2
<1>7. Zipped(ts, Parts(ts)) = [k \in 1 .. n |-> [pool |-> ts[k].pool, in |-> ts[k].in]]
  BY <1>2, <1>4 DEF Zipped
<1>8. ASSUME NEW ss \in Seq(LegParts), NEW z, z = [k \in 1 .. Len(ss) |-> [pool |-> ss[k].pool, in |-> ss[k].in]]
      PROVE AsQuoted(z, ss) /\ Sum(z, "in") = Sum(ss, "in")
  <2>1. DOMAIN ss = 1 .. Len(ss) /\ Len(ss) \in Nat
    OBVIOUS
  <2>2. ASSUME NEW k \in 1 .. Len(ss) PROVE z[k] = [pool |-> ss[k].pool, in |-> ss[k].in] /\ z[k] \in Given
    <3>1. ss[k] \in LegParts
      BY <2>1
    <3>2. z[k] = [pool |-> ss[k].pool, in |-> ss[k].in]
      BY <1>8
    <3> QED BY <3>1, <3>2 DEF LegParts, Given
  <2>3. z \in Seq(Given) /\ Len(z) = Len(ss) /\ DOMAIN z = 1 .. Len(ss)
    BY <1>8, <2>1, <2>2
  <2>4. AsQuoted(z, ss)
    BY <2>2, <2>3 DEF AsQuoted
  <2>5. FieldOf(z, "in") = FieldOf(ss, "in")
    <3>1. FieldOf(z, "in") = [k \in 1 .. Len(ss) |-> z[k].in]
      BY <2>3 DEF FieldOf
    <3>2. FieldOf(ss, "in") = [k \in 1 .. Len(ss) |-> ss[k].in]
      BY <2>1 DEF FieldOf
    <3>3. \A k \in 1 .. Len(ss) : z[k].in = ss[k].in
      <4> TAKE k \in 1 .. Len(ss)
      <4>1. z[k] = [pool |-> ss[k].pool, in |-> ss[k].in]
        BY <2>2
      <4>2. [pool |-> ss[k].pool, in |-> ss[k].in].in = ss[k].in
        OBVIOUS
      <4> QED BY <4>1, <4>2, Zenon
    <3> QED BY <3>1, <3>2, <3>3
  <2>6. Sum(z, "in") = SumFunction(FieldOf(z, "in")) /\ Sum(ss, "in") = SumFunction(FieldOf(ss, "in"))
    BY DEF Sum, FieldOf
  <2> QED BY <2>4, <2>5, <2>6
<1>9. AsQuoted(Operation(q).there, ts) /\ Sum(Operation(q).there, "in") = a
  <2>1. Operation(q).there = [k \in 1 .. Len(ts) |-> [pool |-> ts[k].pool, in |-> ts[k].in]]
    BY <1>3, <1>6, <1>7 DEF n
  <2> QED BY <1>1, <1>8, <2>1
<1>10. Weighted(q) = [k \in 1 .. m |-> [pool |-> bs[k].pool, in |-> bs[k].in]]
  <2> DEFINE aligned == n = m /\ n > 1
             weight(k) == LET w == IF aligned /\ ts[k].out > 0 THEN ts[k].out ELSE bs[k].in
                          IN IF w = 0 THEN 1 ELSE w
  <2>1. Weighted(q) = Zipped(bs, [k \in DOMAIN bs |-> weight(k)])
    BY DEF Weighted, ts, bs, n, m
  <2>2. ASSUME NEW k \in 1 .. m PROVE weight(k) = bs[k].in
    <3>1. bs[k].in \in Nat \ {0}
      BY <1>2 DEF LegParts
    <3>2. aligned => ts[k].out = bs[k].in
      <4> HAVE n = m /\ n > 1
      <4>1. k \in 1 .. n
        OBVIOUS
      <4>2. Matched(q)
        BY DEF TripOk
      <4> QED BY <4>1, <4>2 DEF Matched, ts, bs, n, m
    <3>3. \A x \in Nat \ {0} : x > 0 /\ x # 0
      OBVIOUS
    <3> QED BY <3>1, <3>2, <3>3
  <2>3. [k \in DOMAIN bs |-> weight(k)] = [k \in 1 .. m |-> bs[k].in]
    <3> HIDE DEF weight
    <3> QED BY <1>2, <2>2
  <2> HIDE DEF weight
  <2>4. Zipped(bs, [k \in 1 .. m |-> bs[k].in]) = [k \in 1 .. m |-> [pool |-> bs[k].pool, in |-> bs[k].in]]
    BY <1>2 DEF Zipped
  <2> QED BY <2>1, <2>3, <2>4
<1>11. AsQuoted(Operation(q).back, bs)
  <2>1. Operation(q).back = [k \in 1 .. Len(bs) |-> [pool |-> bs[k].pool, in |-> bs[k].in]]
    BY <1>3, <1>10 DEF m
  <2> QED BY <1>1, <1>8, <2>1
<1> QED BY <1>3, <1>9, <1>11 DEF ts, bs, a

\* The contract rescales the weights of leg_back; to the total they add up to,
\* they stay.
LEMMA RescaledIs ==
  ASSUME NEW ss \in Seq(LegParts), ss # <<>>, NEW gs, AsQuoted(gs, ss), NEW x \in Nat
  PROVE /\ Rescaled(gs, x) \in Seq(Given)
        /\ x = Sum(ss, "in") => AsQuoted(Rescaled(gs, x), ss)
<1> DEFINE n == Len(ss)
           sum == Sum(gs, "in")
           part(k) == (gs[k].in * x) \div sum
           firsts == SumFunction([k \in 1 .. n - 1 |-> part(k)])
           w == FieldOf(ss, "in")
<1>1. /\ n \in Nat \ {0} /\ DOMAIN ss = 1 .. n
      /\ gs \in Seq(Given) /\ Len(gs) = n /\ DOMAIN gs = 1 .. n
      /\ \A k \in 1 .. n : gs[k] \in Given /\ gs[k].pool = ss[k].pool /\ gs[k].in = ss[k].in
  BY DEF AsQuoted
<1>2. /\ Sum(ss, "in") = SumOver(w, 1 .. n) /\ Sum(ss, "in") \in Nat \ {0}
      /\ \A k \in 1 .. n : w[k] = ss[k].in /\ ss[k].in \in Nat \ {0}
  <2>1. /\ Sum(ss, "in") = SumOver(w, 1 .. n)
        /\ \A k \in 1 .. n : w[k] = ss[k].in /\ ss[k].in \in Nat \ {0}
    BY LegSums
  <2>2. Sum(ss, "in") \in Nat /\ Sum(ss, "in") >= n
    BY SumAtLeast
  <2> HIDE DEF n, w
  <2> QED BY <1>1, <2>1, <2>2
<1>3. sum = Sum(ss, "in")
  <2>1. FieldOf(gs, "in") = [k \in 1 .. n |-> gs[k].in] /\ w = [k \in 1 .. n |-> ss[k].in]
    <3> HIDE DEF n
    <3> QED BY <1>1 DEF FieldOf
  <2>2. FieldOf(gs, "in") = w
    <3> HIDE DEF w, n
    <3> QED BY <1>1, <2>1
  <2>3. sum = SumFunction(FieldOf(gs, "in")) /\ Sum(ss, "in") = SumFunction(w)
    BY DEF Sum, FieldOf
  <2> HIDE DEF w, sum
  <2> QED BY <2>2, <2>3
<1>4. Rescaled(gs, x) = [k \in 1 .. n |-> [gs[k] EXCEPT !.in = IF k < n THEN part(k) ELSE x - firsts]]
  BY <1>1 DEF Rescaled
<1> HIDE DEF sum
<1>5. \A k \in 1 .. n : part(k) \in Int
  <2> TAKE k \in 1 .. n
  <2>1. gs[k].in \in Nat /\ sum \in Nat \ {0}
    BY <1>1, <1>2, <1>3
  <2>2. gs[k].in * x \in Nat
    BY <2>1
  <2> DEFINE y == gs[k].in * x
  <2> HIDE DEF y
  <2>3. y \div sum \in Int
    BY <2>1, <2>2 DEF y
  <2> QED BY <2>3 DEF y
<1> HIDE DEF part
<1>6. firsts = SumOver([k \in 1 .. n - 1 |-> part(k)], 1 .. n - 1) /\ firsts \in Int
  <2> DEFINE u == [k \in 1 .. n - 1 |-> part(k)]
  <2>1. firsts = SumOver(u, 1 .. n - 1)
    BY SumIs
  <2>2. \A k \in 1 .. n - 1 : u[k] \in Int
    BY <1>1, <1>5
  <2>3. IsFiniteSet(1 .. n - 1)
    BY <1>1, FS_Interval
  <2> HIDE DEF u
  <2>4. SumOver(u, 1 .. n - 1) \in Int
    BY <2>2, <2>3, SumInt
  <2> HIDE DEF firsts
  <2> QED BY <2>1, <2>4 DEF u
<1> HIDE DEF firsts
<1> DEFINE z == Rescaled(gs, x)
           in(k) == IF k < n THEN part(k) ELSE x - firsts
<1>7. \A k \in 1 .. n : in(k) \in Int
  BY <1>5, <1>6
<1>8. ASSUME NEW k \in 1 .. n PROVE z[k] = [pool |-> ss[k].pool, in |-> in(k)] /\ z[k] \in Given
  <2>1. z[k] = [gs[k] EXCEPT !.in = in(k)]
    BY <1>4
  <2>2. PICK p \in Pools, y \in Int : gs[k] = [pool |-> p, in |-> y] /\ p = ss[k].pool
    <3>1. gs[k] \in Given /\ gs[k].pool = ss[k].pool
      BY <1>1
    <3> QED BY <3>1 DEF Given
  <2>3. in(k) \in Int
    BY <1>7
  <2> HIDE DEF in, z
  <2>4. z[k] = [pool |-> p, in |-> in(k)]
    BY <2>1, <2>2
  <2> QED BY <2>2, <2>3, <2>4 DEF Given
<1>9. z \in Seq(Given) /\ Len(z) = n
  <2>1. DOMAIN z = 1 .. n /\ z = [k \in 1 .. n |-> z[k]]
    BY <1>4
  <2> HIDE DEF z, n
  <2>2. z \in [1 .. n -> Given]
    BY <1>8, <2>1
  <2> QED BY <1>1, <2>1, <2>2
<1>10. ASSUME x = Sum(ss, "in") PROVE AsQuoted(z, ss)
  <2>1. \A k \in 1 .. n : part(k) = ss[k].in
    <3> TAKE k \in 1 .. n
    <3>1. gs[k].in = ss[k].in /\ ss[k].in \in Nat /\ sum = x /\ x \in Nat \ {0}
      BY <1>1, <1>2, <1>3, <1>10
    <3>2. \A b \in Nat, c \in Nat \ {0} : (b * c) \div c = b
      OBVIOUS
    <3> QED BY <3>1, <3>2 DEF part
  <2>2. x - firsts = ss[n].in
    <3> DEFINE u == [k \in 1 .. n - 1 |-> part(k)]
    <3>1. \A k \in 1 .. n - 1 : u[k] = w[k] /\ w[k] \in Int
      <4> HIDE DEF w
      <4> QED BY <1>1, <1>2, <2>1
    <3>2. IsFiniteSet(1 .. n - 1)
      BY <1>1, FS_Interval
    <3> HIDE DEF w, u
    <3>3. SumOver(u, 1 .. n - 1) = SumOver(w, 1 .. n - 1)
      BY <3>1, <3>2, SumSame
    <3>4. Telescopes(w, n)
      <4>1. \A k \in 1 .. n : w[k] \in Int
        BY <1>2
      <4> HIDE DEF n
      <4> QED BY <1>1, <4>1, SumSteps
    <3>5. PICK m \in Nat : m = n - 1
      <4> HIDE DEF n
      <4> QED BY <1>1
    <3>6. m \in 0 .. n - 1 /\ m + 1 = n /\ n \in 1 .. n
      BY <1>1, <3>5
    <3>7. SumOver(w, 1 .. m + 1) = SumOver(w, 1 .. m) + w[m + 1]
      BY <3>4, <3>6, Zenon DEF Telescopes
    <3>8. firsts = SumOver(w, 1 .. m)
      BY <1>6, <3>3, <3>5 DEF u
    <3>9. SumOver(w, 1 .. n) = firsts + w[n] /\ w[n] = ss[n].in /\ w[n] \in Int
      BY <1>2, <3>6, <3>7, <3>8
    <3> QED BY <1>2, <1>6, <1>10, <3>9
  <2>3. \A k \in 1 .. n : in(k) = ss[k].in
    <3> TAKE k \in 1 .. n
    <3>1. CASE k < n
      BY <2>1, <3>1
    <3>2. CASE ~ (k < n)
      <4>1. k = n
        <5> HIDE DEF n
        <5> QED BY <1>1, <3>2
      <4> QED BY <2>2, <3>2, <4>1
    <3> QED BY <3>1, <3>2
  <2> HIDE DEF in, z
  <2>4. \A k \in 1 .. n : z[k].pool = ss[k].pool /\ z[k].in = ss[k].in
    <3> TAKE k \in 1 .. n
    <3>1. z[k] = [pool |-> ss[k].pool, in |-> in(k)] /\ in(k) = ss[k].in
      BY <1>8, <2>3
    <3>2. /\ [pool |-> ss[k].pool, in |-> ss[k].in].in = ss[k].in
          /\ [pool |-> ss[k].pool, in |-> ss[k].in].pool = ss[k].pool
      OBVIOUS
    <3>3. z[k] = [pool |-> ss[k].pool, in |-> ss[k].in]
      BY <3>1, Zenon
    <3> QED BY <3>2, <3>3, Zenon
  <2> QED BY <1>9, <2>4 DEF AsQuoted
<1> QED BY <1>9, <1>10

\* What comes back is a number, whatever the market is by then.
LEMMA ReturnedTyped ==
  ASSUME market \in DOMAIN Markets, NEW q, TripOk(q)
  PROVE Returned(Operation(q)) \in Nat
<1> DEFINE op == Operation(q)
           start == [res |-> Markets[market], got |-> 0, ok |-> Sum(op.there, "in") = op.amount]
           there == Swapped(start, "there", op.there)
<1>1. /\ AsQuoted(op.there, q.there.subs) /\ AsQuoted(op.back, q.back.subs)
      /\ op.amount = q.amount /\ Sum(op.there, "in") = q.amount
      /\ q.back.subs \in Seq(LegParts) /\ q.back.subs # <<>>
  BY OperationIs DEF TripOk
<1> HIDE DEF op
<1>2. start \in RouteStates
  BY MarketsAre DEF RouteStates
<1> HIDE DEF start
<1>3. there \in RouteStates
  <2>1. op.there \in Seq(Given)
    BY <1>1 DEF AsQuoted
  <2> QED BY <1>2, <2>1, SwappedTyped DEF Ways
<1> HIDE DEF there
<1>4. Rescaled(op.back, there.got) \in Seq(Given)
  <2>1. there.got \in Nat
    BY <1>3 DEF RouteStates
  <2> QED BY <1>1, <2>1, RescaledIs
<1>5. Swapped(there, "back", Rescaled(op.back, there.got)) \in RouteStates
  BY <1>3, <1>4, SwappedTyped DEF Ways
<1>6. Executed(op) = IF there.ok THEN Swapped(there, "back", Rescaled(op.back, there.got)) ELSE [there EXCEPT !.got = 0]
  BY DEF Executed, there, start
<1>7. [there EXCEPT !.got = 0].got \in Nat
  BY <1>3 DEF RouteStates
<1>8. Executed(op).got \in Nat
  <2>1. CASE there.ok
    BY <1>5, <1>6, <2>1 DEF RouteStates
  <2>2. CASE ~ there.ok
    BY <1>6, <1>7, <2>2
  <2> QED BY <2>1, <2>2
<1>9. Returned(op) \in Nat
  BY <1>8 DEF Returned
<1> QED BY <1>9 DEF op

\* In the market all of the parts were quoted by, and with every pool taking
\* part once, a round trip returns what was quoted.
LEMMA SettlesAsQuoted ==
  ASSUME market \in DOMAIN Markets, NEW q, TripOk(q), Apart(q),
         \A leg \in q.told : leg.state = market
  PROVE Returned(Operation(q)) = q.back.out
<1> DEFINE op == Operation(q)
           ts == q.there.subs
           bs == q.back.subs
           R == Markets[market]
           start == [res |-> R, got |-> 0, ok |-> Sum(op.there, "in") = op.amount]
           there == Swapped(start, "there", op.there)
           given2 == Rescaled(op.back, there.got)
           back == Swapped(there, "back", given2)
<1>1. /\ AsQuoted(op.there, ts) /\ AsQuoted(op.back, bs) /\ Sum(op.there, "in") = op.amount
  BY OperationIs
<1>2. /\ ts \in Seq(LegParts) /\ bs \in Seq(LegParts) /\ bs # <<>>
      /\ Sum(ts, "out") = q.there.out /\ Sum(bs, "in") = q.there.out /\ Sum(bs, "out") = q.back.out
      /\ q.there.out \in Nat
      /\ PaysBy(ts, "there", R) /\ PaysBy(bs, "back", R)
  BY DEF TripOk, LegOk, LegSet
<1>3. R \in Stocks
  BY MarketsAre
<1>4. /\ \A i, j \in 1 .. Len(ts) : i # j => ts[i].pool # ts[j].pool
      /\ \A i, j \in 1 .. Len(bs) : i # j => bs[i].pool # bs[j].pool
      /\ \A i \in 1 .. Len(ts), j \in 1 .. Len(bs) : ts[i].pool # bs[j].pool
  <2> DEFINE all == ts \o bs
             n == Len(ts)
             m == Len(bs)
  <2>1. /\ DOMAIN all = 1 .. n + m /\ n \in Nat /\ m \in Nat
        /\ \A i \in 1 .. n : all[i] = ts[i]
        /\ \A j \in 1 .. m : all[n + j] = bs[j]
    <3> HIDE DEF ts, bs
    <3> QED BY <1>2
  <2>2. \A i, j \in DOMAIN all : i # j => all[i].pool # all[j].pool
    BY DEF Apart
  <2> HIDE DEF all, n, m, ts, bs
  <2>3. \A i \in 1 .. n : i \in DOMAIN all
    BY <2>1
  <2>4. \A j \in 1 .. m : n + j \in DOMAIN all
    BY <2>1
  <2>5. ASSUME NEW i \in 1 .. n, NEW j \in 1 .. n, i # j PROVE ts[i].pool # ts[j].pool
    BY <2>1, <2>2, <2>3, <2>5
  <2>6. ASSUME NEW i \in 1 .. m, NEW j \in 1 .. m, i # j PROVE bs[i].pool # bs[j].pool
    <3>1. n + i # n + j
      BY <2>1, <2>6
    <3>2. all[n + i].pool # all[n + j].pool
      BY <2>2, <2>4, <3>1
    <3> QED BY <2>1, <3>2
  <2>7. ASSUME NEW i \in 1 .. n, NEW j \in 1 .. m PROVE ts[i].pool # bs[j].pool
    <3>1. i # n + j
      BY <2>1
    <3>2. all[i].pool # all[n + j].pool
      BY <2>2, <2>3, <2>4, <3>1
    <3> QED BY <2>1, <3>2
  <2> QED BY <2>5, <2>6, <2>7 DEF n, m
<1> HIDE DEF op, ts, bs, R
<1>5. start \in RouteStates /\ start.ok /\ start.res = R
  BY <1>1, <1>3 DEF RouteStates
<1> HIDE DEF start
<1>6. /\ there \in RouteStates /\ there.ok /\ there.got = Sum(ts, "out")
      /\ \A p \in Pools : (\A j \in 1 .. Len(ts) : ts[j].pool # p) => there.res[p] = start.res[p]
  <2>1. \A k \in 1 .. Len(ts) : start.res[ts[k].pool] = R[ts[k].pool]
    BY <1>5
  <2>2. "there" \in Ways
    BY DEF Ways
  <2> QED BY <1>1, <1>2, <1>3, <1>4, <1>5, <2>1, <2>2, SwappedExactly
<1> HIDE DEF there
<1>7. AsQuoted(given2, bs)
  BY <1>1, <1>2, <1>6, RescaledIs
<1> HIDE DEF given2
<1>8. back.ok /\ back.got = Sum(bs, "out")
  <2>1. \A k \in 1 .. Len(bs) : there.res[bs[k].pool] = R[bs[k].pool]
    <3> TAKE k \in 1 .. Len(bs)
    <3>1. bs[k] \in LegParts
      BY <1>2
    <3>2. bs[k].pool \in Pools
      BY <3>1 DEF LegParts
    <3>3. \A j \in 1 .. Len(ts) : ts[j].pool # bs[k].pool
      BY <1>4
    <3> QED BY <1>5, <1>6, <3>2, <3>3
  <2>2. "back" \in Ways
    BY DEF Ways
  <2> QED BY <1>2, <1>3, <1>4, <1>6, <1>7, <2>1, <2>2, SwappedExactly
<1> HIDE DEF back
<1>9. Executed(op) = back
  <2>1. Executed(op) = IF there.ok THEN back ELSE [there EXCEPT !.got = 0]
    BY DEF Executed, there, start, R, back, given2
  <2> QED BY <1>6, <2>1
<1>10. Returned(op) = q.back.out
  BY <1>2, <1>8, <1>9 DEF Returned
<1> QED BY <1>10 DEF op

\* What holds of the bot between two steps.
Purposes == {"probe", "size", "again", "validate", "fallback"}
Underway == stage \in {"quoting", "quoted", "unquoted"}
InBounds(a) == MinAmount <= a /\ a <= ceiling /\ (setup.vault => \E b \in held : ceiling <= b)

Around ==
  /\ market \in DOMAIN Markets /\ price \in Nat /\ balance \in Nat
  /\ held \subseteq Nat /\ (cached # None => cached \in held)
  /\ ceiling \in Nat /\ ceiling <= MaxAmount
Shaped ==
  trip = [for |-> trip.for, amount |-> trip.amount, onChain |-> trip.onChain,
          there |-> trip.there, backs |-> trip.backs]
Partial ==
  /\ trip.amount \in Nat \ {0} /\ trip.for \in Purposes
  /\ stage = "quoting" /\ trip.there = None => trip.backs = <<>>
  /\ stage = "quoting" /\ trip.there # None =>
       /\ Quoting(trip, Len(trip.backs))
       /\ Len(trip.backs) < Len(BackInputs(trip.there))
  /\ stage = "quoted" => Quoting(trip, Len(BackInputs(trip.there)))
Kept ==
  /\ trip.for = "probe" => MinAmount <= ceiling /\ best = None
  /\ trip.for = "size" =>
       /\ todo \subseteq Nat \ {0}
       /\ best # None => TripOk(best)
       /\ best = None => TripOk(probe)
  /\ trip.for \in {"again", "validate", "fallback"} => InBounds(trip.amount)
  /\ trip.for \in {"again", "validate"} => trip.amount = quote.amount
Chosen ==
  /\ stage \in {"selected", "fresh", "kept", "simulate"} => TripOk(quote)
  /\ stage \in {"fresh", "kept", "simulate"} => InBounds(quote.amount)

ScanInv ==
  /\ Around /\ Shaped /\ Chosen /\ SubmissionsPay
  /\ Underway => Partial /\ Kept

LEMMA ScanConstants ==
  /\ MinAmount \in Nat \ {0} /\ MaxAmount \in Nat \ {0} /\ ProbeAmount \in Nat \ {0}
  /\ Samples \subseteq Nat \ {0} /\ MinAmount <= MaxAmount
  /\ Fees \subseteq Nat /\ Balances \subseteq Nat /\ Marks \subseteq Nat
  /\ Fallback \in Nat /\ Unit \in Nat \ {0} /\ MinProfit \in Nat /\ None \notin Nat
BY OpportunityAssumption DEF OpportunityAssumption, Amounts

LEMMA CeilingKeeps ==
  ASSUME Around, Ceiling, UNCHANGED <<setup, outside>>
  PROVE /\ Around'
        /\ MinAmount <= ceiling' => (setup.vault => \E b \in held' : ceiling' <= b)
<1>1. /\ market' = market /\ price' = price /\ balance' = balance
      /\ market \in DOMAIN Markets /\ price \in Nat /\ balance \in Nat
      /\ held \subseteq Nat /\ (cached # None => cached \in held /\ cached \in Nat)
      /\ None \notin Nat
  BY ScanConstants DEF Around, outside
<1>2. MinAmount \in Nat \ {0} /\ MaxAmount \in Nat
  BY ScanConstants
<1>3. \A x \in Nat : Least(MaxAmount, x) \in Nat /\ Least(MaxAmount, x) <= MaxAmount /\ Least(MaxAmount, x) <= x
  BY <1>2 DEF Least
<1>4. CASE ~ setup.vault /\ ceiling' = MaxAmount /\ UNCHANGED <<cached, held, failures>>
  BY <1>1, <1>2, <1>4 DEF Around
<1>5. CASE setup.vault /\ cached # None /\ ceiling' = Least(MaxAmount, cached) /\ UNCHANGED <<cached, held, failures>>
  BY <1>1, <1>3, <1>5 DEF Around
<1>6. CASE setup.vault /\ cached' = balance /\ held' = {balance} /\ ceiling' = Least(MaxAmount, balance)
  BY <1>1, <1>3, <1>6 DEF Around
<1>7. CASE ceiling' = 0 /\ UNCHANGED <<cached, held>>
  BY <1>1, <1>2, <1>7 DEF Around
<1> QED BY <1>4, <1>5, <1>6, <1>7 DEF Ceiling

LEMMA Asking ==
  ASSUME NEW f, NEW a, NEW c, Asks(f, a, c)
  PROVE /\ stage' = "quoting" /\ Shaped'
        /\ trip'.for = f /\ trip'.amount = a /\ trip'.there = None /\ trip'.backs = <<>>
<1>1. trip' = [for |-> f, amount |-> a, onChain |-> c, there |-> None, backs |-> <<>>]
  BY DEF Asks, NoTrip
<1>2. stage' = "quoting"
  BY DEF Asks
<1> QED BY <1>1, <1>2 DEF Shaped

LEMMA GivingUp ==
  ASSUME GiveUp
  PROVE stage' = "idle" /\ Shaped'
BY DEF GiveUp, NoTrip, Shaped

\* An answer is a trip the bot can settle as it is quoted.
LEMMA AnswerOk ==
  ASSUME Underway => Partial, stage \in {"quoted", "unquoted"}, Answer # None
  PROVE TripOk(Answer) /\ Answer.amount = trip.amount
<1>1. stage = "quoted" /\ Answer = QuotedTrip(trip, trip.backs)
  BY DEF Answer
<1>2. trip.amount \in Nat \ {0} /\ Quoting(trip, Len(BackInputs(trip.there)))
  BY <1>1 DEF Underway, Partial
<1> QED BY <1>1, <1>2, QuotedTripIs

\* A trip that has just been asked for.
LEMMA Asked ==
  ASSUME NEW f \in Purposes, NEW a \in Nat \ {0}, NEW c, Asks(f, a, c)
  PROVE Partial' /\ Shaped' /\ Chosen' /\ trip'.for = f /\ trip'.amount = a
<1>1. /\ stage' = "quoting" /\ Shaped'
      /\ trip'.for = f /\ trip'.amount = a /\ trip'.there = None /\ trip'.backs = <<>>
  BY Asking
<1>2. Partial'
  BY <1>1 DEF Partial
<1>3. Chosen'
  BY <1>1 DEF Chosen
<1> QED BY <1>1, <1>2, <1>3

LEMMA Idling ==
  ASSUME stage' = "idle"
  PROVE Chosen' /\ ~ Underway'
BY DEF Chosen, Underway

\* Nothing is handed over.
LEMMA NotSent ==
  ASSUME SubmissionsPay, UNCHANGED <<setup, sent>>
  PROVE SubmissionsPay'
BY DEF SubmissionsPay

LEMMA EvaluateKeeps ==
  ASSUME ScanInv, Evaluate
  PROVE ScanInv'
<1>1. Around' /\ SubmissionsPay'
  BY CeilingKeeps, NotSent DEF ScanInv, Evaluate
<1>2. CASE GiveUp
  BY <1>1, <1>2, GivingUp, Idling DEF ScanInv
<1>3. CASE ~ (ceiling' < MinAmount) /\ Asks("probe", ProbeAmount, setup.validate)
  <2>0. MinAmount <= ceiling' /\ best' = None
    BY <1>1, <1>3, ScanConstants DEF Around, Evaluate
  <2>1. Partial' /\ Shaped' /\ Chosen' /\ trip'.for = "probe"
    BY <1>3, Asked, ScanConstants DEF Purposes
  <2>2. Kept'
    BY <2>0, <2>1 DEF Kept
  <2> QED BY <1>1, <2>1, <2>2 DEF ScanInv
<1> QED BY <1>2, <1>3 DEF Evaluate

LEMMA QuoteLegKeeps ==
  ASSUME ScanInv, QuoteLeg
  PROVE ScanInv'
<1> DEFINE dir == IF trip.there = None THEN "there" ELSE "back"
           a == IF dir = "there" THEN trip.amount ELSE BackInputs(trip.there)[Len(trip.backs) + 1]
<1>1. PICK leg \in Answers(dir, trip.onChain, a) :
        LET ok == leg # None /\ Sound(leg, a)
            bs == IF ok /\ dir = "back" THEN Append(trip.backs, leg) ELSE trip.backs
        IN /\ trip' = [trip EXCEPT !.there = IF dir = "there" /\ ok THEN leg ELSE @, !.backs = bs]
           /\ stage' = IF ~ok THEN "unquoted"
                       ELSE IF dir = "back" /\ Len(bs) = Len(BackInputs(trip.there)) THEN "quoted"
                       ELSE "quoting"
  BY DEF QuoteLeg
<1>2. /\ stage = "quoting" /\ UNCHANGED <<setup, outside, cached, held, scan, quote, tried, sent>>
      /\ Around /\ Shaped /\ Partial /\ Kept /\ SubmissionsPay
  BY DEF QuoteLeg, ScanInv, Underway
<1>3. /\ market' = market /\ price' = price /\ balance' = balance /\ cached' = cached /\ held' = held
      /\ ceiling' = ceiling /\ probe' = probe /\ best' = best /\ todo' = todo
      /\ quote' = quote /\ sent' = sent /\ setup' = setup
  BY <1>2 DEF outside, scan
<1> DEFINE ok == leg # None /\ Sound(leg, a)
           bs == IF ok /\ dir = "back" THEN Append(trip.backs, leg) ELSE trip.backs
           th == IF dir = "there" /\ ok THEN leg ELSE trip.there
<1>4. trip' = [for |-> trip.for, amount |-> trip.amount, onChain |-> trip.onChain, there |-> th, backs |-> bs]
  <2>1. PICK f, x, c, t, b :
          /\ trip = [for |-> f, amount |-> x, onChain |-> c, there |-> t, backs |-> b]
          /\ f = trip.for /\ x = trip.amount /\ c = trip.onChain /\ t = trip.there /\ b = trip.backs
    BY <1>2 DEF Shaped
  <2>2. trip' = [trip EXCEPT !.there = th, !.backs = bs]
    BY <1>1
  <2> HIDE DEF th, bs
  <2> QED BY <2>1, <2>2
<1>5. trip'.for = trip.for /\ trip'.amount = trip.amount /\ trip'.there = th /\ trip'.backs = bs /\ Shaped'
  BY <1>4 DEF Shaped
<1>6. stage' = IF ~ok THEN "unquoted"
               ELSE IF dir = "back" /\ Len(bs) = Len(BackInputs(trip.there)) THEN "quoted"
               ELSE "quoting"
  BY <1>1
<1>7. Around' /\ SubmissionsPay' /\ Kept' /\ Chosen'
  <2>1. Around'
    BY <1>2, <1>3 DEF Around
  <2>2. SubmissionsPay'
    BY <1>2, <1>3, NotSent
  <2>3. Kept'
    BY <1>2, <1>3, <1>5 DEF Kept, InBounds
  <2>4. Chosen'
    BY <1>6 DEF Chosen
  <2> QED BY <2>1, <2>2, <2>3, <2>4
<1>8. ASSUME ok, dir = "there" PROVE Partial'
  <2>1. trip.amount \in Nat \ {0} /\ a = trip.amount /\ trip.backs = <<>>
    BY <1>2, <1>8 DEF Partial
  <2>2. LegOk(leg, "there") /\ leg.in = trip.amount
    <3>1. market \in DOMAIN Markets /\ "there" \in Ways
      BY <1>2 DEF Around, Ways
    <3>2. leg \in Answers("there", trip.onChain, trip.amount) /\ leg # None /\ Sound(leg, trip.amount)
      BY <1>8, <2>1
    <3> HIDE DEF ok, dir, a
    <3> QED BY <2>1, <3>1, <3>2, AnswerIs
  <2>3. stage' = "quoting" /\ trip'.there = leg /\ trip'.backs = <<>> /\ leg # None
    BY <1>5, <1>6, <1>8, <2>1
  <2>4. Len(BackInputs(leg)) \in Nat \ {0}
    BY <2>2, BackInputsAre
  <2> HIDE DEF ok, dir, a, th, bs
  <2>5. Quoting(trip', 0)
    <3>1. <<>> \in Seq(LegSet) /\ Len(<<>>) = 0 /\ 1 .. 0 = {}
      OBVIOUS
    <3> QED BY <1>5, <2>2, <2>3, <3>1 DEF Quoting
  <2>6. Len(trip'.backs) = 0 /\ Len(trip'.backs) < Len(BackInputs(trip'.there))
    BY <2>3, <2>4
  <2> QED BY <1>2, <1>5, <2>3, <2>5, <2>6 DEF Partial
<1>9. ASSUME ok, dir = "back" PROVE Partial'
  <2> DEFINE n == Len(trip.backs)
             m == Len(BackInputs(trip.there))
  <2>1. /\ trip.there # None /\ Quoting(trip, n) /\ n < m /\ a = BackInputs(trip.there)[n + 1]
        /\ LegOk(trip.there, "there")
    BY <1>2, <1>9 DEF Partial, Quoting
  <2>2. /\ m \in Nat \ {0} /\ \A k \in 1 .. m : BackInputs(trip.there)[k] \in Nat \ {0}
    BY <2>1, BackInputsAre
  <2>3. trip.backs \in Seq(LegSet) /\ n \in Nat
    BY <2>1 DEF Quoting
  <2>4. n + 1 \in 1 .. m
    <3> HIDE DEF n, m
    <3> QED BY <2>1, <2>2, <2>3
  <2>5. LegOk(leg, "back") /\ leg.in = a
    <3>1. market \in DOMAIN Markets /\ "back" \in Ways
      BY <1>2 DEF Around, Ways
    <3>2. a \in Nat \ {0}
      BY <2>1, <2>2, <2>4
    <3>3. leg \in Answers("back", trip.onChain, a) /\ leg # None /\ Sound(leg, a)
      BY <1>9
    <3> HIDE DEF ok, dir, a
    <3> QED BY <3>1, <3>2, <3>3, AnswerIs
  <2>6. /\ trip'.there = trip.there /\ trip'.backs = Append(trip.backs, leg)
        /\ stage' = IF Len(Append(trip.backs, leg)) = m THEN "quoted" ELSE "quoting"
    BY <1>5, <1>6, <1>9
  <2> HIDE DEF ok, dir, a, th, bs
  <2>7. /\ Append(trip.backs, leg) \in Seq(LegSet) /\ Len(Append(trip.backs, leg)) = n + 1
        /\ \A k \in 1 .. n : Append(trip.backs, leg)[k] = trip.backs[k]
        /\ Append(trip.backs, leg)[n + 1] = leg
    <3>1. leg \in LegSet
      BY <2>5 DEF LegOk
    <3> QED BY <2>3, <3>1
  <2>8. Quoting(trip', n + 1)
    <3>1. ASSUME NEW k \in 1 .. n + 1
          PROVE LegOk(trip'.backs[k], "back") /\ trip'.backs[k].in = BackInputs(trip'.there)[k]
      <4>1. CASE k = n + 1
        BY <2>1, <2>5, <2>6, <2>7, <4>1
      <4>2. CASE k # n + 1
        <5>1. k \in 1 .. n
          BY <2>3, <4>2
        <5>2. LegOk(trip.backs[k], "back") /\ trip.backs[k].in = BackInputs(trip.there)[k]
          BY <2>1, <5>1 DEF Quoting
        <5> QED BY <2>6, <2>7, <5>1, <5>2
      <4> QED BY <4>1, <4>2
    <3> HIDE DEF n, m
    <3>2. trip'.there.in = trip'.amount /\ LegOk(trip'.there, "there")
      BY <1>5, <2>1, <2>6 DEF Quoting
    <3> QED BY <2>6, <2>7, <3>1, <3>2 DEF Quoting
  <2>9. n + 1 < m \/ n + 1 = m
    <3> HIDE DEF n, m
    <3> QED BY <2>1, <2>2, <2>3
  <2> HIDE DEF n, m
  <2>10. stage' = IF n + 1 = m THEN "quoted" ELSE "quoting"
    BY <2>6, <2>7
  <2>11. Len(trip'.backs) = n + 1 /\ Len(BackInputs(trip'.there)) = m
    BY <2>6, <2>7 DEF m
  <2> QED BY <1>2, <1>5, <2>1, <2>6, <2>8, <2>9, <2>10, <2>11 DEF Partial
<1>10. ASSUME ~ ok PROVE Partial'
  <2>1. stage' = "unquoted"
    BY <1>6, <1>10
  <2> HIDE DEF ok, dir, a, th, bs
  <2> QED BY <1>2, <1>5, <2>1 DEF Partial
<1>11. dir \in Ways
  BY DEF Ways
<1> QED BY <1>5, <1>7, <1>8, <1>9, <1>10, <1>11 DEF ScanInv, Ways

LEMMA LeastSizeIn ==
  ASSUME NEW S, S \subseteq Nat \ {0}, S # {}
  PROVE LeastSize(S) \in S
<1>1. \E n \in S : \A m \in S : n <= m
  BY LeastNumber
<1> QED BY <1>1 DEF LeastSize

\* The steps that leave the outside and the vault's cache as they are.
Still == UNCHANGED <<setup, outside, cached, held, ceiling>>

LEMMA StillAround ==
  ASSUME Still
  PROVE /\ Around => Around'
        /\ \A a \in Nat : InBounds(a) => InBounds(a)'
<1>1. /\ market' = market /\ price' = price /\ balance' = balance /\ cached' = cached
      /\ held' = held /\ ceiling' = ceiling /\ setup' = setup
  BY DEF Still, outside
<1> QED BY <1>1 DEF Around, InBounds

\* The next of the sizes is asked for.
LEMMA TryKeeps ==
  ASSUME ScanInv, Still, UNCHANGED sent, NEW S, S \subseteq Nat \ {0}, S # {}, TryLeast(S),
         best' # None => TripOk(best'), best' = None => TripOk(probe')
  PROVE ScanInv'
<1>1. LeastSize(S) \in Nat \ {0}
  BY LeastSizeIn
<1>2. Partial' /\ Shaped' /\ Chosen' /\ trip'.for = "size"
  BY <1>1, Asked DEF TryLeast, Purposes
<1>3. todo' \subseteq Nat \ {0}
  BY DEF TryLeast
<1>4. Kept'
  BY <1>2, <1>3 DEF Kept
<1>5. Around'
  BY StillAround DEF ScanInv
<1>6. SubmissionsPay'
  BY NotSent DEF ScanInv, Still
<1> QED BY <1>2, <1>4, <1>5, <1>6 DEF ScanInv

\* An opportunity is selected, or the pair is given up.
LEMMA JudgeKeeps ==
  ASSUME ScanInv, Still, UNCHANGED sent, NEW q, TripOk(q), Judge(q)
  PROVE ScanInv'
<1>1. Around' /\ SubmissionsPay'
  BY StillAround, NotSent DEF ScanInv, Still
<1>2. CASE GiveUp
  BY <1>1, <1>2, GivingUp, Idling DEF ScanInv
<1>3. CASE stage' = "selected" /\ trip' = NoTrip /\ quote' = q
  <2>1. Shaped' /\ ~ Underway'
    BY <1>3 DEF Shaped, NoTrip, Underway
  <2>2. Chosen'
    BY <1>3 DEF Chosen
  <2> QED BY <1>1, <2>1, <2>2 DEF ScanInv
<1> QED BY <1>2, <1>3 DEF Judge

LEMMA ProbedKeeps ==
  ASSUME ScanInv, Probed
  PROVE ScanInv'
<1>1. /\ stage \in {"quoted", "unquoted"} /\ trip.for = "probe" /\ Underway /\ Partial /\ Kept
  BY DEF Probed, Concludes, ScanInv, Underway
<1>2. Still /\ best' = best /\ sent' = sent
  BY DEF Probed, Still
<1>3. CASE Answer = None
  <2>1. GiveUp
    BY <1>3 DEF Probed
  <2>2. Around' /\ SubmissionsPay'
    BY <1>2, StillAround, NotSent DEF ScanInv, Still
  <2> QED BY <2>1, <2>2, GivingUp, Idling DEF ScanInv
<1>4. ASSUME Answer # None PROVE TripOk(Answer)
  BY <1>1, <1>4, AnswerOk
<1>5. CASE Answer # None /\ setup.optimize
  <2>1. probe' = Answer /\ TryLeast(Sizes)
    BY <1>5 DEF Probed
  <2>2. Sizes \subseteq Nat \ {0} /\ Sizes # {}
    <3>1. ceiling \in Nat \ {0}
      BY <1>1, ScanConstants DEF ScanInv, Around, Kept
    <3> QED BY <3>1, ScanConstants DEF Sizes
  <2>3. TripOk(probe') /\ best' = None
    BY <1>1, <1>2, <1>4, <1>5, <2>1 DEF Kept
  <2> QED BY <1>2, <2>1, <2>2, <2>3, TryKeeps
<1>6. CASE Answer # None /\ ~ setup.optimize
  <2>1. Judge(Answer)
    BY <1>6 DEF Probed
  <2> QED BY <1>2, <1>4, <1>6, <2>1, JudgeKeeps
<1> QED BY <1>3, <1>5, <1>6

LEMMA SizedKeeps ==
  ASSUME ScanInv, Sized
  PROVE ScanInv'
<1>1. /\ stage \in {"quoted", "unquoted"} /\ trip.for = "size" /\ Underway /\ Partial /\ Kept
  BY DEF Sized, Concludes, ScanInv, Underway
<1>2. Still /\ sent' = sent
  BY DEF Sized, Still
<1> DEFINE better == IF Answer = None THEN best
                     ELSE IF best = None THEN Answer
                     ELSE IF Profit(Answer) > Profit(best) THEN Answer ELSE best
<1>3. /\ IF todo = {} THEN best' = None /\ Judge(IF better = None THEN probe ELSE better)
         ELSE best' = better /\ TryLeast(todo)
      /\ probe' = IF todo = {} \/ better # None THEN None ELSE probe
  BY DEF Sized
<1>4. Answer # None => TripOk(Answer)
  BY <1>1, AnswerOk
<1>5. todo \subseteq Nat \ {0} /\ (best # None => TripOk(best)) /\ (best = None => TripOk(probe))
  BY <1>1 DEF Kept
<1>6. (better # None => TripOk(better)) /\ (better = None => TripOk(probe))
  BY <1>4, <1>5
<1> HIDE DEF better
<1>7. CASE todo = {}
  <2> DEFINE q == IF better = None THEN probe ELSE better
  <2>1. TripOk(q) /\ Judge(q)
    BY <1>3, <1>6, <1>7
  <2> HIDE DEF q
  <2> QED BY <1>2, <2>1, JudgeKeeps
<1>8. CASE todo # {}
  <2>1. best' = better /\ TryLeast(todo) /\ probe' = IF better # None THEN None ELSE probe
    BY <1>3, <1>8
  <2>2. (best' # None => TripOk(best')) /\ (best' = None => TripOk(probe'))
    BY <1>6, <2>1
  <2> QED BY <1>2, <1>5, <1>8, <2>1, <2>2, TryKeeps
<1> QED BY <1>7, <1>8

LEMMA SelectKeeps ==
  ASSUME ScanInv, Select
  PROVE ScanInv'
<1>1. /\ Around' /\ (MinAmount <= ceiling' => (setup'.vault => \E b \in held' : ceiling' <= b))
      /\ SubmissionsPay' /\ quote' = quote
  BY CeilingKeeps, NotSent DEF ScanInv, Select
<1>2. TripOk(quote) /\ quote.amount \in Nat \ {0}
  BY DEF ScanInv, Chosen, Select, TripOk
<1>3. CASE GiveUp
  BY <1>1, <1>3, GivingUp, Idling DEF ScanInv
<1>4. ASSUME ~ (quote.amount < MinAmount \/ quote.amount > ceiling') PROVE InBounds(quote.amount)'
  <2>1. MinAmount \in Nat /\ ceiling' \in Nat
    BY <1>1, ScanConstants DEF Around
  <2>2. MinAmount <= quote.amount /\ quote.amount <= ceiling' /\ MinAmount <= ceiling'
    BY <1>2, <1>4, <2>1
  <2> QED BY <1>1, <2>2 DEF InBounds
<1>5. ASSUME InBounds(quote.amount)', NEW f \in {"again", "validate"}, NEW c, Asks(f, quote.amount, c)
      PROVE ScanInv'
  <2>1. Partial' /\ Shaped' /\ Chosen' /\ trip'.for = f /\ trip'.amount = quote.amount
    BY <1>2, <1>5, Asked DEF Purposes
  <2>2. InBounds(trip.amount)'
    BY <1>1, <1>5, <2>1 DEF InBounds
  <2>3. Kept'
    BY <1>1, <2>1, <2>2 DEF Kept
  <2> QED BY <1>1, <2>1, <2>3 DEF ScanInv
<1>6. ASSUME InBounds(quote.amount)', stage' = "fresh", trip' = trip PROVE ScanInv'
  <2>1. Shaped' /\ ~ Underway'
    BY <1>6 DEF ScanInv, Shaped, Underway
  <2>2. Chosen'
    BY <1>1, <1>2, <1>6 DEF Chosen
  <2> QED BY <1>1, <2>1, <2>2 DEF ScanInv
<1>7. CASE quote.amount < MinAmount \/ quote.amount > ceiling'
  BY <1>3, <1>7 DEF Select
<1>8. CASE ~ (quote.amount < MinAmount \/ quote.amount > ceiling')
  <2>1. \/ Asks("again", quote.amount, setup.validate)
        \/ Asks("validate", quote.amount, TRUE)
        \/ stage' = "fresh" /\ trip' = trip
    BY <1>8 DEF Select
  <2> QED BY <1>4, <1>5, <1>6, <1>8, <2>1
<1> QED BY <1>7, <1>8

LEMMA RequotedKeeps ==
  ASSUME ScanInv, Requoted
  PROVE ScanInv'
<1>1. /\ stage \in {"quoted", "unquoted"} /\ trip.for \in {"again", "validate"}
      /\ Underway /\ Partial /\ Kept
  BY DEF Requoted, Concludes, ScanInv, Underway
<1>2. Still /\ UNCHANGED sent
  BY DEF Requoted, Still, scan
<1>3. Around' /\ SubmissionsPay'
  BY <1>2, StillAround, NotSent DEF ScanInv, Still
<1>4. CASE GiveUp
  BY <1>3, <1>4, GivingUp, Idling DEF ScanInv
<1>5. CASE /\ Answer # None /\ quote' = Answer
           /\ IF trip.for = "again" /\ ~setup.validate THEN Asks("validate", quote.amount, TRUE)
              ELSE stage' = "fresh" /\ trip' = NoTrip
  <2>1. TripOk(quote') /\ quote'.amount = trip.amount
    BY <1>1, <1>5, AnswerOk
  <2>2. InBounds(trip.amount) /\ trip.amount = quote.amount /\ trip.amount \in Nat \ {0}
    BY <1>1 DEF Kept, Partial
  <2>3. InBounds(trip.amount) => MinAmount <= trip.amount /\ trip.amount <= ceiling'
                                 /\ (setup'.vault => \E b \in held' : ceiling' <= b)
    BY <1>2 DEF InBounds, Still
  <2>4. InBounds(quote.amount)'
    BY <2>1, <2>2, <2>3 DEF InBounds
  <2>5. CASE Asks("validate", quote.amount, TRUE)
    <3>1. Partial' /\ Shaped' /\ Chosen' /\ trip'.for = "validate" /\ trip'.amount = quote.amount
      BY <2>2, <2>5, Asked DEF Purposes
    <3>2. trip'.amount = quote'.amount
      BY <2>1, <2>2, <3>1
    <3>3. InBounds(trip.amount)'
      BY <2>4, <3>2 DEF InBounds
    <3>4. Kept'
      BY <3>1, <3>2, <3>3 DEF Kept
    <3> QED BY <1>3, <3>1, <3>4 DEF ScanInv
  <2>6. CASE stage' = "fresh" /\ trip' = NoTrip
    <3>1. Shaped' /\ ~ Underway'
      BY <2>6 DEF Shaped, NoTrip, Underway
    <3>2. Chosen'
      BY <2>1, <2>4 DEF Chosen
    <3> QED BY <1>3, <3>1, <3>2 DEF ScanInv
  <2> QED BY <1>5, <2>5, <2>6
<1> QED BY <1>4, <1>5 DEF Requoted

\* From one place to another with the same opportunity.
LEMMA CarriesOn ==
  ASSUME ScanInv, Still, UNCHANGED <<trip, quote, sent>>, ~ Underway,
         \/ stage' = "idle"
         \/ stage \in {"fresh", "kept", "simulate"} /\ stage' \in {"fresh", "kept", "simulate"}
  PROVE ScanInv'
<1>1. Around' /\ SubmissionsPay'
  BY StillAround, NotSent DEF ScanInv, Still
<1>2. Shaped' /\ ~ Underway'
  BY DEF ScanInv, Shaped, Underway
<1>3. Chosen'
  <2>1. CASE stage' = "idle"
    BY <2>1, Idling
  <2>2. CASE stage \in {"fresh", "kept", "simulate"}
    <3>1. TripOk(quote) /\ InBounds(quote.amount)
      BY <2>2 DEF ScanInv, Chosen
    <3>2. InBounds(quote.amount)'
      BY <3>1 DEF InBounds, Still
    <3> QED BY <3>1, <3>2 DEF Chosen
  <2> QED BY <2>1, <2>2
<1> QED BY <1>1, <1>2, <1>3 DEF ScanInv

LEMMA FeeIsNumber == ASSUME price \in Nat, NEW fee \in Nat PROVE FeeInBase(fee) \in Nat
<1>1. Unit \in Nat \ {0}
  BY ScanConstants
<1> DEFINE x == fee * price
           y == x + Unit - 1
<1>2. x \in Nat
  OBVIOUS
<1> HIDE DEF x
<1>3. y \in Nat
  BY <1>1, <1>2
<1> HIDE DEF y
<1>4. y \div Unit \in Nat
  BY <1>1, <1>3
<1>5. FeeInBase(fee) = y \div Unit \/ FeeInBase(fee) = fee
  BY DEF FeeInBase, x, y
<1> QED BY <1>4, <1>5

LEMMA SimulatedKeeps ==
  ASSUME ScanInv, Simulated, MinProfit > 0
  PROVE ScanInv'
<1>1. /\ stage = "simulate" /\ Still /\ UNCHANGED <<trip, quote>> /\ ~ Underway /\ stage' = "idle"
  BY DEF Simulated, Still, scan, Underway
<1>2. TripOk(quote) /\ InBounds(quote.amount) /\ Around
  BY <1>1 DEF ScanInv, Chosen
<1>3. CASE sent' = sent
  BY <1>1, <1>3, CarriesOn
<1>4. ASSUME NEW fee \in Fees, Worth(fee, Returned(Operation(quote))),
             sent' = [op |-> Operation(quote), returned |-> Returned(Operation(quote)),
                      cost |-> FeeInBase(fee), known |-> held]
      PROVE ScanInv'
  <2> DEFINE x == Returned(Operation(quote))
             a == quote.amount
             c == FeeInBase(fee)
  <2>1. x \in Nat
    BY <1>2, ReturnedTyped DEF Around
  <2>2. a \in Nat /\ Operation(quote).amount = a
    BY <1>2, OperationIs DEF TripOk
  <2>3. c \in Nat
    BY <1>2, FeeIsNumber, ScanConstants DEF Around
  <2>4. Less(Less(x, a), c) >= MinProfit
    BY <1>4 DEF Worth
  <2> HIDE DEF x, a, c
  <2>5. x >= a + c + MinProfit
    <3>1. MinProfit \in Nat
      BY ScanConstants
    <3> QED BY <2>1, <2>2, <2>3, <2>4, <3>1 DEF Less
  <2>6. a \in MinAmount .. MaxAmount
    <3>1. MinAmount <= a /\ a <= ceiling /\ ceiling <= MaxAmount /\ ceiling \in Nat
      BY <1>2 DEF InBounds, Around, a
    <3> QED BY <2>2, <3>1, ScanConstants
  <2>7. setup.vault => \E b \in held : a <= b
    <3>1. ASSUME setup.vault PROVE \E b \in held : a <= b
      <4>1. PICK b \in held : ceiling <= b
        BY <1>2, <3>1 DEF InBounds
      <4>2. a <= ceiling /\ ceiling \in Nat
        BY <1>2 DEF InBounds, Around, a
      <4>3. b \in Int
        BY <1>2 DEF Around
      <4> QED BY <2>2, <4>1, <4>2, <4>3
    <3> QED BY <3>1
  <2>8. SubmissionsPay'
    <3>1. /\ sent'.returned = x /\ sent'.op.amount = a /\ sent'.cost = c /\ sent'.known = held
          /\ setup' = setup
      BY <1>1, <1>4, <2>2 DEF x, c, Still
    <3> QED BY <2>5, <2>6, <2>7, <3>1 DEF SubmissionsPay
  <2>9. Around'
    BY <1>1, <1>2, StillAround
  <2>10. Shaped' /\ Chosen' /\ ~ Underway'
    BY <1>1, Idling DEF ScanInv, Shaped
  <2> QED BY <2>8, <2>9, <2>10 DEF ScanInv
<1> QED BY <1>3, <1>4 DEF Simulated

LEMMA TooSmallKeeps ==
  ASSUME ScanInv, TooSmall
  PROVE ScanInv'
<1>1. stage = "simulate" /\ Still /\ UNCHANGED <<quote, sent>> /\ ~ Underway
  BY DEF TooSmall, Still, scan, Underway
<1>2. TripOk(quote) /\ InBounds(quote.amount) /\ Around
  BY <1>1 DEF ScanInv, Chosen
<1>3. CASE Asks("fallback", MinAmount, setup.validate)
  <2>1. Partial' /\ Shaped' /\ Chosen' /\ trip'.for = "fallback" /\ trip'.amount = MinAmount
    BY <1>3, Asked, ScanConstants DEF Purposes
  <2>2. MinAmount <= ceiling
    BY <1>2, ScanConstants DEF InBounds, Around, TripOk
  <2>3. InBounds(trip.amount)'
    BY <1>1, <1>2, <2>1, <2>2, ScanConstants DEF InBounds, Still
  <2>4. Kept'
    BY <2>1, <2>3 DEF Kept
  <2>5. Around' /\ SubmissionsPay'
    BY <1>1, <1>2, StillAround, NotSent DEF ScanInv, Still
  <2> QED BY <2>1, <2>4, <2>5 DEF ScanInv
<1>4. CASE stage' = "idle" /\ trip' = trip
  BY <1>1, <1>4, CarriesOn
<1> QED BY <1>3, <1>4 DEF TooSmall

LEMMA FellBackKeeps ==
  ASSUME ScanInv, FellBack
  PROVE ScanInv'
<1>1. /\ stage \in {"quoted", "unquoted"} /\ trip.for = "fallback"
      /\ Underway /\ Partial /\ Kept
  BY DEF FellBack, Concludes, ScanInv, Underway
<1>2. Still /\ UNCHANGED sent
  BY DEF FellBack, Still, scan
<1>3. Around' /\ SubmissionsPay'
  BY <1>2, StillAround, NotSent DEF ScanInv, Still
<1>4. CASE GiveUp
  BY <1>3, <1>4, GivingUp, Idling DEF ScanInv
<1>5. CASE Answer # None /\ quote' = Answer /\ stage' = "simulate" /\ trip' = NoTrip
  <2>1. TripOk(quote') /\ quote'.amount = trip.amount
    BY <1>1, <1>5, AnswerOk
  <2>2. InBounds(trip.amount)
    BY <1>1 DEF Kept
  <2>3. InBounds(quote.amount)'
    BY <1>2, <2>1, <2>2 DEF InBounds, Still
  <2>4. Shaped' /\ ~ Underway'
    BY <1>5 DEF Shaped, NoTrip, Underway
  <2>5. Chosen'
    BY <2>1, <2>3 DEF Chosen
  <2> QED BY <1>3, <2>4, <2>5 DEF ScanInv
<1> QED BY <1>4, <1>5 DEF FellBack

\* What happens around the bot leaves what it works on as it is.
LEMMA OutsideKeeps ==
  ASSUME ScanInv, UNCHANGED <<setup, stage, trip, scan, quote, tried, sent>>, Around',
         held \subseteq held'
  PROVE ScanInv'
<1>1. /\ setup' = setup /\ stage' = stage /\ trip' = trip /\ ceiling' = ceiling /\ probe' = probe
      /\ best' = best /\ todo' = todo /\ quote' = quote /\ sent' = sent
  BY DEF scan
<1>2. SubmissionsPay'
  BY <1>1, NotSent DEF ScanInv
<1>3. \A a : InBounds(a) => MinAmount <= a /\ a <= ceiling' /\ (setup'.vault => \E b \in held' : ceiling' <= b)
  BY <1>1 DEF InBounds
<1>4. Shaped' /\ (Underway' <=> Underway)
  BY <1>1 DEF ScanInv, Shaped, Underway
<1>5. Chosen'
  <2>1. InBounds(quote.amount) => InBounds(quote.amount)'
    BY <1>1, <1>3 DEF InBounds
  <2> QED BY <1>1, <2>1 DEF ScanInv, Chosen
<1>6. ASSUME Underway PROVE Partial' /\ Kept'
  <2>1. Partial /\ Kept
    BY <1>6 DEF ScanInv
  <2>2. Partial'
    BY <1>1, <2>1 DEF Partial
  <2>3. InBounds(trip.amount) => InBounds(trip.amount)'
    BY <1>1, <1>3 DEF InBounds
  <2>4. Kept'
    BY <1>1, <2>1, <2>3 DEF Kept
  <2> QED BY <2>2, <2>4
<1> QED BY <1>2, <1>4, <1>5, <1>6 DEF ScanInv

LEMMA MovesKeep ==
  ASSUME ScanInv, MarketMoves \/ Refresh \/ VaultMoves \/ Expire
  PROVE ScanInv'
<1>1. CASE MarketMoves
  <2>1. Around'
    BY <1>1, MarketsAre DEF MarketMoves, ScanInv, Around, scan
  <2> QED BY <1>1, <2>1, OutsideKeeps DEF MarketMoves
<1>2. CASE Refresh
  <2>1. price' \in Nat
    BY <1>2, ScanConstants DEF Refresh, ScanInv, Around
  <2>2. Around'
    BY <1>2, <2>1 DEF Refresh, ScanInv, Around, scan
  <2> QED BY <1>2, <2>2, OutsideKeeps DEF Refresh
<1>3. CASE VaultMoves
  <2>1. balance' \in Nat
    BY <1>3, ScanConstants DEF VaultMoves
  <2>2. Around' /\ held \subseteq held'
    BY <1>3, <2>1 DEF VaultMoves, ScanInv, Around, scan
  <2> QED BY <1>3, <2>2, OutsideKeeps DEF VaultMoves
<1>4. CASE Expire
  <2>1. Around'
    BY <1>4 DEF Expire, ScanInv, Around, scan, outside
  <2> QED BY <1>4, <2>1, OutsideKeeps DEF Expire
<1> QED BY <1>1, <1>2, <1>3, <1>4

LEMMA ScanStart == ScanInit => ScanInv
<1> SUFFICES ASSUME ScanInit PROVE ScanInv
  OBVIOUS
<1>1. stage = "idle" /\ trip = NoTrip /\ sent = None
  BY DEF ScanInit
<1>2. Around
  BY MarketsAre, ScanConstants DEF ScanInit, Around
<1>3. Shaped /\ Chosen /\ SubmissionsPay /\ ~ Underway
  BY <1>1 DEF Shaped, NoTrip, Chosen, SubmissionsPay, Underway
<1> QED BY <1>2, <1>3 DEF ScanInv

LEMMA ScanStep ==
  ASSUME MinProfit > 0
  PROVE ScanInv /\ [ScanNext]_svars => ScanInv'
<1> SUFFICES ASSUME ScanInv, [ScanNext]_svars PROVE ScanInv'
  OBVIOUS
<1>1. CASE CheckAge \/ ReadNetwork \/ Unsimulated
  <2>1. Still /\ UNCHANGED <<trip, quote, sent>>
    BY <1>1 DEF CheckAge, ReadNetwork, Unsimulated, Still, scan
  <2>2. /\ ~ Underway
        /\ \/ stage' = "idle"
           \/ stage \in {"fresh", "kept", "simulate"} /\ stage' \in {"fresh", "kept", "simulate"}
    BY <1>1 DEF CheckAge, ReadNetwork, Unsimulated, Underway
  <2> QED BY <2>1, <2>2, CarriesOn
<1>2. CASE UNCHANGED svars
  <2>1. UNCHANGED <<setup, stage, trip, scan, quote, tried, sent>> /\ held' = held
    BY <1>2 DEF svars
  <2>2. Around'
    BY <1>2 DEF svars, outside, scan, ScanInv, Around
  <2> QED BY <2>1, <2>2, OutsideKeeps
<1> QED
  BY <1>1, <1>2, EvaluateKeeps, QuoteLegKeeps, ProbedKeeps, SizedKeeps, SelectKeeps, RequotedKeeps,
     SimulatedKeeps, TooSmallKeeps, FellBackKeeps, MovesKeep DEF ScanNext

(***************************************************************************)
(* For any pools, reserves, routes and limits, however the market and the  *)
(* vault move and whatever the API answers: what is handed to submit       *)
(* returned its input, its fees and the configured profit when it was      *)
(* simulated, and within what the configuration and the vault allow; and a *)
(* round trip all of whose quotes tell the present market settles to the   *)
(* unit as it was quoted (bridge.rs, invoke.rs, execute.rs).  The profit   *)
(* asked for must be positive: with none, fees above what is left pass the *)
(* gate, whose subtractions stop at zero.                                  *)
(***************************************************************************)
THEOREM TripsJudgedTrue ==
  ASSUME MinProfit > 0
  PROVE ScanSpec => []TripsAreJudgedTrue
<1>1. ScanInv => TripsAreJudgedTrue
  <2> SUFFICES ASSUME ScanInv PROVE TripsAreJudgedTrue
    OBVIOUS
  <2>1. SubmissionsPay
    BY DEF ScanInv
  <2>2. QuoteIsWhatSettles
    <3> SUFFICES ASSUME stage = "simulate", \A leg \in quote.told : leg.state = market, Apart(quote)
                 PROVE Returned(Operation(quote)) = quote.back.out
      BY DEF QuoteIsWhatSettles
    <3>1. TripOk(quote) /\ market \in DOMAIN Markets
      BY DEF ScanInv, Chosen, Around
    <3> QED BY <3>1, SettlesAsQuoted
  <2> QED BY <2>1, <2>2 DEF TripsAreJudgedTrue
<1>2. ScanInv /\ [ScanNext]_svars => ScanInv'
  BY ScanStep
<1> QED BY <1>1, <1>2, ScanStart, PTL DEF ScanSpec

-----------------------------------------------------------------------------
(***************************************************************************)
(* The book of simulation attempts                                         *)
(***************************************************************************)

\* Sets of dimensions.
LEMMA BookConstants ==
  /\ Keys \in Nat \ {0} /\ MaxPending \in Nat \ {0} /\ BatchSize \in Nat \ {0}
  /\ MaxRows \in Nat \ {0} /\ RetainedDays \in Nat /\ DayOf \in [Dimensions -> Nat]
  /\ \A d \in Dimensions : d \in Int /\ d \in Nat /\ 1 <= d /\ d <= Keys
  BY BookAssumption DEF BookAssumption, Dimensions

LEMMA DimensionSets ==
  ASSUME NEW S \in SUBSET Dimensions
  PROVE IsFiniteSet(S) /\ Cardinality(S) \in Nat
        /\ \A T \in SUBSET S : IsFiniteSet(T) /\ Cardinality(T) \in Nat
                               /\ Cardinality(T) <= Cardinality(S)
<1>1. IsFiniteSet(Dimensions)
  BY BookConstants, FS_Interval DEF Dimensions
<1>2. IsFiniteSet(S)
  BY <1>1, FS_Subset
<1> QED BY <1>2, FS_Subset, FS_CardinalityType

LEMMA GreatestDimension ==
  ASSUME NEW S \in SUBSET Dimensions, S # {}
  PROVE \E n \in S : \A m \in S : m <= n
<1> DEFINE R == {Keys - m : m \in S}
<1>1. R \subseteq Nat /\ R # {}
  <2>1. ASSUME NEW m \in S PROVE Keys - m \in Nat
    BY BookConstants
  <2> QED BY <2>1
<1>2. PICK r \in R : \A q \in R : r <= q
  BY <1>1, LeastNumber
<1>3. PICK n \in S : r = Keys - n
  OBVIOUS
<1>4. ASSUME NEW m \in S PROVE m <= n
  <2>1. Keys - n <= Keys - m
    BY <1>2, <1>3
  <2> QED BY <2>1, BookConstants DEF Dimensions
<1> QED BY <1>4

LEMMA MaxDimension ==
  ASSUME NEW S \in SUBSET Dimensions, S # {}
  PROVE Max(S) \in S /\ \A m \in S : m <= Max(S)
<1>1. \E n \in S : \A m \in S : n >= m
  BY GreatestDimension DEF Dimensions
<1> QED BY <1>1 DEF Max

LEMMA Together ==
  ASSUME NEW S \in SUBSET Dimensions, NEW T \in SUBSET Dimensions
  PROVE /\ Cardinality(S \union T) <= Cardinality(S) + Cardinality(T)
        /\ S \cap T = {} => Cardinality(S \union T) = Cardinality(S) + Cardinality(T)
<1>1. Cardinality(S \union T) = Cardinality(S) + Cardinality(T) - Cardinality(S \cap T)
  BY DimensionSets, FS_Union
<1>2. Cardinality(S \cap T) \in Nat /\ (S \cap T = {} => Cardinality(S \cap T) = 0)
  BY DimensionSets, FS_EmptySet
<1>3. Cardinality(S) \in Nat /\ Cardinality(T) \in Nat
  BY DimensionSets
<1> QED BY <1>1, <1>2, <1>3

Below(ds, d) == {e \in ds : e < d}

\* A set of dimensions is within what lies below a greatest one, and it.
LEMMA OneAbove ==
  ASSUME NEW ds \in SUBSET Dimensions, NEW d \in ds
  PROVE Cardinality(Below(ds, d) \union {d}) = Cardinality(Below(ds, d)) + 1
<1>1. Below(ds, d) \in SUBSET Dimensions /\ d \notin Below(ds, d)
  BY BookConstants DEF Below
<1> QED BY <1>1, DimensionSets, FS_AddElement

LEMMA SmallestOnes ==
  ASSUME NEW ds \in SUBSET Dimensions, NEW n \in Nat
  PROVE /\ Smallest(ds, n) \in SUBSET ds
        /\ Cardinality(Smallest(ds, n)) <= n
        /\ n = 0 => Smallest(ds, n) = {}
        /\ \A d \in ds \ Smallest(ds, n) :
             /\ Cardinality(Smallest(ds, n)) = n
             /\ \A e \in Smallest(ds, n) : e < d
<1> DEFINE M == Smallest(ds, n)
<1>1. M = {d \in ds : Cardinality(Below(ds, d)) < n} /\ M \in SUBSET ds /\ M \in SUBSET Dimensions
  BY DEF Smallest, Below
<1>2. \A d \in ds : Below(ds, d) \in SUBSET Dimensions /\ Cardinality(Below(ds, d)) \in Nat
  BY DimensionSets DEF Below
<1> HIDE DEF M
<1>3. Cardinality(M) <= n
  <2>1. CASE M = {}
    BY <2>1, FS_EmptySet
  <2>2. CASE M # {}
    <3>1. PICK d \in M : \A m \in M : m <= d
      BY <1>1, <2>2, GreatestDimension
    <3>2. M \subseteq Below(ds, d) \union {d}
      BY <1>1, <3>1 DEF Below, Dimensions
    <3>3. Cardinality(M) <= Cardinality(Below(ds, d) \union {d})
      BY <1>1, <1>2, <3>2, DimensionSets
    <3>4. Cardinality(Below(ds, d) \union {d}) = Cardinality(Below(ds, d)) + 1
      BY <1>1, <3>1, OneAbove
    <3>5. Cardinality(Below(ds, d)) < n /\ Cardinality(Below(ds, d)) \in Nat /\ Cardinality(M) \in Nat
      BY <1>1, <1>2, <3>1, DimensionSets
    <3> QED BY <3>3, <3>4, <3>5
  <2> QED BY <2>1, <2>2
<1>4. n = 0 => M = {}
  BY <1>1, <1>2
<1>5. ASSUME NEW d \in ds \ M PROVE Cardinality(M) = n /\ \A e \in M : e < d
  <2>1. ASSUME NEW e \in M PROVE e < d
    <3> SUFFICES ASSUME d <= e PROVE FALSE
      BY <1>1 DEF Dimensions
    <3>1. Below(ds, d) \subseteq Below(ds, e)
      <4>1. \A x \in ds : x < d => x < e
        BY <1>1, <1>5, <2>1, BookConstants
      <4> QED BY <4>1 DEF Below
    <3>2. Cardinality(Below(ds, d)) <= Cardinality(Below(ds, e))
      BY <1>1, <1>2, <2>1, <3>1, DimensionSets
    <3> QED BY <1>1, <1>2, <1>5, <2>1, <3>2
  <2>2. PICK u \in ds \ M : \A v \in ds \ M : u <= v
    <3>1. ds \ M \subseteq Nat
      BY BookConstants
    <3> QED BY <1>5, <3>1, LeastNumber
  <2>3. Below(ds, u) \subseteq M
    <3>1. \A x \in ds : x < u => ~ (u <= x)
      BY BookConstants
    <3> QED BY <2>2, <3>1 DEF Below
  <2>4. Cardinality(Below(ds, u)) <= Cardinality(M) /\ Cardinality(M) \in Nat
    BY <1>1, <2>3, DimensionSets
  <2>5. Cardinality(Below(ds, u)) >= n
    BY <1>1, <1>2, <2>2
  <2>6. Cardinality(M) = n
    BY <1>2, <1>3, <2>2, <2>4, <2>5
  <2> QED BY <2>1, <2>6
<1> QED BY <1>1, <1>3, <1>4, <1>5 DEF M

-----------------------------------------------------------------------------
\* How far dimension d is from the cursor, on the round that batches take.
Distance(c, d) == IF c < d THEN d - c - 1 ELSE d - c - 1 + Keys

BookTypeOK ==
  /\ waiting \in [Dimensions -> Nat] /\ taken \in [Dimensions -> Nat]
  /\ stored \in [Dimensions -> Nat] /\ passed \in [Dimensions -> Nat]
  /\ cursor \in 0 .. Keys
  /\ dropped \in Int /\ recorded \in Int /\ retired \in Int

Balance == recorded = Attempts(waiting) + Attempts(taken) + Attempts(stored) + retired + dropped

Bounded ==
  /\ Cardinality(PendingOf(waiting)) <= MaxPending
  /\ Cardinality(PendingOf(stored)) <= MaxRows

\* A dimension that waits has been passed over by full batches that lay
\* before it on the round.
InTurn ==
  \A d \in Dimensions :
    /\ passed[d] * BatchSize + Distance(cursor, d) < Keys
    /\ waiting[d] = 0 => passed[d] = 0

BookInv == BookTypeOK /\ Balance /\ Bounded /\ InTurn

-----------------------------------------------------------------------------
LEMMA AttemptsSum ==
  /\ IsFiniteSet(Dimensions)
  /\ \A w : Attempts(w) = SumOver(w, Dimensions)
  /\ Attempts(Nothing) = 0
<1>1. IsFiniteSet(Dimensions)
  BY DimensionSets
<1>2. \A w : Attempts(w) = SumOver(w, Dimensions)
  BY DEF Attempts, SumOver
<1>3. SumOver(Nothing, Dimensions) = 0
  BY <1>1, SumZero DEF Nothing
<1> QED BY <1>1, <1>2, <1>3

LEMMA AttemptsAdd ==
  ASSUME NEW u \in [Dimensions -> Nat], NEW v \in [Dimensions -> Nat], NEW w,
         \A d \in Dimensions : w[d] = u[d] + v[d]
  PROVE Attempts(w) = Attempts(u) + Attempts(v) /\ Attempts(u) \in Int /\ Attempts(v) \in Int
<1>1. SumOver(w, Dimensions) = SumOver(u, Dimensions) + SumOver(v, Dimensions)
  BY AttemptsSum, SumAdds
<1>2. SumOver(u, Dimensions) \in Int /\ SumOver(v, Dimensions) \in Int
  BY AttemptsSum, SumInt
<1> QED BY <1>1, <1>2, AttemptsSum

LEMMA PendingAre ==
  ASSUME NEW w
  PROVE PendingOf(w) \in SUBSET Dimensions
  BY DEF PendingOf

LEMMA RecordKeepsBook ==
  ASSUME BookInv, NEW ds \in SUBSET Dimensions, RecordSimulation(ds)
  PROVE BookInv'
<1> USE DEF BookInv
<1> DEFINE full(d) == d \notin PendingOf(waiting)
                      /\ Cardinality(PendingOf(waiting) \union Below(ds, d)) >= MaxPending
           late == {d \in ds : full(d)}
           kept == ds \ late
           ones == [d \in Dimensions |-> IF d \in kept THEN 1 ELSE 0]
<1>1. /\ waiting' = [d \in Dimensions |-> IF d \in kept THEN waiting[d] + 1 ELSE waiting[d]]
      /\ dropped' = dropped + Cardinality(late)
      /\ recorded' = recorded + Cardinality(ds)
      /\ UNCHANGED <<cursor, taken, stored, retired, passed>>
  BY DEF RecordSimulation, Below
<1>2. late \in SUBSET ds /\ kept \in SUBSET ds /\ late \cap kept = {} /\ late \union kept = ds
      /\ late \in SUBSET Dimensions /\ kept \in SUBSET Dimensions
  OBVIOUS
<1>3. \A d \in kept : d \in PendingOf(waiting)
                      \/ ~ (Cardinality(PendingOf(waiting) \union Below(ds, d)) >= MaxPending)
  OBVIOUS
<1> HIDE DEF late, kept
<1>4. BookTypeOK'
  <2>1. waiting' \in [Dimensions -> Nat]
    BY <1>1 DEF BookTypeOK
  <2>2. Cardinality(late) \in Int /\ Cardinality(ds) \in Int
    BY <1>2, DimensionSets
  <2> QED BY <1>1, <2>1, <2>2 DEF BookTypeOK
<1>5. Balance'
  <2>1. ones \in [Dimensions -> Nat] /\ \A d \in Dimensions : waiting'[d] = waiting[d] + ones[d]
    BY <1>1 DEF BookTypeOK
  <2>2. Attempts(waiting') = Attempts(waiting) + Attempts(ones) /\ Attempts(waiting) \in Int
    BY <2>1, AttemptsAdd DEF BookTypeOK
  <2>3. Attempts(ones) = Cardinality(kept)
    <3> DEFINE one == [d \in kept |-> 1]
    <3>1. \A d \in kept : one[d] = 1
      OBVIOUS
    <3>2. \A d \in Dimensions : ones[d] = IF d \in kept THEN one[d] ELSE 0
      OBVIOUS
    <3> HIDE DEF one, ones
    <3>3. SumOver(ones, Dimensions) = SumOver(one, kept)
      BY <1>2, <3>1, <3>2, AttemptsSum, SumWithin
    <3>4. SumOver(one, kept) = Cardinality(kept)
      BY <1>2, <3>1, DimensionSets, SumOnes
    <3> QED BY <3>3, <3>4, AttemptsSum
  <2>4. Cardinality(ds) = Cardinality(late) + Cardinality(kept)
        /\ Cardinality(late) \in Int /\ Cardinality(kept) \in Int
    BY <1>2, Together, DimensionSets
  <2>5. Attempts(taken) \in Int /\ Attempts(stored) \in Int
    BY AttemptsSum, SumInt DEF BookTypeOK
  <2> HIDE DEF ones
  <2>6. Attempts(taken') = Attempts(taken) /\ Attempts(stored') = Attempts(stored)
    BY <1>1
  <2> QED BY <1>1, <2>2, <2>3, <2>4, <2>5, <2>6 DEF Balance, BookTypeOK
<1>6. Bounded'
  <2> DEFINE P == PendingOf(waiting)
  <2>1. PendingOf(waiting') = P \union kept
    BY <1>1, <1>2 DEF PendingOf, BookTypeOK
  <2>2. P \in SUBSET Dimensions
    BY PendingAre
  <2>3. Cardinality(P \union kept) <= MaxPending
    <3>1. CASE kept \subseteq P
      <4>1. P \union kept = P
        BY <3>1
      <4> QED BY <4>1 DEF Bounded
    <3>2. CASE ~ (kept \subseteq P)
      <4>1. PICK d \in kept \ P : \A e \in kept \ P : e <= d
        BY <1>2, <3>2, GreatestDimension
      <4> DEFINE Q == P \union Below(ds, d)
      <4>2. Q \in SUBSET Dimensions /\ d \in Dimensions
        BY <1>2, <2>2, <4>1 DEF Below
      <4>3. Cardinality(Q) < MaxPending
        BY <1>3, <4>1, <4>2, DimensionSets, BookConstants
      <4>4. P \union kept \subseteq Q \union {d}
        <5>1. \A e \in Dimensions : e <= d => e = d \/ e < d
          BY <4>2, BookConstants
        <5> QED BY <1>2, <4>1, <5>1 DEF Below
      <4>5. Cardinality(Q \union {d}) <= Cardinality(Q) + 1
        <5>1. Cardinality({d}) = 1
          BY FS_Singleton
        <5> QED BY <4>2, <5>1, Together
      <4>6. Cardinality(P \union kept) <= Cardinality(Q \union {d})
        BY <4>2, <4>4, DimensionSets
      <4>7. Cardinality(Q) \in Nat /\ Cardinality(Q \union {d}) \in Nat
            /\ Cardinality(P \union kept) \in Nat
        BY <1>2, <2>2, <4>2, DimensionSets
      <4> QED BY <4>3, <4>5, <4>6, <4>7, BookConstants
    <3> QED BY <3>1, <3>2
  <2> QED BY <1>1, <2>1, <2>3 DEF Bounded
<1>7. InTurn'
  <2>1. \A d \in Dimensions : waiting'[d] = 0 => waiting[d] = 0
    BY <1>1 DEF BookTypeOK
  <2> QED BY <1>1, <2>1 DEF InTurn, Distance
<1> QED BY <1>4, <1>5, <1>6, <1>7

\* The two halves of a batch, and where it leaves the cursor.
LEMMA BatchTaken ==
  ASSUME BookTypeOK, PendingOf(waiting) # {}, NEW behind, NEW round,
         behind = Smallest({d \in PendingOf(waiting) : d > cursor}, BatchSize),
         round = Smallest({d \in PendingOf(waiting) : d <= cursor}, BatchSize - Cardinality(behind))
  PROVE /\ Batch = behind \union round /\ Batch # {}
        /\ behind \in SUBSET Dimensions /\ round \in SUBSET Dimensions
        /\ \A d \in behind : d > cursor
        /\ \A d \in round : d <= cursor
        /\ Cardinality(behind) \in Nat /\ Cardinality(behind) <= BatchSize
        /\ BatchSize - Cardinality(behind) \in Nat
        /\ {d \in Batch : d <= cursor} = round
<1> DEFINE P == PendingOf(waiting)
           above == {d \in P : d > cursor}
           upto == {d \in P : d <= cursor}
<1>1. P \in SUBSET Dimensions /\ above \in SUBSET Dimensions /\ upto \in SUBSET Dimensions
  BY PendingAre
<1>2. Batch = behind \union round
  BY DEF Batch
<1>3. behind \in SUBSET above /\ Cardinality(behind) <= BatchSize
      /\ \A d \in above \ behind : Cardinality(behind) = BatchSize
  BY <1>1, SmallestOnes, BookConstants
<1>4. Cardinality(behind) \in Nat /\ BatchSize - Cardinality(behind) \in Nat
  <2>1. Cardinality(behind) \in Nat
    BY <1>1, <1>3, DimensionSets
  <2> QED BY <1>3, <2>1, BookConstants
<1>5. round \in SUBSET upto
      /\ \A d \in upto \ round : Cardinality(round) = BatchSize - Cardinality(behind)
  <2> DEFINE n == BatchSize - Cardinality(behind)
  <2>1. n \in Nat /\ round = Smallest(upto, n)
    BY <1>4
  <2> HIDE DEF n, upto
  <2>2. round \in SUBSET upto /\ \A d \in upto \ round : Cardinality(round) = n
    BY <1>1, <2>1, SmallestOnes
  <2> QED BY <2>2 DEF n
<1>6. Batch # {}
  <2> SUFFICES ASSUME behind = {}, round = {} PROVE FALSE
    BY <1>2
  <2>1. Cardinality(behind) = 0 /\ Cardinality(round) = 0
    BY FS_EmptySet
  <2>2. above = {} /\ upto = {}
    <3>1. 0 # BatchSize /\ BatchSize - 0 # 0
      BY BookConstants
    <3>2. \A d \in above : Cardinality(behind) = BatchSize
      BY <1>3
    <3>3. \A d \in upto : Cardinality(round) = BatchSize - Cardinality(behind)
      BY <1>5
    <3> HIDE DEF above, upto
    <3> QED BY <2>1, <3>1, <3>2, <3>3
  <2>3. \A d \in P : d > cursor \/ d <= cursor
    BY <1>1, BookConstants DEF BookTypeOK
  <2> QED BY <2>2, <2>3
<1>7. {d \in Batch : d <= cursor} = round
  <2>1. \A d \in above : ~ (d <= cursor)
    BY <1>1, BookConstants DEF BookTypeOK
  <2> QED BY <1>2, <1>3, <1>5, <2>1
<1> QED BY <1>1, <1>2, <1>3, <1>4, <1>5, <1>6, <1>7

\* A dimension that waits and is not taken is nearer by a full batch.
LEMMA Nearer ==
  ASSUME BookTypeOK, NEW d \in PendingOf(waiting), d \notin Batch, NEW c,
         c = LET wrapped == {e \in Batch : e <= cursor}
             IN IF wrapped = {} THEN Max(Batch) ELSE Max(wrapped)
  PROVE Distance(c, d) + BatchSize <= Distance(cursor, d)
<1> DEFINE P == PendingOf(waiting)
           above == {e \in P : e > cursor}
           upto == {e \in P : e <= cursor}
           behind == Smallest(above, BatchSize)
           round == Smallest(upto, BatchSize - Cardinality(behind))
<1>1. P \in SUBSET Dimensions /\ above \in SUBSET Dimensions /\ upto \in SUBSET Dimensions
  BY PendingAre
<1>2. /\ Batch = behind \union round /\ Batch # {}
      /\ behind \in SUBSET Dimensions /\ round \in SUBSET Dimensions
      /\ \A e \in behind : e > cursor
      /\ \A e \in round : e <= cursor
      /\ Cardinality(behind) \in Nat /\ Cardinality(behind) <= BatchSize
      /\ BatchSize - Cardinality(behind) \in Nat
      /\ {e \in Batch : e <= cursor} = round
  BY BatchTaken
<1>3. \A e \in above \ behind : Cardinality(behind) = BatchSize /\ \A x \in behind : x < e
  BY <1>1, SmallestOnes, BookConstants
<1>4. /\ \A e \in upto \ round : /\ Cardinality(round) = BatchSize - Cardinality(behind)
                                 /\ \A x \in round : x < e
      /\ BatchSize - Cardinality(behind) = 0 => round = {}
  BY <1>1, <1>2, SmallestOnes
<1>5. c = IF round = {} THEN Max(Batch) ELSE Max(round)
  BY <1>2
<1>6. d \in Dimensions /\ d \notin behind /\ d \notin round
  BY <1>1, <1>2
<1>7. /\ d \in Nat /\ 1 <= d /\ d <= Keys /\ cursor \in Nat /\ cursor <= Keys /\ Keys \in Nat
      /\ BatchSize \in Nat
  BY <1>6, BookConstants DEF BookTypeOK
<1>8. d \in P
  OBVIOUS
<1>9. d > cursor => d \in above
  BY <1>8
<1>10. d <= cursor => d \in upto
  BY <1>8
<1> HIDE DEF P, above, upto, behind, round
\* As many dimensions as lie between two numbers.
<1>11. ASSUME NEW S \in SUBSET Dimensions, NEW a \in Nat, NEW b \in Nat, a <= b,
              \A e \in S : a < e /\ e <= b
       PROVE Cardinality(S) <= b - a /\ Cardinality(S) \in Nat
  <2>1. S \subseteq a + 1 .. b
    BY <1>11, BookConstants
  <2>2. IsFiniteSet(a + 1 .. b)
        /\ Cardinality(a + 1 .. b) = IF a + 1 > b THEN 0 ELSE b - (a + 1) + 1
    BY FS_Interval
  <2>3. Cardinality(S) <= Cardinality(a + 1 .. b)
    BY <2>1, <2>2, FS_Subset
  <2>4. Cardinality(S) \in Nat
    BY DimensionSets
  <2>5. Cardinality(a + 1 .. b) = b - a
    BY <1>11, <2>2
  <2> QED BY <2>3, <2>4, <2>5
<1>12. ASSUME NEW S \in SUBSET Dimensions, S # {}
       PROVE Max(S) \in S /\ Max(S) \in Nat /\ 1 <= Max(S) /\ Max(S) <= Keys /\ \A e \in S : e <= Max(S)
  BY <1>12, MaxDimension, BookConstants
<1>13. CASE d > cursor
  <2>1. Cardinality(behind) = BatchSize /\ \A x \in behind : x < d
    BY <1>3, <1>6, <1>9, <1>13
  <2>2. round = {} /\ Batch = behind
    BY <1>2, <1>4, <1>7, <2>1
  <2>3. c = Max(behind) /\ behind # {}
    BY <1>2, <1>5, <2>2
  <2>4. c \in behind /\ c \in Nat /\ cursor < c /\ c < d /\ \A e \in behind : e <= c
    BY <1>2, <1>12, <2>1, <2>3, <1>7
  <2>5. BatchSize <= c - cursor
    <3>1. cursor <= c
      BY <1>7, <2>4
    <3> QED BY <1>2, <1>7, <1>11, <2>1, <2>4, <3>1
  <2> QED BY <1>7, <1>13, <2>4, <2>5 DEF Distance
<1>14. CASE d <= cursor
  <2>1. Cardinality(round) = BatchSize - Cardinality(behind) /\ \A x \in round : x < d
    BY <1>4, <1>6, <1>10, <1>14
  <2>2. CASE round = {}
    <3>1. Cardinality(behind) = BatchSize /\ Batch = behind /\ behind # {}
      <4>1. Cardinality(round) = 0
        BY <2>2, FS_EmptySet
      <4> QED BY <1>2, <1>7, <2>1, <2>2, <4>1
    <3>2. c = Max(behind)
      BY <1>5, <2>2, <3>1
    <3>3. c \in behind /\ c \in Nat /\ c <= Keys /\ cursor < c /\ \A e \in behind : e <= c
      BY <1>2, <1>7, <1>12, <3>1, <3>2
    <3>4. BatchSize <= c - cursor
      <4>1. cursor <= c
        BY <1>7, <3>3
      <4> QED BY <1>2, <1>7, <1>11, <3>1, <3>3, <4>1
    <3> QED BY <1>7, <1>14, <3>3, <3>4 DEF Distance
  <2>3. CASE round # {}
    <3>1. c = Max(round)
      BY <1>5, <2>3
    <3>2. c \in round /\ c \in Nat /\ c < d /\ \A e \in round : e <= c
      BY <1>2, <1>12, <2>1, <2>3, <3>1
    <3>3. Cardinality(round) <= c
      <4>1. \A e \in round : 0 < e /\ e <= c
        BY <1>2, <3>2, BookConstants
      <4>2. Cardinality(round) <= c - 0
        <5>1. 0 \in Nat /\ c \in Nat /\ 0 <= c
          BY <3>2
        <5> QED BY <1>2, <1>11, <4>1, <5>1
      <4> QED BY <3>2, <4>2
    <3>4. Cardinality(behind) <= Keys - cursor
      <4>1. \A e \in behind : cursor < e /\ e <= Keys
        BY <1>2, <1>7, BookConstants
      <4> QED BY <1>2, <1>7, <1>11, <4>1
    <3>5. BatchSize <= Keys - cursor + c
      BY <1>2, <1>7, <2>1, <3>2, <3>3, <3>4
    <3> QED BY <1>7, <1>14, <3>2, <3>5 DEF Distance
  <2> QED BY <2>2, <2>3
<1> QED BY <1>7, <1>13, <1>14

LEMMA TakeKeepsBook ==
  ASSUME BookInv, TakeBatch
  PROVE BookInv'
<1> USE DEF BookInv
<1> DEFINE wrapped == {d \in Batch : d <= cursor}
           behind == Smallest({d \in PendingOf(waiting) : d > cursor}, BatchSize)
           round == Smallest({d \in PendingOf(waiting) : d <= cursor}, BatchSize - Cardinality(behind))
<1>1. /\ taken = Nothing /\ PendingOf(waiting) # {}
      /\ cursor' = IF wrapped = {} THEN Max(Batch) ELSE Max(wrapped)
      /\ taken' = [d \in Dimensions |-> IF d \in Batch THEN waiting[d] ELSE 0]
      /\ waiting' = [d \in Dimensions |-> IF d \in Batch THEN 0 ELSE waiting[d]]
      /\ passed' = [d \in Dimensions |-> IF waiting'[d] > 0 THEN passed[d] + 1 ELSE 0]
      /\ UNCHANGED <<stored, dropped, recorded, retired>>
  BY DEF TakeBatch
<1>2. Batch \in SUBSET Dimensions /\ Batch # {}
  <2>1. /\ behind = Smallest({d \in PendingOf(waiting) : d > cursor}, BatchSize)
        /\ round = Smallest({d \in PendingOf(waiting) : d <= cursor},
                            BatchSize - Cardinality(behind))
    OBVIOUS
  <2> HIDE DEF behind, round
  <2>2. Batch = behind \union round /\ Batch # {}
        /\ behind \in SUBSET Dimensions /\ round \in SUBSET Dimensions
    BY <1>1, <2>1, BatchTaken
  <2> QED BY <2>2
<1>3. cursor' \in 1 .. Keys
  <2>1. \A S \in SUBSET Dimensions : S # {} => Max(S) \in Dimensions
    BY MaxDimension
  <2>2. wrapped \in SUBSET Dimensions
    BY <1>2
  <2> HIDE DEF wrapped
  <2>3. cursor' \in Dimensions
    BY <1>1, <1>2, <2>1, <2>2
  <2> QED BY <2>3, BookConstants
<1>4. BookTypeOK'
  <2>1. waiting' \in [Dimensions -> Nat]
    BY <1>1 DEF BookTypeOK
  <2>2. taken' \in [Dimensions -> Nat]
    BY <1>1 DEF BookTypeOK
  <2>3. passed' \in [Dimensions -> Nat]
    BY <1>1, <2>1 DEF BookTypeOK
  <2> QED BY <1>1, <1>3, <2>1, <2>2, <2>3, BookConstants DEF BookTypeOK
<1>5. Balance'
  <2>1. \A d \in Dimensions : waiting[d] = waiting'[d] + taken'[d]
    BY <1>1 DEF BookTypeOK
  <2>2. Attempts(waiting) = Attempts(waiting') + Attempts(taken')
        /\ Attempts(waiting') \in Int /\ Attempts(taken') \in Int
    BY <1>4, <2>1, AttemptsAdd DEF BookTypeOK
  <2>3. Attempts(taken) = 0 /\ Attempts(stored) \in Int /\ Attempts(stored') = Attempts(stored)
    <3>1. Attempts(taken) = 0
      BY <1>1, AttemptsSum
    <3>2. Attempts(stored) \in Int
      BY AttemptsSum, SumInt DEF BookTypeOK
    <3> QED BY <1>1, <3>1, <3>2
  <2> QED BY <1>1, <2>2, <2>3 DEF Balance, BookTypeOK
<1>6. Bounded'
  <2>1. PendingOf(waiting') \subseteq PendingOf(waiting)
    BY <1>1 DEF PendingOf, BookTypeOK
  <2>2. Cardinality(PendingOf(waiting')) <= Cardinality(PendingOf(waiting))
        /\ Cardinality(PendingOf(waiting')) \in Nat /\ Cardinality(PendingOf(waiting)) \in Nat
    BY <2>1, PendingAre, DimensionSets
  <2> QED BY <1>1, <2>2, BookConstants DEF Bounded
<1>7. ASSUME NEW d \in Dimensions
      PROVE passed'[d] * BatchSize + Distance(cursor', d) < Keys /\ (waiting'[d] = 0 => passed'[d] = 0)
  <2>1. passed'[d] = IF waiting'[d] > 0 THEN passed[d] + 1 ELSE 0
    BY <1>1
  <2>2. waiting'[d] \in Nat /\ waiting[d] \in Nat /\ passed[d] \in Nat /\ BatchSize \in Nat
    BY <1>4, BookConstants DEF BookTypeOK
  <2>3. CASE waiting'[d] = 0
    <3>1. passed'[d] = 0 /\ 0 * BatchSize = 0
      BY <2>1, <2>2, <2>3
    <3>2. Distance(cursor', d) < Keys /\ Distance(cursor', d) \in Int
      BY <1>3, BookConstants DEF Distance
    <3> QED BY <3>1, <3>2
  <2>4. CASE waiting'[d] # 0
    <3>1. d \in PendingOf(waiting) /\ d \notin Batch
      BY <1>1, <2>2, <2>4 DEF PendingOf
    <3>2. Distance(cursor', d) + BatchSize <= Distance(cursor, d)
      BY <1>1, <3>1, Nearer
    <3>3. (passed[d] + 1) * BatchSize = passed[d] * BatchSize + BatchSize
      BY <2>2
    <3>4. passed[d] * BatchSize \in Int /\ Distance(cursor', d) \in Int /\ Distance(cursor, d) \in Int
          /\ Keys \in Int
      BY <1>3, <2>2, BookConstants DEF Distance, BookTypeOK
    <3>5. passed[d] * BatchSize + Distance(cursor, d) < Keys
      BY DEF InTurn
    <3>6. passed'[d] = passed[d] + 1
      BY <2>1, <2>2, <2>4
    <3> QED BY <2>2, <2>4, <3>2, <3>3, <3>4, <3>5, <3>6
  <2> QED BY <2>3, <2>4
<1> QED BY <1>4, <1>5, <1>6, <1>7 DEF InTurn

LEMMA PersistKeepsBook ==
  ASSUME BookInv, Persist
  PROVE BookInv'
<1> USE DEF BookInv
<1> DEFINE sum == [d \in Dimensions |-> stored[d] + taken[d]]
<1>1. PICK kept \in Retained(PendingOf(sum)) :
        /\ stored' = [d \in Dimensions |-> IF d \in kept THEN sum[d] ELSE 0]
        /\ retired' = retired + Attempts(sum) - Attempts(stored')
  BY DEF Persist
<1>2. taken' = Nothing /\ UNCHANGED <<waiting, cursor, dropped, recorded, passed>>
  BY DEF Persist
<1>3. sum \in [Dimensions -> Nat] /\ \A d \in Dimensions : sum[d] = stored[d] + taken[d]
  BY DEF BookTypeOK
<1> HIDE DEF sum
<1>4. stored' \in [Dimensions -> Nat] /\ taken' \in [Dimensions -> Nat]
  BY <1>1, <1>2, <1>3 DEF Nothing
<1>5. Attempts(sum) = Attempts(stored) + Attempts(taken)
      /\ Attempts(stored) \in Int /\ Attempts(taken) \in Int
  BY <1>3, AttemptsAdd DEF BookTypeOK
<1>6. Attempts(stored') \in Int /\ Attempts(taken') = 0 /\ Attempts(waiting) \in Int
  <2>1. Attempts(stored') \in Int
    BY <1>4, AttemptsSum, SumInt
  <2>2. Attempts(waiting) \in Int
    BY AttemptsSum, SumInt DEF BookTypeOK
  <2> QED BY <1>2, <2>1, <2>2, AttemptsSum
<1>7. BookTypeOK'
  BY <1>1, <1>2, <1>4, <1>5, <1>6 DEF BookTypeOK
<1>8. Balance'
  <2>1. Attempts(waiting') = Attempts(waiting)
    BY <1>2
  <2> QED BY <1>1, <1>2, <1>5, <1>6, <2>1 DEF Balance, BookTypeOK
<1>9. Bounded'
  <2> DEFINE young == {d \in PendingOf(sum) : DayOf[d] + RetainedDays >= today}
  <2>1. young \in SUBSET Dimensions
    BY PendingAre
  <2>2. kept \in SUBSET young
        /\ Cardinality(kept) = IF Cardinality(young) <= MaxRows THEN Cardinality(young) ELSE MaxRows
    BY <1>1 DEF Retained
  <2> HIDE DEF young
  <2>3. Cardinality(young) \in Nat
    BY <2>1, DimensionSets
  <2>4. PendingOf(stored') \subseteq kept
    BY <1>1 DEF PendingOf
  <2>5. Cardinality(PendingOf(stored')) <= Cardinality(kept) /\ Cardinality(kept) \in Nat
        /\ Cardinality(PendingOf(stored')) \in Nat
    BY <2>1, <2>2, <2>4, DimensionSets
  <2> QED BY <1>2, <2>2, <2>3, <2>5, BookConstants DEF Bounded
<1>10. InTurn'
  BY <1>2 DEF InTurn, Distance
<1> QED BY <1>7, <1>8, <1>9, <1>10

LEMMA RestoreKeepsBook ==
  ASSUME BookInv, Restore
  PROVE BookInv'
<1> USE DEF BookInv
<1> DEFINE P == PendingOf(waiting)
           back == {d \in Dimensions : taken[d] > 0}
           new == back \ P
           room == MaxPending - Cardinality(P)
           fits == Smallest(new, room)
           lost == new \ fits
           lostOnes == [d \in Dimensions |-> IF d \in lost THEN taken[d] ELSE 0]
           all == [d \in Dimensions |-> waiting[d] + taken[d]]
<1>1. /\ waiting' = [d \in Dimensions |-> IF d \in lost THEN 0 ELSE waiting[d] + taken[d]]
      /\ dropped' = dropped + SumOver(taken, lost)
      /\ taken' = Nothing
      /\ UNCHANGED <<cursor, stored, recorded, retired, passed>>
  BY DEF Restore, Restored, SumOver
<1>2. P \in SUBSET Dimensions /\ Cardinality(P) \in Nat /\ room \in Nat
  <2>1. P \in SUBSET Dimensions /\ Cardinality(P) \in Nat
    BY PendingAre, DimensionSets
  <2> QED BY <2>1, BookConstants DEF Bounded
<1>3. new \in SUBSET Dimensions /\ lost \in SUBSET Dimensions /\ \A d \in lost : waiting[d] = 0
  BY DEF PendingOf, BookTypeOK
<1>4. fits \in SUBSET new /\ Cardinality(fits) <= room
  <2> HIDE DEF new, room
  <2> QED BY <1>2, <1>3, SmallestOnes
<1>5. PendingOf(waiting') \subseteq P \union fits
  <2>1. ASSUME NEW d \in Dimensions, waiting'[d] > 0, d \notin P PROVE d \in fits
    <3>1. d \notin lost /\ waiting[d] + taken[d] > 0
      BY <1>1, <2>1
    <3>2. waiting[d] = 0 /\ taken[d] > 0
      BY <2>1, <3>1 DEF PendingOf, BookTypeOK
    <3> QED BY <2>1, <3>1, <3>2
  <2> QED BY <2>1 DEF PendingOf
<1>6. waiting' \in [Dimensions -> Nat] /\ taken' \in [Dimensions -> Nat]
  BY <1>1 DEF Nothing, BookTypeOK
<1>7. SumOver(taken, lost) \in Int /\ SumOver(lostOnes, Dimensions) = SumOver(taken, lost)
  <2>1. IsFiniteSet(lost) /\ \A d \in lost : taken[d] \in Int
    <3>1. \A d \in Dimensions : taken[d] \in Int
      BY DEF BookTypeOK
    <3> HIDE DEF lost
    <3> QED BY <1>3, <3>1, DimensionSets
  <2>2. \A d \in Dimensions : lostOnes[d] = IF d \in lost THEN taken[d] ELSE 0
    OBVIOUS
  <2> HIDE DEF lost, lostOnes
  <2>3. SumOver(taken, lost) \in Int
    BY <2>1, SumInt
  <2>4. SumOver(lostOnes, Dimensions) = SumOver(taken, lost)
    BY <1>3, <2>1, <2>2, AttemptsSum, SumWithin
  <2> QED BY <2>3, <2>4
<1>8. lostOnes \in [Dimensions -> Nat] /\ all \in [Dimensions -> Nat]
      /\ (\A d \in Dimensions : all[d] = waiting'[d] + lostOnes[d])
      /\ (\A d \in Dimensions : all[d] = waiting[d] + taken[d])
  <2>1. lostOnes \in [Dimensions -> Nat] /\ all \in [Dimensions -> Nat]
    BY DEF BookTypeOK
  <2>2. \A d \in Dimensions : all[d] = waiting[d] + taken[d]
    OBVIOUS
  <2>3. ASSUME NEW d \in Dimensions PROVE all[d] = waiting'[d] + lostOnes[d]
    <3>1. waiting[d] \in Nat /\ taken[d] \in Nat
      BY DEF BookTypeOK
    <3>2. waiting'[d] = (IF d \in lost THEN 0 ELSE waiting[d] + taken[d])
          /\ lostOnes[d] = (IF d \in lost THEN taken[d] ELSE 0)
          /\ all[d] = waiting[d] + taken[d]
      BY <1>1
    <3> HIDE DEF lost, lostOnes, all
    <3> QED BY <1>3, <3>1, <3>2
  <2> QED BY <2>1, <2>2, <2>3
<1> HIDE DEF lost, lostOnes, all
<1>9. BookTypeOK'
  BY <1>1, <1>6, <1>7 DEF BookTypeOK
<1>10. Balance'
  <2>1. Attempts(all) = Attempts(waiting) + Attempts(taken)
        /\ Attempts(waiting) \in Int /\ Attempts(taken) \in Int
    BY <1>8, AttemptsAdd DEF BookTypeOK
  <2>2. Attempts(all) = Attempts(waiting') + Attempts(lostOnes)
        /\ Attempts(waiting') \in Int /\ Attempts(lostOnes) \in Int
    BY <1>6, <1>8, AttemptsAdd
  <2>3. Attempts(lostOnes) = SumOver(taken, lost)
    BY <1>7, AttemptsSum
  <2>4. Attempts(taken') = 0 /\ Attempts(stored') = Attempts(stored) /\ Attempts(stored) \in Int
    <3>1. Attempts(stored) \in Int
      BY AttemptsSum, SumInt DEF BookTypeOK
    <3> QED BY <1>1, <3>1, AttemptsSum
  <2> QED BY <1>1, <1>7, <2>1, <2>2, <2>3, <2>4 DEF Balance, BookTypeOK
<1>11. Bounded'
  <2> HIDE DEF P, fits
  <2>1. fits \in SUBSET Dimensions
    BY <1>3, <1>4
  <2>2. P \union fits \in SUBSET Dimensions
    BY <1>2, <2>1
  <2>3. Cardinality(PendingOf(waiting')) <= Cardinality(P \union fits)
        /\ Cardinality(PendingOf(waiting')) \in Nat /\ Cardinality(P \union fits) \in Nat
    BY <1>5, <2>2, DimensionSets
  <2>4. Cardinality(P \union fits) <= Cardinality(P) + Cardinality(fits) /\ Cardinality(fits) \in Nat
    BY <1>2, <2>1, Together, DimensionSets
  <2> QED BY <1>1, <1>2, <1>4, <2>3, <2>4, BookConstants DEF Bounded
<1>12. InTurn'
  <2>1. \A d \in Dimensions : waiting'[d] = 0 => waiting[d] = 0
    BY <1>1, <1>3 DEF BookTypeOK
  <2> QED BY <1>1, <2>1 DEF InTurn, Distance
<1> QED BY <1>9, <1>10, <1>11, <1>12

LEMMA BookStart == BookInit => BookInv
<1> SUFFICES ASSUME BookInit PROVE BookInv
  OBVIOUS
<1>1. waiting = Nothing /\ taken = Nothing /\ stored = Nothing /\ passed = Nothing /\ cursor = 0
      /\ dropped = 0 /\ recorded = 0 /\ retired = 0
  BY DEF BookInit
<1>2. BookTypeOK
  BY <1>1, BookConstants DEF BookTypeOK, Nothing
<1>3. Balance
  BY <1>1, AttemptsSum DEF Balance
<1>4. Bounded
  <2>1. PendingOf(Nothing) = {}
    BY DEF PendingOf, Nothing
  <2> QED BY <1>1, <2>1, FS_EmptySet, BookConstants DEF Bounded
<1>5. InTurn
  <2>1. ASSUME NEW d \in Dimensions PROVE passed[d] * BatchSize + Distance(cursor, d) < Keys
    <3>1. passed[d] = 0 /\ 0 * BatchSize = 0 /\ d \in Nat /\ 1 <= d /\ d <= Keys /\ Keys \in Nat
      BY <1>1, BookConstants DEF Nothing
    <3> QED BY <1>1, <3>1 DEF Distance
  <2> QED BY <1>1, <2>1 DEF InTurn, Nothing
<1> QED BY <1>2, <1>3, <1>4, <1>5 DEF BookInv

LEMMA BookStep == BookInv /\ [BookNext]_bookvars => BookInv'
<1> SUFFICES ASSUME BookInv, [BookNext]_bookvars PROVE BookInv'
  OBVIOUS
<1>1. ASSUME NEW ds \in SUBSET Dimensions \ {{}}, RecordSimulation(ds) PROVE BookInv'
  BY <1>1, RecordKeepsBook
<1>2. CASE TakeBatch
  BY <1>2, TakeKeepsBook
<1>3. CASE Persist
  BY <1>3, PersistKeepsBook
<1>4. CASE Restore
  BY <1>4, RestoreKeepsBook
<1>5. CASE NextDay \/ UNCHANGED bookvars
  <2>1. UNCHANGED <<waiting, cursor, taken, stored, dropped, recorded, retired, passed>>
    BY <1>5 DEF NextDay, bookvars
  <2>2. BookTypeOK'
    BY <2>1 DEF BookInv, BookTypeOK
  <2>3. Balance' /\ Bounded'
    BY <2>1 DEF BookInv, Balance, Bounded
  <2>4. InTurn'
    BY <2>1 DEF BookInv, InTurn, Distance
  <2> QED BY <2>2, <2>3, <2>4 DEF BookInv
<1> QED BY <1>1, <1>2, <1>3, <1>4, <1>5 DEF BookNext

LEMMA BookMeans == BookInv => AttemptsAccounted
<1> SUFFICES ASSUME BookInv PROVE AttemptsAccounted
  OBVIOUS
<1>1. ASSUME NEW d \in Dimensions PROVE passed[d] * BatchSize < Keys
  <2>1. passed[d] * BatchSize \in Int /\ Distance(cursor, d) \in Nat /\ Keys \in Int
    <3>1. passed[d] * BatchSize \in Int
      BY BookConstants DEF BookInv, BookTypeOK
    <3> QED BY <3>1, BookConstants DEF BookInv, BookTypeOK, Distance
  <2>2. passed[d] * BatchSize + Distance(cursor, d) < Keys
    BY DEF BookInv, InTurn
  <2> QED BY <2>1, <2>2
<1> QED BY <1>1 DEF BookInv, Balance, Bounded, AttemptsAccounted

(***************************************************************************)
(* No attempt is lost or counted twice by the book of simulations, neither *)
(* its map nor its table outgrows its bound, and no dimension is passed    *)
(* over by more batches than others fit between (record, take_batch,       *)
(* restore, persist), for any number of dimensions and any bounds.         *)
(***************************************************************************)
THEOREM AttemptsAreAccounted == BookSpec => []AttemptsAccounted
<1>1. BookInit => BookInv
  BY BookStart
<1>2. BookInv /\ [BookNext]_bookvars => BookInv'
  BY BookStep
<1>3. BookInv => AttemptsAccounted
  BY BookMeans
<1> QED BY <1>1, <1>2, <1>3, PTL DEF BookSpec

-----------------------------------------------------------------------------
(***************************************************************************)
(* The funnel of the scans                                                 *)
(***************************************************************************)

Uncounted == Counters \ {"size"}

\* A move of a scan and the counters that go up with it.
Tells(names, from, to) ==
  /\ "size" \notin names
  /\ \A c \in Uncounted :
       /\ from \in Reached(c) => to \in Reached(c)
       /\ c \in names <=> to \in Reached(c) /\ from \notin Reached(c)

\* The scans of bridge b, and those of reason r.
Of(b, c) == {s \in Behind(c) : tokens[s][2] = b}
Because(r) == {s \in Scans : at[s] = "structural" /\ SimReason(simtext[s]) = r}

ByCounter == \A c \in Counters : counts[c] = Cardinality(Behind(c))
ByBridge == \A b \in Bridges, c \in BridgeCounters : bridge[b][c] = Cardinality(Of(b, c))
ByReason == \A r \in Reasons : simreasons[r] = Cardinality(Because(r))

\* The tracker looks back, and what the monitor has loaded lies in between.
Streaks ==
  /\ seen # -1 => seen <= counts["opportunities"] /\ tracker.opportunities <= seen
  /\ tracker.primed =>
       /\ tracker.prepared = streak.prepared
       /\ tracker.opportunities >= streak.opportunities + tracker.quiet * MinOpps
  /\ tracker.quiet > 0 => tracker.primed
  /\ tracker.prepared <= counts["prepared"]
  /\ tracker.opportunities <= counts["opportunities"]

FunnelInv == FunnelTypeOK /\ ByCounter /\ ByBridge /\ ByReason /\ Streaks

-----------------------------------------------------------------------------
LEMMA Fates ==
  /\ Reached("evaluated") = Yielded
  /\ Reached("opportunities") = Opportunities
  /\ Reached("profit_rejected") = Discarded
  /\ Reached("sim_rejected") = {"structural", "unsimulated"}
  /\ Reached("prepared") = Prepared
  /\ \A c \in Counters \ {"evaluated", "opportunities", "profit_rejected", "sim_rejected",
                          "prepared"} : Reached(c) = {c}
  BY DEF Reached, Counters

LEMMA ScansFinite == IsFiniteSet(Scans) /\ \A S \in SUBSET Scans : IsFiniteSet(S)
<1>1. MaxScans \in Nat
  BY FunnelAssumption DEF FunnelAssumption
<1>2. IsFiniteSet(Scans)
  BY <1>1, FS_Interval DEF Scans
<1> QED BY <1>2, FS_Subset

LEMMA Countless == ASSUME resized \subseteq Scans, NEW c, NEW b
  PROVE IsFiniteSet(Behind(c)) /\ IsFiniteSet(Of(b, c))
<1>1. Behind(c) \in SUBSET Scans /\ Of(b, c) \in SUBSET Scans
  BY DEF Behind, Of
<1> QED BY <1>1, ScansFinite

\* The scalar counters after a move.
LEMMA MoveCounts ==
  ASSUME FunnelTypeOK, ByCounter, NEW s \in Scans, NEW from, NEW to, NEW names,
         Goto(s, from, to), Count(names), Tells(names, from, to), resized' = resized
  PROVE ByCounter'
<1> SUFFICES ASSUME NEW c \in Counters
             PROVE counts'[c] = Cardinality(Behind(c)')
  BY DEF ByCounter
<1> USE DEF FunnelTypeOK
<1>1. CASE c = "size"
  BY <1>1 DEF ByCounter, Behind, Count, Tells
<1>2. CASE c # "size"
  <2>1. Behind(c) = {r \in Scans : at[r] \in Reached(c)}
        /\ Behind(c)' = {r \in Scans : at'[r] \in Reached(c)}
        /\ c \in Uncounted
    BY <1>2 DEF Behind, Uncounted, Reached
  <2>2. at[s] = from /\ at'[s] = to /\ \A r \in Scans \ {s} : at'[r] = at[r]
    BY DEF Goto
  <2>3. CASE c \in names
    <3>1. s \notin Behind(c) /\ Behind(c)' = Behind(c) \union {s}
      BY <2>1, <2>2, <2>3 DEF Tells
    <3>2. Cardinality(Behind(c)') = Cardinality(Behind(c)) + 1
      BY <3>1, Countless, OneMore
    <3> QED BY <2>3, <3>2 DEF ByCounter, Count
  <2>4. CASE c \notin names
    <3>1. to \in Reached(c) <=> from \in Reached(c)
      BY <2>1, <2>4 DEF Tells
    <3>2. \A r \in Scans : at'[r] \in Reached(c) <=> at[r] \in Reached(c)
      BY <2>2, <3>1
    <3> QED BY <2>1, <3>2, <2>4 DEF ByCounter, Count
  <2> QED BY <2>3, <2>4
<1> QED BY <1>1, <1>2

BridgeUp(b, name) == bridge' = [bridge EXCEPT ![b][name] = @ + 1]

LEMMA MoveBridge ==
  ASSUME FunnelTypeOK, ByBridge, NEW s \in Scans, NEW from, NEW to, NEW names,
         Goto(s, from, to), Tells(names, from, to), resized' = resized,
         tokens' \in [Scans -> Bases \X Bridges],
         \A r \in Scans : (r # s \/ from \in Yielded) => tokens'[r] = tokens[r],
         \/ names \cap BridgeCounters = {} /\ bridge' = bridge
         \/ \E name \in BridgeCounters : names = {name} /\ BridgeUp(tokens'[s][2], name)
  PROVE ByBridge'
<1> SUFFICES ASSUME NEW b \in Bridges, NEW c \in BridgeCounters
             PROVE bridge'[b][c] = Cardinality(Of(b, c)')
  BY DEF ByBridge
<1> USE DEF FunnelTypeOK
<1>1. c \in Uncounted /\ c # "size"
  BY DEF Uncounted, Counters, BridgeCounters
<1>2. /\ Of(b, c) = {r \in Scans : at[r] \in Reached(c) /\ tokens[r][2] = b}
      /\ Of(b, c)' = {r \in Scans : at'[r] \in Reached(c) /\ tokens'[r][2] = b}
  BY <1>1 DEF Behind, Of, Reached
<1>3. at[s] = from /\ at'[s] = to /\ \A r \in Scans \ {s} : at'[r] = at[r]
  BY DEF Goto
<1>4. from \in Reached(c) => from \in Yielded
  <2>1. c \in {"evaluated", "opportunities"} => Reached(c) \subseteq Yielded
    BY Fates DEF Yielded
  <2>2. c \in {"quote_failed", "unprofitable"} => Reached(c) = {c}
    BY Fates DEF Counters
  <2> QED BY <2>1, <2>2 DEF BridgeCounters, Yielded
<1>5. CASE c \in names /\ tokens'[s][2] = b
  <2>1. s \notin Of(b, c) /\ Of(b, c)' = Of(b, c) \union {s}
    BY <1>1, <1>2, <1>3, <1>4, <1>5 DEF Tells
  <2>2. Cardinality(Of(b, c)') = Cardinality(Of(b, c)) + 1
    BY <2>1, Countless, OneMore
  <2>3. bridge'[b][c] = bridge[b][c] + 1
    BY <1>5 DEF BridgeUp
  <2> QED BY <2>2, <2>3 DEF ByBridge
<1>6. CASE ~ (c \in names /\ tokens'[s][2] = b)
  <2>1. Of(b, c)' = Of(b, c)
    <3>1. c \notin names => (to \in Reached(c) <=> from \in Reached(c))
      BY <1>1 DEF Tells
    <3>2. c \in names => to \in Reached(c) /\ from \notin Reached(c) /\ tokens'[s][2] # b
      BY <1>1, <1>6 DEF Tells
    <3>3. from \in Reached(c) => tokens'[s] = tokens[s]
      BY <1>4
    <3>4. (at'[s] \in Reached(c) /\ tokens'[s][2] = b)
          <=> (at[s] \in Reached(c) /\ tokens[s][2] = b)
      BY <1>3, <3>1, <3>2, <3>3
    <3>5. \A r \in Scans : (at'[r] \in Reached(c) /\ tokens'[r][2] = b)
                           <=> (at[r] \in Reached(c) /\ tokens[r][2] = b)
      BY <1>3, <3>4
    <3> QED BY <1>2, <3>5
  <2>2. bridge'[b][c] = bridge[b][c]
    <3>1. CASE bridge' = bridge
      BY <3>1
    <3>2. ASSUME NEW name \in BridgeCounters, names = {name}, BridgeUp(tokens'[s][2], name)
          PROVE bridge'[b][c] = bridge[b][c]
      <4>1. tokens'[s][2] # b \/ name # c
        BY <1>6, <3>2
      <4>2. tokens'[s][2] \in Bridges
        OBVIOUS
      <4> QED BY <3>2, <4>1, <4>2 DEF BridgeUp
    <3> QED BY <3>1, <3>2
  <2> QED BY <2>1, <2>2 DEF ByBridge
<1> QED BY <1>5, <1>6

LEMMA MoveReasons ==
  ASSUME FunnelTypeOK, ByReason, NEW s \in Scans, NEW from, NEW to, to # "structural",
         from # "structural", Goto(s, from, to), simreasons' = simreasons, simtext' = simtext
  PROVE ByReason'
<1> SUFFICES ASSUME NEW r \in Reasons PROVE Because(r)' = Because(r)
  BY DEF ByReason
<1> QED BY DEF Because, Goto, FunnelTypeOK

LEMMA Growing ==
  ASSUME FunnelTypeOK, Streaks, NEW names, Count(names), UNCHANGED monitor
  PROVE Streaks'
<1>1. /\ counts["opportunities"] \in Nat /\ counts'["opportunities"] \in Nat
      /\ counts["prepared"] \in Nat /\ counts'["prepared"] \in Nat
      /\ counts'["opportunities"] >= counts["opportunities"]
      /\ counts'["prepared"] >= counts["prepared"]
  <2>1. ASSUME NEW c \in Counters PROVE counts[c] \in Nat /\ counts'[c] \in Nat /\ counts'[c] >= counts[c]
    BY DEF Count, FunnelTypeOK
  <2> QED BY <2>1 DEF Counters
<1>2. seen \in Int /\ tracker.opportunities \in Nat /\ tracker.prepared \in Nat
  BY DEF FunnelTypeOK
<1>3. seen' = seen /\ tracker' = tracker /\ streak' = streak
  BY DEF monitor
<1> QED BY <1>1, <1>2, <1>3 DEF Streaks

\* A move that only counts scalars, or nothing.
LEMMA Quietly ==
  ASSUME FunnelInv, NEW s \in Scans, NEW from, NEW to, NEW names,
         Goto(s, from, to), Counting(names), Tells(names, from, to),
         names \cap BridgeCounters = {}, from # "structural", to # "structural", to \in Places
  PROVE FunnelInv'
<1>1. FunnelTypeOK'
  BY DEF FunnelInv, FunnelTypeOK, Goto, Counting, Count, monitor
<1>2. ByCounter' /\ ByBridge' /\ ByReason' /\ Streaks'
  <2>1. ByCounter'
    BY MoveCounts DEF FunnelInv, Counting
  <2>2. ByBridge'
    BY MoveBridge DEF FunnelInv, Counting, FunnelTypeOK
  <2>3. ByReason'
    BY MoveReasons DEF FunnelInv, Counting
  <2>4. Streaks'
    BY Growing DEF FunnelInv, Counting
  <2> QED BY <2>1, <2>2, <2>3, <2>4
<1> QED BY <1>1, <1>2 DEF FunnelInv

LEMMA Unseen ==
  ASSUME FunnelInv, NEW s \in Scans, NEW from, NEW to, Goto(s, from, to), Silently,
         Tells({}, from, to), from # "structural", to # "structural", to \in Places
  PROVE FunnelInv'
<1>1. Counting({})
  BY DEF FunnelInv, FunnelTypeOK, Silently, Counting, Count, stats, monitor
<1> QED BY <1>1, Quietly

\* What the counters tell of each move.
LEMMA StageMoves ==
  /\ Tells({"evaluated"}, "new", "yielded")
  /\ Tells({}, "yielded", "uncounted") /\ Tells({}, "found", "dropped")
  /\ Tells({}, "yielded", "queued") /\ Tells({}, "queued", "scanning")
  /\ Tells({}, "scanning", "uncounted")
  /\ Tells({"quote_failed"}, "scanning", "quote_failed")
  /\ Tells({"unprofitable"}, "scanning", "unprofitable")
  /\ Tells({"opportunities"}, "scanning", "found")
  /\ Tells({"opportunities"}, "scanning", "dropped")
  /\ Tells({"dedup"}, "found", "dedup")
  /\ Tells({}, "found", "selecting")
  /\ Tells({}, "selecting", "dropped") /\ Tells({}, "preparing", "dropped")
  /\ Tells({"caller_busy"}, "selecting", "caller_busy")
  /\ Tells({}, "selecting", "preparing")
  /\ \A gate \in {"probe", "below", "fee"} : Tells({gate, "profit_rejected"}, "preparing", gate)
  /\ Tells({"sim_rejected"}, "preparing", "structural")
  /\ Tells({"prepared", "sim_rejected"}, "preparing", "unsimulated")
  /\ Tells({"prepared", "dry_run"}, "preparing", "dry_run")
  /\ Tells({"prepared"}, "preparing", "broadcasting")
  /\ Tells({"submitted"}, "broadcasting", "submitted")
  /\ Tells({}, "broadcasting", "unaccepted")
  BY Fates DEF Tells, Uncounted, Counters, Yielded, Opportunities, Discarded, Prepared

LEMMA CountsTyped ==
  ASSUME FunnelTypeOK, NEW names, Count(names), NEW b \in Bridges,
         NEW name \in BridgeCounters, BridgeUp(b, name)
  PROVE counts' \in [Counters -> Nat] /\ bridge' \in [Bridges -> [BridgeCounters -> Nat]]
<1>1. counts' \in [Counters -> Nat]
  BY DEF FunnelTypeOK, Count
<1>2. bridge' \in [Bridges -> [BridgeCounters -> Nat]]
  BY DEF FunnelTypeOK, BridgeUp
<1> QED BY <1>1, <1>2

LEMMA ScanKeeps ==
  ASSUME FunnelInv, NEW s \in Scans, Scan(s)
  PROVE FunnelInv'
<1> USE DEF Places, Yielded, Opportunities, Discarded, Prepared
<1>1. CASE Yield(s)
  <2>1. Goto(s, "new", "yielded") /\ Tells({"evaluated"}, "new", "yielded")
    BY <1>1, StageMoves DEF Yield
  <2>2. Cycle[next] \in Bases \X Bridges /\ next' \in 1 .. Len(Cycle)
    BY <1>1, FunnelAssumption DEF Yield, FunnelAssumption, FunnelInv, FunnelTypeOK
  <2>3. tokens' = [tokens EXCEPT ![s] = Cycle[next]] /\ tokens'[s] = Cycle[next]
    BY <1>1 DEF Yield, FunnelInv, FunnelTypeOK
  <2>4. Count({"evaluated"}) /\ BridgeUp(tokens'[s][2], "evaluated")
    BY <1>1, <2>3 DEF Yield, CountPair, BridgeUp
  <2>5. FunnelTypeOK'
    <3>1. at' \in [Scans -> Places]
      BY <2>1 DEF FunnelInv, FunnelTypeOK, Goto
    <3>2. tokens' \in [Scans -> Bases \X Bridges]
      BY <2>2, <2>3 DEF FunnelInv, FunnelTypeOK
    <3>3. counts' \in [Counters -> Nat] /\ bridge' \in [Bridges -> [BridgeCounters -> Nat]]
      BY <2>2, <2>3, <2>4, CountsTyped DEF FunnelInv, BridgeCounters
    <3> QED BY <1>1, <2>2, <3>1, <3>2, <3>3 DEF FunnelInv, FunnelTypeOK, Yield, monitor
  <2>6. ByCounter'
    BY <1>1, <2>1, <2>4, MoveCounts DEF FunnelInv, Yield
  <2>7. ByBridge'
    <3>1. \A r \in Scans : (r # s \/ "new" \in Yielded) => tokens'[r] = tokens[r]
      BY <2>3 DEF FunnelInv, FunnelTypeOK
    <3>2. tokens' \in [Scans -> Bases \X Bridges] /\ resized' = resized
          /\ "evaluated" \in BridgeCounters
      BY <1>1, <2>5 DEF Yield, FunnelTypeOK, BridgeCounters
    <3> QED BY <2>1, <2>4, <3>1, <3>2, MoveBridge DEF FunnelInv
  <2>8. ByReason'
    BY <1>1, <2>1, MoveReasons DEF FunnelInv, Yield
  <2>9. Streaks'
    BY <1>1, <2>4, Growing DEF FunnelInv, Yield
  <2> QED BY <2>5, <2>6, <2>7, <2>8, <2>9 DEF FunnelInv
<1>2. CASE Lost(s)
  BY <1>2, StageMoves, Unseen DEF Lost
<1>3. CASE Enqueue(s)
  BY <1>3, StageMoves, Unseen DEF Enqueue
<1>4. CASE Take(s)
  BY <1>4, StageMoves, Unseen DEF Take
<1>5. CASE Unscanned(s)
  BY <1>5, StageMoves, Unseen DEF Unscanned
<1>6. ASSUME NEW verdict \in {"quote_failed", "unprofitable", "opportunities"},
             EvaluatePair(s, verdict)
      PROVE FunnelInv'
  <2>1. PICK to \in {"quote_failed", "unprofitable", "found", "dropped"} :
          Goto(s, "scanning", to)
          /\ (IF verdict = "opportunities" THEN to \in {"found", "dropped"} ELSE to = verdict)
    BY <1>6 DEF EvaluatePair
  <2>2. Tells({verdict}, "scanning", to)
    BY <2>1, StageMoves
  <2>3. Count({verdict}) /\ BridgeUp(tokens'[s][2], verdict) /\ verdict \in BridgeCounters
    BY <1>6 DEF EvaluatePair, CountPair, BridgeUp, BridgeCounters
  <2>4. FunnelTypeOK'
    <3>1. at' \in [Scans -> Places]
      BY <2>1 DEF FunnelInv, FunnelTypeOK, Goto
    <3>2. counts' \in [Counters -> Nat] /\ bridge' \in [Bridges -> [BridgeCounters -> Nat]]
      <4>1. tokens'[s][2] \in Bridges
        BY <1>6 DEF EvaluatePair, FunnelInv, FunnelTypeOK
      <4> QED BY <2>3, <4>1, CountsTyped DEF FunnelInv
    <3> QED BY <1>6, <3>1, <3>2 DEF FunnelInv, FunnelTypeOK, EvaluatePair, monitor
  <2>5. ByCounter'
    BY <1>6, <2>1, <2>2, <2>3, MoveCounts DEF FunnelInv, EvaluatePair
  <2>6. ByBridge'
    <3>1. tokens' = tokens /\ resized' = resized /\ tokens' \in [Scans -> Bases \X Bridges]
      BY <1>6, <2>4 DEF EvaluatePair, FunnelTypeOK
    <3> QED BY <2>1, <2>2, <2>3, <3>1, MoveBridge DEF FunnelInv
  <2>7. ByReason'
    BY <1>6, <2>1, MoveReasons DEF FunnelInv, EvaluatePair
  <2>8. Streaks'
    BY <1>6, <2>3, Growing DEF FunnelInv, EvaluatePair
  <2> QED BY <2>4, <2>5, <2>6, <2>7, <2>8 DEF FunnelInv
<1> QED BY <1>1, <1>2, <1>3, <1>4, <1>5, <1>6 DEF Scan

LEMMA ExecuteKeeps ==
  ASSUME FunnelInv, NEW s \in Scans, Execute(s)
  PROVE FunnelInv'
<1>1. /\ {"found", "selecting", "preparing", "dropped", "dedup", "caller_busy", "structural",
          "probe", "below", "fee", "unsimulated", "dry_run", "broadcasting", "submitted",
          "unaccepted"} \subseteq Places
      /\ \A c \in Counters \ BridgeCounters : {c} \cap BridgeCounters = {}
      /\ {"dedup", "caller_busy", "probe", "below", "fee", "profit_rejected", "sim_rejected",
          "prepared", "dry_run", "submitted", "size"} \cap BridgeCounters = {}
  BY DEF Places, Yielded, Opportunities, Discarded, Prepared, Counters, BridgeCounters
<1>2. CASE Deduplicated(s)
  BY <1>1, <1>2, StageMoves, Quietly DEF Deduplicated
<1>3. CASE Start(s)
  BY <1>1, <1>3, StageMoves, Unseen DEF Start
<1>4. CASE Pass(s)
  BY <1>1, <1>4, StageMoves, Unseen DEF Pass
<1>5. CASE Busy(s)
  BY <1>1, <1>5, StageMoves, Quietly DEF Busy
<1>6. CASE Acquire(s)
  BY <1>1, <1>6, StageMoves, Unseen DEF Acquire
<1>7. CASE Resize(s)
  <2>1. FunnelTypeOK'
    BY <1>7 DEF FunnelInv, FunnelTypeOK, Resize, Count, item, monitor
  <2>2. ByCounter'
    <3> SUFFICES ASSUME NEW c \in Counters
                 PROVE counts'[c] = Cardinality(Behind(c)')
      BY DEF ByCounter
    <3>1. CASE c = "size"
      <4>1. s \notin Behind(c) /\ Behind(c)' = Behind(c) \union {s}
        BY <1>7, <3>1 DEF Resize, Behind
      <4>2. Cardinality(Behind(c)') = Cardinality(Behind(c)) + 1
        BY <4>1, Countless, OneMore DEF FunnelInv, FunnelTypeOK
      <4> QED BY <1>7, <3>1, <4>2 DEF Resize, Count, FunnelInv, ByCounter
    <3>2. CASE c # "size"
      BY <1>7, <3>2 DEF Resize, Behind, item, Count, FunnelInv, FunnelTypeOK, ByCounter
    <3> QED BY <3>1, <3>2
  <2>3. ByBridge'
    <3>1. ASSUME NEW b, NEW c \in BridgeCounters PROVE Of(b, c)' = Of(b, c)
      BY <1>7 DEF Resize, item, Of, Behind, BridgeCounters
    <3> QED BY <1>7, <3>1 DEF Resize, FunnelInv, ByBridge
  <2>4. ByReason'
    BY <1>7 DEF Resize, item, FunnelInv, ByReason, Because
  <2>5. Streaks'
    BY <1>7, Growing DEF Resize, FunnelInv
  <2> QED BY <2>1, <2>2, <2>3, <2>4, <2>5 DEF FunnelInv
<1>8. ASSUME NEW gate \in {"probe", "below", "fee"}, Discard(s, gate)
      PROVE FunnelInv'
  <2>1. {gate, "profit_rejected"} \cap BridgeCounters = {} /\ gate \in Places
        /\ gate # "structural"
    BY <1>1
  <2> QED BY <1>8, <2>1, StageMoves, Quietly DEF Discard
<1>9. ASSUME NEW t \in Texts, Structural(s, t)
      PROVE FunnelInv'
  <2>1. Goto(s, "preparing", "structural") /\ Tells({"sim_rejected"}, "preparing", "structural")
        /\ Count({"sim_rejected"})
    BY <1>9, StageMoves DEF Structural
  <2>2. FunnelTypeOK'
    <3>1. at' \in [Scans -> Places] /\ counts' \in [Counters -> Nat]
      BY <1>1, <2>1 DEF FunnelInv, FunnelTypeOK, Goto, Count
    <3>2. simtext' \in [Scans -> AllTexts \union {NoText}]
      BY <1>9, StatsAssumption DEF Structural, FunnelInv, FunnelTypeOK, StatsAssumption
    <3>3. simreasons' \in [Reasons -> Nat]
      BY <1>9, ReasonCounted DEF Structural, FunnelInv, FunnelTypeOK, CountReason
    <3> QED BY <1>9, <3>1, <3>2, <3>3 DEF Structural, FunnelInv, FunnelTypeOK, monitor
  <2>3. ByCounter'
    BY <1>9, <2>1, MoveCounts DEF Structural, FunnelInv
  <2>4. ByBridge'
    <3>1. {"sim_rejected"} \cap BridgeCounters = {}
      BY <1>1
    <3>2. tokens' = tokens /\ bridge' = bridge /\ resized' = resized
          /\ tokens' \in [Scans -> Bases \X Bridges]
      BY <1>9 DEF Structural, FunnelInv, FunnelTypeOK
    <3> QED BY <2>1, <3>1, <3>2, MoveBridge DEF FunnelInv
  <2>5. ByReason'
    <3> SUFFICES ASSUME NEW r \in Reasons
                 PROVE simreasons'[r] = Cardinality(Because(r)')
      BY DEF ByReason
    <3>1. /\ at[s] = "preparing" /\ at'[s] = "structural" /\ simtext'[s] = t
          /\ \A q \in Scans \ {s} : at'[q] = at[q] /\ simtext'[q] = simtext[q]
          /\ simreasons' = [simreasons EXCEPT ![SimReason(t)] = @ + 1]
      BY <1>9 DEF Structural, Goto, CountReason, FunnelInv, FunnelTypeOK
    <3>2. CASE SimReason(t) = r
      <4>1. s \notin Because(r) /\ Because(r)' = Because(r) \union {s}
        BY <3>1, <3>2 DEF Because
      <4>2. Because(r) \in SUBSET Scans
        BY DEF Because
      <4>3. Cardinality(Because(r)') = Cardinality(Because(r)) + 1
        BY <4>1, <4>2, ScansFinite, OneMore
      <4> QED BY <3>1, <3>2, <4>3 DEF FunnelInv, FunnelTypeOK, ByReason
    <3>3. CASE SimReason(t) # r
      <4>1. Because(r)' = Because(r)
        BY <3>1, <3>3 DEF Because
      <4> QED BY <3>1, <3>3, <4>1 DEF FunnelInv, FunnelTypeOK, ByReason
    <3> QED BY <3>2, <3>3
  <2>6. Streaks'
    BY <1>9, <2>1, Growing DEF Structural, FunnelInv
  <2> QED BY <2>2, <2>3, <2>4, <2>5, <2>6 DEF FunnelInv
<1>10. CASE PreparedUnsimulated(s)
  <2>1. {"prepared", "sim_rejected"} \cap BridgeCounters = {}
    BY <1>1
  <2> QED BY <1>1, <1>10, <2>1, StageMoves, Quietly DEF PreparedUnsimulated
<1>11. CASE DryRun(s)
  <2>1. {"prepared", "dry_run"} \cap BridgeCounters = {}
    BY <1>1
  <2> QED BY <1>1, <1>11, <2>1, StageMoves, Quietly DEF DryRun
<1>12. CASE Submit(s)
  BY <1>1, <1>12, StageMoves, Quietly DEF Submit
<1>13. CASE SubmitAccepted(s)
  BY <1>1, <1>13, StageMoves, Quietly DEF SubmitAccepted
<1>14. CASE SubmitUnaccepted(s)
  BY <1>1, <1>14, StageMoves, Unseen DEF SubmitUnaccepted
<1> QED
  BY <1>2, <1>3, <1>4, <1>5, <1>6, <1>7, <1>8, <1>9, <1>10, <1>11, <1>12, <1>13, <1>14
  DEF Execute

\* Nothing counts, and the scans stay: what the monitor does alone.
LEMMA MonitorKeeps ==
  ASSUME FunnelInv, LoadOpportunities \/ Observe \/ Cooled
  PROVE FunnelInv'
<1> USE DEF FunnelInv
<1>1. UNCHANGED <<mode, item, stats, restarts>>
  BY DEF LoadOpportunities, Observe, Cooled
<1>2. ByCounter' /\ ByBridge' /\ ByReason'
  BY <1>1 DEF item, stats, ByCounter, ByBridge, ByReason, Behind, Of, Because
<1>3. /\ seen \in Nat \union {-1}
      /\ tracker \in [primed : BOOLEAN, quiet : Nat, opportunities : Nat, prepared : Nat]
      /\ streak \in [opportunities : Nat, prepared : Nat]
      /\ counts["opportunities"] \in Nat /\ counts["prepared"] \in Nat
      /\ MinOpps \in Nat
  BY FunnelAssumption DEF FunnelTypeOK, Counters, FunnelAssumption
<1>4. (seen \in Nat \union {-1} /\ cooling \in BOOLEAN
       /\ tracker \in [primed : BOOLEAN, quiet : Nat, opportunities : Nat, prepared : Nat]
       /\ streak \in [opportunities : Nat, prepared : Nat])'
      => FunnelTypeOK'
  BY <1>1 DEF FunnelTypeOK, item, stats
<1>5. CASE LoadOpportunities
  BY <1>2, <1>3, <1>4, <1>5 DEF LoadOpportunities, FunnelTypeOK, Streaks, item, stats
<1>6. CASE Observe
  <2>1. seen \in Nat /\ seen' = -1 /\ counts' = counts
    BY <1>3, <1>6 DEF Observe, stats
  <2>2. CASE Quiet
    <3>1. /\ tracker' = [primed |-> TRUE, quiet |-> tracker.quiet + 1,
                         opportunities |-> seen, prepared |-> counts["prepared"]]
          /\ streak' = streak /\ cooling' \in BOOLEAN
      BY <1>6, <2>2 DEF Observe
    <3>2. tracker.primed /\ seen >= tracker.opportunities + MinOpps
          /\ counts["prepared"] = tracker.prepared
      BY <1>3, <2>1, <2>2 DEF Quiet
    <3>3. (tracker.quiet + 1) * MinOpps = tracker.quiet * MinOpps + MinOpps
      BY <1>3
    <3>4. seen >= streak.opportunities + (tracker.quiet + 1) * MinOpps
      <4>1. tracker.quiet * MinOpps \in Int
        BY <1>3
      <4>2. tracker.opportunities >= streak.opportunities + tracker.quiet * MinOpps
        BY <3>2 DEF Streaks
      <4> QED BY <1>3, <2>1, <3>2, <3>3, <4>1, <4>2
    <3>5. Streaks'
      BY <1>3, <2>1, <3>1, <3>2, <3>4 DEF Streaks
    <3> QED BY <1>2, <1>3, <1>4, <2>1, <3>1, <3>5
  <2>3. CASE ~ Quiet
    <3>1. /\ tracker' = [primed |-> TRUE, quiet |-> 0,
                         opportunities |-> seen, prepared |-> counts["prepared"]]
          /\ streak' = [opportunities |-> seen, prepared |-> counts["prepared"]]
          /\ cooling' \in BOOLEAN
      BY <1>6, <2>3 DEF Observe
    <3>2. 0 * MinOpps = 0
      BY <1>3
    <3>3. Streaks'
      BY <1>3, <2>1, <3>1, <3>2 DEF Streaks
    <3> QED BY <1>2, <1>3, <1>4, <2>1, <3>1, <3>3
  <2> QED BY <2>2, <2>3
<1>7. CASE Cooled
  BY <1>1, <1>2, <1>4, <1>7 DEF Cooled, FunnelTypeOK, Streaks, stats
<1> QED BY <1>5, <1>6, <1>7

\* With nothing counted, no scan may be where one counts.
LEMMA Afresh ==
  ASSUME counts = NoCounts, bridge = NoBridges, simreasons = NoReasons, resized = {},
         at \in [Scans -> {"new", "past"}], seen = -1, tracker = NoTracker, streak = NoStreak
  PROVE ByCounter /\ ByBridge /\ ByReason /\ Streaks
<1>1. ASSUME NEW c \in Counters PROVE Behind(c) = {}
  <2>1. {"new", "past"} \cap Reached(c) = {}
    BY Fates DEF Counters, Yielded, Opportunities, Discarded, Prepared
  <2> QED BY <2>1 DEF Behind
<1>2. ByCounter
  BY <1>1, FS_EmptySet DEF ByCounter, NoCounts
<1>3. ByBridge
  <2>1. ASSUME NEW b \in Bridges, NEW c \in BridgeCounters PROVE Of(b, c) = {}
    BY <1>1 DEF Of, BridgeCounters, Counters
  <2> QED BY <2>1, FS_EmptySet DEF ByBridge, NoBridges
<1>4. ByReason
  <2>1. ASSUME NEW r PROVE Because(r) = {}
    BY DEF Because
  <2> QED BY <2>1, FS_EmptySet DEF ByReason, NoReasons
<1>5. Streaks
  BY DEF Streaks, NoTracker, NoStreak, NoCounts, Counters
<1> QED BY <1>2, <1>3, <1>4, <1>5

LEMMA Zeros ==
  /\ NoCounts \in [Counters -> Nat] /\ NoBridges \in [Bridges -> [BridgeCounters -> Nat]]
  /\ NoReasons \in [Reasons -> Nat]
  /\ NoTracker \in [primed : BOOLEAN, quiet : Nat, opportunities : Nat, prepared : Nat]
  /\ NoStreak \in [opportunities : Nat, prepared : Nat]
  BY DEF NoCounts, NoBridges, NoReasons, NoTracker, NoStreak

LEMMA FunnelStart == FunnelInit => FunnelInv
<1> SUFFICES ASSUME FunnelInit PROVE FunnelInv
  OBVIOUS
<1>1. FunnelTypeOK
  <2>1. Cycle \in Seq(Bases \X Bridges) /\ Len(Cycle) >= 1 /\ Len(Cycle) \in Nat
        /\ Cycle[1] \in Bases \X Bridges
    BY FunnelAssumption DEF FunnelAssumption
  <2>2. mode \in [build : BOOLEAN, submit : BOOLEAN, dry : BOOLEAN]
    BY FunnelAssumption DEF FunnelAssumption, FunnelInit
  <2> QED
    <3>1. at \in [Scans -> Places] /\ tokens \in [Scans -> Bases \X Bridges]
          /\ simtext \in [Scans -> AllTexts \union {NoText}] /\ next \in 1 .. Len(Cycle)
      BY <2>1 DEF FunnelInit, Places
    <3>2. counts \in [Counters -> Nat] /\ bridge \in [Bridges -> [BridgeCounters -> Nat]]
          /\ simreasons \in [Reasons -> Nat]
          /\ tracker \in [primed : BOOLEAN, quiet : Nat, opportunities : Nat, prepared : Nat]
          /\ streak \in [opportunities : Nat, prepared : Nat]
      BY Zeros DEF FunnelInit
    <3>3. resized \subseteq Scans /\ seen \in Nat \union {-1} /\ cooling \in BOOLEAN /\ restarts \in Nat
      BY DEF FunnelInit
    <3> QED BY <2>2, <3>1, <3>2, <3>3 DEF FunnelTypeOK
<1>2. ByCounter /\ ByBridge /\ ByReason /\ Streaks
  BY Afresh DEF FunnelInit
<1> QED BY <1>1, <1>2 DEF FunnelInv

LEMMA FunnelStep == FunnelInv /\ [FunnelNext]_fvars => FunnelInv'
<1> SUFFICES ASSUME FunnelInv, [FunnelNext]_fvars PROVE FunnelInv'
  OBVIOUS
<1>1. CASE FunnelRestart
  <2>1. FunnelTypeOK'
    <3>1. 1 \in 1 .. Len(Cycle)
      BY FunnelAssumption DEF FunnelAssumption
    <3>2. at' \in [Scans -> Places] /\ tokens' = tokens /\ mode' = mode
      BY <1>1 DEF FunnelRestart, Places
    <3> QED
      <4>1. counts' \in [Counters -> Nat] /\ bridge' \in [Bridges -> [BridgeCounters -> Nat]]
            /\ simreasons' \in [Reasons -> Nat]
            /\ tracker' \in [primed : BOOLEAN, quiet : Nat, opportunities : Nat, prepared : Nat]
            /\ streak' \in [opportunities : Nat, prepared : Nat]
        BY <1>1, Zeros DEF FunnelRestart
      <4>2. /\ resized' \subseteq Scans /\ seen' \in Nat \union {-1} /\ cooling' \in BOOLEAN
            /\ next' = 1 /\ simtext' = [r \in Scans |-> NoText]
        BY <1>1 DEF FunnelRestart
      <4>3. simtext' \in [Scans -> AllTexts \union {NoText}]
        BY <4>2
      <4>4. restarts' \in Nat /\ tokens' \in [Scans -> Bases \X Bridges]
            /\ mode' \in [build : BOOLEAN, submit : BOOLEAN, dry : BOOLEAN]
        BY <1>1, <3>2 DEF FunnelRestart, FunnelInv, FunnelTypeOK
      <4> QED BY <3>1, <3>2, <4>1, <4>2, <4>3, <4>4 DEF FunnelTypeOK
  <2>2. ByCounter' /\ ByBridge' /\ ByReason' /\ Streaks'
    <3>1. at' \in [Scans -> {"new", "past"}]
      BY <1>1 DEF FunnelRestart
    <3>2. (/\ counts = NoCounts /\ bridge = NoBridges /\ simreasons = NoReasons /\ resized = {}
           /\ at \in [Scans -> {"new", "past"}] /\ seen = -1 /\ tracker = NoTracker
           /\ streak = NoStreak)'
      BY <1>1, <3>1 DEF FunnelRestart, NoCounts, NoBridges, NoReasons, NoTracker, NoStreak
    <3> QED BY <3>2, Afresh, PTL
  <2> QED BY <2>1, <2>2 DEF FunnelInv
<1>2. CASE LoadOpportunities \/ Observe \/ Cooled
  BY <1>2, MonitorKeeps
<1>3. ASSUME NEW s \in Scans, Scan(s) \/ Execute(s) PROVE FunnelInv'
  BY <1>3, ScanKeeps, ExecuteKeeps
<1>4. CASE UNCHANGED fvars
  <2>1. UNCHANGED <<mode, next, at, tokens, resized, simtext, counts, bridge, simreasons, seen,
                    tracker, cooling, streak, restarts>>
    BY <1>4 DEF fvars, item, stats, monitor
  <2>2. FunnelTypeOK'
    <3>1. FunnelTypeOK
      BY DEF FunnelInv
    <3> QED BY <2>1, <3>1, Zenon DEF FunnelTypeOK
  <2>3. Streaks'
    BY <2>1 DEF FunnelInv, Streaks
  <2>4. ByCounter'
    BY <2>1 DEF FunnelInv, ByCounter, Behind
  <2>5. ByBridge'
    <3>1. \A b \in Bridges, c \in BridgeCounters : Of(b, c)' = Of(b, c)
      BY <2>1 DEF Of, Behind
    <3> QED BY <2>1, <3>1 DEF FunnelInv, ByBridge
  <2>6. ByReason'
    BY <2>1 DEF FunnelInv, ByReason, Because
  <2> QED BY <2>2, <2>3, <2>4, <2>5, <2>6 DEF FunnelInv
<1> QED BY <1>1, <1>2, <1>3, <1>4 DEF FunnelNext

LEMMA FunnelMeans == FunnelInv => FunnelIsTold
<1> SUFFICES ASSUME FunnelInv PROVE FunnelIsTold
  OBVIOUS
<1>1. FunnelAddsUp
  BY DEF FunnelInv, ByCounter, ByBridge, ByReason, Of, Because, FunnelAddsUp
<1>2. AlertsAreTrue
  BY DEF FunnelInv, Streaks, AlertsAreTrue
<1> QED BY <1>1, <1>2 DEF FunnelIsTold

(***************************************************************************)
(* What reports and alerts say of the scans is so: every counter is the    *)
(* number of scans that reached it, for each bridge and reason too, and a  *)
(* quiet streak is one (ArbStats, QuietWindowTracker), for any number of   *)
(* scans, workers and restarts.                                            *)
(***************************************************************************)
THEOREM FunnelTold == FunnelSpec => []FunnelIsTold
<1>1. FunnelInit => FunnelInv
  BY FunnelStart
<1>2. FunnelInv /\ [FunnelNext]_fvars => FunnelInv'
  BY FunnelStep
<1>3. FunnelInv => FunnelIsTold
  BY FunnelMeans
<1> QED BY <1>1, <1>2, <1>3, PTL DEF FunnelSpec

-----------------------------------------------------------------------------
(***************************************************************************)
(* The book of the transactions                                            *)
(***************************************************************************)

TxFields == {"submitted", "succeeded", "failed"}
OfBase(b, f) == {x \in Counted(f) : BaseOf[x] = b}
ForReason(r) == {x \in Counted("failed") : ChainReason(chaintext[x]) = r}
OnRoute(r) == {x \in Counted("failed") : RouteOf[x] = r}
Entries == {r \in VenueRoutes : failed[r] > 0}
InReport(b, f) == IF report = NoReport THEN 0 ELSE report[b][f]

\* What a transaction can still count as: a row that is pending is not
\* booked, a submission that may time out has not.
Progress ==
  /\ \A x \in Txs : booked[x] # "none" => row[x] = "final"
  /\ \A x \in partial : booked[x] # "none"
  /\ \A x \in poll \union expired : broadcast[x] \in {"submitted", "uncertain"}
  /\ poll \cap expired = {}

BySession == \A b \in Bases, f \in Fields : session[b][f] = Cardinality(OfBase(b, f))
ByHour == \A b \in Bases, f \in Fields : session[b][f] = hour[b][f] + told[b][f] + InReport(b, f)
ByTxs == \A c \in TxFields : txs[c] = Cardinality(Counted(c))
ByChainReason == \A r \in Reasons : chainreasons[r] = Cardinality(ForReason(r))

\* A route without an entry has failed only if the map was full, and still is.
ByRoute ==
  \A r \in VenueRoutes :
    /\ failed[r] \in {0, Cardinality(OnRoute(r))}
    /\ failed[r] = 0 /\ OnRoute(r) # {} => Cardinality(Entries) >= MaxRoutes

ProfitInv ==
  /\ ProfitTypeOK /\ Progress /\ BySession /\ ByHour /\ ByTxs /\ ByChainReason /\ ByRoute
  /\ RecentAreSuccesses

-----------------------------------------------------------------------------
LEMMA TxsFinite ==
  /\ IsFiniteSet(Txs) /\ \A S \in SUBSET Txs : IsFiniteSet(S)
  /\ \A S \in SUBSET VenueRoutes : IsFiniteSet(S)
<1>1. IsFiniteSet(Txs) /\ IsFiniteSet(VenueRoutes)
  BY ProfitAssumption DEF ProfitAssumption
<1> QED BY <1>1, FS_Subset

LEMMA CountedAre ==
  /\ Counted("submitted") = {x \in Txs : broadcast[x] = "submitted"}
  /\ Counted("unknown") = expired
  /\ Counted("incomplete") = partial
  /\ Counted("succeeded") = {x \in Txs : booked[x] = "succeeded"}
  /\ Counted("failed") = {x \in Txs : booked[x] = "failed"}
  BY DEF Counted

LEMMA CountedFinite ==
  ASSUME ProfitTypeOK, NEW f \in Fields
  PROVE Counted(f) \in SUBSET Txs /\ IsFiniteSet(Counted(f))
        /\ \A b : IsFiniteSet(OfBase(b, f))
<1>1. Counted(f) \in SUBSET Txs
  BY CountedAre DEF Fields, ProfitTypeOK
<1>2. \A b : OfBase(b, f) \in SUBSET Txs
  BY <1>1 DEF OfBase
<1> QED BY <1>1, <1>2, TxsFinite

LEMMA RecordedTyped ==
  ASSUME NEW w \in Windows, NEW b \in Bases, NEW fields
  PROVE Recorded(w, b, fields) \in Windows
<1>1. [f \in Fields |-> IF f \in fields THEN w[b][f] + 1 ELSE w[b][f]] \in [Fields -> Nat]
  BY DEF Windows
<1> QED BY <1>1 DEF Recorded, Windows

\* A transaction enters the fields named, and both windows count it in them.
Enters(x, fields) ==
  \A f \in Fields : IF f \in fields THEN x \notin Counted(f) /\ Counted(f)' = Counted(f) \union {x}
                                    ELSE Counted(f)' = Counted(f)

LEMMA RecordKeeps ==
  ASSUME ProfitTypeOK, BySession, ByHour, NEW x \in Txs, NEW fields,
         Record(BaseOf[x], fields), Enters(x, fields), UNCHANGED <<report, told>>
  PROVE BySession' /\ ByHour' /\ session' \in Windows /\ hour' \in Windows
<1>1. BaseOf[x] \in Bases
  BY ProfitAssumption DEF ProfitAssumption
<1>2. session' \in Windows /\ hour' \in Windows
  BY <1>1, RecordedTyped DEF Record, ProfitTypeOK
<1>3. ASSUME NEW b \in Bases, NEW f \in Fields, f \in fields, b = BaseOf[x]
      PROVE session'[b][f] = session[b][f] + 1 /\ hour'[b][f] = hour[b][f] + 1
  BY <1>3 DEF Record, Recorded, ProfitTypeOK, Windows
<1>4. ASSUME NEW b \in Bases, NEW f \in Fields, ~ (f \in fields /\ b = BaseOf[x])
      PROVE session'[b][f] = session[b][f] /\ hour'[b][f] = hour[b][f]
  BY <1>4 DEF Record, Recorded, ProfitTypeOK, Windows
<1>5. ASSUME NEW b \in Bases, NEW f \in Fields
      PROVE session'[b][f] = Cardinality(OfBase(b, f)')
  <2>1. CASE f \in fields /\ b = BaseOf[x]
    <3>1. x \notin OfBase(b, f) /\ OfBase(b, f)' = OfBase(b, f) \union {x}
      BY <2>1 DEF OfBase, Enters
    <3>2. Cardinality(OfBase(b, f)') = Cardinality(OfBase(b, f)) + 1
      BY <3>1, CountedFinite, OneMore
    <3> QED BY <2>1, <3>2, <1>3 DEF BySession
  <2>2. CASE ~ (f \in fields /\ b = BaseOf[x])
    <3>1. OfBase(b, f)' = OfBase(b, f)
      BY <2>2 DEF OfBase, Enters
    <3> QED BY <2>2, <3>1, <1>4 DEF BySession
  <2> QED BY <2>1, <2>2
<1>6. ASSUME NEW b \in Bases, NEW f \in Fields
      PROVE session'[b][f] = hour'[b][f] + told'[b][f] + InReport(b, f)'
  <2>1. session[b][f] = hour[b][f] + told[b][f] + InReport(b, f)
    BY DEF ByHour
  <2>2. told' = told /\ InReport(b, f)' = InReport(b, f)
    BY DEF InReport
  <2>3. session[b][f] \in Nat /\ hour[b][f] \in Nat /\ told[b][f] \in Nat /\ InReport(b, f) \in Nat
    BY DEF ProfitTypeOK, Windows, InReport
  <2>4. \/ session'[b][f] = session[b][f] + 1 /\ hour'[b][f] = hour[b][f] + 1
        \/ session'[b][f] = session[b][f] /\ hour'[b][f] = hour[b][f]
    BY <1>3, <1>4
  <2> QED BY <2>1, <2>2, <2>3, <2>4
<1> QED BY <1>2, <1>5, <1>6 DEF BySession, ByHour

\* With the fields, nothing that is counted changes.
LEMMA Unmoved ==
  ASSUME BySession, ByHour, ByTxs, \A f \in Fields : Counted(f)' = Counted(f),
         UNCHANGED <<session, hour, report, told, txs>>
  PROVE BySession' /\ ByHour' /\ ByTxs'
<1>1. BySession'
  BY DEF BySession, OfBase
<1>2. ByHour'
  BY DEF ByHour, InReport
<1>3. ByTxs'
  BY DEF ByTxs, TxFields, Fields
<1> QED BY <1>1, <1>2, <1>3

LEMMA FailuresUnmoved ==
  ASSUME ByChainReason, ByRoute, Counted("failed")' = Counted("failed"),
         \A x \in Counted("failed") : chaintext'[x] = chaintext[x],
         UNCHANGED <<chainreasons, failed>>
  PROVE ByChainReason' /\ ByRoute'
<1>1. ByChainReason'
  <2>1. \A r : ForReason(r)' = ForReason(r)
    BY DEF ForReason
  <2> QED BY <2>1 DEF ByChainReason
<1>2. ByRoute'
  BY DEF ByRoute, OnRoute, Entries
<1> QED BY <1>1, <1>2

LEMMA SentKeeps ==
  ASSUME ProfitInv, NEW x \in Txs, Accepted(x) \/ Uncertain(x)
  PROVE ProfitInv'
<1> USE DEF ProfitInv
<1>1. PICK answer \in {"submitted", "uncertain"} :
        Sent(x, answer) /\ (answer = "submitted" <=> Accepted(x))
              /\ (answer = "uncertain" <=> Uncertain(x))
  BY DEF Accepted, Uncertain, Sent, ProfitTypeOK
<1>2. /\ broadcast[x] = "none" /\ broadcast' = [broadcast EXCEPT ![x] = answer]
      /\ poll' \in {poll, poll \union {x}}
      /\ UNCHANGED <<row, expired, booked, partial, chaintext, chainreasons, failed, recent,
                     report, told, crashes>>
  BY <1>1 DEF Sent
<1>3. broadcast'[x] = answer /\ \A y \in Txs \ {x} : broadcast'[y] = broadcast[y]
  BY <1>2 DEF ProfitTypeOK
<1>4. Progress'
  BY <1>2, <1>3 DEF Progress, ProfitTypeOK
<1>5. \A f \in Fields \ {"submitted"} : Counted(f)' = Counted(f)
  BY <1>2, CountedAre DEF Counted, Fields
<1>6. /\ answer = "submitted" => x \notin Counted("submitted")
                                 /\ Counted("submitted")' = Counted("submitted") \union {x}
      /\ answer = "uncertain" => Counted("submitted")' = Counted("submitted")
  BY <1>2, <1>3 DEF Counted
<1>7. BySession' /\ ByHour' /\ ByTxs' /\ session' \in Windows /\ hour' \in Windows
      /\ txs' \in [TxFields -> Nat]
  <2>1. CASE Accepted(x)
    <3>1. Record(BaseOf[x], {"submitted"}) /\ Enters(x, {"submitted"})
      BY <1>1, <1>5, <1>6, <2>1 DEF Accepted, Enters
    <3>2. BySession' /\ ByHour' /\ session' \in Windows /\ hour' \in Windows
      BY <1>2, <3>1, RecordKeeps
    <3>3. txs' = [txs EXCEPT !["submitted"] = @ + 1] /\ txs \in [TxFields -> Nat]
      BY <2>1 DEF Accepted, ProfitTypeOK, TxFields
    <3>4. ASSUME NEW c \in TxFields PROVE txs'[c] = Cardinality(Counted(c)')
      <4>1. CASE c = "submitted"
        <5>1. Cardinality(Counted(c)') = Cardinality(Counted(c)) + 1
          BY <1>1, <1>6, <2>1, <4>1, CountedFinite, OneMore DEF Fields
        <5> QED BY <3>3, <4>1, <5>1 DEF ByTxs
      <4>2. CASE c # "submitted"
        BY <1>5, <3>3, <4>2 DEF ByTxs, TxFields, Fields
      <4> QED BY <4>1, <4>2
    <3>5. txs' \in [TxFields -> Nat]
      BY <3>3 DEF TxFields
    <3> QED BY <3>2, <3>4, <3>5 DEF ByTxs
  <2>2. CASE Uncertain(x)
    <3>1. UNCHANGED <<session, hour, txs>> /\ answer = "uncertain"
      BY <1>1, <2>2 DEF Uncertain
    <3>2. \A f \in Fields : Counted(f)' = Counted(f)
      BY <1>5, <1>6, <3>1
    <3> QED BY <1>2, <3>1, <3>2, Unmoved DEF ProfitTypeOK, TxFields
  <2> QED BY <2>1, <2>2
<1>8. ByChainReason' /\ ByRoute'
  BY <1>2, <1>5, FailuresUnmoved DEF Fields
<1>9. RecentAreSuccesses'
  BY <1>2 DEF RecentAreSuccesses
<1>10. ProfitTypeOK'
  <2>1. broadcast' \in [Txs -> {"none", "submitted", "uncertain", "rejected", "old"}]
        /\ poll' \subseteq Txs
    BY <1>2 DEF ProfitTypeOK
  <2> QED BY <1>2, <1>7, <2>1 DEF ProfitTypeOK, TxFields
<1> QED BY <1>4, <1>7, <1>8, <1>9, <1>10

\* Nothing is counted by signing, by a rejection or by a late poll.
LEMMA UncountedKeeps ==
  ASSUME ProfitInv, NEW x \in Txs, Sign(x) \/ Rejected(x) \/ PollLate(x)
  PROVE ProfitInv'
<1> USE DEF ProfitInv
<1>1. /\ UNCHANGED <<expired, booked, partial, chaintext, txs, chainreasons, failed, session, hour,
                     recent, report, told, crashes>>
      /\ \/ broadcast' = broadcast
         \/ broadcast[x] = "none" /\ broadcast' = [broadcast EXCEPT ![x] = "rejected"]
      /\ \/ row' = row
         \/ row[x] = "none" /\ row' = [row EXCEPT ![x] = "pending"]
         \/ row' = [row EXCEPT ![x] = "final"]
      /\ poll' \in {poll, poll \ {x}}
  BY DEF Sign, Rejected, PollLate, tallies, book
<1>2. \A f \in Fields : Counted(f)' = Counted(f)
  <2>1. Counted("submitted")' = Counted("submitted")
    BY <1>1 DEF Counted, ProfitTypeOK
  <2>2. \A f \in Fields \ {"submitted"} : Counted(f)' = Counted(f)
    BY <1>1, CountedAre DEF Counted, Fields
  <2> QED BY <2>1, <2>2
<1>3. Progress'
  BY <1>1 DEF Progress, ProfitTypeOK
<1>4. BySession' /\ ByHour' /\ ByTxs'
  BY <1>1, <1>2, Unmoved
<1>5. ByChainReason' /\ ByRoute'
  BY <1>1, <1>2, FailuresUnmoved DEF Fields
<1>6. RecentAreSuccesses'
  BY <1>1 DEF RecentAreSuccesses
<1>7. ProfitTypeOK'
  <2>1. broadcast' \in [Txs -> {"none", "submitted", "uncertain", "rejected", "old"}]
        /\ poll' \subseteq Txs /\ row' \in [Txs -> {"none", "pending", "final"}]
    BY <1>1 DEF ProfitTypeOK
  <2> QED BY <1>1, <2>1 DEF ProfitTypeOK
<1> QED BY <1>3, <1>4, <1>5, <1>6, <1>7

LEMMA TimesOutKeeps ==
  ASSUME ProfitInv, NEW x \in Txs, PollTimesOut(x)
  PROVE ProfitInv'
<1> USE DEF ProfitInv
<1>1. /\ x \in poll /\ poll' = poll \ {x} /\ expired' = expired \union {x}
      /\ Record(BaseOf[x], {"unknown"})
      /\ UNCHANGED <<broadcast, row, booked, partial, chaintext, txs, chainreasons, failed, recent,
                     report, told, crashes>>
  BY DEF PollTimesOut, tallies
<1>2. x \notin expired
  BY <1>1 DEF Progress
<1>3. \A f \in Fields \ {"unknown"} : Counted(f)' = Counted(f)
  BY <1>1, CountedAre DEF Counted, Fields
<1>4. Enters(x, {"unknown"})
  BY <1>1, <1>2, <1>3 DEF Enters, Counted
<1>5. BySession' /\ ByHour' /\ session' \in Windows /\ hour' \in Windows
  BY <1>1, <1>4, RecordKeeps
<1>6. ByTxs'
  BY <1>1, <1>3 DEF ByTxs, TxFields, Fields
<1>7. Progress'
  BY <1>1, <1>2 DEF Progress, ProfitTypeOK
<1>8. ByChainReason' /\ ByRoute'
  BY <1>1, <1>3, FailuresUnmoved DEF Fields
<1>9. RecentAreSuccesses'
  BY <1>1 DEF RecentAreSuccesses
<1>10. ProfitTypeOK'
  BY <1>1, <1>5 DEF ProfitTypeOK
<1> QED BY <1>5, <1>6, <1>7, <1>8, <1>9, <1>10

\* The latest transactions with one in front that is not among them.
LEMMA NewestOnes ==
  ASSUME ProfitTypeOK, RecentAreSuccesses, NEW x \in Txs, \A i \in DOMAIN recent : recent[i] # x
  PROVE /\ Newest(x) \in Seq(Txs) /\ Len(Newest(x)) <= MaxRecent
        /\ \A i \in DOMAIN Newest(x) :
             Newest(x)[i] = x \/ \E j \in DOMAIN recent : Newest(x)[i] = recent[j]
        /\ \A i, j \in DOMAIN Newest(x) : Newest(x)[i] = Newest(x)[j] => i = j
<1>1. MaxRecent \in Nat /\ recent \in Seq(Txs) /\ Len(recent) <= MaxRecent /\ Len(recent) \in Nat
  BY ProfitAssumption DEF ProfitAssumption, ProfitTypeOK, RecentAreSuccesses
<1>2. CASE MaxRecent = 0
  BY <1>2 DEF Newest
<1>3. CASE MaxRecent # 0
  <2> DEFINE n == IF Len(recent) < MaxRecent THEN Len(recent) ELSE MaxRecent - 1
             new == <<x>> \o SubSeq(recent, 1, n)
  <2>1. n \in Nat /\ n <= Len(recent) /\ n < MaxRecent /\ Newest(x) = new
    BY <1>1, <1>3 DEF Newest
  <2> HIDE DEF n
  <2>2. SubSeq(recent, 1, n) \in Seq(Txs) /\ Len(SubSeq(recent, 1, n)) = n
        /\ \A i \in 1 .. n : SubSeq(recent, 1, n)[i] = recent[i]
    BY <1>1, <2>1
  <2>3. new \in Seq(Txs) /\ Len(new) = n + 1 /\ new[1] = x
        /\ \A i \in 2 .. n + 1 : new[i] = recent[i - 1]
    BY <2>1, <2>2
  <2> HIDE DEF new
  <2>4. DOMAIN new = 1 .. n + 1 /\ DOMAIN recent = 1 .. Len(recent)
    BY <1>1, <2>1, <2>3
  <2>5. \A i \in DOMAIN new : new[i] = x \/ \E j \in DOMAIN recent : new[i] = recent[j]
    <3>1. ASSUME NEW i \in DOMAIN new, i # 1 PROVE new[i] = recent[i - 1] /\ i - 1 \in DOMAIN recent
      BY <1>1, <2>1, <2>3, <2>4, <3>1
    <3> QED BY <2>3, <3>1
  <2>6. \A i, j \in DOMAIN new : new[i] = new[j] => i = j
    <3> SUFFICES ASSUME NEW i \in DOMAIN new, NEW j \in DOMAIN new, new[i] = new[j] PROVE i = j
      OBVIOUS
    <3>1. ASSUME NEW k \in DOMAIN new, k # 1 PROVE new[k] = recent[k - 1] /\ k - 1 \in DOMAIN recent
      BY <1>1, <2>1, <2>3, <2>4, <3>1
    <3>2. CASE i = 1 \/ j = 1
      BY <2>3, <3>1, <3>2
    <3>3. CASE i # 1 /\ j # 1
      <4>1. i - 1 = j - 1
        BY <3>1, <3>3 DEF RecentAreSuccesses
      <4> QED BY <2>1, <2>4, <4>1
    <3> QED BY <3>2, <3>3
  <2> QED BY <1>1, <2>1, <2>3, <2>5, <2>6
<1> QED BY <1>2, <1>3

LEMMA SettlesKeeps ==
  ASSUME ProfitInv, NEW x \in Txs, Settles(x), poll' \in {poll, poll \ {x}}
  PROVE ProfitInv'
<1> USE DEF ProfitInv
<1>1. PICK complete \in BOOLEAN, result \in {"succeeded", "failed"} :
        /\ Booked(x, result, complete)
        /\ result = "succeeded" =>
             recent' = (IF complete THEN Newest(x) ELSE recent)
             /\ UNCHANGED <<chaintext, chainreasons, failed>>
        /\ result = "failed" =>
             /\ recent' = recent /\ FailedRoute(RouteOf[x])
             /\ \E t \in Texts : chaintext' = [chaintext EXCEPT ![x] = t]
                                 /\ chainreasons' = [chainreasons EXCEPT ![ChainReason(t)] = @ + 1]
  BY DEF Settles, SucceedsOnChain, FailsOnChain
<1> DEFINE fields == {result} \union (IF complete THEN {} ELSE {"incomplete"})
<1>2. /\ row[x] = "pending" /\ row' = [row EXCEPT ![x] = "final"]
      /\ booked' = [booked EXCEPT ![x] = result]
      /\ partial' = IF complete THEN partial ELSE partial \union {x}
      /\ Record(BaseOf[x], fields) /\ txs' = [txs EXCEPT ![result] = @ + 1]
      /\ UNCHANGED <<broadcast, expired, report, told, crashes>>
  BY <1>1 DEF Booked
<1>3. booked[x] = "none" /\ x \notin partial /\ booked'[x] = result
      /\ \A y \in Txs \ {x} : booked'[y] = booked[y]
  BY <1>2 DEF Progress, ProfitTypeOK
<1>4. Enters(x, fields)
  <2>1. Counted("submitted")' = Counted("submitted") /\ Counted("unknown")' = Counted("unknown")
    BY <1>2, CountedAre DEF Counted
  <2>2. /\ x \notin Counted("incomplete")
        /\ Counted("incomplete")' = IF complete THEN Counted("incomplete")
                                                ELSE Counted("incomplete") \union {x}
    BY <1>2, <1>3 DEF Counted
  <2>3. /\ x \notin Counted("succeeded") /\ x \notin Counted("failed")
        /\ Counted("succeeded")' = IF result = "succeeded" THEN Counted("succeeded") \union {x}
                                                           ELSE Counted("succeeded")
        /\ Counted("failed")' = IF result = "failed" THEN Counted("failed") \union {x}
                                                     ELSE Counted("failed")
    BY <1>3 DEF Counted
  <2> QED BY <2>1, <2>2, <2>3 DEF Enters, Fields
<1>5. BySession' /\ ByHour' /\ session' \in Windows /\ hour' \in Windows
  BY <1>2, <1>4, RecordKeeps
<1>6. ByTxs' /\ txs' \in [TxFields -> Nat]
  <2>1. ASSUME NEW c \in TxFields PROVE txs'[c] = Cardinality(Counted(c)')
    <3>1. CASE c = result
      <4>1. x \notin Counted(c) /\ Counted(c)' = Counted(c) \union {x}
        BY <1>4, <3>1 DEF Enters, Fields
      <4>2. Cardinality(Counted(c)') = Cardinality(Counted(c)) + 1
        BY <3>1, <4>1, CountedFinite, OneMore DEF Fields
      <4> QED BY <1>2, <3>1, <4>2 DEF ByTxs, TxFields, ProfitTypeOK
    <3>2. CASE c # result
      <4>1. Counted(c)' = Counted(c)
        BY <1>4, <3>2 DEF Enters, Fields, TxFields
      <4> QED BY <1>2, <3>2, <4>1 DEF ByTxs, TxFields, ProfitTypeOK
    <3> QED BY <3>1, <3>2
  <2> QED BY <1>2, <2>1 DEF ByTxs, TxFields, ProfitTypeOK
<1>7. Progress'
  BY <1>2, <1>3 DEF Progress, ProfitTypeOK
<1>8. /\ ByChainReason' /\ ByRoute' /\ failed' \in [VenueRoutes -> Nat]
      /\ chaintext' \in [Txs -> AllTexts \union {NoText}] /\ chainreasons' \in [Reasons -> Nat]
  <2>1. CASE result = "succeeded"
    <3>1. Counted("failed")' = Counted("failed")
      BY <1>4, <2>1 DEF Enters, Fields
    <3> QED BY <1>1, <2>1, <3>1, FailuresUnmoved DEF ProfitTypeOK
  <2>2. CASE result = "failed"
    <3>1. PICK t \in Texts : chaintext' = [chaintext EXCEPT ![x] = t]
                             /\ chainreasons' = [chainreasons EXCEPT ![ChainReason(t)] = @ + 1]
      BY <1>1, <2>2
    <3>2. x \notin Counted("failed") /\ Counted("failed")' = Counted("failed") \union {x}
          /\ Counted("failed") \in SUBSET Txs
      BY <1>4, <2>2, CountedFinite DEF Enters, Fields
    <3>3. chaintext'[x] = t /\ \A y \in Txs \ {x} : chaintext'[y] = chaintext[y]
      BY <3>1 DEF ProfitTypeOK
    <3>4. ByChainReason' /\ chainreasons' \in [Reasons -> Nat]
      <4>1. ASSUME NEW r \in Reasons PROVE chainreasons'[r] = Cardinality(ForReason(r)')
        <5>1. CASE r = ChainReason(t)
          <6>1. x \notin ForReason(r) /\ ForReason(r)' = ForReason(r) \union {x}
                /\ ForReason(r) \in SUBSET Txs
            BY <3>2, <3>3, <5>1 DEF ForReason
          <6>2. Cardinality(ForReason(r)') = Cardinality(ForReason(r)) + 1
            BY <6>1, TxsFinite, OneMore
          <6> QED BY <3>1, <5>1, <6>2 DEF ByChainReason, ProfitTypeOK
        <5>2. CASE r # ChainReason(t)
          <6>1. ForReason(r)' = ForReason(r)
            BY <3>2, <3>3, <5>2 DEF ForReason
          <6> QED BY <3>1, <5>2, <6>1 DEF ByChainReason, ProfitTypeOK
        <5> QED BY <5>1, <5>2
      <4> QED BY <3>1, <4>1, ReasonCounted DEF ByChainReason, ProfitTypeOK
    <3>5. chaintext' \in [Txs -> AllTexts \union {NoText}]
      BY <3>1, StatsAssumption DEF StatsAssumption, ProfitTypeOK
    <3>6. ByRoute' /\ failed' \in [VenueRoutes -> Nat]
      <4> DEFINE q == RouteOf[x]
      <4>1. q \in VenueRoutes /\ MaxRoutes \in Nat
        BY ProfitAssumption DEF ProfitAssumption
      <4>2. /\ x \notin OnRoute(q) /\ OnRoute(q)' = OnRoute(q) \union {x}
            /\ \A r \in VenueRoutes \ {q} : OnRoute(r)' = OnRoute(r)
            /\ \A r \in VenueRoutes : OnRoute(r) \in SUBSET Txs
        BY <3>2 DEF OnRoute
      <4>3. Cardinality(OnRoute(q)') = Cardinality(OnRoute(q)) + 1
        BY <4>1, <4>2, TxsFinite, OneMore
      <4>4. failed' = IF failed[q] > 0 \/ Cardinality(Entries) < MaxRoutes
                      THEN [failed EXCEPT ![q] = @ + 1] ELSE failed
        BY <1>1, <2>2 DEF FailedRoute, Entries
      <4> HIDE DEF q
      <4>5. failed \in [VenueRoutes -> Nat] /\ failed' \in [VenueRoutes -> Nat]
            /\ \A r \in VenueRoutes : failed'[r] >= failed[r]
        BY <4>1, <4>4 DEF ProfitTypeOK
      <4>6. Cardinality(Entries) <= Cardinality(Entries') /\ Cardinality(Entries) \in Nat
            /\ Cardinality(Entries') \in Nat
        <5>1. Entries \subseteq Entries' /\ Entries' \in SUBSET VenueRoutes
          BY <4>5 DEF Entries
        <5> QED BY <5>1, TxsFinite, FS_Subset, FS_CardinalityType
      <4>7. ASSUME NEW r \in VenueRoutes, r # q
            PROVE /\ failed'[r] \in {0, Cardinality(OnRoute(r)')}
                  /\ failed'[r] = 0 /\ OnRoute(r)' # {} => Cardinality(Entries') >= MaxRoutes
        <5>1. failed'[r] = failed[r] /\ OnRoute(r)' = OnRoute(r)
          BY <4>1, <4>2, <4>4, <4>5, <4>7
        <5> QED BY <4>1, <4>6, <5>1 DEF ByRoute
      <4>8. /\ failed'[q] \in {0, Cardinality(OnRoute(q)')}
            /\ failed'[q] = 0 /\ OnRoute(q)' # {} => Cardinality(Entries') >= MaxRoutes
        <5>1. Cardinality(OnRoute(q)) \in Nat /\ (OnRoute(q) = {} => Cardinality(OnRoute(q)) = 0)
          BY <4>1, <4>2, TxsFinite, FS_CardinalityType, FS_EmptySet
        <5>2. CASE failed[q] > 0
          BY <4>1, <4>3, <4>4, <4>5, <5>1, <5>2 DEF ByRoute
        <5>3. CASE failed[q] = 0 /\ Cardinality(Entries) < MaxRoutes
          <6>1. OnRoute(q) = {}
            BY <4>1, <4>6, <5>3 DEF ByRoute
          <6> QED BY <4>1, <4>3, <4>4, <4>5, <5>1, <5>3, <6>1
        <5>4. CASE failed[q] = 0 /\ Cardinality(Entries) >= MaxRoutes
          BY <4>1, <4>4, <4>5, <4>6, <5>4
        <5> QED BY <4>1, <4>5, <4>6, <5>2, <5>3, <5>4
      <4> QED BY <4>5, <4>7, <4>8 DEF ByRoute
    <3> QED BY <3>4, <3>5, <3>6
  <2> QED BY <2>1, <2>2
<1>9. RecentAreSuccesses' /\ recent' \in Seq(Txs)
  <2>1. \A i \in DOMAIN recent : recent[i] \in Txs /\ recent[i] # x /\ booked[recent[i]] = "succeeded"
                                 /\ recent[i] \notin partial
    BY <1>3 DEF RecentAreSuccesses, ProfitTypeOK
  <2>2. CASE result = "succeeded" /\ complete
    <3>1. recent' = Newest(x) /\ partial' = partial
      BY <1>1, <1>2, <2>2
    <3>2. /\ Newest(x) \in Seq(Txs) /\ Len(Newest(x)) <= MaxRecent
          /\ \A i \in DOMAIN Newest(x) :
               Newest(x)[i] = x \/ \E j \in DOMAIN recent : Newest(x)[i] = recent[j]
          /\ \A i, j \in DOMAIN Newest(x) : Newest(x)[i] = Newest(x)[j] => i = j
      BY <2>1, NewestOnes
    <3> QED BY <1>3, <2>1, <2>2, <3>1, <3>2 DEF RecentAreSuccesses
  <2>3. CASE ~ (result = "succeeded" /\ complete)
    <3>1. recent' = recent
      BY <1>1, <2>3
    <3> QED BY <1>2, <1>3, <2>1, <3>1 DEF RecentAreSuccesses, ProfitTypeOK
  <2> QED BY <2>2, <2>3
<1>10. ProfitTypeOK'
  <2>1. row' \in [Txs -> {"none", "pending", "final"}] /\ poll' \subseteq Txs /\ partial' \subseteq Txs
        /\ booked' \in [Txs -> {"none", "succeeded", "failed"}]
    BY <1>2 DEF ProfitTypeOK
  <2> QED BY <1>2, <1>5, <1>6, <1>8, <1>9, <2>1 DEF ProfitTypeOK, TxFields
<1> QED BY <1>5, <1>6, <1>7, <1>8, <1>9, <1>10

LEMMA ReportKeeps ==
  ASSUME ProfitInv, TakeHour \/ Report
  PROVE ProfitInv'
<1> USE DEF ProfitInv
<1>1. UNCHANGED <<broadcast, row, poll, expired, booked, partial, chaintext, txs, chainreasons,
                  failed, session, recent, crashes>>
  BY DEF TakeHour, Report, SnapshotForHourlyReport, tallies, book
<1>2. Zero \in Windows /\ NoReport \notin Windows /\ \A b \in Bases, f \in Fields : Zero[b][f] = 0
  BY ProfitAssumption DEF ProfitAssumption, Zero, Windows
<1>3. /\ hour' \in Windows /\ told' \in Windows /\ report' \in Windows \union {NoReport}
      /\ ByHour'
  <2>1. CASE TakeHour
    <3>1. report = NoReport /\ report' = hour /\ hour' = Zero /\ told' = told
      BY <2>1 DEF TakeHour, SnapshotForHourlyReport
    <3>2. ASSUME NEW b \in Bases, NEW f \in Fields
          PROVE session[b][f] = hour'[b][f] + told'[b][f] + InReport(b, f)'
      <4>1. session[b][f] = hour[b][f] + told[b][f] + InReport(b, f)
        BY DEF ByHour
      <4>2. hour[b][f] \in Nat /\ told[b][f] \in Nat
        BY DEF ProfitTypeOK, Windows
      <4>3. InReport(b, f) = 0 /\ InReport(b, f)' = hour[b][f] /\ hour'[b][f] = 0
        BY <1>2, <3>1 DEF InReport, ProfitTypeOK
      <4> QED BY <3>1, <4>1, <4>2, <4>3
    <3> QED BY <1>1, <1>2, <3>1, <3>2 DEF ByHour, ProfitTypeOK
  <2>2. CASE Report
    <3>1. report # NoReport /\ report' = NoReport /\ told' = Plus(told, report) /\ hour' = hour
          /\ report \in Windows
      BY <2>2 DEF Report, book, ProfitTypeOK
    <3>2. told' \in Windows /\ \A b \in Bases, f \in Fields : told'[b][f] = told[b][f] + report[b][f]
      BY <3>1 DEF Plus, Windows, ProfitTypeOK
    <3>3. ASSUME NEW b \in Bases, NEW f \in Fields
          PROVE session[b][f] = hour'[b][f] + told'[b][f] + InReport(b, f)'
      <4>1. session[b][f] = hour[b][f] + told[b][f] + InReport(b, f)
        BY DEF ByHour
      <4>2. hour[b][f] \in Nat /\ told[b][f] \in Nat /\ report[b][f] \in Nat
        BY <3>1 DEF ProfitTypeOK, Windows
      <4>3. InReport(b, f) = report[b][f] /\ InReport(b, f)' = 0
        BY <3>1 DEF InReport
      <4> QED BY <3>1, <3>2, <4>1, <4>2, <4>3
    <3> QED BY <1>1, <3>1, <3>2, <3>3 DEF ByHour, ProfitTypeOK
  <2> QED BY <2>1, <2>2
<1>4. \A f \in Fields : Counted(f)' = Counted(f)
  BY <1>1, CountedAre DEF Counted, Fields
<1>5. BySession' /\ ByTxs'
  BY <1>1, <1>4 DEF BySession, OfBase, ByTxs, TxFields, Fields
<1>6. ByChainReason' /\ ByRoute'
  BY <1>1, <1>4, FailuresUnmoved DEF Fields
<1>7. Progress' /\ RecentAreSuccesses'
  BY <1>1 DEF Progress, RecentAreSuccesses
<1>8. ProfitTypeOK'
  BY <1>1, <1>3 DEF ProfitTypeOK
<1> QED BY <1>3, <1>5, <1>6, <1>7, <1>8

\* With nothing booked nothing is counted.
LEMMA Blank ==
  ASSUME /\ \A x \in Txs : broadcast[x] \in {"none", "old"} /\ booked[x] = "none"
         /\ poll = {} /\ expired = {} /\ partial = {} /\ recent = <<>> /\ report = NoReport
         /\ txs = NoTxs /\ chainreasons = NoReasons /\ failed = NoFailed
         /\ session = Zero /\ hour = Zero /\ told = Zero
  PROVE /\ Progress /\ BySession /\ ByHour /\ ByTxs /\ ByChainReason /\ ByRoute
        /\ RecentAreSuccesses
<1>1. ASSUME NEW f \in Fields PROVE Counted(f) = {}
  BY CountedAre DEF Fields
<1>2. \A b \in Bases, f \in Fields : Zero[b][f] = 0
  BY DEF Zero
<1>3. BySession /\ ByHour
  <2>1. \A b \in Bases, f \in Fields : OfBase(b, f) = {}
    BY <1>1 DEF OfBase
  <2> QED BY <1>2, <2>1, FS_EmptySet DEF BySession, ByHour, InReport
<1>4. ByTxs
  BY <1>1, FS_EmptySet DEF ByTxs, NoTxs, TxFields, Fields
<1>5. ByChainReason
  <2>1. \A r : ForReason(r) = {}
    BY <1>1 DEF ForReason, Fields
  <2> QED BY <2>1, FS_EmptySet DEF ByChainReason, NoReasons
<1>6. ByRoute
  <2>1. \A r : OnRoute(r) = {}
    BY <1>1 DEF OnRoute, Fields
  <2> QED BY <2>1 DEF ByRoute, NoFailed
<1>7. Progress /\ RecentAreSuccesses
  BY ProfitAssumption DEF ProfitAssumption, Progress, RecentAreSuccesses
<1> QED BY <1>3, <1>4, <1>5, <1>6, <1>7

LEMMA ProfitZeros ==
  /\ Zero \in Windows /\ NoTxs \in [TxFields -> Nat] /\ NoFailed \in [VenueRoutes -> Nat]
  /\ NoReasons \in [Reasons -> Nat] /\ <<>> \in Seq(Txs)
  BY DEF Zero, Windows, NoTxs, TxFields, NoFailed, NoReasons

LEMMA ProfitStart == ProfitInit => ProfitInv
<1> SUFFICES ASSUME ProfitInit PROVE ProfitInv
  OBVIOUS
<1>1. ProfitTypeOK
  BY ProfitZeros DEF ProfitInit, ProfitTypeOK, TxFields
<1>2. /\ Progress /\ BySession /\ ByHour /\ ByTxs /\ ByChainReason /\ ByRoute
      /\ RecentAreSuccesses
  BY Blank DEF ProfitInit
<1> QED BY <1>1, <1>2 DEF ProfitInv

LEMMA ProfitStep == ProfitInv /\ [ProfitNext]_pvars => ProfitInv'
<1> SUFFICES ASSUME ProfitInv, [ProfitNext]_pvars PROVE ProfitInv'
  OBVIOUS
<1>1. CASE ProfitRestart
  <2>1. /\ broadcast' = [x \in Txs |-> IF row[x] = "none" THEN "none" ELSE "old"]
        /\ poll' = {} /\ expired' = {} /\ partial' = {}
        /\ booked' = [x \in Txs |-> "none"] /\ chaintext' = [x \in Txs |-> NoText]
        /\ txs' = NoTxs /\ chainreasons' = NoReasons /\ failed' = NoFailed
        /\ session' = Zero /\ hour' = Zero /\ recent' = <<>>
        /\ report' = NoReport /\ told' = Zero /\ row' = row /\ crashes' = crashes + 1
    BY <1>1 DEF ProfitRestart
  <2>2. ProfitTypeOK'
    BY <2>1, ProfitZeros DEF ProfitInv, ProfitTypeOK, TxFields
  <2>3. (/\ \A x \in Txs : broadcast[x] \in {"none", "old"} /\ booked[x] = "none"
         /\ poll = {} /\ expired = {} /\ partial = {} /\ recent = <<>> /\ report = NoReport
         /\ txs = NoTxs /\ chainreasons = NoReasons /\ failed = NoFailed
         /\ session = Zero /\ hour = Zero /\ told = Zero)'
    BY <2>1 DEF NoTxs, NoReasons, NoFailed, Zero
  <2>4. (/\ Progress /\ BySession /\ ByHour /\ ByTxs /\ ByChainReason /\ ByRoute
         /\ RecentAreSuccesses)'
    BY <2>3, Blank, PTL
  <2> QED BY <2>2, <2>4 DEF ProfitInv
<1>2. CASE TakeHour \/ Report
  BY <1>2, ReportKeeps
<1>3. ASSUME NEW x \in Txs, Accepted(x) \/ Uncertain(x) PROVE ProfitInv'
  BY <1>3, SentKeeps
<1>4. ASSUME NEW x \in Txs, Sign(x) \/ Rejected(x) \/ PollLate(x) PROVE ProfitInv'
  BY <1>4, UncountedKeeps
<1>5. ASSUME NEW x \in Txs, Reconcile(x) \/ PollSettles(x) PROVE ProfitInv'
  BY <1>5, SettlesKeeps DEF Reconcile, PollSettles
<1>6. ASSUME NEW x \in Txs, PollTimesOut(x) PROVE ProfitInv'
  BY <1>6, TimesOutKeeps
<1>7. CASE UNCHANGED pvars
  <2>1. UNCHANGED <<broadcast, row, poll, expired, booked, partial, chaintext, txs, chainreasons,
                    failed, session, hour, recent, report, told, crashes>>
    BY <1>7 DEF pvars, tallies, book
  <2>2. ProfitInv
    OBVIOUS
  <2>3. \A f \in Fields : Counted(f)' = Counted(f)
    BY <2>1, CountedAre DEF Counted, Fields
  <2>4. BySession' /\ ByHour' /\ ByTxs'
    BY <2>1, <2>2, <2>3, Unmoved DEF ProfitInv
  <2>5. ByChainReason' /\ ByRoute'
    BY <2>1, <2>2, <2>3, FailuresUnmoved DEF ProfitInv, Fields
  <2>6. Progress' /\ RecentAreSuccesses'
    BY <2>1, <2>2 DEF ProfitInv, Progress, RecentAreSuccesses
  <2>7. ProfitTypeOK'
    <3>1. ProfitTypeOK
      BY <2>2 DEF ProfitInv
    <3> QED BY <2>1, <3>1, Zenon DEF ProfitTypeOK
  <2> QED BY <2>4, <2>5, <2>6, <2>7 DEF ProfitInv
<1> QED BY <1>1, <1>2, <1>3, <1>4, <1>5, <1>6, <1>7 DEF ProfitNext

LEMMA ProfitMeans == ProfitInv => ProfitIsTold
<1> SUFFICES ASSUME ProfitInv PROVE ProfitIsTold
  OBVIOUS
<1> USE DEF ProfitInv
<1>1. WindowsAddUp
  BY DEF BySession, ByHour, OfBase, InReport, WindowsAddUp
<1>2. FailuresExplained
  <2>1. DOMAIN txs = TxFields
    BY DEF ProfitTypeOK, TxFields
  <2> QED BY <2>1 DEF ByTxs, ByChainReason, ByRoute, ForReason, OnRoute, FailuresExplained
<1> QED BY <1>1, <1>2 DEF ProfitIsTold

(***************************************************************************)
(* What the hourly reports say of the transactions is so: the session and  *)
(* the hours of a base count each once, whoever settles it, every failure  *)
(* has one reason, and the latest transactions are complete successes      *)
(* (ProfitBook, apply_settlement), for any transactions and bases.         *)
(***************************************************************************)
THEOREM ProfitTold == ProfitSpec => []ProfitIsTold
<1>1. ProfitInit => ProfitInv
  BY ProfitStart
<1>2. ProfitInv /\ [ProfitNext]_pvars => ProfitInv'
  BY ProfitStep
<1>3. ProfitInv => ProfitIsTold
  BY ProfitMeans
<1> QED BY <1>1, <1>2, <1>3, PTL DEF ProfitSpec
=============================================================================
