---------------------------- MODULE SumTheorems ----------------------------
(***************************************************************************)
(* What the sums of the models' properties add up to: facts about          *)
(* SumFunctionOnSet of Functions, over a finite set.                       *)
(***************************************************************************)
EXTENDS Integers, FiniteSets, Functions, FiniteSetTheorems, WellFoundedInduction, TLAPS

(* the recursive function that SumFunctionOnSet(f, S) evaluates at S *)
Pick(s) == CHOOSE x \in s : TRUE
Body(f, g, s) == IF s = {} THEN 0 ELSE f[Pick(s)] + g[s \ {Pick(s)}]
IsSum(f, S, g) == g = [s \in SUBSET S |-> Body(f, g, s)]
Partial(f, S) == CHOOSE g : IsSum(f, S, g)

(* A sum over S is that function's value at S. *)
LEMMA SumIsPartial ==
  ASSUME NEW f, NEW S
  PROVE  SumFunctionOnSet(f, S) = Partial(f, S)[S]
BY DEF SumFunctionOnSet, FoldFunctionOnSet, MapThenFoldSet, Partial, IsSum, Body, Pick

(* A set of numbers that is not empty has a smallest member. *)
LEMMA SmallestNumber ==
  ASSUME NEW Bad \in SUBSET Nat, NEW n \in Bad
  PROVE  \E m \in Bad : \A k \in Bad : m <= k
<1>1. PICK m \in Bad : \A k \in Bad : ~(<<k, m>> \in OpToRel(<, Nat))
  BY NatLessThanWellFounded, WFMin
<1>2. \A k \in Bad : ~(k < m)
  BY <1>1 DEF OpToRel
<1> QED BY <1>2

(* The recursive function exists, by induction on the size of the subsets. *)
LEMMA SumExists ==
  ASSUME NEW f, NEW S, IsFiniteSet(S)
  PROVE  \E g : IsSum(f, S, g)
<1> DEFINE Upto(n, g) == g = [s \in SUBSET S |-> IF Cardinality(s) <= n THEN Body(f, g, s) ELSE 0]
           Bad == {n \in Nat : ~ \E g : Upto(n, g)}
<1>0. \A s \in SUBSET S : IsFiniteSet(s) /\ Cardinality(s) \in Nat
  BY FS_Subset, FS_CardinalityType
<1>00. \A s \in SUBSET S : s # {} => /\ s \ {Pick(s)} \in SUBSET S
                                     /\ Cardinality(s \ {Pick(s)}) = Cardinality(s) - 1
  BY <1>0, FS_RemoveElement DEF Pick
<1>1. 0 \notin Bad
  <2> DEFINE g == [s \in SUBSET S |-> 0]
  <2>1. \A s \in SUBSET S : Cardinality(s) <= 0 => Body(f, g, s) = 0
    BY <1>0, FS_EmptySet DEF Body
  <2>2. Upto(0, g)
    BY <2>1
  <2> QED BY <2>2
<1>2. ASSUME NEW n \in Nat, n \notin Bad PROVE n + 1 \notin Bad
  <2>1. PICK g : Upto(n, g)
    BY <1>2
  <2> DEFINE h == [s \in SUBSET S |-> IF Cardinality(s) <= n + 1 THEN Body(f, g, s) ELSE 0]
  <2>2. ASSUME NEW s \in SUBSET S, Cardinality(s) <= n + 1 PROVE Body(f, h, s) = Body(f, g, s)
    <3>1. CASE s = {}
      BY <3>1 DEF Body
    <3>2. CASE s # {}
      <4> DEFINE t == s \ {Pick(s)}
      <4>0. t \in SUBSET S /\ Cardinality(t) = Cardinality(s) - 1
        BY <1>00, <3>2
      <4>1. t \in SUBSET S /\ Cardinality(t) <= n /\ Cardinality(t) \in Nat
        <5> HIDE DEF t
        <5> QED BY <1>0, <2>2, <4>0
      <4> HIDE DEF t
      <4>2. h[t] = Body(f, g, t) /\ g[t] = Body(f, g, t)
        BY <2>1, <4>1
      <4> QED BY <3>2, <4>2 DEF Body, t
    <3> QED BY <3>1, <3>2
  <2>3. Upto(n + 1, h)
    BY <2>2
  <2> QED BY <2>3
<1>3. Bad = {}
  <2> SUFFICES ASSUME NEW n \in Bad PROVE FALSE
    OBVIOUS
  <2> HIDE DEF Bad
  <2>0. Bad \subseteq Nat
    BY DEF Bad
  <2>1. PICK m \in Bad : \A k \in Bad : m <= k
    BY <2>0, SmallestNumber
  <2>2. m # 0 /\ m \in Nat
    BY <1>1, <2>0, <2>1
  <2>3. m - 1 \in Nat /\ m - 1 \notin Bad
    BY <2>1, <2>2
  <2>4. (m - 1) + 1 \notin Bad
    BY <1>2, <2>3
  <2> QED BY <2>1, <2>2, <2>4
<1>4. PICK g : Upto(Cardinality(S), g)
  BY <1>0, <1>3
<1>5. \A s \in SUBSET S : Cardinality(s) <= Cardinality(S)
  BY FS_Subset
<1>6. IsSum(f, S, g)
  BY <1>4, <1>5 DEF IsSum
<1> QED BY <1>6

(* Induction over the subsets of a finite set: a smallest exception. *)
LEMMA SmallestSubset ==
  ASSUME NEW S, IsFiniteSet(S), NEW Bad \in SUBSET SUBSET S, NEW B \in Bad
  PROVE  \E T \in Bad : \A U \in Bad : U \subseteq T => U = T
<1>1. IsWellFoundedOn(StrictSubsetOrdering(S), SUBSET S)
  BY FS_StrictSubsetOrderingWellFounded, FS_FiniteSubsetsOfFinite
<1>2. PICK T \in Bad : \A U \in Bad : ~(<<U, T>> \in StrictSubsetOrdering(S))
  BY <1>1, WFMin
<1> QED BY <1>2 DEF StrictSubsetOrdering

(* Its value at a subset follows from its value at a smaller one. *)
LEMMA PartialUnfolds ==
  ASSUME NEW f, NEW S, IsFiniteSet(S), NEW s \in SUBSET S
  PROVE  Partial(f, S)[s] = Body(f, Partial(f, S), s)
<1>1. IsSum(f, S, Partial(f, S))
  BY SumExists DEF Partial
<1> QED BY <1>1 DEF IsSum

(* The sum of a subset does not depend on the set it is a part of. *)
LEMMA PartialAgrees ==
  ASSUME NEW f, NEW S, IsFiniteSet(S), NEW T \in SUBSET S
  PROVE  \A s \in SUBSET T : Partial(f, T)[s] = Partial(f, S)[s]
<1> DEFINE Bad == {s \in SUBSET T : Partial(f, T)[s] # Partial(f, S)[s]}
<1>0. IsFiniteSet(T)
  BY FS_Subset
<1> SUFFICES ASSUME NEW B \in Bad PROVE FALSE
  OBVIOUS
<1>1. PICK s \in Bad : \A u \in Bad : u \subseteq s => u = s
  <2>1. Bad \in SUBSET SUBSET T
    OBVIOUS
  <2> HIDE DEF Bad
  <2> QED BY <1>0, SmallestSubset, <2>1
<1>2. /\ Partial(f, T)[s] = Body(f, Partial(f, T), s)
      /\ Partial(f, S)[s] = Body(f, Partial(f, S), s)
  BY <1>0, PartialUnfolds
<1>3. CASE s = {}
  BY <1>2, <1>3 DEF Body
<1>4. CASE s # {}
  <2>1. Pick(s) \in s
    BY <1>4 DEF Pick
  <2>2. s \ {Pick(s)} \notin Bad /\ s \ {Pick(s)} \in SUBSET T
    BY <1>1, <2>1
  <2> QED BY <1>2, <1>4, <2>2 DEF Body
<1> QED BY <1>3, <1>4

-----------------------------------------------------------------------------
(* The facts about sums: first, nothing adds up to zero. *)
LEMMA SumEmpty == \A f : SumFunctionOnSet(f, {}) = 0
BY SumIsPartial, PartialUnfolds, FS_EmptySet DEF Body

(* A sum is one of its summands and the sum of the others. *)
LEMMA SumUnfolds ==
  ASSUME NEW f, NEW S, IsFiniteSet(S), S # {}
  PROVE  SumFunctionOnSet(f, S) = f[Pick(S)] + SumFunctionOnSet(f, S \ {Pick(S)})
<1>1. Pick(S) \in S
  BY DEF Pick
<1>2. Partial(f, S \ {Pick(S)})[S \ {Pick(S)}] = Partial(f, S)[S \ {Pick(S)}]
  BY PartialAgrees
<1>3. Partial(f, S)[S] = f[Pick(S)] + Partial(f, S)[S \ {Pick(S)}]
  BY PartialUnfolds DEF Body
<1> QED BY <1>2, <1>3, SumIsPartial

(* A finite sum of integers is an integer. *)
THEOREM SumType ==
  ASSUME NEW f, NEW S, IsFiniteSet(S), \A x \in S : f[x] \in Int
  PROVE  SumFunctionOnSet(f, S) \in Int
<1> DEFINE Bad == {s \in SUBSET S : SumFunctionOnSet(f, s) \notin Int}
<1> SUFFICES ASSUME NEW B \in Bad PROVE FALSE
  OBVIOUS
<1>1. PICK s \in Bad : \A u \in Bad : u \subseteq s => u = s
  <2>1. Bad \in SUBSET SUBSET S
    OBVIOUS
  <2> HIDE DEF Bad
  <2> QED BY SmallestSubset, <2>1
<1>2. s # {}
  <2>1. SumFunctionOnSet(f, {}) \in Int
    BY SumEmpty
  <2> QED BY <1>1, <2>1
<1>3. Pick(s) \in s /\ IsFiniteSet(s)
  BY <1>2, FS_Subset DEF Pick
<1>4. SumFunctionOnSet(f, s \ {Pick(s)}) \in Int
  BY <1>1, <1>3
<1>5. SumFunctionOnSet(f, s) = f[Pick(s)] + SumFunctionOnSet(f, s \ {Pick(s)})
  BY <1>2, <1>3, SumUnfolds
<1>6. f[Pick(s)] \in Int
  BY <1>3
<1> QED BY <1>4, <1>5, <1>6

(* Any summand may be taken out of a sum: the order does not matter. *)
THEOREM SumRemove ==
  ASSUME NEW f, NEW S, IsFiniteSet(S), \A x \in S : f[x] \in Int, NEW y \in S
  PROVE  SumFunctionOnSet(f, S) = f[y] + SumFunctionOnSet(f, S \ {y})
<1> DEFINE Bad == {s \in SUBSET S :
              \E x \in s : SumFunctionOnSet(f, s) # f[x] + SumFunctionOnSet(f, s \ {x})}
<1> SUFFICES ASSUME NEW B \in Bad PROVE FALSE
  OBVIOUS
<1>1. PICK s \in Bad : \A u \in Bad : u \subseteq s => u = s
  <2>1. Bad \in SUBSET SUBSET S
    OBVIOUS
  <2> HIDE DEF Bad
  <2> QED BY SmallestSubset, <2>1
<1>2. PICK x \in s : SumFunctionOnSet(f, s) # f[x] + SumFunctionOnSet(f, s \ {x})
  BY <1>1
<1> DEFINE p == Pick(s)
           r == (s \ {x}) \ {p}
<1>3. p \in s /\ IsFiniteSet(s)
  BY <1>2, FS_Subset DEF Pick
<1>4. SumFunctionOnSet(f, s) = f[p] + SumFunctionOnSet(f, s \ {p})
  BY <1>2, <1>3, SumUnfolds
<1>5. x # p
  BY <1>2, <1>4
<1>6. s \ {p} \notin Bad /\ x \in s \ {p} /\ (s \ {p}) \ {x} = r
  BY <1>1, <1>2, <1>3, <1>5
<1>7. s \ {x} \notin Bad /\ p \in s \ {x}
  BY <1>1, <1>2, <1>3, <1>5
<1>8. SumFunctionOnSet(f, s \ {p}) = f[x] + SumFunctionOnSet(f, r)
  BY <1>6
<1>9. SumFunctionOnSet(f, s \ {x}) = f[p] + SumFunctionOnSet(f, r)
  BY <1>7
<1>10. f[x] \in Int /\ f[p] \in Int /\ SumFunctionOnSet(f, r) \in Int
  <2>1. IsFiniteSet(r) /\ r \subseteq S
    BY FS_Subset
  <2> QED BY <1>2, <1>3, <2>1, SumType
<1> QED BY <1>2, <1>4, <1>8, <1>9, <1>10

(* A sum depends on nothing but its summands. *)
THEOREM SumSame ==
  ASSUME NEW S, IsFiniteSet(S), NEW f, NEW g, \A x \in S : f[x] = g[x]
  PROVE  SumFunctionOnSet(f, S) = SumFunctionOnSet(g, S)
<1> DEFINE Bad == {s \in SUBSET S : SumFunctionOnSet(f, s) # SumFunctionOnSet(g, s)}
<1> SUFFICES ASSUME NEW B \in Bad PROVE FALSE
  OBVIOUS
<1>1. PICK s \in Bad : \A u \in Bad : u \subseteq s => u = s
  <2>1. Bad \in SUBSET SUBSET S
    OBVIOUS
  <2> HIDE DEF Bad
  <2> QED BY SmallestSubset, <2>1
<1>2. s # {}
  BY <1>1, SumEmpty
<1>3. Pick(s) \in s /\ IsFiniteSet(s)
  BY <1>2, FS_Subset DEF Pick
<1>4. SumFunctionOnSet(f, s \ {Pick(s)}) = SumFunctionOnSet(g, s \ {Pick(s)})
  BY <1>1, <1>3
<1>5. /\ SumFunctionOnSet(f, s) = f[Pick(s)] + SumFunctionOnSet(f, s \ {Pick(s)})
      /\ SumFunctionOnSet(g, s) = g[Pick(s)] + SumFunctionOnSet(g, s \ {Pick(s)})
  BY <1>2, <1>3, SumUnfolds
<1>6. f[Pick(s)] = g[Pick(s)]
  BY <1>3
<1> QED BY <1>1, <1>4, <1>5, <1>6

(* A sum whose summands are all zero is zero. *)
THEOREM SumZero ==
  ASSUME NEW S, IsFiniteSet(S), NEW f, \A x \in S : f[x] = 0
  PROVE  SumFunctionOnSet(f, S) = 0
<1> DEFINE Bad == {s \in SUBSET S : SumFunctionOnSet(f, s) # 0}
<1> SUFFICES ASSUME NEW B \in Bad PROVE FALSE
  OBVIOUS
<1>1. PICK s \in Bad : \A u \in Bad : u \subseteq s => u = s
  <2>1. Bad \in SUBSET SUBSET S
    OBVIOUS
  <2> HIDE DEF Bad
  <2> QED BY SmallestSubset, <2>1
<1>2. s # {}
  BY <1>1, SumEmpty
<1>3. Pick(s) \in s /\ IsFiniteSet(s)
  BY <1>2, FS_Subset DEF Pick
<1>4. SumFunctionOnSet(f, s \ {Pick(s)}) = 0
  BY <1>1, <1>3
<1>5. SumFunctionOnSet(f, s) = f[Pick(s)] + SumFunctionOnSet(f, s \ {Pick(s)})
  BY <1>2, <1>3, SumUnfolds
<1>6. f[Pick(s)] = 0
  BY <1>3
<1> QED BY <1>1, <1>4, <1>5, <1>6

(* Equal summands add up to as many times one of them. *)
THEOREM SumConstant ==
  ASSUME NEW S, IsFiniteSet(S), NEW f, NEW c \in Int, \A x \in S : f[x] = c
  PROVE  SumFunctionOnSet(f, S) = c * Cardinality(S)
<1> DEFINE Bad == {s \in SUBSET S : SumFunctionOnSet(f, s) # c * Cardinality(s)}
<1> SUFFICES ASSUME NEW B \in Bad PROVE FALSE
  OBVIOUS
<1>1. PICK s \in Bad : \A u \in Bad : u \subseteq s => u = s
  <2>1. Bad \in SUBSET SUBSET S
    OBVIOUS
  <2> HIDE DEF Bad
  <2> QED BY SmallestSubset, <2>1
<1>2. s # {}
  <2>1. c * Cardinality({}) = 0
    BY FS_EmptySet
  <2> QED BY <1>1, <2>1, SumEmpty
<1>3. Pick(s) \in s /\ IsFiniteSet(s)
  BY <1>2, FS_Subset DEF Pick
<1>4. SumFunctionOnSet(f, s \ {Pick(s)}) = c * Cardinality(s \ {Pick(s)})
  BY <1>1, <1>3
<1>5. SumFunctionOnSet(f, s) = f[Pick(s)] + SumFunctionOnSet(f, s \ {Pick(s)})
  BY <1>2, <1>3, SumUnfolds
<1>6. f[Pick(s)] = c
  BY <1>3
<1>7. Cardinality(s) \in Nat /\ Cardinality(s \ {Pick(s)}) = Cardinality(s) - 1
  BY <1>3, FS_RemoveElement, FS_CardinalityType
<1>8. c * (Cardinality(s) - 1) = c * Cardinality(s) - c
  BY <1>7
<1>9. c * Cardinality(s) \in Int
  BY <1>7
<1>10. SumFunctionOnSet(f, s) = c * Cardinality(s)
  BY <1>4, <1>5, <1>6, <1>7, <1>8, <1>9
<1> QED BY <1>1, <1>10

(* When one summand changes, the sum changes by as much. *)
THEOREM SumChange ==
  ASSUME NEW S, IsFiniteSet(S), NEW f, NEW g, NEW y \in S,
         \A x \in S : f[x] \in Int /\ g[x] \in Int,
         \A x \in S \ {y} : f[x] = g[x]
  PROVE  SumFunctionOnSet(g, S) = SumFunctionOnSet(f, S) + (g[y] - f[y])
<1>1. IsFiniteSet(S \ {y})
  BY FS_Subset
<1>2. SumFunctionOnSet(f, S \ {y}) = SumFunctionOnSet(g, S \ {y})
  BY <1>1, SumSame
<1>3. /\ SumFunctionOnSet(f, S) = f[y] + SumFunctionOnSet(f, S \ {y})
      /\ SumFunctionOnSet(g, S) = g[y] + SumFunctionOnSet(g, S \ {y})
  BY SumRemove
<1>4. SumFunctionOnSet(f, S \ {y}) \in Int /\ f[y] \in Int /\ g[y] \in Int
  BY <1>1, SumType
<1> QED BY <1>2, <1>3, <1>4

(* The sum over a set is the sums over a part of it and over the rest. *)
THEOREM SumSplit ==
  ASSUME NEW f, NEW S, IsFiniteSet(S), \A x \in S : f[x] \in Int, NEW T \in SUBSET S
  PROVE  SumFunctionOnSet(f, S) = SumFunctionOnSet(f, T) + SumFunctionOnSet(f, S \ T)
<1> DEFINE Bad == {s \in SUBSET S : SumFunctionOnSet(f, S)
                                     # SumFunctionOnSet(f, s) + SumFunctionOnSet(f, S \ s)}
<1> SUFFICES ASSUME NEW B \in Bad PROVE FALSE
  OBVIOUS
<1>0. Bad \in SUBSET SUBSET S
  OBVIOUS
<1>1. PICK s \in Bad : \A u \in Bad : u \subseteq s => u = s
  <2> HIDE DEF Bad
  <2> QED BY <1>0, SmallestSubset
<1>2. \A u \in SUBSET S : IsFiniteSet(u) /\ SumFunctionOnSet(f, u) \in Int
  BY FS_Subset, SumType
<1>3. s # {}
  <2>1. S \ {} = S /\ S \in SUBSET S
    OBVIOUS
  <2>2. SumFunctionOnSet(f, S) \in Int /\ SumFunctionOnSet(f, {}) = 0
    BY <1>2, <2>1, SumEmpty
  <2>3. SumFunctionOnSet(f, S) = SumFunctionOnSet(f, {}) + SumFunctionOnSet(f, S \ {})
    BY <2>1, <2>2
  <2>4. {} \notin Bad
    BY <2>3
  <2> QED BY <1>1, <2>4
<1>4. PICK y \in s : TRUE
  BY <1>3
<1>5. SumFunctionOnSet(f, S)
        = SumFunctionOnSet(f, s \ {y}) + SumFunctionOnSet(f, S \ (s \ {y}))
  <2>1. s \ {y} \in SUBSET S /\ s \ {y} # s /\ s \ {y} \subseteq s
    BY <1>1, <1>4
  <2> QED BY <1>1, <2>1
<1>6. SumFunctionOnSet(f, s) = f[y] + SumFunctionOnSet(f, s \ {y})
  <2>1. IsFiniteSet(s) /\ (\A x \in s : f[x] \in Int) /\ y \in s
    BY <1>1, <1>2, <1>4
  <2> HIDE DEF Bad
  <2> QED BY <2>1, SumRemove
<1>7. SumFunctionOnSet(f, S \ (s \ {y})) = f[y] + SumFunctionOnSet(f, S \ s)
  <2>1. /\ y \in S \ (s \ {y}) /\ S \ (s \ {y}) \in SUBSET S
        /\ (S \ (s \ {y})) \ {y} = S \ s
    BY <1>1, <1>4
  <2>2. SumFunctionOnSet(f, S \ (s \ {y})) = f[y] + SumFunctionOnSet(f, (S \ (s \ {y})) \ {y})
    BY <1>2, <2>1, SumRemove
  <2> QED BY <2>1, <2>2
<1>8. s \ {y} \in SUBSET S /\ S \ s \in SUBSET S /\ y \in S
  BY <1>1, <1>4
<1>9. SumFunctionOnSet(f, S) = SumFunctionOnSet(f, s) + SumFunctionOnSet(f, S \ s)
  BY <1>2, <1>5, <1>6, <1>7, <1>8
<1> QED BY <1>1, <1>9
=============================================================================
