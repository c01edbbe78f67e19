---------------------------- MODULE SumTheorems ----------------------------
(***************************************************************************)
(* Facts about SumFunctionOnSet, the sum of a function's values over a     *)
(* finite set, which the components count calls, attempts and money with.  *)
(* Each is an induction on the size of a set, put as the absence of a      *)
(* least counterexample (LeastSubset): the set of the subsets that refute  *)
(* the claim has no smallest member, so it is empty.                       *)
(***************************************************************************)
EXTENDS Integers, FiniteSets, Functions, FiniteSetTheorems, TLAPS

\* The element that the library's folds take first.
FirstTaken(S) == CHOOSE x \in S : TRUE

\* The recursion of MapThenFoldSet for a sum, one step of it.
SumByStep(g, f, T) == IF T = {} THEN 0 ELSE f[FirstTaken(T)] + g[T \ {FirstTaken(T)}]

\* g holds the sums of f over all subsets of S.
SumsOver(g, f, S) == g = [T \in SUBSET S |-> SumByStep(g, f, T)]

\* What the library computes is a function of subsets chosen by its equation.
LEMMA SumIsChosen ==
  ASSUME NEW f, NEW S
  PROVE  SumFunctionOnSet(f, S) = (CHOOSE g : SumsOver(g, f, S))[S]
  BY DEF SumFunctionOnSet, FoldFunctionOnSet, MapThenFoldSet, SumsOver, SumByStep, FirstTaken

\* Finite sets have no infinite descent.
LEMMA LeastSubset ==
  ASSUME NEW S, IsFiniteSet(S), NEW X \in SUBSET SUBSET S, X # {}
  PROVE  \E T \in X : \A U \in X : ~(U \subseteq T /\ U # T)
<1>1. IsWellFoundedOn(StrictSubsetOrdering(S), FiniteSubsetsOf(S))
  BY FS_StrictSubsetOrderingWellFounded
<1>2. X \subseteq FiniteSubsetsOf(S)
  BY FS_FiniteSubsetsOfFinite
<1>3. \E T \in X : \A U \in X : ~(<<U, T>> \in StrictSubsetOrdering(S))
  BY <1>1, <1>2, WFMin
<1>. QED  BY <1>3 DEF StrictSubsetOrdering

LEMMA FirstIsIn == ASSUME NEW S, S # {} PROVE FirstTaken(S) \in S
  BY DEF FirstTaken

\* The sums over the subsets of S hold those over the subsets of its subsets.
LEMMA SumsOfSubset ==
  ASSUME NEW f, NEW S, NEW g, SumsOver(g, f, S), NEW T \in SUBSET S
  PROVE  SumsOver([U \in SUBSET T |-> g[U]], f, T)
<1>. DEFINE h == [U \in SUBSET T |-> g[U]]
<1>1. ASSUME NEW U \in SUBSET T
      PROVE  h[U] = SumByStep(h, f, U)
  <2>1. g[U] = SumByStep(g, f, U)  BY DEF SumsOver
  <2>2. U # {} => U \ {FirstTaken(U)} \in SUBSET T  OBVIOUS
  <2>. QED  BY <2>1, <2>2 DEF SumByStep
<1>. HIDE DEF h
<1>2. h = [U \in SUBSET T |-> h[U]]  BY DEF h
<1>3. h = [U \in SUBSET T |-> SumByStep(h, f, U)]  BY <1>1, <1>2
<1>. QED  BY <1>3 DEF SumsOver, h

\* There is at most one such function,
LEMMA SumsAgree ==
  ASSUME NEW f, NEW S, IsFiniteSet(S), NEW g, NEW h, SumsOver(g, f, S), SumsOver(h, f, S)
  PROVE  g = h
<1>. DEFINE X == {T \in SUBSET S : g[T] # h[T]}
<1>1. SUFFICES ASSUME X # {} PROVE FALSE
  BY DEF SumsOver
<1>2. PICK T \in X : \A U \in X : ~(U \subseteq T /\ U # T)
  <2>. HIDE DEF X
  <2>1. X \in SUBSET SUBSET S  BY DEF X
  <2>. QED  BY <1>1, <2>1, LeastSubset
<1>3. g[T] = SumByStep(g, f, T) /\ h[T] = SumByStep(h, f, T)  BY <1>2 DEF SumsOver
<1>4. T # {}  BY <1>2, <1>3 DEF SumByStep
<1>5. FirstTaken(T) \in T  BY <1>4, FirstIsIn
<1>. DEFINE V == T \ {FirstTaken(T)}
<1>6. V \subseteq T /\ V # T /\ V \in SUBSET S  BY <1>2, <1>5
<1>7. g[V] = h[V]  BY <1>2, <1>6
<1>. QED  BY <1>2, <1>3, <1>4, <1>7 DEF SumByStep

\* and there is one.
LEMMA SumsExist ==
  ASSUME NEW f, NEW S, IsFiniteSet(S)
  PROVE  \E g : SumsOver(g, f, S)
<1>. DEFINE X == {T \in SUBSET S : ~\E g : SumsOver(g, f, T)}
<1>1. SUFFICES ASSUME X # {} PROVE FALSE
  OBVIOUS
<1>2. PICK T \in X : \A U \in X : ~(U \subseteq T /\ U # T)
  <2>. HIDE DEF X
  <2>1. X \in SUBSET SUBSET S  BY DEF X
  <2>. QED  BY <1>1, <2>1, LeastSubset
<1>. DEFINE H(U) == CHOOSE g : SumsOver(g, f, U)
            G == [U \in SUBSET T |-> SumByStep(H(U \ {FirstTaken(U)}), f, U)]
<1>3. ASSUME NEW U \in SUBSET T, U # T
      PROVE  SumsOver(H(U), f, U)
  <2>1. \E g : SumsOver(g, f, U)  BY <1>2, <1>3
  <2>. QED  BY <2>1
<1>4. ASSUME NEW U \in SUBSET T, U # {}
      PROVE  G[U \ {FirstTaken(U)}] = H(U \ {FirstTaken(U)})[U \ {FirstTaken(U)}]
  <2>. DEFINE V == U \ {FirstTaken(U)}
              W == V \ {FirstTaken(V)}
              h == H(V)
              k == H(W)
  <2>1. V \in SUBSET T /\ V # T  BY <1>4, FirstIsIn
  <2>2. SumsOver(h, f, V)  BY <1>3, <2>1
  <2>3. h[V] = SumByStep(h, f, V)
    <3>. HIDE DEF h, V
    <3>. QED  BY <2>2 DEF SumsOver
  <2>4. G[V] = SumByStep(k, f, V)  BY <2>1
  <2>5. CASE V = {}  BY <2>3, <2>4, <2>5 DEF SumByStep
  <2>6. CASE V # {}
    <3>1. W \in SUBSET V /\ W \in SUBSET T /\ W # T  BY <2>1
    <3>2. SumsOver(k, f, W)  BY <1>3, <3>1
    <3>3. SumsOver([Z \in SUBSET W |-> h[Z]], f, W)
      <4>. HIDE DEF h, V, W
      <4>. QED  BY <2>2, <3>1, SumsOfSubset
    <3>4. IsFiniteSet(W)  BY <3>1, <1>2, FS_Subset
    <3>5. k = [Z \in SUBSET W |-> h[Z]]
      <4>. HIDE DEF k, h, W
      <4>. QED BY <3>2, <3>3, <3>4, SumsAgree
    <3>6. k[W] = h[W]
      <4>. HIDE DEF k, h, W
      <4>. QED BY <3>5
    <3>7. SumByStep(k, f, V) = SumByStep(h, f, V)
      <4>1. k[V \ {FirstTaken(V)}] = h[V \ {FirstTaken(V)}]  BY <3>6
      <4>. HIDE DEF k, h, V
      <4>. QED  BY <4>1, <2>6 DEF SumByStep
    <3>. QED  BY <3>7, <2>3, <2>4
  <2>. QED  BY <2>5, <2>6
<1>5. ASSUME NEW U \in SUBSET T
      PROVE  G[U] = SumByStep(G, f, U)
  <2>1. CASE U = {}  BY <2>1 DEF SumByStep
  <2>2. CASE U # {}
    <3>1. G[U] = f[FirstTaken(U)] + H(U \ {FirstTaken(U)})[U \ {FirstTaken(U)}]
      BY <2>2 DEF SumByStep
    <3>2. G[U \ {FirstTaken(U)}] = H(U \ {FirstTaken(U)})[U \ {FirstTaken(U)}]
      BY <1>4, <2>2
    <3>3. G[U] = f[FirstTaken(U)] + G[U \ {FirstTaken(U)}]  BY <3>1, <3>2
    <3>. HIDE DEF G
    <3>. QED  BY <2>2, <3>3 DEF SumByStep
  <2>. QED  BY <2>1, <2>2
<1>6. G = [U \in SUBSET T |-> G[U]]  OBVIOUS
<1>7. SumsOver(G, f, T)
  <2>. HIDE DEF G
  <2>. QED  BY <1>5, <1>6 DEF SumsOver
<1>. QED  BY <1>2, <1>7

-----------------------------------------------------------------------------

\* Over no elements the sum is zero.
THEOREM SumEmpty == \A f : SumFunctionOnSet(f, {}) = 0
<1>. TAKE f
<1>. DEFINE g == CHOOSE g : SumsOver(g, f, {})
<1>1. SumsOver(g, f, {})  BY SumsExist, FS_EmptySet
<1>2. g[{}] = SumByStep(g, f, {})
  <2>. HIDE DEF g
  <2>. QED  BY <1>1 DEF SumsOver
<1>. QED  BY <1>2, SumIsChosen DEF SumByStep

\* The recursion of the fold: one element, then the rest.
THEOREM SumStep ==
  ASSUME NEW f, NEW S, IsFiniteSet(S), S # {}
  PROVE  SumFunctionOnSet(f, S)
           = f[FirstTaken(S)] + SumFunctionOnSet(f, S \ {FirstTaken(S)})
<1>. DEFINE T == S \ {FirstTaken(S)}
            g == CHOOSE g : SumsOver(g, f, S)
            h == CHOOSE h : SumsOver(h, f, T)
<1>1. SumsOver(g, f, S)  BY SumsExist
<1>2. IsFiniteSet(T) /\ T \in SUBSET S  BY FS_Subset
<1>3. SumsOver(h, f, T)
  <2>. HIDE DEF T
  <2>. QED BY <1>2, SumsExist
<1>. HIDE DEF g, h, T
<1>4. h = [U \in SUBSET T |-> g[U]]
  <2>1. SumsOver([U \in SUBSET T |-> g[U]], f, T)  BY <1>1, <1>2, SumsOfSubset
  <2>. QED  BY <1>2, <1>3, <2>1, SumsAgree
<1>5. h[T] = g[T]  BY <1>4
<1>6. g[S] = SumByStep(g, f, S)  BY <1>1 DEF SumsOver
<1>7. SumFunctionOnSet(f, S) = g[S]  BY SumIsChosen DEF g
<1>8. SumFunctionOnSet(f, T) = h[T]  BY SumIsChosen DEF h
<1>. QED  BY <1>5, <1>6, <1>7, <1>8 DEF SumByStep, T

\* The sum of integers is an integer.
THEOREM SumInt ==
  ASSUME NEW f, NEW S, IsFiniteSet(S), \A x \in S : f[x] \in Int
  PROVE  SumFunctionOnSet(f, S) \in Int
<1>. DEFINE X == {T \in SUBSET S : SumFunctionOnSet(f, T) \notin Int}
<1>1. SUFFICES ASSUME X # {} PROVE FALSE
  OBVIOUS
<1>2. PICK T \in X : \A U \in X : ~(U \subseteq T /\ U # T)
  <2>. HIDE DEF X
  <2>1. X \in SUBSET SUBSET S  BY DEF X
  <2>. QED  BY <1>1, <2>1, LeastSubset
<1>3. T # {}
  <2>1. SumFunctionOnSet(f, {}) = 0  BY SumEmpty
  <2>2. SumFunctionOnSet(f, T) \notin Int  BY <1>2
  <2>. QED  BY <2>1, <2>2
<1>4. FirstTaken(T) \in T  BY <1>3, FirstIsIn
<1>5. SumFunctionOnSet(f, T \ {FirstTaken(T)}) \in Int  BY <1>2, <1>4
<1>6. IsFiniteSet(T)  BY <1>2, FS_Subset
<1>. QED  BY <1>2, <1>3, <1>4, <1>5, <1>6, SumStep

\* The sum of naturals is a natural.
THEOREM SumNat ==
  ASSUME NEW f, NEW S, IsFiniteSet(S), \A x \in S : f[x] \in Nat
  PROVE  SumFunctionOnSet(f, S) \in Nat
<1>. DEFINE X == {T \in SUBSET S : SumFunctionOnSet(f, T) \notin Nat}
<1>1. SUFFICES ASSUME X # {} PROVE FALSE
  OBVIOUS
<1>2. PICK T \in X : \A U \in X : ~(U \subseteq T /\ U # T)
  <2>. HIDE DEF X
  <2>1. X \in SUBSET SUBSET S  BY DEF X
  <2>. QED  BY <1>1, <2>1, LeastSubset
<1>3. T # {}
  <2>1. SumFunctionOnSet(f, {}) = 0  BY SumEmpty
  <2>2. SumFunctionOnSet(f, T) \notin Nat  BY <1>2
  <2>. QED  BY <2>1, <2>2
<1>4. FirstTaken(T) \in T  BY <1>3, FirstIsIn
<1>5. SumFunctionOnSet(f, T \ {FirstTaken(T)}) \in Nat  BY <1>2, <1>4
<1>6. IsFiniteSet(T)  BY <1>2, FS_Subset
<1>. QED  BY <1>2, <1>3, <1>4, <1>5, <1>6, SumStep

\* The sum depends on the values over the set and on nothing else.
THEOREM SumSame ==
  ASSUME NEW f, NEW g, NEW S, IsFiniteSet(S), \A x \in S : f[x] = g[x]
  PROVE  SumFunctionOnSet(f, S) = SumFunctionOnSet(g, S)
<1>. DEFINE X == {T \in SUBSET S : SumFunctionOnSet(f, T) # SumFunctionOnSet(g, T)}
<1>1. SUFFICES ASSUME X # {} PROVE FALSE
  OBVIOUS
<1>2. PICK T \in X : \A U \in X : ~(U \subseteq T /\ U # T)
  <2>. HIDE DEF X
  <2>1. X \in SUBSET SUBSET S  BY DEF X
  <2>. QED  BY <1>1, <2>1, LeastSubset
<1>3. T # {}  BY <1>2, SumEmpty
<1>4. FirstTaken(T) \in T  BY <1>3, FirstIsIn
<1>5. SumFunctionOnSet(f, T \ {FirstTaken(T)}) = SumFunctionOnSet(g, T \ {FirstTaken(T)})
  BY <1>2, <1>4
<1>6. IsFiniteSet(T)  BY <1>2, FS_Subset
<1>. QED  BY <1>2, <1>3, <1>4, <1>5, <1>6, SumStep

\* Any element may be taken first.
THEOREM SumTake ==
  ASSUME NEW f, NEW S, IsFiniteSet(S), \A x \in S : f[x] \in Int, NEW a \in S
  PROVE  SumFunctionOnSet(f, S) = f[a] + SumFunctionOnSet(f, S \ {a})
<1>. DEFINE Sum(T) == SumFunctionOnSet(f, T)
            X == {T \in SUBSET S : \E x \in T : Sum(T) # f[x] + Sum(T \ {x})}
<1>1. SUFFICES ASSUME X # {} PROVE FALSE
  OBVIOUS
<1>2. PICK T \in X : \A U \in X : ~(U \subseteq T /\ U # T)
  <2>. HIDE DEF X
  <2>1. X \in SUBSET SUBSET S  BY DEF X
  <2>. QED  BY <1>1, <2>1, LeastSubset
<1>3. PICK x \in T : Sum(T) # f[x] + Sum(T \ {x})  BY <1>2
<1>. DEFINE y == FirstTaken(T)
<1>4. y \in T  BY <1>3, FirstIsIn
<1>5. IsFiniteSet(T)  BY <1>2, FS_Subset
<1>6. Sum(T) = f[y] + Sum(T \ {y})  BY <1>3, <1>5, SumStep
<1>7. x # y  BY <1>3, <1>6
<1>8. /\ T \ {x} \in SUBSET S /\ T \ {x} # T
      /\ T \ {y} \in SUBSET S /\ T \ {y} # T
      /\ (T \ {x}) \ {y} = (T \ {y}) \ {x}
      /\ y \in T \ {x} /\ x \in T \ {y}
      /\ T \in SUBSET S
  BY <1>2, <1>4, <1>7
<1>. HIDE DEF y
<1>9. Sum(T \ {x}) = f[y] + Sum((T \ {x}) \ {y})  BY <1>2, <1>8
<1>10. Sum(T \ {y}) = f[x] + Sum((T \ {y}) \ {x})  BY <1>2, <1>8
<1>11. Sum((T \ {x}) \ {y}) \in Int
  <2>1. (T \ {x}) \ {y} \in SUBSET S  BY <1>8
  <2>2. IsFiniteSet((T \ {x}) \ {y})  BY <2>1, FS_Subset
  <2>. QED  BY <2>1, <2>2, SumInt
<1>12. f[x] \in Int /\ f[y] \in Int  BY <1>8
<1>. DEFINE rest == Sum((T \ {x}) \ {y})
<1>13. /\ Sum(T) = f[y] + (f[x] + rest)
       /\ Sum(T \ {x}) = f[y] + rest
  BY <1>6, <1>8, <1>9, <1>10
<1>. HIDE DEF Sum, X, rest
<1>14. rest \in Int  BY <1>11 DEF rest
<1>. QED  BY <1>3, <1>12, <1>13, <1>14

-----------------------------------------------------------------------------
(* What the proofs of the components cite.                                 *)

\* A new element adds its value.
THEOREM SumAdd ==
  ASSUME NEW f, NEW S, IsFiniteSet(S), NEW a, a \notin S,
         \A x \in S \cup {a} : f[x] \in Int
  PROVE  SumFunctionOnSet(f, S \cup {a}) = f[a] + SumFunctionOnSet(f, S)
<1>1. IsFiniteSet(S \cup {a})  BY FS_AddElement
<1>2. (S \cup {a}) \ {a} = S  OBVIOUS
<1>. QED  BY <1>1, <1>2, SumTake

\* If one value changes, the sum changes by as much.
THEOREM SumChange ==
  ASSUME NEW f, NEW g, NEW S, IsFiniteSet(S), NEW a \in S,
         \A x \in S : f[x] \in Int /\ g[x] \in Int,
         \A x \in S \ {a} : f[x] = g[x]
  PROVE  SumFunctionOnSet(g, S) = SumFunctionOnSet(f, S) - f[a] + g[a]
<1>1. IsFiniteSet(S \ {a})  BY FS_RemoveElement
<1>2. SumFunctionOnSet(f, S \ {a}) = SumFunctionOnSet(g, S \ {a})
  BY <1>1, SumSame
<1>3. SumFunctionOnSet(f, S \ {a}) \in Int  BY <1>1, SumInt
<1>4. SumFunctionOnSet(f, S) = f[a] + SumFunctionOnSet(f, S \ {a})  BY SumTake
<1>5. SumFunctionOnSet(g, S) = g[a] + SumFunctionOnSet(g, S \ {a})  BY SumTake
<1>. QED  BY <1>2, <1>3, <1>4, <1>5

\* If no value falls, the sum does not.
THEOREM SumMonotone ==
  ASSUME NEW f, NEW g, NEW S, IsFiniteSet(S),
         \A x \in S : f[x] \in Int /\ g[x] \in Int /\ f[x] <= g[x]
  PROVE  SumFunctionOnSet(f, S) <= SumFunctionOnSet(g, S)
<1>. DEFINE X == {T \in SUBSET S : ~(SumFunctionOnSet(f, T) <= SumFunctionOnSet(g, T))}
<1>1. SUFFICES ASSUME X # {} PROVE FALSE
  OBVIOUS
<1>2. PICK T \in X : \A U \in X : ~(U \subseteq T /\ U # T)
  <2>. HIDE DEF X
  <2>1. X \in SUBSET SUBSET S  BY DEF X
  <2>. QED  BY <1>1, <2>1, LeastSubset
<1>3. T # {}
  <2>1. SumFunctionOnSet(f, {}) = 0 /\ SumFunctionOnSet(g, {}) = 0  BY SumEmpty
  <2>2. ~(SumFunctionOnSet(f, T) <= SumFunctionOnSet(g, T))  BY <1>2
  <2>. QED  BY <2>1, <2>2
<1>4. PICK a \in T : TRUE  BY <1>3
<1>5. IsFiniteSet(T) /\ IsFiniteSet(T \ {a})  BY <1>2, FS_Subset
<1>6. SumFunctionOnSet(f, T \ {a}) <= SumFunctionOnSet(g, T \ {a})
  BY <1>2, <1>4
<1>7. /\ SumFunctionOnSet(f, T \ {a}) \in Int
      /\ SumFunctionOnSet(g, T \ {a}) \in Int
  BY <1>2, <1>5, SumInt
<1>8. /\ SumFunctionOnSet(f, T) = f[a] + SumFunctionOnSet(f, T \ {a})
      /\ SumFunctionOnSet(g, T) = g[a] + SumFunctionOnSet(g, T \ {a})
  BY <1>2, <1>4, <1>5, SumTake
<1>9. f[a] \in Int /\ g[a] \in Int /\ f[a] <= g[a]  BY <1>2, <1>4
<1>10. SumFunctionOnSet(f, T) <= SumFunctionOnSet(g, T)
  BY <1>6, <1>7, <1>8, <1>9
<1>. QED  BY <1>2, <1>10

\* The sum over two disjoint parts is the sum of theirs.
THEOREM SumUnion ==
  ASSUME NEW f, NEW S, IsFiniteSet(S), NEW R, IsFiniteSet(R), S \cap R = {},
         \A x \in S \cup R : f[x] \in Int
  PROVE  SumFunctionOnSet(f, S \cup R) = SumFunctionOnSet(f, S) + SumFunctionOnSet(f, R)
<1>. DEFINE Sum(T) == SumFunctionOnSet(f, T)
            X == {T \in SUBSET S : Sum(T \cup R) # Sum(T) + Sum(R)}
<1>1. SUFFICES ASSUME X # {} PROVE FALSE
  OBVIOUS
<1>2. PICK T \in X : \A U \in X : ~(U \subseteq T /\ U # T)
  <2>. HIDE DEF X
  <2>1. X \in SUBSET SUBSET S  BY DEF X
  <2>. QED  BY <1>1, <2>1, LeastSubset
<1>3. Sum(R) \in Int  BY SumInt
<1>4. T # {}
  <2>1. Sum({}) = 0  BY SumEmpty
  <2>2. Sum(T \cup R) # Sum(T) + Sum(R)  BY <1>2
  <2>3. {} \cup R = R  OBVIOUS
  <2>. HIDE DEF Sum
  <2>4. Sum({} \cup R) = Sum({}) + Sum(R)  BY <1>3, <2>1, <2>3
  <2>. QED  BY <2>2, <2>4
<1>5. PICK a \in T : TRUE  BY <1>4
<1>6. IsFiniteSet(T) /\ IsFiniteSet(T \ {a})  BY <1>2, FS_Subset
<1>7. IsFiniteSet(T \cup R)  BY <1>6, FS_Union
<1>8. (T \cup R) \ {a} = (T \ {a}) \cup R /\ a \in T \cup R /\ T \in SUBSET S
  BY <1>2, <1>5
<1>9. Sum((T \ {a}) \cup R) = Sum(T \ {a}) + Sum(R)  BY <1>2, <1>5
<1>10. Sum(T) = f[a] + Sum(T \ {a})  BY <1>5, <1>6, <1>8, SumTake
<1>11. Sum(T \cup R) = f[a] + Sum((T \cup R) \ {a})  BY <1>7, <1>8, SumTake
<1>12. Sum(T \ {a}) \in Int  BY <1>6, <1>8, SumInt
<1>13. f[a] \in Int  BY <1>8
<1>14. Sum(T \cup R) # Sum(T) + Sum(R)  BY <1>2
<1>. DEFINE rest == Sum(T \ {a})
<1>15. Sum(T \cup R) = f[a] + (rest + Sum(R)) /\ Sum(T) = f[a] + rest
  BY <1>8, <1>9, <1>10, <1>11
<1>16. rest \in Int  BY <1>12
<1>. HIDE DEF Sum, X, rest
<1>. QED  BY <1>3, <1>13, <1>14, <1>15, <1>16

\* Naturals: a part sums to no more than the whole.
THEOREM SumSubset ==
  ASSUME NEW f, NEW S, IsFiniteSet(S), \A x \in S : f[x] \in Nat, NEW T \in SUBSET S
  PROVE  SumFunctionOnSet(f, T) <= SumFunctionOnSet(f, S)
<1>1. IsFiniteSet(T) /\ IsFiniteSet(S \ T)  BY FS_Subset
<1>2. SumFunctionOnSet(f, T) \in Nat /\ SumFunctionOnSet(f, S \ T) \in Nat
  BY <1>1, SumNat
<1>3. T \cup (S \ T) = S /\ T \cap (S \ T) = {}  OBVIOUS
<1>4. SumFunctionOnSet(f, S) = SumFunctionOnSet(f, T) + SumFunctionOnSet(f, S \ T)
  <2>1. \A x \in T \cup (S \ T) : f[x] \in Int  OBVIOUS
  <2>2. SumFunctionOnSet(f, T \cup (S \ T))
          = SumFunctionOnSet(f, T) + SumFunctionOnSet(f, S \ T)
    BY <1>1, <1>3, <2>1, SumUnion
  <2>. QED  BY <1>3, <2>2
<1>. QED  BY <1>2, <1>4

\* Values within m sum to at most m for each element.
THEOREM SumBound ==
  ASSUME NEW f, NEW S, IsFiniteSet(S), NEW m \in Int,
         \A x \in S : f[x] \in Int /\ f[x] <= m
  PROVE  SumFunctionOnSet(f, S) <= m * Cardinality(S)
<1>. DEFINE X == {T \in SUBSET S : ~(SumFunctionOnSet(f, T) <= m * Cardinality(T))}
<1>1. SUFFICES ASSUME X # {} PROVE FALSE
  OBVIOUS
<1>2. PICK T \in X : \A U \in X : ~(U \subseteq T /\ U # T)
  <2>. HIDE DEF X
  <2>1. X \in SUBSET SUBSET S  BY DEF X
  <2>. QED  BY <1>1, <2>1, LeastSubset
<1>3. T # {}
  <2>1. SumFunctionOnSet(f, {}) = 0 /\ Cardinality({}) = 0  BY SumEmpty, FS_EmptySet
  <2>2. ~(SumFunctionOnSet(f, T) <= m * Cardinality(T))  BY <1>2
  <2>. QED  BY <2>1, <2>2
<1>4. PICK a \in T : TRUE  BY <1>3
<1>5. IsFiniteSet(T) /\ IsFiniteSet(T \ {a})  BY <1>2, FS_Subset
<1>6. SumFunctionOnSet(f, T \ {a}) <= m * Cardinality(T \ {a})
  BY <1>2, <1>4
<1>7. SumFunctionOnSet(f, T \ {a}) \in Int  BY <1>2, <1>5, SumInt
<1>8. SumFunctionOnSet(f, T) = f[a] + SumFunctionOnSet(f, T \ {a})
  BY <1>2, <1>4, <1>5, SumTake
<1>9. f[a] \in Int /\ f[a] <= m  BY <1>2, <1>4
<1>10. Cardinality(T \ {a}) = Cardinality(T) - 1 /\ Cardinality(T) \in Nat
  BY <1>4, <1>5, FS_RemoveElement, FS_CardinalityType
<1>. DEFINE n == Cardinality(T)
<1>11. m + m * (n - 1) = m * n
  <2>1. n \in Int  BY <1>10
  <2>. HIDE DEF n
  <2>. QED  BY <2>1
<1>12. m * (n - 1) \in Int  BY <1>10
<1>13. SumFunctionOnSet(f, T) <= m * n
  <2>1. SumFunctionOnSet(f, T \ {a}) <= m * (n - 1)  BY <1>6, <1>10
  <2>. DEFINE rest == SumFunctionOnSet(f, T \ {a})
  <2>2. rest \in Int /\ rest <= m * (n - 1) /\ SumFunctionOnSet(f, T) = f[a] + rest
    BY <1>7, <1>8, <2>1
  <2>. HIDE DEF n, rest
  <2>. QED  BY <1>9, <1>11, <1>12, <2>2
<1>. QED  BY <1>2, <1>13

-----------------------------------------------------------------------------
(* What Min chooses exists.                                                *)

\* Finitely many integers, if any, have a least.
THEOREM LeastElement ==
  ASSUME NEW S, IsFiniteSet(S), S # {}, \A x \in S : x \in Int
  PROVE  \E x \in S : \A y \in S : x <= y
<1>. DEFINE Below(x) == {y \in S : y <= x}
            X == {Below(x) : x \in S}
<1>1. X \in SUBSET SUBSET S /\ X # {}
  <2>1. \A x \in S : Below(x) \in SUBSET S  OBVIOUS
  <2>2. PICK x \in S : TRUE  OBVIOUS
  <2>3. Below(x) \in X  OBVIOUS
  <2>. QED  BY <2>1, <2>3
<1>2. PICK T \in X : \A U \in X : ~(U \subseteq T /\ U # T)
  <2>. HIDE DEF X, Below
  <2>1. X \in SUBSET SUBSET S  BY <1>1
  <2>2. X # {}  BY <1>1
  <2>. QED  BY <2>1, <2>2, LeastSubset
<1>3. PICK x \in S : T = Below(x)  BY <1>2
<1>4. ASSUME NEW y \in S, ~(x <= y) PROVE FALSE
  <2>1. Below(y) \in X  OBVIOUS
  <2>2. \A z \in S : z <= y => z <= x  BY <1>4
  <2>3. x \in Below(x) /\ x \notin Below(y)  BY <1>4
  <2>. QED  BY <1>2, <1>3, <2>1, <2>2, <2>3
<1>. QED  BY <1>4
=============================================================================
