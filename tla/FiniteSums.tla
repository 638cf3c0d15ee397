----------------------------- MODULE FiniteSums -----------------------------
(***************************************************************************)
(* Lemmas about the sum of a function over a finite set, which             *)
(* CounterAccounted of LuaScripts is stated with.  SumFunctionOnSet is a   *)
(* recursive function, that is, a CHOOSE of some function that satisfies   *)
(* an equation: that there is one comes first.  Every induction is over    *)
(* the subsets of a finite set, as a counterexample with no smaller one.   *)
(***************************************************************************)
EXTENDS Integers, FiniteSets, Functions, FiniteSetTheorems, WellFoundedInduction, TLAPS

\* A set of subsets of a finite set has a minimal member.
LEMMA MinimalSubset ==
  ASSUME NEW T, IsFiniteSet(T), NEW C, C \subseteq SUBSET T, C # {}
  PROVE  \E U \in C : \A V \in C : V \subseteq U => V = U
<1> DEFINE R == StrictSubsetOrdering(T)
<1>1. IsWellFoundedOn(R, FiniteSubsetsOf(T))
  BY FS_StrictSubsetOrderingWellFounded
<1>2. C \subseteq FiniteSubsetsOf(T)
  BY FS_FiniteSubsetsOfFinite
<1> HIDE DEF R
<1>3. PICK U \in C : \A V \in C : <<V, U>> \notin R
  BY <1>1, <1>2, WFMin
<1>4. ASSUME NEW V \in C, V \subseteq U, V # U
      PROVE  FALSE
  <2>1. <<V, U>> \in R
    BY <1>4 DEF R, StrictSubsetOrdering
  <2> QED
    BY <2>1, <1>3
<1> QED
  BY <1>4

-----------------------------------------------------------------------------
(* The recursive function of SumFunctionOnSet. *)

anElement(s) == CHOOSE x \in s : TRUE
Rest(s) == s \ {anElement(s)}
Value(f, s, v) == IF s = {} THEN 0 ELSE f[anElement(s)] + v

Equation(f, T, g) == g = [s \in SUBSET T |-> Value(f, s, g[Rest(s)])]
Solution(f, T) == CHOOSE g : Equation(f, T, g)

LEMMA SumIsSolution ==
  ASSUME NEW f, NEW T
  PROVE  SumFunctionOnSet(f, T) = Solution(f, T)[T]
BY DEF SumFunctionOnSet, FoldFunctionOnSet, MapThenFoldSet, Solution, Equation,
       Value, Rest, anElement

LEMMA RestOfSet ==
  ASSUME NEW s, s # {}
  PROVE  /\ anElement(s) \in s
         /\ Rest(s) \subseteq s /\ Rest(s) # s
BY DEF Rest, anElement

\* Two solutions agree where both are defined.
LEMMA SolutionUnique ==
  ASSUME NEW f, NEW T, IsFiniteSet(T), NEW U, U \subseteq T,
         NEW g, NEW h, Equation(f, T, g), Equation(f, U, h)
  PROVE  \A s \in SUBSET U : g[s] = h[s]
<1> DEFINE C == {s \in SUBSET U : g[s] # h[s]}
<1>1. SUFFICES ASSUME C # {} PROVE FALSE
  OBVIOUS
<1>2. PICK s \in C : \A v \in C : v \subseteq s => v = s
  <2>1. C \subseteq SUBSET T
    OBVIOUS
  <2> HIDE DEF C
  <2> QED
    BY <2>1, <1>1, MinimalSubset
<1>3. g[Rest(s)] = h[Rest(s)] \/ s = {}
  BY <1>2, RestOfSet
<1>4. g[s] = Value(f, s, g[Rest(s)]) /\ h[s] = Value(f, s, h[Rest(s)])
  BY DEF Equation
<1> QED
  BY <1>2, <1>3, <1>4 DEF Value

\* There is a solution on every finite set.
LEMMA SolutionExists ==
  ASSUME NEW f, NEW T, IsFiniteSet(T)
  PROVE  Equation(f, T, Solution(f, T))
<1> DEFINE C == {U \in SUBSET T : ~ Equation(f, U, Solution(f, U))}
<1>1. SUFFICES ASSUME C # {} PROVE FALSE
  OBVIOUS
<1>2. PICK U \in C : \A V \in C : V \subseteq U => V = U
  <2>1. C \subseteq SUBSET T
    OBVIOUS
  <2> HIDE DEF C
  <2> QED
    BY <2>1, <1>1, MinimalSubset
<1>3. \A V \in SUBSET U : V # U => Equation(f, V, Solution(f, V))
  BY <1>2
<1> DEFINE w(s) == Solution(f, Rest(s))[Rest(s)]
           g == [s \in SUBSET U |-> Value(f, s, w(s))]
<1>4. ASSUME NEW s \in SUBSET U, s # {}
      PROVE  g[Rest(s)] = w(s)
  <2> DEFINE W == Rest(s)
  <2>1. W \in SUBSET U /\ W # U /\ Rest(W) \in SUBSET W
    BY <1>4, RestOfSet DEF Rest
  <2>2. Equation(f, W, Solution(f, W))
    BY <2>1, <1>3
  <2>3. Solution(f, W)[W] = Value(f, W, Solution(f, W)[Rest(W)])
    BY <2>2, W \in SUBSET W DEF Equation
  <2>4. Solution(f, W)[Rest(W)] = Solution(f, Rest(W))[Rest(W)]
    <3>1. Rest(W) # U
      BY <2>1
    <3>2. Equation(f, Rest(W), Solution(f, Rest(W)))
      BY <3>1, <2>1, <1>3
    <3>3. IsFiniteSet(W)
      BY <2>1, FS_Subset
    <3> QED
      BY <3>2, <3>3, <2>1, <2>2, SolutionUnique
  <2>5. g[W] = Value(f, W, Solution(f, Rest(W))[Rest(W)])
    BY <2>1
  <2> QED
    BY <2>3, <2>4, <2>5
<1>5. Equation(f, U, g)
  <2>1. \A s \in SUBSET U : g[s] = Value(f, s, g[Rest(s)])
    <3> TAKE s \in SUBSET U
    <3>1. CASE s = {}
      BY <3>1 DEF Value
    <3>2. CASE s # {}
      <4>1. g[s] = Value(f, s, w(s))
        OBVIOUS
      <4> QED
        BY <4>1, <3>2, <1>4
    <3> QED
      BY <3>1, <3>2
  <2>2. g = [s \in SUBSET U |-> g[s]]
    OBVIOUS
  <2> HIDE DEF g
  <2> QED
    BY <2>1, <2>2 DEF Equation
<1>6. Equation(f, U, Solution(f, U))
  <2> HIDE DEF g
  <2> QED
    BY <1>5 DEF Solution
<1> QED
  BY <1>2, <1>6

-----------------------------------------------------------------------------
(* What the sum over a finite set is. *)

LEMMA SumEquation ==
  ASSUME NEW f, NEW S, IsFiniteSet(S), S # {}
  PROVE  SumFunctionOnSet(f, S)
           = f[anElement(S)] + SumFunctionOnSet(f, Rest(S))
<1>1. Rest(S) \in SUBSET S /\ IsFiniteSet(Rest(S))
  BY RestOfSet, FS_Subset
<1>2. Equation(f, S, Solution(f, S)) /\ Equation(f, Rest(S), Solution(f, Rest(S)))
  BY <1>1, SolutionExists
<1>3. Solution(f, S)[Rest(S)] = Solution(f, Rest(S))[Rest(S)]
  BY <1>1, <1>2, SolutionUnique
<1>4. Solution(f, S)[S] = Value(f, S, Solution(f, S)[Rest(S)])
  BY <1>2 DEF Equation
<1> QED
  BY <1>3, <1>4, SumIsSolution DEF Value

\* The sum over nothing is zero.
LEMMA SumOfNothing ==
  ASSUME NEW f
  PROVE  SumFunctionOnSet(f, {}) = 0
<1>1. Equation(f, {}, Solution(f, {}))
  BY SolutionExists, FS_EmptySet
<1>2. Solution(f, {})[{}] = Value(f, {}, Solution(f, {})[Rest({})])
  BY <1>1, {} \in SUBSET {} DEF Equation
<1> QED
  BY <1>2, SumIsSolution DEF Value

\* The sum of integers is an integer.
LEMMA SumType ==
  ASSUME NEW f, NEW S, IsFiniteSet(S), \A x \in S : f[x] \in Int
  PROVE  SumFunctionOnSet(f, S) \in Int
<1> DEFINE C == {U \in SUBSET S : SumFunctionOnSet(f, U) \notin Int}
<1>1. SUFFICES ASSUME C # {} PROVE FALSE
  OBVIOUS
<1>2. PICK U \in C : \A V \in C : V \subseteq U => V = U
  <2>1. C \subseteq SUBSET S
    OBVIOUS
  <2> HIDE DEF C
  <2> QED
    BY <2>1, <1>1, MinimalSubset
<1>3. U # {}
  BY SumOfNothing
<1>4. Rest(U) \in SUBSET S /\ anElement(U) \in S /\ Rest(U) \notin C
  BY <1>2, <1>3, RestOfSet
<1>5. SumFunctionOnSet(f, Rest(U)) \in Int /\ f[anElement(U)] \in Int
  BY <1>4
<1>6. SumFunctionOnSet(f, U) = f[anElement(U)] + SumFunctionOnSet(f, Rest(U))
  BY <1>3, SumEquation, FS_Subset
<1> QED
  BY <1>2, <1>5, <1>6

\* Whichever element is taken first, the sum is the same.
LEMMA SumWithout ==
  ASSUME NEW f, NEW S, IsFiniteSet(S), \A x \in S : f[x] \in Int, NEW x \in S
  PROVE  SumFunctionOnSet(f, S) = f[x] + SumFunctionOnSet(f, S \ {x})
<1> DEFINE Sum(U) == SumFunctionOnSet(f, U)
           C == {U \in SUBSET S : \E y \in U : Sum(U) # f[y] + Sum(U \ {y})}
<1>1. SUFFICES ASSUME C # {} PROVE FALSE
  OBVIOUS
<1>2. PICK U \in C : \A V \in C : V \subseteq U => V = U
  <2>1. C \subseteq SUBSET S
    OBVIOUS
  <2> HIDE DEF C
  <2> QED
    BY <2>1, <1>1, MinimalSubset
<1>3. PICK y \in U : Sum(U) # f[y] + Sum(U \ {y})
  BY <1>2
<1> DEFINE a == anElement(U)
<1>4. IsFiniteSet(U) /\ U # {} /\ a \in U
  BY <1>3, RestOfSet, FS_Subset
<1>5. Sum(U) = f[a] + Sum(U \ {a})
  BY <1>4, SumEquation DEF Rest
<1> HIDE DEF a
<1>6. a # y
  BY <1>3, <1>5
<1>7. Sum(U \ {a}) = f[y] + Sum((U \ {a}) \ {y})
  <2>1. U \ {a} \in SUBSET S /\ U \ {a} \notin C /\ y \in U \ {a}
    BY <1>2, <1>4, <1>6
  <2> QED
    BY <2>1
<1>8. Sum(U \ {y}) = f[a] + Sum((U \ {y}) \ {a})
  <2>1. U \ {y} \in SUBSET S /\ U \ {y} \notin C /\ a \in U \ {y}
    BY <1>2, <1>4, <1>6
  <2> QED
    BY <2>1
<1>9. (U \ {y}) \ {a} = (U \ {a}) \ {y}
  OBVIOUS
<1>10. Sum((U \ {a}) \ {y}) \in Int /\ f[a] \in Int /\ f[y] \in Int
  <2>1. (U \ {a}) \ {y} \in SUBSET S
    OBVIOUS
  <2>2. IsFiniteSet((U \ {a}) \ {y})
    BY <2>1, FS_Subset
  <2> QED
    BY <2>1, <2>2, <1>4, SumType
<1>11. Sum(U) = f[y] + Sum(U \ {y})
  <2> DEFINE rest == Sum((U \ {a}) \ {y})
  <2>1. Sum(U) = f[a] + (f[y] + rest) /\ Sum(U \ {y}) = f[a] + rest
    BY <1>5, <1>7, <1>8, <1>9
  <2>2. f[a] \in Int /\ f[y] \in Int /\ rest \in Int
    BY <1>10
  <2> HIDE DEF rest, Sum
  <2> QED
    BY <2>1, <2>2
<1> QED
  BY <1>3, <1>11

\* The sum over one element more.
LEMMA SumWithOneMore ==
  ASSUME NEW f, NEW S, IsFiniteSet(S), \A y \in S : f[y] \in Int,
         NEW x, x \notin S, f[x] \in Int
  PROVE  SumFunctionOnSet(f, S \union {x}) = SumFunctionOnSet(f, S) + f[x]
<1>1. IsFiniteSet(S \union {x}) /\ (S \union {x}) \ {x} = S
  BY FS_AddElement
<1>2. SumFunctionOnSet(f, S \union {x}) = f[x] + SumFunctionOnSet(f, S)
  BY <1>1, SumWithout
<1>3. SumFunctionOnSet(f, S) \in Int
  BY SumType
<1> QED
  BY <1>2, <1>3

\* The sum depends on the function over the set only.
LEMMA SumsAgree ==
  ASSUME NEW f, NEW g, NEW S, IsFiniteSet(S), \A x \in S : f[x] = g[x]
  PROVE  SumFunctionOnSet(f, S) = SumFunctionOnSet(g, S)
<1> DEFINE C == {U \in SUBSET S : SumFunctionOnSet(f, U) # SumFunctionOnSet(g, U)}
<1>1. SUFFICES ASSUME C # {} PROVE FALSE
  OBVIOUS
<1>2. PICK U \in C : \A V \in C : V \subseteq U => V = U
  <2>1. C \subseteq SUBSET S
    OBVIOUS
  <2> HIDE DEF C
  <2> QED
    BY <2>1, <1>1, MinimalSubset
<1>3. U # {}
  BY <1>2, SumOfNothing
<1>4. /\ SumFunctionOnSet(f, U) = f[anElement(U)] + SumFunctionOnSet(f, Rest(U))
      /\ SumFunctionOnSet(g, U) = g[anElement(U)] + SumFunctionOnSet(g, Rest(U))
  BY <1>3, SumEquation, FS_Subset
<1>5. Rest(U) \in SUBSET S /\ anElement(U) \in S /\ Rest(U) \notin C
  BY <1>2, <1>3, RestOfSet
<1> QED
  BY <1>2, <1>4, <1>5

=============================================================================
