------------------------------ MODULE SumProofs ------------------------------
(***************************************************************************)
(* Sums of the values of a function over a finite set (SumFunction), the   *)
(* arithmetic every proof about chips and points rests on.  The library's  *)
(* induction theorems take an operator; here induction is stated for a set *)
(* of subsets, and the recursive function behind the folds is shown to     *)
(* exist, size by size.                                                    *)
(***************************************************************************)
EXTENDS FiniteSetsExt, FiniteSetTheorems, WellFoundedInduction, TLAPS

----------------------------------------------------------------------------
(***************************************************************************)
(* Induction.                                                              *)
(***************************************************************************)

(* What holds of a set when it holds of its proper subsets, holds of all   *)
(* the subsets of a finite set.                                            *)
LEMMA SubsetInduction ==
  ASSUME NEW S, IsFiniteSet(S), NEW Good,
         \A T \in SUBSET S : (\A U \in SUBSET T : U # T => U \in Good) => T \in Good
  PROVE  \A T \in SUBSET S : T \in Good
<1> DEFINE Bad == {T \in SUBSET S : T \notin Good}
<1>1. SUFFICES ASSUME Bad # {} PROVE FALSE
  OBVIOUS
<1>2. IsWellFoundedOn(StrictSubsetOrdering(S), SUBSET S)
  BY FS_StrictSubsetOrderingWellFounded, FS_FiniteSubsetsOfFinite
<1>0. Bad \subseteq SUBSET S /\ \A T \in SUBSET S : T \notin Good => T \in Bad
  OBVIOUS
<1> HIDE DEF Bad
<1>3. PICK T \in Bad : \A U \in Bad : ~ (<<U, T>> \in StrictSubsetOrdering(S))
  BY <1>1, <1>2, <1>0, WFMin
<1>4. \A U \in SUBSET T : U # T => U \in Good
  <2> TAKE U \in SUBSET T
  <2> HAVE U # T
  <2>1. U \in SUBSET S /\ T \in SUBSET S
    BY <1>0
  <2>2. <<U, T>> \in StrictSubsetOrdering(S)
    BY <2>1, U \subseteq T DEF StrictSubsetOrdering
  <2> QED BY <1>3, <1>0, <2>1, <2>2
<1>5. T \in SUBSET S /\ T \notin Good
  BY DEF Bad
<1> QED BY <1>4, <1>5

(* The same for the natural numbers, going up by one. *)
LEMMA CountingInduction ==
  ASSUME NEW Good, 0 \in Good, \A n \in Nat : n \in Good => n + 1 \in Good
  PROVE  Nat \subseteq Good
<1> DEFINE Bad == {n \in Nat : n \notin Good}
           less == OpToRel(<, Nat)
<1>1. SUFFICES ASSUME Bad # {} PROVE FALSE
  OBVIOUS
<1>2. \E n \in Bad : \A m \in Bad : ~ (<<m, n>> \in less)
  <2>1. IsWellFoundedOn(less, Nat)
    BY NatLessThanWellFounded
  <2>2. Bad \subseteq Nat
    OBVIOUS
  <2> HIDE DEF less, Bad
  <2> QED BY <1>1, <2>1, <2>2, WFMin
<1>3. \A m, n \in Nat : m < n => <<m, n>> \in less
  BY DEF OpToRel
<1>4. PICK n \in Bad : \A m \in Bad : ~ (<<m, n>> \in less)
  BY <1>2
<1> HIDE DEF less
<1>5. n \in Nat /\ n # 0 /\ n - 1 \in Nat /\ n - 1 < n /\ (n - 1) + 1 = n
  BY <1>4
<1>6. n - 1 \in Good
  BY <1>3, <1>4, <1>5
<1> QED BY <1>4, <1>5, <1>6

----------------------------------------------------------------------------
(***************************************************************************)
(* The recursion behind SumFunctionOnSet.                                  *)
(***************************************************************************)
Pick(s) == CHOOSE y \in s : TRUE
Rule(f, g, s) == IF s = {} THEN 0 ELSE f[Pick(s)] + g[s \ {Pick(s)}]

(* g holds the sums of f over the sets of D. *)
Holds(f, g, D) == \A s \in D : g[s] = Rule(f, g, s)
HoldsIn(f, g, T) == Holds(f, g, SUBSET T)

(* The fold of the community modules, written with the rule. *)
LEMMA SumUnfolds ==
  ASSUME NEW f, NEW S
  PROVE  SumFunctionOnSet(f, S) = (CHOOSE g : g = [s \in SUBSET S |-> Rule(f, g, s)])[S]
BY DEF SumFunctionOnSet, FoldFunctionOnSet, MapThenFoldSet, Rule, Pick

(* What is picked is a member. *)
LEMMA PickedOut ==
  ASSUME NEW s, s # {}
  PROVE  Pick(s) \in s
BY DEF Pick

(* The sets of at most n members of S. *)
UpTo(S, n) == {s \in SUBSET S : Cardinality(s) <= n}

(* Without what was picked a set is one size down. *)
LEMMA OneLess ==
  ASSUME NEW S, IsFiniteSet(S), NEW n \in Nat, NEW s \in UpTo(S, n + 1), s # {}
  PROVE  s \ {Pick(s)} \in UpTo(S, n)
<1>1. IsFiniteSet(s) /\ Cardinality(s) \in Nat /\ Pick(s) \in s
  BY PickedOut, FS_Subset, FS_CardinalityType DEF UpTo
<1>2. Cardinality(s \ {Pick(s)}) = Cardinality(s) - 1
  BY <1>1, FS_RemoveElement
<1> QED BY <1>1, <1>2 DEF UpTo

(* There is a function that follows the rule, by induction on the size. *)
LEMMA SumsExistUpTo ==
  ASSUME NEW S, IsFiniteSet(S), NEW f \in [S -> Int]
  PROVE  \A n \in Nat : \E g \in [UpTo(S, n) -> Int] : Holds(f, g, UpTo(S, n))
<1> DEFINE Good == {n \in Nat : \E g \in [UpTo(S, n) -> Int] : Holds(f, g, UpTo(S, n))}
<1>1. 0 \in Good
  <2> DEFINE g == [s \in UpTo(S, 0) |-> 0]
  <2>1. \A s \in UpTo(S, 0) : s = {}
    BY FS_Subset, FS_CardinalityType, FS_EmptySet DEF UpTo
  <2>2. g \in [UpTo(S, 0) -> Int] /\ Holds(f, g, UpTo(S, 0))
    BY <2>1 DEF Holds, Rule
  <2> QED BY <2>2
<1>2. ASSUME NEW n \in Nat, n \in Good PROVE n + 1 \in Good
  <2>1. PICK g0 \in [UpTo(S, n) -> Int] : Holds(f, g0, UpTo(S, n))
    BY <1>2
  <2> DEFINE g == [s \in UpTo(S, n + 1) |-> Rule(f, g0, s)]
  <2>2. \A s \in UpTo(S, n + 1) : s # {} =>
           Pick(s) \in S /\ s \ {Pick(s)} \in UpTo(S, n)
    BY OneLess, PickedOut DEF UpTo
  <2>3. \A s \in UpTo(S, n + 1) : Rule(f, g0, s) \in Int
    BY <2>2 DEF Rule
  <2>4. UpTo(S, n) \subseteq UpTo(S, n + 1)
    BY FS_Subset, FS_CardinalityType DEF UpTo
  <2>5. \A s \in UpTo(S, n) : g[s] = g0[s]
    BY <2>1, <2>4 DEF Holds
  <2>6. \A s \in UpTo(S, n + 1) : g[s] = Rule(f, g, s)
    <3> TAKE s \in UpTo(S, n + 1)
    <3>1. CASE s = {}  BY <3>1 DEF Rule
    <3>2. CASE s # {}
      <4>1. g[s \ {Pick(s)}] = g0[s \ {Pick(s)}]
        BY <2>2, <2>5, <3>2
      <4>2. g[s] = Rule(f, g0, s)
        OBVIOUS
      <4> HIDE DEF g
      <4> QED BY <3>2, <4>1, <4>2 DEF Rule
    <3> QED BY <3>1, <3>2
  <2>7. g \in [UpTo(S, n + 1) -> Int] /\ Holds(f, g, UpTo(S, n + 1))
    BY <2>3, <2>6 DEF Holds
  <2> QED BY <2>7
<1> HIDE DEF Good
<1>3. Nat \subseteq Good
  BY <1>1, <1>2, CountingInduction
<1> QED BY <1>3 DEF Good

(* The recursion has a solution, so SumFunctionOnSet is one. *)
LEMMA SumsExist ==
  ASSUME NEW S, IsFiniteSet(S), NEW f \in [S -> Int], NEW T \in SUBSET S
  PROVE  \E g : /\ \A s \in SUBSET T : g[s] \in Int
               /\ HoldsIn(f, g, T)
               /\ SumFunctionOnSet(f, T) = g[T]
<1>1. IsFiniteSet(T) /\ Cardinality(T) \in Nat
  BY FS_Subset, FS_CardinalityType
<1>2. UpTo(T, Cardinality(T)) = SUBSET T
  BY <1>1, FS_Subset DEF UpTo
<1> DEFINE fT == [x \in T |-> f[x]]
<1>3. PICK g \in [SUBSET T -> Int] : Holds(fT, g, SUBSET T)
  <2>1. fT \in [T -> Int]
    OBVIOUS
  <2> HIDE DEF fT
  <2>2. \E g \in [UpTo(T, Cardinality(T)) -> Int] : Holds(fT, g, UpTo(T, Cardinality(T)))
    BY <1>1, <2>1, SumsExistUpTo
  <2> QED BY <1>2, <2>2
<1>4. \A s \in SUBSET T : Rule(fT, g, s) = Rule(f, g, s)
  BY PickedOut DEF Rule
<1>5. g = [s \in SUBSET T |-> Rule(f, g, s)]
  BY <1>3, <1>4 DEF HoldsIn, Holds
<1> DEFINE h == CHOOSE k : k = [s \in SUBSET T |-> Rule(f, k, s)]
<1>6. h = [s \in SUBSET T |-> Rule(f, h, s)]
  BY <1>5
<1>7. SumFunctionOnSet(f, T) = h[T]
  BY SumUnfolds
<1> HIDE DEF h
<1>8. \A s \in SUBSET T : h[s] = Rule(f, h, s)
  BY <1>6
<1>9. \A s \in SUBSET T : h[s] \in Int
  <2> DEFINE Good == {s \in SUBSET T : h[s] \in Int}
  <2>1. ASSUME NEW s \in SUBSET T, \A u \in SUBSET s : u # s => u \in Good
        PROVE  s \in Good
    <3>1. CASE s = {}
      <4>1. h[s] = 0
        BY <1>8, <3>1 DEF Rule
      <4> QED BY <4>1
    <3>2. CASE s # {}
      <4>1. Pick(s) \in s /\ s \ {Pick(s)} \in SUBSET s /\ s \ {Pick(s)} # s
        BY <3>2, PickedOut
      <4>2. h[s \ {Pick(s)}] \in Int /\ f[Pick(s)] \in Int
        BY <2>1, <4>1
      <4> QED BY <1>8, <3>2, <4>2 DEF Rule
    <3> QED BY <3>1, <3>2
  <2> HIDE DEF Good
  <2>2. \A s \in SUBSET T : s \in Good
    BY <1>1, <2>1, SubsetInduction
  <2> QED BY <2>2 DEF Good
<1> QED BY <1>7, <1>8, <1>9 DEF HoldsIn, Holds

(* Solutions agree where both are defined. *)
LEMMA SumsAgree ==
  ASSUME NEW f, NEW T, IsFiniteSet(T), NEW U \in SUBSET T,
         NEW g, HoldsIn(f, g, T), NEW h, HoldsIn(f, h, U)
  PROVE  g[U] = h[U]
<1> DEFINE Good == {s \in SUBSET U : g[s] = h[s]}
<1>1. IsFiniteSet(U)
  BY FS_Subset
<1>2. ASSUME NEW s \in SUBSET U, \A u \in SUBSET s : u # s => u \in Good
      PROVE  s \in Good
  <2>1. g[s] = Rule(f, g, s) /\ h[s] = Rule(f, h, s)
    BY DEF HoldsIn, Holds
  <2>2. CASE s = {}
    <3>1. g[s] = 0 /\ h[s] = 0
      BY <2>1, <2>2 DEF Rule
    <3> QED BY <3>1
  <2>3. CASE s # {}
    <3>1. s \ {Pick(s)} \in SUBSET s /\ s \ {Pick(s)} # s
      BY <2>3, PickedOut
    <3>2. g[s \ {Pick(s)}] = h[s \ {Pick(s)}]
      BY <1>2, <3>1
    <3>3. g[s] = h[s]
      BY <2>1, <2>3, <3>2 DEF Rule
    <3> QED BY <3>3
  <2> QED BY <2>2, <2>3
<1> HIDE DEF Good
<1>3. U \in Good
  BY <1>1, <1>2, SubsetInduction
<1> QED BY <1>3 DEF Good

(* The recursion, for SumFunctionOnSet itself. *)
LEMMA SumOnSetRule ==
  ASSUME NEW S, IsFiniteSet(S), NEW f \in [S -> Int], NEW T \in SUBSET S
  PROVE  /\ SumFunctionOnSet(f, T) \in Int
         /\ T = {} => SumFunctionOnSet(f, T) = 0
         /\ T # {} => SumFunctionOnSet(f, T) = f[Pick(T)] + SumFunctionOnSet(f, T \ {Pick(T)})
<1>1. PICK g : /\ \A s \in SUBSET T : g[s] \in Int
               /\ HoldsIn(f, g, T)
               /\ SumFunctionOnSet(f, T) = g[T]
  BY SumsExist
<1>2. T = {} => g[T] = 0
  BY <1>1 DEF HoldsIn, Holds, Rule
<1>3. ASSUME T # {}
      PROVE  g[T] = f[Pick(T)] + SumFunctionOnSet(f, T \ {Pick(T)})
  <2> DEFINE U == T \ {Pick(T)}
  <2>1. U \in SUBSET S /\ U \in SUBSET T /\ IsFiniteSet(T)
    BY FS_Subset
  <2> HIDE DEF U
  <2>2. PICK h : /\ HoldsIn(f, h, U)
                 /\ SumFunctionOnSet(f, U) = h[U]
    BY <2>1, SumsExist
  <2>3. g[U] = h[U]
    BY <1>1, <2>1, <2>2, SumsAgree
  <2>4. g[T] = f[Pick(T)] + g[U]
    BY <1>1, <1>3 DEF HoldsIn, Holds, Rule, U
  <2> QED BY <2>2, <2>3, <2>4 DEF U
<1> QED BY <1>1, <1>2, <1>3

(* Any member can be taken out first. *)
LEMMA SumTakeOut ==
  ASSUME NEW S, IsFiniteSet(S), NEW f \in [S -> Int], NEW T \in SUBSET S, NEW x \in T
  PROVE  SumFunctionOnSet(f, T) = f[x] + SumFunctionOnSet(f, T \ {x})
<1> DEFINE Sum(s) == SumFunctionOnSet(f, s)
           Good == {s \in SUBSET S : \A y \in s : Sum(s) = f[y] + Sum(s \ {y})}
<1>1. ASSUME NEW s \in SUBSET S, \A u \in SUBSET s : u # s => u \in Good
      PROVE  s \in Good
  <2>1. ASSUME NEW y \in s PROVE Sum(s) = f[y] + Sum(s \ {y})
    <3> DEFINE c == Pick(s)
    <3>1. c \in s /\ c \in S /\ y \in S /\ s # {}
      BY PickedOut
    <3>2. Sum(s) = f[c] + Sum(s \ {c})
      BY <3>1, SumOnSetRule
    <3>3. CASE y = c  BY <3>2, <3>3
    <3>4. CASE y # c
      <4>1. s \ {c} \in SUBSET s /\ s \ {c} # s /\ s \ {y} \in SUBSET s /\ s \ {y} # s
        BY <3>1
      <4>2. s \ {c} \in Good /\ s \ {y} \in Good
        BY <1>1, <4>1
      <4>3. Sum(s \ {c}) = f[y] + Sum((s \ {c}) \ {y})
        BY <4>2, <3>4
      <4>4. Sum(s \ {y}) = f[c] + Sum((s \ {y}) \ {c})
        BY <4>2, <3>1, <3>4
      <4>5. (s \ {y}) \ {c} = (s \ {c}) \ {y}
        OBVIOUS
      <4>6. Sum((s \ {c}) \ {y}) \in Int /\ f[c] \in Int /\ f[y] \in Int
        BY <3>1, SumOnSetRule
      <4>7. Sum(s \ {y}) = f[c] + Sum((s \ {c}) \ {y})
        BY <4>4, <4>5
      <4> HIDE DEF Sum, c
      <4>8. \A i, j, k, m, n \in Int : m = i + j /\ n = k + j => k + m = i + n
        OBVIOUS
      <4>9. Sum(s \ {c}) \in Int /\ Sum(s \ {y}) \in Int
        BY <4>3, <4>6, <4>7
      <4>10. f[c] + Sum(s \ {c}) = f[y] + Sum(s \ {y})
        BY <4>3, <4>6, <4>7, <4>8, <4>9
      <4> QED BY <3>2, <4>10
    <3> QED BY <3>3, <3>4
  <2> QED BY <2>1
<1> HIDE DEF Good
<1>2. T \in Good
  BY <1>1, SubsetInduction
<1> QED BY <1>2 DEF Good

----------------------------------------------------------------------------
(***************************************************************************)
(* What the other modules use: sums over the whole domain.                 *)
(***************************************************************************)
LEMMA SumOfDomain ==
  ASSUME NEW S, NEW f \in [S -> Int]
  PROVE  SumFunction(f) = SumFunctionOnSet(f, S)
BY DEF SumFunction

(* Sums of integers are integers. *)
LEMMA SumIsInt ==
  ASSUME NEW S, IsFiniteSet(S), NEW f \in [S -> Int]
  PROVE  SumFunction(f) \in Int
<1>1. S \in SUBSET S
  OBVIOUS
<1>2. SumFunctionOnSet(f, S) \in Int
  BY <1>1, SumOnSetRule
<1> QED BY <1>2, SumOfDomain

(* Sums over a set depend on the values there only. *)
LEMMA SumOnSetCongruent ==
  ASSUME NEW S, IsFiniteSet(S), NEW f \in [S -> Int], NEW g \in [S -> Int],
         NEW T \in SUBSET S, \A x \in T : f[x] = g[x]
  PROVE  SumFunctionOnSet(f, T) = SumFunctionOnSet(g, T)
<1> DEFINE Good == {s \in SUBSET T : SumFunctionOnSet(f, s) = SumFunctionOnSet(g, s)}
<1>1. IsFiniteSet(T)
  BY FS_Subset
<1>2. ASSUME NEW s \in SUBSET T, \A u \in SUBSET s : u # s => u \in Good
      PROVE  s \in Good
  <2>1. CASE s = {}
    <3>1. SumFunctionOnSet(f, s) = 0 /\ SumFunctionOnSet(g, s) = 0
      BY <2>1, SumOnSetRule
    <3> QED BY <3>1
  <2>2. CASE s # {}
    <3>1. Pick(s) \in s /\ s \ {Pick(s)} \in SUBSET s /\ s \ {Pick(s)} # s
      BY <2>2, PickedOut
    <3>2. SumFunctionOnSet(f, s \ {Pick(s)}) = SumFunctionOnSet(g, s \ {Pick(s)})
      BY <1>2, <3>1
    <3>3. s \in SUBSET S
      OBVIOUS
    <3>4. /\ SumFunctionOnSet(f, s) = f[Pick(s)] + SumFunctionOnSet(f, s \ {Pick(s)})
          /\ SumFunctionOnSet(g, s) = g[Pick(s)] + SumFunctionOnSet(g, s \ {Pick(s)})
      BY <2>2, <3>3, SumOnSetRule
    <3>5. f[Pick(s)] = g[Pick(s)]
      BY <3>1
    <3> QED BY <3>2, <3>4, <3>5
  <2> QED BY <2>1, <2>2
<1> HIDE DEF Good
<1>3. T \in Good
  BY <1>1, <1>2, SubsetInduction
<1> QED BY <1>3 DEF Good

(* What the function is elsewhere does not count. *)
LEMMA SumRestricted ==
  ASSUME NEW S, IsFiniteSet(S), NEW f \in [S -> Int], NEW T \in SUBSET S
  PROVE  SumFunctionOnSet(f, T) = SumFunction([x \in T |-> f[x]])
<1> DEFINE g == [x \in T |-> f[x]]
           Good == {s \in SUBSET T : SumFunctionOnSet(f, s) = SumFunctionOnSet(g, s)}
<1>1. IsFiniteSet(T)
  BY FS_Subset
<1>2. g \in [T -> Int] /\ \A x \in T : f[x] = g[x]
  OBVIOUS
<1> HIDE DEF g
<1>3. ASSUME NEW s \in SUBSET T, \A u \in SUBSET s : u # s => u \in Good
      PROVE  s \in Good
  <2>0. s \in SUBSET S
    OBVIOUS
  <2>1. CASE s = {}
    <3>1. SumFunctionOnSet(f, s) = 0
      BY <2>0, <2>1, SumOnSetRule
    <3>2. SumFunctionOnSet(g, s) = 0
      BY <1>1, <1>2, <2>1, SumOnSetRule
    <3> QED BY <3>1, <3>2
  <2>2. CASE s # {}
    <3> DEFINE c == Pick(s)
               rest == s \ {c}
    <3>1. c \in s /\ rest \in SUBSET s /\ rest # s
      BY <2>2, PickedOut
    <3>2. SumFunctionOnSet(f, rest) = SumFunctionOnSet(g, rest)
      BY <1>3, <3>1
    <3>3. SumFunctionOnSet(f, s) = f[c] + SumFunctionOnSet(f, rest)
      BY <2>0, <2>2, SumOnSetRule
    <3>4. SumFunctionOnSet(g, s) = g[c] + SumFunctionOnSet(g, rest)
      BY <1>1, <1>2, <2>2, SumOnSetRule
    <3>5. f[c] = g[c]
      BY <1>2, <3>1
    <3> QED BY <3>2, <3>3, <3>4, <3>5
  <2> QED BY <2>1, <2>2
<1> HIDE DEF Good
<1>4. T \in Good
  BY <1>1, <1>3, SubsetInduction
<1>5. SumFunction(g) = SumFunctionOnSet(g, T)
  BY <1>2, SumOfDomain
<1> QED BY <1>4, <1>5 DEF Good, g

(* One value changes. *)
LEMMA SumOnSetUpdate ==
  ASSUME NEW S, IsFiniteSet(S), NEW f \in [S -> Int], NEW x \in S, NEW v \in Int,
         NEW T \in SUBSET S
  PROVE  /\ x \in T => SumFunctionOnSet([f EXCEPT ![x] = v], T) = SumFunctionOnSet(f, T) - f[x] + v
         /\ x \notin T => SumFunctionOnSet([f EXCEPT ![x] = v], T) = SumFunctionOnSet(f, T)
<1> DEFINE g == [f EXCEPT ![x] = v]
           rest == T \ {x}
<1>1. g \in [S -> Int] /\ g[x] = v /\ \A y \in rest : f[y] = g[y]
  OBVIOUS
<1> HIDE DEF g
<1>2. /\ SumFunctionOnSet(f, rest) = SumFunctionOnSet(g, rest)
      /\ SumFunctionOnSet(f, rest) \in Int /\ f[x] \in Int
  <2>1. rest \in SUBSET S /\ f[x] \in Int
    OBVIOUS
  <2> HIDE DEF rest
  <2>2. SumFunctionOnSet(f, rest) = SumFunctionOnSet(g, rest)
    BY <1>1, <2>1, SumOnSetCongruent
  <2>3. SumFunctionOnSet(f, rest) \in Int
    BY <2>1, SumOnSetRule
  <2> QED BY <2>1, <2>2, <2>3
<1>3. CASE x \in T
  <2>1. SumFunctionOnSet(g, T) = v + SumFunctionOnSet(g, rest)
    BY <1>1, <1>3, SumTakeOut
  <2>2. SumFunctionOnSet(f, T) = f[x] + SumFunctionOnSet(f, rest)
    BY <1>3, SumTakeOut
  <2> QED BY <1>2, <1>3, <2>1, <2>2 DEF g
<1>4. CASE x \notin T
  <2>1. rest = T
    BY <1>4
  <2> QED BY <1>2, <1>4, <2>1 DEF g
<1> QED BY <1>3, <1>4

(* One value replaced. *)
LEMMA SumUpdate ==
  ASSUME NEW S, IsFiniteSet(S), NEW f \in [S -> Int], NEW x \in S, NEW v \in Int
  PROVE  SumFunction([f EXCEPT ![x] = v]) = SumFunction(f) - f[x] + v
<1> DEFINE g == [f EXCEPT ![x] = v]
           rest == S \ {x}
<1>1. g \in [S -> Int] /\ g[x] = v /\ \A y \in rest : f[y] = g[y]
  OBVIOUS
<1> HIDE DEF g
<1>2. SumFunction(g) = v + SumFunctionOnSet(g, rest)
  BY <1>1, SumOfDomain, SumTakeOut
<1>3. SumFunction(f) = f[x] + SumFunctionOnSet(f, rest)
  BY SumOfDomain, SumTakeOut
<1>4. SumFunctionOnSet(f, rest) = SumFunctionOnSet(g, rest)
  BY <1>1, SumOnSetCongruent
<1>5. SumFunctionOnSet(f, rest) \in Int /\ f[x] \in Int
  BY SumOnSetRule
<1> QED BY <1>2, <1>3, <1>4, <1>5 DEF g

(* Sums add up value by value. *)
LEMMA SumAdds ==
  ASSUME NEW S, IsFiniteSet(S), NEW f \in [S -> Int], NEW g \in [S -> Int],
         NEW h \in [S -> Int], \A x \in S : h[x] = f[x] + g[x]
  PROVE  SumFunction(h) = SumFunction(f) + SumFunction(g)
<1> DEFINE Sum(k, s) == SumFunctionOnSet(k, s)
           Good == {s \in SUBSET S : Sum(h, s) = Sum(f, s) + Sum(g, s)}
<1>1. ASSUME NEW s \in SUBSET S, \A u \in SUBSET s : u # s => u \in Good
      PROVE  s \in Good
  <2>1. CASE s = {}
    <3>1. Sum(f, s) = 0 /\ Sum(g, s) = 0 /\ Sum(h, s) = 0
      BY <2>1, SumOnSetRule
    <3> QED BY <3>1
  <2>2. CASE s # {}
    <3> DEFINE c == Pick(s)
               rest == s \ {c}
    <3>1. c \in S /\ rest \in SUBSET s /\ rest # s /\ rest \in SUBSET S
      BY <2>2, PickedOut
    <3>2. Sum(h, rest) = Sum(f, rest) + Sum(g, rest)
      BY <1>1, <3>1
    <3>3. /\ Sum(f, s) = f[c] + Sum(f, rest)
          /\ Sum(g, s) = g[c] + Sum(g, rest)
          /\ Sum(h, s) = h[c] + Sum(h, rest)
      BY <2>2, SumOnSetRule
    <3>4. /\ Sum(f, rest) \in Int /\ Sum(g, rest) \in Int
          /\ f[c] \in Int /\ g[c] \in Int /\ h[c] = f[c] + g[c]
      BY <3>1, SumOnSetRule
    <3> HIDE DEF c, rest
    <3> QED BY <3>2, <3>3, <3>4
  <2> QED BY <2>1, <2>2
<1> HIDE DEF Good
<1>2. S \in Good
  BY <1>1, SubsetInduction
<1> QED BY <1>2, SumOfDomain DEF Good

(* Nothing but zeros. *)
LEMMA SumOnSetOfZeros ==
  ASSUME NEW S, IsFiniteSet(S), NEW f \in [S -> Int], NEW T \in SUBSET S, \A x \in T : f[x] = 0
  PROVE  SumFunctionOnSet(f, T) = 0
<1> DEFINE Good == {s \in SUBSET T : SumFunctionOnSet(f, s) = 0}
<1>1. IsFiniteSet(T)
  BY FS_Subset
<1>2. ASSUME NEW s \in SUBSET T, \A u \in SUBSET s : u # s => u \in Good
      PROVE  s \in Good
  <2>0. s \in SUBSET S
    OBVIOUS
  <2>1. CASE s = {}
    <3>1. SumFunctionOnSet(f, s) = 0
      BY <2>0, <2>1, SumOnSetRule
    <3> QED BY <3>1
  <2>2. CASE s # {}
    <3>1. Pick(s) \in s /\ s \ {Pick(s)} \in SUBSET s /\ s \ {Pick(s)} # s
      BY <2>2, PickedOut
    <3>2. SumFunctionOnSet(f, s \ {Pick(s)}) = 0 /\ f[Pick(s)] = 0
      BY <1>2, <3>1
    <3>3. SumFunctionOnSet(f, s) = f[Pick(s)] + SumFunctionOnSet(f, s \ {Pick(s)})
      BY <2>0, <2>2, SumOnSetRule
    <3> QED BY <3>2, <3>3
  <2> QED BY <2>1, <2>2
<1> HIDE DEF Good
<1>3. T \in Good
  BY <1>1, <1>2, SubsetInduction
<1> QED BY <1>3 DEF Good

(* Nothing adds up to nothing. *)
LEMMA SumOfZeros ==
  ASSUME NEW S, IsFiniteSet(S), NEW f \in [S -> Int], \A x \in S : f[x] = 0
  PROVE  SumFunction(f) = 0
<1>1. S \in SUBSET S
  OBVIOUS
<1>2. SumFunctionOnSet(f, S) = 0
  BY <1>1, SumOnSetOfZeros
<1> QED BY <1>2, SumOfDomain

(* A sum of natural numbers is one, and no smaller than any of them. *)
LEMMA SumOnSetIsNat ==
  ASSUME NEW S, IsFiniteSet(S), NEW f \in [S -> Nat], NEW T \in SUBSET S
  PROVE  SumFunctionOnSet(f, T) \in Nat
<1> DEFINE Good == {s \in SUBSET S : SumFunctionOnSet(f, s) >= 0}
<1>0. f \in [S -> Int]
  OBVIOUS
<1>1. ASSUME NEW s \in SUBSET S, \A u \in SUBSET s : u # s => u \in Good
      PROVE  s \in Good
  <2>1. CASE s = {}
    <3>1. SumFunctionOnSet(f, s) = 0
      BY <1>0, <2>1, SumOnSetRule
    <3> QED BY <3>1
  <2>2. CASE s # {}
    <3> DEFINE c == Pick(s)
               rest == s \ {c}
    <3>1. c \in S /\ rest \in SUBSET s /\ rest # s /\ rest \in SUBSET S
      BY <2>2, PickedOut
    <3>2. SumFunctionOnSet(f, rest) >= 0
      BY <1>1, <3>1
    <3>3. SumFunctionOnSet(f, rest) \in Int
      BY <1>0, <3>1, SumOnSetRule
    <3>4. SumFunctionOnSet(f, s) = f[c] + SumFunctionOnSet(f, rest) /\ f[c] \in Nat
      BY <1>0, <2>2, <3>1, SumOnSetRule
    <3> HIDE DEF c, rest
    <3> QED BY <3>2, <3>3, <3>4
  <2> QED BY <2>1, <2>2
<1>2. \A s \in SUBSET S : s \in Good
  <2> HIDE DEF Good
  <2> QED BY <1>1, SubsetInduction
<1>3. SumFunctionOnSet(f, T) \in Int
  BY <1>0, SumOnSetRule
<1> QED BY <1>2, <1>3

(* A sum of naturals is one, and no term exceeds it. *)
LEMMA SumIsNat ==
  ASSUME NEW S, IsFiniteSet(S), NEW f \in [S -> Nat]
  PROVE  SumFunction(f) \in Nat /\ \A x \in S : f[x] <= SumFunction(f)
<1>1. f \in [S -> Int]
  OBVIOUS
<1>2. SumFunction(f) = SumFunctionOnSet(f, S) /\ SumFunctionOnSet(f, S) \in Nat
  BY <1>1, SumOfDomain, SumOnSetIsNat
<1>3. ASSUME NEW x \in S PROVE f[x] <= SumFunction(f)
  <2>1. SumFunctionOnSet(f, S) = f[x] + SumFunctionOnSet(f, S \ {x})
    BY <1>1, SumTakeOut
  <2>2. S \ {x} \in SUBSET S
    OBVIOUS
  <2>3. SumFunctionOnSet(f, S \ {x}) \in Nat
    BY <2>2, SumOnSetIsNat
  <2> QED BY <1>2, <2>1, <2>3
<1> QED BY <1>2, <1>3

(* The same amount for each member of a set. *)
LEMMA SumOfEqualShares ==
  ASSUME NEW S, IsFiniteSet(S), NEW T \in SUBSET S, NEW c \in Int
  PROVE  SumFunction([x \in S |-> IF x \in T THEN c ELSE 0]) = c * Cardinality(T)
<1> DEFINE f(U) == [x \in S |-> IF x \in U THEN c ELSE 0]
           Good == {U \in SUBSET S : SumFunction(f(U)) = c * Cardinality(U)}
<1>1. ASSUME NEW U \in SUBSET S, \A V \in SUBSET U : V # U => V \in Good
      PROVE  U \in Good
  <2>1. CASE U = {}
    <3>1. SumFunction(f(U)) = 0
      BY <2>1, SumOfZeros
    <3> QED BY <2>1, <3>1, FS_EmptySet
  <2>2. CASE U # {}
    <3> DEFINE y == Pick(U)
               V == U \ {y}
    <3>1. y \in U /\ y \in S /\ V \in SUBSET U /\ V # U
      BY <2>2, PickedOut
    <3>2. f(V) \in [S -> Int] /\ f(V)[y] = 0
      BY <3>1
    <3>a. [f(V) EXCEPT ![y] = c] = [x \in S |-> IF x = y THEN c ELSE f(V)[x]]
      OBVIOUS
    <3>b. \A x \in S : (x \in U <=> x = y \/ x \in V)
      BY <3>1
    <3>c. f(U) = [f(V) EXCEPT ![y] = c]
      BY <3>a, <3>b
    <3>3. SumFunction(f(V)) = c * Cardinality(V)
      BY <1>1, <3>1
    <3>4. Cardinality(U) = Cardinality(V) + 1 /\ Cardinality(V) \in Nat
      BY <3>1, FS_Subset, FS_RemoveElement, FS_CardinalityType
    <3> HIDE DEF f, V, y
    <3>5. SumFunction(f(U)) = SumFunction(f(V)) - 0 + c
      <4>1. SumFunction([f(V) EXCEPT ![y] = c]) = SumFunction(f(V)) - f(V)[y] + c
        BY <3>1, <3>2, SumUpdate
      <4> QED BY <3>2, <3>c, <4>1
    <3>6. c * Cardinality(V) + c = c * (Cardinality(V) + 1) /\ c * Cardinality(V) \in Int
      BY <3>4
    <3> QED BY <3>3, <3>4, <3>5, <3>6
  <2> QED BY <2>1, <2>2
<1> HIDE DEF Good
<1>2. T \in Good
  BY <1>1, SubsetInduction
<1> QED BY <1>2 DEF Good

----------------------------------------------------------------------------
(***************************************************************************)
(* Rearranging sums.                                                       *)
(***************************************************************************)

(* Two sets with nothing in common. *)
LEMMA SumOfUnion ==
  ASSUME NEW S, IsFiniteSet(S), NEW f \in [S -> Int],
         NEW T \in SUBSET S, NEW U \in SUBSET S, T \cap U = {}
  PROVE  SumFunctionOnSet(f, T \cup U) = SumFunctionOnSet(f, T) + SumFunctionOnSet(f, U)
<1> DEFINE Sum(s) == SumFunctionOnSet(f, s)
           Good == {s \in SUBSET U : Sum(T \cup s) = Sum(T) + Sum(s)}
<1>0. IsFiniteSet(U) /\ Sum(T) \in Int
  BY FS_Subset, SumOnSetRule
<1>1. ASSUME NEW s \in SUBSET U, \A u \in SUBSET s : u # s => u \in Good
      PROVE  s \in Good
  <2>1. CASE s = {}
    <3>1. Sum({}) = 0 /\ T \cup s = T
      BY <2>1, SumOnSetRule
    <3> QED BY <1>0, <2>1, <3>1
  <2>2. CASE s # {}
    <3> DEFINE c == Pick(s)
               rest == s \ {c}
    <3>1. c \in s /\ rest \in SUBSET s /\ rest # s /\ (T \cup s) \ {c} = T \cup rest
      BY <2>2, PickedOut
    <3>2. Sum(T \cup rest) = Sum(T) + Sum(rest)
      BY <1>1, <3>1
    <3>3. Sum(s) = f[c] + Sum(rest)
      BY <3>1, SumTakeOut
    <3>4. Sum(T \cup s) = f[c] + Sum(T \cup rest)
      <4>1. c \in T \cup s /\ T \cup s \in SUBSET S
        BY <3>1
      <4>2. Sum(T \cup s) = f[c] + Sum((T \cup s) \ {c})
        <5> HIDE DEF c, rest
        <5> QED BY <4>1, SumTakeOut
      <4> QED BY <3>1, <4>2
    <3>5. f[c] \in Int /\ Sum(rest) \in Int
      BY <3>1, SumOnSetRule
    <3> HIDE DEF Sum, c, rest
    <3>6. Sum(T \cup s) = Sum(T) + Sum(s)
      BY <1>0, <3>2, <3>3, <3>4, <3>5
    <3> QED BY <3>6
  <2> QED BY <2>1, <2>2
<1> HIDE DEF Good
<1>2. U \in Good
  BY <1>0, <1>1, SubsetInduction
<1> QED BY <1>2 DEF Good

(* A sum over a part is the sum over all with zeros elsewhere. *)
LEMMA SumAsZeros ==
  ASSUME NEW S, IsFiniteSet(S), NEW f \in [S -> Int], NEW T \in SUBSET S
  PROVE  SumFunctionOnSet(f, T) = SumFunction([x \in S |-> IF x \in T THEN f[x] ELSE 0])
<1> DEFINE g == [x \in S |-> IF x \in T THEN f[x] ELSE 0]
           U == S \ T
<1>1. /\ g \in [S -> Int] /\ U \in SUBSET S /\ T \cap U = {} /\ T \cup U = S
      /\ \A x \in T : f[x] = g[x]
      /\ \A x \in U : g[x] = 0
  OBVIOUS
<1> HIDE DEF g, U
<1>2. SumFunction(g) = SumFunctionOnSet(g, T) + SumFunctionOnSet(g, U)
  BY <1>1, SumOfDomain, SumOfUnion
<1>3. SumFunctionOnSet(g, U) = 0
  BY <1>1, SumOnSetOfZeros
<1>4. SumFunctionOnSet(f, T) = SumFunctionOnSet(g, T)
  BY <1>1, SumOnSetCongruent
<1>5. SumFunctionOnSet(g, T) \in Int
  BY <1>1, SumOnSetRule
<1> QED BY <1>2, <1>3, <1>4, <1>5 DEF g

(* Zeros outside the domain change nothing. *)
LEMMA SumOfExtension ==
  ASSUME NEW S, IsFiniteSet(S), NEW T \in SUBSET S, NEW f \in [T -> Int]
  PROVE  SumFunction([x \in S |-> IF x \in T THEN f[x] ELSE 0]) = SumFunction(f)
<1> DEFINE g == [x \in S |-> IF x \in T THEN f[x] ELSE 0]
<1>1. /\ g \in [S -> Int]
      /\ [x \in T |-> g[x]] = f
      /\ [x \in S |-> IF x \in T THEN g[x] ELSE 0] = g
  OBVIOUS
<1> HIDE DEF g
<1>2. SumFunctionOnSet(g, T) = SumFunction([x \in T |-> g[x]])
  BY <1>1, SumRestricted
<1>3. SumFunctionOnSet(g, T) = SumFunction([x \in S |-> IF x \in T THEN g[x] ELSE 0])
  BY <1>1, SumAsZeros
<1> QED BY <1>1, <1>2, <1>3 DEF g

(* Larger values, a larger sum. *)
LEMMA SumMonotone ==
  ASSUME NEW S, IsFiniteSet(S), NEW f \in [S -> Int], NEW g \in [S -> Int],
         \A x \in S : f[x] <= g[x]
  PROVE  SumFunction(f) <= SumFunction(g)
<1> DEFINE more == [x \in S |-> g[x] - f[x]]
<1>1. more \in [S -> Nat] /\ more \in [S -> Int] /\ \A x \in S : g[x] = f[x] + more[x]
  OBVIOUS
<1> HIDE DEF more
<1>2. SumFunction(g) = SumFunction(f) + SumFunction(more)
  BY <1>1, SumAdds
<1>3. SumFunction(more) \in Nat /\ SumFunction(f) \in Int
  BY <1>1, SumIsNat, SumIsInt
<1> QED BY <1>2, <1>3

(* Rows first or columns first. *)
LEMMA SumExchange ==
  ASSUME NEW S, IsFiniteSet(S), NEW T, IsFiniteSet(T), NEW F \in [S -> [T -> Int]]
  PROVE  SumFunction([x \in S |-> SumFunction(F[x])])
           = SumFunction([y \in T |-> SumFunction([x \in S |-> F[x][y]])])
<1> DEFINE row == [x \in S |-> SumFunction(F[x])]
           col(y) == [x \in S |-> F[x][y]]
           cols(s) == [y \in T |-> SumFunctionOnSet(col(y), s)]
           Good == {s \in SUBSET S : SumFunctionOnSet(row, s) = SumFunction(cols(s))}
<1>1. row \in [S -> Int]
  BY SumIsInt
<1>2. \A y \in T : col(y) \in [S -> Int]
  OBVIOUS
<1>3. ASSUME NEW s \in SUBSET S PROVE cols(s) \in [T -> Int]
  <2>1. ASSUME NEW y \in T PROVE SumFunctionOnSet(col(y), s) \in Int
    <3> HIDE DEF col
    <3> QED BY <1>2, SumOnSetRule
  <2> QED BY <2>1
<1>4. ASSUME NEW s \in SUBSET S, \A u \in SUBSET s : u # s => u \in Good
      PROVE  s \in Good
  <2>1. CASE s = {}
    <3>1. SumFunctionOnSet(row, s) = 0
      <4> HIDE DEF row
      <4> QED BY <1>1, <2>1, SumOnSetRule
    <3>2. \A y \in T : cols(s)[y] = 0
      <4> SUFFICES ASSUME NEW y \in T PROVE SumFunctionOnSet(col(y), s) = 0
        OBVIOUS
      <4> HIDE DEF col
      <4> QED BY <1>2, <2>1, SumOnSetRule
    <3>3. SumFunction(cols(s)) = 0
      <4> HIDE DEF cols
      <4> QED BY <1>3, <3>2, SumOfZeros
    <3> QED BY <3>1, <3>3
  <2>2. CASE s # {}
    <3> DEFINE c == Pick(s)
               rest == s \ {c}
    <3>1. c \in s /\ c \in S /\ rest \in SUBSET s /\ rest # s /\ rest \in SUBSET S
      BY <2>2, PickedOut
    <3>2. SumFunctionOnSet(row, rest) = SumFunction(cols(rest))
      BY <1>4, <3>1
    <3> HIDE DEF c
    <3>3. SumFunctionOnSet(row, s) = SumFunction(F[c]) + SumFunctionOnSet(row, rest)
      <4>1. row[c] = SumFunction(F[c])
        BY <3>1
      <4> HIDE DEF row
      <4> QED BY <1>1, <3>1, <4>1, SumTakeOut
    <3>4. \A y \in T : cols(s)[y] = F[c][y] + cols(rest)[y]
      <4> SUFFICES ASSUME NEW y \in T
                   PROVE  SumFunctionOnSet(col(y), s)
                            = F[c][y] + SumFunctionOnSet(col(y), rest)
        OBVIOUS
      <4>1. col(y)[c] = F[c][y]
        BY <3>1
      <4> HIDE DEF col
      <4> QED BY <1>2, <3>1, <4>1, SumTakeOut
    <3>5. F[c] \in [T -> Int] /\ cols(s) \in [T -> Int] /\ cols(rest) \in [T -> Int]
      BY <1>3, <3>1
    <3>6. SumFunction(cols(s)) = SumFunction(F[c]) + SumFunction(cols(rest))
      <4> HIDE DEF cols, rest
      <4> QED BY <3>4, <3>5, SumAdds
    <3> QED BY <3>2, <3>3, <3>6
  <2> QED BY <2>1, <2>2
<1> HIDE DEF Good
<1>5. S \in Good
  BY <1>4, SubsetInduction
<1>6. SumFunction(row) = SumFunctionOnSet(row, S)
  <2> HIDE DEF row
  <2> QED BY <1>1, SumOfDomain
<1>7. \A y \in T : SumFunctionOnSet(col(y), S) = SumFunction(col(y))
  <2> HIDE DEF col
  <2> QED BY <1>2, SumOfDomain
<1>8. cols(S) = [y \in T |-> SumFunction(col(y))]
  <2> HIDE DEF col
  <2> QED BY <1>7
<1> QED BY <1>5, <1>6, <1>8 DEF Good

(* The summands may go by other names. *)
LEMMA SumRenamed ==
  ASSUME NEW S, IsFiniteSet(S), NEW T, IsFiniteSet(T), NEW name \in [S -> T],
         \A x, y \in S : name[x] = name[y] => x = y,
         \A z \in T : \E x \in S : name[x] = z,
         NEW f \in [T -> Int]
  PROVE  SumFunction(f) = SumFunction([x \in S |-> f[name[x]]])
<1> DEFINE g == [x \in S |-> f[name[x]]]
           img(s) == {name[x] : x \in s}
           Good == {s \in SUBSET S : SumFunctionOnSet(f, img(s)) = SumFunctionOnSet(g, s)}
<1>1. g \in [S -> Int]
  OBVIOUS
<1>2. ASSUME NEW s \in SUBSET S, \A u \in SUBSET s : u # s => u \in Good
      PROVE  s \in Good
  <2>1. CASE s = {}
    <3>1. img(s) = {} /\ {} \in SUBSET T
      BY <2>1
    <3>2. SumFunctionOnSet(f, {}) = 0
      BY <3>1, SumOnSetRule
    <3>3. SumFunctionOnSet(g, s) = 0
      <4> HIDE DEF g
      <4> QED BY <1>1, <2>1, SumOnSetRule
    <3> QED BY <3>1, <3>2, <3>3
  <2>2. CASE s # {}
    <3> DEFINE c == Pick(s)
               rest == s \ {c}
    <3>1. c \in s /\ c \in S /\ rest \in SUBSET s /\ rest # s /\ rest \in SUBSET S
      BY <2>2, PickedOut
    <3>2. SumFunctionOnSet(f, img(rest)) = SumFunctionOnSet(g, rest)
      BY <1>2, <3>1
    <3> HIDE DEF c
    <3>3. img(s) \ {name[c]} = img(rest) /\ name[c] \in img(s) /\ img(s) \in SUBSET T
      BY <3>1
    <3>4. SumFunctionOnSet(f, img(s)) = f[name[c]] + SumFunctionOnSet(f, img(rest))
      <4> HIDE DEF img
      <4> QED BY <3>3, SumTakeOut
    <3>5. SumFunctionOnSet(g, s) = f[name[c]] + SumFunctionOnSet(g, rest)
      <4>1. g[c] = f[name[c]]
        BY <3>1
      <4> HIDE DEF g
      <4> QED BY <1>1, <3>1, <4>1, SumTakeOut
    <3> QED BY <3>2, <3>4, <3>5
  <2> QED BY <2>1, <2>2
<1> HIDE DEF Good
<1>3. S \in Good
  BY <1>2, SubsetInduction
<1>4. img(S) = T
  OBVIOUS
<1>5. SumFunction(f) = SumFunctionOnSet(f, T)
  BY SumOfDomain
<1>6. SumFunction(g) = SumFunctionOnSet(g, S)
  <2> HIDE DEF g
  <2> QED BY <1>1, SumOfDomain
<1> QED BY <1>3, <1>4, <1>5, <1>6 DEF Good

(* The values of a function on a finite set are finitely many. *)
LEMMA FiniteImage ==
  ASSUME NEW S, IsFiniteSet(S), NEW f
  PROVE  IsFiniteSet({f[x] : x \in S})
<1> DEFINE img == {f[x] : x \in S}
           g == [x \in S |-> f[x]]
<1>1. g \in Surjection(S, img)
  BY DEF Surjection
<1> QED BY <1>1, FS_Surjection

(* The greatest of finitely many numbers. *)
LEMMA MaxOfFinite ==
  ASSUME NEW S \in SUBSET Int, IsFiniteSet(S), S # {}
  PROVE  Max(S) \in S /\ \A y \in S : y <= Max(S)
<1> DEFINE Good == {T \in SUBSET S : T # {} => \E x \in T : \A y \in T : x >= y}
<1>1. ASSUME NEW T \in SUBSET S, \A U \in SUBSET T : U # T => U \in Good
      PROVE  T \in Good
  <2>1. ASSUME T # {} PROVE \E x \in T : \A y \in T : x >= y
    <3>1. PICK c \in T : TRUE
      BY <2>1
    <3>2. T \ {c} \in Good
      BY <1>1, <3>1
    <3>3. CASE T \ {c} = {}
      <4>1. \A y \in T : y = c
        BY <3>3
      <4>2. c \in Int
        BY <3>1
      <4> QED BY <3>1, <4>1, <4>2
    <3>4. CASE T \ {c} # {}
      <4>1. PICK x \in T \ {c} : \A y \in T \ {c} : x >= y
        BY <3>2, <3>4
      <4>2. T \subseteq Int
        OBVIOUS
      <4>3. CASE x >= c  BY <4>1, <4>2, <4>3
      <4>4. CASE ~(x >= c)
        <5>1. \A y \in T : c >= y
          BY <3>1, <4>1, <4>2, <4>4
        <5> QED BY <3>1, <5>1
      <4> QED BY <4>3, <4>4
    <3> QED BY <3>3, <3>4
  <2> QED BY <2>1
<1> HIDE DEF Good
<1>2. S \in Good
  BY <1>1, SubsetInduction
<1>3. \E x \in S : \A y \in S : x >= y
  BY <1>2 DEF Good
<1>4. Max(S) \in S /\ \A y \in S : Max(S) >= y
  BY <1>3 DEF Max
<1> QED BY <1>4
=============================================================================
