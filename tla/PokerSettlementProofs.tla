----------------------- MODULE PokerSettlementProofs -----------------------
(***************************************************************************)
(* What a showdown pays, for any seats, contributions, folds and strengths *)
(* of hands.                                                               *)
(*   AwardsAddUp   every award is a number of chips, and together they are *)
(*                 the chips put in: the pots lose and make none           *)
(*   AwardBounded  nobody is paid more than what each opponent who stayed  *)
(*                 in could match, what the folded left and his own chips  *)
(* The argument counts the chips twice.  A band between two levels holds   *)
(* the same number of chips of each of its contributors, so the bands up   *)
(* to a level hold what every seat put in below it (BandsUpTo).            *)
(***************************************************************************)
EXTENDS PokerSettlement, SumProofs

(* Seats are finitely many numbers. *)
AreSeats(D) == D \in SUBSET Int /\ IsFiniteSet(D)

(* The amounts of all bands, and the contributions up to a height. *)
Bands(C) == [l \in Levels(C) |-> BandAmount(C, l)]
Capped(C, x) == [p \in DOMAIN C |-> Lesser(Contestable(C, p), x)]

----------------------------------------------------------------------------
(***************************************************************************)
(* Levels and bands.                                                       *)
(***************************************************************************)

(* What can be contested of a contribution is chips, and no more than it.  *)
LEMMA ContestableFacts ==
  ASSUME NEW D, AreSeats(D), NEW C \in [D -> Nat], NEW p \in D
  PROVE  Contestable(C, p) \in Nat /\ Contestable(C, p) <= C[p]
<1> DEFINE others == {C[q] : q \in D \ {p}}
<1>1. IsFiniteSet(D \ {p})
  BY FS_RemoveElement DEF AreSeats
<1>2. others \in SUBSET Nat /\ IsFiniteSet(others)
  BY <1>1, FiniteImage
<1>3. Contestable(C, p) = IF others = {} THEN C[p] ELSE Lesser(C[p], Max(others))
  BY DEF Contestable
<1> HIDE DEF others
<1>4. others # {} => Max(others) \in Nat
  <2>1. others \in SUBSET Int
    BY <1>2
  <2> QED BY <1>2, <2>1, MaxOfFinite
<1> QED BY <1>3, <1>4 DEF Lesser

(* The levels are finitely many positive numbers of chips, and what can be *)
(* contested of a contribution is one of them, or nothing.                 *)
LEMMA LevelsFacts ==
  ASSUME NEW D, AreSeats(D), NEW C \in [D -> Nat]
  PROVE  /\ Levels(C) \in SUBSET (Nat \ {0}) /\ Levels(C) \in SUBSET Int
         /\ IsFiniteSet(Levels(C))
         /\ \A p \in D : Contestable(C, p) \in Levels(C) \cup {0}
<1> DEFINE f == [p \in D |-> Contestable(C, p)]
<1>1. Levels(C) = {f[p] : p \in D} \ {0}
  BY DEF Levels
<1>2. IsFiniteSet({f[p] : p \in D})
  BY FiniteImage DEF AreSeats
<1>3. IsFiniteSet(Levels(C))
  BY <1>1, <1>2, FS_RemoveElement
<1>4. \A p \in D : Contestable(C, p) \in Nat
  BY ContestableFacts
<1> QED BY <1>1, <1>3, <1>4

(* The level below a level is the next lower one, or 0. *)
LEMMA PreviousFacts ==
  ASSUME NEW D, AreSeats(D), NEW C \in [D -> Nat],
         NEW l \in Levels(C)
  PROVE  /\ PreviousLevel(C, l) \in Levels(C) \cup {0}
         /\ PreviousLevel(C, l) \in Nat /\ PreviousLevel(C, l) < l
         /\ \A m \in Levels(C) \cup {0} : m < l => m <= PreviousLevel(C, l)
<1> DEFINE lower == {m \in Levels(C) : m < l}
           S == {0} \cup lower
<1>1. Levels(C) \in SUBSET (Nat \ {0}) /\ IsFiniteSet(Levels(C))
  BY LevelsFacts
<1>2. IsFiniteSet(S)
  BY <1>1, FS_Subset, FS_Singleton, FS_Union
<1>3. S \in SUBSET Int /\ S # {}
  BY <1>1
<1>4. PreviousLevel(C, l) = Max(S)
  BY DEF PreviousLevel
<1> HIDE DEF S
<1>5. Max(S) \in S /\ \A y \in S : y <= Max(S)
  BY <1>2, <1>3, MaxOfFinite
<1> QED BY <1>1, <1>4, <1>5 DEF S

(* A band holds chips of somebody. *)
LEMMA BandFacts ==
  ASSUME NEW D, AreSeats(D), NEW C \in [D -> Nat],
         NEW l \in Levels(C)
  PROVE  /\ Contributors(C, l) \in SUBSET D
         /\ BandAmount(C, l) \in Nat
<1>1. Contributors(C, l) \in SUBSET D
  BY DEF Contributors
<1>2. Cardinality(Contributors(C, l)) \in Nat
  BY <1>1, FS_Subset, FS_CardinalityType DEF AreSeats
<1>3. l - PreviousLevel(C, l) \in Nat
  BY PreviousFacts, LevelsFacts
<1>4. \A a, b \in Nat : a * b \in Nat
  OBVIOUS
<1> QED BY <1>1, <1>2, <1>3, <1>4 DEF BandAmount

(* Both are amounts of chips. *)
LEMMA BandsType ==
  ASSUME NEW D, AreSeats(D), NEW C \in [D -> Nat]
  PROVE  Bands(C) \in [Levels(C) -> Nat] /\ Bands(C) \in [Levels(C) -> Int]
BY BandFacts DEF Bands

LEMMA CappedType ==
  ASSUME NEW D, AreSeats(D), NEW C \in [D -> Nat], NEW x \in Nat
  PROVE  Capped(C, x) \in [D -> Nat] /\ Capped(C, x) \in [D -> Int]
<1>1. \A p \in D : Contestable(C, p) \in Nat
  BY ContestableFacts
<1> QED BY <1>1 DEF Capped, Lesser

(* One band more: everybody who reaches it has its height more in it.      *)
LEMMA NextBand ==
  ASSUME NEW D, AreSeats(D), NEW C \in [D -> Nat],
         NEW l \in Levels(C)
  PROVE  SumFunction(Capped(C, l))
           = SumFunction(Capped(C, PreviousLevel(C, l))) + BandAmount(C, l)
<1> DEFINE m == PreviousLevel(C, l)
           W == Contributors(C, l)
           share == [p \in D |-> IF p \in W THEN l - m ELSE 0]
<1>1. /\ m \in Nat /\ l \in Nat /\ m < l
      /\ \A p \in D : Contestable(C, p) < l => Contestable(C, p) <= m
      /\ \A p \in D : Contestable(C, p) \in Nat
  BY PreviousFacts, LevelsFacts, ContestableFacts
<1>2. W \in SUBSET D /\ \A p \in D : p \in W <=> Contestable(C, p) >= l
  BY DEF Contributors
<1>3. BandAmount(C, l) = (l - m) * Cardinality(W)
  BY DEF BandAmount
<1> HIDE DEF m, W
<1>4. share \in [D -> Int]
  BY <1>1
<1>5. \A p \in D : Capped(C, l)[p] = Capped(C, m)[p] + share[p]
  <2> TAKE p \in D
  <2>1. /\ Capped(C, l)[p] = Lesser(Contestable(C, p), l)
        /\ Capped(C, m)[p] = Lesser(Contestable(C, p), m)
    BY DEF Capped
  <2>2. CASE p \in W
    BY <1>1, <1>2, <2>1, <2>2 DEF Lesser
  <2>3. CASE p \notin W
    BY <1>1, <1>2, <2>1, <2>3 DEF Lesser
  <2> QED BY <2>2, <2>3
<1>6. Capped(C, l) \in [D -> Int] /\ Capped(C, m) \in [D -> Int]
  BY <1>1, CappedType
<1>7. SumFunction(share) = (l - m) * Cardinality(W)
  <2>1. l - m \in Int
    BY <1>1
  <2> QED BY <1>2, <2>1, SumOfEqualShares DEF AreSeats
<1> HIDE DEF share
<1>8. SumFunction(Capped(C, l)) = SumFunction(Capped(C, m)) + SumFunction(share)
  <2>1. IsFiniteSet(D)
    BY DEF AreSeats
  <2> QED BY <1>4, <1>5, <1>6, <2>1, SumAdds
<1> QED BY <1>3, <1>7, <1>8 DEF m

(* The bands up to a level hold what every seat put in below it. *)
LEMMA BandsUpTo ==
  ASSUME NEW D, AreSeats(D), NEW C \in [D -> Nat],
         NEW x \in Levels(C) \cup {0}
  PROVE  SumFunctionOnSet(Bands(C), {l \in Levels(C) : l <= x})
           = SumFunction(Capped(C, x))
<1> DEFINE low(y) == {l \in Levels(C) : l <= y}
           Same(y) == SumFunctionOnSet(Bands(C), low(y)) = SumFunction(Capped(C, y))
           Good == {n \in Nat : \A y \in Levels(C) \cup {0} : y <= n => Same(y)}
<1>0. /\ Levels(C) \in SUBSET (Nat \ {0}) /\ Levels(C) \in SUBSET Int
      /\ IsFiniteSet(Levels(C)) /\ Bands(C) \in [Levels(C) -> Int]
  BY LevelsFacts, BandsType
<1>1. Same(0)
  <2>1. low(0) = {} /\ {} \in SUBSET Levels(C)
    BY <1>0
  <2>2. SumFunctionOnSet(Bands(C), {}) = 0
    BY <1>0, <2>1, SumOnSetRule
  <2>3. Capped(C, 0) \in [D -> Int] /\ \A p \in D : Capped(C, 0)[p] = 0
    BY CappedType, ContestableFacts DEF Capped, Lesser
  <2>4. SumFunction(Capped(C, 0)) = 0
    BY <2>3, SumOfZeros DEF AreSeats
  <2> QED BY <2>1, <2>2, <2>4
<1>2. 0 \in Good
  <2>1. \A y \in Levels(C) \cup {0} : y <= 0 => y = 0
    BY <1>0
  <2> HIDE DEF Same
  <2> QED BY <1>1, <2>1
<1>3. ASSUME NEW n \in Nat, n \in Good PROVE n + 1 \in Good
  <2> SUFFICES ASSUME NEW y \in Levels(C) \cup {0}, y <= n + 1 PROVE Same(y)
    BY <1>3
  <2>1. y \in Nat
    BY <1>0
  <2>2. CASE y <= n
    <3> HIDE DEF Same
    <3> QED BY <1>3, <2>2
  <2>3. CASE ~(y <= n)
    <3> DEFINE m == PreviousLevel(C, y)
    <3>1. y \in Levels(C) /\ y = n + 1
      BY <2>1, <2>3
    <3>2. /\ m \in Levels(C) \cup {0} /\ m \in Nat /\ m < y
          /\ \A k \in Levels(C) : k < y => k <= m
      BY <3>1, PreviousFacts
    <3> HIDE DEF m
    <3>3. low(y) \ {y} = low(m) /\ y \in low(y) /\ low(y) \in SUBSET Levels(C)
      BY <1>0, <3>1, <3>2
    <3>4. Same(m)
      <4> HIDE DEF Same
      <4> QED BY <1>3, <3>1, <3>2
    <3>5. SumFunctionOnSet(Bands(C), low(y))
            = Bands(C)[y] + SumFunctionOnSet(Bands(C), low(m))
      <4> HIDE DEF low
      <4> QED BY <1>0, <3>3, SumTakeOut
    <3>6. Bands(C)[y] = BandAmount(C, y) /\ BandAmount(C, y) \in Int
      BY <3>1, BandFacts DEF Bands
    <3>7. SumFunction(Capped(C, y)) = SumFunction(Capped(C, m)) + BandAmount(C, y)
      BY <3>1, NextBand DEF m
    <3>8. SumFunction(Capped(C, m)) \in Int
      BY <3>2, CappedType, SumIsInt DEF AreSeats
    <3> HIDE DEF low
    <3> QED BY <3>4, <3>5, <3>6, <3>7, <3>8
  <2> QED BY <2>2, <2>3
<1> HIDE DEF Good
<1>4. Nat \subseteq Good
  BY <1>2, <1>3, CountingInduction
<1>5. x \in Nat
  BY <1>0
<1>6. Same(x)
  <2> HIDE DEF Same
  <2> QED BY <1>4, <1>5 DEF Good
<1> QED BY <1>6

(* All the bands together hold all that can be contested. *)
LEMMA AllBands ==
  ASSUME NEW D, AreSeats(D), NEW C \in [D -> Nat]
  PROVE  SumFunction(Bands(C)) = SumFunction([p \in D |-> Contestable(C, p)])
<1> DEFINE all == [p \in D |-> Contestable(C, p)]
<1>0. /\ Levels(C) \in SUBSET (Nat \ {0}) /\ Levels(C) \in SUBSET Int
      /\ IsFiniteSet(Levels(C)) /\ Bands(C) \in [Levels(C) -> Int]
      /\ \A p \in D : Contestable(C, p) \in Levels(C) \cup {0}
  BY LevelsFacts, BandsType
<1>1. PICK x \in Levels(C) \cup {0} : \A l \in Levels(C) \cup {0} : l <= x
  <2>1. CASE Levels(C) = {}
    BY <2>1
  <2>2. CASE Levels(C) # {}
    <3>1. Max(Levels(C)) \in Levels(C) /\ \A y \in Levels(C) : y <= Max(Levels(C))
      BY <1>0, <2>2, MaxOfFinite
    <3> QED BY <1>0, <3>1
  <2> QED BY <2>1, <2>2
<1>2. SumFunctionOnSet(Bands(C), {l \in Levels(C) : l <= x}) = SumFunction(Capped(C, x))
  BY BandsUpTo
<1>3. {l \in Levels(C) : l <= x} = Levels(C)
  BY <1>1
<1>4. Capped(C, x) = all
  <2>1. \A p \in D : Lesser(Contestable(C, p), x) = Contestable(C, p)
    BY <1>0, <1>1 DEF Lesser
  <2> QED BY <2>1 DEF Capped
<1>5. SumFunction(Bands(C)) = SumFunctionOnSet(Bands(C), Levels(C))
  BY <1>0, SumOfDomain
<1> QED BY <1>2, <1>3, <1>4, <1>5

----------------------------------------------------------------------------
(***************************************************************************)
(* The split of one pot.                                                   *)
(***************************************************************************)
First(W, k) == {p \in W : Cardinality({q \in W : q < p}) < k}

(* Counted by how many come before, k winners are the first k. *)
LEMMA FirstAreThatMany ==
  ASSUME NEW W \in SUBSET Int, IsFiniteSet(W), NEW k \in 0..Cardinality(W)
  PROVE  Cardinality(First(W, k)) = k
<1> DEFINE Good == {T \in SUBSET W :
                      \A j \in 0..Cardinality(T) : Cardinality(First(T, j)) = j}
<1>1. ASSUME NEW T \in SUBSET W, \A U \in SUBSET T : U # T => U \in Good
      PROVE  T \in Good
  <2>0. IsFiniteSet(T) /\ Cardinality(T) \in Nat /\ T \in SUBSET Int
    BY FS_Subset, FS_CardinalityType
  <2> SUFFICES ASSUME NEW j \in 0..Cardinality(T) PROVE Cardinality(First(T, j)) = j
    OBVIOUS
  <2>1. CASE T = {}
    <3>1. Cardinality(T) = 0 /\ First(T, j) = {}
      BY <2>1, FS_EmptySet DEF First
    <3>2. j = 0
      BY <3>1
    <3> QED BY <3>1, <3>2, FS_EmptySet
  <2>2. CASE T # {}
    <3> DEFINE m == Max(T)
               R == T \ {m}
    <3>1. m \in T /\ \A y \in T : y <= m
      BY <2>0, <2>2, MaxOfFinite
    <3> HIDE DEF m
    <3>2. R \in SUBSET T /\ R # T /\ IsFiniteSet(R) /\ Cardinality(R) \in Nat
      BY <2>0, <3>1, FS_Subset, FS_CardinalityType
    <3>3. Cardinality(T) = Cardinality(R) + 1
      <4>1. Cardinality(R) = Cardinality(T) - 1
        BY <2>0, <3>1, FS_RemoveElement
      <4> QED BY <2>0, <4>1
    <3>4. \A i \in 0..Cardinality(R) : Cardinality(First(R, i)) = i
      BY <1>1, <3>2
    <3>5. \A p \in R : {q \in T : q < p} = {q \in R : q < p}
      <4> TAKE p \in R
      <4>1. ~(m < p)
        BY <2>0, <3>1
      <4> QED BY <4>1
    <3>6. {q \in T : q < m} = R
      <4>1. \A q \in T : q < m <=> q # m
        BY <2>0, <3>1
      <4> QED BY <4>1
    <3>7. \A p \in R : Cardinality({q \in R : q < p}) \in 0..Cardinality(R)
      <4> TAKE p \in R
      <4>1. {q \in R : q < p} \in SUBSET R
        OBVIOUS
      <4>2. /\ Cardinality({q \in R : q < p}) <= Cardinality(R)
            /\ Cardinality({q \in R : q < p}) \in Nat
        BY <3>2, <4>1, FS_Subset, FS_CardinalityType
      <4> QED BY <3>2, <4>2
    <3>8. CASE j <= Cardinality(R)
      <4>1. First(T, j) = First(R, j)
        <5>1. ~(Cardinality({q \in T : q < m}) < j)
          BY <3>2, <3>6, <3>8
        <5>2. \A p \in T : p \in R <=> p # m
          OBVIOUS
        <5>3. \A p \in R : Cardinality({q \in T : q < p}) = Cardinality({q \in R : q < p})
          BY <3>5
        <5> HIDE DEF R
        <5> QED BY <3>2, <5>1, <5>2, <5>3 DEF First
      <4> QED BY <3>2, <3>4, <3>8, <4>1
    <3>9. CASE ~(j <= Cardinality(R))
      <4>1. j = Cardinality(R) + 1
        BY <3>2, <3>3, <3>9
      <4>2. \A p \in T : Cardinality({q \in T : q < p}) < j
        <5> TAKE p \in T
        <5>1. CASE p = m
          BY <3>2, <3>6, <4>1, <5>1
        <5>2. CASE p # m
          BY <3>2, <3>5, <3>7, <4>1, <5>2
        <5> QED BY <5>1, <5>2
      <4>3. First(T, j) = T
        BY <4>2 DEF First
      <4> QED BY <3>3, <4>1, <4>3
    <3> QED BY <3>8, <3>9
  <2> QED BY <2>1, <2>2
<1> HIDE DEF Good
<1>2. W \in Good
  BY <1>1, SubsetInduction
<1> QED BY <1>2 DEF Good

(* A pot can be paid: there is somebody to pay it to. *)
Payable(pot, E) ==
  pot.amount \in Nat /\ pot.eligible \in SUBSET E /\ pot.eligible # {}

(* A pot has winners: somebody is eligible, and ranks have a maximum. *)
LEMMA WinnersFacts ==
  ASSUME NEW D, AreSeats(D), NEW E \in SUBSET D, NEW rank \in [E -> Int],
         NEW pot, Payable(pot, E)
  PROVE  /\ PotWinners(pot, rank) \in SUBSET pot.eligible
         /\ PotWinners(pot, rank) \in SUBSET D
         /\ IsFiniteSet(PotWinners(pot, rank))
         /\ Cardinality(PotWinners(pot, rank)) \in Nat \ {0}
<1> DEFINE W == PotWinners(pot, rank)
           els == pot.eligible
           ranks == {rank[q] : q \in els}
<1>1. els \in SUBSET E /\ els # {} /\ IsFiniteSet(els) /\ els \in SUBSET D
  <2>1. els \in SUBSET D /\ IsFiniteSet(D)
    BY DEF Payable, AreSeats
  <2> QED BY <2>1, FS_Subset DEF Payable
<1>2. ranks \in SUBSET Int /\ IsFiniteSet(ranks) /\ ranks # {}
  BY <1>1, FiniteImage
<1>3. W = {p \in els : \A q \in els : rank[q] <= rank[p]}
  BY DEF PotWinners
<1> HIDE DEF W, els
<1>4. PICK p \in els : rank[p] = Max(ranks) /\ \A q \in els : rank[q] <= Max(ranks)
  <2> DEFINE top == Max(ranks)
  <2>1. top \in ranks /\ \A y \in ranks : y <= top
    <3> HIDE DEF ranks
    <3> QED BY <1>2, MaxOfFinite
  <2> HIDE DEF top
  <2>2. \A q \in els : rank[q] <= top
    BY <2>1
  <2>3. \E x \in els : rank[x] = top
    BY <2>1
  <2> QED BY <2>2, <2>3 DEF top
<1> HIDE DEF ranks
<1>5. p \in W
  BY <1>3, <1>4
<1>6. W \in SUBSET els /\ W # {} /\ IsFiniteSet(W)
  BY <1>1, <1>3, <1>5, FS_Subset
<1>7. Cardinality(W) \in Nat /\ Cardinality(W) # 0
  BY <1>6, FS_CardinalityType, FS_EmptySet
<1> QED BY <1>1, <1>6, <1>7 DEF W, els

(* The shares of a pot are numbers of chips, and together they are the     *)
(* pot: no odd chip is lost or paid twice.                                 *)
LEMMA SharesAddUp ==
  ASSUME NEW D, AreSeats(D), NEW E \in SUBSET D, NEW rank \in [E -> Int],
         NEW pot, Payable(pot, E)
  PROVE  /\ \A p \in D : /\ Share(pot, rank, p) \in Nat
                         /\ Share(pot, rank, p) <= pot.amount
         /\ SumFunction([p \in D |-> Share(pot, rank, p)]) = pot.amount
<1> DEFINE W == PotWinners(pot, rank)
           n == Cardinality(W)
           a == pot.amount
           k == a % n
           each == a \div n
           equal == [p \in D |-> IF p \in W THEN each ELSE 0]
           odd == [p \in D |-> IF p \in First(W, k) THEN 1 ELSE 0]
           shares == [p \in D |-> Share(pot, rank, p)]
<1>1. /\ W \in SUBSET pot.eligible /\ W \in SUBSET D /\ IsFiniteSet(W)
      /\ n \in Nat \ {0} /\ a \in Nat
  BY WinnersFacts DEF Payable
<1>2. W \in SUBSET Int /\ IsFiniteSet(D)
  BY <1>1 DEF AreSeats
<1>3. ASSUME NEW p \in D
      PROVE  Share(pot, rank, p) =
               IF p \notin W THEN 0
               ELSE each + IF Cardinality({q \in W : q < p}) < k THEN 1 ELSE 0
  BY DEF Share
<1> HIDE DEF W, n, a
<1>4. each \in Nat /\ k \in Nat /\ k < n /\ a = each * n + k
  BY <1>1
<1> HIDE DEF each, k
<1>5. k \in 0..Cardinality(W) /\ Cardinality(First(W, k)) = k
  <2>1. k \in 0..Cardinality(W)
    BY <1>1, <1>4 DEF n
  <2> QED BY <1>1, <1>2, <2>1, FirstAreThatMany
<1>6. First(W, k) \in SUBSET W
  BY DEF First
<1>7. \A p \in D : shares[p] = equal[p] + odd[p]
  <2> TAKE p \in D
  <2>1. p \in First(W, k) <=> p \in W /\ Cardinality({q \in W : q < p}) < k
    BY DEF First
  <2>2. /\ shares[p] = Share(pot, rank, p)
        /\ equal[p] = IF p \in W THEN each ELSE 0
        /\ odd[p] = IF p \in First(W, k) THEN 1 ELSE 0
    OBVIOUS
  <2> DEFINE ahead == Cardinality({q \in W : q < p})
  <2>3. Share(pot, rank, p) = IF p \notin W THEN 0 ELSE each + IF ahead < k THEN 1 ELSE 0
    BY <1>3
  <2>4. p \in First(W, k) <=> p \in W /\ ahead < k
    BY <2>1
  <2> HIDE DEF ahead, shares, equal, odd
  <2> QED BY <1>4, <2>2, <2>3, <2>4
<1>8. /\ equal \in [D -> Nat] /\ odd \in [D -> Nat]
      /\ \A p \in D : p \notin W => equal[p] = 0 /\ odd[p] = 0
  BY <1>4, <1>6
<1>9. SumFunction(equal) = each * Cardinality(W)
  <2>1. each \in Int
    BY <1>4
  <2> QED BY <1>1, <1>2, <2>1, SumOfEqualShares
<1>10. SumFunction(odd) = k
  <2>1. 1 \in Int /\ First(W, k) \in SUBSET D
    BY <1>1, <1>6
  <2>2. SumFunction(odd) = 1 * Cardinality(First(W, k))
    <3> DEFINE F == First(W, k)
    <3>1. F \in SUBSET D
      BY <2>1
    <3> HIDE DEF F
    <3>2. SumFunction([p \in D |-> IF p \in F THEN 1 ELSE 0]) = 1 * Cardinality(F)
      BY <1>2, <2>1, <3>1, SumOfEqualShares
    <3> QED BY <3>2 DEF F
  <2> QED BY <1>4, <1>5, <2>2
<1> HIDE DEF equal, odd
<1>11. shares \in [D -> Nat] /\ \A p \in D : p \notin W => shares[p] = 0
  <2>1. \A p \in D : shares[p] \in Nat
    BY <1>7, <1>8
  <2>2. \A p \in D : p \notin W => shares[p] = 0
    BY <1>7, <1>8
  <2> QED BY <2>1, <2>2
<1>12. \A p \in D : shares[p] = Share(pot, rank, p)
  OBVIOUS
<1> HIDE DEF shares
<1>13. SumFunction(shares) = a
  <2>1. SumFunction(shares) = SumFunction(equal) + SumFunction(odd)
    <3>1. equal \in [D -> Int] /\ odd \in [D -> Int] /\ shares \in [D -> Int]
      BY <1>8, <1>11
    <3> QED BY <1>2, <1>7, <3>1, SumAdds
  <2> QED BY <1>4, <1>9, <1>10, <2>1 DEF n
<1>14. \A p \in D : shares[p] <= a
  BY <1>2, <1>11, <1>13, SumIsNat
<1> QED BY <1>1, <1>11, <1>12, <1>13, <1>14 DEF shares, a

(* Who is not eligible for a pot has no share of it. *)
LEMMA NoShare ==
  ASSUME NEW pot, NEW rank, NEW p, p \notin pot.eligible
  PROVE  Share(pot, rank, p) = 0
BY DEF Share, PotWinners

----------------------------------------------------------------------------
(***************************************************************************)
(* The pots.                                                               *)
(***************************************************************************)

(* The pot of a contested level, as Pots has it. *)
PotAt(C, E, l) ==
  [level |-> l,
   amount |-> BandAmount(C, l)
                + IF l = Max(ContestedLevels(C, E)) THEN DeadMoney(C, E) ELSE 0,
   eligible |-> Contributors(C, l) \cap E]

(* A player still in contests the level he reached. *)
LEMMA ContestedFacts ==
  ASSUME NEW D, AreSeats(D), NEW C \in [D -> Nat], NEW E \in SUBSET D
  PROVE  /\ ContestedLevels(C, E) \in SUBSET Levels(C)
         /\ ContestedLevels(C, E) \in SUBSET Int
         /\ IsFiniteSet(ContestedLevels(C, E))
         /\ \A p \in E : Contestable(C, p) # 0 => Contestable(C, p) \in ContestedLevels(C, E)
<1>1. ContestedLevels(C, E) \in SUBSET Levels(C)
  BY DEF ContestedLevels
<1>2. IsFiniteSet(Levels(C)) /\ Levels(C) \in SUBSET Int
  BY LevelsFacts
<1>3. IsFiniteSet(ContestedLevels(C, E))
  BY <1>1, <1>2, FS_Subset
<1>4. ASSUME NEW p \in E, Contestable(C, p) # 0
      PROVE  Contestable(C, p) \in ContestedLevels(C, E)
  <2>1. Contestable(C, p) \in Levels(C) /\ Contestable(C, p) \in Nat
    BY <1>4, LevelsFacts, ContestableFacts
  <2>2. p \in Contributors(C, Contestable(C, p))
    BY <2>1 DEF Contributors
  <2> QED BY <2>1, <2>2 DEF ContestedLevels
<1> QED BY <1>1, <1>2, <1>3, <1>4

(* The dead money is chips, and with the contested bands all the bands.    *)
LEMMA DeadMoneyFacts ==
  ASSUME NEW D, AreSeats(D), NEW C \in [D -> Nat], NEW E \in SUBSET D
  PROVE  /\ DeadMoney(C, E) \in Nat
         /\ SumFunction(Bands(C))
              = SumFunctionOnSet(Bands(C), ContestedLevels(C, E)) + DeadMoney(C, E)
<1> DEFINE L == Levels(C)
           K == ContestedLevels(C, E)
           rest == L \ K
<1>1. K \in SUBSET L /\ IsFiniteSet(L) /\ Bands(C) \in [L -> Nat] /\ Bands(C) \in [L -> Int]
  BY ContestedFacts, LevelsFacts, BandsType
<1>2. DeadMoney(C, E) = SumFunctionOnSet(Bands(C), rest)
  BY DEF DeadMoney, Bands
<1>3. rest \in SUBSET L /\ K \cap rest = {} /\ K \cup rest = L
  BY <1>1
<1> HIDE DEF L, K, rest
<1>4. SumFunctionOnSet(Bands(C), rest) \in Nat
  BY <1>1, <1>3, SumOnSetIsNat
<1>5. SumFunctionOnSet(Bands(C), L)
        = SumFunctionOnSet(Bands(C), K) + SumFunctionOnSet(Bands(C), rest)
  BY <1>1, <1>3, SumOfUnion
<1>6. SumFunction(Bands(C)) = SumFunctionOnSet(Bands(C), L)
  BY <1>1, SumOfDomain
<1> QED BY <1>2, <1>4, <1>5, <1>6 DEF K

(* With a contested level there is a pot for each. *)
LEMMA PotsOfLevels ==
  ASSUME NEW D, AreSeats(D), NEW C \in [D -> Nat], NEW E \in SUBSET D,
         ContestedLevels(C, E) # {}
  PROVE  /\ Pots(C, E) = {PotAt(C, E, l) : l \in ContestedLevels(C, E)}
         /\ IsFiniteSet(Pots(C, E))
         /\ \A pot \in Pots(C, E) : Payable(pot, E)
         /\ \A g \in [Pots(C, E) -> Int] :
              SumFunction(g) = SumFunction([l \in ContestedLevels(C, E) |-> g[PotAt(C, E, l)]])
<1> DEFINE K == ContestedLevels(C, E)
           P == Pots(C, E)
           name == [l \in K |-> PotAt(C, E, l)]
<1>1. P = {PotAt(C, E, l) : l \in K}
  BY DEF Pots, PotAt
<1>2. P = {name[l] : l \in K}
  BY <1>1
<1>3. K \in SUBSET Levels(C) /\ IsFiniteSet(K)
  BY ContestedFacts
<1>4. IsFiniteSet(P)
  <2> HIDE DEF name, P
  <2> QED BY <1>2, <1>3, FiniteImage
<1>5. ASSUME NEW pot \in P PROVE Payable(pot, E)
  <2>1. PICK l \in K : pot = PotAt(C, E, l)
    BY <1>1
  <2>2. BandAmount(C, l) \in Nat /\ DeadMoney(C, E) \in Nat
    BY <1>3, BandFacts, DeadMoneyFacts
  <2>3. Contributors(C, l) \cap E # {}
    BY DEF ContestedLevels
  <2> HIDE DEF K
  <2> QED BY <2>1, <2>2, <2>3 DEF PotAt, Payable
<1>6. \A k, l \in K : name[k] = name[l] => k = l
  <2>1. \A l \in K : name[l].level = l
    BY DEF PotAt
  <2> HIDE DEF name
  <2> QED BY <2>1
<1>7. name \in [K -> P] /\ \A z \in P : \E l \in K : name[l] = z
  BY <1>1
<1>8. ASSUME NEW g \in [P -> Int]
      PROVE  SumFunction(g) = SumFunction([l \in K |-> g[PotAt(C, E, l)]])
  <2>1. [l \in K |-> g[name[l]]] = [l \in K |-> g[PotAt(C, E, l)]]
    OBVIOUS
  <2> HIDE DEF K, P, name
  <2>2. SumFunction(g) = SumFunction([l \in K |-> g[name[l]]])
    BY <1>3, <1>4, <1>6, <1>7, SumRenamed
  <2> QED BY <2>1, <2>2
<1> QED BY <1>1, <1>4, <1>5, <1>8

(* Without one there is a single pot, for everybody still in. *)
LEMMA PotOfDeadMoney ==
  ASSUME NEW D, AreSeats(D), NEW C \in [D -> Nat], NEW E \in SUBSET D, E # {},
         ContestedLevels(C, E) = {}
  PROVE  LET pot == [level |-> 0, amount |-> DeadMoney(C, E), eligible |-> E]
         IN  /\ Pots(C, E) = {pot} /\ IsFiniteSet({pot}) /\ Payable(pot, E)
             /\ \A g \in [{pot} -> Int] : SumFunction(g) = g[pot]
             /\ pot.amount = SumFunction(Bands(C))
<1> DEFINE pot == [level |-> 0, amount |-> DeadMoney(C, E), eligible |-> E]
<1>1. Pots(C, E) = {pot}
  BY DEF Pots
<1>2. Payable(pot, E) /\ pot.amount = DeadMoney(C, E)
  BY DeadMoneyFacts DEF Payable
<1> HIDE DEF pot
<1>3. IsFiniteSet({pot})
  BY FS_Singleton
<1>4. ASSUME NEW g \in [{pot} -> Int] PROVE SumFunction(g) = g[pot]
  <2>1. SumFunction(g) = SumFunctionOnSet(g, {pot})
    BY SumOfDomain
  <2>2. SumFunctionOnSet(g, {pot}) = g[pot] + SumFunctionOnSet(g, {pot} \ {pot})
    BY <1>3, SumTakeOut
  <2>3. {pot} \ {pot} = {} /\ {} \in SUBSET {pot}
    OBVIOUS
  <2>4. SumFunctionOnSet(g, {}) = 0
    BY <1>3, <2>3, SumOnSetRule
  <2>5. g[pot] \in Int
    OBVIOUS
  <2> QED BY <2>1, <2>2, <2>3, <2>4, <2>5
<1>5. pot.amount = SumFunction(Bands(C))
  <2>1. /\ Levels(C) \in SUBSET Levels(C) /\ {} \in SUBSET Levels(C)
        /\ IsFiniteSet(Levels(C)) /\ Bands(C) \in [Levels(C) -> Int]
    BY LevelsFacts, BandsType
  <2>2. SumFunctionOnSet(Bands(C), {}) = 0
    BY <2>1, SumOnSetRule
  <2>3. SumFunction(Bands(C)) = 0 + DeadMoney(C, E) /\ DeadMoney(C, E) \in Nat
    BY <2>2, DeadMoneyFacts
  <2> QED BY <1>2, <2>3
<1> QED BY <1>1, <1>2, <1>3, <1>4, <1>5 DEF pot

(* The amounts of the pots are the bands. *)
LEMMA PotsAddUp ==
  ASSUME NEW D, AreSeats(D), NEW C \in [D -> Nat], NEW E \in SUBSET D, E # {}
  PROVE  /\ IsFiniteSet(Pots(C, E)) /\ \A pot \in Pots(C, E) : Payable(pot, E)
         /\ SumFunction([pot \in Pots(C, E) |-> pot.amount]) = SumFunction(Bands(C))
<1> DEFINE K == ContestedLevels(C, E)
           P == Pots(C, E)
           amounts == [pot \in P |-> pot.amount]
<1>1. CASE K = {}
  <2>1. PICK pot : /\ P = {pot} /\ IsFiniteSet({pot}) /\ Payable(pot, E)
                   /\ \A g \in [{pot} -> Int] : SumFunction(g) = g[pot]
                   /\ pot.amount = SumFunction(Bands(C))
    BY <1>1, PotOfDeadMoney
  <2>2. pot.amount \in Int
    BY <2>1 DEF Payable
  <2>3. amounts \in [{pot} -> Int] /\ amounts[pot] = pot.amount
    BY <2>1, <2>2
  <2> HIDE DEF amounts, P
  <2>4. SumFunction(amounts) = pot.amount
    BY <2>1, <2>3
  <2> QED BY <2>1, <2>4 DEF amounts, P
<1>2. CASE K # {}
  <2> DEFINE top == Max(K)
             dead == DeadMoney(C, E)
             b == [l \in K |-> Bands(C)[l]]
             d == [l \in K |-> IF l \in {top} THEN dead ELSE 0]
             both == [l \in K |-> amounts[PotAt(C, E, l)]]
  <2>1. /\ P = {PotAt(C, E, l) : l \in K} /\ IsFiniteSet(P)
        /\ \A pot \in P : Payable(pot, E)
        /\ \A g \in [P -> Int] : SumFunction(g) = SumFunction([l \in K |-> g[PotAt(C, E, l)]])
    BY <1>2, PotsOfLevels
  <2>2. amounts \in [P -> Int]
    BY <2>1 DEF Payable
  <2>3. SumFunction(amounts) = SumFunction(both)
    <3> HIDE DEF amounts, P, K
    <3> QED BY <2>1, <2>2
  <2>4. K \in SUBSET Levels(C) /\ K \in SUBSET Int /\ IsFiniteSet(K)
    BY ContestedFacts
  <2>5. Bands(C) \in [Levels(C) -> Int] /\ IsFiniteSet(Levels(C))
    BY BandsType, LevelsFacts
  <2>6. top \in K
    <3> HIDE DEF K
    <3> QED BY <1>2, <2>4, MaxOfFinite
  <2>7. dead \in Nat /\ SumFunction(Bands(C)) = SumFunctionOnSet(Bands(C), K) + dead
    BY DeadMoneyFacts
  <2>8. b \in [K -> Int] /\ d \in [K -> Int]
    BY <2>4, <2>5, <2>7
  <2>9. \A l \in K : both[l] = b[l] + d[l]
    <3> TAKE l \in K
    <3>1. PotAt(C, E, l) \in P /\ both[l] = PotAt(C, E, l).amount
      BY <2>1
    <3>2. PotAt(C, E, l).amount = BandAmount(C, l) + IF l = top THEN dead ELSE 0
      BY DEF PotAt
    <3>3. b[l] = BandAmount(C, l) /\ d[l] = IF l = top THEN dead ELSE 0
      BY <2>4 DEF Bands
    <3> QED BY <3>1, <3>2, <3>3
  <2>10. SumFunction(b) = SumFunctionOnSet(Bands(C), K)
    <3> HIDE DEF K
    <3> QED BY <2>4, <2>5, SumRestricted
  <2>11. SumFunction(d) = dead
    <3>1. {top} \in SUBSET K /\ dead \in Int
      BY <2>6, <2>7
    <3>2. Cardinality({top}) = 1
      BY FS_Singleton
    <3> HIDE DEF K, dead, top
    <3>3. SumFunction(d) = dead * Cardinality({top})
      <4> DEFINE T == {top}
      <4>1. T \in SUBSET K
        BY <3>1
      <4> HIDE DEF T
      <4>2. SumFunction([l \in K |-> IF l \in T THEN dead ELSE 0]) = dead * Cardinality(T)
        BY <2>4, <3>1, <4>1, SumOfEqualShares
      <4> QED BY <4>2 DEF T
    <3> QED BY <3>1, <3>2, <3>3
  <2>12. both \in [K -> Int]
    <3>1. \A l \in K : both[l] \in Int
      <4> HIDE DEF b, d, both, K
      <4> QED BY <2>8, <2>9
    <3> QED BY <3>1
  <2>13. SumFunction(both) = SumFunction(b) + SumFunction(d)
    <3>1. IsFiniteSet(K)
      BY <2>4
    <3> HIDE DEF b, d, both, K, top
    <3> QED BY <2>8, <2>9, <2>12, <3>1, SumAdds
  <2> QED BY <2>1, <2>3, <2>7, <2>10, <2>11, <2>13
<1> QED BY <1>1, <1>2

----------------------------------------------------------------------------
(***************************************************************************)
(* The awards.                                                             *)
(***************************************************************************)

(* Every award is a number of chips, and the awards are the chips put in.  *)
THEOREM AwardsAddUp ==
  ASSUME NEW D, AreSeats(D), NEW C \in [D -> Nat], NEW E \in SUBSET D, E # {},
         NEW rank \in [E -> Int]
  PROVE  /\ AwardPots(C, E, rank) \in [D -> Nat]
         /\ SumFunction(AwardPots(C, E, rank)) = SumFunction(C)
<1> DEFINE P == Pots(C, E)
           F == [p \in D |-> [pot \in P |-> Share(pot, rank, p)]]
           won == [p \in D |-> SumFunction(F[p])]
           back == [p \in D |-> UncalledReturn(C, p)]
           all == [p \in D |-> Contestable(C, p)]
           A == AwardPots(C, E, rank)
<1>0. IsFiniteSet(D)
  BY DEF AreSeats
<1>1. /\ IsFiniteSet(P) /\ \A pot \in P : Payable(pot, E)
      /\ SumFunction([pot \in P |-> pot.amount]) = SumFunction(Bands(C))
  BY PotsAddUp
<1>2. ASSUME NEW pot \in P
      PROVE  /\ \A p \in D : Share(pot, rank, p) \in Nat
             /\ SumFunction([p \in D |-> Share(pot, rank, p)]) = pot.amount
  <2>1. Payable(pot, E)
    BY <1>1
  <2> HIDE DEF P
  <2> QED BY <2>1, SharesAddUp
<1>3. F \in [D -> [P -> Nat]] /\ F \in [D -> [P -> Int]]
  <2>1. \A p \in D, pot \in P : Share(pot, rank, p) \in Nat
    BY <1>2
  <2> HIDE DEF P
  <2> QED BY <2>1
<1>4. won \in [D -> Nat]
  <2>1. ASSUME NEW p \in D PROVE SumFunction(F[p]) \in Nat
    <3>1. F[p] \in [P -> Nat]
      BY <1>3
    <3> HIDE DEF F, P
    <3> QED BY <1>1, <3>1, SumIsNat
  <2> HIDE DEF F
  <2> QED BY <2>1
<1>5. SumFunction(won) = SumFunction(Bands(C))
  <2>1. SumFunction(won) = SumFunction([pot \in P |-> SumFunction([p \in D |-> F[p][pot]])])
    <3>1. IsFiniteSet(P)
      BY <1>1
    <3>2. F \in [D -> [P -> Int]]
      BY <1>3
    <3> HIDE DEF F, P
    <3> QED BY <1>0, <3>1, <3>2, SumExchange
  <2>2. \A pot \in P : [p \in D |-> F[p][pot]] = [p \in D |-> Share(pot, rank, p)]
    <3> HIDE DEF P
    <3> QED OBVIOUS
  <2>3. [pot \in P |-> SumFunction([p \in D |-> F[p][pot]])] = [pot \in P |-> pot.amount]
    <3>1. \A pot \in P : SumFunction([p \in D |-> F[p][pot]]) = pot.amount
      <4> HIDE DEF P, F
      <4> QED BY <1>2, <2>2
    <3> HIDE DEF P, F
    <3> QED BY <3>1
  <2> QED BY <1>1, <2>1, <2>3
<1>6. /\ back \in [D -> Nat] /\ all \in [D -> Nat]
      /\ \A p \in D : C[p] = all[p] + back[p]
  <2>1. \A p \in D : /\ Contestable(C, p) \in Nat /\ UncalledReturn(C, p) \in Nat
                     /\ C[p] = Contestable(C, p) + UncalledReturn(C, p)
    <3> TAKE p \in D
    <3>1. Contestable(C, p) \in Nat /\ Contestable(C, p) <= C[p] /\ C[p] \in Nat
      BY ContestableFacts
    <3> QED BY <3>1 DEF UncalledReturn
  <2> QED BY <2>1
<1>7. A = [p \in D |-> back[p] + won[p]]
  <2>1. A = [p \in D |-> UncalledReturn(C, p) + SumFunction([pot \in P |-> Share(pot, rank, p)])]
    BY DEF AwardPots
  <2>2. \A p \in D : UncalledReturn(C, p) + SumFunction([pot \in P |-> Share(pot, rank, p)])
                       = back[p] + won[p]
    <3> HIDE DEF P
    <3> QED OBVIOUS
  <2> HIDE DEF A, back, won
  <2> QED BY <2>1, <2>2
<1>8. SumFunction(all) = SumFunction(Bands(C))
  BY AllBands
<1> HIDE DEF A, back, won, all, F, P
<1>9. A \in [D -> Nat] /\ \A p \in D : A[p] = back[p] + won[p]
  BY <1>4, <1>6, <1>7
<1>10. /\ A \in [D -> Int] /\ back \in [D -> Int] /\ won \in [D -> Int]
       /\ all \in [D -> Int] /\ C \in [D -> Int]
  BY <1>4, <1>6, <1>9
<1>11. SumFunction(A) = SumFunction(back) + SumFunction(won)
  BY <1>0, <1>9, <1>10, SumAdds
<1>12. SumFunction(C) = SumFunction(all) + SumFunction(back)
  BY <1>0, <1>6, <1>10, SumAdds
<1>13. SumFunction(back) \in Int /\ SumFunction(won) \in Int
  BY <1>0, <1>10, SumIsInt
<1> QED BY <1>5, <1>8, <1>9, <1>11, <1>12, <1>13 DEF A

(* What p can claim of the pots a seat is in for: as much as it, if it     *)
(* stayed in, and all it left, if it folded.                               *)
Claim(C, E, p) ==
  [q \in DOMAIN C |-> IF q \in E THEN Lesser(C[p], C[q]) ELSE C[q]]

(* Below what p contested: the most his pots can hold. *)
Below(C, E, p) == [Claim(C, E, p) EXCEPT ![p] = Contestable(C, p)]

(* The pots p is eligible for hold no more than that. *)
LEMMA EligiblePots ==
  ASSUME NEW D, AreSeats(D), NEW C \in [D -> Nat], NEW E \in SUBSET D, NEW p \in E
  PROVE  SumFunction([pot \in Pots(C, E) |-> IF p \in pot.eligible THEN pot.amount ELSE 0])
           <= SumFunction(Below(C, E, p))
<1> DEFINE K == ContestedLevels(C, E)
           P == Pots(C, E)
           open == [pot \in P |-> IF p \in pot.eligible THEN pot.amount ELSE 0]
           amounts == [pot \in P |-> pot.amount]
           all == [q \in D |-> Contestable(C, q)]
           below == Below(C, E, p)
           x == Contestable(C, p)
<1>0. IsFiniteSet(D) /\ E # {} /\ p \in D
  BY DEF AreSeats
<1>1. /\ IsFiniteSet(P) /\ \A pot \in P : Payable(pot, E)
      /\ SumFunction(amounts) = SumFunction(Bands(C))
  BY <1>0, PotsAddUp
<1>2. \A q \in D : /\ Contestable(C, q) \in Nat /\ C[q] \in Nat
                   /\ Contestable(C, q) <= C[q]
  BY ContestableFacts
<1>3. \A q \in D : below[q] = IF q = p THEN x
                              ELSE IF q \in E THEN Lesser(C[p], C[q]) ELSE C[q]
  BY <1>0 DEF Below, Claim
<1>4. below \in [D -> Int]
  <2>1. \A q \in D : below[q] \in Int
    <3> HIDE DEF below
    <3> QED BY <1>0, <1>2, <1>3 DEF Lesser
  <2>2. below = [q \in D |-> below[q]]
    BY DEF Below, Claim
  <2> HIDE DEF below
  <2> QED BY <2>1, <2>2
<1>5. open \in [P -> Int] /\ amounts \in [P -> Int] /\ \A pot \in P : open[pot] <= amounts[pot]
  BY <1>1 DEF Payable
<1> HIDE DEF below, x
<1>6. ASSUME \A q \in E : Contestable(C, q) <= C[p]
      PROVE  SumFunction(open) <= SumFunction(below)
  <2>1. SumFunction(open) <= SumFunction(amounts)
    <3> HIDE DEF open, amounts, P
    <3> QED BY <1>1, <1>5, SumMonotone
  <2>2. SumFunction(amounts) = SumFunction(all)
    BY <1>1, AllBands
  <2>3. all \in [D -> Int] /\ \A q \in D : all[q] <= below[q]
    <3>1. all \in [D -> Int] /\ \A q \in D : all[q] = Contestable(C, q)
      BY <1>2
    <3> HIDE DEF all
    <3>2. ASSUME NEW q \in D PROVE Contestable(C, q) <= below[q]
      <4>1. CASE q = p
        BY <1>2, <1>3, <4>1 DEF x
      <4>2. CASE q # p /\ q \in E
        <5>1. below[q] = Lesser(C[p], C[q])
          BY <1>3, <4>2
        <5> QED BY <1>0, <1>2, <1>6, <4>2, <5>1 DEF Lesser
      <4>3. CASE q # p /\ q \notin E
        BY <1>2, <1>3, <4>3
      <4> QED BY <4>1, <4>2, <4>3
    <3> QED BY <3>1, <3>2
  <2>4. SumFunction(all) <= SumFunction(below)
    <3> HIDE DEF all
    <3> QED BY <1>0, <1>4, <2>3, SumMonotone
  <2>5. SumFunction(open) \in Int /\ SumFunction(all) \in Int /\ SumFunction(below) \in Int
    <3> HIDE DEF all, open, P
    <3> QED BY <1>0, <1>1, <1>4, <1>5, <2>3, SumIsInt
  <2> HIDE DEF all, open, amounts
  <2> QED BY <2>1, <2>2, <2>4, <2>5
<1>7. CASE K = {}
  <2>1. \A q \in E : Contestable(C, q) = 0
    BY <1>7, ContestedFacts
  <2>2. \A q \in E : Contestable(C, q) <= C[p]
    BY <1>0, <1>2, <2>1
  <2> QED BY <1>6, <2>2 DEF below
<1>8. CASE K # {}
  <2> DEFINE top == Max(K)
             capped == Capped(C, x)
             low == {l \in Levels(C) : l <= x}
             cut == [l \in Levels(C) |-> IF l \in low THEN Bands(C)[l] ELSE 0]
             mine == [l \in K |-> open[PotAt(C, E, l)]]
             cutK == [l \in K |-> cut[l]]
  <2>1. /\ K \in SUBSET Levels(C) /\ IsFiniteSet(K) /\ K \in SUBSET Int
        /\ Levels(C) \in SUBSET (Nat \ {0}) /\ IsFiniteSet(Levels(C))
        /\ Bands(C) \in [Levels(C) -> Nat] /\ Bands(C) \in [Levels(C) -> Int]
        /\ x \in Levels(C) \cup {0} /\ x \in Nat
    BY <1>0, <1>2, ContestedFacts, LevelsFacts, BandsType DEF x
  <2>2. top \in K /\ \A l \in K : l <= top
    <3> HIDE DEF K
    <3> QED BY <1>8, <2>1, MaxOfFinite
  <2> HIDE DEF top
  <2>3. CASE top <= x
    <3>1. \A q \in E : Contestable(C, q) <= C[p]
      <4> TAKE q \in E
      <4>1. Contestable(C, q) = 0 \/ Contestable(C, q) \in K
        BY ContestedFacts
      <4>2. x <= C[p] /\ x \in Nat /\ C[p] \in Nat /\ top \in Int
        BY <1>0, <1>2, <2>1, <2>2 DEF x
      <4>3. Contestable(C, q) \in Nat
        BY <1>2
      <4>4. Contestable(C, q) <= top \/ Contestable(C, q) = 0
        BY <2>2, <4>1
      <4> QED BY <2>3, <4>2, <4>3, <4>4
    <3> QED BY <1>6, <3>1 DEF below
  <2>4. CASE ~(top <= x)
    <3>1. SumFunction(open) = SumFunction(mine)
      <4>1. \A g \in [P -> Int] :
               SumFunction(g) = SumFunction([l \in K |-> g[PotAt(C, E, l)]])
        BY <1>8, PotsOfLevels
      <4> HIDE DEF open, K, P
      <4> QED BY <1>5, <4>1
    <3>2. ASSUME NEW l \in K PROVE mine[l] = cut[l]
      <4>1. /\ l \in Levels(C) /\ l \in Nat
            /\ p \in Contributors(C, l) <=> x >= l
        BY <1>0, <2>1 DEF Contributors, x
      <4>2. PotAt(C, E, l) \in P
        BY <1>8, PotsOfLevels
      <4>3. mine[l] = IF p \in PotAt(C, E, l).eligible THEN PotAt(C, E, l).amount ELSE 0
        BY <4>2
      <4>4. /\ PotAt(C, E, l).eligible = Contributors(C, l) \cap E
            /\ l # top => PotAt(C, E, l).amount = BandAmount(C, l) + 0
        BY DEF PotAt, top
      <4>5. cut[l] = IF l <= x THEN BandAmount(C, l) ELSE 0
        BY <4>1 DEF Bands
      <4>6. BandAmount(C, l) \in Nat
        BY <4>1, BandFacts
      <4> HIDE DEF mine, cut
      <4> QED BY <2>1, <2>4, <4>1, <4>3, <4>4, <4>5, <4>6
    <3>3. mine = cutK
      <4> HIDE DEF cut, open, K
      <4> QED BY <3>2
    <3>4. cut \in [Levels(C) -> Nat] /\ cut \in [Levels(C) -> Int]
      BY <2>1
    <3>5. SumFunction(cutK) = SumFunctionOnSet(cut, K)
      <4> DEFINE L == Levels(C)
      <4>1. IsFiniteSet(L) /\ K \in SUBSET L /\ cut \in [L -> Int]
        BY <2>1, <3>4
      <4> HIDE DEF cut, K, L
      <4> QED BY <4>1, SumRestricted
    <3>6. SumFunctionOnSet(cut, K) <= SumFunction(cut)
      <4> DEFINE L == Levels(C)
                 rest == L \ K
      <4>1. /\ rest \in SUBSET L /\ K \in SUBSET L /\ K \cap rest = {} /\ K \cup rest = L
            /\ IsFiniteSet(L) /\ cut \in [L -> Nat] /\ cut \in [L -> Int]
        BY <2>1, <3>4
      <4> HIDE DEF cut, K, L, rest
      <4>2. SumFunctionOnSet(cut, L) = SumFunctionOnSet(cut, K) + SumFunctionOnSet(cut, rest)
        BY <4>1, SumOfUnion
      <4>3. SumFunctionOnSet(cut, rest) \in Nat /\ SumFunctionOnSet(cut, K) \in Nat
        BY <4>1, SumOnSetIsNat
      <4>4. SumFunction(cut) = SumFunctionOnSet(cut, L)
        BY <4>1, SumOfDomain
      <4> QED BY <4>2, <4>3, <4>4
    <3>7. SumFunction(cut) = SumFunctionOnSet(Bands(C), low)
      <4> DEFINE L == Levels(C)
                 B == Bands(C)
      <4>1. low \in SUBSET L /\ IsFiniteSet(L) /\ B \in [L -> Int]
        BY <2>1
      <4> HIDE DEF low, L, B
      <4>2. SumFunctionOnSet(B, low) = SumFunction([l \in L |-> IF l \in low THEN B[l] ELSE 0])
        BY <4>1, SumAsZeros
      <4> QED BY <4>2 DEF L, B
    <3>8. SumFunctionOnSet(Bands(C), low) = SumFunction(capped)
      BY <2>1, BandsUpTo
    <3>9. capped \in [D -> Int] /\ \A q \in D : capped[q] <= below[q]
      <4>1. capped \in [D -> Int] /\ \A q \in D : capped[q] = Lesser(Contestable(C, q), x)
        BY <2>1, CappedType DEF Capped
      <4> HIDE DEF capped
      <4>2. x <= C[p] /\ x = Contestable(C, p) /\ x \in Nat /\ C[p] \in Nat
        BY <1>0, <1>2 DEF x
      <4>3. ASSUME NEW q \in D PROVE capped[q] <= below[q]
        <5>1. /\ Contestable(C, q) \in Nat /\ C[q] \in Nat /\ Contestable(C, q) <= C[q]
              /\ capped[q] = Lesser(Contestable(C, q), x)
          BY <1>2, <4>1
        <5>2. below[q] = IF q = p THEN x
                         ELSE IF q \in E THEN Lesser(C[p], C[q]) ELSE C[q]
          BY <1>3
        <5> QED BY <4>2, <5>1, <5>2 DEF Lesser
      <4> QED BY <4>1, <4>3
    <3>10. SumFunction(capped) <= SumFunction(below)
      <4> HIDE DEF capped
      <4> QED BY <1>0, <1>4, <3>9, SumMonotone
    <3>11. /\ SumFunction(capped) \in Int /\ SumFunction(below) \in Int
           /\ SumFunction(cut) \in Int /\ SumFunctionOnSet(cut, K) \in Int
      <4>1. SumFunction(cut) \in Int
        <5> HIDE DEF cut
        <5> QED BY <2>1, <3>4, SumIsInt
      <4>2. SumFunctionOnSet(cut, K) \in Int
        <5> HIDE DEF cut, K
        <5> QED BY <2>1, <3>4, SumOnSetRule
      <4> HIDE DEF capped
      <4> QED BY <1>0, <1>4, <3>9, <4>1, <4>2, SumIsInt
    <3> HIDE DEF mine, cutK, cut, low, capped, K
    <3>12. SumFunction(open) <= SumFunction(below)
      <4> HIDE DEF open
      <4> QED BY <3>1, <3>3, <3>5, <3>6, <3>7, <3>8, <3>10, <3>11
    <3> QED BY <3>12 DEF below
  <2> QED BY <2>3, <2>4
<1> QED BY <1>7, <1>8 DEF below

(* Who folded gets back what nobody called of his bet, and no pot.         *)
LEMMA FoldedGetBack ==
  ASSUME NEW D, AreSeats(D), NEW C \in [D -> Nat], NEW E \in SUBSET D, E # {},
         NEW rank \in [E -> Int], NEW p \in D \ E
  PROVE  AwardPots(C, E, rank)[p] <= C[p]
<1> DEFINE P == Pots(C, E)
           mine == [pot \in P |-> Share(pot, rank, p)]
<1>1. IsFiniteSet(P) /\ \A pot \in P : Payable(pot, E)
  BY PotsAddUp
<1>2. \A pot \in P : p \notin pot.eligible
  BY <1>1 DEF Payable
<1>3. \A pot \in P : Share(pot, rank, p) = 0
  BY <1>2, NoShare
<1>4. mine \in [P -> Int] /\ \A pot \in P : mine[pot] = 0
  BY <1>3
<1>5. AwardPots(C, E, rank)[p] = UncalledReturn(C, p) + SumFunction(mine)
  BY DEF AwardPots
<1> HIDE DEF P, mine
<1>6. SumFunction(mine) = 0
  BY <1>1, <1>4, SumOfZeros
<1>7. Contestable(C, p) \in Nat /\ C[p] \in Nat
  BY ContestableFacts
<1> QED BY <1>5, <1>6, <1>7 DEF UncalledReturn

(* Nobody is paid more than he can claim. *)
THEOREM AwardBounded ==
  ASSUME NEW D, AreSeats(D), NEW C \in [D -> Nat], NEW E \in SUBSET D, NEW p \in E,
         NEW rank \in [E -> Int]
  PROVE  AwardPots(C, E, rank)[p] <= SumFunction(Claim(C, E, p))
<1> DEFINE P == Pots(C, E)
           open == [pot \in P |-> IF p \in pot.eligible THEN pot.amount ELSE 0]
           mine == [pot \in P |-> Share(pot, rank, p)]
           claim == Claim(C, E, p)
<1>0. IsFiniteSet(D) /\ E # {} /\ p \in D
  BY DEF AreSeats
<1>1. IsFiniteSet(P) /\ \A pot \in P : Payable(pot, E)
  BY <1>0, PotsAddUp
<1>2. ASSUME NEW pot \in P
      PROVE  /\ pot.amount \in Nat /\ Share(pot, rank, p) \in Nat
             /\ Share(pot, rank, p) <= pot.amount
             /\ p \notin pot.eligible => Share(pot, rank, p) = 0
  <2>1. Payable(pot, E)
    BY <1>1
  <2> HIDE DEF P
  <2>2. p \notin pot.eligible => Share(pot, rank, p) = 0
    BY NoShare
  <2>3. Share(pot, rank, p) \in Nat /\ Share(pot, rank, p) <= pot.amount
    BY <1>0, <2>1, SharesAddUp
  <2> QED BY <2>1, <2>2, <2>3 DEF Payable
<1>3. open \in [P -> Int] /\ mine \in [P -> Int] /\ \A pot \in P : mine[pot] <= open[pot]
  <2> HIDE DEF P
  <2> QED BY <1>2
<1>4. SumFunction(mine) <= SumFunction(open)
  <2> HIDE DEF P, open, mine
  <2> QED BY <1>1, <1>3, SumMonotone
<1>5. SumFunction(open) <= SumFunction(Below(C, E, p))
  BY EligiblePots
<1>6. AwardPots(C, E, rank)[p] = UncalledReturn(C, p) + SumFunction(mine)
  BY <1>0 DEF AwardPots
<1>7. claim \in [D -> Int] /\ claim[p] = C[p]
  <2>1. \A q \in D : C[q] \in Nat /\ Lesser(C[p], C[q]) \in Nat
    BY <1>0 DEF Lesser
  <2>2. Lesser(C[p], C[p]) = C[p]
    BY DEF Lesser
  <2> QED BY <1>0, <2>1, <2>2 DEF Claim
<1>8. Contestable(C, p) \in Int /\ C[p] \in Int
  BY <1>0, ContestableFacts
<1>9. SumFunction(Below(C, E, p)) = SumFunction(claim) - C[p] + Contestable(C, p)
  <2>1. Below(C, E, p) = [claim EXCEPT ![p] = Contestable(C, p)]
    BY DEF Below
  <2> HIDE DEF claim
  <2>2. SumFunction([claim EXCEPT ![p] = Contestable(C, p)])
          = SumFunction(claim) - claim[p] + Contestable(C, p)
    BY <1>0, <1>7, <1>8, SumUpdate
  <2> QED BY <1>7, <2>1, <2>2
<1>10. SumFunction(claim) \in Int /\ SumFunction(mine) \in Int /\ SumFunction(open) \in Int
  <2> HIDE DEF claim, mine, open, P
  <2> QED BY <1>0, <1>1, <1>3, <1>7, SumIsInt
<1>11. UncalledReturn(C, p) = C[p] - Contestable(C, p)
  BY DEF UncalledReturn
<1> HIDE DEF claim, mine, open
<1> QED BY <1>4, <1>5, <1>6, <1>8, <1>9, <1>10, <1>11 DEF claim
=============================================================================
