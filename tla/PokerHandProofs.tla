-------------------------- MODULE PokerHandProofs --------------------------
(***************************************************************************)
(* Proofs about PokerHand, for any table: any seats, blinds, stacks and    *)
(* strengths of hands.                                                     *)
(*   HandTypes            TypeOK: no stack, bet or pot is ever negative    *)
(*   HandAccounted        HandAccounting                                   *)
(*   StreetsAlwaysStartEven StreetsStartEven                               *)
(*   TurnAlwaysActs       TurnCanAct: whoever is on turn can act           *)
(*   ChipsAlwaysConserved ChipsConserved, an action property               *)
(*   NobodyOverclaims     NoOverclaim                                      *)
(*   ImplementsHandStakes the engine implements HandStakes                 *)
(*   ShowdownsPayChips    the settlement never has to refuse a showdown    *)
(* All follow from one inductive invariant, Good, and from what            *)
(* PokerSettlementProofs shows of one award of the pots.  An action is     *)
(* followed through the hand in its middle (Midway): the chips are in, the *)
(* next turn or the settlement still to come.                              *)
(***************************************************************************)
EXTENDS PokerHand, PokerSettlementProofs

----------------------------------------------------------------------------
(***************************************************************************)
(* Going round the table.                                                  *)
(***************************************************************************)
LEMMA MinOfSeats ==
  ASSUME NEW S \in SUBSET Seats, S # {}
  PROVE  Min(S) \in S /\ \A y \in S : Min(S) <= y
<1>1. S \in SUBSET Nat /\ S # {}
  BY SeatsAssumption DEF Seats
<1> DEFINE less == OpToRel(<, Nat)
<1>2. \E x \in S : \A y \in S : ~ (<<y, x>> \in less)
  <2>1. IsWellFoundedOn(less, Nat)
    BY NatLessThanWellFounded
  <2> HIDE DEF less
  <2> QED BY <1>1, <2>1, WFMin
<1>3. \A x, y \in Nat : y < x => <<y, x>> \in less
  BY DEF OpToRel
<1>4. PICK x \in S : \A y \in S : ~ (<<y, x>> \in less)
  BY <1>2
<1> HIDE DEF less
<1>5. \A y \in S : ~ (y < x)
  BY <1>1, <1>3, <1>4
<1>6. \A y \in S : x <= y
  BY <1>1, <1>5
<1> QED BY <1>6 DEF Min

(* The next seat of S after s, from what it skips. *)
LEMMA SeatAfterProperty ==
  ASSUME NEW S \in SUBSET Seats, S # {}, NEW s \in Nat
  PROVE  LET t == SeatAfter(S, s)
         IN  /\ t \in S
             /\ \/ t > s /\ \A y \in S : y > s => t <= y
                \/ \A y \in S : y <= s /\ t <= y
<1> DEFINE above == {p \in S : p > s}
<1>0. S \subseteq Nat
  BY SeatsAssumption DEF Seats
<1>1. CASE above # {}
  <2>1. Min(above) \in above /\ \A y \in above : Min(above) <= y
    BY <1>1, MinOfSeats
  <2>2. SeatAfter(S, s) = Min(above)
    BY <1>1 DEF SeatAfter
  <2> QED BY <2>1, <2>2
<1>2. CASE above = {}
  <2>1. Min(S) \in S /\ \A y \in S : Min(S) <= y
    BY MinOfSeats
  <2>2. SeatAfter(S, s) = Min(S)
    BY <1>2 DEF SeatAfter
  <2>3. \A y \in S : y <= s
    BY <1>0, <1>2
  <2> QED BY <2>1, <2>2, <2>3
<1> QED BY <1>1, <1>2

(* With somebody else at the table the next seat is another one. *)
LEMMA SeatAfterOther ==
  ASSUME NEW S \in SUBSET Seats, NEW s \in Seats, NEW q \in S, q # s
  PROVE  SeatAfter(S, s) # s
<1>1. S # {} /\ s \in Nat /\ S \subseteq Nat
  BY SeatsAssumption DEF Seats
<1> QED BY <1>1, SeatAfterProperty

(* Two steps round the table come back only where there are two seats.     *)
LEMMA TwoStepsReturn ==
  ASSUME NEW S \in SUBSET Seats, NEW s \in S, NEW t,
         t = SeatAfter(S, s), s = SeatAfter(S, t)
  PROVE  t \in S /\ \A p \in S : p = s \/ p = t
<1>0. S \subseteq Nat
  BY SeatsAssumption DEF Seats
<1>1. S # {} /\ S \subseteq Nat /\ s \in Nat
  BY <1>0
<1>2. /\ t \in S
      /\ \/ t > s /\ \A y \in S : y > s => t <= y
         \/ \A y \in S : y <= s /\ t <= y
  BY <1>1, SeatAfterProperty
<1>3. t \in Nat
  BY <1>1, <1>2
<1>4. \/ s > t /\ \A y \in S : y > t => s <= y
      \/ \A y \in S : y <= t /\ s <= y
  BY <1>1, <1>3, SeatAfterProperty
<1> QED BY <1>1, <1>2, <1>3, <1>4

----------------------------------------------------------------------------
(***************************************************************************)
(* The inductive invariant.  HandAccounting needs that who was not dealt   *)
(* in has no bet; TurnCanAct needs that two players at least contend a     *)
(* live hand, so that whoever folds leaves somebody.  That a settlement    *)
(* pays what is there needs the pot to be the sum of the contributions     *)
(* during the hand (Staked), and the next deal an empty pot (PaidOut).     *)
(***************************************************************************)
(* HandAccounting of a hand, and no bet without a seat in it. *)
Counted(h) == \A p \in Seats :
  /\ p \in h.seats => h.stacks[p] + h.contrib[p] = h.start[p]
  /\ h.bet[p] <= h.contrib[p]
  /\ h.bet[p] <= h.currentBet
  /\ p \notin h.seats => h.bet[p] = 0

(* Who can still bet brought in as much as anybody from earlier streets. *)
Even(h) == \A p \in Active(h), q \in h.seats :
  h.contrib[q] - h.bet[q] <= h.contrib[p] - h.bet[p]

(* The pot is what the players of the hand put in. *)
Staked(h) ==
  /\ h.pot = SumFunction(h.contrib)
  /\ \A p \in Seats : p \notin h.seats => h.contrib[p] = 0

(* No hand on: the pot is gone, and to those who could claim it. *)
PaidOut(h) ==
  /\ h.pot = 0
  /\ h.phase = "SETTLED" =>
       \A p \in Contenders(h) : h.payouts[p] <= SumFunction(Matched(h, p))

(* All the chips of the table. *)
Worth(h) == h.pot + SumFunction(h.stacks)

(* TurnCanAct of a live hand. *)
CanGoOn(h) == h.turn \in Active(h) \/ BlindAllIn(h)

(* The invariant, of any hand. *)
Good(h) ==
  /\ h \in Hand
  /\ Live(h) =>
       /\ Counted(h) /\ Even(h) /\ Staked(h)
       /\ ~AtMostOne(Contenders(h)) /\ CanGoOn(h)
  /\ ~Live(h) => PaidOut(h)

(* Payouts of hand h that are what was put in, each as claimed. *)
Fair(h, x) ==
  /\ x \in [Seats -> Nat] /\ SumFunction(x) = h.pot
  /\ \A p \in Contenders(h) : x[p] <= SumFunction(Matched(h, p))
  /\ \A p \in Seats \ Contenders(h) : x[p] <= h.contrib[p]

(* Nobody moved a chip or folded from h to g. *)
Same(g, h) ==
  /\ g.stacks = h.stacks /\ g.contrib = h.contrib /\ g.pot = h.pot
  /\ g.seats = h.seats /\ g.folded = h.folded

(* What may follow h: the hand goes on with the same chips, or is over and *)
(* fairly paid.                                                            *)
Follows(g, h) ==
  /\ Good(g) /\ Worth(g) = Worth(h)
  /\ \/ Live(g) /\ Same(g, h)
     \/ ~Live(g) /\ \E x : /\ Fair(h, x)
                           /\ g.stacks = [p \in Seats |-> h.stacks[p] + x[p]]

(* A hand in the middle of an action: the chips are in, the turn not set.  *)
Midway(h) ==
  /\ h \in Hand /\ Live(h) /\ Counted(h) /\ Even(h) /\ Staked(h)
  /\ Contenders(h) # {}

(* Who contends and who can bet are players of the table. *)
LEMMA SetsOfSeats ==
  ASSUME NEW h \in Hand
  PROVE  /\ Contenders(h) \in SUBSET Seats /\ Active(h) \in SUBSET Contenders(h)
         /\ Active(h) \in SUBSET Seats
BY DEF Hand, Contenders, Active

(* The seats are finite, and numbers. *)
LEMMA SeatsFinite == IsFiniteSet(Seats)
BY SeatsAssumption, FS_Interval DEF Seats

LEMMA DealtAreSeats == \A D \in SUBSET Seats : AreSeats(D)
<1> TAKE D \in SUBSET Seats
<1>1. IsFiniteSet(D)
  BY SeatsFinite, FS_Subset
<1>2. D \in SUBSET Int
  BY SeatsAssumption DEF Seats
<1> QED BY <1>1, <1>2 DEF AreSeats

(* Paying out the pot gives a settled hand, with the chips there were.     *)
LEMMA PayGood ==
  ASSUME NEW h \in Hand, NEW x, Fair(h, x)
  PROVE  Follows(Pay(h, x), h)
<1> DEFINE g == Pay(h, x)
           stacks == [p \in Seats |-> h.stacks[p] + x[p]]
<1>0. /\ x \in [Seats -> Nat] /\ SumFunction(x) = h.pot
      /\ \A p \in Contenders(h) : x[p] <= SumFunction(Matched(h, p))
  BY DEF Fair
<1>1. stacks \in [Seats -> Nat]
  BY <1>0 DEF Hand
<1>2. /\ g.phase = "SETTLED" /\ g.stacks = stacks /\ g.pot = 0 /\ g.payouts = x
      /\ g.seats = h.seats /\ g.folded = h.folded /\ g.contrib = h.contrib
  BY DEF Pay, Hand
<1>3. g \in Hand
  BY <1>0, <1>1 DEF Pay, Hand
<1>4. SumFunction(stacks) = SumFunction(h.stacks) + SumFunction(x)
  <2>1. /\ h.stacks \in [Seats -> Int] /\ x \in [Seats -> Int] /\ stacks \in [Seats -> Int]
        /\ \A p \in Seats : stacks[p] = h.stacks[p] + x[p]
    BY <1>0, <1>1 DEF Hand
  <2> HIDE DEF stacks
  <2> QED BY <2>1, SeatsFinite, SumAdds
<1> HIDE DEF g, stacks
<1>5. \A p : Matched(g, p) = Matched(h, p)
  BY <1>2 DEF Matched
<1>6. Contenders(g) = Contenders(h)
  BY <1>2 DEF Contenders
<1>7. PaidOut(g) /\ ~Live(g)
  BY <1>0, <1>2, <1>5, <1>6 DEF PaidOut, Live, LivePhases
<1>8. Worth(g) = Worth(h)
  <2>1. SumFunction(h.stacks) \in Nat /\ h.pot \in Nat
    BY SeatsFinite, SumIsNat DEF Hand
  <2> QED BY <1>0, <1>2, <1>4, <2>1 DEF Worth
<1>9. Good(g)
  BY <1>3, <1>7 DEF Good
<1>10. g.stacks = [p \in Seats |-> h.stacks[p] + x[p]]
  BY <1>2 DEF stacks
<1>11. Follows(g, h)
  BY <1>7, <1>8, <1>9, <1>10 DEF Follows
<1> QED BY <1>11 DEF g

(* A showdown pays chips, the pot, and nobody more than he can claim.      *)
LEMMA ShowdownPays ==
  ASSUME NEW h, Midway(h), NEW x \in ShowdownPayouts(h)
  PROVE  Fair(h, x)
<1> DEFINE D == h.seats
           C == [p \in h.seats |-> h.contrib[p]]
           E == Contenders(h)
<1>1. /\ h \in Hand /\ D \in SUBSET Seats /\ E \in SUBSET D /\ E # {}
      /\ C \in [D -> Nat] /\ h.contrib \in [Seats -> Nat]
  BY DEF Midway, Hand, Contenders
<1>2. AreSeats(D)
  BY <1>1, DealtAreSeats
<1>3. PICK rank \in [E -> Ranks] :
        x = [p \in Seats |-> IF p \in D THEN AwardPots(C, E, rank)[p] ELSE 0]
  BY DEF ShowdownPayouts
<1>4. rank \in [E -> Int]
  BY RanksAssumption
<1> DEFINE A == AwardPots(C, E, rank)
<1>5. A \in [D -> Nat] /\ SumFunction(A) = SumFunction(C)
  <2> HIDE DEF C, D, E
  <2> QED BY <1>1, <1>2, <1>4, AwardsAddUp
<1>6. \A p \in E : A[p] <= SumFunction(Claim(C, E, p))
  <2> HIDE DEF C, D, E
  <2> QED BY <1>1, <1>2, <1>4, AwardBounded
<1>7. SumFunction(C) = h.pot
  <2>1. h.contrib = [p \in Seats |-> IF p \in D THEN C[p] ELSE 0]
    <3>1. \A p \in Seats : h.contrib[p] = IF p \in D THEN C[p] ELSE 0
      BY DEF Midway, Staked
    <3> HIDE DEF C, D
    <3> QED BY <1>1, <3>1
  <2>2. C \in [D -> Int]
    BY <1>1
  <2> HIDE DEF C, D
  <2>3. SumFunction([p \in Seats |-> IF p \in D THEN C[p] ELSE 0]) = SumFunction(C)
    BY <1>1, <2>2, SeatsFinite, SumOfExtension
  <2> QED BY <2>1, <2>3 DEF Midway, Staked
<1>8. SumFunction(x) = h.pot
  <2>1. A \in [D -> Int]
    BY <1>5
  <2> HIDE DEF A, D
  <2>2. SumFunction([p \in Seats |-> IF p \in D THEN A[p] ELSE 0]) = SumFunction(A)
    BY <1>1, <2>1, SeatsFinite, SumOfExtension
  <2> QED BY <1>3, <1>5, <1>7, <2>2 DEF A
<1>9. ASSUME NEW p \in E PROVE x[p] <= SumFunction(Matched(h, p))
  <2> DEFINE F == Claim(C, E, p)
  <2>1. p \in D /\ p \in Seats
    BY <1>1
  <2>2. x[p] = A[p]
    BY <1>3, <2>1
  <2>3. F \in [D -> Int]
    <3>1. \A q \in D : C[q] \in Int /\ Lesser(C[p], C[q]) \in Int
      BY <1>1, <2>1 DEF Lesser
    <3> QED BY <3>1 DEF Claim
  <2>4. Matched(h, p) = [q \in Seats |-> IF q \in D THEN F[q] ELSE 0]
    <3>1. \A q \in Seats : (IF q \in D THEN F[q] ELSE 0)
            = IF q \notin h.seats THEN 0
              ELSE IF q \in h.folded THEN h.contrib[q]
              ELSE Lesser(h.contrib[p], h.contrib[q])
      BY <2>1 DEF Claim, Contenders
    <3> HIDE DEF F, D
    <3> QED BY <3>1 DEF Matched
  <2>5. SumFunction(Matched(h, p)) = SumFunction(F)
    <3> HIDE DEF F, D
    <3> QED BY <1>1, <2>3, <2>4, SeatsFinite, SumOfExtension
  <2> QED BY <1>6, <2>2, <2>5
<1>10. x \in [Seats -> Nat]
  <2> HIDE DEF A, D
  <2> QED BY <1>1, <1>3, <1>5 DEF A
<1>11. ASSUME NEW p \in Seats \ E PROVE x[p] <= h.contrib[p]
  <2>1. h.contrib[p] \in Nat
    BY <1>1
  <2>2. CASE p \in D
    <3>1. p \in D \ E
      BY <1>11, <2>2
    <3>2. A[p] <= C[p]
      <4> HIDE DEF C, D, E
      <4> QED BY <1>1, <1>2, <1>4, <3>1, FoldedGetBack
    <3>3. x[p] = A[p] /\ C[p] = h.contrib[p]
      BY <1>3, <2>2
    <3> QED BY <3>2, <3>3
  <2>3. CASE p \notin D
    <3>1. x[p] = 0
      BY <1>3, <2>3
    <3> QED BY <2>1, <3>1
  <2> QED BY <2>2, <2>3
<1> QED BY <1>8, <1>9, <1>10, <1>11 DEF Fair

(* The last contender gets the pot, which is what everybody put in. *)
LEMMA LastPays ==
  ASSUME NEW h, Midway(h), AtMostOne(Contenders(h)), NEW x,
         x = [p \in Seats |-> IF p \in Contenders(h) THEN h.pot ELSE 0]
  PROVE  Fair(h, x)
<1>1. PICK c \in Contenders(h) : Contenders(h) = {c}
  BY DEF Midway, AtMostOne
<1>2. h \in Hand /\ h.pot \in Nat /\ h.contrib \in [Seats -> Nat] /\ c \in Seats
  BY SetsOfSeats DEF Midway, Hand
<1>3. x \in [Seats -> Nat]
  BY <1>2
<1>4. SumFunction(x) = h.pot
  <2> DEFINE T == Contenders(h)
  <2>1. T \in SUBSET Seats /\ Cardinality(T) = 1
    BY <1>1, <1>2, FS_Singleton
  <2> HIDE DEF T
  <2>2. SumFunction([p \in Seats |-> IF p \in T THEN h.pot ELSE 0]) = h.pot * Cardinality(T)
    <3>1. h.pot \in Int
      BY <1>2
    <3> QED BY <2>1, <3>1, SeatsFinite, SumOfEqualShares
  <2> QED BY <1>2, <2>1, <2>2 DEF T
<1>5. Matched(h, c) = h.contrib
  <2>1. ASSUME NEW q \in Seats
        PROVE  h.contrib[q] = IF q \notin h.seats THEN 0
                              ELSE IF q \in h.folded THEN h.contrib[q]
                              ELSE Lesser(h.contrib[c], h.contrib[q])
    <3>1. CASE q \notin h.seats
      BY <3>1 DEF Midway, Staked
    <3>2. CASE q \in h.seats /\ q \notin h.folded
      <4>1. q = c
        BY <1>1, <3>2 DEF Contenders
      <4> QED BY <3>2, <4>1 DEF Lesser
    <3>3. CASE q \in h.seats /\ q \in h.folded
      BY <3>3
    <3> QED BY <3>1, <3>2, <3>3
  <2> QED BY <1>2, <2>1 DEF Matched
<1>6. x[c] = SumFunction(Matched(h, c)) /\ x[c] \in Nat
  BY <1>1, <1>2, <1>5 DEF Midway, Staked
<1>7. x[c] <= SumFunction(Matched(h, c))
  BY <1>6
<1>8. \A p \in Seats \ Contenders(h) : x[p] = 0 /\ h.contrib[p] \in Nat
  BY <1>2
<1>9. \A p \in Seats \ Contenders(h) : x[p] <= h.contrib[p]
  BY <1>8
<1> QED BY <1>1, <1>3, <1>4, <1>7, <1>9 DEF Fair

(* A settlement pays the last contender or a showdown. *)
LEMMA SettleGood ==
  ASSUME NEW h, Midway(h), NEW g \in Settle(h)
  PROVE  Follows(g, h)
<1>1. h \in Hand /\ Contenders(h) # {}
  BY DEF Midway
<1>2. CASE AtMostOne(Contenders(h))
  <2> DEFINE x == [p \in Seats |-> IF p \in Contenders(h) THEN h.pot ELSE 0]
  <2>1. g = Pay(h, x)
    BY <1>1, <1>2 DEF Settle
  <2> HIDE DEF x
  <2>2. Fair(h, x)
    BY <1>2, LastPays DEF x
  <2> QED BY <1>1, <2>1, <2>2, PayGood
<1>3. CASE ~AtMostOne(Contenders(h))
  <2>1. PICK x \in ShowdownPayouts(h) : g = Pay(h, x)
    BY <1>1, <1>3 DEF Settle
  <2> QED BY <1>1, <2>1, ShowdownPays, PayGood
<1> QED BY <1>2, <1>3

(* Starting a round anew keeps a hand midway, and who plays it. *)
LEMMA ResetMidway ==
  ASSUME NEW h, Midway(h), BettingClosed(h)
  PROVE  /\ Midway(ResetRound(h))
         /\ Contenders(ResetRound(h)) = Contenders(h)
         /\ Active(ResetRound(h)) = Active(h)
         /\ ResetRound(h).phase = h.phase /\ ResetRound(h).dealer = h.dealer
         /\ Same(ResetRound(h), h)
<1> DEFINE g == ResetRound(h)
           none == [p \in Seats |-> IF p \in h.seats THEN 0 ELSE h.bet[p]]
<1>1. h \in Hand
  BY DEF Midway
<1>2. none \in [Seats -> Nat]
  BY <1>1 DEF Hand
<1>3. /\ g.phase = h.phase /\ g.seats = h.seats /\ g.dealer = h.dealer
      /\ g.stacks = h.stacks /\ g.start = h.start /\ g.contrib = h.contrib
      /\ g.folded = h.folded /\ g.pot = h.pot /\ g.currentBet = 0
      /\ g.bet = none
  BY <1>1 DEF ResetRound, Hand
<1>4. g \in Hand
  BY <1>1, <1>2 DEF ResetRound, Hand
<1>5. Contenders(g) = Contenders(h) /\ Active(g) = Active(h)
  BY <1>3 DEF Contenders, Active
<1>6. Counted(g)
  <2> SUFFICES ASSUME NEW p \in Seats
               PROVE  /\ p \in g.seats => g.stacks[p] + g.contrib[p] = g.start[p]
                      /\ g.bet[p] <= g.contrib[p]
                      /\ g.bet[p] <= g.currentBet
                      /\ p \notin g.seats => g.bet[p] = 0
    BY DEF Counted
  <2>1. /\ p \in h.seats => h.stacks[p] + h.contrib[p] = h.start[p]
        /\ p \notin h.seats => h.bet[p] = 0
    BY DEF Midway, Counted
  <2>2. none[p] = 0
    BY <2>1
  <2>3. h.contrib[p] \in Nat
    BY <1>1 DEF Hand
  <2> HIDE DEF g, none
  <2> QED BY <1>3, <2>1, <2>2, <2>3
<1>7. Even(g)
  <2> SUFFICES ASSUME NEW p \in Active(g), NEW q \in g.seats
               PROVE  g.contrib[q] - g.bet[q] <= g.contrib[p] - g.bet[p]
    BY DEF Even
  <2>1. p \in Active(h) /\ q \in h.seats /\ p \in h.seats
    BY <1>3, <1>5 DEF Active, Contenders
  <2>2. p \in Seats /\ q \in Seats
    BY <1>1, <2>1 DEF Hand
  <2>3. \A r \in Seats : /\ h.contrib[r] \in Nat /\ h.bet[r] \in Nat
                         /\ h.currentBet \in Nat /\ h.bet[r] <= h.currentBet
    BY <1>1 DEF Midway, Counted, Hand
  <2>4. ~(h.currentBet > h.bet[p])
    <3>1. ToCall(h, p) = 0
      BY <2>1 DEF BettingClosed
    <3> QED BY <2>2, <2>3, <3>1 DEF ToCall
  <2>5. h.contrib[q] - h.bet[q] <= h.contrib[p] - h.bet[p]
    BY <2>1 DEF Midway, Even
  <2>6. h.contrib[q] <= h.contrib[p]
    BY <2>2, <2>3, <2>4, <2>5
  <2>7. g.bet[p] = 0 /\ g.bet[q] = 0
    BY <1>3, <2>1, <2>2
  <2> HIDE DEF g, none
  <2> QED BY <1>3, <2>2, <2>3, <2>6, <2>7
<1>8. Staked(g) /\ Same(g, h)
  BY <1>3 DEF Midway, Staked, Same
<1> QED BY <1>3, <1>4, <1>5, <1>6, <1>7, <1>8 DEF Midway, Live

(* What follows a hand follows every hand with the same chips and players. *)
LEMMA FollowsSame ==
  ASSUME NEW g, NEW r, NEW h, Same(r, h), Follows(g, r)
  PROVE  Follows(g, h)
<1>1. Contenders(r) = Contenders(h) /\ \A p : Matched(r, p) = Matched(h, p)
  BY DEF Same, Contenders, Matched
<1>2. \A x : Fair(r, x) => Fair(h, x)
  BY <1>1 DEF Fair, Same
<1>3. Worth(r) = Worth(h) /\ r.stacks = h.stacks
  BY DEF Worth, Same
<1>4. Same(g, r) => Same(g, h)
  BY DEF Same
<1> QED BY <1>2, <1>3, <1>4 DEF Follows

(* Handing the turn to a player who can bet makes a midway hand good. *)
LEMMA TurnGood ==
  ASSUME NEW h, Midway(h), ~AtMostOne(Contenders(h)), NEW t \in Active(h)
  PROVE  Follows([h EXCEPT !.turn = t], h)
<1> DEFINE g == [h EXCEPT !.turn = t]
<1>1. h \in Hand /\ t \in Seats
  BY SetsOfSeats DEF Midway
<1>2. /\ g.phase = h.phase /\ g.seats = h.seats /\ g.stacks = h.stacks
      /\ g.start = h.start /\ g.contrib = h.contrib /\ g.folded = h.folded
      /\ g.currentBet = h.currentBet /\ g.bet = h.bet /\ g.pot = h.pot /\ g.turn = t
  BY <1>1 DEF Hand
<1>3. g \in Hand
  BY <1>1 DEF Hand
<1> HIDE DEF g
<1>4. Contenders(g) = Contenders(h) /\ Active(g) = Active(h)
  BY <1>2 DEF Contenders, Active
<1>5. Counted(g) /\ Even(g) /\ Staked(g) /\ Live(g) /\ Same(g, h)
  BY <1>2, <1>4 DEF Midway, Counted, Even, Staked, Live, Same
<1>6. Good(g)
  BY <1>2, <1>3, <1>4, <1>5 DEF Good, CanGoOn
<1> QED BY <1>5, <1>6 DEF Follows, Same, Worth, g

(* The next street opens with a player who can bet. *)
LEMMA NextStreetGood ==
  ASSUME NEW h, Midway(h), BettingClosed(h), h.phase # "RIVER",
         ~AtMostOne(Contenders(h)), ~AtMostOne(Active(h))
  PROVE  Follows(NextStreet(h), h)
<1> DEFINE r == ResetRound(h)
           g == [r EXCEPT !.phase = NextPhase[@]]
           t == SeatAfter(Active(h), h.dealer)
<1>1. /\ Midway(r) /\ Contenders(r) = Contenders(h) /\ Active(r) = Active(h)
      /\ r.phase = h.phase /\ Same(r, h)
  BY ResetMidway
<1>2. r \in Hand /\ r.phase \in {"PREFLOP", "FLOP", "TURN"}
  BY <1>1 DEF Midway, Live, LivePhases
<1> HIDE DEF r
<1>3. NextPhase[r.phase] \in {"FLOP", "TURN", "RIVER"}
  BY <1>2 DEF NextPhase
<1>4. /\ g \in Hand /\ g.phase \in {"FLOP", "TURN", "RIVER"}
      /\ g.seats = r.seats /\ g.stacks = r.stacks
      /\ g.start = r.start /\ g.contrib = r.contrib /\ g.folded = r.folded
      /\ g.currentBet = r.currentBet /\ g.bet = r.bet /\ g.pot = r.pot
  BY <1>2, <1>3 DEF Hand, LivePhases
<1>5. NextStreet(h) = [g EXCEPT !.turn = t]
  BY <1>2 DEF NextStreet, r, Hand
<1> HIDE DEF g
<1>6. Contenders(g) = Contenders(h) /\ Active(g) = Active(h)
  BY <1>1, <1>4 DEF Contenders, Active
<1>7. Midway(g) /\ Same(g, h)
  BY <1>1, <1>4, <1>6 DEF Midway, Live, LivePhases, Counted, Even, Staked, Same
<1>8. t \in Active(h)
  <2>1. Active(h) # {} /\ Active(h) \in SUBSET Seats
    BY SetsOfSeats DEF AtMostOne, Midway
  <2>2. h.dealer \in Nat
    BY SeatsAssumption DEF Midway, Hand, Seats, NoSeat
  <2> QED BY <2>1, <2>2, SeatAfterProperty
<1>9. Follows([g EXCEPT !.turn = t], g)
  BY <1>6, <1>7, <1>8, TurnGood
<1> QED BY <1>5, <1>7, <1>9, FollowsSame

(* While betting is open somebody who can bet is next. *)
LEMMA NextTurnActive ==
  ASSUME NEW h, Midway(h), ~BettingClosed(h), NEW p \in Seats
  PROVE  NextTurn(h, p) \in Active(h)
<1>1. CASE AtMostOne(Active(h))
  <2>1. \E q \in Active(h) : ToCall(h, q) # 0
    BY <1>1 DEF BettingClosed
  <2>2. \A q \in Active(h) : ToCall(h, q) \in Nat
    <3>1. \A q \in Seats : h.bet[q] \in Nat /\ h.currentBet \in Nat
      BY DEF Midway, Hand
    <3> QED BY <3>1, SetsOfSeats DEF ToCall, Midway
  <2>3. \E q \in Active(h) : ToCall(h, q) > 0
    BY <2>1, <2>2
  <2> QED BY <1>1, <2>3 DEF NextTurn
<1>2. CASE ~AtMostOne(Active(h))
  <2>1. Active(h) # {} /\ Active(h) \in SUBSET Seats /\ p \in Nat
    BY <1>2, SetsOfSeats, SeatsAssumption DEF AtMostOne, Midway, Seats
  <2>2. SeatAfter(Active(h), p) \in Active(h)
    BY <2>1, SeatAfterProperty
  <2> QED BY <1>2, <2>2 DEF NextTurn
<1> QED BY <1>1, <1>2

(* Whatever the reducer makes of an action follows it. *)
LEMMA ProgressGood ==
  ASSUME NEW h, Midway(h), NEW p \in Seats, NEW g \in Progress(h, p)
  PROVE  Follows(g, h)
<1>1. CASE AtMostOne(Contenders(h))
  BY <1>1, SettleGood DEF Progress
<1>2. CASE ~AtMostOne(Contenders(h)) /\ ~BettingClosed(h)
  <2>1. g = [h EXCEPT !.turn = NextTurn(h, p)]
    BY <1>2 DEF Progress
  <2> QED BY <1>2, <2>1, NextTurnActive, TurnGood
<1>3. CASE ~AtMostOne(Contenders(h)) /\ BettingClosed(h) /\ h.phase = "RIVER"
  BY <1>3, SettleGood DEF Progress
<1>4. CASE /\ ~AtMostOne(Contenders(h)) /\ BettingClosed(h) /\ h.phase # "RIVER"
           /\ AtMostOne(Active(h))
  <2>1. g \in Settle(ResetRound(h))
    BY <1>4 DEF Progress
  <2>2. Follows(g, ResetRound(h)) /\ Same(ResetRound(h), h)
    BY <1>4, <2>1, ResetMidway, SettleGood
  <2> QED BY <2>2, FollowsSame
<1>5. CASE /\ ~AtMostOne(Contenders(h)) /\ BettingClosed(h) /\ h.phase # "RIVER"
           /\ ~AtMostOne(Active(h))
  <2>1. g = NextStreet(h)
    BY <1>5 DEF Progress
  <2> QED BY <1>5, <2>1, NextStreetGood
<1> QED BY <1>1, <1>2, <1>3, <1>4, <1>5

----------------------------------------------------------------------------
(***************************************************************************)
(* The actions of players.                                                 *)
(***************************************************************************)

(* Chips go from the stack to the bet, the contribution and the pot. *)
LEMMA PutInFields ==
  ASSUME NEW h \in Hand, NEW p \in Seats, NEW c \in Nat, c <= h.stacks[p]
  PROVE  LET g == PutIn(h, p, c)
         IN  /\ g \in Hand
             /\ g.phase = h.phase /\ g.seats = h.seats /\ g.start = h.start
             /\ g.folded = h.folded /\ g.currentBet = h.currentBet
             /\ g.lastRaise = h.lastRaise
             /\ g.stacks = [h.stacks EXCEPT ![p] = @ - c]
             /\ g.bet = [h.bet EXCEPT ![p] = @ + c]
             /\ g.contrib = [h.contrib EXCEPT ![p] = @ + c]
             /\ g.pot = h.pot + c
<1> DEFINE g == PutIn(h, p, c)
<1>1. /\ h.stacks[p] - c \in Nat /\ h.bet[p] + c \in Nat
      /\ h.contrib[p] + c \in Nat /\ h.pot + c \in Nat
  <2>1. /\ h.stacks[p] \in Nat /\ h.bet[p] \in Nat /\ h.contrib[p] \in Nat
        /\ h.pot \in Nat
    BY DEF Hand
  <2> QED BY <2>1
<1>2. /\ g.phase = h.phase /\ g.seats = h.seats /\ g.start = h.start
      /\ g.folded = h.folded /\ g.currentBet = h.currentBet
      /\ g.lastRaise = h.lastRaise
      /\ g.stacks = [h.stacks EXCEPT ![p] = @ - c]
      /\ g.bet = [h.bet EXCEPT ![p] = @ + c]
      /\ g.contrib = [h.contrib EXCEPT ![p] = @ + c]
      /\ g.pot = h.pot + c
  BY DEF PutIn, Hand
<1>3. /\ [h.stacks EXCEPT ![p] = @ - c] \in [Seats -> Nat]
      /\ [h.bet EXCEPT ![p] = @ + c] \in [Seats -> Nat]
      /\ [h.contrib EXCEPT ![p] = @ + c] \in [Seats -> Nat]
      /\ h.acted \cup {p} \in SUBSET Seats
  BY <1>1 DEF Hand
<1>4. g \in Hand
  BY <1>1, <1>3 DEF PutIn, Hand
<1> QED BY <1>2, <1>4

(* With the bet to match raised to at least the new bet, a midway hand.    *)
LEMMA PaidMidway ==
  ASSUME NEW h \in Hand, Good(h), Live(h), NEW p \in Active(h),
         NEW c \in Nat, c <= h.stacks[p],
         NEW g \in Hand, g.phase = h.phase, g.seats = h.seats, g.start = h.start,
         g.folded = h.folded,
         g.stacks = [h.stacks EXCEPT ![p] = @ - c],
         g.bet = [h.bet EXCEPT ![p] = @ + c],
         g.contrib = [h.contrib EXCEPT ![p] = @ + c], g.pot = h.pot + c,
         h.currentBet <= g.currentBet, h.bet[p] + c <= g.currentBet
  PROVE  Midway(g) /\ Worth(g) = Worth(h)
<1>1. p \in Seats /\ p \in h.seats /\ Live(g)
  BY SetsOfSeats DEF Active, Contenders, Live
<1>2. Contenders(g) = Contenders(h) /\ Contenders(h) # {}
  BY DEF Contenders, Good, AtMostOne
<1>3. ASSUME NEW q \in Seats
      PROVE  /\ q \in g.seats => g.stacks[q] + g.contrib[q] = g.start[q]
             /\ g.bet[q] <= g.contrib[q]
             /\ g.bet[q] <= g.currentBet
             /\ q \notin g.seats => g.bet[q] = 0
  <2>1. /\ q \in h.seats => h.stacks[q] + h.contrib[q] = h.start[q]
        /\ h.bet[q] <= h.contrib[q] /\ h.bet[q] <= h.currentBet
        /\ q \notin h.seats => h.bet[q] = 0
    BY DEF Good, Counted
  <2>2. /\ h.stacks[q] \in Nat /\ h.bet[q] \in Nat /\ h.contrib[q] \in Nat
        /\ h.currentBet \in Nat /\ g.currentBet \in Nat /\ h.start[q] \in Nat
    BY DEF Hand
  <2>3. CASE q = p
    <3>1. /\ g.stacks[q] = h.stacks[q] - c /\ g.bet[q] = h.bet[q] + c
          /\ g.contrib[q] = h.contrib[q] + c
      BY <1>1, <2>3 DEF Hand
    <3> QED BY <1>1, <2>1, <2>2, <2>3, <3>1
  <2>4. CASE q # p
    <3>1. /\ g.stacks[q] = h.stacks[q] /\ g.bet[q] = h.bet[q]
          /\ g.contrib[q] = h.contrib[q]
      BY <2>4 DEF Hand
    <3> QED BY <2>1, <2>2, <3>1
  <2> QED BY <2>3, <2>4
<1>4. Even(g)
  <2> SUFFICES ASSUME NEW r \in Active(g), NEW q \in g.seats
               PROVE  g.contrib[q] - g.bet[q] <= g.contrib[r] - g.bet[r]
    BY DEF Even
  <2>1. r \in Seats /\ q \in Seats /\ q \in h.seats /\ r \in Contenders(h)
    BY <1>2, SetsOfSeats DEF Active, Hand
  <2>2. ASSUME NEW x \in Seats
        PROVE  /\ h.stacks[x] \in Nat /\ h.bet[x] \in Nat /\ h.contrib[x] \in Nat
               /\ g.contrib[x] - g.bet[x] = h.contrib[x] - h.bet[x]
               /\ g.stacks[x] <= h.stacks[x] /\ g.stacks[x] \in Nat
    <3>1. /\ h.stacks[x] \in Nat /\ h.bet[x] \in Nat /\ h.contrib[x] \in Nat
          /\ g.stacks[x] \in Nat
      BY DEF Hand
    <3>2. CASE x = p
      <4>1. /\ g.stacks[x] = h.stacks[x] - c /\ g.bet[x] = h.bet[x] + c
            /\ g.contrib[x] = h.contrib[x] + c
        BY <1>1, <3>2 DEF Hand
      <4> QED BY <3>1, <4>1
    <3>3. CASE x # p
      <4>1. /\ g.stacks[x] = h.stacks[x] /\ g.bet[x] = h.bet[x]
            /\ g.contrib[x] = h.contrib[x]
        BY <3>3 DEF Hand
      <4> QED BY <3>1, <4>1
    <3> QED BY <3>2, <3>3
  <2>3. r \in Active(h)
    <3>1. g.stacks[r] > 0
      BY DEF Active
    <3> QED BY <2>1, <2>2, <3>1 DEF Active
  <2>4. h.contrib[q] - h.bet[q] <= h.contrib[r] - h.bet[r]
    BY <2>1, <2>3 DEF Good, Even
  <2> QED BY <2>1, <2>2, <2>4
<1>5. Staked(g)
  <2>1. /\ h.contrib \in [Seats -> Int] /\ h.contrib[p] \in Int /\ h.pot \in Int
        /\ h.contrib[p] + c \in Int
    BY <1>1 DEF Hand
  <2>2. g.contrib = [h.contrib EXCEPT ![p] = h.contrib[p] + c]
    OBVIOUS
  <2>3. SumFunction(g.contrib) = SumFunction(h.contrib) - h.contrib[p] + (h.contrib[p] + c)
    BY <1>1, <2>1, <2>2, SeatsFinite, SumUpdate
  <2>4. h.pot = SumFunction(h.contrib)
    BY DEF Good, Staked
  <2>5. \A q \in Seats : q \notin g.seats => g.contrib[q] = 0
    BY <1>1 DEF Good, Staked, Hand
  <2> QED BY <2>1, <2>3, <2>4, <2>5 DEF Staked
<1>6. Worth(g) = Worth(h)
  <2>1. /\ h.stacks \in [Seats -> Int] /\ h.stacks[p] \in Int /\ h.pot \in Int
        /\ h.stacks[p] - c \in Int
    BY <1>1 DEF Hand
  <2>2. g.stacks = [h.stacks EXCEPT ![p] = h.stacks[p] - c]
    OBVIOUS
  <2>3. SumFunction(g.stacks) = SumFunction(h.stacks) - h.stacks[p] + (h.stacks[p] - c)
    BY <1>1, <2>1, <2>2, SeatsFinite, SumUpdate
  <2>4. SumFunction(h.stacks) \in Int
    BY <2>1, SeatsFinite, SumIsInt
  <2> QED BY <2>1, <2>3, <2>4 DEF Worth
<1> QED BY <1>1, <1>2, <1>3, <1>4, <1>5, <1>6 DEF Midway, Counted

(* A fold leaves the chips where they are, and somebody in the hand. *)
LEMMA FoldMidway ==
  ASSUME NEW h \in Hand, Good(h), Live(h), NEW p \in Contenders(h)
  PROVE  /\ Midway(FoldSeat(h, p))
         /\ Contenders(FoldSeat(h, p)) = Contenders(h) \ {p}
         /\ FoldSeat(h, p).turn = h.turn /\ FoldSeat(h, p).stacks = h.stacks
         /\ Worth(FoldSeat(h, p)) = Worth(h)
<1> DEFINE g == FoldSeat(h, p)
<1>1. p \in Seats /\ h.folded \cup {p} \in SUBSET Seats /\ h.acted \cup {p} \in SUBSET Seats
  BY SetsOfSeats DEF Hand
<1>2. /\ g.phase = h.phase /\ g.seats = h.seats /\ g.start = h.start
      /\ g.stacks = h.stacks /\ g.bet = h.bet /\ g.contrib = h.contrib
      /\ g.currentBet = h.currentBet /\ g.turn = h.turn /\ g.pot = h.pot
      /\ g.folded = h.folded \cup {p}
  BY DEF FoldSeat, Hand
<1>3. g \in Hand
  BY <1>1 DEF FoldSeat, Hand
<1> HIDE DEF g
<1>4. Contenders(g) = Contenders(h) \ {p} /\ Contenders(g) # {}
  BY <1>2 DEF Contenders, Good, AtMostOne
<1>5. Counted(g) /\ Staked(g) /\ Live(g) /\ Worth(g) = Worth(h)
  BY <1>2 DEF Good, Counted, Staked, Live, Worth
<1>6. Even(g)
  <2>1. Active(g) \subseteq Active(h)
    BY <1>2, <1>4 DEF Active
  <2> QED BY <1>2, <2>1 DEF Good, Even
<1> QED BY <1>2, <1>3, <1>4, <1>5, <1>6 DEF Midway, g

(* What an action of the seat p leads to, from a good hand. *)
Played(p) == Good(hand') /\ Worth(hand') = Worth(hand) /\ Stakes!Play(p)

(* HandStakes and the engine add up alike. *)
LEMMA SameSums == \A f : Stakes!SumFunction(f) = SumFunction(f)
BY DEF Stakes!SumFunction, Stakes!SumFunctionOnSet, Stakes!FoldFunctionOnSet,
       Stakes!MapThenFoldSet, SumFunction, SumFunctionOnSet, FoldFunctionOnSet,
       MapThenFoldSet

(* What can be claimed of the stakes of a hand is what is matched of it. *)
LEMMA ClaimIsMatched ==
  ASSUME NEW h \in Hand, Staked(h), NEW q
  PROVE  Stakes!Claim(h.contrib, Contenders(h), q) = Matched(h, q)
<1>1. ASSUME NEW r \in Seats
      PROVE  (IF r \in Contenders(h) /\ h.contrib[r] > h.contrib[q]
              THEN h.contrib[q] ELSE h.contrib[r])
           = IF r \notin h.seats THEN 0
             ELSE IF r \in h.folded THEN h.contrib[r]
             ELSE Lesser(h.contrib[q], h.contrib[r])
  <2>1. CASE r \notin h.seats
    BY <2>1 DEF Contenders, Staked
  <2>2. CASE r \in h.seats /\ r \in h.folded
    BY <2>2 DEF Contenders
  <2>3. CASE r \in h.seats /\ r \notin h.folded
    BY <2>3 DEF Contenders, Lesser
  <2> QED BY <2>1, <2>2, <2>3
<1> QED BY <1>1 DEF Stakes!Claim, Matched

(* What follows a hand after p put c chips in, or folded, is a play of p.  *)
LEMMA ActionFollows ==
  ASSUME Good(hand), Live(hand), NEW p \in Contenders(hand),
         NEW c \in Nat, c <= hand.stacks[p], NEW h, Midway(h),
         h.stacks = [hand.stacks EXCEPT ![p] = @ - c],
         h.contrib = [hand.contrib EXCEPT ![p] = @ + c],
         \/ Contenders(h) = Contenders(hand)
         \/ c = 0 /\ Contenders(h) = Contenders(hand) \ {p},
         Worth(h) = Worth(hand), Follows(hand', h)
  PROVE  Played(p)
<1> DEFINE left == Contenders(h)
           rest == [hand.stacks EXCEPT ![p] = @ - c]
           stake == [hand.contrib EXCEPT ![p] = @ + c]
<1>1. Good(hand') /\ Worth(hand') = Worth(hand)
  BY DEF Follows
<1>2. /\ c \in 0 .. hand.stacks[p] /\ left \in {Contenders(hand), Contenders(hand) \ {p}}
      /\ left = Contenders(hand) \/ c = 0
  <2>1. hand.stacks[p] \in Nat
    BY SetsOfSeats DEF Good, Hand
  <2> QED BY <2>1
<1>3. \/ Stakes!TwoOf(left) /\ hand'.stacks = rest /\ Live(hand')
         /\ hand'.contrib = stake /\ Contenders(hand') = left
      \/ ~Live(hand') /\ Stakes!GivenOut(rest, stake, left)
  <2>1. CASE Live(hand') /\ Same(hand', h)
    <3>1. Contenders(hand') = left /\ hand'.stacks = rest /\ hand'.contrib = stake
      BY <2>1 DEF Same, Contenders
    <3>2. Stakes!TwoOf(left)
      BY <1>1, <2>1, <3>1 DEF Good, AtMostOne, Stakes!TwoOf
    <3> QED BY <2>1, <3>1, <3>2
  <2>2. ASSUME ~Live(hand'), NEW x, Fair(h, x),
               hand'.stacks = [q \in Seats |-> h.stacks[q] + x[q]]
        PROVE  Stakes!GivenOut(rest, stake, left)
    <3>1. /\ x \in [Seats -> Nat] /\ SumFunction(x) = SumFunction(stake)
          /\ \A q \in Seats \ left : x[q] <= stake[q]
      BY <2>2 DEF Fair, Midway, Staked
    <3>2. \A q \in left : x[q] <= SumFunction(Stakes!Claim(stake, left, q))
      <4>1. h \in Hand /\ Staked(h) /\ h.contrib = stake
        BY DEF Midway
      <4> HIDE DEF stake
      <4>2. \A q \in left : Stakes!Claim(stake, left, q) = Matched(h, q)
        BY <4>1, ClaimIsMatched
      <4> QED BY <2>2, <4>2 DEF Fair
    <3>3. h.stacks \in [Seats -> Nat] /\ h.stacks = rest
      BY DEF Midway, Hand
    <3> HIDE DEF rest, stake, left
    <3>4. [q \in Seats |-> hand'.stacks[q] - rest[q]] = x
      BY <2>2, <3>1, <3>3
    <3>5. hand'.stacks = [q \in Seats |-> rest[q] + x[q]]
      BY <2>2, <3>3
    <3>6. ~Live(hand')
      BY <2>2
    <3> QED BY <3>1, <3>2, <3>4, <3>5, <3>6, SameSums DEF Stakes!GivenOut, Nothing
  <2> QED BY <2>1, <2>2 DEF Follows
<1> HIDE DEF left
<1>4. Stakes!Play(p)
  <2>1. rest = [hand.stacks EXCEPT ![p] = @ - c] /\ stake = [hand.contrib EXCEPT ![p] = @ + c]
    OBVIOUS
  <2> HIDE DEF rest, stake
  <2> QED BY <1>2, <1>3, <2>1 DEF Stakes!Play
<1> QED BY <1>1, <1>4 DEF Played

(* Hand h is the hand after seat p folded. *)
FoldedBy(p, h) ==
  /\ h.stacks = hand.stacks /\ h.contrib = hand.contrib
  /\ Contenders(h) = Contenders(hand) \ {p} /\ Worth(h) = Worth(hand)

LEMMA FoldChips ==
  ASSUME Good(hand), Live(hand), NEW p \in Contenders(hand)
  PROVE  FoldedBy(p, FoldSeat(hand, p))
<1>1. hand \in Hand
  BY DEF Good
<1>2. FoldSeat(hand, p).contrib = hand.contrib
  BY <1>1 DEF FoldSeat, Hand
<1> QED BY <1>1, <1>2, FoldMidway DEF FoldedBy

(* A fold is a play of no chips. *)
LEMMA FoldFollows ==
  ASSUME Good(hand), Live(hand), NEW p \in Contenders(hand),
         NEW h, Midway(h), FoldedBy(p, h), Follows(hand', h)
  PROVE  Played(p)
<1>1. hand.stacks \in [Seats -> Nat] /\ hand.contrib \in [Seats -> Nat] /\ p \in Seats
  BY SetsOfSeats DEF Good, Hand
<1>2. /\ [hand.stacks EXCEPT ![p] = @ - 0] = hand.stacks
      /\ [hand.contrib EXCEPT ![p] = @ + 0] = hand.contrib
  BY <1>1
<1>3. 0 <= hand.stacks[p]
  BY <1>1
<1> QED BY <1>2, <1>3, ActionFollows DEF FoldedBy

(* One lemma per action. *)
LEMMA FoldGood == \A p \in Seats : Good(hand) /\ Fold(p) => Played(p)
<1> TAKE p \in Seats
<1> HAVE Good(hand) /\ Fold(p)
<1> DEFINE h == FoldSeat(hand, p)
<1>1. hand \in Hand /\ Live(hand) /\ p \in Active(hand) /\ p \in Contenders(hand)
  BY SetsOfSeats DEF Good, Fold, OnTurn
<1>2. Midway(h) /\ hand' \in Progress(h, p)
  BY <1>1, FoldMidway DEF Fold
<1>3. FoldedBy(p, h)
  BY <1>1, FoldChips
<1> HIDE DEF h
<1>4. Follows(hand', h)
  BY <1>2, ProgressGood
<1> QED BY <1>1, <1>2, <1>3, <1>4, FoldFollows

LEMMA OutOfTurnFoldGood ==
  \A p \in Seats : Good(hand) /\ OutOfTurnFold(p) => Played(p)
<1> TAKE p \in Seats
<1> HAVE Good(hand) /\ OutOfTurnFold(p)
<1> DEFINE h == FoldSeat(hand, p)
<1>1. /\ hand \in Hand /\ Live(hand) /\ p \in Contenders(hand) /\ p # hand.turn
      /\ CanGoOn(hand)
  BY DEF Good, OutOfTurnFold
<1>2. /\ Midway(h) /\ Contenders(h) = Contenders(hand) \ {p}
      /\ h.turn = hand.turn /\ h.stacks = hand.stacks
  BY <1>1, FoldMidway
<1>3. hand' \in IF AtMostOne(Contenders(h)) THEN Settle(h) ELSE {h}
  BY DEF OutOfTurnFold
<1>4. FoldedBy(p, h)
  BY <1>1, FoldChips
<1> HIDE DEF h
<1>5. Follows(hand', h)
  <2>1. CASE AtMostOne(Contenders(h))
    BY <1>2, <1>3, <2>1, SettleGood
  <2>2. CASE ~AtMostOne(Contenders(h))
    <3>1. ~BlindAllIn(hand)
      <4> SUFFICES ASSUME BlindAllIn(hand) PROVE FALSE
        OBVIOUS
      <4>1. \A q \in Contenders(hand) :
              q = hand.dealer \/ q = SeatAfter(hand.seats, hand.dealer)
        BY DEF BlindAllIn, Contenders
      <4>2. \A q \in Contenders(h) : q = hand.dealer
        BY <1>1, <1>2, <4>1 DEF BlindAllIn
      <4> QED BY <2>2, <4>2 DEF AtMostOne
    <3>2. h.turn \in Active(h)
      BY <1>1, <1>2, <3>1 DEF CanGoOn, Active
    <3>3. hand' = h /\ Good(h) /\ Live(h)
      BY <1>2, <1>3, <2>2, <3>2 DEF Good, Midway, CanGoOn
    <3> QED BY <3>3 DEF Follows, Same
  <2> QED BY <2>1, <2>2
<1> QED BY <1>1, <1>2, <1>4, <1>5, FoldFollows

(* What a player on turn has, in a good hand. *)
LEMMA OnTurnFacts ==
  ASSUME Good(hand), NEW p \in Seats, OnTurn(p)
  PROVE  /\ hand \in Hand /\ Live(hand) /\ p \in Active(hand)
         /\ hand.stacks[p] \in Nat /\ hand.bet[p] \in Nat
         /\ hand.currentBet \in Nat /\ hand.lastRaise \in Nat
         /\ hand.bet[p] <= hand.currentBet
         /\ ToCall(hand, p) = hand.currentBet - hand.bet[p]
<1>1. hand \in Hand /\ Live(hand) /\ p \in Active(hand)
  BY DEF Good, OnTurn
<1>2. /\ hand.stacks[p] \in Nat /\ hand.bet[p] \in Nat
      /\ hand.currentBet \in Nat /\ hand.lastRaise \in Nat
  BY <1>1 DEF Hand
<1>3. hand.bet[p] <= hand.currentBet
  BY <1>1 DEF Good, Counted
<1> QED BY <1>1, <1>2, <1>3 DEF ToCall

(* What follows a hand in which who is on turn put c chips in. *)
LEMMA PlayFollows ==
  ASSUME Good(hand), NEW p \in Seats, OnTurn(p), NEW c \in Nat, c <= hand.stacks[p],
         NEW h, Midway(h), Worth(h) = Worth(hand), Follows(hand', h),
         h.stacks = [hand.stacks EXCEPT ![p] = @ - c],
         h.contrib = [hand.contrib EXCEPT ![p] = @ + c],
         h.seats = hand.seats, h.folded = hand.folded
  PROVE  Played(p)
<1>1. Live(hand) /\ p \in Contenders(hand) /\ Contenders(h) = Contenders(hand)
  BY OnTurnFacts DEF Active, Contenders
<1> QED BY <1>1, ActionFollows

(* Putting in no more than what is to call. *)
LEMMA PutInGood ==
  ASSUME Good(hand), NEW p \in Seats, OnTurn(p), NEW c \in Nat,
         c <= hand.stacks[p], c <= ToCall(hand, p),
         hand' \in Progress(PutIn(hand, p, c), p)
  PROVE  Played(p)
<1> DEFINE g == PutIn(hand, p, c)
<1>1. /\ g \in Hand /\ g.phase = hand.phase /\ g.seats = hand.seats
      /\ g.start = hand.start /\ g.folded = hand.folded
      /\ g.currentBet = hand.currentBet
      /\ g.stacks = [hand.stacks EXCEPT ![p] = @ - c]
      /\ g.bet = [hand.bet EXCEPT ![p] = @ + c]
      /\ g.contrib = [hand.contrib EXCEPT ![p] = @ + c]
      /\ g.pot = hand.pot + c
  BY OnTurnFacts, PutInFields
<1> HIDE DEF g
<1>2. Midway(g) /\ Worth(g) = Worth(hand)
  <2>1. hand.bet[p] + c <= hand.currentBet
    BY OnTurnFacts
  <2> QED BY <1>1, <2>1, OnTurnFacts, PaidMidway
<1>3. Follows(hand', g)
  BY <1>2, ProgressGood DEF g
<1> QED BY <1>1, <1>2, <1>3, PlayFollows

(* Putting in c and making b, not below any bet, the bet to match. *)
LEMMA PutInOverGood ==
  ASSUME Good(hand), NEW p \in Seats, OnTurn(p), NEW c \in Nat,
         c <= hand.stacks[p], NEW b \in Nat, NEW r \in Nat,
         hand.currentBet <= b, hand.bet[p] + c <= b,
         hand' \in Progress([PutIn(hand, p, c) EXCEPT !.currentBet = b,
                                                      !.lastRaise = r], p)
  PROVE  Played(p)
<1> DEFINE h == PutIn(hand, p, c)
           g == [h EXCEPT !.currentBet = b, !.lastRaise = r]
<1>1. h \in Hand /\ h.phase = hand.phase /\ h.seats = hand.seats
      /\ h.start = hand.start /\ h.folded = hand.folded
      /\ h.stacks = [hand.stacks EXCEPT ![p] = @ - c]
      /\ h.bet = [hand.bet EXCEPT ![p] = @ + c]
      /\ h.contrib = [hand.contrib EXCEPT ![p] = @ + c]
      /\ h.pot = hand.pot + c
  BY OnTurnFacts, PutInFields
<1> HIDE DEF h
<1>2. g \in Hand
  BY <1>1 DEF Hand
<1>3. /\ g.phase = h.phase /\ g.seats = h.seats /\ g.start = h.start
      /\ g.folded = h.folded /\ g.currentBet = b /\ g.stacks = h.stacks
      /\ g.bet = h.bet /\ g.contrib = h.contrib /\ g.pot = h.pot
  BY <1>1 DEF Hand
<1>4. hand' \in Progress(g, p)
  BY DEF h
<1> HIDE DEF g
<1>5. Midway(g) /\ Worth(g) = Worth(hand)
  BY <1>1, <1>2, <1>3, OnTurnFacts, PaidMidway
<1>6. Follows(hand', g)
  BY <1>4, <1>5, ProgressGood
<1> QED BY <1>1, <1>3, <1>5, <1>6, PlayFollows

(* Chips put in leave the bet to match and the last raise alone. *)
LEMMA PutInBet ==
  ASSUME Good(hand), NEW p \in Seats, OnTurn(p), NEW c \in Nat, c <= hand.stacks[p]
  PROVE  /\ PutIn(hand, p, c).currentBet = hand.currentBet
         /\ PutIn(hand, p, c).lastRaise = hand.lastRaise
         /\ PutIn(hand, p, c).bet[p] = hand.bet[p] + c
<1>1. hand \in Hand
  BY OnTurnFacts
<1>2. /\ PutIn(hand, p, c).currentBet = hand.currentBet
      /\ PutIn(hand, p, c).lastRaise = hand.lastRaise
      /\ PutIn(hand, p, c).bet = [hand.bet EXCEPT ![p] = @ + c]
  BY <1>1 DEF PutIn, Hand
<1> QED BY <1>1, <1>2 DEF Hand

LEMMA CheckGood == \A p \in Seats : Good(hand) /\ Check(p) => Played(p)
<1> TAKE p \in Seats
<1> HAVE Good(hand) /\ Check(p)
<1>1. OnTurn(p) /\ ToCall(hand, p) = 0 /\ hand' \in Progress(PutIn(hand, p, 0), p)
  BY DEF Check
<1>2. 0 <= hand.stacks[p] /\ 0 <= ToCall(hand, p)
  BY <1>1, OnTurnFacts
<1> QED BY <1>1, <1>2, PutInGood

LEMMA CallGood == \A p \in Seats : Good(hand) /\ Call(p) => Played(p)
<1> TAKE p \in Seats
<1> HAVE Good(hand) /\ Call(p)
<1> DEFINE c == Lesser(hand.stacks[p], ToCall(hand, p))
<1>1. OnTurn(p) /\ ToCall(hand, p) > 0 /\ hand' \in Progress(PutIn(hand, p, c), p)
  BY DEF Call
<1>2. c \in Nat /\ c <= hand.stacks[p] /\ c <= ToCall(hand, p)
  BY <1>1, OnTurnFacts DEF Lesser
<1> HIDE DEF c
<1> QED BY <1>1, <1>2, PutInGood

LEMMA BetGood == \A p \in Seats : Good(hand) /\ Bet(p) => Played(p)
<1> TAKE p \in Seats
<1> HAVE Good(hand) /\ Bet(p)
<1>1. OnTurn(p)
  BY DEF Bet
<1>2. PICK c \in Lesser(BigBlind, hand.stacks[p]) .. hand.stacks[p] :
        LET h == PutIn(hand, p, c)
        IN  hand' \in Progress(
              [h EXCEPT !.currentBet = IF h.bet[p] > @ THEN h.bet[p] ELSE @,
                        !.lastRaise = IF c > BigBlind THEN c ELSE BigBlind], p)
  BY DEF Bet
<1>3. c \in Nat /\ c <= hand.stacks[p] /\ BigBlind \in Nat
  BY <1>1, <1>2, OnTurnFacts, BlindsAssumption DEF Lesser
<1> DEFINE h == PutIn(hand, p, c)
           b == IF h.bet[p] > h.currentBet THEN h.bet[p] ELSE h.currentBet
           r == IF c > BigBlind THEN c ELSE BigBlind
<1>4. h.currentBet = hand.currentBet /\ h.bet[p] = hand.bet[p] + c
  BY <1>1, <1>3, PutInBet
<1>5. hand' \in Progress([h EXCEPT !.currentBet = b, !.lastRaise = r], p)
  BY <1>2
<1>6. b \in Nat /\ r \in Nat /\ hand.currentBet <= b /\ hand.bet[p] + c <= b
  BY <1>1, <1>3, <1>4, OnTurnFacts
<1> HIDE DEF b, r
<1> QED BY <1>1, <1>3, <1>5, <1>6, PutInOverGood

LEMMA RaiseGood == \A p \in Seats : Good(hand) /\ Raise(p) => Played(p)
<1> TAKE p \in Seats
<1> HAVE Good(hand) /\ Raise(p)
<1> DEFINE most == hand.stacks[p] + hand.bet[p]
           least == Lesser(hand.currentBet + hand.lastRaise, most)
<1>1. OnTurn(p) /\ ToCall(hand, p) > 0 /\ most > hand.currentBet
  BY DEF Raise, MayRaise
<1>2. PICK to \in least .. most :
        LET h == PutIn(hand, p, to - hand.bet[p])
            size == to - hand.currentBet
        IN  hand' \in Progress([h EXCEPT !.currentBet = to,
                                         !.lastRaise = IF size >= @ THEN size ELSE @], p)
  BY DEF Raise
<1> DEFINE c == to - hand.bet[p]
           h == PutIn(hand, p, c)
           r == IF to - hand.currentBet >= h.lastRaise
                THEN to - hand.currentBet ELSE h.lastRaise
<1>3. /\ to \in Nat /\ hand.currentBet <= to /\ c \in Nat
      /\ c <= hand.stacks[p] /\ hand.bet[p] + c <= to
  BY <1>1, <1>2, OnTurnFacts DEF Lesser
<1>4. hand' \in Progress([h EXCEPT !.currentBet = to, !.lastRaise = r], p)
  BY <1>2
<1>5. r \in Nat
  <2>1. hand \in Hand /\ hand.currentBet \in Nat /\ hand.lastRaise \in Nat
    BY <1>1, OnTurnFacts
  <2> HIDE DEF c, r
  <2>2. h.lastRaise = hand.lastRaise
    BY <1>1, <1>3, PutInBet
  <2> QED BY <1>3, <2>1, <2>2 DEF r
<1> HIDE DEF c, r
<1> QED BY <1>1, <1>3, <1>4, <1>5, PutInOverGood DEF h

LEMMA TimeoutGood == \A p \in Seats : Good(hand) /\ TurnTimeout(p) => Played(p)
BY CheckGood, FoldGood DEF TurnTimeout

----------------------------------------------------------------------------
(***************************************************************************)
(* Dealing.                                                                *)
(***************************************************************************)

(* Where the blinds and the first turn are, among two players or more.     *)
LEMMA BlindSeats ==
  ASSUME NEW S \in SUBSET Seats, ~AtMostOne(S), NEW d \in S
  PROVE  /\ SmallBlindSeat(S, d) \in S /\ BigBlindSeat(S, d) \in S
         /\ FirstToAct(S, d) \in S
         /\ FirstToAct(S, d) # BigBlindSeat(S, d)
         /\ SmallBlindSeat(S, d) # BigBlindSeat(S, d)
         /\ FirstToAct(S, d) = SmallBlindSeat(S, d) =>
              FirstToAct(S, d) = d /\ S = {d, SeatAfter(S, d)}
<1> DEFINE a == SeatAfter(S, d)
           s == SmallBlindSeat(S, d)
           b == BigBlindSeat(S, d)
           f == FirstToAct(S, d)
<1>0. S # {} /\ S \subseteq Nat
  BY SeatsAssumption DEF Seats
<1>1. \A q \in S : SeatAfter(S, q) \in S /\ SeatAfter(S, q) # q
  <2> TAKE q \in S
  <2>1. SeatAfter(S, q) \in S
    BY <1>0, SeatAfterProperty
  <2>2. PICK r \in S : r # q
    BY DEF AtMostOne
  <2> QED BY <2>1, <2>2, SeatAfterOther
<1>2. a \in S /\ a # d
  BY <1>1
<1>3. s = IF \A p \in S : p = d \/ p = a THEN d ELSE a
  BY DEF SmallBlindSeat
<1>4. b = SeatAfter(S, s) /\ f = SeatAfter(S, b)
  BY DEF BigBlindSeat, FirstToAct
<1> HIDE DEF a, s, b, f
<1>5. s \in S /\ b \in S /\ f \in S /\ f # b /\ b # s
  BY <1>1, <1>2, <1>3, <1>4
<1>6. ASSUME f = s PROVE f = d /\ S = {d, a}
  <2>1. \A p \in S : p = s \/ p = b
    BY <1>4, <1>5, <1>6, TwoStepsReturn
  <2>2. \A p \in S : p = d \/ p = a
    BY <1>2, <1>3, <1>5, <2>1
  <2> QED BY <1>2, <1>3, <1>6, <2>2
<1> QED BY <1>5, <1>6 DEF a, s, b, f

(* What a deal leads to. *)
Dealt == Good(hand') /\ Worth(hand') = Worth(hand) /\ Stakes!Deal

(* A deal posts two different blinds and gives the turn to a third seat,   *)
(* or heads-up to the dealer, who may be all-in.                           *)
LEMMA DealGood ==
  ASSUME hand \in Hand, ~Live(hand), hand.pot = 0, NEW S \in SUBSET Seats, ~AtMostOne(S),
         NEW d \in S, \A p \in S : hand.stacks[p] > 0, Deal(S, d)
  PROVE  Dealt
<1> DEFINE s == SmallBlindSeat(S, d)
           b == BigBlindSeat(S, d)
           f == FirstToAct(S, d)
           post == [p \in Seats |-> IF p \in S THEN Blind(S, d, p) ELSE 0]
           most == IF post[s] > post[b] THEN post[s] ELSE post[b]
<1>1. /\ s \in S /\ b \in S /\ f \in S /\ f # b /\ s # b
      /\ f = s => f = d /\ S = {d, SeatAfter(S, d)}
  BY BlindSeats
<1>2. \A p \in Seats : hand.stacks[p] \in Nat
  BY DEF Hand
<1>3. ASSUME NEW p \in Seats
      PROVE  /\ post[p] \in Nat /\ post[p] <= hand.stacks[p]
             /\ p # s /\ p # b => post[p] = 0
             /\ p \notin S => post[p] = 0
             /\ p \in S /\ p = s => post[p] = Lesser(hand.stacks[p], SmallBlind)
             /\ p \in S /\ (p = s \/ p = b) => post[p] > 0
  BY <1>2, BlindsAssumption DEF Blind, Lesser
<1>4. hand' = [phase |-> "PREFLOP", seats |-> S, dealer |-> d, turn |-> f,
               stacks |-> [p \in Seats |-> hand.stacks[p] - post[p]],
               start |-> [p \in Seats |-> IF p \in S THEN hand.stacks[p] ELSE 0],
               bet |-> post, contrib |-> post, acted |-> {}, folded |-> {},
               currentBet |-> most, lastRaise |-> BigBlind,
               pot |-> post[s] + post[b], payouts |-> Nothing]
  BY DEF Deal
<1>5. post \in [Seats -> Nat]
  BY <1>3
<1> HIDE DEF s, b, f, post
<1>6. post[s] \in Nat /\ post[b] \in Nat /\ most \in Nat
  BY <1>1, <1>3
<1>7. \A p \in Seats : post[p] <= most
  BY <1>1, <1>3, <1>6
<1> HIDE DEF most
<1>8. [p \in Seats |-> hand.stacks[p] - post[p]] \in [Seats -> Nat]
  BY <1>2, <1>3
<1>9. /\ [p \in Seats |-> IF p \in S THEN hand.stacks[p] ELSE 0] \in [Seats -> Nat]
      /\ Nothing \in [Seats -> Nat]
  BY <1>2 DEF Nothing
<1>10. hand' \in Hand
  BY <1>1, <1>4, <1>5, <1>6, <1>8, <1>9, BlindsAssumption DEF Hand, LivePhases
<1>11. Counted(hand')
  <2> SUFFICES ASSUME NEW p \in Seats
               PROVE  /\ p \in hand'.seats =>
                           hand'.stacks[p] + hand'.contrib[p] = hand'.start[p]
                      /\ hand'.bet[p] <= hand'.contrib[p]
                      /\ hand'.bet[p] <= hand'.currentBet
                      /\ p \notin hand'.seats => hand'.bet[p] = 0
    BY DEF Counted
  <2>1. /\ hand'.stacks[p] = hand.stacks[p] - post[p] /\ hand'.contrib[p] = post[p]
        /\ p \in S => hand'.start[p] = hand.stacks[p]
        /\ hand'.bet[p] = post[p] /\ hand'.currentBet = most /\ hand'.seats = S
    BY <1>4
  <2> QED BY <1>2, <1>3, <1>6, <1>7, <2>1
<1>12. Contenders(hand') = S
  BY <1>4 DEF Contenders
<1>13. CanGoOn(hand')
  <2>1. /\ hand'.turn = f /\ hand'.seats = S /\ hand'.dealer = d
        /\ hand'.phase = "PREFLOP"
        /\ hand'.stacks[f] = hand.stacks[f] - post[f]
        /\ hand'.start[f] = hand.stacks[f]
    BY <1>1, <1>4
  <2>2. CASE hand.stacks[f] - post[f] > 0
    BY <1>1, <1>12, <2>1, <2>2 DEF CanGoOn, Active
  <2>3. CASE ~(hand.stacks[f] - post[f] > 0)
    <3>1. f = s
      BY <1>1, <1>2, <1>3, <2>3
    <3>2. f = d /\ S = {d, SeatAfter(S, d)}
      BY <1>1, <3>1
    <3>3. hand.stacks[f] <= SmallBlind
      BY <1>1, <1>2, <1>3, <2>3, <3>1, BlindsAssumption DEF Lesser
    <3> QED BY <2>1, <3>2, <3>3 DEF CanGoOn, BlindAllIn
  <2> QED BY <2>2, <2>3
<1>14. Even(hand')
  <2>1. /\ hand'.seats = S /\ Active(hand') \subseteq S
        /\ hand'.contrib = post /\ hand'.bet = post
    BY <1>4, <1>12 DEF Active
  <2>2. \A p \in S : post[p] \in Nat
    BY <1>3
  <2> QED BY <2>1, <2>2 DEF Even
<1>15. SumFunction(post) = post[s] + post[b]
  <2> DEFINE none == [p \in Seats |-> 0]
             small == [none EXCEPT ![s] = post[s]]
             both == [small EXCEPT ![b] = post[b]]
  <2>1. s \in Seats /\ b \in Seats /\ post[s] \in Int /\ post[b] \in Int
    BY <1>1, <1>6
  <2>2. none \in [Seats -> Int] /\ \A p \in Seats : none[p] = 0
    OBVIOUS
  <2>3. /\ small \in [Seats -> Int] /\ small[s] = post[s]
        /\ \A p \in Seats : p # s => small[p] = 0
    BY <2>1
  <2>4. post = both
    <3>1. \A p \in Seats : post[p] = both[p]
      BY <1>1, <1>3, <2>1
    <3>2. both \in [Seats -> Int]
      BY <2>1
    <3> HIDE DEF both
    <3> QED BY <1>5, <3>1, <3>2
  <2> HIDE DEF none
  <2>5. SumFunction(none) = 0
    BY <2>2, SeatsFinite, SumOfZeros
  <2>6. SumFunction(small) = SumFunction(none) - none[s] + post[s]
    BY <2>1, <2>2, SeatsFinite, SumUpdate
  <2> HIDE DEF small
  <2>7. SumFunction(both) = SumFunction(small) - small[b] + post[b]
    BY <2>1, <2>3, SeatsFinite, SumUpdate
  <2> HIDE DEF both
  <2> QED BY <1>1, <1>6, <2>1, <2>2, <2>3, <2>4, <2>5, <2>6, <2>7
<1>16. Staked(hand')
  <2>1. hand'.pot = post[s] + post[b] /\ hand'.contrib = post /\ hand'.seats = S
    BY <1>4
  <2> QED BY <1>3, <1>15, <2>1 DEF Staked
<1>17. Worth(hand') = Worth(hand)
  <2> DEFINE left == [p \in Seats |-> hand.stacks[p] - post[p]]
  <2>1. /\ hand'.pot = post[s] + post[b] /\ hand'.stacks = left
        /\ hand.stacks \in [Seats -> Int] /\ post \in [Seats -> Int]
        /\ left \in [Seats -> Int]
        /\ \A p \in Seats : hand.stacks[p] = left[p] + post[p]
    <3>1. \A p \in Seats : post[p] \in Nat /\ hand.stacks[p] \in Nat
      BY <1>2, <1>3
    <3>2. hand.stacks \in [Seats -> Int] /\ post \in [Seats -> Int]
      BY <1>5 DEF Hand
    <3>3. hand'.pot = post[s] + post[b] /\ hand'.stacks = left
      BY <1>4
    <3> QED BY <1>8, <3>1, <3>2, <3>3
  <2> HIDE DEF left
  <2>2. SumFunction(hand.stacks) = SumFunction(left) + SumFunction(post)
    BY <2>1, SeatsFinite, SumAdds
  <2>3. SumFunction(left) \in Int
    BY <2>1, SeatsFinite, SumIsInt
  <2> QED BY <1>6, <1>15, <2>1, <2>2, <2>3 DEF Worth
<1>18. Live(hand')
  BY <1>4 DEF Live, LivePhases
<1>19. Good(hand')
  BY <1>10, <1>11, <1>12, <1>13, <1>14, <1>16, <1>18 DEF Good
<1>20. Stakes!Deal
  <2>1. /\ hand'.stacks = [p \in Seats |-> hand.stacks[p] - post[p]]
        /\ hand'.stacks \in [Seats -> Nat] /\ hand'.contrib = post
    BY <1>4, <1>8
  <2>2. S \in SUBSET {p \in Seats : hand.stacks[p] > 0}
    OBVIOUS
  <2>3. {p \in Seats : post[p] > 0} = {s, b}
    BY <1>1, <1>3
  <2> QED BY <1>1, <1>5, <1>12, <1>18, <2>1, <2>2, <2>3 DEF Stakes!Deal
<1> QED BY <1>17, <1>19, <1>20 DEF Dealt

(* Both ways of starting a hand deal to two players or more, from a table  *)
(* without a pot.                                                          *)
LEMMA StartGood == Good(hand) /\ (StartFirstHand \/ StartNextHand) => Dealt
<1> HAVE Good(hand) /\ (StartFirstHand \/ StartNextHand)
<1>1. /\ hand \in Hand /\ ~Live(hand) /\ hand.pot = 0
      /\ Playing \in SUBSET Seats /\ ~AtMostOne(Playing)
  <2>1. ~Live(hand)
    BY DEF StartFirstHand, StartNextHand, Live, LivePhases
  <2> QED BY <2>1 DEF Good, PaidOut, StartFirstHand, StartNextHand, Playing
<1>2. \A p \in Playing : hand.stacks[p] > 0
  <2>1. \A p \in Seats : hand.stacks[p] \in Nat
    BY <1>1 DEF Hand
  <2> QED BY <2>1 DEF Playing, CanPlay
<1>3. Playing # {}
  BY <1>1 DEF AtMostOne
<1>4. Min(Playing) \in Playing
  BY <1>1, <1>3, MinOfSeats
<1>5. hand.dealer \in Playing => SeatAfter(Playing, hand.dealer) \in Playing
  <2>1. Seats \subseteq Nat
    BY SeatsAssumption DEF Seats
  <2> QED BY <1>1, <1>3, <2>1, SeatAfterProperty
<1>6. PICK d \in Playing : Deal(Playing, d)
  BY <1>4, <1>5 DEF StartFirstHand, StartNextHand
<1> QED BY <1>1, <1>2, <1>6, DealGood

----------------------------------------------------------------------------
(***************************************************************************)
(* The theorems.                                                           *)
(***************************************************************************)
LEMMA InitGood == Init => Good(hand)
<1> HAVE Init
<1>1. PICK stacks \in [Seats -> BuyIns] :
    hand = [phase |-> "LOBBY", seats |-> {}, dealer |-> NoSeat, turn |-> NoSeat,
            stacks |-> stacks, start |-> Nothing, bet |-> Nothing,
            contrib |-> Nothing, acted |-> {}, folded |-> {}, currentBet |-> 0,
            lastRaise |-> 0, pot |-> 0, payouts |-> Nothing]
  BY DEF Init
<1>2. stacks \in [Seats -> Nat] /\ Nothing \in [Seats -> Nat]
  BY BuyInsAssumption DEF Nothing
<1>3. hand \in Hand /\ ~Live(hand) /\ PaidOut(hand)
  BY <1>1, <1>2 DEF Hand, Live, LivePhases, PaidOut
<1> QED BY <1>3 DEF Good

(* Every step keeps the hand good and the chips of the table, and is a     *)
(* step of HandStakes.                                                     *)
LEMMA NextGood ==
  Good(hand) /\ Next => Good(hand') /\ Worth(hand') = Worth(hand) /\ Stakes!Next
<1> SUFFICES ASSUME Good(hand), Next
             PROVE  Good(hand') /\ Worth(hand') = Worth(hand) /\ Stakes!Next
  OBVIOUS
<1>1. CASE StartFirstHand \/ StartNextHand
  BY <1>1, StartGood DEF Dealt, Stakes!Next
<1>2. ASSUME NEW p \in Seats, Act(p) \/ TurnTimeout(p)
      PROVE  Good(hand') /\ Worth(hand') = Worth(hand) /\ Stakes!Next
  <2>1. Played(p)
    BY <1>2, OutOfTurnFoldGood, FoldGood, CheckGood, CallGood, BetGood, RaiseGood,
       TimeoutGood DEF Act
  <2> QED BY <2>1 DEF Played, Stakes!Next
<1> QED BY <1>1, <1>2 DEF Next

(* The invariant, of the hand of the table. *)
GoodHand == Good(hand)

LEMMA AlwaysGood == Spec => []GoodHand
<1>1. Init => GoodHand
  BY InitGood DEF GoodHand
<1>2. GoodHand /\ [Next]_hand => GoodHand'
  BY NextGood DEF GoodHand
<1> QED BY <1>1, <1>2, PTL DEF Spec

(* The hand is a hand in every state: whatever the blinds, the buy-ins and *)
(* the bets, no stack, bet, contribution, pot or payout is ever negative,  *)
(* although applyAction, normalizeHandStakes and the settlement subtract.  *)
THEOREM HandTypes == Spec => []TypeOK
<1>1. GoodHand => TypeOK
  BY DEF GoodHand, Good, TypeOK
<1> QED BY <1>1, AlwaysGood, PTL

(* What a player misses during a hand is what he contributed, and no bet   *)
(* exceeds the bet to match, through every action and street of the        *)
(* reducer, whoever plays.                                                 *)
THEOREM HandAccounted == Spec => []HandAccounting
<1>1. GoodHand => HandAccounting
  BY DEF GoodHand, Good, Counted, HandAccounting
<1> QED BY <1>1, AlwaysGood, PTL

(* No street starts with a bet unanswered, at any table and through every  *)
(* fold, all-in and street: who can still bet has brought in as much as    *)
(* anybody.  Betting closes only when all who can bet have matched the bet *)
(* (areActedPlayersMatched), so a street adds the same to each of them.    *)
THEOREM StreetsAlwaysStartEven == Spec => []StreetsStartEven
<1>1. GoodHand => StreetsStartEven
  BY DEF GoodHand, Good, Even, StreetsStartEven, CarriedIn
<1> QED BY <1>1, AlwaysGood, PTL

(* In a live hand the turn is with a player who can bet: it is never given *)
(* to nobody, to a folded or to an all-in player, at any table, save       *)
(* heads-up to a dealer the small blind put all-in.                        *)
THEOREM TurnAlwaysActs == Spec => []TurnCanAct
<1>1. GoodHand => TurnCanAct
  BY DEF GoodHand, Good, CanGoOn, TurnCanAct
<1> QED BY <1>1, AlwaysGood, PTL

(* No chip is made or lost while hands are played: whatever the blinds,    *)
(* the all-ins, the side pots, the odd chips and the folded contributions, *)
(* what the players have and the pot add up to the same after every step.  *)
THEOREM ChipsAlwaysConserved == Spec => ChipsConserved
<1>1. GoodHand /\ [Next]_hand => [TableChips' = TableChips]_hand
  <2> SUFFICES ASSUME GoodHand, [Next]_hand PROVE TableChips' = TableChips
    OBVIOUS
  <2>1. Worth(hand') = Worth(hand)
    BY NextGood DEF GoodHand
  <2> QED BY <2>1 DEF TableChips, Worth
<1> QED BY <1>1, AlwaysGood, PTL DEF Spec, ChipsConserved

(* Whatever a showdown ranks, in any state of a live hand, what it awards  *)
(* are chip amounts, never less than nothing: the checks of                *)
(* materializeShowdownAndPayout on what it credits do not refuse it.       *)
THEOREM ShowdownsPayChips ==
  Spec => [](Live(hand) => ShowdownPayouts(hand) \subseteq [Seats -> Nat])
<1>1. GoodHand => (Live(hand) => ShowdownPayouts(hand) \subseteq [Seats -> Nat])
  <2> SUFFICES ASSUME GoodHand, Live(hand) PROVE ShowdownPayouts(hand) \subseteq [Seats -> Nat]
    OBVIOUS
  <2>1. Midway(hand)
    BY DEF GoodHand, Good, Midway, AtMostOne
  <2> QED BY <2>1, ShowdownPays DEF Fair
<1> QED BY <1>1, AlwaysGood, PTL

(* Nobody wins more of a pot than he matched: a short all-in takes from    *)
(* each opponent at most what he put in himself, and nobody is paid his    *)
(* uncalled chips twice, for any number of players and levels.             *)
THEOREM NobodyOverclaims == Spec => []NoOverclaim
<1>1. GoodHand => NoOverclaim
  <2>1. hand.phase = "SETTLED" => ~Live(hand)
    BY DEF Live, LivePhases
  <2> QED BY <2>1 DEF GoodHand, Good, PaidOut, NoOverclaim
<1> QED BY <1>1, AlwaysGood, PTL

(* The engine implements HandStakes, at every table and whatever the cards *)
(* are: through deals, streets, side pots and timeouts, a stack shrinks    *)
(* only by what its own player puts in, the hand goes on only among two,   *)
(* and when it ends exactly what was put in is given out, to each at most  *)
(* what he can claim, to who folded at most what he put in himself.        *)
THEOREM ImplementsHandStakes == Spec => HandStakesSpec
<1> DEFINE seen == <<hand.stacks, IF Live(hand) THEN hand.contrib ELSE Nothing,
                     IF Live(hand) THEN Contenders(hand) ELSE {}>>
<1>1. Init => Stakes!Init
  <2> HAVE Init
  <2>1. PICK stacks \in [Seats -> BuyIns] : hand.stacks = stacks /\ hand.phase = "LOBBY"
    BY DEF Init
  <2>2. hand.stacks \in [Seats -> Nat] /\ ~Live(hand)
    BY <2>1, BuyInsAssumption DEF Live, LivePhases
  <2> QED BY <2>2 DEF Stakes!Init, Nothing
<1>2. GoodHand /\ [Next]_hand => [Stakes!Next]_seen
  <2>1. CASE Next
    BY <2>1, NextGood DEF GoodHand
  <2>2. CASE UNCHANGED hand
    BY <2>2
  <2> QED BY <2>1, <2>2
<1> QED BY <1>1, <1>2, AlwaysGood, PTL DEF Spec, HandStakesSpec, Stakes!Spec
=============================================================================
