-------------------------- MODULE PokerSettlement --------------------------
(***************************************************************************)
(* The money side of a showdown: side pots, the return of the uncalled     *)
(* part of a bet, and the split of each pot.  Pure operators over          *)
(*   C  - the seats dealt into the hand mapped to what each has put in     *)
(*        (contributionsByUserId), and                                     *)
(*   E  - the seats still in the hand (not folded), and                    *)
(*   rank - the strength of the hand of every seat of E.                   *)
(* Seats are numbers, so seat order is the order of the numbers.  Cards    *)
(* are abstracted to the strength they amount to (poker-eval.mjs).         *)
(***************************************************************************)
EXTENDS Integers, FiniteSets, FiniteSetsExt

Lesser(a, b) == IF a < b THEN a ELSE b

(* What the others could at most be asked to match: a contribution above   *)
(* every other one is capped to the second highest.                        *)
Contestable(C, p) ==
  LET others == {C[q] : q \in DOMAIN C \ {p}}
  IN  IF others = {} THEN C[p] ELSE Lesser(C[p], Max(others))

(* The uncalled part of a bet goes back to who made it, folded or not.     *)
UncalledReturn(C, p) == C[p] - Contestable(C, p)

Levels(C) == {Contestable(C, p) : p \in DOMAIN C} \ {0}

PreviousLevel(C, l) == Max({0} \cup {m \in Levels(C) : m < l})

Contributors(C, l) == {p \in DOMAIN C : Contestable(C, p) >= l}

BandAmount(C, l) ==
  (l - PreviousLevel(C, l)) * Cardinality(Contributors(C, l))

ContestedLevels(C, E) == {l \in Levels(C) : Contributors(C, l) \cap E # {}}

(* Bands only folded seats reached are dead money in the nearest contested *)
(* pot below; when no band is contested everybody contests all of it.      *)
DeadMoney(C, E) ==
  SumFunctionOnSet([l \in Levels(C) |-> BandAmount(C, l)],
                   Levels(C) \ ContestedLevels(C, E))

(* Mutant: everyone still in contests every pot.                           *)
PotsOpenToAll(C, E) ==
  {[level |-> l, amount |-> BandAmount(C, l), eligible |-> E] : l \in Levels(C)}

Pots(C, E) ==
  LET contested == ContestedLevels(C, E)
      top == Max(contested)
  IN  IF contested = {}
      THEN {[level |-> 0, amount |-> DeadMoney(C, E), eligible |-> E]}
      ELSE {[level |-> l,
             amount |-> BandAmount(C, l)
                          + IF l = top THEN DeadMoney(C, E) ELSE 0,
             eligible |-> Contributors(C, l) \cap E] : l \in contested}

PotWinners(pot, rank) ==
  {p \in pot.eligible : \A q \in pot.eligible : rank[q] <= rank[p]}

(* Mutant: the odd chips of a split are dropped.                           *)
ShareWithoutOddChips(pot, rank, p) ==
  LET winners == PotWinners(pot, rank)
  IN  IF p \in winners THEN pot.amount \div Cardinality(winners) ELSE 0

(* Equal shares; the odd chips go one each to the first winners in seat    *)
(* order.                                                                  *)
Share(pot, rank, p) ==
  LET winners == PotWinners(pot, rank)
      n == Cardinality(winners)
      ahead == Cardinality({q \in winners : q < p})
  IN  IF p \notin winners THEN 0
      ELSE (pot.amount \div n) + IF ahead < pot.amount % n THEN 1 ELSE 0

(* Mutant: who folded forfeits the uncalled part of his bet too.           *)
AwardPotsForfeit(C, E, rank) ==
  [p \in DOMAIN C |-> (IF p \in E THEN UncalledReturn(C, p) ELSE 0)
     + SumFunction([pot \in Pots(C, E) |-> Share(pot, rank, p)])]

AwardPots(C, E, rank) ==
  [p \in DOMAIN C |-> UncalledReturn(C, p)
     + SumFunction([pot \in Pots(C, E) |-> Share(pot, rank, p)])]

=============================================================================
