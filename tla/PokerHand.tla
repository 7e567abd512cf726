----------------------------- MODULE PokerHand -----------------------------
(***************************************************************************)
(* The hands played at one table: the pure engine the WS server keeps in   *)
(* memory (poker-engine.mjs), its action reducer, the turn-timeout         *)
(* decision and the settlement.  One handler is one action:                *)
(*   StartFirstHand  bootstrapCoreStateHand                                *)
(*   StartNextHand   buildNextHandStateFromSettled                         *)
(*   Fold/Check/Call/Bet/Raise   applyCoreStateAction                      *)
(*   TurnTimeout     applyCoreStateTurnTimeout                             *)
(* Abstracted: cards (a showdown ranks the contenders in any way), clocks  *)
(* (a turn may time out at any moment), identities (a seat is its player). *)
(* Not here: players leaving or joining, bot replacement and rebuys.       *)
(***************************************************************************)
EXTENDS PokerSettlement

CONSTANTS
  NSeats,       \* seats of the table, numbered 1..NSeats
  Bots,         \* the seats bots play
  SmallBlind,
  BigBlind,
  BuyIns,       \* stacks a player may sit down with
  Ranks         \* strengths a hand may have at showdown

ASSUME SeatsAssumption == NSeats \in Nat
ASSUME BotsAssumption == Bots \subseteq 1..NSeats
ASSUME BlindsAssumption ==      \* normalizeHandStakes accepts nothing else
  SmallBlind \in Nat \ {0} /\ BigBlind \in Nat /\ BigBlind > SmallBlind
ASSUME BuyInsAssumption == BuyIns \subseteq Nat
ASSUME RanksAssumption == Ranks \subseteq Int

VARIABLE hand       \* the pokerState of the table

Seats == 1..NSeats
NoSeat == 0
LivePhases == {"PREFLOP", "FLOP", "TURN", "RIVER"}
NextPhase == [PREFLOP |-> "FLOP", FLOP |-> "TURN", TURN |-> "RIVER"]

Hand == [phase: LivePhases \cup {"LOBBY", "SETTLED"},
         seats: SUBSET Seats,         \* handSeats: who was dealt in
         dealer: Seats \cup {NoSeat},
         turn: Seats \cup {NoSeat},
         stacks: [Seats -> Nat],
         start: [Seats -> Nat],       \* handStartStacksByUserId
         bet: [Seats -> Nat],         \* betThisRoundByUserId
         contrib: [Seats -> Nat],
         acted: SUBSET Seats,
         folded: SUBSET Seats,
         currentBet: Nat,
         lastRaise: Nat,
         pot: Nat,
         payouts: [Seats -> Nat]]     \* handSettlement.payouts

Nothing == [p \in Seats |-> 0]

Live(h) == h.phase \in LivePhases
Contenders(h) == h.seats \ h.folded
Active(h) == {p \in Contenders(h) : h.stacks[p] > 0}
ToCall(h, p) == IF h.currentBet > h.bet[p] THEN h.currentBet - h.bet[p] ELSE 0
AtMostOne(S) == \A p, q \in S : p = q

(* The first member of S met going round the table from seat s.            *)
SeatAfter(S, s) ==
  LET above == {p \in S : p > s} IN IF above # {} THEN Min(above) ELSE Min(S)

(* Mutant: only who acted counts, not whether he matched the bet.          *)
BettingClosedUnmatched(h) == AtMostOne(Active(h)) \/ Active(h) \subseteq h.acted

BettingClosed(h) ==
  /\ \A p \in Active(h) : ToCall(h, p) = 0
  /\ AtMostOne(Active(h)) \/ h.currentBet > 0 \/ Active(h) \subseteq h.acted

(***************************************************************************)
(* Settlement: the whole pot to a last contender, else the pots at         *)
(* showdown for some strength of each hand.  The amounts credited must be  *)
(* chip amounts, or the code throws and keeps the state it had.            *)
(***************************************************************************)
Pay(h, payouts) ==
  [h EXCEPT !.phase = "SETTLED", !.turn = NoSeat, !.pot = 0,
            !.stacks = [p \in Seats |-> h.stacks[p] + payouts[p]],
            !.payouts = payouts]

ShowdownPayouts(h) ==
  LET dealt == [p \in h.seats |-> h.contrib[p]]
      award(rank) == AwardPots(dealt, Contenders(h), rank)
  IN  {[p \in Seats |-> IF p \in h.seats THEN award(rank)[p] ELSE 0] :
         rank \in [Contenders(h) -> Ranks]}

Settle(h) ==
  IF Contenders(h) = {} THEN {h}
  ELSE IF AtMostOne(Contenders(h))
       THEN {Pay(h, [p \in Seats |-> IF p \in Contenders(h) THEN h.pot ELSE 0])}
       ELSE {Pay(h, payouts) :
               payouts \in {x \in ShowdownPayouts(h) : x \in [Seats -> Nat]}}

(***************************************************************************)
(* Streets.  advanceClosedStreets loops while betting is closed: with two  *)
(* or more players able to bet the next street is open, with fewer every   *)
(* street is closed until the river settles the hand.                      *)
(***************************************************************************)
ResetRound(h) ==
  [h EXCEPT !.currentBet = 0, !.acted = @ \ h.seats,
            !.bet = [p \in Seats |-> IF p \in h.seats THEN 0 ELSE @[p]]]

(* Mutant: the first player left after the button opens, all-in or not.    *)
NextStreetToAllIn(h) ==
  [ResetRound(h) EXCEPT !.phase = NextPhase[@],
                        !.turn = SeatAfter(Contenders(h), h.dealer)]

NextStreet(h) ==
  [ResetRound(h) EXCEPT !.phase = NextPhase[@],
                        !.turn = SeatAfter(Active(h), h.dealer)]

(* resolveNextTurnUserId after seat p acted. *)
NextTurn(h, p) ==
  IF AtMostOne(Active(h))
  THEN IF \E q \in Active(h) : ToCall(h, q) > 0
       THEN CHOOSE q \in Active(h) : TRUE ELSE NoSeat
  ELSE SeatAfter(Active(h), p)

(* What follows the action of the seat p on turn; hand h has its chips in. *)
Progress(h, p) ==
  IF AtMostOne(Contenders(h)) THEN Settle(h)
  ELSE IF ~BettingClosed(h) THEN {[h EXCEPT !.turn = NextTurn(h, p)]}
  ELSE IF h.phase = "RIVER" THEN Settle(h)
  ELSE IF AtMostOne(Active(h)) THEN Settle(ResetRound(h))
  ELSE {NextStreet(h)}

(* Seat p puts c chips in. *)
PutIn(h, p, c) ==
  [h EXCEPT !.stacks[p] = @ - c, !.bet[p] = @ + c, !.contrib[p] = @ + c,
            !.pot = @ + c, !.acted = @ \cup {p}]

FoldSeat(h, p) == [h EXCEPT !.folded = @ \cup {p}, !.acted = @ \cup {p}]

----------------------------------------------------------------------------
(***************************************************************************)
(* Actions.                                                                *)
(***************************************************************************)

(* On turn nothing is legal without chips (computeLegalActionsForSeatedPlayer) *)
OnTurn(p) == Live(hand) /\ hand.turn = p /\ p \in Active(hand)

(* FOLD is also legal for a player in the hand who is not on turn: the     *)
(* turn stays where it is and the street does not move.                    *)
OutOfTurnFold(p) ==
  /\ Live(hand) /\ hand.turn # NoSeat
  /\ p \in Contenders(hand) /\ p # hand.turn
  /\ hand' \in LET h == FoldSeat(hand, p)
               IN  IF AtMostOne(Contenders(h)) THEN Settle(h) ELSE {h}

Fold(p) == OnTurn(p) /\ hand' \in Progress(FoldSeat(hand, p), p)

Check(p) ==
  /\ OnTurn(p)
  /\ ToCall(hand, p) = 0
  /\ hand' \in Progress(PutIn(hand, p, 0), p)

(* Mutant: a call is not capped to the stack.                              *)
CallInFull(p) ==
  /\ OnTurn(p)
  /\ ToCall(hand, p) > 0
  /\ hand' \in Progress(PutIn(hand, p, ToCall(hand, p)), p)

Call(p) ==
  /\ OnTurn(p)
  /\ ToCall(hand, p) > 0
  /\ hand' \in Progress(PutIn(hand, p, Lesser(hand.stacks[p], ToCall(hand, p))), p)

Bet(p) ==
  /\ OnTurn(p)
  /\ ToCall(hand, p) = 0
  /\ \E c \in Lesser(BigBlind, hand.stacks[p]) .. hand.stacks[p] :
       LET h == PutIn(hand, p, c)
       IN  hand' \in Progress(
             [h EXCEPT !.currentBet = IF h.bet[p] > @ THEN h.bet[p] ELSE @,
                       !.lastRaise = IF c > BigBlind THEN c ELSE BigBlind], p)

(* Who already acted may raise again only when facing a full raise. *)
MayRaise(p) ==
  /\ p \notin hand.acted \/ ToCall(hand, p) >= hand.lastRaise
  /\ hand.stacks[p] + hand.bet[p] > hand.currentBet

(* Mutant: the amount of a raise is added to the bet, not raised to.       *)
RaiseBy(p) ==
  /\ OnTurn(p)
  /\ ToCall(hand, p) > 0
  /\ MayRaise(p)
  /\ \E to \in hand.currentBet + 1 .. hand.stacks[p] :
       hand' \in Progress([PutIn(hand, p, to) EXCEPT !.currentBet = to], p)

Raise(p) ==
  /\ OnTurn(p)
  /\ ToCall(hand, p) > 0
  /\ MayRaise(p)
  /\ LET most == hand.stacks[p] + hand.bet[p]
         least == Lesser(hand.currentBet + hand.lastRaise, most)
     IN  \E to \in least .. most :
           LET h == PutIn(hand, p, to - hand.bet[p])
               size == to - hand.currentBet
           IN  hand' \in Progress(
                 [h EXCEPT !.currentBet = to,
                           !.lastRaise = IF size >= @ THEN size ELSE @], p)

(* Mutant: a timeout only ever checks.                                     *)
TimeoutChecks(p) == OnTurn(p) /\ ToCall(hand, p) = 0 /\ Check(p)

(* The deadline of the turn passed: CHECK if it is legal, else FOLD. *)
TurnTimeout(p) ==
  IF OnTurn(p) /\ ToCall(hand, p) = 0 THEN Check(p) ELSE Fold(p)

(***************************************************************************)
(* Dealing: players in seats S, the button at d, the stacks as they are.   *)
(***************************************************************************)
CanPlay(p) == hand.stacks[p] >= IF p \in Bots THEN 2 ELSE 1
Playing == {p \in Seats : CanPlay(p)}

SmallBlindSeat(S, d) == IF \A p \in S : p = d \/ p = SeatAfter(S, d)
                        THEN d ELSE SeatAfter(S, d)
BigBlindSeat(S, d) == SeatAfter(S, SmallBlindSeat(S, d))
FirstToAct(S, d) == SeatAfter(S, BigBlindSeat(S, d))

Blind(S, d, p) ==
  Lesser(hand.stacks[p], IF p = SmallBlindSeat(S, d) THEN SmallBlind
                         ELSE IF p = BigBlindSeat(S, d) THEN BigBlind ELSE 0)

Deal(S, d) ==
  LET post == [p \in Seats |-> IF p \in S THEN Blind(S, d, p) ELSE 0]
      sb == post[SmallBlindSeat(S, d)]
      bb == post[BigBlindSeat(S, d)]
  IN  hand' = [phase |-> "PREFLOP", seats |-> S, dealer |-> d,
               turn |-> FirstToAct(S, d),
               stacks |-> [p \in Seats |-> hand.stacks[p] - post[p]],
               start |-> [p \in Seats |-> IF p \in S THEN hand.stacks[p] ELSE 0],
               bet |-> post, contrib |-> post, acted |-> {}, folded |-> {},
               currentBet |-> IF sb > bb THEN sb ELSE bb,
               lastRaise |-> BigBlind, pot |-> sb + bb, payouts |-> Nothing]

StartFirstHand ==
  /\ hand.phase = "LOBBY"
  /\ ~AtMostOne(Playing)
  /\ Deal(Playing, Min(Playing))

(* The button moves to the next eligible seat, or to the first one when    *)
(* the last dealer is not in the hand any more (resolveNextDealerSeatNo).  *)
StartNextHand ==
  /\ hand.phase = "SETTLED"
  /\ ~AtMostOne(Playing)
  /\ Deal(Playing, IF hand.dealer \in Playing
                   THEN SeatAfter(Playing, hand.dealer) ELSE Min(Playing))

(* Everybody sits down with a buy-in; a bot's is never the one chip he     *)
(* could not play with (isBotFundingAllowedForBuyIn).                      *)
Init ==
  \E stacks \in [Seats -> BuyIns] :
    /\ \A p \in Bots : stacks[p] >= 2
    /\ hand = [phase |-> "LOBBY", seats |-> {}, dealer |-> NoSeat, turn |-> NoSeat,
               stacks |-> stacks, start |-> Nothing, bet |-> Nothing,
               contrib |-> Nothing, acted |-> {}, folded |-> {}, currentBet |-> 0,
               lastRaise |-> 0, pot |-> 0, payouts |-> Nothing]

Act(p) == OutOfTurnFold(p) \/ Fold(p) \/ Check(p) \/ Call(p) \/ Bet(p) \/ Raise(p)

Next ==
  \/ StartFirstHand
  \/ StartNextHand
  \/ \E p \in Seats : Act(p) \/ TurnTimeout(p)

(* The server's timeout sweep never stops; players owe it nothing. *)
Fairness == WF_hand(\E p \in Seats : TurnTimeout(p))

Spec == Init /\ [][Next]_hand
FairSpec == Spec /\ Fairness

----------------------------------------------------------------------------
(***************************************************************************)
(* Properties.                                                             *)
(***************************************************************************)

TypeOK == hand \in Hand

(* Chips neither appear nor vanish while hands are played: stacks and pot  *)
(* together are the same before and after every step, whatever the pots.   *)
TableChips == hand.pot + SumFunction(hand.stacks)
ChipsConserved == [][TableChips' = TableChips]_hand

(* Every chip a player is missing during a hand is accounted for as his    *)
(* contribution, and no bet of the round exceeds the bet to match.         *)
HandAccounting ==
  Live(hand) => \A p \in Seats :
    /\ p \in hand.seats => hand.stacks[p] + hand.contrib[p] = hand.start[p]
    /\ hand.bet[p] <= hand.contrib[p]
    /\ hand.bet[p] <= hand.currentBet

(* The chips brought in from earlier streets are the same for all players  *)
(* who can still bet, and nobody, folded or all-in, brought in more: a     *)
(* street never starts with a bet unanswered.                              *)
CarriedIn(p) == hand.contrib[p] - hand.bet[p]
StreetsStartEven ==
  Live(hand) => \A p \in Active(hand), q \in hand.seats : CarriedIn(q) <= CarriedIn(p)

(* The player on turn can act, so that the hand can go on.  The one hole:  *)
(* heads-up, the dealer put all-in by the small blind is given the turn.   *)
BlindAllIn(h) ==
  /\ h.phase = "PREFLOP"
  /\ h.seats = {h.dealer, SeatAfter(h.seats, h.dealer)}
  /\ h.turn = h.dealer
  /\ h.start[h.dealer] <= SmallBlind
TurnCanAct == Live(hand) => hand.turn \in Active(hand) \/ BlindAllIn(hand)

(* Nobody wins from an opponent who stayed in more than he put in himself. *)
Matched(h, p) ==
  [q \in Seats |-> IF q \notin h.seats THEN 0
                   ELSE IF q \in h.folded THEN h.contrib[q]
                   ELSE Lesser(h.contrib[p], h.contrib[q])]
NoOverclaim ==
  hand.phase = "SETTLED" => \A p \in Contenders(hand) :
    hand.payouts[p] <= SumFunction(Matched(hand, p))

(* The engine keeps what HandStakes promises about chips: through streets, *)
(* turns and side pots, nobody's chips move but by his own action until    *)
(* the hand is over, and then every chip put in is given out as claimed.   *)
Stakes == INSTANCE HandStakes WITH
            stacks <- hand.stacks,
            staked <- IF Live(hand) THEN hand.contrib ELSE Nothing,
            in <- IF Live(hand) THEN Contenders(hand) ELSE {}
HandStakesSpec == Stakes!Spec

(* Every hand comes to an end if the timeout sweep runs, save the hand     *)
(* that was dealt into that hole, which ends only if the big blind folds   *)
(* out of turn (docs/poker-human-bust-and-rebuy-analysis.md supposes that  *)
(* a player short of the blind posts what he has and plays the hand).      *)
HandsEnd == (Live(hand) /\ ~BlindAllIn(hand)) ~> hand.phase = "SETTLED"

(***************************************************************************)
(* What the repository says and the code does not do.                      *)
(***************************************************************************)

(* Who has not acted keeps his option (poker-primitives.mjs), the big      *)
(* blind too: no flop before everyone who can bet had his turn.            *)
PreflopOption ==
  [][hand.phase = "PREFLOP" /\ hand'.phase = "FLOP"
       => Active(hand') \subseteq hand.acted \cup {hand.turn}]_hand
=============================================================================
